SPECIFICATION MCSpec
CONSTANTS
    Accounts = {a, b, c}
    Admins = {a, b}
    Newcomers = {c}
    Requests = {r1, r2}
    Changes <- MCChanges
    MaxTokens = 4
    Nil = Nil
    Clear = Clear
    People = {ann, bob, eve}
    First = ann
    Outside = {eve}
    AdminRequests = {r1, r2}
    KeyScopes <- MCKeyScopes
    Nothing = Nothing
    Home = Home
    Away = Away
    Users = {founder, a, b}
    Creator = founder
    Calls = {r1, r2, r3}
    None = None
SYMMETRY Symmetry
CHECK_DEADLOCK FALSE
INVARIANTS
    AccountsAreGoverned
    CookiesMatchSessions
    AdminTellsTheTruth
    TablesAreGuarded
    AdministratorRemains
    RevisionsAreKept
    ReviewsAreSafe
PROPERTIES
    HistoryKept
