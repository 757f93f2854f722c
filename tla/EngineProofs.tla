----------------------------- MODULE EngineProofs -----------------------------
(***************************************************************************)
(* What the engines guarantee: the search for the best flight, for every   *)
(* request, every grid and whatever the calculation says of a candidate;   *)
(* the cutting plan, for every list of parts, every catalogue of stock     *)
(* sheets and every width of the cut; the dependency graph and the         *)
(* parametric model, for any nodes and any sequence of operations; the     *)
(* price, for every package or project and any rates.                      *)
(***************************************************************************)
EXTENDS Optimizer, Nesting, ParametricModel, Pricing, SequenceTheorems,
        FiniteSetTheorems, WellFoundedInduction, TLAPS

-----------------------------------------------------------------------------
(* The optimizer.  The invariant is about the part of the grid the cursor   *)
(* has passed: Advance makes exactly one more candidate of the grid part of *)
(* it (AdvancePasses), and past the last number of steps it is the whole    *)
(* grid (AllPassed).  Nothing is said of a search whose context was         *)
(* cancelled: it ends without a stair, because Recalculate fails.           *)

\* A quotient of positive integers is an integer, and not negative.
LEMMA QuotientNotNegative ==
    ASSUME NEW a \in Int, NEW b \in Int, a > 0, b > 0
    PROVE  a \div b \in Int /\ a \div b >= 0
BY Z3

\* The numbers of a request.
LEMMA RequestFields ==
    ASSUME NEW r \in Requests
    PROVE  /\ r.height \in Int /\ r.width \in Int /\ r.radius \in Int
           /\ r.stepMin \in Int /\ r.stepMax \in Int
           /\ r.comfortMin \in Int /\ r.comfortMax \in Int /\ r.grid \in Int
<1>1. r \in Request
  BY RequestsAssumption
<1> QED
  BY <1>1, Zenon DEF Request

\* The bounds of a request are integers, and every n has a division and a
\* comfort step to try.
LEMMA BoundsType ==
    ASSUME NEW r \in Requests
    PROVE  /\ StepCountMin(r) \in Int /\ StepCountMax(r) \in Int
           /\ LowerStepMax(r) \in Int /\ LowerStepMax(r) >= 1
           /\ comfortPoints(r) \in Int /\ comfortPoints(r) >= 1
<1>1. StepCountMin(r) \in Int /\ StepCountMax(r) \in Int
  <2>1. Turn(r) \in Int
    BY RequestFields DEF Turn
  <2>2. FewestOfTurn(r) \in Int /\ MostOfTurn(r) \in Int
    BY <2>1 DEF FewestOfTurn, MostOfTurn
  <2> QED
    BY <2>2, RequestFields DEF StepCountMin, StepCountMax, Larger, Smaller, Given
<1>2. LowerStepMax(r) \in Int /\ LowerStepMax(r) >= 1
  BY <1>1 DEF LowerStepMax, Larger
<1>3. comfortPoints(r) \in Int /\ comfortPoints(r) >= 1
  <2> DEFINE lo == ComfortMin(r)
             hi == ComfortMax(r)
             g == Given(r.grid, 2)
  <2>1. lo \in Int /\ hi \in Int /\ g \in Int /\ g > 0
    BY RequestFields DEF ComfortMin, ComfortMax, Given
  <2> HIDE DEF lo, hi, g
  <2>2. hi > lo => (hi - lo) \div g \in Int /\ (hi - lo) \div g >= 0
    BY <2>1, QuotientNotNegative
  <2> QED
    BY <2>1, <2>2 DEF comfortPoints, lo, hi, g
<1> QED
  BY <1>1, <1>2, <1>3

\* The next candidate is in the grid, or one past its last number of steps.
Next3(r) == (StepCountMin(r)..(StepCountMax(r) + 1))
              \X (1..LowerStepMax(r)) \X (1..comfortPoints(r))

\* Advance stays in the grid or leaves it at its end, and a candidate of the
\* grid is before the next one exactly when it was before this one or is this
\* one: none is left out and none is tried twice.
LEMMA AdvancePasses ==
    ASSUME req \in Requests, cursor \in Grid(req)
    PROVE  /\ Advance \in Next3(req)
           /\ \A k \in Grid(req) : Before(k, Advance) <=> Before(k, cursor) \/ k = cursor
<1> DEFINE m == StepCountMin(req)
           M == StepCountMax(req)
           L == LowerStepMax(req)
           P == comfortPoints(req)
<1>1. m \in Int /\ M \in Int /\ L \in Int /\ L >= 1 /\ P \in Int /\ P >= 1
  BY BoundsType
<1> HIDE DEF m, M, L, P
<1>2. cursor \in (m..M) \X (1..L) \X (1..P)
  BY DEF Grid, m, M, L, P
<1>3. PICK a \in m..M, b \in 1..L, c \in 1..P : cursor = <<a, b, c>>
  BY <1>2
<1>4. Advance = IF c < P THEN <<a, b, c + 1>>
                ELSE IF b < L THEN <<a, b + 1, 1>> ELSE <<a + 1, 1, 1>>
  BY <1>3 DEF Advance, L, P
<1>5. Advance \in (m..(M + 1)) \X (1..L) \X (1..P)
  BY <1>1, <1>3, <1>4
<1>6. ASSUME NEW k \in Grid(req)
      PROVE  Before(k, Advance) <=> Before(k, cursor) \/ k = cursor
  <2>1. PICK x \in m..M, y \in 1..L, z \in 1..P : k = <<x, y, z>>
    BY DEF Grid, m, M, L, P
  <2>2. Before(k, cursor) \/ k = cursor <=>
          x < a \/ (x = a /\ (y < b \/ (y = b /\ z <= c)))
    BY <1>1, <1>3, <2>1 DEF Before
  <2>3. CASE c < P
    BY <1>1, <1>3, <1>4, <2>1, <2>2, <2>3 DEF Before
  <2>4. CASE c >= P /\ b < L
    BY <1>1, <1>3, <1>4, <2>1, <2>2, <2>4 DEF Before
  <2>5. CASE c >= P /\ b >= L
    BY <1>1, <1>3, <1>4, <2>1, <2>2, <2>5 DEF Before
  <2> QED
    BY <1>1, <1>3, <2>3, <2>4, <2>5
<1> QED
  BY <1>5, <1>6 DEF Next3, m, M, L, P

\* Before is a strict order on the candidates.
LEMMA BeforeStrict ==
    ASSUME NEW a \in Candidate, NEW b \in Candidate
    PROVE  ~Before(a, a) /\ (Before(a, b) => ~Before(b, a))
BY DEF Before, Candidate
\* What happens to the first of the best when one later candidate is added.
LEMMA FirstBestStep ==
    ASSUME NEW r \in Requests, NEW S \in SUBSET Grid(r), NEW c \in Grid(r),
           \A s \in S : Before(s, c)
    PROVE  /\ (\A s \in S : ~Result(r, s).valid) /\ Result(r, c).valid =>
                FirstBest(r, c, S \union {c})
           /\ \A k \in S : FirstBest(r, k, S) =>
                IF Result(r, c).valid /\ Better(r, Result(r, c).value, Result(r, k).value)
                THEN FirstBest(r, c, S \union {c})
                ELSE FirstBest(r, k, S \union {c})
<1> DEFINE v(k) == Result(r, k).value
           ok(k) == Result(r, k).valid
<1>1. \A k \in S \union {c} : v(k) \in Int
  BY ResultAssumption
<1>2. \A x \in Int : ~Better(r, x, x)
  BY DEF Better
<1>3. \A x, y, z \in Int : Better(r, x, y) /\ ~Better(r, z, y) => ~Better(r, z, x) /\ z # x
  BY DEF Better
<1>4. (\A s \in S : ~ok(s)) /\ ok(c) => FirstBest(r, c, S \union {c})
  BY <1>1, <1>2 DEF FirstBest
<1>5. ASSUME NEW k \in S, FirstBest(r, k, S)
      PROVE  IF ok(c) /\ Better(r, v(c), v(k))
             THEN FirstBest(r, c, S \union {c}) ELSE FirstBest(r, k, S \union {c})
  <2>1. CASE ok(c) /\ Better(r, v(c), v(k))
    <3>1. ASSUME NEW o \in S, ok(o)
          PROVE  ~Better(r, v(o), v(c)) /\ v(o) # v(c)
      BY <1>1, <1>3, <1>5, <2>1, <3>1 DEF FirstBest
    <3> QED
      BY <1>1, <1>2, <2>1, <3>1 DEF FirstBest
  <2>2. CASE ~(ok(c) /\ Better(r, v(c), v(k)))
    <3>1. Before(k, c)
      OBVIOUS
    <3> QED
      BY <1>5, <2>2, <3>1 DEF FirstBest
  <2> QED
    BY <2>1, <2>2
<1> QED
  BY <1>4, <1>5

\* Nothing is answered while the search runs, and when it is over the cursor
\* is past the grid.
Ends ==
    /\ pc # "idle" => answer = NoAnswer
    /\ pc = "asked" => found = Nothing
    /\ pc = "best" => cursor[1] > StepCountMax(req)

SearchInv == Ends /\ BestOfSeen /\ AnswerIsOptimal /\ NothingUnlessCancelled

\* Past the largest number of steps the whole grid has been passed.
LEMMA AllPassed ==
    ASSUME req \in Requests, cursor \in Candidate, cursor[1] > StepCountMax(req)
    PROVE  Passed = Grid(req)
<1>1. StepCountMin(req) \in Int /\ StepCountMax(req) \in Int
  BY BoundsType
<1> QED
  BY <1>1 DEF Passed, Grid, Before, Candidate

\* The grid and what follows a step of it are candidates.
LEMMA GridIsCandidates ==
    ASSUME NEW r \in Requests
    PROVE  Grid(r) \subseteq Candidate /\ Next3(r) \subseteq Candidate
BY BoundsType DEF Grid, Next3, Candidate
-----------------------------------------------------------------------------
\* Type correctness: a candidate is evaluated inside the grid only
\* (optimization.go, Search).
THEOREM OptTypeCorrect == OptSpec => []OptTypeOK
<1>1. OptInit => OptTypeOK
  BY DEF OptInit, OptTypeOK, Nothing, NoAnswer, Answer, NoCandidate, Candidate, Kept
<1>2. OptTypeOK /\ [OptNext]_optVars => OptTypeOK'
  <2> SUFFICES ASSUME OptTypeOK, [OptNext]_optVars PROVE OptTypeOK'
    OBVIOUS
  <2>b. /\ StepCountMin(req) \in Int /\ StepCountMax(req) \in Int
        /\ LowerStepMax(req) \in Int /\ LowerStepMax(req) >= 1
        /\ comfortPoints(req) \in Int /\ comfortPoints(req) >= 1
    BY BoundsType DEF OptTypeOK
  <2>r. ASSUME NEW st \in {0, 200, 422, 499, 500}, NEW b \in Kept, Respond(Answer(st, b))
        PROVE  OptTypeOK'
    BY <2>r DEF Respond, Answer, OptTypeOK, Kept
  <2>n. Nothing \in Kept
    BY DEF Nothing, Kept, NoCandidate, Candidate
  <2>1. CASE Ask
    BY <2>1, <2>n DEF Ask, OptTypeOK, NoAnswer, Answer, Nothing, NoCandidate, Candidate, Kept
  <2>2. CASE Cancel
    BY <2>2 DEF Cancel, OptTypeOK
  <2>3. CASE Start
    <3>1. CASE pc' = "idle"
      BY <2>3, <2>r, <2>n, <3>1 DEF Start
    <3>2. CASE pc' # "idle"
      <4>1. /\ StepCountMin(req) <= StepCountMax(req) /\ pc' = "head"
            /\ cursor' = <<StepCountMin(req), 1, 1>>
            /\ UNCHANGED <<req, context, found, answer>>
        BY <2>3, <2>b, <3>2 DEF Start, Respond
      <4>2. cursor' \in Next3(req) /\ cursor' \in Candidate
        BY <2>b, <4>1 DEF Next3, Candidate
      <4> QED
        BY <4>1, <4>2 DEF OptTypeOK, Next3
    <3> QED
      BY <3>1, <3>2
  <2>4. CASE LoopHead
    <3>1. CASE cursor[1] > StepCountMax(req) /\ ~found.valid
      BY <2>4, <2>r, <2>n, <3>1 DEF LoopHead
    <3>2. CASE cursor[1] > StepCountMax(req) /\ found.valid
      BY <2>4, <3>2 DEF LoopHead, OptTypeOK
    <3>3. CASE ~(cursor[1] > StepCountMax(req)) /\ context = "cancelled"
      BY <2>4, <2>r, <2>n, <3>3 DEF LoopHead
    <3>4. CASE ~(cursor[1] > StepCountMax(req)) /\ context # "cancelled"
      <4>1. cursor \in Grid(req)
        BY <2>4, <2>b, <3>4 DEF LoopHead, OptTypeOK, Grid
      <4> QED
        BY <2>4, <3>4, <4>1 DEF LoopHead, OptTypeOK
    <3> QED
      BY <3>1, <3>2, <3>3, <3>4
  <2>5. CASE Evaluate
    <3>1. cursor \in Grid(req) /\ req \in Requests
      BY <2>5 DEF Evaluate, OptTypeOK
    <3>2. Advance \in Next3(req) /\ Advance \in Candidate
      BY <3>1, AdvancePasses, GridIsCandidates
    <3>3. Result(req, cursor) \in [valid : BOOLEAN, value : Int]
      BY <3>1, ResultAssumption
    <3>4. found' \in Kept /\ (found'.valid => found'.cand \in Grid(req))
      <4>1. cursor \in Candidate /\ found \in Kept
        BY DEF OptTypeOK
      <4>2. [valid |-> TRUE, cand |-> cursor, value |-> Result(req, cursor).value] \in Kept
        BY <4>1, <3>3 DEF Kept
      <4>3. \/ found' = [valid |-> TRUE, cand |-> cursor, value |-> Result(req, cursor).value]
            \/ found' = found
        BY <2>5 DEF Evaluate
      <4>4. found.valid => found.cand \in Grid(req)
        BY DEF OptTypeOK
      <4>5. CASE found' = [valid |-> TRUE, cand |-> cursor, value |-> Result(req, cursor).value]
        <5>1. found'.cand = cursor
          BY <4>5
        <5> QED
          BY <3>1, <4>2, <4>5, <5>1
      <4>6. CASE found' = found
        BY <4>1, <4>4, <4>6
      <4> QED
        BY <4>3, <4>5, <4>6
    <3> QED
      BY <2>5, <3>1, <3>2, <3>4 DEF Evaluate, OptTypeOK, Next3
  <2>6. CASE Recalculate
    <3>1. CASE context = "cancelled"
      BY <2>6, <2>r, <2>n, <3>1 DEF Recalculate
    <3>2. CASE context # "cancelled"
      <4> DEFINE b == [found EXCEPT !.value = Result(req, found.cand).value]
      <4>1. found \in Kept /\ found.cand \in Grid(req) /\ req \in Requests
        BY <2>6 DEF Recalculate, OptTypeOK
      <4>2. Result(req, found.cand).value \in Int
        BY <4>1, ResultAssumption
      <4>3. b \in Kept
        BY <4>1, <4>2 DEF Kept
      <4> QED
        BY <2>6, <2>r, <3>2, <4>3 DEF Recalculate
    <3> QED
      BY <3>1, <3>2
  <2>7. CASE UNCHANGED optVars
    BY <2>7 DEF optVars, OptTypeOK
  <2> QED
    BY <2>1, <2>2, <2>3, <2>4, <2>5, <2>6, <2>7 DEF OptNext
<1> QED
  BY <1>1, <1>2, PTL DEF OptSpec

-----------------------------------------------------------------------------
\* The induction step, under the type invariant.
LEMMA SearchStep == OptTypeOK /\ SearchInv /\ [OptNext]_optVars => SearchInv'
<1> SUFFICES ASSUME OptTypeOK, SearchInv, [OptNext]_optVars PROVE SearchInv'
  OBVIOUS
<1>t. req \in Requests /\ cursor \in Candidate
  BY DEF OptTypeOK
<1>q. ASSUME NEW st, Respond(Answer(st, Nothing)), pc # "idle",
             st = 200 /\ context = "live" => \A k \in Grid(req) : ~Result(req, k).valid
      PROVE  SearchInv'
  <2>1. /\ pc' = "idle" /\ UNCHANGED <<req, context, cursor, found>>
        /\ answer'.status = st /\ answer'.valid = FALSE
    BY <1>q DEF Respond, Answer, Nothing
  <2> QED
    BY <1>q, <2>1 DEF SearchInv, Ends, BestOfSeen, Searching, AnswerIsOptimal, NothingUnlessCancelled
<1>n. NoAnswer.status = 0
  BY DEF NoAnswer, Answer
<1>1. CASE Ask
  BY <1>1, <1>n DEF Ask, SearchInv, Ends, BestOfSeen, Searching, AnswerIsOptimal,
        NothingUnlessCancelled
<1>2. CASE Cancel
  BY <1>2, <1>n DEF Cancel, SearchInv, Ends, BestOfSeen, AnswerIsOptimal, NothingUnlessCancelled
<1>3. CASE Start
  <2>1. CASE pc' = "idle"
    <3>1. PICK st : /\ Respond(Answer(st, Nothing))
                    /\ st = 200 /\ context = "live" => StepCountMin(req) > StepCountMax(req)
      BY <1>3, <2>1 DEF Start
    <3>2. StepCountMin(req) > StepCountMax(req) => Grid(req) = {}
      BY <1>t, BoundsType DEF Grid
    <3> QED
      BY <1>3, <1>q, <3>1, <3>2 DEF Start
  <2>2. CASE pc' # "idle"
    <3>1. /\ pc' = "head" /\ cursor' = <<StepCountMin(req), 1, 1>>
          /\ UNCHANGED <<req, context, found, answer>> /\ found = Nothing /\ pc = "asked"
      BY <1>3, <2>2 DEF Start, Respond, SearchInv, Ends
    <3>2. Passed' = {}
      <4>1. Passed' = {k \in Grid(req) : Before(k, <<StepCountMin(req), 1, 1>>)}
        BY <3>1 DEF Passed
      <4>2. ASSUME NEW k \in Grid(req) PROVE ~Before(k, <<StepCountMin(req), 1, 1>>)
        BY <1>t, BoundsType DEF Grid, Before
      <4> QED
        BY <4>1, <4>2
    <3>3. ~found'.valid
      BY <3>1 DEF Nothing
    <3> QED
      BY <1>n, <3>1, <3>2, <3>3 DEF SearchInv, Ends, BestOfSeen, AnswerIsOptimal,
            NothingUnlessCancelled
  <2> QED
    BY <2>1, <2>2
<1>4. CASE LoopHead
  <2>u. ASSUME UNCHANGED <<req, context, cursor, found, answer>>, pc' \in {"eval", "best"},
               pc' = "best" => cursor[1] > StepCountMax(req)
        PROVE  SearchInv'
    <3>1. Passed' = Passed
      BY <2>u DEF Passed
    <3> QED
      BY <1>4, <1>n, <2>u, <3>1 DEF LoopHead, SearchInv, Ends, BestOfSeen, Searching,
            AnswerIsOptimal, NothingUnlessCancelled
  <2>1. CASE cursor[1] > StepCountMax(req) /\ ~found.valid
    <3>1. context = "live" => \A k \in Grid(req) : ~Result(req, k).valid
      BY <1>4, <1>t, <2>1, AllPassed DEF LoopHead, SearchInv, BestOfSeen, Searching
    <3> QED
      BY <1>4, <1>q, <2>1, <3>1 DEF LoopHead
  <2>2. CASE cursor[1] > StepCountMax(req) /\ found.valid
    BY <1>4, <2>2, <2>u DEF LoopHead
  <2>3. CASE ~(cursor[1] > StepCountMax(req)) /\ context = "cancelled"
    BY <1>4, <1>q, <2>3 DEF LoopHead
  <2>4. CASE ~(cursor[1] > StepCountMax(req)) /\ context # "cancelled"
    BY <1>4, <2>4, <2>u DEF LoopHead
  <2> QED
    BY <2>1, <2>2, <2>3, <2>4
<1>5. CASE Evaluate
  <2>1. cursor \in Grid(req) /\ cursor' = Advance /\ pc = "eval" /\ pc' = "head"
        /\ UNCHANGED <<req, context, answer>>
    BY <1>5 DEF Evaluate, OptTypeOK
  <2>2. Passed' = Passed \union {cursor}
    <3>1. Passed' = {k \in Grid(req) : Before(k, Advance)}
      BY <2>1 DEF Passed
    <3> QED
      BY <1>t, <2>1, <3>1, AdvancePasses DEF Passed
  <2>3. Passed \in SUBSET Grid(req) /\ \A s \in Passed : Before(s, cursor)
    BY DEF Passed
  <2>4. CASE context = "live"
    <3> DEFINE e == Result(req, cursor)
               new == [valid |-> TRUE, cand |-> cursor, value |-> e.value]
    <3>1. found' = IF e.valid /\ (~found.valid \/ Better(req, e.value, found.value))
                   THEN new ELSE found
      BY <1>5, <2>4 DEF Evaluate
    <3>2. new.valid /\ new.cand = cursor /\ new.value = e.value
      OBVIOUS
    <3> HIDE DEF new
    <3>3. CASE found.valid
      <4>1. FirstBest(req, found.cand, Passed) /\ found.value = Result(req, found.cand).value
            /\ found.cand \in Passed
        BY <2>1, <2>4, <3>3 DEF SearchInv, BestOfSeen, Searching, FirstBest
      <4>2. IF e.valid /\ Better(req, e.value, found.value)
            THEN FirstBest(req, cursor, Passed \union {cursor})
            ELSE FirstBest(req, found.cand, Passed \union {cursor})
        BY <1>t, <2>1, <2>3, <4>1, FirstBestStep
      <4>3. found'.valid /\ FirstBest(req, found'.cand, Passed')
            /\ found'.value = Result(req, found'.cand).value
        BY <2>2, <3>1, <3>2, <3>3, <4>1, <4>2
      <4> QED
        BY <1>n, <2>1, <4>3 DEF SearchInv, Ends, BestOfSeen, AnswerIsOptimal, NothingUnlessCancelled
    <3>4. CASE ~found.valid
      <4>1. \A s \in Passed : ~Result(req, s).valid
        BY <2>1, <2>4, <3>4 DEF SearchInv, BestOfSeen, Searching
      <4>2. e.valid => FirstBest(req, cursor, Passed \union {cursor})
        BY <1>t, <2>1, <2>3, <4>1, FirstBestStep
      <4>3. IF found'.valid
            THEN FirstBest(req, found'.cand, Passed')
                 /\ found'.value = Result(req, found'.cand).value
            ELSE \A k \in Passed' : ~Result(req, k).valid
        BY <2>2, <3>1, <3>2, <3>4, <4>1, <4>2
      <4> QED
        BY <1>n, <2>1, <4>3 DEF SearchInv, Ends, BestOfSeen, AnswerIsOptimal, NothingUnlessCancelled
    <3> QED
      BY <3>3, <3>4
  <2>5. CASE context # "live"
    BY <1>n, <2>1, <2>5 DEF SearchInv, Ends, BestOfSeen, AnswerIsOptimal, NothingUnlessCancelled
  <2> QED
    BY <2>4, <2>5
<1>6. CASE Recalculate
  <2>1. CASE context = "cancelled"
    BY <1>6, <1>q, <2>1 DEF Recalculate
  <2>2. CASE context # "cancelled"
    <3>1. context = "live" /\ found.valid /\ cursor[1] > StepCountMax(req) /\ pc = "best"
      BY <1>6, <2>2 DEF Recalculate, OptTypeOK, SearchInv, Ends
    <3>2. FirstBest(req, found.cand, Grid(req))
      BY <1>t, <3>1, AllPassed DEF SearchInv, BestOfSeen, Searching
    <3>3. /\ pc' = "idle" /\ UNCHANGED <<req, context, cursor, found>>
          /\ answer' = Answer(200, [found EXCEPT !.value = Result(req, found.cand).value])
      BY <1>6, <2>2 DEF Recalculate, Respond
    <3>4. answer'.valid /\ answer'.cand = found.cand
          /\ answer'.value = Result(req, found.cand).value
      BY <3>1, <3>3 DEF Answer, OptTypeOK, Kept
    <3> QED
      BY <3>2, <3>3, <3>4 DEF SearchInv, Ends, BestOfSeen, Searching, AnswerIsOptimal,
            NothingUnlessCancelled
  <2> QED
    BY <2>1, <2>2
<1>7. CASE UNCHANGED optVars
  <2>1. Passed' = Passed
    BY <1>7 DEF optVars, Passed
  <2> QED
    BY <1>7, <2>1 DEF optVars, SearchInv, Ends, BestOfSeen, Searching, AnswerIsOptimal,
          NothingUnlessCancelled
<1> QED
  BY <1>1, <1>2, <1>3, <1>4, <1>5, <1>6, <1>7 DEF OptNext

\* The search invariant holds in every reachable state.
LEMMA SearchInvariant == OptSpec => []SearchInv
<1>1. OptInit => SearchInv
  BY DEF OptInit, SearchInv, Ends, BestOfSeen, Searching, AnswerIsOptimal, NothingUnlessCancelled,
        NoAnswer, Answer, Nothing
<1> QED
  BY <1>1, OptTypeCorrect, SearchStep, PTL DEF OptSpec

\* The search holds the first of the best candidates it has passed
\* (optimization.go: strictly better, in the order n, n1, S).
THEOREM SearchHoldsTheBest == OptSpec => []BestOfSeen
BY SearchInvariant, PTL DEF SearchInv

\* An answer with a stair is the optimum of the whole grid, for every grid and
\* wherever a cancellation falls (EDR-0032, EDR-0033).
THEOREM AnswersAreOptimal == OptSpec => []AnswerIsOptimal
BY SearchInvariant, PTL DEF SearchInv

\* An answer without a stair means that there is none, unless the context was
\* cancelled (handler.go: valid:false).
THEOREM EmptyAnswersAreRight == OptSpec => []NothingUnlessCancelled
BY SearchInvariant, PTL DEF SearchInv

\* For any requests and any calculation behind them the answer is the optimum, or none
\* for a reason (optimization.go, optimize.go).
THEOREM OptimumIsFoundHolds == OptSpec => []OptimumIsFound
BY OptTypeCorrect, SearchHoldsTheBest, AnswersAreOptimal, EmptyAnswersAreRight, PTL DEF OptimumIsFound

-----------------------------------------------------------------------------
(* The cutting plan.  The invariant speaks of the shelves of the current    *)
(* sheet: they are stacked without overlapping (Stacked), every part of the *)
(* sheet lies on one of them, left of what is used of it (OnShelf), and the *)
(* sheets begun before are never touched again.  In which order the parts   *)
(* come does not matter to it.                                              *)

Shelf == [y : Nat, used : Nat, height : Nat]
Position == [sheet : Nat, x : Nat, y : Nat]

\* Before a sheet is chosen nothing is placed, and afterwards the sheet takes
\* every part of the group.
Chosen ==
    IF stage \in {"nest", "done"} THEN Takes(sheet)
    ELSE Placed = {} /\ open = <<>> /\ curY = 0

Stacked ==
    /\ \A k \in 1..Len(open) :
         open[k].used <= sheet.len /\ open[k].y + open[k].height <= curY
    /\ \A k, m \in 1..Len(open) : k < m => open[k].y + open[k].height <= open[m].y

OnShelf ==
    \A i \in Parts : place[i].sheet # 0 /\ place[i].sheet = sheets =>
        \E k \in 1..Len(open) :
            /\ place[i].y = open[k].y
            /\ place[i].x + EffLen(i) <= open[k].used
            /\ EffWid(i) <= open[k].height

Begun == stage \in {"nest", "done"} => sheets > 0
BegunOnly == \A i \in Parts : place[i].sheet <= sheets

NestInv == Begun /\ Chosen /\ Stacked /\ OnShelf /\ BegunOnly /\ InsideSheet /\ NoOverlap

\* A part takes a positive length and width of a sheet.
LEMMA EffType ==
    ASSUME parts \in PartLists, NEW i \in Parts
    PROVE  EffLen(i) \in Nat /\ EffWid(i) \in Nat /\ EffLen(i) > 0 /\ EffWid(i) > 0
<1>1. parts \in Seq(Part)
  BY PartsAssumption
<1>2. parts[i] \in Part
  BY <1>1 DEF Parts
<1>3. parts[i].len \in Nat \ {0} /\ parts[i].wid \in Nat \ {0}
  BY <1>2, Zenon DEF Part
<1> QED
  BY <1>3, KerfAssumption DEF EffLen, EffWid

\* Type correctness of the plan (nest.go, nestGroup): a shelf is opened only
\* where the sheet still has the width for it.
LEMMA NestTypeStep == NestTypeOK /\ Chosen /\ [NestNext]_nestVars => NestTypeOK'
<1> SUFFICES ASSUME NestTypeOK, Chosen, [NestNext]_nestVars PROVE NestTypeOK'
  OBVIOUS
<1>t. /\ parts \in PartLists /\ sheet \in [len : Nat, wid : Nat] /\ sheets \in Nat
      /\ curY \in Nat /\ place \in [Parts -> Position] /\ open \in Seq(Shelf)
  BY DEF NestTypeOK, Position, Shelf
<1>d. DOMAIN open = 1..Len(open)
  BY <1>t
<1>p. ASSUME NEW i \in Parts, NEW n \in Nat, NEW x \in Nat, NEW y \in Nat, Put(i, n, x, y),
             parts' = parts
      PROVE  place' \in [Parts' -> Position]
  BY <1>t, <1>p DEF Put, Position, Parts
<1>1. CASE Pick
  <2>1. \A k \in DOMAIN Catalogue : Catalogue[k] \in [len : Nat, wid : Nat]
    <3>1. \A k \in DOMAIN Catalogue : Catalogue[k] \in StockSheet
      BY CatalogueAssumption
    <3> QED
      BY <3>1 DEF StockSheet
  <2>2. sheet' \in [len : Nat, wid : Nat] /\ sheets' \in Nat
        /\ stage' \in {"nest", "refused"} /\ curY = 0
    BY <1>1, <1>t, <2>1 DEF Pick, Chosen
  <2>3. curY' <= sheet'.wid
    BY <1>1, <2>2 DEF Pick
  <2> QED
    BY <1>1, <1>t, <2>2, <2>3 DEF Pick, NestTypeOK, Parts
<1>2. CASE Finish
  BY <1>2 DEF Finish, NestTypeOK, Parts
<1>3. ASSUME NEW i \in Parts, PlaceOnShelf(i) PROVE NestTypeOK'
  <2>1. PICK k \in 1..Len(open) :
          /\ Put(i, sheets, open[k].used, open[k].y)
          /\ open' = [open EXCEPT ![k].used = @ + EffLen(i)]
    BY <1>3, <1>d DEF PlaceOnShelf
  <2>2. open[k] \in Shelf /\ EffLen(i) \in Nat
    BY <1>t, EffType
  <2>3. open' \in Seq(Shelf)
    <3>1. [open[k] EXCEPT !.used = @ + EffLen(i)] \in Shelf
      BY <2>2 DEF Shelf
    <3>2. [open EXCEPT ![k] = [open[k] EXCEPT !.used = @ + EffLen(i)]] \in Seq(Shelf)
      BY <1>t, <3>1, ExceptSeq
    <3> QED
      BY <2>1, <3>2
  <2>4. place' \in [Parts' -> Position]
    BY <1>3, <1>t, <1>p, <2>1, <2>2 DEF PlaceOnShelf, Shelf
  <2> QED
    BY <1>3, <2>3, <2>4 DEF PlaceOnShelf, NestTypeOK, Shelf, Position
<1>4. ASSUME NEW i \in Parts, OpenShelf(i) PROVE NestTypeOK'
  <2>1. ShelfOf(i, curY) \in Shelf /\ EffWid(i) \in Nat
    BY <1>t, EffType DEF ShelfOf, Shelf
  <2>2. open' \in Seq(Shelf) /\ curY' \in Nat /\ curY' <= sheet.wid
    BY <1>4, <1>t, <2>1 DEF OpenShelf
  <2>3. place' \in [Parts' -> Position]
    BY <1>4, <1>t, <1>p DEF OpenShelf
  <2> QED
    BY <1>4, <2>2, <2>3 DEF OpenShelf, NestTypeOK, Shelf, Position
<1>5. ASSUME NEW i \in Parts, OpenSheet(i) PROVE NestTypeOK'
  <2>1. ShelfOf(i, 0) \in Shelf /\ EffWid(i) \in Nat /\ EffWid(i) <= sheet.wid
    BY <1>5, <1>t, EffType DEF OpenSheet, ShelfOf, Shelf, Chosen, Takes
  <2>2. open' \in Seq(Shelf) /\ curY' \in Nat /\ curY' <= sheet.wid /\ sheets' \in Nat
    BY <1>5, <1>t, <2>1 DEF OpenSheet
  <2>3. place' \in [Parts' -> Position]
    BY <1>5, <1>t, <1>p, <2>2 DEF OpenSheet
  <2> QED
    BY <1>5, <2>2, <2>3 DEF OpenSheet, NestTypeOK, Shelf, Position
<1>6. CASE UNCHANGED nestVars
  BY <1>6 DEF nestVars, NestTypeOK, Parts
<1> QED
  BY <1>1, <1>2, <1>3, <1>4, <1>5, <1>6 DEF NestNext

\* Two parts of which one is new: NoOverlap is kept when the new one overlaps
\* none of those that were there.
Apart(i, j) ==
    \/ place[i].x + EffLen(i) <= place[j].x \/ place[j].x + EffLen(j) <= place[i].x
    \/ place[i].y + EffWid(i) <= place[j].y \/ place[j].y + EffWid(j) <= place[i].y

\* A part that is put where no other lies overlaps none and stays inside.
LEMMA NewPart ==
    ASSUME NestTypeOK, NestInv, NEW i \in Parts, NEW n \in Nat, NEW x \in Nat, NEW y \in Nat,
           parts' = parts, sheet' = sheet, Put(i, n, x, y),
           n \in 1..sheets', sheets <= sheets', sheets' \in Nat,
           x + EffLen(i) <= sheet.len, y + EffWid(i) <= sheet.wid,
           \A j \in Placed \ {i} : place[j].sheet = n =>
              \/ x + EffLen(i) <= place[j].x \/ place[j].x + EffLen(j) <= x
              \/ y + EffWid(i) <= place[j].y \/ place[j].y + EffWid(j) <= y
    PROVE  (BegunOnly /\ InsideSheet /\ NoOverlap)'
<1>1. place \in [Parts -> Position] /\ sheets \in Nat
  BY DEF NestTypeOK, Position
<1>2. /\ place'[i] = [sheet |-> n, x |-> x, y |-> y]
      /\ \A j \in Parts : j # i => place'[j] = place[j]
  BY <1>1 DEF Put, Position
<1>3. Parts' = Parts /\ \A j \in Parts : EffLen(j)' = EffLen(j) /\ EffWid(j)' = EffWid(j)
  BY DEF Parts, EffLen, EffWid
<1>4. place'[i].sheet = n /\ place'[i].x = x /\ place'[i].y = y
  BY <1>2
<1>5. Placed' \subseteq Placed \union {i}
  BY <1>2, <1>3 DEF Placed
<1>6. \A j \in Parts : place[j].sheet \in Nat
  BY <1>1 DEF Position
<1>7. BegunOnly'
  BY <1>1, <1>2, <1>3, <1>4, <1>6 DEF BegunOnly, NestInv
<1>8. InsideSheet'
  <2> SUFFICES ASSUME NEW j \in Placed'
               PROVE  /\ place'[j].sheet \in 1..sheets'
                      /\ place'[j].x + EffLen(j)' <= sheet'.len
                      /\ place'[j].y + EffWid(j)' <= sheet'.wid
    BY DEF InsideSheet
  <2>1. j \in Parts
    BY <1>3 DEF Placed
  <2>2. CASE j = i
    BY <1>3, <1>4, <2>2
  <2>3. CASE j # i
    <3>1. j \in Placed /\ place'[j] = place[j]
      BY <1>2, <1>5, <2>1, <2>3
    <3>2. /\ place[j].sheet \in 1..sheets /\ place[j].x + EffLen(j) <= sheet.len
          /\ place[j].y + EffWid(j) <= sheet.wid
      BY <3>1 DEF NestInv, InsideSheet
    <3> QED
      BY <1>1, <1>3, <2>1, <3>1, <3>2
  <2> QED
    BY <2>2, <2>3
<1>9. NoOverlap'
  <2>1. \A j, k \in Placed : j # k /\ place[j].sheet = place[k].sheet => Apart(j, k)
    BY DEF NestInv, NoOverlap, Apart
  <2> SUFFICES ASSUME NEW j \in Placed', NEW k \in Placed', j # k,
                      place'[j].sheet = place'[k].sheet
               PROVE  \/ place'[j].x + EffLen(j)' <= place'[k].x
                      \/ place'[k].x + EffLen(k)' <= place'[j].x
                      \/ place'[j].y + EffWid(j)' <= place'[k].y
                      \/ place'[k].y + EffWid(k)' <= place'[j].y
    BY DEF NoOverlap
  <2>2. j \in Parts /\ k \in Parts
    BY <1>3 DEF Placed
  <2>3. CASE j # i /\ k # i
    <3>1. j \in Placed /\ k \in Placed /\ place'[j] = place[j] /\ place'[k] = place[k]
      BY <1>2, <1>5, <2>2, <2>3
    <3>2. Apart(j, k)
      BY <2>1, <3>1
    <3> QED
      BY <1>3, <2>2, <3>1, <3>2 DEF Apart
  <2>4. CASE j = i
    <3>1. k \in Placed \ {i} /\ place'[k] = place[k]
      BY <1>2, <1>5, <2>2, <2>4
    <3> QED
      BY <1>3, <1>4, <2>2, <2>4, <3>1
  <2>5. CASE k = i
    <3>1. j \in Placed \ {i} /\ place'[j] = place[j]
      BY <1>2, <1>5, <2>2, <2>5
    <3> QED
      BY <1>3, <1>4, <2>2, <2>5, <3>1
  <2> QED
    BY <2>3, <2>4, <2>5
<1> QED
  BY <1>7, <1>8, <1>9

\* The shelves and the parts on them, one action at a time.
LEMMA PlaceStep ==
    ASSUME NestTypeOK, NestInv, NEW i \in Parts, PlaceOnShelf(i)
    PROVE  NestInv'
<1>t. /\ place \in [Parts -> Position] /\ open \in Seq(Shelf) /\ sheets \in Nat
      /\ sheet \in [len : Nat, wid : Nat] /\ curY \in Nat /\ curY <= sheet.wid
  BY DEF NestTypeOK, Position, Shelf
<1>d. DOMAIN open = 1..Len(open)
  BY <1>t
<1>s. \A m \in 1..Len(open) : open[m].y \in Nat /\ open[m].used \in Nat /\ open[m].height \in Nat
  <2>1. \A m \in 1..Len(open) : open[m] \in Shelf
    BY <1>t
  <2> QED
    BY <2>1 DEF Shelf
<1>f. \A j \in Parts : EffLen(j) \in Nat /\ EffWid(j) \in Nat /\ EffLen(j) > 0
                      /\ place[j].x \in Nat /\ place[j].y \in Nat
  BY <1>t, EffType DEF Position, NestTypeOK
<1>1. /\ stage = "nest" /\ place[i].sheet = 0
      /\ UNCHANGED <<parts, stage, sheet, sheets, curY>>
  BY DEF PlaceOnShelf, IsNext, Waiting
<1>2. PICK k \in 1..Len(open) :
        /\ HasRoom(k, i) /\ Put(i, sheets, open[k].used, open[k].y)
        /\ open' = [open EXCEPT ![k].used = @ + EffLen(i)]
  BY <1>d DEF PlaceOnShelf
<1> DEFINE x == open[k].used
           y == open[k].y
<1>e. EffLen(i) \in Nat /\ EffWid(i) \in Nat /\ EffLen(i) > 0
  BY <1>f
<1>3. x \in Nat /\ y \in Nat /\ open[k].height \in Nat
  BY <1>s
<1>u. Put(i, sheets, x, y)
  BY <1>2
<1>4. x + EffLen(i) <= sheet.len /\ EffWid(i) <= open[k].height
  BY <1>2 DEF HasRoom
<1>5. y + open[k].height <= curY
  BY DEF NestInv, Stacked
<1>6. y + EffWid(i) <= sheet.wid
  BY <1>t, <1>e, <1>3, <1>4, <1>5
<1>7. sheets \in 1..sheets
  BY <1>t, <1>1 DEF NestInv, Begun
<1>8. \A j \in Placed \ {i} : place[j].sheet = sheets =>
        \/ x + EffLen(i) <= place[j].x \/ place[j].x + EffLen(j) <= x
        \/ y + EffWid(i) <= place[j].y \/ place[j].y + EffWid(j) <= y
  <2> SUFFICES ASSUME NEW j \in Placed \ {i}, place[j].sheet = sheets
               PROVE  place[j].x + EffLen(j) <= x \/ y + EffWid(i) <= place[j].y
                      \/ place[j].y + EffWid(j) <= y
    OBVIOUS
  <2>1. j \in Parts /\ place[j].sheet # 0
    BY DEF Placed
  <2>2. PICK m \in 1..Len(open) : /\ place[j].y = open[m].y
                                  /\ place[j].x + EffLen(j) <= open[m].used
                                  /\ EffWid(j) <= open[m].height
    BY <2>1 DEF NestInv, OnShelf
  <2>3. open[m].y \in Nat /\ open[m].height \in Nat /\ EffWid(j) \in Nat
    BY <1>s, <1>f, <2>1
  <2>4. CASE m = k
    BY <2>2, <2>4
  <2>5. CASE m < k
    <3>1. open[m].y + open[m].height <= y
      BY <2>5 DEF NestInv, Stacked
    <3> QED
      BY <1>3, <2>2, <2>3, <3>1
  <2>6. CASE k < m
    <3>1. y + open[k].height <= open[m].y
      BY <2>6 DEF NestInv, Stacked
    <3>2. y + EffWid(i) <= y + open[k].height /\ y + EffWid(i) \in Nat /\ y + open[k].height \in Nat
      BY <1>3, <1>4, <1>e, SMTT(20)
    <3>3. y + EffWid(i) <= open[m].y
      BY <2>3, <3>1, <3>2
    <3> QED
      BY <2>2, <3>3
  <2> QED
    BY <2>4, <2>5, <2>6
<1>9. (BegunOnly /\ InsideSheet /\ NoOverlap)'
  <2> HIDE DEF x, y
  <2>1. sheets \in 1..sheets' /\ sheets <= sheets' /\ sheets' \in Nat /\ parts' = parts /\ sheet' = sheet
    BY <1>t, <1>1, <1>7
  <2> QED
    BY <1>t, <1>3, <1>4, <1>6, <1>8, <1>u, <2>1, NewPart
<1>10. /\ Len(open') = Len(open)
       /\ \A m \in 1..Len(open) : /\ open'[m].y = open[m].y
                                  /\ open'[m].height = open[m].height
                                  /\ open'[m].used = IF m = k THEN x + EffLen(i) ELSE open[m].used
  <2> DEFINE s == [open[k] EXCEPT !.used = @ + EffLen(i)]
  <2>1. s \in Shelf /\ s.y = y /\ s.height = open[k].height /\ s.used = x + EffLen(i)
    <3>1. open[k] \in Shelf
      BY <1>t
    <3> QED
      BY <1>e, <3>1 DEF Shelf
  <2>2. open' = [open EXCEPT ![k] = s]
    BY <1>2
  <2> HIDE DEF s
  <2>3. Len(open') = Len(open) /\ \A m \in 1..Len(open) : open'[m] = IF m = k THEN s ELSE open[m]
    BY <1>t, <2>1, <2>2, ExceptSeq
  <2> QED
    BY <2>1, <2>3
<1>11. Stacked'
  BY <1>1, <1>4, <1>10 DEF NestInv, Stacked
<1>12. OnShelf'
  <2> SUFFICES ASSUME NEW j \in Parts', place'[j].sheet # 0, place'[j].sheet = sheets'
               PROVE  \E m \in 1..Len(open') :
                         /\ place'[j].y = open'[m].y
                         /\ place'[j].x + EffLen(j)' <= open'[m].used
                         /\ EffWid(j)' <= open'[m].height
    BY DEF OnShelf
  <2>1. j \in Parts /\ EffLen(j)' = EffLen(j) /\ EffWid(j)' = EffWid(j)
    BY <1>1 DEF Parts, EffLen, EffWid
  <2>2. CASE j = i
    <3>1. place'[j].x = x /\ place'[j].y = y
      BY <1>t, <1>2, <2>1, <2>2 DEF Put
    <3>2. /\ place'[j].y = open'[k].y /\ place'[j].x + EffLen(j)' <= open'[k].used
          /\ EffWid(j)' <= open'[k].height
      BY <1>3, <1>4, <1>10, <1>e, <2>1, <2>2, <3>1
    <3> QED
      BY <1>10, <3>2
  <2>3. CASE j # i
    <3>1. place'[j] = place[j]
      BY <1>t, <1>2, <2>1, <2>3 DEF Put
    <3>2. PICK m \in 1..Len(open) : /\ place[j].y = open[m].y
                                    /\ place[j].x + EffLen(j) <= open[m].used
                                    /\ EffWid(j) <= open[m].height
      BY <1>1, <2>1, <3>1 DEF NestInv, OnShelf
    <3>3. place[j].x \in Nat /\ EffLen(j) \in Nat /\ open[m].used \in Nat
      BY <1>s, <1>f, <2>1
    <3>4. place[j].x + EffLen(j) <= open'[m].used
      <4> HIDE DEF x, y
      <4>1. CASE m = k
        <5>1. open'[m].used = open[m].used + EffLen(i)
          BY <1>10, <4>1 DEF x
        <5> QED
          BY <1>e, <3>2, <3>3, <5>1, SMTT(20)
      <4>2. CASE m # k
        <5>1. open'[m].used = open[m].used
          BY <1>10, <4>2
        <5> QED
          BY <3>2, <5>1
      <4> QED
        BY <4>1, <4>2
    <3> QED
      BY <1>10, <2>1, <3>1, <3>2, <3>4
  <2> QED
    BY <2>2, <2>3
<1>13. Chosen'
  BY <1>1 DEF NestInv, Chosen, Takes, Parts, EffLen, EffWid
<1>14. Begun'
  BY <1>1 DEF NestInv, Begun
<1> QED
  BY <1>9, <1>11, <1>12, <1>13, <1>14 DEF NestInv

\* A shelf that is opened above the others keeps the invariant.
LEMMA OpenShelfStep ==
    ASSUME NestTypeOK, NestInv, NEW i \in Parts, OpenShelf(i)
    PROVE  NestInv'
<1>t. /\ place \in [Parts -> Position] /\ open \in Seq(Shelf) /\ sheets \in Nat
      /\ sheet \in [len : Nat, wid : Nat] /\ curY \in Nat /\ curY <= sheet.wid
  BY DEF NestTypeOK, Position, Shelf
<1>s. \A m \in 1..Len(open) : open[m].y \in Nat /\ open[m].used \in Nat /\ open[m].height \in Nat
  <2>1. \A m \in 1..Len(open) : open[m] \in Shelf
    BY <1>t
  <2> QED
    BY <2>1 DEF Shelf
<1>f. \A j \in Parts : EffLen(j) \in Nat /\ EffWid(j) \in Nat /\ EffLen(j) > 0
                      /\ place[j].x \in Nat /\ place[j].y \in Nat
  BY <1>t, EffType DEF Position, NestTypeOK
<1>1. /\ stage = "nest" /\ curY + EffWid(i) <= sheet.wid /\ Put(i, sheets, 0, curY)
      /\ open' = Append(open, ShelfOf(i, curY)) /\ curY' = curY + EffWid(i)
      /\ UNCHANGED <<parts, stage, sheet, sheets>>
  BY DEF OpenShelf
<1>2. EffLen(i) \in Nat /\ EffWid(i) \in Nat /\ EffLen(i) <= sheet.len
  BY <1>f, <1>1 DEF NestInv, Chosen, Takes
<1>3. \A j \in Placed \ {i} : place[j].sheet = sheets => place[j].y + EffWid(j) <= curY
  <2> SUFFICES ASSUME NEW j \in Placed \ {i}, place[j].sheet = sheets
               PROVE  place[j].y + EffWid(j) <= curY
    OBVIOUS
  <2>1. j \in Parts /\ place[j].sheet # 0
    BY DEF Placed
  <2>2. PICK m \in 1..Len(open) : place[j].y = open[m].y /\ EffWid(j) <= open[m].height
    BY <2>1 DEF NestInv, OnShelf
  <2>3. open[m].y + open[m].height <= curY
    BY DEF NestInv, Stacked
  <2> QED
    BY <1>t, <1>s, <1>f, <2>1, <2>2, <2>3, SMTT(20)
<1>4. (BegunOnly /\ InsideSheet /\ NoOverlap)'
  <2>1. sheets \in 1..sheets' /\ sheets <= sheets' /\ sheets' \in Nat /\ parts' = parts /\ sheet' = sheet
    BY <1>t, <1>1 DEF NestInv, Begun
  <2>2. 0 + EffLen(i) <= sheet.len /\ 0 \in Nat
    BY <1>2
  <2>3. \A j \in Placed \ {i} : place[j].sheet = sheets =>
          \/ 0 + EffLen(i) <= place[j].x \/ place[j].x + EffLen(j) <= 0
          \/ curY + EffWid(i) <= place[j].y \/ place[j].y + EffWid(j) <= curY
    BY <1>3
  <2> QED
    BY <1>t, <1>1, <2>1, <2>2, <2>3, NewPart
<1>5. ShelfOf(i, curY) \in Shelf
  BY <1>t, <1>2 DEF ShelfOf, Shelf
<1>6. /\ Len(open') = Len(open) + 1 /\ Len(open) \in Nat
      /\ open'[Len(open) + 1] = ShelfOf(i, curY)
      /\ \A m \in 1..Len(open) : open'[m] = open[m]
  BY <1>t, <1>1, <1>5, AppendProperties
<1>7. /\ ShelfOf(i, curY).y = curY /\ ShelfOf(i, curY).used = EffLen(i)
      /\ ShelfOf(i, curY).height = EffWid(i)
  BY DEF ShelfOf
<1>8. \A m \in 1..Len(open') : m \in 1..Len(open) \/ m = Len(open) + 1
  BY <1>6
<1>9. Stacked'
  <2>1. \A m \in 1..Len(open) : open[m].used <= sheet.len /\ open[m].y + open[m].height <= curY
    BY DEF NestInv, Stacked
  <2>2. ASSUME NEW m \in 1..Len(open')
        PROVE  open'[m].used <= sheet'.len /\ open'[m].y + open'[m].height <= curY'
    <3>1. CASE m \in 1..Len(open)
      BY <1>t, <1>s, <1>1, <1>2, <1>6, <2>1, <3>1, SMTT(20)
    <3>2. CASE m = Len(open) + 1
      BY <1>t, <1>1, <1>2, <1>6, <1>7, <3>2
    <3> QED
      BY <1>8, <3>1, <3>2
  <2>3. ASSUME NEW m \in 1..Len(open'), NEW n \in 1..Len(open'), m < n
        PROVE  open'[m].y + open'[m].height <= open'[n].y
    <3>1. m \in 1..Len(open) /\ open'[m] = open[m]
      BY <1>6, <1>8, <2>3
    <3>2. CASE n \in 1..Len(open)
      BY <1>6, <2>3, <3>1, <3>2 DEF NestInv, Stacked
    <3>3. CASE n = Len(open) + 1
      BY <1>6, <1>7, <2>1, <3>1, <3>3
    <3> QED
      BY <1>8, <3>2, <3>3
  <2> QED
    BY <2>2, <2>3 DEF Stacked
<1>10. OnShelf'
  <2> SUFFICES ASSUME NEW j \in Parts', place'[j].sheet # 0, place'[j].sheet = sheets'
               PROVE  \E m \in 1..Len(open') :
                         /\ place'[j].y = open'[m].y
                         /\ place'[j].x + EffLen(j)' <= open'[m].used
                         /\ EffWid(j)' <= open'[m].height
    BY DEF OnShelf
  <2>1. j \in Parts /\ EffLen(j)' = EffLen(j) /\ EffWid(j)' = EffWid(j)
    BY <1>1 DEF Parts, EffLen, EffWid
  <2>2. CASE j = i
    <3>1. place'[j].x = 0 /\ place'[j].y = curY
      BY <1>t, <1>1, <2>1, <2>2 DEF Put
    <3>2. Len(open) + 1 \in 1..Len(open')
      BY <1>6
    <3> QED
      BY <1>2, <1>6, <1>7, <2>1, <2>2, <3>1, <3>2
  <2>3. CASE j # i
    <3>1. place'[j] = place[j]
      BY <1>t, <1>1, <2>1, <2>3 DEF Put
    <3>2. PICK m \in 1..Len(open) : /\ place[j].y = open[m].y
                                    /\ place[j].x + EffLen(j) <= open[m].used
                                    /\ EffWid(j) <= open[m].height
      BY <1>1, <2>1, <3>1 DEF NestInv, OnShelf
    <3>3. m \in 1..Len(open') /\ open'[m] = open[m]
      BY <1>6
    <3> QED
      BY <2>1, <3>1, <3>2, <3>3
  <2> QED
    BY <2>2, <2>3
<1>11. Chosen'
  BY <1>1 DEF NestInv, Chosen, Takes, Parts, EffLen, EffWid
<1>12. Begun'
  BY <1>1 DEF NestInv, Begun
<1> QED
  BY <1>4, <1>9, <1>10, <1>11, <1>12 DEF NestInv

\* So does a new sheet.
LEMMA OpenSheetStep ==
    ASSUME NestTypeOK, NestInv, NEW i \in Parts, OpenSheet(i)
    PROVE  NestInv'
<1>t. /\ place \in [Parts -> Position] /\ sheets \in Nat /\ sheet \in [len : Nat, wid : Nat]
  BY DEF NestTypeOK, Position
<1>1. /\ stage = "nest" /\ sheets' = sheets + 1 /\ Put(i, sheets + 1, 0, 0)
      /\ open' = <<ShelfOf(i, 0)>> /\ curY' = EffWid(i)
      /\ UNCHANGED <<parts, stage, sheet>>
  BY DEF OpenSheet
<1>2. EffLen(i) \in Nat /\ EffWid(i) \in Nat /\ EffLen(i) <= sheet.len /\ EffWid(i) <= sheet.wid
  BY <1>1, EffType DEF NestTypeOK, NestInv, Chosen, Takes
<1>3. \A j \in Parts : place[j].sheet \in Nat /\ place[j].sheet <= sheets
  BY <1>t DEF Position, NestInv, BegunOnly
<1>4. (BegunOnly /\ InsideSheet /\ NoOverlap)'
  <2>1. /\ sheets + 1 \in 1..sheets' /\ sheets <= sheets' /\ sheets' \in Nat
        /\ sheets + 1 \in Nat /\ parts' = parts /\ sheet' = sheet
    BY <1>t, <1>1
  <2>2. 0 + EffLen(i) <= sheet.len /\ 0 + EffWid(i) <= sheet.wid
    BY <1>2
  <2>3. \A j \in Placed \ {i} : place[j].sheet # sheets + 1
    BY <1>t, <1>3 DEF Placed
  <2> QED
    BY <1>1, <2>1, <2>2, <2>3, NewPart
<1>5. /\ Len(open') = 1 /\ open'[1].y = 0 /\ open'[1].used = EffLen(i)
      /\ open'[1].height = EffWid(i)
  BY <1>1 DEF ShelfOf
<1>6. Stacked'
  BY <1>1, <1>2, <1>5 DEF Stacked
<1>7. OnShelf'
  <2> SUFFICES ASSUME NEW j \in Parts', place'[j].sheet # 0, place'[j].sheet = sheets'
               PROVE  \E m \in 1..Len(open') :
                         /\ place'[j].y = open'[m].y
                         /\ place'[j].x + EffLen(j)' <= open'[m].used
                         /\ EffWid(j)' <= open'[m].height
    BY DEF OnShelf
  <2>1. j \in Parts /\ EffLen(j)' = EffLen(j) /\ EffWid(j)' = EffWid(j)
    BY <1>1 DEF Parts, EffLen, EffWid
  <2>2. j = i
    <3> SUFFICES ASSUME j # i PROVE FALSE
      OBVIOUS
    <3>1. place'[j] = place[j]
      BY <1>t, <1>1, <2>1 DEF Put
    <3> QED
      BY <1>t, <1>1, <1>3, <2>1, <3>1
  <2>3. place'[j].x = 0 /\ place'[j].y = 0
    BY <1>t, <1>1, <2>1, <2>2 DEF Put
  <2> QED
    BY <1>2, <1>5, <2>1, <2>2, <2>3
<1>8. Chosen'
  BY <1>1 DEF NestInv, Chosen, Takes, Parts, EffLen, EffWid
<1>9. Begun'
  BY <1>t, <1>1 DEF Begun
<1> QED
  BY <1>4, <1>6, <1>7, <1>8, <1>9 DEF NestInv

\* Choosing the sheet: nothing is placed yet, and it takes every part.
LEMMA PickStep ==
    ASSUME NestTypeOK, NestInv, Pick
    PROVE  NestInv'
<1>1. /\ stage = "pick" /\ Placed = {} /\ open = <<>> /\ curY = 0
      /\ UNCHANGED <<parts, place, open, curY>>
  BY DEF Pick, NestInv, Chosen
<1>2. Placed' = {}
  BY <1>1 DEF Placed, Parts
<1>3. \A i \in Parts' : place'[i].sheet = 0
  BY <1>2 DEF Placed
<1>4. sheets \in Nat /\ sheets' \in Nat
  BY DEF NestTypeOK, Pick
<1>5. Chosen' /\ Begun'
  <2>1. CASE stage' = "refused" /\ UNCHANGED <<sheet, sheets>>
    BY <1>1, <1>2, <2>1 DEF Chosen, Begun
  <2>2. CASE \E k \in DOMAIN Catalogue :
               Smallest(k) /\ sheet' = Catalogue[k] /\ stage' = "nest" /\ sheets' = 1
    <3>1. Takes(sheet')
      BY <2>2 DEF Smallest
    <3>2. Takes(sheet)'
      BY <1>1, <3>1 DEF Takes, EffLen, EffWid, Parts
    <3> QED
      BY <2>2, <3>2 DEF Chosen, Begun
  <2> QED
    BY <2>1, <2>2 DEF Pick
<1>6. Stacked' /\ OnShelf'
  BY <1>1, <1>3 DEF Stacked, OnShelf
<1>7. (BegunOnly /\ InsideSheet /\ NoOverlap)'
  BY <1>2, <1>3, <1>4 DEF BegunOnly, InsideSheet, NoOverlap
<1> QED
  BY <1>5, <1>6, <1>7 DEF NestInv

\* An empty plan satisfies the invariant.
LEMMA NestInitHolds == NestInit => NestTypeOK /\ NestInv
<1> SUFFICES ASSUME NestInit PROVE NestTypeOK /\ NestInv
  OBVIOUS
<1>1. NestTypeOK
  BY DEF NestInit, NestTypeOK, NoSheet
<1>2. \A i \in Parts : place[i].sheet = 0
  BY DEF NestInit
<1>3. Placed = {}
  BY <1>2 DEF Placed
<1>4. Chosen /\ Begun /\ Stacked /\ OnShelf /\ BegunOnly /\ InsideSheet /\ NoOverlap
  BY <1>2, <1>3 DEF NestInit, Chosen, Begun, Stacked, OnShelf, BegunOnly, InsideSheet, NoOverlap
<1> QED
  BY <1>1, <1>4 DEF NestInv

\* Every step of the nesting keeps it.
LEMMA NestStep == NestTypeOK /\ NestInv /\ [NestNext]_nestVars => NestTypeOK' /\ NestInv'
<1> SUFFICES ASSUME NestTypeOK, NestInv, [NestNext]_nestVars PROVE NestTypeOK' /\ NestInv'
  OBVIOUS
<1>1. NestTypeOK'
  BY NestTypeStep DEF NestInv
<1>2. ASSUME Pick PROVE NestInv'
  BY <1>2, PickStep
<1>3. ASSUME UNCHANGED <<parts, sheet, place, sheets, open, curY>>,
             \/ stage' = stage
             \/ stage = "nest" /\ stage' = "done"
      PROVE  NestInv'
  <2>1. Parts' = Parts /\ Placed' = Placed
    BY <1>3 DEF Parts, Placed
  <2>2. \A i \in Parts : EffLen(i)' = EffLen(i) /\ EffWid(i)' = EffWid(i)
    BY <1>3 DEF EffLen, EffWid
  <2>3. Chosen' /\ Begun'
    BY <1>3, <2>1, <2>2 DEF NestInv, Chosen, Begun, Takes
  <2>4. Stacked' /\ OnShelf' /\ BegunOnly'
    BY <1>3, <2>1, <2>2 DEF NestInv, Stacked, OnShelf, BegunOnly
  <2>5. \A i \in Placed : i \in Parts
    BY DEF Placed
  <2>6. InsideSheet' /\ NoOverlap'
    BY <1>3, <2>1, <2>2, <2>5 DEF NestInv, InsideSheet, NoOverlap
  <2> QED
    BY <2>3, <2>4, <2>6 DEF NestInv
<1>4. ASSUME NEW i \in Parts, PlaceOnShelf(i) \/ OpenShelf(i) \/ OpenSheet(i) PROVE NestInv'
  BY <1>4, PlaceStep, OpenShelfStep, OpenSheetStep
<1>5. ASSUME Finish PROVE NestInv'
  BY <1>3, <1>5 DEF Finish
<1>6. ASSUME UNCHANGED nestVars PROVE NestInv'
  BY <1>3, <1>6 DEF nestVars
<1> QED
  BY <1>1, <1>2, <1>4, <1>5, <1>6 DEF NestNext

LEMMA NestInvariant == NestSpec => [](NestTypeOK /\ NestInv)
<1> QED
  BY NestInitHolds, NestStep, PTL DEF NestSpec

\* The plan is well formed, and no shelf climbs over the edge of its sheet
\* (nest.go, nestGroup), whatever the parts and the catalogue.
THEOREM NestTypeCorrect == NestSpec => []NestTypeOK
<1> QED
  BY NestInvariant, PTL

\* Every part of every plan lies within a sheet that has been begun, its cut
\* included (domain nesting.go, Validate).
THEOREM PartsStayInside == NestSpec => []InsideSheet
<1>1. NestInv => InsideSheet
  BY DEF NestInv
<1> QED
  BY <1>1, NestInvariant, PTL

\* No two parts of a sheet overlap in any plan: what nest.go relies on and no
\* code checks.
THEOREM PartsNeverOverlap == NestSpec => []NoOverlap
<1>1. NestInv => NoOverlap
  BY DEF NestInv
<1> QED
  BY <1>1, NestInvariant, PTL

\* For any parts, catalogue and kerf every plan can be cut (nest.go: nestGroup).
THEOREM PlanCanBeCutHolds == NestSpec => []PlanCanBeCut
BY NestTypeCorrect, PartsStayInside, PartsNeverOverlap, PTL DEF PlanCanBeCut

-----------------------------------------------------------------------------
(* Induction and sums.  That the natural numbers are well founded gives the *)
(* least element of a set, and with it induction: what holds for a number is *)
(* put into a set.  The sums of the models are folds over finite sets; they  *)
(* exist (SumsExist), do not depend on the order (SumWithout), and grow and  *)
(* change with their terms.                                                  *)

\* A set of natural numbers that is not empty has a least one.
LEMMA LeastNatural ==
  ASSUME NEW S, S \subseteq Nat, S # {}
  PROVE  \E m \in S : \A y \in S : m <= y
<1>1. PICK x \in S : \A y \in S : ~(<<y, x>> \in OpToRel(<, Nat))
  BY WFMin, NatLessThanWellFounded, Zenon
<1>2. \A y \in S : ~(y < x)
  BY <1>1 DEF OpToRel
<1> QED
  BY <1>2

\* Induction, with the set of the numbers something holds for.
LEMMA Induction ==
  ASSUME NEW n \in Nat, NEW Good, 0 \in Good,
         \A k \in 0..n : k \in Good /\ k < n => k + 1 \in Good
  PROVE  \A k \in 0..n : k \in Good
<1> SUFFICES ASSUME NEW j \in 0..n, j \notin Good PROVE FALSE
  OBVIOUS
<1> DEFINE Bad == {k \in 0..n : k \notin Good}
<1>1. PICK m \in Bad : \A y \in Bad : m <= y
  <2>1. Bad \subseteq Nat /\ Bad # {}
    OBVIOUS
  <2> HIDE DEF Bad
  <2> QED
    BY <2>1, LeastNatural
<1>2. m \in 1..n /\ m - 1 \in 0..n /\ m - 1 < n
  BY <1>1
<1>3. m - 1 \in Good
  BY <1>1, <1>2
<1>4. (m - 1) + 1 \in Good
  BY <1>2, <1>3
<1> QED
  BY <1>1, <1>2, <1>4

\* What the recursion of a sum asks of a function on D, a set of finite sets.
AnyOf(s) == CHOOSE x \in s : TRUE
SumsOf(f, D, g) ==
    g = [s \in D |-> IF s = {} THEN 0 ELSE f[AnyOf(s)] + g[s \ {AnyOf(s)}]]

\* What is chosen of a set is in it.
LEMMA AnyOfIn == ASSUME NEW s, s # {} PROVE AnyOf(s) \in s
BY DEF AnyOf

Within(S, n) == {s \in SUBSET S : Cardinality(s) <= n}

\* A subset without one element is smaller by one.
LEMMA SmallerSubset ==
  ASSUME NEW S, IsFiniteSet(S), NEW s \in SUBSET S, NEW x \in s
  PROVE  /\ s \ {x} \in SUBSET S /\ IsFiniteSet(s) /\ IsFiniteSet(s \ {x})
         /\ Cardinality(s) \in Nat /\ Cardinality(s \ {x}) \in Nat
         /\ Cardinality(s \ {x}) = Cardinality(s) - 1
         /\ \A k \in Int : Cardinality(s) <= k + 1 => Cardinality(s \ {x}) <= k
BY FS_Subset, FS_RemoveElement, FS_CardinalityType

\* The recursion defines a function on the subsets of a finite set,
LEMMA SumsExist ==
  ASSUME NEW f, NEW S, IsFiniteSet(S)
  PROVE  \E g : SumsOf(f, SUBSET S, g)
<1> DEFINE N == Cardinality(S)
           Good == {k \in 0..N : \E g : SumsOf(f, Within(S, k), g)}
<1>1. N \in Nat
  BY FS_CardinalityType
<1>2. 0 \in Good
  <2>1. \A s \in Within(S, 0) : s = {}
    BY FS_EmptySet, FS_Subset, FS_CardinalityType DEF Within
  <2>2. SumsOf(f, Within(S, 0), [s \in Within(S, 0) |-> 0])
    BY <2>1 DEF SumsOf
  <2> QED
    BY <1>1, <2>2
<1>3. ASSUME NEW k \in 0..N, k \in Good, k < N PROVE k + 1 \in Good
  <2>0. k \in Int
    BY <1>1
  <2>1. PICK g : SumsOf(f, Within(S, k), g)
    BY <1>3
  <2> DEFINE h == [s \in Within(S, k + 1) |->
                      IF s = {} THEN 0 ELSE f[AnyOf(s)] + g[s \ {AnyOf(s)}]]
  <2>2. \A s \in Within(S, k) : s \in Within(S, k + 1) /\ h[s] = g[s]
    <3>1. \A s \in Within(S, k) : s \in Within(S, k + 1)
      BY FS_Subset, FS_CardinalityType DEF Within
    <3> QED
      BY <2>1, <3>1 DEF SumsOf
  <2>3. ASSUME NEW s \in Within(S, k + 1), s # {}, NEW x \in s PROVE s \ {x} \in Within(S, k)
    <3>1. s \in SUBSET S /\ Cardinality(s) <= k + 1
      BY DEF Within
    <3>2. s \ {x} \in SUBSET S /\ Cardinality(s \ {x}) <= k
      BY <2>0, <3>1, SmallerSubset
    <3> QED
      BY <3>2 DEF Within
  <2>4. \A s \in Within(S, k + 1) : s # {} => h[s \ {AnyOf(s)}] = g[s \ {AnyOf(s)}]
    <3> HIDE DEF h
    <3> QED
      BY <2>2, <2>3, AnyOfIn
  <2>5. SumsOf(f, Within(S, k + 1), h)
    <3> DEFINE E(q, s) == IF s = {} THEN 0 ELSE f[AnyOf(s)] + q[s \ {AnyOf(s)}]
    <3>1. \A s \in Within(S, k + 1) : E(g, s) = E(h, s)
      BY <2>4
    <3>2. h = [s \in Within(S, k + 1) |-> E(g, s)]
      OBVIOUS
    <3> HIDE DEF h, E
    <3>3. h = [s \in Within(S, k + 1) |-> E(h, s)]
      BY <3>1, <3>2
    <3> QED
      BY <3>3 DEF SumsOf, E
  <2> QED
    BY <1>1, <1>3, <2>5
<1>4. N \in Good
  <2> HIDE DEF Good
  <2> QED
    BY <1>1, <1>2, <1>3, Induction
<1>5. Within(S, N) = SUBSET S
  BY FS_Subset DEF Within
<1> QED
  BY <1>4, <1>5

\* and only one: what it is on a set does not depend on the set around it.
LEMMA SumsAgree ==
  ASSUME NEW f, NEW S, NEW T, IsFiniteSet(S), IsFiniteSet(T), NEW g, NEW h,
         SumsOf(f, SUBSET S, g), SumsOf(f, SUBSET T, h),
         NEW s \in SUBSET (S \intersect T)
  PROVE  g[s] = h[s]
<1> DEFINE N == Cardinality(S)
           Good == {k \in 0..N : \A t \in SUBSET (S \intersect T) : Cardinality(t) <= k => g[t] = h[t]}
<1>1. N \in Nat
  BY FS_CardinalityType
<1>2. 0 \in Good
  <2>1. \A t \in SUBSET (S \intersect T) : Cardinality(t) <= 0 => t = {}
    BY FS_EmptySet, FS_Subset, FS_CardinalityType
  <2> QED
    BY <1>1, <2>1 DEF SumsOf
<1>3. ASSUME NEW k \in 0..N, k \in Good, k < N PROVE k + 1 \in Good
  <2>0. k \in Int
    BY <1>1
  <2>1. ASSUME NEW t \in SUBSET (S \intersect T), Cardinality(t) <= k + 1, t # {} PROVE g[t] = h[t]
    <3> DEFINE x == AnyOf(t)
    <3>1. x \in t
      BY <2>1, AnyOfIn
    <3> HIDE DEF x
    <3>2. t \ {x} \in SUBSET (S \intersect T) /\ Cardinality(t \ {x}) <= k
      <4>1. t \in SUBSET S
        OBVIOUS
      <4> QED
      BY <4>1, <2>0, <2>1, <3>1, SmallerSubset
    <3>3. g[t \ {x}] = h[t \ {x}]
      BY <1>3, <3>2
    <3>4. g[t] = f[x] + g[t \ {x}] /\ h[t] = f[x] + h[t \ {x}]
      BY <2>1 DEF SumsOf, x
    <3> QED
      BY <3>3, <3>4
  <2>2. g[{}] = h[{}]
    BY DEF SumsOf
  <2> QED
    BY <1>1, <1>3, <2>1, <2>2
<1>4. N \in Good
  <2> HIDE DEF Good
  <2> QED
    BY <1>1, <1>2, <1>3, Induction
<1>5. Cardinality(s) <= N
  BY FS_Subset
<1> QED
  BY <1>4, <1>5

SumIn(f, S) == CHOOSE g : SumsOf(f, SUBSET S, g)

\* The sum over a set is the value of that function.
LEMMA SumMeans ==
  ASSUME NEW f, NEW S, IsFiniteSet(S)
  PROVE  /\ SumFunctionOnSet(f, S) = SumIn(f, S)[S]
         /\ SumsOf(f, SUBSET S, SumIn(f, S))
<1>1. SumsOf(f, SUBSET S, SumIn(f, S))
  BY SumsExist DEF SumIn
<1>2. SumFunctionOnSet(f, S) = SumIn(f, S)[S]
  BY DEF SumFunctionOnSet, FoldFunctionOnSet, MapThenFoldSet, SumIn, SumsOf, AnyOf
<1> QED
  BY <1>1, <1>2

\* A sum over a set: any of its elements apart from the others.
LEMMA SumChosen ==
  ASSUME NEW f, NEW S, IsFiniteSet(S), S # {}
  PROVE  \E x \in S : SumFunctionOnSet(f, S) = f[x] + SumFunctionOnSet(f, S \ {x})
<1> DEFINE x == AnyOf(S)
<1>1. x \in S
  BY AnyOfIn
<1>2. SumFunctionOnSet(f, S) = f[x] + SumIn(f, S)[S \ {x}]
  <2> DEFINE q == SumIn(f, S)
  <2>1. SumFunctionOnSet(f, S) = q[S] /\ SumsOf(f, SUBSET S, q)
    BY SumMeans
  <2> HIDE DEF q
  <2>2. q[S] = f[x] + q[S \ {x}]
    BY <2>1 DEF SumsOf
  <2> QED
    BY <2>1, <2>2 DEF q
<1> HIDE DEF x
<1>3. IsFiniteSet(S \ {x}) /\ S \ {x} \in SUBSET (S \intersect (S \ {x}))
  BY <1>1, SmallerSubset
<1>4. SumIn(f, S)[S \ {x}] = SumIn(f, S \ {x})[S \ {x}]
  <2> DEFINE T == S \ {x}
             g == SumIn(f, S)
             h == SumIn(f, T)
  <2>1. SumsOf(f, SUBSET S, g) /\ SumsOf(f, SUBSET T, h)
    BY <1>3, SumMeans
  <2>2. IsFiniteSet(T) /\ T \in SUBSET (S \intersect T)
    BY <1>3
  <2> HIDE DEF T, g, h
  <2>3. g[T] = h[T]
    BY <2>1, <2>2, SumsAgree
  <2> QED
    BY <2>3 DEF T, g, h
<1>5. SumIn(f, S \ {x})[S \ {x}] = SumFunctionOnSet(f, S \ {x})
  BY <1>3, SumMeans
<1> QED
  BY <1>1, <1>2, <1>4, <1>5

\* The sum of nothing is zero.
LEMMA SumEmpty ==
  ASSUME NEW f
  PROVE  SumFunctionOnSet(f, {}) = 0
<1> DEFINE q == SumIn(f, {})
<1>1. SumFunctionOnSet(f, {}) = q[{}] /\ SumsOf(f, SUBSET {}, q)
  BY SumMeans, FS_EmptySet
<1> HIDE DEF q
<1> QED
  BY <1>1 DEF SumsOf

\* A sum of integers is an integer.
LEMMA SumType ==
  ASSUME NEW f, NEW S, IsFiniteSet(S), \A x \in S : f[x] \in Int
  PROVE  SumFunctionOnSet(f, S) \in Int
<1> DEFINE N == Cardinality(S)
           Good == {k \in 0..N : \A s \in SUBSET S : Cardinality(s) <= k => SumFunctionOnSet(f, s) \in Int}
<1>1. N \in Nat
  BY FS_CardinalityType
<1>2. 0 \in Good
  <2>1. \A s \in SUBSET S : Cardinality(s) <= 0 => s = {}
    BY FS_EmptySet, FS_Subset, FS_CardinalityType
  <2> QED
    BY <1>1, <2>1, SumEmpty
<1>3. ASSUME NEW k \in 0..N, k \in Good, k < N PROVE k + 1 \in Good
  <2>0. k \in Int
    BY <1>1
  <2>1. ASSUME NEW s \in SUBSET S, Cardinality(s) <= k + 1, s # {} PROVE SumFunctionOnSet(f, s) \in Int
    <3>1. PICK x \in s : SumFunctionOnSet(f, s) = f[x] + SumFunctionOnSet(f, s \ {x})
      BY <2>1, SumChosen, FS_Subset
    <3>2. s \ {x} \in SUBSET S /\ Cardinality(s \ {x}) <= k
      BY <2>0, <2>1, <3>1, SmallerSubset
    <3>3. SumFunctionOnSet(f, s \ {x}) \in Int
      BY <1>3, <3>2
    <3> QED
      BY <3>1, <3>3
  <2>2. SumFunctionOnSet(f, {}) \in Int
    BY SumEmpty
  <2> QED
    BY <1>1, <1>3, <2>1, <2>2
<1>4. N \in Good
  <2> HIDE DEF Good
  <2> QED
    BY <1>1, <1>2, <1>3, Induction
<1> QED
  BY <1>1, <1>4

\* Any element may be taken out of a sum first.
LEMMA SumWithout ==
  ASSUME NEW f, NEW S, IsFiniteSet(S), \A x \in S : f[x] \in Int, NEW a \in S
  PROVE  SumFunctionOnSet(f, S) = f[a] + SumFunctionOnSet(f, S \ {a})
<1> DEFINE N == Cardinality(S)
           Good == {k \in 0..N : \A s \in SUBSET S : Cardinality(s) <= k =>
                       \A y \in s : SumFunctionOnSet(f, s) = f[y] + SumFunctionOnSet(f, s \ {y})}
<1>1. N \in Nat
  BY FS_CardinalityType
<1>2. 0 \in Good
  <2>1. \A s \in SUBSET S : Cardinality(s) <= 0 => s = {}
    BY FS_EmptySet, FS_Subset, FS_CardinalityType
  <2> QED
    BY <1>1, <2>1
<1>3. ASSUME NEW k \in 0..N, k \in Good, k < N PROVE k + 1 \in Good
  <2>0. k \in Int
    BY <1>1
  <2>1. ASSUME NEW s \in SUBSET S, Cardinality(s) <= k + 1, NEW y \in s
        PROVE  SumFunctionOnSet(f, s) = f[y] + SumFunctionOnSet(f, s \ {y})
    <3>1. PICK x \in s : SumFunctionOnSet(f, s) = f[x] + SumFunctionOnSet(f, s \ {x})
      BY <2>1, SumChosen, FS_Subset
    <3>2. CASE x = y
      BY <3>1, <3>2
    <3>3. CASE x # y
      <4>1. /\ s \ {x} \in SUBSET S /\ Cardinality(s \ {x}) <= k /\ y \in s \ {x}
            /\ s \ {y} \in SUBSET S /\ Cardinality(s \ {y}) <= k /\ x \in s \ {y}
        BY <2>0, <2>1, <3>1, <3>3, SmallerSubset
      <4>2. SumFunctionOnSet(f, s \ {x}) = f[y] + SumFunctionOnSet(f, (s \ {x}) \ {y})
        BY <1>3, <4>1
      <4>3. SumFunctionOnSet(f, s \ {y}) = f[x] + SumFunctionOnSet(f, (s \ {y}) \ {x})
        BY <1>3, <4>1
      <4>4. (s \ {x}) \ {y} = (s \ {y}) \ {x}
        OBVIOUS
      <4> DEFINE R == SumFunctionOnSet(f, (s \ {x}) \ {y})
      <4>5. R \in Int
        BY SumType, FS_Subset
      <4>6. f[x] \in Int /\ f[y] \in Int
        OBVIOUS
      <4>7. SumFunctionOnSet(f, s \ {y}) = f[x] + R /\ SumFunctionOnSet(f, s) = f[x] + (f[y] + R)
        BY <3>1, <4>2, <4>3, <4>4
      <4> HIDE DEF R
      <4> QED
        BY <4>5, <4>6, <4>7
    <3> QED
      BY <3>2, <3>3
  <2> QED
    BY <1>1, <1>3, <2>1
<1>4. N \in Good
  <2> HIDE DEF Good
  <2> QED
    BY <1>1, <1>2, <1>3, Induction
<1> QED
  BY <1>1, <1>4

\* Any element may be added to a sum last.
LEMMA SumWith ==
  ASSUME NEW f, NEW S, IsFiniteSet(S), NEW a, a \notin S, \A x \in S \union {a} : f[x] \in Int
  PROVE  SumFunctionOnSet(f, S \union {a}) = f[a] + SumFunctionOnSet(f, S)
<1>1. IsFiniteSet(S \union {a}) /\ (S \union {a}) \ {a} = S
  BY FS_AddElement
<1> QED
  BY <1>1, SumWithout

\* Sums of the same numbers over a set.
LEMMA SumSame ==
  ASSUME NEW f, NEW g, NEW S, IsFiniteSet(S), \A x \in S : f[x] = g[x] /\ f[x] \in Int
  PROVE  SumFunctionOnSet(f, S) = SumFunctionOnSet(g, S)
<1> DEFINE N == Cardinality(S)
           Good == {k \in 0..N : \A s \in SUBSET S : Cardinality(s) <= k =>
                       SumFunctionOnSet(f, s) = SumFunctionOnSet(g, s)}
<1>1. N \in Nat
  BY FS_CardinalityType
<1>2. 0 \in Good
  <2>1. \A s \in SUBSET S : Cardinality(s) <= 0 => s = {}
    BY FS_EmptySet, FS_Subset, FS_CardinalityType
  <2> QED
    BY <1>1, <2>1, SumEmpty
<1>3. ASSUME NEW k \in 0..N, k \in Good, k < N PROVE k + 1 \in Good
  <2>0. k \in Int
    BY <1>1
  <2>1. ASSUME NEW s \in SUBSET S, Cardinality(s) <= k + 1, s # {}
        PROVE  SumFunctionOnSet(f, s) = SumFunctionOnSet(g, s)
    <3>1. PICK x \in s : TRUE
      BY <2>1
    <3>2. s \ {x} \in SUBSET S /\ Cardinality(s \ {x}) <= k /\ IsFiniteSet(s)
      BY <2>0, <2>1, <3>1, SmallerSubset
    <3>3. SumFunctionOnSet(f, s \ {x}) = SumFunctionOnSet(g, s \ {x})
      BY <1>3, <3>2
    <3>4. /\ SumFunctionOnSet(f, s) = f[x] + SumFunctionOnSet(f, s \ {x})
          /\ SumFunctionOnSet(g, s) = g[x] + SumFunctionOnSet(g, s \ {x})
      BY <3>2, SumWithout
    <3> QED
      BY <3>3, <3>4
  <2>2. SumFunctionOnSet(f, {}) = SumFunctionOnSet(g, {})
    BY SumEmpty
  <2> QED
    BY <1>1, <1>3, <2>1, <2>2
<1>4. N \in Good
  <2> HIDE DEF Good
  <2> QED
    BY <1>1, <1>2, <1>3, Induction
<1> QED
  BY <1>1, <1>4

\* A sum of products by a constant is not larger than the constant times the other sum.
LEMMA SumBound ==
  ASSUME NEW f, NEW g, NEW c \in Int, NEW S, IsFiniteSet(S),
         \A x \in S : f[x] \in Int /\ g[x] \in Int /\ f[x] <= c * g[x]
  PROVE  SumFunctionOnSet(f, S) <= c * SumFunctionOnSet(g, S)
<1> DEFINE N == Cardinality(S)
           Good == {k \in 0..N : \A s \in SUBSET S : Cardinality(s) <= k =>
                       SumFunctionOnSet(f, s) <= c * SumFunctionOnSet(g, s)}
<1>1. N \in Nat
  BY FS_CardinalityType
<1>2. 0 \in Good
  <2>1. \A s \in SUBSET S : Cardinality(s) <= 0 => s = {}
    BY FS_EmptySet, FS_Subset, FS_CardinalityType
  <2> QED
    BY <1>1, <2>1, SumEmpty
<1>3. ASSUME NEW k \in 0..N, k \in Good, k < N PROVE k + 1 \in Good
  <2>0. k \in Int
    BY <1>1
  <2>1. ASSUME NEW s \in SUBSET S, Cardinality(s) <= k + 1, s # {}
        PROVE  SumFunctionOnSet(f, s) <= c * SumFunctionOnSet(g, s)
    <3>1. PICK x \in s : TRUE
      BY <2>1
    <3>2. s \ {x} \in SUBSET S /\ Cardinality(s \ {x}) <= k /\ IsFiniteSet(s) /\ IsFiniteSet(s \ {x})
      BY <2>0, <2>1, <3>1, SmallerSubset
    <3> DEFINE F == SumFunctionOnSet(f, s \ {x})
               G == SumFunctionOnSet(g, s \ {x})
    <3>3. F <= c * G /\ F \in Int /\ G \in Int
      BY <1>3, <3>2, SumType
    <3>4. /\ SumFunctionOnSet(f, s) = f[x] + F
          /\ SumFunctionOnSet(g, s) = g[x] + G
      BY <3>2, SumWithout
    <3>5. f[x] \in Int /\ g[x] \in Int /\ f[x] <= c * g[x]
      BY <3>1
    <3> HIDE DEF F, G
    <3>6. f[x] + F <= c * (g[x] + G)
      BY <3>3, <3>5, Z3
    <3> QED
      BY <3>4, <3>6
  <2>2. SumFunctionOnSet(f, {}) <= c * SumFunctionOnSet(g, {})
    BY SumEmpty
  <2> QED
    BY <1>1, <1>3, <2>1, <2>2
<1>4. N \in Good
  <2> HIDE DEF Good
  <2> QED
    BY <1>1, <1>2, <1>3, Induction
<1> QED
  BY <1>1, <1>4

\* One of the numbers is another one.
LEMMA SumChanged ==
  ASSUME NEW f, NEW g, NEW S, IsFiniteSet(S), NEW a \in S,
         \A x \in S : f[x] \in Int /\ g[x] \in Int,
         \A x \in S \ {a} : f[x] = g[x]
  PROVE  SumFunctionOnSet(g, S) = SumFunctionOnSet(f, S) - f[a] + g[a]
<1> DEFINE T == S \ {a}
<1>1. IsFiniteSet(T) /\ \A x \in T : f[x] \in Int /\ f[x] = g[x]
  BY FS_Subset
<1>2. SumFunctionOnSet(f, S) = f[a] + SumFunctionOnSet(f, T) /\ SumFunctionOnSet(g, S) = g[a] + SumFunctionOnSet(g, T)
  BY SumWithout
<1> HIDE DEF T
<1>3. SumFunctionOnSet(f, T) = SumFunctionOnSet(g, T) /\ SumFunctionOnSet(f, T) \in Int
  BY <1>1, SumSame, SumType
<1> QED
  BY <1>2, <1>3

\* Products keep the order.
LEMMA ProductOrder ==
    ASSUME NEW a \in Nat, NEW b \in Nat, NEW c \in Nat, a <= b
    PROVE  c * a <= c * b /\ a * c <= b * c /\ a * c = c * a /\ c * a \in Nat
BY Z3

-----------------------------------------------------------------------------
(* The economy of the plan.  The invariant weighs the parts placed against   *)
(* what they take: the full sheets, and the shelves of the open one, which   *)
(* are as high together as they reach (Covered).  A shelf is at least as     *)
(* high as each of its parts and the next shelf does not begin before it     *)
(* ends, so no sheet carries more than its area.                             *)

\* Some sheet of a catalogue that is not empty contains all the others.
LEMMA LargestSheet ==
    ASSUME DOMAIN Catalogue # {}
    PROVE  \E k \in DOMAIN Catalogue : \A j \in DOMAIN Catalogue :
               Catalogue[j].len <= Catalogue[k].len /\ Catalogue[j].wid <= Catalogue[k].wid
<1> DEFINE N == Len(Catalogue)
           Contains(k, j) == Catalogue[j].len <= Catalogue[k].len /\ Catalogue[j].wid <= Catalogue[k].wid
           Good == {n \in 0..N : n > 0 => \E k \in 1..n : \A j \in 1..n : Contains(k, j)}
<1>1. N \in Nat /\ DOMAIN Catalogue = 1..N /\ N > 0
  BY CatalogueAssumption
<1>2. \A k \in 1..N : Catalogue[k].len \in Nat /\ Catalogue[k].wid \in Nat
  <2>1. \A k \in 1..N : Catalogue[k] \in StockSheet
    BY <1>1, CatalogueAssumption
  <2> QED
    BY <2>1 DEF StockSheet
<1>3. \A j, k \in 1..N : Contains(j, k) \/ Contains(k, j)
  BY <1>1, CatalogueAssumption
<1>4. \A i, j, k \in 1..N : Contains(i, j) /\ Contains(j, k) => Contains(i, k)
  BY <1>2, SMTT(30)
<1> HIDE DEF Contains
<1>5. ASSUME NEW n \in 0..N, n \in Good, n < N PROVE n + 1 \in Good
  <2>1. n + 1 \in 1..N /\ \A j \in 1..(n + 1) : j \in 1..n \/ j = n + 1
    BY <1>1, <1>5
  <2>g. ASSUME NEW k \in 1..(n + 1), \A j \in 1..(n + 1) : Contains(k, j) PROVE n + 1 \in Good
    BY <1>1, <2>1, <2>g
  <2>s. Contains(n + 1, n + 1)
    BY <1>3, <2>1
  <2> HIDE DEF Good
  <2>2. CASE n = 0
    BY <2>1, <2>2, <2>g, <2>s
  <2>3. CASE n > 0
    <3>1. PICK k \in 1..n : \A j \in 1..n : Contains(k, j)
      BY <1>5, <2>3 DEF Good
    <3>2. CASE Contains(k, n + 1)
      <4>1. k \in 1..(n + 1)
        BY <1>1
      <4> QED
        BY <2>1, <2>g, <3>1, <3>2, <4>1
    <3>3. CASE Contains(n + 1, k)
      <4>1. \A j \in 1..n : Contains(n + 1, j)
        BY <1>1, <1>4, <2>1, <3>1, <3>3
      <4>2. n + 1 \in 1..(n + 1)
        BY <1>1
      <4> QED
        BY <2>1, <2>g, <2>s, <4>1, <4>2
    <3> QED
      BY <1>1, <1>3, <2>1, <3>1, <3>2, <3>3
  <2> QED
    BY <1>1, <2>2, <2>3
<1>6. 0 \in Good
  BY <1>1
<1>7. N \in Good
  <2>1. \A n \in 0..N : n \in Good /\ n < N => n + 1 \in Good
    BY <1>5
  <2>2. N \in Nat /\ N \in 0..N
    BY <1>1
  <2> HIDE DEF Good, N
  <2> QED
    BY <1>6, <2>1, <2>2, Induction
<1> QED
  BY <1>1, <1>7 DEF Contains

Area == [i \in Parts |-> parts[i].len * parts[i].wid]
ShelfArea == [k \in 1..Len(open) |-> open[k].used * open[k].height]
ShelfHeight == [k \in 1..Len(open) |-> open[k].height]
Packed == SumFunctionOnSet(Area, Placed)
OnShelves == SumFunctionOnSet(ShelfArea, 1..Len(open))
Heights == SumFunctionOnSet(ShelfHeight, 1..Len(open))

\* Every sheet begun carries a part, unless nothing is placed at all.
Carrying ==
    stage \in {"nest", "done"} =>
        IF curY = 0 THEN sheets = 1 /\ Placed = {}
        ELSE \A n \in 1..sheets : \E i \in Parts : place[i].sheet = n

\* The parts take no more than the sheets that are full and the shelves of the open one,
\* which are as high together as they reach.
Covered ==
    stage \in {"nest", "done"} =>
        /\ Packed <= (sheets - 1) * (sheet.len * sheet.wid) + OnShelves
        /\ Heights = curY

NoneSmaller ==
    stage \in {"nest", "done"} => \A k \in DOMAIN Catalogue :
        Takes(Catalogue[k]) => sheet.len * sheet.wid <= Catalogue[k].len * Catalogue[k].wid

EconInv == Carrying /\ Covered /\ NoneSmaller /\ RefusedForAPart /\ (stage = "done" => Waiting = {})

\* The sums are integers, and the shelves of a sheet do not reach further than they are long.
LEMMA PackingTypes ==
    ASSUME NestTypeOK
    PROVE  /\ IsFiniteSet(Parts) /\ IsFiniteSet(Placed) /\ IsFiniteSet(1..Len(open)) /\ Parts # {}
           /\ \A i \in Parts : Area[i] \in Nat /\ Area[i] <= EffLen(i) * EffWid(i)
           /\ \A k \in 1..Len(open) : /\ open[k].used \in Nat /\ open[k].height \in Nat
                                      /\ ShelfArea[k] \in Nat /\ ShelfHeight[k] \in Nat
           /\ Packed \in Int /\ OnShelves \in Int /\ Heights \in Int
<1>1. parts \in Seq(Part) /\ parts # <<>>
  BY PartsAssumption DEF NestTypeOK
<1>2. Len(parts) \in Nat /\ Parts = 1..Len(parts) /\ Len(parts) # 0
  BY <1>1 DEF Parts
<1>3. IsFiniteSet(Parts) /\ IsFiniteSet(Placed) /\ Parts # {}
  <2>1. Placed \subseteq Parts
    BY DEF Placed
  <2>2. IsFiniteSet(Parts)
    BY <1>2, FS_Interval
  <2>3. IsFiniteSet(Placed)
    BY <2>1, <2>2, FS_Subset
  <2>4. 1 \in Parts
    BY <1>2
  <2> QED
    BY <2>2, <2>3, <2>4
<1>4. open \in Seq(Shelf)
  BY DEF NestTypeOK, Shelf
<1>5. Len(open) \in Nat /\ IsFiniteSet(1..Len(open))
  BY <1>4, FS_Interval
<1>6. \A i \in Parts : Area[i] \in Nat /\ Area[i] <= EffLen(i) * EffWid(i)
  <2> TAKE i \in Parts
  <2>1. parts[i] \in Part
    BY <1>1 DEF Parts
  <2>2. parts[i].len \in Nat /\ parts[i].wid \in Nat /\ KerfWidth \in Nat
    BY <2>1, KerfAssumption DEF Part
  <2> DEFINE l == parts[i].len
             w == parts[i].wid
  <2>3. l \in Nat /\ w \in Nat /\ l + KerfWidth \in Nat /\ w + KerfWidth \in Nat
        /\ l <= l + KerfWidth /\ w <= w + KerfWidth
    BY <2>2
  <2> HIDE DEF l, w
  <2>4. l * w <= (l + KerfWidth) * w /\ (l + KerfWidth) * w <= (l + KerfWidth) * (w + KerfWidth)
        /\ l * w \in Nat /\ (l + KerfWidth) * w \in Nat /\ (l + KerfWidth) * (w + KerfWidth) \in Nat
    BY <2>3, ProductOrder
  <2>5. l * w <= (l + KerfWidth) * (w + KerfWidth) /\ l * w \in Nat
    BY <2>4
  <2> QED
    BY <2>5 DEF Area, EffLen, EffWid, l, w
<1>7. \A k \in 1..Len(open) : /\ open[k].used \in Nat /\ open[k].height \in Nat
                              /\ ShelfArea[k] \in Nat /\ ShelfHeight[k] \in Nat
  <2> TAKE k \in 1..Len(open)
  <2>1. open[k] \in Shelf
    BY <1>4
  <2>2. open[k].used \in Nat /\ open[k].height \in Nat
    BY <2>1 DEF Shelf
  <2> QED
    BY <2>2, ProductOrder DEF ShelfArea, ShelfHeight
<1>8. Packed \in Int
  BY <1>3, <1>6, SumType DEF Packed, Placed
<1>9. OnShelves \in Int /\ Heights \in Int
  BY <1>5, <1>7, SumType DEF OnShelves, Heights
<1> QED
  BY <1>3, <1>5, <1>6, <1>7, <1>8, <1>9

\* The shelves of the open sheet take no more than its length and their heights.
LEMMA ShelvesFit ==
    ASSUME NestTypeOK, Stacked
    PROVE  OnShelves <= sheet.len * Heights
<1>1. sheet.len \in Nat
  BY DEF NestTypeOK
<1>2. ASSUME NEW k \in 1..Len(open)
      PROVE  ShelfArea[k] \in Int /\ ShelfHeight[k] \in Int /\ ShelfArea[k] <= sheet.len * ShelfHeight[k]
  <2>1. open[k].used \in Nat /\ open[k].height \in Nat /\ open[k].used <= sheet.len
    BY PackingTypes DEF Stacked
  <2>2. open[k].used * open[k].height <= sheet.len * open[k].height
    BY <1>1, <2>1, ProductOrder
  <2> QED
    BY <2>2, PackingTypes DEF ShelfArea, ShelfHeight
<1> DEFINE S == 1..Len(open)
           f == ShelfArea
           g == ShelfHeight
           c == sheet.len
<1>3. IsFiniteSet(S) /\ c \in Int /\ \A k \in S : f[k] \in Int /\ g[k] \in Int /\ f[k] <= c * g[k]
  BY <1>1, <1>2, PackingTypes
<1> HIDE DEF S, f, g, c
<1>4. SumFunctionOnSet(f, S) <= c * SumFunctionOnSet(g, S)
  BY <1>3, SumBound
<1> QED
  BY <1>4 DEF OnShelves, Heights, S, f, g, c

\* A part more is placed.
LEMMA PackOne ==
    ASSUME NestTypeOK, NEW i \in Parts, place[i].sheet = 0, parts' = parts,
           NEW n \in Nat, n > 0, NEW x \in Nat, NEW y \in Nat, Put(i, n, x, y)
    PROVE  /\ Placed' = Placed \union {i} /\ Packed' = Packed + Area[i]
           /\ place'[i].sheet = n /\ \A j \in Parts : j # i => place'[j] = place[j]
           /\ Parts' = Parts
<1>1. place \in [Parts -> Position]
  BY DEF NestTypeOK, Position
<1>2. /\ place'[i] = [sheet |-> n, x |-> x, y |-> y]
      /\ \A j \in Parts : j # i => place'[j] = place[j]
  BY <1>1 DEF Put, Position
<1>3. Parts' = Parts /\ Area' = Area
  BY DEF Parts, Area
<1>4. place'[i].sheet = n
  BY <1>2
<1>5. Placed' = Placed \union {i} /\ i \notin Placed
  BY <1>2, <1>3, <1>4 DEF Placed
<1>6. IsFiniteSet(Placed) /\ \A j \in Placed \union {i} : Area[j] \in Int
  BY PackingTypes DEF Placed
<1>7. SumFunctionOnSet(Area, Placed \union {i}) = Area[i] + SumFunctionOnSet(Area, Placed)
  BY <1>5, <1>6, SumWith
<1>8. Packed \in Int /\ Area[i] \in Int
  BY PackingTypes
<1>9. Packed' = Packed + Area[i]
  BY <1>3, <1>5, <1>7, <1>8 DEF Packed
<1> QED
  BY <1>2, <1>3, <1>4, <1>5, <1>9

\* A part on a shelf is covered by the shelf.
LEMMA PlaceCovers ==
    ASSUME NestTypeOK, NestInv, EconInv, NEW i \in Parts, PlaceOnShelf(i)
    PROVE  EconInv'
<1>1. /\ stage = "nest" /\ place[i].sheet = 0 /\ i \in Parts
      /\ UNCHANGED <<parts, stage, sheet, sheets, curY>>
  BY DEF PlaceOnShelf, IsNext, Waiting
<1>2. PICK k \in DOMAIN open :
        /\ HasRoom(k, i) /\ Put(i, sheets, open[k].used, open[k].y)
        /\ open' = [open EXCEPT ![k].used = @ + EffLen(i)]
  BY DEF PlaceOnShelf
<1>3. /\ open \in Seq(Shelf) /\ sheets \in Nat /\ sheets > 0 /\ DOMAIN open = 1..Len(open)
      /\ EffLen(i) \in Nat /\ EffWid(i) \in Nat /\ EffWid(i) > 0
  BY <1>1, EffType DEF NestTypeOK, Shelf, NestInv, Begun
<1>4. \A m \in 1..Len(open) : open[m] \in Shelf /\ open[m].y \in Nat /\ open[m].used \in Nat /\ open[m].height \in Nat
  <2>1. \A m \in 1..Len(open) : open[m] \in Shelf
    BY <1>3
  <2> QED
    BY <2>1 DEF Shelf
<1>5. /\ Placed' = Placed \union {i} /\ Packed' = Packed + Area[i]
      /\ place'[i].sheet = sheets /\ \A j \in Parts : j # i => place'[j] = place[j]
      /\ Parts' = Parts
  BY <1>1, <1>2, <1>3, <1>4, PackOne
<1>6. /\ Len(open') = Len(open) /\ k \in 1..Len(open)
      /\ \A m \in 1..Len(open) : open'[m].height = open[m].height
      /\ \A m \in 1..Len(open) : m # k => open'[m].used = open[m].used
      /\ open'[k].used = open[k].used + EffLen(i)
  <2> DEFINE s == [open[k] EXCEPT !.used = @ + EffLen(i)]
  <2>1. s \in Shelf /\ s.height = open[k].height /\ s.used = open[k].used + EffLen(i)
    <3>1. open[k] \in Shelf /\ EffLen(i) \in Nat
      BY <1>3, <1>4
    <3> QED
      BY <3>1 DEF Shelf
  <2>2. open' = [open EXCEPT ![k] = s] /\ k \in 1..Len(open)
    BY <1>2, <1>3
  <2> HIDE DEF s
  <2>3. Len(open') = Len(open) /\ \A m \in 1..Len(open) : open'[m] = IF m = k THEN s ELSE open[m]
    BY <1>3, <2>1, <2>2, ExceptSeq
  <2> QED
    BY <2>1, <2>2, <2>3
<1>7. Heights' = Heights
  <2>1. ShelfHeight' = ShelfHeight
    BY <1>6 DEF ShelfHeight
  <2> QED
    BY <1>6, <2>1 DEF Heights
<1>8. OnShelves' = OnShelves + EffLen(i) * open[k].height
  <2> DEFINE S == 1..Len(open)
             f == ShelfArea
             g == ShelfArea'
             e == EffLen(i)
             h == open[k].height
             u == open[k].used
  <2>1. e \in Nat /\ h \in Nat /\ u \in Nat /\ k \in S /\ IsFiniteSet(S)
    BY <1>3, <1>4, <1>6, PackingTypes
  <2>2. \A m \in S : f[m] \in Int /\ (m # k => f[m] = g[m])
    BY <1>6, PackingTypes DEF ShelfArea
  <2>3. f[k] = u * h /\ g[k] = (u + e) * h
    BY <1>6 DEF ShelfArea
  <2>4. u * h \in Int /\ (u + e) * h \in Int /\ (u + e) * h = u * h + e * h /\ e * h \in Int
    <3> HIDE DEF u, e, h
    <3> QED
      BY <2>1, Z3
  <2>5. \A m \in S : f[m] \in Int /\ g[m] \in Int
    BY <2>2, <2>3, <2>4
  <2>6. OnShelves = SumFunctionOnSet(f, S) /\ OnShelves' = SumFunctionOnSet(g, S)
    BY <1>6 DEF OnShelves
  <2> HIDE DEF S, f, g, e, h, u
  <2>7. SumFunctionOnSet(g, S) = SumFunctionOnSet(f, S) - f[k] + g[k]
    BY <2>1, <2>2, <2>5, SumChanged
  <2>8. SumFunctionOnSet(f, S) \in Int
    BY <2>1, <2>5, SumType
  <2>9. OnShelves' = OnShelves + e * h
    BY <2>3, <2>4, <2>6, <2>7, <2>8
  <2> QED
    BY <2>9 DEF e, h
<1>9. Area[i] <= EffLen(i) * open[k].height /\ EffLen(i) * open[k].height \in Nat
  <2> DEFINE h == open[k].height
             e == EffLen(i)
             w == EffWid(i)
  <2>1. e \in Nat /\ w \in Nat /\ h \in Nat /\ w <= h /\ Area[i] \in Nat /\ Area[i] <= e * w
    BY <1>2, <1>3, <1>4, PackingTypes DEF HasRoom
  <2> HIDE DEF h, e, w
  <2>2. e * w <= e * h /\ e * h \in Nat /\ e * w \in Nat
    BY <2>1, ProductOrder
  <2>3. Area[i] <= e * h
    BY <2>1, <2>2
  <2> QED
    BY <2>2, <2>3 DEF h, e
<1>10. Covered'
  <2> DEFINE B == (sheets - 1) * (sheet.len * sheet.wid)
             D == EffLen(i) * open[k].height
  <2>1. Packed <= B + OnShelves /\ Heights = curY
    BY <1>1 DEF EconInv, Covered
  <2>2. B \in Int
    BY <1>3 DEF NestTypeOK
  <2>3. Packed \in Int /\ OnShelves \in Int /\ Area[i] \in Nat /\ D \in Nat /\ Area[i] <= D
    BY <1>9, PackingTypes
  <2>4. Packed' = Packed + Area[i] /\ OnShelves' = OnShelves + D
    BY <1>5, <1>8
  <2>5. B' = B
    BY <1>1
  <2> HIDE DEF B, D
  <2>6. Packed' <= B + OnShelves'
    BY <2>1, <2>2, <2>3, <2>4
  <2> QED
    BY <1>1, <1>7, <2>1, <2>5, <2>6 DEF Covered, B
<1>11. Carrying'
  <2>1. curY # 0
    <3>1. open[k].y + open[k].height <= curY /\ EffWid(i) <= open[k].height
      BY <1>2, <1>6 DEF NestInv, Stacked, HasRoom
    <3> QED
      BY <1>3, <1>4, <1>6, <3>1
  <2>2. \A n \in 1..sheets : \E j \in Parts : place[j].sheet = n
    BY <1>1, <2>1 DEF EconInv, Carrying
  <2>3. \A j \in Parts : place[j].sheet # 0 => place'[j].sheet = place[j].sheet
    BY <1>1, <1>5
  <2> QED
    BY <1>1, <1>3, <1>5, <2>1, <2>2, <2>3 DEF Carrying
<1>12. NoneSmaller' /\ RefusedForAPart'
  BY <1>1, <1>5 DEF EconInv, NoneSmaller, Takes, EffLen, EffWid, RefusedForAPart
<1> QED
  BY <1>1, <1>10, <1>11, <1>12 DEF EconInv

\* A new shelf covers its first part.
LEMMA OpenShelfCovers ==
    ASSUME NestTypeOK, NestInv, EconInv, NEW i \in Parts, OpenShelf(i)
    PROVE  EconInv'
<1>1. /\ stage = "nest" /\ place[i].sheet = 0 /\ Put(i, sheets, 0, curY)
      /\ open' = Append(open, ShelfOf(i, curY)) /\ curY' = curY + EffWid(i)
      /\ UNCHANGED <<parts, stage, sheet, sheets>>
  BY DEF OpenShelf, IsNext, Waiting
<1>2. /\ open \in Seq(Shelf) /\ sheets \in Nat /\ sheets > 0 /\ curY \in Nat
      /\ EffLen(i) \in Nat /\ EffWid(i) \in Nat /\ EffWid(i) > 0
  BY <1>1, EffType DEF NestTypeOK, Shelf, NestInv, Begun
<1>3. /\ Placed' = Placed \union {i} /\ Packed' = Packed + Area[i]
      /\ place'[i].sheet = sheets /\ \A j \in Parts : j # i => place'[j] = place[j]
      /\ Parts' = Parts
  BY <1>1, <1>2, PackOne
<1> DEFINE n == Len(open)
           s == ShelfOf(i, curY)
<1>4. s \in Shelf /\ s.used = EffLen(i) /\ s.height = EffWid(i)
  BY <1>2 DEF ShelfOf, Shelf
<1>5. /\ n \in Nat /\ Len(open') = n + 1 /\ open'[n + 1] = s
      /\ \A m \in 1..n : open'[m] = open[m]
  BY <1>1, <1>2, <1>4, AppendProperties
<1>6. n + 1 \notin 1..n /\ 1..(n + 1) = 1..n \union {n + 1} /\ IsFiniteSet(1..n)
  <2>1. n \in Nat
    BY <1>5
  <2> HIDE DEF n
  <2>2. n + 1 \notin 1..n /\ 1..(n + 1) = 1..n \union {n + 1}
    BY <2>1
  <2>3. IsFiniteSet(1..n)
    BY <2>1, FS_Interval
  <2> QED
    BY <2>2, <2>3
<1>7. /\ \A m \in 1..n : ShelfHeight'[m] = ShelfHeight[m] /\ ShelfArea'[m] = ShelfArea[m]
      /\ ShelfHeight'[n + 1] = EffWid(i) /\ ShelfArea'[n + 1] = EffLen(i) * EffWid(i)
  BY <1>4, <1>5, <1>6 DEF ShelfHeight, ShelfArea
<1>8. /\ \A m \in 1..n : ShelfHeight[m] \in Int /\ ShelfArea[m] \in Int
      /\ EffLen(i) * EffWid(i) \in Int /\ EffWid(i) \in Int
  BY <1>2, ProductOrder, PackingTypes
<1>9. Heights' = Heights + EffWid(i)
  <2> DEFINE f == ShelfHeight
             g == ShelfHeight'
             S == 1..n
             a == n + 1
  <2>1. IsFiniteSet(S) /\ a \notin S /\ \A m \in S \union {a} : g[m] \in Int
    BY <1>6, <1>7, <1>8
  <2>2. \A m \in S : f[m] = g[m] /\ f[m] \in Int
    BY <1>7, <1>8
  <2>3. Heights = SumFunctionOnSet(f, S) /\ Heights' = SumFunctionOnSet(g, S \union {a}) /\ g[a] = EffWid(i)
    BY <1>5, <1>6, <1>7 DEF Heights
  <2> HIDE DEF f, g, S, a
  <2>4. SumFunctionOnSet(g, S \union {a}) = g[a] + SumFunctionOnSet(g, S)
    BY <2>1, SumWith
  <2>5. SumFunctionOnSet(f, S) = SumFunctionOnSet(g, S) /\ SumFunctionOnSet(f, S) \in Int
    BY <2>1, <2>2, SumSame, SumType
  <2> QED
    BY <1>2, <2>3, <2>4, <2>5
<1>10. OnShelves' = OnShelves + EffLen(i) * EffWid(i)
  <2> DEFINE f == ShelfArea
             g == ShelfArea'
             S == 1..n
             a == n + 1
             d == EffLen(i) * EffWid(i)
  <2>1. IsFiniteSet(S) /\ a \notin S /\ \A m \in S \union {a} : g[m] \in Int
    BY <1>6, <1>7, <1>8
  <2>2. \A m \in S : f[m] = g[m] /\ f[m] \in Int
    BY <1>7, <1>8
  <2>3. OnShelves = SumFunctionOnSet(f, S) /\ OnShelves' = SumFunctionOnSet(g, S \union {a}) /\ g[a] = d
        /\ d \in Int
    BY <1>5, <1>6, <1>7, <1>8 DEF OnShelves
  <2> HIDE DEF f, g, S, a, d
  <2>4. SumFunctionOnSet(g, S \union {a}) = g[a] + SumFunctionOnSet(g, S)
    BY <2>1, SumWith
  <2>5. SumFunctionOnSet(f, S) = SumFunctionOnSet(g, S) /\ SumFunctionOnSet(f, S) \in Int
    BY <2>1, <2>2, SumSame, SumType
  <2>6. OnShelves' = OnShelves + d
    BY <2>3, <2>4, <2>5
  <2> QED
    BY <2>6 DEF d
<1>11. Covered'
  <2> DEFINE B == (sheets - 1) * (sheet.len * sheet.wid)
             D == EffLen(i) * EffWid(i)
  <2>1. Packed <= B + OnShelves /\ Heights = curY
    BY <1>1 DEF EconInv, Covered
  <2>2. B \in Int
    BY <1>2 DEF NestTypeOK
  <2>3. Packed \in Int /\ OnShelves \in Int /\ Area[i] \in Nat /\ D \in Int /\ Area[i] <= D
    BY <1>8, PackingTypes
  <2>4. Packed' = Packed + Area[i] /\ OnShelves' = OnShelves + D
    BY <1>3, <1>10
  <2>5. B' = B
    BY <1>1
  <2> HIDE DEF B, D
  <2>6. Packed' <= B + OnShelves'
    BY <2>1, <2>2, <2>3, <2>4
  <2> QED
    BY <1>1, <1>9, <2>1, <2>5, <2>6 DEF Covered, B
<1>12. Carrying'
  <2>1. curY' # 0
    BY <1>1, <1>2
  <2>2. \A j \in Parts : place[j].sheet # 0 => place'[j].sheet = place[j].sheet
    BY <1>1, <1>3
  <2>3. CASE curY = 0
    <3>1. sheets = 1
      BY <1>1, <2>3 DEF EconInv, Carrying
    <3> QED
      BY <1>1, <1>3, <2>1, <3>1 DEF Carrying
  <2>4. CASE curY # 0
    <3>1. \A k \in 1..sheets : \E j \in Parts : place[j].sheet = k
      BY <1>1, <2>4 DEF EconInv, Carrying
    <3>2. \A k \in 1..sheets : k # 0
      OBVIOUS
    <3>3. \A k \in 1..sheets : \E j \in Parts : place'[j].sheet = k
      BY <2>2, <3>1, <3>2
    <3> QED
      BY <1>1, <1>3, <2>1, <3>3 DEF Carrying
  <2> QED
    BY <2>3, <2>4
<1>13. NoneSmaller' /\ RefusedForAPart'
  BY <1>1, <1>3 DEF EconInv, NoneSmaller, Takes, EffLen, EffWid, RefusedForAPart
<1> QED
  BY <1>1, <1>11, <1>12, <1>13 DEF EconInv

\* A sheet that is left carries no more than its area.
LEMMA OpenSheetCovers ==
    ASSUME NestTypeOK, NestInv, EconInv, NEW i \in Parts, OpenSheet(i)
    PROVE  EconInv'
<1>1. /\ stage = "nest" /\ place[i].sheet = 0 /\ Put(i, sheets + 1, 0, 0) /\ sheets' = sheets + 1
      /\ open' = <<ShelfOf(i, 0)>> /\ curY' = EffWid(i) /\ curY + EffWid(i) > sheet.wid
      /\ UNCHANGED <<parts, stage, sheet>>
  BY DEF OpenSheet, IsNext, Waiting
<1>2. /\ sheets \in Nat /\ sheets > 0 /\ curY \in Nat /\ sheet.len \in Nat /\ sheet.wid \in Nat
      /\ EffLen(i) \in Nat /\ EffWid(i) \in Nat /\ EffWid(i) > 0 /\ EffWid(i) <= sheet.wid
      /\ curY <= sheet.wid
  BY <1>1, EffType DEF NestTypeOK, NestInv, Begun, Chosen, Takes
<1>3. /\ Placed' = Placed \union {i} /\ Packed' = Packed + Area[i]
      /\ place'[i].sheet = sheets + 1 /\ \A j \in Parts : j # i => place'[j] = place[j]
      /\ Parts' = Parts
  <2>1. sheets + 1 \in Nat /\ sheets + 1 > 0 /\ 0 \in Nat
    BY <1>2
  <2> QED
    BY <1>1, <2>1, PackOne
<1>4. Len(open') = 1 /\ open'[1].used = EffLen(i) /\ open'[1].height = EffWid(i)
  BY <1>1 DEF ShelfOf
<1>5. 1..1 = {} \union {1} /\ IsFiniteSet({}) /\ 1 \notin {}
  BY FS_EmptySet
<1>6. ShelfHeight'[1] = EffWid(i) /\ ShelfArea'[1] = EffLen(i) * EffWid(i)
  BY <1>4 DEF ShelfHeight, ShelfArea
<1>7. EffLen(i) * EffWid(i) \in Int /\ EffWid(i) \in Int
  BY <1>2, ProductOrder
<1>8. Heights' = EffWid(i)
  <2> DEFINE g == ShelfHeight'
             S == {}
  <2>1. IsFiniteSet(S) /\ 1 \notin S /\ \A m \in S \union {1} : g[m] \in Int
    BY <1>5, <1>6, <1>7
  <2>2. Heights' = SumFunctionOnSet(g, S \union {1}) /\ g[1] = EffWid(i) /\ S = {}
    BY <1>4, <1>5, <1>6 DEF Heights
  <2> HIDE DEF g, S
  <2>3. SumFunctionOnSet(g, S \union {1}) = g[1] + SumFunctionOnSet(g, S)
    BY <2>1, SumWith
  <2>4. SumFunctionOnSet(g, {}) = 0
    BY SumEmpty
  <2> QED
    BY <1>2, <2>2, <2>3, <2>4
<1>9. OnShelves' = EffLen(i) * EffWid(i)
  <2> DEFINE g == ShelfArea'
             S == {}
             d == EffLen(i) * EffWid(i)
  <2>1. IsFiniteSet(S) /\ 1 \notin S /\ \A m \in S \union {1} : g[m] \in Int
    BY <1>5, <1>6, <1>7
  <2>2. OnShelves' = SumFunctionOnSet(g, S \union {1}) /\ g[1] = d /\ S = {} /\ d \in Int
    BY <1>4, <1>5, <1>6, <1>7 DEF OnShelves
  <2> HIDE DEF g, S, d
  <2>3. SumFunctionOnSet(g, S \union {1}) = g[1] + SumFunctionOnSet(g, S)
    BY <2>1, SumWith
  <2>4. SumFunctionOnSet(g, {}) = 0
    BY SumEmpty
  <2>5. OnShelves' = d
    BY <2>2, <2>3, <2>4
  <2> QED
    BY <2>5 DEF d
<1>10. Packed <= sheets * (sheet.len * sheet.wid)
  <2> DEFINE A == sheet.len * sheet.wid
             L == sheet.len
             P == Packed
             Q == OnShelves
  <2>1. P \in Int /\ Q \in Int /\ A \in Nat
    BY <1>2, PackingTypes, ProductOrder
  <2>2. P <= (sheets - 1) * A + Q /\ Q <= L * curY
    BY <1>1, ShelvesFit DEF EconInv, Covered, NestInv
  <2>3. L * curY <= A /\ L * curY \in Nat
    BY <1>2, ProductOrder
  <2>4. (sheets - 1) * A + A = sheets * A /\ (sheets - 1) * A \in Int
    <3> HIDE DEF A
    <3> QED
      BY <1>2, <2>1, Z3
  <2> HIDE DEF A, L, P, Q
  <2>5. P <= sheets * A
    BY <2>1, <2>2, <2>3, <2>4
  <2> QED
    BY <2>5 DEF A, P
<1>11. Covered'
  <2> DEFINE B == sheets * (sheet.len * sheet.wid)
             D == EffLen(i) * EffWid(i)
  <2>1. B \in Int /\ D \in Int /\ Packed \in Int /\ Area[i] \in Nat /\ Area[i] <= D
    BY <1>2, <1>7, PackingTypes, SMTT(30)
  <2>2. Packed <= B /\ Packed' = Packed + Area[i] /\ OnShelves' = D
    BY <1>3, <1>9, <1>10
  <2>3. (sheets' - 1) * (sheet'.len * sheet'.wid) = B
    BY <1>1, <1>2
  <2> HIDE DEF B, D
  <2>4. Packed' <= B + OnShelves'
    BY <2>1, <2>2
  <2> QED
    BY <1>1, <1>8, <2>3, <2>4 DEF Covered
<1>12. Carrying'
  <2>1. curY # 0 /\ curY' # 0
    BY <1>1, <1>2
  <2>2. \A j \in Parts : place[j].sheet # 0 => place'[j].sheet = place[j].sheet
    BY <1>1, <1>3
  <2>3. \A k \in 1..sheets : \E j \in Parts : place[j].sheet = k
    BY <1>1, <2>1 DEF EconInv, Carrying
  <2>4. \A k \in 1..sheets' : k \in 1..sheets \/ k = sheets + 1
    BY <1>1, <1>2
  <2>5. \A k \in 1..sheets : k # 0
    OBVIOUS
  <2> QED
    BY <1>1, <1>3, <2>1, <2>2, <2>3, <2>4, <2>5 DEF Carrying
<1>13. NoneSmaller' /\ RefusedForAPart'
  BY <1>1, <1>3 DEF EconInv, NoneSmaller, Takes, EffLen, EffWid, RefusedForAPart
<1> QED
  BY <1>1, <1>11, <1>12, <1>13 DEF EconInv

\* The sheets of the catalogue have a length and a width.
LEMMA SheetType ==
    ASSUME NEW k \in DOMAIN Catalogue
    PROVE  Catalogue[k].len \in Nat /\ Catalogue[k].wid \in Nat
<1>1. Catalogue[k] \in StockSheet
  BY CatalogueAssumption
<1> QED
  BY <1>1 DEF StockSheet

\* A sheet that is picked is the largest.
LEMMA PickCovers ==
    ASSUME NestTypeOK, NestInv, EconInv, Pick
    PROVE  EconInv'
<1>1. stage = "pick" /\ UNCHANGED <<parts, place, open, curY>>
  BY DEF Pick
<1>2. open = <<>> /\ curY = 0 /\ Placed = {}
  BY <1>1 DEF NestInv, Chosen
<1>3. CASE /\ \A k \in DOMAIN Catalogue : ~Takes(Catalogue[k])
           /\ stage' = "refused" /\ UNCHANGED <<sheet, sheets>>
  <2>1. CASE DOMAIN Catalogue = {}
    <3>1. \E i \in Parts : TRUE
      BY PackingTypes
    <3>2. \E i \in Parts' : \A k \in DOMAIN Catalogue :
             (EffLen(i) > Catalogue[k].len \/ EffWid(i) > Catalogue[k].wid)'
      BY <1>1, <2>1, <3>1 DEF Parts
    <3> QED
      BY <1>3, <3>2 DEF EconInv, Carrying, Covered, NoneSmaller, RefusedForAPart
  <2>2. CASE DOMAIN Catalogue # {}
    <3>1. PICK k \in DOMAIN Catalogue : \A j \in DOMAIN Catalogue :
             Catalogue[j].len <= Catalogue[k].len /\ Catalogue[j].wid <= Catalogue[k].wid
      BY <2>2, LargestSheet
    <3>2. PICK i \in Parts : ~(EffLen(i) <= Catalogue[k].len /\ EffWid(i) <= Catalogue[k].wid)
      BY <1>3 DEF Takes
    <3>3. \A j \in DOMAIN Catalogue : Catalogue[j].len \in Nat /\ Catalogue[j].wid \in Nat
      BY SheetType
    <3>4. EffLen(i) \in Nat /\ EffWid(i) \in Nat
      BY EffType DEF NestTypeOK
    <3>5. \A j \in DOMAIN Catalogue : EffLen(i) > Catalogue[j].len \/ EffWid(i) > Catalogue[j].wid
      BY <3>1, <3>2, <3>3, <3>4
    <3>6. EffLen(i)' = EffLen(i) /\ EffWid(i)' = EffWid(i) /\ Parts' = Parts
      BY <1>1 DEF EffLen, EffWid, Parts
    <3>7. RefusedForAPart'
      BY <3>5, <3>6 DEF RefusedForAPart
    <3> QED
      BY <1>3, <3>7 DEF EconInv, Carrying, Covered, NoneSmaller
  <2> QED
    BY <2>1, <2>2
<1>4. ASSUME NEW k \in DOMAIN Catalogue, Smallest(k), sheet' = Catalogue[k], stage' = "nest", sheets' = 1
      PROVE  EconInv'
  <2>1. Catalogue[k].len \in Nat /\ Catalogue[k].wid \in Nat
    BY SheetType
  <2>2. Placed = {} /\ Placed' = {} /\ Parts' = Parts
    BY <1>1, <1>2 DEF Placed, Parts
  <2>3. Carrying'
    BY <1>1, <1>2, <1>4, <2>2 DEF Carrying
  <2>4. Packed' = 0 /\ OnShelves' = 0 /\ Heights' = 0
    <3>1. Len(open') = 0 /\ 1..Len(open') = {}
      BY <1>1, <1>2
    <3>2. Packed' = SumFunctionOnSet(Area', {})
      BY <2>2 DEF Packed
    <3>3. OnShelves' = SumFunctionOnSet(ShelfArea', {}) /\ Heights' = SumFunctionOnSet(ShelfHeight', {})
      BY <3>1 DEF OnShelves, Heights
    <3> QED
      BY <3>2, <3>3, SumEmpty
  <2>5. Covered'
    <3> DEFINE A == Catalogue[k].len * Catalogue[k].wid
    <3>1. A \in Nat
      BY <2>1, ProductOrder
    <3>2. (sheets' - 1) * A + OnShelves' = 0
      <4> HIDE DEF A
      <4> QED
        BY <1>4, <2>4, <3>1
    <3> QED
      BY <1>1, <1>2, <1>4, <2>4, <3>2 DEF Covered
  <2>6. NoneSmaller'
    <3>1. \A j \in DOMAIN Catalogue : Takes(Catalogue[j])' = Takes(Catalogue[j])
      BY <1>1 DEF Takes, EffLen, EffWid, Parts
    <3> DEFINE area(j) == Catalogue[j].len * Catalogue[j].wid
    <3>2. \A j \in DOMAIN Catalogue : Takes(Catalogue[j]) => area(k) < area(j) \/ area(k) = area(j)
      BY <1>4 DEF Smallest
    <3>3. \A j \in DOMAIN Catalogue : area(j) \in Nat
      <4> TAKE j \in DOMAIN Catalogue
      <4>1. Catalogue[j].len \in Nat /\ Catalogue[j].wid \in Nat
        BY SheetType
      <4> QED
        BY <4>1, ProductOrder
    <3>4. sheet'.len * sheet'.wid = area(k)
      BY <1>4
    <3> HIDE DEF area
    <3>5. \A j \in DOMAIN Catalogue : Takes(Catalogue[j])' => sheet'.len * sheet'.wid <= area(j)
      BY <3>1, <3>2, <3>3, <3>4
    <3> QED
      BY <3>5 DEF NoneSmaller, area
  <2> QED
    BY <1>4, <2>3, <2>5, <2>6 DEF EconInv, RefusedForAPart
<1> QED
  BY <1>3, <1>4 DEF Pick

\* The end of the plan changes nothing of it.
LEMMA FinishCovers ==
    ASSUME NestTypeOK, NestInv, EconInv, Finish
    PROVE  EconInv'
<1>1. /\ stage = "nest" /\ stage' = "done" /\ Waiting = {}
      /\ UNCHANGED <<parts, sheet, place, sheets, open, curY>>
  BY DEF Finish
<1>2. Carrying /\ Covered /\ NoneSmaller
  BY DEF EconInv
<1>3. Carrying'
  BY <1>1, <1>2 DEF Carrying, Placed, Parts
<1>4. Covered'
  BY <1>1, <1>2 DEF Covered, Packed, Placed, Parts, Area, OnShelves, Heights, ShelfArea, ShelfHeight
<1>5. NoneSmaller'
  BY <1>1, <1>2 DEF NoneSmaller, Takes, EffLen, EffWid, Parts
<1> QED
  BY <1>1, <1>3, <1>4, <1>5 DEF EconInv, RefusedForAPart, Waiting, Parts

\* An empty plan is economical.
LEMMA EconInit ==
    ASSUME NestInit
    PROVE  EconInv
BY DEF NestInit, EconInv, Carrying, Covered, NoneSmaller, RefusedForAPart

\* Every step of the nesting keeps it so.
LEMMA EconStep ==
    ASSUME NestTypeOK, NestInv, EconInv, [NestNext]_nestVars
    PROVE  EconInv'
<1>1. CASE UNCHANGED nestVars
  BY <1>1 DEF nestVars, EconInv, Carrying, Covered, NoneSmaller, RefusedForAPart, Packed, Placed, Parts,
              Area, OnShelves, Heights, ShelfArea, ShelfHeight, Takes, EffLen, EffWid, Waiting
<1>2. CASE \E i \in Parts : PlaceOnShelf(i) \/ OpenShelf(i) \/ OpenSheet(i)
  BY <1>2, PlaceCovers, OpenShelfCovers, OpenSheetCovers
<1> QED
  BY <1>1, <1>2, PickCovers, FinishCovers DEF NestNext

\* What the invariant says of a plan.
LEMMA EconMeans ==
    ASSUME NestTypeOK, NestInv, EconInv
    PROVE  PlanIsEconomical
<1>1. NoEmptySheet
  <2> SUFFICES ASSUME stage \in {"nest", "done"}, Waiting = {}
               PROVE  \A n \in 1..sheets : \E i \in Parts : place[i].sheet = n
    BY DEF NoEmptySheet
  <2>1. PICK i \in Parts : TRUE
    BY PackingTypes
  <2>2. place[i].sheet # 0
    BY <2>1 DEF Waiting
  <2>3. curY # 0
    BY <2>1, <2>2 DEF EconInv, Carrying, Placed
  <2> QED
    BY <2>3 DEF EconInv, Carrying
<1>2. AreasAreConsistent
  <2> SUFFICES ASSUME stage = "done"
               PROVE  /\ SumFunctionOnSet(Area, Parts) <= sheets * sheet.len * sheet.wid
                      /\ \A k \in DOMAIN Catalogue :
                           Takes(Catalogue[k]) => sheet.len * sheet.wid <= Catalogue[k].len * Catalogue[k].wid
    BY DEF AreasAreConsistent, Area
  <2>1. Waiting = {} /\ NoneSmaller
    BY DEF EconInv
  <2>2. Placed = Parts
    BY <2>1 DEF Waiting, Placed
  <2>3. sheets \in Nat /\ curY \in Nat /\ sheet.len \in Nat /\ sheet.wid \in Nat /\ curY <= sheet.wid /\ sheets > 0
    BY DEF NestTypeOK, NestInv, Begun
  <2> DEFINE L == sheet.len
             W == sheet.wid
             n == sheets
             P == Packed
             Q == OnShelves
  <2>4. P <= (n - 1) * (L * W) + Q /\ Q <= L * curY
    BY ShelvesFit DEF EconInv, Covered, NestInv
  <2>5. P \in Int /\ Q \in Int /\ n \in Nat /\ L \in Nat /\ W \in Nat /\ L * W \in Nat /\ L * curY <= L * W /\ L * curY \in Nat
    BY <2>3, PackingTypes, ProductOrder
  <2>6. (n - 1) * (L * W) + L * W = n * L * W /\ (n - 1) * (L * W) \in Int
    <3> HIDE DEF n, L, W
    <3> QED
      BY <2>5, Z3
  <2>7. P = SumFunctionOnSet(Area, Parts)
    BY <2>2 DEF Packed
  <2> HIDE DEF n, L, W, P, Q
  <2>8. P <= n * L * W
    BY <2>3, <2>4, <2>5, <2>6
  <2> QED
    BY <2>1, <2>7, <2>8 DEF NoneSmaller, n, L, W
<1>3. RefusedForAPart
  BY DEF EconInv
<1> QED
  BY <1>1, <1>2, <1>3 DEF PlanIsEconomical

\* A group is refused only for a part that fits no stock sheet of the material, every
\* sheet begun carries a part, the parts cover no more than the sheets, and no smaller
\* sheet would have taken the group (nest.go, pickSheet and nestGroup).
THEOREM PlanEconomical == NestSpec => []PlanIsEconomical
<1>1. NestInit => EconInv
  BY EconInit
<1>2. NestTypeOK /\ NestInv /\ EconInv /\ [NestNext]_nestVars => EconInv'
  BY EconStep
<1>3. NestTypeOK /\ NestInv /\ EconInv => PlanIsEconomical
  BY EconMeans
<1> QED
  BY <1>1, <1>2, <1>3, NestInvariant, PTL DEF NestSpec

-----------------------------------------------------------------------------
(* The dependency graph.  As long as ids are not misused the registry holds  *)
(* one edge for every pair of nodes it knows, and the adjacency exactly those *)
(* pairs (GraphInv).  Then a node reaches what a closed set with it must      *)
(* have (ReachedIs), and the sort takes a node when all before it are taken   *)
(* (KahnInv): what it leaves is on or behind a cycle (LeftMeansCycle).        *)

EdgeSet == (Ids \union (Nodes \X Nodes)) \X Nodes \X Nodes

\* Every id has one pair of nodes of N and every pair one id, and a pair that is an id
\* is that of its own edge.
Regular(N, E) ==
    /\ \A e, f \in E : (e[1] = f[1]) <=> (e[2] = f[2] /\ e[3] = f[3])
    /\ \A e \in E : e[2] \in N /\ e[3] \in N
    /\ \A e \in E : e[1] \in Nodes \X Nodes => e[1] = <<e[2], e[3]>>

GraphTypes ==
    /\ nodes \subseteq Nodes /\ dirty \subseteq nodes
    /\ edges \subseteq EdgeSet /\ out \subseteq Nodes \X Nodes /\ in \subseteq Nodes \X Nodes
    /\ misused \in BOOLEAN
    /\ saved.nodes \subseteq Nodes /\ saved.dirty \subseteq saved.nodes /\ saved.edges \subseteq EdgeSet

GraphInv ==
    /\ GraphTypes
    /\ ~misused => Regular(nodes, edges) /\ Faithful /\ Regular(saved.nodes, saved.edges)

\* An edge is an id and two nodes.
LEMMA EdgeIs ==
    ASSUME NEW e \in EdgeSet
    PROVE  /\ e = <<e[1], e[2], e[3]>> /\ e[2] \in Nodes /\ e[3] \in Nodes
           /\ e[1] \in Ids \union (Nodes \X Nodes)
BY DEF EdgeSet

\* A pair of nodes is two nodes.
LEMMA PairIs ==
    ASSUME NEW p \in Nodes \X Nodes
    PROVE  p = <<p[1], p[2]>> /\ p[1] \in Nodes /\ p[2] \in Nodes
OBVIOUS

\* Two edges of the same ends are one.
LEMMA OneEdge ==
    ASSUME NEW N, NEW E \in SUBSET EdgeSet, Regular(N, E), NEW e \in E, NEW f \in E,
           e[2] = f[2], e[3] = f[3]
    PROVE  e = f
<1>1. e[1] = f[1]
  BY DEF Regular
<1>2. e = <<e[1], e[2], e[3]>> /\ f = <<f[1], f[2], f[3]>>
  BY EdgeIs
<1> QED
  BY <1>1, <1>2

\* The edges between two nodes: at most one, and it is the one removeEdgeFrom removes.
LEMMA RemovableIs ==
    ASSUME edges \subseteq EdgeSet, Regular(nodes, edges), NEW a \in Nodes, NEW b \in Nodes
    PROVE  /\ Removable(a, b) = {e \in edges : e[2] = a /\ e[3] = b}
           /\ \A e, f \in Removable(a, b) : e = f
<1>1. \A e \in edges : e[1] = <<a, b>> => e[2] = a /\ e[3] = b
  <2> SUFFICES ASSUME NEW e \in edges, e[1] = <<a, b>> PROVE e[2] = a /\ e[3] = b
    OBVIOUS
  <2>1. e[1] \in Nodes \X Nodes
    OBVIOUS
  <2>2. e[1] = <<e[2], e[3]>>
    BY <2>1 DEF Regular
  <2> QED
    BY <2>2
<1>2. \A e, f \in edges : e[2] = a /\ e[3] = b /\ f[2] = a /\ f[3] = b => e = f
  BY OneEdge
<1>3. Removable(a, b) = {e \in edges : e[2] = a /\ e[3] = b}
  <2>1. CASE {e \in edges : e[1] = <<a, b>>} = {}
    BY <2>1 DEF Removable
  <2>2. CASE {e \in edges : e[1] = <<a, b>>} # {}
    <3>1. PICK f \in edges : f[1] = <<a, b>>
      BY <2>2
    <3>2. \A e \in edges : e[2] = a /\ e[3] = b => e = f
      BY <1>1, <1>2, <3>1
    <3>3. Removable(a, b) = {e \in edges : e[1] = <<a, b>>}
      BY <2>2 DEF Removable
    <3> QED
      BY <1>1, <3>1, <3>2, <3>3
  <2> QED
    BY <2>1, <2>2
<1> QED
  BY <1>2, <1>3

\* The pairs that the edges connect.
LEMMA PairsIs ==
    ASSUME NEW E, NEW a, NEW b
    PROVE  <<a, b>> \in EndsOf(E) <=> \E e \in E : e[2] = a /\ e[3] = b
BY DEF EndsOf

\* Taking the edges away that end at a node of a set, or one edge, or none.
LEMMA RegularLess ==
    ASSUME NEW N, NEW E, NEW M, NEW F, Regular(N, E), F \subseteq E,
           \A e \in F : e[2] \in M /\ e[3] \in M
    PROVE  Regular(M, F)
BY DEF Regular

\* Sets of pairs of nodes with the same members are the same.
LEMMA SamePairs ==
    ASSUME NEW S \in SUBSET (Nodes \X Nodes), NEW T \in SUBSET (Nodes \X Nodes),
           \A a, b \in Nodes : <<a, b>> \in S <=> <<a, b>> \in T
    PROVE  S = T
<1>1. \A p \in Nodes \X Nodes : p \in S <=> p \in T
  BY PairIs
<1> QED
  BY <1>1

\* The pairs of edges between nodes are pairs of nodes.
LEMMA PairsType ==
    ASSUME NEW E \in SUBSET EdgeSet
    PROVE  EndsOf(E) \subseteq Nodes \X Nodes
<1>1. \A e \in E : e[2] \in Nodes /\ e[3] \in Nodes
  BY EdgeIs
<1> QED
  BY <1>1 DEF EndsOf

\* Adjacency and registry agree when they agree on every pair.
LEMMA FaithfulWhen ==
    ASSUME NEW N, NEW E \in SUBSET EdgeSet, NEW O \in SUBSET (Nodes \X Nodes), NEW I, I = O,
           Regular(N, E), \A a, b \in Nodes : <<a, b>> \in O <=> \E e \in E : e[2] = a /\ e[3] = b
    PROVE  O = EndsOf(E) /\ I = O /\ \A p \in O : {p[1], p[2]} \subseteq N
<1>1. EndsOf(E) \subseteq Nodes \X Nodes
  BY PairsType
<1>2. \A a, b \in Nodes : <<a, b>> \in O <=> <<a, b>> \in EndsOf(E)
  <2> TAKE a, b \in Nodes
  <2>1. <<a, b>> \in EndsOf(E) <=> \E e \in E : e[2] = a /\ e[3] = b
    BY DEF EndsOf
  <2> QED
    BY <2>1
<1>3. O = EndsOf(E)
  BY <1>1, <1>2, SamePairs
<1>4. \A p \in O : {p[1], p[2]} \subseteq N
  <2> SUFFICES ASSUME NEW p \in O PROVE {p[1], p[2]} \subseteq N
    OBVIOUS
  <2>1. PICK e \in E : p = <<e[2], e[3]>>
    BY <1>3 DEF EndsOf
  <2> QED
    BY <2>1 DEF Regular
<1> QED
  BY <1>3, <1>4

\* What a faithful adjacency says, pair by pair.
LEMMA FaithfulSays ==
    ASSUME Faithful
    PROVE  /\ in = out
           /\ \A a, b : <<a, b>> \in out <=> \E e \in edges : e[2] = a /\ e[3] = b
           /\ \A a, b : <<a, b>> \in out => a \in nodes /\ b \in nodes
<1>1. \A a, b : <<a, b>> \in out => a \in nodes /\ b \in nodes
  <2> SUFFICES ASSUME NEW a, NEW b, <<a, b>> \in out PROVE a \in nodes /\ b \in nodes
    OBVIOUS
  <2>1. {<<a, b>>[1], <<a, b>>[2]} \subseteq nodes
    BY DEF Faithful
  <2> QED
    BY <2>1
<1> QED
  BY <1>1, PairsIs DEF Faithful

\* An edge that is added enters registry and adjacency, or neither.
LEMMA AddEdgeKeeps ==
    ASSUME GraphInv, NEW n \in Nodes, NEW m \in Nodes, NEW id \in Ids \union {<<n, m>>},
           AddEdge(id, n, m), UNCHANGED saved,
           misused' = (misused \/ id \in (Nodes \X Nodes) \ {<<n, m>>}
                               \/ \E e \in edges : (e[1] = id) # (e[2] = n /\ e[3] = m))
    PROVE  GraphInv'
<1> DEFINE new == <<id, n, m>>
<1>1. /\ {n, m} \subseteq nodes /\ UNCHANGED <<nodes, dirty, saved>>
      /\ edges' = {e \in edges : e[1] # id} \union {new}
      /\ out' = out \union {<<n, m>>} /\ in' = in \union {<<n, m>>}
  BY DEF AddEdge
<1>2. new \in EdgeSet /\ new[1] = id /\ new[2] = n /\ new[3] = m
  BY DEF EdgeSet
<1> HIDE DEF new
<1>3. GraphTypes'
  BY <1>1, <1>2 DEF GraphInv, GraphTypes
<1>4. ASSUME ~misused' PROVE Regular(nodes, edges)' /\ Faithful' /\ Regular(saved.nodes, saved.edges)'
  <2>1. /\ ~misused /\ (id \in Nodes \X Nodes => id = <<n, m>>)
        /\ \A e \in edges : (e[1] = id) <=> (e[2] = n /\ e[3] = m)
    BY <1>4 DEF GraphInv, GraphTypes
  <2>2. Regular(nodes, edges) /\ Faithful /\ Regular(saved.nodes, saved.edges)
    BY <2>1 DEF GraphInv
  <2>3. \A e \in edges' : e = new \/ (e \in edges /\ e[1] # id)
    BY <1>1
  <2>4. Regular(nodes', edges')
    <3>1. \A e, f \in edges' : (e[1] = f[1]) <=> (e[2] = f[2] /\ e[3] = f[3])
      BY <1>2, <2>1, <2>2, <2>3 DEF Regular
    <3>2. \A e \in edges' : e[2] \in nodes' /\ e[3] \in nodes'
      BY <1>1, <1>2, <2>2, <2>3 DEF Regular
    <3>3. \A e \in edges' : e[1] \in Nodes \X Nodes => e[1] = <<e[2], e[3]>>
      BY <1>2, <2>1, <2>2, <2>3 DEF Regular
    <3> QED
      BY <3>1, <3>2, <3>3 DEF Regular
  <2>5. \A a, b \in Nodes : <<a, b>> \in out' <=> \E e \in edges' : e[2] = a /\ e[3] = b
    <3> TAKE a, b \in Nodes
    <3>1. <<a, b>> \in out' <=> <<a, b>> \in out \/ (a = n /\ b = m)
      BY <1>1
    <3>2. <<a, b>> \in out <=> \E e \in edges : e[2] = a /\ e[3] = b
      BY <2>2, FaithfulSays
    <3>3. CASE a = n /\ b = m
      BY <1>1, <1>2, <3>1, <3>3
    <3>4. CASE ~(a = n /\ b = m)
      <4>1. \A e \in edges : e[2] = a /\ e[3] = b => e \in edges'
        BY <1>1, <2>1, <3>4
      <4>2. \A e \in edges' : e[2] = a /\ e[3] = b => e \in edges
        BY <1>2, <2>3, <3>4
      <4> QED
        BY <3>1, <3>2, <3>4, <4>1, <4>2
    <3> QED
      BY <3>3, <3>4
  <2>6. edges' \subseteq EdgeSet /\ out' \subseteq Nodes \X Nodes /\ in' = out'
    <3>1. in = out
      BY <2>2 DEF Faithful
    <3> QED
      BY <1>1, <1>3, <3>1 DEF GraphTypes
  <2>7. Faithful'
    BY <2>4, <2>5, <2>6, FaithfulWhen DEF Faithful
  <2> QED
    BY <1>1, <2>2, <2>4, <2>7
<1> QED
  BY <1>3, <1>4 DEF GraphInv

\* An edge that is removed leaves both, or neither.
LEMMA RemoveEdgeKeeps ==
    ASSUME GraphInv, NEW n \in Nodes, NEW m \in Nodes, RemoveEdge(n, m), UNCHANGED <<saved, misused>>
    PROVE  GraphInv'
<1>1. PICK f \in Removable(n, m) :
         /\ edges' = edges \ {f} /\ out' = out \ {<<n, m>>} /\ in' = in \ {<<n, m>>}
         /\ UNCHANGED <<nodes, dirty, saved, misused>>
  BY DEF RemoveEdge
<1>2. GraphTypes'
  BY <1>1 DEF GraphInv, GraphTypes
<1>3. ASSUME ~misused' PROVE Regular(nodes, edges)' /\ Faithful' /\ Regular(saved.nodes, saved.edges)'
  <2>1. Regular(nodes, edges) /\ Faithful /\ Regular(saved.nodes, saved.edges) /\ edges \subseteq EdgeSet
    BY <1>1, <1>3 DEF GraphInv, GraphTypes
  <2>2. /\ f \in edges /\ f[2] = n /\ f[3] = m
        /\ \A e \in edges : e[2] = n /\ e[3] = m => e = f
    BY <2>1, RemovableIs
  <2>3. Regular(nodes', edges')
    <3>1. \A e \in edges' : e \in edges /\ e[2] \in nodes' /\ e[3] \in nodes'
      BY <1>1, <2>1 DEF Regular
    <3> QED
      BY <2>1, <3>1, RegularLess
  <2>4. \A a, b \in Nodes : <<a, b>> \in out' <=> \E e \in edges' : e[2] = a /\ e[3] = b
    <3> TAKE a, b \in Nodes
    <3>1. <<a, b>> \in out' <=> <<a, b>> \in out /\ ~(a = n /\ b = m)
      BY <1>1
    <3>2. <<a, b>> \in out <=> \E e \in edges : e[2] = a /\ e[3] = b
      BY <2>1, FaithfulSays
    <3>3. \A e : e \in edges' <=> e \in edges /\ e # f
      BY <1>1
    <3> QED
      BY <2>2, <3>1, <3>2, <3>3
  <2>5. edges' \subseteq EdgeSet /\ out' \subseteq Nodes \X Nodes /\ in' = out'
    <3>1. in = out
      BY <2>1 DEF Faithful
    <3> QED
      BY <1>1, <1>2, <3>1 DEF GraphTypes
  <2>6. Faithful'
    BY <2>3, <2>4, <2>5, FaithfulWhen DEF Faithful
  <2> QED
    BY <1>1, <2>1, <2>3, <2>6
<1> QED
  BY <1>2, <1>3 DEF GraphInv

\* A node leaves with all its edges.
LEMMA RemoveNodeKeeps ==
    ASSUME GraphInv, NEW n \in Nodes, RemoveNode(n), UNCHANGED <<saved, misused>>
    PROVE  GraphInv'
<1> DEFINE pairs == {p \in in : p[2] = n} \union {p \in out : p[1] = n}
           done == {p \in pairs : Removable(p[1], p[2]) # {}}
<1>1. PICK gone \in SUBSET edges :
        /\ \A p \in pairs :
              Removable(p[1], p[2]) # {} => Cardinality(gone \intersect Removable(p[1], p[2])) = 1
        /\ \A e \in gone : \E p \in pairs : e \in Removable(p[1], p[2])
        /\ edges' = edges \ gone
        /\ out' = {p \in out \ done : p[1] # n} /\ in' = {p \in in \ done : p[2] # n}
  BY DEF RemoveNode
<1>2. nodes' = nodes \ {n} /\ dirty' = dirty \ {n} /\ UNCHANGED <<saved, misused>>
  BY DEF RemoveNode
<1>3. GraphTypes'
  BY <1>1, <1>2 DEF GraphInv, GraphTypes
<1>4. ASSUME ~misused' PROVE Regular(nodes, edges)' /\ Faithful' /\ Regular(saved.nodes, saved.edges)'
  <2>1. /\ Regular(nodes, edges) /\ Faithful /\ Regular(saved.nodes, saved.edges)
        /\ edges \subseteq EdgeSet /\ out \subseteq Nodes \X Nodes
    BY <1>2, <1>4 DEF GraphInv, GraphTypes
  <2>2. in = out
    BY <2>1 DEF Faithful
  <2>3. \A a, b \in Nodes : <<a, b>> \in pairs <=> <<a, b>> \in out /\ (a = n \/ b = n)
    BY <2>2
  <2>4. \A p \in pairs : p = <<p[1], p[2]>> /\ p[1] \in Nodes /\ p[2] \in Nodes /\ p \in out
    <3>1. \A p \in pairs : p \in out
      BY <2>2
    <3> HIDE DEF pairs
    <3> QED
      BY <2>1, <3>1, PairIs
  <2> HIDE DEF pairs
  <2>5. \A e \in gone : e[2] = n \/ e[3] = n
    <3> SUFFICES ASSUME NEW e \in gone PROVE e[2] = n \/ e[3] = n
      OBVIOUS
    <3>1. PICK p \in pairs : e \in Removable(p[1], p[2])
      BY <1>1
    <3>2. e[2] = p[1] /\ e[3] = p[2]
      BY <2>1, <2>4, <3>1, RemovableIs
    <3> QED
      BY <2>3, <2>4, <3>2
  <2>6. \A e \in edges : e[2] = n \/ e[3] = n => e \in gone
    <3> SUFFICES ASSUME NEW e \in edges, e[2] = n \/ e[3] = n PROVE e \in gone
      OBVIOUS
    <3> DEFINE p == <<e[2], e[3]>>
               R == Removable(e[2], e[3])
    <3>1. e[2] \in Nodes /\ e[3] \in Nodes
      BY <2>1, EdgeIs
    <3>2. p \in pairs
      BY <2>1, <2>3, <3>1, FaithfulSays
    <3>3. e \in R /\ \A f \in R : f = e
      BY <2>1, <3>1, RemovableIs
    <3>4. Removable(p[1], p[2]) = R
      OBVIOUS
    <3> HIDE DEF R, p
    <3>5. Cardinality(gone \intersect R) = 1
      BY <1>1, <3>2, <3>3, <3>4
    <3>6. gone \intersect R # {}
      BY <3>5, FS_EmptySet
    <3> QED
      BY <3>3, <3>6
  <2>7. \A e : e \in edges' <=> e \in edges /\ e[2] # n /\ e[3] # n
    BY <1>1, <2>5, <2>6
  <2>8. \A p \in pairs : p \in done
    <3> SUFFICES ASSUME NEW p \in pairs PROVE Removable(p[1], p[2]) # {}
      OBVIOUS
    <3>1. PICK e \in edges : e[2] = p[1] /\ e[3] = p[2]
      BY <2>1, <2>4, FaithfulSays
    <3> QED
      BY <2>1, <2>4, <3>1, RemovableIs
  <2>9. \A a, b \in Nodes : /\ <<a, b>> \in out' <=> <<a, b>> \in out /\ a # n /\ b # n
                            /\ <<a, b>> \in in' <=> <<a, b>> \in out /\ a # n /\ b # n
    <3> TAKE a, b \in Nodes
    <3>1. <<a, b>> \in done => <<a, b>> \in pairs
      OBVIOUS
    <3> HIDE DEF done
    <3>2. <<a, b>> \in done <=> <<a, b>> \in out /\ (a = n \/ b = n)
      BY <2>3, <2>8, <3>1
    <3> QED
      BY <1>1, <2>2, <3>2
  <2>10. Regular(nodes', edges')
    <3>1. \A e \in edges' : e \in edges /\ e[2] \in nodes' /\ e[3] \in nodes'
      BY <1>2, <2>1, <2>7 DEF Regular
    <3> QED
      BY <2>1, <3>1, RegularLess
  <2>11. \A a, b \in Nodes : <<a, b>> \in out' <=> \E e \in edges' : e[2] = a /\ e[3] = b
    <3> TAKE a, b \in Nodes
    <3>1. <<a, b>> \in out <=> \E e \in edges : e[2] = a /\ e[3] = b
      BY <2>1, FaithfulSays
    <3> QED
      BY <2>7, <2>9, <3>1
  <2>12. edges' \subseteq EdgeSet /\ out' \subseteq Nodes \X Nodes /\ in' = out'
    <3>1. edges' \subseteq EdgeSet /\ out' \subseteq Nodes \X Nodes /\ in' \subseteq Nodes \X Nodes
      BY <1>3 DEF GraphTypes
    <3> QED
      BY <2>9, <3>1, SamePairs
  <2>13. Faithful'
    BY <2>10, <2>11, <2>12, FaithfulWhen DEF Faithful
  <2> QED
    BY <1>2, <2>1, <2>10, <2>13
<1> QED
  BY <1>3, <1>4 DEF GraphInv

\* A snapshot is restored with its adjacency.
LEMMA RestoreKeeps ==
    ASSUME GraphInv, Restore
    PROVE  GraphInv'
<1>1. /\ nodes' = saved.nodes /\ dirty' = saved.dirty /\ edges' = saved.edges
      /\ out' = EndsOf(saved.edges) /\ in' = EndsOf(saved.edges) /\ UNCHANGED <<saved, misused>>
  BY DEF Restore
<1>2. EndsOf(saved.edges) \subseteq Nodes \X Nodes
  BY PairsType DEF GraphInv, GraphTypes
<1>3. GraphTypes'
  BY <1>1, <1>2 DEF GraphInv, GraphTypes
<1>4. ASSUME ~misused' PROVE Regular(nodes, edges)' /\ Faithful' /\ Regular(saved.nodes, saved.edges)'
  <2>1. Regular(saved.nodes, saved.edges)
    BY <1>1, <1>4 DEF GraphInv
  <2>2. Regular(nodes', edges')
    BY <1>1, <2>1
  <2>3. \A a, b \in Nodes : <<a, b>> \in out' <=> \E e \in edges' : e[2] = a /\ e[3] = b
    <3> TAKE a, b \in Nodes
    <3>1. <<a, b>> \in EndsOf(saved.edges) <=> \E e \in saved.edges : e[2] = a /\ e[3] = b
      BY DEF EndsOf
    <3> QED
      BY <1>1, <3>1
  <2>4. edges' \subseteq EdgeSet /\ out' \subseteq Nodes \X Nodes /\ in' = out'
    BY <1>1, <1>3 DEF GraphTypes
  <2>5. Faithful'
    BY <2>2, <2>3, <2>4, FaithfulWhen DEF Faithful
  <2> QED
    BY <1>1, <2>1, <2>2, <2>5
<1> QED
  BY <1>3, <1>4 DEF GraphInv

\* A node that is added has no edge.
LEMMA AddNodeKeeps ==
    ASSUME GraphInv, NEW n \in Nodes, AddNode(n), UNCHANGED <<saved, misused>>
    PROVE  GraphInv'
<1>1. /\ nodes' = nodes \union {n} /\ dirty' = dirty \union {n}
      /\ UNCHANGED <<edges, out, in, saved, misused>>
  BY DEF AddNode
<1>2. GraphTypes'
  BY <1>1 DEF GraphInv, GraphTypes
<1>3. Regular(nodes, edges) /\ Faithful => Regular(nodes, edges)' /\ Faithful'
  BY <1>1 DEF Regular, Faithful, EndsOf
<1> QED
  BY <1>1, <1>2, <1>3 DEF GraphInv, Regular

\* The empty graph satisfies the invariant.
LEMMA GraphInitHolds ==
    ASSUME GraphInit
    PROVE  GraphInv
BY DEF GraphInit, NoGraph, GraphInv, GraphTypes, Regular, Faithful, EndsOf

\* Every operation keeps it.
LEMMA GraphStep ==
    ASSUME GraphInv, [GraphNext]_graphVars
    PROVE  GraphInv'
<1>1. CASE UNCHANGED graphVars
  BY <1>1 DEF graphVars, graph, GraphInv, GraphTypes, Regular, Faithful, EndsOf
<1>2. CASE Snapshot
  <2>1. saved' = [nodes |-> nodes, dirty |-> dirty, edges |-> edges] /\ UNCHANGED <<graph, misused>>
    BY <1>2 DEF Snapshot
  <2>2. saved'.nodes = nodes /\ saved'.dirty = dirty /\ saved'.edges = edges
    BY <2>1
  <2> QED
    BY <2>1, <2>2 DEF graph, GraphInv, GraphTypes, Regular, Faithful, EndsOf
<1> QED
  BY <1>1, <1>2, AddNodeKeeps, RemoveNodeKeeps, RemoveEdgeKeeps, AddEdgeKeeps, RestoreKeeps DEF GraphNext

LEMMA GraphInvariant == GraphSpec => []GraphInv
<1>1. GraphInit => GraphInv
  BY GraphInitHolds
<1>2. GraphInv /\ [GraphNext]_graphVars => GraphInv'
  BY GraphStep
<1> QED
  BY <1>1, <1>2, PTL DEF GraphSpec

\* Values that come out of each other by the steps F, from a on.
StepsIn(F, n, S) == F \in [(1..n) \X S -> S]
Iterates(g, n, S, a, F) ==
    g \in [0..n -> S] /\ g[0] = a /\ \A k \in 1..n : g[k] = F[<<k, g[k - 1]>>]

\* A function defined by recursion on an interval of the naturals: there is one, and
\* its values stay in the set.
LEMMA Iteration ==
    ASSUME NEW n \in Nat, NEW S, NEW a, a \in S, NEW F, StepsIn(F, n, S)
    PROVE  \E g : Iterates(g, n, S, a, F)
<1> DEFINE Good == {m \in 0..n : \E g : Iterates(g, m, S, a, F)}
<1>0. F \in [(1..n) \X S -> S]
  BY DEF StepsIn
<1>1. 0 \in Good
  <2>1. Iterates([k \in 0..0 |-> a], 0, S, a, F)
    BY DEF Iterates
  <2> QED
    BY <2>1
<1>2. ASSUME NEW m \in 0..n, m \in Good, m < n PROVE m + 1 \in Good
  <2>1. PICK g : Iterates(g, m, S, a, F)
    BY <1>2
  <2>i. g \in [0..m -> S] /\ g[0] = a /\ \A k \in 1..m : g[k] = F[<<k, g[k - 1]>>]
    BY <2>1 DEF Iterates
  <2> DEFINE h == [k \in 0..(m + 1) |-> IF k = m + 1 THEN F[<<m + 1, g[m]>>] ELSE g[k]]
  <2>2. F[<<m + 1, g[m]>>] \in S
    BY <1>0, <1>2, <2>i
  <2>3. h \in [0..(m + 1) -> S]
    BY <2>i, <2>2
  <2>4. m \in Nat /\ h[m + 1] = F[<<m + 1, g[m]>>] /\ \A k \in 0..m : h[k] = g[k]
    OBVIOUS
  <2> HIDE DEF h
  <2>5. h[0] = a /\ \A k \in 1..m : h[k] = F[<<k, h[k - 1]>>]
    BY <2>i, <2>4
  <2>6. h[m + 1] = F[<<m + 1, h[(m + 1) - 1]>>]
    BY <2>4
  <2>7. \A k \in 1..(m + 1) : k \in 1..m \/ k = m + 1
    BY <2>4
  <2>8. Iterates(h, m + 1, S, a, F)
    BY <2>3, <2>5, <2>6, <2>7 DEF Iterates
  <2> QED
    BY <1>2, <2>8
<1>3. n \in Good
  <2> HIDE DEF Good
  <2> QED
    BY <1>1, <1>2, Induction
<1> QED
  BY <1>3

Wave(S) == S \union UNION {Successors(m) : m \in S}

\* One wave of the search goes one edge further.
LEMMA WaveIs ==
    ASSUME NEW S \in SUBSET Nodes
    PROVE  /\ Wave(S) \in SUBSET Nodes /\ S \subseteq Wave(S)
           /\ \A m \in S : Successors(m) \subseteq Wave(S)
           /\ \A T : S \subseteq T /\ (\A m \in T : Successors(m) \subseteq T) => Wave(S) \subseteq T
BY DEF Wave, Successors

\* The search in waves.
LEMMA Waves ==
    ASSUME GraphAssumption, NEW n \in Nodes
    PROVE  \E met \in [0..Cardinality(Nodes) -> SUBSET Nodes] :
              /\ met[0] = {n} /\ \A k \in 1..Cardinality(Nodes) : met[k] = Wave(met[k - 1])
              /\ Reached(n) = met[Cardinality(Nodes)]
<1> DEFINE N == Cardinality(Nodes)
           S == SUBSET Nodes
           Is(met) == met = [k \in 0..N |-> IF k = 0 THEN {n} ELSE Wave(met[k - 1])]
           F == [x \in (1..N) \X S |-> Wave(x[2])]
<1>1. N \in Nat
  BY FS_CardinalityType DEF GraphAssumption
<1>2. StepsIn(F, N, S)
  BY WaveIs DEF StepsIn
<1>3. \A k \in 1..N, s \in S : F[<<k, s>>] = Wave(s)
  OBVIOUS
<1>4. {n} \in S
  OBVIOUS
<1> HIDE DEF F, S
<1>5. PICK g \in [0..N -> S] : g[0] = {n} /\ \A k \in 1..N : g[k] = F[<<k, g[k - 1]>>]
  <2> DEFINE a == {n}
  <2>1. a \in S
    BY <1>4
  <2> HIDE DEF N, a
  <2>2. \E g : Iterates(g, N, S, a, F)
    BY <1>1, <1>2, <2>1, Iteration
  <2> QED
    BY <2>2 DEF Iterates, a
<1>6. \A k \in 1..N : g[k] = Wave(g[k - 1])
  <2>1. \A k \in 1..N : k - 1 \in 0..N
    BY <1>1
  <2> QED
    BY <1>3, <1>5, <2>1
<1>7. Is(g)
  <2>1. \A k \in 0..N : g[k] = IF k = 0 THEN {n} ELSE Wave(g[k - 1])
    <3>1. \A k \in 0..N : k = 0 \/ k \in 1..N
      BY <1>1
    <3> QED
      BY <1>5, <1>6, <3>1
  <2> HIDE DEF N
  <2>2. g = [k \in 0..N |-> g[k]]
    BY <1>5
  <2> QED
    BY <2>1, <2>2
<1> DEFINE h == CHOOSE met : Is(met)
<1>8. Is(h)
  <2> HIDE DEF Is
  <2> QED
    BY <1>7
<1>9. Reached(n) = h[N]
  BY DEF Reached, Wave
<1> HIDE DEF h
<1>10. h[0] = {n} /\ \A k \in 1..N : h[k] = Wave(h[k - 1])
  <2>1. 0 \in 0..N /\ \A k \in 1..N : k \in 0..N /\ k # 0
    BY <1>1
  <2> HIDE DEF N
  <2> QED
    BY <1>8, <2>1
<1>11. \A k \in 0..N : h[k] = g[k]
  <2> DEFINE Good == {k \in 0..N : h[k] = g[k]}
  <2>1. 0 \in Good
    <3>1. 0 \in 0..N
      BY <1>1
    <3> QED
      BY <1>5, <1>10, <3>1
  <2>2. ASSUME NEW k \in 0..N, k \in Good, k < N PROVE k + 1 \in Good
    <3>1. k + 1 \in 1..N /\ (k + 1) - 1 = k /\ k + 1 \in 0..N
      BY <1>1, <2>2
    <3>2. h[k + 1] = Wave(h[k]) /\ g[k + 1] = Wave(g[k]) /\ h[k] = g[k]
      BY <1>6, <1>10, <2>2, <3>1
    <3> QED
      BY <3>1, <3>2
  <2>3. \A k \in 0..N : k \in Good
    <3> HIDE DEF Good, N
    <3> QED
      BY <1>1, <2>1, <2>2, Induction
  <2> QED
    BY <2>3
<1>12. Reached(n) = g[N]
  BY <1>1, <1>9, <1>11
<1> QED
  BY <1>5, <1>6, <1>12 DEF S

\* What the search meets: the node, what follows from something met, and nothing that a
\* set with both properties does without.  It has no more waves than nodes, because
\* every wave but the last meets a node that is new.
LEMMA ReachedIs ==
    ASSUME GraphAssumption, NEW n \in Nodes
    PROVE  /\ Reached(n) \subseteq Nodes /\ n \in Reached(n)
           /\ \A m \in Reached(n) : Successors(m) \subseteq Reached(n)
           /\ \A T : n \in T /\ (\A m \in T : Successors(m) \subseteq T) => Reached(n) \subseteq T
<1> DEFINE N == Cardinality(Nodes)
           Closed(s) == \A m \in s : Successors(m) \subseteq s
<1>1. N \in Nat /\ IsFiniteSet(Nodes)
  BY FS_CardinalityType DEF GraphAssumption
<1>2. PICK met \in [0..N -> SUBSET Nodes] :
          met[0] = {n} /\ (\A k \in 1..N : met[k] = Wave(met[k - 1])) /\ Reached(n) = met[N]
  BY Waves
<1>3. ASSUME NEW k \in 0..N, k < N
      PROVE  /\ k + 1 \in 0..N /\ met[k + 1] = Wave(met[k]) /\ met[k] \subseteq met[k + 1]
             /\ \A m \in met[k] : Successors(m) \subseteq met[k + 1]
             /\ \A T : met[k] \subseteq T /\ Closed(T) => met[k + 1] \subseteq T
             /\ met[k] \in SUBSET Nodes /\ met[k + 1] \in SUBSET Nodes
  <2>1. k + 1 \in 1..N /\ (k + 1) - 1 = k /\ k + 1 \in 0..N
    BY <1>1, <1>3
  <2>2. met[k + 1] = Wave(met[k]) /\ met[k] \in SUBSET Nodes /\ met[k + 1] \in SUBSET Nodes
    BY <1>2, <2>1
  <2> QED
    BY <2>1, <2>2, WaveIs
<1>4. \A k \in 0..N : n \in met[k] /\ (Closed(met[k]) \/ Cardinality(met[k]) >= k + 1)
  <2> DEFINE Good == {k \in 0..N : n \in met[k] /\ (Closed(met[k]) \/ Cardinality(met[k]) >= k + 1)}
  <2>1. 0 \in Good
    <3>1. Cardinality({n}) = 1
      BY FS_Singleton
    <3>2. 0 \in 0..N
      BY <1>1
    <3>3. n \in met[0] /\ Cardinality(met[0]) >= 0 + 1
      BY <1>2, <3>1
    <3> QED
      BY <3>2, <3>3
  <2>2. ASSUME NEW k \in 0..N, k \in Good, k < N PROVE k + 1 \in Good
    <3> DEFINE A == met[k]
               B == met[k + 1]
    <3>1. /\ k + 1 \in 0..N /\ B = Wave(A) /\ A \subseteq B /\ B \in SUBSET Nodes
          /\ \A m \in A : Successors(m) \subseteq B
          /\ \A T : A \subseteq T /\ Closed(T) => B \subseteq T
      BY <1>3, <2>2
    <3>2. n \in A /\ (Closed(A) \/ Cardinality(A) >= k + 1)
      BY <2>2
    <3>3. IsFiniteSet(B) /\ Cardinality(B) \in Nat /\ Cardinality(A) \in Nat
          /\ Cardinality(A) <= Cardinality(B) /\ (Cardinality(A) = Cardinality(B) => A = B)
      <4>1. IsFiniteSet(B)
        BY <1>1, <3>1, FS_Subset
      <4>2. IsFiniteSet(A) /\ Cardinality(A) <= Cardinality(B) /\ (Cardinality(B) = Cardinality(A) => B = A)
        BY <3>1, <4>1, FS_Subset
      <4> QED
        BY <4>1, <4>2, FS_CardinalityType
    <3>4. Closed(B) \/ Cardinality(B) >= (k + 1) + 1
      <4>1. CASE Closed(A)
        <5>1. B = A
          BY <3>1, <4>1
        <5> QED
          BY <4>1, <5>1
      <4>2. CASE Cardinality(A) >= k + 1
        <5>1. CASE A = B
          <6>1. Closed(B)
            BY <3>1, <5>1
          <6> QED
            BY <6>1
        <5>2. CASE A # B
          <6> HIDE DEF A, B
          <6> QED
            BY <1>1, <3>3, <4>2, <5>2
        <5> QED
          BY <5>1, <5>2
      <4> QED
        BY <3>2, <4>1, <4>2
    <3> QED
      BY <3>1, <3>2, <3>4
  <2>3. \A k \in 0..N : k \in Good
    <3> HIDE DEF Good, N
    <3> QED
      BY <1>1, <2>1, <2>2, Induction
  <2> QED
    BY <2>3
<1>5. Closed(met[N])
  <2>1. N \in 0..N /\ met[N] \in SUBSET Nodes
    BY <1>1, <1>2
  <2>2. Cardinality(met[N]) <= N
    BY <1>1, <2>1, FS_Subset
  <2>3. Cardinality(met[N]) \in Nat
    BY <1>1, <2>1, FS_Subset, FS_CardinalityType
  <2>4. ~(Cardinality(met[N]) >= N + 1)
    BY <1>1, <2>2, <2>3
  <2> QED
    BY <1>4, <2>1, <2>4
<1>6. ASSUME NEW T, n \in T, Closed(T) PROVE met[N] \subseteq T
  <2> DEFINE Good == {k \in 0..N : met[k] \subseteq T}
  <2>1. 0 \in Good
    BY <1>1, <1>2, <1>6
  <2>2. ASSUME NEW k \in 0..N, k \in Good, k < N PROVE k + 1 \in Good
    BY <1>3, <1>6, <2>2
  <2>3. \A k \in 0..N : k \in Good
    <3> HIDE DEF Good, N
    <3> QED
      BY <1>1, <2>1, <2>2, Induction
  <2> QED
    BY <1>1, <2>3
<1> QED
  BY <1>1, <1>2, <1>4, <1>5, <1>6

\* What is reached from something that is reached is reached.
LEMMA ReachedFurther ==
    ASSUME GraphAssumption, NEW n \in Nodes, NEW m \in Reached(n)
    PROVE  m \in Nodes /\ Reached(m) \subseteq Reached(n)
BY ReachedIs

KahnState == [deg : [Nodes -> Int], ready : SUBSET Nodes, order : Seq(Nodes)]
Sorted(s) == {s.order[i] : i \in 1..Len(s.order)}
Ahead(s, m) == {p \in nodes \ Sorted(s) : <<p, m>> \in out}

\* After every round: the degrees count what is still to come before a node, and the
\* nodes that are ready are those before which nothing is.
KahnInv(s) ==
    /\ s \in KahnState
    /\ \A i \in 1..Len(s.order) : s.order[i] \in nodes
    /\ \A i, j \in 1..Len(s.order) : s.order[i] = s.order[j] => i = j
    /\ \A m \in nodes : s.deg[m] = Cardinality(Ahead(s, m))
    /\ s.ready = {m \in nodes \ Sorted(s) : Ahead(s, m) = {}}
    /\ \A i \in 1..Len(s.order) : \A p : <<p, s.order[i]>> \in out =>
           \E j \in 1..(i - 1) : s.order[j] = p

\* The least node of a set is in it.
LEMMA LeastOfNodes ==
    ASSUME GraphAssumption, NEW S \in SUBSET Nodes, S # {}
    PROVE  Min(S) \in S
<1>1. S \subseteq Nat
  BY DEF GraphAssumption
<1>2. \E m \in S : \A y \in S : m <= y
  BY <1>1, LeastNatural
<1> QED
  BY <1>2 DEF Min

\* The state of the sort after a round.
LEMMA RoundType ==
    ASSUME GraphAssumption, NEW s \in KahnState
    PROVE  KahnRound(s) \in KahnState
<1>1. s.deg \in [Nodes -> Int] /\ s.ready \in SUBSET Nodes /\ s.order \in Seq(Nodes)
  BY DEF KahnState
<1>2. CASE s.ready = {}
  BY <1>2 DEF KahnRound
<1>3. CASE s.ready # {}
  <2> DEFINE n == Min(s.ready)
             deg == Lowered(s, n)
             ready == (s.ready \ {n}) \union {m \in Successors(n) : deg[m] = 0}
  <2>1. n \in Nodes
    BY <1>1, <1>3, LeastOfNodes
  <2>2. KahnRound(s) = [deg |-> deg, order |-> Append(s.order, n), ready |-> ready]
    BY <1>3 DEF KahnRound
  <2>3. deg \in [Nodes -> Int]
    BY <1>1 DEF Lowered
  <2> HIDE DEF n
  <2>4. ready \in SUBSET Nodes
    BY <1>1 DEF Successors
  <2>5. Append(s.order, n) \in Seq(Nodes)
    BY <1>1, <2>1
  <2> HIDE DEF deg, ready
  <2> QED
    BY <2>2, <2>3, <2>4, <2>5 DEF KahnState
<1> QED
  BY <1>2, <1>3

\* The state of the sort before the first.
LEMMA StartType ==
    ASSUME GraphInv, GraphAssumption, \A m \in Nodes : Cardinality({e \in edges : e[3] = m}) \in Int
    PROVE  KahnStart \in KahnState
<1>1. [n \in Nodes |-> Cardinality({e \in edges : e[3] = n})] \in [Nodes -> Int]
  OBVIOUS
<1>2. {n \in nodes : \A e \in edges : e[3] # n} \in SUBSET Nodes
  BY DEF GraphInv, GraphTypes
<1>3. <<>> \in Seq(Nodes)
  OBVIOUS
<1> QED
  BY <1>1, <1>2, <1>3 DEF KahnStart, KahnState

\* The rounds of the sort.
LEMMA Rounds ==
    ASSUME GraphAssumption, KahnStart \in KahnState
    PROVE  \E st \in [0..Cardinality(Nodes) -> KahnState] :
              /\ st[0] = KahnStart /\ \A k \in 1..Cardinality(Nodes) : st[k] = KahnRound(st[k - 1])
              /\ Kahn = st[Cardinality(Nodes)].order
<1> DEFINE N == Cardinality(Nodes)
           S == KahnState
           Is(st) == st = [k \in 0..N |-> IF k = 0 THEN KahnStart ELSE KahnRound(st[k - 1])]
           F == [x \in (1..N) \X S |-> KahnRound(x[2])]
<1>1. N \in Nat
  BY FS_CardinalityType DEF GraphAssumption
<1>2. StepsIn(F, N, S)
  BY RoundType DEF StepsIn
<1>3. \A k \in 1..N, s \in S : F[<<k, s>>] = KahnRound(s)
  OBVIOUS
<1>4. KahnStart \in S
  OBVIOUS
<1> HIDE DEF F, S
<1>5. PICK g \in [0..N -> S] : g[0] = KahnStart /\ \A k \in 1..N : g[k] = F[<<k, g[k - 1]>>]
  <2> DEFINE a == KahnStart
  <2>1. a \in S
    BY <1>4
  <2> HIDE DEF N, a
  <2>2. \E g : Iterates(g, N, S, a, F)
    BY <1>1, <1>2, <2>1, Iteration
  <2> QED
    BY <2>2 DEF Iterates, a
<1>6. \A k \in 1..N : g[k] = KahnRound(g[k - 1])
  <2>1. \A k \in 1..N : k - 1 \in 0..N
    BY <1>1
  <2> QED
    BY <1>3, <1>5, <2>1
<1>7. Is(g)
  <2>1. \A k \in 0..N : g[k] = IF k = 0 THEN KahnStart ELSE KahnRound(g[k - 1])
    <3>1. \A k \in 0..N : k = 0 \/ k \in 1..N
      BY <1>1
    <3> QED
      BY <1>5, <1>6, <3>1
  <2> HIDE DEF N
  <2>2. g = [k \in 0..N |-> g[k]]
    BY <1>5
  <2> QED
    BY <2>1, <2>2
<1> DEFINE h == CHOOSE st : Is(st)
<1>8. Is(h)
  <2> HIDE DEF Is
  <2> QED
    BY <1>7
<1>9. Kahn = h[N].order
  BY DEF Kahn
<1> HIDE DEF h
<1>10. h[0] = KahnStart /\ \A k \in 1..N : h[k] = KahnRound(h[k - 1])
  <2>1. 0 \in 0..N /\ \A k \in 1..N : k \in 0..N /\ k # 0
    BY <1>1
  <2> HIDE DEF N
  <2> QED
    BY <1>8, <2>1
<1>11. \A k \in 0..N : h[k] = g[k]
  <2> DEFINE Good == {k \in 0..N : h[k] = g[k]}
  <2>1. 0 \in Good
    <3>1. 0 \in 0..N
      BY <1>1
    <3> QED
      BY <1>5, <1>10, <3>1
  <2>2. ASSUME NEW k \in 0..N, k \in Good, k < N PROVE k + 1 \in Good
    <3>1. k + 1 \in 1..N /\ (k + 1) - 1 = k /\ k + 1 \in 0..N
      BY <1>1, <2>2
    <3>2. h[k + 1] = KahnRound(h[k]) /\ g[k + 1] = KahnRound(g[k]) /\ h[k] = g[k]
      BY <1>6, <1>10, <2>2, <3>1
    <3> QED
      BY <3>1, <3>2
  <2>3. \A k \in 0..N : k \in Good
    <3> HIDE DEF Good, N
    <3> QED
      BY <1>1, <2>1, <2>2, Induction
  <2> QED
    BY <2>3
<1>12. Kahn = g[N].order
  BY <1>1, <1>9, <1>11
<1> QED
  BY <1>5, <1>6, <1>12 DEF S

\* As many edges end at a node as there are nodes before it.
LEMMA InDegree ==
    ASSUME GraphAssumption, GraphInv, ~misused, NEW m \in Nodes
    PROVE  LET into == {e \in edges : e[3] = m}
               from == {p \in nodes : <<p, m>> \in out}
           IN  IsFiniteSet(from) /\ Cardinality(into) = Cardinality(from) /\ Cardinality(from) \in Nat
               /\ (into = {} <=> from = {})
<1> DEFINE into == {e \in edges : e[3] = m}
           from == {p \in nodes : <<p, m>> \in out}
           f == [e \in into |-> e[2]]
<1>1. Regular(nodes, edges) /\ Faithful /\ edges \subseteq EdgeSet /\ nodes \subseteq Nodes
  BY DEF GraphInv, GraphTypes
<1>2. IsFiniteSet(from) /\ Cardinality(from) \in Nat
  <2>1. from \in SUBSET Nodes /\ IsFiniteSet(Nodes)
    BY <1>1 DEF GraphAssumption
  <2> HIDE DEF from
  <2> QED
    BY <2>1, FS_Subset, FS_CardinalityType
<1>3. \A e \in into : f[e] = e[2] /\ e \in edges /\ e[3] = m
  OBVIOUS
<1>4. \A e \in into : e[2] \in from
  BY <1>1, FaithfulSays
<1>5. \A p \in from : \E e \in into : e[2] = p
  BY <1>1, FaithfulSays
<1>6. \A e, d \in into : e[2] = d[2] => e = d
  BY <1>1, <1>3, OneEdge
<1>7. f \in [into -> from]
  BY <1>4
<1> HIDE DEF f, into, from
<1>8. f \in Injection(into, from)
  BY <1>3, <1>6, <1>7 DEF Injection, IsInjective
<1>9. f \in Surjection(into, from)
  <2>1. \A p \in from : \E e \in into : f[e] = p
    BY <1>3, <1>5
  <2> QED
    BY <1>7, <2>1 DEF Surjection
<1>10. Cardinality(into) = Cardinality(from)
  BY <1>2, <1>8, <1>9, FS_Injection
<1>11. into = {} <=> from = {}
  BY <1>4, <1>5
<1> QED
  BY <1>2, <1>10, <1>11 DEF into, from

\* The sort begins with the degrees of the graph.
LEMMA StartHolds ==
    ASSUME GraphAssumption, GraphInv, ~misused
    PROVE  KahnInv(KahnStart)
<1>1. nodes \subseteq Nodes
  BY DEF GraphInv, GraphTypes
<1>2. KahnStart \in KahnState
  <2>1. \A m \in Nodes : Cardinality({e \in edges : e[3] = m}) \in Int
    <3> TAKE m \in Nodes
    <3> DEFINE into == {e \in edges : e[3] = m}
               from == {p \in nodes : <<p, m>> \in out}
    <3>1. Cardinality(into) = Cardinality(from) /\ Cardinality(from) \in Nat
      BY InDegree
    <3> QED
      BY <3>1
  <2> QED
    BY <2>1, StartType
<1>3. KahnStart.order = <<>> /\ Sorted(KahnStart) = {}
  BY DEF KahnStart, Sorted
<1>4. \A m \in nodes : Ahead(KahnStart, m) = {p \in nodes : <<p, m>> \in out}
  BY <1>3 DEF Ahead
<1>5. \A m \in nodes : KahnStart.deg[m] = Cardinality({e \in edges : e[3] = m})
  BY <1>1 DEF KahnStart
<1>6. \A m \in nodes : KahnStart.deg[m] = Cardinality(Ahead(KahnStart, m))
  <2> TAKE m \in nodes
  <2>1. Cardinality({e \in edges : e[3] = m}) = Cardinality({p \in nodes : <<p, m>> \in out})
    BY <1>1, InDegree
  <2> QED
    BY <1>4, <1>5, <2>1
<1>7. \A m \in nodes : (\A e \in edges : e[3] # m) <=> Ahead(KahnStart, m) = {}
  <2> TAKE m \in nodes
  <2>1. {e \in edges : e[3] = m} = {} <=> {p \in nodes : <<p, m>> \in out} = {}
    BY <1>1, InDegree
  <2> QED
    BY <1>4, <2>1
<1>8. KahnStart.ready = {m \in nodes \ Sorted(KahnStart) : Ahead(KahnStart, m) = {}}
  <2>1. KahnStart.ready = {m \in nodes : \A e \in edges : e[3] # m}
    BY DEF KahnStart
  <2> QED
    BY <1>3, <1>7, <2>1
<1> QED
  BY <1>2, <1>3, <1>6, <1>8 DEF KahnInv

\* A node is put into the order.
LEMMA RoundHolds ==
    ASSUME GraphAssumption, GraphInv, ~misused, NEW s, KahnInv(s), s.ready # {}
    PROVE  KahnInv(KahnRound(s)) /\ Len(KahnRound(s).order) = Len(s.order) + 1
<1> DEFINE n == Min(s.ready)
           t == KahnRound(s)
           L == Len(s.order)
<1>1. /\ Faithful /\ nodes \subseteq Nodes /\ IsFiniteSet(nodes)
      /\ s \in KahnState /\ t \in KahnState /\ s.order \in Seq(Nodes) /\ L \in Nat
      /\ s.deg \in [Nodes -> Int] /\ s.ready \in SUBSET Nodes
  <2>1. Faithful /\ nodes \subseteq Nodes
    BY DEF GraphInv, GraphTypes
  <2>2. IsFiniteSet(nodes)
    BY <2>1, FS_Subset DEF GraphAssumption
  <2>3. s \in KahnState /\ t \in KahnState
    BY RoundType DEF KahnInv
  <2>4. s.order \in Seq(Nodes) /\ s.deg \in [Nodes -> Int] /\ s.ready \in SUBSET Nodes
    BY <2>3 DEF KahnState
  <2> QED
    BY <2>1, <2>2, <2>3, <2>4
<1>2. n \in s.ready /\ n \in nodes /\ n \notin Sorted(s) /\ Ahead(s, n) = {}
  BY <1>1, LeastOfNodes DEF KahnInv
<1>3. /\ t.order = Append(s.order, n) /\ t.deg = Lowered(s, n)
      /\ t.ready = (s.ready \ {n}) \union {m \in Successors(n) : t.deg[m] = 0}
  BY DEF KahnRound
<1> HIDE DEF n, t
<1>4. /\ Len(t.order) = L + 1 /\ t.order[L + 1] = n
      /\ \A i \in 1..L : t.order[i] = s.order[i]
      /\ \A i \in 1..(L + 1) : i \in 1..L \/ i = L + 1
  <2>1. n \in Nodes
    BY <1>1, <1>2
  <2> QED
    BY <1>1, <1>3, <2>1, AppendProperties
<1>5. Sorted(t) = Sorted(s) \union {n}
  <2>1. \A i \in 1..L : i \in 1..(L + 1) /\ t.order[i] = s.order[i]
    BY <1>1, <1>4
  <2>2. L + 1 \in 1..(L + 1)
    BY <1>1
  <2>3. \A m \in Sorted(s) : m \in Sorted(t)
    BY <1>4, <2>1 DEF Sorted
  <2>4. \A m \in Sorted(t) : m \in Sorted(s) \/ m = n
    BY <1>4, <2>1 DEF Sorted
  <2>5. n \in Sorted(t)
    BY <1>4, <2>2 DEF Sorted
  <2> QED
    BY <2>3, <2>4, <2>5
<1>6. \A m : Ahead(t, m) = Ahead(s, m) \ {n}
  BY <1>5 DEF Ahead
<1>7. \A m \in nodes : <<n, m>> \in out <=> n \in Ahead(s, m)
  BY <1>2 DEF Ahead
<1>8. \A m : m \in Successors(n) <=> m \in nodes /\ <<n, m>> \in out
  <2>1. \A m : <<n, m>> \in out => m \in nodes
    BY <1>1, FaithfulSays
  <2> QED
    BY <1>1, <2>1 DEF Successors
<1>9. \A m \in nodes : t.deg[m] = Cardinality(Ahead(t, m))
  <2> TAKE m \in nodes
  <2>1. s.deg[m] = Cardinality(Ahead(s, m)) /\ s.deg[m] \in Int
    BY <1>1 DEF KahnInv
  <2>2. IsFiniteSet(Ahead(s, m))
    <3>1. Ahead(s, m) \in SUBSET nodes
      BY DEF Ahead
    <3> QED
      BY <1>1, <3>1, FS_Subset
  <2>3. t.deg[m] = IF n \in Ahead(s, m) THEN s.deg[m] - 1 ELSE s.deg[m]
    BY <1>1, <1>3, <1>7, <1>8 DEF Lowered
  <2>4. Cardinality(Ahead(s, m) \ {n}) =
          IF n \in Ahead(s, m) THEN Cardinality(Ahead(s, m)) - 1 ELSE Cardinality(Ahead(s, m))
    BY <2>2, FS_RemoveElement
  <2> QED
    BY <1>6, <2>1, <2>3, <2>4
<1>10. \A m \in nodes : t.deg[m] = 0 <=> Ahead(t, m) = {}
  <2> TAKE m \in nodes
  <2>1. IsFiniteSet(Ahead(t, m))
    <3>1. Ahead(t, m) \in SUBSET nodes
      BY DEF Ahead
    <3> QED
      BY <1>1, <3>1, FS_Subset
  <2> QED
    BY <1>9, <2>1, FS_EmptySet
<1>11. \A i \in 1..L : \A p : <<p, s.order[i]>> \in out => p \in Sorted(s)
  <2> TAKE i \in 1..L
  <2> TAKE p
  <2> HAVE <<p, s.order[i]>> \in out
  <2>1. PICK j \in 1..(i - 1) : s.order[j] = p
    BY DEF KahnInv
  <2>2. j \in 1..L
    BY <1>1
  <2> QED
    BY <2>1, <2>2 DEF Sorted
<1>12. t.ready = {m \in nodes \ Sorted(t) : Ahead(t, m) = {}}
  <2>1. s.ready = {m \in nodes \ Sorted(s) : Ahead(s, m) = {}}
    BY DEF KahnInv
  <2>2. \A m \in t.ready : m \in nodes \ Sorted(t) /\ Ahead(t, m) = {}
    <3> TAKE m \in t.ready
    <3>1. CASE m \in s.ready \ {n}
      BY <1>5, <1>6, <2>1, <3>1
    <3>2. CASE m \in Successors(n) /\ t.deg[m] = 0
      <4>1. m \in nodes /\ <<n, m>> \in out /\ Ahead(t, m) = {}
        BY <1>8, <1>10, <3>2
      <4>2. m # n
        BY <1>2, <1>7, <4>1
      <4>3. m \notin Sorted(s)
        BY <1>2, <1>11, <4>1 DEF Sorted
      <4> QED
        BY <1>5, <4>1, <4>2, <4>3
    <3> QED
      BY <1>3, <3>1, <3>2
  <2>3. \A m \in nodes \ Sorted(t) : Ahead(t, m) = {} => m \in t.ready
    <3> TAKE m \in nodes \ Sorted(t)
    <3> HAVE Ahead(t, m) = {}
    <3>1. m \notin Sorted(s) /\ m # n
      BY <1>5
    <3>2. CASE n \in Ahead(s, m)
      BY <1>3, <1>7, <1>8, <1>10, <3>2
    <3>3. CASE n \notin Ahead(s, m)
      <4>1. Ahead(s, m) = {}
        BY <1>6, <3>3
      <4> QED
        BY <1>3, <2>1, <3>1, <4>1
    <3> QED
      BY <3>2, <3>3
  <2> QED
    BY <2>2, <2>3
<1>13. \A i \in 1..(L + 1) : t.order[i] \in nodes
  BY <1>2, <1>4 DEF KahnInv
<1>14. \A i, j \in 1..(L + 1) : t.order[i] = t.order[j] => i = j
  <2>1. \A i \in 1..L : s.order[i] # n
    BY <1>2 DEF Sorted
  <2>2. \A i, j \in 1..L : s.order[i] = s.order[j] => i = j
    BY DEF KahnInv
  <2> HIDE DEF L
  <2> QED
    BY <1>4, <2>1, <2>2
<1>15. \A i \in 1..(L + 1) : \A p : <<p, t.order[i]>> \in out => \E j \in 1..(i - 1) : t.order[j] = p
  <2> TAKE i \in 1..(L + 1)
  <2> TAKE p
  <2> HAVE <<p, t.order[i]>> \in out
  <2>1. CASE i \in 1..L
    <3>1. PICK j \in 1..(i - 1) : s.order[j] = p
      BY <1>4, <2>1 DEF KahnInv
    <3>2. j \in 1..L
      BY <1>1, <2>1
    <3> QED
      BY <1>4, <3>1, <3>2
  <2>2. CASE i = L + 1
    <3>1. p \in nodes /\ <<p, n>> \in out
      BY <1>1, <1>4, <2>2, FaithfulSays
    <3>2. p \in Sorted(s)
      BY <1>2, <3>1 DEF Ahead
    <3>3. PICK j \in 1..L : s.order[j] = p
      BY <3>2 DEF Sorted
    <3>4. j \in 1..(i - 1)
      BY <1>1, <2>2
    <3> QED
      BY <1>4, <3>3, <3>4
  <2> QED
    BY <1>4, <2>1, <2>2
<1>16. KahnInv(t)
  <2> HIDE DEF L
  <2> QED
    BY <1>1, <1>4, <1>9, <1>12, <1>13, <1>14, <1>15 DEF KahnInv
<1> QED
  BY <1>4, <1>16 DEF t

\* An order has as many places as nodes.
LEMMA OrderLength ==
    ASSUME NEW S, IsFiniteSet(S), NEW o \in Seq(S), \A i, j \in 1..Len(o) : o[i] = o[j] => i = j
    PROVE  /\ Cardinality(S) \in Nat /\ Len(o) \in Nat /\ Len(o) <= Cardinality(S)
           /\ Len(o) = Cardinality(S) <=> {o[i] : i \in 1..Len(o)} = S
<1> DEFINE D == 1..Len(o)
           f == [i \in D |-> o[i]]
<1>1. Len(o) \in Nat /\ \A i \in D : o[i] \in S
  OBVIOUS
<1>2. Cardinality(D) = Len(o)
  <2> DEFINE k == Len(o)
  <2> HIDE DEF k
  <2>1. k \in Nat => Cardinality(1..k) = k
    BY FS_Interval
  <2> QED
    BY <1>1, <2>1 DEF k
<1>3. f \in Injection(D, S) /\ \A i \in D : f[i] = o[i]
  BY <1>1 DEF Injection, IsInjective
<1> HIDE DEF f, D
<1>4. Cardinality(D) <= Cardinality(S) /\ (Cardinality(D) = Cardinality(S) <=> f \in Surjection(D, S))
  BY <1>3, FS_Injection
<1>5. f \in Surjection(D, S) <=> {o[i] : i \in D} = S
  <2>1. f \in [D -> S]
    BY <1>3 DEF Injection
  <2> QED
    BY <1>3, <2>1 DEF Surjection
<1> QED
  BY <1>1, <1>2, <1>4, <1>5, FS_CardinalityType DEF D

\* When the sort ends, a node is left only behind another one that is left.
LEMMA KahnEnds ==
    ASSUME GraphAssumption, GraphInv, ~misused
    PROVE  \E s : KahnInv(s) /\ s.order = Kahn /\ s.ready = {}
<1> DEFINE N == Cardinality(Nodes)
<1>1. N \in Nat /\ IsFiniteSet(Nodes) /\ nodes \subseteq Nodes
  BY FS_CardinalityType DEF GraphAssumption, GraphInv, GraphTypes
<1>2. KahnInv(KahnStart) /\ KahnStart \in KahnState /\ Len(KahnStart.order) = 0
  <2>1. KahnInv(KahnStart)
    BY StartHolds
  <2> QED
    BY <2>1 DEF KahnInv, KahnStart
<1>3. PICK st \in [0..N -> KahnState] :
        st[0] = KahnStart /\ (\A k \in 1..N : st[k] = KahnRound(st[k - 1])) /\ Kahn = st[N].order
  BY <1>2, Rounds
<1>4. \A k \in 0..N : KahnInv(st[k]) /\ (st[k].ready = {} \/ Len(st[k].order) = k)
  <2> DEFINE Good == {k \in 0..N : KahnInv(st[k]) /\ (st[k].ready = {} \/ Len(st[k].order) = k)}
  <2>1. 0 \in Good
    <3>1. 0 \in 0..N
      BY <1>1
    <3> QED
      BY <1>2, <1>3, <3>1
  <2>2. ASSUME NEW k \in 0..N, k \in Good, k < N PROVE k + 1 \in Good
    <3>1. k + 1 \in 1..N /\ (k + 1) - 1 = k /\ k + 1 \in 0..N
      BY <1>1, <2>2
    <3>2. st[k + 1] = KahnRound(st[k])
      BY <1>3, <3>1
    <3>3. KahnInv(st[k]) /\ (st[k].ready = {} \/ Len(st[k].order) = k)
      BY <2>2
    <3>4. CASE st[k].ready = {}
      <4>1. st[k + 1] = st[k]
        BY <3>2, <3>4 DEF KahnRound
      <4> QED
        BY <3>1, <3>3, <3>4, <4>1
    <3>5. CASE st[k].ready # {}
      <4>1. KahnInv(st[k + 1]) /\ Len(st[k + 1].order) = k + 1
        BY <3>2, <3>3, <3>5, RoundHolds
      <4> QED
        BY <3>1, <4>1
    <3> QED
      BY <3>4, <3>5
  <2>3. \A k \in 0..N : k \in Good
    <3> HIDE DEF Good, N
    <3> QED
      BY <1>1, <2>1, <2>2, Induction
  <2> QED
    BY <2>3
<1> DEFINE s == st[N]
<1>5. KahnInv(s) /\ (s.ready = {} \/ Len(s.order) = N) /\ s.order = Kahn
  BY <1>1, <1>3, <1>4
<1> HIDE DEF s
<1>6. s.ready = {}
  <2> SUFFICES ASSUME Len(s.order) = N, s.ready # {} PROVE FALSE
    BY <1>5
  <2>1. s.order \in Seq(Nodes) /\ \A i, j \in 1..Len(s.order) : s.order[i] = s.order[j] => i = j
    BY <1>5 DEF KahnInv, KahnState
  <2>2. Sorted(s) = Nodes
    BY <1>1, <2>1, OrderLength DEF Sorted
  <2> QED
    BY <1>1, <1>5, <2>2 DEF KahnInv
<1> QED
  BY <1>5, <1>6

\* A node that is reached from what it leads to, or leads to itself.
OnCycle(n) == <<n, n>> \in out \/ \E m \in Dependents(n) : n \in Dependents(m)

\* Along an order that no edge goes against, nothing comes back.
LEMMA NothingBack ==
    ASSUME GraphAssumption, GraphInv, ~misused, NEW s, KahnInv(s),
           NEW i \in 1..Len(s.order), Sorted(s) = nodes
    PROVE  \A m \in Reached(s.order[i]) :
              \E j \in 1..Len(s.order) : i <= j /\ s.order[j] = m
<1> DEFINE L == Len(s.order)
           n == s.order[i]
           T == {s.order[j] : j \in {q \in 1..L : i <= q}}
<1>1. n \in T /\ n \in Nodes /\ L \in Nat
  <2>1. nodes \subseteq Nodes /\ s.order \in Seq(Nodes)
    BY DEF GraphInv, GraphTypes, KahnInv, KahnState
  <2>2. i \in Int /\ i <= i
    OBVIOUS
  <2> QED
    BY <2>1, <2>2 DEF KahnInv
<1>2. ASSUME NEW m \in T, NEW q \in Successors(m) PROVE q \in T
  <2>1. PICK j \in 1..L : i <= j /\ s.order[j] = m
    OBVIOUS
  <2>2. <<m, q>> \in out /\ q \in nodes
    BY FaithfulSays DEF Successors, GraphInv
  <2>3. PICK k \in 1..L : s.order[k] = q
    BY <2>2 DEF Sorted
  <2>4. PICK h \in 1..(k - 1) : s.order[h] = m
    BY <2>2, <2>3 DEF KahnInv
  <2>5. h \in 1..L
    BY <1>1
  <2>6. h = j
    BY <2>1, <2>4, <2>5 DEF KahnInv
  <2>7. i <= k
    BY <1>1, <2>1, <2>6
  <2> QED
    BY <2>3, <2>7
<1>3. Reached(n) \subseteq T
  <2> HIDE DEF T, n
  <2> QED
    BY <1>1, <1>2, ReachedIs
<1> QED
  BY <1>3

\* When all nodes are sorted none is on a cycle.
LEMMA SortedMeansNoCycle ==
    ASSUME GraphAssumption, GraphInv, ~misused, NEW s, KahnInv(s), Sorted(s) = nodes, NEW n \in nodes
    PROVE  ~OnCycle(n)
<1> DEFINE L == Len(s.order)
<1>1. L \in Nat /\ nodes \subseteq Nodes
  <2>1. s.order \in Seq(Nodes)
    BY DEF KahnInv, KahnState
  <2> QED
    BY <2>1 DEF GraphInv, GraphTypes
<1>2. PICK i \in 1..L : s.order[i] = n
  BY DEF Sorted
<1>3. <<n, n>> \notin out
  <2> SUFFICES ASSUME <<n, n>> \in out PROVE FALSE
    OBVIOUS
  <2>1. PICK j \in 1..(i - 1) : s.order[j] = n
    BY <1>2 DEF KahnInv
  <2>2. j \in 1..L /\ j # i
    BY <1>1
  <2> QED
    BY <1>2, <2>1, <2>2 DEF KahnInv
<1>4. ASSUME NEW m \in Dependents(n), n \in Dependents(m) PROVE FALSE
  <2>1. m \in Reached(n) /\ m # n /\ n \in Reached(m)
    BY <1>4 DEF Dependents
  <2>2. PICK j \in 1..L : i <= j /\ s.order[j] = m
    <3>1. \A q \in Reached(s.order[i]) : \E j \in 1..Len(s.order) : i <= j /\ s.order[j] = q
      BY NothingBack
    <3> QED
      BY <1>2, <2>1, <3>1
  <2>3. PICK k \in 1..L : j <= k /\ s.order[k] = n
    <3>1. \A q \in Reached(s.order[j]) : \E k \in 1..Len(s.order) : j <= k /\ s.order[k] = q
      BY NothingBack
    <3> QED
      BY <2>1, <2>2, <3>1
  <2>4. k = i
    BY <1>2, <2>3 DEF KahnInv
  <2>5. j = i
    BY <2>2, <2>3, <2>4
  <2> QED
    BY <1>2, <2>1, <2>2, <2>5
<1> QED
  BY <1>3, <1>4 DEF OnCycle

\* Among nodes each of which comes behind another one of them, some lie on a cycle:
\* the one that the fewest of them lead to.
LEMMA LeftMeansCycle ==
    ASSUME GraphAssumption, NEW U \in SUBSET Nodes, U # {},
           \A m \in U : \E p \in U : <<p, m>> \in out
    PROVE  \E n \in U : OnCycle(n)
<1> DEFINE Leading(n) == {m \in U : n \in Reached(m)}
           Counts == {Cardinality(Leading(n)) : n \in U}
<1>1. IsFiniteSet(U) /\ \A n : IsFiniteSet(Leading(n)) /\ Cardinality(Leading(n)) \in Nat
  <2>1. IsFiniteSet(U)
    BY FS_Subset DEF GraphAssumption
  <2>2. \A n : Leading(n) \in SUBSET U
    OBVIOUS
  <2> HIDE DEF Leading
  <2> QED
    BY <2>1, <2>2, FS_Subset, FS_CardinalityType
<1>2. PICK n \in U : \A m \in U : Cardinality(Leading(n)) <= Cardinality(Leading(m))
  <2>1. Counts \subseteq Nat /\ Counts # {}
    BY <1>1
  <2> HIDE DEF Leading
  <2>2. PICK c \in Counts : \A y \in Counts : c <= y
    <3> HIDE DEF Counts
    <3> QED
      BY <2>1, LeastNatural
  <2> QED
    BY <2>2
<1>3. PICK p \in U : <<p, n>> \in out
  OBVIOUS
<1>4. n \in Reached(p) /\ n \in Reached(n) /\ p \in Reached(p)
  BY <1>3, ReachedIs DEF Successors
<1>5. Leading(p) \subseteq Leading(n)
  <2> SUFFICES ASSUME NEW m \in U, p \in Reached(m) PROVE n \in Reached(m)
    OBVIOUS
  <2> QED
    BY <1>4, ReachedFurther
<1>6. Leading(p) = Leading(n)
  <2>1. IsFiniteSet(Leading(n)) /\ Cardinality(Leading(n)) \in Nat /\ Cardinality(Leading(p)) \in Nat
        /\ Cardinality(Leading(n)) <= Cardinality(Leading(p))
    BY <1>1, <1>2
  <2> HIDE DEF Leading
  <2> QED
    BY <1>5, <2>1, FS_Subset
<1>7. p \in Reached(n)
  BY <1>4, <1>6
<1> QED
  BY <1>3, <1>4, <1>7 DEF OnCycle, Dependents

\* The sort finds the cycle there is, or an order of all nodes.
LEMMA SortHolds ==
    ASSUME GraphAssumption, GraphInv, ~misused
    PROVE  /\ HasCycle <=> \E n \in nodes : OnCycle(n)
           /\ Kahn \in Seq(nodes) /\ \A i, j \in 1..Len(Kahn) : Kahn[i] = Kahn[j] => i = j
           /\ ~HasCycle => {Kahn[i] : i \in 1..Len(Kahn)} = nodes
           /\ \A i, j \in 1..Len(Kahn) : <<Kahn[j], Kahn[i]>> \in out => j < i
<1>1. PICK s : KahnInv(s) /\ s.order = Kahn /\ s.ready = {}
  BY KahnEnds
<1>2. nodes \subseteq Nodes /\ IsFiniteSet(nodes)
  <2>1. nodes \subseteq Nodes
    BY DEF GraphInv, GraphTypes
  <2> QED
    BY <2>1, FS_Subset DEF GraphAssumption
<1>3. Kahn \in Seq(nodes) /\ (\A i, j \in 1..Len(Kahn) : Kahn[i] = Kahn[j] => i = j) /\ Len(Kahn) \in Nat
  <2>1. Kahn \in Seq(Nodes) /\ \A i \in 1..Len(Kahn) : Kahn[i] \in nodes
    BY <1>1 DEF KahnInv, KahnState
  <2> QED
    BY <1>1, <2>1 DEF KahnInv
<1>4. HasCycle <=> Sorted(s) # nodes
  BY <1>1, <1>2, <1>3, OrderLength DEF HasCycle, Sorted
<1>5. HasCycle <=> \E n \in nodes : OnCycle(n)
  <2>1. CASE Sorted(s) = nodes
    BY <1>1, <1>4, <2>1, SortedMeansNoCycle
  <2>2. CASE Sorted(s) # nodes
    <3> DEFINE U == nodes \ Sorted(s)
    <3>1. U \in SUBSET Nodes /\ U # {}
      <4>1. Sorted(s) \subseteq nodes
        BY <1>1 DEF KahnInv, Sorted
      <4> QED
        BY <1>2, <2>2, <4>1
    <3>2. \A m \in U : \E p \in U : <<p, m>> \in out
      BY <1>1 DEF KahnInv, Ahead
    <3> HIDE DEF U
    <3>3. \E n \in U : OnCycle(n)
      BY <3>1, <3>2, LeftMeansCycle
    <3> QED
      BY <1>4, <2>2, <3>3 DEF U
  <2> QED
    BY <2>1, <2>2
<1>6. \A i, j \in 1..Len(Kahn) : <<Kahn[j], Kahn[i]>> \in out => j < i
  <2> TAKE i, j \in 1..Len(Kahn)
  <2> HAVE <<Kahn[j], Kahn[i]>> \in out
  <2>1. PICK k \in 1..(i - 1) : Kahn[k] = Kahn[j]
    BY <1>1 DEF KahnInv
  <2>2. k \in 1..Len(Kahn) /\ k < i
    BY <1>3
  <2> QED
    BY <1>3, <2>1, <2>2
<1> QED
  BY <1>1, <1>3, <1>4, <1>5, <1>6 DEF Sorted

\* The invariant implies that the graph is faithful.
LEMMA GraphMeans ==
    ASSUME GraphAssumption, GraphInv
    PROVE  GraphIsFaithful
<1>1. GraphTypeOK
  <2>1. \A e \in edges : e[1] \in Ids \union (Nodes \X Nodes)
    BY EdgeIs DEF GraphInv, GraphTypes
  <2>2. ~misused => \A e \in edges : {e[2], e[3]} \subseteq nodes
    BY DEF GraphInv, Regular
  <2> QED
    BY <2>1, <2>2 DEF GraphInv, GraphTypes, GraphTypeOK
<1>2. AdjacencyFaithful
  BY DEF AdjacencyFaithful, GraphInv
<1>3. SortIsRight
  <2> SUFFICES ASSUME ~misused
               PROVE  /\ HasCycle = (\E n \in nodes : <<n, n>> \in out \/ \E m \in Dependents(n) : n \in Dependents(m))
                      /\ ~HasCycle =>
                            /\ Range(Kahn) = nodes
                            /\ \A i, j \in 1..Len(Kahn) : <<Kahn[j], Kahn[i]>> \in EndsOf(edges) => j < i
    BY DEF SortIsRight
  <2>1. HasCycle <=> \E n \in nodes : OnCycle(n)
    BY SortHolds
  <2>2. HasCycle \in BOOLEAN
    BY DEF HasCycle
  <2>3. HasCycle = (\E n \in nodes : <<n, n>> \in out \/ \E m \in Dependents(n) : n \in Dependents(m))
    BY <2>1, <2>2 DEF OnCycle
  <2>4. Kahn \in Seq(nodes) /\ (~HasCycle => {Kahn[i] : i \in 1..Len(Kahn)} = nodes)
    BY SortHolds
  <2>5. Range(Kahn) = {Kahn[i] : i \in 1..Len(Kahn)}
    BY <2>4 DEF Range
  <2>6. out = EndsOf(edges)
    BY DEF GraphInv, Faithful
  <2>7. \A i, j \in 1..Len(Kahn) : <<Kahn[j], Kahn[i]>> \in EndsOf(edges) => j < i
    BY <2>6, SortHolds
  <2> QED
    BY <2>3, <2>4, <2>5, <2>7
<1> QED
  BY <1>1, <1>2, <1>3 DEF GraphIsFaithful

\* The two copies of the edges agree after every sequence of operations that gives an
\* id to one pair of nodes, and the sort then fails on cycles only, leaves no node out
\* and puts no edge backwards (graph.go, traversal.go, snapshot.go).
THEOREM GraphFaithful ==
    ASSUME GraphAssumption
    PROVE  GraphSpec => []GraphIsFaithful
<1>1. GraphInv => GraphIsFaithful
  BY GraphMeans
<1> QED
  BY <1>1, GraphInvariant, PTL

-----------------------------------------------------------------------------
(* The parametric model.  An edge is only accepted where it closes no cycle  *)
(* (AcyclicWithEdge), so that every plan has all that depends on the changed  *)
(* parameters, each behind what it is calculated from (PlanIs); a formula     *)
(* that was run stays right to the end of it (EffectsHold).  What is stale    *)
(* therefore always lies below something dirty or taken (Caused).             *)

\* What is kept of an order of different nodes: all that belong to the set, as they came.
KeptUpTo(o, S, i, q) ==
    /\ q \in Seq(S)
    /\ \A j \in 1..Len(q) : \E h \in 1..i : q[j] = o[h]
    /\ \A h \in 1..i : o[h] \in S => \E j \in 1..Len(q) : q[j] = o[h]
    /\ \A j, k \in 1..Len(q) : \A g, h \in 1..i : q[j] = o[g] /\ q[k] = o[h] /\ g < h => j < k

\* An element of the set is appended to what is kept.
LEMMA KeepOne ==
    ASSUME NEW S, NEW U, NEW o \in Seq(U), \A g, h \in 1..Len(o) : o[g] = o[h] => g = h,
           NEW i \in Nat, i < Len(o), NEW q, KeptUpTo(o, S, i, q), o[i + 1] \in S
    PROVE  KeptUpTo(o, S, i + 1, Append(q, o[i + 1]))
<1> DEFINE x == o[i + 1]
           r == Append(q, x)
           L == Len(q)
<1>1. L \in Nat /\ q \in Seq(S) /\ x \in S
  BY DEF KeptUpTo
<1>2. /\ r \in Seq(S) /\ Len(r) = L + 1 /\ r[L + 1] = x
      /\ \A j \in 1..L : r[j] = q[j]
      /\ \A j \in 1..(L + 1) : j \in 1..L \/ j = L + 1
  BY <1>1, AppendProperties
<1>3. /\ i + 1 \in 1..Len(o) /\ \A h \in 1..i : h \in 1..(i + 1) /\ h \in 1..Len(o) /\ h < i + 1
      /\ \A h \in 1..(i + 1) : h \in 1..i \/ h = i + 1
      /\ \A h \in 1..(i + 1) : h \in 1..Len(o)
  OBVIOUS
<1>4. \A h \in 1..Len(o) : o[h] = x => h = i + 1
  BY <1>3
<1>5. /\ \A j \in 1..L : \E h \in 1..i : q[j] = o[h]
      /\ \A h \in 1..i : o[h] \in S => \E j \in 1..L : q[j] = o[h]
      /\ \A j, k \in 1..L : \A g, h \in 1..i : q[j] = o[g] /\ q[k] = o[h] /\ g < h => j < k
  BY DEF KeptUpTo
<1> HIDE DEF x, r, L
<1>6. \A j \in 1..L : q[j] # x
  <2> TAKE j \in 1..L
  <2>1. PICK h \in 1..i : q[j] = o[h]
    BY <1>5
  <2>2. h # i + 1 /\ h \in 1..Len(o)
    BY <1>3
  <2> QED
    BY <1>4, <2>1, <2>2
<1>7. \A j \in 1..Len(r) : \E h \in 1..(i + 1) : r[j] = o[h]
  <2> TAKE j \in 1..Len(r)
  <2>1. CASE j \in 1..L
    BY <1>2, <1>3, <1>5, <2>1
  <2>2. CASE j = L + 1
    <3>1. i + 1 \in 1..(i + 1)
      BY <1>3
    <3> QED
      BY <1>2, <2>2, <3>1 DEF x
  <2> QED
    BY <1>2, <2>1, <2>2
<1>8. \A h \in 1..(i + 1) : o[h] \in S => \E j \in 1..Len(r) : r[j] = o[h]
  <2> TAKE h \in 1..(i + 1)
  <2> HAVE o[h] \in S
  <2>0. L + 1 \in 1..(L + 1) /\ \A j \in 1..L : j \in 1..(L + 1)
    BY <1>1
  <2>1. CASE h \in 1..i
    BY <1>2, <1>5, <2>0, <2>1
  <2>2. CASE h = i + 1
    BY <1>2, <2>0, <2>2 DEF x
  <2> QED
    BY <1>3, <2>1, <2>2
<1>9. ASSUME NEW j \in 1..Len(r), NEW k \in 1..Len(r), NEW g \in 1..(i + 1), NEW h \in 1..(i + 1),
             r[j] = o[g], r[k] = o[h], g < h
      PROVE  j < k
  <2>0. g \in 1..i /\ g \in 1..Len(o) /\ h \in 1..Len(o)
    BY <1>3, <1>9
  <2>1. j \in 1..L
    <3> SUFFICES ASSUME j = L + 1 PROVE FALSE
      BY <1>2
    <3>1. o[g] = x
      BY <1>2, <1>9
    <3> QED
      BY <1>3, <1>4, <2>0, <3>1
  <2>2. CASE k = L + 1
    BY <1>1, <2>1, <2>2
  <2>3. CASE k \in 1..L
    <3>1. h # i + 1
      <4> SUFFICES ASSUME h = i + 1 PROVE FALSE
        OBVIOUS
      <4>1. q[k] = x
        BY <1>2, <1>9, <2>3 DEF x
      <4> QED
        BY <1>6, <2>3, <4>1
    <3>2. h \in 1..i
      BY <1>3, <3>1
    <3> QED
      BY <1>2, <1>5, <1>9, <2>0, <2>1, <2>3, <3>2
  <2> QED
    BY <1>2, <2>2, <2>3
<1>10. KeptUpTo(o, S, i + 1, r)
  BY <1>2, <1>7, <1>8, <1>9 DEF KeptUpTo
<1> QED
  BY <1>10 DEF r, x

\* Any other is left out.
LEMMA SkipOne ==
    ASSUME NEW S, NEW U, NEW o \in Seq(U),
           NEW i \in Nat, i < Len(o), NEW q, KeptUpTo(o, S, i, q), o[i + 1] \notin S
    PROVE  KeptUpTo(o, S, i + 1, q)
<1>1. \A h \in 1..(i + 1) : h \in 1..i \/ h = i + 1
  OBVIOUS
<1>2. \A h \in 1..i : h \in 1..(i + 1)
  OBVIOUS
<1>3. \A j \in 1..Len(q) : q[j] \in S
  BY DEF KeptUpTo
<1> QED
  BY <1>1, <1>2, <1>3 DEF KeptUpTo

\* What is selected of an order keeps its order.
LEMMA KeptIs ==
    ASSUME NEW S, NEW U, NEW o \in Seq(U), \A g, h \in 1..Len(o) : o[g] = o[h] => g = h
    PROVE  KeptUpTo(o, S, Len(o), Selected(o, S))
<1> DEFINE N == Len(o)
           V == Seq(S)
           Step(i, q) == IF o[i] \in S THEN Append(q, o[i]) ELSE q
           Is(q) == q = [i \in 0..N |-> IF i = 0 THEN <<>> ELSE Step(i, q[i - 1])]
           F == [x \in (1..N) \X V |-> Step(x[1], x[2])]
<1>1. N \in Nat
  OBVIOUS
<1>2. StepsIn(F, N, V)
  BY DEF StepsIn
<1>3. \A i \in 1..N, q \in V : F[<<i, q>>] = Step(i, q)
  OBVIOUS
<1>4. <<>> \in V
  OBVIOUS
<1> HIDE DEF F, V, Step
<1>5. PICK g \in [0..N -> V] : g[0] = <<>> /\ \A i \in 1..N : g[i] = F[<<i, g[i - 1]>>]
  <2> DEFINE a == <<>>
  <2>1. a \in V
    BY <1>4
  <2> HIDE DEF N, a
  <2>2. \E g : Iterates(g, N, V, a, F)
    BY <1>1, <1>2, <2>1, Iteration
  <2> QED
    BY <2>2 DEF Iterates, a
<1>6. \A i \in 1..N : g[i] = Step(i, g[i - 1])
  <2>1. \A i \in 1..N : i - 1 \in 0..N
    BY <1>1
  <2> QED
    BY <1>3, <1>5, <2>1
<1>7. Is(g)
  <2>1. \A i \in 0..N : g[i] = IF i = 0 THEN <<>> ELSE Step(i, g[i - 1])
    <3>1. \A i \in 0..N : i = 0 \/ i \in 1..N
      BY <1>1
    <3> QED
      BY <1>5, <1>6, <3>1
  <2> HIDE DEF N
  <2>2. g = [i \in 0..N |-> g[i]]
    BY <1>5
  <2> QED
    BY <2>1, <2>2
<1> DEFINE q == CHOOSE q : Is(q)
<1>8. Is(q)
  <2> HIDE DEF Is
  <2> QED
    BY <1>7
<1>9. Selected(o, S) = q[N]
  BY DEF Selected, Step
<1> HIDE DEF q
<1>10. q[0] = <<>> /\ \A i \in 1..N : q[i] = Step(i, q[i - 1])
  <2>1. 0 \in 0..N /\ \A i \in 1..N : i \in 0..N /\ i # 0
    BY <1>1
  <2> HIDE DEF N
  <2> QED
    BY <1>8, <2>1
<1>11. \A i \in 0..N : KeptUpTo(o, S, i, q[i])
  <2> DEFINE Good == {i \in 0..N : KeptUpTo(o, S, i, q[i])}
  <2>1. 0 \in Good
    <3>1. 0 \in 0..N
      BY <1>1
    <3>2. KeptUpTo(o, S, 0, <<>>)
      BY DEF KeptUpTo
    <3> QED
      BY <1>10, <3>1, <3>2
  <2>2. ASSUME NEW i \in 0..N, i \in Good, i < N PROVE i + 1 \in Good
    <3>1. i + 1 \in 1..N /\ (i + 1) - 1 = i /\ i + 1 \in 0..N /\ i \in Nat /\ i < Len(o)
      BY <1>1, <2>2
    <3>2. q[i + 1] = Step(i + 1, q[i]) /\ KeptUpTo(o, S, i, q[i])
      BY <1>10, <2>2, <3>1
    <3>3. KeptUpTo(o, S, i + 1, q[i + 1])
      BY <3>1, <3>2, KeepOne, SkipOne DEF Step
    <3> QED
      BY <3>1, <3>3
  <2>3. \A i \in 0..N : i \in Good
    <3> HIDE DEF Good, N
    <3> QED
      BY <1>1, <2>1, <2>2, Induction
  <2> QED
    BY <2>3
<1> QED
  BY <1>1, <1>9, <1>11

\* What the operations of a model add to the invariant of the graph: the ids are those
\* of the pairs, nothing lies on a cycle, and what is stale or set by hand has a cause:
\* it is reached from a dirty parameter or from one that was taken.
Acyclic == \A n \in Nodes : ~OnCycle(n)
Caused == \A p \in stale \union manual : \E d \in dirty \union taken : p \in Reached(d)

ModelInv ==
    /\ GraphInv /\ ~misused /\ saved = NoGraph
    /\ \A e \in edges : e[1] = <<e[2], e[3]>>
    /\ Acyclic /\ stale \union manual \subseteq Derived /\ taken \subseteq nodes /\ Caused

\* What ReachedIs and ReachedFurther say, for every node at once and of the next state as well.
ReachRule ==
    \A n \in Nodes :
        /\ Reached(n) \subseteq Nodes /\ n \in Reached(n)
        /\ \A m \in Reached(n) : Successors(m) \subseteq Reached(n)
        /\ \A T \in SUBSET Nodes : n \in T /\ (\A m \in T : Successors(m) \subseteq T) => Reached(n) \subseteq T

\* The rules of reachability, for the adjacency before and after a step.
LEMMA ReachRules == GraphAssumption => ReachRule /\ ReachRule'
<1>1. GraphAssumption => ReachRule
  BY ReachedIs DEF ReachRule
<1>2. GraphAssumption <=> GraphAssumption'
  BY DEF GraphAssumption
<1> QED
  BY <1>1, <1>2, PTL

\* With an edge more, a node reaches what it did and, if it reached the tail of the edge,
\* what the head reaches.
LEMMA ReachedWithEdge ==
    ASSUME GraphAssumption, NEW n \in Nodes, NEW m \in Nodes, out' = out \union {<<n, m>>},
           n \notin Reached(m), NEW a \in Nodes
    PROVE  /\ Reached(a) \subseteq Reached(a)'
           /\ Reached(a)' \subseteq Reached(a) \union (IF n \in Reached(a) THEN Reached(m) ELSE {})
<1> DEFINE T == Reached(a) \union (IF n \in Reached(a) THEN Reached(m) ELSE {})
<1>1. /\ \A q : q \in Nodes => q \in Reached(q) /\ Reached(q) \subseteq Nodes
      /\ \A q : q \in Nodes => \A p \in Reached(q) : Successors(p) \subseteq Reached(q)
  BY ReachRules DEF ReachRule
<1>2. \A p : Successors(p)' = Successors(p) \union (IF p = n THEN {m} ELSE {})
  BY DEF Successors
<1>3. Reached(a) \subseteq Reached(a)'
  <2>1. a \in Reached(a)' /\ Reached(a)' \in SUBSET Nodes
        /\ \A p \in Reached(a)' : Successors(p)' \subseteq Reached(a)'
    BY ReachRules DEF ReachRule
  <2>2. \A p \in Reached(a)' : Successors(p) \subseteq Reached(a)'
    BY <1>2, <2>1
  <2> DEFINE B == Reached(a)'
  <2>3. B \in SUBSET Nodes /\ a \in B /\ \A p \in B : Successors(p) \subseteq B
    BY <2>1, <2>2
  <2> HIDE DEF B
  <2>4. Reached(a) \subseteq B
    BY <2>3, ReachRules DEF ReachRule
  <2> QED
    BY <2>4 DEF B
<1>4. T \in SUBSET Nodes /\ a \in T
  BY <1>1
<1>5. \A p \in T : Successors(p)' \subseteq T
  <2> TAKE p \in T
  <2>1. Successors(p) \subseteq T
    BY <1>1
  <2>2. p = n => m \in T
    BY <1>1
  <2> QED
    BY <1>2, <2>1, <2>2
<1>6. Reached(a)' \subseteq T
  <2> HIDE DEF T
  <2>1. \A S \in SUBSET Nodes : a \in S /\ (\A p \in S : Successors(p)' \subseteq S) => Reached(a)' \subseteq S
    BY ReachRules DEF ReachRule
  <2> QED
    BY <1>4, <1>5, <2>1
<1> QED
  BY <1>3, <1>6

\* An edge that closes no cycle leaves the graph without one.
LEMMA AcyclicWithEdge ==
    ASSUME GraphAssumption, Acyclic, NEW n \in Nodes, NEW m \in Nodes, out' = out \union {<<n, m>>},
           ~Closes(n, m)
    PROVE  Acyclic' /\ n \notin Reached(m)
<1>1. n # m /\ n \notin Reached(m)
  BY DEF Closes, Dependents
<1> DEFINE R(a) == Reached(a)
           Q(a) == Reached(a)'
<1>2. /\ \A q : q \in Nodes => q \in R(q) /\ R(q) \subseteq Nodes
      /\ \A q : q \in Nodes => \A p \in R(q) : p \in Nodes /\ R(p) \subseteq R(q)
  BY ReachRules, ReachedFurther DEF ReachRule
<1>3. \A a \in Nodes : \A b : b \in Q(a) => b \in R(a) \/ (n \in R(a) /\ b \in R(m))
  BY <1>1, ReachedWithEdge
<1>4. \A a \in Nodes : <<a, a>> \notin out /\ \A b \in R(a) : b # a => a \notin R(b)
  BY DEF Acyclic, OnCycle, Dependents
<1>5. ASSUME NEW a \in Nodes, NEW b, b \in Q(a), b # a, a \in Q(b), b \in Nodes PROVE FALSE
  <2> HIDE DEF R, Q
  <2>1. CASE b \in R(a) /\ a \in R(b)
    BY <1>4, <1>5, <2>1
  <2>2. CASE b \in R(a) /\ n \in R(b) /\ a \in R(m)
    BY <1>1, <1>2, <2>2 DEF R
  <2>3. CASE n \in R(a) /\ b \in R(m) /\ a \in R(b)
    BY <1>1, <1>2, <2>3 DEF R
  <2>4. CASE n \in R(a) /\ a \in R(m)
    BY <1>1, <1>2, <2>4 DEF R
  <2> QED
    BY <1>3, <1>5, <2>1, <2>2, <2>3, <2>4
<1>6. \A a \in Nodes : <<a, a>> \notin out'
  BY <1>1, <1>4
<1>7. \A a \in Nodes : Q(a) \subseteq Nodes
  BY ReachRules DEF ReachRule
<1>8. \A a \in Nodes : ~(\E b \in Dependents(a)' : a \in Dependents(b)')
  BY <1>5, <1>7 DEF Dependents
<1>9. Acyclic'
  BY <1>6, <1>8 DEF Acyclic, OnCycle
<1> QED
  BY <1>1, <1>9

\* Reaching does not depend on anything but the edges.
LEMMA SameReach ==
    ASSUME UNCHANGED out
    PROVE  /\ \A n : Reached(n)' = Reached(n) /\ Successors(n)' = Successors(n)
           /\ Acyclic' <=> Acyclic
<1>1. \A n : Reached(n)' = Reached(n) /\ Successors(n)' = Successors(n)
  BY DEF Reached, Successors
<1> QED
  BY <1>1 DEF Acyclic, OnCycle, Dependents

\* The empty model satisfies the invariant.
LEMMA ModelInitHolds ==
    ASSUME GraphAssumption, ModelInit
    PROVE  ModelInv
<1>1. /\ GraphInv /\ ~misused /\ saved = NoGraph /\ edges = {} /\ out = {}
      /\ stale = {} /\ manual = {} /\ taken = {}
  BY GraphInitHolds DEF ModelInit, GraphInit
<1>2. \A n \in Nodes : Reached(n) \subseteq {n}
  <2> TAKE n \in Nodes
  <2>1. \A m : Successors(m) = {}
    BY <1>1 DEF Successors
  <2> DEFINE T == {n}
  <2>2. T \in SUBSET Nodes /\ n \in T /\ \A m \in T : Successors(m) \subseteq T
    BY <2>1
  <2> HIDE DEF T
  <2>3. Reached(n) \subseteq T
    BY <2>2, ReachRules DEF ReachRule
  <2> QED
    BY <2>3 DEF T
<1>3. Acyclic
  <2>1. \A n \in Nodes : Dependents(n) = {}
    BY <1>2 DEF Dependents
  <2> QED
    BY <1>1, <2>1 DEF Acyclic, OnCycle
<1> QED
  BY <1>1, <1>3 DEF ModelInv, Caused

\* A parameter that is added is dirty, and stale if it has a formula.
LEMMA AddKeeps ==
    ASSUME GraphAssumption, ModelInv, NEW p \in Nodes, Add(p)
    PROVE  ModelInv'
<1>1. /\ AddNode(p) /\ UNCHANGED <<saved, misused, manual, taken, out, edges>>
      /\ dirty' = dirty \union {p} /\ nodes \subseteq nodes'
      /\ stale' = stale \union Calculated({p})
  BY DEF Add, AddNode
<1>2. GraphInv'
  BY <1>1, AddNodeKeeps DEF ModelInv
<1>3. Acyclic' /\ \A n : Reached(n)' = Reached(n)
  BY <1>1, SameReach DEF ModelInv
<1>4. Caused'
  <2>1. p \in Reached(p)
    BY ReachRules DEF ReachRule
  <2> QED
    BY <1>1, <1>3, <2>1 DEF ModelInv, Caused, Calculated
<1>5. (stale \union manual \subseteq Derived)' /\ (taken \subseteq nodes)'
  BY <1>1 DEF ModelInv, Calculated
<1> QED
  BY <1>1, <1>2, <1>3, <1>4, <1>5 DEF ModelInv

\* What a parameter that is set makes stale depends on it, and it is dirty.
LEMMA SetKeeps ==
    ASSUME GraphAssumption, ModelInv, NEW p \in Nodes, Set(p)
    PROVE  ModelInv'
<1>1. /\ AddNode(p) /\ UNCHANGED <<saved, misused, taken, out, edges>>
      /\ dirty' = dirty \union {p} /\ nodes \subseteq nodes'
      /\ stale' = (stale \ {p}) \union Calculated(Successors(p))
      /\ manual' = manual \union Calculated({p})
  BY DEF Set, AddNode
<1>2. GraphInv'
  BY <1>1, AddNodeKeeps DEF ModelInv
<1>3. Acyclic' /\ \A n : Reached(n)' = Reached(n)
  BY <1>1, SameReach DEF ModelInv
<1>4. Successors(p) \subseteq Reached(p) /\ p \in Reached(p)
  BY ReachRules DEF ReachRule
<1>5. (stale \union manual \subseteq Derived)' /\ (taken \subseteq nodes)'
  BY <1>1 DEF ModelInv, Calculated
<1>6. Caused'
  <2> SUFFICES ASSUME NEW q \in (stale \union manual)'
               PROVE  \E d \in (dirty \union taken)' : q \in Reached(d)
    BY <1>3 DEF Caused
  <2>1. CASE q \in stale \union manual
    BY <1>1, <2>1 DEF ModelInv, Caused
  <2>2. CASE q \in Successors(p) \union {p}
    BY <1>1, <1>4, <2>2
  <2> QED
    BY <1>1, <2>1, <2>2 DEF Calculated
<1> QED
  BY <1>1, <1>2, <1>3, <1>5, <1>6 DEF ModelInv

\* A dependency that is accepted closes no cycle, and what was reached still is.
LEMMA AddDependencyKeeps ==
    ASSUME GraphAssumption, ModelInv, NEW n \in Nodes, NEW m \in Nodes, AddDependency(n, m)
    PROVE  ModelInv'
<1>1. /\ ~Closes(n, m) /\ AddEdge(<<n, m>>, n, m)
      /\ UNCHANGED <<nodes, saved, misused, stale, manual, taken, dirty>>
      /\ out' = out \union {<<n, m>>}
      /\ edges' = {e \in edges : e[1] # <<n, m>>} \union {<<<<n, m>>, n, m>>}
  BY DEF AddDependency, AddEdge
<1>2. GraphInv'
  <2>1. <<n, m>> \notin (Nodes \X Nodes) \ {<<n, m>>} /\ <<n, m>> \in Ids \union {<<n, m>>}
    OBVIOUS
  <2>2. ~\E e \in edges : (e[1] = <<n, m>>) # (e[2] = n /\ e[3] = m)
    BY DEF ModelInv
  <2>3. misused' = (misused \/ <<n, m>> \in (Nodes \X Nodes) \ {<<n, m>>}
                            \/ \E e \in edges : (e[1] = <<n, m>>) # (e[2] = n /\ e[3] = m))
    BY <1>1, <2>1, <2>2 DEF ModelInv, GraphInv, GraphTypes
  <2> QED
    BY <1>1, <2>1, <2>3, AddEdgeKeeps DEF ModelInv
<1>3. \A e \in edges' : e[1] = <<e[2], e[3]>>
  BY <1>1 DEF ModelInv
<1>4. Acyclic' /\ n \notin Reached(m)
  BY <1>1, AcyclicWithEdge DEF ModelInv
<1>5. dirty \union taken \subseteq Nodes
  BY DEF ModelInv, GraphInv, GraphTypes
<1>6. \A d \in dirty \union taken : Reached(d) \subseteq Reached(d)'
  BY <1>1, <1>4, <1>5, ReachedWithEdge
<1>7. Caused'
  BY <1>1, <1>6 DEF ModelInv, Caused
<1> QED
  BY <1>1, <1>2, <1>3, <1>4, <1>7 DEF ModelInv

\* What a plan is: everything that depends on the changed parameters, each behind what
\* it is calculated from.
LEMMA PlanIs ==
    ASSUME GraphAssumption, ModelInv, NEW changed \in SUBSET nodes
    PROVE  LET A == UNION {Reached(d) : d \in changed}
               plan == Plan(changed)
           IN  /\ plan \in Seq(Nodes) /\ Range(plan) = {plan[i] : i \in 1..Len(plan)}
               /\ {plan[i] : i \in 1..Len(plan)} = A \ changed
               /\ changed \subseteq A /\ A \subseteq Nodes /\ \A p \in A : Reached(p) \subseteq A /\ Successors(p) \subseteq A
               /\ \A i, j \in 1..Len(plan) : <<plan[j], plan[i]>> \in out => j < i
<1> DEFINE A == UNION {Reached(d) : d \in changed}
           plan == Plan(changed)
           S == (UNION {Dependents(n) : n \in changed \intersect nodes}) \ changed
<1>1. nodes \subseteq Nodes /\ changed \subseteq nodes /\ ~misused /\ GraphInv /\ Faithful
  BY DEF ModelInv, GraphInv, GraphTypes
<1>2. /\ \A q : q \in Nodes => q \in Reached(q) /\ Reached(q) \subseteq Nodes
      /\ \A q : q \in Nodes => \A p \in Reached(q) : p \in Nodes /\ Successors(p) \subseteq Reached(q) /\ Reached(p) \subseteq Reached(q)
  BY ReachRules, ReachedFurther DEF ReachRule
<1>3. \A q \in nodes : Reached(q) \subseteq nodes
  <2> TAKE q \in nodes
  <2>1. \A p \in nodes : Successors(p) \subseteq nodes
    BY <1>1, FaithfulSays DEF Successors
  <2> QED
    BY <1>1, <2>1, ReachRules DEF ReachRule
<1>4. S = A \ changed /\ S \subseteq nodes
  <2>0. changed \intersect nodes = changed
    BY <1>1
  <2>1. S = A \ changed
    <3>1. \A x \in S : x \in A \ changed
      BY <2>0 DEF Dependents
    <3>2. ASSUME NEW x \in A, x \notin changed PROVE x \in S
      <4>1. PICK d \in changed : x \in Reached(d)
        BY <3>2
      <4>2. x \in Dependents(d)
        BY <3>2, <4>1 DEF Dependents
      <4> QED
        BY <2>0, <3>2, <4>2
    <3>3. \A x \in S : x \in A /\ x \notin changed
      BY <3>1
    <3> HIDE DEF S, A
    <3> QED
      BY <3>2, <3>3
  <2>2. A \subseteq nodes
    BY <1>1, <1>3
  <2> QED
    BY <2>1, <2>2
<1>5. /\ Kahn \in Seq(nodes) /\ \A i, j \in 1..Len(Kahn) : Kahn[i] = Kahn[j] => i = j
      /\ {Kahn[i] : i \in 1..Len(Kahn)} = nodes
      /\ \A i, j \in 1..Len(Kahn) : <<Kahn[j], Kahn[i]>> \in out => j < i
  <2>1. ~HasCycle
    BY <1>1, SortHolds DEF ModelInv, Acyclic
  <2> QED
    BY <1>1, <2>1, SortHolds
<1>6. plan = Selected(Kahn, S)
  BY DEF Plan, S, plan
<1> HIDE DEF plan, S
<1>7. KeptUpTo(Kahn, S, Len(Kahn), plan)
  <2>1. Kahn \in Seq(nodes)
    BY <1>5
  <2> QED
    BY <1>5, <1>6, <2>1, KeptIs
<1>8. plan \in Seq(S) /\ \A i \in 1..Len(plan) : plan[i] \in S
  BY <1>7 DEF KeptUpTo
<1>9. \A x \in S : \E i \in 1..Len(plan) : plan[i] = x
  <2> TAKE x \in S
  <2>0. x \in {Kahn[h] : h \in 1..Len(Kahn)}
    BY <1>4, <1>5
  <2>1. PICK h \in 1..Len(Kahn) : Kahn[h] = x
    BY <2>0
  <2> QED
    BY <1>7, <2>1 DEF KeptUpTo
<1>10. {plan[i] : i \in 1..Len(plan)} = S /\ Range(plan) = {plan[i] : i \in 1..Len(plan)}
  BY <1>8, <1>9, SMTT(30) DEF Range
<1>11. \A i, j \in 1..Len(plan) : <<plan[j], plan[i]>> \in out => j < i
  <2> TAKE i, j \in 1..Len(plan)
  <2> HAVE <<plan[j], plan[i]>> \in out
  <2>1. PICK g \in 1..Len(Kahn) : plan[j] = Kahn[g]
    BY <1>7 DEF KeptUpTo
  <2>2. PICK h \in 1..Len(Kahn) : plan[i] = Kahn[h]
    BY <1>7 DEF KeptUpTo
  <2>3. g < h
    BY <1>5, <2>1, <2>2
  <2> QED
    BY <1>7, <2>1, <2>2, <2>3 DEF KeptUpTo
<1>12. plan \in Seq(Nodes)
  <2>1. S \subseteq Nodes
    BY <1>1, <1>4
  <2> QED
    BY <1>8, <2>1
<1>13. changed \subseteq A /\ A \subseteq Nodes /\ \A p \in A : Reached(p) \subseteq A /\ Successors(p) \subseteq A
  BY <1>1, <1>2
<1> QED
  BY <1>4, <1>10, <1>11, <1>12, <1>13 DEF plan

\* The states a rebuild goes through: what the formulas up to an index of the plan leave.
EffectsAre(e, plan) ==
    /\ e[0] = [stale |-> stale, manual |-> manual]
    /\ \A i \in 1..Len(plan) : e[i] = Recompute(e[i - 1], plan[i])
    /\ \A i \in 0..Len(plan) : e[i].stale \union e[i].manual \subseteq Derived

\* The effects of a plan, formula by formula.
LEMMA EffectsIs ==
    ASSUME stale \union manual \subseteq Derived, NEW plan \in Seq(Nodes)
    PROVE  EffectsAre(Effects(plan), plan)
<1> DEFINE N == Len(plan)
           V == [stale : SUBSET Derived, manual : SUBSET Derived]
           a == [stale |-> stale, manual |-> manual]
           Step(i, v) == Recompute(v, plan[i])
           Is(e) == e = [i \in 0..N |-> IF i = 0 THEN a ELSE Step(i, e[i - 1])]
           F == [x \in (1..N) \X V |-> Step(x[1], x[2])]
<1>1. N \in Nat
  OBVIOUS
<1>2. \A p, v : v \in V => Recompute(v, p) \in V
  BY DEF Recompute, Calculated
<1>3. a \in V
  OBVIOUS
<1> HIDE DEF V, a
<1>4. StepsIn(F, N, V)
  BY <1>2 DEF StepsIn
<1>5. \A i \in 1..N, v \in V : F[<<i, v>>] = Step(i, v)
  OBVIOUS
<1> HIDE DEF F, Step
<1>6. PICK g \in [0..N -> V] : g[0] = a /\ \A i \in 1..N : g[i] = F[<<i, g[i - 1]>>]
  <2> HIDE DEF N
  <2>2. \E g : Iterates(g, N, V, a, F)
    BY <1>1, <1>3, <1>4, Iteration
  <2> QED
    BY <2>2 DEF Iterates
<1>7. \A i \in 1..N : g[i] = Step(i, g[i - 1])
  <2>1. \A i \in 1..N : i - 1 \in 0..N
    BY <1>1
  <2> QED
    BY <1>5, <1>6, <2>1
<1>8. Is(g)
  <2>1. \A i \in 0..N : i = 0 \/ i \in 1..N
    BY <1>1
  <2> HIDE DEF N
  <2>2. g = [i \in 0..N |-> g[i]]
    BY <1>6
  <2>3. \A i \in 0..N : g[i] = IF i = 0 THEN a ELSE Step(i, g[i - 1])
    BY <1>6, <1>7, <2>1
  <2> QED
    BY <2>2, <2>3
<1> DEFINE e == CHOOSE e : Is(e)
<1>9. Is(e)
  <2> HIDE DEF Is
  <2> QED
    BY <1>8
<1>10. Effects(plan) = e
  BY DEF Effects, Step, a
<1> HIDE DEF e
<1>11. e[0] = a /\ \A i \in 1..N : e[i] = Step(i, e[i - 1])
  <2>1. 0 \in 0..N /\ \A i \in 1..N : i \in 0..N /\ i # 0
    BY <1>1
  <2> HIDE DEF N
  <2> QED
    BY <1>9, <2>1
<1>12. \A i \in 0..N : e[i] \in V
  <2> DEFINE Good == {i \in 0..N : e[i] \in V}
  <2>1. 0 \in Good
    BY <1>1, <1>3, <1>11
  <2>2. ASSUME NEW i \in 0..N, i \in Good, i < N PROVE i + 1 \in Good
    <3>1. i + 1 \in 1..N /\ (i + 1) - 1 = i /\ i + 1 \in 0..N
      BY <1>1, <2>2
    <3> QED
      BY <1>2, <1>11, <2>2, <3>1 DEF Step
  <2>3. \A i \in 0..N : i \in Good
    <3> HIDE DEF Good, N
    <3> QED
      BY <1>1, <2>1, <2>2, Induction
  <2> QED
    BY <2>3
<1> QED
  BY <1>10, <1>11, <1>12 DEF EffectsAre, Step, a, V

\* What a rebuild touches stays within a set that holds its causes and what depends on
\* them, and a formula that was run stays right: what makes values stale later comes
\* behind.
LEMMA EffectsHold ==
    ASSUME NEW C \in SUBSET Nodes, stale \union manual \subseteq C,
           \A p \in C : Successors(p) \subseteq C,
           NEW plan \in Seq(Nodes), NEW e, EffectsAre(e, plan),
           \A i, j \in 1..Len(plan) : <<plan[j], plan[i]>> \in out => j < i,
           NEW k \in 0..Len(plan)
    PROVE  /\ e[k].stale \union e[k].manual \subseteq C
           /\ \A j \in 1..k : plan[j] \notin e[k].stale \union e[k].manual
<1> DEFINE N == Len(plan)
           Off(i) == e[i].stale \union e[i].manual
           Held(i) == Off(i) \subseteq C /\ \A j \in 1..i : plan[j] \notin Off(i)
           Good == {i \in 0..N : Held(i)}
<1>1. N \in Nat
  OBVIOUS
<1>2. 0 \in Good
  <2>1. 0 \in 0..N
    BY <1>1
  <2> QED
    BY <2>1 DEF EffectsAre
<1>3. ASSUME NEW i \in 0..N, i \in Good, i < N PROVE i + 1 \in Good
  <2>1. /\ i + 1 \in 1..N /\ (i + 1) - 1 = i /\ i + 1 \in 0..N
        /\ \A j \in 1..(i + 1) : j \in 1..N /\ ~(i + 1 < j)
        /\ \A j \in 1..(i + 1) : j \in 1..i \/ j = i + 1
    BY <1>1, <1>3
  <2> DEFINE p == plan[i + 1]
  <2>2. /\ e[i + 1] = Recompute(e[i], p) /\ Off(i) \subseteq Derived
        /\ Off(i) \subseteq C /\ \A j \in 1..i : plan[j] \notin Off(i)
    BY <1>3, <2>1 DEF EffectsAre
  <2>3. \A j \in 1..(i + 1) : plan[j] \notin Successors(p)
    BY <2>1 DEF Successors
  <2> HIDE DEF p, N
  <2>4. CASE p \notin Derived
    <3>1. e[i + 1] = e[i]
      BY <2>2, <2>4 DEF Recompute
    <3>2. \A j \in 1..(i + 1) : plan[j] \notin Off(i)
      BY <2>1, <2>2, <2>4 DEF p
    <3> QED
      BY <2>1, <2>2, <3>1, <3>2
  <2>5. CASE p \in Derived
    <3>1. /\ e[i + 1].stale \subseteq (e[i].stale \ {p}) \union
                                      (IF p \in Off(i) THEN Successors(p) ELSE {})
          /\ e[i + 1].manual = e[i].manual \ {p}
      BY <2>2, <2>5 DEF Recompute, Calculated
    <3>2. \A j \in 1..(i + 1) : plan[j] \notin Off(i) \ {p}
      BY <2>1, <2>2 DEF p
    <3>3. \A j \in 1..(i + 1) : plan[j] \notin Off(i + 1)
      BY <2>3, <3>1, <3>2
    <3>4. Off(i + 1) \subseteq C
      BY <2>2, <3>1
    <3> QED
      BY <2>1, <3>3, <3>4
  <2> QED
    BY <2>4, <2>5
<1>4. k \in Good
  <2> HIDE DEF Good, N
  <2>1. k \in 0..N
    BY DEF N
  <2> QED
    BY <1>1, <1>2, <1>3, <2>1, Induction
<1> QED
  BY <1>4

\* A rebuild that gets to the end leaves nothing stale below the changed parameters but
\* those with a formula among them, which are taken then; one that fails on the way
\* leaves every cause in its place.
LEMMA RebuildKeeps ==
    ASSUME GraphAssumption, ModelInv, NEW changed \in SUBSET nodes, Rebuild(changed)
    PROVE  ModelInv'
<1> DEFINE A == UNION {Reached(d) : d \in changed}
           C == UNION {Reached(d) : d \in dirty \union taken}
           plan == Plan(changed)
           e == Effects(plan)
<1>1. /\ plan \in Seq(Nodes) /\ Range(plan) = {plan[i] : i \in 1..Len(plan)}
      /\ {plan[i] : i \in 1..Len(plan)} = A \ changed
      /\ changed \subseteq A /\ A \subseteq Nodes /\ \A p \in A : Reached(p) \subseteq A /\ Successors(p) \subseteq A
      /\ \A i, j \in 1..Len(plan) : <<plan[j], plan[i]>> \in out => j < i
  BY PlanIs
<1>2. C \in SUBSET Nodes /\ stale \union manual \subseteq C /\ \A p \in C : Successors(p) \subseteq C
  <2>1. dirty \union taken \subseteq Nodes
    BY DEF ModelInv, GraphInv, GraphTypes
  <2>2. \A d \in dirty \union taken :
          Reached(d) \subseteq Nodes /\ \A p \in Reached(d) : Successors(p) \subseteq Reached(d)
    BY <2>1, ReachRules DEF ReachRule
  <2> QED
    BY <2>2 DEF ModelInv, Caused
<1>3. PICK k \in 0..Len(plan) :
        /\ stale' = e[k].stale /\ manual' = e[k].manual
        /\ \/ /\ k = Len(plan) /\ MarkClean(Range(plan) \union changed)
              /\ taken' = (taken \ Range(plan)) \union Calculated(changed)
           \/ UNCHANGED <<dirty, taken>>
        /\ UNCHANGED <<nodes, edges, out, in, saved, misused>>
  BY DEF Rebuild
<1>4. stale \union manual \subseteq Derived /\ taken \subseteq nodes
  BY DEF ModelInv
<1>5. \A q \in C : \E d \in dirty \union taken : q \in Reached(d)
  OBVIOUS
<1> HIDE DEF plan, A, C
<1>6. EffectsAre(e, plan)
  BY <1>1, <1>4, EffectsIs
<1> HIDE DEF e
<1>7. /\ (stale \union manual)' \subseteq C
      /\ \A j \in 1..k : plan[j] \notin (stale \union manual)'
  BY <1>1, <1>2, <1>3, <1>6, EffectsHold
<1>8. (stale \union manual)' \subseteq Derived /\ dirty' \subseteq dirty /\ taken' \subseteq nodes'
  <2>1. e[k].stale \union e[k].manual \subseteq Derived
    BY <1>6 DEF EffectsAre
  <2> QED
    BY <1>3, <1>4, <2>1 DEF MarkClean, Calculated
<1>9. GraphInv' /\ ~misused' /\ saved' = NoGraph /\ \A f \in edges' : f[1] = <<f[2], f[3]>>
  <2>1. GraphTypes'
    BY <1>3, <1>8 DEF ModelInv, GraphInv, GraphTypes
  <2>2. Regular(nodes, edges)' /\ Faithful' /\ Regular(saved.nodes, saved.edges)'
    BY <1>3 DEF ModelInv, GraphInv, Faithful
  <2> QED
    BY <1>3, <2>1, <2>2 DEF ModelInv, GraphInv
<1>10. Acyclic' /\ \A n : Reached(n)' = Reached(n)
  BY <1>3, SameReach DEF ModelInv
<1>11. Caused'
  <2> SUFFICES ASSUME NEW q \in (stale \union manual)'
               PROVE  \E d \in (dirty \union taken)' : q \in Reached(d)
    BY <1>10 DEF Caused
  <2>1. PICK d \in dirty \union taken : q \in Reached(d)
    BY <1>5, <1>7
  <2>2. CASE UNCHANGED <<dirty, taken>>
    BY <2>1, <2>2
  <2>3. CASE /\ k = Len(plan) /\ MarkClean(Range(plan) \union changed)
             /\ taken' = (taken \ Range(plan)) \union Calculated(changed)
    <3>1. dirty' = dirty \ A /\ taken \ A \subseteq taken' /\ Calculated(changed) \subseteq taken'
      BY <1>1, <2>3 DEF MarkClean
    <3>2. CASE q \in changed
      <4>1. q \in Calculated(changed) /\ q \in Nodes
        BY <1>1, <1>8, <3>2 DEF Calculated
      <4>2. q \in Reached(q)
        BY <4>1, ReachRules DEF ReachRule
      <4> QED
        BY <3>1, <4>1, <4>2
    <3>3. CASE q \notin changed
      <4>1. q \notin A
        BY <1>1, <1>7, <2>3, <3>3
      <4>2. d \notin A
        BY <1>1, <2>1, <4>1
      <4> QED
        BY <2>1, <3>1, <4>2
    <3> QED
      BY <3>2, <3>3
  <2> QED
    BY <1>3, <2>2, <2>3
<1> QED
  BY <1>8, <1>9, <1>10, <1>11 DEF ModelInv

\* Every operation of the model keeps the invariant.
LEMMA ModelStep ==
    ASSUME GraphAssumption, ModelInv, [ModelNext]_modelVars
    PROVE  ModelInv'
<1>1. CASE \E p \in Nodes : Add(p) \/ Set(p)
  BY <1>1, AddKeeps, SetKeeps
<1>2. CASE \E p, q \in Nodes : AddDependency(p, q)
  BY <1>2, AddDependencyKeeps
<1>3. CASE \E changed \in SUBSET nodes : Rebuild(changed)
  BY <1>3, RebuildKeeps
<1>4. CASE UNCHANGED modelVars
  <2>1. UNCHANGED <<nodes, dirty, edges, out, in, saved, misused, stale, manual, taken>>
    BY <1>4 DEF modelVars, graphVars, graph
  <2>2. Acyclic' /\ \A n : Reached(n)' = Reached(n)
    BY <2>1, SameReach DEF ModelInv
  <2>3. GraphInv'
    <3>1. GraphTypes'
      BY <2>1 DEF ModelInv, GraphInv, GraphTypes
    <3>2. Regular(nodes, edges)' /\ Faithful' /\ Regular(saved.nodes, saved.edges)'
      BY <2>1 DEF ModelInv, GraphInv, Faithful
    <3> QED
      BY <3>1, <3>2 DEF GraphInv
  <2> QED
    BY <2>1, <2>2, <2>3 DEF ModelInv, Caused
<1> QED
  BY <1>1, <1>2, <1>3, <1>4 DEF ModelNext

\* The invariant implies that the model can be rebuilt and that stale values have a trace.
LEMMA ModelMeans ==
    ASSUME GraphAssumption, ModelInv
    PROVE  RebuildRepairs
<1>1. ~HasCycle
  <2>1. nodes \subseteq Nodes /\ GraphInv /\ ~misused
    BY DEF ModelInv, GraphInv, GraphTypes
  <2> QED
    BY <2>1, SortHolds DEF ModelInv, Acyclic
<1>2. DirtyExplains
  BY DEF DirtyExplains, ModelInv, Caused, Dependents
<1> QED
  BY <1>1, <1>2 DEF RebuildRepairs, AlwaysRebuildable

\* Whatever parameters are added, set, made to depend on each other and rebuilt, in part
\* or with a formula that fails: no cycle ever keeps the model from being rebuilt, and
\* what does not fit its formula is, or depends on, a parameter that is still dirty or
\* that a rebuild was told to take as it is (model.go, scheduler.go).
THEOREM ModelRepaired ==
    ASSUME GraphAssumption
    PROVE  ModelSpec => []RebuildRepairs
<1>1. ModelInit => ModelInv
  BY ModelInitHolds
<1>2. ModelInv /\ [ModelNext]_modelVars => ModelInv'
  BY ModelStep
<1>3. ModelInv => RebuildRepairs
  BY ModelMeans
<1> QED
  BY <1>1, <1>2, <1>3, PTL DEF ModelSpec

-----------------------------------------------------------------------------
(* The price.  In the range of the integers no sum and no product wraps     *)
(* (MachineInt, MulRateIs), so the breakdown is the chain of exact shares   *)
(* (BreakdownIs); each share is off by half a minor unit at most, carried   *)
(* on by the factors behind it (Carried, FourRoundings).  What is charged   *)
(* is never negative (StairIsCharged, ProjectIsCharged), so that the lines  *)
(* of a breakdown always add up to it (LinesAreRight).                      *)

\* Remainders and quotients.
LEMMA RemainderOfLess ==
    ASSUME NEW a \in Nat, NEW b \in Nat, a < b
    PROVE  a % b = a
BY Z3

LEMMA RemainderRange ==
    ASSUME NEW a \in Int, NEW b \in Nat, 0 < b
    PROVE  a % b \in Int /\ 0 <= a % b /\ a % b < b
BY Z3

LEMMA QuotientBetween ==
    ASSUME NEW a \in Int, NEW b \in Int, b > 0
    PROVE  a \div b \in Int /\ b * (a \div b) <= a /\ a < b * (a \div b) + b
BY Z3

LEMMA QuotientUnique ==
    ASSUME NEW a \in Int, NEW b \in Int, b > 0, NEW q \in Int, b * q <= a, a < b * q + b
    PROVE  a \div b = q
BY Z3

\* Integers of the machine: what is in the range stays what it is.
LEMMA MachineInt ==
    ASSUME PricingAssumption, NEW x \in Int
    PROVE  /\ Wrap(x) \in Int /\ -MaxInt - 1 <= Wrap(x) /\ Wrap(x) <= MaxInt
           /\ -MaxInt - 1 <= x /\ x <= MaxInt => Wrap(x) = x /\ ToInt(x) = x
           /\ x >= 0 => ToInt(x) \in Int /\ (ToInt(x) >= 0 => ToInt(x) = x)
<1> DEFINE b == 2 * MaxInt + 2
           a == x + MaxInt + 1
<1>1. MaxInt \in Nat /\ b \in Nat /\ 0 < b /\ a \in Int
  BY DEF PricingAssumption
<1>2. Wrap(x) = (a % b) - MaxInt - 1
  BY DEF Wrap
<1>3. -MaxInt - 1 <= x /\ x <= MaxInt => a \in Nat /\ a < b
  BY <1>1
<1>4. ToInt(x) = (IF x <= MaxInt THEN x ELSE -MaxInt - 1)
  BY DEF ToInt
<1> HIDE DEF a, b
<1>5. a % b \in Int /\ 0 <= a % b /\ a % b < b
  BY <1>1, RemainderRange
<1>6. Wrap(x) \in Int /\ -MaxInt - 1 <= Wrap(x) /\ Wrap(x) <= MaxInt
  BY <1>1, <1>2, <1>5 DEF b
<1>7. -MaxInt - 1 <= x /\ x <= MaxInt => Wrap(x) = x
  <2> HAVE -MaxInt - 1 <= x /\ x <= MaxInt
  <2>1. a % b = a
    BY <1>1, <1>3, RemainderOfLess
  <2> QED
    BY <1>1, <1>2, <2>1 DEF a
<1> QED
  BY <1>1, <1>4, <1>6, <1>7

\* A product of natural numbers.
LEMMA ProductOf ==
    ASSUME NEW m \in Nat, NEW r \in Nat
    PROVE  m * r \in Nat /\ 2 * m * r = 2 * (m * r)
BY Z3

\* A share is the nearest whole number to it.
LEMMA ShareIs ==
    ASSUME PricingAssumption, NEW m \in Nat, NEW r \in Nat
    PROVE  /\ Share(m, r) \in Nat
           /\ 2 * (RateScale * Share(m, r)) <= 2 * (m * r) + RateScale
           /\ 2 * (m * r) < 2 * (RateScale * Share(m, r)) + RateScale
<1> DEFINE x == m * r
           S == RateScale
           q == Share(m, r)
           a == 2 * x + S
           b == 2 * S
<1>1. S \in Nat /\ S > 0 /\ x \in Nat /\ 2 * m * r = 2 * x
  BY ProductOf DEF PricingAssumption
<1>2. q = a \div b
  BY <1>1 DEF Share
<1>3. a \in Int /\ b \in Int /\ b > 0 /\ a >= 0
  BY <1>1
<1> HIDE DEF q, a, b, x
<1>4. q \in Int /\ b * q <= a /\ a < b * q + b
  BY <1>2, <1>3, QuotientBetween
<1>5. q >= 0
  BY <1>2, <1>3, Z3
<1>6. b * q = 2 * (S * q)
  <2> HIDE DEF S
  <2> QED
    BY <1>1, <1>4, Z3 DEF b
<1>7. S * q \in Int
  BY <1>1, <1>4
<1> DEFINE y == S * q
<1>8. 2 * y <= 2 * x + S /\ 2 * x + S < 2 * y + 2 * S
  BY <1>4, <1>6 DEF a, b
<1> HIDE DEF y, S
<1>9. 2 * y <= 2 * x + S /\ 2 * x < 2 * y + S
  BY <1>1, <1>7, <1>8 DEF y
<1> QED
  BY <1>4, <1>5, <1>9 DEF y, S, q, x

\* In the range of the integers that is what MulRate calculates.
LEMMA MulRateIs ==
    ASSUME PricingAssumption, NEW m \in Nat, NEW r \in Nat, m * r + RateScale <= MaxInt
    PROVE  MulRate(m, r) = Share(m, r)
<1> DEFINE x == m * r
           S == RateScale
           h == S \div 2
           q == Share(m, r)
<1>1. S \in Nat /\ S > 0 /\ x \in Nat /\ MaxInt \in Nat /\ x + S <= MaxInt
  BY ProductOf DEF PricingAssumption
<1>2. h \in Int /\ 2 * h <= S /\ S < 2 * h + 2 /\ h >= 0
  BY <1>1
<1>3. /\ q \in Nat /\ 2 * (S * q) <= 2 * x + S /\ 2 * x < 2 * (S * q) + S
  BY ShareIs
<1> HIDE DEF x, S, h, q
<1>4. Wrap(x) = x /\ Wrap(x + h) = x + h
  <2>1. /\ -MaxInt - 1 <= x /\ x <= MaxInt /\ x \in Int
        /\ -MaxInt - 1 <= x + h /\ x + h <= MaxInt /\ x + h \in Int
    BY <1>1, <1>2
  <2> QED
    BY <2>1, MachineInt
<1>5. (x + h) \div S = q
  <2>0. S * q \in Int
    BY <1>1, <1>3
  <2> DEFINE y == S * q
  <2>1. y \in Int /\ 2 * y <= 2 * x + S /\ 2 * x < 2 * y + S
    BY <1>3, <2>0
  <2> HIDE DEF y
  <2>2. y <= x + h /\ x + h < y + S
    BY <1>1, <1>2, <2>1
  <2> QED
    BY <1>1, <1>2, <1>3, <2>2, QuotientUnique DEF y
<1>6. MulRate(m, r) = Quot(Wrap(x + h), S)
  BY <1>1, <1>4 DEF MulRate, x, S, h
<1> QED
  BY <1>1, <1>2, <1>4, <1>5, <1>6 DEF Quot, q

\* At most half of c away from zero.
Near(v, c) == 2 * v <= c /\ -(2 * v) <= c

\* A multiple is as near, in multiples.
LEMMA NearTimes ==
    ASSUME NEW a \in Nat, NEW v \in Int, NEW c \in Nat, Near(v, c)
    PROVE  Near(a * v, a * c)
<1>1. c - 2 * v \in Nat /\ c + 2 * v \in Nat
  BY DEF Near
<1> DEFINE p == c - 2 * v
           q == c + 2 * v
<1>2. a * p >= 0 /\ a * q >= 0
  <2> HIDE DEF p, q
  <2>1. p \in Nat /\ q \in Nat
    BY <1>1 DEF p, q
  <2> QED
    BY <2>1, Z3
<1>3. a * p = a * c - 2 * (a * v) /\ a * q = a * c + 2 * (a * v)
  BY Z3
<1>4. a * c \in Int /\ a * v \in Int
  BY Z3
<1> HIDE DEF p, q
<1> QED
  BY <1>2, <1>3, <1>4 DEF Near

\* A sum is as near as both terms.
LEMMA NearSum ==
    ASSUME NEW v \in Int, NEW w \in Int, NEW c \in Int, NEW d \in Int, Near(v, c), Near(w, d)
    PROVE  Near(v + w, c + d)
BY DEF Near

\* An error of the exact product is carried on by the next factor, and the rounding of
\* that comes on top: y stands for x / a, and z for y * f / S.
LEMMA Carried ==
    ASSUME NEW a \in Nat, NEW S \in Nat, NEW f \in Int, NEW g \in Nat, g = f \/ g = -f,
           NEW x \in Int, NEW y \in Int, NEW z \in Int, NEW c \in Nat,
           Near(a * y - x, c), Near(S * z - y * f, S)
    PROVE  Near(a * (S * z) - x * f, a * S + g * c) /\ a * S + g * c \in Nat /\ x * f \in Int /\ a * S \in Nat
<1> DEFINE u == S * z - y * f
           v == a * y - x
<1>1. u \in Int /\ v \in Int /\ Near(u, S) /\ Near(v, c)
  OBVIOUS
<1>2. a * (S * z) - x * f = a * u + f * v
  BY Z3
<1>3. f * v = g * v \/ f * v = g * (-v)
  <2> HIDE DEF v
  <2> QED
    BY <1>1, Z3
<1>4. a * S \in Nat /\ g * c \in Nat /\ x * f \in Int
  BY Z3
<1> HIDE DEF u, v
<1>5. Near(a * u, a * S)
  BY <1>1, NearTimes
<1>6. Near(f * v, g * c)
  <2>1. -v \in Int /\ Near(-v, c)
    BY <1>1 DEF Near
  <2>2. Near(g * v, g * c) /\ Near(g * (-v), g * c)
    BY <1>1, <2>1, NearTimes
  <2> QED
    BY <1>3, <2>2
<1>7. a * u \in Int /\ f * v \in Int
  BY <1>1, Z3
<1>8. Near(a * u + f * v, a * S + g * c)
  <2> DEFINE p == a * u
             q == f * v
             h == a * S
             k == g * c
  <2>1. p \in Int /\ q \in Int /\ h \in Int /\ k \in Int /\ Near(p, h) /\ Near(q, k)
    BY <1>4, <1>5, <1>6, <1>7
  <2> HIDE DEF p, q, h, k
  <2>2. Near(p + q, h + k)
    BY <2>1, NearSum
  <2> QED
    BY <2>2 DEF p, q, h, k
<1>9. a * S + g * c \in Nat
  BY <1>4
<1>10. Near(a * (S * z) - x * f, a * S + g * c)
  BY <1>2, <1>8, Zenon
<1> QED
  BY <1>4, <1>9, <1>10

\* The four roundings of the chain.
LEMMA FourRoundings ==
    ASSUME NEW S \in Nat, NEW o \in Nat, NEW m \in Nat, NEW d \in Int, NEW t \in Nat,
           NEW B \in Int, NEW P \in Int, NEW G \in Int, NEW T \in Int, NEW F \in Int,
           Near(S * P - B * o, S), Near(S * G - P * m, S), Near(S * T - G * d, S), Near(S * F - T * t, S)
    PROVE  LET abs == IF d < 0 THEN -d ELSE d
               error == F * S * S * S * S - B * o * m * d * t
               bound == S * m * abs * t + S * S * abs * t + S * S * S * t + S * S * S * S
           IN  2 * error <= bound /\ -2 * error <= bound
<1> DEFINE abs == IF d < 0 THEN -d ELSE d
           c1 == 1 * S + o * 0
           c2 == S * S + m * c1
           c3 == (S * S) * S + abs * c2
           c4 == (S * S * S) * S + t * c3
<1>1. abs \in Nat /\ (abs = d \/ abs = -d)
  OBVIOUS
<1> HIDE DEF abs
<1>2. Near(1 * (S * P) - B * o, c1) /\ c1 \in Nat /\ B * o \in Int
  <2>1. Near(1 * B - B, 0)
    BY DEF Near
  <2> QED
    BY <2>1, Carried
<1> HIDE DEF c1
<1>3. Near(S * (S * G) - (B * o) * m, c2) /\ c2 \in Nat /\ (B * o) * m \in Int /\ S * S \in Nat
  <2> DEFINE x == B * o
  <2>1. x \in Int /\ Near(S * P - x, c1)
    <3>1. 1 * (S * P) = S * P
      BY Z3
    <3> QED
      BY <1>2, <3>1
  <2> HIDE DEF x
  <2>2. Near(S * (S * G) - x * m, c2) /\ c2 \in Nat /\ x * m \in Int /\ S * S \in Nat
    <3>1. m \in Int /\ (m = m \/ m = -m)
      OBVIOUS
    <3>2. Near(S * P - x, c1) /\ Near(S * G - P * m, S) /\ c1 \in Nat
      BY <1>2, <2>1
    <3>3. Near(S * (S * G) - x * m, S * S + m * c1) /\ S * S + m * c1 \in Nat /\ x * m \in Int /\ S * S \in Nat
      BY <2>1, <3>1, <3>2, Carried, Zenon
    <3> QED
      BY <3>3 DEF c2
  <2> QED
    BY <2>2 DEF x
<1> HIDE DEF c2
<1>4. Near((S * S) * (S * T) - ((B * o) * m) * d, c3) /\ c3 \in Nat /\ ((B * o) * m) * d \in Int /\ (S * S) * S \in Nat
  <2> DEFINE x == (B * o) * m
             a == S * S
  <2>1. x \in Int /\ a \in Nat /\ Near(a * G - x, c2)
    <3>1. S * (S * G) = (S * S) * G
      BY Z3
    <3> QED
      BY <1>3, <3>1
  <2> HIDE DEF x, a
  <2>2. Near(a * (S * T) - x * d, a * S + abs * c2) /\ a * S + abs * c2 \in Nat /\ x * d \in Int /\ a * S \in Nat
    BY <1>1, <1>3, <2>1, Carried
  <2> QED
    BY <2>2 DEF x, a
<1> HIDE DEF c3
<1>5. Near((S * S * S) * (S * F) - (((B * o) * m) * d) * t, c4) /\ c4 \in Nat
  <2> DEFINE x == ((B * o) * m) * d
             a == S * S * S
  <2>1. x \in Int /\ a \in Nat /\ Near(a * T - x, c3)
    <3>1. (S * S) * (S * T) = (S * S * S) * T
      BY Z3
    <3> QED
      BY <1>4, <3>1
  <2> HIDE DEF x, a
  <2>2. Near(a * (S * F) - x * t, a * S + t * c3) /\ a * S + t * c3 \in Nat
    <3>1. t \in Int /\ (t = t \/ t = -t)
      OBVIOUS
    <3> QED
      BY <1>4, <2>1, <3>1, Carried, Zenon
  <2> QED
    BY <2>2 DEF x, a
<1>6. (S * S * S) * (S * F) = F * S * S * S * S
  BY Z3
<1>7. c4 = S * m * abs * t + S * S * abs * t + S * S * S * t + S * S * S * S
  <2>1. c1 = S
    BY DEF c1
  <2> QED
    BY <1>1, <2>1, Z3 DEF c2, c3, c4
<1> DEFINE error == F * S * S * S * S - B * o * m * d * t
<1>8. Near(error, c4)
  BY <1>5, <1>6
<1>9. error \in Int
  BY Z3
<1> HIDE DEF error, c4
<1>10. 2 * error <= c4 /\ -2 * error <= c4
  BY <1>5, <1>8, <1>9 DEF Near
<1> QED
  BY <1>7, <1>10 DEF error, abs

\* What is left of an amount when a share is added or taken off.
LEMMA ShareIsNear ==
    ASSUME PricingAssumption, NEW y \in Nat, NEW r \in Nat
    PROVE  /\ Near(RateScale * (y + Share(y, r)) - y * (RateScale + r), RateScale)
           /\ Near(RateScale * (y - Share(y, r)) - y * (RateScale - r), RateScale)
           /\ r <= RateScale => Share(y, r) <= y
<1> DEFINE S == RateScale
           q == Share(y, r)
<1>1. S \in Nat /\ S > 0 /\ y * r \in Nat
  BY ProductOf DEF PricingAssumption
<1>2. q \in Nat /\ 2 * (S * q) <= 2 * (y * r) + S /\ 2 * (y * r) < 2 * (S * q) + S
  BY ShareIs
<1> HIDE DEF S, q
<1>3. /\ S * (y + q) - y * (S + r) = S * q - y * r
      /\ S * (y - q) - y * (S - r) = y * r - S * q
  BY <1>1, <1>2, Z3
<1> DEFINE u == S * q
           v == y * r
<1>4. u \in Int /\ v \in Int /\ 2 * u <= 2 * v + S /\ 2 * v < 2 * u + S
  BY <1>1, <1>2
<1> HIDE DEF u, v
<1>5. Near(u - v, S) /\ Near(v - u, S)
  BY <1>1, <1>4 DEF Near
<1>6. r <= S => q <= y
  <2> HAVE r <= S
  <2> SUFFICES ASSUME y + 1 <= q PROVE FALSE
    BY <1>2
  <2>1. S * (y + 1) <= S * q
    BY <1>1, <1>2, ProductOrder
  <2>2. S * (y + 1) = S * y + S /\ S * y \in Int
    BY <1>1, Z3
  <2>3. y * r <= y * S /\ y * S = S * y
    BY <1>1, ProductOrder
  <2>4. S * y + S <= u /\ v <= S * y
    BY <2>1, <2>2, <2>3 DEF u, v
  <2> DEFINE k == S * y
  <2>5. k \in Int /\ k + S <= u /\ v <= k
    BY <2>2, <2>4
  <2> HIDE DEF k
  <2> QED
    BY <1>1, <1>4, <2>5
<1>7. Near(S * (y + q) - y * (S + r), S) /\ Near(S * (y - q) - y * (S - r), S)
  BY <1>3, <1>5, Zenon DEF u, v
<1> QED
  BY <1>6, <1>7 DEF S, q

\* The chain as it would be without a machine.
ProductionOf(w, share) == Base(w) + Share(Base(w), share["overhead"])
GrossOf(w, share) == ProductionOf(w, share) + Share(ProductionOf(w, share), share["margin"])
PreTaxOf(w, share) == GrossOf(w, share) - Share(GrossOf(w, share), share["discount"])
FinalOf(w, share) == PreTaxOf(w, share) + Share(PreTaxOf(w, share), share["tax"])

\* In the range of the integers the amounts are not negative, and they fit.
LEMMA ChainTypes ==
    ASSUME PricingAssumption, NEW w, w.material \in Int, w.machine \in Int, w.labor \in Int,
           NEW share \in [Shares -> Nat], InRangeFor(w, share)
    PROVE  LET B == Base(w)
               P == ProductionOf(w, share)
               G == GrossOf(w, share)
               T == PreTaxOf(w, share)
           IN  /\ B \in Nat /\ P \in Nat /\ G \in Nat /\ T \in Int
               /\ Share(B, share["overhead"]) \in Nat /\ Share(P, share["margin"]) \in Nat
               /\ Share(G, share["discount"]) \in Nat
               /\ B <= MaxInt /\ P <= MaxInt /\ G <= MaxInt
               /\ G + Share(G, share["discount"]) <= MaxInt
               /\ \A s \in Shares : share[s] \in Nat
               /\ B * share["overhead"] + RateScale <= MaxInt
               /\ P * share["margin"] + RateScale <= MaxInt
               /\ G * share["discount"] + RateScale <= MaxInt
               /\ T >= 0 => /\ Share(T, share["tax"]) \in Nat /\ T + Share(T, share["tax"]) <= MaxInt
                            /\ T * share["tax"] + RateScale <= MaxInt
               /\ share["discount"] <= RateScale => T >= 0
<1> DEFINE B == Base(w)
           P == ProductionOf(w, share)
           G == GrossOf(w, share)
           T == PreTaxOf(w, share)
<1>1. /\ \A s \in Shares : share[s] \in Nat
      /\ share["overhead"] \in Nat /\ share["margin"] \in Nat /\ share["discount"] \in Nat /\ share["tax"] \in Nat
  BY DEF Shares
<1>2. /\ B \in Nat /\ B <= MaxInt /\ Fits(B, share["overhead"]) /\ Fits(P, share["margin"])
      /\ Fits(G, share["discount"]) /\ (T >= 0 => Fits(T, share["tax"]))
  BY DEF InRangeFor, Base, ProductionOf, GrossOf, PreTaxOf
<1>3. Share(B, share["overhead"]) \in Nat /\ P = B + Share(B, share["overhead"])
  BY <1>1, <1>2, ShareIs DEF ProductionOf
<1> HIDE DEF B
<1>4. P \in Nat
  BY <1>2, <1>3
<1>5. Share(P, share["margin"]) \in Nat /\ G = P + Share(P, share["margin"])
  BY <1>1, <1>4, ShareIs DEF GrossOf
<1> HIDE DEF P
<1>6. G \in Nat
  BY <1>4, <1>5
<1>7. Share(G, share["discount"]) \in Nat /\ T = G - Share(G, share["discount"])
  BY <1>1, <1>6, ShareIs DEF PreTaxOf
<1>8. share["discount"] <= RateScale => Share(G, share["discount"]) <= G
  BY <1>1, <1>6, ShareIsNear
<1> HIDE DEF G
<1>9. T \in Int /\ (share["discount"] <= RateScale => T >= 0)
  BY <1>6, <1>7, <1>8
<1> HIDE DEF T
<1>10. T >= 0 => Share(T, share["tax"]) \in Nat
  <2> HAVE T >= 0
  <2>1. T \in Nat
    BY <1>9
  <2> QED
    BY <1>1, <2>1, ShareIs
<1> QED
  BY <1>1, <1>2, <1>3, <1>4, <1>5, <1>6, <1>7, <1>9, <1>10 DEF Fits, B, P, G, T

\* In the range of the integers the breakdown is that chain.
LEMMA BreakdownIs ==
    ASSUME PricingAssumption, NEW w, w.material \in Int, w.machine \in Int, w.labor \in Int,
           NEW share \in [Shares -> Nat], InRangeFor(w, share)
    PROVE  LET b == Breakdown(w, share)
           IN  /\ b.material = w.material /\ b.machine = w.machine /\ b.labor = w.labor
               /\ b.overhead = Share(Base(w), share["overhead"])
               /\ b.production = ProductionOf(w, share)
               /\ b.margin = Share(ProductionOf(w, share), share["margin"])
               /\ b.discount = Share(GrossOf(w, share), share["discount"])
               /\ b.preTax = PreTaxOf(w, share)
               /\ PreTaxOf(w, share) >= 0 =>
                     b.tax = Share(PreTaxOf(w, share), share["tax"]) /\ b.final = FinalOf(w, share)
<1> DEFINE B == Base(w)
           P == ProductionOf(w, share)
           G == GrossOf(w, share)
           T == PreTaxOf(w, share)
           o == Share(B, share["overhead"])
           m == Share(P, share["margin"])
           d == Share(G, share["discount"])
           t == Share(T, share["tax"])
<1>1. /\ B \in Nat /\ P \in Nat /\ G \in Nat /\ T \in Int /\ o \in Nat /\ m \in Nat /\ d \in Nat
      /\ B <= MaxInt /\ P <= MaxInt /\ G <= MaxInt /\ G + d <= MaxInt
      /\ (T >= 0 => t \in Nat /\ T + t <= MaxInt)
      /\ share["overhead"] \in Nat /\ share["margin"] \in Nat /\ share["discount"] \in Nat /\ share["tax"] \in Nat
      /\ MaxInt \in Nat
  BY ChainTypes DEF Shares, PricingAssumption
<1>2. P = B + o /\ G = P + m /\ T = G - d /\ FinalOf(w, share) = T + t
  BY DEF ProductionOf, GrossOf, PreTaxOf, FinalOf
<1>3. /\ MulRate(B, share["overhead"]) = o /\ MulRate(P, share["margin"]) = m
      /\ MulRate(G, share["discount"]) = d /\ (T >= 0 => MulRate(T, share["tax"]) = t)
  <2>1. /\ B * share["overhead"] + RateScale <= MaxInt /\ P * share["margin"] + RateScale <= MaxInt
        /\ G * share["discount"] + RateScale <= MaxInt
        /\ (T >= 0 => T * share["tax"] + RateScale <= MaxInt)
    BY ChainTypes
  <2> HIDE DEF B, P, G, T
  <2> QED
    BY <1>1, <2>1, MulRateIs DEF o, m, d, t
<1>4. Wrap(Wrap(w.material + w.machine) + w.labor) = B
  <2>1. /\ w.material + w.machine \in Int /\ w.material + w.machine >= 0
        /\ w.material + w.machine <= MaxInt /\ B = w.material + w.machine + w.labor
    BY <1>1 DEF InRangeFor, Base
  <2>2. Wrap(w.material + w.machine) = w.material + w.machine
    BY <1>1, <2>1, MachineInt
  <2> HIDE DEF B
  <2>3. Wrap(B) = B
    BY <1>1, MachineInt
  <2> QED
    BY <2>1, <2>2, <2>3
<1> HIDE DEF B, P, G, T, o, m, d, t
<1>5. Wrap(B + o) = P /\ Wrap(P + m) = G /\ Wrap(G - d) = T /\ (T >= 0 => Wrap(T + t) = T + t)
  <2>1. -MaxInt - 1 <= T /\ T <= MaxInt
    BY <1>1, <1>2
  <2>2. Wrap(P) = P /\ Wrap(G) = G /\ Wrap(T) = T
    BY <1>1, <2>1, MachineInt
  <2>3. T >= 0 => Wrap(T + t) = T + t
    <3> HAVE T >= 0
    <3>1. T + t \in Int /\ -MaxInt - 1 <= T + t /\ T + t <= MaxInt
      BY <1>1
    <3> QED
      BY <3>1, MachineInt
  <2> QED
    BY <1>2, <2>2, <2>3
<1> DEFINE b == Breakdown(w, share)
<1>6. b = [material |-> w.material, machine |-> w.machine, labor |-> w.labor,
           overhead |-> o, production |-> P, margin |-> m, discount |-> d, preTax |-> T,
           tax |-> MulRate(T, share["tax"]), final |-> Wrap(T + MulRate(T, share["tax"]))]
  BY <1>3, <1>4, <1>5, Zenon DEF Breakdown
<1> HIDE DEF b
<1>7. /\ b.material = w.material /\ b.machine = w.machine /\ b.labor = w.labor
      /\ b.overhead = o /\ b.production = P /\ b.margin = m /\ b.discount = d /\ b.preTax = T
      /\ b.tax = MulRate(T, share["tax"]) /\ b.final = Wrap(T + MulRate(T, share["tax"]))
  BY <1>6
<1>8. T >= 0 => b.tax = t /\ b.final = FinalOf(w, share)
  BY <1>2, <1>3, <1>5, <1>7
<1> QED
  BY <1>7, <1>8 DEF b, B, P, G, T, o, m, d, t

\* The chain is exact up to its four roundings.
LEMMA ChainIsExact ==
    ASSUME PricingAssumption, NEW w, w.material \in Int, w.machine \in Int, w.labor \in Int,
           NEW share \in [Shares -> Nat], InRangeFor(w, share), PreTaxOf(w, share) >= 0
    PROVE  ExactFor(w, share, FinalOf(w, share))
<1> DEFINE B == Base(w)
           P == ProductionOf(w, share)
           G == GrossOf(w, share)
           T == PreTaxOf(w, share)
           F == FinalOf(w, share)
           S == RateScale
           o == S + share["overhead"]
           m == S + share["margin"]
           d == S - share["discount"]
           t == S + share["tax"]
<1>1. /\ B \in Nat /\ P \in Nat /\ G \in Nat /\ T \in Nat
      /\ share["overhead"] \in Nat /\ share["margin"] \in Nat /\ share["discount"] \in Nat /\ share["tax"] \in Nat
      /\ S \in Nat
  BY ChainTypes DEF Shares, PricingAssumption
<1>2. Share(T, share["tax"]) \in Nat /\ F \in Int
  <2>1. Share(T, share["tax"]) \in Nat
    BY ChainTypes
  <2> QED
    BY <1>1, <2>1 DEF FinalOf
<1>3. o \in Nat /\ m \in Nat /\ d \in Int /\ t \in Nat
  BY <1>1
<1>4. /\ P = B + Share(B, share["overhead"]) /\ G = P + Share(P, share["margin"])
      /\ T = G - Share(G, share["discount"]) /\ F = T + Share(T, share["tax"])
  BY DEF ProductionOf, GrossOf, PreTaxOf, FinalOf
<1> HIDE DEF B, P, G, T, F
<1>5. Near(S * P - B * o, S) /\ Near(S * G - P * m, S) /\ Near(S * T - G * d, S) /\ Near(S * F - T * t, S)
  <2>1. Near(S * P - B * o, S)
    BY <1>1, <1>4, ShareIsNear, Zenon
  <2>2. Near(S * G - P * m, S)
    BY <1>1, <1>4, ShareIsNear, Zenon
  <2>3. Near(S * T - G * d, S)
    BY <1>1, <1>4, ShareIsNear, Zenon
  <2>4. Near(S * F - T * t, S)
    BY <1>1, <1>4, ShareIsNear, Zenon
  <2> QED
    BY <2>1, <2>2, <2>3, <2>4
<1> HIDE DEF o, m, d, t, S
<1>6. LET abs == IF d < 0 THEN -d ELSE d
          error == F * S * S * S * S - B * o * m * d * t
          bound == S * m * abs * t + S * S * abs * t + S * S * S * t + S * S * S * S
      IN  2 * error <= bound /\ -2 * error <= bound
  <2>1. B \in Int /\ P \in Int /\ G \in Int /\ T \in Int
    BY <1>1
  <2> QED
    BY <1>1, <1>2, <1>3, <1>5, <2>1, FourRoundings, Zenon
<1> QED
  BY <1>6, Zenon DEF ExactFor, o, m, d, t, S, B, F

\* Sums of numbers that are not negative.
LEMMA SumOfNaturals ==
    ASSUME NEW f, NEW S, IsFiniteSet(S), \A x \in S : f[x] \in Nat
    PROVE  SumFunctionOnSet(f, S) \in Nat /\ \A x \in S : f[x] <= SumFunctionOnSet(f, S)
<1> DEFINE none == [x \in S |-> 0]
<1>1. \A x \in S : none[x] \in Int /\ none[x] <= 2 * none[x] /\ none[x] <= 1 * f[x] /\ f[x] \in Int
  OBVIOUS
<1> HIDE DEF none
<1>2. /\ SumFunctionOnSet(none, S) \in Int /\ SumFunctionOnSet(f, S) \in Int
      /\ \A T \in SUBSET S : IsFiniteSet(T) /\ SumFunctionOnSet(none, T) \in Int /\ SumFunctionOnSet(f, T) \in Int
  BY <1>1, SumType, FS_Subset
<1>3. \A T \in SUBSET S : SumFunctionOnSet(f, T) >= 0
  <2> SUFFICES ASSUME NEW T \in SUBSET S PROVE SumFunctionOnSet(f, T) >= 0
    OBVIOUS
  <2>1. IsFiniteSet(T) /\ SumFunctionOnSet(none, T) \in Int /\ SumFunctionOnSet(f, T) \in Int
    BY <1>2
  <2>2. SumFunctionOnSet(none, T) <= 2 * SumFunctionOnSet(none, T)
    BY <1>1, <2>1, SumBound
  <2>3. SumFunctionOnSet(none, T) <= 1 * SumFunctionOnSet(f, T)
    BY <1>1, <2>1, SumBound
  <2> QED
    BY <2>1, <2>2, <2>3
<1>4. \A x \in S : f[x] <= SumFunctionOnSet(f, S)
  <2> TAKE x \in S
  <2>1. SumFunctionOnSet(f, S) = f[x] + SumFunctionOnSet(f, S \ {x})
    BY <1>1, SumWithout
  <2>2. SumFunctionOnSet(f, S \ {x}) >= 0 /\ SumFunctionOnSet(f, S \ {x}) \in Int
    BY <1>2, <1>3
  <2> QED
    BY <2>1, <2>2
<1> QED
  BY <1>2, <1>3, <1>4

\* What is charged: amounts by category and source, finitely many, none negative.
Categories == {"material", "machine", "labor"}
Charges(f) == IsFiniteSet(DOMAIN f) /\ f \in [DOMAIN f -> Nat] /\ \A k \in DOMAIN f : k[1] \in Categories

\* The total of a category is not negative, and no less than any amount of it.
LEMMA TotalIs ==
    ASSUME NEW f, Charges(f), NEW c
    PROVE  Total(f, c) \in Nat /\ \A k \in DOMAIN f : k[1] = c => f[k] <= Total(f, c)
<1> DEFINE S == {k \in DOMAIN f : k[1] = c}
<1>1. IsFiniteSet(S) /\ \A x \in S : f[x] \in Nat
  BY FS_Subset DEF Charges
<1>2. Total(f, c) = SumFunctionOnSet(f, S)
  BY DEF Total, Sum
<1> HIDE DEF S
<1>3. Total(f, c) \in Nat /\ \A x \in S : f[x] <= Total(f, c)
  BY <1>1, <1>2, SumOfNaturals
<1> QED
  BY <1>3 DEF S

\* Whatever is charged, the machine's numbers are integers of it.
LEMMA BreakdownTypes ==
    ASSUME PricingAssumption, NEW w, w.material \in Int, w.machine \in Int, w.labor \in Int,
           NEW share \in [Shares -> Nat]
    PROVE  Breakdown(w, share).final \in Int /\ Breakdown(w, share).final <= MaxInt
<1>1. \A x \in Int : Wrap(x) \in Int /\ Wrap(x) <= MaxInt
  BY MachineInt
<1>2. \A m \in Int : \A r \in Nat : MulRate(m, r) \in Int
  <2> TAKE m \in Int
  <2> TAKE r \in Nat
  <2>1. m * r \in Int /\ RateScale \in Nat /\ RateScale > 0 /\ MaxInt \in Nat
    BY ProductOf, Z3 DEF PricingAssumption
  <2> DEFINE num == Wrap(m * r)
             half == RateScale \div 2
  <2>2. num \in Int /\ half \in Int
    BY <1>1, <2>1
  <2>3. \A a \in Int : Quot(a, RateScale) \in Int
    BY <2>1, QuotientBetween DEF Quot
  <2>4. MulRate(m, r) = IF num < 0 THEN Wrap(-Quot(Wrap(Wrap(-num) + half), RateScale))
                        ELSE Quot(Wrap(num + half), RateScale)
    BY DEF MulRate
  <2> HIDE DEF num, half
  <2>5. Wrap(Wrap(-num) + half) \in Int /\ Wrap(num + half) \in Int
    BY <1>1, <2>2
  <2>6. Quot(Wrap(num + half), RateScale) \in Int /\ -Quot(Wrap(Wrap(-num) + half), RateScale) \in Int
    BY <2>3, <2>5
  <2> QED
    BY <1>1, <2>4, <2>6
<1>3. \A s \in Shares : share[s] \in Nat
  OBVIOUS
<1>4. \A s \in {"overhead", "margin", "discount", "tax"} : \A m \in Int : MulRate(m, share[s]) \in Int
  BY <1>2, <1>3 DEF Shares
<1> DEFINE base == Wrap(Wrap(w.material + w.machine) + w.labor)
           production == Wrap(base + MulRate(base, share["overhead"]))
           gross == Wrap(production + MulRate(production, share["margin"]))
           preTax == Wrap(gross - MulRate(gross, share["discount"]))
           final == Wrap(preTax + MulRate(preTax, share["tax"]))
<1>5. base \in Int
  <2>1. w.material + w.machine \in Int
    OBVIOUS
  <2>2. Wrap(w.material + w.machine) + w.labor \in Int
    BY <1>1, <2>1
  <2> QED
    BY <1>1, <2>2
<1> HIDE DEF base
<1>6. production \in Int
  BY <1>1, <1>4, <1>5
<1> HIDE DEF production
<1>7. gross \in Int
  BY <1>1, <1>4, <1>6
<1> HIDE DEF gross
<1>8. preTax \in Int
  <2>1. gross - MulRate(gross, share["discount"]) \in Int
    BY <1>4, <1>7
  <2> QED
    BY <1>1, <2>1
<1> HIDE DEF preTax
<1>9. final \in Int /\ final <= MaxInt
  <2>1. preTax + MulRate(preTax, share["tax"]) \in Int
    BY <1>4, <1>8
  <2> QED
    BY <1>1, <2>1
<1>10. Breakdown(w, share).final = final
  BY DEF Breakdown, base, production, gross, preTax
<1> QED
  BY <1>9, <1>10

\* What is charged as integers of the machine, and what of it is billed.
Held(f) == [k \in DOMAIN f |-> ToInt(f[k])]
Billed(f, billed) ==
    [material |-> LineSum(Held(f), "material"), machine |-> LineSum(Held(f), "machine"),
     labor |-> IF billed THEN LineSum(Held(f), "labor") ELSE 0]

\* What is billed are integers.
LEMMA BilledTypes ==
    ASSUME PricingAssumption, NEW f, Charges(f), NEW billed
    PROVE  LET v == Billed(f, billed) IN v.material \in Int /\ v.machine \in Int /\ v.labor \in Int
<1>1. MaxInt \in Nat
  BY DEF PricingAssumption
<1>2. \A k \in DOMAIN f : Held(f)[k] \in Int
  BY <1>1 DEF Held, ToInt, Charges
<1>3. DOMAIN Held(f) = DOMAIN f
  BY DEF Held
<1>4. \A c : Total(Held(f), c) \in Int
  <2> TAKE c
  <2> DEFINE S == {k \in DOMAIN f : k[1] = c}
  <2>1. IsFiniteSet(S) /\ \A k \in S : Held(f)[k] \in Int
    BY <1>2, FS_Subset DEF Charges
  <2>2. Total(Held(f), c) = SumFunctionOnSet(Held(f), S)
    BY <1>3 DEF Total, Sum
  <2> HIDE DEF S
  <2> QED
    BY <2>1, <2>2, SumType
<1>5. \A c : LineSum(Held(f), c) \in Int
  BY <1>4, MachineInt DEF LineSum
<1> QED
  BY <1>5 DEF Billed

\* Amounts that fit are held as they are, and so are their totals.
LEMMA HeldIs ==
    ASSUME PricingAssumption, NEW f, Charges(f), NEW c, Total(f, c) <= MaxInt
    PROVE  /\ \A k \in DOMAIN f : k[1] = c => Held(f)[k] = f[k]
           /\ LineSum(Held(f), c) = Total(f, c)
<1> DEFINE S == {k \in DOMAIN f : k[1] = c}
<1>1. /\ Total(f, c) \in Nat /\ MaxInt \in Nat /\ IsFiniteSet(S)
      /\ \A k \in S : f[k] \in Nat /\ f[k] <= Total(f, c)
  BY TotalIs, FS_Subset DEF Charges, PricingAssumption
<1>2. \A k \in S : Held(f)[k] = f[k]
  <2> TAKE k \in S
  <2>1. f[k] \in Int /\ -MaxInt - 1 <= f[k] /\ f[k] <= MaxInt
    BY <1>1
  <2>2. ToInt(f[k]) = f[k]
    BY <2>1, MachineInt
  <2> QED
    BY <2>2 DEF Held
<1>3. Total(Held(f), c) = SumFunctionOnSet(Held(f), S) /\ Total(f, c) = SumFunctionOnSet(f, S)
  BY DEF Total, Sum, Held
<1> HIDE DEF S
<1>4. Total(Held(f), c) = Total(f, c)
  <2>1. \A x \in S : f[x] = Held(f)[x] /\ f[x] \in Int
    BY <1>1, <1>2
  <2>2. SumFunctionOnSet(f, S) = SumFunctionOnSet(Held(f), S)
    BY <1>1, <2>1, SumSame
  <2> QED
    BY <1>3, <2>2
<1>5. Wrap(Total(f, c)) = Total(f, c)
  BY <1>1, MachineInt
<1> QED
  BY <1>2, <1>4, <1>5 DEF LineSum, S

\* In the range of the integers it is what is charged.
LEMMA BilledIs ==
    ASSUME PricingAssumption, NEW f, Charges(f), NEW billed \in BOOLEAN, NEW share,
           InRangeFor(Exact(f, billed), share)
    PROVE  LET v == Billed(f, billed)
               w == Exact(f, billed)
           IN  /\ v.material = w.material /\ v.machine = w.machine /\ v.labor = w.labor
               /\ w.material = Total(f, "material") /\ w.machine = Total(f, "machine")
               /\ (IF billed THEN w.labor ELSE w.extra) = Total(f, "labor")
               /\ w.material \in Nat /\ w.machine \in Nat /\ w.labor \in Nat /\ w.extra \in Nat
               /\ w.material <= MaxInt /\ w.machine <= MaxInt /\ w.labor <= MaxInt
               /\ v.material \in Int /\ v.machine \in Int /\ v.labor \in Int
               /\ InRangeFor(v, share) /\ Base(v) = Base(w)
<1> DEFINE v == Billed(f, billed)
           w == Exact(f, billed)
<1>1. /\ w.material = Total(f, "material") /\ w.machine = Total(f, "machine")
      /\ w.labor = (IF billed THEN Total(f, "labor") ELSE 0) /\ w.extra = (IF billed THEN 0 ELSE Total(f, "labor"))
  BY DEF Exact
<1>2. /\ v.material = LineSum(Held(f), "material") /\ v.machine = LineSum(Held(f), "machine")
      /\ v.labor = (IF billed THEN LineSum(Held(f), "labor") ELSE 0)
  BY DEF Billed
<1>3. w.material + w.machine + w.labor <= MaxInt
  BY DEF InRangeFor, Base
<1> HIDE DEF v, w
<1>4. Total(f, "material") \in Nat /\ Total(f, "machine") \in Nat /\ Total(f, "labor") \in Nat /\ MaxInt \in Nat
  BY TotalIs DEF PricingAssumption
<1>5. /\ w.material \in Nat /\ w.machine \in Nat /\ w.labor \in Nat /\ w.extra \in Nat
      /\ w.material <= MaxInt /\ w.machine <= MaxInt /\ w.labor <= MaxInt
  BY <1>1, <1>3, <1>4
<1>6. v.material = w.material /\ v.machine = w.machine /\ v.labor = w.labor
  <2>1. v.material = w.material
    BY <1>1, <1>2, <1>5, HeldIs
  <2>2. v.machine = w.machine
    BY <1>1, <1>2, <1>5, HeldIs
  <2>3. v.labor = w.labor
    BY <1>1, <1>2, <1>5, HeldIs
  <2> QED
    BY <2>1, <2>2, <2>3
<1>7. InRangeFor(w, share)
  BY DEF w
<1>8. InRangeFor(v, share) /\ Base(v) = Base(w)
  BY <1>6, <1>7 DEF InRangeFor, Base
<1> QED
  BY <1>1, <1>5, <1>6, <1>8 DEF v, w

\* The categories of the lines are one or the other.
LEMMA CategoriesDiffer ==
    /\ Categories \intersect Shares = {}
    /\ Shares = {"overhead", "margin", "discount", "tax"}
BY DEF Categories, Shares

\* The lines of an answer.
Lines(f, b, listed) ==
    [k \in DOMAIN f \union (listed \X {0}) |-> IF k[1] \in Shares THEN b[k[1]] ELSE Held(f)[k]]

\* In the range of the integers nothing in a breakdown is negative, unless more than
\* everything is given as a discount.
LEMMA NothingNegative ==
    ASSUME PricingAssumption, NEW v, v.material \in Int, v.machine \in Int, v.labor \in Int,
           NEW share \in [Shares -> Nat], InRangeFor(v, share), PreTaxOf(v, share) >= 0
    PROVE  LET b == Breakdown(v, share)
           IN  /\ \A c \in DOMAIN b : b[c] \in Nat
               /\ \A s \in Shares : b[s] \in Nat /\ b[s] <= MaxInt
<1> DEFINE b == Breakdown(v, share)
           B == Base(v)
           P == ProductionOf(v, share)
           G == GrossOf(v, share)
           T == PreTaxOf(v, share)
           o == Share(B, share["overhead"])
           m == Share(P, share["margin"])
           d == Share(G, share["discount"])
           t == Share(T, share["tax"])
<1>0. /\ B \in Nat /\ P \in Nat /\ G \in Nat /\ T \in Int /\ o \in Nat /\ m \in Nat /\ d \in Nat
      /\ P <= MaxInt /\ G <= MaxInt /\ G + d <= MaxInt /\ MaxInt \in Nat
      /\ (T >= 0 => t \in Nat /\ T + t <= MaxInt)
  BY ChainTypes DEF PricingAssumption
<1>2. P = B + o /\ G = P + m /\ FinalOf(v, share) = T + t
  BY DEF ProductionOf, GrossOf, FinalOf
<1>3. /\ b.material = v.material /\ b.machine = v.machine /\ b.labor = v.labor
      /\ b.overhead = o /\ b.production = P /\ b.margin = m /\ b.discount = d /\ b.preTax = T
      /\ b.tax = t /\ b.final = T + t
  BY <1>2, BreakdownIs
<1>4. DOMAIN b = {"material", "machine", "labor", "overhead", "production", "margin", "discount",
                  "preTax", "tax", "final"}
  BY DEF Breakdown
<1>5. v.material >= 0 /\ v.machine >= 0 /\ v.labor >= 0
  BY DEF InRangeFor
<1> HIDE DEF B, P, G, o, m, d, t
<1>10. T >= 0
  OBVIOUS
<1> HIDE DEF b, T
<1>1. T \in Nat /\ t \in Nat /\ T + t <= MaxInt
  BY <1>0, <1>10
<1>6. /\ b["material"] \in Nat /\ b["machine"] \in Nat /\ b["labor"] \in Nat
      /\ b["overhead"] \in Nat /\ b["production"] \in Nat /\ b["margin"] \in Nat /\ b["discount"] \in Nat
      /\ b["preTax"] \in Nat /\ b["tax"] \in Nat /\ b["final"] \in Nat
      /\ b["overhead"] <= MaxInt /\ b["margin"] <= MaxInt /\ b["discount"] <= MaxInt /\ b["tax"] <= MaxInt
  BY <1>0, <1>1, <1>2, <1>3, <1>5
<1>7. \A c \in DOMAIN b : b[c] \in Nat
  BY <1>4, <1>6
<1>8. \A s \in Shares : b[s] \in Nat /\ b[s] <= MaxInt
  BY <1>6 DEF Shares
<1> QED
  BY <1>7, <1>8 DEF b

\* In the range the lines add up, unless more than everything is given as a discount
\* or a finishing is charged as labor.
LEMMA LinesAreRight ==
    ASSUME PricingAssumption, NEW f, Charges(f), NEW billed \in BOOLEAN, NEW share \in [Shares -> Nat],
           InRangeFor(Exact(f, billed), share), share["discount"] <= RateScale,
           ~(Exact(f, billed).extra > 0), NEW listed \in SUBSET Shares
    PROVE  LET b == Breakdown(Billed(f, billed), share)
           IN  Validate(b, Lines(f, b, listed))
<1> DEFINE v == Billed(f, billed)
           w == Exact(f, billed)
           b == Breakdown(v, share)
           lines == Lines(f, b, listed)
<1>1. /\ v.material = w.material /\ v.machine = w.machine /\ v.labor = w.labor
      /\ w.material = Total(f, "material") /\ w.machine = Total(f, "machine")
      /\ (IF billed THEN w.labor ELSE w.extra) = Total(f, "labor")
      /\ w.material \in Nat /\ w.machine \in Nat /\ w.labor \in Nat /\ w.extra \in Nat
      /\ w.material <= MaxInt /\ w.machine <= MaxInt /\ w.labor <= MaxInt
      /\ v.material \in Int /\ v.machine \in Int /\ v.labor \in Int
      /\ InRangeFor(v, share)
  BY BilledIs
<1>2. w.extra = 0 /\ (~billed => w.labor = 0) /\ MaxInt \in Nat
  BY <1>1 DEF Exact, PricingAssumption
<1> HIDE DEF v, w
<1>3. PreTaxOf(v, share) >= 0
  BY <1>1, ChainTypes
<1>4. /\ \A c \in DOMAIN b : b[c] \in Nat
      /\ \A s \in Shares : b[s] \in Nat /\ b[s] <= MaxInt
  BY <1>1, <1>3, NothingNegative
<1>5. b.material = v.material /\ b.machine = v.machine /\ b.labor = v.labor
  BY <1>1, BreakdownIs
<1> HIDE DEF b
<1>6. \A c \in Categories : Total(f, c) <= MaxInt /\ b[c] = Total(f, c)
  <2>1. Total(f, "material") <= MaxInt /\ b["material"] = Total(f, "material")
    BY <1>1, <1>5
  <2>2. Total(f, "machine") <= MaxInt /\ b["machine"] = Total(f, "machine")
    BY <1>1, <1>5
  <2>3. Total(f, "labor") <= MaxInt /\ b["labor"] = Total(f, "labor")
    BY <1>1, <1>2, <1>5
  <2> QED
    BY <2>1, <2>2, <2>3 DEF Categories
<1>7. /\ DOMAIN lines = DOMAIN f \union (listed \X {0})
      /\ \A k \in DOMAIN lines : lines[k] = IF k[1] \in Shares THEN b[k[1]] ELSE Held(f)[k]
  BY DEF Lines
<1> HIDE DEF lines
<1>8. /\ \A k \in DOMAIN f : k[1] \in Categories /\ k[1] \notin Shares /\ k \in DOMAIN lines
      /\ \A k \in listed \X {0} : k[1] \in listed /\ k[1] \in Shares /\ k[1] \notin Categories /\ k = <<k[1], 0>>
  BY <1>7, CategoriesDiffer DEF Charges
<1>9. ASSUME NEW k \in DOMAIN f PROVE lines[k] >= 0 /\ LineSum(lines, k[1]) = b[k[1]]
  <2> DEFINE c == k[1]
             S == {j \in DOMAIN f : j[1] = c}
  <2>1. c \in Categories /\ Total(f, c) <= MaxInt /\ b[c] = Total(f, c) /\ Total(f, c) \in Nat
    BY <1>6, <1>8, TotalIs
  <2>2. {j \in DOMAIN lines : j[1] = c} = S
    BY <1>7, <1>8
  <2>3. IsFiniteSet(S) /\ \A j \in S : f[j] \in Nat
    BY FS_Subset DEF Charges
  <2>4. \A j \in S : lines[j] = f[j]
    <3>1. \A j \in S : Held(f)[j] = f[j]
      BY <2>1, HeldIs
    <3> QED
      BY <1>7, <1>8, <3>1
  <2>5. k \in S
    OBVIOUS
  <2> HIDE DEF S
  <2>6. Total(lines, c) = SumFunctionOnSet(lines, S)
    BY <2>2 DEF Total, Sum
  <2>7. Total(f, c) = SumFunctionOnSet(f, S)
    BY DEF Total, Sum, S
  <2>8. SumFunctionOnSet(f, S) = SumFunctionOnSet(lines, S)
    BY <2>3, <2>4, SumSame
  <2>9. Wrap(Total(f, c)) = Total(f, c)
    BY <1>2, <2>1, MachineInt
  <2>10. lines[k] >= 0
    BY <2>3, <2>4, <2>5
  <2> HIDE DEF c
  <2>11. LineSum(lines, c) = b[c]
    BY <2>1, <2>6, <2>7, <2>8, <2>9 DEF LineSum
  <2> QED
    BY <2>10, <2>11 DEF c
<1>10. ASSUME NEW k \in listed \X {0} PROVE lines[k] >= 0 /\ LineSum(lines, k[1]) = b[k[1]]
  <2> DEFINE s == k[1]
  <2>1. s \in Shares /\ k = <<s, 0>> /\ b[s] \in Nat /\ b[s] <= MaxInt /\ k \in DOMAIN lines /\ lines[k] = b[s]
    BY <1>4, <1>7, <1>8
  <2>2. {j \in DOMAIN lines : j[1] = s} = {k}
    BY <1>7, <1>8, <2>1
  <2> HIDE DEF s
  <2>3. Total(lines, s) = SumFunctionOnSet(lines, {k})
    BY <2>2 DEF Total, Sum
  <2>4. SumFunctionOnSet(lines, {k}) = lines[k]
    <3>1. SumFunctionOnSet(lines, {} \union {k}) = lines[k] + SumFunctionOnSet(lines, {})
      <4>1. IsFiniteSet({}) /\ k \notin {} /\ \A x \in {} \union {k} : lines[x] \in Int
        BY <2>1, FS_EmptySet
      <4> QED
        BY <4>1, SumWith
    <3>2. SumFunctionOnSet(lines, {}) = 0 /\ {} \union {k} = {k}
      BY SumEmpty
    <3> QED
      BY <2>1, <3>1, <3>2
  <2>5. Wrap(b[s]) = b[s]
    BY <1>2, <2>1, MachineInt
  <2>6. LineSum(lines, s) = b[s]
    BY <2>1, <2>3, <2>4, <2>5 DEF LineSum
  <2> QED
    BY <2>1, <2>6 DEF s
<1>11. Validate(b, lines)
  BY <1>4, <1>7, <1>9, <1>10 DEF Validate
<1> QED
  BY <1>11 DEF b, lines, v

\* The answer, with its parts named.
LEMMA AnswerIs ==
    ASSUME NEW f, NEW billed, NEW share, NEW always \in SUBSET Shares
    PROVE  LET b == Breakdown(Billed(f, billed), share)
               listed == always \union {s \in Shares : b[s] > 0}
               lines == Lines(f, b, listed)
           IN  /\ listed \in SUBSET Shares
               /\ Answered(f, billed, share, always) =
                      IF Validate(b, lines) THEN [status |-> "priced", final |-> b.final]
                      ELSE [status |-> "refused", final |-> 0]
<1>1. DOMAIN Held(f) = DOMAIN f
  BY DEF Held
<1> QED
  BY <1>1, Zenon DEF Answered, Lines, Billed, Held

\* The answer is right for whatever is charged.
LEMMA AnswerIsRight ==
    ASSUME PricingAssumption, NEW f, Charges(f), NEW billed \in BOOLEAN, NEW share \in [Shares -> Nat],
           NEW always \in SUBSET Shares
    PROVE  LET w == Exact(f, billed)
               a == Answered(f, billed, share, always)
           IN  /\ a.status \in {"priced", "refused"} /\ a.final \in 0..MaxInt
               /\ w \in [material : Int, machine : Int, labor : Int, extra : Int]
               /\ a.status = "priced" /\ InRangeFor(w, share) => ExactFor(w, share, a.final)
               /\ a.status = "refused" /\ InRangeFor(w, share) =>
                     share["discount"] > RateScale \/ w.extra > 0
<1> DEFINE w == Exact(f, billed)
           v == Billed(f, billed)
           a == Answered(f, billed, share, always)
           b == Breakdown(v, share)
           listed == always \union {s \in Shares : b[s] > 0}
           lines == Lines(f, b, listed)
<1>1. /\ listed \in SUBSET Shares
      /\ a = IF Validate(b, lines) THEN [status |-> "priced", final |-> b.final]
             ELSE [status |-> "refused", final |-> 0]
  BY AnswerIs
<1>2. v.material \in Int /\ v.machine \in Int /\ v.labor \in Int
  BY BilledTypes
<1>3. b.final \in Int /\ b.final <= MaxInt
  <2> HIDE DEF v
  <2> QED
    BY <1>2, BreakdownTypes
<1>4. DOMAIN b = {"material", "machine", "labor", "overhead", "production", "margin", "discount",
                  "preTax", "tax", "final"}
  BY DEF Breakdown
<1>5. w \in [material : Int, machine : Int, labor : Int, extra : Int]
  <2>1. Total(f, "material") \in Int /\ Total(f, "machine") \in Int /\ Total(f, "labor") \in Int
    BY TotalIs
  <2> QED
    BY <2>1 DEF Exact
<1>6. MaxInt \in Nat /\ RateScale \in Nat /\ share["discount"] \in Nat
  BY DEF PricingAssumption, Shares
<1>7. InRangeFor(w, share) =>
        /\ InRangeFor(v, share) /\ Base(v) = Base(w)
        /\ w.extra \in Nat
  BY BilledIs
<1>8. InRangeFor(w, share) /\ share["discount"] <= RateScale /\ ~(w.extra > 0) => Validate(b, lines)
  <2> HAVE InRangeFor(w, share) /\ share["discount"] <= RateScale /\ ~(w.extra > 0)
  <2> HIDE DEF listed
  <2> QED
    BY <1>1, LinesAreRight
<1>9. InRangeFor(w, share) /\ b.preTax >= 0 => ExactFor(w, share, b.final)
  <2> HAVE InRangeFor(w, share) /\ b.preTax >= 0
  <2> HIDE DEF v
  <2>1. PreTaxOf(v, share) >= 0 /\ b.final = FinalOf(v, share)
    BY <1>2, <1>7, BreakdownIs
  <2>2. ExactFor(v, share, b.final)
    BY <1>2, <1>7, <2>1, ChainIsExact
  <2> HIDE DEF w, b
  <2> QED
    BY <1>7, <2>2, Zenon DEF ExactFor
<1> HIDE DEF w, a, b, lines, listed
<1>10. Validate(b, lines) => b.preTax >= 0 /\ b.final >= 0
  BY <1>4 DEF Validate
<1> QED
  BY <1>1, <1>3, <1>5, <1>6, <1>7, <1>8, <1>9, <1>10 DEF w, a

\* A function has finitely many values on a finite set.
LEMMA ImageFinite ==
    ASSUME NEW S, IsFiniteSet(S), NEW f, NEW T, T \subseteq {f[x] : x \in S}
    PROVE  IsFiniteSet(T)
<1> DEFINE U == {f[x] : x \in S}
           h == [x \in S |-> f[x]]
<1>1. h \in Surjection(S, U)
  BY DEF Surjection
<1>2. IsFiniteSet(U)
  BY <1>1, FS_Surjection, Zenon
<1> QED
  BY <1>2, FS_Subset

\* The numbers of charges.
LEMMA Products ==
    ASSUME NEW a \in Nat, NEW b \in Nat, NEW c \in Nat
    PROVE  a * b * c \in Nat /\ a * b \in Nat /\ a + b * c \in Nat
BY Z3

\* A fraction that is not negative is rounded to a natural number.
LEMMA RoundedNatural ==
    ASSUME NEW num \in Nat, NEW den \in Nat, den > 0
    PROVE  Rounded(num, den) \in Nat
<1> DEFINE a == 2 * num + den
           b == 2 * den
           q == a \div b
<1>1. a \in Int /\ b \in Int /\ b > 0 /\ a >= 0
  OBVIOUS
<1> HIDE DEF a, b, q
<1>2. q \in Int /\ q >= 0
  BY <1>1, Z3 DEF q
<1>3. Rounded(num, den) = q
  BY DEF Rounded, q, a, b
<1> QED
  BY <1>2, <1>3

\* The parts of a package.
LEMMA PartsOf ==
    ASSUME PricingAssumption, NEW p \in Packages
    PROVE  /\ Len(p.parts) \in Nat /\ DOMAIN p.parts = 1..Len(p.parts) /\ IsFiniteSet(DOMAIN p.parts)
           /\ \A i \in DOMAIN p.parts :
                 /\ p.parts[i].material \in RatedMaterials /\ p.parts[i].area \in Nat /\ p.parts[i].area > 0
                 /\ p.parts[i].volume \in Nat /\ p.parts[i].perimeter \in Nat
           /\ p.sheet \in [RatedMaterials -> Nat]
<1>1. p.parts \in Seq(PackagePart) /\ p.sheet \in [RatedMaterials -> Nat]
  BY DEF PricingAssumption
<1>2. Len(p.parts) \in Nat /\ DOMAIN p.parts = 1..Len(p.parts) /\ \A i \in DOMAIN p.parts : p.parts[i] \in PackagePart
  BY <1>1
<1>3. IsFiniteSet(1..Len(p.parts))
  BY <1>2, FS_Interval
<1>4. IsFiniteSet(DOMAIN p.parts)
  BY <1>2, <1>3
<1>5. \A i \in DOMAIN p.parts :
         /\ p.parts[i].material \in RatedMaterials /\ p.parts[i].area \in Nat /\ p.parts[i].area > 0
         /\ p.parts[i].volume \in Nat /\ p.parts[i].perimeter \in Nat
  BY <1>2 DEF PackagePart
<1> QED
  BY <1>1, <1>2, <1>4, <1>5

\* The amounts of a stair are not negative.
LEMMA StairAmounts ==
    ASSUME PricingAssumption, NEW p \in Packages, NEW r \in Rates, RatesValid(r)
    PROVE  /\ IsFiniteSet(Used(p)) /\ \A m \in Used(p) : MaterialAmount(p, m, r) \in Nat
           /\ TimeAmount(MachineTime(p), r.machine) \in Nat /\ TimeAmount(LaborTime(p), r.labor) \in Nat
<1> DEFINE I == DOMAIN p.parts
<1>1. /\ IsFiniteSet(I) /\ Len(p.parts) \in Nat
      /\ \A i \in I : /\ p.parts[i].material \in RatedMaterials /\ p.parts[i].area \in Nat /\ p.parts[i].area > 0
                      /\ p.parts[i].volume \in Nat /\ p.parts[i].perimeter \in Nat
      /\ \A m \in RatedMaterials : p.sheet[m] \in Nat
  BY PartsOf
<1>2. /\ Hour \in Nat /\ Hour > 0 /\ SetupTime \in Nat /\ FinishTime \in Nat
      /\ \A m \in RatedMaterials : Density[m] \in Nat /\ CutTime[m] \in Nat
  BY DEF PricingAssumption
<1>3. r.machine \in Nat /\ r.labor \in Nat /\ \A m \in RatedMaterials : r.material[m] \in Nat
  <2>1. r.machine \in Int /\ r.labor \in Int /\ \A m \in RatedMaterials : r.material[m] \in Int
    BY DEF Rates
  <2>2. r.machine >= 0 /\ r.labor >= 0 /\ \A m \in RatedMaterials : r.material[m] >= 0
    BY DEF RatesValid, Amounts
  <2> QED
    BY <2>1, <2>2
<1> HIDE DEF I
<1>4. IsFiniteSet(Used(p))
  <2> DEFINE f == [i \in I |-> p.parts[i].material]
  <2>1. Used(p) \subseteq {f[i] : i \in I}
    BY DEF Used, MadeOf, I
  <2> HIDE DEF f
  <2> QED
    BY <1>1, <2>1, ImageFinite
<1>5. ASSUME NEW m \in Used(p) PROVE MaterialAmount(p, m, r) \in Nat
  <2> DEFINE O == MadeOf(p, m)
             area == [i \in O |-> p.parts[i].area]
             volume == [i \in O |-> p.parts[i].volume]
  <2>1. m \in RatedMaterials /\ O # {} /\ O \in SUBSET I
    BY DEF Used, MadeOf, I
  <2>2. IsFiniteSet(O)
    BY <1>1, <2>1, FS_Subset
  <2>3. \A i \in O : area[i] \in Nat /\ area[i] > 0 /\ volume[i] \in Nat
    BY <1>1, <2>1
  <2>4. PartArea(p, m) = SumFunctionOnSet(area, O) /\ Mass(p, m) = Density[m] * SumFunctionOnSet(volume, O)
    BY DEF PartArea, Mass, Sum
  <2> HIDE DEF O, area, volume
  <2>5. PartArea(p, m) \in Nat /\ PartArea(p, m) > 0
    <3>1. SumFunctionOnSet(area, O) \in Nat /\ \A i \in O : area[i] <= SumFunctionOnSet(area, O)
      BY <2>2, <2>3, SumOfNaturals
    <3> QED
      BY <2>1, <2>3, <2>4, <3>1
  <2>6. Mass(p, m) \in Nat
    <3>1. SumFunctionOnSet(volume, O) \in Nat
      BY <2>2, <2>3, SumOfNaturals
    <3> QED
      BY <1>2, <2>1, <2>4, <3>1, Products
  <2> DEFINE num == Mass(p, m) * p.sheet[m] * r.material[m]
  <2>7. num \in Nat
    BY <1>1, <1>3, <2>1, <2>6, Products
  <2> HIDE DEF num
  <2>8. Rounded(num, PartArea(p, m)) \in Nat
    BY <2>5, <2>7, RoundedNatural
  <2> QED
    BY <2>8 DEF MaterialAmount, num
<1>6. MachineTime(p) \in Nat
  <2> DEFINE time == [i \in I |-> SetupTime + p.parts[i].perimeter * CutTime[p.parts[i].material]]
  <2>1. \A i \in I : time[i] \in Nat
    BY <1>1, <1>2, Products
  <2>2. MachineTime(p) = SumFunctionOnSet(time, I)
    BY DEF MachineTime, Sum, I
  <2> HIDE DEF time
  <2> QED
    BY <1>1, <2>1, <2>2, SumOfNaturals
<1>7. LaborTime(p) \in Nat
  BY <1>1, <1>2, Products DEF LaborTime
<1>8. \A time \in Nat : \A rate \in Nat : TimeAmount(time, rate) \in Nat
  <2> TAKE time \in Nat
  <2> TAKE rate \in Nat
  <2>1. time * rate \in Nat
    BY Products
  <2> QED
    BY <1>2, <2>1, RoundedNatural DEF TimeAmount
<1> QED
  BY <1>3, <1>4, <1>5, <1>6, <1>7, <1>8

\* A stair is charged for material, machine and labor, never negatively.
LEMMA StairIsCharged ==
    ASSUME PricingAssumption, NEW p \in Packages, NEW r \in Rates, RatesValid(r)
    PROVE  Charges(StairCharges(p, r))
<1> DEFINE f == StairCharges(p, r)
           D == ({"material"} \X Used(p)) \union ({"machine", "labor"} \X {0})
           g == [m \in Used(p) |-> <<"material", m>>]
           h == [c \in {"machine", "labor"} |-> <<c, 0>>]
<1>1. /\ IsFiniteSet(Used(p)) /\ \A m \in Used(p) : MaterialAmount(p, m, r) \in Nat
      /\ TimeAmount(MachineTime(p), r.machine) \in Nat /\ TimeAmount(LaborTime(p), r.labor) \in Nat
  BY StairAmounts
<1>2. DOMAIN f = D /\ f = [k \in D |-> f[k]]
  BY DEF StairCharges
<1>3. IsFiniteSet(D)
  <2>1. ({"material"} \X Used(p)) \subseteq {g[m] : m \in Used(p)}
    OBVIOUS
  <2>2. ({"machine", "labor"} \X {0}) \subseteq {h[c] : c \in {"machine", "labor"}}
    OBVIOUS
  <2>3. IsFiniteSet({"machine", "labor"})
    <3>1. IsFiniteSet({"machine"})
      BY FS_Singleton
    <3>2. IsFiniteSet({"machine"} \union {"labor"})
      BY <3>1, FS_AddElement
    <3>3. {"machine"} \union {"labor"} = {"machine", "labor"}
      OBVIOUS
    <3> QED
      BY <3>2, <3>3
  <2> HIDE DEF g, h
  <2>4. IsFiniteSet({"material"} \X Used(p))
    BY <1>1, <2>1, ImageFinite
  <2>5. IsFiniteSet({"machine", "labor"} \X {0})
    BY <2>2, <2>3, ImageFinite
  <2> QED
    BY <2>4, <2>5, FS_Union
<1>4. \A k \in D : f[k] \in Nat /\ k[1] \in Categories
  <2>1. ASSUME NEW k \in {"material"} \X Used(p) PROVE f[k] \in Nat /\ k[1] \in Categories
    <3>1. k[1] = "material" /\ k[2] \in Used(p) /\ k \in D
      OBVIOUS
    <3>2. f[k] = MaterialAmount(p, k[2], r)
      BY <3>1 DEF StairCharges
    <3> QED
      BY <1>1, <3>1, <3>2 DEF Categories
  <2>2. ASSUME NEW k \in {"machine", "labor"} \X {0} PROVE f[k] \in Nat /\ k[1] \in Categories
    <3>1. k[1] \in {"machine", "labor"} /\ k \in D
      OBVIOUS
    <3>2. f[k] = IF k[1] = "machine" THEN TimeAmount(MachineTime(p), r.machine)
                 ELSE TimeAmount(LaborTime(p), r.labor)
      BY <3>1 DEF StairCharges
    <3> QED
      BY <1>1, <3>1, <3>2 DEF Categories
  <2> QED
    BY <2>1, <2>2
<1> HIDE DEF f, D
<1>5. f \in [D -> Nat]
  BY <1>2, <1>4
<1>6. Charges(f)
  BY <1>2, <1>3, <1>4, <1>5 DEF Charges
<1> QED
  BY <1>6 DEF f

\* So is a project whose items are valid.
LEMMA ProjectIsCharged ==
    ASSUME PricingAssumption, NEW pp \in ItemProjects, ProjectValid(pp)
    PROVE  Charges(ProjectCharges(pp))
<1> DEFINE f == ProjectCharges(pp)
           I == DOMAIN pp.items
           g == [i \in I |-> <<pp.items[i].kind, i>>]
           D == {<<pp.items[i].kind, i>> : i \in I}
<1>1. /\ IsFiniteSet(I) /\ \A i \in I : pp.items[i] \in ProjectItem
  <2>1. pp.items \in Seq(ProjectItem)
    BY DEF PricingAssumption
  <2>2. I = 1..Len(pp.items) /\ Len(pp.items) \in Nat /\ \A i \in I : pp.items[i] \in ProjectItem
    BY <2>1
  <2>3. IsFiniteSet(1..Len(pp.items))
    BY <2>2, FS_Interval
  <2> QED
    BY <2>2, <2>3
<1>2. ASSUME NEW i \in I PROVE ItemCost(pp.items[i]) \in Nat /\ pp.items[i].kind \in Categories
  <2> DEFINE a == pp.items[i].unit * pp.items[i].num
             b == pp.items[i].den
  <2>1. /\ pp.items[i].unit \in Int /\ pp.items[i].num \in Int /\ b \in Nat /\ b > 0
        /\ pp.items[i].kind \in Categories
    BY <1>1 DEF ProjectItem, Categories
  <2>2. pp.items[i].unit \in Nat /\ pp.items[i].num \in Nat
    BY <2>1 DEF ProjectValid
  <2>3. a \in Nat
    BY <2>2, Products
  <2>4. ItemCost(pp.items[i]) = a \div b
    BY DEF ItemCost
  <2> HIDE DEF a, b
  <2>5. a \div b \in Int /\ a \div b >= 0
    BY <2>1, <2>3, Z3
  <2> QED
    BY <2>1, <2>4, <2>5
<1>3. DOMAIN f = D /\ f = [k \in D |-> f[k]] /\ \A k \in D : f[k] = ItemCost(pp.items[k[2]])
  BY DEF ProjectCharges
<1>4. \A k \in D : k[2] \in I /\ k[1] = pp.items[k[2]].kind
  OBVIOUS
<1>5. IsFiniteSet(D)
  <2>1. D \subseteq {g[i] : i \in I}
    OBVIOUS
  <2> HIDE DEF g, D, I
  <2> QED
    BY <1>1, <2>1, ImageFinite
<1> HIDE DEF f, D, I
<1>6. \A k \in D : f[k] \in Nat /\ k[1] \in Categories
  BY <1>2, <1>3, <1>4
<1>7. f \in [D -> Nat]
  BY <1>3, <1>6
<1>8. Charges(f)
  BY <1>3, <1>5, <1>6, <1>7 DEF Charges
<1> QED
  BY <1>8 DEF f

\* The rates of a form are rates.
LEMMA OptionsType ==
    ASSUME PricingAssumption, NEW f \in Forms
    PROVE  toOptions(f) \in Rates
<1>1. f \in Rates /\ DefaultRates \in Rates /\ MaxInt \in Nat
  BY DEF PricingAssumption
<1>2. \A x \in Int : \A y \in Int : Replaced(x, y) \in Int
  BY <1>1 DEF Replaced, ToInt
<1>3. /\ f.machine \in Int /\ f.labor \in Int /\ DefaultRates.machine \in Int /\ DefaultRates.labor \in Int
      /\ \A m \in RatedMaterials : f.material[m] \in Int /\ DefaultRates.material[m] \in Int
      /\ \A s \in Shares : f.share[s] \in Int /\ DefaultRates.share[s] \in Int
  BY <1>1 DEF Rates
<1> DEFINE o == toOptions(f)
<1>4. o.material \in [RatedMaterials -> Int] /\ o.machine \in Int /\ o.labor \in Int /\ o.share \in [Shares -> Int]
  BY <1>2, <1>3 DEF toOptions
<1>5. o = [material |-> o.material, machine |-> o.machine, labor |-> o.labor, share |-> o.share]
  BY DEF toOptions
<1> HIDE DEF o
<1>6. o \in Rates
  BY <1>4, <1>5 DEF Rates
<1> QED
  BY <1>6 DEF o

\* Before the first answer there is nothing to be wrong.
LEMMA PriceInitHolds ==
    ASSUME PricingAssumption, PriceInit
    PROVE  PriceIsRight
<1>1. MaxInt \in Nat /\ DefaultRates \in Rates
  BY DEF PricingAssumption
<1> QED
  BY <1>1 DEF PriceInit, PriceIsRight, PricingTypeOK, PriceIsExact, RefusedForAReason, NoWork, Refused

\* What a step that gives no price leaves.
LEMMA NoPrice ==
    ASSUME PricingAssumption, form' \in Forms, rates' \in Rates, work' = NoWork,
           NEW status \in {"refused", "invalid_rates", "invalid_items"}, quote' = Refused(status)
    PROVE  PriceIsRight'
<1>1. MaxInt \in Nat
  BY DEF PricingAssumption
<1> QED
  BY <1>1 DEF PriceIsRight, PricingTypeOK, PriceIsExact, RefusedForAReason, NoWork, Refused

\* What an answer leaves.
LEMMA PriceGiven ==
    ASSUME PricingAssumption, form' \in Forms, rates' \in Rates, NEW f, Charges(f), NEW billed \in BOOLEAN,
           NEW share \in [Shares -> Nat], rates'.share = share, NEW always \in SUBSET Shares,
           work' = Exact(f, billed), quote' = Answered(f, billed, share, always)
    PROVE  PriceIsRight'
<1> DEFINE w == Exact(f, billed)
           a == Answered(f, billed, share, always)
<1>1. /\ a.status \in {"priced", "refused"} /\ a.final \in 0..MaxInt
      /\ w \in [material : Int, machine : Int, labor : Int, extra : Int]
      /\ a.status = "priced" /\ InRangeFor(w, share) => ExactFor(w, share, a.final)
      /\ a.status = "refused" /\ InRangeFor(w, share) => share["discount"] > RateScale \/ w.extra > 0
  BY AnswerIsRight
<1>2. work' = w /\ quote' = a
  OBVIOUS
<1> HIDE DEF w, a
<1>3. PricingTypeOK'
  BY <1>1, <1>2 DEF PricingTypeOK
<1>4. PriceIsExact'
  BY <1>1, <1>2 DEF PriceIsExact, InRange
<1>5. RefusedForAReason'
  BY <1>1, <1>2 DEF RefusedForAReason, InRange
<1> QED
  BY <1>3, <1>4, <1>5 DEF PriceIsRight

\* A stair is priced right.
LEMMA PriceStairHolds ==
    ASSUME PricingAssumption, PriceIsRight, NEW p \in Packages, PriceStair(p)
    PROVE  PriceIsRight'
<1>1. form \in Forms /\ form' = form /\ rates \in Rates
  BY DEF PriceStair, PriceIsRight, PricingTypeOK
<1>2. CASE OutOfRange(form)
  <2>1. quote' = Refused("invalid_rates") /\ work' = NoWork /\ rates' = rates
    BY <1>2 DEF PriceStair
  <2> QED
    BY <1>1, <2>1, NoPrice
<1>3. CASE ~OutOfRange(form)
  <2>1. rates' = toOptions(form)
    BY <1>3 DEF PriceStair
  <2>2. rates' \in Rates
    BY <1>1, <2>1, OptionsType
  <2>3. CASE CostRefused(p) \/ ~RatesValid(rates')
    <3>1. quote' = Refused("refused") /\ work' = NoWork
      BY <1>3, <2>3 DEF PriceStair
    <3> QED
      BY <1>1, <2>2, <3>1, NoPrice
  <2>4. CASE ~(CostRefused(p) \/ ~RatesValid(rates'))
    <3> DEFINE r == rates'
               f == StairCharges(p, r)
    <3>1. work' = Exact(f, TRUE) /\ quote' = Answered(f, TRUE, r.share, Shares)
      BY <1>3, <2>4 DEF PriceStair
    <3>2. RatesValid(r) /\ r \in Rates
      BY <2>2, <2>4
    <3>3. r.share \in [Shares -> Nat]
      <4>1. r.share \in [Shares -> Int] /\ \A s \in Shares : r.share[s] >= 0
        BY <3>2 DEF Rates, RatesValid
      <4> QED
        BY <4>1
    <3>4. Charges(f)
      BY <3>2, StairIsCharged
    <3> HIDE DEF f
    <3> QED
      BY <1>1, <2>2, <3>1, <3>3, <3>4, PriceGiven
  <2> QED
    BY <2>3, <2>4
<1> QED
  BY <1>2, <1>3

\* A project is priced right.
LEMMA CalculateHolds ==
    ASSUME PricingAssumption, PriceIsRight, NEW pp \in ItemProjects, CalculateBreakdown(pp)
    PROVE  PriceIsRight'
<1>1. form \in Forms /\ form' = form /\ rates' = [DefaultRates EXCEPT !.share = pp.share]
  BY DEF CalculateBreakdown, PriceIsRight, PricingTypeOK
<1>2. DefaultRates \in Rates /\ pp.share \in [Shares -> Int]
  BY DEF PricingAssumption
<1>3. rates' \in Rates /\ rates'.share = pp.share
  BY <1>1, <1>2 DEF Rates
<1>4. CASE ProjectValid(pp)
  <2> DEFINE f == ProjectCharges(pp)
             always == {"overhead", "margin"}
  <2>1. work' = Exact(f, FALSE) /\ quote' = Answered(f, FALSE, pp.share, always)
    BY <1>4 DEF CalculateBreakdown
  <2>2. Charges(f)
    BY <1>4, ProjectIsCharged
  <2>3. pp.share \in [Shares -> Nat] /\ always \in SUBSET Shares
    BY <1>2, <1>4 DEF ProjectValid, Shares
  <2> HIDE DEF f, always
  <2> QED
    BY <1>1, <1>3, <2>1, <2>2, <2>3, PriceGiven
<1>5. CASE ~ProjectValid(pp)
  <2>1. work' = NoWork /\ quote' = Refused("invalid_items")
    BY <1>5 DEF CalculateBreakdown
  <2> QED
    BY <1>1, <1>3, <2>1, NoPrice
<1> QED
  BY <1>4, <1>5

\* A stair has a price unless there is a reason for none, and the price is the exact one up
\* to its four roundings (PriceStair, CalculateBreakdown).
THEOREM PricesRight ==
    ASSUME PricingAssumption
    PROVE  PriceSpec => []PriceIsRight
<1>1. PriceInit => PriceIsRight
  BY PriceInitHolds
<1>2. PriceIsRight /\ [PriceNext]_priceVars => PriceIsRight'
  <2> SUFFICES ASSUME PriceIsRight, [PriceNext]_priceVars PROVE PriceIsRight'
    OBVIOUS
  <2>1. CASE UNCHANGED priceVars
    BY <2>1 DEF priceVars, PriceIsRight, PricingTypeOK, PriceIsExact, RefusedForAReason, InRange
  <2>2. ASSUME NEW p \in Packages, PriceStair(p) PROVE PriceIsRight'
    BY <2>2, PriceStairHolds
  <2>3. ASSUME NEW pp \in ItemProjects, CalculateBreakdown(pp) PROVE PriceIsRight'
    BY <2>3, CalculateHolds
  <2> QED
    BY <2>1, <2>2, <2>3 DEF PriceNext
<1> QED
  BY <1>1, <1>2, PTL DEF PriceSpec
=============================================================================
