SPECIFICATION Spec
CONSTANTS
    Users = {owner, ann, bob}
    Creator = owner
    Calls = {c1, c2}
    None = None
SYMMETRY Symmetry
PROPERTIES
    FrozenInReview
