\* Two accounts, two requests at a time, one new password each.
CONSTANTS
    boss = boss
    Users = {boss, ann}
    Boss = boss
    Roles = {"admin", "viewer"}
    Requests = {r1, r2}
    MaxPasswords = 1
SPECIFICATION Spec
INVARIANTS
    TypeOK
    AdminRemains
    OneRole
    DecisionsHold
    StartsUndisturbed
SYMMETRY MCSymmetry
CHECK_DEADLOCK FALSE
