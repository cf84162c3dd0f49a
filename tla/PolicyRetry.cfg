SPECIFICATION Spec
CONSTANTS
    p1 = p1
    p2 = p2
    p3 = p3
    c1 = c1
    c2 = c2
    c2b = c2b
    c3 = c3
    d0 = d0
    d1 = d1
    ra = ra
    rb = rb
    NoCmd = NoCmd
    NotSuperseded = NotSuperseded
    Pushes = {p1, p2, p3}
    Commands = {c1, c2, c2b, c3, d0, d1}
    Rules = {ra, rb}
    RuleOf <- MCRuleOf
    VersionOf <- MCVersionOf
    FaultsOn = TRUE
SYMMETRY PushSymmetry
INVARIANTS
    DuplicateIsComplete
CHECK_DEADLOCK FALSE
