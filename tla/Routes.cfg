SPECIFICATION Spec
CONSTANTS
    r1 = r1
    r2 = r2
    c1 = c1
    c2 = c2
    cmd = cmd
    app1 = app1
    app2 = app2
    event = event
    sub = sub
    orphan = orphan
    Nil = Nil
    Router <- MCRouter
    Method <- MCMethod
    KindOf <- MCKindOf
    Parent <- MCParent
    Layouts <- MCDisjoint
    Call = {c1, c2}
INVARIANTS
    TypeOK
    EndsAsBound
PROPERTIES
    NothingIsUndone
    ExplorationEnds
CHECK_DEADLOCK FALSE
