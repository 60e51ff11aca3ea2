\* Every interleaving of three calls for every kind of binding, in two injectors,
\* in an event and outside of one.
SPECIFICATION Spec
CONSTANTS
    Call = {c1, c2, c3}
    Injector = {i1, i2}
    Context = {e1}
    Nil = Nil
    Binding <- MCBinding
    Lifetime <- MCLifetime
    DepLifetime <- MCDepLifetime
    WithDeps <- MCWithDeps
    Hooked <- MCHooked
    Nullish <- MCNullish
SYMMETRY Symmetry
INVARIANTS
    TypeOK
    SharingIsSound
PROPERTY
    SettledForever
\* All calls may have ended.
CHECK_DEADLOCK FALSE
