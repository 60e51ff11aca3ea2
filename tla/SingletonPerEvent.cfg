\* Two calls for a singleton, one after the other, in an event and outside of one.
SPECIFICATION Spec
CONSTANTS
    Call = {c1, c2}
    Injector = {i1, i2}
    Context = {e1}
    Nil = Nil
    Binding <- MCBinding
    Lifetime <- MCLifetime
    DepLifetime <- MCDepLifetime
    WithDeps <- MCWithDeps
    Hooked <- MCHooked
    Nullish <- MCNullish
INVARIANT
    SingletonIsShared
\* All calls may have ended.
CHECK_DEADLOCK FALSE
