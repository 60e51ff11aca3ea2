\* Every interleaving of three calls on the resolvers of two modules.
SPECIFICATION Spec
CONSTANTS
    Call = {c1, c2, c3}
    Module <- MCModule
    Component = {"foo", "ping"}
    Provider = {"log"}
    ComponentsOf <- MCComponentsOf
    Injector = {i1}
    Context = {e1}
    Lazy = {l1}
    Own = Own
    Nil = Nil
    Lifetime <- MCLifetime
SYMMETRY Symmetry
INVARIANTS
    TypeOK
    OneUnlessOverlapping
    ScopesAreKept
\* All calls may have ended.
CHECK_DEADLOCK FALSE
