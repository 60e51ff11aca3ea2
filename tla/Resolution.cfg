\* Two requests, in an event or outside, for providers with every shape of
\* dependency, interleaved at their awaits.
SPECIFICATION FairSpec
CONSTANTS
    MaxCalls = 10
    MaxRequests = 2
    MaxLazyGets = 1
    Nil = Nil
    Provider <- MCProvider
    Injector <- MCInjector
    Context <- MCContext
    Lifetime <- MCLifetime
    Deps <- MCDeps
    Alias <- MCAlias
    Hooked <- MCHooked
    Fallible <- MCFallible
    ModuleScoped <- MCModuleScoped
    ContextBound <- MCContextBound
    Parent <- MCParent
    Component <- MCComponent
    Host <- MCHost
    Records <- MCRecords
    BoundIn <- MCBoundIn
    ContextParent <- MCContextParent
    Asked <- MCAsked
INVARIANTS
    TypeOK
    GraphIsSound
PROPERTIES
    EveryCallEnds
    ImplementsInstanceCache
\* All requests may have ended.
CHECK_DEADLOCK FALSE
