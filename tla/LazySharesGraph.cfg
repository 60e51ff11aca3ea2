\* A lazy dependency is got while its graph is in use.
SPECIFICATION Spec
CONSTANTS
    MaxCalls = 8
    MaxRequests = 2
    MaxLazyGets = 1
    Nil = Nil
    Provider <- MCProvider
    Injector <- MCInjector
    Context <- MCContext
    Lifetime <- MCLifetime
    Deps <- MCDeps
    Alias <- MCAlias
    Hooked <- MCHooked
    Fallible <- MCFallible
    ModuleScoped <- MCModuleScoped
    ContextBound <- MCContextBound
    Parent <- MCParent
    Component <- MCComponent
    Host <- MCHost
    Records <- MCRecords
    BoundIn <- MCBoundIn
    ContextParent <- MCContextParent
    Asked <- MCAsked
INVARIANT
    NoCycleWithoutDependencies
\* All requests may have ended.
CHECK_DEADLOCK FALSE
