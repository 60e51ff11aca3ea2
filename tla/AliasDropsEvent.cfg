\* One request: a useExisting provider that is asked for in an event.
SPECIFICATION Spec
CONSTANTS
    MaxCalls = 10
    MaxRequests = 1
    MaxLazyGets = 1
    Nil = Nil
    Provider <- MCProvider
    Injector <- MCInjector
    Context <- MCContext
    Lifetime <- MCLifetime
    Deps <- MCDeps
    Alias <- MCAlias
    Hooked <- MCHooked
    Fallible <- MCFallible
    ModuleScoped <- MCModuleScoped
    ContextBound <- MCContextBound
    Parent <- MCParent
    Component <- MCComponent
    Host <- MCHost
    Records <- MCRecords
    BoundIn <- MCBoundIn
    ContextParent <- MCContextParent
    Asked <- MCAsked
INVARIANTS
    AliasIsOfItsEvent
\* All requests may have ended.
CHECK_DEADLOCK FALSE
