\* A provider that is kept across events reaches an event provider.
SPECIFICATION Spec
CONSTANTS
    MaxCalls = 7
    MaxRequests = 2
    MaxLazyGets = 1
    Nil = Nil
    Provider <- MCProvider
    Injector <- MCInjector
    Context <- MCEvents
    Lifetime <- MCLifetime
    Deps <- MCDeps
    Alias <- MCAlias
    Hooked <- MCHooked
    Fallible <- MCFallible
    ModuleScoped <- MCModuleScoped
    ContextBound <- MCContextBound
    Parent <- MCParent
    Component <- MCComponent
    Host <- MCHost
    Records <- MCRecords
    BoundIn <- MCBoundIn
    ContextParent <- MCEventParent
    Asked <- MCAskedInEvents
INVARIANT
    NoInstanceOfAnotherEvent
\* All requests may have ended.
CHECK_DEADLOCK FALSE
