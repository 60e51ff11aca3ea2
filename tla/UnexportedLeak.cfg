\* A module that exports itself and imports another.
SPECIFICATION ProvidersSpec
CONSTANTS
    Undefined = Undefined
    RootModule = "app"
    ModuleClass <- MCModule
    ProviderToken <- MCToken
    InjectionToken <- MCInjectionToken
    Resolvable <- MCProvider
    ProviderTokenOf <- MCTokenOf
    ProvidedIn <- MCProvidedIn
    Component = {"router", "handler"}
    ComponentsOf <- MCComponentsOf
    OwnProviders <- MCOwnProviders
    Global <- MCGlobal
    Apps <- MCApps
INVARIANT
    OnlyExportsAreProvided
\* The application is loaded, or refused.
CHECK_DEADLOCK FALSE
