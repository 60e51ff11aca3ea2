\* All applications of a root module and three others.
SPECIFICATION ProvidersSpec
CONSTANTS
    Undefined = Undefined
    RootModule = "app"
    ModuleClass <- MCModule
    ProviderToken <- MCToken
    InjectionToken <- MCInjectionToken
    Resolvable <- MCProvider
    ProviderTokenOf <- MCTokenOf
    ProvidedIn <- MCProvidedIn
    Component = {"router", "handler"}
    ComponentsOf <- MCComponentsOf
    OwnProviders <- MCOwnProviders
    Global <- MCGlobal
    Apps <- MCApps
INVARIANTS
    ProvidersTypeOK
    ProvidedAsExported
PROPERTY
    RefsStay
\* The application is loaded, or refused.
CHECK_DEADLOCK FALSE
