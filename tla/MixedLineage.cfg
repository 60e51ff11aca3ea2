\* A singleton extends a class that is bound once per injector.
SPECIFICATION RegistrySpec
CONSTANTS
    Injector = {"i1", "i2"}
    Context = {"x1", "x2"}
    None = None
    Multi <- MCMulti
    MaxBinds = 2
    BuiltIn <- MCBuiltIn
    Token <- MCToken
    Provider <- MCProvider
    TokenOf <- MCTokenOf
    Custom <- MCCustom
    Singleton <- MCSingleton
    RootScoped <- MCRootScoped
    Super <- MCSuper
    Values <- MCValues
    Factories <- MCFactories
    Arrays <- MCArrays
INVARIANT
    AllSingletonsAgree
\* bind is called MaxBinds times.
CHECK_DEADLOCK FALSE
