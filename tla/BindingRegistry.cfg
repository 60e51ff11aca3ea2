\* Two module injectors and two events bind the arrays in every order.
SPECIFICATION RegistrySpec
CONSTANTS
    Injector = {"i1", "i2"}
    Context = {"x1", "x2"}
    None = None
    Multi <- MCMulti
    MaxBinds = 2
    BuiltIn <- MCBuiltIn
    Token <- MCToken
    Provider <- MCProvider
    TokenOf <- MCTokenOf
    Custom <- MCCustom
    Singleton <- MCSingleton
    RootScoped <- MCRootScoped
    Super <- MCSuper
    Values <- MCValues
    Factories <- MCFactories
    Arrays <- MCArrays
INVARIANTS
    RegistryTypeOK
    BindingsAreShared
PROPERTY
    RecordsGrow
\* bind is called MaxBinds times.
CHECK_DEADLOCK FALSE
