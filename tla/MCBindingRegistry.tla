--------------------------- MODULE MCBindingRegistry ---------------------------
(***************************************************************************)
(* BindingRegistry for TLC: a class and its superclass, a singleton that   *)
(* extends a class that is none, a root and a module provider, a multi     *)
(* token of either lifetime, what injectors bind themselves, an event      *)
(* provider and the two ways a context injector binds what an event        *)
(* provides.                                                               *)
(***************************************************************************)
EXTENDS BindingRegistry, TLC

MCTokenOf ==
    [Base |-> "Base", Sub |-> "Sub", stubSub |-> "Sub", Leaf |-> "Leaf",
     Scoped |-> "Scoped", multi1 |-> "Multi", multi2 |-> "Multi",
     default1 |-> "DefaultMulti", default2 |-> "DefaultMulti",
     moduleRef |-> "ModuleRef", self |-> "Injector", injector |-> "INJECTOR",
     message1 |-> "MessageCtx", message2 |-> "MessageCtx",
     prefix1 |-> "PrefixRef", prefix2 |-> "PrefixRef"]

MCProvider == DOMAIN MCTokenOf

MCToken == {MCTokenOf[p] : p \in MCProvider}

MCCustom == MCProvider \ {"Base", "Sub", "Leaf", "Scoped"}

MCSingleton ==
    {"Base", "Sub", "Leaf", "DefaultMulti", "INJECTOR", "MessageCtx", "PrefixRef"}

MCMulti == {"Multi", "DefaultMulti"}

MCRootScoped == {"Base", "Sub"}

MCSuper ==
    [t \in MCToken |-> CASE t = "Sub" -> "Base" [] t = "Leaf" -> "Scoped" [] OTHER -> None]

\* The injector of a module, and one of a component or without a module.
MCBuiltIn == [i1 |-> <<"moduleRef", "self", "injector">>, i2 |-> <<"self", "injector">>]

MCValues == [x1 |-> <<"message1">>, x2 |-> <<"message2">>]

MCFactories == [x1 |-> <<"prefix1">>, x2 |-> <<"prefix2">>]

\* Arrays with a provider that is refused in the middle, with a class before and
\* after its superclass, and with elements of a multi provider.
MCArrays ==
    {<<"Sub", "Leaf">>, <<"Base", "stubSub">>,
     <<"multi1", "default1", "Scoped", "default2", "multi2">>,
     <<"multi2", "default2", "Scoped", "Base">>}
===============================================================================
