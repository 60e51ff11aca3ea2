----------------------------- MODULE MCModuleScan -----------------------------
(***************************************************************************)
(* Applications for ModuleScan: a root module, two classes, a module that  *)
(* is imported as a dynamic module and as a promise of one with other      *)
(* imports, a class that is no module and a promise that is rejected.      *)
(***************************************************************************)
EXTENDS ModuleScan

MCModuleOf ==
    [app |-> "App", a |-> "A", b |-> "B", dynamic |-> "D", promise |-> "D",
     class |-> "C", rejected |-> "R"]

MCMetatype == DOMAIN MCModuleOf

MCModule == {MCModuleOf[m] : m \in MCMetatype}

MCPromised == {"promise", "rejected"}

MCUnusable == {"rejected"}

MCUnknown == {"class"}

\* What every metatype may import: other modules in two orders, themselves, the
\* root module, a class that is imported twice, and what is no module.
MCImports ==
    [app : {<<"a", "b">>, <<"dynamic", "a", "promise">>},
     a : {<<"b", "dynamic">>, <<"a", "b">>, <<"app">>, <<"b", "b">>, <<"class">>},
     b : {<<>>, <<"a">>, <<"promise", "b">>, <<"rejected">>},
     dynamic : {<<>>, <<"b">>, <<"dynamic">>},
     promise : {<<>>, <<"app", "b">>},
     class : {<<>>}, rejected : {<<>>}]
===============================================================================
