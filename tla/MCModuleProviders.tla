-------------------------- MODULE MCModuleProviders --------------------------
(***************************************************************************)
(* Applications for ModuleProviders: a root module and three others in all *)
(* the ways they can import and export each other, with a provider of      *)
(* every scope.                                                            *)
(***************************************************************************)
EXTENDS ModuleProviders, Relation

MCModule == {"app", "a", "b", "c"}

MCInjectionToken == {"T", "U"}

MCToken == MCModule \union {"K", "R", "X"} \union MCInjectionToken

MCTokenOf ==
    [p \in {"t1", "t2", "u1", "k1"} \union (MCToken \ MCInjectionToken) |->
        CASE p \in {"t1", "t2"} -> "T"
          [] p = "u1" -> "U"
          [] p = "k1" -> "K"
          [] OTHER -> p]

MCProvider == DOMAIN MCTokenOf

\* T and K are provided in modules, U in the module c only, X in events.
MCProvidedIn ==
    [t \in MCToken |-> CASE t \in {"T", "K"} -> "module"
                         [] t = "U" -> "c"
                         [] t = "X" -> "ctx"
                         [] OTHER -> "root"]

MCComponentsOf == [m \in MCModule |-> IF m = "b" THEN {"router"} ELSE {"handler"}]

MCOwnProviders == [c \in {"router", "handler"} |-> IF c = "router" THEN <<"K">> ELSE <<>>]

MCGlobal == <<"R">>

\* t1 and t2 are providers of the same token, k1 is a custom provider of class K.
MCProviders ==
    {[app |-> <<>>, a |-> <<"K">>, b |-> <<"t1", "X">>, c |-> <<"t2", "R">>],
     [app |-> <<"R">>, a |-> <<>>, b |-> <<"R">>, c |-> <<"k1", "u1", "R">>]}

MCImports ==
    [app : {<<"a", "b", "c">>, <<"c", "b", "a">>, <<"b", "a">>, <<"a", "b">>, <<"a">>},
     a : {<<>>, <<"b">>, <<"c">>, <<"b", "c">>, <<"c", "b">>},
     b : {<<>>, <<"c">>, <<"a">>},
     c : {<<>>}]

MCExports ==
    [app : {<<>>},
     a : {<<>>, <<"a">>, <<"K">>, <<"b">>, <<"K", "c">>, <<"T">>},
     b : {<<>>, <<"b">>, <<"T">>, <<"c", "X">>, <<"K">>},
     c : {<<>>, <<"c">>, <<"T", "R">>, <<"U">>}]

Reaches(f) == TransitiveClosure([m, n \in MCModule |-> n \in ToSet(f[m])], MCModule)

MCApps ==
    [imports : {f \in MCImports : \A m \in MCModule \ {"app"} : Reaches(f)["app", m]},
     exports : MCExports, providers : MCProviders]
===============================================================================
