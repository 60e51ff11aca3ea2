------------------------------- MODULE MCRoutes -------------------------------
(* A small instance of Routes for TLC: two routers, two calls of explore and     *)
(* every way to give each router up to three methods out of six.                 *)
EXTENDS Routes, FiniteSets, TLC

CONSTANTS r1, r2, c1, c2, cmd, app1, app2, event, sub, orphan

MCRouter == {r1, r2}
MCMethod == {cmd, app1, app2, event, sub, orphan}
MCKindOf == cmd :> "command" @@ app1 :> "application" @@ app2 :> "application"
            @@ event :> "event" @@ sub :> "sub" @@ orphan :> "sub"

\* One sub-command is that of app2, the other that of a command.
MCParent == [m \in MCMethod |-> IF m = sub THEN app2 ELSE IF m = orphan THEN cmd ELSE Nil]

\* The methods in an order in which they are declared.
MCOrder == <<orphan, sub, event, app1, app2, cmd>>
MCDeclared(S) == SelectSeq(MCOrder, LAMBDA m : m \in S)

MCLayouts ==
    {<<[router |-> r1, methods |-> MCDeclared(S)], [router |-> r2, methods |-> MCDeclared(T)]>> :
        S \in {X \in SUBSET MCMethod : Cardinality(X) <= 3},
        T \in {X \in SUBSET MCMethod : Cardinality(X) <= 3}}

\* A method belongs to one router.
MCDisjoint == {l \in MCLayouts : ToSet(l[1].methods) \intersect ToSet(l[2].methods) = {}}
===============================================================================
