----------------------------- MODULE MCFactories -----------------------------
(***************************************************************************)
(* Instances of Factories for TLC: two modules that have one component each *)
(* and a provider that is in neither.                                      *)
(***************************************************************************)
EXTENDS Factories, TLC

\* Symmetric: no constant below mentions a call.
Symmetry == Permutations(Call)

\* foo is a component of m1 and ping, which a dependency makes transient, of m2.
MCComponentsOf == [m1 |-> {"foo"}, m2 |-> {"ping"}]

MCModule == DOMAIN MCComponentsOf

MCLifetime ==
    [foo |-> "Singleton", ping |-> "Transient", log |-> "Event"]
===============================================================================
