--------------------------- MODULE MCInstanceCache ---------------------------
(***************************************************************************)
(* Instances of InstanceCache for TLC: one binding of every kind that the  *)
(* code tells apart.                                                       *)
(***************************************************************************)
EXTENDS InstanceCache, TLC

\* Symmetric: no constant below mentions a call, an injector or a context.
Symmetry == Permutations(Call) \union Permutations(Injector)

\* A static singleton with a dependency and a hook, an event provider, a scoped
\* provider with a dependency, a transient provider, a scoped provider with an
\* event dependency, a singleton that a dependency makes transient, and one whose
\* factory returns null.  The hook of trans is never called: it has no dependencies.
MCLifetime ==
    [single |-> "Singleton", event |-> "Event", scoped |-> "Scoped",
     trans |-> "Transient", scopedEvent |-> "Scoped", singleTrans |-> "Singleton",
     nullish |-> "Singleton"]

MCBinding == DOMAIN MCLifetime

MCDepLifetime ==
    [b \in MCBinding |->
        CASE b = "scopedEvent" -> "Event"
          [] b = "singleTrans" -> "Transient"
          [] OTHER -> "Singleton"]

MCWithDeps == {"single", "scoped", "scopedEvent", "singleTrans"}

MCHooked == {"single", "trans"}

MCNullish == {"nullish"}
===============================================================================
