---------------------------- MODULE InstanceCache ----------------------------
(***************************************************************************)
(* The instance cache of the dependency injector: what one call of         *)
(* `ɵcreateBindingInstance` does to the `_instances` map of a `Binding`,   *)
(* for any number of calls that interleave at their awaits.                *)
(*                                                                         *)
(* A call checks the cache, awaits its dependencies, awaits the factory,   *)
(* awaits the `afterResolution` hook of the instance and only then stores  *)
(* it: between the check and the store every other call may run.  How the  *)
(* dependencies are found is abstracted to one await here; `Resolution`    *)
(* gives it in full and implements this module.                            *)
(*                                                                         *)
(* Every call makes at most one instance, so the identity of the call that *)
(* made an instance serves as the identity of the instance.                *)
(***************************************************************************)

CONSTANTS
    Call,        \* calls of ɵcreateBindingInstance; each runs once
    Binding,     \* the bindings of all injectors
    Injector,    \* module and component injectors
    Context,     \* the context injectors, one per event
    Nil,         \* null: no context, no cached instance, a null instance
    Lifetime,    \* the lifetime of every binding
    DepLifetime, \* findMostTransientDependencyLifetime of its dependencies
    WithDeps,    \* the bindings that have dependencies
    Hooked,      \* the bindings whose instances have an afterResolution hook
    Nullish      \* the bindings whose factory returns null or undefined

Lifetimes == {"Singleton", "Event", "Scoped", "Transient"}

\* The key of a cached instance.  Nil stands for SINGLETON_BINDING_CONTEXT,
\* which getInstance and setInstance put in the place of a null context.
Key == Injector \union Context \union {Nil}

\* What a caller asks for: the arguments of ɵcreateBindingInstance.
Request == [binding: Binding, injector: Injector, ctx: Context \union {Nil}]

ASSUME NilAssumption ==
    Nil \notin Call \union Injector \union Context \union Request

\* A context injector is never the injector of a call: ContextInjector.get
\* passes its parent as the injector and itself as the context.
ASSUME ContextAssumption == Injector \intersect Context = {}

\* A binding without dependencies has a dependency lifetime of Singleton, the
\* value findMostTransientDependencyLifetime starts from.
ASSUME BindingAssumption ==
    /\ Lifetime \in [Binding -> Lifetimes]
    /\ DepLifetime \in [Binding -> {"Singleton", "Event", "Transient"}]
    /\ WithDeps \subseteq Binding
    /\ Hooked \subseteq Binding
    /\ Nullish \subseteq Binding
    /\ \A b \in Binding \ WithDeps : DepLifetime[b] = "Singleton"

------------------------------------------------------------------------------

IsTransientByDependency(b) == DepLifetime[b] = "Transient"

\* Variant: the lifetime the provider itself declares is forgotten.
IsTransientUndeclared(b) == IsTransientByDependency(b)

IsTransient(b) == Lifetime[b] = "Transient" \/ IsTransientByDependency(b)

IsDependencyTreeStatic(b) == b \notin WithDeps \/ DepLifetime[b] = "Singleton"

\* Variant: the context is the key of every lifetime.
LookupKeyByContext(q) == q.ctx

\* Scoped instances are kept per injector, all others per context.
LookupKey(q) == IF Lifetime[q.binding] = "Scoped" THEN q.injector ELSE q.ctx

\* Variant: the static dependency tree is not considered.
ReusableInContext(q) ==
    q.ctx = LookupKey(q) /\ ~IsTransientByDependency(q.binding)

\* Whether an instance found under the key of the request may be returned.
Reusable(q) ==
    \/ IsDependencyTreeStatic(q.binding)
    \/ q.ctx = LookupKey(q) /\ ~IsTransientByDependency(q.binding)

\* The hook is looked at only on the path of bindings with dependencies.
HasHook(b) == b \in Hooked \intersect WithDeps

------------------------------------------------------------------------------

VARIABLES
    instances, \* the `_instances` map of every binding
    pc,        \* how far every call is
    request,   \* what every call was asked for
    result,    \* the instance a call that is done returned
    earlier    \* history: the calls that were done when a call began

vars == <<instances, pc, request, result, earlier>>

InFlight == {"deps", "factory", "hook"}

TypeOK ==
    /\ instances \in [Binding -> [Key -> Call \union {Nil}]]
    /\ pc \in [Call -> {"idle", "done", "failed"} \union InFlight]
    /\ request \in [Call -> Request \union {Nil}]
    /\ result \in [Call -> Call \union {Nil}]
    /\ earlier \in [Call -> SUBSET Call]

Init ==
    /\ instances = [b \in Binding |-> [k \in Key |-> Nil]]
    /\ pc = [c \in Call |-> "idle"]
    /\ request = [c \in Call |-> Nil]
    /\ result = [c \in Call |-> Nil]
    /\ earlier = [c \in Call |-> {}]

GetInstance(q) == instances[q.binding][LookupKey(q)]

SetInstance(q, i) ==
    instances' = [instances EXCEPT ![q.binding][LookupKey(q)] = i]

Ask(c, q) ==
    /\ pc[c] = "idle"
    /\ request' = [request EXCEPT ![c] = q]
    /\ earlier' = [earlier EXCEPT ![c] = {d \in Call : pc[d] = "done"}]

\* The cache holds a usable instance: the call returns it at once.
Hit(c, q) ==
    /\ Ask(c, q)
    /\ GetInstance(q) # Nil
    /\ Reusable(q)
    /\ pc' = [pc EXCEPT ![c] = "done"]
    /\ result' = [result EXCEPT ![c] = GetInstance(q)]
    /\ UNCHANGED instances

\* It does not: the call goes on to its dependencies, or to the factory.
Miss(c, q) ==
    /\ Ask(c, q)
    /\ GetInstance(q) = Nil \/ ~Reusable(q)
    /\ pc' = [pc EXCEPT ![c] = IF q.binding \in WithDeps THEN "deps"
                                                         ELSE "factory"]
    /\ UNCHANGED <<instances, result>>

\* ɵresolveBindingDependencies has returned.
DependenciesResolved(c) ==
    /\ pc[c] = "deps"
    /\ pc' = [pc EXCEPT ![c] = "factory"]
    /\ UNCHANGED <<instances, request, result, earlier>>

\* Variant: what the factory returned is taken as it is.
ProducedUndefined(c) == IF request[c].binding \in Nullish THEN "undefined" ELSE c

Produced(c) == IF request[c].binding \in Nullish THEN Nil ELSE c

\* The call is over: the instance is kept, unless it is transient, and returned.
Return(c) ==
    /\ pc' = [pc EXCEPT ![c] = "done"]
    /\ result' = [result EXCEPT ![c] = Produced(c)]
    /\ IF IsTransient(request[c].binding)
         THEN UNCHANGED instances
         ELSE SetInstance(request[c], Produced(c))
    /\ UNCHANGED <<request, earlier>>

\* Variant: the instance is kept before its hook has run.
KeepAndAwaitHook(c) ==
    /\ pc' = [pc EXCEPT ![c] = "hook"]
    /\ SetInstance(request[c], Produced(c))
    /\ UNCHANGED <<request, result, earlier>>

\* The factory has returned an instance that has a hook, which is now awaited.
AwaitHook(c) ==
    /\ pc' = [pc EXCEPT ![c] = "hook"]
    /\ UNCHANGED <<instances, request, result, earlier>>

Construct(c) ==
    /\ pc[c] = "factory"
    /\ IF HasHook(request[c].binding) /\ Produced(c) # Nil
         THEN AwaitHook(c)
         ELSE Return(c)

HookReturned(c) == pc[c] = "hook" /\ Return(c)

\* A dependency, the factory or the hook has thrown.
Fail(c) ==
    /\ pc[c] \in InFlight
    /\ pc' = [pc EXCEPT ![c] = "failed"]
    /\ UNCHANGED <<instances, request, result, earlier>>

Next ==
    \E c \in Call :
        \/ \E q \in Request : Hit(c, q) \/ Miss(c, q)
        \/ DependenciesResolved(c)
        \/ Construct(c)
        \/ HookReturned(c)
        \/ Fail(c)

Spec == Init /\ [][Next]_vars

------------------------------------------------------------------------------

Done(c) == pc[c] = "done"

Served(c) == Done(c) /\ result[c] # Nil

\* Two requests that are to be given the same instance: the lifetime of the
\* binding decides whether they have to agree on the injector or on the event.
SameScope(q, r) ==
    /\ q.binding = r.binding
    /\ IF Lifetime[q.binding] = "Scoped" THEN q.injector = r.injector
                                         ELSE q.ctx = r.ctx

\* What the lifetime and the direct dependencies of a binding let a caller
\* share: not transient, and either static or kept per event.
Shareable(b) ==
    /\ Lifetime[b] # "Transient"
    /\ DepLifetime[b] # "Transient"
    /\ Lifetime[b] = "Scoped" => DepLifetime[b] = "Singleton"

\* If two calls of one scope were given different instances, the calls that
\* made these instances overlapped: neither was over when the other began.
\* (The check of the cache and the store are separated by awaits, so overlapping
\* calls may make an instance each; calls one after the other must not.)
OneInstanceUnlessOverlapping ==
    \A c, d \in Call :
        /\ Served(c) /\ Served(d)
        /\ SameScope(request[c], request[d])
        /\ Shareable(request[c].binding)
        /\ result[c] # result[d]
        => /\ result[c] \notin earlier[result[d]]
           /\ result[d] \notin earlier[result[c]]

\* No instance leaves its scope: what a call is given was made for the same
\* binding and, for a Scoped binding, in the same injector, for any other one,
\* for the same event.
Confinement ==
    \A c \in Call : Served(c) => SameScope(request[result[c]], request[c])

\* Bindings that are not shareable, a Transient one, one with a transient
\* dependency or a Scoped one with an event dependency, give every caller an
\* instance of its own.
FreshUnlessShareable ==
    \A c, d \in Call :
        /\ Served(c) /\ Served(d) /\ result[c] = result[d]
        /\ ~Shareable(request[c].binding)
        => c = d

\* Nobody, through the cache or not, is given an instance whose afterResolution
\* hook is still running or has thrown.
OnlyResolvedInstances ==
    \A c \in Call : Served(c) => Done(result[c])

\* Interleaved calls share instances as their lifetimes say (the check of
\* `_instances`, the awaits and the store of `ɵcreateBindingInstance`): one
\* instance per scope unless calls overlap, none beyond its scope, none shared
\* that must be fresh and none handed out before its hook has returned.
SharingIsSound ==
    /\ OneInstanceUnlessOverlapping
    /\ Confinement
    /\ FreshUnlessShareable
    /\ OnlyResolvedInstances

\* No call that found nothing for the scope of q is still on its way, and an
\* instance is kept.
Settled(q) ==
    /\ GetInstance(q) # Nil
    /\ \A c \in Call : pc[c] \in InFlight => ~SameScope(request[c], q)

\* Once all calls for a scope have ended and left an instance, it stays the
\* instance of that scope forever: a later call never replaces or drops it.
SettledForever ==
    [][\A q \in Request :
           Settled(q) /\ Shareable(q.binding)
           => Settled(q)' /\ GetInstance(q)' = GetInstance(q)]_vars

------------------------------------------------------------------------------

\* The promise of the Singleton lifetime, "shared among all modules": two calls
\* for a singleton binding, one after the other, get the same instance, in
\* whatever event they are made.
SingletonIsShared ==
    \A c, d \in Call :
        /\ Served(c) /\ Served(d) /\ c \in earlier[d]
        /\ request[c].binding = request[d].binding
        /\ Lifetime[request[c].binding] = "Singleton"
        /\ DepLifetime[request[c].binding] = "Singleton"
        => result[c] = result[d]
===============================================================================
