------------------------------ MODULE Resolution ------------------------------
(***************************************************************************)
(* Resolving a provider: the recursion of `ɵcreateBindingInstance` through *)
(* `ɵresolveBindingDependencies` and `Injector.get`, with the dependency   *)
(* graph that detects cycles, `@Lazy`, `@Optional`, `@Self`, `@SkipSelf`   *)
(* and `@Host` dependencies, `useExisting` providers, context-bound        *)
(* providers, failures, and any number of resolutions in flight.           *)
(*                                                                         *)
(* Every invocation of ɵcreateBindingInstance is a call of its own, which  *)
(* awaits the call for its next dependency.  JavaScript runs a call until  *)
(* its next await: `running` is the call that is in the middle of such a   *)
(* run, and no other call takes a step before it has reached an await.     *)
(*                                                                         *)
(* Not here: `multi` providers (one call after the other for the elements  *)
(* of the array), dependencies on the InquirerContext itself (they touch   *)
(* neither the graph nor any instance) and what the injectors' records     *)
(* hold (they are constants).                                              *)
(***************************************************************************)
EXTENDS Naturals, Sequences, FiniteSets

CONSTANTS
    MaxCalls,     \* bound: calls of ɵcreateBindingInstance in a behaviour
    MaxRequests,  \* bound: requests from outside
    MaxLazyGets,  \* bound: requests for lazy dependencies
    Provider,     \* tokens
    Injector,     \* module and component injectors
    Context,      \* context injectors, one per event
    Nil,          \* null, NOT_FOUND and the NullInjector
    Lifetime,     \* InjectorLifetime of every token
    Deps,         \* the dependencies of every token, in order, with their flags
    Alias,        \* the tokens of useExisting providers, with their targets
    Hooked,       \* the tokens whose instances have an afterResolution hook
    Fallible,     \* the tokens whose factory or hook may throw
    ModuleScoped, \* providedIn "module"
    ContextBound, \* providedIn "ctx"
    Parent,       \* the parent of every injector
    Component,    \* the injectors of components
    Host,         \* the injector of the ModuleRef that every injector resolves,
                  \* Nil where neither it nor one above it has a ModuleRef
    Records,      \* the injectors and tokens such that the injector has a binding
    BoundIn,      \* the contexts and tokens bound in the context
    ContextParent,\* the injector every context injector was created with
    Asked         \* bound: the tokens requested from outside, with the injector
                  \* and the context of the request

Call == 1..MaxCalls

Flags == {"Lazy", "Optional", "Self", "SkipSelf", "Host"}

ASSUME BoundAssumption == {MaxCalls, MaxRequests, MaxLazyGets} \subseteq Nat \ {0}

ASSUME ProviderAssumption ==
    /\ Lifetime \in [Provider -> {"Singleton", "Event", "Scoped", "Transient"}]
    /\ Deps \in [Provider -> Seq([on: Provider, flags: SUBSET Flags])]
    /\ DOMAIN Alias \subseteq Provider \ ContextBound
    /\ \A p \in DOMAIN Alias : Alias[p] \in Provider /\ Deps[p] = <<>>
    /\ Hooked \subseteq Provider /\ Fallible \subseteq Provider
    /\ ModuleScoped \subseteq Provider /\ ContextBound \subseteq Provider

ASSUME InjectorAssumption ==
    /\ Parent \in [Injector -> Injector \union {Nil}]
    /\ Host \in [Injector -> Injector \union {Nil}]
    /\ Component \subseteq Injector
    /\ Records \subseteq Injector \X (Provider \ ContextBound)
    /\ BoundIn \subseteq Context \X ContextBound
    /\ ContextParent \in [Context -> Injector]
    /\ Injector \intersect Context = {}
    /\ Asked \subseteq
           [provider: Provider, injector: Injector, ctx: Context \union {Nil}]

\* An injector is made after its parent, so the chains of parents end.
ASSUME ParentAssumption ==
    \A S \in SUBSET Injector : S # {} => \E i \in S : Parent[i] \notin S

------------------------------------------------------------------------------
(* Bindings *)

\* The lifetimes of the direct dependencies only; a transient one settles it.
FindMostTransientDependencyLifetime(p) ==
    LET deps == {Deps[p][i].on : i \in DOMAIN Deps[p]}
    IN  IF \E d \in deps : Lifetime[d] = "Transient" THEN "Transient"
        ELSE IF \E d \in deps : Lifetime[d] = "Event" \/ d \in ContextBound
             THEN "Event"
             ELSE "Singleton"

HasDependencies(p) == Deps[p] # <<>>

\* The binding of a token.  Singleton bindings live on the token, all others in
\* the injector, or context, that holds them.
BindingOf(p, owner) ==
    <<p, IF Lifetime[p] = "Singleton" /\ p \notin ContextBound THEN Nil ELSE owner>>

Binding ==
    {BindingOf(r[2], r[1]) : r \in Records \union BoundIn}

Key == Injector \union Context \union {Nil}

------------------------------------------------------------------------------
(* Lookup *)

\* ɵallowProviderResolutionInParent, without the flags: a module injector does
\* not look for a module scoped token in its parent.
StopsAt(i, p) == p \in ModuleScoped /\ i \notin Component /\ Parent[i] # Nil

\* The injector at or above i that has a binding for p.  The flags of a
\* dependency are not handed on to the parent.
Owner[r \in Injector \X Provider] ==
    IF r \in Records THEN r[1]
    ELSE IF Parent[r[1]] = Nil \/ StopsAt(r[1], r[2]) THEN Nil
    ELSE Owner[<<Parent[r[1]], r[2]>>]

OwnerFrom(i, p, flags) ==
    IF "Self" \in flags /\ <<i, p>> \notin Records THEN Nil ELSE Owner[<<i, p>>]

\* What a request for p in injector i resolves to, if anything: where the binding
\* is, the injector that resolves its dependencies, and whether the request goes
\* on with the dependency graph of its caller or with a new one.
Located(i, p, ctx, flags) ==
    IF i = Nil THEN {}
    ELSE IF p \in ContextBound
    THEN IF ctx # Nil /\ <<ctx, p>> \in BoundIn
           THEN {[provider |-> p, owner |-> ctx, injector |-> ContextParent[ctx],
                  ctx |-> ctx, newGraph |-> TRUE]}
           ELSE {}
    ELSE LET o == OwnerFrom(i, p, flags)
         IN  IF o = Nil THEN {}
             ELSE {[provider |-> p, owner |-> o, injector |-> o,
                    ctx |-> ctx, newGraph |-> FALSE]}

\* A context-bound token that its context does not bind is looked for in the
\* parent injector, which hands it back to the context: the stack overflows.
LoopsBetweenInjectors(p, ctx) ==
    p \in ContextBound /\ ctx # Nil /\ <<ctx, p>> \notin BoundIn

------------------------------------------------------------------------------

VARIABLES
    pc,        \* how far every call is
    task,      \* what every call resolves, for which call, with which graph
    next,      \* the index of the dependency a call is at
    child,     \* the call that a waiting call awaits
    args,      \* the instances a call has collected for its factory
    result,    \* the call that made the instance a call returned
    instances, \* the `_instances` maps
    graph,     \* how often a token is in the DependencyGraph made by a call
    lazies,    \* the ɵLazy objects
    running,   \* the call that has not reached an await yet
    failure,   \* why a call failed
    earlier    \* history: the calls that were done when a call began

vars == <<pc, task, next, child, args, result, instances, graph, lazies, running,
          failure, earlier>>

Task == [provider: Provider, owner: Injector \union Context, injector: Injector,
         ctx: Context \union {Nil}, graph: Call, by: {"outside", "lazy", "call"}]

Lazy == [provider: Provider, injector: Injector \union {Nil},
         ctx: Context \union {Nil}, graph: Call, flags: SUBSET Flags, holder: Call]

ASSUME NilAssumption ==
    /\ Nil \notin Call /\ Nil \notin Provider
    /\ Nil \notin Injector \union Context /\ Nil \notin Task
    /\ Nil \notin [binding: Provider \X (Injector \union Context \union {Nil}),
                   injector: Injector, ctx: Context \union {Nil}]

InFlight == {"deps", "hosted", "absent", "waiting", "alias", "factory", "hook"}

TypeOK ==
    /\ pc \in [Call -> {"idle", "done", "failed"} \union InFlight]
    /\ task \in [Call -> Task \union {Nil}]
    /\ next \in [Call -> Nat]
    /\ child \in [Call -> Call \union {Nil}]
    /\ args \in [Call -> SUBSET Call]
    /\ result \in [Call -> Call \union {Nil}]
    /\ instances \in [Binding -> [Key -> Call \union {Nil}]]
    /\ graph \in [Call -> [Provider -> Nat]]
    /\ lazies \subseteq Lazy
    /\ running \in Call \union {Nil}
    /\ failure \in
           [Call -> {Nil, "host", "circular", "missing", "thrown", "dependency"}]
    /\ earlier \in [Call -> SUBSET Call]

Init ==
    /\ pc = [c \in Call |-> "idle"]
    /\ task = [c \in Call |-> Nil]
    /\ next = [c \in Call |-> 1]
    /\ child = [c \in Call |-> Nil]
    /\ args = [c \in Call |-> {}]
    /\ result = [c \in Call |-> Nil]
    /\ instances = [b \in Binding |-> [k \in Key |-> Nil]]
    /\ graph = [c \in Call |-> [p \in Provider |-> 0]]
    /\ lazies = {}
    /\ running = Nil
    /\ failure = [c \in Call |-> Nil]
    /\ earlier = [c \in Call |-> {}]

------------------------------------------------------------------------------
(* The dependency graph *)

Add(graphs, g, p) == [graphs EXCEPT ![g][p] = @ + 1]

\* Variant: splice is called with whatever indexOf has returned.
RemoveUnchecked(graphs, g, p) == [graphs EXCEPT ![g][p] = @ - 1]

Remove(graphs, g, p) == [graphs EXCEPT ![g][p] = IF @ = 0 THEN 0 ELSE @ - 1]

Has(g, p) == graph[g][p] > 0

------------------------------------------------------------------------------
(* ɵcreateBindingInstance *)

BindingOfTask(t) == BindingOf(t.provider, t.owner)

\* Variant: instances are kept per injector or once and for all.
LookupKeyWithoutContext(t) ==
    IF Lifetime[t.provider] = "Scoped" THEN t.injector ELSE Nil

LookupKey(t) == IF Lifetime[t.provider] = "Scoped" THEN t.injector ELSE t.ctx

Cached(t) == instances[BindingOfTask(t)][LookupKey(t)]

IsTransientByDependency(p) == FindMostTransientDependencyLifetime(p) = "Transient"

IsTransient(p) == Lifetime[p] = "Transient" \/ IsTransientByDependency(p)

IsDependencyTreeStatic(p) == FindMostTransientDependencyLifetime(p) = "Singleton"

IsHit(t) ==
    /\ Cached(t) # Nil
    /\ \/ IsDependencyTreeStatic(t.provider)
       \/ t.ctx = LookupKey(t) /\ ~IsTransientByDependency(t.provider)

\* Where a call is after it has looked into the cache.
FirstPc(t) ==
    IF IsHit(t) THEN "done"
    ELSE IF t.provider \in DOMAIN Alias THEN "alias"
    ELSE IF HasDependencies(t.provider) THEN "deps"
    ELSE "factory"

Unused == {c \in Call : pc[c] = "idle"}

NextCall == CHOOSE c \in Unused : \A d \in Unused : c <= d

\* Call c begins, in the run of its caller, whose own changes are in pcs and
\* graphs.  A call with dependencies enters its token into the graph.
Begin(c, t, pcs, graphs) ==
    /\ pc' = [pcs EXCEPT ![c] = FirstPc(t)]
    /\ task' = [task EXCEPT ![c] = t]
    /\ result' = [result EXCEPT ![c] = IF IsHit(t) THEN Cached(t) ELSE Nil]
    /\ earlier' = [earlier EXCEPT ![c] = {d \in Call : pc[d] = "done"}]
    /\ graph' = IF FirstPc(t) = "deps" THEN Add(graphs, t.graph, t.provider)
                                       ELSE graphs
    /\ running' = IF FirstPc(t) \in {"deps", "alias"} THEN c ELSE Nil
    /\ UNCHANGED <<next, args, instances, failure>>

TaskFor(l, c, g, by) ==
    [provider |-> l.provider, owner |-> l.owner, injector |-> l.injector,
     ctx |-> l.ctx, graph |-> IF l.newGraph THEN c ELSE g, by |-> by]

CallsBy(by) == Cardinality({c \in Call : task[c] # Nil /\ task[c].by = by})

\* A request from outside: an Injector.get, or a factory's create.
Ask(a) ==
    /\ running = Nil
    /\ CallsBy("outside") < MaxRequests
    /\ Unused # {}
    /\ \E l \in Located(a.injector, a.provider, a.ctx, {}) :
           Begin(NextCall, TaskFor(l, NextCall, NextCall, "outside"), pc, graph)
    /\ UNCHANGED <<child, lazies>>

\* ɵLazy.get: the closure of the lazy dependency asks for it with the context and
\* the graph of the resolution that created the closure.  The holder may call it
\* from its constructor on.
GetLazy(z) ==
    /\ running = Nil
    /\ CallsBy("lazy") < MaxLazyGets
    /\ Unused # {}
    /\ pc[z.holder] \in {"factory", "hook", "done"}
    /\ \E l \in Located(z.injector, z.provider, z.ctx, z.flags) :
           Begin(NextCall, TaskFor(l, NextCall, z.graph, "lazy"), pc, graph)
    /\ UNCHANGED <<child, lazies>>

------------------------------------------------------------------------------
(* ɵresolveBindingDependencies *)

MayRun(c) == running \in {Nil, c}

DepOf(c) == Deps[task[c].provider][next[c]]

AtDep(c, pcs) ==
    /\ pc[c] \in pcs
    /\ MayRun(c)
    /\ next[c] <= Len(Deps[task[c].provider])

\* The loop body of a dependency: for a @Host dependency it starts with an await.
AwaitHost(c) ==
    /\ AtDep(c, {"deps"})
    /\ "Host" \in DepOf(c).flags /\ "SkipSelf" \notin DepOf(c).flags
    /\ pc' = [pc EXCEPT ![c] = "hosted"]
    /\ running' = Nil
    /\ UNCHANGED <<task, next, child, args, result, instances, graph, lazies, failure,
                   earlier>>

InBody(c) ==
    /\ AtDep(c, {"deps", "hosted"})
    /\ pc[c] = "deps" => \/ "Host" \notin DepOf(c).flags
                         \/ "SkipSelf" \in DepOf(c).flags
    /\ pc[c] = "hosted" => Host[task[c].injector] # Nil

DepInjector(c) ==
    LET i == task[c].injector
    IN  IF "SkipSelf" \in DepOf(c).flags THEN Parent[i]
        ELSE IF "Host" \in DepOf(c).flags THEN Host[i]
        ELSE i

\* On to the next dependency, without an await.
NextDep(c) ==
    /\ pc' = [pc EXCEPT ![c] = "deps"]
    /\ next' = [next EXCEPT ![c] = @ + 1]
    /\ running' = c

InjectLazy(c) ==
    /\ InBody(c)
    /\ "Lazy" \in DepOf(c).flags
    /\ graph' = Remove(graph, task[c].graph, DepOf(c).on)
    /\ lazies' = lazies \union
           {[provider |-> DepOf(c).on, injector |-> DepInjector(c),
             ctx |-> task[c].ctx, graph |-> task[c].graph,
             flags |-> DepOf(c).flags, holder |-> c]}
    /\ NextDep(c)
    /\ UNCHANGED <<task, child, args, result, instances, failure, earlier>>

InjectNull(c) ==
    /\ InBody(c)
    /\ "Lazy" \notin DepOf(c).flags
    /\ "Optional" \in DepOf(c).flags
    /\ Has(task[c].graph, DepOf(c).on)
    /\ NextDep(c)
    /\ UNCHANGED <<task, child, args, result, instances, graph, lazies, failure,
                   earlier>>

\* A call that throws leaves its entries in the graph.
Throw(c, why) ==
    /\ pc' = [pc EXCEPT ![c] = "failed"]
    /\ failure' = [failure EXCEPT ![c] = why]
    /\ running' = Nil
    /\ UNCHANGED <<task, next, child, args, result, instances, graph, lazies, earlier>>

\* The awaited request for the ModuleRef has been answered by the NullInjector.
HostMissing(c) ==
    /\ AtDep(c, {"hosted"})
    /\ Host[task[c].injector] = Nil
    /\ Throw(c, "host")

\* DependencyGraph.checkAndThrow
CheckAndThrow(c) ==
    /\ InBody(c)
    /\ DepOf(c).flags \intersect {"Lazy", "Optional"} = {}
    /\ Has(task[c].graph, DepOf(c).on)
    /\ Throw(c, "circular")

\* Variant: only optional dependencies are looked up in the graph.
ResolvableUnchecked(c) ==
    /\ InBody(c)
    /\ "Lazy" \notin DepOf(c).flags
    /\ "Optional" \in DepOf(c).flags => ~Has(task[c].graph, DepOf(c).on)

\* The dependency is entered into the graph and asked for.
Resolvable(c) ==
    /\ InBody(c)
    /\ "Lazy" \notin DepOf(c).flags
    /\ ~Has(task[c].graph, DepOf(c).on)

LocatedDep(c) ==
    Located(DepInjector(c), DepOf(c).on, task[c].ctx, DepOf(c).flags)

RequestDep(c) ==
    /\ Resolvable(c)
    /\ Unused # {}
    /\ \E l \in LocatedDep(c) :
           Begin(NextCall, TaskFor(l, NextCall, task[c].graph, "call"),
                 [pc EXCEPT ![c] = "waiting"],
                 Add(graph, task[c].graph, DepOf(c).on))
    /\ child' = [child EXCEPT ![c] = NextCall]
    /\ UNCHANGED lazies

RequestAbsentDep(c) ==
    /\ Resolvable(c)
    /\ LocatedDep(c) = {}
    /\ pc' = [pc EXCEPT ![c] = "absent"]
    /\ graph' = Add(graph, task[c].graph, DepOf(c).on)
    /\ running' = Nil
    /\ UNCHANGED <<task, next, child, args, result, instances, lazies, failure, earlier>>

\* Nothing was found.
InjectAbsent(c) ==
    /\ AtDep(c, {"absent"})
    /\ "Optional" \in DepOf(c).flags
    /\ ~LoopsBetweenInjectors(DepOf(c).on, task[c].ctx)
    /\ graph' = Remove(graph, task[c].graph, DepOf(c).on)
    /\ NextDep(c)
    /\ UNCHANGED <<task, child, args, result, instances, lazies, failure, earlier>>

ThrowAbsent(c) ==
    /\ AtDep(c, {"absent"})
    /\ \/ "Optional" \notin DepOf(c).flags
       \/ LoopsBetweenInjectors(DepOf(c).on, task[c].ctx)
    /\ Throw(c, "missing")

IsAlias(c) == task[c].provider \in DOMAIN Alias

\* Variant: the token of the dependency stays in the graph.
InjectAndKeep(c) ==
    /\ pc[c] = "waiting" /\ ~IsAlias(c) /\ MayRun(c)
    /\ pc[child[c]] = "done"
    /\ args' = [args EXCEPT ![c] = @ \union {result[child[c]]}]
    /\ NextDep(c)
    /\ UNCHANGED <<task, child, result, instances, graph, lazies, failure, earlier>>

\* The awaited dependency is there.
Inject(c) ==
    /\ pc[c] = "waiting" /\ ~IsAlias(c) /\ MayRun(c)
    /\ pc[child[c]] = "done"
    /\ args' = [args EXCEPT ![c] = @ \union {result[child[c]]}]
    /\ graph' = Remove(graph, task[c].graph, DepOf(c).on)
    /\ NextDep(c)
    /\ UNCHANGED <<task, child, result, instances, lazies, failure, earlier>>

\* Variant: an error of a useExisting provider is not passed on.
PropagateUnlessAlias(c) ==
    /\ pc[c] = "waiting" /\ MayRun(c)
    /\ pc[child[c]] = "failed"
    /\ ~IsAlias(c)
    /\ Throw(c, "dependency")

\* The awaited call has thrown, and so does its caller.
Propagate(c) ==
    /\ pc[c] = "waiting" /\ MayRun(c)
    /\ pc[child[c]] = "failed"
    /\ Throw(c, "dependency")

DependenciesResolved(c) ==
    /\ pc[c] = "deps" /\ MayRun(c)
    /\ next[c] > Len(Deps[task[c].provider])
    /\ graph' = Remove(graph, task[c].graph, task[c].provider)
    /\ pc' = [pc EXCEPT ![c] = "factory"]
    /\ running' = Nil
    /\ UNCHANGED <<task, next, child, args, result, instances, lazies, failure, earlier>>

------------------------------------------------------------------------------
(* The factory, the hook and the end of a call *)

\* The factory of a useExisting provider: a request of its own to the injector the
\* provider is bound in, without the context and the graph of this call.
FollowAlias(c) ==
    /\ pc[c] = "alias" /\ MayRun(c)
    /\ LET found == Located(task[c].owner, Alias[task[c].provider], Nil, {})
       IN  IF found = {}
             THEN Throw(c, "missing")
             ELSE /\ Unused # {}
                  /\ \E l \in found :
                         Begin(NextCall, TaskFor(l, NextCall, NextCall, "call"),
                               [pc EXCEPT ![c] = "waiting"], graph)
                  /\ child' = [child EXCEPT ![c] = NextCall]
                  /\ UNCHANGED lazies

\* Variant: every instance is kept.
KeepAlways(c) ==
    instances' = [instances EXCEPT ![BindingOfTask(task[c])][LookupKey(task[c])] = c]

Keep(c) ==
    IF IsTransient(task[c].provider)
      THEN UNCHANGED instances
      ELSE instances' =
               [instances EXCEPT ![BindingOfTask(task[c])][LookupKey(task[c])] = c]

Return(c) ==
    /\ pc' = [pc EXCEPT ![c] = "done"]
    /\ result' = [result EXCEPT ![c] = c]
    /\ Keep(c)
    /\ running' = Nil
    /\ UNCHANGED <<task, next, child, args, graph, lazies, failure, earlier>>

AliasResolved(c) ==
    /\ pc[c] = "waiting" /\ IsAlias(c) /\ MayRun(c)
    /\ pc[child[c]] = "done"
    /\ Return(c)

HasHook(p) == p \in Hooked /\ HasDependencies(p)

Construct(c) ==
    /\ pc[c] = "factory" /\ MayRun(c)
    /\ ~HasHook(task[c].provider)
    /\ Return(c)

ConstructAndAwaitHook(c) ==
    /\ pc[c] = "factory" /\ MayRun(c)
    /\ HasHook(task[c].provider)
    /\ pc' = [pc EXCEPT ![c] = "hook"]
    /\ running' = Nil
    /\ UNCHANGED <<task, next, child, args, result, instances, graph, lazies, failure,
                   earlier>>

HookReturned(c) ==
    /\ pc[c] = "hook" /\ MayRun(c)
    /\ Return(c)

FactoryThrows(c) ==
    /\ pc[c] \in {"factory", "hook"} /\ MayRun(c)
    /\ task[c].provider \in Fallible
    /\ Throw(c, "thrown")

------------------------------------------------------------------------------

Proceed(c) ==
    \/ AwaitHost(c)
    \/ HostMissing(c)
    \/ InjectLazy(c)
    \/ InjectNull(c)
    \/ CheckAndThrow(c)
    \/ RequestDep(c)
    \/ RequestAbsentDep(c)
    \/ InjectAbsent(c)
    \/ ThrowAbsent(c)
    \/ Inject(c)
    \/ Propagate(c)
    \/ DependenciesResolved(c)
    \/ FollowAlias(c)
    \/ AliasResolved(c)
    \/ Construct(c)
    \/ ConstructAndAwaitHook(c)
    \/ HookReturned(c)
    \/ FactoryThrows(c)

Next ==
    \/ \E a \in Asked : Ask(a)
    \/ \E z \in lazies : GetLazy(z)
    \/ \E c \in Call : Proceed(c)

Spec == Init /\ [][Next]_vars

\* The event loop goes on as long as some promise has settled, and the promises of
\* factories and hooks settle.
FairSpec == Spec /\ WF_vars(\E c \in Call : Proceed(c))

------------------------------------------------------------------------------
(* What holds *)

\* The calls that await c: a call is always younger than the call that awaits it.
Awaiting(c) == {d \in 1..(c - 1) : pc[d] = "waiting" /\ child[d] = c}

\* The calls that await c, directly or not.
AwaitedBy[c \in Call] ==
    Awaiting(c) \union UNION {AwaitedBy[d] : d \in Awaiting(c)}

\* A token a call has put into its graph and not taken out again: its own token
\* while it is at its dependencies, and the dependency it awaits.
Holds(c, p) ==
    /\ task[c] # Nil /\ ~IsAlias(c)
    /\ pc[c] \in {"deps", "hosted", "absent", "waiting", "failed"}
    /\ \/ p = task[c].provider
       \/ /\ pc[c] \in {"absent", "waiting", "failed"}
          /\ next[c] <= Len(Deps[task[c].provider])
          /\ p = DepOf(c).on

\* Nothing stays in a dependency graph: every entry is held by a call on that
\* graph that is still at its dependencies, or that has failed.
NoStaleEntries ==
    \A g \in Call, p \in Provider :
        Has(g, p) => \E c \in Call : task[c] # Nil /\ task[c].graph = g /\ Holds(c, p)

\* The lazy dependencies of the graph of c: creating one takes its token out.
TakenOut(g) == {z.provider : z \in {y \in lazies : y.graph = g}}

\* A resolution never awaits itself: on a chain of calls that await each other
\* within one graph no token comes twice, unless a lazy dependency took it out
\* of the graph.  So a cycle of dependencies is reported, not followed.
NoReentry ==
    \A c \in Call : pc[c] \in InFlight =>
        \A d \in AwaitedBy[c] :
            /\ task[d].graph = task[c].graph
            /\ task[d].provider = task[c].provider
            => task[c].provider \in TakenOut(task[c].graph)

\* Whether anything but the chain of c has to do with the graph of c: a lazy
\* dependency that was got through it, or a call that failed.
Disturbed(c) ==
    \E d \in Call \ ({c} \union AwaitedBy[c]) :
        task[d] # Nil /\ task[d].graph = task[c].graph
        /\ (pc[d] = "failed" \/ task[d].by = "lazy" \/ pc[d] \in InFlight)

\* A circular dependency is reported only if there is one: the token is being
\* resolved by the call or by one that awaits it.  (Lazy dependencies got through
\* the same graph and earlier failures are the exceptions.)
CircularErrorIsReal ==
    \A c \in Call :
        InBody(c) /\ Has(task[c].graph, DepOf(c).on) /\ ~Disturbed(c)
        => \E d \in {c} \union AwaitedBy[c] : task[d].provider = DepOf(c).on

\* The factory of a useExisting provider returns what its request was answered
\* with: what a call that resolved an alias hands on is this instance.
ResolvedAlias(c) == task[c] # Nil /\ IsAlias(c) /\ result[c] = c

Existing(c) == result[child[c]]

\* The instance of call a is shared between events, or made for event e.
IsOf(a, e) == Lifetime[task[a].provider] = "Scoped" \/ task[a].ctx = e

\* What is injected into an instance belongs to the event of that instance: no
\* instance gets a dependency that was made for another event.  Scoped instances
\* are shared between events.  A useExisting provider drops the event, and so what
\* it hands on belongs to no event, but never to another one.
InjectedFromSameEvent ==
    /\ \A c \in Call : \A a \in args[c] : IsOf(a, task[c].ctx)
    /\ \A c \in Call : ResolvedAlias(c) => IsOf(Existing(c), Nil)

\* Resolutions that share a dependency graph, interleaved at their awaits, leave it
\* clean, never wait for themselves, report a cycle only if there is one, and
\* inject what belongs to their event (`ɵresolveBindingDependencies`).
GraphIsSound ==
    /\ NoStaleEntries
    /\ NoReentry
    /\ CircularErrorIsReal
    /\ InjectedFromSameEvent

\* Every request ends: a provider is returned or its caller gets an error, through
\* cycles, lazy and optional dependencies, missing providers and failures.  So
\* again and again no call is in flight.
EveryCallEnds == []<>(\A c \in Call : pc[c] \notin InFlight)

------------------------------------------------------------------------------
(* What the documentation says and the code does not do *)

\* A useExisting provider is "identical to the `useExisting` token in the
\* injector": it gives what the token gives in the same event.
AliasIsOfItsEvent ==
    \A c \in Call : ResolvedAlias(c) => IsOf(Existing(c), task[c].ctx)

\* A provider without dependencies is not part of a cycle, and a clone of an
\* InquirerContext does not change with its original: asking for a provider
\* without dependencies is never answered with a circular dependency error.
NoCycleWithoutDependencies ==
    \A c \in Call : failure[c] = "circular" => HasDependencies(DepOf(c).on)

\* The instances an instance is built of: its dependencies and theirs.
BuiltOf[c \in Call] ==
    args[c] \union UNION {BuiltOf[a] : a \in {b \in args[c] : b > c}}

\* Whether anything in a dependency tree may change with the event: what a caller
\* is given in an event is built of no Event instance of another event.
NoInstanceOfAnotherEvent ==
    \A c \in Call :
        pc[c] = "done" =>
            \A a \in {result[c]} \union BuiltOf[result[c]] :
                Lifetime[task[a].provider] = "Event" => task[a].ctx = task[c].ctx

------------------------------------------------------------------------------
(* The calls of this module implement the calls of InstanceCache. *)

CacheRequest(c) ==
    IF task[c] = Nil THEN Nil
    ELSE [binding |-> BindingOfTask(task[c]), injector |-> task[c].injector,
          ctx |-> task[c].ctx]

CachePc(c) ==
    CASE pc[c] \in {"deps", "hosted", "absent"} -> "deps"
      [] pc[c] = "waiting" /\ ~IsAlias(c) -> "deps"
      [] pc[c] = "waiting" /\ IsAlias(c) -> "factory"
      [] pc[c] = "alias" -> "factory"
      [] OTHER -> pc[c]

\* What the cache knows of a binding, from the metadata of its provider.
BindingLifetime == [b \in Binding |-> Lifetime[b[1]]]

BindingDepLifetime == [b \in Binding |-> FindMostTransientDependencyLifetime(b[1])]

BindingsWithDeps == {b \in Binding : HasDependencies(b[1])}

HookedBindings == {b \in Binding : b[1] \in Hooked}

Cache == INSTANCE InstanceCache WITH
    Lifetime <- BindingLifetime,
    DepLifetime <- BindingDepLifetime,
    WithDeps <- BindingsWithDeps,
    Hooked <- HookedBindings,
    Nullish <- {},
    pc <- [c \in Call |-> CachePc(c)],
    request <- [c \in Call |-> CacheRequest(c)]

\* Finding and resolving the dependencies, whatever happens on the way, is to the
\* cache one await of the call: resolution implements InstanceCache.  (This is
\* Cache!Spec, with the stuttering, most of the steps, in front.)
ImplementsInstanceCache ==
    Cache!Init /\ [][UNCHANGED Cache!vars \/ Cache!Next]_vars
===============================================================================
