------------------------------ MODULE Factories ------------------------------
(***************************************************************************)
(* The factories of components and providers: the records of the factory   *)
(* resolvers of every module, the instances each factory keeps, and the    *)
(* wrapper of a lazy dependency.                                           *)
(*                                                                         *)
(* `ComponentFactoryResolverImpl.resolve` looks for a factory, awaits the  *)
(* component ref and then records a new factory; `create` checks the cache *)
(* of its own binding, awaits the construction and then stores.  Between   *)
(* the check and the store every other call may run.  The awaits inside    *)
(* ɵcreateBindingInstance, which `InstanceCache` gives in full, are one    *)
(* here.                                                                   *)
(*                                                                         *)
(* A call makes at most one factory and one instance: its identity serves  *)
(* as the identity of both.                                                *)
(***************************************************************************)

CONSTANTS
    Call,        \* calls of resolve, createComponent, create and ɵLazy.get
    Module,      \* module refs, each with its resolvers
    Component,   \* component types
    Provider,    \* provider types that are in no module
    ComponentsOf,\* the `components` of every module
    Injector,    \* injectors that a caller hands to create
    Context,     \* context injectors, one per event
    Lazy,        \* wrappers of lazy dependencies
    Own,         \* the injector a factory was made with
    Nil,         \* null
    Lifetime     \* findMostTransientDependencyLifetime of the constructor

Product == Component \union Provider

\* The keys of the instance map of a factory's binding.
Key == Injector \union Context \union {Own, Nil}

\* resolver.resolve(product, given): given is the optional module ref.  The
\* resolver's own module is what it takes if there is none.
Resolving ==
    {q \in [op : {"resolve"}, module : Module, product : Product,
            given : Module \union {Nil}] : q.given # q.module}

\* createComponent(product, ctx), or resolve followed by create(inj, ctx).
Creating ==
    [op : {"create"}, module : Module, product : Product, given : {Nil},
     inj : Injector \union {Own}, ctx : Context \union {Nil}]

Getting == [op : {"get"}, lazy : Lazy]

Request == Resolving \union Creating \union Getting

ASSUME NilAssumption ==
    /\ Nil \notin Call \union Module \union Request \union Injector \union Context
    /\ Own \notin Injector \union Context \union {Nil}

ASSUME ProductAssumption ==
    /\ Component \intersect Provider = {}
    /\ ComponentsOf \in [Module -> SUBSET Component]
    /\ Lifetime \in [Product -> {"Singleton", "Event", "Transient"}]

------------------------------------------------------------------------------

VARIABLES
    records,   \* the `_records` of the resolvers of every module
    home,      \* the module whose component ref a factory creates with
    instances, \* the instances kept by the binding of every factory
    lazy,      \* the `instance` of every lazy wrapper
    pc,        \* how far every call is
    request,   \* what every call was asked for
    factory,   \* the factory a call was handed
    result,    \* the instance a call was handed
    earlier    \* history: the calls that had ended when a call began

vars == <<records, home, instances, lazy, pc, request, factory, result, earlier>>

Ended == {"done", "failed"}

TypeOK ==
    /\ records \in [Module -> [Product -> Call \union {Nil}]]
    /\ home \in [Call -> Module \union {Nil}]
    /\ instances \in [Call -> [Key -> Call \union {Nil}]]
    /\ lazy \in [Lazy -> Call \union {Nil}]
    /\ pc \in [Call -> {"idle", "component", "create", "instance", "lazy"} \union Ended]
    /\ request \in [Call -> Request \union {Nil}]
    /\ factory \in [Call -> Call \union {Nil}]
    /\ result \in [Call -> Call \union {Nil}]
    /\ earlier \in [Call -> SUBSET Call]

Init ==
    /\ records = [m \in Module |-> [p \in Product |-> Nil]]
    /\ home = [c \in Call |-> Nil]
    /\ instances = [c \in Call |-> [k \in Key |-> Nil]]
    /\ lazy = [l \in Lazy |-> Nil]
    /\ pc = [c \in Call |-> "idle"]
    /\ request = [c \in Call |-> Nil]
    /\ factory = [c \in Call |-> Nil]
    /\ result = [c \in Call |-> Nil]
    /\ earlier = [c \in Call |-> {}]

Ask(c, q) ==
    /\ pc[c] = "idle"
    /\ request' = [request EXCEPT ![c] = q]
    /\ earlier' = [earlier EXCEPT ![c] = {d \in Call : pc[d] \in Ended}]

------------------------------------------------------------------------------
(* Resolving a factory *)

\* moduleRef ?? this._injector
LookupModule(q) == IF q.given # Nil THEN q.given ELSE q.module

IsComponentInModule(q) == q.product \in ComponentsOf[LookupModule(q)]

\* Variant: the records are not used for a caller that gives a module ref.
RecordedForOwn(q) == IF q.given = Nil THEN records[q.module][q.product] ELSE Nil

Recorded(q) == records[q.module][q.product]

\* The factory is known: a call of `resolve` is over, the others go on to create.
Handed(c, q, f) ==
    /\ factory' = [factory EXCEPT ![c] = f]
    /\ pc' = [pc EXCEPT ![c] = IF q.op = "create" THEN "create" ELSE "done"]

Hit(c, q) ==
    /\ Ask(c, q)
    /\ Recorded(q) # Nil
    /\ Handed(c, q, Recorded(q))
    /\ UNCHANGED <<records, home, instances, lazy, result>>

\* The component ref of the module is awaited.
Miss(c, q) ==
    /\ Ask(c, q)
    /\ q.product \in Component
    /\ Recorded(q) = Nil
    /\ IsComponentInModule(q)
    /\ pc' = [pc EXCEPT ![c] = "component"]
    /\ UNCHANGED <<records, home, instances, lazy, factory, result>>

\* The parent of every resolver is the null resolver: it is read from the module
\* ref while its fields are initialised, before the module ref has a parent.
Refuse(c, q) ==
    /\ Ask(c, q)
    /\ q.product \in Component
    /\ Recorded(q) = Nil
    /\ ~IsComponentInModule(q)
    /\ pc' = [pc EXCEPT ![c] = "failed"]
    /\ UNCHANGED <<records, home, instances, lazy, factory, result>>

\* Variant: the component ref is recorded in the place of the factory.
AddComponentRef(c, q) ==
    records' = [records EXCEPT ![q.module][q.product] = LookupModule(q)]

\* Variant: the factory is recorded with every resolver.
AddFactoryEverywhere(c, q) ==
    records' = [n \in Module |-> [records[n] EXCEPT ![q.product] = c]]

\* this._records.set: the factory is recorded under the type alone, whatever
\* module it was made for.
AddFactory(c, q) ==
    records' = [records EXCEPT ![q.module][q.product] = c]

\* new ComponentFactory, or new ProviderFactory, for the injector of module m.
NewFactory(c, q, m) ==
    /\ AddFactory(c, q)
    /\ home' = [home EXCEPT ![c] = m]
    /\ Handed(c, q, c)

ComponentFound(c) ==
    /\ pc[c] = "component"
    /\ NewFactory(c, request[c], LookupModule(request[c]))
    /\ UNCHANGED <<instances, lazy, request, result, earlier>>

\* ProviderFactoryResolverImpl.resolve awaits nothing; the module ref it is
\* given does not matter.
MakeProviderFactory(c, q) ==
    /\ Ask(c, q)
    /\ q.product \in Provider
    /\ Recorded(q) = Nil
    /\ NewFactory(c, q, q.module)
    /\ UNCHANGED <<instances, lazy, result>>

------------------------------------------------------------------------------
(* Creating an instance *)

\* A component without transient or event dependencies is made Scoped, a provider
\* stays a Singleton: only the former is kept per injector.
IsScoped(p) == p \in Component /\ Lifetime[p] = "Singleton"

\* Variant: all instances are kept per injector.
LookupKeyByInjector(q) == q.inj

\* Variant: all instances are kept per event.
LookupKeyByContext(q) == q.ctx

LookupKey(q) == IF IsScoped(q.product) THEN q.inj ELSE q.ctx

IsTransient(p) == Lifetime[p] = "Transient"

GetInstance(c) == instances[factory[c]][LookupKey(request[c])]

\* A transient instance is never kept, and the others may always be returned.
CreateHit(c) ==
    /\ pc[c] = "create"
    /\ GetInstance(c) # Nil
    /\ result' = [result EXCEPT ![c] = GetInstance(c)]
    /\ pc' = [pc EXCEPT ![c] = "done"]
    /\ UNCHANGED <<records, home, instances, lazy, request, factory, earlier>>

CreateMiss(c) ==
    /\ pc[c] = "create"
    /\ GetInstance(c) = Nil
    /\ pc' = [pc EXCEPT ![c] = "instance"]
    /\ UNCHANGED <<records, home, instances, lazy, request, factory, result, earlier>>

Created(c) ==
    /\ pc[c] = "instance"
    /\ result' = [result EXCEPT ![c] = c]
    /\ pc' = [pc EXCEPT ![c] = "done"]
    /\ IF IsTransient(request[c].product)
         THEN UNCHANGED instances
         ELSE instances' = [instances EXCEPT ![factory[c]][LookupKey(request[c])] = c]
    /\ UNCHANGED <<records, home, lazy, request, factory, earlier>>

\* A dependency or the constructor has thrown.
CreateFail(c) ==
    /\ pc[c] = "instance"
    /\ pc' = [pc EXCEPT ![c] = "failed"]
    /\ UNCHANGED <<records, home, instances, lazy, request, factory, result, earlier>>

------------------------------------------------------------------------------
(* Lazy dependencies *)

LazyHit(c, l) ==
    /\ Ask(c, [op |-> "get", lazy |-> l])
    /\ lazy[l] # Nil
    /\ result' = [result EXCEPT ![c] = lazy[l]]
    /\ pc' = [pc EXCEPT ![c] = "done"]
    /\ UNCHANGED <<records, home, instances, lazy, factory>>

LazyMiss(c, l) ==
    /\ Ask(c, [op |-> "get", lazy |-> l])
    /\ lazy[l] = Nil
    /\ pc' = [pc EXCEPT ![c] = "lazy"]
    /\ UNCHANGED <<records, home, instances, lazy, factory, result>>

\* The injector has returned an instance of the provider.
LazyReturn(c) ==
    /\ pc[c] = "lazy"
    /\ result' = [result EXCEPT ![c] = c]
    /\ lazy' = [lazy EXCEPT ![request[c].lazy] = c]
    /\ pc' = [pc EXCEPT ![c] = "done"]
    /\ UNCHANGED <<records, home, instances, request, factory, earlier>>

LazyFail(c) ==
    /\ pc[c] = "lazy"
    /\ pc' = [pc EXCEPT ![c] = "failed"]
    /\ UNCHANGED <<records, home, instances, lazy, request, factory, result, earlier>>

------------------------------------------------------------------------------

Next ==
    \E c \in Call :
        \/ \E q \in Resolving \union Creating :
              Hit(c, q) \/ Miss(c, q) \/ Refuse(c, q) \/ MakeProviderFactory(c, q)
        \/ ComponentFound(c)
        \/ CreateHit(c) \/ CreateMiss(c) \/ Created(c) \/ CreateFail(c)
        \/ \E l \in Lazy : LazyHit(c, l) \/ LazyMiss(c, l)
        \/ LazyReturn(c) \/ LazyFail(c)

Spec == Init /\ [][Next]_vars

------------------------------------------------------------------------------

Overlap(c, d) == c \notin earlier[d] /\ d \notin earlier[c]

\* Two calls ask the same resolver for a factory of the same type.
SameRecord(q, r) ==
    /\ q.op # "get" /\ r.op # "get"
    /\ q.module = r.module /\ q.product = r.product

\* A resolver hands out two factories of one type only if the two calls that made
\* them overlapped, and a factory of a provider is never made twice: its resolver
\* awaits nothing between looking for it and recording it.
OneFactoryUnlessOverlapping ==
    \A c, d \in Call :
        /\ factory[c] # Nil /\ factory[d] # Nil /\ factory[c] # factory[d]
        /\ SameRecord(request[c], request[d])
        => Overlap(factory[c], factory[d]) /\ request[c].product \in Component

\* f is a factory for what q asks, made with a component ref of its own module or
\* of the one the maker was given.
FactoryOf(f, q) ==
    /\ SameRecord(request[f], q)
    /\ \/ home[f] = q.module
       \/ q.product \in Component /\ home[f] = request[f].given
    /\ q.product \in Component => q.product \in ComponentsOf[home[f]]

\* A factory creates with a component ref of a module that has the component.  If
\* that is not the module of the resolver, the call that made the factory had
\* named it: a resolver hands out a foreign component only after it was once
\* given its module, and from then on never refuses it again.
FactoryHasAHome ==
    \A c \in Call :
        /\ factory[c] # Nil => FactoryOf(factory[c], request[c])
        /\ pc[c] = "failed" /\ factory[c] = Nil /\ request[c].op # "get" =>
              \A d \in earlier[c] :
                  factory[d] # Nil => ~SameRecord(request[d], request[c])

\* Two calls that are to be given the same instance.
SameScope(q, r) ==
    /\ SameRecord(q, r) /\ q.op = "create" /\ r.op = "create"
    /\ ~IsTransient(q.product)
    /\ IF IsScoped(q.product) THEN q.inj = r.inj ELSE q.ctx = r.ctx

\* Two creations in one scope, or two gets of one lazy dependency, end with
\* different instances only if the makers of the instances overlapped or, one
\* level up, those of the factories: a race for the factory splits the instances
\* of calls that follow each other.
OneInstanceUnlessOverlapping ==
    \A c, d \in Call :
        /\ result[c] # Nil /\ result[d] # Nil /\ result[c] # result[d]
        /\ request[c].op = request[d].op
        => IF request[c].op = "get"
             THEN request[c] = request[d] => Overlap(result[c], result[d])
             ELSE SameScope(request[c], request[d]) =>
                    \/ Overlap(result[c], result[d])
                    \/ factory[c] # factory[d] /\ Overlap(factory[c], factory[d])

\* An instance is handed out only for the factory, and in the scope, it was made
\* in: not to another event, nor to another injector if it is Scoped, and a
\* transient one only to the call that made it.
InstancesStayInScope ==
    \A c \in Call :
        LET i == result[c]
        IN  i \notin {Nil, c} =>
              IF request[c].op = "get"
                THEN request[i] = request[c]
                ELSE factory[i] = factory[c] /\ SameScope(request[i], request[c])

\* Interleaved calls of the resolvers, and gets of a lazy dependency, end with one
\* factory and one instance each, unless calls overlapped at the await between the
\* look into the map and the entry (`resolve`, `ɵLazy.get`).
OneUnlessOverlapping ==
    /\ OneFactoryUnlessOverlapping
    /\ OneInstanceUnlessOverlapping

\* Factories and instances stay in the module, injector and event they were made
\* for (`ComponentFactoryResolver.resolve`, `ComponentFactory.create`).
ScopesAreKept ==
    /\ FactoryHasAHome
    /\ InstancesStayInScope

===============================================================================
