--------------------------- MODULE ResolutionProofs ---------------------------
(***************************************************************************)
(* What is proved about Resolution: the shape of its calls (ShapeInv), that *)
(* finding and resolving dependencies implements InstanceCache, and that   *)
(* the dependency graph is sound (GraphIsSound).                           *)
(*                                                                         *)
(* The recursions of the module, up the parents of an injector and down    *)
(* the chain of the calls that await a call, are proved about by their     *)
(* least counterexample: LeastNumber, and ParentAssumption.                *)
(***************************************************************************)
EXTENDS Resolution, WellFoundedInduction, FiniteSetTheorems, SequenceTheorems, TLAPS

\* Every set of numbers has a least one: what induction rests on here.
LEMMA LeastNumber ==
  ASSUME NEW S \in SUBSET Nat, S # {}
  PROVE  \E n \in S : \A m \in S : n <= m
  <1> DEFINE Less == {ss \in Nat \X Nat : ss[1] < ss[2]}
  <1>1. IsWellFoundedOn(Less, Nat)
    BY NatLessThanWellFounded DEF OpToRel
  <1> HIDE DEF Less
  <1>2. PICK n \in S : \A m \in S : <<m, n>> \notin Less
    BY <1>1, WFMin
  <1>3. \A m \in S : ~(m < n)
    BY <1>2 DEF Less
  <1> QED
    BY <1>3

------------------------------------------------------------------------------
(* The injector that has a binding *)

\* One step of the lookup for p at i, which goes on with f in the parent.
Lookup(f, i, p) ==
    IF <<i, p>> \in Records THEN i
    ELSE IF Parent[i] = Nil \/ StopsAt(i, p) THEN Nil
    ELSE f[<<Parent[i], p>>]

\* f looks up correctly in D, a set of injectors with their parents.
LooksUpIn(D, f) ==
    /\ D \subseteq Injector
    /\ \A i \in D : Parent[i] # Nil => Parent[i] \in D
    /\ \A i \in D, p \in Provider : f[<<i, p>>] = Lookup(f, i, p)

LEMMA LookupsAgree ==
  ASSUME NEW D, NEW E, NEW f, NEW g, LooksUpIn(D, f), LooksUpIn(E, g),
         NEW i \in D \intersect E, NEW p \in Provider
  PROVE  f[<<i, p>>] = g[<<i, p>>]
  <1> DEFINE S == {j \in D \intersect E : f[<<j, p>>] # g[<<j, p>>]}
  <1>1. S \in SUBSET Injector
    BY DEF LooksUpIn
  <1>2. SUFFICES ASSUME S # {} PROVE FALSE
    OBVIOUS
  <1>3. PICK j \in S : Parent[j] \notin S
    BY <1>1, <1>2, ParentAssumption
  <1>4. /\ j \in D /\ j \in E /\ f[<<j, p>>] # g[<<j, p>>]
        /\ f[<<j, p>>] = Lookup(f, j, p) /\ g[<<j, p>>] = Lookup(g, j, p)
    BY DEF LooksUpIn
  <1>5. CASE Parent[j] = Nil
    <2>1. Lookup(f, j, p) = Lookup(g, j, p)
      BY <1>5 DEF Lookup
    <2> QED
      BY <1>4, <2>1
  <1>6. CASE Parent[j] # Nil
    <2>1. Parent[j] \in D \intersect E
      BY <1>6 DEF LooksUpIn
    <2>2. f[<<Parent[j], p>>] = g[<<Parent[j], p>>]
      BY <2>1, <1>3
    <2> QED
      BY <1>3, <1>4, <2>2 DEF Lookup
  <1> QED
    BY <1>5, <1>6

LEMMA LookupExists ==
  ASSUME NEW i \in Injector
  PROVE  \E D, f : i \in D /\ LooksUpIn(D, f)
  <1> DEFINE S == {j \in Injector : ~ \E D, f : j \in D /\ LooksUpIn(D, f)}
  <1>1. SUFFICES ASSUME S # {} PROVE FALSE
    OBVIOUS
  <1>2. PICK j \in S : Parent[j] \notin S
    BY <1>1, ParentAssumption
  <1>3. SUFFICES \E D, f : j \in D /\ LooksUpIn(D, f)
    OBVIOUS
  <1>4. CASE Parent[j] = Nil
    <2> DEFINE f == [x \in {j} \X Provider |-> Lookup(<<>>, j, x[2])]
    <2>1. \A p \in Provider : f[<<j, p>>] = Lookup(<<>>, j, p)
      OBVIOUS
    <2>2. \A p \in Provider : Lookup(f, j, p) = Lookup(<<>>, j, p)
      BY <1>4 DEF Lookup
    <2> HIDE DEF f
    <2>3. LooksUpIn({j}, f)
      BY <1>4, <2>1, <2>2 DEF LooksUpIn
    <2> QED
      BY <2>3
  <1>5. CASE Parent[j] # Nil
    <2>1. Parent[j] \in Injector
      BY <1>5, InjectorAssumption
    <2>2. PICK D, f : Parent[j] \in D /\ LooksUpIn(D, f)
      BY <1>2, <2>1
    <2> DEFINE g == [x \in (D \union {j}) \X Provider |->
                         IF x[1] \in D THEN f[x] ELSE Lookup(f, j, x[2])]
    <2>3. \A k \in D, p \in Provider : g[<<k, p>>] = f[<<k, p>>]
      OBVIOUS
    <2>4. j \notin D => \A p \in Provider : g[<<j, p>>] = Lookup(f, j, p)
      OBVIOUS
    <2> HIDE DEF g
    <2>5. ASSUME NEW k \in D, NEW p \in Provider PROVE g[<<k, p>>] = Lookup(g, k, p)
      <3>1. g[<<k, p>>] = f[<<k, p>>] /\ f[<<k, p>>] = Lookup(f, k, p)
        BY <2>2, <2>3 DEF LooksUpIn
      <3>2. Lookup(g, k, p) = Lookup(f, k, p)
        BY <2>2, <2>3 DEF LooksUpIn, Lookup
      <3> QED
        BY <3>1, <3>2
    <2>6. \A p \in Provider : Lookup(g, j, p) = Lookup(f, j, p)
      BY <2>2, <2>3 DEF Lookup
    <2>7. \A k \in D \union {j} : Parent[k] # Nil => Parent[k] \in D \union {j}
      BY <2>2 DEF LooksUpIn
    <2>8. LooksUpIn(D \union {j}, g)
      BY <2>2, <2>4, <2>5, <2>6, <2>7 DEF LooksUpIn
    <2> QED
      BY <2>8
  <1> QED
    BY <1>4, <1>5

\* The recursion of the lookup is well founded: Owner is what its definition says.
LEMMA OwnerIsLookup ==
  \A i \in Injector, p \in Provider : Owner[<<i, p>>] = Lookup(Owner, i, p)
  <1> DEFINE F == [x \in Injector \X Provider |->
                     CHOOSE v : \E D, f : x[1] \in D /\ LooksUpIn(D, f) /\ v = f[x]]
             G(f) == [r \in Injector \X Provider |->
                        IF r \in Records THEN r[1]
                        ELSE IF Parent[r[1]] = Nil \/ StopsAt(r[1], r[2]) THEN Nil
                        ELSE f[<<Parent[r[1]], r[2]>>]]
  <1>1. ASSUME NEW D, NEW f, LooksUpIn(D, f), NEW i \in D, NEW p \in Provider
        PROVE  F[<<i, p>>] = f[<<i, p>>]
    <2>1. i \in Injector
      BY <1>1 DEF LooksUpIn
    <2>2. F[<<i, p>>] = CHOOSE v : \E E, g : i \in E /\ LooksUpIn(E, g) /\ v = g[<<i, p>>]
      BY <2>1
    <2> DEFINE P(v) == \E E, g : i \in E /\ LooksUpIn(E, g) /\ v = g[<<i, p>>]
    <2>3. P(f[<<i, p>>])
      BY <1>1
    <2>4. ASSUME NEW v, P(v) PROVE v = f[<<i, p>>]
      <3>1. PICK E, g : i \in E /\ LooksUpIn(E, g) /\ v = g[<<i, p>>]
        BY <2>4
      <3>2. i \in D \intersect E
        BY <1>1, <3>1
      <3> QED
        BY <1>1, <3>1, <3>2, LookupsAgree
    <2>5. P(CHOOSE v : P(v))
      BY <2>3
    <2> QED
      BY <2>2, <2>4, <2>5
  <1>3. F = [r \in Injector \X Provider |-> F[r]]
    OBVIOUS
  <1> HIDE DEF F
  <1>2. ASSUME NEW i \in Injector, NEW p \in Provider
        PROVE  F[<<i, p>>] = Lookup(F, i, p)
    <2>1. PICK D, f : i \in D /\ LooksUpIn(D, f)
      BY LookupExists
    <2>2. F[<<i, p>>] = f[<<i, p>>]
      BY <1>1, <2>1
    <2>3. f[<<i, p>>] = Lookup(f, i, p)
      BY <2>1 DEF LooksUpIn
    <2>4. ASSUME Parent[i] # Nil PROVE F[<<Parent[i], p>>] = f[<<Parent[i], p>>]
      <3>1. Parent[i] \in D
        BY <2>1, <2>4 DEF LooksUpIn
      <3> QED
        BY <1>1, <2>1, <3>1
    <2> QED
      BY <2>2, <2>3, <2>4 DEF Lookup
  <1>4. ASSUME NEW r \in Injector \X Provider PROVE F[r] = G(F)[r]
    <2>1. PICK i \in Injector, p \in Provider : r = <<i, p>>
      OBVIOUS
    <2>2. F[<<i, p>>] = Lookup(F, i, p)
      BY <1>2
    <2> QED
      BY <2>1, <2>2 DEF Lookup
  <1>5. F = G(F)
    BY <1>3, <1>4
  <1>6. \E f : f = G(f)
    BY <1>5
  <1>7. Owner = CHOOSE f : f = G(f)
    BY DEF Owner
  <1>8. Owner = G(Owner)
    BY <1>6, <1>7
  <1> QED
    BY <1>8 DEF Lookup

\* What is found has a binding for what was asked for.
LEMMA OwnerHasRecord ==
  ASSUME NEW i \in Injector, NEW p \in Provider
  PROVE  /\ Owner[<<i, p>>] \in Injector \union {Nil}
         /\ Owner[<<i, p>>] # Nil => <<Owner[<<i, p>>], p>> \in Records
  <1> DEFINE Good(j) == /\ Owner[<<j, p>>] \in Injector \union {Nil}
                        /\ Owner[<<j, p>>] # Nil => <<Owner[<<j, p>>], p>> \in Records
             S == {j \in Injector : ~Good(j)}
  <1>1. SUFFICES ASSUME S # {} PROVE FALSE
    OBVIOUS
  <1>2. PICK j \in S : Parent[j] \notin S
    BY <1>1, ParentAssumption
  <1>3. Parent[j] # Nil => Good(Parent[j])
    BY <1>2, InjectorAssumption
  <1>4. Owner[<<j, p>>] = Lookup(Owner, j, p)
    BY OwnerIsLookup
  <1>5. Good(j)
    BY <1>3, <1>4 DEF Lookup
  <1> QED
    BY <1>2, <1>5

------------------------------------------------------------------------------
(* The shape of calls *)

\* Whether a call is, or was when it failed, in the middle of a dependency.
AtADependency(c) ==
    /\ ~IsAlias(c)
    /\ \/ pc[c] \in {"hosted", "absent", "waiting"}
       \/ pc[c] = "failed" /\ failure[c] \in {"missing", "dependency"}

\* What a call is asked to resolve is bound where it was found, it is at
\* dependencies only if it has some, and it does not end without a result.
CallOK(c) ==
    /\ pc[c] = "idle" <=> task[c] = Nil
    /\ pc[c] = "idle" => result[c] = Nil
    /\ pc[c] # "idle" =>
         /\ <<task[c].owner, task[c].provider>> \in Records \union BoundIn
         /\ task[c].graph <= c
         /\ pc[c] = "done" => result[c] # Nil
         /\ pc[c] = "alias" => IsAlias(c)
         /\ pc[c] = "deps" => HasDependencies(task[c].provider)
         /\ AtADependency(c) =>
              HasDependencies(task[c].provider) /\ next[c] <= Len(Deps[task[c].provider])

\* A call awaits a younger one, which it has begun: for its dependency, in its
\* event, on its graph or a new one, or for the target of an alias, in no event and
\* on a new one.
AwaitsOK(c) ==
    pc[c] = "waiting" =>
        /\ child[c] \in Call /\ c < child[c] /\ pc[child[c]] # "idle"
        /\ IsAlias(c) => task[child[c]].graph = child[c] /\ task[child[c]].ctx = Nil
        /\ ~IsAlias(c) =>
             /\ task[child[c]].provider = DepOf(c).on
             /\ task[child[c]].ctx = task[c].ctx
             /\ task[child[c]].graph \in {task[c].graph, child[c]}

\* Calls are numbered in the order in which they begin.
InOrder == \A c, d \in Call : d < c /\ pc[c] # "idle" => pc[d] # "idle"

LazyOK(z) == pc[z.holder] # "idle" /\ z.graph <= z.holder

ShapeInv ==
    /\ TypeOK
    /\ \A c \in Call : next[c] >= 1
    /\ \A c \in Call : CallOK(c) /\ AwaitsOK(c)
    /\ InOrder
    /\ \A z \in lazies : LazyOK(z)

\* What Init says of all of it.
LEMMA ShapeInvInit == Init => ShapeInv
  <1> SUFFICES ASSUME Init PROVE ShapeInv
    OBVIOUS
  <1> USE DEF Init
  <1>1. TypeOK
    <2>1. graph \in [Call -> [Provider -> Nat]]
      OBVIOUS
    <2>2. instances \in [Binding -> [Key -> Call \union {Nil}]]
      OBVIOUS
    <2> QED
      BY <2>1, <2>2 DEF TypeOK
  <1>2. \A c \in Call : CallOK(c) /\ AwaitsOK(c)
    BY DEF CallOK, AwaitsOK
  <1> QED
    BY <1>1, <1>2 DEF ShapeInv, InOrder

LEMMA TaskType ==
  ASSUME TypeOK, NEW c \in Call, task[c] # Nil
  PROVE  task[c] \in Task
  BY DEF TypeOK

\* The dependency a call is at.
LEMMA DepType ==
  ASSUME NEW p \in Provider, NEW n \in Nat, n >= 1, n <= Len(Deps[p])
  PROVE  /\ n \in DOMAIN Deps[p]
         /\ Deps[p][n] \in [on: Provider, flags: SUBSET Flags]
  <1>1. Deps[p] \in Seq([on: Provider, flags: SUBSET Flags])
    BY ProviderAssumption
  <1>2. n \in 1 .. Len(Deps[p])
    BY <1>1, LenProperties
  <1> QED
    BY <1>1, <1>2, ElementOfSeq, LenProperties

\* What is found is bound where it is found.
LEMMA LocatedType ==
  ASSUME NEW i \in Injector \union {Nil}, NEW p \in Provider,
         NEW ctx \in Context \union {Nil}, NEW flags, NEW l \in Located(i, p, ctx, flags)
  PROVE  /\ l.provider = p /\ l.ctx = ctx
         /\ l.owner \in Injector \union Context /\ l.injector \in Injector
         /\ <<l.owner, p>> \in Records \union BoundIn
  <1>1. CASE p \in ContextBound
    <2>1. ctx # Nil /\ <<ctx, p>> \in BoundIn
          /\ l = [provider |-> p, owner |-> ctx, injector |-> ContextParent[ctx],
                  ctx |-> ctx, newGraph |-> TRUE]
      BY <1>1 DEF Located
    <2> QED
      BY <2>1, InjectorAssumption
  <1>2. CASE p \notin ContextBound
    <2> DEFINE o == OwnerFrom(i, p, flags)
    <2>1. i # Nil /\ o # Nil
          /\ l = [provider |-> p, owner |-> o, injector |-> o, ctx |-> ctx,
                  newGraph |-> FALSE]
      BY <1>2 DEF Located
    <2>2. o = Owner[<<i, p>>]
      BY <2>1 DEF OwnerFrom
    <2>3. i \in Injector
      BY <2>1
    <2>4. o \in Injector /\ <<o, p>> \in Records
      BY <2>1, <2>2, <2>3, OwnerHasRecord
    <2> QED
      BY <2>1, <2>4
  <1> QED
    BY <1>1, <1>2

LEMMA NextCallIsLeast ==
  ASSUME TypeOK, Unused # {}
  PROVE  /\ NextCall \in Call /\ pc[NextCall] = "idle"
         /\ \A d \in Call : pc[d] = "idle" => NextCall <= d
  <1>1. Unused \in SUBSET Nat /\ Call \subseteq Nat
    BY BoundAssumption DEF Unused, Call
  <1>2. PICK n \in Unused : \A d \in Unused : n <= d
    BY <1>1, LeastNumber
  <1>3. NextCall \in Unused /\ \A d \in Unused : NextCall <= d
    BY <1>2 DEF NextCall
  <1> QED
    BY <1>3 DEF Unused

\* A step of one call that begins no other leaves the shape of the others alone.
LEMMA OthersKeepShape ==
  ASSUME ShapeInv, NEW c \in Call, pc[c] # "idle", pc'[c] # "idle",
         UNCHANGED <<task, child>>,
         \A d \in Call \ {c} : pc'[d] = pc[d] /\ next'[d] = next[d]
                            /\ failure'[d] = failure[d] /\ result'[d] = result[d]
  PROVE  /\ \A d \in Call \ {c} : CallOK(d)' /\ AwaitsOK(d)'
         /\ InOrder'
         /\ \A z \in lazies : LazyOK(z)'
  <1>1. \A d \in Call : pc'[d] # "idle" <=> pc[d] # "idle"
    OBVIOUS
  <1>2. ASSUME NEW d \in Call \ {c} PROVE CallOK(d)'
    BY <1>2 DEF ShapeInv, CallOK, AtADependency, IsAlias
  <1>3. ASSUME NEW d \in Call \ {c} PROVE AwaitsOK(d)'
    BY <1>1, <1>3 DEF ShapeInv, AwaitsOK, IsAlias, DepOf
  <1>4. InOrder'
    BY <1>1 DEF ShapeInv, InOrder
  <1>5. \A z \in lazies : LazyOK(z)'
    BY <1>1 DEF ShapeInv, LazyOK, TypeOK, Lazy
  <1> QED
    BY <1>2, <1>3, <1>4, <1>5

\* The types of what an action leaves alone, and of the graphs.
LEMMA GraphTypes ==
  ASSUME NEW graphs \in [Call -> [Provider -> Nat]], NEW g \in Call, NEW p \in Provider
  PROVE  /\ Add(graphs, g, p) \in [Call -> [Provider -> Nat]]
         /\ Remove(graphs, g, p) \in [Call -> [Provider -> Nat]]
  BY DEF Add, Remove

LEMMA ThrowKeepsShape ==
  ASSUME ShapeInv, NEW c \in Call, pc[c] # "idle",
         NEW why \in {"host", "circular", "missing", "thrown", "dependency"},
         Throw(c, why),
         why \in {"missing", "dependency"} /\ ~IsAlias(c) => AtADependency(c)
  PROVE  ShapeInv'
  <1> USE DEF Throw
  <1>1. TypeOK'
    BY DEF ShapeInv, TypeOK
  <1>2. pc'[c] = "failed" /\ failure'[c] = why
    BY DEF ShapeInv, TypeOK
  <1>3. CallOK(c)' /\ AwaitsOK(c)'
    BY <1>2 DEF ShapeInv, CallOK, AwaitsOK, AtADependency, IsAlias
  <1>4. \A d \in Call \ {c} : pc'[d] = pc[d] /\ next'[d] = next[d]
                             /\ failure'[d] = failure[d] /\ result'[d] = result[d]
    BY DEF ShapeInv, TypeOK
  <1> QED
    BY <1>1, <1>2, <1>3, <1>4, OthersKeepShape DEF ShapeInv

\* A call goes on to its next dependency.
LEMMA NextDepKeepsShape ==
  ASSUME ShapeInv, NEW c \in Call, pc[c] # "idle", NextDep(c),
         HasDependencies(task[c].provider),
         UNCHANGED <<task, child, result, instances, failure, earlier>>,
         args' \in [Call -> SUBSET Call], graph' \in [Call -> [Provider -> Nat]],
         lazies' \subseteq Lazy, \A z \in lazies' \ lazies : LazyOK(z)'
  PROVE  ShapeInv'
  <1> USE DEF NextDep
  <1>1. TypeOK'
    <2>1. /\ pc' \in [Call -> {"idle", "done", "failed"} \union InFlight]
          /\ next' \in [Call -> Nat] /\ running' \in Call
      BY DEF ShapeInv, TypeOK, InFlight
    <2> QED
      BY <2>1 DEF ShapeInv, TypeOK
  <1>2. pc'[c] = "deps" /\ next'[c] = next[c] + 1
    BY DEF ShapeInv, TypeOK
  <1>3. CallOK(c)' /\ AwaitsOK(c)'
    BY <1>2 DEF ShapeInv, CallOK, AwaitsOK, AtADependency, IsAlias
  <1>4. \A d \in Call \ {c} : pc'[d] = pc[d] /\ next'[d] = next[d]
                             /\ failure'[d] = failure[d] /\ result'[d] = result[d]
    BY DEF ShapeInv, TypeOK
  <1>5. \A d \in Call : next'[d] >= 1
    BY DEF ShapeInv, TypeOK
  <1> QED
    BY <1>1, <1>2, <1>3, <1>4, <1>5, OthersKeepShape DEF ShapeInv

\* A call comes to another await, or to its end.
LEMMA MoveKeepsShape ==
  ASSUME ShapeInv, NEW c \in Call, pc[c] # "idle",
         NEW to \in {"hosted", "absent", "factory", "hook", "done"},
         pc' = [pc EXCEPT ![c] = to], running' = Nil,
         to \in {"hosted", "absent"} => /\ ~IsAlias(c) /\ HasDependencies(task[c].provider)
                                        /\ next[c] <= Len(Deps[task[c].provider]),
         UNCHANGED <<task, next, child, args, lazies, failure, earlier>>,
         graph' \in [Call -> [Provider -> Nat]],
         result' \in [Call -> Call \union {Nil}], to = "done" => result'[c] # Nil,
         \A d \in Call \ {c} : result'[d] = result[d],
         instances' \in [Binding -> [Key -> Call \union {Nil}]]
  PROVE  ShapeInv'
  <1>1. TypeOK'
    BY DEF ShapeInv, TypeOK, InFlight
  <1>2. pc'[c] = to
    BY DEF ShapeInv, TypeOK
  <1>3. CallOK(c)' /\ AwaitsOK(c)'
    BY <1>2 DEF ShapeInv, CallOK, AwaitsOK, AtADependency, IsAlias
  <1>4. \A d \in Call \ {c} : pc'[d] = pc[d] /\ next'[d] = next[d]
                             /\ failure'[d] = failure[d] /\ result'[d] = result[d]
    BY DEF ShapeInv, TypeOK
  <1> QED
    BY <1>1, <1>2, <1>3, <1>4, OthersKeepShape DEF ShapeInv

------------------------------------------------------------------------------
(* Calls that begin *)

\* What a call n may be begun with.
TaskFits(n, t) ==
    /\ t \in Task
    /\ <<t.owner, t.provider>> \in Records \union BoundIn
    /\ t.graph <= n

LEMMA FirstPcType ==
  ASSUME NEW t
  PROVE  /\ FirstPc(t) \in {"done", "alias", "deps", "factory"}
         /\ FirstPc(t) = "done" <=> IsHit(t)
         /\ FirstPc(t) = "done" => Cached(t) # Nil
         /\ FirstPc(t) = "deps" => HasDependencies(t.provider)
         /\ FirstPc(t) = "alias" => t.provider \in DOMAIN Alias
  BY DEF FirstPc, IsHit

LEMMA CachedType ==
  ASSUME TypeOK, NEW t \in Task, <<t.owner, t.provider>> \in Records \union BoundIn
  PROVE  /\ BindingOfTask(t) \in Binding /\ LookupKey(t) \in Key
         /\ Cached(t) \in Call \union {Nil}
  <1>1. BindingOfTask(t) \in Binding
    BY DEF BindingOfTask, Binding
  <1>2. LookupKey(t) \in Key
    BY DEF LookupKey, Key, Task
  <1> QED
    BY <1>1, <1>2 DEF Cached, TypeOK

\* A call that begins has a shape, and so have those that began before.
LEMMA BeginKeepsTypes ==
  ASSUME ShapeInv, NEW n \in Call, NEW t, TaskFits(n, t),
         NEW pcs \in [Call -> {"idle", "done", "failed"} \union InFlight],
         NEW graphs \in [Call -> [Provider -> Nat]],
         Begin(n, t, pcs, graphs),
         child' \in [Call -> Call \union {Nil}], UNCHANGED lazies
  PROVE  TypeOK'
  <1>1. pc' \in [Call -> {"idle", "done", "failed"} \union InFlight]
    BY FirstPcType DEF Begin, InFlight
  <1>2. task' \in [Call -> Task \union {Nil}]
    BY DEF Begin, ShapeInv, TypeOK, TaskFits
  <1>3. result' \in [Call -> Call \union {Nil}]
    BY CachedType DEF Begin, ShapeInv, TypeOK, TaskFits
  <1>4. graph' \in [Call -> [Provider -> Nat]]
    <2>1. t.graph \in Call /\ t.provider \in Provider
      BY DEF TaskFits, Task
    <2> QED
      BY <2>1, GraphTypes DEF Begin
  <1>5. earlier' \in [Call -> SUBSET Call]
    BY DEF Begin, ShapeInv, TypeOK
  <1>6. running' \in Call \union {Nil}
    BY DEF Begin
  <1> QED
    BY <1>1, <1>2, <1>3, <1>4, <1>5, <1>6 DEF Begin, ShapeInv, TypeOK

\* The calls but the new one and the one it was begun by.
LEMMA BeginKeepsOthers ==
  ASSUME NEW n \in Call, NEW c \in Call, NEW t, NEW graphs,
         NEW pcs \in [Call -> {"idle", "done", "failed"} \union InFlight],
         ShapeInv, TaskFits(n, t), Begin(n, t, pcs, graphs), UNCHANGED lazies,
         pc[n] = "idle", \A d \in Call : pc[d] = "idle" => n <= d,
         \A d \in Call \ {n, c} : pcs[d] = pc[d] /\ child'[d] = child[d],
         \A d \in Call : pcs[d] = "idle" <=> pc[d] = "idle"
  PROVE  /\ pc'[n] = FirstPc(t) /\ task'[n] = t
         /\ \A d \in Call \ {n} : pc'[d] = pcs[d] /\ task'[d] = task[d]
                                /\ result'[d] = result[d]
         /\ CallOK(n)' /\ AwaitsOK(n)'
         /\ \A d \in Call \ {n, c} : CallOK(d)' /\ AwaitsOK(d)'
         /\ InOrder' /\ \A z \in lazies : LazyOK(z)'
  <1>1. /\ pc'[n] = FirstPc(t) /\ task'[n] = t
        /\ \A d \in Call \ {n} : pc'[d] = pcs[d] /\ task'[d] = task[d]
        /\ UNCHANGED <<next, failure>>
        /\ \A d \in Call \ {n} : result'[d] = result[d]
        /\ result'[n] = IF IsHit(t) THEN Cached(t) ELSE Nil
    BY DEF Begin, ShapeInv, TypeOK
  <1>2. FirstPc(t) \in {"done", "alias", "deps", "factory"}
        /\ (FirstPc(t) = "deps" => HasDependencies(t.provider))
        /\ (FirstPc(t) = "alias" => t.provider \in DOMAIN Alias)
        /\ (FirstPc(t) = "done" => result'[n] # Nil)
    BY <1>1, FirstPcType
  <1>3. \A d \in Call : pc'[d] = "idle" <=> d # n /\ pc[d] = "idle"
    BY <1>1, <1>2
  <1>4. CallOK(n)' /\ AwaitsOK(n)'
    <2>1. t # Nil
      BY NilAssumption DEF TaskFits
    <2> QED
      BY <1>1, <1>2, <2>1 DEF CallOK, AwaitsOK, AtADependency, IsAlias, TaskFits
  <1>5. ASSUME NEW d \in Call \ {n, c} PROVE CallOK(d)'
    <2>1. d \in Call \ {n} /\ CallOK(d)
      BY <1>5 DEF ShapeInv
    <2> QED
      BY <1>1, <2>1 DEF CallOK, AtADependency, IsAlias
  <1>6. ASSUME NEW d \in Call \ {n, c} PROVE AwaitsOK(d)'
    <2>1. d \in Call \ {n} /\ AwaitsOK(d)
      BY <1>6 DEF ShapeInv
    <2>2. pc[d] = "waiting" => child[d] # n
      BY <2>1 DEF AwaitsOK
    <2> QED
      BY <1>1, <1>3, <2>1, <2>2 DEF AwaitsOK, IsAlias, DepOf
  <1>7. InOrder'
    BY <1>3 DEF ShapeInv, InOrder, Call
  <1>8. \A z \in lazies : LazyOK(z)'
    BY <1>3 DEF ShapeInv, LazyOK, TypeOK, Lazy
  <1> QED
    BY <1>1, <1>4, <1>5, <1>6, <1>7, <1>8

\* A call n that begins: the next one that has not begun.
IsNext(n, t) ==
    /\ n \in Call /\ pc[n] = "idle" /\ \A d \in Call : pc[d] = "idle" => n <= d
    /\ TaskFits(n, t)

\* The call at the root of a request: asked for from outside, or lazily.
BeginsAlone(n, t) ==
    /\ IsNext(n, t)
    /\ Begin(n, t, pc, graph)
    /\ UNCHANGED <<child, lazies>>

\* A call that another one, c, asks for and awaits from now on.
BeginsFor(c, n, t, graphs) ==
    /\ IsNext(n, t) /\ c < n
    /\ pc[c] \in {"deps", "hosted", "alias"}
    /\ pc[c] = "alias" <=> IsAlias(c)
    /\ Begin(n, t, [pc EXCEPT ![c] = "waiting"], graphs)
    /\ child' = [child EXCEPT ![c] = n] /\ UNCHANGED lazies

LEMMA RootKeepsShape ==
  ASSUME ShapeInv, NEW n, NEW t, BeginsAlone(n, t)
  PROVE  ShapeInv'
  <1> USE DEF BeginsAlone, IsNext
  <1>2. TypeOK'
    BY BeginKeepsTypes DEF ShapeInv, TypeOK
  <1>3. /\ \A d \in Call : CallOK(d)' /\ AwaitsOK(d)'
        /\ InOrder' /\ \A z \in lazies : LazyOK(z)'
    <2>1. pc \in [Call -> {"idle", "done", "failed"} \union InFlight]
      BY DEF ShapeInv, TypeOK
    <2>3. \A d \in Call \ {n, n} : pc[d] = pc[d] /\ child'[d] = child[d]
      OBVIOUS
    <2> QED
      BY <2>1, <2>3, BeginKeepsOthers
  <1> QED
    BY <1>2, <1>3 DEF ShapeInv, Begin

LEMMA CallKeepsShape ==
  ASSUME NEW c \in Call, NEW n, NEW t, NEW graphs \in [Call -> [Provider -> Nat]],
         ShapeInv, BeginsFor(c, n, t, graphs),
         IsAlias(c) => t.graph = n /\ t.ctx = Nil,
         ~IsAlias(c) => /\ HasDependencies(task[c].provider)
                        /\ next[c] <= Len(Deps[task[c].provider])
                        /\ t.provider = DepOf(c).on /\ t.ctx = task[c].ctx
                        /\ t.graph \in {task[c].graph, n}
  PROVE  ShapeInv'
  <1>0. PICK pcs : pcs = [pc EXCEPT ![c] = "waiting"]
    OBVIOUS
  <1>1. /\ n \in Call /\ pc[n] = "idle" /\ \A d \in Call : pc[d] = "idle" => n <= d
        /\ c < n /\ pc[c] # "idle"
    BY DEF BeginsFor, IsNext
  <1>2. TaskFits(n, t) /\ Begin(n, t, pcs, graphs) /\ child' = [child EXCEPT ![c] = n]
        /\ UNCHANGED lazies
    BY <1>0 DEF BeginsFor, IsNext
  <1>3. /\ pcs \in [Call -> {"idle", "done", "failed"} \union InFlight]
        /\ pcs[c] = "waiting" /\ \A d \in Call \ {c} : pcs[d] = pc[d]
    BY <1>0 DEF ShapeInv, TypeOK, InFlight
  <1>4. /\ child' \in [Call -> Call \union {Nil}]
        /\ child'[c] = n /\ \A d \in Call \ {c} : child'[d] = child[d]
    BY <1>1, <1>2 DEF ShapeInv, TypeOK
  <1>5. TypeOK'
    BY <1>1, <1>2, <1>3, <1>4, BeginKeepsTypes
  <1>7. /\ pc'[n] = FirstPc(t) /\ task'[n] = t
        /\ \A d \in Call \ {n} : pc'[d] = pcs[d] /\ task'[d] = task[d]
                               /\ result'[d] = result[d]
        /\ CallOK(n)' /\ AwaitsOK(n)'
        /\ \A d \in Call \ {n, c} : CallOK(d)' /\ AwaitsOK(d)'
        /\ InOrder' /\ \A z \in lazies : LazyOK(z)'
    <2>1. \A d \in Call : pcs[d] = "idle" <=> pc[d] = "idle"
      BY <1>1, <1>3
    <2>2. \A d \in Call \ {n, c} : pcs[d] = pc[d] /\ child'[d] = child[d]
      BY <1>3, <1>4
    <2> QED
      BY <1>1, <1>2, <1>3, <2>1, <2>2, BeginKeepsOthers
  <1>8. c # n /\ pc'[c] = "waiting" /\ task'[c] = task[c] /\ pc'[n] # "idle"
        /\ UNCHANGED <<next, failure>>
    <2>1. c # n
      BY <1>1
    <2>2. pc'[n] # "idle"
      BY <1>7, FirstPcType
    <2> QED
      BY <1>2, <1>3, <1>7, <2>1, <2>2 DEF Begin
  <1>9. CallOK(c)'
    BY <1>1, <1>8 DEF ShapeInv, CallOK, AtADependency, IsAlias
  <1>10. AwaitsOK(c)'
    <2>1. (IsAlias(c)' <=> IsAlias(c)) /\ DepOf(c)' = DepOf(c)
      BY <1>8 DEF IsAlias, DepOf
    <2>2. task'[child'[c]] = t /\ child'[c] = n /\ pc'[n] # "idle"
      BY <1>4, <1>7, <1>8
    <2> QED
      BY <1>1, <1>2, <1>8, <2>1, <2>2 DEF AwaitsOK
  <1> QED
    <2>1. \A d \in Call : CallOK(d)' /\ AwaitsOK(d)'
      BY <1>7, <1>9, <1>10
    <2>2. \A d \in Call : next'[d] >= 1
      BY <1>8 DEF ShapeInv
    <2>3. \A z \in lazies' : LazyOK(z)'
      BY <1>2, <1>7
    <2> QED
      BY <1>5, <1>7, <2>1, <2>2, <2>3 DEF ShapeInv

------------------------------------------------------------------------------
(* The actions that begin a call *)

\* What a request finds can be begun as a call, on its own graph or another's.
LEMMA LocatedFits ==
  ASSUME NEW i \in Injector \union {Nil}, NEW p \in Provider,
         NEW ctx \in Context \union {Nil}, NEW flags, NEW l,
         NEW n \in Call, NEW g \in Call, NEW by \in {"outside", "lazy", "call"},
         l \in Located(i, p, ctx, flags), g <= n
  PROVE  /\ TaskFits(n, TaskFor(l, n, g, by))
         /\ TaskFor(l, n, g, by).provider = p /\ TaskFor(l, n, g, by).ctx = ctx
         /\ TaskFor(l, n, g, by).graph \in {g, n}
  <1>1. /\ l.provider = p /\ l.ctx = ctx
        /\ l.owner \in Injector \union Context /\ l.injector \in Injector
        /\ <<l.owner, p>> \in Records \union BoundIn
    BY LocatedType
  <1>2. n <= n
    BY BoundAssumption DEF Call
  <1>3. TaskFor(l, n, g, by).graph \in {g, n}
    BY DEF TaskFor
  <1> QED
    BY <1>1, <1>2, <1>3 DEF TaskFor, TaskFits, Task

LEMMA NextCallIsNext ==
  ASSUME ShapeInv, Unused # {}
  PROVE  \E n \in Call : /\ n = NextCall /\ pc[n] = "idle" /\ n <= n
                         /\ \A d \in Call : pc[d] = "idle" => n <= d
                         /\ \A d \in Call : pc[d] # "idle" => d < n
  <1>1. PICK n : n = NextCall
    OBVIOUS
  <1>2. n \in Call /\ pc[n] = "idle" /\ \A d \in Call : pc[d] = "idle" => n <= d
    BY <1>1, NextCallIsLeast DEF ShapeInv
  <1>3. \A d \in Call : pc[d] # "idle" => d < n
    BY <1>2, BoundAssumption DEF ShapeInv, InOrder, Call
  <1>4. n <= n
    BY <1>2, BoundAssumption DEF Call
  <1> QED
    BY <1>1, <1>2, <1>3, <1>4

\* A request from outside begins a call with a graph of its own.
LEMMA AskBegins ==
  ASSUME ShapeInv, NEW a \in Asked, Ask(a)
  PROVE  \E n, t : BeginsAlone(n, t) /\ t.graph = n /\ t.by = "outside"
  <1>1. a.provider \in Provider /\ a.injector \in Injector /\ a.ctx \in Context \union {Nil}
    BY InjectorAssumption
  <1>2. PICK l \in Located(a.injector, a.provider, a.ctx, {}) :
             Begin(NextCall, TaskFor(l, NextCall, NextCall, "outside"), pc, graph)
    BY DEF Ask
  <1>3. PICK n \in Call : /\ n = NextCall /\ pc[n] = "idle" /\ n <= n
                          /\ \A d \in Call : pc[d] = "idle" => n <= d
    BY NextCallIsNext DEF Ask
  <1> DEFINE t == TaskFor(l, n, n, "outside")
  <1>4. TaskFits(n, t) /\ t.graph \in {n, n}
    BY <1>1, <1>3, LocatedFits
  <1>5. t.by = "outside" /\ Begin(n, t, pc, graph)
    BY <1>2, <1>3 DEF TaskFor
  <1> HIDE DEF t
  <1> QED
    BY <1>3, <1>4, <1>5 DEF BeginsAlone, IsNext, Ask

\* A request for a lazy dependency begins one on the graph of its holder.
LEMMA GetLazyBegins ==
  ASSUME ShapeInv, NEW z \in lazies, GetLazy(z)
  PROVE  \E n, t : BeginsAlone(n, t) /\ t.graph \in {z.graph, n} /\ t.by = "lazy"
  <1>1. z \in Lazy /\ LazyOK(z)
    BY DEF ShapeInv, TypeOK
  <1>2. PICK l \in Located(z.injector, z.provider, z.ctx, z.flags) :
             Begin(NextCall, TaskFor(l, NextCall, z.graph, "lazy"), pc, graph)
    BY DEF GetLazy
  <1>3. PICK n \in Call : /\ n = NextCall /\ pc[n] = "idle"
                          /\ \A d \in Call : pc[d] = "idle" => n <= d
                          /\ \A d \in Call : pc[d] # "idle" => d < n
    BY NextCallIsNext DEF GetLazy
  <1>4. PICK i, p, ctx, flags, g :
             /\ i = z.injector /\ p = z.provider /\ ctx = z.ctx
             /\ flags = z.flags /\ g = z.graph
    OBVIOUS
  <1>5. g \in Call /\ g <= n
    <2>1. z.holder \in Call /\ g \in Call /\ g <= z.holder /\ z.holder < n
      BY <1>1, <1>3, <1>4 DEF Lazy, LazyOK
    <2> QED
      BY <2>1, BoundAssumption DEF Call
  <1> DEFINE t == TaskFor(l, n, g, "lazy")
  <1>6. TaskFits(n, t) /\ t.graph \in {g, n}
    <2>1. /\ l \in Located(i, p, ctx, flags) /\ i \in Injector \union {Nil}
          /\ p \in Provider /\ ctx \in Context \union {Nil}
          /\ "lazy" \in {"outside", "lazy", "call"}
      BY <1>1, <1>4 DEF Lazy
    <2> QED
      BY <1>3, <1>5, <2>1, LocatedFits
  <1>7. t.by = "lazy" /\ Begin(n, t, pc, graph)
    BY <1>2, <1>3, <1>4 DEF TaskFor
  <1> HIDE DEF t
  <1> QED
    BY <1>3, <1>4, <1>6, <1>7 DEF BeginsAlone, IsNext, GetLazy

\* A call that is at a dependency.
LEMMA AtDepType ==
  ASSUME ShapeInv, NEW c \in Call, NEW pcs, AtDep(c, pcs), pc[c] # "idle"
  PROVE  /\ task[c] \in Task /\ next[c] <= Len(Deps[task[c].provider])
         /\ DepOf(c) \in [on: Provider, flags: SUBSET Flags]
         /\ HasDependencies(task[c].provider) /\ ~IsAlias(c)
  <1>1. task[c] \in Task /\ task[c].provider \in Provider
    BY DEF ShapeInv, CallOK, TypeOK, Task
  <1>2. next[c] \in Nat /\ next[c] >= 1 /\ next[c] <= Len(Deps[task[c].provider])
    BY DEF ShapeInv, TypeOK, AtDep
  <1>3. DepOf(c) \in [on: Provider, flags: SUBSET Flags]
    BY <1>1, <1>2, DepType DEF DepOf
  <1>4. Deps[task[c].provider] # <<>>
    BY <1>2, EmptySeq
  <1> QED
    BY <1>1, <1>2, <1>3, <1>4, ProviderAssumption DEF HasDependencies, IsAlias

LEMMA DepInjectorType ==
  ASSUME ShapeInv, NEW c \in Call, task[c] \in Task
  PROVE  DepInjector(c) \in Injector \union {Nil}
  <1>1. task[c].injector \in Injector
    BY DEF Task
  <1> QED
    BY <1>1, InjectorAssumption DEF DepInjector

\* A dependency is entered into the graph, and a call for it begins.
LEMMA RequestDepBegins ==
  ASSUME ShapeInv, NEW c \in Call, RequestDep(c)
  PROVE  /\ pc[c] \in {"deps", "hosted"} /\ ~IsAlias(c)
         /\ task[c] \in Task /\ next[c] <= Len(Deps[task[c].provider])
         /\ DepOf(c).on \in Provider /\ HasDependencies(task[c].provider)
         /\ \E n, t : /\ BeginsFor(c, n, t, Add(graph, task[c].graph, DepOf(c).on))
                      /\ t.provider = DepOf(c).on /\ t.ctx = task[c].ctx
                      /\ t.graph \in {task[c].graph, n} /\ t.by = "call"
  <1>1. AtDep(c, {"deps", "hosted"}) /\ pc[c] \in {"deps", "hosted"} /\ pc[c] # "idle"
    BY DEF RequestDep, Resolvable, InBody, AtDep
  <1>2. /\ task[c] \in Task /\ next[c] <= Len(Deps[task[c].provider])
        /\ DepOf(c) \in [on: Provider, flags: SUBSET Flags] /\ DepOf(c).on \in Provider
        /\ HasDependencies(task[c].provider) /\ ~IsAlias(c)
    BY <1>1, AtDepType
  <1>3. PICK l \in LocatedDep(c) :
             Begin(NextCall, TaskFor(l, NextCall, task[c].graph, "call"),
                   [pc EXCEPT ![c] = "waiting"], Add(graph, task[c].graph, DepOf(c).on))
    BY DEF RequestDep
  <1>4. PICK n \in Call : /\ n = NextCall /\ pc[n] = "idle"
                          /\ \A d \in Call : pc[d] = "idle" => n <= d
                          /\ \A d \in Call : pc[d] # "idle" => d < n
    BY NextCallIsNext DEF RequestDep
  <1>5. PICK i, p, ctx, flags, g :
             /\ i = DepInjector(c) /\ p = DepOf(c).on /\ ctx = task[c].ctx
             /\ flags = DepOf(c).flags /\ g = task[c].graph
    OBVIOUS
  <1>6. c < n /\ g \in Call /\ g <= n
    <2>1. g \in Call /\ g <= c /\ c < n
      BY <1>1, <1>2, <1>4, <1>5 DEF ShapeInv, CallOK, Task
    <2> QED
      BY <2>1, BoundAssumption DEF Call
  <1> DEFINE t == TaskFor(l, n, g, "call")
  <1>7. TaskFits(n, t) /\ t.provider = p /\ t.ctx = ctx /\ t.graph \in {g, n}
    <2>1. l \in Located(i, p, ctx, flags)
      BY <1>2, <1>5 DEF LocatedDep
    <2>2. i \in Injector \union {Nil}
      BY <1>2, <1>5, DepInjectorType
    <2>3. p \in Provider /\ ctx \in Context \union {Nil}
      BY <1>2, <1>5 DEF Task
    <2>4. n \in Call /\ "call" \in {"outside", "lazy", "call"}
      BY <1>4
    <2> HIDE DEF t
    <2>5. /\ TaskFits(n, TaskFor(l, n, g, "call"))
          /\ TaskFor(l, n, g, "call").provider = p /\ TaskFor(l, n, g, "call").ctx = ctx
          /\ TaskFor(l, n, g, "call").graph \in {g, n}
      <3>1. /\ l.provider = p /\ l.ctx = ctx
            /\ l.owner \in Injector \union Context /\ l.injector \in Injector
            /\ <<l.owner, p>> \in Records \union BoundIn
        BY <2>1, <2>2, <2>3, LocatedType
      <3>2. n <= n
        BY <2>4, BoundAssumption DEF Call
      <3> QED
        BY <1>6, <2>3, <2>4, <3>1, <3>2 DEF TaskFor, TaskFits, Task
    <2> QED
      BY <2>5 DEF t
  <1>8. /\ t.by = "call"
        /\ Begin(n, t, [pc EXCEPT ![c] = "waiting"], Add(graph, task[c].graph, DepOf(c).on))
    BY <1>3, <1>4, <1>5 DEF TaskFor
  <1>9. child' = [child EXCEPT ![c] = n] /\ UNCHANGED lazies
    BY <1>4 DEF RequestDep
  <1> HIDE DEF t
  <1>10. BeginsFor(c, n, t, Add(graph, task[c].graph, DepOf(c).on))
    BY <1>1, <1>2, <1>4, <1>6, <1>7, <1>8, <1>9 DEF BeginsFor, IsNext
  <1> QED
    BY <1>1, <1>2, <1>5, <1>7, <1>8, <1>10

\* The target of an alias is asked for by a call with a graph of its own, or the
\* alias has none.
LEMMA FollowAliasBegins ==
  ASSUME ShapeInv, NEW c \in Call, FollowAlias(c)
  PROVE  /\ pc[c] = "alias" /\ IsAlias(c)
         /\ \/ Throw(c, "missing")
            \/ \E n, t : /\ BeginsFor(c, n, t, graph)
                         /\ t.provider = Alias[task[c].provider] /\ t.ctx = Nil
                         /\ t.graph = n /\ t.by = "call"
  <1>1. /\ pc[c] = "alias" /\ IsAlias(c) /\ task[c] \in Task
        /\ task[c].owner \in Injector /\ Alias[task[c].provider] \in Provider
    <2>1. pc[c] = "alias" /\ IsAlias(c) /\ task[c] \in Task
          /\ <<task[c].owner, task[c].provider>> \in Records \union BoundIn
      BY DEF FollowAlias, ShapeInv, CallOK, TypeOK
    <2> QED
      BY <2>1, InjectorAssumption, ProviderAssumption DEF IsAlias
  <1> DEFINE found == Located(task[c].owner, Alias[task[c].provider], Nil, {})
  <1>2. CASE found = {}
    BY <1>1, <1>2 DEF FollowAlias
  <1>3. CASE found # {}
    <2>1. /\ Unused # {} /\ child' = [child EXCEPT ![c] = NextCall] /\ UNCHANGED lazies
          /\ \E l \in found : Begin(NextCall, TaskFor(l, NextCall, NextCall, "call"),
                                    [pc EXCEPT ![c] = "waiting"], graph)
      BY <1>3 DEF FollowAlias
    <2>2. PICK l \in found : Begin(NextCall, TaskFor(l, NextCall, NextCall, "call"),
                                   [pc EXCEPT ![c] = "waiting"], graph)
      BY <2>1
    <2>3. PICK n \in Call : /\ n = NextCall /\ pc[n] = "idle" /\ n <= n
                            /\ \A d \in Call : pc[d] = "idle" => n <= d
                            /\ \A d \in Call : pc[d] # "idle" => d < n
      BY <2>1, NextCallIsNext
    <2>4. PICK i, p : i = task[c].owner /\ p = Alias[task[c].provider]
      OBVIOUS
    <2> DEFINE t == TaskFor(l, n, n, "call")
    <2>5. TaskFits(n, t) /\ t.graph = n /\ t.provider = p /\ t.ctx = Nil
      <3>1. /\ i \in Injector \union {Nil} /\ Nil \in Context \union {Nil}
            /\ p \in Provider /\ l \in Located(i, p, Nil, {})
            /\ "call" \in {"outside", "lazy", "call"}
        BY <1>1, <2>4
      <3>2. TaskFits(n, t) /\ t.provider = p /\ t.ctx = Nil /\ t.graph \in {n, n}
        BY <2>3, <3>1, LocatedFits
      <3> QED
        BY <3>2
    <2>6. t.by = "call" /\ Begin(n, t, [pc EXCEPT ![c] = "waiting"], graph)
      BY <2>2, <2>3 DEF TaskFor
    <2> HIDE DEF t
    <2>7. BeginsFor(c, n, t, graph)
      BY <1>1, <2>1, <2>3, <2>5, <2>6 DEF BeginsFor, IsNext
    <2> QED
      BY <1>1, <2>4, <2>5, <2>6, <2>7
  <1> QED
    BY <1>2, <1>3

LEMMA BeginningsKeepShape ==
  ASSUME ShapeInv
  PROVE  /\ \A a \in Asked : Ask(a) => ShapeInv'
         /\ \A z \in lazies : GetLazy(z) => ShapeInv'
         /\ \A c \in Call : RequestDep(c) \/ FollowAlias(c) => ShapeInv'
  <1>1. ASSUME NEW c \in Call, RequestDep(c) PROVE ShapeInv'
    <2>1. Add(graph, task[c].graph, DepOf(c).on) \in [Call -> [Provider -> Nat]]
      BY <1>1, RequestDepBegins, GraphTypes DEF ShapeInv, TypeOK, Task
    <2> QED
      BY <1>1, <2>1, RequestDepBegins, CallKeepsShape
  <1>2. ASSUME NEW c \in Call, FollowAlias(c) PROVE ShapeInv'
    <2>1. CASE Throw(c, "missing")
      BY <1>2, <2>1, FollowAliasBegins, ThrowKeepsShape
    <2>2. CASE ~Throw(c, "missing")
      <3>1. graph \in [Call -> [Provider -> Nat]] /\ IsAlias(c)
        BY <1>2, FollowAliasBegins DEF ShapeInv, TypeOK
      <3> QED
        BY <1>2, <2>2, <3>1, FollowAliasBegins, CallKeepsShape
    <2> QED
      BY <2>1, <2>2
  <1> QED
    BY <1>1, <1>2, AskBegins, GetLazyBegins, RootKeepsShape

------------------------------------------------------------------------------
(* The other actions keep the shape *)

LEMMA KeepType ==
  ASSUME ShapeInv, NEW c \in Call, pc[c] # "idle", Keep(c)
  PROVE  instances' \in [Binding -> [Key -> Call \union {Nil}]]
  <1>1. task[c] \in Task /\ <<task[c].owner, task[c].provider>> \in Records \union BoundIn
    BY DEF ShapeInv, CallOK, TypeOK
  <1>2. BindingOfTask(task[c]) \in Binding /\ LookupKey(task[c]) \in Key
    BY <1>1, CachedType DEF ShapeInv
  <1>3. instances \in [Binding -> [Key -> Call \union {Nil}]]
    BY DEF ShapeInv, TypeOK
  <1>4. PICK b \in Binding, k \in Key :
             \/ instances' = instances
             \/ instances' = [instances EXCEPT ![b][k] = c]
    BY <1>2 DEF Keep
  <1>5. [instances EXCEPT ![b][k] = c] \in [Binding -> [Key -> Call \union {Nil}]]
    <2>1. [instances[b] EXCEPT ![k] = c] \in [Key -> Call \union {Nil}]
      BY <1>3
    <2> QED
      BY <1>3, <2>1
  <1> QED
    BY <1>3, <1>4, <1>5

LEMMA ReturnKeepsShape ==
  ASSUME ShapeInv, NEW c \in Call, pc[c] # "idle", Return(c)
  PROVE  ShapeInv'
  <1>1. instances' \in [Binding -> [Key -> Call \union {Nil}]]
    BY KeepType DEF Return
  <1>2. /\ result' \in [Call -> Call \union {Nil}] /\ graph' \in [Call -> [Provider -> Nat]]
        /\ pc' = [pc EXCEPT ![c] = "done"] /\ running' = Nil
        /\ UNCHANGED <<task, next, child, args, lazies, failure, earlier>>
        /\ result'[c] # Nil /\ \A d \in Call \ {c} : result'[d] = result[d]
    BY NilAssumption DEF ShapeInv, TypeOK, Return
  <1> QED
    BY <1>1, <1>2, MoveKeepsShape

\* What a call takes out of the graph leaves a graph.
LEMMA RemoveType ==
  ASSUME ShapeInv, NEW c \in Call, task[c] \in Task, NEW p \in Provider
  PROVE  Remove(graph, task[c].graph, p) \in [Call -> [Provider -> Nat]]
  <1>1. task[c].graph \in Call
    BY DEF Task
  <1> QED
    BY <1>1, GraphTypes DEF ShapeInv, TypeOK

LEMMA InjectLazyKeepsShape ==
  ASSUME ShapeInv, NEW c \in Call, InjectLazy(c)
  PROVE  ShapeInv'
  <1>1. AtDep(c, {"deps", "hosted"}) /\ pc[c] # "idle"
    BY DEF InjectLazy, InBody, AtDep
  <1>2. /\ task[c] \in Task /\ DepOf(c) \in [on: Provider, flags: SUBSET Flags]
        /\ HasDependencies(task[c].provider)
    BY <1>1, AtDepType
  <1> DEFINE z == [provider |-> DepOf(c).on, injector |-> DepInjector(c),
                   ctx |-> task[c].ctx, graph |-> task[c].graph,
                   flags |-> DepOf(c).flags, holder |-> c]
  <1>3. z \in Lazy
    BY <1>2, DepInjectorType DEF Lazy, Task
  <1>4. lazies' = lazies \union {z}
    BY DEF InjectLazy
  <1>5. graph' \in [Call -> [Provider -> Nat]]
    BY <1>2, RemoveType DEF InjectLazy
  <1>6. ASSUME NEW y \in lazies' \ lazies PROVE LazyOK(y)'
    <2>1. y = z
      BY <1>4
    <2>2. pc'[c] # "idle"
      BY DEF InjectLazy, NextDep, ShapeInv, TypeOK
    <2>3. task[c].graph <= c
      BY <1>1 DEF ShapeInv, CallOK
    <2> QED
      BY <2>1, <2>2, <2>3 DEF LazyOK
  <1>7. lazies' \subseteq Lazy
    BY <1>3, <1>4 DEF ShapeInv, TypeOK
  <1>8. /\ NextDep(c) /\ UNCHANGED <<task, child, args, result, instances, failure, earlier>>
        /\ args' \in [Call -> SUBSET Call]
    BY DEF InjectLazy, ShapeInv, TypeOK
  <1> QED
    BY <1>1, <1>2, <1>5, <1>6, <1>7, <1>8, NextDepKeepsShape

\* The steps by which a call comes to its next dependency.
LEMMA NextDepStepsKeepShape ==
  ASSUME ShapeInv, NEW c \in Call, InjectNull(c) \/ InjectAbsent(c) \/ Inject(c)
  PROVE  ShapeInv'
  <1>1. CASE InjectNull(c)
    <2>1. HasDependencies(task[c].provider) /\ pc[c] # "idle"
      BY <1>1, AtDepType DEF InjectNull, InBody, AtDep
    <2>2. /\ args' \in [Call -> SUBSET Call] /\ graph' \in [Call -> [Provider -> Nat]]
          /\ lazies' \subseteq Lazy /\ lazies' \ lazies = {}
      BY <1>1 DEF InjectNull, ShapeInv, TypeOK
    <2> QED
      BY <1>1, <2>1, <2>2, NextDepKeepsShape DEF InjectNull
  <1>2. CASE InjectAbsent(c)
    <2>1. /\ HasDependencies(task[c].provider) /\ pc[c] # "idle" /\ task[c] \in Task
          /\ DepOf(c).on \in Provider
      BY <1>2, AtDepType DEF InjectAbsent, AtDep
    <2>2. /\ args' \in [Call -> SUBSET Call] /\ graph' \in [Call -> [Provider -> Nat]]
          /\ lazies' \subseteq Lazy /\ lazies' \ lazies = {}
      BY <1>2, <2>1, RemoveType DEF InjectAbsent, ShapeInv, TypeOK
    <2> QED
      BY <1>2, <2>1, <2>2, NextDepKeepsShape DEF InjectAbsent
  <1>3. CASE Inject(c)
    <2>1. /\ HasDependencies(task[c].provider) /\ pc[c] = "waiting" /\ task[c] \in Task
          /\ next[c] <= Len(Deps[task[c].provider])
      <3>1. pc[c] = "waiting" /\ ~IsAlias(c) /\ AtADependency(c)
        BY <1>3 DEF Inject, AtADependency
      <3>2. CallOK(c) /\ task[c] # Nil
        BY <3>1 DEF ShapeInv, CallOK
      <3> QED
        BY <3>1, <3>2, TaskType DEF ShapeInv, CallOK
    <2>2. DepOf(c).on \in Provider
      <3>1. task[c].provider \in Provider /\ next[c] \in Nat /\ next[c] >= 1
        BY <2>1 DEF ShapeInv, TypeOK, Task
      <3> QED
        BY <2>1, <3>1, DepType DEF DepOf
    <2>3. args' \in [Call -> SUBSET Call]
      <3>1. result[child[c]] \in Call
        <4>1. child[c] \in Call /\ pc[child[c]] = "done"
          BY <1>3, <2>1 DEF Inject, ShapeInv, AwaitsOK
        <4>2. result[child[c]] # Nil
          BY <4>1 DEF ShapeInv, CallOK
        <4> QED
          BY <4>1, <4>2 DEF ShapeInv, TypeOK
      <3> QED
        BY <1>3, <3>1 DEF Inject, ShapeInv, TypeOK
    <2>4. /\ graph' \in [Call -> [Provider -> Nat]]
          /\ lazies' \subseteq Lazy /\ lazies' \ lazies = {}
      BY <1>3, <2>1, <2>2, RemoveType DEF Inject, ShapeInv, TypeOK
    <2> QED
      BY <1>3, <2>1, <2>3, <2>4, NextDepKeepsShape DEF Inject
  <1> QED
    BY <1>1, <1>2, <1>3
------------------------------------------------------------------------------

\* The shape of calls is kept by every step.
LEMMA ShapeInvNext ==
  ASSUME ShapeInv, [Next]_vars
  PROVE  ShapeInv'
  <1>1. CASE UNCHANGED vars
    BY <1>1 DEF vars, ShapeInv, TypeOK, CallOK, AwaitsOK, InOrder, LazyOK,
                AtADependency, IsAlias, DepOf
  <1>2. ASSUME NEW c \in Call, Proceed(c) PROVE ShapeInv'
    <2>1. CASE AwaitHost(c)
      <3>1. /\ pc[c] # "idle" /\ HasDependencies(task[c].provider) /\ ~IsAlias(c)
            /\ next[c] <= Len(Deps[task[c].provider])
        BY <2>1, AtDepType DEF AwaitHost, AtDep
      <3> QED
        BY <2>1, <3>1, MoveKeepsShape DEF AwaitHost, ShapeInv, TypeOK
    <2>2. CASE HostMissing(c) \/ CheckAndThrow(c)
      <3>1. pc[c] # "idle" /\ (Throw(c, "host") \/ Throw(c, "circular"))
        BY <2>2 DEF HostMissing, CheckAndThrow, InBody, AtDep
      <3> QED
        BY <3>1, ThrowKeepsShape
    <2>3. CASE RequestAbsentDep(c)
      <3>1. /\ pc[c] # "idle" /\ HasDependencies(task[c].provider) /\ ~IsAlias(c)
            /\ next[c] <= Len(Deps[task[c].provider])
            /\ task[c] \in Task /\ DepOf(c).on \in Provider
        BY <2>3, AtDepType DEF RequestAbsentDep, Resolvable, InBody, AtDep
      <3>2. graph' \in [Call -> [Provider -> Nat]]
        BY <2>3, <3>1, GraphTypes DEF RequestAbsentDep, ShapeInv, TypeOK, Task
      <3> QED
        BY <2>3, <3>1, <3>2, MoveKeepsShape DEF RequestAbsentDep, ShapeInv, TypeOK
    <2>4. CASE ThrowAbsent(c)
      <3>1. pc[c] = "absent" /\ Throw(c, "missing")
        BY <2>4 DEF ThrowAbsent, AtDep
      <3>2. AtADependency(c)
        BY <2>4, <3>1, AtDepType DEF ThrowAbsent, AtADependency
      <3> QED
        BY <3>1, <3>2, ThrowKeepsShape
    <2>5. CASE Propagate(c)
      <3>1. pc[c] = "waiting" /\ Throw(c, "dependency")
        BY <2>5 DEF Propagate
      <3>2. ~IsAlias(c) => AtADependency(c)
        BY <3>1 DEF AtADependency
      <3> QED
        BY <3>1, <3>2, ThrowKeepsShape
    <2>6. CASE DependenciesResolved(c)
      <3>1. pc[c] = "deps" /\ task[c] \in Task /\ task[c].provider \in Provider
        BY <2>6 DEF DependenciesResolved, ShapeInv, CallOK, TypeOK, Task
      <3>2. graph' \in [Call -> [Provider -> Nat]]
        BY <2>6, <3>1, RemoveType DEF DependenciesResolved
      <3> QED
        BY <2>6, <3>1, <3>2, MoveKeepsShape DEF DependenciesResolved, ShapeInv, TypeOK
    <2>7. CASE AliasResolved(c) \/ Construct(c) \/ HookReturned(c)
      <3>1. pc[c] # "idle" /\ Return(c)
        BY <2>7 DEF AliasResolved, Construct, HookReturned
      <3> QED
        BY <3>1, ReturnKeepsShape
    <2>8. CASE ConstructAndAwaitHook(c)
      <3>1. pc[c] # "idle"
        BY <2>8 DEF ConstructAndAwaitHook
      <3> QED
        BY <2>8, <3>1, MoveKeepsShape DEF ConstructAndAwaitHook, ShapeInv, TypeOK
    <2>9. CASE FactoryThrows(c)
      <3>1. pc[c] # "idle" /\ Throw(c, "thrown")
        BY <2>9 DEF FactoryThrows
      <3> QED
        BY <3>1, ThrowKeepsShape
    <2> QED
      BY <1>2, <2>1, <2>2, <2>3, <2>4, <2>5, <2>6, <2>7, <2>8, <2>9, InjectLazyKeepsShape,
         NextDepStepsKeepShape, BeginningsKeepShape DEF Proceed
  <1> QED
    BY <1>1, <1>2, BeginningsKeepShape DEF Next

LEMMA ShapeInvariant == Spec => []ShapeInv
  BY ShapeInvInit, ShapeInvNext, PTL DEF Spec

\* The state of every resolution has its types, whatever is requested, resolved and
\* thrown in which order.
THEOREM TypeCorrectness == Spec => []TypeOK
  <1>1. ShapeInv => TypeOK
    BY DEF ShapeInv
  <1> QED
    BY <1>1, ShapeInvariant, PTL

------------------------------------------------------------------------------
(* Resolution implements InstanceCache *)

\* What the cache sees of the calls.
CachePcs == [c \in Call |-> CachePc(c)]

CacheRequests == [c \in Call |-> CacheRequest(c)]

LEMMA CachePcIs ==
  ASSUME NEW c
  PROVE  /\ pc[c] \in {"idle", "done", "failed", "factory", "hook"} => CachePc(c) = pc[c]
         /\ pc[c] \in {"deps", "hosted", "absent"} => CachePc(c) = "deps"
         /\ pc[c] = "alias" => CachePc(c) = "factory"
         /\ pc[c] = "waiting" /\ IsAlias(c) => CachePc(c) = "factory"
         /\ pc[c] = "waiting" /\ ~IsAlias(c) => CachePc(c) = "deps"
  BY DEF CachePc

LEMMA CacheDone ==
  ASSUME TypeOK, NEW c \in Call
  PROVE  CachePc(c) = "done" <=> pc[c] = "done"
  <1>1. pc[c] \in {"idle", "done", "failed"} \union InFlight
    BY DEF TypeOK
  <1> QED
    BY <1>1, CachePcIs DEF InFlight

\* A provider without dependencies depends on nothing that is transient.
LEMMA WithoutDependencies ==
  ASSUME NEW p \in Provider, ~HasDependencies(p)
  PROVE  FindMostTransientDependencyLifetime(p) = "Singleton"
  <1>1. Deps[p] = <<>>
    BY DEF HasDependencies
  <1>2. DOMAIN Deps[p] = {}
    BY <1>1
  <1> QED
    BY <1>2 DEF FindMostTransientDependencyLifetime

\* What the cache knows of a binding is what its provider says.
LEMMA BindingIs ==
  ASSUME NEW t \in Task, BindingOfTask(t) \in Binding
  PROVE  /\ BindingLifetime[BindingOfTask(t)] = Lifetime[t.provider]
         /\ BindingDepLifetime[BindingOfTask(t)]
                = FindMostTransientDependencyLifetime(t.provider)
         /\ BindingOfTask(t) \in BindingsWithDeps <=> HasDependencies(t.provider)
         /\ BindingOfTask(t) \in HookedBindings <=> t.provider \in Hooked
  <1>1. BindingOfTask(t)[1] = t.provider
    BY DEF BindingOfTask, BindingOf
  <1> QED
    BY <1>1 DEF BindingLifetime, BindingDepLifetime, BindingsWithDeps, HookedBindings

\* The request of a task.
RequestOf(t) == [binding |-> BindingOfTask(t), injector |-> t.injector, ctx |-> t.ctx]

LEMMA CacheLooksUp ==
  ASSUME NEW n \in Call, NEW t, TaskFits(n, t), TypeOK
  PROVE  /\ RequestOf(t) \in Cache!Request
         /\ Cache!LookupKey(RequestOf(t)) = LookupKey(t)
         /\ Cache!GetInstance(RequestOf(t)) = Cached(t)
         /\ Cache!Reusable(RequestOf(t)) /\ Cached(t) # Nil <=> IsHit(t)
         /\ Cache!IsTransient(BindingOfTask(t)) <=> IsTransient(t.provider)
         /\ Cache!HasHook(BindingOfTask(t)) <=> HasHook(t.provider)
  <1> USE DEF RequestOf
  <1>1. /\ t \in Task /\ BindingOfTask(t) \in Binding
        /\ t.provider \in Provider
    BY CachedType DEF TaskFits, Task
  <1>2. RequestOf(t) \in Cache!Request
    BY <1>1 DEF Cache!Request, Task
  <1>3. Cache!LookupKey(RequestOf(t)) = LookupKey(t)
    BY <1>1, BindingIs DEF Cache!LookupKey, LookupKey
  <1>4. Cache!GetInstance(RequestOf(t)) = Cached(t)
    BY <1>3 DEF Cache!GetInstance, Cached
  <1>5. Cache!IsTransientByDependency(BindingOfTask(t)) <=> IsTransientByDependency(t.provider)
    BY <1>1, BindingIs DEF Cache!IsTransientByDependency, IsTransientByDependency
  <1>6. Cache!IsDependencyTreeStatic(BindingOfTask(t)) <=> IsDependencyTreeStatic(t.provider)
    BY <1>1, BindingIs, WithoutDependencies
       DEF Cache!IsDependencyTreeStatic, IsDependencyTreeStatic
  <1>7. Cache!Reusable(RequestOf(t)) /\ Cached(t) # Nil <=> IsHit(t)
    BY <1>3, <1>5, <1>6 DEF Cache!Reusable, IsHit
  <1>8. Cache!IsTransient(BindingOfTask(t)) <=> IsTransient(t.provider)
    BY <1>1, <1>5, BindingIs DEF Cache!IsTransient, IsTransient
  <1>9. Cache!HasHook(BindingOfTask(t)) <=> HasHook(t.provider)
    BY <1>1, BindingIs DEF Cache!HasHook, HasHook
  <1> QED
    BY <1>2, <1>3, <1>4, <1>7, <1>8, <1>9

\* A call that begins is a call the cache is asked by.
LEMMA BeginIsAsk ==
  ASSUME NEW n \in Call, NEW t, NEW graphs,
         NEW pcs \in [Call -> {"idle", "done", "failed"} \union InFlight],
         ShapeInv, TaskFits(n, t), Begin(n, t, pcs, graphs), pc[n] = "idle",
         \A d \in Call \ {n} : CachePc(d)' = CachePc(d)
  PROVE  Cache!Next
  <1> DEFINE q == RequestOf(t)
  <1>1. /\ pc'[n] = FirstPc(t) /\ task'[n] = t
        /\ \A d \in Call \ {n} : task'[d] = task[d]
        /\ result' = [result EXCEPT ![n] = IF IsHit(t) THEN Cached(t) ELSE Nil]
        /\ earlier' = [earlier EXCEPT ![n] = {d \in Call : pc[d] = "done"}]
        /\ UNCHANGED instances
    BY DEF Begin, ShapeInv, TypeOK
  <1>2. /\ q \in Cache!Request /\ Cache!GetInstance(q) = Cached(t)
        /\ Cache!Reusable(q) /\ Cached(t) # Nil <=> IsHit(t)
    BY CacheLooksUp DEF ShapeInv
  <1>3. {d \in Call : CachePcs[d] = "done"} = {d \in Call : pc[d] = "done"}
    BY CacheDone DEF ShapeInv, CachePcs
  <1>4. CacheRequests' = [CacheRequests EXCEPT ![n] = q]
    <2>1. CacheRequest(n)' = q
      <3>1. t # Nil
        BY NilAssumption DEF TaskFits
      <3>2. BindingOfTask(task[n])' = BindingOfTask(t)
        BY <1>1 DEF BindingOfTask, BindingOf
      <3> QED
        BY <1>1, <3>1, <3>2 DEF CacheRequest, RequestOf
    <2>2. \A d \in Call \ {n} : CacheRequest(d)' = CacheRequest(d)
      BY <1>1 DEF CacheRequest
    <2> QED
      BY <2>1, <2>2 DEF CacheRequests
  <1>5. CachePcs[n] = "idle"
    BY CachePcIs DEF CachePcs
  <1>6. Cache!Ask(n, q)
    BY <1>1, <1>3, <1>4, <1>5 DEF Cache!Ask, CachePcs, CacheRequests
  <1>7. \A x : CachePc(n)' = x => CachePcs' = [CachePcs EXCEPT ![n] = x]
    BY DEF CachePcs
  <1>8. CASE IsHit(t)
    <2>1. pc'[n] = "done"
      BY <1>1, <1>8 DEF FirstPc
    <2>2. CachePc(n)' = "done"
      BY <2>1 DEF CachePc
    <2>3. Cache!Hit(n, q)
      BY <1>1, <1>2, <1>6, <1>7, <1>8, <2>2 DEF Cache!Hit, CachePcs
    <2> QED
      BY <1>2, <2>3 DEF Cache!Next
  <1>9. CASE ~IsHit(t)
    <2>1. q.binding \in BindingsWithDeps <=> HasDependencies(t.provider)
      BY BindingIs, CachedType DEF TaskFits, RequestOf, ShapeInv
    <2>2. CachePc(n)' = IF q.binding \in BindingsWithDeps THEN "deps" ELSE "factory"
      <3>1. CASE t.provider \in DOMAIN Alias
        <4>1. ~HasDependencies(t.provider)
          BY <3>1, ProviderAssumption DEF HasDependencies
        <4>2. pc'[n] = "alias"
          BY <1>1, <1>9, <3>1 DEF FirstPc
        <4> QED
          BY <2>1, <4>1, <4>2 DEF CachePc
      <3>2. CASE t.provider \notin DOMAIN Alias
        <4>1. pc'[n] = IF HasDependencies(t.provider) THEN "deps" ELSE "factory"
          BY <1>1, <1>9, <3>2 DEF FirstPc
        <4> QED
          BY <2>1, <4>1 DEF CachePc
      <3> QED
        BY <3>1, <3>2
    <2>3. result' = result
      <3>1. result[n] = Nil
        BY DEF ShapeInv, CallOK
      <3> QED
        BY <1>1, <1>9, <3>1 DEF ShapeInv, TypeOK
    <2>4. Cache!Miss(n, q)
      BY <1>1, <1>2, <1>6, <1>7, <1>9, <2>2, <2>3 DEF Cache!Miss, CachePcs
    <2> QED
      BY <1>2, <2>4 DEF Cache!Next
  <1> QED
    BY <1>8, <1>9

\* A step the cache does not see.
LEMMA StepIsStutter ==
  ASSUME UNCHANGED <<task, instances, result, earlier>>,
         \A d \in Call : CachePc(d)' = CachePc(d)
  PROVE  UNCHANGED Cache!vars
  <1>1. \A d \in Call : CacheRequest(d)' = CacheRequest(d)
    BY DEF CacheRequest, BindingOfTask, BindingOf
  <1> QED
    BY <1>1 DEF Cache!vars

\* What the cache sees of a step that begins no call.
LEMMA StepOfCall ==
  ASSUME ShapeInv, NEW c \in Call, NEW to, pc' = [pc EXCEPT ![c] = to], UNCHANGED task
  PROVE  /\ pc'[c] = to /\ CacheRequests' = CacheRequests
         /\ \A d \in Call \ {c} : CachePc(d)' = CachePc(d)
         /\ \A x : CachePc(c)' = x => CachePcs' = [CachePcs EXCEPT ![c] = x]
  <1>1. pc'[c] = to /\ \A d \in Call \ {c} : pc'[d] = pc[d]
    BY DEF ShapeInv, TypeOK
  <1>2. \A d \in Call : CacheRequest(d)' = CacheRequest(d)
    BY DEF CacheRequest, BindingOfTask, BindingOf
  <1>3. \A d \in Call \ {c} : CachePc(d)' = CachePc(d)
    BY <1>1 DEF CachePc, IsAlias
  <1> QED
    BY <1>1, <1>2, <1>3 DEF CachePcs, CacheRequests

LEMMA ThrowIsFail ==
  ASSUME ShapeInv, NEW c \in Call, NEW why, pc[c] \in InFlight, Throw(c, why)
  PROVE  Cache!Next
  <1>1. pc'[c] = "failed" /\ CachePcs[c] \in {"deps", "factory", "hook"}
    BY CachePcIs DEF Throw, ShapeInv, TypeOK, InFlight, CachePcs
  <1>2. CachePc(c)' = "failed"
    BY <1>1 DEF CachePc
  <1>3. CachePcs' = [CachePcs EXCEPT ![c] = "failed"] /\ CacheRequests' = CacheRequests
    BY <1>2, StepOfCall DEF Throw
  <1>4. Cache!Fail(c)
    BY <1>1, <1>3 DEF Cache!Fail, Cache!InFlight, CachePcs, CacheRequests, Throw
  <1> QED
    BY <1>4 DEF Cache!Next

LEMMA ReturnIsReturn ==
  ASSUME ShapeInv, NEW c \in Call, pc[c] # "idle", Return(c)
  PROVE  Cache!Return(c)
  <1>1. /\ task[c] \in Task /\ TaskFits(c, task[c])
    BY TaskType DEF ShapeInv, CallOK, TaskFits
  <1>2. CacheRequests[c] = RequestOf(task[c])
    BY <1>1, NilAssumption DEF CacheRequests, CacheRequest, RequestOf
  <1>3. Cache!Produced(c) = c
    BY DEF Cache!Produced
  <1>4. pc'[c] = "done"
    BY DEF Return, ShapeInv, TypeOK
  <1>5. CachePc(c)' = "done"
    BY <1>4 DEF CachePc
  <1>6. CachePcs' = [CachePcs EXCEPT ![c] = "done"] /\ CacheRequests' = CacheRequests
    BY <1>5, StepOfCall DEF Return
  <1>7. IF Cache!IsTransient(RequestOf(task[c]).binding)
          THEN UNCHANGED instances
          ELSE Cache!SetInstance(RequestOf(task[c]), c)
    BY <1>1, CacheLooksUp DEF Return, Keep, Cache!SetInstance, RequestOf, ShapeInv
  <1> QED
    BY <1>2, <1>3, <1>6, <1>7 DEF Cache!Return, CachePcs, CacheRequests, Return

LEMMA ConstructIsConstruct ==
  ASSUME ShapeInv, NEW c \in Call,
         AliasResolved(c) \/ Construct(c) \/ ConstructAndAwaitHook(c) \/ HookReturned(c)
  PROVE  Cache!Next
  <1>1. /\ pc[c] \in {"waiting", "factory", "hook"} /\ pc[c] # "idle"
        /\ task[c] \in Task /\ TaskFits(c, task[c])
    BY TaskType DEF ShapeInv, CallOK, TaskFits, AliasResolved, Construct,
                    ConstructAndAwaitHook, HookReturned
  <1>2. CacheRequests[c] = RequestOf(task[c])
    BY <1>1, NilAssumption DEF CacheRequests, CacheRequest, RequestOf
  <1>3. Cache!HasHook(CacheRequests[c].binding) <=> HasHook(task[c].provider)
    BY <1>1, <1>2, CacheLooksUp DEF ShapeInv, RequestOf
  <1>4. Cache!Produced(c) = c /\ c # Nil
    BY NilAssumption DEF Cache!Produced
  <1>5. CASE AliasResolved(c)
    <2>1. ~HasHook(task[c].provider) /\ CachePcs[c] = "factory" /\ Return(c)
      BY <1>5, CachePcIs, ProviderAssumption
         DEF AliasResolved, IsAlias, HasHook, HasDependencies, CachePcs
    <2>2. Cache!Return(c)
      BY <1>1, <2>1, ReturnIsReturn
    <2>3. Cache!Construct(c)
      BY <1>3, <2>1, <2>2 DEF Cache!Construct, CachePcs, CacheRequests
    <2> QED
      BY <2>3 DEF Cache!Next
  <1>6. CASE Construct(c)
    <2>1. ~HasHook(task[c].provider) /\ CachePcs[c] = "factory" /\ Return(c)
      BY <1>6, CachePcIs DEF Construct, CachePcs
    <2>2. Cache!Return(c)
      BY <1>1, <2>1, ReturnIsReturn
    <2>3. Cache!Construct(c)
      BY <1>3, <2>1, <2>2 DEF Cache!Construct, CachePcs, CacheRequests
    <2> QED
      BY <2>3 DEF Cache!Next
  <1>7. CASE ConstructAndAwaitHook(c)
    <2>1. HasHook(task[c].provider) /\ CachePcs[c] = "factory"
      BY <1>7, CachePcIs DEF ConstructAndAwaitHook, CachePcs
    <2>2. pc'[c] = "hook"
      BY <1>7 DEF ConstructAndAwaitHook, ShapeInv, TypeOK
    <2>3. CachePc(c)' = "hook"
      BY <2>2 DEF CachePc
    <2>4. CachePcs' = [CachePcs EXCEPT ![c] = "hook"] /\ CacheRequests' = CacheRequests
      BY <1>7, <2>3, StepOfCall DEF ConstructAndAwaitHook
    <2>5. Cache!AwaitHook(c)
      BY <1>7, <2>4 DEF Cache!AwaitHook, CachePcs, CacheRequests, ConstructAndAwaitHook
    <2>6. Cache!Construct(c)
      BY <1>3, <1>4, <2>1, <2>5 DEF Cache!Construct, CachePcs, CacheRequests
    <2> QED
      BY <2>6 DEF Cache!Next
  <1>8. CASE HookReturned(c)
    <2>1. CachePcs[c] = "hook" /\ Return(c)
      BY <1>8, CachePcIs DEF HookReturned, CachePcs
    <2>2. Cache!HookReturned(c)
      BY <1>1, <2>1, ReturnIsReturn DEF Cache!HookReturned, CachePcs
    <2> QED
      BY <2>2 DEF Cache!Next
  <1> QED
    BY <1>5, <1>6, <1>7, <1>8

\* Going from dependency to dependency: the cache awaits them all at once.
LEMMA AtDependenciesIsStutter ==
  ASSUME ShapeInv, NEW c \in Call, CachePc(c) = "deps", NEW to, ~IsAlias(c),
         to \in {"deps", "hosted", "absent"}, pc' = [pc EXCEPT ![c] = to],
         UNCHANGED <<task, instances, result, earlier>>
  PROVE  UNCHANGED Cache!vars
  <1>1. pc'[c] = to /\ \A d \in Call \ {c} : CachePc(d)' = CachePc(d)
    BY StepOfCall
  <1>2. CachePc(c)' = "deps"
    BY <1>1 DEF CachePc
  <1> QED
    BY <1>1, <1>2, StepIsStutter

\* A call is asked for by another one, which waits from now on.
LEMMA CallIsAsk ==
  ASSUME NEW c \in Call, NEW n, NEW t, NEW graphs, ShapeInv, BeginsFor(c, n, t, graphs)
  PROVE  Cache!Next
  <1>0. PICK pcs : pcs = [pc EXCEPT ![c] = "waiting"]
    OBVIOUS
  <1>1. /\ n \in Call /\ pc[n] = "idle" /\ c # n
        /\ pc[c] \in {"deps", "hosted", "alias"} /\ (pc[c] = "alias" <=> IsAlias(c))
        /\ TaskFits(n, t) /\ Begin(n, t, pcs, graphs)
    BY <1>0 DEF BeginsFor, IsNext
  <1>2. /\ pcs \in [Call -> {"idle", "done", "failed"} \union InFlight]
        /\ pcs[c] = "waiting" /\ \A d \in Call \ {c} : pcs[d] = pc[d]
    BY <1>0 DEF ShapeInv, TypeOK, InFlight
  <1>3. \A d \in Call \ {n} : pc'[d] = pcs[d] /\ task'[d] = task[d]
    BY <1>1, <1>2 DEF Begin, ShapeInv, TypeOK
  <1>4. ASSUME NEW d \in Call \ {n} PROVE CachePc(d)' = CachePc(d)
    <2>1. CASE d = c
      BY <1>1, <1>2, <1>3, <2>1 DEF CachePc, IsAlias
    <2>2. CASE d # c
      BY <1>2, <1>3, <2>2 DEF CachePc, IsAlias
    <2> QED
      BY <2>1, <2>2
  <1> QED
    BY <1>1, <1>2, <1>4, BeginIsAsk

LEMMA RootIsAsk ==
  ASSUME NEW n, NEW t, ShapeInv, BeginsAlone(n, t)
  PROVE  Cache!Next
  <1>1. /\ n \in Call /\ pc[n] = "idle" /\ TaskFits(n, t) /\ Begin(n, t, pc, graph)
        /\ pc \in [Call -> {"idle", "done", "failed"} \union InFlight]
    BY DEF BeginsAlone, IsNext, ShapeInv, TypeOK
  <1>2. \A d \in Call \ {n} : pc'[d] = pc[d] /\ task'[d] = task[d]
    BY <1>1 DEF Begin, ShapeInv, TypeOK
  <1>3. \A d \in Call \ {n} : CachePc(d)' = CachePc(d)
    BY <1>2 DEF CachePc, IsAlias
  <1> QED
    BY <1>1, <1>3, BeginIsAsk

\* Every step of a resolution is a step of the cache, or one that it does not see.
LEMMA NextIsCacheNext ==
  ASSUME ShapeInv, [Next]_vars
  PROVE  UNCHANGED Cache!vars \/ Cache!Next
  <1>1. CASE UNCHANGED vars
    <2>1. \A d \in Call : CachePc(d)' = CachePc(d)
      BY <1>1 DEF vars, CachePc, IsAlias
    <2> QED
      BY <1>1, <2>1, StepIsStutter DEF vars
  <1>2. ASSUME NEW c \in Call, Proceed(c) PROVE UNCHANGED Cache!vars \/ Cache!Next
    <2>1. CASE AwaitHost(c) \/ InjectLazy(c) \/ InjectNull(c) \/ RequestAbsentDep(c)
               \/ InjectAbsent(c)
      <3>1. AtDep(c, {"deps", "hosted", "absent"}) /\ pc[c] # "idle"
        BY <2>1 DEF AwaitHost, InjectLazy, InjectNull, RequestAbsentDep, InjectAbsent,
                    Resolvable, InBody, AtDep
      <3>2. CachePc(c) = "deps" /\ ~IsAlias(c)
        BY <3>1, AtDepType, CachePcIs DEF AtDep
      <3>3. \E to \in {"deps", "hosted", "absent"} : pc' = [pc EXCEPT ![c] = to]
        BY <2>1 DEF AwaitHost, InjectLazy, InjectNull, RequestAbsentDep, InjectAbsent,
                    NextDep
      <3>4. UNCHANGED <<task, instances, result, earlier>>
        BY <2>1 DEF AwaitHost, InjectLazy, InjectNull, RequestAbsentDep, InjectAbsent
      <3> QED
        BY <3>2, <3>3, <3>4, AtDependenciesIsStutter
    <2>2. CASE Inject(c)
      <3>1. CachePc(c) = "deps" /\ ~IsAlias(c)
        BY <2>2, CachePcIs DEF Inject
      <3> QED
        BY <2>2, <3>1, AtDependenciesIsStutter DEF Inject, NextDep
    <2>3. CASE HostMissing(c) \/ CheckAndThrow(c) \/ ThrowAbsent(c) \/ Propagate(c)
               \/ FactoryThrows(c)
      <3>1. pc[c] \in InFlight
        BY <2>3 DEF HostMissing, CheckAndThrow, ThrowAbsent, Propagate, FactoryThrows,
                    InBody, AtDep, InFlight
      <3> QED
        BY <2>3, <3>1, ThrowIsFail DEF HostMissing, CheckAndThrow, ThrowAbsent, Propagate,
                                       FactoryThrows
    <2>4. CASE RequestDep(c)
      BY <2>4, RequestDepBegins, CallIsAsk
    <2>5. CASE FollowAlias(c)
      BY <2>5, FollowAliasBegins, CallIsAsk, ThrowIsFail DEF InFlight
    <2>6. CASE DependenciesResolved(c)
      <3>1. pc[c] = "deps" /\ pc' = [pc EXCEPT ![c] = "factory"]
            /\ UNCHANGED <<task, instances, result, earlier>>
        BY <2>6 DEF DependenciesResolved
      <3>2. CachePcs[c] = "deps"
        BY <3>1, CachePcIs DEF CachePcs
      <3>3. CachePc(c)' = "factory"
        <4>1. pc'[c] = "factory"
          BY <3>1, StepOfCall
        <4> QED
          BY <4>1 DEF CachePc
      <3>4. CachePcs' = [CachePcs EXCEPT ![c] = "factory"] /\ CacheRequests' = CacheRequests
        BY <3>1, <3>3, StepOfCall
      <3>5. Cache!DependenciesResolved(c)
        BY <3>1, <3>2, <3>4 DEF Cache!DependenciesResolved, CachePcs, CacheRequests
      <3> QED
        BY <3>5 DEF Cache!Next
    <2> QED
      BY <1>2, <2>1, <2>2, <2>3, <2>4, <2>5, <2>6, ConstructIsConstruct DEF Proceed
  <1> QED
    BY <1>1, <1>2, AskBegins, GetLazyBegins, RootIsAsk DEF Next

\* To the cache, finding and resolving the dependencies of a provider, through
\* whatever flags, cycles, aliases and failures, is one await of the call:
\* resolution implements InstanceCache.
THEOREM Refinement == Spec => ImplementsInstanceCache
  <1>1. Init => Cache!Init
    <2> SUFFICES ASSUME Init PROVE Cache!Init
      OBVIOUS
    <2>1. \A c \in Call : CachePc(c) = "idle" /\ CacheRequest(c) = Nil
      BY DEF Init, CachePc, CacheRequest
    <2>2. [c \in Call |-> CachePc(c)] = [c \in Call |-> "idle"]
          /\ [c \in Call |-> CacheRequest(c)] = [c \in Call |-> Nil]
      BY <2>1
    <2> QED
      BY <2>2 DEF Init, Cache!Init, Key, Cache!Key
  <1>2. Spec => []ShapeInv
    BY ShapeInvInit, ShapeInvNext, PTL DEF Spec
  <1>3. ShapeInv /\ [Next]_vars => [UNCHANGED Cache!vars \/ Cache!Next]_vars
    BY NextIsCacheNext
  <1> QED
    BY <1>1, <1>2, <1>3, PTL DEF Spec, ImplementsInstanceCache

\* What is proved about InstanceCache, for its calls as Resolution makes them.
CacheProofs == INSTANCE InstanceCacheProofs WITH
    Lifetime <- BindingLifetime,
    DepLifetime <- BindingDepLifetime,
    WithDeps <- BindingsWithDeps,
    Hooked <- HookedBindings,
    Nullish <- {},
    pc <- [c \in Call |-> CachePc(c)],
    request <- [c \in Call |-> CacheRequest(c)]

\* The two instances of InstanceCache speak of the same.
LEMMA SameCache ==
  /\ Cache!Init <=> CacheProofs!Init
  /\ Cache!Next <=> CacheProofs!Next
  /\ Cache!vars = CacheProofs!vars
  /\ Cache!SharingIsSound <=> CacheProofs!SharingIsSound
  <1>1. Cache!Init <=> CacheProofs!Init
    BY DEF Cache!Init, Cache!Key, CacheProofs!Init, CacheProofs!Key
  <1>2. Cache!vars = CacheProofs!vars
    BY DEF Cache!vars, CacheProofs!vars
  <1>3. Cache!Next <=> CacheProofs!Next
    BY DEF Cache!Next, Cache!Hit, Cache!Miss, Cache!Ask, Cache!GetInstance,
           Cache!LookupKey, Cache!Reusable, Cache!IsDependencyTreeStatic,
           Cache!IsTransientByDependency, Cache!Request, Cache!Construct, Cache!AwaitHook,
           Cache!Return, Cache!Produced, Cache!SetInstance, Cache!IsTransient,
           Cache!HasHook, Cache!HookReturned, Cache!Fail, Cache!InFlight,
           Cache!DependenciesResolved,
           CacheProofs!Next, CacheProofs!Hit, CacheProofs!Miss, CacheProofs!Ask,
           CacheProofs!GetInstance, CacheProofs!LookupKey, CacheProofs!Reusable,
           CacheProofs!IsDependencyTreeStatic, CacheProofs!IsTransientByDependency,
           CacheProofs!Request, CacheProofs!Construct, CacheProofs!AwaitHook,
           CacheProofs!Return, CacheProofs!Produced, CacheProofs!SetInstance,
           CacheProofs!IsTransient, CacheProofs!HasHook, CacheProofs!HookReturned,
           CacheProofs!Fail, CacheProofs!InFlight, CacheProofs!DependenciesResolved
  <1>4. Cache!SharingIsSound <=> CacheProofs!SharingIsSound
    BY DEF Cache!SharingIsSound, Cache!OneInstanceUnlessOverlapping, Cache!Confinement,
           Cache!FreshUnlessShareable, Cache!OnlyResolvedInstances, Cache!Served,
           Cache!Done, Cache!SameScope, Cache!Shareable,
           CacheProofs!SharingIsSound, CacheProofs!OneInstanceUnlessOverlapping,
           CacheProofs!Confinement, CacheProofs!FreshUnlessShareable,
           CacheProofs!OnlyResolvedInstances, CacheProofs!Served, CacheProofs!Done,
           CacheProofs!SameScope, CacheProofs!Shareable
  <1> QED
    BY <1>1, <1>2, <1>3, <1>4

\* The bindings of this module are bindings as InstanceCache assumes them.
LEMMA CacheAssumptions ==
  /\ Nil \notin Call \union Injector \union Context \union CacheProofs!Request
  /\ BindingLifetime \in [Binding -> CacheProofs!Lifetimes]
  /\ BindingDepLifetime \in [Binding -> {"Singleton", "Event", "Transient"}]
  /\ BindingsWithDeps \subseteq Binding
  /\ HookedBindings \subseteq Binding
  /\ \A b \in Binding \ BindingsWithDeps : BindingDepLifetime[b] = "Singleton"
  <1>1. Binding \subseteq Provider \X (Injector \union Context \union {Nil})
    BY ProviderAssumption, InjectorAssumption DEF Binding, BindingOf
  <1>2. Nil \notin CacheProofs!Request
    BY <1>1, NilAssumption DEF CacheProofs!Request
  <1>3. \A b \in Binding : b[1] \in Provider
    BY <1>1
  <1>4. BindingLifetime \in [Binding -> CacheProofs!Lifetimes]
    BY <1>3, ProviderAssumption DEF BindingLifetime, CacheProofs!Lifetimes
  <1>5. BindingDepLifetime \in [Binding -> {"Singleton", "Event", "Transient"}]
    BY DEF BindingDepLifetime, FindMostTransientDependencyLifetime
  <1>6. \A b \in Binding \ BindingsWithDeps : BindingDepLifetime[b] = "Singleton"
    BY <1>3, WithoutDependencies DEF BindingDepLifetime, BindingsWithDeps
  <1> QED
    BY <1>2, <1>4, <1>5, <1>6, NilAssumption DEF BindingsWithDeps, HookedBindings

\* Resolution makes the steps of a cache.
LEMMA CacheSpec == Spec => CacheProofs!Spec
  <1>1. [UNCHANGED Cache!vars \/ Cache!Next]_vars => [CacheProofs!Next]_(CacheProofs!vars)
    <2>1. UNCHANGED vars => UNCHANGED Cache!vars
      <3> SUFFICES ASSUME UNCHANGED vars PROVE UNCHANGED Cache!vars
        OBVIOUS
      <3>1. \A d \in Call : CachePc(d)' = CachePc(d)
        BY DEF vars, CachePc, IsAlias
      <3> QED
        BY <3>1, StepIsStutter DEF vars
    <2>2. Cache!Next => CacheProofs!Next
      BY SameCache
    <2>3. UNCHANGED Cache!vars => UNCHANGED CacheProofs!vars
      BY DEF Cache!vars, CacheProofs!vars
    <2> QED
      BY <2>1, <2>2, <2>3
  <1>2. Cache!Init => CacheProofs!Init
    BY SameCache
  <1> QED
    BY <1>1, <1>2, Refinement, PTL DEF ImplementsInstanceCache, CacheProofs!Spec

\* What was proved of the cache on its own carries over to resolution: through
\* dependencies, lazy ones, aliases and failures, interleaved at every await, one
\* instance is shared per scope, none leaves it, none is shared that must be fresh,
\* and none is handed out before its hook has returned.
THEOREM ResolvedSharing == Spec => []Cache!SharingIsSound
  <1>1. CacheProofs!Spec => []CacheProofs!SharingIsSound
    BY CacheAssumptions, InjectorAssumption, CacheProofs!Sharing
  <1>2. CacheProofs!SharingIsSound => Cache!SharingIsSound
    BY SameCache
  <1> QED
    BY <1>1, <1>2, CacheSpec, PTL

\* Once all calls for a scope have ended and left an instance, no later resolution,
\* whatever it is asked for, replaces or drops it.
THEOREM ResolvedSettlement == Spec => Cache!SettledForever
  <1>1. CacheProofs!Spec => CacheProofs!SettledForever
    BY CacheAssumptions, InjectorAssumption, CacheProofs!Settlement
  <1>2. CacheProofs!SettledForever => Cache!SettledForever
    BY PTL
       DEF Cache!SettledForever, CacheProofs!SettledForever,
           Cache!vars, Cache!Request, Cache!Settled, Cache!Shareable, Cache!GetInstance,
           Cache!LookupKey, Cache!SameScope, Cache!InFlight,
           CacheProofs!vars, CacheProofs!Request, CacheProofs!Settled,
           CacheProofs!Shareable, CacheProofs!GetInstance, CacheProofs!LookupKey,
           CacheProofs!SameScope, CacheProofs!InFlight
  <1> QED
    BY <1>1, <1>2, CacheSpec, PTL

------------------------------------------------------------------------------
(* The kinds of steps *)

\* A step that begins no call and waits for none.
BeginsNone ==
    /\ \A d \in Call : /\ pc'[d] \in InFlight => pc[d] \in InFlight
                       /\ pc'[d] = "waiting" => pc[d] = "waiting"
    /\ UNCHANGED <<task, child>> /\ lazies \subseteq lazies'

\* The steps, as far as the chains go.
LEMMA StepKinds ==
  ASSUME ShapeInv, [Next]_vars
  PROVE  \/ BeginsNone
         \/ \E n, t : BeginsAlone(n, t)
         \/ \E c \in Call : RequestDep(c)
         \/ \E c \in Call : \E n, t : BeginsFor(c, n, t, graph) /\ IsAlias(c) /\ t.graph = n
  <1>1. CASE UNCHANGED vars
    BY <1>1 DEF vars, BeginsNone
  <1>2. ASSUME NEW c \in Call, Proceed(c), ~RequestDep(c),
               ~ \E n, t : BeginsFor(c, n, t, graph) /\ IsAlias(c) /\ t.graph = n
        PROVE  BeginsNone
    <2>1. ASSUME NEW to, pc' = [pc EXCEPT ![c] = to], to # "waiting",
                 to \in InFlight => pc[c] \in InFlight,
                 UNCHANGED <<task, child>>, lazies \subseteq lazies'
          PROVE  BeginsNone
      BY <2>1 DEF BeginsNone, ShapeInv, TypeOK
    <2>2. ASSUME NEW why, Throw(c, why) PROVE BeginsNone
      BY <2>1, <2>2 DEF Throw, InFlight
    <2>3. CASE FollowAlias(c)
      BY <1>2, <2>2, <2>3, FollowAliasBegins
    <2>4. CASE HostMissing(c) \/ CheckAndThrow(c) \/ ThrowAbsent(c) \/ Propagate(c)
               \/ FactoryThrows(c)
      BY <2>2, <2>4 DEF HostMissing, CheckAndThrow, ThrowAbsent, Propagate, FactoryThrows
    <2>5. CASE AliasResolved(c) \/ Construct(c) \/ HookReturned(c)
      BY <2>1, <2>5 DEF AliasResolved, Construct, HookReturned, Return, InFlight
    <2>6. CASE AwaitHost(c) \/ InjectLazy(c) \/ InjectNull(c) \/ RequestAbsentDep(c)
               \/ InjectAbsent(c) \/ Inject(c) \/ DependenciesResolved(c)
               \/ ConstructAndAwaitHook(c)
      BY <2>1, <2>6 DEF AwaitHost, InjectLazy, InjectNull, RequestAbsentDep, InjectAbsent,
                        Inject, DependenciesResolved, ConstructAndAwaitHook, NextDep,
                        InBody, AtDep, Resolvable, InFlight
    <2> QED
      BY <1>2, <2>3, <2>4, <2>5, <2>6 DEF Proceed
  <1> QED
    BY <1>1, <1>2, AskBegins, GetLazyBegins DEF Next

------------------------------------------------------------------------------
(* What is injected *)

\* What a call has collected for its factory.
ArgsInv ==
    \A c \in Call :
        /\ args[c] # {} => pc[c] # "idle"
        /\ \A a \in args[c] :
               /\ a \in Call /\ pc[a] = "done"
               /\ Lifetime[task[a].provider] # "Scoped" => task[a].ctx = task[c].ctx

\* What a call returned is an instance of the binding it was asked for, and of the
\* event, unless it is scoped: what is proved of the cache says so.
LEMMA ResultIsAsAsked ==
  ASSUME ShapeInv, CacheProofs!IInv, NEW c \in Call, pc[c] = "done"
  PROVE  LET a == result[c]
         IN  /\ a \in Call /\ pc[a] = "done" /\ task[a].provider = task[c].provider
             /\ Lifetime[task[a].provider] # "Scoped" => task[a].ctx = task[c].ctx
  <1>0. PICK a : a = result[c]
    OBVIOUS
  <1>1. a \in Call /\ a # Nil
    BY <1>0, NilAssumption DEF ShapeInv, CallOK, TypeOK
  <1>2. CacheProofs!Served(c)
    BY <1>0, <1>1, CacheDone DEF CacheProofs!Served, CacheProofs!Done, ShapeInv
  <1>3. CacheProofs!Done(a) /\ CacheProofs!SameEntry(CacheRequests[a], CacheRequests[c])
    BY <1>0, <1>2 DEF CacheProofs!IInv, CacheProofs!ResultsInv, CacheRequests
  <1>4. pc[a] = "done"
    BY <1>1, <1>3, CacheDone DEF CacheProofs!Done, ShapeInv
  <1>5. /\ task[a] \in Task /\ task[c] \in Task
        /\ TaskFits(a, task[a]) /\ TaskFits(c, task[c])
    BY <1>1, <1>4, TaskType DEF ShapeInv, CallOK, TaskFits
  <1>6. CacheRequests[a] = RequestOf(task[a]) /\ CacheRequests[c] = RequestOf(task[c])
    BY <1>1, <1>5, NilAssumption DEF CacheRequests, CacheRequest, RequestOf
  <1>7. BindingOfTask(task[a]) = BindingOfTask(task[c])
    BY <1>3, <1>6 DEF CacheProofs!SameEntry, RequestOf
  <1>8. LookupKey(task[a]) = LookupKey(task[c])
    <2>1. /\ CacheProofs!LookupKey(RequestOf(task[a])) = Cache!LookupKey(RequestOf(task[a]))
          /\ CacheProofs!LookupKey(RequestOf(task[c])) = Cache!LookupKey(RequestOf(task[c]))
      BY DEF CacheProofs!LookupKey, Cache!LookupKey
    <2> QED
      BY <1>1, <1>3, <1>5, <1>6, <2>1, CacheLooksUp DEF CacheProofs!SameEntry, ShapeInv
  <1>9. task[a].provider = task[c].provider
    BY <1>7 DEF BindingOfTask, BindingOf
  <1> QED
    BY <1>0, <1>1, <1>4, <1>8, <1>9 DEF LookupKey

\* What changes when a call begins, on its own or for another one.
LEMMA BeginsAloneEffect ==
  ASSUME NEW n, NEW t, ShapeInv, BeginsAlone(n, t)
  PROVE  /\ n \in Call /\ pc[n] = "idle" /\ pc'[n] = FirstPc(t) /\ task'[n] = t
         /\ \A d \in Call \ {n} : pc'[d] = pc[d] /\ task'[d] = task[d]
         /\ UNCHANGED <<next, child, args, instances, lazies, failure>>
         /\ result' = [result EXCEPT ![n] = IF IsHit(t) THEN Cached(t) ELSE Nil]
         /\ graph' = IF FirstPc(t) = "deps" THEN Add(graph, t.graph, t.provider) ELSE graph
  BY DEF BeginsAlone, IsNext, Begin, ShapeInv, TypeOK

LEMMA BeginsForEffect ==
  ASSUME NEW c \in Call, NEW n, NEW t, NEW graphs, ShapeInv, BeginsFor(c, n, t, graphs)
  PROVE  /\ n \in Call /\ pc[n] = "idle" /\ pc'[n] = FirstPc(t) /\ task'[n] = t
         /\ c # n /\ pc[c] \in {"deps", "hosted", "alias"} /\ pc'[c] = "waiting"
         /\ child'[c] = n /\ task'[c] = task[c]
         /\ \A d \in Call \ {n, c} : pc'[d] = pc[d] /\ child'[d] = child[d]
         /\ \A d \in Call \ {n} : task'[d] = task[d]
         /\ UNCHANGED <<next, args, instances, lazies, failure>>
         /\ result' = [result EXCEPT ![n] = IF IsHit(t) THEN Cached(t) ELSE Nil]
         /\ graph' = IF FirstPc(t) = "deps" THEN Add(graphs, t.graph, t.provider) ELSE graphs
  <1>0. PICK pcs : pcs = [pc EXCEPT ![c] = "waiting"]
    OBVIOUS
  <1>1. /\ n \in Call /\ pc[n] = "idle" /\ c # n /\ pc[c] \in {"deps", "hosted", "alias"}
        /\ Begin(n, t, pcs, graphs) /\ child' = [child EXCEPT ![c] = n] /\ UNCHANGED lazies
    BY <1>0 DEF BeginsFor, IsNext
  <1>2. /\ pcs \in [Call -> {"idle", "done", "failed"} \union InFlight]
        /\ pcs[c] = "waiting" /\ \A d \in Call \ {c} : pcs[d] = pc[d]
    BY <1>0 DEF ShapeInv, TypeOK, InFlight
  <1>3. /\ pc'[n] = FirstPc(t) /\ \A d \in Call \ {n} : pc'[d] = pcs[d]
        /\ task'[n] = t /\ \A d \in Call \ {n} : task'[d] = task[d]
        /\ UNCHANGED <<next, args, instances, failure>>
        /\ result' = [result EXCEPT ![n] = IF IsHit(t) THEN Cached(t) ELSE Nil]
        /\ graph' = IF FirstPc(t) = "deps" THEN Add(graphs, t.graph, t.provider) ELSE graphs
    BY <1>1, <1>2 DEF Begin, ShapeInv, TypeOK
  <1>4. child'[c] = n /\ \A d \in Call \ {n, c} : child'[d] = child[d]
    BY <1>1 DEF ShapeInv, TypeOK
  <1> QED
    BY <1>1, <1>2, <1>3, <1>4

\* A call keeps its task, and what is done stays done.
LEMMA TasksAreKept ==
  ASSUME ShapeInv, [Next]_vars, NEW d \in Call, pc[d] # "idle"
  PROVE  /\ task'[d] = task[d] /\ pc'[d] # "idle"
         /\ pc[d] = "done" => pc'[d] = "done"
         /\ args'[d] = args[d] \/ Inject(d)
  <1>1. CASE UNCHANGED vars
    BY <1>1 DEF vars
  <1>2. ASSUME NEW c \in Call, Proceed(c)
        PROVE  /\ task'[d] = task[d] /\ pc'[d] # "idle"
               /\ pc[d] = "done" => pc'[d] = "done"
               /\ args'[d] = args[d] \/ Inject(d)
    <2>1. CASE RequestDep(c) \/ FollowAlias(c)
      <3>1. CASE Throw(c, "missing")
        <4>1. pc[c] = "alias" \/ pc[c] \in {"deps", "hosted"}
          BY <2>1, RequestDepBegins, FollowAliasBegins
        <4> QED
          BY <3>1, <4>1 DEF Throw, ShapeInv, TypeOK
      <3>2. CASE \E n, t, graphs : BeginsFor(c, n, t, graphs)
        BY <3>2, BeginsForEffect
      <3> QED
        BY <2>1, <3>1, <3>2, RequestDepBegins, FollowAliasBegins
    <2>2. CASE Inject(c)
      BY <2>2 DEF Inject, NextDep, ShapeInv, TypeOK
    <2>3. CASE HostMissing(c) \/ CheckAndThrow(c) \/ ThrowAbsent(c) \/ Propagate(c)
               \/ FactoryThrows(c)
      <3>1. pc[c] # "done" /\ \E why : Throw(c, why)
        BY <2>3 DEF HostMissing, CheckAndThrow, ThrowAbsent, Propagate, FactoryThrows,
                    InBody, AtDep
      <3> QED
        BY <3>1 DEF Throw, ShapeInv, TypeOK
    <2>4. CASE AliasResolved(c) \/ Construct(c) \/ HookReturned(c)
      BY <2>4 DEF AliasResolved, Construct, HookReturned, Return, ShapeInv, TypeOK
    <2>5. CASE AwaitHost(c) \/ InjectLazy(c) \/ InjectNull(c) \/ RequestAbsentDep(c)
               \/ InjectAbsent(c) \/ DependenciesResolved(c) \/ ConstructAndAwaitHook(c)
      <3>1. /\ pc[c] # "done" /\ task' = task /\ args' = args
            /\ \E to : to # "idle" /\ pc' = [pc EXCEPT ![c] = to]
        BY <2>5 DEF AwaitHost, InjectLazy, InjectNull, RequestAbsentDep, InjectAbsent,
                    DependenciesResolved, ConstructAndAwaitHook, NextDep, InBody, AtDep,
                    Resolvable
      <3> QED
        BY <3>1 DEF ShapeInv, TypeOK
    <2> QED
      BY <1>2, <2>1, <2>2, <2>3, <2>4, <2>5 DEF Proceed
  <1>3. ASSUME NEW n, NEW t, BeginsAlone(n, t)
        PROVE  task'[d] = task[d] /\ pc'[d] = pc[d] /\ args'[d] = args[d]
    BY <1>3, BeginsAloneEffect
  <1> QED
    BY <1>1, <1>2, <1>3, AskBegins, GetLazyBegins DEF Next

\* What has not begun has collected nothing.
LEMMA IdleHasNoArgs ==
  ASSUME ShapeInv, [Next]_vars, NEW d \in Call, pc[d] = "idle"
  PROVE  args'[d] = args[d]
  <1>1. ASSUME NEW c \in Call, Proceed(c), args' # args PROVE Inject(c) /\ c # d
    <2>1. ~RequestDep(c) /\ ~FollowAlias(c)
      <3>1. ASSUME NEW n, NEW t, NEW graphs PROVE ~BeginsFor(c, n, t, graphs)
        BY <1>1, BeginsForEffect
      <3>2. \A why : ~Throw(c, why)
        BY <1>1 DEF Throw
      <3> QED
        BY <3>1, <3>2, RequestDepBegins, FollowAliasBegins
    <2>2. Inject(c)
      BY <1>1, <2>1 DEF Proceed, AwaitHost, HostMissing, InjectLazy, InjectNull, CheckAndThrow,
         RequestAbsentDep, InjectAbsent, ThrowAbsent, Propagate, DependenciesResolved,
         AliasResolved, Construct, ConstructAndAwaitHook, HookReturned, FactoryThrows,
         Return, Throw
    <2> QED
      BY <2>2 DEF Inject
  <1>2. ASSUME NEW c \in Call, Inject(c), c # d PROVE args'[d] = args[d]
    BY <1>2 DEF Inject, ShapeInv, TypeOK
  <1>3. ASSUME NEW n, NEW t, BeginsAlone(n, t) PROVE args' = args
    BY <1>3, BeginsAloneEffect
  <1> QED
    BY <1>1, <1>2, <1>3, AskBegins, GetLazyBegins DEF Next, vars

LEMMA ArgsInvNext ==
  ASSUME ShapeInv, CacheProofs!IInv, ArgsInv, [Next]_vars
  PROVE  ArgsInv'
  <1> SUFFICES ASSUME NEW c \in Call
               PROVE  /\ args'[c] # {} => pc'[c] # "idle"
                      /\ \A a \in args'[c] :
                             /\ a \in Call /\ pc'[a] = "done"
                             /\ Lifetime[task'[a].provider] # "Scoped"
                                  => task'[a].ctx = task'[c].ctx
    BY DEF ArgsInv
  <1>1. CASE pc[c] = "idle"
    BY <1>1, IdleHasNoArgs DEF ArgsInv
  <1>2. CASE pc[c] # "idle" /\ args'[c] = args[c]
    <2>1. pc'[c] # "idle" /\ task'[c] = task[c]
      BY <1>2, TasksAreKept
    <2>2. ASSUME NEW a \in args[c]
          PROVE  a \in Call /\ pc'[a] = "done" /\ task'[a] = task[a]
      BY TasksAreKept DEF ArgsInv
    <2> QED
      BY <1>2, <2>1, <2>2 DEF ArgsInv
  <1>3. CASE pc[c] # "idle" /\ Inject(c)
    <2>1. /\ pc[c] = "waiting" /\ ~IsAlias(c) /\ pc[child[c]] = "done" /\ child[c] \in Call
          /\ task[child[c]].ctx = task[c].ctx
          /\ args'[c] = args[c] \union {result[child[c]]}
      BY <1>3 DEF Inject, ShapeInv, AwaitsOK, TypeOK
    <2>2. PICK r : r = result[child[c]]
      OBVIOUS
    <2>3. /\ r \in Call /\ pc[r] = "done" /\ task[r].provider = task[child[c]].provider
          /\ Lifetime[task[r].provider] # "Scoped" => task[r].ctx = task[c].ctx
      BY <2>1, <2>2, ResultIsAsAsked
    <2>4. pc'[c] # "idle" /\ task'[c] = task[c]
      BY <1>3, TasksAreKept
    <2>5. ASSUME NEW a \in args'[c]
          PROVE  /\ a \in Call /\ pc[a] = "done"
                 /\ Lifetime[task[a].provider] # "Scoped" => task[a].ctx = task[c].ctx
      <3>1. a \in args[c] \/ a = r
        BY <2>1, <2>2
      <3> QED
        BY <2>3, <3>1 DEF ArgsInv
    <2>6. ASSUME NEW a \in args'[c] PROVE pc'[a] = "done" /\ task'[a] = task[a]
      BY <2>5, TasksAreKept
    <2> QED
      BY <2>4, <2>5, <2>6
  <1> QED
    BY <1>1, <1>2, <1>3, TasksAreKept

LEMMA CacheInvariant == Spec => []CacheProofs!IInv
  <1>1. CacheProofs!Spec => []CacheProofs!IInv
    BY CacheAssumptions, InjectorAssumption, CacheProofs!Invariance
  <1> QED
    BY <1>1, CacheSpec, PTL

\* A useExisting provider never runs a factory of its own dependencies; once it is
\* resolved, the call it awaited is over, and was asked for in no event.
AliasInv ==
    \A c \in Call : pc[c] # "idle" /\ IsAlias(c) =>
        /\ pc[c] \notin {"factory", "hook"}
        /\ result[c] # Nil => pc[c] = "done"
        /\ result[c] = c => child[c] \in Call /\ pc[child[c]] = "done"
                            /\ task[child[c]].ctx = Nil

\* A call that has just begun made nothing yet: what it found was made before.
LEMMA NewCallMadeNothing ==
  ASSUME ShapeInv, CacheProofs!IInv, [Next]_vars, NEW c \in Call,
         pc[c] = "idle", pc'[c] # "idle"
  PROVE  /\ IsAlias(c)' => pc'[c] \notin {"factory", "hook"}
         /\ result'[c] # Nil => pc'[c] = "done"
         /\ result'[c] # c
  <1>1. task'[c] # task[c]
    BY ShapeInvNext DEF ShapeInv, CallOK
  <1>2. PICK t : /\ TaskFits(c, t) /\ pc'[c] = FirstPc(t) /\ task'[c] = t
                 /\ result' = [result EXCEPT ![c] = IF IsHit(t) THEN Cached(t) ELSE Nil]
    <2>1. ASSUME NEW n, NEW t, BeginsAlone(n, t)
          PROVE  /\ n = c /\ TaskFits(c, t) /\ pc'[c] = FirstPc(t) /\ task'[c] = t
                 /\ result' = [result EXCEPT ![c] = IF IsHit(t) THEN Cached(t) ELSE Nil]
      BY <1>1, <2>1, BeginsAloneEffect DEF BeginsAlone, IsNext
    <2>2. ASSUME NEW d \in Call, NEW n, NEW t, NEW graphs, BeginsFor(d, n, t, graphs)
          PROVE  /\ n = c /\ TaskFits(c, t) /\ pc'[c] = FirstPc(t) /\ task'[c] = t
                 /\ result' = [result EXCEPT ![c] = IF IsHit(t) THEN Cached(t) ELSE Nil]
      <3>1. /\ pc'[n] = FirstPc(t) /\ task'[n] = t
            /\ \A e \in Call \ {n} : task'[e] = task[e]
            /\ result' = [result EXCEPT ![n] = IF IsHit(t) THEN Cached(t) ELSE Nil]
        BY <2>2, BeginsForEffect
      <3>2. n = c
        BY <1>1, <3>1
      <3>3. TaskFits(n, t)
        BY <2>2 DEF BeginsFor, IsNext
      <3> QED
        BY <3>1, <3>2, <3>3
    <2>3. ~BeginsNone
      BY <1>1 DEF BeginsNone
    <2> QED
      BY <2>1, <2>2, <2>3, StepKinds, RequestDepBegins
  <1>3. result'[c] = IF IsHit(t) THEN Cached(t) ELSE Nil
    BY <1>2 DEF ShapeInv, TypeOK
  <1>4. IsAlias(c)' => pc'[c] \notin {"factory", "hook"}
    BY <1>2 DEF FirstPc, IsAlias
  <1>5. ASSUME Cached(t) # Nil PROVE Cached(t) # c
    <2>0. TypeOK /\ t \in Task /\ <<t.owner, t.provider>> \in Records \union BoundIn
      BY <1>2 DEF TaskFits, ShapeInv
    <2>1. PICK b \in Binding, k \in Key :
               b = BindingOfTask(t) /\ k = LookupKey(t) /\ Cached(t) = instances[b][k]
      BY <2>0, CachedType DEF Cached
    <2>2. Cached(t) \in Call
      <3>1. Cached(t) \in Call \union {Nil}
        BY <2>0, CachedType
      <3> QED
        BY <1>5, <3>1
    <2>3. PICK m \in Call : m = Cached(t)
      BY <2>2
    <2>4. CacheProofs!Done(m)
      <3>1. instances[b][k] # Nil => CacheProofs!Done(instances[b][k])
        BY DEF CacheProofs!IInv, CacheProofs!EntriesInv, CacheProofs!Key, Key
      <3> QED
        BY <1>5, <2>1, <2>3, <3>1
    <2>5. pc[m] = "done"
      BY <2>3, <2>4, CacheDone DEF CacheProofs!Done, ShapeInv
    <2> QED
      BY <2>3, <2>5
  <1> QED
    BY <1>2, <1>3, <1>4, <1>5, NilAssumption, FirstPcType

\* A step of one call leaves what another one has found and awaits.
LEMMA OthersAreKept ==
  ASSUME ShapeInv, NEW d \in Call, Proceed(d), NEW c \in Call \ {d}, pc[c] # "idle"
  PROVE  pc'[c] = pc[c] /\ child'[c] = child[c] /\ result'[c] = result[c]
  <1>1. ASSUME NEW to, pc' = [pc EXCEPT ![d] = to], UNCHANGED child,
               UNCHANGED result \/ result' = [result EXCEPT ![d] = d]
        PROVE  pc'[c] = pc[c] /\ child'[c] = child[c] /\ result'[c] = result[c]
    BY <1>1 DEF ShapeInv, TypeOK
  <1>2. ASSUME NEW why, Throw(d, why)
        PROVE  pc'[c] = pc[c] /\ child'[c] = child[c] /\ result'[c] = result[c]
    BY <1>1, <1>2 DEF Throw
  <1>3. ASSUME NEW n, NEW t, NEW graphs, BeginsFor(d, n, t, graphs)
        PROVE  pc'[c] = pc[c] /\ child'[c] = child[c] /\ result'[c] = result[c]
    <2>1. /\ n \in Call /\ pc[n] = "idle"
          /\ \A e \in Call \ {n, d} : pc'[e] = pc[e] /\ child'[e] = child[e]
          /\ result' = [result EXCEPT ![n] = IF IsHit(t) THEN Cached(t) ELSE Nil]
      BY <1>3, BeginsForEffect
    <2>2. c \in Call \ {n, d}
      BY <2>1
    <2> QED
      BY <2>1, <2>2 DEF ShapeInv, TypeOK
  <1>4. CASE RequestDep(d) \/ FollowAlias(d)
    BY <1>2, <1>3, <1>4, RequestDepBegins, FollowAliasBegins
  <1>5. CASE HostMissing(d) \/ CheckAndThrow(d) \/ ThrowAbsent(d) \/ Propagate(d)
             \/ FactoryThrows(d)
    BY <1>2, <1>5 DEF HostMissing, CheckAndThrow, ThrowAbsent, Propagate, FactoryThrows
  <1>6. CASE AliasResolved(d) \/ Construct(d) \/ HookReturned(d)
    BY <1>1, <1>6 DEF AliasResolved, Construct, HookReturned, Return
  <1>7. CASE AwaitHost(d) \/ InjectLazy(d) \/ InjectNull(d) \/ RequestAbsentDep(d)
             \/ InjectAbsent(d) \/ Inject(d) \/ DependenciesResolved(d)
             \/ ConstructAndAwaitHook(d)
    BY <1>1, <1>7 DEF AwaitHost, InjectLazy, InjectNull, RequestAbsentDep, InjectAbsent,
                      Inject, DependenciesResolved, ConstructAndAwaitHook, NextDep
  <1> QED
    BY <1>4, <1>5, <1>6, <1>7 DEF Proceed

\* What the call of a useExisting provider does itself: it asks for the target of
\* the alias, fails, or returns what it has awaited.
LEMMA StepsOfAlias ==
  ASSUME ShapeInv, NEW c \in Call, Proceed(c), IsAlias(c), pc[c] # "idle",
         pc[c] \notin {"factory", "hook"}
  PROVE  \/ pc[c] \in InFlight /\ pc'[c] \in {"waiting", "failed"} /\ result'[c] = result[c]
         \/ AliasResolved(c)
  <1>1. pc[c] # "deps"
    BY ProviderAssumption DEF ShapeInv, CallOK, IsAlias, HasDependencies
  <1>2. ASSUME NEW pcs PROVE ~AtDep(c, pcs)
    BY <1>2, AtDepType
  <1>3. ASSUME NEW why, Throw(c, why) PROVE pc'[c] = "failed" /\ result'[c] = result[c]
    BY <1>3 DEF Throw, ShapeInv, TypeOK
  <1>4. CASE FollowAlias(c)
    <2>1. pc[c] \in InFlight
      BY <1>4 DEF FollowAlias, InFlight
    <2>2. ASSUME NEW n, NEW t, BeginsFor(c, n, t, graph)
          PROVE  pc'[c] = "waiting" /\ result'[c] = result[c]
      <3>1. /\ n \in Call /\ c # n /\ pc'[c] = "waiting"
            /\ result' = [result EXCEPT ![n] = IF IsHit(t) THEN Cached(t) ELSE Nil]
        BY <2>2, BeginsForEffect
      <3> QED
        BY <3>1 DEF ShapeInv, TypeOK
    <2> QED
      BY <1>3, <1>4, <2>1, <2>2, FollowAliasBegins
  <1>5. CASE Propagate(c)
    BY <1>3, <1>5 DEF Propagate, InFlight
  <1> QED
    BY <1>1, <1>2, <1>4, <1>5
       DEF Proceed, AwaitHost, HostMissing, InjectLazy, InjectNull, CheckAndThrow,
           RequestDep, RequestAbsentDep, Resolvable, InBody, InjectAbsent, ThrowAbsent,
           Inject, DependenciesResolved, Construct, ConstructAndAwaitHook, HookReturned,
           FactoryThrows

LEMMA AliasInvNext ==
  ASSUME ShapeInv, CacheProofs!IInv, AliasInv, [Next]_vars
  PROVE  AliasInv'
  <1> SUFFICES ASSUME NEW c \in Call, pc'[c] # "idle", IsAlias(c)'
               PROVE  /\ pc'[c] \notin {"factory", "hook"}
                      /\ result'[c] # Nil => pc'[c] = "done"
                      /\ result'[c] = c => /\ child'[c] \in Call
                                           /\ pc'[child'[c]] = "done"
                                           /\ task'[child'[c]].ctx = Nil
    BY DEF AliasInv
  <1>1. CASE pc[c] = "idle"
    BY <1>1, NewCallMadeNothing
  <1>2. CASE pc[c] # "idle" /\ pc'[c] = pc[c] /\ child'[c] = child[c]
             /\ result'[c] = result[c]
    <2>1. task'[c] = task[c] /\ IsAlias(c)
      BY <1>2, TasksAreKept DEF IsAlias
    <2>2. ASSUME NEW d \in Call, pc[d] = "done" PROVE task'[d] = task[d] /\ pc'[d] = "done"
      BY <2>2, TasksAreKept
    <2> QED
      BY <1>2, <2>1, <2>2 DEF AliasInv
  <1>3. CASE pc[c] # "idle" /\ Proceed(c)
    <2>1. IsAlias(c) /\ pc[c] \notin {"factory", "hook"}
      BY <1>3, TasksAreKept DEF IsAlias, AliasInv
    <2>2. CASE pc[c] \in InFlight /\ pc'[c] \in {"waiting", "failed"} /\ result'[c] = result[c]
      BY <1>3, <2>1, <2>2, NilAssumption DEF AliasInv, InFlight
    <2>3. CASE AliasResolved(c)
      <3>1. /\ pc[c] = "waiting" /\ pc[child[c]] = "done" /\ child[c] \in Call
            /\ task[child[c]].ctx = Nil
        BY <2>1, <2>3 DEF AliasResolved, ShapeInv, AwaitsOK
      <3>2. pc'[c] = "done" /\ child' = child
        BY <2>3 DEF AliasResolved, Return, ShapeInv, TypeOK
      <3>3. PICK d \in Call : d = child[c]
        BY <3>1
      <3>4. task'[d] = task[d] /\ pc'[d] = "done"
        BY <3>1, <3>3, TasksAreKept
      <3> QED
        BY <3>1, <3>2, <3>3, <3>4
    <2> QED
      BY <1>3, <2>1, <2>2, <2>3, StepsOfAlias
  <1>4. ASSUME pc[c] # "idle", NEW d \in Call, Proceed(d), d # c
        PROVE  pc'[c] = pc[c] /\ child'[c] = child[c] /\ result'[c] = result[c]
    BY <1>4, OthersAreKept
  <1>5. ASSUME pc[c] # "idle", NEW n, NEW t, BeginsAlone(n, t)
        PROVE  pc'[c] = pc[c] /\ child'[c] = child[c] /\ result'[c] = result[c]
    BY <1>5, BeginsAloneEffect DEF ShapeInv, TypeOK
  <1> QED
    BY <1>1, <1>2, <1>3, <1>4, <1>5, AskBegins, GetLazyBegins DEF Next, vars

\* No instance gets a dependency that was made for another event, but a scoped one,
\* whatever was found in the cache and whoever else was resolved meanwhile; and what
\* a useExisting provider gave belongs to no event.
THEOREM SameEventInjected == Spec => []InjectedFromSameEvent
  <1>1. Init => ArgsInv /\ AliasInv
    BY NilAssumption DEF Init, ArgsInv, AliasInv
  <1>2. ShapeInv /\ CacheProofs!IInv /\ ArgsInv /\ [Next]_vars => ArgsInv'
    BY ArgsInvNext
  <1>3. ShapeInv /\ CacheProofs!IInv /\ AliasInv /\ [Next]_vars => AliasInv'
    BY AliasInvNext
  <1>4. ShapeInv /\ CacheProofs!IInv /\ ArgsInv /\ AliasInv => InjectedFromSameEvent
    <2>1. ArgsInv => \A c \in Call : \A a \in args[c] : IsOf(a, task[c].ctx)
      BY DEF ArgsInv, IsOf
    <2>2. ASSUME ShapeInv, CacheProofs!IInv, AliasInv, NEW c \in Call, ResolvedAlias(c)
          PROVE  IsOf(Existing(c), Nil)
      <3>1. pc[c] # "idle" /\ IsAlias(c) /\ result[c] = c
        BY <2>2 DEF ResolvedAlias, ShapeInv, CallOK
      <3>2. PICK d \in Call : d = child[c] /\ pc[d] = "done" /\ task[d].ctx = Nil
        BY <2>2, <3>1 DEF AliasInv
      <3>3. LET a == result[d]
            IN  Lifetime[task[a].provider] # "Scoped" => task[a].ctx = task[d].ctx
        BY <2>2, <3>2, ResultIsAsAsked
      <3> QED
        BY <3>2, <3>3 DEF IsOf, Existing
    <2> QED
      BY <2>1, <2>2 DEF InjectedFromSameEvent
  <1> QED
    BY <1>1, <1>2, <1>3, <1>4, CacheInvariant, ShapeInvariant, PTL DEF Spec

------------------------------------------------------------------------------
(* What is in the dependency graphs *)

\* A call that has put its own token into its graph, and not taken it out again.
HasEntered(c) ==
    /\ ~IsAlias(c)
    /\ \/ pc[c] \in {"deps", "hosted", "absent", "waiting"}
       \/ pc[c] = "failed" /\ failure[c] \in {"host", "circular", "missing", "dependency"}

\* One that has put its dependency into it.
HasEnteredDep(c) ==
    /\ ~IsAlias(c)
    /\ \/ pc[c] \in {"absent", "waiting"}
       \/ pc[c] = "failed" /\ failure[c] \in {"missing", "dependency"}

OwnEntries(g, p) ==
    {c \in Call : HasEntered(c) /\ task[c].graph = g /\ task[c].provider = p}

DepEntries(g, p) ==
    {c \in Call : HasEnteredDep(c) /\ task[c].graph = g /\ DepOf(c).on = p}

OwnCount(g, p) == Cardinality(OwnEntries(g, p))

DepCount(g, p) == Cardinality(DepEntries(g, p))

Entries(g, p) == OwnCount(g, p) + DepCount(g, p)

\* A token is in a graph at most as often as calls have put it there, and as
\* often unless a lazy dependency took it out.
CountAt(g, p) ==
    /\ graph[g][p] <= Entries(g, p)
    /\ p \notin TakenOut(g) => graph[g][p] = Entries(g, p)

CountInv == \A g \in Call, p \in Provider : CountAt(g, p)

LEMMA CallIsFinite == IsFiniteSet(Call)
  <1>1. MaxCalls \in Int /\ 1 \in Int
    BY BoundAssumption
  <1> QED
    BY <1>1, FS_Interval DEF Call

\* Two sets of calls that differ in c at most.
LEMMA OneMore ==
  ASSUME NEW S \in SUBSET Call, NEW T \in SUBSET Call, NEW c \in Call,
         \A d \in Call \ {c} : d \in T <=> d \in S
  PROVE  /\ Cardinality(S) \in Nat /\ Cardinality(T) \in Nat
         /\ (c \in T <=> c \in S) => T = S
         /\ c \in T /\ c \notin S => Cardinality(T) = Cardinality(S) + 1
         /\ c \notin T /\ c \in S => Cardinality(S) = Cardinality(T) + 1
  <1>1. IsFiniteSet(S) /\ IsFiniteSet(T)
    BY CallIsFinite, FS_Subset
  <1>2. Cardinality(S) \in Nat /\ Cardinality(T) \in Nat
    BY <1>1, FS_CardinalityType
  <1>3. ASSUME c \in T /\ c \notin S PROVE Cardinality(T) = Cardinality(S) + 1
    <2>1. T = S \union {c}
      BY <1>3
    <2> QED
      BY <1>1, <1>3, <2>1, FS_AddElement
  <1>4. ASSUME c \notin T /\ c \in S PROVE Cardinality(S) = Cardinality(T) + 1
    <2>1. S = T \union {c}
      BY <1>4
    <2> QED
      BY <1>1, <1>4, <2>1, FS_AddElement
  <1> QED
    BY <1>2, <1>3, <1>4

\* A step of one call leaves the entries of the others alone.
LEMMA OthersKeepEntries ==
  ASSUME NEW c, NEW g, NEW p,
         \A d \in Call \ {c} : /\ pc'[d] = pc[d] /\ next'[d] = next[d]
                               /\ failure'[d] = failure[d] /\ task'[d] = task[d]
  PROVE  \A d \in Call \ {c} :
             /\ d \in OwnEntries(g, p)' <=> d \in OwnEntries(g, p)
             /\ d \in DepEntries(g, p)' <=> d \in DepEntries(g, p)
  BY DEF OwnEntries, DepEntries, HasEntered, HasEnteredDep, IsAlias, DepOf

\* The entries of a token, before and after a step by which no own entry but that of
\* c and no entry of a dependency but that of e comes or goes.
LEMMA EntriesChange ==
  ASSUME NEW c \in Call, NEW e \in Call, NEW g, NEW p,
         \A d \in Call \ {c} : d \in OwnEntries(g, p)' <=> d \in OwnEntries(g, p),
         \A d \in Call \ {e} : d \in DepEntries(g, p)' <=> d \in DepEntries(g, p)
  PROVE  /\ OwnCount(g, p) \in Nat /\ OwnCount(g, p)' \in Nat
         /\ DepCount(g, p) \in Nat /\ DepCount(g, p)' \in Nat
         /\ (c \in OwnEntries(g, p)' <=> c \in OwnEntries(g, p))
              => OwnCount(g, p)' = OwnCount(g, p)
         /\ c \in OwnEntries(g, p)' /\ c \notin OwnEntries(g, p)
              => OwnCount(g, p)' = OwnCount(g, p) + 1
         /\ c \notin OwnEntries(g, p)' /\ c \in OwnEntries(g, p)
              => OwnCount(g, p) = OwnCount(g, p)' + 1
         /\ (e \in DepEntries(g, p)' <=> e \in DepEntries(g, p))
              => DepCount(g, p)' = DepCount(g, p)
         /\ e \in DepEntries(g, p)' /\ e \notin DepEntries(g, p)
              => DepCount(g, p)' = DepCount(g, p) + 1
         /\ e \notin DepEntries(g, p)' /\ e \in DepEntries(g, p)
              => DepCount(g, p) = DepCount(g, p)' + 1
  <1>1. PICK O1, O2, D1, D2 : /\ O1 = OwnEntries(g, p) /\ O2 = OwnEntries(g, p)'
                              /\ D1 = DepEntries(g, p) /\ D2 = DepEntries(g, p)'
    OBVIOUS
  <1>2. /\ O1 \in SUBSET Call /\ O2 \in SUBSET Call
        /\ D1 \in SUBSET Call /\ D2 \in SUBSET Call
    BY <1>1 DEF OwnEntries, DepEntries
  <1>3. /\ \A d \in Call \ {c} : d \in O2 <=> d \in O1
        /\ \A d \in Call \ {e} : d \in D2 <=> d \in D1
    BY <1>1
  <1>4. /\ Cardinality(O1) \in Nat /\ Cardinality(O2) \in Nat
        /\ (c \in O2 <=> c \in O1) => O2 = O1
        /\ c \in O2 /\ c \notin O1 => Cardinality(O2) = Cardinality(O1) + 1
        /\ c \notin O2 /\ c \in O1 => Cardinality(O1) = Cardinality(O2) + 1
    BY <1>2, <1>3, OneMore
  <1>5. /\ Cardinality(D1) \in Nat /\ Cardinality(D2) \in Nat
        /\ (e \in D2 <=> e \in D1) => D2 = D1
        /\ e \in D2 /\ e \notin D1 => Cardinality(D2) = Cardinality(D1) + 1
        /\ e \notin D2 /\ e \in D1 => Cardinality(D1) = Cardinality(D2) + 1
    BY <1>2, <1>3, OneMore
  <1>6. /\ OwnCount(g, p) = Cardinality(O1) /\ OwnCount(g, p)' = Cardinality(O2)
        /\ DepCount(g, p) = Cardinality(D1) /\ DepCount(g, p)' = Cardinality(D2)
    BY <1>1 DEF OwnCount, DepCount
  <1>7. /\ (c \in O2 <=> c \in O1) => Cardinality(O2) = Cardinality(O1)
        /\ (e \in D2 <=> e \in D1) => Cardinality(D2) = Cardinality(D1)
    BY <1>4, <1>5
  <1> QED
    BY <1>1, <1>4, <1>5, <1>6, <1>7

\* The entries of a token by c, before and after a step of c alone.
LEMMA EntriesOfOne ==
  ASSUME NEW c \in Call, NEW g, NEW p,
         \A d \in Call \ {c} : /\ pc'[d] = pc[d] /\ next'[d] = next[d]
                               /\ failure'[d] = failure[d] /\ task'[d] = task[d]
  PROVE  /\ OwnCount(g, p) \in Nat /\ OwnCount(g, p)' \in Nat
         /\ DepCount(g, p) \in Nat /\ DepCount(g, p)' \in Nat
         /\ (c \in OwnEntries(g, p)' <=> c \in OwnEntries(g, p))
              => OwnCount(g, p)' = OwnCount(g, p)
         /\ c \in OwnEntries(g, p)' /\ c \notin OwnEntries(g, p)
              => OwnCount(g, p)' = OwnCount(g, p) + 1
         /\ c \notin OwnEntries(g, p)' /\ c \in OwnEntries(g, p)
              => OwnCount(g, p) = OwnCount(g, p)' + 1
         /\ (c \in DepEntries(g, p)' <=> c \in DepEntries(g, p))
              => DepCount(g, p)' = DepCount(g, p)
         /\ c \in DepEntries(g, p)' /\ c \notin DepEntries(g, p)
              => DepCount(g, p)' = DepCount(g, p) + 1
         /\ c \notin DepEntries(g, p)' /\ c \in DepEntries(g, p)
              => DepCount(g, p) = DepCount(g, p)' + 1
  <1>1. \A d \in Call \ {c} :
            /\ d \in OwnEntries(g, p)' <=> d \in OwnEntries(g, p)
            /\ d \in DepEntries(g, p)' <=> d \in DepEntries(g, p)
    BY OthersKeepEntries
  <1> QED
    BY <1>1, EntriesChange

LEMMA GraphAt ==
  ASSUME NEW graphs \in [Call -> [Provider -> Nat]],
         NEW g \in Call, NEW p \in Provider, NEW h \in Call, NEW q \in Provider
  PROVE  /\ graphs[g][p] \in Nat
         /\ Add(graphs, h, q)[g][p]
              = IF g = h /\ p = q THEN graphs[g][p] + 1 ELSE graphs[g][p]
         /\ Remove(graphs, h, q)[g][p]
              = IF g = h /\ p = q
                  THEN IF graphs[g][p] = 0 THEN 0 ELSE graphs[g][p] - 1
                  ELSE graphs[g][p]
  BY DEF Add, Remove

LEMMA GraphIs ==
  ASSUME ShapeInv, NEW g \in Call, NEW p \in Provider, NEW h \in Call, NEW q \in Provider
  PROVE  /\ graph[g][p] \in Nat
         /\ Add(graph, h, q)[g][p]
              = IF g = h /\ p = q THEN graph[g][p] + 1 ELSE graph[g][p]
         /\ Remove(graph, h, q)[g][p]
              = IF g = h /\ p = q
                  THEN IF graph[g][p] = 0 THEN 0 ELSE graph[g][p] - 1
                  ELSE graph[g][p]
  <1>1. graph \in [Call -> [Provider -> Nat]]
    BY DEF ShapeInv, TypeOK
  <1> QED
    BY <1>1, GraphAt

\* A step by which a call enters nothing and takes nothing out.
LEMMA QuietKeepsCount ==
  ASSUME ShapeInv, CountInv, NEW c \in Call,
         \A d \in Call \ {c} : /\ pc'[d] = pc[d] /\ next'[d] = next[d]
                               /\ failure'[d] = failure[d] /\ task'[d] = task[d],
         UNCHANGED graph, UNCHANGED lazies,
         HasEntered(c)' <=> HasEntered(c), HasEnteredDep(c)' <=> HasEnteredDep(c),
         HasEntered(c) => task'[c] = task[c],
         HasEnteredDep(c) => task'[c] = task[c] /\ next'[c] = next[c]
  PROVE  CountInv'
  <1> SUFFICES ASSUME NEW g \in Call, NEW p \in Provider PROVE CountAt(g, p)'
    BY DEF CountInv
  <1>1. /\ c \in OwnEntries(g, p)' <=> c \in OwnEntries(g, p)
        /\ c \in DepEntries(g, p)' <=> c \in DepEntries(g, p)
    BY DEF OwnEntries, DepEntries, DepOf
  <1>2. Entries(g, p)' = Entries(g, p)
    BY <1>1, EntriesOfOne DEF Entries
  <1>3. TakenOut(g)' = TakenOut(g)
    BY DEF TakenOut
  <1> QED
    BY <1>2, <1>3 DEF CountInv, CountAt

\* A call enters its dependency.
LEMMA EnterDepKeepsCount ==
  ASSUME NEW c \in Call, NEW to \in {"absent", "waiting"}, ShapeInv, CountInv,
         pc[c] \in {"deps", "hosted"}, ~IsAlias(c), task[c] \in Task,
         DepOf(c).on \in Provider,
         pc'[c] = to, \A d \in Call \ {c} : pc'[d] = pc[d],
         UNCHANGED <<task, next, failure, lazies>>,
         graph' = Add(graph, task[c].graph, DepOf(c).on)
  PROVE  CountInv'
  <1> SUFFICES ASSUME NEW g \in Call, NEW p \in Provider PROVE CountAt(g, p)'
    BY DEF CountInv
  <1>1. /\ c \in OwnEntries(g, p)' <=> c \in OwnEntries(g, p)
        /\ c \notin DepEntries(g, p)
        /\ c \in DepEntries(g, p)' <=> g = task[c].graph /\ p = DepOf(c).on
    BY DEF OwnEntries, DepEntries, HasEntered, HasEnteredDep, IsAlias, DepOf
  <1>2. /\ Entries(g, p) \in Nat
        /\ Entries(g, p)' = IF g = task[c].graph /\ p = DepOf(c).on
                              THEN Entries(g, p) + 1 ELSE Entries(g, p)
    BY <1>1, EntriesOfOne DEF Entries
  <1>3. /\ graph[g][p] \in Nat
        /\ graph'[g][p] = IF g = task[c].graph /\ p = DepOf(c).on
                            THEN graph[g][p] + 1 ELSE graph[g][p]
    BY GraphIs DEF Task
  <1>4. TakenOut(g)' = TakenOut(g)
    BY DEF TakenOut
  <1> QED
    BY <1>2, <1>3, <1>4 DEF CountInv, CountAt

\* A call that has got its dependency, or goes without it, takes it out.
LEMMA LeaveDepKeepsCount ==
  ASSUME NEW c \in Call, ShapeInv, CountInv,
         pc[c] \in {"absent", "waiting"}, ~IsAlias(c), task[c] \in Task,
         DepOf(c).on \in Provider,
         pc'[c] = "deps", \A d \in Call \ {c} : pc'[d] = pc[d] /\ next'[d] = next[d],
         UNCHANGED <<task, failure, lazies>>,
         graph' = Remove(graph, task[c].graph, DepOf(c).on)
  PROVE  CountInv'
  <1> SUFFICES ASSUME NEW g \in Call, NEW p \in Provider PROVE CountAt(g, p)'
    BY DEF CountInv
  <1>1. /\ c \in OwnEntries(g, p)' <=> c \in OwnEntries(g, p)
        /\ c \in DepEntries(g, p) <=> g = task[c].graph /\ p = DepOf(c).on
        /\ c \notin DepEntries(g, p)'
    BY DEF OwnEntries, DepEntries, HasEntered, HasEnteredDep, IsAlias, DepOf
  <1>2. /\ Entries(g, p) \in Nat /\ Entries(g, p)' \in Nat
        /\ Entries(g, p) = IF g = task[c].graph /\ p = DepOf(c).on
                             THEN Entries(g, p)' + 1 ELSE Entries(g, p)'
    BY <1>1, EntriesOfOne DEF Entries
  <1>3. /\ graph[g][p] \in Nat
        /\ graph'[g][p] = IF g = task[c].graph /\ p = DepOf(c).on
                            THEN IF graph[g][p] = 0 THEN 0 ELSE graph[g][p] - 1
                            ELSE graph[g][p]
    BY GraphIs DEF Task
  <1>4. TakenOut(g)' = TakenOut(g)
    BY DEF TakenOut
  <1> QED
    BY <1>2, <1>3, <1>4 DEF CountInv, CountAt

LEMMA DependenciesResolvedKeepsCount ==
  ASSUME NEW c \in Call, ShapeInv, CountInv, DependenciesResolved(c)
  PROVE  CountInv'
  <1>1. /\ pc[c] = "deps" /\ task[c] \in Task /\ task[c].provider \in Provider
        /\ HasDependencies(task[c].provider)
        /\ pc'[c] = "factory" /\ \A d \in Call \ {c} : pc'[d] = pc[d]
        /\ UNCHANGED <<task, next, failure, lazies>>
        /\ graph' = Remove(graph, task[c].graph, task[c].provider)
    BY DEF DependenciesResolved, ShapeInv, CallOK, TypeOK, Task
  <1>0. ~IsAlias(c)
    BY <1>1, ProviderAssumption DEF IsAlias, HasDependencies
  <1> SUFFICES ASSUME NEW g \in Call, NEW p \in Provider PROVE CountAt(g, p)'
    BY DEF CountInv
  <1>2. /\ c \in OwnEntries(g, p) <=> g = task[c].graph /\ p = task[c].provider
        /\ c \notin OwnEntries(g, p)' /\ c \notin DepEntries(g, p)
        /\ c \notin DepEntries(g, p)'
    BY <1>0, <1>1 DEF OwnEntries, DepEntries, HasEntered, HasEnteredDep, IsAlias
  <1>3. /\ Entries(g, p) \in Nat /\ Entries(g, p)' \in Nat
        /\ Entries(g, p) = IF g = task[c].graph /\ p = task[c].provider
                             THEN Entries(g, p)' + 1 ELSE Entries(g, p)'
    BY <1>1, <1>2, EntriesOfOne DEF Entries
  <1>4. /\ graph[g][p] \in Nat
        /\ graph'[g][p] = IF g = task[c].graph /\ p = task[c].provider
                            THEN IF graph[g][p] = 0 THEN 0 ELSE graph[g][p] - 1
                            ELSE graph[g][p]
    BY <1>1, GraphIs DEF Task
  <1>5. TakenOut(g)' = TakenOut(g)
    BY <1>1 DEF TakenOut
  <1> QED
    BY <1>3, <1>4, <1>5 DEF CountInv, CountAt

\* A lazy dependency takes its token out, whoever has put it there.
LEMMA InjectLazyKeepsCount ==
  ASSUME NEW c \in Call, ShapeInv, CountInv, InjectLazy(c)
  PROVE  CountInv'
  <1>1. AtDep(c, {"deps", "hosted"}) /\ pc[c] \in {"deps", "hosted"} /\ pc[c] # "idle"
    BY DEF InjectLazy, InBody, AtDep
  <1>2. /\ task[c] \in Task /\ DepOf(c).on \in Provider /\ ~IsAlias(c)
    BY <1>1, AtDepType
  <1> DEFINE z == [provider |-> DepOf(c).on, injector |-> DepInjector(c),
                   ctx |-> task[c].ctx, graph |-> task[c].graph,
                   flags |-> DepOf(c).flags, holder |-> c]
  <1>3. /\ pc'[c] = "deps" /\ \A d \in Call \ {c} : pc'[d] = pc[d] /\ next'[d] = next[d]
        /\ UNCHANGED <<task, failure>> /\ lazies' = lazies \union {z}
        /\ graph' = Remove(graph, task[c].graph, DepOf(c).on)
    BY DEF InjectLazy, NextDep, ShapeInv, TypeOK
  <1> SUFFICES ASSUME NEW g \in Call, NEW p \in Provider PROVE CountAt(g, p)'
    BY DEF CountInv
  <1>4. /\ c \in OwnEntries(g, p)' <=> c \in OwnEntries(g, p)
        /\ c \notin DepEntries(g, p) /\ c \notin DepEntries(g, p)'
    BY <1>1, <1>2, <1>3 DEF OwnEntries, DepEntries, HasEntered, HasEnteredDep, IsAlias
  <1>5. Entries(g, p)' = Entries(g, p) /\ Entries(g, p) \in Nat
    BY <1>3, <1>4, EntriesOfOne DEF Entries
  <1>6. /\ graph[g][p] \in Nat
        /\ graph'[g][p] = IF g = task[c].graph /\ p = DepOf(c).on
                            THEN IF graph[g][p] = 0 THEN 0 ELSE graph[g][p] - 1
                            ELSE graph[g][p]
    BY <1>2, <1>3, GraphIs DEF Task
  <1>7. TakenOut(g)' = TakenOut(g) \union IF g = task[c].graph THEN {DepOf(c).on} ELSE {}
    <2>1. z.graph = task[c].graph /\ z.provider = DepOf(c).on
      OBVIOUS
    <2> HIDE DEF z
    <2> QED
      BY <1>3, <2>1 DEF TakenOut
  <1> QED
    BY <1>5, <1>6, <1>7 DEF CountInv, CountAt

\* A call that begins with dependencies enters its own token.
LEMMA BeginKeepsCount ==
  ASSUME NEW n \in Call, NEW t, ShapeInv, CountInv, TaskFits(n, t),
         pc[n] = "idle", pc'[n] = FirstPc(t), task'[n] = t,
         \A d \in Call \ {n} : /\ HasEntered(d)' <=> HasEntered(d)
                               /\ HasEnteredDep(d)' <=> HasEnteredDep(d)
                               /\ task'[d] = task[d],
         UNCHANGED <<next, failure, lazies>>,
         graph' = IF FirstPc(t) = "deps" THEN Add(graph, t.graph, t.provider) ELSE graph
  PROVE  CountInv'
  <1>1. t.graph \in Call /\ t.provider \in Provider
    BY DEF TaskFits, Task
  <1>2. HasEntered(n)' <=> FirstPc(t) = "deps"
    BY FirstPcType, ProviderAssumption DEF HasEntered, IsAlias, HasDependencies, FirstPc
  <1>3. ~HasEntered(n) /\ ~HasEnteredDep(n) /\ ~HasEnteredDep(n)'
    BY FirstPcType DEF HasEntered, HasEnteredDep
  <1> SUFFICES ASSUME NEW g \in Call, NEW p \in Provider PROVE CountAt(g, p)'
    BY DEF CountInv
  <1>4. /\ n \in OwnEntries(g, p)' <=> FirstPc(t) = "deps" /\ g = t.graph /\ p = t.provider
        /\ n \notin OwnEntries(g, p) /\ n \notin DepEntries(g, p)
        /\ n \notin DepEntries(g, p)'
    BY <1>2, <1>3 DEF OwnEntries, DepEntries
  <1>5. \A d \in Call \ {n} : /\ d \in OwnEntries(g, p)' <=> d \in OwnEntries(g, p)
                              /\ d \in DepEntries(g, p)' <=> d \in DepEntries(g, p)
    BY DEF OwnEntries, DepEntries, DepOf
  <1>6. /\ Entries(g, p) \in Nat
        /\ Entries(g, p)' = IF FirstPc(t) = "deps" /\ g = t.graph /\ p = t.provider
                              THEN Entries(g, p) + 1 ELSE Entries(g, p)
    BY <1>4, <1>5, EntriesChange DEF Entries
  <1>7. /\ graph[g][p] \in Nat
        /\ graph'[g][p] = IF FirstPc(t) = "deps" /\ g = t.graph /\ p = t.provider
                            THEN graph[g][p] + 1 ELSE graph[g][p]
    BY <1>1, GraphIs
  <1>8. TakenOut(g)' = TakenOut(g)
    BY DEF TakenOut
  <1> QED
    BY <1>6, <1>7, <1>8 DEF CountInv, CountAt

\* A call enters its dependency, and the call that begins for it its own token.
LEMMA RequestDepKeepsCount ==
  ASSUME NEW c \in Call, ShapeInv, CountInv, RequestDep(c)
  PROVE  CountInv'
  <1>1. /\ pc[c] \in {"deps", "hosted"} /\ ~IsAlias(c) /\ task[c] \in Task
        /\ DepOf(c).on \in Provider
        /\ \E n, t : BeginsFor(c, n, t, Add(graph, task[c].graph, DepOf(c).on))
    BY RequestDepBegins
  <1>2. PICK q, h : q = DepOf(c).on /\ h = task[c].graph
    OBVIOUS
  <1>3. PICK n, t : BeginsFor(c, n, t, Add(graph, h, q))
    BY <1>1, <1>2
  <1>4. PICK graphs : graphs = Add(graph, h, q)
    OBVIOUS
  <1>5. /\ n \in Call /\ pc[n] = "idle" /\ pc'[n] = FirstPc(t) /\ task'[n] = t
        /\ c # n /\ pc'[c] = "waiting" /\ task'[c] = task[c]
        /\ \A d \in Call \ {n, c} : pc'[d] = pc[d]
        /\ \A d \in Call \ {n} : task'[d] = task[d]
        /\ UNCHANGED <<next, lazies, failure>>
        /\ graph' = IF FirstPc(t) = "deps" THEN Add(graphs, t.graph, t.provider) ELSE graphs
    BY <1>3, <1>4, BeginsForEffect
  <1>6. TaskFits(n, t) /\ t.graph \in Call /\ t.provider \in Provider
    BY <1>3 DEF BeginsFor, IsNext, TaskFits, Task
  <1>7. /\ q \in Provider /\ h \in Call /\ graph \in [Call -> [Provider -> Nat]]
        /\ graphs \in [Call -> [Provider -> Nat]]
    BY <1>1, <1>2, <1>4, GraphTypes DEF ShapeInv, TypeOK, Task
  <1>8. HasEntered(n)' <=> FirstPc(t) = "deps"
    BY <1>5, <1>6, FirstPcType, ProviderAssumption
       DEF HasEntered, IsAlias, HasDependencies, FirstPc
  <1>9. ~HasEntered(n) /\ ~HasEnteredDep(n) /\ ~HasEnteredDep(n)'
    BY <1>5, FirstPcType DEF HasEntered, HasEnteredDep
  <1>10. /\ HasEntered(c) /\ HasEntered(c)' /\ ~HasEnteredDep(c) /\ HasEnteredDep(c)'
         /\ DepOf(c)' = DepOf(c)
    BY <1>1, <1>5 DEF HasEntered, HasEnteredDep, IsAlias, DepOf
  <1> SUFFICES ASSUME NEW g \in Call, NEW p \in Provider PROVE CountAt(g, p)'
    BY DEF CountInv
  <1>11. /\ n \in OwnEntries(g, p)' <=> FirstPc(t) = "deps" /\ g = t.graph /\ p = t.provider
         /\ n \notin OwnEntries(g, p) /\ n \notin DepEntries(g, p)
         /\ n \notin DepEntries(g, p)'
    BY <1>5, <1>8, <1>9 DEF OwnEntries, DepEntries
  <1>12. /\ c \in OwnEntries(g, p)' <=> c \in OwnEntries(g, p)
         /\ c \in DepEntries(g, p)' <=> g = h /\ p = q
         /\ c \notin DepEntries(g, p)
    BY <1>2, <1>5, <1>10 DEF OwnEntries, DepEntries
  <1>13. \A d \in Call \ {n, c} : /\ d \in OwnEntries(g, p)' <=> d \in OwnEntries(g, p)
                                  /\ d \in DepEntries(g, p)' <=> d \in DepEntries(g, p)
    BY <1>5 DEF OwnEntries, DepEntries, HasEntered, HasEnteredDep, IsAlias, DepOf
  <1>14. /\ OwnCount(g, p) \in Nat /\ DepCount(g, p) \in Nat
         /\ OwnCount(g, p)' = IF FirstPc(t) = "deps" /\ g = t.graph /\ p = t.provider
                                THEN OwnCount(g, p) + 1 ELSE OwnCount(g, p)
         /\ DepCount(g, p)' = IF g = h /\ p = q THEN DepCount(g, p) + 1
                                                ELSE DepCount(g, p)
    <2>1. /\ \A d \in Call \ {n} : d \in OwnEntries(g, p)' <=> d \in OwnEntries(g, p)
          /\ \A d \in Call \ {c} : d \in DepEntries(g, p)' <=> d \in DepEntries(g, p)
      BY <1>11, <1>12, <1>13
    <2> QED
      BY <1>5, <1>11, <1>12, <2>1, EntriesChange
  <1>15. /\ graph[g][p] \in Nat
         /\ graphs[g][p] = IF g = h /\ p = q THEN graph[g][p] + 1 ELSE graph[g][p]
         /\ graph'[g][p] = IF FirstPc(t) = "deps" /\ g = t.graph /\ p = t.provider
                             THEN graphs[g][p] + 1 ELSE graphs[g][p]
    <2>1. graphs[g][p] = IF g = h /\ p = q THEN graph[g][p] + 1 ELSE graph[g][p]
      BY <1>4, <1>7, GraphIs
    <2>2. Add(graphs, t.graph, t.provider)[g][p]
            = IF g = t.graph /\ p = t.provider THEN graphs[g][p] + 1 ELSE graphs[g][p]
      <3>1. PICK i, r : i = t.graph /\ r = t.provider
        OBVIOUS
      <3>2. i \in Call /\ r \in Provider /\ graphs \in [Call -> [Provider -> Nat]]
        BY <1>6, <1>7, <3>1
      <3>3. Add(graphs, i, r)[g][p]
              = IF g = i /\ p = r THEN graphs[g][p] + 1 ELSE graphs[g][p]
        BY <3>2, GraphAt
      <3> QED
        BY <3>1, <3>3
    <2>3. graph[g][p] \in Nat
      BY <1>7
    <2> QED
      BY <1>5, <2>1, <2>2, <2>3
  <1>16. TakenOut(g)' = TakenOut(g)
    BY <1>5 DEF TakenOut
  <1> QED
    BY <1>14, <1>15, <1>16 DEF CountInv, CountAt, Entries

\* A call that throws leaves its entries.
LEMMA ThrowKeepsCount ==
  ASSUME NEW c \in Call, ShapeInv, CountInv,
         NEW why \in {"host", "circular", "missing", "thrown", "dependency"},
         Throw(c, why),
         pc[c] \in InFlight,
         why \in {"host", "circular"} => pc[c] \in {"deps", "hosted"} /\ ~IsAlias(c),
         why = "missing" => pc[c] \in {"absent", "alias"},
         why = "dependency" => pc[c] = "waiting",
         why = "thrown" => pc[c] \in {"factory", "hook"},
         pc[c] = "alias" => IsAlias(c)
  PROVE  CountInv'
  <1>1. /\ pc'[c] = "failed" /\ failure'[c] = why
        /\ \A d \in Call \ {c} : /\ pc'[d] = pc[d] /\ next'[d] = next[d]
                                 /\ failure'[d] = failure[d] /\ task'[d] = task[d]
        /\ UNCHANGED graph /\ UNCHANGED lazies /\ UNCHANGED task /\ UNCHANGED next
    BY DEF Throw, ShapeInv, TypeOK
  <1>2. (HasEntered(c)' <=> HasEntered(c)) /\ (HasEnteredDep(c)' <=> HasEnteredDep(c))
    BY <1>1 DEF HasEntered, HasEnteredDep, IsAlias, InFlight
  <1> QED
    BY <1>1, <1>2, QuietKeepsCount

\* A call that moves on without touching the graph.
LEMMA MoveKeepsCount ==
  ASSUME NEW c \in Call, NEW to, ShapeInv, CountInv, pc' = [pc EXCEPT ![c] = to],
         UNCHANGED <<task, next, failure, graph, lazies>>,
         \/ pc[c] \in {"deps", "hosted"} /\ to \in {"deps", "hosted"}
         \/ (pc[c] \in {"factory", "hook"} \/ IsAlias(c)) /\ to \in {"hook", "done"}
  PROVE  CountInv'
  <1>1. /\ pc'[c] = to
        /\ \A d \in Call \ {c} : /\ pc'[d] = pc[d] /\ next'[d] = next[d]
                                 /\ failure'[d] = failure[d] /\ task'[d] = task[d]
    BY DEF ShapeInv, TypeOK
  <1>2. (HasEntered(c)' <=> HasEntered(c)) /\ (HasEnteredDep(c)' <=> HasEnteredDep(c))
    BY <1>1 DEF HasEntered, HasEnteredDep, IsAlias
  <1> QED
    BY <1>1, <1>2, QuietKeepsCount

LEMMA CountInvNext ==
  ASSUME ShapeInv, CountInv, [Next]_vars
  PROVE  CountInv'
  <1>1. CASE UNCHANGED vars
    BY <1>1 DEF vars, CountInv, CountAt, Entries, OwnCount, DepCount, OwnEntries,
                DepEntries, HasEntered, HasEnteredDep, IsAlias, DepOf, TakenOut
  <1>2. ASSUME NEW c \in Call, Proceed(c) PROVE CountInv'
    <2>1. CASE AwaitHost(c) \/ ConstructAndAwaitHook(c)
      BY <2>1, MoveKeepsCount DEF AwaitHost, AtDep, ConstructAndAwaitHook
    <2>2. CASE InjectNull(c)
      <3>1. /\ pc[c] \in {"deps", "hosted"} /\ pc'[c] = "deps"
            /\ \A d \in Call \ {c} : /\ pc'[d] = pc[d] /\ next'[d] = next[d]
                                     /\ failure'[d] = failure[d] /\ task'[d] = task[d]
            /\ task'[c] = task[c] /\ UNCHANGED graph /\ UNCHANGED lazies
        BY <2>2 DEF InjectNull, InBody, AtDep, NextDep, ShapeInv, TypeOK
      <3>2. /\ (HasEntered(c)' <=> HasEntered(c))
            /\ ~HasEnteredDep(c) /\ ~HasEnteredDep(c)'
        BY <3>1 DEF HasEntered, HasEnteredDep, IsAlias
      <3> QED
        BY <3>1, <3>2, QuietKeepsCount
    <2>3. CASE HostMissing(c) \/ CheckAndThrow(c)
      <3>1. /\ Throw(c, "host") \/ Throw(c, "circular")
            /\ pc[c] \in {"deps", "hosted"} /\ ~IsAlias(c)
        BY <2>3, AtDepType DEF HostMissing, CheckAndThrow, InBody, AtDep
      <3> QED
        BY <3>1, ThrowKeepsCount DEF InFlight
    <2>4. CASE RequestAbsentDep(c)
      <3>1. /\ pc[c] \in {"deps", "hosted"} /\ ~IsAlias(c) /\ task[c] \in Task
            /\ DepOf(c).on \in Provider
        BY <2>4, AtDepType DEF RequestAbsentDep, Resolvable, InBody, AtDep
      <3>2. /\ pc'[c] = "absent" /\ \A d \in Call \ {c} : pc'[d] = pc[d]
            /\ UNCHANGED <<task, next, failure, lazies>>
            /\ graph' = Add(graph, task[c].graph, DepOf(c).on)
        BY <2>4 DEF RequestAbsentDep, ShapeInv, TypeOK
      <3> QED
        BY <3>1, <3>2, EnterDepKeepsCount
    <2>5. CASE InjectAbsent(c) \/ Inject(c)
      <3>1. /\ pc[c] \in {"absent", "waiting"} /\ ~IsAlias(c) /\ task[c] \in Task
            /\ next[c] <= Len(Deps[task[c].provider])
        <4>1. pc[c] \in {"absent", "waiting"} /\ ~IsAlias(c)
          BY <2>5, AtDepType DEF InjectAbsent, Inject, AtDep
        <4>2. AtADependency(c)
          BY <4>1 DEF AtADependency
        <4> QED
          BY <4>1, <4>2 DEF ShapeInv, CallOK, TypeOK
      <3>2. DepOf(c).on \in Provider
        <4>1. task[c].provider \in Provider /\ next[c] \in Nat /\ next[c] >= 1
          BY <3>1 DEF ShapeInv, TypeOK, Task
        <4> QED
          BY <3>1, <4>1, DepType DEF DepOf
      <3>3. /\ pc'[c] = "deps"
            /\ \A d \in Call \ {c} : pc'[d] = pc[d] /\ next'[d] = next[d]
            /\ UNCHANGED <<task, failure, lazies>>
            /\ graph' = Remove(graph, task[c].graph, DepOf(c).on)
        BY <2>5 DEF InjectAbsent, Inject, NextDep, ShapeInv, TypeOK
      <3> QED
        BY <3>1, <3>2, <3>3, LeaveDepKeepsCount
    <2>6. CASE ThrowAbsent(c)
      BY <2>6, ThrowKeepsCount DEF ThrowAbsent, AtDep, InFlight
    <2>7. CASE Propagate(c)
      BY <2>7, ThrowKeepsCount DEF Propagate, InFlight
    <2>8. CASE FactoryThrows(c)
      BY <2>8, ThrowKeepsCount DEF FactoryThrows, InFlight
    <2>9. CASE FollowAlias(c)
      <3>1. CASE Throw(c, "missing")
        BY <2>9, <3>1, FollowAliasBegins, ThrowKeepsCount DEF InFlight
      <3>2. CASE \E n, t : BeginsFor(c, n, t, graph)
        <4>1. PICK n, t : BeginsFor(c, n, t, graph)
          BY <3>2
        <4>2. /\ n \in Call /\ pc[n] = "idle" /\ pc'[n] = FirstPc(t) /\ task'[n] = t
              /\ \A d \in Call \ {n} : task'[d] = task[d]
              /\ \A d \in Call \ {n, c} : pc'[d] = pc[d]
              /\ UNCHANGED <<next, lazies, failure>>
              /\ graph' = IF FirstPc(t) = "deps" THEN Add(graph, t.graph, t.provider)
                                                 ELSE graph
          BY <4>1, BeginsForEffect
        <4>3. ~HasEntered(c) /\ ~HasEntered(c)' /\ ~HasEnteredDep(c) /\ ~HasEnteredDep(c)'
              /\ c # n
          BY <2>9, <4>2, FollowAliasBegins DEF HasEntered, HasEnteredDep, IsAlias
        <4>4. \A d \in Call \ {n} : /\ HasEntered(d)' <=> HasEntered(d)
                                    /\ HasEnteredDep(d)' <=> HasEnteredDep(d)
          BY <4>2, <4>3 DEF HasEntered, HasEnteredDep, IsAlias
        <4>5. TaskFits(n, t)
          BY <4>1 DEF BeginsFor, IsNext
        <4> QED
          BY <4>2, <4>4, <4>5, BeginKeepsCount
      <3> QED
        BY <2>9, <3>1, <3>2, FollowAliasBegins
    <2>10. CASE AliasResolved(c) \/ Construct(c) \/ HookReturned(c)
      BY <2>10, MoveKeepsCount DEF AliasResolved, Construct, HookReturned, Return
    <2> QED
      BY <1>2, <2>1, <2>2, <2>3, <2>4, <2>5, <2>6, <2>7, <2>8, <2>9, <2>10,
         InjectLazyKeepsCount, RequestDepKeepsCount, DependenciesResolvedKeepsCount
         DEF Proceed
  <1>3. ASSUME NEW n, NEW t, BeginsAlone(n, t) PROVE CountInv'
    <2>1. /\ n \in Call /\ pc[n] = "idle" /\ pc'[n] = FirstPc(t) /\ task'[n] = t
          /\ \A d \in Call \ {n} : pc'[d] = pc[d] /\ task'[d] = task[d]
          /\ UNCHANGED <<next, lazies, failure>>
          /\ graph' = IF FirstPc(t) = "deps" THEN Add(graph, t.graph, t.provider) ELSE graph
      BY <1>3, BeginsAloneEffect
    <2>2. \A d \in Call \ {n} : /\ HasEntered(d)' <=> HasEntered(d)
                                /\ HasEnteredDep(d)' <=> HasEnteredDep(d)
      BY <2>1 DEF HasEntered, HasEnteredDep, IsAlias
    <2>3. TaskFits(n, t)
      BY <1>3 DEF BeginsAlone, IsNext
    <2> QED
      BY <2>1, <2>2, <2>3, BeginKeepsCount
  <1> QED
    BY <1>1, <1>2, <1>3, AskBegins, GetLazyBegins DEF Next

LEMMA CountInvInit == Init => CountInv
  <1> SUFFICES ASSUME Init, NEW g \in Call, NEW p \in Provider PROVE CountAt(g, p)
    BY DEF CountInv
  <1>1. OwnEntries(g, p) = {} /\ DepEntries(g, p) = {}
    BY DEF Init, OwnEntries, DepEntries, HasEntered, HasEnteredDep
  <1>2. Entries(g, p) = 0
    BY <1>1, FS_EmptySet DEF Entries, OwnCount, DepCount
  <1>3. graph[g][p] = 0
    BY DEF Init
  <1> QED
    BY <1>2, <1>3 DEF CountAt

LEMMA CountInvariant == Spec => []CountInv
  BY CountInvInit, CountInvNext, ShapeInvariant, PTL DEF Spec

\* What a graph holds, some call has entered.
LEMMA SomeoneEntered ==
  ASSUME ShapeInv, CountInv, NEW g \in Call, NEW p \in Provider, Has(g, p)
  PROVE  OwnEntries(g, p) # {} \/ DepEntries(g, p) # {}
  <1>1. graph[g][p] \in Nat /\ graph[g][p] <= Entries(g, p)
    BY DEF ShapeInv, TypeOK, CountInv, CountAt
  <1>2. Entries(g, p) # 0
    BY <1>1 DEF Has
  <1> QED
    BY <1>2, FS_EmptySet DEF Entries, OwnCount, DepCount

\* What is in a graph is there for a call that is still at its dependencies, or
\* that has failed: no resolution that ended well leaves a token behind, which the
\* next one on this graph would take for a cycle.
THEOREM GraphsAreClean == Spec => []NoStaleEntries
  <1>1. ShapeInv /\ CountInv => NoStaleEntries
    <2> SUFFICES ASSUME ShapeInv, CountInv, NEW g \in Call, NEW p \in Provider, Has(g, p)
                 PROVE  \E c \in Call : task[c] # Nil /\ task[c].graph = g /\ Holds(c, p)
      BY DEF NoStaleEntries
    <2>1. CASE OwnEntries(g, p) # {}
      <3>1. PICK c \in Call : HasEntered(c) /\ task[c].graph = g /\ task[c].provider = p
        BY <2>1 DEF OwnEntries
      <3>2. task[c] # Nil
        BY <3>1 DEF HasEntered, ShapeInv, CallOK
      <3> QED
        BY <3>1, <3>2 DEF HasEntered, Holds
    <2>2. CASE DepEntries(g, p) # {}
      <3>1. PICK c \in Call : HasEnteredDep(c) /\ task[c].graph = g /\ DepOf(c).on = p
        BY <2>2 DEF DepEntries
      <3>2. task[c] # Nil /\ next[c] <= Len(Deps[task[c].provider])
        BY <3>1 DEF HasEnteredDep, AtADependency, ShapeInv, CallOK
      <3> QED
        BY <3>1, <3>2 DEF HasEnteredDep, Holds
    <2> QED
      BY <2>1, <2>2, SomeoneEntered
  <1> QED
    BY <1>1, CountInvariant, ShapeInvariant, PTL

------------------------------------------------------------------------------
(* The calls that await a call *)

\* A is what W, which leads from a call to older ones, reaches.
Reaches(W, A) ==
    /\ W \in [Call -> SUBSET Call]
    /\ \A c \in Call : \A d \in W[c] : d < c
    /\ \A c \in Call : A[c] = W[c] \union UNION {A[d] : d \in W[c]}

LEMMA LeastCall ==
  ASSUME NEW S \in SUBSET Call, S # {}
  PROVE  \E c \in S : \A d \in Call : d < c => d \notin S
  <1>1. S \in SUBSET Nat
    BY BoundAssumption DEF Call
  <1>2. PICK c \in S : \A d \in S : c <= d
    BY <1>1, LeastNumber
  <1>3. \A d \in S : ~(d < c)
    BY <1>1, <1>2
  <1> QED
    BY <1>3

\* The recursion from a call to those that await it is well founded.
LEMMA ReachesExists ==
  ASSUME NEW W \in [Call -> SUBSET Call], \A c \in Call : \A d \in W[c] : d < c
  PROVE  \E A : A = [c \in Call |-> W[c] \union UNION {A[d] : d \in W[c]}]
  <1> DEFINE UpTo(m, f) == \A c \in Call : c <= m =>
                               f[c] = W[c] \union UNION {f[d] : d \in W[c]}
             S == {m \in Nat : ~ \E f : UpTo(m, f)}
  <1>1. S = {}
    <2> SUFFICES ASSUME S # {} PROVE FALSE
      OBVIOUS
    <2>1. PICK n \in S : \A m \in S : n <= m
      BY LeastNumber
    <2>2. n # 0
      <3>1. UpTo(0, <<>>)
        BY BoundAssumption DEF Call
      <3> QED
        BY <2>1, <3>1
    <2>3. n - 1 \in Nat /\ n - 1 \notin S
      BY <2>1, <2>2
    <2>4. PICK f : UpTo(n - 1, f)
      BY <2>3
    <2> DEFINE g == [c \in Call |-> IF c = n THEN W[n] \union UNION {f[d] : d \in W[n]}
                                             ELSE f[c]]
    <2>5. \A c \in Call : g[c] = IF c = n THEN W[n] \union UNION {f[d] : d \in W[n]}
                                          ELSE f[c]
      OBVIOUS
    <2> HIDE DEF g
    <2>6. ASSUME NEW c \in Call, c <= n
          PROVE  g[c] = W[c] \union UNION {g[d] : d \in W[c]}
      <3>1. \A d \in W[c] : d \in Call /\ d # n
        BY <2>1, <2>6, BoundAssumption DEF Call
      <3>2. \A d \in W[c] : g[d] = f[d]
        BY <2>5, <3>1
      <3>3. {g[d] : d \in W[c]} = {f[d] : d \in W[c]}
        BY <3>2
      <3>4. g[c] = W[c] \union UNION {f[d] : d \in W[c]}
        <4>1. CASE c = n
          BY <2>5, <4>1
        <4>2. CASE c # n
          <5>1. c <= n - 1
            BY <2>1, <2>6, <4>2, BoundAssumption DEF Call
          <5> QED
            BY <2>4, <2>5, <4>2, <5>1
        <4> QED
          BY <4>1, <4>2
      <3> QED
        BY <3>3, <3>4
    <2>7. UpTo(n, g)
      BY <2>6
    <2> HIDE DEF UpTo
    <2> QED
      BY <2>1, <2>7
  <1>2. MaxCalls \in Nat
    BY BoundAssumption
  <1>3. PICK f : UpTo(MaxCalls, f)
    BY <1>1, <1>2
  <1> DEFINE A == [c \in Call |-> f[c]]
  <1>4. ASSUME NEW c \in Call PROVE A[c] = W[c] \union UNION {A[d] : d \in W[c]}
    <2>1. c <= MaxCalls
      BY DEF Call
    <2>2. f[c] = W[c] \union UNION {f[d] : d \in W[c]}
      BY <1>3, <2>1
    <2>3. {A[d] : d \in W[c]} = {f[d] : d \in W[c]}
      OBVIOUS
    <2> QED
      BY <2>2, <2>3
  <1>5. A = [c \in Call |-> A[c]]
    OBVIOUS
  <1> HIDE DEF A
  <1>6. A = [c \in Call |-> W[c] \union UNION {A[d] : d \in W[c]}]
    BY <1>4, <1>5
  <1> QED
    BY <1>6

LEMMA AwaitedByReaches == Reaches([c \in Call |-> Awaiting(c)], AwaitedBy)
  <1> DEFINE W == [c \in Call |-> Awaiting(c)]
             P(f) == f = [c \in Call |-> Awaiting(c) \union UNION {f[d] : d \in Awaiting(c)}]
  <1>1. W \in [Call -> SUBSET Call] /\ \A c \in Call : \A d \in W[c] : d < c
    BY BoundAssumption DEF Awaiting, Call
  <1>2. \A c \in Call : W[c] = Awaiting(c)
    OBVIOUS
  <1> HIDE DEF W
  <1>3. PICK A : A = [c \in Call |-> W[c] \union UNION {A[d] : d \in W[c]}]
    BY <1>1, ReachesExists
  <1>4. P(A)
    BY <1>2, <1>3
  <1>5. AwaitedBy = CHOOSE f : P(f)
    BY DEF AwaitedBy
  <1> HIDE DEF P
  <1>6. P(AwaitedBy)
    BY <1>4, <1>5
  <1>7. \A c \in Call : AwaitedBy[c] = W[c] \union UNION {AwaitedBy[d] : d \in W[c]}
    BY <1>2, <1>6 DEF P
  <1>8. Reaches(W, AwaitedBy)
    BY <1>1, <1>7 DEF Reaches
  <1> QED
    BY <1>8 DEF W

LEMMA AwaitedByReachesThen == Reaches([c \in Call |-> Awaiting(c)], AwaitedBy)'
  BY AwaitedByReaches, PTL

\* Whoever is reached is older, and is one step from c or from another that is reached.
LEMMA ReachedInSteps ==
  ASSUME NEW W, NEW A, Reaches(W, A), NEW c \in Call, NEW d \in A[c]
  PROVE  d \in Call /\ d < c /\ \E e \in A[c] \union {c} : d \in W[e]
  <1> DEFINE Good(x) == \A y \in A[x] :
                            y \in Call /\ y < x /\ \E e \in A[x] \union {x} : y \in W[e]
             S == {x \in Call : ~Good(x)}
  <1>1. S = {}
    <2> SUFFICES ASSUME S # {} PROVE FALSE
      OBVIOUS
    <2>1. PICK x \in S : \A y \in Call : y < x => y \notin S
      BY LeastCall
    <2>2. ASSUME NEW y \in A[x]
          PROVE  y \in Call /\ y < x /\ \E e \in A[x] \union {x} : y \in W[e]
      <3>1. A[x] = W[x] \union UNION {A[e] : e \in W[x]} /\ W[x] \subseteq Call
            /\ \A e \in W[x] : e < x
        BY DEF Reaches
      <3>2. CASE y \in W[x]
        BY <3>1, <3>2
      <3>3. CASE y \notin W[x]
        <4>1. PICK e \in W[x] : y \in A[e]
          BY <3>1, <3>3
        <4>2. e \in Call /\ e < x /\ Good(e)
          BY <2>1, <3>1
        <4>3. y \in Call /\ y < e /\ \E f \in A[e] \union {e} : y \in W[f]
          BY <4>1, <4>2
        <4>4. y < x
          BY <4>2, <4>3, BoundAssumption DEF Call
        <4>5. A[e] \union {e} \subseteq A[x]
          BY <3>1
        <4> QED
          BY <4>3, <4>4, <4>5
      <3> QED
        BY <3>2, <3>3
    <2> QED
      BY <2>1, <2>2
  <1>2. Good(c)
    BY <1>1
  <1> QED
    BY <1>2

\* With fewer steps no more is reached, whoever begins meanwhile.
LEMMA ReachesLess ==
  ASSUME NEW W, NEW A, NEW V, NEW B, Reaches(W, A), Reaches(V, B), NEW n,
         \A e \in Call : e # n => V[e] \subseteq W[e], \A e \in Call : n \notin V[e]
  PROVE  \A e \in Call : e # n => B[e] \subseteq A[e]
  <1> DEFINE S == {e \in Call : e # n /\ ~(B[e] \subseteq A[e])}
  <1>1. S = {}
    <2> SUFFICES ASSUME S # {} PROVE FALSE
      OBVIOUS
    <2>1. PICK x \in S : \A y \in Call : y < x => y \notin S
      BY LeastCall
    <2>2. /\ A[x] = W[x] \union UNION {A[e] : e \in W[x]}
          /\ B[x] = V[x] \union UNION {B[e] : e \in V[x]}
          /\ V[x] \subseteq Call /\ \A e \in V[x] : e < x /\ e # n
          /\ V[x] \subseteq W[x]
      BY DEF Reaches
    <2>3. \A e \in V[x] : B[e] \subseteq A[e]
      BY <2>1, <2>2
    <2>4. B[x] \subseteq A[x]
      BY <2>2, <2>3
    <2> QED
      BY <2>1, <2>4
  <1> QED
    BY <1>1

\* On a chain of calls that await each other every call waits, for the next of the
\* chain, on the same graph or on a newer one; an alias on a newer one.
LEMMA ChainOfCalls ==
  ASSUME ShapeInv, NEW c \in Call, NEW d \in AwaitedBy[c]
  PROVE  /\ d \in Call /\ d < c /\ pc[d] = "waiting"
         /\ child[d] \in AwaitedBy[c] \union {c}
         /\ task[d].graph <= task[c].graph
         /\ IsAlias(d) => task[d].graph < task[c].graph
  <1>0. PICK W, A : W = [e \in Call |-> Awaiting(e)] /\ A = AwaitedBy
    OBVIOUS
  <1>1. Reaches(W, A)
    BY <1>0, AwaitedByReaches
  <1>2. \A x \in Call : \A y \in W[x] : y \in Call /\ pc[y] = "waiting" /\ child[y] = x
    BY <1>0, BoundAssumption DEF Awaiting, Call
  <1>3. d \in Call /\ d < c /\ \E e \in A[c] \union {c} : d \in W[e]
    BY <1>0, <1>1, ReachedInSteps
  <1>4. \A x \in Call : A[x] \subseteq Call
    BY <1>1, ReachedInSteps
  <1>5. pc[d] = "waiting" /\ child[d] \in AwaitedBy[c] \union {c}
    BY <1>0, <1>2, <1>3, <1>4
  <1>6. ASSUME NEW x \in Call, NEW y \in W[x]
        PROVE  /\ task[y].graph \in Int /\ task[x].graph \in Int
               /\ task[y].graph <= task[x].graph
               /\ IsAlias(y) => task[y].graph < task[x].graph
    <2>1. y \in Call /\ pc[y] = "waiting" /\ child[y] = x
      BY <1>2, <1>6
    <2>2. /\ y < x /\ pc[x] # "idle"
          /\ IsAlias(y) => task[x].graph = x
          /\ ~IsAlias(y) => task[x].graph \in {task[y].graph, x}
      BY <2>1 DEF ShapeInv, AwaitsOK
    <2>3. task[y] \in Task /\ task[x] \in Task /\ task[y].graph <= y
      BY <2>1, <2>2 DEF ShapeInv, CallOK, TypeOK
    <2>4. task[y].graph \in Call /\ task[x].graph \in Call
      BY <2>3 DEF Task
    <2> QED
      BY <2>1, <2>2, <2>3, <2>4, BoundAssumption DEF Call
  <1> DEFINE Good(x) == \A y \in A[x] : /\ task[y].graph \in Int /\ task[x].graph \in Int
                                        /\ task[y].graph <= task[x].graph
                                        /\ IsAlias(y) => task[y].graph < task[x].graph
             S == {x \in Call : ~Good(x)}
  <1>7. S = {}
    <2> SUFFICES ASSUME S # {} PROVE FALSE
      OBVIOUS
    <2>1. PICK x \in S : \A y \in Call : y < x => y \notin S
      BY LeastCall
    <2>2. ASSUME NEW y \in A[x]
          PROVE  /\ task[y].graph \in Int /\ task[x].graph \in Int
                 /\ task[y].graph <= task[x].graph
                 /\ IsAlias(y) => task[y].graph < task[x].graph
      <3>1. A[x] = W[x] \union UNION {A[e] : e \in W[x]} /\ W[x] \subseteq Call
            /\ \A e \in W[x] : e < x
        BY <1>1 DEF Reaches
      <3>2. CASE y \in W[x]
        BY <1>6, <3>2
      <3>3. CASE y \notin W[x]
        <4>1. PICK e \in W[x] : y \in A[e]
          BY <3>1, <3>3
        <4>2. e \in Call /\ Good(e)
          BY <2>1, <3>1
        <4>3. /\ task[y].graph \in Int /\ task[e].graph \in Int
              /\ task[y].graph <= task[e].graph
              /\ IsAlias(y) => task[y].graph < task[e].graph
          BY <4>1, <4>2
        <4>4. task[x].graph \in Int /\ task[e].graph <= task[x].graph
          BY <1>6
        <4> QED
          BY <4>3, <4>4
      <3> QED
        BY <3>2, <3>3
    <2> QED
      BY <2>1, <2>2
  <1>8. Good(c)
    BY <1>7
  <1> QED
    BY <1>0, <1>3, <1>5, <1>8

------------------------------------------------------------------------------
(* What the graphs say of the chains *)

\* A token that is in the graph of a chain nobody else has to do with was put there
\* by a call of the chain, for itself or for the next one.
LEMMA EnteredOnChain ==
  ASSUME NEW c \in Call, NEW p \in Provider, ShapeInv, CountInv,
         pc[c] \in {"deps", "hosted"}, task[c].graph \in Call, Has(task[c].graph, p),
         ~Disturbed(c)
  PROVE  \E d \in {c} \union AwaitedBy[c] : task[d].provider = p
  <1>0. PICK g \in Call : g = task[c].graph
    OBVIOUS
  <1>1. ASSUME NEW d \in Call, HasEntered(d), task[d].graph = g
        PROVE  d = c \/ d \in AwaitedBy[c]
    <2>1. task[d] # Nil /\ (pc[d] = "failed" \/ pc[d] \in InFlight)
      BY <1>1 DEF HasEntered, InFlight, ShapeInv, CallOK
    <2> QED
      BY <1>0, <1>1, <2>1 DEF Disturbed
  <1>2. CASE OwnEntries(g, p) # {}
    BY <1>1, <1>2 DEF OwnEntries
  <1>3. CASE DepEntries(g, p) # {}
    <2>1. PICK d \in Call : HasEnteredDep(d) /\ task[d].graph = g /\ DepOf(d).on = p
      BY <1>3 DEF DepEntries
    <2>2. d # c /\ HasEntered(d) /\ ~IsAlias(d)
      BY <2>1 DEF HasEnteredDep, HasEntered
    <2>3. d \in AwaitedBy[c]
      BY <1>1, <2>1, <2>2
    <2>4. pc[d] = "waiting" /\ child[d] \in AwaitedBy[c] \union {c}
      BY <2>3, ChainOfCalls
    <2>5. task[child[d]].provider = p
      BY <2>1, <2>2, <2>4 DEF ShapeInv, AwaitsOK
    <2> QED
      BY <2>4, <2>5
  <1> QED
    BY <1>0, <1>2, <1>3, SomeoneEntered

\* A token that is not in the graph of a chain, and that no lazy dependency took
\* out of it, is not being resolved by any call of the chain on this graph.
LEMMA NotOnChain ==
  ASSUME NEW c \in Call, NEW p \in Provider, NEW d \in {c} \union AwaitedBy[c],
         ShapeInv, CountInv, pc[c] \in {"deps", "hosted"}, ~IsAlias(c),
         task[c].graph \in Call, ~Has(task[c].graph, p), p \notin TakenOut(task[c].graph),
         task[d].graph = task[c].graph
  PROVE  task[d].provider # p
  <1>0. PICK g \in Call : g = task[c].graph
    OBVIOUS
  <1>1. OwnEntries(g, p) = {}
    <2>1. graph[g][p] \in Nat /\ graph[g][p] = 0
      BY <1>0 DEF Has, ShapeInv, TypeOK
    <2>2. CountAt(g, p)
      BY DEF CountInv
    <2>3. Entries(g, p) = 0
      BY <1>0, <2>1, <2>2 DEF CountAt
    <2>4. IsFiniteSet(OwnEntries(g, p)) /\ IsFiniteSet(DepEntries(g, p))
      BY CallIsFinite, FS_Subset DEF OwnEntries, DepEntries
    <2>5. OwnCount(g, p) \in Nat /\ DepCount(g, p) \in Nat
      BY <2>4, FS_CardinalityType DEF OwnCount, DepCount
    <2>6. OwnCount(g, p) = 0
      BY <2>3, <2>5 DEF Entries
    <2> QED
      BY <2>4, <2>6, FS_EmptySet DEF OwnCount
  <1>2. d \in Call /\ HasEntered(d)
    <2>1. CASE d = c
      BY <2>1 DEF HasEntered
    <2>2. CASE d \in AwaitedBy[c]
      <3>1. d \in Call /\ pc[d] = "waiting" /\ (IsAlias(d) => task[d].graph < task[c].graph)
        BY <2>2, ChainOfCalls
      <3>2. ~(task[c].graph < task[c].graph)
        BY <1>0, BoundAssumption DEF Call
      <3> QED
        BY <3>1, <3>2 DEF HasEntered
    <2> QED
      BY <2>1, <2>2
  <1> QED
    BY <1>0, <1>1, <1>2 DEF OwnEntries

\* No chain gets longer but that of a call n that begins.
LEMMA ChainsShrink ==
  ASSUME NEW n, \A e \in Call : e # n => Awaiting(e)' \subseteq Awaiting(e),
         \A e \in Call : n \notin Awaiting(e)'
  PROVE  \A e \in Call : e # n => AwaitedBy'[e] \subseteq AwaitedBy[e]
  <1>1. PICK W, A, V, B : /\ W = [c \in Call |-> Awaiting(c)] /\ A = AwaitedBy
                          /\ V = [c \in Call |-> Awaiting(c)]' /\ B = AwaitedBy'
    OBVIOUS
  <1>2. Reaches(W, A)
    BY <1>1, AwaitedByReaches
  <1>3. Reaches(V, B)
    BY <1>1, AwaitedByReachesThen DEF Reaches
  <1>4. /\ \A e \in Call : e # n => V[e] \subseteq W[e]
        /\ \A e \in Call : n \notin V[e]
    BY <1>1
  <1>5. \A e \in Call : e # n => B[e] \subseteq A[e]
    BY <1>2, <1>3, <1>4, ReachesLess
  <1> QED
    BY <1>1, <1>5

\* The chain of a call that has just begun for c is c and the chain of c.
LEMMA ChainOfNew ==
  ASSUME NEW n \in Call, NEW C \in SUBSET Call, Awaiting(n)' \subseteq C
  PROVE  AwaitedBy'[n] \subseteq C \union UNION {AwaitedBy'[c] : c \in C}
  <1>1. PICK V, B : V = [c \in Call |-> Awaiting(c)]' /\ B = AwaitedBy'
    OBVIOUS
  <1>2. Reaches(V, B)
    BY <1>1, AwaitedByReachesThen DEF Reaches
  <1>3. B[n] = V[n] \union UNION {B[d] : d \in V[n]}
    BY <1>2 DEF Reaches
  <1>4. V[n] \subseteq C
    BY <1>1
  <1>5. B[n] \subseteq C \union UNION {B[c] : c \in C}
    BY <1>3, <1>4
  <1> QED
    BY <1>1, <1>5

\* What has been taken out of a graph stays so.
LEMMA ReentryKept ==
  ASSUME NEW e \in Call, ShapeInv, NoReentry, AwaitedBy'[e] \subseteq AwaitedBy[e],
         pc[e] \in InFlight, lazies \subseteq lazies',
         \A d \in Call : pc[d] # "idle" => task'[d] = task[d]
  PROVE  \A d \in AwaitedBy'[e] :
             /\ task'[d].graph = task'[e].graph
             /\ task'[d].provider = task'[e].provider
             => task'[e].provider \in TakenOut(task[e].graph)'
  <1>1. task'[e] = task[e]
    BY DEF InFlight
  <1>2. TakenOut(task[e].graph) \subseteq TakenOut(task[e].graph)'
    BY <1>1 DEF TakenOut
  <1>3. ASSUME NEW d \in AwaitedBy'[e]
        PROVE  d \in AwaitedBy[e] /\ task'[d] = task[d]
    BY ChainOfCalls
  <1> QED
    BY <1>1, <1>2, <1>3 DEF NoReentry

LEMMA NoReentryInit == Init => NoReentry
  BY DEF Init, NoReentry, InFlight

LEMMA BeginsNoneKeepsNoReentry ==
  ASSUME ShapeInv, NoReentry, BeginsNone
  PROVE  NoReentry'
  <1>1. \A e \in Call : Awaiting(e)' \subseteq Awaiting(e)
    BY BoundAssumption DEF BeginsNone, Awaiting, Call
  <1>2. \A e \in Call : Nil \notin Awaiting(e)' /\ e # Nil
    BY NilAssumption, BoundAssumption DEF Awaiting, Call
  <1>3. \A e \in Call : AwaitedBy'[e] \subseteq AwaitedBy[e]
    BY <1>1, <1>2, ChainsShrink
  <1>4. ASSUME NEW e \in Call, pc'[e] \in InFlight
        PROVE  \A d \in AwaitedBy'[e] :
                   /\ task'[d].graph = task'[e].graph
                   /\ task'[d].provider = task'[e].provider
                   => task'[e].provider \in TakenOut(task[e].graph)'
    BY <1>3, <1>4, ReentryKept DEF BeginsNone
  <1> QED
    BY <1>4 DEF NoReentry

LEMMA BeginsAloneKeepsNoReentry ==
  ASSUME NEW n, NEW t, ShapeInv, NoReentry, BeginsAlone(n, t)
  PROVE  NoReentry'
  <1>1. /\ n \in Call /\ pc[n] = "idle" /\ pc'[n] # "waiting" /\ task'[n] = t
        /\ \A d \in Call \ {n} : pc'[d] = pc[d] /\ task'[d] = task[d]
        /\ child' = child /\ lazies' = lazies
    BY BeginsAloneEffect DEF FirstPc
  <1>2. /\ \A e \in Call : Awaiting(e)' \subseteq Awaiting(e)
        /\ \A e \in Call : n \notin Awaiting(e)'
        /\ Awaiting(n)' = {}
    BY <1>1, BoundAssumption DEF Awaiting, Call, ShapeInv, AwaitsOK
  <1>3. \A e \in Call : e # n => AwaitedBy'[e] \subseteq AwaitedBy[e]
    BY <1>2, ChainsShrink
  <1>4. AwaitedBy'[n] = {}
    BY <1>1, <1>2, ChainOfNew
  <1>5. ASSUME NEW e \in Call, pc'[e] \in InFlight
        PROVE  \A d \in AwaitedBy'[e] :
                   /\ task'[d].graph = task'[e].graph
                   /\ task'[d].provider = task'[e].provider
                   => task'[e].provider \in TakenOut(task[e].graph)'
    <2>1. CASE e = n
      BY <1>4, <2>1
    <2>2. CASE e # n
      <3>1. pc[e] \in InFlight /\ AwaitedBy'[e] \subseteq AwaitedBy[e]
        BY <1>1, <1>3, <1>5, <2>2
      <3> QED
        BY <1>1, <3>1, ReentryKept
    <2> QED
      BY <2>1, <2>2
  <1> QED
    BY <1>5 DEF NoReentry

\* What a call begun for c has to be, for no token to come back on its chain.
LEMMA BeginsForKeepsNoReentry ==
  ASSUME NEW c \in Call, NEW n, NEW t, NEW graphs, ShapeInv, NoReentry,
         BeginsFor(c, n, t, graphs),
         \A d \in {c} \union AwaitedBy[c] :
             task[d].graph = t.graph /\ task[d].provider = t.provider
             => t.provider \in TakenOut(t.graph)
  PROVE  NoReentry'
  <1>1. /\ n \in Call /\ pc[n] = "idle" /\ pc'[n] # "waiting" /\ task'[n] = t
        /\ c # n /\ pc[c] \in InFlight /\ pc[c] # "waiting" /\ child'[c] = n
        /\ \A d \in Call \ {n, c} : pc'[d] = pc[d] /\ child'[d] = child[d]
        /\ \A d \in Call \ {n} : task'[d] = task[d]
        /\ lazies' = lazies
    BY BeginsForEffect DEF FirstPc, InFlight
  <1>2. /\ \A e \in Call : e # n => Awaiting(e)' \subseteq Awaiting(e)
        /\ \A e \in Call : n \notin Awaiting(e)'
        /\ Awaiting(n)' \subseteq {c}
    BY <1>1, BoundAssumption DEF Awaiting, Call, ShapeInv, AwaitsOK
  <1>3. \A e \in Call : e # n => AwaitedBy'[e] \subseteq AwaitedBy[e]
    BY <1>2, ChainsShrink
  <1>4. AwaitedBy'[n] \subseteq {c} \union AwaitedBy[c]
    <2>1. PICK C \in SUBSET Call : C = {c}
      OBVIOUS
    <2>2. AwaitedBy'[n] \subseteq C \union UNION {AwaitedBy'[d] : d \in C}
      BY <1>1, <1>2, <2>1, ChainOfNew
    <2> QED
      BY <1>1, <1>3, <2>1, <2>2
  <1>5. ASSUME NEW e \in Call, pc'[e] \in InFlight
        PROVE  \A d \in AwaitedBy'[e] :
                   /\ task'[d].graph = task'[e].graph
                   /\ task'[d].provider = task'[e].provider
                   => task'[e].provider \in TakenOut(task[e].graph)'
    <2>1. CASE e = n
      <3>1. TakenOut(t.graph) = TakenOut(task[e].graph)'
        BY <1>1, <2>1 DEF TakenOut
      <3>2. ASSUME NEW d \in AwaitedBy'[e]
            PROVE  d \in {c} \union AwaitedBy[c] /\ task'[d] = task[d]
        <4>1. d \in {c} \union AwaitedBy[c]
          BY <1>4, <2>1
        <4>2. d \in Call /\ pc[d] # "idle"
          BY <1>1, <4>1, ChainOfCalls DEF InFlight
        <4> QED
          BY <1>1, <4>1, <4>2
      <3> QED
        BY <1>1, <2>1, <3>1, <3>2
    <2>2. CASE e # n
      <3>1. pc[e] \in InFlight /\ AwaitedBy'[e] \subseteq AwaitedBy[e]
        BY <1>1, <1>3, <1>5, <2>2
      <3> QED
        BY <1>1, <3>1, ReentryKept
    <2> QED
      BY <2>1, <2>2
  <1> QED
    BY <1>5 DEF NoReentry

LEMMA NoReentryNext ==
  ASSUME ShapeInv, CountInv, NoReentry, [Next]_vars
  PROVE  NoReentry'
  <1>1. ASSUME NEW c \in Call, NEW n, NEW d \in {c} \union AwaitedBy[c],
               pc[c] # "idle", n \in Call, c < n
        PROVE  task[d].graph # n
    <2>1. d \in Call /\ d <= c /\ pc[d] # "idle"
      BY <1>1, ChainOfCalls, BoundAssumption DEF Call
    <2>2. task[d].graph \in Call /\ task[d].graph <= d
      BY <2>1 DEF ShapeInv, CallOK, TypeOK, Task
    <2> QED
      BY <1>1, <2>1, <2>2, BoundAssumption DEF Call
  <1>2. ASSUME NEW c \in Call, RequestDep(c) PROVE NoReentry'
    <2>1. /\ pc[c] \in {"deps", "hosted"} /\ ~IsAlias(c) /\ task[c] \in Task
          /\ DepOf(c).on \in Provider
      BY <1>2, RequestDepBegins
    <2>2. PICK n, t : /\ BeginsFor(c, n, t, Add(graph, task[c].graph, DepOf(c).on))
                      /\ t.provider = DepOf(c).on /\ t.graph \in {task[c].graph, n}
      BY <1>2, RequestDepBegins
    <2>3. PICK p \in Provider : p = DepOf(c).on
      BY <2>1
    <2>4. ~Has(task[c].graph, p) /\ task[c].graph \in Call
      BY <1>2, <2>1, <2>3 DEF RequestDep, Resolvable, Task
    <2>5. ASSUME NEW d \in {c} \union AwaitedBy[c],
                 task[d].graph = t.graph, task[d].provider = t.provider
          PROVE  t.provider \in TakenOut(t.graph)
      <3>1. t.graph # n
        BY <1>1, <2>1, <2>2, <2>5 DEF BeginsFor, IsNext
      <3>2. t.graph = task[c].graph /\ t.provider = p
        BY <2>2, <2>3, <3>1
      <3> QED
        BY <2>1, <2>4, <2>5, <3>2, NotOnChain
    <2> QED
      BY <2>2, <2>5, BeginsForKeepsNoReentry
  <1>3. ASSUME NEW c \in Call, NEW n, NEW t, BeginsFor(c, n, t, graph), t.graph = n
        PROVE  NoReentry'
    <2>1. ASSUME NEW d \in {c} \union AwaitedBy[c] PROVE task[d].graph # t.graph
      BY <1>1, <1>3 DEF BeginsFor, IsNext
    <2> QED
      BY <1>3, <2>1, BeginsForKeepsNoReentry
  <1> QED
    BY <1>2, <1>3, StepKinds, BeginsNoneKeepsNoReentry, BeginsAloneKeepsNoReentry

\* A cycle of dependencies is reported, not followed: no resolution comes to wait
\* for itself on its own graph, unless a lazy dependency took its token out of it.
THEOREM CyclesAreNotFollowed == Spec => []NoReentry
  BY CountInvariant, NoReentryInit, NoReentryNext, ShapeInvariant, PTL DEF Spec

\* A circular dependency error speaks of a token that the failing call, or one that
\* awaits it, is resolving, unless others meddled with their graph.
THEOREM CyclesAreReal == Spec => []CircularErrorIsReal
  <1>1. ShapeInv /\ CountInv => CircularErrorIsReal
    <2> SUFFICES ASSUME ShapeInv, CountInv, NEW c \in Call, InBody(c),
                        Has(task[c].graph, DepOf(c).on), ~Disturbed(c)
                 PROVE  \E d \in {c} \union AwaitedBy[c] : task[d].provider = DepOf(c).on
      BY DEF CircularErrorIsReal
    <2>1. AtDep(c, {"deps", "hosted"}) /\ pc[c] \in {"deps", "hosted"}
      BY DEF InBody, AtDep
    <2>2. PICK p : p = DepOf(c).on
      OBVIOUS
    <2>3. p \in Provider /\ task[c].graph \in Call
      BY <2>1, <2>2, AtDepType DEF Task
    <2>4. \E d \in {c} \union AwaitedBy[c] : task[d].provider = p
      BY <2>1, <2>2, <2>3, EnteredOnChain
    <2> QED
      BY <2>2, <2>4
  <1> QED
    BY <1>1, CountInvariant, ShapeInvariant, PTL

\* All that is checked of the dependency graph and of what is injected holds for
\* every application: whatever depends on what, with whichever flags and lifetimes,
\* and however resolutions interleave and fail.
THEOREM GraphsAreSound == Spec => []GraphIsSound
  <1>1. NoStaleEntries /\ NoReentry /\ CircularErrorIsReal /\ InjectedFromSameEvent
        => GraphIsSound
    BY DEF GraphIsSound
  <1> QED
    BY <1>1, GraphsAreClean, CyclesAreNotFollowed, CyclesAreReal, SameEventInjected, PTL
===============================================================================
