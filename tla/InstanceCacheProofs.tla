------------------------- MODULE InstanceCacheProofs -------------------------
(***************************************************************************)
(* Type correctness and the safety properties of InstanceCache, for every  *)
(* set of calls, bindings, injectors and contexts.                         *)
(***************************************************************************)
EXTENDS InstanceCache, TLAPS

\* Two requests that share a binding and a key of its instance map.
SameEntry(q, r) == q.binding = r.binding /\ LookupKey(q) = LookupKey(r)

Kept(c) == Served(c) /\ ~IsTransient(request[c].binding)

\* A call that made, or may still make, an instance that later calls share.
MakesShared(c) ==
    /\ pc[c] \in InFlight \/ (Served(c) /\ result[c] = c)
    /\ Reusable(request[c])
    /\ ~IsTransient(request[c].binding)

RequestsInv == \A c \in Call : pc[c] # "idle" => request[c] \in Request

\* What is kept is what a call that is over made for that binding and key.
EntriesInv ==
    \A b \in Binding, k \in Key :
        LET i == instances[b][k]
        IN  i # Nil => /\ Done(i) /\ result[i] = i
                       /\ request[i].binding = b
                       /\ LookupKey(request[i]) = k
                       /\ ~IsTransient(b)

\* What was returned was made for the entry that was asked for, by this call or,
\* if the binding allows it to be shared, by another one that is over.
ResultsInv ==
    \A c \in Call : Served(c) =>
        LET m == result[c]
        IN  /\ Done(m) /\ result[m] = m
            /\ SameEntry(request[m], request[c])
            /\ m = c \/ (Reusable(request[c]) /\ ~IsTransient(request[c].binding))

\* Once an instance that may be kept was returned, its entry is never empty.
FilledInv ==
    \A c \in Call :
        Kept(c) => instances[request[c].binding][LookupKey(request[c])] # Nil

\* A maker of a shared instance found the entry empty, so no call that was
\* over when it began had been given an instance of that entry.
HistoryInv ==
    \A c, d \in Call :
        d \in earlier[c] =>
            /\ Done(d)
            /\ MakesShared(c) => ~(Served(d) /\ SameEntry(request[d], request[c]))

IdleInv == \A c \in Call : pc[c] = "idle" => earlier[c] = {}

\* A binding whose factory returns null serves nobody.
NullishInv == \A c \in Call : Served(c) => request[c].binding \notin Nullish

IInv ==
    /\ TypeOK
    /\ RequestsInv
    /\ EntriesInv
    /\ ResultsInv
    /\ FilledInv
    /\ HistoryInv
    /\ IdleInv
    /\ NullishInv

------------------------------------------------------------------------------

\* The key of a request is one of the keys of the instance map.
LEMMA LookupKeyType == \A q \in Request : LookupKey(q) \in Key
  BY DEF LookupKey, Request, Key

\* The scope a lifetime defines is the entry the code looks up: an injector is
\* never a context, so keys of the two kinds do not meet.
LEMMA SameScopeIsSameEntry ==
  \A q, r \in Request : SameScope(q, r) <=> SameEntry(q, r)
  BY DEF SameScope, SameEntry, LookupKey, Request

\* A binding is shareable exactly if the code keeps its instance and returns it.
LEMMA ShareableIsReusable ==
  \A q \in Request :
      Shareable(q.binding) <=> Reusable(q) /\ ~IsTransient(q.binding)
  <1> SUFFICES ASSUME NEW q \in Request
               PROVE  Shareable(q.binding) <=> Reusable(q) /\ ~IsTransient(q.binding)
    OBVIOUS
  <1>1. q.binding \in Binding /\ q.injector \in Injector /\ q.ctx \in Context \union {Nil}
    BY DEF Request
  <1>2. q.injector # q.ctx
    BY <1>1, NilAssumption, ContextAssumption
  <1> QED
    BY <1>1, <1>2, BindingAssumption
       DEF Shareable, Reusable, IsTransient, IsTransientByDependency,
           IsDependencyTreeStatic, LookupKey, Lifetimes

\* Every reachable state satisfies the type invariant and the invariants above.
LEMMA IInvInit == Init => IInv
  BY NilAssumption
     DEF Init, IInv, TypeOK, RequestsInv, EntriesInv, ResultsInv, FilledInv,
         HistoryInv, IdleInv, NullishInv, InFlight, Served, Done, Kept, Key

LEMMA TypeOKStep == TypeOK /\ RequestsInv /\ [Next]_vars => TypeOK'
  <1> SUFFICES ASSUME TypeOK, RequestsInv, [Next]_vars
               PROVE  TypeOK'
    OBVIOUS
  <1> USE DEF TypeOK, InFlight
  <1>1. ASSUME NEW c \in Call, NEW q \in Request, Hit(c, q)
        PROVE  TypeOK'
    BY <1>1, LookupKeyType DEF Hit, Ask, GetInstance, Request
  <1>2. ASSUME NEW c \in Call, NEW q \in Request, Miss(c, q)
        PROVE  TypeOK'
    BY <1>2 DEF Miss, Ask
  <1>3. ASSUME NEW c \in Call, DependenciesResolved(c)
        PROVE  TypeOK'
    BY <1>3 DEF DependenciesResolved
  <1>4. ASSUME NEW c \in Call, pc[c] \in InFlight, Return(c)
        PROVE  TypeOK'
    <2>1. request[c] \in Request /\ request[c].binding \in Binding
      BY <1>4 DEF RequestsInv, Request
    <2>2. Produced(c) \in Call \union {Nil}
      BY DEF Produced
    <2>3. LookupKey(request[c]) \in Key
      BY <2>1, LookupKeyType
    <2>4. ASSUME SetInstance(request[c], Produced(c))
          PROVE  instances' \in [Binding -> [Key -> Call \union {Nil}]]
      BY <2>1, <2>2, <2>3, <2>4, Zenon DEF SetInstance
    <2>5. instances' \in [Binding -> [Key -> Call \union {Nil}]]
      BY <1>4, <2>4 DEF Return
    <2> QED
      BY <1>4, <2>2, <2>5 DEF Return
  <1>5. ASSUME NEW c \in Call, AwaitHook(c)
        PROVE  TypeOK'
    BY <1>5 DEF AwaitHook
  <1>6. ASSUME NEW c \in Call, Fail(c)
        PROVE  TypeOK'
    BY <1>6 DEF Fail
  <1>7. CASE UNCHANGED vars
    BY <1>7 DEF vars
  <1> QED
    BY <1>1, <1>2, <1>3, <1>4, <1>5, <1>6, <1>7
       DEF Next, Construct, HookReturned, InFlight

\* A cache hit keeps the invariants: the call is given what another one, over by
\* now, made for the same entry.
LEMMA HitStep ==
  ASSUME IInv, NEW c \in Call, NEW q \in Request, Hit(c, q)
  PROVE  /\ RequestsInv' /\ EntriesInv' /\ ResultsInv'
         /\ FilledInv' /\ HistoryInv' /\ IdleInv' /\ NullishInv'
  <1> USE DEF IInv, TypeOK
  <1> DEFINE i == GetInstance(q)
  <1>1. /\ pc[c] = "idle"
        /\ request' = [request EXCEPT ![c] = q]
        /\ earlier' = [earlier EXCEPT ![c] = {d \in Call : pc[d] = "done"}]
        /\ pc' = [pc EXCEPT ![c] = "done"]
        /\ result' = [result EXCEPT ![c] = i]
        /\ UNCHANGED instances
        /\ Reusable(q) /\ i # Nil
    BY DEF Hit, Ask
  <1>2. LookupKey(q) \in Key /\ q.binding \in Binding
    BY LookupKeyType DEF Request
  <1>3. /\ i \in Call /\ i # c
        /\ Done(i) /\ result[i] = i
        /\ SameEntry(request[i], q)
        /\ ~IsTransient(q.binding)
    BY <1>1, <1>2, NilAssumption DEF EntriesInv, GetInstance, SameEntry, Done
  <1>4. RequestsInv'
    BY <1>1 DEF RequestsInv
  <1>5. EntriesInv'
    BY <1>1 DEF EntriesInv, Done
  <1>6. ResultsInv'
    BY <1>1, <1>3 DEF ResultsInv, Served, Done, SameEntry
  <1>7. FilledInv'
    BY <1>1 DEF FilledInv, Kept, Served, Done, GetInstance
  <1>8. HistoryInv'
    BY <1>1, <1>3, NilAssumption
       DEF HistoryInv, MakesShared, Served, Done, InFlight, SameEntry
  <1>9. IdleInv'
    BY <1>1 DEF IdleInv
  <1>10. NullishInv'
    BY <1>1, <1>3 DEF NullishInv, Served, Done, SameEntry
  <1> QED
    BY <1>4, <1>5, <1>6, <1>7, <1>8, <1>9, <1>10

\* A miss keeps them: the entry is empty, or its instances are not shared.
LEMMA MissStep ==
  ASSUME IInv, NEW c \in Call, NEW q \in Request, Miss(c, q)
  PROVE  /\ RequestsInv' /\ EntriesInv' /\ ResultsInv'
         /\ FilledInv' /\ HistoryInv' /\ IdleInv' /\ NullishInv'
  <1> USE DEF IInv, TypeOK
  <1>1. /\ pc[c] = "idle"
        /\ request' = [request EXCEPT ![c] = q]
        /\ earlier' = [earlier EXCEPT ![c] = {d \in Call : pc[d] = "done"}]
        /\ pc' = [pc EXCEPT ![c] = IF q.binding \in WithDeps THEN "deps"
                                                             ELSE "factory"]
        /\ UNCHANGED <<instances, result>>
        /\ GetInstance(q) = Nil \/ ~Reusable(q)
    BY DEF Miss, Ask
  <1>2. pc'[c] \in InFlight /\ pc'[c] # "done" /\ pc'[c] # "idle"
    BY <1>1 DEF InFlight
  <1>3. \A d \in Call : d # c => pc'[d] = pc[d] /\ request'[d] = request[d]
    BY <1>1
  <1>4. RequestsInv'
    BY <1>1 DEF RequestsInv
  <1>5. EntriesInv'
    BY <1>1, <1>2, <1>3 DEF EntriesInv, Done
  <1>6. ResultsInv'
    BY <1>1, <1>2, <1>3 DEF ResultsInv, Served, Done, SameEntry
  <1>7. FilledInv'
    BY <1>1, <1>2, <1>3 DEF FilledInv, Kept, Served, Done
  <1>8. ASSUME NEW d \in Call, Served(d), SameEntry(request[d], q),
               ~IsTransient(q.binding)
        PROVE  GetInstance(q) # Nil
    BY <1>8 DEF FilledInv, Kept, SameEntry, GetInstance
  <1>9. HistoryInv'
    BY <1>1, <1>2, <1>3, <1>8
       DEF HistoryInv, MakesShared, Served, Done, SameEntry
  <1>10. IdleInv'
    BY <1>1, <1>2, <1>3 DEF IdleInv
  <1>11. NullishInv'
    BY <1>1, <1>2, <1>3 DEF NullishInv, Served, Done
  <1> QED
    BY <1>4, <1>5, <1>6, <1>7, <1>9, <1>10, <1>11

\* The end of a call keeps them: only a call that found nothing gets here, and
\* what it keeps is its own instance.
LEMMA ReturnStep ==
  ASSUME IInv, NEW c \in Call, pc[c] \in {"factory", "hook"}, Return(c)
  PROVE  /\ RequestsInv' /\ EntriesInv' /\ ResultsInv'
         /\ FilledInv' /\ HistoryInv' /\ IdleInv' /\ NullishInv'
  <1> USE DEF IInv, TypeOK
  <1> DEFINE b == request[c].binding
             k == LookupKey(request[c])
             v == Produced(c)
  <1>1. /\ pc' = [pc EXCEPT ![c] = "done"]
        /\ result' = [result EXCEPT ![c] = v]
        /\ request' = request /\ earlier' = earlier
        /\ IsTransient(b) => instances' = instances
        /\ ~IsTransient(b) => SetInstance(request[c], v)
    BY DEF Return
  <1>2. request[c] \in Request /\ b \in Binding /\ k \in Key
    BY LookupKeyType DEF RequestsInv, Request
  <1>3. v \in {c, Nil} /\ ~Done(c) /\ pc[c] \in InFlight
    BY DEF Produced, Done, InFlight
  <1>4. \A a \in Binding, j \in Key :
           instances'[a][j] = IF ~IsTransient(b) /\ a = b /\ j = k THEN v
                                                                 ELSE instances[a][j]
    <2>1. CASE IsTransient(b)
      BY <1>1, <2>1
    <2>2. CASE ~IsTransient(b)
      <3>1. instances' = [instances EXCEPT ![b][k] = v]
        BY <1>1, <2>2 DEF SetInstance
      <3> QED
        BY <1>2, <2>2, <3>1, Zenon
    <2> QED
      BY <2>1, <2>2
  <1>5. \A d \in Call : d # c => pc'[d] = pc[d] /\ result'[d] = result[d]
    BY <1>1
  <1>6. pc'[c] = "done" /\ result'[c] = v
    BY <1>1
  <1>7. \A a \in Binding, j \in Key : instances[a][j] # c
    BY <1>3, NilAssumption DEF EntriesInv
  <1>8. RequestsInv'
    BY <1>1, <1>2, <1>5 DEF RequestsInv
  <1>9. EntriesInv'
    <2> SUFFICES ASSUME NEW a \in Binding, NEW j \in Key, instances'[a][j] # Nil
                 PROVE  LET i == instances'[a][j]
                        IN  /\ pc'[i] = "done" /\ result'[i] = i
                            /\ request'[i].binding = a
                            /\ LookupKey(request'[i]) = j
                            /\ ~IsTransient(a)
      BY DEF EntriesInv, Done
    <2>1. CASE ~IsTransient(b) /\ a = b /\ j = k
      <3>1. instances'[a][j] = c /\ v = c
        BY <1>3, <1>4, <2>1
      <3> QED
        BY <1>1, <1>6, <2>1, <3>1 DEF Done
    <2>2. CASE ~(~IsTransient(b) /\ a = b /\ j = k)
      <3>1. instances'[a][j] = instances[a][j]
        BY <1>4, <2>2
      <3>2. instances[a][j] # c /\ instances[a][j] \in Call
        BY <1>7, <3>1
      <3> QED
        BY <1>1, <1>5, <3>1, <3>2 DEF EntriesInv, Done
    <2> QED
      BY <2>1, <2>2
  <1>10. \A d \in Call : d # c => (Served(d)' <=> Served(d))
    BY <1>5 DEF Served, Done
  <1>11. Served(c)' => result'[c] = c
    BY <1>3, <1>6 DEF Served
  <1>12. ResultsInv'
    <2> SUFFICES ASSUME NEW d \in Call, Served(d)'
                 PROVE  LET m == result'[d]
                        IN  /\ pc'[m] = "done" /\ result'[m] = m
                            /\ SameEntry(request'[m], request'[d])
                            /\ m = d \/ (/\ Reusable(request'[d])
                                         /\ ~IsTransient(request'[d].binding))
      BY DEF ResultsInv, Done
    <2>1. CASE d = c
      BY <1>1, <1>6, <1>11, <2>1 DEF Done, SameEntry
    <2>2. CASE d # c
      <3>1. Served(d) /\ result'[d] = result[d] /\ result[d] \in Call
        BY <1>5, <1>10, <2>2 DEF Served
      <3>2. result[d] # c
        BY <1>3, <3>1 DEF ResultsInv
      <3> QED
        BY <1>1, <1>5, <3>1, <3>2 DEF ResultsInv, Done
    <2> QED
      BY <2>1, <2>2
  <1>13. FilledInv'
    <2> SUFFICES ASSUME NEW d \in Call, Kept(d)'
                 PROVE  instances'[request'[d].binding][LookupKey(request'[d])] # Nil
      BY DEF FilledInv
    <2>1. pc[d] # "idle" /\ request[d] \in Request
      BY <1>5, <1>3 DEF Kept, Served, Done, RequestsInv, InFlight
    <2>2. request[d].binding \in Binding /\ LookupKey(request[d]) \in Key
      BY <2>1, LookupKeyType DEF Request
    <2>3. CASE request[d].binding = b /\ LookupKey(request[d]) = k
      <3>1. ~IsTransient(b)
        BY <1>1, <2>3 DEF Kept
      <3>2. instances'[b][k] = v
        BY <1>2, <1>4, <3>1
      <3>3. v # Nil
        <4>1. CASE d = c
          BY <1>6, <4>1 DEF Kept, Served
        <4>2. CASE d # c
          \* The binding returned an instance before, so it is not nullish.
          <5>1. Served(d) /\ ResultsInv
            BY <1>10, <4>2 DEF Kept
          <5>2. b \notin Nullish
            BY <5>1, <2>3 DEF NullishInv
          <5> QED
            BY <5>2, <1>2, NilAssumption DEF Produced
        <4> QED
          BY <4>1, <4>2
      <3> QED
        BY <1>1, <2>3, <3>2, <3>3
    <2>4. CASE ~(request[d].binding = b /\ LookupKey(request[d]) = k)
      <3>1. d # c
        BY <2>4
      <3>2. Kept(d)
        BY <1>1, <1>10, <3>1 DEF Kept
      <3> QED
        BY <1>1, <1>4, <2>2, <2>4, <3>2 DEF FilledInv
    <2> QED
      BY <2>3, <2>4
  <1>14. HistoryInv'
    <2> SUFFICES ASSUME NEW d \in Call, NEW e \in Call, e \in earlier[d]
                 PROVE  /\ Done(e)'
                        /\ MakesShared(d)' =>
                              ~(Served(e)' /\ SameEntry(request'[e], request'[d]))
      BY <1>1 DEF HistoryInv
    <2>1. Done(e) /\ e # c
      BY <1>3 DEF HistoryInv
    <2>2. Done(e)'
      BY <1>5, <2>1 DEF Done
    <2>3. MakesShared(d)' => MakesShared(d)
      BY <1>1, <1>3, <1>5, <1>6 DEF MakesShared, Served, Done
    <2> QED
      BY <1>1, <1>10, <2>1, <2>2, <2>3 DEF HistoryInv
  <1>15. IdleInv'
    BY <1>1, <1>5, <1>6 DEF IdleInv
  <1>16. NullishInv'
    BY <1>1, <1>6, <1>10, NilAssumption DEF NullishInv, Served, Produced
  <1> QED
    BY <1>8, <1>9, <1>12, <1>13, <1>14, <1>15, <1>16

\* Steps that only move a call on its way, none of which ends it with a result.
LEMMA ProgressStep ==
  ASSUME IInv, NEW c \in Call, NEW p \in {"factory", "hook", "failed"},
         pc[c] \in InFlight, pc' = [pc EXCEPT ![c] = p],
         UNCHANGED <<instances, request, result, earlier>>
  PROVE  /\ RequestsInv' /\ EntriesInv' /\ ResultsInv'
         /\ FilledInv' /\ HistoryInv' /\ IdleInv' /\ NullishInv'
  <1> USE DEF IInv, TypeOK
  <1>1. ~Done(c) /\ ~Done(c)' /\ pc[c] # "idle" /\ pc'[c] # "idle"
    BY DEF Done, InFlight
  <1>2. \A d \in Call : d # c => pc'[d] = pc[d]
    OBVIOUS
  <1>3. \A d \in Call : Done(d)' <=> Done(d)
    BY <1>1, <1>2 DEF Done
  <1>4. \A d \in Call : Served(d)' <=> Served(d)
    BY <1>3 DEF Served
  <1>5. RequestsInv' /\ IdleInv'
    BY <1>1, <1>2 DEF RequestsInv, IdleInv
  <1>6. EntriesInv'
    BY <1>3 DEF EntriesInv
  <1>7. ResultsInv'
    BY <1>3, <1>4 DEF ResultsInv, Served
  <1>8. FilledInv'
    BY <1>4 DEF FilledInv, Kept
  <1>9. \A d \in Call : MakesShared(d)' => MakesShared(d)
    BY <1>2, <1>4 DEF MakesShared
  <1>10. HistoryInv' /\ NullishInv'
    BY <1>3, <1>4, <1>9 DEF HistoryInv, NullishInv
  <1> QED
    BY <1>5, <1>6, <1>7, <1>8, <1>10

LEMMA IInvStep == IInv /\ [Next]_vars => IInv'
  <1> SUFFICES ASSUME IInv, [Next]_vars
               PROVE  IInv'
    OBVIOUS
  <1>1. TypeOK'
    BY TypeOKStep DEF IInv
  <1>2. ASSUME NEW c \in Call, NEW q \in Request, Hit(c, q)
        PROVE  IInv'
    BY <1>1, <1>2, HitStep DEF IInv
  <1>3. ASSUME NEW c \in Call, NEW q \in Request, Miss(c, q)
        PROVE  IInv'
    BY <1>1, <1>3, MissStep DEF IInv
  <1>4. ASSUME NEW c \in Call, DependenciesResolved(c)
        PROVE  IInv'
    BY <1>1, <1>4, ProgressStep DEF IInv, DependenciesResolved, InFlight
  <1>5. ASSUME NEW c \in Call, pc[c] = "factory", AwaitHook(c)
        PROVE  IInv'
    BY <1>1, <1>5, ProgressStep DEF IInv, AwaitHook, InFlight
  <1>6. ASSUME NEW c \in Call, pc[c] \in {"factory", "hook"}, Return(c)
        PROVE  IInv'
    BY <1>1, <1>6, ReturnStep DEF IInv
  <1>7. ASSUME NEW c \in Call, Fail(c)
        PROVE  IInv'
    BY <1>1, <1>7, ProgressStep DEF IInv, Fail
  <1>8. CASE UNCHANGED vars
    BY <1>1, <1>8
       DEF vars, IInv, RequestsInv, EntriesInv, ResultsInv, FilledInv, HistoryInv,
           IdleInv, NullishInv, Kept, Served, Done, MakesShared
  <1> QED
    BY <1>2, <1>3, <1>4, <1>5, <1>6, <1>7, <1>8
       DEF Next, Construct, HookReturned

\* The invariant holds in every reachable state.
THEOREM Invariance == Spec => []IInv
  BY IInvInit, IInvStep, PTL DEF Spec

\* Every variable of the cache keeps its type.
THEOREM TypeCorrectness == Spec => []TypeOK
  <1>1. IInv => TypeOK
    BY DEF IInv
  <1> QED
    BY <1>1, Invariance, PTL

\* Different instances of one scope were made by overlapping calls only.
THEOREM OneInstance == Spec => []OneInstanceUnlessOverlapping
  <1>1. IInv => OneInstanceUnlessOverlapping
    <2> SUFFICES ASSUME IInv, NEW c \in Call, NEW d \in Call,
                        Served(c), Served(d),
                        SameScope(request[c], request[d]),
                        Shareable(request[c].binding),
                        result[c] # result[d]
                 PROVE  result[c] \notin earlier[result[d]]
      BY DEF OneInstanceUnlessOverlapping, SameScope
    <2> DEFINE m == result[c]
               n == result[d]
    <2>1. request[c] \in Request /\ request[d] \in Request
      BY DEF IInv, RequestsInv, Served, Done
    <2>2. m \in Call /\ n \in Call
      BY DEF IInv, TypeOK, Served
    <2>3. /\ Served(m) /\ result[m] = m /\ SameEntry(request[m], request[c])
          /\ Served(n) /\ result[n] = n /\ SameEntry(request[n], request[d])
      BY <2>2, NilAssumption DEF IInv, ResultsInv, Served
    <2>4. request[m] \in Request /\ request[n] \in Request
      BY <2>2, <2>3 DEF IInv, RequestsInv, Served, Done
    <2>5. SameEntry(request[m], request[n])
      BY <2>1, <2>3, SameScopeIsSameEntry DEF SameEntry
    <2>6. Shareable(request[n].binding)
      BY <2>3, <2>5 DEF SameEntry
    <2>7. MakesShared(n)
      BY <2>3, <2>4, <2>6, ShareableIsReusable DEF MakesShared
    <2> QED
      BY <2>2, <2>3, <2>5, <2>7 DEF IInv, HistoryInv
  <1> QED
    BY <1>1, Invariance, PTL

\* What a call is given was made in its own scope.
THEOREM ScopeConfinement == Spec => []Confinement
  <1>1. IInv => Confinement
    <2> SUFFICES ASSUME IInv, NEW c \in Call, Served(c)
                 PROVE  SameScope(request[result[c]], request[c])
      BY DEF Confinement
    <2>1. result[c] \in Call /\ Done(result[c])
      BY DEF IInv, TypeOK, ResultsInv, Served
    <2>2. request[result[c]] \in Request /\ request[c] \in Request
      BY <2>1 DEF IInv, RequestsInv, Served, Done
    <2>3. SameEntry(request[result[c]], request[c])
      BY DEF IInv, ResultsInv
    <2> QED
      BY <2>2, <2>3, SameScopeIsSameEntry
  <1> QED
    BY <1>1, Invariance, PTL

\* Providers that are not shareable are made anew for every caller.
THEOREM Freshness == Spec => []FreshUnlessShareable
  <1>1. IInv => FreshUnlessShareable
    <2> SUFFICES ASSUME IInv, NEW c \in Call, NEW d \in Call,
                        Served(c), Served(d), result[c] = result[d],
                        ~Shareable(request[c].binding)
                 PROVE  c = d
      BY DEF FreshUnlessShareable
    <2>1. request[c] \in Request /\ request[d] \in Request
      BY DEF IInv, RequestsInv, Served, Done
    <2>2. request[c].binding = request[d].binding
      BY DEF IInv, ResultsInv, SameEntry
    <2>3. result[c] = c /\ result[d] = d
      BY <2>1, <2>2, ShareableIsReusable DEF IInv, ResultsInv
    <2> QED
      BY <2>3
  <1> QED
    BY <1>1, Invariance, PTL

\* Nobody is given an instance before its afterResolution hook is over.
THEOREM ResolvedInstances == Spec => []OnlyResolvedInstances
  <1>1. IInv => OnlyResolvedInstances
    BY DEF IInv, ResultsInv, OnlyResolvedInstances
  <1> QED
    BY <1>1, Invariance, PTL

\* In a settled scope no step, of any call, changes what the scope holds or
\* starts to make another instance of it.
LEMMA SettledStep ==
  ASSUME IInv, [Next]_vars, NEW q \in Request, Settled(q), Shareable(q.binding)
  PROVE  Settled(q)' /\ GetInstance(q)' = GetInstance(q)
  <1> USE DEF IInv, TypeOK, Settled
  <1>1. q.binding \in Binding /\ LookupKey(q) \in Key
    BY LookupKeyType DEF Request
  <1>2. ASSUME NEW c \in Call, NEW r \in Request, Hit(c, r)
        PROVE  Settled(q)' /\ GetInstance(q)' = GetInstance(q)
    BY <1>2 DEF Hit, Ask, GetInstance, InFlight
  <1>3. ASSUME NEW c \in Call, NEW r \in Request, Miss(c, r)
        PROVE  Settled(q)' /\ GetInstance(q)' = GetInstance(q)
    <2>1. ~SameScope(r, q)
      <3> SUFFICES ASSUME SameScope(r, q)
                   PROVE  FALSE
        OBVIOUS
      <3>1. GetInstance(r) = GetInstance(q) /\ r.binding = q.binding
        BY SameScopeIsSameEntry DEF SameEntry, GetInstance
      <3>2. Reusable(r)
        BY <3>1, ShareableIsReusable
      <3> QED
        BY <1>3, <3>1, <3>2 DEF Miss
    <2>2. GetInstance(q)' = GetInstance(q)
      BY <1>3 DEF Miss, GetInstance
    <2>3. ASSUME NEW d \in Call, pc'[d] \in InFlight
          PROVE  ~SameScope(request'[d], q)
      BY <1>3, <2>1, <2>3 DEF Miss, Ask
    <2> QED
      BY <2>2, <2>3
  <1>4. ASSUME NEW c \in Call, pc[c] \in InFlight,
               NEW p \in {"factory", "hook", "failed"},
               pc' = [pc EXCEPT ![c] = p], UNCHANGED <<instances, request>>
        PROVE  Settled(q)' /\ GetInstance(q)' = GetInstance(q)
    BY <1>4 DEF GetInstance
  <1>5. ASSUME NEW c \in Call, pc[c] \in {"factory", "hook"}, Return(c)
        PROVE  Settled(q)' /\ GetInstance(q)' = GetInstance(q)
    <2>1. request[c] \in Request /\ pc[c] \in InFlight
      BY <1>5 DEF RequestsInv, InFlight
    <2>2. ~SameEntry(request[c], q)
      BY <2>1, SameScopeIsSameEntry
    <2>3. request[c].binding \in Binding /\ LookupKey(request[c]) \in Key
      BY <2>1, LookupKeyType DEF Request
    <2>4. ASSUME SetInstance(request[c], Produced(c))
          PROVE  GetInstance(q)' = GetInstance(q)
      BY <1>1, <2>2, <2>3, <2>4 DEF SetInstance, GetInstance, SameEntry
    <2>5. GetInstance(q)' = GetInstance(q)
      BY <1>5, <2>4 DEF Return, GetInstance
    <2> QED
      BY <1>5, <2>5 DEF Return, InFlight
  <1>6. CASE UNCHANGED vars
    BY <1>6 DEF vars, GetInstance
  <1>7. ASSUME NEW c \in Call, DependenciesResolved(c)
        PROVE  Settled(q)' /\ GetInstance(q)' = GetInstance(q)
    BY <1>4, <1>7 DEF DependenciesResolved, InFlight
  <1>8. ASSUME NEW c \in Call, pc[c] = "factory", AwaitHook(c)
        PROVE  Settled(q)' /\ GetInstance(q)' = GetInstance(q)
    BY <1>4, <1>8 DEF AwaitHook, InFlight
  <1>9. ASSUME NEW c \in Call, Fail(c)
        PROVE  Settled(q)' /\ GetInstance(q)' = GetInstance(q)
    BY <1>4, <1>9 DEF Fail
  <1> QED
    BY <1>2, <1>3, <1>5, <1>6, <1>7, <1>8, <1>9
       DEF Next, Construct, HookReturned

\* Calls interleaved in any way share instances as the lifetimes of their bindings
\* say: what the run of InstanceCache checks for three calls, for any number.
THEOREM Sharing == Spec => []SharingIsSound
  <1>1. SharingIsSound
        <=> /\ OneInstanceUnlessOverlapping /\ Confinement
            /\ FreshUnlessShareable /\ OnlyResolvedInstances
    BY DEF SharingIsSound
  <1> QED
    BY <1>1, OneInstance, ScopeConfinement, Freshness, ResolvedInstances, PTL

\* A scope that has settled on an instance keeps it.
THEOREM Settlement == Spec => SettledForever
  <1>1. IInv /\ [Next]_vars
        => [\A q \in Request :
                Settled(q) /\ Shareable(q.binding)
                => Settled(q)' /\ GetInstance(q)' = GetInstance(q)]_vars
    BY SettledStep
  <1> QED
    BY <1>1, Invariance, PTL DEF Spec, SettledForever
===============================================================================
