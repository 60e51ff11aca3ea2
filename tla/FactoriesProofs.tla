--------------------------- MODULE FactoriesProofs ---------------------------
(***************************************************************************)
(* What the run of Factories checks for three calls, proved for any number *)
(* of calls, modules, components, providers, injectors and events.         *)
(***************************************************************************)
EXTENDS Factories, TLAPS

\* What a call knows of itself, by how far it is.
StagesInv ==
    \A c \in Call :
        /\ pc[c] = "idle" => request[c] = Nil /\ factory[c] = Nil /\ result[c] = Nil
        /\ pc[c] # "idle" => request[c] \in Request
        /\ pc[c] = "component" =>
              /\ request[c] \in Resolving \union Creating
              /\ request[c].product \in Component /\ IsComponentInModule(request[c])
              /\ factory[c] = Nil
        /\ pc[c] \in {"create", "instance"} =>
              request[c] \in Creating /\ factory[c] # Nil
        /\ pc[c] = "lazy" => request[c] \in Getting /\ factory[c] = Nil
        /\ factory[c] # Nil => request[c] \in Resolving \union Creating
        /\ result[c] # Nil =>
              /\ pc[c] = "done"
              /\ request[c] \in Creating \union Getting
              /\ request[c] \in Creating => factory[c] # Nil

\* A call that has made a factory has it, and made it for a module that has its
\* component.
MakersInv ==
    \A f \in Call : factory[f] = f => FactoryOf(f, request[f])

\* What a resolver has recorded was made for it.
RecordsInv ==
    \A m \in Module, p \in Product :
        LET f == records[m][p]
        IN  f # Nil => factory[f] = f /\ request[f].module = m /\ request[f].product = p

\* What a call was handed was made, by itself or another, for the same record.
HandedInv ==
    \A c \in Call :
        LET f == factory[c]
        IN  f # Nil => factory[f] = f /\ SameRecord(request[f], request[c])

\* A factory that was made is recorded, or another one is in its place; that of a
\* provider stays.
FilledInv ==
    \A f \in Call : factory[f] = f =>
        /\ records[request[f].module][request[f].product] # Nil
        /\ request[f].product \in Provider =>
              records[request[f].module][request[f].product] = f

\* What a call found to be over when it began is over.
EarlierInv == \A c \in Call : \A d \in earlier[c] : pc[d] \in Ended

\* A call that found no factory: it makes one, has made it or was refused.
Unfound(c) ==
    \/ pc[c] = "component"
    \/ factory[c] = c
    \/ pc[c] = "failed" /\ factory[c] = Nil /\ request[c].op # "get"

\* Such a call began when nobody who was done had been handed one.
HistoryInv ==
    \A c \in Call : Unfound(c) =>
        \A d \in earlier[c] : factory[d] # Nil => ~SameRecord(request[d], request[c])

FactoriesInv ==
    /\ StagesInv
    /\ MakersInv
    /\ RecordsInv
    /\ HandedInv
    /\ FilledInv
    /\ EarlierInv
    /\ HistoryInv

------------------------------------------------------------------------------

\* An instance that is kept was made for its factory and key.
KeptInv ==
    \A f \in Call, k \in Key :
        LET i == instances[f][k]
        IN  i # Nil => /\ result[i] = i /\ factory[i] = f
                       /\ request[i] \in Creating
                       /\ LookupKey(request[i]) = k
                       /\ ~IsTransient(request[i].product)

\* So was the instance in a lazy wrapper.
LazyInv ==
    \A l \in Lazy :
        LET i == lazy[l]
        IN  i # Nil => result[i] = i /\ request[i] = [op |-> "get", lazy |-> l]

\* Whose instance a call was handed has it too.
ResultsInv == \A c \in Call : result[c] # Nil => result[result[c]] = result[c]

\* Where an instance was handed out, one is kept for ever.
KeepsInv ==
    \A c \in Call : result[c] # Nil =>
        IF request[c] \in Getting
          THEN lazy[request[c].lazy] # Nil
          ELSE ~IsTransient(request[c].product) =>
                  instances[factory[c]][LookupKey(request[c])] # Nil

\* A call that found no instance: it makes one or has made it.
Missing(c) ==
    \/ request[c] \in Getting /\ (pc[c] = "lazy" \/ result[c] = c)
    \/ request[c] \in Creating /\ (pc[c] = "instance" \/ result[c] = c)

\* Two calls that look for an instance at the same place.
SamePlace(c, d) ==
    \/ request[c] \in Getting /\ request[d] = request[c]
    \/ factory[d] = factory[c] /\ SameScope(request[d], request[c])

\* A call that found none began when nobody who was done had been handed one.
InstanceHistoryInv ==
    \A c \in Call : Missing(c) =>
        \A d \in earlier[c] : result[d] # Nil => ~SamePlace(c, d)

InstancesInv ==
    /\ KeptInv
    /\ LazyInv
    /\ ResultsInv
    /\ InstancesStayInScope
    /\ KeepsInv
    /\ InstanceHistoryInv

IInv == TypeOK /\ FactoriesInv /\ InstancesInv

------------------------------------------------------------------------------

\* Which fields a request has is decided by its operation.
LEMMA RequestTypes ==
  /\ \A q \in Resolving \union Creating :
        /\ q.op # "get" /\ q.module \in Module /\ q.product \in Product
        /\ q.given \in Module \union {Nil}
  /\ \A q \in Creating :
        /\ q.op = "create" /\ q.given = Nil
        /\ q.inj \in Injector \union {Own} /\ q.ctx \in Context \union {Nil}
  /\ \A q \in Resolving : q.op = "resolve"
  /\ \A q \in Getting : q.op = "get" /\ q.lazy \in Lazy
  /\ \A q \in Request : q # Nil
  /\ Nil \notin Call /\ Nil \notin Module
  BY NilAssumption DEF Resolving, Creating, Getting, Request

\* A resolver looks into a module, and a creation under a key.
LEMMA LookupTypes ==
  \A q \in Resolving \union Creating :
      /\ LookupModule(q) \in Module
      /\ q \in Creating => LookupKey(q) \in Key
  BY RequestTypes DEF LookupModule, LookupKey, Key

\* In the beginning no call has done anything.
LEMMA IInvInit == Init => IInv
  <1> SUFFICES ASSUME Init PROVE IInv
    OBVIOUS
  <1>1. TypeOK
    BY DEF Init, TypeOK
  <1>2. FactoriesInv
    BY RequestTypes
       DEF Init, FactoriesInv, StagesInv, MakersInv, RecordsInv, HandedInv,
           FilledInv, EarlierInv, HistoryInv, Unfound
  <1>3. InstancesInv
    BY RequestTypes
       DEF Init, InstancesInv, KeptInv, LazyInv, ResultsInv, InstancesStayInScope,
           KeepsInv, InstanceHistoryInv, Missing
  <1> QED
    BY <1>1, <1>2, <1>3 DEF IInv

------------------------------------------------------------------------------
(* What lasts, whatever the step *)

\* A call keeps what it was asked for, a factory and an instance once it has them,
\* and everything once it is over; a record once it is made is never empty again.
Lasting ==
    /\ \A d \in Call : pc[d] # "idle" =>
          pc'[d] # "idle" /\ request'[d] = request[d] /\ earlier'[d] = earlier[d]
    /\ \A d \in Call : earlier'[d] # earlier[d] =>
          earlier'[d] = {e \in Call : pc[e] \in Ended}
    /\ \A d \in Call : pc[d] \in Ended =>
          pc'[d] = pc[d] /\ factory'[d] = factory[d] /\ result'[d] = result[d]
    /\ \A d \in Call : factory[d] # Nil =>
          factory'[d] = factory[d] /\ home'[d] = home[d]
    /\ \A d \in Call : result[d] # Nil => result'[d] = result[d]
    /\ \A m \in Module, p \in Product : records[m][p] # Nil =>
          /\ records'[m][p] # Nil
          /\ p \in Provider => records'[m][p] = records[m][p]
    /\ \A f \in Call, k \in Key : instances[f][k] # Nil => instances'[f][k] # Nil
    /\ \A l \in Lazy : lazy[l] # Nil => lazy'[l] # Nil

\* What a call asks for is a request.
LEMMA Asked ==
  /\ \A q \in Resolving \union Creating : q \in Request
  /\ \A l \in Lazy : [op |-> "get", lazy |-> l] \in Getting \intersect Request
  <1>1. \A q \in Resolving \union Creating : q \in Request
    BY DEF Request
  <1>2. ASSUME NEW l \in Lazy PROVE [op |-> "get", lazy |-> l] \in Getting
    BY DEF Getting
  <1> QED
    BY <1>1, <1>2 DEF Request

\* Every step keeps the types, and what lasts.
LEMMA StepTypes == IInv /\ [Next]_vars => TypeOK' /\ Lasting
  <1> SUFFICES ASSUME IInv, [Next]_vars PROVE TypeOK' /\ Lasting
    OBVIOUS
  <1>0. TypeOK /\ StagesInv
    BY DEF IInv, FactoriesInv
  <1>1. ASSUME NEW c \in Call, NEW q \in Resolving \union Creating, Hit(c, q)
        PROVE  TypeOK' /\ Lasting
    <2>1. TypeOK'
      BY <1>0, <1>1, RequestTypes, Asked
         DEF TypeOK, StagesInv, Hit, Ask, Handed, Recorded, Ended
    <2>2. Lasting
      BY <1>0, <1>1, RequestTypes, Asked
         DEF TypeOK, StagesInv, Lasting, Hit, Ask, Handed, Recorded, Ended
    <2> QED
      BY <2>1, <2>2
  <1>2. ASSUME NEW c \in Call, NEW q \in Resolving \union Creating, Miss(c, q)
        PROVE  TypeOK' /\ Lasting
    <2>1. TypeOK'
      BY <1>0, <1>2, RequestTypes, Asked
         DEF TypeOK, StagesInv, Miss, Ask, Ended
    <2>2. Lasting
      BY <1>0, <1>2, RequestTypes, Asked
         DEF TypeOK, StagesInv, Lasting, Miss, Ask, Ended
    <2> QED
      BY <2>1, <2>2
  <1>3. ASSUME NEW c \in Call, NEW q \in Resolving \union Creating, Refuse(c, q)
        PROVE  TypeOK' /\ Lasting
    <2>1. TypeOK'
      BY <1>0, <1>3, RequestTypes, Asked
         DEF TypeOK, StagesInv, Refuse, Ask, Ended
    <2>2. Lasting
      BY <1>0, <1>3, RequestTypes, Asked
         DEF TypeOK, StagesInv, Lasting, Refuse, Ask, Ended
    <2> QED
      BY <2>1, <2>2
  <1>4. ASSUME NEW c \in Call, NEW q \in Resolving \union Creating,
               MakeProviderFactory(c, q)
        PROVE  TypeOK' /\ Lasting
    <2>1. TypeOK'
      BY <1>0, <1>4, RequestTypes, Asked
         DEF TypeOK, StagesInv, MakeProviderFactory, NewFactory, AddFactory, Handed,
             Recorded, Ask, Ended
    <2>2. Lasting
      BY <1>0, <1>4, RequestTypes, Asked
         DEF TypeOK, StagesInv, Lasting, MakeProviderFactory, NewFactory, AddFactory,
             Handed, Recorded, Ask, Ended
    <2> QED
      BY <2>1, <2>2
  <1>5. ASSUME NEW c \in Call, ComponentFound(c)
        PROVE  TypeOK' /\ Lasting
    <2>1. TypeOK'
      BY <1>0, <1>5, RequestTypes, LookupTypes, ProductAssumption
         DEF TypeOK, StagesInv, ComponentFound, NewFactory, AddFactory, Handed, Ended
    <2>2. Lasting
      BY <1>0, <1>5, RequestTypes, LookupTypes, ProductAssumption
         DEF TypeOK, StagesInv, Lasting, ComponentFound, NewFactory, AddFactory,
             Handed, Ended
    <2> QED
      BY <2>1, <2>2
  <1>6. ASSUME NEW c \in Call, CreateHit(c)
        PROVE  TypeOK' /\ Lasting
    <2>1. TypeOK'
      BY <1>0, <1>6, RequestTypes, LookupTypes
         DEF TypeOK, StagesInv, CreateHit, GetInstance, Ended
    <2>2. Lasting
      BY <1>0, <1>6, RequestTypes, LookupTypes
         DEF TypeOK, StagesInv, Lasting, CreateHit, GetInstance, Ended
    <2> QED
      BY <2>1, <2>2
  <1>7. ASSUME NEW c \in Call, CreateMiss(c)
        PROVE  TypeOK' /\ Lasting
    <2>1. TypeOK'
      BY <1>0, <1>7
         DEF TypeOK, StagesInv, CreateMiss, Ended
    <2>2. Lasting
      BY <1>0, <1>7
         DEF TypeOK, StagesInv, Lasting, CreateMiss, Ended
    <2> QED
      BY <2>1, <2>2
  <1>8. ASSUME NEW c \in Call, Created(c)
        PROVE  TypeOK' /\ Lasting
    <2> DEFINE q == request[c]
               k == LookupKey(request[c])
    <2>0. instances \in [Call -> [Key -> Call \union {Nil}]]
      BY <1>0 DEF TypeOK
    <2>1. factory[c] \in Call /\ k \in Key /\ pc[c] = "instance"
      BY <1>0, <1>8, LookupTypes DEF TypeOK, StagesInv, Created
    <2>2. instances' \in {instances, [instances EXCEPT ![factory[c]][k] = c]}
      BY <1>8 DEF Created
    <2> HIDE DEF k
    <2>3. /\ instances' \in [Call -> [Key -> Call \union {Nil}]]
          /\ \A f \in Call, j \in Key : instances[f][j] # Nil => instances'[f][j] # Nil
      <3>1. CASE instances' = instances
        BY <2>0, <3>1
      <3>2. CASE instances' = [instances EXCEPT ![factory[c]][k] = c]
        <4>1. ASSUME NEW f \in Call
              PROVE  instances'[f] = IF f = factory[c] THEN [instances[f] EXCEPT ![k] = c]
                                                       ELSE instances[f]
          BY <2>0, <3>2
        <4>2. ASSUME NEW f \in Call
              PROVE  /\ instances'[f] \in [Key -> Call \union {Nil}]
                     /\ \A j \in Key : instances[f][j] # Nil => instances'[f][j] # Nil
          <5> DEFINE g == [instances[f] EXCEPT ![k] = c]
          <5>1. /\ g \in [Key -> Call \union {Nil}]
                /\ \A j \in Key : g[j] = IF j = k THEN c ELSE instances[f][j]
            BY <2>0
          <5>2. c # Nil
            BY RequestTypes
          <5> HIDE DEF g
          <5>3. instances'[f] \in {g, instances[f]}
            BY <4>1 DEF g
          <5> QED
            BY <2>0, <5>1, <5>2, <5>3
        <4>3. instances' = [f \in Call |-> instances'[f]]
          BY <2>0, <3>2
        <4> QED
          BY <4>2, <4>3
      <3> QED
        BY <2>2, <3>1, <3>2
    <2>4. TypeOK'
      BY <1>0, <1>8, <2>1, <2>3 DEF TypeOK, Created, Ended
    <2>5. Lasting
      BY <1>0, <1>8, <2>1, <2>3 DEF TypeOK, StagesInv, Lasting, Created, Ended
    <2> QED
      BY <2>4, <2>5
  <1>9. ASSUME NEW c \in Call, CreateFail(c)
        PROVE  TypeOK' /\ Lasting
    <2>1. TypeOK'
      BY <1>0, <1>9
         DEF TypeOK, StagesInv, CreateFail, Ended
    <2>2. Lasting
      BY <1>0, <1>9
         DEF TypeOK, StagesInv, Lasting, CreateFail, Ended
    <2> QED
      BY <2>1, <2>2
  <1>10. ASSUME NEW c \in Call, NEW l \in Lazy, LazyHit(c, l)
        PROVE  TypeOK' /\ Lasting
    <2>1. TypeOK'
      BY <1>0, <1>10, RequestTypes, Asked
         DEF TypeOK, StagesInv, LazyHit, Ask, Ended
    <2>2. Lasting
      BY <1>0, <1>10, RequestTypes, Asked
         DEF TypeOK, StagesInv, Lasting, LazyHit, Ask, Ended
    <2> QED
      BY <2>1, <2>2
  <1>11. ASSUME NEW c \in Call, NEW l \in Lazy, LazyMiss(c, l)
        PROVE  TypeOK' /\ Lasting
    <2>1. TypeOK'
      BY <1>0, <1>11, RequestTypes, Asked
         DEF TypeOK, StagesInv, LazyMiss, Ask, Ended
    <2>2. Lasting
      BY <1>0, <1>11, RequestTypes, Asked
         DEF TypeOK, StagesInv, Lasting, LazyMiss, Ask, Ended
    <2> QED
      BY <2>1, <2>2
  <1>12. ASSUME NEW c \in Call, LazyReturn(c)
        PROVE  TypeOK' /\ Lasting
    <2>1. TypeOK'
      BY <1>0, <1>12, RequestTypes
         DEF TypeOK, StagesInv, LazyReturn, Ended
    <2>2. Lasting
      BY <1>0, <1>12, RequestTypes
         DEF TypeOK, StagesInv, Lasting, LazyReturn, Ended
    <2> QED
      BY <2>1, <2>2
  <1>13. ASSUME NEW c \in Call, LazyFail(c)
        PROVE  TypeOK' /\ Lasting
    <2>1. TypeOK'
      BY <1>0, <1>13
         DEF TypeOK, StagesInv, LazyFail, Ended
    <2>2. Lasting
      BY <1>0, <1>13
         DEF TypeOK, StagesInv, Lasting, LazyFail, Ended
    <2> QED
      BY <2>1, <2>2
  <1>14. CASE UNCHANGED vars
    BY <1>0, <1>14 DEF TypeOK, StagesInv, Lasting, vars
  <1> QED
    BY <1>1, <1>2, <1>3, <1>4, <1>5, <1>6, <1>7, <1>8, <1>9, <1>10, <1>11, <1>12,
       <1>13, <1>14
       DEF Next

\* Every call stays in one of its stages.
LEMMA StepStages == IInv /\ [Next]_vars => StagesInv'
  <1> SUFFICES ASSUME IInv, [Next]_vars PROVE StagesInv'
    OBVIOUS
  <1>0. IInv /\ FactoriesInv /\ InstancesInv /\ TypeOK /\ TypeOK' /\ Lasting
    BY StepTypes DEF IInv
  <1>1. ASSUME NEW c \in Call, NEW q \in Resolving \union Creating, Hit(c, q)
        PROVE  StagesInv'
    BY <1>0, <1>1, RequestTypes, Asked
       DEF TypeOK, FactoriesInv, StagesInv, Ended, Hit, Ask, Handed
  <1>2. ASSUME NEW c \in Call, NEW q \in Resolving \union Creating, Miss(c, q)
        PROVE  StagesInv'
    BY <1>0, <1>2, RequestTypes, Asked
       DEF TypeOK, FactoriesInv, StagesInv, Ended, Miss, Ask
  <1>3. ASSUME NEW c \in Call, NEW q \in Resolving \union Creating, Refuse(c, q)
        PROVE  StagesInv'
    BY <1>0, <1>3, RequestTypes, Asked
       DEF TypeOK, FactoriesInv, StagesInv, Ended, Refuse, Ask
  <1>4. ASSUME NEW c \in Call, NEW q \in Resolving \union Creating,
               MakeProviderFactory(c, q)
        PROVE  StagesInv'
    BY <1>0, <1>4, RequestTypes, Asked
       DEF TypeOK, FactoriesInv, StagesInv, Ended, MakeProviderFactory, NewFactory,
           Handed, Ask
  <1>5. ASSUME NEW c \in Call, ComponentFound(c) PROVE StagesInv'
    BY <1>0, <1>5, RequestTypes
       DEF TypeOK, FactoriesInv, StagesInv, Ended, ComponentFound, NewFactory, Handed
  <1>6. ASSUME NEW c \in Call, CreateHit(c) PROVE StagesInv'
    BY <1>0, <1>6, RequestTypes DEF TypeOK, FactoriesInv, StagesInv, Ended, CreateHit
  <1>7. ASSUME NEW c \in Call, CreateMiss(c) PROVE StagesInv'
    BY <1>0, <1>7, RequestTypes DEF TypeOK, FactoriesInv, StagesInv, Ended, CreateMiss
  <1>8. ASSUME NEW c \in Call, Created(c) PROVE StagesInv'
    BY <1>0, <1>8, RequestTypes DEF TypeOK, FactoriesInv, StagesInv, Ended, Created
  <1>9. ASSUME NEW c \in Call, CreateFail(c) PROVE StagesInv'
    BY <1>0, <1>9, RequestTypes DEF TypeOK, FactoriesInv, StagesInv, Ended, CreateFail
  <1>10. ASSUME NEW c \in Call, NEW l \in Lazy, LazyHit(c, l) PROVE StagesInv'
    BY <1>0, <1>10, RequestTypes, Asked
       DEF TypeOK, FactoriesInv, StagesInv, Ended, LazyHit, Ask
  <1>11. ASSUME NEW c \in Call, NEW l \in Lazy, LazyMiss(c, l) PROVE StagesInv'
    BY <1>0, <1>11, RequestTypes, Asked
       DEF TypeOK, FactoriesInv, StagesInv, Ended, LazyMiss, Ask
  <1>12. ASSUME NEW c \in Call, LazyReturn(c) PROVE StagesInv'
    <2>1. /\ pc[c] = "lazy" /\ pc' = [pc EXCEPT ![c] = "done"]
          /\ result' = [result EXCEPT ![c] = c] /\ request' = request /\ factory' = factory
      BY <1>12 DEF LazyReturn
    <2>2. /\ pc \in [Call -> {"idle", "component", "create", "instance", "lazy"}
                              \union Ended]
          /\ result \in [Call -> Call \union {Nil}]
      BY <1>0 DEF TypeOK
    <2>3. pc'[c] = "done" /\ \A d \in Call \ {c} : pc'[d] = pc[d] /\ result'[d] = result[d]
      BY <2>1, <2>2
    <2>4. StagesInv
      BY <1>0 DEF FactoriesInv
    <2>5. request[c] \in Getting /\ factory[c] = Nil
      BY <2>1, <2>4 DEF StagesInv
    <2> QED
      BY <2>1, <2>3, <2>4, <2>5, RequestTypes DEF StagesInv
  <1>13. ASSUME NEW c \in Call, LazyFail(c) PROVE StagesInv'
    BY <1>0, <1>13, RequestTypes DEF TypeOK, FactoriesInv, StagesInv, Ended, LazyFail
  <1>14. CASE UNCHANGED vars
    BY <1>0, <1>14
       DEF FactoriesInv, StagesInv, IsComponentInModule, LookupModule, vars
  <1> QED
    BY <1>1, <1>2, <1>3, <1>4, <1>5, <1>6, <1>7, <1>8, <1>9, <1>10, <1>11, <1>12,
       <1>13, <1>14
       DEF Next

\* Call c is handed the factory that is recorded for q.
Handing(c, q) ==
    /\ factory[c] = Nil /\ pc[c] = "idle" /\ request'[c] = q
    /\ records[q.module][q.product] # Nil
    /\ factory' = [factory EXCEPT ![c] = records[q.module][q.product]]
    /\ UNCHANGED <<records, home>>

\* Call c makes and records a factory for q that creates with module m.
Making(c, q, m) ==
    /\ factory[c] = Nil /\ request'[c] = q
    /\ factory' = [factory EXCEPT ![c] = c]
    /\ records' = [records EXCEPT ![q.module][q.product] = c]
    /\ home' = [home EXCEPT ![c] = m]
    /\ \/ q.product \in Provider /\ m = q.module /\ pc[c] = "idle"
          /\ records[q.module][q.product] = Nil
       \/ q.product \in Component /\ m = LookupModule(q)
          /\ q.product \in ComponentsOf[m] /\ pc[c] = "component"

\* A step leaves the factories alone, hands one out or makes one.
LEMMA FactorySteps ==
  IInv /\ [Next]_vars =>
    \/ UNCHANGED <<records, home, factory>>
    \/ \E c \in Call, q \in Resolving \union Creating :
          Handing(c, q) \/ \E m \in Module : Making(c, q, m)
  <1> SUFFICES ASSUME IInv, [Next]_vars,
                      ~UNCHANGED <<records, home, factory>>
               PROVE  \E c \in Call, q \in Resolving \union Creating :
                         Handing(c, q) \/ \E m \in Module : Making(c, q, m)
    OBVIOUS
  <1>0. TypeOK /\ StagesInv
    BY DEF IInv, FactoriesInv
  <1>1. ASSUME NEW c \in Call, NEW q \in Resolving \union Creating, Hit(c, q)
        PROVE  Handing(c, q)
    BY <1>0, <1>1 DEF TypeOK, StagesInv, Hit, Ask, Handed, Recorded, Handing
  <1>2. ASSUME NEW c \in Call, NEW q \in Resolving \union Creating,
               MakeProviderFactory(c, q)
        PROVE  Making(c, q, q.module) /\ q.module \in Module
    BY <1>0, <1>2, RequestTypes
       DEF TypeOK, StagesInv, MakeProviderFactory, NewFactory, AddFactory, Handed,
           Ask, Recorded, Making
  <1>3. ASSUME NEW c \in Call, ComponentFound(c)
        PROVE  \E q \in Resolving \union Creating, m \in Module : Making(c, q, m)
    <2> DEFINE q == request[c]
    <2>1. /\ q \in Resolving \union Creating
          /\ LookupModule(q) \in Module
      BY <1>0, <1>3, LookupTypes DEF StagesInv, ComponentFound
    <2>2. Making(c, q, LookupModule(q))
      BY <1>0, <1>3, <2>1
         DEF StagesInv, ComponentFound, NewFactory, AddFactory, Handed, Making,
             IsComponentInModule
    <2> QED
      BY <2>1, <2>2
  <1>4. ASSUME NEW c \in Call,
               NEW q \in Resolving \union Creating,
               Miss(c, q) \/ Refuse(c, q)
        PROVE  FALSE
    BY <1>4 DEF Miss, Refuse
  <1>5. ASSUME NEW c \in Call,
               \/ CreateHit(c) \/ CreateMiss(c) \/ Created(c) \/ CreateFail(c)
               \/ \E l \in Lazy : LazyHit(c, l) \/ LazyMiss(c, l)
               \/ LazyReturn(c) \/ LazyFail(c)
        PROVE  FALSE
    BY <1>5
       DEF CreateHit, CreateMiss, Created, CreateFail, LazyHit, LazyMiss, LazyReturn,
           LazyFail
  <1> QED
    BY <1>1, <1>2, <1>3, <1>4, <1>5 DEF Next, vars

\* What the resolvers have recorded, and the calls were handed, was made for them.
LEMMA StepFactories ==
  IInv /\ [Next]_vars => (MakersInv /\ RecordsInv /\ HandedInv /\ FilledInv)'
  <1> SUFFICES ASSUME IInv, [Next]_vars
               PROVE  (MakersInv /\ RecordsInv /\ HandedInv /\ FilledInv)'
    OBVIOUS
  <1>0. /\ TypeOK /\ StagesInv /\ MakersInv /\ RecordsInv /\ HandedInv /\ FilledInv
        /\ TypeOK' /\ StagesInv' /\ Lasting
    BY StepTypes, StepStages DEF IInv, FactoriesInv
  <1>a. \A d \in Call : factory[d] # Nil => pc[d] # "idle" /\ request'[d] = request[d]
    BY <1>0 DEF StagesInv, Lasting, TypeOK
  <1>b. \A d \in Call : factory'[d] # Nil => request'[d] \in Resolving \union Creating
    BY <1>0 DEF StagesInv
  <1>1. CASE UNCHANGED <<records, home, factory>>
    <2>1. MakersInv'
      BY <1>0, <1>1, <1>a, RequestTypes DEF MakersInv, FactoryOf, SameRecord, TypeOK
    <2>2. RecordsInv'
      BY <1>0, <1>1, <1>a, RequestTypes DEF RecordsInv, TypeOK
    <2>3. HandedInv'
      BY <1>0, <1>1, <1>a, RequestTypes DEF HandedInv, SameRecord, TypeOK
    <2>4. FilledInv'
      BY <1>0, <1>1, <1>a, RequestTypes DEF FilledInv, TypeOK
    <2> QED
      BY <2>1, <2>2, <2>3, <2>4
  <1>2. ASSUME NEW c \in Call, NEW q \in Resolving \union Creating, Handing(c, q)
        PROVE  (MakersInv /\ RecordsInv /\ HandedInv /\ FilledInv)'
    <2> DEFINE f == records[q.module][q.product]
    <2>0. /\ factory[c] = Nil /\ f \in Call /\ f # Nil /\ factory[f] = f /\ f # c
          /\ request[f].module = q.module /\ request[f].product = q.product
          /\ request'[f] = request[f]
          /\ \A d \in Call : factory'[d] = IF d = c THEN f ELSE factory[d]
          /\ request'[c] = q
          /\ UNCHANGED <<records, home>>
      BY <1>0, <1>2, <1>a, RequestTypes DEF Handing, RecordsInv, TypeOK
    <2> HIDE DEF f
    <2>1. ASSUME NEW d \in Call, factory'[d] # Nil, d # c
          PROVE  /\ factory[d] = factory'[d] /\ request'[d] = request[d]
                 /\ request'[d].module \in Module /\ request'[d].product \in Product
                 /\ request'[d].op # "get"
      BY <2>0, <2>1, <1>a, <1>b, RequestTypes
    <2>5. MakersInv'
      BY <1>0, <2>0, <2>1, RequestTypes DEF MakersInv, FactoryOf, SameRecord
    <2>2. RecordsInv'
      BY <1>0, <2>0, <1>a, RequestTypes DEF RecordsInv, TypeOK
    <2>3. HandedInv'
      <3>1. SameRecord(request'[f], request'[c])
        BY <2>0, RequestTypes, <2>1 DEF SameRecord
      <3>2. ASSUME NEW d \in Call, factory'[d] # Nil, d # c
            PROVE  /\ factory'[factory'[d]] = factory'[d]
                   /\ SameRecord(request'[factory'[d]], request'[d])
        <4>1. factory[d] \in Call /\ factory[factory[d]] = factory[d]
              /\ SameRecord(request[factory[d]], request[d])
          BY <1>0, <2>1, <3>2 DEF HandedInv, TypeOK
        <4> QED
          BY <2>0, <2>1, <3>2, <4>1, <1>a
      <3> QED
        BY <2>0, <3>1, <3>2 DEF HandedInv
    <2>4. FilledInv'
      BY <1>0, <2>0, <2>1, RequestTypes DEF FilledInv
    <2> QED
      BY <2>2, <2>3, <2>4, <2>5
  <1>3. ASSUME NEW c \in Call, NEW q \in Resolving \union Creating, NEW m \in Module,
               Making(c, q, m)
        PROVE  (MakersInv /\ RecordsInv /\ HandedInv /\ FilledInv)'
    <2>0. /\ c # Nil /\ factory[c] = Nil /\ request'[c] = q
          /\ \A d \in Call : /\ factory'[d] = IF d = c THEN c ELSE factory[d]
                             /\ home'[d] = IF d = c THEN m ELSE home[d]
          /\ \A n \in Module, p \in Product :
                records'[n][p] =
                   IF n = q.module /\ p = q.product THEN c ELSE records[n][p]
          /\ q.module \in Module /\ q.product \in Product /\ q.op # "get"
      BY <1>0, <1>3, RequestTypes DEF Making, TypeOK
    <2>1. MakersInv'
      <3>1. FactoryOf(c, q)'
        BY <1>3, <2>0, RequestTypes, ProductAssumption
           DEF Making, FactoryOf, SameRecord, LookupModule
      <3> QED
        BY <1>0, <2>0, <3>1, <1>a, RequestTypes DEF MakersInv, FactoryOf, SameRecord
    <2>2. RecordsInv'
      <3>1. ASSUME NEW n \in Module, NEW p \in Product, records'[n][p] # Nil
            PROVE  LET f == records'[n][p]
                   IN  /\ factory'[f] = f
                       /\ request'[f].module = n /\ request'[f].product = p
        <4>1. CASE n = q.module /\ p = q.product
          BY <2>0, <4>1
        <4>2. CASE ~(n = q.module /\ p = q.product)
          BY <1>0, <2>0, <3>1, <4>2, <1>a, RequestTypes DEF RecordsInv, TypeOK
        <4> QED
          BY <4>1, <4>2
      <3> QED
        BY <3>1 DEF RecordsInv
    <2>3. HandedInv'
      BY <1>0, <2>0, <1>a, <1>b, RequestTypes DEF HandedInv, SameRecord, TypeOK
    <2>4. FilledInv'
      <3>1. q.product \in Provider => records[q.module][q.product] = Nil
        BY <1>3, ProductAssumption DEF Making
      <3>2. ASSUME NEW d \in Call, factory[d] = d, d # c
            PROVE  /\ request[d].module \in Module /\ request[d].product \in Product
                   /\ request'[d] = request[d]
        BY <1>0, <3>2, <1>a, RequestTypes DEF StagesInv
      <3> QED
        BY <1>0, <2>0, <3>1, <3>2, <1>a, RequestTypes DEF FilledInv
    <2> QED
      BY <2>1, <2>2, <2>3, <2>4
  <1> QED
    BY FactorySteps, <1>1, <1>2, <1>3

\* What was over stays over.
LEMMA StepEarlier == IInv /\ [Next]_vars => EarlierInv'
  <1> SUFFICES ASSUME IInv, [Next]_vars, NEW c \in Call, NEW d \in earlier'[c]
               PROVE  pc'[d] \in Ended
    BY DEF EarlierInv
  <1>1. d \in Call
    BY StepTypes DEF TypeOK
  <1>2. pc[d] \in Ended
    BY StepTypes DEF IInv, FactoriesInv, EarlierInv, Lasting
  <1> QED
    BY StepTypes, <1>1, <1>2 DEF Lasting

\* A call finds no factory when it begins, or not at all.
LEMMA UnfoundSteps ==
  ASSUME IInv, [Next]_vars, NEW c \in Call, Unfound(c)'
  PROVE  \/ pc[c] # "idle" /\ Unfound(c)
         \/ /\ request'[c] \in Resolving \union Creating
            /\ Recorded(request'[c]) = Nil
  <1>0. TypeOK /\ StagesInv /\ RecordsInv /\ Lasting
    BY StepTypes DEF IInv, FactoriesInv
  <1>1. ASSUME NEW b \in Call, NEW q \in Resolving \union Creating, Hit(b, q)
        PROVE  pc[c] # "idle" /\ Unfound(c)
    <2>1. CASE b = c
      BY <1>0, <1>1, <2>1, RequestTypes
         DEF TypeOK, StagesInv, RecordsInv, Unfound, Hit, Ask, Handed, Recorded
    <2>2. CASE b # c
      BY <1>0, <1>1, <2>2, RequestTypes
         DEF TypeOK, StagesInv, Unfound, Hit, Ask, Handed
    <2> QED
      BY <2>1, <2>2
  <1>2. ASSUME NEW b \in Call, NEW q \in Resolving \union Creating,
               Miss(b, q) \/ Refuse(b, q)
        PROVE  \/ pc[c] # "idle" /\ Unfound(c)
               \/ request'[c] = q /\ Recorded(q) = Nil
    BY <1>0, <1>2, RequestTypes DEF TypeOK, StagesInv, Unfound, Miss, Refuse, Ask
  <1>3. ASSUME NEW b \in Call, NEW q \in Resolving \union Creating,
               MakeProviderFactory(b, q)
        PROVE  \/ pc[c] # "idle" /\ Unfound(c)
               \/ request'[c] = q /\ Recorded(q) = Nil
    BY <1>0, <1>3, RequestTypes
       DEF TypeOK, StagesInv, Unfound, MakeProviderFactory, NewFactory, Handed, Ask
  <1>4. ASSUME NEW b \in Call, ComponentFound(b)
        PROVE  pc[c] # "idle" /\ Unfound(c)
    BY <1>0, <1>4, RequestTypes
       DEF TypeOK, StagesInv, Unfound, ComponentFound, NewFactory, Handed
  <1>5. ASSUME NEW b \in Call, CreateHit(b) \/ CreateMiss(b) \/ Created(b)
        PROVE  pc[c] # "idle" /\ Unfound(c)
    BY <1>0, <1>5, RequestTypes
       DEF TypeOK, StagesInv, Unfound, CreateHit, CreateMiss, Created
  <1>6. ASSUME NEW b \in Call, CreateFail(b) \/ LazyFail(b) \/ LazyReturn(b)
        PROVE  pc[c] # "idle" /\ Unfound(c)
    BY <1>0, <1>6, RequestTypes
       DEF TypeOK, StagesInv, Unfound, CreateFail, LazyFail, LazyReturn
  <1>7. ASSUME NEW b \in Call, NEW l \in Lazy, LazyHit(b, l) \/ LazyMiss(b, l)
        PROVE  pc[c] # "idle" /\ Unfound(c)
    BY <1>0, <1>7, RequestTypes DEF TypeOK, StagesInv, Unfound, LazyHit, LazyMiss, Ask
  <1>8. CASE UNCHANGED vars
    BY <1>0, <1>8, RequestTypes DEF TypeOK, StagesInv, Unfound, vars
  <1> QED
    BY <1>1, <1>2, <1>3, <1>4, <1>5, <1>6, <1>7, <1>8 DEF Next

\* A call that finds no factory finds that nobody before it was handed one: the
\* record of a factory that was handed out is never empty.
LEMMA StepHistory == IInv /\ [Next]_vars => HistoryInv'
  <1> SUFFICES ASSUME IInv, [Next]_vars, NEW c \in Call, Unfound(c)',
                      NEW d \in earlier'[c], factory'[d] # Nil
               PROVE  ~SameRecord(request'[d], request'[c])
    BY DEF HistoryInv
  <1>0. /\ TypeOK /\ StagesInv /\ HandedInv /\ FilledInv /\ EarlierInv /\ HistoryInv
        /\ TypeOK' /\ Lasting
    BY StepTypes DEF IInv, FactoriesInv
  <1>1. d \in Call /\ pc[d] \in Ended
    BY <1>0 DEF EarlierInv, Lasting, TypeOK
  <1>2. factory[d] = factory'[d] /\ request[d] = request'[d]
    BY <1>0, <1>1 DEF Lasting, Ended
  <1>3. CASE pc[c] # "idle" /\ Unfound(c)
    BY <1>0, <1>2, <1>3 DEF HistoryInv, Lasting
  <1>4. CASE /\ request'[c] \in Resolving \union Creating
             /\ Recorded(request'[c]) = Nil
    <2> DEFINE f == factory[d]
    <2>1. /\ f \in Call /\ f # Nil /\ factory[f] = f
          /\ SameRecord(request[f], request[d])
      BY <1>0, <1>1, <1>2 DEF HandedInv, TypeOK
    <2>2. records[request[f].module][request[f].product] # Nil
      BY <1>0, <2>1 DEF FilledInv
    <2> QED
      BY <1>2, <1>4, <2>1, <2>2 DEF SameRecord, Recorded
  <1> QED
    BY <1>3, <1>4, UnfoundSteps

\* Every step keeps the factories in order.
LEMMA StepFactoriesInv == IInv /\ [Next]_vars => FactoriesInv'
  BY StepStages, StepFactories, StepEarlier, StepHistory DEF FactoriesInv

------------------------------------------------------------------------------
(* Instances *)

\* Call c is handed the instance i that is kept, or in a lazy wrapper.
Finding(c, i) ==
    /\ result[c] = Nil /\ i # Nil
    /\ result' = [result EXCEPT ![c] = i]
    /\ \/ /\ request[c] \in Creating /\ i = GetInstance(c) /\ pc[c] = "create"
          /\ request' = request
       \/ /\ \E l \in Lazy : request'[c] = [op |-> "get", lazy |-> l] /\ i = lazy[l]
          /\ pc[c] = "idle"
    /\ UNCHANGED <<instances, lazy>>

\* A step leaves the instances alone, hands one out or makes one.
LEMMA InstanceSteps ==
  IInv /\ [Next]_vars =>
    \/ UNCHANGED <<instances, lazy, result>>
    \/ \E c \in Call :
          (\E i \in Call : Finding(c, i)) \/ Created(c) \/ LazyReturn(c)
  <1> SUFFICES ASSUME IInv, [Next]_vars,
                      ~UNCHANGED <<instances, lazy, result>>
               PROVE  \E c \in Call :
                         (\E i \in Call : Finding(c, i)) \/ Created(c) \/ LazyReturn(c)
    OBVIOUS
  <1>0. TypeOK /\ StagesInv
    BY DEF IInv, FactoriesInv
  <1>1. ASSUME NEW c \in Call, CreateHit(c) PROVE \E i \in Call : Finding(c, i)
    <2>1. request[c] \in Creating /\ factory[c] \in Call /\ result[c] = Nil
      BY <1>0, <1>1 DEF TypeOK, StagesInv, CreateHit
    <2>2. GetInstance(c) \in Call
      BY <1>0, <1>1, <2>1, LookupTypes DEF TypeOK, CreateHit, GetInstance
    <2> QED
      BY <1>1, <2>1, <2>2 DEF CreateHit, Finding
  <1>2. ASSUME NEW c \in Call, NEW l \in Lazy, LazyHit(c, l)
        PROVE  \E i \in Call : Finding(c, i)
    <2>1. lazy[l] \in Call /\ result[c] = Nil
      BY <1>0, <1>2 DEF TypeOK, StagesInv, LazyHit, Ask
    <2>2. request'[c] = [op |-> "get", lazy |-> l]
      BY <1>0, <1>2 DEF TypeOK, LazyHit, Ask
    <2> QED
      BY <1>2, <2>1, <2>2 DEF LazyHit, Ask, Finding
  <1>3. ASSUME NEW c \in Call,
               NEW q \in Resolving \union Creating,
               Hit(c, q) \/ Miss(c, q) \/ Refuse(c, q) \/ MakeProviderFactory(c, q)
        PROVE  FALSE
    BY <1>3 DEF Hit, Miss, Refuse, MakeProviderFactory
  <1>4. ASSUME NEW c \in Call,
               \/ ComponentFound(c) \/ CreateMiss(c) \/ CreateFail(c) \/ LazyFail(c)
               \/ \E l \in Lazy : LazyMiss(c, l)
        PROVE  FALSE
    BY <1>4 DEF ComponentFound, CreateMiss, CreateFail, LazyFail, LazyMiss
  <1> QED
    BY <1>1, <1>2, <1>3, <1>4 DEF Next, vars

\* What was kept, and whose it is.
LEMMA StepInstances ==
  IInv /\ [Next]_vars =>
    (KeptInv /\ LazyInv /\ ResultsInv /\ InstancesStayInScope /\ KeepsInv)'
  <1> DEFINE Inv == KeptInv /\ LazyInv /\ ResultsInv /\ InstancesStayInScope /\ KeepsInv
  <1> SUFFICES ASSUME IInv, [Next]_vars
               PROVE  Inv'
    OBVIOUS
  <1>0. /\ TypeOK /\ StagesInv /\ HandedInv
        /\ KeptInv /\ LazyInv /\ ResultsInv /\ InstancesStayInScope /\ KeepsInv
        /\ TypeOK' /\ StagesInv' /\ Lasting
    BY StepTypes, StepStages DEF IInv, FactoriesInv, InstancesInv
  <1>a. ASSUME NEW d \in Call, result[d] # Nil
        PROVE  /\ pc[d] # "idle" /\ result'[d] = result[d] /\ request'[d] = request[d]
               /\ request[d] \in Creating \union Getting
               /\ request[d] \in Creating => factory[d] # Nil
               /\ factory'[d] = factory[d]
    BY <1>0, <1>a DEF StagesInv, Lasting, Ended
  <1>1. CASE UNCHANGED <<instances, lazy, result>>
    <2>1. KeptInv'
      BY <1>0, <1>1, <1>a, RequestTypes
         DEF KeptInv, LookupKey, IsScoped, IsTransient, TypeOK
    <2>2. LazyInv'
      BY <1>0, <1>1, <1>a, RequestTypes DEF LazyInv, TypeOK
    <2>3. ResultsInv'
      BY <1>0, <1>1 DEF ResultsInv
    <2>4. InstancesStayInScope'
      <3>1. ASSUME NEW c \in Call, result[c] \notin {Nil, c}
            PROVE  result[c] \in Call /\ result[result[c]] # Nil
        BY <1>0, <3>1 DEF ResultsInv, TypeOK
      <3> QED
        BY <1>0, <1>1, <1>a, <3>1
           DEF InstancesStayInScope, SameScope, SameRecord, IsScoped, IsTransient
    <2>5. KeepsInv'
      BY <1>0, <1>1, <1>a DEF KeepsInv, LookupKey, IsScoped, IsTransient
    <2> QED
      BY <2>1, <2>2, <2>3, <2>4, <2>5
  <1>2. ASSUME NEW c \in Call, NEW i \in Call, Finding(c, i)
        PROVE  Inv'
    <2>1. /\ result[c] = Nil /\ i # Nil
          /\ \A d \in Call : result'[d] = IF d = c THEN i ELSE result[d]
          /\ UNCHANGED <<instances, lazy>>
      BY <1>0, <1>2 DEF Finding, TypeOK
    <2>2. /\ result[i] = i /\ i # c
          /\ \/ /\ request'[c] \in Getting /\ lazy[request'[c].lazy] = i
                /\ request[i] = request'[c]
             \/ /\ request'[c] \in Creating /\ request[i] \in Creating
                /\ instances[factory[c]][LookupKey(request'[c])] = i
                /\ factory[c] \in Call \ {Nil} /\ factory'[c] = factory[c]
                /\ factory[i] = factory[c]
                /\ LookupKey(request[i]) = LookupKey(request'[c])
                /\ ~IsTransient(request[i].product)
      <3>1. CASE /\ request[c] \in Creating /\ i = GetInstance(c) /\ pc[c] = "create"
                 /\ request' = request
        <4>1. /\ factory[c] \in Call \ {Nil} /\ factory'[c] = factory[c]
              /\ LookupKey(request[c]) \in Key
          BY <1>0, <3>1, LookupTypes, RequestTypes DEF StagesInv, TypeOK, Lasting
        <4> QED
          BY <1>0, <2>1, <3>1, <4>1 DEF KeptInv, GetInstance
      <3>2. ASSUME NEW l \in Lazy,
                   request'[c] = [op |-> "get", lazy |-> l], i = lazy[l]
            PROVE  /\ request'[c] \in Getting /\ lazy[request'[c].lazy] = i
                   /\ request[i] = request'[c] /\ result[i] = i
        BY <1>0, <2>1, <3>2, Asked DEF LazyInv
      <3> QED
        BY <1>2, <2>1, <3>1, <3>2 DEF Finding
    <2>3. KeptInv'
      BY <1>0, <2>1, <1>a, RequestTypes
         DEF KeptInv, LookupKey, IsScoped, IsTransient, TypeOK
    <2>4. LazyInv'
      BY <1>0, <2>1, <1>a, RequestTypes DEF LazyInv, TypeOK
    <2>5. ResultsInv'
      <3>1. result'[i] = i /\ result[i] = i
        BY <2>1, <2>2
      <3>2. ASSUME NEW d \in Call, d # c, result[d] # Nil
            PROVE  result'[result'[d]] = result'[d]
        <4>1. result[d] \in Call /\ result[result[d]] = result[d]
          BY <1>0, <3>2 DEF ResultsInv, TypeOK
        <4>2. result[d] # c
          BY <2>1, <3>2, <4>1
        <4> QED
          BY <2>1, <3>2, <4>1, <4>2
      <3> QED
        BY <2>1, <2>2, <3>1, <3>2 DEF ResultsInv
    <2>6. InstancesStayInScope'
      <3>1. ASSUME NEW d \in Call, d # c, result[d] \notin {Nil, d}
            PROVE  result[d] \in Call /\ result[result[d]] # Nil
        BY <1>0, <3>1 DEF ResultsInv, TypeOK
      <3>2. ASSUME NEW d \in Call, d # c, result'[d] \notin {Nil, d}
            PROVE  LET j == result'[d]
                   IN  IF request'[d].op = "get"
                         THEN request'[j] = request'[d]
                         ELSE factory'[j] = factory'[d]
                              /\ SameScope(request'[j], request'[d])
        BY <1>0, <2>1, <1>a, <3>1, <3>2 DEF InstancesStayInScope
      <3>3. CASE request'[c] \in Getting /\ request[i] = request'[c]
        BY <2>1, <2>2, <1>a, <3>2, <3>3, RequestTypes DEF InstancesStayInScope
      <3>4. CASE /\ request'[c] \in Creating /\ request[i] \in Creating
                 /\ factory[c] \in Call \ {Nil} /\ factory'[c] = factory[c]
                 /\ factory[i] = factory[c]
                 /\ LookupKey(request[i]) = LookupKey(request'[c])
                 /\ ~IsTransient(request[i].product)
        <4>1. factory'[i] = factory'[c] /\ request'[i] = request[i]
          BY <2>1, <2>2, <1>a, <3>4
        <4>2. SameRecord(request'[i], request'[c])
          <5>1. HandedInv'
            BY StepFactories
          <5>2. factory'[c] \in Call \ {Nil} /\ factory'[i] = factory'[c]
            BY <3>4, <4>1
          <5> QED
            BY <5>1, <5>2 DEF HandedInv, SameRecord
        <4>3. SameScope(request'[i], request'[c])
          BY <3>4, <4>1, <4>2, RequestTypes
             DEF SameScope, SameRecord, LookupKey, IsScoped, IsTransient
        <4> QED
          BY <2>1, <3>2, <4>1, <4>3, <3>4, RequestTypes DEF InstancesStayInScope
      <3> QED
        BY <2>2, <3>3, <3>4
    <2>7. KeepsInv'
      <3>1. ASSUME NEW d \in Call, d # c, result'[d] # Nil
            PROVE  IF request'[d] \in Getting
                     THEN lazy'[request'[d].lazy] # Nil
                     ELSE ~IsTransient(request'[d].product) =>
                             instances'[factory'[d]][LookupKey(request'[d])] # Nil
        BY <1>0, <2>1, <1>a, <3>1 DEF KeepsInv
      <3>2. IF request'[c] \in Getting
              THEN lazy'[request'[c].lazy] # Nil
              ELSE ~IsTransient(request'[c].product) =>
                      instances'[factory'[c]][LookupKey(request'[c])] # Nil
        BY <2>1, <2>2, RequestTypes
      <3> QED
        BY <3>1, <3>2 DEF KeepsInv, LookupKey, IsScoped, IsTransient
    <2> QED
      BY <2>3, <2>4, <2>5, <2>6, <2>7
  <1>3. ASSUME NEW c \in Call, Created(c)
        PROVE  Inv'
    <2> DEFINE k == LookupKey(request[c])
    <2>1. /\ result[c] = Nil /\ c # Nil /\ factory[c] \in Call \ {Nil}
          /\ request[c] \in Creating /\ request'[c] = request[c]
          /\ factory' = factory /\ request' = request /\ lazy' = lazy
          /\ k \in Key
          /\ \A d \in Call : result'[d] = IF d = c THEN c ELSE result[d]
      BY <1>0, <1>3, RequestTypes, LookupTypes DEF Created, TypeOK, StagesInv
    <2>2. ASSUME NEW f \in Call, NEW j \in Key
          PROVE  instances'[f][j] =
                    IF f = factory[c] /\ j = k /\ ~IsTransient(request[c].product)
                      THEN c ELSE instances[f][j]
      <3>1. CASE IsTransient(request[c].product)
        BY <1>3, <3>1 DEF Created
      <3>2. CASE ~IsTransient(request[c].product)
        <4>1. instances' = [instances EXCEPT ![factory[c]][k] = c]
          BY <1>3, <3>2 DEF Created
        <4> HIDE DEF k
        <4> QED
          BY <1>0, <2>1, <3>2, <4>1 DEF TypeOK
      <3> QED
        BY <3>1, <3>2
    <2>3. KeptInv'
      <3>1. ASSUME NEW f \in Call, NEW j \in Key, instances[f][j] # Nil
            PROVE  LET i == instances[f][j]
                   IN  /\ result'[i] = i /\ factory'[i] = f
                       /\ request'[i] \in Creating
                       /\ LookupKey(request'[i]) = j
                       /\ ~IsTransient(request'[i].product)
        BY <1>0, <2>1, <3>1 DEF KeptInv, TypeOK
      <3> QED
        BY <2>1, <2>2, <3>1 DEF KeptInv, LookupKey, IsScoped, IsTransient
    <2>4. LazyInv'
      BY <1>0, <2>1, <1>a, RequestTypes DEF LazyInv, TypeOK
    <2>5. ResultsInv'
      BY <1>0, <2>1, <1>a DEF ResultsInv, TypeOK
    <2>6. InstancesStayInScope'
      <3>1. ASSUME NEW d \in Call, result'[d] \notin {Nil, d}
            PROVE  d # c /\ result'[d] = result[d]
        BY <2>1, <3>1
      <3> QED
        BY <1>0, <2>1, <3>1
           DEF InstancesStayInScope, SameScope, SameRecord, IsScoped, IsTransient
    <2>7. KeepsInv'
      <3>1. ASSUME NEW d \in Call, d # c, result'[d] # Nil
            PROVE  IF request'[d] \in Getting
                     THEN lazy'[request'[d].lazy] # Nil
                     ELSE ~IsTransient(request'[d].product) =>
                             instances'[factory'[d]][LookupKey(request'[d])] # Nil
        <4>1. CASE request[d] \in Getting
          BY <1>0, <2>1, <3>1, <4>1 DEF KeepsInv
        <4>2. CASE request[d] \in Creating
          <5>1. factory[d] \in Call /\ LookupKey(request[d]) \in Key
            BY <1>0, <2>1, <3>1, <4>2, <1>a, LookupTypes DEF TypeOK
          <5>2. ~IsTransient(request[d].product) =>
                   instances[factory[d]][LookupKey(request[d])] # Nil
            BY <1>0, <2>1, <3>1, <4>2, RequestTypes DEF KeepsInv
          <5> QED
            BY <2>1, <2>2, <4>2, <5>1, <5>2, RequestTypes
        <4> QED
          BY <2>1, <3>1, <4>1, <4>2, <1>a
      <3>2. ~IsTransient(request'[c].product) =>
               instances'[factory'[c]][LookupKey(request'[c])] # Nil
        BY <2>1, <2>2
      <3> QED
        BY <2>1, <3>1, <3>2, RequestTypes
           DEF KeepsInv, LookupKey, IsScoped, IsTransient
    <2> QED
      BY <2>3, <2>4, <2>5, <2>6, <2>7
  <1>4. ASSUME NEW c \in Call, LazyReturn(c)
        PROVE  Inv'
    <2>1. /\ result[c] = Nil /\ c # Nil
          /\ request[c] \in Getting /\ request[c].lazy \in Lazy
          /\ factory' = factory /\ request' = request /\ instances' = instances
          /\ \A l \in Lazy : lazy'[l] = IF l = request[c].lazy THEN c ELSE lazy[l]
          /\ \A d \in Call : result'[d] = IF d = c THEN c ELSE result[d]
      BY <1>0, <1>4, RequestTypes DEF LazyReturn, TypeOK, StagesInv
    <2>2. KeptInv'
      BY <1>0, <2>1, <1>a DEF KeptInv, LookupKey, IsScoped, IsTransient, TypeOK
    <2>3. LazyInv'
      <3>1. request[c] = [op |-> "get", lazy |-> request[c].lazy]
        BY <2>1 DEF Getting
      <3> QED
        <4>1. ASSUME NEW l \in Lazy, l # request[c].lazy, lazy[l] # Nil
              PROVE  LET i == lazy[l]
                     IN  /\ lazy'[l] = i /\ result'[i] = i
                         /\ request'[i] = [op |-> "get", lazy |-> l]
          BY <1>0, <2>1, <4>1 DEF LazyInv, TypeOK
        <4> QED
          BY <2>1, <3>1, <4>1 DEF LazyInv
    <2>4. ResultsInv'
      BY <1>0, <2>1 DEF ResultsInv, TypeOK
    <2>5. InstancesStayInScope'
      <3>1. ASSUME NEW d \in Call, result'[d] \notin {Nil, d}
            PROVE  d # c /\ result'[d] = result[d]
        BY <2>1, <3>1
      <3> QED
        BY <1>0, <2>1, <3>1
           DEF InstancesStayInScope, SameScope, SameRecord, IsScoped, IsTransient
    <2>6. KeepsInv'
      <3>1. ASSUME NEW d \in Call, result'[d] # Nil, request[d] \in Getting
            PROVE  lazy'[request[d].lazy] # Nil
        BY <1>0, <2>1, <3>1, RequestTypes DEF KeepsInv
      <3>2. ASSUME NEW d \in Call, result'[d] # Nil, request[d] \notin Getting
            PROVE  ~IsTransient(request[d].product) =>
                      instances[factory[d]][LookupKey(request[d])] # Nil
        BY <1>0, <2>1, <3>2 DEF KeepsInv
      <3> QED
        BY <2>1, <3>1, <3>2 DEF KeepsInv, LookupKey, IsScoped, IsTransient
    <2> QED
      BY <2>2, <2>3, <2>4, <2>5, <2>6
  <1> QED
    BY InstanceSteps, <1>1, <1>2, <1>3, <1>4

\* A call finds no instance when it begins to look for it, or not at all.
LEMMA MissingSteps ==
  ASSUME IInv, [Next]_vars, NEW c \in Call, Missing(c)'
  PROVE  \/ Missing(c)
         \/ /\ request'[c] \in Getting
            /\ lazy[request'[c].lazy] = Nil
         \/ /\ request'[c] \in Creating /\ factory[c] \in Call
            /\ instances[factory[c]][LookupKey(request'[c])] = Nil
  <1> DEFINE Goal ==
         \/ Missing(c)
         \/ /\ request'[c] \in Getting
            /\ lazy[request'[c].lazy] = Nil
         \/ /\ request'[c] \in Creating /\ factory[c] \in Call
            /\ instances[factory[c]][LookupKey(request'[c])] = Nil
  <1> SUFFICES Goal
    OBVIOUS
  <1>0. TypeOK /\ StagesInv /\ KeptInv /\ LazyInv
    BY DEF IInv, FactoriesInv, InstancesInv
  <1>1. ASSUME NEW b \in Call, NEW q \in Resolving \union Creating, Hit(b, q)
        PROVE  Goal
    BY <1>0, <1>1, RequestTypes DEF TypeOK, StagesInv, Missing, Hit, Ask, Handed
  <1>2. ASSUME NEW b \in Call, NEW q \in Resolving \union Creating,
               Miss(b, q) \/ Refuse(b, q)
        PROVE  Goal
    BY <1>0, <1>2, RequestTypes DEF TypeOK, StagesInv, Missing, Miss, Refuse, Ask
  <1>3. ASSUME NEW b \in Call, NEW q \in Resolving \union Creating,
               MakeProviderFactory(b, q)
        PROVE  Goal
    BY <1>0, <1>3, RequestTypes
       DEF TypeOK, StagesInv, Missing, MakeProviderFactory, NewFactory, Handed, Ask
  <1>4. ASSUME NEW b \in Call, ComponentFound(b)
        PROVE  Goal
    BY <1>0, <1>4, RequestTypes
       DEF TypeOK, StagesInv, Missing, ComponentFound, NewFactory, Handed
  <1>5. ASSUME NEW b \in Call, CreateHit(b)
        PROVE  Goal
    <2> DEFINE i == GetInstance(b)
    <2>1. /\ request[b] \in Creating /\ factory[b] \in Call
          /\ LookupKey(request[b]) \in Key
      BY <1>0, <1>5, LookupTypes DEF TypeOK, StagesInv, CreateHit
    <2>2. result[i] = i /\ i # b /\ i \in Call \ {Nil}
      BY <1>0, <1>5, <2>1 DEF TypeOK, StagesInv, KeptInv, CreateHit, GetInstance
    <2> HIDE DEF i
    <2>3. /\ \A d \in Call : result'[d] = IF d = b THEN i ELSE result[d]
          /\ \A d \in Call : pc'[d] = IF d = b THEN "done" ELSE pc[d]
          /\ request' = request
      BY <1>0, <1>5 DEF TypeOK, CreateHit, i
    <2> QED
      BY <2>2, <2>3 DEF Missing
  <1>6. ASSUME NEW b \in Call, CreateMiss(b)
        PROVE  Goal
    BY <1>0, <1>6, RequestTypes
       DEF TypeOK, StagesInv, Missing, CreateMiss, GetInstance
  <1>7. ASSUME NEW b \in Call, Created(b) \/ CreateFail(b)
        PROVE  Goal
    BY <1>0, <1>7, RequestTypes DEF TypeOK, StagesInv, Missing, Created, CreateFail
  <1>8. ASSUME NEW b \in Call, NEW l \in Lazy, LazyHit(b, l)
        PROVE  Goal
    <2>1. lazy[l] # b
      BY <1>0, <1>8 DEF TypeOK, StagesInv, LazyInv, LazyHit, Ask
    <2> QED
      BY <1>0, <1>8, <2>1 DEF TypeOK, StagesInv, Missing, LazyHit, Ask
  <1>9. ASSUME NEW b \in Call, NEW l \in Lazy, LazyMiss(b, l)
        PROVE  Goal
    BY <1>0, <1>9, Asked, RequestTypes DEF TypeOK, StagesInv, Missing, LazyMiss, Ask
  <1>10. ASSUME NEW b \in Call, LazyReturn(b) \/ LazyFail(b)
         PROVE  Goal
    BY <1>0, <1>10, RequestTypes DEF TypeOK, StagesInv, Missing, LazyReturn, LazyFail
  <1>11. CASE UNCHANGED vars
    BY <1>11 DEF Missing, vars
  <1> QED
    BY <1>1, <1>2, <1>3, <1>4, <1>5, <1>6, <1>7, <1>8, <1>9, <1>10, <1>11 DEF Next

\* A call that finds no instance finds that nobody before it was handed one.
LEMMA StepInstanceHistory == IInv /\ [Next]_vars => InstanceHistoryInv'
  <1> SUFFICES ASSUME IInv, [Next]_vars, NEW c \in Call, Missing(c)',
                      NEW d \in earlier'[c], result'[d] # Nil, SamePlace(c, d)'
               PROVE  FALSE
    BY DEF InstanceHistoryInv
  <1>0. /\ TypeOK /\ StagesInv /\ EarlierInv /\ KeepsInv /\ InstanceHistoryInv
        /\ TypeOK' /\ Lasting
    BY StepTypes DEF IInv, FactoriesInv, InstancesInv
  <1>1. d \in Call /\ pc[d] \in Ended
    BY <1>0 DEF EarlierInv, Lasting, TypeOK
  <1>2. /\ result[d] = result'[d] /\ factory'[d] = factory[d]
        /\ request'[d] = request[d]
        /\ request[d] \in Creating \union Getting
    BY <1>0, <1>1 DEF Lasting, Ended, StagesInv
  <1>3. CASE Missing(c)
    <2>1. pc[c] # "idle" /\ request'[c] = request[c] /\ earlier'[c] = earlier[c]
      BY <1>0, <1>3, RequestTypes DEF Missing, StagesInv, Lasting, Request
    <2>2. request[c] \in Creating => factory'[c] = factory[c]
      BY <1>0, <1>3, RequestTypes DEF Missing, StagesInv, Lasting
    <2>3. SamePlace(c, d)
      <3>1. CASE request[c] \in Getting
        BY <1>2, <2>1, <3>1, RequestTypes DEF SamePlace, SameScope, SameRecord
      <3>2. CASE request[c] \in Creating
        BY <1>2, <2>1, <2>2, <3>2, RequestTypes
           DEF SamePlace, SameScope, SameRecord, IsScoped, IsTransient
      <3> QED
        BY <1>3, <3>1, <3>2 DEF Missing
    <2> QED
      BY <1>0, <1>2, <1>3, <2>1, <2>3 DEF InstanceHistoryInv
  <1>4. CASE request'[c] \in Getting /\ lazy[request'[c].lazy] = Nil
    <2>1. request[d] = request'[c]
      BY <1>2, <1>4, RequestTypes DEF SamePlace, SameScope, SameRecord
    <2> QED
      BY <1>0, <1>1, <1>2, <1>4, <2>1 DEF KeepsInv
  <1>5. CASE /\ request'[c] \in Creating /\ factory[c] \in Call
             /\ instances[factory[c]][LookupKey(request'[c])] = Nil
    <2>1. factory[d] = factory'[c] /\ SameScope(request[d], request'[c])
      BY <1>2, <1>5, RequestTypes
         DEF SamePlace, SameScope, SameRecord, IsScoped, IsTransient
    <2>2. factory'[c] = factory[c]
      BY <1>0, <1>5, RequestTypes DEF Lasting
    <2>3. request[d] \in Creating /\ LookupKey(request[d]) = LookupKey(request'[c])
      BY <1>2, <2>1, RequestTypes DEF SameScope, SameRecord, LookupKey, IsScoped
    <2>4. ~IsTransient(request[d].product)
      BY <2>1 DEF SameScope
    <2> QED
      BY <1>0, <1>1, <1>2, <1>5, <2>1, <2>2, <2>3, <2>4, RequestTypes DEF KeepsInv
  <1> QED
    BY <1>3, <1>4, <1>5, MissingSteps

\* Every step keeps the instances in order.
LEMMA StepInstancesInv == IInv /\ [Next]_vars => InstancesInv'
  BY StepInstances, StepInstanceHistory DEF InstancesInv

------------------------------------------------------------------------------
(* Theorems *)

\* The inductive invariant: how the records, the factories, the instances and the
\* history of calls of `resolve`, `create` and `ɵLazy.get` hang together.
THEOREM Invariance == Spec => []IInv
  <1>1. IInv /\ [Next]_vars => IInv'
    BY StepTypes, StepFactoriesInv, StepInstancesInv DEF IInv
  <1> QED
    BY IInvInit, <1>1, PTL DEF Spec

\* Every variable keeps its type.
THEOREM TypeCorrectness == Spec => []TypeOK
  <1>1. IInv => TypeOK
    BY DEF IInv
  <1> QED
    BY Invariance, <1>1, PTL

\* Two calls of one resolver were handed different factories only if those who made
\* them overlapped: neither had ended when the other began.
LEMMA OneFactory == IInv => OneFactoryUnlessOverlapping
  <1> SUFFICES ASSUME IInv, NEW c \in Call, NEW d \in Call,
                      factory[c] # Nil, factory[d] # Nil, factory[c] # factory[d],
                      SameRecord(request[c], request[d])
               PROVE  /\ Overlap(factory[c], factory[d])
                      /\ request[c].product \in Component
    BY DEF OneFactoryUnlessOverlapping
  <1> DEFINE f == factory[c]
             g == factory[d]
  <1>1. /\ f \in Call /\ factory[f] = f /\ f # Nil
        /\ g \in Call /\ factory[g] = g /\ g # Nil
        /\ SameRecord(request[f], request[g])
        /\ SameRecord(request[f], request[c])
    BY DEF IInv, FactoriesInv, HandedInv, TypeOK, SameRecord
  <1> HIDE DEF f, g
  <1>2. f \notin earlier[g] /\ g \notin earlier[f]
    BY <1>1 DEF IInv, FactoriesInv, HistoryInv, Unfound, SameRecord
  <1>3. request[f].product \in Component
    <2>1. request[f].product \in Product
      BY <1>1, RequestTypes DEF IInv, FactoriesInv, StagesInv
    <2>2. request[f].product \notin Provider
      BY <1>1 DEF IInv, FactoriesInv, FilledInv, SameRecord, f, g
    <2> QED
      BY <2>1, <2>2 DEF Product
  <1> QED
    BY <1>1, <1>2, <1>3 DEF Overlap, SameRecord, f, g

\* To be in one scope is symmetric and transitive.
LEMMA SameScopes ==
  /\ \A q, r : SameScope(q, r) => SameScope(r, q) /\ SameScope(q, q) /\ SameScope(r, r)
  /\ \A q, r, s : SameScope(q, r) /\ SameScope(r, s) => SameScope(q, s)
  <1>1. ASSUME NEW q, NEW r, SameScope(q, r)
        PROVE  SameScope(r, q) /\ SameScope(q, q) /\ SameScope(r, r)
    BY <1>1 DEF SameScope, SameRecord
  <1>2. ASSUME NEW q, NEW r, NEW s, SameScope(q, r), SameScope(r, s)
        PROVE  SameScope(q, s)
    BY <1>2 DEF SameScope, SameRecord
  <1> QED
    BY <1>1, <1>2

\* Two calls that look for one instance were handed different ones only if those who
\* made the instances, or the factories, overlapped.
LEMMA OneInstance == IInv => OneInstanceUnlessOverlapping
  <1> SUFFICES ASSUME IInv, NEW c \in Call, NEW d \in Call,
                      result[c] # Nil, result[d] # Nil, result[c] # result[d],
                      request[c].op = request[d].op
               PROVE  IF request[c].op = "get"
                        THEN request[c] = request[d] => Overlap(result[c], result[d])
                        ELSE SameScope(request[c], request[d]) =>
                               \/ Overlap(result[c], result[d])
                               \/ factory[c] # factory[d]
                                  /\ Overlap(factory[c], factory[d])
    BY DEF OneInstanceUnlessOverlapping
  <1> DEFINE i == result[c]
             j == result[d]
  <1>0. /\ TypeOK /\ StagesInv /\ ResultsInv /\ InstancesStayInScope
        /\ InstanceHistoryInv
    BY DEF IInv, FactoriesInv, InstancesInv
  <1>1. /\ i \in Call /\ result[i] = i /\ request[i] \in Creating \union Getting
        /\ j \in Call /\ result[j] = j /\ request[j] \in Creating \union Getting
        /\ request[c] \in Creating \union Getting
        /\ request[d] \in Creating \union Getting
    BY <1>0 DEF ResultsInv, StagesInv, TypeOK
  <1>2. ASSUME SamePlace(i, j), SamePlace(j, i)
        PROVE  Overlap(i, j)
    BY <1>0, <1>1, <1>2 DEF InstanceHistoryInv, Missing, Overlap
  <1>3. ASSUME request[c].op = "get", request[c] = request[d]
        PROVE  Overlap(i, j)
    <2>1. request[i] = request[c] /\ request[j] = request[d]
      BY <1>0, <1>3 DEF InstancesStayInScope
    <2> QED
      BY <1>1, <1>2, <1>3, <2>1, RequestTypes DEF SamePlace
  <1>4. ASSUME request[c].op # "get", SameScope(request[c], request[d]),
               factory[c] = factory[d]
        PROVE  Overlap(i, j)
    <2>1. factory[i] = factory[c] /\ SameScope(request[i], request[c])
      BY <1>0, <1>4, SameScopes DEF InstancesStayInScope
    <2>2. factory[j] = factory[d] /\ SameScope(request[j], request[d])
      <3>1. request[d].op # "get"
        BY <1>4 DEF SameScope
      <3> QED
        BY <1>0, <1>4, <3>1, SameScopes DEF InstancesStayInScope
    <2>3. SameScope(request[i], request[j]) /\ SameScope(request[j], request[i])
      BY <1>4, <2>1, <2>2, SameScopes
    <2> QED
      BY <1>2, <1>4, <2>1, <2>2, <2>3 DEF SamePlace
  <1>5. ASSUME request[c].op # "get", SameScope(request[c], request[d]),
               factory[c] # factory[d]
        PROVE  Overlap(factory[c], factory[d])
    <2>1. factory[c] # Nil /\ factory[d] # Nil
      BY <1>0, <1>1, <1>5, RequestTypes DEF StagesInv
    <2> QED
      BY OneFactory, <1>5, <2>1 DEF OneFactoryUnlessOverlapping, SameScope
  <1> QED
    BY <1>3, <1>4, <1>5

\* A factory creates with a module that has its component, and a component is not
\* refused any more once its resolver has handed out a factory of it.
LEMMA Home == IInv => FactoryHasAHome
  <1> SUFFICES ASSUME IInv, NEW c \in Call
               PROVE  /\ factory[c] # Nil => FactoryOf(factory[c], request[c])
                      /\ pc[c] = "failed" /\ factory[c] = Nil
                         /\ request[c].op # "get" =>
                            \A d \in earlier[c] :
                                factory[d] # Nil => ~SameRecord(request[d], request[c])
    BY DEF FactoryHasAHome
  <1>1. ASSUME factory[c] # Nil PROVE FactoryOf(factory[c], request[c])
    <2>1. /\ factory[c] \in Call /\ factory[factory[c]] = factory[c]
          /\ SameRecord(request[factory[c]], request[c])
      BY <1>1 DEF IInv, FactoriesInv, HandedInv, TypeOK
    <2>2. FactoryOf(factory[c], request[factory[c]])
      BY <2>1 DEF IInv, FactoriesInv, MakersInv
    <2> QED
      BY <2>1, <2>2 DEF FactoryOf, SameRecord
  <1> QED
    BY <1>1 DEF IInv, FactoriesInv, HistoryInv, Unfound

\* Interleaved calls of `resolve`, `create` and `ɵLazy.get`, however many, end with
\* one factory and one instance each unless they overlapped.
THEOREM OneEach == Spec => []OneUnlessOverlapping
  <1>1. IInv => OneUnlessOverlapping
    BY OneFactory, OneInstance DEF OneUnlessOverlapping
  <1> QED
    BY Invariance, <1>1, PTL

\* Factories and instances stay in the module, injector and event they were made
\* for.
THEOREM Scopes == Spec => []ScopesAreKept
  <1>1. IInv => ScopesAreKept
    BY Home DEF ScopesAreKept, IInv, InstancesInv
  <1> QED
    BY Invariance, <1>1, PTL
===============================================================================
