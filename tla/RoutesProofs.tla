----------------------------- MODULE RoutesProofs -----------------------------
(***************************************************************************)
(* What is proved of Routes for any number of calls, routers and methods,  *)
(* whatever they are decorated as: its types, that nothing is undone, and  *)
(* that the way an exploration ends tells what it has bound.               *)
(*                                                                         *)
(* The last rests on three invariants.  A call that has not failed has     *)
(* every method it has come to in one of four places (ProgressInv).  As    *)
(* long as no application command was bound, no call has got past the      *)
(* first route of the application, so that a proxy of the wrong kind can   *)
(* only meet the event that made it (OpeningInv).  And a call that looks   *)
(* for the parents of sub-commands has made the application commands of    *)
(* its routers before (ProgressInv again).                                 *)
(***************************************************************************)
EXTENDS Routes, WellFoundedInduction, SequenceTheorems, TLAPS

------------------------------------------------------------------------------
(* Sequences *)

LEMMA ToSetIs ==
  ASSUME NEW S, NEW s \in Seq(S)
  PROVE  /\ \A i \in 1 .. Len(s) : s[i] \in ToSet(s) /\ s[i] \in S
         /\ \A x \in ToSet(s) : \E i \in 1 .. Len(s) : x = s[i]
  BY DEF ToSet

LEMMA ToSetElements ==
  ASSUME NEW S, NEW s \in Seq(S)
  PROVE  ToSet(s) \subseteq S /\ (s = <<>> <=> ToSet(s) = {})
  BY DEF ToSet

LEMMA ToSetHeadTail ==
  ASSUME NEW S, NEW s \in Seq(S), s # <<>>
  PROVE  /\ Head(s) \in S /\ Tail(s) \in Seq(S)
         /\ ToSet(s) = {Head(s)} \union ToSet(Tail(s))
  <1>1. /\ Head(s) \in S /\ Tail(s) \in Seq(S) /\ Len(Tail(s)) = Len(s) - 1
        /\ \A i \in 1 .. Len(Tail(s)) : Tail(s)[i] = s[i + 1]
        /\ Head(s) = s[1] /\ Len(s) \in Nat /\ Len(s) >= 1
    BY HeadTailProperties, EmptySeq
  <1>2. ASSUME NEW i \in 1 .. Len(s) PROVE s[i] \in {Head(s)} \union ToSet(Tail(s))
    <2>1. CASE i = 1
      BY <1>1, <2>1
    <2>2. CASE i # 1
      <3>1. i - 1 \in 1 .. Len(Tail(s)) /\ Tail(s)[i - 1] = s[i]
        BY <1>1, <2>2
      <3> QED
        BY <1>1, <3>1, ToSetIs
    <2> QED
      BY <2>1, <2>2
  <1>3. ASSUME NEW i \in 1 .. Len(Tail(s)) PROVE Tail(s)[i] \in ToSet(s)
    BY <1>1, ToSetIs
  <1>4. Head(s) \in ToSet(s)
    BY <1>1, ToSetIs
  <1>5. ToSet(s) \subseteq {Head(s)} \union ToSet(Tail(s))
    BY <1>2, ToSetIs
  <1>6. ToSet(Tail(s)) \subseteq ToSet(s)
    BY <1>1, <1>3, ToSetIs
  <1> QED
    BY <1>1, <1>4, <1>5, <1>6

LEMMA ToSetConcat ==
  ASSUME NEW S, NEW s \in Seq(S), NEW t \in Seq(S)
  PROVE  s \o t \in Seq(S) /\ ToSet(s \o t) = ToSet(s) \union ToSet(t)
  <1>1. /\ s \o t \in Seq(S) /\ Len(s \o t) = Len(s) + Len(t)
        /\ \A i \in 1 .. Len(s) + Len(t) :
               (s \o t)[i] = IF i <= Len(s) THEN s[i] ELSE t[i - Len(s)]
        /\ Len(s) \in Nat /\ Len(t) \in Nat
    BY ConcatProperties
  <1>2. ASSUME NEW i \in 1 .. Len(s) + Len(t) PROVE (s \o t)[i] \in ToSet(s) \union ToSet(t)
    <2>1. CASE i <= Len(s)
      BY <1>1, <2>1 DEF ToSet
    <2>2. CASE ~(i <= Len(s))
      <3>1. i - Len(s) \in 1 .. Len(t) /\ (s \o t)[i] = t[i - Len(s)]
        BY <1>1, <2>2
      <3> QED
        BY <3>1, ToSetIs
    <2> QED
      BY <2>1, <2>2
  <1>3. ASSUME NEW i \in 1 .. Len(s) PROVE s[i] \in ToSet(s \o t)
    <2>1. i \in 1 .. Len(s \o t) /\ (s \o t)[i] = s[i]
      BY <1>1
    <2> QED
      BY <2>1, <1>1, ToSetIs
  <1>4. ASSUME NEW i \in 1 .. Len(t) PROVE t[i] \in ToSet(s \o t)
    <2>1. Len(s) + i \in 1 .. Len(s \o t) /\ (s \o t)[Len(s) + i] = t[i]
      BY <1>1
    <2> QED
      BY <2>1, <1>1, ToSetIs
  <1>5. ToSet(s \o t) \subseteq ToSet(s) \union ToSet(t)
    <2>1. \A x \in ToSet(s \o t) : \E i \in 1 .. Len(s \o t) : x = (s \o t)[i]
      BY <1>1, ToSetIs
    <2> QED
      BY <1>1, <1>2, <2>1
  <1>6. ToSet(s) \subseteq ToSet(s \o t) /\ ToSet(t) \subseteq ToSet(s \o t)
    BY <1>3, <1>4, ToSetIs
  <1> QED
    BY <1>1, <1>5, <1>6

\* What NewSubCommandRoute leaves of the sub-commands when it takes the i-th.
LEMMA ToSetRotated ==
  ASSUME NEW S, NEW s \in Seq(S), NEW i \in DOMAIN s
  PROVE  LET t == SubSeq(s, i + 1, Len(s)) \o SubSeq(s, 1, i - 1)
         IN  t \in Seq(S) /\ ToSet(s) \subseteq {s[i]} \union ToSet(t) /\ ToSet(t) \subseteq ToSet(s)
  <1>0. PICK a, b : a = SubSeq(s, i + 1, Len(s)) /\ b = SubSeq(s, 1, i - 1)
    OBVIOUS
  <1>1. i \in 1 .. Len(s) /\ Len(s) \in Nat /\ \A j \in 1 .. Len(s) : s[j] \in S
    OBVIOUS
  <1>2. /\ a \in Seq(ToSet(s)) /\ Len(a) = Len(s) - i
        /\ \A j \in 1 .. Len(s) - i : a[j] = s[i + j]
    <2>1. \A j \in i + 1 .. Len(s) : s[j] \in ToSet(s)
      BY <1>1, ToSetIs
    <2>2. /\ a \in Seq(ToSet(s)) /\ Len(a) = IF i + 1 <= Len(s) THEN Len(s) - (i + 1) + 1 ELSE 0
          /\ \A j \in 1 .. Len(s) - (i + 1) + 1 : a[j] = s[i + 1 + j - 1]
      BY <1>0, <1>1, <2>1, SubSeqProperties
    <2> QED
      BY <1>1, <2>2
  <1>3. /\ b \in Seq(ToSet(s)) /\ Len(b) = i - 1
        /\ \A j \in 1 .. i - 1 : b[j] = s[j]
    <2>1. \A j \in 1 .. i - 1 : s[j] \in ToSet(s)
      BY <1>1, ToSetIs
    <2>2. /\ b \in Seq(ToSet(s)) /\ Len(b) = IF 1 <= i - 1 THEN i - 1 - 1 + 1 ELSE 0
          /\ \A j \in 1 .. i - 1 - 1 + 1 : b[j] = s[1 + j - 1]
      BY <1>0, <1>1, <2>1, SubSeqProperties
    <2> QED
      BY <1>1, <2>2
  <1>4. ToSet(s) \subseteq S
    BY ToSetElements
  <1>5. a \in Seq(S) /\ b \in Seq(S)
    BY <1>2, <1>3, <1>4, SeqMonotonic
  <1>6. a \o b \in Seq(S) /\ ToSet(a \o b) = ToSet(a) \union ToSet(b)
    BY <1>5, ToSetConcat
  <1>7. ToSet(a) \subseteq ToSet(s) /\ ToSet(b) \subseteq ToSet(s)
    BY <1>2, <1>3, ToSetElements
  <1>8. ASSUME NEW j \in 1 .. Len(s) PROVE s[j] \in {s[i]} \union ToSet(a) \union ToSet(b)
    <2>1. CASE j < i
      <3>1. j \in 1 .. Len(b) /\ b[j] = s[j]
        BY <1>1, <1>3, <2>1
      <3> QED
        BY <3>1, <1>5, ToSetIs
    <2>2. CASE j > i
      <3>1. j - i \in 1 .. Len(s) - i /\ i + (j - i) = j
        BY <1>1, <2>2
      <3>2. j - i \in 1 .. Len(a) /\ a[j - i] = s[j]
        BY <1>2, <3>1
      <3> QED
        BY <3>2, <1>5, ToSetIs
    <2> QED
      BY <1>1, <2>1, <2>2
  <1>9. ToSet(s) \subseteq {s[i]} \union ToSet(a \o b)
    BY <1>6, <1>8, ToSetIs
  <1> QED
    BY <1>0, <1>6, <1>7, <1>9

------------------------------------------------------------------------------
(* The methods of a router *)

RouterType == [router : Router, methods : Seq(Method)]

MethodsOf(k) == {m \in Method : KindOf[m] = k}

\* One step of the recursion of OfKind.
StepOf(s, k, f, i) ==
    IF i = 0 THEN <<>>
    ELSE IF KindOf[s[i]] = k THEN Append(f[i - 1], s[i]) ELSE f[i - 1]

LEMMA SmallestNumber ==
  ASSUME NEW S \in SUBSET Nat, S # {}
  PROVE  \E n \in S : \A m \in S : n <= m
  <1> DEFINE Less == {ss \in Nat \X Nat : ss[1] < ss[2]}
  <1>1. IsWellFoundedOn(Less, Nat)
    BY NatLessThanWellFounded DEF OpToRel
  <1> HIDE DEF Less
  <1>2. PICK n \in S : \A m \in S : <<m, n>> \notin Less
    BY <1>1, WFMin
  <1>3. \A m \in S : ~(m < n)
    BY <1>2 DEF Less
  <1> QED
    BY <1>3

\* The recursion has a solution.
LEMMA OfKindExists ==
  ASSUME NEW s \in Seq(Method), NEW k
  PROVE  \E f : f = [i \in 0 .. Len(s) |-> StepOf(s, k, f, i)]
  <1> DEFINE UpTo(m, f) == \A i \in 0 .. m : f[i] = StepOf(s, k, f, i)
             S == {m \in Nat : ~ \E f : UpTo(m, f)}
  <1>1. S = {}
    <2> SUFFICES ASSUME S # {} PROVE FALSE
      OBVIOUS
    <2>1. PICK n \in S : \A m \in S : n <= m
      BY SmallestNumber
    <2>2. n # 0
      <3>1. UpTo(0, [i \in {0} |-> <<>>])
        BY DEF StepOf
      <3> QED
        BY <2>1, <3>1
    <2>3. n - 1 \in Nat /\ n - 1 \notin S
      <3> HIDE DEF S
      <3>1. S \in SUBSET Nat
        BY DEF S
      <3> QED
        BY <2>1, <2>2, <3>1
    <2>4. PICK f : UpTo(n - 1, f)
      BY <2>3
    <2> DEFINE g == [i \in 0 .. n |-> IF i = n THEN StepOf(s, k, f, n) ELSE f[i]]
    <2>5. \A i \in 0 .. n : g[i] = IF i = n THEN StepOf(s, k, f, n) ELSE f[i]
      OBVIOUS
    <2> HIDE DEF g
    <2>6. ASSUME NEW i \in 0 .. n PROVE g[i] = StepOf(s, k, g, i)
      <3>1. g[i] = StepOf(s, k, f, i)
        <4>1. CASE i = n
          BY <2>5, <4>1
        <4>2. CASE i # n
          <5>1. i \in 0 .. n - 1
            BY <2>1, <4>2
          <5> QED
            BY <2>4, <2>5, <4>2, <5>1
        <4> QED
          BY <4>1, <4>2
      <3>2. i # 0 => g[i - 1] = f[i - 1]
        <4>1. i # 0 => i - 1 \in 0 .. n /\ i - 1 # n
          BY <2>1
        <4> QED
          BY <2>5, <4>1
      <3> QED
        BY <3>1, <3>2 DEF StepOf
    <2>7. UpTo(n, g)
      BY <2>6
    <2> HIDE DEF UpTo
    <2> QED
      BY <2>1, <2>7
  <1>2. Len(s) \in Nat
    OBVIOUS
  <1>3. PICK f : UpTo(Len(s), f)
    BY <1>1, <1>2
  <1> DEFINE F == [i \in 0 .. Len(s) |-> f[i]]
  <1>4. ASSUME NEW i \in 0 .. Len(s) PROVE F[i] = StepOf(s, k, F, i)
    <2>1. i # 0 => i - 1 \in 0 .. Len(s)
      BY <1>2
    <2>2. i # 0 => F[i - 1] = f[i - 1]
      BY <2>1
    <2> QED
      BY <1>3, <2>2 DEF StepOf
  <1>5. F = [i \in 0 .. Len(s) |-> F[i]]
    OBVIOUS
  <1> HIDE DEF F
  <1>6. F = [i \in 0 .. Len(s) |-> StepOf(s, k, F, i)]
    BY <1>4, <1>5
  <1> QED
    BY <1>6

\* What OfKind selects is of that kind.
LEMMA OfKindType ==
  ASSUME NEW r \in RouterType, NEW k
  PROVE  OfKind(r, k) \in Seq(MethodsOf(k))
  <1> DEFINE s == r.methods
             P(f) == f = [i \in 0 .. Len(s) |-> StepOf(s, k, f, i)]
             T == CHOOSE f : P(f)
  <1>1. s \in Seq(Method) /\ Len(s) \in Nat
    BY DEF RouterType
  <1>2. OfKind(r, k) = T[Len(s)]
    BY DEF OfKind, StepOf
  <1>3. \E f : P(f)
    BY <1>1, OfKindExists
  <1> HIDE DEF P
  <1>4. P(T)
    BY <1>3
  <1>5. PICK f : f = T
    OBVIOUS
  <1>6. ASSUME NEW i \in 0 .. Len(s)
        PROVE  f[i] = IF i = 0 THEN <<>>
                      ELSE IF KindOf[s[i]] = k THEN Append(f[i - 1], s[i]) ELSE f[i - 1]
    <2>1. f = [j \in 0 .. Len(s) |-> StepOf(s, k, f, j)]
      BY <1>4, <1>5 DEF P
    <2>2. f[i] = StepOf(s, k, f, i)
      BY <2>1
    <2> QED
      BY <2>2 DEF StepOf
  <1> DEFINE S == {i \in 0 .. Len(s) : f[i] \notin Seq(MethodsOf(k))}
  <1> HIDE DEF s, T
  <1>7. S = {}
    <2> SUFFICES ASSUME S # {} PROVE FALSE
      OBVIOUS
    <2>1. PICK n \in S : \A m \in S : n <= m
      <3>1. S \in SUBSET Nat
        BY <1>1
      <3> QED
        BY <3>1, SmallestNumber
    <2>2. n # 0
      <3>1. f[0] = <<>> /\ <<>> \in Seq(MethodsOf(k))
        BY <1>1, <1>6
      <3> QED
        BY <2>1, <3>1
    <2>3. n \in 1 .. Len(s) /\ n - 1 \in 0 .. Len(s) /\ n - 1 \notin S
      BY <1>1, <2>1, <2>2
    <2>4. f[n - 1] \in Seq(MethodsOf(k)) /\ s[n] \in Method
      BY <1>1, <2>3
    <2>5. f[n] = IF KindOf[s[n]] = k THEN Append(f[n - 1], s[n]) ELSE f[n - 1]
      BY <1>6, <2>1, <2>2
    <2>6. CASE KindOf[s[n]] = k
      <3>1. s[n] \in MethodsOf(k)
        BY <2>4, <2>6 DEF MethodsOf
      <3>2. f[n] \in Seq(MethodsOf(k))
        BY <2>4, <2>5, <2>6, <3>1, AppendProperties
      <3> QED
        BY <2>1, <3>2
    <2>7. CASE KindOf[s[n]] # k
      BY <2>1, <2>4, <2>5, <2>7
    <2> QED
      BY <2>6, <2>7
  <1>8. f[Len(s)] \in Seq(MethodsOf(k))
    BY <1>1, <1>7
  <1> QED
    BY <1>2, <1>5, <1>8

LEMMA OfKindElements ==
  ASSUME NEW r \in RouterType, NEW k
  PROVE  /\ OfKind(r, k) \in Seq(Method)
         /\ \A m \in ToSet(OfKind(r, k)) : m \in Method /\ KindOf[m] = k
  <1>1. OfKind(r, k) \in Seq(MethodsOf(k)) /\ MethodsOf(k) \subseteq Method
    BY OfKindType DEF MethodsOf
  <1>2. OfKind(r, k) \in Seq(Method)
    BY <1>1, SeqMonotonic
  <1>3. ToSet(OfKind(r, k)) \subseteq MethodsOf(k)
    BY <1>1, ToSetElements
  <1> QED
    BY <1>2, <1>3 DEF MethodsOf

LEMMA PlannedType ==
  ASSUME NEW r \in RouterType
  PROVE  /\ Planned(r) \in Seq(Method)
         /\ ToSet(Planned(r)) = ToSet(OfKind(r, "command")) \union ToSet(OfKind(r, "application"))
                                  \union ToSet(OfKind(r, "event"))
  <1>0. PICK a, b, d : /\ a = OfKind(r, "command") /\ b = OfKind(r, "application")
                       /\ d = OfKind(r, "event")
    OBVIOUS
  <1>1. a \in Seq(Method) /\ b \in Seq(Method) /\ d \in Seq(Method)
    BY <1>0, OfKindElements
  <1>2. a \o b \in Seq(Method) /\ ToSet(a \o b) = ToSet(a) \union ToSet(b)
    BY <1>1, ToSetConcat
  <1>3. PICK ab \in Seq(Method) : ab = a \o b
    BY <1>2
  <1>4. ab \o d \in Seq(Method) /\ ToSet(ab \o d) = ToSet(ab) \union ToSet(d)
    <2>1. d \in Seq(Method)
      BY <1>1
    <2> QED
      BY <2>1, ToSetConcat
  <1> QED
    BY <1>0, <1>2, <1>3, <1>4 DEF Planned

------------------------------------------------------------------------------
(* The invariants *)

Awaits(c, m) == binding[c] # Nil /\ binding[c][1] = m

\* How the parts of a call fit together.
CallOK(c) ==
    /\ binding[c] # Nil => /\ status[c] = "exploring"
                           /\ KindOf[binding[c][1]] = "sub" => binding[c][2] # Nil
    /\ at[c] > Len(routers) => todo[c] = <<>> /\ subs[c] = <<>>
    /\ status[c] # "idle" => at[c] >= 1
    /\ status[c] = "done" => todo[c] = <<>> /\ subs[c] = <<>>
    /\ status[c] = "spinning" =>
         todo[c] = <<>> /\ \A i \in DOMAIN subs[c] : ParentRef(subs[c][i]) = Nil

TypeInv == TypeOK /\ \A c \in Call : CallOK(c)

\* Where the methods are that a call has come to: bound, awaited or still to be
\* bound; commands and sub-commands are never bound by a call that goes on.
Progress(c) ==
    /\ \A m \in Seen(c, "application") \union Seen(c, "event") :
           <<m, c>> \in handlers \/ m \in ToSet(todo[c]) \/ Awaits(c, m)
    /\ Seen(c, "command") \subseteq ToSet(todo[c])
    /\ \A m \in Seen(c, "sub") : m \in ToSet(subs[c]) \/ Awaits(c, m)
    /\ \A m \in Seen(c, "application") : appRoutes[m] # Nil \/ m \in ToSet(todo[c])

ProgressInv ==
    \A c \in Call : status[c] \in {"exploring", "spinning", "done"} => Progress(c)

\* A router that has nothing to explore.
IsEmpty(r) == Planned(r) = <<>> /\ OfKind(r, "sub") = <<>>

\* The method whose route is the first of the application to be bound.
Opens(m) ==
    \E i \in DOMAIN routers :
        /\ Planned(routers[i]) # <<>> /\ Head(Planned(routers[i])) = m
        /\ \A j \in DOMAIN routers : j < i => IsEmpty(routers[j])

\* A call that has bound nothing yet.
Fresh(c) ==
    /\ \A j \in DOMAIN routers : j < at[c] => IsEmpty(routers[j])
    /\ binding[c] = Nil /\ at[c] \in DOMAIN routers =>
         todo[c] = Planned(routers[at[c]]) /\ subs[c] = OfKind(routers[at[c]], "sub")
    /\ binding[c] # Nil => Opens(binding[c][1])

\* As long as no application command was bound, a proxy was made for the event that
\* opens the application, and no call has bound anything else.
OpeningInv ==
    proxy # "ApplicationCommandProxy" =>
        /\ proxy = "EventProxy" => \E e \in Method : Opens(e) /\ KindOf[e] = "event"
        /\ \A m \in Method : appRoutes[m] # Nil => Opens(m) /\ KindOf[m] = "application"
        /\ \A c \in Call : status[c] = "exploring" => Fresh(c)

RoutesInv == TypeInv /\ ProgressInv /\ OpeningInv /\ KnownRoutesAreHandled

------------------------------------------------------------------------------
(* Types *)

LEMMA RouterIs ==
  ASSUME TypeOK
  PROVE  /\ Len(routers) \in Nat /\ DOMAIN routers = 1 .. Len(routers)
         /\ \A i \in 1 .. Len(routers) : routers[i] \in RouterType
  <1>1. routers \in Seq(RouterType)
    BY DEF TypeOK, RouterType
  <1> QED
    BY <1>1

LEMMA RouteIs ==
  /\ \A m \in Method, c \in Call : <<m, c>> \in Route /\ <<m, c>> # Nil
  /\ \A m \in Method, r \in Route \union {Nil} : <<m, r>> # Nil
  /\ Nil \notin Method
  BY LayoutAssumption DEF Route

\* A call that comes to the i-th router, if there is one.
LEMMA MapRouterEffect ==
  ASSUME NEW c \in Call, NEW i \in 1 .. Len(routers) + 1, TypeOK, MapRouter(c, i)
  PROVE  /\ at'[c] = i /\ \A d \in Call \ {c} : at'[d] = at[d]
         /\ at' \in [Call -> 0 .. Len(routers) + 1]
         /\ todo' \in [Call -> Seq(Method)] /\ \A d \in Call \ {c} : todo'[d] = todo[d]
         /\ subs' \in [Call -> Seq(Method)] /\ \A d \in Call \ {c} : subs'[d] = subs[d]
         /\ i <= Len(routers) => /\ i \in DOMAIN routers /\ routers[i] \in RouterType
                                 /\ todo'[c] = Planned(routers[i])
                                 /\ subs'[c] = OfKind(routers[i], "sub")
         /\ i > Len(routers) => todo'[c] = <<>> /\ subs'[c] = <<>>
  <1>1. i <= Len(routers) => i \in DOMAIN routers /\ routers[i] \in RouterType
    BY RouterIs
  <1>2. PICK t, s : /\ t = IF i <= Len(routers) THEN Planned(routers[i]) ELSE <<>>
                    /\ s = IF i <= Len(routers) THEN OfKind(routers[i], "sub") ELSE <<>>
    OBVIOUS
  <1>3. t \in Seq(Method) /\ s \in Seq(Method)
    BY <1>1, <1>2, PlannedType, OfKindElements, EmptySeq
  <1>4. /\ at' = [at EXCEPT ![c] = i] /\ todo' = [todo EXCEPT ![c] = t]
        /\ subs' = [subs EXCEPT ![c] = s]
    BY <1>2 DEF MapRouter
  <1>5. /\ at \in [Call -> 0 .. Len(routers) + 1] /\ Len(routers) \in Nat
        /\ todo \in [Call -> Seq(Method)] /\ subs \in [Call -> Seq(Method)]
    BY RouterIs DEF TypeOK
  <1>6. at' \in [Call -> 0 .. Len(routers) + 1]
    BY <1>4, <1>5
  <1>7. todo' \in [Call -> Seq(Method)] /\ subs' \in [Call -> Seq(Method)]
    BY <1>3, <1>4, <1>5
  <1> QED
    BY <1>1, <1>2, <1>4, <1>5, <1>6, <1>7

\* When a call goes on to a router: it has done all that it had to do before.
LEMMA NextRouterEffect ==
  ASSUME NEW c \in Call, TypeInv, Explore(c) \/ NextRouter(c)
  PROVE  /\ UNCHANGED <<routers, binding, appRoutes, bound>>
         /\ Explore(c) \/ status[c] = "exploring"
         /\ binding[c] = Nil
         /\ Explore(c) => status[c] = "idle"
         /\ NextRouter(c) => todo[c] = <<>> /\ subs[c] = <<>>
         /\ \A d \in Call \ {c} : /\ status'[d] = status[d] /\ at'[d] = at[d]
                                  /\ todo'[d] = todo[d] /\ subs'[d] = subs[d]
         /\ \/ /\ status'[c] = "done" /\ NextRouter(c) /\ at[c] > Len(routers)
               /\ UNCHANGED <<at, todo, subs>>
            \/ /\ status'[c] = "exploring"
               /\ \E i \in 1 .. Len(routers) + 1 :
                      /\ i = IF Explore(c) THEN 1 ELSE at[c] + 1
                      /\ MapRouter(c, i)
  <1>1. /\ Len(routers) \in Nat /\ at[c] \in 0 .. Len(routers) + 1
        /\ status \in [Call -> {"idle", "exploring", "spinning", "done", "failed"}]
        /\ CallOK(c)
    BY RouterIs DEF TypeInv, TypeOK
  <1>2. CASE Explore(c)
    <2>1. /\ status[c] = "idle" /\ binding[c] = Nil
          /\ UNCHANGED <<routers, binding, appRoutes, bound>>
          /\ status' = [status EXCEPT ![c] = "exploring"] /\ MapRouter(c, 1)
      BY <1>1, <1>2 DEF Explore, CallOK
    <2>2. ~NextRouter(c)
      BY <2>1 DEF NextRouter, Running
    <2>3. 1 \in 1 .. Len(routers) + 1
      BY <1>1
    <2> QED
      BY <1>1, <1>2, <2>1, <2>2, <2>3, MapRouterEffect DEF TypeInv
  <1>3. CASE NextRouter(c)
    <2>1. /\ status[c] = "exploring" /\ binding[c] = Nil /\ todo[c] = <<>> /\ subs[c] = <<>>
          /\ UNCHANGED <<routers, binding, appRoutes, bound>>
      BY <1>3 DEF NextRouter, Running
    <2>2. ~Explore(c)
      BY <2>1 DEF Explore
    <2>3. CASE at[c] > Len(routers)
      <3>1. status' = [status EXCEPT ![c] = "done"] /\ UNCHANGED <<at, todo, subs>>
        BY <1>3, <2>3 DEF NextRouter
      <3> QED
        BY <1>1, <1>3, <2>1, <2>2, <2>3, <3>1
    <2>4. CASE ~(at[c] > Len(routers))
      <3>1. MapRouter(c, at[c] + 1) /\ UNCHANGED status /\ at[c] + 1 \in 1 .. Len(routers) + 1
        BY <1>1, <1>3, <2>4 DEF NextRouter
      <3>2. \A d \in Call \ {c} : /\ at'[d] = at[d] /\ todo'[d] = todo[d]
                                  /\ subs'[d] = subs[d]
        <4>1. PICK i \in 1 .. Len(routers) + 1 : i = at[c] + 1
          BY <3>1
        <4> QED
          BY <3>1, <4>1, MapRouterEffect DEF TypeInv
      <3> QED
        BY <1>3, <2>1, <2>2, <3>1, <3>2
    <2> QED
      BY <2>3, <2>4
  <1> QED
    BY <1>2, <1>3

\* When a call makes a route of its next method that is not a sub-command.
LEMMA NewRouteEffect ==
  ASSUME NEW c \in Call, TypeInv, NewApplicationRoute(c) \/ NewEventRoute(c)
  PROVE  /\ UNCHANGED <<routers, status, at, subs, bound>>
         /\ status[c] = "exploring" /\ binding[c] = Nil /\ at[c] \in DOMAIN routers
         /\ \A d \in Call \ {c} : binding'[d] = binding[d] /\ todo'[d] = todo[d]
         /\ todo[c] # <<>> /\ todo'[c] = Tail(todo[c])
         /\ Head(todo[c]) \in Method /\ Tail(todo[c]) \in Seq(Method)
         /\ ToSet(todo[c]) = {Head(todo[c])} \union ToSet(todo'[c])
         /\ KindOf[Head(todo[c])] \in {"application", "event"}
         /\ binding'[c] = <<Head(todo[c]), Nil>> /\ binding'[c] # Nil
         /\ IF NewApplicationRoute(c)
              THEN /\ KindOf[Head(todo[c])] = "application"
                   /\ appRoutes' = [appRoutes EXCEPT ![Head(todo[c])] = <<Head(todo[c]), c>>]
              ELSE KindOf[Head(todo[c])] = "event" /\ UNCHANGED appRoutes
         /\ TypeOK'
  <1>0. PICK m : m = Head(todo[c])
    OBVIOUS
  <1>1. /\ status[c] = "exploring" /\ binding[c] = Nil /\ todo[c] # <<>>
        /\ KindOf[m] \in {"application", "event"}
        /\ todo' = [todo EXCEPT ![c] = Tail(@)]
        /\ binding' = [binding EXCEPT ![c] = <<m, Nil>>]
        /\ UNCHANGED <<routers, status, at, subs, bound>>
    BY <1>0 DEF NewApplicationRoute, NewEventRoute, Running, MakeApplicationRoute
  <1>2. IF NewApplicationRoute(c)
          THEN KindOf[m] = "application" /\ appRoutes' = [appRoutes EXCEPT ![m] = <<m, c>>]
          ELSE KindOf[m] = "event" /\ UNCHANGED appRoutes
    BY <1>0 DEF NewApplicationRoute, NewEventRoute, MakeApplicationRoute
  <1>3. /\ m \in Method /\ Tail(todo[c]) \in Seq(Method)
        /\ ToSet(todo[c]) = {m} \union ToSet(Tail(todo[c]))
    <2>1. todo[c] \in Seq(Method)
      BY DEF TypeInv, TypeOK
    <2> QED
      BY <1>0, <1>1, <2>1, ToSetHeadTail
  <1>4. at[c] \in DOMAIN routers
    <2>1. /\ CallOK(c) /\ at[c] \in 0 .. Len(routers) + 1 /\ Len(routers) \in Nat
          /\ DOMAIN routers = 1 .. Len(routers)
      BY RouterIs DEF TypeInv, TypeOK
    <2> QED
      BY <1>1, <2>1 DEF CallOK
  <1>5. /\ todo'[c] = Tail(todo[c]) /\ \A d \in Call \ {c} : todo'[d] = todo[d]
        /\ todo' \in [Call -> Seq(Method)]
        /\ binding'[c] = <<m, Nil>> /\ \A d \in Call \ {c} : binding'[d] = binding[d]
        /\ binding' \in [Call -> (Method \X (Route \union {Nil})) \union {Nil}]
    BY <1>1, <1>3 DEF TypeInv, TypeOK
  <1>6. appRoutes' \in [Method -> Route \union {Nil}]
    <2>1. appRoutes \in [Method -> Route \union {Nil}] /\ <<m, c>> \in Route
      BY <1>3, RouteIs DEF TypeInv, TypeOK
    <2> QED
      BY <1>2, <2>1
  <1>7. TypeOK'
    BY <1>1, <1>5, <1>6 DEF TypeInv, TypeOK, bound
  <1>8. <<m, Nil>> # Nil
    BY <1>3, RouteIs
  <1> QED
    BY <1>0, <1>1, <1>2, <1>3, <1>4, <1>5, <1>7, <1>8

\* When it makes one of a sub-command.
LEMMA NewSubEffect ==
  ASSUME NEW c \in Call, TypeInv, NewSubCommandRoute(c)
  PROVE  \E m \in Method :
         /\ UNCHANGED <<routers, status, at, todo, bound>>
         /\ status[c] = "exploring" /\ binding[c] = Nil /\ at[c] \in DOMAIN routers
         /\ todo[c] = <<>>
         /\ \A d \in Call \ {c} : binding'[d] = binding[d] /\ subs'[d] = subs[d]
         /\ m \in ToSet(subs[c])
         /\ subs'[c] \in Seq(Method) /\ ToSet(subs[c]) \subseteq {m} \union ToSet(subs'[c])
         /\ ParentRef(m) # Nil /\ binding'[c] = <<m, ParentRef(m)>> /\ binding'[c] # Nil
         /\ appRoutes' = [appRoutes EXCEPT ![m] = <<m, c>>]
         /\ TypeOK'
  <1>1. /\ status[c] = "exploring" /\ binding[c] = Nil /\ todo[c] = <<>>
        /\ UNCHANGED <<routers, status, at, todo, bound>>
    BY DEF NewSubCommandRoute, Running
  <1>2. PICK i \in DOMAIN subs[c] :
             /\ ParentRef(subs[c][i]) # Nil
             /\ MakeApplicationRoute(c, subs[c][i], ParentRef(subs[c][i]))
             /\ subs' = [subs EXCEPT ![c] = SubSeq(@, i + 1, Len(@)) \o SubSeq(@, 1, i - 1)]
    BY DEF NewSubCommandRoute
  <1>3. PICK s, m, t : /\ s = subs[c] /\ m = s[i]
                       /\ t = SubSeq(s, i + 1, Len(s)) \o SubSeq(s, 1, i - 1)
    OBVIOUS
  <1>4. s \in Seq(Method) /\ i \in 1 .. Len(s) /\ s # <<>>
    <2>1. s \in Seq(Method)
      BY <1>3 DEF TypeInv, TypeOK
    <2>2. i \in 1 .. Len(s)
      BY <1>2, <1>3, <2>1
    <2> QED
      BY <2>1, <2>2, EmptySeq
  <1>5. m \in Method /\ m \in ToSet(s)
    BY <1>3, <1>4, ToSetIs
  <1>6. t \in Seq(Method) /\ ToSet(s) \subseteq {m} \union ToSet(t)
    BY <1>3, <1>4, ToSetRotated
  <1>7. at[c] \in DOMAIN routers
    <2>1. /\ CallOK(c) /\ at[c] \in 0 .. Len(routers) + 1 /\ Len(routers) \in Nat
          /\ DOMAIN routers = 1 .. Len(routers)
      BY RouterIs DEF TypeInv, TypeOK
    <2> QED
      BY <1>1, <1>3, <1>4, <2>1 DEF CallOK
  <1>8. PICK p : p = ParentRef(m)
    OBVIOUS
  <1>9. p \in Route /\ p # Nil
    <2>1. p # Nil /\ Parent[m] \in Method \union {Nil}
      BY <1>2, <1>3, <1>5, <1>8, LayoutAssumption
    <2> QED
      BY <1>8, <2>1 DEF ParentRef, TypeInv, TypeOK
  <1>10. /\ subs' = [subs EXCEPT ![c] = t] /\ appRoutes' = [appRoutes EXCEPT ![m] = <<m, c>>]
         /\ binding' = [binding EXCEPT ![c] = <<m, p>>]
    BY <1>2, <1>3, <1>8 DEF MakeApplicationRoute
  <1>11. /\ subs'[c] = t /\ \A d \in Call \ {c} : subs'[d] = subs[d]
         /\ subs' \in [Call -> Seq(Method)]
         /\ binding'[c] = <<m, p>> /\ \A d \in Call \ {c} : binding'[d] = binding[d]
         /\ binding' \in [Call -> (Method \X (Route \union {Nil})) \union {Nil}]
    BY <1>5, <1>6, <1>9, <1>10 DEF TypeInv, TypeOK
  <1>12. appRoutes' \in [Method -> Route \union {Nil}]
    BY <1>5, <1>10, RouteIs DEF TypeInv, TypeOK
  <1>13. TypeOK'
    BY <1>1, <1>11, <1>12 DEF TypeInv, TypeOK, bound
  <1>14. <<m, p>> # Nil
    BY <1>5, <1>9, RouteIs
  <1> QED
    BY <1>1, <1>3, <1>5, <1>6, <1>7, <1>8, <1>9, <1>10, <1>11, <1>13, <1>14

\* When the route that a call has made is bound.
LEMMA BindEffect ==
  ASSUME NEW c \in Call, TypeInv, Bind(c)
  PROVE  \E m \in Method, p \in {"ApplicationCommandProxy", "EventProxy"} :
         /\ UNCHANGED <<routers, at, todo, subs, appRoutes>>
         /\ status[c] = "exploring" /\ binding[c] # Nil /\ binding[c][1] = m
         /\ \A d \in Call \ {c} : binding'[d] = binding[d] /\ status'[d] = status[d]
         /\ binding'[c] = Nil /\ proxy' = p
         /\ proxy # Nil => p = proxy
         /\ proxy = Nil => (p = "EventProxy" <=> KindOf[m] = "event")
         /\ routes' = [routes EXCEPT ![m] = <<m, c>>]
         /\ handlers' = IF p = "EventProxy" THEN handlers ELSE handlers \union {<<m, c>>}
         /\ status'[c] = IF p = "EventProxy" \/ KindOf[m] = "sub" THEN "failed"
                                                                   ELSE status[c]
         /\ TypeOK'
  <1>0. PICK m, p : /\ m = binding[c][1]
                    /\ p = MadeProxy(IF KindOf[m] = "event" THEN "EventProxy"
                                                            ELSE "ApplicationCommandProxy")
    OBVIOUS
  <1>1. binding[c] # Nil /\ binding[c] \in Method \X (Route \union {Nil}) /\ CallOK(c)
    BY DEF Bind, TypeInv, TypeOK
  <1>2. /\ m \in Method /\ status[c] = "exploring"
        /\ KindOf[m] = "sub" => binding[c][2] \in Route
    BY <1>0, <1>1 DEF CallOK
  <1>3. /\ p \in {"ApplicationCommandProxy", "EventProxy"}
        /\ proxy # Nil => p = proxy
    BY <1>0 DEF MadeProxy, TypeInv, TypeOK
  <1>4. proxy = Nil => (p = "EventProxy" <=> KindOf[m] = "event")
    BY <1>0 DEF MadeProxy
  <1>5. /\ proxy' = p /\ BindRoute(m, c, p)
        /\ IF p = "EventProxy" \/ KindOf[m] = "sub" THEN Fail(c) ELSE UNCHANGED status
        /\ children' = IF p # "EventProxy" /\ KindOf[m] = "sub"
                         THEN children \union {binding[c][2]} ELSE children
        /\ binding' = [binding EXCEPT ![c] = Nil]
        /\ UNCHANGED <<routers, at, todo, subs, appRoutes>>
    BY <1>0 DEF Bind
  <1>6. /\ binding'[c] = Nil /\ \A d \in Call \ {c} : binding'[d] = binding[d]
        /\ binding' \in [Call -> (Method \X (Route \union {Nil})) \union {Nil}]
    BY <1>5 DEF TypeInv, TypeOK
  <1>7. /\ status'[c] = IF p = "EventProxy" \/ KindOf[m] = "sub" THEN "failed" ELSE status[c]
        /\ \A d \in Call \ {c} : status'[d] = status[d]
        /\ status' \in [Call -> {"idle", "exploring", "spinning", "done", "failed"}]
    BY <1>5 DEF Fail, TypeInv, TypeOK
  <1>8. /\ routes' = [routes EXCEPT ![m] = <<m, c>>]
        /\ handlers' = IF p = "EventProxy" THEN handlers ELSE handlers \union {<<m, c>>}
    BY <1>5 DEF BindRoute
  <1>9. /\ routes' \in [Method -> Route \union {Nil}] /\ handlers' \subseteq Route
        /\ children' \subseteq Route
    BY <1>2, <1>5, <1>8, RouteIs DEF TypeInv, TypeOK
  <1>10. TypeOK'
    BY <1>3, <1>5, <1>6, <1>7, <1>9 DEF TypeInv, TypeOK
  <1> QED
    BY <1>0, <1>1, <1>2, <1>3, <1>4, <1>5, <1>6, <1>7, <1>8, <1>10

\* When a call fails at a command, or spins on orphans.
LEMMA StopEffect ==
  ASSUME NEW c \in Call, TypeInv, NewCommandRoute(c) \/ SpinOnOrphans(c)
  PROVE  /\ UNCHANGED <<routers, at, todo, subs, binding, appRoutes, bound>>
         /\ status[c] = "exploring" /\ binding[c] = Nil
         /\ \A d \in Call \ {c} : status'[d] = status[d]
         /\ \/ /\ status'[c] = "failed"
            \/ /\ status'[c] = "spinning" /\ todo[c] = <<>>
               /\ \A i \in DOMAIN subs[c] : ParentRef(subs[c][i]) = Nil
         /\ TypeOK'
  <1>1. /\ UNCHANGED <<routers, at, todo, subs, binding, appRoutes, bound>>
        /\ status[c] = "exploring" /\ binding[c] = Nil
    BY DEF NewCommandRoute, SpinOnOrphans, Running
  <1>2. \/ status' = [status EXCEPT ![c] = "failed"]
        \/ /\ status' = [status EXCEPT ![c] = "spinning"] /\ todo[c] = <<>>
           /\ \A i \in DOMAIN subs[c] : ParentRef(subs[c][i]) = Nil
    BY DEF NewCommandRoute, SpinOnOrphans, Fail
  <1>3. TypeOK'
    BY <1>1, <1>2 DEF TypeInv, TypeOK, bound
  <1> QED
    BY <1>1, <1>2, <1>3 DEF TypeInv, TypeOK

\* Nothing happens any more once a call spins.
LEMMA NoneSpins ==
  ASSUME NEW c \in Call, Explore(c) \/ Step(c)
  PROVE  \A d \in Call : status[d] # "spinning"
  BY DEF Explore, Step, NextRouter, NewCommandRoute, NewApplicationRoute, NewEventRoute,
         NewSubCommandRoute, SpinOnOrphans, Bind, Running, Spinning

LEMMA TypeInvNext ==
  ASSUME TypeInv, [Next]_vars
  PROVE  TypeInv'
  <1>1. CASE UNCHANGED vars
    BY <1>1 DEF vars, TypeInv, TypeOK, CallOK, ParentRef
  <1>2. ASSUME NEW c \in Call, Explore(c) \/ Step(c) PROVE TypeInv'
    <2>0. \A d \in Call : status[d] # "spinning"
      BY <1>2, NoneSpins
    <2>1. ASSUME TypeOK', CallOK(c)', UNCHANGED routers,
                 \A d \in Call \ {c} : /\ status'[d] = status[d] /\ binding'[d] = binding[d]
                                       /\ at'[d] = at[d] /\ todo'[d] = todo[d]
                                       /\ subs'[d] = subs[d]
          PROVE  TypeInv'
      <3>1. ASSUME NEW d \in Call \ {c} PROVE CallOK(d)'
        BY <2>0, <2>1 DEF TypeInv, CallOK
      <3> QED
        BY <2>1, <3>1 DEF TypeInv
    <2>2. CASE Explore(c) \/ NextRouter(c)
      <3>1. CASE status'[c] = "done"
        <4>1. /\ UNCHANGED <<routers, binding, appRoutes, bound>>
              /\ UNCHANGED <<at, todo, subs>> /\ NextRouter(c)
              /\ todo[c] = <<>> /\ subs[c] = <<>> /\ binding[c] = Nil
              /\ status[c] = "exploring"
              /\ \A d \in Call \ {c} : status'[d] = status[d]
          <5>1. /\ UNCHANGED <<routers, binding, appRoutes, bound>>
                /\ binding[c] = Nil
                /\ \A d \in Call \ {c} : status'[d] = status[d]
                /\ UNCHANGED <<at, todo, subs>> /\ NextRouter(c)
            BY <2>2, <3>1, NextRouterEffect
          <5> QED
            BY <5>1, <2>2, NextRouterEffect DEF NextRouter, Running
        <4>2. status' = [status EXCEPT ![c] = "done"]
          BY <2>2, <3>1, <4>1 DEF Explore, NextRouter, TypeInv, TypeOK
        <4>3. TypeOK'
          BY <4>1, <4>2 DEF TypeInv, TypeOK, bound
        <4>4. CallOK(c)'
          BY <3>1, <4>1 DEF CallOK, TypeInv
        <4> QED
          BY <2>1, <4>1, <4>3, <4>4
      <3>2. CASE status'[c] # "done"
        <4>1. /\ UNCHANGED <<routers, binding, appRoutes, bound>> /\ binding[c] = Nil
              /\ status'[c] = "exploring"
              /\ \A d \in Call \ {c} : status'[d] = status[d] /\ at'[d] = at[d]
                                       /\ todo'[d] = todo[d] /\ subs'[d] = subs[d]
          BY <2>2, <3>2, NextRouterEffect
        <4>2. PICK i \in 1 .. Len(routers) + 1 : MapRouter(c, i)
          BY <2>2, <3>2, NextRouterEffect
        <4>3. status' = [status EXCEPT ![c] = "exploring"]
          BY <2>2, <3>2, <4>1 DEF Explore, NextRouter, Running, TypeInv, TypeOK
        <4>4. /\ at'[c] = i /\ at' \in [Call -> 0 .. Len(routers) + 1]
              /\ todo' \in [Call -> Seq(Method)] /\ subs' \in [Call -> Seq(Method)]
              /\ i > Len(routers) => todo'[c] = <<>> /\ subs'[c] = <<>>
          BY <4>2, MapRouterEffect DEF TypeInv
        <4>5. TypeOK'
          BY <4>1, <4>3, <4>4 DEF TypeInv, TypeOK, bound
        <4>6. CallOK(c)'
          BY <4>1, <4>2, <4>4 DEF CallOK
        <4> QED
          BY <2>1, <4>1, <4>5, <4>6
      <3> QED
        BY <3>1, <3>2
    <2>3. CASE NewCommandRoute(c) \/ SpinOnOrphans(c)
      <3>1. CallOK(c)'
        BY <2>3, StopEffect DEF TypeInv, CallOK, ParentRef
      <3> QED
        BY <2>1, <2>3, <3>1, StopEffect
    <2>4. CASE NewApplicationRoute(c) \/ NewEventRoute(c)
      <3>1. CallOK(c)'
        <4>1. /\ binding'[c] = <<Head(todo[c]), Nil>> /\ status'[c] = "exploring"
              /\ KindOf[Head(todo[c])] \in {"application", "event"}
              /\ at'[c] \in 1 .. Len(routers') /\ Len(routers') \in Nat
          BY <2>4, NewRouteEffect, RouterIs DEF TypeInv
        <4> QED
          BY <4>1 DEF CallOK
      <3> QED
        BY <2>1, <2>4, <3>1, NewRouteEffect
    <2>5. CASE NewSubCommandRoute(c)
      <3>1. PICK m \in Method :
                 /\ UNCHANGED <<routers, status, at, todo, bound>>
                 /\ status[c] = "exploring" /\ at[c] \in DOMAIN routers
                 /\ \A d \in Call \ {c} : binding'[d] = binding[d] /\ subs'[d] = subs[d]
                 /\ ParentRef(m) # Nil /\ binding'[c] = <<m, ParentRef(m)>>
                 /\ TypeOK'
        BY <2>5, NewSubEffect
      <3>2. CallOK(c)'
        <4>1. at'[c] \in 1 .. Len(routers') /\ Len(routers') \in Nat
          BY <3>1, RouterIs DEF TypeInv
        <4> QED
          BY <3>1, <4>1 DEF CallOK
      <3> QED
        BY <2>1, <3>1, <3>2
    <2>6. CASE Bind(c)
      <3>1. /\ UNCHANGED <<routers, at, todo, subs, appRoutes>>
            /\ status[c] = "exploring" /\ binding'[c] = Nil
            /\ \A d \in Call \ {c} : binding'[d] = binding[d] /\ status'[d] = status[d]
            /\ status'[c] \in {"failed", "exploring"}
            /\ TypeOK'
        BY <2>6, BindEffect
      <3>2. CallOK(c)'
        BY <3>1 DEF TypeInv, CallOK
      <3> QED
        BY <2>1, <3>1, <3>2
    <2> QED
      BY <1>2, <2>2, <2>3, <2>4, <2>5, <2>6 DEF Step
  <1> QED
    BY <1>1, <1>2 DEF Next

LEMMA TypeInvInit == Init => TypeInv
  <1> SUFFICES ASSUME Init PROVE TypeInv
    OBVIOUS
  <1>1. routers \in Seq([router : Router, methods : Seq(Method)]) /\ Len(routers) \in Nat
    <2>1. routers \in Seq([router : Router, methods : Seq(Method)])
      BY LayoutAssumption DEF Init
    <2> QED
      BY <2>1
  <1>2. TypeOK
    BY <1>1 DEF Init, TypeOK
  <1>3. \A c \in Call : CallOK(c)
    BY <1>1 DEF Init, CallOK
  <1> QED
    BY <1>2, <1>3 DEF TypeInv

LEMMA TypeInvariant == Spec => []TypeInv
  BY TypeInvInit, TypeInvNext, PTL DEF Spec

\* The state of the explorer has its types, whatever the routers are and however
\* many calls explore them.
THEOREM TypeCorrectness == Spec => []TypeOK
  <1>1. TypeInv => TypeOK
    BY DEF TypeInv
  <1> QED
    BY <1>1, TypeInvariant, PTL

------------------------------------------------------------------------------
(* What a call has come to *)

LEMMA SeenMethods ==
  ASSUME TypeOK, NEW c \in Call, NEW k, NEW m \in Seen(c, k)
  PROVE  m \in Method /\ KindOf[m] = k
  <1>1. PICK i \in DOMAIN routers : m \in ToSet(OfKind(routers[i], k))
    BY DEF Seen
  <1>2. routers[i] \in RouterType
    BY RouterIs
  <1> QED
    BY <1>1, <1>2, OfKindElements

LEMMA SeenKept ==
  ASSUME NEW c \in Call, UNCHANGED routers, at'[c] = at[c]
  PROVE  \A k : Seen(c, k)' = Seen(c, k)
  BY DEF Seen

\* A route stays known, a handler set and an exploration failed.
LEMMA NothingIsForgotten ==
  ASSUME TypeInv, NEW c \in Call, Explore(c) \/ Step(c)
  PROVE  /\ UNCHANGED routers
         /\ \A d \in Call \ {c} : /\ status'[d] = status[d] /\ binding'[d] = binding[d]
                                  /\ at'[d] = at[d] /\ todo'[d] = todo[d]
                                  /\ subs'[d] = subs[d]
         /\ handlers \subseteq handlers'
         /\ \A m \in Method : appRoutes[m] # Nil => appRoutes'[m] # Nil
         /\ status[c] # "failed"
  <1>1. CASE Explore(c) \/ NextRouter(c)
    <2>1. /\ UNCHANGED <<routers, binding, appRoutes, bound>>
          /\ \A d \in Call \ {c} : /\ status'[d] = status[d] /\ at'[d] = at[d]
                                   /\ todo'[d] = todo[d] /\ subs'[d] = subs[d]
          /\ status[c] \in {"idle", "exploring"}
      BY <1>1, NextRouterEffect
    <2> QED
      BY <2>1 DEF bound
  <1>2. CASE NewCommandRoute(c) \/ SpinOnOrphans(c)
    BY <1>2, StopEffect DEF bound
  <1>3. CASE NewApplicationRoute(c) \/ NewEventRoute(c)
    <2>1. /\ UNCHANGED <<routers, status, at, subs, bound>> /\ status[c] = "exploring"
          /\ \A d \in Call \ {c} : binding'[d] = binding[d] /\ todo'[d] = todo[d]
          /\ \/ UNCHANGED appRoutes
             \/ \E n \in Method : appRoutes' = [appRoutes EXCEPT ![n] = <<n, c>>]
      BY <1>3, NewRouteEffect
    <2>2. \A m \in Method : appRoutes[m] # Nil => appRoutes'[m] # Nil
      BY <2>1, RouteIs DEF TypeInv, TypeOK
    <2> QED
      BY <2>1, <2>2 DEF bound
  <1>4. CASE NewSubCommandRoute(c)
    <2>1. /\ UNCHANGED <<routers, status, at, todo, bound>> /\ status[c] = "exploring"
          /\ \A d \in Call \ {c} : binding'[d] = binding[d] /\ subs'[d] = subs[d]
          /\ \E n \in Method : appRoutes' = [appRoutes EXCEPT ![n] = <<n, c>>]
      BY <1>4, NewSubEffect
    <2>2. \A m \in Method : appRoutes[m] # Nil => appRoutes'[m] # Nil
      BY <2>1, RouteIs DEF TypeInv, TypeOK
    <2> QED
      BY <2>1, <2>2 DEF bound
  <1>5. CASE Bind(c)
    BY <1>5, BindEffect
  <1> QED
    BY <1>1, <1>2, <1>3, <1>4, <1>5 DEF Step

\* A call that stays where it is keeps its progress.
LEMMA ProgressKept ==
  ASSUME TypeInv, NEW d \in Call, Progress(d), UNCHANGED routers,
         at'[d] = at[d], todo'[d] = todo[d], subs'[d] = subs[d], binding'[d] = binding[d],
         handlers \subseteq handlers',
         \A m \in Method : appRoutes[m] # Nil => appRoutes'[m] # Nil
  PROVE  Progress(d)'
  <1>1. \A k : Seen(d, k)' = Seen(d, k)
    BY SeenKept
  <1>2. \A k : \A m \in Seen(d, k) : m \in Method
    BY SeenMethods DEF TypeInv
  <1>3. \A m : Awaits(d, m)' <=> Awaits(d, m)
    BY DEF Awaits
  <1> QED
    BY <1>1, <1>2, <1>3 DEF Progress

\* A call that comes to the next router has its methods to do.
LEMMA NextRouterKeepsProgress ==
  ASSUME TypeInv, NEW c \in Call, Explore(c) \/ NextRouter(c), status'[c] # "done",
         status[c] = "exploring" => Progress(c)
  PROVE  Progress(c)'
  <1>1. /\ UNCHANGED <<routers, binding, appRoutes, bound>>
        /\ binding[c] = Nil
        /\ Explore(c) \/ status[c] = "exploring"
        /\ NextRouter(c) => todo[c] = <<>> /\ subs[c] = <<>>
        /\ \E i \in 1 .. Len(routers) + 1 : i = (IF Explore(c) THEN 1 ELSE at[c] + 1)
                                            /\ MapRouter(c, i)
    BY NextRouterEffect
  <1>2. PICK i \in 1 .. Len(routers) + 1 : i = (IF Explore(c) THEN 1 ELSE at[c] + 1)
                                            /\ MapRouter(c, i)
    BY <1>1
  <1>3. /\ at'[c] = i
        /\ i <= Len(routers) => /\ i \in DOMAIN routers /\ routers[i] \in RouterType
                                /\ todo'[c] = Planned(routers[i])
                                /\ subs'[c] = OfKind(routers[i], "sub")
    BY <1>2, MapRouterEffect DEF TypeInv
  <1>4. /\ Len(routers) \in Nat /\ DOMAIN routers = 1 .. Len(routers)
        /\ at[c] \in 0 .. Len(routers) + 1
    BY RouterIs DEF TypeInv, TypeOK
  <1>5. ASSUME NEW k, NEW m \in Seen(c, k)'
        PROVE  \/ NextRouter(c) /\ status[c] = "exploring" /\ m \in Seen(c, k)
               \/ i <= Len(routers) /\ m \in ToSet(OfKind(routers[i], k))
    <2>1. PICK j \in 1 .. Len(routers) : j <= i /\ m \in ToSet(OfKind(routers[j], k))
      BY <1>1, <1>3, <1>4, <1>5 DEF Seen
    <2>2. CASE j = i
      BY <2>1, <2>2
    <2>3. CASE j # i
      <3>1. ~Explore(c) /\ j <= at[c]
        BY <1>2, <1>4, <2>1, <2>3
      <3>2. m \in Seen(c, k)
        BY <1>4, <2>1, <3>1 DEF Seen
      <3> QED
        BY <1>1, <3>1, <3>2
    <2> QED
      BY <2>2, <2>3
  <1>6. ToSet(<<>>) = {}
    BY DEF ToSet
  <1>7. ASSUME NextRouter(c), status[c] = "exploring"
        PROVE  /\ \A m \in Seen(c, "application") \union Seen(c, "event") :
                      <<m, c>> \in handlers
               /\ Seen(c, "command") = {} /\ Seen(c, "sub") = {}
               /\ \A m \in Seen(c, "application") : appRoutes[m] # Nil
    BY <1>1, <1>6, <1>7 DEF Progress, Awaits
  <1>8. i <= Len(routers) =>
          /\ \A k \in {"command", "application", "event"} :
                 ToSet(OfKind(routers[i], k)) \subseteq ToSet(todo'[c])
          /\ ToSet(OfKind(routers[i], "sub")) = ToSet(subs'[c])
    BY <1>3, PlannedType
  <1>9. UNCHANGED <<appRoutes, handlers>>
    BY <1>1 DEF bound
  <1>10. \A m \in Seen(c, "application")' \union Seen(c, "event")' :
             <<m, c>> \in handlers' \/ m \in ToSet(todo'[c])
    BY <1>5, <1>7, <1>8, <1>9
  <1>11. Seen(c, "command")' \subseteq ToSet(todo'[c])
    BY <1>5, <1>7, <1>8
  <1>12. Seen(c, "sub")' \subseteq ToSet(subs'[c])
    BY <1>5, <1>7, <1>8
  <1>13. \A m \in Seen(c, "application")' : appRoutes'[m] # Nil \/ m \in ToSet(todo'[c])
    BY <1>5, <1>7, <1>8, <1>9
  <1> QED
    BY <1>10, <1>11, <1>12, <1>13 DEF Progress

LEMMA NewRouteKeepsProgress ==
  ASSUME TypeInv, NEW c \in Call, NewApplicationRoute(c) \/ NewEventRoute(c), Progress(c)
  PROVE  Progress(c)'
  <1>0. PICK n : n = Head(todo[c])
    OBVIOUS
  <1>1. /\ UNCHANGED <<routers, at, subs, handlers>>
        /\ binding[c] = Nil /\ n \in Method
        /\ ToSet(todo[c]) = {n} \union ToSet(todo'[c])
        /\ binding'[c] = <<n, Nil>> /\ binding'[c] # Nil
        /\ KindOf[n] \in {"application", "event"}
        /\ \/ KindOf[n] = "application" /\ appRoutes' = [appRoutes EXCEPT ![n] = <<n, c>>]
           \/ KindOf[n] = "event" /\ UNCHANGED appRoutes
    BY <1>0, NewRouteEffect DEF bound
  <1>2. \A k : Seen(c, k)' = Seen(c, k)
    BY <1>1, SeenKept
  <1>3. \A k : \A m \in Seen(c, k) : m \in Method /\ KindOf[m] = k
    BY SeenMethods DEF TypeInv
  <1>4. (\A m : ~Awaits(c, m)) /\ Awaits(c, n)'
    BY <1>1 DEF Awaits
  <1>5. /\ appRoutes'[n] # Nil \/ KindOf[n] = "event"
        /\ \A m \in Method : appRoutes[m] # Nil => appRoutes'[m] # Nil
    BY <1>1, RouteIs DEF TypeInv, TypeOK
  <1>6. \A m \in Seen(c, "application") \union Seen(c, "event") :
            <<m, c>> \in handlers' \/ m \in ToSet(todo'[c]) \/ Awaits(c, m)'
    BY <1>1, <1>4 DEF Progress
  <1>7. Seen(c, "command") \subseteq ToSet(todo'[c])
    BY <1>1, <1>3 DEF Progress
  <1>8. Seen(c, "sub") \subseteq ToSet(subs'[c])
    BY <1>1, <1>4 DEF Progress
  <1>9. \A m \in Seen(c, "application") : appRoutes'[m] # Nil \/ m \in ToSet(todo'[c])
    BY <1>1, <1>3, <1>5 DEF Progress
  <1> QED
    BY <1>2, <1>6, <1>7, <1>8, <1>9 DEF Progress

LEMMA NewSubKeepsProgress ==
  ASSUME TypeInv, NEW c \in Call, NewSubCommandRoute(c), Progress(c)
  PROVE  Progress(c)'
  <1>1. PICK n \in Method :
             /\ UNCHANGED <<routers, at, todo, handlers>> /\ binding[c] = Nil
             /\ ToSet(subs[c]) \subseteq {n} \union ToSet(subs'[c])
             /\ binding'[c] = <<n, ParentRef(n)>> /\ binding'[c] # Nil
             /\ appRoutes' = [appRoutes EXCEPT ![n] = <<n, c>>]
    BY NewSubEffect DEF bound
  <1>2. \A k : Seen(c, k)' = Seen(c, k)
    BY <1>1, SeenKept
  <1>3. \A k : \A m \in Seen(c, k) : m \in Method
    BY SeenMethods DEF TypeInv
  <1>4. (\A m : ~Awaits(c, m)) /\ Awaits(c, n)'
    BY <1>1 DEF Awaits
  <1>5. \A m \in Method : appRoutes[m] # Nil => appRoutes'[m] # Nil
    BY <1>1, RouteIs DEF TypeInv, TypeOK
  <1>6. \A m \in Seen(c, "sub") : m \in ToSet(subs'[c]) \/ Awaits(c, m)'
    BY <1>1, <1>4 DEF Progress
  <1> QED
    BY <1>1, <1>2, <1>3, <1>4, <1>5, <1>6 DEF Progress

LEMMA BindKeepsProgress ==
  ASSUME TypeInv, NEW c \in Call, Bind(c), Progress(c), status'[c] # "failed"
  PROVE  Progress(c)'
  <1>1. PICK n \in Method :
             /\ UNCHANGED <<routers, at, todo, subs, appRoutes>> /\ binding[c][1] = n
             /\ handlers' = handlers \union {<<n, c>>} /\ KindOf[n] # "sub"
    BY BindEffect
  <1>2. \A k : Seen(c, k)' = Seen(c, k)
    BY <1>1, SeenKept
  <1>3. \A m \in Seen(c, "sub") : KindOf[m] = "sub"
    BY SeenMethods DEF TypeInv
  <1>4. \A m : Awaits(c, m) => m = n
    BY <1>1 DEF Awaits
  <1> QED
    BY <1>1, <1>2, <1>3, <1>4 DEF Progress

LEMMA ProgressInvNext ==
  ASSUME TypeInv, ProgressInv, [Next]_vars
  PROVE  ProgressInv'
  <1>1. CASE UNCHANGED vars
    BY <1>1 DEF vars, ProgressInv, Progress, Seen, Awaits
  <1>2. ASSUME NEW c \in Call, Explore(c) \/ Step(c) PROVE ProgressInv'
    <2>1. ASSUME NEW d \in Call \ {c}, status'[d] \in {"exploring", "spinning", "done"}
          PROVE  Progress(d)'
      <3>1. /\ UNCHANGED routers
            /\ status'[d] = status[d] /\ binding'[d] = binding[d]
            /\ at'[d] = at[d] /\ todo'[d] = todo[d] /\ subs'[d] = subs[d]
            /\ handlers \subseteq handlers'
            /\ \A m \in Method : appRoutes[m] # Nil => appRoutes'[m] # Nil
        BY <1>2, NothingIsForgotten
      <3> QED
        BY <2>1, <3>1, ProgressKept DEF ProgressInv
    <2>2. ASSUME status'[c] \in {"exploring", "spinning", "done"} PROVE Progress(c)'
      <3>1. CASE Explore(c) \/ NextRouter(c)
        <4>1. CASE status'[c] = "done"
          <5>1. /\ UNCHANGED <<routers, binding, appRoutes, bound>>
                /\ UNCHANGED <<at, todo, subs>> /\ NextRouter(c)
            BY <3>1, <4>1, NextRouterEffect
          <5>2. Progress(c)
            BY <5>1 DEF NextRouter, Running, ProgressInv
          <5> QED
            BY <5>1, <5>2, ProgressKept DEF bound
        <4>2. CASE status'[c] # "done"
          BY <3>1, <4>2, NextRouterKeepsProgress DEF ProgressInv
        <4> QED
          BY <4>1, <4>2
      <3>2. CASE NewCommandRoute(c) \/ SpinOnOrphans(c)
        <4>1. /\ UNCHANGED <<routers, at, todo, subs, binding, appRoutes, bound>>
              /\ status[c] = "exploring"
          BY <3>2, StopEffect
        <4>2. Progress(c)
          BY <4>1 DEF ProgressInv
        <4> QED
          BY <4>1, <4>2, ProgressKept DEF bound
      <3>3. CASE NewApplicationRoute(c) \/ NewEventRoute(c)
        <4>1. Progress(c)
          BY <3>3, NewRouteEffect DEF ProgressInv
        <4> QED
          BY <3>3, <4>1, NewRouteKeepsProgress
      <3>4. CASE NewSubCommandRoute(c)
        <4>1. Progress(c)
          BY <3>4, NewSubEffect DEF ProgressInv
        <4> QED
          BY <3>4, <4>1, NewSubKeepsProgress
      <3>5. CASE Bind(c)
        <4>1. Progress(c)
          BY <3>5, BindEffect DEF ProgressInv
        <4> QED
          BY <2>2, <3>5, <4>1, BindKeepsProgress
      <3> QED
        BY <1>2, <3>1, <3>2, <3>3, <3>4, <3>5 DEF Step
    <2> QED
      BY <2>1, <2>2 DEF ProgressInv
  <1> QED
    BY <1>1, <1>2 DEF Next

------------------------------------------------------------------------------
(* What opens an application *)

LEMMA OneOpens ==
  ASSUME TypeOK, NEW m, NEW n, Opens(m), Opens(n)
  PROVE  m = n
  <1>1. PICK i \in 1 .. Len(routers) :
             /\ Planned(routers[i]) # <<>> /\ Head(Planned(routers[i])) = m
             /\ \A j \in 1 .. Len(routers) : j < i => IsEmpty(routers[j])
    BY RouterIs DEF Opens
  <1>2. PICK k \in 1 .. Len(routers) :
             /\ Planned(routers[k]) # <<>> /\ Head(Planned(routers[k])) = n
             /\ \A j \in 1 .. Len(routers) : j < k => IsEmpty(routers[j])
    BY RouterIs DEF Opens
  <1>3. ~(i < k) /\ ~(k < i)
    BY <1>1, <1>2 DEF IsEmpty
  <1>4. i = k
    BY <1>3, RouterIs
  <1> QED
    BY <1>1, <1>2, <1>4

\* What a call binds while no application command was bound opens the application;
\* it is an event if the proxy is one for events.
LEMMA BindsTheFirst ==
  ASSUME TypeInv, OpeningInv, NEW c \in Call, Bind(c), proxy' = "EventProxy"
  PROVE  /\ Opens(binding[c][1]) /\ binding[c][1] \in Method
         /\ KindOf[binding[c][1]] = "event"
         /\ proxy # "ApplicationCommandProxy" /\ status'[c] = "failed"
  <1>1. PICK m \in Method :
             /\ status[c] = "exploring" /\ binding[c] # Nil /\ binding[c][1] = m
             /\ proxy # Nil => "EventProxy" = proxy
             /\ proxy = Nil => KindOf[m] = "event"
             /\ status'[c] = "failed"
    BY BindEffect
  <1>2. proxy # "ApplicationCommandProxy"
    BY <1>1, LayoutAssumption
  <1>3. Opens(m)
    BY <1>1, <1>2 DEF OpeningInv, Fresh
  <1>4. KindOf[m] = "event"
    <2>1. CASE proxy = Nil
      BY <1>1, <2>1
    <2>2. CASE proxy = "EventProxy"
      <3>1. PICK e \in Method : Opens(e) /\ KindOf[e] = "event"
        BY <1>2, <2>2 DEF OpeningInv
      <3>2. e = m
        BY <1>3, <3>1, OneOpens DEF TypeInv
      <3> QED
        BY <3>1, <3>2
    <2> QED
      BY <1>1, <2>1, <2>2
  <1> QED
    BY <1>1, <1>2, <1>3, <1>4

\* A call that has bound nothing goes on to the next router only from an empty one.
LEMMA NextRouterIsFresh ==
  ASSUME TypeInv, NEW c \in Call, Explore(c) \/ NextRouter(c), status'[c] # "done",
         status[c] = "exploring" => Fresh(c)
  PROVE  Fresh(c)'
  <1>1. /\ UNCHANGED <<routers, binding>> /\ binding[c] = Nil
        /\ Explore(c) \/ status[c] = "exploring"
        /\ NextRouter(c) => todo[c] = <<>> /\ subs[c] = <<>>
    BY NextRouterEffect
  <1>2. PICK i \in 1 .. Len(routers) + 1 : i = (IF Explore(c) THEN 1 ELSE at[c] + 1)
                                            /\ MapRouter(c, i)
    BY NextRouterEffect
  <1>3. /\ at'[c] = i
        /\ i <= Len(routers) => /\ todo'[c] = Planned(routers[i])
                                /\ subs'[c] = OfKind(routers[i], "sub")
    BY <1>2, MapRouterEffect DEF TypeInv
  <1>4. /\ Len(routers) \in Nat /\ DOMAIN routers = 1 .. Len(routers)
        /\ at[c] \in 0 .. Len(routers) + 1
    BY RouterIs DEF TypeInv, TypeOK
  <1>5. ASSUME NEW j \in DOMAIN routers, j < i PROVE IsEmpty(routers[j])
    <2>1. ~Explore(c) /\ NextRouter(c) /\ j <= at[c]
      BY <1>2, <1>4, <1>5
    <2>2. Fresh(c) /\ todo[c] = <<>> /\ subs[c] = <<>>
      BY <1>1, <2>1
    <2>3. CASE j = at[c]
      BY <1>1, <2>2, <2>3 DEF Fresh, IsEmpty
    <2>4. CASE j < at[c]
      BY <2>2, <2>4 DEF Fresh
    <2> QED
      BY <1>4, <2>1, <2>3, <2>4
  <1> QED
    BY <1>1, <1>3, <1>4, <1>5 DEF Fresh

LEMMA OpeningInvNext ==
  ASSUME TypeInv, OpeningInv, [Next]_vars
  PROVE  OpeningInv'
  <1>1. CASE UNCHANGED vars
    BY <1>1 DEF vars, OpeningInv, Opens, Fresh
  <1>2. ASSUME NEW c \in Call, Explore(c) \/ Step(c), proxy' # "ApplicationCommandProxy"
        PROVE  /\ proxy' = "EventProxy" => \E e \in Method : Opens(e)' /\ KindOf[e] = "event"
               /\ \A m \in Method : appRoutes'[m] # Nil => Opens(m)' /\ KindOf[m] = "application"
               /\ \A d \in Call : status'[d] = "exploring" => Fresh(d)'
    <2>1. /\ UNCHANGED routers
          /\ \A d \in Call \ {c} : /\ status'[d] = status[d] /\ binding'[d] = binding[d]
                                   /\ at'[d] = at[d] /\ todo'[d] = todo[d]
                                   /\ subs'[d] = subs[d]
      BY <1>2, NothingIsForgotten
    <2>2. \A m : Opens(m)' <=> Opens(m)
      BY <2>1 DEF Opens
    <2>3. ASSUME proxy # "ApplicationCommandProxy", NEW d \in Call \ {c},
                 status'[d] = "exploring"
          PROVE  Fresh(d)'
      BY <2>1, <2>2, <2>3 DEF OpeningInv, Fresh
    <2>4. CASE Explore(c) \/ NextRouter(c)
      <3>1. UNCHANGED <<proxy, appRoutes>>
        BY <2>4, NextRouterEffect DEF bound
      <3>2. status'[c] = "exploring" => Fresh(c)'
        BY <1>2, <2>4, <3>1, NextRouterIsFresh DEF OpeningInv
      <3> QED
        BY <1>2, <2>2, <2>3, <3>1, <3>2 DEF OpeningInv
    <2>5. CASE NewCommandRoute(c) \/ SpinOnOrphans(c)
      <3>1. UNCHANGED <<proxy, appRoutes>> /\ status'[c] # "exploring"
        BY <2>5, StopEffect DEF bound
      <3> QED
        BY <1>2, <2>2, <2>3, <3>1 DEF OpeningInv
    <2>6. CASE NewApplicationRoute(c) \/ NewEventRoute(c)
      <3>0. PICK n : n = Head(todo[c])
        OBVIOUS
      <3>1. /\ UNCHANGED <<proxy, at, status>> /\ status[c] = "exploring"
            /\ binding[c] = Nil /\ at[c] \in DOMAIN routers
            /\ n \in Method /\ todo[c] # <<>>
            /\ binding'[c] = <<n, Nil>> /\ binding'[c] # Nil
            /\ \/ KindOf[n] = "application" /\ appRoutes' = [appRoutes EXCEPT ![n] = <<n, c>>]
               \/ UNCHANGED appRoutes
        BY <2>6, <3>0, NewRouteEffect DEF bound
      <3>2. Fresh(c)
        BY <1>2, <3>1 DEF OpeningInv
      <3>3. todo[c] = Planned(routers[at[c]])
        BY <3>1, <3>2 DEF Fresh
      <3>4. Opens(n)
        BY <3>0, <3>1, <3>2, <3>3 DEF Fresh, Opens
      <3>5. \A m \in Method : appRoutes'[m] # Nil => Opens(m) /\ KindOf[m] = "application"
        BY <1>2, <3>1, <3>4 DEF OpeningInv, TypeInv, TypeOK
      <3>6. Fresh(c)'
        BY <2>1, <2>2, <3>1, <3>2, <3>4 DEF Fresh
      <3> QED
        BY <1>2, <2>2, <2>3, <3>1, <3>5, <3>6 DEF OpeningInv
    <2>7. CASE NewSubCommandRoute(c)
      <3>1. PICK m \in Method :
                 /\ proxy' = proxy /\ status[c] = "exploring" /\ binding[c] = Nil
                 /\ at[c] \in DOMAIN routers /\ todo[c] = <<>> /\ m \in ToSet(subs[c])
                 /\ ParentRef(m) # Nil
        BY <2>7, NewSubEffect DEF bound
      <3>2. Fresh(c)
        BY <1>2, <3>1 DEF OpeningInv
      <3>3. Planned(routers[at[c]]) = <<>> /\ ~IsEmpty(routers[at[c]])
        <4>1. ToSet(<<>>) = {}
          BY DEF ToSet
        <4> QED
          BY <3>1, <3>2, <4>1 DEF Fresh, IsEmpty
      <3>4. Opens(Parent[m])
        <4>1. Parent[m] \in Method /\ appRoutes[Parent[m]] # Nil
          BY <3>1, LayoutAssumption DEF ParentRef
        <4> QED
          BY <1>2, <3>1, <4>1 DEF OpeningInv
      <3>5. PICK i \in 1 .. Len(routers) :
                 /\ Planned(routers[i]) # <<>>
                 /\ \A j \in 1 .. Len(routers) : j < i => IsEmpty(routers[j])
        BY <3>4, RouterIs DEF Opens, TypeInv
      <3>6. at[c] \in 1 .. Len(routers) /\ Len(routers) \in Nat
        BY <3>1, RouterIs DEF TypeInv
      <3>7. ~(at[c] < i)
        BY <3>3, <3>5, <3>6
      <3>8. ~(i < at[c])
        BY <3>2, <3>5, RouterIs DEF Fresh, IsEmpty, TypeInv
      <3>9. i = at[c]
        BY <3>6, <3>7, <3>8
      <3> QED
        BY <3>3, <3>5, <3>9
    <2>8. CASE Bind(c)
      <3>1. UNCHANGED appRoutes /\ proxy' = "EventProxy"
        BY <1>2, <2>8, BindEffect
      <3>2. /\ Opens(binding[c][1]) /\ binding[c][1] \in Method
            /\ KindOf[binding[c][1]] = "event"
            /\ proxy # "ApplicationCommandProxy" /\ status'[c] = "failed"
        BY <2>8, <3>1, BindsTheFirst
      <3> QED
        BY <2>2, <2>3, <3>1, <3>2 DEF OpeningInv
    <2> QED
      BY <1>2, <2>4, <2>5, <2>6, <2>7, <2>8 DEF Step
  <1> QED
    BY <1>1, <1>2 DEF Next, OpeningInv

\* A route that a router knows and the proxy does not handle is of an event.
LEMMA KnownNext ==
  ASSUME TypeInv, OpeningInv, KnownRoutesAreHandled, [Next]_vars
  PROVE  KnownRoutesAreHandled'
  <1>1. CASE UNCHANGED vars
    BY <1>1 DEF vars, KnownRoutesAreHandled
  <1>2. ASSUME NEW c \in Call, Explore(c) \/ Step(c), NEW m \in Method, routes'[m] # Nil
        PROVE  \/ routes'[m] \in handlers'
               \/ KindOf[m] = "event" /\ status'[routes'[m][2]] = "failed"
    <2>1. /\ \A d \in Call : status[d] = "failed" => status'[d] = "failed"
          /\ handlers \subseteq handlers'
      BY <1>2, NothingIsForgotten
    <2>2. CASE routes'[m] = routes[m]
      <3>1. routes[m] # Nil /\ routes[m][2] \in Call
        BY <1>2, <2>2 DEF TypeInv, TypeOK, Route
      <3> QED
        BY <2>1, <2>2, <3>1 DEF KnownRoutesAreHandled
    <2>3. CASE routes'[m] # routes[m]
      <3>1. Bind(c)
        <4>1. Explore(c) \/ NextRouter(c) => routes' = routes
          BY NextRouterEffect DEF bound
        <4>2. NewCommandRoute(c) \/ SpinOnOrphans(c) => routes' = routes
          BY StopEffect DEF bound
        <4>3. NewApplicationRoute(c) \/ NewEventRoute(c) => routes' = routes
          BY NewRouteEffect DEF bound
        <4>4. NewSubCommandRoute(c) => routes' = routes
          BY NewSubEffect DEF bound
        <4> QED
          BY <1>2, <2>3, <4>1, <4>2, <4>3, <4>4 DEF Step
      <3>2. PICK n \in Method, p \in {"ApplicationCommandProxy", "EventProxy"} :
                 /\ binding[c][1] = n /\ proxy' = p
                 /\ routes' = [routes EXCEPT ![n] = <<n, c>>]
                 /\ handlers' = IF p = "EventProxy" THEN handlers ELSE handlers \union {<<n, c>>}
        BY <3>1, BindEffect
      <3>3. n = m /\ routes'[m] = <<m, c>>
        BY <2>3, <3>2 DEF TypeInv, TypeOK
      <3>4. CASE p = "ApplicationCommandProxy"
        BY <3>2, <3>3, <3>4
      <3>5. CASE p = "EventProxy"
        <4>1. KindOf[m] = "event" /\ status'[c] = "failed"
          BY <3>1, <3>2, <3>3, <3>5, BindsTheFirst
        <4> QED
          BY <3>3, <4>1
      <3> QED
        BY <3>4, <3>5
    <2> QED
      BY <2>2, <2>3
  <1> QED
    BY <1>1, <1>2 DEF Next, KnownRoutesAreHandled

LEMMA RoutesInvariant == Spec => []RoutesInv
  <1>1. Init => ProgressInv /\ OpeningInv /\ KnownRoutesAreHandled
    BY LayoutAssumption DEF Init, ProgressInv, OpeningInv, KnownRoutesAreHandled
  <1>2. TypeInv /\ ProgressInv /\ OpeningInv /\ KnownRoutesAreHandled /\ [Next]_vars
        => ProgressInv' /\ OpeningInv' /\ KnownRoutesAreHandled'
    BY ProgressInvNext, OpeningInvNext, KnownNext
  <1> QED
    BY <1>1, <1>2, TypeInvariant, PTL DEF Spec, RoutesInv

\* How an exploration ends tells what it has bound: all of it when it completes, what
\* the router knows when it fails, and everything but sub-commands without a parent
\* when it spins, however many explorations meet each other's proxy and routes.
THEOREM EndsSoundly == Spec => []EndsAsBound
  <1>1. RoutesInv => EndsAsBound
    <2> SUFFICES ASSUME RoutesInv PROVE EndsAsBound
      OBVIOUS
    <2>0. ToSet(<<>>) = {}
      BY DEF ToSet
    <2>1. CompletedIsWhole
      <3> SUFFICES ASSUME NEW c \in Call, status[c] = "done"
                   PROVE  /\ \A k \in {"application", "event"} :
                                 \A m \in Seen(c, k) : <<m, c>> \in handlers
                          /\ Seen(c, "command") \union Seen(c, "sub") = {}
        BY DEF CompletedIsWhole
      <3>1. Progress(c) /\ todo[c] = <<>> /\ subs[c] = <<>> /\ binding[c] = Nil
        BY DEF RoutesInv, ProgressInv, TypeInv, CallOK
      <3> QED
        BY <2>0, <3>1 DEF Progress, Awaits
    <2>2. OnlyOrphansSpin
      <3> SUFFICES ASSUME NEW c \in Call, status[c] = "spinning", NEW i \in DOMAIN subs[c],
                          Parent[subs[c][i]] \in Seen(c, "application")
                   PROVE  FALSE
        BY DEF OnlyOrphansSpin
      <3>1. Progress(c) /\ todo[c] = <<>> /\ ParentRef(subs[c][i]) = Nil
        BY DEF RoutesInv, ProgressInv, TypeInv, CallOK
      <3>2. appRoutes[Parent[subs[c][i]]] # Nil
        BY <2>0, <3>1 DEF Progress
      <3>3. Parent[subs[c][i]] # Nil
        BY SeenMethods, RouteIs DEF RoutesInv, TypeInv
      <3> QED
        BY <3>1, <3>2, <3>3 DEF ParentRef
    <2> QED
      BY <2>1, <2>2 DEF RoutesInv, EndsAsBound
  <1> QED
    BY <1>1, RoutesInvariant, PTL

------------------------------------------------------------------------------
(* What is never undone *)

\* Nothing that was bound is taken back, neither when the exploration fails half
\* way nor by another one: the proxy stays and so do its handlers.
THEOREM Keeps == Spec => NothingIsUndone
  <1>1. ASSUME TypeInv, [Next]_vars
        PROVE  /\ proxy # Nil => proxy' = proxy
               /\ handlers \subseteq handlers' /\ children \subseteq children'
               /\ \A m \in Method : routes[m] # Nil => routes'[m] # Nil
    <2>1. CASE UNCHANGED bound
      BY <2>1 DEF bound
    <2>2. ASSUME NEW c \in Call, Bind(c)
          PROVE  /\ proxy # Nil => proxy' = proxy
                 /\ handlers \subseteq handlers' /\ children \subseteq children'
                 /\ \A m \in Method : routes[m] # Nil => routes'[m] # Nil
      <3>1. PICK n \in Method, p \in {proxy'} :
                 /\ proxy' = p /\ (proxy # Nil => p = proxy)
                 /\ routes' = [routes EXCEPT ![n] = <<n, c>>]
                 /\ handlers' = IF p = "EventProxy" THEN handlers ELSE handlers \union {<<n, c>>}
        BY <1>1, <2>2, BindEffect
      <3>2. children \subseteq children'
        BY <2>2 DEF Bind
      <3>3. \A m \in Method : routes[m] # Nil => routes'[m] # Nil
        BY <3>1, RouteIs DEF TypeInv, TypeOK
      <3> QED
        BY <3>1, <3>2, <3>3
    <2>3. ASSUME NEW c \in Call, Explore(c) \/ Step(c) PROVE Bind(c) \/ UNCHANGED bound
      BY <2>3 DEF Step, Explore, NextRouter, NewCommandRoute, NewApplicationRoute,
                  NewEventRoute, NewSubCommandRoute, SpinOnOrphans
    <2>4. CASE UNCHANGED vars
      BY <2>1, <2>4 DEF vars, bound
    <2> QED
      BY <1>1, <2>1, <2>2, <2>3, <2>4 DEF Next
  <1>2. TypeInv /\ [Next]_vars =>
          [/\ proxy # Nil => proxy' = proxy
           /\ handlers \subseteq handlers' /\ children \subseteq children'
           /\ \A m \in Method : routes[m] # Nil => routes'[m] # Nil]_vars
    BY <1>1
  <1> QED
    BY <1>2, TypeInvariant, PTL DEF Spec, NothingIsUndone
===============================================================================
