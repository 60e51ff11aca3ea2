----------------------------- MODULE LoaderProofs -----------------------------
(***************************************************************************)
(* What is proved about the loading of an application: type correctness    *)
(* and the safety properties of ModuleScan, for every set of modules and   *)
(* every way they may import one another; those of BindingRegistry, which  *)
(* binds what the modules provide, for every set of tokens and providers,  *)
(* any superclasses and every order in which injectors and events bind     *)
(* them; and those of ModuleProviders, which merges what the modules       *)
(* export, for every way they may import and export one another.  The      *)
(* three keep no state in common.                                          *)
(***************************************************************************)
EXTENDS ModuleScan, ModuleProviders, BindingRegistry, WellFoundedInduction,
        FiniteSetTheorems, SequenceTheorems, TLAPS

Awaiting == {"children", "done", "failed"}

\* The scans form a tree: every scan but that of the root module is below it, and
\* whoever awaits a scan awaits it through a scan it started itself.
TreeInv ==
    /\ RootScan \in Scan /\ metatype[RootScan] = Root
    /\ \A s \in Scan : s # RootScan => RootScan \in above[s]
    /\ \A s \in Scan : \A t \in above[s] :
          /\ pc[t] \in Awaiting
          /\ \E c \in Children(t) : c = s \/ c \in above[s]
    /\ \A t \in Seq(Nat), i \in Nat :
          Append(t, i) \in Scan => t \in above[Append(t, i)]

\* Nothing is on its way below a scan that is done.
DoneInv ==
    \A s \in Scan : \A t \in above[s] : pc[t] = "done" => pc[s] = "done"

\* The definitions in the map are those of scans, the scans that await others have
\* recorded theirs, and whatever these import was recorded or is being scanned.
MapInv ==
    /\ \A m \in Module : resolved[m] # Nil =>
          \E s \in Scan : /\ metatype[s] = resolved[m]
                          /\ pc[s] \in Awaiting
    /\ \A s \in Scan : \A t \in above[s] : resolved[ModuleOf[metatype[t]]] # Nil
    /\ \A s \in Scan : pc[s] \in {"children", "done"} =>
          resolved[ModuleOf[metatype[s]]] # Nil
    /\ \A s \in Scan : pc[s] \in {"children", "done"} =>
          \A i \in DOMAIN ImportsOf(s) :
              \/ resolved[ModuleOf[ImportsOf(s)[i]]] # Nil
              \/ /\ Append(s, i) \in Scan
                 /\ metatype[Append(s, i)] = ImportsOf(s)[i]

\* A scan gets past a step only if there is nothing wrong with it, and none throws
\* while nothing is wrong anywhere.
FaultInv ==
    \A s \in Scan :
        /\ pc[s] = "imports" => metatype[s] \notin Unknown
        /\ pc[s] \in {"children", "done"} => ~Faulty(metatype[s])
        /\ pc[s] = "failed" => \E t \in Scan : Faulty(metatype[t])

IInv == TypeOK /\ TreeInv /\ DoneInv /\ MapInv /\ NoScanBelowItself /\ FaultInv

------------------------------------------------------------------------------

LEMMA IInvInit == Init => IInv
  <1> SUFFICES ASSUME Init
               PROVE  IInv
    OBVIOUS
  <1>1. Scan = {RootScan} /\ RootScan \in Seq(Nat)
    BY DEF Init, Scan, RootScan
  <1>2. TypeOK
    BY <1>1, MetatypeAssumption DEF Init, TypeOK, Scan
  <1>3. \A s \in Seq(Nat), i \in Nat : Append(s, i) # RootScan
    BY AppendProperties DEF RootScan
  <1>4. TreeInv
    BY <1>1, <1>3 DEF Init, TreeInv
  <1>5. DoneInv /\ MapInv /\ NoScanBelowItself /\ FaultInv
    BY <1>1 DEF Init, DoneInv, MapInv, NoScanBelowItself, FaultInv
  <1> QED
    BY <1>2, <1>4, <1>5 DEF IInv

\* A step that only moves scan s on.
Moves(s, step) ==
    /\ Scan' = Scan
    /\ pc' \in [Scan -> {"reflect", "imports", "children", "done", "failed"}]
    /\ pc'[s] = step
    /\ \A t \in Scan \ {s} : pc'[t] = pc[t]
    /\ UNCHANGED <<imports, metatype, resolved, above>>

LEMMA GotoMoves ==
  ASSUME TypeOK, NEW s \in Scan,
         NEW step \in {"imports", "done", "failed"}, Goto(s, step)
  PROVE  Moves(s, step)
  BY DEF Goto, Moves, TypeOK, Scan

\* What a step of scan s that starts the scans in new does to them and the others.
Starts(s, new) ==
    /\ new \intersect Scan = {} /\ new \subseteq Seq(Nat)
    /\ Scan' = Scan \union new
    /\ pc' \in [Scan' -> {"reflect", "imports", "children", "done", "failed"}]
    /\ pc'[s] \in {"children", "failed"}
    /\ \A t \in Scan \ {s} : pc'[t] = pc[t]
    /\ \A t \in new : pc'[t] = "reflect"
    /\ metatype' \in [Scan' -> Metatype]
    /\ \A t \in Scan : metatype'[t] = metatype[t]
    /\ above' \in [Scan' -> SUBSET Scan]
    /\ \A t \in Scan : above'[t] = above[t]
    /\ \A t \in new : above'[t] = above[s] \union {s}
    /\ \A t \in new : \E i \in DOMAIN ImportsOf(s) :
          t = Append(s, i) /\ metatype'[t] = ImportsOf(s)[i] /\ IsScanned(s, i)
    /\ pc'[s] = "children" =>
          \A i \in DOMAIN ImportsOf(s) :
              ~IsCircular(s, i) /\ (IsScanned(s, i) => Append(s, i) \in new)
    /\ pc'[s] = "failed" => \E i \in DOMAIN ImportsOf(s) : IsCircular(s, i)
    /\ resolved' = ResolvedWith(s)
    /\ UNCHANGED imports

LEMMA ImportsAwaitedStarts ==
  ASSUME IInv, NEW s \in Scan, ImportsAwaited(s)
  PROVE  \E new : Starts(s, new)
  <1> DEFINE circular == {i \in DOMAIN ImportsOf(s) : IsCircular(s, i)}
             scanned == {i \in DOMAIN ImportsOf(s) :
                            IsScanned(s, i) /\ \A j \in circular : i < j}
             begun == {Append(s, i) : i \in scanned}
  <1>1. /\ pc[s] = "imports" /\ Scan \subseteq Seq(Nat) /\ s \in Seq(Nat)
        /\ above \in [Scan -> SUBSET Scan] /\ metatype \in [Scan -> Metatype]
        /\ pc \in [Scan -> {"reflect", "imports", "children", "done", "failed"}]
        /\ imports \in [Metatype -> Seq(Metatype)]
    BY ImportsAssumption DEF IInv, TypeOK, ImportsAwaited
  <1>2. /\ ImportsOf(s) \in Seq(Metatype) /\ DOMAIN ImportsOf(s) \subseteq Nat
        /\ \A i \in DOMAIN ImportsOf(s) : ImportsOf(s)[i] \in Metatype
    BY <1>1 DEF ImportsOf
  <1>3. \A i \in scanned : /\ i \in Nat
                           /\ Append(s, i) \in Seq(Nat)
                           /\ Append(s, i)[Len(Append(s, i))] = i
    BY <1>1, <1>2, AppendProperties
  <1>4. begun \subseteq Seq(Nat) /\ begun \intersect Scan = {}
    <2>1. ASSUME NEW i \in scanned, Append(s, i) \in Scan
          PROVE  FALSE
      <3>1. s \in above[Append(s, i)]
        BY <2>1, <1>3 DEF IInv, TreeInv
      <3> QED
        BY <3>1, <2>1, <1>1 DEF IInv, TreeInv, Awaiting
    <2> QED
      BY <2>1, <1>3
  <1>5. /\ pc' = [t \in Scan \union begun |->
                     CASE t \in begun -> "reflect"
                       [] t = s -> IF circular = {} THEN "children" ELSE "failed"
                       [] OTHER -> pc[t]]
        /\ metatype' = [t \in Scan \union begun |->
                           IF t \in begun THEN ImportsOf(s)[t[Len(t)]] ELSE metatype[t]]
        /\ above' = [t \in Scan \union begun |->
                        IF t \in begun THEN above[s] \union {s} ELSE above[t]]
        /\ resolved' = ResolvedWith(s)
        /\ UNCHANGED imports
    BY DEF ImportsAwaited
  <1> HIDE DEF circular, begun
  <1>6. Scan' = Scan \union begun
    BY <1>5 DEF Scan
  <1>7. /\ pc'[s] = IF circular = {} THEN "children" ELSE "failed"
        /\ \A t \in Scan \ {s} : pc'[t] = pc[t]
        /\ \A t \in begun : pc'[t] = "reflect"
    BY <1>4, <1>5
  <1>8. pc' \in [Scan' -> {"reflect", "imports", "children", "done", "failed"}]
    BY <1>1, <1>4, <1>5, <1>6, <1>7
  <1>9. /\ \A t \in Scan : metatype'[t] = metatype[t] /\ above'[t] = above[t]
        /\ \A t \in begun : above'[t] = above[s] \union {s}
        /\ above' \in [Scan' -> SUBSET Scan]
    BY <1>1, <1>4, <1>5, <1>6
  <1>10. \A t \in begun : \E i \in DOMAIN ImportsOf(s) :
            /\ t = Append(s, i) /\ metatype'[t] = ImportsOf(s)[i]
            /\ IsScanned(s, i) /\ metatype'[t] \in Metatype
    <2> SUFFICES ASSUME NEW t \in begun
                 PROVE  \E i \in DOMAIN ImportsOf(s) :
                            /\ t = Append(s, i) /\ metatype'[t] = ImportsOf(s)[i]
                            /\ IsScanned(s, i) /\ metatype'[t] \in Metatype
      OBVIOUS
    <2>1. PICK i \in scanned : t = Append(s, i)
      BY DEF begun
    <2>2. metatype'[t] = ImportsOf(s)[t[Len(t)]]
      BY <1>5
    <2> QED
      BY <2>1, <2>2, <1>2, <1>3
  <1>11. metatype' \in [Scan' -> Metatype]
    BY <1>1, <1>5, <1>6, <1>9, <1>10
  <1>12. pc'[s] = "children" =>
            \A i \in DOMAIN ImportsOf(s) :
                ~IsCircular(s, i) /\ (IsScanned(s, i) => Append(s, i) \in begun)
    <2> SUFFICES ASSUME circular = {}, NEW i \in DOMAIN ImportsOf(s)
                 PROVE  ~IsCircular(s, i) /\ (IsScanned(s, i) => Append(s, i) \in begun)
      BY <1>7
    <2>1. ~IsCircular(s, i)
      BY DEF circular
    <2>2. IsScanned(s, i) => i \in scanned
      OBVIOUS
    <2> QED
      BY <2>1, <2>2 DEF begun
  <1>13. pc'[s] = "failed" => \E i \in DOMAIN ImportsOf(s) : IsCircular(s, i)
    BY <1>7 DEF circular
  <1> HIDE DEF scanned
  <1>14. Starts(s, begun)
    BY <1>4, <1>5, <1>6, <1>7, <1>8, <1>9, <1>10, <1>11, <1>12, <1>13
       DEF Starts
  <1> QED
    BY <1>14

------------------------------------------------------------------------------
(* Steps that only move one scan on *)

\* Moving a scan on keeps the invariants, if it is moved on for a good reason.
LEMMA MovesPreserve ==
  ASSUME IInv, NEW s \in Scan, NEW step \in {"imports", "done", "failed"},
         Moves(s, step),
         pc[s] \notin {"done", "failed"},
         step = "imports" => pc[s] = "reflect" /\ metatype[s] \notin Unknown,
         step = "done" =>
             pc[s] = "children" /\ \A t \in Children(s) : pc[t] = "done",
         step = "failed" => \E t \in Scan : Faulty(metatype[t])
  PROVE  IInv'
  <1> USE DEF Moves, Awaiting
  <1>1. Scan' = Scan /\ \A t \in Scan : Children(t)' = Children(t)
    BY DEF Children, ImportsOf
  <1>2. \A t \in Scan : pc[t] \in Awaiting => pc'[t] \in Awaiting
    OBVIOUS
  <1>3. TypeOK'
    BY DEF IInv, TypeOK
  <1>4. TreeInv'
    <2>1. \A u \in Scan : \A t \in above[u] : pc'[t] \in Awaiting
      BY <1>2 DEF IInv, TypeOK, TreeInv
    <2> QED
      BY <1>1, <2>1 DEF IInv, TypeOK, TreeInv
  <1>5. DoneInv'
    <2> SUFFICES ASSUME NEW u \in Scan, NEW t \in above[u], pc'[t] = "done"
                 PROVE  pc'[u] = "done"
      BY <1>1 DEF DoneInv
    <2>1. t \in Scan
      BY DEF IInv, TypeOK
    <2>2. CASE t # s
      <3>1. pc[t] = "done" /\ pc[u] = "done"
        BY <2>1, <2>2 DEF IInv, DoneInv
      <3> QED
        BY <3>1
    <2>3. CASE t = s
      <3>1. step = "done" /\ \A c \in Children(s) : pc[c] = "done"
        BY <2>3
      <3>2. PICK c \in Children(s) : c = u \/ c \in above[u]
        BY <2>3 DEF IInv, TreeInv
      <3>3. pc[u] = "done"
        BY <3>1, <3>2 DEF IInv, DoneInv
      <3> QED
        BY <3>3
    <2> QED
      BY <2>2, <2>3
  <1>6. MapInv'
    <2>1. \A t \in Scan : pc'[t] \in {"children", "done"} => pc[t] \in {"children", "done"}
      OBVIOUS
    <2>2. \A t \in Scan : ImportsOf(t)' = ImportsOf(t)
      BY DEF ImportsOf
    <2>3. \A m \in Module : resolved[m] # Nil =>
              \E t \in Scan : metatype[t] = resolved[m] /\ pc'[t] \in Awaiting
      BY <1>2 DEF IInv, MapInv
    <2>4. \A u \in Scan : \A t \in above[u] : resolved[ModuleOf[metatype[t]]] # Nil
      BY DEF IInv, MapInv
    <2>5. \A t \in Scan : pc'[t] \in {"children", "done"} =>
              /\ resolved[ModuleOf[metatype[t]]] # Nil
              /\ \A i \in DOMAIN ImportsOf(t) :
                     \/ resolved[ModuleOf[ImportsOf(t)[i]]] # Nil
                     \/ /\ Append(t, i) \in Scan
                        /\ metatype[Append(t, i)] = ImportsOf(t)[i]
      BY <2>1 DEF IInv, MapInv
    <2> QED
      BY <1>1, <2>2, <2>3, <2>4, <2>5 DEF MapInv
  <1>7. NoScanBelowItself'
    BY <1>1 DEF IInv, NoScanBelowItself
  <1>8. FaultInv'
    <2>1. \A d : Faulty(d)' = Faulty(d)
      BY DEF Faulty
    <2>2. ASSUME NEW t \in Scan
          PROVE  /\ pc'[t] = "imports" => metatype[t] \notin Unknown
                 /\ pc'[t] \in {"children", "done"} => ~Faulty(metatype[t])
                 /\ pc'[t] = "failed" => \E u \in Scan : Faulty(metatype[u])
      BY DEF IInv, FaultInv
    <2> QED
      BY <1>1, <2>1, <2>2 DEF FaultInv
  <1> QED
    BY <1>3, <1>4, <1>5, <1>6, <1>7, <1>8 DEF IInv

------------------------------------------------------------------------------
(* The step that starts other scans *)

LEMMA StartsPreserve ==
  ASSUME IInv, NEW s \in Scan, ImportsAwaited(s), NEW new, Starts(s, new)
  PROVE  IInv'
  <1> USE DEF Awaiting
  <1>1. /\ s \notin new /\ new \subseteq Scan' /\ Scan \subseteq Scan'
        /\ \A t \in Scan' : t \in Scan \/ t \in new
        /\ pc[s] = "imports"
        /\ \A i \in DOMAIN ImportsOf(s) : ImportsOf(s)[i] \notin Unusable
    BY DEF Starts, ImportsAwaited
  <1>2. /\ \A t \in Scan : above[t] \subseteq Scan
        /\ \A t \in Scan : metatype[t] \in Metatype
        /\ Scan \subseteq Seq(Nat)
    BY DEF IInv, TypeOK
  <1>3. \A t \in Scan : pc[t] \in Awaiting => pc'[t] = pc[t] /\ t # s
    BY <1>1 DEF Starts
  <1>4. \A t \in Scan : ImportsOf(t)' = ImportsOf(t) /\ Children(t) \subseteq Children(t)'
    <2>1. \A t \in Scan : ImportsOf(t)' = ImportsOf(t)
      BY DEF Starts, ImportsOf
    <2> QED
      BY <1>1, <2>1 DEF Children
  <1>5. \A t \in new : t \in Children(s)'
    BY <1>1, <1>4 DEF Starts, Children
  <1>6. /\ resolved' \in [Module -> Metatype \union {Nil}]
        /\ resolved'[ModuleOf[metatype[s]]] = metatype[s]
        /\ \A m \in Module : resolved'[m] = resolved[m] \/ resolved'[m] = metatype[s]
        /\ \A m \in Module : resolved[m] # Nil => resolved'[m] # Nil
    BY <1>2, MetatypeAssumption DEF Starts, ResolvedWith, IInv, TypeOK
  <1>7. TypeOK'
    <2>1. imports' \in Imports /\ Scan' \subseteq Seq(Nat)
      BY <1>2 DEF IInv, TypeOK, Starts
    <2>2. above' \in [Scan' -> SUBSET Scan']
      BY <1>1 DEF Starts
    <2> QED
      BY <1>6, <2>1, <2>2 DEF Starts, TypeOK
  <1>8. TreeInv'
    <2>1. RootScan \in Scan' /\ metatype'[RootScan] = Root
      BY <1>1 DEF Starts, IInv, TreeInv
    <2>2. \A t \in Scan' : t # RootScan => RootScan \in above'[t]
      BY <1>1 DEF Starts, IInv, TreeInv
    <2>3. \A u \in Scan' : \A t \in above'[u] :
             /\ pc'[t] \in Awaiting
             /\ \E c \in Children(t)' : c = u \/ c \in above'[u]
      <3>1. ASSUME NEW u \in Scan, NEW t \in above[u]
            PROVE  /\ pc'[t] \in Awaiting
                   /\ \E c \in Children(t)' : c = u \/ c \in above[u]
        BY <1>2, <1>3, <1>4 DEF IInv, TreeInv
      <3>2. ASSUME NEW u \in new, NEW t \in above'[u]
            PROVE  /\ pc'[t] \in Awaiting
                   /\ \E c \in Children(t)' : c = u \/ c \in above'[u]
        <4>1. above'[u] = above[s] \union {s}
          BY DEF Starts
        <4>2. CASE t = s
          BY <4>2, <1>5 DEF Starts
        <4>3. CASE t \in above[s]
          BY <4>1, <4>3, <3>1
        <4> QED
          BY <4>1, <4>2, <4>3
      <3> QED
        BY <1>1, <3>1, <3>2 DEF Starts
    <2>4. ASSUME NEW t \in Seq(Nat), NEW i \in Nat, Append(t, i) \in Scan'
          PROVE  t \in above'[Append(t, i)]
      <3>1. CASE Append(t, i) \in Scan
        BY <3>1 DEF Starts, IInv, TreeInv
      <3>2. CASE Append(t, i) \in new
        <4>1. PICK j \in DOMAIN ImportsOf(s) : Append(t, i) = Append(s, j)
          BY <3>2 DEF Starts
        <4>2. s \in Seq(Nat) /\ j \in Nat
          BY <1>2, ImportsAssumption DEF ImportsOf, IInv, TypeOK
        <4>3. t = s
          BY <4>1, <4>2, AppendInjective
        <4> QED
          BY <3>2, <4>3 DEF Starts
      <3> QED
        BY <1>1, <2>4, <3>1, <3>2
    <2> QED
      BY <2>1, <2>2, <2>3, <2>4 DEF TreeInv
  <1>9. DoneInv'
    <2> SUFFICES ASSUME NEW u \in Scan', NEW t \in above'[u], pc'[t] = "done"
                 PROVE  pc'[u] = "done"
      BY DEF DoneInv
    <2>1. CASE u \in Scan
      <3>1. t \in Scan /\ t \in above[u]
        BY <2>1, <1>2 DEF Starts
      <3>2. t # s /\ pc[t] = "done"
        BY <3>1, <1>1 DEF Starts
      <3>3. pc[u] = "done"
        BY <2>1, <3>1, <3>2 DEF IInv, DoneInv
      <3> QED
        BY <2>1, <3>3, <1>1 DEF Starts
    <2>2. CASE u \in new
      <3>1. t \in above[s]
        BY <2>2 DEF Starts
      <3>2. t # s /\ pc[t] = "done"
        BY <3>1, <1>1, <1>2 DEF Starts
      <3>3. pc[s] = "done"
        BY <3>1, <3>2 DEF IInv, DoneInv
      <3> QED
        BY <3>3, <1>1
    <2> QED
      BY <1>1, <2>1, <2>2
  <1>10. ASSUME NEW t \in Scan, resolved[ModuleOf[metatype[t]]] # Nil
         PROVE  resolved'[ModuleOf[metatype'[t]]] # Nil
    <2>1. ModuleOf[metatype[t]] \in Module /\ metatype'[t] = metatype[t]
      BY <1>2, MetatypeAssumption DEF Starts
    <2> QED
      BY <1>6, <1>10, <2>1
  <1>11. resolved'[ModuleOf[metatype'[s]]] # Nil
    BY <1>2, <1>6, MetatypeAssumption DEF Starts
  <1>12. MapInv'
    <2>1. ASSUME NEW m \in Module, resolved'[m] # Nil
          PROVE  \E t \in Scan' : metatype'[t] = resolved'[m] /\ pc'[t] \in Awaiting
      <3>1. CASE resolved'[m] = metatype[s]
        BY <3>1, <1>1 DEF Starts
      <3>2. CASE resolved'[m] = resolved[m]
        <4>1. PICK t \in Scan : metatype[t] = resolved[m] /\ pc[t] \in Awaiting
          BY <2>1, <3>2 DEF IInv, MapInv
        <4> QED
          BY <4>1, <3>2, <1>1, <1>3 DEF Starts
      <3> QED
        BY <1>6, <3>1, <3>2
    <2>2. ASSUME NEW u \in Scan', NEW t \in above'[u]
          PROVE  resolved'[ModuleOf[metatype'[t]]] # Nil
      <3>1. CASE t = s
        BY <3>1, <1>11
      <3>2. CASE t # s
        <4>1. PICK v \in Scan : t \in above[v]
          BY <1>1, <3>2 DEF Starts
        <4> QED
          BY <4>1, <1>2, <1>10 DEF IInv, MapInv
      <3> QED
        BY <3>1, <3>2
    <2>3. ASSUME NEW t \in Scan', pc'[t] \in {"children", "done"}
          PROVE  resolved'[ModuleOf[metatype'[t]]] # Nil
      <3>1. CASE t = s
        BY <3>1, <1>11
      <3>2. CASE t # s
        <4>1. t \in Scan /\ pc[t] \in {"children", "done"}
          BY <2>3, <3>2, <1>1 DEF Starts
        <4> QED
          BY <4>1, <1>10 DEF IInv, MapInv
      <3> QED
        BY <3>1, <3>2
    <2>4. ASSUME NEW t \in Scan', pc'[t] \in {"children", "done"},
                 NEW i \in DOMAIN ImportsOf(t)'
          PROVE  \/ resolved'[ModuleOf[ImportsOf(t)'[i]]] # Nil
                 \/ Append(t, i) \in Scan' /\ metatype'[Append(t, i)] = ImportsOf(t)'[i]
      <3>1. CASE t = s
        <4>1. ImportsOf(s)' = ImportsOf(s) /\ i \in DOMAIN ImportsOf(s)
          BY <3>1, <1>4
        <4>2. i \in Nat /\ s \in Seq(Nat)
          BY <4>1, <1>2, ImportsAssumption DEF ImportsOf, IInv, TypeOK
        <4>3. CASE IsScanned(s, i)
          <5>1. Append(s, i) \in new
            BY <2>4, <3>1, <4>1, <4>3 DEF Starts
          <5>2. PICK j \in DOMAIN ImportsOf(s) :
                   Append(s, i) = Append(s, j) /\ metatype'[Append(s, i)] = ImportsOf(s)[j]
            BY <5>1 DEF Starts
          <5>3. j \in Nat
            BY <1>2, ImportsAssumption DEF ImportsOf, IInv, TypeOK
          <5>4. i = j
            BY <4>2, <5>2, <5>3, AppendInjective
          <5> QED
            BY <3>1, <4>1, <5>1, <5>2, <5>4, <1>1
        <4>4. CASE ~IsScanned(s, i)
          BY <3>1, <4>1, <4>4 DEF Starts, IsScanned
        <4> QED
          BY <4>3, <4>4
      <3>2. CASE t # s
        <4>1. t \in Scan /\ pc[t] \in {"children", "done"} /\ i \in DOMAIN ImportsOf(t)
          BY <2>4, <3>2, <1>1, <1>4 DEF Starts
        <4>2. ImportsOf(t)' = ImportsOf(t)
          BY <4>1, <1>4
        <4>3. ImportsOf(t)[i] \in Metatype /\ ModuleOf[ImportsOf(t)[i]] \in Module
          BY <4>1, <1>2, ImportsAssumption, MetatypeAssumption
             DEF ImportsOf, IInv, TypeOK
        <4>4. \/ resolved[ModuleOf[ImportsOf(t)[i]]] # Nil
              \/ Append(t, i) \in Scan /\ metatype[Append(t, i)] = ImportsOf(t)[i]
          BY <4>1 DEF IInv, MapInv
        <4> QED
          BY <4>2, <4>3, <4>4, <1>1, <1>6 DEF Starts
      <3> QED
        BY <3>1, <3>2
    <2> QED
      BY <2>1, <2>2, <2>3, <2>4 DEF MapInv
  <1>13. NoScanBelowItself'
    <2> SUFFICES ASSUME NEW u \in Scan', NEW t \in above'[u],
                        ModuleOf[metatype'[u]] = ModuleOf[metatype'[t]]
                 PROVE  metatype'[u] \in Promised
      BY DEF NoScanBelowItself
    <2>1. CASE u \in Scan
      BY <2>1, <1>2 DEF Starts, IInv, NoScanBelowItself
    <2>2. CASE u \in new
      <3>1. resolved'[ModuleOf[metatype'[t]]] # Nil
        <4>1. CASE t = s
          BY <4>1, <1>11
        <4>2. CASE t \in above[s]
          BY <4>2, <1>2, <1>10 DEF IInv, MapInv
        <4> QED
          BY <2>2, <4>1, <4>2 DEF Starts
      <3>2. PICK i \in DOMAIN ImportsOf(s) :
               metatype'[u] = ImportsOf(s)[i] /\ IsScanned(s, i)
        BY <2>2 DEF Starts
      <3> QED
        BY <3>1, <3>2 DEF IsScanned, Starts
    <2> QED
      BY <1>1, <2>1, <2>2
  <1>14. FaultInv'
    <2>1. \A d : Faulty(d)' = Faulty(d)
      BY DEF Faulty, Starts
    <2>2. ASSUME NEW t \in Scan'
          PROVE  /\ pc'[t] = "imports" => metatype'[t] \notin Unknown
                 /\ pc'[t] \in {"children", "done"} => ~Faulty(metatype'[t])
                 /\ pc'[t] = "failed" => \E u \in Scan' : Faulty(metatype'[u])
      <3>1. CASE t = s
        <4>1. metatype'[t] = metatype[s] /\ metatype[s] \notin Unknown
          BY <3>1, <1>1 DEF Starts, IInv, FaultInv
        <4>2. pc'[s] = "children" => ~Faulty(metatype[s])
          BY <4>1, <1>1 DEF Starts, Faulty, IsCircular, ImportsOf
        <4>3. pc'[s] = "failed" => Faulty(metatype[s])
          BY <1>1 DEF Starts, Faulty, IsCircular, ImportsOf
        <4> QED
          BY <3>1, <4>1, <4>2, <4>3, <1>1 DEF Starts
      <3>2. CASE t \in Scan /\ t # s
        BY <3>2, <1>1 DEF Starts, IInv, FaultInv
      <3>3. CASE t \in new
        BY <3>3 DEF Starts
      <3> QED
        BY <1>1, <3>1, <3>2, <3>3
    <2> QED
      BY <2>1, <2>2 DEF FaultInv
  <1> QED
    BY <1>7, <1>8, <1>9, <1>12, <1>13, <1>14 DEF IInv

------------------------------------------------------------------------------
(* The theorems *)

\* Every step of a scan keeps the invariants.
LEMMA IInvStep == IInv /\ [Next]_vars => IInv'
  <1> SUFFICES ASSUME IInv, [Next]_vars
               PROVE  IInv'
    OBVIOUS
  <1>1. ASSUME NEW s \in Scan, Reflected(s)
        PROVE  IInv'
    <2>1. CASE metatype[s] \in Unknown
      <3>1. Moves(s, "failed") /\ Faulty(metatype[s])
        BY <1>1, <2>1, GotoMoves DEF Reflected, IInv, Faulty
      <3> QED
        BY <1>1, <3>1, MovesPreserve DEF Reflected
    <2>2. CASE metatype[s] \notin Unknown
      <3>1. Moves(s, "imports")
        BY <1>1, <2>2, GotoMoves DEF Reflected, IInv
      <3> QED
        BY <1>1, <2>2, <3>1, MovesPreserve DEF Reflected
    <2> QED
      BY <2>1, <2>2
  <1>2. ASSUME NEW s \in Scan, ImportsFailed(s)
        PROVE  IInv'
    <2>1. Moves(s, "failed") /\ Faulty(metatype[s])
      BY <1>2, GotoMoves DEF ImportsFailed, IInv, Faulty, ImportsOf
    <2> QED
      BY <1>2, <2>1, MovesPreserve DEF ImportsFailed
  <1>3. ASSUME NEW s \in Scan, ImportsAwaited(s)
        PROVE  IInv'
    BY <1>3, ImportsAwaitedStarts, StartsPreserve
  <1>4. ASSUME NEW s \in Scan, ChildrenDone(s)
        PROVE  IInv'
    <2>1. Moves(s, "done")
      BY <1>4, GotoMoves DEF ChildrenDone, IInv
    <2> QED
      BY <1>4, <2>1, MovesPreserve DEF ChildrenDone
  <1>5. ASSUME NEW s \in Scan, ChildFailed(s)
        PROVE  IInv'
    <2>1. Moves(s, "failed") /\ \E t \in Scan : Faulty(metatype[t])
      BY <1>5, GotoMoves DEF ChildFailed, IInv, FaultInv, Children
    <2> QED
      BY <1>5, <2>1, MovesPreserve DEF ChildFailed
  <1>6. CASE UNCHANGED vars
    <2>1. /\ Scan' = Scan /\ UNCHANGED <<imports, pc, metatype, resolved, above>>
          /\ \A s : ImportsOf(s)' = ImportsOf(s) /\ Children(s)' = Children(s)
          /\ \A d : Faulty(d)' = Faulty(d)
      BY <1>6 DEF vars, Scan, ImportsOf, Children, Faulty
    <2>2. TypeOK' /\ TreeInv' /\ DoneInv'
      BY <2>1 DEF IInv, TypeOK, TreeInv, DoneInv
    <2>3. MapInv'
      BY <2>1 DEF IInv, MapInv
    <2>4. NoScanBelowItself' /\ FaultInv'
      BY <2>1 DEF IInv, NoScanBelowItself, FaultInv
    <2> QED
      BY <2>2, <2>3, <2>4 DEF IInv
  <1> QED
    BY <1>1, <1>2, <1>3, <1>4, <1>5, <1>6 DEF Next

\* The strengthened invariant holds in every state of every scan.
THEOREM Invariance == Spec => []IInv
  BY IInvInit, IInvStep, PTL DEF Spec

\* The scans and the map of definitions keep their types.
THEOREM TypeCorrectness == Spec => []TypeOK
  <1>1. IInv => TypeOK
    BY DEF IInv
  <1> QED
    BY <1>1, Invariance, PTL

\* When the root module is scanned, every other scan is over as well.
LEMMA LoadedIsQuiet == IInv => NothingLeftBehind
  BY DEF IInv, TreeInv, DoneInv, NothingLeftBehind, Loaded

\* No scan is left behind: the map does not change after it was handed over.
THEOREM Quiescence == Spec => []NothingLeftBehind
  BY Invariance, LoadedIsQuiet, PTL

\* Nothing on the way of a root module that is scanned was wrong.
THEOREM FaultsAreReported == Spec => []NoFaultIsSwallowed
  <1>1. IInv => NoFaultIsSwallowed
    BY LoadedIsQuiet DEF IInv, FaultInv, NoFaultIsSwallowed, NothingLeftBehind
  <1> QED
    BY <1>1, Invariance, PTL

\* The root module is refused only if something is wrong with a module on the way.
THEOREM RefusalsAreJustified == Spec => []RefusedForAFault
  <1>1. IInv => RefusedForAFault
    BY DEF IInv, TreeInv, FaultInv, RefusedForAFault
  <1> QED
    BY <1>1, Invariance, PTL

\* No chain of scans that await each other goes in circles.
THEOREM ChainsAreFinite == Spec => []NoScanBelowItself
  <1>1. IInv => NoScanBelowItself
    BY DEF IInv
  <1> QED
    BY <1>1, Invariance, PTL

\* The map holds the root module and is closed under imports.
THEOREM Completeness == Spec => []ScanIsComplete
  <1>1. ASSUME IInv, Loaded
        PROVE  /\ ModuleOf[Root] \in Resolved
               /\ \A m \in Resolved : ImportedBy(m) \subseteq Resolved
    <2>1. \A s \in Scan : pc[s] = "done"
      BY <1>1, LoadedIsQuiet DEF NothingLeftBehind
    <2>2. /\ ModuleOf \in [Metatype -> Module] /\ Root \in Metatype
          /\ imports \in [Metatype -> Seq(Metatype)]
          /\ metatype \in [Scan -> Metatype]
      BY <1>1, MetatypeAssumption, ImportsAssumption DEF IInv, TypeOK
    <2>3. \A s \in Scan : resolved[ModuleOf[metatype[s]]] # Nil
      BY <1>1, <2>1 DEF IInv, MapInv
    <2>4. ModuleOf[Root] \in Resolved
      BY <1>1, <2>2, <2>3 DEF IInv, TreeInv, Resolved
    <2>5. ASSUME NEW m \in Resolved, NEW k \in ImportedBy(m)
          PROVE  k \in Resolved
      <3>1. PICK s \in Scan : metatype[s] = resolved[m]
        BY <1>1 DEF IInv, MapInv, Resolved
      <3>2. PICK i \in DOMAIN ImportsOf(s) : k = ModuleOf[ImportsOf(s)[i]]
        BY <3>1 DEF ImportedBy, ImportsOf
      <3>3. k \in Module
        BY <2>2, <3>1, <3>2 DEF ImportsOf
      <3>4. \/ resolved[k] # Nil
            \/ Append(s, i) \in Scan /\ metatype[Append(s, i)] = ImportsOf(s)[i]
        BY <1>1, <2>1, <3>2 DEF IInv, MapInv
      <3>5. resolved[k] # Nil
        BY <2>3, <3>2, <3>4
      <3> QED
        BY <3>3, <3>5 DEF Resolved
    <2> QED
      BY <2>4, <2>5
  <1>2. IInv => ScanIsComplete
    BY <1>1 DEF ScanIsComplete
  <1> QED
    BY <1>2, Invariance, PTL

\* A scan that is over, of any application, has missed nothing, left nothing behind
\* and told apart the applications something is wrong with.
THEOREM Soundness == Spec => []ScanIsSound
  <1>1. ScanIsSound
        <=> /\ ScanIsComplete /\ NothingLeftBehind /\ NoScanBelowItself
            /\ NoFaultIsSwallowed /\ RefusedForAFault
    BY DEF ScanIsSound
  <1> QED
    BY <1>1, Completeness, Quiescence, ChainsAreFinite, FaultsAreReported,
       RefusalsAreJustified, PTL

------------------------------------------------------------------------------
(* BindingRegistry *)

\* Every set of numbers has a least one: what induction rests on here.
LEMMA LeastNumber ==
  ASSUME NEW S \in SUBSET Nat, S # {}
  PROVE  \E n \in S : \A m \in S : n <= m
  <1> DEFINE Less == {ss \in Nat \X Nat : ss[1] < ss[2]}
  <1>1. IsWellFoundedOn(Less, Nat)
    BY NatLessThanWellFounded DEF OpToRel
  <1> HIDE DEF Less
  <1>2. PICK n \in S : \A m \in S : <<m, n>> \notin Less
    BY <1>1, WFMin
  <1>3. \A m \in S : ~(m < n)
    BY <1>2 DEF Less
  <1> QED
    BY <1>3

------------------------------------------------------------------------------
(* The binding saved on a token *)

\* One step up the superclasses of t, which goes on with f.
StepUp(s, f, t) == IF s[t] # None \/ Super[t] = None THEN s[t] ELSE f[Super[t]]

\* f finds what is saved on the tokens of D, with all above them.
FindsIn(D, s, f) ==
    /\ D \subseteq Token
    /\ \A t \in D : Super[t] # None => Super[t] \in D
    /\ \A t \in D : f[t] = StepUp(s, f, t)

LEMMA FindingsAgree ==
  ASSUME TokensFit, NEW s, NEW D, NEW E, NEW f, NEW g, FindsIn(D, s, f), FindsIn(E,
         s, g),
         NEW t \in D \intersect E
  PROVE  f[t] = g[t]
  <1> DEFINE S == {u \in D \intersect E : f[u] # g[u]}
  <1>1. S \in SUBSET Token
    BY DEF FindsIn
  <1>2. SUFFICES ASSUME S # {} PROVE FALSE
    OBVIOUS
  <1>3. PICK u \in S : Super[u] \notin S
    BY <1>1, <1>2 DEF TokensFit
  <1>4. /\ u \in D /\ u \in E /\ f[u] # g[u]
        /\ f[u] = StepUp(s, f, u) /\ g[u] = StepUp(s, g, u)
    BY DEF FindsIn
  <1>5. Super[u] # None => Super[u] \in D \intersect E
    BY <1>4 DEF FindsIn
  <1>6. Super[u] # None => f[Super[u]] = g[Super[u]]
    BY <1>3, <1>5
  <1> QED
    BY <1>4, <1>6 DEF StepUp

LEMMA FindingExists ==
  ASSUME TokensFit, NEW s, NEW t \in Token
  PROVE  \E D, f : t \in D /\ FindsIn(D, s, f)
  <1> DEFINE S == {u \in Token : ~ \E D, f : u \in D /\ FindsIn(D, s, f)}
  <1>1. SUFFICES ASSUME S # {} PROVE FALSE
    OBVIOUS
  <1>2. PICK u \in S : Super[u] \notin S
    <2> HIDE DEF S
    <2>1. S \in SUBSET Token
      BY DEF S
    <2> QED
      BY <1>1, <2>1 DEF TokensFit
  <1>3. SUFFICES \E D, f : u \in D /\ FindsIn(D, s, f)
    OBVIOUS
  <1>4. CASE Super[u] = None
    <2>1. FindsIn({u}, s, [x \in {u} |-> s[u]])
      BY <1>4 DEF FindsIn, StepUp
    <2> QED
      BY <2>1
  <1>5. CASE Super[u] # None
    <2>1. Super[u] \in Token
      BY <1>5 DEF TokensFit
    <2>2. PICK D, f : Super[u] \in D /\ FindsIn(D, s, f)
      BY <1>2, <2>1
    <2> DEFINE g == [x \in D \union {u} |-> IF x \in D THEN f[x] ELSE StepUp(s, f, u)]
    <2>3. \A x \in D : g[x] = f[x]
      OBVIOUS
    <2>4. u \notin D => g[u] = StepUp(s, f, u)
      OBVIOUS
    <2> HIDE DEF g
    <2>5. ASSUME NEW x \in D PROVE g[x] = StepUp(s, g, x)
      <3>1. f[x] = StepUp(s, f, x) /\ (Super[x] # None => Super[x] \in D)
        BY <2>2 DEF FindsIn
      <3> QED
        BY <2>3, <3>1 DEF StepUp
    <2>6. u \notin D => g[u] = StepUp(s, g, u)
      BY <2>2, <2>3, <2>4 DEF StepUp
    <2>7. \A x \in D \union {u} : Super[x] # None => Super[x] \in D \union {u}
      BY <2>2 DEF FindsIn
    <2>8. FindsIn(D \union {u}, s, g)
      BY <2>2, <2>5, <2>6, <2>7 DEF FindsIn
    <2> QED
      BY <2>8
  <1> QED
    BY <1>4, <1>5

\* What is saved on a token is saved on its class or on the class above.
LEMMA SavedIs ==
  ASSUME TokensFit, NEW s, NEW t \in Token
  PROVE  SavedOn(t, s) = IF s[t] # None \/ Super[t] = None THEN s[t]
                         ELSE SavedOn(Super[t], s)
  <1> DEFINE P(u, v) == \E D, f : u \in D /\ FindsIn(D, s, f) /\ v = f[u]
             F == [u \in Token |-> CHOOSE v : P(u, v)]
             G(f) == [u \in Token |->
                        IF s[u] # None \/ Super[u] = None THEN s[u] ELSE f[Super[u]]]
  <1>1. ASSUME NEW D, NEW f, FindsIn(D, s, f), NEW u \in D
        PROVE  F[u] = f[u]
    <2>1. u \in Token
      BY <1>1 DEF FindsIn
    <2>2. P(u, f[u])
      BY <1>1
    <2>3. ASSUME NEW v, P(u, v) PROVE v = f[u]
      <3>1. PICK E, g : u \in E /\ FindsIn(E, s, g) /\ v = g[u]
        BY <2>3
      <3>2. u \in D \intersect E
        BY <1>1, <3>1
      <3> QED
        BY <1>1, <3>1, <3>2, FindingsAgree
    <2>4. P(u, CHOOSE v : P(u, v))
      BY <2>2
    <2>5. F[u] = CHOOSE v : P(u, v)
      BY <2>1
    <2> HIDE DEF P
    <2> QED
      BY <2>3, <2>4, <2>5
  <1>2. F = [u \in Token |-> F[u]]
    OBVIOUS
  <1> HIDE DEF F, P
  <1>3. ASSUME NEW u \in Token PROVE F[u] = StepUp(s, F, u)
    <2>1. PICK D, f : u \in D /\ FindsIn(D, s, f)
      BY FindingExists
    <2>2. F[u] = f[u] /\ f[u] = StepUp(s, f, u)
      BY <1>1, <2>1 DEF FindsIn
    <2>3. Super[u] # None => Super[u] \in D /\ F[Super[u]] = f[Super[u]]
      BY <1>1, <2>1 DEF FindsIn
    <2> QED
      BY <2>2, <2>3 DEF StepUp
  <1>4. F = G(F)
    BY <1>2, <1>3 DEF StepUp
  <1> DEFINE found == CHOOSE f : f = G(f)
  <1>5. found = G(found)
    <2> HIDE DEF G
    <2> QED
      BY <1>4
  <1>6. \A u \in Token : SavedOn(u, s) = found[u]
    BY DEF SavedOn
  <1>7. \A u \in Token : Super[u] # None => Super[u] \in Token
    BY DEF TokensFit
  <1> HIDE DEF found
  <1>8. found[t] = IF s[t] # None \/ Super[t] = None THEN s[t] ELSE found[Super[t]]
    <2>1. G(found)[t] = IF s[t] # None \/ Super[t] = None THEN s[t] ELSE found[Super[t]]
      OBVIOUS
    <2> HIDE DEF G
    <2> QED
      BY <1>5, <2>1
  <1> QED
    BY <1>6, <1>7, <1>8

------------------------------------------------------------------------------
(* The work of an injector *)

StepDone(h, jobs, f, n) == IF n = 0 THEN Work(h) ELSE Done(f[n - 1], h, jobs[n])

LEMMA AfterExists ==
  ASSUME NEW h, NEW jobs, Len(jobs) \in Nat
  PROVE  \E f : f = [n \in 0 .. Len(jobs) |-> StepDone(h, jobs, f, n)]
  <1> DEFINE UpTo(m, f) == \A n \in 0 .. m : f[n] = StepDone(h, jobs, f, n)
             S == {m \in Nat : ~ \E f : UpTo(m, f)}
  <1>1. S = {}
    <2> SUFFICES ASSUME S # {} PROVE FALSE
      OBVIOUS
    <2>1. PICK k \in S : \A m \in S : k <= m
      BY LeastNumber
    <2>2. k # 0
      <3>1. UpTo(0, [n \in {0} |-> Work(h)])
        BY DEF StepDone
      <3> QED
        BY <2>1, <3>1
    <2>3. k - 1 \in Nat /\ k - 1 \notin S
      <3> HIDE DEF S
      <3>1. S \in SUBSET Nat
        BY DEF S
      <3> QED
        BY <2>1, <2>2, <3>1
    <2>4. PICK f : UpTo(k - 1, f)
      BY <2>3
    <2> DEFINE g == [n \in 0 .. k |-> IF n = k THEN StepDone(h, jobs, f, k) ELSE f[n]]
    <2>5. \A n \in 0 .. k : g[n] = IF n = k THEN StepDone(h, jobs, f, k) ELSE f[n]
      OBVIOUS
    <2> HIDE DEF g
    <2>6. ASSUME NEW n \in 0 .. k PROVE g[n] = StepDone(h, jobs, g, n)
      <3>1. g[n] = StepDone(h, jobs, f, n)
        <4>1. CASE n = k
          BY <2>5, <4>1
        <4>2. CASE n # k
          <5>1. n \in 0 .. k - 1
            BY <2>1, <4>2
          <5> QED
            BY <2>4, <2>5, <4>2, <5>1
        <4> QED
          BY <4>1, <4>2
      <3>2. n # 0 => g[n - 1] = f[n - 1]
        <4>1. n # 0 => n - 1 \in 0 .. k /\ n - 1 # k
          BY <2>1
        <4> QED
          BY <2>5, <4>1
      <3> QED
        BY <3>1, <3>2 DEF StepDone
    <2>7. UpTo(k, g)
      BY <2>6
    <2> HIDE DEF UpTo
    <2> QED
      BY <2>1, <2>7
  <1>2. PICK f : UpTo(Len(jobs), f)
    BY <1>1
  <1> DEFINE F == [n \in 0 .. Len(jobs) |-> f[n]]
  <1>3. ASSUME NEW n \in 0 .. Len(jobs) PROVE F[n] = StepDone(h, jobs, F, n)
    <2>1. n # 0 => n - 1 \in 0 .. Len(jobs)
      OBVIOUS
    <2>2. n # 0 => F[n - 1] = f[n - 1]
      BY <2>1
    <2> QED
      BY <1>2, <2>2 DEF StepDone
  <1>4. F = [n \in 0 .. Len(jobs) |-> F[n]]
    OBVIOUS
  <1> HIDE DEF F
  <1>5. F = [n \in 0 .. Len(jobs) |-> StepDone(h, jobs, F, n)]
    BY <1>3, <1>4
  <1> QED
    BY <1>5

\* What the work is in whatever its jobs do keeps it in.
LEMMA AllDoneIn ==
  ASSUME NEW h, NEW jobs, Len(jobs) \in Nat, NEW W, Work(h) \in W,
         \A w \in W, n \in 1 .. Len(jobs) : Done(w, h, jobs[n]) \in W
  PROVE  AllDone(h, jobs) \in W
  <1> DEFINE G(f) == [n \in 0 .. Len(jobs) |->
                        IF n = 0 THEN Work(h) ELSE Done(f[n - 1], h, jobs[n])]
             after == CHOOSE f : f = G(f)
  <1>1. AllDone(h, jobs) = after[Len(jobs)]
    BY DEF AllDone
  <1>2. \E f : f = G(f)
    BY AfterExists DEF StepDone
  <1>3. after = G(after)
    <2> HIDE DEF G
    <2> QED
      BY <1>2
  <1> HIDE DEF after
  <1>4. ASSUME NEW n \in 0 .. Len(jobs)
        PROVE  after[n] = IF n = 0 THEN Work(h) ELSE Done(after[n - 1], h, jobs[n])
    <2>1. G(after)[n] = IF n = 0 THEN Work(h) ELSE Done(after[n - 1], h, jobs[n])
      OBVIOUS
    <2> HIDE DEF G
    <2> QED
      BY <1>3, <2>1
  <1> DEFINE S == {n \in 0 .. Len(jobs) : after[n] \notin W}
  <1>5. S = {}
    <2> SUFFICES ASSUME S # {} PROVE FALSE
      OBVIOUS
    <2>1. PICK k \in S : \A m \in S : k <= m
      <3>1. S \in SUBSET Nat
        OBVIOUS
      <3> HIDE DEF S
      <3> QED
        BY <3>1, LeastNumber
    <2>2. k # 0
      BY <1>4, <2>1
    <2>3. k \in 1 .. Len(jobs) /\ k - 1 \in 0 .. Len(jobs) /\ ~(k <= k - 1)
      BY <2>1, <2>2
    <2>4. after[k - 1] \in W
      BY <2>1, <2>3
    <2>5. after[k] = Done(after[k - 1], h, jobs[k])
      BY <1>4, <2>1, <2>2
    <2> QED
      BY <2>1, <2>3, <2>4, <2>5
  <1>6. Len(jobs) \in 0 .. Len(jobs)
    OBVIOUS
  <1> QED
    BY <1>1, <1>5, <1>6

------------------------------------------------------------------------------
(* The invariant *)

\* The bindings of a token that is not a singleton are all different.
Distinct(n, R) ==
    /\ \A t \in Token \ Singleton, h \in Holder :
          \A a \in 1 .. Len(R[h][t]) : R[h][t][a].id < n
    /\ \A t \in Token \ Singleton, h, k \in Holder :
          \A a \in 1 .. Len(R[h][t]), b \in 1 .. Len(R[k][t]) :
              R[h][t][a].id = R[k][t][b].id => h = k /\ a = b

\* What an injector records for a steady singleton is what is saved on it.
Latest(s, R) ==
    \A t \in Steady, i \in Injector : R[i][t] # <<>> => R[i][t][1] = SavedOn(t, s)

\* What is recorded for a token that is no singleton was made for the injector.
Own(h, r) == \A t \in Token \ Singleton : \A n \in 1 .. Len(r[t]) : r[t][n].holder = h

\* What is saved on a multi token that is a singleton and no class is multi.
SavedMulti(s) ==
    \A t \in Multi \intersect Singleton \intersect Classless : s[t] # None => s[t].multi

\* As many bindings are recorded for a multi token as providers were given, in order
\* unless the token is a singleton.
OrderOf(r, g, t) ==
    OnlyCustom(g, t)
    => /\ \A m \in 1 .. Len(r[t]) : r[t][m].multi
       /\ Len(r[t]) = Place(g, t, Len(g))
       /\ t \notin Singleton =>
             \A n \in 1 .. Len(g) :
                 TokenOf[g[n]] = t => r[t][Place(g, t, n)].provider = g[n]

Countable == (Multi \ Singleton) \union (Multi \intersect Classless)

InOrder(r, g) == \A t \in Countable : OrderOf(r, g, t)

\* An injector that is not there has nothing.
Untouched(h) == given[h] = <<>> /\ \A t \in Token : records[h][t] = <<>>

RegistryInv ==
    /\ RegistryTypeOK
    /\ Distinct(made, records)
    /\ Latest(saved, records)
    /\ SavedMulti(saved)
    /\ \A h \in Holder : Own(h, records[h])
    /\ \A i \in Injector : InOrder(records[i], given[i])
    /\ \A h \in Holder : state[h] # "there" => Untouched(h)

------------------------------------------------------------------------------
(* What is saved on the tokens *)

SavedMap == [Token -> Binding \union {None}]

LEMMA SavedType ==
  ASSUME TokensFit, NEW s \in SavedMap, NEW t \in Token
  PROVE  SavedOn(t, s) \in Binding \union {None}
  <1> DEFINE S == {u \in Token : SavedOn(u, s) \notin Binding \union {None}}
  <1>1. SUFFICES ASSUME S # {} PROVE FALSE
    OBVIOUS
  <1>2. PICK u \in S : Super[u] \notin S
    BY <1>1 DEF TokensFit
  <1>3. s[u] \in Binding \union {None} /\ (Super[u] # None => Super[u] \in Token)
    BY DEF SavedMap, TokensFit
  <1>4. SavedOn(u, s) = IF s[u] # None \/ Super[u] = None THEN s[u]
                            ELSE SavedOn(Super[u], s)
    BY SavedIs
  <1> QED
    BY <1>2, <1>3, <1>4

\* What is above a steady singleton is steady.
LEMMA SteadyAbove ==
  ASSUME TokensFit, NEW t \in Steady
  PROVE  t \in Singleton /\ t \in Token /\ (Super[t] # None => Super[t] \in Steady)
  <1>1. PICK S \in SUBSET Singleton :
               t \in S /\ \A u \in S : Super[u] # None => Super[u] \in S
    BY DEF Steady
  <1> QED
    BY <1>1 DEF Steady, TokensFit

\* A new binding of a token on which nothing is saved, or which is no singleton,
\* leaves what a steady singleton has found.
LEMMA SavedStays ==
  ASSUME TokensFit, NEW s \in SavedMap, NEW u \in Token, NEW b \in Binding,
         u \in Singleton => SavedOn(u, s) = None,
         NEW t \in Steady, SavedOn(t, s) # None
  PROVE  SavedOn(t, [s EXCEPT ![u] = b]) = SavedOn(t, s)
  <1> DEFINE n == [s EXCEPT ![u] = b]
             S == {v \in Steady :
                      SavedOn(v, s) # None /\ SavedOn(v, n) # SavedOn(v, s)}
  <1>1. SUFFICES ASSUME S # {} PROVE FALSE
    OBVIOUS
  <1>2. PICK v \in S : Super[v] \notin S
    <2>1. S \in SUBSET Token
      BY SteadyAbove
    <2> HIDE DEF S
    <2> QED
      BY <1>1, <2>1 DEF TokensFit
  <1>3. /\ v \in Token /\ v \in Singleton /\ (Super[v] # None => Super[v] \in Steady)
        /\ SavedOn(v, s) # None /\ SavedOn(v, n) # SavedOn(v, s)
    BY SteadyAbove
  <1>4. v # u /\ n[v] = s[v]
    BY <1>3 DEF SavedMap
  <1> HIDE DEF n
  <1>5. /\ SavedOn(v, s) = IF s[v] # None \/ Super[v] = None THEN s[v]
                               ELSE SavedOn(Super[v], s)
        /\ SavedOn(v, n) = IF n[v] # None \/ Super[v] = None THEN n[v]
                               ELSE SavedOn(Super[v], n)
    BY <1>3, SavedIs
  <1>6. CASE s[v] # None \/ Super[v] = None
    BY <1>3, <1>4, <1>5, <1>6
  <1>7. CASE ~(s[v] # None \/ Super[v] = None)
    <2>1. Super[v] \in Steady /\ SavedOn(Super[v], s) # None
      BY <1>3, <1>5, <1>7
    <2>2. SavedOn(Super[v], n) = SavedOn(Super[v], s)
      BY <1>2, <2>1
    <2> QED
      BY <1>3, <1>4, <1>5, <1>7, <2>2
  <1> QED
    BY <1>6, <1>7

------------------------------------------------------------------------------
(* What a job does *)

WorkType ==
    [saved: SavedMap, made: Nat, records: [Token -> Seq(Binding)], given: Seq(Provider),
     threw: BOOLEAN]

\* b is the binding for p: the one saved on the token, a new one that is saved, or a
\* new one for an event that is not.
Makes(w, v, h, p, b) ==
    \/ /\ IsReused(w, p) /\ b = SavedOn(TokenOf[p], w.saved)
       /\ v.saved = w.saved /\ v.made = w.made
    \/ /\ ~IsReused(w, p) /\ b = New(w, h, p)
       /\ v.saved = [w.saved EXCEPT ![TokenOf[p]] = b] /\ v.made = w.made + 1
    \/ /\ h \in Context /\ b = New(w, h, p)
       /\ v.saved = w.saved /\ v.made = w.made + 1

\* It is recorded alone, after others or not at all.
Recorded(w, v, p, b) ==
    \/ v.records = w.records
    \/ v.records = [w.records EXCEPT ![TokenOf[p]] = <<b>>]
    \/ /\ w.records[TokenOf[p]] # <<>>
       /\ v.records = [w.records EXCEPT ![TokenOf[p]] = Append(w.records[TokenOf[p]], b)]

\* createBinding gives a binding, and changes nothing but the token and the count.
LEMMA BindingMade ==
  ASSUME TokensFit, ProvidersFit, NEW h \in Holder, NEW w \in WorkType,
         NEW p \in Provider
  PROVE  /\ TokenOf[p] \in Token /\ BindingFor(w, h, p) \in Binding
         /\ New(w, h, p) \in Binding /\ Created(w, h, p) \in WorkType
         /\ Created(w, h, p).records = w.records /\ Created(w, h, p).given = w.given
         /\ Created(w, h, p).threw = w.threw
         /\ IsReused(w, p) =>
              /\ TokenOf[p] \in Singleton
              /\ BindingFor(w, h, p) = SavedOn(TokenOf[p], w.saved)
              /\ Created(w, h, p) = w
         /\ ~IsReused(w, p) =>
              /\ BindingFor(w, h, p) = New(w, h, p)
              /\ Created(w, h, p).saved = [w.saved EXCEPT ![TokenOf[p]] = New(w, h, p)]
              /\ Created(w, h, p).made = w.made + 1
  <1>1. TokenOf[p] \in Token /\ w.made \in Nat /\ w.saved \in SavedMap
    BY DEF TokensFit, WorkType
  <1>2. New(w, h, p) \in Binding
    BY <1>1 DEF New, Binding
  <1>3. SavedOn(TokenOf[p], w.saved) \in Binding \union {None}
    BY <1>1, SavedType
  <1>4. CASE IsReused(w, p)
    BY <1>1, <1>2, <1>3, <1>4 DEF IsReused, BindingFor, Created
  <1>5. CASE ~IsReused(w, p)
    <2> DEFINE x == [w.saved EXCEPT ![TokenOf[p]] = New(w, h, p)]
               y == w.made + 1
               v == [w EXCEPT !.saved = x, !.made = y]
    <2>1. Created(w, h, p) = v
      BY <1>5 DEF Created
    <2>2. x \in SavedMap /\ y \in Nat
      BY <1>1, <1>2 DEF SavedMap
    <2> HIDE DEF x, y
    <2>3. /\ v \in WorkType /\ v.records = w.records /\ v.given = w.given
          /\ v.threw = w.threw /\ v.made = y /\ v.saved = x
      BY <2>2 DEF WorkType
    <2> HIDE DEF v
    <2>4. BindingFor(w, h, p) = New(w, h, p)
      BY <1>5 DEF BindingFor
    <2> QED
      BY <1>1, <1>2, <1>5, <2>1, <2>3, <2>4 DEF x, y
  <1> QED
    BY <1>4, <1>5

\* Where a job leads: work of its type, one binding further.
Leads(w, h, p, v) ==
    /\ v \in WorkType
    /\ \E b \in Binding : Makes(w, v, h, p, b) /\ Recorded(w, v, p, b)

\* What createBinding does is one of the ways to make a binding.
LEMMA CreatedMakes ==
  ASSUME TokensFit, ProvidersFit, NEW h \in Holder, NEW w \in WorkType,
         NEW p \in Provider,
         NEW v, v.saved = Created(w, h, p).saved, v.made = Created(w, h, p).made
  PROVE  Makes(w, v, h, p, BindingFor(w, h, p))
  <1>1. CASE IsReused(w, p)
    <2>1. /\ Created(w, h, p) = w
          /\ BindingFor(w, h, p) = SavedOn(TokenOf[p], w.saved)
      BY <1>1, BindingMade
    <2> QED
      BY <1>1, <2>1 DEF Makes
  <1>2. CASE ~IsReused(w, p)
    <2>1. /\ BindingFor(w, h, p) = New(w, h, p)
          /\ Created(w, h, p).saved = [w.saved EXCEPT ![TokenOf[p]] = New(w, h, p)]
          /\ Created(w, h, p).made = w.made + 1
      BY <1>2, BindingMade
    <2> QED
      BY <1>2, <2>1 DEF Makes
  <1> QED
    BY <1>1, <1>2

\* A constructor replaces the record of the token and leaves those of the others.
LEMMA SetLeads ==
  ASSUME TokensFit, ProvidersFit, NEW h \in Holder, NEW w \in WorkType,
         NEW p \in Provider
  PROVE  /\ Leads(w, h, p, SetCreated(w, h, p))
         /\ SetCreated(w, h, p).given = Append(w.given, p)
         /\ \A t \in Token : t # TokenOf[p] =>
               SetCreated(w, h, p).records[t] = w.records[t]
  <1> DEFINE c == Created(w, h, p)
             b == BindingFor(w, h, p)
             r == [w.records EXCEPT ![TokenOf[p]] = <<b>>]
             g == Append(w.given, p)
             v == [c EXCEPT !.records = r, !.given = g]
  <1>1. /\ c \in WorkType /\ b \in Binding /\ TokenOf[p] \in Token
        /\ c.records = w.records /\ c.given = w.given
    BY BindingMade
  <1>2. SetCreated(w, h, p) = v
    <2>1. SetCreated(w, h, p) =
            [c EXCEPT !.records = [c.records EXCEPT ![TokenOf[p]] = <<b>>],
                      !.given = Append(c.given, p)]
      BY DEF SetCreated
    <2> HIDE DEF b, c
    <2> QED
      BY <1>1, <2>1
  <1>3. r \in [Token -> Seq(Binding)]
    <2> HIDE DEF b
    <2> QED
      BY <1>1 DEF WorkType
  <1>4. g \in Seq(Provider)
    BY DEF WorkType
  <1> HIDE DEF r, g, c, b
  <1>5. /\ v \in WorkType /\ v.saved = c.saved /\ v.made = c.made
        /\ v.records = r /\ v.given = g
    BY <1>1, <1>3, <1>4 DEF WorkType
  <1> HIDE DEF v
  <1>6. Makes(w, v, h, p, b)
    BY <1>5, CreatedMakes DEF b, c
  <1>7. Recorded(w, v, p, b)
    BY <1>5 DEF Recorded, r
  <1>8. \A t \in Token : t # TokenOf[p] => v.records[t] = w.records[t]
    BY <1>5 DEF WorkType, r
  <1> QED
    BY <1>1, <1>2, <1>5, <1>6, <1>7, <1>8 DEF Leads, g

\* A context records a value without a look at the token.
LEMMA ResolvedLeads ==
  ASSUME TokensFit, ProvidersFit, NEW h \in Context, NEW w \in WorkType,
         NEW p \in Provider
  PROVE  Leads(w, h, p, ResolvedAs(w, h, p))
  <1> DEFINE b == New(w, h, p)
             r == [w.records EXCEPT ![TokenOf[p]] = <<b>>]
             g == Append(w.given, p)
             v == [w EXCEPT !.made = w.made + 1, !.records = r, !.given = g]
  <1>1. b \in Binding /\ TokenOf[p] \in Token
    BY BindingMade DEF Holder
  <1>2. ResolvedAs(w, h, p) = v
    BY DEF ResolvedAs
  <1> HIDE DEF b
  <1>3. r \in [Token -> Seq(Binding)]
    BY <1>1 DEF WorkType
  <1>4. g \in Seq(Provider) /\ w.made + 1 \in Nat
    BY DEF WorkType
  <1> HIDE DEF r, g
  <1>5. v \in WorkType /\ v.saved = w.saved /\ v.made = w.made + 1 /\ v.records = r
    BY <1>3, <1>4 DEF WorkType
  <1> HIDE DEF v
  <1>6. Makes(w, v, h, p, b) /\ Recorded(w, v, p, b)
    BY <1>5 DEF Makes, Recorded, b, r
  <1> QED
    BY <1>1, <1>2, <1>5, <1>6 DEF Leads


\* The record of a token with b added.
WithLast(r, t, b) == [r EXCEPT ![t] = Append(r[t], b)]

\* Recording a multi binding, or the first of a token, adds it at the end.
LEMMA RecordAdds ==
  ASSUME NEW c \in WorkType, NEW b \in Binding, NEW t \in Token,
         c.records[t] = <<>> \/ b.multi
  PROVE  /\ Record(c, b, t) \in WorkType
         /\ Record(c, b, t).records = WithLast(c.records, t, b)
         /\ Record(c, b, t).saved = c.saved /\ Record(c, b, t).made = c.made
         /\ Record(c, b, t).given = c.given
  <1> DEFINE r == WithLast(c.records, t, b)
             v == [c EXCEPT !.records = r]
  <1>1. c.records \in [Token -> Seq(Binding)]
    BY DEF WorkType
  <1>2. c.records[t] = <<>> => Append(c.records[t], b) = <<b>>
    OBVIOUS
  <1>3. (IF b.multi THEN Append(c.records[t], b) ELSE <<b>>) = Append(c.records[t], b)
    BY <1>2
  <1>4. Record(c, b, t) = v
    BY <1>3 DEF Record, WithLast
  <1>5. r \in [Token -> Seq(Binding)]
    BY <1>1 DEF WithLast
  <1> HIDE DEF r
  <1>6. /\ v \in WorkType /\ v.records = r /\ v.saved = c.saved /\ v.made = c.made
        /\ v.given = c.given
    BY <1>5 DEF WorkType
  <1> QED
    BY <1>4, <1>6 DEF r

\* A binding that is new to an injector or multi is added at the end, any other
\* leaves the records as they are.
Added(w, h, p, v) ==
    /\ w.records[TokenOf[p]] = <<>> \/
         (w.records[TokenOf[p]][1].multi /\ BindingFor(w, h, p).multi)
    /\ v.records = WithLast(w.records, TokenOf[p], BindingFor(w, h, p))
    /\ v.given = Append(w.given, p)

Skipped(w, h, p, v) ==
    /\ w.records[TokenOf[p]] # <<>>
    /\ v.records = w.records
    /\ \/ v.given = w.given
       \/ (v.given = Append(w.given, p) /\ ~BindingFor(w, h, p).multi)

\* A turn of ɵbindProviders adds a binding at the end or leaves the records alone.
LEMMA BindLeads ==
  ASSUME TokensFit, ProvidersFit, NEW h \in Holder, NEW w \in WorkType,
         NEW p \in Provider
  PROVE  LET v == BindOne(w, h, p)
         IN  Leads(w, h, p, v) /\ (Added(w, h, p, v) \/ Skipped(w, h, p, v))
  <1> DEFINE t == TokenOf[p]
             b == BindingFor(w, h, p)
             o == Created(w, h, p)
             c == [o EXCEPT !.given = Append(o.given, p)]
             x == [o EXCEPT !.threw = TRUE]
             v == BindOne(w, h, p)
  <1>1. /\ o \in WorkType /\ b \in Binding /\ t \in Token
        /\ o.records = w.records /\ o.given = w.given
    BY BindingMade
  <1>2. v = IF w.records[t] = <<>> THEN Record(c, b, t)
            ELSE IF ~b.multi THEN IF t \in RootScoped THEN c ELSE x
            ELSE IF w.records[t][1].multi THEN Record(c, b, t) ELSE x
    BY DEF BindOne, Threw
  <1>3. /\ c \in WorkType /\ c.records = w.records /\ c.given = Append(w.given, p)
        /\ c.saved = o.saved /\ c.made = o.made
    <2> HIDE DEF o
    <2> DEFINE g == Append(o.given, p)
    <2>1. g \in Seq(Provider)
      BY <1>1 DEF WorkType
    <2> HIDE DEF g
    <2>2. /\ [o EXCEPT !.given = g] \in WorkType /\ [o EXCEPT !.given = g].given = g
          /\ [o EXCEPT !.given = g].records = o.records
          /\ [o EXCEPT !.given = g].saved = o.saved
          /\ [o EXCEPT !.given = g].made = o.made
      BY <1>1, <2>1 DEF WorkType
    <2> QED
      BY <1>1, <2>2 DEF g
  <1>4. /\ x \in WorkType /\ x.records = w.records /\ x.given = w.given
        /\ x.saved = o.saved /\ x.made = o.made
    <2> HIDE DEF o
    <2>1. /\ x \in WorkType /\ x.records = o.records /\ x.given = o.given
          /\ x.saved = o.saved /\ x.made = o.made
      BY <1>1 DEF WorkType
    <2> QED
      BY <1>1, <2>1
  <1> HIDE DEF c, x, v
  <1>5. ASSUME w.records[t] = <<>> \/ (w.records[t][1].multi /\ b.multi)
        PROVE  Leads(w, h, p, v) /\ Added(w, h, p, v)
    <2>1. v = Record(c, b, t)
      BY <1>2, <1>5
    <2>2. c.records[t] = <<>> \/ b.multi
      BY <1>3, <1>5
    <2> HIDE DEF b, t, o
    <2>3. /\ v \in WorkType /\ v.records = WithLast(c.records, t, b)
          /\ v.saved = c.saved /\ v.made = c.made /\ v.given = c.given
      BY <1>1, <1>3, <2>1, <2>2, RecordAdds
    <2>4. Makes(w, v, h, p, b)
      BY <1>3, <2>3, CreatedMakes DEF b, o
    <2>5. Recorded(w, v, p, b)
      <3>1. w.records[t] = <<>> => WithLast(w.records, t, b) =
                                     [w.records EXCEPT ![t] = <<b>>]
        BY DEF WithLast
      <3> QED
        BY <1>3, <2>3, <3>1 DEF Recorded, WithLast, t
    <2> QED
      BY <1>1, <1>3, <1>5, <2>3, <2>4, <2>5 DEF Leads, Added, b, t
  <1>6. ASSUME ~(w.records[t] = <<>> \/ (w.records[t][1].multi /\ b.multi))
        PROVE  Leads(w, h, p, v) /\ Skipped(w, h, p, v)
    <2>1. (v = c /\ ~b.multi) \/ v = x
      BY <1>2, <1>6
    <2>2. /\ v \in WorkType /\ v.records = w.records /\ v.saved = o.saved
          /\ v.made = o.made
          /\ v.given = w.given \/ (v.given = Append(w.given, p) /\ ~b.multi)
      BY <1>3, <1>4, <2>1
    <2>3. Makes(w, v, h, p, b)
      BY <2>2, CreatedMakes
    <2> HIDE DEF b, o
    <2>4. Recorded(w, v, p, b)
      BY <2>2 DEF Recorded
    <2> QED
      BY <1>1, <1>6, <2>2, <2>3, <2>4 DEF Leads, Skipped, b
  <1> QED
    BY <1>5, <1>6 DEF v

------------------------------------------------------------------------------
(* What a job keeps *)

\* Numbers are below the count, and stay there.
LEMMA StaysBelow ==
  ASSUME NEW n \in Nat, NEW x \in Nat, x < n, NEW m \in {n, n + 1}
  PROVE  x < m
  OBVIOUS

\* A binding that is recorded for a token that is no singleton is a new one.
LEMMA KeepsDistinct ==
  ASSUME TokensFit, NEW h \in Holder, NEW w \in WorkType, NEW v \in WorkType,
         NEW p \in Provider, NEW b \in Binding,
         Makes(w, v, h, p, b), Recorded(w, v, p, b),
         records \in [Holder -> [Token -> Seq(Binding)]],
         Distinct(w.made, [records EXCEPT ![h] = w.records])
  PROVE  Distinct(v.made, [records EXCEPT ![h] = v.records])
  <1> DEFINE R == [records EXCEPT ![h] = w.records]
             Q == [records EXCEPT ![h] = v.records]
             u == TokenOf[p]
  <1>1. /\ R[h] = w.records /\ Q[h] = v.records
        /\ \A k \in Holder \ {h} : Q[k] = R[k]
        /\ \A k \in Holder : R[k] \in [Token -> Seq(Binding)]
        /\ \A k \in Holder : Q[k] \in [Token -> Seq(Binding)]
    BY DEF WorkType
  <1>2. w.made \in Nat /\ v.made \in {w.made, w.made + 1} /\ u \in Token
    BY DEF WorkType, Makes, TokensFit
  <1>3. Distinct(w.made, R)
    OBVIOUS
  <1> HIDE DEF R, Q
  <1>4. ASSUME NEW t \in Token, t = u => u \in Singleton, t \notin Singleton
        PROVE  v.records[t] = w.records[t]
    BY <1>1, <1>4 DEF Recorded
  <1>5. CASE u \in Singleton
    <2>1. \A t \in Token \ Singleton, k \in Holder : Q[k][t] = R[k][t]
      BY <1>1, <1>4, <1>5
    <2>2. \A t \in Token \ Singleton, k \in Holder, a \in Nat :
             a \in 1 .. Len(R[k][t]) => R[k][t][a].id \in Nat
      <3>1. ASSUME NEW t \in Token, NEW k \in Holder, NEW a \in 1 .. Len(R[k][t])
            PROVE  R[k][t][a].id \in Nat
        <4>1. R[k][t] \in Seq(Binding)
          BY <1>1
        <4>2. R[k][t][a] \in Binding
          BY <4>1, <3>1
        <4> QED
          BY <4>2 DEF Binding
      <3> QED
        BY <3>1
    <2>3. \A t \in Token \ Singleton, k \in Holder :
             \A a \in 1 .. Len(R[k][t]) : R[k][t][a].id < v.made
      <3>1. ASSUME NEW t \in Token \ Singleton, NEW k \in Holder,
                   NEW a \in 1 .. Len(R[k][t])
            PROVE  R[k][t][a].id < v.made
        <4>1. R[k][t][a].id < w.made /\ R[k][t][a].id \in Nat
          BY <1>3, <2>2, <3>1 DEF Distinct
        <4> QED
          BY <1>2, <4>1, StaysBelow
      <3> QED
        BY <3>1
    <2>4. Distinct(v.made, Q)
      <3>1. \A t \in Token \ Singleton, k, l \in Holder :
               \A a \in 1 .. Len(R[k][t]), c \in 1 .. Len(R[l][t]) :
                   R[k][t][a].id = R[l][t][c].id => k = l /\ a = c
        BY <1>3 DEF Distinct
      <3>2. ASSUME NEW t \in Token \ Singleton, NEW k \in Holder, NEW l \in Holder,
                   NEW a \in 1 .. Len(Q[k][t]), NEW c \in 1 .. Len(Q[l][t]),
                   Q[k][t][a].id = Q[l][t][c].id
            PROVE  k = l /\ a = c
        <4>1. Q[k][t] = R[k][t] /\ Q[l][t] = R[l][t]
          BY <2>1, <3>2
        <4>2. /\ a \in 1 .. Len(R[k][t]) /\ c \in 1 .. Len(R[l][t])
              /\ R[k][t][a].id = R[l][t][c].id
          BY <3>2, <4>1
        <4>3. t \in Token \ Singleton /\ k \in Holder /\ l \in Holder
          OBVIOUS
        <4>4. \A x \in 1 .. Len(R[k][t]), y \in 1 .. Len(R[l][t]) :
                 R[k][t][x].id = R[l][t][y].id => k = l /\ x = y
          BY <3>1, <4>3
        <4> QED
          BY <4>2, <4>4
      <3>3. ASSUME NEW t \in Token \ Singleton, NEW k \in Holder,
                   NEW a \in 1 .. Len(Q[k][t])
            PROVE  Q[k][t][a].id < v.made
        BY <2>1, <2>3, <3>3
      <3> QED
        BY <3>2, <3>3 DEF Distinct
    <2> QED
      BY <2>4 DEF Q
  <1>6. CASE u \notin Singleton
    <2>1. b.id = w.made /\ v.made = w.made + 1
      BY <1>6 DEF Makes, IsReused, New
    <2>2. ASSUME NEW t \in Token \ Singleton, NEW k \in Holder,
                 NEW a \in 1 .. Len(Q[k][t])
          PROVE  \/ a \in 1 .. Len(R[k][t]) /\ Q[k][t][a] = R[k][t][a]
                                           /\ R[k][t][a].id < w.made
                 \/ /\ k = h /\ t = u /\ Q[k][t][a] = b
                    /\ Len(Q[k][t]) = a
      <3>1. CASE k = h /\ t = u
        <4>1. R[k][t] \in Seq(Binding)
          BY <1>1
        <4>2. Q[k][t] \in {R[k][t], <<b>>, Append(R[k][t], b)}
          <5>1. v.records[u] \in {w.records[u], <<b>>, Append(w.records[u], b)}
            <6>1. w.records \in [Token -> Seq(Binding)]
              BY DEF WorkType
            <6>2. \/ v.records = w.records
                  \/ v.records = [w.records EXCEPT ![u] = <<b>>]
                  \/ v.records = [w.records EXCEPT ![u] = Append(w.records[u], b)]
              BY DEF Recorded
            <6> QED
              BY <1>2, <6>1, <6>2
          <5> QED
            BY <1>1, <3>1, <5>1
        <4>3. Q[k][t] = R[k][t] => R[k][t][a].id < w.made
          BY <1>3, <2>2 DEF Distinct
        <4>4. CASE Q[k][t] = R[k][t]
          BY <2>2, <4>3, <4>4
        <4>5. CASE Q[k][t] = <<b>>
          BY <2>2, <3>1, <4>5
        <4>6. CASE Q[k][t] = Append(R[k][t], b)
          <5>1. CASE a = Len(R[k][t]) + 1
            BY <3>1, <4>1, <4>6, <5>1
          <5>2. CASE a # Len(R[k][t]) + 1
            <6>1. a \in 1 .. Len(R[k][t]) /\ Q[k][t][a] = R[k][t][a]
              BY <2>2, <4>1, <4>6, <5>2
            <6> QED
              BY <1>3, <6>1 DEF Distinct
          <5> QED
            BY <5>1, <5>2
        <4> QED
          BY <4>2, <4>4, <4>5, <4>6
      <3>2. CASE ~(k = h /\ t = u)
        <4>1. Q[k][t] = R[k][t]
          BY <1>1, <1>4, <2>2, <3>2
        <4> QED
          BY <1>3, <2>2, <4>1 DEF Distinct
      <3> QED
        BY <3>1, <3>2
    <2>3. ASSUME NEW t \in Token \ Singleton, NEW k \in Holder,
                 NEW a \in 1 .. Len(Q[k][t])
          PROVE  Q[k][t][a].id \in Nat
      <3>1. Q[k][t] \in Seq(Binding)
        BY <1>1
      <3>2. Q[k][t][a] \in Binding
        BY <2>3, <3>1
      <3> QED
        BY <3>2 DEF Binding
    <2>4. ASSUME NEW t \in Token \ Singleton, NEW k \in Holder,
                 NEW a \in 1 .. Len(Q[k][t])
          PROVE  Q[k][t][a].id < v.made
      <3>1. Q[k][t][a].id \in Nat
        BY <2>3, <2>4
      <3>2. Q[k][t][a].id < w.made \/ Q[k][t][a].id = w.made
        BY <2>1, <2>2, <2>4
      <3> QED
        BY <1>2, <2>1, <3>1, <3>2
    <2>5. ASSUME NEW t \in Token \ Singleton, NEW k \in Holder, NEW l \in Holder,
                 NEW a \in 1 .. Len(Q[k][t]), NEW c \in 1 .. Len(Q[l][t]),
                 Q[k][t][a].id = Q[l][t][c].id
          PROVE  k = l /\ a = c
      <3>1. CASE a \in 1 .. Len(R[k][t]) /\ Q[k][t][a] = R[k][t][a] /\ R[k][t][a].id < w.made
        <4>1. Q[l][t][c].id < w.made
          BY <2>5, <3>1
        <4>2. Q[l][t][c] # b
          BY <1>2, <2>1, <4>1
        <4>3. c \in 1 .. Len(R[l][t]) /\ Q[l][t][c] = R[l][t][c]
          BY <2>2, <2>5, <4>2
        <4>4. \A m \in 1 .. Len(R[k][t]), n \in 1 .. Len(R[l][t]) :
                 R[k][t][m].id = R[l][t][n].id => k = l /\ m = n
          BY <1>3, <2>5 DEF Distinct
        <4>5. R[k][t][a].id = R[l][t][c].id
          BY <2>5, <3>1, <4>3
        <4> QED
          BY <3>1, <4>3, <4>4, <4>5
      <3>2. CASE k = h /\ t = u /\ Q[k][t][a] = b /\ Len(Q[k][t]) = a
        <4>1. Q[l][t][c].id = w.made
          BY <2>1, <2>5, <3>2
        <4>2. \/ /\ Q[l][t][c] = R[l][t][c] /\ R[l][t][c].id < w.made
              \/ /\ l = h /\ t = u /\ Len(Q[l][t]) = c
          BY <2>2, <2>5
        <4>3. l = h /\ Len(Q[l][t]) = c
          <5>1. ~(w.made < w.made)
            BY <1>2
          <5>2. ~(Q[l][t][c] = R[l][t][c] /\ R[l][t][c].id < w.made)
            BY <4>1, <5>1
          <5> QED
            BY <4>2, <5>2
        <4> QED
          BY <3>2, <4>3
      <3> QED
        BY <2>2, <2>5, <3>1, <3>2
    <2> QED
      BY <2>4, <2>5 DEF Distinct, Q
  <1> QED
    BY <1>5, <1>6

\* The binding recorded for a steady singleton is the one now saved on it, and what
\* was recorded before stays what is saved.
LEMMA KeepsLatest ==
  ASSUME TokensFit, NEW h \in Holder, NEW w \in WorkType, NEW v \in WorkType,
         NEW p \in Provider, NEW b \in Binding,
         Makes(w, v, h, p, b), Recorded(w, v, p, b),
         records \in [Holder -> [Token -> Seq(Binding)]],
         Injector \intersect Context = {},
         Latest(w.saved, [records EXCEPT ![h] = w.records])
  PROVE  Latest(v.saved, [records EXCEPT ![h] = v.records])
  <1> DEFINE R == [records EXCEPT ![h] = w.records]
             Q == [records EXCEPT ![h] = v.records]
             u == TokenOf[p]
  <1>1. /\ R[h] = w.records /\ Q[h] = v.records
        /\ \A k \in Holder \ {h} : Q[k] = R[k]
        /\ \A k \in Holder : R[k] \in [Token -> Seq(Binding)]
    BY DEF WorkType
  <1>2. u \in Token /\ w.saved \in SavedMap /\ b # None
    BY DEF WorkType, TokensFit
  <1>3. Latest(w.saved, R)
    OBVIOUS
  <1> HIDE DEF R, Q
  <1>4. ASSUME NEW t \in Steady, SavedOn(t, w.saved) # None
        PROVE  SavedOn(t, v.saved) = SavedOn(t, w.saved)
    <2>1. CASE v.saved = w.saved
      BY <2>1
    <2>2. CASE ~IsReused(w, p) /\ v.saved = [w.saved EXCEPT ![u] = b]
      <3>1. u \in Singleton => SavedOn(u, w.saved) = None
        BY <2>2 DEF IsReused
      <3> HIDE DEF u
      <3>2. SavedOn(t, [w.saved EXCEPT ![u] = b]) = SavedOn(t, w.saved)
        BY <1>2, <1>4, <3>1, SavedStays
      <3> QED
        BY <2>2, <3>2
    <2> QED
      BY <2>1, <2>2 DEF Makes
  <1>5. ASSUME NEW t \in Steady, NEW i \in Injector, Q[i][t] # <<>>
        PROVE  Q[i][t][1] = SavedOn(t, v.saved)
    <2>1. t \in Token /\ t \in Singleton /\ i \in Holder
      BY SteadyAbove DEF Holder
    <2>2. R[i][t] \in Seq(Binding)
      BY <1>1, <2>1
    <2>3. CASE R[i][t] # <<>> /\ Q[i][t][1] = R[i][t][1]
      <3>1. R[i][t][1] = SavedOn(t, w.saved)
        BY <1>3, <2>3 DEF Latest
      <3>2. R[i][t][1] \in Binding
        BY <2>2, <2>3
      <3>3. SavedOn(t, w.saved) # None
        BY <3>1, <3>2 DEF TokensFit
      <3> QED
        BY <1>4, <2>3, <3>1, <3>3
    <2>4. CASE i = h /\ t = u /\ Q[i][t] = <<b>>
      <3>1. h \notin Context
        BY <2>4
      <3>2. CASE IsReused(w, p) /\ b = SavedOn(t, w.saved)
        BY <1>2, <1>4, <2>4, <3>2
      <3>3. CASE v.saved = [w.saved EXCEPT ![t] = b]
        <4>1. v.saved[t] = b
          BY <1>2, <2>1, <3>3 DEF SavedMap
        <4>2. SavedOn(t, v.saved) = b
          BY <1>2, <2>1, <4>1, SavedIs
        <4> QED
          BY <2>4, <4>2
      <3> QED
        BY <2>4, <3>1, <3>2, <3>3 DEF Makes
    <2>5. \/ Q[i][t] = R[i][t]
          \/ i = h /\ t = u /\ Q[i][t] = <<b>>
          \/ R[i][t] # <<>> /\ Q[i][t] = Append(R[i][t], b)
      <3>1. CASE i = h /\ t = u
        BY <1>1, <2>1, <3>1 DEF Recorded
      <3>2. CASE i = h /\ t # u
        BY <1>1, <2>1, <3>2 DEF Recorded
      <3>3. CASE i # h
        BY <1>1, <2>1, <3>3
      <3> QED
        BY <3>1, <3>2, <3>3
    <2>6. R[i][t] # <<>> /\ Q[i][t] = Append(R[i][t], b) => Q[i][t][1] = R[i][t][1]
      <3>1. R[i][t] # <<>> => 1 \in 1 .. Len(R[i][t])
        BY <2>2
      <3> QED
        BY <2>2, <3>1
    <2> QED
      BY <1>5, <2>3, <2>4, <2>5, <2>6
  <1> QED
    BY <1>5 DEF Latest, Q

------------------------------------------------------------------------------
(* The order of the providers of a multi token *)

\* Places are numbers.
LEMMA PlaceType ==
  ASSUME NEW g \in Seq(Provider), NEW t, NEW n \in 0 .. Len(g)
  PROVE  /\ IsFiniteSet({m \in 1 .. n : TokenOf[g[m]] = t})
         /\ Place(g, t, n) \in Nat
  <1>1. IsFiniteSet(1 .. n)
    BY FS_Interval
  <1>2. IsFiniteSet({m \in 1 .. n : TokenOf[g[m]] = t})
    BY <1>1, FS_Subset
  <1> QED
    BY <1>2, FS_CardinalityType DEF Place

\* The place of a provider of the token is one of those that are counted.
LEMMA PlaceBounds ==
  ASSUME NEW g \in Seq(Provider), NEW t, NEW n \in 1 .. Len(g), TokenOf[g[n]] = t
  PROVE  Place(g, t, n) \in 1 .. Place(g, t, Len(g))
  <1> DEFINE S == {m \in 1 .. n : TokenOf[g[m]] = t}
             A == {m \in 1 .. Len(g) : TokenOf[g[m]] = t}
  <1>1. /\ IsFiniteSet(S) /\ IsFiniteSet(A) /\ Place(g, t, n) \in Nat
        /\ Place(g, t, Len(g)) \in Nat
    <2>1. n \in 0 .. Len(g) /\ Len(g) \in 0 .. Len(g)
      OBVIOUS
    <2> QED
      BY <2>1, PlaceType
  <1>2. S \subseteq A /\ n \in S
    OBVIOUS
  <1>3. Cardinality(S) <= Cardinality(A)
    BY <1>1, <1>2, FS_Subset
  <1>4. Cardinality(S) # 0
    BY <1>1, <1>2, FS_EmptySet
  <1> QED
    BY <1>1, <1>3, <1>4 DEF Place

\* What is given last counts for its own token, after all the others.
LEMMA PlaceOfLast ==
  ASSUME NEW g \in Seq(Provider), NEW p \in Provider, NEW t
  PROVE  /\ \A n \in 0 .. Len(g) : Place(Append(g, p), t, n) = Place(g, t, n)
         /\ Place(Append(g, p), t, Len(g) + 1) =
              IF TokenOf[p] = t THEN Place(g, t, Len(g)) + 1 ELSE Place(g, t, Len(g))
  <1> DEFINE a == Append(g, p)
             S == {m \in 1 .. Len(g) : TokenOf[g[m]] = t}
             A == {m \in 1 .. Len(g) + 1 : TokenOf[a[m]] = t}
  <1>1. a[Len(g) + 1] = p /\ \A m \in 1 .. Len(g) : a[m] = g[m]
    OBVIOUS
  <1> HIDE DEF a
  <1>2. ASSUME NEW n \in 0 .. Len(g) PROVE Place(a, t, n) = Place(g, t, n)
    <2>1. {m \in 1 .. n : TokenOf[a[m]] = t} = {m \in 1 .. n : TokenOf[g[m]] = t}
      BY <1>1
    <2> QED
      BY <2>1 DEF Place
  <1>3. IsFiniteSet(S) /\ Cardinality(S) = Place(g, t, Len(g))
    <2>1. Len(g) \in 0 .. Len(g)
      OBVIOUS
    <2> QED
      BY <2>1, PlaceType DEF Place
  <1>4. CASE TokenOf[p] = t
    <2>1. A = S \union {Len(g) + 1} /\ Len(g) + 1 \notin S
      BY <1>1, <1>4
    <2> HIDE DEF A, S
    <2>2. Cardinality(A) = Cardinality(S) + 1
      BY <1>3, <2>1, FS_AddElement
    <2> QED
      BY <1>2, <1>3, <1>4, <2>2 DEF Place, A, a
  <1>5. CASE TokenOf[p] # t
    <2>1. A = S
      BY <1>1, <1>5
    <2> QED
      BY <1>2, <1>3, <1>5, <2>1 DEF Place, a
  <1> QED
    BY <1>4, <1>5

\* A provider of another token leaves the order of t.
LEMMA OrderOfOthers ==
  ASSUME NEW g \in Seq(Provider), NEW p \in Provider, NEW r, NEW q, NEW t,
         TokenOf[p] # t, q[t] = r[t], OrderOf(r, g, t)
  PROVE  OrderOf(q, Append(g, p), t)
  <1> DEFINE a == Append(g, p)
  <1>1. /\ Len(a) = Len(g) + 1 /\ Len(g) \in Nat /\ a[Len(g) + 1] = p
        /\ \A m \in 1 .. Len(g) : a[m] = g[m]
    OBVIOUS
  <1>2. /\ Place(a, t, Len(g) + 1) = Place(g, t, Len(g))
        /\ \A n \in 0 .. Len(g) : Place(a, t, n) = Place(g, t, n)
    BY PlaceOfLast
  <1> HIDE DEF a
  <1>3. SUFFICES ASSUME OnlyCustom(a, t)
                 PROVE  /\ \A m \in 1 .. Len(q[t]) : q[t][m].multi
                        /\ Len(q[t]) = Place(a, t, Len(a))
                        /\ t \notin Singleton =>
                             \A n \in 1 .. Len(a) :
                               TokenOf[a[n]] = t => q[t][Place(a, t, n)].provider = a[n]
    BY DEF OrderOf, a
  <1>4. OnlyCustom(g, t)
    BY <1>1, <1>3 DEF OnlyCustom
  <1>5. /\ \A m \in 1 .. Len(r[t]) : r[t][m].multi
        /\ Len(r[t]) = Place(g, t, Len(g))
        /\ t \notin Singleton =>
             \A n \in 1 .. Len(g) :
                 TokenOf[g[n]] = t => r[t][Place(g, t, n)].provider = g[n]
    BY <1>4 DEF OrderOf
  <1>6. ASSUME t \notin Singleton, NEW n \in 1 .. Len(a), TokenOf[a[n]] = t
        PROVE  q[t][Place(a, t, n)].provider = a[n]
    <2>1. n \in 1 .. Len(g)
      BY <1>1, <1>6
    <2> QED
      BY <1>1, <1>2, <1>5, <1>6, <2>1
  <1> QED
    BY <1>1, <1>2, <1>5, <1>6

\* A provider of the token itself, recorded last, is in its place.
LEMMA OrderOfOwn ==
  ASSUME NEW g \in Seq(Provider), NEW p \in Provider, NEW r, NEW q, NEW b \in Binding,
         r[TokenOf[p]] \in Seq(Binding),
         p \in Custom => /\ q[TokenOf[p]] = Append(r[TokenOf[p]], b) /\ b.multi
                         /\ TokenOf[p] \notin Singleton => b.provider = p,
         OrderOf(r, g, TokenOf[p])
  PROVE  OrderOf(q, Append(g, p), TokenOf[p])
  <1> DEFINE a == Append(g, p)
             t == TokenOf[p]
             l == Len(r[t])
  <1>1. /\ Len(a) = Len(g) + 1 /\ Len(g) \in Nat /\ a[Len(g) + 1] = p
        /\ \A m \in 1 .. Len(g) : a[m] = g[m]
    OBVIOUS
  <1>2. /\ Place(a, t, Len(g) + 1) = Place(g, t, Len(g)) + 1
        /\ \A n \in 0 .. Len(g) : Place(a, t, n) = Place(g, t, n)
    BY PlaceOfLast
  <1> HIDE DEF a
  <1>3. SUFFICES ASSUME OnlyCustom(a, t)
                 PROVE  /\ \A m \in 1 .. Len(q[t]) : q[t][m].multi
                        /\ Len(q[t]) = Place(a, t, Len(a))
                        /\ t \notin Singleton =>
                             \A n \in 1 .. Len(a) :
                               TokenOf[a[n]] = t => q[t][Place(a, t, n)].provider = a[n]
    BY DEF OrderOf, a
  <1>4. p \in Custom /\ OnlyCustom(g, t)
    <2>1. Len(g) + 1 \in 1 .. Len(a)
      BY <1>1
    <2> QED
      BY <1>1, <1>3, <2>1 DEF OnlyCustom
  <1>5. /\ \A m \in 1 .. l : r[t][m].multi
        /\ l = Place(g, t, Len(g))
        /\ t \notin Singleton =>
             \A n \in 1 .. Len(g) :
                 TokenOf[g[n]] = t => r[t][Place(g, t, n)].provider = g[n]
    BY <1>4 DEF OrderOf
  <1>6. /\ b.multi /\ (t \notin Singleton => b.provider = p)
        /\ l \in Nat /\ Len(q[t]) = l + 1
        /\ \A m \in 1 .. l : q[t][m] = r[t][m]
        /\ q[t][l + 1] = b
    <2>1. q[t] = Append(r[t], b) /\ b.multi /\ (t \notin Singleton => b.provider = p)
      BY <1>4
    <2>2. r[t] \in Seq(Binding)
      OBVIOUS
    <2> HIDE DEF t
    <2> QED
      BY <2>1, <2>2
  <1>7. ASSUME NEW m \in 1 .. Len(q[t]) PROVE q[t][m].multi
    <2>1. m \in 1 .. l \/ m = l + 1
      BY <1>6
    <2> QED
      BY <1>5, <1>6, <2>1
  <1>8. ASSUME t \notin Singleton, NEW n \in 1 .. Len(a), TokenOf[a[n]] = t
        PROVE  q[t][Place(a, t, n)].provider = a[n]
    <2>1. CASE n = Len(g) + 1
      BY <1>1, <1>2, <1>5, <1>6, <1>8, <2>1
    <2>2. CASE n # Len(g) + 1
      <3>1. n \in 1 .. Len(g) /\ n \in 0 .. Len(g) /\ a[n] = g[n]
        BY <1>1, <2>2
      <3>2. Place(a, t, n) = Place(g, t, n) /\ Place(g, t, n) \in 1 .. l
        BY <1>2, <1>5, <1>8, <3>1, PlaceBounds
      <3>3. r[t][Place(g, t, n)].provider = g[n]
        BY <1>5, <1>8, <3>1
      <3> QED
        BY <1>6, <3>1, <3>2, <3>3
    <2> QED
      BY <2>1, <2>2
  <1> QED
    BY <1>1, <1>2, <1>5, <1>6, <1>7, <1>8

\* Countable tokens are tokens.
LEMMA CountableType ==
  ASSUME TokensFit
  PROVE  /\ Countable \subseteq Multi /\ Countable \subseteq Token
         /\ Countable \intersect Singleton \subseteq Classless
  BY DEF Countable, TokensFit

\* A custom provider of a countable token gets a multi binding, its own if the token
\* is no singleton.
LEMMA MultiMade ==
  ASSUME TokensFit, NEW h \in Holder, NEW w \in WorkType, SavedMulti(w.saved),
         NEW p \in Custom, p \in Provider, TokenOf[p] \in Countable
  PROVE  /\ BindingFor(w, h, p).multi
         /\ TokenOf[p] \notin Singleton => BindingFor(w, h, p).provider = p
  <1> DEFINE t == TokenOf[p]
  <1>1. t \in Multi /\ t \in Token /\ (t \in Singleton => t \in Classless)
    BY CountableType
  <1>2. New(w, h, p).multi /\ New(w, h, p).provider = p
    BY <1>1 DEF New
  <1>3. CASE ~IsReused(w, p)
    BY <1>2, <1>3 DEF BindingFor
  <1>4. CASE IsReused(w, p)
    <2>1. t \in Singleton /\ SavedOn(t, w.saved) # None
      BY <1>4 DEF IsReused
    <2>2. Super[t] = None
      BY <1>1, <2>1 DEF Classless
    <2>3. SavedOn(t, w.saved) = w.saved[t]
      BY <1>1, <2>2, SavedIs
    <2>4. w.saved[t].multi
      BY <1>1, <2>1, <2>3 DEF SavedMulti
    <2> QED
      BY <1>4, <2>1, <2>3, <2>4 DEF BindingFor
  <1> QED
    BY <1>3, <1>4

\* What is saved on a countable singleton stays multi.
LEMMA KeepsMulti ==
  ASSUME TokensFit, NEW h \in Holder, NEW w \in WorkType, NEW v,
         NEW p \in Provider, NEW b, Makes(w, v, h, p, b), SavedMulti(w.saved)
  PROVE  SavedMulti(v.saved)
  <1>1. CASE v.saved = w.saved
    BY <1>1
  <1>2. CASE b = New(w, h, p) /\ v.saved = [w.saved EXCEPT ![TokenOf[p]] = b]
    <2>1. w.saved \in SavedMap
      BY DEF WorkType
    <2>2. ASSUME NEW t \in Multi \intersect Singleton \intersect Classless,
                 v.saved[t] # None
          PROVE  v.saved[t].multi
      <3>1. t \in Token
        BY DEF Classless
      <3>2. CASE t = TokenOf[p]
        <4>1. p \in Custom
          BY <3>2 DEF Classless
        <4>2. b.multi
          BY <1>2, <3>2, <4>1 DEF New
        <4> QED
          BY <1>2, <2>1, <3>1, <3>2, <4>2 DEF SavedMap
      <3>3. CASE t # TokenOf[p]
        BY <1>2, <2>1, <2>2, <3>1, <3>3 DEF SavedMap, SavedMulti
      <3> QED
        BY <3>2, <3>3
    <2> QED
      BY <2>2 DEF SavedMulti
  <1> QED
    BY <1>1, <1>2 DEF Makes

\* A binding that is recorded for a token that is no singleton is made for the holder.
LEMMA KeepsOwn ==
  ASSUME TokensFit, NEW h \in Holder, NEW w \in WorkType, NEW v,
         NEW p \in Provider, NEW b \in Binding,
         Makes(w, v, h, p, b), Recorded(w, v, p, b), Own(h, w.records)
  PROVE  Own(h, v.records)
  <1>1. w.records \in [Token -> Seq(Binding)] /\ TokenOf[p] \in Token
    BY DEF WorkType, TokensFit
  <1>2. TokenOf[p] \notin Singleton => b.holder = h
    BY DEF Makes, IsReused, New
  <1>3. ASSUME NEW t \in Token \ Singleton, NEW n \in 1 .. Len(v.records[t])
        PROVE  v.records[t][n].holder = h
    <2>1. w.records[t] \in Seq(Binding)
      BY <1>1
    <2>2. \/ v.records[t] = w.records[t]
          \/ t = TokenOf[p] /\ v.records[t] = <<b>>
          \/ t = TokenOf[p] /\ v.records[t] = Append(w.records[t], b)
      BY <1>1 DEF Recorded
    <2>3. CASE v.records[t] = w.records[t]
      BY <1>3, <2>3 DEF Own
    <2>4. CASE t = TokenOf[p] /\ v.records[t] = <<b>>
      BY <1>2, <1>3, <2>4
    <2>5. CASE t = TokenOf[p] /\ v.records[t] = Append(w.records[t], b)
      <3>1. n = Len(w.records[t]) + 1 \/ n \in 1 .. Len(w.records[t])
        BY <1>3, <2>1, <2>5
      <3>2. CASE n = Len(w.records[t]) + 1
        BY <1>2, <2>1, <2>5, <3>2
      <3>3. CASE n \in 1 .. Len(w.records[t])
        BY <2>1, <2>5, <3>3 DEF Own
      <3> QED
        BY <3>1, <3>2, <3>3
    <2> QED
      BY <2>2, <2>3, <2>4, <2>5
  <1> QED
    BY <1>3 DEF Own

\* A turn of ɵbindProviders keeps the multi providers counted, and in order.
LEMMA KeepsOrder ==
  ASSUME TokensFit, ProvidersFit, NEW h \in Injector, NEW w \in WorkType,
         SavedMulti(w.saved), NEW p \in Provider, InOrder(w.records, w.given)
  PROVE  LET v == BindOne(w, h, p) IN InOrder(v.records, v.given)
  <1> DEFINE v == BindOne(w, h, p)
             u == TokenOf[p]
             b == BindingFor(w, h, p)
  <1>1. /\ Added(w, h, p, v) \/ Skipped(w, h, p, v)
        /\ b \in Binding /\ h \in Holder /\ u \in Token
    BY BindLeads, BindingMade DEF Holder
  <1>2. /\ w.given \in Seq(Provider) /\ w.records \in [Token -> Seq(Binding)]
    BY DEF WorkType
  <1>3. \A t \in Countable : t \in Token /\ OrderOf(w.records, w.given, t)
    BY CountableType DEF InOrder
  <1> HIDE DEF v
  <1>4. ASSUME NEW t \in Countable PROVE OrderOf(v.records, v.given, t)
    <2>1. CASE v.given = w.given /\ v.records = w.records
      BY <1>3, <2>1
    <2>2. CASE v.given = Append(w.given, p) /\ t # u
      <3>1. v.records[t] = w.records[t]
        BY <1>1, <1>2, <1>3, <2>2 DEF Added, Skipped, WithLast
      <3>2. OrderOf(w.records, w.given, t)
        BY <1>3
      <3>3. OrderOf(v.records, Append(w.given, p), t)
        BY <1>2, <2>2, <3>1, <3>2, OrderOfOthers
      <3> QED
        BY <2>2, <3>3
    <2>3. CASE v.given = Append(w.given, p) /\ t = u
      <3>1. ASSUME p \in Custom
            PROVE  /\ v.records[u] = Append(w.records[u], b) /\ b.multi
                   /\ u \notin Singleton => b.provider = p
        <4>1. b.multi /\ (u \notin Singleton => b.provider = p)
          BY <1>1, <1>4, <2>3, <3>1, MultiMade
        <4>2. Added(w, h, p, v)
          <5> SUFFICES ASSUME Skipped(w, h, p, v) PROVE FALSE
            BY <1>1
          <5>1. v.given = w.given
            BY <4>1 DEF Skipped
          <5>2. Len(Append(w.given, p)) = Len(w.given) + 1 /\ Len(w.given) \in Nat
            BY <1>2
          <5> QED
            BY <2>3, <5>1, <5>2
        <4> QED
          BY <1>1, <1>2, <4>1, <4>2 DEF Added, WithLast
      <3>2. w.records[u] \in Seq(Binding)
        BY <1>1, <1>2
      <3>3. OrderOf(w.records, w.given, u)
        BY <1>3, <2>3
      <3> HIDE DEF b, u
      <3>4. OrderOf(v.records, Append(w.given, p), u)
        BY <1>1, <1>2, <3>1, <3>2, <3>3, OrderOfOwn DEF u
      <3> QED
        BY <2>3, <3>4
    <2>4. \/ v.given = w.given /\ v.records = w.records
          \/ v.given = Append(w.given, p)
      BY <1>1 DEF Added, Skipped
    <2> QED
      BY <2>1, <2>2, <2>3, <2>4
  <1> QED
    BY <1>4 DEF InOrder, v

------------------------------------------------------------------------------
(* All jobs of an injector *)

WorkInv(h, w) ==
    /\ w \in WorkType
    /\ Distinct(w.made, [records EXCEPT ![h] = w.records])
    /\ Latest(w.saved, [records EXCEPT ![h] = w.records])
    /\ SavedMulti(w.saved)
    /\ Own(h, w.records)
    /\ h \in Injector => InOrder(w.records, w.given)

\* Values are bound in contexts only, and an injector itself sets no multi token.
JobFor(h, job) ==
    /\ job \in Job
    /\ job.how = "value" => h \in Context
    /\ job.how = "set" /\ h \in Injector => TokenOf[job.provider] \notin Multi

\* One job keeps what the invariant says of the tokens, for all injectors.
LEMMA LeadsKeeps ==
  ASSUME TokensFit, BoundsFit, RegistryInv, NEW h \in Holder, NEW w,
         WorkInv(h, w),
         NEW p \in Provider, NEW v, Leads(w, h, p, v)
  PROVE  /\ v \in WorkType
         /\ Distinct(v.made, [records EXCEPT ![h] = v.records])
         /\ Latest(v.saved, [records EXCEPT ![h] = v.records])
         /\ SavedMulti(v.saved) /\ Own(h, v.records)
  <1>1. PICK b \in Binding : Makes(w, v, h, p, b) /\ Recorded(w, v, p, b)
    BY DEF Leads
  <1>2. v \in WorkType /\ w \in WorkType
    BY DEF Leads, WorkInv
  <1>3. /\ records \in [Holder -> [Token -> Seq(Binding)]]
        /\ Injector \intersect Context = {}
    BY DEF RegistryInv, RegistryTypeOK, BoundsFit
  <1>4. Distinct(v.made, [records EXCEPT ![h] = v.records])
    BY <1>1, <1>2, <1>3, KeepsDistinct DEF WorkInv
  <1>5. Latest(v.saved, [records EXCEPT ![h] = v.records])
    BY <1>1, <1>2, <1>3, KeepsLatest DEF WorkInv
  <1>6. SavedMulti(v.saved) /\ Own(h, v.records)
    BY <1>1, <1>2, KeepsMulti, KeepsOwn DEF WorkInv
  <1> QED
    BY <1>2, <1>4, <1>5, <1>6

\* One job, or none after a refused provider, keeps the invariant of the work.
LEMMA DoneKeeps ==
  ASSUME TokensFit, ProvidersFit, BoundsFit, RegistryInv,
         NEW h \in Holder, NEW w,
         WorkInv(h, w), NEW job, JobFor(h, job)
  PROVE  WorkInv(h, Done(w, h, job))
  <1> DEFINE v == Done(w, h, job)
             p == job.provider
  <1>1. /\ p \in Provider /\ job.how \in {"value", "set", "bind"} /\ w \in WorkType
        /\ w.given \in Seq(Provider) /\ w.records \in [Token -> Seq(Binding)]
        /\ h \in Injector => h \notin Context
    BY DEF JobFor, Job, WorkInv, WorkType, BoundsFit
  <1>2. /\ w.threw => v = w
        /\ ~w.threw /\ job.how = "value" => v = ResolvedAs(w, h, p)
        /\ ~w.threw /\ job.how = "set" => v = SetCreated(w, h, p)
        /\ ~w.threw /\ job.how = "bind" => v = BindOne(w, h, p)
    BY DEF Done
  <1> HIDE DEF v, p
  <1>3. CASE w.threw
    BY <1>2, <1>3 DEF v
  <1>4. CASE ~w.threw /\ job.how = "value"
    <2>1. h \in Context
      BY <1>4 DEF JobFor
    <2>2. Leads(w, h, p, v)
      BY <1>1, <1>2, <1>4, <2>1, ResolvedLeads
    <2> QED
      BY <1>1, <2>1, <2>2, LeadsKeeps DEF WorkInv, v
  <1>5. CASE ~w.threw /\ job.how = "set"
    <2>1. Leads(w, h, p, v) /\ v.given = Append(w.given, p)
      BY <1>1, <1>2, <1>5, SetLeads
    <2>2. \A t \in Token : t # TokenOf[p] => v.records[t] = w.records[t]
      <3>1. v = SetCreated(w, h, p)
        BY <1>2, <1>5
      <3>2. \A t \in Token : t # TokenOf[p] =>
               SetCreated(w, h, p).records[t] = w.records[t]
        BY <1>1, SetLeads
      <3> QED
        BY <3>1, <3>2
    <2>3. ASSUME h \in Injector PROVE InOrder(v.records, v.given)
      <3>1. TokenOf[p] \notin Multi /\ InOrder(w.records, w.given)
        BY <1>5, <2>3 DEF JobFor, WorkInv, p
      <3>2. ASSUME NEW t \in Countable PROVE OrderOf(v.records, v.given, t)
        <4>1. OrderOf(w.records, w.given, t) /\ TokenOf[p] # t /\ t \in Token
          BY <3>1, CountableType DEF InOrder
        <4>2. v.records[t] = w.records[t]
          BY <2>2, <4>1
        <4>3. OrderOf(v.records, Append(w.given, p), t)
          BY <1>1, <4>1, <4>2, OrderOfOthers
        <4> QED
          BY <2>1, <4>3
      <3> QED
        BY <3>2 DEF InOrder
    <2>4. /\ v \in WorkType
          /\ Distinct(v.made, [records EXCEPT ![h] = v.records])
          /\ Latest(v.saved, [records EXCEPT ![h] = v.records])
          /\ SavedMulti(v.saved) /\ Own(h, v.records)
      BY <1>1, <2>1, LeadsKeeps
    <2> QED
      BY <2>3, <2>4 DEF WorkInv, v
  <1>6. CASE ~w.threw /\ job.how = "bind"
    <2>1. v = BindOne(w, h, p)
      BY <1>2, <1>6
    <2>2. Leads(w, h, p, v)
      BY <1>1, <2>1, BindLeads
    <2>3. h \in Injector => InOrder(v.records, v.given)
      BY <1>1, <2>1, KeepsOrder DEF WorkInv
    <2>4. /\ v \in WorkType
          /\ Distinct(v.made, [records EXCEPT ![h] = v.records])
          /\ Latest(v.saved, [records EXCEPT ![h] = v.records])
          /\ SavedMulti(v.saved) /\ Own(h, v.records)
      BY <1>1, <2>2, LeadsKeeps
    <2> QED
      BY <2>3, <2>4 DEF WorkInv, v
  <1> QED
    BY <1>1, <1>3, <1>4, <1>5, <1>6

\* So do all jobs, one after the other.
LEMMA AllDoneKeeps ==
  ASSUME TokensFit, ProvidersFit, BoundsFit, RegistryInv, NEW h \in Holder,
         NEW jobs, Len(jobs) \in Nat, \A n \in 1 .. Len(jobs) : JobFor(h, jobs[n])
  PROVE  WorkInv(h, AllDone(h, jobs))
  <1> DEFINE W == {w \in WorkType : WorkInv(h, w)}
  <1>1. Work(h) \in W
    <2>1. Work(h) \in WorkType
      BY DEF RegistryInv, RegistryTypeOK, Work, WorkType, SavedMap
    <2>2. /\ Work(h).saved = saved /\ Work(h).made = made
          /\ Work(h).given = given[h]
          /\ [records EXCEPT ![h] = Work(h).records] = records
          /\ Work(h).records = records[h]
      BY DEF Work, RegistryInv, RegistryTypeOK
    <2> QED
      BY <2>1, <2>2 DEF WorkInv, RegistryInv
  <1>2. ASSUME NEW w \in W, NEW n \in 1 .. Len(jobs) PROVE Done(w, h, jobs[n]) \in W
    <2>1. WorkInv(h, Done(w, h, jobs[n]))
      BY <1>2, DoneKeeps
    <2> QED
      BY <2>1 DEF WorkInv
  <1> HIDE DEF W
  <1>3. AllDone(h, jobs) \in W
    BY <1>1, <1>2, AllDoneIn
  <1> QED
    BY <1>3 DEF W

\* One job for every provider of an array.
LEMMA JobsType ==
  ASSUME NEW how \in {"value", "set", "bind"}, NEW ps \in Seq(Provider)
  PROVE  /\ Jobs(how, ps) \in Seq(Job) /\ Len(Jobs(how, ps)) = Len(ps)
         /\ \A n \in 1 .. Len(ps) :
               Jobs(how, ps)[n].how = how /\ Jobs(how, ps)[n].provider = ps[n]
  BY DEF Jobs, Job

\* Jobs after jobs.
LEMMA JobsAfter ==
  ASSUME NEW h, NEW a \in Seq(Job), NEW b \in Seq(Job),
         \A n \in 1 .. Len(a) : JobFor(h, a[n]), \A n \in 1 .. Len(b) : JobFor(h, b[n])
  PROVE  Len(a \o b) \in Nat /\ \A n \in 1 .. Len(a \o b) : JobFor(h, (a \o b)[n])
  <1>1. /\ Len(a \o b) = Len(a) + Len(b) /\ Len(a) \in Nat /\ Len(b) \in Nat
        /\ \A n \in 1 .. Len(a) + Len(b) :
              (a \o b)[n] = IF n <= Len(a) THEN a[n] ELSE b[n - Len(a)]
    BY ConcatProperties
  <1>2. ASSUME NEW n \in 1 .. Len(a \o b) PROVE JobFor(h, (a \o b)[n])
    <2>1. CASE n <= Len(a)
      <3>1. n \in 1 .. Len(a)
        BY <1>1, <2>1
      <3> QED
        BY <1>1, <2>1, <3>1
    <2>2. CASE ~(n <= Len(a))
      <3>1. n - Len(a) \in 1 .. Len(b)
        BY <1>1, <2>2
      <3> QED
        BY <1>1, <2>2, <3>1
    <2> QED
      BY <2>1, <2>2
  <1> QED
    BY <1>1, <1>2

------------------------------------------------------------------------------
(* The steps *)

\* Before anything is bound nothing is recorded.
LEMMA RegistryInvInit ==
  ASSUME TokensFit, ProvidersFit, BoundsFit, RegistryInit
  PROVE RegistryInv
  <1>1. RegistryTypeOK
    BY DEF RegistryInit, RegistryTypeOK, BoundsFit
  <1>2. \A h \in Holder : given[h] = <<>> /\ \A t \in Token : records[h][t] = <<>>
    BY DEF RegistryInit
  <1>3. Distinct(made, records)
    BY <1>2 DEF Distinct
  <1>4. Latest(saved, records)
    BY <1>2, SteadyAbove DEF Latest, Holder
  <1>5. ASSUME NEW i \in Injector PROVE InOrder(records[i], given[i])
    <2>1. given[i] = <<>> /\ \A t \in Multi : records[i][t] = <<>>
      BY <1>2 DEF Holder, TokensFit
    <2>2. ASSUME NEW t PROVE Place(<<>>, t, 0) = 0
      <3>1. {m \in 1 .. 0 : TokenOf[<<>>[m]] = t} = {}
        OBVIOUS
      <3> QED
        BY <3>1, FS_EmptySet DEF Place
    <2> QED
      BY <2>1, <2>2, CountableType DEF InOrder, OrderOf
  <1>6. SavedMulti(saved) /\ \A h \in Holder : Own(h, records[h])
    BY <1>2 DEF SavedMulti, Own, RegistryInit, Classless
  <1> QED
    BY <1>1, <1>2, <1>3, <1>4, <1>5, <1>6 DEF RegistryInv, Untouched

\* Going on with the work keeps the invariant, and the types of all but the state.
LEMMA CommitKeeps ==
  ASSUME BoundsFit, RegistryInv, NEW h \in Holder, NEW w, WorkInv(h, w),
         Commit(h, w),
         binds' \in 0 .. MaxBinds,
         state' \in [Holder -> {"none", "there", "threw"}],
         state'[h] = "there", \A k \in Holder \ {h} : state'[k] = state[k]
  PROVE  RegistryInv'
  <1>1. /\ saved' = w.saved /\ made' = w.made
        /\ records' = [records EXCEPT ![h] = w.records]
        /\ given' = [given EXCEPT ![h] = w.given]
    BY DEF Commit
  <1>2. /\ w \in WorkType /\ records \in [Holder -> [Token -> Seq(Binding)]]
        /\ given \in [Holder -> Seq(Provider)]
    BY DEF WorkInv, RegistryInv, RegistryTypeOK
  <1>3. RegistryTypeOK'
    BY <1>1, <1>2 DEF RegistryTypeOK, WorkType, SavedMap
  <1>4. Distinct(made', records') /\ Latest(saved', records')
    BY <1>1 DEF WorkInv
  <1>5. ASSUME NEW k \in Holder,
               k # h PROVE records'[k] = records[k] /\ given'[k] = given[k]
    BY <1>1, <1>2, <1>5
  <1>6. records'[h] = w.records /\ given'[h] = w.given
    BY <1>1, <1>2
  <1>7. ASSUME NEW i \in Injector PROVE InOrder(records'[i], given'[i])
    <2>1. CASE i = h
      BY <1>6, <2>1 DEF WorkInv
    <2>2. CASE i # h
      BY <1>5, <2>2 DEF RegistryInv, Holder
    <2> QED
      BY <2>1, <2>2
  <1>8. ASSUME NEW k \in Holder, state'[k] # "there" PROVE Untouched(k)'
    BY <1>5, <1>8 DEF RegistryInv, Untouched
  <1>9. SavedMulti(saved')
    BY <1>1 DEF WorkInv
  <1>10. ASSUME NEW k \in Holder PROVE Own(k, records'[k])
    BY <1>5, <1>6, <1>10 DEF WorkInv, RegistryInv
  <1> QED
    BY <1>3, <1>4, <1>7, <1>8, <1>9, <1>10
    DEF RegistryInv, Distinct, Latest, InOrder, OrderOf, SavedMulti, Own

\* bind of a module, component or context injector keeps the invariant.
LEMMA BindKeeps ==
  ASSUME TokensFit, ProvidersFit, BoundsFit, RegistryInv,
         NEW h \in Holder, NEW ps \in Arrays, Bind(h, ps)
  PROVE  RegistryInv'
  <1>1. ps \in Seq(Provider)
    BY DEF BoundsFit
  <1>2. WorkInv(h, AllDone(h, Jobs("bind", ps)))
    <2>1. Len(Jobs("bind", ps)) \in Nat
      BY <1>1, JobsType
    <2>2. ASSUME NEW n \in 1 .. Len(Jobs("bind", ps)) PROVE JobFor(h,
                 Jobs("bind", ps)[n])
      <3>1. Jobs("bind", ps)[n].how = "bind" /\ Jobs("bind", ps)[n] \in Job
        BY <1>1, JobsType
      <3> QED
        BY <3>1 DEF JobFor
    <2> QED
      BY <2>1, <2>2, AllDoneKeeps
  <1>3. binds' \in 0 .. MaxBinds
    BY DEF Bind, RegistryInv, RegistryTypeOK, BoundsFit
  <1>4. /\ Commit(h, AllDone(h, Jobs("bind", ps))) /\ state' = state
        /\ state[h] = "there"
    BY DEF Bind
  <1>5. state' \in [Holder -> {"none", "there", "threw"}]
    BY <1>4 DEF RegistryInv, RegistryTypeOK
  <1> QED
    BY <1>2, <1>3, <1>4, <1>5, CommitKeeps

\* So does the constructor of ContextInjector.
LEMMA ContextKeeps ==
  ASSUME TokensFit, ProvidersFit, BoundsFit, RegistryInv, NEW x \in Context,
         CreateContext(x)
  PROVE  RegistryInv'
  <1> DEFINE a == Jobs("value", Values[x])
             b == Jobs("set", Factories[x])
  <1>1. Values[x] \in Seq(Provider) /\ Factories[x] \in Seq(Provider)
    BY DEF ProvidersFit
  <1>2. /\ a \in Seq(Job) /\ b \in Seq(Job)
        /\ \A n \in 1 .. Len(a) : a[n].how = "value"
        /\ \A n \in 1 .. Len(b) : b[n].how = "set"
    BY <1>1, JobsType
  <1>3. x \notin Injector /\ x \in Holder
    BY DEF BoundsFit, Holder
  <1> HIDE DEF a, b
  <1>4. \A n \in 1 .. Len(a) : JobFor(x, a[n])
    BY <1>2, <1>3 DEF JobFor
  <1>5. \A n \in 1 .. Len(b) : JobFor(x, b[n])
    BY <1>2, <1>3 DEF JobFor
  <1>6. WorkInv(x, AllDone(x, a \o b))
    BY <1>2, <1>3, <1>4, <1>5, JobsAfter, AllDoneKeeps
  <1>7. /\ Commit(x, AllDone(x, a \o b)) /\ state' = [state EXCEPT ![x] = "there"]
        /\ binds' = binds
    BY DEF CreateContext, a, b
  <1>8. /\ state' \in [Holder -> {"none", "there", "threw"}] /\ state'[x] = "there"
        /\ \A k \in Holder \ {x} : state'[k] = state[k]
        /\ binds' \in 0 .. MaxBinds
    BY <1>3, <1>7 DEF RegistryInv, RegistryTypeOK
  <1> QED
    BY <1>3, <1>6, <1>7, <1>8, CommitKeeps

\* So does the constructor of DynamicInjector, whether or not it throws.
LEMMA InjectorKeeps ==
  ASSUME TokensFit, ProvidersFit, BoundsFit, RegistryInv,
         NEW i \in Injector, NEW ps \in Arrays, CreateInjector(i, ps)
  PROVE  RegistryInv'
  <1> DEFINE a == Jobs("set", BuiltIn[i])
             b == Jobs("bind", ps)
             w == AllDone(i, a \o b)
  <1>1. ps \in Seq(Provider) /\ BuiltIn[i] \in Seq(Provider)
    BY DEF BoundsFit, ProvidersFit
  <1>2. /\ a \in Seq(Job) /\ b \in Seq(Job) /\ Len(a) = Len(BuiltIn[i])
        /\ \A n \in 1 .. Len(a) : a[n].how = "set" /\ a[n].provider = BuiltIn[i][n]
        /\ \A n \in 1 .. Len(b) : b[n].how = "bind"
    BY <1>1, JobsType
  <1>3. i \notin Context /\ i \in Holder
    BY DEF BoundsFit, Holder
  <1> HIDE DEF a, b, w
  <1>4. \A n \in 1 .. Len(a) : JobFor(i, a[n])
    <2>1. \A n \in 1 .. Len(a) : TokenOf[BuiltIn[i][n]] \notin Multi
      <3>1. ASSUME NEW n \in 1 .. Len(a) PROVE TokenOf[BuiltIn[i][n]] \in BuiltInTokens
        <4>1. n \in DOMAIN BuiltIn[i]
          BY <1>1, <1>2
        <4> QED
          BY <4>1 DEF BuiltInTokens
      <3> QED
        BY <3>1 DEF ProvidersFit
    <2> QED
      BY <1>2, <1>3, <2>1 DEF JobFor
  <1>5. \A n \in 1 .. Len(b) : JobFor(i, b[n])
    BY <1>2, <1>3 DEF JobFor
  <1>6. WorkInv(i, w)
    BY <1>2, <1>3, <1>4, <1>5, JobsAfter, AllDoneKeeps DEF w
  <1>7. /\ state[i] = "none" /\ binds' = binds
        /\ \/ /\ saved' = w.saved /\ made' = w.made
              /\ state' = [state EXCEPT ![i] = "threw"] /\ UNCHANGED <<records, given>>
           \/ Commit(i, w) /\ state' = [state EXCEPT ![i] = "there"]
    BY DEF CreateInjector, w, a, b
  <1>8. /\ state \in [Holder -> {"none", "there", "threw"}] /\ binds \in 0 .. MaxBinds
        /\ records \in [Holder -> [Token -> Seq(Binding)]]
        /\ given \in [Holder -> Seq(Provider)]
    BY DEF RegistryInv, RegistryTypeOK
  <1>9. CASE Commit(i, w) /\ state' = [state EXCEPT ![i] = "there"]
    <2>1. /\ state' \in [Holder -> {"none", "there", "threw"}] /\ state'[i] = "there"
          /\ \A k \in Holder \ {i} : state'[k] = state[k]
      BY <1>3, <1>8, <1>9
    <2> QED
      BY <1>3, <1>6, <1>7, <1>8, <1>9, <2>1, CommitKeeps
  <1>10. CASE /\ saved' = w.saved /\ made' = w.made
              /\ state' = [state EXCEPT ![i] = "threw"] /\ UNCHANGED <<records, given>>
    <2> DEFINE R == [records EXCEPT ![i] = w.records]
    <2>1. w \in WorkType /\ Distinct(w.made, R) /\ Latest(w.saved, R)
      BY <1>6 DEF WorkInv
    <2>2. \A k \in Holder \ {i} : R[k] = records[k]
      BY <1>8
    <2>3. \A t \in Token : records[i][t] = <<>>
      BY <1>3, <1>7 DEF RegistryInv, Untouched
    <2> HIDE DEF R
    <2>4. RegistryTypeOK'
      <3>1. w.saved \in [Token -> Binding \union {None}] /\ w.made \in Nat
        BY <2>1 DEF WorkType, SavedMap
      <3>2. state' \in [Holder -> {"none", "there", "threw"}]
        BY <1>8, <1>10
      <3> QED
        BY <1>7, <1>8, <1>10, <3>1, <3>2 DEF RegistryTypeOK
    <2>5. Distinct(made', records')
      <3>1. ASSUME NEW t \in Token \ Singleton, NEW h \in Holder,
                   NEW m \in 1 .. Len(records[h][t])
            PROVE  h # i /\ R[h] = records[h]
        BY <2>2, <2>3, <3>1
      <3>2. ASSUME NEW t \in Token \ Singleton, NEW h \in Holder,
                   NEW m \in 1 .. Len(records[h][t])
            PROVE  records[h][t][m].id < w.made
        BY <2>1, <3>1, <3>2 DEF Distinct
      <3>3. ASSUME NEW t \in Token \ Singleton, NEW h \in Holder, NEW k \in Holder,
                   NEW m \in 1 .. Len(records[h][t]), NEW n \in 1 .. Len(records[k][t]),
                   records[h][t][m].id = records[k][t][n].id
            PROVE  h = k /\ m = n
        <4>1. R[h] = records[h] /\ R[k] = records[k]
          BY <3>1, <3>3
        <4>2. \A x \in 1 .. Len(R[h][t]), y \in 1 .. Len(R[k][t]) :
                 R[h][t][x].id = R[k][t][y].id => h = k /\ x = y
          BY <2>1, <3>3 DEF Distinct
        <4> QED
          BY <3>3, <4>1, <4>2
      <3>4. Distinct(w.made, records)
        BY <3>2, <3>3 DEF Distinct
      <3> QED
        BY <1>10, <3>4
    <2>6. Latest(saved', records')
      <3>1. ASSUME NEW t \in Steady, NEW j \in Injector, records[j][t] # <<>>
            PROVE  records[j][t][1] = SavedOn(t, w.saved)
        <4>1. t \in Token /\ j \in Holder
          BY SteadyAbove DEF Holder
        <4>2. R[j] = records[j]
          BY <2>2, <2>3, <3>1, <4>1
        <4> QED
          BY <2>1, <3>1, <4>2 DEF Latest
      <3> QED
        BY <1>10, <3>1 DEF Latest
    <2>7. ASSUME NEW k \in Holder, state'[k] # "there" PROVE Untouched(k)'
      <3>1. state[k] # "there"
        BY <1>3, <1>7, <1>8, <1>10, <2>7
      <3> QED
        BY <1>10, <3>1 DEF RegistryInv, Untouched
    <2>8. \A j \in Injector : InOrder(records'[j], given'[j])
      BY <1>10 DEF RegistryInv
    <2>9. SavedMulti(saved')
      BY <1>6, <1>10 DEF WorkInv
    <2>10. \A k \in Holder : Own(k, records'[k])
      BY <1>10 DEF RegistryInv
    <2> QED
      BY <2>4, <2>5, <2>6, <2>7, <2>8, <2>9, <2>10
      DEF RegistryInv, Distinct, Latest, InOrder, OrderOf, SavedMulti, Own
  <1> QED
    BY <1>7, <1>9, <1>10

\* Every step keeps the invariant.
LEMMA RegistryInvNext ==
  ASSUME TokensFit, ProvidersFit, BoundsFit, RegistryInv, [RegistryNext]_registryVars
  PROVE  RegistryInv'
  <1>1. CASE UNCHANGED registryVars
    <2>1. UNCHANGED <<saved, made, records, state, given, binds>>
      BY <1>1 DEF registryVars
    <2>2. RegistryTypeOK'
      BY <2>1 DEF RegistryInv, RegistryTypeOK
    <2>3. Distinct(made', records') /\ Latest(saved', records')
      BY <2>1 DEF RegistryInv
    <2>4. \A i \in Injector : InOrder(records'[i], given'[i])
      BY <2>1 DEF RegistryInv
    <2>5. \A h \in Holder : state'[h] # "there" => Untouched(h)'
      BY <2>1 DEF RegistryInv, Untouched
    <2>6. SavedMulti(saved') /\ \A h \in Holder : Own(h, records'[h])
      BY <2>1 DEF RegistryInv
    <2> QED
      BY <2>2, <2>3, <2>4, <2>5, <2>6
      DEF RegistryInv, Distinct, Latest, InOrder, OrderOf, SavedMulti, Own
  <1>2. CASE RegistryNext
    BY <1>2, InjectorKeeps, BindKeeps, ContextKeeps DEF RegistryNext
  <1> QED
    BY <1>1, <1>2

------------------------------------------------------------------------------
(* What the records of an injector were stays in them *)

GrownFrom(r, w) == w \in WorkType /\ \A t \in Token : Grows(r[t], w.records[t])

\* A record with one more binding has grown.
LEMMA AppendGrows ==
  ASSUME NEW a \in Seq(Binding), NEW b \in Seq(Binding), NEW e \in Binding,
         Grows(a, b)
  PROVE  Grows(a, Append(b, e))
  <1>1. Len(Append(b, e)) = Len(b) + 1 /\ \A n \in 1 .. Len(b) : Append(b, e)[n] = b[n]
    OBVIOUS
  <1>2. Len(a) <= Len(b) /\ \A n \in 1 .. Len(a) : b[n] = a[n]
    BY DEF Grows
  <1>3. Len(a) \in Nat /\ Len(b) \in Nat
    OBVIOUS
  <1>4. \A n \in 1 .. Len(a) : n \in 1 .. Len(b)
    BY <1>2, <1>3
  <1> QED
    BY <1>1, <1>2, <1>3, <1>4 DEF Grows

\* A turn of ɵbindProviders lets the records grow, or stay.
LEMMA BindGrows ==
  ASSUME TokensFit, ProvidersFit, NEW h \in Holder, NEW w, NEW job \in Job,
         job.how = "bind", NEW r \in [Token -> Seq(Binding)], GrownFrom(r, w)
  PROVE  GrownFrom(r, Done(w, h, job))
  <1> DEFINE v == Done(w, h, job)
             p == job.provider
             b == BindingFor(w, h, p)
  <1>1. p \in Provider /\ w \in WorkType /\ w.records \in [Token -> Seq(Binding)]
    BY DEF Job, GrownFrom, WorkType
  <1>2. (w.threw => v = w) /\ (~w.threw => v = BindOne(w, h, p))
    BY DEF Done
  <1>3. b \in Binding /\ TokenOf[p] \in Token
    BY <1>1, BindingMade
  <1>4. CASE w.threw
    BY <1>2, <1>4
  <1>5. CASE ~w.threw
    <2>1. v = BindOne(w, h, p)
      BY <1>2, <1>5
    <2>2. v \in WorkType
      BY <1>1, <2>1, BindLeads DEF Leads
    <2>3. Added(w, h, p, v) \/ Skipped(w, h, p, v)
      BY <1>1, <2>1, BindLeads
    <2> HIDE DEF v, p, b
    <2>4. v.records = w.records \/ v.records = WithLast(w.records, TokenOf[p], b)
      BY <2>3 DEF Added, Skipped, b
    <2>5. ASSUME NEW t \in Token PROVE Grows(r[t], v.records[t])
      <3>1. Grows(r[t], w.records[t])
        BY DEF GrownFrom
      <3>2. CASE v.records[t] = w.records[t]
        BY <3>1, <3>2
      <3>3. CASE v.records[t] # w.records[t]
        <4>1. v.records[t] = Append(w.records[t], b)
          BY <1>1, <2>4, <3>3 DEF WithLast
        <4>2. r[t] \in Seq(Binding) /\ w.records[t] \in Seq(Binding)
          BY <1>1
        <4> QED
          BY <1>3, <3>1, <4>1, <4>2, AppendGrows
      <3> QED
        BY <3>2, <3>3
    <2> QED
      BY <2>2, <2>5 DEF GrownFrom, v
  <1> QED
    BY <1>4, <1>5

\* From nothing, or not at all, is growth.
LEMMA NothingGrows ==
  ASSUME NEW s \in Seq(Binding)
  PROVE  Grows(<<>>, s) /\ Grows(s, s)
  BY DEF Grows

\* No step takes a binding out of a record.
LEMMA RecordsGrowStep ==
  ASSUME TokensFit, ProvidersFit, BoundsFit, RegistryInv, RegistryInv',
         [RegistryNext]_registryVars,
         NEW h \in Holder, NEW t \in Token
  PROVE  Grows(records[h][t], records'[h][t])
  <1>1. /\ records \in [Holder -> [Token -> Seq(Binding)]]
        /\ records' \in [Holder -> [Token -> Seq(Binding)]]
    BY DEF RegistryInv, RegistryTypeOK
  <1>2. CASE records'[h] = records[h]
    BY <1>1, <1>2, NothingGrows
  <1>3. CASE state[h] # "there"
    <2>1. records[h][t] = <<>>
      BY <1>3 DEF RegistryInv, Untouched
    <2> QED
      BY <1>1, <2>1, NothingGrows
  <1>4. ASSUME NEW i \in Injector, NEW ps \in Arrays, CreateInjector(i, ps), h # i
        PROVE  records'[h] = records[h]
    BY <1>1, <1>4 DEF CreateInjector, Commit
  <1>5. ASSUME NEW x \in Context, CreateContext(x), h # x
        PROVE  records'[h] = records[h]
    BY <1>1, <1>5 DEF CreateContext, Commit
  <1>6. ASSUME NEW k \in Holder, NEW ps \in Arrays, Bind(k, ps), h # k
        PROVE  records'[h] = records[h]
    BY <1>1, <1>6 DEF Bind, Commit
  <1>7. ASSUME NEW ps \in Arrays, Bind(h, ps)
        PROVE  Grows(records[h][t], records'[h][t])
    <2> DEFINE jobs == Jobs("bind", ps)
               w == AllDone(h, jobs)
               W == {v \in WorkType : GrownFrom(records[h], v)}
    <2>1. ps \in Seq(Provider)
      BY DEF BoundsFit
    <2>2. /\ jobs \in Seq(Job) /\ Len(jobs) \in Nat
          /\ \A n \in 1 .. Len(jobs) : jobs[n].how = "bind" /\ jobs[n] \in Job
      BY <2>1, JobsType
    <2>3. records'[h] = w.records
      BY <1>1, <1>7 DEF Bind, Commit
    <2> HIDE DEF jobs, w
    <2>4. Work(h) \in W
      <3>1. Work(h) \in WorkType /\ Work(h).records = records[h]
        BY DEF RegistryInv, RegistryTypeOK, Work, WorkType, SavedMap
      <3>2. \A u \in Token : Grows(records[h][u], records[h][u])
        BY <1>1, NothingGrows
      <3> QED
        BY <3>1, <3>2 DEF GrownFrom
    <2>5. ASSUME NEW v \in W, NEW n \in 1 .. Len(jobs) PROVE Done(v, h, jobs[n]) \in W
      <3>1. GrownFrom(records[h], Done(v, h, jobs[n]))
        BY <1>1, <2>2, <2>5, BindGrows
      <3> QED
        BY <3>1 DEF GrownFrom
    <2> HIDE DEF W
    <2>6. w \in W
      BY <2>2, <2>4, <2>5, AllDoneIn DEF w
    <2> QED
      BY <2>3, <2>6 DEF W, GrownFrom
  <1>8. CASE UNCHANGED registryVars
    BY <1>2, <1>8 DEF registryVars
  <1>9. CASE \E i \in Injector, ps \in Arrays : CreateInjector(i, ps)
    BY <1>2, <1>3, <1>4, <1>9 DEF CreateInjector
  <1>10. CASE \E x \in Context : CreateContext(x)
    BY <1>2, <1>3, <1>5, <1>10 DEF CreateContext
  <1>11. CASE \E k \in Holder, ps \in Arrays : Bind(k, ps)
    BY <1>2, <1>6, <1>7, <1>11
  <1> QED
    BY <1>8, <1>9, <1>10, <1>11 DEF RegistryNext

------------------------------------------------------------------------------
(* The theorems *)

\* What the invariant says of the tokens is what injectors share.
LEMMA RegistryInvShares ==
  ASSUME TokensFit, BoundsFit, RegistryInv
  PROVE  BindingsAreShared
  <1>1. SingletonsAgree
    BY DEF RegistryInv, Latest, SingletonsAgree, Agree
  <1>2. ASSUME NEW t \in Token \ Singleton, NEW h \in Holder, NEW k \in Holder,
               NEW m \in DOMAIN records[h][t], NEW n \in DOMAIN records[k][t]
        PROVE  /\ records[h][t][m].holder = h
               /\ records[h][t][m].id = records[k][t][n].id => h = k /\ m = n
    <2>1. records[h][t] \in Seq(Binding) /\ records[k][t] \in Seq(Binding)
      BY DEF RegistryInv, RegistryTypeOK
    <2>2. m \in 1 .. Len(records[h][t]) /\ n \in 1 .. Len(records[k][t])
      BY <2>1
    <2>3. records[h][t][m].holder = h
      BY <2>2 DEF RegistryInv, Own
    <2>4. records[h][t][m].id = records[k][t][n].id => h = k /\ m = n
      BY <2>2 DEF RegistryInv, Distinct
    <2> QED
      BY <2>3, <2>4
  <1>3. OthersAreSeparate
    BY <1>2 DEF OthersAreSeparate
  <1>4. MultiInOrder
    BY DEF RegistryInv, InOrder, OrderOf, Countable, MultiInOrder, InPlace
  <1> QED
    BY <1>1, <1>3, <1>4 DEF BindingsAreShared

\* Whatever array of providers is bound when (`createBinding`, `ɵbindProviders`): the
\* bindings of other tokens than singletons are all different and made for the injector
\* that records them, a steady singleton is recorded with what is saved on its class, and
\* of a multi token as many bindings as providers were given.  Built-in providers may
\* have any lifetime.
THEOREM RegistryInvariance == RegistrySpec => []RegistryInv
  <1>1. TokensFit /\ ProvidersFit /\ BoundsFit
    BY ConstantAssumption
  <1>2. RegistryInit => RegistryInv
    BY <1>1, RegistryInvInit
  <1>3. RegistryInv /\ [RegistryNext]_registryVars => RegistryInv'
    BY <1>1, RegistryInvNext
  <1> QED
    BY <1>2, <1>3, PTL DEF RegistrySpec

\* Every property of a token and every record of an injector holds bindings only.
THEOREM RegistryTypes == RegistrySpec => []RegistryTypeOK
  <1>1. RegistryInv => RegistryTypeOK
    BY DEF RegistryInv
  <1> QED
    BY <1>1, RegistryInvariance, PTL

\* Injectors agree on the binding of a steady singleton that is neither multi nor the
\* injector itself; each records bindings of its own for all other tokens; and it
\* records as many bindings of a multi token as it was given providers, one for one and
\* in order if the token is no singleton, after refused providers as well.
THEOREM BindingsShared == RegistrySpec => []BindingsAreShared
  <1>1. RegistryInv => BindingsAreShared
    BY ConstantAssumption, RegistryInvShares
  <1> QED
    BY <1>1, RegistryInvariance, PTL

\* No bind, refused or not, takes a binding out of an injector or replaces one.
THEOREM RecordsOnlyGrow == RegistrySpec => RecordsGrow
  <1>1. ASSUME RegistryInv, RegistryInv', [RegistryNext]_registryVars
        PROVE  \A h \in Holder, t \in Token : Grows(records[h][t], records'[h][t])
    BY <1>1, ConstantAssumption, RecordsGrowStep
  <1> QED
    BY <1>1, RegistryInvariance, PTL DEF RegistrySpec, RecordsGrow

------------------------------------------------------------------------------
(* Sequences and their elements *)

LEMMA ElementsOfType ==
  ASSUME NEW S, NEW s \in Seq(S)
  PROVE  /\ ToSet(s) \subseteq S
         /\ \A n \in 1..Len(s) : s[n] \in ToSet(s)
         /\ \A x \in ToSet(s) : \E n \in 1..Len(s) : s[n] = x
         /\ s = <<>> => ToSet(s) = {}
  BY ElementOfSeq, LenProperties DEF ToSet

LEMMA ElementOfTheSet ==
  ASSUME NEW S, NEW s \in Seq(S)
  PROVE  \A x : x \in ToSet(s) <=> \E n \in 1..Len(s) : x = s[n]
  BY LenProperties DEF ToSet

LEMMA ElementsOfTail ==
  ASSUME NEW S, NEW s \in Seq(S), s # <<>>
  PROVE  /\ Head(s) \in S /\ Tail(s) \in Seq(S)
         /\ ToSet(s) = {Head(s)} \union ToSet(Tail(s))
         /\ Head(s) \in ToSet(s) /\ ToSet(Tail(s)) \subseteq ToSet(s)
  <1>1. /\ Len(s) \in Nat \ {0} /\ Head(s) = s[1] /\ Head(s) \in S
        /\ Tail(s) \in Seq(S) /\ Len(Tail(s)) = Len(s) - 1
        /\ \A n \in 1..Len(Tail(s)) : Tail(s)[n] = s[n + 1]
        /\ DOMAIN s = 1..Len(s) /\ DOMAIN Tail(s) = 1..Len(Tail(s))
    BY HeadTailProperties, LenProperties, EmptySeq
  <1>2. ToSet(Tail(s)) \subseteq ToSet(s)
    <2>1. ASSUME NEW n \in 1..Len(Tail(s))
          PROVE  n + 1 \in 1..Len(s)
      BY <1>1
    <2> QED
      BY <2>1, <1>1 DEF ToSet
  <1>3. ToSet(s) \subseteq {Head(s)} \union ToSet(Tail(s))
    <2>1. ASSUME NEW n \in 1..Len(s), n # 1
          PROVE  n - 1 \in 1..Len(Tail(s)) /\ Tail(s)[n - 1] = s[n]
      <3>1. n \in Nat /\ n >= 2 /\ n <= Len(s)
        BY <2>1, <1>1
      <3>2. n - 1 \in 1..Len(Tail(s)) /\ (n - 1) + 1 = n
        BY <3>1, <1>1
      <3> QED
        BY <3>2, <1>1
    <2>2. ASSUME NEW n \in 1..Len(s)
          PROVE  s[n] = Head(s) \/ \E k \in 1..Len(Tail(s)) : Tail(s)[k] = s[n]
      BY <2>1, <1>1
    <2>3. /\ \A x : x \in ToSet(s) <=> \E n \in 1..Len(s) : x = s[n]
          /\ \A x : x \in ToSet(Tail(s)) <=> \E n \in 1..Len(Tail(s)) : x = Tail(s)[n]
      BY <1>1, ElementOfTheSet
    <2> QED
      BY <2>2, <2>3
  <1>4. Head(s) \in ToSet(s)
    BY <1>1 DEF ToSet
  <1> QED
    BY <1>1, <1>2, <1>3, <1>4

LEMMA ElementsOfConcat ==
  ASSUME NEW S, NEW s \in Seq(S), NEW t \in Seq(S)
  PROVE  s \o t \in Seq(S) /\ ToSet(s \o t) = ToSet(s) \union ToSet(t)
  <1>1. /\ s \o t \in Seq(S) /\ Len(s \o t) = Len(s) + Len(t)
        /\ \A n \in 1..Len(s) + Len(t) :
              (s \o t)[n] = IF n <= Len(s) THEN s[n] ELSE t[n - Len(s)]
        /\ Len(s) \in Nat /\ Len(t) \in Nat
        /\ DOMAIN s = 1..Len(s) /\ DOMAIN t = 1..Len(t)
        /\ DOMAIN (s \o t) = 1..Len(s) + Len(t)
    BY ConcatProperties, LenProperties
  <1>2. ToSet(s \o t) \subseteq ToSet(s) \union ToSet(t)
    <2>1. ASSUME NEW n \in 1..Len(s) + Len(t), ~(n <= Len(s))
          PROVE  n - Len(s) \in 1..Len(t)
      <3>1. Len(s) \in Nat /\ Len(t) \in Nat
        BY <1>1
      <3> HIDE <1>1
      <3> QED
        BY <2>1, <3>1
    <2> QED
      BY <2>1, <1>1 DEF ToSet
  <1>3. \A n \in 1..Len(s) : n \in 1..Len(s) + Len(t) /\ (s \o t)[n] = s[n]
    BY <1>1
  <1>4. \A n \in 1..Len(t) : /\ Len(s) + n \in 1..Len(s) + Len(t)
                             /\ (s \o t)[Len(s) + n] = t[n]
    <2> SUFFICES ASSUME NEW n \in 1..Len(t)
                 PROVE  /\ Len(s) + n \in 1..Len(s) + Len(t)
                        /\ (s \o t)[Len(s) + n] = t[n]
      OBVIOUS
    <2>1. /\ Len(s) + n \in 1..Len(s) + Len(t) /\ ~(Len(s) + n <= Len(s))
          /\ (Len(s) + n) - Len(s) = n
      BY <1>1
    <2> QED
      BY <2>1, <1>1
  <1>5. /\ \A x : x \in ToSet(s) <=> \E n \in 1..Len(s) : x = s[n]
        /\ \A x : x \in ToSet(t) <=> \E n \in 1..Len(t) : x = t[n]
        /\ \A x : x \in ToSet(s \o t) <=> \E n \in 1..Len(s \o t) : x = (s \o t)[n]
    BY <1>1, ElementOfTheSet
  <1>6. ToSet(s) \subseteq ToSet(s \o t) /\ ToSet(t) \subseteq ToSet(s \o t)
    BY <1>1, <1>3, <1>4, <1>5
  <1> QED
    BY <1>1, <1>2, <1>6

LEMMA ElementsOfOne == \A x : ToSet(<<x>>) = {x}
  BY DEF ToSet

\* The last of a sequence is taken away, replaced, or has another one put on it.
LEMMA LastTakenAway ==
  ASSUME NEW S, NEW s \in Seq(S), s # <<>>
  PROVE  /\ Len(s) \in Nat \ {0}
         /\ Last(s) \in S /\ Last(s) = s[Len(s)]
         /\ Front(s) \in Seq(S) /\ Len(Front(s)) = Len(s) - 1
         /\ \A n \in 1..Len(s) - 1 : Front(s)[n] = s[n]
  <1>1. Len(s) \in Nat \ {0}
    BY LenProperties, EmptySeq
  <1>2. Last(s) \in S /\ Last(s) = s[Len(s)]
    BY <1>1, ElementOfSeq DEF Last
  <1>3. \A n \in 1..Len(s) - 1 : s[n] \in S
    BY <1>1, ElementOfSeq
  <1> DEFINE l == Len(s) - 1
  <1>4. l \in Nat /\ l \in Int /\ l - 1 + 1 = l /\ (l = 0 \/ 1 <= l)
    <2>1. \A n \in Nat \ {0} : /\ n - 1 \in Nat /\ n - 1 \in Int
                               /\ (n - 1) - 1 + 1 = n - 1 /\ (n - 1 = 0 \/ 1 <= n - 1)
      OBVIOUS
    <2> QED
      BY <2>1, <1>1
  <1>5. \A n \in 1..l : s[n] \in S
    BY <1>3
  <1> HIDE DEF l
  <1>6. /\ SubSeq(s, 1, l) \in Seq(S)
        /\ Len(SubSeq(s, 1, l)) = IF 1 <= l THEN l - 1 + 1 ELSE 0
        /\ \A n \in 1..l - 1 + 1 : SubSeq(s, 1, l)[n] = s[1 + n - 1]
    BY <1>4, <1>5, SubSeqProperties
  <1>7. Len(SubSeq(s, 1, l)) = l /\ \A n \in 1..l : SubSeq(s, 1, l)[n] = s[n]
    BY <1>4, <1>6
  <1> QED
    BY <1>1, <1>2, <1>6, <1>7 DEF Front, l

LEMMA LastReplaced ==
  ASSUME NEW S, NEW s \in Seq(S), s # <<>>, NEW x \in S
  PROVE  LET r == Append(Front(s), x)
         IN  /\ r \in Seq(S) /\ Len(r) = Len(s) /\ r # <<>>
             /\ \A n \in 1..Len(s) - 1 : r[n] = s[n]
             /\ r[Len(s)] = x
  <1> DEFINE r == Append(Front(s), x)
  <1>1. /\ r \in Seq(S) /\ Len(r) = Len(s)
        /\ \A n \in 1..Len(s) - 1 : r[n] = s[n]
        /\ r[Len(s)] = x
    BY LastTakenAway, AppendProperties
  <1>2. r # <<>>
    BY <1>1, LastTakenAway, EmptySeq
  <1> QED
    BY <1>1, <1>2

LEMMA LastCovered ==
  ASSUME NEW S, NEW s \in Seq(S), s # <<>>, NEW x \in S, NEW y \in S
  PROVE  LET r == Append(Append(Front(s), x), y)
         IN  /\ r \in Seq(S) /\ Len(r) = Len(s) + 1 /\ r # <<>>
             /\ \A n \in 1..Len(s) - 1 : r[n] = s[n]
             /\ r[Len(s)] = x /\ r[Len(s) + 1] = y
  <1> DEFINE q == Append(Front(s), x)
             r == Append(q, y)
  <1>1. /\ q \in Seq(S) /\ Len(q) = Len(s) /\ Len(s) \in Nat \ {0}
        /\ \A n \in 1..Len(s) - 1 : q[n] = s[n]
        /\ q[Len(s)] = x
    BY LastReplaced, LastTakenAway
  <1> HIDE DEF q
  <1>2. /\ r \in Seq(S) /\ Len(r) = Len(q) + 1
        /\ \A n \in 1..Len(q) : r[n] = q[n]
        /\ r[Len(q) + 1] = y
    BY <1>1, AppendProperties
  <1>3. r # <<>>
    BY <1>1, <1>2, EmptySeq
  <1>4. \A n \in 1..Len(s) - 1 : n \in 1..Len(q)
    BY <1>1
  <1>5. Len(s) \in 1..Len(q)
    BY <1>1
  <1> QED
    BY <1>1, <1>2, <1>3, <1>4, <1>5 DEF q

------------------------------------------------------------------------------
(* What lies below a module, and what a module exports *)

\* The definitions have the types that the application gave them.
Defined ==
    /\ app \in Definitions
    /\ \A S \in SUBSET ModuleClass :
          RootModule \in S /\ HasImports(app, S) => S = ModuleClass

LEMMA AppIsDefined == app \in Apps => Defined
  BY AppAssumption DEF Defined

LEMMA ImportsAreModules ==
  ASSUME Defined, NEW m \in ModuleClass
  PROVE  /\ app.imports[m] \in Seq(ModuleClass) /\ Imported(m) \subseteq ModuleClass
         /\ app.exports[m] \in Seq(ProviderToken)
         /\ ToSet(app.exports[m]) \subseteq ProviderToken
         /\ app.providers[m] \in Seq(Resolvable)
         /\ ToSet(app.providers[m]) \subseteq Resolvable
  <1>1. /\ app.imports[m] \in Seq(ModuleClass) /\ app.exports[m] \in Seq(ProviderToken)
        /\ app.providers[m] \in Seq(Resolvable)
    BY DEF Defined, Definitions
  <1> QED
    BY <1>1, ElementsOfType DEF Imported

LEMMA AllModulesHaveImports == Defined => HasImports(app, ModuleClass)
  BY ImportsAreModules DEF HasImports, Imported

LEMMA BelowIsModule ==
  ASSUME Defined, NEW m \in ModuleClass, NEW k, IsBelow(k, m)
  PROVE  k \in ModuleClass
  BY AllModulesHaveImports, ImportsAreModules DEF IsBelow

LEMMA ImportIsBelow ==
  ASSUME NEW m, NEW k \in Imported(m)
  PROVE  IsBelow(k, m)
  BY DEF IsBelow

LEMMA BelowGoesOn ==
  ASSUME NEW m, NEW j, NEW k, IsBelow(j, m), k \in Imported(j) \/ IsBelow(k, j)
  PROVE  IsBelow(k, m)
  <1> SUFFICES ASSUME NEW S \in SUBSET ModuleClass, Imported(m) \subseteq S, HasImports(app, S)
               PROVE  k \in S
    BY DEF IsBelow
  <1>1. j \in S
    BY DEF IsBelow
  <1>2. Imported(j) \subseteq S
    BY <1>1 DEF HasImports, Imported
  <1> QED
    BY <1>2 DEF IsBelow

LEMMA BelowThroughImport ==
  ASSUME Defined, NEW m \in ModuleClass, NEW k, IsBelow(k, m)
  PROVE  \E j \in Imported(m) : k = j \/ IsBelow(k, j)
  <1> DEFINE S == {x \in ModuleClass : \E j \in Imported(m) : x = j \/ IsBelow(x, j)}
  <1>1. Imported(m) \subseteq S
    BY ImportsAreModules
  <1>2. HasImports(app, S)
    <2> SUFFICES ASSUME NEW x \in S, NEW y \in Imported(x)
                 PROVE  y \in S
      BY DEF HasImports, Imported
    <2>1. y \in ModuleClass
      BY ImportsAreModules
    <2>2. PICK j \in Imported(m) : x = j \/ IsBelow(x, j)
      OBVIOUS
    <2>3. IsBelow(y, j)
      BY <2>2, ImportIsBelow, BelowGoesOn
    <2> QED
      BY <2>1, <2>3
  <1>3. k \in S
    BY <1>1, <1>2 DEF IsBelow
  <1> QED
    BY <1>3

LEMMA NotBelowItself ==
  ASSUME Defined, ~IsCyclic, NEW m \in ModuleClass
  PROVE  ~IsBelow(m, m)
  <1> SUFFICES ASSUME IsBelow(m, m)
               PROVE  IsCyclic
    OBVIOUS
  <1> DEFINE S == {x \in ModuleClass : IsBelow(x, m) /\ IsBelow(m, x)}
  <1>1. m \in S
    OBVIOUS
  <1>2. ASSUME NEW x \in S
        PROVE  Imported(x) \intersect S # {}
    <2>1. PICK j \in Imported(x) : m = j \/ IsBelow(m, j)
      BY BelowThroughImport
    <2>2. CASE m = j
      BY <2>2, <1>1
    <2>3. CASE IsBelow(m, j)
      <3>1. j \in ModuleClass /\ IsBelow(j, m)
        BY ImportsAreModules, BelowGoesOn
      <3> QED
        BY <3>1, <2>3
    <2> QED
      BY <2>1, <2>2, <2>3
  <1> QED
    BY <1>1, <1>2 DEF IsCyclic

\* Every module but the root module is imported by one.
LEMMA OthersAreImported ==
  ASSUME Defined, NEW k \in ModuleClass \ {RootModule}
  PROVE  \E m \in ModuleClass : k \in Imported(m)
  <1> DEFINE S == {x \in ModuleClass : x = RootModule \/ \E m \in ModuleClass : x \in Imported(m)}
  <1>1. RootModule \in S
    BY ResolvableAssumption
  <1>2. HasImports(app, S)
    BY ImportsAreModules DEF HasImports, Imported
  <1>3. S = ModuleClass
    BY <1>1, <1>2 DEF Defined
  <1> QED
    BY <1>3

LEMMA BelowRoot ==
  ASSUME Defined, NEW k \in ModuleClass \ {RootModule}
  PROVE  IsBelow(k, RootModule)
  <1> DEFINE S == {x \in ModuleClass : x = RootModule \/ IsBelow(x, RootModule)}
  <1>1. RootModule \in S
    BY ResolvableAssumption
  <1>2. HasImports(app, S)
    <2> SUFFICES ASSUME NEW x \in S, NEW y \in Imported(x)
                 PROVE  y \in S
      BY DEF HasImports, Imported
    <2> QED
      BY ImportsAreModules, ImportIsBelow, BelowGoesOn
  <1>3. S = ModuleClass
    BY <1>1, <1>2 DEF Defined
  <1> QED
    BY <1>3

LEMMA RootIsNotBelow ==
  ASSUME Defined, ~IsCyclic, NEW m \in ModuleClass
  PROVE  ~IsBelow(RootModule, m)
  <1> SUFFICES ASSUME IsBelow(RootModule, m)
               PROVE  FALSE
    OBVIOUS
  <1>1. RootModule \in ModuleClass
    BY ResolvableAssumption
  <1>2. IsBelow(RootModule, RootModule)
    BY BelowRoot, BelowGoesOn
  <1> QED
    BY <1>1, <1>2, NotBelowItself

\* The modules that j exports, but for itself.
ReExports(j) == (ToSet(app.exports[j]) \intersect ModuleClass) \ {j}

\* What one export of d stands for.
DeclaredBy(d, e) ==
    IF e = d THEN Tokens(ToSet(app.providers[d]))
    ELSE IF e \in ModuleClass THEN Declared(e) ELSE {e}

LEMMA ReExportIsExported ==
  ASSUME Defined, NEW d \in ModuleClass, NEW e \in ReExports(d)
  PROVE  ExportedFrom(e) \subseteq ExportedFrom(d)
  <1>1. e \in ModuleClass
    BY DEF ReExports
  <1> SUFFICES ASSUME NEW k \in ExportedFrom(e), NEW S \in SUBSET ModuleClass,
                      d \in S, \A j \in S : ReExports(j) \subseteq S
               PROVE  k \in S
    BY DEF ExportedFrom, ReExports
  <1>2. e \in S
    OBVIOUS
  <1> QED
    BY <1>2 DEF ExportedFrom, ReExports

LEMMA ExportedThroughReExport ==
  ASSUME Defined, NEW d \in ModuleClass, NEW k \in ExportedFrom(d), k # d
  PROVE  \E e \in ReExports(d) : k \in ExportedFrom(e)
  <1> DEFINE S == {x \in ModuleClass : x = d \/ \E e \in ReExports(d) : x \in ExportedFrom(e)}
  <1>1. ASSUME NEW x \in S
        PROVE  ReExports(x) \subseteq S
    <2> SUFFICES ASSUME NEW y \in ReExports(x)
                 PROVE  y \in S
      OBVIOUS
    <2>1. y \in ModuleClass /\ y \in ExportedFrom(y)
      BY DEF ReExports, ExportedFrom
    <2>2. CASE x = d
      BY <2>1, <2>2
    <2>3. ASSUME NEW e \in ReExports(d), x \in ExportedFrom(e)
          PROVE  y \in S
      <3>1. y \in ExportedFrom(e)
        BY <2>1, <2>3 DEF ExportedFrom, ReExports
      <3> QED
        BY <2>1, <3>1
    <2> QED
      BY <2>2, <2>3
  <1>2. k \in S
    BY <1>1 DEF ExportedFrom, ReExports
  <1> QED
    BY <1>2

\* A module declares what its exports stand for, one by one.
LEMMA DeclaredExportwise ==
  ASSUME Defined, NEW d \in ModuleClass
  PROVE  Declared(d) = UNION {DeclaredBy(d, e) : e \in ToSet(app.exports[d])}
  <1> DEFINE U == UNION {DeclaredBy(d, e) : e \in ToSet(app.exports[d])}
  <1>1. DeclaredIn(d) \subseteq U
    BY DEF DeclaredIn, DeclaredBy
  <1>2. ASSUME NEW e \in ReExports(d)
        PROVE  Declared(e) \subseteq U
    BY DEF ReExports, DeclaredBy
  <1>3. Declared(d) \subseteq U
    <2> SUFFICES ASSUME NEW k \in ExportedFrom(d), NEW t \in DeclaredIn(k)
                 PROVE  t \in U
      BY DEF Declared
    <2>1. CASE k = d
      BY <1>1, <2>1
    <2>2. CASE k # d
      <3>1. PICK e \in ReExports(d) : k \in ExportedFrom(e)
        BY <2>2, ExportedThroughReExport
      <3>2. t \in Declared(e)
        BY <3>1 DEF Declared
      <3> QED
        BY <3>2, <1>2
    <2> QED
      BY <2>1, <2>2
  <1>4. d \in ExportedFrom(d)
    BY DEF ExportedFrom
  <1>5. ASSUME NEW e \in ToSet(app.exports[d])
        PROVE  DeclaredBy(d, e) \subseteq Declared(d)
    <2>1. CASE e = d \/ e \notin ModuleClass
      BY <2>1, <1>4 DEF DeclaredBy, DeclaredIn, Declared
    <2>2. CASE e # d /\ e \in ModuleClass
      <3>1. e \in ReExports(d)
        BY <2>2 DEF ReExports
      <3> QED
        BY <2>2, <3>1, ReExportIsExported DEF DeclaredBy, Declared
    <2> QED
      BY <2>1, <2>2
  <1> QED
    BY <1>3, <1>5
------------------------------------------------------------------------------
(* The invariant *)

TokensOf(arrays, m) == Tokens(ToSet(arrays[m]))

\* The exports of the import i arrived in the array of m, and none of them is wrong.
Given(arrays, m, i) ==
    /\ Declared(i) \subseteq TokensOf(arrays, m)
    /\ \A e \in ToSet(app.exports[i]) : ~BadExport(i, e)

\* An import merges, or a module exports, to a module that it belongs to.
CallOK(c) ==
    /\ c.in # "exports" => /\ ToSet(c.left) \subseteq Imported(c.of)
                           /\ c.in = "exported" => c.left # <<>>
    /\ c.in = "exports" => /\ IsBelow(c.of, c.to)
                           /\ Declared(c.of) \subseteq Meant(c.to)
                           /\ ToSet(c.left) \subseteq ToSet(app.exports[c.of])

IsMerge(c, m) == c.in # "exports" /\ c.of = m

IsExport(c, m, d) == c.in = "exports" /\ c.to = m /\ c.of = d

\* What the loop of the call c is through with was done, or is being done by the
\* call that c made: up holds that one, if there is one.
Progress(c, up, arrays, done) ==
    /\ c.in # "exports" =>
          \A i \in Imported(c.of) :
              \/ i \in ToSet(c.left)
              \/ /\ Given(arrays, c.of, i)
                 /\ i \in done \/ \E u \in up : IsMerge(u, i)
    /\ c.in = "exported" =>
          \/ Given(arrays, c.of, Head(c.left))
          \/ \E u \in up : IsExport(u, c.of, Head(c.left))
    /\ c.in = "exports" =>
          \A e \in ToSet(app.exports[c.of]) :
              \/ e \in ToSet(c.left)
              \/ /\ ~BadExport(c.of, e)
                 /\ \/ DeclaredBy(c.of, e) \subseteq TokensOf(arrays, c.to)
                    \/ \E u \in up : IsExport(u, c.to, e)

\* The call that the k-th one of s made.
Above(s, k) == IF k < Len(s) THEN {s[k + 1]} ELSE {}

CallsOK(s, arrays, done) ==
    /\ s # <<>> => IsMerge(s[1], RootModule)
    /\ \A k \in 1..Len(s) :
          CallOK(s[k]) /\ Progress(s[k], Above(s, k), arrays, done)

CallsInv ==
    /\ phase = "merging" <=> calls # <<>>
    /\ CallsOK(calls, providers, processed)

\* A module that was processed has all that its imports export.
ProcessedInv ==
    \A m \in processed : \A i \in Imported(m) : i \in processed /\ Given(providers, m, i)

\* Modules that export themselves import nothing.
ExportAllIsFixed == \A d \in ModuleClass : d \in ToSet(app.exports[d]) => Imported(d) = {}

\* A custom provider of a module is its own, or one that is exported below it.
ArraysInv ==
    \A m \in ModuleClass :
        /\ ToSet(app.providers[m]) \subseteq ToSet(providers[m])
        /\ \A p \in ToSet(providers[m]) \intersect CustomProvider :
              \/ ProvidesCustom(m, ProviderTokenOf[p])
              \/ IsExportedBelow(m, ProviderTokenOf[p])
        /\ ExportAllIsFixed => TokensOf(providers, m) \subseteq Meant(m)

\* The module k exports the token and has a provider of it.
Offers(k, t) == ProvidesCustom(k, t) /\ {t, k} \intersect ToSet(app.exports[k]) # {}

\* The imports that the search f is through with offer no provider of t, nor does
\* what is below them, unless the next call looks there.
SearchOK(f, up, d, t) ==
    /\ f.of = d \/ IsBelow(f.of, d)
    /\ ToSet(f.left) \subseteq Imported(f.of)
    /\ \A i \in Imported(f.of) :
          \/ i \in ToSet(f.left)
          \/ /\ ~Offers(i, t)
             /\ \/ ~IsExportedBelow(i, t)
                \/ \E u \in up : u.of = i

NestedOK(s, d, t) ==
    /\ s[1].of = d
    /\ \A k \in 1..Len(s) : SearchOK(s[k], Above(s, k), d, t)

\* There is a search only for an export that has not been found.
NestedInv ==
    nested # <<>> =>
        /\ phase = "merging" /\ Running.in = "exports" /\ Running.left # <<>>
        /\ Current \in InjectionToken /\ CustomAt(Running.of, Current) = {}
        /\ NestedOK(nested, Running.of, Current)

\* How far the loader came, and why it threw.
PhaseInv ==
    /\ phase # "scanned" => ~IsCyclic \/ failure = "overflow"
    /\ phase \in {"merged", "creating", "loaded"} \/ failure = "duplicate" =>
          RootModule \in processed
    /\ failure = "export" => HasBadExport
    /\ phase # "threw" => failure = "none"

\* The loops on the stack are those of modules with a ModuleRef.
StackInv ==
    \A k \in 1..Len(stack) : /\ stack[k].module \in DOMAIN parent
                             /\ ToSet(stack[k].left) \subseteq Imported(stack[k].module)

\* The parent of a module imports it.
ParentInv ==
    \A m \in DOMAIN parent \ {RootModule} :
        parent[m] # Undefined /\ m \in Imported(parent[m])

\* What a module with a ModuleRef imports has one, or is left in a loop.
ChildrenInv ==
    \A m \in DOMAIN parent : \A i \in Imported(m) :
        \/ i \in DOMAIN parent
        \/ \E k \in 1..Len(stack) : stack[k].module = m /\ i \in ToSet(stack[k].left)

\* The injectors got what the array of the module has for them.
BoundInv ==
    \A m \in DOMAIN parent :
        /\ ModuleProvidersOf(m) \subseteq bindings[m]
        /\ context[m] = ComponentRefs(m)
        /\ \A t \in TokensOf(providers, m) : ProvidedIn[t] = "root" => t \in Tokens(root)

RefsInv ==
    /\ phase \in {"scanned", "merging", "merged"} => DOMAIN parent = {} /\ stack = <<>>
    /\ phase \in {"creating", "loaded"} => RootModule \in DOMAIN parent
    /\ phase = "creating" => stack # <<>>
    /\ phase = "loaded" => stack = <<>>
    /\ StackInv /\ ParentInv /\ ChildrenInv /\ BoundInv

ProvidersInv ==
    /\ ProvidersTypeOK
    /\ CallsInv /\ ProcessedInv /\ ArraysInv /\ NestedInv /\ PhaseInv /\ RefsInv
------------------------------------------------------------------------------
(* The definitions of the application stay, and all that is said of them *)

LEMMA DefinitionsStay ==
  ASSUME app' = app
  PROVE  /\ Defined' <=> Defined
         /\ IsCyclic' <=> IsCyclic
         /\ ExportAllIsFixed' <=> ExportAllIsFixed
         /\ HasBadExport' <=> HasBadExport
         /\ \A m : Imported(m)' = Imported(m)
         /\ \A m : Meant(m)' = Meant(m)
         /\ \A d : Declared(d)' = Declared(d)
         /\ \A d, e : BadExport(d, e)' <=> BadExport(d, e)
         /\ \A m, t : ProvidesCustom(m, t)' <=> ProvidesCustom(m, t)
         /\ \A m, t : IsExportedBelow(m, t)' <=> IsExportedBelow(m, t)
         /\ \A k, m : IsBelow(k, m)' <=> IsBelow(k, m)
         /\ \A k, t : Offers(k, t)' <=> Offers(k, t)
  <1>1. Defined' <=> Defined
    BY DEF Defined
  <1>2. \A m : Imported(m)' = Imported(m)
    BY DEF Imported
  <1>3. IsCyclic' <=> IsCyclic
    BY <1>2 DEF IsCyclic
  <1>4. ExportAllIsFixed' <=> ExportAllIsFixed
    BY <1>2 DEF ExportAllIsFixed
  <1>5. \A k, m : IsBelow(k, m)' <=> IsBelow(k, m)
    BY <1>2 DEF IsBelow
  <1>6. \A m, t : ProvidesCustom(m, t)' <=> ProvidesCustom(m, t)
    BY DEF ProvidesCustom
  <1>7. \A m, t : IsExportedBelow(m, t)' <=> IsExportedBelow(m, t)
    BY <1>5, <1>6 DEF IsExportedBelow
  <1>8. \A d : ExportedFrom(d)' = ExportedFrom(d)
    BY DEF ExportedFrom
  <1>9. \A d : DeclaredIn(d)' = DeclaredIn(d)
    BY DEF DeclaredIn
  <1>10. \A d : Declared(d)' = Declared(d)
    BY <1>8, <1>9 DEF Declared
  <1>11. \A m : Meant(m)' = Meant(m)
    BY <1>2, <1>10 DEF Meant
  <1>12. \A d, e : BadExport(d, e)' <=> BadExport(d, e)
    BY <1>2, <1>6, <1>7 DEF BadExport
  <1>13. HasBadExport' <=> HasBadExport
    BY <1>12 DEF HasBadExport
  <1>14. \A k, t : Offers(k, t)' <=> Offers(k, t)
    BY <1>6 DEF Offers
  <1> QED
    BY <1>1, <1>2, <1>3, <1>4, <1>5, <1>6, <1>7, <1>10, <1>11, <1>12, <1>13, <1>14

LEMMA CallsMeanTheSame ==
  ASSUME app' = app
  PROVE  /\ \A arrays, m, i : Given(arrays, m, i)' <=> Given(arrays, m, i)
         /\ \A s, arrays, done : CallsOK(s, arrays, done)' <=> CallsOK(s, arrays, done)
  <1>1. \A d, e : DeclaredBy(d, e)' = DeclaredBy(d, e)
    BY DefinitionsStay DEF DeclaredBy
  <1>2. \A arrays, m, i : Given(arrays, m, i)' <=> Given(arrays, m, i)
    BY DefinitionsStay DEF Given
  <1>3. \A c : CallOK(c)' <=> CallOK(c)
    BY DefinitionsStay DEF CallOK
  <1>4. \A c, up, arrays, done :
           Progress(c, up, arrays, done)' <=> Progress(c, up, arrays, done)
    BY <1>1, <1>2, DefinitionsStay DEF Progress
  <1> QED
    BY <1>2, <1>3, <1>4 DEF CallsOK

------------------------------------------------------------------------------
(* The calls *)

LEMMA CallFields ==
  ASSUME NEW c \in Call
  PROVE  /\ c.of \in ModuleClass
         /\ c.in # "exports" => c.in \in {"imports", "exported"} /\ c.left \in Seq(ModuleClass)
         /\ c.in = "exports" => c.to \in ModuleClass /\ c.left \in Seq(ProviderToken)
  BY DEF Call

\* The two calls give what one import exports to one module, or merge one module.
Like(c, r) ==
    /\ c.in = "exports" <=> r.in = "exports"
    /\ r.of = c.of
    /\ c.in = "exports" => r.to = c.to

LEMMA CallGoesOn ==
  ASSUME NEW c \in Call, c.left # <<>>
  PROVE  LET r == [c EXCEPT !.left = Tail(@)]
         IN  r \in Call /\ Like(c, r) /\ r.in = c.in /\ r.left = Tail(c.left)
  <1>1. CASE c \in [in: {"imports", "exported"}, of: ModuleClass, left: Seq(ModuleClass)]
    <2>1. Tail(c.left) \in Seq(ModuleClass)
      BY <1>1, HeadTailProperties
    <2> QED
      BY <1>1, <2>1 DEF Call, Like
  <1>2. CASE c \in [in: {"exports"}, to: ModuleClass, of: ModuleClass,
                    left: Seq(ProviderToken)]
    <2>1. Tail(c.left) \in Seq(ProviderToken)
      BY <1>2, HeadTailProperties
    <2> QED
      BY <1>2, <2>1 DEF Call, Like
  <1> QED
    BY <1>1, <1>2 DEF Call

LEMMA MergeGoesOn ==
  ASSUME NEW c \in Call, c.in # "exports", c.left # <<>>
  PROVE  /\ LET r == [c EXCEPT !.in = "exported"]
            IN  r \in Call /\ Like(c, r) /\ r.in = "exported" /\ r.left = c.left
         /\ LET r == [c EXCEPT !.in = "imports", !.left = Tail(@)]
            IN  r \in Call /\ Like(c, r) /\ r.in = "imports" /\ r.left = Tail(c.left)
  <1>1. c \in [in: {"imports", "exported"}, of: ModuleClass, left: Seq(ModuleClass)]
    BY DEF Call
  <1>2. Tail(c.left) \in Seq(ModuleClass)
    BY <1>1, HeadTailProperties
  <1> QED
    BY <1>1, <1>2 DEF Call, Like

\* More tokens in the arrays, more modules processed.
Widens(arrays, later, done, after) ==
    /\ \A m \in ModuleClass : TokensOf(arrays, m) \subseteq TokensOf(later, m)
    /\ done \subseteq after

LEMMA GivenStays ==
  ASSUME NEW arrays, NEW later, NEW done, NEW after, Widens(arrays, later, done, after),
         NEW m \in ModuleClass, NEW i, Given(arrays, m, i)
  PROVE  Given(later, m, i)
  BY DEF Given, Widens

LEMMA ProgressStays ==
  ASSUME NEW arrays, NEW later, NEW done, NEW after, Widens(arrays, later, done, after),
         NEW c \in Call, NEW up, NEW next, Progress(c, up, arrays, done),
         \A u \in up : \E v \in next : Like(u, v)
  PROVE  Progress(c, next, later, after)
  <1>1. \A u \in up : \E v \in next :
           /\ \A m : IsMerge(u, m) => IsMerge(v, m)
           /\ \A m, d : IsExport(u, m, d) => IsExport(v, m, d)
    BY DEF Like, IsMerge, IsExport
  <1>2. c.of \in ModuleClass /\ (c.in = "exports" => c.to \in ModuleClass)
    BY CallFields
  <1>3. ASSUME c.in # "exports", NEW i \in Imported(c.of), i \notin ToSet(c.left)
        PROVE  Given(later, c.of, i) /\ (i \in after \/ \E u \in next : IsMerge(u, i))
    <2>1. Given(arrays, c.of, i) /\ (i \in done \/ \E u \in up : IsMerge(u, i))
      BY <1>3 DEF Progress
    <2> QED
      BY <2>1, <1>1, <1>2, GivenStays DEF Widens
  <1>4. ASSUME c.in = "exported"
        PROVE  \/ Given(later, c.of, Head(c.left))
               \/ \E u \in next : IsExport(u, c.of, Head(c.left))
    <2>1. \/ Given(arrays, c.of, Head(c.left))
          \/ \E u \in up : IsExport(u, c.of, Head(c.left))
      BY <1>4 DEF Progress
    <2> QED
      BY <2>1, <1>1, <1>2, GivenStays
  <1>5. ASSUME c.in = "exports", NEW e \in ToSet(app.exports[c.of]), e \notin ToSet(c.left)
        PROVE  /\ ~BadExport(c.of, e)
               /\ \/ DeclaredBy(c.of, e) \subseteq TokensOf(later, c.to)
                  \/ \E u \in next : IsExport(u, c.to, e)
    <2>1. /\ ~BadExport(c.of, e)
          /\ \/ DeclaredBy(c.of, e) \subseteq TokensOf(arrays, c.to)
             \/ \E u \in up : IsExport(u, c.to, e)
      BY <1>5 DEF Progress
    <2> QED
      BY <2>1, <1>1, <1>2, <1>5 DEF Widens
  <1> QED
    BY <1>3, <1>4, <1>5 DEF Progress

\* A call returns: the one below it has what it waited for.
LEMMA CallReturns ==
  ASSUME NEW s \in Seq(Call), s # <<>>,
         NEW arrays, NEW later, NEW done, NEW after, Widens(arrays, later, done, after),
         CallsOK(s, arrays, done),
         \A c \in Call : Progress(c, {Last(s)}, later, after) => Progress(c, {}, later, after)
  PROVE  CallsOK(Front(s), later, after) /\ Front(s) \in Seq(Call)
  <1> DEFINE r == Front(s)
             l == Len(s)
  <1>1. /\ l \in Nat \ {0} /\ Last(s) = s[l]
        /\ r \in Seq(Call) /\ Len(r) = l - 1
        /\ \A n \in 1..l - 1 : r[n] = s[n]
    BY LastTakenAway
  <1>2. \A n \in 1..l : s[n] \in Call
    BY ElementOfSeq
  <1> HIDE DEF r
  <1>3. r # <<>> => IsMerge(r[1], RootModule)
    <2>1. r # <<>> => 1 \in 1..l - 1
      BY <1>1, LenProperties, EmptySeq
    <2> QED
      BY <2>1, <1>1 DEF CallsOK
  <1>4. ASSUME NEW k \in 1..l - 1
        PROVE  CallOK(r[k]) /\ Progress(r[k], Above(r, k), later, after)
    <2>1. /\ k \in 1..l /\ r[k] = s[k] /\ k \in Nat
          /\ Above(s, k) = {s[k + 1]}
          /\ k < l - 1 => k + 1 \in 1..l - 1
          /\ ~(k < l - 1) => k + 1 = l
      BY <1>1 DEF Above
    <2>2. CallOK(s[k]) /\ Progress(s[k], Above(s, k), arrays, done)
      BY <2>1 DEF CallsOK
    <2>3. Progress(s[k], Above(s, k), later, after)
      BY <2>1, <2>2, <1>2, ProgressStays DEF Like
    <2>4. CASE k < l - 1
      <3>1. Above(r, k) = Above(s, k)
        BY <2>1, <2>4, <1>1 DEF Above
      <3> QED
        BY <3>1, <2>1, <2>2, <2>3
    <2>5. CASE ~(k < l - 1)
      <3>1. Above(r, k) = {} /\ Above(s, k) = {Last(s)}
        BY <2>1, <2>5, <1>1 DEF Above
      <3> QED
        BY <3>1, <2>1, <2>2, <2>3, <1>2
    <2> QED
      BY <2>4, <2>5
  <1> QED
    BY <1>1, <1>3, <1>4 DEF CallsOK, r

\* A call goes on, and the ones below it wait for the same call.
LEMMA CallContinues ==
  ASSUME NEW s \in Seq(Call), s # <<>>,
         NEW arrays, NEW later, NEW done, NEW after, Widens(arrays, later, done, after),
         CallsOK(s, arrays, done),
         NEW x \in Call, Like(Last(s), x), CallOK(x), Progress(x, {}, later, after)
  PROVE  LET r == Append(Front(s), x)
         IN  CallsOK(r, later, after) /\ r \in Seq(Call) /\ r # <<>>
  <1> DEFINE r == Append(Front(s), x)
             l == Len(s)
  <1>0. l \in Nat \ {0} /\ Last(s) = s[l]
    BY LastTakenAway
  <1>1. /\ r \in Seq(Call) /\ Len(r) = l /\ r # <<>>
        /\ \A n \in 1..l - 1 : r[n] = s[n]
        /\ r[l] = x
        /\ l \in Nat \ {0} /\ Last(s) = s[l]
    BY <1>0, LastReplaced
  <1>2. \A n \in 1..l : s[n] \in Call
    BY ElementOfSeq
  <1> HIDE DEF r
  <1>3. IsMerge(r[1], RootModule)
    <2>1. IsMerge(s[1], RootModule)
      BY DEF CallsOK
    <2>2. CASE l = 1
      BY <2>1, <2>2, <1>1 DEF IsMerge, Like
    <2>3. CASE l # 1
      <3>1. 1 \in 1..l - 1
        <4>1. \A n \in Nat \ {0} : n # 1 => 1 \in 1..n - 1
          OBVIOUS
        <4> QED
          BY <4>1, <2>3, <1>1
      <3> QED
        BY <3>1, <2>1, <1>1
    <2> QED
      BY <2>2, <2>3
  <1>4. ASSUME NEW k \in 1..l - 1
        PROVE  CallOK(r[k]) /\ Progress(r[k], Above(r, k), later, after)
    <2>1. /\ k \in 1..l /\ r[k] = s[k]
          /\ Above(s, k) = {s[k + 1]} /\ Above(r, k) = {r[k + 1]}
          /\ k + 1 # l => k + 1 \in 1..l - 1
      BY <1>1 DEF Above
    <2>2. CallOK(s[k]) /\ Progress(s[k], Above(s, k), arrays, done)
      BY <2>1 DEF CallsOK
    <2>3. Like(s[k + 1], r[k + 1])
      <3>1. CASE k + 1 = l
        BY <3>1, <1>1
      <3>2. CASE k + 1 # l
        <4>1. r[k + 1] = s[k + 1]
          BY <3>2, <2>1, <1>1
        <4> QED
          BY <4>1 DEF Like
      <3> QED
        BY <3>1, <3>2
    <2>4. s[k] \in Call /\ \A u \in Above(s, k) : \E v \in Above(r, k) : Like(u, v)
      BY <2>1, <2>3, <1>2
    <2>5. Progress(s[k], Above(r, k), later, after)
      BY <2>2, <2>4, ProgressStays
    <2> QED
      BY <2>1, <2>2, <2>5
  <1>5. Above(r, l) = {}
    BY <1>1 DEF Above
  <1>6. \A k \in 1..l : k = l \/ k \in 1..l - 1
    BY <1>1
  <1> QED
    BY <1>1, <1>3, <1>4, <1>5, <1>6 DEF CallsOK, r

\* A call goes on and makes another one.
LEMMA CallCalls ==
  ASSUME NEW s \in Seq(Call), s # <<>>, NEW arrays, NEW done,
         CallsOK(s, arrays, done),
         NEW x \in Call, Like(Last(s), x), CallOK(x),
         NEW y \in Call, CallOK(y),
         Progress(x, {y}, arrays, done), Progress(y, {}, arrays, done)
  PROVE  LET r == Append(Append(Front(s), x), y)
         IN  CallsOK(r, arrays, done) /\ r \in Seq(Call) /\ r # <<>>
  <1> DEFINE r == Append(Append(Front(s), x), y)
             l == Len(s)
  <1>0. l \in Nat \ {0} /\ Last(s) = s[l]
    BY LastTakenAway
  <1>1. /\ r \in Seq(Call) /\ Len(r) = l + 1 /\ r # <<>>
        /\ \A n \in 1..l - 1 : r[n] = s[n]
        /\ r[l] = x /\ r[l + 1] = y
        /\ l \in Nat \ {0} /\ Last(s) = s[l]
    BY <1>0, LastCovered
  <1>2. \A n \in 1..l : s[n] \in Call
    BY ElementOfSeq
  <1> HIDE DEF r
  <1>3. IsMerge(r[1], RootModule)
    <2>1. IsMerge(s[1], RootModule)
      BY DEF CallsOK
    <2>2. CASE l = 1
      BY <2>1, <2>2, <1>1 DEF IsMerge, Like
    <2>3. CASE l # 1
      <3>1. 1 \in 1..l - 1
        <4>1. \A n \in Nat \ {0} : n # 1 => 1 \in 1..n - 1
          OBVIOUS
        <4> QED
          BY <4>1, <2>3, <1>1
      <3> QED
        BY <3>1, <2>1, <1>1
    <2> QED
      BY <2>2, <2>3
  <1>4. ASSUME NEW k \in 1..l - 1
        PROVE  CallOK(r[k]) /\ Progress(r[k], Above(r, k), arrays, done)
    <2>1. /\ k \in 1..l /\ r[k] = s[k]
          /\ Above(s, k) = {s[k + 1]} /\ Above(r, k) = {r[k + 1]}
          /\ k + 1 # l => k + 1 \in 1..l - 1
      BY <1>1 DEF Above
    <2>2. CallOK(s[k]) /\ Progress(s[k], Above(s, k), arrays, done)
      BY <2>1 DEF CallsOK
    <2>3. Like(s[k + 1], r[k + 1])
      <3>1. CASE k + 1 = l
        BY <3>1, <1>1
      <3>2. CASE k + 1 # l
        <4>1. r[k + 1] = s[k + 1]
          BY <3>2, <2>1, <1>1
        <4> QED
          BY <4>1 DEF Like
      <3> QED
        BY <3>1, <3>2
    <2>4. Widens(arrays, arrays, done, done)
      BY DEF Widens
    <2>5. s[k] \in Call /\ \A u \in Above(s, k) : \E v \in Above(r, k) : Like(u, v)
      BY <2>1, <2>3, <1>2
    <2>6. Progress(s[k], Above(r, k), arrays, done)
      BY <2>2, <2>4, <2>5, ProgressStays
    <2> QED
      BY <2>1, <2>2, <2>6
  <1>5. Above(r, l) = {y} /\ Above(r, l + 1) = {}
    BY <1>1 DEF Above
  <1>6. \A k \in 1..l + 1 : k = l + 1 \/ k = l \/ k \in 1..l - 1
    BY <1>1
  <1> QED
    BY <1>1, <1>3, <1>4, <1>5, <1>6 DEF CallsOK, r
LEMMA RunningIs ==
  ASSUME ProvidersTypeOK, CallsInv, phase = "merging"
  PROVE  /\ calls \in Seq(Call) /\ calls # <<>> /\ Running \in Call
         /\ CallOK(Running) /\ Progress(Running, {}, providers, processed)
         /\ Len(calls) = 1 => IsMerge(Running, RootModule)
         /\ IsMerge(calls[1], RootModule)
  <1>1. calls \in Seq(Call) /\ calls # <<>> /\ CallsOK(calls, providers, processed)
    BY DEF ProvidersTypeOK, CallsInv
  <1>2. Running \in Call /\ Running = calls[Len(calls)] /\ Len(calls) \in Nat \ {0}
    BY <1>1, LastTakenAway DEF Running
  <1>3. Len(calls) \in 1..Len(calls) /\ Above(calls, Len(calls)) = {}
    BY <1>2 DEF Above
  <1> QED
    BY <1>1, <1>2, <1>3 DEF CallsOK

LEMMA MergingIs ==
  ASSUME Defined, NEW m \in ModuleClass
  PROVE  /\ Merging(m) \in Call /\ CallOK(Merging(m)) /\ IsMerge(Merging(m), m)
         /\ \A arrays, done : Progress(Merging(m), {}, arrays, done)
  <1>1. app.imports[m] \in Seq(ModuleClass)
    BY ImportsAreModules
  <1> QED
    BY <1>1 DEF Merging, Call, CallOK, IsMerge, Progress, Imported

LEMMA ExportingIs ==
  ASSUME Defined, NEW m \in ModuleClass, NEW d \in ModuleClass,
         IsBelow(d, m), Declared(d) \subseteq Meant(m)
  PROVE  /\ Exporting(m, d) \in Call /\ CallOK(Exporting(m, d))
         /\ IsExport(Exporting(m, d), m, d)
         /\ \A arrays, done : Progress(Exporting(m, d), {}, arrays, done)
  <1>1. app.exports[d] \in Seq(ProviderToken)
    BY ImportsAreModules
  <1> QED
    BY <1>1 DEF Exporting, Call, CallOK, IsExport, Progress

------------------------------------------------------------------------------
(* The arrays *)

\* A module may get these providers.
MayGet(m, ps) ==
    /\ \A p \in ToSet(ps) \intersect CustomProvider :
          \/ ProvidesCustom(m, ProviderTokenOf[p])
          \/ IsExportedBelow(m, ProviderTokenOf[p])
    /\ ExportAllIsFixed => Tokens(ToSet(ps)) \subseteq Meant(m)

LEMMA ArraysStay ==
  ASSUME ArraysInv, UNCHANGED <<app, providers>>
  PROVE  ArraysInv'
  BY DefinitionsStay DEF ArraysInv, TokensOf, Tokens, CustomProvider, Class

LEMMA ArrayGrows ==
  ASSUME ProvidersTypeOK, ArraysInv, UNCHANGED app, NEW m \in ModuleClass,
         NEW ps \in Seq(Resolvable), MayGet(m, ps), Push(m, ps)
  PROVE  /\ providers' \in [ModuleClass -> Seq(Resolvable)]
         /\ ArraysInv'
         /\ Widens(providers, providers', processed, processed)
         /\ Tokens(ToSet(ps)) \subseteq TokensOf(providers', m)
  <1>1. providers \in [ModuleClass -> Seq(Resolvable)]
    BY DEF ProvidersTypeOK
  <1>2. /\ providers[m] \o ps \in Seq(Resolvable)
        /\ ToSet(providers[m] \o ps) = ToSet(providers[m]) \union ToSet(ps)
    BY <1>1, ElementsOfConcat
  <1>3. /\ providers' \in [ModuleClass -> Seq(Resolvable)]
        /\ providers'[m] = providers[m] \o ps
        /\ \A k \in ModuleClass \ {m} : providers'[k] = providers[k]
    BY <1>1, <1>2 DEF Push
  <1>4. /\ ToSet(providers'[m]) = ToSet(providers[m]) \union ToSet(ps)
        /\ \A k \in ModuleClass : ToSet(providers[k]) \subseteq ToSet(providers'[k])
    BY <1>2, <1>3
  <1>5. /\ TokensOf(providers', m) = TokensOf(providers, m) \union Tokens(ToSet(ps))
        /\ \A k \in ModuleClass : TokensOf(providers, k) \subseteq TokensOf(providers', k)
    BY <1>4 DEF TokensOf, Tokens
  <1>6. ASSUME NEW k \in ModuleClass
        PROVE  /\ ToSet(app.providers[k]) \subseteq ToSet(providers'[k])
               /\ \A p \in ToSet(providers'[k]) \intersect CustomProvider :
                     \/ ProvidesCustom(k, ProviderTokenOf[p])
                     \/ IsExportedBelow(k, ProviderTokenOf[p])
               /\ ExportAllIsFixed => TokensOf(providers', k) \subseteq Meant(k)
    <2>1. CASE k = m
      BY <2>1, <1>4, <1>5 DEF ArraysInv, MayGet
    <2>2. CASE k # m
      BY <2>2, <1>3 DEF ArraysInv, TokensOf
    <2> QED
      BY <2>1, <2>2
  <1>7. ArraysInv'
    BY <1>6, DefinitionsStay DEF ArraysInv, CustomProvider, Class, TokensOf
  <1> QED
    BY <1>3, <1>5, <1>7 DEF Widens

LEMMA ProcessedStay ==
  ASSUME ProvidersTypeOK, ProcessedInv, UNCHANGED <<app, processed>>,
         Widens(providers, providers', processed, processed)
  PROVE  ProcessedInv'
  <1>1. \A m \in processed : \A i \in Imported(m) :
           i \in processed /\ Given(providers', m, i)
    BY GivenStays DEF ProcessedInv, ProvidersTypeOK
  <1> QED
    BY <1>1, DefinitionsStay, CallsMeanTheSame DEF ProcessedInv

\* The first custom provider is one.
LEMMA FirstCustomIs ==
  ASSUME ProvidersTypeOK, NEW m \in ModuleClass, NEW t, CustomAt(m, t) # {}
  PROVE  /\ FirstCustom(m, t) \in ToSet(providers[m]) \intersect CustomProvider
         /\ FirstCustom(m, t) \in Resolvable
         /\ ProviderTokenOf[FirstCustom(m, t)] = t
  <1>1. providers[m] \in Seq(Resolvable)
    BY DEF ProvidersTypeOK
  <1>2. DOMAIN providers[m] = 1..Len(providers[m]) /\ Len(providers[m]) \in Nat
    BY <1>1, LenProperties
  <1>3. CustomAt(m, t) \in SUBSET Nat
    BY <1>2 DEF CustomAt
  <1> DEFINE n == CHOOSE n \in CustomAt(m, t) : \A k \in CustomAt(m, t) : n <= k
  <1>4. n \in CustomAt(m, t)
    BY <1>3, LeastNumber
  <1>5. /\ n \in 1..Len(providers[m]) /\ providers[m][n] \in CustomProvider
        /\ ProviderTokenOf[providers[m][n]] = t
    BY <1>4, <1>2 DEF CustomAt
  <1>6. providers[m][n] \in ToSet(providers[m]) /\ ToSet(providers[m]) \subseteq Resolvable
    BY <1>1, <1>5, ElementsOfType
  <1> QED
    BY <1>5, <1>6 DEF FirstCustom

\* A module without a custom provider of the token in its array declared none.
LEMMA CustomIsKept ==
  ASSUME ProvidersTypeOK, Defined, ArraysInv, NEW m \in ModuleClass, NEW t,
         CustomAt(m, t) = {}
  PROVE  ~ProvidesCustom(m, t)
  <1> SUFFICES ASSUME NEW p \in ToSet(app.providers[m]), p \in CustomProvider,
                      ProviderTokenOf[p] = t
               PROVE  FALSE
    BY DEF ProvidesCustom
  <1>1. p \in ToSet(providers[m])
    BY DEF ArraysInv
  <1> QED
    BY <1>1 DEF ToSet, CustomAt

------------------------------------------------------------------------------
(* The loader throws *)

LEMMA NothingCreatedYet ==
  ASSUME RefsInv, phase \in {"scanned", "merging"}, UNCHANGED <<app, refVars>>,
         phase' \in {"merging", "merged", "threw"}
  PROVE  RefsInv'
  <1>1. DOMAIN parent = {} /\ stack = <<>> /\ DOMAIN parent' = {} /\ stack' = <<>>
    BY DEF RefsInv, refVars
  <1>2. Len(stack') = 0
    BY <1>1
  <1> QED
    BY <1>1, <1>2 DEF RefsInv, StackInv, ParentInv, ChildrenInv, BoundInv

LEMMA TypesStay ==
  ASSUME ProvidersTypeOK, UNCHANGED <<app, refVars>>,
         phase' \in {"scanned", "merging", "merged", "creating", "loaded", "threw"},
         providers' \in [ModuleClass -> Seq(Resolvable)],
         failure' \in {"none", "overflow", "export", "duplicate"},
         processed' \subseteq ModuleClass,
         calls' \in Seq(Call),
         nested' \in Seq([of: ModuleClass, left: Seq(ModuleClass)])
  PROVE  ProvidersTypeOK'
  BY DEF ProvidersTypeOK, refVars, Call, Class

LEMMA CreationTypes ==
  ASSUME ProvidersTypeOK, UNCHANGED <<app, providers, processed, calls, nested>>,
         phase' \in {"creating", "loaded", "threw"}, failure' \in {failure, "duplicate"},
         DOMAIN parent' \subseteq ModuleClass,
         \A m \in DOMAIN parent' : parent'[m] \in ModuleClass \union {Undefined},
         bindings' \in [ModuleClass -> SUBSET Resolvable],
         root' \subseteq Resolvable,
         context' \in [ModuleClass -> [Component -> SUBSET Resolvable]],
         stack' \in Seq([module: ModuleClass, left: Seq(ModuleClass)])
  PROVE  ProvidersTypeOK'
  BY DEF ProvidersTypeOK, Call, Class

LEMMA NoCallsOK == \A arrays, done : CallsOK(<<>>, arrays, done)
  BY DEF CallsOK

LEMMA ThrowKeeps ==
  ASSUME ProvidersInv, phase \in {"scanned", "merging"},
         NEW why \in {"overflow", "export"}, Throw(why),
         why = "export" => phase = "merging" /\ HasBadExport
  PROVE  ProvidersInv'
  <1>1. /\ phase' = "threw" /\ failure' = why /\ calls' = <<>> /\ nested' = <<>>
        /\ UNCHANGED <<app, providers, processed, refVars>>
    BY DEF Throw
  <1>2. ProvidersTypeOK'
    <2>1. /\ providers \in [ModuleClass -> Seq(Resolvable)] /\ processed \subseteq ModuleClass
          /\ ProvidersTypeOK
      BY DEF ProvidersInv, ProvidersTypeOK
    <2>2. /\ calls' \in Seq(Call)
          /\ nested' \in Seq([of: ModuleClass, left: Seq(ModuleClass)])
      BY <1>1, EmptySeq
    <2> QED
      BY <1>1, <2>1, <2>2, TypesStay
  <1>3. CallsInv'
    BY <1>1, NoCallsOK, CallsMeanTheSame DEF CallsInv
  <1>4. Widens(providers, providers', processed, processed)
    BY <1>1 DEF Widens
  <1>5. ProcessedInv'
    BY <1>1, <1>4, ProcessedStay DEF ProvidersInv
  <1>6. ArraysInv'
    BY <1>1, ArraysStay DEF ProvidersInv
  <1>7. NestedInv'
    BY <1>1 DEF NestedInv
  <1>8. PhaseInv'
    <2>1. failure = "none"
      BY DEF ProvidersInv, PhaseInv
    <2> QED
      BY <1>1, <2>1, DefinitionsStay DEF ProvidersInv, PhaseInv
  <1>9. RefsInv'
    BY <1>1, NothingCreatedYet DEF ProvidersInv
  <1> QED
    BY <1>2, <1>3, <1>5, <1>6, <1>7, <1>8, <1>9 DEF ProvidersInv
------------------------------------------------------------------------------
(* The loop over the imports *)

\* A step of the loop changes the calls only, and marks modules as processed.
LEMMA CallsChange ==
  ASSUME ProvidersInv, phase \in {"scanned", "merging"}, nested = <<>>, nested' = <<>>,
         ~IsCyclic, phase' = "merging",
         UNCHANGED <<app, failure, providers, processed, refVars>>,
         calls' \in Seq(Call), calls' # <<>>, CallsOK(calls', providers, processed)
  PROVE  ProvidersInv'
  <1>1. ProvidersTypeOK'
    <2>1. /\ providers \in [ModuleClass -> Seq(Resolvable)] /\ processed \subseteq ModuleClass
          /\ failure \in {"none", "overflow", "export", "duplicate"}
          /\ ProvidersTypeOK
      BY DEF ProvidersInv, ProvidersTypeOK
    <2>2. nested' \in Seq([of: ModuleClass, left: Seq(ModuleClass)])
      BY EmptySeq
    <2> QED
      BY <2>1, <2>2, TypesStay
  <1>2. CallsInv'
    BY CallsMeanTheSame DEF CallsInv
  <1>3. Widens(providers, providers', processed, processed)
    BY DEF Widens
  <1>4. ProcessedInv' /\ ArraysInv'
    BY <1>3, ProcessedStay, ArraysStay DEF ProvidersInv
  <1>5. NestedInv'
    BY DEF NestedInv
  <1>6. PhaseInv'
    BY DefinitionsStay DEF ProvidersInv, PhaseInv
  <1>7. RefsInv'
    BY NothingCreatedYet DEF ProvidersInv
  <1> QED
    BY <1>1, <1>2, <1>4, <1>5, <1>6, <1>7 DEF ProvidersInv

LEMMA InvDefined == ProvidersInv => Defined
  BY AppIsDefined DEF ProvidersInv, ProvidersTypeOK

LEMMA MergingIsAcyclic == ProvidersInv /\ phase = "merging" => ~IsCyclic
  BY DEF ProvidersInv, PhaseInv

LEMMA MergeRootKeeps ==
  ASSUME ProvidersInv, MergeRoot
  PROVE  ProvidersInv'
  <1>1. /\ phase = "scanned" /\ ~IsCyclic /\ phase' = "merging"
        /\ calls' = <<Merging(RootModule)>>
        /\ UNCHANGED <<app, failure, providers, processed, nested, refVars>>
    BY DEF MergeRoot
  <1>2. nested = <<>>
    BY <1>1 DEF ProvidersInv, NestedInv
  <1>3. RootModule \in ModuleClass /\ Defined
    BY ResolvableAssumption, InvDefined
  <1>4. /\ Merging(RootModule) \in Call /\ CallOK(Merging(RootModule))
        /\ IsMerge(Merging(RootModule), RootModule)
        /\ Progress(Merging(RootModule), {}, providers, processed)
    BY <1>3, MergingIs
  <1> DEFINE c == Merging(RootModule)
  <1>5. <<c>> \in Seq(Call) /\ Len(<<c>>) = 1 /\ <<c>>[1] = c /\ <<c>> # <<>>
    BY <1>4
  <1> HIDE DEF c
  <1>6. Above(<<c>>, 1) = {} /\ 1..1 = {1}
    BY <1>5 DEF Above
  <1>7. CallsOK(<<c>>, providers, processed)
    BY <1>4, <1>5, <1>6 DEF CallsOK, c
  <1> QED
    BY <1>1, <1>2, <1>5, <1>7, CallsChange DEF c

LEMMA ExportImportKeeps ==
  ASSUME ProvidersInv, ExportImport
  PROVE  ProvidersInv'
  <1> DEFINE x == [Running EXCEPT !.in = "exported"]
             y == Exporting(Running.of, Current)
  <1>1. /\ phase = "merging" /\ Running.in = "imports" /\ Running.left # <<>>
        /\ calls' = Append(Append(Front(calls), x), y)
        /\ UNCHANGED <<app, phase, failure, providers, processed, nested, refVars>>
    BY DEF ExportImport
  <1>2. nested = <<>>
    BY <1>1 DEF ProvidersInv, NestedInv
  <1>3. /\ calls \in Seq(Call) /\ calls # <<>> /\ Running \in Call
        /\ CallOK(Running) /\ Progress(Running, {}, providers, processed)
    BY <1>1, RunningIs DEF ProvidersInv
  <1>4. Running.of \in ModuleClass /\ Running.left \in Seq(ModuleClass)
    BY <1>1, <1>3, CallFields
  <1>5. Current \in ModuleClass /\ Current \in Imported(Running.of)
    BY <1>1, <1>3, <1>4, ElementsOfTail DEF CallOK, Current
  <1>6. /\ y \in Call /\ CallOK(y) /\ IsExport(y, Running.of, Current)
        /\ Progress(y, {}, providers, processed)
    <2>1. IsBelow(Current, Running.of)
      BY <1>5, ImportIsBelow
    <2>2. Declared(Current) \subseteq Meant(Running.of)
      BY <1>5 DEF Meant
    <2> QED
      BY <1>4, <1>5, <2>1, <2>2, InvDefined, ExportingIs
  <1>7. x \in Call /\ Like(Running, x) /\ x.in = "exported" /\ x.left = Running.left
    BY <1>1, <1>3, MergeGoesOn
  <1> HIDE DEF x, y
  <1>8. x.of = Running.of /\ CallOK(x)
    BY <1>1, <1>3, <1>7 DEF CallOK, Like
  <1>9. Progress(x, {y}, providers, processed)
    <2>1. IsExport(y, x.of, Head(x.left))
      BY <1>6, <1>7, <1>8 DEF Current
    <2>2. \A i \in Imported(x.of) :
             \/ i \in ToSet(x.left)
             \/ Given(providers, x.of, i) /\ i \in processed
      BY <1>1, <1>3, <1>7, <1>8 DEF Progress
    <2> QED
      BY <1>7, <2>1, <2>2 DEF Progress
  <1>10. CallsOK(calls, providers, processed)
    BY DEF ProvidersInv, CallsInv
  <1>11. /\ CallsOK(calls', providers, processed)
         /\ calls' \in Seq(Call) /\ calls' # <<>>
    BY <1>1, <1>3, <1>6, <1>7, <1>8, <1>9, <1>10, CallCalls DEF Running
  <1> QED
    BY <1>1, <1>2, <1>11, MergingIsAcyclic, CallsChange

LEMMA MergeImportKeeps ==
  ASSUME ProvidersInv, MergeImport
  PROVE  ProvidersInv'
  <1> DEFINE x == [Running EXCEPT !.in = "imports", !.left = Tail(@)]
             y == Merging(Current)
  <1>1. /\ phase = "merging" /\ Running.in = "exported"
        /\ calls' = IF Current \in processed THEN Append(Front(calls), x)
                    ELSE Append(Append(Front(calls), x), y)
        /\ UNCHANGED <<app, phase, failure, providers, processed, nested, refVars>>
    BY DEF MergeImport
  <1>2. nested = <<>>
    BY <1>1 DEF ProvidersInv, NestedInv
  <1>3. /\ calls \in Seq(Call) /\ calls # <<>> /\ Running \in Call
        /\ CallOK(Running) /\ Progress(Running, {}, providers, processed)
    BY <1>1, RunningIs DEF ProvidersInv
  <1>4. /\ Running.of \in ModuleClass /\ Running.left \in Seq(ModuleClass)
        /\ Running.left # <<>>
    BY <1>1, <1>3, CallFields DEF CallOK
  <1>5. /\ Current \in ModuleClass
        /\ ToSet(Running.left) = {Current} \union ToSet(Tail(Running.left))
    BY <1>4, ElementsOfTail DEF Current
  <1>6. /\ y \in Call /\ CallOK(y) /\ IsMerge(y, Current)
        /\ Progress(y, {}, providers, processed)
    BY <1>5, InvDefined, MergingIs
  <1>7. x \in Call /\ Like(Running, x) /\ x.in = "imports" /\ x.left = Tail(Running.left)
    BY <1>1, <1>3, <1>4, MergeGoesOn
  <1> HIDE DEF x, y
  <1>8. x.of = Running.of /\ CallOK(x)
    BY <1>1, <1>3, <1>5, <1>7 DEF CallOK, Like
  <1>9. /\ Given(providers, x.of, Current)
        /\ \A i \in Imported(x.of) :
              \/ i \in ToSet(x.left) \/ i = Current
              \/ Given(providers, x.of, i) /\ i \in processed
    BY <1>1, <1>3, <1>5, <1>7, <1>8 DEF Progress, Current
  <1>10. CallsOK(calls, providers, processed)
    BY DEF ProvidersInv, CallsInv
  <1>11. CASE Current \in processed
    <2>1. Progress(x, {}, providers, processed)
      BY <1>7, <1>9, <1>11 DEF Progress
    <2>2. Widens(providers, providers, processed, processed)
      BY DEF Widens
    <2>3. calls' = Append(Front(calls), x)
      BY <1>1, <1>11
    <2>4. /\ CallsOK(calls', providers, processed)
          /\ calls' \in Seq(Call) /\ calls' # <<>>
      BY <1>3, <1>7, <1>8, <1>10, <2>1, <2>2, <2>3, CallContinues DEF Running
    <2> QED
      BY <1>1, <1>2, <2>4, MergingIsAcyclic, CallsChange
  <1>12. CASE Current \notin processed
    <2>1. Progress(x, {y}, providers, processed)
      BY <1>6, <1>7, <1>9 DEF Progress
    <2>2. calls' = Append(Append(Front(calls), x), y)
      BY <1>1, <1>12
    <2>3. /\ CallsOK(calls', providers, processed)
          /\ calls' \in Seq(Call) /\ calls' # <<>>
      BY <1>3, <1>6, <1>7, <1>8, <1>10, <2>1, <2>2, CallCalls DEF Running
    <2> QED
      BY <1>1, <1>2, <2>3, MergingIsAcyclic, CallsChange
  <1> QED
    BY <1>11, <1>12

LEMMA MergeReturnsKeeps ==
  ASSUME ProvidersInv, MergeReturns
  PROVE  ProvidersInv'
  <1> DEFINE m == Running.of
             after == processed \union {m}
  <1>1. /\ phase = "merging" /\ Running.in = "imports" /\ Running.left = <<>>
        /\ processed' = after /\ calls' = Front(calls)
        /\ phase' = IF Len(calls) = 1 THEN "merged" ELSE "merging"
        /\ UNCHANGED <<app, failure, providers, nested, refVars>>
    BY DEF MergeReturns
  <1>2. nested = <<>>
    BY <1>1 DEF ProvidersInv, NestedInv
  <1>3. /\ calls \in Seq(Call) /\ calls # <<>> /\ Running \in Call
        /\ CallOK(Running) /\ Progress(Running, {}, providers, processed)
        /\ Len(calls) = 1 => IsMerge(Running, RootModule)
        /\ CallsOK(calls, providers, processed)
        /\ Running = Last(calls)
    BY <1>1, RunningIs DEF ProvidersInv, CallsInv, Running
  <1>4. m \in ModuleClass
    BY <1>3, CallFields
  <1>5. \A i \in Imported(m) : Given(providers, m, i) /\ i \in processed
    <2>1. ToSet(Running.left) = {}
      BY <1>1, ElementsOfType, EmptySeq
    <2> QED
      BY <1>1, <1>3, <2>1 DEF Progress
  <1>6. \A c \in Call : Progress(c, {Running}, providers, after)
                           => Progress(c, {}, providers, after)
    <2>1. /\ \A i : IsMerge(Running, i) => i \in after
          /\ \A k, d : ~IsExport(Running, k, d)
      BY <1>1 DEF IsMerge, IsExport
    <2> HIDE DEF after
    <2> QED
      BY <2>1 DEF Progress
  <1>7. Widens(providers, providers, processed, after)
    BY DEF Widens
  <1> HIDE DEF after
  <1>8. CallsOK(calls', providers, after) /\ calls' \in Seq(Call)
    BY <1>1, <1>3, <1>6, <1>7, CallReturns
  <1>9. phase' = "merging" <=> calls' # <<>>
    <2>1. Len(calls') = Len(calls) - 1 /\ Len(calls) \in Nat \ {0}
      BY <1>1, <1>3, LastTakenAway
    <2>2. Len(calls') = 0 <=> Len(calls) = 1
      BY <2>1
    <2>3. calls' = <<>> <=> Len(calls') = 0
      BY <1>8, EmptySeq
    <2> QED
      BY <1>1, <2>2, <2>3
  <1>10. CallsInv'
    BY <1>1, <1>8, <1>9, CallsMeanTheSame DEF CallsInv
  <1>11. ProvidersTypeOK'
    <2>1. /\ providers \in [ModuleClass -> Seq(Resolvable)] /\ processed \subseteq ModuleClass
          /\ failure \in {"none", "overflow", "export", "duplicate"}
          /\ nested \in Seq([of: ModuleClass, left: Seq(ModuleClass)])
          /\ ProvidersTypeOK
      BY DEF ProvidersInv, ProvidersTypeOK
    <2> QED
      BY <1>1, <1>4, <1>8, <2>1, TypesStay DEF after
  <1>12. ProcessedInv'
    <2>1. \A k \in after : \A i \in Imported(k) : i \in after /\ Given(providers, k, i)
      BY <1>5 DEF after, ProvidersInv, ProcessedInv
    <2> QED
      BY <1>1, <2>1, DefinitionsStay, CallsMeanTheSame DEF ProcessedInv
  <1>13. ArraysInv'
    BY <1>1, ArraysStay DEF ProvidersInv
  <1>14. NestedInv'
    BY <1>1, <1>2 DEF NestedInv
  <1>15. PhaseInv'
    <2>1. phase' = "merged" => RootModule \in processed'
      BY <1>1, <1>3 DEF IsMerge, after
    <2>2. phase' \in {"merged", "merging"} /\ failure = "none" /\ ~IsCyclic
      BY <1>1, MergingIsAcyclic DEF ProvidersInv, PhaseInv
    <2> QED
      BY <1>1, <2>1, <2>2, DefinitionsStay DEF PhaseInv
  <1>16. RefsInv'
    BY <1>1, NothingCreatedYet DEF ProvidersInv
  <1> QED
    BY <1>10, <1>11, <1>12, <1>13, <1>14, <1>15, <1>16 DEF ProvidersInv
------------------------------------------------------------------------------
(* The exports *)

\* What is known of the call that exports, with something left.
LEMMA ExportingNow ==
  ASSUME ProvidersInv, phase = "merging", Running.in = "exports", Running.left # <<>>
  PROVE  /\ Running \in Call /\ calls \in Seq(Call) /\ calls # <<>>
         /\ CallOK(Running) /\ Progress(Running, {}, providers, processed)
         /\ CallsOK(calls, providers, processed) /\ Running = Last(calls)
         /\ Running.to \in ModuleClass /\ Running.of \in ModuleClass \ {RootModule}
         /\ IsBelow(Running.of, Running.to) /\ Declared(Running.of) \subseteq Meant(Running.to)
         /\ Current \in ToSet(app.exports[Running.of]) /\ Current \in ProviderToken
         /\ ToSet(Running.left) = {Current} \union ToSet(Tail(Running.left))
         /\ Defined /\ ~IsCyclic
  <1>1. /\ calls \in Seq(Call) /\ calls # <<>> /\ Running \in Call
        /\ CallOK(Running) /\ Progress(Running, {}, providers, processed)
        /\ CallsOK(calls, providers, processed) /\ Running = Last(calls)
    BY RunningIs DEF ProvidersInv, CallsInv, Running
  <1>2. /\ Running.of \in ModuleClass /\ Running.to \in ModuleClass
        /\ Running.left \in Seq(ProviderToken)
    BY <1>1, CallFields
  <1>3. /\ Current \in ProviderToken /\ Current \in ToSet(Running.left)
        /\ ToSet(Running.left) = {Current} \union ToSet(Tail(Running.left))
    BY <1>2, ElementsOfTail DEF Current
  <1>4. /\ IsBelow(Running.of, Running.to) /\ Declared(Running.of) \subseteq Meant(Running.to)
        /\ ToSet(Running.left) \subseteq ToSet(app.exports[Running.of])
    BY <1>1 DEF CallOK
  <1>5. Defined /\ ~IsCyclic
    BY InvDefined, MergingIsAcyclic
  <1>6. Running.of # RootModule
    BY <1>2, <1>4, <1>5, RootIsNotBelow
  <1> QED
    BY <1>1, <1>2, <1>3, <1>4, <1>5, <1>6

\* The call goes on, and is still one that exports to the module.
LEMMA ExportGoesOn ==
  ASSUME ProvidersInv, phase = "merging", Running.in = "exports", Running.left # <<>>
  PROVE  LET x == [Running EXCEPT !.left = Tail(@)]
         IN  /\ x \in Call /\ Like(Running, x) /\ CallOK(x)
             /\ x.in = "exports" /\ x.of = Running.of /\ x.to = Running.to
             /\ \A e \in ToSet(app.exports[x.of]) :
                   \/ e \in ToSet(x.left) \/ e = Current
                   \/ /\ ~BadExport(x.of, e)
                      /\ DeclaredBy(x.of, e) \subseteq TokensOf(providers, x.to)
  <1> DEFINE x == [Running EXCEPT !.left = Tail(@)]
  <1>1. /\ Running \in Call
        /\ CallOK(Running) /\ Progress(Running, {}, providers, processed)
        /\ ToSet(Running.left) = {Current} \union ToSet(Tail(Running.left))
    BY ExportingNow
  <1>2. /\ x \in Call /\ Like(Running, x) /\ x.in = Running.in
        /\ x.left = Tail(Running.left)
    BY <1>1, CallGoesOn
  <1> HIDE DEF x
  <1>3. x.of = Running.of /\ x.to = Running.to /\ x.in = "exports"
    BY <1>2 DEF Like
  <1>4. CallOK(x)
    BY <1>1, <1>2, <1>3 DEF CallOK
  <1>5. \A e \in ToSet(app.exports[x.of]) :
           \/ e \in ToSet(x.left) \/ e = Current
           \/ /\ ~BadExport(x.of, e)
              /\ DeclaredBy(x.of, e) \subseteq TokensOf(providers, x.to)
    BY <1>1, <1>2, <1>3 DEF Progress
  <1> QED
    BY <1>2, <1>3, <1>4, <1>5 DEF x

\* An export that is right was added to the array of the module.
LEMMA ExportArrives ==
  ASSUME ProvidersInv, phase = "merging", Running.in = "exports", Running.left # <<>>,
         NEW ps \in Seq(Resolvable), MayGet(Running.to, ps), Push(Running.to, ps),
         ~BadExport(Running.of, Current),
         DeclaredBy(Running.of, Current) \subseteq Tokens(ToSet(ps))
                                           \union TokensOf(providers, Running.to),
         calls' = GoOn, nested' = <<>>,
         UNCHANGED <<app, phase, failure, processed, refVars>>
  PROVE  ProvidersInv'
  <1> DEFINE x == [Running EXCEPT !.left = Tail(@)]
  <1>1. /\ calls \in Seq(Call) /\ calls # <<>> /\ Running = Last(calls)
        /\ CallsOK(calls, providers, processed)
        /\ Running.to \in ModuleClass
    BY ExportingNow
  <1>2. /\ x \in Call /\ Like(Running, x) /\ CallOK(x)
        /\ x.in = "exports" /\ x.of = Running.of /\ x.to = Running.to
        /\ \A e \in ToSet(app.exports[x.of]) :
              \/ e \in ToSet(x.left) \/ e = Current
              \/ /\ ~BadExport(x.of, e)
                 /\ DeclaredBy(x.of, e) \subseteq TokensOf(providers, x.to)
    BY ExportGoesOn
  <1>3. /\ providers' \in [ModuleClass -> Seq(Resolvable)]
        /\ ArraysInv'
        /\ Widens(providers, providers', processed, processed)
        /\ Tokens(ToSet(ps)) \subseteq TokensOf(providers', Running.to)
    BY <1>1, ArrayGrows DEF ProvidersInv
  <1>4. calls' = Append(Front(calls), x)
    BY DEF GoOn
  <1> HIDE DEF x
  <1>5. TokensOf(providers, Running.to) \subseteq TokensOf(providers', Running.to)
    BY <1>1, <1>3 DEF Widens
  <1>6. Progress(x, {}, providers', processed)
    BY <1>2, <1>3, <1>5 DEF Progress
  <1>7. CallsOK(calls', providers', processed) /\ calls' \in Seq(Call) /\ calls' # <<>>
    BY <1>1, <1>2, <1>3, <1>4, <1>6, CallContinues
  <1>8. CallsInv'
    BY <1>7, CallsMeanTheSame DEF CallsInv
  <1>9. ProvidersTypeOK'
    <2>1. /\ processed \subseteq ModuleClass
          /\ failure \in {"none", "overflow", "export", "duplicate"}
          /\ ProvidersTypeOK
      BY DEF ProvidersInv, ProvidersTypeOK
    <2>2. nested' \in Seq([of: ModuleClass, left: Seq(ModuleClass)])
      BY EmptySeq
    <2> QED
      BY <1>3, <1>7, <2>1, <2>2, TypesStay
  <1>10. ProcessedInv'
    BY <1>3, ProcessedStay DEF ProvidersInv
  <1>11. NestedInv'
    BY DEF NestedInv
  <1>12. PhaseInv'
    BY DefinitionsStay DEF ProvidersInv, PhaseInv
  <1>13. RefsInv'
    BY NothingCreatedYet DEF ProvidersInv
  <1> QED
    BY <1>3, <1>8, <1>9, <1>10, <1>11, <1>12, <1>13 DEF ProvidersInv

LEMMA ExportAllKeeps ==
  ASSUME ProvidersInv, ExportAll
  PROVE  ProvidersInv'
  <1> DEFINE d == Running.of
             m == Running.to
             ps == providers[d]
  <1>1. /\ phase = "merging" /\ Running.in = "exports" /\ nested = <<>>
        /\ Running.left # <<>> /\ Current = d /\ Push(m, ps) /\ calls' = GoOn
        /\ UNCHANGED <<app, phase, failure, processed, nested, refVars>>
    BY DEF ExportAll, IsExporting
  <1>2. /\ m \in ModuleClass /\ d \in ModuleClass /\ d \in ToSet(app.exports[d])
        /\ IsBelow(d, m) /\ Declared(d) \subseteq Meant(m) /\ Defined
    BY <1>1, ExportingNow
  <1>3. ps \in Seq(Resolvable)
    BY <1>2 DEF ProvidersInv, ProvidersTypeOK
  <1>4. /\ ToSet(app.providers[d]) \subseteq ToSet(ps)
        /\ \A p \in ToSet(ps) \intersect CustomProvider :
              \/ ProvidesCustom(d, ProviderTokenOf[p])
              \/ IsExportedBelow(d, ProviderTokenOf[p])
        /\ ExportAllIsFixed => Tokens(ToSet(ps)) \subseteq Meant(d)
    BY <1>2 DEF ProvidersInv, ArraysInv, TokensOf
  <1>5. d \in ExportedFrom(d)
    BY <1>2 DEF ExportedFrom
  <1>6. Tokens(ToSet(app.providers[d])) \subseteq Declared(d)
    BY <1>2, <1>5 DEF Declared, DeclaredIn
  <1>7. ExportAllIsFixed => Meant(d) = Tokens(ToSet(app.providers[d]))
    BY <1>2 DEF ExportAllIsFixed, Meant
  <1> HIDE DEF ps
  <1>8. ASSUME NEW t, ProvidesCustom(d, t) \/ IsExportedBelow(d, t)
        PROVE  IsExportedBelow(m, t)
    <2>1. CASE ProvidesCustom(d, t)
      BY <1>2, <2>1 DEF IsExportedBelow
    <2>2. CASE IsExportedBelow(d, t)
      BY <1>2, <2>2, BelowGoesOn DEF IsExportedBelow
    <2> QED
      BY <1>8, <2>1, <2>2
  <1>9. MayGet(m, ps)
    BY <1>2, <1>4, <1>6, <1>7, <1>8 DEF MayGet
  <1>10. ~BadExport(d, Current)
    BY <1>1, <1>2 DEF BadExport
  <1>11. DeclaredBy(d, Current) \subseteq Tokens(ToSet(ps))
    BY <1>1, <1>4 DEF DeclaredBy, Tokens
  <1> QED
    BY <1>1, <1>3, <1>9, <1>10, <1>11, ExportArrives DEF ps

\* The exported token is in the module, and nothing else.
LEMMA TokenArrives ==
  ASSUME ProvidersInv, phase = "merging", Running.in = "exports", Running.left # <<>>,
         Current \notin ModuleClass,
         NEW p \in Resolvable, ProviderTokenOf[p] = Current,
         p \in CustomProvider => IsExportedBelow(Running.to, Current),
         ~BadExport(Running.of, Current),
         Push(Running.to, <<p>>), calls' = GoOn, nested' = <<>>,
         UNCHANGED <<app, phase, failure, processed, refVars>>
  PROVE  ProvidersInv'
  <1>1. /\ Running.of \in ModuleClass /\ Current \in ToSet(app.exports[Running.of])
        /\ Declared(Running.of) \subseteq Meant(Running.to)
    BY ExportingNow
  <1>2. <<p>> \in Seq(Resolvable) /\ ToSet(<<p>>) = {p}
    BY ElementsOfOne
  <1>3. Tokens(ToSet(<<p>>)) = {Current}
    BY <1>2 DEF Tokens
  <1>4. Running.of \in ExportedFrom(Running.of)
    BY <1>1 DEF ExportedFrom
  <1>5. Current \in Meant(Running.to)
    BY <1>1, <1>4 DEF Declared, DeclaredIn
  <1>6. MayGet(Running.to, <<p>>)
    BY <1>2, <1>3, <1>5 DEF MayGet
  <1>7. DeclaredBy(Running.of, Current) = {Current}
    BY <1>1 DEF DeclaredBy
  <1> QED
    BY <1>2, <1>3, <1>6, <1>7, ExportArrives

LEMMA ExportTokenKeeps ==
  ASSUME ProvidersInv, ExportToken
  PROVE  ProvidersInv'
  <1> DEFINE d == Running.of
             m == Running.to
  <1>1. /\ phase = "merging" /\ Running.in = "exports" /\ nested = <<>>
        /\ Running.left # <<>> /\ Current \notin ModuleClass /\ calls' = GoOn
        /\ UNCHANGED <<app, phase, failure, processed, nested, refVars>>
    BY DEF ExportToken, IsExporting
  <1>2. /\ d \in ModuleClass /\ IsBelow(d, m) /\ Current \in ToSet(app.exports[d])
        /\ Current \in ProviderToken
    BY <1>1, ExportingNow
  <1>3. CASE CustomAt(d, Current) # {} /\ Push(m, <<FirstCustom(d, Current)>>)
    <2> DEFINE p == FirstCustom(d, Current)
    <2>1. /\ p \in ToSet(providers[d]) \intersect CustomProvider /\ p \in Resolvable
          /\ ProviderTokenOf[p] = Current
      BY <1>2, <1>3, FirstCustomIs DEF ProvidersInv
    <2> HIDE DEF p
    <2>2. ProvidesCustom(d, Current) \/ IsExportedBelow(d, Current)
      BY <1>2, <2>1 DEF ProvidersInv, ArraysInv
    <2>3. IsExportedBelow(m, Current)
      <3>1. CASE ProvidesCustom(d, Current)
        BY <1>2, <3>1 DEF IsExportedBelow
      <3>2. CASE IsExportedBelow(d, Current)
        BY <1>2, <3>2, BelowGoesOn DEF IsExportedBelow
      <3> QED
        BY <2>2, <3>1, <3>2
    <2>4. ~BadExport(d, Current)
      BY <1>1, <2>2 DEF BadExport
    <2> QED
      BY <1>1, <1>3, <2>1, <2>3, <2>4, TokenArrives DEF p
  <1>4. CASE /\ CustomAt(d, Current) = {} /\ Current \notin InjectionToken
             /\ Push(m, <<Current>>)
    <2>1. /\ Current \in Resolvable /\ Current \notin CustomProvider
          /\ ProviderTokenOf[Current] = Current
      BY <1>2, <1>4, ResolvableAssumption DEF Class, CustomProvider
    <2>2. ~BadExport(d, Current)
      BY <1>1, <1>4 DEF BadExport
    <2> QED
      BY <1>1, <1>4, <2>1, <2>2, TokenArrives
  <1> QED
    BY <1>3, <1>4 DEF ExportToken

LEMMA ReExportKeeps ==
  ASSUME ProvidersInv, ReExport
  PROVE  ProvidersInv'
  <1> DEFINE x == [Running EXCEPT !.left = Tail(@)]
             y == Exporting(Running.to, Current)
  <1>1. /\ phase = "merging" /\ Running.in = "exports" /\ nested = <<>>
        /\ Running.left # <<>>
        /\ Current \in ModuleClass /\ Current # Running.of
        /\ Current \in Imported(Running.of)
        /\ calls' = Append(Append(Front(calls), x), y)
        /\ UNCHANGED <<app, phase, failure, providers, processed, nested, refVars>>
    BY DEF ReExport, IsExporting, MayReExport, GoOn
  <1>2. /\ calls \in Seq(Call) /\ calls # <<>> /\ Running = Last(calls)
        /\ CallsOK(calls, providers, processed)
        /\ Running.to \in ModuleClass /\ Running.of \in ModuleClass
        /\ Current \in ToSet(app.exports[Running.of])
        /\ IsBelow(Running.of, Running.to) /\ Declared(Running.of) \subseteq Meant(Running.to)
        /\ Defined /\ ~IsCyclic
    BY <1>1, ExportingNow
  <1>3. /\ x \in Call /\ Like(Running, x) /\ CallOK(x)
        /\ x.in = "exports" /\ x.of = Running.of /\ x.to = Running.to
        /\ \A e \in ToSet(app.exports[x.of]) :
              \/ e \in ToSet(x.left) \/ e = Current
              \/ /\ ~BadExport(x.of, e)
                 /\ DeclaredBy(x.of, e) \subseteq TokensOf(providers, x.to)
    BY <1>1, ExportGoesOn
  <1>4. IsBelow(Current, Running.to)
    BY <1>1, <1>2, BelowGoesOn
  <1>5. Declared(Current) \subseteq Declared(Running.of)
    <2>1. DeclaredBy(Running.of, Current) = Declared(Current)
      BY <1>1 DEF DeclaredBy
    <2> QED
      BY <1>2, <2>1, DeclaredExportwise
  <1>6. /\ y \in Call /\ CallOK(y) /\ IsExport(y, Running.to, Current)
        /\ Progress(y, {}, providers, processed)
    BY <1>1, <1>2, <1>4, <1>5, ExportingIs
  <1>7. ~BadExport(Running.of, Current)
    BY <1>1 DEF BadExport
  <1> HIDE DEF x, y
  <1>8. Progress(x, {y}, providers, processed)
    BY <1>3, <1>6, <1>7 DEF Progress
  <1>9. CallsOK(calls', providers, processed) /\ calls' \in Seq(Call) /\ calls' # <<>>
    BY <1>1, <1>2, <1>3, <1>6, <1>8, CallCalls
  <1> QED
    BY <1>1, <1>2, <1>9, CallsChange

LEMMA RefuseReExportKeeps ==
  ASSUME ProvidersInv, RefuseReExport
  PROVE  ProvidersInv'
  <1>1. /\ phase = "merging" /\ Running.in = "exports" /\ Running.left # <<>>
        /\ Current \in ModuleClass /\ Current # Running.of
        /\ Current \notin Imported(Running.of) /\ Throw("export")
    BY DEF RefuseReExport, IsExporting, MayReExport
  <1>2. /\ Running.of \in ModuleClass \ {RootModule}
        /\ Current \in ToSet(app.exports[Running.of])
    BY <1>1, ExportingNow
  <1>3. HasBadExport
    BY <1>1, <1>2 DEF HasBadExport, BadExport
  <1> QED
    BY <1>1, <1>3, ThrowKeeps

LEMMA ExportsReturnKeeps ==
  ASSUME ProvidersInv, ExportsReturn
  PROVE  ProvidersInv'
  <1> DEFINE d == Running.of
             m == Running.to
  <1>1. /\ phase = "merging" /\ Running.in = "exports" /\ nested = <<>>
        /\ Running.left = <<>> /\ calls' = Front(calls)
        /\ UNCHANGED <<app, phase, failure, providers, processed, nested, refVars>>
    BY DEF ExportsReturn, IsExporting
  <1>2. /\ calls \in Seq(Call) /\ calls # <<>> /\ Running \in Call
        /\ CallOK(Running) /\ Progress(Running, {}, providers, processed)
        /\ CallsOK(calls, providers, processed) /\ Running = Last(calls)
        /\ IsMerge(calls[1], RootModule)
        /\ Len(calls) = 1 => IsMerge(Running, RootModule)
    BY <1>1, RunningIs DEF ProvidersInv, CallsInv, Running
  <1>3. d \in ModuleClass /\ Defined /\ ~IsCyclic
    BY <1>1, <1>2, CallFields, InvDefined, MergingIsAcyclic
  <1>4. \A e \in ToSet(app.exports[d]) :
           ~BadExport(d, e) /\ DeclaredBy(d, e) \subseteq TokensOf(providers, m)
    <2>1. ToSet(Running.left) = {}
      BY <1>1, ElementsOfType, EmptySeq
    <2> QED
      BY <1>1, <1>2, <2>1 DEF Progress
  <1>5. Declared(d) \subseteq TokensOf(providers, m)
    BY <1>3, <1>4, DeclaredExportwise
  <1>6. Given(providers, m, d)
    BY <1>4, <1>5 DEF Given
  <1>7. ASSUME NEW c \in Call, Progress(c, {Running}, providers, processed)
        PROVE  Progress(c, {}, providers, processed)
    <2>1. \A i : ~IsMerge(Running, i)
      BY <1>1 DEF IsMerge
    <2>2. \A k, j : IsExport(Running, k, j) => k = m /\ j = d
      BY DEF IsExport
    <2>3. ASSUME c.in = "exports", NEW e \in ToSet(app.exports[c.of]),
                 IsExport(Running, c.to, e)
          PROVE  DeclaredBy(c.of, e) \subseteq TokensOf(providers, c.to)
      <3>1. c.to = m /\ e = d
        BY <2>2, <2>3
      <3>2. CASE c.of = d
        BY <1>4, <2>3, <3>1, <3>2
      <3>3. CASE c.of # d
        BY <1>3, <1>5, <3>1, <3>3 DEF DeclaredBy
      <3> QED
        BY <3>2, <3>3
    <2>4. ASSUME IsExport(Running, c.of, Head(c.left))
          PROVE  Given(providers, c.of, Head(c.left))
      BY <1>6, <2>2, <2>4
    <2> HIDE DEF d, m
    <2> QED
      BY <1>7, <2>1, <2>3, <2>4 DEF Progress
  <1>8. Widens(providers, providers, processed, processed)
    BY DEF Widens
  <1>9. CallsOK(calls', providers, processed) /\ calls' \in Seq(Call)
    BY <1>1, <1>2, <1>7, <1>8, CallReturns
  <1>10. calls' # <<>>
    <2>1. Len(calls') = Len(calls) - 1 /\ Len(calls) \in Nat \ {0}
      BY <1>1, <1>2, LastTakenAway
    <2>2. Len(calls) # 1
      BY <1>1, <1>2 DEF IsMerge
    <2>3. Len(calls') # 0
      BY <2>1, <2>2
    <2> QED
      BY <1>9, <2>3, EmptySeq, LenProperties
  <1> QED
    BY <1>1, <1>3, <1>9, <1>10, CallsChange
------------------------------------------------------------------------------
(* The search below a module for a provider that it exports *)

SearchCall == [of: ModuleClass, left: Seq(ModuleClass)]

\* A step of the search changes the calls of it only.
LEMMA SearchChanges ==
  ASSUME ProvidersInv, phase = "merging", Running.in = "exports", Running.left # <<>>,
         Current \in InjectionToken, CustomAt(Running.of, Current) = {},
         UNCHANGED <<app, phase, failure, providers, processed, calls, refVars>>,
         nested' \in Seq(SearchCall), NestedOK(nested', Running.of, Current)
  PROVE  ProvidersInv'
  <1>1. ProvidersTypeOK'
    <2>1. /\ providers \in [ModuleClass -> Seq(Resolvable)] /\ processed \subseteq ModuleClass
          /\ failure \in {"none", "overflow", "export", "duplicate"}
          /\ calls \in Seq(Call) /\ ProvidersTypeOK
      BY DEF ProvidersInv, ProvidersTypeOK
    <2> QED
      BY <2>1, TypesStay DEF SearchCall
  <1>2. CallsInv'
    BY CallsMeanTheSame DEF CallsInv, ProvidersInv
  <1>3. Widens(providers, providers', processed, processed)
    BY DEF Widens
  <1>4. ProcessedInv' /\ ArraysInv'
    BY <1>3, ProcessedStay, ArraysStay DEF ProvidersInv
  <1>5. NestedInv'
    <2>1. /\ Running' = Running /\ Current' = Current
          /\ CustomAt(Running.of, Current)' = CustomAt(Running.of, Current)
      BY DEF Running, Current, CustomAt, CustomProvider, Class
    <2>2. \A f, up, d, t : SearchOK(f, up, d, t)' <=> SearchOK(f, up, d, t)
      BY DefinitionsStay DEF SearchOK
    <2>3. \A s, d, t : NestedOK(s, d, t)' <=> NestedOK(s, d, t)
      BY <2>2 DEF NestedOK
    <2> QED
      BY <2>1, <2>3 DEF NestedInv
  <1>6. PhaseInv'
    BY DefinitionsStay DEF ProvidersInv, PhaseInv
  <1>7. RefsInv'
    BY NothingCreatedYet DEF ProvidersInv
  <1> QED
    BY <1>1, <1>2, <1>4, <1>5, <1>6, <1>7 DEF ProvidersInv

LEMMA SearchingIs ==
  ASSUME Defined, NEW m \in ModuleClass, NEW d, NEW t, m = d \/ IsBelow(m, d)
  PROVE  /\ Searching(m) \in SearchCall /\ Searching(m).of = m
         /\ SearchOK(Searching(m), {}, d, t)
  <1>1. app.imports[m] \in Seq(ModuleClass)
    BY ImportsAreModules
  <1> QED
    BY <1>1 DEF Searching, SearchCall, SearchOK, Imported

\* What is known of a search that is running.
LEMMA LookedIs ==
  ASSUME ProvidersInv, nested # <<>>
  PROVE  /\ phase = "merging" /\ Running.in = "exports" /\ Running.left # <<>>
         /\ Current \in InjectionToken /\ CustomAt(Running.of, Current) = {}
         /\ Current \notin ModuleClass
         /\ nested \in Seq(SearchCall) /\ NestedOK(nested, Running.of, Current)
         /\ Looked \in SearchCall /\ Looked = Last(nested) /\ Looked = nested[Len(nested)]
         /\ SearchOK(Looked, {}, Running.of, Current)
         /\ Len(nested) \in Nat \ {0}
  <1>1. nested \in Seq(SearchCall)
    BY DEF ProvidersInv, ProvidersTypeOK, SearchCall
  <1>2. /\ phase = "merging" /\ Running.in = "exports" /\ Running.left # <<>>
        /\ Current \in InjectionToken /\ CustomAt(Running.of, Current) = {}
        /\ NestedOK(nested, Running.of, Current)
    BY DEF ProvidersInv, NestedInv
  <1>3. /\ Looked \in SearchCall /\ Looked = Last(nested) /\ Looked = nested[Len(nested)]
        /\ Len(nested) \in Nat \ {0}
    BY <1>1, LastTakenAway DEF Looked
  <1>4. Len(nested) \in 1..Len(nested) /\ Above(nested, Len(nested)) = {}
    BY <1>3 DEF Above
  <1>5. SearchOK(Looked, {}, Running.of, Current)
    BY <1>2, <1>3, <1>4 DEF NestedOK
  <1>6. Current \notin ModuleClass
    BY <1>2, ResolvableAssumption DEF Class
  <1> QED
    BY <1>1, <1>2, <1>3, <1>5, <1>6

\* An import that is found not to offer the token does not.
LEMMA NotFoundOffersNothing ==
  ASSUME ProvidersInv, NEW i \in ModuleClass, ~IsFoundIn(i)
  PROVE  ~Offers(i, Current)
  <1>1. CustomAt(i, Current) = {} => ~ProvidesCustom(i, Current)
    BY CustomIsKept, InvDefined DEF ProvidersInv
  <1> QED
    BY <1>1 DEF Offers, IsFoundIn

LEMMA SearchKeeps ==
  ASSUME ProvidersInv, Search
  PROVE  ProvidersInv'
  <1>1. /\ phase = "merging" /\ Running.in = "exports" /\ Running.left # <<>>
        /\ Current \in InjectionToken /\ CustomAt(Running.of, Current) = {}
        /\ nested' = <<Searching(Running.of)>>
        /\ UNCHANGED <<app, phase, failure, providers, processed, calls, refVars>>
    BY DEF Search, IsExporting
  <1>2. Running.of \in ModuleClass /\ Defined
    BY <1>1, ExportingNow
  <1> DEFINE f == Searching(Running.of)
  <1>3. f \in SearchCall /\ f.of = Running.of /\ SearchOK(f, {}, Running.of, Current)
    BY <1>2, SearchingIs
  <1> HIDE DEF f
  <1>4. <<f>> \in Seq(SearchCall) /\ Len(<<f>>) = 1 /\ <<f>>[1] = f
    BY <1>3
  <1>5. Above(<<f>>, 1) = {} /\ 1..1 = {1}
    BY <1>4 DEF Above
  <1>6. NestedOK(<<f>>, Running.of, Current)
    BY <1>3, <1>4, <1>5 DEF NestedOK
  <1> QED
    BY <1>1, <1>4, <1>6, SearchChanges DEF f

LEMMA SearchBelowKeeps ==
  ASSUME ProvidersInv, SearchBelow
  PROVE  ProvidersInv'
  <1> DEFINE x == [Looked EXCEPT !.left = Tail(@)]
             i == Head(Looked.left)
             y == Searching(i)
             r == Append(Append(Front(nested), x), y)
             l == Len(nested)
             d == Running.of
             t == Current
  <1>1. /\ nested # <<>> /\ Looked.left # <<>> /\ ~IsFoundIn(i) /\ nested' = r
        /\ UNCHANGED <<app, phase, failure, providers, processed, calls, refVars>>
    BY DEF SearchBelow
  <1>2. /\ phase = "merging" /\ Running.in = "exports" /\ Running.left # <<>>
        /\ t \in InjectionToken /\ CustomAt(d, t) = {}
        /\ nested \in Seq(SearchCall) /\ NestedOK(nested, d, t)
        /\ Looked \in SearchCall /\ Looked = nested[l]
        /\ SearchOK(Looked, {}, d, t)
        /\ l \in Nat \ {0}
    BY <1>1, LookedIs
  <1>3. Looked.of \in ModuleClass /\ Looked.left \in Seq(ModuleClass)
    BY <1>2 DEF SearchCall
  <1>4. /\ i \in ModuleClass /\ Tail(Looked.left) \in Seq(ModuleClass)
        /\ ToSet(Looked.left) = {i} \union ToSet(Tail(Looked.left))
    BY <1>1, <1>3, ElementsOfTail
  <1>5. x \in SearchCall /\ x.of = Looked.of /\ x.left = Tail(Looked.left)
    BY <1>2, <1>4 DEF SearchCall
  <1>6. IsBelow(i, d)
    <2>1. i \in Imported(Looked.of) /\ (Looked.of = d \/ IsBelow(Looked.of, d))
      BY <1>2, <1>4 DEF SearchOK
    <2> HIDE DEF i, d
    <2> QED
      BY <2>1, ImportIsBelow, BelowGoesOn
  <1>7. y \in SearchCall /\ y.of = i /\ SearchOK(y, {}, d, t)
    BY <1>4, <1>6, InvDefined, SearchingIs
  <1>8. ~Offers(i, t)
    BY <1>1, <1>4, NotFoundOffersNothing
  <1> HIDE DEF x, i, y, d, t
  <1>9. SearchOK(x, {y}, d, t)
    BY <1>2, <1>4, <1>5, <1>7, <1>8 DEF SearchOK
  <1>10. /\ r \in Seq(SearchCall) /\ Len(r) = l + 1
         /\ \A n \in 1..l - 1 : r[n] = nested[n]
         /\ r[l] = x /\ r[l + 1] = y
    BY <1>1, <1>2, <1>5, <1>7, LastCovered
  <1> HIDE DEF r
  <1>11. r[1].of = d
    <2>1. nested[1].of = d
      BY <1>2 DEF NestedOK
    <2>2. CASE l = 1
      BY <1>2, <1>5, <1>10, <2>1, <2>2
    <2>3. CASE l # 1
      <3>1. 1 \in 1..l - 1
        <4>1. \A n \in Nat \ {0} : n # 1 => 1 \in 1..n - 1
          OBVIOUS
        <4> QED
          BY <4>1, <2>3, <1>2
      <3> QED
        BY <3>1, <2>1, <1>10
    <2> QED
      BY <2>2, <2>3
  <1>12. ASSUME NEW k \in 1..l - 1
         PROVE  SearchOK(r[k], Above(r, k), d, t)
    <2>1. /\ k \in 1..l /\ r[k] = nested[k]
          /\ Above(nested, k) = {nested[k + 1]} /\ Above(r, k) = {r[k + 1]}
          /\ k + 1 # l => k + 1 \in 1..l - 1
      BY <1>2, <1>10 DEF Above
    <2>2. SearchOK(nested[k], Above(nested, k), d, t)
      BY <2>1, <1>2 DEF NestedOK
    <2>3. r[k + 1].of = nested[k + 1].of
      BY <2>1, <1>2, <1>5, <1>10
    <2> QED
      BY <2>1, <2>2, <2>3 DEF SearchOK
  <1>13. Above(r, l) = {y} /\ Above(r, l + 1) = {}
    BY <1>2, <1>10 DEF Above
  <1>14. \A k \in 1..l + 1 : k = l + 1 \/ k = l \/ k \in 1..l - 1
    BY <1>2
  <1>15. NestedOK(r, d, t)
    BY <1>7, <1>9, <1>10, <1>11, <1>12, <1>13, <1>14 DEF NestedOK
  <1> QED
    BY <1>1, <1>2, <1>10, <1>15, SearchChanges DEF d, t

\* There is nothing below a module whose search is over.
LEMMA LookedIsOver ==
  ASSUME ProvidersInv, nested # <<>>, Looked.left = <<>>
  PROVE  ~IsExportedBelow(Looked.of, Current)
  <1>1. /\ Looked \in SearchCall /\ SearchOK(Looked, {}, Running.of, Current)
        /\ Defined
    BY LookedIs, InvDefined
  <1>2. Looked.of \in ModuleClass /\ Looked.left \in Seq(ModuleClass)
    BY <1>1 DEF SearchCall
  <1>3. ToSet(Looked.left) = {}
    BY <1>2, ElementsOfType
  <1>4. \A i \in Imported(Looked.of) : ~Offers(i, Current) /\ ~IsExportedBelow(i, Current)
    BY <1>1, <1>3 DEF SearchOK
  <1> SUFFICES ASSUME NEW k \in ModuleClass, IsBelow(k, Looked.of), Offers(k, Current)
               PROVE  FALSE
    BY DEF IsExportedBelow, Offers
  <1>5. PICK j \in Imported(Looked.of) : k = j \/ IsBelow(k, j)
    BY <1>1, <1>2, BelowThroughImport
  <1> QED
    BY <1>4, <1>5 DEF IsExportedBelow, Offers

LEMMA SearchReturnsKeeps ==
  ASSUME ProvidersInv, SearchReturns
  PROVE  ProvidersInv'
  <1> DEFINE r == Front(nested)
             l == Len(nested)
             d == Running.of
             t == Current
  <1>1. /\ phase = "merging" /\ l > 1 /\ Looked.left = <<>> /\ nested' = r
        /\ UNCHANGED <<app, phase, failure, providers, processed, calls, refVars>>
    BY DEF SearchReturns
  <1>2. nested # <<>>
    BY <1>1
  <1>3. /\ Running.in = "exports" /\ Running.left # <<>>
        /\ t \in InjectionToken /\ CustomAt(d, t) = {}
        /\ nested \in Seq(SearchCall) /\ NestedOK(nested, d, t)
        /\ Looked = nested[l] /\ l \in Nat \ {0}
    BY <1>2, LookedIs
  <1>4. ~IsExportedBelow(Looked.of, t)
    BY <1>1, <1>2, LookedIsOver
  <1>5. /\ r \in Seq(SearchCall) /\ Len(r) = l - 1
        /\ \A n \in 1..l - 1 : r[n] = nested[n]
    BY <1>2, <1>3, LastTakenAway
  <1> HIDE DEF d, t, r
  <1>6. r[1].of = d
    <2>1. 1 \in 1..l - 1
      <3>1. \A n \in Nat : n > 1 => 1 \in 1..n - 1
        OBVIOUS
      <3> QED
        BY <3>1, <1>1, <1>3
    <2> QED
      BY <2>1, <1>3, <1>5 DEF NestedOK
  <1>7. ASSUME NEW k \in 1..l - 1
        PROVE  SearchOK(r[k], Above(r, k), d, t)
    <2>1. /\ k \in 1..l /\ r[k] = nested[k]
          /\ Above(nested, k) = {nested[k + 1]}
          /\ k < l - 1 => k + 1 \in 1..l - 1
          /\ ~(k < l - 1) => k + 1 = l
      BY <1>3, <1>5 DEF Above
    <2>2. SearchOK(nested[k], Above(nested, k), d, t)
      BY <2>1, <1>3 DEF NestedOK
    <2>3. CASE k < l - 1
      <3>1. Above(r, k) = Above(nested, k)
        BY <2>1, <2>3, <1>5 DEF Above
      <3> QED
        BY <3>1, <2>1, <2>2
    <2>4. CASE ~(k < l - 1)
      <3>1. nested[k + 1] = Looked
        BY <2>1, <2>4, <1>3
      <3> QED
        BY <3>1, <2>1, <2>2, <1>4 DEF SearchOK
    <2> QED
      BY <2>3, <2>4
  <1>8. NestedOK(r, d, t)
    BY <1>5, <1>6, <1>7 DEF NestedOK
  <1> QED
    BY <1>1, <1>3, <1>5, <1>8, SearchChanges DEF d, t

LEMMA SearchFailsKeeps ==
  ASSUME ProvidersInv, SearchFails
  PROVE  ProvidersInv'
  <1>1. Len(nested) = 1 /\ Looked.left = <<>> /\ Throw("export")
    BY DEF SearchFails
  <1>2. nested # <<>>
    BY <1>1
  <1>3. /\ phase = "merging" /\ Running.in = "exports" /\ Running.left # <<>>
        /\ Current \in InjectionToken /\ CustomAt(Running.of, Current) = {}
        /\ Current \notin ModuleClass
        /\ NestedOK(nested, Running.of, Current) /\ Looked = nested[1]
    BY <1>1, <1>2, LookedIs
  <1>4. Looked.of = Running.of
    BY <1>3 DEF NestedOK
  <1>5. /\ Running.of \in ModuleClass \ {RootModule}
        /\ Current \in ToSet(app.exports[Running.of]) /\ Defined
    BY <1>3, ExportingNow
  <1>6. ~IsExportedBelow(Running.of, Current)
    BY <1>1, <1>2, <1>4, LookedIsOver
  <1>7. ~ProvidesCustom(Running.of, Current)
    BY <1>3, <1>5, CustomIsKept DEF ProvidersInv
  <1>8. HasBadExport
    BY <1>3, <1>5, <1>6, <1>7 DEF HasBadExport, BadExport
  <1> QED
    BY <1>1, <1>3, <1>8, ThrowKeeps

LEMMA SearchFindsKeeps ==
  ASSUME ProvidersInv, SearchFinds
  PROVE  ProvidersInv'
  <1> DEFINE i == Head(Looked.left)
             d == Running.of
             m == Running.to
             p == FirstCustom(i, Current)
  <1>1. /\ nested # <<>> /\ Looked.left # <<>> /\ IsFoundIn(i)
        /\ Push(m, <<p>>) /\ nested' = <<>> /\ calls' = GoOn
        /\ UNCHANGED <<app, phase, failure, processed, refVars>>
    BY DEF SearchFinds
  <1>2. /\ phase = "merging" /\ Running.in = "exports" /\ Running.left # <<>>
        /\ Current \in InjectionToken /\ Current \notin ModuleClass
        /\ Looked \in SearchCall /\ SearchOK(Looked, {}, d, Current)
    BY <1>1, LookedIs
  <1>3. i \in ModuleClass /\ i \in ToSet(Looked.left)
    BY <1>1, <1>2, ElementsOfTail DEF SearchCall
  <1>4. /\ d \in ModuleClass /\ IsBelow(d, m) /\ Defined
    BY <1>2, ExportingNow
  <1>5. IsBelow(i, d)
    <2>1. i \in Imported(Looked.of) /\ (Looked.of = d \/ IsBelow(Looked.of, d))
      BY <1>2, <1>3 DEF SearchOK
    <2> HIDE DEF i, d
    <2> QED
      BY <2>1, ImportIsBelow, BelowGoesOn
  <1>6. /\ p \in ToSet(providers[i]) \intersect CustomProvider /\ p \in Resolvable
        /\ ProviderTokenOf[p] = Current
    BY <1>1, <1>3, FirstCustomIs DEF IsFoundIn, ProvidersInv
  <1>7. IsExportedBelow(d, Current)
    <2> HIDE DEF p
    <2>1. ProvidesCustom(i, Current) \/ IsExportedBelow(i, Current)
      BY <1>3, <1>6 DEF ProvidersInv, ArraysInv
    <2>2. CASE ProvidesCustom(i, Current)
      BY <1>1, <1>3, <1>5, <2>2 DEF IsFoundIn, IsExportedBelow
    <2>3. CASE IsExportedBelow(i, Current)
      BY <1>5, <2>3, BelowGoesOn DEF IsExportedBelow
    <2> QED
      BY <2>1, <2>2, <2>3
  <1>8. IsExportedBelow(m, Current)
    BY <1>4, <1>7, BelowGoesOn DEF IsExportedBelow
  <1>9. ~BadExport(d, Current)
    BY <1>2, <1>7 DEF BadExport
  <1> HIDE DEF p
  <1> QED
    BY <1>1, <1>2, <1>6, <1>8, <1>9, TokenArrives DEF p
------------------------------------------------------------------------------
(* The ModuleRefs *)

Frame == [module: ModuleClass, left: Seq(ModuleClass)]

\* ɵbindProviders leaves what is recorded, and records a provider of every root token.
LEMMA BindRootIs ==
  ASSUME NEW recorded, recorded \subseteq Resolvable, NEW ps \in Seq(Resolvable)
  PROVE  /\ BindRoot(recorded, ps) \subseteq Resolvable
         /\ recorded \subseteq BindRoot(recorded, ps)
         /\ \A t \in Tokens(ToSet(ps)) :
               ProvidedIn[t] = "root" => t \in Tokens(BindRoot(recorded, ps))
  <1>1. /\ DOMAIN ps = 1..Len(ps) /\ Len(ps) \in Nat
        /\ \A n \in 1..Len(ps) : ps[n] \in Resolvable
    BY LenProperties, ElementOfSeq
  <1>2. BindRoot(recorded, ps) \subseteq Resolvable /\ recorded \subseteq BindRoot(recorded, ps)
    BY <1>1 DEF BindRoot
  <1>3. ASSUME NEW t \in Tokens(ToSet(ps)), ProvidedIn[t] = "root"
        PROVE  t \in Tokens(BindRoot(recorded, ps))
    <2> DEFINE at == {n \in 1..Len(ps) : ProviderTokenOf[ps[n]] = t}
    <2>1. at # {} /\ at \in SUBSET Nat
      BY <1>1 DEF Tokens, ToSet
    <2>2. PICK n \in at : \A k \in at : n <= k
      BY <2>1, LeastNumber
    <2>3. /\ n \in 1..Len(ps) /\ n \in Nat /\ ProviderTokenOf[ps[n]] = t
          /\ ScopeOf(ps[n]) = "root"
      BY <2>2, <1>1, <1>3 DEF ScopeOf
    <2>4. \A k \in 1..n - 1 : ProviderTokenOf[ps[k]] # t
      <3>1. ASSUME NEW k \in 1..n - 1
            PROVE  k \in 1..Len(ps) /\ ~(n <= k)
        BY <1>1, <2>3
      <3> QED
        BY <3>1, <2>2
    <2>5. CASE \E p \in recorded : ProviderTokenOf[p] = t
      BY <2>5, <1>2 DEF Tokens
    <2>6. CASE ~\E p \in recorded : ProviderTokenOf[p] = t
      <3>1. ps[n] \in BindRoot(recorded, ps)
        BY <1>1, <2>3, <2>4, <2>6 DEF BindRoot
      <3> QED
        BY <2>3, <3>1 DEF Tokens
    <2> QED
      BY <2>5, <2>6
  <1> QED
    BY <1>2, <1>3

LEMMA ComponentRefsIs ==
  ASSUME ProvidersTypeOK, NEW m \in ModuleClass
  PROVE  ComponentRefs(m) \in [Component -> SUBSET Resolvable]
  <1>1. /\ ToSet(providers[m]) \subseteq Resolvable
        /\ \A c \in Component : ToSet(OwnProviders[c]) \subseteq Resolvable
    BY ElementsOfType, ResolvableAssumption DEF ProvidersTypeOK
  <1> QED
    BY <1>1 DEF ComponentRefs, ForContexts

LEMMA MergedIsQuiet ==
  ASSUME ProvidersInv, phase \in {"merged", "creating"}
  PROVE  /\ calls = <<>> /\ nested = <<>> /\ failure = "none" /\ ~IsCyclic
         /\ RootModule \in processed
  <1>1. calls = <<>> /\ nested = <<>>
    BY DEF ProvidersInv, CallsInv, NestedInv
  <1>2. failure = "none" /\ ~IsCyclic /\ RootModule \in processed
    BY DEF ProvidersInv, PhaseInv
  <1> QED
    BY <1>1, <1>2

\* What a step of the creation leaves alone.
LEMMA CreationLeaves ==
  ASSUME ProvidersInv, phase \in {"merged", "creating"}, UNCHANGED <<app, mergeVars>>,
         \/ phase' \in {"creating", "loaded"} /\ failure' = failure
         \/ phase' = "threw" /\ failure' = "duplicate"
  PROVE  /\ CallsInv' /\ ProcessedInv' /\ ArraysInv' /\ NestedInv' /\ PhaseInv'
         /\ \A m : ModuleProvidersOf(m)' = ModuleProvidersOf(m)
         /\ \A m : ComponentRefs(m)' = ComponentRefs(m)
  <1>1. /\ calls = <<>> /\ nested = <<>> /\ failure = "none" /\ ~IsCyclic
        /\ RootModule \in processed
    BY MergedIsQuiet
  <1>2. UNCHANGED <<app, providers, processed, calls, nested>>
    BY DEF mergeVars
  <1>3. CallsInv'
    BY <1>1, <1>2, NoCallsOK, CallsMeanTheSame DEF CallsInv
  <1>4. Widens(providers, providers', processed, processed)
    BY <1>2 DEF Widens
  <1>5. ProcessedInv' /\ ArraysInv'
    BY <1>2, <1>4, ProcessedStay, ArraysStay DEF ProvidersInv
  <1>6. NestedInv'
    BY <1>1, <1>2 DEF NestedInv
  <1>7. PhaseInv'
    BY <1>1, <1>2, DefinitionsStay DEF PhaseInv
  <1>8. \A m : ModuleProvidersOf(m)' = ModuleProvidersOf(m)
    BY <1>2 DEF ModuleProvidersOf, IsForModule, ScopeOf
  <1>9. \A m : ComponentRefs(m)' = ComponentRefs(m)
    BY <1>2 DEF ComponentRefs, ForContexts, ScopeOf
  <1> QED
    BY <1>3, <1>5, <1>6, <1>7, <1>8, <1>9

\* The frames have what the modules with a ModuleRef import, but for the module m.
FramesOK(frames, m) ==
    /\ \A k \in 1..Len(frames) : /\ frames[k].module \in DOMAIN parent
                                 /\ ToSet(frames[k].left) \subseteq Imported(frames[k].module)
    /\ \A q \in DOMAIN parent : \A i \in Imported(q) :
          \/ i \in DOMAIN parent \/ i = m
          \/ \E k \in 1..Len(frames) : frames[k].module = q /\ i \in ToSet(frames[k].left)

LEMMA CreateKeeps ==
  ASSUME ProvidersInv, NEW m \in ModuleClass, m \notin DOMAIN parent,
         NEW p \in ModuleClass \union {Undefined}, NEW frames \in Seq(Frame),
         \/ phase = "merged" /\ m = RootModule
         \/ phase = "creating" /\ p # Undefined /\ m \in Imported(p),
         FramesOK(frames, m), Create(m, p, frames)
  PROVE  ProvidersInv'
  <1>1. /\ UNCHANGED <<app, mergeVars>> /\ root' = BindRoot(root, providers[m])
        /\ phase \in {"merged", "creating"}
    BY DEF Create
  <1>2. UNCHANGED <<app, providers, processed, calls, nested>>
    BY <1>1 DEF mergeVars
  <1>3. /\ app \in Apps /\ providers \in [ModuleClass -> Seq(Resolvable)]
        /\ failure \in {"none", "overflow", "export", "duplicate"}
        /\ processed \subseteq ModuleClass
        /\ calls \in Seq(Call)
        /\ nested \in Seq([of: ModuleClass, left: Seq(ModuleClass)])
        /\ DOMAIN parent \subseteq ModuleClass
        /\ \A k \in DOMAIN parent : parent[k] \in ModuleClass \union {Undefined}
        /\ bindings \in [ModuleClass -> SUBSET Resolvable]
        /\ root \subseteq Resolvable
        /\ context \in [ModuleClass -> [Component -> SUBSET Resolvable]]
        /\ stack \in Seq(Frame)
    BY DEF ProvidersInv, ProvidersTypeOK, Frame
  <1>4. /\ root' \subseteq Resolvable /\ root \subseteq root'
        /\ \A t \in TokensOf(providers, m) : ProvidedIn[t] = "root" => t \in Tokens(root')
    <2>1. providers[m] \in Seq(Resolvable)
      BY <1>3
    <2> QED
      BY <1>1, <1>3, <2>1, BindRootIs DEF TokensOf
  <1>5. \A t : t \in Tokens(root) => t \in Tokens(root')
    BY <1>4 DEF Tokens
  <1>6. CASE HasDuplicates(m)
    <2>1. /\ phase' = "threw" /\ failure' = "duplicate"
          /\ UNCHANGED <<parent, bindings, context, stack>>
      BY <1>6 DEF Create
    <2>2. /\ CallsInv' /\ ProcessedInv' /\ ArraysInv' /\ NestedInv' /\ PhaseInv'
          /\ \A k : ModuleProvidersOf(k)' = ModuleProvidersOf(k)
          /\ \A k : ComponentRefs(k)' = ComponentRefs(k)
      BY <1>1, <2>1, CreationLeaves
    <2>3. ProvidersTypeOK'
      BY <1>2, <1>3, <1>4, <2>1, CreationTypes DEF ProvidersInv, Frame
    <2>4. RefsInv'
      <3>0. /\ parent' = parent /\ stack' = stack
            /\ \A k : Imported(k)' = Imported(k)
            /\ StackInv /\ ParentInv /\ ChildrenInv
        BY <1>2, <2>1, DefinitionsStay DEF ProvidersInv, RefsInv
      <3>1. StackInv' /\ ParentInv' /\ ChildrenInv'
        <4>1. StackInv'
          BY <3>0 DEF StackInv
        <4>2. ParentInv'
          BY <3>0 DEF ParentInv
        <4>3. ChildrenInv'
          BY <3>0 DEF ChildrenInv
        <4> QED
          BY <4>1, <4>2, <4>3
      <3>2. BoundInv'
        BY <1>2, <1>5, <2>1, <2>2 DEF ProvidersInv, RefsInv, BoundInv, TokensOf, Tokens
      <3> QED
        BY <2>1, <3>1, <3>2 DEF RefsInv
    <2> QED
      BY <2>2, <2>3, <2>4 DEF ProvidersInv
  <1>7. CASE ~HasDuplicates(m)
    <2> DEFINE frame == [module |-> m, left |-> app.imports[m]]
    <2>1. /\ phase' = "creating" /\ failure' = failure
          /\ parent' = [k \in DOMAIN parent \union {m} |-> IF k = m THEN p ELSE parent[k]]
          /\ bindings' = [bindings EXCEPT ![m] =
               ModuleProvidersOf(m) \union IF m = RootModule THEN ToSet(Global) ELSE {}]
          /\ context' = [context EXCEPT ![m] = ComponentRefs(m)]
          /\ stack' = Append(frames, frame)
      BY <1>7 DEF Create
    <2>2. /\ CallsInv' /\ ProcessedInv' /\ ArraysInv' /\ NestedInv' /\ PhaseInv'
          /\ \A k : ModuleProvidersOf(k)' = ModuleProvidersOf(k)
          /\ \A k : ComponentRefs(k)' = ComponentRefs(k)
      BY <1>1, <2>1, CreationLeaves
    <2>3. /\ app.imports[m] \in Seq(ModuleClass) /\ Imported(m) = ToSet(app.imports[m])
          /\ frame \in Frame /\ frame.module = m /\ frame.left = app.imports[m]
      BY InvDefined, ImportsAreModules DEF Frame, Imported
    <2> HIDE DEF frame
    <2>4. /\ stack' \in Seq(Frame) /\ Len(stack') = Len(frames) + 1
          /\ Len(frames) \in Nat
          /\ \A k \in 1..Len(frames) : stack'[k] = frames[k]
          /\ stack'[Len(frames) + 1] = frame
      BY <2>1, <2>3, AppendProperties, LenProperties
    <2>5. stack' # <<>>
      BY <2>4, EmptySeq
    <2>6. /\ DOMAIN parent' = DOMAIN parent \union {m} /\ parent'[m] = p
          /\ \A k \in DOMAIN parent : parent'[k] = parent[k]
      BY <2>1
    <2>7. ModuleProvidersOf(m) \subseteq Resolvable /\ ToSet(Global) \subseteq Resolvable
      <3>1. ToSet(providers[m]) \subseteq Resolvable
        BY <1>3, ElementsOfType
      <3>2. ToSet(Global) \subseteq Class
        BY ResolvableAssumption, ElementsOfType
      <3> QED
        BY <3>1, <3>2, ResolvableAssumption DEF ModuleProvidersOf
    <2>8. /\ bindings' \in [ModuleClass -> SUBSET Resolvable]
          /\ ModuleProvidersOf(m) \subseteq bindings'[m]
          /\ \A k \in ModuleClass \ {m} : bindings'[k] = bindings[k]
      BY <1>3, <2>1, <2>7
    <2>9. /\ context' \in [ModuleClass -> [Component -> SUBSET Resolvable]]
          /\ context'[m] = ComponentRefs(m)
          /\ \A k \in ModuleClass \ {m} : context'[k] = context[k]
      BY <1>3, <2>1, ComponentRefsIs DEF ProvidersInv
    <2>10. ProvidersTypeOK'
      <3>1. \A k \in DOMAIN parent' : parent'[k] \in ModuleClass \union {Undefined}
        BY <1>3, <2>6
      <3>2. DOMAIN parent' \subseteq ModuleClass
        BY <1>3, <2>6
      <3>3. /\ ProvidersTypeOK /\ phase' = "creating" /\ failure' = failure
            /\ stack' \in Seq([module: ModuleClass, left: Seq(ModuleClass)])
        BY <2>1, <2>4 DEF ProvidersInv, Frame
      <3> QED
        BY <1>2, <1>4, <2>8, <2>9, <3>1, <3>2, <3>3, CreationTypes
    <2>11. \A k \in 1..Len(stack') : k \in 1..Len(frames) \/ k = Len(frames) + 1
      BY <2>4
    <2>12. \A k \in 1..Len(stack') :
              /\ stack'[k].module \in DOMAIN parent'
              /\ ToSet(stack'[k].left) \subseteq Imported(stack'[k].module)
      <3> SUFFICES ASSUME NEW k \in 1..Len(stack')
                   PROVE  /\ stack'[k].module \in DOMAIN parent'
                          /\ ToSet(stack'[k].left) \subseteq Imported(stack'[k].module)
        OBVIOUS
      <3>1. CASE k = Len(frames) + 1
        BY <3>1, <2>3, <2>4, <2>6
      <3>2. CASE k \in 1..Len(frames)
        <4>1. /\ frames[k].module \in DOMAIN parent
              /\ ToSet(frames[k].left) \subseteq Imported(frames[k].module)
          BY <3>2 DEF FramesOK
        <4>2. stack'[k] = frames[k]
          BY <3>2, <2>4
        <4> QED
          BY <4>1, <4>2, <2>6
      <3> QED
        BY <3>1, <3>2, <2>11
    <2>13. ASSUME NEW q \in DOMAIN parent'
           PROVE  /\ q # RootModule => parent'[q] # Undefined /\ q \in Imported(parent'[q])
                  /\ ModuleProvidersOf(q) \subseteq bindings'[q]
                  /\ context'[q] = ComponentRefs(q)
                  /\ \A t \in TokensOf(providers, q) :
                        ProvidedIn[t] = "root" => t \in Tokens(root')
      <3>1. CASE q = m
        <4>1. m # RootModule => p # Undefined /\ m \in Imported(p)
          OBVIOUS
        <4> QED
          BY <3>1, <4>1, <1>4, <2>6, <2>8, <2>9
      <3>2. CASE q # m
        <4>1. q \in DOMAIN parent /\ q \in ModuleClass \ {m}
          BY <1>3, <2>6, <3>2
        <4>2. /\ q # RootModule => parent[q] # Undefined /\ q \in Imported(parent[q])
              /\ ModuleProvidersOf(q) \subseteq bindings[q]
              /\ context[q] = ComponentRefs(q)
              /\ \A t \in TokensOf(providers, q) :
                    ProvidedIn[t] = "root" => t \in Tokens(root)
          BY <4>1 DEF ProvidersInv, RefsInv, ParentInv, BoundInv
        <4> QED
          BY <4>1, <4>2, <1>5, <2>6, <2>8, <2>9
      <3> QED
        BY <3>1, <3>2
    <2>14. ASSUME NEW q \in DOMAIN parent', NEW i \in Imported(q), i \notin DOMAIN parent'
           PROVE  \E k \in 1..Len(stack') : stack'[k].module = q /\ i \in ToSet(stack'[k].left)
      <3>1. CASE q = m
        <4>1. Len(frames) + 1 \in 1..Len(stack')
          BY <2>4
        <4> QED
          BY <4>1, <3>1, <2>3, <2>4
      <3>2. CASE q # m
        <4>1. PICK k \in 1..Len(frames) :
                 frames[k].module = q /\ i \in ToSet(frames[k].left)
          BY <2>6, <2>14, <3>2 DEF FramesOK
        <4>2. k \in 1..Len(stack')
          BY <2>4
        <4> QED
          BY <4>1, <4>2, <2>4
      <3> QED
        BY <3>1, <3>2
    <2>15. RootModule \in DOMAIN parent'
      <3>1. phase = "creating" => RootModule \in DOMAIN parent
        BY DEF ProvidersInv, RefsInv
      <3> QED
        BY <3>1, <2>6
    <2>16. StackInv' /\ ChildrenInv'
      <3>1. \A k : Imported(k)' = Imported(k)
        BY <1>2, DefinitionsStay
      <3>2. StackInv'
        BY <2>12, <3>1 DEF StackInv
      <3>3. ChildrenInv'
        BY <2>14, <3>1 DEF ChildrenInv
      <3> QED
        BY <3>2, <3>3
    <2>17. ParentInv'
      BY <1>2, <2>13, DefinitionsStay DEF ParentInv
    <2>18. BoundInv'
      BY <1>2, <2>2, <2>13 DEF BoundInv, TokensOf, Tokens
    <2>19. RefsInv'
      BY <2>1, <2>5, <2>15, <2>16, <2>17, <2>18 DEF RefsInv
    <2> QED
      BY <2>2, <2>10, <2>19 DEF ProvidersInv
  <1> QED
    BY <1>6, <1>7

LEMMA CreateRootKeeps ==
  ASSUME ProvidersInv, CreateRoot
  PROVE  ProvidersInv'
  <1>1. phase = "merged" /\ Create(RootModule, Undefined, <<>>)
    BY DEF CreateRoot
  <1>2. DOMAIN parent = {}
    BY <1>1 DEF ProvidersInv, RefsInv
  <1>3. <<>> \in Seq(Frame) /\ FramesOK(<<>>, RootModule)
    BY <1>2, EmptySeq DEF FramesOK
  <1> QED
    BY <1>1, <1>2, <1>3, ResolvableAssumption, CreateKeeps

\* The loop of the last module goes on with the next import.
LEMMA AdvancedIs ==
  ASSUME ProvidersInv, phase = "creating", Top.left # <<>>
  PROVE  /\ Advanced \in Seq(Frame) /\ Advanced # <<>> /\ FramesOK(Advanced, Head(Top.left))
         /\ Top.module \in DOMAIN parent /\ Top.module \in ModuleClass
         /\ Head(Top.left) \in Imported(Top.module) /\ Head(Top.left) \in ModuleClass
  <1> DEFINE x == [Top EXCEPT !.left = Tail(@)]
             l == Len(stack)
  <1>1. stack \in Seq(Frame) /\ stack # <<>> /\ DOMAIN parent \subseteq ModuleClass
    BY DEF ProvidersInv, ProvidersTypeOK, RefsInv, Frame
  <1>2. l \in Nat \ {0} /\ Top \in Frame /\ Top = stack[l]
    BY <1>1, LastTakenAway DEF Top
  <1>3. Top.module \in ModuleClass /\ Top.left \in Seq(ModuleClass)
    BY <1>2 DEF Frame
  <1>4. /\ Head(Top.left) \in ModuleClass /\ Tail(Top.left) \in Seq(ModuleClass)
        /\ ToSet(Top.left) = {Head(Top.left)} \union ToSet(Tail(Top.left))
    BY <1>3, ElementsOfTail
  <1>5. x \in Frame /\ x.module = Top.module /\ x.left = Tail(Top.left)
    BY <1>2, <1>4 DEF Frame
  <1>6. Advanced = Append(Front(stack), x)
    BY DEF Advanced
  <1> HIDE DEF x
  <1>7. /\ Advanced \in Seq(Frame) /\ Len(Advanced) = l /\ Advanced # <<>>
        /\ \A n \in 1..l - 1 : Advanced[n] = stack[n]
        /\ Advanced[l] = x
    BY <1>1, <1>5, <1>6, LastReplaced
  <1>8. l \in 1..l /\ \A k \in 1..l : k = l \/ k \in 1..l - 1
    BY <1>2
  <1>9. \A k \in 1..l : /\ stack[k].module \in DOMAIN parent
                        /\ ToSet(stack[k].left) \subseteq Imported(stack[k].module)
    BY DEF ProvidersInv, RefsInv, StackInv
  <1>10. \A k \in 1..l : /\ Advanced[k].module = stack[k].module
                         /\ ToSet(Advanced[k].left) \subseteq ToSet(stack[k].left)
                         /\ ToSet(stack[k].left) \subseteq
                               ToSet(Advanced[k].left) \union {Head(Top.left)}
    BY <1>2, <1>4, <1>5, <1>7, <1>8
  <1>11. \A q \in DOMAIN parent : \A i \in Imported(q) :
            \/ i \in DOMAIN parent
            \/ \E k \in 1..l : stack[k].module = q /\ i \in ToSet(stack[k].left)
    BY DEF ProvidersInv, RefsInv, ChildrenInv
  <1>12. FramesOK(Advanced, Head(Top.left))
    <2>1. \A k \in 1..l : /\ Advanced[k].module \in DOMAIN parent
                          /\ ToSet(Advanced[k].left) \subseteq Imported(Advanced[k].module)
      BY <1>9, <1>10
    <2>2. \A q \in DOMAIN parent : \A i \in Imported(q) :
             \/ i \in DOMAIN parent \/ i = Head(Top.left)
             \/ \E k \in 1..l : Advanced[k].module = q /\ i \in ToSet(Advanced[k].left)
      BY <1>10, <1>11
    <2> QED
      BY <1>7, <2>1, <2>2 DEF FramesOK
  <1>13. Top.module \in DOMAIN parent /\ Head(Top.left) \in Imported(Top.module)
    BY <1>2, <1>4, <1>8, <1>9
  <1> QED
    BY <1>3, <1>4, <1>7, <1>12, <1>13

LEMMA CreateChildKeeps ==
  ASSUME ProvidersInv, CreateChild
  PROVE  ProvidersInv'
  <1>1. /\ phase = "creating" /\ Top.left # <<>> /\ Head(Top.left) \notin DOMAIN parent
        /\ Create(Head(Top.left), Top.module, Advanced)
    BY DEF CreateChild
  <1>2. Top.module # Undefined
    BY <1>1, AdvancedIs, ResolvableAssumption
  <1> QED
    BY <1>1, <1>2, AdvancedIs, CreateKeeps

\* The loop over the imports goes on without a new ModuleRef.
LEMMA StackChanges ==
  ASSUME ProvidersInv, phase = "creating",
         UNCHANGED <<app, failure, mergeVars, parent, bindings, root, context>>,
         \/ phase' = "creating" /\ stack' # <<>>
         \/ phase' = "loaded" /\ stack' = <<>>,
         stack' \in Seq(Frame), NEW m \in DOMAIN parent, FramesOK(stack', m)
  PROVE  ProvidersInv'
  <1>1. /\ CallsInv' /\ ProcessedInv' /\ ArraysInv' /\ NestedInv' /\ PhaseInv'
        /\ \A k : ModuleProvidersOf(k)' = ModuleProvidersOf(k)
        /\ \A k : ComponentRefs(k)' = ComponentRefs(k)
    BY CreationLeaves
  <1>2. UNCHANGED <<providers, processed, calls, nested>>
    BY DEF mergeVars
  <1>3. ProvidersTypeOK'
    <2>1. /\ DOMAIN parent \subseteq ModuleClass
          /\ \A k \in DOMAIN parent : parent[k] \in ModuleClass \union {Undefined}
          /\ bindings \in [ModuleClass -> SUBSET Resolvable]
          /\ root \subseteq Resolvable
          /\ context \in [ModuleClass -> [Component -> SUBSET Resolvable]]
      BY DEF ProvidersInv, ProvidersTypeOK
    <2> QED
      BY <1>2, <2>1, CreationTypes DEF ProvidersInv, Frame
  <1>4. /\ \A k \in 1..Len(stack') :
              /\ stack'[k].module \in DOMAIN parent
              /\ ToSet(stack'[k].left) \subseteq Imported(stack'[k].module)
        /\ \A q \in DOMAIN parent : \A i \in Imported(q) :
              \/ i \in DOMAIN parent
              \/ \E k \in 1..Len(stack') : stack'[k].module = q /\ i \in ToSet(stack'[k].left)
    BY DEF FramesOK
  <1>5. StackInv' /\ ChildrenInv'
    BY <1>4, DefinitionsStay DEF StackInv, ChildrenInv
  <1>6. ParentInv'
    BY DefinitionsStay DEF ProvidersInv, RefsInv, ParentInv
  <1>7. BoundInv'
    BY <1>1, <1>2 DEF ProvidersInv, RefsInv, BoundInv, TokensOf, Tokens
  <1>8. RefsInv'
    BY <1>5, <1>6, <1>7 DEF ProvidersInv, RefsInv
  <1> QED
    BY <1>1, <1>3, <1>8 DEF ProvidersInv

LEMMA SkipChildKeeps ==
  ASSUME ProvidersInv, SkipChild
  PROVE  ProvidersInv'
  <1>1. /\ phase = "creating" /\ Top.left # <<>> /\ Head(Top.left) \in DOMAIN parent
        /\ stack' = Advanced /\ phase' = "creating"
        /\ UNCHANGED <<app, failure, mergeVars, parent, bindings, root, context>>
    BY DEF SkipChild
  <1> QED
    BY <1>1, AdvancedIs, StackChanges

LEMMA LoopEndsKeeps ==
  ASSUME ProvidersInv, LoopEnds
  PROVE  ProvidersInv'
  <1> DEFINE l == Len(stack)
             r == Front(stack)
  <1>1. /\ phase = "creating" /\ Top.left = <<>> /\ stack' = r
        /\ phase' = IF l = 1 THEN "loaded" ELSE "creating"
        /\ UNCHANGED <<app, failure, mergeVars, parent, bindings, root, context>>
    BY DEF LoopEnds
  <1>2. /\ stack \in Seq(Frame) /\ stack # <<>> /\ RootModule \in DOMAIN parent
    BY <1>1 DEF ProvidersInv, ProvidersTypeOK, RefsInv, Frame
  <1>3. /\ l \in Nat \ {0} /\ Top \in Frame /\ Top = stack[l]
        /\ r \in Seq(Frame) /\ Len(r) = l - 1
        /\ \A n \in 1..l - 1 : r[n] = stack[n]
    BY <1>2, LastTakenAway DEF Top
  <1> HIDE DEF r
  <1>4. r = <<>> <=> l = 1
    BY <1>3, EmptySeq, LenProperties
  <1>5. ToSet(Top.left) = {}
    BY <1>1, <1>3, ElementsOfType DEF Frame
  <1>6. \A k \in 1..l - 1 : k \in 1..l
    BY <1>3
  <1>7. \A k \in 1..l : k = l \/ k \in 1..l - 1
    BY <1>3
  <1>8. /\ \A k \in 1..l : /\ stack[k].module \in DOMAIN parent
                           /\ ToSet(stack[k].left) \subseteq Imported(stack[k].module)
        /\ \A q \in DOMAIN parent : \A i \in Imported(q) :
              \/ i \in DOMAIN parent
              \/ \E k \in 1..l : stack[k].module = q /\ i \in ToSet(stack[k].left)
    BY <1>1 DEF ProvidersInv, RefsInv, StackInv, ChildrenInv
  <1>9. \A k \in 1..l - 1 : /\ r[k].module \in DOMAIN parent
                            /\ ToSet(r[k].left) \subseteq Imported(r[k].module)
    BY <1>3, <1>6, <1>8
  <1>10. ASSUME NEW q \in DOMAIN parent, NEW i \in Imported(q), i \notin DOMAIN parent
         PROVE  \E k \in 1..l - 1 : r[k].module = q /\ i \in ToSet(r[k].left)
    <2>1. PICK k \in 1..l : stack[k].module = q /\ i \in ToSet(stack[k].left)
      BY <1>8, <1>10
    <2>2. k # l
      BY <2>1, <1>3, <1>5
    <2> QED
      BY <2>1, <2>2, <1>3, <1>7
  <1>11. FramesOK(r, RootModule)
    BY <1>3, <1>9, <1>10 DEF FramesOK
  <1> QED
    BY <1>1, <1>2, <1>3, <1>4, <1>11, StackChanges
------------------------------------------------------------------------------
(* The invariant holds *)

LEMMA ProvidersInvInit == ProvidersInit => ProvidersInv
  <1> SUFFICES ASSUME ProvidersInit
               PROVE  ProvidersInv
    OBVIOUS
  <1>1. /\ app \in Apps /\ phase = "scanned" /\ providers = app.providers
        /\ failure = "none" /\ processed = {} /\ calls = <<>> /\ nested = <<>>
        /\ parent = <<>> /\ bindings = [m \in ModuleClass |-> {}] /\ root = {}
        /\ context = [m \in ModuleClass |-> [c \in Component |-> {}]] /\ stack = <<>>
    BY DEF ProvidersInit
  <1>2. Defined /\ app.providers \in [ModuleClass -> Seq(Resolvable)]
    BY <1>1, AppIsDefined DEF Defined, Definitions
  <1>3. DOMAIN parent = {} /\ Len(stack) = 0
    BY <1>1
  <1>4. ProvidersTypeOK
    <2>1. /\ calls \in Seq(Call)
          /\ nested \in Seq([of: ModuleClass, left: Seq(ModuleClass)])
          /\ stack \in Seq([module: ModuleClass, left: Seq(ModuleClass)])
      BY <1>1, EmptySeq
    <2> QED
      BY <1>1, <1>2, <1>3, <2>1 DEF ProvidersTypeOK
  <1>5. CallsInv
    BY <1>1, NoCallsOK DEF CallsInv
  <1>6. ProcessedInv /\ NestedInv /\ PhaseInv
    BY <1>1 DEF ProcessedInv, NestedInv, PhaseInv
  <1>7. ArraysInv
    BY <1>1 DEF ArraysInv, ProvidesCustom, Meant, TokensOf
  <1>8. RefsInv
    BY <1>1, <1>3 DEF RefsInv, StackInv, ParentInv, ChildrenInv, BoundInv
  <1> QED
    BY <1>4, <1>5, <1>6, <1>7, <1>8 DEF ProvidersInv

LEMMA ProvidersInvStep == ProvidersInv /\ [ProvidersNext]_providersVars => ProvidersInv'
  <1> SUFFICES ASSUME ProvidersInv, [ProvidersNext]_providersVars
               PROVE  ProvidersInv'
    OBVIOUS
  <1>1. CASE Overflow
    BY <1>1, ThrowKeeps DEF Overflow
  <1>2. CASE MergeRoot
    BY <1>2, MergeRootKeeps
  <1>3. CASE ExportImport
    BY <1>3, ExportImportKeeps
  <1>4. CASE MergeImport
    BY <1>4, MergeImportKeeps
  <1>5. CASE MergeReturns
    BY <1>5, MergeReturnsKeeps
  <1>6. CASE ExportAll
    BY <1>6, ExportAllKeeps
  <1>7. CASE ReExport
    BY <1>7, ReExportKeeps
  <1>8. CASE RefuseReExport
    BY <1>8, RefuseReExportKeeps
  <1>9. CASE ExportToken
    BY <1>9, ExportTokenKeeps
  <1>10. CASE ExportsReturn
    BY <1>10, ExportsReturnKeeps
  <1>11. CASE Search
    BY <1>11, SearchKeeps
  <1>12. CASE SearchFinds
    BY <1>12, SearchFindsKeeps
  <1>13. CASE SearchBelow
    BY <1>13, SearchBelowKeeps
  <1>14. CASE SearchReturns
    BY <1>14, SearchReturnsKeeps
  <1>15. CASE SearchFails
    BY <1>15, SearchFailsKeeps
  <1>16. CASE CreateRoot
    BY <1>16, CreateRootKeeps
  <1>17. CASE CreateChild
    BY <1>17, CreateChildKeeps
  <1>18. CASE SkipChild
    BY <1>18, SkipChildKeeps
  <1>19. CASE LoopEnds
    BY <1>19, LoopEndsKeeps
  <1>20. CASE UNCHANGED providersVars
    <2>1. /\ UNCHANGED <<app, phase, failure, providers, processed, calls, nested>>
          /\ UNCHANGED <<parent, bindings, root, context, stack>>
          /\ UNCHANGED <<mergeVars, refVars>>
      BY <1>20 DEF providersVars, mergeVars, refVars
    <2>2. CASE nested # <<>>
      BY <2>1, <2>2, LookedIs, SearchChanges
    <2>3. CASE nested = <<>> /\ phase = "merging"
      <3>1. CallsOK(calls', providers, processed) /\ calls' \in Seq(Call) /\ calls' # <<>>
        BY <2>1, <2>3 DEF ProvidersInv, CallsInv, ProvidersTypeOK
      <3> QED
        BY <2>1, <2>3, <3>1, MergingIsAcyclic, CallsChange
    <2>4. CASE nested = <<>> /\ phase # "merging"
      <3>1. ProvidersTypeOK'
        BY <2>1 DEF ProvidersInv, ProvidersTypeOK, Call, Class
      <3>2. CallsInv'
        BY <2>1, <2>4, CallsMeanTheSame DEF ProvidersInv, CallsInv
      <3>3. Widens(providers, providers', processed, processed)
        BY <2>1 DEF Widens
      <3>4. ProcessedInv' /\ ArraysInv'
        BY <2>1, <3>3, ProcessedStay, ArraysStay DEF ProvidersInv
      <3>5. NestedInv' /\ PhaseInv'
        BY <2>1, <2>4, DefinitionsStay DEF ProvidersInv, NestedInv, PhaseInv
      <3>6. StackInv' /\ ChildrenInv' /\ ParentInv'
        <4>1. /\ parent' = parent /\ stack' = stack
              /\ \A k : Imported(k)' = Imported(k)
              /\ StackInv /\ ParentInv /\ ChildrenInv
          BY <2>1, DefinitionsStay DEF ProvidersInv, RefsInv
        <4>2. StackInv'
          BY <4>1 DEF StackInv
        <4>3. ParentInv'
          BY <4>1 DEF ParentInv
        <4>4. ChildrenInv'
          BY <4>1 DEF ChildrenInv
        <4> QED
          BY <4>2, <4>3, <4>4
      <3>7. BoundInv'
        <4>1. /\ \A k : ModuleProvidersOf(k)' = ModuleProvidersOf(k)
              /\ \A k : ComponentRefs(k)' = ComponentRefs(k)
          BY <2>1 DEF ModuleProvidersOf, IsForModule, ScopeOf, ComponentRefs, ForContexts
        <4> QED
          BY <2>1, <4>1 DEF ProvidersInv, RefsInv, BoundInv, TokensOf, Tokens
      <3>8. RefsInv'
        BY <2>1, <3>6, <3>7 DEF ProvidersInv, RefsInv
      <3> QED
        BY <3>1, <3>2, <3>4, <3>5, <3>8 DEF ProvidersInv
    <2> QED
      BY <2>2, <2>3, <2>4
  <1> QED
    BY <1>1, <1>2, <1>3, <1>4, <1>5, <1>6, <1>7, <1>8, <1>9, <1>10, <1>11, <1>12,
       <1>13, <1>14, <1>15, <1>16, <1>17, <1>18, <1>19, <1>20
       DEF ProvidersNext, MergeStep, CreateStep

\* The invariant of the provider resolution.
THEOREM ProvidersInvariance == ProvidersSpec => []ProvidersInv
  <1> QED
    BY ProvidersInvInit, ProvidersInvStep, PTL DEF ProvidersSpec

\* The state of the loader has its type: every array holds providers, whatever
\* modules they came from.
THEOREM ProvidersTypes == ProvidersSpec => []ProvidersTypeOK
  <1>1. ProvidersInv => ProvidersTypeOK
    BY DEF ProvidersInv
  <1> QED
    BY <1>1, ProvidersInvariance, PTL

------------------------------------------------------------------------------
(* What the invariant says of a loaded application *)

LEMMA AllAreProcessed ==
  ASSUME ProvidersInv, RootModule \in processed
  PROVE  \A m \in ModuleClass : \A i \in Imported(m) : Given(providers, m, i)
  <1>1. processed \subseteq ModuleClass /\ Defined
    BY InvDefined DEF ProvidersInv, ProvidersTypeOK
  <1>2. HasImports(app, processed)
    BY DEF ProvidersInv, ProcessedInv, HasImports, Imported
  <1>3. processed = ModuleClass
    BY <1>1, <1>2 DEF Defined
  <1> QED
    BY <1>3 DEF ProvidersInv, ProcessedInv

LEMMA NoExportIsBad ==
  ASSUME ProvidersInv, RootModule \in processed
  PROVE  ~HasBadExport
  <1> SUFFICES ASSUME NEW d \in ModuleClass \ {RootModule}, NEW e \in ToSet(app.exports[d])
               PROVE  ~BadExport(d, e)
    BY DEF HasBadExport
  <1>1. PICK m \in ModuleClass : d \in Imported(m)
    BY InvDefined, OthersAreImported
  <1> QED
    BY <1>1, AllAreProcessed DEF Given

LEMMA AllHaveRefs ==
  ASSUME ProvidersInv, phase = "loaded"
  PROVE  DOMAIN parent = ModuleClass
  <1>1. DOMAIN parent \subseteq ModuleClass /\ Defined
    BY InvDefined DEF ProvidersInv, ProvidersTypeOK
  <1>2. RootModule \in DOMAIN parent /\ Len(stack) = 0
    BY DEF ProvidersInv, RefsInv
  <1>3. HasImports(app, DOMAIN parent)
    BY <1>2 DEF ProvidersInv, RefsInv, ChildrenInv, HasImports, Imported
  <1> QED
    BY <1>1, <1>2, <1>3 DEF Defined

LEMMA InvProvidesAsExported == ProvidersInv => ProvidedAsExported
  <1> SUFFICES ASSUME ProvidersInv
               PROVE  ProvidedAsExported
    OBVIOUS
  <1>1. phase \in {"merged", "creating", "loaded"} \/ failure = "duplicate" =>
           RootModule \in processed
    BY DEF ProvidersInv, PhaseInv
  <1>2. ASSUME phase = "loaded", NEW m \in ModuleClass, NEW t \in Meant(m)
        PROVE  /\ t \in Tokens(ToSet(providers[m]))
               /\ ProvidedIn[t] = "root" => t \in Tokens(root)
               /\ ProvidedIn[t] \in {"module", m} => t \in Tokens(bindings[m])
               /\ ProvidedIn[t] = "ctx" =>
                     \A c \in ComponentsOf[m] : t \in Tokens(context[m][c])
    <2>1. t \in TokensOf(providers, m)
      <3>1. CASE t \in Tokens(ToSet(app.providers[m]))
        BY <3>1 DEF ProvidersInv, ArraysInv, TokensOf, Tokens
      <3>2. ASSUME NEW i \in Imported(m), t \in Declared(i)
            PROVE  t \in TokensOf(providers, m)
        BY <1>1, <1>2, <3>2, AllAreProcessed DEF Given
      <3> QED
        BY <1>2, <3>1, <3>2 DEF Meant
    <2>2. PICK p \in ToSet(providers[m]) : ProviderTokenOf[p] = t
      BY <2>1 DEF TokensOf, Tokens
    <2>3. m \in DOMAIN parent
      BY <1>2, AllHaveRefs
    <2>4. /\ ModuleProvidersOf(m) \subseteq bindings[m] /\ context[m] = ComponentRefs(m)
          /\ ProvidedIn[t] = "root" => t \in Tokens(root)
      BY <2>1, <2>3 DEF ProvidersInv, RefsInv, BoundInv
    <2>5. ProvidedIn[t] \in {"module", m} => t \in Tokens(bindings[m])
      BY <2>2, <2>4 DEF ModuleProvidersOf, IsForModule, ScopeOf, Tokens
    <2>6. ASSUME ProvidedIn[t] = "ctx", NEW c \in ComponentsOf[m]
          PROVE  t \in Tokens(context[m][c])
      <3>1. c \in Component
        BY ResolvableAssumption
      <3>2. p \in context[m][c]
        BY <2>2, <2>4, <2>6, <3>1 DEF ComponentRefs, ForContexts, ScopeOf
      <3> QED
        BY <2>2, <3>2 DEF Tokens
    <2> QED
      BY <2>1, <2>4, <2>5, <2>6 DEF TokensOf
  <1>3. ExportsArrive
    BY <1>2 DEF ExportsArrive
  <1>4. UnexportedStaysPrivate
    BY DEF ProvidersInv, ArraysInv, UnexportedStaysPrivate, ExportAllIsFixed, TokensOf
  <1>5. RefusedForABadExport
    BY <1>1, NoExportIsBad DEF ProvidersInv, PhaseInv, RefusedForABadExport
  <1>6. EveryModuleHasARef
    BY AllHaveRefs DEF EveryModuleHasARef, ProvidersInv, RefsInv, ParentInv
  <1> QED
    BY <1>3, <1>4, <1>5, <1>6 DEF ProvidedAsExported

\* Every module is provided with what its imports export and nothing else, whatever
\* the modules are and however they import and export one another; a bad export is
\* refused, and nothing else is (`resolveModuleExports`, `checkNestedImportExports`).
THEOREM AsExported == ProvidersSpec => []ProvidedAsExported
  <1> QED
    BY InvProvidesAsExported, ProvidersInvariance, PTL

LEMMA RefsStayStep ==
  ASSUME ProvidersInv, [ProvidersNext]_providersVars
  PROVE  \/ \A m \in DOMAIN parent : /\ m \in DOMAIN parent'
                                     /\ parent'[m] = parent[m]
                                     /\ bindings'[m] = bindings[m]
         \/ UNCHANGED <<parent, bindings>>
  <1> DEFINE Stay == \A m \in DOMAIN parent : /\ m \in DOMAIN parent'
                                              /\ parent'[m] = parent[m]
                                              /\ bindings'[m] = bindings[m]
  <1>1. ASSUME NEW m \in ModuleClass, m \notin DOMAIN parent, NEW p, NEW frames,
               Create(m, p, frames)
        PROVE  Stay
    <2>1. bindings \in [ModuleClass -> SUBSET Resolvable]
      BY DEF ProvidersInv, ProvidersTypeOK
    <2>2. CASE HasDuplicates(m)
      BY <1>1, <2>2 DEF Create
    <2>3. CASE ~HasDuplicates(m)
      <3>1. /\ parent' = [k \in DOMAIN parent \union {m} |-> IF k = m THEN p ELSE parent[k]]
            /\ bindings' = [bindings EXCEPT ![m] =
                 ModuleProvidersOf(m) \union IF m = RootModule THEN ToSet(Global) ELSE {}]
        BY <1>1, <2>3 DEF Create
      <3>2. \A k \in DOMAIN parent : k # m /\ k \in DOMAIN parent'
        BY <1>1, <3>1
      <3> QED
        BY <2>1, <3>1, <3>2
    <2> QED
      BY <2>2, <2>3
  <1>2. CASE CreateRoot
    <2>1. DOMAIN parent = {} /\ Create(RootModule, Undefined, <<>>)
      BY <1>2 DEF CreateRoot, ProvidersInv, RefsInv
    <2> QED
      BY <2>1, <1>1, ResolvableAssumption
  <1>3. CASE CreateChild
    <2>1. /\ phase = "creating" /\ Top.left # <<>> /\ Head(Top.left) \notin DOMAIN parent
          /\ Create(Head(Top.left), Top.module, Advanced)
      BY <1>3 DEF CreateChild
    <2> HIDE DEF Stay
    <2>2. Head(Top.left) \in ModuleClass
      BY <2>1, AdvancedIs
    <2> QED
      BY <2>1, <2>2, <1>1 DEF Stay
  <1>4. CASE SkipChild \/ LoopEnds
    BY <1>4 DEF SkipChild, LoopEnds
  <1>5. CASE Overflow \/ MergeStep
    <2>1. UNCHANGED refVars
      BY <1>5 DEF Overflow, MergeStep, Throw, MergeRoot, ExportImport, MergeImport,
                  MergeReturns, ExportAll, ReExport, RefuseReExport, ExportToken,
                  ExportsReturn, Search, SearchFinds, SearchBelow, SearchReturns,
                  SearchFails
    <2> QED
      BY <2>1 DEF refVars
  <1>6. CASE UNCHANGED providersVars
    BY <1>6 DEF providersVars, refVars
  <1> QED
    BY <1>2, <1>3, <1>4, <1>5, <1>6 DEF ProvidersNext, CreateStep

\* A module that has a ModuleRef keeps it, with its parent and its bindings,
\* however often the module is imported.
THEOREM RefsAreKept == ProvidersSpec => RefsStay
  <1>1. ASSUME ProvidersInv, [ProvidersNext]_providersVars
        PROVE  \A m \in DOMAIN parent : /\ m \in DOMAIN parent'
                                        /\ parent'[m] = parent[m]
                                        /\ bindings'[m] = bindings[m]
    BY <1>1, RefsStayStep
  <1> QED
    BY <1>1, ProvidersInvariance, PTL DEF ProvidersSpec, RefsStay
==============================================================================
