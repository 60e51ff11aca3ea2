------------------------------ MODULE ModuleScan ------------------------------
(***************************************************************************)
(* The first half of loading an application: the concurrent scan of the    *)
(* root module and its imports, `ModuleLoader._scanModuleRecursively`.     *)
(*                                                                         *)
(* Every scan of a module awaits its metadata, then its imports, then puts *)
(* its definition into the map that all scans share and starts a scan for  *)
(* every import the map does not hold yet.  The scans of one application   *)
(* interleave at these awaits, and when one throws the others go on.       *)
(*                                                                         *)
(* Promises of dynamic modules may take any time, so all interleavings of  *)
(* awaits are taken as possible.                                           *)
(***************************************************************************)
EXTENDS Naturals, Sequences, Relation

CONSTANTS
    Module,   \* module classes
    Metatype, \* what may be imported: classes, dynamic modules, promises of these
    Nil,      \* no definition
    Root,     \* the class resolveRootModule is called with
    ModuleOf, \* the class a metatype is, or is a dynamic module of
    Promised, \* the metatypes that are promises
    Unusable, \* promises that are rejected, and imports that are undefined
    Unknown,  \* classes that have no module metadata
    Imports   \* bound: the imports of every metatype, one of these functions

ASSUME MetatypeAssumption ==
    /\ Root \in Metatype \ (Promised \union Unusable)
    /\ ModuleOf \in [Metatype -> Module]
    /\ Promised \union Unusable \union Unknown \subseteq Metatype
    /\ Unknown \intersect Promised = {}
    /\ Nil \notin Metatype

ASSUME ImportsAssumption == Imports \subseteq [Metatype -> Seq(Metatype)]

\* A scan is known by the positions of its module in the imports of the modules
\* that led to it.
RootScan == <<>>

VARIABLES
    imports,  \* the imports of every metatype
    pc,       \* how far every scan that has begun is
    metatype, \* what every scan was given
    resolved, \* the map of definitions; a metatype stands for the one it leads to
    above     \* history: the scans that await a scan, directly or not

vars == <<imports, pc, metatype, resolved, above>>

Scan == DOMAIN pc

TypeOK ==
    /\ imports \in Imports
    /\ Scan \subseteq Seq(Nat)
    /\ pc \in [Scan -> {"reflect", "imports", "children", "done", "failed"}]
    /\ metatype \in [Scan -> Metatype]
    /\ resolved \in [Module -> Metatype \union {Nil}]
    /\ above \in [Scan -> SUBSET Scan]

Init ==
    /\ imports \in Imports
    /\ pc = [s \in {RootScan} |-> "reflect"]
    /\ metatype = [s \in {RootScan} |-> Root]
    /\ resolved = [m \in Module |-> Nil]
    /\ above = [s \in {RootScan} |-> {}]

------------------------------------------------------------------------------

ImportsOf(s) == imports[metatype[s]]

Children(s) == {t \in Scan : \E i \in DOMAIN ImportsOf(s) : t = Append(s, i)}

Goto(s, step) ==
    /\ pc' = [pc EXCEPT ![s] = step]
    /\ UNCHANGED <<imports, metatype, resolved, above>>

\* reflectModuleMetadata has returned, or thrown.
Reflected(s) ==
    /\ pc[s] = "reflect"
    /\ Goto(s, IF metatype[s] \in Unknown THEN "failed" ELSE "imports")

ImportsFailed(s) ==
    /\ pc[s] = "imports"
    /\ \E i \in DOMAIN ImportsOf(s) : ImportsOf(s)[i] \in Unusable
    /\ Goto(s, "failed")

\* Variant: the map is keyed by what was imported, not by its class.
ResolvedByMetatype(s) ==
    [m \in DOMAIN resolved \union {metatype[s]} |->
        IF m = metatype[s] THEN metatype[s] ELSE resolved[m]]

ResolvedWith(s) == [resolved EXCEPT ![ModuleOf[metatype[s]]] = metatype[s]]

\* Variant: one chain of modules is handed on to all scans, as the parameter ctx of
\* the function seems to ask for, and they push to it and pop from it.
IsCircularInSharedChain(s, i) ==
    LET m == ImportsOf(s)[i]
    IN  /\ m \notin Promised
        /\ \E t \in Scan : /\ pc[t] \in {"imports", "children"}
                           /\ ModuleOf[metatype[t]] = ModuleOf[m]

\* The chain that an import is looked up in, ctx, starts anew in every scan.
IsCircular(s, i) ==
    LET m == ImportsOf(s)[i]
    IN  m \notin Promised /\ ModuleOf[m] = ModuleOf[metatype[s]]

\* Variant: dynamic modules are looked up in the map by themselves.
IsScannedUnlessClass(s, i) ==
    LET m == ImportsOf(s)[i]
    IN  m \in Promised \/ ResolvedWith(s)[ModuleOf[m]] # m

\* A promise of a dynamic module is neither found in the chain nor in the map.
IsScanned(s, i) ==
    LET m == ImportsOf(s)[i]
    IN  m \in Promised \/ ResolvedWith(s)[ModuleOf[m]] = Nil

\* The imports are there: the definition is recorded and the imports are scanned.
\* A circular import throws, but the scans that were started before it go on.
ImportsAwaited(s) ==
    /\ pc[s] = "imports"
    /\ \A i \in DOMAIN ImportsOf(s) : ImportsOf(s)[i] \notin Unusable
    /\ resolved' = ResolvedWith(s)
    /\ LET circular == {i \in DOMAIN ImportsOf(s) : IsCircular(s, i)}
           scanned == {i \in DOMAIN ImportsOf(s) :
                          IsScanned(s, i) /\ \A j \in circular : i < j}
           begun == {Append(s, i) : i \in scanned}
       IN  /\ pc' = [t \in Scan \union begun |->
                        CASE t \in begun -> "reflect"
                          [] t = s -> IF circular = {} THEN "children" ELSE "failed"
                          [] OTHER -> pc[t]]
           /\ metatype' = [t \in Scan \union begun |->
                              IF t \in begun THEN ImportsOf(s)[t[Len(t)]]
                                             ELSE metatype[t]]
           /\ above' = [t \in Scan \union begun |->
                           IF t \in begun THEN above[s] \union {s} ELSE above[t]]
    /\ UNCHANGED imports

\* Variant: a scan is over when one of the scans it has started is.
FirstChildDone(s) ==
    /\ pc[s] = "children"
    /\ Children(s) # {} => \E t \in Children(s) : pc[t] = "done"
    /\ Goto(s, "done")

\* Variant: a scan that has thrown counts as one that is over.
ChildrenSettled(s) ==
    /\ pc[s] = "children"
    /\ \A t \in Children(s) : pc[t] \in {"done", "failed"}
    /\ Goto(s, "done")

\* Variant: a module that is being scanned already is awaited, not skipped.
ImportsDone(s) ==
    /\ pc[s] = "children"
    /\ \A i \in DOMAIN ImportsOf(s) :
           \E t \in Scan : metatype[t] = ImportsOf(s)[i] /\ pc[t] = "done"
    /\ Goto(s, "done")

ChildrenDone(s) ==
    /\ pc[s] = "children"
    /\ \A t \in Children(s) : pc[t] = "done"
    /\ Goto(s, "done")

\* The first scan that throws makes the one that awaits it throw.
ChildFailed(s) ==
    /\ pc[s] = "children"
    /\ \E t \in Children(s) : pc[t] = "failed"
    /\ Goto(s, "failed")

Next ==
    \E s \in Scan :
        \/ Reflected(s)
        \/ ImportsFailed(s)
        \/ ImportsAwaited(s)
        \/ ChildrenDone(s)
        \/ ChildFailed(s)

Spec == Init /\ [][Next]_vars

\* The event loop goes on as long as a promise has settled; promises of dynamic
\* modules settle.
FairSpec == Spec /\ WF_vars(Next)

------------------------------------------------------------------------------

Loaded == pc[RootScan] = "done"

Resolved == {m \in Module : resolved[m] # Nil}

\* The modules that the definition of a resolved module imports.
ImportedBy(m) ==
    {ModuleOf[imports[resolved[m]][i]] : i \in DOMAIN imports[resolved[m]]}

\* When the root module is scanned the map is complete, although modules that
\* another scan had recorded were skipped: it holds the root module and whatever
\* the modules in it import.  (The second half of the loader relies on it.)
ScanIsComplete ==
    Loaded => /\ ModuleOf[Root] \in Resolved
              /\ \A m \in Resolved : ImportedBy(m) \subseteq Resolved

\* When the root module is scanned no scan is on its way, so nobody changes the
\* map any more, however many scans of one module were started at the same time.
NothingLeftBehind == Loaded => \A s \in Scan : pc[s] = "done"

\* A scan never waits for another scan of its own module, except for one that a
\* promise led to: import cycles do not make the loader scan for ever.
NoScanBelowItself ==
    \A s \in Scan : \A t \in above[s] :
        ModuleOf[metatype[s]] = ModuleOf[metatype[t]] => metatype[s] \in Promised

\* What is wrong with the definition a metatype leads to.
Faulty(d) ==
    \/ d \in Unknown
    \/ \E i \in DOMAIN imports[d] :
          \/ imports[d][i] \in Unusable
          \/ imports[d][i] \notin Promised /\ ModuleOf[imports[d][i]] = ModuleOf[d]

\* No error is lost on the way to the root module: an application is loaded only
\* if no scan met anything wrong, even a scan that was one of several of its module.
NoFaultIsSwallowed == Loaded => \A s \in Scan : ~Faulty(metatype[s])

\* An application is refused only if something is wrong with a module of it; in
\* particular a module that several modules import is not a cycle.
RefusedForAFault ==
    pc[RootScan] = "failed" => \E s \in Scan : Faulty(metatype[s])

\* What the concurrent scan promises when it is over (`_scanModuleRecursively`):
\* the map is complete, nothing goes on, no scan waited for itself, and the
\* application is refused if, and only if, something is wrong with it.
ScanIsSound ==
    /\ ScanIsComplete
    /\ NothingLeftBehind
    /\ NoScanBelowItself
    /\ NoFaultIsSwallowed
    /\ RefusedForAFault

\* The scan of every application ends, with import cycles and all.
ScanEnds == <>(pc[RootScan] \in {"done", "failed"})

------------------------------------------------------------------------------

\* "Circular dependency detected": the loader means to refuse modules that import
\* each other, directly or not.
CircularImportsAreRefused ==
    Loaded =>
        IsIrreflexive(TransitiveClosure([m, n \in Resolved |-> n \in ImportedBy(m)],
                                        Resolved), Resolved)
===============================================================================
