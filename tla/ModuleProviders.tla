--------------------------- MODULE ModuleProviders ---------------------------
(***************************************************************************)
(* The second half of loading an application: which providers every module *)
(* gets from its imports (`_recursivelyResolveModuleProviders`), and the   *)
(* creation of a ModuleRef with an injector for every module               *)
(* (`_bindModuleProvidersAndCreateModuleRef`).                             *)
(*                                                                         *)
(* It starts from the complete map of definitions that ModuleScan ends     *)
(* with, and runs without an await: what follows is one call of functions  *)
(* that call themselves, a turn of one of their loops per step.  What is   *)
(* hard about it is aliasing: the array of providers of a definition is    *)
(* the array that the providers of its imports are appended to, and the    *)
(* one other modules copy.                                                 *)
(*                                                                         *)
(* Of the components of a module only what their ComponentRefs hold for    *)
(* the contexts of events is here: it is taken from the module when the    *)
(* refs are made.  Not here: `multi` providers, and a second application   *)
(* in one process, which finds the providers of the first on the module    *)
(* classes.                                                                *)
(***************************************************************************)
EXTENDS Naturals, Sequences, SequencesExt

CONSTANTS
    ModuleClass,     \* module classes
    ProviderToken,   \* module classes, other classes and injection tokens
    InjectionToken,  \* the tokens that are no classes
    Resolvable,      \* providers: classes and custom providers
    ProviderTokenOf, \* getProviderToken
    ProvidedIn,      \* of every token: a scope or a module
    RootModule,      \* the root module
    Component,       \* component classes
    ComponentsOf,    \* the components of every module
    OwnProviders,    \* the providers that every component declares
    Global,          \* the array of W_GLOBAL_PROV: classes provided in root
    Undefined,       \* no parent
    Apps             \* bound: the definitions of the modules of an application

Class == ProviderToken \ InjectionToken

CustomProvider == Resolvable \ Class

Definitions ==
    [imports: [ModuleClass -> Seq(ModuleClass)],
     exports: [ModuleClass -> Seq(ProviderToken)],
     providers: [ModuleClass -> Seq(Resolvable)]]

ASSUME ResolvableAssumption ==
    /\ ModuleClass \subseteq Class /\ Class \subseteq Resolvable
    /\ RootModule \in ModuleClass /\ Undefined \notin ModuleClass
    /\ ProviderTokenOf \in [Resolvable -> ProviderToken]
    /\ \A c \in Class : ProviderTokenOf[c] = c
    /\ ProvidedIn \in
          [ProviderToken -> {"root", "ctx", "module", "other"} \union ModuleClass]
    /\ Global \in Seq(Class)
    /\ ComponentsOf \in [ModuleClass -> SUBSET Component]
    /\ OwnProviders \in [Component -> Seq(Resolvable)]

\* The set of modules has all that its modules import.
HasImports(a, S) == \A j \in S : ToSet(a.imports[j]) \subseteq S

\* The map of definitions holds the root module and what it leads to.
ASSUME AppAssumption ==
    \A a \in Apps :
        /\ a \in Definitions
        /\ \A S \in SUBSET ModuleClass :
              RootModule \in S /\ HasImports(a, S) => S = ModuleClass

VARIABLES
    app,       \* the definitions, as they were scanned
    phase,     \* how far the loader is
    providers, \* the array of providers of every definition
    failure,   \* what the loader has thrown
    processed, \* the modules that have their W_MODULE_PROV
    calls,     \* the calls that merge providers, with what is left of their loops
    nested,    \* the calls of checkNestedImportExports in the last of them
    parent,    \* the container: the parent of every ModuleRef there is
    bindings,  \* the classes and custom providers bound in every module injector
    root,      \* the ones bound in the root injector
    context,   \* the context providers that the ComponentRefs of a module hold
    stack      \* createModuleRecursively: modules with the imports left to do

mergeVars == <<providers, processed, calls, nested>>

refVars == <<parent, bindings, root, context, stack>>

providersVars == <<app, phase, failure, mergeVars, refVars>>

Imported(m) == ToSet(app.imports[m])

\* The module imports k, directly or not.
IsBelow(k, m) ==
    \A S \in SUBSET ModuleClass : Imported(m) \subseteq S /\ HasImports(app, S) => k \in S

\* There are modules that lead to one another.
IsCyclic ==
    \E S \in SUBSET ModuleClass :
        S # {} /\ \A m \in S : Imported(m) \intersect S # {}

------------------------------------------------------------------------------
(* The providers of a module *)

\* A call that merges the imports of m into its array, before it comes to the
\* first one of `left` ("imports") or after that was exported ("exported").
Merging(m) == [in |-> "imports", of |-> m, left |-> app.imports[m]]

\* Variant: the arguments are the other way round.
ExportingToImport(m, d) == [in |-> "exports", to |-> d, of |-> m, left |-> app.exports[m]]

\* resolveModuleExports: what d exports is added to the array of m.
Exporting(m, d) == [in |-> "exports", to |-> m, of |-> d, left |-> app.exports[d]]

\* checkNestedImportExports: the imports of d are searched one after the other.
Searching(d) == [of |-> d, left |-> app.imports[d]]

\* Where the custom providers of the token are in the array of the module.
CustomAt(m, t) ==
    {n \in DOMAIN providers[m] : /\ providers[m][n] \in CustomProvider
                                 /\ ProviderTokenOf[providers[m][n]] = t}

\* getCustomProviderByType: the first of them.
FirstCustom(m, t) ==
    providers[m][CHOOSE n \in CustomAt(m, t) : \A k \in CustomAt(m, t) : n <= k]

Push(m, ps) == providers' = [providers EXCEPT ![m] = @ \o ps]

Running == Last(calls)

Current == Head(Running.left)

\* The running call goes on with what is behind the current import or export.
GoOn == Append(Front(calls), [Running EXCEPT !.left = Tail(@)])

IsExporting == phase = "merging" /\ Running.in = "exports" /\ nested = <<>>

Throw(why) ==
    /\ phase' = "threw"
    /\ failure' = why
    /\ calls' = <<>>
    /\ nested' = <<>>
    /\ UNCHANGED <<app, providers, processed, refVars>>

ProvidersInit ==
    /\ app \in Apps
    /\ phase = "scanned"
    /\ providers = app.providers
    /\ failure = "none"
    /\ processed = {}
    /\ calls = <<>>
    /\ nested = <<>>
    /\ parent = <<>>
    /\ bindings = [m \in ModuleClass |-> {}]
    /\ root = {}
    /\ context = [m \in ModuleClass |-> [c \in Component |-> {}]]
    /\ stack = <<>>

\* A module is marked as processed after its imports, so imports that lead back to
\* it make the recursion endless (or an export that is wrong ends it before).
Overflow ==
    /\ phase = "scanned"
    /\ IsCyclic
    /\ Throw("overflow")

MergeRoot ==
    /\ phase = "scanned"
    /\ ~IsCyclic
    /\ phase' = "merging"
    /\ calls' = <<Merging(RootModule)>>
    /\ UNCHANGED <<app, failure, providers, processed, nested, refVars>>

\* The loop over the imports: the exports of an import first ...
ExportImport ==
    /\ phase = "merging" /\ Running.in = "imports" /\ Running.left # <<>>
    /\ calls' = Append(Append(Front(calls), [Running EXCEPT !.in = "exported"]),
                       Exporting(Running.of, Current))
    /\ UNCHANGED <<app, phase, failure, providers, processed, nested, refVars>>

\* ... and then what is exported to the import, unless that was processed before.
MergeImport ==
    LET next == [Running EXCEPT !.in = "imports", !.left = Tail(@)]
    IN  /\ phase = "merging" /\ Running.in = "exported"
        /\ calls' = IF Current \in processed THEN Append(Front(calls), next)
                    ELSE Append(Append(Front(calls), next), Merging(Current))
        /\ UNCHANGED <<app, phase, failure, providers, processed, nested, refVars>>

MergeReturns ==
    /\ phase = "merging" /\ Running.in = "imports" /\ Running.left = <<>>
    /\ processed' = processed \union {Running.of}
    /\ calls' = Front(calls)
    /\ phase' = IF Len(calls) = 1 THEN "merged" ELSE "merging"
    /\ UNCHANGED <<app, failure, providers, nested, refVars>>

------------------------------------------------------------------------------
(* The exports of a module *)

\* A module that exports itself exports all that is in its array at this time.
ExportAll ==
    /\ IsExporting /\ Running.left # <<>> /\ Current = Running.of
    /\ Push(Running.to, providers[Running.of])
    /\ calls' = GoOn
    /\ UNCHANGED <<app, phase, failure, processed, nested, refVars>>

\* Variant: a module may export any module.
IsReExport(d, e) == e \in ModuleClass

\* A module exports only modules that it imports.
MayReExport(d, e) == e \in Imported(d)

\* Variant: modules that are exported again are not looked into.
ReExportSkipped ==
    /\ IsExporting /\ Running.left # <<>>
    /\ Current \in ModuleClass \ {Running.of}
    /\ MayReExport(Running.of, Current)
    /\ calls' = GoOn
    /\ UNCHANGED <<app, phase, failure, providers, processed, nested, refVars>>

ReExport ==
    /\ IsExporting /\ Running.left # <<>>
    /\ Current \in ModuleClass \ {Running.of}
    /\ MayReExport(Running.of, Current)
    /\ calls' = Append(GoOn, Exporting(Running.to, Current))
    /\ UNCHANGED <<app, phase, failure, providers, processed, nested, refVars>>

RefuseReExport ==
    /\ IsExporting /\ Running.left # <<>>
    /\ Current \in ModuleClass \ {Running.of}
    /\ ~MayReExport(Running.of, Current)
    /\ Throw("export")

\* The token is exported as its custom provider, or as the class it is.
ExportToken ==
    /\ IsExporting /\ Running.left # <<>> /\ Current \notin ModuleClass
    /\ \/ /\ CustomAt(Running.of, Current) # {}
          /\ Push(Running.to, <<FirstCustom(Running.of, Current)>>)
       \/ /\ CustomAt(Running.of, Current) = {}
          /\ Current \notin InjectionToken
          /\ Push(Running.to, <<Current>>)
    /\ calls' = GoOn
    /\ UNCHANGED <<app, phase, failure, processed, nested, refVars>>

\* An injection token that the module has no provider of is looked for below it.
Search ==
    /\ IsExporting /\ Running.left # <<>>
    /\ Current \in InjectionToken
    /\ CustomAt(Running.of, Current) = {}
    /\ nested' = <<Searching(Running.of)>>
    /\ UNCHANGED <<app, phase, failure, providers, processed, calls, refVars>>

ExportsReturn ==
    /\ IsExporting /\ Running.left = <<>>
    /\ calls' = Front(calls)
    /\ UNCHANGED <<app, phase, failure, providers, processed, nested, refVars>>

\* An import counts if it exports itself or the token and has a provider of it.
IsFoundIn(i) ==
    /\ {Current, i} \intersect ToSet(app.exports[i]) # {}
    /\ CustomAt(i, Current) # {}

Looked == Last(nested)

SearchFinds ==
    /\ phase = "merging" /\ nested # <<>> /\ Looked.left # <<>>
    /\ IsFoundIn(Head(Looked.left))
    /\ Push(Running.to, <<FirstCustom(Head(Looked.left), Current)>>)
    /\ nested' = <<>>
    /\ calls' = GoOn
    /\ UNCHANGED <<app, phase, failure, processed, refVars>>

SearchBelow ==
    /\ phase = "merging" /\ nested # <<>> /\ Looked.left # <<>>
    /\ ~IsFoundIn(Head(Looked.left))
    /\ nested' = Append(Append(Front(nested), [Looked EXCEPT !.left = Tail(@)]),
                        Searching(Head(Looked.left)))
    /\ UNCHANGED <<app, phase, failure, providers, processed, calls, refVars>>

SearchReturns ==
    /\ phase = "merging" /\ Len(nested) > 1 /\ Looked.left = <<>>
    /\ nested' = Front(nested)
    /\ UNCHANGED <<app, phase, failure, providers, processed, calls, refVars>>

SearchFails ==
    /\ phase = "merging" /\ Len(nested) = 1 /\ Looked.left = <<>>
    /\ Throw("export")

------------------------------------------------------------------------------
(* The ModuleRefs *)

ScopeOf(p) == ProvidedIn[ProviderTokenOf[p]]

\* Variant: the tokens are recorded.
BindRootTokens(recorded, ps) == recorded \union {ProviderTokenOf[p] : p \in ToSet(ps)}

\* ɵbindProviders for the root injector: a token that is there already is skipped.
BindRoot(recorded, ps) ==
    LET token(n) == ProviderTokenOf[ps[n]]
        isBound(n) == \/ \E p \in recorded : ProviderTokenOf[p] = token(n)
                      \/ \E k \in 1..n - 1 : token(k) = token(n)
    IN  recorded \union
          {ps[n] : n \in {k \in DOMAIN ps : ScopeOf(ps[k]) = "root" /\ ~isBound(k)}}

\* The providers that _bindProviders leaves to the injector of the module.
IsForModule(m, p) == ScopeOf(p) \in {"module", m}

ModuleProvidersOf(m) == {p \in ToSet(providers[m]) : IsForModule(m, p)}

\* The injector of the module refuses a token that is bound twice.
HasDuplicates(m) ==
    \E i, j \in DOMAIN providers[m] :
        /\ i # j
        /\ IsForModule(m, providers[m][i]) /\ IsForModule(m, providers[m][j])
        /\ ProviderTokenOf[providers[m][i]] = ProviderTokenOf[providers[m][j]]

ForContexts(ps) == {p \in ToSet(ps) : ScopeOf(p) = "ctx"}

\* Variant: the components get what they declare.
ComponentRefsOfOwn(m) ==
    [c \in Component |-> IF c \in ComponentsOf[m] THEN ForContexts(OwnProviders[c])
                                                 ELSE {}]

\* A component has its own providers and the context providers of its module; its
\* ComponentRef keeps the ones for contexts apart.
ComponentRefs(m) ==
    [c \in Component |-> IF c \in ComponentsOf[m]
                           THEN ForContexts(OwnProviders[c]) \union ForContexts(providers[m])
                           ELSE {}]

\* new ModuleImpl(...) and container.apply
Create(m, p, frames) ==
    /\ root' = BindRoot(root, providers[m])
    /\ IF HasDuplicates(m)
         THEN /\ phase' = "threw" /\ failure' = "duplicate"
              /\ UNCHANGED <<parent, bindings, context, stack>>
         ELSE /\ phase' = "creating"
              /\ parent' = [k \in DOMAIN parent \union {m} |->
                               IF k = m THEN p ELSE parent[k]]
              /\ bindings' = [bindings EXCEPT ![m] =
                   ModuleProvidersOf(m) \union IF m = RootModule THEN ToSet(Global) ELSE {}]
              /\ context' = [context EXCEPT ![m] = ComponentRefs(m)]
              /\ stack' = Append(frames, [module |-> m, left |-> app.imports[m]])
              /\ UNCHANGED failure
    /\ UNCHANGED <<app, mergeVars>>

CreateRoot == phase = "merged" /\ Create(RootModule, Undefined, <<>>)

Top == Last(stack)

\* The loop goes on with the imports after the current one.
Advanced == Append(Front(stack), [Top EXCEPT !.left = Tail(@)])

\* Variant: the container is not asked.
CreateAnyChild ==
    /\ phase = "creating" /\ Top.left # <<>>
    /\ Create(Head(Top.left), Top.module, Advanced)

CreateChild ==
    /\ phase = "creating" /\ Top.left # <<>>
    /\ Head(Top.left) \notin DOMAIN parent
    /\ Create(Head(Top.left), Top.module, Advanced)

\* Variant: the loop over the imports ends at the first that is there.
SkipChildren ==
    /\ phase = "creating" /\ Top.left # <<>>
    /\ Head(Top.left) \in DOMAIN parent
    /\ stack' = Append(Front(stack), [Top EXCEPT !.left = <<>>])
    /\ UNCHANGED <<app, phase, failure, mergeVars, parent, bindings, root, context>>

SkipChild ==
    /\ phase = "creating" /\ Top.left # <<>>
    /\ Head(Top.left) \in DOMAIN parent
    /\ stack' = Advanced
    /\ UNCHANGED <<app, phase, failure, mergeVars, parent, bindings, root, context>>

LoopEnds ==
    /\ phase = "creating" /\ Top.left = <<>>
    /\ stack' = Front(stack)
    /\ phase' = IF Len(stack) = 1 THEN "loaded" ELSE "creating"
    /\ UNCHANGED <<app, failure, mergeVars, parent, bindings, root, context>>

MergeStep ==
    \/ MergeRoot \/ ExportImport \/ MergeImport \/ MergeReturns
    \/ ExportAll \/ ReExport \/ RefuseReExport \/ ExportToken \/ ExportsReturn
    \/ Search \/ SearchFinds \/ SearchBelow \/ SearchReturns \/ SearchFails

CreateStep == CreateRoot \/ CreateChild \/ SkipChild \/ LoopEnds

ProvidersNext == Overflow \/ MergeStep \/ CreateStep

ProvidersSpec == ProvidersInit /\ [][ProvidersNext]_providersVars

------------------------------------------------------------------------------
(* Properties *)

Call ==
    [in: {"imports", "exported"}, of: ModuleClass, left: Seq(ModuleClass)]
        \union [in: {"exports"}, to: ModuleClass, of: ModuleClass, left: Seq(ProviderToken)]

ProvidersTypeOK ==
    /\ app \in Apps
    /\ phase \in {"scanned", "merging", "merged", "creating", "loaded", "threw"}
    /\ providers \in [ModuleClass -> Seq(Resolvable)]
    /\ failure \in {"none", "overflow", "export", "duplicate"}
    /\ processed \subseteq ModuleClass
    /\ calls \in Seq(Call)
    /\ nested \in Seq([of: ModuleClass, left: Seq(ModuleClass)])
    /\ DOMAIN parent \subseteq ModuleClass
    /\ \A m \in DOMAIN parent : parent[m] \in ModuleClass \union {Undefined}
    /\ bindings \in [ModuleClass -> SUBSET Resolvable]
    /\ root \subseteq Resolvable
    /\ context \in [ModuleClass -> [Component -> SUBSET Resolvable]]
    /\ stack \in Seq([module: ModuleClass, left: Seq(ModuleClass)])

Tokens(P) == {ProviderTokenOf[p] : p \in P}

ProvidesCustom(m, t) ==
    \E p \in ToSet(app.providers[m]) : p \in CustomProvider /\ ProviderTokenOf[p] = t

\* Whether checkNestedImportExports has something to find for token t in d.
IsExportedBelow(d, t) ==
    \E k \in ModuleClass : /\ IsBelow(k, d)
                           /\ ProvidesCustom(k, t)
                           /\ {t, k} \intersect ToSet(app.exports[k]) # {}

\* The module and the modules that it exports, directly or not.
ExportedFrom(d) ==
    LET exported(j) == (ToSet(app.exports[j]) \intersect ModuleClass) \ {j}
    IN  {k \in ModuleClass :
            \A S \in SUBSET ModuleClass :
                d \in S /\ (\A j \in S : exported(j) \subseteq S) => k \in S}

\* What the exports of a module say by themselves: its own providers if it exports
\* itself, and the tokens it exports.
DeclaredIn(k) ==
    (IF k \in ToSet(app.exports[k]) THEN Tokens(ToSet(app.providers[k])) ELSE {})
        \union (ToSet(app.exports[k]) \ ModuleClass)

\* What they say, and those of the modules it exports.
Declared(d) == UNION {DeclaredIn(k) : k \in ExportedFrom(d)}

Meant(m) ==
    Tokens(ToSet(app.providers[m])) \union UNION {Declared(i) : i \in Imported(m)}

\* Every module can use its own providers and all that its imports export, also
\* through any number of modules that export one another: they are recorded in the
\* injector that the scope of the token says, those of contexts in every component.
ExportsArrive ==
    phase = "loaded" =>
        \A m \in ModuleClass : \A t \in Meant(m) :
            /\ t \in Tokens(ToSet(providers[m]))
            /\ ProvidedIn[t] = "root" => t \in Tokens(root)
            /\ ProvidedIn[t] \in {"module", m} => t \in Tokens(bindings[m])
            /\ ProvidedIn[t] = "ctx" =>
                  \A c \in ComponentsOf[m] : t \in Tokens(context[m][c])

\* The providers that a module does not export are not provided to the modules
\* that import it.  (Modules that export themselves and import others are the
\* exception: what they export changes when their own imports are merged.)
UnexportedStaysPrivate ==
    /\ phase = "loaded"
    /\ \A d \in ModuleClass : d \in ToSet(app.exports[d]) => Imported(d) = {}
    => \A m \in ModuleClass : Tokens(ToSet(providers[m])) \subseteq Meant(m)

\* What a module other than the root module may not export.
BadExport(d, e) ==
    IF e \in ModuleClass THEN e # d /\ e \notin Imported(d)
    ELSE /\ e \in InjectionToken
         /\ ~ProvidesCustom(d, e) /\ ~IsExportedBelow(d, e)

HasBadExport ==
    \E d \in ModuleClass \ {RootModule} : \E e \in ToSet(app.exports[d]) : BadExport(d, e)

\* An application with imports without a cycle is refused for an export exactly if
\* a module exports a module it does not import or a token nobody below provides,
\* no matter in which order the modules are processed.
RefusedForABadExport ==
    /\ failure = "export" => HasBadExport
    /\ phase \in {"merged", "creating", "loaded"} \/ failure = "duplicate" => ~HasBadExport

\* Every module of a loaded application has a ModuleRef, and every ModuleRef but
\* that of the root module a parent that imports it: lookups that leave a module
\* go on in a module that knows it.
EveryModuleHasARef ==
    phase = "loaded" =>
        /\ DOMAIN parent = ModuleClass
        /\ \A m \in ModuleClass \ {RootModule} :
              parent[m] # Undefined /\ m \in Imported(parent[m])

\* However the modules of an application import each other, each is provided with
\* what its imports export and nothing else, in a ModuleRef of its own, and a bad
\* export is refused (`resolveModuleExports`, `ModuleRef._bindProviders`).
ProvidedAsExported ==
    /\ ExportsArrive
    /\ UnexportedStaysPrivate
    /\ RefusedForABadExport
    /\ EveryModuleHasARef

\* A module has one ModuleRef: whoever got it from the container, or has it as the
\* parent, never meets another one, however often the module is imported.
RefsStay ==
    [][\A m \in DOMAIN parent :
          /\ m \in DOMAIN parent'
          /\ parent'[m] = parent[m]
          /\ bindings'[m] = bindings[m]]_<<parent, bindings>>

------------------------------------------------------------------------------

\* "module: Restricts the provider to the module defined in providedIn and modules
\* that import that module, given it is exported": the injector of a module provides
\* nothing of another module that the exports do not give.
OnlyExportsAreProvided ==
    phase = "loaded" => \A m \in ModuleClass :
        Tokens(bindings[m]) \subseteq Meant(m) \union ToSet(Global)
===============================================================================
