---------------------------- MODULE BindingRegistry ----------------------------
(***************************************************************************)
(* Which binding an injector ends up with: `createBinding`, which keeps    *)
(* the binding of a token on the token itself, `ɵbindProviders`, and the   *)
(* constructors and `bind` methods of module, component and context        *)
(* injectors that call them.                                               *)
(*                                                                         *)
(* The property on a token is shared by all injectors of the process, and  *)
(* a class inherits that of its superclass.  An array of providers is      *)
(* bound one after the other, without an await, and stops at the first     *)
(* provider that is refused: what was bound before stays bound.            *)
(*                                                                         *)
(* Which instances come out of a binding is the subject of InstanceCache   *)
(* and Resolution; here an instance is as good as the provider and the     *)
(* injector the binding was made for.                                      *)
(***************************************************************************)
EXTENDS Naturals, Sequences, FiniteSets

CONSTANTS
    Token,      \* classes and injection tokens
    Provider,   \* classes and custom providers
    Injector,   \* module and component injectors
    Context,    \* context injectors
    None,        \* no binding, no superclass
    TokenOf,    \* getProviderToken
    Custom,     \* the custom providers; the others are classes
    Singleton,  \* the tokens with the lifetime Singleton
    RootScoped, \* the tokens that are provided in "root"
    Multi,      \* the tokens declared with `multi`
    Super,      \* the superclass of a class, if it has one
    BuiltIn,    \* the providers of ModuleRef, Injector and INJECTOR that an injector
                \* binds itself, in that order: ModuleRef only with a module, and
                \* not in the injector of a component
    Values,     \* the providers that a context's constructor binds as values
    Factories,  \* the providers that it binds as factories
    Arrays,     \* bound: the arrays of providers that injectors are given
    MaxBinds    \* bound: calls of bind after an injector was created

Holder == Injector \union Context

\* A Binding.  The id stands for the identity of the object.
Binding ==
    [id: Nat, provider: Provider, holder: Holder, multi: BOOLEAN]

\* The chain of the superclasses of a class ends: no set of classes has a class
\* above each of its own.
TokensFit ==
    /\ TokenOf \in [Provider -> Token]
    /\ Singleton \subseteq Token /\ RootScoped \subseteq Token /\ Multi \subseteq Token
    /\ Super \in [Token -> Token \union {None}]
    /\ \A S \in SUBSET Token : S # {} => \E t \in S : Super[t] \notin S
    /\ None \notin Token \union Binding

\* The tokens of what an injector binds itself.
BuiltInTokens ==
    UNION {{TokenOf[BuiltIn[i][n]] : n \in DOMAIN BuiltIn[i]} : i \in Injector}

\* What the constructors bind themselves are custom providers, of any lifetime: that
\* of INJECTOR is the default, Singleton, and Injector and ModuleRef are Scoped.
ProvidersFit ==
    /\ Custom \subseteq Provider
    /\ BuiltIn \in [Injector -> Seq(Custom)]
    /\ BuiltInTokens \intersect Multi = {}
    /\ {Values, Factories} \subseteq [Context -> Seq(Custom)]

BoundsFit ==
    /\ Arrays \subseteq Seq(Provider)
    /\ MaxBinds \in Nat
    /\ Injector \intersect Context = {}

ASSUME ConstantAssumption == TokensFit /\ ProvidersFit /\ BoundsFit

------------------------------------------------------------------------------

VARIABLES
    saved,   \* the W_BINDING_DEF property of every token
    made,    \* how many bindings were made
    records, \* the records of every injector: the bindings of every token
    state,   \* whether an injector is there, or its constructor has thrown
    given,   \* history: the providers every injector has processed, in order
    binds    \* how often bind was called

registryVars == <<saved, made, records, state, given, binds>>

RegistryTypeOK ==
    /\ saved \in [Token -> Binding \union {None}]
    /\ made \in Nat
    /\ records \in [Holder -> [Token -> Seq(Binding)]]
    /\ state \in [Holder -> {"none", "there", "threw"}]
    /\ given \in [Holder -> Seq(Provider)]
    /\ binds \in 0..MaxBinds

RegistryInit ==
    /\ saved = [t \in Token |-> None]
    /\ made = 0
    /\ records = [h \in Holder |-> [t \in Token |-> <<>>]]
    /\ state = [h \in Holder |-> "none"]
    /\ given = [h \in Holder |-> <<>>]
    /\ binds = 0

------------------------------------------------------------------------------
(* createBinding *)

\* token[W_BINDING_DEF]: a class without the property inherits it.
SavedOn(t, s) ==
    LET found[u \in Token] ==
            IF s[u] # None \/ Super[u] = None THEN s[u] ELSE found[Super[u]]
    IN  found[t]

\* What the work on an array of providers for one injector has come to.
Work(h) ==
    [saved |-> saved, made |-> made, records |-> records[h], given |-> given[h],
     threw |-> FALSE]

New(w, h, p) ==
    [id |-> w.made, provider |-> p, holder |-> h,
     multi |-> p \in Custom /\ TokenOf[p] \in Multi]

\* Variant: the binding on the token is not looked at.
IsReusedNever(w, p) == FALSE

\* Variant: it is looked at for every lifetime.
IsReusedAlways(w, p) == SavedOn(TokenOf[p], w.saved) # None

IsReused(w, p) == TokenOf[p] \in Singleton /\ SavedOn(TokenOf[p], w.saved) # None

BindingFor(w, h, p) ==
    IF IsReused(w, p) THEN SavedOn(TokenOf[p], w.saved) ELSE New(w, h, p)

\* A new binding becomes the one of its token, whatever its lifetime.
Created(w, h, p) ==
    IF IsReused(w, p) THEN w
    ELSE [w EXCEPT !.saved[TokenOf[p]] = New(w, h, p), !.made = @ + 1]

\* Variant: the binding saved on the token is recorded, even if there is none.
ResolvedAsSaved(w, h, p) ==
    [w EXCEPT !.records[TokenOf[p]] = <<SavedOn(TokenOf[p], w.saved)>>,
              !.given = Append(@, p)]

\* createResolvedBinding neither looks at the token nor changes it.
ResolvedAs(w, h, p) ==
    [w EXCEPT !.made = @ + 1, !.records[TokenOf[p]] = <<New(w, h, p)>>,
              !.given = Append(@, p)]

------------------------------------------------------------------------------
(* ɵbindProviders *)

\* Variant: the second provider of a multi token takes the place of the first.
RecordLast(w, b, t) == [w EXCEPT !.records[t] = <<b>>]

Record(w, b, t) == [w EXCEPT !.records[t] = IF b.multi THEN Append(@, b) ELSE <<b>>]

\* Variant: the work on a refused provider is undone, with all before it.
ThrowAndClear(w) == [w EXCEPT !.threw = TRUE, !.records = [t \in Token |-> <<>>]]

Threw(w) == [w EXCEPT !.threw = TRUE]

\* One turn of the loop.  A token in "root" is likely to be bound more than once:
\* the first binding stays.  Spreading the record of a class that is not `multi` to
\* append to it throws as well.
BindOne(w, h, p) ==
    LET t == TokenOf[p]
        b == BindingFor(w, h, p)
        c == [Created(w, h, p) EXCEPT !.given = Append(@, p)]
    IN  IF w.records[t] = <<>> THEN Record(c, b, t)
        ELSE IF ~b.multi
        THEN IF t \in RootScoped THEN c ELSE Threw(Created(w, h, p))
        ELSE IF w.records[t][1].multi THEN Record(c, b, t)
        ELSE Threw(Created(w, h, p))

------------------------------------------------------------------------------
(* Injectors *)

\* createBinding for a provider whose binding replaces what is recorded.
SetCreated(w, h, p) ==
    [Created(w, h, p) EXCEPT !.records[TokenOf[p]] = <<BindingFor(w, h, p)>>,
                             !.given = Append(@, p)]

\* What an injector does with a provider: record it as a value, set its binding in
\* the constructor, or bind it.
Job == [how: {"value", "set", "bind"}, provider: Provider]

Jobs(how, ps) == [n \in 1..Len(ps) |-> [how |-> how, provider |-> ps[n]]]

\* A provider that is refused ends the work.
Done(w, h, job) ==
    CASE w.threw -> w
      [] ~w.threw /\ job.how = "value" -> ResolvedAs(w, h, job.provider)
      [] ~w.threw /\ job.how = "set"   -> SetCreated(w, h, job.provider)
      [] OTHER                         -> BindOne(w, h, job.provider)

\* The work of injector h, one provider after the other.
AllDone(h, jobs) ==
    LET after[n \in 0..Len(jobs)] ==
            IF n = 0 THEN Work(h) ELSE Done(after[n - 1], h, jobs[n])
    IN  after[Len(jobs)]

\* What became of the work is what the injector goes on with.
Commit(h, w) ==
    /\ saved' = w.saved
    /\ made' = w.made
    /\ records' = [records EXCEPT ![h] = w.records]
    /\ given' = [given EXCEPT ![h] = w.given]

\* The constructor of DynamicInjector.  If it throws there is no injector, but
\* what it has saved on the tokens stays.
CreateInjector(i, ps) ==
    /\ state[i] = "none"
    /\ LET w == AllDone(i, Jobs("set", BuiltIn[i]) \o Jobs("bind", ps))
       IN  IF w.threw
             THEN /\ saved' = w.saved /\ made' = w.made
                  /\ state' = [state EXCEPT ![i] = "threw"]
                  /\ UNCHANGED <<records, given>>
             ELSE /\ Commit(i, w)
                  /\ state' = [state EXCEPT ![i] = "there"]
    /\ UNCHANGED binds

\* bind of a DynamicInjector or a ContextInjector.
Bind(h, ps) ==
    /\ state[h] = "there"
    /\ binds < MaxBinds
    /\ Commit(h, AllDone(h, Jobs("bind", ps)))
    /\ binds' = binds + 1
    /\ UNCHANGED state

\* The constructor of ContextInjector: the values of the event are bound as they
\* are, what is bound as a factory goes through createBinding.
CreateContext(x) ==
    /\ state[x] = "none"
    /\ Commit(x, AllDone(x, Jobs("value", Values[x]) \o Jobs("set", Factories[x])))
    /\ state' = [state EXCEPT ![x] = "there"]
    /\ UNCHANGED binds

RegistryNext ==
    \/ \E i \in Injector, ps \in Arrays : CreateInjector(i, ps)
    \/ \E h \in Holder, ps \in Arrays : Bind(h, ps)
    \/ \E x \in Context : CreateContext(x)

RegistrySpec == RegistryInit /\ [][RegistryNext]_registryVars

------------------------------------------------------------------------------

\* The singletons that inherit from singletons only.
Steady ==
    {t \in Singleton : \E S \in SUBSET Singleton :
        t \in S /\ \A u \in S : Super[u] # None => Super[u] \in S}

Agree(tokens) ==
    \A t \in tokens, i, j \in Injector :
        records[i][t] # <<>> /\ records[j][t] # <<>>
        => records[i][t][1] = records[j][t][1]

\* All module and component injectors that record a singleton have the same
\* binding for it, in whatever order they and the superclasses of the token were
\* bound, and whether or not some of them refused other providers.  Left out are the
\* tokens that stand for the injector itself and the multi tokens: for those one
\* binding is not what is wanted (see InjectorsProvideThemselves, EveryProviderCounts).
SingletonsAgree == Agree(Steady \ (BuiltInTokens \union Multi))

\* The same of the singletons that inherit from other classes as well: "we use the
\* binding saved on the provider type such that we always use the same instance even
\* throughout different injectors" (binding.ts:280).
AllSingletonsAgree == Agree(Singleton)

\* A token that is not a singleton never shares a binding, and so an instance,
\* between two injectors or two places of a multi provider; and what is recorded for
\* it was made of a provider of that injector, not taken from the token.  Injector
\* and ModuleRef are such tokens: every injector provides itself and its module.
OthersAreSeparate ==
    \A t \in Token \ Singleton, h, k \in Holder :
        \A m \in DOMAIN records[h][t], n \in DOMAIN records[k][t] :
            /\ records[h][t][m].holder = h
            /\ records[h][t][m].id = records[k][t][n].id => h = k /\ m = n

\* "The current module injector for a given module" (injector-token.ts:6): what an
\* injector provides as itself is itself, INJECTOR included.
InjectorsProvideThemselves ==
    \A i \in Injector, t \in BuiltInTokens :
        records[i][t] # <<>> => records[i][t][1].holder = i

\* How many of the first n providers an injector was given are for a token.
Place(g, t, n) == Cardinality({m \in 1..n : TokenOf[g[m]] = t})

OnlyCustom(g, t) == \A n \in 1..Len(g) : TokenOf[g[n]] = t => g[n] \in Custom

\* Tokens that are no class, as an InjectionToken.
Classless ==
    {t \in Token : Super[t] = None /\ \A p \in Provider : TokenOf[p] = t => p \in Custom}

InPlace(h, t) ==
    \A n \in 1..Len(given[h]) :
        TokenOf[given[h][n]] = t
        => records[h][t][Place(given[h], t, n)].provider = given[h][n]

\* What an injector records for a multi token is as many bindings as it was given
\* providers, even after a provider was refused.  That they are the bindings of
\* these providers, in the order given, is said of tokens that are no singletons
\* only: a singleton, the default, has its first binding in all places.
MultiInOrder ==
    \A h \in Injector, t \in (Multi \ Singleton) \union (Multi \intersect Classless) :
        OnlyCustom(given[h], t)
        => /\ Len(records[h][t]) = Place(given[h], t, Len(given[h]))
           /\ t \notin Singleton => InPlace(h, t)

\* "Multi providers create instances for each provider" (injector.spec.ts:79), of a
\* token of the default lifetime.
EveryProviderCounts ==
    \A h \in Injector, t \in Multi \intersect Classless : InPlace(h, t)

\* Whatever the order of binds, refused ones included: injectors share the bindings
\* of singletons and no others, each records its own for every other token, and of
\* multi providers as many as it was given, those of other tokens than singletons in
\* order (`createBinding`, `ɵbindProviders`).
BindingsAreShared ==
    /\ SingletonsAgree
    /\ OthersAreSeparate
    /\ MultiInOrder

Grows(s, t) == Len(s) <= Len(t) /\ \A n \in 1..Len(s) : t[n] = s[n]

\* Binding more providers, successfully or not, never takes a binding out of an
\* injector or replaces one.
RecordsGrow ==
    [][\A h \in Holder, t \in Token : Grows(records[h][t], records'[h][t])]_registryVars

\* What an event provides to its handlers is its own: the binding of every token
\* that the constructor of a context injector binds was made for that event.
EventProvidesItsOwn ==
    \A x \in Context, t \in Token :
        \A n \in DOMAIN records[x][t] :
            t \in {TokenOf[p] : p \in {Values[x][m] : m \in DOMAIN Values[x]}
                                  \union {Factories[x][m] : m \in DOMAIN Factories[x]}}
            => records[x][t][n].holder = x
===============================================================================
