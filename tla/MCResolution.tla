----------------------------- MODULE MCResolution -----------------------------
(***************************************************************************)
(* A small application for Resolution: a root injector, a module and a     *)
(* component of it, one event, and providers with every shape of           *)
(* dependency that the resolution treats in its own way.                   *)
(***************************************************************************)
EXTENDS Resolution, TLC

\* A dependency without flags, and one with the flags given.
On(p) == [on |-> p, flags |-> {}]

Flagged(p, flags) == [on |-> p, flags |-> flags]

MCInjector == {"root", "mod", "comp"}

MCContext == {"e1"}

MCParent == [root |-> Nil, mod |-> "root", comp |-> "mod"]

MCComponent == {"comp"}

\* The root injector binds no ModuleRef.
MCHost == [root |-> Nil, mod |-> "mod", comp |-> "mod"]

MCContextParent == [e \in MCContext |-> "mod"]

MCLifetime ==
    [leaf |-> "Singleton", trans |-> "Transient", event |-> "Event",
     cycle1 |-> "Singleton", cycle2 |-> "Singleton",
     eager |-> "Singleton", lazy |-> "Singleton",
     opt |-> "Singleton", none |-> "Singleton",
     flagged |-> "Scoped", private |-> "Singleton",
     alias |-> "Singleton", dangling |-> "Singleton", cyclic |-> "Singleton",
     bound |-> "Event", unbound |-> "Event", handler |-> "Event",
     scoped |-> "Scoped", static |-> "Singleton", homeless |-> "Singleton"]

MCProvider == DOMAIN MCLifetime

\* cycle1 and cycle2 depend on each other; eager depends on lazy, which depends on
\* eager in turn, lazily; none has no binding, and dangling is an alias of it;
\* cyclic one of cycle1, which is found in a cycle; handler gets an event provider
\* by its token and by an alias; homeless, of the root injector, asks for a host;
\* scoped reaches an event provider through a singleton.
MCDeps ==
    [cycle1 |-> <<On("cycle2")>>,
     cycle2 |-> <<Flagged("cycle1", {"Optional"}), On("cycle1")>>,
     eager |-> <<On("lazy"), On("leaf")>>,
     lazy |-> <<Flagged("eager", {"Lazy"})>>,
     opt |-> <<On("bound"), Flagged("bound", {"SkipSelf"}),
               Flagged("unbound", {"Optional"})>>,
     flagged |-> <<Flagged("private", {"Host"}), Flagged("trans", {"Self", "Optional"})>>,
     homeless |-> <<Flagged("leaf", {"Host"})>>,
     scoped |-> <<On("static")>>,
     static |-> <<On("event")>>,
     handler |-> <<On("event"), On("alias")>>]
    @@ [p \in MCProvider |-> <<>>]

MCAlias == [alias |-> "event", dangling |-> "none", cyclic |-> "cycle1"]

MCHooked == {"handler"}

MCFallible == {"event"}

MCModuleScoped == {"private"}

MCContextBound == {"bound", "unbound"}

MCRecords ==
    ({"root"} \X {"leaf", "trans", "event", "cycle1", "cycle2", "eager", "lazy",
                  "alias", "dangling", "cyclic", "handler", "scoped", "static",
                  "homeless"})
    \union {<<"mod", "private">>, <<"comp", "flagged">>,
           <<"comp", "opt">>}

MCBoundIn == {<<"e1", "bound">>}

Request(p, i, ctx) == [provider |-> p, injector |-> i, ctx |-> ctx]

MCAsked ==
    {Request("cyclic", "mod", Nil), Request("eager", "mod", Nil),
     Request("opt", "comp", "e1"), Request("flagged", "comp", Nil),
     Request("handler", "mod", "e1"), Request("event", "mod", Nil),
     Request("dangling", "mod", Nil), Request("homeless", "mod", Nil)}

\* Two events, and a provider that is kept across them.
MCEvents == {"e1", "e2"}

MCEventParent == [e \in MCEvents |-> "mod"]

MCAskedInEvents == {Request("scoped", "mod", e) : e \in MCEvents}
===============================================================================
