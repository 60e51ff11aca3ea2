-------------------------------- MODULE Routes --------------------------------
(***************************************************************************)
(* RouteExplorer: the methods of the routers are made into routes, and the *)
(* routes are bound to the proxies that handle events.                     *)
(*                                                                         *)
(* explore is not guarded, so that several calls may explore the same      *)
(* routers with the same explorer; they interleave where they await the    *)
(* handler of a route.  A call goes through the routers one by one, and in *)
(* a router through its commands, its application commands, its events and *)
(* its sub-commands.                                                       *)
(*                                                                         *)
(* A route is the method it is made of and the call that made it.          *)
(***************************************************************************)
EXTENDS Naturals, Sequences, SequencesExt

CONSTANTS
    Router,   \* RouterRefs
    Method,   \* methods of routers that are decorated as routes
    KindOf,   \* how a method is decorated
    Parent,   \* the method a sub-command names as its parent, or Nil
    Layouts,  \* the applications: sequences of [router, methods]
    Call,     \* calls of explore
    Nil       \* undefined

ASSUME LayoutAssumption ==
    /\ Nil \notin Method \union Call \union (Method \X Call)
    /\ Nil \notin Method \X ((Method \X Call) \union {Nil})
    /\ Nil \notin {"ApplicationCommandProxy", "EventProxy"}
    /\ KindOf \in [Method -> {"command", "application", "event", "sub"}]
    /\ Parent \in [Method -> Method \union {Nil}]
    /\ Layouts \subseteq Seq([router : Router, methods : Seq(Method)])

Route == Method \X Call

------------------------------------------------------------------------------

VARIABLES
    routers,   \* what the ModuleContainer has: the routers, in order
    status,    \* how far every call is
    at,        \* the router a call maps
    todo,      \* the methods of it that are to be bound, in order
    subs,      \* its sub-commands that are to be bound
    binding,   \* the method whose handler is awaited and the parent of its route
    appRoutes, \* applicationCommandRoutes: the last route of a method
    proxy,     \* _eventProxies.get(INTERACTION_CREATE)
    handlers,  \* handlers of that proxy
    routes,    \* routes of the RouterRefs: the last route of a method
    children   \* the routes whose map of sub-commands was made

vars == <<routers, status, at, todo, subs, binding, appRoutes, proxy, handlers, routes,
          children>>

TypeOK ==
    /\ routers \in Seq([router : Router, methods : Seq(Method)])
    /\ status \in [Call -> {"idle", "exploring", "spinning", "done", "failed"}]
    /\ at \in [Call -> 0 .. Len(routers) + 1]
    /\ todo \in [Call -> Seq(Method)]
    /\ subs \in [Call -> Seq(Method)]
    /\ binding \in [Call -> (Method \X (Route \union {Nil})) \union {Nil}]
    /\ appRoutes \in [Method -> Route \union {Nil}]
    /\ proxy \in {Nil, "ApplicationCommandProxy", "EventProxy"}
    /\ handlers \subseteq Route
    /\ routes \in [Method -> Route \union {Nil}]
    /\ children \subseteq Route

Init ==
    /\ routers \in Layouts
    /\ status = [c \in Call |-> "idle"]
    /\ at = [c \in Call |-> 0]
    /\ todo = [c \in Call |-> <<>>]
    /\ subs = [c \in Call |-> <<>>]
    /\ binding = [c \in Call |-> Nil]
    /\ appRoutes = [m \in Method |-> Nil]
    /\ proxy = Nil
    /\ handlers = {}
    /\ routes = [m \in Method |-> Nil]
    /\ children = {}

bound == <<proxy, handlers, routes, children>>

\* The methods of a router that are decorated as k, in their order.
OfKind(r, k) ==
    LET upTo[i \in 0 .. Len(r.methods)] ==
            IF i = 0 THEN <<>>
            ELSE IF KindOf[r.methods[i]] = k THEN Append(upTo[i - 1], r.methods[i])
            ELSE upTo[i - 1]
    IN  upTo[Len(r.methods)]

\* Variant: the events are forgotten.
PlannedWithoutEvents(r) == OfKind(r, "command") \o OfKind(r, "application")

\* The methods that are bound before the sub-commands, in the order of their binding.
Planned(r) == OfKind(r, "command") \o OfKind(r, "application") \o OfKind(r, "event")

\* The process is busy for ever when the while loop of a call never ends.
Spinning == \E c \in Call : status[c] = "spinning"

Running(c) == ~Spinning /\ status[c] = "exploring" /\ binding[c] = Nil

\* Variant: the first router is skipped.
MapRouterAfterNext(c, i) ==
    /\ at' = [at EXCEPT ![c] = i + 1]
    /\ todo' = [todo EXCEPT ![c] = IF i < Len(routers) THEN Planned(routers[i + 1]) ELSE <<>>]
    /\ subs' = [subs EXCEPT ![c] =
                    IF i < Len(routers) THEN OfKind(routers[i + 1], "sub") ELSE <<>>]

\* _mapRoutesOfRouter reflects on the methods of the i-th router.
MapRouter(c, i) ==
    /\ at' = [at EXCEPT ![c] = i]
    /\ todo' = [todo EXCEPT ![c] = IF i <= Len(routers) THEN Planned(routers[i]) ELSE <<>>]
    /\ subs' = [subs EXCEPT ![c] =
                    IF i <= Len(routers) THEN OfKind(routers[i], "sub") ELSE <<>>]

Explore(c) ==
    /\ ~Spinning /\ status[c] = "idle"
    /\ status' = [status EXCEPT ![c] = "exploring"]
    /\ MapRouter(c, 1)
    /\ UNCHANGED <<routers, binding, appRoutes, bound>>

NextRouter(c) ==
    /\ Running(c) /\ todo[c] = <<>> /\ subs[c] = <<>>
    /\ IF at[c] > Len(routers)
         THEN /\ status' = [status EXCEPT ![c] = "done"]
              /\ UNCHANGED <<at, todo, subs>>
         ELSE /\ MapRouter(c, at[c] + 1)
              /\ UNCHANGED status
    /\ UNCHANGED <<routers, binding, appRoutes, bound>>

Fail(c) == status' = [status EXCEPT ![c] = "failed"]

\* Variant: the command is tried over and over.
RetryCommandRoute(c) ==
    /\ Running(c) /\ todo[c] # <<>> /\ KindOf[Head(todo[c])] = "command"
    /\ UNCHANGED vars

\* The configuration of a command reads the type of its host before the route has
\* one: no route is ever made of a command.
NewCommandRoute(c) ==
    /\ Running(c) /\ todo[c] # <<>> /\ KindOf[Head(todo[c])] = "command"
    /\ Fail(c)
    /\ UNCHANGED <<routers, at, todo, subs, binding, appRoutes, bound>>

\* A route was made; its handler is awaited.
MakeApplicationRoute(c, m, parent) ==
    /\ appRoutes' = [appRoutes EXCEPT ![m] = <<m, c>>]
    /\ binding' = [binding EXCEPT ![c] = <<m, parent>>]

NewApplicationRoute(c) ==
    /\ Running(c) /\ todo[c] # <<>> /\ KindOf[Head(todo[c])] = "application"
    /\ MakeApplicationRoute(c, Head(todo[c]), Nil)
    /\ todo' = [todo EXCEPT ![c] = Tail(@)]
    /\ UNCHANGED <<routers, status, at, subs, bound>>

NewEventRoute(c) ==
    /\ Running(c) /\ todo[c] # <<>> /\ KindOf[Head(todo[c])] = "event"
    /\ binding' = [binding EXCEPT ![c] = <<Head(todo[c]), Nil>>]
    /\ todo' = [todo EXCEPT ![c] = Tail(@)]
    /\ UNCHANGED <<routers, status, at, subs, appRoutes, bound>>

\* Variant: the parent of a sub-command is looked for among the commands only.
ParentCommandRef(m) == Nil

\* The route of the parent of a sub-command, which only application commands have.
ParentRef(m) == IF Parent[m] = Nil THEN Nil ELSE appRoutes[Parent[m]]

\* The while loop shifts the sub-commands whose parent is not known to the end and
\* takes the first whose parent is.
NewSubCommandRoute(c) ==
    /\ Running(c) /\ todo[c] = <<>>
    /\ \E i \in DOMAIN subs[c] :
         /\ ParentRef(subs[c][i]) # Nil
         /\ \A j \in 1 .. i - 1 : ParentRef(subs[c][j]) = Nil
         /\ MakeApplicationRoute(c, subs[c][i], ParentRef(subs[c][i]))
         /\ subs' = [subs EXCEPT ![c] = SubSeq(@, i + 1, Len(@)) \o SubSeq(@, 1, i - 1)]
    /\ UNCHANGED <<routers, status, at, todo, bound>>

\* When no parent is known it shifts them for ever, and never awaits.
SpinOnOrphans(c) ==
    /\ Running(c) /\ todo[c] = <<>> /\ subs[c] # <<>>
    /\ \A i \in DOMAIN subs[c] : ParentRef(subs[c][i]) = Nil
    /\ status' = [status EXCEPT ![c] = "spinning"]
    /\ UNCHANGED <<routers, at, todo, subs, binding, appRoutes, bound>>

\* Whoever is first makes the proxy that all routes but commands share.
MadeProxy(p) == IF proxy = Nil THEN p ELSE proxy

\* Variant: a handler is set for the method, however often it is explored.
BindRouteOnce(m, c, p) ==
    /\ routes' = [routes EXCEPT ![m] = <<m, c>>]
    /\ handlers' = {r \in handlers : r[1] # m} \union {<<m, c>>}

\* Variant: what the router knows already is not bound.
BindRouteIfNew(m, c, p) ==
    /\ routes' = [routes EXCEPT ![m] = <<m, c>>]
    /\ handlers' = IF p = "EventProxy" \/ routes[m] # Nil
                     THEN handlers ELSE handlers \union {<<m, c>>}

\* _bindRoute: the router knows the route before the proxy handles it; bind of
\* EventProxy is not implemented and throws.
BindRoute(m, c, p) ==
    /\ routes' = [routes EXCEPT ![m] = <<m, c>>]
    /\ handlers' = IF p = "EventProxy" THEN handlers ELSE handlers \union {<<m, c>>}

\* The handler of the route is there; what follows is not interrupted.  A
\* sub-command is bound before its name is read, which no application command has.
Bind(c) ==
    /\ ~Spinning /\ binding[c] # Nil
    /\ LET m == binding[c][1]
           p == MadeProxy(IF KindOf[m] = "event" THEN "EventProxy"
                                                 ELSE "ApplicationCommandProxy")
       IN
       /\ proxy' = p
       /\ BindRoute(m, c, p)
       /\ IF p = "EventProxy" \/ KindOf[m] = "sub" THEN Fail(c) ELSE UNCHANGED status
       /\ children' = IF p # "EventProxy" /\ KindOf[m] = "sub"
                        THEN children \union {binding[c][2]} ELSE children
    /\ binding' = [binding EXCEPT ![c] = Nil]
    /\ UNCHANGED <<routers, at, todo, subs, appRoutes>>

Step(c) ==
    \/ NextRouter(c)
    \/ NewCommandRoute(c) \/ NewApplicationRoute(c) \/ NewEventRoute(c)
    \/ NewSubCommandRoute(c) \/ SpinOnOrphans(c)
    \/ Bind(c)

Next == \E c \in Call : Explore(c) \/ Step(c)

\* Promises that are resolved already: a call that awaits is resumed.
Spec == Init /\ [][Next]_vars /\ \A c \in Call : WF_vars(Step(c))

------------------------------------------------------------------------------
(* Properties *)

\* The methods of the routers a call has come to.
Seen(c, k) ==
    UNION {ToSet(OfKind(routers[i], k)) : i \in {j \in DOMAIN routers : j <= at[c]}}

\* An exploration that completes has bound every route of every router, so that
\* there was no command and no sub-command, and no event of a router before the
\* first application command: each of those makes it fail.  A second exploration
\* binds every route once more.
CompletedIsWhole ==
    \A c \in Call : status[c] = "done" =>
        /\ \A k \in {"application", "event"} : \A m \in Seen(c, k) : <<m, c>> \in handlers
        /\ Seen(c, "command") \union Seen(c, "sub") = {}

\* The route a router has for a method is handled by the proxy, unless it is an
\* event whose binding has failed: then the exploration has failed with it.
KnownRoutesAreHandled ==
    \A m \in Method : routes[m] # Nil =>
        \/ routes[m] \in handlers
        \/ KindOf[m] = "event" /\ status[routes[m][2]] = "failed"

\* A call spins only on sub-commands whose parent is no application command of the
\* routers up to theirs, however many calls explore: the parents are bound first.
OnlyOrphansSpin ==
    \A c \in Call : status[c] = "spinning" =>
        \A i \in DOMAIN subs[c] : Parent[subs[c][i]] \notin Seen(c, "application")

\* How an exploration ends tells what it has bound (`explore`, `_mapRoutesOfRouter`): all of
\* it when it completes, what the router knows when it fails, and everything but a
\* sub-command without a parent when it spins.
EndsAsBound ==
    /\ CompletedIsWhole
    /\ KnownRoutesAreHandled
    /\ OnlyOrphansSpin

\* Nothing that was bound is taken back, neither when the exploration fails half
\* way nor by another one: the proxy stays and so do its handlers.
NothingIsUndone ==
    [][/\ proxy # Nil => proxy' = proxy
       /\ handlers \subseteq handlers' /\ children \subseteq children'
       /\ \A m \in Method : routes[m] # Nil => routes'[m] # Nil]_vars

\* An exploration that was begun completes or fails, unless the process spins.
ExplorationEnds ==
    \A c \in Call :
        status[c] = "exploring" ~> (status[c] \in {"done", "failed"} \/ Spinning)
===============================================================================
