--------------------------- MODULE CommandDispatch ---------------------------
(***************************************************************************)
(* What happens to a message between the client and the handler of a       *)
(* command: the message matchers with their prefix caches, `CommandProxy`, *)
(* the lifecycle function of `RouteHandlerFactory` with its filters,       *)
(* guards and pipes, and the exception handler of the router.              *)
(*                                                                         *)
(* Messages are handled concurrently; every await is a step.  They share   *)
(* the cache of the guild-scoped matcher and, per route, the arrays of     *)
(* interceptors that InterceptorsConsumer appends the instances of class   *)
(* interceptors to.                                                        *)
(*                                                                         *)
(* The content of a message is the prefix it begins with, in the           *)
(* capitalization the user typed.  Resolving a prefix is code of the       *)
(* application: it reads the prefix that is set for the guild, and may     *)
(* take its time or throw.                                                 *)
(***************************************************************************)
EXTENDS Naturals, Sequences, Functions

CONSTANTS
    Message,     \* message events
    Guild,       \* guilds; one stands for DEFAULT_SCOPED_CACHE_KEY
    Text,        \* prefixes as they are typed or configured
    Lower,       \* trim().toLowerCase() of a prefix
    Matcher,     \* message matchers, each with a proxy of its own
    Strategy,    \* MatchingStrategy of every matcher
    PrefixList,  \* the prefixes a matcher was made with, in order
    Resolvable,  \* a PrefixResolvable in the place of a literal prefix
    Callbacks,   \* callback filters, guards and pipes of the route
    Classes,     \* filters, guards and pipes of the route that are classes
    Settable,    \* the prefixes that may be set for a guild, Nil for none
    Sent,        \* the messages that may come in
    Nil          \* null

Kind == {"filter", "guard", "pipe"}

ASSUME PrefixAssumption ==
    /\ Lower \in [Text -> Text]
    /\ \A p \in Text : Lower[Lower[p]] = Lower[p]
    /\ Nil \notin Text \union Message \union Matcher \union Kind
    /\ Resolvable \notin Text
    /\ Strategy \in [Matcher -> {"Static", "Scoped", "Dynamic", "Custom"}]
    /\ PrefixList \in [Matcher -> Seq(Text \union {Resolvable})]
    /\ \A r \in Matcher : Strategy[r] # "Scoped" => Resolvable \notin Range(PrefixList[r])

ASSUME InterceptorAssumption ==
    /\ DOMAIN Callbacks = Kind /\ DOMAIN Classes = Kind
    /\ \A k \in Kind : /\ Callbacks[k] \in Seq(Range(Callbacks[k]))
                       /\ Classes[k] \in Seq(Range(Classes[k]))

Interceptor == UNION {Range(Callbacks[k]) \union Range(Classes[k]) : k \in Kind}

\* The members of refuses are the filters and guards that do not let it pass.
Arrival == [guild : Guild, typed : Text \union {Nil}, matcher : Matcher,
            refuses : SUBSET Interceptor]

ASSUME SentAssumption ==
    Sent \subseteq Arrival /\ Settable \in [Guild -> SUBSET (Text \union {Nil})]

------------------------------------------------------------------------------

VARIABLES
    setting,   \* the prefix that is set for every guild, or Nil
    cache,     \* the ScopedPrefixCache of every matcher
    instances, \* the instanceInterceptors of the route, per kind
    pc,        \* how far the handling of every message is
    message,   \* [guild, typed, matcher, refuses]: what came in
    index,     \* the prefix, class or interceptor that is awaited
    answer,    \* the prefix the resolver has read
    matched,   \* the prefixString of the match
    stage,     \* the kind of interceptors that are applied
    callbacks, \* what makeInterceptorCbs has returned
    asked,     \* history: the filters and guards that let a message pass
    ran,       \* history: the guilds with a message that was matched at once
               \* since their prefix was last set
    missed     \* history: the messages that found no prefix in the cache when
               \* they came in

vars == <<setting, cache, instances, pc, message, index, answer, matched, stage,
          callbacks, asked, ran, missed>>

environment == <<setting, ran, missed>>
matching == <<cache, answer, matched>>
handling == <<instances, stage, callbacks, asked>>

Ended == {"ignored", "rejected", "filtered", "logged"}

TypeOK ==
    /\ \A g \in Guild : setting[g] \in Settable[g]
    /\ cache \in [Matcher -> [Guild -> Text \union {Nil}]]
    /\ \A k \in Kind : instances[k] \in Seq(Range(Classes[k]))
    /\ pc \in [Message -> {"idle", "resolve", "resynced", "pipeline", "make", "apply",
                           "catch"} \union Ended]
    /\ message \in [Message -> Sent \union {Nil}]
    /\ index \in [Message -> Nat]
    /\ answer \in [Message -> Text \union {Nil}]
    /\ matched \in [Message -> Text \union {Nil}]
    /\ stage \in [Message -> Kind \union {Nil}]
    /\ \A m \in Message : callbacks[m] \in Seq(Interceptor)
    /\ asked \in [Message -> SUBSET Interceptor]
    /\ ran \subseteq Guild
    /\ missed \subseteq Message

Init ==
    /\ setting \in {f \in [Guild -> Text \union {Nil}] : \A g \in Guild : f[g] \in Settable[g]}
    /\ cache = [r \in Matcher |-> [g \in Guild |-> Nil]]
    /\ instances = [k \in Kind |-> <<>>]
    /\ pc = [m \in Message |-> "idle"]
    /\ message = [m \in Message |-> Nil]
    /\ index = [m \in Message |-> 1]
    /\ answer = [m \in Message |-> Nil]
    /\ matched = [m \in Message |-> Nil]
    /\ stage = [m \in Message |-> Nil]
    /\ callbacks = [m \in Message |-> <<>>]
    /\ asked = [m \in Message |-> {}]
    /\ ran = {}
    /\ missed = {}

\* Somebody sets another prefix for a guild.
ChangeSetting(g, p) ==
    /\ p \in Settable[g] \ {setting[g]}
    /\ setting' = [setting EXCEPT ![g] = p]
    /\ ran' = ran \ {g}
    /\ UNCHANGED <<matching, handling, pc, message, index, missed>>

------------------------------------------------------------------------------
(* Matching a message *)

\* content.indexOf(prefix) === 0, for the normalized content of a message.
Begins(a, p) == a.typed # Nil /\ Lower[a.typed] = p

\* The match result is looked up in the map of handlers, whose keys are routes:
\* there is no handler, and as it has no host there is no exception handler.  Only
\* a custom matcher that returns the route itself gets past this.
Found(m, r, p) ==
    /\ matched' = [matched EXCEPT ![m] = p]
    /\ pc' = [pc EXCEPT ![m] = IF Strategy[r] = "Custom" THEN "pipeline" ELSE "rejected"]

\* Variant: who waits for a match is not told that there is none.
NotToldNotFound(m) == UNCHANGED <<pc, matched>>

NotFound(m) ==
    /\ pc' = [pc EXCEPT ![m] = "ignored"]
    /\ UNCHANGED matched

\* checkContent
CheckContent(m, a, p) == IF Begins(a, p) THEN Found(m, a.matcher, p) ELSE NotFound(m)

\* The static matcher normalizes its prefixes but not the content.
MatchesStatic(a) == \E p \in Range(PrefixList[a.matcher]) : Lower[p] = a.typed

\* Variant: the cache holds one entry for all guilds.
CacheKeyOfMatcher(a) == CHOOSE g \in Guild : TRUE

CacheKey(a) == a.guild

Cached(a) == cache[a.matcher][CacheKey(a)]

Remember(a, p) == cache' = [cache EXCEPT ![a.matcher][CacheKey(a)] = p]

\* The cache has been brought up to date for the message.
EndResync(m) ==
    /\ pc' = [pc EXCEPT ![m] = "resynced"]
    /\ UNCHANGED <<index, answer, matched>>

\* The prefix at i is a literal, which is cached, or a resolver, which is awaited;
\* it reads the setting of the guild now and answers later.  After the last one
\* the cache stays as it is.
ResyncFrom(m, a, i) ==
    IF i > Len(PrefixList[a.matcher])
      THEN EndResync(m) /\ UNCHANGED cache
    ELSE IF PrefixList[a.matcher][i] = Resolvable
      THEN /\ pc' = [pc EXCEPT ![m] = "resolve"]
           /\ index' = [index EXCEPT ![m] = i]
           /\ answer' = [answer EXCEPT ![m] = setting[a.guild]]
           /\ UNCHANGED <<cache, matched>>
    ELSE EndResync(m) /\ Remember(a, PrefixList[a.matcher][i])

\* Variant: a cached prefix is not trusted.
KnownPrefixNever(a) == FALSE

KnownPrefix(a) == Cached(a) # Nil

Match(m, a) ==
    CASE Strategy[a.matcher] = "Static" ->
           /\ IF MatchesStatic(a) THEN Found(m, a.matcher, a.typed) ELSE NotFound(m)
           /\ UNCHANGED <<cache, index, answer>>
      [] Strategy[a.matcher] = "Dynamic" ->
           NotFound(m) /\ UNCHANGED <<cache, index, answer>>
      [] Strategy[a.matcher] = "Custom" ->
           /\ IF a.typed # Nil THEN Found(m, a.matcher, a.typed) ELSE NotFound(m)
           /\ UNCHANGED <<cache, index, answer>>
      [] Strategy[a.matcher] = "Scoped" ->
           IF KnownPrefix(a)
             THEN CheckContent(m, a, Cached(a)) /\ UNCHANGED <<cache, index, answer>>
             ELSE ResyncFrom(m, a, 1)

\* CommandProxy.proxy is called with a message.
Receive(m, a) ==
    /\ pc[m] = "idle"
    /\ message' = [message EXCEPT ![m] = a]
    /\ Match(m, a)
    /\ ran' = IF pc'[m] = "rejected" THEN ran \union {a.guild} ELSE ran
    /\ missed' = IF Strategy[a.matcher] = "Scoped" /\ Cached(a) = Nil
                   THEN missed \union {m} ELSE missed
    /\ UNCHANGED <<setting, handling>>

\* The resolver has answered: the prefix is cached as it is, or the next is tried.
ResolverReturns(m) ==
    LET a == message[m] IN
    /\ pc[m] = "resolve"
    /\ IF answer[m] = Nil
         THEN ResyncFrom(m, a, index[m] + 1)
         ELSE EndResync(m) /\ Remember(a, answer[m])
    /\ UNCHANGED <<environment, message, handling>>

\* The entry is read again: by now another message may have made or replaced it.
MatchResynced(m) ==
    LET a == message[m] IN
    /\ pc[m] = "resynced"
    /\ IF Cached(a) = Nil THEN NotFound(m) ELSE CheckContent(m, a, Cached(a))
    /\ UNCHANGED <<environment, cache, answer, message, index, handling>>

\* The resolver has thrown: the proxy ignores the message.
ResolverThrows(m) ==
    /\ pc[m] = "resolve"
    /\ NotFound(m)
    /\ UNCHANGED <<environment, cache, answer, message, index, handling>>

------------------------------------------------------------------------------
(* Handling a command *)

\* A RuntimeException is to be rethrown with its context by a method that no
\* exception has: whatever was thrown, what the proxy catches is an Error.
Throw(m) == pc' = [pc EXCEPT ![m] = "catch"]

\* makeInterceptorCbs begins to make the class interceptors of a kind.
Enter(m, k) ==
    /\ stage' = [stage EXCEPT ![m] = k]
    /\ index' = [index EXCEPT ![m] = 1]
    /\ pc' = [pc EXCEPT ![m] = "make"]

\* The pipeline and its context injector are made.
PipelineCreated(m) ==
    /\ pc[m] = "pipeline"
    /\ Enter(m, "filter")
    /\ UNCHANGED <<environment, matching, message, instances, callbacks, asked>>

\* The context injector cannot be made or does not resolve the ExecutionContext: the
\* error is thrown outside the try of the lifecycle function, and caught by that of
\* the proxy.
PipelineFails(m) ==
    /\ pc[m] = "pipeline"
    /\ Throw(m)
    /\ UNCHANGED <<environment, matching, message, index, handling>>

\* Variant: the instances are not asked when others were made meanwhile.
AppliedCallbacksOnly(k, made) == Callbacks[k]

\* All callbacks, and all instances the route has by now: those of this message
\* and those that messages before it have left in the array.
Applied(k, made) == Callbacks[k] \o made

\* The router has returned the instance of a class interceptor; after the last one
\* the callbacks are collected.
InterceptorMade(m) ==
    LET k == stage[m]
        made == IF index[m] <= Len(Classes[k])
                  THEN Append(instances[k], Classes[k][index[m]]) ELSE instances[k]
    IN
    /\ pc[m] = "make"
    /\ instances' = [instances EXCEPT ![k] = made]
    /\ IF index[m] < Len(Classes[k])
         THEN /\ index' = [index EXCEPT ![m] = @ + 1]
              /\ UNCHANGED <<pc, callbacks>>
         ELSE /\ index' = [index EXCEPT ![m] = 1]
              /\ callbacks' = [callbacks EXCEPT ![m] = Applied(k, made)]
              /\ pc' = [pc EXCEPT ![m] = "apply"]
    /\ UNCHANGED <<environment, matching, message, stage, asked>>

\* Variant: the pipes are forgotten.
StageAfterWithoutPipes(k) == IF k = "filter" THEN "guard" ELSE "handler"

StageAfter(k) == IF k = "filter" THEN "guard" ELSE "pipe"

\* A filter or guard has let the message pass.
InterceptorPasses(m) ==
    /\ pc[m] = "apply" /\ stage[m] # "pipe"
    /\ index[m] <= Len(callbacks[m])
    /\ callbacks[m][index[m]] \notin message[m].refuses
    /\ asked' = [asked EXCEPT ![m] = @ \union {callbacks[m][index[m]]}]
    /\ index' = [index EXCEPT ![m] = @ + 1]
    /\ UNCHANGED <<environment, matching, pc, message, instances, stage, callbacks>>

\* A filter ends the handling; a guard raises an UnauthorizedException.
Refused(m) ==
    IF stage[m] = "filter" THEN pc' = [pc EXCEPT ![m] = "filtered"] ELSE Throw(m)

InterceptorRefuses(m) ==
    /\ pc[m] = "apply" /\ stage[m] # "pipe"
    /\ index[m] <= Len(callbacks[m])
    /\ callbacks[m][index[m]] \in message[m].refuses
    /\ Refused(m)
    /\ UNCHANGED <<environment, matching, message, index, handling>>

InterceptorThrows(m) ==
    /\ \/ pc[m] = "make" /\ index[m] <= Len(Classes[stage[m]])
       \/ pc[m] = "apply" /\ index[m] <= Len(callbacks[m]) /\ stage[m] # "pipe"
    /\ Throw(m)
    /\ UNCHANGED <<environment, matching, message, index, handling>>

NextStage(m) ==
    /\ pc[m] = "apply" /\ stage[m] # "pipe"
    /\ index[m] > Len(callbacks[m])
    /\ Enter(m, StageAfter(stage[m]))
    /\ UNCHANGED <<environment, matching, message, instances, callbacks, asked>>

\* The pipes are to transform the arguments of the execution context, which has
\* none: reading them throws, and the handler is never reached.
TransformPipes(m) ==
    /\ pc[m] = "apply" /\ stage[m] = "pipe"
    /\ Throw(m)
    /\ UNCHANGED <<environment, matching, message, index, handling>>

\* The exception handler of the router has been resolved; it logs the error.
\* (`handle` is not awaited: what a handler of the application throws there is a
\* rejection nobody sees, and the proxy has ended.)
HandleException(m) ==
    /\ pc[m] = "catch"
    /\ pc' = [pc EXCEPT ![m] = "logged"]
    /\ UNCHANGED <<environment, matching, message, index, handling>>

\* The exception handler cannot be resolved, or one of its hooks throws: there is no
\* try around it, and the error of the command is lost behind that one.
ExceptionHandlerFails(m) ==
    /\ pc[m] = "catch"
    /\ pc' = [pc EXCEPT ![m] = "rejected"]
    /\ UNCHANGED <<environment, matching, message, index, handling>>

------------------------------------------------------------------------------

Proceed(m) ==
    \/ ResolverReturns(m) \/ ResolverThrows(m) \/ MatchResynced(m)
    \/ PipelineCreated(m) \/ PipelineFails(m)
    \/ InterceptorMade(m) \/ InterceptorPasses(m) \/ InterceptorRefuses(m)
    \/ InterceptorThrows(m) \/ NextStage(m)
    \/ TransformPipes(m)
    \/ HandleException(m) \/ ExceptionHandlerFails(m)

Next ==
    \/ \E g \in Guild : \E p \in Settable[g] : ChangeSetting(g, p)
    \/ \E m \in Message : (\E a \in Sent : Receive(m, a)) \/ Proceed(m)

\* Whatever a message waits for, a resolver or an interceptor, answers or throws.
Fairness == \A m \in Message : WF_vars(Proceed(m))

Spec == Init /\ [][Next]_vars /\ Fairness

------------------------------------------------------------------------------
(* Properties *)

\* What a message that found no prefix in the cache may put there when its resolver
\* answers.
Answers(m, r, g) ==
    IF m \in missed /\ pc[m] = "resolve" /\ message[m].matcher = r /\ message[m].guild = g
      THEN {answer[m]} \union (Range(PrefixList[r]) \ {Resolvable})
      ELSE {}

KeepsPrefix(r, g) ==
    cache[r][g] # Nil /\ cache'[r][g] # cache[r][g] =>
        /\ cache'[r][g] # Nil
        /\ \/ cache'[r][g] = setting[g]
           \/ \E m \in Message : cache'[r][g] \in Answers(m, r, g)

\* A cached prefix is never lost.  It is replaced only by the prefix that is set, or
\* by the answer, which may be out of date, to a message that found the cache empty
\* when it came in.  (`MatchingStrategy.Scoped` allows the first, after a command
\* was run; the code does only the second.)
PrefixIsKept ==
    [][\A r \in Matcher, g \in Guild : KeepsPrefix(r, g)]_vars

\* Whatever the order in which resolvers answer, a message is matched with a prefix
\* of its own guild or with a literal of its matcher, never with the prefix of
\* another guild, and it does begin with it.
OwnPrefix ==
    \A m \in Message : matched[m] # Nil /\ Strategy[message[m].matcher] # "Custom" =>
        /\ \/ matched[m] \in Settable[message[m].guild]
           \/ \E p \in Range(PrefixList[message[m].matcher]) \ {Resolvable} :
                matched[m] \in {p, Lower[p]}
        /\ Lower[message[m].typed] = matched[m]

Requested(k) == Range(Callbacks[k]) \union Range(Classes[k])

\* No interleaving of messages that share the arrays of interceptors lets one past
\* a filter or guard: who is at the guards has passed every filter, who is at the
\* pipes every guard too, and only a message a filter refuses is filtered.
NobodyBypasses ==
    \A m \in Message :
        /\ stage[m] \in {"guard", "pipe"} => Requested("filter") \subseteq asked[m]
        /\ stage[m] = "pipe" => Requested("guard") \subseteq asked[m]
        /\ asked[m] # {} => asked[m] \intersect message[m].refuses = {}
        /\ pc[m] = "filtered" => Requested("filter") \intersect message[m].refuses # {}

\* Messages whose prefix is resolved, and whose interceptors run, at the same time do
\* not get into each other's way: each is matched with a prefix of its own guild
\* and passes all its filters and guards (`ScopedPrefixCache`, `applyInterceptors`).
MessagesStayApart ==
    /\ OwnPrefix
    /\ NobodyBypasses

\* A message that was received is ignored, rejected, filtered or ends in the log,
\* whichever resolver or interceptor throws.
EveryMessageEnds == \A m \in Message : pc[m] # "idle" ~> pc[m] \in Ended

\* The scoped cache is updated after a command was run: if a command was run in a
\* guild since its prefix was set, the next one is matched with the prefix that is
\* set.  (Nothing updates an entry once it is made.)
PrefixFollowsSetting ==
    [][\A m \in Message :
         /\ pc[m] = "idle" /\ pc'[m] = "rejected"
         /\ Strategy[message'[m].matcher] = "Scoped"
         /\ message'[m].guild \in ran
         /\ setting[message'[m].guild] # Nil
         => matched'[m] = setting[message'[m].guild]]_vars
===============================================================================
