------------------------- MODULE CommandDispatchProofs -------------------------
(***************************************************************************)
(* What the run of CommandDispatch checks for two messages, proved for any *)
(* number of messages, guilds, matchers and interceptors.                  *)
(***************************************************************************)
EXTENDS CommandDispatch, TLAPS

\* A prefix that the guild g or the matcher r has itself.
OwnText(r, g, p) == p \in Settable[g] \/ p \in Range(PrefixList[r]) \ {Resolvable}

\* The functions whose types the type invariant gives pointwise are total.
TotalInv ==
    /\ DOMAIN setting = Guild /\ DOMAIN instances = Kind
    /\ DOMAIN callbacks = Message

\* What a message knows of itself, by how far it is.
StateOf(m) ==
    /\ pc[m] # "idle" => message[m] \in Sent
    /\ index[m] >= 1
    /\ pc[m] \in {"idle", "resolve", "resynced"} => matched[m] = Nil
    /\ pc[m] \in {"resolve", "resynced"} => Strategy[message[m].matcher] = "Scoped"
    /\ pc[m] = "resolve" => answer[m] \in Settable[message[m].guild] /\ m \in missed
    /\ pc[m] \in {"make", "apply"} => stage[m] \in Kind
    /\ pc[m] \in {"idle", "resolve", "resynced", "pipeline"} =>
          stage[m] = Nil /\ asked[m] = {}

\* Only scoped matchers cache, and what is cached for a guild is its own.
CacheInv ==
    \A r \in Matcher, g \in Guild :
        cache[r][g] # Nil => Strategy[r] = "Scoped" /\ OwnText(r, g, cache[r][g])

\* OwnPrefix of one message.
OwnOf(m) ==
    matched[m] # Nil /\ Strategy[message[m].matcher] # "Custom" =>
        /\ \/ matched[m] \in Settable[message[m].guild]
           \/ \E p \in Range(PrefixList[message[m].matcher]) \ {Resolvable} :
                matched[m] \in {p, Lower[p]}
        /\ Lower[message[m].typed] = matched[m]

\* The interceptors of a stage: those made are in the array of the route, those
\* collected are the requested ones, and those that were called let the message
\* pass.
StageOf(m) ==
    /\ pc[m] = "make" =>
          \A j \in 1 .. Len(Classes[stage[m]]) :
             j < index[m] => Classes[stage[m]][j] \in Range(instances[stage[m]])
    /\ pc[m] = "apply" =>
          /\ Range(callbacks[m]) = Requested(stage[m])
          /\ \A j \in 1 .. Len(callbacks[m]) :
                j < index[m] /\ stage[m] # "pipe" => callbacks[m][j] \in asked[m]

\* NobodyBypasses of one message.
PassedOf(m) ==
    /\ stage[m] \in {"guard", "pipe"} => Requested("filter") \subseteq asked[m]
    /\ stage[m] = "pipe" => Requested("guard") \subseteq asked[m]
    /\ asked[m] # {} => asked[m] \intersect message[m].refuses = {}
    /\ pc[m] = "filtered" => Requested("filter") \intersect message[m].refuses # {}

MessagesInv ==
    \A m \in Message : StateOf(m) /\ OwnOf(m) /\ StageOf(m) /\ PassedOf(m)

IInv ==
    /\ TypeOK
    /\ TotalInv
    /\ CacheInv
    /\ MessagesInv

\* It says of every message what the property of the run says.
LEMMA Implied == IInv => TypeOK /\ MessagesStayApart
  <1>1. IInv => OwnPrefix
    BY DEF IInv, MessagesInv, OwnOf, OwnPrefix
  <1>2. IInv => NobodyBypasses
    BY DEF IInv, MessagesInv, PassedOf, NobodyBypasses
  <1> QED
    BY <1>1, <1>2 DEF IInv, MessagesStayApart

------------------------------------------------------------------------------

\* What the constants are.
LEMMA Constants ==
  /\ \A a \in Sent : /\ a.guild \in Guild /\ a.matcher \in Matcher
                     /\ a.typed \in Text \union {Nil}
                     /\ a.refuses \subseteq Interceptor
  /\ \A g \in Guild : Settable[g] \subseteq Text \union {Nil}
  /\ \A p \in Text : Lower[p] \in Text /\ Lower[Lower[p]] = Lower[p]
  /\ Nil \notin Text \union Kind /\ Resolvable \notin Text
  /\ \A k \in Kind : /\ Classes[k] \in Seq(Range(Classes[k]))
                     /\ Callbacks[k] \in Seq(Range(Callbacks[k]))
                     /\ Range(Classes[k]) \subseteq Interceptor
                     /\ Range(Callbacks[k]) \subseteq Interceptor
  <1>1. \A a \in Sent : /\ a.guild \in Guild /\ a.matcher \in Matcher
                        /\ a.typed \in Text \union {Nil}
                        /\ a.refuses \subseteq Interceptor
    BY SentAssumption DEF Arrival
  <1>2. \A g \in Guild : Settable[g] \subseteq Text \union {Nil}
    BY SentAssumption
  <1>3. /\ \A p \in Text : Lower[p] \in Text /\ Lower[Lower[p]] = Lower[p]
        /\ Nil \notin Text \union Kind /\ Resolvable \notin Text
    BY PrefixAssumption
  <1>4. ASSUME NEW k \in Kind
        PROVE  /\ Classes[k] \in Seq(Range(Classes[k]))
               /\ Callbacks[k] \in Seq(Range(Callbacks[k]))
               /\ Range(Classes[k]) \subseteq Interceptor
               /\ Range(Callbacks[k]) \subseteq Interceptor
    BY InterceptorAssumption DEF Interceptor
  <1> QED
    BY <1>1, <1>2, <1>3, <1>4

\* The prefixes of a matcher, and what is left of one that is not Resolvable.
LEMMA Prefixes ==
  ASSUME NEW r \in Matcher
  PROVE  /\ Strategy[r] \in {"Static", "Scoped", "Dynamic", "Custom"}
         /\ \A i \in 1 .. Len(PrefixList[r]) :
               /\ PrefixList[r][i] \in Text \union {Resolvable}
               /\ PrefixList[r][i] \in Range(PrefixList[r])
         /\ \A p \in Range(PrefixList[r]) : p \in Text \union {Resolvable}
         /\ Strategy[r] # "Scoped" => Resolvable \notin Range(PrefixList[r])
  <1>1. PrefixList[r] \in Seq(Text \union {Resolvable})
    BY PrefixAssumption
  <1>2. DOMAIN PrefixList[r] = 1 .. Len(PrefixList[r])
    BY <1>1
  <1>3. ASSUME NEW i \in 1 .. Len(PrefixList[r])
        PROVE  /\ PrefixList[r][i] \in Text \union {Resolvable}
               /\ PrefixList[r][i] \in Range(PrefixList[r])
    BY <1>1, <1>2 DEF Range
  <1>4. ASSUME NEW p \in Range(PrefixList[r])
        PROVE  p \in Text \union {Resolvable}
    BY <1>1, <1>2 DEF Range
  <1>5. /\ Strategy[r] \in {"Static", "Scoped", "Dynamic", "Custom"}
        /\ Strategy[r] # "Scoped" => Resolvable \notin Range(PrefixList[r])
    BY PrefixAssumption
  <1> QED
    BY <1>3, <1>4, <1>5

\* In the beginning nothing has come in.
LEMMA IInvInit == Init => IInv
  <1> SUFFICES ASSUME Init PROVE IInv
    OBVIOUS
  <1>1. TypeOK
    BY Constants DEF Init, TypeOK
  <1>2. TotalInv /\ CacheInv
    BY Constants DEF Init, TotalInv, CacheInv
  <1>3. ASSUME NEW m \in Message
        PROVE  StateOf(m) /\ OwnOf(m) /\ StageOf(m) /\ PassedOf(m)
    BY Constants DEF Init, StateOf, OwnOf, StageOf, PassedOf, Kind
  <1> QED
    BY <1>1, <1>2, <1>3 DEF IInv, MessagesInv

------------------------------------------------------------------------------
(* Matching *)

\* p may be what the message a is matched with.
Matches(a, p) ==
    /\ p \in Text
    /\ Strategy[a.matcher] # "Custom" =>
          /\ \/ p \in Settable[a.guild]
             \/ \E q \in Range(PrefixList[a.matcher]) \ {Resolvable} : p \in {q, Lower[q]}
          /\ Lower[a.typed] = p

\* What matching the message m, or going on with it, may lead to.
Outcome(m, a) ==
    /\ \/ NotFound(m)
       \/ \E p : Matches(a, p) /\ Found(m, a.matcher, p)
       \/ /\ pc' = [pc EXCEPT ![m] = "resolve"]
          /\ matched' = matched
          /\ answer' = [answer EXCEPT ![m] = setting[a.guild]]
          /\ Strategy[a.matcher] = "Scoped"
       \/ /\ pc' = [pc EXCEPT ![m] = "resynced"]
          /\ matched' = matched
          /\ Strategy[a.matcher] = "Scoped"
    /\ answer' \in {answer, [answer EXCEPT ![m] = setting[a.guild]]}
    /\ \E i \in Nat \ {0} : index' \in {index, [index EXCEPT ![m] = i]}
    /\ \/ cache' = cache
       \/ \E p \in Text : /\ Strategy[a.matcher] = "Scoped"
                          /\ OwnText(a.matcher, a.guild, p)
                          /\ cache' = [cache EXCEPT ![a.matcher][a.guild] = p]

\* A prefix that is the guild's, or the matcher's, own is compared to the content.
LEMMA CheckContentOutcome ==
  ASSUME IInv, NEW m \in Message, NEW a \in Sent, NEW p \in Text,
         OwnText(a.matcher, a.guild, p), CheckContent(m, a, p)
  PROVE  NotFound(m) \/ \E q : Matches(a, q) /\ Found(m, a.matcher, q)
  BY Constants DEF CheckContent, Begins, Matches, OwnText

LEMMA ResyncOutcome ==
  ASSUME IInv, NEW m \in Message, NEW a \in Sent, NEW i \in Nat \ {0},
         Strategy[a.matcher] = "Scoped", ResyncFrom(m, a, i)
  PROVE  Outcome(m, a)
  <1>0. /\ cache \in [Matcher -> [Guild -> Text \union {Nil}]] /\ CacheInv
        /\ a.matcher \in Matcher /\ a.guild \in Guild
    BY Constants DEF IInv, TypeOK
  <1>1. CASE i > Len(PrefixList[a.matcher])
    BY <1>1 DEF ResyncFrom, EndResync, Outcome
  <1>2. CASE ~(i > Len(PrefixList[a.matcher]))
    <2> DEFINE p == PrefixList[a.matcher][i]
    <2>1. p \in Range(PrefixList[a.matcher]) /\ p \in Text \union {Resolvable}
      <3>1. Len(PrefixList[a.matcher]) \in Nat
        BY <1>0, PrefixAssumption
      <3> QED
        BY <1>0, <1>2, <3>1, Prefixes
    <2>2. CASE p = Resolvable
      BY <1>2, <2>2 DEF ResyncFrom, Outcome
    <2>3. CASE p # Resolvable
      <3>1. OwnText(a.matcher, a.guild, p) /\ p \in Text
        BY <2>1, <2>3 DEF OwnText
      <3>2. Remember(a, p) /\ EndResync(m)
        BY <1>2, <2>3 DEF ResyncFrom
      <3> QED
        BY <3>1, <3>2 DEF Outcome, EndResync, Remember, CacheKey
    <2> QED
      BY <2>2, <2>3
  <1> QED
    BY <1>1, <1>2

LEMMA MatchOutcome ==
  ASSUME IInv, NEW m \in Message, NEW a \in Sent, Match(m, a)
  PROVE  Outcome(m, a)
  <1>0. /\ cache \in [Matcher -> [Guild -> Text \union {Nil}]] /\ CacheInv
        /\ a.matcher \in Matcher /\ a.guild \in Guild /\ a.typed \in Text \union {Nil}
    BY Constants DEF IInv, TypeOK
  <1>1. CASE Strategy[a.matcher] = "Static"
    <2>1. ASSUME MatchesStatic(a) PROVE Matches(a, a.typed)
      <3>1. PICK p \in Range(PrefixList[a.matcher]) : Lower[p] = a.typed
        BY <2>1 DEF MatchesStatic
      <3>2. p \in Text /\ p # Resolvable
        BY <1>0, <1>1, <3>1, Prefixes
      <3> QED
        BY <3>1, <3>2, Constants DEF Matches
    <2>2. /\ NotFound(m) \/ (MatchesStatic(a) /\ Found(m, a.matcher, a.typed))
          /\ UNCHANGED <<cache, index, answer>>
      BY <1>1 DEF Match
    <2> QED
      BY <2>1, <2>2 DEF Outcome
  <1>2. CASE Strategy[a.matcher] = "Dynamic"
    BY <1>2 DEF Match, Outcome
  <1>3. CASE Strategy[a.matcher] = "Custom"
    <2>1. a.typed # Nil => Matches(a, a.typed)
      BY <1>0, <1>3 DEF Matches
    <2>2. /\ NotFound(m) \/ (a.typed # Nil /\ Found(m, a.matcher, a.typed))
          /\ UNCHANGED <<cache, index, answer>>
      BY <1>3 DEF Match
    <2> QED
      BY <2>1, <2>2 DEF Outcome
  <1>4. CASE Strategy[a.matcher] = "Scoped"
    <2>1. CASE KnownPrefix(a)
      <3>1. Cached(a) \in Text /\ OwnText(a.matcher, a.guild, Cached(a))
        BY <1>0, <2>1 DEF CacheInv, Cached, CacheKey, KnownPrefix
      <3>2. CheckContent(m, a, Cached(a)) /\ UNCHANGED <<cache, index, answer>>
        BY <1>4, <2>1 DEF Match
      <3> QED
        BY <3>1, <3>2, CheckContentOutcome DEF Outcome
    <2>2. CASE ~KnownPrefix(a)
      <3>1. ResyncFrom(m, a, 1)
        BY <1>4, <2>2 DEF Match
      <3> QED
        BY <1>4, <3>1, ResyncOutcome
    <2> QED
      BY <2>1, <2>2
  <1> QED
    BY <1>0, <1>1, <1>2, <1>3, <1>4, Prefixes

------------------------------------------------------------------------------
(* Steps *)

\* A step leaves the handling of the message d alone.
Untouched(d) ==
    /\ pc'[d] = pc[d] /\ message'[d] = message[d] /\ index'[d] = index[d]
    /\ answer'[d] = answer[d] /\ matched'[d] = matched[d] /\ stage'[d] = stage[d]
    /\ callbacks'[d] = callbacks[d] /\ asked'[d] = asked[d]

\* A step of one message does not disturb what the others know: the arrays of the
\* route only grow.
LEMMA OneMessage ==
  ASSUME IInv, NEW m \in Message,
         TypeOK', TotalInv', CacheInv',
         StateOf(m)', OwnOf(m)', StageOf(m)', PassedOf(m)',
         \A d \in Message \ {m} : Untouched(d), missed \subseteq missed',
         \A k \in Kind : Range(instances[k]) \subseteq Range(instances'[k])
  PROVE  IInv'
  <1>1. ASSUME NEW d \in Message, d # m
        PROVE  StateOf(d)' /\ OwnOf(d)' /\ StageOf(d)' /\ PassedOf(d)'
    <2>1. StateOf(d) /\ OwnOf(d) /\ StageOf(d) /\ PassedOf(d) /\ Untouched(d)
      BY <1>1 DEF IInv, MessagesInv
    <2>2. StateOf(d)'
      BY <2>1 DEF StateOf, Untouched
    <2>3. OwnOf(d)'
      BY <2>1 DEF OwnOf, Untouched
    <2>4. StageOf(d)'
      <3>1. pc'[d] \in {"make", "apply"} => stage[d] \in Kind
        BY <2>1 DEF StateOf, Untouched
      <3> QED
        BY <2>1, <3>1 DEF StageOf, Untouched, Requested
    <2>5. PassedOf(d)'
      BY <2>1 DEF PassedOf, Untouched, Requested
    <2> QED
      BY <2>2, <2>3, <2>4, <2>5
  <1>2. MessagesInv'
    BY <1>1 DEF MessagesInv
  <1> QED
    BY <1>2 DEF IInv

\* A prefix is set.
LEMMA SettingStep ==
  ASSUME IInv, NEW g \in Guild, NEW p \in Settable[g], ChangeSetting(g, p)
  PROVE  IInv'
  <1>1. UNCHANGED <<matching, handling, pc, message, index, missed>>
    BY DEF ChangeSetting
  <1>2. TypeOK' /\ TotalInv'
    BY DEF IInv, TypeOK, TotalInv, ChangeSetting, matching, handling
  <1>3. CacheInv'
    BY <1>1 DEF IInv, CacheInv, matching
  <1>4. MessagesInv'
    BY <1>1 DEF IInv, MessagesInv, StateOf, OwnOf, StageOf, PassedOf, Requested,
                matching, handling
  <1> QED
    BY <1>2, <1>3, <1>4 DEF IInv

\* The interceptors of a message are to be made.
LEMMA PipelineStep ==
  ASSUME IInv, NEW m \in Message, PipelineCreated(m)
  PROVE  IInv'
  <1>0. /\ TypeOK /\ TotalInv /\ CacheInv
        /\ StateOf(m) /\ OwnOf(m) /\ StageOf(m) /\ PassedOf(m)
    BY DEF IInv, MessagesInv
  <1>1. /\ pc[m] = "pipeline" /\ pc'[m] = "make" /\ stage'[m] = "filter"
        /\ index'[m] = 1 /\ asked'[m] = asked[m]
        /\ \A d \in Message \ {m} : Untouched(d)
        /\ UNCHANGED <<setting, ran, missed, cache, answer, matched, message, instances, callbacks, asked>>
    BY <1>0 DEF TypeOK, PipelineCreated, Enter, Untouched, environment, matching
  <1>2. TypeOK' /\ TotalInv'
    BY <1>0, <1>1 DEF TypeOK, TotalInv, PipelineCreated, Enter, Kind
  <1>3. CacheInv'
    BY <1>0, <1>1 DEF CacheInv
  <1>4. StateOf(m)'
    BY <1>0, <1>1 DEF StateOf, Kind
  <1>5. OwnOf(m)'
    BY <1>0, <1>1 DEF OwnOf
  <1>6. StageOf(m)'
    BY <1>1 DEF StageOf
  <1>7. PassedOf(m)'
    BY <1>0, <1>1 DEF PassedOf, StateOf
  <1> QED
    BY <1>1, <1>2, <1>3, <1>4, <1>5, <1>6, <1>7, OneMessage

\* An interceptor lets a message pass.
LEMMA PassesStep ==
  ASSUME IInv, NEW m \in Message, InterceptorPasses(m)
  PROVE  IInv'
  <1>0. /\ TypeOK /\ TotalInv /\ CacheInv
        /\ StateOf(m) /\ OwnOf(m) /\ StageOf(m) /\ PassedOf(m)
    BY DEF IInv, MessagesInv
  <1> DEFINE cb == callbacks[m][index[m]]
  <1>1. /\ pc[m] = "apply" /\ stage[m] # "pipe" /\ stage[m] \in Kind
        /\ index[m] \in 1 .. Len(callbacks[m]) /\ index'[m] = index[m] + 1
        /\ cb \notin message[m].refuses
        /\ asked'[m] = asked[m] \union {cb}
        /\ \A d \in Message \ {m} : Untouched(d)
        /\ UNCHANGED <<setting, ran, missed, cache, answer, matched, pc, message, instances, stage,
                       callbacks>>
    BY <1>0 DEF TypeOK, StateOf, InterceptorPasses, Untouched, environment, matching
  <1>2. cb \in Interceptor
    BY <1>0, <1>1 DEF TypeOK
  <1>3. TypeOK' /\ TotalInv'
    BY <1>0, <1>1, <1>2 DEF TypeOK, TotalInv, InterceptorPasses
  <1>4. CacheInv'
    BY <1>0, <1>1 DEF CacheInv
  <1>5. StateOf(m)'
    BY <1>0, <1>1 DEF StateOf
  <1>6. OwnOf(m)'
    BY <1>0, <1>1 DEF OwnOf
  <1>7. StageOf(m)'
    <2>1. Range(callbacks[m]) = Requested(stage[m])
      BY <1>0, <1>1 DEF StageOf
    <2>2. ASSUME NEW j \in 1 .. Len(callbacks[m]), j < index[m] + 1
          PROVE  callbacks[m][j] \in asked'[m]
      <3>1. j < index[m] \/ j = index[m]
        BY <1>1, <2>2
      <3> QED
        BY <1>0, <1>1, <3>1 DEF StageOf
    <2> QED
      BY <1>1, <2>1, <2>2 DEF StageOf, Requested
  <1>8. PassedOf(m)'
    BY <1>0, <1>1 DEF PassedOf, Requested
  <1> QED
    BY <1>1, <1>3, <1>4, <1>5, <1>6, <1>7, <1>8, OneMessage

\* An interceptor refuses a message.
LEMMA RefusesStep ==
  ASSUME IInv, NEW m \in Message, InterceptorRefuses(m)
  PROVE  IInv'
  <1>0. /\ TypeOK /\ TotalInv /\ CacheInv
        /\ StateOf(m) /\ OwnOf(m) /\ StageOf(m) /\ PassedOf(m)
    BY DEF IInv, MessagesInv
  <1>1. /\ pc[m] = "apply" /\ stage[m] # "pipe"
        /\ pc'[m] \in {"filtered", "catch"}
        /\ pc'[m] = "filtered" => stage[m] = "filter"
        /\ index[m] \in 1 .. Len(callbacks[m])
        /\ callbacks[m][index[m]] \in message[m].refuses
        /\ \A d \in Message \ {m} : Untouched(d)
        /\ UNCHANGED <<setting, ran, missed, cache, answer, matched, message, index, instances, stage,
                       callbacks, asked>>
    BY <1>0 DEF TypeOK, StateOf, InterceptorRefuses, Refused, Throw, Untouched,
                environment, matching, handling
  <1>2. TypeOK' /\ TotalInv'
    BY <1>0, <1>1 DEF TypeOK, TotalInv, InterceptorRefuses, Refused, Throw, Ended
  <1>3. CacheInv'
    BY <1>0, <1>1 DEF CacheInv
  <1>4. StateOf(m)'
    BY <1>0, <1>1 DEF StateOf
  <1>5. OwnOf(m)'
    BY <1>0, <1>1 DEF OwnOf
  <1>6. StageOf(m)'
    BY <1>1 DEF StageOf
  <1>7. PassedOf(m)'
    <2>1. callbacks[m][index[m]] \in Range(callbacks[m])
      BY <1>0, <1>1 DEF TypeOK, Range
    <2> QED
      BY <1>0, <1>1, <2>1 DEF PassedOf, StageOf, Requested
  <1> QED
    BY <1>1, <1>2, <1>3, <1>4, <1>5, <1>6, <1>7, OneMessage

\* All interceptors of a kind have let a message pass.
LEMMA NextStageStep ==
  ASSUME IInv, NEW m \in Message, NextStage(m)
  PROVE  IInv'
  <1>0. /\ TypeOK /\ TotalInv /\ CacheInv
        /\ StateOf(m) /\ OwnOf(m) /\ StageOf(m) /\ PassedOf(m)
    BY DEF IInv, MessagesInv
  <1>1. /\ pc[m] = "apply" /\ pc'[m] = "make"
        /\ \/ stage[m] = "filter" /\ stage'[m] = "guard"
           \/ stage[m] = "guard" /\ stage'[m] = "pipe"
        /\ index[m] \in Nat /\ index[m] > Len(callbacks[m]) /\ index'[m] = 1
        /\ \A d \in Message \ {m} : Untouched(d)
        /\ UNCHANGED <<setting, ran, missed, cache, answer, matched, message, instances, callbacks, asked>>
    BY <1>0 DEF TypeOK, StateOf, NextStage, Enter, StageAfter, Kind, Untouched,
                environment, matching
  <1>2. TypeOK' /\ TotalInv'
    BY <1>0, <1>1 DEF TypeOK, TotalInv, NextStage, Enter, StageAfter, Kind
  <1>3. CacheInv'
    BY <1>0, <1>1 DEF CacheInv
  <1>4. StateOf(m)'
    BY <1>0, <1>1 DEF StateOf, Kind
  <1>5. OwnOf(m)'
    BY <1>0, <1>1 DEF OwnOf
  <1>6. StageOf(m)'
    BY <1>1 DEF StageOf
  <1>7. PassedOf(m)'
    <2>1. Requested(stage[m]) \subseteq asked[m]
      <3>1. callbacks[m] \in Seq(Interceptor)
        BY <1>0 DEF TypeOK
      <3>2. ASSUME NEW x \in Range(callbacks[m]) PROVE x \in asked[m]
        <4>1. PICK j \in 1 .. Len(callbacks[m]) : x = callbacks[m][j]
          BY <3>1 DEF Range
        <4> QED
          BY <1>0, <1>1, <3>1, <4>1 DEF StageOf
      <3> QED
        BY <1>0, <1>1, <3>2 DEF StageOf
    <2> QED
      BY <1>0, <1>1, <2>1 DEF PassedOf, Requested
  <1> QED
    BY <1>1, <1>2, <1>3, <1>4, <1>5, <1>6, <1>7, OneMessage

\* An error is thrown or logged.
LEMMA EndsStep ==
  ASSUME IInv, NEW m \in Message,
         \/ PipelineFails(m) \/ InterceptorThrows(m) \/ TransformPipes(m)
         \/ HandleException(m) \/ ExceptionHandlerFails(m)
  PROVE  IInv'
  <1>0. /\ TypeOK /\ TotalInv /\ CacheInv
        /\ StateOf(m) /\ OwnOf(m) /\ StageOf(m) /\ PassedOf(m)
    BY DEF IInv, MessagesInv
  <1>1. /\ pc[m] # "idle" /\ pc'[m] \in {"catch", "logged", "rejected"}
        /\ \A d \in Message \ {m} : Untouched(d)
        /\ UNCHANGED <<setting, ran, missed, cache, answer, matched, message, index, instances, stage,
                       callbacks, asked>>
    BY <1>0
       DEF TypeOK, PipelineFails, InterceptorThrows, TransformPipes, HandleException,
           ExceptionHandlerFails, Throw, Untouched, environment, matching, handling
  <1>2. TypeOK' /\ TotalInv'
    BY <1>0, <1>1
       DEF TypeOK, TotalInv, PipelineFails, InterceptorThrows, TransformPipes,
           HandleException, ExceptionHandlerFails, Throw, Ended
  <1>3. CacheInv'
    BY <1>0, <1>1 DEF CacheInv
  <1>4. StateOf(m)'
    BY <1>0, <1>1 DEF StateOf
  <1>5. OwnOf(m)'
    BY <1>0, <1>1 DEF OwnOf
  <1>6. StageOf(m)'
    BY <1>1 DEF StageOf
  <1>7. PassedOf(m)'
    BY <1>0, <1>1 DEF PassedOf, Requested
  <1> QED
    BY <1>1, <1>2, <1>3, <1>4, <1>5, <1>6, <1>7, OneMessage

\* A class interceptor was made: it is appended to the array of the route, and after
\* the last one all that are requested are collected.
LEMMA MadeStep ==
  ASSUME IInv, NEW m \in Message, InterceptorMade(m)
  PROVE  IInv'
  <1>0. /\ TypeOK /\ TotalInv /\ CacheInv
        /\ StateOf(m) /\ OwnOf(m) /\ StageOf(m) /\ PassedOf(m)
    BY DEF IInv, MessagesInv
  <1> DEFINE k == stage[m]
             made == IF index[m] <= Len(Classes[k])
                       THEN Append(instances[k], Classes[k][index[m]]) ELSE instances[k]
             last == ~(index[m] < Len(Classes[k]))
  <1>1. /\ pc[m] = "make" /\ k \in Kind /\ index[m] \in Nat /\ index[m] >= 1
        /\ Classes[k] \in Seq(Range(Classes[k])) /\ Callbacks[k] \in Seq(Range(Callbacks[k]))
        /\ Range(Classes[k]) \subseteq Interceptor /\ Range(Callbacks[k]) \subseteq Interceptor
        /\ instances[k] \in Seq(Range(Classes[k]))
    BY <1>0, Constants DEF TypeOK, StateOf, InterceptorMade
  <1>2. /\ made \in Seq(Range(Classes[k]))
        /\ Len(made) >= Len(instances[k])
        /\ \A j \in 1 .. Len(instances[k]) : made[j] = instances[k][j]
        /\ index[m] <= Len(Classes[k]) => /\ Len(made) = Len(instances[k]) + 1
                                          /\ made[Len(made)] = Classes[k][index[m]]
    <2>1. CASE index[m] <= Len(Classes[k])
      <3>1. Classes[k][index[m]] \in Range(Classes[k])
        BY <1>1, <2>1 DEF Range
      <3> QED
        BY <1>1, <2>1, <3>1
    <2>2. CASE ~(index[m] <= Len(Classes[k]))
      BY <1>1, <2>2
    <2> QED
      BY <2>1, <2>2
  <1>3. /\ Range(instances[k]) \subseteq Range(made)
        /\ index[m] <= Len(Classes[k]) => Classes[k][index[m]] \in Range(made)
        /\ Range(made) \subseteq Range(Classes[k])
    <2>1. /\ DOMAIN made = 1 .. Len(made) /\ Len(made) \in Nat
          /\ DOMAIN instances[k] = 1 .. Len(instances[k]) /\ Len(instances[k]) \in Nat
      BY <1>1, <1>2
    <2>2. \A j \in DOMAIN made : made[j] \in Range(Classes[k])
      <3> SUFFICES ASSUME NEW j \in DOMAIN made PROVE made[j] \in Range(Classes[k])
        OBVIOUS
      <3>1. made \in Seq(Range(Classes[k])) /\ j \in 1 .. Len(made)
        BY <1>2, <2>1
      <3> HIDE DEF made
      <3> QED
        BY <3>1
    <2>3. \A j \in DOMAIN instances[k] : j \in DOMAIN made /\ made[j] = instances[k][j]
      BY <1>2, <2>1
    <2>4. index[m] <= Len(Classes[k]) => Len(made) \in DOMAIN made
      BY <1>2, <2>1
    <2> HIDE DEF made
    <2> QED
      BY <1>2, <2>2, <2>3, <2>4 DEF Range
  <1>4. /\ instances' = [instances EXCEPT ![k] = made]
        /\ UNCHANGED <<setting, ran, missed, cache, answer, matched, message, stage, asked>>
    BY DEF InterceptorMade, environment, matching
  <1>5. CASE ~last
    <2>1. /\ index' = [index EXCEPT ![m] = @ + 1]
          /\ UNCHANGED <<pc, callbacks>>
      BY <1>5 DEF InterceptorMade
    <2>2. TypeOK' /\ TotalInv'
      <3>1. \A h \in Kind : instances'[h] \in Seq(Range(Classes[h]))
        BY <1>0, <1>2, <1>4 DEF TypeOK, TotalInv
      <3> QED
        BY <1>0, <1>4, <2>1, <3>1 DEF TypeOK, TotalInv
    <2>3. CacheInv'
      BY <1>0, <1>4 DEF CacheInv
    <2>4. StateOf(m)'
      BY <1>0, <1>1, <1>4, <2>1 DEF StateOf, TypeOK
    <2>5. OwnOf(m)'
      BY <1>0, <1>4 DEF OwnOf
    <2>6. StageOf(m)'
      <3>1. pc'[m] = "make" /\ stage'[m] = k /\ index'[m] = index[m] + 1
            /\ instances'[k] = made /\ index[m] <= Len(Classes[k])
        BY <1>0, <1>1, <1>4, <1>5, <2>1 DEF TypeOK, TotalInv
      <3>2. \A j \in 1 .. Len(Classes[k]) : j < index[m] => Classes[k][j] \in Range(made)
        BY <1>0, <1>1, <1>3 DEF StageOf
      <3>3. ASSUME NEW j \in 1 .. Len(Classes[k]), j < index[m] + 1
            PROVE  Classes[k][j] \in Range(made)
        <4>1. j < index[m] \/ j = index[m]
          BY <1>1, <3>3
        <4> HIDE DEF made
        <4> QED
          BY <1>3, <3>1, <3>2, <4>1
      <3> HIDE DEF made, k
      <3> QED
        BY <3>1, <3>3 DEF StageOf
    <2>7. PassedOf(m)'
      BY <1>0, <1>4, <2>1 DEF PassedOf, Requested
    <2>8. \A d \in Message \ {m} : Untouched(d)
      BY <1>0, <1>4, <2>1 DEF Untouched, TypeOK
    <2>9. \A h \in Kind : Range(instances[h]) \subseteq Range(instances'[h])
      BY <1>0, <1>3, <1>4 DEF TotalInv
    <2> QED
      BY <1>4, <2>2, <2>3, <2>4, <2>5, <2>6, <2>7, <2>8, <2>9, OneMessage
  <1>6. CASE last
    <2> DEFINE all == Callbacks[k] \o made
    <2>1. /\ index' = [index EXCEPT ![m] = 1]
          /\ callbacks' = [callbacks EXCEPT ![m] = all]
          /\ pc' = [pc EXCEPT ![m] = "apply"]
      BY <1>6 DEF InterceptorMade, Applied
    <2>2. /\ all \in Seq(Interceptor)
          /\ Range(all) = Range(Callbacks[k]) \union Range(made)
      <3>1. /\ Callbacks[k] \in Seq(Interceptor) /\ made \in Seq(Interceptor)
        BY <1>1, <1>2
      <3> HIDE DEF made
      <3>2. all \in Seq(Interceptor)
        BY <3>1
      <3>3. /\ Len(all) = Len(Callbacks[k]) + Len(made)
            /\ \A j \in 1 .. Len(Callbacks[k]) : all[j] = Callbacks[k][j]
            /\ \A j \in 1 .. Len(made) : all[Len(Callbacks[k]) + j] = made[j]
        BY <3>1
      <3>4. \A j \in 1 .. Len(all) : \/ j \in 1 .. Len(Callbacks[k])
                                    \/ j - Len(Callbacks[k]) \in 1 .. Len(made)
        BY <3>1, <3>3
      <3> HIDE DEF all
      <3>5. ASSUME NEW x \in Range(all) PROVE x \in Range(Callbacks[k]) \union Range(made)
        <4>1. PICK j \in 1 .. Len(all) : x = all[j]
          BY <3>2 DEF Range
        <4>2. CASE j \in 1 .. Len(Callbacks[k])
          BY <3>1, <3>3, <4>1, <4>2 DEF Range
        <4>3. CASE j - Len(Callbacks[k]) \in 1 .. Len(made)
          <5>1. x = made[j - Len(Callbacks[k])]
            BY <3>1, <3>3, <4>1, <4>3
          <5> QED
            BY <3>1, <4>3, <5>1 DEF Range
        <4> QED
          BY <3>4, <4>2, <4>3
      <3>6. ASSUME NEW x \in Range(Callbacks[k]) PROVE x \in Range(all)
        <4>1. PICK j \in 1 .. Len(Callbacks[k]) : x = Callbacks[k][j]
          BY <3>1 DEF Range
        <4>2. j \in 1 .. Len(all) /\ x = all[j]
          BY <3>1, <3>3, <4>1
        <4> QED
          BY <3>2, <4>2 DEF Range
      <3>7. ASSUME NEW x \in Range(made) PROVE x \in Range(all)
        <4>1. PICK j \in 1 .. Len(made) : x = made[j]
          BY <3>1 DEF Range
        <4>2. Len(Callbacks[k]) + j \in 1 .. Len(all) /\ x = all[Len(Callbacks[k]) + j]
          BY <3>1, <3>3, <4>1
        <4> QED
          BY <3>2, <4>2 DEF Range
      <3> QED
        BY <3>2, <3>5, <3>6, <3>7
    <2>3. Range(Classes[k]) \subseteq Range(made)
      <3> SUFFICES ASSUME NEW x \in Range(Classes[k]) PROVE x \in Range(made)
        OBVIOUS
      <3>1. PICK j \in 1 .. Len(Classes[k]) : x = Classes[k][j]
        BY <1>1 DEF Range
      <3>2. CASE j < index[m]
        BY <1>0, <1>1, <1>3, <3>1, <3>2 DEF StageOf
      <3>3. CASE ~(j < index[m])
        <4>1. j = index[m] /\ index[m] <= Len(Classes[k])
          BY <1>1, <1>6, <3>1, <3>3
        <4> QED
          BY <1>3, <3>1, <4>1
      <3> QED
        BY <3>2, <3>3
    <2>4. TypeOK' /\ TotalInv'
      <3>1. \A h \in Kind : instances'[h] \in Seq(Range(Classes[h]))
        BY <1>0, <1>2, <1>4 DEF TypeOK, TotalInv
      <3>2. \A d \in Message : callbacks'[d] \in Seq(Interceptor)
        BY <1>0, <2>1, <2>2 DEF TypeOK, TotalInv
      <3> QED
        BY <1>0, <1>4, <2>1, <3>1, <3>2 DEF TypeOK, TotalInv
    <2>5. CacheInv'
      BY <1>0, <1>4 DEF CacheInv
    <2>6. StateOf(m)'
      BY <1>0, <1>1, <1>4, <2>1 DEF StateOf, TypeOK
    <2>7. OwnOf(m)'
      BY <1>0, <1>4 DEF OwnOf
    <2>8. StageOf(m)'
      <3>1. pc'[m] = "apply" /\ stage'[m] = k /\ index'[m] = 1 /\ callbacks'[m] = all
        BY <1>0, <1>4, <2>1 DEF TypeOK, TotalInv
      <3>2. Range(all) = Requested(k)
        BY <1>3, <2>2, <2>3 DEF Requested
      <3> HIDE DEF all, k
      <3> QED
        BY <3>1, <3>2 DEF StageOf, Requested
    <2>9. PassedOf(m)'
      BY <1>0, <1>4, <2>1 DEF PassedOf, Requested, TypeOK
    <2>10. \A d \in Message \ {m} : Untouched(d)
      BY <1>0, <1>4, <2>1 DEF Untouched, TypeOK, TotalInv
    <2>11. \A h \in Kind : Range(instances[h]) \subseteq Range(instances'[h])
      BY <1>0, <1>3, <1>4 DEF TotalInv
    <2> QED
      BY <1>4, <2>4, <2>5, <2>6, <2>7, <2>8, <2>9, <2>10, <2>11, OneMessage
  <1> QED
    BY <1>5, <1>6

\* What is done with a message that came in, or with the answer of a resolver.
LEMMA OutcomeStep ==
  ASSUME IInv, NEW m \in Message, NEW a \in Sent, Outcome(m, a),
         \/ pc[m] = "idle" /\ message' = [message EXCEPT ![m] = a]
         \/ pc[m] \in {"resolve", "resynced"} /\ message[m] = a /\ message' = message,
         setting' = setting, ran' \subseteq Guild, UNCHANGED handling,
         missed \subseteq missed', missed' \subseteq Message,
         pc'[m] = "resolve" => m \in missed'
  PROVE  IInv'
  <1>0. /\ TypeOK /\ TotalInv /\ CacheInv
        /\ StateOf(m) /\ OwnOf(m) /\ StageOf(m) /\ PassedOf(m)
    BY DEF IInv, MessagesInv
  <1>1. /\ a.guild \in Guild /\ a.matcher \in Matcher
        /\ Settable[a.guild] \subseteq Text \union {Nil} /\ setting[a.guild] \in Settable[a.guild]
        /\ Nil \notin Text
    BY <1>0, Constants DEF TypeOK
  <1>2. /\ message' \in [Message -> Sent \union {Nil}] /\ message'[m] = a
        /\ \A d \in Message \ {m} : message'[d] = message[d]
    BY <1>0 DEF TypeOK
  <1>3. /\ matched[m] = Nil /\ stage[m] = Nil /\ asked[m] = {}
        /\ pc[m] \in {"resolve", "resynced"} => Strategy[a.matcher] = "Scoped"
        /\ pc[m] = "resolve" => answer[m] \in Settable[a.guild]
    BY <1>0 DEF StateOf
  <1>4. UNCHANGED <<instances, stage, callbacks, asked>>
    BY DEF handling
  <1>5. /\ answer' \in [Message -> Text \union {Nil}]
        /\ \A d \in Message \ {m} : answer'[d] = answer[d]
    BY <1>0, <1>1 DEF Outcome, TypeOK
  <1>6. /\ index' \in [Message -> Nat] /\ index'[m] >= 1
        /\ \A d \in Message \ {m} : index'[d] = index[d]
    BY <1>0 DEF Outcome, TypeOK, StateOf
  <1>7. cache' \in [Matcher -> [Guild -> Text \union {Nil}]] /\ CacheInv'
    <2>1. CASE cache' = cache
      BY <1>0, <2>1 DEF TypeOK, CacheInv
    <2>2. CASE \E p \in Text : /\ Strategy[a.matcher] = "Scoped"
                              /\ OwnText(a.matcher, a.guild, p)
                              /\ cache' = [cache EXCEPT ![a.matcher][a.guild] = p]
      <3>1. PICK p \in Text : /\ Strategy[a.matcher] = "Scoped"
                              /\ OwnText(a.matcher, a.guild, p)
                              /\ cache' = [cache EXCEPT ![a.matcher][a.guild] = p]
        BY <2>2
      <3>2. cache' \in [Matcher -> [Guild -> Text \union {Nil}]]
        BY <1>0, <1>1, <3>1 DEF TypeOK
      <3>3. ASSUME NEW r \in Matcher, NEW g \in Guild, cache'[r][g] # Nil
            PROVE  Strategy[r] = "Scoped" /\ OwnText(r, g, cache'[r][g])
        <4>1. CASE r = a.matcher /\ g = a.guild
          <5>1. cache'[r][g] = p
            BY <1>0, <1>1, <3>1, <4>1 DEF TypeOK
          <5> QED
            BY <3>1, <4>1, <5>1
        <4>2. CASE ~(r = a.matcher /\ g = a.guild)
          <5>1. cache'[r][g] = cache[r][g]
            BY <1>0, <1>1, <3>1, <4>2 DEF TypeOK
          <5> QED
            BY <1>0, <3>3, <5>1 DEF CacheInv
        <4> QED
          BY <4>1, <4>2
      <3> QED
        BY <3>2, <3>3 DEF CacheInv, OwnText
    <2> QED
      BY <2>1, <2>2 DEF Outcome
  <1>8. ASSUME pc' \in [Message -> {"idle", "resolve", "resynced", "pipeline", "make",
                                    "apply", "catch"} \union Ended],
               pc'[m] \in {"resolve", "resynced", "ignored", "rejected", "pipeline"},
               \A d \in Message \ {m} : pc'[d] = pc[d] /\ matched'[d] = matched[d],
               matched' \in [Message -> Text \union {Nil}],
               matched'[m] # Nil => Matches(a, matched'[m]),
               pc'[m] \in {"resolve", "resynced"} =>
                  matched'[m] = Nil /\ Strategy[a.matcher] = "Scoped",
               pc'[m] = "resolve" => answer'[m] = setting[a.guild]
        PROVE  IInv'
    <2>1. TypeOK' /\ TotalInv'
      BY <1>0, <1>2, <1>4, <1>5, <1>6, <1>7, <1>8 DEF TypeOK, TotalInv
    <2>2. StateOf(m)'
      BY <1>1, <1>2, <1>3, <1>4, <1>6, <1>8 DEF StateOf
    <2>3. OwnOf(m)'
      BY <1>2, <1>8 DEF OwnOf, Matches
    <2>4. StageOf(m)'
      BY <1>8 DEF StageOf
    <2>5. PassedOf(m)'
      BY <1>3, <1>4, <1>8, Constants DEF PassedOf, Requested, Kind
    <2>6. \A d \in Message \ {m} : Untouched(d)
      BY <1>2, <1>4, <1>5, <1>6, <1>8 DEF Untouched
    <2>7. \A k \in Kind : Range(instances[k]) \subseteq Range(instances'[k])
      BY <1>4
    <2> QED
      BY <1>7, <2>1, <2>2, <2>3, <2>4, <2>5, <2>6, <2>7, OneMessage
  <1>9. CASE NotFound(m)
    BY <1>0, <1>3, <1>8, <1>9 DEF NotFound, TypeOK, Ended
  <1>10. CASE \E p : Matches(a, p) /\ Found(m, a.matcher, p)
    <2>1. PICK p : Matches(a, p) /\ Found(m, a.matcher, p)
      BY <1>10
    <2>2. p \in Text
      BY <2>1 DEF Matches
    <2> QED
      BY <1>0, <1>8, <2>1, <2>2 DEF Found, TypeOK, Ended
  <1>11. CASE /\ pc' = [pc EXCEPT ![m] = "resolve"]
              /\ matched' = matched
              /\ answer' = [answer EXCEPT ![m] = setting[a.guild]]
              /\ Strategy[a.matcher] = "Scoped"
    BY <1>0, <1>3, <1>8, <1>11 DEF TypeOK
  <1>12. CASE /\ pc' = [pc EXCEPT ![m] = "resynced"]
              /\ matched' = matched
              /\ Strategy[a.matcher] = "Scoped"
    BY <1>0, <1>3, <1>8, <1>12 DEF TypeOK
  <1> QED
    BY <1>9, <1>10, <1>11, <1>12 DEF Outcome

\* A message comes in.
LEMMA ReceiveStep ==
  ASSUME IInv, NEW m \in Message, NEW a \in Sent, Receive(m, a)
  PROVE  IInv'
  <1>1. Outcome(m, a)
    BY MatchOutcome DEF Receive
  <1>2. /\ ran' \subseteq Guild /\ setting' = setting /\ UNCHANGED handling
        /\ missed \subseteq missed' /\ missed' \subseteq Message
        /\ pc[m] = "idle" /\ message' = [message EXCEPT ![m] = a]
    BY Constants DEF Receive, IInv, TypeOK
  <1>3. ASSUME pc'[m] = "resolve" PROVE m \in missed'
    <2>1. pc'[m] = "resolve" => Strategy[a.matcher] = "Scoped" /\ ~KnownPrefix(a)
      <3>1. pc \in [Message -> {"idle", "resolve", "resynced", "pipeline", "make", "apply",
                                "catch"} \union Ended]
            /\ Strategy[a.matcher] \in {"Static", "Scoped", "Dynamic", "Custom"}
        BY Constants, PrefixAssumption DEF IInv, TypeOK
      <3> QED
        BY <3>1 DEF Receive, Match, CheckContent, Found, NotFound
    <2> QED
      BY <1>3, <2>1 DEF Receive, KnownPrefix
  <1> QED
    BY <1>1, <1>2, <1>3, OutcomeStep

\* A resolver answers or throws, or the entry is read again.
LEMMA ResolverOutcome ==
  ASSUME IInv, NEW m \in Message,
         ResolverReturns(m) \/ ResolverThrows(m) \/ MatchResynced(m),
         NEW a, a = message[m]
  PROVE  Outcome(m, a) /\ a \in Sent
  <1>0. TypeOK /\ CacheInv /\ StateOf(m) /\ pc[m] \in {"resolve", "resynced"}
    BY DEF IInv, MessagesInv, ResolverReturns, ResolverThrows, MatchResynced
  <1>1. /\ a \in Sent /\ Strategy[a.matcher] = "Scoped" /\ index[m] \in Nat
        /\ a.matcher \in Matcher /\ a.guild \in Guild
        /\ pc[m] = "resolve" => answer[m] \in Settable[a.guild]
        /\ answer[m] \in Text \union {Nil}
    BY <1>0, Constants DEF StateOf, TypeOK
  <1>2. Outcome(m, a)
    <2>1. CASE ResolverThrows(m)
      BY <2>1 DEF ResolverThrows, Outcome
    <2>2. CASE ResolverReturns(m) /\ answer[m] = Nil
      <3>1. ResyncFrom(m, a, index[m] + 1)
        BY <2>2 DEF ResolverReturns
      <3> QED
        BY <1>1, <3>1, ResyncOutcome
    <2>3. CASE ResolverReturns(m) /\ answer[m] # Nil
      <3>1. /\ answer[m] \in Text /\ OwnText(a.matcher, a.guild, answer[m])
        BY <1>1, <2>3 DEF OwnText, ResolverReturns
      <3>2. Remember(a, answer[m]) /\ EndResync(m)
        BY <2>3 DEF ResolverReturns
      <3>3. \E p \in Text : /\ Strategy[a.matcher] = "Scoped"
                            /\ OwnText(a.matcher, a.guild, p)
                            /\ cache' = [cache EXCEPT ![a.matcher][a.guild] = p]
        BY <1>1, <3>1, <3>2 DEF Remember, CacheKey
      <3>4. /\ pc' = [pc EXCEPT ![m] = "resynced"] /\ matched' = matched
            /\ answer' = answer /\ index' = index
        BY <3>2 DEF EndResync
      <3>5. \E i \in Nat \ {0} : index' \in {index, [index EXCEPT ![m] = i]}
        BY <3>4
      <3> QED
        BY <1>1, <3>3, <3>4, <3>5 DEF Outcome
    <2>4. CASE MatchResynced(m)
      <3>1. CASE Cached(a) = Nil
        BY <2>4, <3>1 DEF MatchResynced, Outcome
      <3>2. CASE Cached(a) # Nil
        <4>1. Cached(a) \in Text /\ OwnText(a.matcher, a.guild, Cached(a))
          BY <1>0, <1>1, <3>2 DEF CacheInv, Cached, CacheKey, TypeOK
        <4>2. CheckContent(m, a, Cached(a)) /\ UNCHANGED <<cache, answer, index>>
          BY <2>4, <3>2 DEF MatchResynced
        <4> QED
          BY <1>1, <4>1, <4>2, CheckContentOutcome DEF Outcome
      <3> QED
        BY <3>1, <3>2
    <2> QED
      BY <2>1, <2>2, <2>3, <2>4
  <1> QED
    BY <1>1, <1>2

LEMMA ResolverStep ==
  ASSUME IInv, NEW m \in Message,
         ResolverReturns(m) \/ ResolverThrows(m) \/ MatchResynced(m)
  PROVE  IInv'
  <1> PICK a : a = message[m]
    OBVIOUS
  <1>1. Outcome(m, a) /\ a \in Sent
    BY ResolverOutcome
  <1>2. /\ setting' = setting /\ ran' \subseteq Guild /\ UNCHANGED handling
        /\ message' = message /\ pc[m] \in {"resolve", "resynced"}
        /\ missed' = missed /\ missed \subseteq Message
    BY DEF ResolverReturns, ResolverThrows, MatchResynced, environment, IInv, TypeOK
  <1>3. pc'[m] = "resolve" => m \in missed
    <2>1. pc[m] = "resolve" => m \in missed
      BY DEF IInv, MessagesInv, StateOf
    <2>2. MatchResynced(m) => pc'[m] # "resolve"
      BY DEF MatchResynced, CheckContent, Found, NotFound, IInv, TypeOK
    <2> QED
      BY <2>1, <2>2 DEF ResolverReturns, ResolverThrows
  <1> QED
    BY <1>1, <1>2, <1>3, OutcomeStep

\* Every step keeps the invariant.
LEMMA IInvNext == IInv /\ [Next]_vars => IInv'
  <1> SUFFICES ASSUME IInv, [Next]_vars PROVE IInv'
    OBVIOUS
  <1>1. CASE \E g \in Guild : \E p \in Settable[g] : ChangeSetting(g, p)
    BY <1>1, SettingStep
  <1>2. ASSUME NEW m \in Message, NEW a \in Sent, Receive(m, a) PROVE IInv'
    BY <1>2, ReceiveStep
  <1>3. ASSUME NEW m \in Message, Proceed(m) PROVE IInv'
    BY <1>3, ResolverStep, PipelineStep, MadeStep, PassesStep, RefusesStep,
       NextStageStep,
       EndsStep DEF Proceed
  <1>4. CASE UNCHANGED vars
    <2>1. UNCHANGED <<setting, cache, instances, pc, message, index, answer>>
          /\ UNCHANGED <<matched, stage, callbacks, asked, ran, missed>>
      BY <1>4 DEF vars
    <2>2. TypeOK'
      BY <2>1 DEF IInv, TypeOK
    <2>3. TotalInv' /\ CacheInv'
      BY <2>1 DEF IInv, TotalInv, CacheInv, OwnText
    <2>4. MessagesInv'
      <3>1. ASSUME NEW m \in Message
            PROVE  StateOf(m)' /\ OwnOf(m)' /\ StageOf(m)' /\ PassedOf(m)'
        <4>1. StateOf(m) /\ OwnOf(m) /\ StageOf(m) /\ PassedOf(m)
          BY DEF IInv, MessagesInv
        <4>2. StateOf(m)'
          BY <2>1, <4>1 DEF StateOf
        <4>3. OwnOf(m)'
          BY <2>1, <4>1 DEF OwnOf
        <4>4. StageOf(m)'
          BY <2>1, <4>1 DEF StageOf
        <4>5. PassedOf(m)'
          BY <2>1, <4>1 DEF PassedOf, Requested
        <4> QED
          BY <4>2, <4>3, <4>4, <4>5
      <3> QED
        BY <3>1 DEF MessagesInv
    <2> QED
      BY <2>2, <2>3, <2>4 DEF IInv
  <1> QED
    BY <1>1, <1>2, <1>3, <1>4 DEF Next

------------------------------------------------------------------------------
(* The prefix of a guild *)

\* A step that leaves the cache alone, or makes an entry where there was none.
LEMMA KeptIfNew ==
  ASSUME IInv, NEW a \in Sent, NEW p,
         \/ cache' = cache
         \/ Cached(a) = Nil /\ Remember(a, p),
         NEW r \in Matcher, NEW g \in Guild
  PROVE  KeepsPrefix(r, g)
  <1>1. /\ cache \in [Matcher -> [Guild -> Text \union {Nil}]]
        /\ a.matcher \in Matcher /\ a.guild \in Guild
    BY Constants DEF IInv, TypeOK
  <1>2. CASE r = a.matcher /\ g = a.guild
    BY <1>2 DEF KeepsPrefix, Cached, CacheKey
  <1>3. CASE ~(r = a.matcher /\ g = a.guild)
    BY <1>1, <1>3 DEF KeepsPrefix, Remember, CacheKey
  <1> QED
    BY <1>2, <1>3

\* A message that came in has an entry made only if it finds none.
LEMMA KeptWhenReceived ==
  ASSUME IInv, NEW m \in Message, NEW a \in Sent, Receive(m, a),
         NEW r \in Matcher, NEW g \in Guild
  PROVE  KeepsPrefix(r, g)
  <1>1. CASE Strategy[a.matcher] # "Scoped" \/ KnownPrefix(a)
    <2>1. Strategy[a.matcher] \in {"Static", "Scoped", "Dynamic", "Custom"}
      BY Constants, PrefixAssumption
    <2>2. cache' = cache
      BY <1>1, <2>1 DEF Receive, Match
    <2> QED
      BY <2>2, KeptIfNew
  <1>2. CASE Strategy[a.matcher] = "Scoped" /\ ~KnownPrefix(a)
    <2>1. ResyncFrom(m, a, 1)
      BY <1>2 DEF Receive, Match
    <2>2. cache' = cache \/ \E p : Remember(a, p)
      BY <2>1 DEF ResyncFrom
    <2> QED
      BY <1>2, <2>2, KeptIfNew DEF KnownPrefix
  <1> QED
    BY <1>1, <1>2

\* The answer of a resolver, or the literal that is tried after it, is of a message
\* that had missed.
LEMMA KeptWhenAnswered ==
  ASSUME IInv, NEW m \in Message, ResolverReturns(m), NEW r \in Matcher, NEW g \in Guild
  PROVE  KeepsPrefix(r, g)
  <1> PICK a : a = message[m]
    OBVIOUS
  <1>1. /\ pc[m] = "resolve" /\ m \in missed /\ a \in Sent
        /\ a.matcher \in Matcher /\ a.guild \in Guild /\ index[m] \in Nat
        /\ cache \in [Matcher -> [Guild -> Text \union {Nil}]]
    BY Constants DEF ResolverReturns, IInv, MessagesInv, StateOf, TypeOK
  <1>2. \/ cache' = cache
        \/ \E p \in {answer[m]} \union (Range(PrefixList[a.matcher]) \ {Resolvable}) :
              p # Nil /\ Remember(a, p)
    <2>1. CASE answer[m] # Nil
      BY <2>1 DEF ResolverReturns
    <2>2. CASE answer[m] = Nil
      <3> DEFINE i == index[m] + 1
      <3>1. ResyncFrom(m, a, i)
        BY <2>2 DEF ResolverReturns
      <3>2. CASE i > Len(PrefixList[a.matcher]) \/ PrefixList[a.matcher][i] = Resolvable
        BY <3>1, <3>2 DEF ResyncFrom
      <3>3. CASE ~(i > Len(PrefixList[a.matcher]) \/ PrefixList[a.matcher][i] = Resolvable)
        <4>1. Len(PrefixList[a.matcher]) \in Nat
          BY <1>1, PrefixAssumption
        <4>2. i \in 1 .. Len(PrefixList[a.matcher])
          BY <1>1, <3>3, <4>1
        <4>3. PrefixList[a.matcher][i] \in Range(PrefixList[a.matcher]) \ {Resolvable}
              /\ PrefixList[a.matcher][i] # Nil
          BY <1>1, <3>3, <4>2, Prefixes, Constants
        <4>4. Remember(a, PrefixList[a.matcher][i])
          BY <3>1, <3>3 DEF ResyncFrom
        <4> QED
          BY <4>3, <4>4
      <3> QED
        BY <3>2, <3>3
    <2> QED
      BY <2>1, <2>2
  <1>3. CASE r = a.matcher /\ g = a.guild
    <2>1. Answers(m, r, g) = {answer[m]} \union (Range(PrefixList[r]) \ {Resolvable})
      BY <1>1, <1>3 DEF Answers
    <2>2. CASE cache' = cache
      BY <2>2 DEF KeepsPrefix
    <2>3. ASSUME NEW p \in {answer[m]} \union (Range(PrefixList[a.matcher]) \ {Resolvable}),
                 p # Nil, Remember(a, p)
          PROVE  KeepsPrefix(r, g)
      <3>1. cache'[r][g] = p
        BY <1>1, <1>3, <2>3 DEF Remember, CacheKey
      <3>2. p \in Answers(m, r, g)
        BY <1>3, <2>1
      <3> QED
        BY <2>3, <3>1, <3>2 DEF KeepsPrefix
    <2> QED
      BY <1>2, <2>2, <2>3
  <1>4. CASE ~(r = a.matcher /\ g = a.guild)
    <2>1. cache' = cache \/ \E p : cache' = [cache EXCEPT ![a.matcher][a.guild] = p]
      BY <1>2 DEF Remember, CacheKey
    <2>2. cache'[r][g] = cache[r][g]
      <3>1. ASSUME NEW p, cache' = [cache EXCEPT ![a.matcher][a.guild] = p]
            PROVE  cache'[r][g] = cache[r][g]
        <4>1. CASE r = a.matcher
          <5>1. g # a.guild
            BY <1>4, <4>1
          <5>2. cache'[r] = [cache[r] EXCEPT ![a.guild] = p]
            BY <1>1, <3>1, <4>1
          <5> QED
            BY <1>1, <5>1, <5>2
        <4>2. CASE r # a.matcher
          BY <1>1, <3>1, <4>2
        <4> QED
          BY <4>1, <4>2
      <3> QED
        BY <2>1, <3>1
    <2> QED
      BY <2>2 DEF KeepsPrefix
  <1> QED
    BY <1>3, <1>4

LEMMA KeptNext ==
  ASSUME IInv, Next, NEW r \in Matcher, NEW g \in Guild
  PROVE  KeepsPrefix(r, g)
  <1>1. ASSUME cache' = cache PROVE KeepsPrefix(r, g)
    BY <1>1 DEF KeepsPrefix
  <1>2. CASE \E h \in Guild : \E q \in Settable[h] : ChangeSetting(h, q)
    BY <1>1, <1>2 DEF ChangeSetting, matching
  <1>3. ASSUME NEW m \in Message, NEW a \in Sent, Receive(m, a) PROVE KeepsPrefix(r, g)
    BY <1>3, KeptWhenReceived
  <1>4. ASSUME NEW m \in Message, Proceed(m) PROVE KeepsPrefix(r, g)
    <2>1. CASE ResolverReturns(m)
      BY <2>1, KeptWhenAnswered
    <2>2. CASE ~ResolverReturns(m)
      BY <1>1, <1>4, <2>2
         DEF Proceed, ResolverThrows, MatchResynced, PipelineCreated, PipelineFails,
             InterceptorMade, InterceptorPasses, InterceptorRefuses, InterceptorThrows,
             NextStage, TransformPipes, HandleException, ExceptionHandlerFails, matching
    <2> QED
      BY <2>1, <2>2
  <1> QED
    BY <1>2, <1>3, <1>4 DEF Next

------------------------------------------------------------------------------
(* Theorems *)

\* The inductive invariant holds of every message, however many are handled at once.
THEOREM Invariance == Spec => []IInv
  <1> QED
    BY IInvInit, IInvNext, PTL DEF Spec

\* The variables keep their types.
THEOREM TypeCorrectness == Spec => []TypeOK
  BY Invariance, Implied, PTL

\* Messages whose prefix is resolved, and whose interceptors run, at the same time do
\* not get into each other's way: each is matched with a prefix of its own guild
\* and passes all its filters and guards (`ScopedPrefixCache`, `applyInterceptors`).
THEOREM Apart == Spec => []MessagesStayApart
  BY Invariance, Implied, PTL

\* A cached prefix is never lost.  It is replaced only by the prefix that is set, or
\* by the answer, which may be out of date, to a message that found the cache empty
\* when it came in (`ScopedPrefixCache.resyncFor`).
THEOREM Kept == Spec => PrefixIsKept
  <1>1. IInv /\ [Next]_vars => [\A r \in Matcher, g \in Guild : KeepsPrefix(r, g)]_vars
    BY KeptNext
  <1> QED
    BY <1>1, Invariance, PTL DEF Spec, PrefixIsKept
===============================================================================
