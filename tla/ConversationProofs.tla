-------------------------- MODULE ConversationProofs --------------------------
(***************************************************************************)
(* What the run of Conversation checks of the functions of a context, for  *)
(* any number of calls, speakers and messages, and whatever a paginator    *)
(* does in the same channel; and what it checks of a paginator, for any    *)
(* number of senders, pages, reactions and turns under way together.       *)
(***************************************************************************)
EXTENDS Conversation, FiniteSetTheorems, WellFoundedInduction, TLAPS

\* The kind of a call that waits for something tells what it waits for, and a
\* prompt speaks in the channel when it asks.
StagesInv ==
    \A c \in Calls :
        /\ call[c].stage = "listening" => call[c].kind = "prompt"
        /\ call[c].stage = "awaiting" => call[c].kind = "voice"
        /\ call[c].stage = "fetching" => call[c].kind = "send"
        /\ call[c].stage = "unused" => call[c].kind = "send"
        /\ call[c].kind = "prompt" => call[c].own

\* The channel sees no more than its bound, and who listens or was answered did so
\* when it had seen no more than it has seen by now.
SaidInv ==
    /\ Len(said) <= MaxSaid
    /\ \A c \in Calls : call[c].since <= Len(said) /\ call[c].answer <= Len(said)

\* An interaction is acknowledged once: a reply that was accepted did it.
AcceptedInv ==
    \A c \in Calls :
        call[c].kind = "reply" /\ call[c].stage \in {"accepted", "done"}
        => acknowledged = "reply"

\* Who listens, or was answered, was asked by a message of this application.
AskedInv ==
    \A c \in Calls : call[c].kind = "prompt" =>
        /\ call[c].stage = "accepted" => \E i \in 1 .. Len(said) : said[i] = Bot
        /\ call[c].stage = "listening" => \E i \in 1 .. call[c].since : said[i] = Bot
        /\ call[c].stage = "done" => call[c].answer \in 1 .. Len(said)

IInv ==
    /\ Context!ContextTypeOK
    /\ StagesInv
    /\ SaidInv
    /\ AcceptedInv
    /\ RepliedIsTrue
    /\ AskedInv
    /\ AnswersAreTheAskers

\* What a pipeline holds of its event.
PipelineType ==
    [type : Context!PipelineTypes, inGuild : BOOLEAN, channel : BOOLEAN,
     isReplied : BOOLEAN, isDeferred : BOOLEAN]

\* The record of a call.
CallType ==
    [kind : Context!Kinds, stage : Context!Stages, own : BOOLEAN,
     since : 0 .. MaxSaid, answer : 0 .. MaxSaid]

------------------------------------------------------------------------------

\* What is between two messages of the channel is a message of it.
LEMMA Between ==
  ASSUME NEW n \in Nat, NEW first \in Nat, NEW last \in 1 .. n,
         NEW i \in first + 1 .. last - 1
  PROVE  i \in 1 .. n
  OBVIOUS

LEMMA OneMoreSaid ==
  ASSUME NEW S, NEW s \in Seq(S), NEW x \in S
  PROVE  /\ Append(s, x) \in Seq(S) /\ Len(s) \in Nat
         /\ Len(Append(s, x)) = Len(s) + 1 /\ Len(Append(s, x)) >= Len(s)
         /\ \A i \in 1 .. Len(s) : Append(s, x)[i] = s[i]
         /\ Append(s, x)[Len(s) + 1] = x
  OBVIOUS

\* In the beginning there are no calls.
LEMMA IInvInit == Init => IInv
  <1> SUFFICES ASSUME Context!ContextInit PROVE IInv
    BY DEF Init
  <1> USE SpeakersAssumption, BoundsAssumption
  <1>1. Context!ContextTypeOK
    <2>1. pipeline \in Context!Pipelines
      BY DEF Context!ContextInit
    <2>2. /\ pipeline \in PipelineType
          /\ pipeline.isReplied = FALSE
      BY <2>1 DEF Context!Pipelines, PipelineType
    <2>3. Context!Unused \in CallType
      BY DEF CallType, Context!Unused, Context!Kinds, Context!Stages
    <2>4. call \in [Calls -> CallType]
      BY <2>3 DEF Context!ContextInit
    <2>5. alive \in BOOLEAN /\ channelGone \in BOOLEAN
      BY DEF Context!ContextInit, Context!HasContext
    <2>6. voice \in {"fetching", "null"}
      BY DEF Context!ContextInit, Context!VoiceChannel
    <2>7. said \in Seq(Context!Speakers) /\ acknowledged = "no"
      BY DEF Context!ContextInit
    <2> QED
      BY <2>2, <2>4, <2>5, <2>6, <2>7
         DEF Context!ContextTypeOK, CallType, PipelineType
  <1>2. StagesInv /\ SaidInv /\ AcceptedInv /\ AskedInv
    BY DEF Context!ContextInit, Context!Unused, StagesInv, SaidInv, AcceptedInv,
           AskedInv
  <1>3. RepliedIsTrue /\ AnswersAreTheAskers
    BY DEF Context!ContextInit, Context!Unused, Context!Pipelines, RepliedIsTrue,
           AnswersAreTheAskers, Context!RepliedIsTrue, Context!AnswersAreTheAskers
  <1> QED
    BY <1>1, <1>2, <1>3 DEF IInv

\* A handler begins a call: only a search for a channel and a voice channel wait
\* before something is requested, and none is answered yet, but for one that finds
\* or reads what is known.
Beginning(c, kind, stage, own) ==
    /\ Context!Begin(c, kind, stage, own)
    /\ kind \in Context!Kinds /\ own \in BOOLEAN
    /\ stage \in {"requested", "thrown", "fetching", "awaiting", "done", "null"}
    /\ stage = "fetching" => kind = "send"
    /\ stage = "awaiting" => kind = "voice"
    /\ stage \in {"done", "null"} => kind \in {"find", "voice"}
    /\ kind = "prompt" => own
    /\ pipeline' \in {pipeline, [pipeline EXCEPT !.isDeferred = TRUE]}

\* Every call of a function of the context begins like that.
LEMMA StartSteps ==
  ASSUME NEW c \in Calls, Context!Start(c)
  PROVE  \E kind, stage, own : Beginning(c, kind, stage, own)
  <1>1. CASE Context!Reply(c)
    BY <1>1 DEF Context!Reply, Beginning, Context!Kinds
  <1>2. CASE Context!FollowUp(c)
    BY <1>2 DEF Context!FollowUp, Beginning, Context!Kinds
  <1>3. CASE Context!Defer(c)
    BY <1>3 DEF Context!Defer, Beginning, Context!Kinds
  <1>4. CASE Context!Send(c)
    BY <1>4 DEF Context!Send, Beginning, Context!Kinds
  <1>5. CASE Context!Prompt(c)
    BY <1>5 DEF Context!Prompt, Beginning, Context!Kinds
  <1>6. CASE Context!Find(c)
    BY <1>6 DEF Context!Find, Beginning, Context!Kinds
  <1>7. CASE Context!ReadVoice(c)
    BY <1>7 DEF Context!ReadVoice, Beginning, Context!Kinds
  <1> QED
    BY <1>1, <1>2, <1>3, <1>4, <1>5, <1>6, <1>7 DEF Context!Start

\* What a beginning changes.
LEMMA BeginStep ==
  ASSUME IInv, NEW c \in Calls, NEW kind, NEW stage, NEW own,
         Beginning(c, kind, stage, own)
  PROVE  IInv'
  <1> USE SpeakersAssumption, BoundsAssumption
  <1>0. /\ Context!ContextTypeOK /\ StagesInv /\ SaidInv /\ AcceptedInv
        /\ RepliedIsTrue /\ AskedInv /\ AnswersAreTheAskers
    BY DEF IInv
  <1>1. Context!ContextTypeOK'
    <2>1. call' \in [Calls -> CallType]
      <3>1. call \in [Calls -> CallType]
        BY <1>0 DEF Context!ContextTypeOK, CallType
      <3>2. kind \in Context!Kinds /\ stage \in Context!Stages /\ own \in BOOLEAN
        BY DEF Beginning, Context!Stages
      <3>3. [call[c] EXCEPT !.kind = kind, !.stage = stage, !.own = own] \in CallType
        BY <3>1, <3>2 DEF CallType
      <3>4. call' = [call EXCEPT ![c] = [call[c] EXCEPT !.kind = kind, !.stage = stage,
                                                        !.own = own]]
        BY DEF Beginning, Context!Begin
      <3> QED
        BY <3>1, <3>3, <3>4
    <2>2. pipeline' \in PipelineType
      BY <1>0 DEF PipelineType, Context!ContextTypeOK, Beginning, Context!Begin
    <2>3. said' \in Seq(Context!Speakers)
      BY <1>0 DEF Context!ContextTypeOK, Context!Speakers, Beginning, Context!Begin
    <2>4. acknowledged' \in {"no", "reply", "defer"}
      BY <1>0 DEF Context!ContextTypeOK, Beginning, Context!Begin
    <2>5. voice' \in {"fetching", "known", "null", "rejected"}
      BY <1>0 DEF Context!ContextTypeOK, Beginning, Context!Begin
    <2>6. channelGone' \in BOOLEAN /\ alive' \in BOOLEAN
      BY <1>0 DEF Context!ContextTypeOK, Beginning, Context!Begin
    <2> QED
      BY <2>1, <2>2, <2>3, <2>4, <2>5, <2>6
         DEF Context!ContextTypeOK, CallType, PipelineType
  <1>2. StagesInv'
    BY <1>0 DEF StagesInv, Context!ContextTypeOK, CallType, Beginning, Context!Begin
  <1>3. SaidInv'
    BY <1>0 DEF SaidInv, Context!ContextTypeOK, CallType, Beginning, Context!Begin
  <1>4. AcceptedInv'
    BY <1>0
       DEF AcceptedInv, RepliedIsTrue, Context!RepliedIsTrue, StagesInv,
           Context!ContextTypeOK, CallType, Beginning, Context!Begin
  <1>5. RepliedIsTrue'
    BY <1>0
       DEF RepliedIsTrue, Context!RepliedIsTrue, AcceptedInv, StagesInv,
           Context!ContextTypeOK, CallType, Beginning, Context!Begin
  <1>6. AskedInv'
    BY <1>0
       DEF AskedInv, StagesInv, Context!ContextTypeOK, SaidInv, CallType, Beginning,
           Context!Begin
  <1>7. AnswersAreTheAskers'
    <2>1. /\ \A d \in Calls \ {c} : call'[d] = call[d]
          /\ call'[c].kind = kind /\ call'[c].stage = stage
          /\ said' = said /\ channelGone' = channelGone
      BY <1>0 DEF Context!ContextTypeOK, CallType, Beginning, Context!Begin
    <2>2. kind = "prompt" => stage \notin {"done", "null", "listening"}
      BY DEF Beginning
    <2> QED
      BY <1>0, <2>1, <2>2 DEF AnswersAreTheAskers, Context!AnswersAreTheAskers
  <1> QED
    BY <1>1, <1>2, <1>3, <1>4, <1>5, <1>6, <1>7 DEF IInv

\* A channel was found or not.
LEMMA FetchedStep ==
  ASSUME IInv, NEW c \in Calls, Context!ChannelFetched(c)
  PROVE  IInv'
  <1> USE SpeakersAssumption, BoundsAssumption
  <1>0. /\ Context!ContextTypeOK /\ StagesInv /\ SaidInv /\ AcceptedInv
        /\ RepliedIsTrue /\ AskedInv /\ AnswersAreTheAskers
    BY DEF IInv
  <1>1. Context!ContextTypeOK'
    <2>1. call' \in [Calls -> CallType]
      <3>1. call \in [Calls -> CallType]
        BY <1>0 DEF Context!ContextTypeOK, CallType
      <3>2. \E stage \in Context!Stages : call' = [call EXCEPT ![c].stage = stage]
        BY DEF Context!ChannelFetched, Context!Stages
      <3> QED
        BY <3>1, <3>2 DEF CallType
    <2>2. pipeline' \in PipelineType
      BY <1>0 DEF PipelineType, Context!ContextTypeOK, Context!ChannelFetched
    <2>3. said' \in Seq(Context!Speakers)
      BY <1>0 DEF Context!ContextTypeOK, Context!Speakers, Context!ChannelFetched
    <2>4. acknowledged' \in {"no", "reply", "defer"}
      BY <1>0 DEF Context!ContextTypeOK, Context!ChannelFetched
    <2>5. voice' \in {"fetching", "known", "null", "rejected"}
      BY <1>0 DEF Context!ContextTypeOK, Context!ChannelFetched
    <2>6. channelGone' \in BOOLEAN /\ alive' \in BOOLEAN
      BY <1>0 DEF Context!ContextTypeOK, Context!ChannelFetched
    <2> QED
      BY <2>1, <2>2, <2>3, <2>4, <2>5, <2>6
         DEF Context!ContextTypeOK, CallType, PipelineType
  <1>2. StagesInv'
    BY <1>0 DEF StagesInv, Context!ContextTypeOK, CallType, Context!ChannelFetched
  <1>3. SaidInv'
    BY <1>0 DEF SaidInv, Context!ContextTypeOK, CallType, Context!ChannelFetched
  <1>4. AcceptedInv'
    BY <1>0
       DEF AcceptedInv, RepliedIsTrue, Context!RepliedIsTrue, StagesInv,
           Context!ContextTypeOK, CallType, Context!ChannelFetched
  <1>5. RepliedIsTrue'
    BY <1>0
       DEF RepliedIsTrue, Context!RepliedIsTrue, AcceptedInv, StagesInv,
           Context!ContextTypeOK, CallType, Context!ChannelFetched
  <1>6. AskedInv'
    BY <1>0
       DEF AskedInv, StagesInv, Context!ContextTypeOK, SaidInv, CallType,
           Context!ChannelFetched
  <1>7. AnswersAreTheAskers'
    BY <1>0
       DEF AnswersAreTheAskers, Context!AnswersAreTheAskers, AskedInv, SaidInv,
           StagesInv, Context!ContextTypeOK, CallType, Context!ChannelFetched
  <1> QED
    BY <1>1, <1>2, <1>3, <1>4, <1>5, <1>6, <1>7 DEF IInv

\* Discord accepts a request or refuses it.
LEMMA HandleStep ==
  ASSUME IInv, NEW c \in Calls, Context!Handle(c)
  PROVE  IInv'
  <1> USE SpeakersAssumption, BoundsAssumption
  <1>0. /\ Context!ContextTypeOK /\ StagesInv /\ SaidInv /\ AcceptedInv
        /\ RepliedIsTrue /\ AskedInv /\ AnswersAreTheAskers
    BY DEF IInv
  <1>s. /\ said \in Seq(Context!Speakers) /\ Len(said) \in Nat
        /\ said' \in Seq(Context!Speakers) /\ Len(said') >= Len(said)
        /\ \A i \in 1 .. Len(said) : said'[i] = said[i]
        /\ call[c].kind = "prompt" /\ Context!Accepts(c) =>
              Len(said') = Len(said) + 1 /\ said'[Len(said) + 1] = Bot
    <2>1. said \in Seq(Context!Speakers) /\ Bot \in Context!Speakers
      BY <1>0 DEF Context!ContextTypeOK, Context!Speakers
    <2>2. said' \in {said, Append(said, Bot)}
      BY DEF Context!Handle
    <2>3. call[c].kind = "prompt" /\ Context!Accepts(c) => said' = Append(said, Bot)
      BY <1>0 DEF StagesInv, Context!Handle, Context!Speaks
    <2>4. CASE said' = Append(said, Bot)
      BY <2>1, <2>4, OneMoreSaid
    <2>5. CASE said' = said /\ ~(call[c].kind = "prompt" /\ Context!Accepts(c))
      BY <2>1, <2>5
    <2> QED
      BY <2>2, <2>3, <2>4, <2>5
  <1>c. /\ \A d \in Calls : d # c => call'[d] = call[d]
        /\ call'[c] = [call[c] EXCEPT !.stage = IF Context!Accepts(c) THEN "accepted"
                                                               ELSE "rejected"]
        /\ call[c].stage = "requested"
    <2> DEFINE st == IF Context!Accepts(c) THEN "accepted" ELSE "rejected"
    <2>1. call \in [Calls -> CallType]
      BY <1>0 DEF Context!ContextTypeOK, CallType
    <2>2. call' = [call EXCEPT ![c].stage = st] /\ call[c].stage = "requested"
      BY DEF Context!Handle
    <2> HIDE DEF st
    <2>3. call'[c] = [call[c] EXCEPT !.stage = st]
      BY <2>1, <2>2
    <2> QED
      BY <2>1, <2>2, <2>3 DEF st
  <1>1. Context!ContextTypeOK'
    <2>1. call' \in [Calls -> CallType]
      <3> DEFINE st == IF Context!Accepts(c) THEN "accepted" ELSE "rejected"
      <3>1. st \in Context!Stages
        BY DEF Context!Stages
      <3>2. call' = [call EXCEPT ![c].stage = st]
        BY DEF Context!Handle
      <3> HIDE DEF st
      <3> QED
        BY <1>0, <3>1, <3>2 DEF Context!ContextTypeOK, CallType
    <2>2. pipeline' \in PipelineType
      BY <1>0
         DEF PipelineType, Context!ContextTypeOK, Context!Handle, Context!Accepts,
             Context!Speaks, Context!Speakers
    <2>3. said' \in Seq(Context!Speakers)
      BY <1>0
         DEF Context!ContextTypeOK, Context!Speakers, Context!Handle, Context!Accepts,
             Context!Speaks, Context!Speakers
    <2>4. acknowledged' \in {"no", "reply", "defer"}
      BY <1>0
         DEF Context!ContextTypeOK, Context!Handle, Context!Accepts, Context!Speaks,
             Context!Speakers
    <2>5. voice' \in {"fetching", "known", "null", "rejected"}
      BY <1>0
         DEF Context!ContextTypeOK, Context!Handle, Context!Accepts, Context!Speaks,
             Context!Speakers
    <2>6. channelGone' \in BOOLEAN /\ alive' \in BOOLEAN
      BY <1>0
         DEF Context!ContextTypeOK, Context!Handle, Context!Accepts, Context!Speaks,
             Context!Speakers
    <2> QED
      BY <2>1, <2>2, <2>3, <2>4, <2>5, <2>6
         DEF Context!ContextTypeOK, CallType, PipelineType
  <1>2. StagesInv'
    BY <1>0
       DEF StagesInv, Context!ContextTypeOK, CallType, Context!Handle,
           Context!Accepts, Context!Speaks, Context!Speakers
  <1>3. SaidInv'
    BY <1>0
       DEF SaidInv, Context!ContextTypeOK, CallType, Context!Handle, Context!Accepts,
           Context!Speaks, Context!Speakers
  <1>4. AcceptedInv'
    BY <1>0
       DEF AcceptedInv, RepliedIsTrue, Context!RepliedIsTrue, StagesInv,
           Context!ContextTypeOK, CallType, Context!Handle, Context!Accepts,
           Context!Speaks, Context!Speakers
  <1>5. RepliedIsTrue'
    BY <1>0
       DEF RepliedIsTrue, Context!RepliedIsTrue, AcceptedInv, StagesInv,
           Context!ContextTypeOK, CallType, Context!Handle, Context!Accepts,
           Context!Speaks, Context!Speakers
  <1>6. AskedInv'
    <2>1. ASSUME NEW d \in Calls, d # c
          PROVE  call'[d].kind = "prompt" =>
                   /\ call'[d].stage = "accepted" =>
                        \E i \in 1 .. Len(said') : said'[i] = Bot
                   /\ call'[d].stage = "listening" =>
                        \E i \in 1 .. call'[d].since : said'[i] = Bot
                   /\ call'[d].stage = "done" => call'[d].answer \in 1 .. Len(said')
      <3>1. call[d].since \in 0 .. Len(said) /\ call'[d] = call[d]
        BY <1>0, <1>c, <1>s, <2>1 DEF Context!ContextTypeOK, SaidInv
      <3>2. call[d].kind = "prompt" =>
              /\ call[d].stage = "accepted" => \E i \in 1 .. Len(said) : said[i] = Bot
              /\ call[d].stage = "listening" => \E i \in 1 .. call[d].since : said[i] = Bot
              /\ call[d].stage = "done" => call[d].answer \in 1 .. Len(said)
        BY <1>0 DEF AskedInv
      <3>3. /\ Len(said) \in Nat /\ Len(said') >= Len(said) /\ Len(said') \in Nat
            /\ \A i \in 1 .. Len(said) : said'[i] = said[i]
        BY <1>s
      <3>4. 1 .. Len(said) \subseteq 1 .. Len(said')
        BY <3>3
      <3>5. 1 .. call[d].since \subseteq 1 .. Len(said)
        BY <3>1, <3>3
      <3> QED
        BY <3>1, <3>2, <3>3, <3>4, <3>5
    <2>2. call'[c].kind = "prompt" =>
            /\ call'[c].stage = "accepted" => \E i \in 1 .. Len(said') : said'[i] = Bot
            /\ call'[c].stage \notin {"listening", "done"}
      <3>1. call[c] \in CallType
        BY <1>0 DEF Context!ContextTypeOK, CallType
      <3> QED
        BY <1>s, <1>c, <3>1 DEF CallType
    <2> QED
      BY <2>1, <2>2 DEF AskedInv
  <1>7. AnswersAreTheAskers'
    <2>1. /\ call'[c].kind = call[c].kind /\ call'[c].stage \in {"accepted", "rejected"}
          /\ channelGone' = channelGone
      <3>1. call[c] \in CallType
        BY <1>0 DEF Context!ContextTypeOK, CallType
      <3> QED
        BY <1>c, <3>1 DEF CallType, Context!Handle
    <2>2. ASSUME NEW d \in Calls \ {c}, call[d].kind = "prompt", call[d].stage = "done"
          PROVE  /\ said'[call[d].answer] = Asker
                 /\ \A i \in call[d].since + 1 .. call[d].answer - 1 : said'[i] # Asker
                 /\ \E i \in 1 .. call[d].since : said'[i] = Bot
      <3>1. call[d].answer \in 1 .. Len(said)
        BY <1>0, <2>2 DEF AskedInv
      <3>2. call[d].since \in 0 .. Len(said)
        BY <1>0 DEF Context!ContextTypeOK, SaidInv
      <3>3. /\ call[d].since + 1 .. call[d].answer - 1 \subseteq 1 .. Len(said)
            /\ 1 .. call[d].since \subseteq 1 .. Len(said)
        <4>1. /\ Len(said) \in Nat /\ call[d].since \in Nat /\ call[d].answer \in Nat
              /\ call[d].since <= Len(said) /\ call[d].answer <= Len(said)
          BY <1>s, <3>1, <3>2
        <4>2. call[d].since + 1 .. call[d].answer - 1 \subseteq 1 .. Len(said)
          BY <4>1
        <4>3. 1 .. call[d].since \subseteq 1 .. Len(said)
          BY <4>1
        <4> QED
          BY <4>2, <4>3
      <3>4. /\ said[call[d].answer] = Asker
            /\ \A i \in call[d].since + 1 .. call[d].answer - 1 : said[i] # Asker
            /\ \E i \in 1 .. call[d].since : said[i] = Bot
        BY <1>0, <2>2 DEF AnswersAreTheAskers, Context!AnswersAreTheAskers
      <3> QED
        BY <1>s, <3>1, <3>3, <3>4
    <2>3. ASSUME NEW d \in Calls \ {c}, call[d].kind = "prompt",
                 call[d].stage = "listening", NEW i \in call[d].since + 1 .. Len(said')
          PROVE  said'[i] # Asker
      <3>1. CASE said' = said
        BY <1>0, <2>3, <3>1 DEF AnswersAreTheAskers, Context!AnswersAreTheAskers
      <3>2. CASE said' = Append(said, Bot) /\ i = Len(said) + 1
        BY <1>s, <3>2 DEF Context!Speakers
      <3>3. CASE said' = Append(said, Bot) /\ i # Len(said) + 1
        <4>1. call[d].since \in Nat /\ Len(said) \in Nat /\ Len(said') = Len(said) + 1
          BY <1>0, <1>s, <3>3 DEF Context!ContextTypeOK
        <4>2. i \in call[d].since + 1 .. Len(said) /\ i \in 1 .. Len(said)
          BY <2>3, <3>3, <4>1
        <4>3. said[i] # Asker
          BY <1>0, <2>3, <4>2 DEF AnswersAreTheAskers, Context!AnswersAreTheAskers
        <4> QED
          BY <1>s, <4>2, <4>3
      <3> QED
        BY <3>1, <3>2, <3>3 DEF Context!Handle
    <2> QED
      <3> SUFFICES ASSUME NEW d \in Calls, call'[d].kind = "prompt"
                   PROVE  /\ call'[d].stage = "done" =>
                               /\ said'[call'[d].answer] = Asker
                               /\ \A i \in call'[d].since + 1 .. call'[d].answer - 1 :
                                     said'[i] # Asker
                               /\ \E i \in 1 .. call'[d].since : said'[i] = Bot
                          /\ call'[d].stage = "null" => channelGone'
                          /\ call'[d].stage = "listening" =>
                               \A i \in call'[d].since + 1 .. Len(said') : said'[i] # Asker
        BY DEF AnswersAreTheAskers, Context!AnswersAreTheAskers
      <3>1. CASE d = c
        BY <2>1, <3>1
      <3>2. CASE d # c
        <4>1. call'[d] = call[d]
          BY <1>c, <3>2
        <4>2. call[d].stage = "null" => channelGone
          BY <1>0, <4>1 DEF AnswersAreTheAskers, Context!AnswersAreTheAskers
        <4> QED
          BY <2>1, <2>2, <2>3, <3>2, <4>1, <4>2
      <3> QED
        BY <3>1, <3>2
  <1> QED
    BY <1>1, <1>2, <1>3, <1>4, <1>5, <1>6, <1>7 DEF IInv

\* An answer reaches a call.
LEMMA ReturnStep ==
  ASSUME IInv, NEW c \in Calls, Context!Return(c)
  PROVE  IInv'
  <1> USE SpeakersAssumption, BoundsAssumption
  <1>0. /\ Context!ContextTypeOK /\ StagesInv /\ SaidInv /\ AcceptedInv
        /\ RepliedIsTrue /\ AskedInv /\ AnswersAreTheAskers
    BY DEF IInv
  <1>1. Context!ContextTypeOK'
    <2>1. call' \in [Calls -> CallType]
      <3>1. call \in [Calls -> CallType] /\ Len(said) \in 0 .. MaxSaid
        BY <1>0 DEF Context!ContextTypeOK, CallType, SaidInv
      <3>2. PICK r \in CallType : call' = [call EXCEPT ![c] = r]
        <4>1. [call[c] EXCEPT !.stage = "listening", !.since = Len(said)] \in CallType
          BY <3>1 DEF CallType, Context!Stages
        <4>2. /\ [call[c] EXCEPT !.stage = "done"] \in CallType
              /\ [call[c] EXCEPT !.stage = "thrown"] \in CallType
          BY <3>1 DEF CallType, Context!Stages
        <4> QED
          BY <3>1, <4>1, <4>2 DEF Context!Return
      <3> QED
        BY <3>1, <3>2
    <2>2. pipeline' \in PipelineType
      BY <1>0 DEF PipelineType, Context!ContextTypeOK, Context!Return
    <2>3. said' \in Seq(Context!Speakers)
      BY <1>0 DEF Context!ContextTypeOK, Context!Speakers, Context!Return
    <2>4. acknowledged' \in {"no", "reply", "defer"}
      BY <1>0 DEF Context!ContextTypeOK, Context!Return
    <2>5. voice' \in {"fetching", "known", "null", "rejected"}
      BY <1>0 DEF Context!ContextTypeOK, Context!Return
    <2>6. channelGone' \in BOOLEAN /\ alive' \in BOOLEAN
      BY <1>0 DEF Context!ContextTypeOK, Context!Return
    <2> QED
      BY <2>1, <2>2, <2>3, <2>4, <2>5, <2>6
         DEF Context!ContextTypeOK, CallType, PipelineType
  <1>2. StagesInv'
    BY <1>0 DEF StagesInv, Context!ContextTypeOK, CallType, Context!Return
  <1>3. SaidInv'
    BY <1>0 DEF SaidInv, Context!ContextTypeOK, CallType, Context!Return
  <1>4. AcceptedInv'
    BY <1>0
       DEF AcceptedInv, RepliedIsTrue, Context!RepliedIsTrue, StagesInv,
           Context!ContextTypeOK, CallType, Context!Return
  <1>5. RepliedIsTrue'
    BY <1>0
       DEF RepliedIsTrue, Context!RepliedIsTrue, AcceptedInv, StagesInv,
           Context!ContextTypeOK, CallType, Context!Return
  <1>6. AskedInv'
    BY <1>0
       DEF AskedInv, StagesInv, Context!ContextTypeOK, SaidInv, CallType,
           Context!Return
  <1>7. AnswersAreTheAskers'
    BY <1>0
       DEF AnswersAreTheAskers, Context!AnswersAreTheAskers, AskedInv, SaidInv,
           StagesInv, Context!ContextTypeOK, CallType, Context!Return
  <1> QED
    BY <1>1, <1>2, <1>3, <1>4, <1>5, <1>6, <1>7 DEF IInv

\* A request, or its answer, is lost.
LEMMA LoseStep ==
  ASSUME IInv, NEW c \in Calls, Context!Lose(c)
  PROVE  IInv'
  <1> USE SpeakersAssumption, BoundsAssumption
  <1>0. /\ Context!ContextTypeOK /\ StagesInv /\ SaidInv /\ AcceptedInv
        /\ RepliedIsTrue /\ AskedInv /\ AnswersAreTheAskers
    BY DEF IInv
  <1>1. Context!ContextTypeOK'
    <2>1. call' \in [Calls -> CallType]
      <3>1. call \in [Calls -> CallType]
        BY <1>0 DEF Context!ContextTypeOK, CallType
      <3>2. [call[c] EXCEPT !.stage = "rejected"] \in CallType
        BY <3>1 DEF CallType, Context!Stages
      <3>3. call' = [call EXCEPT ![c] = [call[c] EXCEPT !.stage = "rejected"]]
        BY DEF Context!Lose
      <3> QED
        BY <3>1, <3>2, <3>3
    <2>2. pipeline' \in PipelineType
      BY <1>0 DEF PipelineType, Context!ContextTypeOK, Context!Lose
    <2>3. said' \in Seq(Context!Speakers)
      BY <1>0 DEF Context!ContextTypeOK, Context!Speakers, Context!Lose
    <2>4. acknowledged' \in {"no", "reply", "defer"}
      BY <1>0 DEF Context!ContextTypeOK, Context!Lose
    <2>5. voice' \in {"fetching", "known", "null", "rejected"}
      BY <1>0 DEF Context!ContextTypeOK, Context!Lose
    <2>6. channelGone' \in BOOLEAN /\ alive' \in BOOLEAN
      BY <1>0 DEF Context!ContextTypeOK, Context!Lose
    <2> QED
      BY <2>1, <2>2, <2>3, <2>4, <2>5, <2>6
         DEF Context!ContextTypeOK, CallType, PipelineType
  <1>c. /\ said' = said /\ channelGone' = channelGone
        /\ \A d \in Calls : /\ call'[d].kind = call[d].kind
                            /\ call'[d].since = call[d].since
                            /\ call'[d].answer = call[d].answer
                            /\ call'[d].stage \in {call[d].stage, "rejected"}
    BY <1>0 DEF Context!ContextTypeOK, Context!Lose
  <1>2. StagesInv'
    BY <1>0 DEF StagesInv, Context!ContextTypeOK, CallType, Context!Lose
  <1>3. SaidInv'
    BY <1>0 DEF SaidInv, Context!ContextTypeOK, CallType, Context!Lose
  <1>4. AcceptedInv'
    BY <1>0
       DEF AcceptedInv, RepliedIsTrue, Context!RepliedIsTrue, StagesInv,
           Context!ContextTypeOK, CallType, Context!Lose
  <1>5. RepliedIsTrue'
    BY <1>0
       DEF RepliedIsTrue, Context!RepliedIsTrue, AcceptedInv, StagesInv,
           Context!ContextTypeOK, CallType, Context!Lose
  <1>6. AskedInv'
    BY <1>0, <1>c DEF AskedInv
  <1>7. AnswersAreTheAskers'
    BY <1>0, <1>c DEF AnswersAreTheAskers, Context!AnswersAreTheAskers
  <1> QED
    BY <1>1, <1>2, <1>3, <1>4, <1>5, <1>6, <1>7 DEF IInv

\* The voice channel is known or not.
LEMMA VoiceStep ==
  ASSUME IInv, Context!VoiceFetched
  PROVE  IInv'
  <1> USE SpeakersAssumption, BoundsAssumption
  <1>0. /\ Context!ContextTypeOK /\ StagesInv /\ SaidInv /\ AcceptedInv
        /\ RepliedIsTrue /\ AskedInv /\ AnswersAreTheAskers
    BY DEF IInv
  <1>1. Context!ContextTypeOK'
    <2>1. call' \in [Calls -> CallType]
      <3>1. call \in [Calls -> CallType]
        BY <1>0 DEF Context!ContextTypeOK, CallType
      <3>2. ASSUME NEW d \in Calls
            PROVE  /\ call'[d] \in {call[d], [call[d] EXCEPT !.stage = "done"],
                                   [call[d] EXCEPT !.stage = "thrown"]}
                   /\ call' = [e \in Calls |-> call'[e]]
        BY DEF Context!VoiceFetched
      <3>3. ASSUME NEW d \in Calls PROVE call'[d] \in CallType
        BY <3>1, <3>2 DEF CallType, Context!Stages
      <3>4. call' = [e \in Calls |-> call'[e]]
        BY DEF Context!VoiceFetched
      <3> QED
        BY <3>3, <3>4
    <2>2. pipeline' \in PipelineType
      BY <1>0 DEF PipelineType, Context!ContextTypeOK, Context!VoiceFetched
    <2>3. said' \in Seq(Context!Speakers)
      BY <1>0 DEF Context!ContextTypeOK, Context!Speakers, Context!VoiceFetched
    <2>4. acknowledged' \in {"no", "reply", "defer"}
      BY <1>0 DEF Context!ContextTypeOK, Context!VoiceFetched
    <2>5. voice' \in {"fetching", "known", "null", "rejected"}
      BY <1>0 DEF Context!ContextTypeOK, Context!VoiceFetched
    <2>6. channelGone' \in BOOLEAN /\ alive' \in BOOLEAN
      BY <1>0 DEF Context!ContextTypeOK, Context!VoiceFetched
    <2> QED
      BY <2>1, <2>2, <2>3, <2>4, <2>5, <2>6
         DEF Context!ContextTypeOK, CallType, PipelineType
  <1>2. StagesInv'
    BY <1>0 DEF StagesInv, Context!ContextTypeOK, CallType, Context!VoiceFetched
  <1>3. SaidInv'
    BY <1>0 DEF SaidInv, Context!ContextTypeOK, CallType, Context!VoiceFetched
  <1>4. AcceptedInv'
    BY <1>0
       DEF AcceptedInv, RepliedIsTrue, Context!RepliedIsTrue, StagesInv,
           Context!ContextTypeOK, CallType, Context!VoiceFetched
  <1>5. RepliedIsTrue'
    BY <1>0
       DEF RepliedIsTrue, Context!RepliedIsTrue, AcceptedInv, StagesInv,
           Context!ContextTypeOK, CallType, Context!VoiceFetched
  <1>6. AskedInv'
    BY <1>0
       DEF AskedInv, StagesInv, Context!ContextTypeOK, SaidInv, CallType,
           Context!VoiceFetched
  <1>7. AnswersAreTheAskers'
    BY <1>0
       DEF AnswersAreTheAskers, Context!AnswersAreTheAskers, AskedInv, SaidInv,
           StagesInv, Context!ContextTypeOK, CallType, Context!VoiceFetched
  <1> QED
    BY <1>1, <1>2, <1>3, <1>4, <1>5, <1>6, <1>7 DEF IInv

\* Somebody speaks.
LEMMA SayStep ==
  ASSUME IInv, NEW user \in Others \union {Asker}, Context!Say(user)
  PROVE  IInv'
  <1> USE SpeakersAssumption, BoundsAssumption
  <1>0. /\ Context!ContextTypeOK /\ StagesInv /\ SaidInv /\ AcceptedInv
        /\ RepliedIsTrue /\ AskedInv /\ AnswersAreTheAskers
    BY DEF IInv
  <1>s. /\ said \in Seq(Context!Speakers) /\ Len(said) \in Nat
        /\ said' \in Seq(Context!Speakers) /\ Len(said') = Len(said) + 1
        /\ Len(said) < MaxSaid
        /\ \A i \in 1 .. Len(said) : said'[i] = said[i]
        /\ said'[Len(said) + 1] = user
    <2>1. said \in Seq(Context!Speakers) /\ user \in Context!Speakers
      BY <1>0 DEF Context!ContextTypeOK, Context!Speakers
    <2>2. said' = Append(said, user) /\ Len(said) < MaxSaid
      BY DEF Context!Say
    <2> QED
      BY <2>1, <2>2
  <1>c. ASSUME NEW d \in Calls
        PROVE  \/ /\ call[d].stage = "listening" /\ user = Asker
                  /\ call'[d].stage = "done" /\ call'[d].answer = Len(said) + 1
                  /\ call'[d].kind = call[d].kind /\ call'[d].own = call[d].own
                  /\ call'[d].since = call[d].since
                  /\ call'[d] \in CallType
               \/ ~(call[d].stage = "listening" /\ user = Asker) /\ call'[d] = call[d]
    <2>1. call[d] \in CallType /\ Len(said) + 1 \in 0 .. MaxSaid
      BY <1>0, <1>s DEF Context!ContextTypeOK, CallType
    <2>2. call[d].stage = "listening" /\ user = Asker =>
            call'[d] = [call[d] EXCEPT !.stage = "done", !.answer = Len(said) + 1]
      BY DEF Context!Say, Context!Collects
    <2>3. ~(call[d].stage = "listening" /\ user = Asker) => call'[d] = call[d]
      BY DEF Context!Say, Context!Collects
    <2> QED
      BY <2>1, <2>2, <2>3 DEF CallType, Context!Stages
  <1>1. Context!ContextTypeOK'
    <2>1. call' \in [Calls -> CallType]
      <3>1. call \in [Calls -> CallType] /\ Len(said) + 1 \in 0 .. MaxSaid
        BY <1>0, <1>s DEF Context!ContextTypeOK, CallType
      <3>2. ASSUME NEW d \in Calls PROVE call'[d] \in CallType
        BY <1>c, <3>1 DEF CallType, Context!Stages
      <3>3. call' = [e \in Calls |-> call'[e]]
        BY DEF Context!Say
      <3> QED
        BY <3>2, <3>3
    <2>2. pipeline' \in PipelineType
      BY <1>0
         DEF PipelineType, Context!ContextTypeOK, Context!Say, Context!Collects,
             Context!Speakers
    <2>3. said' \in Seq(Context!Speakers)
      BY <1>s
    <2>4. acknowledged' \in {"no", "reply", "defer"}
      BY <1>0
         DEF Context!ContextTypeOK, Context!Say, Context!Collects, Context!Speakers
    <2>5. voice' \in {"fetching", "known", "null", "rejected"}
      BY <1>0
         DEF Context!ContextTypeOK, Context!Say, Context!Collects, Context!Speakers
    <2>6. channelGone' \in BOOLEAN /\ alive' \in BOOLEAN
      BY <1>0
         DEF Context!ContextTypeOK, Context!Say, Context!Collects, Context!Speakers
    <2> QED
      BY <2>1, <2>2, <2>3, <2>4, <2>5, <2>6
         DEF Context!ContextTypeOK, CallType, PipelineType
  <1>2. StagesInv'
    BY <1>0
       DEF StagesInv, Context!ContextTypeOK, CallType, Context!Say, Context!Collects,
           Context!Speakers
  <1>3. SaidInv'
    <2>1. ASSUME NEW d \in Calls
          PROVE  call'[d].since <= Len(said') /\ call'[d].answer <= Len(said')
      <3>1. call[d] \in CallType
        BY <1>0 DEF Context!ContextTypeOK, CallType
      <3> QED
        BY <1>0, <1>s, <1>c, <3>1 DEF SaidInv, CallType
    <2> QED
      BY <1>s, <2>1 DEF SaidInv
  <1>4. AcceptedInv'
    BY <1>0
       DEF AcceptedInv, RepliedIsTrue, Context!RepliedIsTrue, StagesInv,
           Context!ContextTypeOK, CallType, Context!Say, Context!Collects,
           Context!Speakers
  <1>5. RepliedIsTrue'
    BY <1>0
       DEF RepliedIsTrue, Context!RepliedIsTrue, AcceptedInv, StagesInv,
           Context!ContextTypeOK, CallType, Context!Say, Context!Collects,
           Context!Speakers
  <1>6. AskedInv'
    <2>1. ASSUME NEW d \in Calls, call'[d].kind = "prompt"
          PROVE  /\ call'[d].stage = "accepted" =>
                      \E i \in 1 .. Len(said') : said'[i] = Bot
                 /\ call'[d].stage = "listening" =>
                      \E i \in 1 .. call'[d].since : said'[i] = Bot
                 /\ call'[d].stage = "done" => call'[d].answer \in 1 .. Len(said')
      <3>1. call[d] \in CallType /\ call[d].since <= Len(said)
        BY <1>0 DEF Context!ContextTypeOK, CallType, SaidInv
      <3>2. /\ Len(said) \in Nat /\ Len(said') = Len(said) + 1
            /\ \A i \in 1 .. Len(said) : said'[i] = said[i]
        BY <1>s
      <3>3. call[d].since \in 0 .. Len(said)
        BY <3>1, <3>2 DEF CallType
      <3>4. /\ 1 .. Len(said) \subseteq 1 .. Len(said')
            /\ 1 .. call[d].since \subseteq 1 .. Len(said)
            /\ Len(said) + 1 \in 1 .. Len(said')
        BY <3>2, <3>3
      <3>5. CASE /\ call[d].stage = "listening" /\ call'[d].stage = "done"
                 /\ call'[d].answer = Len(said) + 1
        BY <3>4, <3>5
      <3>6. CASE call'[d] = call[d]
        <4>1. /\ call[d].stage = "accepted" => \E i \in 1 .. Len(said) : said[i] = Bot
              /\ call[d].stage = "listening" =>
                   \E i \in 1 .. call[d].since : said[i] = Bot
              /\ call[d].stage = "done" => call[d].answer \in 1 .. Len(said)
          BY <1>0, <2>1, <3>6 DEF AskedInv
        <4> QED
          BY <3>2, <3>4, <3>6, <4>1
      <3> QED
        BY <1>c, <3>5, <3>6
    <2> QED
      BY <2>1 DEF AskedInv
  <1>7. AnswersAreTheAskers'
    <2>1. ASSUME NEW d \in Calls, call'[d].kind = "prompt"
          PROVE  /\ call'[d].stage = "done" =>
                      /\ said'[call'[d].answer] = Asker
                      /\ \A i \in call'[d].since + 1 .. call'[d].answer - 1 :
                            said'[i] # Asker
                      /\ \E i \in 1 .. call'[d].since : said'[i] = Bot
                 /\ call'[d].stage = "null" => channelGone'
                 /\ call'[d].stage = "listening" =>
                      \A i \in call'[d].since + 1 .. Len(said') : said'[i] # Asker
      <3>1. call[d].since \in 0 .. Len(said) /\ call[d].answer \in 0 .. Len(said)
        BY <1>0, <1>s DEF Context!ContextTypeOK, SaidInv
      <3>2. CASE call[d].stage = "listening" /\ user = Asker
        <4>1. /\ call[d].kind = "prompt" /\ call'[d].since = call[d].since
              /\ call'[d].answer = Len(said) + 1 /\ call'[d].stage = "done"
          BY <1>c, <2>1, <3>2
        <4>2. \E i \in 1 .. call[d].since : said[i] = Bot
          BY <1>0, <3>2, <4>1 DEF AskedInv
        <4>3. \A i \in call[d].since + 1 .. Len(said) : said[i] # Asker
          BY <1>0, <3>2, <4>1 DEF AnswersAreTheAskers, Context!AnswersAreTheAskers
        <4>4. /\ Len(said) \in Nat /\ said'[Len(said) + 1] = Asker
              /\ \A i \in 1 .. Len(said) : said'[i] = said[i]
          BY <1>s, <3>2
        <4>5. /\ 1 .. call[d].since \subseteq 1 .. Len(said)
              /\ call[d].since + 1 .. Len(said) \subseteq 1 .. Len(said)
          BY <3>1, <4>4
        <4>6. call'[d].answer - 1 = Len(said)
          BY <4>1, <4>4
        <4>7. \A i \in call[d].since + 1 .. Len(said) : said'[i] # Asker
          BY <4>3, <4>4, <4>5
        <4>8. \E i \in 1 .. call[d].since : said'[i] = Bot
          BY <4>2, <4>4, <4>5
        <4> QED
          BY <4>1, <4>4, <4>6, <4>7, <4>8
      <3>3. CASE ~(call[d].stage = "listening" /\ user = Asker)
        <4>1. call'[d] = call[d] /\ channelGone' = channelGone
          BY <1>c, <3>3 DEF Context!Say
        <4>2. call[d].stage = "done" =>
                /\ call[d].answer \in 1 .. Len(said)
                /\ said[call[d].answer] = Asker
                /\ \A i \in call[d].since + 1 .. call[d].answer - 1 : said[i] # Asker
                /\ \E i \in 1 .. call[d].since : said[i] = Bot
          BY <1>0, <2>1, <4>1
             DEF AskedInv, AnswersAreTheAskers, Context!AnswersAreTheAskers
        <4>3. /\ call[d].stage = "null" => channelGone
              /\ call[d].stage = "listening" =>
                   \A i \in call[d].since + 1 .. Len(said) : said[i] # Asker
          BY <1>0, <2>1, <4>1 DEF AnswersAreTheAskers, Context!AnswersAreTheAskers
        <4>4. CASE call[d].stage = "done"
          <5>1. ASSUME NEW i \in call[d].since + 1 .. call[d].answer - 1
                PROVE  said'[i] # Asker
            <6>1. i \in 1 .. Len(said)
              <7>1. /\ Len(said) \in Nat /\ call[d].since \in Nat
                    /\ call[d].answer \in 1 .. Len(said)
                BY <1>s, <3>1, <4>2, <4>4
              <7> QED
                BY <5>1, <7>1, Between
            <6>2. said[i] # Asker
              BY <4>2, <4>4
            <6> QED
              BY <1>s, <6>1, <6>2
          <5>2. \E i \in 1 .. call[d].since : said'[i] = Bot
            BY <1>s, <3>1, <4>2, <4>4
          <5>3. said'[call[d].answer] = Asker
            BY <1>s, <4>2, <4>4
          <5> QED
            BY <4>1, <4>4, <5>1, <5>2, <5>3
        <4>5. CASE call[d].stage # "done"
          <5>1. ASSUME NEW i \in call[d].since + 1 .. Len(said'),
                       call[d].stage = "listening"
                PROVE  said'[i] # Asker
            <6>1. CASE i = Len(said) + 1
              BY <1>s, <3>3, <5>1, <6>1
            <6>2. CASE i # Len(said) + 1
              <7>1. i \in call[d].since + 1 .. Len(said) /\ i \in 1 .. Len(said)
                BY <1>s, <3>1, <6>2
              <7>2. said[i] # Asker
                BY <4>3, <5>1, <7>1
              <7> QED
                BY <1>s, <7>1, <7>2
            <6> QED
              BY <6>1, <6>2
          <5> QED
            BY <4>1, <4>3, <4>5, <5>1
        <4> QED
          BY <4>4, <4>5
      <3> QED
        BY <3>2, <3>3
    <2> QED
      BY <2>1 DEF AnswersAreTheAskers, Context!AnswersAreTheAskers
  <1> QED
    BY <1>1, <1>2, <1>3, <1>4, <1>5, <1>6, <1>7 DEF IInv

\* The paginator speaks.
LEMMA PagesSentStep ==
  ASSUME IInv, Len(said) < MaxSaid, said' = Append(said, Bot), alive' \in BOOLEAN,
         UNCHANGED <<pipeline, acknowledged, voice, call, channelGone>>
  PROVE  IInv'
  <1> USE SpeakersAssumption, BoundsAssumption
  <1>0. /\ Context!ContextTypeOK /\ StagesInv /\ SaidInv /\ AcceptedInv
        /\ RepliedIsTrue /\ AskedInv /\ AnswersAreTheAskers
    BY DEF IInv
  <1>1. Context!ContextTypeOK'
    <2>1. call' \in [Calls -> CallType]
      BY <1>0
         DEF Context!ContextTypeOK, SaidInv, CallType, Context!Kinds, Context!Stages,
             Context!Speakers
    <2>2. pipeline' \in PipelineType
      BY <1>0 DEF PipelineType, Context!ContextTypeOK, Context!Speakers
    <2>3. said' \in Seq(Context!Speakers)
      BY <1>0 DEF Context!ContextTypeOK, Context!Speakers, Context!Speakers
    <2>4. acknowledged' \in {"no", "reply", "defer"}
      BY <1>0 DEF Context!ContextTypeOK, Context!Speakers
    <2>5. voice' \in {"fetching", "known", "null", "rejected"}
      BY <1>0 DEF Context!ContextTypeOK, Context!Speakers
    <2>6. channelGone' \in BOOLEAN /\ alive' \in BOOLEAN
      BY <1>0 DEF Context!ContextTypeOK, Context!Speakers
    <2> QED
      BY <2>1, <2>2, <2>3, <2>4, <2>5, <2>6
         DEF Context!ContextTypeOK, CallType, PipelineType
  <1>2. StagesInv'
    BY <1>0 DEF StagesInv, Context!ContextTypeOK, CallType, Context!Speakers
  <1>3. SaidInv'
    BY <1>0 DEF SaidInv, Context!ContextTypeOK, CallType, Context!Speakers
  <1>4. AcceptedInv'
    BY <1>0
       DEF AcceptedInv, RepliedIsTrue, Context!RepliedIsTrue, StagesInv,
           Context!ContextTypeOK, CallType, Context!Speakers
  <1>5. RepliedIsTrue'
    BY <1>0
       DEF RepliedIsTrue, Context!RepliedIsTrue, AcceptedInv, StagesInv,
           Context!ContextTypeOK, CallType, Context!Speakers
  <1>6. AskedInv'
    BY <1>0
       DEF AskedInv, StagesInv, Context!ContextTypeOK, SaidInv, CallType,
           Context!Speakers
  <1>7. AnswersAreTheAskers'
    <2>1. said \in Seq(Context!Speakers) /\ Bot \in Context!Speakers
      BY <1>0 DEF Context!ContextTypeOK, Context!Speakers
    <2>2. \A n \in 1 .. Len(said) : said'[n] = said[n]
      BY <2>1, OneMoreSaid
    <2>3. Len(said') = Len(said) + 1 /\ said'[Len(said) + 1] = Bot /\ Len(said) \in Nat
      BY <2>1, OneMoreSaid
    <2>4. Bot # Asker
      BY DEF Context!Speakers
    <2> SUFFICES ASSUME NEW d \in Calls, call[d].kind = "prompt"
                 PROVE  /\ call[d].stage = "done" =>
                             /\ said'[call[d].answer] = Asker
                             /\ \A n \in call[d].since + 1 .. call[d].answer - 1 :
                                   said'[n] # Asker
                             /\ \E n \in 1 .. call[d].since : said'[n] = Bot
                        /\ call[d].stage = "null" => channelGone'
                        /\ call[d].stage = "listening" =>
                              \A n \in call[d].since + 1 .. Len(said') : said'[n] # Asker
      BY DEF AnswersAreTheAskers, Context!AnswersAreTheAskers
    <2>5. /\ call[d].since \in Nat /\ call[d].since <= Len(said)
          /\ call[d].stage = "done" => call[d].answer \in 1 .. Len(said)
      BY <1>0 DEF SaidInv, AskedInv, Context!ContextTypeOK
    <2>6. /\ call[d].stage = "done" =>
               /\ said[call[d].answer] = Asker
               /\ \A n \in call[d].since + 1 .. call[d].answer - 1 : said[n] # Asker
               /\ \E n \in 1 .. call[d].since : said[n] = Bot
          /\ call[d].stage = "null" => channelGone
          /\ call[d].stage = "listening" =>
                \A n \in call[d].since + 1 .. Len(said) : said[n] # Asker
      BY <1>0 DEF AnswersAreTheAskers, Context!AnswersAreTheAskers
    <2>7. CASE call[d].stage = "done"
      <3>1. \A n \in call[d].since + 1 .. call[d].answer - 1 : n \in 1 .. Len(said)
        BY <2>3, <2>5, <2>7, Between
      <3>2. \A n \in 1 .. call[d].since : n \in 1 .. Len(said)
        BY <2>3, <2>5
      <3> QED
        BY <2>2, <2>5, <2>6, <2>7, <3>1, <3>2
    <2>8. CASE call[d].stage = "listening"
      <3>1. \A n \in call[d].since + 1 .. Len(said') :
                  n = Len(said) + 1 \/ (n \in 1 .. Len(said) /\ n >= call[d].since + 1)
        BY <2>3, <2>5
      <3>2. \A n \in 1 .. Len(said) :
                  n >= call[d].since + 1 => n \in call[d].since + 1 .. Len(said)
        BY <2>3, <2>5
      <3> QED
        BY <2>2, <2>3, <2>4, <2>6, <2>8, <3>1, <3>2
    <2> QED
      BY <2>6, <2>7, <2>8
  <1> QED
    BY <1>1, <1>2, <1>3, <1>4, <1>5, <1>6, <1>7 DEF IInv

\* The channel is gone.
LEMMA EndsStep ==
  ASSUME IInv, Context!ChannelEnds
  PROVE  IInv'
  <1> USE SpeakersAssumption, BoundsAssumption
  <1>0. /\ Context!ContextTypeOK /\ StagesInv /\ SaidInv /\ AcceptedInv
        /\ RepliedIsTrue /\ AskedInv /\ AnswersAreTheAskers
    BY DEF IInv
  <1>1. Context!ContextTypeOK'
    <2>1. call' \in [Calls -> CallType]
      <3>1. call \in [Calls -> CallType]
        BY <1>0 DEF Context!ContextTypeOK, CallType
      <3>2. ASSUME NEW d \in Calls PROVE call'[d] \in CallType
        BY <3>1 DEF Context!ChannelEnds, CallType, Context!Stages
      <3>3. call' = [e \in Calls |-> call'[e]]
        BY DEF Context!ChannelEnds
      <3> QED
        BY <3>2, <3>3
    <2>2. pipeline' \in PipelineType
      BY <1>0 DEF PipelineType, Context!ContextTypeOK, Context!ChannelEnds
    <2>3. said' \in Seq(Context!Speakers)
      BY <1>0 DEF Context!ContextTypeOK, Context!Speakers, Context!ChannelEnds
    <2>4. acknowledged' \in {"no", "reply", "defer"}
      BY <1>0 DEF Context!ContextTypeOK, Context!ChannelEnds
    <2>5. voice' \in {"fetching", "known", "null", "rejected"}
      BY <1>0 DEF Context!ContextTypeOK, Context!ChannelEnds
    <2>6. channelGone' \in BOOLEAN /\ alive' \in BOOLEAN
      BY <1>0 DEF Context!ContextTypeOK, Context!ChannelEnds
    <2> QED
      BY <2>1, <2>2, <2>3, <2>4, <2>5, <2>6
         DEF Context!ContextTypeOK, CallType, PipelineType
  <1>2. StagesInv'
    BY <1>0 DEF StagesInv, Context!ContextTypeOK, CallType, Context!ChannelEnds
  <1>3. SaidInv'
    BY <1>0 DEF SaidInv, Context!ContextTypeOK, CallType, Context!ChannelEnds
  <1>4. AcceptedInv'
    BY <1>0
       DEF AcceptedInv, RepliedIsTrue, Context!RepliedIsTrue, StagesInv,
           Context!ContextTypeOK, CallType, Context!ChannelEnds
  <1>5. RepliedIsTrue'
    BY <1>0
       DEF RepliedIsTrue, Context!RepliedIsTrue, AcceptedInv, StagesInv,
           Context!ContextTypeOK, CallType, Context!ChannelEnds
  <1>6. AskedInv'
    BY <1>0
       DEF AskedInv, StagesInv, Context!ContextTypeOK, SaidInv, CallType,
           Context!ChannelEnds
  <1>7. AnswersAreTheAskers'
    BY <1>0
       DEF AnswersAreTheAskers, Context!AnswersAreTheAskers, AskedInv, SaidInv,
           StagesInv, Context!ContextTypeOK, CallType, Context!ChannelEnds
  <1> QED
    BY <1>1, <1>2, <1>3, <1>4, <1>5, <1>6, <1>7 DEF IInv

\* The paginator does something else.
LEMMA QuietStep ==
  ASSUME IInv, UNCHANGED contextOnly, alive' \in BOOLEAN
  PROVE  IInv'
  <1> USE SpeakersAssumption, BoundsAssumption
  <1>0. /\ Context!ContextTypeOK /\ StagesInv /\ SaidInv /\ AcceptedInv
        /\ RepliedIsTrue /\ AskedInv /\ AnswersAreTheAskers
    BY DEF IInv
  <1>1. Context!ContextTypeOK'
    <2>1. call' \in [Calls -> CallType]
      BY <1>0
         DEF Context!ContextTypeOK, SaidInv, CallType, Context!Kinds, Context!Stages,
             contextOnly
    <2>2. pipeline' \in PipelineType
      BY <1>0 DEF PipelineType, Context!ContextTypeOK, contextOnly
    <2>3. said' \in Seq(Context!Speakers)
      BY <1>0 DEF Context!ContextTypeOK, Context!Speakers, contextOnly
    <2>4. acknowledged' \in {"no", "reply", "defer"}
      BY <1>0 DEF Context!ContextTypeOK, contextOnly
    <2>5. voice' \in {"fetching", "known", "null", "rejected"}
      BY <1>0 DEF Context!ContextTypeOK, contextOnly
    <2>6. channelGone' \in BOOLEAN /\ alive' \in BOOLEAN
      BY <1>0 DEF Context!ContextTypeOK, contextOnly
    <2> QED
      BY <2>1, <2>2, <2>3, <2>4, <2>5, <2>6
         DEF Context!ContextTypeOK, CallType, PipelineType
  <1>2. StagesInv'
    BY <1>0 DEF StagesInv, Context!ContextTypeOK, CallType, contextOnly
  <1>3. SaidInv'
    BY <1>0 DEF SaidInv, Context!ContextTypeOK, CallType, contextOnly
  <1>4. AcceptedInv'
    BY <1>0
       DEF AcceptedInv, RepliedIsTrue, Context!RepliedIsTrue, StagesInv,
           Context!ContextTypeOK, CallType, contextOnly
  <1>5. RepliedIsTrue'
    BY <1>0
       DEF RepliedIsTrue, Context!RepliedIsTrue, AcceptedInv, StagesInv,
           Context!ContextTypeOK, CallType, contextOnly
  <1>6. AskedInv'
    BY <1>0
       DEF AskedInv, StagesInv, Context!ContextTypeOK, SaidInv, CallType, contextOnly
  <1>7. AnswersAreTheAskers'
    BY <1>0
       DEF AnswersAreTheAskers, Context!AnswersAreTheAskers, AskedInv, SaidInv,
           StagesInv, Context!ContextTypeOK, CallType, contextOnly
  <1> QED
    BY <1>1, <1>2, <1>3, <1>4, <1>5, <1>6, <1>7 DEF IInv

------------------------------------------------------------------------------
(* The context, whatever the paginator does *)

\* Every step of the two components keeps the invariant of the context.
LEMMA IInvNext ==
  ASSUME IInv, [Next]_vars
  PROVE  IInv'
  <1>0. alive \in BOOLEAN
    BY DEF IInv, Context!ContextTypeOK
  <1>1. ASSUME NEW c \in Calls, Start(c)
        PROVE  IInv'
    BY <1>1, StartSteps, BeginStep DEF Start
  <1>2. ASSUME NEW c \in Calls, Proceed(c) \/ Lose(c)
        PROVE  IInv'
    BY <1>2, FetchedStep, HandleStep, ReturnStep, LoseStep
       DEF Proceed, Lose, Context!Proceed
  <1>3. CASE VoiceFetched
    BY <1>3, VoiceStep DEF VoiceFetched
  <1>4. ASSUME NEW user \in Others \union {Asker}, Say(user)
        PROVE  IInv'
    BY <1>4, SayStep DEF Say
  <1>5. ASSUME NEW s \in Senders, PagesSent(s)
        PROVE  IInv'
    <2>1. alive' \in BOOLEAN
      BY <1>0, <1>5 DEF PagesSent, Pager!NotSent, Pager!Sent
    <2>2. CASE UNCHANGED said
      BY <1>5, <2>1, <2>2, QuietStep DEF PagesSent, contextOnly
    <2>3. CASE Len(said) < MaxSaid /\ said' = Append(said, Bot)
      BY <1>5, <2>1, <2>3, PagesSentStep DEF PagesSent
    <2> QED
      BY <1>5, <2>2, <2>3 DEF PagesSent
  <1>6. ASSUME NEW s \in Senders, SendPages(s) \/ AddEmote(s) \/ CollectorEnds(s)
        PROVE  IInv'
    <2>1. UNCHANGED contextOnly /\ alive' = alive
      BY <1>6
         DEF SendPages, AddEmote, CollectorEnds, Pager!SendComponent, Pager!AddEmote,
             Pager!CollectorEnds
    <2> QED
      BY <1>0, <2>1, QuietStep
  <1>7. CASE Press \/ HearOwn \/ HandleTurn \/ Turned
    <2>1. UNCHANGED contextOnly
      BY <1>7 DEF Press, HearOwn, HandleTurn, Turned
    <2>2. alive' \in {alive, FALSE}
      <3>1. CASE Press \/ HearOwn
        BY <3>1 DEF Press, HearOwn, Pager!Press, Pager!HearOwn, Pager!Collect
      <3>2. CASE HandleTurn
        BY <3>2 DEF HandleTurn, Pager!HandleTurn
      <3>3. CASE Turned
        BY <3>3 DEF Turned, Pager!Turned
      <3> QED
        BY <1>7, <3>1, <3>2, <3>3
    <2> QED
      BY <1>0, <2>1, <2>2, QuietStep
  <1>8. CASE ChannelEnds
    BY <1>8, EndsStep DEF ChannelEnds
  <1>9. CASE UNCHANGED vars
    BY <1>0, <1>9, QuietStep DEF vars
  <1> QED
    BY <1>1, <1>2, <1>3, <1>4, <1>5, <1>6, <1>7, <1>8, <1>9 DEF Next

\* The inductive invariant of the context: the stages of its calls, what the
\* channel has seen and what Discord knows of the interaction go together.
THEOREM Invariance == Spec => []IInv
  BY IInvInit, IInvNext, PTL DEF Spec

\* The variables of the context have the values their code can give, whatever the
\* paginator does.
THEOREM ContextTypeCorrectness == Spec => []Context!ContextTypeOK
  <1>1. IInv => Context!ContextTypeOK
    BY DEF IInv
  <1> QED
    BY Invariance, <1>1, PTL

\* isReplied of a pipeline is set exactly when a reply was answered by Discord, and
\* then it was the reply that acknowledged the interaction.
THEOREM Replied == Spec => []RepliedIsTrue
  <1>1. IInv => RepliedIsTrue
    BY DEF IInv
  <1> QED
    BY Invariance, <1>1, PTL

\* A prompt is answered by the first message its user sends after it was shown.
THEOREM Answers == Spec => []AnswersAreTheAskers
  <1>1. IInv => AnswersAreTheAskers
    BY DEF IInv
  <1> QED
    BY Invariance, <1>1, PTL

------------------------------------------------------------------------------
(* The paginator *)

\* The request for a page, from the reaction to the answer.
TurnType ==
    [what : Pager!Emotes, on : Senders, answered : BOOLEAN, to : 0 .. Pages - 1]

\* Every variable of the paginator has the values its code can give.
PageShape ==
    /\ sender \in [Senders -> Pager!SenderStages]
    /\ isSent \in BOOLEAN
    /\ messageRef \in Senders \union {Pager!NoMessage}
    /\ completed \in BOOLEAN
    /\ index \in 0 .. Pages - 1
    /\ turns \in Seq(TurnType)
    /\ shown \in [Senders -> 0 .. Pages]
    /\ heard \in Seq(Senders \X Pager!Emotes)
    /\ presses \in 0 .. MaxPresses
    /\ net \in Int
    /\ overlapped \in BOOLEAN

\* The component is sent when a message of it has a collector; it holds one of
\* these messages, and no page was turned before.
SentInv ==
    /\ isSent <=> \E s \in Senders : Pager!HasCollector(s)
    /\ isSent => messageRef \in Senders /\ Pager!HasCollector(messageRef)
    /\ ~isSent => turns = <<>> /\ index = 0

\* Discord answers the requests in order.
OrderInv ==
    \A i, j \in DOMAIN turns : i < j /\ turns[j].answered => turns[i].answered

\* The message the component holds is the only one that has a collector.
OnlyMessage == \A s \in Senders : Pager!HasCollector(s) => s = messageRef

LastAnswered(i) ==
    turns[i].answered /\ \A j \in DOMAIN turns : turns[j].answered => j <= i

\* The only message shows the page of the last answered request, whose index is
\* yet to be stored, and the page of the index when there is none.
ShownInv ==
    isSent /\ OnlyMessage =>
        /\ \A i \in DOMAIN turns : turns[i].on = messageRef
        /\ shown[messageRef] # 0 =>
             /\ (\A i \in DOMAIN turns : ~turns[i].answered) =>
                    shown[messageRef] = index + 1
             /\ \A i \in DOMAIN turns : LastAnswered(i) =>
                    turns[i].what # "delete" /\ shown[messageRef] = turns[i].to + 1

\* As long as no turn overlapped another one, at most one is under way, it goes to
\* the page next to that of the index, and the index counts the turns made.
ExactInv ==
    ~overlapped =>
        /\ Len(turns) <= 1
        /\ \A i \in DOMAIN turns : turns[i].what # "delete" =>
               turns[i].to = Pager!getNextIndex(turns[i].what)
        /\ index = net % Pages

PInv == PageShape /\ SentInv /\ OrderInv /\ ShownInv /\ ExactInv

\* The emotes are not stages of their own.
LEMMA EmotesAre ==
  /\ {"left", "right"} \subseteq Pager!Emotes
  /\ Pager!Emotes \subseteq {"left", "right", "delete"}
  /\ Deletable => "delete" \in Pager!Emotes
  BY DEF Pager!Emotes

\* The module of the paginator counts with the operator of FiniteSets.
LEMMA SameCount ==
  ASSUME NEW S
  PROVE  Pager!Cardinality(S) = Cardinality(S)
  BY Zenon DEF Cardinality, Pager!Cardinality

\* The count of the subscribers is a number, zero when there is none.
LEMMA SubscribersCount ==
  /\ Cardinality(Pager!Subscribers) \in Nat
  /\ Cardinality(Pager!Subscribers) = 0 <=> Pager!Subscribers = {}
  <1>1. Pager!Subscribers \subseteq Senders
    BY DEF Pager!Subscribers
  <1>2. IsFiniteSet(Pager!Subscribers)
    BY <1>1, SendersAssumption, FS_Subset
  <1> QED
    BY <1>2, FS_CardinalityType, FS_EmptySet

\* An index next to an index is one.
LEMMA NextIndexType ==
  ASSUME PageShape, NEW direction \in {"left", "right"}
  PROVE  Pager!getNextIndex(direction) \in 0 .. Pages - 1
  BY PagesAssumption DEF PageShape, Pager!getNextIndex, Pager!contentLength

\* Numbers that leave a remainder.
LEMMA Divided ==
  ASSUME NEW n \in Int, NEW P \in Nat \ {0}
  PROVE  \E q \in Int : n = P * q + (n % P)
  <1>1. n = P * (n \div P) + (n % P) /\ n \div P \in Int
    OBVIOUS
  <1> QED
    BY <1>1

LEMMA Remainder ==
  ASSUME NEW P \in Nat \ {0}, NEW r \in 0 .. P - 1, NEW q \in Int
  PROVE  (P * q + r) % P = r
  OBVIOUS

LEMMA AnotherPage ==
  ASSUME NEW P \in Nat \ {0}, NEW q \in Int
  PROVE  P * (q + 1) = P * q + P /\ P * (q - 1) = P * q - P
  OBVIOUS

\* One page to the right or to the left of the page of the sum of the turns.
LEMMA NextIndexCounts ==
  ASSUME PageShape, index = net % Pages
  PROVE  /\ Pager!getNextIndex("right") = (net + 1) % Pages
         /\ Pager!getNextIndex("left") = (net - 1) % Pages
  <1>0. Pages \in Nat \ {0} /\ net \in Int /\ index \in 0 .. Pages - 1
    BY PagesAssumption DEF PageShape
  <1>1. PICK q \in Int : net = Pages * q + index
    BY <1>0, Divided
  <1>p. PICK pq \in Int : pq = Pages * q
    BY <1>0
  <1>2. ASSUME NEW r \in 0 .. Pages - 1
        PROVE  (pq + r) % Pages = r /\ (pq + Pages + r) % Pages = r
               /\ (pq - Pages + r) % Pages = r
    <2>1. (Pages * q + r) % Pages = r /\ (Pages * (q + 1) + r) % Pages = r
          /\ (Pages * (q - 1) + r) % Pages = r
      <3>1. q + 1 \in Int /\ q - 1 \in Int
        OBVIOUS
      <3> QED
        BY <1>0, <3>1, Remainder
    <2>2. Pages * (q + 1) = pq + Pages /\ Pages * (q - 1) = pq - Pages
      BY <1>0, <1>p, AnotherPage
    <2> QED
      BY <1>p, <2>1, <2>2
  <1>3. net = pq + index
    BY <1>1, <1>p
  <1>4. Pager!getNextIndex("right") = (net + 1) % Pages
    <2>1. CASE index = Pages - 1
      <3>1. PICK first \in 0 .. Pages - 1 : first = 0
        BY <1>0
      <3>2. net + 1 = pq + Pages + first
        BY <1>0, <1>3, <2>1, <3>1
      <3>3. (pq + Pages + first) % Pages = first
        BY <1>2
      <3>4. (net + 1) % Pages = 0
        BY <3>1, <3>2, <3>3
      <3> QED
        BY <2>1, <3>4 DEF Pager!getNextIndex, Pager!contentLength
    <2>2. CASE index # Pages - 1
      <3>1. index + 1 \in 0 .. Pages - 1 /\ net + 1 = pq + (index + 1)
        BY <1>0, <1>3, <2>2
      <3>2. (pq + (index + 1)) % Pages = index + 1
        BY <1>2, <3>1
      <3> QED
        BY <2>2, <3>1, <3>2 DEF Pager!getNextIndex, Pager!contentLength
    <2> QED
      BY <2>1, <2>2
  <1>5. Pager!getNextIndex("left") = (net - 1) % Pages
    <2>1. CASE index = 0
      <3>1. net - 1 = pq - Pages + (Pages - 1) /\ Pages - 1 \in 0 .. Pages - 1
        BY <1>0, <1>3, <2>1
      <3>2. (pq - Pages + (Pages - 1)) % Pages = Pages - 1
        BY <1>2, <3>1
      <3> QED
        BY <2>1, <3>1, <3>2 DEF Pager!getNextIndex, Pager!contentLength
    <2>2. CASE index # 0
      <3>1. index - 1 \in 0 .. Pages - 1 /\ net - 1 = pq + (index - 1)
        BY <1>0, <1>3, <2>2
      <3>2. (pq + (index - 1)) % Pages = index - 1
        BY <1>2, <3>1
      <3> QED
        BY <2>2, <3>1, <3>2 DEF Pager!getNextIndex, Pager!contentLength
    <2> QED
      BY <2>1, <2>2
  <1> QED
    BY <1>4, <1>5

\* Nothing was sent.
LEMMA PInvInit == Pager!PageInit => PInv
  <1> SUFFICES ASSUME Pager!PageInit PROVE PInv
    OBVIOUS
  <1> USE PagesAssumption, BoundsAssumption, EmotesAre DEF Pager!PageInit
  <1>1. PageShape
    <2>1. turns \in Seq(TurnType) /\ heard \in Seq(Senders \X Pager!Emotes)
      OBVIOUS
    <2>2. sender \in [Senders -> Pager!SenderStages]
      BY DEF Pager!SenderStages
    <2>3. shown \in [Senders -> 0 .. Pages]
      OBVIOUS
    <2>4. MaxPresses \in Nat
      BY BoundsAssumption
    <2>6. /\ presses \in 0 .. MaxPresses /\ index \in 0 .. Pages - 1 /\ net \in Int
      BY <2>4
    <2>7. isSent \in BOOLEAN /\ completed \in BOOLEAN /\ overlapped \in BOOLEAN
      OBVIOUS
    <2>5. messageRef \in Senders \union {Pager!NoMessage}
      OBVIOUS
    <2> HIDE DEF Pager!PageInit
    <2> QED
      BY <2>1, <2>2, <2>3, <2>5, <2>6, <2>7 DEF PageShape
  <1>2. ~isSent /\ \A s \in Senders : ~Pager!HasCollector(s)
    BY DEF Pager!HasCollector
  <1>3. SentInv /\ OrderInv /\ ShownInv
    BY <1>2 DEF SentInv, OrderInv, ShownInv
  <1>4. ExactInv
    BY DEF ExactInv
  <1> QED
    BY <1>1, <1>3, <1>4 DEF PInv

\* A step that leaves the requests and what is shown alone, and no collector less or
\* more, keeps what relates them.
LEMMA CollectorsKept ==
  ASSUME PInv, PageShape',
         UNCHANGED <<isSent, messageRef, index, turns, shown, net, overlapped>>,
         \A s \in Senders : Pager!HasCollector(s)' <=> Pager!HasCollector(s)
  PROVE  PInv'
  <1>1. SentInv'
    BY DEF PInv, SentInv
  <1>2. OrderInv'
    BY DEF PInv, OrderInv
  <1>3. ShownInv'
    BY DEF PInv, ShownInv, OnlyMessage, LastAnswered
  <1>4. ExactInv'
    BY DEF PInv, ExactInv, Pager!getNextIndex
  <1> QED
    BY <1>1, <1>2, <1>3, <1>4 DEF PInv

\* A send that is asked for makes nothing yet, nor does one that failed.
LEMMA AskedStep ==
  ASSUME PInv, NEW s \in Senders,
         Pager!SendComponent(s) \/ Pager!NotSent(s, FALSE) \/ Pager!AddEmote(s)
  PROVE  PInv'
  <1>0. PageShape /\ SentInv
    BY DEF PInv
  <1>1. UNCHANGED <<isSent, messageRef, completed, index, turns, shown, presses,
                    net, overlapped>>
    BY DEF Pager!SendComponent, Pager!NotSent, Pager!AddEmote
  <1>2. PICK st : sender' = [sender EXCEPT ![s] = st]
                  /\ \/ /\ st \in {"refused", "sending"}
                        /\ sender[s] \in {"idle", "sending"}
                     \/ /\ st \in Pager!Emotes \union {"failed", "subscribed"}
                        /\ sender[s] \in Pager!Emotes
    <2>1. CASE Pager!SendComponent(s) \/ Pager!NotSent(s, FALSE)
      BY <2>1 DEF Pager!SendComponent, Pager!NotSent
    <2>2. CASE Pager!AddEmote(s)
      <3>1. sender[s] \in Pager!Emotes
        BY <2>2 DEF Pager!AddEmote
      <3>2. Pager!AfterEmote(sender[s]) \in Pager!Emotes \union {"subscribed"}
        BY <3>1, EmotesAre DEF Pager!AfterEmote
      <3>3. PICK added \in BOOLEAN, answered \in BOOLEAN :
               sender' = [sender EXCEPT ![s] = IF answered THEN Pager!AfterEmote(@)
                                                           ELSE "failed"]
        BY <2>2 DEF Pager!AddEmote
      <3>4. answered \/ ~answered
        OBVIOUS
      <3> QED
        BY <3>1, <3>2, <3>3, <3>4
    <2> QED
      BY <2>1, <2>2
  <1>3. \A r \in Senders : Pager!HasCollector(r)' <=> Pager!HasCollector(r)
    BY <1>0, <1>2, EmotesAre DEF PageShape, Pager!HasCollector
  <1>4. heard' \in Seq(Senders \X Pager!Emotes)
    <2>1. CASE Pager!SendComponent(s) \/ Pager!NotSent(s, FALSE)
      BY <1>0, <2>1 DEF Pager!SendComponent, Pager!NotSent, PageShape
    <2>2. CASE Pager!AddEmote(s)
      <3>1. sender[s] \in Pager!Emotes
        BY <2>2 DEF Pager!AddEmote
      <3>2. messageRef \in Senders
        BY <1>0, <3>1 DEF SentInv, Pager!HasCollector
      <3>3. <<messageRef, sender[s]>> \in Senders \X Pager!Emotes
        BY <3>1, <3>2
      <3>4. heard' \in {heard, Append(heard, <<messageRef, sender[s]>>)}
        BY <2>2 DEF Pager!AddEmote
      <3>5. heard \in Seq(Senders \X Pager!Emotes)
        BY <1>0 DEF PageShape
      <3>6. PICK h \in Senders \X Pager!Emotes : h = <<messageRef, sender[s]>>
        BY <3>3
      <3>7. Append(heard, h) \in Seq(Senders \X Pager!Emotes)
        BY <3>5
      <3> QED
        BY <3>4, <3>5, <3>6, <3>7
    <2> QED
      BY <2>1, <2>2
  <1>5. PageShape'
    <2>1. st \in Pager!SenderStages
      BY <1>2 DEF Pager!SenderStages
    <2>2. sender' \in [Senders -> Pager!SenderStages]
      BY <1>0, <1>2, <2>1 DEF PageShape
    <2> QED
      BY <1>0, <1>1, <1>4, <2>2 DEF PageShape
  <1> QED
    BY <1>1, <1>3, <1>5, CollectorsKept

\* A message that appears without an answer has no collector, so it is not the one
\* the component holds, and nobody asks for a page of it.
LEMMA UnheardStep ==
  ASSUME PInv, NEW s \in Senders, Pager!NotSent(s, TRUE)
  PROVE  PInv'
  <1> USE PagesAssumption
  <1>0. PageShape /\ SentInv /\ OrderInv /\ ShownInv /\ ExactInv
    BY DEF PInv
  <1>1. /\ UNCHANGED <<isSent, messageRef, completed, index, turns, heard, presses,
                       net, overlapped>>
        /\ shown' = [shown EXCEPT ![s] = 1]
        /\ sender' = [sender EXCEPT ![s] = "refused"] /\ sender[s] = "sending"
    BY DEF Pager!NotSent
  <1>2. PageShape'
    BY <1>0, <1>1 DEF PageShape, Pager!SenderStages
  <1>3. ~Pager!HasCollector(s)
        /\ \A r \in Senders : Pager!HasCollector(r)' <=> Pager!HasCollector(r)
    BY <1>0, <1>1, EmotesAre DEF PageShape, Pager!HasCollector
  <1>4. SentInv'
    BY <1>0, <1>1, <1>3 DEF SentInv
  <1>5. OrderInv'
    BY <1>0, <1>1 DEF OrderInv
  <1>6. ShownInv'
    <2>1. isSent => shown'[messageRef] = shown[messageRef]
      BY <1>0, <1>1, <1>3 DEF SentInv, PageShape
    <2> QED
      BY <1>0, <1>1, <1>3, <2>1 DEF ShownInv, OnlyMessage, LastAnswered
  <1>7. ExactInv'
    BY <1>0, <1>1 DEF ExactInv, Pager!getNextIndex
  <1> QED
    BY <1>2, <1>4, <1>5, <1>6, <1>7 DEF PInv

\* A message appears: it is the only one if there was none before, and shows the
\* first page, which is that of the index then.
LEMMA SentStep ==
  ASSUME PInv, NEW s \in Senders, Pager!Sent(s)
  PROVE  PInv'
  <1> USE PagesAssumption
  <1>0. PageShape /\ SentInv /\ OrderInv /\ ShownInv /\ ExactInv
    BY DEF PInv
  <1>1. /\ UNCHANGED <<completed, index, turns, heard, presses, net, overlapped>>
        /\ shown' = [shown EXCEPT ![s] = 1] /\ messageRef' = s /\ isSent' = TRUE
        /\ sender' = [sender EXCEPT ![s] = "left"] /\ sender[s] = "sending"
    BY DEF Pager!Sent
  <1>2. PageShape'
    BY <1>0, <1>1, EmotesAre DEF PageShape, Pager!SenderStages
  <1>3. /\ Pager!HasCollector(s)' /\ ~Pager!HasCollector(s)
        /\ \A r \in Senders \ {s} : Pager!HasCollector(r)' <=> Pager!HasCollector(r)
    BY <1>0, <1>1, EmotesAre DEF PageShape, Pager!HasCollector
  <1>4. SentInv'
    BY <1>1, <1>3 DEF SentInv
  <1>5. OrderInv'
    BY <1>0, <1>1 DEF OrderInv
  <1>6. ShownInv'
    <2>1. SUFFICES ASSUME OnlyMessage'
                   PROVE  turns' = <<>> /\ index' = 0 /\ shown'[s] = 1
      BY <1>1 DEF ShownInv
    <2>2. \A r \in Senders : ~Pager!HasCollector(r)
      BY <1>1, <1>3, <2>1 DEF OnlyMessage
    <2>3. ~isSent
      BY <1>0, <2>2 DEF SentInv
    <2> QED
      BY <1>0, <1>1, <2>3 DEF SentInv, PageShape
  <1>7. ExactInv'
    BY <1>0, <1>1 DEF ExactInv, Pager!getNextIndex
  <1> QED
    BY <1>2, <1>4, <1>5, <1>6, <1>7 DEF PInv

\* A reaction has every subscriber ask for a page, after the requests under way.
LEMMA CollectSteps ==
  ASSUME PInv, NEW m \in Senders, NEW emote \in Pager!Emotes,
         Pager!Collect(m, emote)
  PROVE  \E n \in Nat :
            /\ turns' \in Seq(TurnType) /\ Len(turns') = Len(turns) + n
            /\ \A i \in 1 .. Len(turns) : turns'[i] = turns[i]
            /\ \A i \in Len(turns) + 1 .. Len(turns') : turns'[i] = Pager!Turn(emote)
            /\ overlapped' = (overlapped \/ n > 1 \/ (n = 1 /\ turns # <<>>))
            /\ n # 0 => isSent /\ Pager!Turn(emote) \in TurnType
  <1>0. PageShape /\ SentInv /\ turns \in Seq(TurnType)
    BY DEF PInv, PageShape
  <1> DEFINE count == IF Pager!HasCollector(m) /\ ~completed
                      THEN Cardinality(Pager!Subscribers) ELSE 0
  <1>t. turns' = turns \o [i \in 1 .. count |-> Pager!Turn(emote)]
    BY Zenon, SameCount DEF Pager!Collect
  <1>o. overlapped' = (overlapped \/ count > 1 \/ (count = 1 /\ turns # <<>>))
    BY Zenon, SameCount DEF Pager!Collect
  <1>2. count \in Nat /\ (count # 0 => Pager!Subscribers # {})
    BY SubscribersCount
  <1> HIDE DEF count
  <1>n. PICK n \in Nat : n = count
    BY <1>2
  <1>3. ASSUME n # 0
        PROVE  isSent /\ Pager!Turn(emote) \in TurnType
    <2>1. PICK s \in Senders : sender[s] = "subscribed"
      BY <1>2, <1>3, <1>n DEF Pager!Subscribers
    <2>2. isSent /\ messageRef \in Senders
      BY <1>0, <2>1 DEF SentInv, Pager!HasCollector
    <2>3. emote # "delete" => Pager!getNextIndex(emote) \in 0 .. Pages - 1
      BY <1>0, EmotesAre, NextIndexType
    <2>4. (IF emote = "delete" THEN 0 ELSE Pager!getNextIndex(emote)) \in 0 .. Pages - 1
      BY <2>3, PagesAssumption
    <2> QED
      BY <2>2, <2>4 DEF Pager!Turn, TurnType
  <1>4. PICK t : t = Pager!Turn(emote)
    OBVIOUS
  <1> DEFINE asked == [i \in 1 .. n |-> t]
  <1>5. asked \in Seq(TurnType) /\ Len(asked) = n /\ \A i \in 1 .. n : asked[i] = t
    <2>1. n # 0 => t \in TurnType
      BY <1>3, <1>4
    <2>2. asked \in [1 .. n -> TurnType]
      BY <2>1
    <2> QED
      BY <2>2
  <1>6. turns' = turns \o asked
    BY <1>t, <1>4, <1>n
  <1> HIDE DEF asked
  <1>7. turns' \in Seq(TurnType) /\ Len(turns') = Len(turns) + n
    <2>1. asked \in Seq(TurnType) /\ Len(asked) = n
      BY <1>5
    <2>2. turns \in Seq(TurnType)
      BY <1>0
    <2>3. Len(turns \o asked) = Len(turns) + Len(asked)
      BY <2>1, <2>2
    <2>4. turns \o asked \in Seq(TurnType)
      BY <2>1, <2>2
    <2> QED
      BY <1>6, <2>1, <2>3, <2>4
  <1>8. \A i \in 1 .. Len(turns) : turns'[i] = turns[i]
    BY <1>0, <1>5, <1>6
  <1>9. \A i \in Len(turns) + 1 .. Len(turns') : turns'[i] = t
    BY <1>0, <1>5, <1>6, <1>7
  <1> QED
    BY <1>o, <1>3, <1>4, <1>n, <1>7, <1>8, <1>9

\* A page is asked for with the index as it is now, and was not answered yet.
LEMMA CollectStep ==
  ASSUME PInv, NEW m \in Senders, NEW emote \in Pager!Emotes,
         Pager!Collect(m, emote), presses' \in 0 .. MaxPresses,
         heard' \in Seq(Senders \X Pager!Emotes)
  PROVE  PInv'
  <1>0. PageShape /\ SentInv /\ OrderInv /\ ShownInv /\ ExactInv
    BY DEF PInv
  <1>1. PICK n \in Nat :
            /\ turns' \in Seq(TurnType) /\ Len(turns') = Len(turns) + n
            /\ \A i \in 1 .. Len(turns) : turns'[i] = turns[i]
            /\ \A i \in Len(turns) + 1 .. Len(turns') : turns'[i] = Pager!Turn(emote)
            /\ overlapped' = (overlapped \/ n > 1 \/ (n = 1 /\ turns # <<>>))
            /\ n # 0 => isSent /\ Pager!Turn(emote) \in TurnType
    BY CollectSteps
  <1>2. UNCHANGED <<sender, isSent, messageRef, completed, index, shown, net>>
    BY DEF Pager!Collect
  <1>3. /\ turns \in Seq(TurnType) /\ Len(turns) \in Nat /\ Len(turns') \in Nat
        /\ DOMAIN turns = 1 .. Len(turns) /\ DOMAIN turns' = 1 .. Len(turns')
    BY <1>0, <1>1 DEF PageShape
  <1>4. PICK t : t = Pager!Turn(emote)
    OBVIOUS
  <1>5. t.on = messageRef /\ ~t.answered /\ t.what = emote
        /\ (emote # "delete" => t.to = Pager!getNextIndex(emote))
    BY <1>4 DEF Pager!Turn
  <1>6. \A i \in DOMAIN turns' :
           \/ i \in DOMAIN turns /\ turns'[i] = turns[i]
           \/ i \notin DOMAIN turns /\ turns'[i] = t /\ isSent
    BY <1>1, <1>3, <1>4
  <1>7. DOMAIN turns \subseteq DOMAIN turns'
    BY <1>1, <1>3
  <1>8. PageShape'
    <2>1. overlapped' \in BOOLEAN
      BY <1>1
    <2> QED
      BY <1>0, <1>1, <1>2, <2>1 DEF PageShape
  <1>9. SentInv'
    <2>1. ~isSent => turns' = <<>>
      <3>1. ~isSent => Len(turns') = 0
        BY <1>0, <1>1 DEF SentInv
      <3> QED
        BY <1>1, <3>1
    <2> QED
      BY <1>0, <1>2, <2>1 DEF SentInv, Pager!HasCollector
  <1>10. OrderInv'
    <2> SUFFICES ASSUME NEW i \in DOMAIN turns', NEW j \in DOMAIN turns',
                        i < j, turns'[j].answered
                 PROVE  turns'[i].answered
      BY DEF OrderInv
    <2>1. j \in DOMAIN turns /\ turns'[j] = turns[j]
      BY <1>5, <1>6
    <2>2. i \in DOMAIN turns /\ turns'[i] = turns[i]
      BY <1>3, <1>6, <2>1
    <2> QED
      BY <1>0, <2>1, <2>2 DEF OrderInv
  <1>11. ShownInv'
    <2>1. SUFFICES ASSUME isSent, OnlyMessage
                   PROVE  /\ \A i \in DOMAIN turns' : turns'[i].on = messageRef
                          /\ shown[messageRef] # 0 =>
                               /\ (\A i \in DOMAIN turns' : ~turns'[i].answered) =>
                                      shown[messageRef] = index + 1
                               /\ \A i \in DOMAIN turns' : LastAnswered(i)' =>
                                      /\ turns'[i].what # "delete"
                                      /\ shown[messageRef] = turns'[i].to + 1
      BY <1>2 DEF ShownInv, OnlyMessage, Pager!HasCollector
    <2>2. /\ \A i \in DOMAIN turns : turns[i].on = messageRef
          /\ shown[messageRef] # 0 =>
               /\ (\A i \in DOMAIN turns : ~turns[i].answered) =>
                      shown[messageRef] = index + 1
               /\ \A i \in DOMAIN turns : LastAnswered(i) =>
                      turns[i].what # "delete" /\ shown[messageRef] = turns[i].to + 1
      BY <1>0, <2>1 DEF ShownInv
    <2>3. \A i \in DOMAIN turns' : turns'[i].on = messageRef
      BY <1>5, <1>6, <2>2
    <2>4. (\A i \in DOMAIN turns' : ~turns'[i].answered) =>
             \A i \in DOMAIN turns : ~turns[i].answered
      BY <1>6, <1>7
    <2>5. ASSUME NEW i \in DOMAIN turns', LastAnswered(i)'
          PROVE  i \in DOMAIN turns /\ turns'[i] = turns[i] /\ LastAnswered(i)
      <3>1. turns'[i].answered /\ \A j \in DOMAIN turns' : turns'[j].answered => j <= i
        BY <2>5 DEF LastAnswered
      <3>2. i \in DOMAIN turns /\ turns'[i] = turns[i]
        BY <1>5, <1>6, <3>1
      <3>3. \A j \in DOMAIN turns : turns[j].answered => j <= i
        BY <1>6, <1>7, <3>1
      <3> QED
        BY <3>1, <3>2, <3>3 DEF LastAnswered
    <2> QED
      BY <2>2, <2>3, <2>4, <2>5
  <1>12. ExactInv'
    <2>1. SUFFICES ASSUME ~overlapped'
                   PROVE  /\ Len(turns') <= 1
                          /\ \A i \in DOMAIN turns' : turns'[i].what # "delete" =>
                                turns'[i].to = Pager!getNextIndex(turns'[i].what)
                          /\ index = net % Pages
      BY <1>2 DEF ExactInv, Pager!getNextIndex
    <2>2. ~overlapped /\ (n = 0 \/ (n = 1 /\ turns = <<>>))
      <3>1. ~(overlapped \/ n > 1 \/ (n = 1 /\ turns # <<>>))
        BY <1>1, <2>1, Zenon
      <3> QED
        BY <3>1
    <2>3. /\ Len(turns) <= 1 /\ index = net % Pages
          /\ \A i \in DOMAIN turns : turns[i].what # "delete" =>
                turns[i].to = Pager!getNextIndex(turns[i].what)
      BY <1>0, <2>2 DEF ExactInv
    <2>4. Len(turns') <= 1
      BY <1>1, <1>3, <2>2, <2>3
    <2>5. ASSUME NEW i \in DOMAIN turns', turns'[i].what # "delete"
          PROVE  turns'[i].to = Pager!getNextIndex(turns'[i].what)
      BY <1>5, <1>6, <2>3, <2>5
    <2> QED
      BY <2>3, <2>4, <2>5
  <1> QED
    BY <1>8, <1>9, <1>10, <1>11, <1>12 DEF PInv

\* A reaction of a user, or one of its own that the client hears of, is collected.
LEMMA ReactionStep ==
  ASSUME PInv,
         \/ \E m \in Senders, emote \in Pager!Emotes : Pager!Press(m, emote)
         \/ Pager!HearOwn
  PROVE  PInv'
  <1>0. PageShape
    BY DEF PInv
  <1>1. ASSUME NEW m \in Senders, NEW emote \in Pager!Emotes, Pager!Press(m, emote)
        PROVE  PInv'
    <2>1. Pager!Collect(m, emote)
      BY <1>1 DEF Pager!Press
    <2>2. presses \in Nat /\ MaxPresses \in Nat /\ presses < MaxPresses
          /\ presses' = presses + 1
      BY <1>0, <1>1, BoundsAssumption DEF Pager!Press, PageShape
    <2>3. presses' \in 0 .. MaxPresses
      BY <2>2
    <2>4. heard' \in Seq(Senders \X Pager!Emotes)
      BY <1>0, <1>1 DEF Pager!Press, PageShape
    <2> QED
      BY <2>1, <2>3, <2>4, CollectStep
  <1>2. CASE Pager!HearOwn
    <2>1. heard \in Seq(Senders \X Pager!Emotes) /\ heard # <<>>
      BY <1>0, <1>2 DEF PageShape, Pager!HearOwn
    <2>2. PICK m \in Senders, emote \in Pager!Emotes : heard[1] = <<m, emote>>
      <3>1. heard[1] \in Senders \X Pager!Emotes
        BY <2>1
      <3> QED
        BY <3>1
    <2>3. Tail(heard) \in Seq(Senders \X Pager!Emotes)
      BY <2>1
    <2>4. Pager!Collect(m, emote) /\ heard' = Tail(heard) /\ presses' = presses
      BY <1>2, <2>2 DEF Pager!HearOwn
    <2>5. presses' \in 0 .. MaxPresses
      BY <1>0, <2>4 DEF PageShape
    <2> QED
      BY <2>3, <2>4, <2>5, CollectStep
  <1> QED
    BY <1>1, <1>2

\* Every set of numbers has a least one.
LEMMA LeastNumber ==
  ASSUME NEW S \in SUBSET Nat, S # {}
  PROVE  \E n \in S : \A m \in S : n <= m
  <1> DEFINE Less == {ss \in Nat \X Nat : ss[1] < ss[2]}
  <1>1. IsWellFoundedOn(Less, Nat)
    BY NatLessThanWellFounded DEF OpToRel
  <1> HIDE DEF Less
  <1>2. PICK n \in S : \A m \in S : <<m, n>> \notin Less
    BY <1>1, WFMin
  <1>3. \A m \in S : ~(m < n)
    BY <1>2 DEF Less
  <1> QED
    BY <1>3

\* The request that Discord handles next is the oldest that is not answered.
LEMMA FirstPending ==
  ASSUME turns \in Seq(TurnType), Pager!Pending # {},
         NEW i, i = CHOOSE j \in Pager!Pending : \A k \in Pager!Pending : j <= k
  PROVE  /\ i \in DOMAIN turns /\ ~turns[i].answered
         /\ \A k \in DOMAIN turns : k < i => turns[k].answered
  <1>1. /\ DOMAIN turns = 1 .. Len(turns) /\ Len(turns) \in Nat
        /\ Pager!Pending \in SUBSET Nat
    BY DEF Pager!Pending
  <1>2. \E n \in Pager!Pending : \A k \in Pager!Pending : n <= k
    BY <1>1, LeastNumber
  <1>3. i \in Pager!Pending /\ \A k \in Pager!Pending : i <= k
    BY <1>2
  <1>4. i \in DOMAIN turns /\ ~turns[i].answered
    BY <1>1, <1>3 DEF Pager!Pending
  <1>5. ASSUME NEW k \in DOMAIN turns, k < i, ~turns[k].answered
        PROVE  FALSE
    <2>1. k \in Pager!Pending
      BY <1>1, <1>5 DEF Pager!Pending
    <2>2. i <= k /\ i \in Nat /\ k \in Nat
      BY <1>1, <1>3, <2>1
    <2> QED
      BY <1>5, <2>2
  <1> QED
    BY <1>4, <1>5

\* Discord shows the page of the oldest request that is not answered, which is the
\* last answered one then.
LEMMA HandleTurnStep ==
  ASSUME PInv, Pager!HandleTurn
  PROVE  PInv'
  <1>0. /\ PageShape /\ SentInv /\ OrderInv /\ ShownInv /\ ExactInv
        /\ turns \in Seq(TurnType) /\ shown \in [Senders -> 0 .. Pages]
    BY DEF PInv, PageShape
  <1>1. UNCHANGED <<sender, isSent, messageRef, completed, index, heard, presses,
                    net, overlapped>>
        /\ Pager!Pending # {}
    BY DEF Pager!HandleTurn
  <1>2. PICK i : i = CHOOSE j \in Pager!Pending : \A k \in Pager!Pending : j <= k
    OBVIOUS
  <1>3. /\ i \in DOMAIN turns /\ ~turns[i].answered
        /\ \A k \in DOMAIN turns : k < i => turns[k].answered
    BY <1>0, <1>1, <1>2, FirstPending
  <1>4. PICK t \in TurnType : t = turns[i]
    BY <1>0, <1>3
  <1>5. \/ UNCHANGED <<turns, shown>>
        \/ /\ shown[t.on] # 0
           /\ turns' = [turns EXCEPT ![i].answered = TRUE]
           /\ shown' = [shown EXCEPT ![t.on] = IF t.what = "delete" THEN 0
                                                                  ELSE t.to + 1]
    BY <1>2, <1>4, Zenon DEF Pager!HandleTurn
  <1>6. CASE UNCHANGED <<turns, shown>>
    <2>1. PageShape'
      BY <1>0, <1>1, <1>6 DEF PageShape
    <2>2. \A s \in Senders : Pager!HasCollector(s)' <=> Pager!HasCollector(s)
      BY <1>1 DEF Pager!HasCollector
    <2> QED
      BY <1>1, <1>6, <2>1, <2>2, CollectorsKept
  <1>7. CASE /\ shown[t.on] # 0
             /\ turns' = [turns EXCEPT ![i].answered = TRUE]
             /\ shown' = [shown EXCEPT ![t.on] = IF t.what = "delete" THEN 0
                                                                    ELSE t.to + 1]
    <2>1. PICK u \in TurnType : u = [t EXCEPT !.answered = TRUE]
      BY DEF TurnType
    <2>2. /\ u.answered /\ u.what = t.what /\ u.on = t.on /\ u.to = t.to
      BY <2>1 DEF TurnType
    <2>3. /\ turns' = [turns EXCEPT ![i] = u]
          /\ turns' \in Seq(TurnType) /\ Len(turns') = Len(turns)
          /\ DOMAIN turns' = DOMAIN turns /\ DOMAIN turns = 1 .. Len(turns)
          /\ turns'[i] = u
          /\ \A j \in DOMAIN turns : j # i => turns'[j] = turns[j]
      <3>1. turns' = [turns EXCEPT ![i] = u]
        BY <1>4, <1>7, <2>1
      <3> QED
        BY <1>0, <1>3, <3>1
    <2>4. \A j \in DOMAIN turns :
             /\ turns'[j].what = turns[j].what /\ turns'[j].on = turns[j].on
             /\ turns'[j].to = turns[j].to
      BY <1>4, <2>2, <2>3
    <2>5. PageShape'
      <3>1. (IF t.what = "delete" THEN 0 ELSE t.to + 1) \in 0 .. Pages
        BY PagesAssumption DEF TurnType
      <3>2. shown' \in [Senders -> 0 .. Pages]
        BY <1>0, <1>7, <3>1
      <3> QED
        BY <1>0, <1>1, <2>3, <3>2 DEF PageShape
    <2>6. SentInv'
      <3>1. ~isSent => turns' = <<>>
        BY <1>0, <1>3 DEF SentInv
      <3> QED
        BY <1>0, <1>1, <3>1 DEF SentInv, Pager!HasCollector
    <2>7. OrderInv'
      <3> SUFFICES ASSUME NEW j \in DOMAIN turns, NEW k \in DOMAIN turns,
                          j < k, turns'[k].answered
                   PROVE  turns'[j].answered
        BY <2>3 DEF OrderInv
      <3>1. CASE k = i
        BY <1>3, <2>2, <2>3, <3>1
      <3>2. CASE k # i
        <4>1. turns[k].answered
          BY <2>3, <3>2
        <4>2. turns[j].answered
          BY <1>0, <4>1 DEF OrderInv
        <4> QED
          BY <2>2, <2>3, <4>2
      <3> QED
        BY <3>1, <3>2
    <2>8. ShownInv'
      <3>1. SUFFICES ASSUME isSent, OnlyMessage, messageRef \in Senders
                     PROVE  /\ \A j \in DOMAIN turns : turns'[j].on = messageRef
                            /\ turns'[i].answered
                            /\ shown'[messageRef] # 0 =>
                                 \A j \in DOMAIN turns : LastAnswered(j)' =>
                                    /\ turns'[j].what # "delete"
                                    /\ shown'[messageRef] = turns'[j].to + 1
        BY <1>0, <1>1, <1>3, <2>3 DEF ShownInv, OnlyMessage, Pager!HasCollector, SentInv
      <3>2. \A j \in DOMAIN turns : turns'[j].on = messageRef
        BY <1>0, <2>4, <3>1 DEF ShownInv
      <3>3. t.on = messageRef
        BY <1>3, <2>2, <2>3, <3>2
      <3>4. shown'[messageRef] = IF t.what = "delete" THEN 0 ELSE t.to + 1
        BY <1>0, <1>7, <3>1, <3>3
      <3>5. ASSUME NEW j \in DOMAIN turns, LastAnswered(j)'
            PROVE  j = i
        <4>1. /\ turns'[j].answered
              /\ \A k \in DOMAIN turns : turns'[k].answered => k <= j
          BY <2>3, <3>5 DEF LastAnswered
        <4>2. i <= j
          BY <1>3, <2>2, <2>3, <4>1
        <4>3. CASE j # i
          <5>1. turns[j].answered /\ i < j
            BY <1>3, <2>3, <4>1, <4>2, <4>3
          <5> QED
            BY <1>0, <1>3, <5>1 DEF OrderInv
        <4> QED
          BY <4>3
      <3> QED
        BY <2>2, <2>3, <3>2, <3>4, <3>5
    <2>9. ExactInv'
      <3>1. \A d \in {"left", "right"} :
               Pager!getNextIndex(d)' = Pager!getNextIndex(d)
        BY <1>1 DEF Pager!getNextIndex
      <3>2. \A j \in DOMAIN turns : turns[j].what \in {"left", "right", "delete"}
        <4>1. \A j \in DOMAIN turns : turns[j] \in TurnType
          BY <1>0
        <4> QED
          BY <4>1, EmotesAre DEF TurnType
      <3> QED
        BY <1>0, <1>1, <2>3, <2>4, <3>1, <3>2 DEF ExactInv
    <2> QED
      BY <2>5, <2>6, <2>7, <2>8, <2>9 DEF PInv
  <1> QED
    BY <1>5, <1>6, <1>7

\* The oldest answer is taken: its page becomes the index.
LEMMA TurnedStep ==
  ASSUME PInv, Pager!Turned
  PROVE  PInv'
  <1>0. /\ PageShape /\ SentInv /\ OrderInv /\ ShownInv /\ ExactInv
        /\ turns \in Seq(TurnType) /\ turns # <<>>
    BY DEF PInv, PageShape, Pager!Turned
  <1>1. /\ turns' = Tail(turns) /\ turns[1].answered
        /\ UNCHANGED <<sender, isSent, messageRef, completed, shown, heard, presses,
                       overlapped>>
    BY DEF Pager!Turned
  <1>2. PICK t \in TurnType : t = turns[1]
    BY <1>0
  <1>3. /\ t.answered
        /\ t.what = "delete" => UNCHANGED <<index, net>>
        /\ t.what # "delete" =>
              index' = t.to /\ net' = net + (IF t.what = "right" THEN 1 ELSE -1)
    BY <1>1, <1>2, Zenon DEF Pager!Turned
  <1>4. /\ turns' \in Seq(TurnType) /\ Len(turns') = Len(turns) - 1
        /\ DOMAIN turns = 1 .. Len(turns) /\ DOMAIN turns' = 1 .. Len(turns) - 1
        /\ Len(turns) \in Nat \ {0}
        /\ \A j \in DOMAIN turns' : j + 1 \in DOMAIN turns /\ turns'[j] = turns[j + 1]
    BY <1>0, <1>1
  <1>5. t.to \in 0 .. Pages - 1 /\ t.what \in {"left", "right", "delete"}
    BY EmotesAre DEF TurnType
  <1>6. index' \in 0 .. Pages - 1 /\ net' \in Int
    BY <1>0, <1>3, <1>5 DEF PageShape
  <1>7. PageShape'
    BY <1>0, <1>1, <1>4, <1>6 DEF PageShape
  <1>8. SentInv'
    BY <1>0, <1>1 DEF SentInv, Pager!HasCollector
  <1>9. OrderInv'
    <2> SUFFICES ASSUME NEW j \in DOMAIN turns', NEW k \in DOMAIN turns',
                        j < k, turns'[k].answered
                 PROVE  turns'[j].answered
      BY DEF OrderInv
    <2>1. j + 1 \in DOMAIN turns /\ k + 1 \in DOMAIN turns /\ j + 1 < k + 1
          /\ turns[k + 1].answered
      BY <1>4
    <2>2. turns[j + 1].answered
      BY <1>0, <2>1 DEF OrderInv
    <2> QED
      BY <1>4, <2>2
  <1>10. ShownInv'
    <2>1. SUFFICES ASSUME isSent, OnlyMessage
                   PROVE  /\ \A j \in DOMAIN turns' : turns'[j].on = messageRef
                          /\ shown[messageRef] # 0 =>
                               /\ (\A j \in DOMAIN turns' : ~turns'[j].answered) =>
                                      shown[messageRef] = index' + 1
                               /\ \A j \in DOMAIN turns' : LastAnswered(j)' =>
                                      /\ turns'[j].what # "delete"
                                      /\ shown[messageRef] = turns'[j].to + 1
      BY <1>1 DEF ShownInv, OnlyMessage, Pager!HasCollector
    <2>2. /\ \A j \in DOMAIN turns : turns[j].on = messageRef
          /\ shown[messageRef] # 0 => \A j \in DOMAIN turns : LastAnswered(j) =>
                turns[j].what # "delete" /\ shown[messageRef] = turns[j].to + 1
      BY <1>0, <2>1 DEF ShownInv
    <2>3. \A j \in DOMAIN turns' : turns'[j].on = messageRef
      BY <1>4, <2>2
    <2>4. ASSUME shown[messageRef] # 0, \A j \in DOMAIN turns' : ~turns'[j].answered
          PROVE  shown[messageRef] = index' + 1
      <3>1. ASSUME NEW j \in DOMAIN turns, turns[j].answered
            PROVE  j <= 1
        <4>1. CASE j # 1
          <5>1. j - 1 \in DOMAIN turns' /\ turns'[j - 1] = turns[j]
            BY <1>4, <4>1
          <5> QED
            BY <2>4, <3>1, <5>1
        <4> QED
          BY <1>4, <4>1
      <3>2. 1 \in DOMAIN turns /\ LastAnswered(1)
        BY <1>1, <1>4, <3>1 DEF LastAnswered
      <3>3. turns[1].what # "delete" /\ shown[messageRef] = turns[1].to + 1
        BY <2>2, <2>4, <3>2
      <3> QED
        BY <1>2, <1>3, <3>3
    <2>5. ASSUME shown[messageRef] # 0, NEW j \in DOMAIN turns', LastAnswered(j)'
          PROVE  turns'[j].what # "delete" /\ shown[messageRef] = turns'[j].to + 1
      <3>1. /\ turns'[j].answered
            /\ \A k \in DOMAIN turns' : turns'[k].answered => k <= j
        BY <2>5 DEF LastAnswered
      <3>2. ASSUME NEW k \in DOMAIN turns, turns[k].answered
            PROVE  k <= j + 1
        <4>1. CASE k # 1
          <5>1. k - 1 \in DOMAIN turns' /\ turns'[k - 1] = turns[k]
            BY <1>4, <4>1
          <5>2. k - 1 <= j
            BY <3>1, <3>2, <5>1
          <5> QED
            BY <1>4, <5>2
        <4> QED
          BY <1>4, <4>1
      <3>3. j + 1 \in DOMAIN turns /\ turns'[j] = turns[j + 1] /\ LastAnswered(j + 1)
        BY <1>4, <3>1, <3>2 DEF LastAnswered
      <3> QED
        BY <2>2, <2>5, <3>3
    <2> QED
      BY <2>3, <2>4, <2>5
  <1>11. ExactInv'
    <2>1. SUFFICES ASSUME ~overlapped
                   PROVE  Len(turns') <= 1 /\ DOMAIN turns' = {} /\ index' = net' % Pages
      BY <1>1 DEF ExactInv
    <2>2. /\ Len(turns) <= 1 /\ index = net % Pages
          /\ t.what # "delete" => t.to = Pager!getNextIndex(t.what)
      BY <1>0, <1>2, <1>4, <2>1 DEF ExactInv
    <2>3. Len(turns') <= 1 /\ DOMAIN turns' = {}
      BY <1>4, <2>2
    <2>4. index' = net' % Pages
      <3>1. CASE t.what = "delete"
        BY <1>3, <2>2, <3>1
      <3>2. CASE t.what = "right"
        BY <1>0, <1>3, <2>2, <3>2, NextIndexCounts
      <3>3. CASE t.what = "left"
        <4>1. net + (-1) = net - 1
          BY <1>0 DEF PageShape
        <4>2. net' = net - 1 /\ index' = Pager!getNextIndex("left")
          BY <1>3, <2>2, <3>3, <4>1
        <4> QED
          BY <1>0, <2>2, <4>2, NextIndexCounts
      <3> QED
        BY <1>5, <3>1, <3>2, <3>3
    <2> QED
      BY <2>3, <2>4
  <1> QED
    BY <1>7, <1>8, <1>9, <1>10, <1>11 DEF PInv

\* A collector ends, or a step of the paginator's surroundings.
LEMMA CollectorEndsStep ==
  ASSUME PInv, completed' \in BOOLEAN,
         UNCHANGED <<sender, isSent, messageRef, index, turns, shown, heard, presses,
                     net, overlapped>>
  PROVE  PInv'
  <1>1. PageShape'
    BY DEF PInv, PageShape
  <1>2. \A s \in Senders : Pager!HasCollector(s)' <=> Pager!HasCollector(s)
    BY DEF Pager!HasCollector
  <1> QED
    BY <1>1, <1>2, CollectorsKept

\* The messages are gone.
LEMMA MessagesEndStep ==
  ASSUME PInv, Pager!MessagesEnd
  PROVE  PInv'
  <1>0. PageShape /\ SentInv /\ OrderInv /\ ShownInv /\ ExactInv
    BY DEF PInv
  <1>1. UNCHANGED <<sender, isSent, messageRef, completed, index, turns, heard,
                    presses, net, overlapped>>
        /\ shown' = [s \in Senders |-> 0]
    BY DEF Pager!MessagesEnd
  <1>2. PageShape'
    <2>1. shown' \in [Senders -> 0 .. Pages]
      BY <1>1, PagesAssumption
    <2> QED
      BY <1>0, <1>1, <2>1 DEF PageShape
  <1>3. SentInv' /\ OrderInv'
    BY <1>0, <1>1 DEF SentInv, OrderInv, Pager!HasCollector
  <1>4. ShownInv'
    BY <1>0, <1>1 DEF ShownInv, SentInv, OnlyMessage, Pager!HasCollector
  <1>5. ExactInv'
    BY <1>0, <1>1 DEF ExactInv, Pager!getNextIndex
  <1> QED
    BY <1>2, <1>3, <1>4, <1>5 DEF PInv

\* Every step of the two components keeps the invariant of the paginator.
LEMMA PInvNext ==
  ASSUME PInv, [Next]_vars
  PROVE  PInv'
  <1>0. completed \in BOOLEAN
    BY DEF PInv, PageShape
  <1>1. CASE UNCHANGED pagerOnly
    BY <1>0, <1>1, CollectorEndsStep DEF pagerOnly
  <1>2. ASSUME NEW c \in Calls, Start(c) \/ Proceed(c) \/ Lose(c)
        PROVE  PInv'
    BY <1>1, <1>2 DEF Start, Proceed, Lose
  <1>3. CASE VoiceFetched
    BY <1>1, <1>3 DEF VoiceFetched
  <1>4. ASSUME NEW user \in Others \union {Asker}, Say(user)
        PROVE  PInv'
    BY <1>1, <1>4 DEF Say
  <1>5. ASSUME NEW s \in Senders, SendPages(s) \/ AddEmote(s)
        PROVE  PInv'
    BY <1>5, AskedStep DEF SendPages, AddEmote
  <1>6. ASSUME NEW s \in Senders, PagesSent(s)
        PROVE  PInv'
    BY <1>6, AskedStep, SentStep, UnheardStep DEF PagesSent
  <1>7. ASSUME NEW s \in Senders, CollectorEnds(s)
        PROVE  PInv'
    BY <1>7, CollectorEndsStep DEF CollectorEnds, Pager!CollectorEnds
  <1>8. CASE Press \/ HearOwn
    BY <1>8, ReactionStep DEF Press, HearOwn
  <1>9. CASE HandleTurn
    BY <1>9, HandleTurnStep DEF HandleTurn
  <1>10. CASE Turned
    BY <1>10, TurnedStep DEF Turned
  <1>11. CASE ChannelEnds
    BY <1>11, MessagesEndStep DEF ChannelEnds
  <1>12. CASE UNCHANGED vars
    BY <1>1, <1>12 DEF vars
  <1> QED
    BY <1>2, <1>3, <1>4, <1>5, <1>6, <1>7, <1>8, <1>9, <1>10, <1>11, <1>12 DEF Next

\* The inductive invariant of the paginator: what the messages show, the requests
\* under way and the index go together, however sends and turns overlap.
THEOREM PagesInvariance == Spec => []PInv
  <1>1. Init => PInv
    BY PInvInit DEF Init
  <1> QED
    BY <1>1, PInvNext, PTL DEF Spec

\* The variables of the context and of the paginator have the values their code can
\* give; among them an index that is never outside of the pages.
THEOREM TypeCorrectness == Spec => []TypeOK
  <1>1. IInv /\ PInv => TypeOK
    <2> SUFFICES ASSUME IInv, PInv PROVE TypeOK
      OBVIOUS
    <2>1. Context!ContextTypeOK /\ alive \in BOOLEAN
      BY DEF IInv, Context!ContextTypeOK
    <2>2. \A i \in DOMAIN turns : turns[i].to \in 0 .. Pages - 1
      <3>1. \A i \in DOMAIN turns : turns[i] \in TurnType
        BY DEF PInv, PageShape
      <3> QED
        BY <3>1 DEF TurnType
    <2>3. Pager!PageTypeOK
      BY <2>1, <2>2 DEF PInv, PageShape, Pager!PageTypeOK, Pager!contentLength
    <2> QED
      BY <2>1, <2>3 DEF TypeOK
  <1> QED
    BY Invariance, PagesInvariance, <1>1, PTL

\* When no turn is under way the only message of the paginator shows the page of the
\* index, however the turns overlapped, and as long as none did the index is what the
\* reactions ask for: paginate reads the index, awaits the edit and stores the index.
THEOREM IndexFollows == Spec => []IndexIsThePage
  <1>1. PInv => IndexIsThePage
    <2> SUFFICES ASSUME PInv PROVE IndexIsThePage
      OBVIOUS
    <2>0. PageShape /\ SentInv /\ ShownInv /\ ExactInv
      BY DEF PInv
    <2>1. ASSUME turns = <<>>, isSent, shown[messageRef] # 0,
                 Cardinality({s \in Senders : Pager!HasCollector(s)}) = 1
          PROVE  shown[messageRef] = index + 1
      <3> DEFINE C == {s \in Senders : Pager!HasCollector(s)}
      <3>1. C \subseteq Senders
        OBVIOUS
      <3>2. IsFiniteSet(C) /\ Cardinality(C) = 1
        BY <2>1, <3>1, SendersAssumption, FS_Subset
      <3> HIDE DEF C
      <3>3. PICK m : C = {m}
        BY <3>2, FS_Singleton
      <3>4. OnlyMessage
        BY <2>0, <2>1, <3>3 DEF C, SentInv, OnlyMessage
      <3> QED
        BY <2>0, <2>1, <3>4 DEF ShownInv
    <2>2. Pager!PageShownIsIndex
      BY <2>1, SameCount DEF Pager!PageShownIsIndex, Pager!AtRest
    <2>3. Pager!TurnsAreExact
      BY <2>0 DEF ExactInv, Pager!TurnsAreExact, Pager!AtRest
    <2> QED
      BY <2>2, <2>3 DEF IndexIsThePage
  <1> QED
    BY PagesInvariance, <1>1, PTL
===============================================================================
