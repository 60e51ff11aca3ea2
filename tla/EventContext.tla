---------------------------- MODULE EventContext ----------------------------
(***************************************************************************)
(* What a handler may ask of the event it handles: the functions that      *)
(* ContextProviderFactory makes for one pipeline and binds in its context  *)
(* (reply, followUp, deferReply, send, prompt, find) and the voice channel *)
(* it starts to look up when the context is made.  Every function awaits   *)
(* Discord, so calls of one handler overlap.                               *)
(*                                                                         *)
(* Discord and discord.js are outside the repository: an interaction is    *)
(* acknowledged once, a follow-up needs an acknowledgement, a request or   *)
(* its answer may be lost, and a collector of messages sees those that     *)
(* arrive after it was made.  A rejected promise nobody awaits ends the    *)
(* process, as Node does by default.                                       *)
(***************************************************************************)
EXTENDS Naturals, Sequences

CONSTANTS
  Calls,     \* the calls the handlers of the event make
  Asker,     \* the user who caused the event
  Others,    \* other speakers of the channel, this application among them
  Bot,       \* this application
  MaxSaid    \* how many messages the channel sees

VARIABLES
  pipeline,      \* what the pipeline holds of its event, and its two flags
  acknowledged,  \* what Discord knows of the interaction
  voice,         \* the promise bound as VoiceChannelCtx
  call,          \* the calls, each at a stage
  said,          \* who spoke in the channel, as the client hears of it
  channelGone,   \* the channel was deleted
  alive          \* the process runs

Speakers == Others \union {Asker}
Kinds == {"reply", "followUp", "defer", "send", "prompt", "find", "voice"}
Stages == {"unused", "fetching", "awaiting", "requested", "accepted",
           "rejected", "listening", "done", "null", "thrown"}
Ended == {"done", "null", "thrown"}

(* CommandPipelineImpl never stores the id of the guild: only an           *)
(* interaction knows that it comes from one.                               *)
IsFromGuild(p) == p.type = "interaction" /\ p.inGuild

Unused == [kind |-> "send", stage |-> "unused", own |-> FALSE,
           since |-> 0, answer |-> 0]

(* The kinds of routes a pipeline is made for.                             *)
PipelineTypes == {"command", "interaction", "event"}

(* A message has a channel, that of an interaction may not be known; any   *)
(* other event has neither channel nor user.                               *)
Pipelines ==
  {p \in [type : PipelineTypes, inGuild : BOOLEAN,
          channel : BOOLEAN, isReplied : {FALSE}, isDeferred : {FALSE}] :
     /\ p.type = "command" => p.channel
     /\ p.type = "event" => ~p.channel /\ ~p.inGuild}

(* The providers of a context ask the pipeline for a voice channel.  That  *)
(* of an event cannot be asked: its context is never made, and the promise *)
(* of it, which create does not await, is rejected.                        *)
HasContext(p) == p.type # "event"

(* The functions bound in the context of a pipeline.                       *)
Provided(p) ==
  {"send", "prompt", "find", "voice"}
    \union (IF p.type = "interaction" THEN {"reply", "followUp", "defer"} ELSE {})

(* The member of the user is fetched in the guild, outside there is none.  *)
VoiceChannel(p) == IF IsFromGuild(p) THEN "fetching" ELSE "null"

ContextInit ==
  /\ pipeline \in Pipelines
  /\ acknowledged = "no"
  /\ voice = VoiceChannel(pipeline)
  /\ call = [c \in Calls |-> Unused]
  /\ said = <<>>
  /\ channelGone = FALSE
  /\ alive = HasContext(pipeline)

(***************************************************************************)
(* The calls.                                                              *)
(***************************************************************************)
Begin(c, kind, stage, own) ==
  /\ alive
  /\ kind \in Provided(pipeline)
  /\ call[c].stage = "unused"
  /\ call' = [call EXCEPT ![c] = [@ EXCEPT !.kind = kind, !.stage = stage,
                                           !.own = own]]
  /\ UNCHANGED <<acknowledged, voice, said, channelGone, alive>>

Reply(c) ==
  /\ Begin(c, "reply", IF pipeline.isReplied THEN "thrown" ELSE "requested", FALSE)
  /\ UNCHANGED pipeline

FollowUp(c) ==
  /\ Begin(c, "followUp", "requested", FALSE)
  /\ UNCHANGED pipeline

(* The request is sent and not awaited.                                    *)
Defer(c) ==
  /\ Begin(c, "defer", "requested", FALSE)
  /\ pipeline' = [pipeline EXCEPT !.isDeferred = TRUE]

(* Without a channel the event's is taken; a name of a channel is looked   *)
(* up in the guild that is given with it.                                  *)
Send(c) ==
  /\ \/ Begin(c, "send", IF pipeline.channel THEN "requested" ELSE "thrown", TRUE)
     \/ \E stage \in {"requested", "thrown", "fetching"} :
          Begin(c, "send", stage, FALSE)
  /\ UNCHANGED pipeline

ChannelFetched(c) ==
  /\ alive
  /\ call[c].stage = "fetching"
  /\ \E stage \in {"requested", "thrown"} :
       call' = [call EXCEPT ![c].stage = stage]
  /\ UNCHANGED <<pipeline, acknowledged, voice, said, channelGone, alive>>

(* The right to speak is asked for an event from a guild only.             *)
Prompt(c) ==
  /\ \E maySpeak \in BOOLEAN :
       Begin(c, "prompt",
             IF pipeline.channel /\ (IsFromGuild(pipeline) => maySpeak)
             THEN "requested" ELSE "thrown", TRUE)
  /\ UNCHANGED pipeline

(* Outside of a guild the function that finds answers null.                *)
Find(c) ==
  /\ \E stage \in {"done", "null"} :
       /\ stage = "done" => IsFromGuild(pipeline)
       /\ Begin(c, "find", stage, FALSE)
  /\ UNCHANGED pipeline

ReadVoice(c) ==
  /\ Begin(c, "voice", CASE voice = "fetching" -> "awaiting"
                         [] voice = "rejected" -> "thrown"
                         [] OTHER              -> "done", FALSE)
  /\ UNCHANGED pipeline

(***************************************************************************)
(* Discord.                                                                *)
(***************************************************************************)
Speaks(c) == call[c].own \/ call[c].kind = "followUp"

Accepts(c) ==
  CASE call[c].kind \in {"reply", "defer"} -> acknowledged = "no"
    [] call[c].kind = "followUp"           -> acknowledged # "no"
    [] OTHER                               -> call[c].own => ~channelGone

Handle(c) ==
  /\ alive
  /\ call[c].stage = "requested"
  /\ Accepts(c) /\ Speaks(c) => Len(said) < MaxSaid
  /\ call' = [call EXCEPT ![c].stage = IF Accepts(c) THEN "accepted" ELSE "rejected"]
  /\ acknowledged' = IF Accepts(c) /\ call[c].kind \in {"reply", "defer"}
                     THEN call[c].kind ELSE acknowledged
  /\ said' = IF Accepts(c) /\ Speaks(c) THEN Append(said, Bot) ELSE said
  /\ UNCHANGED <<pipeline, voice, channelGone, alive>>

(* The request or its answer is lost: the call is told it was refused.     *)
Lose(c) ==
  /\ alive
  /\ call[c].stage \in {"requested", "accepted"}
  /\ call' = [call EXCEPT ![c].stage = "rejected"]
  /\ UNCHANGED <<pipeline, acknowledged, voice, said, channelGone, alive>>

(* A variant that keeps the result for later readers only.                 *)
VoiceFetchedForLater ==
  /\ alive
  /\ voice = "fetching"
  /\ \E result \in {"known", "rejected"} :
       /\ voice' = result
       /\ alive' = (result = "known")
  /\ UNCHANGED <<pipeline, acknowledged, call, said, channelGone>>

VoiceFetched ==
  /\ alive
  /\ voice = "fetching"
  /\ LET readers == {c \in Calls : call[c].stage = "awaiting"} IN
     \E result \in {"known", "rejected"} :
       /\ voice' = result
       /\ call' = [c \in Calls |->
            IF c \in readers
            THEN [call[c] EXCEPT !.stage = IF result = "known" THEN "done" ELSE "thrown"]
            ELSE call[c]]
       /\ alive' = (result = "known" \/ readers # {})
  /\ UNCHANGED <<pipeline, acknowledged, said, channelGone>>

(***************************************************************************)
(* The answers of Discord reach the calls.  A prompt makes its collector   *)
(* when the message that asks was sent, and gives it no time to end.       *)
(***************************************************************************)
(* A variant that notes a reply however it was answered.                   *)
ReturnSettled(c) ==
  /\ alive
  /\ call[c].stage \in {"accepted", "rejected"}
  /\ LET ok == call[c].stage = "accepted" IN
     /\ call' = [call EXCEPT ![c] =
          IF ok /\ @.kind = "prompt"
          THEN [@ EXCEPT !.stage = "listening", !.since = Len(said)]
          ELSE [@ EXCEPT !.stage = IF ok THEN "done" ELSE "thrown"]]
     /\ pipeline' = [pipeline EXCEPT !.isReplied = @ \/ call[c].kind = "reply"]
     /\ alive' = (ok \/ call[c].kind # "defer")
  /\ UNCHANGED <<acknowledged, voice, said, channelGone>>

Return(c) ==
  /\ alive
  /\ call[c].stage \in {"accepted", "rejected"}
  /\ LET ok == call[c].stage = "accepted" IN
     /\ call' = [call EXCEPT ![c] =
          IF ok /\ @.kind = "prompt"
          THEN [@ EXCEPT !.stage = "listening", !.since = Len(said)]
          ELSE [@ EXCEPT !.stage = IF ok THEN "done" ELSE "thrown"]]
     /\ pipeline' = [pipeline EXCEPT !.isReplied = @ \/ (ok /\ call[c].kind = "reply")]
     /\ alive' = (ok \/ call[c].kind # "defer")
  /\ UNCHANGED <<acknowledged, voice, said, channelGone>>

(* A variant whose collector has no filter.                                *)
CollectsAnyone(c, user) == call[c].stage = "listening"
Collects(c, user) == call[c].stage = "listening" /\ user = Asker

(* A message answers every prompt that waits for its author.               *)
Say(user) ==
  /\ alive
  /\ ~channelGone
  /\ Len(said) < MaxSaid
  /\ said' = Append(said, user)
  /\ call' = [c \in Calls |->
       IF Collects(c, user)
       THEN [call[c] EXCEPT !.stage = "done", !.answer = Len(said) + 1]
       ELSE call[c]]
  /\ UNCHANGED <<pipeline, acknowledged, voice, channelGone, alive>>

(* A deleted channel ends its collectors: their prompts answer null.       *)
ChannelEnds ==
  /\ alive
  /\ ~channelGone
  /\ channelGone' = TRUE
  /\ call' = [c \in Calls |-> IF call[c].stage = "listening"
                              THEN [call[c] EXCEPT !.stage = "null"] ELSE call[c]]
  /\ UNCHANGED <<pipeline, acknowledged, voice, said, alive>>

Start(c) == Reply(c) \/ FollowUp(c) \/ Defer(c) \/ Send(c) \/ Prompt(c)
            \/ Find(c) \/ ReadVoice(c)

Proceed(c) == ChannelFetched(c) \/ Handle(c) \/ Return(c)

(***************************************************************************)
(* Properties.                                                             *)
(***************************************************************************)
ContextTypeOK ==
  /\ pipeline \in [type : PipelineTypes, inGuild : BOOLEAN,
                   channel : BOOLEAN, isReplied : BOOLEAN, isDeferred : BOOLEAN]
  /\ acknowledged \in {"no", "reply", "defer"}
  /\ voice \in {"fetching", "known", "null", "rejected"}
  /\ call \in [Calls -> [kind : Kinds, stage : Stages, own : BOOLEAN,
                         since : 0..MaxSaid, answer : 0..MaxSaid]]
  /\ said \in Seq(Speakers)
  /\ channelGone \in BOOLEAN
  /\ alive \in BOOLEAN

(* Two replies never both reach the user, and once a reply has returned    *)
(* the pipeline says so, whatever deferrals, follow-ups and refusals       *)
(* overlapped it: isReplied is never set for a reply that Discord refused  *)
(* or whose answer was lost.                                               *)
RepliedIsTrue ==
  /\ pipeline.isReplied <=> \E c \in Calls : call[c].kind = "reply" /\ call[c].stage = "done"
  /\ pipeline.isReplied => acknowledged = "reply"

(* A prompt is answered by the first message that the user who caused the  *)
(* event sends after the prompt was shown and its collector made; it is    *)
(* answered null only when its channel is gone.                            *)
AnswersAreTheAskers ==
  \A c \in Calls : call[c].kind = "prompt" =>
    /\ call[c].stage = "done" =>
         /\ said[call[c].answer] = Asker
         /\ \A i \in call[c].since + 1 .. call[c].answer - 1 : said[i] # Asker
         /\ \E i \in 1..call[c].since : said[i] = Bot
    /\ call[c].stage = "null" => channelGone
    /\ call[c].stage = "listening" =>
         \A i \in call[c].since + 1 .. Len(said) : said[i] # Asker
=============================================================================
