---------------------------- MODULE Conversation ----------------------------
(***************************************************************************)
(* A handler talks to the channel of its event: it calls the functions of  *)
(* the event's context, or it sends a paginator there.  The two share the  *)
(* process, which a rejection that nobody hears of ends, the channel,      *)
(* whose deletion ends the collectors of both, and what is said in it.     *)
(* They share nothing else, so a behaviour has the calls of one of them    *)
(* overlap each other in every way and leaves those of the other out.      *)
(***************************************************************************)
EXTENDS Integers, Sequences, FiniteSets

CONSTANTS Calls, Asker, Others, Bot, MaxSaid, Senders, Pages, Deletable,
          MaxPresses, MaxTurns,
          MaxEffort   \* bounds presses and sends of the paginator together

\* The application speaks in the channel, and is not the user it answers.
ASSUME SpeakersAssumption == Bot \in Others /\ Asker \notin Others

ASSUME BoundsAssumption == {MaxSaid, MaxPresses, MaxTurns, MaxEffort} \subseteq Nat

\* A paginator has a page to show.
ASSUME PagesAssumption == Pages \in Nat \ {0}

\* The subscribers to the reactions are counted.
ASSUME SendersAssumption == IsFiniteSet(Senders)

VARIABLES pipeline, acknowledged, voice, call, said, channelGone, alive,
          sender, isSent, messageRef, completed, index, turns, shown, heard,
          presses, net, overlapped

Context == INSTANCE EventContext
Pager == INSTANCE WatsonPaginator WITH running <- alive

contextOnly == <<pipeline, acknowledged, voice, call, said, channelGone>>
pagerOnly == <<sender, isSent, messageRef, completed, index, turns, shown,
               heard, presses, net, overlapped>>
vars == <<contextOnly, alive, pagerOnly>>

Init == Context!ContextInit /\ Pager!PageInit

(* The paginator does not look at the pipeline: it is sent from the        *)
(* handler of a command, which is enough.                                  *)
FromCommand == pipeline.type = "command" /\ pipeline.inGuild
Effort == presses + 2 * Cardinality({s \in Senders : sender[s] # "idle"})
NoPages == \A s \in Senders : sender[s] = "idle"
NoCalls == \A c \in Calls : call[c].stage = "unused"

(***************************************************************************)
(* Steps of the functions of the context.                                  *)
(***************************************************************************)
Start(c) == NoPages /\ Context!Start(c) /\ UNCHANGED pagerOnly
Proceed(c) == Context!Proceed(c) /\ UNCHANGED pagerOnly
Lose(c) == Context!Lose(c) /\ UNCHANGED pagerOnly
VoiceFetched == Context!VoiceFetched /\ UNCHANGED pagerOnly
Say(user) == NoPages /\ Context!Say(user) /\ UNCHANGED pagerOnly

(***************************************************************************)
(* Steps of the paginator.  Its message is said in the channel.            *)
(***************************************************************************)
SendPages(s) ==
  /\ NoCalls /\ FromCommand
  /\ Effort < MaxEffort - 1
  /\ Pager!SendComponent(s)
  /\ UNCHANGED contextOnly

PagesSent(s) ==
  /\ \/ Pager!NotSent(s, FALSE) /\ UNCHANGED said
     \/ /\ ~channelGone /\ Len(said) < MaxSaid
        /\ Pager!Sent(s) \/ Pager!NotSent(s, TRUE)
        /\ said' = Append(said, Bot)
  /\ UNCHANGED <<pipeline, acknowledged, voice, call, channelGone>>

AddEmote(s) == Pager!AddEmote(s) /\ UNCHANGED contextOnly

Press ==
  /\ Effort < MaxEffort
  /\ \E m \in Senders, emote \in Pager!Emotes :
       Pager!Press(m, emote)
  /\ UNCHANGED contextOnly

HearOwn == Pager!HearOwn /\ UNCHANGED contextOnly

HandleTurn == Pager!HandleTurn /\ UNCHANGED contextOnly
Turned == Pager!Turned /\ UNCHANGED contextOnly
CollectorEnds(m) == Pager!CollectorEnds(m) /\ UNCHANGED contextOnly

(* The channel is deleted for both.                                        *)
ChannelEnds == Context!ChannelEnds /\ Pager!MessagesEnd

Next ==
  \/ \E c \in Calls : Start(c) \/ Proceed(c) \/ Lose(c)
  \/ VoiceFetched
  \/ \E user \in Others \union {Asker} : Say(user)
  \/ \E s \in Senders : SendPages(s) \/ PagesSent(s) \/ AddEmote(s) \/ CollectorEnds(s)
  \/ Press \/ HearOwn \/ HandleTurn \/ Turned
  \/ ChannelEnds

(* A request is answered or lost in the end and the process runs what is   *)
(* ready; no user has to speak or to press, and no channel to be deleted.  *)
Fairness ==
  /\ \A c \in Calls : WF_vars(Proceed(c))
  /\ WF_vars(VoiceFetched)
  /\ \A s \in Senders : WF_vars(PagesSent(s) \/ AddEmote(s))
  /\ WF_vars(HandleTurn)
  /\ WF_vars(Turned)

Spec == Init /\ [][Next]_vars /\ Fairness

(***************************************************************************)
(* Properties.                                                             *)
(***************************************************************************)
(* Every variable of the two components has the values its code can give.  *)
TypeOK == Context!ContextTypeOK /\ Pager!PageTypeOK

(* isReplied is set exactly when a reply of this pipeline was answered by  *)
(* Discord, and then the interaction was acknowledged by that reply and    *)
(* not by a deferral that overtook it.                                     *)
RepliedIsTrue == Context!RepliedIsTrue

(* A prompt is answered by the first message its user sends once it was    *)
(* shown and is being listened for, never by another speaker, an earlier   *)
(* message or the paginator, and by null only when the channel is gone.    *)
AnswersAreTheAskers == Context!AnswersAreTheAskers

(* The page that the message shows, and the page that the reactions ask    *)
(* for, are the page of the index whenever no turn is under way, however   *)
(* the turns overlapped (for the first) and as long as none did (for the   *)
(* second): WatsonPaginator reads and writes the index on the two sides of *)
(* an await.                                                               *)
IndexIsThePage == Pager!PageShownIsIndex /\ Pager!TurnsAreExact

(* Every call ends, unless it is a prompt whose user says nothing or the   *)
(* channel's bound on messages is reached, and every turn of a page ends;  *)
(* or the process has ended, for a rejection nobody awaited.               *)
EveryCallEnds ==
  /\ \A c \in Calls :
       call[c].stage # "unused" ~>
         \/ call[c].stage \in {"done", "null", "thrown", "listening"}
         \/ ~alive \/ Len(said) = MaxSaid
  /\ (turns # <<>>) ~> (turns = <<>> \/ ~alive)
=============================================================================
