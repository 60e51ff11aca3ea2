-------------------------- MODULE WatsonPaginator --------------------------
(***************************************************************************)
(* The paginator, a message whose pages are turned by reactions            *)
(* (WatsonComponent and WatsonPaginator).  send awaits the message, makes  *)
(* a collector of reactions, adds its own emotes one after another and     *)
(* only then subscribes to the reactions; paginate reads the index, awaits *)
(* the edit of the message and then stores the new index.  Both yield in   *)
(* the middle, so sends and turns overlap.                                 *)
(*                                                                         *)
(* Discord and discord.js are outside the repository: requests are handled *)
(* in the order in which they were made, and any of them may be refused,   *)
(* or be done while its answer is lost; the client hears of every          *)
(* reaction, its own included, in order and some time after it was made; a *)
(* collector ends after its time or with its message.                      *)
(***************************************************************************)
EXTENDS Integers, Sequences, FiniteSets

CONSTANTS
  Senders,     \* the callers of send
  Pages,       \* how many pages the paginator has
  Deletable,   \* the option that lets a reaction delete the message
  MaxPresses,  \* how many reactions the users make
  MaxTurns     \* how many requests are under way together

VARIABLES
  sender,      \* the calls of send: how far each one is
  isSent,
  messageRef,  \* the sender whose message the component holds
  completed,   \* a collector ended and completed the shared subject
  index,
  turns,       \* the requests under way, oldest first
  shown,       \* the page that Discord shows of each message, 0 when there is none
  heard,       \* reactions of its own the client is yet to hear of, in order
  presses,     \* how many reactions the users made
  net,         \* history: turns to the right less turns to the left, handled
  overlapped,  \* history: a page was turned before an earlier turn was over
  running      \* the process runs

NoMessage == "none"
Emotes == {"left", "right"} \union (IF Deletable THEN {"delete"} ELSE {})

(* A call of send adds the emote it names next, and then subscribes.       *)
AfterEmote(emote) ==
  CASE emote = "left"                -> "right"
    [] emote = "right" /\ Deletable  -> "delete"
    [] OTHER                         -> "subscribed"

SenderStages == {"idle", "sending", "refused", "failed", "subscribed"} \union Emotes
contentLength == Pages - 1

PageInit ==
  /\ sender = [s \in Senders |-> "idle"]
  /\ isSent = FALSE
  /\ messageRef = NoMessage
  /\ completed = FALSE
  /\ index = 0
  /\ turns = <<>>
  /\ shown = [s \in Senders |-> 0]
  /\ heard = <<>>
  /\ presses = 0
  /\ net = 0
  /\ overlapped = FALSE
  /\ running = TRUE

(***************************************************************************)
(* Sending: the flag is read before the message is awaited and set after.  *)
(***************************************************************************)
SendComponent(s) ==
  /\ running
  /\ sender[s] = "idle"
  /\ sender' = [sender EXCEPT ![s] = IF isSent THEN "refused" ELSE "sending"]
  /\ UNCHANGED <<isSent, messageRef, completed, index, turns, shown, heard,
                 presses, net, overlapped, running>>

(* The message appears, its collector is made, the emotes are to be added. *)
Sent(s) ==
  /\ running
  /\ sender[s] = "sending"
  /\ shown' = [shown EXCEPT ![s] = 1]
  /\ messageRef' = s
  /\ isSent' = TRUE
  /\ sender' = [sender EXCEPT ![s] = "left"]
  /\ UNCHANGED <<completed, index, turns, heard, presses, net, overlapped, running>>

(* The request fails; the message may appear all the same.                 *)
NotSent(s, appears) ==
  /\ running
  /\ sender[s] = "sending"
  /\ shown' = IF appears THEN [shown EXCEPT ![s] = 1] ELSE shown
  /\ sender' = [sender EXCEPT ![s] = "refused"]
  /\ UNCHANGED <<isSent, messageRef, completed, index, turns, heard, presses,
                 net, overlapped, running>>

(* The next emote is added to the message the component holds by then, if  *)
(* there is one; the send ends with the error if that fails.  After the    *)
(* last one the reactions are subscribed to.                               *)
AddEmote(s) ==
  /\ running
  /\ sender[s] \in Emotes
  /\ \E added, answered \in BOOLEAN :
       /\ added => shown[messageRef] # 0
       /\ answered => added
       /\ heard' = IF added THEN Append(heard, <<messageRef, sender[s]>>) ELSE heard
       /\ sender' = [sender EXCEPT ![s] = IF answered THEN AfterEmote(@) ELSE "failed"]
  /\ UNCHANGED <<isSent, messageRef, completed, index, turns, shown, presses,
                 net, overlapped, running>>

(***************************************************************************)
(* Reactions.                                                              *)
(***************************************************************************)
(* A variant that takes the number of pages for the last index.            *)
getNextIndexPastEnd(direction) ==
  CASE direction = "left"  -> IF index = 0 THEN Pages ELSE index - 1
    [] direction = "right" -> IF index = Pages THEN 0 ELSE index + 1

getNextIndex(direction) ==
  CASE direction = "left"  -> IF index = 0 THEN contentLength ELSE index - 1
    [] direction = "right" -> IF index = contentLength THEN 0 ELSE index + 1

Subscribers == {s \in Senders : sender[s] = "subscribed"}
HasCollector(m) == sender[m] \in Emotes \union {"subscribed", "failed"}

(* The request a subscriber makes for a reaction: the page it turns to is  *)
(* counted from the index as it is now.                                    *)
Turn(emote) ==
  [what |-> emote, on |-> messageRef, answered |-> FALSE,
   to |-> IF emote = "delete" THEN 0 ELSE getNextIndex(emote)]

(* The subject hands a reaction to every subscriber.                       *)
Collect(m, emote) ==
  LET n == IF HasCollector(m) /\ ~completed THEN Cardinality(Subscribers) ELSE 0 IN
  /\ Len(turns) + n <= MaxTurns
  /\ turns' = turns \o [i \in 1..n |-> Turn(emote)]
  /\ overlapped' = (overlapped \/ n > 1 \/ (n = 1 /\ turns # <<>>))
  /\ UNCHANGED <<sender, isSent, messageRef, completed, index, shown, net, running>>

Press(m, emote) ==
  /\ running
  /\ presses < MaxPresses
  /\ shown[m] # 0
  /\ presses' = presses + 1
  /\ Collect(m, emote)
  /\ UNCHANGED heard

(* The client hears of a reaction of its own; nothing filters it out.      *)
HearOwn ==
  /\ running
  /\ heard # <<>>
  /\ heard' = Tail(heard)
  /\ Collect(heard[1][1], heard[1][2])
  /\ UNCHANGED presses

(***************************************************************************)
(* Discord handles the requests in order; the answers come in that order.  *)
(* The subscriber awaits a request where nobody hears of its rejection: if *)
(* it fails, as that on a deleted message does, the process is over.       *)
(***************************************************************************)
Pending == {i \in 1..Len(turns) : ~turns[i].answered}

HandleTurn ==
  /\ running
  /\ Pending # {}
  /\ LET i == CHOOSE j \in Pending : \A k \in Pending : j <= k
         t == turns[i] IN
     \/ running' = FALSE /\ UNCHANGED <<turns, shown>>
     \/ /\ shown[t.on] # 0
        /\ turns' = [turns EXCEPT ![i].answered = TRUE]
        /\ shown' = [shown EXCEPT ![t.on] = IF t.what = "delete" THEN 0 ELSE t.to + 1]
        /\ UNCHANGED running
  /\ UNCHANGED <<sender, isSent, messageRef, completed, index, heard, presses,
                 net, overlapped>>

(* A variant that counts the new index from the index as it is by then.    *)
TurnedFromThere ==
  /\ running
  /\ turns # <<>> /\ turns[1].answered
  /\ turns' = Tail(turns)
  /\ LET t == turns[1] IN
     IF t.what = "delete"
     THEN UNCHANGED <<index, net>>
     ELSE /\ index' = getNextIndex(t.what)
          /\ net' = net + (IF t.what = "right" THEN 1 ELSE -1)
  /\ UNCHANGED <<sender, isSent, messageRef, completed, shown, heard, presses,
                 overlapped, running>>

Turned ==
  /\ running
  /\ turns # <<>> /\ turns[1].answered
  /\ turns' = Tail(turns)
  /\ LET t == turns[1] IN
     IF t.what = "delete"
     THEN UNCHANGED <<index, net>>
     ELSE /\ index' = t.to
          /\ net' = net + (IF t.what = "right" THEN 1 ELSE -1)
  /\ UNCHANGED <<sender, isSent, messageRef, completed, shown, heard, presses,
                 overlapped, running>>

(* The time of a collector is over, or the client hears that its message   *)
(* is gone.                                                                *)
CollectorEnds(m) ==
  /\ running
  /\ ~completed
  /\ HasCollector(m)
  /\ completed' = TRUE
  /\ UNCHANGED <<sender, isSent, messageRef, index, turns, shown, heard, presses,
                 net, overlapped, running>>

(* The channel is deleted with the messages in it.                         *)
MessagesEnd ==
  /\ running
  /\ shown' = [s \in Senders |-> 0]
  /\ UNCHANGED <<sender, isSent, messageRef, completed, index, turns, heard,
                 presses, net, overlapped, running>>

(***************************************************************************)
(* Properties.                                                             *)
(***************************************************************************)
PageTypeOK ==
  /\ sender \in [Senders -> SenderStages]
  /\ isSent \in BOOLEAN
  /\ messageRef \in Senders \union {NoMessage}
  /\ completed \in BOOLEAN
  /\ index \in 0..contentLength
  /\ \A i \in DOMAIN turns : turns[i].to \in 0..contentLength
  /\ shown \in [Senders -> 0..Pages]
  /\ presses \in 0..MaxPresses
  /\ net \in Int
  /\ overlapped \in BOOLEAN
  /\ running \in BOOLEAN

AtRest == turns = <<>> /\ running

(* When no turn is under way the message shows the page of the index,      *)
(* however the turns overlapped, unless the component was sent twice and   *)
(* the message it holds changed under them.                                *)
PageShownIsIndex ==
  AtRest /\ isSent /\ shown[messageRef] # 0
    /\ Cardinality({s \in Senders : HasCollector(s)}) = 1
      => shown[messageRef] = index + 1

(* As long as no turn began before an earlier one was over, the index is   *)
(* what the reactions say, around both ends.                               *)
TurnsAreExact == AtRest /\ ~overlapped => index = net % Pages
=============================================================================
