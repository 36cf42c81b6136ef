-------------------------- MODULE SupportConversation --------------------------
(***************************************************************************)
(* What a support conversation promises to the user of an installation and *)
(* to the volunteers.  What the user writes is kept by the installation,   *)
(* reaches the relay and is shown; a message after the first one is shown  *)
(* once, and only marked as sent when the relay has it.  What volunteers   *)
(* do is recorded by the relay, received, and acknowledged.  The ticket    *)
(* changes only because somebody did something, and nothing that was kept, *)
(* shown, recorded or received is forgotten.                               *)
(***************************************************************************)
EXTENDS Naturals

CONSTANTS
  First, Later,            \* the messages of the user
  Takes, Answers,          \* what a volunteer does: press take, write, ...
  Closes, Closings,        \* ... press close; the user closes
  Closed                   \* the event of a closing

VARIABLES
  ticket, known,           \* the installation: its ticket, has it that of the relay
  kept, sent, received,    \* messages it keeps and marks as sent, answers it has
  opened,                  \* the relay: has it a ticket
  relayed, shown,          \* messages it has, and how often each was shown
  recorded, acknowledged,  \* events, and those the installation has acknowledged
  heard,                   \* answers recorded once the ticket was known
  used                     \* what the people have done

conversation == <<ticket, known, kept, sent, received, opened, relayed, shown,
                  recorded, acknowledged, heard, used>>

Messages == {First} \union Later

Init ==
  /\ ticket = "NONE" /\ known = FALSE /\ opened = FALSE
  /\ kept = {} /\ sent = {} /\ received = {}
  /\ relayed = {} /\ shown = [m \in Messages |-> 0]
  /\ recorded = {} /\ acknowledged = {} /\ heard = {} /\ used = {}

SomebodyClosed == used \intersect (Closes \union Closings) # {}

-------------------------------------------------------------------------------
(* From the user to the volunteers *)

\* The first message makes the ticket.
Keep(m) ==
  /\ m \notin kept /\ kept' = kept \union {m}
  /\ \/ m = First /\ ticket = "NONE" /\ ticket' = "OPEN"
     \/ m # First /\ First \in kept /\ UNCHANGED ticket
  /\ UNCHANGED <<known, sent, received, opened, relayed, shown, recorded,
                 acknowledged, heard, used>>

Open ==
  /\ First \in kept
  /\ opened' = TRUE
  /\ UNCHANGED <<ticket, known, kept, sent, received, relayed, shown, recorded,
                 acknowledged, heard, used>>

Learn ==
  /\ opened
  /\ known' = TRUE
  /\ UNCHANGED <<ticket, kept, sent, received, opened, relayed, shown, recorded,
                 acknowledged, heard, used>>

Relay(m) ==
  /\ opened /\ m \in kept
  /\ relayed' = relayed \union {m}
  /\ UNCHANGED <<ticket, known, kept, sent, received, opened, shown, recorded,
                 acknowledged, heard, used>>

Show(m) ==
  /\ opened /\ m \in kept
  /\ m # First => m \in relayed /\ shown[m] = 0
  /\ shown' = [shown EXCEPT ![m] = @ + 1]
  /\ UNCHANGED <<ticket, known, kept, sent, received, opened, relayed, recorded,
                 acknowledged, heard, used>>

\* A caller that gave up may still mark as failed what was sent.
Mark(m) ==
  /\ \/ sent' = sent \ {m}
     \/ /\ opened /\ m \in kept
        /\ m # First => m \in relayed
        /\ sent' = sent \union {m}
  /\ UNCHANGED <<ticket, known, kept, received, opened, relayed, shown, recorded,
                 acknowledged, heard, used>>

-------------------------------------------------------------------------------
(* From the volunteers to the user *)

\* A volunteer writes, or presses a button of a request that is shown.
Act(u) ==
  /\ opened /\ (u \notin Answers => shown[First] > 0)
  /\ used' = used \union {u}
  /\ UNCHANGED <<ticket, known, kept, sent, received, opened, relayed, shown,
                 recorded, acknowledged, heard>>

Record(k) ==
  /\ k \notin recorded /\ recorded' = recorded \union {k}
  /\ IF k = Closed THEN SomebodyClosed ELSE k \in used
  /\ heard' = heard \union {a \in Answers : a = k /\ known}
  /\ UNCHANGED <<ticket, known, kept, sent, received, opened, relayed, shown,
                 acknowledged, used>>

Receive(a) ==
  /\ known /\ a \in recorded
  /\ received' = received \union {a}
  /\ UNCHANGED <<ticket, known, kept, sent, opened, relayed, shown, recorded,
                 acknowledged, heard, used>>

\* Only what is recorded, and no answer to a known ticket that is not received.
Acknowledge ==
  /\ acknowledged \subseteq acknowledged' /\ acknowledged' \subseteq recorded
  /\ heard \intersect acknowledged' \subseteq received
  /\ UNCHANGED <<ticket, known, kept, sent, received, opened, relayed, shown,
                 recorded, heard, used>>

-------------------------------------------------------------------------------
(* The ticket *)

Close(u) ==
  /\ ticket \in {"OPEN", "IN_PROGRESS"} /\ ticket' = "CLOSED"
  /\ used' = used \union {u}
  /\ UNCHANGED <<known, kept, sent, received, opened, relayed, shown, recorded,
                 acknowledged, heard>>

\* What was recorded moves the ticket, which opens again if it was closed.
Follow ==
  /\ known
  /\ \/ ticket' = "CLOSED" /\ Closed \in recorded
     \/ ticket' = "IN_PROGRESS" /\ recorded \intersect (Takes \union Answers) # {}
  /\ UNCHANGED <<known, kept, sent, received, opened, relayed, shown, recorded,
                 acknowledged, heard, used>>

Next ==
  \/ \E m \in Messages : Keep(m) \/ Relay(m) \/ Show(m) \/ Mark(m)
  \/ Open \/ Learn \/ Acknowledge \/ Follow
  \/ \E u \in Takes \union Answers \union Closes : Act(u)
  \/ \E k \in Takes \union Answers \union {Closed} : Record(k)
  \/ \E a \in Answers : Receive(a)
  \/ \E u \in Closings : Close(u)

Spec == Init /\ [][Next]_conversation
===============================================================================
