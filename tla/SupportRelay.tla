----------------------------- MODULE SupportRelay -----------------------------
(***************************************************************************)
(* One support ticket, between HumanSupportService in an installation and  *)
(* the relay that publishes it to the volunteers on Telegram.  Each side   *)
(* keeps its own rows.  The installation calls the relay, when the user    *)
(* acts and from syncRelay every 15 seconds; an answer it gives up on may  *)
(* still be worked on by the relay.  Volunteers reach the relay through    *)
(* the webhook, which Telegram delivers until it is answered; what they do *)
(* becomes events the installation pulls, accepts and acknowledges.        *)
(* A request in progress is a record of "calls", cut at its awaits.        *)
(***************************************************************************)
EXTENDS Naturals, Sequences, FiniteSets, SequencesExt

CONSTANTS
  Later,      \* messages the user may send after the first one
  Closings,   \* times the user closes the ticket
  Syncs,      \* runs of syncRelay that may overlap
  Takes,      \* presses of a volunteer on take or takeover
  Closes,     \* presses of a volunteer on close
  Answers,    \* messages a volunteer writes in the topic
  MaxFaults,  \* bound on the failures: crashes, time-outs, refusals
  Busy        \* may the installation have fifty other tickets open

ASSUME FaultsAssumption == MaxFaults \in Nat /\ Busy \in BOOLEAN
ASSUME LaterAssumption == IsFiniteSet(Later)

First == "first"
Closed == "closed"
Messages == {First} \union Later
Updates == Takes \union Closes \union Answers
Keys == Takes \union Answers \union {Closed}

ASSUME NamesAssumption ==
  /\ First \notin Later /\ Closed \notin Takes \union Answers
  /\ Answers \intersect (Takes \union Closes) = {}
  /\ Syncs \intersect {"user", "telegram", "nobody"} = {}

VARIABLES
  ticket, known,     \* the local ticket: status, and has it a relayTicketId
  relayError,        \* has it a relayError
  delivery,          \* deliveryStatus of its messages
  received,          \* the answers it holds
  topic, assigned,   \* the ticket of the relay: status, has it a volunteer
  stored, posted,    \* its messages, and how often Telegram shows each
  events, delivered, \* its events in order, and those acknowledged
  calls,             \* requests in progress
  sync,              \* each run of syncRelay
  used,              \* closings that are done, updates Telegram has delivered
  faults,            \* failures so far
  heard,             \* history: answers recorded once the ticket was known
  crowded            \* are there fifty tickets retryOutbound reads before this

local == <<ticket, known, relayError, delivery, received>>
remote == <<topic, assigned, stored, posted, events, delivered>>
vars == <<local, remote, calls, sync, used, faults, heard, crowded>>

\* A request: what it asks about, who waits for it, whether it is addressed by
\* the relayTicketId, and where it is.  "checked" is still in the API, "ok",
\* "error" and "learned" are back there, the others are at the relay.
Callers == Syncs \union {"user", "telegram", "nobody"}
AtRelay == {"arrived", "create", "post", "store", "event"}
Call == [kind : {"open", "send", "close", "take", "answer"},
         item : Messages \union Updates \union {Closed},
         by : Callers, addressed : BOOLEAN,
         at : AtRelay \union {"checked", "ok", "error", "learned"}]

\* A run of syncRelay: the calls it has left, the events it pulled and the
\* position of the one it accepts.
Todo == [kind : {"open"}, item : {First}] \union [kind : {"send"}, item : Messages]
        \union [kind : {"close"}, item : {Closed}]
Sync == [pc : {"idle", "calls", "pull", "accept", "insert", "mark", "ack"},
         todo : Seq(Todo), batch : Seq(Keys), next : Nat]

TypeOK ==
  /\ ticket \in {"NONE", "OPEN", "IN_PROGRESS", "CLOSED"}
  /\ known \in BOOLEAN /\ relayError \in BOOLEAN
  /\ delivery \in [Messages -> {"NONE", "PENDING", "SENT", "FAILED"}]
  /\ received \subseteq Answers
  /\ topic \in {"NONE", "OPEN", "IN_PROGRESS", "CLOSED"} /\ assigned \in BOOLEAN
  /\ stored \subseteq Messages /\ posted \in [Messages -> Nat]
  /\ events \in Seq(Keys) /\ delivered \subseteq Keys
  /\ calls \subseteq Call
  /\ sync \in [Syncs -> Sync]
  /\ used \subseteq Updates \union Closings /\ faults \in 0 .. MaxFaults
  /\ heard \subseteq Answers
  /\ crowded \in BOOLEAN

Resting == [pc |-> "idle", todo |-> <<>>, batch |-> <<>>, next |-> 0]

Init ==
  /\ ticket = "NONE" /\ known = FALSE /\ relayError = FALSE
  /\ delivery = [m \in Messages |-> "NONE"] /\ received = {}
  /\ topic = "NONE" /\ assigned = FALSE
  /\ stored = {} /\ posted = [m \in Messages |-> 0]
  /\ events = <<>> /\ delivered = {}
  /\ calls = {} /\ sync = [s \in Syncs |-> Resting]
  /\ used = {} /\ faults = 0 /\ heard = {} /\ crowded = FALSE

Fault == faults < MaxFaults /\ faults' = faults + 1

Request(kind, item, by, at) ==
  [kind |-> kind, item |-> item, by |-> by, addressed |-> known, at |-> at]
Goes(c, at) == calls' = (calls \ {c}) \union {[c EXCEPT !.at = at]}
Ends(c) == calls' = calls \ {c}

\* The answer to a webhook, or to a caller that is gone, changes nothing.
Answered(c, at) ==
  IF c.by \in {"telegram", "nobody"} THEN Ends(c) ELSE Goes(c, at)

-------------------------------------------------------------------------------
(* The user *)

\* create: the ticket with its first message, then openTicket, not awaited.
Create ==
  /\ ticket = "NONE"
  /\ ticket' = "OPEN"
  /\ delivery' = [delivery EXCEPT ![First] = "PENDING"]
  /\ calls' = calls \union {Request("open", First, "user", "arrived")}
  /\ UNCHANGED <<known, relayError, received, remote, sync, used, faults,
                 heard, crowded>>

\* send reads the ticket ...
SendCheck(m) ==
  /\ ticket \in {"OPEN", "IN_PROGRESS"}
  /\ delivery[m] = "NONE" /\ ~ \E c \in calls : c.at = "checked" /\ c.item = m
  /\ calls' = calls \union {Request("send", m, "user", "checked")}
  /\ UNCHANGED <<local, remote, sync, used, faults, heard, crowded>>

\* Variant of SendStore: the message is sent and was not created.
SendStoreNot(c) ==
  /\ c.at = "checked"
  /\ Goes(c, "arrived")
  /\ UNCHANGED <<local, remote, sync, used, faults, heard, crowded>>

\* ... creates the message, and calls sendMessage with the ticket as read.
SendStore(c) ==
  /\ c.at = "checked"
  /\ delivery' = [delivery EXCEPT ![c.item] = "PENDING"]
  /\ Goes(c, "arrived")
  /\ UNCHANGED <<ticket, known, relayError, received, remote, sync, used, faults,
                 heard, crowded>>

\* close: the ticket, then closeTicket, not awaited.
CloseTicket(u) ==
  /\ u \notin used /\ used' = used \union {u}
  /\ ticket \in {"OPEN", "IN_PROGRESS"}
  /\ ticket' = "CLOSED"
  /\ calls' = calls \union {Request("close", Closed, "user", "arrived")}
  /\ UNCHANGED <<known, relayError, delivery, received, remote, sync, faults,
                 heard, crowded>>

-------------------------------------------------------------------------------
(* The relay *)

\* open: a ticket that is present is the answer, whatever became of it.
OpenFind(c) ==
  /\ c.kind = "open" /\ c.at = "arrived"
  /\ IF topic = "NONE" THEN Goes(c, "create") ELSE Answered(c, "ok")
  /\ UNCHANGED <<local, remote, sync, used, faults, heard, crowded>>

\* The row is unique by local ticket.
OpenCreate(c) ==
  /\ c.kind = "open" /\ c.at = "create"
  /\ \/ topic = "NONE" /\ topic' = "OPEN" /\ Goes(c, "post")
     \/ topic # "NONE" /\ UNCHANGED topic /\ Answered(c, "error")
  /\ UNCHANGED <<local, assigned, stored, posted, events, delivered, sync, used,
                 faults, heard, crowded>>

\* Variant of SendFind: the relay does not look for the message.
SendFindNot(c) ==
  /\ c.kind = "send" /\ c.at = "arrived"
  /\ IF ~c.addressed \/ topic \in {"NONE", "CLOSED"} THEN Answered(c, "error")
     ELSE Goes(c, IF c.item \in stored THEN "post" ELSE "create")
  /\ UNCHANGED <<local, remote, sync, used, faults, heard, crowded>>

\* message: the ticket exists, is not closed, and does not hold the message,
\* or it does and nothing is left to be done.
SendFind(c) ==
  /\ c.kind = "send" /\ c.at = "arrived"
  /\ IF ~c.addressed \/ topic \in {"NONE", "CLOSED"} THEN Answered(c, "error")
     ELSE IF c.item \in stored THEN Answered(c, "ok") ELSE Goes(c, "create")
  /\ UNCHANGED <<local, remote, sync, used, faults, heard, crowded>>

\* storeOutbound: the row is unique by local message, and precedes the post.
SendCreate(c) ==
  /\ c.kind = "send" /\ c.at = "create"
  /\ stored' = stored \union {c.item}
  /\ IF c.item \in stored THEN Answered(c, "error") ELSE Goes(c, "post")
  /\ UNCHANGED <<local, topic, assigned, posted, events, delivered, sync, used,
                 faults, heard, crowded>>

\* Telegram shows the message, the first one in the opening text with the
\* buttons, or refuses it.
Post(c) ==
  /\ c.at = "post"
  /\ \/ /\ posted' = [posted EXCEPT ![c.item] = @ + 1]
        /\ IF c.kind = "open" THEN Goes(c, "store") ELSE Answered(c, "ok")
        /\ UNCHANGED faults
     \/ Fault /\ UNCHANGED posted /\ Answered(c, "error")
  /\ UNCHANGED <<local, topic, assigned, stored, events, delivered, sync, used,
                 heard, crowded>>

\* open stores the first message without publishing it again.
OpenStore(c) ==
  /\ c.at = "store"
  /\ stored' = stored \union {c.item}
  /\ Answered(c, "ok")
  /\ UNCHANGED <<local, topic, assigned, posted, events, delivered, sync, used,
                 faults, heard, crowded>>

\* closeTicket: the status first ...
CloseFind(c) ==
  /\ c.kind = "close" /\ c.at = "arrived"
  /\ \/ /\ c.by # "telegram" /\ (~c.addressed \/ topic = "NONE")
        /\ Answered(c, "error") /\ UNCHANGED topic
     \/ /\ c.by = "telegram" \/ c.addressed
        /\ topic = "CLOSED"
        /\ Answered(c, "ok") /\ UNCHANGED topic
     \/ /\ c.by = "telegram" \/ c.addressed
        /\ topic \in {"OPEN", "IN_PROGRESS"}
        /\ topic' = "CLOSED"
        /\ Goes(c, "event")
  /\ UNCHANGED <<local, assigned, stored, posted, events, delivered, sync, used,
                 faults, heard, crowded>>

\* The take and takeover callbacks: the status first, that of a closed ticket
\* too.
TakeFind(c) ==
  /\ c.kind = "take" /\ c.at = "arrived"
  /\ topic' = "IN_PROGRESS" /\ assigned' = TRUE
  /\ Goes(c, "event")
  /\ UNCHANGED <<local, stored, posted, events, delivered, sync, used, faults,
                 heard, crowded>>

\* A message in the topic counts when its author is assigned and the ticket not
\* closed; attachments are fetched before the event is recorded.
AnswerFind(c) ==
  /\ c.kind = "answer" /\ c.at = "arrived"
  /\ IF topic # "CLOSED" /\ assigned THEN Goes(c, "event") ELSE Ends(c)
  /\ UNCHANGED <<local, remote, sync, used, faults, heard, crowded>>

\* event: an upsert by key that leaves the event it finds as it is.
Key(c) == IF c.kind = "close" THEN Closed ELSE c.item

RecordEvent(c) ==
  /\ c.at = "event"
  /\ \/ Contains(events, Key(c)) /\ UNCHANGED <<events, heard, crowded>>
     \/ /\ ~Contains(events, Key(c))
        /\ events' = Append(events, Key(c))
        /\ heard' = heard \union {a \in Answers : a = Key(c) /\ known}
  /\ Answered(c, "ok")
  /\ UNCHANGED <<local, topic, assigned, stored, posted, delivered, sync, used,
                 faults, crowded>>

Serve(c) ==
  \/ OpenFind(c) \/ OpenCreate(c) \/ OpenStore(c)
  \/ SendFind(c) \/ SendCreate(c) \/ Post(c)
  \/ CloseFind(c) \/ TakeFind(c) \/ AnswerFind(c) \/ RecordEvent(c)

-------------------------------------------------------------------------------
(* Telegram *)

\* A volunteer presses a button of the opening text, or writes in the topic.
\* An update may be delivered again when its answer was lost.
Deliver(u) ==
  /\ IF u \in Answers THEN topic # "NONE" ELSE posted[First] > 0
  /\ u \in used => Fault
  /\ u \notin used => UNCHANGED faults
  /\ used' = used \union {u}
  /\ LET kind == IF u \in Takes THEN "take" ELSE IF u \in Closes THEN "close"
                 ELSE "answer"
     IN  calls' = calls \union {[Request(kind, u, "telegram", "arrived")
                                   EXCEPT !.addressed = TRUE]}
  /\ UNCHANGED <<local, remote, sync, heard, crowded>>

-------------------------------------------------------------------------------
(* The caller *)

\* A run of syncRelay goes on with its next call, or gives retryOutbound up.
Proceeds(c, on) ==
  sync' = [s \in Syncs |->
    IF s # c.by THEN sync[s]
    ELSE IF on THEN [sync[s] EXCEPT !.todo = Tail(@)]
    ELSE [sync[s] EXCEPT !.todo = <<>>, !.pc = "pull"]]

Fails(c) ==
  /\ IF c.by = "user" /\ c.kind = "send"
     THEN delivery' = [delivery EXCEPT ![c.item] = "FAILED"] /\ UNCHANGED relayError
     ELSE relayError' = TRUE /\ UNCHANGED delivery
  /\ Proceeds(c, FALSE)

\* What request and the client method write when the answer is back; that its
\* body cannot be read, or its relayTicketId not written, goes unnoticed.
Return(c) ==
  /\ c.by \in Syncs \union {"user"}
  /\ \/ /\ c.at = "error"
        /\ Ends(c) /\ Fails(c) /\ UNCHANGED <<known, faults>>
     \/ /\ c.at = "ok" /\ c.kind = "open"
        /\ \/ known' = TRUE /\ relayError' = FALSE /\ UNCHANGED faults
           \/ Fault /\ UNCHANGED <<known, relayError>>
        /\ Goes(c, "learned") /\ UNCHANGED <<delivery, sync>>
     \/ /\ c.at = "learned" \/ (c.at = "ok" /\ c.kind = "send")
        /\ delivery' = [delivery EXCEPT ![c.item] = "SENT"]
        /\ Ends(c) /\ Proceeds(c, TRUE)
        /\ UNCHANGED <<known, relayError, faults>>
     \/ /\ c.at = "ok" /\ c.kind = "close"
        /\ relayError' = FALSE
        /\ Ends(c) /\ Proceeds(c, TRUE)
        /\ UNCHANGED <<known, delivery, faults>>
  /\ UNCHANGED <<ticket, received, remote, used, heard, crowded>>

\* No answer within 12 seconds: the relay works on.
TimeOut(c) ==
  /\ Fault
  /\ c.by \in Syncs \union {"user"} /\ c.at \in AtRelay
  /\ calls' = (calls \ {c}) \union {[c EXCEPT !.by = "nobody"]}
  /\ Fails(c)
  /\ UNCHANGED <<ticket, known, received, remote, used, heard, crowded>>

\* Variant of Refuse: request does not look at response.ok.
RefuseUnseen(c) ==
  /\ Fault
  /\ c.by # "telegram" /\ c.at = "arrived"
  /\ Goes(c, "ok")
  /\ UNCHANGED <<local, remote, sync, used, heard, crowded>>

\* The relay is not reached, or refuses the signature or the quota.
Refuse(c) ==
  /\ Fault
  /\ c.by # "telegram" /\ c.at = "arrived"
  /\ Answered(c, "error")
  /\ UNCHANGED <<local, remote, sync, used, heard, crowded>>

-------------------------------------------------------------------------------
(* syncRelay *)

\* Variant of Unsent: what has failed once is left.
UnsentPending == {m \in Messages : delivery[m] = "PENDING"}

Unsent == {m \in Messages : delivery[m] \in {"PENDING", "FAILED"}}

\* What retryOutbound calls for the ticket it reads: messages in their order.
ToCall ==
  LET One(kind, item) == <<[kind |-> kind, item |-> item]>>
      Others == SetToSeq(Unsent \ {First})
      Sends(q) == [i \in DOMAIN q |-> [kind |-> "send", item |-> q[i]]]
  IN  IF ticket = "CLOSED"
      THEN IF relayError /\ known THEN One("close", Closed) ELSE <<>>
      ELSE IF ~known THEN One("open", First)
      ELSE Sends(IF First \in Unsent THEN <<First>> \o Others ELSE Others)

\* The fifty tickets whose rows were left alone the longest are read, this one
\* among them or not; a call for another one that fails ends retryOutbound before.
Start(s) ==
  /\ sync[s].pc = "idle" /\ ticket # "NONE"
  /\ \/ /\ sync' = [sync EXCEPT ![s].pc = "calls",
                                 ![s].todo = IF crowded THEN <<>> ELSE ToCall]
        /\ UNCHANGED faults
     \/ Fault /\ sync' = [sync EXCEPT ![s].pc = "pull"]
  /\ UNCHANGED <<local, remote, calls, used, heard, crowded>>

\* The next call, when the last one is over.
CallNext(s) ==
  /\ sync[s].pc = "calls" /\ ~ \E c \in calls : c.by = s
  /\ \/ /\ sync[s].todo # <<>>
        /\ LET t == Head(sync[s].todo)
           IN  calls' = calls \union {Request(t.kind, t.item, s, "arrived")}
        /\ UNCHANGED sync
     \/ /\ sync[s].todo = <<>>
        /\ sync' = [sync EXCEPT ![s].pc = "pull"]
        /\ UNCHANGED calls
  /\ UNCHANGED <<local, remote, used, faults, heard, crowded>>

\* A batch has the events not acknowledged, in the order they were recorded.
InOrder(batch) ==
  \A i, j \in DOMAIN batch, m, n \in DOMAIN events :
    i < j /\ batch[i] = events[m] /\ batch[j] = events[n] => m < n

\* Variant of Pull: an event is acknowledged when it is pulled.
PullAcknowledging(s) ==
  /\ sync[s].pc = "pull"
  /\ \E batch \in SetToSeqs(ToSet(events) \ delivered) :
       /\ InOrder(batch)
       /\ sync' = [sync EXCEPT ![s].pc = "accept", ![s].next = 1, ![s].batch = batch]
  /\ delivered' = ToSet(events)
  /\ UNCHANGED <<local, topic, assigned, stored, posted, events, calls, used,
                 faults, heard, crowded>>

Pull(s) ==
  /\ sync[s].pc = "pull"
  /\ \E batch \in SetToSeqs(ToSet(events) \ delivered) :
       /\ InOrder(batch)
       /\ sync' = [sync EXCEPT ![s].pc = "accept", ![s].next = 1, ![s].batch = batch]
  /\ UNCHANGED <<local, remote, calls, used, faults, heard, crowded>>

Accepted(s) == sync' = [sync EXCEPT ![s].pc = "accept", ![s].next = @ + 1]

\* Variant of Accept: whatever was pulled puts the ticket in progress.
AcceptProgress(s) ==
  /\ sync[s].pc = "accept"
  /\ IF sync[s].next <= Len(sync[s].batch)
     THEN sync' = [sync EXCEPT ![s].next = @ + 1] /\ ticket' = "IN_PROGRESS"
     ELSE sync' = [sync EXCEPT ![s].pc = "ack"] /\ UNCHANGED ticket
  /\ UNCHANGED <<known, relayError, delivery, received, remote, calls, used,
                 faults, heard, crowded>>

\* acceptRelayEvent: an event of a ticket not known here is ignored, an answer
\* that is present is a duplicate, a status is written whatever the ticket is.
Accept(s) ==
  /\ sync[s].pc = "accept"
  /\ LET left == sync[s].next <= Len(sync[s].batch)
         k == sync[s].batch[sync[s].next] IN
     \/ /\ ~left
        /\ sync' = [sync EXCEPT ![s].pc = "ack"] /\ UNCHANGED ticket
     \/ /\ left /\ (~known \/ k \in received)
        /\ Accepted(s) /\ UNCHANGED ticket
     \/ /\ left /\ known /\ k \in Takes \union {Closed}
        /\ ticket' = IF k = Closed THEN "CLOSED" ELSE "IN_PROGRESS"
        /\ Accepted(s)
     \/ /\ left /\ known /\ k \in Answers \ received
        /\ sync' = [sync EXCEPT ![s].pc = "insert"] /\ UNCHANGED ticket
  /\ UNCHANGED <<known, relayError, delivery, received, remote, calls, used,
                 faults, heard, crowded>>

\* The row of an answer is unique by relayMessageId: a second insert throws.
Insert(s) ==
  /\ sync[s].pc = "insert"
  /\ LET k == sync[s].batch[sync[s].next] IN
       /\ received' = received \union {k}
       /\ sync' = [sync EXCEPT ![s] = IF k \in received THEN Resting
                                      ELSE [@ EXCEPT !.pc = "mark"]]
  /\ UNCHANGED <<ticket, known, relayError, delivery, remote, calls, used, faults,
                 heard, crowded>>

\* Variant of Mark: a status the schema does not have.
MarkAnswered(s) ==
  /\ sync[s].pc = "mark"
  /\ ticket' = "ANSWERED"
  /\ Accepted(s)
  /\ UNCHANGED <<known, relayError, delivery, received, remote, calls, used,
                 faults, heard, crowded>>

\* ... then the ticket is in progress, even if it was closed.
Mark(s) ==
  /\ sync[s].pc = "mark"
  /\ ticket' = "IN_PROGRESS"
  /\ Accepted(s)
  /\ UNCHANGED <<known, relayError, delivery, received, remote, calls, used,
                 faults, heard, crowded>>

\* The whole batch is acknowledged, what was ignored included.
Acknowledge(s) ==
  /\ sync[s].pc = "ack"
  /\ delivered' = delivered \union ToSet(sync[s].batch)
  /\ sync' = [sync EXCEPT ![s] = Resting]
  /\ UNCHANGED <<local, topic, assigned, stored, posted, events, calls, used,
                 faults, heard, crowded>>

\* Variant of Break: what was pulled is acknowledged all the same.
BreakAcknowledging(s) ==
  /\ Fault
  /\ sync[s].pc \in {"accept", "insert", "mark", "ack"}
  /\ sync' = [sync EXCEPT ![s].pc = "ack"]
  /\ UNCHANGED <<local, remote, calls, used, heard, crowded>>

\* A pull, an acceptance or an acknowledgement fails: the run ends.
Break(s) ==
  /\ Fault
  /\ sync[s].pc \in {"pull", "accept", "insert", "mark", "ack"}
  /\ sync' = [sync EXCEPT ![s] = Resting]
  /\ UNCHANGED <<local, remote, calls, used, heard, crowded>>

\* Whatever updates the row of this ticket, markRead included, puts it behind
\* the others; it comes forward when theirs are updated or closed.  A pass does
\* not update the tickets it has nothing to send for, nor the closed ones it
\* does not know, so fifty of those may stay before it.  It matters to a pass
\* that starts with something to send, and changes while one can.
Crowd ==
  /\ Busy /\ ticket # "NONE"
  /\ ToCall # <<>> /\ \E s \in Syncs : sync[s].pc = "idle"
  /\ crowded' = ~crowded
  /\ UNCHANGED <<local, remote, calls, sync, used, faults, heard>>

-------------------------------------------------------------------------------
(* Crashes *)

\* The API restarts: what it called is worked on, and nobody waits for it.
ApiCrash ==
  /\ Fault
  /\ calls' = {c \in calls : c.by \in {"nobody", "telegram"}} \union
              {[c EXCEPT !.by = "nobody"] : c \in {d \in calls :
                 d.by \in Syncs \union {"user"} /\ d.at \in AtRelay}}
  /\ sync' = [s \in Syncs |-> Resting]
  /\ UNCHANGED <<local, remote, used, heard, crowded>>

\* The relay restarts: its callers get an error, Telegram delivers again.
RelayCrash ==
  /\ Fault
  /\ calls' = {c \in calls : c.at \notin AtRelay} \union
              {[c EXCEPT !.at = IF c.by = "telegram" THEN "arrived" ELSE "error"] :
                 c \in {d \in calls : d.at \in AtRelay /\ d.by # "nobody"}}
  /\ UNCHANGED <<local, remote, sync, used, heard, crowded>>

-------------------------------------------------------------------------------
Step(c) == SendStore(c) \/ Serve(c) \/ Return(c)

Run(s) == \/ Start(s) \/ CallNext(s) \/ Pull(s) \/ Accept(s) \/ Insert(s)
          \/ Mark(s) \/ Acknowledge(s)

Next ==
  \/ Create
  \/ \E u \in Closings : CloseTicket(u)
  \/ \E m \in Later : SendCheck(m)
  \/ \E u \in Updates : Deliver(u)
  \/ \E c \in calls : Step(c) \/ TimeOut(c) \/ Refuse(c)
  \/ \E s \in Syncs : Run(s) \/ Break(s)
  \/ Crowd \/ ApiCrash \/ RelayCrash

Spec == Init /\ [][Next]_vars

\* Both sides run, and the timer starts syncRelay again and again; no user and
\* no volunteer has to do anything.  The failures are bounded: the liveness
\* properties say what happens once the relay is reachable again.
Fairness ==
  /\ \A s \in Syncs : WF_vars(Run(s))
  /\ \A i \in Messages \union Updates \union {Closed} :
       WF_vars(\E c \in calls : c.item = i /\ Step(c))

FairSpec == Spec /\ Fairness

\* What was kept while the relay was out of reach is sent by a later pass, unless
\* one side has closed the ticket.
KeptIsSent ==
  \A m \in Messages :
    delivery[m] \in {"PENDING", "FAILED"} ~>
      (delivery[m] = "SENT" \/ ticket = "CLOSED" \/ topic = "CLOSED")

-------------------------------------------------------------------------------
(* Properties that hold *)

\* A message sent after the first one is shown to the volunteers at most once,
\* whatever is retried, answered late or called twice.
PostedAtMostOnce == \A m \in Later : posted[m] <= 1

\* A message marked SENT, the first one apart, is in the database of the relay.
SentIsStored == \A m \in Later : delivery[m] = "SENT" => m \in stored

\* An answer recorded once the installation knew its ticket is acknowledged
\* only when the installation holds it.
AcknowledgedIsReceived == heard \intersect delivered \subseteq received

\* Such an answer arrives once nothing fails any more.
AnswersArrive == \A a \in Answers : a \in heard ~> a \in received

\* So do the messages of the user, once the ticket stays among those that
\* retryOutbound reads; behind fifty others they may never leave.
MessagesLeave == <>[]~crowded => KeptIsSent

\* The two sides together keep what the conversation promises.
Conversation ==
  INSTANCE SupportConversation
    WITH kept <- {m \in Messages : delivery[m] # "NONE"},
         sent <- {m \in Messages : delivery[m] = "SENT"},
         opened <- topic # "NONE", relayed <- stored, shown <- posted,
         recorded <- ToSet(events), acknowledged <- delivered

ConversationSpec == Conversation!Spec

\* So they do from any point of it on.
ConversationGoesOn == [][Conversation!Next]_(Conversation!conversation)

-------------------------------------------------------------------------------
(* A property the documentation states and the code does not keep *)

Opening == \E c \in calls : c.kind = "open" /\ c.at \in AtRelay

\* A request marked SENT has been shown to the volunteers, who can take it.
SentIsPosted == delivery[First] = "SENT" /\ ~Opening => posted[First] > 0

===============================================================================
