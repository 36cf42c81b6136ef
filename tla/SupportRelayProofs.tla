--------------------------- MODULE SupportRelayProofs ---------------------------
(***************************************************************************)
(* Proofs about SupportRelay, for any number of messages, closings, runs   *)
(* of syncRelay, updates of Telegram and failures.                         *)
(***************************************************************************)
EXTENDS SupportRelay, FiniteSetTheorems, TLAPS

(***************************************************************************)
(* The inductive invariant.                                                *)
(***************************************************************************)

Ats == AtRelay \union {"checked", "ok", "error", "learned"}

\* Where a request of a kind can be.
Allowed(kind, at) ==
  /\ at = "post" => kind \in {"open", "send"}
  /\ at \in {"store", "learned"} => kind = "open"
  /\ at = "checked" => kind = "send"
  /\ at = "event" => kind \in {"close", "take", "answer"}

\* A request asks about an item of its kind.
Asks(kind, item) ==
  /\ kind = "open" => item = First
  /\ kind = "send" => item \in Messages
  /\ kind = "take" => item \in Takes
  /\ kind = "answer" => item \in Answers

CallsFit == \A c \in calls : Allowed(c.kind, c.at) /\ Asks(c.kind, c.item)

\* A run of syncRelay waits for one call at a time, the head of what it has
\* left.
Awaited ==
  /\ \A c \in calls : c.by \in Syncs =>
       sync[c.by].pc = "calls" /\ sync[c.by].todo # <<>>
  /\ \A c, d \in calls : c.by \in Syncs /\ c.by = d.by => c = d

Posting(c) == c.kind = "send" /\ c.at = "post"

\* Who is about to post a message has stored it, and is alone; nothing is posted
\* before; what was answered with success is stored.
Posts ==
  /\ \A c \in calls : Posting(c) => c.item \in stored
  /\ \A c, d \in calls : Posting(c) /\ Posting(d) /\ c.item = d.item => c = d
  /\ \A c \in calls : Posting(c) /\ c.item \in Later => posted[c.item] = 0
  /\ \A m \in Later : m \notin stored => posted[m] = 0
  /\ \A c \in calls : c.kind = "send" /\ c.at = "ok" /\ c.item \in Later =>
       c.item \in stored

\* Events are heard, pulled and acknowledged among those recorded.
Recorded ==
  /\ heard \subseteq ToSet(events) /\ delivered \subseteq ToSet(events)
  /\ heard # {} => known

\* A run of syncRelay has received the answers it has behind it.
Pulled(s) ==
  LET p == sync[s].pc  q == sync[s].batch  n == sync[s].next IN
  p \in {"accept", "insert", "mark", "ack"} =>
    /\ ToSet(q) \subseteq ToSet(events)
    /\ n >= 1
    /\ p \in {"insert", "mark"} => n <= Len(q) /\ q[n] \in Answers
    /\ p = "mark" => q[n] \in received
    /\ \A i \in 1 .. Len(q) :
         (i < n \/ p = "ack") /\ q[i] \in heard => q[i] \in received

Pulling == \A s \in Syncs : Pulled(s)

IInv ==
  /\ TypeOK /\ CallsFit /\ Awaited /\ Posts /\ Recorded /\ Pulling
  /\ PostedAtMostOnce /\ SentIsStored /\ AcknowledgedIsReceived

-------------------------------------------------------------------------------
(* Facts about single requests *)

\* A request that goes on is the same request, elsewhere.
LEMMA MovedCall ==
  ASSUME NEW c \in Call, NEW at \in Ats
  PROVE  LET d == [c EXCEPT !.at = at] IN
         /\ d \in Call /\ d.kind = c.kind /\ d.item = c.item
         /\ d.by = c.by /\ d.addressed = c.addressed /\ d.at = at
BY DEF Call, Ats

\* So is one nobody waits for any more.
LEMMA LeftCall ==
  ASSUME NEW c \in Call
  PROVE  LET d == [c EXCEPT !.by = "nobody"] IN
         /\ d \in Call /\ d.kind = c.kind /\ d.item = c.item
         /\ d.by = "nobody" /\ d.addressed = c.addressed /\ d.at = c.at
BY DEF Call, Callers

LEMMA AnsweredMoves ==
  ASSUME NEW c, NEW at, Answered(c, at)
  PROVE  Goes(c, at) \/ Ends(c)
BY DEF Answered

\* A request that goes on, or ends, while no run of syncRelay does.
LEMMA MovesFit ==
  ASSUME IInv, NEW c \in calls, NEW at \in Ats, Allowed(c.kind, at),
         Goes(c, at) \/ Ends(c)
  PROVE  calls' \subseteq Call /\ CallsFit'
<1>1. c \in Call /\ calls \subseteq Call
  BY DEF IInv, TypeOK
<1> DEFINE e == [c EXCEPT !.at = at]
<1>2. e \in Call /\ e.kind = c.kind /\ e.item = c.item /\ e.at = at
  BY <1>1, MovedCall
<1> HIDE DEF e
<1>3. calls' \subseteq (calls \ {c}) \union {e}
  BY DEF Goes, Ends, e
<1>4. ASSUME NEW d \in calls'
      PROVE  d \in Call /\ Allowed(d.kind, d.at) /\ Asks(d.kind, d.item)
  <2>1. CASE d = e
    BY <1>2, <2>1 DEF IInv, CallsFit
  <2>2. CASE d # e
    BY <1>1, <1>3, <2>2 DEF IInv, CallsFit
  <2> QED BY <2>1, <2>2
<1> QED BY <1>4 DEF CallsFit

LEMMA MovesAwaited ==
  ASSUME IInv, NEW c \in calls, NEW at \in Ats, Goes(c, at) \/ Ends(c),
         UNCHANGED sync
  PROVE  Awaited'
<1>1. c \in Call /\ calls \subseteq Call
  BY DEF IInv, TypeOK
<1> DEFINE e == [c EXCEPT !.at = at]
<1>2. e \in Call /\ e.by = c.by
  BY <1>1, MovedCall
<1> HIDE DEF e
<1>3. calls' \subseteq (calls \ {c}) \union {e}
  BY DEF Goes, Ends, e
<1>4. ASSUME NEW d \in calls', d.by \in Syncs
      PROVE  sync[d.by].pc = "calls" /\ sync[d.by].todo # <<>>
  BY <1>2, <1>3, <1>4 DEF IInv, Awaited
<1>5. ASSUME NEW d \in calls', NEW f \in calls', d.by \in Syncs, d.by = f.by
      PROVE  d = f
  BY <1>2, <1>3, <1>5 DEF IInv, Awaited
<1> QED BY <1>4, <1>5 DEF Awaited

\* It posts nothing, unless it is the opening of the ticket.
LEMMA MovesPost ==
  ASSUME IInv, NEW c \in calls, NEW at \in Ats, Goes(c, at) \/ Ends(c),
         stored \subseteq stored', UNCHANGED posted,
         at = "post" => c.kind # "send",
         at = "ok" /\ c.kind = "send" /\ c.item \in Later => c.item \in stored'
  PROVE  Posts' /\ PostedAtMostOnce'
<1>1. c \in Call /\ calls \subseteq Call
  BY DEF IInv, TypeOK
<1> DEFINE e == [c EXCEPT !.at = at]
<1>2. e \in Call /\ e.kind = c.kind /\ e.item = c.item /\ e.at = at
  BY <1>1, MovedCall
<1> HIDE DEF e
<1>3. calls' \subseteq (calls \ {c}) \union {e}
  BY DEF Goes, Ends, e
<1>4. ~Posting(e)
  BY <1>2 DEF Posting
<1>5. ASSUME NEW d \in calls'
      PROVE  /\ Posting(d) => d.item \in stored'
             /\ Posting(d) /\ d.item \in Later => posted[d.item] = 0
             /\ d.kind = "send" /\ d.at = "ok" /\ d.item \in Later => d.item \in stored'
  <2>1. CASE d = e
    BY <1>2, <1>4, <2>1
  <2>2. CASE d \in calls
    BY <2>2 DEF IInv, Posts
  <2> QED BY <1>3, <2>1, <2>2
<1>6. ASSUME NEW d \in calls', NEW f \in calls', Posting(d), Posting(f), d.item = f.item
      PROVE  d = f
  BY <1>3, <1>4, <1>6 DEF IInv, Posts
<1>7. (\A m \in Later : m \notin stored => posted[m] = 0)' /\ PostedAtMostOnce'
  BY DEF IInv, Posts, PostedAtMostOnce
<1> QED BY <1>5, <1>6, <1>7 DEF Posts, Posting

\* Nothing is recorded, received or pulled by the way.
LEMMA QuietEvents ==
  ASSUME IInv, UNCHANGED <<sync, events, delivered, received, heard>>, known => known'
  PROVE  Recorded' /\ Pulling' /\ AcknowledgedIsReceived'
BY DEF IInv, Recorded, Pulling, Pulled, AcknowledgedIsReceived

-------------------------------------------------------------------------------
LEMMA InitInv == Init => IInv
<1> SUFFICES ASSUME Init PROVE IInv
  OBVIOUS
<1> USE DEF Init
<1>1. <<>> \in Seq(Todo) /\ <<>> \in Seq(Keys) /\ ToSet(<<>>) = {}
  BY DEF ToSet
<1>2. Resting \in Sync
  BY <1>1 DEF Resting, Sync
<1>3. TypeOK
  <2>1. faults \in 0 .. MaxFaults /\ posted \in [Messages -> Nat]
    BY FaultsAssumption
  <2>2. sync \in [Syncs -> Sync] /\ events \in Seq(Keys)
    BY <1>1, <1>2
  <2>3. delivery \in [Messages -> {"NONE", "PENDING", "SENT", "FAILED"}]
    OBVIOUS
  <2> QED BY <2>1, <2>2, <2>3 DEF TypeOK
<1>4. CallsFit /\ Awaited /\ Posts /\ Recorded
  BY DEF CallsFit, Awaited, Posts, Recorded, Messages
<1>5. Pulling
  BY DEF Pulling, Pulled, Resting
<1>6. PostedAtMostOnce /\ SentIsStored /\ AcknowledgedIsReceived
  BY DEF PostedAtMostOnce, SentIsStored, AcknowledgedIsReceived, Messages
<1> QED BY <1>3, <1>4, <1>5, <1>6 DEF IInv

-------------------------------------------------------------------------------
(* Requests that start *)

LEMMA RequestIsCall ==
  ASSUME IInv, NEW kind \in {"open", "send", "close", "take", "answer"},
         NEW item \in Messages \union Updates \union {Closed},
         NEW by \in Callers, NEW at \in Ats
  PROVE  LET e == Request(kind, item, by, at) IN
         e \in Call /\ e.kind = kind /\ e.item = item /\ e.by = by /\ e.at = at
BY DEF IInv, TypeOK, Request, Call, Ats

LEMMA AddedFits ==
  ASSUME IInv, NEW e \in Call, Allowed(e.kind, e.at), Asks(e.kind, e.item),
         calls' = calls \union {e}
  PROVE  calls' \subseteq Call /\ CallsFit'
<1>1. calls \subseteq Call
  BY DEF IInv, TypeOK
<1>2. ASSUME NEW d \in calls'
      PROVE  Allowed(d.kind, d.at) /\ Asks(d.kind, d.item)
  BY <1>2 DEF IInv, CallsFit
<1> QED BY <1>1, <1>2 DEF CallsFit

LEMMA AddedPosts ==
  ASSUME IInv, NEW e \in Call, e.at \notin {"post", "ok"},
         calls' = calls \union {e}, UNCHANGED <<stored, posted>>
  PROVE  Posts' /\ PostedAtMostOnce'
<1>1. ~Posting(e)
  BY DEF Posting
<1>2. ASSUME NEW d \in calls'
      PROVE  /\ Posting(d) => d.item \in stored
             /\ Posting(d) /\ d.item \in Later => posted[d.item] = 0
             /\ d.kind = "send" /\ d.at = "ok" /\ d.item \in Later => d.item \in stored
  BY <1>1 DEF IInv, Posts
<1>3. ASSUME NEW d \in calls', NEW f \in calls', Posting(d), Posting(f), d.item = f.item
      PROVE  d = f
  BY <1>1, <1>3 DEF IInv, Posts
<1>4. (\A m \in Later : m \notin stored => posted[m] = 0)' /\ PostedAtMostOnce'
  BY DEF IInv, Posts, PostedAtMostOnce
<1> QED BY <1>2, <1>3, <1>4 DEF Posts, Posting

LEMMA AddedAwaited ==
  ASSUME IInv, NEW e \in Call, e.by \notin Syncs, calls' = calls \union {e},
         UNCHANGED sync
  PROVE  Awaited'
<1>1. ASSUME NEW d \in calls', d.by \in Syncs
      PROVE  sync[d.by].pc = "calls" /\ sync[d.by].todo # <<>>
  BY <1>1 DEF IInv, Awaited
<1>2. ASSUME NEW d \in calls', NEW f \in calls', d.by \in Syncs, d.by = f.by
      PROVE  d = f
  BY <1>2 DEF IInv, Awaited
<1> QED BY <1>1, <1>2 DEF Awaited

LEMMA CreateInv ==
  ASSUME IInv, Create
  PROVE  IInv'
<1> USE DEF Create, remote
<1> DEFINE e == Request("open", First, "user", "arrived")
<1>1. e \in Call /\ e.kind = "open" /\ e.item = First /\ e.by = "user" /\ e.at = "arrived"
  BY RequestIsCall DEF Messages, Callers, Ats, AtRelay
<1>2. Allowed(e.kind, e.at) /\ Asks(e.kind, e.item) /\ e.by \notin Syncs
  BY <1>1, NamesAssumption DEF Allowed, Asks
<1>3. calls' = calls \union {e}
  OBVIOUS
<1> HIDE DEF e
<1>4. calls' \subseteq Call /\ CallsFit' /\ Awaited' /\ Posts' /\ PostedAtMostOnce'
  BY <1>1, <1>2, <1>3, AddedFits, AddedAwaited, AddedPosts
<1>5. TypeOK'
  BY <1>4 DEF IInv, TypeOK
<1>6. SentIsStored'
  BY NamesAssumption DEF IInv, TypeOK, SentIsStored, Messages
<1>7. Recorded' /\ Pulling' /\ AcknowledgedIsReceived'
  BY QuietEvents
<1> QED BY <1>4, <1>5, <1>6, <1>7 DEF IInv

LEMMA SendCheckInv ==
  ASSUME IInv, NEW m \in Later, SendCheck(m)
  PROVE  IInv'
<1> USE DEF SendCheck, local, remote
<1> DEFINE e == Request("send", m, "user", "checked")
<1>1. e \in Call /\ e.kind = "send" /\ e.item = m /\ e.by = "user" /\ e.at = "checked"
  BY RequestIsCall DEF Messages, Callers, Ats, AtRelay
<1>2. Allowed(e.kind, e.at) /\ Asks(e.kind, e.item) /\ e.by \notin Syncs
  BY <1>1, NamesAssumption DEF Allowed, Asks, Messages
<1>3. calls' = calls \union {e}
  OBVIOUS
<1> HIDE DEF e
<1>4. calls' \subseteq Call /\ CallsFit' /\ Awaited' /\ Posts' /\ PostedAtMostOnce'
  BY <1>1, <1>2, <1>3, AddedFits, AddedAwaited, AddedPosts
<1>5. TypeOK'
  BY <1>4 DEF IInv, TypeOK
<1>6. SentIsStored'
  BY DEF IInv, SentIsStored
<1>7. Recorded' /\ Pulling' /\ AcknowledgedIsReceived'
  BY QuietEvents
<1> QED BY <1>4, <1>5, <1>6, <1>7 DEF IInv

LEMMA CloseTicketInv ==
  ASSUME IInv, NEW u \in Closings, CloseTicket(u)
  PROVE  IInv'
<1> USE DEF CloseTicket, remote
<1> DEFINE e == Request("close", Closed, "user", "arrived")
<1>1. e \in Call /\ e.kind = "close" /\ e.item = Closed /\ e.by = "user" /\ e.at = "arrived"
  BY RequestIsCall DEF Messages, Callers, Ats, AtRelay
<1>2. Allowed(e.kind, e.at) /\ Asks(e.kind, e.item) /\ e.by \notin Syncs
  BY <1>1, NamesAssumption DEF Allowed, Asks
<1>3. calls' = calls \union {e}
  OBVIOUS
<1> HIDE DEF e
<1>4. calls' \subseteq Call /\ CallsFit' /\ Awaited' /\ Posts' /\ PostedAtMostOnce'
  BY <1>1, <1>2, <1>3, AddedFits, AddedAwaited, AddedPosts
<1>5. TypeOK'
  BY <1>4 DEF IInv, TypeOK
<1>6. SentIsStored'
  BY DEF IInv, SentIsStored
<1>7. Recorded' /\ Pulling' /\ AcknowledgedIsReceived'
  BY QuietEvents
<1> QED BY <1>4, <1>5, <1>6, <1>7 DEF IInv

\* A button pressed, or a message written, by a volunteer.
LEMMA DeliverInv ==
  ASSUME IInv, NEW u \in Updates, Deliver(u)
  PROVE  IInv'
<1> USE DEF local, remote
<1> DEFINE kind == IF u \in Takes THEN "take" ELSE IF u \in Closes THEN "close" ELSE "answer"
           q == Request(kind, u, "telegram", "arrived")
           e == [q EXCEPT !.addressed = TRUE]
<1>1. q \in Call /\ q.kind = kind /\ q.item = u /\ q.by = "telegram" /\ q.at = "arrived"
  BY RequestIsCall DEF Callers, Ats, AtRelay
<1>2. calls' = calls \union {e}
  BY DEF Deliver
<1> HIDE DEF q
<1>3. e \in Call /\ e.kind = kind /\ e.item = u /\ e.by = "telegram" /\ e.at = "arrived"
  BY <1>1 DEF Call
<1> HIDE DEF e
<1>4. Allowed(e.kind, e.at) /\ Asks(e.kind, e.item) /\ e.by \notin Syncs
  BY <1>3, NamesAssumption DEF Allowed, Asks, Updates
<1> HIDE DEF kind
<1>5. UNCHANGED <<ticket, known, relayError, delivery, received, topic, assigned,
                  stored, posted, events, delivered, sync, heard, crowded>>
  BY DEF Deliver
<1>6. calls' \subseteq Call /\ CallsFit' /\ Awaited' /\ Posts' /\ PostedAtMostOnce'
  BY <1>2, <1>3, <1>4, <1>5, AddedFits, AddedAwaited, AddedPosts
<1>7. used' \subseteq Updates \union Closings /\ faults' \in 0 .. MaxFaults
  BY FaultsAssumption DEF IInv, TypeOK, Deliver, Fault
<1>8. TypeOK'
  BY <1>5, <1>6, <1>7 DEF IInv, TypeOK
<1>9. SentIsStored'
  BY <1>5 DEF IInv, SentIsStored
<1>10. Recorded' /\ Pulling' /\ AcknowledgedIsReceived'
  BY <1>5, QuietEvents
<1> QED BY <1>6, <1>8, <1>9, <1>10 DEF IInv

-------------------------------------------------------------------------------
(* Requests at the relay *)

\* A request goes on or ends, and changes at most the status of the topic.
LEMMA QuietMoveInv ==
  ASSUME IInv, NEW c \in calls, NEW at \in Ats, Allowed(c.kind, at),
         Goes(c, at) \/ Ends(c),
         UNCHANGED <<local, stored, posted, events, delivered, sync, used, heard, crowded>>,
         topic' \in {"NONE", "OPEN", "IN_PROGRESS", "CLOSED"},
         assigned' \in BOOLEAN, faults' \in 0 .. MaxFaults,
         at = "post" => c.kind # "send",
         at = "ok" /\ c.kind = "send" /\ c.item \in Later => c.item \in stored
  PROVE  IInv'
<1> USE DEF local
<1>1. calls' \subseteq Call /\ CallsFit' /\ Awaited' /\ Posts' /\ PostedAtMostOnce'
  BY MovesFit, MovesAwaited, MovesPost
<1>2. TypeOK'
  BY <1>1 DEF IInv, TypeOK
<1>3. SentIsStored'
  BY DEF IInv, SentIsStored
<1>4. Recorded' /\ Pulling' /\ AcknowledgedIsReceived'
  BY QuietEvents
<1> QED BY <1>1, <1>2, <1>3, <1>4 DEF IInv

\* What a request that is moved still is.
LEMMA Typed ==
  ASSUME IInv
  PROVE  /\ topic \in {"NONE", "OPEN", "IN_PROGRESS", "CLOSED"} /\ assigned \in BOOLEAN
         /\ faults \in 0 .. MaxFaults /\ calls \subseteq Call
BY DEF IInv, TypeOK

LEMMA OpenFindInv ==
  ASSUME IInv, NEW c \in calls, OpenFind(c)
  PROVE  IInv'
<1>1. PICK at \in {"create", "ok"} : Goes(c, at) \/ Ends(c)
  BY AnsweredMoves DEF OpenFind
<1>2. at \in Ats /\ Allowed(c.kind, at) /\ c.kind = "open"
  BY DEF OpenFind, Ats, AtRelay, Allowed
<1> QED BY <1>1, <1>2, Typed, QuietMoveInv DEF OpenFind, local, remote

LEMMA OpenCreateInv ==
  ASSUME IInv, NEW c \in calls, OpenCreate(c)
  PROVE  IInv'
<1>1. PICK at \in {"post", "error"} : Goes(c, at) \/ Ends(c)
  BY AnsweredMoves DEF OpenCreate
<1>2. at \in Ats /\ Allowed(c.kind, at) /\ c.kind = "open"
  BY DEF OpenCreate, Ats, AtRelay, Allowed
<1>3. topic' \in {"NONE", "OPEN", "IN_PROGRESS", "CLOSED"}
  BY Typed DEF OpenCreate
<1> QED BY <1>1, <1>2, <1>3, Typed, QuietMoveInv DEF OpenCreate

LEMMA SendFindInv ==
  ASSUME IInv, NEW c \in calls, SendFind(c)
  PROVE  IInv'
<1>1. PICK at \in {"error", "ok", "create"} :
        (Goes(c, at) \/ Ends(c)) /\ (at = "ok" => c.item \in stored)
  BY AnsweredMoves DEF SendFind
<1>2. at \in Ats /\ Allowed(c.kind, at)
  BY DEF SendFind, Ats, AtRelay, Allowed
<1> QED BY <1>1, <1>2, Typed, QuietMoveInv DEF SendFind, local, remote

LEMMA CloseFindInv ==
  ASSUME IInv, NEW c \in calls, CloseFind(c)
  PROVE  IInv'
<1>1. PICK at \in {"error", "ok", "event"} : Goes(c, at) \/ Ends(c)
  BY AnsweredMoves DEF CloseFind
<1>2. at \in Ats /\ Allowed(c.kind, at) /\ c.kind = "close"
  BY DEF CloseFind, Ats, AtRelay, Allowed
<1>3. topic' \in {"NONE", "OPEN", "IN_PROGRESS", "CLOSED"}
  BY Typed DEF CloseFind
<1> QED BY <1>1, <1>2, <1>3, Typed, QuietMoveInv DEF CloseFind

LEMMA TakeFindInv ==
  ASSUME IInv, NEW c \in calls, TakeFind(c)
  PROVE  IInv'
<1>1. "event" \in Ats /\ Allowed(c.kind, "event") /\ c.kind = "take"
  BY DEF TakeFind, Ats, AtRelay, Allowed
<1> QED BY <1>1, Typed, QuietMoveInv DEF TakeFind

LEMMA AnswerFindInv ==
  ASSUME IInv, NEW c \in calls, AnswerFind(c)
  PROVE  IInv'
<1>1. "event" \in Ats /\ Allowed(c.kind, "event") /\ c.kind = "answer"
  BY DEF AnswerFind, Ats, AtRelay, Allowed
<1> QED BY <1>1, Typed, QuietMoveInv DEF AnswerFind, remote

LEMMA RefuseInv ==
  ASSUME IInv, NEW c \in calls, Refuse(c)
  PROVE  IInv'
<1>1. Goes(c, "error") \/ Ends(c)
  BY AnsweredMoves DEF Refuse
<1>2. "error" \in Ats /\ Allowed(c.kind, "error")
  BY DEF Ats, Allowed
<1>3. faults' \in 0 .. MaxFaults
  BY Typed, FaultsAssumption DEF Refuse, Fault
<1> QED BY <1>1, <1>2, <1>3, Typed, QuietMoveInv DEF Refuse, remote

\* The user's message is created, and goes to the relay.
LEMMA SendStoreInv ==
  ASSUME IInv, NEW c \in calls, SendStore(c)
  PROVE  IInv'
<1> USE DEF SendStore, remote
<1>1. "arrived" \in Ats /\ Allowed(c.kind, "arrived")
  BY DEF Ats, AtRelay, Allowed
<1>2. calls' \subseteq Call /\ CallsFit' /\ Awaited' /\ Posts' /\ PostedAtMostOnce'
  BY <1>1, MovesFit, MovesAwaited, MovesPost
<1>3. TypeOK'
  BY <1>2 DEF IInv, TypeOK
<1>4. SentIsStored'
  BY DEF IInv, TypeOK, SentIsStored, Messages
<1>5. Recorded' /\ Pulling' /\ AcknowledgedIsReceived'
  BY QuietEvents
<1> QED BY <1>2, <1>3, <1>4, <1>5 DEF IInv

\* The row of a message is unique, so the request that creates it is alone.
LEMMA SendCreateInv ==
  ASSUME IInv, NEW c \in calls, SendCreate(c)
  PROVE  IInv'
<1> USE DEF SendCreate, local
<1>1. PICK at \in {"error", "post"} :
        (Goes(c, at) \/ Ends(c)) /\ (at = "post" => c.item \notin stored)
  BY AnsweredMoves
<1>2. at \in Ats /\ Allowed(c.kind, at)
  BY DEF Ats, AtRelay, Allowed
<1>3. c \in Call /\ c.item \in Messages /\ c.kind = "send"
  BY DEF IInv, TypeOK, CallsFit, Asks
<1>4. calls' \subseteq Call /\ CallsFit' /\ Awaited'
  BY <1>1, <1>2, MovesFit, MovesAwaited
<1> DEFINE e == [c EXCEPT !.at = at]
<1>5. e \in Call /\ e.kind = c.kind /\ e.item = c.item /\ e.at = at
  BY <1>2, <1>3, MovedCall
<1>6. calls' \subseteq (calls \ {c}) \union {e}
  BY <1>1 DEF Goes, Ends
<1> HIDE DEF e
<1>7. Posts'
  <2>1. ASSUME NEW d \in calls'
        PROVE  /\ Posting(d) => d.item \in stored'
               /\ Posting(d) /\ d.item \in Later => posted[d.item] = 0
               /\ d.kind = "send" /\ d.at = "ok" /\ d.item \in Later => d.item \in stored'
    <3>1. CASE d = e
      BY <1>1, <1>3, <1>5, <3>1 DEF IInv, Posts, Posting
    <3>2. CASE d \in calls
      BY <3>2 DEF IInv, Posts
    <3> QED BY <1>6, <3>1, <3>2
  <2>2. ASSUME NEW d \in calls', NEW f \in calls', Posting(d), Posting(f), d.item = f.item
        PROVE  d = f
    <3>1. \A g \in calls : Posting(g) /\ Posting(e) => g.item # e.item
      BY <1>1, <1>5 DEF IInv, Posts, Posting
    <3> QED BY <1>6, <2>2, <3>1 DEF IInv, Posts
  <2>3. (\A m \in Later : m \notin stored => posted[m] = 0)'
    BY DEF IInv, Posts
  <2> QED BY <2>1, <2>2, <2>3 DEF Posts, Posting
<1>8. TypeOK'
  BY <1>3, <1>4 DEF IInv, TypeOK
<1>9. SentIsStored' /\ PostedAtMostOnce'
  BY DEF IInv, SentIsStored, PostedAtMostOnce
<1>10. Recorded' /\ Pulling' /\ AcknowledgedIsReceived'
  BY QuietEvents
<1> QED BY <1>4, <1>7, <1>8, <1>9, <1>10 DEF IInv

LEMMA PostInv ==
  ASSUME IInv, NEW c \in calls, Post(c)
  PROVE  IInv'
<1> USE DEF Post, local
<1>1. PICK at \in {"store", "ok", "error"} :
        /\ Goes(c, at) \/ Ends(c)
        /\ c.kind = "send" => at # "store"
        /\ at = "store" => c.kind = "open"
  BY AnsweredMoves
<1>2. c \in Call /\ c.item \in Messages /\ c.kind \in {"open", "send"}
  BY DEF IInv, TypeOK, CallsFit, Allowed, Asks, Messages
<1>3. at \in Ats /\ Allowed(c.kind, at)
  BY <1>1 DEF Ats, AtRelay, Allowed
<1>4. calls' \subseteq Call /\ CallsFit' /\ Awaited'
  BY <1>1, <1>3, MovesFit, MovesAwaited
<1> DEFINE e == [c EXCEPT !.at = at]
<1>5. e \in Call /\ e.kind = c.kind /\ e.item = c.item /\ e.at = at
  BY <1>2, <1>3, MovedCall
<1>6. calls' \subseteq (calls \ {c}) \union {e}
  BY <1>1 DEF Goes, Ends
<1> HIDE DEF e
<1>7. posted' \in [Messages -> Nat] /\ \A m \in Messages \ {c.item} : posted'[m] = posted[m]
  BY <1>2 DEF IInv, TypeOK
<1>8. c.item \in Later => c.kind = "send" /\ posted[c.item] = 0 /\ posted'[c.item] <= 1
  <2> SUFFICES ASSUME c.item \in Later
               PROVE  c.kind = "send" /\ posted[c.item] = 0 /\ posted'[c.item] <= 1
    OBVIOUS
  <2>1. c.kind = "send"
    BY <1>2, NamesAssumption DEF IInv, CallsFit, Asks
  <2>2. posted[c.item] = 0
    BY <2>1 DEF IInv, Posts, Posting
  <2> QED BY <1>2, <2>1, <2>2 DEF IInv, TypeOK
<1>9. c.item \in Later => c.item \in stored
  BY <1>8 DEF IInv, Posts, Posting
<1>10. Posts'
  <2>1. ASSUME NEW d \in calls', Posting(d)
        PROVE  d \in calls /\ d # c /\ (d.item \in Later => d.item # c.item)
    <3>1. d \in calls /\ d # c
      BY <1>1, <1>5, <1>6, <2>1 DEF Posting
    <3>2. ASSUME d.item \in Later, d.item = c.item
          PROVE  FALSE
      <4>1. Posting(c)
        BY <1>8, <3>2 DEF Posting
      <4> QED BY <2>1, <3>1, <3>2, <4>1 DEF IInv, Posts
    <3> QED BY <3>1, <3>2
  <2>2. \A d \in calls' : Posting(d) => d.item \in stored
    BY <2>1 DEF IInv, Posts
  <2>3. \A d \in calls' : Posting(d) /\ d.item \in Later => posted'[d.item] = 0
    BY <1>7, <2>1 DEF IInv, Posts, Messages
  <2>4. \A d, f \in calls' : Posting(d) /\ Posting(f) /\ d.item = f.item => d = f
    BY <2>1 DEF IInv, Posts
  <2>5. \A m \in Later : m \notin stored => posted'[m] = 0
    BY <1>7, <1>9 DEF IInv, Posts, Messages
  <2>6. \A d \in calls' : d.kind = "send" /\ d.at = "ok" /\ d.item \in Later => d.item \in stored
    BY <1>5, <1>6, <1>9 DEF IInv, Posts
  <2> QED BY <2>2, <2>3, <2>4, <2>5, <2>6 DEF Posts, Posting
<1>11. PostedAtMostOnce'
  BY <1>7, <1>8 DEF IInv, PostedAtMostOnce, Messages
<1>12. faults' \in 0 .. MaxFaults
  BY Typed, FaultsAssumption DEF Fault
<1>13. TypeOK'
  BY <1>4, <1>7, <1>12 DEF IInv, TypeOK
<1>14. SentIsStored'
  BY DEF IInv, SentIsStored
<1>15. Recorded' /\ Pulling' /\ AcknowledgedIsReceived'
  BY QuietEvents
<1> QED BY <1>4, <1>10, <1>11, <1>13, <1>14, <1>15 DEF IInv

\* Only the opening message is stored after it was posted.
LEMMA OpenStoreInv ==
  ASSUME IInv, NEW c \in calls, OpenStore(c)
  PROVE  IInv'
<1> USE DEF OpenStore, local
<1>1. Goes(c, "ok") \/ Ends(c)
  BY AnsweredMoves
<1>2. c \in Call /\ c.kind = "open" /\ c.item = First
  BY DEF IInv, TypeOK, CallsFit, Allowed, Asks
<1>3. "ok" \in Ats /\ Allowed(c.kind, "ok")
  BY DEF Ats, Allowed
<1>4. calls' \subseteq Call /\ CallsFit' /\ Awaited' /\ Posts' /\ PostedAtMostOnce'
  BY <1>1, <1>2, <1>3, MovesFit, MovesAwaited, MovesPost
<1>5. TypeOK'
  BY <1>2, <1>4 DEF IInv, TypeOK, Messages
<1>6. SentIsStored'
  BY DEF IInv, SentIsStored
<1>7. Recorded' /\ Pulling' /\ AcknowledgedIsReceived'
  BY QuietEvents
<1> QED BY <1>4, <1>5, <1>6, <1>7 DEF IInv

LEMMA AppendedSet ==
  ASSUME NEW S, NEW q \in Seq(S), NEW x \in S
  PROVE  Append(q, x) \in Seq(S) /\ ToSet(Append(q, x)) = ToSet(q) \union {x}
<1> DEFINE r == Append(q, x)
<1>1. r \in Seq(S) /\ Len(r) = Len(q) + 1 /\ r[Len(r)] = x
  OBVIOUS
<1>2. \A i \in 1 .. Len(q) : r[i] = q[i]
  OBVIOUS
<1>3. DOMAIN q = 1 .. Len(q) /\ DOMAIN r = 1 .. Len(r) /\ Len(q) \in Nat
  BY <1>1
<1> HIDE DEF r
<1>4. ToSet(r) \subseteq ToSet(q) \union {x}
  BY <1>1, <1>2, <1>3 DEF ToSet
<1>5. ToSet(q) \subseteq ToSet(r)
  BY <1>1, <1>2, <1>3 DEF ToSet
<1>6. x \in ToSet(r)
  BY <1>1, <1>3 DEF ToSet
<1> QED BY <1>1, <1>4, <1>5, <1>6 DEF r

\* What is recorded now is in no batch yet.
LEMMA RecordEventInv ==
  ASSUME IInv, NEW c \in calls, RecordEvent(c)
  PROVE  IInv'
<1> USE DEF RecordEvent, local
<1>1. Goes(c, "ok") \/ Ends(c)
  BY AnsweredMoves
<1>2. c \in Call /\ c.kind \in {"close", "take", "answer"} /\ Key(c) \in Keys
  BY DEF IInv, TypeOK, CallsFit, Allowed, Asks, Key, Keys
<1>3. "ok" \in Ats /\ Allowed(c.kind, "ok")
  BY DEF Ats, Allowed
<1>4. calls' \subseteq Call /\ CallsFit' /\ Awaited' /\ Posts' /\ PostedAtMostOnce'
  BY <1>1, <1>2, <1>3, MovesFit, MovesAwaited, MovesPost
<1>5. SentIsStored'
  BY DEF IInv, SentIsStored
<1>6. events \in Seq(Keys) /\ (Contains(events, Key(c)) <=> Key(c) \in ToSet(events))
  BY DEF IInv, TypeOK, Contains, ToSet
<1>7. CASE UNCHANGED <<events, heard>>
  <2>1. TypeOK'
    BY <1>4, <1>7 DEF IInv, TypeOK
  <2>2. Recorded' /\ Pulling' /\ AcknowledgedIsReceived'
    BY <1>7, QuietEvents
  <2> QED BY <1>4, <1>5, <2>1, <2>2 DEF IInv
<1>8. CASE /\ ~Contains(events, Key(c))
           /\ events' = Append(events, Key(c))
           /\ heard' = heard \union {a \in Answers : a = Key(c) /\ known}
  <2>1. events' \in Seq(Keys) /\ ToSet(events') = ToSet(events) \union {Key(c)}
    <3>1. /\ Append(events, Key(c)) \in Seq(Keys)
          /\ ToSet(Append(events, Key(c))) = ToSet(events) \union {Key(c)}
      <4>1. events \in Seq(Keys) /\ Key(c) \in Keys
        BY <1>2, <1>6
      <4> QED BY <4>1, AppendedSet
    <3> QED BY <1>8, <3>1
  <2>2. Key(c) \notin ToSet(events)
    BY <1>6, <1>8
  <2>3. TypeOK'
    BY <1>4, <1>8, <2>1 DEF IInv, TypeOK
  <2>4. Recorded'
    BY <1>8, <2>1 DEF IInv, Recorded
  <2>5. ASSUME NEW s \in Syncs
        PROVE  Pulled(s)'
    <3> DEFINE q == sync[s].batch
    <3>1. ASSUME ToSet(q) \subseteq ToSet(events), NEW i \in 1 .. Len(q), q[i] \in heard'
          PROVE  q[i] \in heard
      <4>1. q \in Seq(Keys)
        BY DEF IInv, TypeOK, Sync
      <4>2. q[i] \in ToSet(q)
        BY <4>1 DEF ToSet
      <4> QED BY <1>8, <2>2, <3>1, <4>2
    <3> QED BY <2>1, <3>1 DEF IInv, Pulling, Pulled
  <2>6. AcknowledgedIsReceived'
    BY <1>8, <2>2 DEF IInv, Recorded, AcknowledgedIsReceived
  <2> QED BY <1>4, <1>5, <2>3, <2>4, <2>5, <2>6 DEF IInv, Pulling
<1> QED BY <1>7, <1>8

-------------------------------------------------------------------------------
(* The caller *)

\* A run of syncRelay that waits for the call goes on; the others stay.
LEMMA ProceedsInv ==
  ASSUME IInv, NEW c \in calls, c.by \in Syncs \union {"user"}, NEW on \in BOOLEAN,
         Proceeds(c, on), UNCHANGED <<events, received, heard, delivered>>,
         known => known',
         \A d \in calls' : d.by \in Syncs => d \in calls /\ d # c
  PROVE  /\ sync' \in [Syncs -> Sync] /\ Awaited'
         /\ Recorded' /\ Pulling' /\ AcknowledgedIsReceived'
<1>1. \A s \in Syncs : s # c.by => sync'[s] = sync[s]
  BY DEF Proceeds
<1>2. ASSUME c.by \in Syncs
      PROVE  sync'[c.by] \in Sync /\ sync'[c.by].pc \in {"calls", "pull"}
  <2> DEFINE r == sync[c.by]
  <2>1. r \in Sync /\ r.pc = "calls" /\ r.todo # <<>>
    BY <1>2 DEF IInv, TypeOK, Awaited
  <2>2. Tail(r.todo) \in Seq(Todo) /\ <<>> \in Seq(Todo)
    BY <2>1 DEF Sync
  <2>3. sync'[c.by] = IF on THEN [r EXCEPT !.todo = Tail(@)]
                      ELSE [r EXCEPT !.todo = <<>>, !.pc = "pull"]
    BY <1>2 DEF Proceeds
  <2> HIDE DEF r
  <2> QED BY <2>1, <2>2, <2>3 DEF Sync
<1>3. sync' \in [Syncs -> Sync]
  <2>1. DOMAIN sync' = Syncs /\ sync' = [s \in Syncs |-> sync'[s]]
    BY DEF Proceeds
  <2>2. ASSUME NEW s \in Syncs PROVE sync'[s] \in Sync
    BY <1>1, <1>2 DEF IInv, TypeOK
  <2> QED BY <2>1, <2>2
<1>4. Awaited'
  <2>1. ASSUME NEW d \in calls', d.by \in Syncs
        PROVE  sync'[d.by].pc = "calls" /\ sync'[d.by].todo # <<>>
    <3>1. d \in calls /\ d # c
      BY <2>1
    <3>2. d.by # c.by
      BY <2>1, <3>1 DEF IInv, Awaited
    <3> QED BY <1>1, <2>1, <3>1, <3>2 DEF IInv, Awaited
  <2>2. ASSUME NEW d \in calls', NEW f \in calls', d.by \in Syncs, d.by = f.by
        PROVE  d = f
    BY <2>2 DEF IInv, Awaited
  <2> QED BY <2>1, <2>2 DEF Awaited
<1>5. ASSUME NEW s \in Syncs
      PROVE  Pulled(s)'
  <2>1. CASE s # c.by
    BY <1>1, <2>1 DEF IInv, Pulling, Pulled
  <2>2. CASE s = c.by
    BY <1>2, <2>2 DEF Pulled
  <2> QED BY <2>1, <2>2
<1>6. Recorded' /\ AcknowledgedIsReceived'
  BY DEF IInv, Recorded, AcknowledgedIsReceived
<1> QED BY <1>3, <1>4, <1>5, <1>6 DEF Pulling

LEMMA ReturnInv ==
  ASSUME IInv, NEW c \in calls, Return(c)
  PROVE  IInv'
<1> USE DEF remote
<1>1. c \in Call /\ c.item \in Messages \union Updates \union {Closed}
  BY DEF IInv, TypeOK, Call
<1>2. /\ UNCHANGED <<ticket, received, topic, assigned, stored, posted, events, delivered,
                     used, heard, crowded>>
      /\ c.by \in Syncs \union {"user"} /\ faults' \in 0 .. MaxFaults
  <2>1. c.by \in Syncs \union {"user"} /\ (faults' = faults \/ Fault)
    BY DEF Return
  <2>2. faults' \in 0 .. MaxFaults
    BY <2>1, Typed, FaultsAssumption DEF Fault
  <2> QED BY <2>1, <2>2 DEF Return
<1>3. CASE c.at = "error" /\ Ends(c) /\ Fails(c) /\ UNCHANGED known
  <2>1. Proceeds(c, FALSE)
    BY <1>3 DEF Fails
  <2>2. /\ sync' \in [Syncs -> Sync] /\ Awaited'
        /\ Recorded' /\ Pulling' /\ AcknowledgedIsReceived'
    BY <1>2, <1>3, <2>1, ProceedsInv DEF Ends
  <2>3. "error" \in Ats /\ Allowed(c.kind, "error")
    BY DEF Ats, Allowed
  <2>4. calls' \subseteq Call /\ CallsFit' /\ Posts' /\ PostedAtMostOnce'
    BY <1>2, <1>3, <2>3, MovesFit, MovesPost
  <2>5. /\ relayError' \in BOOLEAN
        /\ delivery' \in [Messages -> {"NONE", "PENDING", "SENT", "FAILED"}]
        /\ \A m \in Messages : delivery'[m] = delivery[m] \/ delivery'[m] = "FAILED"
    BY <1>3 DEF Fails, IInv, TypeOK
  <2>6. TypeOK'
    BY <1>2, <1>3, <2>2, <2>4, <2>5 DEF IInv, TypeOK
  <2>7. SentIsStored'
    BY <1>2, <2>5 DEF IInv, SentIsStored, Messages
  <2> QED BY <2>2, <2>4, <2>6, <2>7 DEF IInv
<1>4. CASE /\ c.at = "ok" /\ c.kind = "open"
           /\ (known' = TRUE /\ relayError' = FALSE) \/ UNCHANGED <<known, relayError>>
           /\ Goes(c, "learned") /\ UNCHANGED <<delivery, sync>>
  <2>1. "learned" \in Ats /\ Allowed(c.kind, "learned")
    BY <1>4 DEF Ats, Allowed
  <2>2. calls' \subseteq Call /\ CallsFit' /\ Awaited' /\ Posts' /\ PostedAtMostOnce'
    BY <1>2, <1>4, <2>1, MovesFit, MovesAwaited, MovesPost
  <2>3. TypeOK'
    BY <1>2, <1>4, <2>2 DEF IInv, TypeOK
  <2>4. SentIsStored'
    BY <1>2, <1>4 DEF IInv, SentIsStored
  <2>5. Recorded' /\ Pulling' /\ AcknowledgedIsReceived'
    BY <1>2, <1>4, QuietEvents
  <2> QED BY <2>2, <2>3, <2>4, <2>5 DEF IInv
<1>5. CASE /\ c.at = "learned" \/ (c.at = "ok" /\ c.kind = "send")
           /\ delivery' = [delivery EXCEPT ![c.item] = "SENT"]
           /\ Ends(c) /\ Proceeds(c, TRUE) /\ UNCHANGED <<known, relayError>>
  <2>1. c.item \in Messages /\ (c.item \in Later => c.item \in stored)
    <3>1. CASE c.at = "learned"
      BY <3>1, NamesAssumption DEF IInv, CallsFit, Allowed, Asks, Messages
    <3>2. CASE c.at = "ok" /\ c.kind = "send"
      BY <3>2 DEF IInv, CallsFit, Asks, Posts
    <3> QED BY <1>5, <3>1, <3>2
  <2>2. /\ sync' \in [Syncs -> Sync] /\ Awaited'
        /\ Recorded' /\ Pulling' /\ AcknowledgedIsReceived'
    BY <1>2, <1>5, ProceedsInv DEF Ends
  <2>3. "error" \in Ats /\ Allowed(c.kind, "error")
    BY DEF Ats, Allowed
  <2>4. calls' \subseteq Call /\ CallsFit' /\ Posts' /\ PostedAtMostOnce'
    BY <1>2, <1>5, <2>3, MovesFit, MovesPost
  <2>5. TypeOK'
    BY <1>2, <1>5, <2>1, <2>2, <2>4 DEF IInv, TypeOK
  <2>6. SentIsStored'
    BY <1>2, <1>5, <2>1 DEF IInv, TypeOK, SentIsStored, Messages
  <2> QED BY <2>2, <2>4, <2>5, <2>6 DEF IInv
<1>6. CASE /\ c.at = "ok" /\ c.kind = "close"
           /\ relayError' = FALSE
           /\ Ends(c) /\ Proceeds(c, TRUE) /\ UNCHANGED <<known, delivery>>
  <2>1. /\ sync' \in [Syncs -> Sync] /\ Awaited'
        /\ Recorded' /\ Pulling' /\ AcknowledgedIsReceived'
    BY <1>2, <1>6, ProceedsInv DEF Ends
  <2>2. "error" \in Ats /\ Allowed(c.kind, "error")
    BY DEF Ats, Allowed
  <2>3. calls' \subseteq Call /\ CallsFit' /\ Posts' /\ PostedAtMostOnce'
    BY <1>2, <1>6, <2>2, MovesFit, MovesPost
  <2>4. TypeOK'
    BY <1>2, <1>6, <2>1, <2>3 DEF IInv, TypeOK
  <2>5. SentIsStored'
    BY <1>2, <1>6 DEF IInv, SentIsStored
  <2> QED BY <2>1, <2>3, <2>4, <2>5 DEF IInv
<1> QED BY <1>3, <1>4, <1>5, <1>6 DEF Return

\* Requests that only lose their caller are the requests they were: each comes
\* from one, and no two that post from the same.
LEMMA LeftFit ==
  ASSUME IInv, NEW from \in [calls' -> calls], UNCHANGED <<stored, posted>>,
         \A d \in calls' : /\ d \in Call /\ d.kind = from[d].kind
                           /\ d.item = from[d].item /\ d.at = from[d].at,
         \A d, f \in calls' : Posting(d) /\ Posting(f) /\ from[d] = from[f] => d = f
  PROVE  calls' \subseteq Call /\ CallsFit' /\ Posts' /\ PostedAtMostOnce'
<1>1. ASSUME NEW d \in calls'
      PROVE  /\ Allowed(d.kind, d.at) /\ Asks(d.kind, d.item)
             /\ Posting(d) => d.item \in stored
             /\ Posting(d) /\ d.item \in Later => posted[d.item] = 0
             /\ d.kind = "send" /\ d.at = "ok" /\ d.item \in Later => d.item \in stored
  <2> DEFINE g == from[d]
  <2>1. g \in calls /\ d.kind = g.kind /\ d.item = g.item /\ d.at = g.at
    OBVIOUS
  <2> HIDE DEF g
  <2> QED BY <2>1 DEF IInv, CallsFit, Posts, Posting
<1>2. ASSUME NEW d \in calls', NEW f \in calls', Posting(d), Posting(f), d.item = f.item
      PROVE  d = f
  <2>1. /\ from[d] \in calls /\ from[f] \in calls /\ from[d].item = from[f].item
        /\ Posting(from[d]) /\ Posting(from[f])
    BY <1>2 DEF Posting
  <2>2. from[d] = from[f]
    BY <2>1 DEF IInv, Posts
  <2> QED BY <1>2, <2>2
<1>3. (\A m \in Later : m \notin stored => posted[m] = 0)' /\ PostedAtMostOnce'
  BY DEF IInv, Posts, PostedAtMostOnce
<1>4. calls' \subseteq Call /\ CallsFit'
  BY <1>1 DEF CallsFit
<1> QED BY <1>1, <1>2, <1>3, <1>4 DEF Posts, Posting

\* The caller stops waiting.
LEMMA TimeOutInv ==
  ASSUME IInv, NEW c \in calls, TimeOut(c)
  PROVE  IInv'
<1> USE DEF remote
<1> DEFINE e == [c EXCEPT !.by = "nobody"]
           from == [d \in calls' |-> IF d = e THEN c ELSE d]
<1>1. /\ calls \subseteq Call /\ c \in Call
      /\ e \in Call /\ e.kind = c.kind /\ e.item = c.item /\ e.by = "nobody" /\ e.at = c.at
  BY LeftCall DEF IInv, TypeOK
<1>2. calls' = (calls \ {c}) \union {e}
  BY DEF TimeOut
<1>3. /\ UNCHANGED <<ticket, known, received, topic, assigned, stored, posted, events,
                     delivered, used, heard, crowded>>
      /\ c.by \in Syncs \union {"user"}
      /\ Fails(c)
  BY DEF TimeOut
<1> HIDE DEF e
<1>4. from \in [calls' -> calls]
  BY <1>2
<1>5. \A d \in calls' : /\ d \in Call /\ d.kind = from[d].kind
                        /\ d.item = from[d].item /\ d.at = from[d].at
  BY <1>1, <1>2
<1>6. \A d, f \in calls' : from[d] = from[f] => d = f
  BY <1>1, <1>2, <1>3, NamesAssumption
<1> HIDE DEF from
<1>7. calls' \subseteq Call /\ CallsFit' /\ Posts' /\ PostedAtMostOnce'
  BY <1>3, <1>4, <1>5, <1>6, LeftFit
<1>8. \A d \in calls' : d.by \in Syncs => d \in calls /\ d # c
  BY <1>1, <1>2, NamesAssumption
<1>9. /\ sync' \in [Syncs -> Sync] /\ Awaited'
      /\ Recorded' /\ Pulling' /\ AcknowledgedIsReceived'
  BY <1>3, <1>8, ProceedsInv DEF Fails
<1>10. /\ relayError' \in BOOLEAN
       /\ delivery' \in [Messages -> {"NONE", "PENDING", "SENT", "FAILED"}]
       /\ \A m \in Messages : delivery'[m] = delivery[m] \/ delivery'[m] = "FAILED"
  BY <1>3 DEF Fails, IInv, TypeOK
<1>11. faults' \in 0 .. MaxFaults
  BY Typed, FaultsAssumption DEF TimeOut, Fault
<1>12. TypeOK'
  BY <1>3, <1>7, <1>9, <1>10, <1>11 DEF IInv, TypeOK
<1>13. SentIsStored'
  BY <1>3, <1>10 DEF IInv, SentIsStored, Messages
<1> QED BY <1>7, <1>9, <1>12, <1>13 DEF IInv

-------------------------------------------------------------------------------
(* Crashes *)

LEMMA ApiCrashInv ==
  ASSUME IInv, ApiCrash
  PROVE  IInv'
<1> USE DEF local, remote
<1> DEFINE Left(c) == [c EXCEPT !.by = "nobody"]
           kept == {c \in calls : c.by \in {"nobody", "telegram"}}
           gone == {d \in calls : d.by \in Syncs \union {"user"} /\ d.at \in AtRelay}
           from == [d \in calls' |-> IF d \in kept THEN d
                                     ELSE CHOOSE c \in gone : d = Left(c)]
<1>1. calls' = kept \union {Left(c) : c \in gone}
  BY DEF ApiCrash
<1>2. kept \subseteq Call /\ gone \subseteq Call /\ kept \subseteq calls /\ gone \subseteq calls
  BY DEF IInv, TypeOK
<1>3. ASSUME NEW d \in calls', d \notin kept
      PROVE  from[d] \in gone /\ d = Left(from[d])
  BY <1>1, <1>3
<1>4. ASSUME NEW d \in calls'
      PROVE  /\ from[d] \in calls /\ d \in Call /\ d.kind = from[d].kind
             /\ d.item = from[d].item /\ d.at = from[d].at /\ d.by \notin Syncs
  <2>1. CASE d \in kept
    BY <1>2, <2>1, NamesAssumption
  <2>2. CASE d \notin kept
    <3> DEFINE g == from[d]
    <3>1. g \in gone /\ d = Left(g) /\ g \in Call
      BY <1>2, <1>3, <2>2
    <3> HIDE DEF g
    <3>2. d \in Call /\ d.kind = g.kind /\ d.item = g.item /\ d.at = g.at /\ d.by = "nobody"
      BY <3>1, LeftCall
    <3>3. g = from[d]
      BY DEF g
    <3> QED BY <1>2, <3>1, <3>2, <3>3, NamesAssumption
  <2> QED BY <2>1, <2>2
<1>5. ASSUME NEW d \in calls', NEW f \in calls', from[d] = from[f]
      PROVE  d = f
  <2>1. \A g \in gone : g.by \notin {"nobody", "telegram"}
    BY NamesAssumption
  <2>2. kept \intersect gone = {}
    BY <2>1
  <2>3. (d \in kept => from[d] = d) /\ (f \in kept => from[f] = f)
    OBVIOUS
  <2> QED BY <1>3, <1>5, <2>2, <2>3
<1>6. from \in [calls' -> calls]
  BY <1>4
<1>7. UNCHANGED <<ticket, known, relayError, delivery, received, topic, assigned,
                  stored, posted, events, delivered, used, heard, crowded>>
  BY DEF ApiCrash
<1>8. sync' = [s \in Syncs |-> Resting] /\ faults' \in 0 .. MaxFaults
  BY Typed, FaultsAssumption DEF ApiCrash, Fault
<1>9. \A d \in calls' : /\ d \in Call /\ d.kind = from[d].kind /\ d.by \notin Syncs
                        /\ d.item = from[d].item /\ d.at = from[d].at
  BY <1>4
<1>10. \A d, f \in calls' : from[d] = from[f] => d = f
  BY <1>5
<1> HIDE DEF from
<1>11. calls' \subseteq Call /\ CallsFit' /\ Posts' /\ PostedAtMostOnce'
  BY <1>6, <1>7, <1>9, <1>10, LeftFit
<1>12. sync' \in [Syncs -> Sync]
  BY <1>8 DEF Resting, Sync
<1>13. TypeOK'
  BY <1>7, <1>8, <1>11, <1>12 DEF IInv, TypeOK
<1>14. Awaited'
  BY <1>9 DEF Awaited
<1>15. Pulling'
  BY <1>8 DEF Pulling, Pulled, Resting
<1>16. Recorded' /\ SentIsStored' /\ AcknowledgedIsReceived'
  BY <1>7 DEF IInv, Recorded, SentIsStored, AcknowledgedIsReceived
<1> QED BY <1>11, <1>13, <1>14, <1>15, <1>16 DEF IInv

LEMMA RelayCrashInv ==
  ASSUME IInv, RelayCrash
  PROVE  IInv'
<1> USE DEF local, remote
<1> DEFINE At(c) == IF c.by = "telegram" THEN "arrived" ELSE "error"
           Back(c) == [c EXCEPT !.at = At(c)]
           hit == {d \in calls : d.at \in AtRelay /\ d.by # "nobody"}
<1>1. calls' = {c \in calls : c.at \notin AtRelay} \union {Back(c) : c \in hit}
  BY DEF RelayCrash
<1>2. calls \subseteq Call
  BY DEF IInv, TypeOK
<1>3. ASSUME NEW c \in calls
      PROVE  /\ Back(c) \in Call /\ Back(c).kind = c.kind /\ Back(c).item = c.item
             /\ Back(c).by = c.by /\ Back(c).at \in {"arrived", "error"}
  <2>1. c \in Call /\ At(c) \in Ats /\ At(c) \in {"arrived", "error"}
    BY <1>2 DEF Ats, AtRelay
  <2> QED BY <2>1, MovedCall
<1> HIDE DEF Back
<1>4. ASSUME NEW d \in calls'
      PROVE  /\ d \in Call /\ Allowed(d.kind, d.at) /\ Asks(d.kind, d.item) /\ ~Posting(d)
             /\ d.at = "ok" => d \in calls
  <2>1. CASE d \in calls /\ d.at \notin AtRelay
    BY <1>2, <2>1 DEF IInv, CallsFit, Posting, AtRelay
  <2>2. CASE \E c \in calls : d = Back(c)
    <3>1. PICK c \in calls : d = Back(c)
      BY <2>2
    <3> QED BY <1>3, <3>1 DEF IInv, CallsFit, Allowed, Posting
  <2> QED BY <1>1, <2>1, <2>2
<1> DEFINE To(c) == IF c.at \in AtRelay THEN Back(c) ELSE c
<1>5. ASSUME NEW d \in calls'
      PROVE  \E c \in calls : d = To(c) /\ d.by = c.by
  <2>1. CASE d \in calls /\ d.at \notin AtRelay
    BY <2>1
  <2>2. CASE \E c \in hit : d = Back(c)
    BY <1>3, <2>2
  <2> QED BY <1>1, <2>1, <2>2
<1>6. Awaited'
  <2>1. ASSUME NEW d \in calls', d.by \in Syncs
        PROVE  sync'[d.by].pc = "calls" /\ sync'[d.by].todo # <<>>
    BY <1>5, <2>1 DEF RelayCrash, IInv, Awaited
  <2>2. ASSUME NEW d \in calls', NEW f \in calls', d.by \in Syncs, d.by = f.by
        PROVE  d = f
    <3>1. PICK c \in calls : d = To(c) /\ d.by = c.by
      BY <1>5
    <3>2. PICK g \in calls : f = To(g) /\ f.by = g.by
      BY <1>5
    <3>3. c = g
      BY <2>2, <3>1, <3>2 DEF IInv, Awaited
    <3> QED BY <3>1, <3>2, <3>3
  <2> QED BY <2>1, <2>2 DEF Awaited
<1>7. UNCHANGED <<ticket, known, relayError, delivery, received, topic, assigned,
                  stored, posted, events, delivered, sync, used, heard, crowded>>
  BY DEF RelayCrash
<1>8. Posts' /\ PostedAtMostOnce'
  BY <1>4, <1>7 DEF IInv, Posts, PostedAtMostOnce, Posting
<1>9. TypeOK' /\ CallsFit'
  <2>1. faults' \in 0 .. MaxFaults
    BY Typed, FaultsAssumption DEF RelayCrash, Fault
  <2>2. calls' \subseteq Call
    BY <1>4
  <2>3. CallsFit'
    BY <1>4 DEF CallsFit
  <2> QED BY <1>7, <2>1, <2>2, <2>3 DEF IInv, TypeOK
<1>10. SentIsStored'
  BY <1>7 DEF IInv, SentIsStored
<1>11. Recorded' /\ Pulling' /\ AcknowledgedIsReceived'
  BY <1>7, QuietEvents
<1> QED BY <1>6, <1>8, <1>9, <1>10, <1>11 DEF IInv

-------------------------------------------------------------------------------
(* syncRelay *)

\* A step of a run that has pulled touches only the run: what is left to prove
\* is about that run and about what it acknowledges.
LEMMA RunInv ==
  ASSUME IInv, NEW s \in Syncs, NEW r \in Sync, sync' = [sync EXCEPT ![s] = r],
         UNCHANGED <<known, relayError, delivery, topic, assigned, stored, posted,
                     events, calls, used, heard, crowded>>,
         sync[s].pc # "calls",
         ticket' \in {"NONE", "OPEN", "IN_PROGRESS", "CLOSED"},
         received' \subseteq Answers, received \subseteq received',
         faults' \in 0 .. MaxFaults,
         delivered' \subseteq ToSet(events), AcknowledgedIsReceived', Pulled(s)'
  PROVE  IInv'
<1>1. sync' \in [Syncs -> Sync] /\ sync'[s] = r /\ \A t \in Syncs \ {s} : sync'[t] = sync[t]
  BY DEF IInv, TypeOK
<1>2. ToSet(events) \subseteq Keys
  BY DEF IInv, TypeOK, ToSet
<1>3. TypeOK'
  BY <1>1, <1>2 DEF IInv, TypeOK
<1>4. CallsFit' /\ Posts' /\ SentIsStored' /\ PostedAtMostOnce'
  BY DEF IInv, CallsFit, Posts, SentIsStored, PostedAtMostOnce
<1>5. Awaited'
  <2>1. \A c \in calls : c.by # s
    BY DEF IInv, Awaited
  <2> QED BY <1>1, <2>1 DEF IInv, Awaited
<1>6. Recorded'
  BY DEF IInv, Recorded
<1>7. Pulling'
  <2>1. ASSUME NEW t \in Syncs \ {s}
        PROVE  Pulled(t)'
    BY <1>1 DEF IInv, Pulling, Pulled
  <2> QED BY <2>1 DEF Pulling
<1> QED BY <1>3, <1>4, <1>5, <1>6, <1>7 DEF IInv

\* What is known of a run that has pulled.
LEMMA RunTyped ==
  ASSUME IInv, NEW s \in Syncs
  PROVE  LET r == sync[s] IN
         /\ r \in Sync /\ r.batch \in Seq(Keys) /\ r.next \in Nat /\ Pulled(s)
BY DEF IInv, TypeOK, Pulling, Sync

\* The messages are finitely many, and so are the calls of a run.
LEMMA Enumerated ==
  ASSUME NEW S, IsFiniteSet(S)
  PROVE  SetToSeq(S) \in Seq(S)
<1>1. Cardinality(S) \in Nat /\ ExistsBijection(1 .. Cardinality(S), S)
  BY FS_CardinalityType
<1>2. PICK f \in [1 .. Cardinality(S) -> S] : IsInjective(f)
  BY <1>1 DEF ExistsBijection, Bijection, Injection
<1>3. SetToSeq(S) \in [1 .. Cardinality(S) -> S]
  BY <1>2 DEF SetToSeq
<1> QED BY <1>1, <1>3

LEMMA ToCallTyped == ToCall \in Seq(Todo)
<1>1. IsFiniteSet(Unsent \ {First})
  <2>1. (Unsent \ {First}) \in SUBSET Later
    BY DEF Unsent, Messages
  <2> QED BY <2>1, LaterAssumption, FS_Subset
<1> DEFINE Others == SetToSeq(Unsent \ {First})
           Sends(q) == [i \in DOMAIN q |-> [kind |-> "send", item |-> q[i]]]
<1>2. Others \in Seq(Messages)
  BY <1>1, Enumerated DEF Unsent
<1> HIDE DEF Others
<1>3. <<First>> \o Others \in Seq(Messages)
  BY <1>2 DEF Messages
<1>4. ASSUME NEW q \in Seq(Messages)
      PROVE  Sends(q) \in Seq(Todo)
  <2>1. \A i \in DOMAIN q : [kind |-> "send", item |-> q[i]] \in Todo
    BY DEF Todo
  <2> QED BY <2>1
<1>5. <<[kind |-> "close", item |-> Closed]>> \in Seq(Todo)
      /\ <<[kind |-> "open", item |-> First]>> \in Seq(Todo) /\ <<>> \in Seq(Todo)
  BY DEF Todo, Messages
<1> QED BY <1>2, <1>3, <1>4, <1>5 DEF ToCall, Others

LEMMA StartInv ==
  ASSUME IInv, NEW s \in Syncs, Start(s)
  PROVE  IInv'
<1> USE DEF local, remote
<1>1. sync[s] \in Sync /\ sync[s].pc = "idle"
  BY RunTyped DEF Start
<1>2. PICK r \in Sync : sync' = [sync EXCEPT ![s] = r] /\ r.pc \in {"calls", "pull"}
  <2>1. CASE sync' = [sync EXCEPT ![s].pc = "calls",
                                  ![s].todo = IF crowded THEN <<>> ELSE ToCall]
    <3> DEFINE todo == IF crowded THEN <<>> ELSE ToCall
    <3>1. todo \in Seq(Todo)
      BY ToCallTyped
    <3>2. sync' = [sync EXCEPT ![s].pc = "calls", ![s].todo = todo]
      BY <2>1
    <3> HIDE DEF todo
    <3>3. [sync[s] EXCEPT !.pc = "calls", !.todo = todo] \in Sync
      BY <1>1, <3>1 DEF Sync
    <3> QED BY <1>1, <3>2, <3>3 DEF IInv, TypeOK, Sync
  <2>2. CASE sync' = [sync EXCEPT ![s].pc = "pull"]
    <3>1. [sync[s] EXCEPT !.pc = "pull"] \in Sync
      BY <1>1 DEF Sync
    <3> QED BY <1>1, <2>2, <3>1 DEF IInv, TypeOK, Sync
  <2> QED BY <2>1, <2>2 DEF Start
<1>3. Pulled(s)'
  BY <1>2 DEF IInv, TypeOK, Pulled
<1>4. faults' \in 0 .. MaxFaults
  BY Typed, FaultsAssumption DEF Start, Fault
<1>5. /\ UNCHANGED <<ticket, known, relayError, delivery, received, topic, assigned,
                     stored, posted, events, delivered, calls, used, heard, crowded>>
  BY DEF Start
<1>6. /\ ticket \in {"NONE", "OPEN", "IN_PROGRESS", "CLOSED"} /\ received \subseteq Answers
      /\ delivered \subseteq ToSet(events) /\ AcknowledgedIsReceived
  BY DEF IInv, TypeOK, Recorded
<1>7. AcknowledgedIsReceived'
  BY <1>5, <1>6 DEF AcknowledgedIsReceived
<1> QED BY <1>1, <1>2, <1>3, <1>4, <1>5, <1>6, <1>7, RunInv

\* The call of a run is the only one it waits for.
LEMMA CallNextInv ==
  ASSUME IInv, NEW s \in Syncs, CallNext(s)
  PROVE  IInv'
<1> USE DEF local, remote
<1>1. /\ sync[s] \in Sync /\ sync[s].pc = "calls" /\ \A c \in calls : c.by # s
      /\ UNCHANGED <<ticket, known, relayError, delivery, received, topic, assigned,
                     stored, posted, events, delivered, used, faults, heard, crowded>>
  BY RunTyped DEF CallNext
<1>2. CASE /\ sync[s].todo # <<>>
           /\ LET t == Head(sync[s].todo)
              IN  calls' = calls \union {Request(t.kind, t.item, s, "arrived")}
           /\ UNCHANGED sync
  <2> DEFINE t == Head(sync[s].todo)
             e == Request(t.kind, t.item, s, "arrived")
  <2>1. t \in Todo
    BY <1>1, <1>2 DEF Sync
  <2>2. calls' = calls \union {e}
    BY <1>2
  <2> HIDE DEF t
  <2>3. /\ t.kind \in {"open", "send", "close"} /\ t.item \in Messages \union {Closed}
        /\ Asks(t.kind, t.item)
    BY <2>1 DEF Todo, Messages, Asks
  <2>4. s \in Callers /\ "arrived" \in Ats
    BY DEF Callers, Ats, AtRelay
  <2>5. e \in Call /\ e.kind = t.kind /\ e.item = t.item /\ e.by = s /\ e.at = "arrived"
    BY <2>3, <2>4, RequestIsCall
  <2>6. Allowed(e.kind, e.at) /\ Asks(e.kind, e.item)
    BY <2>3, <2>5 DEF Allowed
  <2> HIDE DEF e
  <2>7. calls' \subseteq Call /\ CallsFit' /\ Posts' /\ PostedAtMostOnce'
    BY <1>1, <2>2, <2>5, <2>6, AddedFits, AddedPosts
  <2>8. TypeOK'
    BY <1>1, <1>2, <2>7 DEF IInv, TypeOK
  <2>9. Awaited'
    <3>1. ASSUME NEW d \in calls', d.by \in Syncs
          PROVE  sync'[d.by].pc = "calls" /\ sync'[d.by].todo # <<>>
      <4>1. CASE d = e
        BY <1>1, <1>2, <2>5, <4>1
      <4>2. CASE d \in calls
        BY <1>2, <3>1, <4>2 DEF IInv, Awaited
      <4> QED BY <2>2, <4>1, <4>2
    <3>2. ASSUME NEW d \in calls', NEW f \in calls', d.by \in Syncs, d.by = f.by
          PROVE  d = f
      BY <1>1, <2>2, <2>5, <3>2 DEF IInv, Awaited
    <3> QED BY <3>1, <3>2 DEF Awaited
  <2>10. SentIsStored'
    BY <1>1 DEF IInv, SentIsStored
  <2>11. Recorded' /\ Pulling' /\ AcknowledgedIsReceived'
    BY <1>1, <1>2, QuietEvents
  <2> QED BY <2>7, <2>8, <2>9, <2>10, <2>11 DEF IInv
<1>3. CASE /\ sync[s].todo = <<>>
           /\ sync' = [sync EXCEPT ![s].pc = "pull"]
           /\ UNCHANGED calls
  <2> DEFINE r == [sync[s] EXCEPT !.pc = "pull"]
  <2>1. r \in Sync /\ r.pc = "pull"
    BY <1>1 DEF Sync
  <2>2. sync' = [sync EXCEPT ![s] = r]
    BY <1>3
  <2> HIDE DEF r
  <2>3. /\ sync' \in [Syncs -> Sync] /\ sync'[s].pc = "pull"
        /\ \A t \in Syncs \ {s} : sync'[t] = sync[t]
    BY <2>1, <2>2 DEF IInv, TypeOK
  <2>4. TypeOK' /\ CallsFit' /\ Posts' /\ SentIsStored' /\ PostedAtMostOnce'
    <3>1. TypeOK'
      BY <1>1, <1>3, <2>3 DEF IInv, TypeOK
    <3> QED BY <1>1, <1>3, <3>1
            DEF IInv, CallsFit, Posts, SentIsStored, PostedAtMostOnce
  <2>5. Awaited'
    BY <1>1, <1>3, <2>3 DEF IInv, Awaited
  <2>6. ASSUME NEW t \in Syncs
        PROVE  Pulled(t)'
    BY <1>1, <2>3 DEF IInv, Pulling, Pulled
  <2>7. Recorded' /\ AcknowledgedIsReceived'
    BY <1>1 DEF IInv, Recorded, AcknowledgedIsReceived
  <2> QED BY <2>4, <2>5, <2>6, <2>7 DEF IInv, Pulling
<1> QED BY <1>1, <1>2, <1>3 DEF CallNext

\* A run that ends, by a failure or not, is like one that never started.
LEMMA RestingRun == Resting \in Sync /\ Resting.pc = "idle"
BY DEF Resting, Sync

\* The facts RunInv asks for, when a step acknowledges nothing.
LEMMA Kept ==
  ASSUME IInv
  PROVE  /\ ticket \in {"NONE", "OPEN", "IN_PROGRESS", "CLOSED"} /\ received \subseteq Answers
         /\ heard \subseteq Answers /\ delivered \subseteq ToSet(events)
         /\ faults \in 0 .. MaxFaults /\ heard \intersect delivered \subseteq received
         /\ sync \in [Syncs -> Sync] /\ (heard # {} => known)
BY DEF IInv, TypeOK, Recorded, AcknowledgedIsReceived

LEMMA SequencesOf ==
  ASSUME NEW S, IsFiniteSet(S), NEW q \in SetToSeqs(S)
  PROVE  q \in Seq(S) /\ ToSet(q) \subseteq S
<1>1. Cardinality(S) \in Nat
  BY FS_CardinalityType
<1>2. q \in [1 .. Cardinality(S) -> S]
  BY DEF SetToSeqs
<1> QED BY <1>1, <1>2 DEF ToSet

LEMMA FiniteEvents ==
  ASSUME IInv
  PROVE  IsFiniteSet(ToSet(events))
<1>1. events \in Seq(Keys)
  BY DEF IInv, TypeOK
<1>2. DOMAIN events = 1 .. Len(events) /\ Len(events) \in Nat
  BY <1>1
<1>3. IsFiniteSet(1 .. Len(events))
  BY <1>2, FS_Interval
<1>4. events \in Surjection(1 .. Len(events), ToSet(events))
  <2>1. events \in [1 .. Len(events) -> ToSet(events)]
    BY <1>1, <1>2 DEF ToSet
  <2>2. \A t \in ToSet(events) : \E i \in 1 .. Len(events) : events[i] = t
    BY <1>2 DEF ToSet
  <2> QED BY <2>1, <2>2 DEF Surjection
<1> QED BY <1>3, <1>4, FS_Surjection

LEMMA PullInv ==
  ASSUME IInv, NEW s \in Syncs, Pull(s)
  PROVE  IInv'
<1> USE DEF local, remote
<1>1. PICK q \in SetToSeqs(ToSet(events) \ delivered) :
        sync' = [sync EXCEPT ![s].pc = "accept", ![s].next = 1, ![s].batch = q]
  BY DEF Pull
<1>2. q \in Seq(Keys) /\ ToSet(q) \subseteq ToSet(events)
  <2>1. IsFiniteSet(ToSet(events) \ delivered)
    BY FiniteEvents, FS_Subset
  <2>2. q \in Seq(ToSet(events) \ delivered) /\ ToSet(q) \subseteq ToSet(events)
    BY <1>1, <2>1, SequencesOf
  <2>3. (ToSet(events) \ delivered) \subseteq Keys
    BY DEF IInv, TypeOK, ToSet
  <2> QED BY <2>2, <2>3
<1>3. sync[s] \in Sync /\ sync[s].pc = "pull"
  BY RunTyped DEF Pull
<1> DEFINE r == [sync[s] EXCEPT !.pc = "accept", !.next = 1, !.batch = q]
<1>4. r \in Sync /\ r.pc = "accept" /\ r.next = 1 /\ r.batch = q
  BY <1>2, <1>3 DEF Sync
<1>5. sync' = [sync EXCEPT ![s] = r]
  BY <1>1, <1>3, Kept DEF Sync
<1> HIDE DEF r
<1>6. UNCHANGED <<ticket, known, relayError, delivery, received, topic, assigned, stored,
                  posted, events, delivered, calls, used, faults, heard, crowded>>
  BY DEF Pull
<1>7. Pulled(s)'
  BY <1>2, <1>4, <1>5, <1>6, Kept DEF Pulled
<1>8. AcknowledgedIsReceived'
  BY <1>6, Kept DEF AcknowledgedIsReceived
<1> QED BY <1>3, <1>4, <1>5, <1>6, <1>7, <1>8, Kept, RunInv

\* An answer that was heard is passed over only when it is received.
LEMMA AcceptInv ==
  ASSUME IInv, NEW s \in Syncs, Accept(s)
  PROVE  IInv'
<1> USE DEF remote
<1> DEFINE r == sync[s]
           q == r.batch
           n == r.next
           k == q[n]
<1>1. r \in Sync /\ q \in Seq(Keys) /\ n \in Nat /\ Pulled(s) /\ r.pc = "accept"
  BY RunTyped DEF Accept
<1>2. n >= 1 /\ ToSet(q) \subseteq ToSet(events)
      /\ \A i \in 1 .. Len(q) : i < n /\ q[i] \in heard => q[i] \in received
  BY <1>1 DEF Pulled
<1>3. UNCHANGED <<known, relayError, delivery, received, topic, assigned, stored, posted,
                  events, delivered, calls, used, faults, heard, crowded>>
  BY DEF Accept
<1>4. AcknowledgedIsReceived'
  BY <1>3, Kept DEF AcknowledgedIsReceived
<1>5. PICK pc, next :
        /\ sync' = [sync EXCEPT ![s] = [r EXCEPT !.pc = pc, !.next = next]]
        /\ ticket' \in {"NONE", "OPEN", "IN_PROGRESS", "CLOSED"}
        /\ \/ pc = "ack" /\ next = n /\ n > Len(q)
           \/ /\ pc = "accept" /\ next = n + 1 /\ n <= Len(q)
              /\ k \in heard => k \in received
           \/ pc = "insert" /\ next = n /\ n <= Len(q) /\ k \in Answers
  <2>1. CASE ~(n <= Len(q)) /\ sync' = [sync EXCEPT ![s].pc = "ack"] /\ UNCHANGED ticket
    <3>1. sync' = [sync EXCEPT ![s] = [r EXCEPT !.pc = "ack", !.next = n]]
      BY <1>1, <2>1, Kept DEF Sync
    <3>2. n > Len(q)
      BY <1>1, <2>1
    <3> HIDE DEF q, n, k, r
    <3> QED BY <2>1, <3>1, <3>2, Kept
  <2>2. CASE n <= Len(q) /\ (~known \/ k \in received) /\ Accepted(s) /\ UNCHANGED ticket
    <3>1. sync' = [sync EXCEPT ![s] = [r EXCEPT !.pc = "accept", !.next = n + 1]]
      BY <1>1, <2>2, Kept DEF Sync, Accepted
    <3> QED BY <1>1, <2>2, <3>1, Kept
  <2>3. CASE /\ n <= Len(q) /\ known /\ k \in Takes \union {Closed}
             /\ ticket' = IF k = Closed THEN "CLOSED" ELSE "IN_PROGRESS"
             /\ Accepted(s)
    <3>1. sync' = [sync EXCEPT ![s] = [r EXCEPT !.pc = "accept", !.next = n + 1]]
      BY <1>1, <2>3, Kept DEF Sync, Accepted
    <3>2. k \notin heard
      BY <2>3, Kept, NamesAssumption
    <3> QED BY <1>1, <2>3, <3>1, <3>2
  <2>4. CASE /\ n <= Len(q) /\ known /\ k \in Answers \ received
             /\ sync' = [sync EXCEPT ![s].pc = "insert"] /\ UNCHANGED ticket
    <3>1. sync' = [sync EXCEPT ![s] = [r EXCEPT !.pc = "insert", !.next = n]]
      BY <1>1, <2>4, Kept DEF Sync
    <3> QED BY <1>1, <2>4, <3>1, Kept
  <2> QED BY <2>1, <2>2, <2>3, <2>4 DEF Accept
<1> DEFINE e == [r EXCEPT !.pc = pc, !.next = next]
<1>6. e \in Sync /\ e.pc = pc /\ e.next = next /\ e.batch = q
  <2>1. pc \in {"accept", "insert", "ack"} /\ next \in Nat
    BY <1>1, <1>5
  <2> QED BY <1>1, <2>1 DEF Sync
<1>7. sync'[s] = e
  BY <1>5, Kept
<1> HIDE DEF e, k
<1>8. Pulled(s)'
  <2>1. ASSUME NEW i \in 1 .. Len(q), i < next \/ pc = "ack", q[i] \in heard
        PROVE  q[i] \in received
    BY <1>1, <1>2, <1>5, <2>1 DEF k
  <2>2. pc \in {"accept", "ack", "insert"} /\ next >= 1
        /\ (pc = "insert" => next <= Len(q) /\ q[next] \in Answers)
    BY <1>1, <1>2, <1>5 DEF k
  <2> QED BY <1>2, <1>3, <1>6, <1>7, <2>1, <2>2 DEF Pulled
<1>9. sync' = [sync EXCEPT ![s] = e]
  BY <1>5 DEF e
<1> QED BY <1>1, <1>3, <1>4, <1>5, <1>6, <1>8, <1>9, Kept, RunInv

LEMMA InsertInv ==
  ASSUME IInv, NEW s \in Syncs, Insert(s)
  PROVE  IInv'
<1> USE DEF remote
<1> DEFINE r == sync[s]
           k == r.batch[r.next]
           e == IF k \in received THEN Resting ELSE [r EXCEPT !.pc = "mark"]
<1>1. r \in Sync /\ r.next \in Nat /\ Pulled(s) /\ r.pc = "insert"
  BY RunTyped DEF Insert
<1>2. k \in Answers
  BY <1>1 DEF Pulled
<1>3. /\ UNCHANGED <<ticket, known, relayError, delivery, topic, assigned, stored, posted,
                     events, delivered, calls, used, faults, heard, crowded>>
      /\ received' = received \union {k}
  BY DEF Insert
<1>4. sync' = [sync EXCEPT ![s] = e]
  BY DEF Insert
<1>5. e \in Sync /\ (e.pc = "idle" \/ (e.pc = "mark" /\ e.batch = r.batch /\ e.next = r.next))
  BY <1>1, RestingRun DEF Sync
<1> HIDE DEF e
<1>6. sync'[s] = e
  BY <1>4, Kept
<1>7. Pulled(s)'
  BY <1>1, <1>3, <1>5, <1>6 DEF Pulled
<1>8. AcknowledgedIsReceived'
  BY <1>3, Kept DEF AcknowledgedIsReceived
<1> HIDE DEF k
<1> QED BY <1>1, <1>2, <1>3, <1>4, <1>5, <1>7, <1>8, Kept, RunInv

LEMMA MarkInv ==
  ASSUME IInv, NEW s \in Syncs, Mark(s)
  PROVE  IInv'
<1> USE DEF remote
<1> DEFINE r == sync[s]
           e == [r EXCEPT !.pc = "accept", !.next = r.next + 1]
<1>1. r \in Sync /\ r.next \in Nat /\ Pulled(s) /\ r.pc = "mark"
  BY RunTyped DEF Mark
<1>2. UNCHANGED <<known, relayError, delivery, received, topic, assigned, stored, posted,
                  events, delivered, calls, used, faults, heard, crowded>>
      /\ ticket' = "IN_PROGRESS"
  BY DEF Mark
<1>3. e \in Sync /\ e.pc = "accept" /\ e.batch = r.batch /\ e.next = r.next + 1
  <2>1. r \in Sync /\ r.next + 1 \in Nat
    BY <1>1
  <2> HIDE DEF r
  <2> QED BY <2>1 DEF Sync
<1>4. sync' = [sync EXCEPT ![s] = e]
  BY <1>1, Kept DEF Mark, Accepted, Sync
<1> HIDE DEF e
<1>5. sync'[s] = e
  BY <1>4, Kept
<1>6. Pulled(s)'
  <2>1. ASSUME NEW i \in 1 .. Len(r.batch), i < r.next + 1, r.batch[i] \in heard
        PROVE  r.batch[i] \in received
    BY <1>1, <2>1 DEF Pulled
  <2> QED BY <1>1, <1>2, <1>3, <1>5, <2>1 DEF Pulled
<1>7. AcknowledgedIsReceived'
  BY <1>2, Kept DEF AcknowledgedIsReceived
<1> QED BY <1>1, <1>2, <1>3, <1>4, <1>6, <1>7, Kept, RunInv

\* What a run acknowledges it has behind it.
LEMMA AcknowledgeInv ==
  ASSUME IInv, NEW s \in Syncs, Acknowledge(s)
  PROVE  IInv'
<1> USE DEF local
<1> DEFINE q == sync[s].batch
<1>1. q \in Seq(Keys) /\ Pulled(s) /\ sync[s].pc = "ack"
  BY RunTyped DEF Acknowledge
<1>2. /\ UNCHANGED <<ticket, known, relayError, delivery, received, topic, assigned, stored,
                     posted, events, calls, used, faults, heard, crowded>>
      /\ delivered' = delivered \union ToSet(q) /\ sync' = [sync EXCEPT ![s] = Resting]
  BY DEF Acknowledge
<1>3. ToSet(q) \subseteq ToSet(events) /\ \A i \in 1 .. Len(q) : q[i] \in heard => q[i] \in received
  BY <1>1 DEF Pulled
<1>4. ToSet(q) \intersect heard \subseteq received
  BY <1>1, <1>3 DEF ToSet
<1>5. AcknowledgedIsReceived'
  BY <1>2, <1>4, Kept DEF AcknowledgedIsReceived
<1>6. delivered' \subseteq ToSet(events)
  BY <1>2, <1>3, Kept
<1>7. Pulled(s)'
  BY <1>2, Kept, RestingRun DEF Pulled
<1> QED BY <1>1, <1>2, <1>5, <1>6, <1>7, Kept, RestingRun, RunInv

LEMMA BreakInv ==
  ASSUME IInv, NEW s \in Syncs, Break(s)
  PROVE  IInv'
<1> USE DEF local, remote
<1>1. /\ UNCHANGED <<ticket, known, relayError, delivery, received, topic, assigned, stored,
                     posted, events, delivered, calls, used, heard, crowded>>
      /\ sync' = [sync EXCEPT ![s] = Resting] /\ sync[s].pc # "calls"
  BY DEF Break
<1>2. faults' \in 0 .. MaxFaults
  BY Typed, FaultsAssumption DEF Break, Fault
<1>3. Pulled(s)'
  BY <1>1, Kept, RestingRun DEF Pulled
<1>4. AcknowledgedIsReceived'
  BY <1>1, Kept DEF AcknowledgedIsReceived
<1> QED BY <1>1, <1>2, <1>3, <1>4, Kept, RestingRun, RunInv

LEMMA StutterInv ==
  ASSUME IInv, Crowd \/ UNCHANGED vars
  PROVE  IInv'
<1>1. /\ UNCHANGED <<ticket, known, relayError, delivery, received, topic, assigned,
                     stored, posted, events, delivered, calls, sync, used, faults, heard>>
      /\ crowded' \in BOOLEAN
  BY DEF vars, local, remote, Crowd, IInv, TypeOK
<1>2. TypeOK' /\ CallsFit' /\ Awaited'
  BY <1>1 DEF IInv, TypeOK, CallsFit, Awaited
<1>3. Posts' /\ PostedAtMostOnce' /\ SentIsStored'
  BY <1>1 DEF IInv, Posts, PostedAtMostOnce, SentIsStored
<1>4. Recorded' /\ Pulling' /\ AcknowledgedIsReceived'
  BY <1>1, QuietEvents
<1> QED BY <1>2, <1>3, <1>4 DEF IInv

-------------------------------------------------------------------------------
(***************************************************************************)
(* The theorems.                                                           *)
(***************************************************************************)

\* Every step of the user, of the volunteers, of either side and of a failure
\* keeps the invariant.
THEOREM Inductive == IInv /\ [Next]_vars => IInv'
<1> SUFFICES ASSUME IInv, [Next]_vars
             PROVE  IInv'
  OBVIOUS
<1>1. CASE Create
  BY <1>1, CreateInv
<1>2. CASE \E u \in Closings : CloseTicket(u)
  BY <1>2, CloseTicketInv
<1>3. CASE \E m \in Later : SendCheck(m)
  BY <1>3, SendCheckInv
<1>4. CASE \E u \in Updates : Deliver(u)
  BY <1>4, DeliverInv
<1>5. ASSUME NEW c \in calls, Step(c) \/ TimeOut(c) \/ Refuse(c)
      PROVE  IInv'
  <2>1. CASE SendStore(c)
    BY <2>1, SendStoreInv
  <2>2. CASE Serve(c)
    BY <2>2, OpenFindInv, OpenCreateInv, OpenStoreInv, SendFindInv, SendCreateInv, PostInv,
       CloseFindInv, TakeFindInv, AnswerFindInv, RecordEventInv DEF Serve
  <2>3. CASE Return(c)
    BY <2>3, ReturnInv
  <2>4. CASE TimeOut(c)
    BY <2>4, TimeOutInv
  <2>5. CASE Refuse(c)
    BY <2>5, RefuseInv
  <2> QED BY <1>5, <2>1, <2>2, <2>3, <2>4, <2>5 DEF Step
<1>6. ASSUME NEW s \in Syncs, Run(s) \/ Break(s)
      PROVE  IInv'
  BY <1>6, StartInv, CallNextInv, PullInv, AcceptInv, InsertInv, MarkInv, AcknowledgeInv,
     BreakInv DEF Run
<1>7. CASE ApiCrash \/ RelayCrash
  BY <1>7, ApiCrashInv, RelayCrashInv
<1>8. CASE Crowd \/ UNCHANGED vars
  BY <1>8, StutterInv
<1> QED BY <1>1, <1>2, <1>3, <1>4, <1>5, <1>6, <1>7, <1>8 DEF Next

\* The two databases, the requests and the runs of syncRelay keep their shape.
THEOREM TypeCorrect == Spec => []TypeOK
<1>1. IInv => TypeOK
  BY DEF IInv
<1> QED BY InitInv, Inductive, <1>1, PTL DEF Spec

\* However often sendMessage is retried, timed out or run twice at once, and
\* whichever side crashes, a message after the first is shown to the volunteers
\* at most once.
THEOREM PostedAtMostOnceCorrect == Spec => []PostedAtMostOnce
<1>1. IInv => PostedAtMostOnce
  BY DEF IInv
<1> QED BY InitInv, Inductive, <1>1, PTL DEF Spec

\* A message after the first that the installation marks SENT is stored by the
\* relay: no answer of message() is taken for another.
THEOREM SentIsStoredCorrect == Spec => []SentIsStored
<1>1. IInv => SentIsStored
  BY DEF IInv
<1> QED BY InitInv, Inductive, <1>1, PTL DEF Spec

\* Whatever overlaps or fails, syncRelay acknowledges no answer that it could
\* have stored and has not.
THEOREM AcknowledgedIsReceivedCorrect == Spec => []AcknowledgedIsReceived
<1>1. IInv => AcknowledgedIsReceived
  BY DEF IInv
<1> QED BY InitInv, Inductive, <1>1, PTL DEF Spec
===============================================================================
