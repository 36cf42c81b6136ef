------------------------ MODULE SupportConversationProofs ------------------------
(***************************************************************************)
(* The two sides of a ticket implement SupportConversation, for any number *)
(* of messages, closings, runs of syncRelay, updates of Telegram and       *)
(* failures.                                                               *)
(***************************************************************************)
EXTENDS SupportRelayProofs

(***************************************************************************)
(* The invariant: every request, every call a run of syncRelay has left    *)
(* and every state of the two tickets has its cause on the other side, or  *)
(* in what somebody did.                                                   *)
(***************************************************************************)

SomebodyClosed == used \intersect (Closes \union Closings) # {}

\* What a request relies on.
Sound(c) ==
  /\ c.kind \in {"open", "send"} /\ c.at # "checked" => delivery[c.item] # "NONE"
  /\ \/ c.at \in {"post", "store", "ok", "learned", "event"}
     \/ c.kind \in {"take", "answer"}
     \/ c.kind = "send" /\ c.at = "create"
     => topic # "NONE"
  /\ c.kind \in {"take", "answer"} => c.item \in used
  /\ c.kind = "close" => SomebodyClosed

\* What a call a run has left relies on.
Due(t) == IF t.kind = "close" THEN SomebodyClosed ELSE delivery[t.item] # "NONE"

Caused(s) ==
  /\ \A t \in ToSet(sync[s].todo) : Due(t)
  /\ sync[s].todo # <<>> => ticket # "NONE"
  /\ sync[s].pc \in {"insert", "mark"} => known

Sides ==
  /\ known \/ posted[First] > 0 => topic # "NONE"
  /\ ticket = "CLOSED" \/ Closed \in ToSet(events) => SomebodyClosed
  /\ ticket # "NONE" \/ topic # "NONE" \/ calls # {} => delivery[First] # "NONE"
  /\ delivery[First] # "NONE" => ticket # "NONE"

CInv ==
  /\ Sides
  /\ \A c \in calls : Sound(c)
  /\ \A s \in Syncs : Caused(s)

\* What no step takes back.
Grows ==
  /\ ticket # "NONE" => ticket' # "NONE"
  /\ topic # "NONE" => topic' # "NONE"
  /\ known => known'
  /\ \A m \in Messages : delivery[m] # "NONE" => delivery'[m] # "NONE"
  /\ used \subseteq used'

-------------------------------------------------------------------------------
LEMMA CallTyped ==
  ASSUME IInv, NEW c \in calls
  PROVE  /\ c \in Call /\ Allowed(c.kind, c.at) /\ Asks(c.kind, c.item)
         /\ c.kind \in {"open", "send"} => c.item \in Messages
         /\ delivery \in [Messages -> {"NONE", "PENDING", "SENT", "FAILED"}]
         /\ posted \in [Messages -> Nat]
BY DEF IInv, TypeOK, CallsFit, Asks, Messages

LEMMA StepGrows ==
  ASSUME IInv, [Next]_vars
  PROVE  Grows
<1> USE DEF Grows, local, remote
<1>1. delivery \in [Messages -> {"NONE", "PENDING", "SENT", "FAILED"}]
  BY DEF IInv, TypeOK
<1>2. CASE Create
  BY <1>1, <1>2 DEF Create
<1>3. CASE \E u \in Closings : CloseTicket(u)
  BY <1>3 DEF CloseTicket
<1>4. CASE \E m \in Later : SendCheck(m)
  BY <1>4 DEF SendCheck
<1>5. CASE \E u \in Updates : Deliver(u)
  BY <1>5 DEF Deliver
<1>6. ASSUME NEW c \in calls, Step(c) \/ TimeOut(c) \/ Refuse(c)
      PROVE  Grows
  <2>1. CASE SendStore(c)
    BY <1>1, <2>1 DEF SendStore
  <2>2. CASE Serve(c)
    <3>1. UNCHANGED <<ticket, known, delivery, used>> /\ (topic # "NONE" => topic' # "NONE")
      BY <2>2 DEF Serve, OpenFind, OpenCreate, OpenStore, SendFind, SendCreate, Post,
                  CloseFind, TakeFind, AnswerFind, RecordEvent
    <3> QED BY <3>1
  <2>3. ASSUME Return(c) \/ TimeOut(c)
        PROVE  Grows
    <3>1. UNCHANGED <<ticket, topic, used>>
      BY <2>3 DEF Return, TimeOut
    <3>3. known' = TRUE \/ UNCHANGED known
      BY <2>3 DEF Return, TimeOut
    <3>2. \/ UNCHANGED delivery
          \/ \E st \in {"FAILED", "SENT"} : delivery' = [delivery EXCEPT ![c.item] = st]
      BY <2>3 DEF Return, TimeOut, Fails
    <3> QED BY <1>1, <3>1, <3>2, <3>3
  <2>4. CASE Refuse(c)
    BY <2>4 DEF Refuse
  <2> QED BY <1>6, <2>1, <2>2, <2>3, <2>4 DEF Step
<1>7. ASSUME NEW s \in Syncs, Run(s) \/ Break(s)
      PROVE  Grows
  <2>1. UNCHANGED <<topic, known, delivery, used>> /\ (ticket # "NONE" => ticket' # "NONE")
    BY <1>7 DEF Run, Start, CallNext, Pull, Accept, Insert, Mark, Acknowledge, Break
  <2> QED BY <2>1
<1>8. CASE Crowd \/ ApiCrash \/ RelayCrash \/ UNCHANGED vars
  BY <1>8 DEF Crowd, ApiCrash, RelayCrash, vars
<1> QED BY <1>2, <1>3, <1>4, <1>5, <1>6, <1>7, <1>8 DEF Next

\* What a request relied on is still there.
LEMMA SoundStays ==
  ASSUME IInv, CInv, Grows, NEW c \in calls
  PROVE  Sound(c)'
<1>1. Sound(c)
  BY DEF CInv
<1>2. c.kind \in {"open", "send"} => c.item \in Messages
  BY CallTyped
<1> QED BY <1>1, <1>2 DEF Sound, Grows, SomebodyClosed

\* Requests that are made, or go on, with what they rely on.
LEMMA CallsSound ==
  ASSUME IInv, CInv, Grows, NEW e, calls' \subseteq calls \union {e}, Sound(e)'
  PROVE  \A d \in calls' : Sound(d)'
BY SoundStays

LEMMA MovedSound ==
  ASSUME IInv, CInv, Grows, NEW c \in calls, NEW at \in Ats, Goes(c, at) \/ Ends(c),
         c.at = "checked" => delivery'[c.item] # "NONE",
         \/ at \in {"post", "store", "ok", "learned", "event"}
         \/ c.kind = "send" /\ at = "create"
         => topic' # "NONE"
  PROVE  \A d \in calls' : Sound(d)'
<1> DEFINE e == [c EXCEPT !.at = at]
<1>1. c \in Call
  BY CallTyped
<1>2. e.kind = c.kind /\ e.item = c.item /\ e.at = at
  BY <1>1, MovedCall
<1>3. calls' \subseteq calls \union {e}
  BY DEF Goes, Ends
<1> HIDE DEF e
<1>4. Sound(c)' /\ (c.kind \in {"open", "send"} => delivery'[c.item] # "NONE")
  <2>1. Sound(c)'
    BY SoundStays
  <2> QED BY <2>1 DEF Sound
<1>5. Sound(e)'
  BY <1>2, <1>4 DEF Sound
<1> QED BY <1>3, <1>5, CallsSound

\* Runs of syncRelay that stay, or have fewer calls left.
LEMMA RunsCaused ==
  ASSUME IInv, CInv, Grows,
         \A s \in Syncs :
           /\ ToSet(sync'[s].todo) \subseteq ToSet(sync[s].todo)
           /\ sync'[s].todo # <<>> => sync[s].todo # <<>>
           /\ sync'[s].pc \in {"insert", "mark"} => known \/ sync[s].pc \in {"insert", "mark"}
  PROVE  \A s \in Syncs : Caused(s)'
<1> SUFFICES ASSUME NEW s \in Syncs PROVE Caused(s)'
  OBVIOUS
<1>1. Caused(s) /\ sync[s] \in Sync
  BY DEF CInv, IInv, TypeOK
<1>2. ASSUME NEW t \in ToSet(sync[s].todo)
      PROVE  Due(t)'
  <2>1. t \in Todo /\ Due(t)
    BY <1>1 DEF Caused, Sync, ToSet
  <2>2. t.kind # "close" => t.item \in Messages
    BY <2>1 DEF Todo, Messages
  <2> QED BY <2>1, <2>2 DEF Due, Grows, SomebodyClosed
<1> QED BY <1>1, <1>2 DEF Caused, Grows

LEMMA SidesStay ==
  ASSUME IInv, CInv, Grows,
         known' => topic' # "NONE",
         posted'[First] > 0 => posted[First] > 0 \/ topic' # "NONE",
         ticket' = "CLOSED" => ticket = "CLOSED" \/ SomebodyClosed',
         Closed \in ToSet(events') => Closed \in ToSet(events) \/ SomebodyClosed',
         ticket' # "NONE" \/ topic' # "NONE" \/ calls' # {} =>
           ticket # "NONE" \/ topic # "NONE" \/ calls # {} \/ delivery'[First] # "NONE",
         calls # {} \/ ticket' # "NONE" \/ UNCHANGED delivery
  PROVE  Sides'
BY DEF CInv, Sides, Grows, SomebodyClosed, Messages

-------------------------------------------------------------------------------
(* The user and Telegram *)

LEMMA CreateCaused ==
  ASSUME IInv, CInv, Grows, Create
  PROVE  CInv'
<1> USE DEF Create, remote
<1>1. PICK e : /\ e.kind = "open" /\ e.item = First /\ e.at = "arrived"
               /\ calls' = calls \union {e}
  BY DEF Request
<1>2. calls' = calls \union {e} /\ delivery'[First] = "PENDING"
  BY <1>1 DEF IInv, TypeOK, Messages
<1>3. Sound(e)'
  BY <1>1, <1>2 DEF Sound
<1>4. \A d \in calls' : Sound(d)'
  BY <1>2, <1>3, CallsSound
<1>5. \A s \in Syncs : Caused(s)'
  BY RunsCaused
<1>6. known => topic # "NONE"
  BY DEF CInv, Sides
<1>7. Sides'
  BY <1>2, <1>6, SidesStay
<1> QED BY <1>4, <1>5, <1>7 DEF CInv

LEMMA SendCheckCaused ==
  ASSUME IInv, CInv, Grows, NEW m \in Later, SendCheck(m)
  PROVE  CInv'
<1> USE DEF SendCheck, local, remote
<1>1. PICK e : e.kind = "send" /\ e.at = "checked" /\ calls' = calls \union {e}
  BY DEF Request
<1>2. Sound(e)'
  BY <1>1 DEF Sound
<1>3. \A d \in calls' : Sound(d)'
  BY <1>1, <1>2, CallsSound
<1>4. \A s \in Syncs : Caused(s)'
  BY RunsCaused
<1>5. known => topic # "NONE"
  BY DEF CInv, Sides
<1>6. Sides'
  BY <1>5, SidesStay
<1> QED BY <1>3, <1>4, <1>6 DEF CInv

LEMMA CloseTicketCaused ==
  ASSUME IInv, CInv, Grows, NEW u \in Closings, CloseTicket(u)
  PROVE  CInv'
<1> USE DEF CloseTicket, remote
<1>1. PICK e : e.kind = "close" /\ e.at = "arrived" /\ calls' = calls \union {e}
  BY DEF Request
<1>2. SomebodyClosed'
  BY DEF SomebodyClosed
<1>3. Sound(e)'
  BY <1>1, <1>2 DEF Sound
<1>4. \A d \in calls' : Sound(d)'
  BY <1>1, <1>3, CallsSound
<1>5. \A s \in Syncs : Caused(s)'
  BY RunsCaused
<1>6. known => topic # "NONE"
  BY DEF CInv, Sides
<1>7. Sides'
  BY <1>2, <1>6, SidesStay
<1> QED BY <1>4, <1>5, <1>7 DEF CInv

LEMMA DeliverCaused ==
  ASSUME IInv, CInv, Grows, NEW u \in Updates, Deliver(u)
  PROVE  CInv'
<1> DEFINE kind == IF u \in Takes THEN "take" ELSE IF u \in Closes THEN "close" ELSE "answer"
<1>2. PICK e : /\ e.kind = kind /\ e.item = u /\ e.at = "arrived"
               /\ calls' = calls \union {e}
  <2> DEFINE q == [Request(kind, u, "telegram", "arrived") EXCEPT !.addressed = TRUE]
  <2>1. calls' = calls \union {q}
    BY DEF Deliver
  <2>2. q.kind = kind /\ q.item = u /\ q.at = "arrived"
    BY DEF Request
  <2> HIDE DEF q
  <2> QED BY <2>1, <2>2
<1>3. topic # "NONE" /\ UNCHANGED topic
  BY DEF Deliver, CInv, Sides, remote
<1>4. u \in used'
  BY DEF Deliver
<1>5. kind = "close" => SomebodyClosed'
  BY <1>4 DEF SomebodyClosed
<1>6. kind \in {"take", "close", "answer"}
  OBVIOUS
<1> HIDE DEF kind
<1>7. Sound(e)'
  BY <1>2, <1>3, <1>4, <1>5, <1>6 DEF Sound
<1>8. \A d \in calls' : Sound(d)'
  BY <1>2, <1>7, CallsSound
<1>9. \A s \in Syncs : Caused(s)'
  BY RunsCaused DEF Deliver
<1>10. Sides'
  BY <1>3, SidesStay DEF Deliver, local, remote
<1> QED BY <1>8, <1>9, <1>10 DEF CInv

-------------------------------------------------------------------------------
(* Requests *)

\* What a request under way relies on.
LEMMA IsSound ==
  ASSUME CInv, NEW c \in calls
  PROVE  Sound(c) /\ Sides
BY DEF CInv

\* A request that goes on while nothing is learned, shown or recorded.
LEMMA QuietMoveCaused ==
  ASSUME IInv, CInv, Grows, NEW c \in calls, NEW at \in Ats, Goes(c, at) \/ Ends(c),
         c.at = "checked" => delivery'[c.item] # "NONE",
         \/ at \in {"post", "store", "ok", "learned", "event"}
         \/ c.kind = "send" /\ at = "create"
         => topic' # "NONE",
         UNCHANGED <<ticket, known, posted, events, sync>>
  PROVE  CInv'
<1>1. \A d \in calls' : Sound(d)'
  BY MovedSound
<1>2. \A s \in Syncs : Caused(s)'
  BY RunsCaused
<1>3. known => topic' # "NONE"
  BY DEF CInv, Sides, Grows
<1>4. Sides'
  BY <1>3, SidesStay
<1> QED BY <1>1, <1>2, <1>4 DEF CInv

LEMMA ServeCaused ==
  ASSUME IInv, CInv, Grows, NEW c \in calls, Serve(c)
  PROVE  CInv'
<1> USE DEF local, remote
<1>1. Sound(c) /\ Sides
  BY IsSound
<1>2. CASE OpenFind(c)
  <2>1. PICK at \in {"create", "ok"} :
          (Goes(c, at) \/ Ends(c)) /\ (at = "ok" => topic # "NONE")
    BY <1>2, AnsweredMoves DEF OpenFind
  <2> QED BY <1>2, <2>1, QuietMoveCaused DEF OpenFind, Ats, AtRelay
<1>3. CASE OpenCreate(c)
  <2>1. PICK at \in {"post", "error"} :
          (Goes(c, at) \/ Ends(c)) /\ (at = "post" => topic' # "NONE")
    BY <1>3, AnsweredMoves DEF OpenCreate
  <2> QED BY <1>3, <2>1, QuietMoveCaused DEF OpenCreate, Ats, AtRelay
<1>4. CASE OpenStore(c)
  <2>1. Goes(c, "ok") \/ Ends(c)
    BY <1>4, AnsweredMoves DEF OpenStore
  <2> QED BY <1>1, <1>4, <2>1, QuietMoveCaused DEF OpenStore, Ats, Sound
<1>5. CASE SendFind(c)
  <2>1. PICK at \in {"error", "ok", "create"} :
          (Goes(c, at) \/ Ends(c)) /\ (at # "error" => topic # "NONE")
    BY <1>5, AnsweredMoves DEF SendFind
  <2> QED BY <1>5, <2>1, QuietMoveCaused DEF SendFind, Ats, AtRelay
<1>6. CASE SendCreate(c)
  <2>1. PICK at \in {"error", "post"} : Goes(c, at) \/ Ends(c)
    BY <1>6, AnsweredMoves DEF SendCreate
  <2> QED BY <1>1, <1>6, <2>1, QuietMoveCaused DEF SendCreate, Ats, AtRelay, Sound
<1>7. CASE CloseFind(c)
  <2>1. PICK at \in {"error", "ok", "event"} :
          (Goes(c, at) \/ Ends(c)) /\ (at # "error" => topic' # "NONE")
    BY <1>7, AnsweredMoves DEF CloseFind
  <2> QED BY <1>7, <2>1, QuietMoveCaused DEF CloseFind, Ats, AtRelay
<1>8. CASE TakeFind(c)
  BY <1>8, QuietMoveCaused DEF TakeFind, Ats, AtRelay
<1>9. CASE AnswerFind(c)
  BY <1>1, <1>9, QuietMoveCaused DEF AnswerFind, Ats, AtRelay, Sound
<1>10. CASE Post(c)
  <2>1. PICK at \in {"store", "ok", "error"} : Goes(c, at) \/ Ends(c)
    BY <1>10, AnsweredMoves DEF Post
  <2>2. topic # "NONE" /\ UNCHANGED <<ticket, known, topic, events, sync>> /\ c.at # "checked"
    BY <1>1, <1>10 DEF Post, Sound
  <2>3. \A d \in calls' : Sound(d)'
    BY <2>1, <2>2, MovedSound DEF Ats, AtRelay
  <2>4. \A s \in Syncs : Caused(s)'
    BY <2>2, RunsCaused
  <2>5. Sides'
    BY <2>2, SidesStay
  <2> QED BY <2>3, <2>4, <2>5 DEF CInv
<1>11. CASE RecordEvent(c)
  <2>1. Goes(c, "ok") \/ Ends(c)
    BY <1>11, AnsweredMoves DEF RecordEvent
  <2>2. topic # "NONE" /\ UNCHANGED <<ticket, known, topic, posted, used, sync>> /\ c.at # "checked"
    BY <1>1, <1>11 DEF RecordEvent, Sound
  <2>3. Closed \in ToSet(events') => Closed \in ToSet(events) \/ SomebodyClosed'
    <3>1. CASE UNCHANGED events
      BY <3>1
    <3>2. CASE events' = Append(events, Key(c))
      <4>1. c \in Call /\ Allowed(c.kind, c.at) /\ Asks(c.kind, c.item)
        BY CallTyped
      <4>2. events \in Seq(Keys) /\ Key(c) \in Keys
        BY <1>11, <4>1 DEF IInv, TypeOK, RecordEvent, Allowed, Asks, Key, Keys, Call
      <4>3. ToSet(events') = ToSet(events) \union {Key(c)}
        <5>1. ToSet(Append(events, Key(c))) = ToSet(events) \union {Key(c)}
          BY <4>2, AppendedSet
        <5> QED BY <3>2, <5>1
      <4>4. Key(c) = Closed => c.kind = "close"
        BY <1>11, <4>1, NamesAssumption DEF RecordEvent, Allowed, Asks, Key
      <4> QED BY <1>1, <2>2, <4>3, <4>4 DEF Sound, SomebodyClosed
    <3> QED BY <1>11, <3>1, <3>2 DEF RecordEvent
  <2>4. \A d \in calls' : Sound(d)'
    BY <2>1, <2>2, MovedSound DEF Ats
  <2>5. \A s \in Syncs : Caused(s)'
    BY <2>2, RunsCaused
  <2>6. Sides'
    BY <2>2, <2>3, SidesStay
  <2> QED BY <2>4, <2>5, <2>6 DEF CInv
<1> QED BY <1>2, <1>3, <1>4, <1>5, <1>6, <1>7, <1>8, <1>9, <1>10, <1>11 DEF Serve

LEMMA TailSet ==
  ASSUME NEW S, NEW q \in Seq(S), q # <<>>
  PROVE  ToSet(Tail(q)) \subseteq ToSet(q)
<1> DEFINE r == Tail(q)
<1>1. Len(q) \in Nat \ {0} /\ DOMAIN q = 1 .. Len(q)
  OBVIOUS
<1>2. DOMAIN r = 1 .. (Len(q) - 1) /\ \A i \in 1 .. (Len(q) - 1) : r[i] = q[i + 1]
  BY <1>1
<1> HIDE DEF r
<1> QED BY <1>1, <1>2 DEF ToSet, r

LEMMA ProceedsCaused ==
  ASSUME IInv, CInv, Grows, NEW c \in calls, NEW on \in BOOLEAN, Proceeds(c, on)
  PROVE  \A s \in Syncs : Caused(s)'
<1>1. ASSUME NEW s \in Syncs, s # c.by
      PROVE  sync'[s] = sync[s]
  BY <1>1 DEF Proceeds
<1>2. ASSUME c.by \in Syncs
      PROVE  /\ ToSet(sync'[c.by].todo) \subseteq ToSet(sync[c.by].todo)
             /\ sync[c.by].todo # <<>>
             /\ sync'[c.by].pc \notin {"insert", "mark"}
  <2> DEFINE r == sync[c.by]
  <2>1. r \in Sync /\ r.pc = "calls" /\ r.todo # <<>>
    BY <1>2 DEF IInv, TypeOK, Awaited
  <2>2. ToSet(Tail(r.todo)) \subseteq ToSet(r.todo) /\ ToSet(<<>>) = {}
    BY <2>1, TailSet DEF Sync, ToSet
  <2>3. sync'[c.by] = IF on THEN [r EXCEPT !.todo = Tail(@)]
                      ELSE [r EXCEPT !.todo = <<>>, !.pc = "pull"]
    BY <1>2 DEF Proceeds
  <2> HIDE DEF r
  <2>4. CASE on
    <3>1. sync'[c.by].todo = Tail(r.todo) /\ sync'[c.by].pc = r.pc
      BY <2>1, <2>3, <2>4 DEF Sync
    <3> QED BY <2>1, <2>2, <3>1 DEF r
  <2>5. CASE ~on
    <3>1. sync'[c.by].todo = <<>> /\ sync'[c.by].pc = "pull"
      BY <2>1, <2>3, <2>5 DEF Sync
    <3> QED BY <2>1, <2>2, <3>1 DEF r
  <2> QED BY <2>4, <2>5
<1> QED BY <1>1, <1>2, RunsCaused

LEMMA SendStoreCaused ==
  ASSUME IInv, CInv, Grows, NEW c \in calls, SendStore(c)
  PROVE  CInv'
<1>1. c.item \in Messages /\ c.kind = "send" /\ delivery'[c.item] = "PENDING"
  BY CallTyped DEF SendStore, Allowed
<1> QED BY <1>1, QuietMoveCaused DEF SendStore, Ats, AtRelay, remote

\* What fails was created.
LEMMA FailsCaused ==
  ASSUME IInv, CInv, Grows, NEW c \in calls, Fails(c),
         UNCHANGED <<ticket, topic, posted, events>>, known' => topic # "NONE",
         \A d \in calls' : Sound(d)', calls # {}
  PROVE  CInv'
<1>1. \A s \in Syncs : Caused(s)'
  BY ProceedsCaused DEF Fails
<1>2. Sides'
  BY SidesStay
<1> QED BY <1>1, <1>2 DEF CInv

LEMMA ReturnCaused ==
  ASSUME IInv, CInv, Grows, NEW c \in calls, Return(c)
  PROVE  CInv'
<1> USE DEF remote
<1>1. UNCHANGED <<ticket, received, topic, posted, events, used>> /\ Sound(c) /\ Sides
  BY IsSound DEF Return
<1>2. known => topic # "NONE"
  BY <1>1 DEF Sides
<1>3. CASE c.at = "error" /\ Ends(c) /\ Fails(c) /\ UNCHANGED known
  <2>1. \A d \in calls' : Sound(d)'
    BY <1>3, MovedSound DEF Ats
  <2> QED BY <1>1, <1>2, <1>3, <2>1, FailsCaused
<1>4. CASE c.at = "ok" /\ c.kind = "open" /\ Goes(c, "learned") /\ UNCHANGED sync
  <2>1. topic # "NONE"
    BY <1>1, <1>4 DEF Sound
  <2>2. \A d \in calls' : Sound(d)'
    BY <1>1, <1>4, <2>1, MovedSound DEF Ats
  <2>3. \A s \in Syncs : Caused(s)'
    BY <1>4, RunsCaused
  <2>4. Sides'
    BY <1>1, <2>1, SidesStay
  <2> QED BY <2>2, <2>3, <2>4 DEF CInv
<1>5. CASE c.at \in {"learned", "ok"} /\ Ends(c) /\ Proceeds(c, TRUE) /\ UNCHANGED known
  <2>1. \A d \in calls' : Sound(d)'
    BY <1>5, MovedSound DEF Ats
  <2>2. \A s \in Syncs : Caused(s)'
    BY <1>5, ProceedsCaused
  <2>3. Sides'
    BY <1>1, <1>2, <1>5, SidesStay
  <2> QED BY <2>1, <2>2, <2>3 DEF CInv
<1> QED BY <1>3, <1>4, <1>5 DEF Return

LEMMA TimeOutCaused ==
  ASSUME IInv, CInv, Grows, NEW c \in calls, TimeOut(c)
  PROVE  CInv'
<1> DEFINE e == [c EXCEPT !.by = "nobody"]
<1>1. e.kind = c.kind /\ e.item = c.item /\ e.at = c.at /\ calls' \subseteq calls \union {e}
  BY CallTyped, LeftCall DEF TimeOut
<1> HIDE DEF e
<1>2. Sound(e)'
  <2>1. Sound(c)'
    BY SoundStays
  <2> QED BY <1>1, <2>1 DEF Sound
<1>3. \A d \in calls' : Sound(d)'
  BY <1>1, <1>2, CallsSound
<1>4. known' => topic # "NONE"
  BY DEF TimeOut, CInv, Sides
<1> QED BY <1>3, <1>4, FailsCaused DEF TimeOut, remote

LEMMA RefuseCaused ==
  ASSUME IInv, CInv, Grows, NEW c \in calls, Refuse(c)
  PROVE  CInv'
<1>1. Goes(c, "error") \/ Ends(c)
  BY AnsweredMoves DEF Refuse
<1> QED BY <1>1, QuietMoveCaused DEF Refuse, Ats, local, remote

-------------------------------------------------------------------------------
(* Crashes *)

LEMMA CrashCaused ==
  ASSUME IInv, CInv, Grows, ApiCrash \/ RelayCrash
  PROVE  CInv'
<1> USE DEF local, remote
<1>1. ASSUME NEW d \in calls'
      PROVE  \E c \in calls : /\ d.kind = c.kind /\ d.item = c.item
                              /\ d.at = c.at \/ (c.at \in AtRelay /\ d.at \in {"arrived", "error"})
  <2>1. CASE d \in calls
    BY <2>1
  <2>2. CASE \E c \in calls : d = [c EXCEPT !.by = "nobody"]
    BY <2>2, CallTyped, LeftCall
  <2>3. ASSUME NEW c \in calls, NEW at \in {"arrived", "error"}, c.at \in AtRelay,
               d = [c EXCEPT !.at = at]
        PROVE  d.kind = c.kind /\ d.item = c.item /\ d.at = at
    BY <2>3, CallTyped, MovedCall DEF Ats, AtRelay
  <2>4. CASE \E c \in calls : /\ c.at \in AtRelay
                              /\ d = [c EXCEPT !.at = IF c.by = "telegram" THEN "arrived" ELSE "error"]
    BY <2>3, <2>4
  <2>5. CASE ApiCrash
    BY <2>1, <2>2, <2>5 DEF ApiCrash
  <2>6. CASE RelayCrash
    BY <2>1, <2>4, <2>6 DEF RelayCrash
  <2> QED BY <2>5, <2>6
<1>2. ASSUME NEW d \in calls'
      PROVE  Sound(d)'
  <2>1. PICK c \in calls : /\ d.kind = c.kind /\ d.item = c.item
                           /\ d.at = c.at \/ (c.at \in AtRelay /\ d.at \in {"arrived", "error"})
    BY <1>1
  <2>2. Sound(c)'
    BY SoundStays
  <2> QED BY <2>1, <2>2 DEF Sound, AtRelay
<1>3. \A s \in Syncs : Caused(s)'
  <2>1. CASE ApiCrash
    BY <2>1 DEF ApiCrash, Caused, Resting, ToSet
  <2>2. CASE RelayCrash
    BY <2>2, RunsCaused DEF RelayCrash
  <2> QED BY <2>1, <2>2
<1>4. calls = {} => calls' = {}
  BY <1>1
<1>5. Sides'
  <2>1. UNCHANGED <<ticket, known, topic, posted, events, delivery>>
    BY DEF ApiCrash, RelayCrash
  <2>2. known => topic # "NONE"
    BY DEF CInv, Sides
  <2> QED BY <1>4, <2>1, <2>2, SidesStay
<1> QED BY <1>2, <1>3, <1>5 DEF CInv

-------------------------------------------------------------------------------
(* syncRelay *)

\* What retryOutbound is going to call was created, or closed by somebody.
LEMMA ToCallDue ==
  ASSUME IInv, Sides, ticket # "NONE"
  PROVE  \A t \in ToSet(ToCall) : Due(t)
<1>1. IsFiniteSet(Unsent \ {First})
  <2>1. (Unsent \ {First}) \in SUBSET Later
    BY DEF Unsent, Messages
  <2> QED BY <2>1, LaterAssumption, FS_Subset
<1> DEFINE Others == SetToSeq(Unsent \ {First})
           Sends(q) == [i \in DOMAIN q |-> [kind |-> "send", item |-> q[i]]]
<1>2. Others \in Seq(Unsent)
  BY <1>1, Enumerated
<1> HIDE DEF Others
<1>3. First \in Unsent => <<First>> \o Others \in Seq(Unsent)
  BY <1>2
<1>4. ASSUME NEW q \in Seq(Unsent), NEW t \in ToSet(Sends(q))
      PROVE  Due(t)
  <2>1. PICK i \in DOMAIN q : t = [kind |-> "send", item |-> q[i]]
    BY <1>4 DEF ToSet
  <2>2. q[i] \in Unsent
    BY <2>1
  <2> QED BY <2>1, <2>2 DEF Due, Unsent
<1>5. CASE ticket = "CLOSED"
  <2>1. ASSUME NEW t \in ToSet(ToCall) PROVE t.kind = "close"
    <3>1. ToCall = <<[kind |-> "close", item |-> Closed]>> \/ ToCall = <<>>
      BY <1>5 DEF ToCall
    <3> QED BY <2>1, <3>1 DEF ToSet
  <2>2. SomebodyClosed
    BY <1>5 DEF Sides
  <2> QED BY <2>1, <2>2 DEF Due
<1>6. CASE ticket # "CLOSED" /\ ~known
  <2>1. ToCall = <<[kind |-> "open", item |-> First]>>
    BY <1>6 DEF ToCall
  <2>2. ASSUME NEW t \in ToSet(ToCall) PROVE t.kind = "open" /\ t.item = First
    BY <2>1, <2>2 DEF ToSet
  <2> QED BY <2>2 DEF Due, Sides
<1>7. CASE ticket # "CLOSED" /\ known
  <2>1. ToCall = Sends(IF First \in Unsent THEN <<First>> \o Others ELSE Others)
    BY <1>7 DEF ToCall, Others
  <2> QED BY <1>2, <1>3, <1>4, <2>1
<1> QED BY <1>5, <1>6, <1>7

\* A run that goes on with what it has pulled, or starts: only the run is left
\* to look at.
LEMMA RunCaused ==
  ASSUME IInv, CInv, Grows, NEW s \in Syncs,
         DOMAIN sync' = Syncs, \A t \in Syncs \ {s} : sync'[t] = sync[t],
         UNCHANGED <<known, delivery, topic, posted, events, calls>>,
         ticket' = "CLOSED" => ticket = "CLOSED" \/ SomebodyClosed',
         ticket' # "NONE" => ticket # "NONE" \/ topic # "NONE" \/ calls # {},
         Caused(s)'
  PROVE  CInv'
<1>1. \A d \in calls' : Sound(d)'
  BY SoundStays
<1>2. ASSUME NEW t \in Syncs
      PROVE  Caused(t)'
  <2>1. CASE t = s
    BY <2>1
  <2>2. CASE t # s
    <3>1. Caused(t) /\ sync[t] \in Sync
      BY DEF CInv, IInv, TypeOK
    <3>2. ASSUME NEW d \in ToSet(sync[t].todo)
          PROVE  Due(d)'
      <4>1. d \in Todo /\ Due(d)
        BY <3>1 DEF Caused, Sync, ToSet
      <4>2. d.kind # "close" => d.item \in Messages
        BY <4>1 DEF Todo, Messages
      <4> QED BY <4>1, <4>2 DEF Due, Grows, SomebodyClosed
    <3> QED BY <2>2, <3>1, <3>2 DEF Caused, Grows
  <2> QED BY <2>1, <2>2
<1>3. known => topic # "NONE"
  BY DEF CInv, Sides
<1>4. Sides'
  BY <1>3, SidesStay
<1> QED BY <1>1, <1>2, <1>4 DEF CInv

\* What is known of a run.
LEMMA RunFacts ==
  ASSUME IInv, CInv, NEW s \in Syncs
  PROVE  /\ sync \in [Syncs -> Sync] /\ sync[s] \in Sync /\ Caused(s) /\ Sides
         /\ sync[s].pc \in {"insert", "mark", "accept", "ack"} =>
              ToSet(sync[s].batch) \subseteq ToSet(events)
         /\ sync[s].pc \in {"insert", "mark"} =>
              /\ sync[s].batch[sync[s].next] \in ToSet(events)
              /\ sync[s].batch[sync[s].next] \in Answers
<1>1. sync \in [Syncs -> Sync] /\ sync[s] \in Sync /\ Caused(s) /\ Sides /\ Pulled(s)
  BY DEF IInv, TypeOK, CInv, Pulling
<1>2. sync[s].batch \in Seq(Keys) /\ sync[s].next \in Nat
  BY <1>1 DEF Sync
<1>3. sync[s].pc \in {"insert", "mark"} =>
        sync[s].batch[sync[s].next] \in ToSet(sync[s].batch)
  BY <1>1, <1>2 DEF Pulled, ToSet
<1> QED BY <1>1, <1>3 DEF Pulled

LEMMA RunStepCaused ==
  ASSUME IInv, CInv, Grows, NEW s \in Syncs, Run(s) \/ Break(s)
  PROVE  CInv'
<1> USE DEF local, remote
<1> DEFINE r == sync[s]
<1>1. /\ sync \in [Syncs -> Sync] /\ r \in Sync /\ Caused(s) /\ Sides
      /\ known => ticket # "NONE" \/ topic # "NONE"
  BY RunFacts DEF Sides
<1>2. CASE Start(s)
  <2>1. ticket # "NONE" /\ UNCHANGED <<ticket, known, topic, posted, events, calls, delivery, used>>
    BY <1>2 DEF Start
  <2>2. sync'[s].pc \notin {"insert", "mark"}
        /\ \A t \in ToSet(sync'[s].todo) : Due(t)
    <3>1. CASE sync' = [sync EXCEPT ![s].pc = "calls",
                                    ![s].todo = IF crowded THEN <<>> ELSE ToCall]
      <4>1. sync'[s].todo \in {<<>>, ToCall} /\ sync'[s].pc = "calls"
        BY <1>1, <3>1 DEF Sync
      <4>2. ToSet(<<>>) = {}
        BY DEF ToSet
      <4> QED BY <1>1, <2>1, <4>1, <4>2, ToCallDue
    <3>2. CASE sync' = [sync EXCEPT ![s].pc = "pull"]
      <4>1. sync'[s].todo = r.todo /\ sync'[s].pc = "pull"
        BY <1>1, <3>2 DEF Sync
      <4> QED BY <1>1, <4>1 DEF Caused
    <3> QED BY <1>2, <3>1, <3>2 DEF Start
  <2>3. Caused(s)'
    BY <2>1, <2>2 DEF Caused, Due, SomebodyClosed
  <2>4. DOMAIN sync' = Syncs /\ \A t \in Syncs \ {s} : sync'[t] = sync[t]
    BY <1>1, <1>2 DEF Start
  <2> QED BY <2>1, <2>3, <2>4, RunCaused
<1>3. CASE CallNext(s)
  <2>1. /\ UNCHANGED <<ticket, known, topic, posted, events, delivery, used>>
        /\ r.pc = "calls" /\ r.todo \in Seq(Todo)
    BY <1>1, <1>3 DEF CallNext, Sync
  <2>2. CASE /\ r.todo # <<>> /\ UNCHANGED sync
             /\ calls' = calls \union
                  {Request(Head(r.todo).kind, Head(r.todo).item, s, "arrived")}
    <3>1. PICK t : t = Head(r.todo)
      OBVIOUS
    <3>2. t \in ToSet(r.todo) /\ t \in Todo
      BY <2>1, <2>2, <3>1 DEF ToSet
    <3>3. PICK e : /\ e.kind = t.kind /\ e.item = t.item /\ e.at = "arrived"
                   /\ calls' = calls \union {e}
      BY <2>2, <3>1 DEF Request
    <3>4. t.kind \in {"open", "send", "close"} /\ Due(t)
      BY <1>1, <3>2 DEF Caused, Todo
    <3>5. Sound(e)'
      BY <2>1, <3>3, <3>4 DEF Sound, Due, SomebodyClosed
    <3>6. \A d \in calls' : Sound(d)'
      BY <3>3, <3>5, CallsSound
    <3>7. \A u \in Syncs : Caused(u)'
      BY <2>1, <2>2, RunsCaused
    <3>8. ticket # "NONE" /\ (known => topic # "NONE")
      BY <1>1, <2>2 DEF Caused, Sides
    <3>9. Sides'
      BY <2>1, <3>8, SidesStay
    <3> QED BY <3>6, <3>7, <3>9 DEF CInv
  <2>3. CASE r.todo = <<>> /\ sync' = [sync EXCEPT ![s].pc = "pull"] /\ UNCHANGED calls
    <3>1. sync'[s].todo = r.todo /\ sync'[s].pc = "pull"
      BY <1>1, <2>3 DEF Sync
    <3>2. Caused(s)'
      BY <2>3, <3>1 DEF Caused, ToSet
    <3>3. DOMAIN sync' = Syncs /\ \A t \in Syncs \ {s} : sync'[t] = sync[t]
      BY <1>1, <2>3
    <3> QED BY <2>1, <2>3, <3>2, <3>3, RunCaused
  <2> QED BY <1>3, <2>2, <2>3 DEF CallNext
<1>4. ASSUME \/ Pull(s) \/ Accept(s) \/ Insert(s) \/ Mark(s) \/ Acknowledge(s) \/ Break(s)
      PROVE  CInv'
  <2>1. /\ UNCHANGED <<known, topic, posted, events, calls, delivery, used>>
        /\ DOMAIN sync' = Syncs /\ \A t \in Syncs \ {s} : sync'[t] = sync[t]
    BY <1>1, <1>4 DEF Pull, Accept, Accepted, Insert, Mark, Acknowledge, Break
  <2>2. /\ sync'[s].todo \in {r.todo, <<>>}
        /\ sync'[s].pc \in {"insert", "mark"} => known
    <3>1. CASE Pull(s)
      BY <1>1, <3>1 DEF Pull, Sync
    <3>2. CASE Accept(s)
      BY <1>1, <3>2 DEF Accept, Accepted, Sync
    <3>3. CASE Insert(s)
      BY <1>1, <3>3 DEF Insert, Caused, Resting, Sync
    <3>4. CASE Mark(s)
      BY <1>1, <3>4 DEF Mark, Accepted, Sync
    <3>5. CASE Acknowledge(s) \/ Break(s)
      BY <1>1, <3>5 DEF Acknowledge, Break, Resting
    <3> QED BY <1>4, <3>1, <3>2, <3>3, <3>4, <3>5
  <2>3. /\ ticket' = "CLOSED" => ticket = "CLOSED" \/ SomebodyClosed
        /\ ticket' # "NONE" => ticket # "NONE" \/ known
    <3>1. CASE Accept(s)
      <4>1. \/ UNCHANGED ticket
            \/ /\ known /\ ticket' \in {"CLOSED", "IN_PROGRESS"}
               /\ ticket' = "CLOSED" => r.batch[r.next] = Closed /\ r.next <= Len(r.batch)
        BY <3>1 DEF Accept
      <4>2. r.next \in Nat /\ r.batch \in Seq(Keys) /\ Pulled(s) /\ r.pc = "accept"
        BY <3>1, RunTyped DEF Accept
      <4>3. r.next <= Len(r.batch) => r.batch[r.next] \in ToSet(events)
        <5>1. r.next >= 1 /\ ToSet(r.batch) \subseteq ToSet(events)
          BY <4>2 DEF Pulled
        <5>2. r.next <= Len(r.batch) => r.batch[r.next] \in ToSet(r.batch)
          BY <4>2, <5>1 DEF ToSet
        <5> QED BY <5>1, <5>2
      <4> QED BY <1>1, <4>1, <4>3 DEF Sides
    <3>2. CASE Mark(s)
      BY <1>1, <3>2 DEF Mark, Caused
    <3>3. CASE UNCHANGED ticket
      BY <3>3
    <3> QED BY <1>4, <3>1, <3>2, <3>3 DEF Pull, Insert, Acknowledge, Break
  <2>4. ToSet(<<>>) = {}
    BY DEF ToSet
  <2>5. Caused(s)'
    <3>1. \A t \in ToSet(sync'[s].todo) : Due(t)
      BY <1>1, <2>2, <2>4 DEF Caused
    <3> QED BY <1>1, <2>1, <2>2, <3>1 DEF Caused, Due, SomebodyClosed, Grows
  <2>6. SomebodyClosed => SomebodyClosed'
    BY <2>1 DEF SomebodyClosed
  <2> HIDE DEF r
  <2> QED BY <1>1, <2>1, <2>3, <2>5, <2>6, RunCaused
<1> QED BY <1>2, <1>3, <1>4 DEF Run

LEMMA InitCaused == Init => CInv
<1> SUFFICES ASSUME Init PROVE CInv
  OBVIOUS
<1> USE DEF Init
<1>1. ToSet(<<>>) = {}
  BY DEF ToSet
<1>2. Sides
  BY <1>1 DEF Sides, Messages
<1>3. \A s \in Syncs : Caused(s)
  BY <1>1 DEF Caused, Resting
<1> QED BY <1>2, <1>3 DEF CInv

LEMMA StepCaused ==
  ASSUME IInv, CInv, [Next]_vars
  PROVE  CInv'
<1>1. Grows
  BY StepGrows
<1>2. CASE Create
  BY <1>1, <1>2, CreateCaused
<1>3. CASE \E u \in Closings : CloseTicket(u)
  BY <1>1, <1>3, CloseTicketCaused
<1>4. CASE \E m \in Later : SendCheck(m)
  BY <1>1, <1>4, SendCheckCaused
<1>5. CASE \E u \in Updates : Deliver(u)
  BY <1>1, <1>5, DeliverCaused
<1>6. CASE \E c \in calls : Step(c) \/ TimeOut(c) \/ Refuse(c)
  BY <1>1, <1>6, SendStoreCaused, ServeCaused, ReturnCaused, TimeOutCaused, RefuseCaused
     DEF Step
<1>7. CASE \E s \in Syncs : Run(s) \/ Break(s)
  BY <1>1, <1>7, RunStepCaused
<1>8. CASE ApiCrash \/ RelayCrash
  BY <1>1, <1>8, CrashCaused
<1>9. CASE Crowd \/ UNCHANGED vars
  <2>1. UNCHANGED <<ticket, known, delivery, topic, posted, events, calls, sync, used>>
    BY <1>9 DEF Crowd, vars, local, remote
  <2> QED BY <2>1 DEF CInv, Sides, Sound, Caused, Due, SomebodyClosed
<1> QED BY <1>2, <1>3, <1>4, <1>5, <1>6, <1>7, <1>8, <1>9 DEF Next

-------------------------------------------------------------------------------
(***************************************************************************)
(* Every step is one of the conversation, or none.                         *)
(***************************************************************************)

Promised == [Conversation!Next]_(Conversation!conversation)

\* What the conversation does not see.
LEMMA Unseen ==
  ASSUME UNCHANGED <<ticket, known, delivery, received, stored, posted, events,
                     delivered, heard, used>>,
         topic' = topic \/ (topic # "NONE" /\ topic' # "NONE")
  PROVE  Promised
<1>1. UNCHANGED (topic # "NONE")
  OBVIOUS
<1> QED BY <1>1 DEF Promised, Conversation!conversation

LEMMA CreatePromised ==
  ASSUME IInv, CInv, Create
  PROVE  Promised
<1> DEFINE kept == {m \in Messages : delivery[m] # "NONE"}
           sent == {m \in Messages : delivery[m] = "SENT"}
<1>1. delivery \in [Messages -> {"NONE", "PENDING", "SENT", "FAILED"}] /\ First \in Messages
  BY DEF IInv, TypeOK, Messages
<1>2. delivery[First] = "NONE"
  BY DEF Create, CInv, Sides
<1>3. kept' = kept \union {First} /\ First \notin kept /\ sent' = sent
  BY <1>1, <1>2 DEF Create
<1> HIDE DEF kept, sent
<1>4. Conversation!Keep(First)
  BY <1>1, <1>3 DEF Conversation!Keep, Create, remote, kept, sent
<1> QED BY <1>4 DEF Promised, Conversation!Next, Conversation!Messages

LEMMA CloseTicketPromised ==
  ASSUME NEW u \in Closings, CloseTicket(u)
  PROVE  Promised
<1>1. Conversation!Close(u)
  BY DEF Conversation!Close, CloseTicket, remote
<1> QED BY <1>1 DEF Promised, Conversation!Next

LEMMA DeliverPromised ==
  ASSUME IInv, CInv, NEW u \in Updates, Deliver(u)
  PROVE  Promised
<1>1. topic # "NONE"
  BY DEF Deliver, CInv, Sides
<1>2. Conversation!Act(u)
  BY <1>1 DEF Conversation!Act, Deliver, local, remote
<1> QED BY <1>2 DEF Promised, Conversation!Next, Updates

-------------------------------------------------------------------------------
(* Requests *)

\* The message is kept, or one that was goes back to PENDING.
LEMMA SendStorePromised ==
  ASSUME IInv, CInv, NEW c \in calls, SendStore(c)
  PROVE  Promised
<1> DEFINE kept == {m \in Messages : delivery[m] # "NONE"}
           sent == {m \in Messages : delivery[m] = "SENT"}
           i == c.item
<1>1. /\ delivery \in [Messages -> {"NONE", "PENDING", "SENT", "FAILED"}]
      /\ i \in Messages /\ First \in Messages
  BY CallTyped DEF SendStore, Allowed, Messages
<1>2. delivery[First] # "NONE"
  BY DEF CInv, Sides
<1>3. kept' = kept \union {i} /\ sent' = sent \ {i} /\ First \in kept
  BY <1>1, <1>2 DEF SendStore
<1>4. i \notin kept => i \notin sent /\ i # First
  BY <1>1, <1>2
<1> HIDE DEF kept, sent, i
<1>5. CASE i \notin kept
  <2>1. Conversation!Keep(i)
    BY <1>3, <1>4, <1>5 DEF Conversation!Keep, SendStore, remote, kept, sent
  <2> QED BY <1>1, <2>1 DEF Promised, Conversation!Next, Conversation!Messages, Messages
<1>6. CASE i \in kept
  <2>1. Conversation!Mark(i)
    BY <1>3, <1>6 DEF Conversation!Mark, SendStore, remote, kept, sent
  <2> QED BY <1>1, <2>1 DEF Promised, Conversation!Next, Conversation!Messages, Messages
<1> QED BY <1>5, <1>6

LEMMA ServePromised ==
  ASSUME IInv, CInv, NEW c \in calls, Serve(c)
  PROVE  Promised
<1> USE DEF local, remote
<1>1. /\ Sound(c) /\ Sides /\ Allowed(c.kind, c.at) /\ Asks(c.kind, c.item)
      /\ c.kind \in {"open", "send"} => c.item \in Messages
  BY IsSound, CallTyped
<1>2. CASE OpenFind(c) \/ SendFind(c) \/ AnswerFind(c)
  BY <1>2, Unseen DEF OpenFind, SendFind, AnswerFind
<1>3. CASE TakeFind(c) \/ CloseFind(c)
  BY <1>1, <1>3, Unseen DEF TakeFind, CloseFind, Sound
<1>4. CASE OpenCreate(c)
  <2>1. c.item = First /\ delivery[First] # "NONE" /\ First \in Messages
    BY <1>1, <1>4 DEF OpenCreate, Sound, Asks, Messages
  <2>2. CASE topic' = "OPEN"
    <3>1. Conversation!Open
      BY <1>4, <2>1, <2>2 DEF Conversation!Open, OpenCreate
    <3> QED BY <3>1 DEF Promised, Conversation!Next
  <2>3. CASE UNCHANGED topic
    BY <1>4, <2>3, Unseen DEF OpenCreate
  <2> QED BY <1>4, <2>2, <2>3 DEF OpenCreate
<1>5. CASE SendCreate(c) \/ OpenStore(c)
  <2>1. c.item \in Messages /\ delivery[c.item] # "NONE" /\ topic # "NONE"
    BY <1>1, <1>5 DEF SendCreate, OpenStore, Sound, Allowed
  <2>2. Conversation!Relay(c.item)
    BY <1>5, <2>1 DEF Conversation!Relay, SendCreate, OpenStore
  <2> QED BY <2>1, <2>2 DEF Promised, Conversation!Next, Conversation!Messages, Messages
<1>6. CASE Post(c)
  <2>1. c.item \in Messages /\ delivery[c.item] # "NONE" /\ topic # "NONE"
    BY <1>1, <1>6 DEF Post, Sound, Allowed
  <2>2. c.item # First => c.item \in stored /\ posted[c.item] = 0
    BY <1>1, <1>6, <2>1 DEF Post, Allowed, Asks, IInv, Posts, Posting, Messages
  <2>3. CASE posted' = [posted EXCEPT ![c.item] = @ + 1]
    <3>1. Conversation!Show(c.item)
      BY <1>6, <2>1, <2>2, <2>3 DEF Conversation!Show, Post
    <3> QED BY <2>1, <3>1 DEF Promised, Conversation!Next, Conversation!Messages, Messages
  <2>4. CASE UNCHANGED posted
    BY <1>6, <2>4, Unseen DEF Post
  <2> QED BY <1>6, <2>3, <2>4 DEF Post
<1>7. CASE RecordEvent(c)
  <2> DEFINE k == Key(c)
  <2>1. /\ k \in Keys
        /\ IF k = Closed THEN SomebodyClosed ELSE k \in used
    BY <1>1, <1>7, NamesAssumption DEF RecordEvent, Allowed, Asks, Key, Keys, Sound
  <2>2. CASE UNCHANGED <<events, heard>>
    BY <1>7, <2>2, Unseen DEF RecordEvent
  <2>3. CASE /\ ~Contains(events, k) /\ events' = Append(events, k)
             /\ heard' = heard \union {a \in Answers : a = k /\ known}
    <3>1. events \in Seq(Keys)
      BY DEF IInv, TypeOK
    <3>2. ToSet(Append(events, k)) = ToSet(events) \union {k}
      BY <2>1, <3>1, AppendedSet
    <3>3. k \notin ToSet(events) /\ ToSet(events') = ToSet(events) \union {k}
      BY <2>3, <3>1, <3>2 DEF Contains, ToSet
    <3> HIDE DEF k
    <3>4. Conversation!Record(k)
      BY <1>7, <2>1, <2>3, <3>3
         DEF Conversation!Record, Conversation!SomebodyClosed, SomebodyClosed, RecordEvent
    <3> QED BY <2>1, <3>4 DEF Promised, Conversation!Next, Keys
  <2> QED BY <1>7, <2>2, <2>3 DEF RecordEvent
<1> QED BY <1>2, <1>3, <1>4, <1>5, <1>6, <1>7 DEF Serve

\* A message that fails may have been sent.
LEMMA FailsPromised ==
  ASSUME IInv, CInv, NEW c \in calls, Fails(c), c.at # "checked",
         UNCHANGED <<ticket, known, received, topic, stored, posted, events, delivered,
                     heard, used>>
  PROVE  Promised
<1> DEFINE kept == {m \in Messages : delivery[m] # "NONE"}
           sent == {m \in Messages : delivery[m] = "SENT"}
           i == c.item
<1>1. CASE UNCHANGED delivery
  BY <1>1, Unseen
<1>2. CASE c.kind = "send" /\ delivery' = [delivery EXCEPT ![i] = "FAILED"]
  <2>1. i \in Messages /\ delivery \in [Messages -> {"NONE", "PENDING", "SENT", "FAILED"}]
    BY <1>2, CallTyped
  <2>2. sent' = sent \ {i} /\ kept' = kept \union {i}
    BY <1>2, <2>1
  <2>3. i \in kept
    BY <1>2, <2>1, IsSound DEF Sound
  <2> HIDE DEF kept, sent, i
  <2>4. kept' = kept
    BY <2>2, <2>3
  <2>5. Conversation!Mark(i)
    BY <2>2, <2>4 DEF Conversation!Mark, kept, sent
  <2> QED BY <2>1, <2>5 DEF Promised, Conversation!Next, Conversation!Messages, Messages
<1> QED BY <1>1, <1>2 DEF Fails

LEMMA ReturnPromised ==
  ASSUME IInv, CInv, NEW c \in calls, Return(c)
  PROVE  Promised
<1> DEFINE kept == {m \in Messages : delivery[m] # "NONE"}
           sent == {m \in Messages : delivery[m] = "SENT"}
           i == c.item
<1>1. /\ UNCHANGED <<ticket, received, topic, stored, posted, events, delivered, heard, used>>
      /\ Sound(c) /\ Asks(c.kind, c.item) /\ Allowed(c.kind, c.at)
      /\ c.kind \in {"open", "send"} => i \in Messages
      /\ delivery \in [Messages -> {"NONE", "PENDING", "SENT", "FAILED"}]
  BY IsSound, CallTyped DEF Return, remote
<1>2. CASE c.at = "error" /\ Fails(c) /\ UNCHANGED known
  BY <1>1, <1>2, FailsPromised
<1>3. CASE c.at = "ok" /\ c.kind = "open" /\ known' = TRUE /\ UNCHANGED delivery
  <2>1. topic # "NONE"
    BY <1>1, <1>3 DEF Sound
  <2>2. Conversation!Learn
    BY <1>1, <1>3, <2>1 DEF Conversation!Learn
  <2> QED BY <2>2 DEF Promised, Conversation!Next
<1>4. CASE /\ c.at = "learned" \/ (c.at = "ok" /\ c.kind = "send")
           /\ delivery' = [delivery EXCEPT ![i] = "SENT"] /\ UNCHANGED known
  <2>1. /\ i \in Messages /\ delivery[i] # "NONE" /\ topic # "NONE"
        /\ c.kind = "open" => i = First
    BY <1>1, <1>4 DEF Sound, Allowed, Asks
  <2>2. i # First => i \in stored
    BY <1>1, <1>4, <2>1 DEF IInv, Posts, Messages, Allowed
  <2>3. sent' = sent \union {i} /\ kept' = kept /\ i \in kept
    BY <1>1, <1>4, <2>1
  <2> HIDE DEF kept, sent, i
  <2>4. Conversation!Mark(i)
    BY <1>1, <1>4, <2>1, <2>2, <2>3 DEF Conversation!Mark, kept, sent
  <2> QED BY <2>1, <2>4 DEF Promised, Conversation!Next, Conversation!Messages, Messages
<1>5. CASE UNCHANGED <<known, delivery>>
  BY <1>1, <1>5, Unseen
<1> QED BY <1>2, <1>3, <1>4, <1>5 DEF Return

LEMMA TimeOutPromised ==
  ASSUME IInv, CInv, NEW c \in calls, TimeOut(c)
  PROVE  Promised
BY FailsPromised DEF TimeOut, AtRelay, remote

-------------------------------------------------------------------------------
(* syncRelay *)

LEMMA RunStepPromised ==
  ASSUME IInv, CInv, NEW s \in Syncs, Run(s) \/ Break(s)
  PROVE  Promised
<1> USE DEF local, remote
<1> DEFINE r == sync[s]
           k == r.batch[r.next]
<1>1. /\ Caused(s) /\ Pulled(s) /\ r.batch \in Seq(Keys) /\ r.next \in Nat
      /\ r.pc \in {"insert", "mark"} => k \in ToSet(events) /\ k \in Answers
  BY RunFacts, RunTyped
<1>2. CASE Start(s) \/ CallNext(s) \/ Pull(s) \/ Break(s)
  BY <1>2, Unseen DEF Start, CallNext, Pull, Break
<1>3. CASE Accept(s)
  <2>1. UNCHANGED <<known, delivery, received, topic, stored, posted, events, delivered,
                    heard, used>>
    BY <1>3 DEF Accept
  <2>2. CASE UNCHANGED ticket
    BY <2>1, <2>2, Unseen
  <2>3. CASE /\ r.next <= Len(r.batch) /\ known /\ k \in Takes \union {Closed}
             /\ ticket' = IF k = Closed THEN "CLOSED" ELSE "IN_PROGRESS"
    <3>1. r.next >= 1 /\ ToSet(r.batch) \subseteq ToSet(events)
      BY <1>1, <1>3 DEF Pulled, Accept
    <3>2. k \in ToSet(r.batch)
      BY <1>1, <2>3, <3>1 DEF ToSet
    <3>3. k \in ToSet(events)
      BY <3>1, <3>2
    <3> HIDE DEF k, r
    <3>4. Conversation!Follow
      BY <2>1, <2>3, <3>3 DEF Conversation!Follow
    <3> QED BY <3>4 DEF Promised, Conversation!Next
  <2> QED BY <1>3, <2>2, <2>3 DEF Accept
<1>4. CASE Insert(s)
  <2>1. /\ known /\ k \in ToSet(events) /\ k \in Answers /\ received' = received \union {k}
        /\ UNCHANGED <<ticket, known, delivery, topic, stored, posted, events, delivered,
                       heard, used>>
    BY <1>1, <1>4 DEF Insert, Caused
  <2> HIDE DEF k
  <2>2. Conversation!Receive(k)
    BY <2>1 DEF Conversation!Receive
  <2> QED BY <2>1, <2>2 DEF Promised, Conversation!Next
<1>5. CASE Mark(s)
  <2>1. /\ known /\ k \in ToSet(events) /\ k \in Answers /\ ticket' = "IN_PROGRESS"
        /\ UNCHANGED <<known, delivery, received, topic, stored, posted, events, delivered,
                       heard, used>>
    BY <1>1, <1>5 DEF Mark, Caused
  <2> HIDE DEF k
  <2>2. Conversation!Follow
    BY <2>1 DEF Conversation!Follow
  <2> QED BY <2>2 DEF Promised, Conversation!Next
<1>6. CASE Acknowledge(s)
  <2>1. IInv'
    BY <1>6, AcknowledgeInv
  <2>2. /\ UNCHANGED <<ticket, known, delivery, received, topic, stored, posted, events,
                       heard, used>>
        /\ delivered \subseteq delivered'
    BY <1>6 DEF Acknowledge
  <2>3. delivered' \subseteq ToSet(events) /\ heard \intersect delivered' \subseteq received
    BY <2>1, <2>2 DEF IInv, Recorded, AcknowledgedIsReceived
  <2>4. Conversation!Acknowledge
    BY <2>2, <2>3 DEF Conversation!Acknowledge
  <2> QED BY <2>4 DEF Promised, Conversation!Next
<1> QED BY <1>2, <1>3, <1>4, <1>5, <1>6 DEF Run

-------------------------------------------------------------------------------
(***************************************************************************)
(* The theorems.                                                           *)
(***************************************************************************)

LEMMA StepPromised ==
  ASSUME IInv, CInv, [Next]_vars
  PROVE  Promised
<1>1. CASE Create
  BY <1>1, CreatePromised
<1>2. CASE \E u \in Closings : CloseTicket(u)
  BY <1>2, CloseTicketPromised
<1>3. CASE \E m \in Later : SendCheck(m)
  BY <1>3, Unseen DEF SendCheck, local, remote
<1>4. CASE \E u \in Updates : Deliver(u)
  BY <1>4, DeliverPromised
<1>5. CASE \E c \in calls : Step(c) \/ TimeOut(c)
  BY <1>5, SendStorePromised, ServePromised, ReturnPromised, TimeOutPromised DEF Step
<1>6. CASE \E c \in calls : Refuse(c)
  BY <1>6, Unseen DEF Refuse, local, remote
<1>7. CASE \E s \in Syncs : Run(s) \/ Break(s)
  BY <1>7, RunStepPromised
<1>8. CASE ApiCrash \/ RelayCrash
  BY <1>8, Unseen DEF ApiCrash, RelayCrash, local, remote
<1>9. CASE Crowd \/ UNCHANGED vars
  BY <1>9, Unseen DEF Crowd, vars, local, remote
<1> QED BY <1>1, <1>2, <1>3, <1>4, <1>5, <1>6, <1>7, <1>8, <1>9 DEF Next

\* Every request, every call that is left and both tickets have their cause:
\* the invariant the refinement rests on.
THEOREM CausesInductive == Spec => [](IInv /\ CInv)
<1>1. Init => IInv /\ CInv
  BY InitInv, InitCaused
<1>2. IInv /\ CInv /\ [Next]_vars => IInv' /\ CInv'
  BY Inductive, StepCaused
<1> QED BY <1>1, <1>2, PTL DEF Spec

\* The initial state is that of a conversation nobody began.
LEMMA InitPromised == Init => Conversation!Init
<1> SUFFICES ASSUME Init PROVE Conversation!Init
  OBVIOUS
<1>1. ToSet(<<>>) = {}
  BY DEF ToSet
<1> QED BY <1>1 DEF Init, Conversation!Init, Conversation!Messages, Messages

\* The installation and the relay, with all their calls, crashes and retries,
\* keep what the conversation promises.
THEOREM ConversationCorrect == Spec => ConversationSpec
<1>1. IInv /\ CInv /\ [Next]_vars => [Conversation!Next]_(Conversation!conversation)
  BY StepPromised DEF Promised
<1> QED BY InitPromised, CausesInductive, <1>1, PTL DEF Spec, ConversationSpec, Conversation!Spec

\* So do they step by step.
THEOREM ConversationGoesOnCorrect == Spec => ConversationGoesOn
<1>1. IInv /\ CInv /\ [Next]_vars => [Conversation!Next]_(Conversation!conversation)
  BY StepPromised DEF Promised
<1> QED BY CausesInductive, <1>1, PTL DEF Spec, ConversationGoesOn

=============================================================================
