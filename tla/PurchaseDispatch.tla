--------------------------- MODULE PurchaseDispatch ---------------------------
(***************************************************************************)
(* One purchase order from its draft to the e-mail sent to the supplier:   *)
(* the draft is edited under a version number, requests send it, cancel it *)
(* or delete it, and every request is cut into the database round trips    *)
(* between which the others run.  A transaction is one step at its commit  *)
(* when its writes are guarded in the statement that makes them, and two   *)
(* steps when it decides on a value it read before.  Isolation is READ     *)
(* COMMITTED, the default the code keeps.                                  *)
(***************************************************************************)
EXTENDS PurchaseOrderPolicy, Naturals

CONSTANTS
  Attempts,     \* requests to send the order
  Keys,         \* idempotency keys the clients choose
  Editors,      \* edit sessions that open the draft, then save it
  Composers,    \* create or duplicate requests that land on this draft
  Cancellers,   \* requests to cancel the order
  Transports,   \* subset of {"RESEND", "MAILBOX"}: how the e-mail leaves
  Timeout,      \* SENDING_TIMEOUT_MS, in clock ticks
  MaxTime,      \* bound on the clock
  NoKey,        \* not a key
  NoLock        \* not an attempt

ASSUME TimeoutAssumption == Timeout \in Nat \ {0} /\ MaxTime \in Nat
ASSUME NoneAssumption == NoKey \notin Keys /\ NoLock \notin Attempts
ASSUME TransportsAssumption == Transports \subseteq {"RESEND", "MAILBOX"}

Savers == Editors \union Composers

VARIABLES
  status, version, content,        \* the PurchaseOrder row; content is the
                                   \* set of saves it is made of
  savePc, saveVersion, saveBase,   \* each edit session
  cancelPc,                        \* each cancel request
  rowStatus, rowAt,                \* the PurchaseOrderDispatch row of a key
  sendLock,                        \* the advisory lock purchase-send:<order>
  pc, keyOf, via, seen, at, supersedes,   \* each send request
  crossed,                         \* history: the requests during whose
                                   \* reservation another confirmed its own
  mailbox,                         \* e-mails the supplier got
  now

orderVars == <<status, version, content>>
saveVars == <<savePc, saveVersion, saveBase>>
rowVars == <<rowStatus, rowAt>>
sendVars == <<keyOf, via, seen, at, supersedes, crossed>>
vars == <<orderVars, saveVars, cancelPc, rowVars, sendLock, pc, sendVars,
          mailbox, now>>

Contents == SUBSET Savers

Email == [by : Attempts, key : Keys, via : Transports, content : Contents]

InFlight ==
  {"rendered", "checked", "reserved", "transmitting", "transmitted", "failing"}
Settled == {"returned", "refused", "sent", "failed", "crashed"}

TypeOK ==
  /\ status \in OrderStatus \union {Deleted}
  /\ version \in Nat
  /\ content \in Contents
  /\ savePc \in [Savers -> {"idle", "editing", "saved", "refused"}]
  /\ saveVersion \in [Savers -> Nat]
  /\ saveBase \in [Savers -> Contents]
  /\ cancelPc \in [Cancellers -> {"idle", "checked", "done", "refused"}]
  /\ rowStatus \in [Keys -> {"none", "SENDING", "SENT", "FAILED"}]
  /\ rowAt \in [Keys -> Nat]
  /\ sendLock \in Attempts \union {NoLock}
  /\ pc \in [Attempts -> {"idle"} \union InFlight \union Settled]
  /\ keyOf \in [Attempts -> Keys \union {NoKey}]
  /\ via \in [Attempts -> Transports \union {"none"}]
  /\ seen \in [Attempts -> Contents]
  /\ at \in [Attempts -> Nat]
  /\ supersedes \in [Attempts -> Keys \union {NoKey}]
  /\ crossed \subseteq Attempts
  /\ mailbox \subseteq Email
  /\ now \in Nat

\* createNew from resumeDraft: an empty draft.
Init ==
  /\ status = "DRAFT" /\ version = 1 /\ content = {}
  /\ savePc = [e \in Savers |-> "idle"]
  /\ saveVersion = [e \in Savers |-> 0]
  /\ saveBase = [e \in Savers |-> {}]
  /\ cancelPc = [c \in Cancellers |-> "idle"]
  /\ rowStatus = [k \in Keys |-> "none"]
  /\ rowAt = [k \in Keys |-> 0]
  /\ sendLock = NoLock
  /\ pc = [a \in Attempts |-> "idle"]
  /\ keyOf = [a \in Attempts |-> NoKey]
  /\ via = [a \in Attempts |-> "none"]
  /\ seen = [a \in Attempts |-> {}]
  /\ at = [a \in Attempts |-> 0]
  /\ supersedes = [a \in Attempts |-> NoKey]
  /\ crossed = {}
  /\ mailbox = {}
  /\ now = 0

-------------------------------------------------------------------------------
(* Drafts: PurchaseOrderCommandService *)

\* An editor opens the draft and works on what it shows.  A composer is a
\* create (or a duplicate, which calls create) that finds this draft of the
\* same supplier and creator: it takes the version and replaces the content.
OpenDraft(e) ==
  /\ savePc[e] \in {"idle", "refused"}
  /\ Mutable(status)
  /\ savePc' = [savePc EXCEPT ![e] = "editing"]
  /\ saveVersion' = [saveVersion EXCEPT ![e] = version]
  /\ saveBase' = [saveBase EXCEPT ![e] = IF e \in Editors THEN content ELSE {}]
  /\ UNCHANGED <<orderVars, cancelPc, rowVars, sendLock, pc, sendVars, mailbox,
                 now>>

\* Variants of Claims that a bug could leave: without the version, without the
\* status.
ClaimsAnyVersion(e) == Mutable(status)
ClaimsAnyStatus(e) == version = saveVersion[e]

\* The where clause that claims the draft.
Claims(e) == Mutable(status) /\ version = saveVersion[e]

\* update: the claim increments the version, the lines are replaced.
SaveDraft(e) ==
  /\ savePc[e] = "editing"
  /\ Claims(e)
  /\ content' = saveBase[e] \union {e}
  /\ version' = version + 1
  /\ savePc' = [savePc EXCEPT ![e] = "saved"]
  /\ saveVersion' = [saveVersion EXCEPT ![e] = version + 1]
  /\ UNCHANGED <<status, saveBase, cancelPc, rowVars, sendLock, pc, sendVars,
                 mailbox, now>>

\* update when the claim matches no row.
SaveConflict(e) ==
  /\ savePc[e] = "editing"
  /\ ~Claims(e)
  /\ savePc' = [savePc EXCEPT ![e] = "refused"]
  /\ UNCHANGED <<orderVars, saveVersion, saveBase, cancelPc, rowVars, sendLock,
                 pc, sendVars, mailbox, now>>

\* deleteDraft: guarded by DRAFT in the delete itself; dispatches cascade.
DeleteDraft ==
  /\ Mutable(status)
  /\ status' = Deleted
  /\ rowStatus' = [k \in Keys |-> "none"]
  /\ UNCHANGED <<version, content, saveVars, cancelPc, rowAt, sendLock, pc,
                 sendVars, mailbox, now>>

\* cancel reads the status and checks the transition ...
CancelCheck(c) ==
  /\ cancelPc[c] = "idle"
  /\ CanTransition(status, "CANCELLED")
  /\ cancelPc' = [cancelPc EXCEPT ![c] = "checked"]
  /\ UNCHANGED <<orderVars, saveVars, rowVars, sendLock, pc, sendVars, mailbox,
                 now>>

\* ... then writes CANCELLED whatever the status has become; the update of a
\* deleted order is refused.
CancelWrite(c) ==
  /\ cancelPc[c] = "checked"
  /\ \/ /\ status # Deleted
        /\ status' = "CANCELLED"
        /\ cancelPc' = [cancelPc EXCEPT ![c] = "done"]
     \/ /\ status = Deleted
        /\ cancelPc' = [cancelPc EXCEPT ![c] = "refused"]
        /\ UNCHANGED status
  /\ UNCHANGED <<version, content, saveVars, rowVars, sendLock, pc, sendVars,
                 mailbox, now>>

-------------------------------------------------------------------------------
(* Sending: PurchaseOrderDispatchService.send over PurchaseDispatchService *)

\* send reads the order with its lines and renders the e-mail from them.
ReadOrder(a) ==
  /\ pc[a] = "idle"
  /\ status # Deleted
  /\ content # {}
  /\ \E k \in Keys, t \in Transports :
       /\ keyOf' = [keyOf EXCEPT ![a] = k]
       /\ via' = [via EXCEPT ![a] = t]
  /\ pc' = [pc EXCEPT ![a] = "rendered"]
  /\ seen' = [seen EXCEPT ![a] = content]
  /\ at' = [at EXCEPT ![a] = now]
  /\ UNCHANGED <<orderVars, saveVars, cancelPc, rowVars, sendLock, supersedes,
                 crossed, mailbox, now>>

\* The reservation of key k is younger than the timeout at time t.
FreshAt(k, t) == rowStatus[k] = "SENDING" /\ rowAt[k] + Timeout > t

\* The dispatches being sent, latest reservation first.
LatestActive ==
  {k \in Keys : /\ rowStatus[k] = "SENDING"
                /\ \A j \in Keys : rowStatus[j] = "SENDING" => rowAt[j] <= rowAt[k]}

(* reserve takes the advisory lock, then reads in three queries, each of the   *)
(* moment it runs: the order's status, the row of the key, and for a new key   *)
(* the dispatches being sent.  complete and fail take no lock and run between  *)
(* them.  A status other than DRAFT never becomes DRAFT again, and a row that  *)
(* is not there is made under the lock only: so CheckDraft stands for the      *)
(* first query when it finds a draft, and what follows it for the others.      *)

\* The order is a draft.  The clock was read before the lock was obtained.
CheckDraft(a) ==
  /\ pc[a] = "rendered"
  /\ sendLock = NoLock
  /\ CanTransition(status, "SENT")
  /\ \E t \in at[a] .. now : at' = [at EXCEPT ![a] = t]
  /\ pc' = [pc EXCEPT ![a] = "checked"]
  /\ sendLock' = a
  /\ UNCHANGED <<orderVars, saveVars, cancelPc, rowVars, keyOf, via, seen,
                 supersedes, crossed, mailbox, now>>

\* The request holds the lock, or takes it on an order that is no draft.
Reserves(a) ==
  \/ pc[a] = "checked" /\ sendLock = a
  \/ pc[a] = "rendered" /\ sendLock = NoLock /\ ~CanTransition(status, "SENT")

\* The key was already confirmed: send returns its dispatch.
ReserveReturns(a) ==
  /\ Reserves(a)
  /\ pc[a] = "rendered" => status # Deleted
  /\ rowStatus[keyOf[a]] = "SENT"
  /\ pc' = [pc EXCEPT ![a] = "returned"]
  /\ sendLock' = NoLock
  /\ UNCHANGED <<orderVars, saveVars, cancelPc, rowVars, sendVars, mailbox, now>>

\* The order was gone or no draft, or a fresh attempt is under way.
ReserveRefused(a) ==
  /\ Reserves(a)
  /\ \/ pc[a] = "rendered" /\ (status = Deleted \/ rowStatus[keyOf[a]] # "SENT")
     \/ /\ pc[a] = "checked"
        /\ \/ FreshAt(keyOf[a], at[a])
           \/ /\ rowStatus[keyOf[a]] = "none"
              /\ \E k \in LatestActive : FreshAt(k, at[a])
  /\ pc' = [pc EXCEPT ![a] = "refused"]
  /\ sendLock' = NoLock
  /\ UNCHANGED <<orderVars, saveVars, cancelPc, rowVars, sendVars, mailbox, now>>

\* The key's row is failed or stale: it is taken again, and no other row of the
\* order is looked at.
ReserveRetry(a) ==
  /\ pc[a] = "checked"
  /\ rowStatus[keyOf[a]] \notin {"none", "SENT"}
  /\ ~FreshAt(keyOf[a], at[a])
  /\ supersedes' = [supersedes EXCEPT ![a] = NoKey]
  /\ pc' = [pc EXCEPT ![a] = "reserved"]
  /\ UNCHANGED <<orderVars, saveVars, cancelPc, rowVars, sendLock, keyOf, via,
                 seen, at, crossed, mailbox, now>>

\* Variant of ReserveNew: the attempts under other keys are not looked for.
ReserveNewBlind(a) ==
  /\ pc[a] = "checked"
  /\ rowStatus[keyOf[a]] = "none"
  /\ supersedes' = [supersedes EXCEPT ![a] = NoKey]
  /\ pc' = [pc EXCEPT ![a] = "reserved"]
  /\ UNCHANGED <<orderVars, saveVars, cancelPc, rowVars, sendLock, keyOf, via,
                 seen, at, crossed, mailbox, now>>

\* A new key: the latest attempt under way, if any, must be stale.
ReserveNew(a) ==
  /\ pc[a] = "checked"
  /\ rowStatus[keyOf[a]] = "none"
  /\ \/ /\ LatestActive = {}
        /\ supersedes' = [supersedes EXCEPT ![a] = NoKey]
     \/ \E k \in LatestActive :
          /\ ~FreshAt(k, at[a])
          /\ supersedes' = [supersedes EXCEPT ![a] = k]
  /\ pc' = [pc EXCEPT ![a] = "reserved"]
  /\ UNCHANGED <<orderVars, saveVars, cancelPc, rowVars, sendLock, keyOf, via,
                 seen, at, crossed, mailbox, now>>

\* Variant of ReserveCommit: an error inside reserve is not answered.
ReserveCommitStuck(a) ==
  /\ pc[a] = "reserved"
  /\ sendLock = a
  /\ status # Deleted
  /\ sendLock' = NoLock
  /\ rowStatus' = [k \in Keys |-> IF k = keyOf[a] THEN "SENDING"
                                  ELSE IF k = supersedes[a] THEN "FAILED"
                                  ELSE rowStatus[k]]
  /\ rowAt' = [rowAt EXCEPT ![keyOf[a]] = at[a]]
  /\ pc' = [pc EXCEPT ![a] = "transmitting"]
  /\ UNCHANGED <<orderVars, saveVars, cancelPc, sendVars, mailbox,
                 now>>

\* The writes of reserve, unguarded, and its commit; they fail on a deleted
\* order.
ReserveCommit(a) ==
  /\ pc[a] = "reserved"
  /\ sendLock = a
  /\ sendLock' = NoLock
  /\ \/ /\ status # Deleted
        /\ rowStatus' = [k \in Keys |-> IF k = keyOf[a] THEN "SENDING"
                                        ELSE IF k = supersedes[a] THEN "FAILED"
                                        ELSE rowStatus[k]]
        /\ rowAt' = [rowAt EXCEPT ![keyOf[a]] = at[a]]
        /\ pc' = [pc EXCEPT ![a] = "transmitting"]
     \/ /\ status = Deleted
        /\ pc' = [pc EXCEPT ![a] = "refused"]
        /\ UNCHANGED rowVars
  /\ UNCHANGED <<orderVars, saveVars, cancelPc, sendVars, mailbox, now>>

\* Variant of ProviderKey: a key of each request's own.
ProviderKeyPerRequest(a) == a

\* The idempotency key given to Resend: that of the dispatch row.
ProviderKey(a) == keyOf[a]

\* What Resend already delivered under the key attempt a gives it.
Delivered(a) ==
  {m \in mailbox : m.via = "RESEND" /\ via[a] = "RESEND" /\ m.key = ProviderKey(a)}

\* The provider takes the e-mail.  Resend delivers one e-mail per key and
\* answers a repetition of it with the first answer; a mailbox (SMTP, Google,
\* Microsoft) knows no key.
Accepts(a) ==
  IF Delivered(a) = {}
  THEN mailbox' = mailbox \union
         {[by |-> a, key |-> ProviderKey(a), via |-> via[a], content |-> seen[a]]}
  ELSE (\E m \in Delivered(a) : m.content = seen[a]) /\ UNCHANGED mailbox

\* Variant of Transmit: the error of the provider is swallowed.
TransmitSwallowed(a) ==
  /\ pc[a] = "transmitting"
  /\ Accepts(a) \/ UNCHANGED mailbox
  /\ pc' = [pc EXCEPT ![a] = "transmitted"]
  /\ UNCHANGED <<orderVars, saveVars, cancelPc, rowVars, sendLock, sendVars, now>>

\* The provider confirmed, the answer was lost (timeout, reset), or the PDF or
\* the provider failed.
Transmit(a) ==
  /\ pc[a] = "transmitting"
  /\ \/ Accepts(a) /\ pc' = [pc EXCEPT ![a] = "transmitted"]
     \/ Accepts(a) /\ pc' = [pc EXCEPT ![a] = "failing"]
     \/ UNCHANGED mailbox /\ pc' = [pc EXCEPT ![a] = "failing"]
  /\ UNCHANGED <<orderVars, saveVars, cancelPc, rowVars, sendLock, sendVars, now>>

\* Variant of Completes: the update of the order is not guarded by DRAFT.
CompletesAnyStatus(a) == rowStatus[keyOf[a]] # "none"

\* The order can be marked sent: the where clause of complete.
Completes(a) == status = "DRAFT" /\ rowStatus[keyOf[a]] # "none"

\* Variant of Complete: the order is left out of the transaction.
CompleteDispatchOnly(a) ==
  /\ pc[a] = "transmitted"
  /\ Completes(a)
  /\ rowStatus' = [rowStatus EXCEPT ![keyOf[a]] = "SENT"]
  /\ pc' = [pc EXCEPT ![a] = "sent"]
  /\ UNCHANGED <<orderVars, saveVars, cancelPc, rowAt, sendLock, sendVars,
                 mailbox, now>>

\* complete: the dispatch becomes SENT with the order, in one transaction.
Complete(a) ==
  /\ pc[a] = "transmitted"
  /\ Completes(a)
  /\ rowStatus' = [rowStatus EXCEPT ![keyOf[a]] = "SENT"]
  /\ status' = "SENT"
  /\ pc' = [pc EXCEPT ![a] = "sent"]
  /\ crossed' = crossed \union {b \in Attempts : pc[b] = "checked"}
  /\ UNCHANGED <<version, content, saveVars, cancelPc, rowAt, sendLock, keyOf,
                 via, seen, at, supersedes, mailbox, now>>

\* complete when the order or the dispatch is gone, or is no draft any more:
\* the transaction is rolled back.
CompleteConflict(a) ==
  /\ pc[a] = "transmitted"
  /\ ~Completes(a)
  /\ pc' = [pc EXCEPT ![a] = "failing"]
  /\ UNCHANGED <<orderVars, saveVars, cancelPc, rowVars, sendLock, sendVars,
                 mailbox, now>>

\* Variant of Fail: the dispatch gets the status of an event.
FailAsEvent(a) ==
  /\ pc[a] = "failing"
  /\ rowStatus' = [k \in Keys |->
                     IF k = keyOf[a] /\ status # Deleted THEN "SEND_FAILED"
                     ELSE rowStatus[k]]
  /\ pc' = [pc EXCEPT ![a] = "failed"]
  /\ UNCHANGED <<orderVars, saveVars, cancelPc, rowAt, sendLock, sendVars,
                 mailbox, now>>

\* Variant of Fail: every dispatch of the order becomes FAILED.
FailEvery(a) ==
  /\ pc[a] = "failing"
  /\ rowStatus' = [k \in Keys |->
                     IF rowStatus[k] # "none" /\ status # Deleted THEN "FAILED"
                     ELSE rowStatus[k]]
  /\ pc' = [pc EXCEPT ![a] = "failed"]
  /\ UNCHANGED <<orderVars, saveVars, cancelPc, rowAt, sendLock, sendVars,
                 mailbox, now>>

\* fail: the dispatch becomes FAILED whatever it was; on a deleted order the
\* event cannot be inserted and nothing is written.
Fail(a) ==
  /\ pc[a] = "failing"
  /\ rowStatus' = [k \in Keys |->
                     IF k = keyOf[a] /\ status # Deleted THEN "FAILED"
                     ELSE rowStatus[k]]
  /\ pc' = [pc EXCEPT ![a] = "failed"]
  /\ UNCHANGED <<orderVars, saveVars, cancelPc, rowAt, sendLock, sendVars,
                 mailbox, now>>

\* The API process stops: every request in it is lost, its lock released.
Crash ==
  /\ \E a \in Attempts : pc[a] \in InFlight
  /\ pc' = [a \in Attempts |-> IF pc[a] \in InFlight THEN "crashed" ELSE pc[a]]
  /\ cancelPc' = [c \in Cancellers |-> IF cancelPc[c] = "checked" THEN "refused"
                                       ELSE cancelPc[c]]
  /\ sendLock' = NoLock
  /\ UNCHANGED <<orderVars, saveVars, rowVars, sendVars, mailbox, now>>

Tick ==
  /\ now < MaxTime
  /\ now' = now + 1
  /\ UNCHANGED <<orderVars, saveVars, cancelPc, rowVars, sendLock, pc, sendVars,
                 mailbox>>

-------------------------------------------------------------------------------
Step(a) ==
  \/ CheckDraft(a) \/ ReserveReturns(a) \/ ReserveRefused(a)
  \/ ReserveRetry(a) \/ ReserveNew(a) \/ ReserveCommit(a)
  \/ Transmit(a) \/ Complete(a) \/ CompleteConflict(a) \/ Fail(a)

Next ==
  \/ \E e \in Savers : OpenDraft(e) \/ SaveDraft(e) \/ SaveConflict(e)
  \/ DeleteDraft
  \/ \E c \in Cancellers : CancelCheck(c) \/ CancelWrite(c)
  \/ \E a \in Attempts : ReadOrder(a) \/ Step(a)
  \/ Crash
  \/ Tick

Spec == Init /\ [][Next]_vars

\* A request that entered the API runs to its answer: every await in it
\* returns or raises.  Nobody is obliged to edit, send, cancel or delete.
Fairness == \A a \in Attempts : WF_vars(Step(a))

FairSpec == Spec /\ Fairness

-------------------------------------------------------------------------------
(* Properties that hold *)

\* A dispatch recorded SENT belongs to an order that has left DRAFT and still
\* exists: the two are written by one transaction of complete, and neither a
\* late failure, a cancellation nor a deletion separates them.
SentRowHasSentOrder ==
  (\E k \in Keys : rowStatus[k] = "SENT") => status \in {"SENT", "CANCELLED"}

\* The order is marked sent by one request only, whatever is retried, timed
\* out or taken over.
OneWinner ==
  \A a, b \in Attempts : pc[a] = "sent" /\ pc[b] = "sent" => a = b

\* An order is SENT only on the confirmation of a provider: the request that
\* marked it holds an e-mail, delivered under its key, with the content it read.
SentWasDelivered ==
  status = "SENT" =>
    \E a \in Attempts :
      /\ pc[a] = "sent"
      /\ \E m \in mailbox : m.key = keyOf[a] /\ m.content = seen[a]

\* Autosaved drafts: an accepted save is still in the content, unless a create
\* or duplicate replaced the draft after it.
SavesKept ==
  \A e \in Savers : savePc[e] = "saved" =>
    \/ e \in content
    \/ \E c \in Composers : savePc[c] = "saved" /\ saveVersion[c] > saveVersion[e]

\* Resend delivers at most one e-mail per idempotency key, whatever requests
\* are retried, lost or run side by side under it.
ResendOncePerKey ==
  \A a, b \in Attempts :
    \A m, n \in mailbox :
      /\ m.by = a /\ n.by = b /\ keyOf[a] = keyOf[b]
      /\ m.via = "RESEND" /\ n.via = "RESEND"
      => m = n

\* The supplier gets a second e-mail only for a cause: a send that failed and is
\* retried, an attempt under way that another key takes over, the same key used
\* again when its reservation is as old as the timeout, or a confirmation that
\* fell between the queries of the reservation of one of the two, which read a
\* draft and then no dispatch being sent.  Requests that run side by side in
\* any other way, and a process that stops, are no such cause.
Apart(s, t) == s + Timeout <= t \/ t + Timeout <= s

SecondEmailHasCause ==
  \A m, n \in mailbox : m.by # n.by =>
    \/ \E a \in Attempts : pc[a] = "failed" \/ supersedes[a] # NoKey
    \/ m.key = n.key /\ Apart(at[m.by], at[n.by])
    \/ {m.by, n.by} \intersect crossed # {}

\* The dispatch that sent the order goes on saying SENT, unless a request under
\* another key took it over, or one under its own key failed or committed a
\* reservation a timeout apart.
Wrote(b) == pc[b] \in {"transmitting", "transmitted", "failing", "failed", "crashed"}

SentRowLossHasCause ==
  \A a \in Attempts : pc[a] = "sent" /\ rowStatus[keyOf[a]] # "SENT" =>
    \E b \in Attempts \ {a} :
      \/ supersedes[b] = keyOf[a]
      \/ /\ keyOf[b] = keyOf[a] /\ Wrote(b)
         /\ pc[b] = "failed" \/ Apart(at[a], at[b])

\* Seen from outside the order follows the lifecycle of the purchasing module:
\* the reads and writes of all these requests implement it.
Lifecycle == INSTANCE PurchaseOrderLifecycle WITH
  status <- status, content <- content, Contents <- Contents
LifecycleSpec == Lifecycle!Spec

\* Every request that entered send gets an answer, unless the process stops.
SendsSettle ==
  \A a \in Attempts : pc[a] \in InFlight ~> pc[a] \in Settled

-------------------------------------------------------------------------------
(* A property the documentation states and the code does not keep *)

\* A sent order is immutable: what the supplier was sent is what it says.
SentContentIsTransmitted ==
  status = "SENT" => \E m \in mailbox : m.content = content

===============================================================================
