------------------------ MODULE PurchaseDispatchProofs ------------------------
(***************************************************************************)
(* Proofs about PurchaseDispatch, for every number of requests, keys and   *)
(* edit sessions, every timeout and every bound on the clock.              *)
(***************************************************************************)
EXTENDS PurchaseDispatch, TLAPS

(***************************************************************************)
(* The inductive invariant.  Each part says what one group of steps relies *)
(* on: what a request chose stays chosen, who completed a send and on      *)
(* which e-mail, what an open edit session knows of the draft.             *)
(***************************************************************************)

Chosen ==
  \A a \in Attempts : pc[a] # "idle" => keyOf[a] \in Keys /\ via[a] \in Transports

\* Only these statuses are met before a sent order is acknowledged.
Reached == status \in {"DRAFT", "SENT", "CANCELLED", Deleted}

Winner ==
  /\ \A a \in Attempts : pc[a] = "sent" => status \in {"SENT", "CANCELLED"}
  /\ status = "SENT" => \E a \in Attempts : pc[a] = "sent"

HasEmail(a) == \E m \in mailbox : m.key = keyOf[a] /\ m.content = seen[a]

Emailed == \A a \in Attempts : pc[a] \in {"transmitted", "sent"} => HasEmail(a)

MailboxKeys ==
  \A m \in mailbox :
    /\ pc[m.by] # "idle" /\ m.key = keyOf[m.by]
    /\ \A n \in mailbox :
         m.via = "RESEND" /\ n.via = "RESEND" /\ m.key = n.key => m = n

Sessions ==
  /\ \A e \in Savers : saveVersion[e] <= version
  /\ \A e \in Editors :
       savePc[e] = "editing" /\ saveVersion[e] = version => saveBase[e] = content

IInv ==
  /\ TypeOK /\ Chosen /\ Reached
  /\ SentRowHasSentOrder /\ OneWinner /\ Winner
  /\ Emailed /\ MailboxKeys
  /\ SavesKept /\ Sessions

-------------------------------------------------------------------------------
LEMMA InitTypeOK == Init => TypeOK
  BY TimeoutAssumption DEF Init, TypeOK, OrderStatus, Contents, Savers, InFlight, Settled

LEMMA NextTypeOK == TypeOK /\ Chosen /\ [Next]_vars => TypeOK'
<1> SUFFICES ASSUME TypeOK, Chosen, [Next]_vars
             PROVE  TypeOK'
  OBVIOUS
<1> USE DEF TypeOK, orderVars, saveVars, rowVars, sendVars, vars
<1>1. ASSUME NEW e \in Savers, OpenDraft(e) PROVE TypeOK'
  BY <1>1 DEF OpenDraft, Contents
<1>2. ASSUME NEW e \in Savers, SaveDraft(e) PROVE TypeOK'
  BY <1>2 DEF SaveDraft, Contents
<1>3. ASSUME NEW e \in Savers, SaveConflict(e) PROVE TypeOK'
  BY <1>3 DEF SaveConflict
<1>4. CASE DeleteDraft
  BY <1>4 DEF DeleteDraft
<1>5. ASSUME NEW c \in Cancellers, CancelCheck(c) PROVE TypeOK'
  BY <1>5 DEF CancelCheck
<1>6. ASSUME NEW c \in Cancellers, CancelWrite(c) PROVE TypeOK'
  BY <1>6 DEF CancelWrite, OrderStatus
<1>7. ASSUME NEW a \in Attempts, ReadOrder(a) PROVE TypeOK'
  BY <1>7 DEF ReadOrder, InFlight
<1>7a. ASSUME NEW a \in Attempts, CheckDraft(a) PROVE TypeOK'
  BY <1>7a DEF CheckDraft, InFlight
<1>8. ASSUME NEW a \in Attempts, ReserveReturns(a) PROVE TypeOK'
  BY <1>8 DEF ReserveReturns, Settled
<1>9. ASSUME NEW a \in Attempts, ReserveRefused(a) PROVE TypeOK'
  BY <1>9 DEF ReserveRefused, Settled
<1>10. ASSUME NEW a \in Attempts, ReserveRetry(a) PROVE TypeOK'
  BY <1>10 DEF ReserveRetry, InFlight
<1>11. ASSUME NEW a \in Attempts, ReserveNew(a) PROVE TypeOK'
  BY <1>11 DEF ReserveNew, InFlight, LatestActive
<1>12. ASSUME NEW a \in Attempts, ReserveCommit(a) PROVE TypeOK'
  BY <1>12 DEF ReserveCommit, InFlight, Settled
<1>13. ASSUME NEW a \in Attempts, Transmit(a) PROVE TypeOK'
  BY <1>13 DEF Transmit, Accepts, Email, ProviderKey, InFlight, Chosen
<1>14. ASSUME NEW a \in Attempts, Complete(a) PROVE TypeOK'
  BY <1>14 DEF Complete, Settled, OrderStatus
<1>15. ASSUME NEW a \in Attempts, CompleteConflict(a) PROVE TypeOK'
  BY <1>15 DEF CompleteConflict, InFlight
<1>16. ASSUME NEW a \in Attempts, Fail(a) PROVE TypeOK'
  BY <1>16 DEF Fail, Settled
<1>17. CASE Crash
  BY <1>17 DEF Crash, Settled
<1>18. CASE Tick
  BY <1>18 DEF Tick
<1>19. CASE UNCHANGED vars
  BY <1>19
<1> QED
  BY <1>1, <1>2, <1>3, <1>4, <1>5, <1>6, <1>7, <1>7a, <1>8, <1>9, <1>10, <1>11,
     <1>12, <1>13, <1>14, <1>15, <1>16, <1>17, <1>18, <1>19 DEF Next, Step

LEMMA NextChosen == TypeOK /\ Chosen /\ [Next]_vars => Chosen'
<1> SUFFICES ASSUME TypeOK, Chosen, [Next]_vars
             PROVE  Chosen'
  OBVIOUS
<1> USE DEF TypeOK, Chosen, orderVars, saveVars, rowVars, sendVars, vars
<1>1. ASSUME NEW e \in Savers, OpenDraft(e) PROVE Chosen'
  BY <1>1 DEF OpenDraft
<1>2. ASSUME NEW e \in Savers, SaveDraft(e) PROVE Chosen'
  BY <1>2 DEF SaveDraft
<1>3. ASSUME NEW e \in Savers, SaveConflict(e) PROVE Chosen'
  BY <1>3 DEF SaveConflict
<1>4. CASE DeleteDraft
  BY <1>4 DEF DeleteDraft
<1>5. ASSUME NEW c \in Cancellers, CancelCheck(c) PROVE Chosen'
  BY <1>5 DEF CancelCheck
<1>6. ASSUME NEW c \in Cancellers, CancelWrite(c) PROVE Chosen'
  BY <1>6 DEF CancelWrite
<1>7. ASSUME NEW a \in Attempts, ReadOrder(a) PROVE Chosen'
  BY <1>7 DEF ReadOrder
<1>7a. ASSUME NEW a \in Attempts, CheckDraft(a) PROVE Chosen'
  BY <1>7a DEF CheckDraft
<1>8. ASSUME NEW a \in Attempts, ReserveReturns(a) PROVE Chosen'
  BY <1>8 DEF ReserveReturns, Reserves
<1>9. ASSUME NEW a \in Attempts, ReserveRefused(a) PROVE Chosen'
  BY <1>9 DEF ReserveRefused, Reserves
<1>10. ASSUME NEW a \in Attempts, ReserveRetry(a) PROVE Chosen'
  BY <1>10 DEF ReserveRetry, Reserves
<1>11. ASSUME NEW a \in Attempts, ReserveNew(a) PROVE Chosen'
  BY <1>11 DEF ReserveNew, Reserves
<1>12. ASSUME NEW a \in Attempts, ReserveCommit(a) PROVE Chosen'
  BY <1>12 DEF ReserveCommit
<1>13. ASSUME NEW a \in Attempts, Transmit(a) PROVE Chosen'
  BY <1>13 DEF Transmit
<1>14. ASSUME NEW a \in Attempts, Complete(a) PROVE Chosen'
  BY <1>14 DEF Complete
<1>15. ASSUME NEW a \in Attempts, CompleteConflict(a) PROVE Chosen'
  BY <1>15 DEF CompleteConflict
<1>16. ASSUME NEW a \in Attempts, Fail(a) PROVE Chosen'
  BY <1>16 DEF Fail
<1>17. CASE Crash
  BY <1>17 DEF Crash, InFlight
<1>18. CASE Tick
  BY <1>18 DEF Tick
<1>19. CASE UNCHANGED vars
  BY <1>19
<1> QED
  BY <1>1, <1>2, <1>3, <1>4, <1>5, <1>6, <1>7, <1>7a, <1>8, <1>9, <1>10, <1>11,
     <1>12, <1>13, <1>14, <1>15, <1>16, <1>17, <1>18, <1>19 DEF Next, Step

LEMMA NextReached == TypeOK /\ Reached /\ [Next]_vars => Reached'
<1> SUFFICES ASSUME TypeOK, Reached, [Next]_vars
             PROVE  Reached'
  OBVIOUS
<1> USE DEF Reached, orderVars, saveVars, rowVars, sendVars, vars
<1>1. ASSUME NEW e \in Savers, OpenDraft(e) PROVE Reached'
  BY <1>1 DEF OpenDraft
<1>2. ASSUME NEW e \in Savers, SaveDraft(e) PROVE Reached'
  BY <1>2 DEF SaveDraft
<1>3. ASSUME NEW e \in Savers, SaveConflict(e) PROVE Reached'
  BY <1>3 DEF SaveConflict
<1>4. CASE DeleteDraft
  BY <1>4 DEF DeleteDraft
<1>5. ASSUME NEW c \in Cancellers, CancelCheck(c) PROVE Reached'
  BY <1>5 DEF CancelCheck
<1>6. ASSUME NEW c \in Cancellers, CancelWrite(c) PROVE Reached'
  BY <1>6 DEF CancelWrite
<1>7. ASSUME NEW a \in Attempts, ReadOrder(a) PROVE Reached'
  BY <1>7 DEF ReadOrder
<1>7a. ASSUME NEW a \in Attempts, CheckDraft(a) PROVE Reached'
  BY <1>7a DEF CheckDraft
<1>8. ASSUME NEW a \in Attempts, ReserveReturns(a) PROVE Reached'
  BY <1>8 DEF ReserveReturns
<1>9. ASSUME NEW a \in Attempts, ReserveRefused(a) PROVE Reached'
  BY <1>9 DEF ReserveRefused
<1>10. ASSUME NEW a \in Attempts, ReserveRetry(a) PROVE Reached'
  BY <1>10 DEF ReserveRetry
<1>11. ASSUME NEW a \in Attempts, ReserveNew(a) PROVE Reached'
  BY <1>11 DEF ReserveNew
<1>12. ASSUME NEW a \in Attempts, ReserveCommit(a) PROVE Reached'
  BY <1>12 DEF ReserveCommit
<1>13. ASSUME NEW a \in Attempts, Transmit(a) PROVE Reached'
  BY <1>13 DEF Transmit
<1>14. ASSUME NEW a \in Attempts, Complete(a) PROVE Reached'
  BY <1>14 DEF Complete
<1>15. ASSUME NEW a \in Attempts, CompleteConflict(a) PROVE Reached'
  BY <1>15 DEF CompleteConflict
<1>16. ASSUME NEW a \in Attempts, Fail(a) PROVE Reached'
  BY <1>16 DEF Fail
<1>17. CASE Crash
  BY <1>17 DEF Crash
<1>18. CASE Tick
  BY <1>18 DEF Tick
<1>19. CASE UNCHANGED vars
  BY <1>19
<1> QED
  BY <1>1, <1>2, <1>3, <1>4, <1>5, <1>6, <1>7, <1>7a, <1>8, <1>9, <1>10, <1>11,
     <1>12, <1>13, <1>14, <1>15, <1>16, <1>17, <1>18, <1>19 DEF Next, Step

LEMMA NextSentRow == TypeOK /\ SentRowHasSentOrder /\ [Next]_vars => SentRowHasSentOrder'
<1> SUFFICES ASSUME TypeOK, SentRowHasSentOrder, [Next]_vars
             PROVE  SentRowHasSentOrder'
  OBVIOUS
<1> USE DEF TypeOK, SentRowHasSentOrder, orderVars, saveVars, rowVars,
     sendVars, vars
<1>1. ASSUME NEW e \in Savers, OpenDraft(e) PROVE SentRowHasSentOrder'
  BY <1>1 DEF OpenDraft
<1>2. ASSUME NEW e \in Savers, SaveDraft(e) PROVE SentRowHasSentOrder'
  BY <1>2 DEF SaveDraft
<1>3. ASSUME NEW e \in Savers, SaveConflict(e) PROVE SentRowHasSentOrder'
  BY <1>3 DEF SaveConflict
<1>4. CASE DeleteDraft
  BY <1>4 DEF DeleteDraft, Mutable
<1>5. ASSUME NEW c \in Cancellers, CancelCheck(c) PROVE SentRowHasSentOrder'
  BY <1>5 DEF CancelCheck
<1>6. ASSUME NEW c \in Cancellers, CancelWrite(c) PROVE SentRowHasSentOrder'
  BY <1>6 DEF CancelWrite
<1>7. ASSUME NEW a \in Attempts, ReadOrder(a) PROVE SentRowHasSentOrder'
  BY <1>7 DEF ReadOrder
<1>7a. ASSUME NEW a \in Attempts, CheckDraft(a) PROVE SentRowHasSentOrder'
  BY <1>7a DEF CheckDraft
<1>8. ASSUME NEW a \in Attempts, ReserveReturns(a) PROVE SentRowHasSentOrder'
  BY <1>8 DEF ReserveReturns
<1>9. ASSUME NEW a \in Attempts, ReserveRefused(a) PROVE SentRowHasSentOrder'
  BY <1>9 DEF ReserveRefused
<1>10. ASSUME NEW a \in Attempts, ReserveRetry(a) PROVE SentRowHasSentOrder'
  BY <1>10 DEF ReserveRetry
<1>11. ASSUME NEW a \in Attempts, ReserveNew(a) PROVE SentRowHasSentOrder'
  BY <1>11 DEF ReserveNew
<1>12. ASSUME NEW a \in Attempts, ReserveCommit(a) PROVE SentRowHasSentOrder'
  BY <1>12 DEF ReserveCommit
<1>13. ASSUME NEW a \in Attempts, Transmit(a) PROVE SentRowHasSentOrder'
  BY <1>13 DEF Transmit
<1>14. ASSUME NEW a \in Attempts, Complete(a) PROVE SentRowHasSentOrder'
  BY <1>14 DEF Complete
<1>15. ASSUME NEW a \in Attempts, CompleteConflict(a) PROVE SentRowHasSentOrder'
  BY <1>15 DEF CompleteConflict
<1>16. ASSUME NEW a \in Attempts, Fail(a) PROVE SentRowHasSentOrder'
  BY <1>16 DEF Fail
<1>17. CASE Crash
  BY <1>17 DEF Crash
<1>18. CASE Tick
  BY <1>18 DEF Tick
<1>19. CASE UNCHANGED vars
  BY <1>19
<1> QED
  BY <1>1, <1>2, <1>3, <1>4, <1>5, <1>6, <1>7, <1>7a, <1>8, <1>9, <1>10, <1>11,
     <1>12, <1>13, <1>14, <1>15, <1>16, <1>17, <1>18, <1>19 DEF Next, Step

LEMMA NextWinner == TypeOK /\ Reached /\ OneWinner /\ Winner /\ [Next]_vars => (OneWinner /\ Winner)'
<1> SUFFICES ASSUME TypeOK, Reached, OneWinner, Winner, [Next]_vars
             PROVE  (OneWinner /\ Winner)'
  OBVIOUS
<1> USE DEF TypeOK, OneWinner, Winner, Reached, orderVars, saveVars, rowVars,
     sendVars, vars
<1>1. ASSUME NEW e \in Savers, OpenDraft(e) PROVE (OneWinner /\ Winner)'
  BY <1>1 DEF OpenDraft
<1>2. ASSUME NEW e \in Savers, SaveDraft(e) PROVE (OneWinner /\ Winner)'
  BY <1>2 DEF SaveDraft
<1>3. ASSUME NEW e \in Savers, SaveConflict(e) PROVE (OneWinner /\ Winner)'
  BY <1>3 DEF SaveConflict
<1>4. CASE DeleteDraft
  BY <1>4 DEF DeleteDraft, Mutable, Deleted
<1>5. ASSUME NEW c \in Cancellers, CancelCheck(c) PROVE (OneWinner /\ Winner)'
  BY <1>5 DEF CancelCheck
<1>6. ASSUME NEW c \in Cancellers, CancelWrite(c) PROVE (OneWinner /\ Winner)'
  BY <1>6 DEF CancelWrite
<1>7. ASSUME NEW a \in Attempts, ReadOrder(a) PROVE (OneWinner /\ Winner)'
  BY <1>7 DEF ReadOrder
<1>7a. ASSUME NEW a \in Attempts, CheckDraft(a) PROVE (OneWinner /\ Winner)'
  BY <1>7a DEF CheckDraft
<1>8. ASSUME NEW a \in Attempts, ReserveReturns(a) PROVE (OneWinner /\ Winner)'
  BY <1>8 DEF ReserveReturns, Reserves
<1>9. ASSUME NEW a \in Attempts, ReserveRefused(a) PROVE (OneWinner /\ Winner)'
  BY <1>9 DEF ReserveRefused, Reserves
<1>10. ASSUME NEW a \in Attempts, ReserveRetry(a) PROVE (OneWinner /\ Winner)'
  BY <1>10 DEF ReserveRetry, Reserves
<1>11. ASSUME NEW a \in Attempts, ReserveNew(a) PROVE (OneWinner /\ Winner)'
  BY <1>11 DEF ReserveNew, Reserves
<1>12. ASSUME NEW a \in Attempts, ReserveCommit(a) PROVE (OneWinner /\ Winner)'
  BY <1>12 DEF ReserveCommit
<1>13. ASSUME NEW a \in Attempts, Transmit(a) PROVE (OneWinner /\ Winner)'
  BY <1>13 DEF Transmit
<1>14. ASSUME NEW a \in Attempts, Complete(a) PROVE (OneWinner /\ Winner)'
  BY <1>14 DEF Complete, Completes
<1>15. ASSUME NEW a \in Attempts, CompleteConflict(a) PROVE (OneWinner /\ Winner)'
  BY <1>15 DEF CompleteConflict
<1>16. ASSUME NEW a \in Attempts, Fail(a) PROVE (OneWinner /\ Winner)'
  BY <1>16 DEF Fail
<1>17. CASE Crash
  BY <1>17 DEF Crash, InFlight
<1>18. CASE Tick
  BY <1>18 DEF Tick
<1>19. CASE UNCHANGED vars
  BY <1>19
<1> QED
  BY <1>1, <1>2, <1>3, <1>4, <1>5, <1>6, <1>7, <1>7a, <1>8, <1>9, <1>10, <1>11,
     <1>12, <1>13, <1>14, <1>15, <1>16, <1>17, <1>18, <1>19 DEF Next, Step

LEMMA NextEmailed == TypeOK /\ Emailed /\ [Next]_vars => Emailed'
<1> SUFFICES ASSUME TypeOK, Emailed, [Next]_vars
             PROVE  Emailed'
  OBVIOUS
<1> USE DEF TypeOK, Emailed, HasEmail, orderVars, saveVars, rowVars, sendVars,
     vars
<1>1. ASSUME NEW e \in Savers, OpenDraft(e) PROVE Emailed'
  BY <1>1 DEF OpenDraft
<1>2. ASSUME NEW e \in Savers, SaveDraft(e) PROVE Emailed'
  BY <1>2 DEF SaveDraft
<1>3. ASSUME NEW e \in Savers, SaveConflict(e) PROVE Emailed'
  BY <1>3 DEF SaveConflict
<1>4. CASE DeleteDraft
  BY <1>4 DEF DeleteDraft
<1>5. ASSUME NEW c \in Cancellers, CancelCheck(c) PROVE Emailed'
  BY <1>5 DEF CancelCheck
<1>6. ASSUME NEW c \in Cancellers, CancelWrite(c) PROVE Emailed'
  BY <1>6 DEF CancelWrite
<1>7. ASSUME NEW a \in Attempts, ReadOrder(a) PROVE Emailed'
  BY <1>7 DEF ReadOrder
<1>7a. ASSUME NEW a \in Attempts, CheckDraft(a) PROVE Emailed'
  BY <1>7a DEF CheckDraft
<1>8. ASSUME NEW a \in Attempts, ReserveReturns(a) PROVE Emailed'
  BY <1>8 DEF ReserveReturns
<1>9. ASSUME NEW a \in Attempts, ReserveRefused(a) PROVE Emailed'
  BY <1>9 DEF ReserveRefused
<1>10. ASSUME NEW a \in Attempts, ReserveRetry(a) PROVE Emailed'
  BY <1>10 DEF ReserveRetry
<1>11. ASSUME NEW a \in Attempts, ReserveNew(a) PROVE Emailed'
  BY <1>11 DEF ReserveNew
<1>12. ASSUME NEW a \in Attempts, ReserveCommit(a) PROVE Emailed'
  BY <1>12 DEF ReserveCommit
<1>13. ASSUME NEW a \in Attempts, Transmit(a) PROVE Emailed'
  <2>1. mailbox \subseteq mailbox'
    BY <1>13 DEF Transmit, Accepts
  <2>2. pc'[a] = "transmitted" => HasEmail(a)'
    <3>1. CASE Delivered(a) = {}
      <4> DEFINE m == [by |-> a, key |-> keyOf[a], via |-> via[a], content |-> seen[a]]
      <4>1. pc'[a] = "transmitted" => m \in mailbox'
        BY <1>13, <3>1 DEF Transmit, Accepts, ProviderKey
      <4>2. m.key = keyOf'[a] /\ m.content = seen'[a]
        BY <1>13 DEF Transmit
      <4> HIDE DEF m
      <4> QED
        BY <4>1, <4>2
    <3>2. CASE Delivered(a) # {}
      BY <1>13, <3>2 DEF Transmit, Accepts, Delivered, ProviderKey
    <3> QED
      BY <3>1, <3>2
  <2>3. \A b \in Attempts \ {a} : pc'[b] = pc[b] /\ (HasEmail(b) => HasEmail(b)')
    BY <1>13, <2>1 DEF Transmit
  <2>4. pc'[a] # "sent"
    BY <1>13 DEF Transmit
  <2> QED
    BY <2>2, <2>3, <2>4 DEF Emailed
<1>14. ASSUME NEW a \in Attempts, Complete(a) PROVE Emailed'
  BY <1>14 DEF Complete
<1>15. ASSUME NEW a \in Attempts, CompleteConflict(a) PROVE Emailed'
  BY <1>15 DEF CompleteConflict
<1>16. ASSUME NEW a \in Attempts, Fail(a) PROVE Emailed'
  BY <1>16 DEF Fail
<1>17. CASE Crash
  BY <1>17 DEF Crash, InFlight
<1>18. CASE Tick
  BY <1>18 DEF Tick
<1>19. CASE UNCHANGED vars
  BY <1>19
<1> QED
  BY <1>1, <1>2, <1>3, <1>4, <1>5, <1>6, <1>7, <1>7a, <1>8, <1>9, <1>10, <1>11,
     <1>12, <1>13, <1>14, <1>15, <1>16, <1>17, <1>18, <1>19 DEF Next, Step

LEMMA NextMailboxKeys == TypeOK /\ MailboxKeys /\ [Next]_vars => MailboxKeys'
<1> SUFFICES ASSUME TypeOK, MailboxKeys, [Next]_vars
             PROVE  MailboxKeys'
  OBVIOUS
<1> USE DEF TypeOK, MailboxKeys, Email, orderVars, saveVars, rowVars,
     sendVars, vars
<1>1. ASSUME NEW e \in Savers, OpenDraft(e) PROVE MailboxKeys'
  BY <1>1 DEF OpenDraft
<1>2. ASSUME NEW e \in Savers, SaveDraft(e) PROVE MailboxKeys'
  BY <1>2 DEF SaveDraft
<1>3. ASSUME NEW e \in Savers, SaveConflict(e) PROVE MailboxKeys'
  BY <1>3 DEF SaveConflict
<1>4. CASE DeleteDraft
  BY <1>4 DEF DeleteDraft
<1>5. ASSUME NEW c \in Cancellers, CancelCheck(c) PROVE MailboxKeys'
  BY <1>5 DEF CancelCheck
<1>6. ASSUME NEW c \in Cancellers, CancelWrite(c) PROVE MailboxKeys'
  BY <1>6 DEF CancelWrite
<1>7. ASSUME NEW a \in Attempts, ReadOrder(a) PROVE MailboxKeys'
  BY <1>7 DEF ReadOrder
<1>7a. ASSUME NEW a \in Attempts, CheckDraft(a) PROVE MailboxKeys'
  BY <1>7a DEF CheckDraft
<1>8. ASSUME NEW a \in Attempts, ReserveReturns(a) PROVE MailboxKeys'
  BY <1>8 DEF ReserveReturns
<1>9. ASSUME NEW a \in Attempts, ReserveRefused(a) PROVE MailboxKeys'
  BY <1>9 DEF ReserveRefused
<1>10. ASSUME NEW a \in Attempts, ReserveRetry(a) PROVE MailboxKeys'
  BY <1>10 DEF ReserveRetry
<1>11. ASSUME NEW a \in Attempts, ReserveNew(a) PROVE MailboxKeys'
  BY <1>11 DEF ReserveNew
<1>12. ASSUME NEW a \in Attempts, ReserveCommit(a) PROVE MailboxKeys'
  BY <1>12 DEF ReserveCommit
<1>13. ASSUME NEW a \in Attempts, Transmit(a) PROVE MailboxKeys'
  BY <1>13 DEF Transmit, Accepts, Delivered, ProviderKey
<1>14. ASSUME NEW a \in Attempts, Complete(a) PROVE MailboxKeys'
  BY <1>14 DEF Complete
<1>15. ASSUME NEW a \in Attempts, CompleteConflict(a) PROVE MailboxKeys'
  BY <1>15 DEF CompleteConflict
<1>16. ASSUME NEW a \in Attempts, Fail(a) PROVE MailboxKeys'
  BY <1>16 DEF Fail
<1>17. CASE Crash
  BY <1>17 DEF Crash, InFlight
<1>18. CASE Tick
  BY <1>18 DEF Tick
<1>19. CASE UNCHANGED vars
  BY <1>19
<1> QED
  BY <1>1, <1>2, <1>3, <1>4, <1>5, <1>6, <1>7, <1>7a, <1>8, <1>9, <1>10, <1>11,
     <1>12, <1>13, <1>14, <1>15, <1>16, <1>17, <1>18, <1>19 DEF Next, Step

LEMMA NextSaves == TypeOK /\ SavesKept /\ Sessions /\ [Next]_vars => (SavesKept /\ Sessions)'
<1> SUFFICES ASSUME TypeOK, SavesKept, Sessions, [Next]_vars
             PROVE  (SavesKept /\ Sessions)'
  OBVIOUS
<1> USE DEF TypeOK, SavesKept, Sessions, Savers, orderVars, saveVars, rowVars,
     sendVars, vars
<1>1. ASSUME NEW e \in Savers, OpenDraft(e) PROVE (SavesKept /\ Sessions)'
  BY <1>1 DEF OpenDraft
<1>2. ASSUME NEW e \in Savers, SaveDraft(e) PROVE (SavesKept /\ Sessions)'
  BY <1>2 DEF SaveDraft, Claims
<1>3. ASSUME NEW e \in Savers, SaveConflict(e) PROVE (SavesKept /\ Sessions)'
  BY <1>3 DEF SaveConflict
<1>4. CASE DeleteDraft
  BY <1>4 DEF DeleteDraft, Mutable
<1>5. ASSUME NEW c \in Cancellers, CancelCheck(c) PROVE (SavesKept /\ Sessions)'
  BY <1>5 DEF CancelCheck
<1>6. ASSUME NEW c \in Cancellers, CancelWrite(c) PROVE (SavesKept /\ Sessions)'
  BY <1>6 DEF CancelWrite
<1>7. ASSUME NEW a \in Attempts, ReadOrder(a) PROVE (SavesKept /\ Sessions)'
  BY <1>7 DEF ReadOrder
<1>7a. ASSUME NEW a \in Attempts, CheckDraft(a) PROVE (SavesKept /\ Sessions)'
  BY <1>7a DEF CheckDraft
<1>8. ASSUME NEW a \in Attempts, ReserveReturns(a) PROVE (SavesKept /\ Sessions)'
  BY <1>8 DEF ReserveReturns
<1>9. ASSUME NEW a \in Attempts, ReserveRefused(a) PROVE (SavesKept /\ Sessions)'
  BY <1>9 DEF ReserveRefused
<1>10. ASSUME NEW a \in Attempts, ReserveRetry(a) PROVE (SavesKept /\ Sessions)'
  BY <1>10 DEF ReserveRetry
<1>11. ASSUME NEW a \in Attempts, ReserveNew(a) PROVE (SavesKept /\ Sessions)'
  BY <1>11 DEF ReserveNew
<1>12. ASSUME NEW a \in Attempts, ReserveCommit(a) PROVE (SavesKept /\ Sessions)'
  BY <1>12 DEF ReserveCommit
<1>13. ASSUME NEW a \in Attempts, Transmit(a) PROVE (SavesKept /\ Sessions)'
  BY <1>13 DEF Transmit
<1>14. ASSUME NEW a \in Attempts, Complete(a) PROVE (SavesKept /\ Sessions)'
  BY <1>14 DEF Complete
<1>15. ASSUME NEW a \in Attempts, CompleteConflict(a) PROVE (SavesKept /\ Sessions)'
  BY <1>15 DEF CompleteConflict
<1>16. ASSUME NEW a \in Attempts, Fail(a) PROVE (SavesKept /\ Sessions)'
  BY <1>16 DEF Fail
<1>17. CASE Crash
  BY <1>17 DEF Crash
<1>18. CASE Tick
  BY <1>18 DEF Tick
<1>19. CASE UNCHANGED vars
  BY <1>19
<1> QED
  BY <1>1, <1>2, <1>3, <1>4, <1>5, <1>6, <1>7, <1>7a, <1>8, <1>9, <1>10, <1>11,
     <1>12, <1>13, <1>14, <1>15, <1>16, <1>17, <1>18, <1>19 DEF Next, Step

LEMMA InitIInv == Init => IInv
  BY InitTypeOK DEF Init, IInv, Chosen, Reached, SentRowHasSentOrder, OneWinner,
     Winner, Emailed, MailboxKeys, SavesKept, Sessions, Savers

LEMMA NextIInv == IInv /\ [Next]_vars => IInv'
  BY NextTypeOK, NextChosen, NextReached, NextSentRow, NextWinner, NextEmailed,
     NextMailboxKeys, NextSaves DEF IInv

THEOREM Inductive == Spec => []IInv
  BY InitIInv, NextIInv, PTL DEF Spec

-------------------------------------------------------------------------------
\* Type correctness: every variable keeps the values its code can hold.
THEOREM TypeCorrect == Spec => []TypeOK
  BY Inductive, PTL DEF IInv

\* A dispatch recorded SENT belongs to an order that was sent and still exists:
\* complete writes both, and nothing else writes either the other way.
THEOREM SentRowCorrect == Spec => []SentRowHasSentOrder
  BY Inductive, PTL DEF IInv

\* However many requests send the order, one of them at most marks it sent.
THEOREM OneWinnerCorrect == Spec => []OneWinner
  BY Inductive, PTL DEF IInv

\* An order is SENT on the confirmation of a provider, with the content read.
THEOREM SentWasDeliveredCorrect == Spec => []SentWasDelivered
<1>1. IInv => SentWasDelivered
  BY DEF IInv, Winner, Emailed, HasEmail, SentWasDelivered
<1> QED
  BY Inductive, <1>1, PTL

\* Accepted saves stay in the draft until a create or duplicate replaces it.
THEOREM SavesKeptCorrect == Spec => []SavesKept
  BY Inductive, PTL DEF IInv

\* Resend delivers one e-mail per idempotency key whatever is retried under it.
THEOREM ResendOnceCorrect == Spec => []ResendOncePerKey
<1>1. IInv => ResendOncePerKey
  BY DEF IInv, MailboxKeys, ResendOncePerKey
<1> QED
  BY Inductive, <1>1, PTL

-------------------------------------------------------------------------------
\* Every step of the requests moves the status along the table, rewrites or
\* deletes a draft, or leaves status and content alone.
LEMMA StepLifecycle ==
  IInv /\ [Next]_vars => [Lifecycle!Next]_(Lifecycle!vars)
<1> SUFFICES ASSUME IInv, [Next]_vars
             PROVE  [Lifecycle!Next]_(Lifecycle!vars)
  OBVIOUS
<1> USE DEF IInv, Lifecycle!vars, orderVars, saveVars, rowVars, sendVars, vars
<1>1. ASSUME NEW e \in Savers, SaveDraft(e) PROVE Lifecycle!Edit
  BY <1>1 DEF SaveDraft, Claims, TypeOK, Contents, Lifecycle!Edit,
     Mutable, Lifecycle!Mutable
<1>2. CASE DeleteDraft
  BY <1>2 DEF DeleteDraft, Lifecycle!Next, Lifecycle!Delete, Mutable,
     Lifecycle!Mutable, Deleted, Lifecycle!Deleted
<1>3. ASSUME NEW c \in Cancellers, CancelWrite(c)
      PROVE  Lifecycle!Move \/ UNCHANGED <<status, content>>
  BY <1>3 DEF CancelWrite, Reached, Lifecycle!Move, Lifecycle!CanTransition,
     Lifecycle!OrderStatus, Lifecycle!Transitions
<1>4. ASSUME NEW a \in Attempts, Complete(a) PROVE Lifecycle!Move
  BY <1>4 DEF Complete, Completes, Lifecycle!Move, Lifecycle!CanTransition,
     Lifecycle!OrderStatus, Lifecycle!Transitions
<1>5. ASSUME NEW e \in Savers, OpenDraft(e) \/ SaveConflict(e)
      PROVE  UNCHANGED <<status, content>>
  BY <1>5 DEF OpenDraft, SaveConflict
<1>6. ASSUME NEW c \in Cancellers, CancelCheck(c)
      PROVE  UNCHANGED <<status, content>>
  BY <1>6 DEF CancelCheck
<1>7. ASSUME NEW a \in Attempts, ReadOrder(a) \/ Step(a), ~Complete(a)
      PROVE  UNCHANGED <<status, content>>
  BY <1>7 DEF Step, ReadOrder, CheckDraft, ReserveReturns, ReserveRefused, ReserveRetry,
     ReserveNew, ReserveCommit, Transmit, CompleteConflict, Fail
<1>8. CASE Crash \/ Tick \/ UNCHANGED vars
  BY <1>8 DEF Crash, Tick
<1> QED
  BY <1>1, <1>2, <1>3, <1>4, <1>5, <1>6, <1>7, <1>8 DEF Next, Lifecycle!Next, Step

\* The requests implement the lifecycle of an order.
THEOREM LifecycleCorrect == Spec => LifecycleSpec
<1>1. Init => Lifecycle!Init
  BY DEF Init, Lifecycle!Init, Contents
<1> QED
  BY <1>1, StepLifecycle, Inductive, PTL DEF Spec, LifecycleSpec, Lifecycle!Spec

-------------------------------------------------------------------------------
(***************************************************************************)
(* Why the supplier is e-mailed twice.  Until a send has failed or one has *)
(* been taken over, and among the requests that no confirmation crossed,   *)
(* one dispatch row at most is being sent; it belongs to every request     *)
(* that has committed its reservation, and is as young as the last of      *)
(* them.  So the next request needs the same key and a reservation as old  *)
(* as the timeout.                                                         *)
(***************************************************************************)
Emails(a) == \E m \in mailbox : m.by = a

\* The request has committed its reservation, as far as anyone can tell, and no
\* confirmation fell between the queries it was made from.
Sends(a) ==
  /\ a \notin crossed
  /\ pc[a] \in {"transmitting", "transmitted", "failing", "sent"} \/ Emails(a)

Undisturbed == \A a \in Attempts : pc[a] # "failed" /\ supersedes[a] = NoKey

\* Nobody has confirmed a send of the order, which still exists.
Unsent == status # Deleted /\ \A a \in Attempts : pc[a] # "sent"

LateMail ==
  \A m \in mailbox :
    pc[m.by] \notin {"idle", "rendered", "checked", "reserved", "transmitting"}

Holder ==
  \A a \in Attempts :
    /\ pc[a] \in {"checked", "reserved"} => sendLock = a
    /\ pc[a] \in {"idle", "rendered", "checked"} => supersedes[a] = NoKey

\* A confirmation since a request found the draft has crossed it.
CrossedKnown ==
  /\ crossed # {} => \E a \in Attempts : pc[a] = "sent"
  /\ \A b \in Attempts : pc[b] = "checked" /\ b \notin crossed =>
       \A a \in Attempts : pc[a] # "sent"

NoFailedRow == \A k \in Keys : rowStatus[k] # "FAILED"

OneKeySending ==
  Unsent => \A j, k \in Keys :
    rowStatus[j] = "SENDING" /\ rowStatus[k] = "SENDING" => j = k

SendsKept ==
  Unsent => \A a \in Attempts : Sends(a) =>
    rowStatus[keyOf[a]] = "SENDING" /\ at[a] <= rowAt[keyOf[a]]

SendsApart ==
  \A a, b \in Attempts : a # b /\ Sends(a) /\ Sends(b) =>
    keyOf[a] = keyOf[b] /\ Apart(at[a], at[b])

\* What a request that holds the lock has checked stays so until it commits.
ReservedAfter ==
  status # Deleted => \A b \in Attempts \ crossed : pc[b] = "reserved" =>
    /\ \A k \in Keys : rowStatus[k] = "SENDING" => k = keyOf[b]
    /\ \A a \in Attempts : Sends(a) => keyOf[a] = keyOf[b] /\ at[a] + Timeout <= at[b]

Quiet == NoFailedRow /\ OneKeySending /\ SendsKept /\ SendsApart /\ ReservedAfter

CauseInv == LateMail /\ Holder /\ CrossedKnown /\ (Undisturbed => Quiet)

LEMMA NextLateMail == TypeOK /\ LateMail /\ [Next]_vars => LateMail'
<1> SUFFICES ASSUME TypeOK, LateMail, [Next]_vars
             PROVE  LateMail'
  OBVIOUS
<1> USE DEF TypeOK, LateMail, Email, orderVars, saveVars, rowVars, sendVars, vars
<1>1. ASSUME NEW a \in Attempts, Transmit(a) PROVE LateMail'
  <2>1. \A m \in mailbox' : m \in mailbox \/ m.by = a
    BY <1>1 DEF Transmit, Accepts
  <2>2. pc'[a] \in {"transmitted", "failing"} /\ \A b \in Attempts \ {a} : pc'[b] = pc[b]
    BY <1>1 DEF Transmit
  <2> QED BY <2>1, <2>2
<1>2. ASSUME NEW a \in Attempts, ReadOrder(a) \/ Step(a), ~Transmit(a)
      PROVE  LateMail'
  <2>1. /\ \/ pc[a] \in {"idle", "rendered", "checked", "reserved"}
           \/ pc'[a] \in {"sent", "failing", "failed"}
        /\ \A b \in Attempts \ {a} : pc'[b] = pc[b]
        /\ UNCHANGED mailbox
    BY <1>2 DEF Step, ReadOrder, CheckDraft, ReserveReturns, ReserveRefused, ReserveRetry,
       ReserveNew, ReserveCommit, Complete, CompleteConflict, Fail, Reserves
  <2> QED BY <2>1
<1>3. CASE Crash
  BY <1>3 DEF Crash
<1>4. ASSUME \/ \E e \in Savers : OpenDraft(e) \/ SaveDraft(e) \/ SaveConflict(e)
             \/ DeleteDraft
             \/ \E c \in Cancellers : CancelCheck(c) \/ CancelWrite(c)
             \/ Tick \/ UNCHANGED vars
      PROVE  LateMail'
  BY <1>4 DEF OpenDraft, SaveDraft, SaveConflict, DeleteDraft, CancelCheck, CancelWrite,
     Tick
<1> QED BY <1>1, <1>2, <1>3, <1>4 DEF Next

LEMMA NextHolder == TypeOK /\ Holder /\ [Next]_vars => Holder'
<1> SUFFICES ASSUME TypeOK, Holder, [Next]_vars
             PROVE  Holder'
  OBVIOUS
<1> USE DEF TypeOK, Holder, orderVars, saveVars, rowVars, sendVars, vars
<1>1. ASSUME NEW a \in Attempts, CheckDraft(a) PROVE Holder'
  BY <1>1, NoneAssumption DEF CheckDraft
<1>2. ASSUME NEW a \in Attempts, ReserveRetry(a) \/ ReserveNew(a) PROVE Holder'
  <2>1. /\ pc[a] = "checked" /\ sendLock' = sendLock
        /\ pc' = [pc EXCEPT ![a] = "reserved"]
        /\ \A b \in Attempts \ {a} : supersedes'[b] = supersedes[b]
    BY <1>2 DEF ReserveRetry, ReserveNew
  <2> QED BY <2>1
<1>2a. ASSUME NEW a \in Attempts, ReserveCommit(a) PROVE Holder'
  BY <1>2a DEF ReserveCommit
<1>2b. ASSUME NEW a \in Attempts, ReserveReturns(a) \/ ReserveRefused(a) PROVE Holder'
  <2>1. /\ sendLock \in {a, NoLock} /\ UNCHANGED supersedes
        /\ \E s \in {"returned", "refused"} : pc' = [pc EXCEPT ![a] = s]
    BY <1>2b DEF ReserveReturns, ReserveRefused, Reserves
  <2> QED BY <2>1, NoneAssumption
<1>3. ASSUME NEW a \in Attempts,
             \/ ReadOrder(a) \/ Transmit(a)
             \/ Complete(a) \/ CompleteConflict(a) \/ Fail(a)
      PROVE  Holder'
  BY <1>3 DEF ReadOrder, Transmit, Complete, CompleteConflict, Fail
<1>4. CASE Crash
  BY <1>4 DEF Crash, InFlight
<1>5. ASSUME \/ \E e \in Savers : OpenDraft(e) \/ SaveDraft(e) \/ SaveConflict(e)
             \/ DeleteDraft
             \/ \E c \in Cancellers : CancelCheck(c) \/ CancelWrite(c)
             \/ Tick \/ UNCHANGED vars
      PROVE  Holder'
  BY <1>5 DEF OpenDraft, SaveDraft, SaveConflict, DeleteDraft, CancelCheck, CancelWrite,
     Tick
<1> QED BY <1>1, <1>2, <1>2a, <1>2b, <1>3, <1>4, <1>5 DEF Next, Step

LEMMA NextCrossedKnown ==
  TypeOK /\ Reached /\ Winner /\ CrossedKnown /\ [Next]_vars => CrossedKnown'
<1> SUFFICES ASSUME TypeOK, Reached, Winner, CrossedKnown, [Next]_vars
             PROVE  CrossedKnown'
  OBVIOUS
<1> USE DEF TypeOK, CrossedKnown, orderVars, saveVars, rowVars, sendVars, vars
<1>1. ASSUME NEW a \in Attempts, CheckDraft(a) PROVE CrossedKnown'
  <2>1. status = "DRAFT"
    BY <1>1 DEF CheckDraft, CanTransition, Transitions, OrderStatus, Reached, Deleted
  <2>2. \A b \in Attempts : pc[b] # "sent"
    BY <2>1 DEF Winner
  <2> QED BY <1>1, <2>2 DEF CheckDraft
<1>2. ASSUME NEW a \in Attempts, Complete(a) PROVE CrossedKnown'
  BY <1>2 DEF Complete
<1>3. ASSUME NEW a \in Attempts, ReadOrder(a) \/ Step(a), ~CheckDraft(a), ~Complete(a)
      PROVE  CrossedKnown'
  <2>1. /\ \A b \in Attempts \ {a} : pc'[b] = pc[b]
        /\ pc[a] # "sent" /\ pc'[a] # "checked" /\ pc'[a] # "sent" /\ UNCHANGED crossed
    BY <1>3 DEF Step, ReadOrder, ReserveReturns, ReserveRefused, ReserveRetry, ReserveNew,
       ReserveCommit, Transmit, CompleteConflict, Fail, Reserves
  <2> QED BY <2>1
<1>4. CASE Crash
  BY <1>4 DEF Crash, InFlight
<1>5. ASSUME \/ \E e \in Savers : OpenDraft(e) \/ SaveDraft(e) \/ SaveConflict(e)
             \/ DeleteDraft
             \/ \E c \in Cancellers : CancelCheck(c) \/ CancelWrite(c)
             \/ Tick \/ UNCHANGED vars
      PROVE  CrossedKnown'
  BY <1>5 DEF OpenDraft, SaveDraft, SaveConflict, DeleteDraft, CancelCheck, CancelWrite,
     Tick
<1> QED BY <1>1, <1>2, <1>3, <1>4, <1>5 DEF Next, Step

\* Failures and takeovers are not forgotten.
LEMMA StaysDisturbed ==
  ASSUME TypeOK, Holder, [Next]_vars, Undisturbed'
  PROVE  Undisturbed
<1> USE DEF TypeOK, Undisturbed, orderVars, saveVars, rowVars, sendVars, vars
<1>1. ASSUME NEW a \in Attempts, ReserveRetry(a) \/ ReserveNew(a) PROVE Undisturbed
  <2>1. /\ pc[a] = "checked"
        /\ pc' = [pc EXCEPT ![a] = "reserved"]
        /\ \A b \in Attempts \ {a} : supersedes'[b] = supersedes[b]
    BY <1>1 DEF ReserveRetry, ReserveNew
  <2> QED BY <2>1 DEF Holder
<1>2. ASSUME NEW a \in Attempts, ReadOrder(a) \/ Step(a),
             ~ReserveRetry(a), ~ReserveNew(a)
      PROVE  Undisturbed
  <2>1. /\ UNCHANGED supersedes
        /\ pc[a] # "failed"
        /\ \A b \in Attempts \ {a} : pc'[b] = pc[b]
    BY <1>2 DEF Step, ReadOrder, CheckDraft, ReserveReturns, ReserveRefused, ReserveCommit,
       Transmit, Complete, CompleteConflict, Fail, Reserves
  <2> QED BY <2>1
<1>3. CASE Crash
  BY <1>3 DEF Crash, InFlight
<1>4. ASSUME \/ \E e \in Savers : OpenDraft(e) \/ SaveDraft(e) \/ SaveConflict(e)
             \/ DeleteDraft
             \/ \E c \in Cancellers : CancelCheck(c) \/ CancelWrite(c)
             \/ Tick \/ UNCHANGED vars
      PROVE  Undisturbed
  BY <1>4 DEF OpenDraft, SaveDraft, SaveConflict, DeleteDraft, CancelCheck, CancelWrite,
     Tick
<1> QED BY <1>1, <1>2, <1>3, <1>4 DEF Next, Step

\* A step that neither reserves nor commits a reservation.
Calm ==
  /\ \A a \in Attempts : Sends(a)' => Sends(a) /\ keyOf'[a] = keyOf[a] /\ at'[a] = at[a]
  /\ \A a \in Attempts : pc'[a] = "reserved" =>
       pc[a] = "reserved" /\ keyOf'[a] = keyOf[a] /\ at'[a] = at[a]
  /\ \A k \in Keys : rowStatus'[k] \in {"SENDING", "FAILED"} => rowStatus'[k] = rowStatus[k]
  /\ status' # Deleted => status # Deleted
  /\ crossed \subseteq crossed'
  /\ Unsent' => Unsent /\ UNCHANGED rowVars

LEMMA CalmStep ==
  ASSUME TypeOK, LateMail, [Next]_vars, Undisturbed',
         \A a \in Attempts : ~ReserveRetry(a) /\ ~ReserveNew(a) /\ ~ReserveCommit(a)
  PROVE  Calm
<1> USE DEF TypeOK, Calm, Sends, Emails, Unsent, orderVars, saveVars, rowVars, sendVars, vars
<1>1. ASSUME NEW a \in Attempts, ReadOrder(a) PROVE Calm
  <2>1. /\ \A b \in Attempts \ {a} : pc'[b] = pc[b] /\ keyOf'[b] = keyOf[b] /\ at'[b] = at[b]
        /\ pc[a] = "idle" /\ pc'[a] = "rendered"
        /\ UNCHANGED <<status, rowVars, mailbox, crossed>>
    BY <1>1 DEF ReadOrder
  <2>2. ~Emails(a)
    BY <1>1 DEF ReadOrder, LateMail
  <2> QED BY <2>1, <2>2
<1>1a. ASSUME NEW a \in Attempts, CheckDraft(a) PROVE Calm
  <2>1. /\ \A b \in Attempts \ {a} : pc'[b] = pc[b] /\ at'[b] = at[b]
        /\ pc[a] = "rendered" /\ pc'[a] = "checked"
        /\ UNCHANGED <<status, rowVars, mailbox, keyOf, crossed>>
    BY <1>1a DEF CheckDraft
  <2>2. ~Emails(a)
    BY <2>1 DEF LateMail
  <2> QED BY <2>1, <2>2
<1>2. ASSUME NEW a \in Attempts, ReserveReturns(a) \/ ReserveRefused(a) PROVE Calm
  BY <1>2 DEF ReserveReturns, ReserveRefused, Reserves
<1>3. ASSUME NEW a \in Attempts, Transmit(a) PROVE Calm
  <2>1. \A m \in mailbox' : m \in mailbox \/ m.by = a
    BY <1>3 DEF Transmit, Accepts
  <2>2. /\ pc[a] = "transmitting" /\ pc'[a] \in {"transmitted", "failing"}
        /\ \A b \in Attempts \ {a} : pc'[b] = pc[b]
        /\ UNCHANGED <<status, rowVars, keyOf, at, crossed>>
    BY <1>3 DEF Transmit
  <2> QED BY <2>1, <2>2
<1>4. ASSUME NEW a \in Attempts, Complete(a) PROVE Calm
  <2>1. /\ pc[a] = "transmitted" /\ pc' = [pc EXCEPT ![a] = "sent"]
        /\ crossed \subseteq crossed'
        /\ status = "DRAFT" /\ UNCHANGED <<keyOf, at, mailbox>>
        /\ rowStatus' = [rowStatus EXCEPT ![keyOf[a]] = "SENT"]
    BY <1>4 DEF Complete, Completes
  <2>2. ~Unsent'
    BY <2>1
  <2>3. \A b \in Attempts : Sends(b)' => Sends(b)
    BY <2>1
  <2>4. \A k \in Keys : rowStatus'[k] \in {"SENDING", "FAILED"} => rowStatus'[k] = rowStatus[k]
    BY <2>1
  <2> QED BY <2>1, <2>2, <2>3, <2>4 DEF Deleted
<1>4a. ASSUME NEW a \in Attempts, CompleteConflict(a) PROVE Calm
  BY <1>4a DEF CompleteConflict
<1>5. ASSUME NEW a \in Attempts, Fail(a) PROVE Calm
  BY <1>5 DEF Fail, Undisturbed
<1>6. CASE Crash
  BY <1>6 DEF Crash, InFlight
<1>7. ASSUME \/ \E e \in Savers : OpenDraft(e) \/ SaveDraft(e) \/ SaveConflict(e)
             \/ \E c \in Cancellers : CancelCheck(c) \/ CancelWrite(c)
             \/ Tick \/ UNCHANGED vars
      PROVE  Calm
  BY <1>7 DEF OpenDraft, SaveDraft, SaveConflict, CancelCheck, CancelWrite, Tick, Deleted
<1>8. CASE DeleteDraft
  BY <1>8 DEF DeleteDraft, Deleted
<1> QED BY <1>1, <1>1a, <1>2, <1>3, <1>4, <1>4a, <1>5, <1>6, <1>7, <1>8 DEF Next, Step

LEMMA CalmQuiet ==
  ASSUME TypeOK, Chosen, Quiet, Calm
  PROVE  Quiet'
<1> USE DEF Quiet, Calm
<1>1. NoFailedRow' /\ OneKeySending'
  BY DEF NoFailedRow, OneKeySending
<1>2. SendsKept'
  BY DEF SendsKept, rowVars
<1>3. SendsApart'
  BY DEF SendsApart, Apart
<1>4. ReservedAfter'
  BY DEF ReservedAfter
<1> QED BY <1>1, <1>2, <1>3, <1>4

\* A request that holds the lock finds the row that is being sent, if there is
\* one: under another key it would take it over, under its own it finds it stale.
LEMMA ReserveQuiet ==
  ASSUME TypeOK, Chosen, MailboxKeys, LateMail, Holder, CrossedKnown, Quiet, Undisturbed',
         NEW b \in Attempts, ReserveRetry(b) \/ ReserveNew(b)
  PROVE  Quiet'
<1>1. /\ pc[b] = "checked" /\ sendLock = b /\ keyOf[b] \in Keys
      /\ pc' = [pc EXCEPT ![b] = "reserved"]
      /\ UNCHANGED <<status, rowVars, mailbox, keyOf, at, crossed>>
  BY DEF ReserveRetry, ReserveNew, orderVars, Holder, Chosen
<1>2. \/ rowStatus[keyOf[b]] \notin {"none", "SENT"} /\ ~FreshAt(keyOf[b], at[b])
      \/ LatestActive = {}
  <2>1. CASE ReserveRetry(b)
    BY <2>1 DEF ReserveRetry
  <2>2. CASE ReserveNew(b)
    <3>1. supersedes'[b] = NoKey
      BY DEF Undisturbed
    <3>2. \/ LatestActive = {}
          \/ \E k \in LatestActive : supersedes' = [supersedes EXCEPT ![b] = k]
      BY <2>2 DEF ReserveNew
    <3>3. LatestActive \subseteq Keys
      BY DEF LatestActive
    <3> QED
      BY <3>1, <3>2, <3>3, NoneAssumption DEF TypeOK
  <2> QED BY <2>1, <2>2
<1>3. ~Emails(b)
  BY <1>1 DEF Emails, LateMail
<1>4. \A a \in Attempts : /\ Sends(a)' <=> Sends(a)
                          /\ Sends(a) => a # b
  BY <1>1, <1>3 DEF Sends, Emails, TypeOK
<1>5. \A a \in Attempts \ {b} : pc'[a] # "reserved"
  BY <1>1, NoneAssumption DEF Holder, TypeOK
<1>6. Unsent' <=> Unsent
  BY <1>1 DEF Unsent, TypeOK
<1>7. ASSUME b \notin crossed, status # Deleted
      PROVE  /\ \A k \in Keys : rowStatus[k] = "SENDING" => k = keyOf[b]
             /\ \A a \in Attempts : Sends(a) => keyOf[a] = keyOf[b] /\ at[a] + Timeout <= at[b]
  <2>0. Unsent
    BY <1>1, <1>7 DEF Unsent, CrossedKnown
  <2>a. \A a \in Attempts : Sends(a) =>
          /\ keyOf[a] \in Keys
          /\ rowStatus[keyOf[a]] = "SENDING" /\ at[a] <= rowAt[keyOf[a]]
    <3> SUFFICES ASSUME NEW a \in Attempts, Sends(a) PROVE keyOf[a] \in Keys
      BY <2>0 DEF Quiet, SendsKept
    <3>1. pc[a] # "idle"
      BY DEF Sends, Emails, MailboxKeys
    <3> QED BY <3>1 DEF Chosen
  <2>1. CASE LatestActive = {}
    <3>1. \A k \in Keys : rowStatus[k] # "SENDING"
      <4> SUFFICES ASSUME NEW k \in Keys, rowStatus[k] = "SENDING"
                   PROVE  FALSE
        OBVIOUS
      <4>1. \A j \in Keys : rowStatus[j] = "SENDING" => j = k
        BY <2>0 DEF Quiet, OneKeySending
      <4>2. rowAt[k] <= rowAt[k]
        BY DEF TypeOK
      <4>3. k \in LatestActive
        BY <4>1, <4>2 DEF LatestActive
      <4> QED BY <2>1, <4>3
    <3> QED BY <3>1, <2>a
  <2>2. CASE rowStatus[keyOf[b]] \notin {"none", "SENT"} /\ ~FreshAt(keyOf[b], at[b])
    <3>1. rowStatus[keyOf[b]] = "SENDING"
      BY <1>1, <2>2 DEF TypeOK, Quiet, NoFailedRow
    <3>2. rowAt[keyOf[b]] + Timeout <= at[b]
      BY <1>1, <2>2, <3>1, TimeoutAssumption DEF FreshAt, TypeOK
    <3>3. \A k \in Keys : rowStatus[k] = "SENDING" => k = keyOf[b]
      BY <1>1, <2>0, <3>1 DEF Quiet, OneKeySending
    <3>4. ASSUME NEW a \in Attempts, Sends(a)
          PROVE  keyOf[a] = keyOf[b] /\ at[a] + Timeout <= at[b]
      <4>1. keyOf[a] = keyOf[b] /\ at[a] <= rowAt[keyOf[b]]
        BY <2>a, <3>3, <3>4
      <4>2. at[a] \in Nat /\ at[b] \in Nat /\ rowAt[keyOf[b]] \in Nat
        BY <1>1 DEF TypeOK
      <4> QED BY <3>2, <4>1, <4>2, TimeoutAssumption
    <3> QED BY <3>3, <3>4
  <2> QED BY <1>2, <2>1, <2>2
<1>8. NoFailedRow' /\ OneKeySending'
  BY <1>1, <1>6 DEF Quiet, NoFailedRow, OneKeySending, rowVars
<1>9. SendsKept'
  BY <1>1, <1>4, <1>6 DEF Quiet, SendsKept, rowVars
<1>10. SendsApart'
  BY <1>1, <1>4 DEF Quiet, SendsApart, Apart
<1>11. ReservedAfter'
  <2> SUFFICES ASSUME status # Deleted, NEW c \in Attempts \ crossed, pc'[c] = "reserved"
               PROVE  /\ \A k \in Keys : rowStatus'[k] = "SENDING" => k = keyOf'[c]
                      /\ \A a \in Attempts : Sends(a)' =>
                           keyOf'[a] = keyOf'[c] /\ at'[a] + Timeout <= at'[c]
    BY <1>1 DEF ReservedAfter
  <2>1. c = b
    BY <1>5
  <2> QED BY <1>1, <1>4, <1>7, <2>1 DEF rowVars
<1> QED BY <1>8, <1>9, <1>10, <1>11 DEF Quiet

\* The commit of a reservation writes what ReservedAfter promised.
LEMMA CommitQuiet ==
  ASSUME TypeOK, Chosen, MailboxKeys, LateMail, Holder, CrossedKnown, Quiet, Undisturbed',
         NEW b \in Attempts, ReserveCommit(b), status # Deleted
  PROVE  Quiet'
<1>1. /\ pc[b] = "reserved" /\ sendLock = b
      /\ keyOf[b] \in Keys /\ supersedes[b] = NoKey
      /\ pc' = [pc EXCEPT ![b] = "transmitting"]
      /\ rowAt' = [rowAt EXCEPT ![keyOf[b]] = at[b]]
      /\ UNCHANGED <<status, mailbox, keyOf, at, crossed>>
  BY DEF ReserveCommit, Chosen, Undisturbed, orderVars, sendVars
<1>2. \A k \in Keys : rowStatus'[k] = IF k = keyOf[b] THEN "SENDING" ELSE rowStatus[k]
  BY <1>1, NoneAssumption DEF ReserveCommit
<1>3. b \notin crossed =>
        /\ \A k \in Keys : rowStatus[k] = "SENDING" => k = keyOf[b]
        /\ \A a \in Attempts : Sends(a) => keyOf[a] = keyOf[b] /\ at[a] + Timeout <= at[b]
  BY <1>1 DEF Quiet, ReservedAfter
<1>4. \A a \in Attempts : Sends(a)' => (a = b /\ b \notin crossed) \/ Sends(a)
  BY <1>1 DEF Sends, Emails, TypeOK
<1>5. \A a \in Attempts : at[a] \in Nat
  BY DEF TypeOK
<1>6. Unsent' => b \notin crossed
  BY <1>1 DEF Unsent, CrossedKnown, TypeOK
<1>7. NoFailedRow' /\ OneKeySending'
  BY <1>2, <1>3, <1>6 DEF Quiet, NoFailedRow, OneKeySending
<1>8. SendsKept'
  <2> SUFFICES ASSUME b \notin crossed, NEW a \in Attempts, Sends(a)'
               PROVE  rowStatus'[keyOf'[a]] = "SENDING" /\ at'[a] <= rowAt'[keyOf'[a]]
    BY <1>6 DEF SendsKept
  <2>1. keyOf'[a] = keyOf[b] /\ at'[a] = at[a]
    BY <1>1, <1>3, <1>4
  <2>2. at[a] <= at[b]
    BY <1>3, <1>4, <1>5, TimeoutAssumption
  <2>3. rowAt'[keyOf[b]] = at[b]
    BY <1>1 DEF TypeOK
  <2> QED BY <1>1, <1>2, <2>1, <2>2, <2>3
<1>9. SendsApart'
  BY <1>1, <1>3, <1>4 DEF Quiet, SendsApart, Apart
<1>10. ReservedAfter'
  BY <1>1 DEF ReservedAfter, Holder, TypeOK
<1> QED BY <1>7, <1>8, <1>9, <1>10 DEF Quiet

LEMMA NextQuiet ==
  ASSUME TypeOK, Chosen, MailboxKeys, CauseInv, [Next]_vars, Undisturbed'
  PROVE  Quiet'
<1>1. LateMail /\ Holder /\ CrossedKnown /\ Quiet
  BY StaysDisturbed DEF CauseInv
<1>2. CASE \E a \in Attempts : ReserveRetry(a) \/ ReserveNew(a)
  BY <1>1, <1>2, ReserveQuiet
<1>3. ASSUME NEW a \in Attempts, ReserveCommit(a), status # Deleted
      PROVE  Quiet'
  BY <1>1, <1>3, CommitQuiet
<1>4. ASSUME NEW a \in Attempts, ReserveCommit(a), status = Deleted
      PROVE  Quiet'
  <2>1. Calm
    BY <1>4 DEF ReserveCommit, Calm, Sends, Emails, Unsent, TypeOK, orderVars, sendVars, rowVars
  <2> QED BY <1>1, <2>1, CalmQuiet
<1>5. CASE \A a \in Attempts : ~ReserveRetry(a) /\ ~ReserveNew(a) /\ ~ReserveCommit(a)
  BY <1>1, <1>5, CalmStep, CalmQuiet
<1> QED BY <1>2, <1>3, <1>4, <1>5

\* A second e-mail to the supplier has a cause: a failed send, a takeover, the
\* same key after the timeout, or a confirmation between the queries of one of
\* the two reservations; never two requests running side by side otherwise.
THEOREM SecondEmailCorrect == Spec => []SecondEmailHasCause
<1>1. Init => CauseInv
  BY DEF Init, CauseInv, LateMail, Holder, CrossedKnown, Quiet, NoFailedRow, OneKeySending,
     SendsKept, SendsApart, ReservedAfter, Sends, Emails
<1>2. IInv /\ CauseInv /\ [Next]_vars => CauseInv'
  BY NextLateMail, NextHolder, NextCrossedKnown, NextQuiet DEF CauseInv, IInv
<1>3. IInv /\ CauseInv => SecondEmailHasCause
  <2> SUFFICES ASSUME IInv, CauseInv, NEW m \in mailbox, NEW n \in mailbox, m.by # n.by,
                      Undisturbed, m.by \notin crossed, n.by \notin crossed
               PROVE  m.key = n.key /\ Apart(at[m.by], at[n.by])
    BY DEF SecondEmailHasCause, Undisturbed
  <2>1. m.by \in Attempts /\ n.by \in Attempts
    BY DEF IInv, TypeOK, Email
  <2>2. Sends(m.by) /\ Sends(n.by)
    BY DEF Sends, Emails
  <2>3. m.key = keyOf[m.by] /\ n.key = keyOf[n.by]
    BY DEF IInv, MailboxKeys
  <2> QED BY <2>1, <2>2, <2>3 DEF CauseInv, Quiet, SendsApart
<1> QED BY <1>1, <1>2, <1>3, Inductive, PTL DEF Spec

-------------------------------------------------------------------------------
(***************************************************************************)
(* How the dispatch that sent the order loses its SENT.  The same argument *)
(* for one key alone: until a request fails under the key, or another key  *)
(* takes it over, its row is the one of every request that has committed   *)
(* it, so a request that reserves it again comes a timeout after them all. *)
(***************************************************************************)
Committed(a) == pc[a] \in {"transmitting", "transmitted", "failing", "sent"}

UndisturbedKey(k) ==
  \A a \in Attempts : (keyOf[a] = k => pc[a] # "failed") /\ supersedes[a] # k

\* Nobody has confirmed a send under the key.
UnsentKey(k) ==
  status # Deleted /\ \A a \in Attempts : pc[a] = "sent" => keyOf[a] # k

CommittedKept(k) ==
  UnsentKey(k) => \A a \in Attempts : Committed(a) /\ keyOf[a] = k =>
    rowStatus[k] = "SENDING" /\ at[a] <= rowAt[k]

LockedAfter(k) ==
  status # Deleted => \A a, b \in Attempts :
    Committed(a) /\ pc[b] = "reserved" /\ keyOf[a] = k /\ keyOf[b] = k =>
      at[a] + Timeout <= at[b]

\* What a request that holds the lock will read of a key confirmed since.
CheckedAfter(k) ==
  status # Deleted /\ (\E b \in Attempts : pc[b] = "checked") =>
    UnsentKey(k) \/ rowStatus[k] = "SENT"

KeyQuiet(k) ==
  rowStatus[k] # "FAILED" /\ CommittedKept(k) /\ LockedAfter(k) /\ CheckedAfter(k)

KeyInv == \A k \in Keys : UndisturbedKey(k) => KeyQuiet(k)

LEMMA KeyStaysDisturbed ==
  ASSUME TypeOK, Holder, [Next]_vars, NEW k \in Keys, UndisturbedKey(k)'
  PROVE  UndisturbedKey(k)
<1> USE DEF TypeOK, UndisturbedKey, orderVars, saveVars, rowVars, sendVars, vars
<1>1. ASSUME NEW a \in Attempts, ReserveRetry(a) \/ ReserveNew(a) PROVE UndisturbedKey(k)
  <2>1. /\ pc[a] = "checked"
        /\ pc' = [pc EXCEPT ![a] = "reserved"]
        /\ UNCHANGED keyOf
        /\ \A b \in Attempts \ {a} : supersedes'[b] = supersedes[b]
    BY <1>1 DEF ReserveRetry, ReserveNew
  <2>2. supersedes[a] = NoKey
    BY <2>1 DEF Holder
  <2> QED BY <2>1, <2>2, NoneAssumption
<1>2. ASSUME NEW a \in Attempts, ReadOrder(a) \/ Step(a),
             ~ReserveRetry(a), ~ReserveNew(a)
      PROVE  UndisturbedKey(k)
  <2>1. /\ UNCHANGED supersedes
        /\ pc[a] # "failed"
        /\ \A b \in Attempts \ {a} : pc'[b] = pc[b] /\ keyOf'[b] = keyOf[b]
    BY <1>2 DEF Step, ReadOrder, CheckDraft, ReserveReturns, ReserveRefused, ReserveCommit,
       Transmit, Complete, CompleteConflict, Fail, Reserves
  <2> QED BY <2>1
<1>3. CASE Crash
  BY <1>3 DEF Crash, InFlight
<1>4. ASSUME \/ \E e \in Savers : OpenDraft(e) \/ SaveDraft(e) \/ SaveConflict(e)
             \/ DeleteDraft
             \/ \E c \in Cancellers : CancelCheck(c) \/ CancelWrite(c)
             \/ Tick \/ UNCHANGED vars
      PROVE  UndisturbedKey(k)
  BY <1>4 DEF OpenDraft, SaveDraft, SaveConflict, DeleteDraft, CancelCheck, CancelWrite,
     Tick
<1> QED BY <1>1, <1>2, <1>3, <1>4 DEF Next, Step

\* A step that neither reserves nor commits a reservation, seen from key k.
KeyCalm(k) ==
  /\ \A a \in Attempts : Committed(a)' =>
       Committed(a) /\ keyOf'[a] = keyOf[a] /\ at'[a] = at[a]
  /\ \A a \in Attempts : pc'[a] = "reserved" =>
       pc[a] = "reserved" /\ keyOf'[a] = keyOf[a] /\ at'[a] = at[a]
  /\ rowStatus'[k] = "FAILED" => rowStatus[k] = "FAILED"
  /\ status' # Deleted => status # Deleted
  /\ UnsentKey(k)' =>
       UnsentKey(k) /\ rowStatus'[k] = rowStatus[k] /\ UNCHANGED rowAt
  /\ CheckedAfter(k) => CheckedAfter(k)'

LEMMA KeyCalmStep ==
  ASSUME TypeOK, Chosen, Reached, Winner, [Next]_vars, NEW k \in Keys, UndisturbedKey(k)',
         \A a \in Attempts : ~ReserveRetry(a) /\ ~ReserveNew(a) /\ ~ReserveCommit(a)
  PROVE  KeyCalm(k)
<1> USE DEF TypeOK, KeyCalm, Committed, UnsentKey, CheckedAfter, orderVars, saveVars, rowVars, sendVars, vars
<1>1. ASSUME NEW a \in Attempts, ReadOrder(a) PROVE KeyCalm(k)
  BY <1>1 DEF ReadOrder
<1>1a. ASSUME NEW a \in Attempts, CheckDraft(a) PROVE KeyCalm(k)
  <2>1. status = "DRAFT"
    BY <1>1a DEF CheckDraft, CanTransition, Transitions, OrderStatus, Reached, Deleted
  <2>2. \A b \in Attempts : pc[b] # "sent"
    BY <2>1 DEF Winner
  <2>3. /\ pc[a] = "rendered" /\ pc'[a] = "checked"
        /\ \A b \in Attempts \ {a} : pc'[b] = pc[b] /\ at'[b] = at[b]
        /\ UNCHANGED <<status, rowVars, keyOf>>
    BY <1>1a DEF CheckDraft
  <2> QED BY <2>1, <2>2, <2>3 DEF Deleted
<1>2. ASSUME NEW a \in Attempts, ReserveReturns(a) \/ ReserveRefused(a) PROVE KeyCalm(k)
  BY <1>2 DEF ReserveReturns, ReserveRefused, Reserves
<1>3. ASSUME NEW a \in Attempts, Transmit(a) PROVE KeyCalm(k)
  <2>1. /\ pc[a] = "transmitting" /\ pc'[a] \in {"transmitted", "failing"}
        /\ \A b \in Attempts \ {a} : pc'[b] = pc[b]
        /\ UNCHANGED <<status, rowVars, keyOf, at>>
    BY <1>3 DEF Transmit
  <2> QED BY <2>1
<1>4. ASSUME NEW a \in Attempts, Complete(a) PROVE KeyCalm(k)
  BY <1>4 DEF Complete, Completes, Chosen, Deleted
<1>4a. ASSUME NEW a \in Attempts, CompleteConflict(a) PROVE KeyCalm(k)
  BY <1>4a DEF CompleteConflict
<1>5. ASSUME NEW a \in Attempts, Fail(a) PROVE KeyCalm(k)
  <2>1. pc'[a] = "failed" /\ keyOf' = keyOf
    BY <1>5 DEF Fail
  <2>2. keyOf[a] # k
    BY <2>1 DEF UndisturbedKey
  <2> QED BY <1>5, <2>2 DEF Fail
<1>6. CASE Crash
  BY <1>6 DEF Crash, InFlight
<1>7. ASSUME \/ \E e \in Savers : OpenDraft(e) \/ SaveDraft(e) \/ SaveConflict(e)
             \/ \E c \in Cancellers : CancelCheck(c) \/ CancelWrite(c)
             \/ Tick \/ UNCHANGED vars
      PROVE  KeyCalm(k)
  BY <1>7 DEF OpenDraft, SaveDraft, SaveConflict, CancelCheck, CancelWrite, Tick, Deleted
<1>8. CASE DeleteDraft
  BY <1>8 DEF DeleteDraft, Deleted
<1> QED BY <1>1, <1>1a, <1>2, <1>3, <1>4, <1>4a, <1>5, <1>6, <1>7, <1>8 DEF Next, Step

LEMMA KeyCalmQuiet ==
  ASSUME TypeOK, NEW k \in Keys, KeyQuiet(k), KeyCalm(k)
  PROVE  KeyQuiet(k)'
<1> USE DEF KeyQuiet, KeyCalm
<1>1. CommittedKept(k)'
  BY DEF CommittedKept
<1>2. LockedAfter(k)'
  BY DEF LockedAfter
<1> QED BY <1>1, <1>2

\* A request that holds the lock for key k finds no row, or one grown stale.
LEMMA ReserveKeyQuiet ==
  ASSUME TypeOK, Chosen, Holder, NEW k \in Keys, KeyQuiet(k),
         NEW b \in Attempts, ReserveRetry(b) \/ ReserveNew(b)
  PROVE  KeyQuiet(k)'
<1>1. /\ pc[b] = "checked" /\ sendLock = b /\ keyOf[b] \in Keys
      /\ pc' = [pc EXCEPT ![b] = "reserved"]
      /\ UNCHANGED <<status, rowVars, keyOf, at>>
  BY DEF ReserveRetry, ReserveNew, orderVars, Holder, Chosen
<1>2. \/ rowStatus[keyOf[b]] \notin {"none", "SENT"} /\ ~FreshAt(keyOf[b], at[b])
      \/ rowStatus[keyOf[b]] = "none"
  BY DEF ReserveRetry, ReserveNew
<1>3. \A a \in Attempts : /\ Committed(a)' <=> Committed(a)
                          /\ Committed(a) => a # b
  BY <1>1 DEF Committed, TypeOK
<1>4. \A a \in Attempts : /\ pc'[a] = "reserved" => a = b
                          /\ pc'[a] # "checked"
  BY <1>1, NoneAssumption DEF Holder, TypeOK
<1>5. UnsentKey(k)' <=> UnsentKey(k)
  BY <1>1 DEF UnsentKey, TypeOK
<1>6. ASSUME status # Deleted, NEW a \in Attempts, Committed(a), keyOf[a] = k, keyOf[b] = k
      PROVE  at[a] + Timeout <= at[b]
  <2>0. UnsentKey(k)
    BY <1>1, <1>2, <1>6 DEF KeyQuiet, CheckedAfter
  <2>1. rowStatus[k] = "SENDING" /\ at[a] <= rowAt[k]
    BY <1>6, <2>0 DEF KeyQuiet, CommittedKept
  <2>2. rowAt[k] + Timeout <= at[b]
    BY <1>2, <1>6, <2>1, TimeoutAssumption DEF FreshAt, TypeOK
  <2>3. at[a] \in Nat /\ rowAt[k] \in Nat /\ at[b] \in Nat
    BY DEF TypeOK
  <2> QED BY <2>1, <2>2, <2>3, TimeoutAssumption
<1>7. CommittedKept(k)'
  BY <1>1, <1>3, <1>5 DEF KeyQuiet, CommittedKept, rowVars
<1>8. LockedAfter(k)'
  BY <1>1, <1>3, <1>4, <1>6 DEF LockedAfter
<1>9. CheckedAfter(k)'
  BY <1>4 DEF CheckedAfter
<1> QED BY <1>1, <1>7, <1>8, <1>9 DEF KeyQuiet, rowVars

LEMMA CommitKeyQuiet ==
  ASSUME TypeOK, Chosen, Holder, NEW k \in Keys, KeyQuiet(k), UndisturbedKey(k)',
         NEW b \in Attempts, ReserveCommit(b), status # Deleted
  PROVE  KeyQuiet(k)'
<1>1. /\ pc[b] = "reserved" /\ sendLock = b
      /\ keyOf[b] \in Keys /\ supersedes[b] # k
      /\ pc' = [pc EXCEPT ![b] = "transmitting"]
      /\ rowAt' = [rowAt EXCEPT ![keyOf[b]] = at[b]]
      /\ UNCHANGED <<status, keyOf, at>>
  BY DEF ReserveCommit, Chosen, UndisturbedKey, orderVars, sendVars
<1>2. rowStatus'[k] = IF k = keyOf[b] THEN "SENDING" ELSE rowStatus[k]
  BY <1>1 DEF ReserveCommit
<1>3. \A a \in Attempts : Committed(a)' => a = b \/ Committed(a)
  BY <1>1 DEF Committed, TypeOK
<1>4. rowAt'[k] = IF k = keyOf[b] THEN at[b] ELSE rowAt[k]
  BY <1>1 DEF TypeOK
<1>5. \A a \in Attempts : pc'[a] \notin {"checked", "reserved"}
  BY <1>1 DEF Holder, TypeOK
<1>5a. UnsentKey(k)' => UnsentKey(k)
  BY <1>1 DEF UnsentKey, TypeOK
<1>6. CommittedKept(k)'
  <2> SUFFICES ASSUME UnsentKey(k), NEW a \in Attempts, Committed(a)', keyOf[a] = k
               PROVE  rowStatus'[k] = "SENDING" /\ at[a] <= rowAt'[k]
    BY <1>1, <1>5a DEF CommittedKept
  <2>1. CASE keyOf[b] = k
    <3>1. a # b => at[a] + Timeout <= at[b]
      BY <1>1, <1>3, <2>1 DEF KeyQuiet, LockedAfter
    <3>2. at[a] \in Nat /\ at[b] \in Nat
      BY DEF TypeOK
    <3> QED BY <1>2, <1>4, <2>1, <3>1, <3>2, TimeoutAssumption
  <2>2. CASE keyOf[b] # k
    BY <1>2, <1>3, <1>4, <2>2 DEF KeyQuiet, CommittedKept
  <2> QED BY <2>1, <2>2
<1>7. LockedAfter(k)'
  BY <1>5 DEF LockedAfter
<1>8. CheckedAfter(k)'
  BY <1>5 DEF CheckedAfter
<1> QED BY <1>2, <1>6, <1>7, <1>8 DEF KeyQuiet

LEMMA NextKeyInv ==
  TypeOK /\ Chosen /\ Reached /\ Winner /\ Holder /\ KeyInv /\ [Next]_vars => KeyInv'
<1> SUFFICES ASSUME TypeOK, Chosen, Reached, Winner, Holder, KeyInv, [Next]_vars,
                    NEW k \in Keys, UndisturbedKey(k)'
             PROVE  KeyQuiet(k)'
  BY DEF KeyInv
<1>1. KeyQuiet(k)
  BY KeyStaysDisturbed DEF KeyInv
<1>2. CASE \E a \in Attempts : ReserveRetry(a) \/ ReserveNew(a)
  BY <1>1, <1>2, ReserveKeyQuiet
<1>3. ASSUME NEW a \in Attempts, ReserveCommit(a), status # Deleted
      PROVE  KeyQuiet(k)'
  BY <1>1, <1>3, CommitKeyQuiet
<1>4. ASSUME NEW a \in Attempts, ReserveCommit(a), status = Deleted
      PROVE  KeyQuiet(k)'
  <2>1. KeyCalm(k)
    BY <1>4 DEF ReserveCommit, KeyCalm, Committed, UnsentKey, CheckedAfter, TypeOK, orderVars, sendVars, rowVars
  <2> QED BY <1>1, <2>1, KeyCalmQuiet
<1>5. CASE \A a \in Attempts : ~ReserveRetry(a) /\ ~ReserveNew(a) /\ ~ReserveCommit(a)
  BY <1>1, <1>5, KeyCalmStep, KeyCalmQuiet
<1> QED BY <1>2, <1>3, <1>4, <1>5

\* A request takes over another key than its own.
OthersTaken == \A a \in Attempts : supersedes[a] \in Keys => supersedes[a] # keyOf[a]

LEMMA NextOthersTaken == TypeOK /\ Holder /\ OthersTaken /\ [Next]_vars => OthersTaken'
<1> SUFFICES ASSUME TypeOK, Holder, OthersTaken, [Next]_vars
             PROVE  OthersTaken'
  OBVIOUS
<1> USE DEF TypeOK, OthersTaken, orderVars, saveVars, rowVars, sendVars, vars
<1>1. ASSUME NEW a \in Attempts, ReserveRetry(a) \/ ReserveNew(a) PROVE OthersTaken'
  <2>1. /\ UNCHANGED keyOf
        /\ \A b \in Attempts \ {a} : supersedes'[b] = supersedes[b]
    BY <1>1 DEF ReserveRetry, ReserveNew
  <2>2. supersedes'[a] \in Keys => supersedes'[a] # keyOf[a]
    <3>1. CASE ReserveRetry(a)
      BY <3>1, NoneAssumption DEF ReserveRetry
    <3>2. CASE ReserveNew(a)
      BY <3>2, NoneAssumption DEF ReserveNew, LatestActive
    <3> QED BY <1>1, <3>1, <3>2
  <2> QED BY <2>1, <2>2
<1>2. ASSUME NEW a \in Attempts, ReadOrder(a) PROVE OthersTaken'
  <2>1. /\ supersedes[a] = NoKey /\ UNCHANGED supersedes
        /\ \A b \in Attempts \ {a} : keyOf'[b] = keyOf[b]
    BY <1>2 DEF ReadOrder, Holder
  <2> QED BY <2>1, NoneAssumption
<1>3. ASSUME NEW a \in Attempts, Step(a), ~ReserveRetry(a), ~ReserveNew(a)
      PROVE  OthersTaken'
  BY <1>3 DEF Step, CheckDraft, ReserveReturns, ReserveRefused, ReserveCommit, Transmit, Complete,
     CompleteConflict, Fail
<1>4. ASSUME \/ \E e \in Savers : OpenDraft(e) \/ SaveDraft(e) \/ SaveConflict(e)
             \/ DeleteDraft
             \/ \E c \in Cancellers : CancelCheck(c) \/ CancelWrite(c)
             \/ Crash \/ Tick \/ UNCHANGED vars
      PROVE  OthersTaken'
  BY <1>4 DEF OpenDraft, SaveDraft, SaveConflict, DeleteDraft, CancelCheck, CancelWrite,
     Crash, Tick
<1> QED BY <1>1, <1>2, <1>3, <1>4 DEF Next

\* What a request wrote, or took over, once the order has left DRAFT.
WriterKept(b) ==
  /\ Wrote(b) => Wrote(b)' /\ keyOf'[b] = keyOf[b] /\ at'[b] = at[b]
  /\ pc[b] = "failed" => pc'[b] = "failed"
  /\ pc[b] = "sent" => pc'[b] = "sent" /\ keyOf'[b] = keyOf[b] /\ at'[b] = at[b]
  /\ supersedes[b] # NoKey => supersedes'[b] = supersedes[b]

LEMMA NextWriterKept ==
  ASSUME TypeOK, Holder, [Next]_vars, status # "DRAFT", NEW b \in Attempts
  PROVE  WriterKept(b)
<1> USE DEF TypeOK, WriterKept, Wrote, orderVars, saveVars, rowVars, sendVars, vars
<1>1. ASSUME NEW a \in Attempts, ReserveRetry(a) \/ ReserveNew(a) PROVE WriterKept(b)
  <2>1. /\ pc[a] = "checked" /\ supersedes[a] = NoKey
        /\ pc' = [pc EXCEPT ![a] = "reserved"]
        /\ UNCHANGED <<keyOf, at>>
        /\ \A c \in Attempts \ {a} : supersedes'[c] = supersedes[c]
    BY <1>1 DEF ReserveRetry, ReserveNew, Holder
  <2> QED BY <2>1
<1>2. ASSUME NEW a \in Attempts, ReadOrder(a) \/ CheckDraft(a) PROVE WriterKept(b)
  BY <1>2 DEF ReadOrder, CheckDraft
<1>3. ASSUME NEW a \in Attempts, ReserveReturns(a) \/ ReserveRefused(a) \/ ReserveCommit(a)
      PROVE  WriterKept(b)
  BY <1>3 DEF ReserveReturns, ReserveRefused, ReserveCommit, Reserves
<1>4. ASSUME NEW a \in Attempts, Transmit(a) \/ CompleteConflict(a) \/ Fail(a)
      PROVE  WriterKept(b)
  BY <1>4 DEF Transmit, CompleteConflict, Fail
<1>5. ASSUME NEW a \in Attempts PROVE ~Complete(a)
  BY DEF Complete, Completes
<1>6. CASE Crash
  BY <1>6 DEF Crash, InFlight
<1>7. ASSUME \/ \E e \in Savers : OpenDraft(e) \/ SaveDraft(e) \/ SaveConflict(e)
             \/ DeleteDraft
             \/ \E c \in Cancellers : CancelCheck(c) \/ CancelWrite(c)
             \/ Tick \/ UNCHANGED vars
      PROVE  WriterKept(b)
  BY <1>7 DEF OpenDraft, SaveDraft, SaveConflict, DeleteDraft, CancelCheck, CancelWrite,
     Tick
<1> QED BY <1>1, <1>2, <1>3, <1>4, <1>5, <1>6, <1>7 DEF Next, Step

\* Once the order is sent or cancelled, a SENT row is written over by a failure
\* under its key, or by a reservation.
LEMMA SentRowWriters ==
  ASSUME TypeOK, [Next]_vars, status \in {"SENT", "CANCELLED"},
         NEW k \in Keys, rowStatus[k] = "SENT", rowStatus'[k] # "SENT"
  PROVE  \E b \in Attempts :
           \/ Fail(b) /\ keyOf[b] = k
           \/ ReserveCommit(b) /\ (keyOf[b] = k \/ supersedes[b] = k)
<1> USE DEF TypeOK, orderVars, saveVars, rowVars, sendVars, vars
<1>1. ASSUME NEW a \in Attempts, ReserveCommit(a)
      PROVE  keyOf[a] = k \/ supersedes[a] = k
  BY <1>1 DEF ReserveCommit
<1>2. ASSUME NEW a \in Attempts, Fail(a) PROVE keyOf[a] = k
  BY <1>2 DEF Fail
<1>3. ASSUME NEW a \in Attempts,
             \/ ReadOrder(a) \/ CheckDraft(a) \/ ReserveReturns(a) \/ ReserveRefused(a)
             \/ ReserveRetry(a) \/ ReserveNew(a) \/ Transmit(a) \/ Complete(a) \/ CompleteConflict(a)
      PROVE  FALSE
  BY <1>3 DEF ReadOrder, CheckDraft, ReserveReturns, ReserveRefused, ReserveRetry,
     ReserveNew, Transmit, Complete, Completes, CompleteConflict
<1>4. ASSUME \/ \E e \in Savers : OpenDraft(e) \/ SaveDraft(e) \/ SaveConflict(e)
             \/ DeleteDraft
             \/ \E c \in Cancellers : CancelCheck(c) \/ CancelWrite(c)
             \/ Crash \/ Tick \/ UNCHANGED vars
      PROVE  FALSE
  BY <1>4 DEF OpenDraft, SaveDraft, SaveConflict, DeleteDraft, Mutable, CancelCheck,
     CancelWrite, Crash, Tick
<1> QED BY <1>1, <1>2, <1>3, <1>4 DEF Next, Step

\* Why the row of a may say something else than SENT.
LossCause(a) ==
  \E b \in Attempts \ {a} :
    \/ supersedes[b] = keyOf[a]
    \/ /\ keyOf[b] = keyOf[a] /\ Wrote(b)
       /\ pc[b] = "failed" \/ Apart(at[a], at[b])

LEMMA CauseKept ==
  ASSUME TypeOK, Chosen, Holder, [Next]_vars, status # "DRAFT",
         NEW a \in Attempts, pc[a] = "sent", LossCause(a)
  PROVE  LossCause(a)'
<1>1. WriterKept(a) /\ keyOf[a] \in Keys
  BY NextWriterKept DEF Chosen
<1>2. PICK b \in Attempts \ {a} :
        \/ supersedes[b] = keyOf[a]
        \/ /\ keyOf[b] = keyOf[a] /\ Wrote(b)
           /\ pc[b] = "failed" \/ Apart(at[a], at[b])
  BY DEF LossCause
<1>3. WriterKept(b)
  BY NextWriterKept
<1> QED BY <1>1, <1>2, <1>3, NoneAssumption DEF LossCause, WriterKept, Apart

LEMMA NextSentRowLoss ==
  ASSUME IInv, Holder, KeyInv, OthersTaken, SentRowLossHasCause, [Next]_vars
  PROVE  SentRowLossHasCause'
<1> SUFFICES ASSUME NEW a \in Attempts, pc'[a] = "sent", rowStatus'[keyOf'[a]] # "SENT"
             PROVE  LossCause(a)'
  BY DEF SentRowLossHasCause, LossCause
<1> TypeOK /\ Chosen
  BY DEF IInv
<1>1. pc[a] = "sent"
  <2> SUFFICES ASSUME pc[a] # "sent" PROVE FALSE
    OBVIOUS
  <2>1. ~ \E b \in Attempts : Complete(b)
    BY DEF Complete, TypeOK, Chosen, sendVars
  <2> QED
    BY <2>1 DEF Next, Step, vars, TypeOK, OpenDraft, SaveDraft, SaveConflict, DeleteDraft,
       CancelCheck, CancelWrite, ReadOrder, CheckDraft, ReserveReturns, ReserveRefused, ReserveRetry,
       ReserveNew, ReserveCommit, Transmit, CompleteConflict, Fail, Crash, Tick
<1>2. status \in {"SENT", "CANCELLED"} /\ keyOf[a] \in Keys
  BY <1>1 DEF IInv, Winner, Chosen
<1>3. WriterKept(a)
  BY <1>2, NextWriterKept
<1>4. keyOf'[a] = keyOf[a] /\ at'[a] = at[a]
  BY <1>1, <1>3 DEF WriterKept
<1>5. CASE rowStatus[keyOf[a]] # "SENT"
  BY <1>1, <1>2, <1>5, CauseKept DEF SentRowLossHasCause, LossCause
<1>6. CASE rowStatus[keyOf[a]] = "SENT"
  <2>1. PICK b \in Attempts :
          \/ Fail(b) /\ keyOf[b] = keyOf[a]
          \/ ReserveCommit(b) /\ (keyOf[b] = keyOf[a] \/ supersedes[b] = keyOf[a])
    BY <1>2, <1>4, <1>6, SentRowWriters
  <2>2. CASE Fail(b) /\ keyOf[b] = keyOf[a]
    BY <1>1, <1>4, <2>2 DEF Fail, LossCause, Wrote, TypeOK, sendVars
  <2>3. CASE ReserveCommit(b) /\ supersedes[b] = keyOf[a]
    BY <1>1, <1>4, <2>3 DEF ReserveCommit, LossCause, sendVars
  <2>4. CASE ReserveCommit(b) /\ keyOf[b] = keyOf[a]
    <3>1. CASE UndisturbedKey(keyOf[a])
      <4>1. pc[b] = "reserved" /\ at[a] + Timeout <= at[b]
        BY <1>1, <1>2, <2>4, <3>1 DEF KeyInv, KeyQuiet, LockedAfter, Committed, ReserveCommit,
           Deleted
      <4>2. Wrote(b)' /\ UNCHANGED <<keyOf, at>>
        BY <1>2, <2>4 DEF ReserveCommit, Wrote, TypeOK, sendVars, Deleted
      <4> QED BY <1>1, <1>4, <2>4, <4>1, <4>2 DEF LossCause, Apart
    <3>2. CASE ~UndisturbedKey(keyOf[a])
      <4>1. PICK c \in Attempts :
              (keyOf[c] = keyOf[a] /\ pc[c] = "failed") \/ supersedes[c] = keyOf[a]
        BY <3>2 DEF UndisturbedKey
      <4>2. c # a
        BY <1>1, <1>2, <4>1 DEF OthersTaken
      <4>3. LossCause(a)
        BY <4>1, <4>2 DEF LossCause, Wrote
      <4> QED BY <1>1, <1>2, <4>3, CauseKept
    <3> QED BY <3>1, <3>2
  <2> QED BY <2>1, <2>2, <2>3, <2>4
<1> QED BY <1>5, <1>6

\* The dispatch that sent the order says SENT until another key takes it over,
\* or a request under its key fails or reserves it a timeout apart.
THEOREM SentRowLossCorrect == Spec => []SentRowLossHasCause
<1>1. Init => Holder /\ KeyInv /\ OthersTaken /\ SentRowLossHasCause
  BY NoneAssumption DEF Init, Holder, KeyInv, UndisturbedKey, KeyQuiet, CommittedKept,
     LockedAfter, CheckedAfter, Committed, OthersTaken, SentRowLossHasCause
<1>2. IInv /\ Holder /\ KeyInv /\ OthersTaken /\ SentRowLossHasCause /\ [Next]_vars
      => (Holder /\ KeyInv /\ OthersTaken /\ SentRowLossHasCause)'
  BY NextHolder, NextKeyInv, NextOthersTaken, NextSentRowLoss DEF IInv
<1> QED BY <1>1, <1>2, Inductive, PTL DEF Spec
===============================================================================
