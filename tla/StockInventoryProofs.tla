-------------------------- MODULE StockInventoryProofs --------------------------
(***************************************************************************)
(* Proofs about StockInventory, for any number of sites and of requests    *)
(* and any quantities.                                                     *)
(***************************************************************************)
EXTENDS StockInventory, TLAPS

(***************************************************************************)
(* The inductive invariant.                                                *)
(***************************************************************************)

Reading(r) == legs[r] # <<>> /\ read[r] # NoValue

\* What the calls a request has left add to a site.
Left(calls, s) ==
  (IF Len(calls) > 0 /\ calls[1].site = s THEN calls[1].delta ELSE 0)
  + (IF Len(calls) > 1 /\ calls[2].site = s THEN calls[2].delta ELSE 0)

\* A transfer has two calls to make, any other request one.
Calling ==
  \A r \in Writers :
    /\ Len(legs[r]) <= 2
    /\ pc[r] = "checked" => Len(legs[r]) <= 1
    /\ pc[r] = "checked" /\ r \in Adjusters => legs[r] # <<>> /\ read[r] # NoValue
    /\ pc[r] = "checked" /\ r \notin Adjusters => read[r] = NoValue
    /\ pc[r] \notin {"checked", "open"} => read[r] = NoValue /\ legs[r] = <<>>
    /\ pc[r] # "open" => posted[r] = Nothing /\ written[r] = Unwritten
    /\ legs[r] = <<>> => read[r] = NoValue

\* One transaction at a time holds the uncommitted version of a row.
RowsExclusive ==
  \A r, q \in Writers, s \in Sites :
    written[r][s] # NoValue /\ written[q][s] # NoValue => r = q

\* A movement, or an adjustment in its transaction, holds the ProductSite rows
\* of the stock rows it has written or will write.
SitesHeld ==
  \A r \in Movers \union Adjusters :
    pc[r] = "open" =>
      /\ \A i \in 1 .. Len(legs[r]) : siteLock[legs[r][i].site] = r
      /\ \A s \in Sites : written[r][s] # NoValue => siteLock[s] = r

Fresh(r) == \A q \in Writers : <<r, q>> \notin stale

\* What a request that nobody overtook has read is what it would read now.
ReadsFresh ==
  \A r \in Writers : Fresh(r) /\ Reading(r) => read[r] = Seen(r, legs[r][1].site)

\* What a transaction has written and what it has left to write make up its
\* movement.
Adds ==
  \A r \in Writers, s \in Sites :
    pc[r] = "open" =>
      /\ written[r][s] = NoValue => Left(legs[r], s) = posted[r][s]
      /\ written[r][s] # NoValue /\ Fresh(r) =>
           written[r][s] + Left(legs[r], s) = stock[s] + posted[r][s]

\* A validation runs on an inventory, and moves the counted site only.
Validating ==
  \A r \in Validators :
    /\ pc[r] \in {"checked", "open"} => inventory # "NONE"
    /\ \A i \in 1 .. Len(legs[r]) : legs[r][i].site = InventorySite

IInv ==
  /\ TypeOK /\ Calling /\ RowsExclusive /\ SitesHeld
  /\ ReadsFresh /\ Adds /\ Validating
  /\ DivergesOnlyByOvertaking /\ MovementsReadFresh /\ StatusTellsApplied

-------------------------------------------------------------------------------
\* What Tail leaves of the calls of a request.
LEMMA TailOfLegs ==
  ASSUME NEW calls \in Seq(Leg), calls # <<>>
  PROVE  /\ Tail(calls) \in Seq(Leg) /\ Len(calls) \in Nat /\ Len(calls) > 0
         /\ Len(Tail(calls)) = Len(calls) - 1
         /\ Head(calls) = calls[1] /\ Head(calls) \in Leg
         /\ \A i \in 1 .. Len(Tail(calls)) : Tail(calls)[i] = calls[i + 1]
OBVIOUS

LEMMA LegAt ==
  ASSUME NEW calls \in Seq(Leg), NEW i \in 1 .. Len(calls)
  PROVE  calls[i].site \in Sites /\ calls[i].delta \in Int
<1>1. calls[i] \in Leg
  OBVIOUS
<1> QED BY <1>1 DEF Leg

\* Sequences of one and of two calls.
LEMMA OneLeg ==
  ASSUME NEW a \in Leg
  PROVE  <<a>> \in Seq(Leg) /\ Len(<<a>>) = 1 /\ <<a>>[1] = a /\ <<a>> # <<>>
OBVIOUS

LEMMA TwoLegs ==
  ASSUME NEW a \in Leg, NEW b \in Leg
  PROVE  /\ <<a, b>> \in Seq(Leg) /\ Len(<<a, b>>) = 2
         /\ <<a, b>>[1] = a /\ <<a, b>>[2] = b /\ <<a, b>> # <<>>
OBVIOUS

LEMMA NoLegs == <<>> \in Seq(Leg) /\ Len(<<>>) = 0 /\ \A s : Left(<<>>, s) = 0
BY DEF Left

\* What one call, and the two calls of a transfer, add.
LEMMA LeftOne ==
  ASSUME NEW a \in Leg, NEW s \in Sites
  PROVE  Left(<<a>>, s) = Entry(a.site, a.delta)[s]
BY OneLeg DEF Left, Entry, Leg

LEMMA LeftTwo ==
  ASSUME NEW t \in Sites, NEW u \in Sites, NEW q \in Int, NEW s \in Sites
  PROVE  Left(<<At(t, -q), At(u, q)>>, s) = Between(t, u, q)[s]
<1>1. At(t, -q) \in Leg /\ At(u, q) \in Leg
  BY DEF At, Leg
<1> QED
  BY <1>1, TwoLegs DEF Left, Between, At, Leg

\* The first call and the others.
LEMMA LeftTail ==
  ASSUME NEW calls \in Seq(Leg), calls # <<>>, Len(calls) <= 2, NEW s \in Sites
  PROVE  /\ Left(calls, s) \in Int /\ Left(Tail(calls), s) \in Int
         /\ Left(calls, s) = (IF Head(calls).site = s THEN Head(calls).delta ELSE 0)
                             + Left(Tail(calls), s)
<1> DEFINE rest == Tail(calls)
<1>1. /\ Len(calls) \in Nat /\ Len(calls) > 0 /\ Len(rest) = Len(calls) - 1
      /\ Head(calls) = calls[1]
      /\ \A i \in 1 .. Len(rest) : rest[i] = calls[i + 1]
  BY TailOfLegs
<1>2. calls[1].delta \in Int /\ (Len(calls) = 2 => calls[2].delta \in Int)
  BY <1>1, LegAt
<1> HIDE DEF rest
<1>3. /\ Left(calls, s) \in Int /\ Left(rest, s) \in Int
      /\ Left(calls, s) = (IF calls[1].site = s THEN calls[1].delta ELSE 0)
                          + Left(rest, s)
  <2>1. CASE Len(calls) = 1
    BY <1>1, <1>2, <2>1 DEF Left
  <2>2. CASE Len(calls) = 2
    <3>1. Len(rest) = 1 /\ rest[1] = calls[2]
      BY <1>1, <2>2
    <3> QED
      BY <1>2, <2>2, <3>1 DEF Left
  <2> QED BY <1>1, <2>1, <2>2
<1> QED BY <1>1, <1>3 DEF rest

LEMMA LeftInt ==
  ASSUME NEW calls \in Seq(Leg), Len(calls) <= 2, NEW s \in Sites
  PROVE  Left(calls, s) \in Int
BY LeftTail, NoLegs

-------------------------------------------------------------------------------
LEMMA InitInv == Init => IInv
<1> SUFFICES ASSUME Init PROVE IInv
  OBVIOUS
<1> USE DEF Init
<1>1. TypeOK
  BY SitesAssumption, QuantitiesAssumption, NoLegs
  DEF TypeOK, Unwritten, Nothing, Requests, Writers
<1>2. Calling /\ RowsExclusive
  BY NoLegs DEF Calling, RowsExclusive, Unwritten, Requests, Writers
<1>3. SitesHeld /\ ReadsFresh /\ Adds
  BY DEF SitesHeld, ReadsFresh, Reading, Adds, Requests, Writers
<1>4. Validating
  BY NoLegs DEF Validating, Requests, Writers
<1>5. DivergesOnlyByOvertaking /\ MovementsReadFresh /\ StatusTellsApplied
  BY DEF DivergesOnlyByOvertaking, MovementsReadFresh, StatusTellsApplied
<1> QED BY <1>1, <1>2, <1>3, <1>4, <1>5 DEF IInv

-------------------------------------------------------------------------------
\* A transaction that opens with calls that make up its movement keeps the
\* invariant.
LEMMA OpensInv ==
  ASSUME IInv, NEW r \in Writers, NEW calls \in Seq(Leg),
         NEW movement \in [Sites -> Int],
         Opens(r, calls, movement),
         pc[r] \in {"idle", "checked"},
         Len(calls) <= 2,
         \A s \in Sites : Left(calls, s) = movement[s],
         read[r] = NoValue \/ calls = legs[r],
         \A s \in Sites : siteLock'[s] = siteLock[s]
                         \/ (siteLock[s] = Nobody /\ siteLock'[s] = r),
         siteLock' \in [Sites -> Writers \union {Nobody}],
         r \in Movers \union Adjusters =>
           \A i \in 1 .. Len(calls) : siteLock'[calls[i].site] = r,
         r \in Validators => /\ pc[r] = "checked"
                             /\ \A i \in 1 .. Len(calls) : calls[i].site = InventorySite,
         lineLock' \in Validators \union {Nobody},
         UNCHANGED <<stock, moved, read, written, inventoryVars, history>>
  PROVE  IInv'
<1> USE DEF Opens, inventoryVars, history
<1>0. /\ legs'[r] = calls /\ pc'[r] = "open" /\ posted'[r] = movement
      /\ \A q \in Writers \ {r} :
           legs'[q] = legs[q] /\ pc'[q] = pc[q] /\ posted'[q] = posted[q]
      /\ r \in Requests /\ r # Nobody
      /\ pc[r] # "open" /\ written[r] = Unwritten
  BY NoneAssumption DEF IInv, TypeOK, Requests, Calling
<1>1. TypeOK'
  BY DEF IInv, TypeOK, Requests
<1>2. Calling'
  BY <1>0 DEF IInv, Calling
<1>3. RowsExclusive'
  BY DEF IInv, RowsExclusive
<1>4. SitesHeld'
  <2> SUFFICES ASSUME NEW q \in Movers \union Adjusters, pc'[q] = "open"
               PROVE  /\ \A i \in 1 .. Len(legs'[q]) : siteLock'[legs'[q][i].site] = q
                      /\ \A s \in Sites : written'[q][s] # NoValue => siteLock'[s] = q
    BY DEF SitesHeld
  <2>1. CASE q = r
    BY <1>0, <2>1 DEF Unwritten
  <2>2. CASE q # r
    <3>1. q \in Writers /\ pc[q] = "open" /\ legs'[q] = legs[q]
      BY <1>0, <2>2 DEF Writers
    <3>2. \A i \in 1 .. Len(legs[q]) : legs[q][i].site \in Sites
      BY <3>1, LegAt DEF IInv, TypeOK
    <3>3. /\ \A i \in 1 .. Len(legs[q]) : siteLock[legs[q][i].site] = q
          /\ \A s \in Sites : written[q][s] # NoValue => siteLock[s] = q
      BY <3>1 DEF IInv, SitesHeld
    <3>4. \A s \in Sites : siteLock[s] = q => siteLock'[s] = q
      BY <3>1, NoneAssumption DEF Requests
    <3> QED
      BY <3>1, <3>2, <3>3, <3>4
  <2> QED BY <2>1, <2>2
<1>5. ReadsFresh'
  <2> SUFFICES ASSUME NEW q \in Writers, Fresh(q), legs'[q] # <<>>, read[q] # NoValue
               PROVE  read[q] = Seen(q, legs'[q][1].site)
    BY DEF ReadsFresh, Fresh, Reading, Seen
  <2>1. legs'[q] = legs[q]
    BY <1>0
  <2> QED
    BY <2>1 DEF IInv, ReadsFresh, Reading
<1>6. Adds'
  BY <1>0 DEF IInv, Adds, Fresh, Unwritten
<1>7. Validating'
  BY <1>0 DEF IInv, Validating, Writers
<1>8. DivergesOnlyByOvertaking' /\ MovementsReadFresh' /\ StatusTellsApplied'
  BY DEF IInv, DivergesOnlyByOvertaking, MovementsReadFresh, StatusTellsApplied
<1> QED BY <1>1, <1>2, <1>3, <1>4, <1>5, <1>6, <1>7, <1>8 DEF IInv

\* The ProductSite rows a request takes were free.
LEMMA TakesSitesFree ==
  ASSUME IInv, NEW r \in Writers, NEW S \in SUBSET Sites, TakesSites(r, S)
  PROVE  /\ \A s \in Sites : siteLock'[s] = siteLock[s]
                             \/ (siteLock[s] = Nobody /\ siteLock'[s] = r)
         /\ siteLock' \in [Sites -> Writers \union {Nobody}]
         /\ \A s \in S : siteLock'[s] = r
BY DEF IInv, TypeOK, TakesSites

\* Entries and transfers are quantities by site.
LEMMA EntryType ==
  ASSUME NEW s \in Sites, NEW d \in Int
  PROVE  Entry(s, d) \in [Sites -> Int] /\ At(s, d) \in Leg
BY DEF Entry, At, Leg

LEMMA BetweenType ==
  ASSUME NEW s \in Sites, NEW t \in Sites, NEW q \in Int
  PROVE  Between(s, t, q) \in [Sites -> Int]
BY DEF Between

LEMMA MoveInv ==
  ASSUME IInv, NEW r \in Movers, Move(r)
  PROVE  IInv'
<1>1. /\ r \in Writers /\ pc[r] = "idle" /\ read[r] = NoValue
      /\ r \notin Validators /\ lineLock' \in Validators \union {Nobody}
      /\ UNCHANGED <<stock, moved, read, written, inventoryVars, history>>
  BY RequestsAssumption DEF Move, Writers, IInv, Calling, TypeOK
<1>2. PICK q \in Quantities, s \in Sites :
        \/ \E d \in {q, -q} : TakesSites(r, {s}) /\ Opens(r, <<At(s, d)>>, Entry(s, d))
        \/ \E t \in Sites : /\ TakesSites(r, {s, t})
                            /\ Opens(r, <<At(s, -q), At(t, q)>>, Between(s, t, q))
  BY DEF Move
<1>3. q \in Int /\ -q \in Int
  BY QuantitiesAssumption
<1>4. CASE \E d \in {q, -q} : TakesSites(r, {s}) /\ Opens(r, <<At(s, d)>>, Entry(s, d))
  <2>1. PICK d \in {q, -q} : TakesSites(r, {s}) /\ Opens(r, <<At(s, d)>>, Entry(s, d))
    BY <1>4
  <2>2. /\ At(s, d) \in Leg /\ At(s, d).site = s /\ At(s, d).delta = d
        /\ Entry(s, d) \in [Sites -> Int]
    BY <1>3, EntryType DEF At
  <2>3. /\ <<At(s, d)>> \in Seq(Leg) /\ Len(<<At(s, d)>>) <= 2
        /\ \A u \in Sites : Left(<<At(s, d)>>, u) = Entry(s, d)[u]
        /\ \A i \in 1 .. Len(<<At(s, d)>>) : <<At(s, d)>>[i].site \in {s}
    BY <2>2, OneLeg, LeftOne
  <2>4. /\ \A u \in Sites : siteLock'[u] = siteLock[u]
                            \/ (siteLock[u] = Nobody /\ siteLock'[u] = r)
        /\ siteLock' \in [Sites -> Writers \union {Nobody}]
        /\ siteLock'[s] = r
    BY <1>1, <2>1, TakesSitesFree
  <2> DEFINE calls == <<At(s, d)>>
  <2>5. \A i \in 1 .. Len(calls) : siteLock'[calls[i].site] = r
    BY <2>3, <2>4
  <2>6. /\ Opens(r, calls, Entry(s, d))
        /\ calls \in Seq(Leg) /\ Len(calls) <= 2
        /\ \A u \in Sites : Left(calls, u) = Entry(s, d)[u]
    BY <2>1, <2>3
  <2> HIDE DEF calls
  <2> QED
    BY <1>1, <2>2, <2>4, <2>5, <2>6, OpensInv
<1>5. CASE \E t \in Sites : /\ TakesSites(r, {s, t})
                            /\ Opens(r, <<At(s, -q), At(t, q)>>, Between(s, t, q))
  <2>1. PICK t \in Sites : /\ TakesSites(r, {s, t})
                           /\ Opens(r, <<At(s, -q), At(t, q)>>, Between(s, t, q))
    BY <1>5
  <2>2. /\ At(s, -q) \in Leg /\ At(t, q) \in Leg
        /\ At(s, -q).site = s /\ At(t, q).site = t
        /\ Between(s, t, q) \in [Sites -> Int]
    BY <1>3, EntryType, BetweenType DEF At
  <2>3. /\ <<At(s, -q), At(t, q)>> \in Seq(Leg) /\ Len(<<At(s, -q), At(t, q)>>) <= 2
        /\ \A u \in Sites : Left(<<At(s, -q), At(t, q)>>, u) = Between(s, t, q)[u]
        /\ \A i \in 1 .. Len(<<At(s, -q), At(t, q)>>) :
             <<At(s, -q), At(t, q)>>[i].site \in {s, t}
    BY <1>3, <2>2, TwoLegs, LeftTwo
  <2> DEFINE calls == <<At(s, -q), At(t, q)>>
  <2>4. /\ \A u \in Sites : siteLock'[u] = siteLock[u]
                            \/ (siteLock[u] = Nobody /\ siteLock'[u] = r)
        /\ siteLock' \in [Sites -> Writers \union {Nobody}]
        /\ siteLock'[s] = r /\ siteLock'[t] = r
    BY <1>1, <2>1, TakesSitesFree
  <2>5. \A i \in 1 .. Len(calls) : siteLock'[calls[i].site] = r
    BY <2>3, <2>4
  <2> HIDE DEF calls
  <2> QED
    BY <1>1, <2>1, <2>2, <2>3, <2>4, <2>5, OpensInv DEF calls
<1> QED BY <1>2, <1>4, <1>5

LEMMA AssistInv ==
  ASSUME IInv, NEW r \in Assistants, Assist(r)
  PROVE  IInv'
<1>1. /\ r \in Writers /\ pc[r] = "idle" /\ read[r] = NoValue
      /\ r \notin Validators /\ r \notin Movers \union Adjusters
      /\ lineLock' \in Validators \union {Nobody}
      /\ siteLock' \in [Sites -> Writers \union {Nobody}]
      /\ UNCHANGED <<stock, moved, read, written, lockVars, inventoryVars, history>>
  BY RequestsAssumption DEF Assist, Writers, IInv, Calling, TypeOK, lockVars
<1>2. PICK q \in Quantities, s \in Sites :
        \E d \in {q, -q} \ {0} : Opens(r, <<At(s, d)>>, Entry(s, d))
  BY DEF Assist
<1>3. PICK d \in Int : Opens(r, <<At(s, d)>>, Entry(s, d))
  BY <1>2, QuantitiesAssumption
<1>4. /\ <<At(s, d)>> \in Seq(Leg) /\ Len(<<At(s, d)>>) <= 2
      /\ Entry(s, d) \in [Sites -> Int]
      /\ \A u \in Sites : Left(<<At(s, d)>>, u) = Entry(s, d)[u]
  <2>1. At(s, d) \in Leg /\ At(s, d).site = s /\ At(s, d).delta = d
    BY EntryType DEF At
  <2> QED
    BY <2>1, OneLeg, LeftOne, EntryType
<1>5. \A u \in Sites : siteLock'[u] = siteLock[u]
  BY <1>1 DEF lockVars
<1> QED BY <1>1, <1>3, <1>4, <1>5, OpensInv

LEMMA AdjustReadInv ==
  ASSUME IInv, NEW r \in Adjusters, AdjustRead(r)
  PROVE  IInv'
<1> USE DEF lockVars, inventoryVars, history
<1>1. PICK s \in Sites, target \in Counts :
        /\ legs' = [legs EXCEPT ![r] = <<At(s, target - stock[s])>>]
        /\ read' = [read EXCEPT ![r] = stock[s]]
  BY DEF AdjustRead
<1>2. /\ pc[r] = "idle" /\ pc' = [pc EXCEPT ![r] = "checked"]
      /\ UNCHANGED <<stock, moved, written, posted, lockVars, inventoryVars, history>>
  BY DEF AdjustRead
<1> DEFINE leg == At(s, target - stock[s])
<1>3. /\ r \in Writers /\ r \in Requests /\ r \notin Validators
      /\ stock[s] \in Int /\ stock[s] # NoValue
  BY RequestsAssumption, NoneAssumption DEF Writers, Requests, IInv, TypeOK
<1>4. leg \in Leg /\ leg.site = s
  BY <1>3, QuantitiesAssumption DEF At, Leg
<1> HIDE DEF leg
<1>5. /\ <<leg>> \in Seq(Leg) /\ Len(<<leg>>) = 1 /\ <<leg>>[1] = leg /\ <<leg>> # <<>>
  BY <1>4, OneLeg
<1>6. /\ legs'[r] = <<leg>> /\ read'[r] = stock[s] /\ pc'[r] = "checked"
      /\ \A q \in Writers \ {r} :
           legs'[q] = legs[q] /\ read'[q] = read[q] /\ pc'[q] = pc[q]
  BY <1>1, <1>2, <1>3 DEF IInv, TypeOK, leg
<1>7. TypeOK'
  BY <1>1, <1>2, <1>3, <1>5 DEF IInv, TypeOK, leg
<1>8. Calling'
  <2> SUFFICES ASSUME NEW q \in Writers
               PROVE  /\ Len(legs'[q]) <= 2
                      /\ pc'[q] = "checked" => Len(legs'[q]) <= 1
                      /\ pc'[q] = "checked" /\ q \in Adjusters =>
                           legs'[q] # <<>> /\ read'[q] # NoValue
                      /\ pc'[q] = "checked" /\ q \notin Adjusters => read'[q] = NoValue
                      /\ pc'[q] \notin {"checked", "open"} =>
                           read'[q] = NoValue /\ legs'[q] = <<>>
                      /\ pc'[q] # "open" => posted'[q] = Nothing /\ written'[q] = Unwritten
                      /\ legs'[q] = <<>> => read'[q] = NoValue
    BY DEF Calling
  <2>1. CASE q = r
    <3>1. posted'[r] = Nothing /\ written'[r] = Unwritten
      BY <1>2, <1>3 DEF IInv, Calling
    <3>2. Len(legs'[r]) = 1 /\ legs'[r] # <<>> /\ read'[r] # NoValue
      BY <1>3, <1>5, <1>6
    <3>3. /\ Len(legs'[q]) <= 2 /\ Len(legs'[q]) <= 1
          /\ legs'[q] # <<>> /\ read'[q] # NoValue
      BY <2>1, <3>2
    <3>4. q \in Adjusters /\ pc'[q] = "checked"
      BY <1>6, <2>1
    <3>5. posted'[q] = Nothing /\ written'[q] = Unwritten
      BY <2>1, <3>1
    <3> QED
      BY <3>3, <3>4, <3>5
  <2>2. CASE q # r
    <3>1. UNCHANGED <<posted, written>>
      BY <1>2
    <3> QED
      BY <1>6, <2>2, <3>1 DEF IInv, Calling
  <2> QED BY <2>1, <2>2
<1>9. RowsExclusive' /\ SitesHeld' /\ Validating'
  BY <1>2, <1>3, <1>6 DEF IInv, RowsExclusive, SitesHeld, Validating, Writers
<1>10. ReadsFresh'
  <2> SUFFICES ASSUME NEW q \in Writers, Fresh(q), legs'[q] # <<>>, read'[q] # NoValue
               PROVE  read'[q] = Seen(q, legs'[q][1].site)
    BY <1>2 DEF ReadsFresh, Fresh, Reading, Seen
  <2>1. CASE q = r
    BY <1>2, <1>3, <1>4, <1>5, <1>6, <2>1 DEF IInv, Calling, Seen, Unwritten
  <2>2. CASE q # r
    BY <1>6, <2>2 DEF IInv, ReadsFresh, Reading
  <2> QED BY <2>1, <2>2
<1>11. Adds'
  BY <1>2, <1>6 DEF IInv, Adds, Fresh
<1>12. DivergesOnlyByOvertaking' /\ MovementsReadFresh' /\ StatusTellsApplied'
  BY <1>2 DEF IInv, DivergesOnlyByOvertaking, MovementsReadFresh, StatusTellsApplied
<1> QED BY <1>7, <1>8, <1>9, <1>10, <1>11, <1>12 DEF IInv

LEMMA AdjustOpenInv ==
  ASSUME IInv, NEW r \in Adjusters, AdjustOpen(r)
  PROVE  IInv'
<1> DEFINE leg == Head(legs[r])
<1>1. /\ r \in Writers /\ pc[r] = "checked" /\ r \notin Validators
      /\ TakesSites(r, {leg.site}) /\ Opens(r, <<leg>>, Entry(leg.site, leg.delta))
      /\ lineLock' \in Validators \union {Nobody}
      /\ UNCHANGED <<stock, moved, read, written, inventoryVars, history>>
  BY RequestsAssumption DEF AdjustOpen, Writers, IInv, TypeOK
<1>2. legs[r] \in Seq(Leg) /\ legs[r] # <<>> /\ Len(legs[r]) <= 1
  BY <1>1 DEF IInv, TypeOK, Calling
<1>3. leg \in Leg /\ legs[r] = <<leg>>
  BY <1>2, TailOfLegs
<1> HIDE DEF leg
<1> DEFINE calls == <<leg>>
<1>4. leg.site \in Sites /\ leg.delta \in Int
  BY <1>3 DEF Leg
<1>5. /\ calls \in Seq(Leg) /\ Len(calls) <= 2 /\ calls = legs[r]
      /\ Entry(leg.site, leg.delta) \in [Sites -> Int]
      /\ \A u \in Sites : Left(calls, u) = Entry(leg.site, leg.delta)[u]
      /\ \A i \in 1 .. Len(calls) : calls[i].site = leg.site
      /\ Opens(r, calls, Entry(leg.site, leg.delta))
  BY <1>1, <1>3, <1>4, OneLeg, LeftOne, EntryType
<1>6. /\ \A u \in Sites : siteLock'[u] = siteLock[u]
                          \/ (siteLock[u] = Nobody /\ siteLock'[u] = r)
      /\ siteLock' \in [Sites -> Writers \union {Nobody}]
      /\ siteLock'[leg.site] = r
  BY <1>1, <1>4, TakesSitesFree
<1> HIDE DEF calls
<1>7. \A i \in 1 .. Len(calls) : siteLock'[calls[i].site] = r
  BY <1>5, <1>6
<1> DEFINE movement == Entry(leg.site, leg.delta)
<1>8. /\ Opens(r, calls, movement) /\ movement \in [Sites -> Int]
      /\ \A u \in Sites : Left(calls, u) = movement[u]
  BY <1>5
<1> HIDE DEF movement
<1>9. /\ read[r] = NoValue \/ calls = legs[r]
      /\ pc[r] \in {"idle", "checked"}
  BY <1>1, <1>5
<1> QED BY <1>1, <1>5, <1>6, <1>7, <1>8, <1>9, OpensInv

LEMMA ValidateOpenInv ==
  ASSUME IInv, NEW r \in Validators, ValidateOpen(r)
  PROVE  IInv'
<1> DEFINE movement == IF legs[r] = <<>> THEN Nothing
                       ELSE Entry(InventorySite, Head(legs[r]).delta)
<1>1. /\ r \in Writers /\ pc[r] = "checked" /\ r \notin Movers \union Adjusters
      /\ Opens(r, legs[r], movement)
      /\ lineLock' \in Validators \union {Nobody}
      /\ UNCHANGED <<stock, moved, read, written, siteLock, inventoryVars, history>>
  BY RequestsAssumption DEF ValidateOpen, Writers, IInv, TypeOK
<1>2. /\ legs[r] \in Seq(Leg) /\ Len(legs[r]) <= 1
      /\ \A i \in 1 .. Len(legs[r]) : legs[r][i].site = InventorySite
      /\ siteLock' \in [Sites -> Writers \union {Nobody}]
  BY <1>1 DEF IInv, TypeOK, Calling, Validating
<1>3. /\ movement \in [Sites -> Int]
      /\ \A s \in Sites : Left(legs[r], s) = movement[s]
  <2>1. CASE legs[r] = <<>>
    BY <2>1, NoLegs DEF Nothing
  <2>2. CASE legs[r] # <<>>
    <3>1. PICK leg \in Leg : leg = Head(legs[r]) /\ legs[r] = <<leg>>
      BY <1>2, <2>2, TailOfLegs
    <3>2. leg.site = InventorySite /\ leg.delta \in Int
      BY <1>2, <3>1, OneLeg DEF Leg
    <3> QED
      BY <2>2, <3>1, <3>2, LeftOne, EntryType, SitesAssumption
  <2> QED BY <2>1, <2>2
<1> HIDE DEF movement
<1> QED BY <1>1, <1>2, <1>3, OpensInv

-------------------------------------------------------------------------------
\* What does not touch the writers, and moves the inventory only from NONE to
\* DRAFT, keeps the invariant.
LEMMA QuietInv ==
  ASSUME IInv, TypeOK',
         UNCHANGED <<stock, moved, legs, read, written, posted, lockVars, history>>,
         \A r \in Writers : pc'[r] = pc[r],
         inventory' = inventory \/ (inventory = "NONE" /\ inventory' = "DRAFT")
  PROVE  IInv'
<1> USE DEF lockVars, history
<1>1. Calling' /\ RowsExclusive' /\ SitesHeld'
  BY DEF IInv, Calling, RowsExclusive, SitesHeld, Writers
<1>2. ReadsFresh' /\ Adds'
  BY DEF IInv, ReadsFresh, Reading, Seen, Adds, Fresh
<1>3. Validating' /\ StatusTellsApplied'
  BY DEF IInv, Validating, StatusTellsApplied, Writers
<1>4. DivergesOnlyByOvertaking' /\ MovementsReadFresh'
  BY DEF IInv, DivergesOnlyByOvertaking, MovementsReadFresh
<1> QED BY <1>1, <1>2, <1>3, <1>4 DEF IInv

LEMMA CreateInventoryInv == IInv /\ CreateInventory => IInv'
<1> SUFFICES ASSUME IInv, CreateInventory PROVE IInv'
  OBVIOUS
<1>1. TypeOK'
  BY SitesAssumption
  DEF CreateInventory, IInv, TypeOK, requestVars, lockVars, history
<1> QED
  BY <1>1, QuietInv DEF CreateInventory, requestVars

\* The counters are no writers.
LEMMA CountInv ==
  ASSUME IInv, NEW r \in Counters, CountCheck(r) \/ CountWrite(r)
  PROVE  IInv'
<1>1. r \in Requests /\ r \notin Writers
  BY RequestsAssumption DEF Requests
<1>2. TypeOK'
  BY <1>1, QuantitiesAssumption
  DEF CountCheck, CountWrite, IInv, TypeOK, lockVars, inventoryVars, history
<1>3. \A q \in Writers : pc'[q] = pc[q]
  <2>1. pc' = [pc EXCEPT ![r] = pc'[r]] /\ \A q \in Writers : q \in Requests /\ q # r
    BY <1>1 DEF CountCheck, CountWrite, IInv, TypeOK, Requests
  <2> QED
    BY <2>1 DEF IInv, TypeOK
<1> QED
  BY <1>2, <1>3, QuietInv DEF CountCheck, CountWrite, inventoryVars

LEMMA ValidateCheckInv ==
  ASSUME IInv, NEW r \in Validators, ValidateCheck(r)
  PROVE  IInv'
<1> USE DEF lockVars, inventoryVars, history
<1>1. /\ r \in Writers /\ r \in Requests /\ r \notin Movers \union Adjusters
      /\ pc[r] = "idle" /\ inventory # "NONE" /\ read[r] = NoValue
      /\ UNCHANGED <<stock, moved, read, written, posted, lockVars, inventoryVars,
                     history>>
  BY RequestsAssumption DEF ValidateCheck, Writers, Requests, IInv, Calling
<1>2. PICK calls \in Seq(Leg) :
        /\ legs' = [legs EXCEPT ![r] = calls]
        /\ Len(calls) <= 1 /\ \A i \in 1 .. Len(calls) : calls[i].site = InventorySite
        /\ \/ pc' = [pc EXCEPT ![r] = "checked"]
           \/ pc' = [pc EXCEPT ![r] = "refused"] /\ calls = <<>>
  <2>1. CASE inventory = "DRAFT" /\ counted \notin {NoValue, theoretical}
    <3> DEFINE leg == At(InventorySite, counted - theoretical)
    <3>1. leg \in Leg /\ leg.site = InventorySite
      BY <2>1, SitesAssumption DEF At, Leg, IInv, TypeOK
    <3>2. legs' = [legs EXCEPT ![r] = <<leg>>] /\ pc' = [pc EXCEPT ![r] = "checked"]
      BY <2>1 DEF ValidateCheck
    <3> HIDE DEF leg
    <3>3. /\ <<leg>> \in Seq(Leg) /\ Len(<<leg>>) <= 1
          /\ \A i \in 1 .. Len(<<leg>>) : <<leg>>[i].site = InventorySite
      BY <3>1, OneLeg
    <3> QED BY <3>2, <3>3
  <2>2. CASE ~(inventory = "DRAFT" /\ counted \notin {NoValue, theoretical})
    <3>1. /\ legs' = [legs EXCEPT ![r] = <<>>]
          /\ \/ pc' = [pc EXCEPT ![r] = "checked"]
             \/ pc' = [pc EXCEPT ![r] = "refused"]
      <4>1. legs[r] = <<>> /\ legs = [legs EXCEPT ![r] = legs[r]]
        BY <1>1 DEF IInv, TypeOK, Calling
      <4> QED
        BY <2>2, <4>1 DEF ValidateCheck
    <3>2. \A i \in 1 .. 0 : FALSE
      OBVIOUS
    <3>3. /\ <<>> \in Seq(Leg) /\ Len(<<>>) <= 1
          /\ \A i \in 1 .. Len(<<>>) : <<>>[i].site = InventorySite
      BY NoLegs, <3>2
    <3> QED BY <3>1, <3>3
  <2> QED BY <2>1, <2>2
<1>3. /\ legs'[r] = calls /\ pc'[r] \in {"checked", "refused"}
      /\ pc'[r] = "refused" => calls = <<>>
      /\ \A q \in Writers \ {r} : legs'[q] = legs[q] /\ pc'[q] = pc[q]
  <2>1. legs'[r] = calls /\ \A q \in Writers \ {r} : legs'[q] = legs[q]
    BY <1>1, <1>2 DEF IInv, TypeOK
  <2>2. \A q \in Writers \ {r} : q \in Requests
    BY DEF Requests
  <2>3. CASE pc' = [pc EXCEPT ![r] = "checked"]
    BY <1>1, <2>1, <2>2, <2>3 DEF IInv, TypeOK
  <2>4. CASE pc' = [pc EXCEPT ![r] = "refused"] /\ calls = <<>>
    BY <1>1, <2>1, <2>2, <2>4 DEF IInv, TypeOK
  <2> QED BY <1>2, <2>3, <2>4
<1>4. TypeOK'
  BY <1>1, <1>2 DEF IInv, TypeOK
<1>5. Calling'
  BY <1>1, <1>2, <1>3 DEF IInv, Calling
<1>6. RowsExclusive' /\ SitesHeld'
  BY <1>1, <1>3 DEF IInv, RowsExclusive, SitesHeld, Writers
<1>7. ReadsFresh' /\ Adds'
  BY <1>1, <1>3 DEF IInv, ReadsFresh, Reading, Seen, Adds, Fresh
<1>8. Validating'
  BY <1>1, <1>2, <1>3 DEF IInv, Validating, Writers
<1>9. DivergesOnlyByOvertaking' /\ MovementsReadFresh' /\ StatusTellsApplied'
  BY <1>1 DEF IInv, DivergesOnlyByOvertaking, MovementsReadFresh, StatusTellsApplied
<1> QED BY <1>4, <1>5, <1>6, <1>7, <1>8, <1>9 DEF IInv

-------------------------------------------------------------------------------
LEMMA ReadRowInv ==
  ASSUME IInv, NEW r \in Writers, ReadRow(r)
  PROVE  IInv'
<1> USE DEF lockVars, inventoryVars, history
<1> DEFINE now == Seen(r, Head(legs[r]).site)
<1>1. /\ pc[r] = "open" /\ legs[r] # <<>> /\ read[r] = NoValue
      /\ read' = [read EXCEPT ![r] = now]
      /\ UNCHANGED <<stock, moved, pc, legs, written, posted, lockVars,
                     inventoryVars, history>>
  BY DEF ReadRow, Calls
<1>2. Head(legs[r]) = legs[r][1] /\ Head(legs[r]).site \in Sites
  BY <1>1, TailOfLegs DEF IInv, TypeOK, Leg
<1>3. now \in Int
  BY <1>2 DEF Seen, IInv, TypeOK
<1>4. now = Seen(r, legs[r][1].site)
  BY <1>2
<1> HIDE DEF now
<1>5. read'[r] = now /\ \A q \in Writers \ {r} : read'[q] = read[q]
  BY <1>1 DEF IInv, TypeOK
<1>6. TypeOK'
  BY <1>1, <1>3 DEF IInv, TypeOK
<1>7. Calling'
  <2> SUFFICES ASSUME NEW q \in Writers
               PROVE  /\ pc[q] = "checked" /\ q \in Adjusters =>
                           legs[q] # <<>> /\ read'[q] # NoValue
                      /\ pc[q] = "checked" /\ q \notin Adjusters => read'[q] = NoValue
                      /\ pc[q] \notin {"checked", "open"} =>
                           read'[q] = NoValue /\ legs[q] = <<>>
                      /\ legs[q] = <<>> => read'[q] = NoValue
    BY <1>1 DEF IInv, Calling
  <2>1. CASE q = r
    BY <1>1, <2>1
  <2>2. CASE q # r
    BY <1>5, <2>2 DEF IInv, Calling
  <2> QED BY <2>1, <2>2
<1>8. RowsExclusive' /\ SitesHeld' /\ Adds' /\ Validating'
  BY <1>1 DEF IInv, RowsExclusive, SitesHeld, Adds, Fresh, Validating
<1>9. ReadsFresh'
  <2> SUFFICES ASSUME NEW q \in Writers, Fresh(q), legs[q] # <<>>, read'[q] # NoValue
               PROVE  read'[q] = Seen(q, legs[q][1].site)
    BY <1>1 DEF ReadsFresh, Fresh, Reading, Seen
  <2>1. CASE q = r
    BY <1>4, <1>5, <2>1
  <2>2. CASE q # r
    BY <1>5, <2>2 DEF IInv, ReadsFresh, Reading
  <2> QED BY <2>1, <2>2
<1>10. DivergesOnlyByOvertaking' /\ MovementsReadFresh' /\ StatusTellsApplied'
  BY <1>1 DEF IInv, DivergesOnlyByOvertaking, MovementsReadFresh, StatusTellsApplied
<1> QED BY <1>6, <1>7, <1>8, <1>9, <1>10 DEF IInv

LEMMA WriteRowInv ==
  ASSUME IInv, NEW r \in Writers, WriteRow(r)
  PROVE  IInv'
<1> USE DEF lockVars, inventoryVars, history
<1> DEFINE leg == Head(legs[r])
           rest == Tail(legs[r])
           now == read[r] + leg.delta
<1>1. /\ pc[r] = "open" /\ legs[r] # <<>> /\ read[r] # NoValue
      /\ \A q \in Writers \ {r} : written[q][leg.site] = NoValue
      /\ written' = [written EXCEPT ![r][leg.site] = now]
      /\ legs' = [legs EXCEPT ![r] = rest]
      /\ read' = [read EXCEPT ![r] = NoValue]
      /\ UNCHANGED <<stock, moved, pc, posted, lockVars, inventoryVars, history>>
  BY DEF WriteRow, Calls
<1>2. /\ legs[r] \in Seq(Leg) /\ Len(legs[r]) <= 2
      /\ read[r] \in Int /\ written[r] \in [Sites -> Int \union {NoValue}]
  BY <1>1 DEF IInv, TypeOK, Calling
<1>3. /\ rest \in Seq(Leg) /\ leg \in Leg /\ leg = legs[r][1]
      /\ Len(legs[r]) \in Nat /\ Len(legs[r]) > 0 /\ Len(rest) = Len(legs[r]) - 1
      /\ \A i \in 1 .. Len(rest) : rest[i] = legs[r][i + 1]
  BY <1>1, <1>2, TailOfLegs
<1>4. leg.site \in Sites /\ leg.delta \in Int /\ now \in Int /\ now # NoValue
  BY <1>2, <1>3, NoneAssumption DEF Leg
<1>5. \A s \in Sites :
        /\ Left(legs[r], s) \in Int /\ Left(rest, s) \in Int
        /\ Left(legs[r], s) = (IF leg.site = s THEN leg.delta ELSE 0) + Left(rest, s)
  BY <1>1, <1>2, LeftTail
<1>6. Fresh(r) => read[r] = Seen(r, leg.site)
  BY <1>1, <1>3 DEF IInv, ReadsFresh, Reading
<1> HIDE DEF leg, rest
<1>7. /\ legs'[r] = rest /\ read'[r] = NoValue
      /\ \A q \in Writers \ {r} :
           legs'[q] = legs[q] /\ read'[q] = read[q] /\ written'[q] = written[q]
      /\ written'[r][leg.site] = now
      /\ \A s \in Sites \ {leg.site} : written'[r][s] = written[r][s]
  BY <1>1, <1>4 DEF IInv, TypeOK
<1> HIDE DEF now
<1>8. TypeOK'
  BY <1>1, <1>3, <1>4 DEF IInv, TypeOK
<1>9. Calling'
  <2> SUFFICES ASSUME NEW q \in Writers
               PROVE  /\ Len(legs'[q]) <= 2
                      /\ pc[q] = "checked" => Len(legs'[q]) <= 1
                      /\ pc[q] = "checked" /\ q \in Adjusters =>
                           legs'[q] # <<>> /\ read'[q] # NoValue
                      /\ pc[q] = "checked" /\ q \notin Adjusters => read'[q] = NoValue
                      /\ pc[q] \notin {"checked", "open"} =>
                           read'[q] = NoValue /\ legs'[q] = <<>>
                      /\ pc[q] # "open" => posted[q] = Nothing /\ written'[q] = Unwritten
                      /\ legs'[q] = <<>> => read'[q] = NoValue
    BY <1>1 DEF Calling
  <2>1. CASE q = r
    BY <1>1, <1>2, <1>3, <1>7, <2>1
  <2>2. CASE q # r
    BY <1>7, <2>2 DEF IInv, Calling
  <2> QED BY <2>1, <2>2
<1>10. RowsExclusive'
  <2> SUFFICES ASSUME NEW p \in Writers, NEW q \in Writers, NEW s \in Sites,
                      written'[p][s] # NoValue, written'[q][s] # NoValue
               PROVE  p = q
    BY DEF RowsExclusive
  <2>1. CASE s = leg.site
    BY <1>1, <1>7, <2>1 DEF leg
  <2>2. CASE s # leg.site
    BY <1>7, <2>2 DEF IInv, RowsExclusive
  <2> QED BY <2>1, <2>2
<1>11. SitesHeld'
  <2> SUFFICES ASSUME NEW q \in Movers \union Adjusters, pc[q] = "open"
               PROVE  /\ \A i \in 1 .. Len(legs'[q]) : siteLock[legs'[q][i].site] = q
                      /\ \A s \in Sites : written'[q][s] # NoValue => siteLock[s] = q
    BY <1>1 DEF SitesHeld
  <2>1. /\ q \in Writers
        /\ \A i \in 1 .. Len(legs[q]) : siteLock[legs[q][i].site] = q
        /\ \A s \in Sites : written[q][s] # NoValue => siteLock[s] = q
    BY DEF IInv, SitesHeld, Writers
  <2>2. CASE q = r
    <3>1. \A i \in 1 .. Len(rest) : i + 1 \in 1 .. Len(legs[r])
      BY <1>3
    <3>2. \A i \in 1 .. Len(legs'[q]) : siteLock[legs'[q][i].site] = q
      BY <1>3, <1>7, <2>1, <2>2, <3>1
    <3>3. siteLock[leg.site] = q
      BY <1>3, <2>1, <2>2
    <3> QED
      BY <1>7, <2>1, <2>2, <3>2, <3>3
  <2>3. CASE q # r
    BY <1>7, <2>1, <2>3
  <2> QED BY <2>2, <2>3
<1>12. ReadsFresh'
  <2> SUFFICES ASSUME NEW q \in Writers, Fresh(q), legs'[q] # <<>>, read'[q] # NoValue
               PROVE  read'[q] = IF written'[q][legs'[q][1].site] = NoValue
                                 THEN stock[legs'[q][1].site]
                                 ELSE written'[q][legs'[q][1].site]
    BY <1>1 DEF ReadsFresh, Fresh, Reading, Seen
  <2>1. q # r
    BY <1>7
  <2>2. UNCHANGED stock
    BY <1>1
  <2> QED
    BY <1>7, <2>1, <2>2 DEF IInv, ReadsFresh, Reading, Seen
<1>13. Adds'
  <2> SUFFICES ASSUME NEW q \in Writers, NEW s \in Sites, pc[q] = "open"
               PROVE  /\ written'[q][s] = NoValue => Left(legs'[q], s) = posted[q][s]
                      /\ written'[q][s] # NoValue /\ Fresh(q) =>
                           written'[q][s] + Left(legs'[q], s) = stock[s] + posted[q][s]
    BY <1>1 DEF Adds, Fresh
  <2>1. /\ written[q][s] = NoValue => Left(legs[q], s) = posted[q][s]
        /\ written[q][s] # NoValue /\ Fresh(q) =>
             written[q][s] + Left(legs[q], s) = stock[s] + posted[q][s]
    BY DEF IInv, Adds
  <2>2. CASE q # r
    BY <1>7, <2>1, <2>2
  <2>3. CASE q = r /\ s # leg.site
    <3>1. Left(rest, s) = Left(legs[r], s)
      BY <1>5, <2>3
    <3> QED
      BY <1>7, <2>1, <2>3, <3>1
  <2>4. CASE q = r /\ s = leg.site
    <3>1. /\ stock[s] \in Int /\ posted[q][s] \in Int
          /\ written[r][s] \in Int \union {NoValue}
          /\ Left(legs[r], s) \in Int /\ Left(rest, s) \in Int
          /\ Left(legs[r], s) = leg.delta + Left(rest, s)
      BY <1>5, <2>4 DEF IInv, TypeOK
    <3>2. written'[q][s] = now /\ now # NoValue /\ now = read[r] + leg.delta
      BY <1>4, <1>7, <2>4 DEF now
    <3>3. ASSUME Fresh(q)
          PROVE  now + Left(rest, s) = stock[s] + posted[q][s]
      <4>1. read[r] = Seen(r, s)
        BY <1>6, <2>4, <3>3
      <4>2. CASE written[r][s] = NoValue
        BY <1>2, <1>4, <2>1, <2>4, <3>1, <3>2, <4>1, <4>2 DEF Seen
      <4>3. CASE written[r][s] # NoValue
        <5>1. /\ written[r][s] \in Int /\ read[r] = written[r][s]
              /\ written[r][s] + Left(legs[r], s) = stock[s] + posted[q][s]
          BY <2>1, <2>4, <3>1, <3>3, <4>1, <4>3 DEF Seen
        <5> QED
          BY <1>4, <3>1, <3>2, <5>1
      <4> QED BY <4>2, <4>3
    <3> QED
      BY <1>7, <2>4, <3>2, <3>3
  <2> QED BY <2>2, <2>3, <2>4
<1>14. Validating'
  <2> SUFFICES ASSUME NEW q \in Validators
               PROVE  \A i \in 1 .. Len(legs'[q]) : legs'[q][i].site = InventorySite
    BY <1>1 DEF IInv, Validating
  <2>1. q \in Writers /\ \A i \in 1 .. Len(legs[q]) : legs[q][i].site = InventorySite
    BY DEF IInv, Validating, Writers
  <2>2. CASE q = r
    <3>1. \A i \in 1 .. Len(rest) : i + 1 \in 1 .. Len(legs[r])
      BY <1>3
    <3> QED
      BY <1>3, <1>7, <2>1, <2>2, <3>1
  <2>3. CASE q # r
    BY <1>7, <2>1, <2>3
  <2> QED BY <2>2, <2>3
<1>15. DivergesOnlyByOvertaking' /\ MovementsReadFresh' /\ StatusTellsApplied'
  BY <1>1 DEF IInv, DivergesOnlyByOvertaking, MovementsReadFresh, StatusTellsApplied
<1> QED
  BY <1>8, <1>9, <1>10, <1>11, <1>12, <1>13, <1>14, <1>15 DEF IInv

-------------------------------------------------------------------------------
\* Whatever ends a transaction leaves the others as they were.
LEMMA EndsInv ==
  ASSUME IInv, NEW r \in Writers, pc[r] = "open",
         NEW how \in {"done", "refused"}, Ends(r, how),
         inventory # "NONE" => inventory' # "NONE"
  PROVE  /\ legs'[r] = <<>> /\ read'[r] = NoValue /\ pc'[r] = how
         /\ written'[r] = Unwritten /\ posted'[r] = Nothing
         /\ \A q \in Writers \ {r} :
              /\ legs'[q] = legs[q] /\ read'[q] = read[q] /\ pc'[q] = pc[q]
              /\ written'[q] = written[q] /\ posted'[q] = posted[q]
         /\ pc' \in [Requests -> {"idle", "checked", "open", "done", "refused"}]
         /\ legs' \in [Writers -> Seq(Leg)]
         /\ read' \in [Writers -> Int \union {NoValue}]
         /\ written' \in [Writers -> [Sites -> Int \union {NoValue}]]
         /\ posted' \in [Writers -> [Sites -> Int]]
         /\ siteLock' \in [Sites -> Writers \union {Nobody}]
         /\ lineLock' \in Validators \union {Nobody}
         /\ Calling' /\ RowsExclusive' /\ SitesHeld' /\ Validating'
<1> USE DEF Ends
<1>1. /\ r \in Requests /\ Unwritten \in [Sites -> Int \union {NoValue}]
      /\ Nothing \in [Sites -> Int] /\ <<>> \in Seq(Leg) /\ Len(<<>>) = 0
  BY NoLegs DEF Requests, Unwritten, Nothing
<1>2. /\ legs'[r] = <<>> /\ read'[r] = NoValue /\ pc'[r] = how
      /\ written'[r] = Unwritten /\ posted'[r] = Nothing
  BY <1>1 DEF IInv, TypeOK
<1>3. /\ \A q \in Writers \ {r} :
           /\ legs'[q] = legs[q] /\ read'[q] = read[q] /\ pc'[q] = pc[q]
           /\ written'[q] = written[q] /\ posted'[q] = posted[q]
  BY <1>1 DEF IInv, TypeOK, Requests
<1>4. /\ pc' \in [Requests -> {"idle", "checked", "open", "done", "refused"}]
      /\ legs' \in [Writers -> Seq(Leg)]
      /\ read' \in [Writers -> Int \union {NoValue}]
      /\ written' \in [Writers -> [Sites -> Int \union {NoValue}]]
      /\ posted' \in [Writers -> [Sites -> Int]]
  BY <1>1 DEF IInv, TypeOK
<1>5. /\ siteLock' \in [Sites -> Writers \union {Nobody}]
      /\ lineLock' \in Validators \union {Nobody}
  BY DEF IInv, TypeOK
<1>6. Calling'
  BY <1>1, <1>2, <1>3 DEF IInv, Calling
<1>7. RowsExclusive'
  BY <1>2, <1>3 DEF IInv, RowsExclusive, Unwritten
<1>8. SitesHeld'
  <2> SUFFICES ASSUME NEW q \in Movers \union Adjusters, pc'[q] = "open"
               PROVE  /\ \A i \in 1 .. Len(legs'[q]) : siteLock'[legs'[q][i].site] = q
                      /\ \A s \in Sites : written'[q][s] # NoValue => siteLock'[s] = q
    BY DEF SitesHeld
  <2>1. q \in Writers /\ q # r
    BY <1>2 DEF Writers
  <2>2. /\ legs'[q] = legs[q] /\ pc[q] = "open" /\ written'[q] = written[q]
        /\ \A i \in 1 .. Len(legs[q]) : legs[q][i].site \in Sites
    BY <1>3, <2>1, LegAt DEF IInv, TypeOK
  <2>3. /\ \A i \in 1 .. Len(legs[q]) : siteLock[legs[q][i].site] = q
        /\ \A s \in Sites : written[q][s] # NoValue => siteLock[s] = q
    BY <2>2 DEF IInv, SitesHeld
  <2>4. \A s \in Sites : siteLock[s] = q => siteLock'[s] = q
    BY <2>1
  <2> QED
    BY <2>2, <2>3, <2>4
<1>9. Validating'
  BY <1>1, <1>2, <1>3 DEF IInv, Validating, Writers
<1> QED
  BY <1>2, <1>3, <1>4, <1>5, <1>6, <1>7, <1>8, <1>9

LEMMA AbortInv ==
  ASSUME IInv, NEW r \in Writers, Abort(r)
  PROVE  IInv'
<1> USE DEF inventoryVars, history
<1>1. /\ pc[r] = "open" /\ Ends(r, "refused")
      /\ UNCHANGED <<stock, moved, inventoryVars, history>>
  BY DEF Abort
<1>2. /\ Calling' /\ RowsExclusive' /\ SitesHeld' /\ Validating'
      /\ legs'[r] = <<>> /\ written'[r] = Unwritten /\ pc'[r] = "refused"
      /\ \A q \in Writers \ {r} :
           /\ legs'[q] = legs[q] /\ read'[q] = read[q] /\ pc'[q] = pc[q]
           /\ written'[q] = written[q] /\ posted'[q] = posted[q]
  BY <1>1, EndsInv
<1>3. TypeOK'
  BY <1>1, EndsInv DEF IInv, TypeOK
<1>4. ReadsFresh' /\ Adds'
  BY <1>1, <1>2 DEF IInv, ReadsFresh, Reading, Seen, Adds, Fresh
<1>5. DivergesOnlyByOvertaking' /\ MovementsReadFresh' /\ StatusTellsApplied'
  BY <1>1 DEF IInv, DivergesOnlyByOvertaking, MovementsReadFresh, StatusTellsApplied
<1> QED BY <1>2, <1>3, <1>4, <1>5 DEF IInv

LEMMA CommitInv ==
  ASSUME IInv, NEW r \in Writers, Commit(r)
  PROVE  IInv'
<1>1. /\ pc[r] = "open" /\ legs[r] = <<>> /\ Ends(r, "done")
      /\ stock' = [s \in Sites |-> Seen(r, s)]
      /\ moved' = [s \in Sites |-> moved[s] + posted[r][s]]
      /\ inventory' = IF r \in Validators THEN "VALIDATED" ELSE inventory
      /\ applied' = IF r \in Validators
                    THEN [applied EXCEPT ![r] = posted[r][InventorySite]] ELSE applied
      /\ stale' = stale \union (Overtaken(r) \X {r})
      /\ diverged' = IF \E q \in Writers : <<r, q>> \in stale
                     THEN diverged \union Touches(r) ELSE diverged
      /\ UNCHANGED <<theoretical, counted>>
  BY DEF Commit
<1>2. /\ Calling' /\ RowsExclusive' /\ SitesHeld' /\ Validating'
      /\ legs'[r] = <<>> /\ written'[r] = Unwritten /\ pc'[r] = "done"
      /\ \A q \in Writers \ {r} :
           /\ legs'[q] = legs[q] /\ read'[q] = read[q] /\ pc'[q] = pc[q]
           /\ written'[q] = written[q] /\ posted'[q] = posted[q]
  BY <1>1, EndsInv
<1>3. TypeOK'
  <2>1. stock' \in [Sites -> Int] /\ moved' \in [Sites -> Int]
    BY <1>1 DEF IInv, TypeOK, Seen
  <2>2. /\ inventory' \in {"NONE", "DRAFT", "VALIDATED"}
        /\ applied' \in [Validators -> Int \union {NoValue}]
    BY <1>1, SitesAssumption DEF IInv, TypeOK
  <2>3. stale' \subseteq Writers \X Writers /\ diverged' \subseteq Sites
    BY <1>1 DEF IInv, TypeOK, Overtaken, Touches
  <2> QED
    BY <1>1, <2>1, <2>2, <2>3, EndsInv DEF IInv, TypeOK
<1>4. \A s \in Sites : written[r][s] = NoValue => stock'[s] = stock[s]
  BY <1>1 DEF Seen
<1>5. ReadsFresh'
  <2> SUFFICES ASSUME NEW q \in Writers, \A p \in Writers : <<q, p>> \notin stale',
                      legs'[q] # <<>>, read'[q] # NoValue
               PROVE  read'[q] = IF written'[q][legs'[q][1].site] = NoValue
                                 THEN stock'[legs'[q][1].site]
                                 ELSE written'[q][legs'[q][1].site]
    BY DEF ReadsFresh, Fresh, Reading, Seen
  <2>1. q # r /\ legs[q] # <<>> /\ read[q] # NoValue /\ legs[q] \in Seq(Leg)
    BY <1>2 DEF IInv, TypeOK
  <2>2. /\ Head(legs[q]) = legs[q][1] /\ legs[q][1].site \in Sites
    BY <2>1, TailOfLegs DEF Leg
  <2>3. Fresh(q) /\ q \notin Overtaken(r)
    BY <1>1 DEF Fresh
  <2>4. written[r][legs[q][1].site] = NoValue
    BY <2>1, <2>2, <2>3 DEF Overtaken
  <2>5. read[q] = Seen(q, legs[q][1].site)
    BY <2>1, <2>3 DEF IInv, ReadsFresh, Reading
  <2> QED
    BY <1>2, <1>4, <2>1, <2>2, <2>4, <2>5 DEF Seen
<1>6. Adds'
  <2> SUFFICES ASSUME NEW q \in Writers, NEW s \in Sites, pc'[q] = "open"
               PROVE  /\ written'[q][s] = NoValue => Left(legs'[q], s) = posted'[q][s]
                      /\ written'[q][s] # NoValue
                         /\ (\A p \in Writers : <<q, p>> \notin stale') =>
                           written'[q][s] + Left(legs'[q], s) = stock'[s] + posted'[q][s]
    BY DEF Adds, Fresh
  <2>1. q # r
    BY <1>2
  <2>2. /\ written[q][s] = NoValue => Left(legs[q], s) = posted[q][s]
        /\ written[q][s] # NoValue /\ Fresh(q) =>
             written[q][s] + Left(legs[q], s) = stock[s] + posted[q][s]
    BY <1>2, <2>1 DEF IInv, Adds
  <2>3. (\A p \in Writers : <<q, p>> \notin stale') => Fresh(q)
    BY <1>1 DEF Fresh
  <2>4. written[q][s] # NoValue => stock'[s] = stock[s]
    BY <1>4, <2>1 DEF IInv, RowsExclusive
  <2> QED
    BY <1>2, <2>1, <2>2, <2>3, <2>4
<1>7. DivergesOnlyByOvertaking'
  <2> SUFFICES ASSUME NEW s \in Sites, stock'[s] # moved'[s]
               PROVE  s \in diverged'
    BY DEF DivergesOnlyByOvertaking
  <2>1. /\ stock[s] \in Int /\ moved[s] \in Int /\ posted[r][s] \in Int
        /\ written[r][s] \in Int \union {NoValue}
        /\ moved'[s] = moved[s] + posted[r][s] /\ stock'[s] = Seen(r, s)
    BY <1>1 DEF IInv, TypeOK
  <2>2. /\ written[r][s] = NoValue => posted[r][s] = 0
        /\ written[r][s] # NoValue /\ Fresh(r) =>
             written[r][s] + 0 = stock[s] + posted[r][s]
    BY <1>1, NoLegs DEF IInv, Adds
  <2>3. s \in diverged => s \in diverged'
    BY <1>1
  <2>4. stock[s] # moved[s] => s \in diverged
    BY DEF IInv, DivergesOnlyByOvertaking
  <2>5. CASE written[r][s] = NoValue
    BY <2>1, <2>2, <2>3, <2>4, <2>5 DEF Seen
  <2>6. CASE written[r][s] # NoValue /\ Fresh(r)
    BY <2>1, <2>2, <2>3, <2>4, <2>6 DEF Seen
  <2>7. CASE written[r][s] # NoValue /\ ~Fresh(r)
    BY <1>1, <2>7 DEF Touches, Fresh
  <2> QED BY <2>5, <2>6, <2>7
<1>8. MovementsReadFresh'
  <2> SUFFICES ASSUME NEW q \in Overtaken(r), q \in Movers,
                      r \notin Assistants \union Validators
               PROVE  FALSE
    BY <1>1 DEF IInv, MovementsReadFresh
  <2>1. /\ q \in Writers \ {r} /\ legs[q] # <<>> /\ read[q] # NoValue
        /\ written[r][Head(legs[q]).site] # NoValue
    BY DEF Overtaken
  <2>2. /\ pc[q] = "open" /\ r \in Movers \union Adjusters
        /\ legs[q] \in Seq(Leg)
    BY <2>1, RequestsAssumption DEF IInv, TypeOK, Calling, Writers
  <2>3. /\ Head(legs[q]) = legs[q][1] /\ legs[q][1].site \in Sites
        /\ 1 \in 1 .. Len(legs[q])
    <3>1. /\ Len(legs[q]) \in Nat /\ Len(legs[q]) > 0
          /\ Head(legs[q]) = legs[q][1] /\ Head(legs[q]) \in Leg
      BY <2>1, <2>2, TailOfLegs
    <3> QED
      BY <3>1 DEF Leg
  <2>4. siteLock[legs[q][1].site] = q /\ siteLock[legs[q][1].site] = r
    BY <1>1, <2>1, <2>2, <2>3 DEF IInv, SitesHeld
  <2> QED
    BY <2>1, <2>4
<1>9. StatusTellsApplied'
  <2>1. CASE r \in Validators
    <3>1. applied'[r] \in Int
      BY <1>1, <2>1, SitesAssumption DEF IInv, TypeOK
    <3> QED
      BY <1>1, <2>1, <3>1, NoneAssumption DEF StatusTellsApplied
  <2>2. CASE r \notin Validators
    BY <1>1, <2>2 DEF IInv, StatusTellsApplied
  <2> QED BY <2>1, <2>2
<1> QED
  BY <1>2, <1>3, <1>5, <1>6, <1>7, <1>8, <1>9 DEF IInv

LEMMA StutterInv == IInv /\ UNCHANGED vars => IInv'
<1> SUFFICES ASSUME IInv, UNCHANGED vars PROVE IInv'
  OBVIOUS
<1> USE DEF vars, requestVars, lockVars, inventoryVars, history
<1>1. TypeOK' /\ Calling' /\ RowsExclusive' /\ SitesHeld'
  BY DEF IInv, TypeOK, Calling, RowsExclusive, SitesHeld
<1>2. ReadsFresh' /\ Adds' /\ Validating'
  BY DEF IInv, ReadsFresh, Reading, Fresh, Seen, Adds, Validating
<1>3. DivergesOnlyByOvertaking' /\ MovementsReadFresh' /\ StatusTellsApplied'
  BY DEF IInv, DivergesOnlyByOvertaking, MovementsReadFresh, StatusTellsApplied
<1> QED BY <1>1, <1>2, <1>3 DEF IInv

-------------------------------------------------------------------------------
\* The invariant holds in every reachable state, whatever overlaps or stops.
THEOREM Inductive == Spec => []IInv
<1>1. Init => IInv
  BY InitInv
<1>2. IInv /\ [Next]_vars => IInv'
  BY MoveInv, AdjustReadInv, AdjustOpenInv, AssistInv, CreateInventoryInv, CountInv,
     ValidateCheckInv, ValidateOpenInv, ReadRowInv, WriteRowInv, CommitInv, AbortInv,
     StutterInv DEF Next
<1> QED BY <1>1, <1>2, PTL DEF Spec

\* Every variable keeps its type.
THEOREM TypeCorrect == Spec => []TypeOK
<1>1. IInv => TypeOK
  BY DEF IInv
<1> QED BY Inductive, <1>1, PTL

\* Only a request that writes over a row that changed after it read it makes a
\* stock row differ from its movements.
THEOREM DivergesOnlyByOvertakingCorrect == Spec => []DivergesOnlyByOvertaking
<1>1. IInv => DivergesOnlyByOvertaking
  BY DEF IInv
<1> QED BY Inductive, <1>1, PTL

\* Movements and adjustments never overtake a movement.
THEOREM MovementsReadFreshCorrect == Spec => []MovementsReadFresh
<1>1. IInv => MovementsReadFresh
  BY DEF IInv
<1> QED BY Inductive, <1>1, PTL

\* The status of the inventory and its corrections commit together.
THEOREM StatusTellsAppliedCorrect == Spec => []StatusTellsApplied
<1>1. IInv => StatusTellsApplied
  BY DEF IInv
<1> QED BY Inductive, <1>1, PTL

-------------------------------------------------------------------------------
(***************************************************************************)
(* The stock rows implement the ledger.  A row that is not overtaken is    *)
(* what its movements say, so the balance of the mapping moves with them.  *)
(***************************************************************************)

balanceMap == [s \in Sites |-> IF s \in diverged THEN moved[s] ELSE stock[s]]

LEMMA BalanceIsMoved == IInv => balanceMap = moved
BY DEF IInv, TypeOK, DivergesOnlyByOvertaking, balanceMap

\* A request that opens its transaction announces an amount of one site or a
\* transfer, and an inventory the correction of its site.
LEMMA OpensAnnounces ==
  ASSUME IInv, NEW r \in Writers, NEW calls, NEW movement \in [Sites -> Int],
         Opens(r, calls, movement), pc[r] # "open",
         UNCHANGED <<stock, moved, inventory, diverged>>,
         Ledger!InOneSite(movement) \/ Ledger!BetweenTwo(movement),
         r \in Validators => \A s \in Sites \ {InventorySite} : movement[s] = 0
  PROVE  Ledger!Announce(r)
<1>1. /\ posted[r] = Nothing /\ posted'[r] = movement
      /\ posted' = [posted EXCEPT ![r] = movement]
  BY DEF IInv, TypeOK, Calling, Opens
<1>2. UNCHANGED <<balanceMap, inventory>>
  BY DEF balanceMap
<1> QED
  BY <1>1, <1>2 DEF Ledger!Announce, Ledger!Nothing, Nothing, balanceMap

\* What the movements of the model say is of a form the ledger allows.
LEMMA EntryAllowed ==
  ASSUME NEW s \in Sites, NEW d \in Int
  PROVE  Ledger!InOneSite(Entry(s, d))
BY DEF Ledger!InOneSite, Entry

LEMMA BetweenAllowed ==
  ASSUME NEW s \in Sites, NEW t \in Sites, NEW q \in Int
  PROVE  Ledger!InOneSite(Between(s, t, q)) \/ Ledger!BetweenTwo(Between(s, t, q))
<1>1. CASE s = t
  BY <1>1 DEF Ledger!InOneSite, Between
<1>2. CASE s # t
  <2>1. Between(s, t, q)[s] + Between(s, t, q)[t] = 0
    BY <1>2 DEF Between
  <2>2. \A u \in Sites \ {s, t} : Between(s, t, q)[u] = 0
    BY DEF Between
  <2> QED
    BY <1>2, <2>1, <2>2 DEF Ledger!BetweenTwo
<1> QED BY <1>1, <1>2

LEMMA OpeningAnnounces ==
  ASSUME IInv, NEW r \in Writers,
         \/ r \in Movers /\ Move(r)
         \/ r \in Adjusters /\ AdjustOpen(r)
         \/ r \in Assistants /\ Assist(r)
         \/ r \in Validators /\ ValidateOpen(r)
  PROVE  Ledger!Announce(r)
<1> USE DEF inventoryVars, history
<1>1. CASE r \in Movers /\ Move(r)
  <2>1. /\ pc[r] # "open" /\ r \notin Validators
        /\ UNCHANGED <<stock, moved, inventory, diverged>>
    BY <1>1, RequestsAssumption DEF Move
  <2>2. PICK q \in Quantities, s \in Sites :
          \/ \E d \in {q, -q} : Opens(r, <<At(s, d)>>, Entry(s, d))
          \/ \E t \in Sites : Opens(r, <<At(s, -q), At(t, q)>>, Between(s, t, q))
    BY <1>1 DEF Move
  <2>3. q \in Int /\ -q \in Int
    BY QuantitiesAssumption
  <2>4. CASE \E d \in {q, -q} : Opens(r, <<At(s, d)>>, Entry(s, d))
    BY <2>1, <2>3, <2>4, OpensAnnounces, EntryType, EntryAllowed
  <2>5. CASE \E t \in Sites : Opens(r, <<At(s, -q), At(t, q)>>, Between(s, t, q))
    BY <2>1, <2>3, <2>5, OpensAnnounces, BetweenType, BetweenAllowed
  <2> QED BY <2>2, <2>4, <2>5
<1>2. CASE r \in Adjusters /\ AdjustOpen(r)
  <2> DEFINE leg == Head(legs[r])
  <2>1. /\ pc[r] = "checked" /\ r \notin Validators
        /\ UNCHANGED <<stock, moved, inventory, diverged>>
        /\ Opens(r, <<leg>>, Entry(leg.site, leg.delta))
    BY <1>2, RequestsAssumption DEF AdjustOpen
  <2>2. legs[r] \in Seq(Leg) /\ legs[r] # <<>>
    BY <1>2, <2>1 DEF IInv, TypeOK, Calling
  <2>3. leg.site \in Sites /\ leg.delta \in Int
    BY <2>2, TailOfLegs DEF Leg
  <2> HIDE DEF leg
  <2> QED
    BY <2>1, <2>3, OpensAnnounces, EntryType, EntryAllowed
<1>3. CASE r \in Assistants /\ Assist(r)
  <2>1. /\ pc[r] # "open" /\ r \notin Validators
        /\ UNCHANGED <<stock, moved, inventory, diverged>>
    BY <1>3, RequestsAssumption DEF Assist
  <2>2. PICK s \in Sites, d \in Int : Opens(r, <<At(s, d)>>, Entry(s, d))
    BY <1>3, QuantitiesAssumption DEF Assist
  <2> QED
    BY <2>1, <2>2, OpensAnnounces, EntryType, EntryAllowed
<1>4. CASE r \in Validators /\ ValidateOpen(r)
  <2> DEFINE movement == IF legs[r] = <<>> THEN Nothing
                         ELSE Entry(InventorySite, Head(legs[r]).delta)
  <2>1. /\ pc[r] = "checked" /\ UNCHANGED <<stock, moved, inventory, diverged>>
        /\ Opens(r, legs[r], movement)
    BY <1>4 DEF ValidateOpen
  <2>2. /\ movement \in [Sites -> Int] /\ Ledger!InOneSite(movement)
        /\ \A s \in Sites \ {InventorySite} : movement[s] = 0
    <3>1. CASE legs[r] = <<>>
      BY <3>1, SitesAssumption DEF Nothing, Ledger!InOneSite
    <3>2. CASE legs[r] # <<>>
      <4>1. Head(legs[r]).delta \in Int
        BY <3>2, TailOfLegs DEF IInv, TypeOK, Leg
      <4> QED
        BY <3>2, <4>1, SitesAssumption, EntryType, EntryAllowed DEF Entry
    <3> QED BY <3>1, <3>2
  <2> HIDE DEF movement
  <2> QED
    BY <2>1, <2>2, OpensAnnounces
<1> QED BY <1>1, <1>2, <1>3, <1>4

LEMMA AbortWithdraws ==
  ASSUME IInv, NEW r \in Writers, Abort(r)
  PROVE  Ledger!Withdraw(r)
<1>1. UNCHANGED <<balanceMap, inventory>> /\ posted' = [posted EXCEPT ![r] = Nothing]
  BY DEF Abort, Ends, inventoryVars, history, balanceMap
<1> QED
  BY <1>1 DEF Ledger!Withdraw, Ledger!Nothing, Nothing, balanceMap

LEMMA CommitMoves ==
  ASSUME IInv, IInv', NEW r \in Writers, Commit(r)
  PROVE  Ledger!Move(r)
<1>1. balanceMap = moved
  BY BalanceIsMoved
<1>2. balanceMap' = moved'
  BY DEF IInv, TypeOK, DivergesOnlyByOvertaking, balanceMap
<1>3. balanceMap' = [s \in Sites |-> balanceMap[s] + posted[r][s]]
  BY <1>1, <1>2 DEF Commit
<1>4. posted' = [posted EXCEPT ![r] = Nothing]
  BY DEF Commit, Ends
<1>5. IF r \in Validators THEN inventory # "NONE" /\ inventory' = "VALIDATED"
                          ELSE UNCHANGED inventory
  BY DEF Commit, IInv, Validating
<1> QED
  BY <1>3, <1>4, <1>5 DEF Ledger!Move, Ledger!Nothing, Nothing, balanceMap

\* Every step is a step of the ledger, or moves nothing of it.
LEMMA StepIsLedgerStep ==
  ASSUME IInv, IInv', [Next]_vars
  PROVE  [Ledger!Next]_(Ledger!ledger)
<1> USE DEF requestVars, lockVars, inventoryVars, history
<1>1. ASSUME UNCHANGED <<stock, moved, diverged, posted, inventory>>
      PROVE  UNCHANGED Ledger!ledger
  BY <1>1 DEF Ledger!ledger
<1>2. \A r \in Writers : r \in Ledger!Entries
  BY DEF Ledger!Entries
<1>3. CASE CreateInventory
  <2>1. UNCHANGED balanceMap
    BY <1>3 DEF CreateInventory, balanceMap
  <2>2. Ledger!Open
    BY <1>3, <2>1 DEF CreateInventory, Ledger!Open, balanceMap
  <2> QED BY <2>2 DEF Ledger!Next
<1>4. CASE \/ \E r \in Movers : Move(r)
           \/ \E r \in Adjusters : AdjustOpen(r)
           \/ \E r \in Assistants : Assist(r)
           \/ \E r \in Validators : ValidateOpen(r)
  <2>1. \E r \in Writers : Ledger!Announce(r)
    BY <1>4, OpeningAnnounces DEF Writers
  <2> QED BY <1>2, <2>1 DEF Ledger!Next
<1>5. CASE \E r \in Writers : Commit(r) \/ Abort(r)
  <2>1. \E r \in Writers : Ledger!Move(r) \/ Ledger!Withdraw(r)
    BY <1>5, CommitMoves, AbortWithdraws
  <2> QED BY <1>2, <2>1 DEF Ledger!Next
<1>6. CASE \/ \E r \in Adjusters : AdjustRead(r)
           \/ \E r \in Counters : CountCheck(r) \/ CountWrite(r)
           \/ \E r \in Validators : ValidateCheck(r)
           \/ \E r \in Writers : ReadRow(r) \/ WriteRow(r)
  <2>1. UNCHANGED <<stock, moved, diverged, posted, inventory>>
    BY <1>6 DEF AdjustRead, CountCheck, CountWrite, ValidateCheck, ReadRow, WriteRow
  <2> QED BY <1>1, <2>1
<1>7. CASE UNCHANGED vars
  BY <1>1, <1>7 DEF vars
<1> QED BY <1>3, <1>4, <1>5, <1>6, <1>7 DEF Next

\* The stock of the code implements the ledger: whatever overlaps, a request
\* moves what its movements say in one step or nothing, and an inventory is
\* validated in the step that corrects the stock.
THEOREM IsLedgerCorrect == Spec => IsLedger
<1>1. Init => Ledger!Init
  BY QuantitiesAssumption DEF Init, Ledger!Init, Ledger!Entries, Ledger!Nothing,
     Nothing, Writers
<1>2. IInv /\ IInv' /\ [Next]_vars => [Ledger!Next]_(Ledger!ledger)
  BY StepIsLedgerStep
<1> QED BY <1>1, <1>2, Inductive, PTL DEF Spec, IsLedger, Ledger!Spec
===============================================================================
