------------------------- MODULE ClaimServiceProofs -------------------------
(***************************************************************************)
(* ClaimService for any number of requests, policies, risks and seconds,   *)
(* beside an indexer that does what it likes to its own tables: a step is  *)
(* one of ClaimNext, or leaves what the service owns as it is.             *)
(***************************************************************************)
EXTENDS ClaimService, FiniteSetTheorems, SequenceTheorems, WellFoundedInduction, TLAPS

ClaimSpec == ClaimInit /\ [][ClaimNext]_own

-----------------------------------------------------------------------------
(* The shape of the state, and what a nonce is computed from.              *)

Records(rows) ==
  [pc: {"idle", "fetch_risk", "fetch_metrics", "read_nonce", "insert_nonce", "answered", "failed"},
   kind: Kinds \cup {None}, policy: Policies \cup {None}, risk: AskedRisks \cup {None}, row: rows,
   nonce: Nat \cup {None}, updatedAt: Nat \cup {None}]

NonceRecords == [policy: Policies, risk: AskedRisks, nonce: Nat \ {0}, updatedAt: Nat]
Messages == [request: Requests, policy: Policies, risk: AskedRisks, nonce: Nat \ {0}]

Shape ==
  /\ \E rows : requests \in [Requests -> Records(rows)]
  /\ claim_nonces \in Seq(NonceRecords) /\ signed \in Seq(Messages) /\ second \in Nat

\* What a request has of its own at each await.
InHandler(q) ==
  /\ q.pc # "idle" => q.kind \in Kinds /\ q.policy \in Policies /\ q.risk \in AskedRisks
  /\ q.pc \in {"read_nonce", "insert_nonce"} => q.kind = "sign"
  /\ q.pc = "insert_nonce" => q.nonce \in Nat \ {0} /\ q.updatedAt \in 0..second

InHandlers == \A r \in Requests : InHandler(requests[r])

NothingAhead == \A i \in DOMAIN claim_nonces : claim_nonces[i].updatedAt <= second

SamePair(i, j) ==
  claim_nonces[i].policy = claim_nonces[j].policy /\ claim_nonces[i].risk = claim_nonces[j].risk

\* j is the row FINAL keeps, or one of the rows it drops in favour of i.
NotNewer(j, i) ==
  \/ claim_nonces[j].updatedAt < claim_nonces[i].updatedAt
  \/ claim_nonces[j].updatedAt = claim_nonces[i].updatedAt /\ j <= i

\* FINAL keeps a row of every policy and risk that has one.
HasNewest ==
  \A i \in DOMAIN claim_nonces : \E j \in DOMAIN claim_nonces :
    SamePair(i, j) /\ \A k \in DOMAIN claim_nonces : SamePair(i, k) => NotNewer(k, j)

CInv == Shape /\ InHandlers /\ NothingAhead /\ HasNewest /\ SignedNonceRecorded

-----------------------------------------------------------------------------
(* What holds if one sign request of a policy and risk runs at a time.     *)

Alone ==
  \A r, s \in Requests :
    /\ Active(r) /\ requests[r].kind = "sign" /\ Active(s) /\ requests[s].kind = "sign"
    /\ requests[r].policy = requests[s].policy /\ requests[r].risk = requests[s].risk
    => r = s

\* The order of insertion is that of the nonces, and agrees with updated_at.
RowsInOrder ==
  \A i, j \in DOMAIN claim_nonces : i < j /\ SamePair(i, j) =>
    /\ claim_nonces[i].nonce < claim_nonces[j].nonce
    /\ claim_nonces[i].updatedAt <= claim_nonces[j].updatedAt

\* The nonce a request is about to insert is above all there are.
PendingAbove ==
  \A r \in Requests : requests[r].pc = "insert_nonce" =>
    \A i \in NonceRows(requests[r].policy, requests[r].risk) :
      /\ claim_nonces[i].nonce < requests[r].nonce
      /\ claim_nonces[i].updatedAt <= requests[r].updatedAt

OInv == CInv /\ Alone /\ RowsInOrder /\ PendingAbove /\ NoncesIncrease

-----------------------------------------------------------------------------
(* The table of nonces.                                                    *)

\* What nextNonce reads: nothing on file, or the row FINAL keeps.
LEMMA CurrentNonceIs ==
  ASSUME Shape, HasNewest, NEW policy, NEW risk
  PROVE  /\ CurrentNonce(policy, risk) \in Nat
         /\ \/ NonceRows(policy, risk) = {} /\ CurrentNonce(policy, risk) = 0
            \/ \E i \in NonceRows(policy, risk) :
                 /\ CurrentNonce(policy, risk) = claim_nonces[i].nonce
                 /\ \A j \in NonceRows(policy, risk) : NotNewer(j, i)
<1> DEFINE rows == NonceRows(policy, risk)
           Newest(i) == \A j \in rows :
             \/ claim_nonces[j].updatedAt < claim_nonces[i].updatedAt
             \/ claim_nonces[j].updatedAt = claim_nonces[i].updatedAt /\ j <= i
           newest == CHOOSE i \in rows : Newest(i)
<1>1. CASE rows = {}
  BY <1>1 DEF CurrentNonce
<1>2. CASE rows # {}
  <2>1. CurrentNonce(policy, risk) = claim_nonces[newest].nonce
    BY <1>2 DEF CurrentNonce
  <2>2. \E i \in rows : Newest(i)
    <3>1. PICK i \in rows : TRUE
      BY <1>2
    <3>2. PICK j \in DOMAIN claim_nonces :
            SamePair(i, j) /\ \A k \in DOMAIN claim_nonces : SamePair(i, k) => NotNewer(k, j)
      BY <3>1 DEF HasNewest, NonceRows
    <3> QED BY <3>1, <3>2 DEF NonceRows, SamePair, NotNewer
  <2>3. newest \in rows /\ Newest(newest)
    BY <2>2
  <2>4. claim_nonces[newest].nonce \in Nat
    <3>1. newest \in DOMAIN claim_nonces
      BY <2>3 DEF NonceRows
    <3>2. claim_nonces[newest] \in NonceRecords
      BY <3>1, ElementOfSeq DEF Shape
    <3> QED BY <3>2 DEF NonceRecords
  <2>5. newest \in rows /\ \A j \in rows : NotNewer(j, newest)
    BY <2>3 DEF NotNewer
  <2> HIDE DEF newest
  <2> QED BY <2>1, <2>4, <2>5
<1> QED BY <1>1, <1>2

\* The rows of the table.
LEMMA RowsAre ==
  ASSUME Shape, NEW i \in DOMAIN claim_nonces
  PROVE  i \in Nat /\ claim_nonces[i] \in NonceRecords
         /\ claim_nonces[i].nonce \in Nat \ {0} /\ claim_nonces[i].updatedAt \in Nat
<1> DEFINE rows == claim_nonces
<1>1. rows \in Seq(NonceRecords) /\ DOMAIN rows = 1..Len(rows) /\ Len(rows) \in Nat
  BY LenProperties DEF Shape
<1> HIDE DEF rows
<1>2. \A j \in 1..Len(rows) : rows[j] \in NonceRecords
  BY <1>1, ElementOfSeq
<1> QED BY <1>1, <1>2 DEF rows, NonceRecords

\* A row is inserted after all others, no later than the present.
LEMMA RowInserted ==
  ASSUME Shape, HasNewest, NEW row \in NonceRecords,
         claim_nonces' = Append(claim_nonces, row)
  PROVE  /\ claim_nonces' \in Seq(NonceRecords)
         /\ HasNewest'
         /\ \A i \in DOMAIN claim_nonces' :
              \/ i \in DOMAIN claim_nonces /\ claim_nonces'[i] = claim_nonces[i]
              \/ i = Len(claim_nonces) + 1 /\ claim_nonces'[i] = row
         /\ \A i \in DOMAIN claim_nonces :
              /\ i \in DOMAIN claim_nonces' /\ claim_nonces'[i] = claim_nonces[i]
              /\ i \in Nat /\ i < Len(claim_nonces) + 1
         /\ Len(claim_nonces) + 1 \in DOMAIN claim_nonces'
<1> DEFINE new == Len(claim_nonces) + 1
<1>1. claim_nonces \in Seq(NonceRecords) /\ Len(claim_nonces) \in Nat
  BY LenProperties DEF Shape
<1>2. /\ claim_nonces' \in Seq(NonceRecords)
      /\ DOMAIN claim_nonces = 1..Len(claim_nonces) /\ DOMAIN claim_nonces' = 1..new
      /\ \A i \in 1..Len(claim_nonces) : claim_nonces'[i] = claim_nonces[i]
      /\ claim_nonces'[new] = row
  BY <1>1, AppendProperties, LenProperties
<1>3. /\ \A i \in DOMAIN claim_nonces :
           /\ i \in DOMAIN claim_nonces' /\ claim_nonces'[i] = claim_nonces[i]
           /\ i \in Nat /\ i < new
      /\ \A i \in DOMAIN claim_nonces' : i \in DOMAIN claim_nonces \/ i = new
      /\ new \in DOMAIN claim_nonces' /\ new \in Nat
  BY <1>1, <1>2
<1> HIDE DEF new
<1>4. HasNewest'
  <2> DEFINE Best(i, j) == /\ claim_nonces'[i].policy = claim_nonces'[j].policy
                           /\ claim_nonces'[i].risk = claim_nonces'[j].risk
                           /\ \A k \in DOMAIN claim_nonces' :
                                /\ claim_nonces'[i].policy = claim_nonces'[k].policy
                                /\ claim_nonces'[i].risk = claim_nonces'[k].risk
                                => \/ claim_nonces'[k].updatedAt < claim_nonces'[j].updatedAt
                                   \/ claim_nonces'[k].updatedAt = claim_nonces'[j].updatedAt /\ k <= j
  <2>1. \A i \in DOMAIN claim_nonces' : claim_nonces'[i].updatedAt \in Nat
    <3>1. \A i \in DOMAIN claim_nonces : claim_nonces[i] \in NonceRecords
      BY <1>1, <1>2, ElementOfSeq
    <3> QED BY <1>2, <1>3, <3>1 DEF NonceRecords
  <2>2. ASSUME NEW i \in DOMAIN claim_nonces,
               ~(claim_nonces[i].policy = row.policy /\ claim_nonces[i].risk = row.risk)
        PROVE  \E j \in DOMAIN claim_nonces' : Best(i, j)
    <3>1. PICK j \in DOMAIN claim_nonces :
            SamePair(i, j) /\ \A k \in DOMAIN claim_nonces : SamePair(i, k) => NotNewer(k, j)
      BY <2>2 DEF HasNewest
    <3> QED BY <1>2, <1>3, <2>2, <3>1 DEF SamePair, NotNewer
  <2>3. ASSUME NEW i \in DOMAIN claim_nonces,
               claim_nonces[i].policy = row.policy, claim_nonces[i].risk = row.risk
        PROVE  \E j \in DOMAIN claim_nonces' : Best(i, j) /\ Best(new, j)
    <3>1. PICK j \in DOMAIN claim_nonces :
            SamePair(i, j) /\ \A k \in DOMAIN claim_nonces : SamePair(i, k) => NotNewer(k, j)
      BY <2>3 DEF HasNewest
    <3>2. CASE claim_nonces[j].updatedAt <= row.updatedAt
      <4>1. Best(i, new) /\ Best(new, new)
        BY <1>2, <1>3, <2>1, <2>3, <3>1, <3>2 DEF SamePair, NotNewer
      <4> QED BY <1>3, <4>1
    <3>3. CASE ~(claim_nonces[j].updatedAt <= row.updatedAt)
      <4>1. Best(i, j) /\ Best(new, j)
        BY <1>2, <1>3, <2>1, <2>3, <3>1, <3>3 DEF SamePair, NotNewer
      <4> QED BY <1>3, <3>1, <4>1
    <3> QED BY <3>2, <3>3
  <2>4. \E j \in DOMAIN claim_nonces' : Best(new, j)
    <3>1. CASE \E i \in DOMAIN claim_nonces :
                 claim_nonces[i].policy = row.policy /\ claim_nonces[i].risk = row.risk
      BY <2>3, <3>1
    <3>2. CASE ~\E i \in DOMAIN claim_nonces :
                 claim_nonces[i].policy = row.policy /\ claim_nonces[i].risk = row.risk
      <4>1. Best(new, new)
        BY <1>2, <1>3, <2>1, <3>2
      <4> QED BY <1>3, <4>1
    <3> QED BY <3>1, <3>2
  <2>5. \A i \in DOMAIN claim_nonces' : \E j \in DOMAIN claim_nonces' : Best(i, j)
    <3> HIDE DEF Best
    <3>1. SUFFICES ASSUME NEW i \in DOMAIN claim_nonces
                   PROVE  \E j \in DOMAIN claim_nonces' : Best(i, j)
      BY <1>3, <2>4
    <3> QED BY <3>1, <2>2, <2>3
  <2> QED BY <2>5 DEF HasNewest, SamePair, NotNewer
<1> QED BY <1>2, <1>3, <1>4 DEF new

-----------------------------------------------------------------------------
(* Every step keeps CInv.                                                  *)

\* One request moves on, and the others stay where they are.
LEMMA Moved ==
  ASSUME Shape, NEW r \in Requests, NEW rows, NEW q \in Records(rows),
         requests' = [requests EXCEPT ![r] = q]
  PROVE  /\ \E more : requests' \in [Requests -> Records(more)]
         /\ requests'[r] = q
         /\ \A s \in Requests : s # r => requests'[s] = requests[s]
<1>1. PICK before : requests \in [Requests -> Records(before)]
  BY DEF Shape
<1> DEFINE more == before \cup rows
<1>2. Records(before) \subseteq Records(more) /\ Records(rows) \subseteq Records(more)
  BY DEF Records
<1>3. requests' \in [Requests -> Records(more)]
  BY <1>1, <1>2
<1> QED BY <1>1, <1>3

\* A step that only moves one request on.
LEMMA OnlyMoves ==
  ASSUME CInv, NEW r \in Requests, NEW rows, NEW q \in Records(rows), InHandler(q),
         requests' = [requests EXCEPT ![r] = q],
         UNCHANGED <<claim_nonces, signed, second>>
  PROVE  CInv'
<1>1. /\ \E more : requests' \in [Requests -> Records(more)]
      /\ requests'[r] = q
      /\ \A s \in Requests : s # r => requests'[s] = requests[s]
  BY Moved DEF CInv
<1>2. Shape'
  BY <1>1 DEF CInv, Shape
<1>3. InHandlers'
  BY <1>1 DEF CInv, InHandlers, InHandler
<1>4. NothingAhead' /\ HasNewest' /\ SignedNonceRecorded'
  BY DEF CInv, NothingAhead, HasNewest, SamePair, NotNewer, SignedNonceRecorded, NonceRows
<1> QED BY <1>2, <1>3, <1>4 DEF CInv

\* A request in a handler, by what its record says.
LEMMA RequestIs ==
  ASSUME CInv, NEW r \in Requests
  PROVE  /\ \E rows : requests[r] \in Records(rows)
         /\ InHandler(requests[r])
  BY DEF CInv, Shape, InHandlers

LEMMA ArriveKeepsC ==
  ASSUME CInv, NEW r \in Requests, Arrive(r)
  PROVE  CInv'
<1>1. PICK kind \in Kinds, policy \in Policies, risk \in AskedRisks :
        requests' = [requests EXCEPT ![r] =
          [Idle EXCEPT !.pc = "fetch_risk", !.kind = kind, !.policy = policy, !.risk = risk]]
  BY DEF Arrive
<1> DEFINE q == [Idle EXCEPT !.pc = "fetch_risk", !.kind = kind, !.policy = policy, !.risk = risk]
<1>2. q \in Records({None}) /\ InHandler(q)
  BY DEF Idle, Records, InHandler
<1> HIDE DEF q
<1>3. requests' = [requests EXCEPT ![r] = q] /\ UNCHANGED <<claim_nonces, signed, second>>
  BY <1>1 DEF Arrive, q
<1> QED BY <1>2, <1>3, OnlyMoves

LEMMA FetchRiskKeepsC ==
  ASSUME CInv, NEW r \in Requests, FetchRisk(r)
  PROVE  CInv'
<1>1. PICK rows : requests[r] \in Records(rows)
  BY RequestIs
<1>2. InHandler(requests[r]) /\ requests[r].pc = "fetch_risk"
  BY RequestIs DEF FetchRisk
<1> DEFINE latest == Latest(risk_events, requests[r].risk)
           fetched == [requests[r] EXCEPT !.pc = "fetch_metrics", !.row = latest]
           failed == [requests[r] EXCEPT !.pc = "failed"]
<1>3. UNCHANGED <<claim_nonces, signed, second>>
  BY DEF FetchRisk
<1>4. requests' = [requests EXCEPT ![r] = fetched] \/ requests' = [requests EXCEPT ![r] = failed]
  BY DEF FetchRisk
<1> HIDE DEF latest
<1>5. fetched \in Records(rows \cup {latest}) /\ InHandler(fetched)
  BY <1>1, <1>2 DEF Records, InHandler
<1>6. failed \in Records(rows) /\ InHandler(failed)
  BY <1>1, <1>2 DEF Records, InHandler
<1> HIDE DEF fetched, failed
<1> QED BY <1>3, <1>4, <1>5, <1>6, OnlyMoves

LEMMA FetchMetricsKeepsC ==
  ASSUME CInv, NEW r \in Requests, FetchMetrics(r)
  PROVE  CInv'
<1>1. PICK rows : requests[r] \in Records(rows)
  BY RequestIs
<1>2. InHandler(requests[r]) /\ requests[r].pc = "fetch_metrics"
  BY RequestIs DEF FetchMetrics
<1> DEFINE q == [requests[r] EXCEPT !.pc =
                   IF requests[r].kind = "sign" THEN "read_nonce" ELSE "answered"]
<1>3. requests' = [requests EXCEPT ![r] = q] /\ UNCHANGED <<claim_nonces, signed, second>>
  BY DEF FetchMetrics
<1>4. q \in Records(rows) /\ InHandler(q)
  BY <1>1, <1>2 DEF Records, InHandler
<1> HIDE DEF q
<1> QED BY <1>3, <1>4, OnlyMoves

\* A nonce is a positive number: 1, or what was read with a digit more.
LEMMA NextNonceIs ==
  ASSUME NEW current \in Nat
  PROVE  NextNonce(current) \in Nat \ {0} /\ current < NextNonce(current)
  BY DEF NextNonce

LEMMA ReadNonceKeepsC ==
  ASSUME CInv, NEW r \in Requests, ReadNonce(r)
  PROVE  CInv'
<1>1. PICK rows : requests[r] \in Records(rows)
  BY RequestIs
<1>2. InHandler(requests[r]) /\ requests[r].pc = "read_nonce"
  BY RequestIs DEF ReadNonce
<1> DEFINE nonce == NextNonce(CurrentNonce(requests[r].policy, requests[r].risk))
           q == [requests[r] EXCEPT !.pc = "insert_nonce", !.nonce = nonce, !.updatedAt = second]
<1>3. requests' = [requests EXCEPT ![r] = q] /\ UNCHANGED <<claim_nonces, signed, second>>
  BY DEF ReadNonce
<1>4. nonce \in Nat \ {0}
  BY CurrentNonceIs, NextNonceIs DEF CInv
<1>5. second \in Nat /\ second \in 0..second
  BY DEF CInv, Shape
<1> HIDE DEF nonce
<1>6. q \in Records(rows) /\ InHandler(q)
  BY <1>1, <1>2, <1>4, <1>5 DEF Records, InHandler
<1> HIDE DEF q
<1> QED BY <1>3, <1>6, OnlyMoves

\* What an insert writes.
LEMMA InsertWrites ==
  ASSUME CInv, NEW r \in Requests, requests[r].pc = "insert_nonce"
  PROVE  /\ NonceRow(r) \in NonceRecords /\ Message(r) \in Messages
         /\ NonceRow(r).updatedAt <= second
<1>1. InHandler(requests[r])
  BY RequestIs
<1>2. second \in Nat
  BY DEF CInv, Shape
<1> QED BY <1>1, <1>2 DEF InHandler, NonceRow, Message, NonceRecords, Messages

\* The rows of claim_nonces stay, and a step adds none or that of request r.
RowsAfter(r) ==
  \/ claim_nonces' = claim_nonces
  \/ claim_nonces' = Append(claim_nonces, NonceRow(r))

\* A message is signed when its nonce is stored.
SignedAfter(r) ==
  \/ signed' = signed
  \/ signed' = Append(signed, Message(r)) /\ claim_nonces' = Append(claim_nonces, NonceRow(r))

LEMMA SignedGrows ==
  ASSUME Shape, NEW message \in Messages, signed' = Append(signed, message)
  PROVE  /\ signed' \in Seq(Messages)
         /\ DOMAIN signed = 1..Len(signed) /\ DOMAIN signed' = 1..(Len(signed) + 1)
         /\ Len(signed) \in Nat
         /\ \A k \in DOMAIN signed : signed'[k] = signed[k]
         /\ signed'[Len(signed) + 1] = message
<1>1. signed \in Seq(Messages)
  BY DEF Shape
<1> QED BY <1>1, AppendProperties, LenProperties

LEMMA InsertNonceKeepsC ==
  ASSUME CInv, NEW r \in Requests, NEW outcome, InsertNonce(r, outcome)
  PROVE  CInv'
<1>1. PICK rows : requests[r] \in Records(rows)
  BY RequestIs
<1>2. InHandler(requests[r]) /\ requests[r].pc = "insert_nonce"
  BY RequestIs DEF InsertNonce
<1> DEFINE q == [requests[r] EXCEPT !.pc = "failed"]
<1>3. requests' = [requests EXCEPT ![r] = q] /\ second' = second
  BY DEF InsertNonce
<1>4. q \in Records(rows) /\ InHandler(q)
  BY <1>1, <1>2 DEF Records, InHandler
<1> HIDE DEF q
<1>5. /\ \E more : requests' \in [Requests -> Records(more)]
      /\ requests'[r] = q
      /\ \A s \in Requests : s # r => requests'[s] = requests[s]
  BY <1>3, <1>4, Moved DEF CInv
<1>6. InHandlers'
  BY <1>3, <1>4, <1>5 DEF CInv, InHandlers, InHandler
<1>7. RowsAfter(r) /\ SignedAfter(r)
  BY DEF InsertNonce, RowsAfter, SignedAfter
<1>8. /\ NonceRow(r) \in NonceRecords /\ Message(r) \in Messages
      /\ NonceRow(r).updatedAt <= second
  BY <1>2, InsertWrites
<1> DEFINE row == NonceRow(r)
           message == Message(r)
<1>9. row.policy = message.policy /\ row.risk = message.risk /\ row.nonce = message.nonce
  BY DEF NonceRow, Message
<1>10. /\ claim_nonces' \in Seq(NonceRecords) /\ HasNewest' /\ NothingAhead'
       /\ \A i \in DOMAIN claim_nonces :
            i \in DOMAIN claim_nonces' /\ claim_nonces'[i] = claim_nonces[i]
       /\ claim_nonces' = Append(claim_nonces, row) =>
            \E i \in DOMAIN claim_nonces' : claim_nonces'[i] = row
  <2>1. CASE claim_nonces' = claim_nonces
    <3>1. claim_nonces \in Seq(NonceRecords) /\ Len(claim_nonces) \in Nat
      BY LenProperties DEF CInv, Shape
    <3>2. claim_nonces' # Append(claim_nonces, row)
      <4>1. Len(Append(claim_nonces, row)) = Len(claim_nonces) + 1
        BY <1>8, <3>1, AppendProperties
      <4> QED BY <2>1, <3>1, <4>1
    <3> QED BY <1>3, <2>1, <3>1, <3>2 DEF CInv, HasNewest, NothingAhead, SamePair, NotNewer
  <2>2. CASE claim_nonces' = Append(claim_nonces, row)
    <3>1. PICK new \in NonceRecords : new = row
      BY <1>8
    <3>2. Shape /\ HasNewest /\ NothingAhead /\ claim_nonces' = Append(claim_nonces, new)
      BY <2>2, <3>1 DEF CInv
    <3>3. /\ claim_nonces' \in Seq(NonceRecords)
          /\ HasNewest'
          /\ \A i \in DOMAIN claim_nonces' :
               \/ i \in DOMAIN claim_nonces /\ claim_nonces'[i] = claim_nonces[i]
               \/ i = Len(claim_nonces) + 1 /\ claim_nonces'[i] = new
          /\ \A i \in DOMAIN claim_nonces :
               /\ i \in DOMAIN claim_nonces' /\ claim_nonces'[i] = claim_nonces[i]
               /\ i \in Nat /\ i < Len(claim_nonces) + 1
          /\ Len(claim_nonces) + 1 \in DOMAIN claim_nonces'
      BY <3>2, RowInserted
    <3>4. claim_nonces'[Len(claim_nonces) + 1] = new
      BY <3>3
    <3>5. NothingAhead'
      BY <1>3, <1>8, <3>1, <3>2, <3>3 DEF NothingAhead
    <3> QED BY <3>1, <3>3, <3>4, <3>5
  <2> QED BY <1>7, <2>1, <2>2 DEF RowsAfter
<1>11. signed' \in Seq(Messages) /\ SignedNonceRecorded'
  <2>1. \A k \in DOMAIN signed : \E i \in DOMAIN claim_nonces :
          /\ claim_nonces[i].policy = signed[k].policy /\ claim_nonces[i].risk = signed[k].risk
          /\ claim_nonces[i].nonce = signed[k].nonce
    BY DEF CInv, SignedNonceRecorded, NonceRows
  <2>2. CASE signed' = signed
    BY <1>10, <2>1, <2>2 DEF CInv, Shape, SignedNonceRecorded, NonceRows
  <2>3. CASE signed' = Append(signed, message) /\ claim_nonces' = Append(claim_nonces, row)
    <3>1. PICK new \in Messages : new = message
      BY <1>8
    <3>2. /\ signed' \in Seq(Messages)
          /\ DOMAIN signed = 1..Len(signed) /\ DOMAIN signed' = 1..(Len(signed) + 1)
          /\ Len(signed) \in Nat
          /\ \A k \in DOMAIN signed : signed'[k] = signed[k]
          /\ signed'[Len(signed) + 1] = new
      BY <2>3, <3>1, SignedGrows DEF CInv
    <3>3. \A k \in DOMAIN signed' : k \in DOMAIN signed \/ signed'[k] = new
      BY <3>2
    <3>4. PICK i \in DOMAIN claim_nonces' : claim_nonces'[i] = row
      BY <1>10, <2>3
    <3> HIDE DEF row, message
    <3> QED BY <1>9, <1>10, <2>1, <3>1, <3>2, <3>3, <3>4 DEF SignedNonceRecorded, NonceRows
  <2> QED BY <1>7, <2>2, <2>3 DEF SignedAfter
<1>12. Shape'
  BY <1>3, <1>5, <1>10, <1>11 DEF CInv, Shape
<1> QED BY <1>6, <1>10, <1>11, <1>12 DEF CInv

LEMMA RestartKeepsC ==
  ASSUME CInv, Restart
  PROVE  CInv'
<1>1. PICK rows : requests \in [Requests -> Records(rows)]
  BY DEF CInv, Shape
<1>2. ASSUME NEW r \in Requests
      PROVE  requests'[r] \in Records(rows) /\ InHandler(requests'[r])
  <2>1. requests[r] \in Records(rows) /\ InHandler(requests[r])
    BY <1>1, RequestIs
  <2>2. \/ requests'[r] = requests[r]
        \/ requests'[r] = [requests[r] EXCEPT !.pc = "failed"] /\ Active(r)
    BY DEF Restart
  <2>3. CASE requests'[r] = [requests[r] EXCEPT !.pc = "failed"] /\ Active(r)
    <3>1. requests[r].pc # "idle"
      BY <2>3 DEF Active
    <3> QED BY <2>1, <2>3, <3>1 DEF Records, InHandler
  <2> QED BY <2>1, <2>2, <2>3
<1>3. requests' \in [Requests -> Records(rows)] /\ UNCHANGED <<claim_nonces, signed, second>>
  BY <1>2 DEF Restart
<1>4. Shape'
  BY <1>3 DEF CInv, Shape
<1>5. InHandlers'
  BY <1>2, <1>3 DEF InHandlers, InHandler
<1>6. NothingAhead' /\ HasNewest' /\ SignedNonceRecorded'
  BY <1>3 DEF CInv, NothingAhead, HasNewest, SamePair, NotNewer, SignedNonceRecorded, NonceRows
<1> QED BY <1>4, <1>5, <1>6 DEF CInv

LEMMA TickKeepsC ==
  ASSUME CInv, Tick
  PROVE  CInv'
<1>1. second \in Nat /\ second' = second + 1 /\ UNCHANGED <<requests, claim_nonces, signed>>
  BY DEF CInv, Shape, Tick
<1>2. Shape'
  BY <1>1 DEF CInv, Shape
<1>3. InHandlers'
  BY <1>1 DEF CInv, InHandlers, InHandler
<1>4. NothingAhead'
  <2>1. \A i \in DOMAIN claim_nonces : claim_nonces[i].updatedAt \in Nat
    BY RowsAre DEF CInv
  <2> QED BY <1>1, <2>1 DEF CInv, NothingAhead
<1>5. HasNewest' /\ SignedNonceRecorded'
  BY <1>1 DEF CInv, HasNewest, SamePair, NotNewer, SignedNonceRecorded, NonceRows
<1> QED BY <1>2, <1>3, <1>4, <1>5 DEF CInv

LEMMA StutterKeepsC ==
  ASSUME CInv, UNCHANGED own
  PROVE  CInv'
<1>1. UNCHANGED <<requests, claim_nonces, signed, second>>
  BY DEF own
<1>2. Shape' /\ InHandlers'
  BY <1>1 DEF CInv, Shape, InHandlers, InHandler
<1>3. NothingAhead' /\ HasNewest' /\ SignedNonceRecorded'
  BY <1>1 DEF CInv, NothingAhead, HasNewest, SamePair, NotNewer, SignedNonceRecorded, NonceRows
<1> QED BY <1>2, <1>3 DEF CInv

LEMMA InitC ==
  ASSUME ClaimInit
  PROVE  CInv
<1>1. Idle \in Records({None}) /\ InHandler(Idle)
  BY DEF Idle, Records, InHandler
<1>2. requests \in [Requests -> Records({None})] /\ InHandlers
  BY <1>1 DEF ClaimInit, InHandlers
<1>3. claim_nonces = <<>> /\ signed = <<>> /\ second = 0
  BY DEF ClaimInit
<1>4. DOMAIN claim_nonces = {} /\ DOMAIN signed = {}
  BY <1>3
<1>5. Shape
  BY <1>2, <1>3 DEF Shape
<1> QED BY <1>2, <1>4, <1>5 DEF CInv, NothingAhead, HasNewest, SignedNonceRecorded

LEMMA NextKeepsC ==
  ASSUME CInv, [ClaimNext]_own
  PROVE  CInv'
<1>1. ASSUME NEW r \in Requests, Arrive(r) PROVE CInv'
  BY <1>1, ArriveKeepsC
<1>2. ASSUME NEW r \in Requests, FetchRisk(r) PROVE CInv'
  BY <1>2, FetchRiskKeepsC
<1>3. ASSUME NEW r \in Requests, FetchMetrics(r) PROVE CInv'
  BY <1>3, FetchMetricsKeepsC
<1>4. ASSUME NEW r \in Requests, ReadNonce(r) PROVE CInv'
  BY <1>4, ReadNonceKeepsC
<1>5. ASSUME NEW r \in Requests, NEW outcome, InsertNonce(r, outcome) PROVE CInv'
  BY <1>5, InsertNonceKeepsC
<1>6. CASE Restart
  BY <1>6, RestartKeepsC
<1>7. CASE Tick
  BY <1>7, TickKeepsC
<1>8. CASE UNCHANGED own
  BY <1>8, StutterKeepsC
<1> QED BY <1>1, <1>2, <1>3, <1>4, <1>5, <1>6, <1>7, <1>8 DEF ClaimNext

LEMMA AlwaysC == ClaimSpec => []CInv
<1>1. ClaimInit => CInv
  BY InitC
<1>2. CInv /\ [ClaimNext]_own => CInv'
  BY NextKeepsC
<1> QED BY <1>1, <1>2, PTL DEF ClaimSpec

\* Whatever inserts fail, whoever restarts and however many sign requests of a
\* policy and risk interleave, the nonce of a message that signClaim signed is
\* a row of claim_nonces.
THEOREM SignedNoncesRecorded == ClaimSpec => []SignedNonceRecorded
<1>1. CInv => SignedNonceRecorded
  BY DEF CInv
<1> QED BY <1>1, AlwaysC, PTL

-----------------------------------------------------------------------------
(* One sign request of a policy and risk at a time.                        *)

\* The tables and the messages stay.
TablesStay == UNCHANGED <<claim_nonces, signed, second>>

\* A request that goes on, elsewhere than to its insert.
LEMMA GoesOn ==
  ASSUME OInv, NEW r \in Requests, NEW rows, NEW q \in Records(rows), Active(r), TablesStay,
         requests' = [requests EXCEPT ![r] = q], q.pc # "insert_nonce",
         q.kind = requests[r].kind, q.policy = requests[r].policy, q.risk = requests[r].risk
  PROVE  Alone' /\ RowsInOrder' /\ PendingAbove' /\ NoncesIncrease'
<1>1. /\ requests'[r] = q
      /\ \A s \in Requests : s # r => requests'[s] = requests[s]
  BY Moved DEF OInv, CInv
<1>2. Alone'
  BY <1>1 DEF OInv, Alone, Active
<1>3. PendingAbove'
  BY <1>1 DEF OInv, PendingAbove, NonceRows, TablesStay
<1>4. RowsInOrder' /\ NoncesIncrease'
  BY DEF OInv, RowsInOrder, SamePair, NoncesIncrease, TablesStay
<1> QED BY <1>2, <1>3, <1>4

LEMMA ArriveKeepsO ==
  ASSUME MaxInFlight = 1, OInv, NEW r \in Requests, Arrive(r)
  PROVE  Alone' /\ RowsInOrder' /\ PendingAbove' /\ NoncesIncrease'
<1>1. PICK kind \in Kinds, policy \in Policies, risk \in AskedRisks :
        /\ kind = "sign" => Cardinality(InFlight(policy, risk)) < MaxInFlight
        /\ requests' = [requests EXCEPT ![r] =
             [Idle EXCEPT !.pc = "fetch_risk", !.kind = kind, !.policy = policy, !.risk = risk]]
  BY DEF Arrive
<1> DEFINE q == [Idle EXCEPT !.pc = "fetch_risk", !.kind = kind, !.policy = policy, !.risk = risk]
<1>2. /\ q \in Records({None}) /\ q.pc = "fetch_risk"
      /\ q.kind = kind /\ q.policy = policy /\ q.risk = risk
  BY DEF Idle, Records
<1>3. requests' = [requests EXCEPT ![r] = q]
  BY <1>1
<1> HIDE DEF q
<1>4. TablesStay
  BY DEF Arrive, TablesStay
<1>5. /\ requests'[r] = q
      /\ \A s \in Requests : s # r => requests'[s] = requests[s]
  BY <1>2, <1>3, Moved DEF OInv, CInv
<1>6. kind = "sign" => InFlight(policy, risk) = {}
  <2>1. IsFiniteSet(InFlight(policy, risk))
    BY ClaimConfig, FS_Subset DEF InFlight
  <2>2. Cardinality(InFlight(policy, risk)) \in Nat
    BY <2>1, FS_CardinalityType
  <2>3. kind = "sign" => Cardinality(InFlight(policy, risk)) = 0
    BY <1>1, <2>2
  <2> QED BY <2>1, <2>3, FS_EmptySet
<1>7. Alone'
  <2>1. \A s \in Requests : kind = "sign" =>
          ~(/\ Active(s) /\ requests[s].kind = "sign"
            /\ requests[s].policy = policy /\ requests[s].risk = risk)
    BY <1>6 DEF InFlight
  <2> QED BY <1>2, <1>5, <2>1 DEF OInv, Alone, Active
<1>8. PendingAbove'
  BY <1>2, <1>4, <1>5 DEF OInv, PendingAbove, NonceRows, TablesStay
<1>9. RowsInOrder' /\ NoncesIncrease'
  BY <1>4 DEF OInv, RowsInOrder, SamePair, NoncesIncrease, TablesStay
<1> QED BY <1>7, <1>8, <1>9

LEMMA FetchRiskKeepsO ==
  ASSUME OInv, NEW r \in Requests, FetchRisk(r)
  PROVE  Alone' /\ RowsInOrder' /\ PendingAbove' /\ NoncesIncrease'
<1>1. PICK rows : requests[r] \in Records(rows)
  BY RequestIs DEF OInv
<1> DEFINE latest == Latest(risk_events, requests[r].risk)
           fetched == [requests[r] EXCEPT !.pc = "fetch_metrics", !.row = latest]
           failed == [requests[r] EXCEPT !.pc = "failed"]
<1>2. TablesStay /\ Active(r)
  BY DEF FetchRisk, TablesStay, Active
<1>3. requests' = [requests EXCEPT ![r] = fetched] \/ requests' = [requests EXCEPT ![r] = failed]
  BY DEF FetchRisk
<1> HIDE DEF latest
<1>4. /\ fetched \in Records(rows \cup {latest}) /\ fetched.pc = "fetch_metrics"
      /\ fetched.kind = requests[r].kind /\ fetched.policy = requests[r].policy
      /\ fetched.risk = requests[r].risk
  BY <1>1 DEF Records
<1>5. /\ failed \in Records(rows) /\ failed.pc = "failed"
      /\ failed.kind = requests[r].kind /\ failed.policy = requests[r].policy
      /\ failed.risk = requests[r].risk
  BY <1>1 DEF Records
<1> HIDE DEF fetched, failed
<1>6. fetched.pc # "insert_nonce" /\ failed.pc # "insert_nonce"
  BY <1>4, <1>5
<1> QED BY <1>2, <1>3, <1>4, <1>5, <1>6, GoesOn

LEMMA FetchMetricsKeepsO ==
  ASSUME OInv, NEW r \in Requests, FetchMetrics(r)
  PROVE  Alone' /\ RowsInOrder' /\ PendingAbove' /\ NoncesIncrease'
<1>1. PICK rows : requests[r] \in Records(rows)
  BY RequestIs DEF OInv
<1> DEFINE q == [requests[r] EXCEPT !.pc =
                   IF requests[r].kind = "sign" THEN "read_nonce" ELSE "answered"]
<1>2. TablesStay /\ Active(r) /\ requests' = [requests EXCEPT ![r] = q]
  BY DEF FetchMetrics, TablesStay, Active
<1>3. /\ q \in Records(rows) /\ q.pc # "insert_nonce"
      /\ q.kind = requests[r].kind /\ q.policy = requests[r].policy
      /\ q.risk = requests[r].risk
  BY <1>1 DEF Records
<1> HIDE DEF q
<1> QED BY <1>2, <1>3, GoesOn

\* The newest row of a pair carries its largest nonce.
LEMMA CurrentIsLargest ==
  ASSUME OInv, NEW policy, NEW risk
  PROVE  \A j \in NonceRows(policy, risk) : claim_nonces[j].nonce <= CurrentNonce(policy, risk)
<1>1. \A i \in DOMAIN claim_nonces :
        i \in Nat /\ claim_nonces[i].nonce \in Nat /\ claim_nonces[i].updatedAt \in Nat
  BY RowsAre DEF OInv, CInv
<1>2. CASE NonceRows(policy, risk) = {}
  BY <1>2
<1>3. CASE \E i \in NonceRows(policy, risk) :
             /\ CurrentNonce(policy, risk) = claim_nonces[i].nonce
             /\ \A j \in NonceRows(policy, risk) : NotNewer(j, i)
  <2>1. PICK i \in NonceRows(policy, risk) :
          /\ CurrentNonce(policy, risk) = claim_nonces[i].nonce
          /\ \A j \in NonceRows(policy, risk) : NotNewer(j, i)
    BY <1>3
  <2>2. ASSUME NEW j \in NonceRows(policy, risk)
        PROVE  claim_nonces[j].nonce <= claim_nonces[i].nonce
    <3>1. i \in DOMAIN claim_nonces /\ j \in DOMAIN claim_nonces /\ SamePair(i, j) /\ SamePair(j, i)
      BY <2>1, <2>2 DEF NonceRows, SamePair
    <3>2. /\ i < j => claim_nonces[i].updatedAt <= claim_nonces[j].updatedAt
          /\ j < i => claim_nonces[j].nonce < claim_nonces[i].nonce
      BY <3>1 DEF OInv, RowsInOrder
    <3>3. j <= i
      BY <1>1, <2>1, <3>1, <3>2 DEF NotNewer
    <3> QED BY <1>1, <3>1, <3>2, <3>3
  <2> QED BY <2>1, <2>2
<1> QED BY <1>2, <1>3, CurrentNonceIs DEF OInv, CInv

LEMMA ReadNonceKeepsO ==
  ASSUME OInv, NEW r \in Requests, ReadNonce(r)
  PROVE  Alone' /\ RowsInOrder' /\ PendingAbove' /\ NoncesIncrease'
<1>1. PICK rows : requests[r] \in Records(rows)
  BY RequestIs DEF OInv
<1> DEFINE current == CurrentNonce(requests[r].policy, requests[r].risk)
           nonce == NextNonce(current)
           q == [requests[r] EXCEPT !.pc = "insert_nonce", !.nonce = nonce, !.updatedAt = second]
<1>2. TablesStay /\ Active(r) /\ requests' = [requests EXCEPT ![r] = q]
  BY DEF ReadNonce, TablesStay, Active
<1>3. current \in Nat /\ nonce \in Nat \ {0} /\ current < nonce
  BY CurrentNonceIs, NextNonceIs DEF OInv, CInv
<1>4. \A i \in NonceRows(requests[r].policy, requests[r].risk) :
        claim_nonces[i].nonce <= current /\ claim_nonces[i].updatedAt <= second
  BY CurrentIsLargest DEF OInv, CInv, NothingAhead, NonceRows
<1>5. \A i \in DOMAIN claim_nonces : claim_nonces[i].nonce \in Nat
  BY RowsAre DEF OInv, CInv
<1> HIDE DEF current, nonce
<1>6. second \in Nat
  BY DEF OInv, CInv, Shape
<1>7. /\ q \in Records(rows) /\ q.nonce = nonce /\ q.updatedAt = second
      /\ q.kind = requests[r].kind /\ q.policy = requests[r].policy
      /\ q.risk = requests[r].risk
  BY <1>1, <1>3, <1>6 DEF Records
<1> HIDE DEF q
<1>8. /\ requests'[r] = q
      /\ \A s \in Requests : s # r => requests'[s] = requests[s]
  BY <1>2, <1>7, Moved DEF OInv, CInv
<1>9. Alone'
  BY <1>2, <1>7, <1>8 DEF OInv, Alone, Active
<1>10. PendingAbove'
  <2>1. \A i \in NonceRows(requests[r].policy, requests[r].risk) :
          claim_nonces[i].nonce < nonce /\ claim_nonces[i].updatedAt <= second
    BY <1>3, <1>4, <1>5 DEF NonceRows
  <2> QED BY <1>2, <1>7, <1>8, <2>1 DEF OInv, PendingAbove, NonceRows, TablesStay
<1>11. RowsInOrder' /\ NoncesIncrease'
  BY <1>2 DEF OInv, RowsInOrder, SamePair, NoncesIncrease, TablesStay
<1> QED BY <1>9, <1>10, <1>11

LEMMA InsertNonceKeepsO ==
  ASSUME OInv, NEW r \in Requests, NEW outcome, InsertNonce(r, outcome)
  PROVE  Alone' /\ RowsInOrder' /\ PendingAbove' /\ NoncesIncrease'
<1>1. PICK rows : requests[r] \in Records(rows)
  BY RequestIs DEF OInv
<1>2. InHandler(requests[r]) /\ requests[r].pc = "insert_nonce" /\ Active(r)
  BY RequestIs DEF OInv, InsertNonce, Active
<1> DEFINE q == [requests[r] EXCEPT !.pc = "failed"]
<1>3. requests' = [requests EXCEPT ![r] = q] /\ second' = second
  BY DEF InsertNonce
<1>4. q \in Records(rows) /\ q.pc = "failed"
  BY <1>1 DEF Records
<1> HIDE DEF q
<1>5. /\ requests'[r] = q
      /\ \A s \in Requests : s # r => requests'[s] = requests[s]
  BY <1>3, <1>4, Moved DEF OInv, CInv
<1>6. RowsAfter(r) /\ SignedAfter(r)
  BY DEF InsertNonce, RowsAfter, SignedAfter
<1>7. PICK row \in NonceRecords : row = NonceRow(r)
  BY <1>2, InsertWrites DEF OInv
<1>8. PICK message \in Messages : message = Message(r)
  BY <1>2, InsertWrites DEF OInv
<1>9. /\ row.policy = requests[r].policy /\ row.risk = requests[r].risk
      /\ row.nonce = requests[r].nonce /\ row.updatedAt = requests[r].updatedAt
      /\ message.policy = row.policy /\ message.risk = row.risk /\ message.nonce = row.nonce
  BY <1>7, <1>8 DEF NonceRow, Message
<1>10. Alone'
  BY <1>4, <1>5 DEF OInv, Alone, Active
<1>11. \A i \in DOMAIN claim_nonces :
         claim_nonces[i].policy = row.policy /\ claim_nonces[i].risk = row.risk =>
           claim_nonces[i].nonce < row.nonce /\ claim_nonces[i].updatedAt <= row.updatedAt
  BY <1>2, <1>9 DEF OInv, PendingAbove, NonceRows
<1>12. \A s \in Requests : s # r /\ requests[s].pc = "insert_nonce" =>
         ~(requests[s].policy = row.policy /\ requests[s].risk = row.risk)
  <2>1. ASSUME NEW s \in Requests, s # r, requests[s].pc = "insert_nonce"
        PROVE  ~(requests[s].policy = row.policy /\ requests[s].risk = row.risk)
    <3>1. Active(s) /\ requests[s].kind = "sign" /\ requests[r].kind = "sign"
      BY <1>2, <2>1, RequestIs DEF OInv, InHandler, Active
    <3> QED BY <1>2, <1>9, <2>1, <3>1 DEF OInv, Alone
  <2> QED BY <2>1
<1>13. CASE claim_nonces' = claim_nonces
  <2>1. signed' = signed
    <3>1. claim_nonces' # Append(claim_nonces, row)
      <4>1. claim_nonces \in Seq(NonceRecords) /\ Len(claim_nonces) \in Nat
        BY LenProperties DEF OInv, CInv, Shape
      <4>2. Len(Append(claim_nonces, row)) = Len(claim_nonces) + 1
        BY <4>1, AppendProperties
      <4> QED BY <1>13, <4>1, <4>2
    <3> QED BY <1>6, <1>7, <3>1 DEF SignedAfter
  <2>2. PendingAbove'
    BY <1>4, <1>5, <1>13 DEF OInv, PendingAbove, NonceRows
  <2>3. RowsInOrder' /\ NoncesIncrease'
    BY <1>13, <2>1 DEF OInv, RowsInOrder, SamePair, NoncesIncrease
  <2> QED BY <1>10, <2>2, <2>3
<1>14. CASE claim_nonces' = Append(claim_nonces, row)
  <2> DEFINE new == Len(claim_nonces) + 1
  <2>1. /\ \A i \in DOMAIN claim_nonces' :
             \/ i \in DOMAIN claim_nonces /\ claim_nonces'[i] = claim_nonces[i]
             \/ i = new /\ claim_nonces'[i] = row
        /\ \A i \in DOMAIN claim_nonces : i \in Nat /\ i < new
        /\ new \in Nat
    <3>1. Shape /\ HasNewest /\ claim_nonces' = Append(claim_nonces, row)
      BY <1>14 DEF OInv, CInv
    <3>2. /\ \A i \in DOMAIN claim_nonces' :
               \/ i \in DOMAIN claim_nonces /\ claim_nonces'[i] = claim_nonces[i]
               \/ i = new /\ claim_nonces'[i] = row
          /\ \A i \in DOMAIN claim_nonces :
               /\ i \in DOMAIN claim_nonces' /\ claim_nonces'[i] = claim_nonces[i]
               /\ i \in Nat /\ i < new
      BY <3>1, RowInserted
    <3>3. new \in Nat
      BY LenProperties DEF OInv, CInv, Shape
    <3> QED BY <3>2, <3>3
  <2> HIDE DEF new
  <2>2. RowsInOrder'
    <3>1. SUFFICES ASSUME NEW i \in DOMAIN claim_nonces', NEW j \in DOMAIN claim_nonces',
                          i < j, claim_nonces'[i].policy = claim_nonces'[j].policy,
                          claim_nonces'[i].risk = claim_nonces'[j].risk
                   PROVE  /\ claim_nonces'[i].nonce < claim_nonces'[j].nonce
                          /\ claim_nonces'[i].updatedAt <= claim_nonces'[j].updatedAt
      BY DEF RowsInOrder, SamePair
    <3>2. i \in DOMAIN claim_nonces /\ claim_nonces'[i] = claim_nonces[i]
      BY <2>1, <3>1
    <3>3. CASE j \in DOMAIN claim_nonces /\ claim_nonces'[j] = claim_nonces[j]
      BY <3>1, <3>2, <3>3 DEF OInv, RowsInOrder, SamePair
    <3>4. CASE claim_nonces'[j] = row
      BY <1>11, <3>1, <3>2, <3>4
    <3> QED BY <2>1, <3>3, <3>4
  <2>3. PendingAbove'
    <3>1. SUFFICES ASSUME NEW s \in Requests, requests'[s].pc = "insert_nonce",
                          NEW i \in DOMAIN claim_nonces',
                          claim_nonces'[i].policy = requests'[s].policy,
                          claim_nonces'[i].risk = requests'[s].risk
                   PROVE  /\ claim_nonces'[i].nonce < requests'[s].nonce
                          /\ claim_nonces'[i].updatedAt <= requests'[s].updatedAt
      BY DEF PendingAbove, NonceRows
    <3>2. s # r /\ requests'[s] = requests[s]
      BY <1>4, <1>5, <3>1
    <3>3. i \in DOMAIN claim_nonces /\ claim_nonces'[i] = claim_nonces[i]
      BY <1>12, <2>1, <3>1, <3>2
    <3> QED BY <3>1, <3>2, <3>3 DEF OInv, PendingAbove, NonceRows
  <2>4. NoncesIncrease'
    <3>1. CASE signed' = signed
      BY <3>1 DEF OInv, NoncesIncrease
    <3>2. CASE signed' = Append(signed, message)
      <4>1. /\ DOMAIN signed = 1..Len(signed) /\ DOMAIN signed' = 1..(Len(signed) + 1)
            /\ Len(signed) \in Nat
            /\ \A k \in DOMAIN signed : signed'[k] = signed[k]
            /\ signed'[Len(signed) + 1] = message
        BY <3>2, SignedGrows DEF OInv, CInv
      <4>2. \A k \in DOMAIN signed :
              signed[k].policy = row.policy /\ signed[k].risk = row.risk =>
                signed[k].nonce < row.nonce
        BY <1>11 DEF OInv, CInv, SignedNonceRecorded, NonceRows
      <4>3. SUFFICES ASSUME NEW i \in DOMAIN signed', NEW j \in DOMAIN signed', i < j,
                            signed'[i].policy = signed'[j].policy,
                            signed'[i].risk = signed'[j].risk
                     PROVE  signed'[i].nonce < signed'[j].nonce
        BY DEF NoncesIncrease
      <4>4. i \in DOMAIN signed /\ signed'[i] = signed[i]
        BY <4>1, <4>3
      <4>5. CASE j \in DOMAIN signed
        BY <4>1, <4>3, <4>4, <4>5 DEF OInv, NoncesIncrease
      <4>6. CASE j \notin DOMAIN signed
        <5>1. signed'[j] = message
          BY <4>1, <4>6
        <5> QED BY <1>9, <4>2, <4>3, <4>4, <5>1
      <4> QED BY <4>5, <4>6
    <3> QED BY <1>6, <1>8, <3>1, <3>2 DEF SignedAfter
  <2> QED BY <1>10, <2>2, <2>3, <2>4
<1> QED BY <1>6, <1>7, <1>13, <1>14 DEF RowsAfter

LEMMA OthersKeepO ==
  ASSUME OInv, Restart \/ Tick \/ UNCHANGED own
  PROVE  Alone' /\ RowsInOrder' /\ PendingAbove' /\ NoncesIncrease'
<1>1. UNCHANGED <<claim_nonces, signed>>
  BY DEF Restart, Tick, own
<1>2. RowsInOrder' /\ NoncesIncrease'
  BY <1>1 DEF OInv, RowsInOrder, SamePair, NoncesIncrease
<1>3. PICK rows : requests \in [Requests -> Records(rows)]
  BY DEF OInv, CInv, Shape
<1>4. ASSUME NEW r \in Requests
      PROVE  requests'[r] = requests[r] \/ requests'[r].pc = "failed"
  <2>1. CASE Restart
    <3>1. requests[r] \in Records(rows)
      BY <1>3
    <3>2. \/ requests'[r] = requests[r]
          \/ requests'[r] = [requests[r] EXCEPT !.pc = "failed"]
      BY <2>1 DEF Restart
    <3> QED BY <3>1, <3>2 DEF Records
  <2>2. CASE Tick \/ UNCHANGED own
    BY <2>2 DEF Tick, own
  <2> QED BY <2>1, <2>2
<1>5. Alone' /\ PendingAbove'
  BY <1>1, <1>4 DEF OInv, Alone, Active, PendingAbove, NonceRows
<1> QED BY <1>2, <1>5

LEMMA InitO ==
  ASSUME ClaimInit
  PROVE  OInv
<1>1. /\ \A r \in Requests : requests[r].pc = "idle"
      /\ DOMAIN claim_nonces = {} /\ DOMAIN signed = {}
  BY DEF ClaimInit, Idle
<1> QED BY <1>1, InitC DEF OInv, Alone, Active, RowsInOrder, PendingAbove, NoncesIncrease

LEMMA NextKeepsO ==
  ASSUME MaxInFlight = 1, OInv, [ClaimNext]_own
  PROVE  OInv'
<1> DEFINE OrderKept == Alone' /\ RowsInOrder' /\ PendingAbove' /\ NoncesIncrease'
<1>1. ASSUME NEW r \in Requests, Arrive(r) PROVE OrderKept
  BY <1>1, ArriveKeepsO
<1>2. ASSUME NEW r \in Requests, FetchRisk(r) PROVE OrderKept
  BY <1>2, FetchRiskKeepsO
<1>3. ASSUME NEW r \in Requests, FetchMetrics(r) PROVE OrderKept
  BY <1>3, FetchMetricsKeepsO
<1>4. ASSUME NEW r \in Requests, ReadNonce(r) PROVE OrderKept
  BY <1>4, ReadNonceKeepsO
<1>5. ASSUME NEW r \in Requests, NEW outcome, InsertNonce(r, outcome) PROVE OrderKept
  BY <1>5, InsertNonceKeepsO
<1>6. ASSUME Restart \/ Tick \/ UNCHANGED own PROVE OrderKept
  BY <1>6, OthersKeepO
<1>7. OrderKept
  <2> HIDE DEF OrderKept
  <2> QED BY <1>1, <1>2, <1>3, <1>4, <1>5, <1>6 DEF ClaimNext
<1>8. CInv'
  BY NextKeepsC DEF OInv
<1> QED BY <1>7, <1>8 DEF OInv

\* With one sign request of a policy and risk in flight at a time, the messages
\* signClaim signs for them carry growing nonces: also within one second, after
\* an insert that failed or was not acknowledged, and across restarts.
THEOREM NoncesGrow ==
  ASSUME MaxInFlight = 1
  PROVE  ClaimSpec => []NoncesIncrease
<1>1. ClaimInit => OInv
  BY InitO
<1>2. OInv /\ [ClaimNext]_own => OInv'
  BY NextKeepsO
<1>3. OInv => NoncesIncrease
  BY DEF OInv
<1> QED BY <1>1, <1>2, <1>3, PTL DEF ClaimSpec

-----------------------------------------------------------------------------
(* What the handlers hold of the tables they read.                         *)

\* A finite set that is not empty has an element of the largest measure: one
\* above which there are the fewest.
LEMMA HasLargest ==
  ASSUME NEW S, IsFiniteSet(S), S # {}, NEW f, \A x \in S : f[x] \in Int
  PROVE  \E x \in S : \A y \in S : f[y] <= f[x]
<1> DEFINE Above(x) == {y \in S : f[x] < f[y]}
           aboves == {Above(x) : x \in S}
<1>1. IsWellFoundedOn(StrictSubsetOrdering(S), FiniteSubsetsOf(S))
  BY FS_StrictSubsetOrderingWellFounded
<1>2. aboves \subseteq FiniteSubsetsOf(S) /\ aboves # {}
  <2>1. FiniteSubsetsOf(S) = SUBSET S
    BY FS_FiniteSubsetsOfFinite
  <2>2. \A x \in S : Above(x) \in SUBSET S
    OBVIOUS
  <2>3. aboves # {}
    OBVIOUS
  <2> HIDE DEF Above
  <2> QED BY <2>1, <2>2, <2>3
<1> HIDE DEF aboves
<1>3. PICK least \in aboves : \A other \in aboves : ~(<<other, least>> \in StrictSubsetOrdering(S))
  BY <1>1, <1>2, WFMin
<1>4. PICK x \in S : least = Above(x)
  BY DEF aboves
<1>5. ASSUME NEW y \in S, ~(f[y] <= f[x])
      PROVE  FALSE
  <2>1. f[x] < f[y]
    BY <1>5
  <2>2. Above(y) \subseteq Above(x) /\ y \in Above(x) /\ y \notin Above(y)
    BY <2>1
  <2>3. Above(y) \in aboves /\ Above(x) \in SUBSET S /\ Above(y) \in SUBSET S
    BY DEF aboves
  <2> HIDE DEF Above
  <2>4. <<Above(y), Above(x)>> \in StrictSubsetOrdering(S)
    BY <2>2, <2>3 DEF StrictSubsetOrdering
  <2> QED BY <1>3, <1>4, <2>3, <2>4
<1> QED BY <1>5

\* The table the indexer writes: rows one after the other, whose versions are
\* numbers.
IsTable(rows) ==
  \E n \in Nat : DOMAIN rows = 1..n /\ \A i \in 1..n : rows[i].version \in Int

\* The latest row of a risk is a row of that risk.
LEMMA LatestIsOfRisk ==
  ASSUME NEW rows, IsTable(rows), NEW risk \in Risks(rows)
  PROVE  Latest(rows, risk).risk = risk
<1>1. PICK n \in Nat : DOMAIN rows = 1..n /\ \A i \in 1..n : rows[i].version \in Int
  BY DEF IsTable
<1> DEFINE places == {i \in Kept(rows) : rows[i].risk = risk}
           version == [i \in places |-> rows[i].version]
<1>2. places \subseteq 1..n /\ IsFiniteSet(places)
  <2>1. places \subseteq 1..n /\ IsFiniteSet(1..n)
    BY <1>1, FS_Interval DEF Kept
  <2> QED BY <2>1, FS_Subset
<1>3. places # {}
  <2>1. PICK i \in DOMAIN rows : rows[i].risk = risk
    BY DEF Risks
  <2> DEFINE same == {j \in 1..n : SameKey(rows[i], rows[j])}
             place == [j \in same |-> j]
  <2>2. IsFiniteSet(same) /\ same # {} /\ \A j \in same : place[j] \in Int
    <3>1. IsFiniteSet(1..n)
      BY FS_Interval
    <3>2. IsFiniteSet(same)
      BY <3>1, FS_Subset
    <3>3. i \in same
      BY <1>1, <2>1 DEF SameKey
    <3> QED BY <3>2, <3>3
  <2> HIDE DEF place
  <2>3. PICK last \in same : \A j \in same : place[j] <= place[last]
    BY <2>2, HasLargest
  <2>4. last \in DOMAIN rows /\ \A j \in DOMAIN rows : SameKey(rows[last], rows[j]) => j <= last
    BY <1>1, <2>3 DEF SameKey, place
  <2>5. rows[last].risk = risk
    BY <2>1, <2>3 DEF SameKey
  <2> QED BY <2>4, <2>5 DEF Kept
<1>4. \A i \in places : version[i] \in Int
  BY <1>1, <1>2
<1> HIDE DEF places, version
<1>5. PICK i \in places : \A j \in places : version[j] <= version[i]
  BY <1>2, <1>3, <1>4, HasLargest
<1>6. \E r \in Final(rows) :
        r.risk = risk /\ \A q \in Final(rows) : q.risk = risk => q.version <= r.version
  <2>1. \A j \in places : rows[j].version <= rows[i].version
    BY <1>5 DEF version
  <2>2. rows[i] \in Final(rows) /\ rows[i].risk = risk
    BY DEF Final, places
  <2> QED BY <2>1, <2>2 DEF Final, places
<1> QED BY <1>6 DEF Latest, LatestOf

\* The row a request goes on with is one of the risk it asked for.
RowsOfRisk ==
  \A r \in Requests :
    requests[r].pc \in {"fetch_metrics", "read_nonce", "insert_nonce"} =>
      requests[r].row.risk = requests[r].risk

LEMMA NextKeepsRows ==
  ASSUME CInv, IsTable(risk_events), RowsOfRisk, [ClaimNext]_own
  PROVE  RowsOfRisk'
<1>1. PICK rows : requests \in [Requests -> Records(rows)]
  BY DEF CInv, Shape
<1>2. ASSUME NEW r \in Requests, NEW q, requests' = [requests EXCEPT ![r] = q],
             q.pc \in {"fetch_metrics", "read_nonce", "insert_nonce"} => q.row.risk = q.risk
      PROVE  RowsOfRisk'
  <2>1. \A s \in Requests : requests'[s] = IF s = r THEN q ELSE requests[s]
    BY <1>1, <1>2
  <2> QED BY <1>2, <2>1 DEF RowsOfRisk
<1>3. ASSUME NEW r \in Requests, Arrive(r) PROVE RowsOfRisk'
  <2>1. PICK kind \in Kinds, policy \in Policies, risk \in AskedRisks :
          requests' = [requests EXCEPT ![r] =
            [Idle EXCEPT !.pc = "fetch_risk", !.kind = kind, !.policy = policy, !.risk = risk]]
    BY <1>3 DEF Arrive
  <2> DEFINE q == [Idle EXCEPT !.pc = "fetch_risk", !.kind = kind, !.policy = policy, !.risk = risk]
  <2>2. q.pc = "fetch_risk" /\ requests' = [requests EXCEPT ![r] = q]
    BY <2>1 DEF Idle
  <2> HIDE DEF q
  <2> QED BY <1>2, <2>2
<1>4. ASSUME NEW r \in Requests, FetchRisk(r) PROVE RowsOfRisk'
  <2> DEFINE latest == Latest(risk_events, requests[r].risk)
             fetched == [requests[r] EXCEPT !.pc = "fetch_metrics", !.row = latest]
             failed == [requests[r] EXCEPT !.pc = "failed"]
  <2>1. \/ requests' = [requests EXCEPT ![r] = fetched] /\ requests[r].risk \in Risks(risk_events)
        \/ requests' = [requests EXCEPT ![r] = failed]
    BY <1>4 DEF FetchRisk
  <2>2. requests[r].risk \in Risks(risk_events) => latest.risk = requests[r].risk
    BY LatestIsOfRisk
  <2> HIDE DEF latest
  <2>3. fetched.row = latest /\ fetched.risk = requests[r].risk /\ failed.pc = "failed"
    BY <1>1 DEF Records
  <2> HIDE DEF fetched, failed
  <2> QED BY <1>2, <2>1, <2>2, <2>3
<1>5. ASSUME NEW r \in Requests, FetchMetrics(r) PROVE RowsOfRisk'
  <2> DEFINE q == [requests[r] EXCEPT !.pc =
                     IF requests[r].kind = "sign" THEN "read_nonce" ELSE "answered"]
  <2>1. requests' = [requests EXCEPT ![r] = q] /\ requests[r].pc = "fetch_metrics"
    BY <1>5 DEF FetchMetrics
  <2>2. q.row = requests[r].row /\ q.risk = requests[r].risk
    BY <1>1 DEF Records
  <2> HIDE DEF q
  <2> QED BY <1>2, <2>1, <2>2 DEF RowsOfRisk
<1>6. ASSUME NEW r \in Requests, ReadNonce(r) PROVE RowsOfRisk'
  <2> DEFINE nonce == NextNonce(CurrentNonce(requests[r].policy, requests[r].risk))
             q == [requests[r] EXCEPT !.pc = "insert_nonce", !.nonce = nonce, !.updatedAt = second]
  <2>1. requests' = [requests EXCEPT ![r] = q] /\ requests[r].pc = "read_nonce"
    BY <1>6 DEF ReadNonce
  <2> HIDE DEF nonce
  <2>2. q.row = requests[r].row /\ q.risk = requests[r].risk
    BY <1>1 DEF Records
  <2> HIDE DEF q
  <2> QED BY <1>2, <2>1, <2>2 DEF RowsOfRisk
<1>7. ASSUME NEW r \in Requests, NEW outcome, InsertNonce(r, outcome) PROVE RowsOfRisk'
  <2> DEFINE q == [requests[r] EXCEPT !.pc = "failed"]
  <2>1. requests' = [requests EXCEPT ![r] = q] /\ q.pc = "failed"
    BY <1>1, <1>7 DEF InsertNonce, Records
  <2> HIDE DEF q
  <2> QED BY <1>2, <2>1
<1>8. ASSUME Restart PROVE RowsOfRisk'
  <2>1. ASSUME NEW r \in Requests
        PROVE  requests'[r] = requests[r] \/ requests'[r].pc = "failed"
    <3>1. \/ requests'[r] = requests[r]
          \/ requests'[r] = [requests[r] EXCEPT !.pc = "failed"]
      BY <1>8 DEF Restart
    <3> QED BY <1>1, <3>1 DEF Records
  <2> QED BY <2>1 DEF RowsOfRisk
<1>9. ASSUME Tick \/ UNCHANGED own PROVE RowsOfRisk'
  BY <1>9 DEF Tick, own, RowsOfRisk
<1> HIDE DEF RowsOfRisk
<1> QED BY <1>3, <1>4, <1>5, <1>6, <1>7, <1>8, <1>9 DEF ClaimNext

\* A request is never in its handler without what the await it is at needs, the
\* row it computes from is of the risk it asked for, and no nonce is dated
\* ahead, as long as risk_events is a table.
THEOREM TypesHold == ClaimSpec /\ []IsTable(risk_events) => []TypeOK
<1>1. ClaimInit => RowsOfRisk
  BY DEF ClaimInit, Idle, RowsOfRisk
<1>2. CInv /\ IsTable(risk_events) /\ RowsOfRisk /\ [ClaimNext]_own => RowsOfRisk'
  BY NextKeepsRows
<1>3. CInv /\ RowsOfRisk => TypeOK
  <2> SUFFICES ASSUME CInv, RowsOfRisk PROVE TypeOK
    OBVIOUS
  <2>1. ASSUME NEW i \in DOMAIN claim_nonces
        PROVE  claim_nonces[i].nonce \in Nat \ {0} /\ claim_nonces[i].updatedAt \in 0..second
    <3>1. claim_nonces[i].nonce \in Nat \ {0} /\ claim_nonces[i].updatedAt \in Nat
      BY RowsAre DEF CInv
    <3>2. claim_nonces[i].updatedAt <= second /\ second \in Nat
      BY DEF CInv, NothingAhead, Shape
    <3> QED BY <3>1, <3>2
  <2>2. ASSUME NEW r \in Requests
        PROVE  LET q == requests[r] IN
               /\ q.pc \in {"idle", "fetch_risk", "fetch_metrics", "read_nonce", "insert_nonce",
                            "answered", "failed"}
               /\ q.pc # "idle" => q.kind \in Kinds /\ q.policy \in Policies /\ q.risk \in AskedRisks
               /\ q.pc = "insert_nonce" => q.nonce \in Nat \ {0} /\ q.updatedAt \in 0..second
    BY RequestIs DEF InHandler, Records
  <2> QED BY <2>1, <2>2 DEF TypeOK, RowsOfRisk
<1> QED BY <1>1, <1>2, <1>3, AlwaysC, PTL DEF ClaimSpec
=============================================================================
