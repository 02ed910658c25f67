------------------------ MODULE CurveSamplingProofs -------------------------
(***************************************************************************)
(* CurveSampling for every pool, every growth of the chain between two     *)
(* calls, any number of retries, signatures and prices in the buffer: a    *)
(* sample is made of the blocks of its span, and its TWAP is the one that  *)
(* all the prices of the horizon give.                                     *)
(***************************************************************************)
EXTENDS CurveSampling, TLAPS, FiniteSetTheorems, SequenceTheorems, NaturalsInduction,
  WellFoundedInduction

\* A set of naturals that is not empty has a least element.
LEMMA HasLeast ==
  ASSUME NEW T, T \subseteq Nat, T # {}
  PROVE  \E n \in T : \A m \in T : n <= m
<1>1. IsWellFoundedOn(OpToRel(<, Nat), Nat)
  BY NatLessThanWellFounded
<1>2. PICK n \in T : \A m \in T : ~(<<m, n>> \in OpToRel(<, Nat))
  BY <1>1, WFMin
<1>3. \A m \in T : ~(m < n)
  BY <1>2 DEF OpToRel
<1> QED BY <1>3

\* A set of numbers that has the first of some and, with each, the next.
LEMMA HasAll ==
  ASSUME NEW k \in Nat, NEW m \in Nat, NEW good, k \in good,
         \A n \in k..m : n \in good /\ n + 1 <= m => n + 1 \in good
  PROVE  \A n \in k..m : n \in good
<1> DEFINE bad == {n \in k..m : n \notin good}
<1>1. bad \subseteq Nat
  OBVIOUS
<1>2. CASE bad # {}
  <2>1. PICK n \in bad : \A i \in bad : n <= i
    <3> HIDE DEF bad
    <3> QED BY <1>1, <1>2, HasLeast
  <2>2. n \in k..m /\ n \notin good /\ n # k
    OBVIOUS
  <2>3. n - 1 \in k..m /\ (n - 1) + 1 = n /\ n <= m
    BY <2>2
  <2>4. n - 1 \notin bad
    BY <2>1, <2>2
  <2>5. n - 1 \in good
    BY <2>3, <2>4
  <2> QED BY <2>2, <2>3, <2>5
<1>3. CASE bad = {}
  BY <1>3
<1> QED BY <1>2, <1>3

-----------------------------------------------------------------------------
(* The filter of computeTwap.                                              *)

Prices == {s.price : s \in PoolStates} \cup {One}
Entries == [ts: Int, price: Prices]

Recent(e, now) == e.ts >= now - Horizon

\* kept gives what the filter leaves of each beginning of entries.
Filters(entries, now, kept) ==
  kept = [i \in 0..Len(entries) |->
            IF i = 0 THEN <<>>
            ELSE IF Recent(entries[i], now) THEN Append(kept[i - 1], entries[i]) ELSE kept[i - 1]]

LEMMA FilterExists ==
  ASSUME NEW entries, Len(entries) \in Nat, NEW now
  PROVE  \E kept : Filters(entries, now, kept)
<1> DEFINE Part(n, g) == g = [i \in 0..n |->
              IF i = 0 THEN <<>>
              ELSE IF Recent(entries[i], now) THEN Append(g[i - 1], entries[i]) ELSE g[i - 1]]
           good == {n \in Nat : \E g : Part(n, g)}
<1>1. 0 \in good
  <2>1. Part(0, [i \in 0..0 |-> <<>>])
    OBVIOUS
  <2> QED BY <2>1
<1>2. ASSUME NEW n \in Nat, n \in good
      PROVE  n + 1 \in good
  <2>1. PICK g : Part(n, g)
    BY <1>2
  <2> DEFINE h == [i \in 0..(n + 1) |->
              IF i = 0 THEN <<>>
              ELSE IF Recent(entries[i], now) THEN Append(g[i - 1], entries[i]) ELSE g[i - 1]]
  <2>2. ASSUME NEW i \in 0..(n + 1), i # 0
        PROVE  h[i - 1] = g[i - 1]
    <3>1. i - 1 \in 0..n /\ i - 1 \in 0..(n + 1)
      BY <2>2
    <3> QED BY <2>1, <3>1
  <2>3. Part(n + 1, h)
    BY <2>2
  <2> HIDE DEF Part, h
  <2> QED BY <2>3
<1> HIDE DEF good
<1>3. \A n \in 0..Len(entries) : n \in good
  BY <1>1, <1>2, HasAll
<1>4. Len(entries) \in good
  BY <1>3
<1>5. PICK g : Part(Len(entries), g)
  BY <1>4 DEF good
<1> QED BY <1>5 DEF Filters

LEMMA FilterSteps ==
  ASSUME NEW entries, Len(entries) \in Nat, NEW now, NEW kept, Filters(entries, now, kept)
  PROVE  /\ kept[0] = <<>>
         /\ \A i \in 1..Len(entries) :
              /\ Recent(entries[i], now) => kept[i] = Append(kept[i - 1], entries[i])
              /\ ~Recent(entries[i], now) => kept[i] = kept[i - 1]
<1> DEFINE Left(i) == IF i = 0 THEN <<>>
                      ELSE IF Recent(entries[i], now) THEN Append(kept[i - 1], entries[i])
                      ELSE kept[i - 1]
<1>1. kept = [i \in 0..Len(entries) |-> Left(i)]
  BY DEF Filters
<1> HIDE DEF Left
<1>2. \A i \in 0..Len(entries) : kept[i] = Left(i)
  BY <1>1
<1>3. kept[0] = <<>>
  BY <1>2 DEF Left
<1>4. ASSUME NEW i \in 1..Len(entries)
      PROVE  /\ Recent(entries[i], now) => kept[i] = Append(kept[i - 1], entries[i])
             /\ ~Recent(entries[i], now) => kept[i] = kept[i - 1]
  <2>1. i \in 0..Len(entries) /\ i # 0
    OBVIOUS
  <2> QED BY <1>2, <2>1 DEF Left
<1> QED BY <1>3, <1>4

LEMMA FilterIs ==
  ASSUME NEW entries \in Seq(Entries), NEW now
  PROVE  \E kept : /\ Filters(entries, now, kept)
                   /\ WithinHorizon(entries, now) = kept[Len(entries)]
<1> DEFINE kept == CHOOSE kept : Filters(entries, now, kept)
<1>1. Len(entries) \in Nat
  BY LenProperties
<1>2. Filters(entries, now, kept)
  BY <1>1, FilterExists
<1>3. WithinHorizon(entries, now) = kept[Len(entries)]
  BY DEF WithinHorizon, Filters, Recent
<1> HIDE DEF kept
<1> QED BY <1>2, <1>3

LEMMA FilterType ==
  ASSUME NEW entries \in Seq(Entries), NEW now, NEW kept, Filters(entries, now, kept)
  PROVE  \A i \in 0..Len(entries) : kept[i] \in Seq(Entries) /\ Len(kept[i]) \in Nat
<1> DEFINE good == {n \in 0..Len(entries) : kept[n] \in Seq(Entries)}
<1>1. Len(entries) \in Nat /\ \A n \in 1..Len(entries) : entries[n] \in Entries
  BY LenProperties, ElementOfSeq
<1>2. 0 \in good
  <2>1. kept[0] = <<>>
    BY <1>1, FilterSteps
  <2>2. kept[0] \in Seq(Entries)
    BY <2>1, EmptySeq
  <2> QED BY <1>1, <2>2
<1>3. ASSUME NEW n \in 0..Len(entries), n \in good, n + 1 <= Len(entries)
      PROVE  n + 1 \in good
  <2>1. n + 1 \in 1..Len(entries) /\ n + 1 \in 0..Len(entries) /\ (n + 1) - 1 = n
    BY <1>1, <1>3
  <2>2. kept[n + 1] = kept[n] \/ kept[n + 1] = Append(kept[n], entries[n + 1])
    BY <1>1, <2>1, FilterSteps
  <2>3. kept[n] \in Seq(Entries) /\ entries[n + 1] \in Entries
    BY <1>1, <1>3, <2>1
  <2>4. kept[n + 1] \in Seq(Entries)
    BY <2>2, <2>3, AppendProperties
  <2> QED BY <2>1, <2>4
<1> HIDE DEF good
<1>4. \A n \in 0..Len(entries) : n \in good
  BY <1>1, <1>2, <1>3, HasAll
<1> QED BY <1>4, LenProperties DEF good

\* Entries that are not recent leave nothing.
LEMMA FilterNone ==
  ASSUME NEW entries \in Seq(Entries), NEW now, NEW kept, Filters(entries, now, kept),
         NEW k \in 0..Len(entries), \A i \in 1..k : ~Recent(entries[i], now)
  PROVE  kept[k] = <<>>
<1> DEFINE good == {n \in 0..k : kept[n] = <<>>}
<1>1. Len(entries) \in Nat /\ k \in Nat /\ k <= Len(entries)
  BY LenProperties
<1>2. 0 \in good
  BY <1>1, FilterSteps
<1>3. ASSUME NEW n \in 0..k, n \in good, n + 1 <= k
      PROVE  n + 1 \in good
  <2>1. n + 1 \in 1..Len(entries) /\ n + 1 \in 1..k /\ n + 1 \in 0..k /\ (n + 1) - 1 = n
    BY <1>1, <1>3
  <2>2. kept[n + 1] = kept[n]
    BY <1>1, <2>1, FilterSteps
  <2> QED BY <1>3, <2>1, <2>2
<1> HIDE DEF good
<1>4. \A n \in 0..k : n \in good
  BY <1>1, <1>2, <1>3, HasAll
<1> QED BY <1>1, <1>4 DEF good

\* Entries that are all recent are all left.
LEMMA FilterMany ==
  ASSUME NEW entries \in Seq(Entries), NEW now, NEW kept, Filters(entries, now, kept),
         NEW k \in 0..Len(entries), \A i \in (k + 1)..Len(entries) : Recent(entries[i], now)
  PROVE  Len(kept[Len(entries)]) >= Len(kept[k]) + (Len(entries) - k)
<1> DEFINE good == {n \in k..Len(entries) : Len(kept[n]) >= Len(kept[k]) + (n - k)}
<1>1. Len(entries) \in Nat /\ k \in Nat /\ k <= Len(entries)
  BY LenProperties
<1>2. \A n \in 0..Len(entries) : kept[n] \in Seq(Entries) /\ Len(kept[n]) \in Nat
  BY FilterType
<1>3. k \in good
  BY <1>1, <1>2
<1>4. ASSUME NEW n \in k..Len(entries), n \in good, n + 1 <= Len(entries)
      PROVE  n + 1 \in good
  <2>1. /\ n + 1 \in (k + 1)..Len(entries) /\ n + 1 \in k..Len(entries) /\ n + 1 \in 1..Len(entries)
        /\ n \in 0..Len(entries) /\ (n + 1) - 1 = n
    BY <1>1, <1>4
  <2>2. kept[n + 1] = Append(kept[n], entries[n + 1]) /\ entries[n + 1] \in Entries
    BY <1>1, <2>1, FilterSteps, ElementOfSeq
  <2>3. Len(kept[n + 1]) = Len(kept[n]) + 1
    BY <1>2, <2>1, <2>2, AppendProperties
  <2>4. Len(kept[n]) >= Len(kept[k]) + (n - k) /\ Len(kept[n]) \in Nat /\ Len(kept[k]) \in Nat
    BY <1>1, <1>2, <1>4, <2>1
  <2>5. Len(kept[n + 1]) >= Len(kept[k]) + ((n + 1) - k)
    <3>1. PICK a \in Nat, b \in Nat : a = Len(kept[n]) /\ b = Len(kept[k])
      BY <2>4
    <3>2. a >= b + (n - k) /\ n \in Nat
      BY <1>1, <2>4, <3>1
    <3>3. a + 1 >= b + ((n + 1) - k)
      BY <1>1, <3>2
    <3> QED BY <2>3, <3>1, <3>3
  <2> QED BY <2>1, <2>5
<1> HIDE DEF good
<1>5. \A n \in k..Len(entries) : n \in good
  BY <1>1, <1>3, <1>4, HasAll
<1> QED BY <1>1, <1>5 DEF good

\* tail is all that follows the first k entries.
EndOf(tail, all, k) ==
  Len(all) = k + Len(tail) /\ \A i \in 1..Len(tail) : tail[i] = all[k + i]

\* The end of a table is filtered like a table of its own.
LEMMA FilterTail ==
  ASSUME NEW all \in Seq(Entries), NEW tail \in Seq(Entries), NEW k \in Nat, EndOf(tail, all, k),
         NEW now, NEW kept, Filters(all, now, kept), NEW left, Filters(tail, now, left),
         kept[k] = <<>>
  PROVE  kept[Len(all)] = left[Len(tail)]
<1> DEFINE good == {n \in 0..Len(tail) : kept[k + n] = left[n]}
<1>1. Len(tail) \in Nat /\ Len(all) \in Nat /\ Len(all) = k + Len(tail)
  BY LenProperties DEF EndOf
<1>2. \A i \in 1..Len(all) :
        /\ Recent(all[i], now) => kept[i] = Append(kept[i - 1], all[i])
        /\ ~Recent(all[i], now) => kept[i] = kept[i - 1]
  BY <1>1, FilterSteps
<1>3. /\ left[0] = <<>>
      /\ \A i \in 1..Len(tail) :
           /\ Recent(tail[i], now) => left[i] = Append(left[i - 1], tail[i])
           /\ ~Recent(tail[i], now) => left[i] = left[i - 1]
  BY <1>1, FilterSteps
<1>4. 0 \in good
  BY <1>1, <1>3
<1>5. ASSUME NEW n \in 0..Len(tail), n \in good, n + 1 <= Len(tail)
      PROVE  n + 1 \in good
  <2>1. PICK i \in 1..Len(tail) : i = n + 1 /\ i - 1 = n /\ i \in 0..Len(tail)
    BY <1>1, <1>5
  <2>2. PICK j \in 1..Len(all) : j = k + i /\ j - 1 = k + n
    BY <1>1, <2>1 DEF EndOf
  <2>3. kept[j - 1] = left[i - 1] /\ tail[i] = all[j]
    BY <1>5, <2>1, <2>2 DEF EndOf
  <2>4. /\ Recent(all[j], now) => kept[j] = Append(kept[j - 1], all[j])
        /\ ~Recent(all[j], now) => kept[j] = kept[j - 1]
    BY <1>2
  <2>5. /\ Recent(tail[i], now) => left[i] = Append(left[i - 1], tail[i])
        /\ ~Recent(tail[i], now) => left[i] = left[i - 1]
    BY <1>3
  <2>6. kept[j] = left[i]
    BY <2>3, <2>4, <2>5
  <2> QED BY <2>1, <2>2, <2>6
<1> HIDE DEF good
<1>6. \A n \in 0..Len(tail) : n \in good
  BY <1>1, <1>4, <1>5, HasAll
<1>7. Len(tail) \in good
  BY <1>1, <1>6
<1> QED BY <1>1, <1>7 DEF good

\* tail is what a buffer for room entries holds of all.
IsTail(tail, all, room) == \E k \in Nat : EndOf(tail, all, k) /\ (k = 0 \/ Len(tail) = room)

InOrder(all) == \A i, j \in DOMAIN all : i <= j => all[i].ts <= all[j].ts

\* If the buffer has room for all that is recent, it holds all that is recent.
LEMMA SameWindow ==
  ASSUME NEW all \in Seq(Entries), NEW tail \in Seq(Entries), NEW room \in Nat,
         IsTail(tail, all, room), InOrder(all), NEW now \in Int,
         Len(WithinHorizon(all, now)) <= room
  PROVE  WithinHorizon(tail, now) = WithinHorizon(all, now)
<1>1. /\ Len(all) \in Nat /\ Len(tail) \in Nat /\ DOMAIN all = 1..Len(all)
      /\ \A i \in 1..Len(all) : all[i] \in Entries
  BY LenProperties, ElementOfSeq
<1>2. PICK kept : Filters(all, now, kept) /\ WithinHorizon(all, now) = kept[Len(all)]
  BY FilterIs
<1>3. PICK left : Filters(tail, now, left) /\ WithinHorizon(tail, now) = left[Len(tail)]
  BY FilterIs
<1>4. PICK k \in Nat : EndOf(tail, all, k) /\ Len(all) = k + Len(tail) /\ (k = 0 \/ Len(tail) = room)
  BY DEF IsTail, EndOf
<1>5. \A n \in 0..Len(all) : Len(kept[n]) \in Nat
  BY <1>2, FilterType
<1>6. kept[k] = <<>>
  <2>1. k \in 0..Len(all)
    BY <1>1, <1>4
  <2>2. CASE \A i \in 1..k : ~Recent(all[i], now)
    BY <1>2, <2>1, <2>2, FilterNone
  <2>3. CASE \E i \in 1..k : Recent(all[i], now)
    <3>1. PICK i \in 1..k : Recent(all[i], now)
      BY <2>3
    <3>2. PICK m \in 0..Len(all) : m + 1 = i
      BY <1>1, <1>4
    <3>3. ASSUME NEW j \in (m + 1)..Len(all)
          PROVE  Recent(all[j], now)
      <4>1. i \in 1..Len(all) /\ j \in 1..Len(all) /\ i <= j
        BY <1>1, <1>4, <3>2
      <4>2. all[i].ts <= all[j].ts /\ all[i].ts \in Int /\ all[j].ts \in Int
        BY <1>1, <4>1 DEF InOrder, Entries
      <4>3. now - Horizon \in Int
        BY CurveConfig
      <4> QED BY <3>1, <4>2, <4>3 DEF Recent
    <3>4. Len(kept[Len(all)]) >= Len(kept[m]) + (Len(all) - m)
      BY <1>2, <3>3, FilterMany
    <3>5. Len(kept[m]) \in Nat /\ Len(kept[Len(all)]) \in Nat
      BY <1>1, <1>5
    <3>6. Len(all) - m > room
      BY <1>1, <1>4, <3>2
    <3> QED BY <1>1, <1>2, <3>2, <3>4, <3>5, <3>6
  <2> QED BY <2>2, <2>3
<1>7. kept[Len(all)] = left[Len(tail)]
  BY <1>2, <1>3, <1>4, <1>6, FilterTail
<1> QED BY <1>2, <1>3, <1>7

-----------------------------------------------------------------------------
(* The fetch under way.                                                    *)

FetchPcs == {"idle", "number", "block", "coins", "decimals", "balances", "rate", "loss"}

\* Once it is dated it is so by a block of the chain.
FetchOK ==
  /\ chain \in Seq(PoolStates) /\ Len(chain) >= 1
  /\ DOMAIN fetch = DOMAIN Idle /\ fetch.pc \in FetchPcs
  /\ fetch.pc \notin {"idle", "number"} => fetch.number \in 1..Len(chain)

LEMMA ChainIs ==
  ASSUME chain \in Seq(PoolStates), Len(chain) >= 1
  PROVE  /\ Len(chain) \in Nat /\ DOMAIN chain = 1..Len(chain)
         /\ \A n \in 1..Len(chain) : chain[n] \in PoolStates
         /\ Latest \in PoolStates /\ Len(chain) \in 1..Len(chain)
<1>1. Len(chain) \in Nat /\ DOMAIN chain = 1..Len(chain)
  BY LenProperties
<1>2. \A n \in 1..Len(chain) : chain[n] \in PoolStates
  BY ElementOfSeq
<1> QED BY <1>1, <1>2 DEF Latest

\* The same figures have been read for the same sample.
SameReads ==
  /\ DOMAIN fetch' = DOMAIN Idle
  /\ fetch'.number = fetch.number /\ fetch'.scales = fetch.scales /\ fetch'.pending = fetch.pending
  /\ fetch'.base = fetch.base /\ fetch'.quote = fetch.quote
  /\ fetch'.baseAt = fetch.baseAt /\ fetch'.quoteAt = fetch.quoteAt
  /\ fetch'.price = fetch.price /\ fetch'.unpriced = fetch.unpriced /\ fetch'.twap = fetch.twap

Stays == SameReads /\ fetch'.pc = fetch.pc /\ UNCHANGED <<buffer, history, sample>>
GoesTo(pc) == SameReads /\ fetch'.pc = pc /\ UNCHANGED <<buffer, history, sample>>

LEMMA RetryIs == FetchOK /\ Retry => Stays \/ Throw
BY DEF FetchOK, Retry, Stays, SameReads, Idle

LEMMA NextSignatureIs == FetchOK /\ NextSignature => Stays
BY DEF FetchOK, NextSignature, Stays, SameReads, Idle

\* What the answer to each call does.
Numbered ==
  /\ fetch.pc = "number" /\ fetch'.pc = "block" /\ fetch'.number = Len(chain)
  /\ DOMAIN fetch' = DOMAIN Idle /\ UNCHANGED <<buffer, history, sample>>
Waits == fetch.pc # "idle" /\ Stays
Reads == \E which \in {"base", "quote", "supply"} : ReadBalance(which, TRUE)
Quotes ==
  /\ fetch.pc = "rate"
  /\ \/ \E price \in Answers(Latest.price, {s.price : s \in PoolStates}) : Priced(price, FALSE)
     \/ Priced(One, TRUE)
Returns ==
  /\ fetch.pc = "loss"
  /\ \/ \E loss \in Answers(Latest.loss, {s.loss : s \in PoolStates}) : Return(loss, FALSE)
     \/ Return(0, TRUE)

LEMMA AnswerIs ==
  ASSUME FetchOK, Answer
  PROVE  /\ chain' = chain
         /\ \/ Throw
            \/ Waits
            \/ Numbered
            \/ fetch.pc = "block" /\ GoesTo("coins")
            \/ fetch.pc = "coins" /\ GoesTo("decimals")
            \/ GetDecimals
            \/ Reads
            \/ Quotes
            \/ Returns
<1>1. chain' = chain
  BY DEF Answer
<1>2. ASSUME NEW ok \in BOOLEAN, GetBlockNumber(ok)
      PROVE  Throw \/ Waits \/ Numbered
  <2>1. CASE ok
    BY <1>2, <2>1 DEF GetBlockNumber, GoOn, FetchOK, Idle, Numbered
  <2>2. CASE ~ok
    BY <1>2, <2>2, RetryIs DEF GetBlockNumber, Waits
  <2> QED BY <2>1, <2>2
<1>3. ASSUME NEW ok \in BOOLEAN, GetBlock(ok)
      PROVE  Throw \/ Waits \/ (fetch.pc = "block" /\ GoesTo("coins"))
  <2>1. CASE ok
    BY <1>3, <2>1 DEF GetBlock, GoOn, GoesTo, SameReads, FetchOK, Idle
  <2>2. CASE ~ok
    BY <1>3, <2>2, RetryIs DEF GetBlock, Waits
  <2> QED BY <2>1, <2>2
<1>4. ASSUME NEW ok \in BOOLEAN, GetCoins(ok)
      PROVE  Throw \/ (fetch.pc = "coins" /\ GoesTo("decimals"))
  BY <1>4 DEF GetCoins, GoOn, GoesTo, SameReads, FetchOK, Idle
<1>5. ASSUME NEW ok \in BOOLEAN, NEW which \in {"base", "quote", "supply"}, ReadBalance(which, ok)
      PROVE  Throw \/ Reads
  BY <1>5 DEF ReadBalance, Reads
<1>6. ASSUME NEW ok \in BOOLEAN, ReadRate(ok)
      PROVE  Waits \/ Quotes
  <2>1. fetch.pc = "rate"
    BY <1>6 DEF ReadRate
  <2>2. CASE ok
    BY ONLY <1>6, <2>1, <2>2 DEF ReadRate, Quotes
  <2>3. CASE ~ok /\ fetch.signature < Signatures
    <3>1. NextSignature
      BY ONLY <1>6, <2>3 DEF ReadRate
    <3> QED BY <2>1, <3>1, NextSignatureIs DEF Waits
  <2>4. CASE ~ok /\ ~(fetch.signature < Signatures)
    BY ONLY <1>6, <2>1, <2>4 DEF ReadRate, Quotes
  <2> QED BY ONLY <2>2, <2>3, <2>4
<1>7. ASSUME NEW ok \in BOOLEAN, ReadLoss(ok)
      PROVE  Waits \/ Returns
  <2>1. fetch.pc = "loss"
    BY <1>7 DEF ReadLoss
  <2>2. CASE ok
    BY ONLY <1>7, <2>1, <2>2 DEF ReadLoss, Returns
  <2>3. CASE ~ok /\ fetch.signature < Signatures
    <3>1. NextSignature
      BY ONLY <1>7, <2>3 DEF ReadLoss
    <3> QED BY <2>1, <3>1, NextSignatureIs DEF Waits
  <2>4. CASE ~ok /\ ~(fetch.signature < Signatures)
    BY ONLY <1>7, <2>1, <2>4 DEF ReadLoss, Returns
  <2> QED BY ONLY <2>2, <2>3, <2>4
<1>8. \/ \E ok \in BOOLEAN :
          \/ GetBlockNumber(ok) \/ GetBlock(ok) \/ GetCoins(ok) \/ ReadRate(ok) \/ ReadLoss(ok)
          \/ \E which \in {"base", "quote", "supply"} : ReadBalance(which, ok)
      \/ GetDecimals
  BY DEF Answer
<1> QED BY ONLY <1>1, <1>2, <1>3, <1>4, <1>5, <1>6, <1>7, <1>8

\* The calls for decimals and balances, and the price.
LEMMA DecimalsAre ==
  ASSUME FetchOK, GetDecimals
  PROVE  /\ fetch.pc = "decimals" /\ fetch'.pc = "balances" /\ DOMAIN fetch' = DOMAIN Idle
         /\ fetch'.number = fetch.number /\ fetch'.pending = {"base", "quote", "supply"}
         /\ UNCHANGED <<buffer, history, sample>>
<1>1. PICK ok0 \in BOOLEAN, ok1 \in BOOLEAN :
        fetch' = [GoOn("balances") EXCEPT !.scales = <<ok0, ok1>>,
                                          !.pending = {"base", "quote", "supply"}]
  BY DEF GetDecimals
<1> QED BY <1>1 DEF GetDecimals, GoOn, FetchOK, Idle

LEMMA BalanceIs ==
  ASSUME FetchOK, NEW which \in {"base", "quote", "supply"}, ReadBalance(which, TRUE)
  PROVE  /\ fetch.pc = "balances" /\ fetch'.pc \in {"balances", "rate"}
         /\ DOMAIN fetch' = DOMAIN Idle /\ fetch'.number = fetch.number
         /\ fetch'.scales = fetch.scales /\ fetch'.pending = fetch.pending \ {which}
         /\ fetch'.pc = "rate" => fetch'.pending = {}
         /\ IF which = "base" THEN fetch'.base = Latest.base /\ fetch'.baseAt = Len(chain)
            ELSE fetch'.base = fetch.base /\ fetch'.baseAt = fetch.baseAt
         /\ IF which = "quote" THEN fetch'.quote = Latest.quote /\ fetch'.quoteAt = Len(chain)
            ELSE fetch'.quote = fetch.quote /\ fetch'.quoteAt = fetch.quoteAt
         /\ UNCHANGED <<buffer, history, sample>>
<1>1. PICK left : left = fetch.pending \ {which}
  OBVIOUS
<1>2. PICK next : next = IF left = {} THEN GoOn("rate") ELSE fetch
  OBVIOUS
<1>3. /\ fetch.pc = "balances" /\ UNCHANGED <<buffer, history, sample>>
      /\ fetch' = CASE which = "base" -> [next EXCEPT !.pending = left,
                                            !.base = Latest.base, !.baseAt = Len(chain)]
                    [] which = "quote" -> [next EXCEPT !.pending = left,
                                            !.quote = Latest.quote, !.quoteAt = Len(chain)]
                    [] which = "supply" -> [next EXCEPT !.pending = left]
  BY <1>1, <1>2 DEF ReadBalance
<1>4. /\ DOMAIN next = DOMAIN Idle /\ next.pc = (IF left = {} THEN "rate" ELSE "balances")
      /\ next.number = fetch.number /\ next.scales = fetch.scales
      /\ next.base = fetch.base /\ next.baseAt = fetch.baseAt
      /\ next.quote = fetch.quote /\ next.quoteAt = fetch.quoteAt
  BY <1>2, <1>3 DEF GoOn, FetchOK, Idle
<1>5. CASE which = "base"
  <2>1. fetch' = [next EXCEPT !.pending = left, !.base = Latest.base, !.baseAt = Len(chain)]
    BY <1>3, <1>5
  <2> QED BY <1>1, <1>3, <1>4, <1>5, <2>1 DEF Idle
<1>6. CASE which = "quote"
  <2>1. fetch' = [next EXCEPT !.pending = left, !.quote = Latest.quote, !.quoteAt = Len(chain)]
    BY <1>3, <1>6
  <2> QED BY <1>1, <1>3, <1>4, <1>6, <2>1 DEF Idle
<1>7. CASE which = "supply"
  <2>1. fetch' = [next EXCEPT !.pending = left]
    BY <1>3, <1>7
  <2> QED BY <1>1, <1>3, <1>4, <1>7, <2>1 DEF Idle
<1> QED BY <1>5, <1>6, <1>7

LEMMA PricedIs ==
  ASSUME FetchOK, NEW price, NEW unpriced, Priced(price, unpriced)
  PROVE  /\ buffer' = Pushed(Entry(price)) /\ history' = Append(history, Entry(price))
         /\ fetch'.pc = "loss" /\ DOMAIN fetch' = DOMAIN Idle /\ fetch'.number = fetch.number
         /\ fetch'.scales = fetch.scales /\ fetch'.pending = fetch.pending
         /\ fetch'.base = fetch.base /\ fetch'.baseAt = fetch.baseAt
         /\ fetch'.quote = fetch.quote /\ fetch'.quoteAt = fetch.quoteAt
         /\ fetch'.price = price /\ fetch'.unpriced = unpriced
         /\ fetch'.twap = Twap(buffer', fetch.number)
         /\ sample' = sample
BY DEF Priced, GoOn, FetchOK, Idle

LEMMA StepFetch ==
  ASSUME FetchOK, [Next]_vars
  PROVE  FetchOK'
<1>1. CASE StartFetch
  BY <1>1 DEF StartFetch, GoOn, FetchOK, FetchPcs, Idle
<1>2. CASE Restart
  BY <1>2 DEF Restart, FetchOK, FetchPcs, Idle
<1>3. CASE NewBlock
  <2>1. PICK s \in PoolStates : chain' = Append(chain, s) /\ fetch' = fetch
    BY <1>3 DEF NewBlock
  <2>2. chain' \in Seq(PoolStates) /\ Len(chain') = Len(chain) + 1 /\ Len(chain) \in Nat
    BY <2>1, AppendProperties, LenProperties DEF FetchOK
  <2> QED BY <2>1, <2>2 DEF FetchOK
<1>4. CASE Answer
  <2>1. chain' = chain /\ DOMAIN fetch' = DOMAIN Idle /\ fetch'.pc \in FetchPcs
        /\ (fetch'.pc \notin {"idle", "number"} =>
              fetch'.number = Len(chain) \/ (fetch'.number = fetch.number
                                             /\ fetch.pc \notin {"idle", "number"}))
    <3>1. CASE Throw
      BY <1>4, <3>1, AnswerIs DEF Throw, Idle, FetchPcs
    <3>2. CASE Waits
      BY <1>4, <3>2, AnswerIs DEF Waits, Stays, SameReads, FetchOK
    <3>3. CASE Numbered
      BY <1>4, <3>3, AnswerIs DEF Numbered, FetchPcs
    <3>4. CASE fetch.pc = "block" /\ GoesTo("coins")
      BY <1>4, <3>4, AnswerIs DEF GoesTo, SameReads, FetchPcs
    <3>5. CASE fetch.pc = "coins" /\ GoesTo("decimals")
      BY <1>4, <3>5, AnswerIs DEF GoesTo, SameReads, FetchPcs
    <3>6. CASE GetDecimals
      BY <1>4, <3>6, AnswerIs, DecimalsAre DEF FetchPcs
    <3>7. CASE Reads
      BY <1>4, <3>7, AnswerIs, BalanceIs DEF FetchPcs, Reads
    <3>8. CASE Quotes
      <4>1. PICK price, unpriced : Priced(price, unpriced)
        BY <3>8 DEF Quotes
      <4> QED BY <1>4, <3>8, <4>1, AnswerIs, PricedIs DEF FetchPcs, Quotes
    <3>9. CASE Returns
      <4>1. PICK loss, unquoted : Return(loss, unquoted)
        BY <3>9 DEF Returns
      <4> QED BY <1>4, <4>1, AnswerIs DEF Return, Idle, FetchPcs
    <3> QED BY <1>4, <3>1, <3>2, <3>3, <3>4, <3>5, <3>6, <3>7, <3>8, <3>9, AnswerIs
  <2>2. Len(chain) \in 1..Len(chain)
    BY ChainIs DEF FetchOK
  <2> QED BY <2>1, <2>2 DEF FetchOK
<1>5. CASE UNCHANGED vars
  BY <1>5 DEF vars, FetchOK
<1> QED BY <1>1, <1>2, <1>3, <1>4, <1>5 DEF Next

-----------------------------------------------------------------------------
(* The figures of a sample.                                                *)

\* A balance that has been answered is that of a block of the fetch.
BalancesRead ==
  /\ fetch.pc \in {"balances", "rate", "loss"} =>
       /\ "base" \notin fetch.pending => /\ fetch.baseAt \in fetch.number..Len(chain)
                                         /\ fetch.base = chain[fetch.baseAt].base
       /\ "quote" \notin fetch.pending => /\ fetch.quoteAt \in fetch.number..Len(chain)
                                          /\ fetch.quote = chain[fetch.quoteAt].quote
  /\ fetch.pc \in {"rate", "loss"} => fetch.pending = {}

\* So is the price, unless every signature failed.
PriceRead ==
  fetch.pc = "loss" /\ fetch.scales = <<TRUE, TRUE>> =>
    fetch.unpriced \/ \E n \in fetch.number..Len(chain) : fetch.price = chain[n].price

\* The span of a sample lies on the chain.
SampleKnown == sample # None => sample.number \in 1..Len(chain) /\ sample.until \in 1..Len(chain)

SInv == FetchOK /\ BalancesRead /\ PriceRead /\ SampleKnown /\ SampleOfItsSpan

LEMMA InitFetch == Init => FetchOK
<1> SUFFICES ASSUME Init PROVE FetchOK
  OBVIOUS
<1>1. PICK s \in PoolStates : chain = <<s>>
  BY DEF Init
<1>2. chain \in Seq(PoolStates) /\ Len(chain) = 1
  BY <1>1
<1> QED BY <1>2 DEF Init, FetchOK, FetchPcs, Idle

LEMMA InitSample == Init => SInv
BY InitFetch DEF Init, SInv, BalancesRead, PriceRead, SampleKnown, SampleOfItsSpan, Idle

\* A new block leaves the earlier ones as they are.
LEMMA BlocksStay ==
  ASSUME FetchOK, NewBlock
  PROVE  /\ Len(chain) \in Nat /\ Len(chain') = Len(chain) + 1
         /\ \A n \in 1..Len(chain) : chain'[n] = chain[n] /\ RatioAt(n)' = RatioAt(n)
         /\ UNCHANGED <<fetch, buffer, history, sample>>
<1>1. PICK s \in PoolStates : chain' = Append(chain, s)
  BY DEF NewBlock
<1>2. /\ Len(chain) \in Nat /\ Len(chain') = Len(chain) + 1
      /\ \A n \in 1..Len(chain) : chain'[n] = chain[n]
  BY <1>1, AppendProperties, LenProperties DEF FetchOK
<1> QED BY <1>2 DEF NewBlock, RatioAt

LEMMA ReturnIs ==
  ASSUME NEW loss, NEW unquoted, Return(loss, unquoted)
  PROVE  /\ sample'.number = fetch.number /\ sample'.until = Len(chain)
         /\ sample'.scales = fetch.scales
         /\ sample'.baseAt = fetch.baseAt /\ sample'.quoteAt = fetch.quoteAt
         /\ sample'.rBps = ReserveRatio(fetch.base, fetch.quote,
              DecimalsRead(Decimals0, fetch.scales[1]), DecimalsRead(Decimals1, fetch.scales[2]))
         /\ sample'.price = fetch.price /\ sample'.unpriced = fetch.unpriced
         /\ sample'.loss = loss /\ sample'.unquoted = unquoted
         /\ fetch' = Idle
BY DEF Return

LEMMA StepSampleBlock == SInv /\ NewBlock => SInv'
<1> SUFFICES ASSUME SInv, NewBlock PROVE SInv'
  OBVIOUS
<1>1. /\ Len(chain) \in Nat /\ Len(chain') = Len(chain) + 1
      /\ \A n \in 1..Len(chain) : chain'[n] = chain[n] /\ RatioAt(n)' = RatioAt(n)
      /\ UNCHANGED <<fetch, buffer, history, sample>>
  BY BlocksStay DEF SInv
<1>2. FetchOK'
  BY StepFetch DEF SInv, Next
<1>3. BalancesRead'
  BY <1>1 DEF SInv, BalancesRead, FetchOK
<1>4. PriceRead'
  BY <1>1 DEF SInv, PriceRead, FetchOK
<1>5. SampleKnown'
  BY <1>1 DEF SInv, SampleKnown
<1>6. SampleOfItsSpan'
  <2> SUFFICES ASSUME sample # None, sample.scales = <<TRUE, TRUE>>
               PROVE  SampleOfItsSpan'
    BY <1>1 DEF SampleOfItsSpan
  <2>1. \A n \in sample.number..sample.until : n \in 1..Len(chain)
    BY <1>1 DEF SInv, SampleKnown
  <2> QED BY <1>1, <2>1 DEF SInv, SampleOfItsSpan
<1> QED BY <1>2, <1>3, <1>4, <1>5, <1>6 DEF SInv

LEMMA StepSampleReturn == SInv /\ Answer /\ Returns => SInv'
<1> SUFFICES ASSUME SInv, Answer, Returns PROVE SInv'
  OBVIOUS
<1>1. chain' = chain /\ FetchOK' /\ fetch.pc = "loss"
  BY AnswerIs, StepFetch DEF SInv, Next, Returns
<1>2. PICK loss, unquoted :
        /\ Return(loss, unquoted)
        /\ unquoted \/ loss \in Answers(Latest.loss, {s.loss : s \in PoolStates})
  BY Zenon DEF Returns
<1>3. /\ sample'.number = fetch.number /\ sample'.until = Len(chain)
      /\ sample'.scales = fetch.scales
      /\ sample'.baseAt = fetch.baseAt /\ sample'.quoteAt = fetch.quoteAt
      /\ sample'.rBps = ReserveRatio(fetch.base, fetch.quote,
           DecimalsRead(Decimals0, fetch.scales[1]), DecimalsRead(Decimals1, fetch.scales[2]))
      /\ sample'.price = fetch.price /\ sample'.unpriced = fetch.unpriced
      /\ sample'.loss = loss /\ sample'.unquoted = unquoted
      /\ fetch' = Idle
  BY <1>2, ReturnIs
<1>4. fetch.number \in 1..Len(chain) /\ Len(chain) \in Nat
  BY <1>1, ChainIs DEF SInv, FetchOK
<1>5. BalancesRead' /\ PriceRead' /\ SampleKnown'
  BY <1>1, <1>3, <1>4 DEF BalancesRead, PriceRead, SampleKnown, Idle
<1>6. ASSUME fetch.scales = <<TRUE, TRUE>>
      PROVE  /\ fetch.baseAt = fetch.quoteAt =>
                  \E n \in fetch.number..Len(chain) : sample'.rBps = RatioAt(n)
             /\ fetch.unpriced \/ \E n \in fetch.number..Len(chain) : fetch.price = chain[n].price
             /\ unquoted \/ \E n \in fetch.number..Len(chain) : loss = chain[n].loss
  <2>1. fetch.scales[1] = TRUE /\ fetch.scales[2] = TRUE
    BY <1>6
  <2>2. fetch.pending = {}
    BY <1>1 DEF SInv, BalancesRead
  <2>3. /\ fetch.baseAt \in fetch.number..Len(chain) /\ fetch.base = chain[fetch.baseAt].base
        /\ fetch.quoteAt \in fetch.number..Len(chain) /\ fetch.quote = chain[fetch.quoteAt].quote
    BY <1>1, <2>2 DEF SInv, BalancesRead
  <2>4. fetch.baseAt = fetch.quoteAt => sample'.rBps = RatioAt(fetch.baseAt)
    BY <1>3, <2>1, <2>3 DEF RatioAt, DecimalsRead
  <2>5. unquoted \/ loss = chain[Len(chain)].loss
    BY <1>2, <1>6 DEF Answers, Latest
  <2>6. Len(chain) \in fetch.number..Len(chain)
    BY <1>4
  <2>7. fetch.unpriced \/ \E n \in fetch.number..Len(chain) : fetch.price = chain[n].price
    BY <1>1, <1>6 DEF SInv, PriceRead
  <2> QED BY <2>3, <2>4, <2>5, <2>6, <2>7
<1>7. SampleOfItsSpan'
  BY <1>1, <1>3, <1>6 DEF SampleOfItsSpan, RatioAt
<1> QED BY <1>1, <1>5, <1>7 DEF SInv

LEMMA StepSampleAnswer == SInv /\ Answer => SInv'
<1> SUFFICES ASSUME SInv, Answer PROVE SInv'
  OBVIOUS
<1>1. chain' = chain /\ FetchOK'
  BY AnswerIs, StepFetch DEF SInv, Next
<1>2. Len(chain) \in Nat /\ Len(chain) \in 1..Len(chain)
  BY ChainIs DEF SInv, FetchOK
<1>3. ASSUME sample' = sample \/ sample' = None
      PROVE  SampleKnown' /\ SampleOfItsSpan'
  BY <1>1, <1>3 DEF SInv, SampleKnown, SampleOfItsSpan, RatioAt
<1>4. ASSUME BalancesRead', PriceRead', sample' = sample
      PROVE  SInv'
  BY <1>1, <1>3, <1>4 DEF SInv
<1>5. CASE Throw
  BY <1>4, <1>5 DEF Throw, BalancesRead, PriceRead, Idle
<1>6. CASE Waits
  BY <1>1, <1>4, <1>6 DEF Waits, Stays, SameReads, SInv, BalancesRead, PriceRead
<1>7. CASE Numbered
  BY <1>4, <1>7 DEF Numbered, BalancesRead, PriceRead
<1>8. CASE fetch.pc = "block" /\ GoesTo("coins")
  BY <1>4, <1>8 DEF GoesTo, BalancesRead, PriceRead
<1>9. CASE fetch.pc = "coins" /\ GoesTo("decimals")
  BY <1>4, <1>9 DEF GoesTo, BalancesRead, PriceRead
<1>10. CASE GetDecimals
  <2>1. fetch'.pc = "balances" /\ fetch'.pending = {"base", "quote", "supply"} /\ sample' = sample
    BY <1>10, DecimalsAre DEF SInv
  <2> QED BY <1>4, <2>1 DEF BalancesRead, PriceRead
<1>11. CASE Reads
  <2>1. PICK which \in {"base", "quote", "supply"} : ReadBalance(which, TRUE)
    BY <1>11 DEF Reads
  <2>2. /\ fetch.pc = "balances" /\ fetch'.pc \in {"balances", "rate"}
        /\ fetch'.number = fetch.number /\ fetch'.pending = fetch.pending \ {which}
        /\ fetch'.pc = "rate" => fetch'.pending = {}
        /\ IF which = "base" THEN fetch'.base = Latest.base /\ fetch'.baseAt = Len(chain)
           ELSE fetch'.base = fetch.base /\ fetch'.baseAt = fetch.baseAt
        /\ IF which = "quote" THEN fetch'.quote = Latest.quote /\ fetch'.quoteAt = Len(chain)
           ELSE fetch'.quote = fetch.quote /\ fetch'.quoteAt = fetch.quoteAt
        /\ sample' = sample
    BY <2>1, BalanceIs DEF SInv
  <2>3. Len(chain) \in fetch.number..Len(chain)
    BY <1>2, <2>2 DEF SInv, FetchOK
  <2>4. "base" \notin fetch'.pending =>
          fetch'.baseAt \in fetch'.number..Len(chain) /\ fetch'.base = chain[fetch'.baseAt].base
    BY <2>2, <2>3 DEF SInv, BalancesRead, Latest
  <2>5. "quote" \notin fetch'.pending =>
          fetch'.quoteAt \in fetch'.number..Len(chain) /\ fetch'.quote = chain[fetch'.quoteAt].quote
    BY <2>2, <2>3 DEF SInv, BalancesRead, Latest
  <2>6. BalancesRead'
    BY <1>1, <2>2, <2>4, <2>5 DEF BalancesRead
  <2>7. PriceRead'
    BY <2>2 DEF PriceRead
  <2> QED BY <1>4, <2>2, <2>6, <2>7
<1>12. CASE Quotes
  <2>1. PICK price, unpriced :
          /\ Priced(price, unpriced)
          /\ unpriced \/ price \in Answers(Latest.price, {s.price : s \in PoolStates})
    BY Zenon, <1>12 DEF Quotes
  <2>2. /\ fetch.pc = "rate" /\ fetch'.pc = "loss" /\ fetch'.number = fetch.number
        /\ fetch'.scales = fetch.scales /\ fetch'.pending = fetch.pending
        /\ fetch'.base = fetch.base /\ fetch'.baseAt = fetch.baseAt
        /\ fetch'.quote = fetch.quote /\ fetch'.quoteAt = fetch.quoteAt
        /\ fetch'.price = price /\ fetch'.unpriced = unpriced /\ sample' = sample
    BY <1>12, <2>1, PricedIs DEF SInv, Quotes
  <2>3. BalancesRead'
    BY <1>1, <2>2 DEF SInv, BalancesRead
  <2>4. fetch.scales = <<TRUE, TRUE>> => unpriced \/ price = chain[Len(chain)].price
    BY <2>1 DEF Answers, Latest
  <2>5. Len(chain) \in fetch.number..Len(chain)
    BY <1>2, <2>2 DEF SInv, FetchOK
  <2>6. PriceRead'
    BY <1>1, <2>2, <2>4, <2>5 DEF PriceRead
  <2> QED BY <1>4, <2>2, <2>3, <2>6
<1>13. CASE Returns
  BY <1>13, StepSampleReturn
<1> QED
  BY <1>5, <1>6, <1>7, <1>8, <1>9, <1>10, <1>11, <1>12, <1>13, AnswerIs DEF SInv

LEMMA StepSample == SInv /\ [Next]_vars => SInv'
<1> SUFFICES ASSUME SInv, [Next]_vars PROVE SInv'
  OBVIOUS
<1>1. FetchOK'
  BY StepFetch DEF SInv
<1>2. CASE StartFetch
  BY <1>1, <1>2 DEF StartFetch, GoOn, SInv, FetchOK, BalancesRead, PriceRead, SampleKnown,
    SampleOfItsSpan, Idle
<1>3. CASE Restart
  BY <1>1, <1>3 DEF Restart, SInv, BalancesRead, PriceRead, SampleKnown, SampleOfItsSpan, Idle
<1>4. CASE UNCHANGED vars
  BY <1>1, <1>4 DEF vars, SInv, BalancesRead, PriceRead, SampleKnown, SampleOfItsSpan, RatioAt
<1> QED BY <1>2, <1>3, <1>4, StepSampleBlock, StepSampleAnswer DEF Next

\* A sample of fetchSample() describes blocks of its own span: ratio, price and
\* loss, whatever block comes in and whichever call fails meanwhile.
THEOREM SampleFaithful == Spec => []SampleOfItsSpan
<1>1. SInv => SampleOfItsSpan
  BY DEF SInv
<1> QED BY <1>1, InitSample, StepSample, PTL DEF Spec

-----------------------------------------------------------------------------
(* The price buffer.                                                       *)

\* The buffer is what it has room for of all that was pushed.
Buffered ==
  /\ history \in Seq(Entries) /\ buffer \in Seq(Entries)
  /\ IsTail(buffer, history, MaxSamples)

\* The prices were pushed in the order of their blocks, none later than the
\* fetch under way.
PushedInOrder ==
  /\ InOrder(history)
  /\ \A i \in DOMAIN history :
       /\ history[i].ts <= Len(chain)
       /\ fetch.pc \notin {"idle", "number"} => history[i].ts <= fetch.number

TInv == FetchOK /\ Buffered /\ PushedInOrder /\ TwapIsWindowAverage

LEMMA PushedIs ==
  ASSUME Buffered, NEW entry \in Entries
  PROVE  /\ Pushed(entry) \in Seq(Entries)
         /\ IsTail(Pushed(entry), Append(history, entry), MaxSamples)
<1>1. PICK k \in Nat : EndOf(buffer, history, k) /\ (k = 0 \/ Len(buffer) = MaxSamples)
  BY DEF Buffered, IsTail
<1>2. PICK all : all = Append(buffer, entry)
  OBVIOUS
<1>3. PICK long : long = Append(history, entry)
  OBVIOUS
<1>4. /\ all \in Seq(Entries) /\ Len(all) = Len(buffer) + 1
      /\ \A i \in 1..Len(buffer) : all[i] = buffer[i]
      /\ all[Len(buffer) + 1] = entry
  BY <1>2, AppendProperties DEF Buffered
<1>5. /\ Len(long) = Len(history) + 1
      /\ \A i \in 1..Len(history) : long[i] = history[i]
      /\ long[Len(history) + 1] = entry
  BY <1>3, AppendProperties DEF Buffered
<1>6. Len(buffer) \in Nat /\ Len(history) \in Nat /\ Len(all) \in Nat
  BY <1>4, LenProperties DEF Buffered
<1>7. EndOf(all, long, k)
  <2>1. Len(long) = k + Len(all) /\ Len(history) = k + Len(buffer)
    BY <1>1, <1>4, <1>5, <1>6 DEF EndOf
  <2>2. ASSUME NEW i \in 1..Len(all)
        PROVE  all[i] = long[k + i]
    <3>1. CASE i \in 1..Len(buffer)
      <4>1. k + i \in 1..Len(history)
        BY <1>6, <2>1, <3>1
      <4> QED BY <1>1, <1>4, <1>5, <3>1, <4>1 DEF EndOf
    <3>2. CASE i = Len(buffer) + 1
      <4>1. k + i = Len(history) + 1
        BY <1>6, <2>1, <3>2
      <4> QED BY <1>4, <1>5, <3>2, <4>1
    <3> QED BY <1>4, <1>6, <3>1, <3>2
  <2> QED BY <2>1, <2>2 DEF EndOf
<1>8. CASE Len(all) <= MaxSamples
  <2>1. Pushed(entry) = all
    BY <1>2, <1>6, <1>8, CurveConfig DEF Pushed
  <2>2. k = 0
    BY <1>1, <1>4, <1>6, <1>8, CurveConfig
  <2>3. IsTail(all, long, MaxSamples)
    BY <1>7, <2>2 DEF IsTail
  <2> QED BY <1>3, <1>4, <2>1, <2>3
<1>9. CASE Len(all) > MaxSamples
  <2>1. PICK d \in Nat : d = Len(all) - MaxSamples
    BY <1>6, <1>9, CurveConfig
  <2>2. PICK cut : cut = SubSeq(all, d + 1, Len(all))
    OBVIOUS
  <2>3. Pushed(entry) = cut
    BY <1>2, <1>9, <2>1, <2>2 DEF Pushed
  <2>4. \A i \in (d + 1)..Len(all) : all[i] \in Entries
    BY <1>4, <1>6, ElementOfSeq
  <2>5. /\ cut \in Seq(Entries)
        /\ Len(cut) = IF d + 1 <= Len(all) THEN Len(all) - (d + 1) + 1 ELSE 0
        /\ \A i \in 1..(Len(all) - (d + 1) + 1) : cut[i] = all[(d + 1) + i - 1]
    BY <1>6, <2>2, <2>4, SubSeqProperties
  <2>6. Len(cut) = MaxSamples
    BY <1>6, <2>1, <2>5, CurveConfig
  <2>7. ASSUME NEW i \in 1..Len(cut)
        PROVE  cut[i] = long[(k + d) + i]
    <3>1. i \in 1..(Len(all) - (d + 1) + 1) /\ (d + 1) + i - 1 = d + i /\ d + i \in 1..Len(all)
      BY <1>6, <2>1, <2>6, CurveConfig
    <3>2. cut[i] = all[d + i]
      BY <2>5, <3>1
    <3>3. all[d + i] = long[k + (d + i)]
      BY <1>7, <3>1 DEF EndOf
    <3>4. k + (d + i) = (k + d) + i
      OBVIOUS
    <3> QED BY <3>2, <3>3, <3>4
  <2>8. Len(long) = (k + d) + Len(cut)
    BY <1>6, <1>7, <2>1, <2>6, CurveConfig DEF EndOf
  <2>9. IsTail(cut, long, MaxSamples)
    <3>1. k + d \in Nat /\ EndOf(cut, long, k + d)
      BY <2>7, <2>8 DEF EndOf
    <3> QED BY <2>6, <3>1 DEF IsTail
  <2> QED BY <1>3, <2>3, <2>5, <2>9
<1> QED BY <1>6, <1>8, <1>9, CurveConfig

\* A price that is not earlier than any other leaves them in order.
LEMMA OrderKept ==
  ASSUME NEW all \in Seq(Entries), InOrder(all), NEW entry \in Entries,
         \A i \in DOMAIN all : all[i].ts <= entry.ts
  PROVE  /\ InOrder(Append(all, entry))
         /\ \A i \in DOMAIN Append(all, entry) : Append(all, entry)[i].ts <= entry.ts
<1>1. PICK long : long = Append(all, entry)
  OBVIOUS
<1>2. /\ Len(all) \in Nat /\ DOMAIN all = 1..Len(all) /\ Len(long) = Len(all) + 1
      /\ DOMAIN long = 1..(Len(all) + 1)
      /\ \A i \in 1..Len(all) : long[i] = all[i]
      /\ long[Len(all) + 1] = entry
  BY <1>1, AppendProperties, LenProperties
<1>3. entry.ts <= entry.ts
  BY DEF Entries
<1>4. ASSUME NEW i \in 1..(Len(all) + 1)
      PROVE  long[i].ts <= entry.ts
  <2>1. CASE i \in 1..Len(all)
    BY <1>2, <2>1
  <2>2. CASE i = Len(all) + 1
    BY <1>2, <1>3, <2>2
  <2> QED BY <1>2, <2>1, <2>2
<1>5. ASSUME NEW i \in 1..(Len(all) + 1), NEW j \in 1..(Len(all) + 1), i <= j
      PROVE  long[i].ts <= long[j].ts
  <2>1. CASE j = Len(all) + 1
    BY <1>2, <1>4, <2>1
  <2>2. CASE j \in 1..Len(all)
    <3>1. i \in 1..Len(all)
      BY <1>2, <1>5, <2>2
    <3> QED BY <1>2, <1>5, <2>2, <3>1 DEF InOrder
  <2> QED BY <1>2, <2>1, <2>2
<1> QED BY <1>1, <1>2, <1>4, <1>5 DEF InOrder

\* When a price enters, the TWAP is that of all that was pushed.
LEMMA StepTwapQuotes == TInv /\ Answer /\ Quotes => TInv'
<1> SUFFICES ASSUME TInv, Answer, Quotes PROVE TInv'
  OBVIOUS
<1>1. chain' = chain /\ FetchOK' /\ fetch.pc = "rate"
  BY AnswerIs, StepFetch DEF TInv, Next, Quotes
<1>2. PICK price, unpriced :
        /\ Priced(price, unpriced)
        /\ price = One \/ price \in Answers(Latest.price, {s.price : s \in PoolStates})
  BY Zenon DEF Quotes
<1>3. PICK entry : entry = Entry(price)
  OBVIOUS
<1>4. PICK n : n = fetch.number
  OBVIOUS
<1>5. /\ buffer' = Pushed(entry) /\ history' = Append(history, entry)
      /\ fetch'.pc = "loss" /\ fetch'.number = n /\ fetch'.twap = Twap(buffer', n)
  BY <1>2, <1>3, <1>4, PricedIs DEF TInv
<1>6. n \in 1..Len(chain) /\ Len(chain) \in Nat /\ Latest \in PoolStates
  BY <1>1, <1>4, ChainIs DEF TInv, FetchOK
<1>7. entry \in Entries /\ entry.ts = n
  <2>1. price \in Prices
    BY <1>2, <1>6 DEF Answers, Prices
  <2> QED BY <1>3, <1>4, <1>6, <2>1 DEF Entry, Entries
<1>8. Buffered'
  <2>1. history' \in Seq(Entries)
    BY <1>5, <1>7, AppendProperties DEF TInv, Buffered
  <2>2. buffer' \in Seq(Entries) /\ IsTail(buffer', history', MaxSamples)
    BY <1>5, <1>7, PushedIs DEF TInv
  <2> QED BY <2>1, <2>2 DEF Buffered
<1>9. InOrder(history') /\ \A i \in DOMAIN history' : history'[i].ts <= n
  <2>1. \A i \in DOMAIN history : history[i].ts <= entry.ts
    BY <1>1, <1>4, <1>7 DEF TInv, PushedInOrder
  <2> QED BY <1>5, <1>7, <2>1, OrderKept DEF TInv, Buffered, PushedInOrder
<1>10. PushedInOrder'
  <2>1. ASSUME NEW i \in DOMAIN history'
        PROVE  history'[i].ts <= Len(chain)
    <3>1. history'[i] \in Entries
      BY <1>8, ElementOfSeq, LenProperties DEF Buffered
    <3> QED BY <1>6, <1>9, <3>1 DEF Entries
  <2> QED BY <1>1, <1>5, <1>9, <2>1 DEF PushedInOrder
<1>11. TwapIsWindowAverage'
  <2>1. PICK all, tail : all = history' /\ tail = buffer'
    OBVIOUS
  <2>2. /\ all \in Seq(Entries) /\ tail \in Seq(Entries) /\ IsTail(tail, all, MaxSamples)
        /\ InOrder(all) /\ MaxSamples \in Nat /\ n \in Int
    BY <1>6, <1>8, <1>9, <2>1, CurveConfig DEF Buffered
  <2>3. Len(WithinHorizon(all, n)) <= MaxSamples => WithinHorizon(tail, n) = WithinHorizon(all, n)
    BY <2>2, SameWindow
  <2>4. fetch'.twap = AverageOf(WithinHorizon(tail, n))
    BY <1>5, <2>1 DEF Twap
  <2>5. Len(WithinHorizon(all, n)) <= MaxSamples => fetch'.twap = AverageOf(WithinHorizon(all, n))
    BY <2>3, <2>4
  <2> QED BY <1>5, <2>1, <2>5 DEF TwapIsWindowAverage
<1> QED BY <1>1, <1>8, <1>10, <1>11 DEF TInv

LEMMA StepTwapBlock == TInv /\ NewBlock => TInv'
<1> SUFFICES ASSUME TInv, NewBlock PROVE TInv'
  OBVIOUS
<1>1. /\ Len(chain) \in Nat /\ Len(chain') = Len(chain) + 1
      /\ UNCHANGED <<fetch, buffer, history>>
  BY BlocksStay DEF TInv
<1>2. FetchOK'
  BY StepFetch DEF TInv, Next
<1>3. \A i \in DOMAIN history : history[i].ts \in Int
  <2>1. history \in Seq(Entries)
    BY DEF TInv, Buffered
  <2>2. \A i \in DOMAIN history : history[i] \in Entries
    BY <2>1, ElementOfSeq, LenProperties
  <2> QED BY <2>2 DEF Entries
<1>4. PushedInOrder'
  BY <1>1, <1>3 DEF TInv, PushedInOrder
<1> QED BY <1>1, <1>2, <1>4 DEF TInv, Buffered, TwapIsWindowAverage

LEMMA StepTwapAnswer == TInv /\ Answer => TInv'
<1> SUFFICES ASSUME TInv, Answer PROVE TInv'
  OBVIOUS
<1>1. chain' = chain /\ FetchOK'
  BY AnswerIs, StepFetch DEF TInv, Next
<1>2. ASSUME UNCHANGED <<buffer, history>>,
             \/ fetch'.pc \in {"idle", "number"}
             \/ fetch'.number = Len(chain)
             \/ fetch'.number = fetch.number /\ fetch.pc \notin {"idle", "number"},
             fetch'.pc # "loss" \/ Stays
      PROVE  TInv'
  <2>1. Buffered'
    BY <1>2 DEF TInv, Buffered
  <2>2. PushedInOrder'
    BY <1>1, <1>2 DEF TInv, PushedInOrder
  <2>3. TwapIsWindowAverage'
    BY <1>2 DEF TInv, TwapIsWindowAverage, Stays, SameReads
  <2> QED BY <1>1, <2>1, <2>2, <2>3 DEF TInv
<1>3. CASE Throw
  BY <1>2, <1>3 DEF Throw, Idle
<1>4. CASE Waits
  BY <1>2, <1>4 DEF Waits, Stays, SameReads
<1>5. CASE Numbered
  BY <1>2, <1>5 DEF Numbered
<1>6. CASE fetch.pc = "block" /\ GoesTo("coins")
  BY <1>2, <1>6 DEF GoesTo, SameReads
<1>7. CASE fetch.pc = "coins" /\ GoesTo("decimals")
  BY <1>2, <1>7 DEF GoesTo, SameReads
<1>8. CASE GetDecimals
  BY <1>2, <1>8, DecimalsAre DEF TInv
<1>9. CASE Reads
  <2>1. PICK which \in {"base", "quote", "supply"} : ReadBalance(which, TRUE)
    BY <1>9 DEF Reads
  <2> QED BY <1>2, <2>1, BalanceIs DEF TInv
<1>10. CASE Quotes
  BY <1>10, StepTwapQuotes
<1>11. CASE Returns
  <2>1. PICK loss, unquoted : Return(loss, unquoted)
    BY Zenon, <1>11 DEF Returns
  <2> QED BY <1>2, <2>1 DEF Return, Idle
<1> QED
  BY <1>3, <1>4, <1>5, <1>6, <1>7, <1>8, <1>9, <1>10, <1>11, AnswerIs DEF TInv

LEMMA NothingPushed ==
  /\ <<>> \in Seq(Entries) /\ IsTail(<<>>, <<>>, MaxSamples)
  /\ InOrder(<<>>) /\ DOMAIN <<>> = {}
BY DEF IsTail, EndOf, InOrder

LEMMA InitTwap == Init => TInv
<1> SUFFICES ASSUME Init PROVE TInv
  OBVIOUS
<1>1. buffer = <<>> /\ history = <<>> /\ fetch.pc = "idle"
  BY DEF Init, Idle
<1> QED BY <1>1, NothingPushed, InitFetch DEF TInv, Buffered, PushedInOrder, TwapIsWindowAverage

LEMMA StepTwap == TInv /\ [Next]_vars => TInv'
<1> SUFFICES ASSUME TInv, [Next]_vars PROVE TInv'
  OBVIOUS
<1>1. FetchOK'
  BY StepFetch DEF TInv
<1>2. CASE StartFetch
  BY <1>1, <1>2 DEF StartFetch, GoOn, TInv, FetchOK, Buffered, PushedInOrder,
    TwapIsWindowAverage, Idle
<1>3. CASE Restart
  <2>1. buffer' = <<>> /\ history' = <<>> /\ fetch'.pc = "idle"
    BY <1>3 DEF Restart, Idle
  <2> QED BY <1>1, <2>1, NothingPushed DEF TInv, Buffered, PushedInOrder, TwapIsWindowAverage
<1>4. CASE UNCHANGED vars
  BY <1>1, <1>4 DEF vars, TInv, Buffered, PushedInOrder, TwapIsWindowAverage
<1> QED BY <1>2, <1>3, <1>4, StepTwapBlock, StepTwapAnswer DEF Next

\* The TWAP that fetchSample() computes of its bounded buffer is the average of
\* every price of the horizon, as long as the buffer has room for them.
THEOREM TwapFaithful == Spec => []TwapIsWindowAverage
<1>1. TInv => TwapIsWindowAverage
  BY DEF TInv
<1> QED BY <1>1, InitTwap, StepTwap, PTL DEF Spec

-----------------------------------------------------------------------------
(* The end of a fetch.                                                     *)

\* It is in one of its attempts at a call, with one of the signatures, and
\* waits for some balance while it reads them.
Attempting ==
  /\ fetch.pc # "idle" => fetch.attempt \in 1..MaxRetries /\ fetch.signature \in 1..Signatures
  /\ fetch.pc = "balances" => /\ fetch.pending \in SUBSET {"base", "quote", "supply"}
                              /\ fetch.pending # {}

AInv == FetchOK /\ Attempting

LEMMA ThreeBalances ==
  IsFiniteSet({"base", "quote", "supply"}) /\ Cardinality({"base", "quote", "supply"}) = 3
<1>1. IsFiniteSet({"base"}) /\ Cardinality({"base"}) = 1
  BY FS_Singleton
<1>2. IsFiniteSet({"base", "quote"}) /\ Cardinality({"base", "quote"}) = 2
  <2>1. {"base", "quote"} = {"base"} \cup {"quote"} /\ "quote" \notin {"base"}
    OBVIOUS
  <2> QED BY <1>1, <2>1, FS_AddElement
<1>3. {"base", "quote", "supply"} = {"base", "quote"} \cup {"supply"} /\ "supply" \notin {"base", "quote"}
  OBVIOUS
<1> QED BY <1>2, <1>3, FS_AddElement

LEMMA PendingIs ==
  ASSUME NEW pending \in SUBSET {"base", "quote", "supply"}, NEW which \in pending
  PROVE  /\ Cardinality(pending) \in Nat /\ Cardinality(pending) >= 1
         /\ Cardinality(pending \ {which}) = Cardinality(pending) - 1
<1>1. IsFiniteSet({"base", "quote", "supply"})
  BY ThreeBalances
<1>2. IsFiniteSet(pending)
  BY <1>1, FS_Subset
<1>3. /\ Cardinality(pending \ {which}) \in Nat /\ Cardinality(pending) \in Nat
      /\ Cardinality(pending \ {which}) = Cardinality(pending) - 1
  BY <1>2, FS_RemoveElement, FS_CardinalityType
<1> QED BY <1>3

\* What is left in each part of the fetch.
LEMMA LeftBy ==
  /\ fetch.pc = "idle" => AnswersLeft = 0
  /\ fetch.pc = "number" => AnswersLeft = (MaxRetries - fetch.attempt + 1) + MaxRetries + 5 + 2 * Signatures
  /\ fetch.pc = "block" => AnswersLeft = (MaxRetries - fetch.attempt + 1) + 5 + 2 * Signatures
  /\ fetch.pc = "rate" => AnswersLeft = (Signatures - fetch.signature + 1) + Signatures
  /\ fetch.pc = "loss" => AnswersLeft = Signatures - fetch.signature + 1
BY DEF AnswersLeft

LEMMA LeftByNext ==
  /\ fetch'.pc = "idle" => AnswersLeft' = 0
  /\ fetch'.pc = "number" => AnswersLeft' = (MaxRetries - fetch'.attempt + 1) + MaxRetries + 5 + 2 * Signatures
  /\ fetch'.pc = "block" => AnswersLeft' = (MaxRetries - fetch'.attempt + 1) + 5 + 2 * Signatures
  /\ fetch'.pc = "rate" => AnswersLeft' = (Signatures - fetch'.signature + 1) + Signatures
  /\ fetch'.pc = "loss" => AnswersLeft' = Signatures - fetch'.signature + 1
BY DEF AnswersLeft

\* The next call of the fetch, with all its attempts and signatures.
LEMMA GoOnIs ==
  ASSUME FetchOK, NEW pc
  PROVE  /\ DOMAIN GoOn(pc) = DOMAIN Idle /\ GoOn(pc).pc = pc
         /\ GoOn(pc).attempt = 1 /\ GoOn(pc).signature = 1
         /\ 1 \in 1..MaxRetries /\ 1 \in 1..Signatures
BY CurveConfig DEF GoOn, FetchOK, Idle

\* An answer that throws, that is tried again, or that goes on to the next
\* signature.
LEMMA ThrowCounts ==
  ASSUME AInv, fetch.pc # "idle", AnswersLeft \in Nat \ {0}, Throw
  PROVE  Attempting' /\ AnswersLeft' \in 0..AnswersLeft - 1
<1>1. fetch'.pc = "idle"
  BY DEF Throw, Idle
<1> QED BY <1>1, LeftByNext DEF Attempting

LEMMA RetryCounts ==
  ASSUME AInv, fetch.pc \in {"number", "block"}, AnswersLeft \in Nat \ {0}, Retry
  PROVE  Attempting' /\ AnswersLeft' \in 0..AnswersLeft - 1
<1>1. CASE Throw
  BY <1>1, ThrowCounts
<1>2. CASE fetch.attempt < MaxRetries /\ fetch' = [fetch EXCEPT !.attempt = @ + 1]
  <2>1. /\ fetch'.pc = fetch.pc /\ fetch'.attempt = fetch.attempt + 1
        /\ fetch'.signature = fetch.signature
    BY <1>2 DEF AInv, FetchOK, Idle
  <2>2. fetch.attempt \in 1..MaxRetries /\ fetch.signature \in 1..Signatures
    BY DEF AInv, Attempting
  <2>3. Attempting'
    BY <1>2, <2>1, <2>2, CurveConfig DEF Attempting
  <2>4. AnswersLeft' = AnswersLeft - 1
    BY <2>1, <2>2, CurveConfig, LeftBy, LeftByNext
  <2> QED BY <2>3, <2>4
<1> QED BY <1>1, <1>2 DEF Retry

LEMMA SignatureCounts ==
  ASSUME AInv, fetch.pc \in {"rate", "loss"}, AnswersLeft \in Nat \ {0}, NextSignature,
         fetch.signature < Signatures
  PROVE  Attempting' /\ AnswersLeft' \in 0..AnswersLeft - 1
<1>1. /\ fetch'.pc = fetch.pc /\ fetch'.attempt = fetch.attempt
      /\ fetch'.signature = fetch.signature + 1
  BY DEF NextSignature, AInv, FetchOK, Idle
<1>2. fetch.attempt \in 1..MaxRetries /\ fetch.signature \in 1..Signatures
  BY DEF AInv, Attempting
<1>3. Attempting'
  BY <1>1, <1>2, CurveConfig DEF Attempting
<1>4. AnswersLeft' = AnswersLeft - 1
  BY <1>1, <1>2, CurveConfig, LeftBy, LeftByNext
<1> QED BY <1>3, <1>4

LEMMA LeftIs ==
  ASSUME AInv, fetch.pc # "idle"
  PROVE  AnswersLeft \in Nat \ {0}
<1>1. fetch.attempt \in 1..MaxRetries /\ fetch.signature \in 1..Signatures
  BY DEF AInv, Attempting
<1>2. CASE fetch.pc = "balances"
  <2>1. PICK pending : pending = fetch.pending
    OBVIOUS
  <2>2. PICK which \in pending : pending \in SUBSET {"base", "quote", "supply"}
    BY <1>2, <2>1 DEF AInv, Attempting
  <2>3. Cardinality(pending) \in Nat /\ Cardinality(pending) >= 1
    BY <2>2, PendingIs
  <2> QED BY <1>2, <2>1, <2>3, CurveConfig DEF AnswersLeft
<1>3. CASE fetch.pc \in FetchPcs \ {"idle", "balances"}
  BY <1>1, <1>3, CurveConfig DEF AnswersLeft, FetchPcs
<1> QED BY <1>2, <1>3 DEF AInv, FetchOK

LEMMA AnswerCounts ==
  ASSUME AInv, Answer
  PROVE  Attempting' /\ AnswersLeft' \in 0..AnswersLeft - 1
<1>1. fetch.pc # "idle"
  BY DEF Answer, GetBlockNumber, GetBlock, GetCoins, ReadRate, ReadLoss, ReadBalance, GetDecimals
<1>2. AnswersLeft \in Nat \ {0} /\ FetchOK
  BY <1>1, LeftIs DEF AInv
<1>3. fetch.attempt \in 1..MaxRetries /\ fetch.signature \in 1..Signatures
  BY <1>1 DEF AInv, Attempting
<1>4. ASSUME NEW pc \in {"block", "coins", "decimals", "rate", "loss"}, fetch'.pc = pc,
             fetch'.attempt = 1, fetch'.signature = 1
      PROVE  Attempting'
  BY <1>2, <1>4, GoOnIs DEF Attempting
<1>5. ASSUME NEW ok \in BOOLEAN, GetBlockNumber(ok)
      PROVE  Attempting' /\ AnswersLeft' \in 0..AnswersLeft - 1
  <2>1. CASE ok
    <3>1. /\ fetch.pc = "number" /\ fetch'.pc = "block"
          /\ fetch'.attempt = 1 /\ fetch'.signature = 1
      BY <1>2, <1>5, <2>1, GoOnIs DEF GetBlockNumber, Idle
    <3> QED BY <1>3, <1>4, <3>1, CurveConfig DEF AnswersLeft
  <2>2. CASE ~ok
    BY <1>2, <1>5, <2>2, RetryCounts DEF GetBlockNumber
  <2> QED BY <2>1, <2>2
<1>6. ASSUME NEW ok \in BOOLEAN, GetBlock(ok)
      PROVE  Attempting' /\ AnswersLeft' \in 0..AnswersLeft - 1
  <2>1. CASE ok
    <3>1. /\ fetch.pc = "block" /\ fetch'.pc = "coins"
          /\ fetch'.attempt = 1 /\ fetch'.signature = 1
      BY <1>2, <1>6, <2>1, GoOnIs DEF GetBlock
    <3> QED BY <1>3, <1>4, <3>1, CurveConfig DEF AnswersLeft
  <2>2. CASE ~ok
    BY <1>1, <1>2, <1>6, <2>2, RetryCounts, ThrowCounts DEF GetBlock
  <2> QED BY <2>1, <2>2
<1>7. ASSUME NEW ok \in BOOLEAN, GetCoins(ok)
      PROVE  Attempting' /\ AnswersLeft' \in 0..AnswersLeft - 1
  <2>1. CASE ok
    <3>1. /\ fetch.pc = "coins" /\ fetch'.pc = "decimals"
          /\ fetch'.attempt = 1 /\ fetch'.signature = 1
      BY <1>2, <1>7, <2>1, GoOnIs DEF GetCoins
    <3> QED BY <1>4, <3>1, CurveConfig DEF AnswersLeft
  <2>2. CASE ~ok
    BY <1>1, <1>2, <1>7, <2>2, ThrowCounts DEF GetCoins
  <2> QED BY <2>1, <2>2
<1>8. CASE GetDecimals
  <2>1. PICK ok0 \in BOOLEAN, ok1 \in BOOLEAN :
          fetch' = [GoOn("balances") EXCEPT !.scales = <<ok0, ok1>>,
                                            !.pending = {"base", "quote", "supply"}]
    BY <1>8 DEF GetDecimals
  <2>2. /\ fetch.pc = "decimals" /\ fetch'.pc = "balances"
        /\ fetch'.attempt = 1 /\ fetch'.signature = 1
        /\ fetch'.pending = {"base", "quote", "supply"}
    BY <1>2, <1>8, <2>1, GoOnIs DEF GetDecimals, Idle
  <2>3. Attempting'
    BY <1>2, <2>2, GoOnIs DEF Attempting
  <2>4. AnswersLeft' = 3 + 2 * Signatures /\ AnswersLeft = 4 + 2 * Signatures
    BY <2>2, ThreeBalances DEF AnswersLeft
  <2> QED BY <2>3, <2>4, CurveConfig
<1>9. ASSUME NEW ok \in BOOLEAN, NEW which \in {"base", "quote", "supply"}, ReadBalance(which, ok)
      PROVE  Attempting' /\ AnswersLeft' \in 0..AnswersLeft - 1
  <2>1. CASE ~ok
    BY <1>1, <1>2, <1>9, <2>1, ThrowCounts DEF ReadBalance
  <2>2. CASE ok
    <3>1. PICK left : left = fetch.pending \ {which}
      OBVIOUS
    <3>2. PICK next : next = IF left = {} THEN GoOn("rate") ELSE fetch
      OBVIOUS
    <3>3. /\ fetch.pc = "balances" /\ which \in fetch.pending
          /\ \/ fetch' = [next EXCEPT !.pending = left, !.base = Latest.base, !.baseAt = Len(chain)]
             \/ fetch' = [next EXCEPT !.pending = left, !.quote = Latest.quote, !.quoteAt = Len(chain)]
             \/ fetch' = [next EXCEPT !.pending = left]
      BY <1>9, <2>2, <3>1, <3>2 DEF ReadBalance
    <3>4. DOMAIN next = DOMAIN Idle
      BY <1>2, <3>2, GoOnIs DEF FetchOK
    <3>5. /\ fetch'.pc = next.pc /\ fetch'.attempt = next.attempt
          /\ fetch'.signature = next.signature /\ fetch'.pending = left
      BY <3>3, <3>4 DEF Idle
    <3>6. /\ Cardinality(fetch.pending) \in Nat /\ Cardinality(fetch.pending) >= 1
          /\ Cardinality(left) = Cardinality(fetch.pending) - 1
      <4>1. PICK pending : pending = fetch.pending
        OBVIOUS
      <4>2. pending \in SUBSET {"base", "quote", "supply"} /\ which \in pending
        BY <3>3, <4>1 DEF AInv, Attempting
      <4> QED BY <3>1, <4>1, <4>2, PendingIs
    <3>7. AnswersLeft = Cardinality(fetch.pending) + 2 * Signatures
      BY <3>3 DEF AnswersLeft
    <3>8. CASE left = {}
      <4>1. fetch'.pc = "rate" /\ fetch'.attempt = 1 /\ fetch'.signature = 1
        BY <1>2, <3>2, <3>5, <3>8, GoOnIs
      <4>2. AnswersLeft' = 2 * Signatures
        BY <4>1, CurveConfig, LeftByNext
      <4> QED BY <1>4, <3>6, <3>7, <4>1, <4>2, CurveConfig
    <3>9. CASE left # {}
      <4>1. /\ fetch'.pc = "balances" /\ fetch'.attempt = fetch.attempt
            /\ fetch'.signature = fetch.signature
        BY <3>2, <3>3, <3>5, <3>9
      <4>2. Attempting'
        BY <1>3, <3>1, <3>3, <3>5, <3>9, <4>1 DEF AInv, Attempting
      <4>3. AnswersLeft' = Cardinality(left) + 2 * Signatures
        BY <3>5, <4>1 DEF AnswersLeft
      <4> QED BY <3>6, <3>7, <4>2, <4>3, CurveConfig
    <3> QED BY <3>8, <3>9
  <2> QED BY <2>1, <2>2
<1>10. ASSUME NEW ok \in BOOLEAN, ReadRate(ok)
       PROVE  Attempting' /\ AnswersLeft' \in 0..AnswersLeft - 1
  <2>1. fetch.pc = "rate"
    BY <1>10 DEF ReadRate
  <2>2. CASE ~ok /\ fetch.signature < Signatures
    <3>1. NextSignature
      BY ONLY <1>10, <2>2 DEF ReadRate
    <3> QED BY <1>2, <2>1, <2>2, <3>1, SignatureCounts
  <2>3. CASE ok \/ ~(fetch.signature < Signatures)
    <3>1. PICK price, unpriced : Priced(price, unpriced)
      BY ONLY Zenon, <1>10, <2>3 DEF ReadRate
    <3>2. fetch'.pc = "loss" /\ fetch'.attempt = 1 /\ fetch'.signature = 1
      BY <1>2, <3>1, GoOnIs DEF Priced, Idle
    <3> QED BY <1>3, <1>4, <2>1, <3>2, CurveConfig DEF AnswersLeft
  <2> QED BY <2>2, <2>3
<1>11. ASSUME NEW ok \in BOOLEAN, ReadLoss(ok)
       PROVE  Attempting' /\ AnswersLeft' \in 0..AnswersLeft - 1
  <2>1. fetch.pc = "loss"
    BY <1>11 DEF ReadLoss
  <2>2. CASE ~ok /\ fetch.signature < Signatures
    <3>1. NextSignature
      BY ONLY <1>11, <2>2 DEF ReadLoss
    <3> QED BY <1>2, <2>1, <2>2, <3>1, SignatureCounts
  <2>3. CASE ok \/ ~(fetch.signature < Signatures)
    <3>1. PICK loss, unquoted : Return(loss, unquoted)
      BY ONLY Zenon, <1>11, <2>3 DEF ReadLoss
    <3>2. fetch' = Idle
      BY <3>1 DEF Return
    <3>3. fetch'.pc = "idle"
      BY <3>2 DEF Idle
    <3> QED BY <1>2, <3>3, LeftByNext DEF Attempting
  <2> QED BY <2>2, <2>3
<1> QED
  BY <1>5, <1>6, <1>7, <1>8, <1>9, <1>10, <1>11 DEF Answer

LEMMA StepAttempt == AInv /\ [Next]_vars => AInv' /\ (Answer => AnswersLeft' \in 0..AnswersLeft - 1)
<1> SUFFICES ASSUME AInv, [Next]_vars
             PROVE  AInv' /\ (Answer => AnswersLeft' \in 0..AnswersLeft - 1)
  OBVIOUS
<1>1. FetchOK' /\ FetchOK
  BY StepFetch DEF AInv
<1>2. Answer => Attempting' /\ AnswersLeft' \in 0..AnswersLeft - 1
  BY AnswerCounts
<1>3. CASE StartFetch
  <2>1. fetch'.pc = "number" /\ fetch'.attempt = 1 /\ fetch'.signature = 1
    BY <1>1, <1>3, GoOnIs DEF StartFetch
  <2>2. Attempting'
    BY <1>1, <2>1, GoOnIs DEF Attempting
  <2> QED BY <1>1, <1>2, <2>2 DEF AInv
<1>4. CASE Restart
  <2>1. Attempting'
    BY <1>4 DEF Restart, Attempting, Idle
  <2> QED BY <1>1, <1>2, <2>1 DEF AInv
<1>5. CASE NewBlock \/ UNCHANGED vars
  <2>1. Attempting'
    BY <1>5 DEF NewBlock, vars, AInv, Attempting
  <2> QED BY <1>1, <1>2, <2>1 DEF AInv
<1>6. CASE Answer
  BY <1>1, <1>2, <1>6 DEF AInv
<1> QED BY <1>3, <1>4, <1>5, <1>6 DEF Next

\* Whatever the node answers, each answer to fetchSample() and its retries
\* leaves fewer to wait for.
THEOREM AnswersEnd == Spec => AnswersRunOut
<1>1. Init => AInv
  BY InitFetch DEF Init, AInv, Attempting, Idle
<1>2. AInv /\ [Next]_vars => AInv' /\ [Answer => AnswersLeft' \in 0..AnswersLeft - 1]_vars
  BY StepAttempt
<1> QED BY <1>1, <1>2, PTL DEF Spec, AnswersRunOut
=============================================================================
