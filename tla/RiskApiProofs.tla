--------------------------- MODULE RiskApiProofs ----------------------------
(***************************************************************************)
(* The pages of GET /risk, for every limit, every number of rows and every *)
(* writer that keeps the rows of a key in the order of their attested_at.  *)
(***************************************************************************)
EXTENDS RiskApi, SequenceTheorems, TLAPS

CONSTANTS Rows  \* the rows the writers may add

\* A row is inserted (IndexerService.persistEvent); the other tables may change.
Writer ==
  /\ \E row \in Rows, at \in Int :
       /\ \A i \in DOMAIN risk_events : SameKey(risk_events[i], row) => attested[i] <= at
       /\ risk_events' = Append(risk_events, row)
       /\ attested' = Append(attested, at)
  /\ UNCHANGED client

PageConfig == PageLimit \in Nat \ {0} /\ None \notin [attested: Int, risk: Int]

Risked == \A row \in Rows : row.risk \in Int

Init == risk_events = <<>> /\ attested = <<>> /\ ApiInit

Next == ApiNext \/ Writer

Spec == Init /\ [][Next]_<<risk_events, attested, client>>

-----------------------------------------------------------------------------
(* The invariant.  A row that was shown, or is about to be, is not after   *)
(* the cursor.  A later row of its key can only be attested later, and so  *)
(* is not after the cursor either: what is after it is new.                *)

Passed(i, cursor) ==
  \/ cursor.attested < attested[i]
  \/ cursor.attested = attested[i] /\ cursor.risk <= risk_events[i].risk

Tables ==
  /\ risk_events \in Seq(Rows) /\ attested \in Seq(Int) /\ Len(attested) = Len(risk_events)
  /\ \A i, j \in DOMAIN risk_events :
       i <= j /\ SameKey(risk_events[i], risk_events[j]) => attested[i] <= attested[j]

\* page and listed are sequences of rows on file.
Client ==
  /\ DOMAIN client = DOMAIN Blank
  /\ client.page \in Seq(DOMAIN risk_events)
  /\ \E Items : client.listed \in Seq(Items)
  /\ \A k \in DOMAIN client.listed : client.listed[k].row \in DOMAIN risk_events
  /\ client.cursor \in [attested: Int, risk: Int] \cup {None}

Progress ==
  /\ client.pc = "idle" => client.listed = <<>> /\ client.page = <<>> /\ client.cursor = None
  /\ client.pc = "read_page" => client.page = <<>> /\ (client.cursor = None => client.listed = <<>>)
  /\ client.pc = "read_metrics" => client.page # <<>>

ShownOnce ==
  /\ ListedOnce
  /\ \A k \in DOMAIN client.listed, m \in DOMAIN client.page :
       ~SameKey(ListedRow(k), risk_events[client.page[m]])
  /\ \A l, m \in DOMAIN client.page :
       SameKey(risk_events[client.page[l]], risk_events[client.page[m]]) => l = m

ShownBeforeCursor ==
  client.cursor # None =>
    /\ \A k \in DOMAIN client.listed : Passed(client.listed[k].row, client.cursor)
    /\ \A m \in DOMAIN client.page : Passed(client.page[m], client.cursor)

IInv == Tables /\ Client /\ Progress /\ ShownOnce /\ ShownBeforeCursor

-----------------------------------------------------------------------------

\* A page is in the order of the query, without repetition.
LEMMA FirstInOrder ==
  ASSUME NEW rows, NEW n \in Nat, NEW page \in FirstOf(rows, n)
  PROVE  /\ page \in Seq(rows) /\ Len(page) <= n
         /\ \A k, l \in DOMAIN page : k < l => page[k] # page[l] /\ ~ListedBefore(page[l], page[k])
<1>1. PICK m \in 0..n : page \in [1..m -> rows]
  BY DEF FirstOf
<1>2. page \in Seq(rows) /\ Len(page) = m /\ DOMAIN page = 1..m
  BY <1>1
<1>3. ASSUME NEW k \in DOMAIN page, NEW l \in DOMAIN page, k < l
      PROVE  page[k] # page[l] /\ ~ListedBefore(page[l], page[k])
  <2> DEFINE Left(j) == rows \ {page[i] : i \in 1..(j - 1)}
  <2>1. \A j \in DOMAIN page : page[j] \in Left(j) /\ \A i \in Left(j) : ~ListedBefore(i, page[j])
    BY DEF FirstOf
  <2>2. page[l] \in Left(l)
    BY <2>1
  <2>3. k \in 1..(l - 1)
    BY <1>2, <1>3
  <2>4. page[k] # page[l]
    BY <2>2, <2>3
  <2>5. page[l] \in Left(k)
    BY <1>2, <1>3, <2>2
  <2> QED BY <2>1, <2>4, <2>5
<1> QED BY <1>2, <1>3

\* What is after the cursor is a row no row of whose key has been passed.
LEMMA AfterIsNew ==
  ASSUME Tables, Risked,
         NEW cursor \in [attested: Int, risk: Int], cursor # None,
         NEW i \in After(cursor), NEW j \in DOMAIN risk_events, Passed(j, cursor)
  PROVE  ~SameKey(risk_events[j], risk_events[i])
<1>1. /\ i \in Kept(risk_events) /\ i \in DOMAIN risk_events
      /\ \/ attested[i] < cursor.attested
         \/ attested[i] = cursor.attested /\ risk_events[i].risk < cursor.risk
  BY DEF After, Kept
<1>2. /\ attested[i] \in Int /\ attested[j] \in Int /\ i \in Nat /\ j \in Nat
      /\ risk_events[i].risk \in Int /\ risk_events[j].risk \in Int
  BY <1>1 DEF Tables, Risked
<1> SUFFICES ASSUME SameKey(risk_events[j], risk_events[i]) PROVE FALSE
  OBVIOUS
<1>3. SameKey(risk_events[i], risk_events[j]) /\ risk_events[i].risk = risk_events[j].risk
  BY DEF SameKey
<1>4. j <= i
  BY <1>1, <1>3 DEF Kept
<1>5. attested[j] <= attested[i]
  BY <1>1, <1>4 DEF Tables
<1> QED BY <1>1, <1>2, <1>3, <1>5 DEF Passed

-----------------------------------------------------------------------------
(* Preservation.                                                           *)

\* The queries of the other requests, and of a list once it is answered.
LEMMA OtherStep ==
  ASSUME IInv, UNCHANGED <<risk_events, attested>>,
         DOMAIN client' = DOMAIN Blank, client'.pc \notin {"idle", "read_page", "read_metrics"},
         client'.listed = client.listed, client'.page = client.page, client'.cursor = client.cursor
  PROVE  IInv'
<1>1. Tables'
  BY DEF IInv, Tables, SameKey
<1>2. Client'
  BY DEF IInv, Client
<1>3. Progress'
  BY DEF Progress
<1>4. ShownOnce' /\ ShownBeforeCursor'
  BY DEF IInv, ShownOnce, ShownBeforeCursor, ListedOnce, ListedRow, SameKey, Passed
<1> QED BY <1>1, <1>2, <1>3, <1>4 DEF IInv

LEMMA ArriveStep ==
  ASSUME PageConfig, IInv, Arrive, UNCHANGED <<risk_events, attested>>
  PROVE  IInv'
<1>1. /\ DOMAIN client' = DOMAIN Blank /\ client'.pc # "read_metrics" /\ client'.pc # "idle"
      /\ client'.listed = <<>> /\ client'.page = <<>> /\ client'.cursor = None
  BY DEF Arrive, Blank
<1>2. Tables'
  BY DEF IInv, Tables, SameKey
<1>3. Client'
  BY <1>1 DEF Client
<1>4. Progress'
  BY <1>1 DEF Progress
<1>5. ShownOnce' /\ ShownBeforeCursor'
  BY <1>1 DEF ShownOnce, ShownBeforeCursor, ListedOnce
<1> QED BY <1>2, <1>3, <1>4, <1>5 DEF IInv

LEMMA ReadPageStep ==
  ASSUME PageConfig, Risked, IInv, ReadPage, UNCHANGED <<risk_events, attested>>
  PROVE  IInv'
<1> DEFINE rows == After(client.cursor)
<1>1. PICK fetched \in FirstOf(rows, PageLimit + 1) :
        LET more == Len(fetched) > PageLimit
            page == IF more THEN SubSeq(fetched, 1, PageLimit) ELSE fetched
        IN client' = [client EXCEPT
             !.pc = IF page = <<>> THEN "answered" ELSE "read_metrics",
             !.page = page,
             !.cursor = IF more THEN CursorAt(page[PageLimit]) ELSE None]
  BY DEF ReadPage
<1> DEFINE more == Len(fetched) > PageLimit
           page == IF more THEN SubSeq(fetched, 1, PageLimit) ELSE fetched
           last == page[PageLimit]
<1>2. /\ DOMAIN client' = DOMAIN Blank /\ client'.listed = client.listed /\ client'.page = page
      /\ client'.pc = IF page = <<>> THEN "answered" ELSE "read_metrics"
      /\ client'.cursor = IF more THEN CursorAt(last) ELSE None
  BY <1>1 DEF IInv, Client, Blank
<1>3. PageLimit \in Nat \ {0} /\ PageLimit + 1 \in Nat
  BY DEF PageConfig
<1> HIDE DEF rows
<1>4. /\ fetched \in Seq(rows) /\ Len(fetched) \in Nat
      /\ \A k, l \in DOMAIN fetched :
           k < l => fetched[k] # fetched[l] /\ ~ListedBefore(fetched[l], fetched[k])
  BY <1>3, FirstInOrder
<1>5. page \in Seq(rows) /\ DOMAIN page = 1..Len(page) /\ Len(page) \in Nat
      /\ DOMAIN page \subseteq DOMAIN fetched
      /\ (more => Len(page) = PageLimit)
      /\ \A k \in DOMAIN page : page[k] = fetched[k]
  <2>1. CASE more
    <3>1. \A k \in 1..PageLimit : fetched[k] \in rows
      BY <1>3, <1>4, <2>1, ElementOfSeq
    <3>2. /\ page \in Seq(rows) /\ Len(page) = PageLimit
          /\ \A k \in 1..PageLimit : page[k] = fetched[k]
      BY <1>3, <2>1, <3>1, SubSeqProperties
    <3> QED BY <1>3, <1>4, <2>1, <3>2, LenProperties
  <2>2. CASE ~more
    BY <1>4, <2>2, LenProperties
  <2> QED BY <2>1, <2>2
<1> HIDE DEF page
<1>6. rows \subseteq Kept(risk_events) /\ rows \subseteq DOMAIN risk_events
  BY DEF rows, After, Kept
<1>7. \A k \in DOMAIN page : page[k] \in rows
  BY <1>5, ElementOfSeq
<1>8. \A i \in DOMAIN risk_events :
        i \in Nat /\ attested[i] \in Int /\ risk_events[i].risk \in Int
  BY DEF IInv, Tables, Risked
<1>9. ASSUME NEW k \in DOMAIN page, NEW l \in DOMAIN page, k # l
      PROVE  ~SameKey(risk_events[page[k]], risk_events[page[l]])
  <2>1. page[k] # page[l]
    BY <1>4, <1>5, <1>9
  <2>2. page[k] \in Kept(risk_events) /\ page[l] \in Kept(risk_events)
    BY <1>6, <1>7
  <2> QED BY <1>6, <1>7, <1>8, <2>1, <2>2 DEF Kept, SameKey
<1>10. ASSUME more
       PROVE  /\ last \in rows /\ CursorAt(last) \in [attested: Int, risk: Int]
              /\ \A m \in DOMAIN page : Passed(page[m], CursorAt(last))
  <2>1. PageLimit \in DOMAIN page /\ PageLimit \in DOMAIN fetched /\ last = fetched[PageLimit]
    BY <1>3, <1>5, <1>10
  <2>2. last \in rows /\ CursorAt(last) \in [attested: Int, risk: Int]
    BY <1>6, <1>7, <1>8, <2>1 DEF CursorAt
  <2>3. ASSUME NEW m \in DOMAIN page
        PROVE  Passed(page[m], CursorAt(last))
    <3>1. CASE m = PageLimit
      <4>1. page[m] = last /\ risk_events[last].risk <= risk_events[last].risk
        BY <1>6, <1>8, <2>2, <3>1
      <4> QED BY <4>1 DEF Passed, CursorAt
    <3>2. CASE m # PageLimit
      <4>1. m < PageLimit
        BY <1>3, <1>5, <1>10, <3>2
      <4>2. ~ListedBefore(last, page[m])
        BY <1>4, <1>5, <2>1, <4>1
      <4> QED BY <1>6, <1>7, <1>8, <2>1, <4>2 DEF ListedBefore, Passed, CursorAt
    <3> QED BY <3>1, <3>2
  <2> QED BY <2>2, <2>3
<1>11. client.cursor = None => client.listed = <<>>
  BY DEF IInv, Progress, ReadPage
<1>12. ASSUME NEW k \in DOMAIN client.listed
       PROVE  /\ client.cursor # None /\ client.cursor \in [attested: Int, risk: Int]
              /\ client.listed[k].row \in DOMAIN risk_events
              /\ Passed(client.listed[k].row, client.cursor)
  BY <1>11 DEF IInv, Client, ShownBeforeCursor
<1>13. ASSUME NEW k \in DOMAIN client.listed, NEW m \in DOMAIN page
       PROVE  ~SameKey(ListedRow(k), risk_events[page[m]])
  BY <1>7, <1>12, AfterIsNew DEF IInv, ListedRow, rows
<1>14. ASSUME more, NEW k \in DOMAIN client.listed
       PROVE  Passed(client.listed[k].row, CursorAt(last))
  <2>1. \/ attested[last] < client.cursor.attested
        \/ attested[last] = client.cursor.attested /\ risk_events[last].risk < client.cursor.risk
    BY <1>10, <1>12, <1>14 DEF rows, After
  <2>2. /\ CursorAt(last).attested = attested[last] /\ CursorAt(last).risk = risk_events[last].risk
        /\ attested[last] \in Int /\ risk_events[last].risk \in Int
        /\ client.cursor.attested \in Int /\ client.cursor.risk \in Int
    BY <1>6, <1>8, <1>10, <1>12, <1>14 DEF CursorAt
  <2> DEFINE j == client.listed[k].row
  <2>3. /\ attested[j] \in Int /\ risk_events[j].risk \in Int
        /\ \/ client.cursor.attested < attested[j]
           \/ client.cursor.attested = attested[j] /\ client.cursor.risk <= risk_events[j].risk
    BY <1>8, <1>12 DEF Passed
  <2> QED BY <2>1, <2>2, <2>3 DEF Passed
<1>15. Tables'
  BY DEF IInv, Tables, SameKey
<1>16. Client'
  <2>1. page \in Seq(DOMAIN risk_events)
    BY <1>5, <1>6, SeqMonotonic
  <2> QED BY <1>2, <1>10, <2>1 DEF IInv, Client
<1>17. Progress'
  BY <1>2 DEF Progress
<1>18. ShownOnce'
  BY <1>2, <1>9, <1>13 DEF IInv, ShownOnce, ListedOnce, ListedRow, SameKey
<1>19. ShownBeforeCursor'
  BY <1>2, <1>10, <1>14 DEF ShownBeforeCursor, Passed
<1> QED BY <1>15, <1>16, <1>17, <1>18, <1>19 DEF IInv

LEMMA ReadMetricsStep ==
  ASSUME IInv, ReadMetrics, UNCHANGED <<risk_events, attested>>
  PROVE  IInv'
<1> DEFINE i == Head(client.page)
           rest == Tail(client.page)
           row == risk_events[i]
           window == IF row.end = None THEN Since(row.risk) ELSE Between(row.risk, row.end)
           item == [row |-> i, samples |-> Cardinality(window)]
<1>1. /\ item.row = i
      /\ client' = [client EXCEPT
           !.listed = Append(@, item),
           !.page = rest,
           !.pc = IF rest # <<>> THEN "read_metrics"
                  ELSE IF client.cursor # None THEN "read_page" ELSE "answered"]
  BY DEF ReadMetrics
<1> HIDE DEF item
<1>2. /\ DOMAIN client' = DOMAIN Blank /\ client'.cursor = client.cursor
      /\ client'.listed = Append(client.listed, item) /\ client'.page = rest
      /\ client'.pc = IF rest # <<>> THEN "read_metrics"
                      ELSE IF client.cursor # None THEN "read_page" ELSE "answered"
  BY <1>1 DEF IInv, Client, Blank
<1>3. client.page # <<>> /\ client.page \in Seq(DOMAIN risk_events)
  BY DEF IInv, Client, Progress, ReadMetrics
<1>4. /\ i = client.page[1] /\ 1 \in DOMAIN client.page /\ rest \in Seq(DOMAIN risk_events)
      /\ \A m \in DOMAIN rest : m + 1 \in DOMAIN client.page /\ rest[m] = client.page[m + 1]
  <2>1. /\ rest \in Seq(DOMAIN risk_events) /\ Len(rest) = Len(client.page) - 1
        /\ \A m \in 1..Len(rest) : rest[m] = client.page[m + 1]
    BY <1>3, HeadTailProperties
  <2>2. /\ Len(client.page) \in Nat \ {0} /\ DOMAIN client.page = 1..Len(client.page)
        /\ DOMAIN rest = 1..Len(rest)
    BY <1>3, <2>1, EmptySeq, LenProperties
  <2>3. i = client.page[1]
    BY <1>3
  <2> QED BY <2>1, <2>2, <2>3
<1>5. PICK Items : client.listed \in Seq(Items)
  BY DEF IInv, Client
<1> DEFINE listed == Append(client.listed, item)
           n == Len(client.listed)
<1>6. client.listed \in Seq(Items \cup {item})
  BY <1>5, SeqMonotonic
<1>7. /\ listed \in Seq(Items \cup {item}) /\ n \in Nat
      /\ DOMAIN client.listed = 1..n /\ DOMAIN listed = 1..(n + 1)
      /\ listed[n + 1] = item /\ \A k \in 1..n : listed[k] = client.listed[k]
  BY <1>6, AppendProperties, LenProperties
<1>8. i \in DOMAIN risk_events
  BY <1>3, <1>4, ElementOfSeq
<1> HIDE DEF listed, n, rest, i
<1>9. client'.listed = listed
  BY <1>2 DEF listed
<1>10. \A k \in DOMAIN listed :
         \/ k \in DOMAIN client.listed /\ listed[k] = client.listed[k]
         \/ k = n + 1 /\ listed[k].row = i
  BY <1>1, <1>7
<1>11. Tables'
  BY DEF IInv, Tables, SameKey
<1>12. Client'
  BY <1>2, <1>4, <1>7, <1>8, <1>9, <1>10 DEF IInv, Client
<1>13. Progress'
  BY <1>2 DEF Progress
<1>14. ListedOnce'
  <2> SUFFICES ASSUME NEW k \in DOMAIN listed, NEW l \in DOMAIN listed,
                      SameKey(risk_events[listed[k].row], risk_events[listed[l].row])
               PROVE  k = l
    BY <1>9 DEF ListedOnce, ListedRow, SameKey
  <2>1. CASE k \in DOMAIN client.listed /\ l \in DOMAIN client.listed
    BY <1>7, <2>1 DEF IInv, ShownOnce, ListedOnce, ListedRow
  <2>2. CASE k \in DOMAIN client.listed /\ l = n + 1 /\ listed[l].row = i
    BY <1>4, <1>7, <2>2 DEF IInv, ShownOnce, ListedRow
  <2>3. CASE l \in DOMAIN client.listed /\ k = n + 1 /\ listed[k].row = i
    <3>1. SameKey(risk_events[listed[l].row], risk_events[listed[k].row])
      BY DEF SameKey
    <3> QED BY <1>4, <1>7, <2>3, <3>1 DEF IInv, ShownOnce, ListedRow
  <2> QED BY <1>10, <2>1, <2>2, <2>3
<1>15. ASSUME NEW k \in DOMAIN listed, NEW m \in DOMAIN rest
       PROVE  ~SameKey(risk_events[listed[k].row], risk_events[rest[m]])
  <2>1. CASE k \in DOMAIN client.listed /\ listed[k] = client.listed[k]
    BY <1>4, <2>1 DEF IInv, ShownOnce, ListedRow
  <2>2. CASE listed[k].row = i
    <3>1. m + 1 # 1
      BY <1>4, LenProperties
    <3> QED BY <1>4, <2>2, <3>1 DEF IInv, ShownOnce
  <2> QED BY <1>10, <2>1, <2>2
<1>16. ASSUME NEW l \in DOMAIN rest, NEW m \in DOMAIN rest,
              SameKey(risk_events[rest[l]], risk_events[rest[m]])
       PROVE  l = m
  <2>1. l + 1 = m + 1
    BY <1>4, <1>16 DEF IInv, ShownOnce
  <2> QED BY <1>4, <2>1, LenProperties
<1>17. ShownOnce'
  BY <1>2, <1>9, <1>14, <1>15, <1>16 DEF ShownOnce, ListedRow, SameKey
<1>18. ShownBeforeCursor'
  BY <1>2, <1>4, <1>9, <1>10 DEF IInv, ShownBeforeCursor, Passed
<1> QED BY <1>11, <1>12, <1>13, <1>17, <1>18 DEF IInv

LEMMA WriterStep ==
  ASSUME IInv, Writer
  PROVE  IInv'
<1>1. PICK row \in Rows, at \in Int :
        /\ \A i \in DOMAIN risk_events : SameKey(risk_events[i], row) => attested[i] <= at
        /\ risk_events' = Append(risk_events, row) /\ attested' = Append(attested, at)
  BY DEF Writer
<1> DEFINE n == Len(risk_events)
<1>2. /\ risk_events \in Seq(Rows) /\ attested \in Seq(Int) /\ Len(attested) = n
      /\ n \in Nat /\ DOMAIN risk_events = 1..n
  BY LenProperties DEF IInv, Tables
<1>3. /\ risk_events' \in Seq(Rows) /\ Len(risk_events') = n + 1 /\ DOMAIN risk_events' = 1..(n + 1)
      /\ risk_events'[n + 1] = row /\ \A i \in 1..n : risk_events'[i] = risk_events[i]
  BY <1>1, <1>2, AppendProperties
<1>4. /\ attested' \in Seq(Int) /\ Len(attested') = n + 1
      /\ attested'[n + 1] = at /\ \A i \in 1..n : attested'[i] = attested[i]
  BY <1>1, <1>2, AppendProperties
<1> HIDE DEF n
<1>5. Tables'
  <2>1. ASSUME NEW i \in 1..(n + 1), NEW j \in 1..(n + 1), i <= j,
               SameKey(risk_events'[i], risk_events'[j])
        PROVE  attested'[i] <= attested'[j]
    <3>1. CASE j \in 1..n
      <4>1. i \in 1..n
        BY <1>2, <2>1, <3>1
      <4> QED BY <1>2, <1>3, <1>4, <2>1, <3>1, <4>1 DEF IInv, Tables
    <3>2. CASE j = n + 1 /\ i \in 1..n
      BY <1>1, <1>2, <1>3, <1>4, <2>1, <3>2
    <3>3. CASE j = n + 1 /\ i = n + 1
      BY <1>4, <3>3
    <3> QED BY <1>2, <2>1, <3>1, <3>2, <3>3
  <2> QED BY <1>3, <1>4, <2>1 DEF Tables, SameKey
<1>6. UNCHANGED client /\ DOMAIN risk_events \subseteq DOMAIN risk_events'
  BY <1>2, <1>3 DEF Writer
<1>7. Client'
  <2>1. client.page \in Seq(DOMAIN risk_events')
    BY <1>6, SeqMonotonic DEF IInv, Client
  <2> QED BY <1>6, <2>1 DEF IInv, Client
<1>8. Progress'
  BY <1>6 DEF IInv, Progress
<1>9. /\ \A k \in DOMAIN client.listed : client.listed[k].row \in DOMAIN risk_events
      /\ \A m \in DOMAIN client.page : client.page[m] \in DOMAIN risk_events
  BY ElementOfSeq, LenProperties DEF IInv, Client
<1>10. \A i \in DOMAIN risk_events : risk_events'[i] = risk_events[i] /\ attested'[i] = attested[i]
  BY <1>2, <1>3, <1>4
<1>11. ShownOnce'
  BY <1>6, <1>9, <1>10 DEF IInv, ShownOnce, ListedOnce, ListedRow, SameKey
<1>12. ShownBeforeCursor'
  BY <1>6, <1>9, <1>10 DEF IInv, ShownBeforeCursor, Passed
<1> QED BY <1>5, <1>7, <1>8, <1>11, <1>12 DEF IInv

LEMMA InitPages == Init => IInv
<1> SUFFICES ASSUME Init PROVE IInv
  OBVIOUS
<1>1. /\ risk_events = <<>> /\ attested = <<>> /\ DOMAIN client = DOMAIN Blank
      /\ client.pc = "idle" /\ client.listed = <<>> /\ client.page = <<>> /\ client.cursor = None
  BY DEF Init, ApiInit, Blank
<1>2. Tables
  BY <1>1 DEF Tables
<1>3. Client
  BY <1>1 DEF Client
<1> QED BY <1>1, <1>2, <1>3 DEF IInv, Progress, ShownOnce, ListedOnce, ShownBeforeCursor

LEMMA StepPages ==
  ASSUME PageConfig, Risked, IInv, [Next]_<<risk_events, attested, client>>
  PROVE  IInv'
<1>1. CASE ApiNext /\ Arrive
  BY <1>1, ArriveStep DEF ApiNext
<1>2. CASE ApiNext /\ ReadPage
  BY <1>2, ReadPageStep DEF ApiNext
<1>3. CASE ApiNext /\ ReadMetrics
  BY <1>3, ReadMetricsStep DEF ApiNext
<1>4. CASE ApiNext /\ (ReadRow \/ ReadWindow \/ ReadTelemetry \/ ReadSnapshots)
  <2>1. DOMAIN client = DOMAIN Blank
    BY DEF IInv, Client
  <2>2. /\ DOMAIN client' = DOMAIN Blank /\ client'.pc \notin {"idle", "read_page", "read_metrics"}
        /\ client'.listed = client.listed /\ client'.page = client.page
        /\ client'.cursor = client.cursor
    BY <1>4, <2>1 DEF ReadRow, ReadWindow, ReadTelemetry, ReadSnapshots, Blank
  <2> QED BY <1>4, <2>2, OtherStep DEF ApiNext
<1>5. CASE ApiNext /\ (ReadLatest \/ ReadOpen \/ ReadStats)
  <2>1. DOMAIN client = DOMAIN Blank
    BY DEF IInv, Client
  <2>2. /\ DOMAIN client' = DOMAIN Blank /\ client'.pc \notin {"idle", "read_page", "read_metrics"}
        /\ client'.listed = client.listed /\ client'.page = client.page
        /\ client'.cursor = client.cursor
    BY <1>5, <2>1 DEF ReadLatest, ReadOpen, ReadStats, Blank
  <2> QED BY <1>5, <2>2, OtherStep DEF ApiNext
<1>6. CASE Writer
  BY <1>6, WriterStep
<1>7. CASE UNCHANGED <<risk_events, attested, client>>
  BY <1>7 DEF IInv, Tables, Client, Progress, ShownOnce, ShownBeforeCursor,
                    ListedOnce, ListedRow, SameKey, Passed
<1> QED BY <1>1, <1>2, <1>3, <1>4, <1>5, <1>6, <1>7 DEF Next, ApiNext

\* Whatever the limit of a page and however many rows there are: a client that
\* follows the cursor of GET /risk is shown no version of a risk twice, while
\* IndexerService.persistEvent adds rows between its pages.
THEOREM PagesShowOnce ==
  ASSUME PageConfig, Risked
  PROVE  Spec => []ListedOnce
<1>1. IInv /\ [Next]_<<risk_events, attested, client>> => IInv'
  BY StepPages
<1>2. IInv => ListedOnce
  BY DEF IInv, ShownOnce
<1> QED BY <1>1, <1>2, InitPages, PTL DEF Spec

-----------------------------------------------------------------------------
(* Nothing is left out.  Until the last page is shown, a row that was on   *)
(* file at the first query and is alone in its millisecond has been shown, *)
(* is on the page, or comes after the cursor.                              *)

MorePages == client.pc = "read_page" \/ (client.pc = "read_metrics" /\ client.cursor # None)

Shown(i) ==
  \/ \E k \in DOMAIN client.listed : client.listed[k].row = i
  \/ \E m \in DOMAIN client.page : client.page[m] = i

ToCome(i) == MorePages /\ i \in After(client.cursor)

Due(i) == i \in Kept(risk_events) /\ Unique(i)

LInv ==
  /\ client.onFile \in Nat /\ client.onFile <= Len(risk_events)
  /\ client.kind = "list" =>
       /\ client.pc \in {"idle", "read_page", "read_metrics", "answered"}
       /\ client.pc = "answered" => client.page = <<>>
       /\ \A i \in 1..client.onFile : Due(i) => Shown(i) \/ ToCome(i)

\* A page that is not full has all there is.
LEMMA FirstIsAll ==
  ASSUME NEW rows, NEW n \in Nat, NEW page \in FirstOf(rows, n), Len(page) # n
  PROVE  rows = {page[m] : m \in DOMAIN page}
BY DEF FirstOf

\* Of two rows at most one comes first; the one that comes second is after the
\* cursor that names the first.
LEMMA ReadPageAll ==
  ASSUME PageConfig, Risked, IInv, LInv, ReadPage, UNCHANGED <<risk_events, attested>>
  PROVE  LInv'
<1> DEFINE rows == After(client.cursor)
<1>1. PICK fetched \in FirstOf(rows, PageLimit + 1) :
        LET more == Len(fetched) > PageLimit
            page == IF more THEN SubSeq(fetched, 1, PageLimit) ELSE fetched
        IN client' = [client EXCEPT
             !.pc = IF page = <<>> THEN "answered" ELSE "read_metrics",
             !.page = page,
             !.cursor = IF more THEN CursorAt(page[PageLimit]) ELSE None]
  BY DEF ReadPage
<1> DEFINE more == Len(fetched) > PageLimit
           page == IF more THEN SubSeq(fetched, 1, PageLimit) ELSE fetched
           last == page[PageLimit]
<1>2. /\ client'.listed = client.listed /\ client'.page = page
      /\ client'.onFile = client.onFile /\ client'.kind = client.kind
      /\ client'.pc = IF page = <<>> THEN "answered" ELSE "read_metrics"
      /\ client'.cursor = IF more THEN CursorAt(last) ELSE None
  BY <1>1 DEF IInv, Client, Blank
<1>3. PageLimit \in Nat \ {0} /\ PageLimit + 1 \in Nat
  BY DEF PageConfig
<1>4. /\ fetched \in Seq(rows) /\ Len(fetched) <= PageLimit + 1 /\ Len(fetched) \in Nat
      /\ DOMAIN fetched = 1..Len(fetched)
  BY <1>3, FirstInOrder, LenProperties
<1>5. CASE ~more
  <2>1. page = fetched /\ ~(Len(fetched) > PageLimit)
    BY <1>5
  <2> HIDE DEF rows, page, more
  <2>2. Len(fetched) # PageLimit + 1
    BY <1>3, <2>1
  <2>3. rows = {fetched[m] : m \in DOMAIN fetched}
    BY <1>3, <2>2, FirstIsAll
  <2>4. ASSUME NEW i \in rows PROVE \E m \in DOMAIN page : page[m] = i
    BY <2>1, <2>3
  <2>5. \A i \in 1..client.onFile : Due(i)' => Due(i)
    BY DEF Due, Unique, ListedBefore, Kept, SameKey
  <2>6. ASSUME client.kind = "list", NEW i \in 1..client.onFile, Due(i) PROVE Shown(i)'
    <3>1. CASE \E k \in DOMAIN client.listed : client.listed[k].row = i
      BY <1>2, <3>1 DEF Shown
    <3>2. CASE i \in rows
      BY <1>2, <2>4, <3>2 DEF Shown
    <3>3. client.page = <<>>
      BY DEF IInv, Progress, ReadPage
    <3> QED BY <2>6, <3>1, <3>2, <3>3 DEF LInv, Shown, ToCome, rows
  <2>7. client'.pc \in {"read_metrics", "answered"} /\ (client'.pc = "answered" => client'.page = <<>>)
    BY <1>2
  <2> QED BY <1>2, <2>5, <2>6, <2>7 DEF LInv
<1>6. CASE more
  <2>1. /\ PageLimit \in DOMAIN fetched /\ \A k \in 1..PageLimit : k \in DOMAIN fetched
        /\ \A k \in DOMAIN fetched : fetched[k] \in rows
    BY <1>3, <1>4, <1>6, ElementOfSeq
  <2>2. /\ Len(page) = PageLimit /\ page \in Seq(rows)
        /\ \A k \in 1..PageLimit : page[k] = fetched[k]
    BY <1>3, <1>4, <1>6, <2>1, SubSeqProperties
  <2>3. DOMAIN page = 1..PageLimit /\ page # <<>> /\ last = fetched[PageLimit]
    BY <1>3, <2>2, LenProperties
  <2> HIDE DEF page
  <2>4. rows \subseteq DOMAIN risk_events
    BY DEF After, Kept
  <2>5. ASSUME NEW i \in rows, Due(i), \A m \in DOMAIN page : page[m] # i
        PROVE  i \in After(CursorAt(last))
    <3> DEFINE left == rows \ {fetched[m] : m \in 1..(PageLimit - 1)}
    <3>1. \A j \in left : ~ListedBefore(j, fetched[PageLimit])
      BY <2>1 DEF FirstOf
    <3>2. i \in left
      BY <1>3, <2>2, <2>3, <2>5
    <3>3. ~ListedBefore(i, last)
      BY <2>3, <3>1, <3>2
    <3>4. last \in DOMAIN risk_events /\ last # i
      BY <1>3, <2>1, <2>3, <2>4, <2>5
    <3>5. ListedBefore(last, i)
      BY <2>5, <3>3, <3>4 DEF Due, Unique
    <3> QED BY <2>5, <3>5 DEF Due, After, ListedBefore, CursorAt
  <2>6. CursorAt(last) # None
    <3>1. last \in DOMAIN risk_events
      BY <2>1, <2>3, <2>4
    <3>2. attested[last] \in Int /\ risk_events[last].risk \in Int
      BY <3>1 DEF IInv, Tables, Risked
    <3> QED BY <3>2 DEF CursorAt, PageConfig
  <2>7. \A i \in 1..client.onFile : Due(i)' => Due(i)
    BY DEF Due, Unique, ListedBefore, Kept, SameKey
  <2>8. ASSUME client.kind = "list", NEW i \in 1..client.onFile, Due(i)
        PROVE  Shown(i)' \/ ToCome(i)'
    <3>1. CASE \E k \in DOMAIN client.listed : client.listed[k].row = i
      BY <1>2, <3>1 DEF Shown
    <3>2. CASE i \in rows
      <4>1. CASE \E m \in DOMAIN page : page[m] = i
        BY <1>2, <4>1 DEF Shown
      <4>2. CASE \A m \in DOMAIN page : page[m] # i
        <5>1. i \in After(CursorAt(last))
          BY <2>5, <2>8, <3>2, <4>2
        <5>2. MorePages'
          BY <1>2, <1>6, <2>3, <2>6 DEF MorePages
        <5> QED BY <1>2, <1>6, <5>1, <5>2 DEF ToCome, After, Kept, SameKey
      <4> QED BY <4>1, <4>2
    <3>3. client.page = <<>>
      BY DEF IInv, Progress, ReadPage
    <3> QED BY <2>8, <3>1, <3>2, <3>3 DEF LInv, Shown, ToCome
  <2> QED BY <1>2, <2>3, <2>7, <2>8 DEF LInv
<1> QED BY <1>5, <1>6

\* What is shown stays shown, and the rest of the page is shown next.
LEMMA ReadMetricsAll ==
  ASSUME IInv, LInv, ReadMetrics, UNCHANGED <<risk_events, attested>>
  PROVE  LInv'
<1> DEFINE i == Head(client.page)
           rest == Tail(client.page)
           row == risk_events[i]
           window == IF row.end = None THEN Since(row.risk) ELSE Between(row.risk, row.end)
           item == [row |-> i, samples |-> Cardinality(window)]
<1>1. /\ item.row = i
      /\ client' = [client EXCEPT
           !.listed = Append(@, item),
           !.page = rest,
           !.pc = IF rest # <<>> THEN "read_metrics"
                  ELSE IF client.cursor # None THEN "read_page" ELSE "answered"]
  BY DEF ReadMetrics
<1> HIDE DEF item
<1>2. /\ client'.cursor = client.cursor /\ client'.onFile = client.onFile
      /\ client'.kind = client.kind
      /\ client'.listed = Append(client.listed, item) /\ client'.page = rest
      /\ client'.pc = IF rest # <<>> THEN "read_metrics"
                      ELSE IF client.cursor # None THEN "read_page" ELSE "answered"
  BY <1>1 DEF IInv, Client, Blank
<1>3. client.page # <<>> /\ client.page \in Seq(DOMAIN risk_events)
  BY DEF IInv, Client, Progress, ReadMetrics
<1>4. /\ i = client.page[1]
      /\ \A m \in DOMAIN client.page : m # 1 => m - 1 \in DOMAIN rest /\ rest[m - 1] = client.page[m]
  <2>1. /\ Len(rest) = Len(client.page) - 1
        /\ \A m \in 1..Len(rest) : rest[m] = client.page[m + 1]
        /\ rest \in Seq(DOMAIN risk_events)
    BY <1>3, HeadTailProperties
  <2>2. /\ Len(client.page) \in Nat \ {0} /\ DOMAIN client.page = 1..Len(client.page)
        /\ DOMAIN rest = 1..Len(rest)
    BY <1>3, <2>1, EmptySeq, LenProperties
  <2>3. i = client.page[1]
    BY <1>3
  <2> HIDE DEF rest, i
  <2> QED BY <2>1, <2>2, <2>3
<1>5. PICK Items : client.listed \in Seq(Items)
  BY DEF IInv, Client
<1> DEFINE listed == Append(client.listed, item)
           n == Len(client.listed)
<1>6. client.listed \in Seq(Items \cup {item})
  BY <1>5, SeqMonotonic
<1>7. /\ n \in Nat /\ DOMAIN client.listed = 1..n /\ DOMAIN listed = 1..(n + 1)
      /\ listed[n + 1] = item /\ \A k \in 1..n : listed[k] = client.listed[k]
  BY <1>6, AppendProperties, LenProperties
<1> HIDE DEF listed, n, rest, i
<1>8. client'.listed = listed
  BY <1>2 DEF listed
<1>9. ASSUME NEW j, Shown(j) PROVE Shown(j)'
  <2>1. CASE \E k \in DOMAIN client.listed : client.listed[k].row = j
    BY <1>7, <1>8, <2>1 DEF Shown
  <2>2. ASSUME NEW m \in DOMAIN client.page, client.page[m] = j PROVE Shown(j)'
    <3>1. CASE m = 1
      <4>1. n + 1 \in DOMAIN client'.listed /\ client'.listed[n + 1].row = j
        BY <1>1, <1>4, <1>7, <1>8, <2>2, <3>1
      <4> QED BY <4>1 DEF Shown
    <3>2. CASE m # 1
      BY <1>2, <1>4, <2>2, <3>2 DEF Shown
    <3> QED BY <3>1, <3>2
  <2> QED BY <1>9, <2>1, <2>2 DEF Shown
<1>10. ASSUME NEW j, ToCome(j) PROVE ToCome(j)'
  <2>1. client.pc = "read_metrics" /\ client.cursor # None
    BY <1>10 DEF ToCome, MorePages, ReadMetrics
  <2>2. MorePages'
    BY <1>2, <2>1 DEF MorePages
  <2> QED BY <1>2, <1>10, <2>2 DEF ToCome, After, Kept, SameKey
<1>11. \A j \in 1..client.onFile : Due(j)' => Due(j)
  BY DEF Due, Unique, ListedBefore, Kept, SameKey
<1>12. client'.pc = "answered" => client'.page = <<>>
  BY <1>2
<1>13. client'.pc \in {"read_page", "read_metrics", "answered"}
  BY <1>2
<1> QED BY <1>2, <1>9, <1>10, <1>11, <1>12, <1>13 DEF LInv

\* A row that is added changes neither the order of the others nor what the
\* cursor leaves for the pages to come; a row it replaces is no longer due.
LEMMA WriterAll ==
  ASSUME IInv, LInv, Writer
  PROVE  LInv'
<1>1. PICK row \in Rows, at \in Int :
        risk_events' = Append(risk_events, row) /\ attested' = Append(attested, at)
  BY DEF Writer
<1> DEFINE n == Len(risk_events)
<1>2. /\ risk_events \in Seq(Rows) /\ attested \in Seq(Int) /\ Len(attested) = n
      /\ n \in Nat /\ DOMAIN risk_events = 1..n
  BY LenProperties DEF IInv, Tables
<1>3. /\ Len(risk_events') = n + 1 /\ DOMAIN risk_events' = 1..(n + 1)
      /\ \A i \in 1..n : risk_events'[i] = risk_events[i]
  BY <1>1, <1>2, AppendProperties, LenProperties
<1>4. \A i \in 1..n : attested'[i] = attested[i]
  BY <1>1, <1>2, AppendProperties
<1>5. client' = client
  BY DEF Writer
<1> HIDE DEF n
<1>6. ASSUME NEW i \in 1..n, Due(i)' PROVE Due(i) /\ i \in Kept(risk_events)'
  <2>1. i \in Kept(risk_events)
    BY <1>2, <1>3, <1>6 DEF Due, Kept, SameKey
  <2>2. Unique(i)
    BY <1>2, <1>3, <1>4, <1>6 DEF Due, Unique, ListedBefore
  <2> QED BY <1>6, <2>1, <2>2 DEF Due
<1>7. ASSUME NEW i \in 1..n, i \in Kept(risk_events)', ToCome(i) PROVE ToCome(i)'
  BY <1>2, <1>3, <1>4, <1>5, <1>7 DEF ToCome, MorePages, After
<1>8. client.onFile \in Nat /\ client.onFile <= n /\ client.onFile <= n + 1
  BY <1>2 DEF LInv, n
<1>9. 1..client.onFile \subseteq 1..n
  BY <1>2, <1>8
<1> QED BY <1>3, <1>5, <1>6, <1>7, <1>8, <1>9 DEF LInv, Shown

\* The steps of the other requests.
LEMMA OtherAll ==
  ASSUME IInv, LInv, UNCHANGED <<risk_events, attested>>,
         \/ ReadRow \/ ReadWindow \/ ReadTelemetry \/ ReadSnapshots
         \/ ReadLatest \/ ReadOpen \/ ReadStats
  PROVE  LInv'
<1>1. DOMAIN client = DOMAIN Blank
  BY DEF IInv, Client
<1>2. client'.onFile = client.onFile /\ client'.kind = client.kind
  BY <1>1 DEF ReadRow, ReadWindow, ReadTelemetry, ReadSnapshots, ReadLatest, ReadOpen, ReadStats,
     Blank
<1>3. client.kind # "list"
  BY DEF LInv, ReadRow, ReadWindow, ReadTelemetry, ReadSnapshots, ReadLatest, ReadOpen, ReadStats
<1> QED BY <1>2, <1>3 DEF LInv

LEMMA ArriveAll ==
  ASSUME IInv, Arrive, UNCHANGED <<risk_events, attested>>
  PROVE  LInv'
<1>1. Len(risk_events) \in Nat /\ DOMAIN risk_events = 1..Len(risk_events)
  BY LenProperties DEF IInv, Tables
<1>2. \/ /\ client'.kind = "list" /\ client'.pc = "read_page"
         /\ client'.onFile = Len(risk_events) /\ client'.cursor = None
      \/ client'.kind \in {"detail", "health"} /\ client'.onFile = 0
  BY DEF Arrive, Blank
<1>3. CASE client'.kind = "list"
  <2>1. ASSUME NEW i \in 1..client'.onFile, Due(i)' PROVE ToCome(i)'
    BY <1>1, <1>2, <1>3, <2>1 DEF Due, ToCome, MorePages, After
  <2> QED BY <1>1, <1>2, <1>3, <2>1 DEF LInv
<1>4. CASE client'.kind \in {"detail", "health"} /\ client'.onFile = 0
  BY <1>1, <1>4 DEF LInv
<1> QED BY <1>2, <1>3, <1>4

LEMMA StepAll ==
  ASSUME PageConfig, Risked, IInv, LInv, [Next]_<<risk_events, attested, client>>
  PROVE  LInv'
<1>1. CASE UNCHANGED <<risk_events, attested, client>>
  BY <1>1 DEF LInv, Due, Kept, SameKey, Unique, ListedBefore, Shown, ToCome, MorePages, After
<1> QED BY <1>1, ArriveAll, ReadPageAll, ReadMetricsAll, OtherAll, WriterAll DEF Next, ApiNext

\* However many rows there are and whatever rows are added between the pages: a
\* client that follows the cursor of GET /risk to its last page has been shown
\* every row that was on file when it began, unless two rows share their place.
THEOREM PagesShowAll ==
  ASSUME PageConfig, Risked
  PROVE  Spec => []ListedAll
<1>1. Init => LInv
  <2> SUFFICES ASSUME Init PROVE LInv
    OBVIOUS
  <2>1. risk_events = <<>> /\ client.onFile = 0 /\ client.kind = None /\ client.pc = "idle"
    BY DEF Init, ApiInit, Blank
  <2>2. Len(risk_events) = 0 /\ \A i \in 1..client.onFile : FALSE
    BY <2>1
  <2> QED BY <2>1, <2>2 DEF LInv
<1>2. IInv /\ LInv /\ [Next]_<<risk_events, attested, client>> => IInv' /\ LInv'
  BY StepPages, StepAll
<1>3. LInv => ListedAll
  BY DEF LInv, ListedAll, Answered, ListedRow, SameKey, Due, Shown, ToCome, MorePages
<1> QED BY <1>1, <1>2, <1>3, InitPages, PTL DEF Spec
=============================================================================
