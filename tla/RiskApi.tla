------------------------------ MODULE RiskApi -------------------------------
(***************************************************************************)
(* The read-only API: GET /risk (services/riskService.ts listRisks), whose *)
(* client follows the cursor to the last page, GET /risk/:riskId           *)
(* (getRiskDetail) and GET /health (routes/health.ts).  One action per     *)
(* query; the tables may change between any two.  Requests write nothing   *)
(* and share nothing, so one client with one request stands for all.       *)
(*                                                                         *)
(* attested[i] is attested_at of row i of risk_events.  Its updated_at is  *)
(* the same instant, and rows of one key are written in its order.  The    *)
(* API's clock is not behind the blocks whose samples it reads.            *)
(***************************************************************************)
EXTENDS RiskEvents, FiniteSets

CONSTANTS
  Kinds,        \* the requests, of {"list", "detail", "health"}
  AskedRisks,   \* the risk ids asked for
  PageLimit,    \* the limit of a page
  GracePeriod,
  Times,        \* the API's clock, in time of blocks
  None

VARIABLES risk_events, attested, pool_samples, snapshots, client

\* A client with no request.  list: cursor, page (the rows still to be given
\* their metrics), listed; detail: row, until, maxLoss, samples, telemetry,
\* labels; health: latest, open, lastSample.  onFile and wereOpen remember the
\* tables at the first query.
Blank == [pc |-> "idle", kind |-> None, cursor |-> None, page |-> <<>>, listed |-> <<>>,
          onFile |-> 0, risk |-> None, row |-> None, until |-> None, maxLoss |-> 0,
          samples |-> 0, telemetry |-> 0, labels |-> {}, latest |-> None, open |-> {},
          lastSample |-> None, wereOpen |-> {}]

ApiInit == client = Blank

OpenRisks == {risk \in Risks(risk_events) : Latest(risk_events, risk).state = "OPEN"}

Arrive ==
  /\ client.pc = "idle"
  /\ \/ /\ "list" \in Kinds
        /\ client' = [Blank EXCEPT !.pc = "read_page", !.kind = "list", !.onFile = Len(risk_events)]
     \/ /\ "detail" \in Kinds
        /\ \E risk \in AskedRisks :
             client' = [Blank EXCEPT !.pc = "read_row", !.kind = "detail", !.risk = risk]
     \/ /\ "health" \in Kinds
        /\ client' = [Blank EXCEPT !.pc = "read_latest", !.kind = "health", !.wereOpen = OpenRisks]

-----------------------------------------------------------------------------
(* GET /risk.                                                              *)

\* ORDER BY attested_at DESC, risk_id DESC
ListedBefore(i, j) ==
  \/ attested[j] < attested[i]
  \/ attested[j] = attested[i] /\ risk_events[j].risk < risk_events[i].risk

\* Mutant: a row with the cursor's values comes after the cursor.
FromCursor(cursor) ==
  {i \in Kept(risk_events) :
     \/ cursor = None
     \/ attested[i] < cursor.attested
     \/ attested[i] = cursor.attested /\ risk_events[i].risk <= cursor.risk}

\* The rows that are left for the pages after the cursor.
After(cursor) ==
  {i \in Kept(risk_events) :
     \/ cursor = None
     \/ attested[i] < cursor.attested
     \/ attested[i] = cursor.attested /\ risk_events[i].risk < cursor.risk}

\* LIMIT n: the first n rows, or all there are, in an order ListedBefore allows.
FirstOf(rows, n) ==
  {page \in UNION {[1..m -> rows] : m \in 0..n} :
     /\ \A k \in DOMAIN page :
          LET left == rows \ {page[m] : m \in 1..(k - 1)}
          IN page[k] \in left /\ \A i \in left : ~ListedBefore(i, page[k])
     /\ Len(page) = n \/ rows = {page[m] : m \in DOMAIN page}}

CursorAt(i) == [attested |-> attested[i], risk |-> risk_events[i].risk]

\* Mutant: the cursor is that of the row fetched in excess.
ReadPageExcess ==
  /\ client.pc = "read_page"
  /\ \E fetched \in FirstOf(After(client.cursor), PageLimit + 1) :
       LET more == Len(fetched) > PageLimit
           page == IF more THEN SubSeq(fetched, 1, PageLimit) ELSE fetched
       IN client' = [client EXCEPT
            !.pc = IF page = <<>> THEN "answered" ELSE "read_metrics",
            !.page = page,
            !.cursor = IF more THEN CursorAt(fetched[PageLimit + 1]) ELSE None]

\* One row more than the limit is fetched, to know whether there is another
\* page; the cursor names the last row of this one.
ReadPage ==
  /\ client.pc = "read_page"
  /\ \E fetched \in FirstOf(After(client.cursor), PageLimit + 1) :
       LET more == Len(fetched) > PageLimit
           page == IF more THEN SubSeq(fetched, 1, PageLimit) ELSE fetched
       IN client' = [client EXCEPT
            !.pc = IF page = <<>> THEN "answered" ELSE "read_metrics",
            !.page = page,
            !.cursor = IF more THEN CursorAt(page[PageLimit]) ELSE None]

\* The samples of a window, both ends included.
Between(start, end) == {s \in pool_samples : start <= s.ts /\ s.ts <= end}

Since(start) == {s \in pool_samples : start <= s.ts}

\* fetchListMetrics for the next row of the page; an open window ends now,
\* which is after every sample.  With the page complete, the client asks for
\* the next one if there is a cursor.
ReadMetrics ==
  /\ client.pc = "read_metrics"
  /\ LET i == Head(client.page)
         row == risk_events[i]
         window == IF row.end = None THEN Since(row.risk) ELSE Between(row.risk, row.end)
         rest == Tail(client.page)
     IN client' = [client EXCEPT
          !.listed = Append(@, [row |-> i, samples |-> Cardinality(window)]),
          !.page = rest,
          !.pc = IF rest # <<>> THEN "read_metrics"
                 ELSE IF client.cursor # None THEN "read_page" ELSE "answered"]

-----------------------------------------------------------------------------
(* GET /risk/:riskId.                                                      *)

\* The latest row and, for an open window, the present; or 404.
ReadRow ==
  /\ client.pc = "read_row"
  /\ \/ /\ client.risk \notin Risks(risk_events)
        /\ client' = [client EXCEPT !.pc = "not_found"]
     \/ /\ client.risk \in Risks(risk_events)
        /\ \E now \in Times :
             LET row == Latest(risk_events, client.risk) IN
             /\ \A s \in pool_samples : s.ts <= now
             /\ client' = [client EXCEPT !.pc = "read_window", !.row = row,
                             !.until = IF row.end = None THEN now ELSE row.end]

LargestLoss(samples) ==
  LET losses == {0} \cup {s.loss : s \in samples} IN CHOOSE l \in losses : \A m \in losses : m <= l

\* Mutant: the end of the window is excluded.
ReadWindowExclusive ==
  /\ client.pc = "read_window"
  /\ LET window == Between(client.row.risk, client.until - 1) IN
     client' = [client EXCEPT !.pc = "read_telemetry", !.maxLoss = LargestLoss(window),
                              !.samples = Cardinality(window)]

ReadWindow ==
  /\ client.pc = "read_window"
  /\ LET window == Between(client.row.risk, client.until) IN
     client' = [client EXCEPT !.pc = "read_telemetry", !.maxLoss = LargestLoss(window),
                              !.samples = Cardinality(window)]

\* No more than 5000 rows, a bound no instance reaches.
ReadTelemetry ==
  /\ client.pc = "read_telemetry"
  /\ client' = [client EXCEPT !.pc = "read_snapshots",
                  !.telemetry = Cardinality(Between(client.row.risk, client.until))]

\* The snapshots; no step writes the attestations that are read after them.
ReadSnapshots ==
  /\ client.pc = "read_snapshots"
  /\ client' = [client EXCEPT !.pc = "answered",
                  !.labels = {s.label : s \in {s \in snapshots : s.risk = client.row.risk}}]

-----------------------------------------------------------------------------
(* GET /health.                                                            *)

NewestSample ==
  IF pool_samples = {} THEN None
  ELSE CHOOSE t \in {s.ts : s \in pool_samples} : \A s \in pool_samples : s.ts <= t

ReadLatest ==
  /\ client.pc = "read_latest"
  /\ client' = [client EXCEPT !.pc = "read_open", !.latest = NewestSample]

\* Mutant: only the newest window is asked for, as if no other could be open.
ReadOpenNewest ==
  /\ client.pc = "read_open"
  /\ client' = [client EXCEPT !.pc = "read_stats",
       !.open = {r \in Final(risk_events) : r.state = "OPEN" /\ \A risk \in OpenRisks : risk <= r.risk}]

\* Every version of a window that was open, also of one resolved since.
ReadOpen ==
  /\ client.pc = "read_open"
  /\ client' = [client EXCEPT !.pc = "read_stats",
       !.open = {r \in Final(risk_events) : r.state = "OPEN"}]

ReadStats ==
  /\ client.pc = "read_stats"
  /\ client' = [client EXCEPT !.pc = "answered", !.lastSample = NewestSample]

ApiNext ==
  /\ \/ Arrive
     \/ ReadPage \/ ReadMetrics
     \/ ReadRow \/ ReadWindow \/ ReadTelemetry \/ ReadSnapshots
     \/ ReadLatest \/ ReadOpen \/ ReadStats
  /\ UNCHANGED <<risk_events, attested, pool_samples, snapshots>>

-----------------------------------------------------------------------------
(* Properties.                                                             *)

Answered(kind) == client.kind = kind /\ client.pc = "answered"

ListedRow(k) == risk_events[client.listed[k].row]

\* A client that follows the cursor is shown no version of a risk twice,
\* whatever rows the indexer adds between two pages.
ListedOnce ==
  \A k, l \in DOMAIN client.listed : SameKey(ListedRow(k), ListedRow(l)) => k = l

Unique(i) ==
  \A j \in DOMAIN risk_events :
    j # i => ListedBefore(i, j) \/ ListedBefore(j, i)

\* By the last page the client has been shown every row that was on file when
\* it asked for the first one, unless another row of its risk was attested in
\* the same millisecond.
ListedAll ==
  Answered("list") =>
    \A i \in 1..client.onFile : i \in Kept(risk_events) /\ Unique(i) =>
      \E k \in DOMAIN client.listed : SameKey(ListedRow(k), risk_events[i])

\* The parts of a risk's detail are read one after the other and still fit:
\* the loss read covers the severity of the row read before it, the telemetry
\* the samples counted before it, and the snapshots the state of the row.  A
\* listed window, too, has the samples that opened it.
DetailBacked ==
  /\ Answered("detail") =>
       /\ client.row.severity <= client.maxLoss
       /\ 2 <= client.samples /\ client.samples <= client.telemetry
       /\ "DEPEG_START" \in client.labels
       /\ client.row.state = "RESOLVED" => "DEPEG_END" \in client.labels
  /\ \A k \in DOMAIN client.listed : client.listed[k].samples >= 2

\* The answer of /health names every window that was open all the while, and
\* its statistics, read last, reach the samples that opened each and the one
\* it gives as the latest.
HealthCoherent ==
  Answered("health") =>
    /\ client.latest # None => client.latest <= client.lastSample
    /\ \A risk \in client.wereOpen \cap OpenRisks : \E r \in client.open : r.risk = risk
    /\ \A r \in client.open : r.risk + GracePeriod <= client.lastSample
=============================================================================
