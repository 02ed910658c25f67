---------------------------- MODULE DepegWindows ----------------------------
(***************************************************************************)
(* What the indexer promises the readers of risk_events: the life of the   *)
(* depeg windows of one pool, with no word of polls, inserts or crashes.   *)
(* Windows open in the order of their starts; only the newest one ever     *)
(* changes; its severity never shrinks; and once resolved, over a span of  *)
(* at least the grace period, it is final.                                 *)
(***************************************************************************)
EXTENDS Integers

CONSTANTS Starts, Ends, Severities, GracePeriod, None

VARIABLE windows  \* a function from window starts to [state, end, severity]

OpenWindow(severity) == [state |-> "OPEN", end |-> None, severity |-> severity]
ResolvedWindow(end, severity) == [state |-> "RESOLVED", end |-> end, severity |-> severity]

With(start, w) ==
  [s \in DOMAIN windows \cup {start} |-> IF s = start THEN w ELSE windows[s]]

OpenNewest(start) ==
  /\ start \in DOMAIN windows
  /\ windows[start].state = "OPEN"
  /\ \A s \in DOMAIN windows : s <= start

Init == windows = [s \in {} |-> None]

Open(start, severity) ==
  /\ \A s \in DOMAIN windows : s < start
  /\ windows' = With(start, OpenWindow(severity))

Track(start, severity) ==
  /\ OpenNewest(start)
  /\ severity >= windows[start].severity
  /\ windows' = With(start, OpenWindow(severity))

Resolve(start, end, severity) ==
  /\ OpenNewest(start)
  /\ severity >= windows[start].severity
  /\ end >= start + GracePeriod
  /\ windows' = With(start, ResolvedWindow(end, severity))

Next ==
  \E start \in Starts, severity \in Severities :
    \/ Open(start, severity)
    \/ Track(start, severity)
    \/ \E end \in Ends : Resolve(start, end, severity)

Spec == Init /\ [][Next]_windows
=============================================================================
