---------------------------- MODULE WriteLedger ----------------------------
(***************************************************************************)
(* What the delivery queue promises, without its task, its fifo and its    *)
(* completion: a ledger of the writes of a Run.  A write is accepted while *)
(* the ledger is open, joins the line at once or later, is requested only  *)
(* when all that joined before it has ended, and ends once, delivered only *)
(* if jobs took it.                                                        *)
(***************************************************************************)
EXTENDS Naturals

CONSTANTS MaxWrites, Removals

Seqs == 0 .. (MaxWrites - 1)

VARIABLES status,     \* per write: "absent", "waiting" or how it ended
          rank,       \* its place in the line, 0 before it joins
          joins,      \* how many have joined
          requested,  \* the writes that have been sent
          applied,    \* the writes that jobs took
          open        \* the ledger takes writes

vars == <<status, rank, joins, requested, applied, open>>

Over(s) == status[s] \notin {"absent", "waiting"}

\* The started fact is there from the start.
Init ==
  /\ status = [s \in Seqs |-> IF s = 0 THEN "waiting" ELSE "absent"]
  /\ rank = [s \in Seqs |-> IF s = 0 THEN 1 ELSE 0]
  /\ joins = 1
  /\ requested = {} /\ applied = {}
  /\ open = TRUE

Accept(s) ==
  /\ open /\ status[s] = "absent"
  /\ status' = [status EXCEPT ![s] = "waiting"]

\* A write that joins when it is accepted.
AcceptInLine(s) ==
  /\ Accept(s)
  /\ rank' = [rank EXCEPT ![s] = joins + 1] /\ joins' = joins + 1
  /\ UNCHANGED <<requested, applied, open>>

\* A write that is held back.
AcceptHeld(s) ==
  /\ Accept(s)
  /\ UNCHANGED <<rank, joins, requested, applied, open>>

Unjoined(s) == open /\ status[s] = "waiting" /\ rank[s] = 0

Join(s) ==
  /\ Unjoined(s)
  /\ rank' = [rank EXCEPT ![s] = joins + 1] /\ joins' = joins + 1
  /\ UNCHANGED <<status, requested, applied, open>>

\* The new write t joins directly in front of the held write s.
JoinBehind(s, t) ==
  /\ Unjoined(s) /\ Accept(t)
  /\ rank' = [rank EXCEPT ![t] = joins + 1, ![s] = joins + 2] /\ joins' = joins + 2
  /\ UNCHANGED <<requested, applied, open>>

Request(s) ==
  /\ status[s] = "waiting" /\ rank[s] > 0
  /\ \A t \in Seqs : 0 < rank[t] /\ rank[t] < rank[s] => Over(t)
  /\ requested' = requested \cup {s}
  /\ UNCHANGED <<status, rank, joins, applied, open>>

\* Jobs may take a request long after the ledger gave the write up.
Apply(s) ==
  /\ s \in requested
  /\ applied' = applied \cup {s}
  /\ UNCHANGED <<status, rank, joins, requested, open>>

\* While the ledger is open the writes of the line end in its order.
End(s, r) ==
  /\ status[s] = "waiting"
  /\ r = "Delivered" => s \in applied
  /\ r = "DependsOnRemoved" => s \notin requested
  /\ open /\ rank[s] > 0 =>
       \A t \in Seqs : 0 < rank[t] /\ rank[t] < rank[s] => Over(t)
  /\ status' = [status EXCEPT ![s] = r]
  /\ UNCHANGED <<rank, joins, requested, applied, open>>

Close ==
  /\ open' = FALSE
  /\ UNCHANGED <<status, rank, joins, requested, applied>>

Next ==
  \/ \E s \in Seqs : \/ AcceptInLine(s) \/ AcceptHeld(s) \/ Join(s)
                     \/ Request(s) \/ Apply(s)
                     \/ \E t \in Seqs : JoinBehind(s, t)
                     \/ \E r \in Removals \cup {"Delivered"} : End(s, r)
  \/ Close

Spec == Init /\ [][Next]_vars
=============================================================================
