-------------------------- MODULE MCDeliveryQueue --------------------------
(***************************************************************************)
(* DeliveryQueue for TLC, in three parts that differ in what the callers   *)
(* do; the queue, its task and jobs are never held back.                   *)
(***************************************************************************)
EXTENDS DeliveryQueue

CONSTANTS a1, j1

VARIABLE part

\* A call of a child Job, whose create depends on the upload, and the registration of an
\* agent.
CallWrites == {W("Upload", NoId, j1), W("Create", NoId, j1)}
AgentWrites == {W("Registration", a1, NoId)}
AllWrites == CallWrites \cup AgentWrites

\* The marker that the agent sets with the finish of a call.
FinishMarker == {<<W("ReadMarker", a1, NoId), W("Finish", NoId, j1)>>}

Handed == {write[s] : s \in 1 .. (nextSeq - 1)}
NoDrained == \A w \in Waiters : waiter[w].at = "idle"

\* "order": two writes of calls.  "late": one of them, and hand-overs that find their
\* removal.  "agent": the marker and the registration, and a call of drained().
Callings ==
  \/ part = "order" /\ Handed \subseteq CallWrites /\ late = {} /\ NoDrained
  \/ part = "late" /\ Handed \subseteq CallWrites /\ nextSeq <= 2 /\ NoDrained
  \/ part = "agent" /\ Handed \cap CallWrites = {} /\ late = {}

MCInit == Init /\ part \in {"order", "late", "agent"}
MCNext == UNCHANGED part /\ Next /\ Callings'
MCSpec == MCInit /\ [][MCNext]_<<vars, part>> /\ TaskFairness
=============================================================================
