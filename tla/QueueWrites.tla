---------------------------- MODULE QueueWrites ----------------------------
(***************************************************************************)
(* The writes of one Run and the dependencies between them: deps.rs,       *)
(* write.rs and the resend rule of task.rs of br-runner-jobs.  A payload   *)
(* is left out; a write keeps its kind and the ids its dependencies name.  *)
(***************************************************************************)
EXTENDS Naturals

CONSTANTS Agents,   \* ids of the agents of the Run
          Jobs,     \* ids of the child Jobs of the Run
          NoId      \* stands for an id that a write does not carry

ASSUME IdsAssumption == NoId \notin Agents \cup Jobs

AgentIds == Agents \cup {NoId}
JobIds   == Jobs \cup {NoId}

\* The facts are WriteKinds of their own; PlanDeclared stands for the step
\* started fact too: the queue treats the two alike.
WriteKind == {"Started", "Registration", "Mail", "ReadMarker", "Upload",
              "Create", "Finish", "Cancel", "Answer", "SavedState",
              "PlanDeclared", "Completed", "Failed"}

\* What only the owner of the DeliveryQueue hands over; the others go
\* through a QueueWriter that outlives it.
OwnerKind == {"Answer", "SavedState", "PlanDeclared", "Completed", "Failed"}

\* A Create with an agent is a background call of that agent, a Create with
\* NoId a sync call.
Write == [kind : WriteKind, agent : AgentIds, job : JobIds]

W(kind, agent, job) == [kind |-> kind, agent |-> agent, job |-> job]
Started == W("Started", NoId, NoId)

-----------------------------------------------------------------------------
(* How a write ends. "Delivered" is Ok(()), the others are the Removal     *)
(* causes. Ended::of keeps each of them apart, so `ended' holds them too.  *)
Removals == {"Refused", "Failed", "DependsOnRemoved", "LeftUnsent"}
Results  == {"Delivered"} \cup Removals

DepKinds == {"Started", "Registration", "Upload", "Create", "Answer", "SavedState"}
DepKey   == DepKinds \X (Agents \cup Jobs \cup {NoId})
StartedKey == <<"Started", NoId>>

\* The Option<DepKey> of own_key, as a set with at most one element.
OwnKey(w) ==
  CASE w.kind = "Registration"              -> {<<"Registration", w.agent>>}
    [] w.kind \in {"Upload", "Create"}      -> {<<w.kind, w.job>>}
    [] w.kind \in {"Started", "Answer", "SavedState"} -> {<<w.kind, NoId>>}
    [] OTHER                                -> {}

DependsOn(w) ==
  (IF w.kind = "Started" THEN {} ELSE {StartedKey}) \cup
  CASE w.kind \in {"Mail", "ReadMarker"} -> {<<"Registration", w.agent>>}
    [] w.kind = "Create"    -> {<<"Upload", w.job>>} \cup
                               (IF w.agent = NoId THEN {}
                                ELSE {<<"Registration", w.agent>>})
    [] w.kind \in {"Finish", "Cancel"} -> {<<"Create", w.job>>}
    [] w.kind = "Completed" -> {<<"Answer", NoId>>, <<"SavedState", NoId>>}
    [] OTHER                -> {}

\* The keys of a write that ended removed; `ended' maps a key to the last
\* result recorded for it, or to "None".
RefusedDeps(w, ended) == {k \in DependsOn(w) : ended[k] = "Refused"}
RemovedDeps(w, ended) == {k \in DependsOn(w) : ended[k] \in Removals}

\* The Option<Removal> of blocked. The keys are looked at in order, the
\* started fact first and the upload of a create before its registration.
Blocked(w, ended) ==
  IF RemovedDeps(w, ended) = {} THEN {}
  ELSE IF /\ w.kind = "Create"
          /\ ended[StartedKey] \notin Removals
          /\ ended[<<"Upload", w.job>>] = "Refused"
       THEN {"Refused"}
       ELSE {"DependsOnRemoved"}

-----------------------------------------------------------------------------
(* The failures of an attempt, by what the queue does with them.           *)
ErrorKind == {"Unavailable", "Lost", "Unreadable", "FetchFailed",
              "InstanceUnknown", "OtherRefusal",
              "Unauthenticated", "NoUsableCredential", "InvalidInput", "InfraMissing"}

Resendable(w, error) ==
  \/ error \in {"Unavailable", "Lost", "Unreadable", "FetchFailed"}
  \/ error = "InstanceUnknown" /\ w.kind = "Started"

\* The cause of the removal after an error that is not sent again.
FinalRemoval(error) ==
  IF error \in {"InstanceUnknown", "OtherRefusal"} THEN "Refused" ELSE "Failed"
=============================================================================
