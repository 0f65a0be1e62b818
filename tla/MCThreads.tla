------------------------------ MODULE MCThreads ------------------------------
(***************************************************************************)
(* The two halves of br-runner-threads for TLC, one behaviour of one of    *)
(* them at a time: a stream handle of the client, and the queue of the     *)
(* adapter over three sets of callers.                                     *)
(***************************************************************************)
EXTENDS ThreadStream, ThreadQueue

CONSTANTS t1, n1, n2, e1, e2, a1

VARIABLE part

OneAgent == [m \in {t1, n1, n2} |-> a1]
EntryHeld == [n \in {n1, n2} |-> IF n = n1 THEN e1 ELSE e2]

\* The turns of one agent: entries, annotations, keepalives and closings, with a crash
\* and a drop of the adapter.
TurnsOfOne ==
  [jobs |-> {"entry", "result", "annotation", "keepalive", "close"}, waits |-> {}, entries |-> {e1},
   items |-> 4, crashes |-> 1, answers |-> {"taken", "refused"}, drops |-> TRUE, fails |-> TRUE]

\* The responses of an entry, opened twice, and the end of the agent.
ResponsesOfOne ==
  [jobs |-> {"open", "complete", "discard", "send", "keepalive"}, waits |-> {"ended"}, entries |-> {e1},
   items |-> 3, crashes |-> 0, answers |-> {"taken", "refused"}, drops |-> FALSE, fails |-> TRUE]

\* Two input turns and every wait of a caller, with attempts that are made again.
WaitsOfOne ==
  [jobs |-> {"input"}, waits |-> {"entry", "read", "ended"}, entries |-> {},
   items |-> 2, crashes |-> 1, answers |-> {"taken", "again", "refused"}, drops |-> FALSE, fails |-> FALSE]

ThreeScopes == {TurnsOfOne, ResponsesOfOne, WaitsOfOne}

MCInit ==
  /\ StreamInit /\ Init
  /\ part \in {"stream", "queue"}
  /\ part = "stream" => scope = TurnsOfOne

MCNext ==
  \/ part = "stream" /\ StreamNext /\ UNCHANGED <<vars, part>>
  \/ part = "queue" /\ Next /\ UNCHANGED <<streamVars, part>>

MCSpec == MCInit /\ [][MCNext]_<<streamVars, vars, part>>
==============================================================================
