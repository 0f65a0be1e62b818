------------------------------- MODULE MCInbox -------------------------------
(***************************************************************************)
(* What arrives for a Run, for TLC, one behaviour of one half at a time:   *)
(* the inbox port of an agent, with two listings over its one snapshot or  *)
(* with a listing and a wait, and the arrivals that it takes as given,     *)
(* with two waits for the end of one child.                                *)
(***************************************************************************)
EXTENDS InboxPort, Arrivals

CONSTANTS e1, b1, g1, c1, w1, w2,
          FewItems   \* bound: the items for a listing and a wait

VARIABLE part

\* The end of the child, a notice of it that cannot be decoded, and an event that cannot.
Arriving == {e1, b1, g1}
HowItReads == [i \in Arriving |-> CASE i = e1 -> "end" [] i = b1 -> "bad" [] i = g1 -> "garbled"]
WhoseItIs == [i \in Arriving |-> IF i = g1 THEN NoChild ELSE c1]
OneChild == {c1}
TwoWaits == {w1, w2}
SameChild == [w \in TwoWaits |-> c1]

Symmetry == Permutations(Listers)

\* Two listings have all the items, and what does not touch them is left out: mails, the
\* feed, which nobody watches, and its breaks.  A listing and a wait have fewer items.
PortNext ==
  /\ Next
  /\ IF callers \subseteq Listers THEN breaks' = 0 /\ taken' = {} /\ ring \subseteq ring' /\ ~left' /\ deaf' = deaf
     ELSE stored' <= FewItems

MCInit ==
  /\ Init /\ ArrivalInit
  /\ part \in {"port", "arrivals"}
  /\ part = "arrivals" => ~restored /\ callers = CHOOSE set \in CallerSets : TRUE

MCNext ==
  \/ part = "port" /\ PortNext /\ UNCHANGED <<arrivalVars, part>>
  \/ part = "arrivals" /\ ArrivalNext /\ UNCHANGED <<vars, part>>

MCSpec == MCInit /\ [][MCNext]_<<vars, arrivalVars, part>>
==============================================================================
