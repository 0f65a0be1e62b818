--------------------------- MODULE MCRunLifecycle ---------------------------
(* Instances of RunLifecycle for TLC: no agent and no child Job, the writes *)
(* of the end of a Run carry no id.                                         *)
EXTENDS RunLifecycle

CONSTANTS i1, i2
=============================================================================
