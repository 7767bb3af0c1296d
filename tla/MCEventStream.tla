--------------------------- MODULE MCEventStream ---------------------------
(* EventStream on small instances, for TLC.                                *)
EXTENDS EventStream

FairSpec == Spec /\ Fairness

=============================================================================
