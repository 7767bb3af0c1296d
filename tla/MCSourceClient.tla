--------------------------- MODULE MCSourceClient ---------------------------
(* SourceClient on small instances, for TLC.                               *)
EXTENDS SourceClient, TLC

Symmetry == Permutations(Calls)

(* What can still make a difference: the identifiers and the response of a *)
(* call under way, or the response it has returned, and the contents of a  *)
(* wire that is still there.                                               *)
Current ==
  LET wire(w) == IF link = "closed" THEN <<>> ELSE w
      asking(x) == pc[x] \in {"sentinel", "read"}
  IN  <<pc, mu, nextID, broken,
        [x \in Parties |-> IF asking(x) THEN ids[x] ELSE <<>>],
        [x \in Parties |-> IF asking(x) \/ pc[x] = "ok" THEN body[x] ELSE <<>>],
        watcher,
        cancelled \ {x \in Parties : watcher[x] \notin {"none", "spawned"}},
        deadline, link, aligned, wire(toServer), wire(toClient),
        serverVars>>

=============================================================================
