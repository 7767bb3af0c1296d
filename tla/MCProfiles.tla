----------------------------- MODULE MCProfiles -----------------------------
(* Profiles on small instances, for TLC.                                   *)
EXTENDS Profiles, TLC

(* The callers that send commands; the others serve the requests on the    *)
(* profile itself.                                                         *)
CONSTANT Users

(* Permuting what is interchangeable.                                      *)
Symmetry ==
  Permutations(Sids) \cup Permutations(Conns) \cup Permutations(Addrs)
  \cup Permutations(Passwords)

(* States with the same future, as in MCSession.                           *)
OfUsed(f) == [s \in Used |-> f[s]]

Reachable ==
  <<sess, OfUsed(status), OfUsed(client), OfUsed(broken),
    OfUsed(brokenClosed), cancelled \ FreeSids, OfUsed(supv), OfUsed(conn),
    live, signalled \ FreeConns,
    [c \in Callers |-> IF pc[c] \in {"ok", "failed", "nil"} THEN "over" ELSE pc[c]],
    held, got, {p \in Callers \cup Sids : pend[p] # ""}, closing, panicked,
    row, job, draft, excused \cap {sess},
    [s \in Used |-> IF s = sess THEN dialled[s]
                   ELSE {x \in {"addr", "password"} : dialled[s][x] # None}]>>

(* Requests by those whose they are, and no Close.                         *)
Divided ==
  \A c \in Callers :
    /\ pc[c] = "idle" /\ pc'[c] \in {"connect", "check"} => c \in Users
    /\ pc[c] = "idle" /\ pc'[c] = "stop" => job'[c] = "delete"
    /\ job[c] = "none" /\ job'[c] # "none" => c \notin Users

(* What a goroutine does that no other can notice, it does at once: to     *)
(* publish a line, or to end a call.                                       *)
Unnoticed == {p \in DOMAIN pend : pend[p] # ""}

Ending == {c \in Callers : pc[c] \in {"errorLine", "ok", "failed", "nil"}}

Prompt ==
  Unnoticed \cup Ending # {} =>
    \/ \E p \in Unnoticed : pend'[p] = ""
    \/ \E c \in Ending : pc'[c] # pc[c]

RunSpec ==
  ProfilesInit
  /\ [][ProfilesNext /\ Divided /\ Prompt /\ ~LinkDies
       /\ UNCHANGED closing]_allVars

=============================================================================
