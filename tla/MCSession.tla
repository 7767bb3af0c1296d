----------------------------- MODULE MCSession -----------------------------
(* Session on small instances, for TLC.                                    *)
EXTENDS Session, TLC

(* Interchangeable identities.                                             *)
Symmetry ==
  Permutations(Callers) \cup Permutations(Sids) \cup Permutations(Conns)

(* States with the same future: a line still to be published holds its     *)
(* goroutine back whatever it says, a call that is over returns however it *)
(* ended, a supervisor that has returned will not wait again, and what     *)
(* nobody refers to any more is reset before it is used again.             *)
OfUsed(f) == [s \in Used |-> f[s]]

Over == {c \in Callers : pc[c] \in {"ok", "failed", "nil"}}

Settled ==
  <<sess, OfUsed(status), OfUsed(client), OfUsed(broken),
    OfUsed(brokenClosed), cancelled \ FreeSids, OfUsed(supv), OfUsed(conn),
    [s \in {t \in Used : supv[t] # "exit"} |-> backoff[s]], live,
    signalled \ FreeConns,
    [c \in Callers |-> IF c \in Over THEN "over" ELSE pc[c]], held, got,
    {p \in Callers \cup Sids : pend[p] # ""}, closing, panicked>>

(* Settled leaves out the error, which decides only whether a status that  *)
(* stays the same is published again, and wakes callers that go back to    *)
(* sleep.  Liveness is checked with it.                                    *)
Reachable == <<Settled, OfUsed(lastErr)>>

(* The manager at work, before Close.                                      *)
OpenSpec == Init /\ [][Next /\ UNCHANGED closing]_vars

(* The same choice made by order instead of by symmetry, where liveness is *)
(* checked: Sids and Conns are numbers, and the lowest free one is taken.  *)
LowestFree ==
  /\ sess' \in Sids \ {sess} => \A s \in FreeSids : sess' <= s
  /\ \A k \in live' \ live : \A j \in FreeConns : k <= j

OpenLiveSpec ==
  Init /\ [][Next /\ LowestFree /\ UNCHANGED closing]_vars /\ Fairness

CloseLiveSpec == Init /\ [][Next /\ LowestFree]_vars /\ Fairness

=============================================================================
