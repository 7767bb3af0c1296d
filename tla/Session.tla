------------------------------ MODULE Session ------------------------------
(***************************************************************************)
(* The session manager of internal/session/session.go for one profile: the *)
(* Manager's map entry, the Session structs behind it, one supervisor      *)
(* goroutine per session, and the API goroutines that run Execute,         *)
(* Connect, Disconnect and Close against them.                             *)
(*                                                                         *)
(* Every action is one critical section, channel operation or call of the  *)
(* code: what the code does without a lock between two of them can be      *)
(* interleaved with every other goroutine.  Session structs, connections   *)
(* and the `broken' channels made with them are identified by the members  *)
(* of Sids and Conns, and an identifier nobody refers to any more is used  *)
(* again, so that behaviours are infinite while the state is finite.       *)
(***************************************************************************)
EXTENDS Naturals, FiniteSets

CONSTANTS
  Callers,         \* goroutines serving API requests
  Sids,            \* identities of Session structs
  Conns,           \* identities of connections and of their broken channels
  None,            \* the nil pointer
  InitialBackoff,  \* initialBackoff, in seconds
  MaxBackoff       \* maxBackoff, in seconds

ASSUME SessionAssumption ==
  /\ None \notin Sids \cup Conns
  /\ Callers \cap Sids = {}
  /\ InitialBackoff \in Nat \ {0}
  /\ MaxBackoff \in Nat
  /\ InitialBackoff <= MaxBackoff

VARIABLES
  sess,          \* Manager.sess for the profile: a session or None
  status,        \* Session.status
  lastErr,       \* Session.lastErr
  client,        \* Session.client: the connection commands are sent on
  broken,        \* Session.broken: the channel that wakes the supervisor
  brokenClosed,  \* Session.brokenClosed: guard of that channel
  cancelled,     \* sessions whose context has been cancelled
  supv,          \* where each supervisor is
  conn,          \* supervise's local client, and the channel made for it
  backoff,       \* supervise's local backoff
  live,          \* connections on which an exchange can still succeed
  signalled,     \* broken channels that have been closed
  pc,            \* where each API goroutine is
  held,          \* its local s
  got,           \* its local client, returned by waitReady
  pend,          \* a status line set by a goroutine but not yet published
  shown,         \* the last status line published for the profile
  closing,       \* the progress of Manager.Close
  panicked       \* the process died closing a closed channel

sessionVars == <<status, lastErr, client, broken, brokenClosed, cancelled>>
supvVars    == <<supv, conn, backoff>>
callVars    == <<pc, held, got>>
linkVars    == <<live, signalled>>
vars == <<sess, sessionVars, supvVars, linkVars, callVars, pend, shown,
          closing, panicked>>

Statuses == {"disconnected", "connecting", "connected", "auth_failed"}
Errors   == {"", "dial", "auth", "exec"}
SupvPCs  == {"check", "begin", "dial", "backoff", "install", "announce",
             "watch", "exit"}
CallPCs  == {"idle", "connect", "relook", "check", "waiting",
             "exec", "mark", "markStatus", "errorLine", "stop", "stopStatus",
             "ok", "failed", "nil"}

-----------------------------------------------------------------------------
Init ==
  /\ sess = None
  /\ status = [s \in Sids |-> "disconnected"]
  /\ lastErr = [s \in Sids |-> ""]
  /\ client = [s \in Sids |-> None]
  /\ broken = [s \in Sids |-> None]
  /\ brokenClosed = [s \in Sids |-> FALSE]
  /\ cancelled = Sids
  /\ supv = [s \in Sids |-> "exit"]
  /\ conn = [s \in Sids |-> None]
  /\ backoff = [s \in Sids |-> InitialBackoff]
  /\ live = {}
  /\ signalled = {}
  /\ pc = [c \in Callers |-> "idle"]
  /\ held = [c \in Callers |-> None]
  /\ got = [c \in Callers |-> None]
  /\ pend = [p \in Callers \cup Sids |-> ""]
  /\ shown = "disconnected"
  /\ closing = "open"
  /\ panicked = FALSE

-----------------------------------------------------------------------------
(* What the garbage collector could reuse.                                 *)

FreeSids ==
  {s \in Sids : /\ supv[s] = "exit" /\ pend[s] = ""
                /\ s # sess
                /\ \A c \in Callers : held[c] # s}

FreeConns ==
  {k \in Conns : /\ k \notin live
                 /\ \A s \in Sids \ FreeSids :
                      k \notin {client[s], broken[s], conn[s]}
                 /\ \A c \in Callers : got[c] # k}

(* Mutant: the error text is published in the place of the status.         *)
PublishesError(p, s, st, err, moved) ==
  /\ pend' = [pend EXCEPT ![p] = err]
  /\ pc' = moved
  /\ UNCHANGED <<status, lastErr>>

(* Mutant: `changed' is not closed.                                        *)
WakesNobody(p, s, st, err, moved) ==
  /\ status' = [status EXCEPT ![s] = st]
  /\ lastErr' = [lastErr EXCEPT ![s] = err]
  /\ pend' = [pend EXCEPT ![p] = st]
  /\ pc' = moved

(* setStatus by goroutine p: nothing if neither status nor error changes,  *)
(* else the new status, a close of `changed' that wakes the callers        *)
(* blocked on it, and a status line still to be published: the lock is     *)
(* released before the hub is called.  `moved' is pc after p's own step.   *)
SetStatus(p, s, st, err, moved) ==
  IF status[s] = st /\ lastErr[s] = err
  THEN pc' = moved /\ UNCHANGED <<status, lastErr, pend>>
  ELSE /\ status' = [status EXCEPT ![s] = st]
       /\ lastErr' = [lastErr EXCEPT ![s] = err]
       /\ pend' = [pend EXCEPT ![p] = st]
       /\ pc' = [c \in Callers |-> IF moved[c] = "waiting" /\ held[c] = s
                                   THEN "check" ELSE moved[c]]

(* The publication at the end of setStatus.                                *)
Publish(p) ==
  /\ pend[p] # ""
  /\ shown' = pend[p]
  /\ pend' = [pend EXCEPT ![p] = ""]
  /\ UNCHANGED <<sess, sessionVars, supvVars, linkVars, callVars, closing, panicked>>

Goto(c, label) == [pc EXCEPT ![c] = label]

(* Mutant: the connection is not closed.                                   *)
KeepsOpen(s) == live

(* The connections left open by closing the client taken from s.           *)
Hangup(s) == live \ {client[s]}

(* Session.stop: cancel the context, take the client, close it.  The two   *)
(* sections are one step: what the supervisor could do between them leads  *)
(* to the same state when it is done before both.                          *)
Stop(s) ==
  /\ cancelled' = cancelled \cup {s}
  /\ client' = [client EXCEPT ![s] = None]
  /\ live' = Hangup(s)

(* Mutant: Connect leaves the session it replaces running.                 *)
ReplacesNothing == {}

(* The session Manager.Connect stops before it starts another.             *)
Replaced == {sess} \cap Sids

(* Mutant: a session's context has no parent.                              *)
Detached == FALSE

(* A session's context is a child of the manager's: it is cancelled from   *)
(* the start once Close has begun.                                         *)
BornCancelled == closing # "open"

(* Manager.Connect, all of it under Manager.mu: stop the session that is   *)
(* mapped, if any, and start a supervisor on a new one.                    *)
ManagerConnect ==
  \E s \in FreeSids :
    /\ sess' = s
    /\ cancelled' = IF BornCancelled THEN cancelled \cup Replaced \cup {s}
                                     ELSE (cancelled \cup Replaced) \ {s}
    /\ client' = [x \in Sids |-> IF x \in {s} \cup Replaced THEN None
                                                         ELSE client[x]]
    /\ live' = live \ {client[x] : x \in Replaced}
    /\ status' = [status EXCEPT ![s] = "disconnected"]
    /\ lastErr' = [lastErr EXCEPT ![s] = ""]
    /\ broken' = [broken EXCEPT ![s] = None]
    /\ brokenClosed' = [brokenClosed EXCEPT ![s] = FALSE]
    /\ supv' = [supv EXCEPT ![s] = "check"]
    /\ conn' = [conn EXCEPT ![s] = None]
    /\ backoff' = [backoff EXCEPT ![s] = InitialBackoff]

-----------------------------------------------------------------------------
(* The supervisor of session s.                                            *)

Supervising(s, label) == supv[s] = label /\ pend[s] = ""

(* The head of the loop.                                                   *)
SupvCheck(s) ==
  /\ Supervising(s, "check")
  /\ supv' = [supv EXCEPT ![s] = IF s \in cancelled THEN "exit" ELSE "begin"]
  /\ UNCHANGED <<sess, sessionVars, conn, backoff, linkVars, callVars, pend,
                 shown, closing, panicked>>

Begin(s) ==
  /\ Supervising(s, "begin")
  /\ SetStatus(s, s, "connecting", "", pc)
  /\ supv' = [supv EXCEPT ![s] = "dial"]
  /\ UNCHANGED <<sess, client, broken, brokenClosed, cancelled, conn, backoff,
                 linkVars, held, got, shown, closing, panicked>>

(* dial returns a connection that is authenticated.                        *)
DialOk(s) ==
  /\ Supervising(s, "dial")
  /\ s \notin cancelled
  /\ \E k \in FreeConns :
       /\ conn' = [conn EXCEPT ![s] = k]
       /\ live' = live \cup {k}
       /\ signalled' = signalled \ {k}
  /\ backoff' = [backoff EXCEPT ![s] = InitialBackoff]
  /\ supv' = [supv EXCEPT ![s] = "install"]
  /\ UNCHANGED <<sess, sessionVars, callVars, pend, shown, closing,
                 panicked>>

(* dial returns ErrAuthFailed: the terminal state, and no retry.           *)
DialRejected(s) ==
  /\ Supervising(s, "dial")
  /\ SetStatus(s, s, "auth_failed", "auth", pc)
  /\ supv' = [supv EXCEPT ![s] = "exit"]
  /\ UNCHANGED <<sess, client, broken, brokenClosed, cancelled, conn, backoff,
                 linkVars, held, got, shown, closing, panicked>>

(* Mutant: a failed dial is treated like a refused password.               *)
GivesUpDialling(s) ==
  /\ Supervising(s, "dial")
  /\ SetStatus(s, s, "disconnected", "dial", pc)
  /\ supv' = [supv EXCEPT ![s] = "exit"]
  /\ UNCHANGED <<sess, client, broken, brokenClosed, cancelled, conn, backoff,
                 linkVars, held, got, shown, closing, panicked>>

(* dial fails otherwise: no server, a profile the store no longer has, the *)
(* timeout, or the context cancelled while dialling.                       *)
DialError(s) ==
  /\ Supervising(s, "dial")
  /\ SetStatus(s, s, "disconnected", "dial", pc)
  /\ supv' = [supv EXCEPT ![s] = "backoff"]
  /\ UNCHANGED <<sess, client, broken, brokenClosed, cancelled, conn, backoff,
                 linkVars, held, got, shown, closing, panicked>>

(* Mutant: the delay has no ceiling.                                       *)
DoublesForever(b) == 2 * b

NextBackoff(b) == IF 2 * b <= MaxBackoff THEN 2 * b ELSE MaxBackoff

(* The wait between two attempts, cut short by the context.                *)
BackoffWait(s) ==
  /\ Supervising(s, "backoff")
  /\ \/ /\ supv' = [supv EXCEPT ![s] = "check"]
        /\ backoff' = [backoff EXCEPT ![s] = NextBackoff(@)]
     \/ /\ s \in cancelled
        /\ supv' = [supv EXCEPT ![s] = "exit"]
        /\ UNCHANGED backoff
  /\ UNCHANGED <<sess, sessionVars, conn, linkVars, callVars, pend, shown,
                 closing, panicked>>

(* Mutant: brokenClosed is not reset with the new channel.                 *)
KeepsGuard(s) ==
  /\ Supervising(s, "install")
  /\ client' = [client EXCEPT ![s] = conn[s]]
  /\ broken' = [broken EXCEPT ![s] = conn[s]]
  /\ supv' = [supv EXCEPT ![s] = "announce"]
  /\ UNCHANGED <<sess, status, lastErr, brokenClosed, cancelled, conn, backoff,
                 linkVars, callVars, pend, shown, closing, panicked>>

(* The section that publishes a new connection to the session's users.     *)
Install(s) ==
  /\ Supervising(s, "install")
  /\ client' = [client EXCEPT ![s] = conn[s]]
  /\ broken' = [broken EXCEPT ![s] = conn[s]]
  /\ brokenClosed' = [brokenClosed EXCEPT ![s] = FALSE]
  /\ supv' = [supv EXCEPT ![s] = "announce"]
  /\ UNCHANGED <<sess, status, lastErr, cancelled, conn, backoff, linkVars,
                 callVars, pend, shown, closing, panicked>>

Announce(s) ==
  /\ Supervising(s, "announce")
  /\ SetStatus(s, s, "connected", "", pc)
  /\ supv' = [supv EXCEPT ![s] = "watch"]
  /\ UNCHANGED <<sess, client, broken, brokenClosed, cancelled, conn, backoff,
                 linkVars, held, got, shown, closing, panicked>>

(* Mutant: the supervisor returns without closing its client.              *)
LeavesOpen(s) ==
  /\ Supervising(s, "watch")
  /\ supv' = [supv EXCEPT ![s] = IF s \in cancelled THEN "exit" ELSE "check"]
  /\ s \in cancelled \/ conn[s] \in signalled
  /\ conn' = [conn EXCEPT ![s] = None]
  /\ UNCHANGED <<sess, sessionVars, backoff, linkVars, callVars, pend, shown,
                 closing, panicked>>

(* Mutant: the select lacks the context's case.                            *)
IgnoresContext(s) ==
  /\ Supervising(s, "watch")
  /\ conn[s] \in signalled
  /\ supv' = [supv EXCEPT ![s] = "check"]
  /\ conn' = [conn EXCEPT ![s] = None]
  /\ UNCHANGED <<sess, sessionVars, backoff, linkVars, callVars, pend, shown,
                 closing, panicked>>

(* The select at the end of the loop: reconnect, or close and return.      *)
Watch(s) ==
  /\ Supervising(s, "watch")
  /\ \/ /\ conn[s] \in signalled
        /\ supv' = [supv EXCEPT ![s] = "check"]
        /\ UNCHANGED live
     \/ /\ s \in cancelled
        /\ supv' = [supv EXCEPT ![s] = "exit"]
        /\ live' = live \ {conn[s]}
  /\ conn' = [conn EXCEPT ![s] = None]
  /\ UNCHANGED <<sess, sessionVars, backoff, signalled, callVars, pend, shown,
                 closing, panicked>>

Supervise(s) ==
  \/ SupvCheck(s) \/ Begin(s) \/ DialOk(s) \/ DialRejected(s) \/ DialError(s)
  \/ BackoffWait(s) \/ Install(s) \/ Announce(s) \/ Watch(s)

-----------------------------------------------------------------------------
(* Manager.Execute by caller c.                                            *)

At(c, label) == pc[c] = label /\ pend[c] = ""

(* Look the session up; with none mapped, connect on demand.               *)
Execute(c) ==
  /\ At(c, "idle")
  /\ held' = [held EXCEPT ![c] = sess]
  /\ pc' = Goto(c, IF sess = None THEN "connect" ELSE "check")
  /\ UNCHANGED <<sess, sessionVars, supvVars, linkVars, got, pend,
                 shown, closing, panicked>>

ExecuteConnect(c) ==
  /\ At(c, "connect")
  /\ ManagerConnect
  /\ pc' = Goto(c, "relook")
  /\ UNCHANGED <<signalled, held, got, pend, shown, closing,
                 panicked>>

(* The second look-up does not test what it finds: without a session,      *)
(* waitReady dereferences nil and the request's goroutine panics.          *)
ExecuteRelook(c) ==
  /\ At(c, "relook")
  /\ held' = [held EXCEPT ![c] = sess]
  /\ pc' = Goto(c, IF sess = None THEN "nil" ELSE "check")
  /\ UNCHANGED <<sess, sessionVars, supvVars, linkVars, got, pend,
                 shown, closing, panicked>>

Ready(s) == client[s] # None /\ status[s] = "connected"

(* One turn of waitReady: the snapshot, and the answer it gives, followed  *)
(* on success by the command line on the console.  A caller that goes on   *)
(* to wait has already captured `changed'.                                 *)
WaitReady(c) ==
  LET s == held[c]
  IN  /\ At(c, "check")
      /\ \/ /\ Ready(s)
            /\ got' = [got EXCEPT ![c] = client[s]]
            /\ pc' = Goto(c, "exec")
         \/ /\ status[s] = "auth_failed"
            /\ pc' = Goto(c, "failed")
            /\ UNCHANGED got
         \/ /\ ~Ready(s) /\ status[s] # "auth_failed"
            /\ pc' = Goto(c, "waiting")
            /\ UNCHANGED got
      /\ UNCHANGED <<sess, sessionVars, supvVars, linkVars, held, pend, shown,
                     closing, panicked>>

(* The request's context ends while waitReady blocks: the browser went     *)
(* away.  The handler sets no limit of its own.                            *)
GiveUp(c) ==
  /\ At(c, "waiting")
  /\ pc' = Goto(c, "failed")
  /\ UNCHANGED <<sess, sessionVars, supvVars, linkVars, held, got, pend,
                 shown, closing, panicked>>

(* client.Execute succeeds; the response is published and recorded.        *)
ExecuteOk(c) ==
  /\ At(c, "exec")
  /\ got[c] \in live
  /\ got' = [got EXCEPT ![c] = None]
  /\ pc' = Goto(c, "ok")
  /\ UNCHANGED <<sess, sessionVars, supvVars, linkVars, held, pend, shown,
                 closing, panicked>>

(* client.Execute fails: the connection was dead, or this exchange failed  *)
(* and the client refuses any other.                                       *)
ExecuteFail(c) ==
  /\ At(c, "exec")
  /\ live' = live \ {got[c]}
  /\ got' = [got EXCEPT ![c] = None]
  /\ pc' = Goto(c, "mark")
  /\ UNCHANGED <<sess, sessionVars, supvVars, signalled, held, pend,
                 shown, closing, panicked>>

(* Mutant: markBroken does not look at brokenClosed.                       *)
HasChannel(s) == broken[s] # None

(* markBroken closes the channel of this connection unless it is closed.   *)
Unsignalled(s) == broken[s] # None /\ ~brokenClosed[s]

(* markBroken's critical section, and the close of the client it took.     *)
(* Closing a closed channel is a panic that ends the process.              *)
MarkBroken(c) ==
  LET s == held[c]
  IN  /\ At(c, "mark")
      /\ client' = [client EXCEPT ![s] = None]
      /\ live' = Hangup(s)
      /\ brokenClosed' = [brokenClosed EXCEPT ![s] = @ \/ Unsignalled(s)]
      /\ signalled' = signalled \cup (IF Unsignalled(s) THEN {broken[s]} ELSE {})
      /\ panicked' = (panicked \/ (Unsignalled(s) /\ broken[s] \in signalled))
      /\ pc' = Goto(c, "markStatus")
      /\ UNCHANGED <<sess, status, lastErr, broken, cancelled, supvVars, held,
                     got, pend, shown, closing>>

(* markBroken's setStatus, under a lock of its own.                        *)
MarkStatus(c) ==
  /\ At(c, "markStatus")
  /\ SetStatus(c, held[c], "disconnected", "exec", Goto(c, "errorLine"))
  /\ UNCHANGED <<sess, client, broken, brokenClosed, cancelled, supvVars,
                 linkVars, held, got, shown, closing, panicked>>

(* Mutant: a failed command is sent again.                                 *)
RetriesCommand(c) ==
  /\ At(c, "errorLine")
  /\ pc' = Goto(c, "check")
  /\ UNCHANGED <<sess, sessionVars, supvVars, linkVars, held, got, pend,
                 shown, closing, panicked>>

(* The failure is published as an error line; a rejected dial or a timeout  *)
(* in waitReady is not.                                                    *)
ErrorLine(c) ==
  /\ At(c, "errorLine")
  /\ pc' = Goto(c, "failed")
  /\ UNCHANGED <<sess, sessionVars, supvVars, linkVars, held, got, pend, shown,
                 closing, panicked>>

(* The API call returns (or its goroutine has panicked).                   *)
Return(c) ==
  /\ pc[c] \in {"ok", "failed", "nil"} /\ pend[c] = ""
  /\ pc' = Goto(c, "idle")
  /\ held' = [held EXCEPT ![c] = None]
  /\ UNCHANGED <<sess, sessionVars, supvVars, linkVars, got, pend, shown,
                 closing, panicked>>

ExecuteStep(c) ==
  \/ ExecuteConnect(c) \/ ExecuteRelook(c) \/ WaitReady(c)
  \/ ExecuteOk(c) \/ ExecuteFail(c)
  \/ MarkBroken(c) \/ MarkStatus(c) \/ ErrorLine(c) \/ Return(c)

-----------------------------------------------------------------------------
(* Manager.Connect and Manager.Disconnect called by the API.               *)

Connect(c) ==
  /\ At(c, "idle")
  /\ ManagerConnect
  /\ UNCHANGED <<signalled, callVars, pend, shown, closing, panicked>>

(* Disconnect unmaps the session under Manager.mu, then stops it and sets  *)
(* its status with the lock released.                                      *)
Disconnect(c) ==
  /\ At(c, "idle")
  /\ sess # None
  /\ sess' = None
  /\ held' = [held EXCEPT ![c] = sess]
  /\ pc' = Goto(c, "stop")
  /\ UNCHANGED <<sessionVars, supvVars, linkVars, got, pend, shown,
                 closing, panicked>>

DisconnectStop(c) ==
  /\ At(c, "stop")
  /\ Stop(held[c])
  /\ pc' = Goto(c, "stopStatus")
  /\ UNCHANGED <<sess, status, lastErr, broken, brokenClosed, supvVars,
                 signalled, held, got, pend, shown, closing,
                 panicked>>

DisconnectStatus(c) ==
  /\ At(c, "stopStatus")
  /\ SetStatus(c, held[c], "disconnected", "", Goto(c, "idle"))
  /\ held' = [held EXCEPT ![c] = None]
  /\ UNCHANGED <<sess, client, broken, brokenClosed, cancelled, supvVars,
                 linkVars, got, shown, closing, panicked>>

DisconnectStep(c) == DisconnectStop(c) \/ DisconnectStatus(c)

-----------------------------------------------------------------------------
(* Manager.Close: cancel every context, stop what is mapped, wait for the  *)
(* supervisors.                                                            *)

CloseCancel ==
  /\ closing = "open"
  /\ closing' = "cancelled"
  /\ cancelled' = Sids
  /\ UNCHANGED <<sess, status, lastErr, client, broken, brokenClosed, supvVars,
                 linkVars, callVars, pend, shown, panicked>>

CloseStop ==
  /\ closing = "cancelled"
  /\ closing' = "stopped"
  /\ sess' = None
  /\ client' = [s \in Sids |-> IF s = sess THEN None ELSE client[s]]
  /\ live' = live \ {client[s] : s \in {sess} \cap Sids}
  /\ UNCHANGED <<status, lastErr, broken, brokenClosed, cancelled, supvVars,
                 signalled, callVars, pend, shown, panicked>>

(* Mutant: Close does not wait for the supervisors.                        *)
WaitsForNobody ==
  /\ closing = "stopped"
  /\ closing' = "closed"
  /\ UNCHANGED <<sess, sessionVars, supvVars, linkVars, callVars, pend, shown,
                 panicked>>

(* wg.Wait: every supervisor has returned, its last line published.        *)
CloseWait ==
  /\ closing = "stopped"
  /\ \A s \in Sids : supv[s] = "exit" /\ pend[s] = ""
  /\ closing' = "closed"
  /\ UNCHANGED <<sess, sessionVars, supvVars, linkVars, callVars, pend, shown,
                 panicked>>

Close == CloseCancel \/ CloseStop \/ CloseWait

-----------------------------------------------------------------------------
(* The environment.                                                        *)

(* A connection dies without anybody using the session noticing: the       *)
(* server closed it, or a discovery probe failed on it, which quietExecute *)
(* does not report to markBroken.                                          *)
LinkDies ==
  /\ \E k \in live : live' = live \ {k}
  /\ UNCHANGED <<sess, sessionVars, supvVars, signalled, callVars, pend, shown,
                 closing, panicked>>

-----------------------------------------------------------------------------
Request(c) == Execute(c) \/ Connect(c) \/ Disconnect(c)

Goroutine(c) == ExecuteStep(c) \/ DisconnectStep(c)

Next ==
  \/ \E s \in Sids : Supervise(s)
  \/ \E c \in Callers : Request(c) \/ Goroutine(c) \/ GiveUp(c)
  \/ \E p \in Callers \cup Sids : Publish(p)
  \/ Close \/ LinkDies

Spec == Init /\ [][Next]_vars

(* What the Go scheduler and the code's own timeouts guarantee: a runnable *)
(* goroutine runs, a dial ends within rcon.DefaultTimeout, an exchange     *)
(* within the client's timeout, a timer fires.  Nothing obliges a user to  *)
(* make a request or to abandon one, the server to change, or a link to    *)
(* die.                                                                    *)
Fairness ==
  /\ \A s \in Sids : WF_vars(Supervise(s))
  /\ \A c \in Callers : WF_vars(Goroutine(c))
  /\ \A p \in Callers \cup Sids : WF_vars(Publish(p))
  /\ WF_vars(CloseStop) /\ WF_vars(CloseWait)

FairSpec == Spec /\ Fairness

-----------------------------------------------------------------------------
(* Types.                                                                  *)
TypeOK ==
  /\ sess \in Sids \cup {None}
  /\ status \in [Sids -> Statuses]
  /\ lastErr \in [Sids -> Errors]
  /\ client \in [Sids -> Conns \cup {None}]
  /\ broken \in [Sids -> Conns \cup {None}]
  /\ brokenClosed \in [Sids -> BOOLEAN]
  /\ cancelled \subseteq Sids
  /\ supv \in [Sids -> SupvPCs]
  /\ conn \in [Sids -> Conns \cup {None}]
  /\ backoff \in [Sids -> Nat]
  /\ live \subseteq Conns
  /\ signalled \subseteq Conns
  /\ pc \in [Callers -> CallPCs]
  /\ held \in [Callers -> Sids \cup {None}]
  /\ got \in [Callers -> Conns \cup {None}]
  /\ pend \in [Callers \cup Sids -> Statuses \cup {""}]
  /\ shown \in Statuses
  /\ closing \in {"open", "cancelled", "stopped", "closed"}
  /\ panicked \in BOOLEAN

(* A goroutine between its look-up and its return holds a session.         *)
Holding == {"check", "waiting", "exec", "mark", "markStatus", "errorLine",
            "stop", "stopStatus"}

HeldOK == \A c \in Callers : pc[c] \in Holding => held[c] \in Sids

(* Where a supervisor owns the connection it dialled.                      *)
Owning == {"install", "announce", "watch"}

(* No goroutine closes a `broken' channel twice: the panic that would take *)
(* the daemon down, guarded in markBroken and reset on every reconnect.    *)
NoDoubleClose == ~panicked

(* A reconnect signal is never lost: as long as a parked supervisor has    *)
(* neither been signalled nor cancelled, the session's fields still lead a *)
(* failing Execute to its connection and to the channel it listens on.     *)
SupervisorReachable ==
  \A s \in Sids :
    /\ supv[s] \in {"announce", "watch"}
    /\ s \notin cancelled
    /\ conn[s] \notin signalled
    => /\ client[s] = conn[s] /\ broken[s] = conn[s]
       /\ ~brokenClosed[s]

(* waitReady misses no transition: no caller is blocked on a session that  *)
(* is ready to take a command, or whose password was refused.              *)
NoLostWakeup ==
  \A c \in Callers :
    pc[c] = "waiting" => /\ ~Ready(held[c])
                         /\ status[held[c]] # "auth_failed"

(* Connections do not leak: one that is open is owned by a supervisor that *)
(* will still close it, and by no other.  After Manager.Close has returned *)
(* none is open.                                                           *)
NoConnectionLeak ==
  /\ \A k \in live : \E s \in Sids : supv[s] \in Owning /\ conn[s] = k
  /\ \A s, t \in Sids : conn[s] = conn[t] /\ conn[s] # None => s = t
  /\ closing = "closed" => live = {}

(* At most one session of the profile is in force: a session that has not  *)
(* been cancelled is the one in the manager's map, or one that Disconnect  *)
(* took out of the map and is about to stop.                               *)
NoOrphanSession ==
  \A s \in Sids :
    s \notin cancelled =>
      s = sess \/ \E c \in Callers : pc[c] = "stop" /\ held[c] = s

(* A command goes out on a connection of the session it was given to, or   *)
(* fails: never on one that another session has dialled since.             *)
ExchangeStaysInSession ==
  \A c \in Callers :
    got[c] \in live => conn[held[c]] = got[c]

(* A refused password is never offered again by the same session, and a    *)
(* supervisor that got through starts its next series of retries from the  *)
(* initial delay, the delay never exceeding the maximum.                   *)
RetryDiscipline ==
  \A s \in Sids :
    /\ status[s] = "auth_failed" => supv[s] = "exit"
    /\ supv[s] \in Owning => backoff[s] = InitialBackoff
    /\ backoff[s] \in InitialBackoff..MaxBackoff

-----------------------------------------------------------------------------
(* The inductive invariant behind these properties.                        *)

Used == Sids \ FreeSids

(* A supervisor has a connection exactly between its dial and the end of   *)
(* its watch, and shares it with no other.                                 *)
OwnerInv ==
  /\ \A s \in Sids : conn[s] # None <=> supv[s] \in Owning
  /\ \A s, t \in Sids : conn[s] = conn[t] /\ conn[s] # None => s = t

(* A connection not installed yet is known to nobody else.                 *)
FreshInv ==
  \A s \in Sids :
    supv[s] = "install" =>
      /\ conn[s] \notin signalled
      /\ \A t \in Used : conn[s] # client[t] /\ conn[s] # broken[t]

(* The guard tells whether the channel it goes with is closed, and two     *)
(* sessions never share a channel.                                         *)
ChannelInv ==
  /\ \A s \in Used :
       broken[s] # None => (brokenClosed[s] <=> broken[s] \in signalled)
  /\ \A s, t \in Used : broken[s] = broken[t] /\ broken[s] # None => s = t

(* The client, when there is one, is the connection the channel was made   *)
(* for, and nobody has signalled its failure yet.                          *)
ClientInv ==
  \A s \in Used :
    client[s] # None => client[s] = broken[s] /\ client[s] \notin signalled

(* What a supervisor watches is what the session's fields name.            *)
WatchInv ==
  \A s \in Sids :
    supv[s] \in {"announce", "watch"} =>
      /\ broken[s] = conn[s]
      /\ conn[s] \in live => client[s] = conn[s]
      /\ s \notin cancelled /\ conn[s] \notin signalled => client[s] = conn[s]

(* Every open connection has its owner.                                    *)
LiveInv == \A k \in live : \E s \in Sids : conn[s] = k

(* A session does not say connected while it is being connected.           *)
AnnounceInv ==
  \A s \in Sids :
    supv[s] \in {"dial", "install", "announce"} => status[s] # "connected"

(* Close cancels everything, and waits for everyone.                       *)
ClosingInv ==
  /\ closing # "open" => cancelled = Sids
  /\ closing = "closed" => \A s \in Sids : supv[s] \notin Owning

(* A caller has a client only during its exchange.                         *)
CallInv == \A c \in Callers : pc[c] # "exec" => got[c] = None

IInv ==
  /\ OwnerInv /\ FreshInv /\ ChannelInv /\ ClientInv /\ WatchInv /\ LiveInv
  /\ AnnounceInv /\ ClosingInv /\ CallInv
  /\ NoDoubleClose /\ NoLostWakeup /\ NoOrphanSession
  /\ ExchangeStaysInSession /\ RetryDiscipline

(* What the API answers for the profile: Manager.Status.                   *)
Status == IF sess = None THEN "disconnected" ELSE status[sess]

-----------------------------------------------------------------------------
(* What the documentation says and the code does not do: each of these is  *)
(* violated, and the run that shows it is a finding.                       *)

(* No goroutine is between a change of the profile's status and the        *)
(* publication of it, or on its way to make one.                           *)
Quiescent ==
  /\ \A p \in Callers \cup Sids : pend[p] = ""
  /\ \A c \in Callers : pc[c] \in {"idle", "waiting"}
  /\ \A s \in Sids : supv[s] \in {"dial", "backoff", "watch", "exit"}

(* "... so the UI reflects reality" (session.go:5): at rest, a supervisor  *)
(* that watches over a working connection is on a session that says it is  *)
(* connected.                                                              *)
ConnectionIsReported ==
  Quiescent =>
    \A s \in Sids \ cancelled :
      supv[s] = "watch" /\ conn[s] \notin signalled => status[s] = "connected"

(* "Every state change is published to the event hub" (session.go:4): at   *)
(* rest, the last line published is the status the API would answer.       *)
StreamShowsStatus == Quiescent => shown = Status

(* "Execute runs a command, connecting on demand if the profile has no     *)
(* session" (session.go:133): it always ends up with a session to wait on. *)
ExecuteHasSession == \A c \in Callers : pc[c] # "nil"

(* "waitReady returns the live client, waiting for a connection if one is  *)
(* being established" (session.go:417): somebody is still establishing it, *)
(* or is about to tell the waiters that nobody will.                       *)
WaiterIsServed ==
  \A c \in Callers :
    pc[c] = "waiting" =>
      \/ supv[held[c]] # "exit"
      \/ \E d \in Callers : held[d] = held[c] /\ pc[d] \in {"stop", "stopStatus"}

-----------------------------------------------------------------------------
(* Liveness, under Fairness.                                               *)

(* Close returns once it has begun: no supervisor outlives it.  The HTTP    *)
(* server has stopped accepting requests by then (serve.go).               *)
NoMoreRequests == <>[][\A c \in Callers : ~Request(c)]_vars

CloseReturns == NoMoreRequests => (closing = "cancelled" ~> closing = "closed")

(* A stopped session's supervisor ends whatever it was doing, and what it  *)
(* holds is closed.                                                        *)
StoppedSupervisorEnds ==
  \A s \in Sids : s \in cancelled ~> supv[s] = "exit"

(* A supervisor never settles without a connection: if its dials get       *)
(* through now and then, it gets through, or is stopped, or was refused.   *)
DialsGetThrough == \A s \in Sids : SF_vars(DialOk(s))

SupervisorReconnects ==
  DialsGetThrough =>
    \A s \in Sids :
      supv[s] \in {"check", "begin", "dial", "backoff"} ~>
        supv[s] = "watch" \/ s \in cancelled \/ status[s] = "auth_failed"

(* Every call that is past waitReady, and every Disconnect, returns; only  *)
(* waitReady itself can hold a caller back.                                *)
CallsReturn ==
  \A c \in Callers : pc[c] \notin {"idle", "waiting"} ~>
                        pc[c] \in {"idle", "waiting"}

=============================================================================
