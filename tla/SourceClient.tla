---------------------------- MODULE SourceClient ----------------------------
(***************************************************************************)
(* One connection of internal/rcon/source/client.go: the AUTH handshake of *)
(* Dial and the Execute calls that share the connection afterwards, each   *)
(* with the goroutine of watchContext beside it, and a server that answers *)
(* requests in order.                                                      *)
(*                                                                         *)
(* A goroutine parked in watchContext's select is committed by the first   *)
(* of its two channels to close; one that has yet to reach the select may  *)
(* find both closed and picks either.  A deadline is represented by who    *)
(* set it: the exchange under way ("ahead" of the clock, then "passed"),   *)
(* or the watcher of a call, to the present.                               *)
(***************************************************************************)
EXTENDS Integers, Sequences

CONSTANTS
  Calls,     \* calls of Client.Execute
  Dialler,   \* the call of Dial that authenticates
  None,      \* no holder of the mutex
  MaxId,     \* math.MaxInt32
  MaxParts   \* bound: packets in a response

Parties == Calls \cup {Dialler}

(* Three identifiers are the fewest with which the two of an exchange are  *)
(* never those of a packet the exchange before it has left unread.         *)
ASSUME ClientAssumption ==
  /\ Dialler \notin Calls /\ None \notin Calls \cup {Dialler}
  /\ MaxId \in Nat /\ MaxId >= 3
  /\ MaxParts \in Nat

VARIABLES
  pc,         \* where each call is
  mu,         \* Client.mu
  nextID,     \* Client.nextID
  broken,     \* Client.broken # nil
  ids,        \* cmdID and sentinelID of each call
  body,       \* what its strings.Builder holds, packet by packet
  watcher,    \* its watchContext goroutine
  cancelled,  \* calls whose context is done
  deadline,   \* the connection's deadline
  link,       \* "up", "eof" (the server is gone) or "closed" (by Close)
  aligned,    \* the next byte to read is the first of a packet
  toServer,   \* requests on the wire
  toClient,   \* replies on the wire
  sent,       \* packets of the reply the server is busy with
  size,       \* packets of the whole reply, per call
  verdict     \* what the server said of the password

callVars   == <<pc, mu, nextID, broken, ids, body>>
watchVars  == <<watcher, cancelled>>
serverVars == <<sent, size, verdict>>
wireVars   == <<link, aligned, toServer, toClient>>
vars == <<callVars, watchVars, deadline, wireVars, serverVars>>

AuthFailedID == -1

Init ==
  /\ pc = [x \in Parties |-> IF x = Dialler THEN "deadline" ELSE "new"]
  /\ mu = None
  /\ nextID = 0
  /\ broken = FALSE
  /\ ids = [x \in Parties |-> <<0, 0>>]
  /\ body = [x \in Parties |-> <<>>]
  /\ watcher = [x \in Parties |-> IF x = Dialler THEN "spawned" ELSE "none"]
  /\ cancelled = {}
  /\ deadline = "ahead"
  /\ link = "up"
  /\ aligned = TRUE
  /\ toServer = <<>>
  /\ toClient = <<>>
  /\ sent = 0
  /\ size = [x \in Parties |-> 0]
  /\ verdict = "none"

-----------------------------------------------------------------------------
(* Mutant: identifiers run past the width of the field.                    *)
NeverWraps(id) == id + 1

(* nextRequestID, as a function of the last one.                           *)
Succ(id) == IF id = MaxId THEN 1 ELSE id + 1

Goto(x, label) == [pc EXCEPT ![x] = label]

(* Mutant: the call returns and its watcher is not told.                   *)
KeepsWatcher(x, result) ==
  /\ pc' = Goto(x, result)
  /\ mu' = None
  /\ UNCHANGED watcher

(* The end of a call that got past its deferred statements: done is        *)
(* closed, which releases the watcher if it is parked, and the mutex given *)
(* back.                                                                   *)
Finish(x, result) ==
  /\ pc' = Goto(x, result)
  /\ mu' = None
  /\ watcher' = [watcher EXCEPT ![x] = IF @ = "parked" THEN "gone" ELSE @]

(* An exchange that fails may leave part of a packet unread.               *)
Fail(x) ==
  /\ Finish(x, "failed")
  /\ broken' = TRUE
  /\ aligned' \in {aligned, FALSE}

Overdue == deadline \notin {"ahead", "none"}

-----------------------------------------------------------------------------
(* Client.Execute.                                                         *)

(* Mutant: a broken client is used again.                                  *)
IgnoresBroken(x) ==
  /\ pc[x] = "new" /\ mu = None /\ pc[Dialler] = "ok"
  /\ mu' = x
  /\ pc' = Goto(x, "deadline")
  /\ watcher' = [watcher EXCEPT ![x] = "spawned"]
  /\ UNCHANGED <<nextID, broken, ids, body, cancelled, deadline, wireVars, serverVars>>

Lock(x) ==
  /\ pc[x] = "new" /\ mu = None /\ pc[Dialler] = "ok"
  /\ \/ /\ broken
        /\ pc' = Goto(x, "refused")
        /\ UNCHANGED <<mu, watcher>>
     \/ /\ ~broken
        /\ mu' = x
        /\ pc' = Goto(x, "deadline")
        /\ watcher' = [watcher EXCEPT ![x] = "spawned"]
  /\ UNCHANGED <<nextID, broken, ids, body, cancelled, deadline, wireVars, serverVars>>

(* Mutant: a context without a deadline of its own leaves none.            *)
LeavesNone(x) ==
  /\ pc[x] = "deadline"
  /\ pc' = Goto(x, "send")
  /\ deadline' = "none"
  /\ UNCHANGED <<mu, nextID, broken, ids, body, watchVars, wireVars, serverVars>>

(* setDeadline; on a closed connection it fails, and the call with it.     *)
SetDeadline(x) ==
  /\ pc[x] = "deadline"
  /\ \/ /\ link # "closed"
        /\ pc' = Goto(x, "send")
        /\ deadline' = "ahead"
        /\ UNCHANGED <<mu, watcher>>
     \/ /\ link = "closed"
        /\ Finish(x, "failed")
        /\ UNCHANGED deadline
  /\ UNCHANGED <<nextID, broken, ids, body, cancelled, wireVars, serverVars>>

(* A write succeeds, or fails: late, or because the link is down.          *)
CanWrite   == ~Overdue /\ link # "closed"
WriteError == Overdue \/ link # "up"

Request(x, n, isSentinel) == [id |-> n, of |-> x, sentinel |-> isSentinel]

Send(x) ==
  LET first == Succ(nextID)
      second == Succ(first)
  IN  /\ pc[x] = "send" /\ x # Dialler
      /\ ids' = [ids EXCEPT ![x] = <<first, second>>]
      /\ nextID' = second
      /\ \/ /\ CanWrite
            /\ toServer' = Append(toServer, Request(x, first, FALSE))
            /\ pc' = Goto(x, "sentinel")
            /\ UNCHANGED <<mu, broken, watcher, aligned>>
         \/ /\ WriteError
            /\ Fail(x)
            /\ UNCHANGED toServer
      /\ UNCHANGED <<body, cancelled, deadline, link, toClient, serverVars>>

SendSentinel(x) ==
  /\ pc[x] = "sentinel"
  /\ \/ /\ CanWrite
        /\ toServer' = Append(toServer, Request(x, ids[x][2], TRUE))
        /\ pc' = Goto(x, "read")
        /\ UNCHANGED <<mu, broken, watcher, aligned>>
     \/ /\ WriteError
        /\ Fail(x)
        /\ UNCHANGED toServer
  /\ UNCHANGED <<nextID, ids, body, cancelled, deadline, link, toClient, serverVars>>

(* What decodePacket can return to a reader: a packet, or an error.        *)
Readable  == ~Overdue /\ link # "closed" /\ toClient # <<>>
ReadError == Overdue \/ link = "closed" \/ (link = "eof" /\ toClient = <<>>)

(* Mutant: a packet that is not of the command ends the response.          *)
StopsAtStray(x) ==
  LET p == Head(toClient)
  IN  /\ pc[x] = "read" /\ x # Dialler /\ Readable
      /\ toClient' = Tail(toClient)
      /\ \/ /\ p.id # ids[x][1]
            /\ Finish(x, "ok")
            /\ UNCHANGED body
         \/ /\ p.id = ids[x][1]
            /\ body' = [body EXCEPT ![x] = Append(@, p.part)]
            /\ UNCHANGED <<pc, mu, watcher>>
      /\ UNCHANGED <<nextID, broken, ids, cancelled, deadline, link, aligned,
                     toServer, serverVars>>

(* One packet: the sentinel's echo ends the response, a packet of the      *)
(* command is part of it, any other is a leftover.                         *)
Read(x) ==
  LET p == Head(toClient)
  IN  /\ pc[x] = "read" /\ x # Dialler /\ Readable
      /\ toClient' = Tail(toClient)
      /\ \/ /\ p.id = ids[x][2]
            /\ Finish(x, "ok")
            /\ UNCHANGED body
         \/ /\ p.id = ids[x][1]
            /\ body' = [body EXCEPT ![x] = Append(@, p.part)]
            /\ UNCHANGED <<pc, mu, watcher>>
         \/ /\ p.id \notin {ids[x][1], ids[x][2]}
            /\ UNCHANGED <<pc, mu, watcher, body>>
      /\ UNCHANGED <<nextID, broken, ids, cancelled, deadline, link, aligned,
                     toServer, serverVars>>

ReadFails(x) ==
  /\ pc[x] = "read" /\ x # Dialler /\ ReadError
  /\ Fail(x)
  /\ UNCHANGED <<nextID, ids, body, cancelled, deadline, link, toServer, toClient,
                 serverVars>>

-----------------------------------------------------------------------------
(* Dial, from the connection on: authenticate, and Close if it fails.      *)
Handshakes(result) ==
  /\ Finish(Dialler, result)
  /\ link' = IF result = "ok" THEN link ELSE "closed"

SendAuth ==
  /\ pc[Dialler] = "send"
  /\ ids' = [ids EXCEPT ![Dialler] = <<Succ(nextID), 0>>]
  /\ nextID' = Succ(nextID)
  /\ \/ /\ CanWrite
        /\ toServer' = Append(toServer, Request(Dialler, Succ(nextID), FALSE))
        /\ pc' = Goto(Dialler, "read")
        /\ UNCHANGED <<mu, watcher, link>>
     \/ /\ WriteError
        /\ Handshakes("failed")
        /\ UNCHANGED toServer
  /\ UNCHANGED <<broken, body, cancelled, deadline, aligned, toClient, serverVars>>

(* Mutant: the handshake does not look at the type of a packet.            *)
TakesNoise ==
  LET p == Head(toClient)
  IN  /\ pc[Dialler] = "read" /\ Readable
      /\ toClient' = Tail(toClient)
      /\ Handshakes(IF p.id = ids[Dialler][1] THEN "ok" ELSE "rejected")
      /\ UNCHANGED <<nextID, broken, ids, body, cancelled, deadline, aligned,
                     toServer, serverVars>>

(* What is no auth response is noise; the id of one is the verdict.        *)
Authenticate ==
  LET p == Head(toClient)
  IN  /\ pc[Dialler] = "read" /\ Readable
      /\ toClient' = Tail(toClient)
      /\ \/ /\ p.part = "noise"
            /\ UNCHANGED <<pc, mu, watcher, link>>
         \/ /\ p.part = "verdict"
            /\ Handshakes(IF p.id = AuthFailedID THEN "rejected"
                          ELSE IF p.id = ids[Dialler][1] THEN "ok" ELSE "failed")
      /\ UNCHANGED <<nextID, broken, ids, body, cancelled, deadline, aligned,
                     toServer, serverVars>>

(* The end of the stream counts as a refusal, any other error does not.    *)
AuthFails ==
  /\ pc[Dialler] = "read" /\ ReadError
  /\ Handshakes(IF ~Overdue /\ link = "eof" THEN "rejected" ELSE "failed")
  /\ UNCHANGED <<nextID, broken, ids, body, cancelled, deadline, aligned, toServer,
                 toClient, serverVars>>

-----------------------------------------------------------------------------
(* watchContext.                                                           *)

(* The goroutine reaches its select.                                       *)
Park(x) ==
  LET done == pc[x] \in {"ok", "failed", "rejected"}
  IN  /\ watcher[x] = "spawned"
      /\ \/ x \in cancelled /\ watcher' = [watcher EXCEPT ![x] = "firing"]
         \/ done /\ watcher' = [watcher EXCEPT ![x] = "gone"]
         \/ x \notin cancelled /\ ~done /\ watcher' = [watcher EXCEPT ![x] = "parked"]
      /\ UNCHANGED <<callVars, cancelled, deadline, wireVars, serverVars>>

(* The context of a call is done: the browser left, or the call returned   *)
(* and its caller released the context.  It matters as long as a watcher   *)
(* is, or is going to be, there to notice.                                 *)
Cancel(x) ==
  /\ x \notin cancelled
  /\ watcher[x] # "gone" /\ pc[x] # "refused"
  /\ cancelled' = cancelled \cup {x}
  /\ watcher' = [watcher EXCEPT ![x] = IF @ = "parked" THEN "firing" ELSE @]
  /\ UNCHANGED <<callVars, deadline, wireVars, serverVars>>

(* SetDeadline(time.Now()).                                                *)
Fire(x) ==
  /\ watcher[x] = "firing"
  /\ watcher' = [watcher EXCEPT ![x] = "gone"]
  /\ deadline' = x
  /\ UNCHANGED <<callVars, cancelled, wireVars, serverVars>>

-----------------------------------------------------------------------------
(* Time, the network and the server.                                       *)

DeadlinePasses ==
  /\ deadline = "ahead"
  /\ deadline' = "passed"
  /\ UNCHANGED <<callVars, watchVars, wireVars, serverVars>>

(* The session closes the connection, once Dial has returned it.           *)
Close ==
  /\ pc[Dialler] = "ok" /\ link # "closed"
  /\ link' = "closed"
  /\ UNCHANGED <<callVars, watchVars, deadline, aligned, toServer, toClient, serverVars>>

ServerGone ==
  /\ link = "up"
  /\ link' = "eof"
  /\ UNCHANGED <<callVars, watchVars, deadline, aligned, toServer, toClient, serverVars>>

Reply(r, part) == [id |-> r.id, of |-> r.of, part |-> part]

(* The server at the head of its queue: noise and a verdict, a command's   *)
(* packets, or a sentinel's echo, part of nothing, which Valve servers     *)
(* send twice.                                                             *)
Serving == link = "up" /\ toServer # <<>>

ServerAuth ==
  LET r == Head(toServer)
  IN  /\ Serving /\ r.of = Dialler
      /\ \/ /\ sent = 0
            /\ sent' = 1
            /\ toClient' = Append(toClient, Reply(r, "noise"))
            /\ UNCHANGED <<toServer, verdict>>
         \/ /\ \/ verdict' = "yes" /\ toClient' = Append(toClient, Reply(r, "verdict"))
               \/ /\ verdict' = "no"
                  /\ toClient' = Append(toClient, [Reply(r, "verdict") EXCEPT !.id = AuthFailedID])
            /\ sent' = 0
            /\ toServer' = Tail(toServer)
      /\ UNCHANGED <<callVars, watchVars, deadline, link, aligned, size>>

ServerReply ==
  LET r == Head(toServer)
  IN  /\ Serving /\ r.of # Dialler /\ ~r.sentinel
      /\ \/ /\ sent < MaxParts
            /\ sent' = sent + 1
            /\ toClient' = Append(toClient, Reply(r, sent + 1))
            /\ UNCHANGED <<toServer, size>>
         \/ /\ sent' = 0
            /\ size' = [size EXCEPT ![r.of] = sent]
            /\ toServer' = Tail(toServer)
            /\ UNCHANGED toClient
      /\ UNCHANGED <<callVars, watchVars, deadline, link, aligned, verdict>>

ServerEcho ==
  LET echo == Reply(Head(toServer), 0)
  IN  /\ Serving /\ Head(toServer).sentinel
      /\ toClient' \in {toClient \o <<echo>>, toClient \o <<echo, echo>>}
      /\ toServer' = Tail(toServer)
      /\ UNCHANGED <<callVars, watchVars, deadline, link, aligned, serverVars>>

-----------------------------------------------------------------------------
Exchange(x) ==
  \/ Lock(x) \/ SetDeadline(x) \/ Send(x) \/ SendSentinel(x) \/ Read(x) \/ ReadFails(x)

Handshake == SetDeadline(Dialler) \/ SendAuth \/ Authenticate \/ AuthFails

Watch(x) == Park(x) \/ Fire(x)

Next ==
  \/ \E x \in Calls : Exchange(x)
  \/ Handshake
  \/ \E x \in Parties : Watch(x) \/ Cancel(x)
  \/ DeadlinePasses \/ Close \/ ServerGone
  \/ ServerAuth \/ ServerReply \/ ServerEcho

Spec == Init /\ [][Next]_vars

(* Goroutines that can run do, and clocks advance; a context need not      *)
(* end, and the server need not answer.                                    *)
Fairness ==
  /\ \A x \in Calls : WF_vars(Exchange(x))
  /\ WF_vars(Handshake)
  /\ \A x \in Parties : WF_vars(Watch(x))
  /\ WF_vars(DeadlinePasses)

FairSpec == Spec /\ Fairness

-----------------------------------------------------------------------------
Ended == {"ok", "failed", "refused", "rejected"}

TypeOK ==
  /\ pc \in [Parties -> {"new", "deadline", "send", "sentinel", "read"} \cup Ended]
  /\ mu \in Calls \cup {None}
  /\ nextID \in 0..MaxId
  /\ broken \in BOOLEAN
  /\ ids \in [Parties -> (0..MaxId) \X (0..MaxId)]
  /\ watcher \in [Parties -> {"none", "spawned", "parked", "firing", "gone"}]
  /\ cancelled \subseteq Parties
  /\ deadline \in {"ahead", "passed"} \cup Parties
  /\ link \in {"up", "eof", "closed"}
  /\ aligned \in BOOLEAN
  /\ sent \in Nat
  /\ size \in [Parties -> Nat]
  /\ verdict \in {"none", "yes", "no"}

(* A response is all of the reply to its own command and nothing else,     *)
(* whatever earlier exchanges left on the wire.                            *)
WholeResponse ==
  \A x \in Calls : pc[x] = "ok" => body[x] = [i \in 1..size[x] |-> i]

(* A password counts as accepted only when the server has said so.         *)
AcceptedByServer == pc[Dialler] = "ok" => verdict = "yes"

(* Nothing is read from a stream that has lost its place.                  *)
AlignedReads == \A x \in Calls : pc[x] \in {"send", "sentinel", "read"} => aligned

(* Dial returns, and then so does every call that gets the connection and  *)
(* everyone waiting for it: time alone is enough.                          *)
CallsEnd ==
  <>(pc[Dialler] \in Ended /\ (pc[Dialler] = "ok" => \A x \in Calls : pc[x] \in Ended))

(* No watcher is leaked: those of the calls that have returned end too.    *)
WatchersEnd ==
  <>[](\A x \in Parties : pc[x] \in Ended => watcher[x] \in {"none", "gone"})

-----------------------------------------------------------------------------
(* "setDeadline bounds the exchange by the client timeout, or by the       *)
(* context's deadline" (client.go:288-289): what ends an exchange early is *)
(* its own context.                                                        *)
OwnDeadline ==
  \A x \in Calls :
    pc[x] \in {"send", "sentinel", "read"} => deadline \in {"ahead", "passed", x}

-----------------------------------------------------------------------------
(* The inductive invariant behind the safety properties.                   *)

Requests == [id : 1..MaxId, of : Parties, sentinel : BOOLEAN]

Replies ==
  [id : Int, of : {Dialler}, part : {"noise", "verdict"}] \cup
  [id : Int, of : Calls, part : Nat]

WireInv ==
  /\ toServer \in Seq(Requests) /\ toClient \in Seq(Replies)
  /\ body \in [Parties -> Seq(Nat)]

(* One call at a time, after the handshake.                                *)
MutexInv ==
  /\ pc[Dialler] \in {"deadline", "send", "read", "ok", "failed", "rejected"}
  /\ \A x \in Calls :
       /\ pc[x] \in {"deadline", "send", "sentinel", "read"} <=> mu = x
       /\ pc[x] # "new" => pc[Dialler] = "ok"
       /\ pc[x] \in {"new", "deadline", "send"} => body[x] = <<>>

(* Whoever holds the mutex has a stream that is in its place.              *)
BrokenInv == (mu # None => ~broken) /\ (~broken => aligned)

(* The handshake: a request, noise, and a verdict at the end.              *)
AuthInv ==
  /\ pc[Dialler] \in {"deadline", "send"} =>
       toServer = <<>> /\ toClient = <<>> /\ sent = 0
  /\ pc[Dialler] = "read" =>
       \/ /\ Len(toServer) = 1 /\ toServer[1].of = Dialler /\ ~toServer[1].sentinel
          /\ \A i \in DOMAIN toClient : toClient[i].part = "noise"
       \/ /\ toServer = <<>> /\ sent = 0 /\ toClient # <<>>
          /\ \A i \in 1..Len(toClient) - 1 : toClient[i].part = "noise"
          /\ toClient[Len(toClient)].part = "verdict"
          /\ toClient[Len(toClient)].id # AuthFailedID => verdict = "yes"
  /\ pc[Dialler] \in {"failed", "rejected"} => link = "closed"

(* What the server has still to answer after that.                         *)
RequestInv ==
  pc[Dialler] = "ok" =>
    \A i \in DOMAIN toServer :
      toServer[i].of \in Calls /\ pc[toServer[i].of] \in {"sentinel", "read", "failed"}

(* Between exchanges there is at most one packet left, an echo of the last *)
(* sentinel.                                                               *)
IdleInv ==
  pc[Dialler] = "ok" /\ ~broken
    /\ (\A x \in Calls : pc[x] \notin {"sentinel", "read"})
  => /\ toServer = <<>> /\ sent = 0 /\ Len(toClient) <= 1
     /\ toClient # <<>> => toClient[1].id = nextID

(* The server is busy with the command of the exchange under way.          *)
Busy == toServer # <<>> /\ ~toServer[1].sentinel

(* Packets of the reply that have been sent so far.                        *)
Produced(x) == IF Busy THEN sent ELSE size[x]

(* The wire to the client: what another exchange has left, the packets of  *)
(* the reply that have not been read, and the sentinel's echoes.           *)
OnWire(x, left, echoes) ==
  LET read   == Len(body[x])
      unread == Produced(x) - read IN
  /\ unread >= 0 /\ Len(toClient) = left + unread + echoes
  /\ echoes > 0 => toServer = <<>> /\ pc[x] = "read"
  /\ \A i \in 1..left : toClient[i].id \notin {ids[x][1], ids[x][2]}
  /\ \A i \in left + 1..left + unread :
       toClient[i].id = ids[x][1] /\ toClient[i].part = read + i - left
  /\ \A i \in left + unread + 1..left + unread + echoes : toClient[i].id = ids[x][2]

Command(x)  == Request(x, ids[x][1], FALSE)
Sentinel(x) == Request(x, ids[x][2], TRUE)

UnderWay(x) ==
  /\ ids[x][1] # ids[x][2] /\ ids[x][2] # 0 /\ nextID = ids[x][2]
  /\ body[x] = [i \in 1..Len(body[x]) |-> i]
  /\ ~Busy => sent = 0
  /\ pc[x] = "sentinel" => toServer \in {<<>>, <<Command(x)>>}
  /\ pc[x] = "read" => toServer \in {<<>>, <<Sentinel(x)>>, <<Command(x), Sentinel(x)>>}
  /\ \E left \in 0..1, echoes \in 0..2 : OnWire(x, left, echoes)

ExchangeInv == \A x \in Calls : pc[x] \in {"sentinel", "read"} => UnderWay(x)

ClientInv ==
  /\ TypeOK /\ WireInv /\ MutexInv /\ BrokenInv /\ AuthInv /\ RequestInv
  /\ IdleInv /\ ExchangeInv /\ AcceptedByServer /\ WholeResponse

=============================================================================
