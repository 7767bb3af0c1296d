------------------------- MODULE SourceClientProofs -------------------------
(* The safety of one connection, for any number of calls, identifiers and  *)
(* packets.                                                                *)
EXTENDS SourceClient, SequenceTheorems, TLAPS

(* A sequence without its first element.                                   *)
LEMMA TailIs ==
  ASSUME NEW S, NEW s \in Seq(S), s # <<>>
  PROVE  /\ Len(s) \in Nat /\ Len(s) >= 1 /\ DOMAIN s = 1..Len(s)
         /\ Head(s) = s[1] /\ s[1] \in S
         /\ Tail(s) \in Seq(S) /\ Len(Tail(s)) = Len(s) - 1
         /\ DOMAIN Tail(s) = 1..Len(s) - 1
         /\ \A i \in 1..Len(s) - 1 : Tail(s)[i] = s[i + 1]
<1>1. Len(s) \in Nat \ {0}
  BY EmptySeq
<1>2. DOMAIN s = 1..Len(s) /\ s \in [1..Len(s) -> S]
  BY LenProperties
<1>3. Tail(s) \in Seq(S) /\ Len(Tail(s)) = Len(s) - 1
      /\ \A i \in 1..Len(Tail(s)) : Tail(s)[i] = s[i + 1]
  BY HeadTailProperties
<1>4. DOMAIN Tail(s) = 1..Len(Tail(s))
  BY <1>3, LenProperties
<1> QED BY <1>1, <1>2, <1>3, <1>4

(* A sequence with one element more.                                       *)
LEMMA AppendIs ==
  ASSUME NEW S, NEW s \in Seq(S), NEW e \in S
  PROVE  /\ Len(s) \in Nat /\ DOMAIN s = 1..Len(s)
         /\ Append(s, e) \in Seq(S) /\ Append(s, e) # <<>>
         /\ Len(Append(s, e)) = Len(s) + 1
         /\ DOMAIN Append(s, e) = 1..Len(s) + 1
         /\ \A i \in 1..Len(s) : Append(s, e)[i] = s[i]
         /\ Append(s, e)[Len(s) + 1] = e
<1>1. Len(s) \in Nat /\ DOMAIN s = 1..Len(s)
  BY LenProperties
<1>2. Append(s, e) \in Seq(S) /\ Len(Append(s, e)) = Len(s) + 1
  BY AppendProperties
<1>3. DOMAIN Append(s, e) = 1..Len(Append(s, e))
  BY <1>2, LenProperties
<1> QED BY <1>1, <1>2, <1>3, AppendProperties

(* A sequence of two.                                                      *)
LEMMA AppendPair ==
  ASSUME NEW a, NEW b
  PROVE  Append(<<a>>, b) = <<a, b>>
<1>1. <<a>> \in Seq({a, b}) /\ <<a, b>> \in Seq({a, b})
  OBVIOUS
<1>2. /\ Append(<<a>>, b) \in Seq({a, b}) /\ Len(Append(<<a>>, b)) = 2
      /\ Append(<<a>>, b)[1] = a /\ Append(<<a>>, b)[2] = b
  BY <1>1, AppendProperties
<1>3. Len(<<a, b>>) = 2 /\ <<a, b>>[1] = a /\ <<a, b>>[2] = b
  OBVIOUS
<1>4. \A i \in 1..2 : Append(<<a>>, b)[i] = <<a, b>>[i]
  <2>1. \A i \in 1..2 : i = 1 \/ i = 2
    OBVIOUS
  <2> QED BY <1>2, <1>3, <2>1
<1>5. \A s, t \in Seq({a, b}) :
        Len(s) = Len(t) /\ (\A i \in 1..Len(s) : s[i] = t[i]) => s = t
  BY SeqEqual
<1> QED BY ONLY <1>1, <1>2, <1>3, <1>4, <1>5, Zenon

(* What is left of two is the second.                                      *)
LEMMA TailPair ==
  ASSUME NEW a, NEW b
  PROVE  Tail(<<a, b>>) = <<b>>
<1>1. <<b>> \in Seq({a, b}) /\ <<a, b>> \in Seq({a, b}) /\ <<a, b>> # <<>>
  OBVIOUS
<1>2. Len(<<a, b>>) = 2 /\ <<a, b>>[2] = b /\ Len(<<b>>) = 1 /\ <<b>>[1] = b
  OBVIOUS
<1>3. /\ Tail(<<a, b>>) \in Seq({a, b}) /\ Len(Tail(<<a, b>>)) = 1
      /\ Tail(<<a, b>>)[1] = b
  BY <1>1, <1>2, HeadTailProperties
<1>4. \A i \in 1..1 : Tail(<<a, b>>)[i] = <<b>>[i]
  <2>1. \A i \in 1..1 : i = 1
    OBVIOUS
  <2> QED BY <1>2, <1>3, <2>1
<1>5. \A s, t \in Seq({a, b}) :
        Len(s) = Len(t) /\ (\A i \in 1..Len(s) : s[i] = t[i]) => s = t
  BY SeqEqual
<1> QED BY ONLY <1>1, <1>2, <1>3, <1>4, <1>5, Zenon

(* While a call is at work the connection is its own and in its place.     *)
LEMMA Alone ==
  ASSUME ClientInv, NEW x \in Calls,
         pc[x] \in {"deadline", "send", "sentinel", "read"}
  PROVE  /\ mu = x /\ pc[Dialler] = "ok" /\ ~broken /\ aligned
         /\ \A y \in Calls \ {x} : pc[y] \notin {"deadline", "send", "sentinel", "read"}
<1>1. mu = x /\ pc[Dialler] = "ok"
  BY DEF ClientInv, MutexInv
<1>2. mu # None
  BY <1>1, ClientAssumption
<1> QED BY <1>1, <1>2 DEF ClientInv, MutexInv, BrokenInv

(* Until the handshake has ended well no call has done anything.           *)
LEMMA NotYet ==
  ASSUME ClientInv, pc[Dialler] # "ok"
  PROVE  mu = None /\ \A x \in Calls : pc[x] = "new"
BY DEF ClientInv, MutexInv, TypeOK

(* An exchange which a step has nothing to do with.                        *)
LEMMA SameExchange ==
  ASSUME NEW x \in Calls, UnderWay(x),
         pc'[x] = pc[x], ids'[x] = ids[x], body'[x] = body[x], size'[x] = size[x],
         UNCHANGED <<nextID, sent, toServer, toClient>>
  PROVE  UnderWay(x)'
<1>1. Busy' = Busy /\ Produced(x)' = Produced(x)
      /\ Command(x)' = Command(x) /\ Sentinel(x)' = Sentinel(x)
  BY DEF Busy, Produced, Command, Sentinel, Request
<1>2. ASSUME NEW left \in 0..1, NEW echoes \in 0..2, OnWire(x, left, echoes)
      PROVE  OnWire(x, left, echoes)'
  BY <1>1, <1>2 DEF OnWire
<1> QED BY <1>1, <1>2 DEF UnderWay

(* A step that leaves the calls, the wire and the server's progress alone. *)
LEMMA Elsewhere ==
  ASSUME ClientInv, TypeOK', link = "closed" => link' = "closed",
         UNCHANGED <<callVars, serverVars, aligned, toServer, toClient>>
  PROVE  ClientInv'
<1> USE DEF ClientInv, callVars, serverVars
<1>1. WireInv' /\ MutexInv' /\ BrokenInv' /\ RequestInv' /\ IdleInv'
  BY DEF WireInv, MutexInv, BrokenInv, RequestInv, IdleInv
<1>2. AuthInv'
  BY DEF AuthInv
<1>3. ExchangeInv'
  BY SameExchange DEF ExchangeInv
<1>4. AcceptedByServer' /\ WholeResponse'
  BY DEF AcceptedByServer, WholeResponse
<1> QED BY <1>1, <1>2, <1>3, <1>4

-----------------------------------------------------------------------------
(* Taking the mutex.                                                       *)
LEMMA LockStep ==
  ASSUME ClientInv, NEW x \in Calls, Lock(x)
  PROVE  ClientInv'
<1> USE ClientAssumption DEF ClientInv, Lock, Goto, wireVars, serverVars, Parties
<1>1. TypeOK'
  BY DEF TypeOK, Ended
<1>2. WireInv' /\ BrokenInv' /\ AcceptedByServer'
  BY DEF TypeOK, WireInv, BrokenInv, AcceptedByServer
<1>3. MutexInv'
  BY DEF TypeOK, MutexInv
<1>4. AuthInv' /\ WholeResponse'
  BY DEF TypeOK, AuthInv, WholeResponse
<1>5. RequestInv'
  BY DEF TypeOK, RequestInv
<1>6. IdleInv'
  BY DEF TypeOK, IdleInv
<1>7. ExchangeInv'
  BY SameExchange DEF TypeOK, ExchangeInv
<1> QED BY <1>1, <1>2, <1>3, <1>4, <1>5, <1>6, <1>7

(* Before the exchange, in a call and in the handshake.                    *)
LEMMA SetDeadlineStep ==
  ASSUME ClientInv, NEW x \in Parties, SetDeadline(x)
  PROVE  ClientInv'
<1> USE ClientAssumption
    DEF ClientInv, SetDeadline, Goto, Finish, wireVars, serverVars, Parties
<1>1. TypeOK'
  BY DEF TypeOK, Ended
<1>2. WireInv' /\ AcceptedByServer'
  BY DEF TypeOK, WireInv, AcceptedByServer
<1>3. MutexInv' /\ BrokenInv'
  BY NotYet DEF TypeOK, MutexInv, BrokenInv
<1>4. AuthInv'
  BY DEF TypeOK, AuthInv
<1>5. WholeResponse'
  BY DEF TypeOK, WholeResponse
<1>6. RequestInv'
  BY DEF TypeOK, RequestInv
<1>7. IdleInv'
  BY DEF TypeOK, IdleInv
<1>8. ExchangeInv'
  BY SameExchange DEF TypeOK, ExchangeInv
<1> QED BY <1>1, <1>2, <1>3, <1>4, <1>5, <1>6, <1>7, <1>8

(* An exchange that fails, wherever it is.                                 *)
LEMMA FailStep ==
  ASSUME ClientInv, TypeOK', NEW x \in Calls,
         pc[x] \in {"send", "sentinel", "read"}, Fail(x),
         UNCHANGED <<body, link, toServer, toClient, serverVars>>
  PROVE  ClientInv'
<1> USE ClientAssumption DEF ClientInv, Fail, Finish, Goto, serverVars, Parties
<1>1. /\ mu = x /\ pc[Dialler] = "ok"
      /\ \A y \in Calls \ {x} : pc[y] \notin {"deadline", "send", "sentinel", "read"}
  BY Alone
<1>2. pc' = [pc EXCEPT ![x] = "failed"] /\ mu' = None /\ broken'
  OBVIOUS
<1>3. WireInv' /\ AcceptedByServer' /\ BrokenInv'
  BY <1>2 DEF TypeOK, WireInv, AcceptedByServer, BrokenInv
<1>4. MutexInv'
  BY <1>1, <1>2 DEF TypeOK, MutexInv
<1>5. AuthInv' /\ IdleInv'
  BY <1>1, <1>2 DEF TypeOK, AuthInv, IdleInv
<1>6. RequestInv' /\ WholeResponse'
  BY <1>1, <1>2 DEF TypeOK, RequestInv, WholeResponse
<1>7. ExchangeInv'
  BY <1>1, <1>2 DEF TypeOK, ExchangeInv
<1> QED BY <1>3, <1>4, <1>5, <1>6, <1>7

(* The identifiers of an exchange differ from each other and from the one  *)
(* that was used before them.                                              *)
LEMMA Identifiers ==
  ASSUME NEW id \in 0..MaxId
  PROVE  /\ Succ(id) \in 1..MaxId /\ Succ(Succ(id)) \in 1..MaxId
         /\ Succ(id) # Succ(Succ(id)) /\ id # Succ(id) /\ id # Succ(Succ(id))
BY ClientAssumption DEF Succ

(* The command is sent, with what the exchange before has left on the wire.*)
LEMMA SendStep ==
  ASSUME ClientInv, NEW x \in Calls, Send(x)
  PROVE  ClientInv'
<1> USE ClientAssumption DEF ClientInv, serverVars, Parties
<1> DEFINE first == Succ(nextID)
           second == Succ(first)
           cmd == Request(x, first, FALSE)
<1>1. /\ mu = x /\ pc[x] = "send" /\ pc[Dialler] = "ok" /\ ~broken
      /\ \A y \in Calls \ {x} : pc[y] \notin {"deadline", "send", "sentinel", "read"}
  BY Alone DEF Send
<1>2. /\ first \in 1..MaxId /\ second \in 1..MaxId
      /\ first # second /\ nextID # first /\ nextID # second
  BY Identifiers DEF TypeOK
<1>3. nextID' = second /\ ids' = [ids EXCEPT ![x] = <<first, second>>]
  BY DEF Send
<1>4. nextID' \in 0..MaxId /\ ids' \in [Parties -> (0..MaxId) \X (0..MaxId)]
  BY <1>2, <1>3 DEF TypeOK
<1>5. CASE Fail(x)
  <2>1. TypeOK'
    BY <1>4, <1>5 DEF Send, TypeOK, Fail, Finish, Goto, Ended
  <2>2. UNCHANGED <<body, link, toServer, toClient, serverVars>>
    BY <1>5 DEF Send, Fail, Finish, Goto, TypeOK
  <2> QED BY <1>1, <1>5, <2>1, <2>2, FailStep
<1>6. CASE ~Fail(x)
  <2>1. /\ toServer' = Append(toServer, cmd)
        /\ pc' = [pc EXCEPT ![x] = "sentinel"]
        /\ UNCHANGED <<mu, broken, watcher, aligned, body, cancelled, deadline,
                       link, toClient, serverVars>>
    BY <1>6 DEF Send, Goto
  <2>2. TypeOK'
    BY <1>4, <2>1 DEF TypeOK, Ended
  <2>3. /\ toServer = <<>> /\ sent = 0 /\ Len(toClient) <= 1
        /\ toClient # <<>> => toClient[1].id = nextID
    BY <1>1 DEF IdleInv
  <2>4. cmd \in Requests
    BY <1>2 DEF Requests, Request
  <2>5. /\ toServer' \in Seq(Requests) /\ Len(toServer') = 1 /\ toServer'[1] = cmd
        /\ toServer' = <<cmd>> /\ DOMAIN toServer' = {1}
    <3> HIDE DEF cmd
    <3>1. toServer' = <<cmd>>
      BY <2>1, <2>3
    <3>2. /\ toServer' \in Seq(Requests) /\ Len(toServer') = 1
          /\ toServer'[1] = cmd /\ DOMAIN toServer' = 1..1
      BY <2>1, <2>3, <2>4, AppendIs, EmptySeq DEF WireInv
    <3> QED BY <3>1, <3>2
  <2>6. WireInv' /\ AcceptedByServer' /\ BrokenInv'
    BY <2>1, <2>5 DEF TypeOK, WireInv, AcceptedByServer, BrokenInv
  <2>7. MutexInv'
    BY <1>1, <2>1 DEF TypeOK, MutexInv
  <2>8. AuthInv' /\ WholeResponse' /\ IdleInv'
    BY <1>1, <2>1 DEF TypeOK, AuthInv, WholeResponse, IdleInv
  <2>9. RequestInv'
    BY <1>1, <2>1, <2>5 DEF TypeOK, RequestInv, Request
  <2>10. UnderWay(x)'
    <3>1. ids'[x] = <<first, second>> /\ ids'[x][1] = first /\ ids'[x][2] = second
      BY <1>3 DEF TypeOK
    <3>2. body'[x] = <<>> /\ pc'[x] = "sentinel"
      BY <1>1, <2>1 DEF MutexInv, TypeOK
    <3>3. Busy' /\ Produced(x)' = 0
      BY <2>1, <2>3, <2>5 DEF Busy, Produced, Request
    <3>4. Command(x)' = cmd
      BY <3>1 DEF Command
    <3>5. PICK left \in 0..1 : left = Len(toClient)
      <4>1. Len(toClient) \in Nat
        BY LenProperties DEF WireInv
      <4> QED BY <2>3, <4>1
    <3>6. \A i \in 1..left : toClient[i].id = nextID
      BY <2>3, <3>5
    <3>7. OnWire(x, left, 0)'
      BY <1>2, <2>1, <3>1, <3>2, <3>3, <3>5, <3>6 DEF OnWire
    <3>8. body'[x] = [i \in 1..Len(body'[x]) |-> i]
      <4>1. Len(body'[x]) = 0
        BY <3>2
      <4> QED BY <3>2, <4>1
    <3>9. \E l \in 0..1, e \in 0..2 : OnWire(x, l, e)'
      BY <3>7
    <3>10. ids'[x][1] # ids'[x][2] /\ ids'[x][2] # 0 /\ nextID' = ids'[x][2]
      BY <1>2, <1>3, <3>1
    <3> HIDE DEF first, second, cmd
    <3> QED BY <2>5, <3>2, <3>3, <3>4, <3>8, <3>9, <3>10 DEF UnderWay
  <2>11. ExchangeInv'
    BY <1>1, <2>1, <2>10 DEF TypeOK, ExchangeInv
  <2> QED BY <2>2, <2>6, <2>7, <2>8, <2>9, <2>11
<1> QED BY <1>5, <1>6

(* The sentinel is sent after it.                                          *)
LEMMA SendSentinelStep ==
  ASSUME ClientInv, NEW x \in Calls, SendSentinel(x)
  PROVE  ClientInv'
<1> USE ClientAssumption DEF ClientInv, serverVars, Parties
<1>1. /\ mu = x /\ pc[x] = "sentinel" /\ pc[Dialler] = "ok" /\ ~broken
      /\ \A y \in Calls \ {x} : pc[y] \notin {"deadline", "send", "sentinel", "read"}
  BY Alone DEF SendSentinel
<1>2. CASE Fail(x)
  <2>1. TypeOK'
    BY <1>2 DEF SendSentinel, TypeOK, Fail, Finish, Goto, Ended
  <2>2. UNCHANGED <<body, link, toServer, toClient, serverVars>>
    BY <1>2 DEF SendSentinel, Fail, Finish, Goto, TypeOK
  <2> QED BY <1>1, <1>2, <2>1, <2>2, FailStep
<1>3. CASE ~Fail(x)
  <2>1. /\ toServer' = Append(toServer, Sentinel(x))
        /\ pc' = [pc EXCEPT ![x] = "read"]
        /\ UNCHANGED <<mu, nextID, broken, ids, watcher, aligned, body, cancelled,
                       deadline, link, toClient, serverVars>>
    BY <1>3 DEF SendSentinel, Goto, Sentinel
  <2>2. TypeOK'
    BY <2>1 DEF TypeOK, Ended
  <2>3. UnderWay(x) /\ toServer \in {<<>>, <<Command(x)>>}
    BY <1>1 DEF ExchangeInv, UnderWay
  <2>4. Sentinel(x) \in Requests /\ Sentinel(x).of = x /\ Sentinel(x).sentinel
    <3>1. ids[x][2] \in 0..MaxId
      BY DEF TypeOK
    <3>2. ids[x][2] # 0
      BY <2>3 DEF UnderWay
    <3> QED BY <3>1, <3>2 DEF Sentinel, Request, Requests
  <2>5. /\ toServer' \in Seq(Requests) /\ toServer' # <<>>
        /\ toServer' \in {<<Sentinel(x)>>, <<Command(x), Sentinel(x)>>}
        /\ \A i \in DOMAIN toServer' : toServer'[i].of = x
    <3>1. toServer' \in Seq(Requests) /\ toServer' # <<>>
      <4>1. toServer \in Seq(Requests) /\ Sentinel(x) \in Requests
        BY <2>4 DEF WireInv
      <4> QED BY ONLY <2>1, <4>1, AppendIs
    <3>2. toServer' \in {<<Sentinel(x)>>, <<Command(x), Sentinel(x)>>}
      <4>1. CASE toServer = <<>>
        BY ONLY <2>1, <4>1
      <4>2. CASE toServer = <<Command(x)>>
        BY ONLY <2>1, <4>2, AppendPair
      <4> QED BY <2>3, <4>1, <4>2
    <3>3. Command(x).of = x
      BY DEF Command, Request
    <3> QED BY <2>4, <3>1, <3>2, <3>3
  <2>6. WireInv' /\ AcceptedByServer' /\ BrokenInv'
    BY <2>1, <2>5 DEF TypeOK, WireInv, AcceptedByServer, BrokenInv
  <2>7. MutexInv'
    BY <1>1, <2>1 DEF TypeOK, MutexInv
  <2>8. AuthInv' /\ WholeResponse' /\ IdleInv'
    BY <1>1, <2>1 DEF TypeOK, AuthInv, WholeResponse, IdleInv
  <2>9. RequestInv'
    BY <1>1, <2>1, <2>5 DEF TypeOK, RequestInv
  <2>10. UnderWay(x)'
    <3>1. Command(x)' = Command(x) /\ Sentinel(x)' = Sentinel(x)
      BY <2>1 DEF Command, Sentinel
    <3>2. ~Command(x).sentinel
      BY DEF Command, Request
    <3>3. Busy' = Busy /\ Produced(x)' = Produced(x)
      BY <2>1, <2>3, <2>4, <2>5, <3>2 DEF Busy, Produced
    <3>4. PICK left \in 0..1, echoes \in 0..2 : OnWire(x, left, echoes)
      BY <2>3 DEF UnderWay
    <3>5. echoes = 0
      BY <1>1, <3>4 DEF OnWire
    <3>6. OnWire(x, left, echoes)'
      BY <2>1, <3>3, <3>4, <3>5 DEF OnWire
    <3>7. pc'[x] = "read"
      BY <2>1 DEF TypeOK
    <3> QED BY <2>1, <2>3, <2>5, <3>1, <3>3, <3>6, <3>7 DEF UnderWay
  <2>11. ExchangeInv'
    BY <1>1, <2>1, <2>10 DEF TypeOK, ExchangeInv
  <2> QED BY <2>2, <2>6, <2>7, <2>8, <2>9, <2>11
<1> QED BY <1>2, <1>3

(* A packet is read: the end of the response, part of it, or a leftover.   *)
LEMMA ReadStep ==
  ASSUME ClientInv, NEW x \in Calls, Read(x)
  PROVE  ClientInv'
<1> USE ClientAssumption DEF ClientInv, serverVars, Parties
<1> DEFINE p == Head(toClient)
<1>1. /\ mu = x /\ pc[x] = "read" /\ pc[Dialler] = "ok" /\ ~broken
      /\ \A y \in Calls \ {x} : pc[y] \notin {"deadline", "send", "sentinel", "read"}
  BY Alone DEF Read
<1>2. /\ toClient' = Tail(toClient)
      /\ UNCHANGED <<nextID, broken, ids, cancelled, deadline, link, aligned,
                     toServer, serverVars>>
  BY DEF Read
<1>3. UnderWay(x)
  BY <1>1 DEF ExchangeInv
<1>4. PICK left \in 0..1, echoes \in 0..2 : OnWire(x, left, echoes)
  BY <1>3 DEF UnderWay
<1>5. toClient \in Seq(Replies) /\ toClient # <<>>
  BY DEF Read, Readable, WireInv
<1>6. /\ Len(toClient) \in Nat /\ Len(toClient) >= 1 /\ p = toClient[1] /\ p \in Replies
      /\ toClient' \in Seq(Replies) /\ Len(toClient') = Len(toClient) - 1
      /\ DOMAIN toClient' = 1..Len(toClient) - 1
      /\ \A i \in 1..Len(toClient) - 1 : toClient'[i] = toClient[i + 1]
  BY <1>2, <1>5, TailIs
<1>7. body[x] \in Seq(Nat) /\ Len(body[x]) \in Nat /\ Produced(x) \in Nat
  <2>1. body[x] \in Seq(Nat)
    BY DEF WireInv
  <2> QED BY <2>1, LenProperties DEF Produced, TypeOK
<1>8. Busy' = Busy
  BY <1>2 DEF Busy
<1>9. PICK read \in Nat, unread \in Nat :
        /\ read = Len(body[x]) /\ Produced(x) = read + unread
        /\ Len(toClient) = left + unread + echoes
        /\ \A i \in 1..left : toClient[i].id \notin {ids[x][1], ids[x][2]}
        /\ \A i \in left + 1..left + unread :
             toClient[i].id = ids[x][1] /\ toClient[i].part = read + i - left
        /\ \A i \in left + unread + 1..left + unread + echoes : toClient[i].id = ids[x][2]
        /\ echoes > 0 => toServer = <<>>
  <2>1. Produced(x) - Len(body[x]) \in Nat
    BY <1>4, <1>7 DEF OnWire
  <2>2. PICK read \in Nat, unread \in Nat :
          read = Len(body[x]) /\ unread = Produced(x) - Len(body[x])
    BY <1>7, <2>1
  <2>3. /\ Len(toClient) = left + unread + echoes
        /\ \A i \in 1..left : toClient[i].id \notin {ids[x][1], ids[x][2]}
        /\ \A i \in left + 1..left + unread :
             toClient[i].id = ids[x][1] /\ toClient[i].part = read + i - left
        /\ \A i \in left + unread + 1..left + unread + echoes : toClient[i].id = ids[x][2]
        /\ echoes > 0 => toServer = <<>>
    BY <1>4, <2>2 DEF OnWire
  <2>4. Produced(x) = read + unread
    BY <1>7, <2>2
  <2> QED BY <2>2, <2>3, <2>4
<1>10. read = Len(body[x]) /\ Produced(x) = read + unread /\ Len(toClient) = left + unread + echoes
  BY <1>9
<1>11. ids[x][1] # ids[x][2]
  BY <1>3 DEF UnderWay
<1> HIDE DEF p
<1>12. CASE p.id = ids[x][2]
  <2>1. /\ pc' = [pc EXCEPT ![x] = "ok"] /\ mu' = None /\ UNCHANGED body
        /\ watcher' \in [Parties -> {"none", "spawned", "parked", "firing", "gone"}]
    BY <1>3, <1>12 DEF Read, Finish, Goto, TypeOK, UnderWay, p
  <2>2. TypeOK'
    BY <1>2, <2>1 DEF TypeOK, Ended
  <2>3. left = 0 /\ unread = 0 /\ echoes >= 1
    <3>1. ASSUME left = 1 PROVE FALSE
      BY <1>6, <1>9, <1>12, <3>1
    <3>2. ASSUME left = 0, unread >= 1 PROVE FALSE
      <4>1. 1 \in left + 1..left + unread
        BY <1>9, <3>2
      <4>2. toClient[1].id = ids[x][1]
        BY <1>9, <4>1
      <4> QED BY <1>6, <1>12, <1>11, <4>2
    <3> QED BY <1>6, <1>9, <3>1, <3>2
  <2>4. toServer = <<>> /\ ~Busy /\ sent = 0 /\ read = size[x]
    BY <1>3, <1>9, <2>3 DEF UnderWay, Busy, Produced
  <2>5. IdleInv'
    <3>1. Len(toClient') <= 1 /\ Len(toClient) = echoes
      BY <1>6, <1>9, <2>3
    <3>2. toClient' # <<>> => Len(toClient') = 1
      BY <1>6, <3>1, EmptySeq
    <3>3. toClient' # <<>> => toClient'[1].id = nextID
      <4>1. ASSUME toClient' # <<>> PROVE toClient'[1].id = nextID
        <5>1. toClient'[1] = toClient[2] /\ echoes = 2
          BY <1>6, <3>1, <3>2, <4>1
        <5>2. toClient[2].id = ids[x][2]
          BY <1>9, <2>3, <5>1
        <5> QED BY <1>3, <5>1, <5>2 DEF UnderWay
      <4> QED BY <4>1
    <3> QED BY <1>2, <2>4, <3>1, <3>3 DEF IdleInv
  <2>6. WireInv' /\ AcceptedByServer' /\ BrokenInv'
    BY <1>2, <1>6, <2>1 DEF TypeOK, WireInv, AcceptedByServer, BrokenInv
  <2>7. MutexInv' /\ AuthInv'
    BY <1>1, <1>2, <2>1 DEF TypeOK, MutexInv, AuthInv
  <2>8. RequestInv'
    BY <1>2, <2>4 DEF RequestInv
  <2>9. WholeResponse'
    BY <1>2, <1>3, <1>10, <2>1, <2>4 DEF TypeOK, WholeResponse, UnderWay
  <2>10. ExchangeInv'
    BY <1>1, <2>1 DEF TypeOK, ExchangeInv
  <2> QED BY <2>2, <2>5, <2>6, <2>7, <2>8, <2>9, <2>10
<1>13. ASSUME p.id # ids[x][2], UNCHANGED <<pc, mu, watcher>>, UnderWay(x)',
              body' \in [Parties -> Seq(Nat)],
              \A y \in Calls \ {x} : body'[y] = body[y]
       PROVE  ClientInv'
  <2>1. TypeOK'
    BY <1>2, <1>13 DEF TypeOK
  <2>2. WireInv' /\ AcceptedByServer' /\ BrokenInv' /\ RequestInv'
    BY <1>2, <1>6, <1>13 DEF WireInv, AcceptedByServer, BrokenInv, RequestInv
  <2>3. MutexInv' /\ AuthInv' /\ IdleInv' /\ WholeResponse'
    BY <1>1, <1>2, <1>13 DEF MutexInv, AuthInv, IdleInv, WholeResponse
  <2>4. ExchangeInv'
    BY <1>1, <1>13 DEF ExchangeInv
  <2> QED BY <2>1, <2>2, <2>3, <2>4
<1>14. CASE p.id = ids[x][1]
  <2>1. UNCHANGED <<pc, mu, watcher>> /\ body' = [body EXCEPT ![x] = Append(@, p.part)]
    BY <1>3, <1>14 DEF Read, UnderWay, p
  <2>2. left = 0
    BY <1>6, <1>9, <1>14
  <2>3. unread >= 1 /\ p.part = read + 1
    <3>1. ASSUME unread = 0 PROVE FALSE
      <4>1. 1 \in left + unread + 1..left + unread + echoes
        BY <1>6, <1>9, <2>2, <3>1
      <4>2. toClient[1].id = ids[x][2]
        BY <1>9, <4>1
      <4> QED BY <1>6, <1>14, <1>11, <4>2
    <3>2. unread >= 1
      BY <1>9, <3>1
    <3>3. 1 \in left + 1..left + unread
      BY <1>9, <2>2, <3>2
    <3>4. toClient[1].part = read + 1 - left
      BY <1>9, <3>3
    <3> QED BY <1>6, <1>9, <2>2, <3>2, <3>4
  <2>4. /\ body'[x] = Append(body[x], read + 1) /\ body'[x] \in Seq(Nat)
        /\ Len(body'[x]) = read + 1
        /\ \A i \in 1..read : body'[x][i] = body[x][i]
        /\ body'[x][read + 1] = read + 1
    <3>1. body'[x] = Append(body[x], read + 1)
      BY <2>1, <2>3 DEF WireInv
    <3>2. body[x] \in Seq(Nat) /\ Len(body[x]) = read /\ read + 1 \in Nat
      BY <1>7, <1>9
    <3> QED BY ONLY <3>1, <3>2, AppendIs
  <2>5. body' \in [Parties -> Seq(Nat)]
    BY <2>1, <2>3, <2>4 DEF WireInv
  <2>6. body'[x] = [i \in 1..Len(body'[x]) |-> i]
    <3>1. body'[x] = [i \in 1..read + 1 |-> body'[x][i]]
      BY <1>7, <2>4, LenProperties
    <3>2. \A i \in 1..read : body[x][i] = i
      BY <1>3, <1>10 DEF UnderWay
    <3>3. \A i \in 1..read + 1 : body'[x][i] = i
      BY <1>7, <2>4, <3>2
    <3> QED BY <2>4, <3>1, <3>3
  <2>7. Produced(x)' = Produced(x)
    BY <1>2, <1>8 DEF Produced
  <2>8. OnWire(x, 0, echoes)'
    <3>1. Produced(x)' - Len(body'[x]) = unread - 1 /\ Len(body'[x]) = (read + 1) /\ unread - 1 >= 0
      BY <1>10, <2>3, <2>4, <2>7
    <3>2. Len(toClient') = 0 + (unread - 1) + echoes
      BY <1>6, <1>10, <2>2, <2>3
    <3>3. ASSUME NEW i \in 0 + 1..0 + (unread - 1)
          PROVE  toClient'[i].id = ids[x][1] /\ toClient'[i].part = (read + 1) + i - 0
      <4>1. toClient'[i] = toClient[i + 1] /\ i + 1 \in left + 1..left + unread
        BY <1>6, <1>10, <2>2, <2>3
      <4>2. toClient[i + 1].id = ids[x][1] /\ toClient[i + 1].part = read + (i + 1) - left
        BY <1>9, <4>1
      <4>3. read + (i + 1) - left = read + 1 + i - 0
        BY <2>2
      <4> QED BY <1>2, <4>1, <4>2, <4>3
    <3>4. ASSUME NEW i \in 0 + (unread - 1) + 1..0 + (unread - 1) + echoes
          PROVE  toClient'[i].id = ids[x][2]
      <4>1. /\ toClient'[i] = toClient[i + 1]
            /\ i + 1 \in left + unread + 1..left + unread + echoes
        BY <1>6, <1>10, <2>2, <2>3
      <4> QED BY <1>9, <4>1
    <3>5. echoes > 0 => toServer' = <<>> /\ pc'[x] = "read"
      BY <1>1, <1>2, <1>9, <2>1
    <3> QED BY <1>2, <3>1, <3>2, <3>3, <3>4, <3>5 DEF OnWire
  <2>9. UnderWay(x)'
    <3>1. Command(x)' = Command(x) /\ Sentinel(x)' = Sentinel(x)
      BY <1>2 DEF Command, Sentinel
    <3>2. \E l \in 0..1, e \in 0..2 : OnWire(x, l, e)'
      BY <2>8
    <3> QED BY <1>2, <1>3, <1>8, <2>1, <2>6, <3>1, <3>2 DEF UnderWay
  <2> QED BY <1>3, <1>13, <1>14, <2>1, <2>5, <2>9 DEF UnderWay, WireInv
<1>15. CASE p.id \notin {ids[x][1], ids[x][2]}
  <2>1. UNCHANGED <<pc, mu, watcher, body>>
    BY <1>15 DEF Read, p
  <2>2. left = 1
    <3>1. ASSUME left = 0 PROVE FALSE
      <4>1. 1 \in left + 1..left + unread \/ 1 \in left + unread + 1..left + unread + echoes
        BY <1>6, <1>9, <3>1
      <4> QED BY <1>6, <1>9, <1>15, <4>1
    <3> QED BY <3>1
  <2>3. Produced(x)' = Produced(x)
    BY <1>2, <1>8 DEF Produced
  <2>4. OnWire(x, 0, echoes)'
    <3>1. Produced(x)' - Len(body'[x]) = unread /\ Len(body'[x]) = read /\ unread >= 0
      BY <1>10, <2>1, <2>3
    <3>2. Len(toClient') = 0 + (unread) + echoes
      BY <1>6, <1>9, <2>2
    <3>3. ASSUME NEW i \in 0 + 1..0 + (unread)
          PROVE  toClient'[i].id = ids[x][1] /\ toClient'[i].part = read + i - 0
      <4>1. toClient'[i] = toClient[i + 1] /\ i + 1 \in left + 1..left + unread
        BY <1>6, <1>9, <2>2
      <4>2. toClient[i + 1].id = ids[x][1] /\ toClient[i + 1].part = read + (i + 1) - left
        BY <1>9, <4>1
      <4> QED BY <1>9, <2>2, <4>1, <4>2
    <3>4. ASSUME NEW i \in 0 + (unread) + 1..0 + (unread) + echoes
          PROVE  toClient'[i].id = ids[x][2]
      <4>1. /\ toClient'[i] = toClient[i + 1]
            /\ i + 1 \in left + unread + 1..left + unread + echoes
        BY <1>6, <1>9, <2>2
      <4> QED BY <1>9, <4>1
    <3>5. echoes > 0 => toServer' = <<>> /\ pc'[x] = "read"
      BY <1>1, <1>2, <1>9, <2>1
    <3> QED BY <1>2, <3>1, <3>2, <3>3, <3>4, <3>5 DEF OnWire
  <2>5. UnderWay(x)'
    <3>1. Command(x)' = Command(x) /\ Sentinel(x)' = Sentinel(x)
      BY <1>2 DEF Command, Sentinel
    <3>2. \E l \in 0..1, e \in 0..2 : OnWire(x, l, e)'
      BY <2>4
    <3> QED BY <1>2, <1>3, <1>8, <2>1, <3>1, <3>2 DEF UnderWay
  <2> QED BY <1>13, <1>15, <2>1, <2>5 DEF WireInv
<1> QED BY <1>12, <1>14, <1>15

(* The read fails: the connection ends, or the deadline passes.            *)
LEMMA ReadFailsStep ==
  ASSUME ClientInv, NEW x \in Calls, ReadFails(x)
  PROVE  ClientInv'
<1>1. TypeOK'
  BY ClientAssumption
     DEF ClientInv, ReadFails, TypeOK, Fail, Finish, Goto, Ended, serverVars, Parties
<1> QED BY <1>1, FailStep DEF ReadFails

-----------------------------------------------------------------------------
(* A step of the handshake that does not end it well: no call is affected. *)
LEMMA HandshakeInv ==
  ASSUME ClientInv, pc[Dialler] # "ok", pc'[Dialler] # "ok",
         \A x \in Calls : pc'[x] = pc[x],
         pc'[Dialler] \in {"send", "read", "failed", "rejected"},
         mu' = None, UNCHANGED <<broken, body, aligned>>
  PROVE  /\ MutexInv' /\ BrokenInv' /\ RequestInv' /\ IdleInv' /\ ExchangeInv'
         /\ AcceptedByServer' /\ WholeResponse'
<1>1. mu = None /\ \A x \in Calls : pc[x] = "new"
  BY NotYet
<1>2. MutexInv' /\ BrokenInv'
  BY <1>1, ClientAssumption DEF ClientInv, MutexInv, BrokenInv
<1>3. RequestInv' /\ IdleInv' /\ AcceptedByServer'
  BY DEF RequestInv, IdleInv, AcceptedByServer
<1>4. ExchangeInv' /\ WholeResponse'
  BY <1>1 DEF ExchangeInv, WholeResponse
<1> QED BY <1>2, <1>3, <1>4

(* The password is sent, or cannot be.                                     *)
LEMMA SendAuthStep ==
  ASSUME ClientInv, SendAuth
  PROVE  ClientInv'
<1> USE ClientAssumption DEF ClientInv, serverVars, Parties
<1> DEFINE request == Request(Dialler, Succ(nextID), FALSE)
<1>1. pc[Dialler] = "send" /\ toServer = <<>> /\ toClient = <<>> /\ sent = 0
  BY DEF SendAuth, AuthInv
<1>2. mu = None
  BY <1>1, NotYet
<1>3. Succ(nextID) \in 1..MaxId
  BY Identifiers DEF TypeOK
<1>4. /\ ids' = [ids EXCEPT ![Dialler] = <<Succ(nextID), 0>>] /\ nextID' = Succ(nextID)
      /\ UNCHANGED <<broken, body, cancelled, deadline, aligned, toClient, serverVars>>
  BY DEF SendAuth
<1>5. ids' \in [Parties -> (0..MaxId) \X (0..MaxId)] /\ nextID' \in 0..MaxId
  BY <1>3, <1>4 DEF TypeOK
<1>6. CASE /\ toServer' = Append(toServer, request) /\ pc' = Goto(Dialler, "read")
           /\ UNCHANGED <<mu, watcher, link>>
  <2>1. TypeOK'
    BY <1>4, <1>5, <1>6 DEF TypeOK, Goto, Ended
  <2>2. request \in Requests /\ request.of = Dialler /\ ~request.sentinel
    BY <1>3 DEF Request, Requests
  <2>3. /\ toServer' \in Seq(Requests) /\ Len(toServer') = 1 /\ toServer'[1] = request
    <3> HIDE DEF request
    <3> QED BY <1>1, <1>6, <2>2, AppendIs, EmptySeq DEF WireInv
  <2>4. WireInv' /\ AuthInv'
    <3> HIDE DEF request
    <3>1. DOMAIN toClient' = {}
      BY <1>1, <1>4
    <3>2. pc'[Dialler] = "read"
      BY <1>6 DEF Goto, TypeOK
    <3>3. AuthInv'
      BY <2>2, <2>3, <3>1, <3>2 DEF AuthInv
    <3> QED BY <1>4, <2>3, <3>3 DEF WireInv
  <2>5. pc'[Dialler] = "read" /\ \A x \in Calls : pc'[x] = pc[x]
    BY <1>6 DEF Goto, TypeOK
  <2> QED BY <1>1, <1>2, <1>4, <1>6, <2>1, <2>4, <2>5, HandshakeInv
<1>7. CASE Handshakes("failed") /\ UNCHANGED toServer
  <2>1. /\ pc' = [pc EXCEPT ![Dialler] = "failed"] /\ mu' = None /\ link' = "closed"
        /\ watcher' \in [Parties -> {"none", "spawned", "parked", "firing", "gone"}]
    BY <1>7 DEF Handshakes, Finish, Goto, TypeOK
  <2>2. TypeOK'
    BY <1>4, <1>5, <1>7, <2>1 DEF TypeOK, Ended
  <2>3. WireInv' /\ AuthInv'
    BY <1>4, <1>7, <2>1 DEF WireInv, AuthInv, TypeOK
  <2>4. pc'[Dialler] = "failed" /\ \A x \in Calls : pc'[x] = pc[x]
    BY <2>1 DEF TypeOK
  <2> QED BY <1>1, <1>4, <2>1, <2>2, <2>3, <2>4, HandshakeInv
<1> QED BY <1>6, <1>7 DEF SendAuth

(* A packet of the handshake: noise, or the verdict, which is the last.    *)
LEMMA AuthenticateStep ==
  ASSUME ClientInv, Authenticate
  PROVE  ClientInv'
<1> USE ClientAssumption DEF ClientInv, serverVars, Parties
<1> DEFINE p == Head(toClient)
<1>1. pc[Dialler] = "read" /\ mu = None /\ \A x \in Calls : pc[x] = "new"
  BY NotYet DEF Authenticate
<1>2. /\ toClient' = Tail(toClient)
      /\ UNCHANGED <<nextID, broken, ids, body, cancelled, deadline, aligned,
                     toServer, serverVars>>
  BY DEF Authenticate
<1>3. toClient \in Seq(Replies) /\ toClient # <<>>
  BY DEF Authenticate, Readable, WireInv
<1>4. /\ Len(toClient) \in Nat /\ Len(toClient) >= 1 /\ DOMAIN toClient = 1..Len(toClient)
      /\ p = toClient[1]
      /\ toClient' \in Seq(Replies) /\ Len(toClient') = Len(toClient) - 1
      /\ DOMAIN toClient' = 1..Len(toClient) - 1
      /\ \A i \in 1..Len(toClient) - 1 : toClient'[i] = toClient[i + 1]
  BY <1>2, <1>3, TailIs
<1>5. WireInv'
  BY <1>2, <1>4 DEF WireInv
<1>6. CASE p.part = "noise" /\ UNCHANGED <<pc, mu, watcher, link>>
  <2>1. TypeOK'
    BY <1>2, <1>6 DEF TypeOK
  <2>2. AuthInv'
    <3>1. CASE /\ Len(toServer) = 1 /\ toServer[1].of = Dialler /\ ~toServer[1].sentinel
               /\ \A i \in DOMAIN toClient : toClient[i].part = "noise"
      <4>1. \A i \in DOMAIN toClient' : toClient'[i].part = "noise"
        BY <1>4, <3>1
      <4> QED BY <1>1, <1>2, <1>6, <3>1, <4>1 DEF AuthInv
    <3>2. CASE /\ toServer = <<>> /\ sent = 0
               /\ \A i \in 1..Len(toClient) - 1 : toClient[i].part = "noise"
               /\ toClient[Len(toClient)].part = "verdict"
               /\ toClient[Len(toClient)].id # AuthFailedID => verdict = "yes"
      <4>1. Len(toClient) >= 2
        BY <1>4, <1>6, <3>2
      <4>2. toClient'[Len(toClient')] = toClient[Len(toClient)] /\ Len(toClient') >= 1
        BY <1>4, <4>1
      <4>3. \A i \in 1..Len(toClient') - 1 : toClient'[i].part = "noise"
        BY <1>4, <3>2
      <4>4. toClient' # <<>>
        BY <4>2, EmptySeq
      <4> QED BY <1>1, <1>2, <1>6, <3>2, <4>2, <4>3, <4>4 DEF AuthInv
    <3> QED BY <1>1, <3>1, <3>2 DEF AuthInv
  <2> QED BY <1>1, <1>2, <1>5, <1>6, <2>1, <2>2, HandshakeInv
<1>7. ASSUME NEW result \in {"ok", "failed", "rejected"}, Handshakes(result),
             p.part = "verdict", result = "ok" => p.id # AuthFailedID
      PROVE  ClientInv'
  <2>1. /\ pc' = [pc EXCEPT ![Dialler] = result] /\ mu' = None
        /\ link' = IF result = "ok" THEN link ELSE "closed"
        /\ watcher' \in [Parties -> {"none", "spawned", "parked", "firing", "gone"}]
    BY <1>7 DEF Handshakes, Finish, Goto, TypeOK
  <2>2. TypeOK'
    BY <1>2, <2>1 DEF TypeOK, Ended
  <2>3. pc'[Dialler] = result /\ \A x \in Calls : pc'[x] = pc[x]
    BY <2>1 DEF TypeOK
  <2>4. AuthInv'
    BY <2>1, <2>3 DEF AuthInv
  <2>5. CASE result # "ok"
    BY <1>1, <1>2, <1>5, <2>1, <2>2, <2>3, <2>4, <2>5, HandshakeInv
  <2>6. CASE result = "ok"
    <3>1. /\ toServer = <<>> /\ sent = 0
          /\ \A i \in 1..Len(toClient) - 1 : toClient[i].part = "noise"
          /\ toClient[Len(toClient)].id # AuthFailedID => verdict = "yes"
      BY <1>1, <1>4, <1>7 DEF AuthInv
    <3>2. Len(toClient) = 1
      BY <1>4, <1>7, <3>1
    <3>3. toClient' = <<>> /\ Len(toClient') = 0 /\ verdict = "yes"
      BY <1>4, <1>7, <2>6, <3>1, <3>2, EmptySeq
    <3>4. AcceptedByServer' /\ WholeResponse' /\ ExchangeInv'
      BY <1>1, <1>2, <2>3, <3>3 DEF AcceptedByServer, WholeResponse, ExchangeInv
    <3>5. MutexInv' /\ BrokenInv'
      BY <1>1, <1>2, <2>1, <2>3, <2>6 DEF MutexInv, BrokenInv
    <3>6. RequestInv' /\ IdleInv'
      BY <1>2, <3>1, <3>3 DEF RequestInv, IdleInv
    <3> QED BY <1>5, <2>2, <2>4, <3>4, <3>5, <3>6
  <2> QED BY <2>5, <2>6
<1> QED BY <1>6, <1>7 DEF Authenticate

(* The handshake ends without a verdict.                                   *)
LEMMA AuthFailsStep ==
  ASSUME ClientInv, AuthFails
  PROVE  ClientInv'
<1> USE ClientAssumption DEF ClientInv, serverVars, Parties
<1>1. PICK result \in {"failed", "rejected"} : Handshakes(result)
  BY DEF AuthFails
<1>2. /\ pc[Dialler] = "read"
      /\ UNCHANGED <<nextID, broken, ids, body, cancelled, deadline, aligned, toServer,
                     toClient, serverVars>>
  BY DEF AuthFails
<1>3. /\ pc' = [pc EXCEPT ![Dialler] = result] /\ mu' = None /\ link' = "closed"
      /\ watcher' \in [Parties -> {"none", "spawned", "parked", "firing", "gone"}]
  BY <1>1 DEF Handshakes, Finish, Goto, TypeOK
<1>4. TypeOK'
  BY <1>2, <1>3 DEF TypeOK, Ended
<1>5. pc'[Dialler] = result /\ \A x \in Calls : pc'[x] = pc[x]
  BY <1>3 DEF TypeOK
<1>6. WireInv' /\ AuthInv'
  BY <1>2, <1>3, <1>5 DEF WireInv, AuthInv
<1> QED BY <1>2, <1>3, <1>4, <1>5, <1>6, HandshakeInv

-----------------------------------------------------------------------------
(* The server answers the handshake.                                       *)
LEMMA ServerAuthStep ==
  ASSUME ClientInv, ServerAuth
  PROVE  ClientInv'
<1> USE ClientAssumption DEF ClientInv, callVars, watchVars, Parties
<1> DEFINE r == Head(toServer)
           noise == Reply(r, "noise")
           yes == Reply(r, "verdict")
           no == [Reply(r, "verdict") EXCEPT !.id = AuthFailedID]
<1>1. toServer \in Seq(Requests) /\ toServer # <<>> /\ link = "up"
  BY DEF ServerAuth, Serving, WireInv
<1>2. /\ r = toServer[1] /\ r \in Requests /\ DOMAIN toServer = 1..Len(toServer)
      /\ Len(toServer) \in Nat /\ Len(toServer) >= 1
      /\ Tail(toServer) \in Seq(Requests) /\ Len(Tail(toServer)) = Len(toServer) - 1
  BY <1>1, TailIs
<1>3. r.of = Dialler /\ UNCHANGED <<callVars, watchVars, deadline, link, aligned, size>>
  BY DEF ServerAuth
<1>4. pc[Dialler] = "read"
  <2>1. pc[Dialler] # "ok"
    BY <1>2, <1>3 DEF RequestInv
  <2> QED BY <1>1, <2>1 DEF AuthInv, MutexInv
<1>5. /\ Len(toServer) = 1 /\ ~toServer[1].sentinel
      /\ \A i \in DOMAIN toClient : toClient[i].part = "noise"
  BY <1>1, <1>4 DEF AuthInv
<1>6. mu = None /\ \A x \in Calls : pc[x] = "new"
  BY <1>4, NotYet
<1>7. noise \in Replies /\ yes \in Replies /\ no \in Replies
      /\ noise.part = "noise" /\ yes.part = "verdict" /\ no.part = "verdict"
      /\ no.id = AuthFailedID
  BY <1>2, <1>3 DEF Reply, Replies, Requests, AuthFailedID
<1>8. toClient \in Seq(Replies)
  BY DEF WireInv
<1>9. ASSUME TypeOK', WireInv', AuthInv' PROVE ClientInv'
  BY <1>3, <1>4, <1>6, <1>9, HandshakeInv
<1> HIDE DEF r, noise, yes, no
<1>10. CASE /\ sent = 0 /\ sent' = 1 /\ toClient' = Append(toClient, noise)
            /\ UNCHANGED <<toServer, verdict>>
  <2>1. TypeOK'
    BY <1>3, <1>10 DEF TypeOK
  <2>2. /\ toClient' \in Seq(Replies)
        /\ \A i \in DOMAIN toClient' : toClient'[i].part = "noise"
    BY <1>5, <1>7, <1>8, <1>10, AppendIs
  <2>3. WireInv'
    BY <1>3, <1>10, <2>2 DEF WireInv
  <2>4. AuthInv'
    BY <1>2, <1>3, <1>4, <1>5, <1>10, <2>2 DEF AuthInv
  <2> QED BY <1>9, <2>1, <2>3, <2>4
<1>11. ASSUME NEW v \in {yes, no}, toClient' = Append(toClient, v),
              v # no => verdict' = "yes", verdict' \in {"yes", "no"}, sent' = 0, toServer' = Tail(toServer)
       PROVE  ClientInv'
  <2>1. TypeOK'
    BY <1>3, <1>11 DEF TypeOK
  <2>2. v \in Replies /\ v.part = "verdict" /\ (v.id # AuthFailedID => verdict' = "yes")
    BY <1>7, <1>11
  <2>3. /\ toClient' \in Seq(Replies) /\ toClient' # <<>> /\ Len(toClient) \in Nat
        /\ Len(toClient') = Len(toClient) + 1 /\ DOMAIN toClient = 1..Len(toClient)
        /\ \A i \in 1..Len(toClient) : toClient'[i] = toClient[i]
        /\ toClient'[Len(toClient) + 1] = v
    BY <1>8, <1>11, <2>2, AppendIs
  <2>4. \A i \in 1..Len(toClient') - 1 : toClient'[i].part = "noise"
    BY <1>5, <2>3
  <2>5. toServer' = <<>>
    BY <1>2, <1>5, <1>11, EmptySeq
  <2>6. WireInv'
    BY <1>2, <1>3, <1>11, <2>3 DEF WireInv
  <2>7. toClient'[Len(toClient')] = v
    BY <2>3
  <2>8. AuthInv'
    BY <1>3, <1>4, <1>11, <2>2, <2>3, <2>4, <2>5, <2>7 DEF AuthInv
  <2> QED BY <1>9, <2>1, <2>6, <2>8
<1>12. \/ /\ sent = 0 /\ sent' = 1 /\ toClient' = Append(toClient, noise)
          /\ UNCHANGED <<toServer, verdict>>
       \/ /\ \/ verdict' = "yes" /\ toClient' = Append(toClient, yes)
             \/ verdict' = "no" /\ toClient' = Append(toClient, no)
          /\ sent' = 0 /\ toServer' = Tail(toServer)
  BY DEF ServerAuth, noise, yes, no, r
<1> QED BY <1>10, <1>11, <1>12

(* The server answers a call, which is under way or has failed.            *)
LEMMA Served ==
  ASSUME ClientInv, Serving, Head(toServer).of # Dialler \/ Head(toServer).sentinel
  PROVE  /\ toServer \in Seq(Requests) /\ toServer # <<>> /\ Head(toServer) = toServer[1]
         /\ toServer[1] \in Requests /\ Tail(toServer) \in Seq(Requests)
         /\ \A i \in DOMAIN Tail(toServer) : i + 1 \in DOMAIN toServer
                                             /\ Tail(toServer)[i] = toServer[i + 1]
         /\ pc[Dialler] = "ok"
         /\ toServer[1].of \in Calls
         /\ pc[toServer[1].of] \in {"sentinel", "read", "failed"}
         /\ \A x \in Calls : pc[x] \in {"sentinel", "read"} =>
              toServer[1].of = x /\ UnderWay(x) /\ mu = x
<1>1. toServer \in Seq(Requests) /\ toServer # <<>> /\ link = "up"
  BY DEF ClientInv, Serving, WireInv
<1>2. /\ Head(toServer) = toServer[1] /\ toServer[1] \in Requests
      /\ DOMAIN toServer = 1..Len(toServer) /\ Len(toServer) \in Nat /\ Len(toServer) >= 1
      /\ Tail(toServer) \in Seq(Requests)
      /\ DOMAIN Tail(toServer) = 1..Len(toServer) - 1
      /\ \A i \in 1..Len(toServer) - 1 : Tail(toServer)[i] = toServer[i + 1]
  BY <1>1, TailIs
<1>3. pc[Dialler] = "ok"
  <2>1. pc[Dialler] # "read"
    BY <1>1, <1>2 DEF ClientInv, AuthInv
  <2> QED BY <1>1, <2>1 DEF ClientInv, AuthInv, MutexInv
<1>4. toServer[1].of \in Calls /\ pc[toServer[1].of] \in {"sentinel", "read", "failed"}
  BY <1>2, <1>3 DEF ClientInv, RequestInv
<1>5. ASSUME NEW x \in Calls, pc[x] \in {"sentinel", "read"}
      PROVE  toServer[1].of = x /\ UnderWay(x) /\ mu = x
  <2>1. UnderWay(x)
    BY <1>5 DEF ClientInv, ExchangeInv
  <2>2. toServer[1] \in {Command(x), Sentinel(x)}
    BY <1>1, <1>5, <2>1 DEF UnderWay
  <2>3. toServer[1].of = x
    BY <2>2 DEF Command, Sentinel, Request
  <2> QED BY <1>5, <2>1, <2>3, Alone
<1> QED BY <1>1, <1>2, <1>3, <1>4, <1>5

(* A step of the server alone, once the handshake has ended well, changes  *)
(* what is on the wire of the exchange under way, if there is one.         *)
LEMMA ServerInv ==
  ASSUME ClientInv, TypeOK', WireInv', pc[Dialler] = "ok", toServer # <<>>,
         UNCHANGED <<callVars, watchVars, deadline, link, aligned, verdict>>,
         \A i \in DOMAIN toServer' : \E j \in DOMAIN toServer : toServer'[i] = toServer[j],
         \A y \in Calls : pc[y] = "ok" => size'[y] = size[y],
         \A y \in Calls : pc[y] \in {"sentinel", "read"} => UnderWay(y)'
  PROVE  ClientInv'
<1> USE DEF ClientInv, callVars
<1>1. MutexInv' /\ BrokenInv' /\ AcceptedByServer'
  BY DEF MutexInv, BrokenInv, AcceptedByServer
<1>2. AuthInv' /\ WholeResponse' /\ ExchangeInv'
  BY DEF AuthInv, WholeResponse, ExchangeInv
<1>3. RequestInv'
  BY DEF RequestInv
<1>4. IdleInv'
  BY DEF IdleInv
<1> QED BY <1>1, <1>2, <1>3, <1>4

(* A packet of a reply, or its end.                                        *)
LEMMA ServerReplyStep ==
  ASSUME ClientInv, ServerReply
  PROVE  ClientInv'
<1> USE ClientAssumption DEF Parties
<1> DEFINE r == Head(toServer)
           packet == Reply(r, sent + 1)
<1>1. /\ Serving /\ r.of # Dialler /\ ~r.sentinel
      /\ UNCHANGED <<callVars, watchVars, deadline, link, aligned, verdict>>
  BY DEF ServerReply
<1>2. /\ toServer \in Seq(Requests) /\ toServer # <<>> /\ r = toServer[1] /\ r \in Requests
      /\ Tail(toServer) \in Seq(Requests)
      /\ \A i \in DOMAIN Tail(toServer) : i + 1 \in DOMAIN toServer
                                          /\ Tail(toServer)[i] = toServer[i + 1]
      /\ pc[Dialler] = "ok" /\ r.of \in Calls /\ pc[r.of] \in {"sentinel", "read", "failed"}
      /\ \A x \in Calls : pc[x] \in {"sentinel", "read"} => r.of = x /\ UnderWay(x) /\ mu = x
  BY <1>1, Served
<1>3. sent \in Nat /\ toClient \in Seq(Replies) /\ Busy
  BY <1>1, <1>2 DEF ClientInv, TypeOK, WireInv, Busy
<1>4. packet \in Replies /\ packet.id = r.id /\ packet.part = sent + 1
  BY <1>2, <1>3 DEF Reply, Replies, Requests
<1> HIDE DEF r, packet
<1>5. ASSUME NEW x \in Calls, pc[x] \in {"sentinel", "read"}
      PROVE  /\ r = Command(x) /\ r.id = ids[x][1] /\ ids'[x] = ids[x]
             /\ toServer \in {<<Command(x)>>, <<Command(x), Sentinel(x)>>}
             /\ pc[x] = "sentinel" => toServer = <<Command(x)>>
             /\ \E left \in 0..1 : OnWire(x, left, 0)
  <2>1. UnderWay(x)
    BY <1>2, <1>5
  <2>2. Sentinel(x).sentinel
    BY DEF Sentinel, Request
  <2>3. /\ toServer \in {<<Command(x)>>, <<Command(x), Sentinel(x)>>}
        /\ pc[x] = "sentinel" => toServer = <<Command(x)>>
    BY <1>1, <1>2, <1>5, <2>1, <2>2 DEF UnderWay
  <2>4. r = Command(x) /\ r.id = ids[x][1]
    <3>1. toServer[1] = Command(x)
      BY <2>3
    <3>2. Command(x).id = ids[x][1]
      BY DEF Command, Request
    <3> QED BY <1>2, <3>1, <3>2
  <2>5. PICK left \in 0..1, echoes \in 0..2 : OnWire(x, left, echoes)
    BY <2>1 DEF UnderWay
  <2>6. echoes = 0
    BY <1>2, <2>5 DEF OnWire
  <2> QED BY <1>1, <2>3, <2>4, <2>5, <2>6 DEF callVars
<1>6. CASE /\ sent < MaxParts /\ sent' = sent + 1 /\ toClient' = Append(toClient, packet)
           /\ UNCHANGED <<toServer, size>>
  <2>1. TypeOK'
    BY <1>1, <1>3, <1>6 DEF ClientInv, TypeOK, callVars, watchVars
  <2>2. /\ toClient' \in Seq(Replies) /\ Len(toClient) \in Nat
        /\ Len(toClient') = Len(toClient) + 1
        /\ \A i \in 1..Len(toClient) : toClient'[i] = toClient[i]
        /\ toClient'[Len(toClient) + 1] = packet
    BY <1>3, <1>4, <1>6, AppendIs
  <2>3. WireInv'
    BY <1>1, <1>6, <2>2 DEF ClientInv, WireInv, callVars
  <2>4. ASSUME NEW x \in Calls, pc[x] \in {"sentinel", "read"}
        PROVE  UnderWay(x)'
    <3>1. UnderWay(x)
      BY <1>2, <2>4
    <3>2. PICK left \in 0..1 : OnWire(x, left, 0)
      BY <1>5, <2>4
    <3>3. /\ Len(body[x]) \in Nat /\ Produced(x) = sent /\ Produced(x)' = sent + 1
          /\ Busy' /\ Len(body'[x]) = Len(body[x]) /\ ids'[x] = ids[x]
      <4>1. body[x] \in Seq(Nat)
        BY DEF ClientInv, WireInv
      <4> QED BY <1>1, <1>3, <1>6, <4>1, LenProperties DEF Produced, Busy, callVars
    <3>4. PICK read \in Nat, unread \in Nat :
            read = Len(body[x]) /\ sent = read + unread
      <4>1. sent - Len(body[x]) \in Nat
        BY <1>3, <3>2, <3>3 DEF OnWire
      <4>2. sent = Len(body[x]) + (sent - Len(body[x]))
        BY <1>3, <3>3
      <4> QED BY <3>3, <4>1, <4>2
    <3>5. /\ Len(toClient) = left + unread
          /\ \A i \in 1..left : toClient[i].id \notin {ids[x][1], ids[x][2]}
          /\ \A i \in left + 1..left + unread :
               toClient[i].id = ids[x][1] /\ toClient[i].part = read + i - left
      <4>1. Produced(x) - Len(body[x]) = unread
        BY <3>3, <3>4
      <4> QED BY <3>2, <3>4, <4>1 DEF OnWire
    <3>6. \A i \in 1..left : toClient'[i].id \notin {ids[x][1], ids[x][2]}
      BY <2>2, <3>5
    <3>7. ASSUME NEW i \in left + 1..left + (unread + 1)
          PROVE  toClient'[i].id = ids[x][1] /\ toClient'[i].part = read + i - left
      <4>1. CASE i = Len(toClient) + 1
        <5>1. toClient'[i].id = ids[x][1] /\ toClient'[i].part = sent + 1
          BY <1>4, <1>5, <2>2, <2>4, <4>1
        <5>2. Len(toClient) = left + unread
          BY <3>5
        <5>3. sent + 1 = read + i - left
          <6>1. i = left + unread + 1
            BY <4>1, <5>2
          <6>2. sent = read + unread
            BY <3>4
          <6> QED BY <6>1, <6>2
        <5> QED BY <5>1, <5>3
      <4>2. CASE i # Len(toClient) + 1
        <5>1. i \in left + 1..left + unread /\ i \in 1..Len(toClient)
          BY <2>2, <3>5, <4>2
        <5> QED BY <2>2, <3>5, <5>1
      <4> QED BY <4>1, <4>2
    <3>8. OnWire(x, left, 0)'
      <4>1. Produced(x)' - Len(body'[x]) = unread + 1 /\ unread + 1 >= 0
        <5>1. Produced(x)' = read + unread + 1 /\ Len(body'[x]) = read
          BY <3>3, <3>4
        <5> QED BY <5>1
      <4>2. Len(toClient') = left + (unread + 1) + 0
        BY <2>2, <3>5
      <4>3. Len(body'[x]) = read
        BY <3>3, <3>4
      <4> QED BY <3>3, <3>6, <3>7, <4>1, <4>2, <4>3 DEF OnWire
    <3>9. Command(x)' = Command(x) /\ Sentinel(x)' = Sentinel(x)
      BY <3>3 DEF Command, Sentinel
    <3>10. \E l \in 0..1, e \in 0..2 : OnWire(x, l, e)'
      BY <3>8
    <3> QED BY <1>1, <1>6, <3>1, <3>3, <3>9, <3>10 DEF UnderWay, callVars
  <2>5. \A i \in DOMAIN toServer' : \E j \in DOMAIN toServer : toServer'[i] = toServer[j]
    BY <1>6
  <2>6. \A y \in Calls : pc[y] = "ok" => size'[y] = size[y]
    BY <1>6
  <2> QED BY <1>1, <1>2, <2>1, <2>3, <2>4, <2>5, <2>6, ServerInv
<1>7. CASE /\ sent' = 0 /\ size' = [size EXCEPT ![r.of] = sent]
           /\ toServer' = Tail(toServer) /\ UNCHANGED toClient
  <2>1. TypeOK'
    BY <1>1, <1>3, <1>7 DEF ClientInv, TypeOK, callVars, watchVars
  <2>2. WireInv'
    BY <1>1, <1>2, <1>7 DEF ClientInv, WireInv, callVars
  <2>3. ASSUME NEW x \in Calls, pc[x] \in {"sentinel", "read"}
        PROVE  UnderWay(x)'
    <3>1. UnderWay(x) /\ r.of = x
      BY <1>2, <2>3
    <3>2. /\ toServer' \in {<<>>, <<Sentinel(x)>>}
          /\ pc[x] = "sentinel" => toServer' = <<>>
      <4>1. Tail(<<Command(x)>>) = <<>>
        OBVIOUS
      <4>2. Tail(<<Command(x), Sentinel(x)>>) = <<Sentinel(x)>>
        BY TailPair
      <4> QED BY <1>5, <1>7, <2>3, <4>1, <4>2
    <3>3. ids'[x] = ids[x] /\ body'[x] = body[x] /\ pc' = pc /\ nextID' = nextID
      BY <1>1 DEF callVars
    <3>4. Sentinel(x).sentinel
      BY DEF Sentinel, Request
    <3>5. ~Busy' /\ size'[x] = sent /\ Produced(x) = sent /\ Produced(x)' = sent
      <4>1. size'[x] = sent
        BY <1>7, <3>1 DEF ClientInv, TypeOK
      <4> QED BY <1>3, <3>2, <3>4, <4>1 DEF Busy, Produced
    <3>6. PICK left \in 0..1 : OnWire(x, left, 0)
      BY <1>5, <2>3
    <3>7. OnWire(x, left, 0)'
      BY <1>7, <3>3, <3>5, <3>6 DEF OnWire
    <3>8. Command(x)' = Command(x) /\ Sentinel(x)' = Sentinel(x)
      BY <3>3 DEF Command, Sentinel
    <3>9. \E l \in 0..1, e \in 0..2 : OnWire(x, l, e)'
      BY <3>7
    <3> QED BY <1>7, <3>1, <3>2, <3>3, <3>5, <3>8, <3>9 DEF UnderWay
  <2>4. \A i \in DOMAIN toServer' : \E j \in DOMAIN toServer : toServer'[i] = toServer[j]
    BY <1>2, <1>7
  <2>5. \A y \in Calls : pc[y] = "ok" => size'[y] = size[y]
    BY <1>2, <1>7 DEF ClientInv, TypeOK
  <2> QED BY <1>1, <1>2, <2>1, <2>2, <2>3, <2>4, <2>5, ServerInv
<1> QED BY <1>6, <1>7 DEF ServerReply, r, packet

(* The echo of a sentinel, once or twice: the reply is on the wire whole.  *)
LEMMA ServerEchoStep ==
  ASSUME ClientInv, ServerEcho
  PROVE  ClientInv'
<1> USE ClientAssumption DEF Parties
<1> DEFINE r == Head(toServer)
           echo == Reply(r, 0)
<1>1. /\ Serving /\ r.sentinel /\ toServer' = Tail(toServer)
      /\ toClient' \in {toClient \o <<echo>>, toClient \o <<echo, echo>>}
      /\ UNCHANGED <<callVars, watchVars, deadline, link, aligned, serverVars>>
  BY DEF ServerEcho
<1>2. /\ toServer \in Seq(Requests) /\ toServer # <<>> /\ r = toServer[1] /\ r \in Requests
      /\ Tail(toServer) \in Seq(Requests)
      /\ \A i \in DOMAIN Tail(toServer) : i + 1 \in DOMAIN toServer
                                          /\ Tail(toServer)[i] = toServer[i + 1]
      /\ pc[Dialler] = "ok" /\ r.of \in Calls
      /\ \A x \in Calls : pc[x] \in {"sentinel", "read"} => r.of = x /\ UnderWay(x) /\ mu = x
  BY <1>1, Served
<1>3. echo \in Replies /\ echo.id = r.id
  BY <1>2 DEF Reply, Replies, Requests
<1> HIDE DEF r, echo
<1>4. toClient \in Seq(Replies) /\ Len(toClient) \in Nat
  BY LenProperties DEF ClientInv, WireInv
<1>5. PICK n \in 1..2 :
        /\ toClient' \in Seq(Replies) /\ Len(toClient') = Len(toClient) + n
        /\ \A i \in 1..Len(toClient) : toClient'[i] = toClient[i]
        /\ \A i \in Len(toClient) + 1..Len(toClient) + n : toClient'[i] = echo
  <2>1. ASSUME NEW n \in 1..2, NEW e \in Seq(Replies), Len(e) = n,
               \A i \in 1..n : e[i] = echo, toClient' = toClient \o e
        PROVE  /\ toClient' \in Seq(Replies) /\ Len(toClient') = Len(toClient) + n
               /\ \A i \in 1..Len(toClient) : toClient'[i] = toClient[i]
               /\ \A i \in Len(toClient) + 1..Len(toClient) + n : toClient'[i] = echo
    <3>1. /\ toClient' \in Seq(Replies) /\ Len(toClient') = Len(toClient) + n
          /\ \A i \in 1..Len(toClient) + n :
               toClient'[i] = IF i <= Len(toClient) THEN toClient[i] ELSE e[i - Len(toClient)]
      BY <1>4, <2>1, ConcatProperties
    <3>2. ASSUME NEW i \in Len(toClient) + 1..Len(toClient) + n
          PROVE  toClient'[i] = echo
      <4>1. i - Len(toClient) \in 1..n /\ i \in 1..Len(toClient) + n /\ ~(i <= Len(toClient))
        BY <1>4
      <4> QED BY <2>1, <3>1, <4>1
    <3> QED BY <1>4, <3>1, <3>2
  <2>2. <<echo>> \in Seq(Replies) /\ Len(<<echo>>) = 1 /\ \A i \in 1..1 : <<echo>>[i] = echo
    BY <1>3
  <2>3. /\ <<echo, echo>> \in Seq(Replies) /\ Len(<<echo, echo>>) = 2
        /\ \A i \in 1..2 : <<echo, echo>>[i] = echo
    BY <1>3
  <2>4. CASE toClient' = toClient \o <<echo>>
    <3>1. 1 \in 1..2
      OBVIOUS
    <3>2. /\ toClient' \in Seq(Replies) /\ Len(toClient') = Len(toClient) + 1
          /\ \A i \in 1..Len(toClient) : toClient'[i] = toClient[i]
          /\ \A i \in Len(toClient) + 1..Len(toClient) + 1 : toClient'[i] = echo
      BY <2>1, <2>2, <2>4, <3>1
    <3> QED BY <3>1, <3>2
  <2>5. CASE toClient' = toClient \o <<echo, echo>>
    <3>1. 2 \in 1..2
      OBVIOUS
    <3>2. /\ toClient' \in Seq(Replies) /\ Len(toClient') = Len(toClient) + 2
          /\ \A i \in 1..Len(toClient) : toClient'[i] = toClient[i]
          /\ \A i \in Len(toClient) + 1..Len(toClient) + 2 : toClient'[i] = echo
      BY <2>1, <2>3, <2>5, <3>1
    <3> QED BY <3>1, <3>2
  <2> QED BY <1>1, <2>4, <2>5
<1>6. TypeOK'
  BY <1>1 DEF ClientInv, TypeOK, callVars, watchVars, serverVars
<1>7. WireInv'
  BY <1>1, <1>2, <1>5 DEF ClientInv, WireInv, callVars
<1>8. ASSUME NEW x \in Calls, pc[x] \in {"sentinel", "read"}
      PROVE  UnderWay(x)'
  <2>1. UnderWay(x)
    BY <1>2, <1>8
  <2>2. ~Command(x).sentinel /\ Sentinel(x).id = ids[x][2]
    BY DEF Command, Sentinel, Request
  <2>3. toServer = <<Sentinel(x)>> /\ pc[x] = "read"
    <3>1. toServer # <<Command(x)>> /\ toServer # <<Command(x), Sentinel(x)>>
      BY <1>1, <1>2, <2>2
    <3> QED BY <1>2, <1>8, <2>1, <3>1 DEF UnderWay
  <2>4. r = Sentinel(x) /\ echo.id = ids[x][2]
    BY <1>2, <1>3, <2>2, <2>3
  <2>5. toServer' = <<>>
    BY <1>1, <2>3
  <2>6. ids'[x] = ids[x] /\ body'[x] = body[x] /\ pc' = pc /\ nextID' = nextID
        /\ size' = size /\ sent' = sent
    BY <1>1 DEF callVars, serverVars
  <2>7. ~Busy /\ ~Busy' /\ Produced(x)' = Produced(x) /\ sent = 0
    <3>1. ~Busy
      BY <1>1, <1>2 DEF Busy
    <3>2. ~Busy'
      BY <2>5 DEF Busy
    <3> QED BY <2>1, <2>6, <3>1, <3>2 DEF Produced, UnderWay
  <2>8. PICK left \in 0..1 : OnWire(x, left, 0)
    <3>1. PICK left \in 0..1, echoes \in 0..2 : OnWire(x, left, echoes)
      BY <2>1 DEF UnderWay
    <3>2. echoes = 0
      BY <1>2, <3>1 DEF OnWire
    <3> QED BY <3>1, <3>2
  <2>9. Len(body[x]) \in Nat /\ Produced(x) \in Nat
    <3>1. body[x] \in Seq(Nat)
      BY DEF ClientInv, WireInv
    <3> QED BY <3>1, LenProperties DEF Produced, ClientInv, TypeOK
  <2>10. PICK read \in Nat, unread \in Nat :
           read = Len(body[x]) /\ unread = Produced(x) - Len(body[x])
    BY <2>8, <2>9 DEF OnWire
  <2>11. Len(toClient) = left + unread
    BY <2>8, <2>10 DEF OnWire
  <2>12. /\ \A i \in 1..left : toClient[i].id \notin {ids[x][1], ids[x][2]}
         /\ \A i \in left + 1..left + unread :
              toClient[i].id = ids[x][1] /\ toClient[i].part = read + i - left
    BY <2>8, <2>10 DEF OnWire
  <2>13. /\ \A i \in 1..left : toClient'[i].id \notin {ids[x][1], ids[x][2]}
         /\ \A i \in left + 1..left + unread :
              toClient'[i].id = ids[x][1] /\ toClient'[i].part = read + i - left
    BY <1>5, <2>11, <2>12
  <2>14. \A i \in left + unread + 1..left + unread + n : toClient'[i].id = ids[x][2]
    BY <1>5, <2>4, <2>11
  <2>15. OnWire(x, left, n)'
    <3>1. /\ Produced(x)' - Len(body'[x]) = unread /\ Len(body'[x]) = read /\ unread >= 0
          /\ Len(toClient') = left + unread + n
      BY <1>5, <2>6, <2>7, <2>10, <2>11
    <3>2. toServer' = <<>> /\ pc'[x] = "read"
      BY <2>3, <2>5, <2>6
    <3> QED BY <2>6, <2>13, <2>14, <3>1, <3>2 DEF OnWire
  <2>16. \E l \in 0..1, e \in 0..2 : OnWire(x, l, e)'
    <3>1. n \in 0..2
      OBVIOUS
    <3> QED BY <2>15, <3>1
  <2> QED BY <2>1, <2>3, <2>5, <2>6, <2>7, <2>16 DEF UnderWay
<1>9. \A i \in DOMAIN toServer' : \E j \in DOMAIN toServer : toServer'[i] = toServer[j]
  BY <1>1, <1>2
<1> QED BY <1>1, <1>2, <1>6, <1>7, <1>8, <1>9, ServerInv DEF serverVars

-----------------------------------------------------------------------------
(* Watchers, time and the network leave what has been sent alone.          *)
LEMMA OtherSteps ==
  ASSUME ClientInv,
         \/ \E x \in Parties : Watch(x) \/ Cancel(x)
         \/ DeadlinePasses \/ Close \/ ServerGone \/ UNCHANGED vars
  PROVE  ClientInv'
<1>1. TypeOK'
  BY DEF ClientInv, Watch, Park, Fire, Cancel, DeadlinePasses, Close, ServerGone, vars,
         TypeOK, Ended, callVars, watchVars, wireVars, serverVars
<1>2. /\ link = "closed" => link' = "closed"
      /\ UNCHANGED <<callVars, serverVars, aligned, toServer, toClient>>
  BY DEF Watch, Park, Fire, Cancel, DeadlinePasses, Close, ServerGone, vars,
         watchVars, wireVars
<1> QED BY <1>1, <1>2, Elsewhere

(* A connection that has just been made.                                   *)
LEMMA ClientInit ==
  ASSUME Init
  PROVE  ClientInv
<1> USE ClientAssumption DEF Init, Parties
<1>1. TypeOK
  <2>1. pc \in [Parties -> {"new", "deadline", "send", "sentinel", "read"} \cup Ended]
    OBVIOUS
  <2>2. ids \in [Parties -> (0..MaxId) \X (0..MaxId)] /\ nextID \in 0..MaxId
    OBVIOUS
  <2>3. watcher \in [Parties -> {"none", "spawned", "parked", "firing", "gone"}]
    OBVIOUS
  <2> QED BY <2>1, <2>2, <2>3 DEF TypeOK
<1>2. WireInv
  <2>1. <<>> \in Seq(Requests) /\ <<>> \in Seq(Replies) /\ <<>> \in Seq(Nat)
    BY EmptySeq
  <2> QED BY <2>1 DEF WireInv
<1>3. MutexInv /\ BrokenInv
  BY DEF MutexInv, BrokenInv
<1>4. AuthInv /\ RequestInv /\ IdleInv
  BY DEF AuthInv, RequestInv, IdleInv
<1>5. ExchangeInv /\ AcceptedByServer /\ WholeResponse
  BY DEF ExchangeInv, AcceptedByServer, WholeResponse
<1> QED BY <1>1, <1>2, <1>3, <1>4, <1>5 DEF ClientInv

(* Every step keeps the invariant.                                         *)
LEMMA ClientStep ==
  ASSUME ClientInv, [Next]_vars
  PROVE  ClientInv'
<1>1. ASSUME NEW x \in Calls, Exchange(x) PROVE ClientInv'
  <2>1. x \in Parties
    BY DEF Parties
  <2> QED BY <1>1, <2>1, LockStep, SetDeadlineStep, SendStep, SendSentinelStep, ReadStep,
             ReadFailsStep DEF Exchange
<1>2. CASE Handshake
  <2>1. Dialler \in Parties
    BY DEF Parties
  <2> QED BY <1>2, <2>1, SetDeadlineStep, SendAuthStep, AuthenticateStep, AuthFailsStep
          DEF Handshake
<1>3. CASE ServerAuth \/ ServerReply \/ ServerEcho
  BY <1>3, ServerAuthStep, ServerReplyStep, ServerEchoStep
<1>4. CASE \/ \E x \in Parties : Watch(x) \/ Cancel(x)
           \/ DeadlinePasses \/ Close \/ ServerGone \/ UNCHANGED vars
  BY <1>4, OtherSteps
<1> QED BY <1>1, <1>2, <1>3, <1>4 DEF Next

(* The inductive invariant of one connection.                              *)
THEOREM ClientInductive == Spec => []ClientInv
<1>1. Init => ClientInv
  BY ClientInit
<1>2. ClientInv /\ [Next]_vars => ClientInv'
  BY ClientStep
<1> QED BY <1>1, <1>2, PTL DEF Spec

(* Every variable keeps its type.                                          *)
THEOREM ClientTyping == Spec => []TypeOK
<1>1. ClientInv => TypeOK
  BY DEF ClientInv
<1> QED BY <1>1, ClientInductive, PTL

(* Execute returns all of the reply to its own command and nothing else,   *)
(* for any number of calls and packets, when identifiers wrap, and         *)
(* whatever the exchange before has left on the wire.                      *)
THEOREM ResponsesAreWhole == Spec => []WholeResponse
<1>1. ClientInv => WholeResponse
  BY DEF ClientInv
<1> QED BY <1>1, ClientInductive, PTL

(* Dial returns a connection only if the server has accepted the password. *)
THEOREM AcceptanceIsTheServers == Spec => []AcceptedByServer
<1>1. ClientInv => AcceptedByServer
  BY DEF ClientInv
<1> QED BY <1>1, ClientInductive, PTL

(* An exchange begins and goes on at the first byte of a packet only.      *)
THEOREM ReadsAreAligned == Spec => []AlignedReads
<1>1. ClientInv => AlignedReads
  BY Alone DEF AlignedReads
<1> QED BY <1>1, ClientInductive, PTL

=============================================================================
