--------------------------- MODULE SessionProofs ---------------------------
(* Theorems about Session, for every set of callers, sessions and          *)
(* connections and every pair of delays that SessionAssumption allows.     *)
EXTENDS Session, TLAPS

-----------------------------------------------------------------------------
(* setStatus keeps its fields and the waiters' places well typed, whatever *)
(* place `moved' puts the calling goroutine in.                            *)
LEMMA SetStatusType ==
  ASSUME TypeOK,
         NEW p \in Callers \cup Sids, NEW s,
         NEW st \in Statuses, NEW err \in Errors,
         NEW moved \in [Callers -> CallPCs],
         \A c \in Callers : moved[c] \in Holding => held[c] \in Sids,
         SetStatus(p, s, st, err, moved)
  PROVE  /\ status' \in [Sids -> Statuses]
         /\ lastErr' \in [Sids -> Errors]
         /\ pend' \in [Callers \cup Sids -> Statuses \cup {""}]
         /\ pc' \in [Callers -> CallPCs]
         /\ \A c \in Callers : pc'[c] \in Holding => held[c] \in Sids
<1>1. CASE status[s] = st /\ lastErr[s] = err
  BY <1>1 DEF SetStatus, TypeOK
<1>2. CASE ~(status[s] = st /\ lastErr[s] = err)
  <2>1. /\ status' = [status EXCEPT ![s] = st]
        /\ lastErr' = [lastErr EXCEPT ![s] = err]
        /\ pend' = [pend EXCEPT ![p] = st]
        /\ pc' = [c \in Callers |-> IF moved[c] = "waiting" /\ held[c] = s
                                    THEN "check" ELSE moved[c]]
    BY <1>2 DEF SetStatus
  <2>2. status' \in [Sids -> Statuses] /\ lastErr' \in [Sids -> Errors]
    BY <2>1 DEF TypeOK
  <2>3. pend' \in [Callers \cup Sids -> Statuses \cup {""}]
    BY <2>1 DEF TypeOK
  <2>4. /\ pc' \in [Callers -> CallPCs]
        /\ \A c \in Callers : pc'[c] \in Holding => held[c] \in Sids
    BY <2>1 DEF CallPCs, Holding
  <2>5. QED
    BY <2>2, <2>3, <2>4
<1>3. QED
  BY <1>1, <1>2

(* Connect keeps the variables it assigns well typed.                      *)
LEMMA ManagerConnectType ==
  ASSUME TypeOK, ManagerConnect
  PROVE  /\ sess' \in Sids \cup {None}
         /\ status' \in [Sids -> Statuses]
         /\ lastErr' \in [Sids -> Errors]
         /\ client' \in [Sids -> Conns \cup {None}]
         /\ broken' \in [Sids -> Conns \cup {None}]
         /\ brokenClosed' \in [Sids -> BOOLEAN]
         /\ cancelled' \subseteq Sids
         /\ supv' \in [Sids -> SupvPCs]
         /\ conn' \in [Sids -> Conns \cup {None}]
         /\ backoff' \in [Sids -> Nat]
         /\ live' \subseteq Conns
<1> USE SessionAssumption DEF TypeOK
<1>1. PICK s \in FreeSids : ManagerConnect!(s)
  BY DEF ManagerConnect
<1>2. s \in Sids
  BY DEF FreeSids
<1>3. /\ sess' \in Sids \cup {None} 
      /\ cancelled' \subseteq Sids
      /\ live' \subseteq Conns
  BY <1>1, <1>2 DEF Replaced
<1>4. client' \in [Sids -> Conns \cup {None}]
  BY <1>1, <1>2
<1>5. /\ status' \in [Sids -> Statuses]
      /\ lastErr' \in [Sids -> Errors]
      /\ supv' \in [Sids -> SupvPCs]
  BY <1>1, <1>2 DEF Statuses, Errors, SupvPCs
<1>6. /\ broken' \in [Sids -> Conns \cup {None}]
      /\ brokenClosed' \in [Sids -> BOOLEAN]
      /\ conn' \in [Sids -> Conns \cup {None}]
      /\ backoff' \in [Sids -> Nat]
  BY <1>1, <1>2
<1>7. QED
  BY <1>3, <1>4, <1>5, <1>6

(* TypeOK is inductive together with HeldOK.                                *)
Typed == TypeOK /\ HeldOK

(* Typing: every variable keeps to its type, whatever goroutine moves.     *)
LEMMA TypeStep == Typed /\ [Next]_vars => Typed'
<1> USE SessionAssumption DEF Typed, HeldOK, sessionVars, supvVars, callVars, linkVars
<1> SUFFICES ASSUME Typed, [Next]_vars
             PROVE  Typed'
  OBVIOUS
<1>1. ASSUME NEW s \in Sids, SupvCheck(s) \/ Begin(s)
      PROVE  Typed'
  <2>1. pc \in [Callers -> CallPCs] /\ "connecting" \in Statuses
        /\ "" \in Errors
    BY DEF TypeOK, Statuses, Errors
  <2>2. /\ status' \in [Sids -> Statuses]
           /\ lastErr' \in [Sids -> Errors]
           /\ pend' \in [Callers \cup Sids -> Statuses \cup {""}]
           /\ pc' \in [Callers -> CallPCs]
           /\ \A c \in Callers : pc'[c] \in Holding => held[c] \in Sids
    <3>1. CASE UNCHANGED <<status, lastErr, pend, pc>>
      BY <3>1 DEF TypeOK
    <3>2. CASE SetStatus(s, s, "connecting", "", pc)
      BY <2>1, <3>2, SetStatusType
    <3>3. QED
      BY <1>1, <3>1, <3>2 DEF SupvCheck, Begin
  <2>3. QED
    <3>1. CASE SupvCheck(s)
      BY <2>2, <3>1 DEF SupvCheck, TypeOK, SupvPCs
    <3>2. CASE Begin(s)
      BY <2>2, <3>2 DEF Begin, TypeOK, SupvPCs
    <3>3. QED
      BY <1>1, <3>1, <3>2
<1>2. ASSUME NEW s \in Sids, DialOk(s)
      PROVE  Typed'
  <2>1. PICK k \in FreeConns :
          /\ conn' = [conn EXCEPT ![s] = k]
          /\ live' = live \cup {k}
          /\ signalled' = signalled \ {k}
    BY <1>2 DEF DialOk
  <2>2. k \in Conns
    BY DEF FreeConns
  <2>3. /\ conn' \in [Sids -> Conns \cup {None}]
        /\ live' \subseteq Conns /\ signalled' \subseteq Conns
    BY <2>1, <2>2 DEF TypeOK
  <2>4. QED
    BY <1>2, <2>3 DEF DialOk, TypeOK, SupvPCs
<1>3. ASSUME NEW s \in Sids, DialRejected(s)
      PROVE  Typed'
  <2>1. pc \in [Callers -> CallPCs] /\ "auth_failed" \in Statuses
        /\ "auth" \in Errors
    BY DEF TypeOK, Statuses, Errors
  <2>2. /\ status' \in [Sids -> Statuses]
           /\ lastErr' \in [Sids -> Errors]
           /\ pend' \in [Callers \cup Sids -> Statuses \cup {""}]
           /\ pc' \in [Callers -> CallPCs]
           /\ \A c \in Callers : pc'[c] \in Holding => held[c] \in Sids
    BY <1>3, <2>1, SetStatusType DEF DialRejected
  <2>3. QED
    BY <1>3, <2>2 DEF DialRejected, TypeOK, SupvPCs
<1>4. ASSUME NEW s \in Sids, DialError(s)
      PROVE  Typed'
  <2>1. pc \in [Callers -> CallPCs] /\ "disconnected" \in Statuses
        /\ "dial" \in Errors
    BY DEF TypeOK, Statuses, Errors
  <2>2. /\ status' \in [Sids -> Statuses]
           /\ lastErr' \in [Sids -> Errors]
           /\ pend' \in [Callers \cup Sids -> Statuses \cup {""}]
           /\ pc' \in [Callers -> CallPCs]
           /\ \A c \in Callers : pc'[c] \in Holding => held[c] \in Sids
    BY <1>4, <2>1, SetStatusType DEF DialError
  <2>3. QED
    BY <1>4, <2>2 DEF DialError, TypeOK, SupvPCs
<1>5. ASSUME NEW s \in Sids, BackoffWait(s)
      PROVE  Typed'
  <2>1. \A b \in Nat : NextBackoff(b) \in Nat
    BY DEF NextBackoff
  <2>2. backoff' \in [Sids -> Nat]
    <3>1. backoff \in [Sids -> Nat] /\ backoff[s] \in Nat
      BY DEF TypeOK
    <3>2. NextBackoff(backoff[s]) \in Nat
      BY <2>1, <3>1
    <3>3. \/ backoff' = [backoff EXCEPT ![s] = NextBackoff(backoff[s])]
          \/ backoff' = backoff
      BY <1>5 DEF BackoffWait
    <3>4. QED
      BY <3>1, <3>2, <3>3
  <2>3. supv' \in [Sids -> SupvPCs]
    BY <1>5 DEF BackoffWait, TypeOK, SupvPCs
  <2>4. QED
    BY <1>5, <2>2, <2>3 DEF BackoffWait, TypeOK
<1>6. ASSUME NEW s \in Sids, Install(s)
      PROVE  Typed'
  BY <1>6 DEF Install, FreeConns, TypeOK, SupvPCs
<1>7. ASSUME NEW s \in Sids, Announce(s)
      PROVE  Typed'
  <2>1. pc \in [Callers -> CallPCs] /\ "connected" \in Statuses
        /\ "" \in Errors
    BY DEF TypeOK, Statuses, Errors
  <2>2. /\ status' \in [Sids -> Statuses]
           /\ lastErr' \in [Sids -> Errors]
           /\ pend' \in [Callers \cup Sids -> Statuses \cup {""}]
           /\ pc' \in [Callers -> CallPCs]
           /\ \A c \in Callers : pc'[c] \in Holding => held[c] \in Sids
    BY <1>7, <2>1, SetStatusType DEF Announce
  <2>3. QED
    BY <1>7, <2>2 DEF Announce, TypeOK, SupvPCs
<1>8. ASSUME NEW s \in Sids, Watch(s)
      PROVE  Typed'
  BY <1>8 DEF Watch, FreeConns, TypeOK, SupvPCs
<1>9. ASSUME NEW c \in Callers, Execute(c)
      PROVE  Typed'
  BY <1>9 DEF Execute, At, Goto, TypeOK, CallPCs, Holding
<1>10. ASSUME NEW c \in Callers, Connect(c)
      PROVE  Typed'
  BY <1>10, ManagerConnectType DEF Connect, At, Goto, TypeOK, CallPCs, Holding
<1>11. ASSUME NEW c \in Callers, Disconnect(c)
      PROVE  Typed'
  BY <1>11 DEF Disconnect, At, Goto, TypeOK, CallPCs, Holding
<1>12. ASSUME NEW c \in Callers, ExecuteConnect(c)
      PROVE  Typed'
  BY <1>12, ManagerConnectType DEF ExecuteConnect, At, Goto, TypeOK, CallPCs, Holding
<1>13. ASSUME NEW c \in Callers, ExecuteRelook(c)
      PROVE  Typed'
  BY <1>13 DEF ExecuteRelook, At, Goto, TypeOK, CallPCs, Holding
<1>14. ASSUME NEW c \in Callers, WaitReady(c)
      PROVE  Typed'
  <2>1. held[c] \in Sids /\ c \in DOMAIN pc
    BY <1>14 DEF WaitReady, At, TypeOK, Holding
  <2>2. /\ pc' \in [Callers -> CallPCs]
        /\ \A d \in Callers : pc'[d] \in Holding => pc[d] \in Holding
    BY <1>14 DEF WaitReady, At, Goto, TypeOK, CallPCs, Holding
  <2>3. got' \in [Callers -> Conns \cup {None}]
    BY <1>14, <2>1 DEF WaitReady, TypeOK
  <2>4. QED
    BY <1>14, <2>2, <2>3 DEF WaitReady, TypeOK
<1>15. ASSUME NEW c \in Callers, ExecuteOk(c)
      PROVE  Typed'
  BY <1>15 DEF ExecuteOk, At, Goto, TypeOK, CallPCs, Holding
<1>16. ASSUME NEW c \in Callers, ExecuteFail(c)
      PROVE  Typed'
  BY <1>16 DEF ExecuteFail, At, Goto, TypeOK, CallPCs, Holding
<1>17. ASSUME NEW c \in Callers, MarkBroken(c)
      PROVE  Typed'
  <2>1. held[c] \in Sids
    BY <1>17 DEF MarkBroken, At, TypeOK, Holding
  <2>2. /\ pc' \in [Callers -> CallPCs]
        /\ \A d \in Callers : pc'[d] \in Holding => pc[d] \in Holding
    BY <1>17 DEF MarkBroken, At, Goto, TypeOK, CallPCs, Holding
  <2>3. /\ client' \in [Sids -> Conns \cup {None}]
        /\ live' \subseteq Conns
    BY <1>17 DEF MarkBroken, Hangup, TypeOK
  <2>4. brokenClosed' \in [Sids -> BOOLEAN]
    BY <1>17 DEF MarkBroken, TypeOK
  <2>5. signalled' \subseteq Conns
    <3>1. broken[held[c]] \in Conns \cup {None} /\ signalled \subseteq Conns
      BY <2>1 DEF TypeOK
    <3>2. \/ signalled' = signalled
          \/ broken[held[c]] # None /\ signalled' = signalled \cup {broken[held[c]]}
      BY <1>17 DEF MarkBroken, Unsignalled
    <3>3. QED
      BY <3>1, <3>2
  <2>6. panicked' \in BOOLEAN
    BY <1>17 DEF MarkBroken, TypeOK
  <2>7. QED
    BY <1>17, <2>2, <2>3, <2>4, <2>5, <2>6 DEF MarkBroken, TypeOK
<1>18. ASSUME NEW c \in Callers, MarkStatus(c)
      PROVE  Typed'
  <2>1. /\ Goto(c, "errorLine") \in [Callers -> CallPCs]
        /\ "disconnected" \in Statuses /\ "exec" \in Errors
    BY DEF TypeOK, Goto, Statuses, Errors, CallPCs
  <2>2. \A d \in Callers : Goto(c, "errorLine")[d] \in Holding => held[d] \in Sids
    BY <1>18 DEF MarkStatus, At, Goto, TypeOK, Holding
  <2>3. /\ status' \in [Sids -> Statuses]
           /\ lastErr' \in [Sids -> Errors]
           /\ pend' \in [Callers \cup Sids -> Statuses \cup {""}]
           /\ pc' \in [Callers -> CallPCs]
           /\ \A d \in Callers : pc'[d] \in Holding => held[d] \in Sids
    BY <1>18, <2>1, <2>2, SetStatusType DEF MarkStatus
  <2>4. QED
    BY <1>18, <2>3 DEF MarkStatus, TypeOK, Holding
<1>19. ASSUME NEW c \in Callers, ErrorLine(c)
      PROVE  Typed'
  BY <1>19 DEF ErrorLine, At, Goto, TypeOK, CallPCs, Holding
<1>20. ASSUME NEW c \in Callers, Return(c)
      PROVE  Typed'
  BY <1>20 DEF Return, At, Goto, TypeOK, CallPCs, Holding
<1>21. ASSUME NEW c \in Callers, DisconnectStop(c)
      PROVE  Typed'
  <2>1. held[c] \in Sids
    BY <1>21 DEF DisconnectStop, At, TypeOK, Holding
  <2>2. /\ pc' \in [Callers -> CallPCs]
        /\ \A d \in Callers : pc'[d] \in Holding => pc[d] \in Holding
    BY <1>21 DEF DisconnectStop, At, Goto, TypeOK, CallPCs, Holding
  <2>3. /\ client' \in [Sids -> Conns \cup {None}]
        /\ live' \subseteq Conns /\ cancelled' \subseteq Sids
    BY <1>21, <2>1 DEF DisconnectStop, Stop, Hangup, TypeOK
  <2>4. QED
    BY <1>21, <2>2, <2>3 DEF DisconnectStop, TypeOK
<1>22. ASSUME NEW c \in Callers, DisconnectStatus(c)
      PROVE  Typed'
  <2>1. /\ Goto(c, "idle") \in [Callers -> CallPCs]
        /\ "disconnected" \in Statuses /\ "" \in Errors
    BY DEF TypeOK, Goto, Statuses, Errors, CallPCs
  <2>2. \A d \in Callers : Goto(c, "idle")[d] \in Holding => held[d] \in Sids
    BY <1>22 DEF DisconnectStatus, At, Goto, TypeOK, Holding
  <2>3. /\ status' \in [Sids -> Statuses]
           /\ lastErr' \in [Sids -> Errors]
           /\ pend' \in [Callers \cup Sids -> Statuses \cup {""}]
           /\ pc' \in [Callers -> CallPCs]
           /\ \A d \in Callers : pc'[d] \in Holding => held[d] \in Sids
    BY <1>22, <2>1, <2>2, SetStatusType DEF DisconnectStatus
  <2>4. Goto(c, "idle")[c] = "idle"
    BY DEF Goto, TypeOK
  <2>5. pc'[c] = "idle"
    BY <1>22, <2>1, <2>4 DEF DisconnectStatus, SetStatus
  <2>6. held' = [held EXCEPT ![c] = None]
    BY <1>22 DEF DisconnectStatus
  <2>7. HeldOK'
    BY <2>3, <2>5, <2>6 DEF TypeOK, Holding
  <2>8. QED
    BY <1>22, <2>3, <2>6, <2>7 DEF DisconnectStatus, TypeOK
<1>23. ASSUME NEW c \in Callers, GiveUp(c)
      PROVE  Typed'
  BY <1>23 DEF GiveUp, At, Goto, TypeOK, CallPCs, Holding
<1>24. ASSUME NEW p \in Callers \cup Sids, Publish(p)
      PROVE  Typed'
  BY <1>24 DEF Publish, TypeOK
<1>25. CASE Close
  BY <1>25 DEF Close, CloseCancel, CloseStop, CloseWait, TypeOK
<1>26. CASE LinkDies
  BY <1>26 DEF LinkDies, TypeOK
<1>27. CASE UNCHANGED vars
  BY <1>27 DEF vars, TypeOK
<1>28. QED
  BY <1>1, <1>2, <1>3, <1>4, <1>5, <1>6, <1>7, <1>8, <1>9, <1>10, <1>11, <1>12, <1>13, <1>14, <1>15, <1>16, <1>17, <1>18, <1>19, <1>20, <1>21, <1>22, <1>23, <1>24, <1>25, <1>26, <1>27
     DEF Next, Supervise, Request, Goroutine, ExecuteStep, DisconnectStep

(* Every reachable state of the manager is well typed, and a goroutine that *)
(* is past its look-up holds a session, so that no step dereferences nil.   *)
THEOREM Typing == Spec => []TypeOK
<1>1. Init => Typed
  <2> SUFFICES ASSUME Init PROVE Typed
    OBVIOUS
  <2>1. InitialBackoff \in Nat /\ "disconnected" \in Statuses /\ "" \in Errors
    BY SessionAssumption DEF Statuses, Errors
  <2>2. HeldOK /\ pc \in [Callers -> CallPCs] /\ supv \in [Sids -> SupvPCs]
    BY DEF Init, HeldOK, Holding, CallPCs, SupvPCs
  <2>3. QED
    BY <2>1, <2>2 DEF Init, Typed, TypeOK
<1>2. QED
  BY <1>1, TypeStep, PTL DEF Spec, Typed

-----------------------------------------------------------------------------
(* Who is in use.                                                          *)

(* A running supervisor and a goroutine that holds a session keep it in    *)
(* use, and the mapped session is in use.                                  *)
LEMMA InUse ==
  /\ \A s \in Sids : supv[s] # "exit" => s \in Used
  /\ \A c \in Callers : held[c] \in Sids => held[c] \in Used
  /\ sess \in Sids => sess \in Used
  /\ \A s \in Used : s \in Sids
BY DEF Used, FreeSids

(* Nobody but Connect takes a session into use.                            *)
Connecting == \E c \in Callers : Connect(c) \/ ExecuteConnect(c)

(* What a step must not do for its session to stay free.                   *)
LEMMA StaysFree ==
  ASSUME Typed,
         \A s \in Sids : supv[s] = "exit" => supv'[s] = "exit",
         \A s \in Sids : supv[s] = "exit" /\ pend[s] = "" => pend'[s] = "",
         sess' \in {sess, None},
         \A c \in Callers : held'[c] \in {held[c], sess, None}
  PROVE  Used' \subseteq Used
<1> SUFFICES ASSUME NEW s \in Sids, s \in FreeSids
             PROVE  s \in FreeSids'
  BY DEF Used
<1>1. /\ supv[s] = "exit" /\ pend[s] = "" /\ s # sess /\ s # None
      /\ \A c \in Callers : held[c] # s
  BY SessionAssumption DEF FreeSids
<1>2. QED
  BY <1>1 DEF FreeSids

(* setStatus by one goroutine leaves every other's pending line alone.     *)
LEMMA SetStatusPend ==
  ASSUME Typed, NEW p \in Callers \cup Sids, NEW s, NEW st, NEW err, NEW moved,
         SetStatus(p, s, st, err, moved)
  PROVE  \A q \in Callers \cup Sids : q # p => pend'[q] = pend[q]
BY DEF SetStatus, Typed, TypeOK

LEMMA UsedShrinks ==
  ASSUME Typed, Next, ~Connecting
  PROVE  Used' \subseteq Used
<1> USE SessionAssumption DEF sessionVars, supvVars, callVars, linkVars
<1>1. ASSUME NEW s \in Sids, Supervise(s)
      PROVE  Used' \subseteq Used
  <2>1. /\ sess' = sess /\ held' = held
        /\ supv[s] # "exit"
        /\ \A t \in Sids : t # s => supv'[t] = supv[t]
    BY <1>1 DEF Supervise, SupvCheck, Begin, DialOk, DialRejected, DialError,
       BackoffWait, Install, Announce, Watch, Supervising, Typed, TypeOK
  <2>2. \A t \in Sids : t # s => pend'[t] = pend[t]
    <3>1. pend' = pend \/ \E st, err : SetStatus(s, s, st, err, pc)
      BY <1>1 DEF Supervise, SupvCheck, Begin, DialOk, DialRejected, DialError,
         BackoffWait, Install, Announce, Watch
    <3>2. QED
      BY <3>1, SetStatusPend
  <2>3. QED
    BY <2>1, <2>2, StaysFree
<1>2. ASSUME NEW c \in Callers, Request(c) \/ Goroutine(c) \/ GiveUp(c)
      PROVE  Used' \subseteq Used
  <2>1. ~Connect(c) /\ ~ExecuteConnect(c)
    BY DEF Connecting
  <2>2. /\ supv' = supv
        /\ sess' \in {sess, None}
        /\ \A d \in Callers : held'[d] \in {held[d], sess, None}
    BY <1>2, <2>1 DEF Request, Goroutine, ExecuteStep, DisconnectStep, Execute,
       Disconnect, ExecuteRelook, WaitReady, ExecuteOk, ExecuteFail, MarkBroken,
       MarkStatus, ErrorLine, Return, DisconnectStop, DisconnectStatus, GiveUp,
       Typed, TypeOK
  <2>3. \A s \in Sids : pend'[s] = pend[s]
    <3>1. pend' = pend \/ \E s, st, err, moved : SetStatus(c, s, st, err, moved)
      BY <1>2, <2>1 DEF Request, Goroutine, ExecuteStep, DisconnectStep, Execute,
         Disconnect, ExecuteRelook, WaitReady, ExecuteOk, ExecuteFail, MarkBroken,
         MarkStatus, ErrorLine, Return, DisconnectStop, DisconnectStatus, GiveUp
    <3>2. QED
      BY <3>1, SetStatusPend
  <2>4. QED
    BY <2>2, <2>3, StaysFree
<1>3. ASSUME NEW p \in Callers \cup Sids, Publish(p)
      PROVE  Used' \subseteq Used
  BY <1>3, StaysFree DEF Publish, Typed, TypeOK
<1>4. CASE Close
  BY <1>4, StaysFree DEF Close, CloseCancel, CloseStop, CloseWait
<1>5. CASE LinkDies
  BY <1>5, StaysFree DEF LinkDies
<1>6. QED
  BY <1>1, <1>2, <1>3, <1>4, <1>5 DEF Next

-----------------------------------------------------------------------------
(* The part of IInv that is about connections and their channels.          *)

LinkInv ==
  /\ OwnerInv /\ FreshInv /\ ChannelInv /\ ClientInv /\ WatchInv /\ LiveInv
  /\ NoDoubleClose

(* The steps that leave the fields of every session alone: connections may *)
(* die, sessions may be cancelled or go out of use, and a supervisor keeps *)
(* its connection, or stays without one.                                   *)
Minor ==
  /\ UNCHANGED <<conn, broken, brokenClosed, client, signalled, panicked>>
  /\ live' \subseteq live /\ cancelled \subseteq cancelled'
  /\ Used' \subseteq Used
  /\ \A s \in Sids :
       \/ supv'[s] = supv[s]
       \/ supv[s] \notin Owning /\ supv'[s] \notin Owning
       \/ supv[s] = "announce" /\ supv'[s] = "watch"

LEMMA MinorLinkInv == Typed /\ LinkInv /\ Minor => LinkInv'
<1> SUFFICES ASSUME Typed, LinkInv, Minor
             PROVE  LinkInv'
  OBVIOUS
<1> USE DEF LinkInv
<1>1. /\ conn' = conn /\ broken' = broken /\ brokenClosed' = brokenClosed
      /\ client' = client /\ signalled' = signalled /\ panicked' = panicked
      /\ live' \subseteq live /\ cancelled \subseteq cancelled'
      /\ Used' \subseteq Used
  BY DEF Minor
<1>2. /\ \A s \in Sids : supv'[s] \in Owning <=> supv[s] \in Owning
      /\ \A s \in Sids : supv'[s] = "install" => supv[s] = "install"
      /\ \A s \in Sids : supv'[s] \in {"announce", "watch"} =>
                           supv[s] \in {"announce", "watch"}
  BY DEF Minor, Owning
<1>3. OwnerInv'
  BY <1>1, <1>2 DEF OwnerInv
<1>4. FreshInv'
  BY <1>1, <1>2 DEF FreshInv
<1>5. ChannelInv'
  BY <1>1 DEF ChannelInv
<1>6. ClientInv'
  BY <1>1 DEF ClientInv
<1>7. WatchInv'
  BY <1>1, <1>2 DEF WatchInv
<1>8. LiveInv' /\ NoDoubleClose'
  BY <1>1 DEF LiveInv, NoDoubleClose
<1>9. QED
  BY <1>3, <1>4, <1>5, <1>6, <1>7, <1>8

(* A new connection is one that nothing in use refers to.                  *)
LEMMA DialLinkInv ==
  ASSUME Typed, LinkInv, Used' \subseteq Used, NEW s \in Sids, DialOk(s)
  PROVE  LinkInv'
<1> USE DEF LinkInv
<1>1. PICK k \in FreeConns :
        /\ conn' = [conn EXCEPT ![s] = k]
        /\ live' = live \cup {k}
        /\ signalled' = signalled \ {k}
  BY DEF DialOk
<1>2. /\ supv[s] = "dial" /\ supv' = [supv EXCEPT ![s] = "install"]
      /\ broken' = broken /\ brokenClosed' = brokenClosed
      /\ client' = client /\ panicked' = panicked /\ cancelled' = cancelled
  BY DEF DialOk, Supervising, sessionVars
<1>3. /\ k # None /\ k \notin live
      /\ \A t \in Used : k # client[t] /\ k # broken[t] /\ k # conn[t]
  BY SessionAssumption DEF FreeConns, Used
<1>4. \A t \in Sids : supv[t] # "exit" => t \in Used
  BY InUse
<1>5. \A t \in Sids : conn[t] # k
  BY <1>3, <1>4 DEF OwnerInv, Owning
<1>6. /\ conn \in [Sids -> Conns \cup {None}] /\ supv \in [Sids -> SupvPCs]
  BY DEF Typed, TypeOK
<1>7. /\ conn'[s] = k /\ supv'[s] = "install"
      /\ \A t \in Sids \ {s} : conn'[t] = conn[t] /\ supv'[t] = supv[t]
  BY <1>1, <1>2, <1>6
<1>8. OwnerInv'
  BY <1>2, <1>3, <1>5, <1>7 DEF OwnerInv, Owning
<1>9. FreshInv'
  BY <1>1, <1>2, <1>3, <1>5, <1>7 DEF FreshInv
<1>10. ChannelInv'
  BY <1>1, <1>2, <1>3 DEF ChannelInv
<1>11. ClientInv'
  BY <1>1, <1>2 DEF ClientInv
<1>12. WatchInv'
  <2>1. ASSUME NEW t \in Sids, supv'[t] \in {"announce", "watch"}
        PROVE  t # s /\ supv[t] = supv'[t] /\ conn'[t] = conn[t] /\ conn[t] # k
    BY <1>5, <1>7, <2>1
  <2>2. QED
    BY <1>1, <1>2, <2>1 DEF WatchInv
<1>13. LiveInv'
  <2>1. conn[s] = None /\ None \notin live
    BY <1>2, SessionAssumption DEF OwnerInv, Owning, Typed, TypeOK
  <2>2. QED
    BY <1>1, <1>7, <2>1 DEF LiveInv
<1>14. NoDoubleClose'
  BY <1>2 DEF NoDoubleClose
<1>15. QED
  BY <1>8, <1>9, <1>10, <1>11, <1>12, <1>13, <1>14

(* Installing it replaces the channel and resets its guard together.       *)
LEMMA InstallLinkInv ==
  ASSUME Typed, LinkInv, Used' \subseteq Used, NEW s \in Sids, Install(s)
  PROVE  LinkInv'
<1> USE DEF LinkInv
<1>1. /\ supv[s] = "install" /\ supv' = [supv EXCEPT ![s] = "announce"]
      /\ client' = [client EXCEPT ![s] = conn[s]]
      /\ broken' = [broken EXCEPT ![s] = conn[s]]
      /\ brokenClosed' = [brokenClosed EXCEPT ![s] = FALSE]
      /\ conn' = conn /\ live' = live /\ signalled' = signalled
      /\ panicked' = panicked /\ cancelled' = cancelled
  BY DEF Install, Supervising, linkVars
<1>2. /\ conn \in [Sids -> Conns \cup {None}] /\ supv \in [Sids -> SupvPCs]
      /\ client \in [Sids -> Conns \cup {None}]
      /\ broken \in [Sids -> Conns \cup {None}]
      /\ brokenClosed \in [Sids -> BOOLEAN]
  BY DEF Typed, TypeOK
<1>3. /\ supv'[s] = "announce" /\ client'[s] = conn[s] /\ broken'[s] = conn[s]
      /\ ~brokenClosed'[s]
      /\ \A t \in Sids \ {s} :
           /\ supv'[t] = supv[t] /\ client'[t] = client[t]
           /\ broken'[t] = broken[t] /\ brokenClosed'[t] = brokenClosed[t]
  BY <1>1, <1>2
<1>4. /\ conn[s] # None /\ conn[s] \notin signalled /\ s \in Used
      /\ \A t \in Used : conn[s] # client[t] /\ conn[s] # broken[t]
      /\ \A t \in Sids \ {s} : conn[t] # conn[s]
  BY <1>1, InUse DEF OwnerInv, Owning, FreshInv
<1>5. OwnerInv'
  BY <1>1, <1>3 DEF OwnerInv, Owning
<1>6. FreshInv'
  <2> SUFFICES ASSUME NEW t \in Sids, supv'[t] = "install"
               PROVE  /\ conn[t] \notin signalled
                      /\ \A u \in Used' : conn[t] # client'[u] /\ conn[t] # broken'[u]
    BY <1>1 DEF FreshInv
  <2>1. t # s /\ supv[t] = "install"
    BY <1>3
  <2>2. QED
    BY <1>3, <1>4, <2>1, InUse DEF FreshInv
<1>7. ChannelInv'
  <2>1. \A t \in Used' : t \in Sids /\ t \in Used
    BY InUse
  <2>2. QED
    BY <1>1, <1>3, <1>4, <2>1 DEF ChannelInv
<1>8. ClientInv'
  <2>1. \A t \in Used' : t \in Sids /\ t \in Used
    BY InUse
  <2>2. QED
    BY <1>1, <1>3, <1>4, <2>1 DEF ClientInv
<1>9. WatchInv'
  BY <1>1, <1>3 DEF WatchInv
<1>10. LiveInv' /\ NoDoubleClose'
  BY <1>1 DEF LiveInv, NoDoubleClose
<1>11. QED
  BY <1>5, <1>6, <1>7, <1>8, <1>9, <1>10

(* A supervisor lets go of its connection only when the session no longer  *)
(* names it, or when it has closed it.                                     *)
LEMMA WatchLinkInv ==
  ASSUME Typed, LinkInv, Used' \subseteq Used, NEW s \in Sids, Watch(s)
  PROVE  LinkInv'
<1> USE DEF LinkInv
<1>1. /\ supv[s] = "watch" /\ conn' = [conn EXCEPT ![s] = None]
      /\ \/ /\ conn[s] \in signalled /\ live' = live
            /\ supv' = [supv EXCEPT ![s] = "check"]
         \/ /\ live' = live \ {conn[s]}
            /\ supv' = [supv EXCEPT ![s] = "exit"]
      /\ broken' = broken /\ brokenClosed' = brokenClosed /\ client' = client
      /\ signalled' = signalled /\ panicked' = panicked
      /\ cancelled' = cancelled
  BY DEF Watch, Supervising, sessionVars
<1>2. conn \in [Sids -> Conns \cup {None}] /\ supv \in [Sids -> SupvPCs]
  BY DEF Typed, TypeOK
<1>3. /\ conn'[s] = None /\ supv'[s] \in {"check", "exit"}
      /\ \A t \in Sids \ {s} : conn'[t] = conn[t] /\ supv'[t] = supv[t]
  BY <1>1, <1>2
<1>4. s \in Used
  BY <1>1, InUse
<1>5. conn[s] \notin live'
  BY <1>1, <1>4 DEF WatchInv, ClientInv, OwnerInv, Owning
<1>6. OwnerInv'
  BY <1>3 DEF OwnerInv, Owning
<1>7. FreshInv'
  BY <1>1, <1>3 DEF FreshInv
<1>8. ChannelInv'
  BY <1>1 DEF ChannelInv
<1>9. ClientInv'
  BY <1>1 DEF ClientInv
<1>10. WatchInv'
  BY <1>1, <1>3 DEF WatchInv
<1>11. LiveInv'
  BY <1>1, <1>3, <1>5 DEF LiveInv
<1>12. NoDoubleClose'
  BY <1>1 DEF NoDoubleClose
<1>13. QED
  BY <1>6, <1>7, <1>8, <1>9, <1>10, <1>11, <1>12

(* markBroken closes a channel whose guard says that it is open, and with  *)
(* it the connection the supervisor is then told to replace.               *)
LEMMA MarkLinkInv ==
  ASSUME Typed, LinkInv, Used' \subseteq Used, NEW c \in Callers, MarkBroken(c)
  PROVE  LinkInv'
<1> DEFINE h == held[c]
           signal == broken[h] # None /\ ~brokenClosed[h]
<1> USE DEF LinkInv
<1>1. /\ client' = [client EXCEPT ![h] = None]
      /\ live' = live \ {client[h]}
      /\ brokenClosed' = [brokenClosed EXCEPT ![h] = @ \/ signal]
      /\ signalled' = IF signal THEN signalled \cup {broken[h]} ELSE signalled
      /\ panicked' = (panicked \/ (signal /\ broken[h] \in signalled))
      /\ conn' = conn /\ broken' = broken /\ supv' = supv
      /\ cancelled' = cancelled
  BY DEF MarkBroken, Hangup, Unsignalled, supvVars
<1>2. /\ client \in [Sids -> Conns \cup {None}]
      /\ brokenClosed \in [Sids -> BOOLEAN]
  BY DEF Typed, TypeOK
<1>3. h \in Sids /\ h \in Used
  BY InUse DEF MarkBroken, At, Typed, TypeOK, HeldOK, Holding
<1> HIDE DEF h
<1>4. /\ client'[h] = None
      /\ broken[h] # None => brokenClosed'[h]
      /\ \A t \in Sids \ {h} : /\ client'[t] = client[t]
                               /\ brokenClosed'[t] = brokenClosed[t]
  BY <1>1, <1>2, <1>3
<1>5. /\ \A k \in signalled : k \in signalled'
      /\ \A k \in signalled' : k \in signalled \/ (broken[h] # None /\ k = broken[h])
      /\ broken[h] # None => broken[h] \in signalled'
      /\ \A k \in live' : k \in live
  BY <1>1, <1>3 DEF ChannelInv
<1>6. \A t \in Used' : t \in Used /\ t \in Sids
  BY InUse
<1>7. OwnerInv'
  BY <1>1 DEF OwnerInv
<1>8. FreshInv'
  BY <1>1, <1>3, <1>4, <1>5, <1>6, InUse DEF FreshInv, OwnerInv, Owning
<1>9. ChannelInv'
  BY <1>1, <1>3, <1>4, <1>5, <1>6 DEF ChannelInv
<1>10. ClientInv'
  BY <1>1, <1>3, <1>4, <1>5, <1>6 DEF ClientInv, ChannelInv
<1>11. WatchInv'
  <2> SUFFICES ASSUME NEW t \in Sids, supv[t] \in {"announce", "watch"}
               PROVE  /\ broken[t] = conn[t]
                      /\ conn[t] \in live' => client'[t] = conn[t]
                      /\ t \notin cancelled /\ conn[t] \notin signalled' =>
                           client'[t] = conn[t]
    BY <1>1 DEF WatchInv
  <2>1. /\ broken[t] = conn[t] /\ conn[t] # None
        /\ conn[t] \in live => client[t] = conn[t]
        /\ t \notin cancelled /\ conn[t] \notin signalled => client[t] = conn[t]
    BY DEF WatchInv, OwnerInv, Owning
  <2>2. CASE t = h
    BY <1>1, <1>5, <2>1, <2>2
  <2>3. CASE t # h
    BY <1>4, <1>5, <2>1, <2>3
  <2>4. QED
    BY <2>2, <2>3
<1>12. LiveInv'
  BY <1>1, <1>5 DEF LiveInv
<1>13. NoDoubleClose'
  BY <1>1, <1>3 DEF NoDoubleClose, ChannelInv
<1>14. QED
  BY <1>7, <1>8, <1>9, <1>10, <1>11, <1>12, <1>13

(* Stopping sessions: their clients are closed and forgotten, and their    *)
(* contexts are cancelled.                                                 *)
LEMMA StopLinkInv ==
  ASSUME Typed, LinkInv, Used' \subseteq Used, NEW S \in SUBSET Sids,
         client' = [s \in Sids |-> IF s \in S THEN None ELSE client[s]],
         live' = live \ {client[s] : s \in S},
         S \subseteq cancelled', cancelled \subseteq cancelled',
         UNCHANGED <<conn, broken, brokenClosed, signalled, panicked, supv>>
  PROVE  LinkInv'
<1> USE DEF LinkInv
<1>1. /\ conn' = conn /\ broken' = broken /\ brokenClosed' = brokenClosed
      /\ signalled' = signalled /\ panicked' = panicked /\ supv' = supv
  OBVIOUS
<1>2. /\ \A s \in S : client'[s] = None
      /\ \A s \in Sids \ S : client'[s] = client[s]
  OBVIOUS
<1>3. OwnerInv'
  BY <1>1 DEF OwnerInv
<1>4. FreshInv'
  <2> SUFFICES ASSUME NEW s \in Sids, supv[s] = "install"
               PROVE  /\ conn[s] \notin signalled
                      /\ \A t \in Used' : conn[s] # client'[t] /\ conn[s] # broken[t]
    BY <1>1 DEF FreshInv
  <2>1. conn[s] # None
    BY DEF OwnerInv, Owning
  <2>2. QED
    BY <1>2, <2>1, InUse DEF FreshInv
<1>5. ChannelInv'
  BY <1>1 DEF ChannelInv
<1>6. ClientInv'
  BY <1>1, <1>2, InUse DEF ClientInv
<1>7. WatchInv'
  <2> SUFFICES ASSUME NEW s \in Sids, supv[s] \in {"announce", "watch"}
               PROVE  /\ broken[s] = conn[s]
                      /\ conn[s] \in live' => client'[s] = conn[s]
                      /\ s \notin cancelled' /\ conn[s] \notin signalled =>
                           client'[s] = conn[s]
    BY <1>1 DEF WatchInv
  <2>1. CASE s \in S
    BY <2>1 DEF WatchInv
  <2>2. CASE s \notin S
    BY <1>2, <2>2 DEF WatchInv
  <2>3. QED
    BY <2>1, <2>2
<1>8. LiveInv' /\ NoDoubleClose'
  BY <1>1 DEF LiveInv, NoDoubleClose
<1>9. QED
  BY <1>3, <1>4, <1>5, <1>6, <1>7, <1>8

(* Connect stops the mapped session, and the one it starts has nothing.    *)
LEMMA ConnectLinkInv ==
  ASSUME Typed, LinkInv, ManagerConnect, UNCHANGED <<signalled, panicked, pend>>,
         \A c \in Callers : held'[c] = held[c]
  PROVE  LinkInv'
<1> USE DEF LinkInv
<1>1. PICK s \in FreeSids : ManagerConnect!(s)
  BY DEF ManagerConnect
<1> DEFINE stopped == {sess} \cap Sids
<1>2. /\ sess' = s /\ s \in Sids /\ supv[s] = "exit" /\ s # sess
      /\ \A c \in Callers : held[c] # s
  BY <1>1 DEF FreeSids
<1>3. /\ conn' = [conn EXCEPT ![s] = None]
      /\ supv' = [supv EXCEPT ![s] = "check"]
      /\ broken' = [broken EXCEPT ![s] = None]
      /\ brokenClosed' = [brokenClosed EXCEPT ![s] = FALSE]
      /\ client' = [x \in Sids |-> IF x \in {s} \cup stopped THEN None
                                                         ELSE client[x]]
      /\ live' = live \ {client[x] : x \in stopped}
      /\ signalled' = signalled /\ panicked' = panicked
  BY <1>1 DEF Replaced
<1>4. \A x \in Sids \ {s} : x \in cancelled \/ x \in stopped => x \in cancelled'
  BY <1>1 DEF Replaced
<1>5. /\ conn \in [Sids -> Conns \cup {None}] /\ supv \in [Sids -> SupvPCs]
      /\ broken \in [Sids -> Conns \cup {None}]
      /\ brokenClosed \in [Sids -> BOOLEAN]
  BY DEF Typed, TypeOK
<1>6. /\ conn'[s] = None /\ supv'[s] = "check" /\ broken'[s] = None
      /\ client'[s] = None
      /\ \A x \in Sids \ {s} :
           /\ conn'[x] = conn[x] /\ supv'[x] = supv[x] /\ broken'[x] = broken[x]
           /\ brokenClosed'[x] = brokenClosed[x]
           /\ client'[x] = IF x \in stopped THEN None ELSE client[x]
  BY <1>2, <1>3, <1>5
<1>7. conn[s] = None
  BY <1>2 DEF OwnerInv, Owning
<1>8. \A x \in Used' : x \in Sids /\ (x # s => x \in Used)
  <2> SUFFICES ASSUME NEW x \in Sids, x # s, x \in FreeSids
               PROVE  x \in FreeSids'
    BY DEF Used
  <2>1. supv'[x] = "exit" /\ pend'[x] = "" /\ x # sess'
        /\ \A c \in Callers : held'[c] # x
    BY <1>2, <1>6 DEF FreeSids
  <2>2. QED
    BY <2>1 DEF FreeSids
<1> HIDE DEF stopped
<1>9. OwnerInv'
  BY <1>6, <1>7 DEF OwnerInv, Owning
<1>10. FreshInv'
  <2> SUFFICES ASSUME NEW x \in Sids, supv'[x] = "install"
               PROVE  /\ conn'[x] \notin signalled'
                      /\ \A y \in Used' : /\ conn'[x] # client'[y]
                                          /\ conn'[x] # broken'[y]
    BY DEF FreshInv
  <2>1. /\ x # s /\ supv[x] = "install" /\ conn'[x] = conn[x] /\ conn[x] # None
    BY <1>6 DEF OwnerInv, Owning
  <2>2. QED
    BY <1>3, <1>6, <1>8, <2>1 DEF FreshInv
<1>11. ChannelInv'
  BY <1>3, <1>6, <1>8 DEF ChannelInv
<1>12. ClientInv'
  BY <1>3, <1>6, <1>8 DEF ClientInv
<1>13. WatchInv'
  <2> SUFFICES ASSUME NEW x \in Sids, supv'[x] \in {"announce", "watch"}
               PROVE  /\ broken'[x] = conn'[x]
                      /\ conn'[x] \in live' => client'[x] = conn'[x]
                      /\ x \notin cancelled' /\ conn'[x] \notin signalled' =>
                           client'[x] = conn'[x]
    BY DEF WatchInv
  <2>1. /\ x # s /\ supv[x] = supv'[x] /\ conn'[x] = conn[x]
        /\ broken'[x] = broken[x]
    BY <1>6
  <2>2. CASE x \in stopped
    BY <1>3, <1>4, <2>1, <2>2 DEF WatchInv
  <2>3. CASE x \notin stopped
    BY <1>3, <1>4, <1>6, <2>1, <2>3 DEF WatchInv
  <2>4. QED
    BY <2>2, <2>3
<1>14. LiveInv'
  <2>1. None \notin live
    BY SessionAssumption DEF Typed, TypeOK
  <2>2. QED
    BY <1>3, <1>6, <1>7, <2>1 DEF LiveInv
<1>15. NoDoubleClose'
  BY <1>3 DEF NoDoubleClose
<1>16. QED
  BY <1>9, <1>10, <1>11, <1>12, <1>13, <1>14, <1>15

(* Every step of the manager, by what it does to the connections.          *)
LEMMA LinkStep == Typed /\ LinkInv /\ ClosingInv /\ [Next]_vars => LinkInv'
<1> SUFFICES ASSUME Typed, LinkInv, ClosingInv, [Next]_vars
             PROVE  LinkInv'
  OBVIOUS
<1> USE DEF sessionVars, supvVars, callVars, linkVars
<1>1. CASE Connecting
  <2>1. PICK c \in Callers : Connect(c) \/ ExecuteConnect(c)
    BY <1>1 DEF Connecting
  <2>2. ManagerConnect /\ held' = held /\ UNCHANGED <<signalled, panicked, pend>>
    BY <2>1 DEF Connect, ExecuteConnect
  <2>3. QED
    BY <2>2, ConnectLinkInv
<1>2. CASE UNCHANGED vars
  <2>1. Used' = Used
    BY <1>2 DEF vars, Used, FreeSids
  <2>2. Minor
    BY <1>2, <2>1 DEF vars, Minor
  <2>3. QED
    BY <2>2, MinorLinkInv
<1>3. CASE Next /\ ~Connecting
  <2>1. Used' \subseteq Used
    BY <1>3, UsedShrinks
  <2>2. ASSUME NEW s \in Sids, Supervise(s)
        PROVE  LinkInv'
    <3>1. CASE SupvCheck(s) \/ Begin(s) \/ DialRejected(s) \/ DialError(s) \/ BackoffWait(s)
                 \/ Announce(s)
      <4>1. \A t \in Sids :
              \/ supv'[t] = supv[t]
              \/ supv[t] \notin Owning /\ supv'[t] \notin Owning
              \/ supv[t] = "announce" /\ supv'[t] = "watch"
        BY <3>1 DEF SupvCheck, Begin, DialRejected, DialError, BackoffWait, Announce,
           Supervising, Owning, Typed, TypeOK
      <4>2. Minor
        BY <3>1, <4>1, <2>1 DEF SupvCheck, Begin, DialRejected, DialError, BackoffWait,
           Announce, Minor
      <4>3. QED
        BY <4>2, MinorLinkInv
    <3>2. CASE DialOk(s)
      BY <3>2, <2>1, DialLinkInv
    <3>3. CASE Install(s)
      BY <3>3, <2>1, InstallLinkInv
    <3>4. CASE Watch(s)
      BY <3>4, <2>1, WatchLinkInv
    <3>5. QED
      BY <2>2, <3>1, <3>2, <3>3, <3>4 DEF Supervise
  <2>3. ASSUME NEW c \in Callers, Request(c) \/ Goroutine(c) \/ GiveUp(c)
        PROVE  LinkInv'
    <3>1. ~Connect(c) /\ ~ExecuteConnect(c)
      BY <1>3 DEF Connecting
    <3>2. CASE MarkBroken(c)
      BY <3>2, <2>1, MarkLinkInv
    <3>3. CASE DisconnectStop(c)
      <4>1. held[c] \in Sids
        BY <3>3 DEF DisconnectStop, At, Typed, TypeOK, HeldOK, Holding
      <4>2. /\ client' = [s \in Sids |-> IF s \in {held[c]} THEN None ELSE client[s]]
            /\ live' = live \ {client[s] : s \in {held[c]}}
            /\ cancelled' = cancelled \cup {held[c]}
        BY <3>3 DEF DisconnectStop, Stop, Hangup, Typed, TypeOK
      <4>3. UNCHANGED <<conn, broken, brokenClosed, signalled, panicked, supv>>
        BY <3>3 DEF DisconnectStop
      <4>4. QED
        BY <4>1, <4>2, <4>3, <2>1, StopLinkInv
    <3>4. CASE ~MarkBroken(c) /\ ~DisconnectStop(c)
      <4>1. /\ UNCHANGED <<conn, broken, brokenClosed, client, signalled, panicked>>
            /\ live' \subseteq live /\ cancelled' = cancelled /\ supv' = supv
        BY <2>3, <3>1, <3>4 DEF Request, Goroutine, ExecuteStep, DisconnectStep,
           Execute, Disconnect, ExecuteRelook, WaitReady, ExecuteOk, ExecuteFail,
           MarkStatus, ErrorLine, Return, DisconnectStatus, GiveUp
      <4>2. Minor
        BY <4>1, <2>1 DEF Minor
      <4>3. QED
        BY <4>2, MinorLinkInv
    <3>5. QED
      BY <3>2, <3>3, <3>4
  <2>4. ASSUME NEW p \in Callers \cup Sids, Publish(p)
        PROVE  LinkInv'
    <3>1. Minor
      BY <2>1, <2>4 DEF Publish, Minor
    <3>2. QED
      BY <3>1, MinorLinkInv
  <2>5. CASE Close
    <3>1. CASE CloseCancel \/ CloseWait
      <4>1. Minor
        BY <2>1, <3>1 DEF CloseCancel, CloseWait, Minor, Typed, TypeOK
      <4>2. QED
        BY <4>1, MinorLinkInv
    <3>2. CASE CloseStop
      <4> DEFINE S == {sess} \cap Sids
      <4>1. /\ client' = [s \in Sids |-> IF s \in S THEN None ELSE client[s]]
            /\ live' = live \ {client[s] : s \in S}
            /\ UNCHANGED <<conn, broken, brokenClosed, signalled, panicked, supv>>
        BY <3>2 DEF CloseStop
      <4>2. S \subseteq cancelled' /\ cancelled' = cancelled /\ S \in SUBSET Sids
        BY <3>2 DEF CloseStop, ClosingInv
      <4> HIDE DEF S
      <4>3. QED
        BY <4>1, <4>2, <2>1, StopLinkInv
    <3>3. QED
      BY <2>5, <3>1, <3>2 DEF Close
  <2>6. CASE LinkDies
    <3>1. Minor
      BY <2>1, <2>6 DEF LinkDies, Minor
    <3>2. QED
      BY <3>1, MinorLinkInv
  <2>7. QED
    BY <1>3, <2>2, <2>3, <2>4, <2>5, <2>6 DEF Next
<1>4. QED
  BY <1>1, <1>2, <1>3

-----------------------------------------------------------------------------
(* The part of IInv that is about statuses, waiters and contexts.          *)

(* setStatus sets one session's status, and leaves nobody waiting on a     *)
(* session whose status it has changed.                                    *)
LEMMA SetStatusEffect ==
  ASSUME Typed, NEW p, NEW s \in Sids, NEW st, NEW err,
         NEW moved \in [Callers -> CallPCs],
         SetStatus(p, s, st, err, moved)
  PROVE  /\ status'[s] = st
         /\ \A t \in Sids \ {s} : status'[t] = status[t]
         /\ \A c \in Callers : pc'[c] = "waiting" =>
              moved[c] = "waiting" /\ (held[c] = s => status' = status)
<1>1. status \in [Sids -> Statuses]
  BY DEF Typed, TypeOK
<1>2. CASE status[s] = st /\ lastErr[s] = err
  BY <1>2 DEF SetStatus
<1>3. CASE ~(status[s] = st /\ lastErr[s] = err)
  <2>1. /\ status' = [status EXCEPT ![s] = st]
        /\ pc' = [c \in Callers |-> IF moved[c] = "waiting" /\ held[c] = s
                                    THEN "check" ELSE moved[c]]
    BY <1>3 DEF SetStatus
  <2>2. QED
    BY <1>1, <2>1
<1>4. QED
  BY <1>2, <1>3

LEMMA ClosingStep ==
  Typed /\ LinkInv /\ ClosingInv /\ [Next]_vars => ClosingInv'
<1> SUFFICES ASSUME Typed, LinkInv, ClosingInv, [Next]_vars
             PROVE  ClosingInv'
  OBVIOUS
<1> USE DEF sessionVars, supvVars, callVars, linkVars, ClosingInv, Typed, TypeOK
<1>1. ASSUME NEW s \in Sids, Supervise(s)
      PROVE  ClosingInv'
  <2>1. closing' = closing /\ cancelled' = cancelled
    BY <1>1 DEF Supervise, SupvCheck, Begin, DialOk, DialRejected, DialError,
       BackoffWait, Install, Announce, Watch
  <2>2. \A t \in Sids : supv'[t] \in Owning => supv[t] \in Owning \/ s \notin cancelled
    BY <1>1 DEF Supervise, SupvCheck, Begin, DialOk, DialRejected, DialError,
       BackoffWait, Install, Announce, Watch, Supervising, Owning
  <2>3. QED
    BY <2>1, <2>2
<1>2. ASSUME NEW c \in Callers, Connect(c) \/ ExecuteConnect(c)
      PROVE  ClosingInv'
  <2>1. PICK s \in FreeSids : ManagerConnect!(s)
    BY <1>2 DEF Connect, ExecuteConnect, ManagerConnect
  <2>2. closing' = closing /\ s \in Sids
    BY <1>2 DEF Connect, ExecuteConnect, FreeSids
  <2>3. closing # "open" => cancelled' = Sids
    BY <2>1, <2>2 DEF BornCancelled, Replaced
  <2>4. \A t \in Sids : supv'[t] \in Owning => supv[t] \in Owning
    BY <2>1, <2>2 DEF Owning
  <2>5. QED
    BY <2>2, <2>3, <2>4
<1>3. ASSUME NEW c \in Callers, Request(c) \/ Goroutine(c) \/ GiveUp(c),
             ~Connect(c), ~ExecuteConnect(c)
      PROVE  ClosingInv'
  <2>1. closing' = closing /\ supv' = supv
    BY <1>3 DEF Request, Goroutine, ExecuteStep, DisconnectStep, Execute,
       Disconnect, ExecuteRelook, WaitReady, ExecuteOk, ExecuteFail, MarkBroken,
       MarkStatus, ErrorLine, Return, DisconnectStop, DisconnectStatus, GiveUp
  <2>2. cancelled' = cancelled \/ cancelled' = cancelled \cup {held[c]}
    BY <1>3 DEF Request, Goroutine, ExecuteStep, DisconnectStep, Execute,
       Disconnect, ExecuteRelook, WaitReady, ExecuteOk, ExecuteFail, MarkBroken,
       MarkStatus, ErrorLine, Return, DisconnectStop, DisconnectStatus, GiveUp,
       Stop
  <2>3. cancelled' \subseteq Sids
    BY TypeStep
  <2>4. QED
    BY <2>1, <2>2, <2>3
<1>4. ASSUME NEW p \in Callers \cup Sids, Publish(p)
      PROVE  ClosingInv'
  BY <1>4 DEF Publish
<1>5. CASE Close
  BY <1>5 DEF Close, CloseCancel, CloseStop, CloseWait, Owning
<1>6. CASE LinkDies
  BY <1>6 DEF LinkDies
<1>7. CASE UNCHANGED vars
  BY <1>7 DEF vars
<1>8. QED
  BY <1>1, <1>2, <1>3, <1>4, <1>5, <1>6, <1>7 DEF Next, Goroutine, ExecuteStep,
     Request

LEMMA AnnounceStep ==
  Typed /\ AnnounceInv /\ [Next]_vars => AnnounceInv'
<1> SUFFICES ASSUME Typed, AnnounceInv, [Next]_vars
             PROVE  AnnounceInv'
  OBVIOUS
<1> USE DEF sessionVars, supvVars, callVars, linkVars
<1> DEFINE Before == {"dial", "install", "announce"}
<1>1. /\ supv \in [Sids -> SupvPCs] /\ pc \in [Callers -> CallPCs]
      /\ status \in [Sids -> Statuses]
  BY DEF Typed, TypeOK
<1>2. ASSUME NEW s \in Sids, Supervise(s)
      PROVE  AnnounceInv'
  <2>1. \A t \in Sids \ {s} : supv'[t] = supv[t]
    BY <1>1, <1>2 DEF Supervise, SupvCheck, Begin, DialOk, DialRejected, DialError,
       BackoffWait, Install, Announce, Watch
  <2>2. CASE Begin(s)
    <3>1. SetStatus(s, s, "connecting", "", pc)
      BY <2>2 DEF Begin
    <3>2. /\ status'[s] = "connecting"
          /\ \A t \in Sids \ {s} : status'[t] = status[t]
      BY <1>1, <3>1, SetStatusEffect
    <3>3. QED
      BY <2>1, <3>2 DEF AnnounceInv
  <2>3. CASE DialRejected(s) \/ DialError(s) \/ Announce(s)
    <3>1. supv'[s] \notin Before
      BY <1>1, <2>3 DEF DialRejected, DialError, Announce
    <3>2. \A t \in Sids \ {s} : status'[t] = status[t]
      BY <1>1, <2>3, SetStatusEffect DEF DialRejected, DialError, Announce
    <3>3. QED
      BY <2>1, <3>1, <3>2 DEF AnnounceInv
  <2>4. CASE DialOk(s) \/ BackoffWait(s) \/ Install(s) \/ Watch(s)
             \/ SupvCheck(s)
    <3>1. status' = status /\ (supv'[s] \in Before => supv[s] \in Before)
      BY <1>1, <2>4 DEF DialOk, BackoffWait, Install, Watch, SupvCheck,
         Supervising
    <3>2. QED
      BY <2>1, <3>1 DEF AnnounceInv
  <2>5. QED
    BY <1>2, <2>2, <2>3, <2>4 DEF Supervise
<1>3. ASSUME NEW c \in Callers, Connect(c) \/ ExecuteConnect(c)
      PROVE  AnnounceInv'
  <2>1. PICK s \in FreeSids : ManagerConnect!(s)
    BY <1>3 DEF Connect, ExecuteConnect, ManagerConnect
  <2>2. s \in Sids
    BY DEF FreeSids
  <2>3. QED
    BY <1>1, <2>1, <2>2 DEF AnnounceInv
<1>4. ASSUME NEW c \in Callers, Request(c) \/ Goroutine(c) \/ GiveUp(c),
             ~Connect(c), ~ExecuteConnect(c)
      PROVE  AnnounceInv'
  <2>1. supv' = supv
    BY <1>4 DEF Request, Goroutine, ExecuteStep, DisconnectStep, Execute,
       Disconnect, ExecuteRelook, WaitReady, ExecuteOk, ExecuteFail, MarkBroken,
       MarkStatus, ErrorLine, Return, DisconnectStop, DisconnectStatus, GiveUp
  <2>2. CASE MarkStatus(c) \/ DisconnectStatus(c)
    <3>1. held[c] \in Sids
      BY <2>2 DEF MarkStatus, DisconnectStatus, At, Typed, TypeOK, HeldOK, Holding
    <3>2. PICK err \in Errors, label \in CallPCs :
            SetStatus(c, held[c], "disconnected", err, Goto(c, label))
      BY <2>2 DEF MarkStatus, DisconnectStatus, Errors, CallPCs
    <3>3. \A t \in Sids : status'[t] # status[t] => status'[t] = "disconnected"
      <4>1. Goto(c, label) \in [Callers -> CallPCs]
        BY <1>1 DEF Goto
      <4>2. /\ status'[held[c]] = "disconnected"
            /\ \A t \in Sids \ {held[c]} : status'[t] = status[t]
        BY <3>1, <3>2, <4>1, SetStatusEffect
      <4>3. QED
        BY <4>2
    <3>4. QED
      BY <2>1, <3>3 DEF AnnounceInv
  <2>3. CASE ~MarkStatus(c) /\ ~DisconnectStatus(c)
    <3>1. status' = status
      BY <1>4, <2>3 DEF Request, Goroutine, ExecuteStep, DisconnectStep, Execute,
         Disconnect, ExecuteRelook, WaitReady, ExecuteOk, ExecuteFail, MarkBroken,
         ErrorLine, Return, DisconnectStop, GiveUp
    <3>2. QED
      BY <2>1, <3>1 DEF AnnounceInv
  <2>4. QED
    BY <2>2, <2>3
<1>5. CASE (\E p \in Callers \cup Sids : Publish(p)) \/ Close \/ LinkDies
  BY <1>5 DEF Publish, Close, CloseCancel, CloseStop, CloseWait, LinkDies,
     AnnounceInv
<1>6. CASE UNCHANGED vars
  BY <1>6 DEF vars, AnnounceInv
<1>7. QED
  BY <1>2, <1>3, <1>4, <1>5, <1>6 DEF Next, Goroutine, ExecuteStep, Request

(* No caller is left waiting on a session that has become ready: the only  *)
(* step that makes one ready is a change of status, which wakes them.      *)
LEMMA WakeupStep ==
  Typed /\ AnnounceInv /\ NoLostWakeup /\ [Next]_vars => NoLostWakeup'
<1> SUFFICES ASSUME Typed, AnnounceInv, NoLostWakeup, [Next]_vars,
                    NEW c \in Callers, pc'[c] = "waiting"
             PROVE  ~Ready(held[c])' /\ status'[held'[c]] # "auth_failed"
  BY DEF NoLostWakeup
<1> USE DEF sessionVars, supvVars, callVars, linkVars
<1>1. /\ pc \in [Callers -> CallPCs] /\ status \in [Sids -> Statuses]
      /\ client \in [Sids -> Conns \cup {None}]
      /\ held \in [Callers -> Sids \cup {None}]
      /\ \A d \in Callers : pc[d] = "waiting" => held[d] \in Sids
  BY DEF Typed, TypeOK, HeldOK, Holding
<1>2. ASSUME NEW p, NEW s \in Sids, NEW st, NEW err,
             NEW moved \in [Callers -> CallPCs],
             SetStatus(p, s, st, err, moved),
             moved[c] = "waiting" => pc[c] = "waiting" /\ held'[c] = held[c],
             client' = client
      PROVE  ~Ready(held[c])' /\ status'[held'[c]] # "auth_failed"
  <2>1. /\ pc[c] = "waiting" /\ held'[c] = held[c]
        /\ held[c] = s => status' = status
        /\ \A t \in Sids \ {s} : status'[t] = status[t]
    BY <1>2, SetStatusEffect
  <2>2. status'[held[c]] = status[held[c]]
    BY <1>1, <2>1
  <2>3. QED
    BY <1>2, <2>1, <2>2 DEF NoLostWakeup, Ready
<1>3. ASSUME status' = status, held'[c] = held[c], pc[c] = "waiting",
             client'[held[c]] \in {client[held[c]], None}
      PROVE  ~Ready(held[c])' /\ status'[held'[c]] # "auth_failed"
  BY <1>3 DEF NoLostWakeup, Ready
<1>4. ASSUME NEW s \in Sids, Supervise(s)
      PROVE  ~Ready(held[c])' /\ status'[held'[c]] # "auth_failed"
  <2>1. held' = held
    BY <1>4 DEF Supervise, SupvCheck, Begin, DialOk, DialRejected, DialError,
       BackoffWait, Install, Announce, Watch
  <2>2. CASE \E st, err : SetStatus(s, s, st, err, pc) /\ client' = client
    BY <1>1, <1>2, <2>1, <2>2
  <2>3. CASE status' = status /\ pc' = pc /\ client' = client
    BY <1>3, <2>1, <2>3
  <2>4. CASE Install(s)
    <3>1. /\ status' = status /\ pc' = pc
          /\ client' = [client EXCEPT ![s] = conn[s]]
          /\ status[s] # "connected"
      BY <2>4 DEF Install, Supervising, AnnounceInv
    <3>2. CASE held[c] = s
      BY <2>1, <3>1, <3>2 DEF NoLostWakeup, Ready
    <3>3. CASE held[c] # s
      BY <1>1, <1>3, <2>1, <3>1, <3>3
    <3>4. QED
      BY <3>2, <3>3
  <2>5. QED
    BY <1>4, <2>2, <2>3, <2>4 DEF Supervise, SupvCheck, Begin, DialOk, DialRejected,
       DialError, BackoffWait, Announce, Watch
<1>5. ASSUME NEW d \in Callers, Connect(d) \/ ExecuteConnect(d)
      PROVE  ~Ready(held[c])' /\ status'[held'[c]] # "auth_failed"
  <2>1. PICK s \in FreeSids : ManagerConnect!(s)
    BY <1>5 DEF Connect, ExecuteConnect, ManagerConnect
  <2>2. held' = held /\ held[c] # s
    BY <1>5 DEF Connect, ExecuteConnect, FreeSids
  <2>3. pc[c] = "waiting"
    BY <1>1, <1>5 DEF Connect, ExecuteConnect, Goto
  <2>4. /\ status'[held[c]] = status[held[c]]
        /\ client'[held[c]] \in {client[held[c]], None}
    BY <1>1, <2>1, <2>2, <2>3
  <2>5. QED
    BY <2>2, <2>3, <2>4 DEF NoLostWakeup, Ready
<1>6. ASSUME NEW d \in Callers, Request(d) \/ Goroutine(d) \/ GiveUp(d),
             ~Connect(d), ~ExecuteConnect(d)
      PROVE  ~Ready(held[c])' /\ status'[held'[c]] # "auth_failed"
  <2>1. CASE d = c
    <3>1. CASE WaitReady(c)
      <4>1. /\ pc'[c] = "waiting" => ~Ready(held[c]) /\ status[held[c]] # "auth_failed"
            /\ UNCHANGED <<status, client, held>>
        BY <1>1, <3>1 DEF WaitReady, Goto
      <4>2. QED
        BY <4>1 DEF Ready
    <3>2. CASE MarkStatus(c) \/ DisconnectStatus(c)
      <4>1. held[c] \in Sids
        BY <3>2 DEF MarkStatus, DisconnectStatus, At, Typed, TypeOK, HeldOK, Holding
      <4>2. PICK err \in Errors, label \in {"errorLine", "idle"} :
              SetStatus(c, held[c], "disconnected", err, Goto(c, label))
        BY <3>2 DEF MarkStatus, DisconnectStatus, Errors
      <4>3. Goto(c, label) \in [Callers -> CallPCs] /\ Goto(c, label)[c] # "waiting"
        BY <1>1 DEF Goto, CallPCs
      <4>4. QED
        BY <4>1, <4>2, <4>3, SetStatusEffect
    <3>3. CASE ~WaitReady(c) /\ ~MarkStatus(c) /\ ~DisconnectStatus(c)
      <4>1. pc'[c] # "waiting"
        BY <1>1, <1>6, <2>1, <3>3 DEF Request, Goroutine, ExecuteStep,
           DisconnectStep, Execute, Disconnect, ExecuteRelook, ExecuteOk,
           ExecuteFail, MarkBroken, ErrorLine, Return, DisconnectStop, GiveUp, Goto
      <4>2. QED
        BY <4>1
    <3>4. QED
      BY <3>1, <3>2, <3>3
  <2>2. CASE d # c
    <3>1. held'[c] = held[c]
      BY <1>1, <1>6, <2>2 DEF Request, Goroutine, ExecuteStep, DisconnectStep,
         Execute, Disconnect, ExecuteRelook, WaitReady, ExecuteOk, ExecuteFail,
         MarkBroken, MarkStatus, ErrorLine, Return, DisconnectStop,
         DisconnectStatus, GiveUp
    <3>2. CASE MarkStatus(d) \/ DisconnectStatus(d)
      <4>1. held[d] \in Sids
        BY <3>2 DEF MarkStatus, DisconnectStatus, At, Typed, TypeOK, HeldOK, Holding
      <4>2. PICK err \in Errors, label \in CallPCs :
              SetStatus(d, held[d], "disconnected", err, Goto(d, label))
        BY <3>2 DEF MarkStatus, DisconnectStatus, Errors, CallPCs
      <4>3. /\ Goto(d, label) \in [Callers -> CallPCs]
            /\ Goto(d, label)[c] = pc[c]
        BY <1>1, <2>2 DEF Goto
      <4>4. client' = client
        BY <3>2 DEF MarkStatus, DisconnectStatus
      <4>5. QED
        BY <1>2, <3>1, <4>1, <4>2, <4>3, <4>4
    <3>3. CASE ~MarkStatus(d) /\ ~DisconnectStatus(d)
      <4>1. status' = status /\ pc[c] = "waiting"
        BY <1>1, <1>6, <2>2, <3>3 DEF Request, Goroutine, ExecuteStep,
           DisconnectStep, Execute, Disconnect, ExecuteRelook, WaitReady,
           ExecuteOk, ExecuteFail, MarkBroken, ErrorLine, Return,
           DisconnectStop, GiveUp, Goto
      <4>2. client' = client \/ \E x : client' = [client EXCEPT ![x] = None]
        BY <1>6, <3>3 DEF Request, Goroutine, ExecuteStep, DisconnectStep,
           Execute, Disconnect, ExecuteRelook, WaitReady, ExecuteOk, ExecuteFail,
           MarkBroken, ErrorLine, Return, DisconnectStop, Stop, GiveUp
      <4>3. client'[held[c]] \in {client[held[c]], None}
        BY <1>1, <4>1, <4>2
      <4>4. QED
        BY <1>3, <3>1, <4>1, <4>3
    <3>4. QED
      BY <3>2, <3>3
  <2>3. QED
    BY <2>1, <2>2
<1>7. CASE (\E p \in Callers \cup Sids : Publish(p)) \/ Close \/ LinkDies
             \/ UNCHANGED vars
  <2>1. status' = status /\ held' = held /\ pc' = pc
    BY <1>7 DEF Publish, Close, CloseCancel, CloseStop, CloseWait, LinkDies, vars
  <2>2. client' = client \/ client' = [s \in Sids |-> IF s = sess THEN None
                                                                ELSE client[s]]
    BY <1>7 DEF Publish, Close, CloseCancel, CloseStop, CloseWait, LinkDies, vars
  <2>3. client'[held[c]] \in {client[held[c]], None}
    BY <1>1, <2>1, <2>2
  <2>4. QED
    BY <1>3, <2>1, <2>3
<1>8. QED
  BY <1>4, <1>5, <1>6, <1>7 DEF Next, Goroutine, ExecuteStep, Request

(* A password refused ends the supervisor at once, and its session's       *)
(* status can only be changed by others to "disconnected" afterwards.      *)
LEMMA RetryStep ==
  Typed /\ RetryDiscipline /\ [Next]_vars => RetryDiscipline'
<1> SUFFICES ASSUME Typed, RetryDiscipline, [Next]_vars, NEW t \in Sids
             PROVE  /\ status'[t] = "auth_failed" => supv'[t] = "exit"
                    /\ supv'[t] \in Owning => backoff'[t] = InitialBackoff
                    /\ backoff'[t] \in InitialBackoff..MaxBackoff
  BY DEF RetryDiscipline
<1> USE SessionAssumption DEF sessionVars, supvVars, callVars, linkVars, Owning
<1>1. /\ pc \in [Callers -> CallPCs] /\ status \in [Sids -> Statuses]
      /\ supv \in [Sids -> SupvPCs] /\ backoff \in [Sids -> Nat]
  BY DEF Typed, TypeOK
<1>2. /\ status[t] = "auth_failed" => supv[t] = "exit"
      /\ supv[t] \in Owning => backoff[t] = InitialBackoff
      /\ backoff[t] \in InitialBackoff..MaxBackoff
  BY DEF RetryDiscipline
<1>3. ASSUME NEW s \in Sids, Supervise(s)
      PROVE  /\ status'[t] = "auth_failed" => supv'[t] = "exit"
             /\ supv'[t] \in Owning => backoff'[t] = InitialBackoff
             /\ backoff'[t] \in InitialBackoff..MaxBackoff
  <2>1. CASE s # t
    <3>1. status'[t] = status[t]
      <4>1. CASE status' = status
        BY <4>1
      <4>2. CASE \E st, err : SetStatus(s, s, st, err, pc)
        BY <1>1, <2>1, <4>2, SetStatusEffect
      <4>3. QED
        BY <1>3, <4>1, <4>2 DEF Supervise, SupvCheck, Begin, DialOk, DialRejected,
           DialError, BackoffWait, Install, Announce, Watch
    <3>2. supv'[t] = supv[t] /\ backoff'[t] = backoff[t]
      BY <1>1, <1>3, <2>1 DEF Supervise, SupvCheck, Begin, DialOk, DialRejected,
         DialError, BackoffWait, Install, Announce, Watch
    <3>3. QED
      BY <1>2, <3>1, <3>2
  <2>2. CASE s = t /\ (Begin(t) \/ DialRejected(t) \/ DialError(t) \/ Announce(t))
    <3>1. /\ backoff' = backoff
          /\ supv'[t] \in {"exit", "dial", "backoff", "watch"}
          /\ supv'[t] = "watch" => supv[t] \in Owning
          /\ supv[t] # "exit"
      BY <1>1, <2>2 DEF SupvCheck, Begin, DialRejected, DialError, Announce, Supervising
    <3>2. supv'[t] # "exit" => status'[t] # "auth_failed"
      <4>1. CASE Begin(t)
        <5>1. PICK err \in Errors : SetStatus(t, t, "connecting", err, pc)
          BY <1>1, <4>1 DEF SupvCheck, Begin, Errors
        <5>2. QED
          BY <1>1, <5>1, SetStatusEffect
      <4>2. CASE DialError(t)
        BY <1>1, <4>2, SetStatusEffect DEF DialError
      <4>3. CASE Announce(t)
        <5>1. PICK err \in Errors : SetStatus(t, t, "connected", err, pc)
          BY <4>3 DEF Announce, Errors
        <5>2. QED
          BY <1>1, <5>1, SetStatusEffect
      <4>4. QED
        BY <1>1, <2>2, <4>1, <4>2, <4>3 DEF DialRejected
    <3>3. QED
      BY <1>2, <3>1, <3>2
  <2>3. CASE s = t /\ (SupvCheck(t) \/ DialOk(t) \/ Install(t) \/ Watch(t))
    <3>1. status' = status /\ supv[t] \in {"check", "dial", "install", "watch"}
      BY <2>3 DEF SupvCheck, DialOk, Install, Watch, Supervising
    <3>2. /\ backoff'[t] \in {backoff[t], InitialBackoff}
          /\ supv'[t] \in Owning => backoff'[t] = InitialBackoff
      BY <1>1, <1>2, <2>3 DEF SupvCheck, DialOk, Install, Watch, Supervising
    <3>3. InitialBackoff \in InitialBackoff..MaxBackoff
      OBVIOUS
    <3>4. QED
      BY <1>2, <3>1, <3>2, <3>3
  <2>4. CASE s = t /\ BackoffWait(t)
    <3>1. /\ status' = status /\ supv[t] = "backoff"
          /\ supv'[t] \in {"check", "exit"}
          /\ backoff'[t] \in {backoff[t], NextBackoff(backoff[t])}
      BY <1>1, <2>4 DEF BackoffWait, Supervising
    <3>2. \A b \in InitialBackoff..MaxBackoff :
            NextBackoff(b) \in InitialBackoff..MaxBackoff
      BY DEF NextBackoff
    <3>3. QED
      BY <1>2, <3>1, <3>2
  <2>5. QED
    BY <1>3, <2>1, <2>2, <2>3, <2>4 DEF Supervise
<1>4. ASSUME NEW c \in Callers, Connect(c) \/ ExecuteConnect(c)
      PROVE  /\ status'[t] = "auth_failed" => supv'[t] = "exit"
             /\ supv'[t] \in Owning => backoff'[t] = InitialBackoff
             /\ backoff'[t] \in InitialBackoff..MaxBackoff
  <2>1. PICK s \in FreeSids : ManagerConnect!(s)
    BY <1>4 DEF Connect, ExecuteConnect, ManagerConnect
  <2>2. /\ status' = [status EXCEPT ![s] = "disconnected"]
        /\ supv' = [supv EXCEPT ![s] = "check"]
        /\ backoff' = [backoff EXCEPT ![s] = InitialBackoff]
    BY <2>1
  <2>3. CASE s = t
    <3>1. status'[t] = "disconnected" /\ supv'[t] = "check"
      BY <1>1, <2>2, <2>3
    <3>2. backoff'[t] = InitialBackoff
      BY <1>1, <2>2, <2>3
    <3>3. InitialBackoff \in InitialBackoff..MaxBackoff
      OBVIOUS
    <3>4. QED
      BY <3>1, <3>2, <3>3
  <2>4. CASE s # t
    BY <1>1, <1>2, <2>2, <2>4
  <2>5. QED
    BY <2>3, <2>4
<1>5. ASSUME NEW c \in Callers, Request(c) \/ Goroutine(c) \/ GiveUp(c),
             ~Connect(c), ~ExecuteConnect(c)
      PROVE  /\ status'[t] = "auth_failed" => supv'[t] = "exit"
             /\ supv'[t] \in Owning => backoff'[t] = InitialBackoff
             /\ backoff'[t] \in InitialBackoff..MaxBackoff
  <2>1. supv' = supv /\ backoff' = backoff
    BY <1>5 DEF Request, Goroutine, ExecuteStep, DisconnectStep, Execute,
       Disconnect, ExecuteRelook, WaitReady, ExecuteOk, ExecuteFail, MarkBroken,
       MarkStatus, ErrorLine, Return, DisconnectStop, DisconnectStatus, GiveUp
  <2>2. status'[t] \in {status[t], "disconnected"}
    <3>1. CASE MarkStatus(c) \/ DisconnectStatus(c)
      <4>1. held[c] \in Sids
        BY <3>1 DEF MarkStatus, DisconnectStatus, At, Typed, TypeOK, HeldOK, Holding
      <4>2. PICK err \in Errors, label \in CallPCs :
              SetStatus(c, held[c], "disconnected", err, Goto(c, label))
        BY <3>1 DEF MarkStatus, DisconnectStatus, Errors, CallPCs
      <4>3. Goto(c, label) \in [Callers -> CallPCs]
        BY <1>1 DEF Goto
      <4>4. QED
        BY <4>1, <4>2, <4>3, SetStatusEffect
    <3>2. CASE ~MarkStatus(c) /\ ~DisconnectStatus(c)
      BY <1>5, <3>2 DEF Request, Goroutine, ExecuteStep, DisconnectStep, Execute,
         Disconnect, ExecuteRelook, WaitReady, ExecuteOk, ExecuteFail, MarkBroken,
         ErrorLine, Return, DisconnectStop, GiveUp
    <3>3. QED
      BY <3>1, <3>2
  <2>3. QED
    BY <1>2, <2>1, <2>2
<1>6. CASE (\E p \in Callers \cup Sids : Publish(p)) \/ Close \/ LinkDies
             \/ UNCHANGED vars
  BY <1>2, <1>6 DEF Publish, Close, CloseCancel, CloseStop, CloseWait, LinkDies,
     vars
<1>7. QED
  BY <1>3, <1>4, <1>5, <1>6 DEF Next, Goroutine, ExecuteStep, Request

(* Whoever takes a session out of the map is on its way to stop it, and    *)
(* stays there until it has.                                               *)
LEMMA OrphanStep ==
  Typed /\ ClosingInv /\ NoOrphanSession /\ [Next]_vars => NoOrphanSession'
<1> SUFFICES ASSUME Typed, ClosingInv, NoOrphanSession, [Next]_vars,
                    NEW t \in Sids, t \notin cancelled', t # sess'
             PROVE  \E c \in Callers : pc'[c] = "stop" /\ held'[c] = t
  BY DEF NoOrphanSession
<1> USE DEF sessionVars, supvVars, callVars, linkVars
<1>1. /\ pc \in [Callers -> CallPCs] /\ held \in [Callers -> Sids \cup {None}]
      /\ cancelled \subseteq Sids /\ sess \in Sids \cup {None}
      /\ supv \in [Sids -> SupvPCs]
  BY DEF Typed, TypeOK
<1>2. ASSUME NEW c \in Callers, pc[c] = "stop", held[c] = t,
             held'[c] = held[c], pc'[c] = pc[c]
      PROVE  \E d \in Callers : pc'[d] = "stop" /\ held'[d] = t
  BY <1>2
<1>3. ASSUME t \notin cancelled, sess' = sess
      PROVE  \E c \in Callers : pc[c] = "stop" /\ held[c] = t
  BY <1>3 DEF NoOrphanSession
<1>4. ASSUME NEW p, NEW s, NEW st, NEW err, NEW moved \in [Callers -> CallPCs],
             SetStatus(p, s, st, err, moved), NEW c \in Callers,
             moved[c] = "stop"
      PROVE  pc'[c] = "stop"
  BY <1>4 DEF SetStatus
<1>5. ASSUME NEW s \in Sids, Supervise(s)
      PROVE  \E c \in Callers : pc'[c] = "stop" /\ held'[c] = t
  <2>1. sess' = sess /\ cancelled' = cancelled /\ held' = held
    BY <1>5 DEF Supervise, SupvCheck, Begin, DialOk, DialRejected, DialError,
       BackoffWait, Install, Announce, Watch
  <2>2. PICK c \in Callers : pc[c] = "stop" /\ held[c] = t
    BY <1>3, <2>1
  <2>3. pc' = pc \/ \E st, err : SetStatus(s, s, st, err, pc)
    BY <1>5 DEF Supervise, SupvCheck, Begin, DialOk, DialRejected, DialError,
       BackoffWait, Install, Announce, Watch
  <2>4. pc'[c] = "stop"
    BY <1>1, <1>4, <2>2, <2>3
  <2>5. QED
    BY <2>1, <2>2, <2>4
<1>6. ASSUME NEW d \in Callers, Connect(d) \/ ExecuteConnect(d)
      PROVE  \E c \in Callers : pc'[c] = "stop" /\ held'[c] = t
  <2>1. PICK s \in FreeSids : ManagerConnect!(s)
    BY <1>6 DEF Connect, ExecuteConnect, ManagerConnect
  <2>2. t # sess /\ t \notin cancelled
    BY <1>1, <2>1 DEF Replaced
  <2>3. PICK c \in Callers : pc[c] = "stop" /\ held[c] = t
    BY <2>2 DEF NoOrphanSession
  <2>4. held' = held /\ pc'[c] = pc[c]
    BY <1>1, <1>6, <2>3 DEF Connect, ExecuteConnect, At, Goto
  <2>5. QED
    BY <1>2, <2>3, <2>4
<1>7. ASSUME NEW d \in Callers, Request(d) \/ Goroutine(d) \/ GiveUp(d),
             ~Connect(d), ~ExecuteConnect(d)
      PROVE  \E c \in Callers : pc'[c] = "stop" /\ held'[c] = t
  <2>1. CASE Disconnect(d)
    <3>1. /\ cancelled' = cancelled /\ sess' = None /\ sess # None
          /\ pc'[d] = "stop" /\ held'[d] = sess
          /\ \A c \in Callers \ {d} : pc'[c] = pc[c] /\ held'[c] = held[c]
          /\ pc[d] = "idle"
      BY <1>1, <2>1 DEF Disconnect, Goto, At
    <3>2. CASE t = sess
      BY <3>1, <3>2
    <3>3. CASE t # sess
      <4>1. PICK c \in Callers : pc[c] = "stop" /\ held[c] = t
        BY <3>1, <3>3 DEF NoOrphanSession
      <4>2. QED
        BY <1>2, <3>1, <4>1
    <3>4. QED
      BY <3>2, <3>3
  <2>2. CASE DisconnectStop(d)
    <3>1. t \notin cancelled /\ t # held[d] /\ sess' = sess
      BY <2>2 DEF DisconnectStop, Stop
    <3>2. PICK c \in Callers : pc[c] = "stop" /\ held[c] = t
      BY <1>3, <3>1
    <3>3. held' = held /\ pc'[c] = pc[c]
      BY <1>1, <2>2, <3>1, <3>2 DEF DisconnectStop, Goto
    <3>4. QED
      BY <1>2, <3>2, <3>3
  <2>3. CASE ~Disconnect(d) /\ ~DisconnectStop(d)
    <3>1. sess' = sess /\ cancelled' = cancelled /\ pc[d] # "stop"
      BY <1>7, <2>3 DEF Request, Goroutine, ExecuteStep, DisconnectStep, Execute,
         ExecuteRelook, WaitReady, ExecuteOk, ExecuteFail, MarkBroken,
         MarkStatus, ErrorLine, Return, DisconnectStatus, GiveUp, At
    <3>2. PICK c \in Callers : pc[c] = "stop" /\ held[c] = t
      BY <1>3, <3>1
    <3>3. c # d
      BY <3>1, <3>2
    <3>4. held'[c] = held[c]
      BY <1>1, <1>7, <2>3, <3>3 DEF Request, Goroutine, ExecuteStep,
         DisconnectStep, Execute, ExecuteRelook, WaitReady, ExecuteOk,
         ExecuteFail, MarkBroken, MarkStatus, ErrorLine, Return,
         DisconnectStatus, GiveUp
    <3>5. \E label \in CallPCs : \/ pc' = Goto(d, label)
                                 \/ \E s, err : SetStatus(d, s, "disconnected", err,
                                                       Goto(d, label))
      BY <1>7, <2>3 DEF Request, Goroutine, ExecuteStep, DisconnectStep, Execute,
         ExecuteRelook, WaitReady, ExecuteOk, ExecuteFail, MarkBroken,
         MarkStatus, ErrorLine, Return, DisconnectStatus, GiveUp, CallPCs
    <3>6. \A label \in CallPCs : /\ Goto(d, label) \in [Callers -> CallPCs]
                                 /\ Goto(d, label)[c] = pc[c]
      BY <1>1, <3>3 DEF Goto
    <3>7. pc'[c] = "stop"
      BY <1>4, <3>2, <3>5, <3>6
    <3>8. QED
      BY <3>2, <3>4, <3>7
  <2>4. QED
    BY <2>1, <2>2, <2>3
<1>8. CASE (\E p \in Callers \cup Sids : Publish(p)) \/ LinkDies \/ UNCHANGED vars
             \/ CloseCancel \/ CloseWait
  <2>1. t \notin cancelled /\ sess' = sess /\ pc' = pc /\ held' = held
    BY <1>8 DEF Publish, CloseCancel, CloseWait, LinkDies, vars
  <2>2. QED
    BY <1>3, <2>1
<1>9. CASE CloseStop
  BY <1>9 DEF CloseStop, ClosingInv
<1>10. QED
  BY <1>5, <1>6, <1>7, <1>8, <1>9 DEF Next, Goroutine, ExecuteStep, Request, Close

(* A caller's client, while it works, is the connection of its session.    *)
LEMMA ClientIsOwned ==
  ASSUME Typed, LinkInv, NEW s \in Used, client[s] \in live
  PROVE  conn[s] = client[s]
<1> USE DEF LinkInv
<1>1. s \in Sids /\ client[s] \in Conns /\ client[s] # None /\ conn[s] \in Conns \cup {None}
  BY SessionAssumption DEF Typed, TypeOK, Used
<1>2. PICK t \in Sids : conn[t] = client[s]
  BY DEF LiveInv
<1>3. supv[t] \in Owning
  BY <1>1, <1>2 DEF OwnerInv
<1>4. t \in Used
  BY <1>3, InUse DEF Owning
<1>5. supv[t] # "install"
  BY <1>2 DEF FreshInv
<1>6. broken[t] = conn[t]
  BY <1>3, <1>5 DEF Owning, WatchInv
<1>7. client[s] = broken[s]
  BY <1>1 DEF ClientInv
<1>8. t = s
  BY <1>1, <1>2, <1>4, <1>6, <1>7 DEF ChannelInv
<1>9. QED
  BY <1>2, <1>8

LEMMA ExchangeStep ==
  Typed /\ LinkInv /\ CallInv /\ ExchangeStaysInSession /\ [Next]_vars
    => CallInv' /\ ExchangeStaysInSession'
<1> SUFFICES ASSUME Typed, LinkInv, CallInv, ExchangeStaysInSession, [Next]_vars,
                    NEW c \in Callers
             PROVE  /\ pc'[c] # "exec" => got'[c] = None
                    /\ got'[c] \in live' => conn'[held'[c]] = got'[c]
  BY DEF CallInv, ExchangeStaysInSession
<1> USE DEF sessionVars, supvVars, callVars, linkVars
<1>1. /\ pc \in [Callers -> CallPCs] /\ held \in [Callers -> Sids \cup {None}]
      /\ got \in [Callers -> Conns \cup {None}]
      /\ conn \in [Sids -> Conns \cup {None}]
      /\ live \subseteq Conns /\ None \notin live /\ None \notin Conns
      /\ \A d \in Callers : pc[d] = "exec" => held[d] \in Sids
      /\ \A d \in Callers : got[d] \in live => held[d] \in Sids
  <2>1. /\ pc \in [Callers -> CallPCs] /\ held \in [Callers -> Sids \cup {None}]
        /\ got \in [Callers -> Conns \cup {None}]
        /\ conn \in [Sids -> Conns \cup {None}]
        /\ live \subseteq Conns
    BY DEF Typed, TypeOK
  <2>2. None \notin live /\ None \notin Conns
    BY <2>1, SessionAssumption
  <2>3. \A d \in Callers : pc[d] = "exec" => held[d] \in Sids
    BY DEF Typed, HeldOK, Holding
  <2>4. \A d \in Callers : got[d] \in live => held[d] \in Sids
    BY <2>2, <2>3 DEF CallInv
  <2>5. QED
    BY <2>1, <2>2, <2>3, <2>4
<1>2. /\ pc[c] # "exec" => got[c] = None
      /\ got[c] \in live => conn[held[c]] = got[c] /\ held[c] \in Sids
  BY <1>1 DEF CallInv, ExchangeStaysInSession
<1>3. ASSUME pc'[c] = pc[c] \/ pc[c] # "exec", got'[c] = got[c],
             held'[c] = held[c] \/ pc[c] # "exec", live' \subseteq live,
             \A s \in Sids : conn[s] \in live' => conn'[s] = conn[s]
      PROVE  /\ pc'[c] # "exec" => got'[c] = None
             /\ got'[c] \in live' => conn'[held'[c]] = got'[c]
  BY <1>1, <1>2, <1>3
<1>4. ASSUME NEW p, NEW s, NEW st, NEW err, NEW moved \in [Callers -> CallPCs],
             SetStatus(p, s, st, err, moved)
      PROVE  /\ pc'[c] = moved[c] \/ moved[c] = "waiting"
             /\ UNCHANGED <<got, held, live, conn>> => TRUE
  BY <1>4 DEF SetStatus
<1>5. ASSUME NEW s \in Sids, Supervise(s)
      PROVE  /\ pc'[c] # "exec" => got'[c] = None
             /\ got'[c] \in live' => conn'[held'[c]] = got'[c]
  <2>1. got' = got /\ held' = held
    BY <1>5 DEF Supervise, SupvCheck, Begin, DialOk, DialRejected, DialError,
       BackoffWait, Install, Announce, Watch
  <2>2. pc'[c] = pc[c] \/ pc[c] = "waiting"
    <3>1. pc' = pc \/ \E st, err : SetStatus(s, s, st, err, pc)
      BY <1>5 DEF Supervise, SupvCheck, Begin, DialOk, DialRejected, DialError,
         BackoffWait, Install, Announce, Watch
    <3>2. QED
      BY <1>1, <1>4, <3>1
  <2>3. CASE DialOk(s)
    <3>1. PICK k \in FreeConns : /\ conn' = [conn EXCEPT ![s] = k]
                                 /\ live' = live \cup {k}
      BY <2>3 DEF DialOk
    <3>2. got[c] # k /\ pc' = pc
      BY <2>3, <3>1 DEF FreeConns, DialOk
    <3>3. conn[s] = None
      BY <2>3 DEF DialOk, Supervising, LinkInv, OwnerInv, Owning
    <3>4. QED
      BY <1>1, <1>2, <2>1, <3>1, <3>2, <3>3
  <2>4. CASE Watch(s)
    <3>1. /\ conn' = [conn EXCEPT ![s] = None] /\ supv[s] = "watch"
          /\ live' \subseteq live
          /\ conn[s] \in signalled \/ conn[s] \notin live'
      BY <2>4 DEF Watch, Supervising
    <3>2. s \in Used
      BY <3>1, InUse
    <3>3. conn[s] \in live => conn[s] \notin signalled
      BY <1>1, <3>1, <3>2 DEF LinkInv, WatchInv, ClientInv
    <3>4. \A t \in Sids : conn[t] \in live' => conn'[t] = conn[t]
      BY <1>1, <3>1, <3>3
    <3>5. QED
      BY <1>3, <2>1, <2>2, <3>1, <3>4
  <2>5. CASE ~DialOk(s) /\ ~Watch(s)
    <3>1. live' = live /\ conn' = conn
      BY <1>5, <2>5 DEF Supervise, SupvCheck, Begin, DialRejected, DialError,
         BackoffWait, Install, Announce
    <3>2. QED
      BY <1>3, <2>1, <2>2, <3>1
  <2>6. QED
    BY <2>3, <2>4, <2>5
<1>6. ASSUME NEW d \in Callers, Connect(d) \/ ExecuteConnect(d)
      PROVE  /\ pc'[c] # "exec" => got'[c] = None
             /\ got'[c] \in live' => conn'[held'[c]] = got'[c]
  <2>1. PICK s \in FreeSids : ManagerConnect!(s)
    BY <1>6 DEF Connect, ExecuteConnect, ManagerConnect
  <2>2. /\ conn' = [conn EXCEPT ![s] = None] /\ live' \subseteq live
        /\ got' = got /\ held' = held
    BY <1>6, <2>1 DEF Connect, ExecuteConnect
  <2>3. conn[s] = None
    BY DEF FreeSids, LinkInv, OwnerInv, Owning
  <2>4. pc'[c] = pc[c] \/ pc[c] # "exec"
    BY <1>1, <1>6 DEF Connect, ExecuteConnect, At, Goto
  <2>5. QED
    BY <1>1, <1>3, <2>2, <2>3, <2>4
<1>7. ASSUME NEW d \in Callers, Request(d) \/ Goroutine(d) \/ GiveUp(d),
             ~Connect(d), ~ExecuteConnect(d)
      PROVE  /\ pc'[c] # "exec" => got'[c] = None
             /\ got'[c] \in live' => conn'[held'[c]] = got'[c]
  <2>1. conn' = conn /\ live' \subseteq live
    BY <1>7 DEF Request, Goroutine, ExecuteStep, DisconnectStep, Execute,
       Disconnect, ExecuteRelook, WaitReady, ExecuteOk, ExecuteFail, MarkBroken,
       MarkStatus, ErrorLine, Return, DisconnectStop, Stop, DisconnectStatus,
       GiveUp, Hangup
  <2>2. CASE d = c /\ WaitReady(c)
    <3>1. CASE pc'[c] = "exec"
      <4>1. /\ got'[c] = client[held[c]] /\ held' = held /\ conn' = conn
            /\ live' = live /\ pc[c] = "check"
        BY <1>1, <2>2, <3>1 DEF WaitReady, Goto, At
      <4>2. held[c] \in Used
        BY <4>1, InUse DEF Typed, HeldOK, Holding
      <4>3. QED
        BY <3>1, <4>1, <4>2, ClientIsOwned
    <3>2. CASE pc'[c] # "exec"
      <4>1. got' = got /\ held' = held
        BY <1>1, <2>2, <3>2 DEF WaitReady, Goto, At
      <4>2. pc[c] # "exec"
        BY <2>2 DEF WaitReady, At
      <4>3. QED
        BY <1>3, <2>1, <4>1, <4>2
    <3>3. QED
      BY <3>1, <3>2
  <2>3. CASE d = c /\ (ExecuteOk(c) \/ ExecuteFail(c))
    BY <1>1, <2>1, <2>3 DEF ExecuteOk, ExecuteFail
  <2>4. CASE d # c \/ ~(WaitReady(c) \/ ExecuteOk(c) \/ ExecuteFail(c))
    <3>1. got'[c] = got[c]
      BY <1>1, <1>7, <2>4 DEF Request, Goroutine, ExecuteStep, DisconnectStep,
         Execute, Disconnect, ExecuteRelook, WaitReady, ExecuteOk, ExecuteFail,
         MarkBroken, MarkStatus, ErrorLine, Return, DisconnectStop,
         DisconnectStatus, GiveUp
    <3>2. CASE d = c
      <4>1. pc[c] # "exec"
        BY <1>7, <2>4, <3>2 DEF Request, Goroutine, ExecuteStep, DisconnectStep,
           Execute, Disconnect, ExecuteRelook, MarkBroken, MarkStatus, ErrorLine,
           Return, DisconnectStop, DisconnectStatus, GiveUp, At
      <4>2. pc'[c] # "exec" => got'[c] = None
        BY <1>2, <3>1, <4>1
      <4>3. QED
        BY <1>3, <2>1, <3>1, <4>1
    <3>3. CASE d # c
      <4>1. held'[c] = held[c]
        BY <1>1, <1>7, <3>3 DEF Request, Goroutine, ExecuteStep, DisconnectStep,
           Execute, Disconnect, ExecuteRelook, WaitReady, ExecuteOk, ExecuteFail,
           MarkBroken, MarkStatus, ErrorLine, Return, DisconnectStop,
           DisconnectStatus, GiveUp
      <4>2. \E label \in CallPCs : \/ pc' = Goto(d, label)
                                   \/ \E s, err : SetStatus(d, s, "disconnected",
                                                            err, Goto(d, label))
        BY <1>7 DEF Request, Goroutine, ExecuteStep, DisconnectStep, Execute,
           Disconnect, ExecuteRelook, WaitReady, ExecuteOk, ExecuteFail,
           MarkBroken, MarkStatus, ErrorLine, Return, DisconnectStop,
           DisconnectStatus, GiveUp, CallPCs
      <4>3. \A label \in CallPCs : /\ Goto(d, label) \in [Callers -> CallPCs]
                                   /\ Goto(d, label)[c] = pc[c]
        BY <1>1, <3>3 DEF Goto
      <4>4. pc'[c] = pc[c] \/ pc[c] # "exec"
        BY <1>4, <4>2, <4>3
      <4>5. QED
        BY <1>3, <2>1, <3>1, <4>1, <4>4
    <3>4. QED
      BY <3>2, <3>3
  <2>5. QED
    BY <2>2, <2>3, <2>4
<1>8. CASE (\E p \in Callers \cup Sids : Publish(p)) \/ Close \/ LinkDies
             \/ UNCHANGED vars
  <2>1. /\ pc' = pc /\ got' = got /\ held' = held /\ conn' = conn
        /\ live' \subseteq live
    BY <1>8 DEF Publish, Close, CloseCancel, CloseStop, CloseWait, LinkDies, vars
  <2>2. QED
    BY <1>3, <2>1
<1>9. QED
  BY <1>5, <1>6, <1>7, <1>8 DEF Next, Goroutine, ExecuteStep, Request

-----------------------------------------------------------------------------
LEMMA InitialDelay == InitialBackoff \in InitialBackoff..MaxBackoff
BY SessionAssumption

LEMMA InvInit == Init => Typed /\ IInv
<1> SUFFICES ASSUME Init PROVE Typed /\ IInv
  OBVIOUS
<1> USE SessionAssumption DEF Init
<1>1. Typed
  <2>1. InitialBackoff \in Nat /\ "disconnected" \in Statuses /\ "" \in Errors
    BY DEF Statuses, Errors
  <2>2. "idle" \in CallPCs /\ "idle" \notin Holding /\ "exit" \in SupvPCs
    BY DEF CallPCs, Holding, SupvPCs
  <2>3. QED
    BY <2>1, <2>2 DEF Typed, TypeOK, HeldOK
<1>2. Used = {}
  BY DEF Used, FreeSids
<1>3. OwnerInv /\ FreshInv /\ WatchInv /\ LiveInv /\ AnnounceInv
  BY DEF OwnerInv, FreshInv, WatchInv, LiveInv, AnnounceInv, Owning
<1>4. ChannelInv /\ ClientInv
  BY <1>2 DEF ChannelInv, ClientInv
<1>5. ClosingInv /\ CallInv /\ NoDoubleClose
  BY DEF ClosingInv, CallInv, NoDoubleClose
<1>6. NoLostWakeup /\ NoOrphanSession /\ ExchangeStaysInSession
  BY DEF NoLostWakeup, NoOrphanSession, ExchangeStaysInSession
<1>7. RetryDiscipline
  BY InitialDelay DEF RetryDiscipline, Owning
<1>8. QED
  BY <1>1, <1>3, <1>4, <1>5, <1>6, <1>7 DEF IInv

LEMMA InvStep == Typed /\ IInv /\ [Next]_vars => Typed' /\ IInv'
<1> SUFFICES ASSUME Typed, IInv, [Next]_vars
             PROVE  Typed' /\ IInv'
  OBVIOUS
<1>1. LinkInv /\ ClosingInv /\ AnnounceInv /\ CallInv /\ NoLostWakeup
      /\ NoOrphanSession /\ ExchangeStaysInSession /\ RetryDiscipline
  BY DEF IInv, LinkInv
<1>2. Typed'
  BY TypeStep
<1>3. LinkInv'
  BY <1>1, LinkStep
<1>4. ClosingInv' /\ AnnounceInv' /\ NoLostWakeup' /\ NoOrphanSession'
  BY <1>1, ClosingStep, AnnounceStep, WakeupStep, OrphanStep
<1>5. CallInv' /\ ExchangeStaysInSession' /\ RetryDiscipline'
  BY <1>1, ExchangeStep, RetryStep
<1>6. QED
  BY <1>2, <1>3, <1>4, <1>5 DEF IInv, LinkInv

(* IInv is an invariant of the session manager: every structural fact the  *)
(* properties below rest on, kept by every step of session.go's goroutines.*)
THEOREM Invariance == Spec => [](Typed /\ IInv)
<1>1. QED
  BY InvInit, InvStep, PTL DEF Spec

(* The daemon never panics closing a `broken' channel that is closed       *)
(* already: markBroken's guard and its reset on every reconnect suffice,   *)
(* however many callers report the same failure (session.go:378-395).      *)
THEOREM DoubleCloseFreedom == Spec => []NoDoubleClose
<1>1. IInv => NoDoubleClose
  BY DEF IInv
<1>2. QED
  BY Invariance, <1>1, PTL

(* A supervisor parked in its select can always be told to reconnect: the  *)
(* session's fields name the connection and the channel it waits on, or    *)
(* it has been signalled or cancelled already (session.go:472-495).        *)
THEOREM Reachability == Spec => []SupervisorReachable
<1>1. Typed /\ IInv => SupervisorReachable
  <2> SUFFICES ASSUME Typed, IInv, NEW s \in Sids,
                      supv[s] \in {"announce", "watch"}, s \notin cancelled,
                      conn[s] \notin signalled
               PROVE  client[s] = conn[s] /\ broken[s] = conn[s] /\ ~brokenClosed[s]
    BY DEF SupervisorReachable
  <2>1. client[s] = conn[s] /\ broken[s] = conn[s]
    BY DEF IInv, WatchInv
  <2>2. s \in Used /\ conn[s] # None
    BY InUse DEF IInv, OwnerInv, Owning
  <2>3. brokenClosed[s] <=> broken[s] \in signalled
    BY <2>1, <2>2 DEF IInv, ChannelInv
  <2>4. QED
    BY <2>1, <2>3
<1>2. QED
  BY Invariance, <1>1, PTL

(* No caller sleeps in waitReady on a session that can serve it, or that   *)
(* never will (session.go:420-439): `changed' is replaced under the lock   *)
(* that the status is changed under.                                       *)
THEOREM WakeupSafety == Spec => []NoLostWakeup
<1>1. IInv => NoLostWakeup
  BY DEF IInv
<1>2. QED
  BY Invariance, <1>1, PTL

(* Every open connection belongs to one supervisor that will close it, and *)
(* none survives Manager.Close (session.go:294-305, 489-495).              *)
THEOREM LeakFreedom == Spec => []NoConnectionLeak
<1>1. Typed /\ IInv => NoConnectionLeak
  <2> SUFFICES ASSUME Typed, IInv
               PROVE  NoConnectionLeak
    OBVIOUS
  <2>1. \A k \in live : \E s \in Sids : supv[s] \in Owning /\ conn[s] = k
    <3>1. live \subseteq Conns /\ None \notin Conns
      BY SessionAssumption DEF Typed, TypeOK
    <3>2. QED
      BY <3>1 DEF IInv, LiveInv, OwnerInv
  <2>2. \A s, t \in Sids : conn[s] = conn[t] /\ conn[s] # None => s = t
    BY DEF IInv, OwnerInv
  <2>3. closing = "closed" => live = {}
    BY <2>1 DEF IInv, ClosingInv
  <2>4. QED
    BY <2>1, <2>2, <2>3 DEF NoConnectionLeak
<1>2. QED
  BY Invariance, <1>1, PTL

(* Two sessions never compete for one profile: all but the one in the map  *)
(* are cancelled, or about to be by the Disconnect that took them out      *)
(* (session.go:89-130).                                                    *)
THEOREM OneSession == Spec => []NoOrphanSession
<1>1. IInv => NoOrphanSession
  BY DEF IInv
<1>2. QED
  BY Invariance, <1>1, PTL

(* No command is sent on a connection of another session than the one its  *)
(* Execute looked up, whatever was stopped and dialled in between          *)
(* (session.go:138-165).                                                   *)
THEOREM ExchangeIsolation == Spec => []ExchangeStaysInSession
<1>1. IInv => ExchangeStaysInSession
  BY DEF IInv
<1>2. QED
  BY Invariance, <1>1, PTL

(* A refused password ends the supervisor for good, and the delay between  *)
(* two attempts stays between its two constants (session.go:442-470).      *)
THEOREM Discipline == Spec => []RetryDiscipline
<1>1. IInv => RetryDiscipline
  BY DEF IInv
<1>2. QED
  BY Invariance, <1>1, PTL

=============================================================================
