--------------------------- MODULE ProfilesProofs ---------------------------
(* Theorems about Profiles, for every set of callers, sessions, addresses  *)
(* and passwords.                                                          *)
EXTENDS Profiles, SessionProofs

-----------------------------------------------------------------------------
(* Profiles is Session with handlers around it: each of its steps is a     *)
(* step of the session manager or leaves the manager alone.                *)
LEMMA EveryStep == [ProfilesNext]_allVars => [Next]_vars
<1> SUFFICES ASSUME [ProfilesNext]_allVars
             PROVE  [Next]_vars
  OBVIOUS
<1>1. ASSUME NEW s \in Sids, SuperviseProfile(s)
      PROVE  [Next]_vars
  BY <1>1 DEF SuperviseProfile, BeginDial, ReadServer, ReadPassword,
              DialAnswered, Next, Supervise
<1>2. ASSUME NEW c \in Callers, ProfileRequest(c)
      PROVE  [Next]_vars
  BY <1>2 DEF ProfileRequest, UpdateReads, ConnectChecks, DeleteStarts,
              ExecuteProfile, DisconnectProfile, Next, Request
<1>3. ASSUME NEW c \in Callers, HandlerStep(c)
      PROVE  [Next]_vars
  BY <1>3 DEF HandlerStep, UpdatePassword, UpdateRow, UpdateRestarts,
              ConnectStarts, DeleteRow, Next, Request
<1>4. ASSUME NEW c \in Callers, Abandon(c)
      PROVE  [Next]_vars
  BY <1>4 DEF Abandon
<1>5. ASSUME NEW c \in Callers, CallStep(c)
      PROVE  [Next]_vars
  BY <1>5 DEF CallStep, ConnectOnDemand, MarkLate, Next, Goroutine, ExecuteStep
<1>6. QED
  BY <1>1, <1>2, <1>3, <1>4, <1>5 DEF ProfilesNext, allVars, Next

(* Whatever holds of the session manager holds of it behind the handlers   *)
(* of the API, its statements on the store included (api.go:195-268).      *)
THEOREM ProfilesImplementsSession == ProfilesSpec => Spec
<1>1. ProfilesInit => Init
  BY DEF ProfilesInit
<1>2. QED
  BY <1>1, EveryStep, PTL DEF ProfilesSpec, Spec

-----------------------------------------------------------------------------
(* Types.                                                                  *)

LEMMA ConnectTakesSid ==
  ASSUME ManagerConnect
  PROVE  /\ sess' \in FreeSids /\ sess' \in Sids
         /\ supv' = [supv EXCEPT ![sess'] = "check"]
         /\ status' = [status EXCEPT ![sess'] = "disconnected"]
BY DEF ManagerConnect, FreeSids

LEMMA ProfilesTypeStep ==
  ASSUME Typed, ProfilesTypeOK, DraftInv, [ProfilesNext]_allVars
  PROVE  ProfilesTypeOK'
<1> USE ProfilesAssumption, SessionAssumption DEF ProfilesTypeOK, Jobs, profileVars
<1>1. ASSUME NEW s \in Sids, SuperviseProfile(s)
      PROVE  ProfilesTypeOK'
  <2>1. CASE BeginDial(s)
    BY <2>1 DEF BeginDial, Unread
  <2>2. CASE ReadServer(s)
    BY <2>2 DEF ReadServer
  <2>3. CASE ReadPassword(s)
    BY <2>3 DEF ReadPassword
  <2>4. CASE UNCHANGED profileVars
    BY <2>4
  <2>5. QED
    BY <1>1, <2>1, <2>2, <2>3, <2>4 DEF SuperviseProfile, DialAnswered
<1>2. ASSUME NEW c \in Callers, ProfileRequest(c)
      PROVE  ProfilesTypeOK'
  BY <1>2 DEF ProfileRequest, UpdateReads, ConnectChecks, DeleteStarts,
              ExecuteProfile, DisconnectProfile, Continue, FirstWrite
<1>3. ASSUME NEW c \in Callers, UpdatePassword(c)
      PROVE  ProfilesTypeOK'
  <2>1. draft[c].password \in Passwords
    BY <1>3 DEF UpdatePassword, DraftInv
  <2>2. row' \in [addr : Addrs, password : Passwords] \cup {NoRow}
    BY <1>3, <2>1 DEF UpdatePassword
  <2>3. QED
    BY <1>3, <2>2 DEF UpdatePassword, Continue
<1>4. ASSUME NEW c \in Callers, UpdateRow(c)
      PROVE  ProfilesTypeOK'
  <2>1. draft[c].addr \in Addrs
    BY <1>4 DEF UpdateRow, DraftInv
  <2>2. row' \in [addr : Addrs, password : Passwords] \cup {NoRow}
    BY <1>4, <2>1 DEF UpdateRow
  <2>3. QED
    BY <1>4, <2>2 DEF UpdateRow, Continue, NoDraft
<1>5. ASSUME NEW c \in Callers, UpdateRestarts(c) \/ DeleteRow(c)
      PROVE  ProfilesTypeOK'
  BY <1>5 DEF UpdateRestarts, DeleteRow, Continue
<1>6. ASSUME NEW c \in Callers, ConnectStarts(c) \/ ConnectOnDemand(c)
      PROVE  ProfilesTypeOK'
  BY <1>6, ConnectTakesSid DEF ConnectStarts, ConnectOnDemand, Connect,
     ExecuteConnect, Continue, Starts, Unread
<1>7. ASSUME NEW c \in Callers, Abandon(c)
      PROVE  ProfilesTypeOK'
  BY <1>7 DEF Abandon, Continue, NoDraft
<1>8. ASSUME NEW c \in Callers, MarkLate(c)
      PROVE  ProfilesTypeOK'
  BY <1>8 DEF MarkLate, MarkStatus, At, Typed, HeldOK, Holding
<1>9. QED
  BY <1>1, <1>2, <1>3, <1>4, <1>5, <1>6, <1>7, <1>8
     DEF ProfilesNext, HandlerStep, CallStep, allVars

LEMMA DraftStep ==
  ASSUME Typed, ProfilesTypeOK, DraftInv, [ProfilesNext]_allVars
  PROVE  DraftInv'
<1> USE ProfilesAssumption DEF ProfilesTypeOK, Jobs, DraftInv, profileVars
<1>1. ASSUME UNCHANGED <<job, draft>>
      PROVE  DraftInv'
  BY <1>1
<1>2. ASSUME NEW c \in Callers, ProfileRequest(c)
      PROVE  DraftInv'
  BY <1>2 DEF ProfileRequest, UpdateReads, ConnectChecks, DeleteStarts,
              ExecuteProfile, DisconnectProfile, Continue, FirstWrite
<1>3. ASSUME NEW c \in Callers, HandlerStep(c)
      PROVE  DraftInv'
  BY <1>3 DEF HandlerStep, UpdatePassword, UpdateRow, UpdateRestarts,
              ConnectStarts, DeleteRow, Continue, NoDraft
<1>4. ASSUME NEW c \in Callers, Abandon(c)
      PROVE  DraftInv'
  BY <1>4 DEF Abandon, Continue, NoDraft
<1>5. ASSUME NEW s \in Sids, SuperviseProfile(s)
      PROVE  UNCHANGED <<job, draft>>
  BY <1>5 DEF SuperviseProfile, BeginDial, ReadServer, ReadPassword, DialAnswered
<1>6. ASSUME NEW c \in Callers, CallStep(c)
      PROVE  UNCHANGED <<job, draft>>
  BY <1>6 DEF CallStep, ConnectOnDemand, MarkLate
<1>7. QED
  BY <1>1, <1>2, <1>3, <1>4, <1>5, <1>6 DEF ProfilesNext, allVars

-----------------------------------------------------------------------------
(* What the steps of Session do to sessions other than the one they are on.*)

Stopping == {"stop", "stopStatus"}

(* setStatus puts no caller in or out of Disconnect.                       *)
LEMMA SetStatusPlaces ==
  ASSUME NEW p, NEW s, NEW st, NEW err, NEW moved \in [Callers -> CallPCs],
         SetStatus(p, s, st, err, moved)
  PROVE  \A c \in Callers : pc'[c] \in Stopping => moved[c] = pc'[c]
BY DEF SetStatus, Stopping

(* A supervisor that sets a status moves its own session only.             *)
LEMMA SetStatusBySupervisor ==
  ASSUME Typed, NEW s \in Sids, NEW st, NEW err, NEW label,
         SetStatus(s, s, st, err, pc),
         supv' = [supv EXCEPT ![s] = label]
  PROVE  /\ status'[s] = st /\ supv'[s] = label
         /\ \A t \in Sids \ {s} : supv'[t] = supv[t] /\ status'[t] = status[t]
         /\ \A c \in Callers : pc'[c] \in Stopping => pc[c] = pc'[c]
<1>1. pc \in [Callers -> CallPCs] /\ supv \in [Sids -> SupvPCs]
  BY DEF Typed, TypeOK
<1>2. status'[s] = st /\ \A t \in Sids \ {s} : status'[t] = status[t]
  BY <1>1, SetStatusEffect
<1>3. \A c \in Callers : pc'[c] \in Stopping => pc[c] = pc'[c]
  BY <1>1, SetStatusPlaces
<1>4. QED
  BY <1>1, <1>2, <1>3

(* What a supervisor's step does to its own session, by kind.              *)
LEMMA SupervisorEffect ==
  ASSUME Typed, NEW s \in Sids, Supervise(s)
  PROVE  /\ sess' = sess /\ held' = held
         /\ \A t \in Sids \ {s} : supv'[t] = supv[t] /\ status'[t] = status[t]
         /\ \A c \in Callers : pc'[c] \in Stopping => pc[c] = pc'[c]
<1> USE DEF sessionVars, supvVars, callVars, linkVars
<1>1. pc \in [Callers -> CallPCs] /\ status \in [Sids -> Statuses] /\ supv \in [Sids -> SupvPCs]
  BY DEF Typed, TypeOK
<1>2. CASE SupvCheck(s) \/ DialOk(s) \/ BackoffWait(s) \/ Install(s) \/ Watch(s)
  BY <1>1, <1>2 DEF SupvCheck, DialOk, BackoffWait, Install, Watch
<1>3. CASE Begin(s)
  <2>1. SetStatus(s, s, "connecting", "", pc) /\ supv' = [supv EXCEPT ![s] = "dial"]
        /\ sess' = sess /\ held' = held
    BY <1>3 DEF Begin
  <2>2. QED
    BY <2>1, SetStatusBySupervisor
<1>4. CASE DialRejected(s)
  <2>1. SetStatus(s, s, "auth_failed", "auth", pc) /\ supv' = [supv EXCEPT ![s] = "exit"]
        /\ sess' = sess /\ held' = held
    BY <1>4 DEF DialRejected
  <2>2. QED
    BY <2>1, SetStatusBySupervisor
<1>5. CASE DialError(s)
  <2>1. SetStatus(s, s, "disconnected", "dial", pc) /\ supv' = [supv EXCEPT ![s] = "backoff"]
        /\ sess' = sess /\ held' = held
    BY <1>5 DEF DialError
  <2>2. QED
    BY <2>1, SetStatusBySupervisor
<1>6. CASE Announce(s)
  <2>1. SetStatus(s, s, "connected", "", pc) /\ supv' = [supv EXCEPT ![s] = "watch"]
        /\ sess' = sess /\ held' = held
    BY <1>6 DEF Announce
  <2>2. QED
    BY <2>1, SetStatusBySupervisor
<1>7. QED
  BY <1>2, <1>3, <1>4, <1>5, <1>6 DEF Supervise

-----------------------------------------------------------------------------
(* The steps that change nothing of the profile.                           *)

CoreInv == UnmappedInv /\ AttemptInv /\ ReadInv /\ OutdatedInv

(* Session s is connected or refused, or is about to be connected.         *)
Answered(s) ==
  supv[s] \in {"install", "announce"} \/ status[s] \in {"connected", "auth_failed"}

(* A step that writes no row, and ends no edit.                            *)
SameProfile ==
  UNCHANGED <<row, dialled, excused>> /\ (EditPending => EditPending')

(* What the mapped session may do for CoreInv to hold on.                  *)
Quiet ==
  /\ SameProfile
  /\ sess' \in {sess, None}
  /\ \A c \in Callers : pc'[c] \in Stopping => held'[c] # sess'
  /\ sess' \in Sids =>
       /\ supv'[sess] \in Attempting =>
            supv[sess] \in Attempting /\ status'[sess] = status[sess]
       /\ Answered(sess)' => Answered(sess) \/ dialled[sess].password # None
       /\ status[sess] = "disconnected" /\ supv[sess] \notin Attempting =>
            status'[sess] = "disconnected" /\ supv'[sess] \notin Attempting

LEMMA QuietStep ==
  ASSUME Typed, CoreInv, Quiet
  PROVE  CoreInv'
<1> USE SessionAssumption DEF CoreInv, Quiet, SameProfile
<1>1. sess' \in Sids => sess' = sess
  OBVIOUS
<1>2. UnmappedInv'
  BY DEF UnmappedInv, Stopping
<1>3. AttemptInv'
  BY <1>1 DEF AttemptInv
<1>4. ReadInv'
  BY <1>1 DEF ReadInv, Answered
<1>5. OutdatedInv'
  BY <1>1 DEF OutdatedInv, Outdated
<1>6. QED
  BY <1>2, <1>3, <1>4, <1>5

(* A supervisor that has not begun an attempt or read anything.            *)
LEMMA SupervisorQuiet ==
  ASSUME Typed, UnmappedInv, NEW s \in Sids, SameProfile,
         \/ SupvCheck(s) \/ DialError(s) \/ BackoffWait(s)
         \/ Install(s) \/ Announce(s) \/ Watch(s) \/ DialAnswered(s)
  PROVE  Quiet
<1> USE DEF sessionVars, supvVars, callVars, linkVars
<1>1. Supervise(s)
  BY DEF Supervise, DialAnswered
<1>2. /\ sess' = sess /\ held' = held
      /\ \A t \in Sids \ {s} : supv'[t] = supv[t] /\ status'[t] = status[t]
      /\ \A c \in Callers : pc'[c] \in Stopping => pc[c] = pc'[c]
  BY <1>1, SupervisorEffect
<1>3. pc \in [Callers -> CallPCs] /\ status \in [Sids -> Statuses] /\ supv \in [Sids -> SupvPCs]
  BY DEF Typed, TypeOK
<1>4. \/ supv[s] \notin Attempting /\ supv'[s] \notin Attempting /\ status'[s] = status[s]
      \/ supv[s] = "dial" /\ supv'[s] = "backoff" /\ status'[s] = "disconnected"
      \/ supv[s] = "dial" /\ supv'[s] = "install" /\ status'[s] = status[s]
         /\ dialled[s].password # None
      \/ supv[s] = "dial" /\ supv'[s] = "exit" /\ dialled[s].password # None
      \/ supv[s] = "install" /\ supv'[s] = "announce" /\ status'[s] = status[s]
      \/ supv[s] = "announce" /\ supv'[s] = "watch"
  <2>1. CASE SupvCheck(s) \/ BackoffWait(s) \/ Watch(s)
    BY <1>3, <2>1 DEF SupvCheck, BackoffWait, Watch, Supervising, Attempting
  <2>2. CASE Install(s)
    BY <1>3, <2>2 DEF Install, Supervising
  <2>3. CASE DialError(s)
    <3>1. SetStatus(s, s, "disconnected", "dial", pc) /\ supv[s] = "dial"
          /\ supv' = [supv EXCEPT ![s] = "backoff"]
      BY <2>3 DEF DialError, Supervising
    <3>2. QED
      BY <3>1, SetStatusBySupervisor
  <2>4. CASE Announce(s)
    BY <1>3, <2>4 DEF Announce, Supervising
  <2>5. CASE DialAnswered(s)
    BY <1>3, <2>5 DEF DialAnswered, DialOk, DialRejected, Supervising
  <2>6. QED
    BY <2>1, <2>2, <2>3, <2>4, <2>5
<1>5. \A c \in Callers : pc'[c] \in Stopping => held'[c] # sess'
  BY <1>2 DEF UnmappedInv, Stopping
<1>6. ASSUME sess \in Sids
      PROVE  /\ supv'[sess] \in Attempting =>
                  supv[sess] \in Attempting /\ status'[sess] = status[sess]
             /\ Answered(sess)' => Answered(sess) \/ dialled[sess].password # None
             /\ status[sess] = "disconnected" /\ supv[sess] \notin Attempting =>
                  status'[sess] = "disconnected" /\ supv'[sess] \notin Attempting
  <2>1. CASE sess = s
    BY <1>2, <1>4, <2>1 DEF Attempting, Answered
  <2>2. CASE sess # s
    BY <1>2, <1>6, <2>2 DEF Attempting, Answered
  <2>3. QED
    BY <2>1, <2>2
<1>7. QED
  BY <1>2, <1>5, <1>6 DEF Quiet

(* A step that moves no session, and takes no caller into Disconnect.      *)
LEMMA StillQuiet ==
  ASSUME UnmappedInv, SameProfile, UNCHANGED <<sess, supv, status>>,
         \A c \in Callers : pc'[c] \in Stopping => pc[c] \in Stopping /\ held'[c] = held[c]
  PROVE  Quiet
BY DEF Quiet, UnmappedInv, Stopping, Answered

(* Nobody who is stopping a session holds None.                            *)
LEMMA UnmapQuiet ==
  ASSUME Typed', SameProfile, sess' = None
  PROVE  Quiet
BY SessionAssumption DEF Quiet, Typed, HeldOK, Holding, Stopping

LEMMA CallerQuiet ==
  ASSUME Typed, UnmappedInv, NEW c \in Callers, SameProfile,
         \/ Execute(c) \/ ExecuteRelook(c) \/ WaitReady(c) \/ ExecuteOk(c)
         \/ ExecuteFail(c) \/ MarkBroken(c) \/ ErrorLine(c) \/ Return(c)
         \/ DisconnectStop(c) \/ GiveUp(c)
  PROVE  Quiet
<1> USE DEF sessionVars, supvVars, callVars, linkVars
<1>1. pc \in [Callers -> CallPCs] /\ held \in [Callers -> Sids \cup {None}]
  BY DEF Typed, TypeOK
<1>2. UNCHANGED <<sess, supv, status>>
  BY DEF Execute, ExecuteRelook, WaitReady, ExecuteOk, ExecuteFail, MarkBroken,
         ErrorLine, Return, DisconnectStop, Stop, GiveUp
<1>3. \A d \in Callers : pc'[d] \in Stopping => pc[d] \in Stopping /\ held'[d] = held[d]
  <2>1. CASE Execute(c)
    BY <1>1, <2>1 DEF Execute, Goto, Stopping
  <2>2. CASE ExecuteRelook(c)
    BY <1>1, <2>2 DEF ExecuteRelook, Goto, Stopping
  <2>3. CASE WaitReady(c) \/ GiveUp(c)
    BY <1>1, <2>3 DEF WaitReady, GiveUp, Goto, Stopping
  <2>4. CASE ExecuteOk(c) \/ ExecuteFail(c) \/ MarkBroken(c) \/ ErrorLine(c)
    BY <1>1, <2>4 DEF ExecuteOk, ExecuteFail, MarkBroken, ErrorLine, Goto, Stopping
  <2>5. CASE Return(c)
    BY <1>1, <2>5 DEF Return, Goto, Stopping
  <2>6. CASE DisconnectStop(c)
    BY <1>1, <2>6 DEF DisconnectStop, At, Goto, Stopping
  <2>7. QED
    BY <2>1, <2>2, <2>3, <2>4, <2>5, <2>6
<1>4. QED
  BY <1>2, <1>3, StillQuiet

(* The status Disconnect sets is of a session that is not mapped.          *)
LEMMA DisconnectStatusQuiet ==
  ASSUME Typed, UnmappedInv, NEW c \in Callers, SameProfile,
         DisconnectStatus(c)
  PROVE  Quiet
<1> USE DEF sessionVars, supvVars, callVars, linkVars
<1>1. /\ pc \in [Callers -> CallPCs] /\ held \in [Callers -> Sids \cup {None}]
      /\ held[c] \in Sids /\ held[c] # sess
  BY DEF Typed, TypeOK, HeldOK, Holding, DisconnectStatus, At, UnmappedInv
<1>2. /\ SetStatus(c, held[c], "disconnected", "", Goto(c, "idle"))
      /\ held' = [held EXCEPT ![c] = None] /\ sess' = sess /\ supv' = supv
  BY DEF DisconnectStatus
<1>3. Goto(c, "idle") \in [Callers -> CallPCs]
  BY <1>1 DEF Goto, CallPCs
<1>4. \A t \in Sids \ {held[c]} : status'[t] = status[t]
  BY <1>1, <1>2, <1>3, SetStatusEffect
<1>5. \A d \in Callers : pc'[d] \in Stopping => Goto(c, "idle")[d] = pc'[d]
  BY <1>2, <1>3, SetStatusPlaces
<1>6. \A d \in Callers : pc'[d] \in Stopping => pc[d] \in Stopping /\ held'[d] = held[d]
  BY <1>1, <1>2, <1>5 DEF Goto, Stopping
<1>7. QED
  BY <1>1, <1>2, <1>4, <1>6 DEF Quiet, UnmappedInv, Stopping, Answered

(* Disconnect, Close, a publication and the death of a link.               *)
LEMMA OtherQuiet ==
  ASSUME Typed, Typed', UnmappedInv, SameProfile,
         \/ \E c \in Callers : Disconnect(c)
         \/ \E p \in Callers \cup Sids : Publish(p)
         \/ Close \/ LinkDies \/ UNCHANGED vars
  PROVE  Quiet
<1> USE DEF sessionVars, supvVars, callVars, linkVars
<1>1. CASE CloseStop \/ \E c \in Callers : Disconnect(c)
  BY <1>1, UnmapQuiet DEF CloseStop, Disconnect
<1>2. CASE CloseCancel \/ CloseWait \/ LinkDies \/ UNCHANGED vars
  BY <1>2, StillQuiet DEF CloseCancel, CloseWait, LinkDies, vars
<1>3. CASE \E p \in Callers \cup Sids : Publish(p)
  BY <1>3, StillQuiet DEF Publish
<1>4. QED
  BY <1>1, <1>2, <1>3 DEF Close

-----------------------------------------------------------------------------
(* The steps that read or write the profile, or begin an attempt.          *)

LEMMA BeginCore ==
  ASSUME Typed, ProfilesTypeOK, CoreInv, NEW s \in Sids, BeginDial(s)
  PROVE  CoreInv'
<1> USE DEF CoreInv
<1>1. Supervise(s) /\ sess' = sess
  BY DEF BeginDial, Begin, Supervise
<1>2. SetStatus(s, s, "connecting", "", pc) /\ supv' = [supv EXCEPT ![s] = "dial"]
  BY DEF BeginDial, Begin
<1>3. status'[s] = "connecting" /\ supv'[s] = "dial"
  <2>1. pc \in [Callers -> CallPCs] /\ supv \in [Sids -> SupvPCs]
    BY DEF Typed, TypeOK
  <2>2. status'[s] = "connecting"
    BY ONLY Typed, s \in Sids, <1>2, <2>1, SetStatusEffect
  <2>3. QED
    BY <1>2, <2>1, <2>2
<1>4. /\ held' = held
      /\ \A t \in Sids \ {s} : supv'[t] = supv[t] /\ status'[t] = status[t]
      /\ \A c \in Callers : pc'[c] \in Stopping => pc[c] = pc'[c]
  BY <1>1, SupervisorEffect
<1>5. /\ dialled'[s] = Unread
      /\ \A t \in Sids \ {s} : dialled'[t] = dialled[t]
      /\ excused' = excused \ {s} /\ UNCHANGED <<row, job, draft>>
  BY DEF BeginDial, ProfilesTypeOK
<1>6. UnmappedInv'
  BY <1>1, <1>4 DEF UnmappedInv, Stopping
<1>7. AttemptInv'
  BY <1>1, <1>3, <1>4, <1>5 DEF AttemptInv
<1>8. ReadInv'
  BY <1>1, <1>3, <1>4, <1>5 DEF ReadInv, Unread
<1>9. OutdatedInv'
  <2>1. EditPending => EditPending'
    BY <1>5 DEF EditPending
  <2>2. CASE sess = s
    BY <1>1, <1>5, <2>2 DEF OutdatedInv, Outdated, Unread
  <2>3. CASE sess # s
    BY <1>1, <1>4, <1>5, <2>1, <2>3 DEF OutdatedInv, Outdated
  <2>4. QED
    BY <2>2, <2>3
<1>10. QED
  BY <1>6, <1>7, <1>8, <1>9

(* What is read is what is stored.                                         *)
LEMMA ReadCore ==
  ASSUME Typed, ProfilesTypeOK, CoreInv, NEW s \in Sids,
         ReadServer(s) \/ ReadPassword(s)
  PROVE  CoreInv'
<1> USE DEF CoreInv, sessionVars, supvVars, callVars, linkVars, vars
<1>1. UNCHANGED <<sess, status, supv, pc, held, row, job, draft, excused>>
  BY DEF ReadServer, ReadPassword
<1>2. \A t \in Sids :
        \/ dialled'[t] = dialled[t]
        \/ row # NoRow /\ dialled'[t].addr = row.addr /\ dialled'[t].password = None
           /\ dialled[t].password = None
        \/ row # NoRow /\ dialled'[t].password = row.password
           /\ dialled'[t].addr = dialled[t].addr /\ dialled'[t].addr # None
  BY DEF ReadServer, ReadPassword, ProfilesTypeOK, Unread
<1>3. UnmappedInv' /\ AttemptInv'
  BY <1>1 DEF UnmappedInv, AttemptInv
<1>4. row # NoRow => row.password # None
  BY ProfilesAssumption DEF ProfilesTypeOK
<1>5. ReadInv'
  BY <1>1, <1>2, <1>4 DEF ReadInv
<1>6. OutdatedInv'
  <2>1. EditPending => EditPending'
    BY <1>1 DEF EditPending
  <2>2. \A t \in Sids : Outdated(t)' => Outdated(t)
    BY <1>1, <1>2 DEF Outdated
  <2>3. QED
    BY <1>1, <2>1, <2>2 DEF OutdatedInv
<1>7. QED
  BY <1>3, <1>5, <1>6

(* A new session has read nothing.                                         *)
LEMMA ConnectCore ==
  ASSUME Typed, ProfilesTypeOK, CoreInv, NEW c \in Callers,
         ConnectStarts(c) \/ ConnectOnDemand(c)
  PROVE  CoreInv'
<1> USE DEF CoreInv
<1>1. ManagerConnect /\ held' = held
  BY DEF ConnectStarts, ConnectOnDemand, Connect, ExecuteConnect, callVars
<1>2. /\ sess' \in FreeSids /\ sess' \in Sids
      /\ supv' = [supv EXCEPT ![sess'] = "check"]
      /\ status' = [status EXCEPT ![sess'] = "disconnected"]
  BY <1>1, ConnectTakesSid
<1>3. dialled' = [dialled EXCEPT ![sess'] = Unread]
  BY DEF ConnectStarts, ConnectOnDemand, Starts
<1>4. \A d \in Callers : held[d] # sess'
  BY <1>2 DEF FreeSids
<1>5. /\ supv'[sess'] = "check" /\ status'[sess'] = "disconnected"
      /\ dialled'[sess'] = Unread
      /\ \A t \in Sids \ {sess'} : dialled'[t] = dialled[t]
  BY <1>2, <1>3 DEF Typed, TypeOK, ProfilesTypeOK
<1>6. UnmappedInv' /\ AttemptInv' /\ ReadInv' /\ OutdatedInv'
  BY <1>1, <1>4, <1>5 DEF UnmappedInv, AttemptInv, ReadInv, OutdatedInv,
                        Outdated, Unread, Attempting
<1>7. QED
  BY <1>6

(* A status that markBroken sets on a session attempting a connection      *)
(* excuses that session.                                                   *)
LEMMA MarkCore ==
  ASSUME Typed, ProfilesTypeOK, CoreInv, NEW c \in Callers, MarkLate(c)
  PROVE  CoreInv'
<1> DEFINE h == held[c]
<1> USE DEF CoreInv, sessionVars, supvVars, callVars, linkVars
<1>1. /\ SetStatus(c, h, "disconnected", "exec", Goto(c, "errorLine"))
      /\ UNCHANGED <<sess, supv, held, row, job, draft, dialled>>
      /\ excused' = IF supv[h] \in Attempting THEN excused \cup {h} ELSE excused
  BY DEF MarkLate, MarkStatus, Attempting
<1>2. h \in Sids /\ pc \in [Callers -> CallPCs]
  BY DEF MarkLate, MarkStatus, At, Typed, TypeOK, HeldOK, Holding
<1>3. Goto(c, "errorLine") \in [Callers -> CallPCs]
  BY <1>2 DEF Goto, CallPCs
<1>4. status'[h] = "disconnected" /\ \A t \in Sids \ {h} : status'[t] = status[t]
  <2>1. SetStatus(c, h, "disconnected", "exec", Goto(c, "errorLine"))
    BY <1>1
  <2>2. h \in Sids /\ Goto(c, "errorLine") \in [Callers -> CallPCs]
    BY <1>2, <1>3
  <2> DEFINE m == Goto(c, "errorLine")
  <2> HIDE DEF h, m
  <2>3. SetStatus(c, h, "disconnected", "exec", m) /\ h \in Sids
        /\ m \in [Callers -> CallPCs]
    BY <2>1, <2>2 DEF m
  <2> QED BY ONLY Typed, <2>3, SetStatusEffect
<1>5. \A d \in Callers : pc'[d] \in Stopping => pc[d] \in Stopping
  <2>1. \A d \in Callers : pc'[d] \in Stopping => Goto(c, "errorLine")[d] = pc'[d]
    BY ONLY <1>1, <1>3, SetStatusPlaces
  <2>2. QED
    BY <1>2, <2>1 DEF Goto, Stopping
<1> HIDE DEF h
<1>6. UnmappedInv'
  BY <1>1, <1>5 DEF UnmappedInv, Stopping
<1>7. AttemptInv'
  BY <1>1, <1>2, <1>4 DEF AttemptInv
<1>8. ReadInv'
  BY <1>1, <1>2, <1>4 DEF ReadInv
<1>9. OutdatedInv'
  <2>1. EditPending => EditPending'
    BY <1>1 DEF EditPending
  <2>2. CASE sess = h
    BY <1>1, <1>2, <1>4, <2>1, <2>2 DEF OutdatedInv, Outdated
  <2>3. CASE sess # h
    BY <1>1, <1>2, <1>4, <2>1, <2>3 DEF OutdatedInv, Outdated
  <2>4. QED
    BY <2>2, <2>3
<1>10. QED
  BY <1>6, <1>7, <1>8, <1>9

(* Where the session manager and what it read are left alone, CoreInv is a *)
(* matter of OutdatedInv.                                                  *)
LEMMA HandlerFrame ==
  ASSUME CoreInv, UNCHANGED vars, UNCHANGED dialled, excused \subseteq excused'
  PROVE  UnmappedInv' /\ AttemptInv' /\ ReadInv'
<1> USE DEF CoreInv, vars, sessionVars, supvVars, callVars, linkVars
<1>1. UnmappedInv'
  BY DEF UnmappedInv
<1>2. AttemptInv'
  BY DEF AttemptInv
<1>3. ReadInv'
  BY DEF ReadInv
<1>4. QED
  BY <1>1, <1>2, <1>3

LEMMA HandlerCore ==
  ASSUME Typed, ProfilesTypeOK, DraftInv, CoreInv, NEW c \in Callers,
         \/ UpdatePassword(c) \/ UpdateRow(c) \/ UpdateRestarts(c)
         \/ DeleteRow(c) \/ Abandon(c)
  PROVE  CoreInv'
<1> USE DEF CoreInv, Continue
<1>1. UNCHANGED vars /\ UNCHANGED dialled /\ excused \subseteq excused'
  BY DEF UpdatePassword, UpdateRow, UpdateRestarts, DeleteRow, Abandon
<1>2. UnmappedInv' /\ AttemptInv' /\ ReadInv'
  BY <1>1, HandlerFrame
<1>3. job \in [Callers -> Jobs] /\ UNCHANGED <<sess, status, supv>>
  BY <1>1 DEF ProfilesTypeOK, vars, sessionVars, supvVars
<1>4. ASSUME UpdatePassword(c) \/ UpdateRow(c)
      PROVE  OutdatedInv'
  <2>1. EditPending'
    BY <1>3, <1>4 DEF UpdatePassword, UpdateRow, EditPending, DraftInv
  <2>2. QED
    BY <2>1 DEF OutdatedInv
<1>5. ASSUME UpdateRestarts(c)
      PROVE  OutdatedInv'
  <2>1. CASE Restarts
    <3>1. EditPending'
      BY <1>3, <1>5, <2>1 DEF UpdateRestarts, EditPending
    <3>2. QED
      BY <3>1 DEF OutdatedInv
  <2>2. CASE ~Restarts
    <3>1. sess \in Sids => status[sess] = "disconnected"
      BY <2>2, SessionAssumption DEF Restarts, Status
    <3>2. sess \in Sids \ excused => supv[sess] \notin Attempting
      BY <3>1 DEF AttemptInv
    <3>3. QED
      BY <1>3, <1>5, <3>1, <3>2 DEF UpdateRestarts, OutdatedInv
  <2>3. QED
    BY <2>1, <2>2
<1>6. ASSUME DeleteRow(c)
      PROVE  OutdatedInv'
  <2>1. EditPending => EditPending'
    BY <1>3, <1>6 DEF DeleteRow, EditPending
  <2>2. QED
    BY <1>1, <1>3, <1>6, <2>1 DEF DeleteRow, OutdatedInv, Outdated
<1>7. ASSUME Abandon(c)
      PROVE  OutdatedInv'
  <2>1. CASE job[c] = "row" /\ draft[c].password # Keep
    <3>1. sess \in Sids \ excused' => dialled[sess] = Unread
      BY <1>3, <1>7, <2>1 DEF Abandon
    <3>2. sess \in Sids \ excused' => ~Outdated(sess)'
      BY <1>1, <1>3, <3>1 DEF Outdated, Unread
    <3>3. QED
      BY <1>3, <3>2 DEF OutdatedInv
  <2>2. CASE ~(job[c] = "row" /\ draft[c].password # Keep)
    <3>1. EditPending => EditPending'
      BY <1>3, <1>7, <2>2 DEF Abandon, EditPending, ProfilesTypeOK
    <3>2. QED
      BY <1>1, <1>3, <1>7, <2>2, <3>1 DEF Abandon, OutdatedInv, Outdated
  <2>3. QED
    BY <2>1, <2>2
<1>8. QED
  BY <1>2, <1>4, <1>5, <1>6, <1>7

(* The first step of a handler writes nothing yet.                         *)
LEMMA RequestQuiet ==
  ASSUME Typed, Typed', ProfilesTypeOK, UnmappedInv, NEW c \in Callers,
         ProfileRequest(c)
  PROVE  Quiet
<1>1. SameProfile
  <2>1. UNCHANGED <<row, dialled, excused>>
    BY DEF ProfileRequest, UpdateReads, ConnectChecks, DeleteStarts,
           ExecuteProfile, DisconnectProfile, profileVars
  <2>2. \A d \in Callers :
          \/ job[d] = "none"
          \/ job'[d] = job[d] /\ draft'[d] = draft[d]
    BY DEF ProfileRequest, UpdateReads, ConnectChecks, DeleteStarts, Free, Continue,
           ExecuteProfile, DisconnectProfile, profileVars, ProfilesTypeOK
  <2>3. QED
    BY <2>1, <2>2 DEF SameProfile, EditPending
<1>2. CASE Execute(c)
  BY <1>1, <1>2, CallerQuiet
<1>3. CASE Disconnect(c) \/ UNCHANGED vars
  BY <1>1, <1>3, OtherQuiet
<1>4. QED
  BY <1>2, <1>3 DEF ProfileRequest, UpdateReads, ConnectChecks, DeleteStarts,
                    ExecuteProfile, DisconnectProfile

LEMMA Unchanging == UNCHANGED profileVars => SameProfile
BY DEF SameProfile, profileVars, EditPending

LEMMA CoreStep ==
  ASSUME Typed, Typed', ProfilesTypeOK, DraftInv, CoreInv, [ProfilesNext]_allVars
  PROVE  CoreInv'
<1>1. UnmappedInv
  BY DEF CoreInv
<1>2. ASSUME NEW s \in Sids, SuperviseProfile(s)
      PROVE  CoreInv'
  <2>1. CASE BeginDial(s)
    BY <2>1, BeginCore
  <2>2. CASE ReadServer(s) \/ ReadPassword(s)
    BY <2>2, ReadCore
  <2>3. CASE DialAnswered(s)
    BY <1>1, <2>3, Unchanging, SupervisorQuiet, QuietStep DEF DialAnswered
  <2>4. CASE /\ \/ SupvCheck(s) \/ DialError(s) \/ BackoffWait(s)
                \/ Install(s) \/ Announce(s) \/ Watch(s)
             /\ UNCHANGED profileVars
    BY <1>1, <2>4, Unchanging, SupervisorQuiet, QuietStep
  <2>5. QED
    BY <1>2, <2>1, <2>2, <2>3, <2>4 DEF SuperviseProfile
<1>3. ASSUME NEW c \in Callers, ProfileRequest(c)
      PROVE  CoreInv'
  BY <1>1, <1>3, RequestQuiet, QuietStep
<1>4. ASSUME NEW c \in Callers, HandlerStep(c) \/ Abandon(c)
      PROVE  CoreInv'
  BY <1>4, HandlerCore, ConnectCore DEF HandlerStep
<1>5. ASSUME NEW c \in Callers, CallStep(c)
      PROVE  CoreInv'
  <2>1. CASE ConnectOnDemand(c)
    BY <2>1, ConnectCore
  <2>2. CASE MarkLate(c)
    BY <2>2, MarkCore
  <2>3. CASE DisconnectStatus(c) /\ UNCHANGED profileVars
    BY <1>1, <2>3, Unchanging, DisconnectStatusQuiet, QuietStep
  <2>4. CASE /\ \/ ExecuteRelook(c) \/ WaitReady(c) \/ ExecuteOk(c) \/ ExecuteFail(c)
                \/ MarkBroken(c) \/ ErrorLine(c) \/ Return(c) \/ DisconnectStop(c)
                \/ GiveUp(c)
             /\ UNCHANGED profileVars
    BY <1>1, <2>4, Unchanging, CallerQuiet, QuietStep
  <2>5. QED
    BY <1>5, <2>1, <2>2, <2>3, <2>4 DEF CallStep, DisconnectStep
<1>6. CASE /\ (\E p \in Callers \cup Sids : Publish(p)) \/ Close \/ LinkDies \/ UNCHANGED vars
           /\ UNCHANGED profileVars
  BY <1>1, <1>6, Unchanging, OtherQuiet, QuietStep
<1>7. QED
  BY <1>2, <1>3, <1>4, <1>5, <1>6 DEF ProfilesNext, allVars

LEMMA ProfilesInvInit ==
  ASSUME ProfilesInit
  PROVE  ProfilesTypeOK /\ DraftInv /\ CoreInv
<1> USE SessionAssumption, ProfilesAssumption DEF ProfilesInit, Init
<1>1. ProfilesTypeOK
  BY DEF ProfilesTypeOK, Jobs, Unread
<1>2. DraftInv /\ UnmappedInv /\ AttemptInv
  BY DEF DraftInv, UnmappedInv, AttemptInv
<1>3. ReadInv /\ OutdatedInv
  BY DEF ReadInv, OutdatedInv, Unread
<1>4. QED
  BY <1>1, <1>2, <1>3 DEF CoreInv

(* What the rows, the drafts and the reads of dial may be, and the facts   *)
(* that tie them to the mapped session's status, in every behaviour of the *)
(* handlers and the session manager.                                       *)
THEOREM ProfilesInvariance == ProfilesSpec => [](ProfilesTypeOK /\ ProfilesInv)
<1>1. ProfilesInit => ProfilesTypeOK /\ DraftInv /\ CoreInv
  BY ProfilesInvInit
<1>2. /\ Typed /\ Typed' /\ ProfilesTypeOK /\ DraftInv /\ CoreInv
      /\ [ProfilesNext]_allVars
      => ProfilesTypeOK' /\ DraftInv' /\ CoreInv'
  BY ProfilesTypeStep, DraftStep, CoreStep
<1>3. ProfilesSpec => []Typed
  BY ProfilesImplementsSession, Invariance, PTL
<1>4. DraftInv /\ CoreInv => ProfilesInv
  BY DEF CoreInv, ProfilesInv
<1>5. QED
  BY <1>1, <1>2, <1>3, <1>4, PTL DEF ProfilesSpec

(* An edit overlays the row it has read, so that what the statements write *)
(* is always a row, and what dial reads always of one.                     *)
THEOREM ProfilesTyping == ProfilesSpec => []ProfilesTypeOK
<1> QED BY ProfilesInvariance, PTL

(* handleUpdateServer's promise (api.go:217-219): once no edit is under    *)
(* way, a session that is connected or was refused has used the stored     *)
(* address and password, whatever was read and written in between, but for *)
(* the two failures that SessionUsesStoredProfile excuses.                 *)
THEOREM EditsTakeEffect == ProfilesSpec => []SessionUsesStoredProfile
<1>1. ProfilesTypeOK /\ ProfilesInv => SessionUsesStoredProfile
  <2> SUFFICES ASSUME ProfilesTypeOK, ProfilesInv,
                      \A c \in Callers : job[c] = "none",
                      row # NoRow, sess \in Sids \ excused,
                      status[sess] \in {"connected", "auth_failed"}
               PROVE  dialled[sess] = row
    BY DEF SessionUsesStoredProfile
  <2>1. dialled[sess].addr # None /\ dialled[sess].password # None
    BY DEF ProfilesInv, ReadInv
  <2>2. ~Outdated(sess)
    BY DEF ProfilesInv, OutdatedInv, EditPending
  <2>3. dialled[sess].addr = row.addr /\ dialled[sess].password = row.password
    BY <2>1, <2>2 DEF Outdated
  <2>4. QED
    BY <2>3 DEF ProfilesTypeOK
<1>2. QED
  BY ProfilesInvariance, <1>1, PTL

=============================================================================
