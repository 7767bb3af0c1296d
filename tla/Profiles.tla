------------------------------ MODULE Profiles ------------------------------
(***************************************************************************)
(* A stored profile and the session on it: the handlers of internal/api    *)
(* that edit, connect and delete a profile, their statements on the        *)
(* profile's row in internal/store, and the two reads with which           *)
(* Session.dial takes its parameters from that row.                        *)
(*                                                                         *)
(* A statement of SQLite is one step; a handler is several, and the        *)
(* sessions of module Session and the other handlers run between them.     *)
(* The profile exists initially: an identifier is random, is known to      *)
(* nobody before CreateServer has returned, and is never used again.       *)
(***************************************************************************)
EXTENDS Session

CONSTANTS
  Addrs,      \* what a profile says of where and how to connect
  Passwords,
  Keep,       \* the nil password of an edit
  NoRow       \* the profile has been deleted

ASSUME ProfilesAssumption ==
  /\ None \notin Addrs \cup Passwords
  /\ Keep \notin Passwords
  /\ NoRow \notin [addr : Addrs, password : Passwords]

VARIABLES
  row,        \* the profile's row of the table servers
  job,        \* where each API goroutine is in a handler of the profile
  draft,      \* the row it is about to write, and the password or Keep
  dialled,    \* what each supervisor has read for its latest dial
  excused     \* history: sessions allowed to differ from the row

profileVars == <<row, job, draft, dialled, excused>>
allVars == <<vars, profileVars>>

Jobs == {"none", "password", "row", "restart", "connect", "delete"}

Unread == [addr |-> None, password |-> None]

ProfilesInit ==
  /\ Init
  /\ row \in [addr : Addrs, password : Passwords]
  /\ job = [c \in Callers |-> "none"]
  /\ draft = [c \in Callers |-> [addr |-> None, password |-> Keep]]
  /\ dialled = [s \in Sids |-> Unread]
  /\ excused = {}

-----------------------------------------------------------------------------
(* The supervisor of session s, and its dial.                              *)

Dialling(s) == Supervising(s, "dial")

(* Mutant: what has been read once is used for every attempt.              *)
CachesProfile(s) ==
  /\ Begin(s)
  /\ UNCHANGED profileVars

(* A new attempt reads the profile again.                                  *)
BeginDial(s) ==
  /\ Begin(s)
  /\ dialled' = [dialled EXCEPT ![s] = Unread]
  /\ excused' = excused \ {s}
  /\ UNCHANGED <<row, job, draft>>

(* store.GetServer; a deleted profile is an error, which is a DialError.   *)
ReadServer(s) ==
  /\ Dialling(s) /\ dialled[s] = Unread
  /\ row # NoRow
  /\ dialled' = [dialled EXCEPT ![s].addr = row.addr]
  /\ UNCHANGED <<vars, row, job, draft, excused>>

(* store.Password, a query of its own.                                     *)
ReadPassword(s) ==
  /\ Dialling(s) /\ dialled[s].addr # None /\ dialled[s].password = None
  /\ row # NoRow
  /\ dialled' = [dialled EXCEPT ![s].password = row.password]
  /\ UNCHANGED <<vars, row, job, draft, excused>>

(* rcon.Dial with what was read.                                           *)
DialAnswered(s) ==
  /\ dialled[s].password # None
  /\ DialOk(s) \/ DialRejected(s)
  /\ UNCHANGED profileVars

SuperviseProfile(s) ==
  \/ BeginDial(s) \/ ReadServer(s) \/ ReadPassword(s) \/ DialAnswered(s)
  \/ /\ \/ SupvCheck(s) \/ DialError(s) \/ BackoffWait(s)
        \/ Install(s) \/ Announce(s) \/ Watch(s)
     /\ UNCHANGED profileVars

-----------------------------------------------------------------------------
(* The handlers, run by caller c.                                          *)

Free(c) == At(c, "idle") /\ job[c] = "none"

Continue(c, label) == job' = [job EXCEPT ![c] = label]

NoDraft == [addr |-> None, password |-> Keep]

(* Mutant: an absent password is written like any other.                   *)
AlwaysPassword(password) == "password"

(* UpdateServer writes a password only if the request has one.             *)
FirstWrite(password) == IF password = Keep THEN "row" ELSE "password"

(* handleUpdateServer begins: the row as it is, overlaid with the request. *)
(* A request without an address keeps the one just read.                   *)
UpdateReads(c) ==
  /\ Free(c) /\ row # NoRow
  /\ \E a \in Addrs, p \in Passwords \cup {Keep} :
       /\ draft' = [draft EXCEPT ![c] = [addr |-> a, password |-> p]]
       /\ Continue(c, FirstWrite(p))
  /\ UNCHANGED <<vars, row, dialled, excused>>

(* A statement with WHERE id = ? on a deleted profile changes nothing and  *)
(* is no error.                                                            *)
UpdatePassword(c) ==
  /\ job[c] = "password"
  /\ row' = IF row = NoRow THEN row
            ELSE [row EXCEPT !.password = draft[c].password]
  /\ Continue(c, "row")
  /\ UNCHANGED <<vars, draft, dialled, excused>>

UpdateRow(c) ==
  /\ job[c] = "row"
  /\ row' = IF row = NoRow THEN row ELSE [row EXCEPT !.addr = draft[c].addr]
  /\ Continue(c, "restart")
  /\ draft' = [draft EXCEPT ![c] = NoDraft]
  /\ UNCHANGED <<vars, dialled, excused>>

(* The request's context ends before the last write: what has been written *)
(* stays, and the session is not restarted.  History excuses the sessions  *)
(* that have read the profile.                                             *)
Abandon(c) ==
  /\ job[c] \in {"password", "row"}
  /\ excused' = IF job[c] = "row" /\ draft[c].password # Keep
                THEN excused \cup {s \in Sids : dialled[s] # Unread}
                ELSE excused
  /\ Continue(c, "none")
  /\ draft' = [draft EXCEPT ![c] = NoDraft]
  /\ UNCHANGED <<vars, row, dialled>>

(* Mutant: only a session that is connected is restarted.                  *)
OnlyConnected == Status = "connected"

(* handleUpdateServer restarts a session whose status is not disconnected. *)
Restarts == Status # "disconnected"

UpdateRestarts(c) ==
  /\ job[c] = "restart"
  /\ Continue(c, IF Restarts THEN "connect" ELSE "none")
  /\ UNCHANGED <<vars, row, draft, dialled, excused>>

(* handleConnect begins: 404 for an unknown profile.                       *)
ConnectChecks(c) ==
  /\ Free(c) /\ row # NoRow
  /\ Continue(c, "connect")
  /\ UNCHANGED <<vars, row, draft, dialled, excused>>

(* Manager.Connect, for handleConnect and handleUpdateServer.  A session   *)
(* that is new has read nothing.                                           *)
Starts(s) == [dialled EXCEPT ![s] = Unread]

ConnectStarts(c) ==
  /\ job[c] = "connect"
  /\ Connect(c)
  /\ Continue(c, "none")
  /\ dialled' = Starts(sess')
  /\ excused' = excused \ {sess'}
  /\ UNCHANGED <<row, draft>>

(* handleDeleteServer: Disconnect, then the DELETE, which may fail.        *)
DeleteStarts(c) ==
  /\ Free(c)
  /\ Continue(c, "delete")
  /\ Disconnect(c) \/ (sess = None /\ UNCHANGED vars)
  /\ UNCHANGED <<row, draft, dialled, excused>>

DeleteRow(c) ==
  /\ job[c] = "delete" /\ At(c, "idle")
  /\ row' \in {row, NoRow}
  /\ Continue(c, "none")
  /\ UNCHANGED <<vars, draft, dialled, excused>>

HandlerStep(c) ==
  \/ UpdatePassword(c) \/ UpdateRow(c) \/ UpdateRestarts(c)
  \/ ConnectStarts(c) \/ DeleteRow(c)

(* handleExecute asks the store nothing.                                   *)
ExecuteProfile(c) ==
  /\ job[c] = "none"
  /\ Execute(c)
  /\ UNCHANGED profileVars

DisconnectProfile(c) ==
  /\ job[c] = "none"
  /\ Disconnect(c)
  /\ UNCHANGED profileVars

ConnectOnDemand(c) ==
  /\ ExecuteConnect(c)
  /\ dialled' = Starts(sess')
  /\ excused' = excused \ {sess'}
  /\ UNCHANGED <<row, job, draft>>

(* A status set by markBroken while the supervisor is dialling again says  *)
(* disconnected of a session that is about to be connected: history        *)
(* excuses the session until its next dial.                                *)
MarkLate(c) ==
  /\ MarkStatus(c)
  /\ excused' = IF supv[held[c]] \in {"dial", "install", "announce"}
                THEN excused \cup {held[c]} ELSE excused
  /\ UNCHANGED <<row, job, draft, dialled>>

CallStep(c) ==
  \/ ConnectOnDemand(c) \/ MarkLate(c)
  \/ /\ \/ ExecuteRelook(c) \/ WaitReady(c) \/ ExecuteOk(c) \/ ExecuteFail(c)
        \/ MarkBroken(c) \/ ErrorLine(c) \/ Return(c) \/ DisconnectStep(c)
        \/ GiveUp(c)
     /\ UNCHANGED profileVars

ProfileRequest(c) ==
  \/ UpdateReads(c) \/ ConnectChecks(c) \/ DeleteStarts(c)
  \/ ExecuteProfile(c) \/ DisconnectProfile(c)

ProfilesNext ==
  \/ \E s \in Sids : SuperviseProfile(s)
  \/ \E c \in Callers : ProfileRequest(c) \/ HandlerStep(c) \/ Abandon(c) \/ CallStep(c)
  \/ /\ (\E p \in Callers \cup Sids : Publish(p)) \/ Close \/ LinkDies
     /\ UNCHANGED profileVars

ProfilesSpec == ProfilesInit /\ [][ProfilesNext]_allVars

-----------------------------------------------------------------------------
ProfilesTypeOK ==
  /\ row \in [addr : Addrs, password : Passwords] \cup {NoRow}
  /\ job \in [Callers -> Jobs]
  /\ draft \in [Callers -> [addr : Addrs \cup {None},
                            password : Passwords \cup {Keep}]]
  /\ dialled \in [Sids -> [addr : Addrs \cup {None},
                           password : Passwords \cup {None}]]
  /\ excused \subseteq Sids

(* An edit takes effect: with no edit under way, a session that is         *)
(* connected, or whose password was refused, has dialled with the address  *)
(* and the password that are stored now, although it reads them one after  *)
(* the other, an edit writes them one after the other, and whether to      *)
(* restart is decided by a status that moves.  Excused are an edit that    *)
(* failed after its first write and a status that markBroken set late.     *)
SessionUsesStoredProfile ==
  /\ \A c \in Callers : job[c] = "none"
  /\ row # NoRow
  /\ sess \in Sids \ excused
  /\ status[sess] \in {"connected", "auth_failed"}
  => dialled[sess] = row

-----------------------------------------------------------------------------
(* The inductive invariant behind it.                                      *)

(* Between GetServer and the use of its connection, or before the status   *)
(* that ends the attempt.                                                  *)
Attempting == {"dial", "install", "announce"}

(* What an edit is about to write.                                         *)
DraftInv ==
  \A c \in Callers :
    /\ job[c] = "password" => draft[c].password # Keep
    /\ job[c] \in {"password", "row"} => draft[c].addr # None

(* A session that Disconnect is stopping is not mapped again.              *)
UnmappedInv ==
  \A c \in Callers : pc[c] \in {"stop", "stopStatus"} => held[c] # sess

(* The mapped session says so while it is attempting a connection.         *)
AttemptInv ==
  sess \in Sids \ excused /\ supv[sess] \in Attempting
    => status[sess] = "connecting"

(* The address is read first, and what was dialled was read completely.    *)
ReadInv ==
  /\ \A s \in Sids : dialled[s].password # None => dialled[s].addr # None
  /\ sess \in Sids /\ (\/ supv[sess] \in {"install", "announce"}
                      \/ status[sess] \in {"connected", "auth_failed"})
       => dialled[sess].password # None

(* Session s has read something that is stored no longer.                  *)
Outdated(s) ==
  \/ dialled[s].addr \notin {None, row.addr}
  \/ dialled[s].password \notin {None, row.password}

(* Some handler has changed the row and has yet to decide on the restart,  *)
(* or has decided on it.                                                   *)
EditPending ==
  \E c \in Callers : \/ job[c] \in {"restart", "connect"}
                     \/ job[c] = "row" /\ draft[c].password # Keep

(* An outdated session is about to be replaced, or will read again before  *)
(* it connects.                                                            *)
OutdatedInv ==
  row # NoRow /\ sess \in Sids \ excused /\ Outdated(sess)
    => \/ EditPending
       \/ status[sess] = "disconnected" /\ supv[sess] \notin Attempting

ProfilesInv ==
  DraftInv /\ UnmappedInv /\ AttemptInv /\ ReadInv /\ OutdatedInv

=============================================================================
