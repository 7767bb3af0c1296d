---------------------------- MODULE ProfileForm ----------------------------
(***************************************************************************)
(* One profile edited in the dialogs of several windows                    *)
(* (web/src/components/ServerDialog.tsx, opened and closed by App.tsx)     *)
(* while runs of discovery (internal/session, Manager.runDiscovery) cache  *)
(* what they find and write the game into the same row (internal/store).   *)
(* Each SQLite statement is a step.  The password, which UpdateServer      *)
(* writes on its own, is in module Profiles.                               *)
(***************************************************************************)
EXTENDS Naturals, Sequences, SequencesExt

CONSTANTS
  Windows,   \* browser windows
  Runs,      \* runs of discovery
  None,
  Addrs,     \* addresses; the blank one cannot be saved
  Blank,
  Names,     \* TLS server names; the empty one is Unset
  Unset,     \* an empty column
  Prints,    \* fingerprints, of which one is "unknown"
  MaxEdits,  \* changes to a form, and saves, in a behaviour
  MaxSaves   \* requests of a window that are under way

ASSUME FormAssumption ==
  /\ Blank \in Addrs /\ Unset \in Names \ Prints
  /\ None \notin Addrs \cup Names \cup Prints
  /\ MaxEdits \in Nat /\ MaxSaves \in Nat

VARIABLES
  row,    \* the profile's row
  shown,  \* the profile in each window's list
  form,   \* the fields of each window's dialog, None when it is closed
  busy,   \* the dialog waits for its answer
  saves,  \* each window's requests, and whether their dialog is still open
  at,     \* where each run of discovery is ...
  found,  \* ... the fingerprint of its report ...
  srv,    \* ... and the row it has read
  cache,  \* the fingerprint of the cached report
  edits,  \* for the bound
  saved,  \* history: what the latest edit wrote
  loose   \* history: the game need not be that of the cached report

formVars == <<shown, form, busy, saves>>
runVars == <<at, found, srv, cache>>
vars == <<row, formVars, runVars, edits, saved, loose>>

Fields == [addr : Addrs, tls : BOOLEAN, name : Names]
Rows == [addr : Addrs \ {Blank}, tls : BOOLEAN, name : Names, game : Prints \cup {Unset}]

(* The fields of a row that the form has: all but the game.                *)
FieldsOf(r) == [addr |-> r.addr, tls |-> r.tls, name |-> r.name]

Init ==
  /\ row \in Rows /\ (row.name # Unset => row.tls) /\ row.game = Unset
  /\ shown = [w \in Windows |-> row]
  /\ form = [w \in Windows |-> None] /\ busy = [w \in Windows |-> FALSE]
  /\ saves = [w \in Windows |-> <<>>]
  /\ at = [r \in Runs |-> "idle"]
  /\ found = [r \in Runs |-> None] /\ srv = [r \in Runs |-> None]
  /\ cache = None /\ edits = 0 /\ saved = FieldsOf(row) /\ loose = TRUE

Edits == edits < MaxEdits /\ edits' = edits + 1

----------------------------------------------------------------------------
(* The dialog.                                                             *)

(* refreshServers, for whatever reason: a dialog that is open keeps what   *)
(* it has been given.                                                      *)
Refresh(w) ==
  /\ shown' = [shown EXCEPT ![w] = row]
  /\ UNCHANGED <<row, form, busy, saves, runVars, edits, saved, loose>>

(* The fields begin as the list has the profile, which may be out of date. *)
Open(w) ==
  /\ form[w] = None
  /\ form' = [form EXCEPT ![w] = FieldsOf(shown[w])]
  /\ busy' = [busy EXCEPT ![w] = FALSE]
  /\ UNCHANGED <<row, shown, saves, runVars, edits, saved, loose>>

(* The field of the name is there with TLS only, but keeps its value.      *)
Edit(w) ==
  /\ form[w] # None /\ Edits
  /\ \/ \E a \in Addrs : form' = [form EXCEPT ![w].addr = a]
     \/ form' = [form EXCEPT ![w].tls = ~@]
     \/ form[w].tls /\ \E n \in Names : form' = [form EXCEPT ![w].name = n]
  /\ UNCHANGED <<row, shown, busy, saves, runVars, saved, loose>>

(* valid, of a profile that exists: its password may stay empty.           *)
Valid(fields) == fields.addr # Blank

(* Mutant: a name that is not shown any more is sent all the same.         *)
SendsAll(fields) == fields

(* The body of the request; the game is not in it.                         *)
Body(fields) ==
  [fields EXCEPT !.name = IF fields.tls THEN fields.name ELSE Unset]

Save(w) ==
  /\ form[w] # None /\ Valid(form[w]) /\ ~busy[w] /\ Edits
  /\ Len(saves[w]) < MaxSaves
  /\ busy' = [busy EXCEPT ![w] = TRUE]
  /\ saves' = [saves EXCEPT ![w] =
       Append(@, [body |-> Body(form[w]), state |-> "sent", mine |-> TRUE])]
  /\ UNCHANGED <<row, shown, form, runVars, saved, loose>>

(* The dialog that sent them is gone; the requests go on.                  *)
Orphaned(requests) ==
  [i \in DOMAIN requests |-> [requests[i] EXCEPT !.mine = FALSE]]

Closed(w, requests) ==
  /\ form' = [form EXCEPT ![w] = None]
  /\ busy' = [busy EXCEPT ![w] = FALSE]
  /\ saves' = [saves EXCEPT ![w] = Orphaned(requests)]

(* Cancel, Escape or a click beside the dialog.                            *)
Cancel(w) ==
  /\ form[w] # None /\ Closed(w, saves[w])
  /\ UNCHANGED <<row, shown, runVars, edits, saved, loose>>

(* UpdateServer: every field of the form, and the empty game, overwrite    *)
(* what the row has; nothing else of what it reads before is kept.         *)
Overwrite(body) ==
  [addr |-> body.addr, tls |-> body.tls, name |-> body.name, game |-> Unset]

Update(w, i) ==
  /\ saves[w][i].state = "sent"
  /\ row' = Overwrite(saves[w][i].body)
  /\ saved' = saves[w][i].body /\ loose' = TRUE
  /\ saves' = [saves EXCEPT ![w][i].state = "ok"]
  /\ UNCHANGED <<shown, form, busy, runVars, edits>>

(* The request, or its answer, is lost.                                    *)
Fail(w, i) ==
  /\ saves[w][i].state # "failed"
  /\ saves' = [saves EXCEPT ![w][i].state = "failed"]
  /\ UNCHANGED <<row, shown, form, busy, runVars, edits, saved, loose>>

(* Saved: the dialog is closed, be it another than the one that sent it,   *)
(* and the list is refreshed.  Failed: the dialog can be used again.       *)
Answer(w, i) ==
  LET rest == RemoveAt(saves[w], i) IN
  /\ \/ saves[w][i].state = "ok" /\ Closed(w, rest)
     \/ /\ saves[w][i].state = "failed"
        /\ busy' = [busy EXCEPT ![w] = @ /\ ~saves[w][i].mine]
        /\ saves' = [saves EXCEPT ![w] = rest] /\ UNCHANGED form
  /\ UNCHANGED <<row, shown, runVars, edits, saved, loose>>

Dialog(w) ==
  \/ Refresh(w) \/ Open(w) \/ Edit(w) \/ Save(w) \/ Cancel(w)
  \/ \E i \in DOMAIN saves[w] : Update(w, i) \/ Fail(w, i) \/ Answer(w, i)

----------------------------------------------------------------------------
(* Discovery.                                                              *)

(* Runs between the cache and their end.                                   *)
Storing == {r \in Runs : at[r] \in {"read", "set"}}

(* discovery.Discover: a server whose probes fail is "unknown".            *)
Probe(r) ==
  /\ at[r] = "idle"
  /\ \E p \in Prints : found' = [found EXCEPT ![r] = p]
  /\ at' = [at EXCEPT ![r] = "cache"]
  /\ UNCHANGED <<row, formVars, srv, cache, edits, saved, loose>>

(* Two runs that store at once may do so in any order.                     *)
Cache(r) ==
  /\ at[r] = "cache"
  /\ cache' = found[r]
  /\ at' = [at EXCEPT ![r] = "read"]
  /\ loose' = (Storing # {})
  /\ UNCHANGED <<row, formVars, found, srv, edits, saved>>

(* The goroutine ends.                                                     *)
Done(r) ==
  /\ at' = [at EXCEPT ![r] = "over"]
  /\ found' = [found EXCEPT ![r] = None]
  /\ srv' = [srv EXCEPT ![r] = None]

(* store.GetServer: nothing is written if the game is already that one.    *)
ReadGame(r) ==
  /\ at[r] = "read"
  /\ IF row.game = found[r] THEN Done(r)
     ELSE /\ srv' = [srv EXCEPT ![r] = row]
          /\ at' = [at EXCEPT ![r] = "set"] /\ UNCHANGED found
  /\ UNCHANGED <<row, formVars, cache, edits, saved, loose>>

(* Mutant: the row that was read is written back.                          *)
SetRow(r) ==
  /\ at[r] = "set"
  /\ row' = [srv[r] EXCEPT !.game = found[r]]
  /\ Done(r)
  /\ UNCHANGED <<formVars, cache, edits, saved, loose>>

(* store.SetGame writes one column.                                        *)
SetGame(r) ==
  /\ at[r] = "set"
  /\ row' = [row EXCEPT !.game = found[r]]
  /\ Done(r)
  /\ UNCHANGED <<formVars, cache, edits, saved, loose>>

(* A statement fails, which is logged only.                                *)
StoreFails(r) ==
  /\ at[r] \in {"read", "set"}
  /\ loose' = TRUE /\ Done(r)
  /\ UNCHANGED <<row, formVars, cache, edits, saved>>

Discovery(r) ==
  Probe(r) \/ Cache(r) \/ ReadGame(r) \/ SetGame(r) \/ StoreFails(r)

Next ==
  (\E w \in Windows : Dialog(w)) \/ (\E r \in Runs : Discovery(r))

Spec == Init /\ [][Next]_vars

----------------------------------------------------------------------------
(* The row is whole: whatever windows and runs of discovery overlap, and   *)
(* however old the row is that a run or a dialog has read, its fields are  *)
(* those of one form, the last that was saved, and there is no TLS name    *)
(* without TLS; its game is the cached report's, if that run stored alone  *)
(* and the profile has not been edited since.                              *)
RowIsWhole ==
  /\ row \in Rows /\ FieldsOf(row) = saved
  /\ row.name # Unset => row.tls
  /\ ~loose /\ Storing = {} => row.game = cache

----------------------------------------------------------------------------
(* The inductive invariant behind it.                                      *)

(* A body that was made by a form: what it says can be stored as it is.    *)
Bodies == {b \in Fields : b.addr # Blank /\ (b.name # Unset => b.tls)}

Requests == [body : Bodies, state : {"sent", "ok", "failed"}, mine : BOOLEAN]

DialogInv ==
  /\ shown \in [Windows -> Rows]
  /\ form \in [Windows -> Fields \cup {None}]
  /\ saves \in [Windows -> Seq(Requests)]

(* Unless the game is loose, whoever still stores stores what is cached.   *)
StoringInv ==
  /\ at \in [Runs -> {"idle", "cache", "read", "set", "over"}]
  /\ found \in [Runs -> Prints \cup {None}]
  /\ \A r \in Runs : at[r] \in {"cache", "read", "set"} => found[r] # None
  /\ ~loose => \A r \in Storing : found[r] = cache

FormInv == RowIsWhole /\ DialogInv /\ StoringInv

=============================================================================
