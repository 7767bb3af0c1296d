------------------------------ MODULE Settings ------------------------------
(***************************************************************************)
(* The Settings tab (web/src/components/SettingsPanel.tsx): options of the *)
(* report are edited, edits are staged, and applied one command at a time, *)
(* after which the server is read again.  The daemon and the game server   *)
(* are what the panel's requests show of them.  The server has a command   *)
(* to write options: without one the panel has no controls.                *)
(*                                                                         *)
(* An apply is a function that goes on after the panel has been left: it   *)
(* can still replace the report, but no longer the state of the panel.     *)
(***************************************************************************)
EXTENDS Screen, Catalog, Functions

CONSTANTS
  Options,    \* the keys the server reports, in order
  Kind,       \* the inferred type of each
  Values,     \* what the server can hold for each
  Typed,      \* what the user types for each
  Numerals,   \* the numbers that texts stand for, where they do
  None,       \* no answer yet, or none at all
  MaxJobs,    \* applies under way
  MaxStages,  \* edits of a behaviour
  MaxOutside  \* changes of a behaviour that are made elsewhere

ASSUME SettingsAssumption ==
  /\ Options \in Seq(STRING)
  /\ DOMAIN Kind = Range(Options) /\ DOMAIN Values = Range(Options)
  /\ DOMAIN Typed = Range(Options)
  /\ {MaxJobs, MaxStages, MaxOutside} \subseteq Nat

VARIABLES
  server,    \* what the server has
  print,     \* the report's fingerprint ...
  report,    \* ... and its options
  edits,     \* staged values
  errors,    \* keys with a message
  applying,
  jobs,      \* applies that have not ended, oldest first
  stages, outside,  \* how much has been done, for the bounds
  stale      \* history: the report is not meant to agree with the server

settingsVars ==
  <<server, print, report, edits, errors, applying, jobs, stages, outside, stale>>

Keys == Range(Options)

(* The games discovery can tell.                                           *)
Fingerprints == {"zomboid", "minecraft", "unknown"}

(* What the server can have.                                               *)
Contents ==
  {f \in [Keys -> UNION {Values[k] : k \in Keys}] : \A k \in Keys : f[k] \in Values[k]}

SettingsInit ==
  /\ server \in Contents
  /\ print \in Fingerprints
  /\ report = server /\ edits = <<>> /\ errors = {} /\ applying = FALSE
  /\ jobs = <<>> /\ stages = 0 /\ outside = 0 /\ stale = FALSE

(* What a control shows and starts from.                                   *)
Current(k) == IF k \in DOMAIN edits THEN edits[k] ELSE report[k]

(* dirtyKeys: an edit of what an option has already is none.               *)
Dirty == {k \in DOMAIN edits : k \in DOMAIN report /\ edits[k] # report[k]}

Numeral(v) == IF v \in DOMAIN Numerals THEN Numerals[v] ELSE 0

(* setValue: what the controls of the three kinds offer.                   *)
Offers(k, v) ==
  \/ Kind[k] = "boolean" /\ v = IF Current(k) = "true" THEN "false" ELSE "true"
  \/ Kind[k] = "integer" /\ v \in DOMAIN Numerals /\
       \E delta \in {-1, 1} : Numerals[v] = Bump(print, k, Numeral(Current(k)), delta)
  \/ Kind[k] # "boolean" /\ v \in Typed[k]

Stage(k, v) ==
  /\ Shown = "settings" /\ connected /\ k \in DOMAIN report /\ Offers(k, v)
  /\ stages < MaxStages /\ stages' = stages + 1
  /\ edits' = [key \in DOMAIN edits \cup {k} |-> IF key = k THEN v ELSE edits[key]]
  /\ UNCHANGED <<server, print, report, errors, applying, jobs, outside, stale>>

Discard ==
  /\ Shown = "settings" /\ connected /\ Dirty # {} /\ ~applying
  /\ edits' = <<>> /\ errors' = {}
  /\ UNCHANGED <<server, print, report, applying, jobs, stages, outside, stale>>

----------------------------------------------------------------------------
(* apply.                                                                  *)

(* A job: the keys to write and what was captured for them, those written  *)
(* and those refused, the answer of the scan, whether the panel that began *)
(* it is there, and, as history, whether the server has changed since.     *)
Apply ==
  /\ Shown = "settings" /\ connected /\ Dirty # {} /\ ~applying
  /\ Len(jobs) < MaxJobs
  /\ applying' = TRUE
  /\ jobs' = Append(jobs, [todo |-> Dirty, want |-> Restrict(edits, Dirty),
                           applied |-> {}, failed |-> {}, scan |-> None,
                           over |-> FALSE, mine |-> TRUE, old |-> FALSE])
  /\ UNCHANGED <<server, print, report, edits, errors, stages, outside, stale>>

(* The server changes: answers that are on their way are older than that.  *)
Outdated(js) == [i \in DOMAIN js |-> [js[i] EXCEPT !.old = @ \/ js[i].scan # None]]

(* The loop's next command.  The server takes the value, clamps or ignores *)
(* it; an error can come before it has had an effect or after.             *)
Execute(i) ==
  /\ \E k \in jobs[i].todo, ok \in BOOLEAN :
       /\ ok => connected
       /\ \E v \in Values[k] : server' = [server EXCEPT ![k] = v]
       /\ jobs' = LET js == IF server' = server THEN jobs ELSE Outdated(jobs) IN
                  [js EXCEPT ![i].todo = @ \ {k},
                             ![i].applied = IF ok THEN @ \cup {k} ELSE @,
                             ![i].failed = IF ok THEN @ ELSE @ \cup {k}]
  /\ UNCHANGED <<print, report, edits, errors, applying, stages, outside, stale>>

(* The scan that reads everything again, or that cannot be had.            *)
Reread(i) ==
  /\ jobs[i].todo = {} /\ ~jobs[i].over
  /\ \E ok \in BOOLEAN :
       /\ ok => connected
       /\ jobs' = [jobs EXCEPT ![i].over = TRUE, ![i].scan = IF ok THEN server ELSE None]
  /\ UNCHANGED <<server, print, report, edits, errors, applying, stages, outside, stale>>

(* Mutant: the staged values are taken for the server's.                   *)
ReportStaged(i) ==
  report' = IF jobs[i].scan = None THEN report
            ELSE [k \in DOMAIN report |->
                    IF k \in jobs[i].applied THEN jobs[i].want[k] ELSE report[k]]

(* onReport: whoever is on the screen by now.                              *)
TakeReport(i) ==
  report' = IF jobs[i].scan = None THEN report ELSE jobs[i].scan

(* Mutant: what is left is computed from the edits that were captured.     *)
KeepCaptured(i) ==
  IF ~jobs[i].mine THEN UNCHANGED <<edits, errors, applying>>
  ELSE /\ edits' = Restrict(jobs[i].want, jobs[i].failed)
       /\ errors' = jobs[i].failed /\ applying' = FALSE

(* Mutant: the button stays off.                                           *)
KeepApplying(i) ==
  IF ~jobs[i].mine THEN UNCHANGED <<edits, errors, applying>>
  ELSE /\ edits' = Restrict(edits, DOMAIN edits \ jobs[i].applied)
       /\ errors' = jobs[i].failed /\ UNCHANGED applying

(* The setters after the scan; those of a panel that has gone do nothing.  *)
KeepEdits(i) ==
  IF ~jobs[i].mine THEN UNCHANGED <<edits, errors, applying>>
  ELSE /\ edits' = Restrict(edits, DOMAIN edits \ jobs[i].applied)
       /\ errors' = jobs[i].failed /\ applying' = FALSE

Finish(i) ==
  /\ jobs[i].over
  /\ TakeReport(i) /\ KeepEdits(i)
  /\ jobs' = RemoveAt(jobs, i)
  /\ stale' = (jobs[i].scan = None \/ jobs[i].old)
  /\ UNCHANGED <<server, print, stages, outside>>

----------------------------------------------------------------------------
(* The panel is left.                                                      *)
LeaveSettings ==
  /\ edits' = <<>> /\ errors' = {} /\ applying' = FALSE
  /\ jobs' = [i \in DOMAIN jobs |-> [jobs[i] EXCEPT !.mine = FALSE]]
  /\ UNCHANGED <<server, print, report, stages, outside, stale>>

(* The server's options change by other means, ...                         *)
ChangeElsewhere ==
  /\ outside < MaxOutside /\ outside' = outside + 1
  /\ \E k \in Keys : \E v \in Values[k] \ {server[k]} : server' = [server EXCEPT ![k] = v]
  /\ jobs' = Outdated(jobs) /\ stale' = TRUE
  /\ UNCHANGED <<print, report, edits, errors, applying, stages>>

(* ... and App has a new report: rescan, or a discovery event.             *)
Rescanned ==
  /\ connected
  /\ report' = server /\ stale' = FALSE
  /\ UNCHANGED <<server, print, edits, errors, applying, jobs, stages, outside>>

SettingsUser ==
  \/ \E k \in Keys : \E v \in Values[k] \cup Typed[k] \cup {"true", "false"} : Stage(k, v)
  \/ Discard \/ Apply

SettingsRest ==
  \/ ChangeElsewhere \/ Rescanned
  \/ \E i \in DOMAIN jobs : Execute(i) \/ Reread(i) \/ Finish(i)

SettingsTypeOK ==
  /\ server \in Contents /\ report \in Contents /\ print \in Fingerprints
  /\ DOMAIN edits \subseteq Keys /\ errors \subseteq Keys
  /\ {applying, stale} \subseteq BOOLEAN /\ Len(jobs) <= MaxJobs
  /\ applying <=> \E i \in DOMAIN jobs : jobs[i].mine
  /\ \A i, j \in DOMAIN jobs : jobs[i].mine /\ jobs[j].mine => i = j

----------------------------------------------------------------------------
(* Once applies have ended the options on the screen are the server's: a   *)
(* value that was clamped, ignored or refused is never shown as written.   *)
(* Excused are a scan that failed or that was older than another change.   *)
ListShowsServer == jobs = <<>> /\ ~stale => report = server

(* What keeps it so: an answer that nothing has outdated is what the server *)
(* has, so that the last apply to end brings it, or says that it does not.  *)
AnswersCurrent ==
  \A i \in DOMAIN jobs : jobs[i].scan # None /\ ~jobs[i].old => jobs[i].scan = server

(* Edits, and what an apply is made of.                                    *)
Staged ==
  UNION {[ks -> (UNION {Values[k] \cup Typed[k] : k \in Keys}) \cup {"true", "false"}] :
           ks \in SUBSET Keys}

Jobs ==
  [todo : SUBSET Keys, want : Staged, applied : SUBSET Keys, failed : SUBSET Keys,
   scan : Contents \cup {None}, over : BOOLEAN, mine : BOOLEAN, old : BOOLEAN]

SettingsInv ==
  /\ SettingsTypeOK /\ ListShowsServer /\ AnswersCurrent
  /\ edits \in Staged /\ jobs \in Seq(Jobs) /\ {stages, outside} \subseteq Nat

(* While edits are applied the user may stage more.  An edit is given up   *)
(* only by a discard, by leaving the screen, or when its own key has been  *)
(* written, and its value changes only by the user's hand.                 *)
EditsSurvive ==
  [][\A k \in DOMAIN edits :
       \/ k \in DOMAIN edits' /\ (edits'[k] = edits[k] \/ stages' # stages)
       \/ Discard \/ Shown' # "settings"
       \/ \E i \in DOMAIN jobs : k \in jobs[i].applied /\ jobs[i].mine /\ Len(jobs') < Len(jobs)]_<<settingsVars, screenVars>>

=============================================================================
