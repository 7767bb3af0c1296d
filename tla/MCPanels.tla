------------------------------ MODULE MCPanels ------------------------------
(* Panels with two options that are edited among four, the commands k and  *)
(* kick, and a palette that searches for everything, for commands that     *)
(* have been run, and for what is not there.                               *)
EXTENDS Panels

VARIABLE focus  \* what the behaviour is about

MCOptions == <<"Notes", "Open", "PVP", "PingLimit">>
MCKind ==
  [Notes |-> "string", Open |-> "boolean", PVP |-> "boolean", PingLimit |-> "integer"]
MCValues ==
  [Notes |-> {"text"}, Open |-> {"true", "false"}, PVP |-> {"true"}, PingLimit |-> {"0", "1"}]
MCTyped == [Notes |-> {}, Open |-> {}, PVP |-> {}, PingLimit |-> {""}]
MCNumerals == [n \in {"0", "1"} |-> IF n = "0" THEN 0 ELSE 1]

MCTexts == {"", "k", "kick", "kick "}
MCCompleted == [t \in MCTexts |-> IF t = "k" THEN "kick" ELSE t]
MCTrimmed == [t \in MCTexts |-> IF t = "kick " THEN "kick" ELSE t]
MCHistories == {<<"k">>, <<"kick", "k">>}
MCCatalogue == {"k", "kick"}
MCPrefilled == [c \in {"kick"} |-> "kick "]

MCQueries == {"", "run", "gone"}
MCFinds ==
  [q \in MCQueries |->
     CASE q = "" -> MCTexts \cup Tabs \cup {"templates"}
       [] q = "run" -> MCTexts
       [] OTHER -> {}]

(* A behaviour changes settings, types commands and uses the palette, or   *)
(* looks at the options of the three kinds of games.                       *)
MCInit ==
  /\ PanelsInit /\ focus \in {"settings", "commands", "options"}
  /\ server["Open"] = "true" /\ server["PingLimit"] = "0"
  /\ focus # "options" => print = "zomboid"
  /\ focus # "commands" => tab = "settings" /\ connected

MCNext ==
  /\ PanelsNext /\ UNCHANGED focus
  /\ CASE focus = "settings" -> UNCHANGED <<view, history, awaited, open>> /\ tab' # "console"
       [] focus = "commands" -> UNCHANGED settingsVars /\ game' = 1
       [] OTHER -> UNCHANGED <<settingsVars, promptVars, awaited, paletteVars>> /\ game' < 4

MCSpec == MCInit /\ [][MCNext]_<<vars, focus>>

(* Messages make no difference to what follows, nor does what a job has    *)
(* captured of keys that are written or, when nobody waits for it, done.   *)
Seen(job) ==
  [job EXCEPT !.want = Restrict(@, job.todo),
              !.applied = IF job.mine THEN @ ELSE {},
              !.failed = IF job.mine THEN @ ELSE {}]

View == <<screenVars, server, print, report, edits, applying,
          [i \in DOMAIN jobs |-> Seen(jobs[i])], stages, outside, stale,
          promptVars, awaited, paletteVars, game, focus>>

=============================================================================
