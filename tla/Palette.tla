------------------------------ MODULE Palette ------------------------------
(***************************************************************************)
(* The command palette (web/src/components/CommandPalette.tsx) and the     *)
(* commands App has for it (web/src/App.tsx): those that are always there, *)
(* and the commands that have been run.                                    *)
(***************************************************************************)
EXTENDS Prompt

CONSTANTS
  Queries,  \* what is searched for
  Finds     \* what each query finds among commands and texts

ASSUME PaletteAssumption ==
  "" \in Queries /\ Queries \subseteq DOMAIN Finds

VARIABLES
  open,    \* paletteOpen
  query,
  active,  \* the highlighted row
  moved    \* history: the commands have changed since the query has

paletteVars == <<open, query, active, moved>>

PaletteInit == open = FALSE /\ query = "" /\ active = 0 /\ moved = FALSE

(* The commands, of which the older half of a long history is left out.    *)
Commands ==
  <<"templates">> \o
  (IF view = "nothing" THEN <<>> ELSE <<"settings", "commands">> \o history)

Matches == Among(Commands, Finds[query])

OpenPalette ==
  /\ ~open /\ open' = TRUE
  /\ query' = "" /\ active' = 0 /\ moved' = FALSE

ClosePalette ==
  open' = FALSE /\ query' = "" /\ active' = 0 /\ moved' = FALSE

(* Mutant: the highlight stays where it was.                               *)
SearchOnly(q) ==
  /\ open /\ q # query /\ query' = q
  /\ moved' = FALSE
  /\ UNCHANGED <<open, active>>

Search(q) ==
  /\ open /\ q # query /\ query' = q
  /\ active' = 0 /\ moved' = FALSE
  /\ UNCHANGED open

(* Where nothing matches the highlight goes to -1.                         *)
HighlightNext ==
  /\ open
  /\ active' = IF active + 1 < Len(Matches) - 1 THEN active + 1 ELSE Len(Matches) - 1
  /\ UNCHANGED <<open, query, moved>>

HighlightPrevious ==
  /\ open
  /\ active' = IF active > 0 THEN active - 1 ELSE 0
  /\ UNCHANGED <<open, query, moved>>

(* The pointer is over a row.                                              *)
Hover(i) ==
  /\ open /\ i \in 0 .. Len(Matches) - 1
  /\ active' = i
  /\ UNCHANGED <<open, query, moved>>

(* What Enter runs, and what a click runs.                                 *)
Chosen == Matches[active + 1]
CanChoose == open /\ active + 1 \in DOMAIN Matches

(* Commands come and go while the palette is open.                         *)
CommandsMove ==
  /\ moved' = (open /\ (moved \/ Commands' # Commands))
  /\ UNCHANGED <<open, query, active>>

----------------------------------------------------------------------------
(* Where anything matches, one of the matches is highlighted, so that      *)
(* Enter runs what the user sees, unless the list has changed since.       *)
HighlightExists ==
  open /\ ~moved /\ Matches # <<>> => active \in 0 .. Len(Matches) - 1

=============================================================================
