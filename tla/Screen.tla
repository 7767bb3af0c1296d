------------------------------- MODULE Screen -------------------------------
(***************************************************************************)
(* What App shows of one selected server (web/src/App.tsx): the view, the  *)
(* tab of the server's view, and whether the server is connected.  A panel *)
(* keeps local state only while it is on the screen.                       *)
(***************************************************************************)

VARIABLES
  view,      \* "server", "templates", or "nothing" when the list cannot be had
  tab,       \* the tab of the server's view
  connected  \* the server's status is "connected"

screenVars == <<view, tab, connected>>

Tabs == {"settings", "commands", "console"}

Shown == IF view = "server" THEN tab ELSE view

ScreenTypeOK ==
  /\ view \in {"server", "templates", "nothing"}
  /\ tab \in Tabs /\ connected \in BOOLEAN

=============================================================================
