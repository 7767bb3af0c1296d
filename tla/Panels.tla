------------------------------- MODULE Panels -------------------------------
(***************************************************************************)
(* The panels of one selected server together (web/src/App.tsx), with the  *)
(* Commands tab (components/CommandsPanel.tsx), the Templates screen       *)
(* (components/TemplatesPanel.tsx) and the palette over them.  Going from  *)
(* one to another ends the state of the one that is left; applies, answers *)
(* and the connection go on behind it, and behind the palette.             *)
(***************************************************************************)
EXTENDS Settings, Palette

CONSTANTS
  MaxAwaited, \* histories asked for
  Catalogue,  \* the commands of the report
  Prefilled   \* the line for those that take arguments

ASSUME PanelsAssumption ==
  /\ MaxAwaited \in Nat
  /\ (Catalogue \ DOMAIN Prefilled) \subseteq Texts
  /\ Range(Prefilled) \subseteq Texts

VARIABLE game  \* the template that is shown

panelVars == <<settingsVars, promptVars>>
vars == <<screenVars, panelVars, paletteVars, game, awaited>>

PanelsInit ==
  /\ view = "server" /\ tab \in Tabs /\ connected \in BOOLEAN
  /\ SettingsInit /\ PromptInit /\ PaletteInit /\ game = 1

----------------------------------------------------------------------------
(* Another panel is shown: the old one is unmounted and the new mounted.   *)
(* A line that has been asked for is there again at every mount.           *)
Go(v, t, line) ==
  /\ view' = v /\ tab' = t /\ UNCHANGED connected
  /\ IF Shown = "settings" /\ Shown' # "settings" THEN LeaveSettings ELSE UNCHANGED settingsVars
  /\ CASE Shown # "console" /\ Shown' = "console" -> MountPrompt(line)
       [] Shown = "console" /\ Shown' # "console" -> UnmountPrompt
       [] OTHER -> UNCHANGED promptVars
  /\ game' = IF Shown' = "templates" THEN game ELSE 1

(* chooseTab, which leaves the view as it is.                              *)
ChooseTab(t) == Go(view, t, prefill)

OpenTemplates == Go("templates", tab, prefill)

(* The sidebar leads back to the server, with the tab it had ...           *)
BackToServer == view = "templates" /\ Go("server", tab, prefill)

(* ... or to another one, whose first tab is the console.  The settings of *)
(* one server are followed here: nothing is being applied to them.  A      *)
(* prompt that was on the screen is still there, with its line.            *)
SelectOther ==
  /\ view # "nothing" /\ jobs = <<>>
  /\ awaited < MaxAwaited /\ awaited' = awaited + 1
  /\ Go("server", "console", prefill)

(* The server list cannot be had, or can again.                            *)
ListFails == view = "server" /\ Go("nothing", tab, prefill)
ListLoads == view = "nothing" /\ Go("server", tab, prefill)

(* The run button of a command.                                            *)
RunListed(cmd) ==
  /\ Shown = "commands" /\ connected
  /\ IF cmd \in DOMAIN Prefilled THEN Go(view, "console", Prefilled[cmd])
     ELSE RunCommand(cmd) /\ UNCHANGED <<screenVars, settingsVars, game>>

ChooseGame(i) ==
  /\ view = "templates" /\ game' = i
  /\ UNCHANGED <<screenVars, panelVars>>

(* Enter, or a click, in the palette.                                      *)
Choose ==
  /\ CanChoose /\ ClosePalette
  /\ CASE Chosen = "templates" -> OpenTemplates
       [] Chosen \in Tabs -> ChooseTab(Chosen)
       [] OTHER -> RunCommand(Chosen) /\ UNCHANGED <<screenVars, settingsVars, game>>

----------------------------------------------------------------------------
(* The user at a panel; the palette, when it is open, has the keyboard and *)
(* covers the page.                                                        *)
AtPanels ==
  /\ ~open /\ ~Crashed /\ UNCHANGED paletteVars
  /\ \/ SelectOther
     \/ /\ UNCHANGED awaited
        /\ \/ SettingsUser /\ UNCHANGED <<screenVars, promptVars, game>>
           \/ PromptUser /\ UNCHANGED <<screenVars, settingsVars, game>>
           \/ \E t \in Tabs \ {tab} : view = "server" /\ ChooseTab(t)
           \/ view # "templates" /\ OpenTemplates
           \/ BackToServer
           \/ \E cmd \in Catalogue : RunListed(cmd)
           \/ \E i \in DOMAIN Games \ {game} : ChooseGame(i)

AtPalette ==
  /\ ~Crashed /\ UNCHANGED awaited
  /\ \/ /\ UNCHANGED <<screenVars, panelVars, game>>
        /\ \/ OpenPalette
           \/ open /\ ClosePalette
           \/ \E q \in Queries : Search(q)
           \/ HighlightNext \/ HighlightPrevious
           \/ \E i \in 0 .. Len(Commands) : Hover(i)
     \/ Choose

(* What nobody does here.                                                  *)
Behind ==
  /\ ~Crashed
  /\ \/ HistoryArrives /\ UNCHANGED <<screenVars, settingsVars, game>>
     \/ /\ UNCHANGED awaited
        /\ \/ SettingsRest /\ UNCHANGED <<screenVars, promptVars, game>>
           \/ connected' = ~connected /\ UNCHANGED <<view, tab, panelVars, game>>
           \/ ListFails \/ ListLoads
  /\ CommandsMove

PanelsNext == AtPanels \/ AtPalette \/ Behind

PanelsSpec == PanelsInit /\ [][PanelsNext]_vars

----------------------------------------------------------------------------
TypeOK ==
  /\ ScreenTypeOK /\ SettingsTypeOK /\ PromptTypeOK
  /\ open \in BOOLEAN /\ query \in Queries /\ active \in Int /\ active >= -1
  /\ moved => open
  /\ game \in DOMAIN Games

(* The three panels' promises with what they rest on.                      *)
PanelsInv == TypeOK /\ SettingsInv /\ DraftKept /\ HighlightExists

(* A grouping shows every row once, in its order within its section, and   *)
(* what belongs to no section at the end.                                  *)
Groups(sections, rows, name) ==
  /\ \A i, j \in DOMAIN sections : sections[i].name = sections[j].name => i = j
  /\ \A k \in Range(rows) : \E i \in DOMAIN sections : sections[i].name = name[k]
  /\ \A i \in DOMAIN sections :
       /\ sections[i].rows = Among(rows, {k \in Range(rows) : name[k] = sections[i].name})
       /\ sections[i].name = "Other" => i = Len(sections)

(* The rows of a report, and what the catalogue says of those it knows.    *)
WellGrouped(fingerprint) ==
  LET sections == ReportSections(fingerprint, Options) IN
  /\ Groups(sections, Options, Headings(fingerprint, Options))
  /\ \A i \in DOMAIN sections, g \in DOMAIN Games :
       Games[g].id = fingerprint /\ sections[i].name # "Other" =>
         \E j \in DOMAIN Games[g].sections :
           /\ Games[g].sections[j].title = sections[i].name
           /\ Range(sections[i].rows) \subseteq Range(Games[g].sections[j].keys)

WellGroupedTemplate(i) == Groups(TemplateSections(i), Curated[i], TemplateHeadings(i))

(* Every option of a report or of a template is on the screen once, in     *)
(* order; an option of a known game is under the same heading on both      *)
(* screens, and one that is not curated is shown all the same.             *)
SectionsAgree ==
  /\ Shown = "settings" => WellGrouped(print)
  /\ Shown = "templates" => WellGroupedTemplate(game)

=============================================================================
