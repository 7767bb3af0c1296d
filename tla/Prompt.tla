------------------------------- MODULE Prompt -------------------------------
(***************************************************************************)
(* The console's prompt (web/src/components/CommandInput.tsx) and the      *)
(* history it walks through, which belongs to App.                         *)
(***************************************************************************)
EXTENDS Screen, Arrays, Functions

CONSTANTS
  Texts,      \* what the line can hold
  Empty,      \* the empty line
  Undefined,  \* what an array has past its end
  Trimmed,    \* each text without the blanks around it
  Completed,  \* each text after Tab: itself where no command begins like it
  Histories   \* what the daemon has recorded, newest first

ASSUME PromptAssumption ==
  /\ Empty \in Texts /\ Undefined \notin Texts
  /\ Trimmed \in [Texts -> Texts] /\ Trimmed[Empty] = Empty
  /\ Completed \in [Texts -> Texts]
  /\ Histories \subseteq Seq(Texts)

VARIABLES
  history,  \* App's copy
  value,    \* the line
  index,    \* where in the history it is, -1 for a fresh line
  draft,    \* the fresh line, while in the history
  awaited,  \* histories that have been asked for
  prefill,  \* the line that the Commands tab has asked for, if any
  typed     \* history: the fresh line as the user left it

promptVars == <<history, value, index, draft, prefill, typed>>

PromptInit ==
  /\ history = <<>> /\ awaited = 1 /\ prefill = Undefined
  /\ value = Empty /\ index = -1 /\ draft = Empty /\ typed = Empty

(* A line that is undefined cannot be rendered: the page is gone.          *)
Crashed == value = Undefined

(* A disabled input has no focus.                                          *)
AtPrompt == Shown = "console" /\ connected /\ ~Crashed

(* The fresh line becomes another.                                         *)
Fresh(line) == value' = line /\ index' = -1 /\ typed' = line

(* execute puts a command in front and takes it from where it was.         *)
Ran(cmd) == <<cmd>> \o Among(history, Texts \ {cmd})

Type(line) ==
  /\ AtPrompt /\ Fresh(line)
  /\ UNCHANGED <<history, draft, prefill>>

Submit ==
  /\ AtPrompt /\ Trimmed[value] # Empty
  /\ history' = Ran(Trimmed[value])
  /\ Fresh(Empty) /\ draft' = Empty
  /\ UNCHANGED prefill

(* history[i], past its end too.                                           *)
Entry(i) == IF i + 1 \in DOMAIN history THEN history[i + 1] ELSE Undefined

(* Mutant: the draft is saved at every step.                               *)
UpSaving ==
  /\ AtPrompt /\ history # <<>>
  /\ draft' = value
  /\ index' = IF index + 1 < Len(history) THEN index + 1 ELSE Len(history) - 1
  /\ value' = Entry(index')
  /\ UNCHANGED <<history, prefill, typed>>

Up ==
  /\ AtPrompt /\ history # <<>>
  /\ draft' = IF index = -1 THEN value ELSE draft
  /\ index' = IF index + 1 < Len(history) THEN index + 1 ELSE Len(history) - 1
  /\ value' = Entry(index')
  /\ UNCHANGED <<history, prefill, typed>>

Down ==
  /\ AtPrompt /\ index # -1
  /\ index' = index - 1
  /\ value' = IF index' = -1 THEN draft ELSE Entry(index')
  /\ UNCHANGED <<history, draft, prefill, typed>>

(* Tab.  In the history it changes the line that is shown only.            *)
Complete ==
  /\ AtPrompt /\ Completed[value] # value
  /\ value' = Completed[value]
  /\ typed' = IF index = -1 THEN value' ELSE typed
  /\ UNCHANGED <<history, index, draft, prefill>>

(* A command that is run elsewhere: a macro, the palette, the Commands tab. *)
RunCommand(cmd) ==
  /\ history' = Ran(cmd)
  /\ UNCHANGED <<value, index, draft, prefill, typed>>

RunMacro(cmd) == AtPrompt /\ cmd \in Range(Trimmed) \ {Empty} /\ RunCommand(cmd)

(* The history of the selected server arrives, or cannot be had.           *)
HistoryArrives ==
  /\ awaited > 0 /\ awaited' = awaited - 1
  /\ history' \in Histories \cup {<<>>}
  /\ UNCHANGED <<value, index, draft, prefill, typed>>

(* The prompt comes on the screen, with a line that was asked for if there *)
(* ever was one.                                                           *)
MountPrompt(line) ==
  /\ prefill' = line
  /\ Fresh(IF line = Undefined THEN Empty ELSE line) /\ draft' = Empty
  /\ UNCHANGED history

UnmountPrompt ==
  /\ Fresh(Empty) /\ draft' = Empty
  /\ UNCHANGED <<history, prefill>>

PromptUser ==
  \/ \E line \in Texts : Type(line) \/ RunMacro(line)
  \/ Submit \/ Up \/ Down \/ Complete

PromptTypeOK ==
  /\ history \in Seq(Texts) /\ index \in Int /\ index >= -1
  /\ {value, prefill} \subseteq Texts \cup {Undefined}
  /\ draft \in Texts /\ typed \in Texts /\ awaited \in Nat

----------------------------------------------------------------------------
(* Walking through the history never loses the line that was begun: it is  *)
(* on the screen, or it is what the last step down brings back, whatever   *)
(* becomes of the history meanwhile.                                       *)
DraftKept ==
  IF index = -1 THEN value = typed ELSE draft = typed

(* Every step through the history shows a line that is there.              *)
LineDefined == ~Crashed

=============================================================================
