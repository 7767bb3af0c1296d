-------------------------------- MODULE Feed --------------------------------
(***************************************************************************)
(* What the event stream promises a console: it shows lines of its own     *)
(* profile only, each at most once, in the order they were published;      *)
(* lines may be missing, and old ones scroll out.                          *)
(***************************************************************************)
EXTENDS Naturals, Sequences

CONSTANTS Tabs, Profiles

VARIABLES
  log,      \* every line published
  profile,  \* the profile a tab shows
  console   \* the lines on its console

vars == <<log, profile, console>>

Init ==
  /\ log = <<>>
  /\ profile \in [Tabs -> Profiles]
  /\ console = [t \in Tabs |-> <<>>]

Publish ==
  /\ Len(log') > Len(log)
  /\ log' = Append(log, log'[Len(log) + 1])
  /\ UNCHANGED <<profile, console>>

(* Line i is later than everything on the console.                         *)
Later(t, i) ==
  \A n \in DOMAIN console[t] : \E j \in 1..i - 1 : log[j] = console[t][n]

Show(t) ==
  \E i \in DOMAIN log, first \in 1..Len(console[t]) + 1 :
    /\ log[i].profile = profile[t]
    /\ Later(t, i)
    /\ console' = [console EXCEPT ![t] =
                     Append(SubSeq(@, first, Len(@)), log[i])]
    /\ UNCHANGED <<log, profile>>

Select(t) ==
  \E p \in Profiles :
    /\ profile' = [profile EXCEPT ![t] = p]
    /\ console' = [console EXCEPT ![t] = <<>>]
    /\ UNCHANGED log

Next == Publish \/ \E t \in Tabs : Show(t) \/ Select(t)

Spec == Init /\ [][Next]_vars

=============================================================================
