--------------------------- MODULE MCProfileForm ---------------------------
(* ProfileForm with two windows and two runs, for TLC.                     *)
EXTENDS ProfileForm, TLC

(* What has been written is in the row, and what was read of it is not used *)
(* again.                                                                  *)
Waiting(request) ==
  IF request.state = "sent" THEN request ELSE [request EXCEPT !.body = None]

View ==
  <<row, shown, form, busy,
    [w \in Windows |-> [i \in DOMAIN saves[w] |-> Waiting(saves[w][i])]],
    at, found, cache, edits, saved, loose>>

(* Permuting what is interchangeable.                                      *)
Symmetry ==
  Permutations(Windows) \cup Permutations(Runs) \cup Permutations(Prints)

=============================================================================
