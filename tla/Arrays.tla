------------------------------- MODULE Arrays -------------------------------
(* What several screens do with an array.                                  *)
EXTENDS Integers, Sequences

(* filter: what is among these, in its order.  (A function, because the    *)
(* provers know nothing of SelectSeq.)                                     *)
Among(seq, those) ==
  LET upTo[n \in 0 .. Len(seq)] ==
        IF n = 0 THEN <<>>
        ELSE IF seq[n] \in those THEN Append(upTo[n - 1], seq[n]) ELSE upTo[n - 1]
  IN upTo[Len(seq)]

=============================================================================
