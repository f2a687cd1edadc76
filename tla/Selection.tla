----------------------------- MODULE Selection -----------------------------
(***************************************************************************)
(* The elements of a list that are kept, in order: the lots that still hold  *)
(* shares, the rows that are book events.  It is SelectSeq with the positions *)
(* given, as a recursive function that can be reasoned about.                *)
(***************************************************************************)
EXTENDS Integers, Sequences

\* For every n, what is kept of the first n elements: those at positions in kept.
SelectUpTo(list, kept) ==
  LET upto[n \in 0..Len(list)] ==
        IF n = 0 THEN <<>>
        ELSE IF n \in kept THEN Append(upto[n - 1], list[n]) ELSE upto[n - 1]
  IN  upto

SelectAt(list, kept) == SelectUpTo(list, kept)[Len(list)]
=============================================================================
