------------------------------- MODULE Layout -------------------------------
(***************************************************************************)
(* Parts of a file that are written one after the other.                   *)
(***************************************************************************)
EXTENDS Integers, Sequences, Functions

\* Where each part of a run of parts ends, counted from its beginning.
Ends(sizes) ==
  LET end[i \in 0 .. Len(sizes)] == IF i = 0 THEN 0 ELSE end[i - 1] + sizes[i]
  IN end

\* The bytes of a run of parts, and where each part starts.
Total(sizes) == Ends(sizes)[Len(sizes)]
Starts(first, sizes) == [i \in DOMAIN sizes |-> first + Ends(sizes)[i - 1]]

=============================================================================
