------------------------------- MODULE Selection -------------------------------
(***************************************************************************)
(* What `filter` keeps of an array, as a set of places in place of a test. *)
(***************************************************************************)
EXTENDS Naturals, Sequences

\* The elements of s that stand at some places, in the order of s.
Selected(s, places) ==
    LET upTo[n \in 0..Len(s)] ==
            IF n = 0 THEN <<>>
            ELSE IF n \in places THEN Append(upTo[n - 1], s[n]) ELSE upTo[n - 1]
    IN  upTo[Len(s)]
===============================================================================
