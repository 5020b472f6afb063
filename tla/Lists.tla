------------------------------- MODULE Lists --------------------------------
(***************************************************************************)
(* Places of a sequence, and what stands at them.                          *)
(***************************************************************************)
EXTENDS Naturals, Sequences

LastOf(at) == CHOOSE k \in at : \A j \in at : k >= j

FirstOf(at) == CHOOSE k \in at : \A j \in at : k <= j

\* The elements of a sequence at some places, in their order.
Chosen(s, at) ==
    LET upTo[n \in 0..Len(s)] ==
            IF n = 0 THEN << >>
            ELSE IF n \in at THEN Append(upTo[n - 1], s[n])
            ELSE upTo[n - 1]
    IN upTo[Len(s)]

=============================================================================
