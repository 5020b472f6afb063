---------------------------- MODULE MCVirtualStore ----------------------------
(***************************************************************************)
(* Two projects that install one of two graphs.  C is not safe to share.   *)
(* In the first graph A and C use B1, and A is shared; in the second C     *)
(* uses B2 and is a peer of A, so that A is not shared either.             *)
(***************************************************************************)
EXTENDS VirtualStore, TLC

CONSTANTS A, B1, B2, C, b, c, main, g1, g2

MCPackage == {A, B1, B2, C}
MCName == {b, c}
MCFile == {META, main}
MCGraph == {g1, g2}

MCPackages == [g \in MCGraph |-> {A, C, IF g = g1 THEN B1 ELSE B2}]
MCDeps ==
    [g \in MCGraph |-> [p \in MCPackage |-> [n \in MCName |->
        CASE n = b /\ p \in {A, C} /\ g = g1 -> B1
          [] n = b /\ p = C /\ g = g2 -> B2
          [] OTHER -> NONE]]]
MCPeers ==
    [g \in MCGraph |-> [p \in MCPackage |-> [n \in MCName |->
        IF n = c /\ p = A /\ g = g2 THEN C ELSE NONE]]]

\* The hash covers what the package uses: B1 and B2 use nothing.
MCSlot ==
    [g \in MCGraph |-> [p \in MCPackage |->
        IF p \in {A, C} THEN <<p, g>> ELSE <<p, "none">>]]
ASSUME MCSlotsAgree == SlotsAgree

MCContent == [p \in MCPackage |-> IF p = A THEN {META, main} ELSE {META}]

MCUnsafe == {{C}}

Symmetry == Permutations(Project)

=============================================================================
