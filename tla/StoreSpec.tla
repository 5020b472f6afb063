----------------------------- MODULE StoreSpec -----------------------------
(***************************************************************************)
(* What the content store promises the rest of snpm: a package is not      *)
(* there, or it is there as a whole; it becomes available in one step,     *)
(* with the entries of one tarball that its integrity accepts; and from    *)
(* then on it is neither changed nor removed.                              *)
(***************************************************************************)
CONSTANTS Package, File, Integrity

VARIABLE content    \* content[p]: the tree of p, all "none" while p is absent

Absent == [f \in File |-> "none"]

\* The tarballs that may be published as p
Publishable(p) ==
    IF Integrity[p] = "none" THEN {"good", "bad"}
    ELSE IF Integrity[p] = "supported" THEN {"good"} ELSE {}

Init == content = [p \in Package |-> Absent]

Publish(p) ==
    /\ content[p] = Absent
    /\ \E d \in Publishable(p) :
         content' = [content EXCEPT ![p] = [f \in File |-> d]]

Next == \E p \in Package : Publish(p)

Spec == Init /\ [][Next]_content

=============================================================================
