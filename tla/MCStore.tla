------------------------------ MODULE MCStore ------------------------------
(***************************************************************************)
(* Small instances of Store for TLC.                                       *)
(***************************************************************************)
EXTENDS Store, TLC

CONSTANTS p1, p2, p3, t1, t2, t3, q1, q2, f1, f2, r1

\* One install, whose tasks work on different packages, beside an offline
\* command that reads one of them.
SoloOwner == (t1 :> q1) @@ (t2 :> q1) @@ (t3 :> q2)
SoloWanted == (t1 :> {p1}) @@ (t2 :> {p2, p3}) @@ (t3 :> {p1})
SoloIntegrity == (p1 :> "supported") @@ (p2 :> "none") @@ (p3 :> "unsupported")

\* Two installs that need the same package
PairOwner == (t1 :> q1) @@ (t2 :> q2)
PairWanted == [t \in {t1, t2} |-> {p1}]
PairIntegrity == p1 :> "supported"

=============================================================================
