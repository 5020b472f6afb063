----------------------------- MODULE MCResolver -----------------------------
(* Instances of Resolver for TLC.                                          *)
EXTENDS Resolver, TLC

CONSTANTS a, b, c, d, e, f, A, B, B2, C, D, E, F

\* A function on S that is g where g is defined and v elsewhere
On(S, g, v) == [x \in S |-> IF x \in DOMAIN g THEN g[x] ELSE v]

\* The project asks for C, which is new to its manifest; the seed has A, whose B
\* needs C, and D, whose subgraph has lost E.  D and B2 depend on each other,
\* requests for F may fail, and of f there is no version that the project could use.
AllName == {a, b, c, d, e, f}
AllPackage == {A, B, B2, C, D, E, F}
AllRequired == On(AllPackage \cup {ROOT},
    ROOT :> {a, c} @@ A :> {b} @@ B :> {c} @@ D :> {b} @@ E :> {b, f}, {})
AllOptional == On(AllPackage \cup {ROOT}, ROOT :> {d, f} @@ D :> {e} @@ B2 :> {d}, {})
AllPick == [x \in AllPackage \cup {ROOT} |->
    a :> A @@ b :> B2 @@ c :> C @@ d :> D @@ e :> E @@ f :> IF x = ROOT THEN NONE ELSE F]
AllSeed == {A, B, C, D}
AllSeedDeps == [x \in AllPackage \cup {ROOT} |-> On(AllName,
    CASE x = ROOT -> a :> A @@ d :> D
      [] x = A -> b :> B
      [] x = B -> c :> C
      [] x = D -> b :> B @@ e :> E
      [] OTHER -> << >>, NONE)]

=============================================================================
