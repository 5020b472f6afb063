----------------------------- MODULE MCLifecycle -----------------------------
(* Instances of Lifecycle for TLC.                                          *)
EXTENDS Lifecycle, TLC

CONSTANTS i1, i2, p, r, s

\* r and s are two versions of one package, p needs it, and the first of them
\* needs p in turn.  Only p has a version.  The first project patches p and
\* lets all scripts run, the second ignores those of r and s.
MCNameOf == p :> "p" @@ r :> "r" @@ s :> "r"
MCDepNames == p :> {"p", "r"} @@ r :> {"p"} @@ s :> {}
MCPatched == i1 :> {p} @@ i2 :> {}
MCPolicy ==
    i1 :> [only_built |-> {}, ignored_built |-> {}, allow_scripts |-> {"p", "r"}]
    @@ i2 :> [only_built |-> {}, ignored_built |-> {"r"}, allow_scripts |-> {}]

=============================================================================
