----------------------------- MODULE MCWorkspace -----------------------------
(* Instances of Workspace for TLC.                                          *)
EXTENDS Workspace, TLC

CONSTANTS a, b, x

D(section, spec) == [section |-> section, spec |-> spec]
Caret10 == Spec("caret", 10)

MCOrder == <<a, b>>

\* Both members need x, and b needs a.
MCManifest ==
    a :> (x :> D("required", Caret10) @@ a :> NoDep @@ b :> NoDep)
    @@ b :> (x :> D("optional", Caret10) @@ a :> D("dev", Caret10) @@ b :> NoDep)
MCVersion == [m \in {a, b} |-> 10]
MCCatalog == x :> Spec("caret", 11) @@ a :> Caret10 @@ b :> NoSpec

\* What may be edited: x moves within a major, away from it, to a catalog
\* entry, to a lower bound and to a dist-tag, and may be done without; a is asked
\* for by the workspace protocol and by the catalog.
MCEdit ==
    {<<a, x, D("required", Spec("catalog", 0))>>, <<a, x, D("required", Spec("exact", 10))>>,
     <<a, x, D("dev", Spec("tag", 0))>>, <<b, x, D("required", Spec("caret", 20))>>,
     <<a, x, D("optional", Spec("caret", 20))>>, <<b, x, D("required", Spec("gte", 11))>>,
     <<b, a, D("required", Spec("workspace", 10))>>, <<b, a, D("dev", Spec("catalog", 0))>>}
MCCommand ==
    {Default, [Default EXCEPT !.mode = "Frozen", !.strict = TRUE],
     [Default EXCEPT !.mode = "Fix"], [Default EXCEPT !.mode = "No"],
     [Default EXCEPT !.dev = FALSE], [Default EXCEPT !.force = TRUE]}

=============================================================================
