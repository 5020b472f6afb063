----------------------------- MODULE MCToolchain -----------------------------
(* Instances of Toolchain for TLC: two versions of Node, of which the older  *)
(* one is an LTS release and is published first, and one version of snpm.    *)
EXTENDS Toolchain, TLC

Partial == [kind |-> "partial", of |-> {1, 2}]
Range == [kind |-> "range", of |-> {2}]
LtsIron == [kind |-> "lts", of |-> {1}]

MCSpec == {Partial, Range, LtsIron}
MCTyped == {Exact(1), Partial}
MCNamed == {Default, Exact(1), Partial}

Files(file, engines, manager) == [file |-> file, engines |-> engines, manager |-> manager]
Plain == Files(NONE, NONE, NONE)
Own(v) == [snpm |-> TRUE, version |-> v]
Other == [snpm |-> FALSE, version |-> 11]

\* A project below a pin file, and two with engines.node, of which the Node of
\* the system fits one.
MCTree == {<<Files(NONE, Range, Own(11)), Files(Partial, NONE, Other)>>,
           <<Files(NONE, Partial, Other)>>,
           <<Plain, Files(NONE, Range, Own(NONE))>>}

Symmetry == Permutations(Process)
=============================================================================
