---------------------------- MODULE MCConsoleTabs ----------------------------
(***************************************************************************)
(* The contexts share a namespace name, so that only the generation can    *)
(* tell where a selection belongs, and each has one of its own.            *)
(***************************************************************************)
EXTENDS ConsoleTabs, TLC

CONSTANTS c1, c2, n1, n2, t1, t2

MCNamespacesOf == [c \in Contexts |-> IF c = c1 THEN {n1} ELSE {n1, n2}]

TabSymmetry == Permutations(Tabs)

=============================================================================
