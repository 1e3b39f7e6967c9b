------------------------- MODULE MCDiagnosticService -------------------------
(***************************************************************************)
(* With one context, selecting it again supersedes a scope as well as      *)
(* selecting another one would; the Pod run uses two contexts.             *)
(***************************************************************************)
EXTENDS DiagnosticService, TLC

CONSTANTS c1, c2, n1, d1, d2

MCNamespacesOf == [c \in Contexts |-> {n1}]

DiagnosisSymmetry == Permutations(Diagnoses)

=============================================================================
