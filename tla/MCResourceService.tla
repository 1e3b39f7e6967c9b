-------------------------- MODULE MCResourceService --------------------------
(***************************************************************************)
(* Two contexts whose clusters report different namespaces, so that a      *)
(* namespace leaking from one context to the other is visible.             *)
(***************************************************************************)
EXTENDS ResourceService, TLC

CONSTANTS c1, c2, n1, n2, r1, r2

MCNamespacesOf == c1 :> {n1} @@ c2 :> {n2}

=============================================================================
