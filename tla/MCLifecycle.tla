---------------------------- MODULE MCLifecycle ----------------------------
EXTENDS Lifecycle, TLC

CONSTANTS c1, n1, h1, h2, h3

MCNamespacesOf == c1 :> {n1}

=============================================================================
