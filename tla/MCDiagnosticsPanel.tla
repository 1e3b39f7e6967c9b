-------------------------- MODULE MCDiagnosticsPanel --------------------------
EXTENDS DiagnosticsPanel

CONSTANTS p1, p2, k1

=============================================================================
