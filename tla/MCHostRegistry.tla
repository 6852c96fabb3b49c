--------------------------- MODULE MCHostRegistry ---------------------------
(***************************************************************************)
(* Small instances of HostRegistry.                                        *)
(***************************************************************************)
EXTENDS HostRegistry, TLC

CONSTANTS h1, h2, h3, w1, w2, k1, k2

=============================================================================
