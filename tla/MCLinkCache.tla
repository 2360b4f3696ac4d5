---------------------------- MODULE MCLinkCache ----------------------------
(* Instances of LinkCache for TLC.                                         *)
EXTENDS LinkCache, TLC

CONSTANTS h1, h2, c1

=============================================================================
