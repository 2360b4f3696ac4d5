------------------------------ MODULE MCGateway ------------------------------
(* An instance of Gateway for TLC.                                         *)
EXTENDS Gateway

CONSTANTS r1, r2, c1, c2, f1, f2, core

=============================================================================
