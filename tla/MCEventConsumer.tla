-------------------------- MODULE MCEventConsumer --------------------------
(* Instances of EventConsumer for TLC.                                     *)
EXTENDS EventConsumer, TLC

(* Instances and short codes are interchangeable.                          *)
Interchangeable == Permutations(Instances) \cup Permutations(Codes)

=============================================================================
