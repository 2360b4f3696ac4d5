-------------------------- MODULE MCSnapshotMerge --------------------------
(* Instances of SnapshotMerge, with a reader of its tables, for TLC.       *)
EXTENDS AnalyticsApi, TLC

CONSTANTS w1, w2, c1, r1

(* Writers, and short codes, are interchangeable.                          *)
Interchangeable == Permutations(Writers) \cup Permutations(Codes)

=============================================================================
