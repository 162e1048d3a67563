---------------------------- MODULE MCDataExport ----------------------------
(* Instances of DataExport for TLC. *)
EXTENDS DataExport, TLC

\* Workers are interchangeable.
WorkerSymmetry == Permutations(Workers)
=============================================================================
