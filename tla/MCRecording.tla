---------------------------- MODULE MCRecording ----------------------------
(* Instances of Recording for TLC. *)
EXTENDS Recording, TLC

\* Handlers are interchangeable.
ProcSymmetry == Permutations(Procs)

\* Bound of the two-handler run: legal holds and retention act while the meeting has
\* one recording; with two, starts, stops, deletes and reconciliations do.
SecondIsUngoverned ==
    (\A r \in Recs : rec[r].status # "NONE") =>
        /\ held = {} /\ \A r \in Recs : lock[r] = Free /\ ~rec[r].expired
        /\ \A p \in Procs : req[p].pc # "purge"
=============================================================================
