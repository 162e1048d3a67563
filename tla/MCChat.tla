-------------------------------- MODULE MCChat --------------------------------
(* Instances of Chat for TLC. *)
EXTENDS Chat, TLC

Symmetry == Permutations(Procs) \cup Permutations(Purgers)

\* Bound: attachments are of the first message and are gone when the second one is posted;
\* while somebody looks at the conversation there are no attachments, retention and holds.
Bound ==
    LET quiet == \A v \in Viewers : ~stream[v].open
        bare == /\ \A m \in Msgs : ~file[m].object /\ ~file[m].row
                /\ \A p \in Procs : ~At(p, "put") /\ ~At(p, "row") /\ ~At(p, "undo")
                /\ \A g \in Purgers : purger[g].pc = "idle"
    IN  \/ quiet /\ Cardinality(Posted) < 2
        \/ quiet /\ bare
        \/ bare /\ ~held /\ \A m \in Msgs : ~msg[m].old
===============================================================================
