------------------------------- MODULE MCDrive -------------------------------
(* Instances of Drive for TLC. *)
EXTENDS Drive, TLC

ProcSymmetry == Permutations(Procs)

\* The third content is as large as the two before it.
MCSize == <<1, 1, 2>>

\* Bound: versions, holds and cleanups act while there are at most two files, and holds are
\* placed on the first one; a third file is there for the quota.
Bound ==
    /\ placing \subseteq {1}
    /\ \/ Is(3, "NONE")
       \/ /\ \A f \in Files : ~Is(f, "GONE") /\ ~node[f].held /\ node[f].version = 1
          /\ placing = {} /\ \A c \in Cleaners : cleaner[c].pc = "idle"
=============================================================================
