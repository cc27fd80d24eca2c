---------------------------- MODULE ReadingArchive ----------------------------
(***************************************************************************)
(* What the retention of the readings promises, seen from outside: a       *)
(* reading that was imported is either in the database (hot) or in the     *)
(* archive (cold), a chunk leaves the database at once, and what is cold   *)
(* stays so and is not imported again.                                     *)
(***************************************************************************)
EXTENDS Naturals

CONSTANTS Readings,   \* what may be imported
          Chunks,     \* the intervals of the hypertable
          ChunkOf(_)  \* the interval a reading falls in

VARIABLES hot, cold

Init ==
  /\ hot = {}
  /\ cold = {}

Import(rows) ==
  /\ rows \cap cold = {}
  /\ hot' = hot \cup rows
  /\ UNCHANGED cold

\* A chunk moves as a whole, and once.
Retire(c) ==
  LET rows == {r \in hot : ChunkOf(r) = c}
  IN /\ \A r \in cold : ChunkOf(r) # c
     /\ hot' = hot \ rows
     /\ cold' = cold \cup rows

Next ==
  \/ \E rows \in SUBSET Readings : Import(rows)
  \/ \E c \in Chunks : Retire(c)

Spec == Init /\ [][Next]_<<hot, cold>>
=============================================================================
