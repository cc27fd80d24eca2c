---------------------------- MODULE MCReadingStore ----------------------------
(***************************************************************************)
(* Instances of ReadingStore for TLC.                                      *)
(***************************************************************************)
EXTENDS ReadingStore, TLC

\* A window over the first chunk, and one that straddles two.
ByHand == {[first |-> 0, last |-> 2], [first |-> 1, last |-> 3]}

\* A file with one reading for each site, in the first chunk.
Historical == {[site |-> s, hour |-> 0, source |-> "csv"] : s \in Sites}

Interchangeable == Permutations(Importers)
=============================================================================
