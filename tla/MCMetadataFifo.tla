---------------------------- MODULE MCMetadataFifo ----------------------------
(* The order in which metadata_write prints a title and the artwork.       *)
EXTENDS MetadataFifo, TLC
TwoFields == <<"title", "artwork">>
Symmetry == Permutations(Conns) \cup Permutations(Values)
=============================================================================
