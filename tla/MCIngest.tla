------------------------------ MODULE MCIngest -------------------------------
(* Small instances of Ingest.  The files repeat a flight within a batch,     *)
(* across batches and across upserts.                                        *)
EXTENDS Ingest, TLC

CONSTANTS f1, f2, f3

MCFiles == {<<f1, f2, f3, f1, f2>>, <<f1, f1, f2, f3>>, <<f1, f2, f3>>, <<>>}

Symmetry == Permutations(Runs)

=============================================================================
