----------------------------- MODULE MCReranker ------------------------------
(* Small instances of Reranker.                                              *)
EXTENDS Reranker

=============================================================================
