---------------------------- MODULE MCSchemaInit -----------------------------
(* A small instance of SchemaInit, for every database there may be.          *)
EXTENDS SchemaInit

MCOrigins == Untouched

=============================================================================
