------------------------------ MODULE MCIndexer -----------------------------
(***************************************************************************)
(* Values of the constants for TLC that a cfg cannot write.                *)
(***************************************************************************)
EXTENDS IndexerProperties

EmptyDatabase  == {-1}
GenesisStored  == {0}
TwoStored      == {1}
EmptyOrStored  == {-1, 0}
=============================================================================
