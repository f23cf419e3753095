----------------------------- MODULE MCBlockScan -----------------------------
(* Small instances of BlockScan for TLC. *)
EXTENDS BlockScan

CONSTANTS n1, n2
=============================================================================
