---------------------------- MODULE MCScanOutput ----------------------------
(***************************************************************************)
(* An instance of ScanOutput with chunks of three slots: pages that are    *)
(* smaller than, as large as and larger than a chunk, and empty ones.      *)
(***************************************************************************)
EXTENDS ScanOutput
=============================================================================
