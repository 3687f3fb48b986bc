----------------------------- MODULE MCBlobClient -----------------------------
(***************************************************************************)
(* A small instance of BlobClient for TLC.                                 *)
(***************************************************************************)
EXTENDS BlobClient
=============================================================================
