---------------------------- MODULE MCRestClient -----------------------------
(***************************************************************************)
(* An instance of RestClient for TLC.                                      *)
(***************************************************************************)
EXTENDS RestClient

CONSTANTS t1, t2

=============================================================================
