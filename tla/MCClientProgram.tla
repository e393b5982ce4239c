--------------------------- MODULE MCClientProgram ---------------------------
(***************************************************************************)
(* The instance of ClientProgram for TLC: one call has one request.        *)
(***************************************************************************)
EXTENDS ClientProgram

CONSTANT r1

=============================================================================
