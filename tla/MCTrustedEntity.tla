--------------------------- MODULE MCTrustedEntity ---------------------------
(***************************************************************************)
(* Instances of TrustedEntity for TLC: the server on its own, with every   *)
(* order of arrivals and fetches of any id.                                *)
(***************************************************************************)
EXTENDS TrustedEntity, TLC

CONSTANTS o1, o2, o3

\* The trusted entity does not tell the kinds of owners apart.
MCSymmetry == Permutations(Owners)

=============================================================================
