---------------------------- MODULE MCPPAnalytics ----------------------------
(***************************************************************************)
(* Instances of PPAnalytics for TLC.                                       *)
(***************************************************************************)
EXTENDS PPAnalytics, TLC

CONSTANTS o1, o2, o3

\* Two C++ clients and a Go client; owners of one kind are interchangeable.
MCSymmetry == Permutations(CppOwners)

=============================================================================
