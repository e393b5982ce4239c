------------------------------- MODULE Parties -------------------------------
(***************************************************************************)
(* The parties of pp_analytics_app and the data they exchange, abstracted  *)
(* to what the properties tell apart.                                      *)
(*                                                                         *)
(*   - A data owner is one run of a client program: the C++ client (the    *)
(*     members of CppOwners) or the Go client (the others).  An owner      *)
(*     fetches keys once and posts one ciphertext.                         *)
(*   - A master key pair is the number of the GenerateMasterKeys call that *)
(*     made it; its public key and the FE key derived from it carry the    *)
(*     same number.  y, L, Bound and modulusLength are the same in every   *)
(*     generateKeys call, so they are not told apart.                      *)
(*   - A ciphertext of owner o is the number of the key it was made under; *)
(*     its inner product with y is written as o itself.                    *)
(***************************************************************************)
EXTENDS Naturals

CONSTANTS
  Owners,       \* the data owners
  CppOwners,    \* those that run client/src/main.cpp; the rest run main.go
  Nil           \* the nil *big.Int that a failed Decrypt returns

ASSUME OwnersAssumption == CppOwners \subseteq Owners /\ Nil \notin Owners

\* The zero value of a key: what a Go map lookup of a missing ClientID yields
\* (nil FeKey and nil Params).
NoKey == 0

\* Simple DDH decryption: the inner product comes out when the FE key and the
\* ciphertext belong to the same master key, otherwise the discrete logarithm
\* is not found within the bound and the result is nil.
InnerProduct(o, ctKey, feKey) == IF ctKey = feKey THEN o ELSE Nil

=============================================================================
