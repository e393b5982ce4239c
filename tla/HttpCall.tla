------------------------------ MODULE HttpCall -------------------------------
(***************************************************************************)
(* What the C++ data owner needs of one HTTP call                          *)
(* (getFEPublicParamsFromTrustedServer, postEncryptedDataToAnalyticsServer *)
(* in client/src/main.cpp): the completion lambda, which fills the         *)
(* function's results in, runs exactly once, the function returns after    *)
(* that, and it does return.                                               *)
(***************************************************************************)
EXTENDS Naturals

VARIABLES
  called,     \* how often the completion ran
  returned    \* has the function returned?

callVars == <<called, returned>>

Init == called = 0 /\ returned = FALSE

Completion ==
  /\ called = 0
  /\ ~returned
  /\ called' = 1
  /\ UNCHANGED returned

Return ==
  /\ called = 1
  /\ ~returned
  /\ returned' = TRUE
  /\ UNCHANGED called

Next == Completion \/ Return

Spec == Init /\ [][Next]_callVars /\ WF_callVars(Next)

=============================================================================
