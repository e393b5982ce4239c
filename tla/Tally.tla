-------------------------------- MODULE Tally --------------------------------
(***************************************************************************)
(* What the data owners may expect of the application, with no trusted     *)
(* entity, keys or goroutines in it: an owner offers its data once; the    *)
(* engine adds the owner's own inner product to the results in one step,   *)
(* at most once, or drops the offer; and it answers 200 only while the     *)
(* result is among the others.  Results are only lost all together, when   *)
(* nobody's offer is being worked on.                                      *)
(***************************************************************************)
EXTENDS Naturals, Sequences

CONSTANT Owners

VARIABLES
  offered,    \* the owners whose data was sent to the engine
  pending,    \* those whose offer is being worked on
  results,    \* the inner products, each written as its owner
  answered,   \* the owners that were answered 200
  heard       \* those that the answer has reached

tallyVars == <<offered, pending, results, answered, heard>>

Counted(o) == \E i \in DOMAIN results : results[i] = o

Init ==
  /\ offered = {} /\ pending = {} /\ answered = {} /\ heard = {}
  /\ results = << >>

\* The engine takes the offer up, or is not there.
Offer(o) ==
  /\ o \notin offered
  /\ offered' = offered \cup {o}
  /\ pending' \in {pending, pending \cup {o}}
  /\ UNCHANGED <<results, answered, heard>>

Count(o) ==
  /\ o \in pending
  /\ pending' = pending \ {o}
  /\ results' = Append(results, o)
  /\ UNCHANGED <<offered, answered, heard>>

Drop(offers) ==
  /\ pending' = pending \ offers
  /\ UNCHANGED <<offered, results, answered, heard>>

Answer(o) ==
  /\ o \in offered \ pending
  /\ Counted(o)
  /\ answered' = answered \cup {o}
  /\ UNCHANGED <<offered, pending, results, heard>>

Hear(o) ==
  /\ o \in answered
  /\ heard' = heard \cup {o}
  /\ UNCHANGED <<offered, pending, results, answered>>

Clear ==
  /\ pending = {}
  /\ results' = << >>
  /\ UNCHANGED <<offered, pending, answered, heard>>

Next ==
  \/ \E o \in Owners : Offer(o) \/ Count(o) \/ Answer(o) \/ Hear(o)
  \/ \E offers \in SUBSET pending : Drop(offers)
  \/ Clear

Spec == Init /\ [][Next]_tallyVars

-----------------------------------------------------------------------------
(* Nobody is counted twice, nobody who was answered offered nothing, and   *)
(* an offer that is being worked on is not counted yet.                    *)
EachOnce ==
  /\ \A i, j \in DOMAIN results : results[i] = results[j] => i = j
  /\ \A i \in DOMAIN results : results[i] \in offered \ pending
  /\ heard \subseteq answered /\ answered \subseteq offered \ pending

=============================================================================
