----------------------------- MODULE LossyStream -----------------------------
(***************************************************************************)
(* What a UDP stream of the exchange promises its consumer: the messages   *)
(* of one run of the sender arrive in the order they were submitted, each  *)
(* at most once, and some never.                                           *)
(***************************************************************************)
EXTENDS Naturals

CONSTANT Runs   \* runs of the sender, between two restarts

VARIABLES
  submitted,    \* run -> how many messages were submitted in it
  taken         \* run -> the latest of them the consumer took

Init ==
  /\ submitted = [r \in Runs |-> 0]
  /\ taken = [r \in Runs |-> 0]

Submit ==
  /\ \E r \in Runs : submitted' = [submitted EXCEPT ![r] = @ + 1]
  /\ UNCHANGED taken

\* The consumer takes a later message; those it skips are lost.
Take ==
  /\ \E r \in Runs : \E n \in taken[r] + 1 .. submitted[r] : taken' = [taken EXCEPT ![r] = n]
  /\ UNCHANGED submitted

Next == Submit \/ Take

Spec == Init /\ [][Next]_<<submitted, taken>>
=============================================================================
