------------------------------- MODULE MCScoring -------------------------------
(***************************************************************************)
(* Instances of Scoring for TLC.                                           *)
(***************************************************************************)
EXTENDS Scoring, TLC

\* Consumers are interchangeable.
ConsumerSymmetry == Permutations(Consumers)

\* Three events, or two and a change of the status.
FewAtATime == work + changes <= 3

================================================================================
