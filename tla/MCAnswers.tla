------------------------------ MODULE MCAnswers ------------------------------
(***************************************************************************)
(* The requests of MCRequestBuilder and, among them, the well-written      *)
(* ones, for which the theorems about the answers hold.                    *)
(***************************************************************************)
EXTENDS MCRequestBuilder, Answers_proofs

(* What the theorems ask beside well-written scripts is true here, and such *)
(* scripts are most of the 613.                                             *)
ASSUME TheoremsApply ==
    /\ ~FinalLine
    /\ NumbersFit
    /\ Cardinality({s \in Scripts : \A i \in 1 .. Len(s) : WellWritten(s[i])}) = 568

=============================================================================
