--------------------------- MODULE MCRecordReview ---------------------------
(***************************************************************************)
(* Small instances of RecordReview for TLC.                                *)
(***************************************************************************)
EXTENDS RecordReview, TLC

CONSTANTS story, evidence, example

\* A labelled example in the prose field, nothing in the structured one.
ShippedTemplate ==
    story :> [label |-> "example", text |-> example] @@ evidence :> {}

\* Sessions are alike.
SessionSymmetry == Permutations(Sessions)

=============================================================================
