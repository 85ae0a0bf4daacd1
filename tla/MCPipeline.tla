------------------------------- MODULE MCPipeline -------------------------------
(***************************************************************************)
(* Instances of Pipeline for TLC.  Two letters, the second for business    *)
(* debtors, stand for the main path; "voorstel" is a step without letter.  *)
(***************************************************************************)
EXTENDS Pipeline, TLC

DraftSymmetry == Permutations(DraftIds)

FirstStepOnly == "dagenbrief" :> "sommatie"

MainPath == "dagenbrief" :> "sommatie" @@ "sommatie" :> "laatste"

=============================================================================
