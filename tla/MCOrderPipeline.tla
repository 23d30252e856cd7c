--------------------------- MODULE MCOrderPipeline ---------------------------
(* The instance of the order pipeline for TLC. *)
EXTENDS OrderPipeline

\* What edp-api may hand back: the DTM, another drawing, or both.
MCArtifact == {"dtm.json", "bom.json"}

=============================================================================
