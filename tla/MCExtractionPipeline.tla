------------------------ MODULE MCExtractionPipeline ------------------------
(* Names of ExtractionPipeline's model values. *)
EXTENDS ExtractionPipeline, TLC

CONSTANTS f1, f2, w1, w2, c1, l1

Symmetric == Permutations(Workers) \cup Permutations(Files)
=============================================================================
