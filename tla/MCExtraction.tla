----------------------------- MODULE MCExtraction -----------------------------
(* A small bar: a manual shot, and a profile with all three phases that is   *)
(* shorter than the limit; a scale that shows an empty or a full cup, and a  *)
(* cutoff that only the full one reaches.                                    *)
EXTENDS Extraction

Short == [pre |-> 1, soak |-> 1, main |-> 1]
OneProfile == {Short}
MCCutoffs == {1}
MCWeights == {0, 1}
==============================================================================
