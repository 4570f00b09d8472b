----------------------------- MODULE MCSampling -----------------------------
(***************************************************************************)
(* Sampling for TLC: rows of up to three logits at three finite levels; a  *)
(* flat curve and a steep one that underflows; top_p below 0, 0, inside,    *)
(* between CutBelow and 1 (where the row is not cut), 1 and above.         *)
(***************************************************************************)
EXTENDS SamplingProps

TwoCurves == {<<4, 2, 1>>, <<3, 1, 0>>}
SomeTopPs == {-1, 0, 3, 4, 5, 6, 7}
SomeTopKs == {-1, 0, 1, 2, 3}
=============================================================================
