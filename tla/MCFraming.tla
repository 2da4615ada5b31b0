----------------------------- MODULE MCFraming -----------------------------
(* Instance of Framing for TLC: characters small enough to be taken for a    *)
(* length that fits the buffer, and one that is not.                         *)
EXTENDS Framing

MCText == {<<2>>, <<3, 1>>, <<1, 90, 1>>}
=============================================================================
