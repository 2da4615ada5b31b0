--------------------------- MODULE MCDropboxSync ---------------------------
(* Instance of DropboxSync for TLC. *)
EXTENDS DropboxSync

CONSTANTS w1, w2, w3

\* The identities are interchangeable: it is enough to look at the behaviours in
\* which they appear for the first time in this order.  (SYMMETRY would do so,
\* too, but not for liveness.)
InOrder == /\ conn[1].who \in {None, w1}
           /\ conn[2].who \in {None, w1, w2}
           /\ conn[3].who = w3 => conn[2].who = w2
=============================================================================
