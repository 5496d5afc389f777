----------------------------- MODULE MCCircbuf ------------------------------
(* The instances of Circbuf for TLC are all in their configurations. *)
EXTENDS Circbuf
=============================================================================
