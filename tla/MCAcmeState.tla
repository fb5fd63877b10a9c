---------------------------- MODULE MCAcmeState ----------------------------
(* Model values for AcmeState. *)
EXTENDS AcmeState

CONSTANTS w1, w2, w3
=============================================================================
