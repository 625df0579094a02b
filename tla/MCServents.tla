----------------------------- MODULE MCServents -----------------------------
(* Servents for TLC. *)
EXTENDS Servents
=============================================================================
