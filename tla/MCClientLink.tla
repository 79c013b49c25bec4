----------------------------- MODULE MCClientLink -----------------------------
(* Model checking of ClientLink. *)
EXTENDS ClientLink, TLC
===============================================================================
