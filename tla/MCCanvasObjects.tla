---------------------------- MODULE MCCanvasObjects ---------------------------
(* Model checking of CanvasObjects: two clients of different users. *)
EXTENDS CanvasObjects, TLC

CONSTANTS c1, c2, Alice, Bob

Accounts == c1 :> Alice @@ c2 :> Bob

===============================================================================
