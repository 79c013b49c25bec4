--------------------------------- MODULE MCFrames ------------------------------
(* Model checking of Frames and of the lists under it. *)
EXTENDS Frames, TLC

CONSTANTS s1, s2

(* An upright sprite of which the lower pixel is half transparent, and a   *)
(* lying one with a hole.                                                  *)
Looks ==
     s1 :> [width |-> 1, height |-> 2,
            pixels |-> 0 :> <<255, "red">> @@ 1 :> <<128, "blue">>]
  @@ s2 :> [width |-> 2, height |-> 1,
            pixels |-> 0 :> <<0, "red">> @@ 1 :> <<255, "green">>]
Black == <<0, "black">>
At == {<<1, 0>>, <<0, 1>>}

(* To the left and down, slower and slower; the displacement in x of frame *)
(* 1 is -1/2.                                                              *)
Sinking == {[vx |-> -1, vy |-> 2, ax |-> 0, ay |-> -2]}

Symmetry == Permutations(Canvases) \union Permutations(Placements)

===============================================================================
