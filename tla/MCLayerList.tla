------------------------------ MODULE MCLayerList -----------------------------
(* Model checking of LayerList: addresses of a kind are interchangeable. *)
EXTENDS LayerList, TLC

Symmetry ==
  Permutations(Canvases) \union Permutations(Placements) \union Permutations(Sprites)

===============================================================================
