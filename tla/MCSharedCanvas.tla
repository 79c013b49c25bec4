----------------------------- MODULE MCSharedCanvas ----------------------------
(* Model checking of SharedCanvas: up to three clients of two users. *)
EXTENDS SharedCanvas, TLC

CONSTANTS c1, c2, c3, Alice, Bob

(* Bob has two clients. *)
Accounts == c1 :> Alice @@ c2 :> Bob @@ c3 :> Bob
(* One client each. *)
TwoClients == c1 :> Alice @@ c2 :> Bob

(* Bob's clients are interchangeable. *)
BothOfBob == Permutations({c2, c3})

===============================================================================
