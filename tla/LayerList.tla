------------------------------- MODULE LayerList ------------------------------
(* The object graph of libanimate (animate.c): canvases with a doubly      *)
(* linked list of placements from the top layer (head) to the bottom layer *)
(* (tail), and sprites that count their placements.                        *)
(*                                                                         *)
(* Structs are named by their addresses, which malloc reuses.  The server  *)
(* calls the library with animate_lock held, so a call is one step; its    *)
(* assignments are composed in the order of the code.  stack is a history  *)
(* variable: what the list should be, according to LayerOrder.  Position   *)
(* and motion of a placement do not matter here.                           *)
EXTENDS Integers, Sequences, FiniteSets

CONSTANTS
  Canvases, Placements, Sprites,   \* addresses of the three kinds of struct
  NULL                             \* the null pointer

ASSUME LayerAssumption ==
  /\ NULL \notin Canvases \union Placements \union Sprites
  /\ IsFiniteSet(Placements)

VARIABLES
  canvases,          \* the canvases allocated
  sprites,           \* the sprites allocated
  canvas,            \* canvas[p]: placement->canvas, NULL when p is free
  sprite,            \* sprite[p]: placement->sprite, NULL when p is free
  next, previous,    \* next[p], previous[p]: the neighbours below and above p
  head, tail,        \* head[c], tail[c]: the top and the bottom placement
  count,             \* count[s]: sprite->placement_count
  crashed,           \* a null pointer was dereferenced
  stack              \* history: the layers as LayerOrder has them

lists == <<canvas, sprite, next, previous, head, tail, count>>
vars  == <<canvases, sprites, lists, crashed, stack>>

Order == INSTANCE LayerOrder

Live == {p \in Placements : canvas[p] # NULL}

(* f after the assignment x->f = v, which code guards with x != NULL. *)
Assign(f, x, v) == IF x = NULL THEN f ELSE [f EXCEPT ![x] = v]

(* The index of p in the stack of its canvas. *)
Moves(p, Op(_, _)) ==
  \E i \in DOMAIN stack[canvas[p]] : stack[canvas[p]][i] = p /\ Op(canvas[p], i)

-------------------------------------------------------------------------------
(* Canvases and sprites *)

CreateCanvas(c) ==
  /\ c \notin canvases
  /\ canvases' = canvases \union {c}
  /\ head' = [head EXCEPT ![c] = NULL]
  /\ tail' = [tail EXCEPT ![c] = NULL]
  /\ UNCHANGED <<sprites, canvas, sprite, next, previous, count, crashed, stack>>

(* The placements reached from the head of c: the least set that holds the *)
(* head and, with a placement, the one below it.                           *)
Reached(c) ==
  {p \in Placements :
     \A S \in SUBSET Placements :
        /\ head[c] # NULL => head[c] \in S
        /\ \A x \in S : next[x] # NULL => next[x] \in S
        => p \in S}

(* A plausible slip: sprites are not told that their placements are gone. *)
DestroyCanvas_KeepCounts(c) ==
  /\ c \in canvases
  /\ canvases' = canvases \ {c}
  /\ canvas'   = [p \in Placements |-> IF p \in Reached(c) THEN NULL ELSE canvas[p]]
  /\ sprite'   = [p \in Placements |-> IF p \in Reached(c) THEN NULL ELSE sprite[p]]
  /\ next'     = [p \in Placements |-> IF p \in Reached(c) THEN NULL ELSE next[p]]
  /\ previous' = [p \in Placements |-> IF p \in Reached(c) THEN NULL ELSE previous[p]]
  /\ head' = [head EXCEPT ![c] = NULL]
  /\ tail' = [tail EXCEPT ![c] = NULL]
  /\ Order!Clear(c)
  /\ UNCHANGED <<sprites, count, crashed>>

(* animate_destroy_canvas frees the placements it walks over. *)
DestroyCanvas(c) ==
  /\ c \in canvases
  /\ canvases' = canvases \ {c}
  /\ canvas'   = [p \in Placements |-> IF p \in Reached(c) THEN NULL ELSE canvas[p]]
  /\ sprite'   = [p \in Placements |-> IF p \in Reached(c) THEN NULL ELSE sprite[p]]
  /\ next'     = [p \in Placements |-> IF p \in Reached(c) THEN NULL ELSE next[p]]
  /\ previous' = [p \in Placements |-> IF p \in Reached(c) THEN NULL ELSE previous[p]]
  /\ count' = [s \in Sprites |->
                 count[s] - Cardinality({p \in Reached(c) : sprite[p] = s})]
  /\ head' = [head EXCEPT ![c] = NULL]
  /\ tail' = [tail EXCEPT ![c] = NULL]
  /\ Order!Clear(c)
  /\ UNCHANGED <<sprites, crashed>>

(* animate_create_sprite, _rectangle and _circle, and animate_destroy_sprite, *)
(* which refuses a sprite in use; their source is not in the repository.      *)
CreateSprite(s) ==
  /\ s \notin sprites
  /\ sprites' = sprites \union {s}
  /\ count' = [count EXCEPT ![s] = 0]
  /\ UNCHANGED <<canvases, canvas, sprite, next, previous, head, tail, crashed, stack>>

DestroySprite(s) ==
  /\ s \in sprites /\ count[s] = 0
  /\ sprites' = sprites \ {s}
  /\ UNCHANGED <<canvases, lists, crashed, stack>>

-------------------------------------------------------------------------------
(* Placements *)

(* A plausible slip: the sprite does not count the new placement. *)
PlaceSprite_NoCount(c, s, p) ==
  /\ c \in canvases /\ s \in sprites /\ p \notin Live
  /\ canvas' = [canvas EXCEPT ![p] = c]
  /\ sprite' = [sprite EXCEPT ![p] = s]
  /\ next'     = [next EXCEPT ![p] = head[c]]
  /\ previous' = Assign([previous EXCEPT ![p] = NULL], head[c], p)
  /\ head' = [head EXCEPT ![c] = p]
  /\ tail' = IF head[c] = NULL THEN [tail EXCEPT ![c] = p] ELSE tail
  /\ Order!Place(c, p)
  /\ UNCHANGED <<canvases, sprites, count, crashed>>

(* The new placement becomes the head. *)
PlaceSprite(c, s, p) ==
  /\ c \in canvases /\ s \in sprites /\ p \notin Live
  /\ canvas' = [canvas EXCEPT ![p] = c]
  /\ sprite' = [sprite EXCEPT ![p] = s]
  /\ count'  = [count EXCEPT ![s] = @ + 1]
  /\ next'     = [next EXCEPT ![p] = head[c]]
  /\ previous' = Assign([previous EXCEPT ![p] = NULL], head[c], p)
  /\ head' = [head EXCEPT ![c] = p]
  /\ tail' = IF head[c] = NULL THEN [tail EXCEPT ![c] = p] ELSE tail
  /\ Order!Place(c, p)
  /\ UNCHANGED <<canvases, sprites, crashed>>

(* p is exchanged with the placement above it. *)
PlacementUp(p) ==
  LET above == previous[p]
      over  == previous[above]
      c     == canvas[p]
  IN  /\ p \in Live
      /\ IF above = NULL
         THEN UNCHANGED <<next, previous, head, tail>>
         ELSE /\ next' = Assign([next EXCEPT ![above] = next[p], ![p] = above], over, p)
              /\ previous' = [Assign(previous, next[p], above)
                                EXCEPT ![above] = p, ![p] = over]
              /\ tail' = IF next[p] = NULL THEN [tail EXCEPT ![c] = above] ELSE tail
              /\ head' = IF over = NULL THEN [head EXCEPT ![c] = p] ELSE head
      /\ Moves(p, Order!Up)
      /\ UNCHANGED <<canvases, sprites, canvas, sprite, count, crashed>>

(* A plausible slip: the tail is not updated when p becomes the last. *)
PlacementDown_OldTail(p) ==
  LET below == next[p]
      under == next[below]
      c     == canvas[p]
  IN  /\ p \in Live /\ (previous[p] = NULL => below # NULL)
      /\ IF below = NULL
         THEN UNCHANGED <<next, previous, head>>
         ELSE /\ previous' = Assign([previous EXCEPT ![below] = previous[p], ![p] = below],
                                    under, p)
              /\ next' = [Assign(next, previous[p], below) EXCEPT ![below] = p, ![p] = under]
              /\ head' = IF previous[p] = NULL THEN [head EXCEPT ![c] = below] ELSE head
      /\ Moves(p, Order!Down)
      /\ UNCHANGED <<canvases, sprites, canvas, sprite, count, tail, crashed>>

(* p is exchanged with the placement below it.  The head is handled before *)
(* the tail, so a placement that is both is not: see PlacementDownAlone.   *)
PlacementDown(p) ==
  LET below == next[p]
      under == next[below]
      c     == canvas[p]
  IN  /\ p \in Live /\ (previous[p] = NULL => below # NULL)
      /\ IF below = NULL
         THEN UNCHANGED <<next, previous, head, tail>>
         ELSE /\ previous' = Assign([previous EXCEPT ![below] = previous[p], ![p] = below],
                                    under, p)
              /\ next' = [Assign(next, previous[p], below) EXCEPT ![below] = p, ![p] = under]
              /\ head' = IF previous[p] = NULL THEN [head EXCEPT ![c] = below] ELSE head
              /\ tail' = IF under = NULL THEN [tail EXCEPT ![c] = p] ELSE tail
      /\ Moves(p, Order!Down)
      /\ UNCHANGED <<canvases, sprites, canvas, sprite, count, crashed>>

(* next_node->previous is written through NULL. *)
PlacementDownAlone(p) ==
  /\ p \in Live /\ previous[p] = NULL /\ next[p] = NULL
  /\ crashed' = TRUE
  /\ UNCHANGED <<canvases, sprites, lists, stack>>

(* p becomes the head, or the tail. *)
PlacementTop(p) ==
  LET c == canvas[p]
  IN  /\ p \in Live
      /\ IF p = head[c]
         THEN UNCHANGED <<next, previous, head, tail>>
         ELSE /\ next' = [next EXCEPT ![previous[p]] = next[p], ![p] = head[c]]
              /\ previous' = [Assign(previous, next[p], previous[p])
                                EXCEPT ![p] = NULL, ![head[c]] = p]
              /\ tail' = IF next[p] = NULL THEN [tail EXCEPT ![c] = previous[p]] ELSE tail
              /\ head' = [head EXCEPT ![c] = p]
      /\ Moves(p, Order!Top)
      /\ UNCHANGED <<canvases, sprites, canvas, sprite, count, crashed>>

PlacementBottom(p) ==
  LET c == canvas[p]
  IN  /\ p \in Live
      /\ IF p = tail[c]
         THEN UNCHANGED <<next, previous, head, tail>>
         ELSE /\ previous' = [previous EXCEPT ![next[p]] = previous[p], ![p] = tail[c]]
              /\ next' = [Assign(next, previous[p], next[p])
                            EXCEPT ![p] = NULL, ![tail[c]] = p]
              /\ head' = IF previous[p] = NULL THEN [head EXCEPT ![c] = next[p]] ELSE head
              /\ tail' = [tail EXCEPT ![c] = p]
      /\ Moves(p, Order!Bottom)
      /\ UNCHANGED <<canvases, sprites, canvas, sprite, count, crashed>>

(* p is unlinked and freed. *)
DestroyPlacement(p) ==
  LET c == canvas[p]
  IN  /\ p \in Live
      /\ count' = [count EXCEPT ![sprite[p]] = @ - 1]
      /\ next' = [Assign(next, previous[p], next[p]) EXCEPT ![p] = NULL]
      /\ previous' = [Assign(previous, next[p], previous[p]) EXCEPT ![p] = NULL]
      /\ head' = IF previous[p] = NULL THEN [head EXCEPT ![c] = next[p]] ELSE head
      /\ tail' = IF next[p] = NULL THEN [tail EXCEPT ![c] = previous[p]] ELSE tail
      /\ canvas' = [canvas EXCEPT ![p] = NULL]
      /\ sprite' = [sprite EXCEPT ![p] = NULL]
      /\ Moves(p, Order!Remove)
      /\ UNCHANGED <<canvases, sprites, crashed>>

-------------------------------------------------------------------------------
Init ==
  /\ canvases = {} /\ sprites = {}
  /\ canvas = [p \in Placements |-> NULL] /\ sprite = [p \in Placements |-> NULL]
  /\ next = [p \in Placements |-> NULL] /\ previous = [p \in Placements |-> NULL]
  /\ head = [c \in Canvases |-> NULL] /\ tail = [c \in Canvases |-> NULL]
  /\ count = [s \in Sprites |-> 0]
  /\ crashed = FALSE
  /\ Order!Init

Next ==
  /\ ~crashed
  /\ \/ \E c \in Canvases : \/ CreateCanvas(c) \/ DestroyCanvas(c)
                            \/ \E s \in Sprites, p \in Placements : PlaceSprite(c, s, p)
     \/ \E s \in Sprites : CreateSprite(s) \/ DestroySprite(s)
     \/ \E p \in Placements :
           \/ PlacementUp(p) \/ PlacementDown(p) \/ PlacementDownAlone(p)
           \/ PlacementTop(p) \/ PlacementBottom(p) \/ DestroyPlacement(p)

Spec == Init /\ [][Next]_vars

-------------------------------------------------------------------------------
(* What holds of the lists *)

TypeOK ==
  /\ canvases \subseteq Canvases /\ sprites \subseteq Sprites
  /\ canvas \in [Placements -> Canvases \union {NULL}]
  /\ sprite \in [Placements -> Sprites \union {NULL}]
  /\ next \in [Placements -> Placements \union {NULL}]
  /\ previous \in [Placements -> Placements \union {NULL}]
  /\ head \in [Canvases -> Placements \union {NULL}]
  /\ tail \in [Canvases -> Placements \union {NULL}]
  /\ count \in [Sprites -> Nat]
  /\ crashed \in BOOLEAN
  /\ stack \in [Canvases -> Seq(Placements)]

(* The list of a canvas is its stack, read from the head along next and    *)
(* from the tail along previous; nothing else is on the canvas.            *)
Nth(q, i) == IF i \in 1 .. Len(q) THEN q[i] ELSE NULL

Linked(c, q) ==
  /\ head[c] = Nth(q, 1) /\ tail[c] = Nth(q, Len(q))
  /\ \A i \in 1 .. Len(q) : /\ canvas[q[i]] = c
                            /\ next[q[i]] = Nth(q, i + 1)
                            /\ previous[q[i]] = Nth(q, i - 1)
  /\ \A i, j \in 1 .. Len(q) : i # j => q[i] # q[j]
  /\ \A p \in Placements : canvas[p] = c => \E i \in 1 .. Len(q) : q[i] = p

ListIsStack == \A c \in Canvases : Linked(c, stack[c])

(* A sprite counts exactly the placements that point to it, and is not     *)
(* freed under any of them.                                                *)
CountsPlacements ==
  /\ \A s \in sprites : count[s] = Cardinality({p \in Placements : sprite[p] = s})
  /\ \A p \in Live : sprite[p] \in sprites /\ canvas[p] \in canvases

(* A free struct points to no sprite.  With the two it is what every call  *)
(* preserves: a count is taken down only where it was taken up.            *)
FreeIsCleared == \A p \in Placements \ Live : sprite[p] = NULL

ListInv == ListIsStack /\ CountsPlacements /\ FreeIsCleared

(* animate_placement_down lowers a sprite one level towards the bottom     *)
(* layer (animate.h): on the last level there is nothing to do, and no     *)
(* call of the library brings the process down.                            *)
NeverCrashes == ~crashed

===============================================================================
