---------------------------- MODULE CanvasHandlesProofs ------------------------
(* Theorems about CanvasObjects when users know what they have: handlers   *)
(* that were let through find their objects, and the registries of sprites *)
(* and placements agree with the library, whatever the interleaving, for   *)
(* any clients, users, addresses and failing calls.                        *)
EXTENDS CanvasObjectsProofs, FiniteSetTheorems

-------------------------------------------------------------------------------
(* Orderly behaviours *)

(* What holds of all behaviours (Sane), and of the orderly ones: the parts *)
(* of ObjectsInv, with the nodes counted by what the clients are about to  *)
(* do, so that a step of one client changes one case.                      *)
Sane == CanvasInv /\ HandlerInv /\ ObjectTypes

NewSprite(s)  == \E c \in Clients : at[c] = "enter" /\ cmd[c].kind = "CreateSprite" /\ cmd[c].sprite = s
OldSprite(s)  == \E c \in Clients : at[c] = "unlink" /\ cmd[c].kind = "DestroySprite" /\ cmd[c].sprite = s
NewPlacement(p) == \E c \in Clients : at[c] = "enter" /\ cmd[c].kind = "PlaceSprite" /\ cmd[c].placement = p
OldPlacement(p) ==
  \E c \in Clients : at[c] = "unlink" /\ cmd[c].kind = "DestroyPlacement" /\ cmd[c].placement = p

SpriteNodesInv ==
  \A s \in Sprites :
     Len(spriteNodes[s]) = (IF s \in sprites /\ ~NewSprite(s) THEN 1 ELSE 0)
                           + (IF OldSprite(s) THEN 1 ELSE 0)
PlacementNodesInv ==
  \A p \in Placements :
     /\ NewPlacement(p) => placementNodes[p] = <<>>
     /\ ~NewPlacement(p) /\ ~OldPlacement(p) =>
          placementNodes[p] = IF placed[p] = Free THEN <<>> ELSE <<placed[p].canvas>>

OrderlyInv ==
  /\ ~fault /\ RefsInv /\ ApartInv /\ HeldInv /\ SpriteInv /\ PlacementInv
  /\ SpriteNodesInv /\ PlacementNodesInv

-------------------------------------------------------------------------------
(* What a command names *)

(* A client's command has its type and the shape that its place asks for. *)
LEMMA Command ==
  ASSUME Sane, NEW c \in Clients
  PROVE  /\ cmd[c] \in Commands /\ at[c] \in Places /\ Shaped(at[c], cmd[c])
         /\ user(c) \in Users /\ user(c) # None /\ c # None
  BY ObjectsAssumption DEF Sane, CanvasInv, CommandInv, HandlerInv, user

(* The canvas that the first node of a placement names, if it has a node. *)
LEMMA CanvasOfNode ==
  ASSUME ObjectTypes, NEW p \in Placements
  PROVE  /\ placementNodes[p] = <<>> => CanvasOf(p) = None
         /\ placementNodes[p] # <<>> => CanvasOf(p) \in Canvases
         /\ \A k : placementNodes[p] = <<k>> => CanvasOf(p) = k
<1>1. placementNodes[p] # <<>> => Head(placementNodes[p]) \in Canvases
  BY DEF ObjectTypes
<1>2. \A k : <<k>> # <<>> /\ Head(<<k>>) = k
  OBVIOUS
<1> QED
  BY <1>1, <1>2 DEF CanvasOf

(* Commands that name no placement name the canvas they hold, or none. *)
LEMMA NothingNamed ==
  /\ CanvasOf(None) = None
  /\ NamedCanvases(NoCmd) = {}
  /\ \A r : r.canvas = None /\ r.placement = None => NamedCanvases(r) = {}
  /\ \A r : r.placement = None /\ r.canvas # None => NamedCanvases(r) = {r.canvas}
<1>1. CanvasOf(None) = None
  BY ObjectsAssumption DEF CanvasOf
<1> QED
  BY <1>1 DEF NamedCanvases, NoCmd

(* The canvases a command names are canvases: its own and its placement's. *)
LEMMA NamedTyped ==
  ASSUME ObjectTypes, NEW r \in Commands
  PROVE  /\ NamedCanvases(r) \subseteq Canvases
         /\ r.canvas # None => r.canvas \in NamedCanvases(r)
         /\ r.placement # None /\ placementNodes[r.placement] # <<>>
               => CanvasOf(r.placement) \in NamedCanvases(r)
<1>1. /\ r.canvas \in Canvases \union {None}
      /\ r.placement \in Placements \union {None}
  BY DEF Commands
<1>2. CanvasOf(r.placement) \in Canvases \union {None}
  BY <1>1, CanvasOfNode, NothingNamed
<1>3. r.placement # None /\ placementNodes[r.placement] # <<>> => CanvasOf(r.placement) # None
  BY <1>1, CanvasOfNode, ObjectsAssumption
<1> QED
  BY <1>1, <1>2, <1>3 DEF NamedCanvases

(* The state of the objects that a command names, while it is under way. *)
LEMMA HeldCanvas ==
  ASSUME Sane, OrderlyInv, NEW c \in Clients, at[c] # "delete", cmd[c].kind # "CreateCanvas",
         NEW k \in NamedCanvases(cmd[c])
  PROVE  /\ k \in Canvases /\ Holds(user(c), k) /\ Registered(k) /\ k \in canvases
         /\ Holding(k) = {} /\ HasAccess(user(c), k)
<1>1. k \in Canvases
  BY Command, NamedTyped DEF Sane
<1>2. Holds(user(c), k)
  BY DEF OrderlyInv, HeldInv
<1>3. Registered(k) /\ HasAccess(user(c), k)
  BY <1>2 DEF Holds, HasAccess
<1> QED
  BY <1>1, <1>2, <1>3 DEF Sane, CanvasInv, CanvasesRegistered

(* A sprite that a command names, before the library has created or        *)
(* destroyed it.                                                           *)
LEMMA HeldSprite ==
  ASSUME Sane, OrderlyInv, NEW c \in Clients, at[c] \notin {"enter", "unlink"},
         cmd[c].sprite # None
  PROVE  /\ cmd[c].sprite \in Sprites /\ spriteOf[cmd[c].sprite] = user(c)
         /\ spriteOf[cmd[c].sprite] # None /\ cmd[c].sprite \in sprites
         /\ ~NewSprite(cmd[c].sprite)
<1>1. cmd[c].sprite \in Sprites /\ spriteOf[cmd[c].sprite] = user(c)
  BY Command DEF OrderlyInv, HeldInv, Commands
<1>2. spriteOf[cmd[c].sprite] # None
  BY <1>1, Command
<1> QED
  BY <1>1, <1>2 DEF OrderlyInv, SpriteInv, NewSprite

(* A placement that a command names to move or destroy it. *)
LEMMA HeldPlacement ==
  ASSUME Sane, OrderlyInv, NEW c \in Clients, at[c] # "unlink",
         cmd[c].kind \in {"MovePlacement", "DestroyPlacement"}
  PROVE  /\ cmd[c].placement \in Placements
         /\ placed[cmd[c].placement] # Free
         /\ placementNodes[cmd[c].placement] = <<placed[cmd[c].placement].canvas>>
         /\ ~NewPlacement(cmd[c].placement) /\ ~OldPlacement(cmd[c].placement)
<1> DEFINE p == cmd[c].placement
<1>1. p \in Placements
  BY Command DEF Shaped, Commands
<1>2. placementNodes[p] # <<>>
  BY DEF OrderlyInv, PlacementInv
<1>3. ~NewPlacement(p)
  BY <1>1, <1>2 DEF OrderlyInv, PlacementNodesInv
<1>4. ~OldPlacement(p)
  <2> SUFFICES ASSUME NEW d \in Clients, at[d] = "unlink", cmd[d].kind = "DestroyPlacement",
                      cmd[d].placement = p
               PROVE  FALSE
    BY DEF OldPlacement
  <2>1. Clash(d, cmd[d], c, cmd[c]) /\ d # c
    BY DEF Clash
  <2> QED
    BY <2>1 DEF OrderlyInv, ApartInv
<1> QED
  BY <1>1, <1>2, <1>3, <1>4 DEF OrderlyInv, PlacementNodesInv

(* A free placement has no node and nobody names it, unless it is about to *)
(* be unlinked by the holder of animate_lock.                              *)
LEMMA FreePlacement ==
  ASSUME Sane, OrderlyInv, NEW p \in Placements, placed[p] = Free, animateLock = None
  PROVE  /\ placementNodes[p] = <<>> /\ ~NewPlacement(p) /\ ~OldPlacement(p)
         /\ \A c \in Clients : cmd[c].placement # p
<1>1. ~OldPlacement(p)
  BY Command DEF OldPlacement, Sane, HandlerInv
<1>2. ~NewPlacement(p)
  <2> SUFFICES ASSUME NEW c \in Clients, at[c] = "enter", cmd[c].kind = "PlaceSprite",
                      cmd[c].placement = p
               PROVE  FALSE
    BY DEF NewPlacement
  <2>1. Free = [canvas |-> cmd[c].canvas, sprite |-> cmd[c].sprite]
    BY DEF OrderlyInv, PlacementInv
  <2>2. cmd[c].canvas = None
    BY <2>1 DEF Free
  <2> QED
    BY <2>2, Command DEF Shaped, OnCanvas
<1>3. placementNodes[p] = <<>>
  BY <1>1, <1>2 DEF OrderlyInv, PlacementNodesInv
<1>4. ASSUME NEW c \in Clients, cmd[c].placement = p PROVE FALSE
  <2>1. p # None
    BY ObjectsAssumption
  <2>2. CASE cmd[c].kind \in {"MovePlacement", "DestroyPlacement"}
    BY <1>3, <1>4, <2>2 DEF OrderlyInv, PlacementInv
  <2>3. CASE at[c] = "enter" /\ cmd[c].kind = "PlaceSprite"
    BY <1>2, <1>4, <2>3 DEF NewPlacement
  <2> QED
    BY <1>4, <2>1, <2>2, <2>3, Command DEF Shaped
<1> QED
  BY <1>1, <1>2, <1>3, <1>4

-------------------------------------------------------------------------------
(* References *)

(* One element more or less changes the size of a finite set by one. *)
LEMMA SetSize ==
  ASSUME NEW S, IsFiniteSet(S)
  PROVE  /\ Cardinality(S) \in Nat
         /\ Cardinality(S) = 0 => S = {}
         /\ Cardinality(S) = 1 => \A u, v \in S : u = v
         /\ \A u \in S : Cardinality(S \ {u}) = Cardinality(S) - 1
         /\ \A u : u \notin S => Cardinality(S \union {u}) = Cardinality(S) + 1
<1>1. Cardinality(S) \in Nat
  BY FS_CardinalityType
<1>2. Cardinality(S) = 0 => S = {}
  BY FS_EmptySet
<1>3. ASSUME NEW u \in S PROVE Cardinality(S \ {u}) = Cardinality(S) - 1
  BY FS_RemoveElement
<1>4. ASSUME NEW u, u \notin S PROVE Cardinality(S \union {u}) = Cardinality(S) + 1
  BY <1>4, FS_AddElement
<1>5. ASSUME Cardinality(S) = 1, NEW u \in S, NEW v \in S PROVE u = v
  <2>1. Cardinality(S \ {u}) = 0
    BY <1>3, <1>5
  <2>2. IsFiniteSet(S \ {u})
    BY FS_Subset
  <2>3. S \ {u} = {}
    BY <2>1, <2>2, FS_EmptySet
  <2> QED
    BY <2>3
<1> QED
  BY <1>1, <1>2, <1>3, <1>4, <1>5

(* The node of a canvas has finitely many collaborators. *)
LEMMA NodeTyped ==
  ASSUME NodeInv, NEW k \in Canvases
  PROVE  /\ IsFiniteSet(canvasNode[k].shared) /\ Cardinality(canvasNode[k].shared) \in Nat
         /\ canvasNode[k].refs \in Nat
         /\ canvasNode[k].refs > 0 => Registered(k)
<1>1. canvasNode[k].shared \subseteq Users /\ canvasNode[k].refs \in Nat
  BY DEF NodeInv
<1>2. IsFiniteSet(canvasNode[k].shared)
  BY <1>1, ObjectsAssumption, FS_Subset
<1>3. canvasNode[k].refs > 0 => Registered(k)
  <2>1. NoNode.refs = 0
    BY DEF NoNode
  <2> QED
    BY <2>1 DEF Registered
<1> QED
  BY <1>1, <1>2, <1>3, FS_CardinalityType

(* When the last reference is given back, its holder is alone. *)
LEMMA LastHolder ==
  ASSUME Sane, RefsInv, NEW k \in Canvases, Registered(k), LastReference(k),
         NEW u, Holds(u, k), NEW v, Holds(v, k)
  PROVE  u = v
<1>1. NodeInv /\ canvasNode[k].refs \in Nat /\ canvasNode[k].refs > 0
  BY NodeTyped DEF Sane, CanvasInv, CanvasesRegistered
<1>2. canvasNode[k].refs = 1
  BY <1>1 DEF LastReference
<1>3. PICK S : S = canvasNode[k].shared
  OBVIOUS
<1>4. IsFiniteSet(S) /\ Cardinality(S) \in Nat /\ 1 - Cardinality(S) \in {0, 1}
  BY <1>1, <1>2, <1>3, NodeTyped DEF RefsInv
<1>5. /\ u \in S \/ (u = canvasNode[k].owner /\ 1 > Cardinality(S))
      /\ v \in S \/ (v = canvasNode[k].owner /\ 1 > Cardinality(S))
  BY <1>2, <1>3 DEF Holds
<1>6. CASE Cardinality(S) = 0
  BY <1>4, <1>5, <1>6, SetSize
<1>7. CASE Cardinality(S) = 1
  BY <1>4, <1>5, <1>7, SetSize
<1> QED
  BY <1>4, <1>6, <1>7

(* What holds of a canvas when its node does not change. *)
LEMMA NodeKept ==
  ASSUME NEW k, canvasNode'[k] = canvasNode[k]
  PROVE  /\ Registered(k)' <=> Registered(k)
         /\ \A u : Holds(u, k)' <=> Holds(u, k)
         /\ \A u : HasAccess(u, k)' <=> HasAccess(u, k)
  BY DEF Registered, Holds, HasAccess

(* References do not change while the nodes do not. *)
LEMMA RefsKept == canvasNode' = canvasNode /\ RefsInv => RefsInv'
  BY DEF RefsInv, Registered

(* A step that changes the node of one canvas. *)
LEMMA NodeChanged ==
  ASSUME RefsInv, NEW j \in Canvases,
         \A k \in Canvases \ {j} : canvasNode'[k] = canvasNode[k],
         Registered(j)' => /\ canvasNode'[j].owner \in Users \ canvasNode'[j].shared
                           /\ canvasNode'[j].refs - Cardinality(canvasNode'[j].shared) \in {0, 1},
         NEW U, \A u \in U : Holds(u, j) => Holds(u, j)'
  PROVE  /\ RefsInv'
         /\ \A k \in Canvases, u \in Users : Holds(u, k) /\ (u \in U \/ k # j) => Holds(u, k)'
<1>1. \A k \in Canvases \ {j} : /\ Registered(k)' <=> Registered(k)
                                /\ \A u : Holds(u, k)' <=> Holds(u, k)
  BY NodeKept
<1>2. RefsInv'
  BY <1>1 DEF RefsInv
<1> QED
  BY <1>1, <1>2

(* A new node has its owner's reference, and no other loses one. *)
LEMMA EnterCanvasRefs ==
  ASSUME Sane, RefsInv, NEW c \in Clients, EnterCanvas(c)
  PROVE  /\ RefsInv'
         /\ \A k \in Canvases, u \in Users : Holds(u, k) => Holds(u, k)'
<1>0. PICK j : j = cmd[c].canvas
  OBVIOUS
<1>1. Holder(c) /\ NodeInv /\ CommandInv /\ CanvasesRegistered
  BY DEF EnterCanvas, Steps, Sane, CanvasInv, Holder
<1>2. j \in Canvases /\ c \in Holding(j)
  BY <1>0, <1>1 DEF CommandInv, Holding
<1>3. ~Registered(j)
  BY <1>1, <1>2 DEF CanvasesRegistered
<1>4. canvasNode' = [canvasNode EXCEPT ![j] = [owner |-> user(c), shared |-> {}, refs |-> 1]]
  BY <1>0 DEF EnterCanvas
<1>5. /\ canvasNode'[j] = [owner |-> user(c), shared |-> {}, refs |-> 1]
      /\ \A k \in Canvases \ {j} : canvasNode'[k] = canvasNode[k]
  BY <1>1, <1>2, <1>4 DEF NodeInv
<1>6. user(c) \in Users /\ Cardinality({}) = 0
  BY Command, FS_EmptySet
<1>7. /\ canvasNode'[j].owner \in Users \ canvasNode'[j].shared
      /\ canvasNode'[j].refs - Cardinality(canvasNode'[j].shared) \in {0, 1}
  BY <1>5, <1>6
<1>8. \A u \in Users : Holds(u, j) => Holds(u, j)'
  BY <1>3 DEF Holds
<1> QED
  BY <1>2, <1>5, <1>7, <1>8, NodeChanged

(* A new collaborator comes with a reference, and nobody loses his. *)
LEMMA ShareCanvasRefs ==
  ASSUME Sane, RefsInv, NEW c \in Clients, ShareCanvas(c)
  PROVE  /\ RefsInv'
         /\ \A k \in Canvases, u \in Users : Holds(u, k) => Holds(u, k)'
<1>0. PICK j : j = cmd[c].canvas
  OBVIOUS
<1>1. j \in Canvases /\ Registered(j) /\ NodeInv
  BY <1>0 DEF ShareCanvas, Steps, Allowed, HasAccess, Sane, CanvasInv, CommandInv
<1>2. PICK v \in Users :
        canvasNode' = IF HasAccess(v, j) THEN canvasNode
                      ELSE [canvasNode EXCEPT ![j].shared = @ \union {v}, ![j].refs = @ + 1]
  BY <1>0 DEF ShareCanvas
<1>3. CASE HasAccess(v, j)
  <2>1. canvasNode' = canvasNode
    BY <1>2, <1>3
  <2> QED
    BY <2>1, RefsKept, NodeKept
<1>4. CASE ~HasAccess(v, j)
  <2>0. PICK S : S = canvasNode[j].shared
    OBVIOUS
  <2>1. v \notin S /\ v # canvasNode[j].owner
    BY <1>1, <1>4, <2>0 DEF HasAccess
  <2>2. /\ canvasNode'[j].shared = S \union {v} /\ canvasNode'[j].refs = canvasNode[j].refs + 1
        /\ canvasNode'[j].owner = canvasNode[j].owner
        /\ \A k \in Canvases \ {j} : canvasNode'[k] = canvasNode[k]
    BY <1>1, <1>2, <1>4, <2>0 DEF NodeInv
  <2>3. IsFiniteSet(S) /\ Cardinality(S) \in Nat /\ canvasNode[j].refs \in Nat
    BY <1>1, <2>0, NodeTyped
  <2>4. Cardinality(S \union {v}) = Cardinality(S) + 1
    BY <2>1, <2>3, SetSize
  <2>5. /\ canvasNode[j].owner \in Users \ S
        /\ canvasNode[j].refs - Cardinality(S) \in {0, 1}
    BY <1>1, <2>0 DEF RefsInv
  <2>6. /\ canvasNode'[j].owner \in Users \ canvasNode'[j].shared
        /\ canvasNode'[j].refs - Cardinality(canvasNode'[j].shared) \in {0, 1}
    BY <2>1, <2>2, <2>3, <2>4, <2>5
  <2>7. NoNode.refs = 0
    BY DEF NoNode
  <2>8. Registered(j)'
    BY <2>2, <2>3, <2>7 DEF Registered
  <2>9. ASSUME NEW u \in Users, Holds(u, j) PROVE Holds(u, j)'
    <3>1. u \in S \/ (u = canvasNode[j].owner /\ canvasNode[j].refs > Cardinality(S))
      BY <2>0, <2>9 DEF Holds
    <3>2. \/ u \in canvasNode'[j].shared
          \/ /\ u = canvasNode'[j].owner
             /\ canvasNode'[j].refs > Cardinality(canvasNode'[j].shared)
      BY <2>2, <2>3, <2>4, <3>1
    <3> QED
      BY <2>8, <3>2 DEF Holds
  <2> QED
    BY <1>1, <2>2, <2>6, <2>9, NodeChanged
<1> QED
  BY <1>3, <1>4

(* A user keeps his reference when another gives his back. *)
LEMMA ReleaseCanvasRefs ==
  ASSUME Sane, OrderlyInv, NEW c \in Clients, ReleaseCanvas(c)
  PROVE  /\ RefsInv'
         /\ \A k \in Canvases, u \in Users :
              Holds(u, k) /\ (u # user(c) \/ k # cmd[c].canvas) => Holds(u, k)'
<1>0. PICK j, v : j = cmd[c].canvas /\ v = user(c)
  OBVIOUS
<1>1. /\ j \in Canvases /\ Registered(j) /\ NodeInv /\ at[c] = "check" /\ RefsInv
      /\ cmd[c].kind = "DestroyCanvas"
  BY <1>0 DEF ReleaseCanvas, Steps, Allowed, HasAccess, Sane, CanvasInv, CommandInv, OrderlyInv
<1>2. Holds(v, j)
  <2>1. j \in NamedCanvases(cmd[c])
    BY <1>0, <1>1, Command, NamedTyped, ObjectsAssumption DEF Sane
  <2> QED
    BY <1>0, <1>1, <2>1, HeldCanvas
<1>3. PICK S : S = canvasNode[j].shared
  OBVIOUS
<1>4. /\ canvasNode[j].owner \in Users \ S /\ Cardinality(S) \in Nat /\ IsFiniteSet(S)
      /\ canvasNode[j].refs - Cardinality(S) \in {0, 1} /\ canvasNode[j].refs \in Nat
  BY <1>1, <1>3, NodeTyped DEF RefsInv
<1>5. CASE LastReference(j)
  <2>1. /\ canvasNode'[j] = NoNode
        /\ \A k \in Canvases \ {j} : canvasNode'[k] = canvasNode[k]
    BY <1>0, <1>1, <1>5 DEF ReleaseCanvas, NodeInv
  <2>2. ~Registered(j)'
    BY <2>1 DEF Registered
  <2>3. \A u \in Users \ {v} : ~Holds(u, j)
    BY <1>1, <1>2, <1>5, LastHolder
  <2>4. \A u \in Users \ {v} : Holds(u, j) => Holds(u, j)'
    BY <2>3
  <2>5. /\ RefsInv'
        /\ \A k \in Canvases, u \in Users :
             Holds(u, k) /\ (u \in Users \ {v} \/ k # j) => Holds(u, k)'
    BY <1>1, <2>1, <2>2, <2>4, NodeChanged
  <2> QED
    BY <1>0, <2>5
<1>6. CASE ~LastReference(j)
  <2>1. /\ canvasNode'[j].shared = S \ {v} /\ canvasNode'[j].refs = canvasNode[j].refs - 1
        /\ canvasNode'[j].owner = canvasNode[j].owner
        /\ \A k \in Canvases \ {j} : canvasNode'[k] = canvasNode[k]
    BY <1>0, <1>1, <1>3, <1>6 DEF ReleaseCanvas, NodeInv
  <2>2. canvasNode[j].refs > 1
    BY <1>4, <1>6 DEF LastReference
  <2>3. NoNode.refs = 0
    BY DEF NoNode
  <2>4. Registered(j)'
    BY <1>4, <2>1, <2>2, <2>3 DEF Registered
  <2>5. v \in S \/ (v = canvasNode[j].owner /\ canvasNode[j].refs > Cardinality(S))
    BY <1>2, <1>3 DEF Holds
  <2>6. v \in S => Cardinality(S \ {v}) = Cardinality(S) - 1
    BY <1>4, SetSize
  <2>7. v \notin S => S \ {v} = S
    OBVIOUS
  <2>8. /\ canvasNode'[j].owner \in Users \ canvasNode'[j].shared
        /\ canvasNode'[j].refs - Cardinality(canvasNode'[j].shared) \in {0, 1}
    <3>1. CASE v \in S
      BY <1>4, <2>1, <2>6, <3>1
    <3>2. CASE v \notin S
      <4>1. canvasNode'[j].shared = S
        BY <2>1, <2>7, <3>2
      <4>2. canvasNode[j].refs - Cardinality(S) = 1
        BY <1>4, <2>5, <3>2
      <4>3. canvasNode'[j].refs - Cardinality(S) = 0
        BY <1>4, <2>1, <4>2
      <4> QED
        BY <1>4, <2>1, <4>1, <4>3
    <3> QED
      BY <3>1, <3>2
  <2>9. ASSUME NEW u \in Users \ {v}, Holds(u, j) PROVE Holds(u, j)'
    <3>1. u \in S \/ (u = canvasNode[j].owner /\ canvasNode[j].refs > Cardinality(S))
      BY <1>3, <2>9 DEF Holds
    <3>2. \/ u \in canvasNode'[j].shared
          \/ /\ u = canvasNode'[j].owner
             /\ canvasNode'[j].refs > Cardinality(canvasNode'[j].shared)
      <4>1. CASE u \in S
        BY <2>1, <4>1
      <4>2. CASE u \notin S
        <5>1. v \in S
          BY <2>5, <3>1, <4>2
        <5> QED
          BY <1>4, <2>1, <2>6, <3>1, <4>2, <5>1
      <4> QED
        BY <4>1, <4>2
    <3> QED
      BY <2>4, <3>2 DEF Holds
  <2>10. \A u \in Users \ {v} : Holds(u, j) => Holds(u, j)'
    BY <2>9
  <2>11. /\ RefsInv'
         /\ \A k \in Canvases, u \in Users :
              Holds(u, k) /\ (u \in Users \ {v} \/ k # j) => Holds(u, k)'
    <3>1. \A k \in Canvases \ {j} : canvasNode'[k] = canvasNode[k]
      BY <2>1
    <3>2. RefsInv /\ j \in Canvases
      BY <1>1
    <3> QED
      BY <2>8, <2>10, <3>1, <3>2, NodeChanged
  <2> QED
    BY <1>0, <2>11
<1> QED
  BY <1>5, <1>6

-------------------------------------------------------------------------------
(* Steps: what they do to at and cmd *)

Others(c) == \A d \in Clients \ {c} : at'[d] = at[d] /\ cmd'[d] = cmd[d]

(* A handler that replies forgets its command; other threads are           *)
(* untouched.                                                              *)
LEMMA Replied ==
  ASSUME Sane, NEW c \in Clients, Replies(c)
  PROVE  Others(c) /\ at'[c] = "ready" /\ cmd'[c] = NoCmd
  BY DEF Sane, CanvasInv, CommandInv, Replies, Others

(* A handler that goes on keeps its command. *)
LEMMA Gone ==
  ASSUME Sane, NEW c \in Clients, NEW a, Goes(c, a)
  PROVE  Others(c) /\ at'[c] = a /\ cmd' = cmd
  BY DEF Sane, CanvasInv, CommandInv, Goes, Others

(* A new canvas or sprite is one that the library did not have. *)
LEMMA Created ==
  ASSUME Sane, NEW c \in Clients, LibCreate(c)
  PROVE  /\ Others(c) /\ at[c] = "act" /\ at'[c] = "enter"
         /\ UNCHANGED <<registries, placed, spriteOf>>
         /\ cmd'[c].kind = cmd[c].kind /\ cmd'[c].placement = None
         /\ \/ /\ cmd[c].kind = "CreateCanvas" /\ cmd'[c].sprite = None /\ sprites' = sprites
               /\ \E k \in Canvases \ canvases :
                     canvases' = canvases \union {k} /\ cmd'[c].canvas = k
            \/ /\ cmd[c].kind = "CreateSprite" /\ cmd'[c].canvas = None /\ canvases' = canvases
               /\ \E s \in Sprites \ sprites :
                     sprites' = sprites \union {s} /\ cmd'[c].sprite = s
<1>1. /\ at[c] = "act" /\ cmd[c].kind \in Creates /\ UNCHANGED <<registries, placed, spriteOf>>
      /\ at' = [at EXCEPT ![c] = "enter"] /\ cmd[c] \in Commands
      /\ cmd \in [Clients -> Commands] /\ at \in [Clients -> Places]
  BY DEF LibCreate, Steps, history, Sane, CanvasInv, CommandInv
<1>2. cmd[c].canvas = None /\ cmd[c].sprite = None /\ cmd[c].placement = None
  BY <1>1, Command DEF Shaped, OnCanvas, Creates
<1>3. CASE cmd[c].kind = "CreateCanvas"
  <2>1. /\ sprites' = sprites
        /\ \E k \in Canvases \ canvases :
              canvases' = canvases \union {k} /\ cmd' = [cmd EXCEPT ![c].canvas = k]
    BY <1>3 DEF LibCreate
  <2>2. PICK k \in Canvases \ canvases :
              canvases' = canvases \union {k} /\ cmd' = [cmd EXCEPT ![c].canvas = k]
    BY <2>1
  <2>3. /\ cmd'[c].canvas = k /\ cmd'[c].kind = cmd[c].kind /\ cmd'[c].sprite = cmd[c].sprite
        /\ cmd'[c].placement = cmd[c].placement /\ at'[c] = "enter" /\ Others(c)
    BY <1>1, <2>2 DEF Commands, Others
  <2> QED
    BY <1>1, <1>2, <1>3, <2>1, <2>2, <2>3
<1>4. CASE cmd[c].kind = "CreateSprite"
  <2>1. /\ canvases' = canvases
        /\ \E s \in Sprites \ sprites :
              sprites' = sprites \union {s} /\ cmd' = [cmd EXCEPT ![c].sprite = s]
    BY <1>4 DEF LibCreate
  <2>2. PICK s \in Sprites \ sprites :
              sprites' = sprites \union {s} /\ cmd' = [cmd EXCEPT ![c].sprite = s]
    BY <2>1
  <2>3. /\ cmd'[c].sprite = s /\ cmd'[c].kind = cmd[c].kind /\ cmd'[c].canvas = cmd[c].canvas
        /\ cmd'[c].placement = cmd[c].placement /\ at'[c] = "enter" /\ Others(c)
    BY <1>1, <2>2 DEF Commands, Others
  <2> QED
    BY <1>1, <1>2, <1>4, <2>1, <2>2, <2>3
<1> QED
  BY <1>1, <1>3, <1>4 DEF Creates

(* A new placement was free, and is put where the command says. *)
LEMMA Laid ==
  ASSUME Sane, NEW c \in Clients, LibPlace(c)
  PROVE  /\ Others(c) /\ at[c] = "act" /\ at'[c] = "enter" /\ animateLock = None
         /\ UNCHANGED <<registries, canvases, sprites, spriteOf>>
         /\ cmd[c].kind = "PlaceSprite" /\ cmd'[c].kind = "PlaceSprite"
         /\ cmd'[c].canvas = cmd[c].canvas /\ cmd'[c].sprite = cmd[c].sprite
         /\ cmd[c].canvas \in Canvases /\ cmd[c].sprite \in Sprites
         /\ cmd[c].placement = None
         /\ \E p \in Placements :
               /\ placed[p] = Free /\ cmd'[c].placement = p
               /\ placed'[p] = [canvas |-> cmd[c].canvas, sprite |-> cmd[c].sprite]
               /\ \A x \in Placements \ {p} : placed'[x] = placed[x]
<1>1. /\ at[c] = "act" /\ cmd[c].kind = "PlaceSprite" /\ animateLock = None
      /\ UNCHANGED <<registries, canvases, sprites, spriteOf>>
      /\ at' = [at EXCEPT ![c] = "enter"] /\ cmd[c] \in Commands
      /\ cmd \in [Clients -> Commands] /\ at \in [Clients -> Places]
  BY DEF LibPlace, Steps, history, Sane, CanvasInv, CommandInv
<1>2. PICK p \in Placements :
        /\ placed[p] = Free
        /\ placed' = [placed EXCEPT ![p] = [canvas |-> cmd[c].canvas, sprite |-> cmd[c].sprite]]
        /\ cmd' = [cmd EXCEPT ![c].placement = p]
  BY DEF LibPlace
<1>3. cmd[c].canvas \in Canvases /\ cmd[c].sprite \in Sprites /\ cmd[c].placement = None
  BY <1>1, Command DEF Shaped, OnCanvas, Commands
<1>4. /\ cmd'[c].canvas = cmd[c].canvas /\ cmd'[c].kind = cmd[c].kind
      /\ cmd'[c].sprite = cmd[c].sprite /\ cmd'[c].placement = p
      /\ at'[c] = "enter" /\ Others(c)
  BY <1>1, <1>2 DEF Commands, Others
<1>5. /\ placed'[p] = [canvas |-> cmd[c].canvas, sprite |-> cmd[c].sprite]
      /\ \A x \in Placements \ {p} : placed'[x] = placed[x]
  BY <1>2 DEF Sane, ObjectTypes
<1> QED
  BY <1>1, <1>2, <1>3, <1>4, <1>5

(* A new command changes no object; orderly users name what fits. *)
LEMMA Sent ==
  ASSUME Sane, NEW c \in Clients, NEW k \in Kinds, Send(c, k)
  PROVE  /\ Others(c) /\ at[c] = "ready" /\ at'[c] \in {"act", "check"}
         /\ at'[c] = "act" => k \in Creates
         /\ UNCHANGED <<registries, library, spriteOf, fault>>
         /\ cmd'[c].kind = k
         /\ cmd'[c].sprite # None <=> k \in {"PlaceSprite", "DestroySprite"}
         /\ orderly' => orderly /\ Fits(c, cmd'[c])
<1>1. PICK r \in Requests(k) :
        cmd' = [cmd EXCEPT ![c] = r] /\ orderly' = (orderly /\ Fits(c, r))
  BY DEF Send
<1>2. /\ at[c] = "ready" /\ UNCHANGED <<registries, library, spriteOf, fault>>
      /\ at' = [at EXCEPT ![c] = IF k \in Creates THEN "act" ELSE "check"]
      /\ cmd \in [Clients -> Commands] /\ at \in [Clients -> Places]
  BY DEF Send, Sane, CanvasInv, CommandInv
<1>3. /\ r.kind = k
      /\ r.sprite # None <=> k \in {"PlaceSprite", "DestroySprite"}
  BY <1>1, ObjectsAssumption DEF Requests
<1>4. Others(c) /\ cmd'[c] = r /\ at'[c] = IF k \in Creates THEN "act" ELSE "check"
  BY <1>1, <1>2 DEF Others
<1> QED
  BY <1>1, <1>2, <1>3, <1>4

(* The four sorts of step that a thread takes. *)
LEMMA ThreadStep ==
  ASSUME Sane, NEW c \in Clients, Thread(c), fault' = FALSE
  PROVE  /\ Others(c)
         /\ \/ Replies(c)
            \/ /\ cmd' = cmd /\ placementNodes' = placementNodes
               /\ at[c] \notin {"enter", "unlink", "delete"}
            \/ LibCreate(c) \/ LibPlace(c)
<1>1. CASE LibCreateFails(c) \/ Refuse(c) \/ LibMove(c) \/ GenerateFails(c) \/ GenerateEnd(c)
           \/ EnterCanvas(c) \/ EnterSprite(c) \/ EnterPlacement(c) \/ EnterFails(c)
           \/ ShareCanvas(c) \/ UnlinkSprite(c) \/ UnlinkPlacement(c) \/ DeleteCanvas(c)
  <2>1. Replies(c)
    BY <1>1 DEF LibCreateFails, Refuse, LibMove, GenerateFails, GenerateEnd, EnterCanvas,
                EnterSprite, EnterPlacement, EnterFails, ShareCanvas, UnlinkSprite,
                UnlinkPlacement, DeleteCanvas
  <2> QED
    BY <2>1, Replied
<1>2. CASE Check(c) \/ GenerateStart(c) \/ LibDestroySprite(c) \/ LibDestroyPlacement(c)
           \/ ReleaseCanvas(c)
  <2>1. /\ placementNodes' = placementNodes /\ at[c] \notin {"enter", "unlink", "delete"}
        /\ Replies(c) \/ \E a \in {"act", "frames", "unlink", "delete"} : Goes(c, a)
    BY <1>2 DEF Check, GenerateStart, LibDestroySprite, LibDestroyPlacement, ReleaseCanvas,
                Steps, registries
  <2> QED
    BY <2>1, Replied, Gone
<1>3. CASE LibCreate(c)
  BY <1>3, Created
<1>4. CASE LibPlace(c)
  BY <1>4, Laid
<1>5. CASE UseFreed(c) \/ DestroyUnregistered(c)
  BY <1>5 DEF UseFreed, DestroyUnregistered, Faults
<1> QED
  BY <1>1, <1>2, <1>3, <1>4, <1>5 DEF Thread

-------------------------------------------------------------------------------
(* What the commands of others name does not change. *)

(* The canvases a command names depend on the nodes of its placement only. *)
LEMMA NodesName ==
  ASSUME NEW r, NEW x, r.placement = x, placementNodes'[x] = placementNodes[x]
  PROVE  CanvasOf(x)' = CanvasOf(x) /\ NamedCanvases(r)' = NamedCanvases(r)
  BY DEF CanvasOf, NamedCanvases

(* A list of one node, without those for the canvas k. *)
LEMMA WithoutOne ==
  ASSUME NEW x, NEW k
  PROVE  Without(<<x>>, k) = IF x = k THEN <<>> ELSE <<x>>
<1>1. <<x>> \in Seq({x}) /\ x \in {x}
  OBVIOUS
<1>2. PICK q : q = <<x>>
  OBVIOUS
<1>3. Without(q, k) = IF x = k THEN <<>> ELSE <<x>>
  BY <1>1, <1>2, WithoutOf
<1> QED
  BY <1>2, <1>3

(* c is about to free a canvas: no command of another thread names it. *)
LEMMA DeletedUnnamed ==
  ASSUME Sane, OrderlyInv, NEW c \in Clients, at[c] = "delete", NEW d \in Clients, d # c
  PROVE  cmd[c].canvas \notin NamedCanvases(cmd[d])
<1>0. SUFFICES ASSUME cmd[c].canvas \in NamedCanvases(cmd[d]) PROVE FALSE
  OBVIOUS
<1>1. at[d] # "delete"
  BY DEF Sane, HandlerInv
<1>2. c \in Holding(cmd[c].canvas) /\ cmd[c].canvas \in Canvases
  BY DEF Holding, Holder, Sane, CanvasInv, CommandInv
<1>3. cmd[d].kind # "CreateCanvas"
  <2>1. SUFFICES ASSUME cmd[d].kind = "CreateCanvas" PROVE FALSE
    OBVIOUS
  <2>2. cmd[d].placement = None /\ (cmd[d].canvas # None <=> at[d] = "enter")
    BY <2>1, Command DEF Shaped, OnCanvas
  <2>3. at[d] = "enter" /\ cmd[d].canvas = cmd[c].canvas
    BY <1>0, <2>2, NothingNamed DEF NamedCanvases
  <2>4. d \in Holding(cmd[c].canvas)
    BY <2>1, <2>3 DEF Holding, Holder
  <2> QED
    BY <1>2, <2>4 DEF Sane, CanvasInv, CanvasesRegistered
<1> QED
  BY <1>0, <1>1, <1>2, <1>3, HeldCanvas

(* The commands of other threads name what they named, after any step. *)
LEMMA NamesKept ==
  ASSUME Sane, OrderlyInv, NEW c \in Clients, Thread(c), fault' = FALSE,
         NEW d \in Clients \ {c}
  PROVE  /\ CanvasOf(cmd[d].placement)' = CanvasOf(cmd[d].placement)
         /\ NamedCanvases(cmd[d])' = NamedCanvases(cmd[d])
         /\ cmd[d].placement \in Placements /\ placementNodes[cmd[d].placement] # <<>>
               => placementNodes'[cmd[d].placement] # <<>>
<1>0. cmd'[d] = cmd[d] /\ cmd[d] \in Commands
  BY ThreadStep, Command DEF Others
<1>1. PICK x : x = cmd[d].placement
  OBVIOUS
<1>2. cmd'[d].placement = x /\ x \in Placements \union {None}
  BY <1>0, <1>1 DEF Commands
<1>3. CASE placementNodes'[x] = placementNodes[x]
  BY <1>0, <1>1, <1>3 DEF CanvasOf, NamedCanvases
<1>4. CASE EnterPlacement(c) /\ x \in Placements
  <2>1. x # cmd[c].placement
    BY <1>1, <1>4 DEF EnterPlacement, Steps, OrderlyInv, PlacementInv
  <2>2. placementNodes'[x] = placementNodes[x]
    BY <1>4, <2>1 DEF EnterPlacement, Sane, ObjectTypes
  <2> QED
    BY <1>3, <2>2
<1>5. CASE UnlinkPlacement(c) /\ x \in Placements
  <2>1. x # cmd[c].placement
    <3>1. SUFFICES ASSUME x = cmd[c].placement PROVE FALSE
      OBVIOUS
    <3>2. Clash(c, cmd[c], d, cmd[d]) /\ cmd[c].kind = "DestroyPlacement"
      BY <1>1, <1>5, <3>1 DEF UnlinkPlacement, Steps, Clash
    <3> QED
      BY <3>2 DEF OrderlyInv, ApartInv
  <2>2. placementNodes'[x] = placementNodes[x]
    BY <1>5, <2>1 DEF UnlinkPlacement, Unlinked, Sane, ObjectTypes
  <2> QED
    BY <1>3, <2>2
<1>6. CASE DeleteCanvas(c) /\ x \in Placements
  <2>1. PICK k : k = cmd[c].canvas
    OBVIOUS
  <2>2. at[c] = "delete" /\ placementNodes'[x] = Without(placementNodes[x], k)
    BY <1>6, <2>1 DEF DeleteCanvas, Steps, CanvasNodeDelete
  <2>3. k \notin NamedCanvases(cmd[d])
    BY <2>1, <2>2, DeletedUnnamed
  <2>4. placementNodes[x] = <<>> \/ \E j \in Canvases : placementNodes[x] = <<j>>
    BY <1>6 DEF OrderlyInv, PlacementInv
  <2>5. CASE placementNodes[x] = <<>>
    <3>1. placementNodes[x] \in Seq(Canvases)
      BY <1>6 DEF Sane, ObjectTypes
    <3>2. placementNodes'[x] = <<>>
      BY <2>2, <2>5, <3>1, WithoutOf
    <3> QED
      BY <1>3, <2>5, <3>2
  <2>6. CASE \E j \in Canvases : placementNodes[x] = <<j>>
    <3>1. PICK j \in Canvases : placementNodes[x] = <<j>>
      BY <2>6
    <3>2. CanvasOf(x) = j /\ j # None
      BY <1>6, <3>1, CanvasOfNode, ObjectsAssumption DEF Sane
    <3>3. j \in NamedCanvases(cmd[d])
      BY <1>1, <3>2 DEF NamedCanvases
    <3>4. placementNodes[x] \in Seq(Canvases)
      BY <1>6 DEF Sane, ObjectTypes
    <3>5. Without(placementNodes[x], k) = <<j>>
      <4>1. Without(<<j>>, k) = IF j = k THEN <<>> ELSE <<j>>
        BY WithoutOne
      <4>2. j # k
        BY <2>3, <3>3
      <4> QED
        BY <3>1, <4>1, <4>2
    <3> QED
      BY <1>3, <2>2, <3>1, <3>5
  <2> QED
    BY <2>4, <2>5, <2>6
<1>7. CASE x = None
  <2>1. CanvasOf(x) = None /\ CanvasOf(x)' = None
    BY <1>7, ObjectsAssumption DEF CanvasOf
  <2>2. None \notin Placements
    BY ObjectsAssumption
  <2> QED
    BY <1>0, <1>1, <1>7, <2>1, <2>2 DEF NamedCanvases
<1>8. EnterPlacement(c) \/ UnlinkPlacement(c) \/ DeleteCanvas(c) \/ placementNodes' = placementNodes
  BY DEF Thread, LibCreate, LibCreateFails, EnterCanvas, EnterSprite, EnterFails, Check, Refuse,
         UseFreed, Faults, ShareCanvas, LibPlace, LibMove, GenerateStart, GenerateFails,
         GenerateEnd, LibDestroySprite, UnlinkSprite, LibDestroyPlacement, ReleaseCanvas,
         DestroyUnregistered, registries
<1> QED
  BY <1>2, <1>3, <1>4, <1>5, <1>6, <1>7, <1>8

-------------------------------------------------------------------------------
(* Commands stay apart. *)

Exempt(c, d) == at[c] = "unlink" /\ cmd[c].kind = "DestroySprite" /\ cmd[d].kind = "CreateSprite"

(* It is enough to look at the thread that takes the step. *)
LEMMA ApartStep ==
  ASSUME ApartInv, NEW c \in Clients, Others(c),
         \A d \in Clients \ {c} : NamedCanvases(cmd[d])' = NamedCanvases(cmd[d]),
         \A d \in Clients \ {c} : /\ Clash(c, cmd[c], d, cmd[d])' => Exempt(c, d)'
                                  /\ Clash(d, cmd[d], c, cmd[c])' => Exempt(d, c)'
  PROVE  ApartInv'
<1>1. ASSUME NEW d \in Clients \ {c}, NEW e \in Clients \ {c}, d # e, Clash(d, cmd[d], e, cmd[e])'
      PROVE  Exempt(d, e)'
  <2>1. /\ at'[d] = at[d] /\ cmd'[d] = cmd[d] /\ cmd'[e] = cmd[e]
        /\ NamedCanvases(cmd[e])' = NamedCanvases(cmd[e])
    BY DEF Others
  <2>2. Clash(d, cmd[d], e, cmd[e])
    BY <1>1, <2>1 DEF Clash
  <2>3. Exempt(d, e)
    BY <1>1, <2>2 DEF ApartInv, Exempt
  <2> QED
    BY <2>1, <2>3 DEF Exempt
<1> QED
  BY <1>1 DEF ApartInv, Exempt

(* A handler that replies leaves no command to clash with. *)
LEMMA ReplyApart ==
  ASSUME Sane, OrderlyInv, NEW c \in Clients, Thread(c), fault' = FALSE, Replies(c)
  PROVE  ApartInv'
<1>1. Others(c) /\ cmd'[c] = NoCmd
  BY Replied
<1>2. \A d \in Clients \ {c} : NamedCanvases(cmd[d])' = NamedCanvases(cmd[d])
  BY NamesKept
<1>3. NamedCanvases(cmd[c])' = {}
  BY <1>1, ObjectsAssumption DEF NamedCanvases, CanvasOf, NoCmd
<1>4. ASSUME NEW d \in Clients \ {c}
      PROVE  ~Clash(c, cmd[c], d, cmd[d])' /\ ~Clash(d, cmd[d], c, cmd[c])'
  <2>1. ~Clash(c, cmd[c], d, cmd[d])'
    BY <1>1, ObjectsAssumption DEF Clash, NoCmd, Kinds, Destroys
  <2>2. cmd'[d] = cmd[d] /\ Shaped(at[d], cmd[d])
    BY <1>1, Command DEF Others
  <2>3. ~Clash(d, cmd[d], c, cmd[c])'
    BY <1>1, <1>3, <2>2 DEF Clash, NoCmd, Shaped
  <2> QED
    BY <2>1, <2>3
<1> QED
  BY <1>1, <1>2, <1>4, ApartStep DEF OrderlyInv

(* A handler that goes on, with nodes as they were, clashes with nobody. *)
LEMMA GoApart ==
  ASSUME Sane, OrderlyInv, NEW c \in Clients, Others(c),
         cmd' = cmd, placementNodes' = placementNodes, at[c] \notin {"enter", "unlink", "delete"}
  PROVE  ApartInv'
<1>1. \A d \in Clients : NamedCanvases(cmd[d])' = NamedCanvases(cmd[d])
  BY DEF NamedCanvases, CanvasOf
<1>2. ASSUME NEW d \in Clients \ {c}
      PROVE  /\ Clash(c, cmd[c], d, cmd[d])' => Exempt(c, d)'
             /\ Clash(d, cmd[d], c, cmd[c])' => Exempt(d, c)'
  <2>1. /\ Clash(c, cmd[c], d, cmd[d])' => Clash(c, cmd[c], d, cmd[d])
        /\ Clash(d, cmd[d], c, cmd[c])' => Clash(d, cmd[d], c, cmd[c])
    BY <1>1 DEF Clash
  <2>2. /\ Clash(c, cmd[c], d, cmd[d]) => Exempt(c, d)
        /\ Clash(d, cmd[d], c, cmd[c]) => Exempt(d, c)
    BY DEF OrderlyInv, ApartInv, Exempt
  <2>3. ~Exempt(c, d) /\ (Exempt(d, c) => Exempt(d, c)')
    BY DEF Exempt, Others
  <2> QED
    BY <2>1, <2>2, <2>3
<1> QED
  BY <1>1, <1>2, ApartStep DEF OrderlyInv

(* Nobody destroys a canvas that is not there yet, and if someone unlinks  *)
(* a sprite at the new address, he has destroyed the old one.              *)
LEMMA LibCreateApart ==
  ASSUME Sane, OrderlyInv, NEW c \in Clients, LibCreate(c)
  PROVE  ApartInv'
<1>1. /\ Others(c) /\ at[c] = "act" /\ cmd'[c].kind = cmd[c].kind /\ cmd'[c].placement = None
      /\ placementNodes' = placementNodes
  BY Created DEF registries
<1>2. \A d \in Clients \ {c} : NamedCanvases(cmd[d])' = NamedCanvases(cmd[d])
  BY <1>1 DEF NamedCanvases, CanvasOf, Others
<1>3. ASSUME NEW d \in Clients \ {c}
      PROVE  /\ Clash(c, cmd[c], d, cmd[d])' => Exempt(c, d)'
             /\ Clash(d, cmd[d], c, cmd[c])' => Exempt(d, c)'
  <2>1. ~Clash(c, cmd[c], d, cmd[d])'
    BY <1>1, Created DEF Clash
  <2>2. /\ cmd'[d] = cmd[d] /\ at'[d] = at[d] /\ cmd[d] \in Commands
        /\ Shaped(at[d], cmd[d])
    BY <1>1, Command DEF Others
  <2>3. CASE cmd[c].kind = "CreateCanvas"
    <3>1. PICK k \in Canvases \ canvases : cmd'[c].canvas = k /\ cmd'[c].sprite = None
      BY <2>3, Created
    <3>2. NamedCanvases(cmd[c])' = {k}
      BY <1>1, <3>1, ObjectsAssumption DEF NamedCanvases, CanvasOf
    <3>3. ASSUME cmd[d].kind = "DestroyCanvas", cmd[d].canvas = k PROVE FALSE
      <4>1. CASE at[d] = "delete"
        <5>1. d \in Holding(k)
          BY <3>3, <4>1 DEF Holding, Holder
        <5> QED
          BY <3>1, <5>1 DEF Sane, CanvasInv, CanvasesRegistered
      <4>2. CASE at[d] # "delete"
        <5>1. k \in NamedCanvases(cmd[d])
          BY <2>2, <3>1, <3>3, NamedTyped, ObjectsAssumption DEF Sane
        <5> QED
          BY <3>1, <3>3, <4>2, <5>1, HeldCanvas
      <4> QED
        BY <4>1, <4>2
    <3>4. ~Clash(d, cmd[d], c, cmd[c])'
      BY <1>1, <2>2, <3>1, <3>2, <3>3 DEF Clash, Shaped
    <3> QED
      BY <2>1, <3>4
  <2>4. CASE cmd[c].kind = "CreateSprite"
    <3>1. PICK s \in Sprites \ sprites : cmd'[c].sprite = s /\ cmd'[c].canvas = None
      BY <2>4, Created
    <3>2. NamedCanvases(cmd[c])' = {}
      BY <1>1, <3>1, ObjectsAssumption DEF NamedCanvases, CanvasOf
    <3>3. ASSUME cmd[d].kind = "DestroySprite", cmd[d].sprite = s PROVE at[d] = "unlink"
      <4>1. at[d] \notin {"enter"} /\ s # None
        BY <2>2, <3>1, <3>3, ObjectsAssumption DEF Shaped, KindsAt, Creates
      <4> QED
        BY <3>1, <3>3, <4>1, HeldSprite
    <3>4. Clash(d, cmd[d], c, cmd[c])' => cmd[d].kind = "DestroySprite" /\ cmd[d].sprite = s
      BY <1>1, <2>2, <3>1, <3>2 DEF Clash, Shaped
    <3>5. Clash(d, cmd[d], c, cmd[c])' => Exempt(d, c)'
      BY <1>1, <2>2, <2>4, <3>3, <3>4 DEF Exempt
    <3> QED
      BY <2>1, <3>5
  <2> QED
    BY <2>3, <2>4, Created
<1> QED
  BY <1>1, <1>2, <1>3, ApartStep DEF OrderlyInv

(* Putting a sprite on a canvas changes no canvas the command names. *)
LEMMA LibPlaceNames ==
  ASSUME Sane, OrderlyInv, NEW c \in Clients, LibPlace(c)
  PROVE  NamedCanvases(cmd[c])' = NamedCanvases(cmd[c])
<1>1. /\ cmd'[c].canvas = cmd[c].canvas /\ cmd[c].placement = None
      /\ placementNodes' = placementNodes /\ animateLock = None
  BY Laid DEF registries
<1>2. PICK p \in Placements : cmd'[c].placement = p /\ placed[p] = Free
  BY Laid
<1>3. placementNodes[p] = <<>>
  BY <1>1, <1>2, FreePlacement
<1>4. CanvasOf(cmd[c].placement)' = None /\ CanvasOf(cmd[c].placement) = None
  BY <1>1, <1>2, <1>3, ObjectsAssumption DEF CanvasOf
<1> QED
  BY <1>1, <1>4 DEF NamedCanvases

(* Nor is the new placement named by anyone else. *)
LEMMA LibPlaceApart ==
  ASSUME Sane, OrderlyInv, NEW c \in Clients, LibPlace(c)
  PROVE  ApartInv'
<1>1. /\ Others(c) /\ cmd[c].kind = "PlaceSprite" /\ cmd'[c].kind = "PlaceSprite"
      /\ cmd'[c].sprite = cmd[c].sprite
      /\ placementNodes' = placementNodes /\ animateLock = None
  BY Laid DEF registries
<1>2. \A d \in Clients \ {c} : NamedCanvases(cmd[d])' = NamedCanvases(cmd[d])
  BY <1>1 DEF NamedCanvases, CanvasOf, Others
<1>3. PICK p \in Placements : cmd'[c].placement = p /\ placed[p] = Free
  BY Laid
<1>4. \A d \in Clients : cmd[d].placement # p
  BY <1>1, <1>3, FreePlacement
<1>5. NamedCanvases(cmd[c])' = NamedCanvases(cmd[c])
  BY LibPlaceNames
<1>6. ASSUME NEW d \in Clients \ {c}
      PROVE  ~Clash(c, cmd[c], d, cmd[d])' /\ ~Clash(d, cmd[d], c, cmd[c])'
  <2>1. cmd'[d] = cmd[d]
    BY <1>1 DEF Others
  <2>2. Clash(d, cmd[d], c, cmd[c])' => Clash(d, cmd[d], c, cmd[c])
    BY <1>1, <1>3, <1>4, <1>5, <2>1 DEF Clash
  <2>3. ~Clash(d, cmd[d], c, cmd[c])
    BY <1>1 DEF OrderlyInv, ApartInv
  <2> QED
    BY <1>1, <2>2, <2>3 DEF Clash
<1> QED
  BY <1>1, <1>2, <1>6, ApartStep DEF OrderlyInv

(* Orderly users send no command that clashes with one under way. *)
LEMMA SendApart ==
  ASSUME Sane, OrderlyInv, NEW c \in Clients, NEW k \in Kinds, Send(c, k), orderly' = TRUE
  PROVE  ApartInv'
<1>1. Others(c) /\ placementNodes' = placementNodes /\ Fits(c, cmd'[c])
  BY Sent DEF registries
<1>2. PICK r : r = cmd'[c]
  OBVIOUS
<1>3. \A d \in Clients \ {c} : cmd'[d] = cmd[d] /\ NamedCanvases(cmd[d])' = NamedCanvases(cmd[d])
  BY <1>1 DEF NamedCanvases, CanvasOf, Others
<1>4. NamedCanvases(cmd[c])' = NamedCanvases(r)
  BY <1>1, <1>2 DEF NamedCanvases, CanvasOf
<1>5. ASSUME NEW d \in Clients \ {c}
      PROVE  ~Clash(c, cmd[c], d, cmd[d])' /\ ~Clash(d, cmd[d], c, cmd[c])'
  <2>1. ~Clash(c, r, d, cmd[d]) /\ ~Clash(d, cmd[d], c, r)
    BY <1>1, <1>2 DEF Fits
  <2> QED
    BY <1>2, <1>3, <1>4, <2>1 DEF Clash
<1> QED
  BY <1>1, <1>3, <1>5, ApartStep DEF OrderlyInv

(* No step of a thread makes commands clash. *)
LEMMA ThreadApart ==
  ASSUME Sane, OrderlyInv, NEW c \in Clients, Thread(c), fault' = FALSE
  PROVE  ApartInv'
  BY ThreadStep, ReplyApart, GoApart, LibCreateApart, LibPlaceApart

-------------------------------------------------------------------------------
(* What a command names stays its user's. *)

(* References to canvases, by a thread that does not give them back. *)
LEMMA HoldsStep ==
  ASSUME Sane, OrderlyInv, NEW c \in Clients, Thread(c), NEW u \in Users, NEW k \in Canvases,
         Holds(u, k), ~(ReleaseCanvas(c) /\ u = user(c) /\ k = cmd[c].canvas)
  PROVE  Holds(u, k)'
<1>1. EnterCanvas(c) \/ ShareCanvas(c) \/ ReleaseCanvas(c) \/ canvasNode' = canvasNode
  BY DEF Thread, LibCreate, LibCreateFails, EnterSprite, EnterPlacement, EnterFails, Check, Refuse,
         UseFreed, Faults, LibPlace, LibMove, GenerateStart, GenerateFails,
         GenerateEnd, LibDestroySprite, UnlinkSprite, LibDestroyPlacement, UnlinkPlacement,
         DeleteCanvas, DestroyUnregistered, registries
<1> QED
  BY <1>1, EnterCanvasRefs, ShareCanvasRefs, ReleaseCanvasRefs, NodeKept DEF OrderlyInv

(* Sprites, those that the library creates or destroys apart. *)
LEMMA SpriteKept ==
  ASSUME Sane, OrderlyInv, NEW c \in Clients, Thread(c), NEW d \in Clients \ {c},
         at[d] \notin {"enter", "unlink"}, NEW s, s = cmd[d].sprite, s # None
  PROVE  spriteOf'[s] = spriteOf[s] /\ spriteNodes'[s] = spriteNodes[s]
<1>0. /\ s \in Sprites /\ spriteOf[s] # None /\ ~NewSprite(s)
      /\ spriteOf \in [Sprites -> Users \union {None}] /\ spriteNodes \in [Sprites -> Seq(Users)]
  BY HeldSprite DEF Sane, ObjectTypes
<1>1. CASE EnterSprite(c)
  <2>1. s # cmd[c].sprite
    BY <1>0, <1>1 DEF EnterSprite, Steps, NewSprite
  <2> QED
    BY <1>0, <1>1, <2>1 DEF EnterSprite
<1>2. CASE UnlinkSprite(c) \/ LibDestroySprite(c)
  <2>1. s # cmd[c].sprite
    <3>1. SUFFICES ASSUME s = cmd[c].sprite PROVE FALSE
      OBVIOUS
    <3>2. Clash(c, cmd[c], d, cmd[d])
      BY <1>2, <3>1 DEF UnlinkSprite, LibDestroySprite, Steps, Clash
    <3>3. cmd[d].kind = "CreateSprite"
      BY <3>2 DEF OrderlyInv, ApartInv
    <3> QED
      BY <3>3, Command DEF Shaped
  <2> QED
    BY <1>0, <1>2, <2>1 DEF UnlinkSprite, LibDestroySprite, Unlinked, Replies, Goes, registries
<1>3. EnterSprite(c) \/ UnlinkSprite(c) \/ LibDestroySprite(c)
      \/ (spriteOf' = spriteOf /\ spriteNodes' = spriteNodes)
  BY DEF Thread, LibCreate, LibCreateFails, EnterCanvas, EnterPlacement, EnterFails, Check, Refuse,
         UseFreed, Faults, ShareCanvas, LibPlace, LibMove, GenerateStart, GenerateFails,
         GenerateEnd, LibDestroyPlacement, UnlinkPlacement, ReleaseCanvas, DeleteCanvas,
         DestroyUnregistered, registries, history
<1> QED
  BY <1>1, <1>2, <1>3

(* What HeldInv says of one client. *)
HasWhatItNames(c) ==
  LET r == cmd[c] u == user(c)
  IN  /\ r.kind # "CreateCanvas" /\ at[c] # "delete" => \A k \in NamedCanvases(r) : Holds(u, k)
      /\ r.sprite # None /\ at[c] \notin {"enter", "unlink"} => spriteOf[r.sprite] = u
      /\ at[c] = "act" /\ r.sprite # None => OwnsSprite(u, r.sprite)

(* A step of one thread takes nothing that another's command names. *)
LEMMA OthersHave ==
  ASSUME Sane, OrderlyInv, NEW c \in Clients, Thread(c), fault' = FALSE, NEW d \in Clients \ {c}
  PROVE  HasWhatItNames(d)'
<1>1. /\ at'[d] = at[d] /\ cmd'[d] = cmd[d] /\ user(d) \in Users /\ user(d)' = user(d)
      /\ NamedCanvases(cmd[d])' = NamedCanvases(cmd[d])
  BY ThreadStep, NamesKept, Command DEF Others, user
<1>2. ASSUME cmd[d].kind # "CreateCanvas", at[d] # "delete", NEW k \in NamedCanvases(cmd[d])
      PROVE  Holds(user(d), k)'
  <2>1. k \in Canvases /\ Holds(user(d), k)
    BY <1>2, HeldCanvas
  <2>2. ~(ReleaseCanvas(c) /\ user(d) = user(c) /\ k = cmd[c].canvas)
    <3>1. SUFFICES ASSUME ReleaseCanvas(c), user(d) = user(c), k = cmd[c].canvas PROVE FALSE
      OBVIOUS
    <3>2. cmd[c].kind = "DestroyCanvas" /\ Clash(c, cmd[c], d, cmd[d])
      BY <1>2, <3>1 DEF ReleaseCanvas, Steps, Clash
    <3>3. at[c] # "unlink"
      BY <3>1 DEF ReleaseCanvas, Steps
    <3> QED
      BY <3>2, <3>3 DEF OrderlyInv, ApartInv
  <2> QED
    BY <1>1, <2>1, <2>2, HoldsStep
<1>3. ASSUME at[d] \notin {"enter", "unlink"}, cmd[d].sprite # None
      PROVE  /\ spriteOf'[cmd[d].sprite] = user(d)
             /\ at[d] = "act" => OwnsSprite(user(d), cmd[d].sprite)'
  <2>1. PICK s : s = cmd[d].sprite
    OBVIOUS
  <2>2. spriteOf'[s] = spriteOf[s] /\ spriteNodes'[s] = spriteNodes[s]
    BY <1>3, <2>1, SpriteKept
  <2>3. spriteOf[s] = user(d) /\ (at[d] = "act" => OwnsSprite(user(d), s))
    BY <1>3, <2>1 DEF OrderlyInv, HeldInv
  <2>4. OwnsSprite(user(d), s) => OwnsSprite(user(d), s)'
    BY <1>1, <2>2 DEF OwnsSprite
  <2> QED
    BY <1>1, <2>1, <2>2, <2>3, <2>4 DEF OwnsSprite
<1> QED
  BY <1>1, <1>2, <1>3 DEF HasWhatItNames

(* A handler that has replied names nothing. *)
LEMMA ReplyHas ==
  ASSUME Sane, NEW c \in Clients, Replies(c)
  PROVE  HasWhatItNames(c)'
<1>1. cmd'[c] = NoCmd
  BY Replied
<1>2. NamedCanvases(cmd[c])' = {}
  BY <1>1, ObjectsAssumption DEF NamedCanvases, CanvasOf, NoCmd
<1> QED
  BY <1>1, <1>2 DEF HasWhatItNames, NoCmd

(* A created object is in the hands of the handler alone. *)
LEMMA CreateHas ==
  ASSUME Sane, NEW c \in Clients, LibCreate(c)
  PROVE  HasWhatItNames(c)'
<1>1. /\ at'[c] = "enter" /\ cmd'[c].kind = cmd[c].kind /\ cmd'[c].placement = None
      /\ cmd'[c].kind = "CreateCanvas" \/ cmd'[c].canvas = None
  BY Created
<1>2. cmd'[c].kind # "CreateCanvas" => NamedCanvases(cmd[c])' = {}
  BY <1>1, ObjectsAssumption DEF NamedCanvases, CanvasOf
<1> QED
  BY <1>1, <1>2 DEF HasWhatItNames

(* After the library call the canvas is still held by the user. *)
LEMMA PlaceHas ==
  ASSUME Sane, OrderlyInv, NEW c \in Clients, LibPlace(c)
  PROVE  HasWhatItNames(c)'
<1>1. /\ at'[c] = "enter" /\ at[c] = "act" /\ cmd[c].kind = "PlaceSprite"
      /\ canvasNode' = canvasNode /\ user(c)' = user(c)
  BY Laid DEF registries, user
<1>2. NamedCanvases(cmd[c])' = NamedCanvases(cmd[c])
  BY LibPlaceNames
<1>3. \A k \in NamedCanvases(cmd[c]) : Holds(user(c), k)
  BY <1>1 DEF OrderlyInv, HeldInv
<1>4. \A k \in NamedCanvases(cmd[c]) : Holds(user(c), k)'
  BY <1>1, <1>3, NodeKept DEF user
<1> QED
  BY <1>1, <1>2, <1>4 DEF HasWhatItNames

(* A command that goes on has what it named. *)
LEMMA GoHas ==
  ASSUME Sane, OrderlyInv, NEW c \in Clients, NEW a \in {"act", "frames", "unlink"}, Goes(c, a),
         UNCHANGED registries, at[c] # "delete", cmd[c].kind # "CreateCanvas",
         a # "unlink" /\ cmd[c].sprite # None =>
            /\ spriteOf'[cmd[c].sprite] = user(c)
            /\ OwnsSprite(user(c), cmd[c].sprite)
  PROVE  HasWhatItNames(c)'
<1>1. at'[c] = a /\ cmd' = cmd /\ user(c)' = user(c)
  BY Gone DEF user
<1>2. NamedCanvases(cmd[c])' = NamedCanvases(cmd[c])
  BY <1>1 DEF NamedCanvases, CanvasOf, registries
<1>3. \A k \in NamedCanvases(cmd[c]) : Holds(user(c), k)
  BY DEF OrderlyInv, HeldInv
<1>4. \A k \in NamedCanvases(cmd[c]) : Holds(user(c), k)'
  BY <1>3, NodeKept DEF registries, user
<1>5. \A s : OwnsSprite(user(c), s)' <=> OwnsSprite(user(c), s)
  BY DEF OwnsSprite, registries, user
<1> QED
  BY <1>1, <1>2, <1>4, <1>5 DEF HasWhatItNames

(* The check has seen to the sprite. *)
LEMMA ThreadHas ==
  ASSUME Sane, OrderlyInv, NEW c \in Clients, Thread(c), fault' = FALSE
  PROVE  HasWhatItNames(c)'
<1>0. Shaped(at[c], cmd[c])
  BY Command
<1>1. CASE Check(c)
  <2>1. /\ at[c] = "check" /\ Goes(c, "act") /\ Allowed(c) /\ UNCHANGED <<registries, spriteOf>>
        /\ cmd[c].kind \in {"PlaceSprite", "MovePlacement", "Generate", "DestroySprite",
                            "DestroyPlacement"}
    BY <1>1 DEF Check, Steps
  <2>2. cmd[c].sprite # None =>
           OwnsSprite(user(c), cmd[c].sprite) /\ spriteOf[cmd[c].sprite] = user(c)
    <3>1. cmd[c].sprite # None => cmd[c].kind \in {"PlaceSprite", "DestroySprite"}
      BY <1>0, <2>1 DEF Shaped
    <3> QED
      BY <2>1, <3>1 DEF Allowed, OrderlyInv, HeldInv
  <2> QED
    BY <2>1, <2>2, GoHas
<1>2. CASE GenerateStart(c)
  <2>1. at[c] = "act" /\ Goes(c, "frames") /\ UNCHANGED registries /\ cmd[c].kind = "Generate"
    BY <1>2 DEF GenerateStart, Steps
  <2>2. cmd[c].sprite = None
    BY <1>0, <2>1 DEF Shaped
  <2> QED
    BY <2>1, <2>2, GoHas
<1>3. CASE LibDestroySprite(c) \/ LibDestroyPlacement(c)
  <2>1. /\ at[c] = "act" /\ UNCHANGED registries /\ cmd[c].kind # "CreateCanvas"
        /\ Replies(c) \/ Goes(c, "unlink")
    BY <1>3 DEF LibDestroySprite, LibDestroyPlacement, Steps
  <2> QED
    BY <2>1, GoHas, ReplyHas
<1>4. CASE ReleaseCanvas(c)
  <2>1. /\ Replies(c) \/ Goes(c, "delete")
        /\ cmd[c].kind = "DestroyCanvas" /\ at[c] = "check"
    BY <1>4 DEF ReleaseCanvas, Steps
  <2>2. ASSUME Goes(c, "delete") PROVE HasWhatItNames(c)'
    <3>1. at'[c] = "delete" /\ cmd'[c] = cmd[c]
      BY <2>2, Gone
    <3>2. cmd[c].sprite = None
      BY <1>0, <2>1 DEF Shaped
    <3> QED
      BY <3>1, <3>2 DEF HasWhatItNames
  <2> QED
    BY <2>1, <2>2, ReplyHas
<1>5. Replies(c) \/ LibCreate(c) \/ LibPlace(c) \/ Check(c) \/ GenerateStart(c)
      \/ LibDestroySprite(c) \/ LibDestroyPlacement(c) \/ ReleaseCanvas(c)
  BY DEF Thread, LibCreateFails, Refuse, LibMove, GenerateFails, GenerateEnd, EnterCanvas,
         EnterSprite, EnterPlacement, EnterFails, ShareCanvas, UnlinkSprite, UnlinkPlacement,
         DeleteCanvas, UseFreed, DestroyUnregistered, Faults
<1> QED
  BY <1>1, <1>2, <1>3, <1>4, <1>5, ReplyHas, CreateHas, PlaceHas

(* HeldInv, over the steps of a thread. *)
LEMMA ThreadHeld ==
  ASSUME Sane, OrderlyInv, NEW c \in Clients, Thread(c), fault' = FALSE
  PROVE  HeldInv'
<1>1. \A d \in Clients : HasWhatItNames(d)'
  BY OthersHave, ThreadHas
<1> QED
  BY <1>1 DEF HeldInv, HasWhatItNames

(* HeldInv, over a new command: orderly users name what they have. *)
LEMMA SendHeld ==
  ASSUME Sane, OrderlyInv, NEW c \in Clients, NEW k \in Kinds, Send(c, k), orderly' = TRUE
  PROVE  HeldInv'
<1>1. /\ Others(c) /\ UNCHANGED <<registries, spriteOf>> /\ Fits(c, cmd'[c])
      /\ at'[c] = "act" => k \in Creates
      /\ cmd'[c].sprite # None <=> k \in {"PlaceSprite", "DestroySprite"}
  BY Sent
<1>2. /\ \A d, j : Holds(user(d), j)' <=> Holds(user(d), j)
      /\ \A d, s : OwnsSprite(user(d), s)' <=> OwnsSprite(user(d), s)
      /\ \A d : user(d)' = user(d)
  BY <1>1, NodeKept DEF OwnsSprite, registries, user
<1>3. \A d \in Clients : NamedCanvases(cmd[d])' = NamedCanvases(cmd'[d])
  BY <1>1 DEF NamedCanvases, CanvasOf, registries
<1>4. ASSUME NEW d \in Clients \ {c} PROVE HasWhatItNames(d)'
  <2>1. HasWhatItNames(d) /\ at'[d] = at[d] /\ cmd'[d] = cmd[d]
    BY <1>1 DEF OrderlyInv, HeldInv, HasWhatItNames, Others
  <2> QED
    BY <1>1, <1>2, <1>3, <2>1 DEF HasWhatItNames
<1>5. HasWhatItNames(c)'
  <2>1. /\ \A j \in NamedCanvases(cmd'[c]) : Holds(user(c), j)
        /\ cmd'[c].sprite # None => spriteOf[cmd'[c].sprite] = user(c)
    BY <1>1 DEF Fits
  <2>2. ~(at'[c] = "act" /\ cmd'[c].sprite # None)
    BY <1>1 DEF Creates
  <2> QED
    BY <1>1, <1>2, <1>3, <2>1, <2>2 DEF HasWhatItNames
<1> QED
  BY <1>4, <1>5 DEF HeldInv, HasWhatItNames

-------------------------------------------------------------------------------
(* Sprites *)

(* A step of c that neither creates nor destroys a sprite, nor places one. *)
LEMMA SpritesQuiet ==
  ASSUME SpriteInv, NEW c \in Clients, Others(c), UNCHANGED <<sprites, spriteOf>>,
         \A p \in Placements : placed'[p] \in {placed[p], Free},
         ~(at'[c] = "enter" /\ cmd'[c].kind = "CreateSprite")
  PROVE  SpriteInv'
<1>1. \A d \in Clients : at'[d] = "enter" /\ cmd'[d].kind = "CreateSprite" =>
         d # c /\ at'[d] = at[d] /\ cmd'[d] = cmd[d]
  BY DEF Others
<1>2. \A p \in Placements : placed'[p] # Free => placed'[p] = placed[p]
  OBVIOUS
<1>3. \A s \in Sprites : spriteOf'[s] # None => s \in sprites'
  BY DEF SpriteInv
<1>4. \A p \in Placements : placed'[p] # Free =>
        placed'[p].sprite \in Sprites /\ spriteOf'[placed'[p].sprite] # None
  BY <1>2 DEF SpriteInv
<1>5. \A d \in Clients : at'[d] = "enter" /\ cmd'[d].kind = "CreateSprite" =>
       /\ cmd'[d].sprite \in sprites' /\ spriteOf'[cmd'[d].sprite] = None
       /\ \A e \in Clients \ {d} : at'[e] = "enter" /\ cmd'[e].kind = "CreateSprite"
                                   => cmd'[e].sprite # cmd'[d].sprite
  BY <1>1 DEF SpriteInv
<1> QED
  BY <1>3, <1>4, <1>5 DEF SpriteInv

(* A step that neither creates nor enters s leaves NewSprite(s) as it is. *)
LEMMA SpriteMarks ==
  ASSUME NEW c \in Clients, Others(c), NEW s,
         ~(/\ at[c] = "enter" /\ cmd[c].kind = "CreateSprite" /\ cmd[c].sprite = s),
         ~(/\ at'[c] = "enter" /\ cmd'[c].kind = "CreateSprite" /\ cmd'[c].sprite = s)
  PROVE  NewSprite(s)' <=> NewSprite(s)
  BY DEF NewSprite, Others

(* A step that neither destroys nor unlinks s leaves OldSprite(s) as it    *)
(* is.                                                                     *)
LEMMA OldSpriteMarks ==
  ASSUME NEW c \in Clients, Others(c), NEW s,
         ~(/\ at[c] = "unlink" /\ cmd[c].kind = "DestroySprite" /\ cmd[c].sprite = s),
         ~(/\ at'[c] = "unlink" /\ cmd'[c].kind = "DestroySprite" /\ cmd'[c].sprite = s)
  PROVE  OldSprite(s)' <=> OldSprite(s)
  BY DEF OldSprite, Others

(* A step that concerns no sprite. *)
LEMMA SpriteNodesQuiet ==
  ASSUME SpriteNodesInv, NEW c \in Clients, Others(c), UNCHANGED <<sprites, spriteNodes>>,
         at[c] = "enter" => cmd[c].kind # "CreateSprite",
         at'[c] = "enter" => cmd'[c].kind # "CreateSprite",
         at[c] = "unlink" => cmd[c].kind # "DestroySprite",
         at'[c] = "unlink" => cmd'[c].kind # "DestroySprite"
  PROVE  SpriteNodesInv'
<1>1. \A s \in Sprites : (NewSprite(s)' <=> NewSprite(s)) /\ (OldSprite(s)' <=> OldSprite(s))
  BY SpriteMarks, OldSpriteMarks
<1> QED
  BY <1>1 DEF SpriteNodesInv

(* A step that concerns one sprite. *)
LEMMA SpriteNodesAt ==
  ASSUME SpriteNodesInv, NEW s \in Sprites,
         \A x \in Sprites \ {s} : /\ spriteNodes'[x] = spriteNodes[x]
                                  /\ x \in sprites' <=> x \in sprites
                                  /\ NewSprite(x)' <=> NewSprite(x)
                                  /\ OldSprite(x)' <=> OldSprite(x),
         Len(spriteNodes'[s]) = (IF s \in sprites' /\ ~NewSprite(s)' THEN 1 ELSE 0)
                                + (IF OldSprite(s)' THEN 1 ELSE 0)
  PROVE  SpriteNodesInv'
  BY DEF SpriteNodesInv

(* A new sprite has no node yet; its address may still have an old one. *)
LEMMA LibCreateSprites ==
  ASSUME Sane, OrderlyInv, NEW c \in Clients, LibCreate(c)
  PROVE  SpriteInv' /\ SpriteNodesInv'
<1>1. /\ Others(c) /\ at[c] = "act" /\ at'[c] = "enter" /\ cmd'[c].kind = cmd[c].kind
      /\ UNCHANGED <<spriteNodes, placed, spriteOf>>
      /\ cmd[c].kind \in {"CreateCanvas", "CreateSprite"}
  BY Created DEF registries
<1>2. CASE cmd[c].kind = "CreateCanvas"
  <2>1. sprites' = sprites
    BY <1>2, Created
  <2> QED
    BY <1>1, <1>2, <2>1, SpritesQuiet, SpriteNodesQuiet DEF OrderlyInv
<1>3. CASE cmd[c].kind = "CreateSprite"
  <2>1. PICK s \in Sprites \ sprites : sprites' = sprites \union {s} /\ cmd'[c].sprite = s
    BY <1>3, Created
  <2>2. spriteOf[s] = None
    BY <2>1 DEF OrderlyInv, SpriteInv
  <2>3. \A d \in Clients \ {c} : at[d] = "enter" /\ cmd[d].kind = "CreateSprite" => cmd[d].sprite # s
    BY <2>1 DEF OrderlyInv, SpriteInv
  <2>4. SpriteInv'
    <3>1. \A x \in Sprites : spriteOf'[x] # None => x \in sprites'
      BY <1>1, <2>1 DEF OrderlyInv, SpriteInv
    <3>2. \A p \in Placements : placed'[p] # Free =>
            placed'[p].sprite \in Sprites /\ spriteOf'[placed'[p].sprite] # None
      BY <1>1 DEF OrderlyInv, SpriteInv
    <3>3. ASSUME NEW d \in Clients, at'[d] = "enter", cmd'[d].kind = "CreateSprite"
          PROVE  /\ cmd'[d].sprite \in sprites' /\ spriteOf'[cmd'[d].sprite] = None
                 /\ \A e \in Clients \ {d} : at'[e] = "enter" /\ cmd'[e].kind = "CreateSprite"
                                             => cmd'[e].sprite # cmd'[d].sprite
      <4>1. CASE d = c
        BY <1>1, <2>1, <2>2, <2>3, <4>1 DEF Others
      <4>2. CASE d # c
        BY <1>1, <2>1, <2>3, <3>3, <4>2 DEF Others, OrderlyInv, SpriteInv
      <4> QED
        BY <4>1, <4>2
    <3> QED
      BY <3>1, <3>2, <3>3 DEF SpriteInv
  <2>5. SpriteNodesInv'
    <3>1. \A x \in Sprites \ {s} : NewSprite(x)' <=> NewSprite(x)
      BY <1>1, <2>1, SpriteMarks
    <3>2. \A x \in Sprites : OldSprite(x)' <=> OldSprite(x)
      BY <1>1, OldSpriteMarks
    <3>3. NewSprite(s)'
      BY <1>1, <1>3, <2>1 DEF NewSprite
    <3>4. Len(spriteNodes'[s]) = (IF s \in sprites' /\ ~NewSprite(s)' THEN 1 ELSE 0)
                                 + (IF OldSprite(s)' THEN 1 ELSE 0)
      BY <1>1, <2>1, <3>2, <3>3 DEF OrderlyInv, SpriteNodesInv
    <3> QED
      BY <1>1, <2>1, <3>1, <3>2, <3>4, SpriteNodesAt DEF OrderlyInv
  <2> QED
    BY <2>4, <2>5
<1> QED
  BY <1>1, <1>2, <1>3

(* Its node is put before the old one, if that is still there. *)
LEMMA EnterSpriteSprites ==
  ASSUME Sane, OrderlyInv, NEW c \in Clients, EnterSprite(c)
  PROVE  SpriteInv' /\ SpriteNodesInv'
<1>1. PICK s : s = cmd[c].sprite
  OBVIOUS
<1>2. /\ Others(c) /\ at[c] = "enter" /\ cmd[c].kind = "CreateSprite" /\ s \in Sprites
      /\ at'[c] = "ready" /\ UNCHANGED <<sprites, placed>> /\ user(c) \in Users /\ user(c) # None
  BY <1>1, Replied, Command DEF EnterSprite, Steps, library, Shaped, Commands
<1>3. /\ spriteNodes'[s] = <<user(c)>> \o spriteNodes[s] /\ spriteOf'[s] = user(c)
      /\ \A x \in Sprites \ {s} : spriteNodes'[x] = spriteNodes[x] /\ spriteOf'[x] = spriteOf[x]
  BY <1>1, <1>2 DEF EnterSprite, Sane, ObjectTypes
<1>4. /\ s \in sprites /\ spriteOf[s] = None
      /\ \A d \in Clients \ {c} : at[d] = "enter" /\ cmd[d].kind = "CreateSprite"
                                  => cmd[d].sprite # s
  BY <1>1, <1>2 DEF OrderlyInv, SpriteInv
<1>5. SpriteInv'
  <2>1. \A x \in Sprites : spriteOf'[x] # None => x \in sprites'
    BY <1>2, <1>3, <1>4 DEF OrderlyInv, SpriteInv
  <2>2. \A p \in Placements : placed'[p] # Free =>
          placed'[p].sprite \in Sprites /\ spriteOf'[placed'[p].sprite] # None
    BY <1>2, <1>3 DEF OrderlyInv, SpriteInv
  <2>3. ASSUME NEW d \in Clients, at'[d] = "enter", cmd'[d].kind = "CreateSprite"
        PROVE  /\ cmd'[d].sprite \in sprites' /\ spriteOf'[cmd'[d].sprite] = None
               /\ \A e \in Clients \ {d} : at'[e] = "enter" /\ cmd'[e].kind = "CreateSprite"
                                           => cmd'[e].sprite # cmd'[d].sprite
    <3>1. d # c /\ at[d] = "enter" /\ cmd'[d] = cmd[d] /\ cmd[d].kind = "CreateSprite"
      BY <1>2, <2>3 DEF Others
    <3>2. cmd[d].sprite \in Sprites \ {s}
      BY <1>4, <3>1, Command DEF Shaped, Commands
    <3> QED
      BY <1>2, <1>3, <3>1, <3>2 DEF Others, OrderlyInv, SpriteInv
  <2> QED
    BY <2>1, <2>2, <2>3 DEF SpriteInv
<1>6. SpriteNodesInv'
  <2>1. \A x \in Sprites \ {s} : NewSprite(x)' <=> NewSprite(x)
    BY <1>1, <1>2, SpriteMarks
  <2>2. \A x \in Sprites : OldSprite(x)' <=> OldSprite(x)
    BY <1>2, OldSpriteMarks
  <2>3. NewSprite(s) /\ ~NewSprite(s)'
    BY <1>1, <1>2, <1>4 DEF NewSprite, Others
  <2>4. Len(spriteNodes'[s]) = Len(spriteNodes[s]) + 1 /\ Len(spriteNodes[s]) \in Nat
    <3>1. spriteNodes[s] \in Seq(Users)
      BY <1>2 DEF Sane, ObjectTypes
    <3> QED
      BY <1>2, <1>3, <3>1, EnteredTyped
  <2>5. Len(spriteNodes[s]) = IF OldSprite(s) THEN 1 ELSE 0
    BY <1>2, <2>3 DEF OrderlyInv, SpriteNodesInv
  <2>6. Len(spriteNodes'[s]) = (IF s \in sprites' /\ ~NewSprite(s)' THEN 1 ELSE 0)
                               + (IF OldSprite(s)' THEN 1 ELSE 0)
    BY <1>2, <1>4, <2>2, <2>3, <2>4, <2>5
  <2> QED
    BY <1>2, <1>3, <2>1, <2>2, <2>6, SpriteNodesAt DEF OrderlyInv
<1> QED
  BY <1>5, <1>6

(* A sprite that is destroyed is not placed, not new, and not being        *)
(* unlinked already.                                                       *)
LEMMA LibDestroySpriteSprites ==
  ASSUME Sane, OrderlyInv, NEW c \in Clients, LibDestroySprite(c)
  PROVE  SpriteInv' /\ SpriteNodesInv'
<1>1. PICK s : s = cmd[c].sprite
  OBVIOUS
<1>2. /\ at[c] = "act" /\ cmd[c].kind = "DestroySprite" /\ UNCHANGED <<spriteNodes, placed>>
  BY DEF LibDestroySprite, Steps, registries
<1>3. /\ s \in Sprites /\ spriteOf[s] = user(c) /\ spriteOf[s] # None /\ s \in sprites
      /\ ~NewSprite(s)
  BY <1>1, <1>2, HeldSprite, Command DEF Shaped
<1>4. CASE \E p \in Placements : placed[p].sprite = s
  <2>1. Replies(c) /\ UNCHANGED <<sprites, spriteOf>>
    BY <1>1, <1>4 DEF LibDestroySprite
  <2>2. Others(c) /\ at'[c] = "ready"
    BY <2>1, Replied
  <2> QED
    BY <1>2, <2>1, <2>2, SpritesQuiet, SpriteNodesQuiet DEF OrderlyInv
<1>5. CASE ~\E p \in Placements : placed[p].sprite = s
  <2>1. /\ Goes(c, "unlink") /\ sprites' = sprites \ {s}
        /\ spriteOf' = [spriteOf EXCEPT ![s] = None]
    BY <1>1, <1>5 DEF LibDestroySprite
  <2>2. Others(c) /\ at'[c] = "unlink" /\ cmd'[c] = cmd[c]
    BY <2>1, Gone
  <2>3. spriteOf'[s] = None /\ \A x \in Sprites \ {s} : spriteOf'[x] = spriteOf[x]
    BY <1>3, <2>1 DEF Sane, ObjectTypes
  <2>4. SpriteInv'
    <3>1. \A x \in Sprites : spriteOf'[x] # None => x \in sprites'
      BY <2>1, <2>3 DEF OrderlyInv, SpriteInv
    <3>2. \A p \in Placements : placed'[p] # Free =>
            placed'[p].sprite \in Sprites /\ spriteOf'[placed'[p].sprite] # None
      BY <1>2, <1>5, <2>3 DEF OrderlyInv, SpriteInv
    <3>3. ASSUME NEW d \in Clients, at'[d] = "enter", cmd'[d].kind = "CreateSprite"
          PROVE  /\ cmd'[d].sprite \in sprites' /\ spriteOf'[cmd'[d].sprite] = None
                 /\ \A e \in Clients \ {d} : at'[e] = "enter" /\ cmd'[e].kind = "CreateSprite"
                                             => cmd'[e].sprite # cmd'[d].sprite
      <4>1. d # c /\ at[d] = "enter" /\ cmd'[d] = cmd[d] /\ cmd[d].kind = "CreateSprite"
        BY <2>2, <3>3 DEF Others
      <4>2. cmd[d].sprite \in Sprites \ {s}
        BY <1>3, <4>1, Command DEF Shaped, Commands, NewSprite
      <4> QED
        BY <2>1, <2>2, <2>3, <4>1, <4>2 DEF Others, OrderlyInv, SpriteInv
    <3> QED
      BY <3>1, <3>2, <3>3 DEF SpriteInv
  <2>5. SpriteNodesInv'
    <3>1. ~OldSprite(s)
      <4>1. SUFFICES ASSUME NEW d \in Clients, at[d] = "unlink", cmd[d].kind = "DestroySprite",
                            cmd[d].sprite = s
                     PROVE  FALSE
        BY DEF OldSprite
      <4>2. d # c /\ Clash(d, cmd[d], c, cmd[c])
        BY <1>1, <1>2, <4>1 DEF Clash
      <4> QED
        BY <1>2, <4>2 DEF OrderlyInv, ApartInv
    <3>2. \A x \in Sprites : NewSprite(x)' <=> NewSprite(x)
      BY <1>2, <2>2, SpriteMarks
    <3>3. \A x \in Sprites \ {s} : OldSprite(x)' <=> OldSprite(x)
      BY <1>1, <1>2, <2>2, OldSpriteMarks
    <3>4. OldSprite(s)'
      BY <1>1, <1>2, <2>2 DEF OldSprite
    <3>5. Len(spriteNodes[s]) = 1
      <4>1. Len(spriteNodes[s]) = (IF s \in sprites /\ ~NewSprite(s) THEN 1 ELSE 0)
                                  + (IF OldSprite(s) THEN 1 ELSE 0)
        BY <1>3 DEF OrderlyInv, SpriteNodesInv
      <4> QED
        BY <1>3, <3>1, <4>1
    <3>6. Len(spriteNodes'[s]) = (IF s \in sprites' /\ ~NewSprite(s)' THEN 1 ELSE 0)
                                 + (IF OldSprite(s)' THEN 1 ELSE 0)
      BY <1>2, <2>1, <3>4, <3>5
    <3> QED
      BY <1>2, <1>3, <2>1, <3>2, <3>3, <3>6, SpriteNodesAt DEF OrderlyInv
  <2> QED
    BY <2>4, <2>5
<1> QED
  BY <1>4, <1>5

(* One node goes for the sprite that is gone. *)
LEMMA UnlinkSpriteSprites ==
  ASSUME Sane, OrderlyInv, NEW c \in Clients, UnlinkSprite(c)
  PROVE  SpriteInv' /\ SpriteNodesInv'
<1>1. PICK s : s = cmd[c].sprite
  OBVIOUS
<1>2. /\ Others(c) /\ at[c] = "unlink" /\ cmd[c].kind = "DestroySprite" /\ s \in Sprites
      /\ at'[c] = "ready" /\ UNCHANGED <<sprites, placed, spriteOf>>
  BY <1>1, Replied, Command DEF UnlinkSprite, Steps, library, Shaped, Commands
<1>3. /\ spriteNodes'[s] = IF spriteNodes[s] = <<>> THEN <<>> ELSE Tail(spriteNodes[s])
      /\ \A x \in Sprites \ {s} : spriteNodes'[x] = spriteNodes[x]
  BY <1>1, <1>2 DEF UnlinkSprite, Unlinked, Sane, ObjectTypes
<1>4. SpriteInv'
  BY <1>2, SpritesQuiet DEF OrderlyInv
<1>5. SpriteNodesInv'
  <2>1. OldSprite(s)
    BY <1>1, <1>2 DEF OldSprite
  <2>2. ~OldSprite(s)'
    <3>1. SUFFICES ASSUME NEW d \in Clients, at'[d] = "unlink", cmd'[d].kind = "DestroySprite",
                          cmd'[d].sprite = s
                   PROVE  FALSE
      BY DEF OldSprite
    <3>2. d # c /\ cmd[d].kind = "DestroySprite" /\ Clash(c, cmd[c], d, cmd[d])
      BY <1>1, <1>2, <3>1 DEF Clash, Others
    <3> QED
      BY <3>2 DEF OrderlyInv, ApartInv
  <2>3. \A x \in Sprites \ {s} : OldSprite(x)' <=> OldSprite(x)
    BY <1>1, <1>2, OldSpriteMarks
  <2>4. \A x \in Sprites : NewSprite(x)' <=> NewSprite(x)
    BY <1>2, SpriteMarks
  <2>5. Len(spriteNodes[s]) = (IF s \in sprites /\ ~NewSprite(s) THEN 1 ELSE 0) + 1
    BY <1>2, <2>1 DEF OrderlyInv, SpriteNodesInv
  <2>6. Len(spriteNodes'[s]) = Len(spriteNodes[s]) - 1
    <3>1. spriteNodes[s] \in Seq(Users)
      BY <1>2 DEF Sane, ObjectTypes
    <3>2. spriteNodes[s] # <<>>
      BY <2>5, <3>1
    <3> QED
      BY <1>3, <3>1, <3>2
  <2>7. Len(spriteNodes'[s]) = (IF s \in sprites' /\ ~NewSprite(s)' THEN 1 ELSE 0)
                               + (IF OldSprite(s)' THEN 1 ELSE 0)
    BY <1>2, <2>2, <2>4, <2>5, <2>6
  <2> QED
    BY <1>2, <1>3, <2>3, <2>4, <2>7, SpriteNodesAt DEF OrderlyInv
<1> QED
  BY <1>4, <1>5

-------------------------------------------------------------------------------
(* Placements *)

(* A step that neither places nor enters p leaves NewPlacement(p) as it is. *)
LEMMA PlacementMarks ==
  ASSUME NEW c \in Clients, Others(c), NEW p,
         ~(/\ at[c] = "enter" /\ cmd[c].kind = "PlaceSprite" /\ cmd[c].placement = p),
         ~(/\ at'[c] = "enter" /\ cmd'[c].kind = "PlaceSprite" /\ cmd'[c].placement = p)
  PROVE  NewPlacement(p)' <=> NewPlacement(p)
  BY DEF NewPlacement, Others

(* A step that neither frees nor unlinks p leaves OldPlacement(p) as it    *)
(* is.                                                                     *)
LEMMA OldPlacementMarks ==
  ASSUME NEW c \in Clients, Others(c), NEW p,
         ~(/\ at[c] = "unlink" /\ cmd[c].kind = "DestroyPlacement" /\ cmd[c].placement = p),
         ~(/\ at'[c] = "unlink" /\ cmd'[c].kind = "DestroyPlacement" /\ cmd'[c].placement = p)
  PROVE  OldPlacement(p)' <=> OldPlacement(p)
  BY DEF OldPlacement, Others

(* The parts of PlacementInv. *)
OneNode == \A p \in Placements :
  placementNodes[p] = <<>> \/ \E k \in Canvases : placementNodes[p] = <<k>>
OnCanvases == \A p \in Placements : placed[p] # Free =>
  /\ placed[p].canvas \in canvases
  /\ \A c \in Clients : at[c] = "enter" /\ cmd[c].kind = "CreateCanvas"
                        => cmd[c].canvas # placed[p].canvas
Placing(c) == at[c] = "enter" /\ cmd[c].kind = "PlaceSprite" =>
  /\ placed[cmd[c].placement] = [canvas |-> cmd[c].canvas, sprite |-> cmd[c].sprite]
  /\ \A d \in Clients \ {c} : cmd[d].placement # cmd[c].placement
Moving(c) == cmd[c].kind \in {"MovePlacement", "DestroyPlacement"}
  => placementNodes[cmd[c].placement] # <<>>
Freed(c) == cmd[c].kind = "DestroyPlacement" /\ at[c] = "unlink"
  => placed[cmd[c].placement] = Free

(* PlacementInv is the conjunction of its parts. *)
LEMMA PlacementParts ==
  /\ PlacementInv => /\ OneNode /\ OnCanvases
                     /\ \A c \in Clients : Placing(c) /\ Moving(c) /\ Freed(c)
  /\ OneNode' /\ OnCanvases' /\ (\A c \in Clients : Placing(c)' /\ Moving(c)' /\ Freed(c)')
       => PlacementInv'
  BY DEF PlacementInv, OneNode, OnCanvases, Placing, Moving, Freed

(* The handles that the commands of the other threads have. *)
LEMMA OthersPlacements ==
  ASSUME Sane, OrderlyInv, NEW c \in Clients, Others(c), NEW d \in Clients \ {c},
         cmd[d].placement \in Placements /\ placementNodes[cmd[d].placement] # <<>>
            => placementNodes'[cmd[d].placement] # <<>>,
         at[d] = "enter" /\ cmd[d].kind = "PlaceSprite"
            => /\ placed'[cmd[d].placement] = placed[cmd[d].placement]
               /\ cmd'[c].placement # cmd[d].placement,
         at[d] = "unlink" /\ cmd[d].kind = "DestroyPlacement"
            => placed'[cmd[d].placement] = placed[cmd[d].placement]
  PROVE  Placing(d)' /\ Moving(d)' /\ Freed(d)'
<1>1. /\ at'[d] = at[d] /\ cmd'[d] = cmd[d] /\ Placing(d) /\ Moving(d) /\ Freed(d)
      /\ \A e \in Clients \ {c} : cmd'[e] = cmd[e]
  BY PlacementParts DEF Others, OrderlyInv
<1>2. cmd[d].kind \in {"MovePlacement", "DestroyPlacement"} => cmd[d].placement \in Placements
  BY Command DEF Shaped, Commands
<1>3. Placing(d)'
  BY <1>1 DEF Placing
<1>4. Moving(d)'
  BY <1>1, <1>2 DEF Moving
<1>5. Freed(d)'
  BY <1>1 DEF Freed
<1> QED
  BY <1>3, <1>4, <1>5

(* A new placement is one that nobody can name. *)
LEMMA NewUnnamed ==
  ASSUME Sane, OrderlyInv, NEW d \in Clients, at[d] = "enter", cmd[d].kind = "PlaceSprite"
  PROVE  /\ cmd[d].placement \in Placements /\ cmd[d].placement # None
         /\ placementNodes[cmd[d].placement] = <<>>
         /\ placed[cmd[d].placement] # Free
         /\ cmd[d].canvas \in Canvases /\ cmd[d].sprite \in Sprites
         /\ placed[cmd[d].placement] = [canvas |-> cmd[d].canvas, sprite |-> cmd[d].sprite]
<1>1. /\ cmd[d].placement \in Placements /\ cmd[d].placement # None
      /\ cmd[d].canvas \in Canvases /\ cmd[d].sprite \in Sprites /\ cmd[d].canvas # None
  BY Command DEF Shaped, Commands, OnCanvas
<1>2. placementNodes[cmd[d].placement] = <<>>
  BY <1>1 DEF OrderlyInv, PlacementNodesInv, NewPlacement
<1>3. placed[cmd[d].placement] = [canvas |-> cmd[d].canvas, sprite |-> cmd[d].sprite]
  BY PlacementParts DEF OrderlyInv, Placing
<1>4. placed[cmd[d].placement].canvas # Free.canvas
  BY <1>1, <1>3 DEF Free
<1> QED
  BY <1>1, <1>2, <1>3, <1>4

(* A step of c that leaves placements and canvases as they are. *)
LEMMA PlacementsQuiet ==
  ASSUME Sane, OrderlyInv, NEW c \in Clients, Others(c),
         UNCHANGED <<placementNodes, placed, canvases>>,
         at[c] = "enter" => cmd[c].kind # "PlaceSprite",
         at[c] = "unlink" => cmd[c].kind # "DestroyPlacement",
         at'[c] = "enter" => cmd'[c].kind \notin {"CreateCanvas", "PlaceSprite"},
         at'[c] = "unlink" => cmd'[c].kind # "DestroyPlacement",
         cmd'[c].placement = None \/ placementNodes[cmd'[c].placement] # <<>>,
         cmd'[c].kind \in {"MovePlacement", "DestroyPlacement"}
            => placementNodes[cmd'[c].placement] # <<>>
  PROVE  PlacementInv' /\ PlacementNodesInv'
<1>1. OneNode' /\ OnCanvases'
  <2>1. OneNode /\ OnCanvases
    BY PlacementParts DEF OrderlyInv
  <2>2. \A d \in Clients : at'[d] = "enter" /\ cmd'[d].kind = "CreateCanvas"
           => at[d] = "enter" /\ cmd'[d] = cmd[d]
    BY DEF Others
  <2> QED
    BY <2>1, <2>2 DEF OneNode, OnCanvases
<1>2. \A d \in Clients \ {c} : Placing(d)' /\ Moving(d)' /\ Freed(d)'
  <2> SUFFICES ASSUME NEW d \in Clients \ {c} PROVE Placing(d)' /\ Moving(d)' /\ Freed(d)'
    OBVIOUS
  <2>1. at[d] = "enter" /\ cmd[d].kind = "PlaceSprite" => cmd'[c].placement # cmd[d].placement
    BY NewUnnamed
  <2> QED
    BY <2>1, OthersPlacements
<1>3. Placing(c)' /\ Moving(c)' /\ Freed(c)'
  BY DEF Placing, Moving, Freed
<1>4. PlacementInv'
  BY <1>1, <1>2, <1>3, PlacementParts
<1>5. \A p \in Placements :
        (NewPlacement(p)' <=> NewPlacement(p)) /\ (OldPlacement(p)' <=> OldPlacement(p))
  BY PlacementMarks, OldPlacementMarks
<1>6. PlacementNodesInv'
  BY <1>5 DEF OrderlyInv, PlacementNodesInv
<1> QED
  BY <1>4, <1>6

(* A step that concerns one placement. *)
LEMMA PlacementNodesAt ==
  ASSUME PlacementNodesInv, NEW p \in Placements,
         \A x \in Placements \ {p} : /\ placementNodes'[x] = placementNodes[x]
                                     /\ placed'[x] = placed[x]
                                     /\ NewPlacement(x)' <=> NewPlacement(x)
                                     /\ OldPlacement(x)' <=> OldPlacement(x),
         NewPlacement(p)' => placementNodes'[p] = <<>>,
         ~NewPlacement(p)' /\ ~OldPlacement(p)' =>
            placementNodes'[p] = IF placed'[p] = Free THEN <<>> ELSE <<placed'[p].canvas>>
  PROVE  PlacementNodesInv'
  BY DEF PlacementNodesInv

(* A new canvas has nothing on it. *)
LEMMA LibCreatePlacements ==
  ASSUME Sane, OrderlyInv, NEW c \in Clients, LibCreate(c)
  PROVE  PlacementInv' /\ PlacementNodesInv'
<1>1. /\ Others(c) /\ at[c] = "act" /\ at'[c] = "enter" /\ cmd'[c].kind = cmd[c].kind
      /\ UNCHANGED <<placementNodes, placed>> /\ cmd'[c].placement = None
      /\ cmd[c].kind \in {"CreateCanvas", "CreateSprite"}
  BY Created DEF registries
<1>2. CASE cmd[c].kind = "CreateCanvas"
  <2>1. PICK k \in Canvases \ canvases : canvases' = canvases \union {k} /\ cmd'[c].canvas = k
    BY <1>2, Created
  <2>2. OneNode' /\ OnCanvases'
    <3>1. OneNode /\ OnCanvases
      BY PlacementParts DEF OrderlyInv
    <3>2. OneNode'
      BY <1>1, <3>1 DEF OneNode
    <3>3. ASSUME NEW p \in Placements, placed[p] # Free, NEW d \in Clients, at'[d] = "enter",
                 cmd'[d].kind = "CreateCanvas"
          PROVE  cmd'[d].canvas # placed[p].canvas
      BY <1>1, <2>1, <3>1, <3>3 DEF OnCanvases, Others
    <3> QED
      BY <1>1, <2>1, <3>1, <3>2, <3>3 DEF OnCanvases
  <2>3. \A d \in Clients \ {c} : Placing(d)' /\ Moving(d)' /\ Freed(d)'
    BY <1>1, NewUnnamed, OthersPlacements
  <2>4. Placing(c)' /\ Moving(c)' /\ Freed(c)'
    BY <1>1 DEF Placing, Moving, Freed
  <2>5. PlacementInv'
    BY <2>2, <2>3, <2>4, PlacementParts
  <2>6. \A p \in Placements :
          (NewPlacement(p)' <=> NewPlacement(p)) /\ (OldPlacement(p)' <=> OldPlacement(p))
    BY <1>1, PlacementMarks, OldPlacementMarks
  <2>7. PlacementNodesInv'
    BY <1>1, <2>6 DEF OrderlyInv, PlacementNodesInv
  <2> QED
    BY <2>5, <2>7
<1>3. CASE cmd[c].kind = "CreateSprite"
  BY <1>1, <1>3, Created, PlacementsQuiet
<1> QED
  BY <1>1, <1>2, <1>3

(* A new placement: without a node, on a canvas that is there and entered. *)
LEMMA LibPlacePlacements ==
  ASSUME Sane, OrderlyInv, NEW c \in Clients, LibPlace(c)
  PROVE  SpriteInv' /\ SpriteNodesInv' /\ PlacementInv' /\ PlacementNodesInv'
<1>1. /\ Others(c) /\ at[c] = "act" /\ at'[c] = "enter" /\ animateLock = None
      /\ cmd[c].kind = "PlaceSprite" /\ cmd'[c].kind = "PlaceSprite"
      /\ cmd'[c].canvas = cmd[c].canvas /\ cmd'[c].sprite = cmd[c].sprite
      /\ UNCHANGED <<placementNodes, spriteNodes, canvases, sprites, spriteOf>>
      /\ cmd[c].canvas \in Canvases /\ cmd[c].sprite \in Sprites /\ cmd[c].canvas # None
  BY Laid, ObjectsAssumption DEF registries
<1>2. PICK p \in Placements :
        /\ placed[p] = Free /\ cmd'[c].placement = p
        /\ placed'[p] = [canvas |-> cmd[c].canvas, sprite |-> cmd[c].sprite]
        /\ \A x \in Placements \ {p} : placed'[x] = placed[x]
  BY Laid
<1>3. /\ placementNodes[p] = <<>> /\ ~NewPlacement(p) /\ ~OldPlacement(p)
      /\ \A d \in Clients : cmd[d].placement # p
  BY <1>1, <1>2, FreePlacement
<1>4. /\ spriteOf[cmd[c].sprite] # None
      /\ cmd[c].canvas \in canvases /\ Holding(cmd[c].canvas) = {}
  <2>1. cmd[c].canvas \in NamedCanvases(cmd[c])
    BY <1>1, Command, NamedTyped DEF Sane
  <2>2. cmd[c].sprite # None
    BY <1>1, ObjectsAssumption
  <2> QED
    BY <1>1, <2>1, <2>2, HeldCanvas, HeldSprite
<1>5. SpriteInv'
  <2>1. \A s \in Sprites : spriteOf'[s] # None => s \in sprites'
    BY <1>1 DEF OrderlyInv, SpriteInv
  <2>2. \A x \in Placements : placed'[x] # Free =>
          placed'[x].sprite \in Sprites /\ spriteOf'[placed'[x].sprite] # None
    BY <1>1, <1>2, <1>4 DEF OrderlyInv, SpriteInv
  <2>3. \A d \in Clients : at'[d] = "enter" /\ cmd'[d].kind = "CreateSprite" =>
         /\ cmd'[d].sprite \in sprites' /\ spriteOf'[cmd'[d].sprite] = None
         /\ \A e \in Clients \ {d} : at'[e] = "enter" /\ cmd'[e].kind = "CreateSprite"
                                     => cmd'[e].sprite # cmd'[d].sprite
    BY <1>1 DEF OrderlyInv, SpriteInv, Others
  <2> QED
    BY <2>1, <2>2, <2>3 DEF SpriteInv
<1>6. SpriteNodesInv'
  BY <1>1, SpriteNodesQuiet DEF OrderlyInv
<1>7. OneNode' /\ OnCanvases'
  <2>1. OneNode /\ OnCanvases
    BY PlacementParts DEF OrderlyInv
  <2>2. OneNode'
    BY <1>1, <2>1 DEF OneNode
  <2>3. \A d \in Clients : at'[d] = "enter" /\ cmd'[d].kind = "CreateCanvas"
           => at[d] = "enter" /\ cmd'[d] = cmd[d] /\ cmd[d].kind = "CreateCanvas"
    BY <1>1 DEF Others
  <2>4. \A d \in Clients : at[d] = "enter" /\ cmd[d].kind = "CreateCanvas"
           => cmd[d].canvas # cmd[c].canvas
    BY <1>4 DEF Holding, Holder
  <2>5. placed'[p].canvas = cmd[c].canvas
    BY <1>2
  <2> QED
    BY <1>1, <1>2, <1>4, <2>1, <2>2, <2>3, <2>4, <2>5 DEF OnCanvases
<1>8. ASSUME NEW d \in Clients \ {c} PROVE Placing(d)' /\ Moving(d)' /\ Freed(d)'
  <2>1. /\ cmd[d].placement # p
        /\ at[d] = "enter" /\ cmd[d].kind = "PlaceSprite" => cmd[d].placement \in Placements
        /\ cmd[d].kind = "DestroyPlacement" => cmd[d].placement \in Placements
    BY <1>3, Command DEF Shaped, Commands
  <2> QED
    BY <1>1, <1>2, <2>1, OthersPlacements
<1>9. Placing(c)' /\ Moving(c)' /\ Freed(c)'
  BY <1>1, <1>2, <1>3 DEF Placing, Moving, Freed, Others
<1>10. PlacementInv'
  BY <1>7, <1>8, <1>9, PlacementParts
<1>11. PlacementNodesInv'
  <2>1. \A x \in Placements \ {p} : NewPlacement(x)' <=> NewPlacement(x)
    BY <1>1, <1>2, PlacementMarks
  <2>2. \A x \in Placements \ {p} : OldPlacement(x)' <=> OldPlacement(x)
    BY <1>1, OldPlacementMarks
  <2>3. NewPlacement(p)' /\ placementNodes'[p] = <<>>
    BY <1>1, <1>2, <1>3 DEF NewPlacement
  <2> QED
    BY <1>1, <1>2, <2>1, <2>2, <2>3, PlacementNodesAt DEF OrderlyInv
<1> QED
  BY <1>5, <1>6, <1>10, <1>11

(* The node of a new placement, which nobody else names. *)
LEMMA EnterPlacementPlacements ==
  ASSUME Sane, OrderlyInv, NEW c \in Clients, EnterPlacement(c), fault' = FALSE
  PROVE  PlacementInv' /\ PlacementNodesInv'
<1>1. PICK p : p = cmd[c].placement
  OBVIOUS
<1>2. /\ at[c] = "enter" /\ cmd[c].kind = "PlaceSprite" /\ Replies(c)
      /\ UNCHANGED <<placed, canvases>>
  BY DEF EnterPlacement, Steps, library
<1>3. /\ Others(c) /\ at'[c] = "ready" /\ cmd'[c] = NoCmd
  BY <1>2, Replied
<1>4. /\ p \in Placements /\ p # None /\ placementNodes[p] = <<>> /\ placed[p] # Free
      /\ cmd[c].canvas \in Canvases /\ placed[p].canvas = cmd[c].canvas
      /\ \A d \in Clients \ {c} : cmd[d].placement # p
  <2>1. /\ p \in Placements /\ p # None /\ placementNodes[p] = <<>> /\ placed[p] # Free
        /\ cmd[c].canvas \in Canvases
        /\ placed[p] = [canvas |-> cmd[c].canvas, sprite |-> cmd[c].sprite]
    BY <1>1, <1>2, NewUnnamed
  <2>2. placed[p].canvas = cmd[c].canvas
    BY <2>1
  <2>3. \A d \in Clients \ {c} : cmd[d].placement # p
    BY <1>1, <1>2, PlacementParts DEF OrderlyInv, Placing
  <2> QED
    BY <2>1, <2>2, <2>3
<1>5. /\ placementNodes'[p] = <<cmd[c].canvas>>
      /\ \A x \in Placements \ {p} : placementNodes'[x] = placementNodes[x]
  <2>1. placementNodes'[p] = <<cmd[c].canvas>> \o placementNodes[p]
    BY <1>1, <1>4 DEF EnterPlacement, Sane, ObjectTypes
  <2>2. <<cmd[c].canvas>> \o <<>> = <<cmd[c].canvas>>
    OBVIOUS
  <2>3. \A x \in Placements \ {p} : placementNodes'[x] = placementNodes[x]
    BY <1>1, <1>4 DEF EnterPlacement, Sane, ObjectTypes
  <2> QED
    BY <1>4, <2>1, <2>2, <2>3
<1>6. OneNode' /\ OnCanvases'
  <2>1. OneNode /\ OnCanvases
    BY PlacementParts DEF OrderlyInv
  <2>2. OneNode'
    BY <1>4, <1>5, <2>1 DEF OneNode
  <2>3. \A d \in Clients : at'[d] = "enter" /\ cmd'[d].kind = "CreateCanvas"
           => at[d] = "enter" /\ cmd'[d] = cmd[d]
    BY <1>3 DEF Others
  <2> QED
    BY <1>2, <2>1, <2>2, <2>3 DEF OnCanvases
<1>7. ASSUME NEW d \in Clients \ {c} PROVE Placing(d)' /\ Moving(d)' /\ Freed(d)'
  <2>1. cmd[d].placement \in Placements /\ placementNodes[cmd[d].placement] # <<>>
          => placementNodes'[cmd[d].placement] # <<>>
    BY <1>4, <1>5
  <2>2. at[d] = "enter" /\ cmd[d].kind = "PlaceSprite" => cmd'[c].placement # cmd[d].placement
    <3>1. at[d] = "enter" /\ cmd[d].kind = "PlaceSprite" => cmd[d].placement # None
      BY NewUnnamed
    <3>2. cmd'[c].placement = None
      BY <1>3 DEF NoCmd
    <3> QED
      BY <3>1, <3>2
  <2> QED
    BY <1>2, <1>3, <2>1, <2>2, OthersPlacements
<1>8. Placing(c)' /\ Moving(c)' /\ Freed(c)'
  BY <1>3, ObjectsAssumption DEF Placing, Moving, Freed, NoCmd, Kinds, Uses, Destroys
<1>9. PlacementInv'
  BY <1>6, <1>7, <1>8, PlacementParts
<1>10. PlacementNodesInv'
  <2>1. \A x \in Placements \ {p} : NewPlacement(x)' <=> NewPlacement(x)
    BY <1>1, <1>3, PlacementMarks
  <2>2. \A x \in Placements \ {p} : OldPlacement(x)' <=> OldPlacement(x)
    BY <1>2, <1>3, OldPlacementMarks
  <2>3. ~NewPlacement(p)'
    BY <1>3, <1>4 DEF NewPlacement, Others
  <2> QED
    BY <1>2, <1>4, <1>5, <2>1, <2>2, <2>3, PlacementNodesAt DEF OrderlyInv
<1> QED
  BY <1>9, <1>10

(* The library frees a placement: its node goes before animate_lock does,  *)
(* and no other command names it.                                          *)
LEMMA LibDestroyPlacementPlacements ==
  ASSUME Sane, OrderlyInv, NEW c \in Clients, LibDestroyPlacement(c)
  PROVE  SpriteInv' /\ SpriteNodesInv' /\ PlacementInv' /\ PlacementNodesInv'
<1>1. PICK p : p = cmd[c].placement
  OBVIOUS
<1>2. /\ at[c] = "act" /\ cmd[c].kind = "DestroyPlacement" /\ Goes(c, "unlink")
      /\ UNCHANGED <<placementNodes, spriteNodes, canvases, sprites, spriteOf>>
      /\ placed' = [placed EXCEPT ![p] = Free] /\ animateLock = None
  BY <1>1 DEF LibDestroyPlacement, Steps, registries
<1>3. Others(c) /\ at'[c] = "unlink" /\ cmd'[c] = cmd[c]
  BY <1>2, Gone
<1>4. /\ p \in Placements /\ ~NewPlacement(p) /\ ~OldPlacement(p)
      /\ placementNodes[p] # <<>>
  BY <1>1, <1>2, HeldPlacement DEF OrderlyInv, PlacementInv
<1>5. placed'[p] = Free /\ \A x \in Placements \ {p} : placed'[x] = placed[x]
  BY <1>2, <1>4 DEF Sane, ObjectTypes
<1>6. SpriteInv' /\ SpriteNodesInv'
  <2>1. \A x \in Placements : placed'[x] \in {placed[x], Free}
    BY <1>5
  <2> QED
    BY <1>2, <1>3, <2>1, SpritesQuiet, SpriteNodesQuiet DEF OrderlyInv
<1>7. OneNode' /\ OnCanvases'
  <2>1. OneNode /\ OnCanvases
    BY PlacementParts DEF OrderlyInv
  <2>2. OneNode'
    BY <1>2, <2>1 DEF OneNode
  <2>3. \A d \in Clients : at'[d] = "enter" /\ cmd'[d].kind = "CreateCanvas"
           => at[d] = "enter" /\ cmd'[d] = cmd[d]
    BY <1>3 DEF Others
  <2> QED
    BY <1>2, <1>4, <1>5, <2>1, <2>2, <2>3 DEF OnCanvases
<1>8. ASSUME NEW d \in Clients \ {c} PROVE Placing(d)' /\ Moving(d)' /\ Freed(d)'
  <2>1. at[d] = "enter" /\ cmd[d].kind = "PlaceSprite" =>
           /\ cmd[d].placement \in Placements \ {p} /\ cmd'[c].placement # cmd[d].placement
    BY <1>1, <1>3, <1>4, NewUnnamed
  <2>2. ~(at[d] = "unlink" /\ cmd[d].kind = "DestroyPlacement")
    BY <1>2, Command DEF Sane, HandlerInv
  <2> QED
    BY <1>2, <1>3, <1>5, <2>1, <2>2, OthersPlacements
<1>9. Placing(c)' /\ Moving(c)' /\ Freed(c)'
  BY <1>1, <1>2, <1>3, <1>4, <1>5 DEF Placing, Moving, Freed
<1>10. PlacementInv'
  BY <1>7, <1>8, <1>9, PlacementParts
<1>11. PlacementNodesInv'
  <2>1. \A x \in Placements : NewPlacement(x)' <=> NewPlacement(x)
    BY <1>2, <1>3, PlacementMarks
  <2>2. \A x \in Placements \ {p} : OldPlacement(x)' <=> OldPlacement(x)
    BY <1>1, <1>2, <1>3, OldPlacementMarks
  <2>3. OldPlacement(p)'
    BY <1>1, <1>2, <1>3 DEF OldPlacement
  <2> QED
    BY <1>2, <1>4, <1>5, <2>1, <2>2, <2>3, PlacementNodesAt DEF OrderlyInv
<1> QED
  BY <1>6, <1>10, <1>11

(* The node of the freed placement goes before animate_lock does. *)
LEMMA UnlinkPlacementPlacements ==
  ASSUME Sane, OrderlyInv, NEW c \in Clients, UnlinkPlacement(c), Thread(c), fault' = FALSE
  PROVE  PlacementInv' /\ PlacementNodesInv'
<1>1. PICK p : p = cmd[c].placement
  OBVIOUS
<1>2. /\ at[c] = "unlink" /\ cmd[c].kind = "DestroyPlacement" /\ Replies(c)
      /\ UNCHANGED <<placed, canvases>>
  BY DEF UnlinkPlacement, Steps, library
<1>3. Others(c) /\ at'[c] = "ready" /\ cmd'[c] = NoCmd
  BY <1>2, Replied
<1>4. p \in Placements /\ placed[p] = Free /\ OneNode
  <2>1. p \in Placements
    BY <1>1, <1>2, Command DEF Shaped, Commands
  <2> QED
    BY <1>1, <1>2, <2>1, PlacementParts DEF OrderlyInv, Freed
<1>5. /\ placementNodes'[p] = <<>>
      /\ \A x \in Placements \ {p} : placementNodes'[x] = placementNodes[x]
  <2>1. /\ placementNodes'[p] = IF placementNodes[p] = <<>> THEN <<>> ELSE Tail(placementNodes[p])
        /\ \A x \in Placements \ {p} : placementNodes'[x] = placementNodes[x]
    BY <1>1, <1>4 DEF UnlinkPlacement, Unlinked, Sane, ObjectTypes
  <2>2. placementNodes[p] = <<>> \/ \E k \in Canvases : placementNodes[p] = <<k>>
    BY <1>4 DEF OneNode
  <2>3. \A k : Tail(<<k>>) = <<>>
    OBVIOUS
  <2> QED
    BY <2>1, <2>2, <2>3
<1>6. OneNode' /\ OnCanvases'
  <2>1. OnCanvases
    BY PlacementParts DEF OrderlyInv
  <2>2. OneNode'
    BY <1>4, <1>5 DEF OneNode
  <2>3. \A d \in Clients : at'[d] = "enter" /\ cmd'[d].kind = "CreateCanvas"
           => at[d] = "enter" /\ cmd'[d] = cmd[d]
    BY <1>3 DEF Others
  <2> QED
    BY <1>2, <2>1, <2>2, <2>3 DEF OnCanvases
<1>7. ASSUME NEW d \in Clients \ {c} PROVE Placing(d)' /\ Moving(d)' /\ Freed(d)'
  <2>1. cmd[d].placement \in Placements /\ placementNodes[cmd[d].placement] # <<>>
          => placementNodes'[cmd[d].placement] # <<>>
    BY NamesKept
  <2>2. at[d] = "enter" /\ cmd[d].kind = "PlaceSprite" => cmd'[c].placement # cmd[d].placement
    <3>1. at[d] = "enter" /\ cmd[d].kind = "PlaceSprite" => cmd[d].placement # None
      BY NewUnnamed
    <3>2. cmd'[c].placement = None
      BY <1>3 DEF NoCmd
    <3> QED
      BY <3>1, <3>2
  <2> QED
    BY <1>2, <1>3, <2>1, <2>2, OthersPlacements
<1>8. Placing(c)' /\ Moving(c)' /\ Freed(c)'
  BY <1>3, ObjectsAssumption DEF Placing, Moving, Freed, NoCmd, Kinds, Uses, Destroys
<1>9. PlacementInv'
  BY <1>6, <1>7, <1>8, PlacementParts
<1>10. PlacementNodesInv'
  <2>1. \A x \in Placements : NewPlacement(x)' <=> NewPlacement(x)
    BY <1>2, <1>3, PlacementMarks
  <2>2. \A x \in Placements \ {p} : OldPlacement(x)' <=> OldPlacement(x)
    BY <1>1, <1>3, OldPlacementMarks
  <2> QED
    BY <1>2, <1>4, <1>5, <2>1, <2>2, PlacementNodesAt DEF OrderlyInv
<1> QED
  BY <1>9, <1>10

(* Every placement on the canvas goes, with its node. *)
LEMMA DeleteCanvasPlacements ==
  ASSUME Sane, OrderlyInv, NEW c \in Clients, DeleteCanvas(c), Thread(c), fault' = FALSE
  PROVE  SpriteInv' /\ SpriteNodesInv' /\ PlacementInv' /\ PlacementNodesInv'
<1>1. PICK k : k = cmd[c].canvas
  OBVIOUS
<1>2. /\ at[c] = "delete" /\ cmd[c].kind = "DestroyCanvas" /\ Replies(c)
      /\ UNCHANGED <<spriteNodes, sprites, spriteOf>> /\ canvases' = canvases \ {k}
      /\ \A p \in Placements :
           /\ placed'[p] = IF placed[p].canvas = k THEN Free ELSE placed[p]
           /\ placementNodes'[p] = Without(placementNodes[p], k)
  BY <1>1 DEF DeleteCanvas, Steps, CanvasNodeDelete
<1>3. Others(c) /\ at'[c] = "ready" /\ cmd'[c] = NoCmd
  BY <1>2, Replied
<1>4. SpriteInv' /\ SpriteNodesInv'
  <2>1. \A x \in Placements : placed'[x] \in {placed[x], Free}
    BY <1>2
  <2> QED
    BY <1>2, <1>3, <2>1, SpritesQuiet, SpriteNodesQuiet DEF OrderlyInv
<1>5. OneNode /\ OnCanvases
  BY PlacementParts DEF OrderlyInv
<1>6. ASSUME NEW p \in Placements
      PROVE  /\ placementNodes[p] = <<>> => placementNodes'[p] = <<>>
             /\ \A j \in Canvases : placementNodes[p] = <<j>>
                  => placementNodes'[p] = IF j = k THEN <<>> ELSE <<j>>
  <2>1. Without(<<>>, k) = <<>>
    <3>1. <<>> \in Seq(Canvases)
      OBVIOUS
    <3> QED
      BY <3>1, WithoutOf
  <2> QED
    BY <1>2, <2>1, WithoutOne
<1>7. OneNode' /\ OnCanvases'
  <2>1. OneNode'
    BY <1>5, <1>6 DEF OneNode
  <2>2. \A d \in Clients : at'[d] = "enter" /\ cmd'[d].kind = "CreateCanvas"
           => at[d] = "enter" /\ cmd'[d] = cmd[d]
    BY <1>3 DEF Others
  <2>3. \A p \in Placements : placed'[p] # Free =>
          placed[p] # Free /\ placed'[p] = placed[p] /\ placed[p].canvas # k
    BY <1>2
  <2> QED
    BY <1>2, <1>5, <2>1, <2>2, <2>3 DEF OnCanvases
<1>8. ASSUME NEW d \in Clients \ {c} PROVE Placing(d)' /\ Moving(d)' /\ Freed(d)'
  <2>1. cmd[d].placement \in Placements /\ placementNodes[cmd[d].placement] # <<>>
          => placementNodes'[cmd[d].placement] # <<>>
    BY NamesKept
  <2>2. at[d] = "enter" /\ cmd[d].kind = "PlaceSprite" =>
          /\ cmd'[c].placement # cmd[d].placement
          /\ placed'[cmd[d].placement] = placed[cmd[d].placement]
    <3>1. SUFFICES ASSUME at[d] = "enter", cmd[d].kind = "PlaceSprite"
                   PROVE  /\ cmd'[c].placement # cmd[d].placement
                          /\ placed'[cmd[d].placement] = placed[cmd[d].placement]
      OBVIOUS
    <3>2. /\ cmd[d].placement \in Placements /\ cmd[d].placement # None
          /\ placed[cmd[d].placement].canvas = cmd[d].canvas
          /\ cmd[d].canvas \in Canvases /\ cmd[d].canvas # None
      <4>1. /\ cmd[d].placement \in Placements /\ cmd[d].placement # None
            /\ placed[cmd[d].placement] = [canvas |-> cmd[d].canvas, sprite |-> cmd[d].sprite]
            /\ cmd[d].canvas \in Canvases
        BY <3>1, NewUnnamed
      <4>2. placed[cmd[d].placement].canvas = cmd[d].canvas
        BY <4>1
      <4> QED
        BY <4>1, <4>2, ObjectsAssumption
    <3>3. cmd[d].canvas \in NamedCanvases(cmd[d])
      BY <3>2 DEF NamedCanvases
    <3>4. cmd[d].canvas # k
      BY <1>1, <1>2, <3>3, DeletedUnnamed
    <3> QED
      BY <1>2, <1>3, <3>2, <3>4 DEF NoCmd
  <2>3. at[d] = "unlink" /\ cmd[d].kind = "DestroyPlacement"
          => placed'[cmd[d].placement] = placed[cmd[d].placement]
    <3>1. SUFFICES ASSUME at[d] = "unlink", cmd[d].kind = "DestroyPlacement"
                   PROVE  placed'[cmd[d].placement] = placed[cmd[d].placement]
      OBVIOUS
    <3>2. cmd[d].placement \in Placements
      BY <3>1, Command DEF Shaped, Commands
    <3>3. placed[cmd[d].placement] = Free
      BY <3>1, PlacementParts DEF OrderlyInv, Freed
    <3> QED
      BY <1>2, <3>2, <3>3
  <2> QED
    BY <1>3, <2>1, <2>2, <2>3, OthersPlacements
<1>9. Placing(c)' /\ Moving(c)' /\ Freed(c)'
  BY <1>3, ObjectsAssumption DEF Placing, Moving, Freed, NoCmd, Kinds, Uses, Destroys
<1>10. PlacementInv'
  BY <1>7, <1>8, <1>9, PlacementParts
<1>11. PlacementNodesInv'
  <2>1. \A p \in Placements :
          (NewPlacement(p)' <=> NewPlacement(p)) /\ (OldPlacement(p)' <=> OldPlacement(p))
    BY <1>2, <1>3, PlacementMarks, OldPlacementMarks
  <2>2. ASSUME NEW p \in Placements, ~NewPlacement(p), ~OldPlacement(p)
        PROVE  placementNodes'[p] = IF placed'[p] = Free THEN <<>> ELSE <<placed'[p].canvas>>
    <3>1. placementNodes[p] = IF placed[p] = Free THEN <<>> ELSE <<placed[p].canvas>>
      BY <2>2 DEF OrderlyInv, PlacementNodesInv
    <3>2. CASE placed[p] = Free
      BY <1>2, <1>6, <3>1, <3>2
    <3>3. CASE placed[p] # Free
      <4>1. placed[p].canvas \in Canvases
        BY <1>5, <3>3 DEF OnCanvases, Sane, ObjectTypes
      <4>2. placementNodes'[p] = IF placed[p].canvas = k THEN <<>> ELSE <<placed[p].canvas>>
        BY <1>6, <3>1, <3>3, <4>1
      <4> QED
        BY <1>2, <3>3, <4>2
    <3> QED
      BY <3>2, <3>3
  <2>3. \A p \in Placements : NewPlacement(p) => placementNodes'[p] = <<>>
    BY <1>6 DEF OrderlyInv, PlacementNodesInv
  <2> QED
    BY <2>1, <2>2, <2>3 DEF PlacementNodesInv
<1> QED
  BY <1>4, <1>10, <1>11

(* The new object is destroyed again: nothing else is, for nothing else    *)
(* knows of it.                                                            *)
LEMMA EnterFailsObjects ==
  ASSUME Sane, OrderlyInv, NEW c \in Clients, EnterFails(c), Thread(c), fault' = FALSE
  PROVE  SpriteInv' /\ SpriteNodesInv' /\ PlacementInv' /\ PlacementNodesInv'
<1>1. /\ at[c] = "enter" /\ cmd[c].kind \in {"CreateCanvas", "CreateSprite", "PlaceSprite"}
      /\ Replies(c) /\ UNCHANGED <<spriteNodes, placementNodes, spriteOf>>
      /\ canvases' = IF cmd[c].kind = "CreateCanvas" THEN canvases \ Touched(c) ELSE canvases
      /\ sprites' = sprites \ {s \in Touched(c) : \A p \in Placements : placed[p].sprite # s}
      /\ \A p \in Placements : placed'[p] = IF {p, placed[p].canvas} \intersect Touched(c) # {}
                                            THEN Free ELSE placed[p]
  BY DEF EnterFails, Steps, registries, Creates
<1>2. Others(c) /\ at'[c] = "ready" /\ cmd'[c] = NoCmd /\ cmd'[c].placement = None
  BY <1>1, Replied DEF NoCmd
<1>3. /\ Canvases \intersect Sprites = {} /\ Canvases \intersect Placements = {}
      /\ Sprites \intersect Placements = {}
      /\ None \notin Canvases \union Sprites \union Placements
      /\ canvases \subseteq Canvases /\ sprites \subseteq Sprites
      /\ \A p \in Placements : /\ placed[p].canvas \in Canvases \union {None}
                               /\ placed[p].sprite \in Sprites \union {None}
  BY ObjectsAssumption DEF Sane, ObjectTypes
<1>4. OneNode /\ OnCanvases
  BY PlacementParts DEF OrderlyInv
<1>5. OneNode'
  BY <1>1, <1>4 DEF OneNode
<1>6. Placing(c)' /\ Moving(c)' /\ Freed(c)'
  BY <1>2, ObjectsAssumption DEF Placing, Moving, Freed, NoCmd, Kinds, Uses, Destroys
<1>7. \A d \in Clients \ {c} : at[d] = "enter" /\ cmd[d].kind = "PlaceSprite"
         => cmd'[c].placement # cmd[d].placement
  BY <1>2, NewUnnamed
<1>8. \A d \in Clients : at'[d] = "enter" /\ cmd'[d].kind = "CreateCanvas"
           => d # c /\ at[d] = "enter" /\ cmd'[d] = cmd[d] /\ cmd[d].kind = "CreateCanvas"
  BY <1>2 DEF Others
<1>9. CASE cmd[c].kind = "CreateCanvas"
  <2>1. PICK k : k = cmd[c].canvas
    OBVIOUS
  <2>2. Touched(c) = {k} /\ k \in Canvases
    BY <1>1, <1>9, <2>1, Command DEF Touched, Shaped, Commands
  <2>3. \A p \in Placements : placed[p].canvas # k
    <3>1. \A p \in Placements : placed[p] # Free => placed[p].canvas # k
      BY <1>1, <1>4, <1>9, <2>1 DEF OnCanvases
    <3>2. Free.canvas # k
      BY <1>3, <2>2 DEF Free
    <3> QED
      BY <3>1, <3>2
  <2>4. UNCHANGED sprites /\ \A p \in Placements : placed'[p] = placed[p]
    <3>1. k \notin sprites /\ k \notin Placements
      BY <1>3, <2>2
    <3> QED
      BY <1>1, <2>2, <2>3, <3>1
  <2>5. SpriteInv' /\ SpriteNodesInv'
    BY <1>1, <1>2, <1>9, <2>4, SpritesQuiet, SpriteNodesQuiet DEF OrderlyInv
  <2>6. OnCanvases'
    BY <1>1, <1>4, <1>8, <1>9, <2>2, <2>3, <2>4 DEF OnCanvases
  <2>7. \A d \in Clients \ {c} : Placing(d)' /\ Moving(d)' /\ Freed(d)'
    <3> SUFFICES ASSUME NEW d \in Clients \ {c} PROVE Placing(d)' /\ Moving(d)' /\ Freed(d)'
      OBVIOUS
    <3>1. /\ at[d] = "enter" /\ cmd[d].kind = "PlaceSprite" => cmd[d].placement \in Placements
          /\ cmd[d].kind = "DestroyPlacement" => cmd[d].placement \in Placements
      BY Command DEF Shaped, Commands
    <3> QED
      BY <1>1, <1>2, <1>7, <2>4, <3>1, OthersPlacements
  <2>8. PlacementInv'
    BY <1>5, <1>6, <2>6, <2>7, PlacementParts
  <2>9. \A p \in Placements :
          (NewPlacement(p)' <=> NewPlacement(p)) /\ (OldPlacement(p)' <=> OldPlacement(p))
    BY <1>1, <1>2, <1>9, PlacementMarks, OldPlacementMarks
  <2>10. PlacementNodesInv'
    BY <1>1, <2>4, <2>9 DEF OrderlyInv, PlacementNodesInv
  <2> QED
    BY <2>5, <2>8, <2>10
<1>10. CASE cmd[c].kind = "CreateSprite"
  <2>1. PICK s : s = cmd[c].sprite
    OBVIOUS
  <2>2. Touched(c) = {s} /\ s \in Sprites /\ s \in sprites /\ spriteOf[s] = None
    BY <1>1, <1>10, <2>1, Command DEF Touched, Shaped, Commands, OrderlyInv, SpriteInv
  <2>3. \A p \in Placements : placed[p].sprite # s
    <3>1. \A p \in Placements : placed[p] # Free => placed[p].sprite # s
      BY <2>2 DEF OrderlyInv, SpriteInv
    <3>2. Free.sprite # s
      BY <1>3, <2>2 DEF Free
    <3> QED
      BY <3>1, <3>2
  <2>4. /\ canvases' = canvases /\ sprites' = sprites \ {s}
        /\ \A p \in Placements : placed'[p] = placed[p]
    <3>1. \A p \in Placements : s \notin {p, placed[p].canvas}
      BY <1>3, <2>2
    <3>2. canvases' = canvases
      BY <1>1, <1>10
    <3>3. sprites' = sprites \ {s}
      BY <1>1, <2>2, <2>3
    <3> QED
      BY <1>1, <2>2, <3>1, <3>2, <3>3
  <2>5. \A d \in Clients \ {c} : at[d] = "enter" /\ cmd[d].kind = "CreateSprite"
                                 => cmd[d].sprite # s
    BY <1>1, <1>10, <2>1 DEF OrderlyInv, SpriteInv
  <2>6. SpriteInv'
    <3>1. \A x \in Sprites : spriteOf'[x] # None => x \in sprites'
      BY <1>1, <2>2, <2>4 DEF OrderlyInv, SpriteInv
    <3>2. \A p \in Placements : placed'[p] # Free =>
            placed'[p].sprite \in Sprites /\ spriteOf'[placed'[p].sprite] # None
      BY <1>1, <2>4 DEF OrderlyInv, SpriteInv
    <3>3. ASSUME NEW d \in Clients, at'[d] = "enter", cmd'[d].kind = "CreateSprite"
          PROVE  /\ cmd'[d].sprite \in sprites' /\ spriteOf'[cmd'[d].sprite] = None
                 /\ \A e \in Clients \ {d} : at'[e] = "enter" /\ cmd'[e].kind = "CreateSprite"
                                             => cmd'[e].sprite # cmd'[d].sprite
      <4>1. d # c /\ at[d] = "enter" /\ cmd'[d] = cmd[d] /\ cmd[d].kind = "CreateSprite"
        BY <1>2, <3>3 DEF Others
      <4> QED
        BY <1>1, <1>2, <2>4, <2>5, <4>1 DEF Others, OrderlyInv, SpriteInv
    <3> QED
      BY <3>1, <3>2, <3>3 DEF SpriteInv
  <2>7. SpriteNodesInv'
    <3>1. \A x \in Sprites \ {s} : NewSprite(x)' <=> NewSprite(x)
      BY <1>2, <2>1, SpriteMarks
    <3>2. \A x \in Sprites : OldSprite(x)' <=> OldSprite(x)
      BY <1>1, <1>2, OldSpriteMarks
    <3>3. NewSprite(s) /\ s \notin sprites'
      BY <1>1, <1>10, <2>1, <2>4 DEF NewSprite
    <3>4. Len(spriteNodes'[s]) = (IF s \in sprites' /\ ~NewSprite(s)' THEN 1 ELSE 0)
                                 + (IF OldSprite(s)' THEN 1 ELSE 0)
      <4>1. Len(spriteNodes[s]) = (IF s \in sprites /\ ~NewSprite(s) THEN 1 ELSE 0)
                                  + (IF OldSprite(s) THEN 1 ELSE 0)
        BY <2>2 DEF OrderlyInv, SpriteNodesInv
      <4> QED
        BY <1>1, <2>2, <3>2, <3>3, <4>1
    <3> QED
      BY <1>1, <2>2, <2>4, <3>1, <3>2, <3>4, SpriteNodesAt DEF OrderlyInv
  <2>8. OnCanvases'
    BY <1>4, <1>8, <2>4 DEF OnCanvases
  <2>9. \A d \in Clients \ {c} : Placing(d)' /\ Moving(d)' /\ Freed(d)'
    <3> SUFFICES ASSUME NEW d \in Clients \ {c} PROVE Placing(d)' /\ Moving(d)' /\ Freed(d)'
      OBVIOUS
    <3>1. /\ at[d] = "enter" /\ cmd[d].kind = "PlaceSprite" => cmd[d].placement \in Placements
          /\ cmd[d].kind = "DestroyPlacement" => cmd[d].placement \in Placements
      BY Command DEF Shaped, Commands
    <3> QED
      BY <1>1, <1>2, <1>7, <2>4, <3>1, OthersPlacements
  <2>10. PlacementInv'
    BY <1>5, <1>6, <2>8, <2>9, PlacementParts
  <2>11. \A p \in Placements :
           (NewPlacement(p)' <=> NewPlacement(p)) /\ (OldPlacement(p)' <=> OldPlacement(p))
    BY <1>1, <1>2, <1>10, PlacementMarks, OldPlacementMarks
  <2>12. PlacementNodesInv'
    BY <1>1, <2>4, <2>11 DEF OrderlyInv, PlacementNodesInv
  <2> QED
    BY <2>6, <2>7, <2>10, <2>12
<1>11. CASE cmd[c].kind = "PlaceSprite"
  <2>1. PICK p : p = cmd[c].placement
    OBVIOUS
  <2>2. /\ Touched(c) = {p} /\ p \in Placements /\ placementNodes[p] = <<>>
        /\ \A d \in Clients \ {c} : cmd[d].placement # p
    <3>1. p \in Placements /\ placementNodes[p] = <<>>
      BY <1>1, <1>11, <2>1, NewUnnamed
    <3>2. Touched(c) = {p}
      BY <1>1, <1>11, <2>1 DEF Touched
    <3>3. \A d \in Clients \ {c} : cmd[d].placement # p
      BY <1>1, <1>11, <2>1, PlacementParts DEF OrderlyInv, Placing
    <3> QED
      BY <3>1, <3>2, <3>3
  <2>3. /\ canvases' = canvases /\ sprites' = sprites
        /\ placed'[p] = Free /\ \A x \in Placements \ {p} : placed'[x] = placed[x]
    <3>1. p \notin sprites /\ \A x \in Placements \ {p} : p \notin {x, placed[x].canvas}
      BY <1>3, <2>2
    <3>2. canvases' = canvases
      BY <1>1, <1>11
    <3>3. sprites' = sprites
      BY <1>1, <2>2, <3>1
    <3> QED
      BY <1>1, <2>2, <3>1, <3>2, <3>3
  <2>4. SpriteInv' /\ SpriteNodesInv'
    <3>1. \A x \in Placements : placed'[x] \in {placed[x], Free}
      BY <2>3
    <3> QED
      BY <1>1, <1>2, <1>11, <2>3, <3>1, SpritesQuiet, SpriteNodesQuiet DEF OrderlyInv
  <2>5. OnCanvases'
    BY <1>4, <1>8, <2>3 DEF OnCanvases
  <2>6. \A d \in Clients \ {c} : Placing(d)' /\ Moving(d)' /\ Freed(d)'
    <3> SUFFICES ASSUME NEW d \in Clients \ {c} PROVE Placing(d)' /\ Moving(d)' /\ Freed(d)'
      OBVIOUS
    <3>1. /\ at[d] = "enter" /\ cmd[d].kind = "PlaceSprite" => cmd[d].placement \in Placements
          /\ cmd[d].kind = "DestroyPlacement" => cmd[d].placement \in Placements
          /\ cmd[d].placement # p
      BY <2>2, Command DEF Shaped, Commands
    <3> QED
      BY <1>1, <1>2, <1>7, <2>3, <3>1, OthersPlacements
  <2>7. PlacementInv'
    BY <1>5, <1>6, <2>5, <2>6, PlacementParts
  <2>8. PlacementNodesInv'
    <3>1. \A x \in Placements \ {p} : NewPlacement(x)' <=> NewPlacement(x)
      BY <1>2, <2>1, PlacementMarks
    <3>2. \A x \in Placements \ {p} : OldPlacement(x)' <=> OldPlacement(x)
      BY <1>1, <1>2, OldPlacementMarks
    <3> QED
      BY <1>1, <2>2, <2>3, <3>1, <3>2, PlacementNodesAt DEF OrderlyInv
  <2> QED
    BY <2>4, <2>7, <2>8
<1> QED
  BY <1>1, <1>9, <1>10, <1>11

-------------------------------------------------------------------------------
(* Steps of orderly behaviours *)

(* No library call touches what is not allocated. *)
LEMMA NoFault ==
  ASSUME Sane, OrderlyInv, NEW c \in Clients, Thread(c)
  PROVE  fault' = FALSE
<1>0. /\ fault = FALSE /\ Shaped(at[c], cmd[c]) /\ cmd[c] \in Commands
  BY Command DEF OrderlyInv, Sane, ObjectTypes
<1>1. ~DestroyUnregistered(c)
  <2>1. SUFFICES ASSUME DestroyUnregistered(c) PROVE FALSE
    OBVIOUS
  <2>2. at[c] = "check" /\ cmd[c].kind = "DestroyCanvas" /\ ~Registered(cmd[c].canvas)
    BY <2>1 DEF DestroyUnregistered, Steps
  <2>3. cmd[c].canvas \in NamedCanvases(cmd[c])
    BY <1>0, <2>2, NamedTyped DEF Shaped, OnCanvas, Sane
  <2> QED
    BY <2>2, <2>3, HeldCanvas
<1>2. ~UseFreed(c)
  <2>1. SUFFICES ASSUME UseFreed(c) PROVE FALSE
    OBVIOUS
  <2>2. /\ ~(Touched(c) \subseteq Allocated)
        /\ (at[c] = "act" /\ cmd[c].kind \notin Creates) \/ at[c] \in {"enter", "frames"}
    BY <2>1 DEF UseFreed
  <2>3. CASE at[c] \in {"act", "frames"} /\ cmd[c].kind \notin Creates
    <3>1. /\ cmd[c].canvas # None => cmd[c].canvas \in canvases
      <4>1. cmd[c].canvas # None => cmd[c].canvas \in NamedCanvases(cmd[c])
        BY <1>0, NamedTyped DEF Sane
      <4> QED
        BY <2>3, <4>1, HeldCanvas DEF Creates
    <3>2. cmd[c].sprite # None => cmd[c].sprite \in sprites
      BY <2>3, HeldSprite
    <3>3. cmd[c].kind \in {"MovePlacement", "DestroyPlacement"} =>
            cmd[c].placement \in Placements /\ placed[cmd[c].placement] # Free
      BY <2>3, HeldPlacement
    <3>4. cmd[c].kind \in {"PlaceSprite", "Generate", "DestroySprite", "MovePlacement",
                           "DestroyPlacement"}
      BY <1>0, <2>3 DEF Shaped, KindsAt, Kinds, Uses, Destroys
    <3>5. CASE cmd[c].kind = "PlaceSprite"
      <4>1. Touched(c) \subseteq {cmd[c].canvas, cmd[c].sprite} /\ at[c] = "act"
        BY <1>0, <2>3, <3>5 DEF Touched, Shaped, KindsAt
      <4>2. cmd[c].canvas # None /\ cmd[c].sprite # None
        BY <1>0, <3>5 DEF Shaped, OnCanvas
      <4> QED
        BY <2>2, <3>1, <3>2, <4>1, <4>2 DEF Allocated
    <3>6. CASE cmd[c].kind = "Generate"
      BY <1>0, <2>2, <3>1, <3>6 DEF Touched, Shaped, OnCanvas, Allocated
    <3>7. CASE cmd[c].kind = "DestroySprite"
      BY <1>0, <2>2, <3>2, <3>7 DEF Touched, Shaped, Allocated
    <3>8. CASE cmd[c].kind \in {"MovePlacement", "DestroyPlacement"}
      BY <2>2, <3>3, <3>8 DEF Touched, Allocated
    <3> QED
      BY <3>4, <3>5, <3>6, <3>7, <3>8
  <2>4. CASE at[c] = "enter"
    <3>1. cmd[c].kind \in {"CreateCanvas", "CreateSprite", "PlaceSprite"}
      BY <1>0, <2>4 DEF Shaped, KindsAt, Creates
    <3>2. CASE cmd[c].kind = "CreateCanvas"
      <4>1. cmd[c].canvas \in Canvases /\ c \in Holding(cmd[c].canvas)
        BY <2>4, <3>2 DEF Holding, Holder, Sane, CanvasInv, CommandInv
      <4>2. cmd[c].canvas \in canvases
        BY <4>1 DEF Sane, CanvasInv, CanvasesRegistered
      <4> QED
        BY <2>2, <3>2, <4>2 DEF Touched, Allocated
    <3>3. CASE cmd[c].kind = "CreateSprite"
      BY <2>2, <2>4, <3>3 DEF Touched, Allocated, OrderlyInv, SpriteInv
    <3>4. CASE cmd[c].kind = "PlaceSprite"
      BY <2>2, <2>4, <3>4, NewUnnamed DEF Touched, Allocated
    <3> QED
      BY <3>1, <3>2, <3>3, <3>4
  <2>5. at[c] = "frames" => cmd[c].kind \notin Creates
    BY <1>0 DEF Shaped, KindsAt, Creates
  <2> QED
    BY <2>2, <2>3, <2>4, <2>5
<1>3. UNCHANGED fault
  BY <1>1, <1>2 DEF Thread, LibCreate, LibCreateFails, EnterCanvas, EnterSprite, EnterPlacement,
         EnterFails, Check, Refuse, ShareCanvas, LibPlace, LibMove, GenerateStart, GenerateFails,
         GenerateEnd, LibDestroySprite, UnlinkSprite, LibDestroyPlacement, UnlinkPlacement,
         ReleaseCanvas, DeleteCanvas
<1> QED
  BY <1>0, <1>3

ObjectsKept == SpriteInv' /\ SpriteNodesInv' /\ PlacementInv' /\ PlacementNodesInv'

(* A step that leaves the objects as they are, and the handles. *)
LEMMA ObjectsQuiet ==
  ASSUME Sane, OrderlyInv, NEW c \in Clients, Others(c),
         UNCHANGED <<spriteNodes, placementNodes, canvases, sprites, placed, spriteOf>>,
         at[c] # "unlink",
         at[c] = "enter" => cmd[c].kind = "CreateCanvas",
         at'[c] \notin {"enter", "unlink"}, cmd'[c] \in {cmd[c], NoCmd}
  PROVE  ObjectsKept
<1>1. SpriteInv' /\ SpriteNodesInv'
  BY SpritesQuiet, SpriteNodesQuiet DEF OrderlyInv
<1>2. /\ cmd'[c].placement = None \/ placementNodes[cmd'[c].placement] # <<>>
      /\ cmd'[c].kind \in {"MovePlacement", "DestroyPlacement"}
            => placementNodes[cmd'[c].placement] # <<>>
  <2>1. CASE cmd'[c] = NoCmd
    BY <2>1, ObjectsAssumption DEF NoCmd, Kinds, Uses, Destroys
  <2>2. CASE cmd'[c] = cmd[c]
    <3>1. Moving(c)
      BY PlacementParts DEF OrderlyInv
    <3>2. cmd[c].placement # None => cmd[c].kind \in {"MovePlacement", "DestroyPlacement"}
      BY Command DEF Shaped
    <3> QED
      BY <2>2, <3>1, <3>2 DEF Moving
  <2> QED
    BY <2>1, <2>2
<1>3. PlacementInv' /\ PlacementNodesInv'
  BY <1>2, PlacementsQuiet
<1> QED
  BY <1>1, <1>3 DEF ObjectsKept

(* A reply that changes no placement. *)
LEMMA PlacementsReply ==
  ASSUME Sane, OrderlyInv, NEW c \in Clients, Replies(c),
         UNCHANGED <<placementNodes, placed, canvases>>,
         at[c] = "enter" => cmd[c].kind # "PlaceSprite",
         at[c] = "unlink" => cmd[c].kind # "DestroyPlacement"
  PROVE  PlacementInv' /\ PlacementNodesInv'
<1>1. Others(c) /\ at'[c] = "ready" /\ cmd'[c] = NoCmd
  BY Replied
<1>2. cmd'[c].placement = None /\ cmd'[c].kind \notin {"MovePlacement", "DestroyPlacement"}
  BY <1>1, ObjectsAssumption DEF NoCmd, Kinds, Uses, Destroys
<1> QED
  BY <1>1, <1>2, PlacementsQuiet

(* A reply that changes no sprite. *)
LEMMA SpritesReply ==
  ASSUME Sane, OrderlyInv, NEW c \in Clients, Replies(c),
         UNCHANGED <<spriteNodes, sprites, spriteOf, placed>>,
         at[c] = "enter" => cmd[c].kind # "CreateSprite",
         at[c] = "unlink" => cmd[c].kind # "DestroySprite"
  PROVE  SpriteInv' /\ SpriteNodesInv'
<1>1. Others(c) /\ at'[c] = "ready"
  BY Replied
<1> QED
  BY <1>1, SpritesQuiet, SpriteNodesQuiet DEF OrderlyInv

(* Sprites and placements, over the steps of a thread: one case each. *)
LEMMA ThreadObjects ==
  ASSUME Sane, OrderlyInv, NEW c \in Clients, Thread(c), fault' = FALSE
  PROVE  ObjectsKept
<1>1. CASE LibCreateFails(c) \/ Refuse(c) \/ LibMove(c) \/ GenerateFails(c) \/ GenerateEnd(c)
           \/ EnterCanvas(c) \/ ShareCanvas(c) \/ Check(c) \/ GenerateStart(c) \/ ReleaseCanvas(c)
  <2>1. /\ at[c] \in {"act", "check", "frames", "enter"}
        /\ at[c] = "enter" => cmd[c].kind = "CreateCanvas"
        /\ UNCHANGED <<spriteNodes, placementNodes, canvases, sprites, placed, spriteOf>>
        /\ Replies(c) \/ \E a \in {"act", "frames", "delete"} : Goes(c, a)
    BY <1>1 DEF LibCreateFails, Refuse, LibMove, GenerateFails, GenerateEnd, EnterCanvas,
                ShareCanvas, Check, GenerateStart, ReleaseCanvas, Steps, registries, library
  <2>2. Others(c) /\ at'[c] \notin {"enter", "unlink"} /\ cmd'[c] \in {cmd[c], NoCmd}
    BY <2>1, Replied, Gone
  <2> QED
    BY <2>1, <2>2, ObjectsQuiet
<1>2. CASE EnterSprite(c)
  <2>1. /\ Replies(c) /\ UNCHANGED <<placementNodes, placed, canvases>>
        /\ cmd[c].kind = "CreateSprite" /\ at[c] = "enter"
    BY <1>2 DEF EnterSprite, Steps, library
  <2> QED
    BY <1>2, <2>1, EnterSpriteSprites, PlacementsReply DEF ObjectsKept
<1>3. CASE UnlinkSprite(c)
  <2>1. /\ Replies(c) /\ UNCHANGED <<placementNodes, placed, canvases>>
        /\ cmd[c].kind = "DestroySprite" /\ at[c] = "unlink"
    BY <1>3 DEF UnlinkSprite, Steps, library
  <2> QED
    BY <1>3, <2>1, UnlinkSpriteSprites, PlacementsReply DEF ObjectsKept
<1>4. CASE LibDestroySprite(c)
  <2>1. /\ UNCHANGED <<placementNodes, placed, canvases>>
        /\ cmd[c].kind = "DestroySprite" /\ at[c] = "act"
        /\ Replies(c) \/ Goes(c, "unlink")
    BY <1>4 DEF LibDestroySprite, Steps, registries
  <2>2. ASSUME Goes(c, "unlink") PROVE PlacementInv' /\ PlacementNodesInv'
    <3>1. Others(c) /\ at'[c] = "unlink" /\ cmd'[c] = cmd[c]
      BY <2>2, Gone
    <3>2. cmd[c].placement = None
      BY <2>1, Command DEF Shaped
    <3> QED
      BY <2>1, <3>1, <3>2, PlacementsQuiet
  <2> QED
    BY <1>4, <2>1, <2>2, LibDestroySpriteSprites, PlacementsReply DEF ObjectsKept
<1>5. CASE EnterPlacement(c)
  <2>1. /\ Replies(c) /\ UNCHANGED <<spriteNodes, sprites, spriteOf, placed>>
        /\ cmd[c].kind = "PlaceSprite" /\ at[c] = "enter"
    BY <1>5 DEF EnterPlacement, Steps, library
  <2> QED
    BY <1>5, <2>1, EnterPlacementPlacements, SpritesReply DEF ObjectsKept
<1>6. CASE UnlinkPlacement(c)
  <2>1. /\ Replies(c) /\ UNCHANGED <<spriteNodes, sprites, spriteOf, placed>>
        /\ cmd[c].kind = "DestroyPlacement" /\ at[c] = "unlink"
    BY <1>6 DEF UnlinkPlacement, Steps, library
  <2> QED
    BY <1>6, <2>1, UnlinkPlacementPlacements, SpritesReply DEF ObjectsKept
<1>7. CASE LibCreate(c)
  BY <1>7, LibCreateSprites, LibCreatePlacements DEF ObjectsKept
<1>8. CASE LibPlace(c) \/ EnterFails(c) \/ LibDestroyPlacement(c) \/ DeleteCanvas(c)
  BY <1>8, LibPlacePlacements, EnterFailsObjects, LibDestroyPlacementPlacements,
     DeleteCanvasPlacements DEF ObjectsKept
<1>9. CASE UseFreed(c) \/ DestroyUnregistered(c)
  BY <1>9 DEF UseFreed, DestroyUnregistered, Faults
<1> QED
  BY <1>1, <1>2, <1>3, <1>4, <1>5, <1>6, <1>7, <1>8, <1>9 DEF Thread

(* References, over the steps of a thread. *)
LEMMA ThreadRefs ==
  ASSUME Sane, OrderlyInv, NEW c \in Clients, Thread(c)
  PROVE  RefsInv'
<1>1. EnterCanvas(c) \/ ShareCanvas(c) \/ ReleaseCanvas(c) \/ canvasNode' = canvasNode
  BY DEF Thread, LibCreate, LibCreateFails, EnterSprite, EnterPlacement, EnterFails, Check, Refuse,
         UseFreed, Faults, LibPlace, LibMove, GenerateStart, GenerateFails,
         GenerateEnd, LibDestroySprite, UnlinkSprite, LibDestroyPlacement, UnlinkPlacement,
         DeleteCanvas, DestroyUnregistered, registries
<1> QED
  BY <1>1, EnterCanvasRefs, ShareCanvasRefs, ReleaseCanvasRefs, RefsKept DEF OrderlyInv

(* The four parts together, over the steps of a thread. *)
LEMMA ThreadOrderly ==
  ASSUME Sane, OrderlyInv, NEW c \in Clients, Thread(c)
  PROVE  OrderlyInv'
<1>1. fault' = FALSE
  BY NoFault
<1> QED
  BY <1>1, ThreadRefs, ThreadApart, ThreadHeld, ThreadObjects DEF OrderlyInv, ObjectsKept

(* And over a new command. *)
LEMMA SendOrderly ==
  ASSUME Sane, OrderlyInv, NEW c \in Clients, NEW k \in Kinds, Send(c, k), orderly' = TRUE
  PROVE  OrderlyInv'
<1>1. /\ Others(c) /\ at[c] = "ready" /\ at'[c] \in {"act", "check"}
      /\ UNCHANGED <<registries, library, spriteOf, fault>> /\ Fits(c, cmd'[c])
      /\ cmd'[c].kind = k
  BY Sent
<1>2. /\ cmd'[c].placement = None \/ placementNodes[cmd'[c].placement] # <<>>
      /\ cmd'[c].kind \in {"MovePlacement", "DestroyPlacement"}
            => placementNodes[cmd'[c].placement] # <<>>
  <2>1. CanvasOf(cmd'[c].placement) # None => placementNodes[cmd'[c].placement] # <<>>
    BY DEF CanvasOf
  <2>2. k \in {"MovePlacement", "DestroyPlacement"} => cmd'[c].placement # None
    BY ObjectsAssumption DEF Send, Requests, Sane, CanvasInv, CommandInv
  <2> QED
    BY <1>1, <2>1, <2>2 DEF Fits
<1>3. PlacementInv' /\ PlacementNodesInv'
  BY <1>1, <1>2, PlacementsQuiet DEF registries, library
<1>4. SpriteInv' /\ SpriteNodesInv'
  BY <1>1, SpritesQuiet, SpriteNodesQuiet DEF OrderlyInv, registries, library
<1>5. RefsInv' /\ ~fault'
  BY <1>1, RefsKept DEF OrderlyInv, registries
<1> QED
  BY <1>3, <1>4, <1>5, SendApart, SendHeld DEF OrderlyInv

-------------------------------------------------------------------------------
(* The inductive invariant *)

InductiveInv == Sane /\ (orderly => OrderlyInv)

(* At the start there is nothing. *)
LEMMA InitObjects == Init => InductiveInv
<1> SUFFICES ASSUME Init PROVE InductiveInv
  OBVIOUS
<1>1. CanvasInv
  BY InitInv
<1>2. \A c \in Clients : at[c] = "ready" /\ cmd[c] = NoCmd
  BY DEF Init
<1>3. None \notin Clients
  BY ObjectsAssumption
<1>4. HandlerInv
  BY <1>2, <1>3, NoCmdShaped DEF Init, HandlerInv
<1>5. ObjectTypes
  <2>1. /\ left \in [Clients -> Nat] /\ {registryLock, animateLock} \subseteq Clients \union {None}
        /\ canvases \subseteq Canvases /\ sprites \subseteq Sprites
        /\ spriteOf \in [Sprites -> Users \union {None}]
    BY ObjectsAssumption DEF Init
  <2>2. /\ spriteNodes \in [Sprites -> Seq(Users)] /\ placementNodes \in [Placements -> Seq(Canvases)]
    BY DEF Init
  <2>3. placed \in [Placements -> [canvas : Canvases \union {None}, sprite : Sprites \union {None}]]
    BY DEF Init, Free
  <2>4. {orderly, fault} \subseteq BOOLEAN
    BY DEF Init
  <2> QED
    BY <2>1, <2>2, <2>3, <2>4 DEF ObjectTypes
<1>6. \A c \in Clients : cmd[c].kind = None /\ cmd[c].sprite = None /\ NamedCanvases(cmd[c]) = {}
  BY <1>2, NothingNamed DEF NoCmd
<1>7. None \notin Kinds
  BY ObjectsAssumption
<1>8. ApartInv
  BY <1>6, <1>7 DEF ApartInv, Clash, Kinds, Destroys
<1>9. HeldInv
  BY <1>6 DEF HeldInv
<1>10. RefsInv /\ ~fault
  BY DEF Init, RefsInv, Registered
<1>11. SpriteInv /\ PlacementInv
  BY <1>2, <1>6, <1>7 DEF Init, SpriteInv, PlacementInv, Kinds, Uses, Destroys
<1>12. SpriteNodesInv
  <2>1. \A s \in Sprites : ~OldSprite(s) /\ s \notin sprites /\ spriteNodes[s] = <<>>
    BY <1>2 DEF Init, OldSprite
  <2>2. Len(<<>>) = 0
    OBVIOUS
  <2> QED
    BY <2>1, <2>2 DEF SpriteNodesInv
<1>13. PlacementNodesInv
  BY DEF Init, PlacementNodesInv
<1> QED
  BY <1>1, <1>4, <1>5, <1>8, <1>9, <1>10, <1>11, <1>12, <1>13
     DEF InductiveInv, Sane, OrderlyInv

(* A client that does nothing changes nothing. *)
LEMMA StutterObjects == InductiveInv /\ UNCHANGED vars => InductiveInv'
<1> SUFFICES ASSUME InductiveInv, UNCHANGED vars PROVE InductiveInv'
  OBVIOUS
<1>1. UNCHANGED <<at, cmd, left, locks, registries, library, history, fault>>
  BY DEF vars
<1>2. CanvasInv' /\ HandlerInv' /\ ObjectTypes'
  BY <1>1 DEF InductiveInv, Sane, CanvasInv, CommandInv, NodeInv, CanvasesRegistered, Registered,
              Holding, Holder, HandlerInv, Shaped, ObjectTypes, locks, registries, library, history
<1>3. \A c \in Clients : NamedCanvases(cmd[c])' = NamedCanvases(cmd[c])
  BY <1>1 DEF NamedCanvases, CanvasOf, registries
<1>4. orderly /\ ApartInv => ApartInv'
  BY <1>1, <1>3 DEF ApartInv, Clash
<1>5. orderly /\ HeldInv => HeldInv'
  <2>1. \A k, u : Holds(u, k)' <=> Holds(u, k)
    BY <1>1, NodeKept DEF registries
  <2>2. \A s, u : OwnsSprite(u, s)' <=> OwnsSprite(u, s)
    BY <1>1 DEF OwnsSprite, registries
  <2> QED
    BY <1>1, <1>3, <2>1, <2>2 DEF HeldInv, user, history
<1>6. SpriteInv => SpriteInv'
  BY <1>1 DEF SpriteInv, library, history
<1>7. PlacementInv => PlacementInv'
  BY <1>1 DEF PlacementInv, registries, library
<1>8. SpriteNodesInv => SpriteNodesInv'
  BY <1>1 DEF SpriteNodesInv, NewSprite, OldSprite, registries, library
<1>9. PlacementNodesInv => PlacementNodesInv'
  BY <1>1 DEF PlacementNodesInv, NewPlacement, OldPlacement, registries, library
<1>10. RefsInv => RefsInv'
  BY <1>1, RefsKept DEF registries
<1>11. orderly' = orderly /\ fault' = fault
  BY <1>1 DEF history
<1> QED
  BY <1>2, <1>4, <1>5, <1>6, <1>7, <1>8, <1>9, <1>10, <1>11 DEF InductiveInv, Sane, OrderlyInv

(* Only users can be disorderly, not threads. *)
LEMMA ThreadHistory ==
  ASSUME NEW c \in Clients, Thread(c)
  PROVE  orderly' = orderly
  BY DEF Thread, LibCreate, LibCreateFails, EnterCanvas, EnterSprite, EnterPlacement, EnterFails,
         Check, Refuse, UseFreed, Faults, ShareCanvas, LibPlace, LibMove, GenerateStart,
         GenerateFails, GenerateEnd, LibDestroySprite, UnlinkSprite, LibDestroyPlacement,
         UnlinkPlacement, ReleaseCanvas, DeleteCanvas, DestroyUnregistered, Replies, Goes, history

(* The invariant is inductive. *)
LEMMA NextObjects == InductiveInv /\ [Next]_vars => InductiveInv'
<1> SUFFICES ASSUME InductiveInv, [Next]_vars PROVE InductiveInv'
  OBVIOUS
<1>1. ASSUME NEW c \in Clients, NEW k \in Kinds, Send(c, k) PROVE InductiveInv'
  <2>1. Sane'
    BY <1>1, SendInv, SendHandler, SendTypes DEF InductiveInv, Sane
  <2>2. orderly' => orderly' = TRUE /\ orderly
    BY <1>1, <2>1, Sent DEF InductiveInv, Sane, ObjectTypes
  <2> QED
    BY <1>1, <2>1, <2>2, SendOrderly DEF InductiveInv
<1>2. ASSUME NEW c \in Clients, Thread(c) PROVE InductiveInv'
  <2>1. Sane'
    BY <1>2, ThreadInv, ThreadHandler, ThreadTypes DEF InductiveInv, Sane
  <2>2. orderly' = orderly
    BY <1>2, ThreadHistory
  <2> QED
    BY <1>2, <2>1, <2>2, ThreadOrderly DEF InductiveInv
<1> QED
  BY <1>1, <1>2, StutterObjects DEF Next

(* The inductive invariant of the handlers: types, locks and canvases in   *)
(* all behaviours; references, names and nodes in the orderly ones.        *)
THEOREM ObjectsInvariant == Spec => []InductiveInv
  BY InitObjects, NextObjects, PTL DEF Spec

-------------------------------------------------------------------------------
(* What follows *)

(* Whatever clients send, the registries, the library's objects and the    *)
(* handlers' commands keep their types; no reference count, which          *)
(* handle_destroy_canvas takes down, falls below zero.                     *)
THEOREM ObjectsTyped == Spec => []TypeOK
<1>1. InductiveInv => TypeOK
  BY TypesSplit DEF InductiveInv, Sane
<1> QED
  BY <1>1, ObjectsInvariant, PTL

(* Whatever clients send, destroy_canvas has registry_lock and             *)
(* destroy_placement has animate_lock just when each takes the second      *)
(* lock, and no handler has a lock anywhere else, so none replies with     *)
(* one.                                                                    *)
THEOREM LocksHeld == Spec => []HandlerInv
<1>1. InductiveInv => HandlerInv
  BY DEF InductiveInv, Sane
<1> QED
  BY <1>1, ObjectsInvariant, PTL

(* What HeldInv and the parts after it say of a handler that was let       *)
(* through.                                                                *)
LEMMA AccessKept == Sane /\ OrderlyInv => 
  \A c \in Clients : (at[c] = "act" /\ cmd[c].kind \notin Creates) \/ at[c] = "frames"
     => Allowed(c) /\ Touched(c) \subseteq Allocated
<1> SUFFICES ASSUME Sane, OrderlyInv, NEW c \in Clients,
                    (at[c] = "act" /\ cmd[c].kind \notin Creates) \/ at[c] = "frames"
             PROVE  Allowed(c) /\ Touched(c) \subseteq Allocated
  OBVIOUS
<1>0. Shaped(at[c], cmd[c]) /\ cmd[c] \in Commands /\ at[c] \notin {"enter", "unlink", "delete"}
  BY Command
<1>1. cmd[c].kind \in {"PlaceSprite", "Generate", "DestroySprite", "MovePlacement",
                       "DestroyPlacement"}
  BY <1>0 DEF Shaped, KindsAt, Kinds, Creates, Uses, Destroys
<1>2. /\ cmd[c].kind \in {"PlaceSprite", "Generate"} =>
            cmd[c].canvas \in canvases /\ HasAccess(user(c), cmd[c].canvas)
  <2>1. cmd[c].kind \in {"PlaceSprite", "Generate"} => cmd[c].canvas \in NamedCanvases(cmd[c])
    BY <1>0, NamedTyped DEF Sane, Shaped, OnCanvas
  <2> QED
    BY <1>0, <2>1, HeldCanvas
<1>3. cmd[c].kind \in {"PlaceSprite", "DestroySprite"} =>
        /\ cmd[c].sprite # None /\ cmd[c].sprite \in sprites
        /\ at[c] = "act" /\ OwnsSprite(user(c), cmd[c].sprite)
  <2>1. cmd[c].kind \in {"PlaceSprite", "DestroySprite"} => cmd[c].sprite # None /\ at[c] = "act"
    BY <1>0 DEF Shaped, KindsAt
  <2>2. cmd[c].kind \in {"PlaceSprite", "DestroySprite"} => cmd[c].sprite \in sprites
    BY <1>0, <2>1, HeldSprite
  <2> QED
    BY <2>1, <2>2 DEF OrderlyInv, HeldInv
<1>4. CASE cmd[c].kind = "PlaceSprite"
  <2>1. Touched(c) = {cmd[c].canvas, cmd[c].sprite}
    BY <1>3, <1>4 DEF Touched
  <2> QED
    BY <1>2, <1>3, <1>4, <2>1 DEF Allowed, Allocated
<1>5. CASE cmd[c].kind = "Generate"
  BY <1>2, <1>5 DEF Allowed, Touched, Allocated
<1>6. CASE cmd[c].kind = "DestroySprite"
  BY <1>3, <1>6 DEF Allowed, Touched, Allocated
<1>7. CASE cmd[c].kind \in {"MovePlacement", "DestroyPlacement"}
  <2>1. PICK p : p = cmd[c].placement
    OBVIOUS
  <2>2. p \in Placements /\ p # None /\ placed[p] # Free /\ placementNodes[p] = <<placed[p].canvas>>
    BY <1>0, <1>7, <2>1, HeldPlacement, ObjectsAssumption
  <2>3. CanvasOf(p) = placed[p].canvas /\ placementNodes[p] # <<>>
        /\ Head(placementNodes[p]) = placed[p].canvas
    BY <2>2 DEF CanvasOf
  <2>4. placed[p].canvas \in NamedCanvases(cmd[c])
    BY <1>0, <2>1, <2>2, <2>3, NamedTyped DEF Sane
  <2>5. HasAccess(user(c), placed[p].canvas)
    BY <1>0, <1>7, <2>4, HeldCanvas
  <2>6. HasPlacement(user(c), p)
    BY <2>3, <2>5 DEF HasPlacement
  <2> QED
    BY <1>7, <2>1, <2>2, <2>6 DEF Allowed, Touched, Allocated
<1> QED
  BY <1>1, <1>4, <1>5, <1>6, <1>7

(* What validate_sprite_access, validate_placement_access and the canvas   *)
(* checks found is still registered, allocated and the user's when the     *)
(* handler gets to the library, although registry_lock was released in     *)
(* between: for any number of orderly users and any reuse of addresses.    *)
THEOREM CheckedAccess == Spec => []AccessOutlivesCheck
<1>1. InductiveInv => AccessOutlivesCheck
  BY AccessKept DEF InductiveInv, AccessOutlivesCheck, OrderlyInv
<1> QED
  BY <1>1, ObjectsInvariant, PTL

(* At most one command is about to enter or to unlink a sprite. *)
LEMMA OneAtMost ==
  ASSUME NEW T, \A c, d \in T : c = d
  PROVE  Cardinality(T) = IF T = {} THEN 0 ELSE 1
<1>1. CASE T = {}
  BY <1>1, FS_EmptySet
<1>2. CASE T # {}
  <2>1. PICK c : c \in T
    BY <1>2
  <2>2. T = {c}
    BY <2>1
  <2> QED
    BY <1>2, <2>2, FS_Singleton
<1> QED
  BY <1>1, <1>2

(* SpriteNodesInv counts clients where the property counts commands. *)
LEMMA SpritesCounted ==
  ASSUME Sane, OrderlyInv, NEW s \in Sprites
  PROVE  Len(spriteNodes[s]) + Cardinality(During("enter", "CreateSprite", s))
           = Cardinality({s} \intersect sprites)
             + Cardinality(During("unlink", "DestroySprite", s))
<1>1. s # None
  BY ObjectsAssumption
<1>2. ASSUME NEW c \in Clients, cmd[c].kind \in {"CreateSprite", "DestroySprite"},
             s \in {cmd[c].sprite, cmd[c].placement}
      PROVE  cmd[c].sprite = s
  BY <1>1, <1>2, Command DEF Shaped
<1>3. PICK E, U : E = During("enter", "CreateSprite", s) /\ U = During("unlink", "DestroySprite", s)
  OBVIOUS
<1>4. \A c, d \in E : c = d
  BY <1>2, <1>3 DEF During, OrderlyInv, SpriteInv
<1>5. \A c, d \in U : c = d
  <2> SUFFICES ASSUME NEW c \in U, NEW d \in U, c # d PROVE FALSE
    OBVIOUS
  <2>1. /\ c \in Clients /\ d \in Clients /\ cmd[c].kind = "DestroySprite"
        /\ cmd[d].kind = "DestroySprite" /\ cmd[c].sprite = s /\ cmd[d].sprite = s
    BY <1>2, <1>3 DEF During
  <2>2. Clash(c, cmd[c], d, cmd[d])
    BY <2>1 DEF Clash
  <2> QED
    BY <2>1, <2>2 DEF OrderlyInv, ApartInv
<1>6. E # {} <=> NewSprite(s)
  BY <1>2, <1>3 DEF During, NewSprite
<1>7. U # {} <=> OldSprite(s)
  BY <1>2, <1>3 DEF During, OldSprite
<1>8. NewSprite(s) => s \in sprites
  BY DEF NewSprite, OrderlyInv, SpriteInv
<1>9. /\ Cardinality(E) = IF NewSprite(s) THEN 1 ELSE 0
      /\ Cardinality(U) = IF OldSprite(s) THEN 1 ELSE 0
  BY <1>4, <1>5, <1>6, <1>7, OneAtMost
<1>10. Cardinality({s} \intersect sprites) = IF s \in sprites THEN 1 ELSE 0
  BY OneAtMost
<1>11. Len(spriteNodes[s]) = (IF s \in sprites /\ ~NewSprite(s) THEN 1 ELSE 0)
                             + (IF OldSprite(s) THEN 1 ELSE 0)
  BY DEF OrderlyInv, SpriteNodesInv
<1>12. Len(spriteNodes[s]) + Cardinality(E) = Cardinality({s} \intersect sprites) + Cardinality(U)
  BY <1>8, <1>9, <1>10, <1>11
<1> QED
  BY <1>3, <1>12

(* The nodes of global_sprite_registry at an address are the library's     *)
(* sprite there unless it is about to be entered, and the destroyed one    *)
(* about to be unlinked (handle_destroy_sprite gives up animate_lock       *)
(* before it takes registry_lock).                                         *)
THEOREM SpritesAgree == Spec => []SpritesRegistered
<1>1. InductiveInv => SpritesRegistered
  BY SpritesCounted DEF InductiveInv, SpritesRegistered
<1> QED
  BY <1>1, ObjectsInvariant, PTL

(* PlacementNodesInv is what the property says. *)
LEMMA PlacementsMatched ==
  ASSUME Sane, OrderlyInv, NEW p \in Placements
  PROVE  placementNodes[p] =
         IF During("enter", "PlaceSprite", p) # {} THEN <<>>
         ELSE IF \E c \in During("unlink", "DestroyPlacement", p) : animateLock = c
         THEN placementNodes[p]
         ELSE IF placed[p] = Free THEN <<>> ELSE <<placed[p].canvas>>
<1>1. \A c \in Clients : cmd[c].sprite # p
  BY ObjectsAssumption, Command DEF Commands
<1>2. During("enter", "PlaceSprite", p) # {} <=> NewPlacement(p)
  BY <1>1 DEF During, NewPlacement
<1>3. OldPlacement(p) => \E c \in During("unlink", "DestroyPlacement", p) : animateLock = c
  BY DEF During, OldPlacement, Sane, HandlerInv
<1> QED
  BY <1>2, <1>3 DEF OrderlyInv, PlacementNodesInv

(* A placement has one node, on the canvas it is on, from the end of       *)
(* handle_place_sprite until handle_destroy_placement or                   *)
(* canvas_node_delete takes it away, and none that outlives it.            *)
THEOREM PlacementsAgree == Spec => []PlacementsRegistered
<1>1. InductiveInv => PlacementsRegistered
  BY PlacementsMatched DEF InductiveInv, PlacementsRegistered
<1> QED
  BY <1>1, ObjectsInvariant, PTL

(* The invariant that the run canvas_objects checks on its instance. *)
THEOREM ObjectsHold == Spec => []ObjectsInv
<1>1. InductiveInv => ObjectsInv
  BY SpritesCounted, PlacementsMatched
     DEF InductiveInv, Sane, CanvasInv, OrderlyInv, ObjectsInv, SpritesRegistered,
         PlacementsRegistered
<1> QED
  BY <1>1, ObjectsInvariant, PTL

===============================================================================
