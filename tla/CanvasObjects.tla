----------------------------- MODULE CanvasObjects ----------------------------
(* The objects of the server: canvases, sprites and placements, each known *)
(* twice, to libanimate (which allocates it) and to a registry of the      *)
(* server (which says whose it is), and the handlers that create, use and  *)
(* destroy them.                                                           *)
(*                                                                         *)
(* registry_lock guards the registries and animate_lock the library.  Most *)
(* handlers take one lock at a time: they check under the first, call the  *)
(* library under the second and update a registry under the first again,   *)
(* and between these steps other threads run.  A section under one lock is *)
(* one step that needs the lock to be free; destroy_canvas and             *)
(* destroy_placement take both locks, so the holders are variables.        *)
(*                                                                         *)
(* A handle is an address, which malloc gives out again once it is free.   *)
(* The clients wait for each reply, as animate_client does, and each has a *)
(* worker thread.  The order of the layers is the matter of LayerList, the *)
(* barrier and the growth of shared_usernames that of SharedCanvas.        *)
EXTENDS Integers, Sequences, FiniteSets

CONSTANTS
  Clients,       \* connections, all logged in
  Users, Account,\* user names; Account[c]: the user of c
  Canvases, Sprites, Placements,   \* addresses of the three kinds of object
  None,          \* no address, no user, no client
  MaxCommands,   \* bound: commands of one client
  CallsFail      \* BOOLEAN: malloc, fopen and fwrite may fail

Creates == {"CreateCanvas", "CreateSprite"}
Uses    == {"PlaceSprite", "MovePlacement", "ShareCanvas", "Generate"}
Destroys == {"DestroyCanvas", "DestroySprite", "DestroyPlacement"}
Kinds   == Creates \union Uses \union Destroys

ASSUME ObjectsAssumption ==
  /\ Account \in [Clients -> Users]
  /\ None \notin Clients \union Users \union Canvases \union Sprites \union Placements
  /\ None \notin Kinds
  /\ Canvases \intersect Sprites = {} /\ Canvases \intersect Placements = {}
  /\ Sprites \intersect Placements = {}
  /\ MaxCommands \in Nat /\ CallsFail \in BOOLEAN
  /\ IsFiniteSet(Users)

VARIABLES
  at,            \* at[c]: the step the handler of c is to take, see Places
  cmd,           \* cmd[c]: its command
  left,          \* left[c]: the commands c may still send (bound)
  registryLock,  \* the client whose thread holds registry_lock, or None
  animateLock,   \* the client whose thread holds animate_lock, or None
  canvasNode,    \* canvasNode[k]: the registered canvas k, NoNode if there is none
  spriteNodes,   \* spriteNodes[s]: owners of the nodes for s, the newest first
  placementNodes,\* placementNodes[p]: canvases of the nodes for p, the newest first
  canvases,      \* the canvases allocated in the library
  sprites,       \* the sprites allocated in the library
  placed,        \* placed[p]: canvas and sprite of the placement p, Free if it is free
  spriteOf,      \* history: spriteOf[s]: the user who has the handle s from a reply
  orderly,       \* history: no two commands have clashed, see Fits
  fault          \* freed memory was used

locks      == <<registryLock, animateLock>>
registries == <<canvasNode, spriteNodes, placementNodes>>
library    == <<canvases, sprites, placed>>
history    == <<spriteOf, orderly>>
vars == <<at, cmd, left, locks, registries, library, history, fault>>

NoNode == [owner |-> None, shared |-> {}, refs |-> 0]
Free   == [canvas |-> None, sprite |-> None]
NoCmd  == [kind |-> None, canvas |-> None, sprite |-> None, placement |-> None]

(* "check": access is to be checked; "act": the library is to be called;   *)
(* "enter": the new object is to be registered; "unlink": the destroyed    *)
(* one is to be taken out of its registry; "delete": destroy_canvas, which *)
(* holds registry_lock, is to free the canvas; "frames": generate has the  *)
(* frame size and is writing frames.                                       *)
Places == {"ready", "check", "act", "enter", "unlink", "delete", "frames"}

user(c) == Account[c]
Steps(c, from, k) == ~fault /\ at[c] = from /\ cmd[c].kind \in k

Goes(c, to) == /\ at' = [at EXCEPT ![c] = to]
               /\ UNCHANGED <<cmd, left, orderly>>

(* The handler writes its reply. *)
Replies(c) == /\ at' = [at EXCEPT ![c] = "ready"]
              /\ cmd' = [cmd EXCEPT ![c] = NoCmd]
              /\ UNCHANGED <<left, orderly>>

(* c uses memory that has been freed; anything may happen from there. *)
Faults == /\ fault' = TRUE
          /\ UNCHANGED <<at, cmd, left, locks, registries, library, history>>

-------------------------------------------------------------------------------
(* The registries *)

Registered(k) == canvasNode[k] # NoNode
HasAccess(u, k) ==
  Registered(k) /\ (u = canvasNode[k].owner \/ u \in canvasNode[k].shared)
OwnsSprite(u, s) == spriteNodes[s] # <<>> /\ Head(spriteNodes[s]) = u
HasPlacement(u, p) ==
  placementNodes[p] # <<>> /\ HasAccess(u, Head(placementNodes[p]))

(* A registry without the first node that matches, if any.  A plausible    *)
(* slip: the loop goes on after the first.                                 *)
Unlinked_All(nodes, x) == [nodes EXCEPT ![x] = <<>>]
Unlinked(nodes, x) ==
  [nodes EXCEPT ![x] = IF @ = <<>> THEN <<>> ELSE Tail(@)]
(* q without the nodes for k, wherever they are. *)
Without(q, k) ==
  LET kept[i \in 0 .. Len(q)] ==
        IF i = 0 THEN <<>>
        ELSE IF q[i] = k THEN kept[i - 1] ELSE Append(kept[i - 1], q[i])
  IN  kept[Len(q)]
(* canvas_node_delete: without the placements registered on canvas k. *)
CanvasNodeDelete(nodes, k) == [p \in Placements |-> Without(nodes[p], k)]

(* ref_count falls to zero.  A plausible slip: one reference too early. *)
LastReference_Early(k) == canvasNode[k].refs - 1 <= 1
LastReference(k) == canvasNode[k].refs - 1 <= 0

(* What the next library call of c reads or writes, and what is allocated. *)
Touched(c) ==
  CASE cmd[c].kind \in {"CreateCanvas", "Generate"} -> {cmd[c].canvas}
    [] cmd[c].kind \in {"CreateSprite", "DestroySprite"} -> {cmd[c].sprite}
    [] cmd[c].kind = "PlaceSprite" /\ at[c] = "act" -> {cmd[c].canvas, cmd[c].sprite}
    [] OTHER -> {cmd[c].placement}
Allocated == canvases \union sprites \union {p \in Placements : placed[p] # Free}

-------------------------------------------------------------------------------
(* Clients *)

(* The canvases command r is about: the one in it, and the one that its    *)
(* placement is on, as far as the registry knows.                          *)
CanvasOf(p) ==
  IF p \in Placements /\ placementNodes[p] # <<>> THEN Head(placementNodes[p]) ELSE None
NamedCanvases(r) == {r.canvas, CanvasOf(r.placement)} \ {None}

(* u holds a reference to k: a collaborator on the list, or the owner      *)
(* until he has given his back.                                            *)
Holds(u, k) ==
  /\ Registered(k)
  /\ \/ u \in canvasNode[k].shared
     \/ /\ u = canvasNode[k].owner
        /\ canvasNode[k].refs > Cardinality(canvasNode[k].shared)

(* Command r of c destroys something that command q of d names.  Another   *)
(* user may go on with a canvas that c gives up.                           *)
Clash(c, r, d, q) ==
  \/ /\ r.kind = "DestroyCanvas" /\ user(c) = user(d)
     /\ r.canvas \in NamedCanvases(q)
  \/ r.kind = "DestroySprite" /\ r.sprite = q.sprite
  \/ r.kind = "DestroyPlacement" /\ r.placement = q.placement

(* The command is one that a user who knows what he has sends: it names    *)
(* his own objects, and does not clash with one that is under way.         *)
Fits(c, r) ==
  /\ r.placement # None => CanvasOf(r.placement) # None
  /\ \A k \in NamedCanvases(r) : Holds(user(c), k)
  /\ r.sprite # None => spriteOf[r.sprite] = user(c)
  /\ \A d \in Clients \ {c} : ~Clash(c, r, d, cmd[d]) /\ ~Clash(d, cmd[d], c, r)

(* The commands of kind k, with the handles that are their arguments. *)
Requests(k) ==
  [kind      : {k},
   canvas    : IF k \in {"PlaceSprite", "ShareCanvas", "Generate", "DestroyCanvas"}
               THEN Canvases ELSE {None},
   sprite    : IF k \in {"PlaceSprite", "DestroySprite"} THEN Sprites ELSE {None},
   placement : IF k \in {"MovePlacement", "DestroyPlacement"} THEN Placements ELSE {None}]

Send(c, k) ==
  /\ ~fault /\ at[c] = "ready" /\ left[c] > 0
  /\ \E r \in Requests(k) :
        /\ cmd' = [cmd EXCEPT ![c] = r]
        /\ orderly' = (orderly /\ Fits(c, r))
  /\ at' = [at EXCEPT ![c] = IF k \in Creates THEN "act" ELSE "check"]
  /\ left' = [left EXCEPT ![c] = @ - 1]
  /\ UNCHANGED <<locks, registries, library, spriteOf, fault>>

-------------------------------------------------------------------------------
(* Creating: the library first, then a node in the registry *)

LibCreate(c) ==
  /\ Steps(c, "act", Creates) /\ animateLock = None
  /\ \/ /\ cmd[c].kind = "CreateCanvas"
        /\ \E k \in Canvases \ canvases :
              /\ canvases' = canvases \union {k}
              /\ cmd' = [cmd EXCEPT ![c].canvas = k]
        /\ UNCHANGED sprites
     \/ /\ cmd[c].kind = "CreateSprite"
        /\ \E s \in Sprites \ sprites :
              /\ sprites' = sprites \union {s}
              /\ cmd' = [cmd EXCEPT ![c].sprite = s]
        /\ UNCHANGED canvases
  /\ at' = [at EXCEPT ![c] = "enter"]
  /\ UNCHANGED <<left, locks, registries, placed, history, fault>>

(* The library returns NULL. *)
LibCreateFails(c) ==
  /\ Steps(c, "act", Creates \union {"PlaceSprite"}) /\ CallsFail /\ animateLock = None
  /\ Replies(c)
  /\ UNCHANGED <<locks, registries, library, spriteOf, fault>>

EnterCanvas(c) ==
  /\ Steps(c, "enter", {"CreateCanvas"}) /\ registryLock = None
  /\ canvasNode' = [canvasNode EXCEPT
                      ![cmd[c].canvas] = [owner |-> user(c), shared |-> {}, refs |-> 1]]
  /\ Replies(c)
  /\ UNCHANGED <<locks, spriteNodes, placementNodes, library, spriteOf, fault>>

EnterSprite(c) ==
  /\ Steps(c, "enter", {"CreateSprite"}) /\ registryLock = None
  /\ spriteNodes' = [spriteNodes EXCEPT ![cmd[c].sprite] = <<user(c)>> \o @]
  /\ spriteOf' = [spriteOf EXCEPT ![cmd[c].sprite] = user(c)]
  /\ Replies(c)
  /\ UNCHANGED <<locks, canvasNode, placementNodes, library, fault>>

(* A plausible slip: the node gets the wrong handle. *)
EnterPlacement_Sprite(c) ==
  /\ Steps(c, "enter", {"PlaceSprite"}) /\ registryLock = None
  /\ placementNodes' = [placementNodes EXCEPT ![cmd[c].placement] = <<cmd[c].sprite>> \o @]
  /\ Replies(c)
  /\ UNCHANGED <<locks, canvasNode, spriteNodes, library, spriteOf, fault>>

EnterPlacement(c) ==
  /\ Steps(c, "enter", {"PlaceSprite"}) /\ registryLock = None
  /\ placementNodes' = [placementNodes EXCEPT ![cmd[c].placement] = <<cmd[c].canvas>> \o @]
  /\ Replies(c)
  /\ UNCHANGED <<locks, canvasNode, spriteNodes, library, spriteOf, fault>>

(* A plausible slip: the object is forgotten. *)
EnterFails_Kept(c) ==
  /\ Steps(c, "enter", Creates \union {"PlaceSprite"}) /\ CallsFail /\ animateLock = None
  /\ Replies(c)
  /\ UNCHANGED <<locks, registries, library, spriteOf, fault>>

(* There is no memory for the node: the new object is destroyed again, as  *)
(* the library destroys it.                                                *)
EnterFails(c) ==
  /\ Steps(c, "enter", Creates \union {"PlaceSprite"}) /\ CallsFail /\ animateLock = None
  /\ Touched(c) \subseteq Allocated
  /\ canvases' = IF cmd[c].kind = "CreateCanvas" THEN canvases \ Touched(c) ELSE canvases
  /\ sprites' = sprites \ {s \in Touched(c) : \A p \in Placements : placed[p].sprite # s}
  /\ placed' = [p \in Placements |-> IF {p, placed[p].canvas} \intersect Touched(c) # {}
                                     THEN Free ELSE placed[p]]
  /\ Replies(c)
  /\ UNCHANGED <<locks, registries, spriteOf, fault>>

-------------------------------------------------------------------------------
(* Checking and using *)

(* What the access checks of the handlers ask for. *)
Allowed(c) ==
  LET r == cmd[c] u == user(c)
  IN  CASE r.kind = "PlaceSprite" -> HasAccess(u, r.canvas) /\ OwnsSprite(u, r.sprite)
        [] r.kind = "DestroySprite" -> OwnsSprite(u, r.sprite)
        [] r.kind \in {"MovePlacement", "DestroyPlacement"} -> HasPlacement(u, r.placement)
        [] OTHER -> HasAccess(u, r.canvas)

(* registry_lock is released before the library is called. *)
Check(c) ==
  /\ Steps(c, "check", {"PlaceSprite", "MovePlacement", "Generate",
                        "DestroySprite", "DestroyPlacement"})
  /\ registryLock = None /\ Allowed(c)
  /\ Goes(c, "act")
  /\ UNCHANGED <<locks, registries, library, spriteOf, fault>>

(* A plausible slip: an early return keeps registry_lock. *)
Refuse_Locked(c) ==
  /\ Steps(c, "check", Uses \union Destroys) /\ registryLock = None /\ ~Allowed(c)
  /\ cmd[c].kind = "DestroyCanvas" => Registered(cmd[c].canvas)
  /\ registryLock' = c
  /\ Replies(c)
  /\ UNCHANGED <<animateLock, registries, library, spriteOf, fault>>

Refuse(c) ==
  /\ Steps(c, "check", Uses \union Destroys) /\ registryLock = None /\ ~Allowed(c)
  /\ cmd[c].kind = "DestroyCanvas" => Registered(cmd[c].canvas)
  /\ Replies(c)
  /\ UNCHANGED <<locks, registries, library, spriteOf, fault>>

(* The addresses are used as they are, whatever has become of the objects. *)
UseFreed(c) ==
  /\ ~fault
  /\ \/ at[c] = "act" /\ cmd[c].kind \notin Creates /\ animateLock = None
     \/ at[c] = "enter" /\ CallsFail /\ animateLock = None
     \/ at[c] = "frames"
  /\ ~(Touched(c) \subseteq Allocated)
  /\ Faults

ShareCanvas(c) ==
  /\ Steps(c, "check", {"ShareCanvas"}) /\ registryLock = None /\ Allowed(c)
  /\ \E u \in Users :
        canvasNode' = IF HasAccess(u, cmd[c].canvas) THEN canvasNode
                      ELSE [canvasNode EXCEPT ![cmd[c].canvas].shared = @ \union {u},
                                              ![cmd[c].canvas].refs = @ + 1]
  /\ Replies(c)
  /\ UNCHANGED <<locks, spriteNodes, placementNodes, library, spriteOf, fault>>

LibPlace(c) ==
  /\ Steps(c, "act", {"PlaceSprite"}) /\ animateLock = None
  /\ Touched(c) \subseteq Allocated
  /\ \E p \in Placements :
        /\ placed[p] = Free
        /\ placed' = [placed EXCEPT ![p] = [canvas |-> cmd[c].canvas, sprite |-> cmd[c].sprite]]
        /\ cmd' = [cmd EXCEPT ![c].placement = p]
  /\ at' = [at EXCEPT ![c] = "enter"]
  /\ UNCHANGED <<left, locks, registries, canvases, sprites, history, fault>>

(* placement_up, _down, _top, _bottom and set_animation_params: what they *)
(* do to the placement is LayerList's matter.                             *)
LibMove(c) ==
  /\ Steps(c, "act", {"MovePlacement"}) /\ animateLock = None
  /\ Touched(c) \subseteq Allocated
  /\ Replies(c)
  /\ UNCHANGED <<locks, registries, library, spriteOf, fault>>

(* The file is opened and the frame size asked for; then come the frames,  *)
(* each under animate_lock, and at last width and height without it.       *)
GenerateStart(c) ==
  /\ Steps(c, "act", {"Generate"}) /\ animateLock = None
  /\ Touched(c) \subseteq Allocated
  /\ Goes(c, "frames")
  /\ UNCHANGED <<locks, registries, library, spriteOf, fault>>

GenerateFails(c) ==
  /\ Steps(c, "act", {"Generate"}) \/ Steps(c, "frames", {"Generate"})
  /\ CallsFail
  /\ Replies(c)
  /\ UNCHANGED <<locks, registries, library, spriteOf, fault>>

GenerateEnd(c) ==
  /\ Steps(c, "frames", {"Generate"}) /\ animateLock = None
  /\ Touched(c) \subseteq Allocated
  /\ Replies(c)
  /\ UNCHANGED <<locks, registries, library, spriteOf, fault>>

-------------------------------------------------------------------------------
(* Destroying *)

(* A plausible slip: the library frees a sprite although it is placed. *)
LibDestroySprite_Placed(c) ==
  /\ Steps(c, "act", {"DestroySprite"}) /\ animateLock = None
  /\ Touched(c) \subseteq Allocated
  /\ sprites' = sprites \ {cmd[c].sprite}
  /\ spriteOf' = [spriteOf EXCEPT ![cmd[c].sprite] = None]
  /\ Goes(c, "unlink")
  /\ UNCHANGED <<locks, registries, canvases, placed, fault>>

(* The library refuses a sprite that is placed. *)
LibDestroySprite(c) ==
  /\ Steps(c, "act", {"DestroySprite"}) /\ animateLock = None
  /\ Touched(c) \subseteq Allocated
  /\ IF \E p \in Placements : placed[p].sprite = cmd[c].sprite
     THEN Replies(c) /\ UNCHANGED <<sprites, spriteOf>>
     ELSE /\ sprites' = sprites \ {cmd[c].sprite}
          /\ spriteOf' = [spriteOf EXCEPT ![cmd[c].sprite] = None]
          /\ Goes(c, "unlink")
  /\ UNCHANGED <<locks, registries, canvases, placed, fault>>

(* The first node with the address goes; in the meantime the address may   *)
(* have been given to another sprite, whose node then is the first.        *)
UnlinkSprite(c) ==
  /\ Steps(c, "unlink", {"DestroySprite"}) /\ registryLock = None
  /\ spriteNodes' = Unlinked(spriteNodes, cmd[c].sprite)
  /\ Replies(c)
  /\ UNCHANGED <<locks, canvasNode, placementNodes, library, spriteOf, fault>>

(* animate_lock is kept until the node is unlinked.  A plausible slip, one *)
(* that undoes the lock cycle: it is released after the library call.      *)
LibDestroyPlacement_Unlocked(c) ==
  /\ Steps(c, "act", {"DestroyPlacement"}) /\ animateLock = None
  /\ Touched(c) \subseteq Allocated
  /\ placed' = [placed EXCEPT ![cmd[c].placement] = Free]
  /\ Goes(c, "unlink")
  /\ UNCHANGED <<locks, registries, canvases, sprites, spriteOf, fault>>

LibDestroyPlacement(c) ==
  /\ Steps(c, "act", {"DestroyPlacement"}) /\ animateLock = None
  /\ Touched(c) \subseteq Allocated
  /\ placed' = [placed EXCEPT ![cmd[c].placement] = Free]
  /\ animateLock' = c
  /\ Goes(c, "unlink")
  /\ UNCHANGED <<registryLock, registries, canvases, sprites, spriteOf, fault>>

UnlinkPlacement(c) ==
  /\ Steps(c, "unlink", {"DestroyPlacement"}) /\ registryLock = None
  /\ placementNodes' = Unlinked(placementNodes, cmd[c].placement)
  /\ animateLock' = None
  /\ Replies(c)
  /\ UNCHANGED <<registryLock, canvasNode, spriteNodes, library, spriteOf, fault>>

(* One reference is given back; with the last the node goes, and           *)
(* registry_lock is kept until the canvas is gone too.                     *)
ReleaseCanvas(c) ==
  /\ Steps(c, "check", {"DestroyCanvas"}) /\ registryLock = None /\ Allowed(c)
  /\ LET k == cmd[c].canvas
     IN  IF LastReference(k)
         THEN /\ canvasNode' = [canvasNode EXCEPT ![k] = NoNode]
              /\ registryLock' = c
              /\ Goes(c, "delete")
         ELSE /\ canvasNode' = [canvasNode EXCEPT ![k].shared = @ \ {user(c)},
                                                  ![k].refs = @ - 1]
              /\ Replies(c)
              /\ UNCHANGED registryLock
  /\ UNCHANGED <<animateLock, spriteNodes, placementNodes, library, spriteOf, fault>>

(* The library frees the canvas with the placements on it. *)
DeleteCanvas(c) ==
  /\ Steps(c, "delete", {"DestroyCanvas"}) /\ animateLock = None
  /\ canvases' = canvases \ {cmd[c].canvas}
  /\ placed' = [p \in Placements |-> IF placed[p].canvas = cmd[c].canvas THEN Free ELSE placed[p]]
  /\ placementNodes' = CanvasNodeDelete(placementNodes, cmd[c].canvas)
  /\ registryLock' = None
  /\ Replies(c)
  /\ UNCHANGED <<animateLock, canvasNode, spriteNodes, sprites, spriteOf, fault>>

(* An address that is not registered is given to the library all the same: *)
(* it has been freed, or another thread has yet to register it.            *)
DestroyUnregistered(c) ==
  /\ Steps(c, "check", {"DestroyCanvas"}) /\ registryLock = None
  /\ ~Registered(cmd[c].canvas)
  /\ Faults

-------------------------------------------------------------------------------
Thread(c) ==
  \/ LibCreate(c) \/ LibCreateFails(c) \/ EnterCanvas(c) \/ EnterSprite(c)
  \/ EnterPlacement(c) \/ EnterFails(c) \/ Check(c) \/ Refuse(c) \/ UseFreed(c)
  \/ ShareCanvas(c) \/ LibPlace(c) \/ LibMove(c)
  \/ GenerateStart(c) \/ GenerateFails(c) \/ GenerateEnd(c)
  \/ LibDestroySprite(c) \/ UnlinkSprite(c) \/ LibDestroyPlacement(c) \/ UnlinkPlacement(c)
  \/ ReleaseCanvas(c) \/ DeleteCanvas(c) \/ DestroyUnregistered(c)

Init ==
  /\ at = [c \in Clients |-> "ready"]
  /\ cmd = [c \in Clients |-> NoCmd]
  /\ left = [c \in Clients |-> MaxCommands]
  /\ registryLock = None /\ animateLock = None
  /\ canvasNode = [k \in Canvases |-> NoNode]
  /\ spriteNodes = [s \in Sprites |-> <<>>]
  /\ placementNodes = [p \in Placements |-> <<>>]
  /\ canvases = {} /\ sprites = {} /\ placed = [p \in Placements |-> Free]
  /\ spriteOf = [s \in Sprites |-> None]
  /\ orderly = TRUE /\ fault = FALSE

Next == \E c \in Clients : (\E k \in Kinds : Send(c, k)) \/ Thread(c)

Spec == Init /\ [][Next]_vars

(* Every thread that can go on does; a thread that waits for a mutex gets  *)
(* it, for the commands of an instance are finitely many.                  *)
FairSpec == Spec /\ \A c \in Clients : WF_vars(Thread(c))

-------------------------------------------------------------------------------
(* What holds of the objects *)

Commands ==
  [kind : Kinds \union {None}, canvas : Canvases \union {None},
   sprite : Sprites \union {None}, placement : Placements \union {None}]

TypeOK ==
  /\ at \in [Clients -> Places]
  /\ cmd \in [Clients -> Commands]
  /\ left \in [Clients -> Nat]
  /\ {registryLock, animateLock} \subseteq Clients \union {None}
  /\ canvasNode \in [Canvases -> [owner : Users \union {None}, shared : SUBSET Users,
                                  refs : Nat]]
  /\ spriteNodes \in [Sprites -> Seq(Users)]
  /\ placementNodes \in [Placements -> Seq(Canvases)]
  /\ canvases \subseteq Canvases /\ sprites \subseteq Sprites
  /\ placed \in [Placements -> [canvas : Canvases \union {None},
                                sprite : Sprites \union {None}]]
  /\ spriteOf \in [Sprites -> Users \union {None}]
  /\ {orderly, fault} \subseteq BOOLEAN

(* A handler that was let through finds what it was let through for: until *)
(* it has called the library the objects are registered and allocated and  *)
(* its user has access to them, although no lock is held.  Users have to   *)
(* keep their own commands apart; those of others who give up a canvas, or *)
(* create and destroy objects at the same addresses, do not matter.        *)
AccessOutlivesCheck ==
  orderly =>
    /\ ~fault
    /\ \A c \in Clients :
         (at[c] = "act" /\ cmd[c].kind \notin Creates) \/ at[c] = "frames"
           => Allowed(c) /\ Touched(c) \subseteq Allocated

(* The clients at step st with a command on sprite or placement x. *)
During(st, k, x) ==
  {c \in Clients : at[c] = st /\ cmd[c].kind = k /\ x \in {cmd[c].sprite, cmd[c].placement}}

(* The clients that are to register the new canvas k, or to free the       *)
(* canvas k that they have taken out of the registry.                      *)
Holder(c) == (at[c] = "enter" /\ cmd[c].kind = "CreateCanvas") \/ at[c] = "delete"
Holding(k) == {c \in Clients : Holder(c) /\ cmd[c].canvas = k}

(* A canvas is registered, with a reference left, or in the hands of one   *)
(* handler, exactly while it is allocated, and never both: no failure      *)
(* leaks a canvas, and none is freed that is registered or freed already,  *)
(* whatever users do.                                                      *)
CanvasesRegistered ==
  \A k \in Canvases :
     /\ k \in canvases <=> Registered(k) \/ Holding(k) # {}
     /\ Registered(k) => Holding(k) = {} /\ canvasNode[k].refs > 0
     /\ \A c, d \in Holding(k) : c = d

(* The registry of sprites has a node for every sprite of the library, but *)
(* for those about to be entered, and none else but those about to be      *)
(* unlinked: no failure and no reuse of an address leaves a node behind.   *)
SpritesRegistered ==
  orderly =>
    \A s \in Sprites :
       Len(spriteNodes[s]) + Cardinality(During("enter", "CreateSprite", s))
         = Cardinality({s} \intersect sprites)
           + Cardinality(During("unlink", "DestroySprite", s))

(* A placement is registered once, on the canvas it is on, as soon as its  *)
(* handle can be known; and a freed one not at all, once animate_lock is   *)
(* released.                                                               *)
PlacementsRegistered ==
  orderly =>
    \A p \in Placements :
       placementNodes[p] =
         IF During("enter", "PlaceSprite", p) # {} THEN <<>>
         ELSE IF \E c \in During("unlink", "DestroyPlacement", p) : animateLock = c
         THEN placementNodes[p]
         ELSE IF placed[p] = Free THEN <<>> ELSE <<placed[p].canvas>>

(* Why: what a handler has in its hands and which locks it holds at each   *)
(* step, whatever users do.                                                *)
OnCanvas == {"PlaceSprite", "ShareCanvas", "Generate", "DestroyCanvas"}
KindsAt(st) ==
  CASE st = "ready"  -> {None}
    [] st = "check"  -> Uses \union Destroys
    [] st = "act"    -> Kinds \ {"ShareCanvas", "DestroyCanvas"}
    [] st = "enter"  -> Creates \union {"PlaceSprite"}
    [] st = "unlink" -> {"DestroySprite", "DestroyPlacement"}
    [] st = "delete" -> {"DestroyCanvas"}
    [] st = "frames" -> {"Generate"}
Shaped(st, r) ==
  /\ r.kind \in KindsAt(st)
  /\ r.canvas # None <=> r.kind \in OnCanvas \/ (st = "enter" /\ r.kind = "CreateCanvas")
  /\ r.sprite # None <=> \/ r.kind \in {"PlaceSprite", "DestroySprite"}
                         \/ st = "enter" /\ r.kind = "CreateSprite"
  /\ r.placement # None <=> \/ r.kind \in {"MovePlacement", "DestroyPlacement"}
                            \/ st = "enter" /\ r.kind = "PlaceSprite"
HandlerInv ==
  \A c \in Clients :
     /\ Shaped(at[c], cmd[c])
     /\ registryLock = c <=> at[c] = "delete"
     /\ animateLock = c <=> at[c] = "unlink" /\ cmd[c].kind = "DestroyPlacement"

(* References: the collaborators have one each, and the owner may have one. *)
RefsInv ==
  \A k \in Canvases : Registered(k) =>
     /\ canvasNode[k].owner \in Users \ canvasNode[k].shared
     /\ canvasNode[k].refs - Cardinality(canvasNode[k].shared) \in {0, 1}

(* Commands under way do not clash, except that the address of a sprite    *)
(* about to be unlinked may have been given to a new one.                  *)
ApartInv ==
  \A c, d \in Clients :
     c # d /\ Clash(c, cmd[c], d, cmd[d])
       => at[c] = "unlink" /\ cmd[c].kind = "DestroySprite" /\ cmd[d].kind = "CreateSprite"

(* The user of a command has what it names, until it is out of its hands. *)
HeldInv ==
  \A c \in Clients :
     LET r == cmd[c] u == user(c)
     IN  /\ r.kind # "CreateCanvas" /\ at[c] # "delete"
              => \A k \in NamedCanvases(r) : Holds(u, k)
         /\ r.sprite # None /\ at[c] \notin {"enter", "unlink"} => spriteOf[r.sprite] = u
         /\ at[c] = "act" /\ r.sprite # None => OwnsSprite(u, r.sprite)

(* A sprite whose handle a user has, or which is placed, is there and      *)
(* entered; a new one is there, and nobody knows of it.                    *)
SpriteInv ==
  /\ \A s \in Sprites : spriteOf[s] # None => s \in sprites
  /\ \A p \in Placements : placed[p] # Free =>
       placed[p].sprite \in Sprites /\ spriteOf[placed[p].sprite] # None
  /\ \A c \in Clients : at[c] = "enter" /\ cmd[c].kind = "CreateSprite" =>
       /\ cmd[c].sprite \in sprites /\ spriteOf[cmd[c].sprite] = None
       /\ \A d \in Clients \ {c} : at[d] = "enter" /\ cmd[d].kind = "CreateSprite"
                                   => cmd[d].sprite # cmd[c].sprite

(* A placement has one node or none, and is on a canvas that is there and  *)
(* entered; one about to be entered is named by one command only, and one  *)
(* about to be unlinked is free.                                           *)
PlacementInv ==
  /\ \A p \in Placements :
       /\ placementNodes[p] = <<>> \/ \E k \in Canvases : placementNodes[p] = <<k>>
       /\ placed[p] # Free =>
            /\ placed[p].canvas \in canvases
            /\ \A c \in Clients : at[c] = "enter" /\ cmd[c].kind = "CreateCanvas"
                                 => cmd[c].canvas # placed[p].canvas
  /\ \A c \in Clients :
       LET p == cmd[c].placement
       IN  /\ at[c] = "enter" /\ cmd[c].kind = "PlaceSprite" =>
                /\ placed[p] = [canvas |-> cmd[c].canvas, sprite |-> cmd[c].sprite]
                /\ \A d \in Clients \ {c} : cmd[d].placement # p
           /\ cmd[c].kind \in {"MovePlacement", "DestroyPlacement"} => placementNodes[p] # <<>>
           /\ cmd[c].kind = "DestroyPlacement" /\ at[c] = "unlink" => placed[p] = Free

ObjectsInv ==
  /\ HandlerInv /\ CanvasesRegistered
  /\ orderly => /\ ~fault
                /\ RefsInv /\ ApartInv /\ HeldInv /\ SpriteInv /\ PlacementInv
                /\ SpritesRegistered /\ PlacementsRegistered

(* Every command ends with a reply, unless two threads hold one lock each  *)
(* and wait for the other's, or freed memory was used.                     *)
LockCycle == registryLock # None /\ animateLock # None

CommandsEnd ==
  \A c \in Clients : at[c] # "ready" ~> at[c] = "ready" \/ LockCycle \/ fault

-------------------------------------------------------------------------------
(* What the repository says and the program does not do *)

(* "Concurrent canvas operations" are supported and "Prevention of live    *)
(* locks" was tested (README.md): threads never wait for each other's      *)
(* locks for ever.                                                         *)
NoLockCycle == ~LockCycle

===============================================================================
