--------------------------- MODULE CanvasObjectsProofs -------------------------
(* Theorems about CanvasObjects, for any clients, users and addresses, any *)
(* number of commands, and calls that fail.                                *)
EXTENDS CanvasObjects, WellFoundedInduction, TLAPS

(* What a handler has in its hands at each step. *)
CommandInv ==
  /\ at \in [Clients -> Places]
  /\ cmd \in [Clients -> Commands]
  /\ \A c \in Clients :
       /\ at[c] = "check" /\ cmd[c].kind \in {"ShareCanvas", "DestroyCanvas"}
            => cmd[c].canvas \in Canvases
       /\ Holder(c) => cmd[c].canvas \in Canvases
       /\ at[c] = "delete" => cmd[c].kind = "DestroyCanvas"

NodeInv ==
  canvasNode \in [Canvases -> [owner : Users \union {None}, shared : SUBSET Users, refs : Nat]]

CanvasInv == CommandInv /\ NodeInv /\ CanvasesRegistered

-------------------------------------------------------------------------------
LEMMA InitInv == Init => CanvasInv
  BY ObjectsAssumption
     DEF Init, CanvasInv, CommandInv, NodeInv, CanvasesRegistered, Registered,
         Holding, Holder, NoNode, NoCmd, Places, Commands

(* A step of c that touches no canvas and has none in its hands, neither   *)
(* before nor after.                                                       *)
LEMMA Quiet ==
  ASSUME CanvasInv, NEW c \in Clients, NEW a \in Places, NEW r \in Commands,
         at' = [at EXCEPT ![c] = a], cmd' = [cmd EXCEPT ![c] = r],
         UNCHANGED <<canvasNode, canvases>>,
         a = "check" /\ r.kind \in {"ShareCanvas", "DestroyCanvas"} => r.canvas \in Canvases,
         ~Holder(c), a # "delete", ~(a = "enter" /\ r.kind = "CreateCanvas")
  PROVE  CanvasInv'
<1>1. CommandInv'
  BY DEF CanvasInv, CommandInv, Holder
<1>2. NodeInv'
  BY DEF CanvasInv, NodeInv
<1>3. \A k \in Canvases : Holding(k)' = Holding(k)
  BY DEF CanvasInv, CommandInv, Holding, Holder
<1>4. CanvasesRegistered'
  BY <1>3 DEF CanvasInv, CanvasesRegistered, Registered
<1> QED
  BY <1>1, <1>2, <1>4 DEF CanvasInv

LEMMA SendInv ==
  ASSUME CanvasInv, NEW c \in Clients, NEW k \in Kinds, Send(c, k)
  PROVE  CanvasInv'
<1>1. PICK r \in Requests(k) : cmd' = [cmd EXCEPT ![c] = r]
  BY DEF Send
<1>2. r \in Commands /\ r.kind = k
  BY <1>1 DEF Requests, Commands
<1>3. k \in {"ShareCanvas", "DestroyCanvas"} => r.canvas \in Canvases
  BY <1>1 DEF Requests
<1>4. ~Holder(c)
  BY DEF Send, Holder
<1> QED
  BY <1>1, <1>2, <1>3, <1>4, Quiet DEF Send, registries, library, Places

(* A handler without a canvas in its hands replies, or goes on. *)
LEMMA ReplyInv ==
  ASSUME CanvasInv, NEW c \in Clients, Replies(c), ~Holder(c),
         UNCHANGED <<canvasNode, canvases>>
  PROVE  CanvasInv'
<1>1. NoCmd \in Commands
  BY DEF NoCmd, Commands
<1> QED
  BY <1>1, Quiet DEF Replies, Places

LEMMA GoInv ==
  ASSUME CanvasInv, NEW c \in Clients, NEW a \in {"act", "frames", "unlink"}, Goes(c, a),
         ~Holder(c), UNCHANGED <<canvasNode, canvases>>
  PROVE  CanvasInv'
<1>1. cmd' = [cmd EXCEPT ![c] = cmd[c]] /\ cmd[c] \in Commands
  BY DEF Goes, CanvasInv, CommandInv
<1> QED
  BY <1>1, Quiet DEF Goes, Places

(* The library gives c a sprite or a placement. *)
LEMMA TakeInv ==
  ASSUME CanvasInv, NEW c \in Clients, NEW r \in Commands, r.kind # "CreateCanvas",
         at' = [at EXCEPT ![c] = "enter"], cmd' = [cmd EXCEPT ![c] = r],
         ~Holder(c), UNCHANGED <<canvasNode, canvases>>
  PROVE  CanvasInv'
  BY Quiet DEF Places

LEMMA LibCreateInv ==
  ASSUME CanvasInv, NEW c \in Clients, LibCreate(c)
  PROVE  CanvasInv'
<1>1. ~Holder(c) /\ cmd[c] \in Commands
  BY DEF LibCreate, Steps, Holder, CanvasInv, CommandInv
<1>2. CASE cmd[c].kind = "CreateSprite"
  <2>1. PICK s \in Sprites : cmd' = [cmd EXCEPT ![c].sprite = s]
    BY <1>2 DEF LibCreate
  <2> DEFINE r == [cmd[c] EXCEPT !.sprite = s]
  <2>2. r \in Commands /\ r.kind # "CreateCanvas" /\ cmd' = [cmd EXCEPT ![c] = r]
    BY <1>1, <1>2, <2>1 DEF Commands
  <2> QED
    BY <1>1, <1>2, <2>2, TakeInv DEF LibCreate, registries
<1>3. CASE cmd[c].kind = "CreateCanvas"
  <2>1. PICK k \in Canvases \ canvases : /\ canvases' = canvases \union {k}
                                         /\ cmd' = [cmd EXCEPT ![c].canvas = k]
    BY <1>3 DEF LibCreate
  <2> DEFINE r == [cmd[c] EXCEPT !.canvas = k]
  <2>2. /\ r \in Commands /\ r.kind = "CreateCanvas" /\ r.canvas = k
        /\ cmd' = [cmd EXCEPT ![c] = r]
    BY <1>1, <1>3, <2>1 DEF Commands
  <2>3. at' = [at EXCEPT ![c] = "enter"] /\ canvasNode' = canvasNode
    BY <1>3 DEF LibCreate, registries
  <2> HIDE DEF r
  <2>4. CommandInv'
    BY <2>2, <2>3 DEF CanvasInv, CommandInv, Holder, Places
  <2>5. NodeInv'
    BY <2>3 DEF CanvasInv, NodeInv
  <2>6. Holding(k) = {} /\ ~Registered(k)
    BY <2>1 DEF CanvasInv, CanvasesRegistered
  <2>7. \A d \in Canvases : Holding(d)' = IF d = k THEN Holding(d) \union {c} ELSE Holding(d)
    BY <1>1, <2>2, <2>3 DEF CanvasInv, CommandInv, Holding, Holder
  <2>8. CanvasesRegistered'
    BY <2>1, <2>3, <2>6, <2>7 DEF CanvasInv, CanvasesRegistered, Registered
  <2> QED
    BY <2>4, <2>5, <2>8 DEF CanvasInv
<1> QED
  BY <1>2, <1>3 DEF LibCreate, Steps, Creates

(* c gives the canvas k out of its hands. *)
LEMMA ReleaseInv ==
  ASSUME CanvasInv, NEW c \in Clients, Holder(c), Replies(c), NEW k, k = cmd[c].canvas
  PROVE  /\ CommandInv' /\ k \in Canvases
         /\ ~Registered(k) /\ k \in canvases /\ Holding(k)' = {}
         /\ \A d \in Canvases \ {k} : Holding(d)' = Holding(d)
<1>1. k \in Canvases /\ c \in Holding(k)
  BY DEF CanvasInv, CommandInv, Holding
<1>2. ~Registered(k) /\ k \in canvases /\ Holding(k) = {c}
  BY <1>1 DEF CanvasInv, CanvasesRegistered
<1>3. CommandInv'
  BY DEF CanvasInv, CommandInv, Replies, NoCmd, Holder, Places, Commands
<1>4. \A d \in Clients : /\ Holder(d)' <=> Holder(d) /\ d # c
                         /\ d # c => cmd'[d] = cmd[d]
  BY DEF CanvasInv, CommandInv, Replies, NoCmd, Holder
<1>5. \A d \in Canvases : Holding(d)' = Holding(d) \ {c}
  BY <1>4 DEF Holding
<1>6. \A d \in Canvases \ {k} : c \notin Holding(d)
  BY DEF Holding
<1> QED
  BY <1>1, <1>2, <1>3, <1>5, <1>6

-------------------------------------------------------------------------------
LEMMA EnterCanvasInv ==
  ASSUME CanvasInv, NEW c \in Clients, EnterCanvas(c)
  PROVE  CanvasInv'
<1>0. PICK k : k = cmd[c].canvas
  OBVIOUS
<1>1. /\ Holder(c) /\ Replies(c) /\ canvases' = canvases
      /\ canvasNode' = [canvasNode EXCEPT
                          ![k] = [owner |-> user(c), shared |-> {}, refs |-> 1]]
  BY <1>0 DEF EnterCanvas, Steps, Holder, library
<1>2. /\ CommandInv' /\ k \in Canvases /\ k \in canvases /\ Holding(k)' = {}
      /\ \A d \in Canvases \ {k} : Holding(d)' = Holding(d)
  BY <1>0, <1>1, ReleaseInv
<1>3. user(c) \in Users
  BY ObjectsAssumption DEF user
<1>4. NodeInv'
  BY <1>1, <1>2, <1>3 DEF CanvasInv, NodeInv
<1>5. Registered(k)' /\ \A d \in Canvases \ {k} : canvasNode'[d] = canvasNode[d]
  BY <1>1, <1>2 DEF Registered, NoNode, CanvasInv, NodeInv
<1>6. canvasNode'[k].refs > 0
  BY <1>1, <1>2 DEF CanvasInv, NodeInv
<1>7. CanvasesRegistered'
  BY <1>1, <1>2, <1>5, <1>6 DEF CanvasInv, CanvasesRegistered, Registered
<1> QED
  BY <1>2, <1>4, <1>7 DEF CanvasInv

LEMMA EnterFailsInv ==
  ASSUME CanvasInv, NEW c \in Clients, EnterFails(c)
  PROVE  CanvasInv'
<1>1. CASE cmd[c].kind # "CreateCanvas"
  <2>1. ~Holder(c) /\ Replies(c) /\ UNCHANGED <<canvasNode, canvases>>
    BY <1>1 DEF EnterFails, Steps, Holder, registries
  <2> QED
    BY <2>1, ReplyInv
<1>2. CASE cmd[c].kind = "CreateCanvas"
  <2>0. PICK k : k = cmd[c].canvas
    OBVIOUS
  <2>1. /\ Holder(c) /\ Replies(c) /\ canvasNode' = canvasNode
        /\ canvases' = canvases \ {k}
    BY <1>2, <2>0 DEF EnterFails, Steps, Holder, registries, Touched
  <2>2. /\ CommandInv' /\ k \in Canvases /\ ~Registered(k) /\ Holding(k)' = {}
        /\ \A d \in Canvases \ {k} : Holding(d)' = Holding(d)
    BY <2>0, <2>1, ReleaseInv
  <2>3. CanvasesRegistered' /\ NodeInv'
    BY <2>1, <2>2 DEF CanvasInv, CanvasesRegistered, Registered, NodeInv
  <2> QED
    BY <2>2, <2>3 DEF CanvasInv
<1> QED
  BY <1>1, <1>2

LEMMA DeleteCanvasInv ==
  ASSUME CanvasInv, NEW c \in Clients, DeleteCanvas(c)
  PROVE  CanvasInv'
<1>0. PICK k : k = cmd[c].canvas
  OBVIOUS
<1>1. /\ Holder(c) /\ Replies(c) /\ canvasNode' = canvasNode
      /\ canvases' = canvases \ {k}
  BY <1>0 DEF DeleteCanvas, Steps, Holder
<1>2. /\ CommandInv' /\ k \in Canvases /\ ~Registered(k) /\ Holding(k)' = {}
      /\ \A d \in Canvases \ {k} : Holding(d)' = Holding(d)
  BY <1>0, <1>1, ReleaseInv
<1>3. CanvasesRegistered' /\ NodeInv'
  BY <1>1, <1>2 DEF CanvasInv, CanvasesRegistered, Registered, NodeInv
<1> QED
  BY <1>2, <1>3 DEF CanvasInv

(* The node of a registered canvas is updated; a reference remains. *)
LEMMA NodeUpdated ==
  ASSUME CanvasInv, NEW c \in Clients, ~Holder(c), Replies(c), canvases' = canvases,
         NEW k \in Canvases, Registered(k),
         NEW n \in [owner : Users \union {None}, shared : SUBSET Users, refs : Nat],
         n.refs > 0, canvasNode' = [canvasNode EXCEPT ![k] = n]
  PROVE  CanvasInv'
<1>1. CommandInv'
  BY DEF CanvasInv, CommandInv, Replies, NoCmd, Holder, Places, Commands
<1>2. NodeInv'
  BY DEF CanvasInv, NodeInv
<1>3. \A d \in Canvases : Holding(d)' = Holding(d)
  BY DEF CanvasInv, CommandInv, Replies, NoCmd, Holding, Holder
<1>4. /\ canvasNode'[k] = n /\ n # NoNode
      /\ \A d \in Canvases \ {k} : canvasNode'[d] = canvasNode[d]
  BY DEF CanvasInv, NodeInv, NoNode
<1>5. CanvasesRegistered'
  BY <1>3, <1>4 DEF CanvasInv, CanvasesRegistered, Registered
<1> QED
  BY <1>1, <1>2, <1>5 DEF CanvasInv

LEMMA ShareCanvasInv ==
  ASSUME CanvasInv, NEW c \in Clients, ShareCanvas(c)
  PROVE  CanvasInv'
<1> DEFINE k == cmd[c].canvas
<1>1. ~Holder(c) /\ Replies(c) /\ canvases' = canvases /\ Registered(k) /\ k \in Canvases
  BY DEF ShareCanvas, Steps, Holder, library, Allowed, HasAccess, CanvasInv, CommandInv
<1>2. PICK u \in Users :
        canvasNode' = IF HasAccess(u, k) THEN canvasNode
                      ELSE [canvasNode EXCEPT ![k].shared = @ \union {u}, ![k].refs = @ + 1]
  BY DEF ShareCanvas
<1>3. CASE canvasNode' = canvasNode
  BY <1>1, <1>3, ReplyInv
<1>4. CASE canvasNode' = [canvasNode EXCEPT ![k].shared = @ \union {u}, ![k].refs = @ + 1]
  <2> DEFINE n == [owner |-> canvasNode[k].owner, shared |-> canvasNode[k].shared \union {u},
                   refs |-> canvasNode[k].refs + 1]
  <2>1. canvasNode' = [canvasNode EXCEPT ![k] = n]
    BY <1>1, <1>4 DEF CanvasInv, NodeInv
  <2>2. /\ n \in [owner : Users \union {None}, shared : SUBSET Users, refs : Nat]
        /\ n.refs > 0
    BY <1>1 DEF CanvasInv, NodeInv
  <2> HIDE DEF n
  <2> QED
    BY <1>1, <2>1, <2>2, NodeUpdated
<1> QED
  BY <1>2, <1>3, <1>4

LEMMA ReleaseCanvasInv ==
  ASSUME CanvasInv, NEW c \in Clients, ReleaseCanvas(c)
  PROVE  CanvasInv'
<1>0. PICK k : k = cmd[c].canvas
  OBVIOUS
<1>1. /\ ~Holder(c) /\ canvases' = canvases /\ Registered(k) /\ k \in Canvases
      /\ cmd[c].kind = "DestroyCanvas"
  BY <1>0 DEF ReleaseCanvas, Steps, Holder, library, Allowed, HasAccess, CanvasInv, CommandInv
<1>2. CASE LastReference(k)
  <2>1. /\ canvasNode' = [canvasNode EXCEPT ![k] = NoNode]
        /\ at' = [at EXCEPT ![c] = "delete"] /\ cmd' = cmd
    BY <1>0, <1>2 DEF ReleaseCanvas, Goes
  <2>2. CommandInv'
    BY <1>0, <1>1, <2>1 DEF CanvasInv, CommandInv, Holder, Places
  <2>3. NodeInv'
    BY <2>1 DEF CanvasInv, NodeInv, NoNode
  <2>4. /\ \A d \in Clients : Holder(d)' <=> Holder(d) \/ d = c
        /\ \A d \in Canvases : Holding(d)' = IF d = k THEN Holding(d) \union {c} ELSE Holding(d)
    BY <1>0, <1>1, <2>1 DEF CanvasInv, CommandInv, Holding, Holder
  <2>5. /\ Holding(k)' = {c} /\ k \in canvases /\ ~Registered(k)'
        /\ \A d \in Canvases \ {k} : canvasNode'[d] = canvasNode[d]
    BY <1>1, <2>1, <2>4 DEF CanvasInv, CanvasesRegistered, NodeInv, Registered
  <2>6. CanvasesRegistered'
    BY <1>1, <2>4, <2>5 DEF CanvasInv, CanvasesRegistered, Registered
  <2> QED
    BY <2>2, <2>3, <2>6 DEF CanvasInv
<1>3. CASE ~LastReference(k)
  <2> DEFINE n == [owner |-> canvasNode[k].owner, shared |-> canvasNode[k].shared \ {user(c)},
                   refs |-> canvasNode[k].refs - 1]
  <2>1. /\ canvasNode' = [canvasNode EXCEPT ![k].shared = @ \ {user(c)}, ![k].refs = @ - 1]
        /\ Replies(c)
    BY <1>0, <1>3 DEF ReleaseCanvas
  <2>2. canvasNode' = [canvasNode EXCEPT ![k] = n]
    BY <1>1, <2>1 DEF CanvasInv, NodeInv
  <2>3. /\ n \in [owner : Users \union {None}, shared : SUBSET Users, refs : Nat]
        /\ n.refs > 0
    BY <1>1, <1>3 DEF CanvasInv, NodeInv, LastReference
  <2> HIDE DEF n
  <2> QED
    BY <1>1, <2>1, <2>2, <2>3, NodeUpdated
<1> QED
  BY <1>2, <1>3

LEMMA LibPlaceInv ==
  ASSUME CanvasInv, NEW c \in Clients, LibPlace(c)
  PROVE  CanvasInv'
<1>1. PICK p \in Placements : cmd' = [cmd EXCEPT ![c].placement = p]
  BY DEF LibPlace
<1>2. /\ ~Holder(c) /\ cmd[c] \in Commands /\ cmd[c].kind = "PlaceSprite"
      /\ at' = [at EXCEPT ![c] = "enter"] /\ UNCHANGED <<canvasNode, canvases>>
  BY DEF LibPlace, Steps, Holder, registries, CanvasInv, CommandInv
<1> DEFINE r == [cmd[c] EXCEPT !.placement = p]
<1>3. r \in Commands /\ r.kind # "CreateCanvas" /\ cmd' = [cmd EXCEPT ![c] = r]
  BY <1>1, <1>2 DEF Commands
<1> QED
  BY <1>2, <1>3, TakeInv

LEMMA ThreadInv ==
  ASSUME CanvasInv, NEW c \in Clients, Thread(c)
  PROVE  CanvasInv'
<1>1. CASE LibCreateFails(c) \/ Refuse(c) \/ LibMove(c) \/ GenerateFails(c) \/ GenerateEnd(c)
           \/ EnterSprite(c) \/ EnterPlacement(c) \/ UnlinkSprite(c) \/ UnlinkPlacement(c)
  <2>1. ~Holder(c) /\ Replies(c) /\ UNCHANGED <<canvasNode, canvases>>
    BY <1>1 DEF LibCreateFails, Refuse, LibMove, GenerateFails, GenerateEnd, EnterSprite,
                EnterPlacement, UnlinkSprite, UnlinkPlacement, Steps, Holder, registries, library
  <2> QED
    BY <2>1, ReplyInv
<1>2. CASE Check(c) \/ GenerateStart(c) \/ LibDestroyPlacement(c)
  <2>1. /\ ~Holder(c) /\ UNCHANGED <<canvasNode, canvases>>
        /\ \E a \in {"act", "frames", "unlink"} : Goes(c, a)
    BY <1>2 DEF Check, GenerateStart, LibDestroyPlacement, Steps, Holder, registries, library
  <2> QED
    BY <2>1, GoInv
<1>3. CASE LibDestroySprite(c)
  <2>1. ~Holder(c) /\ UNCHANGED <<canvasNode, canvases>> /\ (Replies(c) \/ Goes(c, "unlink"))
    BY <1>3 DEF LibDestroySprite, Steps, Holder, registries
  <2> QED
    BY <2>1, ReplyInv, GoInv
<1>4. CASE UseFreed(c) \/ DestroyUnregistered(c)
  BY <1>4 DEF UseFreed, DestroyUnregistered, Faults, registries, library, CanvasInv,
              CommandInv, NodeInv, CanvasesRegistered, Registered, Holding, Holder
<1> QED
  BY <1>1, <1>2, <1>3, <1>4, LibCreateInv, EnterCanvasInv, EnterFailsInv, ShareCanvasInv,
     LibPlaceInv, ReleaseCanvasInv, DeleteCanvasInv DEF Thread

-------------------------------------------------------------------------------
(* The inductive invariant: what each handler has in its hands, the types  *)
(* of the nodes, and CanvasesRegistered.                                   *)
THEOREM CanvasInvariant == Spec => []CanvasInv
<1>1. CanvasInv /\ [Next]_vars => CanvasInv'
  <2> SUFFICES ASSUME CanvasInv, [Next]_vars PROVE CanvasInv'
    OBVIOUS
  <2>1. CASE UNCHANGED vars
    BY <2>1 DEF vars, registries, library, CanvasInv, CommandInv, NodeInv,
                CanvasesRegistered, Registered, Holding, Holder
  <2>2. ASSUME NEW c \in Clients, NEW k \in Kinds, Send(c, k) PROVE CanvasInv'
    BY <2>2, SendInv
  <2>3. ASSUME NEW c \in Clients, Thread(c) PROVE CanvasInv'
    BY <2>3, ThreadInv
  <2> QED
    BY <2>1, <2>2, <2>3 DEF Next
<1> QED
  BY <1>1, InitInv, PTL DEF Spec

(* Whatever users, threads and failing calls do, a canvas is in the        *)
(* registry, or in the hands of one handler, exactly while it is allocated *)
(* in the library (handle_create_canvas, handle_destroy_canvas).           *)
THEOREM CanvasesAgree == Spec => []CanvasesRegistered
<1>1. CanvasInv => CanvasesRegistered
  BY DEF CanvasInv
<1> QED
  BY <1>1, CanvasInvariant, PTL

-------------------------------------------------------------------------------
(* Sequences without the nodes for one canvas: what a recursive function   *)
(* computes, by its least counterexample.                                  *)

(* A set of numbers that is not empty has a least one. *)
LEMMA LeastNumber ==
  ASSUME NEW T \in SUBSET Nat, T # {}
  PROVE  \E n \in T : \A m \in T : n <= m
<1> DEFINE R == {ss \in Nat \X Nat : ss[1] < ss[2]}
<1>1. IsWellFoundedOn(R, Nat)
  BY NatLessThanWellFounded, Zenon DEF OpToRel
<1>2. PICK n \in T : \A m \in T : ~(<<m, n>> \in R)
  <2> HIDE DEF R
  <2> QED
    BY <1>1, WFMin, Zenon
<1>3. ASSUME NEW m \in T PROVE n <= m
  <2>1. n \in Nat /\ m \in Nat
    OBVIOUS
  <2>2. <<m, n>> \in Nat \X Nat
    BY <2>1, Zenon
  <2>3. <<m, n>>[1] = m /\ <<m, n>>[2] = n
    BY Zenon
  <2>4. ~(<<m, n>>[1] < <<m, n>>[2])
    BY <1>2, <2>2, Zenon
  <2> QED
    BY <2>1, <2>3, <2>4
<1> QED
  BY <1>3

(* The recursion of Without is well defined: step by step there is a       *)
(* function that satisfies it.                                             *)
Filters(g, q, k, n) ==
  /\ g[0] = <<>>
  /\ \A i \in 1 .. n : g[i] = IF q[i] = k THEN g[i - 1] ELSE Append(g[i - 1], q[i])

LEMMA FilterExists ==
  ASSUME NEW S, NEW q \in Seq(S), NEW k
  PROVE  \E g \in [0 .. Len(q) -> Seq(S)] : Filters(g, q, k, Len(q))
<1> DEFINE P(n) == \E g \in [0 .. n -> Seq(S)] : Filters(g, q, k, n)
           T == {n \in 0 .. Len(q) : ~P(n)}
<1>0. Len(q) \in Nat
  OBVIOUS
<1>1. SUFFICES ASSUME T # {} PROVE FALSE
  BY DEF T
<1>2. PICK n \in T : \A m \in T : n <= m
  <2>1. T \in SUBSET Nat
    OBVIOUS
  <2> HIDE DEF T
  <2> QED
    BY <1>1, <2>1, LeastNumber
<1>3. CASE n = 0
  <2> DEFINE g == [i \in 0 .. 0 |-> <<>>]
  <2>1. g \in [0 .. 0 -> Seq(S)] /\ g[0] = <<>>
    OBVIOUS
  <2>2. Filters(g, q, k, 0)
    <3> HIDE DEF g
    <3> QED
      BY <2>1 DEF Filters
  <2>3. P(0)
    BY <2>1, <2>2
  <2> QED
    BY <1>3, <2>3
<1>4. CASE n # 0
  <2>0. n \in 1 .. Len(q) /\ n - 1 \in 0 .. Len(q) /\ n - 1 \notin T
    <3>1. n \in 1 .. Len(q) /\ n - 1 \in 0 .. Len(q) /\ ~(n <= n - 1)
      BY <1>0, <1>4
    <3> QED
      BY <1>2, <3>1
  <2>1. PICK g \in [0 .. (n - 1) -> Seq(S)] : Filters(g, q, k, n - 1)
    BY <2>0
  <2> DEFINE last == IF q[n] = k THEN g[n - 1] ELSE Append(g[n - 1], q[n])
             h == [i \in 0 .. n |-> IF i = n THEN last ELSE g[i]]
  <2>2. q[n] \in S /\ g[n - 1] \in Seq(S)
    BY <2>0
  <2>3. last \in Seq(S)
    BY <2>2
  <2>4. \A i \in 0 .. n : i # n => i \in 0 .. (n - 1)
    BY <2>0
  <2>5. h \in [0 .. n -> Seq(S)]
    <3> HIDE DEF last
    <3> QED
      BY <2>3, <2>4
  <2>6. Filters(h, q, k, n)
    <3>1. h[0] = <<>>
      BY <2>0, <2>1 DEF Filters
    <3>2. ASSUME NEW i \in 1 .. n
          PROVE  h[i] = IF q[i] = k THEN h[i - 1] ELSE Append(h[i - 1], q[i])
      <4>1. i \in 0 .. n /\ i - 1 \in 0 .. n /\ i - 1 # n
        BY <2>0
      <4>2. h[i - 1] = g[i - 1]
        BY <4>1
      <4>3. CASE i = n
        BY <4>1, <4>2, <4>3
      <4>4. CASE i # n
        <5>1. i \in 1 .. (n - 1) /\ h[i] = g[i]
          BY <2>0, <4>1, <4>4
        <5> QED
          BY <2>1, <4>2, <5>1 DEF Filters
      <4> QED
        BY <4>3, <4>4
    <3> QED
      BY <3>1, <3>2 DEF Filters
  <2>7. P(n)
    <3> HIDE DEF h
    <3> QED
      BY <2>5, <2>6
  <2> QED
    BY <2>7
<1> QED
  BY <1>3, <1>4

(* Without removes nodes and adds none. *)
LEMMA WithoutOf ==
  ASSUME NEW S, NEW q \in Seq(S), NEW k
  PROVE  /\ Without(q, k) \in Seq(S)
         /\ q = <<>> => Without(q, k) = <<>>
         /\ \A x \in S : q = <<x>> => Without(q, k) = IF x = k THEN <<>> ELSE <<x>>
<1>0. Len(q) \in Nat
  OBVIOUS
<1> DEFINE G(g) == [i \in 0 .. Len(q) |->
                      IF i = 0 THEN <<>>
                      ELSE IF q[i] = k THEN g[i - 1] ELSE Append(g[i - 1], q[i])]
           kept == CHOOSE g : g = G(g)
<1>1. PICK f \in [0 .. Len(q) -> Seq(S)] : Filters(f, q, k, Len(q))
  BY FilterExists
<1>2. f = G(f)
  <2>1. ASSUME NEW i \in 0 .. Len(q) PROVE f[i] = G(f)[i]
    <3>1. i = 0 \/ i \in 1 .. Len(q)
      BY <1>0
    <3> QED
      BY <1>1, <3>1 DEF Filters
  <2>2. f = [i \in 0 .. Len(q) |-> f[i]]
    BY <1>1
  <2> QED
    BY <2>1, <2>2
<1>3. kept = G(kept)
  <2> HIDE DEF G
  <2> QED
    BY <1>2
<1>4. Without(q, k) = kept[Len(q)]
  BY DEF Without
<1>5. Filters(kept, q, k, Len(q))
  <2> HIDE DEF kept
  <2>1. 0 \in 0 .. Len(q) /\ 1 .. Len(q) \subseteq 0 .. Len(q) \ {0}
    BY <1>0
  <2>2. kept[0] = <<>>
    BY <1>3, <2>1
  <2>3. ASSUME NEW i \in 1 .. Len(q)
        PROVE  kept[i] = IF q[i] = k THEN kept[i - 1] ELSE Append(kept[i - 1], q[i])
    BY <1>3, <2>1
  <2> QED
   BY <2>2, <2>3 DEF Filters
<1> HIDE DEF G, kept
<1>6. \A i \in 0 .. Len(q) : kept[i] \in Seq(S)
  <2> DEFINE T == {i \in 0 .. Len(q) : kept[i] \notin Seq(S)}
  <2>1. SUFFICES ASSUME T # {} PROVE FALSE
    OBVIOUS
  <2>2. PICK n \in T : \A m \in T : n <= m
    <3>1. T \in SUBSET Nat
      OBVIOUS
    <3> HIDE DEF T
    <3> QED
      BY <2>1, <3>1, LeastNumber
  <2>3. n # 0 /\ n \in 1 .. Len(q)
    <3>1. kept[0] = <<>> /\ <<>> \in Seq(S)
      BY <1>5 DEF Filters
    <3>2. n \in 0 .. Len(q) /\ kept[n] \notin Seq(S)
      BY <2>2
    <3>3. n # 0
      BY <3>1, <3>2
    <3> QED
      BY <1>0, <3>2, <3>3
  <2>4. n - 1 \in 0 .. Len(q) /\ n - 1 \notin T
    BY <1>0, <2>2, <2>3
  <2>5. kept[n - 1] \in Seq(S) /\ q[n] \in S
    BY <2>3, <2>4
  <2>6. kept[n] = IF q[n] = k THEN kept[n - 1] ELSE Append(kept[n - 1], q[n])
    BY <1>5, <2>3 DEF Filters
  <2>7. kept[n] \in Seq(S)
    BY <2>5, <2>6
  <2> QED
    BY <2>7
<1>7. q = <<>> => kept[Len(q)] = <<>>
  BY <1>5 DEF Filters
<1>8. ASSUME NEW x \in S, q = <<x>>
      PROVE  kept[Len(q)] = IF x = k THEN <<>> ELSE <<x>>
  <2>1. Len(q) = 1 /\ q[1] = x /\ 1 \in 1 .. Len(q)
    BY <1>8
  <2>2. kept[1] = IF x = k THEN kept[0] ELSE Append(kept[0], x)
    <3>1. kept[1] = IF q[1] = k THEN kept[1 - 1] ELSE Append(kept[1 - 1], q[1])
      BY <1>5, <2>1 DEF Filters
    <3> QED
      BY <2>1, <3>1
  <2> QED
    BY <1>5, <2>1, <2>2 DEF Filters
<1> QED
  BY <1>4, <1>6, <1>7, <1>8

-------------------------------------------------------------------------------
(* Handlers and locks *)

(* A step of c that leaves its command in the shape of its next place, and *)
(* takes and gives back the locks as that place says.                      *)
LEMMA HandlerStep ==
  ASSUME CanvasInv, HandlerInv, NEW c \in Clients, NEW a, NEW r,
         at' = [at EXCEPT ![c] = a], cmd' = [cmd EXCEPT ![c] = r], Shaped(a, r),
         IF a = "delete" THEN registryLock' = c /\ registryLock \in {c, None}
         ELSE registryLock' = IF at[c] = "delete" THEN None ELSE registryLock,
         IF a = "unlink" /\ r.kind = "DestroyPlacement"
         THEN animateLock' = c /\ animateLock \in {c, None}
         ELSE animateLock' = IF at[c] = "unlink" /\ cmd[c].kind = "DestroyPlacement"
                             THEN None ELSE animateLock
  PROVE  HandlerInv'
<1>1. at'[c] = a /\ cmd'[c] = r
  BY DEF CanvasInv, CommandInv
<1>2. \A d \in Clients \ {c} : at'[d] = at[d] /\ cmd'[d] = cmd[d]
  BY DEF CanvasInv, CommandInv
<1>3. None \notin Clients
  BY ObjectsAssumption
<1>4. \A d \in Clients \ {c} : registryLock' = d <=> registryLock = d
  BY <1>3 DEF HandlerInv
<1>5. \A d \in Clients \ {c} : animateLock' = d <=> animateLock = d
  BY <1>3 DEF HandlerInv
<1>6. registryLock' = c <=> a = "delete"
  BY <1>3 DEF HandlerInv
<1>7. animateLock' = c <=> a = "unlink" /\ r.kind = "DestroyPlacement"
  BY <1>3 DEF HandlerInv
<1>8. \A d \in Clients : Shaped(at'[d], cmd'[d])
  BY <1>1, <1>2 DEF HandlerInv
<1> QED
  BY <1>1, <1>2, <1>4, <1>5, <1>6, <1>7, <1>8 DEF HandlerInv, Shaped

LEMMA NoCmdShaped == Shaped("ready", NoCmd)
  BY ObjectsAssumption DEF Shaped, NoCmd, KindsAt, OnCanvas, Kinds, Creates, Uses, Destroys

(* A handler that holds no lock replies. *)
LEMMA ReplyHandler ==
  ASSUME CanvasInv, HandlerInv, NEW c \in Clients, Replies(c), UNCHANGED locks,
         at[c] # "delete", ~(at[c] = "unlink" /\ cmd[c].kind = "DestroyPlacement")
  PROVE  HandlerInv'
  BY HandlerStep, NoCmdShaped DEF Replies, locks

(* It goes on with its command. *)
LEMMA GoHandler ==
  ASSUME CanvasInv, HandlerInv, NEW c \in Clients, NEW a, Goes(c, a), UNCHANGED locks,
         at[c] # "delete", ~(at[c] = "unlink" /\ cmd[c].kind = "DestroyPlacement"),
         a # "delete", ~(a = "unlink" /\ cmd[c].kind = "DestroyPlacement"),
         Shaped(a, cmd[c])
  PROVE  HandlerInv'
<1>1. cmd' = [cmd EXCEPT ![c] = cmd[c]]
  BY DEF Goes, CanvasInv, CommandInv
<1> QED
  BY <1>1, HandlerStep DEF Goes, locks

LEMMA SendHandler ==
  ASSUME CanvasInv, HandlerInv, NEW c \in Clients, NEW k \in Kinds, Send(c, k)
  PROVE  HandlerInv'
<1>1. PICK r \in Requests(k) : cmd' = [cmd EXCEPT ![c] = r]
  BY DEF Send
<1> DEFINE a == IF k \in Creates THEN "act" ELSE "check"
<1>2. at' = [at EXCEPT ![c] = a] /\ at[c] = "ready" /\ UNCHANGED locks
  BY DEF Send
<1>3. /\ r.kind = k
      /\ r.canvas # None <=> k \in OnCanvas
      /\ r.sprite # None <=> k \in {"PlaceSprite", "DestroySprite"}
      /\ r.placement # None <=> k \in {"MovePlacement", "DestroyPlacement"}
  BY <1>1, ObjectsAssumption DEF Requests, OnCanvas
<1>4. Shaped(a, r)
  BY <1>3 DEF Shaped, KindsAt, Kinds, Creates, Uses, Destroys, OnCanvas
<1> HIDE DEF a
<1>5. a \in {"act", "check"}
  BY DEF a
<1> QED
  BY <1>1, <1>2, <1>4, <1>5, HandlerStep DEF locks

LEMMA LibCreateHandler ==
  ASSUME CanvasInv, HandlerInv, NEW c \in Clients, LibCreate(c)
  PROVE  HandlerInv'
<1>1. /\ at[c] = "act" /\ cmd[c].kind \in Creates /\ Shaped("act", cmd[c])
      /\ cmd[c] \in Commands /\ UNCHANGED locks /\ at' = [at EXCEPT ![c] = "enter"]
  BY DEF LibCreate, Steps, HandlerInv, CanvasInv, CommandInv
<1>2. CASE cmd[c].kind = "CreateCanvas"
  <2>1. PICK k \in Canvases : cmd' = [cmd EXCEPT ![c].canvas = k]
    BY <1>2 DEF LibCreate
  <2> DEFINE r == [cmd[c] EXCEPT !.canvas = k]
  <2>2. /\ cmd' = [cmd EXCEPT ![c] = r]
        /\ r.kind = "CreateCanvas" /\ r.canvas = k
        /\ r.sprite = cmd[c].sprite /\ r.placement = cmd[c].placement
    BY <1>1, <1>2, <2>1 DEF CanvasInv, CommandInv, Commands
  <2> HIDE DEF r
  <2>3. Shaped("enter", r)
    BY <1>1, <1>2, <2>2, ObjectsAssumption DEF Shaped, KindsAt, OnCanvas, Creates
  <2> QED
    BY <1>1, <2>2, <2>3, HandlerStep DEF locks
<1>3. CASE cmd[c].kind = "CreateSprite"
  <2>1. PICK s \in Sprites : cmd' = [cmd EXCEPT ![c].sprite = s]
    BY <1>3 DEF LibCreate
  <2> DEFINE r == [cmd[c] EXCEPT !.sprite = s]
  <2>2. /\ cmd' = [cmd EXCEPT ![c] = r]
        /\ r.kind = "CreateSprite" /\ r.sprite = s
        /\ r.canvas = cmd[c].canvas /\ r.placement = cmd[c].placement
    BY <1>1, <1>3, <2>1 DEF CanvasInv, CommandInv, Commands
  <2> HIDE DEF r
  <2>3. Shaped("enter", r)
    BY <1>1, <1>3, <2>2, ObjectsAssumption DEF Shaped, KindsAt, OnCanvas, Creates
  <2> QED
    BY <1>1, <2>2, <2>3, HandlerStep DEF locks
<1> QED
  BY <1>1, <1>2, <1>3 DEF Creates

LEMMA LibPlaceHandler ==
  ASSUME CanvasInv, HandlerInv, NEW c \in Clients, LibPlace(c)
  PROVE  HandlerInv'
<1>1. /\ at[c] = "act" /\ cmd[c].kind = "PlaceSprite" /\ Shaped("act", cmd[c])
      /\ cmd[c] \in Commands /\ UNCHANGED locks /\ at' = [at EXCEPT ![c] = "enter"]
  BY DEF LibPlace, Steps, HandlerInv, CanvasInv, CommandInv
<1>2. PICK p \in Placements : cmd' = [cmd EXCEPT ![c].placement = p]
  BY DEF LibPlace
<1> DEFINE r == [cmd[c] EXCEPT !.placement = p]
<1>3. /\ cmd' = [cmd EXCEPT ![c] = r]
      /\ r.kind = "PlaceSprite" /\ r.placement = p
      /\ r.canvas = cmd[c].canvas /\ r.sprite = cmd[c].sprite
  BY <1>1, <1>2 DEF CanvasInv, CommandInv, Commands
<1> HIDE DEF r
<1>4. Shaped("enter", r)
  BY <1>1, <1>3, ObjectsAssumption DEF Shaped, KindsAt, OnCanvas, Creates
<1> QED
  BY <1>1, <1>3, <1>4, HandlerStep DEF locks

LEMMA ThreadHandler ==
  ASSUME CanvasInv, HandlerInv, NEW c \in Clients, Thread(c)
  PROVE  HandlerInv'
<1>0. Shaped(at[c], cmd[c])
  BY DEF HandlerInv
<1>1. CASE LibCreateFails(c) \/ Refuse(c) \/ LibMove(c) \/ GenerateFails(c) \/ GenerateEnd(c)
           \/ EnterCanvas(c) \/ EnterSprite(c) \/ EnterPlacement(c) \/ EnterFails(c)
           \/ ShareCanvas(c) \/ UnlinkSprite(c)
  <2>1. /\ Replies(c) /\ UNCHANGED locks /\ at[c] # "delete"
        /\ ~(at[c] = "unlink" /\ cmd[c].kind = "DestroyPlacement")
    BY <1>1 DEF LibCreateFails, Refuse, LibMove, GenerateFails, GenerateEnd, EnterCanvas,
                EnterSprite, EnterPlacement, EnterFails, ShareCanvas, UnlinkSprite, Steps
  <2> QED
    BY <2>1, ReplyHandler
<1>2. CASE Check(c)
  <2>1. /\ Goes(c, "act") /\ UNCHANGED locks /\ at[c] = "check"
        /\ cmd[c].kind \in {"PlaceSprite", "MovePlacement", "Generate", "DestroySprite",
                            "DestroyPlacement"}
    BY <1>2 DEF Check, Steps
  <2>2. Shaped("act", cmd[c])
    BY <1>0, <2>1 DEF Shaped, KindsAt, Kinds, Creates, Uses, Destroys
  <2> QED
    BY <2>1, <2>2, GoHandler
<1>3. CASE GenerateStart(c)
  <2>1. /\ Goes(c, "frames") /\ UNCHANGED locks /\ at[c] = "act" /\ cmd[c].kind = "Generate"
    BY <1>3 DEF GenerateStart, Steps
  <2>2. Shaped("frames", cmd[c])
    BY <1>0, <2>1 DEF Shaped, KindsAt
  <2> QED
    BY <2>1, <2>2, GoHandler
<1>4. CASE LibDestroySprite(c)
  <2>1. /\ Replies(c) \/ Goes(c, "unlink")
        /\ UNCHANGED locks /\ at[c] = "act" /\ cmd[c].kind = "DestroySprite"
    BY <1>4 DEF LibDestroySprite, Steps
  <2>2. Shaped("unlink", cmd[c])
    BY <1>0, <2>1 DEF Shaped, KindsAt
  <2> QED
    BY <2>1, <2>2, GoHandler, ReplyHandler
<1>5. CASE LibDestroyPlacement(c)
  <2>1. /\ Goes(c, "unlink") /\ registryLock' = registryLock
        /\ at[c] = "act" /\ cmd[c].kind = "DestroyPlacement"
        /\ animateLock = None /\ animateLock' = c
    BY <1>5 DEF LibDestroyPlacement, Steps
  <2>2. Shaped("unlink", cmd[c])
    BY <1>0, <2>1 DEF Shaped, KindsAt
  <2>3. cmd' = [cmd EXCEPT ![c] = cmd[c]] /\ at' = [at EXCEPT ![c] = "unlink"]
    BY <2>1 DEF Goes, CanvasInv, CommandInv
  <2> QED
    BY <2>1, <2>2, <2>3, HandlerStep
<1>6. CASE UnlinkPlacement(c)
  <2>1. /\ Replies(c) /\ registryLock' = registryLock /\ animateLock' = None
        /\ at[c] = "unlink" /\ cmd[c].kind = "DestroyPlacement"
    BY <1>6 DEF UnlinkPlacement, Steps
  <2> QED
    BY <2>1, HandlerStep, NoCmdShaped DEF Replies
<1>7. CASE ReleaseCanvas(c)
  <2>1. /\ registryLock = None /\ animateLock' = animateLock
        /\ at[c] = "check" /\ cmd[c].kind = "DestroyCanvas"
        /\ \/ registryLock' = c /\ Goes(c, "delete")
           \/ registryLock' = registryLock /\ Replies(c)
    BY <1>7 DEF ReleaseCanvas, Steps
  <2>2. Shaped("delete", cmd[c])
    BY <1>0, <2>1 DEF Shaped, KindsAt
  <2>3. CASE registryLock' = c /\ Goes(c, "delete")
    <3>1. cmd' = [cmd EXCEPT ![c] = cmd[c]] /\ at' = [at EXCEPT ![c] = "delete"]
      BY <2>3 DEF Goes, CanvasInv, CommandInv
    <3> QED
      BY <2>1, <2>2, <2>3, <3>1, HandlerStep
  <2>4. CASE registryLock' = registryLock /\ Replies(c)
    BY <2>1, <2>4, ReplyHandler DEF locks
  <2> QED
    BY <2>1, <2>3, <2>4
<1>8. CASE DeleteCanvas(c)
  <2>1. /\ Replies(c) /\ animateLock' = animateLock /\ registryLock' = None
        /\ at[c] = "delete"
    BY <1>8 DEF DeleteCanvas, Steps
  <2> QED
    BY <2>1, HandlerStep, NoCmdShaped DEF Replies
<1>9. CASE UseFreed(c) \/ DestroyUnregistered(c)
  BY <1>9 DEF UseFreed, DestroyUnregistered, Faults, locks, HandlerInv, Shaped
<1> QED
  BY <1>1, <1>2, <1>3, <1>4, <1>5, <1>6, <1>7, <1>8, <1>9, LibCreateHandler, LibPlaceHandler
     DEF Thread

-------------------------------------------------------------------------------
(* Types *)

(* The part of the types that CanvasInv does not have already. *)
ObjectTypes ==
  /\ left \in [Clients -> Nat]
  /\ {registryLock, animateLock} \subseteq Clients \union {None}
  /\ spriteNodes \in [Sprites -> Seq(Users)]
  /\ placementNodes \in [Placements -> Seq(Canvases)]
  /\ canvases \subseteq Canvases /\ sprites \subseteq Sprites
  /\ placed \in [Placements -> [canvas : Canvases \union {None},
                                sprite : Sprites \union {None}]]
  /\ spriteOf \in [Sprites -> Users \union {None}]
  /\ {orderly, fault} \subseteq BOOLEAN

LEMMA TypesSplit == CanvasInv /\ ObjectTypes => TypeOK
  BY DEF CanvasInv, CommandInv, NodeInv, ObjectTypes, TypeOK

LEMMA UnlinkedTyped ==
  ASSUME NEW A, NEW S, NEW nodes \in [A -> Seq(S)], NEW x \in A
  PROVE  Unlinked(nodes, x) \in [A -> Seq(S)]
<1>1. nodes[x] # <<>> => Tail(nodes[x]) \in Seq(S)
  OBVIOUS
<1> QED
  BY <1>1 DEF Unlinked

(* A node in front of the others. *)
LEMMA EnteredTyped ==
  ASSUME NEW S, NEW q \in Seq(S), NEW x \in S
  PROVE  /\ <<x>> \o q \in Seq(S) /\ Len(<<x>> \o q) = Len(q) + 1
         /\ Head(<<x>> \o q) = x /\ <<x>> \o q # <<>>
         /\ q = <<>> => <<x>> \o q = <<x>>
<1>1. <<x>> \in Seq(S) /\ Len(<<x>>) = 1 /\ Len(q) \in Nat
  OBVIOUS
<1>2. <<x>> \o q \in Seq(S) /\ Len(<<x>> \o q) = Len(q) + 1
  BY <1>1
<1>3. Head(<<x>> \o q) = x
  BY <1>1
<1>4. <<x>> \o q # <<>>
  BY <1>1, <1>2
<1>5. q = <<>> => <<x>> \o q = <<x>>
  BY <1>1
<1> QED
  BY <1>2, <1>3, <1>4, <1>5

LEMMA SendTypes ==
  ASSUME ObjectTypes, NEW c \in Clients, NEW k \in Kinds, Send(c, k)
  PROVE  ObjectTypes'
<1>1. left' \in [Clients -> Nat]
  BY DEF Send, ObjectTypes
<1>2. orderly' \in BOOLEAN
  BY DEF Send, ObjectTypes
<1> QED
  BY <1>1, <1>2 DEF Send, ObjectTypes, locks, registries, library

LEMMA ThreadTypes ==
  ASSUME CanvasInv, HandlerInv, ObjectTypes, NEW c \in Clients, Thread(c)
  PROVE  ObjectTypes'
<1>0. cmd[c] \in Commands /\ Shaped(at[c], cmd[c]) /\ user(c) \in Users
  BY ObjectsAssumption DEF CanvasInv, CommandInv, HandlerInv, user
<1>1. CASE LibCreateFails(c) \/ Refuse(c) \/ LibMove(c) \/ GenerateFails(c) \/ GenerateEnd(c)
           \/ Check(c) \/ GenerateStart(c) \/ EnterCanvas(c) \/ ShareCanvas(c)
  BY <1>1 DEF LibCreateFails, Refuse, LibMove, GenerateFails, GenerateEnd, Check,
              GenerateStart, EnterCanvas, ShareCanvas, Replies, Goes, locks, registries,
              library, ObjectTypes
<1>2. CASE LibCreate(c)
  BY <1>2 DEF LibCreate, locks, registries, history, ObjectTypes
<1>3. CASE EnterSprite(c)
  <2>1. cmd[c].sprite \in Sprites
    BY <1>0, <1>3 DEF EnterSprite, Steps, Commands, Shaped
  <2>2. <<user(c)>> \o spriteNodes[cmd[c].sprite] \in Seq(Users)
    BY <1>0, <2>1, EnteredTyped DEF ObjectTypes
  <2> QED
    BY <1>0, <1>3, <2>1, <2>2 DEF EnterSprite, Replies, locks, library, ObjectTypes
<1>4. CASE EnterPlacement(c)
  <2>1. cmd[c].placement \in Placements /\ cmd[c].canvas \in Canvases
    BY <1>0, <1>4 DEF EnterPlacement, Steps, Commands, Shaped, OnCanvas
  <2>2. <<cmd[c].canvas>> \o placementNodes[cmd[c].placement] \in Seq(Canvases)
    BY <2>1, EnteredTyped DEF ObjectTypes
  <2> QED
    BY <1>4, <2>1, <2>2 DEF EnterPlacement, Replies, locks, library, ObjectTypes
<1>5. CASE EnterFails(c)
  <2>1. placed' \in [Placements -> [canvas : Canvases \union {None}, sprite : Sprites \union {None}]]
    BY <1>5 DEF EnterFails, ObjectTypes, Free
  <2>2. canvases' \subseteq Canvases /\ sprites' \subseteq Sprites
    BY <1>5 DEF EnterFails, ObjectTypes
  <2> QED
    BY <1>5, <2>1, <2>2 DEF EnterFails, Replies, locks, registries, ObjectTypes
<1>6. CASE LibPlace(c)
  <2>1. cmd[c].sprite \in Sprites /\ cmd[c].canvas \in Canvases
    BY <1>0, <1>6 DEF LibPlace, Steps, Commands, Shaped, OnCanvas
  <2> QED
    BY <1>6, <2>1 DEF LibPlace, locks, registries, history, ObjectTypes
<1>7. CASE LibDestroySprite(c)
  BY <1>7 DEF LibDestroySprite, Replies, Goes, locks, registries, ObjectTypes
<1>8. CASE UnlinkSprite(c)
  <2>1. cmd[c].sprite \in Sprites
    BY <1>0, <1>8 DEF UnlinkSprite, Steps, Commands, Shaped
  <2>2. spriteNodes' \in [Sprites -> Seq(Users)]
    BY <1>8, <2>1, UnlinkedTyped DEF UnlinkSprite, ObjectTypes
  <2> QED
    BY <1>8, <2>2 DEF UnlinkSprite, Replies, locks, library, ObjectTypes
<1>9. CASE LibDestroyPlacement(c)
  <2>1. placed' \in [Placements -> [canvas : Canvases \union {None}, sprite : Sprites \union {None}]]
    BY <1>9 DEF LibDestroyPlacement, ObjectTypes, Free
  <2> QED
    BY <1>9, <2>1 DEF LibDestroyPlacement, Goes, registries, ObjectTypes
<1>10. CASE UnlinkPlacement(c)
  <2>1. cmd[c].placement \in Placements
    BY <1>0, <1>10 DEF UnlinkPlacement, Steps, Commands, Shaped
  <2>2. placementNodes' \in [Placements -> Seq(Canvases)]
    BY <1>10, <2>1, UnlinkedTyped DEF UnlinkPlacement, ObjectTypes
  <2> QED
    BY <1>10, <2>2 DEF UnlinkPlacement, Replies, library, ObjectTypes
<1>11. CASE ReleaseCanvas(c)
  BY <1>11 DEF ReleaseCanvas, Replies, Goes, library, ObjectTypes
<1>12. CASE DeleteCanvas(c)
  <2>1. placed' \in [Placements -> [canvas : Canvases \union {None}, sprite : Sprites \union {None}]]
    BY <1>12 DEF DeleteCanvas, ObjectTypes, Free
  <2>2. placementNodes' \in [Placements -> Seq(Canvases)]
    BY <1>12, WithoutOf DEF DeleteCanvas, CanvasNodeDelete, ObjectTypes
  <2> QED
    BY <1>12, <2>1, <2>2 DEF DeleteCanvas, Replies, ObjectTypes
<1>13. CASE UseFreed(c) \/ DestroyUnregistered(c)
  BY <1>13 DEF UseFreed, DestroyUnregistered, Faults, locks, registries, library, history, ObjectTypes
<1> QED
  BY <1>1, <1>2, <1>3, <1>4, <1>5, <1>6, <1>7, <1>8, <1>9, <1>10, <1>11, <1>12, <1>13 DEF Thread

===============================================================================
