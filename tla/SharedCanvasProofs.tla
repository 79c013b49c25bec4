--------------------------- MODULE SharedCanvasProofs ---------------------------
(* Theorems of SharedCanvas, for any number of clients, users and threads. *)
EXTENDS SharedCanvas, FiniteSetTheorems, TLAPS

(* Before the canvas is created nothing is counted and nobody sleeps.      *)
Untouched == node = "none" => arrived = 0 /\ released = 0 /\ Asleep = {}

(* The clients in the queue are the ones that wait in it, each once.       *)
QueueInv ==
  \A i \in 1 .. Len(queue) : /\ at[queue[i]] = "queued"
                             /\ \A j \in 1 .. Len(queue) : queue[i] = queue[j] => i = j

(* The inductive invariant: TypeOK needs RefsCountHolders, for a reference *)
(* count that is not below zero; both counts start out right because the   *)
(* canvas finds nobody at its barrier when it is created; and QueueInv     *)
(* says that no thread takes up a second command of a client asleep.       *)
CanvasInv == TypeOK /\ RefsCountHolders /\ SleepersCounted /\ Untouched /\ QueueInv

(* The sleepers are finitely many.                                         *)
LEMMA AsleepFinite == IsFiniteSet(Asleep) /\ Cardinality(Asleep) \in Nat
<1>1. IsFiniteSet(Clients) /\ Asleep \subseteq Clients
  BY SharedCanvasAssumption DEF Asleep
<1> QED
  BY <1>1, FS_Subset, FS_CardinalityType

(* So are the users the canvas is shared with.                             *)
LEMMA SharedFinite ==
  TypeOK => IsFiniteSet(shared) /\ Cardinality(shared) \in Nat
<1> SUFFICES ASSUME TypeOK PROVE IsFiniteSet(shared) /\ Cardinality(shared) \in Nat
  OBVIOUS
<1>1. IsFiniteSet(Users) /\ shared \subseteq Users
  BY SharedCanvasAssumption DEF TypeOK
<1> QED
  BY <1>1, FS_Subset, FS_CardinalityType

(* Who does not go to sleep, and was not asleep, leaves the sleepers alone. *)
LEMMA SleepersAlone ==
  ASSUME TypeOK, NEW c \in Clients, NEW p, p # "asleep", at[c] # "asleep", Moved(c, p)
  PROVE  Asleep' = Asleep
  BY DEF TypeOK, Moved, Asleep

(* Who goes to sleep joins them. *)
LEMMA OneMoreSleeper ==
  ASSUME TypeOK, NEW c \in Clients, at[c] # "asleep", Moved(c, "asleep")
  PROVE  /\ Asleep' = Asleep \union {c} /\ c \notin Asleep
         /\ Cardinality(Asleep') = Cardinality(Asleep) + 1
<1>1. Asleep' = Asleep \union {c} /\ c \notin Asleep
  BY DEF TypeOK, Moved, Asleep
<1> QED
  BY <1>1, AsleepFinite, FS_AddElement

-------------------------------------------------------------------------------
(* Types *)

(* One step of the model keeps every variable in its type. *)
LEMMA TypeStep == TypeOK /\ RefsCountHolders /\ [Next]_vars => TypeOK'
<1> SUFFICES ASSUME TypeOK, RefsCountHolders, [Next]_vars PROVE TypeOK'
  OBVIOUS
<1> USE DEF TypeOK, nodeVars, Places
<1>1. ASSUME NEW c \in Clients, Connect(c) PROVE TypeOK'
  BY <1>1 DEF Connect
<1>2. ASSUME NEW c \in Clients, Vanish(c) PROVE TypeOK'
  BY <1>2 DEF Vanish
<1>3. ASSUME NEW c \in Clients, NEW k \in Commands \union {"Login"}, Send(c, k)
      PROVE TypeOK'
  <2>1. with' \in [Clients -> Users \union {None}]
    BY <1>3 DEF Send
  <2>2. left' \in [Clients -> [commands : Nat, barriers : Nat]]
    <3>1. left[c].commands \in Nat /\ left[c].barriers \in Nat
      OBVIOUS
    <3>2. k \notin {"Login", "Canvas"} => left[c].commands - 1 \in Nat
      BY <1>3, <3>1 DEF Send
    <3>3. k = "Barrier" => left[c].barriers - 1 \in Nat
      BY <1>3, <3>1 DEF Send
    <3> DEFINE cs == IF k \in {"Login", "Canvas"} THEN left[c].commands
                     ELSE left[c].commands - 1
               bs == IF k = "Barrier" THEN left[c].barriers - 1
                     ELSE left[c].barriers
    <3>4. cs \in Nat /\ bs \in Nat
      BY <3>1, <3>2, <3>3
    <3>5. left' = [left EXCEPT ![c].commands = cs, ![c].barriers = bs]
      BY <1>3 DEF Send
    <3> HIDE DEF cs, bs
    <3> QED
      BY <3>4, <3>5
  <2>3. queue' \in Seq(Clients)
    BY <1>3 DEF Send
  <2>4. at' \in [Clients -> Places]
    BY <1>3 DEF Send, Moved
  <2>5. cmd' \in [Clients -> Commands \union {"Login", None}]
    BY <1>3 DEF Send
  <2> QED
    BY <1>3, <2>1, <2>2, <2>3, <2>4, <2>5 DEF Send
<1>4. ASSUME NEW c \in Clients, Start(c) PROVE TypeOK'
  <2>1. Tail(queue) \in Seq(Clients)
    BY <1>4 DEF Start
  <2> QED
    BY <1>4, <2>1 DEF Start, Moved
<1>5. ASSUME NEW c \in Clients, Login(c) PROVE TypeOK'
  BY <1>5, SharedCanvasAssumption DEF Login, Moved
<1>6. ASSUME NEW c \in Clients, DisconnectClient(c) PROVE TypeOK'
  BY <1>6 DEF DisconnectClient, Moved
<1>7. ASSUME NEW c \in Clients, Refuse(c) PROVE TypeOK'
  BY <1>7 DEF Refuse, Moved
<1>8. ASSUME NEW c \in Clients, CreateCanvas(c) PROVE TypeOK'
  BY <1>8 DEF CreateCanvas, Moved
<1>9. ASSUME NEW c \in Clients, ShareCanvas(c) PROVE TypeOK'
  <2>1. Enlarged \in Nat
    BY SharedCanvasAssumption DEF Enlarged
  <2>2. with[c] \in Users
    BY <1>9, SharedCanvasAssumption DEF ShareCanvas
  <2>3. fault = "none"
    BY <1>9 DEF ShareCanvas, Handles, Ok
  <2>4. at' \in [Clients -> Places]
    BY <1>9 DEF ShareCanvas, Moved
  <2>5. /\ shared' \subseteq Users /\ {capacity', room', refs'} \subseteq Nat
        /\ fault' \in {"none", "overrun", "barrier_freed", "double_free"}
    BY <1>9, <2>1, <2>2, <2>3 DEF ShareCanvas
  <2> QED
    BY <1>9, <2>4, <2>5 DEF ShareCanvas
<1>10. ASSUME NEW c \in Clients, DestroyCanvas(c) PROVE TypeOK'
  <2>1. refs - 1 \in Nat
    BY <1>10 DEF DestroyCanvas, RefsCountHolders
  <2>2. released' \in Nat
    BY <1>10 DEF DestroyCanvas
  <2>3. shared' \subseteq Users
    BY <1>10 DEF DestroyCanvas
  <2>4. /\ node' \in {"none", "live", "freed"}
        /\ fault' \in {"none", "overrun", "barrier_freed", "double_free"}
    BY <1>10 DEF DestroyCanvas
  <2>5. at' \in [Clients -> Places]
    BY <1>10 DEF DestroyCanvas, Moved
  <2> QED
    BY <1>10, <2>1, <2>2, <2>3, <2>4, <2>5 DEF DestroyCanvas
<1>11. ASSUME NEW c \in Clients, DestroyFreed(c) PROVE TypeOK'
  BY <1>11 DEF DestroyFreed
<1>12. ASSUME NEW c \in Clients, BarrierWait(c) PROVE TypeOK'
  BY <1>12 DEF BarrierWait, Moved
<1>13. ASSUME NEW c \in Clients, BarrierOpen(c) PROVE TypeOK'
  BY <1>13 DEF BarrierOpen, Asleep
<1>14. ASSUME NEW c \in Clients, BarrierResume(c) PROVE TypeOK'
  BY <1>14 DEF BarrierResume, Moved
<1>15. CASE UNCHANGED vars
  BY <1>15 DEF vars
<1> QED
  BY <1>1, <1>2, <1>3, <1>4, <1>5, <1>6, <1>7, <1>8, <1>9, <1>10, <1>11, <1>12,
     <1>13, <1>14, <1>15 DEF Next, Thread

-------------------------------------------------------------------------------
(* The reference count *)

(* One step keeps the balance of the reference count.  Only the handlers   *)
(* that create, share and destroy the canvas touch it.                     *)
LEMMA RefsStep ==
  TypeOK /\ RefsCountHolders /\ Untouched /\ [Next]_vars => RefsCountHolders'
<1> SUFFICES ASSUME TypeOK, RefsCountHolders, Untouched, [Next]_vars
             PROVE  RefsCountHolders'
  OBVIOUS
<1>0. UNCHANGED <<node, shared, refs, released>> => RefsCountHolders'
  BY DEF RefsCountHolders
<1>1. ASSUME NEW c \in Clients, CreateCanvas(c) PROVE RefsCountHolders'
  <2>1. CASE node = "none"
    BY <1>1, <2>1, FS_EmptySet DEF CreateCanvas, Untouched, RefsCountHolders
  <2>2. CASE node # "none"
    BY <1>1, <2>2, <1>0 DEF CreateCanvas
  <2> QED
    BY <2>1, <2>2
<1>2. ASSUME NEW c \in Clients, ShareCanvas(c) PROVE RefsCountHolders'
  <2>1. refs > 0 /\ refs + released = 1 + Cardinality(shared)
    BY <1>2 DEF ShareCanvas, RefsCountHolders
  <2>2. refs \in Nat /\ released \in Nat /\ released' = released
    BY <1>2 DEF TypeOK, ShareCanvas
  <2>3. CASE shared' = shared /\ refs' = refs
    BY <2>1, <2>2, <2>3 DEF RefsCountHolders
  <2>4. CASE /\ ~HasAccess(with[c])
             /\ shared' = shared \union {with[c]} /\ refs' = refs + 1
    <3>1. Cardinality(shared') = Cardinality(shared) + 1
      BY <2>4, SharedFinite, FS_AddElement DEF HasAccess
    <3> QED
      BY <3>1, <2>1, <2>2, <2>4, SharedFinite DEF RefsCountHolders
  <2> QED
    BY <1>2, <2>3, <2>4 DEF ShareCanvas
<1>3. ASSUME NEW c \in Clients, DestroyCanvas(c) PROVE RefsCountHolders'
  <2>1. refs + released = 1 + Cardinality(shared) /\ refs \in Nat /\ released \in Nat
    BY <1>3 DEF DestroyCanvas, RefsCountHolders, TypeOK
  <2>2. Cardinality(shared') = IF name[c] \in shared THEN Cardinality(shared) - 1
                                                    ELSE Cardinality(shared)
    BY <1>3, SharedFinite, FS_RemoveElement DEF DestroyCanvas
  <2>3. node' = "live" => refs - 1 > 0
    BY <1>3, <2>1 DEF DestroyCanvas
  <2>4. refs' = refs - 1
        /\ released' = IF name[c] \in shared THEN released ELSE released + 1
    BY <1>3 DEF DestroyCanvas
  <2> QED
    BY <2>1, <2>2, <2>3, <2>4, SharedFinite DEF RefsCountHolders
<1>4. ASSUME NEW c \in Clients,
             \/ Connect(c) \/ Vanish(c) \/ Start(c) \/ Login(c)
             \/ DisconnectClient(c) \/ Refuse(c) \/ DestroyFreed(c)
             \/ BarrierWait(c) \/ BarrierOpen(c) \/ BarrierResume(c)
             \/ \E k \in Commands \union {"Login"} : Send(c, k)
      PROVE  RefsCountHolders'
  BY <1>4, <1>0 DEF Connect, Vanish, Start, Login, DisconnectClient, Refuse,
     DestroyFreed, BarrierWait, BarrierOpen, BarrierResume, Send, nodeVars
<1>5. CASE UNCHANGED vars
  BY <1>5, <1>0 DEF vars, nodeVars
<1> QED
  BY <1>1, <1>2, <1>3, <1>4, <1>5 DEF Next, Thread

-------------------------------------------------------------------------------
(* The barrier *)

(* One step keeps the queue and the places of the clients in agreement.    *)
LEMMA QueueStep == TypeOK /\ QueueInv /\ [Next]_vars => QueueInv'
<1> SUFFICES ASSUME TypeOK, QueueInv, [Next]_vars PROVE QueueInv'
  OBVIOUS
<1>0. queue \in Seq(Clients) /\ at \in [Clients -> Places]
  BY DEF TypeOK
<1>1. ASSUME queue' = queue,
             \A d \in Clients : at[d] = "queued" => at'[d] = "queued"
      PROVE  QueueInv'
  BY <1>0, <1>1 DEF QueueInv
<1>2. ASSUME NEW c \in Clients, NEW k, Send(c, k) PROVE QueueInv'
  <2>1. queue' = Append(queue, c) /\ at[c] = "ready" /\ at' = [at EXCEPT ![c] = "queued"]
    BY <1>2 DEF Send, Moved
  <2>2. /\ Len(queue') = Len(queue) + 1 /\ Len(queue) \in Nat
        /\ queue'[Len(queue) + 1] = c
        /\ \A i \in 1 .. Len(queue) : queue'[i] = queue[i]
    BY <1>0, <2>1
  <2>3. \A i \in 1 .. Len(queue) : queue[i] \in Clients /\ queue[i] # c
    BY <1>0, <2>1 DEF QueueInv
  <2>4. \A i \in 1 .. Len(queue') : i = Len(queue) + 1 \/ i \in 1 .. Len(queue)
    BY <2>2
  <2> QED
    BY <1>0, <2>1, <2>2, <2>3, <2>4 DEF QueueInv
<1>3. ASSUME NEW c \in Clients, Start(c) PROVE QueueInv'
  <2>1. queue # <<>> /\ c = Head(queue) /\ queue' = Tail(queue)
        /\ at' = [at EXCEPT ![c] = "running"]
    BY <1>3 DEF Start, Moved
  <2>2. /\ Len(queue') = Len(queue) - 1 /\ Len(queue) \in Nat \ {0} /\ c = queue[1]
        /\ \A i \in 1 .. Len(queue') : queue'[i] = queue[i + 1]
    BY <1>0, <2>1
  <2>3. \A i \in 1 .. Len(queue') : i + 1 \in 1 .. Len(queue) /\ i + 1 # 1
    BY <2>2
  <2>4. \A i \in 1 .. Len(queue') : queue[i + 1] \in Clients /\ queue[i + 1] # c
    BY <1>0, <2>2, <2>3 DEF QueueInv
  <2> QED
    BY <1>0, <2>1, <2>2, <2>3, <2>4 DEF QueueInv
<1>4. ASSUME NEW c \in Clients, Connect(c) \/ Vanish(c) \/ DestroyFreed(c)
      PROVE  QueueInv'
  BY <1>1, <1>4 DEF Connect, Vanish, DestroyFreed
<1>5. ASSUME NEW c \in Clients,
             \/ Login(c) \/ DisconnectClient(c) \/ Refuse(c) \/ CreateCanvas(c)
             \/ ShareCanvas(c) \/ DestroyCanvas(c) \/ BarrierWait(c) \/ BarrierResume(c)
      PROVE  QueueInv'
  <2>1. at[c] # "queued" /\ queue' = queue
    BY <1>5 DEF Login, DisconnectClient, Refuse, CreateCanvas, ShareCanvas,
       DestroyCanvas, BarrierWait, BarrierResume, AtBarrier, Handles
  <2>2. \E p : Moved(c, p)
    BY <1>5 DEF Login, DisconnectClient, Refuse, CreateCanvas, ShareCanvas,
       DestroyCanvas, BarrierWait, BarrierResume
  <2> QED
    BY <1>0, <1>1, <2>1, <2>2 DEF Moved
<1>6. ASSUME NEW c \in Clients, BarrierOpen(c) PROVE QueueInv'
  BY <1>0, <1>1, <1>6 DEF BarrierOpen, AtBarrier, Handles, Asleep
<1>7. CASE UNCHANGED vars
  BY <1>1, <1>7 DEF vars
<1> QED
  BY <1>2, <1>3, <1>4, <1>5, <1>6, <1>7 DEF Next, Thread

(* One step keeps the count of the barrier and those asleep at it in       *)
(* agreement.                                                              *)
LEMMA SleepersStep ==
  /\ TypeOK /\ SleepersCounted /\ Untouched /\ QueueInv /\ [Next]_vars
  => SleepersCounted' /\ Untouched'
<1> SUFFICES ASSUME TypeOK, SleepersCounted, Untouched, QueueInv, [Next]_vars
             PROVE  SleepersCounted' /\ Untouched'
  OBVIOUS
<1>0. /\ arrived \in Nat /\ node \in {"none", "live", "freed"}
      /\ at \in [Clients -> Places] /\ Cardinality(Asleep) \in Nat
  BY AsleepFinite DEF TypeOK
<1>1. ASSUME UNCHANGED <<node, arrived, released>>, Asleep' = Asleep
      PROVE  SleepersCounted' /\ Untouched'
  BY <1>1 DEF SleepersCounted, Untouched
<1>2. ASSUME NEW c \in Clients, Connect(c) \/ Vanish(c) \/ DestroyFreed(c)
      PROVE  SleepersCounted' /\ Untouched'
  BY <1>1, <1>2 DEF Connect, Vanish, DestroyFreed, nodeVars, Asleep
<1>3. ASSUME NEW c \in Clients,
             \/ Start(c) \/ Login(c) \/ DisconnectClient(c) \/ Refuse(c)
             \/ ShareCanvas(c)
             \/ \E k \in Commands \union {"Login"} : Send(c, k)
      PROVE  SleepersCounted' /\ Untouched'
  <2>1. UNCHANGED <<node, arrived, released>>
    BY <1>3 DEF Start, Login, DisconnectClient, Refuse, ShareCanvas, Send, nodeVars
  <2>2. Start(c) => at[c] = "queued"
    <3>1. Start(c) => 1 \in 1 .. Len(queue) /\ queue[1] = c
      BY DEF Start, TypeOK
    <3> QED
      BY <3>1 DEF QueueInv
  <2>3. at[c] # "asleep"
    BY <1>3, <2>2 DEF Login, DisconnectClient, Refuse, ShareCanvas, Send, Handles
  <2>4. \E p : p # "asleep" /\ Moved(c, p)
    BY <1>3 DEF Start, Login, DisconnectClient, Refuse, ShareCanvas, Send
  <2> QED
    BY <1>1, <2>1, <2>3, <2>4, SleepersAlone
<1>4. ASSUME NEW c \in Clients, CreateCanvas(c)
      PROVE  SleepersCounted' /\ Untouched'
  <2>1. Asleep' = Asleep
    BY <1>4, SleepersAlone DEF CreateCanvas, Handles
  <2>2. CASE node = "none"
    BY <1>4, <2>1, <2>2, FS_EmptySet DEF CreateCanvas, SleepersCounted, Untouched
  <2>3. CASE node # "none"
    BY <1>1, <1>4, <2>1, <2>3 DEF CreateCanvas
  <2> QED
    BY <2>2, <2>3
<1>5. ASSUME NEW c \in Clients, DestroyCanvas(c)
      PROVE  SleepersCounted' /\ Untouched'
  <2>1. Asleep' = Asleep
    BY <1>5, SleepersAlone DEF DestroyCanvas, Handles
  <2>2. node = "live" /\ node' \in {"live", "freed"} /\ arrived' = arrived
    BY <1>5 DEF DestroyCanvas
  <2> QED
    BY <2>1, <2>2 DEF SleepersCounted, Untouched
<1>6. ASSUME NEW c \in Clients, BarrierWait(c)
      PROVE  SleepersCounted' /\ Untouched'
  <2>1. Cardinality(Asleep') = Cardinality(Asleep) + 1
    BY <1>6, OneMoreSleeper DEF BarrierWait, AtBarrier, Handles
  <2>2. node = "live" /\ node' = node /\ arrived' = arrived + 1
    BY <1>6 DEF BarrierWait, AtBarrier
  <2> QED
    BY <1>0, <2>1, <2>2 DEF SleepersCounted, Untouched
<1>7. ASSUME NEW c \in Clients, BarrierOpen(c)
      PROVE  SleepersCounted' /\ Untouched'
  <2>1. Asleep' = {}
    BY <1>0, <1>7 DEF BarrierOpen, AtBarrier, Handles, Asleep
  <2>2. node' = "live" /\ arrived' = 0
    BY <1>7 DEF BarrierOpen, AtBarrier
  <2> QED
    BY <2>1, <2>2, FS_EmptySet DEF SleepersCounted, Untouched
<1>8. ASSUME NEW c \in Clients, BarrierResume(c)
      PROVE  SleepersCounted' /\ Untouched'
  <2>1. UNCHANGED <<node, arrived, released>> /\ at[c] = "woken"
    BY <1>8 DEF BarrierResume, nodeVars
  <2>2. CASE arrived = 0
    BY <1>1, <1>8, <2>1, <2>2, SleepersAlone DEF BarrierResume
  <2>3. CASE arrived # 0
    <3>1. Cardinality(Asleep') = Cardinality(Asleep) + 1
      BY <1>8, <2>1, <2>3, OneMoreSleeper DEF BarrierResume
    <3> QED
      BY <1>0, <2>1, <2>3, <3>1 DEF SleepersCounted, Untouched
  <2> QED
    BY <2>2, <2>3
<1>9. CASE UNCHANGED vars
  BY <1>1, <1>9 DEF vars, nodeVars, Asleep
<1> QED
  BY <1>2, <1>3, <1>4, <1>5, <1>6, <1>7, <1>8, <1>9 DEF Next, Thread

-------------------------------------------------------------------------------
(* The theorems *)

(* The invariant holds before anybody has connected.                       *)
LEMMA InitInv == Init => CanvasInv
<1> SUFFICES ASSUME Init PROVE CanvasInv
  OBVIOUS
<1>1. TypeOK
  BY SharedCanvasAssumption DEF Init, TypeOK, Places
<1>2. RefsCountHolders /\ SleepersCounted /\ Untouched
  BY DEF Init, RefsCountHolders, SleepersCounted, Untouched, Asleep
<1>3. QueueInv
  BY DEF Init, QueueInv
<1> QED
  BY <1>1, <1>2, <1>3 DEF CanvasInv

(* The invariant holds in every reachable state: it holds at the start and *)
(* every step keeps it, by the four lemmas above.                          *)
THEOREM CanvasSafe == Spec => []CanvasInv
<1>1. CanvasInv /\ [Next]_vars => CanvasInv'
  BY TypeStep, RefsStep, SleepersStep, QueueStep DEF CanvasInv
<1> QED
  BY InitInv, <1>1, PTL DEF Spec

(* Every variable keeps its type; in particular no count of the share node *)
(* falls below zero.                                                       *)
THEOREM CanvasTyped == Spec => []TypeOK
<1>1. CanvasInv => TypeOK
  BY DEF CanvasInv
<1> QED
  BY CanvasSafe, <1>1, PTL

(* A reference is held by the owner and by each user on the list, however  *)
(* often the canvas is shared and whichever calls fail; no handler leaves  *)
(* a canvas without references.                                            *)
THEOREM RefsBalanced == Spec => []RefsCountHolders
<1>1. CanvasInv => RefsCountHolders
  BY DEF CanvasInv
<1> QED
  BY CanvasSafe, <1>1, PTL

(* The barrier's count stands for clients that sleep, and is not zero      *)
(* while one does: no waiter is forgotten, for any number of clients,      *)
(* threads and rounds, also when clients are killed.                       *)
THEOREM NoSleeperForgotten == Spec => []SleepersCounted
<1>1. CanvasInv => SleepersCounted
  BY DEF CanvasInv
<1> QED
  BY CanvasSafe, <1>1, PTL

(* As long as nobody in the barrier was killed or lost the canvas, it      *)
(* opens for all who have access to the canvas or not at all.              *)
THEOREM BarrierTogether == Spec => OpensTogether
<1>1. ASSUME TypeOK, SleepersCounted, NEW c \in Clients, BarrierOpen(c),
             Asleep \union {c} \subseteq Members
      PROVE  Members \subseteq Asleep \union {c}
  <2>1. arrived <= Cardinality(Asleep) /\ c \notin Asleep /\ arrived \in Nat
    BY <1>1 DEF BarrierOpen, AtBarrier, Handles, SleepersCounted, Asleep, TypeOK
  <2>2. IsFiniteSet(Members) /\ Cardinality(Members) \in Nat
    <3>1. IsFiniteSet(Clients) /\ Members \subseteq Clients
      BY SharedCanvasAssumption DEF Members
    <3> QED
      BY <3>1, FS_Subset, FS_CardinalityType
  <2>3. Cardinality(Asleep \union {c}) = Cardinality(Asleep) + 1
    BY <2>1, AsleepFinite, FS_AddElement
  <2>4. Cardinality(Members) <= arrived + 1
    BY <1>1, <2>1, <2>2 DEF BarrierOpen, Expected
  <2>5. Cardinality(Asleep \union {c}) <= Cardinality(Members)
    BY <1>1, <2>2, FS_Subset
  <2>6. Cardinality(Members) = Cardinality(Asleep \union {c})
    BY <2>1, <2>2, <2>3, <2>4, <2>5, AsleepFinite
  <2> QED
    BY <1>1, <2>2, <2>6, FS_Subset
<1> DEFINE Together ==
      \A c \in Clients : BarrierOpen(c) /\ Asleep \union {c} \subseteq Members
                         => Members \subseteq Asleep \union {c}
<1>2. CanvasInv => [Together]_vars
  BY <1>1 DEF CanvasInv
<1> QED
  BY CanvasSafe, <1>2, PTL DEF OpensTogether

===============================================================================
