------------------------------ MODULE SharedCanvas -----------------------------
(* One canvas that several users work on: its canvas_share_node_t, the     *)
(* handlers that create, share and destroy it, and the barrier, whose      *)
(* waiters keep the worker threads they run on.                            *)
(*                                                                         *)
(* The clients are instances of animate_client: a Login first, and one     *)
(* command at a time.  Tickets and replies are SessionPipeline's matter;   *)
(* here a command goes from its client to the work queue and to a thread.  *)
(* A handler holds registry_lock from its first look at the node to the    *)
(* end, so it is one step, but for the barrier, which gives the lock up    *)
(* while it waits.  Spurious wakeups are left out: a waiter that wakes up  *)
(* finds the count above zero and sleeps again.                            *)
EXTENDS Integers, Sequences, FiniteSets

CONSTANTS
  Clients,       \* connections
  Users,         \* user names
  Account,       \* Account[c]: the user c logs in as
  Authorised,    \* the users with a positive balance in users.txt
  None,          \* no user name, no command
  Threads,       \* threads in the pool
  Commands,      \* the kinds of command the clients of this instance send
  MaxCommands,   \* bound: commands of one client on the canvas
  MaxBarriers,   \* bound: Barriers among them
  FirstCapacity, \* first size of shared_usernames (4 in the code)
  Killable,      \* BOOLEAN: client processes may be killed
  CallsFail      \* BOOLEAN: realloc and fopen may return NULL

ASSUME SharedCanvasAssumption ==
  /\ IsFiniteSet(Clients) /\ IsFiniteSet(Users)
  /\ Account \in [Clients -> Users] /\ Authorised \subseteq Users
  /\ None \notin Users
  /\ {Threads, FirstCapacity} \subseteq Nat \ {0}
  /\ {MaxCommands, MaxBarriers} \subseteq Nat
  /\ Commands \subseteq {"Canvas", "Share", "Destroy", "Barrier", "Disconnect"}
  /\ {Killable, CallsFail} \subseteq BOOLEAN

VARIABLES
  session,       \* session[c]: "none", "active" or "inactive"
  name,          \* name[c]: session->username, None before the Login
  at,            \* at[c]: where the command of c is
  cmd,           \* cmd[c]: its kind; Account[c] is not repeated in a Login
  with,          \* with[c]: the user it shares the canvas with
  left,          \* left[c]: commands and barriers c may still send (bound)
  queue,         \* work_queue: the clients whose commands are queued
  node,          \* the share node: "none", "live" or "freed"
  owner, shared, \* owner_username and the set of shared_usernames
  capacity,      \* shared_capacity
  room,          \* the entries shared_usernames has memory for
  refs,          \* ref_count
  arrived,       \* barrier_arrived_count
  released,      \* history: DestroyCanvas calls that found no name to remove
  fault          \* how the process went wrong, "none" while it runs well

nodeVars == <<node, owner, shared, capacity, room, refs, arrived, released>>
vars == <<session, name, at, cmd, with, left, queue, nodeVars, fault>>

(* at[c]: "ready" (the client may send), "queued", "running" (on a thread, *)
(* before the handler takes registry_lock), "asleep" (in                   *)
(* pthread_cond_wait), "woken" (by the broadcast, waiting for the lock) or *)
(* "refused" (a Login was rejected and the session is to be disconnected). *)
Places == {"ready", "queued", "running", "asleep", "woken", "refused"}

Asleep == {c \in Clients : at[c] = "asleep"}
Busy   == {c \in Clients : at[c] \in {"running", "asleep", "woken", "refused"}}

Moved(c, p) == at' = [at EXCEPT ![c] = p]
Ok == fault = "none"

-------------------------------------------------------------------------------
(* Clients and the pool *)

Connect(c) ==
  /\ Ok /\ session[c] = "none"
  /\ session' = [session EXCEPT ![c] = "active"]
  /\ UNCHANGED <<name, at, cmd, with, left, queue, nodeVars, fault>>

(* The server notices that a client was killed. *)
Vanish(c) ==
  /\ Ok /\ Killable /\ session[c] = "active"
  /\ session' = [session EXCEPT ![c] = "inactive"]
  /\ UNCHANGED <<name, at, cmd, with, left, queue, nodeVars, fault>>

Send(c, k) ==
  /\ Ok /\ session[c] = "active" /\ at[c] = "ready"
  /\ (k = "Login") = (name[c] = None)
  /\ k \notin {"Login", "Canvas"} => left[c].commands > 0
  /\ k = "Barrier" => left[c].barriers > 0
  /\ k = "Canvas" => node = "none"
  /\ k \in {"Share", "Destroy", "Barrier"} => node # "none"
  /\ \E u \in Users :
        with' = [with EXCEPT ![c] = IF k = "Share" THEN u ELSE None]
  /\ cmd' = [cmd EXCEPT ![c] = k]
  /\ left' = [left EXCEPT
                ![c].commands = IF k \in {"Login", "Canvas"} THEN @ ELSE @ - 1,
                ![c].barriers = IF k = "Barrier" THEN @ - 1 ELSE @]
  /\ queue' = Append(queue, c)
  /\ Moved(c, "queued")
  /\ UNCHANGED <<session, name, nodeVars, fault>>

(* A free thread takes the first command. *)
Start(c) ==
  /\ Ok /\ queue # <<>> /\ c = Head(queue)
  /\ Cardinality(Busy) < Threads
  /\ queue' = Tail(queue)
  /\ Moved(c, "running")
  /\ UNCHANGED <<session, name, cmd, with, left, nodeVars, fault>>

(* The thread of c has come to the handler of command k. *)
Handles(c, k) == Ok /\ at[c] = "running" /\ cmd[c] = k

(* The name is set before it is looked up in users.txt. *)
Login(c) ==
  /\ Handles(c, "Login")
  /\ name' = [name EXCEPT ![c] = Account[c]]
  /\ \/ Account[c] \in Authorised /\ Moved(c, "ready")
     \/ (Account[c] \notin Authorised \/ CallsFail) /\ Moved(c, "refused")
  /\ UNCHANGED <<session, cmd, with, left, queue, nodeVars, fault>>

DisconnectClient(c) ==
  /\ Handles(c, "Disconnect") \/ (Ok /\ at[c] = "refused")
  /\ session' = [session EXCEPT ![c] = "inactive"]
  /\ Moved(c, "ready")
  /\ UNCHANGED <<name, cmd, with, left, queue, nodeVars, fault>>

-------------------------------------------------------------------------------
(* The canvas *)

HasAccess(u) == u = owner \/ u \in shared

(* The active sessions of the owner and of those the canvas is shared with. *)
Members == {c \in Clients : session[c] = "active" /\ HasAccess(name[c])}

(* The handler answers with an error and changes nothing. *)
Refuse(c) ==
  /\ \E k \in {"Share", "Destroy", "Barrier"} : Handles(c, k)
  /\ \/ node = "live" /\ ~HasAccess(name[c])
     \/ node = "freed" /\ cmd[c] # "Destroy"
     \/ cmd[c] = "Share" /\ (with[c] \notin Authorised \/ CallsFail)
  /\ Moved(c, "ready")
  /\ UNCHANGED <<session, name, cmd, with, left, queue, nodeVars, fault>>

(* The one canvas of the model; that a second was asked for meanwhile is   *)
(* left out.                                                               *)
CreateCanvas(c) ==
  /\ Handles(c, "Canvas")
  /\ IF node = "none"
     THEN /\ node' = "live" /\ owner' = name[c] /\ shared' = {}
          /\ capacity' = 0 /\ room' = 0 /\ refs' = 1 /\ arrived' = 0
     ELSE UNCHANGED <<node, owner, shared, capacity, room, refs, arrived>>
  /\ Moved(c, "ready")
  /\ UNCHANGED <<session, name, cmd, with, left, queue, released, fault>>

(* A plausible slip: a user who has the canvas is counted again. *)
ShareCanvas_Again(c) ==
  /\ Handles(c, "Share") /\ node = "live"
  /\ HasAccess(name[c]) /\ with[c] \in Authorised
  /\ shared' = shared \union {with[c]}
  /\ refs' = refs + 1
  /\ Moved(c, "ready")
  /\ UNCHANGED <<session, name, cmd, with, left, queue, node, owner, capacity, room,
                 arrived, released, fault>>

(* A full shared_usernames grows first.  Its capacity is raised before     *)
(* realloc is called and stays so when that fails; then the next share     *)
(* writes where there is no memory.                                        *)
Enlarged == IF capacity = 0 THEN FirstCapacity ELSE 2 * capacity

ShareCanvas(c) ==
  /\ Handles(c, "Share") /\ node = "live"
  /\ HasAccess(name[c]) /\ with[c] \in Authorised
  /\ \/ /\ HasAccess(with[c])
        /\ UNCHANGED <<shared, capacity, room, refs, fault>>
     \/ /\ ~HasAccess(with[c]) /\ Cardinality(shared) < capacity
        /\ shared' = shared \union {with[c]}
        /\ refs' = refs + 1
        /\ fault' = IF Cardinality(shared) < room THEN "none" ELSE "overrun"
        /\ UNCHANGED <<capacity, room>>
     \/ /\ ~HasAccess(with[c]) /\ Cardinality(shared) >= capacity
        /\ capacity' = Enlarged /\ room' = Enlarged
        /\ shared' = shared \union {with[c]}
        /\ refs' = refs + 1
        /\ UNCHANGED fault
     \/ /\ ~HasAccess(with[c]) /\ Cardinality(shared) >= capacity
        /\ CallsFail
        /\ capacity' = Enlarged
        /\ UNCHANGED <<room, shared, refs, fault>>
  /\ Moved(c, "ready")
  /\ UNCHANGED <<session, name, cmd, with, left, queue, node, owner, arrived,
                 released>>

(* A plausible slip: the node is freed one reference too late. *)
DestroyCanvas_Late(c) ==
  /\ Handles(c, "Destroy") /\ node = "live" /\ HasAccess(name[c])
  /\ shared' = shared \ {name[c]}
  /\ refs' = refs - 1
  /\ released' = IF name[c] \in shared THEN released ELSE released + 1
  /\ node' = IF refs - 1 < 0 THEN "freed" ELSE "live"
  /\ Moved(c, "ready")
  /\ UNCHANGED <<session, name, cmd, with, left, queue, owner, capacity, room,
                 arrived, fault>>

(* One reference is given back, and a collaborator leaves the list; with   *)
(* the last reference the node and the canvas are freed, whoever waits at  *)
(* the barrier.                                                            *)
DestroyCanvas(c) ==
  /\ Handles(c, "Destroy") /\ node = "live" /\ HasAccess(name[c])
  /\ shared' = shared \ {name[c]}
  /\ refs' = refs - 1
  /\ released' = IF name[c] \in shared THEN released ELSE released + 1
  /\ IF refs - 1 <= 0
     THEN /\ node' = "freed"
          /\ fault' = IF \E d \in Clients : at[d] \in {"asleep", "woken"}
                      THEN "barrier_freed" ELSE "none"
     ELSE UNCHANGED <<node, fault>>
  /\ Moved(c, "ready")
  /\ UNCHANGED <<session, name, cmd, with, left, queue, owner, capacity, room, arrived>>

(* A handle that is not registered is passed to animate_destroy_canvas all *)
(* the same.                                                               *)
DestroyFreed(c) ==
  /\ Handles(c, "Destroy") /\ node = "freed"
  /\ fault' = "double_free"
  /\ UNCHANGED <<session, name, at, cmd, with, left, queue, nodeVars>>

-------------------------------------------------------------------------------
(* The barrier *)

(* expected_active_sharers.  Plausible slips: sharers do not count; every  *)
(* logged-in client does.                                                  *)
Expected_Owner == Cardinality({c \in Members : name[c] = owner})
Expected_Everybody == Cardinality({c \in Clients : session[c] = "active"})
Expected == Cardinality(Members)

AtBarrier(c) == Handles(c, "Barrier") /\ node = "live" /\ HasAccess(name[c])

BarrierWait(c) ==
  /\ AtBarrier(c) /\ arrived + 1 < Expected
  /\ arrived' = arrived + 1
  /\ Moved(c, "asleep")
  /\ UNCHANGED <<session, name, cmd, with, left, queue, node, owner, shared,
                 capacity, room, refs, released, fault>>

(* Plausible slips: one waiter is signalled; the count is not reset. *)
BarrierOpen_Signal(c) ==
  /\ AtBarrier(c) /\ arrived + 1 >= Expected
  /\ arrived' = 0
  /\ IF Asleep = {} THEN Moved(c, "ready")
     ELSE \E d \in Asleep : at' = [at EXCEPT ![c] = "ready", ![d] = "woken"]
  /\ UNCHANGED <<session, name, cmd, with, left, queue, node, owner, shared,
                 capacity, room, refs, released, fault>>
BarrierOpen_NoReset(c) ==
  /\ AtBarrier(c) /\ arrived + 1 >= Expected
  /\ arrived' = arrived + 1
  /\ at' = [d \in Clients |-> IF d = c THEN "ready"
                              ELSE IF d \in Asleep THEN "woken" ELSE at[d]]
  /\ UNCHANGED <<session, name, cmd, with, left, queue, node, owner, shared,
                 capacity, room, refs, released, fault>>

(* The last one to arrive resets the count and wakes all. *)
BarrierOpen(c) ==
  /\ AtBarrier(c) /\ arrived + 1 >= Expected
  /\ arrived' = 0
  /\ at' = [d \in Clients |-> IF d = c THEN "ready"
                              ELSE IF d \in Asleep THEN "woken" ELSE at[d]]
  /\ UNCHANGED <<session, name, cmd, with, left, queue, node, owner, shared,
                 capacity, room, refs, released, fault>>

(* A waiter has registry_lock again: it leaves if the count is zero, and   *)
(* sleeps on if somebody has arrived since.                                *)
BarrierResume(c) ==
  /\ Ok /\ at[c] = "woken"
  /\ Moved(c, IF arrived = 0 THEN "ready" ELSE "asleep")
  /\ UNCHANGED <<session, name, cmd, with, left, queue, nodeVars, fault>>

-------------------------------------------------------------------------------
Thread(c) ==
  \/ Start(c) \/ Login(c) \/ DisconnectClient(c) \/ Refuse(c)
  \/ CreateCanvas(c) \/ ShareCanvas(c) \/ DestroyCanvas(c) \/ DestroyFreed(c)
  \/ BarrierWait(c) \/ BarrierOpen(c) \/ BarrierResume(c)

Init ==
  /\ session = [c \in Clients |-> "none"]
  /\ name = [c \in Clients |-> None]
  /\ at = [c \in Clients |-> "ready"]
  /\ cmd = [c \in Clients |-> None]
  /\ with = [c \in Clients |-> None]
  /\ left = [c \in Clients |-> [commands |-> MaxCommands, barriers |-> MaxBarriers]]
  /\ queue = <<>>
  /\ node = "none" /\ owner = None /\ shared = {}
  /\ capacity = 0 /\ room = 0 /\ refs = 0 /\ arrived = 0
  /\ released = 0
  /\ fault = "none"

Next ==
  \E c \in Clients : \/ Connect(c) \/ Vanish(c)
                     \/ \E k \in Commands \union {"Login"} : Send(c, k)
                     \/ Thread(c)

Spec == Init /\ [][Next]_vars

(* Every thread that can go on does: registry_lock is held for one step,   *)
(* and pthread mutexes let every waiter in eventually.  Clients owe        *)
(* nothing.                                                                *)
FairSpec == Spec /\ \A c \in Clients : WF_vars(Thread(c))

-------------------------------------------------------------------------------
(* What holds of a shared canvas *)

TypeOK ==
  /\ session \in [Clients -> {"none", "active", "inactive"}]
  /\ name \in [Clients -> Users \union {None}]
  /\ at \in [Clients -> Places]
  /\ cmd \in [Clients -> Commands \union {"Login", None}]
  /\ with \in [Clients -> Users \union {None}]
  /\ left \in [Clients -> [commands : Nat, barriers : Nat]]
  /\ queue \in Seq(Clients)
  /\ node \in {"none", "live", "freed"}
  /\ owner \in Users \union {None} /\ shared \subseteq Users
  /\ {capacity, room, refs, arrived, released} \subseteq Nat
  /\ fault \in {"none", "overrun", "barrier_freed", "double_free"}

(* The count of a canvas says who may still release it: the owner, less    *)
(* the times he did, and every collaborator on the list once; and at zero  *)
(* the canvas is gone.                                                     *)
RefsCountHolders ==
  node = "live" => refs > 0 /\ refs + released = 1 + Cardinality(shared)

(* No wakeup is lost: whoever sleeps at the barrier will be woken by the   *)
(* next opening, because the count says that somebody waits, and the count *)
(* is not of more clients than there are asleep.                           *)
SleepersCounted ==
  node = "live" => /\ Asleep # {} => arrived > 0
                   /\ arrived <= Cardinality(Asleep)

(* A barrier opens only when every logged-in client that has access to the *)
(* canvas is in it; unless a client in the barrier was killed, or lost its *)
(* access, and is counted although it is no longer waited for.             *)
OpensTogether ==
  [][\A c \in Clients : BarrierOpen(c) /\ Asleep \union {c} \subseteq Members
                        => Members \subseteq Asleep \union {c}]_vars

(* It is never so that all members are at the barrier, one of them asleep, *)
(* and they stay there.                                                    *)
Coming(c) == cmd[c] = "Barrier" /\ at[c] # "ready"
AllThere(c) == at[c] = "asleep" /\ \A d \in Members : Coming(d)

BarrierOpens ==
  \A c \in Clients : AllThere(c) ~> ~AllThere(c)

-------------------------------------------------------------------------------
(* What the repository says and the program does not do *)

(* "Provides synchronisation using barriers" (README.md): as BarrierOpens, *)
(* for clients that use the barrier any number of times.                   *)
BarrierOpensAgain == BarrierOpens

===============================================================================
