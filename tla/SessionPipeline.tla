--------------------------- MODULE SessionPipeline ----------------------------
(***************************************************************************)
(* The request pipeline of animate_server and the life of its sessions:    *)
(*                                                                         *)
(*   client --fifo--> main loop --queue--> worker --pending--> fifo        *)
(*                                                                         *)
(* The main loop polls the FIFOs, splits what it reads into lines, gives   *)
(* each line the session's next ticket and queues it.  Workers pop tasks   *)
(* in queue order, run them concurrently, and hand every response to       *)
(* send_ordered_response, which writes responses in ticket order.  Workers *)
(* disconnect sessions; the main loop frees the session structs.           *)
(*                                                                         *)
(* The clients are either instances of animate_client, which waits for     *)
(* each reply before it sends again, or writers that pipeline lines into   *)
(* the FIFO (constant Pipelined).  What a command does to the canvases is  *)
(* left to the registry modules: here a line is one of four kinds.         *)
(***************************************************************************)
EXTENDS Naturals, Sequences, FiniteSets

CONSTANTS
  Sessions,      \* client_session_t structs, one per connection
  Workers,       \* the threads of the pool
  None,          \* stands for no task and no session
  MaxRequests,   \* bound: lines one client sends
  Growth,        \* slack added when pending_responses grows (8 in the code)
  Kinds,         \* the kinds of line the clients of this instance send
  Pipelined,     \* BOOLEAN: clients write without waiting for the reply
  Killable,      \* BOOLEAN: client processes may be killed
  Reaped,        \* BOOLEAN: exited clients are reaped, so kill(pid, 0) fails
  AllocFails     \* BOOLEAN: malloc and realloc may return NULL

(* "rpc": any command that keeps the session; "Disconnect"; "Reject": a    *)
(* Login the server refuses; "Overlong": 512 bytes without a newline.      *)
AllKinds == {"rpc", "Disconnect", "Reject", "Overlong"}

ASSUME PipelineAssumption ==
  /\ MaxRequests \in Nat
  /\ Growth \in Nat \ {0}
  /\ Kinds \subseteq AllKinds
  /\ None \notin Sessions
  /\ {Pipelined, Killable, Reaped, AllocFails} \subseteq BOOLEAN

VARIABLES
  (* the clients *)
  client,        \* client[s]: "none" (not yet connected), "open" or "gone"
  sent,          \* sent[s]: the kinds of the lines sent, in order
  fifo,          \* fifo[s]: numbers of the lines not yet read by the server
  out,           \* out[s]: numbers of the lines answered on FIFO_S2C, in order
  strays,        \* strays[s]: replies to other clients written to FIFO_S2C of s
  (* the sessions *)
  life,          \* life[s]: "none", "active", "inactive" or "freed"
  heir,          \* heir[s]: the session whose FIFO has the descriptor of s now
  slots,         \* active_sessions, with what lies beyond session_count
  count,         \* session_count
  dropped,       \* history: the sessions that the main loop disconnected
  nextTicket,    \* next_ticket
  nextResponse,  \* next_response_ticket
  capacity,      \* pending_capacity
  pending,       \* the non-NULL entries of all pending_responses
  (* the pool *)
  queue,         \* work_queue
  pc,            \* pc[w]: where worker w is
  task,          \* task[w]: the task w popped and has not freed
  ran,           \* ran[s]: numbers of the lines executed, in order (history)
  (* the main loop *)
  mpc,           \* where the main loop is
  ready,         \* session_indices whose descriptor polled POLLIN
  serving,       \* the session whose bytes are being split, if any
  batch,         \* its lines read and not yet queued
  leaked,        \* sessions_lock was left locked by an error path
  fault          \* how the process went down, "none" while it runs

clientVars  == <<client, sent, fifo, out, strays>>
sessionVars == <<life, heir, slots, count, dropped>>
ticketVars  == <<nextTicket, nextResponse, capacity, pending>>
poolVars    == <<queue, pc, task, ran>>
mainVars    == <<mpc, ready, serving, batch, leaked>>
vars == <<clientVars, sessionVars, ticketVars, poolVars, mainVars, fault>>

Tasks == [s : Sessions, ticket : Nat, line : Nat]

(* The kind of the line a task or a stored response stands for. *)
KindOf(t) == sent[t.s][t.line]

Running == fault = "none"

(* A struct is used after cleanup_inactive_sessions freed it: from here    *)
(* on nothing is known, so the behaviour ends.                             *)
UseAfterFree == fault' = "use_after_free"

-------------------------------------------------------------------------------
(* Clients *)

(* animate_client sends nothing but a Login first, reads the reply to each *)
(* line before it reads another, leaves after a refused Login and after    *)
(* sending Disconnect, and its lines are at most 100 bytes long.           *)
CanSend_NoWait(s, k) ==
  Pipelined \/ (k # "Overlong" /\ \A i \in DOMAIN sent[s] : sent[s][i] = "rpc")
CanSend(s, k) ==
  \/ Pipelined
  \/ /\ k # "Overlong"
     /\ sent[s] = <<>> => k # "Disconnect"
     /\ Len(out[s]) = Len(sent[s])
     /\ \A i \in DOMAIN sent[s] : sent[s][i] = "rpc"

Send(s, k) ==
  /\ Running
  /\ client[s] = "open" /\ life[s] = "active"
  /\ Len(sent[s]) < MaxRequests
  /\ CanSend(s, k)
  /\ sent' = [sent EXCEPT ![s] = Append(@, k)]
  /\ fifo' = [fifo EXCEPT ![s] = Append(@, Len(sent[s]) + 1)]
  /\ UNCHANGED <<client, out, strays, sessionVars, ticketVars, poolVars, mainVars, fault>>

(* When animate_client closes its FIFOs: after it wrote Disconnect, after  *)
(* it read a refusal, and when the server closed the other ends.           *)
LeavesAtWill(s) ==
  \/ life[s] # "active"
  \/ \E i \in DOMAIN sent[s] :
        \/ sent[s][i] = "Disconnect"
        \/ sent[s][i] = "Reject" /\ Len(out[s]) >= i

Leave(s) ==
  /\ Running
  /\ client[s] = "open"
  /\ Pipelined \/ Killable \/ LeavesAtWill(s)
  /\ client' = [client EXCEPT ![s] = "gone"]
  /\ UNCHANGED <<sent, fifo, out, strays, sessionVars, ticketVars, poolVars, mainVars, fault>>

-------------------------------------------------------------------------------
(* Main loop *)

Table == {slots[i] : i \in 1 .. count}

(* The sessions disconnect_client turns inactive when called on all of S:  *)
(* it returns at once unless the session is active.                        *)
Disconnected(S) ==
  [s \in Sessions |-> IF s \in S /\ life[s] = "active" THEN "inactive" ELSE life[s]]

(* Active sessions whose client kill(pid, 0) may report as gone. *)
Departed == {s \in Table : Reaped /\ life[s] = "active" /\ client[s] = "gone"}

(* A client completed the signal handshake: its struct is appended, and    *)
(* the sessions of vanished clients are disconnected on the way.  Its      *)
(* FIFOs were opened before that and may have been given the descriptors   *)
(* that disconnect_client closed in a session still in the table.          *)
MainAccept(s) ==
  /\ Running /\ mpc = "top" /\ ~leaked
  /\ client[s] = "none"
  /\ client' = [client EXCEPT ![s] = "open"]
  /\ \E gone \in SUBSET Departed :
        /\ life' = [Disconnected(gone) EXCEPT ![s] = "active"]
        /\ dropped' = dropped \union gone
  /\ \E closed \in {x \in Sessions : life[x] = "inactive" /\ heir[x] = x} \union {s} :
        heir' = [x \in Sessions |-> IF heir[x] = closed THEN s ELSE heir[x]]
  /\ slots' = Append(SubSeq(slots, 1, count), s)
  /\ count' = count + 1
  /\ mpc' = "poll"
  /\ UNCHANGED <<sent, fifo, out, strays, ticketVars, poolVars,
                 ready, serving, batch, leaked, fault>>

(* realloc or malloc fails while sessions_lock is held: the loop goes on   *)
(* to its next round without unlocking, and locks it again there.          *)
MainAcceptFails(s) ==
  /\ Running /\ mpc = "top" /\ ~leaked
  /\ AllocFails /\ client[s] = "none"
  /\ client' = [client EXCEPT ![s] = "gone"]
  /\ \E gone \in SUBSET Departed :
        /\ life' = Disconnected(gone)
        /\ dropped' = dropped \union gone
  /\ leaked' = TRUE
  /\ UNCHANGED <<sent, fifo, out, strays, heir, slots, count, ticketVars, poolVars,
                 mpc, ready, serving, batch, fault>>

(* No session is active, or there is no memory for the pollfds: the loop   *)
(* starts over without cleaning up.                                        *)
MainIdle ==
  /\ Running /\ mpc = "poll" /\ ~leaked
  /\ AllocFails \/ \A s \in Table : life[s] # "active"
  /\ mpc' = "top"
  /\ UNCHANGED <<clientVars, sessionVars, ticketVars, poolVars,
                 ready, serving, batch, leaked, fault>>

(* One snapshot of the active sessions and one poll of their FIFOs. *)
MainPoll ==
  /\ Running /\ mpc \in {"top", "poll"} /\ ~leaked
  /\ \E s \in Table : life[s] = "active"
  /\ ready' = {i \in 1 .. count : life[slots[i]] = "active" /\ fifo[slots[i]] # <<>>}
  /\ mpc' = "cleanup"
  /\ UNCHANGED <<clientVars, sessionVars, ticketVars, poolVars,
                 serving, batch, leaked, fault>>

(* A plausible slip: the survivors are counted but not moved down. *)
MainCleanup_NoMove ==
  /\ Running /\ mpc = "cleanup"
  /\ count' = Cardinality({i \in 1 .. count : life[slots[i]] = "active"})
  /\ life' = [s \in Sessions |->
                IF s \in Table /\ life[s] = "inactive" THEN "freed" ELSE life[s]]
  /\ mpc' = IF ready = {} THEN "top" ELSE "serve"
  /\ UNCHANGED <<clientVars, heir, slots, dropped, ticketVars, poolVars,
                 ready, serving, batch, leaked, fault>>

(* cleanup_inactive_sessions: the inactive structs are freed and the       *)
(* active ones moved down in order; the words beyond the new count keep    *)
(* their old pointers.                                                     *)
MainCleanup ==
  /\ Running /\ mpc = "cleanup"
  /\ \E n \in 0 .. count : \E from \in [1 .. n -> 1 .. count] :
        /\ \A j, k \in 1 .. n : j < k => from[j] < from[k]
        /\ {from[j] : j \in 1 .. n} = {i \in 1 .. count : life[slots[i]] = "active"}
        /\ slots' = [j \in DOMAIN slots |-> IF j <= n THEN slots[from[j]] ELSE slots[j]]
        /\ count' = n
  /\ life' = [s \in Sessions |->
                IF s \in Table /\ life[s] = "inactive" THEN "freed" ELSE life[s]]
  /\ mpc' = IF ready = {} THEN "top" ELSE "serve"
  /\ UNCHANGED <<clientVars, heir, dropped, ticketVars, poolVars,
                 ready, serving, batch, leaked, fault>>

(* The main loop takes the indices that polled readable in order. *)
NextReady(i) == i \in ready /\ \A j \in ready : i <= j
AfterIndex(i) == IF ready = {i} THEN "top" ELSE "serve"

(* read() returned n lines' worth of bytes. *)
MainRead(i) ==
  /\ Running /\ mpc = "serve" /\ NextReady(i)
  /\ life[slots[i]] = "active"
  /\ \E n \in 1 .. Len(fifo[slots[i]]) :
        /\ \A k \in 1 .. n : sent[slots[i]][fifo[slots[i]][k]] # "Overlong"
        /\ batch' = SubSeq(fifo[slots[i]], 1, n)
        /\ fifo' = [fifo EXCEPT ![slots[i]] = SubSeq(@, n + 1, Len(@))]
  /\ serving' = slots[i]
  /\ ready' = ready \ {i}
  /\ mpc' = "push"
  /\ UNCHANGED <<client, sent, out, strays, sessionVars, ticketVars, poolVars, leaked, fault>>

(* read() returned 0: the writer closed its end, or the buffer is full of  *)
(* one unfinished line.                                                    *)
MainReadEnd(i) ==
  /\ Running /\ mpc = "serve" /\ NextReady(i)
  /\ life[slots[i]] = "active"
  /\ IF fifo[slots[i]] = <<>>
     THEN client[slots[i]] = "gone"
     ELSE sent[slots[i]][Head(fifo[slots[i]])] = "Overlong"
  /\ life' = Disconnected({slots[i]})
  /\ dropped' = dropped \union {slots[i]}
  /\ ready' = ready \ {i}
  /\ mpc' = AfterIndex(i)
  /\ UNCHANGED <<clientVars, heir, slots, count, ticketVars, poolVars,
                 serving, batch, leaked, fault>>

(* read() failed: the index now belongs to a session without data, or the  *)
(* descriptor was closed since the poll.                                   *)
MainReadFails(i) ==
  /\ Running /\ mpc = "serve" /\ NextReady(i)
  /\ \/ life[slots[i]] = "inactive"
     \/ life[slots[i]] = "active" /\ fifo[slots[i]] = <<>> /\ client[slots[i]] = "open"
  /\ ready' = ready \ {i}
  /\ mpc' = AfterIndex(i)
  /\ UNCHANGED <<clientVars, sessionVars, ticketVars, poolVars,
                 serving, batch, leaked, fault>>

(* The index lies beyond the compacted table and names a freed struct. *)
MainReadFreed(i) ==
  /\ Running /\ mpc = "serve" /\ NextReady(i)
  /\ life[slots[i]] = "freed"
  /\ UseAfterFree
  /\ UNCHANGED <<clientVars, sessionVars, ticketVars, poolVars, mainVars>>

(* A plausible slip: the scan goes on after the last complete line. *)
MainPush_NoEnd ==
  /\ Running /\ mpc = "push" /\ batch # <<>>
  /\ queue' = Append(queue, [s |-> serving, ticket |-> nextTicket[serving],
                            line |-> Head(batch)])
  /\ nextTicket' = [nextTicket EXCEPT ![serving] = @ + 1]
  /\ batch' = Tail(batch)
  /\ UNCHANGED <<clientVars, sessionVars, nextResponse, capacity, pending,
                 pc, task, ran, mpc, ready, serving, leaked, fault>>

(* A plausible slip: ++next_ticket for next_ticket++. *)
MainPush_PreIncrement ==
  /\ Running /\ mpc = "push"
  /\ queue' = Append(queue, [s |-> serving, ticket |-> nextTicket[serving] + 1,
                            line |-> Head(batch)])
  /\ nextTicket' = [nextTicket EXCEPT ![serving] = @ + 1]
  /\ batch' = Tail(batch)
  /\ IF Len(batch) > 1
     THEN UNCHANGED <<mpc, serving>>
     ELSE /\ mpc' = IF ready = {} THEN "top" ELSE "serve"
          /\ serving' = None
  /\ UNCHANGED <<clientVars, sessionVars, nextResponse, capacity, pending,
                 pc, task, ran, ready, leaked, fault>>

(* One complete line gets the session's next ticket and is queued; when    *)
(* queue_push cannot allocate the task the ticket is used up all the same. *)
MainPush ==
  /\ Running /\ mpc = "push"
  /\ LET new == [s |-> serving, ticket |-> nextTicket[serving], line |-> Head(batch)]
     IN  \/ queue' = Append(queue, new)
         \/ AllocFails /\ queue' = queue
  /\ nextTicket' = [nextTicket EXCEPT ![serving] = @ + 1]
  /\ batch' = Tail(batch)
  /\ IF Len(batch) > 1
     THEN UNCHANGED <<mpc, serving>>
     ELSE /\ mpc' = IF ready = {} THEN "top" ELSE "serve"
          /\ serving' = None
  /\ UNCHANGED <<clientVars, sessionVars, nextResponse, capacity, pending,
                 pc, task, ran, ready, leaked, fault>>

MainLoop ==
  \/ MainIdle \/ MainPoll \/ MainCleanup \/ MainPush
  \/ \E i \in ready : MainRead(i) \/ MainReadEnd(i) \/ MainReadFails(i) \/ MainReadFreed(i)

-------------------------------------------------------------------------------
(* Workers *)

(* A plausible slip: the head is read but not unlinked. *)
Pop_NoUnlink(w) ==
  /\ Running /\ pc[w] = "idle" /\ queue # <<>>
  /\ task' = [task EXCEPT ![w] = Head(queue)]
  /\ pc' = [pc EXCEPT ![w] = "run"]
  /\ UNCHANGED <<clientVars, sessionVars, ticketVars, queue, ran, mainVars, fault>>

Pop(w) ==
  /\ Running /\ pc[w] = "idle" /\ queue # <<>>
  /\ task' = [task EXCEPT ![w] = Head(queue)]
  /\ queue' = Tail(queue)
  /\ pc' = [pc EXCEPT ![w] = "run"]
  /\ UNCHANGED <<clientVars, sessionVars, ticketVars, ran, mainVars, fault>>

(* A plausible slip: the session is disconnected before its reply is sent. *)
Execute_DisconnectFirst(w) ==
  /\ Running /\ pc[w] = "run"
  /\ ran' = [ran EXCEPT ![task[w].s] = Append(@, task[w].line)]
  /\ pc' = [pc EXCEPT ![w] = "send"]
  /\ life' = Disconnected({t \in {task[w].s} : KindOf(task[w]) # "rpc"})
  /\ UNCHANGED <<clientVars, heir, slots, count, dropped, ticketVars, queue, task,
                 mainVars, fault>>

(* process_rpc_command.  Every handler reads session->username; Disconnect *)
(* has no handler.                                                         *)
Execute(w) ==
  /\ Running /\ pc[w] = "run"
  /\ IF life[task[w].s] = "freed" /\ KindOf(task[w]) # "Disconnect"
     THEN /\ UseAfterFree
          /\ UNCHANGED <<pc, ran>>
     ELSE /\ ran' = [ran EXCEPT ![task[w].s] = Append(@, task[w].line)]
          /\ pc' = [pc EXCEPT ![w] = "send"]
          /\ UNCHANGED fault
  /\ UNCHANGED <<clientVars, sessionVars, ticketVars, queue, task, mainVars>>

(* The worker frees its task and goes back to the queue. *)
Idle(w) ==
  /\ pc' = [pc EXCEPT ![w] = "idle"]
  /\ task' = [task EXCEPT ![w] = None]

(* What follows send_ordered_response. *)
AfterSend(w) ==
  IF KindOf(task[w]) \in {"Disconnect", "Reject"}
  THEN /\ pc' = [pc EXCEPT ![w] = "disconnect"]
       /\ UNCHANGED task
  ELSE Idle(w)

(* A plausible slip: a lock of the sending thread's own, which excludes    *)
(* nobody.                                                                 *)
Locked_Never(s) == FALSE

(* response_lock of session s is held by a worker between Store and        *)
(* DrainDone.                                                              *)
Locked(s) == \E w \in Workers : pc[w] = "drain" /\ task[w].s = s

(* The pending table after it has room for ticket t. *)
Grown_Short(c, t) == IF t >= c THEN t ELSE c
Grown(c, t) == IF t >= c THEN t + Growth ELSE c

(* send_ordered_response takes response_lock and stores the response. *)
Store(w) ==
  /\ Running /\ pc[w] = "send"
  /\ life[task[w].s] # "freed" /\ ~Locked(task[w].s)
  /\ capacity' = [capacity EXCEPT ![task[w].s] = Grown(@, task[w].ticket)]
  /\ pending' = pending \union {task[w]}
  /\ pc' = [pc EXCEPT ![w] = "drain"]
  /\ UNCHANGED <<clientVars, sessionVars, nextTicket, nextResponse,
                 queue, task, ran, mainVars, fault>>

(* The table cannot grow and the response is dropped, or strdup fails and  *)
(* NULL is stored.                                                         *)
StoreFails(w) ==
  /\ Running /\ pc[w] = "send"
  /\ life[task[w].s] # "freed" /\ ~Locked(task[w].s)
  /\ AllocFails
  /\ \/ /\ task[w].ticket >= capacity[task[w].s]
        /\ AfterSend(w)
        /\ UNCHANGED capacity
     \/ /\ capacity' = [capacity EXCEPT ![task[w].s] = Grown(@, task[w].ticket)]
        /\ pc' = [pc EXCEPT ![w] = "drain"]
        /\ UNCHANGED task
  /\ UNCHANGED <<clientVars, sessionVars, nextTicket, nextResponse, pending,
                 queue, ran, mainVars, fault>>

(* The stored response whose turn it is, if there is one below capacity. *)
Due(s) == {r \in pending : /\ r.s = s
                           /\ r.ticket = nextResponse[s]
                           /\ r.ticket < capacity[s]}

(* Plausible slips: responses are written in completion order; a response  *)
(* is written and kept.                                                    *)
DrainWrite_AnyOrder(w) ==
  /\ Running /\ pc[w] = "drain" /\ life[task[w].s] = "active"
  /\ client[task[w].s] = "open"
  /\ out' = [out EXCEPT ![task[w].s] = Append(@, task[w].line)]
  /\ task[w] \in pending
  /\ pending' = pending \ {task[w]}
  /\ nextResponse' = [nextResponse EXCEPT ![task[w].s] = @ + 1]
  /\ UNCHANGED <<client, sent, fifo, strays, sessionVars, nextTicket, capacity,
                 poolVars, mainVars, fault>>
DrainWrite_Kept(w) ==
  /\ Running /\ pc[w] = "drain" /\ life[task[w].s] = "active"
  /\ client[task[w].s] = "open"
  /\ \E r \in Due(task[w].s) : out' = [out EXCEPT ![r.s] = Append(@, r.line)]
  /\ UNCHANGED <<client, sent, fifo, strays, sessionVars, ticketVars,
                 poolVars, mainVars, fault>>

(* The open FIFO that writing to the descriptor of s reaches, if any: that *)
(* of s, or of the session that was given the number after s closed it.    *)
Reached(s) == {x \in {IF life[s] = "active" THEN s ELSE heir[s]} : life[x] = "active"}

(* One round of the loop that writes what is due.  The result of write is  *)
(* ignored; on a FIFO the client no longer reads it raises SIGPIPE, which  *)
(* the server leaves at its default.                                       *)
DrainWrite(w) ==
  /\ Running /\ pc[w] = "drain" /\ life[task[w].s] # "freed"
  /\ \E r \in Due(task[w].s) :
        IF \E x \in Reached(r.s) : client[x] = "gone"
        THEN /\ fault' = "SIGPIPE"
             /\ UNCHANGED <<out, strays, pending, nextResponse>>
        ELSE /\ out' = [x \in Sessions |->
                          IF x \in Reached(r.s) /\ x = r.s
                          THEN Append(out[x], r.line) ELSE out[x]]
             /\ strays' = [x \in Sessions |->
                             IF x \in Reached(r.s) /\ x # r.s
                             THEN strays[x] + 1 ELSE strays[x]]
             /\ pending' = pending \ {r}
             /\ nextResponse' = [nextResponse EXCEPT ![r.s] = @ + 1]
             /\ UNCHANGED fault
  /\ UNCHANGED <<client, sent, fifo, sessionVars, nextTicket, capacity,
                 poolVars, mainVars>>

(* A plausible slip: only the response just stored is looked at. *)
DrainDone_Once(w) ==
  /\ Running /\ pc[w] = "drain" /\ life[task[w].s] # "freed"
  /\ task[w] \notin Due(task[w].s)
  /\ AfterSend(w)
  /\ UNCHANGED <<clientVars, sessionVars, ticketVars, queue, ran, mainVars, fault>>

(* Nothing more is due: response_lock is released. *)
DrainDone(w) ==
  /\ Running /\ pc[w] = "drain" /\ life[task[w].s] # "freed"
  /\ Due(task[w].s) = {}
  /\ AfterSend(w)
  /\ UNCHANGED <<clientVars, sessionVars, ticketVars, queue, ran, mainVars, fault>>

(* disconnect_client under sessions_lock, after a Disconnect or a refusal. *)
Disconnect(w) ==
  /\ Running /\ pc[w] = "disconnect" /\ ~leaked /\ life[task[w].s] # "freed"
  /\ life' = Disconnected({task[w].s})
  /\ Idle(w)
  /\ UNCHANGED <<clientVars, heir, slots, count, dropped, ticketVars, queue, ran,
                 mainVars, fault>>

(* The worker goes on with a session the main loop freed meanwhile. *)
WorkerUsesFreed(w) ==
  /\ Running /\ pc[w] \in {"send", "drain", "disconnect"}
  /\ pc[w] = "disconnect" => ~leaked
  /\ life[task[w].s] = "freed"
  /\ UseAfterFree
  /\ UNCHANGED <<clientVars, sessionVars, ticketVars, poolVars, mainVars>>

Worker(w) ==
  \/ Pop(w) \/ Execute(w) \/ Store(w) \/ StoreFails(w)
  \/ DrainWrite(w) \/ DrainDone(w) \/ Disconnect(w) \/ WorkerUsesFreed(w)

-------------------------------------------------------------------------------
(* The server with its clients *)

Init ==
  /\ client = [s \in Sessions |-> "none"]
  /\ sent = [s \in Sessions |-> <<>>]
  /\ fifo = [s \in Sessions |-> <<>>]
  /\ out  = [s \in Sessions |-> <<>>]
  /\ strays = [s \in Sessions |-> 0]
  /\ life = [s \in Sessions |-> "none"]
  /\ heir = [s \in Sessions |-> s]
  /\ slots = <<>> /\ count = 0 /\ dropped = {}
  /\ nextTicket   = [s \in Sessions |-> 0]
  /\ nextResponse = [s \in Sessions |-> 0]
  /\ capacity     = [s \in Sessions |-> 0]
  /\ pending = {}
  /\ queue = <<>>
  /\ pc = [w \in Workers |-> "idle"]
  /\ task = [w \in Workers |-> None]
  /\ ran = [s \in Sessions |-> <<>>]
  /\ mpc = "top" /\ ready = {} /\ serving = None /\ batch = <<>>
  /\ leaked = FALSE
  /\ fault = "none"

Next ==
  \/ \E s \in Sessions : \/ \E k \in Kinds : Send(s, k)
                         \/ Leave(s) \/ MainAccept(s) \/ MainAcceptFails(s)
  \/ MainLoop
  \/ \E w \in Workers : Worker(w)

Spec == Init /\ [][Next]_vars

(* The kernel keeps scheduling the main thread and every worker, and every *)
(* command comes to its end; clients owe nothing.                          *)
Fairness == WF_vars(MainLoop) /\ \A w \in Workers : WF_vars(Worker(w))

FairSpec == Spec /\ Fairness

-------------------------------------------------------------------------------
(* What the pipeline guarantees *)

Identity(n) == [i \in 1 .. n |-> i]

ClientTypes ==
  /\ client \in [Sessions -> {"none", "open", "gone"}]
  /\ sent \in [Sessions -> Seq(Kinds)]
  /\ fifo \in [Sessions -> Seq(Nat)]
  /\ out \in [Sessions -> Seq(Nat)]
  /\ strays \in [Sessions -> Nat]

SessionTypes ==
  /\ life \in [Sessions -> {"none", "active", "inactive", "freed"}]
  /\ heir \in [Sessions -> Sessions]
  /\ slots \in Seq(Sessions) /\ count \in 0 .. Len(slots)
  /\ dropped \subseteq Sessions

TicketTypes ==
  /\ nextTicket \in [Sessions -> Nat]
  /\ nextResponse \in [Sessions -> Nat]
  /\ capacity \in [Sessions -> Nat]
  /\ pending \in SUBSET Tasks

PoolTypes ==
  /\ queue \in Seq(Tasks)
  /\ pc \in [Workers -> {"idle", "run", "send", "drain", "disconnect"}]
  /\ task \in [Workers -> Tasks \union {None}]
  /\ \A w \in Workers : pc[w] # "idle" => task[w] \in Tasks
  /\ ran \in [Sessions -> Seq(Nat)]

MainTypes ==
  /\ mpc \in {"top", "poll", "cleanup", "serve", "push"}
  /\ ready \subseteq 1 .. Len(slots)
  /\ serving \in Sessions \union {None}
  /\ batch \in Seq(Nat)
  /\ leaked \in BOOLEAN
  /\ mpc = "push" => serving \in Sessions /\ batch # <<>>
  /\ mpc # "push" => serving = None /\ batch = <<>>
  /\ mpc \in {"top", "poll"} => ready = {}

(* Types, and what each program counter says of the variables beside it. *)
TypeOK ==
  /\ ClientTypes /\ SessionTypes /\ TicketTypes /\ PoolTypes /\ MainTypes
  /\ fault \in {"none", "SIGPIPE", "use_after_free"}

(* "Ordered RPC responses": whatever the workers do in parallel, and       *)
(* whenever allocations fail or sessions end, the replies a client has     *)
(* received answer its first lines, in the order it sent them, each once.  *)
OrderedDelivery ==
  \A s \in Sessions : /\ out[s] = Identity(Len(out[s]))
                      /\ Len(out[s]) <= Len(sent[s])

(* The tasks that are neither answered nor dropped, by where they are. *)
Queued == {queue[i] : i \in DOMAIN queue}
Busy   == {w \in Workers : pc[w] \in {"run", "send"}}
InHand == {task[w] : w \in Busy}

(* No ticket is issued twice, executed twice or answered twice: at any     *)
(* time a ticket that was issued and not answered is in one place only,    *)
(* and it is not below the ticket the session waits for.                   *)
TicketHeldOnce ==
  /\ \A i, j \in DOMAIN queue : i # j => queue[i] # queue[j]
  /\ \A v, w \in Busy : v # w => task[v] # task[w]
  /\ Queued \intersect InHand = {}
  /\ (Queued \union InHand) \intersect pending = {}
  /\ \A t \in Queued \union InHand \union pending :
        nextResponse[t.s] <= t.ticket /\ t.ticket < nextTicket[t.s]

(* Why the two hold.  The lines of a session are numbered without a gap,   *)
(* first those with a ticket, then those read, then those in the FIFO; a   *)
(* task is for the line after its ticket; and until the session ends its   *)
(* client has been sent exactly the replies below next_response_ticket.    *)
InBatch(s) == IF serving = s THEN Len(batch) ELSE 0

LinesNumbered ==
  \A s \in Sessions :
     /\ Len(sent[s]) = nextTicket[s] + InBatch(s) + Len(fifo[s])
     /\ \A i \in 1 .. Len(fifo[s]) : fifo[s][i] = nextTicket[s] + InBatch(s) + i
     /\ serving = s => \A i \in 1 .. Len(batch) : batch[i] = nextTicket[s] + i

RepliesNumbered ==
  \A s \in Sessions :
     /\ client[s] = "none" => life[s] = "none"
     /\ life[s] = "none" => nextTicket[s] = 0 /\ serving # s
     /\ nextResponse[s] <= nextTicket[s]
     /\ Len(out[s]) <= nextResponse[s]
     /\ life[s] \in {"none", "active"} => Len(out[s]) = nextResponse[s]
     /\ \A i \in 1 .. Len(out[s]) : out[s][i] = i

TasksNumbered ==
  \A t \in Queued \union InHand \union pending : t.line = t.ticket + 1

(* The invariant that one step preserves: no line, ticket or reply of a    *)
(* session is lost or doubled on its way from the FIFO to the queue, to a  *)
(* worker, to the pending table and to the client.                         *)
PipelineInv == LinesNumbered /\ RepliesNumbered /\ TasksNumbered /\ TicketHeldOnce

(* send_ordered_response leaves no response behind: unless a worker is in  *)
(* its critical section, the response the session waits for is not there.  *)
(* A response that stayed would be written only with a later one, and for  *)
(* a client that waits for it there is no later one.                       *)
DrainComplete ==
  \A s \in Sessions : Running /\ ~Locked(s) => Due(s) = {}

(* cleanup_inactive_sessions loses nobody: the table lists every session   *)
(* that is not freed, once, and nothing else, so that the main loop polls  *)
(* every active session and frees every inactive one once.                 *)
TableSound ==
  /\ \A i, j \in 1 .. count : i # j => slots[i] # slots[j]
  /\ Table = {s \in Sessions : life[s] \in {"active", "inactive"}}

(* The pipeline implements the promise made to the clients. *)
Replies == INSTANCE OrderedReplies WITH
             requests <- [s \in Sessions |-> Len(sent[s])],
             replies  <- out
RepliesInOrder == Replies!Spec

-------------------------------------------------------------------------------
(* What holds for the clients of the repository *)

(* With clients that wait for each reply the pool executes the commands of *)
(* one session in the order it sent them, one at a time.                   *)
ExecutesInOrder ==
  \A s \in Sessions : ran[s] = Identity(Len(ran[s]))

(* A worker that disconnects a session is the last that has to do with it: *)
(* no line of it is read, queued or worked on any more, so that the main   *)
(* loop may free the struct.  Only a session that the main loop itself     *)
(* disconnected may still be in use; see StructsInUseKept.                 *)
InUse(s) == \/ fifo[s] # <<>> \/ serving = s
            \/ \E t \in Queued : t.s = s
            \/ \E w \in Workers : pc[w] # "idle" /\ task[w].s = s

FreedWhenIdle ==
  \A s \in Sessions \ dropped : life[s] \in {"inactive", "freed"} => ~InUse(s)

(* A reply is never written to the FIFO of another client, although the    *)
(* number of a closed descriptor is soon given to the next one, as long as *)
(* only workers disconnect sessions.                                       *)
NoStrayReply == dropped = {} => \A s \in Sessions : strays[s] = 0

(* Why the three hold.  A client has at most one line without a reply, and *)
(* only its last line can end its session.                                 *)
OneOutstanding ==
  \A s \in Sessions :
     /\ Len(sent[s]) <= Len(out[s]) + 1
     /\ \A i \in 1 .. Len(sent[s]) : sent[s][i] # "rpc" => i = Len(sent[s])

(* So a session never has two lines to execute, and what was executed is   *)
(* what was answered, plus at most the line with the last ticket.          *)
Waiting == Queued \union {task[w] : w \in {v \in Workers : pc[v] = "run"}}
Done    == pending \union {task[w] : w \in {v \in Workers : pc[v] \notin {"idle", "run"}}}

RunsInOrder ==
  /\ \A s \in Sessions : /\ nextResponse[s] <= Len(ran[s])
                         /\ Len(ran[s]) <= nextTicket[s]
                         /\ \A i \in 1 .. Len(ran[s]) : ran[s][i] = i
  /\ \A t \in Waiting : t.ticket = Len(ran[t.s])
  /\ \A t \in Done : t.ticket < Len(ran[t.s]) /\ t.line = t.ticket + 1

(* And two workers meet in a session only when one is about to release     *)
(* response_lock after the reply to which the client answered with the     *)
(* line the other is working on.                                           *)
WorkersApart ==
  /\ \A w \in Workers : pc[w] = "disconnect" => KindOf(task[w]) # "rpc"
  /\ \A v, w \in Workers :
        /\ v # w /\ pc[v] # "idle" /\ pc[w] # "idle"
        /\ task[v].s = task[w].s /\ task[v].ticket <= task[w].ticket
        => /\ task[v].ticket < task[w].ticket
           /\ pc[v] = "drain" /\ pc[w] \in {"run", "send"}

ToolInv == OneOutstanding /\ RunsInOrder /\ WorkersApart /\ FreedWhenIdle

(* Every request is answered, unless its session or the server ends. *)
EveryRequestAnswered ==
  \A s \in Sessions : \A n \in 1 .. MaxRequests :
     Len(sent[s]) >= n ~> \/ Len(out[s]) >= n
                          \/ client[s] = "gone" \/ life[s] # "active"
                          \/ ~Running

-------------------------------------------------------------------------------
(* What the repository says and the program does not do *)

(* "test_ungraceful_disconnect" (tests.py): soon after a client was killed *)
(* its session is disconnected and its FIFOs are unlinked.                 *)
KilledClientCleared ==
  \A s \in Sessions : client[s] = "gone" ~> life[s] # "active" \/ ~Running

(* "Resource cleanup and disconnection handling" were tested (README.md),  *)
(* with "multiple concurrent client connections": the struct of a session  *)
(* is not freed while a task that points to it is queued or worked on.     *)
StructsInUseKept ==
  \A s \in Sessions : life[s] = "freed" =>
     /\ \A t \in Queued : t.s # s
     /\ \A w \in Workers : pc[w] # "idle" => task[w].s # s

===============================================================================
