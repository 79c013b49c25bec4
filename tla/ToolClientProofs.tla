-------------------------- MODULE ToolClientProofs ----------------------------
(* What animate_client makes true of the pipeline: theorems of             *)
(* SessionPipeline for clients that wait for each reply (~Pipelined), any  *)
(* number of them, with any allocation failing and any client killed.      *)
EXTENDS SessionPipelineProofs

(* The counters of a session, and how far they can be apart. *)
LEMMA Counters ==
  ASSUME TypeOK, PipelineInv, NEW s \in Sessions
  PROVE  /\ nextTicket[s] \in Nat /\ nextResponse[s] \in Nat
         /\ Len(out[s]) \in Nat /\ Len(sent[s]) \in Nat /\ Len(ran[s]) \in Nat
         /\ Len(fifo[s]) \in Nat /\ InBatch(s) \in Nat
         /\ Len(out[s]) <= nextResponse[s] /\ nextResponse[s] <= nextTicket[s]
         /\ Len(sent[s]) = nextTicket[s] + InBatch(s) + Len(fifo[s])
         /\ serving = s => InBatch(s) # 0
         /\ Len(fifo[s]) = 0 => fifo[s] = <<>>
<1>1. /\ nextTicket[s] \in Nat /\ nextResponse[s] \in Nat
      /\ Len(out[s]) \in Nat /\ Len(sent[s]) \in Nat /\ Len(ran[s]) \in Nat
      /\ Len(fifo[s]) \in Nat /\ InBatch(s) \in Nat
  BY LenProperties
     DEF TypeOK, ClientTypes, TicketTypes, PoolTypes, MainTypes, InBatch
<1>2. Len(out[s]) <= nextResponse[s] /\ nextResponse[s] <= nextTicket[s]
  BY DEF PipelineInv, RepliesNumbered
<1>3. Len(sent[s]) = nextTicket[s] + InBatch(s) + Len(fifo[s])
  BY DEF PipelineInv, LinesNumbered
<1>4. serving = s => InBatch(s) # 0
  BY EmptySeq, PipelineAssumption DEF TypeOK, MainTypes, InBatch
<1>5. Len(fifo[s]) = 0 => fifo[s] = <<>>
  BY EmptySeq DEF TypeOK, ClientTypes
<1> QED
  BY <1>1, <1>2, <1>3, <1>4, <1>5

LEMMA Squeezed ==
  ASSUME NEW t \in Nat, NEW r \in Nat, NEW n \in Nat, NEW b \in Nat, NEW f \in Nat,
         r <= t, t < n, n + b + f <= r + 1
  PROVE  t = r /\ n = t + 1 /\ b = 0 /\ f = 0
  OBVIOUS

(* A ticket that is queued, worked on or stored is the session's last, and *)
(* the session has nothing else to read.                                   *)
LEMMA LastTicket ==
  ASSUME TypeOK, PipelineInv, OneOutstanding,
         NEW t \in Queued \union InHand \union pending
  PROVE  /\ t \in Tasks /\ t.s \in Sessions /\ t.ticket \in Nat
         /\ t.line = t.ticket + 1
         /\ t.ticket = nextResponse[t.s] /\ nextTicket[t.s] = t.ticket + 1
         /\ Len(sent[t.s]) = nextTicket[t.s] /\ InBatch(t.s) = 0
<1>1. t \in Tasks /\ t.s \in Sessions /\ t.ticket \in Nat
  BY HeldTyped DEF Tasks
<1>2. /\ t.line = t.ticket + 1
      /\ nextResponse[t.s] <= t.ticket /\ t.ticket < nextTicket[t.s]
  BY DEF PipelineInv, TasksNumbered, TicketHeldOnce
<1>3. Len(sent[t.s]) <= Len(out[t.s]) + 1
  BY <1>1 DEF OneOutstanding
<1>4. /\ nextTicket[t.s] \in Nat /\ nextResponse[t.s] \in Nat
      /\ Len(out[t.s]) \in Nat /\ Len(sent[t.s]) \in Nat
      /\ Len(fifo[t.s]) \in Nat /\ InBatch(t.s) \in Nat
      /\ Len(out[t.s]) <= nextResponse[t.s]
      /\ Len(sent[t.s]) = nextTicket[t.s] + InBatch(t.s) + Len(fifo[t.s])
  BY <1>1, Counters
<1>5. nextTicket[t.s] + InBatch(t.s) + Len(fifo[t.s]) <= nextResponse[t.s] + 1
  BY <1>3, <1>4
<1>6. /\ t.ticket = nextResponse[t.s] /\ nextTicket[t.s] = t.ticket + 1
      /\ InBatch(t.s) = 0 /\ Len(fifo[t.s]) = 0
  BY SMTT(40), <1>1, <1>2, <1>4, <1>5, Squeezed
<1> QED
  BY <1>1, <1>2, <1>4, <1>6

(* So there is only one such task in a session. *)
LEMMA OneTask ==
  ASSUME TypeOK, PipelineInv, OneOutstanding,
         NEW a \in Queued \union InHand \union pending,
         NEW b \in Queued \union InHand \union pending,
         a.s = b.s
  PROVE  a = b
<1>1. a.ticket = b.ticket /\ a.line = b.line /\ a \in Tasks /\ b \in Tasks
  BY LastTicket
<1> QED
  BY <1>1, SameTask

(* A client sends when it has every reply; replies only catch up. *)
LEMMA OutstandingStep ==
  ASSUME ~Pipelined, TypeOK, TypeOK', OneOutstanding, [Next]_vars
  PROVE  OneOutstanding'
<1>1. ASSUME NEW s \in Sessions, NEW k \in Kinds, Send(s, k) PROVE OneOutstanding'
  <2>1. sent' = [sent EXCEPT ![s] = Append(@, k)] /\ out' = out
    BY <1>1 DEF Send
  <2>2. sent[s] \in Seq(Kinds) /\ Len(sent[s]) \in Nat
    BY LenProperties DEF TypeOK, ClientTypes
  <2>3. Len(out[s]) = Len(sent[s]) /\ \A i \in DOMAIN sent[s] : sent[s][i] = "rpc"
    BY <1>1 DEF Send, CanSend
  <2>4. /\ sent'[s] = Append(sent[s], k)
        /\ \A x \in Sessions : x # s => sent'[x] = sent[x]
    BY <2>1 DEF TypeOK, ClientTypes
  <2>5. /\ Len(sent'[s]) = Len(sent[s]) + 1
        /\ \A i \in 1 .. Len(sent[s]) : sent'[s][i] = "rpc"
    BY <2>2, <2>3, <2>4, AppendProperties, LenProperties
  <2>6. \A i \in 1 .. Len(sent'[s]) : sent'[s][i] # "rpc" => i = Len(sent'[s])
    BY <2>2, <2>5
  <2> QED
    BY <2>1, <2>2, <2>3, <2>4, <2>5, <2>6 DEF OneOutstanding
<1>2. ASSUME NEW w \in Workers, DrainWrite(w) PROVE OneOutstanding'
  <2>1. sent' = sent
    BY <1>2 DEF DrainWrite
  <2>2. ASSUME NEW x \in Sessions PROVE Len(out'[x]) >= Len(out[x])
    <3>1. out[x] \in Seq(Nat) /\ Len(out[x]) \in Nat
      BY LenProperties DEF TypeOK, ClientTypes
    <3>2. CASE out' = out
      BY <3>1, <3>2
    <3>3. ASSUME NEW r \in Due(task[w].s),
                 out' = [y \in Sessions |->
                            IF y \in Reached(r.s) /\ y = r.s
                            THEN Append(out[y], r.line) ELSE out[y]]
          PROVE  Len(out'[x]) >= Len(out[x])
      <4>1. r.line \in Nat
        BY DEF Due, TypeOK, TicketTypes, Tasks
      <4>2. Len(Append(out[x], r.line)) = Len(out[x]) + 1
        BY <3>1, <4>1, AppendProperties
      <4> QED
        BY <3>1, <3>3, <4>2
    <3> QED
      BY <1>2, <3>2, <3>3 DEF DrainWrite
  <2> QED
    <3>1. \A x \in Sessions : /\ Len(out[x]) \in Nat /\ Len(out'[x]) \in Nat
                              /\ Len(sent[x]) \in Nat
      BY LenProperties DEF TypeOK, ClientTypes
    <3> QED
      BY <2>1, <2>2, <3>1 DEF OneOutstanding
<1>3. CASE UNCHANGED <<sent, out>>
  BY <1>3 DEF OneOutstanding
<1> QED
  BY <1>1, <1>2, <1>3, ExchangeTouched

-------------------------------------------------------------------------------
(* Lines are executed in order *)

LEMMA QueuePop ==
  ASSUME TypeOK, queue # <<>>, queue' = Tail(queue)
  PROVE  Head(queue) \in Queued /\ Queued' \subseteq Queued
<1>1. queue \in Seq(Tasks)
  BY DEF TypeOK, PoolTypes
<1>2. /\ Len(queue) \in Nat \ {0} /\ DOMAIN queue = 1 .. Len(queue)
      /\ queue' \in Seq(Tasks) /\ Len(queue') = Len(queue) - 1
      /\ \A i \in 1 .. Len(queue') : queue'[i] = queue[i + 1]
      /\ DOMAIN queue' = 1 .. Len(queue') /\ Head(queue) = queue[1]
  BY <1>1, HeadTailProperties, EmptySeq, LenProperties
<1>3. \A i \in 1 .. Len(queue') : i + 1 \in DOMAIN queue
  BY <1>2
<1> QED
  BY <1>2, <1>3 DEF Queued

LEMMA QueueAppend ==
  ASSUME TypeOK, NEW t \in Tasks, queue' = Append(queue, t)
  PROVE  Queued' \subseteq Queued \union {t}
<1>1. queue \in Seq(Tasks)
  BY DEF TypeOK, PoolTypes
<1>2. /\ Len(queue) \in Nat /\ DOMAIN queue = 1 .. Len(queue)
      /\ DOMAIN queue' = 1 .. Len(queue) + 1
      /\ \A i \in 1 .. Len(queue) : queue'[i] = queue[i]
      /\ queue'[Len(queue) + 1] = t
  BY <1>1, AppendProperties, LenProperties
<1> QED
  BY <1>2 DEF Queued

(* What the main loop pushes while a line of the batch is left. *)
LEMMA PushedTask ==
  ASSUME TypeOK, PipelineInv, MainPush
  PROVE  /\ serving \in Sessions
         /\ nextTicket' = [nextTicket EXCEPT ![serving] = @ + 1]
         /\ \E t \in Tasks : /\ t.s = serving /\ t.ticket = nextTicket[serving]
                             /\ t.line = t.ticket + 1
                             /\ Queued' \subseteq Queued \union {t}
         /\ UNCHANGED <<life, dropped, fifo, sent, out, pc, task, ran, pending, nextResponse>>
         /\ serving' \in {serving, None}
<1> USE DEF sessionVars, clientVars
<1>1. serving \in Sessions /\ batch \in Seq(Nat) /\ batch # <<>>
  BY DEF MainPush, TypeOK, MainTypes
<1>2. Head(batch) = batch[1] /\ Len(batch) \in Nat \ {0}
  BY <1>1, HeadTailProperties, EmptySeq
<1>3. Head(batch) = nextTicket[serving] + 1
  BY <1>1, <1>2 DEF PipelineInv, LinesNumbered
<1> DEFINE new == [s |-> serving, ticket |-> nextTicket[serving], line |-> Head(batch)]
<1>4. nextTicket[serving] \in Nat
  BY <1>1 DEF TypeOK, TicketTypes
<1>5. new \in Tasks /\ new.s = serving /\ new.ticket = nextTicket[serving]
      /\ new.line = new.ticket + 1
  BY <1>1, <1>3, <1>4 DEF Tasks
<1>6. queue' = Append(queue, new) \/ queue' = queue
  BY DEF MainPush
<1>7. Queued' \subseteq Queued \union {new}
  BY <1>5, <1>6, QueueAppend DEF Queued
<1> QED
  BY <1>1, <1>5, <1>7 DEF MainPush

(* Who touches the tasks and their counters. *)
LEMMA PoolTouched ==
  ASSUME [Next]_vars
  PROVE  \/ MainPush
         \/ \E w \in Workers : \/ Pop(w) \/ Execute(w) \/ Store(w) \/ StoreFails(w)
                               \/ DrainWrite(w) \/ DrainDone(w) \/ Disconnect(w)
         \/ UNCHANGED <<queue, pc, task, ran, pending, nextResponse, nextTicket>>
<1> USE DEF clientVars, sessionVars, ticketVars, poolVars, mainVars
<1>1. ASSUME NEW s \in Sessions, NEW k \in Kinds, Send(s, k)
      PROVE  UNCHANGED <<queue, pc, task, ran, pending, nextResponse, nextTicket>>
  BY <1>1 DEF Send
<1>2. ASSUME NEW s \in Sessions, Leave(s) \/ MainAccept(s) \/ MainAcceptFails(s)
      PROVE  UNCHANGED <<queue, pc, task, ran, pending, nextResponse, nextTicket>>
  BY <1>2 DEF Leave, MainAccept, MainAcceptFails
<1>3. ASSUME MainIdle \/ MainPoll \/ MainCleanup
      PROVE  UNCHANGED <<queue, pc, task, ran, pending, nextResponse, nextTicket>>
  BY <1>3 DEF MainIdle, MainPoll, MainCleanup
<1>4. ASSUME NEW i \in ready,
             MainRead(i) \/ MainReadEnd(i) \/ MainReadFails(i) \/ MainReadFreed(i)
      PROVE  UNCHANGED <<queue, pc, task, ran, pending, nextResponse, nextTicket>>
  BY <1>4 DEF MainRead, MainReadEnd, MainReadFails, MainReadFreed
<1>5. ASSUME NEW w \in Workers, WorkerUsesFreed(w)
      PROVE  UNCHANGED <<queue, pc, task, ran, pending, nextResponse, nextTicket>>
  BY <1>5 DEF WorkerUsesFreed
<1>6. CASE UNCHANGED vars
  BY <1>6 DEF vars
<1> QED
  BY <1>1, <1>2, <1>3, <1>4, <1>5, <1>6 DEF Next, MainLoop, Worker

(* What the steps of a worker after the execution have in common. *)
LEMMA WorkerReplies ==
  ASSUME TypeOK, NEW w \in Workers,
         Store(w) \/ StoreFails(w) \/ DrainDone(w) \/ Disconnect(w)
  PROVE  /\ UNCHANGED <<queue, ran, nextResponse, nextTicket, sent, fifo, serving>>
         /\ pc[w] \in {"send", "drain", "disconnect"}
         /\ pc'[w] \in {"drain", "disconnect", "idle"}
         /\ pc'[w] # "idle" => task'[w] = task[w]
         /\ \A v \in Workers : v # w => pc'[v] = pc[v] /\ task'[v] = task[v]
         /\ pending' \subseteq pending \union {task[w]}
<1> USE DEF TypeOK, PoolTypes, clientVars, mainVars, poolVars
<1>1. CASE Store(w)
  BY <1>1 DEF Store
<1>2. CASE StoreFails(w)
  BY <1>2 DEF StoreFails, AfterSend, Idle
<1>3. CASE DrainDone(w)
  BY <1>3 DEF DrainDone, AfterSend, Idle, ticketVars
<1>4. CASE Disconnect(w)
  BY <1>4 DEF Disconnect, Idle, ticketVars
<1> QED
  BY <1>1, <1>2, <1>3, <1>4

LEMMA RunsStep ==
  ASSUME TypeOK, TypeOK', PipelineInv, OneOutstanding, RunsInOrder, [Next]_vars
  PROVE  RunsInOrder'
<1>0. /\ ran \in [Sessions -> Seq(Nat)] /\ DOMAIN pc = Workers
      /\ nextTicket \in [Sessions -> Nat] /\ nextResponse \in [Sessions -> Nat]
      /\ \A s \in Sessions : Len(ran[s]) \in Nat
      /\ \A t \in Waiting : t \in Queued \union InHand \union pending
      /\ \A w \in Workers : pc[w] # "idle" => task[w] \in Tasks
      /\ \A t \in Tasks : t.s \in Sessions /\ t.ticket \in Nat /\ t.line \in Nat
  <2>1. /\ ran \in [Sessions -> Seq(Nat)] /\ DOMAIN pc = Workers
        /\ nextTicket \in [Sessions -> Nat] /\ nextResponse \in [Sessions -> Nat]
        /\ \A w \in Workers : pc[w] # "idle" => task[w] \in Tasks
    BY DEF TypeOK, PoolTypes, TicketTypes
  <2>2. \A s \in Sessions : Len(ran[s]) \in Nat
    BY <2>1, LenProperties
  <2>3. \A t \in Waiting : t \in Queued \union InHand \union pending
    BY DEF Waiting, InHand, Busy
  <2>4. \A t \in Tasks : t.s \in Sessions /\ t.ticket \in Nat /\ t.line \in Nat
    BY DEF Tasks
  <2> QED
    BY <2>1, <2>2, <2>3, <2>4
<1>1. CASE MainPush
  <2>1. PICK t \in Tasks : /\ t.s = serving /\ t.ticket = nextTicket[serving]
                           /\ t.line = t.ticket + 1
                           /\ Queued' \subseteq Queued \union {t}
    BY <1>1, PushedTask
  <2>2. /\ serving \in Sessions
        /\ nextTicket' = [nextTicket EXCEPT ![serving] = @ + 1]
        /\ UNCHANGED <<pc, task, ran, pending, nextResponse>>
    BY <1>1, PushedTask
  <2>3. Waiting' \subseteq Waiting \union {t} /\ Done' = Done
    BY <2>1, <2>2 DEF Waiting, Done
  <2>4. Len(ran[serving]) = nextTicket[serving]
    <3>1. Len(sent[serving]) <= Len(out[serving]) + 1
      BY <2>2 DEF OneOutstanding
    <3>2. nextTicket[serving] <= nextResponse[serving]
      BY SMTT(40), <2>2, <3>1, Counters
    <3>3. nextResponse[serving] <= Len(ran[serving]) /\ Len(ran[serving]) <= nextTicket[serving]
      BY <2>2 DEF RunsInOrder
    <3> QED
      BY <1>0, <2>2, <3>2, <3>3
  <2> QED
    BY <1>0, <2>1, <2>2, <2>3, <2>4 DEF RunsInOrder
<1>2. ASSUME NEW w \in Workers, Pop(w) PROVE RunsInOrder'
  <2>1. /\ pc[w] = "idle" /\ queue # <<>> /\ queue' = Tail(queue)
        /\ task' = [task EXCEPT ![w] = Head(queue)]
        /\ pc' = [pc EXCEPT ![w] = "run"]
        /\ UNCHANGED <<ran, pending, nextResponse, nextTicket>>
    BY <1>2 DEF Pop, ticketVars
  <2>2. Head(queue) \in Queued /\ Queued' \subseteq Queued
    BY <2>1, QueuePop
  <2>3. Waiting' \subseteq Waiting /\ Done' = Done
    BY <2>1, <2>2 DEF Waiting, Done, TypeOK, PoolTypes
  <2> QED
    BY <2>1, <2>3 DEF RunsInOrder
<1>3. ASSUME NEW w \in Workers, Execute(w) PROVE RunsInOrder'
  <2>1. /\ pc[w] = "run" /\ task[w] \in Waiting
        /\ UNCHANGED <<queue, task, pending, nextResponse, nextTicket>>
    BY <1>3 DEF Execute, ticketVars, Waiting
  <2>2. CASE UNCHANGED <<pc, ran>>
    BY <2>1, <2>2 DEF RunsInOrder, Waiting, Done, Queued
  <2>3. CASE /\ ran' = [ran EXCEPT ![task[w].s] = Append(@, task[w].line)]
             /\ pc' = [pc EXCEPT ![w] = "send"]
    <3> DEFINE s == task[w].s
    <3>1. /\ task[w] \in InHand /\ s \in Sessions
          /\ task[w].line = task[w].ticket + 1 /\ nextTicket[s] = task[w].ticket + 1
          /\ task[w].ticket = Len(ran[s]) /\ task[w].ticket \in Nat /\ task[w].line \in Nat
      <4>1. task[w] \in InHand
        BY <2>1 DEF InHand, Busy
      <4>2. task[w].ticket = Len(ran[s])
        BY <2>1 DEF RunsInOrder
      <4> QED
        BY <1>0, <4>1, <4>2, LastTicket
    <3>2. /\ Len(ran'[s]) = Len(ran[s]) + 1 /\ ran'[s][Len(ran[s]) + 1] = task[w].line
          /\ \A i \in 1 .. Len(ran[s]) : ran'[s][i] = ran[s][i]
          /\ \A x \in Sessions : x # s => ran'[x] = ran[x]
      <4>1. ran'[s] = Append(ran[s], task[w].line) /\ \A x \in Sessions : x # s => ran'[x] = ran[x]
        BY <1>0, <2>3, <3>1
      <4>2. ran[s] \in Seq(Nat)
        BY <1>0, <3>1
      <4> QED
        BY <3>1, <4>1, <4>2, AppendProperties
    <3>3. /\ nextResponse[s] <= Len(ran[s]) /\ \A i \in 1 .. Len(ran[s]) : ran[s][i] = i
      BY <3>1 DEF RunsInOrder
    <3>4. /\ nextResponse[s] <= Len(ran'[s]) /\ Len(ran'[s]) <= nextTicket[s]
          /\ \A i \in 1 .. Len(ran'[s]) : ran'[s][i] = i
      <4>1. Len(ran[s]) \in Nat /\ nextResponse[s] \in Nat
        BY <1>0, <3>1
      <4>2. nextResponse[s] <= Len(ran'[s]) /\ Len(ran'[s]) <= nextTicket[s]
        BY <4>1, <3>1, <3>2, <3>3
      <4>3. \A i \in 1 .. Len(ran'[s]) : i \in 1 .. Len(ran[s]) \/ i = Len(ran[s]) + 1
        BY <4>1, <3>2
      <4> QED
        BY <3>1, <3>2, <3>3, <4>2, <4>3
    <3>5. \A t \in Waiting' : t \in Waiting /\ t # task[w]
      <4>1. Queued' = Queued /\ task[w] \notin Queued
        BY <2>1, <3>1 DEF Queued, PipelineInv, TicketHeldOnce
      <4>2. \A v \in Workers : pc'[v] = "run" =>
               v # w /\ pc[v] = "run" /\ v \in Busy /\ w \in Busy /\ task'[v] = task[v]
        BY <1>0, <2>1, <2>3 DEF Busy
      <4>3. \A v \in Workers : pc'[v] = "run" => task'[v] # task[w]
        BY <4>2 DEF PipelineInv, TicketHeldOnce
      <4> QED
        BY <4>1, <4>2, <4>3 DEF Waiting
    <3>6. \A t \in Waiting' : t.s # s
      BY <1>0, <3>1, <3>5, OneTask
    <3>7. Done' \subseteq Done \union {task[w]}
      BY <1>0, <2>1, <2>3 DEF Done
    <3>8. \A t \in Waiting' : t.ticket = Len(ran'[t.s])
      BY <1>0, <3>2, <3>5, <3>6, LastTicket DEF RunsInOrder
    <3>9. \A t \in Done' : t.ticket < Len(ran'[t.s]) /\ t.line = t.ticket + 1
      <4>1. \A t \in Done : t.s \in Sessions /\ t.ticket \in Nat
        BY <1>0 DEF Done, TypeOK, TicketTypes
      <4>2. \A t \in Done : t.ticket < Len(ran[t.s]) /\ t.line = t.ticket + 1
        BY DEF RunsInOrder
      <4>3. \A x \in Sessions : Len(ran[x]) <= Len(ran'[x]) /\ Len(ran'[x]) \in Nat
        <5> SUFFICES ASSUME NEW x \in Sessions
                     PROVE  Len(ran[x]) <= Len(ran'[x]) /\ Len(ran'[x]) \in Nat
          OBVIOUS
        <5>1. Len(ran[x]) \in Nat
          BY <1>0
        <5>2. Len(ran'[x]) \in {Len(ran[x]), Len(ran[x]) + 1}
          BY <3>2
        <5> QED
          BY <5>1, <5>2
      <4> QED
        BY <1>0, <3>1, <3>2, <3>7, <4>1, <4>2, <4>3
    <3>10. \A x \in Sessions : /\ nextResponse[x] <= Len(ran'[x])
                               /\ Len(ran'[x]) <= nextTicket[x]
                               /\ \A i \in 1 .. Len(ran'[x]) : ran'[x][i] = i
      BY <3>2, <3>4 DEF RunsInOrder
    <3> QED
      BY <2>1, <3>8, <3>9, <3>10 DEF RunsInOrder
  <2> QED
    BY <1>3, <2>2, <2>3 DEF Execute
<1>4. ASSUME NEW w \in Workers,
             Store(w) \/ StoreFails(w) \/ DrainDone(w) \/ Disconnect(w)
      PROVE  RunsInOrder'
  <2>1. Waiting' \subseteq Waiting
    BY <1>4, WorkerReplies DEF Waiting, Queued
  <2>2. Done' \subseteq Done
    BY <1>4, WorkerReplies DEF Done
  <2> QED
    BY <1>4, <2>1, <2>2, WorkerReplies DEF RunsInOrder
<1>5. ASSUME NEW w \in Workers, DrainWrite(w) PROVE RunsInOrder'
  <2>1. UNCHANGED <<queue, pc, task, ran, nextTicket>>
    BY <1>5 DEF DrainWrite, poolVars
  <2>2. CASE UNCHANGED <<pending, nextResponse>>
    BY <2>1, <2>2 DEF RunsInOrder, Waiting, Done, Queued
  <2>3. ASSUME NEW r \in Due(task[w].s),
               pending' = pending \ {r},
               nextResponse' = [nextResponse EXCEPT ![r.s] = @ + 1]
        PROVE  RunsInOrder'
    <3>1. r \in pending /\ r.s \in Sessions /\ r.ticket = nextResponse[r.s] /\ r \in Done
      BY <1>0 DEF Due, Done, TypeOK, TicketTypes
    <3>2. r.ticket < Len(ran[r.s])
      BY <3>1 DEF RunsInOrder
    <3>3. \A x \in Sessions : nextResponse'[x] <= Len(ran[x])
      BY <1>0, <2>3, <3>1, <3>2 DEF RunsInOrder
    <3>4. Waiting' = Waiting /\ Done' \subseteq Done
      BY <2>1, <2>3 DEF Waiting, Done, Queued
    <3> QED
      BY <2>1, <3>3, <3>4 DEF RunsInOrder
  <2> QED
    BY <1>5, <2>2, <2>3 DEF DrainWrite
<1>6. CASE UNCHANGED <<queue, pc, task, ran, pending, nextResponse, nextTicket>>
  BY <1>6 DEF RunsInOrder, Waiting, Done, Queued
<1> QED
  BY <1>1, <1>2, <1>3, <1>4, <1>5, <1>6, PoolTouched

-------------------------------------------------------------------------------
(* Workers do not meet in a session *)

(* The tasks of the workers, by what is known of them. *)
LEMMA WorkerTask ==
  ASSUME TypeOK, PipelineInv, OneOutstanding, RunsInOrder,
         NEW w \in Workers, pc[w] # "idle"
  PROVE  /\ task[w] \in Tasks /\ task[w].s \in Sessions /\ task[w].ticket \in Nat
         /\ task[w].line = task[w].ticket + 1
         /\ task[w].line \in 1 .. Len(sent[task[w].s])
         /\ pc[w] = "run" => task[w] \in Waiting
         /\ pc[w] \in {"run", "send"} =>
              task[w] \in InHand /\ task[w].ticket + 1 = nextTicket[task[w].s]
         /\ pc[w] # "run" => task[w] \in Done /\ task[w].ticket < Len(ran[task[w].s])
<1>1. task[w] \in Tasks /\ task[w].s \in Sessions /\ task[w].ticket \in Nat
  BY DEF TypeOK, PoolTypes, Tasks
<1>2. /\ pc[w] = "run" => task[w] \in Waiting
      /\ pc[w] \in {"run", "send"} => task[w] \in InHand
      /\ pc[w] # "run" => task[w] \in Done
  BY DEF Waiting, Done, InHand, Busy
<1>3. pc[w] # "run" => task[w].ticket < Len(ran[task[w].s]) /\ task[w].line = task[w].ticket + 1
  BY <1>2 DEF RunsInOrder
<1>4. pc[w] \in {"run", "send"} => /\ task[w].line = task[w].ticket + 1
                                   /\ task[w].ticket + 1 = nextTicket[task[w].s]
  BY <1>2, LastTicket
<1>5. /\ Len(ran[task[w].s]) <= nextTicket[task[w].s]
      /\ nextTicket[task[w].s] <= Len(sent[task[w].s])
      /\ Len(ran[task[w].s]) \in Nat /\ nextTicket[task[w].s] \in Nat
      /\ Len(sent[task[w].s]) \in Nat
  BY SMTT(40), <1>1, Counters DEF RunsInOrder
<1>6. task[w].ticket + 1 <= Len(sent[task[w].s])
  BY <1>1, <1>3, <1>4, <1>5
<1> QED
  BY <1>1, <1>2, <1>3, <1>4, <1>5, <1>6

(* A worker that has executed the line that ends its session: there is     *)
(* nothing after that line.                                                *)
LEMMA LastLine ==
  ASSUME TypeOK, PipelineInv, OneOutstanding, RunsInOrder,
         NEW w \in Workers, pc[w] \notin {"idle", "run"}, KindOf(task[w]) # "rpc"
  PROVE  /\ task[w].ticket + 1 = nextTicket[task[w].s]
         /\ fifo[task[w].s] = <<>> /\ serving # task[w].s
         /\ \A t \in Waiting : t.s # task[w].s
<1> DEFINE s == task[w].s
<1>1. /\ s \in Sessions /\ task[w].ticket \in Nat /\ task[w].line = task[w].ticket + 1
      /\ task[w].line \in 1 .. Len(sent[s]) /\ task[w].ticket < Len(ran[s])
  BY WorkerTask
<1>2. task[w].line = Len(sent[s])
  BY <1>1 DEF OneOutstanding, KindOf
<1>3. /\ nextTicket[s] \in Nat /\ InBatch(s) \in Nat /\ Len(fifo[s]) \in Nat
      /\ Len(ran[s]) \in Nat
      /\ Len(sent[s]) = nextTicket[s] + InBatch(s) + Len(fifo[s])
      /\ serving = s => InBatch(s) # 0
      /\ Len(fifo[s]) = 0 => fifo[s] = <<>>
  BY <1>1, Counters
<1>4. Len(ran[s]) <= nextTicket[s]
  BY <1>1 DEF RunsInOrder
<1>5. task[w].ticket + 1 = nextTicket[s] + InBatch(s) + Len(fifo[s])
  BY <1>1, <1>2, <1>3
<1>6. task[w].ticket + 1 = nextTicket[s] /\ InBatch(s) = 0 /\ Len(fifo[s]) = 0
      /\ Len(ran[s]) = nextTicket[s]
  <2>1. task[w].ticket < nextTicket[s]
    BY <1>1, <1>3, <1>4
  <2>2. nextTicket[s] = task[w].ticket + 1 /\ InBatch(s) = 0 /\ Len(fifo[s]) = 0
    BY <1>1, <1>3, <1>5, <2>1, Squeezed
  <2> QED
    BY <1>1, <1>3, <1>4, <2>2
<1>7. ASSUME NEW t \in Waiting, t.s = s PROVE FALSE
  <2>1. t \in Queued \union InHand \union pending
    BY DEF Waiting, InHand, Busy
  <2>2. nextTicket[s] = t.ticket + 1 /\ t.ticket \in Nat
    BY <1>7, <2>1, LastTicket
  <2>3. t.ticket = Len(ran[s])
    BY <1>7 DEF RunsInOrder
  <2> QED
    BY <1>6, <2>2, <2>3
<1> QED
  BY <1>3, <1>6, <1>7

(* No other worker has a task of the session worker w works for. *)
Alone(w) ==
  \A v \in Workers : v # w /\ pc[v] # "idle" => task[v].s # task[w].s

(* A worker that stores under response_lock, or that has sent the reply to *)
(* the line that ends its session, is alone with that session.             *)
LEMMA AloneWith ==
  ASSUME TypeOK, PipelineInv, OneOutstanding, RunsInOrder, WorkersApart,
         NEW w \in Workers,
         \/ pc[w] = "send" /\ ~Locked(task[w].s)
         \/ pc[w] \in {"drain", "disconnect"} /\ KindOf(task[w]) # "rpc"
  PROVE  Alone(w)
<1> SUFFICES ASSUME NEW v \in Workers, v # w, pc[v] # "idle", task[v].s = task[w].s
             PROVE  FALSE
  BY DEF Alone
<1>1. task[v].ticket \in Nat /\ task[w].ticket \in Nat
  BY WorkerTask
<1>2. CASE pc[w] = "send" /\ ~Locked(task[w].s)
  <2>1. pc[v] # "drain"
    BY <1>2 DEF Locked
  <2> QED
    BY <1>1, <1>2, <2>1 DEF WorkersApart
<1>3. CASE pc[w] \in {"drain", "disconnect"} /\ KindOf(task[w]) # "rpc"
  <2>1. task[w].ticket < task[v].ticket /\ pc[v] \in {"run", "send"}
    BY <1>1, <1>3 DEF WorkersApart
  <2>2. task[v].ticket + 1 = nextTicket[task[w].s]
    BY <2>1, WorkerTask
  <2>3. task[w].ticket + 1 = nextTicket[task[w].s]
    BY <1>3, LastLine
  <2> QED
    BY <1>1, <2>1, <2>2, <2>3
<1> QED
  BY <1>2, <1>3

LEMMA ApartStep ==
  ASSUME TypeOK, TypeOK', PipelineInv, OneOutstanding, RunsInOrder, WorkersApart,
         [Next]_vars
  PROVE  WorkersApart'
<1> USE DEF clientVars, sessionVars, ticketVars, poolVars, mainVars
<1>0. \A v \in Workers : pc[v] # "idle" => task[v].ticket \in Nat
  BY WorkerTask
<1>1. ASSUME NEW s \in Sessions, NEW k \in Kinds, Send(s, k) PROVE WorkersApart'
  <2>1. /\ UNCHANGED <<pc, task>> /\ sent' = [sent EXCEPT ![s] = Append(@, k)]
    BY <1>1 DEF Send
  <2>2. ASSUME NEW w \in Workers, pc[w] = "disconnect"
        PROVE  KindOf(task[w])' = KindOf(task[w])
    <3>1. task[w].s \in Sessions /\ task[w].line \in 1 .. Len(sent[task[w].s])
      BY <2>2, WorkerTask
    <3>2. sent \in [Sessions -> Seq(Kinds)]
      BY DEF TypeOK, ClientTypes
    <3>3. sent'[task[w].s][task[w].line] = sent[task[w].s][task[w].line]
      BY <2>1, <3>1, <3>2, AppendProperties
    <3> QED
      BY <2>1, <3>3 DEF KindOf
  <2> QED
    BY <2>1, <2>2 DEF WorkersApart
<1>2. CASE UNCHANGED <<pc, task, sent>>
  BY <1>2 DEF WorkersApart, KindOf
<1>3. ASSUME NEW w \in Workers, Pop(w) PROVE WorkersApart'
  <2>1. /\ pc[w] = "idle" /\ queue # <<>> /\ queue' = Tail(queue)
        /\ task' = [task EXCEPT ![w] = Head(queue)]
        /\ pc' = [pc EXCEPT ![w] = "run"] /\ UNCHANGED <<sent, nextTicket>>
    BY <1>3 DEF Pop
  <2>2. Head(queue) \in Queued /\ Head(queue) \in Waiting
    BY <2>1, QueuePop DEF Waiting
  <2>3. /\ Head(queue).ticket \in Nat /\ Head(queue).s \in Sessions
        /\ Head(queue).ticket = Len(ran[Head(queue).s])
        /\ nextTicket[Head(queue).s] = Head(queue).ticket + 1
    BY <2>2, LastTicket DEF RunsInOrder
  <2>4. /\ pc'[w] = "run" /\ task'[w] = Head(queue)
        /\ \A v \in Workers : v # w => pc'[v] = pc[v] /\ task'[v] = task[v]
    BY <2>1 DEF TypeOK, PoolTypes
  <2>5. ASSUME NEW v \in Workers, v # w, pc[v] # "idle", task[v].s = Head(queue).s
        PROVE  pc[v] = "drain" /\ task[v].ticket < Head(queue).ticket
    <3>1. pc[v] \notin {"run", "send"}
      <4>1. pc[v] \in {"run", "send"} => task[v] \in InHand
        BY WorkerTask, <2>5
      <4>2. task[v] \in InHand => task[v] = Head(queue)
        BY <2>2, <2>5, OneTask
      <4>3. Head(queue) \notin InHand
        BY <2>2 DEF PipelineInv, TicketHeldOnce
      <4> QED
        BY <4>1, <4>2, <4>3
    <3>2. task[v].ticket < Head(queue).ticket
      BY <2>3, <2>5, <3>1, WorkerTask
    <3>3. pc[v] # "disconnect"
      <4>1. pc[v] = "disconnect" => KindOf(task[v]) # "rpc"
        BY DEF WorkersApart
      <4> QED
        BY <2>2, <2>5, <4>1, LastLine
    <3> QED
      BY <2>5, <3>1, <3>2, <3>3 DEF TypeOK, PoolTypes
  <2>6. ASSUME NEW x \in Workers, NEW y \in Workers,
               x # y, pc'[x] # "idle", pc'[y] # "idle",
               task'[x].s = task'[y].s, task'[x].ticket <= task'[y].ticket
        PROVE  /\ task'[x].ticket < task'[y].ticket
               /\ pc'[x] = "drain" /\ pc'[y] \in {"run", "send"}
    <3>1. CASE x # w /\ y # w
      BY <2>4, <2>6, <3>1 DEF WorkersApart
    <3>2. CASE x = w
      <4>1. task[y].ticket < Head(queue).ticket
        BY <2>4, <2>5, <2>6, <3>2
      <4> QED
        BY <1>0, <2>3, <2>4, <2>6, <3>2, <4>1
    <3>3. CASE y = w
      BY <2>4, <2>5, <2>6, <3>3
    <3> QED
      BY <3>1, <3>2, <3>3
  <2>7. ASSUME NEW v \in Workers, pc'[v] = "disconnect" PROVE KindOf(task[v])' # "rpc"
    BY <2>1, <2>4, <2>7 DEF WorkersApart, KindOf
  <2> QED
    BY <2>6, <2>7 DEF WorkersApart
<1>4. ASSUME NEW w \in Workers, Execute(w) PROVE WorkersApart'
  <2>1. CASE UNCHANGED pc
    BY <1>4, <2>1 DEF Execute, WorkersApart, KindOf
  <2>2. CASE pc' = [pc EXCEPT ![w] = "send"]
    <3>1. /\ pc[w] = "run" /\ pc'[w] = "send" /\ UNCHANGED <<task, sent>>
          /\ \A v \in Workers : v # w => pc'[v] = pc[v]
      BY <1>4, <2>2 DEF Execute, TypeOK, PoolTypes
    <3> QED
      BY <3>1 DEF WorkersApart, KindOf
  <2> QED
    BY <1>4, <2>1, <2>2 DEF Execute
<1>5. ASSUME NEW w \in Workers,
             Store(w) \/ StoreFails(w) \/ DrainDone(w) \/ Disconnect(w)
      PROVE  WorkersApart'
  <2>1. /\ pc'[w] = "idle" \/ Alone(w)
        /\ pc'[w] = "disconnect" => KindOf(task[w]) # "rpc"
    <3>1. CASE Store(w) \/ StoreFails(w)
      <4>1. Alone(w)
        BY <3>1, AloneWith DEF Store, StoreFails
      <4> QED
        BY <3>1, <4>1 DEF Store, StoreFails, AfterSend, Idle, TypeOK, PoolTypes
    <3>2. CASE DrainDone(w)
      <4>1. CASE KindOf(task[w]) \in {"Disconnect", "Reject"}
        BY <3>2, <4>1, AloneWith DEF DrainDone
      <4>2. CASE KindOf(task[w]) \notin {"Disconnect", "Reject"}
        BY <3>2, <4>2 DEF DrainDone, AfterSend, Idle, TypeOK, PoolTypes
      <4> QED
        BY <4>1, <4>2
    <3>3. CASE Disconnect(w)
      BY <3>3 DEF Disconnect, Idle, TypeOK, PoolTypes
    <3> QED
      BY <1>5, <3>1, <3>2, <3>3
  <2>2. /\ pc'[w] # "idle" => task'[w] = task[w]
        /\ \A v \in Workers : v # w => pc'[v] = pc[v] /\ task'[v] = task[v]
        /\ sent' = sent
    BY <1>5, WorkerReplies
  <2>3. ASSUME NEW x \in Workers, NEW y \in Workers,
               x # y, pc'[x] # "idle", pc'[y] # "idle",
               task'[x].s = task'[y].s, task'[x].ticket <= task'[y].ticket
        PROVE  /\ task'[x].ticket < task'[y].ticket
               /\ pc'[x] = "drain" /\ pc'[y] \in {"run", "send"}
    <3>1. x # w /\ y # w
      BY <2>1, <2>2, <2>3 DEF Alone
    <3> QED
      BY <2>2, <2>3, <3>1 DEF WorkersApart
  <2>4. ASSUME NEW v \in Workers, pc'[v] = "disconnect" PROVE KindOf(task[v])' # "rpc"
    BY <2>1, <2>2, <2>4 DEF WorkersApart, KindOf
  <2> QED
    BY <2>3, <2>4 DEF WorkersApart
<1>6. ASSUME NEW w \in Workers, DrainWrite(w) PROVE UNCHANGED <<pc, task, sent>>
  BY <1>6 DEF DrainWrite
<1>7. MainPush => UNCHANGED <<pc, task, sent>>
  BY DEF MainPush
<1>8. CASE UNCHANGED <<pc, task>> /\ UNCHANGED <<sent, out>>
  BY <1>2, <1>8
<1> QED
  BY <1>1, <1>2, <1>3, <1>4, <1>5, <1>6, <1>7, <1>8, PoolTouched, ExchangeTouched

-------------------------------------------------------------------------------
(* Sessions end idle *)

(* A session that has ended and has nothing to do is given nothing to do. *)
LEMMA StaysIdle ==
  ASSUME TypeOK, TypeOK', PipelineInv, [Next]_vars,
         NEW s \in Sessions, life[s] \in {"inactive", "freed"}, ~InUse(s)
  PROVE  ~InUse(s)'
<1> USE DEF clientVars, sessionVars, ticketVars, poolVars, mainVars
<1>1. CASE UNCHANGED <<fifo, serving, queue, pc, task>>
  BY <1>1 DEF InUse, Queued
<1>2. ASSUME NEW x \in Sessions, NEW k \in Kinds, Send(x, k) PROVE ~InUse(s)'
  <2>1. x # s /\ fifo'[s] = fifo[s] /\ UNCHANGED <<serving, queue, pc, task>>
    BY <1>2 DEF Send, TypeOK, ClientTypes
  <2> QED
    BY <2>1 DEF InUse, Queued
<1>3. ASSUME NEW i \in ready, MainRead(i) PROVE ~InUse(s)'
  <2>1. /\ slots[i] # s /\ serving' = slots[i] /\ UNCHANGED <<queue, pc, task>>
        /\ fifo'[s] = fifo[s]
    BY <1>3 DEF MainRead, TypeOK, ClientTypes
  <2> QED
    BY <2>1 DEF InUse, Queued
<1>4. CASE MainPush
  <2>1. PICK t \in Tasks : t.s = serving /\ Queued' \subseteq Queued \union {t}
    BY <1>4, PushedTask
  <2>2. serving' \in {serving, None} /\ UNCHANGED <<fifo, pc, task>> /\ serving # s
    BY <1>4, PushedTask DEF InUse
  <2> QED
    BY <2>1, <2>2, PipelineAssumption DEF InUse
<1>5. ASSUME NEW w \in Workers, Pop(w) PROVE ~InUse(s)'
  <2>1. /\ queue # <<>> /\ queue' = Tail(queue)
        /\ task' = [task EXCEPT ![w] = Head(queue)]
        /\ pc' = [pc EXCEPT ![w] = "run"] /\ UNCHANGED <<fifo, serving>>
    BY <1>5 DEF Pop
  <2>2. Head(queue) \in Queued /\ Queued' \subseteq Queued
    BY <2>1, QueuePop
  <2> QED
    BY <2>1, <2>2 DEF InUse, TypeOK, PoolTypes
<1>6. ASSUME NEW w \in Workers, Execute(w) PROVE ~InUse(s)'
  <2>1. /\ UNCHANGED <<fifo, serving, queue, task>> /\ pc[w] # "idle"
        /\ \A v \in Workers : v # w => pc'[v] = pc[v]
    BY <1>6 DEF Execute, TypeOK, PoolTypes
  <2> QED
    BY <2>1 DEF InUse, Queued
<1>7. ASSUME NEW w \in Workers,
             Store(w) \/ StoreFails(w) \/ DrainDone(w) \/ Disconnect(w)
      PROVE  ~InUse(s)'
  BY <1>7, WorkerReplies DEF InUse, Queued
<1>8. ASSUME NEW w \in Workers, DrainWrite(w)
      PROVE  UNCHANGED <<fifo, serving, queue, pc, task>>
  BY <1>8 DEF DrainWrite
<1>9. ASSUME NEW x \in Sessions, Leave(x) \/ MainAccept(x) \/ MainAcceptFails(x)
      PROVE  UNCHANGED <<fifo, serving, queue, pc, task>>
  BY <1>9 DEF Leave, MainAccept, MainAcceptFails
<1>10. ASSUME MainIdle \/ MainPoll \/ MainCleanup
       PROVE  UNCHANGED <<fifo, serving, queue, pc, task>>
  BY <1>10 DEF MainIdle, MainPoll, MainCleanup
<1>11. ASSUME NEW i \in ready, MainReadEnd(i) \/ MainReadFails(i) \/ MainReadFreed(i)
       PROVE  UNCHANGED <<fifo, serving, queue, pc, task>>
  BY <1>11 DEF MainReadEnd, MainReadFails, MainReadFreed
<1>12. ASSUME NEW w \in Workers, WorkerUsesFreed(w)
       PROVE  UNCHANGED <<fifo, serving, queue, pc, task>>
  BY <1>12 DEF WorkerUsesFreed
<1>13. CASE UNCHANGED vars
  BY <1>1, <1>13 DEF vars
<1> QED
  BY <1>1, <1>2, <1>3, <1>4, <1>5, <1>6, <1>7, <1>8, <1>9, <1>10, <1>11, <1>12, <1>13
     DEF Next, MainLoop, Worker

(* Who ends a session: the main loop, or a worker. *)
LEMMA EndedBy ==
  ASSUME TypeOK, [Next]_vars, NEW s \in Sessions,
         life[s] \notin {"inactive", "freed"}, life'[s] \in {"inactive", "freed"}
  PROVE  s \in dropped' \/ \E w \in Workers : Disconnect(w) /\ task[w].s = s
<1> USE DEF clientVars, sessionVars, ticketVars, poolVars, mainVars
<1>0. life \in [Sessions -> {"none", "active", "inactive", "freed"}]
  BY DEF TypeOK, SessionTypes
<1>1. ASSUME NEW x \in Sessions, MainAccept(x) PROVE s \in dropped'
  BY <1>0, <1>1 DEF MainAccept, Disconnected
<1>2. ASSUME NEW x \in Sessions, MainAcceptFails(x) PROVE s \in dropped'
  BY <1>0, <1>2 DEF MainAcceptFails, Disconnected
<1>3. MainCleanup => FALSE
  BY <1>0 DEF MainCleanup
<1>4. ASSUME NEW i \in ready, MainReadEnd(i) PROVE s \in dropped'
  BY <1>0, <1>4 DEF MainReadEnd, Disconnected
<1>5. ASSUME NEW w \in Workers, Disconnect(w) PROVE task[w].s = s
  BY <1>0, <1>5 DEF Disconnect, Disconnected
<1>6. ASSUME NEW x \in Sessions, NEW k \in Kinds, Send(x, k) PROVE FALSE
  BY <1>6 DEF Send
<1>7. ASSUME NEW x \in Sessions, Leave(x) PROVE FALSE
  BY <1>7 DEF Leave
<1>8. ASSUME MainIdle \/ MainPoll \/ MainPush PROVE FALSE
  BY <1>8 DEF MainIdle, MainPoll, MainPush
<1>9. ASSUME NEW i \in ready, MainRead(i) \/ MainReadFails(i) \/ MainReadFreed(i)
      PROVE  FALSE
  BY <1>9 DEF MainRead, MainReadFails, MainReadFreed
<1>10. ASSUME NEW w \in Workers,
              \/ Pop(w) \/ Execute(w) \/ Store(w) \/ StoreFails(w)
              \/ DrainWrite(w) \/ DrainDone(w) \/ WorkerUsesFreed(w)
       PROVE  FALSE
  BY <1>10 DEF Pop, Execute, Store, StoreFails, DrainWrite, DrainDone, WorkerUsesFreed
<1>11. CASE UNCHANGED vars
  BY <1>11 DEF vars
<1> QED
  BY <1>1, <1>2, <1>3, <1>4, <1>5, <1>6, <1>7, <1>8, <1>9, <1>10, <1>11
     DEF Next, MainLoop, Worker

LEMMA DroppedGrows ==
  ASSUME [Next]_vars
  PROVE  dropped \subseteq dropped'
<1> USE DEF clientVars, sessionVars, ticketVars, poolVars, mainVars
<1>1. ASSUME NEW s \in Sessions, MainAccept(s) \/ MainAcceptFails(s)
      PROVE  dropped \subseteq dropped'
  BY <1>1 DEF MainAccept, MainAcceptFails
<1>2. ASSUME NEW s \in Sessions, NEW k \in Kinds, Send(s, k) PROVE dropped' = dropped
  BY <1>2 DEF Send
<1>3. ASSUME NEW s \in Sessions, Leave(s) PROVE dropped' = dropped
  BY <1>3 DEF Leave
<1>4. MainIdle \/ MainPoll \/ MainPush \/ MainCleanup => dropped' = dropped
  BY DEF MainIdle, MainPoll, MainPush, MainCleanup
<1>5. ASSUME NEW i \in ready,
             MainRead(i) \/ MainReadEnd(i) \/ MainReadFails(i) \/ MainReadFreed(i)
      PROVE  dropped \subseteq dropped'
  BY <1>5 DEF MainRead, MainReadEnd, MainReadFails, MainReadFreed
<1>6. ASSUME NEW w \in Workers, Worker(w) PROVE dropped' = dropped
  BY <1>6 DEF Worker, Pop, Execute, Store, StoreFails, DrainWrite, DrainDone,
              Disconnect, WorkerUsesFreed
<1>7. CASE UNCHANGED vars
  BY <1>7 DEF vars
<1> QED
  BY <1>1, <1>2, <1>3, <1>4, <1>5, <1>6, <1>7 DEF Next, MainLoop

LEMMA FreedStep ==
  ASSUME TypeOK, TypeOK', PipelineInv, ToolInv, [Next]_vars
  PROVE  FreedWhenIdle'
<1> SUFFICES ASSUME NEW s \in Sessions, s \notin dropped',
                    life'[s] \in {"inactive", "freed"}
             PROVE  ~InUse(s)'
  BY DEF FreedWhenIdle
<1> USE DEF ToolInv
<1>1. s \notin dropped
  BY DroppedGrows
<1>2. CASE life[s] \in {"inactive", "freed"}
  BY <1>1, <1>2, StaysIdle DEF FreedWhenIdle
<1>3. CASE life[s] \notin {"inactive", "freed"}
  <2>1. PICK w \in Workers : Disconnect(w) /\ task[w].s = s
    BY <1>3, EndedBy
  <2>2. pc[w] = "disconnect" /\ KindOf(task[w]) # "rpc"
    BY <2>1 DEF Disconnect, WorkersApart
  <2>3. fifo[s] = <<>> /\ serving # s /\ \A t \in Queued : t.s # s
    BY <2>1, <2>2, LastLine DEF Waiting
  <2>4. Alone(w)
    BY <2>2, AloneWith
  <2>5. /\ UNCHANGED <<queue, fifo, serving>> /\ pc'[w] = "idle"
        /\ \A v \in Workers : v # w => pc'[v] = pc[v] /\ task'[v] = task[v]
    <3>1. pc'[w] = "idle"
      BY <2>1 DEF Disconnect, Idle, TypeOK, PoolTypes
    <3> QED
      BY <2>1, <3>1, WorkerReplies
  <2> QED
    BY <2>1, <2>3, <2>4, <2>5 DEF InUse, Alone, Queued
<1> QED
  BY <1>2, <1>3

LEMMA StraysTouched ==
  ASSUME [Next]_vars
  PROVE  (\E w \in Workers : DrainWrite(w)) \/ UNCHANGED strays
<1> USE DEF clientVars, sessionVars, ticketVars, poolVars, mainVars
<1>1. ASSUME NEW s \in Sessions, NEW k \in Kinds, Send(s, k) PROVE UNCHANGED strays
  BY <1>1 DEF Send
<1>2. ASSUME NEW s \in Sessions, Leave(s) \/ MainAccept(s) \/ MainAcceptFails(s)
      PROVE  UNCHANGED strays
  BY <1>2 DEF Leave, MainAccept, MainAcceptFails
<1>3. MainLoop => UNCHANGED strays
  BY DEF MainLoop, MainIdle, MainPoll, MainCleanup, MainPush,
         MainRead, MainReadEnd, MainReadFails, MainReadFreed
<1>4. ASSUME NEW w \in Workers,
             \/ Pop(w) \/ Execute(w) \/ Store(w) \/ StoreFails(w)
             \/ DrainDone(w) \/ Disconnect(w) \/ WorkerUsesFreed(w)
      PROVE  UNCHANGED strays
  BY <1>4 DEF Pop, Execute, Store, StoreFails, DrainDone, Disconnect, WorkerUsesFreed
<1>5. CASE UNCHANGED vars
  BY <1>5 DEF vars
<1> QED
  BY <1>1, <1>2, <1>3, <1>4, <1>5 DEF Next, Worker

-------------------------------------------------------------------------------
(* The theorems *)

(* The invariant behind them: a client waits for each reply, so that a     *)
(* session never has two lines on their way.                               *)
THEOREM ToolInvariant ==
  ASSUME ~Pipelined
  PROVE  Spec => []ToolInv
<1>1. Init => ToolInv
  <2> SUFFICES ASSUME Init PROVE ToolInv
    OBVIOUS
  <2>1. OneOutstanding
    BY EmptySeq DEF Init, OneOutstanding
  <2>2. Waiting = {} /\ Done = {}
    BY DEF Init, Waiting, Done, Queued
  <2>3. RunsInOrder
    BY <2>2, EmptySeq DEF Init, RunsInOrder
  <2>4. WorkersApart /\ FreedWhenIdle
    BY DEF Init, WorkersApart, FreedWhenIdle
  <2> QED
    BY <2>1, <2>3, <2>4 DEF ToolInv
<1>2. TypeOK /\ TypeOK' /\ PipelineInv /\ ToolInv /\ [Next]_vars => ToolInv'
  BY OutstandingStep, RunsStep, ApartStep, FreedStep DEF ToolInv
<1> QED
  BY <1>1, <1>2, TypeCorrect, PipelineInvariant, PTL DEF Spec

(* The pool executes the lines of one animate_client in the order in which *)
(* it sent them, each once, whichever worker pops them.                    *)
THEOREM LinesExecutedInOrder ==
  ASSUME ~Pipelined
  PROVE  Spec => []ExecutesInOrder
<1>1. TypeOK /\ ToolInv => ExecutesInOrder
  <2> SUFFICES ASSUME TypeOK, ToolInv, NEW s \in Sessions
               PROVE  ran[s] = Identity(Len(ran[s]))
    BY DEF ExecutesInOrder
  <2>1. ran[s] = [i \in 1 .. Len(ran[s]) |-> ran[s][i]]
    BY LenProperties DEF TypeOK, PoolTypes
  <2>2. \A i \in 1 .. Len(ran[s]) : ran[s][i] = i
    BY DEF ToolInv, RunsInOrder
  <2> QED
    BY <2>1, <2>2 DEF Identity
<1> QED
  BY <1>1, TypeCorrect, ToolInvariant, PTL

(* When a worker disconnects a session nothing of it is read, queued or    *)
(* worked on any more, and never will be: cleanup may free the struct.     *)
THEOREM SessionsEndIdle ==
  ASSUME ~Pipelined
  PROVE  Spec => []FreedWhenIdle
<1>1. ToolInv => FreedWhenIdle
  BY DEF ToolInv
<1> QED
  BY <1>1, ToolInvariant, PTL

(* While only workers disconnect sessions no reply is written to a         *)
(* descriptor that meanwhile belongs to another client.                    *)
THEOREM NoReplyStrays ==
  ASSUME ~Pipelined
  PROVE  Spec => []NoStrayReply
<1>1. Init => NoStrayReply
  BY DEF Init, NoStrayReply
<1>2. TypeOK /\ PipelineInv /\ ToolInv /\ NoStrayReply /\ [Next]_vars => NoStrayReply'
  <2> SUFFICES ASSUME TypeOK, PipelineInv, ToolInv, NoStrayReply, [Next]_vars,
                      dropped' = {}, NEW x \in Sessions
               PROVE  strays'[x] = 0
    BY DEF NoStrayReply
  <2>1. dropped = {} /\ strays[x] = 0
    BY DroppedGrows DEF NoStrayReply
  <2>2. ASSUME NEW w \in Workers, DrainWrite(w) PROVE strays'[x] = 0
    <3>1. CASE UNCHANGED strays
      BY <2>1, <3>1
    <3>2. ASSUME NEW r \in Due(task[w].s),
                 strays' = [y \in Sessions |->
                               IF y \in Reached(r.s) /\ y # r.s
                               THEN strays[y] + 1 ELSE strays[y]]
          PROVE  strays'[x] = 0
      <4>1. /\ r \in pending /\ r.s = task[w].s /\ r.s \in Sessions
            /\ pc[w] = "drain" /\ life[r.s] # "freed"
        BY <2>2 DEF Due, DrainWrite, TypeOK, TicketTypes, Tasks
      <4>2. life[r.s] # "inactive"
        BY <2>1, <4>1 DEF ToolInv, FreedWhenIdle, InUse
      <4>3. life[r.s] # "none"
        <5>1. nextTicket[r.s] # 0
          BY <4>1, LastTicket DEF ToolInv
        <5> QED
          BY <4>1, <5>1 DEF PipelineInv, RepliesNumbered
      <4>4. life[r.s] = "active"
        BY <4>1, <4>2, <4>3 DEF TypeOK, SessionTypes
      <4> QED
        BY <2>1, <3>2, <4>4 DEF Reached
    <3> QED
      BY <2>2, <3>1, <3>2 DEF DrainWrite
  <2>3. CASE UNCHANGED strays
    BY <2>1, <2>3
  <2> QED
    BY <2>2, <2>3, StraysTouched
<1> QED
  BY <1>1, <1>2, TypeCorrect, PipelineInvariant, ToolInvariant, PTL DEF Spec

===============================================================================
