------------------------ MODULE SessionPipelineProofs -------------------------
(* Theorems of SessionPipeline, for any number of sessions, workers and    *)
(* requests.                                                               *)
EXTENDS SessionPipeline, SequenceTheorems, TLAPS

(* A function on 1 .. n is a sequence of length n. *)
LEMMA SeqOfLength ==
  ASSUME NEW S, NEW n \in Nat, NEW f \in [1 .. n -> S]
  PROVE  f \in Seq(S) /\ Len(f) = n
  OBVIOUS

(* Whether one line or more is left of a batch. *)
LEMMA EmptyTail ==
  ASSUME NEW S, NEW q \in Seq(S), q # <<>>
  PROVE  Tail(q) = <<>> <=> Len(q) <= 1
<1>1. Tail(q) \in Seq(S) /\ Len(Tail(q)) = Len(q) - 1 /\ Len(q) \in Nat
  BY HeadTailProperties, LenProperties
<1>2. Tail(q) # <<>> => Len(Tail(q)) \in Nat \ {0}
  BY <1>1, EmptySeq
<1>3. Tail(q) = <<>> => Len(Tail(q)) = 0
  BY EmptySeq
<1> QED
  BY <1>1, <1>2, <1>3

(* The pending table grows to a natural size that has room for the ticket. *)
LEMMA GrownIsNat ==
  ASSUME NEW c \in Nat, NEW t \in Nat
  PROVE  Grown(c, t) \in Nat /\ t < Grown(c, t) /\ c <= Grown(c, t)
  BY PipelineAssumption DEF Grown

(* One step of the model keeps every variable in its type. *)
LEMMA TypeStep == TypeOK /\ [Next]_vars => TypeOK'
<1> SUFFICES ASSUME TypeOK, [Next]_vars PROVE TypeOK'
  OBVIOUS
<1> USE DEF TypeOK, clientVars, sessionVars, ticketVars, poolVars, mainVars
<1>1. ASSUME NEW s \in Sessions, NEW k \in Kinds, Send(s, k) PROVE TypeOK'
  <2>1. SessionTypes' /\ TicketTypes' /\ PoolTypes' /\ MainTypes'
    BY <1>1 DEF Send, SessionTypes, TicketTypes, PoolTypes, MainTypes
  <2>2. ClientTypes'
    BY <1>1 DEF Send, ClientTypes
  <2> QED
    BY <1>1, <2>1, <2>2 DEF Send
<1>2. ASSUME NEW s \in Sessions, Leave(s) PROVE TypeOK'
  <2>1. SessionTypes' /\ TicketTypes' /\ PoolTypes' /\ MainTypes'
    BY <1>2 DEF Leave, SessionTypes, TicketTypes, PoolTypes, MainTypes
  <2>2. ClientTypes'
    BY <1>2 DEF Leave, ClientTypes
  <2> QED
    BY <1>2, <2>1, <2>2 DEF Leave
<1>3. ASSUME NEW s \in Sessions, MainAccept(s) PROVE TypeOK'
  <2>1. TicketTypes' /\ PoolTypes'
    BY <1>3 DEF MainAccept, TicketTypes, PoolTypes
  <2>2. ClientTypes'
    BY <1>3 DEF MainAccept, ClientTypes, Disconnected
  <2>3. SessionTypes'
    <3>1. Table \subseteq Sessions
      BY LenProperties, ElementOfSeq DEF Table, SessionTypes
    <3>2. dropped' \subseteq Sessions
      BY <1>3, <3>1 DEF MainAccept, SessionTypes, Departed
    <3> QED
      BY <1>3, <3>2 DEF MainAccept, SessionTypes, Disconnected
  <2>4. MainTypes'
    BY <1>3 DEF MainAccept, MainTypes, Disconnected
  <2> QED
    BY <1>3, <2>1, <2>2, <2>3, <2>4 DEF MainAccept
<1>4. ASSUME NEW s \in Sessions, MainAcceptFails(s) PROVE TypeOK'
  <2>1. TicketTypes' /\ PoolTypes'
    BY <1>4 DEF MainAcceptFails, TicketTypes, PoolTypes
  <2>2. ClientTypes'
    BY <1>4 DEF MainAcceptFails, ClientTypes, Disconnected
  <2>3. SessionTypes'
    <3>1. Table \subseteq Sessions
      BY LenProperties, ElementOfSeq DEF Table, SessionTypes
    <3>2. dropped' \subseteq Sessions
      BY <1>4, <3>1 DEF MainAcceptFails, SessionTypes, Departed
    <3> QED
      BY <1>4, <3>2 DEF MainAcceptFails, SessionTypes, Disconnected
  <2>4. MainTypes'
    BY <1>4 DEF MainAcceptFails, MainTypes, Disconnected
  <2> QED
    BY <1>4, <2>1, <2>2, <2>3, <2>4 DEF MainAcceptFails
<1>5. CASE MainIdle
  <2>1. ClientTypes' /\ SessionTypes' /\ TicketTypes' /\ PoolTypes'
    BY <1>5 DEF MainIdle, ClientTypes, SessionTypes, TicketTypes, PoolTypes
  <2>2. MainTypes'
    BY <1>5 DEF MainIdle, MainTypes
  <2> QED
    BY <1>5, <2>1, <2>2 DEF MainIdle
<1>6. CASE MainPoll
  <2>1. ClientTypes' /\ SessionTypes' /\ TicketTypes' /\ PoolTypes'
    BY <1>6 DEF MainPoll, ClientTypes, SessionTypes, TicketTypes, PoolTypes
  <2>2. MainTypes'
    BY <1>6 DEF MainPoll, MainTypes, SessionTypes
  <2> QED
    BY <1>6, <2>1, <2>2 DEF MainPoll
<1>7. CASE MainCleanup
  <2>1. ClientTypes' /\ TicketTypes' /\ PoolTypes'
    BY <1>7 DEF MainCleanup, ClientTypes, TicketTypes, PoolTypes
  <2>2. slots' \in Seq(Sessions) /\ Len(slots') = Len(slots) /\ count' \in 0 .. count
    <3>0. PICK n \in 0 .. count :
             \E from \in [1 .. n -> 1 .. count] :
               /\ slots' = [j \in DOMAIN slots |-> IF j <= n THEN slots[from[j]] ELSE slots[j]]
               /\ count' = n
      BY <1>7 DEF MainCleanup
    <3>1. PICK from \in [1 .. n -> 1 .. count] :
             /\ slots' = [j \in DOMAIN slots |-> IF j <= n THEN slots[from[j]] ELSE slots[j]]
             /\ count' = n
      BY <3>0
    <3>2. slots \in [1 .. Len(slots) -> Sessions] /\ DOMAIN slots = 1 .. Len(slots)
          /\ Len(slots) \in Nat /\ count \in 0 .. Len(slots)
      BY LenProperties DEF SessionTypes
    <3>3. \A j \in 1 .. n : slots[from[j]] \in Sessions
      BY <3>2
    <3>4. slots' \in [1 .. Len(slots) -> Sessions]
      BY <3>1, <3>2, <3>3
    <3> QED
      BY <3>1, <3>2, <3>4, SeqOfLength
  <2>3. SessionTypes'
    BY <1>7, <2>2 DEF MainCleanup, SessionTypes
  <2>4. MainTypes'
    BY <1>7, <2>2 DEF MainCleanup, MainTypes
  <2> QED
    BY <1>7, <2>1, <2>3, <2>4 DEF MainCleanup
<1>8. CASE MainPush
  <2>1. ClientTypes' /\ SessionTypes'
    BY <1>8 DEF MainPush, ClientTypes, SessionTypes
  <2>2. /\ serving \in Sessions
        /\ Head(batch) \in Nat /\ Tail(batch) \in Seq(Nat)
        /\ Len(batch) > 1 => Tail(batch) # <<>>
        /\ ~(Len(batch) > 1) => Tail(batch) = <<>>
    <3>1. serving \in Sessions /\ batch \in Seq(Nat) /\ batch # <<>>
      BY <1>8 DEF MainPush, MainTypes
    <3>2. /\ Head(batch) \in Nat /\ Tail(batch) \in Seq(Nat)
          /\ Len(Tail(batch)) = Len(batch) - 1 /\ Len(batch) \in Nat \ {0}
      BY <3>1, HeadTailProperties, EmptySeq
    <3> QED
      BY <3>1, <3>2, EmptyTail
  <2>3. TicketTypes'
    <3>1. nextTicket' = [nextTicket EXCEPT ![serving] = @ + 1]
          /\ UNCHANGED <<nextResponse, capacity, pending>>
      BY <1>8 DEF MainPush
    <3>2. nextTicket' \in [Sessions -> Nat]
      BY <2>2, <3>1 DEF TicketTypes
    <3> QED
      BY <3>1, <3>2 DEF TicketTypes
  <2>4. [s |-> serving, ticket |-> nextTicket[serving], line |-> Head(batch)] \in Tasks
    BY <2>2 DEF TicketTypes, Tasks
  <2>5. PoolTypes'
    <3> DEFINE new == [s |-> serving, ticket |-> nextTicket[serving], line |-> Head(batch)]
    <3>1. queue' = Append(queue, new) \/ queue' = queue
      BY <1>8 DEF MainPush
    <3>2. Append(queue, new) \in Seq(Tasks)
      BY <2>4, AppendProperties DEF PoolTypes
    <3> QED
      BY <1>8, <3>1, <3>2 DEF MainPush, PoolTypes
  <2>6. MainTypes'
    BY <1>8, <2>2 DEF MainPush, MainTypes
  <2> QED
    BY <1>8, <2>1, <2>3, <2>5, <2>6 DEF MainPush
<1>9. ASSUME NEW i \in ready, MainRead(i) PROVE TypeOK'
  <2>1. SessionTypes' /\ TicketTypes' /\ PoolTypes'
    BY <1>9 DEF MainRead, SessionTypes, TicketTypes, PoolTypes
  <2>2. PICK n \in 1 .. Len(fifo[slots[i]]) :
           /\ batch' = SubSeq(fifo[slots[i]], 1, n)
           /\ fifo' = [fifo EXCEPT ![slots[i]] = SubSeq(@, n + 1, Len(@))]
    BY <1>9 DEF MainRead
  <2>3. slots[i] \in Sessions
    BY LenProperties DEF SessionTypes, MainTypes
  <2>4. fifo[slots[i]] \in Seq(Nat) /\ Len(fifo[slots[i]]) \in Nat
    BY <2>3 DEF ClientTypes
  <2>5. batch' \in Seq(Nat) /\ Len(batch') = n
    <3>1. \A k \in 1 .. n : fifo[slots[i]][k] \in Nat
      BY <2>4, ElementOfSeq
    <3> QED
      BY <2>2, <2>4, <3>1, SubSeqProperties
  <2>6. SubSeq(fifo[slots[i]], n + 1, Len(fifo[slots[i]])) \in Seq(Nat)
    BY <2>4, SubSeqProperties, ElementOfSeq
  <2>7. ClientTypes'
    BY <1>9, <2>2, <2>6 DEF MainRead, ClientTypes
  <2>8. MainTypes'
    <3>1. batch' # <<>>
      BY <2>5, EmptySeq
    <3> QED
      BY <1>9, <2>3, <2>5, <3>1 DEF MainRead, MainTypes
  <2> QED
    BY <1>9, <2>1, <2>7, <2>8 DEF MainRead
<1>10. ASSUME NEW i \in ready, MainReadEnd(i) PROVE TypeOK'
  <2>1. ClientTypes' /\ TicketTypes' /\ PoolTypes'
    BY <1>10 DEF MainReadEnd, ClientTypes, TicketTypes, PoolTypes
  <2>2. SessionTypes'
    <3>1. slots[i] \in Sessions
      BY LenProperties DEF SessionTypes, MainTypes
    <3> QED
      BY <1>10, <3>1 DEF MainReadEnd, SessionTypes, Disconnected
  <2>3. MainTypes'
    BY <1>10 DEF MainReadEnd, MainTypes, NextReady, AfterIndex, Disconnected
  <2> QED
    BY <1>10, <2>1, <2>2, <2>3 DEF MainReadEnd
<1>11. ASSUME NEW i \in ready, MainReadFails(i) PROVE TypeOK'
  <2>1. ClientTypes' /\ SessionTypes' /\ TicketTypes' /\ PoolTypes'
    BY <1>11 DEF MainReadFails, ClientTypes, SessionTypes, TicketTypes, PoolTypes
  <2>2. MainTypes'
    BY <1>11 DEF MainReadFails, MainTypes, NextReady, AfterIndex
  <2> QED
    BY <1>11, <2>1, <2>2 DEF MainReadFails
<1>12. ASSUME NEW i \in ready, MainReadFreed(i) PROVE TypeOK'
  <2>1. ClientTypes' /\ SessionTypes' /\ TicketTypes' /\ PoolTypes' /\ MainTypes'
    BY <1>12 DEF MainReadFreed, ClientTypes, SessionTypes, TicketTypes, PoolTypes, MainTypes
  <2> QED
    BY <1>12, <2>1 DEF MainReadFreed, UseAfterFree
<1>13. ASSUME NEW w \in Workers, Pop(w) PROVE TypeOK'
  <2>1. ClientTypes' /\ SessionTypes' /\ TicketTypes' /\ MainTypes'
    BY <1>13 DEF Pop, ClientTypes, SessionTypes, TicketTypes, MainTypes
  <2>2. PoolTypes'
    BY <1>13 DEF Pop, PoolTypes
  <2> QED
    BY <1>13, <2>1, <2>2 DEF Pop
<1>14. ASSUME NEW w \in Workers, Execute(w) PROVE TypeOK'
  <2>1. ClientTypes' /\ SessionTypes' /\ TicketTypes' /\ MainTypes'
    BY <1>14 DEF Execute, ClientTypes, SessionTypes, TicketTypes, MainTypes
  <2>2. PoolTypes'
    <3>1. task[w].s \in Sessions /\ task[w].line \in Nat
      BY <1>14 DEF Execute, PoolTypes, Tasks
    <3>2. Append(ran[task[w].s], task[w].line) \in Seq(Nat)
      BY <3>1, AppendProperties DEF PoolTypes
    <3> QED
      BY <1>14, <3>1, <3>2 DEF Execute, PoolTypes
  <2> QED
    BY <1>14, <2>1, <2>2 DEF Execute, UseAfterFree
<1>15. ASSUME NEW w \in Workers, Store(w) PROVE TypeOK'
  <2>1. ClientTypes' /\ SessionTypes' /\ MainTypes'
    BY <1>15 DEF Store, ClientTypes, SessionTypes, MainTypes
  <2>2. TicketTypes'
    BY <1>15, GrownIsNat DEF Store, TicketTypes, PoolTypes, Tasks
  <2>3. PoolTypes'
    BY <1>15 DEF Store, PoolTypes
  <2> QED
    BY <1>15, <2>1, <2>2, <2>3 DEF Store
<1>16. ASSUME NEW w \in Workers, StoreFails(w) PROVE TypeOK'
  <2>1. ClientTypes' /\ SessionTypes' /\ MainTypes'
    BY <1>16 DEF StoreFails, ClientTypes, SessionTypes, MainTypes
  <2>2. TicketTypes'
    <3>1. task[w].s \in Sessions /\ task[w].ticket \in Nat
      BY <1>16 DEF StoreFails, PoolTypes, Tasks
    <3>2. Grown(capacity[task[w].s], task[w].ticket) \in Nat
      BY <3>1, GrownIsNat DEF TicketTypes
    <3>3. \/ UNCHANGED capacity
          \/ capacity' = [capacity EXCEPT ![task[w].s] = Grown(@, task[w].ticket)]
      BY <1>16 DEF StoreFails
    <3> QED
      BY <1>16, <3>1, <3>2, <3>3 DEF StoreFails, TicketTypes
  <2>3. PoolTypes'
    BY <1>16 DEF StoreFails, PoolTypes, AfterSend, Idle
  <2> QED
    BY <1>16, <2>1, <2>2, <2>3 DEF StoreFails
<1>17. ASSUME NEW w \in Workers, DrainWrite(w) PROVE TypeOK'
  <2>1. SessionTypes' /\ PoolTypes' /\ MainTypes'
    BY <1>17 DEF DrainWrite, SessionTypes, PoolTypes, MainTypes
  <2>2. CASE fault' = "SIGPIPE" /\ UNCHANGED <<out, strays, pending, nextResponse>>
    BY <1>17, <2>1, <2>2 DEF DrainWrite, ClientTypes, TicketTypes
  <2>3. ASSUME NEW r \in Due(task[w].s),
               out' = [x \in Sessions |->
                          IF x \in Reached(r.s) /\ x = r.s
                          THEN Append(out[x], r.line) ELSE out[x]],
               strays' = [x \in Sessions |->
                             IF x \in Reached(r.s) /\ x # r.s
                             THEN strays[x] + 1 ELSE strays[x]],
               pending' = pending \ {r},
               nextResponse' = [nextResponse EXCEPT ![r.s] = @ + 1],
               UNCHANGED fault
        PROVE  TypeOK'
    <3>1. r \in pending /\ r.s \in Sessions /\ r.line \in Nat
      BY DEF Due, TicketTypes, Tasks
    <3>2. ClientTypes'
      <4>1. \A x \in Sessions : Append(out[x], r.line) \in Seq(Nat)
        BY <3>1, AppendProperties DEF ClientTypes
      <4>2. out' \in [Sessions -> Seq(Nat)] /\ strays' \in [Sessions -> Nat]
        BY <4>1, <2>3 DEF ClientTypes
      <4> QED
        BY <1>17, <4>2 DEF DrainWrite, ClientTypes
    <3>3. TicketTypes'
      BY <1>17, <2>3, <3>1 DEF DrainWrite, TicketTypes
    <3> QED
      BY <2>1, <2>3, <3>2, <3>3
  <2> QED
    BY <1>17, <2>2, <2>3 DEF DrainWrite
<1>18. ASSUME NEW w \in Workers, DrainDone(w) PROVE TypeOK'
  <2>1. ClientTypes' /\ SessionTypes' /\ TicketTypes' /\ MainTypes'
    BY <1>18 DEF DrainDone, ClientTypes, SessionTypes, TicketTypes, MainTypes
  <2>2. PoolTypes'
    BY <1>18 DEF DrainDone, PoolTypes, AfterSend, Idle
  <2> QED
    BY <1>18, <2>1, <2>2 DEF DrainDone
<1>19. ASSUME NEW w \in Workers, Disconnect(w) PROVE TypeOK'
  <2>1. ClientTypes' /\ TicketTypes' /\ MainTypes'
    BY <1>19 DEF Disconnect, ClientTypes, TicketTypes, MainTypes
  <2>2. SessionTypes'
    BY <1>19 DEF Disconnect, SessionTypes, Idle, Disconnected
  <2>3. PoolTypes'
    BY <1>19 DEF Disconnect, PoolTypes, Idle, Disconnected
  <2> QED
    BY <1>19, <2>1, <2>2, <2>3 DEF Disconnect
<1>20. ASSUME NEW w \in Workers, WorkerUsesFreed(w) PROVE TypeOK'
  <2>1. ClientTypes' /\ SessionTypes' /\ TicketTypes' /\ PoolTypes' /\ MainTypes'
    BY <1>20 DEF WorkerUsesFreed, ClientTypes, SessionTypes, TicketTypes, PoolTypes, MainTypes
  <2> QED
    BY <1>20, <2>1 DEF WorkerUsesFreed, UseAfterFree
<1>21. CASE UNCHANGED vars
  BY <1>21 DEF ClientTypes, SessionTypes, TicketTypes, PoolTypes, MainTypes, vars
<1> QED
  BY <1>1, <1>2, <1>3, <1>4, <1>5, <1>6, <1>7, <1>8, <1>9, <1>10, <1>11, <1>12, <1>13, <1>14, <1>15, <1>16, <1>17, <1>18, <1>19, <1>20, <1>21
     DEF Next, MainLoop, Worker

(* Every variable always has its type. *)
THEOREM TypeCorrect == Spec => []TypeOK
<1>1. Init => TypeOK
  <2> SUFFICES ASSUME Init PROVE TypeOK
    OBVIOUS
  <2>1. ClientTypes
    BY EmptySeq DEF Init, ClientTypes
  <2>2. SessionTypes
    BY EmptySeq DEF Init, SessionTypes
  <2>3. TicketTypes
    BY DEF Init, TicketTypes
  <2>4. PoolTypes
    BY EmptySeq DEF Init, PoolTypes
  <2>5. MainTypes
    BY EmptySeq DEF Init, MainTypes
  <2> QED
    BY <2>1, <2>2, <2>3, <2>4, <2>5 DEF Init, TypeOK
<1> QED
  BY <1>1, TypeStep, PTL DEF Spec

-------------------------------------------------------------------------------
(* The numbering of lines, tickets and replies *)

(* Few actions touch the lines a session has not queued yet. *)
LEMMA LinesTouched ==
  ASSUME Next
  PROVE  \/ \E s \in Sessions, k \in Kinds : Send(s, k)
         \/ \E i \in ready : MainRead(i)
         \/ MainPush
         \/ UNCHANGED <<sent, fifo, nextTicket, serving, batch>>
<1> USE DEF clientVars, sessionVars, ticketVars, poolVars, mainVars
<1>1. ASSUME NEW s \in Sessions,
             Leave(s) \/ MainAccept(s) \/ MainAcceptFails(s)
      PROVE  UNCHANGED <<sent, fifo, nextTicket, serving, batch>>
  BY <1>1 DEF Leave, MainAccept, MainAcceptFails
<1>2. ASSUME MainIdle \/ MainPoll \/ MainCleanup
      PROVE  UNCHANGED <<sent, fifo, nextTicket, serving, batch>>
  BY <1>2 DEF MainIdle, MainPoll, MainCleanup
<1>3. ASSUME NEW i \in ready, MainReadEnd(i) \/ MainReadFails(i) \/ MainReadFreed(i)
      PROVE  UNCHANGED <<sent, fifo, nextTicket, serving, batch>>
  BY <1>3 DEF MainReadEnd, MainReadFails, MainReadFreed
<1>4. ASSUME NEW w \in Workers, Worker(w)
      PROVE  UNCHANGED <<sent, fifo, nextTicket, serving, batch>>
  BY <1>4 DEF Worker, Pop, Execute, Store, StoreFails, DrainWrite, DrainDone,
              Disconnect, WorkerUsesFreed
<1> QED
  BY <1>1, <1>2, <1>3, <1>4 DEF Next, MainLoop

LEMMA LinesStep ==
  ASSUME TypeOK, TypeOK', LinesNumbered, [Next]_vars
  PROVE  LinesNumbered'
<1> USE DEF TypeOK, clientVars, sessionVars, ticketVars, poolVars, mainVars
<1>1. ASSUME NEW s \in Sessions, NEW k \in Kinds, Send(s, k) PROVE LinesNumbered'
  <2>1. UNCHANGED <<nextTicket, serving, batch>>
    BY <1>1 DEF Send
  <2>2. ASSUME NEW x \in Sessions, x # s
        PROVE  sent'[x] = sent[x] /\ fifo'[x] = fifo[x]
    BY <1>1, <2>2 DEF Send, ClientTypes
  <2>3. sent'[s] = Append(sent[s], k) /\ fifo'[s] = Append(fifo[s], Len(sent[s]) + 1)
    BY <1>1 DEF Send, ClientTypes
  <2>4. Len(sent'[s]) = Len(sent[s]) + 1 /\ Len(sent[s]) \in Nat
    BY <2>3, AppendProperties, LenProperties DEF ClientTypes
  <2>5. /\ Len(fifo'[s]) = Len(fifo[s]) + 1 /\ Len(fifo[s]) \in Nat
        /\ \A i \in 1 .. Len(fifo[s]) : fifo'[s][i] = fifo[s][i]
        /\ fifo'[s][Len(fifo[s]) + 1] = Len(sent[s]) + 1
    BY <2>3, <2>4, AppendProperties, LenProperties DEF ClientTypes
  <2>6. InBatch(s) \in Nat /\ nextTicket[s] \in Nat
    BY LenProperties DEF InBatch, MainTypes, TicketTypes
  <2>7. \A x \in Sessions : InBatch(x)' = InBatch(x)
    BY <2>1 DEF InBatch
  <2>8. ASSUME NEW x \in Sessions, x # s
        PROVE  /\ Len(sent'[x]) = nextTicket'[x] + InBatch(x)' + Len(fifo'[x])
               /\ \A i \in 1 .. Len(fifo'[x]) : fifo'[x][i] = nextTicket'[x] + InBatch(x)' + i
    BY <2>1, <2>2, <2>7, <2>8 DEF LinesNumbered
  <2>9. PICK base \in Nat : base = nextTicket[s] + InBatch(s)
    BY <2>6
  <2>10. /\ nextTicket'[s] + InBatch(s)' = base
         /\ Len(sent[s]) = base + Len(fifo[s])
         /\ \A i \in 1 .. Len(fifo[s]) : fifo[s][i] = base + i
    BY <2>1, <2>7, <2>9 DEF LinesNumbered
  <2>11. /\ Len(sent'[s]) = base + Len(fifo'[s])
         /\ \A i \in 1 .. Len(fifo'[s]) : fifo'[s][i] = base + i
    <3>1. Len(sent'[s]) = base + Len(fifo'[s])
      BY <2>4, <2>5, <2>10
    <3>2. fifo'[s][Len(fifo[s]) + 1] = base + (Len(fifo[s]) + 1)
      BY <2>5, <2>10
    <3>3. \A i \in 1 .. Len(fifo'[s]) : i \in 1 .. Len(fifo[s]) \/ i = Len(fifo[s]) + 1
      BY <2>5
    <3> QED
      BY <3>1, <3>2, <3>3, <2>5, <2>10
  <2>12. ASSUME NEW x \in Sessions, serving' = x, NEW i \in 1 .. Len(batch')
         PROVE  batch'[i] = nextTicket'[x] + i
    BY <2>1, <2>12 DEF LinesNumbered
  <2> QED
    <3>1. /\ Len(sent'[s]) = nextTicket'[s] + InBatch(s)' + Len(fifo'[s])
          /\ \A i \in 1 .. Len(fifo'[s]) : fifo'[s][i] = nextTicket'[s] + InBatch(s)' + i
      BY <2>10, <2>11
    <3> QED
      BY <2>8, <2>12, <3>1 DEF LinesNumbered
<1>2. ASSUME NEW i \in ready, MainRead(i) PROVE LinesNumbered'
  <2> DEFINE s == slots[i]
  <2>1. s \in Sessions /\ serving = None /\ serving' = s /\ UNCHANGED <<sent, nextTicket>>
    BY <1>2, LenProperties DEF MainRead, SessionTypes, MainTypes
  <2>2. PICK n \in 1 .. Len(fifo[s]) :
           /\ batch' = SubSeq(fifo[s], 1, n)
           /\ fifo' = [fifo EXCEPT ![s] = SubSeq(@, n + 1, Len(@))]
    BY <1>2 DEF MainRead
  <2>3. fifo[s] \in Seq(Nat) /\ Len(fifo[s]) \in Nat
        /\ \A k \in 1 .. Len(fifo[s]) : fifo[s][k] \in Nat
    BY <2>1, LenProperties, ElementOfSeq DEF ClientTypes
  <2>4. Len(batch') = n /\ \A k \in 1 .. n : batch'[k] = fifo[s][k]
    BY <2>2, <2>3, SubSeqProperties
  <2>5. /\ Len(fifo'[s]) = Len(fifo[s]) - n
        /\ \A k \in 1 .. Len(fifo[s]) - n : fifo'[s][k] = fifo[s][n + k]
    <3>1. fifo'[s] = SubSeq(fifo[s], n + 1, Len(fifo[s]))
      BY <2>1, <2>2 DEF ClientTypes
    <3>2. /\ Len(SubSeq(fifo[s], n + 1, Len(fifo[s]))) = Len(fifo[s]) - n
          /\ \A k \in 1 .. Len(fifo[s]) - n :
               SubSeq(fifo[s], n + 1, Len(fifo[s]))[k] = fifo[s][n + k]
      BY <2>3, SubSeqProperties
    <3> QED
      BY <3>1, <3>2
  <2>6. ASSUME NEW x \in Sessions, x # s PROVE fifo'[x] = fifo[x]
    BY <2>2, <2>6 DEF ClientTypes
  <2>7. nextTicket \in [Sessions -> Nat] /\ None \notin Sessions
    BY PipelineAssumption DEF TicketTypes
  <2>8. /\ Len(sent[s]) = nextTicket[s] + Len(fifo[s])
        /\ \A k \in 1 .. Len(fifo[s]) : fifo[s][k] = nextTicket[s] + k
    <3>1. InBatch(s) = 0
      BY <2>1, <2>7 DEF InBatch
    <3>2. /\ Len(sent[s]) = nextTicket[s] + InBatch(s) + Len(fifo[s])
          /\ \A k \in 1 .. Len(fifo[s]) : fifo[s][k] = nextTicket[s] + InBatch(s) + k
      BY <2>1 DEF LinesNumbered
    <3> QED
      BY <2>1, <2>3, <2>7, <3>1, <3>2
  <2>9. ASSUME NEW x \in Sessions, x # s
        PROVE  /\ Len(sent'[x]) = nextTicket'[x] + InBatch(x)' + Len(fifo'[x])
               /\ \A k \in 1 .. Len(fifo'[x]) : fifo'[x][k] = nextTicket'[x] + InBatch(x)' + k
    BY <2>1, <2>6, <2>7, <2>9 DEF LinesNumbered, InBatch
  <2>10. /\ Len(sent'[s]) = nextTicket'[s] + n + Len(fifo'[s])
         /\ \A k \in 1 .. Len(fifo'[s]) : fifo'[s][k] = nextTicket'[s] + n + k
         /\ \A k \in 1 .. Len(batch') : batch'[k] = nextTicket'[s] + k
    <3>1. nextTicket[s] \in Nat /\ sent'[s] = sent[s] /\ nextTicket'[s] = nextTicket[s]
      BY <2>1, <2>7
    <3>2. Len(sent'[s]) = nextTicket'[s] + n + Len(fifo'[s])
      BY <2>3, <2>5, <2>8, <3>1
    <3>3. ASSUME NEW k \in 1 .. Len(fifo'[s])
          PROVE  fifo'[s][k] = nextTicket'[s] + n + k
      <4>1. k \in 1 .. Len(fifo[s]) - n /\ n + k \in 1 .. Len(fifo[s])
        BY <2>3, <2>5
      <4>2. fifo'[s][k] = fifo[s][n + k] /\ fifo[s][n + k] = nextTicket[s] + (n + k)
        BY <2>5, <2>8, <4>1
      <4> QED
        BY <3>1, <4>1, <4>2
    <3>4. ASSUME NEW k \in 1 .. Len(batch')
          PROVE  batch'[k] = nextTicket'[s] + k
      <4>1. k \in 1 .. n /\ k \in 1 .. Len(fifo[s])
        BY <2>3, <2>4
      <4>2. batch'[k] = fifo[s][k]
        BY <2>4, <4>1
      <4>3. fifo[s][k] = nextTicket[s] + k
        BY <2>8, <4>1
      <4> QED
        BY <3>1, <4>2, <4>3
    <3> QED
      BY <3>2, <3>3, <3>4
  <2> QED
    BY <2>1, <2>4, <2>9, <2>10 DEF LinesNumbered, InBatch
<1>3. CASE MainPush
  <2>1. /\ UNCHANGED <<sent, fifo>> /\ batch' = Tail(batch)
        /\ nextTicket' = [nextTicket EXCEPT ![serving] = @ + 1]
        /\ serving' = IF Len(batch) > 1 THEN serving ELSE None
    BY <1>3 DEF MainPush
  <2>2. serving \in Sessions /\ batch \in Seq(Nat) /\ batch # <<>>
        /\ nextTicket \in [Sessions -> Nat] /\ None \notin Sessions
    BY <1>3, PipelineAssumption DEF MainPush, MainTypes, TicketTypes
  <2>3. /\ Len(Tail(batch)) = Len(batch) - 1 /\ Len(batch) \in Nat \ {0}
        /\ \A k \in 1 .. Len(batch) - 1 : Tail(batch)[k] = batch[k + 1]
    BY <2>2, HeadTailProperties, EmptySeq
  <2>4. ASSUME NEW x \in Sessions
        PROVE  nextTicket'[x] + InBatch(x)' = nextTicket[x] + InBatch(x)
    <3>1. CASE x = serving
      <4>1. nextTicket'[x] = nextTicket[x] + 1 /\ InBatch(x) = Len(batch)
        BY <2>1, <2>2, <3>1 DEF InBatch
      <4>2. InBatch(x)' = Len(batch) - 1
        BY <2>1, <2>2, <2>3, <3>1 DEF InBatch
      <4> QED
        BY <2>2, <2>3, <4>1, <4>2
    <3>2. CASE x # serving
      BY <2>1, <2>2, <3>2 DEF InBatch
    <3> QED
      BY <3>1, <3>2
  <2>5. ASSUME NEW x \in Sessions, serving' = x, NEW k \in 1 .. Len(batch')
        PROVE  batch'[k] = nextTicket'[x] + k
    BY <2>1, <2>2, <2>3, <2>5 DEF LinesNumbered
  <2> QED
    BY <2>1, <2>4, <2>5 DEF LinesNumbered
<1>4. CASE UNCHANGED <<sent, fifo, nextTicket, serving, batch>>
  BY <1>4 DEF LinesNumbered, InBatch
<1> QED
  BY <1>1, <1>2, <1>3, <1>4, LinesTouched DEF vars

(* How the life of a session may change in one step. *)
LifeMoves ==
  /\ UNCHANGED <<out, nextTicket, nextResponse>>
  /\ serving' \in {serving, None}
  /\ \A x \in Sessions :
        \/ life'[x] = life[x] /\ (client'[x] = "none" => client[x] = "none")
        \/ life[x] \in {"active", "inactive"} /\ life'[x] \in {"inactive", "freed"}
           /\ (client'[x] = "none" => client[x] = "none")
        \/ life[x] = "none" /\ client[x] = "none"
           /\ life'[x] = "active" /\ client'[x] = "open"

LEMMA RepliesTouched ==
  ASSUME TypeOK, RepliesNumbered, Next
  PROVE  \/ \E i \in ready : MainRead(i)
         \/ MainPush
         \/ \E w \in Workers : DrainWrite(w)
         \/ LifeMoves
<1> USE DEF TypeOK, clientVars, sessionVars, ticketVars, poolVars, mainVars, LifeMoves
<1>1. ASSUME NEW s \in Sessions, NEW k \in Kinds, Send(s, k) PROVE LifeMoves
  BY <1>1 DEF Send
<1>2. ASSUME NEW s \in Sessions, Leave(s) PROVE LifeMoves
  BY <1>2 DEF Leave, ClientTypes
<1>3. ASSUME NEW s \in Sessions, MainAccept(s) PROVE LifeMoves
  BY <1>3 DEF MainAccept, Disconnected, ClientTypes, SessionTypes, RepliesNumbered
<1>4. ASSUME NEW s \in Sessions, MainAcceptFails(s) PROVE LifeMoves
  BY <1>4 DEF MainAcceptFails, Disconnected, ClientTypes, SessionTypes
<1>5. ASSUME MainIdle \/ MainPoll PROVE LifeMoves
  BY <1>5 DEF MainIdle, MainPoll
<1>6. CASE MainCleanup
  BY <1>6 DEF MainCleanup, SessionTypes
<1>7. ASSUME NEW i \in ready, MainReadEnd(i) PROVE LifeMoves
  BY <1>7 DEF MainReadEnd, Disconnected, SessionTypes
<1>8. ASSUME NEW i \in ready, MainReadFails(i) \/ MainReadFreed(i) PROVE LifeMoves
  BY <1>8 DEF MainReadFails, MainReadFreed
<1>9. ASSUME NEW w \in Workers, Disconnect(w) PROVE LifeMoves
  BY <1>9 DEF Disconnect, Disconnected, SessionTypes
<1>10. ASSUME NEW w \in Workers,
              Pop(w) \/ Execute(w) \/ Store(w) \/ StoreFails(w) \/ DrainDone(w)
              \/ WorkerUsesFreed(w)
       PROVE  LifeMoves
  BY <1>10 DEF Pop, Execute, Store, StoreFails, DrainDone, WorkerUsesFreed
<1> QED
  BY <1>1, <1>2, <1>3, <1>4, <1>5, <1>6, <1>7, <1>8, <1>9, <1>10 DEF Next, MainLoop, Worker

LEMMA RepliesStep ==
  ASSUME TypeOK, TypeOK', RepliesNumbered, TasksNumbered, TicketHeldOnce, [Next]_vars
  PROVE  RepliesNumbered'
<1> USE DEF TypeOK, clientVars, sessionVars, ticketVars, poolVars, mainVars
<1>1. ASSUME NEW i \in ready, MainRead(i) PROVE RepliesNumbered'
  BY <1>1, LenProperties DEF MainRead, RepliesNumbered, SessionTypes, MainTypes
<1>2. CASE MainPush
  <2>1. serving \in Sessions /\ nextTicket \in [Sessions -> Nat]
        /\ nextResponse \in [Sessions -> Nat]
    BY <1>2 DEF MainPush, MainTypes, TicketTypes
  <2>2. /\ UNCHANGED <<client, life, out, nextResponse>>
        /\ nextTicket' = [nextTicket EXCEPT ![serving] = @ + 1]
        /\ serving' \in {serving, None}
    BY <1>2 DEF MainPush
  <2> QED
    BY <2>1, <2>2, PipelineAssumption DEF RepliesNumbered
<1>3. ASSUME NEW w \in Workers, DrainWrite(w) PROVE RepliesNumbered'
  <2>1. UNCHANGED <<client, life, nextTicket, serving>>
    BY <1>3 DEF DrainWrite
  <2>2. CASE UNCHANGED <<out, nextResponse>>
    BY <2>1, <2>2 DEF RepliesNumbered
  <2>3. ASSUME NEW r \in Due(task[w].s),
               out' = [x \in Sessions |->
                          IF x \in Reached(r.s) /\ x = r.s
                          THEN Append(out[x], r.line) ELSE out[x]],
               nextResponse' = [nextResponse EXCEPT ![r.s] = @ + 1]
        PROVE  RepliesNumbered'
    <3>1. r \in Tasks /\ r.s \in Sessions /\ r.line \in Nat /\ r.ticket = nextResponse[r.s]
      BY DEF Due, TicketTypes, Tasks
    <3>2. r.line = nextResponse[r.s] + 1 /\ nextResponse[r.s] < nextTicket[r.s]
      BY <3>1 DEF Due, TasksNumbered, TicketHeldOnce
    <3>3. nextResponse \in [Sessions -> Nat] /\ nextTicket \in [Sessions -> Nat]
      BY DEF TicketTypes
    <3>4. ASSUME NEW x \in Sessions, x # r.s
          PROVE  out'[x] = out[x] /\ nextResponse'[x] = nextResponse[x]
      BY <2>3, <3>3, <3>4
    <3>5. nextResponse'[r.s] = nextResponse[r.s] + 1
      BY <2>3, <3>1, <3>3
    <3>6. life[r.s] # "none"
      BY <3>1, <3>2, <3>3 DEF RepliesNumbered
    <3>7. out[r.s] \in Seq(Nat) /\ Len(out[r.s]) \in Nat
      BY <3>1, LenProperties DEF ClientTypes
    <3> DEFINE Numbered ==
          /\ nextResponse'[r.s] <= nextTicket[r.s]
          /\ Len(out'[r.s]) <= nextResponse'[r.s]
          /\ life[r.s] \in {"none", "active"} => Len(out'[r.s]) = nextResponse'[r.s]
          /\ \A i \in 1 .. Len(out'[r.s]) : out'[r.s][i] = i
    <3>8. nextResponse[r.s] \in Nat /\ nextTicket[r.s] \in Nat
      BY <3>1, <3>3
    <3>9. ASSUME life[r.s] = "active" PROVE Numbered
      <4>1. out'[r.s] = Append(out[r.s], r.line)
        BY <2>3, <3>1, <3>9 DEF Reached
      <4>2. /\ Len(out'[r.s]) = Len(out[r.s]) + 1
            /\ \A i \in 1 .. Len(out[r.s]) : out'[r.s][i] = out[r.s][i]
            /\ out'[r.s][Len(out[r.s]) + 1] = r.line
        BY <3>1, <3>7, <4>1, AppendProperties
      <4>3. Len(out[r.s]) = nextResponse[r.s] /\ \A i \in 1 .. Len(out[r.s]) : out[r.s][i] = i
        BY <3>1, <3>9 DEF RepliesNumbered
      <4>4. \A i \in 1 .. Len(out'[r.s]) : out'[r.s][i] = i
        <5>1. out'[r.s][Len(out[r.s]) + 1] = Len(out[r.s]) + 1
          BY <3>2, <4>2, <4>3
        <5>2. \A i \in 1 .. Len(out'[r.s]) : i \in 1 .. Len(out[r.s]) \/ i = Len(out[r.s]) + 1
          BY <3>7, <4>2
        <5> QED
          BY <4>2, <4>3, <5>1, <5>2
      <4> QED
        BY <3>1, <3>2, <3>5, <3>6, <3>7, <3>8, <4>2, <4>3, <4>4
    <3>10. ASSUME life[r.s] # "active" PROVE Numbered
      <4>1. out'[r.s] = out[r.s]
        BY <2>3, <3>1, <3>10 DEF Reached
      <4> QED
        <5>1. /\ Len(out[r.s]) <= nextResponse[r.s]
              /\ \A i \in 1 .. Len(out[r.s]) : out[r.s][i] = i
          BY <3>1 DEF RepliesNumbered
        <5> QED
          BY <3>1, <3>2, <3>3, <3>5, <3>6, <3>7, <3>10, <3>8, <4>1, <5>1
    <3> QED
      BY <2>1, <3>4, <3>8, <3>9, <3>10 DEF RepliesNumbered
  <2> QED
    BY <1>3, <2>2, <2>3 DEF DrainWrite
<1>4. CASE LifeMoves
  BY <1>4, PipelineAssumption DEF LifeMoves, RepliesNumbered
<1>5. CASE UNCHANGED vars
  BY <1>5 DEF vars, RepliesNumbered
<1> QED
  BY <1>1, <1>2, <1>3, <1>4, <1>5, RepliesTouched

-------------------------------------------------------------------------------
(* Tickets in the queue, in the hands of workers and in the pending tables *)

(* A task is determined by its fields. *)
LEMMA SameTask ==
  ASSUME NEW a \in Tasks, NEW b \in Tasks,
         a.s = b.s, a.ticket = b.ticket, a.line = b.line
  PROVE  a = b
  BY DEF Tasks

(* Where held tickets are and what is known of them, as one predicate of   *)
(* the three places.                                                       *)
Held(q, hand, pend) ==
  /\ \A t \in q \union hand \union pend :
        /\ t.line = t.ticket + 1
        /\ nextResponse[t.s] <= t.ticket /\ t.ticket < nextTicket[t.s]
  /\ q \intersect hand = {}
  /\ (q \union hand) \intersect pend = {}

Distinct ==
  /\ \A i, j \in DOMAIN queue : i # j => queue[i] # queue[j]
  /\ \A v, w \in Busy : v # w => task[v] # task[w]

LEMMA HeldIs ==
  TasksNumbered /\ TicketHeldOnce <=> Distinct /\ Held(Queued, InHand, pending)
  BY DEF TasksNumbered, TicketHeldOnce, Distinct, Held

LEMMA HeldTyped ==
  ASSUME TypeOK
  PROVE  /\ Queued \subseteq Tasks /\ InHand \subseteq Tasks /\ pending \subseteq Tasks
         /\ \A w \in Busy : w \in Workers /\ task[w] \in Tasks
  BY LenProperties, ElementOfSeq
     DEF TypeOK, PoolTypes, TicketTypes, Queued, InHand, Busy

(* Steps of the pool and of the main loop that only move or drop tasks. *)
LEMMA HeldStep ==
  ASSUME TypeOK, TypeOK', LinesNumbered, RepliesNumbered,
         Distinct, Held(Queued, InHand, pending), Next
  PROVE  Distinct' /\ Held(Queued, InHand, pending)'
<1> USE DEF TypeOK, clientVars, sessionVars, ticketVars, poolVars, mainVars
<1>1. CASE UNCHANGED <<queue, pc, task, pending, nextResponse, nextTicket>>
  BY <1>1 DEF Distinct, Held, Queued, InHand, Busy
<1>2. CASE MainPush
  <2> DEFINE new == [s |-> serving, ticket |-> nextTicket[serving], line |-> Head(batch)]
  <2>1. /\ UNCHANGED <<pc, task, pending, nextResponse>>
        /\ nextTicket' = [nextTicket EXCEPT ![serving] = @ + 1]
        /\ queue' = Append(queue, new) \/ queue' = queue
    BY <1>2 DEF MainPush
  <2>2. serving \in Sessions /\ batch \in Seq(Nat) /\ batch # <<>>
    BY <1>2 DEF MainPush, MainTypes
  <2>3. nextTicket \in [Sessions -> Nat] /\ nextResponse \in [Sessions -> Nat]
    BY DEF TicketTypes
  <2>4. Head(batch) = nextTicket[serving] + 1 /\ Head(batch) \in Nat
    <3>1. Len(batch) \in Nat \ {0} /\ Head(batch) = batch[1] /\ Head(batch) \in Nat
      BY <2>2, EmptySeq, HeadTailProperties
    <3> QED
      BY <2>2, <3>1 DEF LinesNumbered
  <2>5. /\ new \in Tasks /\ new.s = serving /\ new.line = new.ticket + 1
        /\ new.ticket = nextTicket[serving]
        /\ nextResponse[new.s] <= new.ticket
    BY <2>2, <2>3, <2>4 DEF Tasks, RepliesNumbered
  <2>6. new \notin Queued \union InHand \union pending
    BY <2>2, <2>3, <2>5 DEF Held
  <2>7. InHand' = InHand /\ Busy' = Busy
    BY <2>1 DEF InHand, Busy
  <2>8. \A t \in Queued \union InHand \union pending :
            t.s \in Sessions /\ t.ticket < nextTicket'[t.s]
            /\ nextResponse'[t.s] <= t.ticket /\ t.line = t.ticket + 1
    BY <2>1, <2>2, <2>3, HeldTyped DEF Held, Tasks
  <2>9. new.ticket < nextTicket'[new.s] /\ nextResponse'[new.s] <= new.ticket
    BY <2>1, <2>2, <2>3, <2>5
  <2>10. CASE queue' = queue
    BY <2>1, <2>7, <2>8, <2>10 DEF Distinct, Held, Queued
  <2>11. CASE queue' = Append(queue, new)
    <3>1. /\ DOMAIN queue = 1 .. Len(queue) /\ Len(queue) \in Nat
          /\ DOMAIN queue' = 1 .. Len(queue) + 1
          /\ \A i \in 1 .. Len(queue) : queue'[i] = queue[i]
          /\ queue'[Len(queue) + 1] = new
      BY <2>5, <2>11, AppendProperties, LenProperties DEF PoolTypes
    <3>2. Queued' = Queued \union {new}
      BY <3>1 DEF Queued
    <3>3. \A i \in 1 .. Len(queue) : queue[i] # new
      BY <2>6, <3>1 DEF Queued
    <3>4. \A i \in 1 .. Len(queue) + 1 : i \in 1 .. Len(queue) \/ i = Len(queue) + 1
      BY <3>1
    <3>5. Distinct'
      BY <2>1, <2>7, <3>1, <3>3, <3>4 DEF Distinct
    <3> QED
      BY <2>1, <2>5, <2>6, <2>7, <2>8, <2>9, <3>2, <3>5 DEF Held
  <2> QED
    BY <2>1, <2>10, <2>11
<1>3. ASSUME NEW w \in Workers, Pop(w)
      PROVE  Distinct' /\ Held(Queued, InHand, pending)'
  <2>1. /\ pc[w] = "idle" /\ queue # <<>> /\ queue' = Tail(queue)
        /\ task' = [task EXCEPT ![w] = Head(queue)]
        /\ pc' = [pc EXCEPT ![w] = "run"]
        /\ UNCHANGED <<pending, nextResponse, nextTicket>>
    BY <1>3 DEF Pop
  <2>2. /\ DOMAIN queue = 1 .. Len(queue) /\ Len(queue) \in Nat \ {0}
        /\ DOMAIN queue' = 1 .. Len(queue) - 1
        /\ \A i \in 1 .. Len(queue) - 1 : queue'[i] = queue[i + 1]
        /\ Head(queue) = queue[1]
    BY <2>1, EmptySeq, HeadTailProperties, LenProperties DEF PoolTypes
  <2>3. Head(queue) \in Queued /\ 1 \in DOMAIN queue
    <3>1. 1 \in DOMAIN queue
      BY <2>2
    <3>2. queue[1] \in Queued
      BY <3>1 DEF Queued
    <3> QED
      BY <2>2, <3>1, <3>2
  <2>4. /\ \A i \in 1 .. Len(queue) - 1 : i + 1 \in 1 .. Len(queue) /\ i + 1 # 1
        /\ \A i, j \in 1 .. Len(queue) - 1 : i # j => i + 1 # j + 1
    BY <2>2
  <2>5. Queued' \subseteq Queued /\ Head(queue) \notin Queued'
    <3>1. ASSUME NEW t \in Queued'
          PROVE  t \in Queued /\ t # Head(queue)
      <4>1. PICK i \in DOMAIN queue' : t = queue'[i]
        BY DEF Queued
      <4>2. i + 1 \in DOMAIN queue /\ i + 1 # 1 /\ t = queue[i + 1]
        BY <2>2, <2>4, <4>1
      <4>3. queue[i + 1] # queue[1]
        BY <2>3, <4>2 DEF Distinct
      <4> QED
        BY <2>2, <4>2, <4>3 DEF Queued
    <3> QED
      BY <3>1
  <2>6. \A i, j \in DOMAIN queue' : i # j => queue'[i] # queue'[j]
    BY <2>2, <2>4 DEF Distinct
  <2>7. Busy' = Busy \union {w} /\ w \notin Busy
    BY <2>1 DEF Busy, PoolTypes
  <2>8. task'[w] = Head(queue) /\ \A v \in Busy : task'[v] = task[v]
    BY <2>1, <2>7 DEF PoolTypes, Busy
  <2>9. InHand' = InHand \union {Head(queue)}
    BY <2>7, <2>8 DEF InHand
  <2>10. \A v \in Busy : task[v] # Head(queue)
    BY <2>3 DEF InHand, Held
  <2>11. Distinct'
    BY <2>6, <2>7, <2>8, <2>10 DEF Distinct
  <2> QED
    BY <2>1, <2>3, <2>5, <2>9, <2>11 DEF Held
<1>4. ASSUME NEW w \in Workers, Execute(w)
      PROVE  Distinct' /\ Held(Queued, InHand, pending)'
  <2>1. Busy' = Busy
    BY <1>4 DEF Execute, Busy, PoolTypes
  <2> QED
    BY <1>4, <2>1 DEF Execute, Distinct, Held, Queued, InHand
<1>5. ASSUME NEW w \in Workers, Store(w)
      PROVE  Distinct' /\ Held(Queued, InHand, pending)'
  <2>1. /\ w \in Busy /\ Busy' = Busy \ {w}
        /\ pending' = pending \union {task[w]}
        /\ UNCHANGED <<queue, task, nextResponse, nextTicket>>
    BY <1>5 DEF Store, Busy, PoolTypes
  <2>2. task[w] \in InHand /\ InHand' \subseteq InHand /\ task[w] \notin InHand'
    BY <2>1 DEF InHand, Distinct
  <2> QED
    BY <2>1, <2>2 DEF Distinct, Held, Queued
<1>6. ASSUME NEW w \in Workers, StoreFails(w) \/ DrainDone(w) \/ Disconnect(w)
      PROVE  Distinct' /\ Held(Queued, InHand, pending)'
  <2>1. /\ UNCHANGED <<queue, pending, nextResponse, nextTicket>>
        /\ Busy' \subseteq Busy /\ w \notin Busy'
        /\ \A v \in Workers : v # w => task'[v] = task[v]
    BY <1>6 DEF StoreFails, DrainDone, Disconnect, AfterSend, Idle, Busy, PoolTypes
  <2>2. \A v \in Busy' : v \in Workers /\ v # w /\ task'[v] = task[v]
    BY <2>1 DEF Busy
  <2>3. InHand' \subseteq InHand
    BY <2>1, <2>2 DEF InHand
  <2>4. Distinct'
    BY <2>1, <2>2 DEF Distinct
  <2> QED
    BY <2>1, <2>3, <2>4 DEF Held, Queued
<1>7. ASSUME NEW w \in Workers, DrainWrite(w)
      PROVE  Distinct' /\ Held(Queued, InHand, pending)'
  <2>1. UNCHANGED <<queue, pc, task, nextTicket>>
    BY <1>7 DEF DrainWrite
  <2>2. Queued' = Queued /\ InHand' = InHand /\ Distinct'
    BY <2>1 DEF Queued, InHand, Busy, Distinct
  <2>3. CASE UNCHANGED <<pending, nextResponse>>
    BY <2>1, <2>2, <2>3 DEF Held
  <2>4. ASSUME NEW r \in Due(task[w].s),
               pending' = pending \ {r},
               nextResponse' = [nextResponse EXCEPT ![r.s] = @ + 1]
        PROVE  Held(Queued, InHand, pending)'
    <3>1. r \in pending /\ r \in Tasks /\ r.s \in Sessions /\ r.ticket = nextResponse[r.s]
      BY HeldTyped DEF Due, Tasks
    <3>2. ASSUME NEW t \in Queued \union InHand \union (pending \ {r})
          PROVE  nextResponse'[t.s] <= t.ticket
      <4>1. t \in Tasks /\ t.s \in Sessions /\ t.ticket \in Nat /\ t # r
        BY <3>1, HeldTyped DEF Held, Tasks
      <4>2. nextResponse[t.s] <= t.ticket /\ t.line = t.ticket + 1 /\ r.line = r.ticket + 1
        BY <3>1 DEF Held
      <4>3. t.s = r.s => t.ticket # r.ticket
        BY <3>1, <4>1, <4>2, SameTask
      <4> QED
        BY <2>4, <3>1, <4>1, <4>2, <4>3 DEF TicketTypes
    <3> QED
      BY <2>1, <2>2, <2>4, <3>2 DEF Held
  <2> QED
    BY <1>7, <2>2, <2>3, <2>4 DEF DrainWrite
<1> QED
  <2>1. ASSUME NEW s \in Sessions, NEW k \in Kinds,
               Send(s, k) \/ Leave(s) \/ MainAccept(s) \/ MainAcceptFails(s)
        PROVE  UNCHANGED <<queue, pc, task, pending, nextResponse, nextTicket>>
    BY <2>1 DEF Send, Leave, MainAccept, MainAcceptFails
  <2>2. ASSUME NEW s \in Sessions, Leave(s) \/ MainAccept(s) \/ MainAcceptFails(s)
        PROVE  UNCHANGED <<queue, pc, task, pending, nextResponse, nextTicket>>
    BY <2>2 DEF Leave, MainAccept, MainAcceptFails
  <2>3. ASSUME MainIdle \/ MainPoll \/ MainCleanup
        PROVE  UNCHANGED <<queue, pc, task, pending, nextResponse, nextTicket>>
    BY <2>3 DEF MainIdle, MainPoll, MainCleanup
  <2>4. ASSUME NEW i \in ready,
               MainRead(i) \/ MainReadEnd(i) \/ MainReadFails(i) \/ MainReadFreed(i)
        PROVE  UNCHANGED <<queue, pc, task, pending, nextResponse, nextTicket>>
    BY <2>4 DEF MainRead, MainReadEnd, MainReadFails, MainReadFreed
  <2>5. ASSUME NEW w \in Workers, WorkerUsesFreed(w)
        PROVE  UNCHANGED <<queue, pc, task, pending, nextResponse, nextTicket>>
    BY <2>5 DEF WorkerUsesFreed
  <2> QED
    BY <1>1, <1>2, <1>3, <1>4, <1>5, <1>6, <1>7, <2>1, <2>2, <2>3, <2>4, <2>5
       DEF Next, MainLoop, Worker

-------------------------------------------------------------------------------
(* The theorems *)

(* The invariant behind the ordering of replies: lines, tasks and replies  *)
(* of a session stay numbered without a gap, and every ticket is held once.*)
THEOREM PipelineInvariant == Spec => []PipelineInv
<1>1. Init => PipelineInv
  BY PipelineAssumption, EmptySeq
     DEF Init, PipelineInv, LinesNumbered, InBatch, RepliesNumbered, TasksNumbered,
         TicketHeldOnce, Queued, InHand, Busy
<1>2. TypeOK /\ TypeOK' /\ PipelineInv /\ [Next]_vars => PipelineInv'
  <2> SUFFICES ASSUME TypeOK, TypeOK', PipelineInv, [Next]_vars PROVE PipelineInv'
    OBVIOUS
  <2>1. LinesNumbered'
    BY LinesStep DEF PipelineInv
  <2>2. RepliesNumbered'
    BY RepliesStep DEF PipelineInv
  <2>3. Distinct /\ Held(Queued, InHand, pending)
    BY HeldIs DEF PipelineInv
  <2>4. Distinct' /\ Held(Queued, InHand, pending)'
    <3>1. CASE Next
      BY <2>3, <3>1, HeldStep DEF PipelineInv
    <3>2. CASE UNCHANGED vars
      BY <2>3, <3>2 DEF vars, ticketVars, poolVars, Distinct, Held, Queued, InHand, Busy
    <3> QED
      BY <3>1, <3>2
  <2>5. (TasksNumbered /\ TicketHeldOnce)'
    BY <2>4 DEF TasksNumbered, TicketHeldOnce, Distinct, Held
  <2> QED
    BY <2>1, <2>2, <2>5 DEF PipelineInv
<1> QED
  BY <1>1, <1>2, TypeCorrect, PTL DEF Spec

(* The replies a client has received answer its first lines, in the order  *)
(* it sent them, each once, for any number of clients, workers and lines.  *)
THEOREM RepliesDeliveredInOrder == Spec => []OrderedDelivery
<1>1. TypeOK /\ PipelineInv => OrderedDelivery
  <2> SUFFICES ASSUME TypeOK, PipelineInv, NEW s \in Sessions
               PROVE  /\ out[s] = Identity(Len(out[s]))
                      /\ Len(out[s]) <= Len(sent[s])
    BY DEF OrderedDelivery
  <2>1. out[s] \in Seq(Nat) /\ Len(out[s]) \in Nat /\ DOMAIN out[s] = 1 .. Len(out[s])
        /\ out[s] = [i \in 1 .. Len(out[s]) |-> out[s][i]]
    BY LenProperties DEF TypeOK, ClientTypes
  <2>2. \A i \in 1 .. Len(out[s]) : out[s][i] = i
    BY DEF PipelineInv, RepliesNumbered
  <2>3. Len(out[s]) <= nextResponse[s] /\ nextResponse[s] <= nextTicket[s]
    BY DEF PipelineInv, RepliesNumbered
  <2>4. nextTicket[s] <= Len(sent[s])
    <3>1. Len(sent[s]) = nextTicket[s] + InBatch(s) + Len(fifo[s])
      BY DEF PipelineInv, LinesNumbered
    <3>2. InBatch(s) \in Nat /\ Len(fifo[s]) \in Nat /\ nextTicket[s] \in Nat
      BY LenProperties DEF TypeOK, ClientTypes, MainTypes, TicketTypes, InBatch
    <3> QED
      BY <3>1, <3>2
  <2>5. nextResponse[s] \in Nat /\ nextTicket[s] \in Nat /\ Len(sent[s]) \in Nat
    BY LenProperties DEF TypeOK, ClientTypes, TicketTypes
  <2> QED
    <3>1. out[s] = Identity(Len(out[s]))
      BY <2>1, <2>2 DEF Identity
    <3> QED
      BY <2>1, <2>3, <2>4, <2>5, <3>1
<1> QED
  BY <1>1, TypeCorrect, PipelineInvariant, PTL

(* A ticket that was issued and not answered is in one place only: never   *)
(* queued twice, run twice or stored twice.                                *)
THEOREM TicketsHeldOnce == Spec => []TicketHeldOnce
<1>1. PipelineInv => TicketHeldOnce
  BY DEF PipelineInv
<1> QED
  BY <1>1, PipelineInvariant, PTL

(* Only clients that send and workers that write change what the clients   *)
(* see.                                                                    *)
LEMMA ExchangeTouched ==
  ASSUME [Next]_vars
  PROVE  \/ \E s \in Sessions, k \in Kinds : Send(s, k)
         \/ \E w \in Workers : DrainWrite(w)
         \/ UNCHANGED <<sent, out>>
<1> USE DEF clientVars, sessionVars, ticketVars, poolVars, mainVars
<1>1. ASSUME NEW s \in Sessions, Leave(s) \/ MainAccept(s) \/ MainAcceptFails(s)
      PROVE  UNCHANGED <<sent, out>>
  BY <1>1 DEF Leave, MainAccept, MainAcceptFails
<1>2. ASSUME MainIdle \/ MainPoll \/ MainCleanup \/ MainPush
      PROVE  UNCHANGED <<sent, out>>
  BY <1>2 DEF MainIdle, MainPoll, MainCleanup, MainPush
<1>3. ASSUME NEW i \in ready,
             MainRead(i) \/ MainReadEnd(i) \/ MainReadFails(i) \/ MainReadFreed(i)
      PROVE  UNCHANGED <<sent, out>>
  BY <1>3 DEF MainRead, MainReadEnd, MainReadFails, MainReadFreed
<1>4. ASSUME NEW w \in Workers,
             \/ Pop(w) \/ Execute(w) \/ Store(w) \/ StoreFails(w)
             \/ DrainDone(w) \/ Disconnect(w) \/ WorkerUsesFreed(w)
      PROVE  UNCHANGED <<sent, out>>
  BY <1>4 DEF Pop, Execute, Store, StoreFails, DrainDone, Disconnect, WorkerUsesFreed
<1>5. CASE UNCHANGED vars
  BY <1>5 DEF vars
<1> QED
  BY <1>1, <1>2, <1>3, <1>4, <1>5 DEF Next, MainLoop, Worker

(* The pipeline implements the abstract promise: every step of the server  *)
(* is a submission, an answer to the oldest unanswered request of one      *)
(* client, or invisible to the clients.                                    *)
THEOREM PipelineImplementsReplies == Spec => RepliesInOrder
<1>1. Init => Replies!Init
  <2> SUFFICES ASSUME Init PROVE Replies!Init
    OBVIOUS
  <2>1. \A s \in Sessions : Len(sent[s]) = 0
    BY EmptySeq DEF Init
  <2> QED
    BY <2>1 DEF Init, Replies!Init
<1>2. TypeOK /\ TypeOK' /\ PipelineInv /\ [Next]_vars
        => [Replies!Next]_<<[s \in Sessions |-> Len(sent[s])], out>>
  <2> SUFFICES ASSUME TypeOK, TypeOK', PipelineInv, [Next]_vars
               PROVE  \/ Replies!Next
                      \/ UNCHANGED <<[s \in Sessions |-> Len(sent[s])], out>>
    OBVIOUS
  <2> USE DEF clientVars, sessionVars, ticketVars, poolVars, mainVars
  <2>1. CASE UNCHANGED <<sent, out>>
    BY <2>1
  <2>2. ASSUME NEW s \in Sessions, NEW k \in Kinds, Send(s, k) PROVE Replies!Next
    <3>1. out' = out /\ sent' = [sent EXCEPT ![s] = Append(@, k)]
      BY <2>2 DEF Send
    <3>2. sent \in [Sessions -> Seq(Kinds)]
      BY DEF TypeOK, ClientTypes
    <3>3. Len(sent'[s]) = Len(sent[s]) + 1
      BY <3>1, <3>2, AppendProperties
    <3>4. \A x \in Sessions : x # s => sent'[x] = sent[x]
      BY <3>1, <3>2
    <3>5. [x \in Sessions |-> Len(sent'[x])]
            = [[x \in Sessions |-> Len(sent[x])] EXCEPT ![s] = @ + 1]
      BY <3>3, <3>4
    <3>6. Replies!Submit(s)
      BY <3>1, <3>5 DEF Replies!Submit
    <3> QED
      BY <3>6 DEF Replies!Next
  <2>3. ASSUME NEW w \in Workers, DrainWrite(w)
        PROVE  Replies!Next \/ UNCHANGED <<sent, out>>
    <3>1. sent' = sent
      BY <2>3 DEF DrainWrite
    <3>2. CASE UNCHANGED out
      BY <3>1, <3>2
    <3>3. ASSUME NEW r \in Due(task[w].s),
                 out' = [x \in Sessions |->
                            IF x \in Reached(r.s) /\ x = r.s
                            THEN Append(out[x], r.line) ELSE out[x]]
          PROVE  Replies!Next \/ UNCHANGED <<sent, out>>
      <4>1. r \in Tasks /\ r \in pending /\ r.s \in Sessions /\ r.ticket = nextResponse[r.s]
        BY HeldTyped DEF Due, Tasks
      <4>2. r.line = r.ticket + 1 /\ r.ticket < nextTicket[r.s]
        BY <4>1 DEF PipelineInv, TasksNumbered, TicketHeldOnce
      <4>3. out \in [Sessions -> Seq(Nat)]
        BY DEF TypeOK, ClientTypes
      <4>4. CASE r.s \notin Reached(r.s)
        BY <3>1, <3>3, <4>3, <4>4
      <4>5. CASE r.s \in Reached(r.s)
        <5>1. life[r.s] = "active"
          BY <4>5 DEF Reached
        <5>2. Len(out[r.s]) = nextResponse[r.s]
          BY <4>1, <5>1 DEF PipelineInv, RepliesNumbered
        <5>3. out' = [out EXCEPT ![r.s] = Append(@, Len(@) + 1)]
          BY <3>3, <4>1, <4>2, <4>3, <4>5, <5>2
        <5>4. /\ Len(sent[r.s]) = nextTicket[r.s] + InBatch(r.s) + Len(fifo[r.s])
              /\ InBatch(r.s) \in Nat /\ Len(fifo[r.s]) \in Nat
              /\ nextTicket[r.s] \in Nat /\ nextResponse[r.s] \in Nat
          BY <4>1, LenProperties DEF PipelineInv, LinesNumbered, TypeOK, ClientTypes,
             MainTypes, TicketTypes, InBatch
        <5>5. Len(out[r.s]) < [x \in Sessions |-> Len(sent[x])][r.s]
          BY <4>1, <4>2, <5>2, <5>4
        <5>6. Replies!Reply(r.s)
          BY <3>1, <5>3, <5>5 DEF Replies!Reply
        <5> QED
          BY <4>1, <5>6 DEF Replies!Next
      <4> QED
        BY <4>4, <4>5
    <3> QED
      BY <2>3, <3>2, <3>3 DEF DrainWrite
  <2> QED
    BY <2>1, <2>2, <2>3, ExchangeTouched
<1> QED
  BY <1>1, <1>2, TypeCorrect, PipelineInvariant, PTL DEF Spec, RepliesInOrder, Replies!Spec

-------------------------------------------------------------------------------
(* The critical section of send_ordered_response, and the table of        *)
(* sessions.                                                               *)

(* A step that leaves the stored responses of a session alone. *)
LEMMA DueKept ==
  ASSUME NEW s \in Sessions, Due(s) = {},
         pending' \subseteq pending,
         nextResponse'[s] = nextResponse[s], capacity'[s] = capacity[s]
  PROVE  Due(s)' = {}
  BY DEF Due

(* Who touches the stored responses and the locks. *)
LEMMA PendingTouched ==
  ASSUME Next
  PROVE  \/ \E w \in Workers : \/ Pop(w) \/ Execute(w) \/ Store(w) \/ StoreFails(w)
                               \/ DrainWrite(w) \/ DrainDone(w) \/ Disconnect(w)
         \/ UNCHANGED <<pc, task, pending, nextResponse, capacity>>
<1> USE DEF clientVars, sessionVars, ticketVars, poolVars, mainVars
<1>1. ASSUME NEW s \in Sessions, NEW k \in Kinds, Send(s, k)
      PROVE  UNCHANGED <<pc, task, pending, nextResponse, capacity>>
  BY <1>1 DEF Send
<1>2. ASSUME NEW s \in Sessions, Leave(s) \/ MainAccept(s) \/ MainAcceptFails(s)
      PROVE  UNCHANGED <<pc, task, pending, nextResponse, capacity>>
  BY <1>2 DEF Leave, MainAccept, MainAcceptFails
<1>3. MainLoop => UNCHANGED <<pc, task, pending, nextResponse, capacity>>
  BY DEF MainLoop, MainIdle, MainPoll, MainCleanup, MainPush,
         MainRead, MainReadEnd, MainReadFails, MainReadFreed
<1>4. ASSUME NEW w \in Workers, WorkerUsesFreed(w)
      PROVE  UNCHANGED <<pc, task, pending, nextResponse, capacity>>
  BY <1>4 DEF WorkerUsesFreed
<1> QED
  BY <1>1, <1>2, <1>3, <1>4 DEF Next, Worker

LEMMA StopsForGood ==
  ASSUME [Next]_vars, Running'
  PROVE  Running
<1>1. Next => Running
  BY DEF Next, MainLoop, Worker, Send, Leave, MainAccept, MainAcceptFails,
         MainIdle, MainPoll, MainCleanup, MainPush,
         MainRead, MainReadEnd, MainReadFails, MainReadFreed,
         Pop, Execute, Store, StoreFails, DrainWrite, DrainDone, Disconnect,
         WorkerUsesFreed
<1> QED
  BY <1>1 DEF vars, Running

LEMMA DrainStep ==
  ASSUME TypeOK, DrainComplete, [Next]_vars
  PROVE  DrainComplete'
<1> SUFFICES ASSUME NEW s \in Sessions, Running', ~Locked(s)'
             PROVE  Due(s)' = {}
  BY DEF DrainComplete
<1> USE DEF TypeOK, PoolTypes, clientVars, sessionVars, ticketVars, poolVars, mainVars
<1>0. ~Locked(s) => Due(s) = {}
  BY StopsForGood DEF DrainComplete
<1>1. CASE UNCHANGED <<pc, task, pending, nextResponse, capacity>>
  BY <1>0, <1>1 DEF Locked, Due
<1>2. ASSUME NEW w \in Workers, Pop(w) \/ Execute(w) \/ Disconnect(w)
      PROVE  Due(s)' = {}
  <2>1. UNCHANGED <<pending, nextResponse, capacity>>
    BY <1>2 DEF Pop, Execute, Disconnect
  <2>2. pc[w] # "drain" /\ \A v \in Workers : v # w => pc'[v] = pc[v] /\ task'[v] = task[v]
    BY <1>2 DEF Pop, Execute, Disconnect, Idle
  <2>3. ~Locked(s)
    BY <2>2 DEF Locked
  <2> QED
    BY <1>0, <2>1, <2>3 DEF Due
<1>3. ASSUME NEW w \in Workers, Store(w) PROVE Due(s)' = {}
  <2>1. /\ pc[w] = "send" /\ pc'[w] = "drain" /\ task' = task
        /\ \A v \in Workers : v # w => pc'[v] = pc[v]
        /\ pending' = pending \union {task[w]} /\ nextResponse' = nextResponse
        /\ capacity' = [capacity EXCEPT ![task[w].s] = Grown(@, task[w].ticket)]
    BY <1>3 DEF Store
  <2>2. task[w].s # s /\ ~Locked(s)
    BY <2>1 DEF Locked
  <2>3. capacity'[s] = capacity[s]
    BY <2>1, <2>2 DEF TicketTypes
  <2> QED
    BY <1>0, <2>1, <2>2, <2>3 DEF Due
<1>4. ASSUME NEW w \in Workers, StoreFails(w) PROVE Due(s)' = {}
  <2>1. /\ pc[w] = "send" /\ pending' = pending /\ nextResponse' = nextResponse
        /\ \A v \in Workers : v # w => pc'[v] = pc[v] /\ task'[v] = task[v]
    BY <1>4 DEF StoreFails, AfterSend, Idle
  <2>2. ~Locked(s)
    BY <2>1 DEF Locked
  <2>3. CASE UNCHANGED capacity
    BY <1>0, <2>1, <2>2, <2>3 DEF Due
  <2>4. CASE /\ capacity' = [capacity EXCEPT ![task[w].s] = Grown(@, task[w].ticket)]
             /\ pc' = [pc EXCEPT ![w] = "drain"] /\ UNCHANGED task
    <3>1. task[w].s # s
      BY <2>4 DEF Locked
    <3>2. capacity'[s] = capacity[s]
      BY <2>4, <3>1 DEF TicketTypes
    <3> QED
      BY <1>0, <2>1, <2>2, <3>2 DEF Due
  <2> QED
    BY <1>4, <2>3, <2>4 DEF StoreFails
<1>5. ASSUME NEW w \in Workers, DrainWrite(w) PROVE Due(s)' = {}
  <2>1. UNCHANGED <<pc, task, capacity>> /\ pc[w] = "drain"
    BY <1>5 DEF DrainWrite
  <2>2. ~Locked(s) /\ task[w].s # s
    BY <2>1 DEF Locked
  <2>3. PICK r \in Due(task[w].s) :
           \/ fault' = "SIGPIPE"
           \/ /\ pending' = pending \ {r}
              /\ nextResponse' = [nextResponse EXCEPT ![r.s] = @ + 1]
    BY <1>5 DEF DrainWrite
  <2>4. pending' = pending \ {r} /\ nextResponse' = [nextResponse EXCEPT ![r.s] = @ + 1]
    BY <2>3 DEF Running
  <2>5. r.s # s
    BY <2>2 DEF Due
  <2>6. nextResponse'[s] = nextResponse[s]
    BY <2>4, <2>5 DEF TicketTypes
  <2> QED
    BY <1>0, <2>1, <2>2, <2>4, <2>6, DueKept
<1>6. ASSUME NEW w \in Workers, DrainDone(w) PROVE Due(s)' = {}
  <2>1. /\ UNCHANGED <<pending, nextResponse, capacity>> /\ Due(task[w].s) = {}
        /\ \A v \in Workers : v # w => pc'[v] = pc[v] /\ task'[v] = task[v]
    BY <1>6 DEF DrainDone, AfterSend, Idle
  <2>2. task[w].s # s => ~Locked(s)
    BY <2>1 DEF Locked
  <2>3. Due(s) = {}
    BY <1>0, <2>1, <2>2
  <2> QED
    BY <2>1, <2>3 DEF Due
<1>7. CASE UNCHANGED vars
  BY <1>1, <1>7 DEF vars
<1> QED
  BY <1>1, <1>2, <1>3, <1>4, <1>5, <1>6, <1>7, PendingTouched

(* Outside the critical section the response a session waits for is never  *)
(* in its table: no interleaving of the workers that store and write       *)
(* leaves a response behind.                                               *)
THEOREM NothingLeftBehind == Spec => []DrainComplete
<1>1. Init => DrainComplete
  BY DEF Init, DrainComplete, Due
<1> QED
  BY <1>1, TypeCorrect, DrainStep, PTL DEF Spec

-------------------------------------------------------------------------------
(* The table of sessions *)

Listed == {s \in Sessions : life[s] \in {"active", "inactive"}}

Unique == \A i, j \in 1 .. count : i # j => slots[i] # slots[j]

(* Sessions only end, except when one is accepted or freed. *)
LEMMA TableTouched ==
  ASSUME TypeOK, [Next]_vars
  PROVE  \/ \E s \in Sessions : MainAccept(s)
         \/ MainCleanup
         \/ UNCHANGED <<slots, count>> /\ Listed' = Listed
<1> USE DEF TypeOK, SessionTypes, clientVars, sessionVars, ticketVars, poolVars, mainVars
<1>1. CASE UNCHANGED <<slots, count, life>>
  BY <1>1 DEF Listed
<1>2. ASSUME NEW S, life' = Disconnected(S) PROVE Listed' = Listed
  BY <1>2 DEF Listed, Disconnected
<1>3. ASSUME NEW s \in Sessions, MainAcceptFails(s)
      PROVE  UNCHANGED <<slots, count>> /\ Listed' = Listed
  BY <1>2, <1>3 DEF MainAcceptFails
<1>4. ASSUME NEW i \in ready, MainReadEnd(i)
      PROVE  UNCHANGED <<slots, count>> /\ Listed' = Listed
  BY <1>2, <1>4 DEF MainReadEnd
<1>5. ASSUME NEW w \in Workers, Disconnect(w)
      PROVE  UNCHANGED <<slots, count>> /\ Listed' = Listed
  BY <1>2, <1>5 DEF Disconnect
<1>6. ASSUME NEW s \in Sessions, NEW k \in Kinds, Send(s, k)
      PROVE  UNCHANGED <<slots, count, life>>
  BY <1>6 DEF Send
<1>7. ASSUME NEW s \in Sessions, Leave(s) PROVE UNCHANGED <<slots, count, life>>
  BY <1>7 DEF Leave
<1>8. MainIdle \/ MainPoll \/ MainPush => UNCHANGED <<slots, count, life>>
  BY DEF MainIdle, MainPoll, MainPush
<1>9. ASSUME NEW i \in ready, MainRead(i) \/ MainReadFails(i) \/ MainReadFreed(i)
      PROVE  UNCHANGED <<slots, count, life>>
  BY <1>9 DEF MainRead, MainReadFails, MainReadFreed
<1>10. ASSUME NEW w \in Workers,
              \/ Pop(w) \/ Execute(w) \/ Store(w) \/ StoreFails(w)
              \/ DrainWrite(w) \/ DrainDone(w) \/ WorkerUsesFreed(w)
       PROVE  UNCHANGED <<slots, count, life>>
  BY <1>10 DEF Pop, Execute, Store, StoreFails, DrainWrite, DrainDone, WorkerUsesFreed
<1>11. CASE UNCHANGED vars
  BY <1>1, <1>11 DEF vars
<1> QED
  BY <1>1, <1>3, <1>4, <1>5, <1>6, <1>7, <1>8, <1>9, <1>10, <1>11
     DEF Next, MainLoop, Worker

LEMMA TableStep ==
  ASSUME TypeOK, TypeOK', RepliesNumbered, TableSound, [Next]_vars
  PROVE  TableSound'
<1>0. /\ slots \in Seq(Sessions) /\ Len(slots) \in Nat /\ count \in 0 .. Len(slots)
      /\ DOMAIN slots = 1 .. Len(slots)
      /\ life \in [Sessions -> {"none", "active", "inactive", "freed"}]
      /\ Unique /\ Table = Listed
  BY LenProperties DEF TypeOK, SessionTypes, TableSound, Unique, Listed
<1>1. CASE UNCHANGED <<slots, count>> /\ Listed' = Listed
  BY <1>1 DEF TableSound, Listed, Table
<1>2. ASSUME NEW s \in Sessions, MainAccept(s) PROVE TableSound'
  <2>1. life[s] = "none"
    BY <1>2 DEF MainAccept, RepliesNumbered
  <2>2. slots' = Append(SubSeq(slots, 1, count), s) /\ count' = count + 1
    BY <1>2 DEF MainAccept
  <2>3. /\ count' \in Nat /\ \A i \in 1 .. count : slots'[i] = slots[i]
        /\ slots'[count + 1] = s
    <3>1. \A i \in 1 .. count : slots[i] \in Sessions
      BY <1>0, ElementOfSeq
    <3>2. /\ SubSeq(slots, 1, count) \in Seq(Sessions)
          /\ Len(SubSeq(slots, 1, count)) = count
          /\ \A i \in 1 .. count : SubSeq(slots, 1, count)[i] = slots[i]
      BY <1>0, <3>1, SubSeqProperties
    <3> QED
      BY <1>0, <2>2, <3>2, AppendProperties
  <2>4. s \notin Table
    BY <1>0, <2>1 DEF Listed
  <2>5. \A i \in 1 .. count' : i \in 1 .. count \/ i = count + 1
    BY <1>0, <2>2
  <2>6. Unique'
    BY <1>0, <2>3, <2>4, <2>5 DEF Unique, Table
  <2>7. Table' = Table \union {s}
    BY <1>0, <2>2, <2>3, <2>5 DEF Table
  <2>8. Listed' = Listed \union {s}
    BY <1>0, <1>2 DEF MainAccept, Listed, Disconnected
  <2> QED
    BY <1>0, <2>6, <2>7, <2>8 DEF TableSound, Unique, Listed
<1>3. CASE MainCleanup
  <2>1. PICK n \in 0 .. count : \E from \in [1 .. n -> 1 .. count] :
           /\ \A j, k \in 1 .. n : j < k => from[j] < from[k]
           /\ {from[j] : j \in 1 .. n} = {i \in 1 .. count : life[slots[i]] = "active"}
           /\ slots' = [j \in DOMAIN slots |-> IF j <= n THEN slots[from[j]] ELSE slots[j]]
           /\ count' = n
    BY <1>3 DEF MainCleanup
  <2>2. PICK from \in [1 .. n -> 1 .. count] :
           /\ \A j, k \in 1 .. n : j < k => from[j] < from[k]
           /\ {from[j] : j \in 1 .. n} = {i \in 1 .. count : life[slots[i]] = "active"}
           /\ slots' = [j \in DOMAIN slots |-> IF j <= n THEN slots[from[j]] ELSE slots[j]]
           /\ count' = n
    BY <2>1
  <2>3. /\ n \in Nat /\ 1 .. n \subseteq DOMAIN slots
        /\ \A j \in 1 .. n : slots'[j] = slots[from[j]] /\ from[j] \in 1 .. count
    BY <1>0, <2>2
  <2>4. Unique'
    <3>1. \A j, k \in 1 .. n : j # k => from[j] # from[k]
      BY <2>2, <2>3
    <3> QED
      BY <1>0, <2>2, <2>3, <3>1 DEF Unique
  <2>5. Table' = {s \in Table : life[s] = "active"}
    <3>1. Table' = {slots'[j] : j \in 1 .. n}
      BY <2>2 DEF Table
    <3>2. ASSUME NEW j \in 1 .. n PROVE slots'[j] \in Table /\ life[slots'[j]] = "active"
      <4>1. from[j] \in {i \in 1 .. count : life[slots[i]] = "active"}
        BY <2>2
      <4> QED
        BY <2>3, <4>1 DEF Table
    <3>3. ASSUME NEW s \in Table, life[s] = "active" PROVE s \in {slots'[j] : j \in 1 .. n}
      <4>1. PICK i \in 1 .. count : s = slots[i]
        BY DEF Table
      <4>2. i \in {from[j] : j \in 1 .. n}
        BY <2>2, <3>3, <4>1
      <4> QED
        BY <2>3, <4>1, <4>2
    <3> QED
      BY <3>1, <3>2, <3>3
  <2>6. life' = [s \in Sessions |->
                   IF s \in Table /\ life[s] = "inactive" THEN "freed" ELSE life[s]]
    BY <1>3 DEF MainCleanup
  <2>7. Listed' = {s \in Listed : life[s] = "active"}
    BY <1>0, <2>6 DEF Listed
  <2> QED
    BY <1>0, <2>4, <2>5, <2>7 DEF TableSound, Unique, Listed
<1> QED
  BY <1>1, <1>2, <1>3, TableTouched

(* The main loop polls every active session and frees every inactive one:  *)
(* appending, disconnecting and compacting keep the table exact.           *)
THEOREM TableExact == Spec => []TableSound
<1>1. Init => TableSound
  BY DEF Init, TableSound, Table
<1>2. PipelineInv => RepliesNumbered
  BY DEF PipelineInv
<1> QED
  BY <1>1, <1>2, TypeCorrect, PipelineInvariant, TableStep, PTL DEF Spec

===============================================================================
