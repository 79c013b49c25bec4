------------------------------ MODULE ClientLink ------------------------------
(* The way of a line from a client to the work queue: Connection, then     *)
(* writes to FIFO_C2S, which the main loop polls, reads and cuts into      *)
(* lines as Framing says.  One thread does both, so nobody's lines are     *)
(* read while somebody connects.                                           *)
EXTENDS Connection, Framing

CONSTANTS
  BufSize,       \* sizeof(read_buf), 512 in the code
  LineLengths,   \* the lengths of line the clients of this instance write
  MaxWrites      \* bound: lines of one client

ASSUME LinkAssumption ==
  /\ BufSize \in Nat \ {0, 1} /\ LineLengths \subseteq Nat /\ MaxWrites \in Nat

VARIABLES
  wire,          \* wire[c]: the bytes in FIFO_C2S
  buf,           \* buf[c]: read_buf, up to read_len
  cut,           \* cut[c]: the lines that were queued
  written,       \* history: written[c]: the lines that c wrote
  ready          \* the sessions that poll reported and are still to be read

lineVars == <<wire, buf, cut, written, ready>>
vars == <<connVars, lineVars>>

(* The n-th line of a client is n repeated, so that no two are alike. *)
Text(n, len) == [i \in 1 .. len |-> n]

-------------------------------------------------------------------------------
(* A write is atomic.  Whoever waits for replies has one line on the way,  *)
(* but this is any program that writes lines.                              *)
Write(c) ==
  /\ proc[c] = "connected" /\ link[c] # "closed" /\ Len(written[c]) < MaxWrites
  /\ \E len \in LineLengths :
        LET line == Text(Len(written[c]) + 1, len)
        IN  /\ wire' = [wire EXCEPT ![c] = @ \o line \o <<Nl>>]
            /\ written' = [written EXCEPT ![c] = Append(@, line)]
  /\ UNCHANGED <<connVars, buf, cut, ready>>

(* The main loop at its head polls if no client asks; after an accept it   *)
(* polls in any case.                                                      *)
Poll ==
  /\ mpc = "poll" \/ (mpc = "head" /\ ~requested)
  /\ LET R == {c \in Clients : link[c] = "whole" /\ wire[c] # <<>>}
     IN  ready' = R /\ mpc' = IF R = {} THEN "head" ELSE "read"
  /\ UNCHANGED <<proc, got, signals, serving, reader, sessions, link, mishap,
                 wire, buf, cut, written>>

(* A read for 0 bytes returns 0, which is taken for the end of the file:   *)
(* the client is disconnected.  A plausible slip: it is taken for nothing. *)
ReadNothing_Ignored(c) == UNCHANGED <<link, cut, buf, wire>>
ReadNothing(c) == link' = [link EXCEPT ![c] = "closed"] /\ UNCHANGED <<cut, buf, wire>>

(* One read and the loop that cuts and queues. *)
Read(c) ==
  /\ mpc = "read" /\ c \in ready
  /\ ready' = ready \ {c}
  /\ mpc' = IF ready' = {} THEN "head" ELSE "read"
  /\ IF Space(buf[c], BufSize) > 0
     THEN LET b == buf[c] \o Taken(buf[c], wire[c], BufSize)
          IN  /\ cut' = [cut EXCEPT ![c] = @ \o Lines(b)]
              /\ buf' = [buf EXCEPT ![c] = Rest(b)]
              /\ wire' = [wire EXCEPT ![c] = Left(buf[c], @, BufSize)]
              /\ UNCHANGED link
     ELSE ReadNothing(c)
  /\ UNCHANGED <<proc, got, signals, serving, reader, sessions, mishap, written>>

-------------------------------------------------------------------------------
Main == (Accept /\ UNCHANGED lineVars) \/ Poll \/ \E c \in Clients : Read(c)

Init ==
  /\ ConnInit
  /\ wire = [c \in Clients |-> <<>>] /\ buf = [c \in Clients |-> <<>>]
  /\ cut = [c \in Clients |-> <<>>] /\ written = [c \in Clients |-> <<>>]
  /\ ready = {}

Next ==
  \/ \E c \in Clients :
        \/ (Ask(c) \/ Waits(c) \/ Exit(c) \/ Deliver(c) \/ HandlerEnd(c)) /\ UNCHANGED lineVars
        \/ Write(c)
  \/ Main

Spec == Init /\ [][Next]_vars

(* The main loop runs on, a signal is delivered and its handler ends, and  *)
(* a client that waits goes on when it can.                                *)
FairSpec ==
  /\ Spec /\ WF_vars(Main)
  /\ \A c \in Clients : /\ WF_vars(Waits(c) /\ UNCHANGED lineVars)
                        /\ WF_vars(Deliver(c) /\ UNCHANGED lineVars)
                        /\ WF_vars(HandlerEnd(c) /\ UNCHANGED lineVars)

-------------------------------------------------------------------------------
(* What holds of a connection *)

Bytes == 0 .. MaxWrites

TypeOK ==
  /\ proc \in [Clients -> Procs] /\ got \in [Clients -> BOOLEAN]
  /\ {sigPending, pid, serving} \subseteq Clients \union {None}
  /\ handling \subseteq Clients /\ requested \in BOOLEAN
  /\ mpc \in Steps
  /\ reader \in [Clients -> BOOLEAN] /\ sessions \in [Clients -> Nat]
  /\ link \in [Clients -> Links] /\ mishap \in [Clients -> SUBSET Mishaps]
  /\ wire \in [Clients -> Seq(Bytes)] /\ buf \in [Clients -> Seq(Bytes)]
  /\ \A c \in Clients : Len(buf[c]) < BufSize
  /\ cut \in [Clients -> Seq(Seq(Bytes))] /\ written \in [Clients -> Seq(Seq(Bytes))]
  /\ ready \subseteq Clients

(* A client whose request no other request met gets one session and no     *)
(* second, with both FIFOs unless its open was interrupted; and a client   *)
(* that believes itself connected has one, or is just given it.            *)
OneSessionEach ==
  \A c \in Clients :
     /\ "met" \notin mishap[c] =>
          /\ sessions[c] <= 1
          /\ serving = c /\ mpc \notin {"head", "poll", "read"} => sessions[c] = 0
          /\ link[c] = "half" => "interrupted" \in mishap[c]
     /\ proc[c] = "connected" =>
          link[c] \in {"whole", "closed"} \/ (serving = c /\ mpc = "add")

(* A line of c that does not fit into read_buf with its newline. *)
TooLong(c) == \E i \in DOMAIN written[c] : Len(written[c][i]) >= BufSize - 1

(* The lines queued for a session are the lines its client wrote, empty    *)
(* ones left out, whole and in order, however reads cut the bytes; all of  *)
(* them once everything is read; and only a line that does not fit the     *)
(* buffer with its newline ends a session whose client is there.           *)
LinesFramed ==
  \A c \in Clients :
     LET lines == Queued(written[c])
     IN  /\ IsPrefix(cut[c], lines)
         /\ wire[c] = <<>> /\ link[c] = "whole" => cut[c] = lines /\ buf[c] = <<>>
         /\ link[c] = "closed" /\ proc[c] = "connected" => TooLong(c)

(* Why: scanning what is on the wire, on from where the last read ended,   *)
(* would give the lines that were written and leave nothing; read_buf has  *)
(* no newline in it; and a session is closed for one of two reasons.       *)
FramingInv ==
  \A c \in Clients :
     /\ Scan(Scanned(cut[c], buf[c]), wire[c]) = Scanned(Queued(written[c]), <<>>)
     /\ \A i \in DOMAIN buf[c] : buf[c][i] # Nl
     /\ link[c] = "closed" => proc[c] = "gone" \/ TooLong(c)

(* A client that asks is connected, unless its signal is lost, either    *)
(* open is interrupted, SIGUSR2 falls between its test and its pause, it   *)
(* exits, or the main loop waits for somebody who never comes.             *)
Connects ==
  \A c \in Clients :
     proc[c] = "asked" ~> \/ proc[c] \in {"connected", "broken", "gone"}
                          \/ mishap[c] \intersect {"lost", "interrupted", "missed"} # {}
                          \/ Stuck

(* Every line a client writes is read, whoever connects meanwhile, unless  *)
(* its session ends or the main loop is stuck in a handshake.              *)
LinesArrive ==
  \A c \in Clients :
     wire[c] # <<>> ~> wire[c] = <<>> \/ link[c] = "closed" \/ Stuck

===============================================================================
