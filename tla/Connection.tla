------------------------------- MODULE Connection -----------------------------
(* How a client gets its session: it signals the server with SIGUSR1 and   *)
(* waits in pause; the main loop makes two FIFOs, answers with SIGUSR2 and *)
(* opens them; the client opens them too.  FIFO_C2S carries lines to the   *)
(* server, FIFO_S2C replies to the client.                                 *)
(*                                                                         *)
(* A signal that is sent while one of its kind is pending is dropped with  *)
(* its pid.  SIGUSR1 may be handled on the main thread, which interrupts a *)
(* blocking open there (the handler is installed without SA_RESTART), or   *)
(* on a worker, while the main thread goes on between the two assignments  *)
(* of the handler.                                                         *)
(*                                                                         *)
(* What comes after the session is added is the matter of ClientLink and,  *)
(* for tickets, of SessionPipeline, which also has the failing allocations.*)
EXTENDS Naturals, FiniteSets

CONSTANTS
  Clients,       \* client processes; each connects once
  None           \* no client

ASSUME ConnectionAssumption == None \notin Clients

VARIABLES
  proc,          \* proc[c]: where the client is, see Procs
  got,           \* got[c]: recieved_signal
  sigPending,    \* the client whose SIGUSR1 is pending at the server, or None
  handling,      \* clients whose SIGUSR1 is between the assignments of its handler
  pid,           \* pending_client_pid
  requested,     \* client_requested
  mpc,           \* the next step of the main loop, see Steps
  serving,       \* client_pid
  reader,        \* reader[c]: the server has the newest FIFO_C2S of c open
  sessions,      \* sessions[c]: the sessions added for c so far
  link,          \* link[c]: the state of the session that c uses, see Links
  mishap         \* history: what went wrong with the handshake of c, see Mishaps

signals == <<sigPending, handling, pid, requested>>
connVars == <<proc, got, signals, mpc, serving, reader, sessions, link, mishap>>

(* A client: not started, about to test recieved_signal, between the test  *)
(* and pause, in pause, at either open, connected, running with a bad      *)
(* descriptor, exited.                                                     *)
Procs == {"new", "asked", "pausing", "paused", "opening_c2s", "opening_s2c",
          "connected", "broken", "gone"}

(* The main loop: at its head, having read the pid, before mkfifo, at      *)
(* either open, before adding a session with or without a FIFO_S2C, before *)
(* poll, reading.                                                          *)
Steps == {"head", "reset", "prepare", "open_c2s", "open_s2c", "add", "add_half",
          "poll", "read"}

(* No session, one with both FIFOs, one whose FIFO_S2C could not be        *)
(* opened, one that was disconnected.                                      *)
Links == {"none", "whole", "half", "closed"}

(* Another request was under way with that of c; its signal or its pid was *)
(* lost; the open of its FIFO_S2C was interrupted; SIGUSR2 came between    *)
(* the test and pause.                                                     *)
Mishaps == {"met", "lost", "interrupted", "missed"}

With(f, C, m) == [c \in Clients |-> IF c \in C THEN f[c] \union {m} ELSE f[c]]
Befalls(C, m) == mishap' = With(mishap, C, m)

(* The main loop has not come to d. *)
Awaited(d) ==
  d # None /\ sessions[d] = 0 /\ (serving = d => mpc \in {"head", "poll", "read"})

-------------------------------------------------------------------------------
(* The client *)

(* A request of d that the main loop has not yet taken, or just takes. *)
UnderWay(d) == \/ sigPending = d \/ d \in handling \/ (requested /\ pid = d)
               \/ (mpc = "reset" /\ serving = d)

(* SIGUSR2 is caught from here on, and SIGUSR1 is sent. *)
Ask(c) ==
  /\ proc[c] = "new"
  /\ proc' = [proc EXCEPT ![c] = "asked"]
  /\ sigPending' = IF sigPending = None THEN c ELSE sigPending
  /\ LET D == {d \in Clients : UnderWay(d)}
     IN  mishap' = With(With(mishap, IF D = {} THEN {} ELSE D \union {c}, "met"),
                        IF sigPending = None THEN {} ELSE {c}, "lost")
  /\ UNCHANGED <<got, handling, pid, requested, mpc, serving, reader, sessions, link>>

(* while (!recieved_signal) pause(); *)
Test(c) ==
  /\ proc[c] = "asked"
  /\ proc' = [proc EXCEPT ![c] = IF got[c] THEN "opening_c2s" ELSE "pausing"]
  /\ UNCHANGED <<got, signals, mpc, serving, reader, sessions, link, mishap>>

Pause(c) ==
  /\ proc[c] = "pausing"
  /\ proc' = [proc EXCEPT ![c] = "paused"]
  /\ Befalls(IF got[c] THEN {c} ELSE {}, "missed")
  /\ UNCHANGED <<got, signals, mpc, serving, reader, sessions, link>>

(* open(O_WRONLY) waits for a reader. *)
ClientOpenC2S(c) ==
  /\ proc[c] = "opening_c2s" /\ reader[c]
  /\ proc' = [proc EXCEPT ![c] = "opening_s2c"]
  /\ UNCHANGED <<got, signals, mpc, serving, reader, sessions, link, mishap>>

(* Disconnect, the end of its input, or a signal that kills it. *)
Exit(c) ==
  /\ proc[c] \notin {"new", "gone"}
  /\ proc' = [proc EXCEPT ![c] = "gone"]
  /\ UNCHANGED <<got, signals, mpc, serving, reader, sessions, link, mishap>>

-------------------------------------------------------------------------------
(* SIGUSR1 at the server: handle_sigusr1 *)

(* Nobody will look for the pid that is overwritten. *)
Overwritten(c) == {d \in {pid} \ {c} : Awaited(d)}

DeliverToWorker(c) ==
  /\ sigPending = c
  /\ sigPending' = None
  /\ pid' = c
  /\ handling' = handling \union {c}
  /\ Befalls(Overwritten(c), "lost")
  /\ UNCHANGED <<proc, got, requested, mpc, serving, reader, sessions, link>>

HandlerEnd(c) ==
  /\ c \in handling
  /\ handling' = handling \ {c}
  /\ requested' = TRUE
  /\ UNCHANGED <<proc, got, sigPending, pid, mpc, serving, reader, sessions, link, mishap>>

(* open(O_WRONLY) returns -1 with EINTR, and the main loop goes on. *)
DeliverToMain(c) ==
  /\ sigPending = c
  /\ sigPending' = None
  /\ pid' = c
  /\ requested' = TRUE
  /\ mpc' = IF mpc = "open_s2c" THEN "add_half" ELSE mpc
  /\ mishap' = With(With(mishap, Overwritten(c), "lost"),
                    IF mpc = "open_s2c" THEN {serving} ELSE {}, "interrupted")
  /\ UNCHANGED <<proc, got, handling, serving, reader, sessions, link>>

-------------------------------------------------------------------------------
(* The main loop *)

TakePid ==
  /\ mpc = "head" /\ requested
  /\ serving' = pid
  /\ mpc' = "reset"
  /\ UNCHANGED <<proc, got, signals, reader, sessions, link, mishap>>

(* A plausible slip: client_requested stays set. *)
Reset_Forgotten ==
  /\ mpc = "reset"
  /\ mpc' = "prepare"
  /\ UNCHANGED <<proc, got, signals, serving, reader, sessions, link, mishap>>

(* A request that was handled since the pid was read is lost. *)
Reset ==
  /\ mpc = "reset"
  /\ requested' = FALSE
  /\ mpc' = "prepare"
  /\ Befalls(IF handling = {} /\ Awaited(pid) THEN {pid} ELSE {}, "lost")
  /\ UNCHANGED <<proc, got, sigPending, handling, pid, serving, reader, sessions, link>>

(* Where SIGUSR2 leaves a client.  A client served twice may be            *)
(* interrupted in a read and exit, or in its second open.                  *)
Signalled(p) ==
  CASE p = "paused"      -> {"asked"}
    [] p = "opening_s2c" -> {"broken"}
    [] p = "connected"   -> {"connected", "gone"}
    [] OTHER             -> {p}

(* FIFOs left over are removed and new ones made before SIGUSR2 is sent. *)
Prepare ==
  /\ mpc = "prepare"
  /\ \E p \in Signalled(proc[serving]) : proc' = [proc EXCEPT ![serving] = p]
  /\ got' = [got EXCEPT ![serving] = TRUE]
  /\ reader' = [reader EXCEPT ![serving] = FALSE]
  /\ mpc' = "open_c2s"
  /\ UNCHANGED <<signals, serving, sessions, link, mishap>>

(* A plausible slip: FIFO_S2C is opened first. *)
ServerOpenC2S_Later ==
  /\ mpc = "open_c2s"
  /\ mpc' = "open_s2c"
  /\ UNCHANGED <<proc, got, signals, serving, reader, sessions, link, mishap>>

(* open(O_RDONLY | O_NONBLOCK) does not wait for the client. *)
ServerOpenC2S ==
  /\ mpc = "open_c2s"
  /\ reader' = [reader EXCEPT ![serving] = TRUE]
  /\ mpc' = "open_s2c"
  /\ UNCHANGED <<proc, got, signals, serving, sessions, link, mishap>>

(* open(O_WRONLY) of the server and open(O_RDONLY) of the client wait for  *)
(* each other.                                                             *)
OpenS2C ==
  /\ mpc = "open_s2c" /\ proc[serving] = "opening_s2c"
  /\ proc' = [proc EXCEPT ![serving] = "connected"]
  /\ mpc' = "add"
  /\ UNCHANGED <<got, signals, serving, reader, sessions, link, mishap>>

(* The session is added; those of clients that have exited are             *)
(* disconnected, if somebody has waited for the processes.  A client that  *)
(* has its FIFOs open does not see a second session.                       *)
AddSession ==
  /\ mpc \in {"add", "add_half"}
  /\ sessions' = [sessions EXCEPT ![serving] = @ + 1]
  /\ \E reaped \in SUBSET {d \in Clients : proc[d] = "gone"} :
        link' = [d \in Clients |->
                   IF d = serving /\ link[d] \notin {"whole", "closed"}
                   THEN IF mpc = "add" THEN "whole" ELSE "half"
                   ELSE IF d \in reaped /\ link[d] # "none" THEN "closed"
                   ELSE link[d]]
  /\ mpc' = "poll"
  /\ UNCHANGED <<proc, got, signals, serving, reader, mishap>>

-------------------------------------------------------------------------------
ConnInit ==
  /\ proc = [c \in Clients |-> "new"] /\ got = [c \in Clients |-> FALSE]
  /\ sigPending = None /\ handling = {} /\ pid = None /\ requested = FALSE
  /\ mpc = "head" /\ serving = None
  /\ reader = [c \in Clients |-> FALSE]
  /\ sessions = [c \in Clients |-> 0] /\ link = [c \in Clients |-> "none"]
  /\ mishap = [c \in Clients |-> {}]

(* What a running client, a signal and the main loop do without a choice. *)
Waits(c)   == Test(c) \/ Pause(c) \/ ClientOpenC2S(c)
Deliver(c) == DeliverToWorker(c) \/ DeliverToMain(c)
Accept     == TakePid \/ Reset \/ Prepare \/ ServerOpenC2S \/ OpenS2C \/ AddSession

(* The main loop waits for a client that will never open its FIFO_S2C. *)
Stuck ==
  /\ mpc = "open_s2c"
  /\ \/ proc[serving] \in {"connected", "broken", "gone"}
     \/ proc[serving] = "paused" /\ got[serving]

===============================================================================
