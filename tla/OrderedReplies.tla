---------------------------- MODULE OrderedReplies ----------------------------
(***************************************************************************)
(* What a client of animate_server is promised, whatever the size of the   *)
(* worker pool: the k-th reply written to its FIFO answers the k-th        *)
(* command line it sent.  A connection may end at any time, after which    *)
(* the remaining requests are simply never answered.                       *)
(*                                                                         *)
(* SessionPipeline implements this with tickets, a shared queue, a pool of *)
(* workers and a table of pending responses.                               *)
(***************************************************************************)
EXTENDS Naturals, Sequences

CONSTANT Sessions    \* the connections

VARIABLES
  requests,          \* requests[s]: how many lines the client of s has sent
  replies            \* replies[s]: the requests answered so far, in reply order

Init ==
  /\ requests = [s \in Sessions |-> 0]
  /\ replies  = [s \in Sessions |-> <<>>]

(* The client of s sends one more line. *)
Submit(s) ==
  /\ requests' = [requests EXCEPT ![s] = @ + 1]
  /\ UNCHANGED replies

(* The oldest unanswered request of s is answered. *)
Reply(s) ==
  /\ Len(replies[s]) < requests[s]
  /\ replies' = [replies EXCEPT ![s] = Append(@, Len(@) + 1)]
  /\ UNCHANGED requests

Next == \E s \in Sessions : Submit(s) \/ Reply(s)

Spec == Init /\ [][Next]_<<requests, replies>>

===============================================================================
