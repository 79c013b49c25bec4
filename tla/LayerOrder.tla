------------------------------ MODULE LayerOrder ------------------------------
(* What libanimate promises of the layers of a canvas: the placements of a *)
(* canvas form a stack, each lies in it once, and every operation moves    *)
(* one placement while the others keep their relative order.  The first    *)
(* element of a stack is the top layer.                                    *)
(*                                                                         *)
(* LayerList implements the stacks by doubly linked lists.                 *)
EXTENDS Naturals, Sequences

CONSTANTS Canvases, Placements

VARIABLE stack       \* stack[c]: the placements of canvas c, top first

(* The stack q after its i-th placement moved. *)
Raised(q, i) ==
  IF i = 1 THEN q ELSE [q EXCEPT ![i - 1] = q[i], ![i] = q[i - 1]]
Lowered(q, i) ==
  IF i = Len(q) THEN q ELSE [q EXCEPT ![i] = q[i + 1], ![i + 1] = q[i]]
ToTop(q, i) ==
  [j \in 1 .. Len(q) |-> IF j = 1 THEN q[i] ELSE IF j <= i THEN q[j - 1] ELSE q[j]]
ToBottom(q, i) ==
  [j \in 1 .. Len(q) |-> IF j = Len(q) THEN q[i] ELSE IF j < i THEN q[j] ELSE q[j + 1]]

(* The stack q with p on top, and without its i-th placement. *)
OnTop(q, p) == [j \in 1 .. Len(q) + 1 |-> IF j = 1 THEN p ELSE q[j - 1]]
Without(q, i) == [j \in 1 .. Len(q) - 1 |-> IF j < i THEN q[j] ELSE q[j + 1]]

Placed(c) == {stack[c][i] : i \in DOMAIN stack[c]}

Replace(c, q) == stack' = [stack EXCEPT ![c] = q]

Place(c, p) == /\ \A d \in Canvases : p \notin Placed(d)
               /\ Replace(c, OnTop(stack[c], p))
Up(c, i)     == i \in DOMAIN stack[c] /\ Replace(c, Raised(stack[c], i))
Down(c, i)   == i \in DOMAIN stack[c] /\ Replace(c, Lowered(stack[c], i))
Top(c, i)    == i \in DOMAIN stack[c] /\ Replace(c, ToTop(stack[c], i))
Bottom(c, i) == i \in DOMAIN stack[c] /\ Replace(c, ToBottom(stack[c], i))
Remove(c, i) == i \in DOMAIN stack[c] /\ Replace(c, Without(stack[c], i))
Clear(c)     == Replace(c, <<>>)

Init == stack = [c \in Canvases |-> <<>>]

Next ==
  \E c \in Canvases :
     \/ \E p \in Placements : Place(c, p)
     \/ \E i \in DOMAIN stack[c] :
           Up(c, i) \/ Down(c, i) \/ Top(c, i) \/ Bottom(c, i) \/ Remove(c, i)
     \/ Clear(c)

Spec == Init /\ [][Next]_stack

===============================================================================
