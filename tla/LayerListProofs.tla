--------------------------- MODULE LayerListProofs ----------------------------
(* Theorems of LayerList, for any number of canvases, placements, sprites  *)
(* and calls.                                                              *)
EXTENDS LayerList, SequenceTheorems, FiniteSetTheorems, WellFoundedInduction, TLAPS

(* A function on 1 .. n is a sequence of length n. *)
LEMMA SeqOfLength ==
  ASSUME NEW S, NEW n \in Nat, NEW f \in [1 .. n -> S]
  PROVE  f \in Seq(S) /\ Len(f) = n
  OBVIOUS

-------------------------------------------------------------------------------
(* The stacks after an operation *)

LEMMA RaisedStack ==
  ASSUME NEW S, NEW q \in Seq(S), NEW i \in 2 .. Len(q)
  PROVE  /\ Order!Raised(q, i) \in Seq(S) /\ Len(Order!Raised(q, i)) = Len(q)
         /\ \A j \in 1 .. Len(q) :
               Order!Raised(q, i)[j] =
                 IF j = i - 1 THEN q[i] ELSE IF j = i THEN q[i - 1] ELSE q[j]
<1>1. Len(q) \in Nat /\ q \in [1 .. Len(q) -> S] /\ i - 1 \in 1 .. Len(q) /\ i \in 1 .. Len(q)
  BY LenProperties
<1>2. Order!Raised(q, i) = [q EXCEPT ![i - 1] = q[i], ![i] = q[i - 1]]
  BY DEF Order!Raised
<1> QED
  BY <1>1, <1>2, SeqOfLength

LEMMA LoweredStack ==
  ASSUME NEW S, NEW q \in Seq(S), NEW i \in 1 .. Len(q), i # Len(q)
  PROVE  /\ Order!Lowered(q, i) \in Seq(S) /\ Len(Order!Lowered(q, i)) = Len(q)
         /\ \A j \in 1 .. Len(q) :
               Order!Lowered(q, i)[j] =
                 IF j = i THEN q[i + 1] ELSE IF j = i + 1 THEN q[i] ELSE q[j]
<1>1. Len(q) \in Nat /\ q \in [1 .. Len(q) -> S] /\ i + 1 \in 1 .. Len(q)
  BY LenProperties
<1>2. Order!Lowered(q, i) = [q EXCEPT ![i] = q[i + 1], ![i + 1] = q[i]]
  BY DEF Order!Lowered
<1> QED
  BY <1>1, <1>2, SeqOfLength

LEMMA ToTopStack ==
  ASSUME NEW S, NEW q \in Seq(S), NEW i \in 1 .. Len(q)
  PROVE  /\ Order!ToTop(q, i) \in Seq(S) /\ Len(Order!ToTop(q, i)) = Len(q)
         /\ \A j \in 1 .. Len(q) :
               Order!ToTop(q, i)[j] =
                 IF j = 1 THEN q[i] ELSE IF j <= i THEN q[j - 1] ELSE q[j]
<1>1. Len(q) \in Nat /\ \A j \in 1 .. Len(q) : q[j] \in S
  BY LenProperties, ElementOfSeq
<1>2. Order!ToTop(q, i) \in [1 .. Len(q) -> S]
  BY <1>1 DEF Order!ToTop
<1> QED
  BY <1>1, <1>2, SeqOfLength DEF Order!ToTop

LEMMA ToBottomStack ==
  ASSUME NEW S, NEW q \in Seq(S), NEW i \in 1 .. Len(q)
  PROVE  /\ Order!ToBottom(q, i) \in Seq(S) /\ Len(Order!ToBottom(q, i)) = Len(q)
         /\ \A j \in 1 .. Len(q) :
               Order!ToBottom(q, i)[j] =
                 IF j = Len(q) THEN q[i] ELSE IF j < i THEN q[j] ELSE q[j + 1]
<1>1. Len(q) \in Nat /\ \A j \in 1 .. Len(q) : q[j] \in S
  BY LenProperties, ElementOfSeq
<1>2. Order!ToBottom(q, i) \in [1 .. Len(q) -> S]
  BY <1>1 DEF Order!ToBottom
<1> QED
  BY <1>1, <1>2, SeqOfLength DEF Order!ToBottom

LEMMA OnTopStack ==
  ASSUME NEW S, NEW q \in Seq(S), NEW p \in S
  PROVE  /\ Order!OnTop(q, p) \in Seq(S) /\ Len(Order!OnTop(q, p)) = Len(q) + 1
         /\ \A j \in 1 .. Len(q) + 1 :
               Order!OnTop(q, p)[j] = IF j = 1 THEN p ELSE q[j - 1]
<1>1. Len(q) \in Nat /\ \A j \in 1 .. Len(q) : q[j] \in S
  BY LenProperties, ElementOfSeq
<1>2. Order!OnTop(q, p) \in [1 .. Len(q) + 1 -> S]
  BY <1>1 DEF Order!OnTop
<1> QED
  BY <1>1, <1>2, SeqOfLength DEF Order!OnTop

LEMMA WithoutStack ==
  ASSUME NEW S, NEW q \in Seq(S), NEW i \in 1 .. Len(q)
  PROVE  /\ Order!Without(q, i) \in Seq(S) /\ Len(Order!Without(q, i)) = Len(q) - 1
         /\ \A j \in 1 .. Len(q) - 1 :
               Order!Without(q, i)[j] = IF j < i THEN q[j] ELSE q[j + 1]
<1>1. Len(q) \in Nat /\ \A j \in 1 .. Len(q) : q[j] \in S
  BY LenProperties, ElementOfSeq
<1>2. Order!Without(q, i) \in [1 .. Len(q) - 1 -> S]
  BY <1>1 DEF Order!Without
<1> QED
  BY <1>1, <1>2, SeqOfLength DEF Order!Without

-------------------------------------------------------------------------------
(* The lists *)

(* What Linked says of the types of a stack. *)
LEMMA StackTyped ==
  ASSUME TypeOK, NEW c \in Canvases
  PROVE  /\ stack[c] \in Seq(Placements) /\ Len(stack[c]) \in Nat
         /\ DOMAIN stack[c] = 1 .. Len(stack[c])
         /\ \A i \in 1 .. Len(stack[c]) : stack[c][i] \in Placements
  BY LenProperties, ElementOfSeq DEF TypeOK

(* Where a placement is in its list. *)
LEMMA Placed ==
  ASSUME TypeOK, ListIsStack, NEW p \in Live
  PROVE  /\ canvas[p] \in Canvases /\ Linked(canvas[p], stack[canvas[p]])
         /\ \E i \in 1 .. Len(stack[canvas[p]]) : stack[canvas[p]][i] = p
<1>1. canvas[p] \in Canvases /\ p \in Placements
  BY DEF Live, TypeOK
<1> QED
  BY <1>1 DEF ListIsStack, Linked

(* The neighbours of the i-th placement of a list. *)
LEMMA Neighbours ==
  ASSUME TypeOK, NEW c \in Canvases, Linked(c, stack[c]), NEW q, q = stack[c]
  PROVE  /\ q \in Seq(Placements) /\ Len(q) \in Nat
         /\ \A j \in Int : Nth(q, j) \in Placements \union {NULL}
         /\ \A j \in 1 .. Len(q) :
               /\ q[j] \in Placements /\ q[j] # NULL /\ Nth(q, j) = q[j]
               /\ canvas[q[j]] = c
               /\ next[q[j]] = Nth(q, j + 1) /\ previous[q[j]] = Nth(q, j - 1)
         /\ \A j \in Int : j \notin 1 .. Len(q) => Nth(q, j) = NULL
         /\ \A j \in 1 .. Len(q), k \in Int : q[j] = Nth(q, k) => j = k
         /\ \A j \in Int : Nth(q, j) # NULL => canvas[Nth(q, j)] = c
         /\ head[c] = Nth(q, 1) /\ tail[c] = Nth(q, Len(q))
<1>1. \A j \in 1 .. Len(q) : q[j] \in Placements /\ q[j] # NULL
  BY StackTyped, LayerAssumption
<1>2. \A j \in 1 .. Len(q) : Nth(q, j) = q[j]
  BY DEF Nth
<1>3. \A j \in Int : j \notin 1 .. Len(q) => Nth(q, j) = NULL
  BY DEF Nth
<1>4. \A j \in Int : Nth(q, j) \in Placements \union {NULL}
  BY <1>1, <1>2, <1>3
<1>5. ASSUME NEW j \in 1 .. Len(q), NEW k \in Int, q[j] = Nth(q, k)
      PROVE  j = k
  <2>1. k \in 1 .. Len(q)
    BY <1>1, <1>3, <1>5
  <2> QED
    BY <1>2, <1>5, <2>1 DEF Linked
<1>6. \A j \in Int : Nth(q, j) # NULL => canvas[Nth(q, j)] = c
  BY <1>2, <1>3 DEF Linked
<1> QED
  BY <1>1, <1>2, <1>3, <1>4, <1>5, <1>6, StackTyped DEF Linked

LEMMA OnList ==
  ASSUME ListIsStack, NEW c \in Canvases, NEW x \in Placements, canvas[x] = c
  PROVE  \E j \in 1 .. Len(stack[c]) : stack[c][j] = x
<1>1. Linked(c, stack[c])
  BY DEF ListIsStack
<1> QED
  BY <1>1 DEF Linked

(* What has to be shown of a step that changes the stack of one canvas to  *)
(* r: the canvas holds what is on r and the others what they held, and the *)
(* pointers of what is on r are right and those on other canvases as they  *)
(* were.                                                                   *)
Restacked(c, r) ==
  /\ stack'[c] = r /\ \A d \in Canvases : d # c => stack'[d] = stack[d]
  /\ \A j, k \in 1 .. Len(r) : j # k => r[j] # r[k]
  /\ \A j \in 1 .. Len(r) : canvas'[r[j]] = c
  /\ \A x \in Placements : canvas'[x] = c => \E j \in 1 .. Len(r) : r[j] = x
  /\ \A x \in Placements : canvas[x] \in Canvases /\ canvas[x] # c => canvas'[x] = canvas[x]
  /\ \A x \in Placements : canvas'[x] \in Canvases /\ canvas'[x] # c => canvas[x] = canvas'[x]

Rewired(c, r) ==
  /\ \A j \in 1 .. Len(r) : next'[r[j]] = Nth(r, j + 1) /\ previous'[r[j]] = Nth(r, j - 1)
  /\ head'[c] = Nth(r, 1) /\ tail'[c] = Nth(r, Len(r))
  /\ \A d \in Canvases : d # c => head'[d] = head[d] /\ tail'[d] = tail[d]
  /\ \A x \in Placements : canvas[x] \in Canvases /\ canvas[x] # c =>
        next'[x] = next[x] /\ previous'[x] = previous[x]

LEMMA Relinked ==
  ASSUME TypeOK, ListIsStack, NEW c \in Canvases, NEW r, Restacked(c, r), Rewired(c, r)
  PROVE  ListIsStack'
<1>1. ASSUME NEW d \in Canvases, d # c PROVE Linked(d, stack[d])'
  <2>1. PICK q : q = stack[d]
    OBVIOUS
  <2>2. stack'[d] = q /\ Linked(d, q) /\ \A j \in 1 .. Len(q) : q[j] \in Placements
    BY <1>1, <2>1, StackTyped DEF Restacked, ListIsStack
  <2>3. head'[d] = Nth(q, 1) /\ tail'[d] = Nth(q, Len(q))
    BY <1>1, <2>2 DEF Linked, Rewired
  <2>4. ASSUME NEW j \in 1 .. Len(q)
        PROVE  /\ canvas'[q[j]] = d
               /\ next'[q[j]] = Nth(q, j + 1) /\ previous'[q[j]] = Nth(q, j - 1)
    <3>1. /\ q[j] \in Placements /\ canvas[q[j]] = d
          /\ next[q[j]] = Nth(q, j + 1) /\ previous[q[j]] = Nth(q, j - 1)
      BY <2>2 DEF Linked
    <3> QED
      BY <1>1, <3>1 DEF Restacked, Rewired
  <2>5. \A j, k \in 1 .. Len(q) : j # k => q[j] # q[k]
    BY <2>2 DEF Linked
  <2>6. \A x \in Placements : canvas'[x] = d => \E j \in 1 .. Len(q) : q[j] = x
    BY <1>1, <2>1, OnList DEF Restacked
  <2>7. Linked(d, q)'
    BY <2>3, <2>4, <2>5, <2>6 DEF Linked
  <2> QED
    BY <2>2, <2>7
<1>2. Linked(c, stack[c])'
  BY DEF Linked, Restacked, Rewired
<1> QED
  BY <1>1, <1>2 DEF ListIsStack

(* r holds what q holds, in another order. *)
Reorders(q, r) ==
  /\ Len(r) = Len(q)
  /\ \A j, k \in 1 .. Len(q) : j # k => r[j] # r[k]
  /\ \A j \in 1 .. Len(q) : \E k \in 1 .. Len(q) : r[j] = q[k]
  /\ \A k \in 1 .. Len(q) : \E j \in 1 .. Len(q) : r[j] = q[k]

LEMMA Reordered ==
  ASSUME TypeOK, ListIsStack, NEW c \in Canvases, NEW r, canvas' = canvas,
         stack'[c] = r, \A d \in Canvases : d # c => stack'[d] = stack[d],
         Reorders(stack[c], r)
  PROVE  Restacked(c, r)
<1>1. PICK q : q = stack[c]
  OBVIOUS
<1>2. Linked(c, q) /\ Reorders(q, r)
  BY <1>1 DEF ListIsStack
<1>3. ASSUME NEW j \in 1 .. Len(r) PROVE canvas'[r[j]] = c
  <2>1. PICK k \in 1 .. Len(q) : r[j] = q[k]
    BY <1>2 DEF Reorders
  <2> QED
    BY <1>2, <2>1 DEF Linked
<1>4. ASSUME NEW x \in Placements, canvas'[x] = c PROVE \E j \in 1 .. Len(r) : r[j] = x
  <2>1. PICK k \in 1 .. Len(q) : q[k] = x
    BY <1>2, <1>4 DEF Linked
  <2> QED
    BY <1>2, <2>1 DEF Reorders
<1>5. \A j, k \in 1 .. Len(r) : j # k => r[j] # r[k]
  BY <1>2 DEF Reorders
<1> QED
  BY <1>3, <1>4, <1>5 DEF Restacked

(* A list of n distinct elements after two of them, next to each other,    *)
(* changed places, and after one of them moved to an end.                  *)
LEMMA RaisedReorders ==
  ASSUME NEW S, NEW q \in Seq(S), NEW i \in 2 .. Len(q),
         \A j, k \in 1 .. Len(q) : j # k => q[j] # q[k]
  PROVE  Reorders(q, Order!Raised(q, i))
<1>1. PICK r : r = Order!Raised(q, i)
  OBVIOUS
<1>2. /\ Len(q) \in Nat /\ i \in Int /\ i \in 1 .. Len(q) /\ i - 1 \in 1 .. Len(q)
      /\ Len(r) = Len(q)
      /\ \A j \in 1 .. Len(q) :
            r[j] = IF j = i - 1 THEN q[i] ELSE IF j = i THEN q[i - 1] ELSE q[j]
  BY <1>1, RaisedStack, LenProperties
<1>3. \A j, k \in 1 .. Len(q) : j # k => r[j] # r[k]
  BY <1>2
<1>4. \A j \in 1 .. Len(q) : \E k \in 1 .. Len(q) : r[j] = q[k]
  BY <1>2
<1>5. ASSUME NEW k \in 1 .. Len(q) PROVE \E j \in 1 .. Len(q) : r[j] = q[k]
  <2>1. CASE k = i
    BY <1>2, <2>1
  <2>2. CASE k = i - 1
    BY <1>2, <2>2
  <2>3. CASE k \notin {i - 1, i}
    BY <1>2, <2>3
  <2> QED
    BY <2>1, <2>2, <2>3
<1> QED
  BY <1>1, <1>2, <1>3, <1>4, <1>5 DEF Reorders

LEMMA LoweredReorders ==
  ASSUME NEW S, NEW q \in Seq(S), NEW i \in 1 .. Len(q), i # Len(q),
         \A j, k \in 1 .. Len(q) : j # k => q[j] # q[k]
  PROVE  Reorders(q, Order!Lowered(q, i))
<1>1. PICK r : r = Order!Lowered(q, i)
  OBVIOUS
<1>2. /\ Len(q) \in Nat /\ i \in Int /\ i + 1 \in 1 .. Len(q) /\ Len(r) = Len(q)
      /\ \A j \in 1 .. Len(q) :
            r[j] = IF j = i THEN q[i + 1] ELSE IF j = i + 1 THEN q[i] ELSE q[j]
  <2>1. Len(q) \in Nat
    BY LenProperties
  <2>2. i \in Int /\ i + 1 \in 1 .. Len(q)
    BY <2>1
  <2> QED
    BY <1>1, <2>1, <2>2, LoweredStack
<1>3. \A j, k \in 1 .. Len(q) : j # k => r[j] # r[k]
  BY <1>2
<1>4. \A j \in 1 .. Len(q) : \E k \in 1 .. Len(q) : r[j] = q[k]
  BY <1>2
<1>5. ASSUME NEW k \in 1 .. Len(q) PROVE \E j \in 1 .. Len(q) : r[j] = q[k]
  <2>1. CASE k = i
    BY <1>2, <2>1
  <2>2. CASE k = i + 1
    BY <1>2, <2>2
  <2>3. CASE k \notin {i, i + 1}
    BY <1>2, <2>3
  <2> QED
    BY <2>1, <2>2, <2>3
<1> QED
  BY <1>1, <1>2, <1>3, <1>4, <1>5 DEF Reorders

LEMMA ToTopReorders ==
  ASSUME NEW S, NEW q \in Seq(S), NEW i \in 1 .. Len(q),
         \A j, k \in 1 .. Len(q) : j # k => q[j] # q[k]
  PROVE  Reorders(q, Order!ToTop(q, i))
<1>1. PICK r : r = Order!ToTop(q, i)
  OBVIOUS
<1>2. /\ Len(q) \in Nat /\ i \in Int /\ 1 \in 1 .. Len(q) /\ Len(r) = Len(q)
      /\ \A j \in 1 .. Len(q) :
            r[j] = IF j = 1 THEN q[i] ELSE IF j <= i THEN q[j - 1] ELSE q[j]
  BY <1>1, ToTopStack, LenProperties
<1>3. \A j, k \in 1 .. Len(q) : j # k => r[j] # r[k]
  BY <1>2
<1>4. \A j \in 1 .. Len(q) : \E k \in 1 .. Len(q) : r[j] = q[k]
  BY <1>2
<1>5. ASSUME NEW k \in 1 .. Len(q) PROVE \E j \in 1 .. Len(q) : r[j] = q[k]
  <2>1. CASE k = i
    BY <1>2, <2>1
  <2>2. CASE k < i
    <3>1. k + 1 \in 1 .. Len(q) /\ r[k + 1] = q[k]
      BY <1>2, <2>2
    <3> QED
      BY <3>1
  <2>3. CASE k > i
    BY <1>2, <2>3
  <2> QED
    BY <1>2, <2>1, <2>2, <2>3
<1> QED
  BY <1>1, <1>2, <1>3, <1>4, <1>5 DEF Reorders

LEMMA ToBottomReorders ==
  ASSUME NEW S, NEW q \in Seq(S), NEW i \in 1 .. Len(q),
         \A j, k \in 1 .. Len(q) : j # k => q[j] # q[k]
  PROVE  Reorders(q, Order!ToBottom(q, i))
<1>1. PICK r : r = Order!ToBottom(q, i)
  OBVIOUS
<1>2. /\ Len(q) \in Nat /\ i \in Int /\ Len(q) \in 1 .. Len(q) /\ Len(r) = Len(q)
      /\ \A j \in 1 .. Len(q) :
            r[j] = IF j = Len(q) THEN q[i] ELSE IF j < i THEN q[j] ELSE q[j + 1]
  BY <1>1, ToBottomStack, LenProperties
<1>3. \A j, k \in 1 .. Len(q) : j # k => r[j] # r[k]
  BY <1>2
<1>4. \A j \in 1 .. Len(q) : \E k \in 1 .. Len(q) : r[j] = q[k]
  BY <1>2
<1>5. ASSUME NEW k \in 1 .. Len(q) PROVE \E j \in 1 .. Len(q) : r[j] = q[k]
  <2>1. CASE k = i
    BY <1>2, <2>1
  <2>2. CASE k > i
    <3>1. k - 1 \in 1 .. Len(q) /\ r[k - 1] = q[k]
      BY <1>2, <2>2
    <3> QED
      BY <3>1
  <2>3. CASE k < i
    BY <1>2, <2>3
  <2> QED
    BY <1>2, <2>1, <2>2, <2>3
<1> QED
  BY <1>1, <1>2, <1>3, <1>4, <1>5 DEF Reorders

LEMMA UpLinks ==
  ASSUME TypeOK, ListIsStack, NEW p \in Placements, PlacementUp(p)
  PROVE  ListIsStack'
<1>1. PICK c \in Canvases : c = canvas[p]
  BY Placed DEF PlacementUp
<1>2. PICK q : q = stack[c]
  OBVIOUS
<1>3. PICK r : r = stack'[c]
  OBVIOUS
<1> DEFINE n == Len(q)
           N(j) == Nth(q, j)
<1>4. PICK i \in 1 .. n : q[i] = p /\ stack' = [stack EXCEPT ![c] = Order!Raised(q, i)]
  BY <1>1, <1>2, StackTyped DEF PlacementUp, Moves, Order!Up, Order!Replace
<1>5. /\ q \in Seq(Placements) /\ n \in Nat
      /\ \A j \in Int : N(j) \in Placements \union {NULL}
      /\ \A j \in 1 .. n : /\ q[j] \in Placements /\ q[j] # NULL /\ N(j) = q[j]
                           /\ canvas[q[j]] = c
                           /\ next[q[j]] = N(j + 1) /\ previous[q[j]] = N(j - 1)
      /\ \A j \in Int : j \notin 1 .. n => N(j) = NULL
      /\ \A j \in 1 .. n, k \in Int : q[j] = N(k) => j = k
      /\ \A j \in Int : N(j) # NULL => canvas[N(j)] = c
      /\ head[c] = N(1) /\ tail[c] = N(n)
  BY SMTT(40), <1>2, Neighbours DEF ListIsStack
<1> HIDE DEF N
<1>6. canvas' = canvas
  BY DEF PlacementUp
<1>7. CASE i = 1
  <2>1. previous[p] = NULL
    BY <1>4, <1>5, <1>7
  <2>2. UNCHANGED <<next, previous, head, tail>>
    BY <2>1 DEF PlacementUp
  <2>3. stack' = stack
    BY <1>2, <1>4, <1>7 DEF Order!Raised, TypeOK
  <2> QED
    BY <1>6, <2>2, <2>3 DEF ListIsStack, Linked
<1>8. CASE i # 1
  <2>1. /\ i \in Int /\ i \in 2 .. n /\ i - 1 \in 1 .. n
        /\ previous[p] = N(i - 1) /\ previous[N(i - 1)] = N(i - 2) /\ next[p] = N(i + 1)
        /\ p = N(i) /\ N(i - 1) # NULL /\ N(i - 1) = q[i - 1] /\ N(i) = q[i]
    BY <1>4, <1>5, <1>8
  <2>2. /\ next' = Assign([next EXCEPT ![N(i - 1)] = N(i + 1), ![p] = N(i - 1)], N(i - 2), p)
        /\ previous' = [Assign(previous, N(i + 1), N(i - 1))
                          EXCEPT ![N(i - 1)] = p, ![p] = N(i - 2)]
        /\ tail' = IF N(i + 1) = NULL THEN [tail EXCEPT ![c] = N(i - 1)] ELSE tail
        /\ head' = IF N(i - 2) = NULL THEN [head EXCEPT ![c] = p] ELSE head
    BY <1>1, <2>1 DEF PlacementUp
  <2>3. \A x \in Placements :
           /\ next'[x] = IF x = N(i - 2) THEN p ELSE IF x = p THEN N(i - 1)
                         ELSE IF x = N(i - 1) THEN N(i + 1) ELSE next[x]
           /\ previous'[x] = IF x = p THEN N(i - 2) ELSE IF x = N(i - 1) THEN p
                             ELSE IF x = N(i + 1) THEN N(i - 1) ELSE previous[x]
    BY <1>5, <2>1, <2>2, LayerAssumption DEF Assign, TypeOK
  <2> DEFINE R(j) == Nth(r, j)
  <2>4. /\ Len(r) = n
        /\ \A j \in 1 .. n : r[j] = IF j = i - 1 THEN q[i] ELSE IF j = i THEN q[i - 1] ELSE q[j]
    BY <1>2, <1>3, <1>4, <1>5, <2>1, RaisedStack DEF TypeOK
  <2>5. \A j \in Int : R(j) = IF j = i - 1 THEN N(i) ELSE IF j = i THEN N(i - 1) ELSE N(j)
    BY <1>5, <2>1, <2>4 DEF Nth, N
  <2> HIDE DEF R
  <2>6. ASSUME NEW j \in 1 .. n PROVE next'[r[j]] = R(j + 1)
    <3>1. CASE j = i - 2
      <4>1. r[j] = q[j] /\ q[j] = N(i - 2) /\ q[j] \in Placements
        BY <1>5, <2>1, <2>4, <3>1
      <4>2. R(j + 1) = p
        BY <2>1, <2>5, <3>1
      <4> QED
        BY <2>3, <4>1, <4>2
    <3>2. CASE j = i - 1
      BY <1>4, <1>5, <2>1, <2>3, <2>4, <2>5, <3>2
    <3>3. CASE j = i
      BY <1>4, <1>5, <2>1, <2>3, <2>4, <2>5, <3>3
    <3>4. CASE j \notin {i - 2, i - 1, i}
      <4>1. r[j] = q[j] /\ q[j] \notin {N(i - 2), N(i - 1), p}
        BY <1>5, <2>1, <2>4, <3>4
      <4>2. next'[q[j]] = N(j + 1)
        BY <1>5, <2>3, <4>1
      <4>3. R(j + 1) = N(j + 1)
        BY SMTT(40), <2>1, <2>5, <3>4
      <4> QED
        BY <4>1, <4>2, <4>3
    <3> QED
      BY <3>1, <3>2, <3>3, <3>4
  <2>7. ASSUME NEW j \in 1 .. n PROVE previous'[r[j]] = R(j - 1)
    <3>1. CASE j = i - 1
      BY <1>4, <1>5, <2>1, <2>3, <2>4, <2>5, <3>1
    <3>2. CASE j = i
      BY <1>4, <1>5, <2>1, <2>3, <2>4, <2>5, <3>2
    <3>3. CASE j = i + 1
      BY <1>4, <1>5, <2>1, <2>3, <2>4, <2>5, <3>3
    <3>4. CASE j \notin {i - 1, i, i + 1}
      <4>1. r[j] = q[j] /\ q[j] \notin {N(i + 1), N(i - 1), p}
        BY <1>5, <2>1, <2>4, <3>4
      <4>2. previous'[q[j]] = N(j - 1)
        BY <1>5, <2>3, <4>1
      <4>3. R(j - 1) = N(j - 1)
        BY <2>1, <2>5, <3>4
      <4> QED
        BY <4>1, <4>2, <4>3
    <3> QED
      BY <3>1, <3>2, <3>3, <3>4
  <2>8. head'[c] = R(1)
    <3>1. N(i - 2) = NULL <=> i = 2
      BY SMTT(40), <1>5, <2>1
    <3> QED
      BY <1>5, <2>1, <2>2, <2>5, <3>1 DEF TypeOK
  <2>9. tail'[c] = R(n)
    <3>1. N(i + 1) = NULL <=> i = n
      BY <1>5, <2>1
    <3> QED
      BY <1>5, <2>1, <2>2, <2>5, <3>1 DEF TypeOK
  <2>10. \A d \in Canvases : d # c => head'[d] = head[d] /\ tail'[d] = tail[d]
    BY <2>2 DEF TypeOK
  <2>11. ASSUME NEW x \in Placements, canvas[x] # c
         PROVE  next'[x] = next[x] /\ previous'[x] = previous[x]
    <3>1. \A j \in Int : x # N(j)
      BY <1>5, <2>11, LayerAssumption
    <3> QED
      BY <2>1, <2>3, <3>1
  <2>12. Rewired(c, r)
    BY <2>4, <2>6, <2>7, <2>8, <2>9, <2>10, <2>11 DEF Rewired, R
  <2>13. Reorders(q, r)
    <3>1. r = Order!Raised(q, i)
      BY <1>3, <1>4 DEF TypeOK
    <3>2. \A j, k \in 1 .. n : j # k => q[j] # q[k]
      BY <1>5
    <3> QED
      BY <1>5, <2>1, <3>1, <3>2, RaisedReorders
  <2>14. stack'[c] = r /\ \A d \in Canvases : d # c => stack'[d] = stack[d]
    BY <1>3, <1>4 DEF TypeOK
  <2>15. Restacked(c, r)
    BY <1>2, <1>6, <2>13, <2>14, Reordered
  <2> QED
    BY <2>12, <2>15, Relinked
<1> QED
  BY <1>7, <1>8

LEMMA DownLinks ==
  ASSUME TypeOK, ListIsStack, NEW p \in Placements, PlacementDown(p)
  PROVE  ListIsStack'
<1>1. PICK c \in Canvases : c = canvas[p]
  BY Placed DEF PlacementDown
<1>2. PICK q : q = stack[c]
  OBVIOUS
<1>3. PICK r : r = stack'[c]
  OBVIOUS
<1> DEFINE n == Len(q)
           N(j) == Nth(q, j)
<1>4. PICK i \in 1 .. n : q[i] = p /\ stack' = [stack EXCEPT ![c] = Order!Lowered(q, i)]
  BY <1>1, <1>2, StackTyped DEF PlacementDown, Moves, Order!Down, Order!Replace
<1>5. /\ q \in Seq(Placements) /\ n \in Nat
      /\ \A j \in Int : N(j) \in Placements \union {NULL}
      /\ \A j \in 1 .. n : /\ q[j] \in Placements /\ q[j] # NULL /\ N(j) = q[j]
                           /\ canvas[q[j]] = c
                           /\ next[q[j]] = N(j + 1) /\ previous[q[j]] = N(j - 1)
      /\ \A j \in Int : j \notin 1 .. n => N(j) = NULL
      /\ \A j \in 1 .. n, k \in Int : q[j] = N(k) => j = k
      /\ \A j \in Int : N(j) # NULL => canvas[N(j)] = c
      /\ head[c] = N(1) /\ tail[c] = N(n)
  BY SMTT(40), <1>2, Neighbours DEF ListIsStack
<1> HIDE DEF N
<1>6. canvas' = canvas
  BY DEF PlacementDown
<1>7. CASE i = n
  <2>1. next[p] = NULL
    BY <1>1, <1>4, <1>5, <1>7
  <2>2. UNCHANGED <<next, previous, head, tail>>
    BY <1>1, <2>1 DEF PlacementDown
  <2>3. stack' = stack
    BY <1>2, <1>4, <1>7 DEF Order!Lowered, TypeOK
  <2> QED
    BY <1>6, <2>2, <2>3 DEF ListIsStack, Linked
<1>8. CASE i # n
  <2>1. /\ i \in Int /\ i + 1 \in 1 .. n
        /\ previous[p] = N(i - 1) /\ next[N(i + 1)] = N(i + 2) /\ next[p] = N(i + 1)
        /\ p = N(i) /\ N(i + 1) # NULL /\ N(i + 1) = q[i + 1] /\ N(i) = q[i]
    <3>1. i \in Int /\ n \in Int /\ i + 1 \in 1 .. n /\ i + 2 = i + 1 + 1
      BY <1>4, <1>5, <1>8
    <3> QED
      BY <1>4, <1>5, <1>8, <3>1
  <2>2. /\ previous' = Assign([previous EXCEPT ![N(i + 1)] = N(i - 1), ![p] = N(i + 1)],
                                N(i + 2), p)
        /\ next' = [Assign(next, N(i - 1), N(i + 1)) EXCEPT ![N(i + 1)] = p, ![p] = N(i + 2)]
        /\ head' = IF N(i - 1) = NULL THEN [head EXCEPT ![c] = N(i + 1)] ELSE head
        /\ tail' = IF N(i + 2) = NULL THEN [tail EXCEPT ![c] = p] ELSE tail
    BY <1>1, <1>5, <2>1 DEF PlacementDown
  <2>3. \A x \in Placements :
           /\ previous'[x] = IF x = N(i + 2) THEN p ELSE IF x = p THEN N(i + 1)
                             ELSE IF x = N(i + 1) THEN N(i - 1) ELSE previous[x]
           /\ next'[x] = IF x = p THEN N(i + 2) ELSE IF x = N(i + 1) THEN p
                         ELSE IF x = N(i - 1) THEN N(i + 1) ELSE next[x]
    BY <1>5, <2>1, <2>2, LayerAssumption DEF Assign, TypeOK
  <2> DEFINE R(j) == Nth(r, j)
  <2>4. /\ Len(r) = n
        /\ \A j \in 1 .. n : r[j] = IF j = i THEN q[i + 1] ELSE IF j = i + 1 THEN q[i] ELSE q[j]
    <3>1. r = Order!Lowered(q, i)
      BY <1>3, <1>4 DEF TypeOK
    <3> QED
      BY <1>4, <1>5, <2>1, <3>1, LoweredStack
  <2>4a. n \in Int /\ i \in Int /\ i \in 1 .. n
    BY <1>4, <1>5
  <2>5. \A j \in Int : R(j) = IF j = i THEN N(i + 1) ELSE IF j = i + 1 THEN N(i) ELSE N(j)
    BY <1>5, <2>1, <2>4 DEF Nth, N
  <2> HIDE DEF R
  <2>6. ASSUME NEW j \in 1 .. n PROVE next'[r[j]] = R(j + 1)
    <3>1. CASE j = i - 1
      <4>1. r[j] = q[i - 1] /\ i - 1 \in 1 .. n
        BY <2>4, <2>4a, <3>1
      <4>2. q[i - 1] = N(i - 1) /\ q[i - 1] \notin {p, N(i + 1)} /\ q[i - 1] \in Placements
        BY <1>4, <1>5, <2>1, <3>1, <4>1
      <4>3. next'[q[i - 1]] = N(i + 1)
        BY <1>5, <2>3, <4>1, <4>2
      <4>4. R(j + 1) = N(i + 1)
        BY <1>5, <2>1, <2>5, <3>1, <4>2
      <4> QED
        BY <4>1, <4>3, <4>4
    <3>2. CASE j = i
      <4>1. r[j] = q[i + 1] /\ i + 1 \in 1 .. n
        BY <2>1, <2>4, <2>4a, <3>2
      <4>2. q[i + 1] = N(i + 1) /\ q[i + 1] # p /\ q[i + 1] \in Placements
        BY <1>4, <1>5, <2>1, <3>2, <4>1
      <4>3. next'[q[i + 1]] = p
        BY <1>5, <2>3, <4>1, <4>2
      <4>4. R(j + 1) = p
        BY <1>5, <2>1, <2>5, <3>2, <4>2
      <4> QED
        BY <4>1, <4>3, <4>4
    <3>3. CASE j = i + 1
      <4>1. r[j] = q[i] /\ i \in 1 .. n
        BY <2>4, <2>4a, <3>3
      <4>2. q[i] = p /\ q[i] \in Placements
        BY <1>4, <1>5, <2>1, <3>3, <4>1
      <4>3. next'[q[i]] = N(i + 2)
        BY <1>5, <2>3, <4>1, <4>2
      <4>4. R(j + 1) = N(i + 2)
        BY <1>5, <2>1, <2>5, <3>3, <4>2
      <4> QED
        BY <4>1, <4>3, <4>4
    <3>4. CASE j \notin {i - 1, i, i + 1}
      <4>1. r[j] = q[j] /\ j \in 1 .. n
        BY <2>4, <2>4a, <3>4
      <4>2. q[j] \notin {N(i - 1), N(i + 1), p}
        BY <1>4, <1>5, <2>1, <3>4, <4>1
      <4>3. next'[q[j]] = N(j + 1)
        BY <1>5, <2>3, <4>1, <4>2
      <4>4. R(j + 1) = N(j + 1)
        BY <1>5, <2>1, <2>5, <3>4, <4>2
      <4> QED
        BY <4>1, <4>3, <4>4
    <3> QED
      BY <1>5, <2>1, <3>1, <3>2, <3>3, <3>4
  <2>7. ASSUME NEW j \in 1 .. n PROVE previous'[r[j]] = R(j - 1)
    <3>1. CASE j = i
      <4>1. r[j] = q[i + 1] /\ i + 1 \in 1 .. n
        BY <2>1, <2>4, <2>4a, <3>1
      <4>2. q[i + 1] = N(i + 1) /\ q[i + 1] \notin {p, N(i + 2)} /\ q[i + 1] \in Placements /\ j - 1 \in Int /\ j - 1 = i - 1 /\ i - 1 \notin {i, i + 1}
        BY <1>4, <1>5, <2>1, <3>1, <4>1
      <4>3. previous'[q[i + 1]] = N(i - 1)
        BY <1>5, <2>3, <4>1, <4>2
      <4>4. R(j - 1) = N(i - 1)
        BY <1>5, <2>1, <2>5, <3>1, <4>2
      <4> QED
        BY <4>1, <4>3, <4>4
    <3>2. CASE j = i + 1
      <4>1. r[j] = q[i] /\ i \in 1 .. n
        BY <2>4, <2>4a, <3>2
      <4>2. q[i] = p /\ q[i] # N(i + 2) /\ q[i] \in Placements
        BY <1>4, <1>5, <2>1, <3>2, <4>1
      <4>3. previous'[q[i]] = N(i + 1)
        BY <1>5, <2>3, <4>1, <4>2
      <4>4. R(j - 1) = N(i + 1)
        BY <1>5, <2>1, <2>5, <3>2, <4>2
      <4> QED
        BY <4>1, <4>3, <4>4
    <3>3. CASE j = i + 2
      <4>1. r[j] = q[i + 2] /\ i + 2 \in 1 .. n
        BY <2>4, <2>4a, <3>3
      <4>2. q[i + 2] = N(i + 2) /\ q[i + 2] \in Placements
        BY <1>4, <1>5, <2>1, <3>3, <4>1
      <4>3. previous'[q[i + 2]] = p
        BY <1>5, <2>3, <4>1, <4>2
      <4>4. R(j - 1) = p
        BY <1>5, <2>1, <2>5, <3>3, <4>2
      <4> QED
        BY <4>1, <4>3, <4>4
    <3>4. CASE j \notin {i, i + 1, i + 2}
      <4>1. r[j] = q[j] /\ j \in 1 .. n
        BY <2>4, <2>4a, <3>4
      <4>2. q[j] \notin {N(i + 2), N(i + 1), p}
        BY <1>4, <1>5, <2>1, <3>4, <4>1
      <4>3. previous'[q[j]] = N(j - 1)
        BY <1>5, <2>3, <4>1, <4>2
      <4>4. R(j - 1) = N(j - 1)
        BY <1>5, <2>1, <2>5, <3>4, <4>2
      <4> QED
        BY <4>1, <4>3, <4>4
    <3> QED
      BY <1>5, <2>1, <3>1, <3>2, <3>3, <3>4
  <2>8. head'[c] = R(1)
    <3>1. i = 1 => N(i - 1) = NULL
      BY <1>5
    <3>2. i # 1 => N(i - 1) # NULL
      <4>1. i # 1 => i - 1 \in 1 .. n
        BY <1>4, <1>5
      <4> QED
        BY <1>5, <4>1
    <3> QED
      BY <1>4, <1>5, <2>1, <2>2, <2>5, <3>1, <3>2 DEF TypeOK
  <2>9. tail'[c] = R(n)
    <3>1. N(i + 2) = NULL <=> i + 1 = n
      BY <1>5, <2>1
    <3> QED
      BY <1>5, <2>1, <2>2, <2>5, <3>1 DEF TypeOK
  <2>10. \A d \in Canvases : d # c => head'[d] = head[d] /\ tail'[d] = tail[d]
    BY <2>2 DEF TypeOK
  <2>11. ASSUME NEW x \in Placements, canvas[x] # c
         PROVE  next'[x] = next[x] /\ previous'[x] = previous[x]
    <3>1. \A j \in Int : x # N(j)
      BY <1>5, <2>11, LayerAssumption
    <3> QED
      BY <2>1, <2>3, <3>1
  <2>12. Rewired(c, r)
    BY <2>4, <2>6, <2>7, <2>8, <2>9, <2>10, <2>11 DEF Rewired, R
  <2>13. Reorders(q, r)
    <3>1. r = Order!Lowered(q, i)
      BY <1>3, <1>4 DEF TypeOK
    <3>2. \A j, k \in 1 .. n : j # k => q[j] # q[k]
      BY <1>5
    <3> QED
      BY <1>4, <1>5, <2>1, <3>1, <3>2, LoweredReorders
  <2>14. stack'[c] = r /\ \A d \in Canvases : d # c => stack'[d] = stack[d]
    BY <1>3, <1>4 DEF TypeOK
  <2>15. Restacked(c, r)
    BY <1>2, <1>6, <2>13, <2>14, Reordered
  <2> QED
    BY <2>12, <2>15, Relinked
<1> QED
  BY <1>7, <1>8

LEMMA TopLinks ==
  ASSUME TypeOK, ListIsStack, NEW p \in Placements, PlacementTop(p)
  PROVE  ListIsStack'
<1>1. PICK c \in Canvases : c = canvas[p]
  BY Placed DEF PlacementTop
<1>2. PICK q : q = stack[c]
  OBVIOUS
<1>3. PICK r : r = stack'[c]
  OBVIOUS
<1> DEFINE n == Len(q)
           N(j) == Nth(q, j)
<1>4. PICK i \in 1 .. n : q[i] = p /\ stack' = [stack EXCEPT ![c] = Order!ToTop(q, i)]
  BY <1>1, <1>2, StackTyped DEF PlacementTop, Moves, Order!Top, Order!Replace
<1>5. /\ q \in Seq(Placements) /\ n \in Nat
      /\ \A j \in Int : N(j) \in Placements \union {NULL}
      /\ \A j \in 1 .. n : /\ q[j] \in Placements /\ q[j] # NULL /\ N(j) = q[j]
                           /\ canvas[q[j]] = c
                           /\ next[q[j]] = N(j + 1) /\ previous[q[j]] = N(j - 1)
      /\ \A j \in Int : j \notin 1 .. n => N(j) = NULL
      /\ \A j \in 1 .. n, k \in Int : q[j] = N(k) => j = k
      /\ \A j \in Int : N(j) # NULL => canvas[N(j)] = c
      /\ head[c] = N(1) /\ tail[c] = N(n)
  BY SMTT(40), <1>2, Neighbours DEF ListIsStack
<1> HIDE DEF N
<1>6. canvas' = canvas
  BY DEF PlacementTop
<1>7. CASE i = 1
  <2>1. p = head[canvas[p]]
    BY <1>1, <1>4, <1>5, <1>7
  <2>2. UNCHANGED <<next, previous, head, tail>>
    BY <1>1, <2>1 DEF PlacementTop
  <2>3. stack' = stack
    <3>1. Order!ToTop(q, i) \in Seq(Placements) /\ Len(Order!ToTop(q, i)) = n
      BY <1>5, ToTopStack
    <3>2. ASSUME NEW j \in 1 .. n PROVE Order!ToTop(q, i)[j] = q[j]
      BY <1>4, <1>5, <1>7 DEF Order!ToTop
    <3>3. Order!ToTop(q, i) = q
      BY <1>5, <3>1, <3>2, SeqEqual
    <3> QED
      BY <1>2, <1>4, <3>3 DEF TypeOK
  <2> QED
    BY <1>6, <2>2, <2>3 DEF ListIsStack, Linked
<1>8. CASE i # 1
  <2>1. /\ i \in Int /\ i - 1 \in 1 .. n /\ 1 \in 1 .. n /\ p # head[c] /\ head[c] = N(1)
        /\ previous[p] = N(i - 1) /\ next[p] = N(i + 1)
        /\ p = N(i) /\ N(i - 1) # NULL /\ N(i - 1) = q[i - 1] /\ N(i) = q[i] /\ N(1) = q[1]
    <3>1. i \in Int /\ n \in Int /\ i - 1 \in 1 .. n /\ 1 \in 1 .. n /\ i # 1
      BY <1>4, <1>5, <1>8
    <3> QED
      BY <1>4, <1>5, <1>8, <3>1
  <2>2. /\ next' = [next EXCEPT ![N(i - 1)] = N(i + 1), ![p] = N(1)]
        /\ previous' = [Assign(previous, N(i + 1), N(i - 1)) EXCEPT ![p] = NULL, ![N(1)] = p]
        /\ tail' = IF N(i + 1) = NULL THEN [tail EXCEPT ![c] = N(i - 1)] ELSE tail
        /\ head' = [head EXCEPT ![c] = p]
    BY <1>1, <1>5, <2>1 DEF PlacementTop
  <2>3. \A x \in Placements :
           /\ next'[x] = IF x = p THEN N(1) ELSE IF x = N(i - 1) THEN N(i + 1) ELSE next[x]
           /\ previous'[x] = IF x = N(1) THEN p ELSE IF x = p THEN NULL
                             ELSE IF x = N(i + 1) THEN N(i - 1) ELSE previous[x]
    BY <1>5, <2>1, <2>2, LayerAssumption DEF Assign, TypeOK
  <2> DEFINE R(j) == Nth(r, j)
  <2>4. /\ Len(r) = n
        /\ \A j \in 1 .. n : r[j] = IF j = 1 THEN q[i] ELSE IF j <= i THEN q[j - 1] ELSE q[j]
    <3>1. r = Order!ToTop(q, i)
      BY <1>3, <1>4 DEF TypeOK
    <3>2. q \in Seq(Placements) /\ i \in 1 .. Len(q) /\ n = Len(q)
      BY <1>4, <1>5
    <3> QED
      BY <3>1, <3>2, ToTopStack
  <2>4a. n \in Int /\ i \in Int /\ i \in 1 .. n
    BY <1>4, <1>5
  <2>5. \A j \in Int : R(j) = IF j = 1 THEN N(i) ELSE IF j \in 2 .. i THEN N(j - 1) ELSE N(j)
    BY <1>5, <2>1, <2>4 DEF Nth, N
  <2> HIDE DEF R
  <2>6. ASSUME NEW j \in 1 .. n PROVE next'[r[j]] = R(j + 1)
    <3>1. CASE j = 1
      <4>1. r[j] = q[i] /\ i \in 1 .. n
        BY <2>4, <2>4a, <3>1
      <4>2. q[i] = p /\ q[i] \in Placements
        BY <1>4, <1>5, <2>1, <3>1, <4>1
      <4>3. next'[q[i]] = N(1)
        BY <1>5, <2>3, <4>1, <4>2
      <4>4. R(j + 1) = N(1)
        BY <1>5, <2>1, <2>5, <3>1, <4>2
      <4> QED
        BY <4>1, <4>3, <4>4
    <3>2. CASE j = i
      <4>1. r[j] = q[i - 1] /\ i - 1 \in 1 .. n
        BY <2>1, <2>4, <2>4a, <3>2
      <4>2. q[i - 1] = N(i - 1) /\ q[i - 1] # p /\ q[i - 1] \in Placements
        BY <1>4, <1>5, <2>1, <3>2, <4>1
      <4>3. next'[q[i - 1]] = N(i + 1)
        BY <1>5, <2>3, <4>1, <4>2
      <4>4. R(j + 1) = N(i + 1)
        BY <1>5, <2>1, <2>5, <3>2, <4>2
      <4> QED
        BY <4>1, <4>3, <4>4
    <3>3. CASE j \in 2 .. i - 1
      <4>1. r[j] = q[j - 1] /\ j - 1 \in 1 .. n
        BY <2>4, <2>4a, <3>3
      <4>2. q[j - 1] \notin {N(i - 1), p} /\ q[j - 1] \in Placements /\ next[q[j - 1]] = N(j)
        BY SMTT(40), <1>4, <1>5, <2>1, <3>3, <4>1
      <4>3. next'[q[j - 1]] = N(j)
        BY <1>5, <2>3, <4>1, <4>2
      <4>4. R(j + 1) = N(j)
        BY <1>5, <2>1, <2>5, <3>3, <4>2
      <4> QED
        BY <4>1, <4>3, <4>4
    <3>4. CASE j > i
      <4>1. r[j] = q[j] /\ j \in 1 .. n
        BY <2>4, <2>4a, <3>4
      <4>2. q[j] \notin {N(i - 1), p}
        BY <1>4, <1>5, <2>1, <3>4, <4>1
      <4>3. next'[q[j]] = N(j + 1)
        BY <1>5, <2>3, <4>1, <4>2
      <4>4. R(j + 1) = N(j + 1)
        BY <1>5, <2>1, <2>5, <3>4, <4>2
      <4> QED
        BY <4>1, <4>3, <4>4
    <3> QED
      BY <1>5, <2>1, <3>1, <3>2, <3>3, <3>4
  <2>7. ASSUME NEW j \in 1 .. n PROVE previous'[r[j]] = R(j - 1)
    <3>1. CASE j = 1
      <4>1. r[j] = q[i] /\ i \in 1 .. n
        BY <2>4, <2>4a, <3>1
      <4>2. q[i] = p /\ q[i] # N(1) /\ q[i] \in Placements /\ N(0) = NULL
        BY <1>4, <1>5, <2>1, <3>1, <4>1
      <4>3. previous'[q[i]] = N(0)
        BY <1>5, <2>3, <4>1, <4>2
      <4>4. R(j - 1) = N(0)
        BY <1>5, <2>1, <2>5, <3>1, <4>2
      <4> QED
        BY <4>1, <4>3, <4>4
    <3>2. CASE j = 2
      <4>1. r[j] = q[1] /\ 1 \in 1 .. n
        BY <2>1, <2>4, <2>4a, <3>2
      <4>2. q[1] = N(1) /\ q[1] \in Placements
        BY <1>4, <1>5, <2>1, <3>2, <4>1
      <4>3. previous'[q[1]] = p
        BY <1>5, <2>3, <4>1, <4>2
      <4>4. R(j - 1) = p
        BY <1>5, <2>1, <2>5, <3>2, <4>2
      <4> QED
        BY <4>1, <4>3, <4>4
    <3>3. CASE j = i + 1
      <4>1. r[j] = q[i + 1] /\ i + 1 \in 1 .. n
        BY <2>4, <2>4a, <3>3
      <4>2. q[i + 1] = N(i + 1) /\ q[i + 1] \notin {N(1), p} /\ q[i + 1] \in Placements
        BY <1>4, <1>5, <2>1, <3>3, <4>1
      <4>3. previous'[q[i + 1]] = N(i - 1)
        BY <1>5, <2>3, <4>1, <4>2
      <4>4. R(j - 1) = N(i - 1)
        BY <1>5, <2>1, <2>5, <3>3, <4>2
      <4> QED
        BY <4>1, <4>3, <4>4
    <3>4. CASE j \in 3 .. i
      <4>1. r[j] = q[j - 1] /\ j - 1 \in 1 .. n
        BY <2>4, <2>4a, <3>4
      <4>2. q[j - 1] \notin {N(1), N(i + 1), p} /\ q[j - 1] \in Placements /\ previous[q[j - 1]] = N(j - 2)
        BY SMTT(40), <1>4, <1>5, <2>1, <3>4, <4>1
      <4>3. previous'[q[j - 1]] = N(j - 2)
        BY <1>5, <2>3, <4>1, <4>2
      <4>4. R(j - 1) = N(j - 2)
        BY <1>5, <2>1, <2>5, <3>4, <4>2
      <4> QED
        BY <4>1, <4>3, <4>4
    <3>5. CASE j > i + 1
      <4>1. r[j] = q[j] /\ j \in 1 .. n
        BY <2>4, <2>4a, <3>5
      <4>2. q[j] \notin {N(1), N(i + 1), p}
        BY <1>4, <1>5, <2>1, <3>5, <4>1
      <4>3. previous'[q[j]] = N(j - 1)
        BY <1>5, <2>3, <4>1, <4>2
      <4>4. R(j - 1) = N(j - 1)
        BY <1>5, <2>1, <2>5, <3>5, <4>2
      <4> QED
        BY <4>1, <4>3, <4>4
    <3> QED
      BY <1>5, <2>1, <3>1, <3>2, <3>3, <3>4, <3>5
  <2>8. head'[c] = R(1)
    BY <1>5, <2>1, <2>2, <2>5 DEF TypeOK
  <2>9. tail'[c] = R(n)
    <3>1. N(i + 1) = NULL <=> i = n
      BY <1>5, <2>1
    <3> QED
      BY <1>5, <2>1, <2>2, <2>5, <3>1 DEF TypeOK
  <2>10. \A d \in Canvases : d # c => head'[d] = head[d] /\ tail'[d] = tail[d]
    BY <2>2 DEF TypeOK
  <2>11. ASSUME NEW x \in Placements, canvas[x] # c
         PROVE  next'[x] = next[x] /\ previous'[x] = previous[x]
    <3>1. \A j \in Int : x # N(j)
      BY <1>5, <2>11, LayerAssumption
    <3> QED
      BY <2>1, <2>3, <3>1
  <2>12. Rewired(c, r)
    BY <2>4, <2>6, <2>7, <2>8, <2>9, <2>10, <2>11 DEF Rewired, R
  <2>13. Reorders(q, r)
    <3>1. r = Order!ToTop(q, i)
      BY <1>3, <1>4 DEF TypeOK
    <3>2. \A j, k \in 1 .. n : j # k => q[j] # q[k]
      BY <1>5
    <3> QED
      BY <1>4, <1>5, <2>1, <3>1, <3>2, ToTopReorders
  <2>14. stack'[c] = r /\ \A d \in Canvases : d # c => stack'[d] = stack[d]
    BY <1>3, <1>4 DEF TypeOK
  <2>15. Restacked(c, r)
    BY <1>2, <1>6, <2>13, <2>14, Reordered
  <2> QED
    BY <2>12, <2>15, Relinked
<1> QED
  BY <1>7, <1>8

LEMMA BottomLinks ==
  ASSUME TypeOK, ListIsStack, NEW p \in Placements, PlacementBottom(p)
  PROVE  ListIsStack'
<1>1. PICK c \in Canvases : c = canvas[p]
  BY Placed DEF PlacementBottom
<1>2. PICK q : q = stack[c]
  OBVIOUS
<1>3. PICK r : r = stack'[c]
  OBVIOUS
<1> DEFINE n == Len(q)
           N(j) == Nth(q, j)
<1>4. PICK i \in 1 .. n : q[i] = p /\ stack' = [stack EXCEPT ![c] = Order!ToBottom(q, i)]
  BY <1>1, <1>2, StackTyped DEF PlacementBottom, Moves, Order!Bottom, Order!Replace
<1>5. /\ q \in Seq(Placements) /\ n \in Nat
      /\ \A j \in Int : N(j) \in Placements \union {NULL}
      /\ \A j \in 1 .. n : /\ q[j] \in Placements /\ q[j] # NULL /\ N(j) = q[j]
                           /\ canvas[q[j]] = c
                           /\ next[q[j]] = N(j + 1) /\ previous[q[j]] = N(j - 1)
      /\ \A j \in Int : j \notin 1 .. n => N(j) = NULL
      /\ \A j \in 1 .. n, k \in Int : q[j] = N(k) => j = k
      /\ \A j \in Int : N(j) # NULL => canvas[N(j)] = c
      /\ head[c] = N(1) /\ tail[c] = N(n)
  BY SMTT(40), <1>2, Neighbours DEF ListIsStack
<1> HIDE DEF N
<1>6. canvas' = canvas
  BY DEF PlacementBottom
<1>7. CASE i = n
  <2>1. p = tail[canvas[p]]
    BY <1>1, <1>4, <1>5, <1>7
  <2>2. UNCHANGED <<next, previous, head, tail>>
    BY <1>1, <2>1 DEF PlacementBottom
  <2>3. stack' = stack
    <3>1. Order!ToBottom(q, i) \in Seq(Placements) /\ Len(Order!ToBottom(q, i)) = n
      BY <1>5, ToBottomStack
    <3>2. ASSUME NEW j \in 1 .. n PROVE Order!ToBottom(q, i)[j] = q[j]
      BY <1>4, <1>5, <1>7 DEF Order!ToBottom
    <3>3. Order!ToBottom(q, i) = q
      BY <1>5, <3>1, <3>2, SeqEqual
    <3> QED
      BY <1>2, <1>4, <3>3 DEF TypeOK
  <2> QED
    BY <1>6, <2>2, <2>3 DEF ListIsStack, Linked
<1>8. CASE i # n
  <2>1. /\ i \in Int /\ i + 1 \in 1 .. n /\ n \in 1 .. n /\ p # tail[c] /\ tail[c] = N(n)
        /\ previous[p] = N(i - 1) /\ next[p] = N(i + 1)
        /\ p = N(i) /\ N(i + 1) # NULL /\ N(i + 1) = q[i + 1] /\ N(i) = q[i] /\ N(n) = q[n]
    <3>1. i \in Int /\ n \in Int /\ i + 1 \in 1 .. n /\ n \in 1 .. n /\ i # n
      BY <1>4, <1>5, <1>8
    <3> QED
      BY <1>4, <1>5, <1>8, <3>1
  <2>2. /\ previous' = [previous EXCEPT ![N(i + 1)] = N(i - 1), ![p] = N(n)]
        /\ next' = [Assign(next, N(i - 1), N(i + 1)) EXCEPT ![p] = NULL, ![N(n)] = p]
        /\ head' = IF N(i - 1) = NULL THEN [head EXCEPT ![c] = N(i + 1)] ELSE head
        /\ tail' = [tail EXCEPT ![c] = p]
    BY <1>1, <1>5, <2>1 DEF PlacementBottom
  <2>3. \A x \in Placements :
           /\ previous'[x] = IF x = p THEN N(n) ELSE IF x = N(i + 1) THEN N(i - 1)
                             ELSE previous[x]
           /\ next'[x] = IF x = N(n) THEN p ELSE IF x = p THEN NULL
                         ELSE IF x = N(i - 1) THEN N(i + 1) ELSE next[x]
    BY <1>5, <2>1, <2>2, LayerAssumption DEF Assign, TypeOK
  <2> DEFINE R(j) == Nth(r, j)
  <2>4. /\ Len(r) = n
        /\ \A j \in 1 .. n : r[j] = IF j = n THEN q[i] ELSE IF j < i THEN q[j] ELSE q[j + 1]
    <3>1. r = Order!ToBottom(q, i)
      BY <1>3, <1>4 DEF TypeOK
    <3> QED
      BY <1>4, <1>5, <2>1, <3>1, ToBottomStack
  <2>4a. n \in Int /\ i \in Int /\ i \in 1 .. n
    BY <1>4, <1>5
  <2>5. \A j \in Int : R(j) = IF j = n THEN N(i) ELSE IF j \in i .. n - 1 THEN N(j + 1) ELSE N(j)
    BY <1>5, <2>1, <2>4 DEF Nth, N
  <2> HIDE DEF R
  <2>6. ASSUME NEW j \in 1 .. n PROVE next'[r[j]] = R(j + 1)
    <3>1. CASE j = n
      <4>1. r[j] = q[i] /\ i \in 1 .. n
        BY <2>4, <2>4a, <3>1
      <4>2. q[i] = p /\ q[i] # N(n) /\ q[i] \in Placements /\ N(n + 1) = NULL
        BY <1>4, <1>5, <2>1, <3>1, <4>1
      <4>3. next'[q[i]] = N(n + 1)
        BY <1>5, <2>3, <4>1, <4>2
      <4>4. R(j + 1) = N(n + 1)
        BY <1>5, <2>1, <2>5, <3>1, <4>2
      <4> QED
        BY <4>1, <4>3, <4>4
    <3>2. CASE j = n - 1
      <4>1. r[j] = q[n] /\ n \in 1 .. n
        BY <2>1, <2>4, <2>4a, <3>2
      <4>2. q[n] = N(n) /\ q[n] \in Placements
        BY <1>4, <1>5, <2>1, <3>2, <4>1
      <4>3. next'[q[n]] = p
        BY <1>5, <2>3, <4>1, <4>2
      <4>4. R(j + 1) = p
        BY <1>5, <2>1, <2>5, <3>2, <4>2
      <4> QED
        BY <4>1, <4>3, <4>4
    <3>3. CASE j = i - 1
      <4>1. r[j] = q[i - 1] /\ i - 1 \in 1 .. n
        BY <2>4, <2>4a, <3>3
      <4>2. q[i - 1] = N(i - 1) /\ q[i - 1] \notin {N(n), p} /\ q[i - 1] \in Placements
        BY <1>4, <1>5, <2>1, <3>3, <4>1
      <4>3. next'[q[i - 1]] = N(i + 1)
        BY <1>5, <2>3, <4>1, <4>2
      <4>4. R(j + 1) = N(i + 1)
        BY <1>5, <2>1, <2>5, <3>3, <4>2
      <4> QED
        BY <4>1, <4>3, <4>4
    <3>4. CASE j \in i .. n - 2
      <4>1. r[j] = q[j + 1] /\ j + 1 \in 1 .. n
        BY <2>4, <2>4a, <3>4
      <4>2. q[j + 1] \notin {N(n), N(i - 1), p} /\ q[j + 1] \in Placements /\ next[q[j + 1]] = N(j + 1 + 1)
        <5>1. j + 1 # n /\ j + 1 # i - 1 /\ j + 1 # i
          BY <1>5, <2>1, <3>4
        <5>2. q[j + 1] # N(n) /\ q[j + 1] # N(i - 1) /\ q[j + 1] # N(i)
          BY SMTT(40), <1>5, <2>1, <4>1, <5>1
        <5> QED
          BY <1>5, <2>1, <4>1, <5>2
      <4>3. next'[q[j + 1]] = N(j + 1 + 1)
        BY <1>5, <2>3, <4>1, <4>2
      <4>4. R(j + 1) = N(j + 1 + 1)
        BY <1>5, <2>1, <2>5, <3>4, <4>2
      <4> QED
        BY <4>1, <4>3, <4>4
    <3>5. CASE j < i - 1
      <4>1. r[j] = q[j] /\ j \in 1 .. n
        BY <2>4, <2>4a, <3>5
      <4>2. q[j] \notin {N(n), N(i - 1), p}
        BY <1>4, <1>5, <2>1, <3>5, <4>1
      <4>3. next'[q[j]] = N(j + 1)
        BY <1>5, <2>3, <4>1, <4>2
      <4>4. R(j + 1) = N(j + 1)
        BY <1>5, <2>1, <2>5, <3>5, <4>2
      <4> QED
        BY <4>1, <4>3, <4>4
    <3> QED
      BY <1>5, <2>1, <3>1, <3>2, <3>3, <3>4, <3>5
  <2>7. ASSUME NEW j \in 1 .. n PROVE previous'[r[j]] = R(j - 1)
    <3>1. CASE j = n
      <4>1. r[j] = q[i] /\ i \in 1 .. n
        BY <2>4, <2>4a, <3>1
      <4>2. q[i] = p /\ q[i] \in Placements
        BY <1>4, <1>5, <2>1, <3>1, <4>1
      <4>3. previous'[q[i]] = N(n)
        BY <1>5, <2>3, <4>1, <4>2
      <4>4. R(j - 1) = N(n)
        BY <1>5, <2>1, <2>5, <3>1, <4>2
      <4> QED
        BY <4>1, <4>3, <4>4
    <3>2. CASE j = i
      <4>1. r[j] = q[i + 1] /\ i + 1 \in 1 .. n
        BY <2>1, <2>4, <2>4a, <3>2
      <4>2. q[i + 1] = N(i + 1) /\ q[i + 1] # p /\ q[i + 1] \in Placements
        BY <1>4, <1>5, <2>1, <3>2, <4>1
      <4>3. previous'[q[i + 1]] = N(i - 1)
        BY <1>5, <2>3, <4>1, <4>2
      <4>4. R(j - 1) = N(i - 1)
        BY <1>5, <2>1, <2>5, <3>2, <4>2
      <4> QED
        BY <4>1, <4>3, <4>4
    <3>3. CASE j \in i + 1 .. n - 1
      <4>1. r[j] = q[j + 1] /\ j + 1 \in 1 .. n
        BY <2>4, <2>4a, <3>3
      <4>2. q[j + 1] \notin {N(i + 1), p} /\ q[j + 1] \in Placements /\ previous[q[j + 1]] = N(j)
        BY <1>4, <1>5, <2>1, <3>3, <4>1
      <4>3. previous'[q[j + 1]] = N(j)
        BY <1>5, <2>3, <4>1, <4>2
      <4>4. R(j - 1) = N(j)
        BY <1>5, <2>1, <2>5, <3>3, <4>2
      <4> QED
        BY <4>1, <4>3, <4>4
    <3>4. CASE j < i
      <4>1. r[j] = q[j] /\ j \in 1 .. n
        BY <2>4, <2>4a, <3>4
      <4>2. q[j] \notin {N(i + 1), p}
        BY <1>4, <1>5, <2>1, <3>4, <4>1
      <4>3. previous'[q[j]] = N(j - 1)
        BY <1>5, <2>3, <4>1, <4>2
      <4>4. R(j - 1) = N(j - 1)
        BY <1>5, <2>1, <2>5, <3>4, <4>2
      <4> QED
        BY <4>1, <4>3, <4>4
    <3> QED
      BY <1>5, <2>1, <3>1, <3>2, <3>3, <3>4
  <2>8. head'[c] = R(1)
    <3>1. i = 1 => N(i - 1) = NULL
      BY <1>5
    <3>2. i # 1 => N(i - 1) # NULL
      <4>1. i # 1 => i - 1 \in 1 .. n
        BY <1>4, <1>5
      <4> QED
        BY <1>5, <4>1
    <3> QED
      BY <1>4, <1>5, <2>1, <2>2, <2>5, <3>1, <3>2 DEF TypeOK
  <2>9. tail'[c] = R(n)
    BY <1>5, <2>1, <2>2, <2>5 DEF TypeOK
  <2>10. \A d \in Canvases : d # c => head'[d] = head[d] /\ tail'[d] = tail[d]
    BY <2>2 DEF TypeOK
  <2>11. ASSUME NEW x \in Placements, canvas[x] # c
         PROVE  next'[x] = next[x] /\ previous'[x] = previous[x]
    <3>1. \A j \in Int : x # N(j)
      BY <1>5, <2>11, LayerAssumption
    <3> QED
      BY <2>1, <2>3, <3>1
  <2>12. Rewired(c, r)
    BY <2>4, <2>6, <2>7, <2>8, <2>9, <2>10, <2>11 DEF Rewired, R
  <2>13. Reorders(q, r)
    <3>1. r = Order!ToBottom(q, i)
      BY <1>3, <1>4 DEF TypeOK
    <3>2. \A j, k \in 1 .. n : j # k => q[j] # q[k]
      BY <1>5
    <3> QED
      BY <1>4, <1>5, <2>1, <3>1, <3>2, ToBottomReorders
  <2>14. stack'[c] = r /\ \A d \in Canvases : d # c => stack'[d] = stack[d]
    BY <1>3, <1>4 DEF TypeOK
  <2>15. Restacked(c, r)
    BY <1>2, <1>6, <2>13, <2>14, Reordered
  <2> QED
    BY <2>12, <2>15, Relinked
<1> QED
  BY <1>7, <1>8

LEMMA PlaceLinks ==
  ASSUME TypeOK, ListIsStack, NEW c \in Canvases, NEW s \in Sprites, NEW p \in Placements,
         PlaceSprite(c, s, p)
  PROVE  ListIsStack'
<1>1. canvas[p] = NULL /\ c # NULL
  BY LayerAssumption DEF PlaceSprite, Live
<1>2. PICK q : q = stack[c]
  OBVIOUS
<1>3. PICK r : r = stack'[c]
  OBVIOUS
<1> DEFINE n == Len(q)
           N(j) == Nth(q, j)
<1>4. stack' = [stack EXCEPT ![c] = Order!OnTop(q, p)]
  BY <1>2 DEF PlaceSprite, Order!Place, Order!Replace
<1>5. /\ q \in Seq(Placements) /\ n \in Nat
      /\ \A j \in Int : N(j) \in Placements \union {NULL}
      /\ \A j \in 1 .. n : /\ q[j] \in Placements /\ q[j] # NULL /\ N(j) = q[j]
                           /\ canvas[q[j]] = c
                           /\ next[q[j]] = N(j + 1) /\ previous[q[j]] = N(j - 1)
      /\ \A j \in Int : j \notin 1 .. n => N(j) = NULL
      /\ \A j \in 1 .. n, k \in Int : q[j] = N(k) => j = k
      /\ \A j \in Int : N(j) # NULL => canvas[N(j)] = c
      /\ head[c] = N(1) /\ tail[c] = N(n)
  <2>1. Linked(c, stack[c]) /\ q = stack[c]
    BY <1>2 DEF ListIsStack
  <2>2. /\ q \in Seq(Placements) /\ n \in Nat
        /\ \A j \in Int : N(j) \in Placements \union {NULL}
        /\ \A j \in Int : j \notin 1 .. n => N(j) = NULL
    BY <2>1, Neighbours
  <2>3. \A j \in 1 .. n : /\ q[j] \in Placements /\ q[j] # NULL /\ N(j) = q[j]
                          /\ canvas[q[j]] = c
                          /\ next[q[j]] = N(j + 1) /\ previous[q[j]] = N(j - 1)
    BY <2>1, Neighbours
  <2>4. \A j \in 1 .. n, k \in Int : q[j] = N(k) => j = k
    BY <2>1, Neighbours
  <2>5. \A j \in Int : N(j) # NULL => canvas[N(j)] = c
    BY <2>1, Neighbours
  <2>6. head[c] = N(1) /\ tail[c] = N(n)
    BY <2>1, Neighbours
  <2> QED
    BY <2>2, <2>3, <2>4, <2>5, <2>6
<1> HIDE DEF N
<1>6. canvas' = [canvas EXCEPT ![p] = c]
  BY DEF PlaceSprite
<1>7. n \in Int /\ (\A j \in 1 .. n : q[j] # p) /\ (\A j \in Int : N(j) # p)
  <2>1. p # NULL
    BY LayerAssumption
  <2>2. \A j \in 1 .. n : q[j] # p
    BY <1>1, <1>5
  <2>3. \A j \in Int : N(j) # p
    BY <1>1, <1>5, <2>1
  <2> QED
    BY <1>5, <2>2, <2>3
<1>8. \A x \in Placements :
         /\ next'[x] = IF x = p THEN N(1) ELSE next[x]
         /\ previous'[x] = IF x = N(1) THEN p ELSE IF x = p THEN NULL ELSE previous[x]
  <2>1. /\ next' = [next EXCEPT ![p] = N(1)]
        /\ previous' = Assign([previous EXCEPT ![p] = NULL], N(1), p)
    BY <1>5 DEF PlaceSprite
  <2> QED
    BY <1>5, <1>7, <2>1, LayerAssumption DEF Assign, TypeOK
<1>9. /\ Len(r) = n + 1
      /\ \A j \in 1 .. n + 1 : r[j] = IF j = 1 THEN p ELSE q[j - 1]
  <2>1. r = Order!OnTop(q, p)
    BY <1>3, <1>4 DEF TypeOK
  <2>2. q \in Seq(Placements)
    BY <1>5
  <2>3. /\ Len(Order!OnTop(q, p)) = n + 1
        /\ \A j \in 1 .. n + 1 : Order!OnTop(q, p)[j] = IF j = 1 THEN p ELSE q[j - 1]
    BY <2>2, OnTopStack
  <2> QED
    BY <2>1, <2>3
<1> DEFINE R(j) == Nth(r, j)
<1>10. \A j \in Int : R(j) = IF j = 1 THEN p ELSE N(j - 1)
  BY <1>5, <1>7, <1>9 DEF Nth, N
<1> HIDE DEF R
<1>11. ASSUME NEW j \in 1 .. n + 1 PROVE next'[r[j]] = R(j + 1)
  <2>1. CASE j = 1
    <3>1. R(j + 1) = N(1)
      BY <1>7, <1>10, <2>1
    <3> QED
      BY <1>7, <1>8, <1>9, <2>1, <3>1
  <2>2. CASE j # 1
    <3>1. r[j] = q[j - 1] /\ j - 1 \in 1 .. n
      BY <1>7, <1>9, <2>2
    <3>2. next[q[j - 1]] = N(j - 1 + 1) /\ j - 1 + 1 = j /\ j = j + 1 - 1
      BY <1>5, <3>1
    <3>3. next'[q[j - 1]] = N(j)
      BY <1>5, <1>7, <1>8, <3>1, <3>2
    <3>4. R(j + 1) = N(j)
      BY <1>7, <1>10, <3>1, <3>2
    <3> QED
      BY <3>1, <3>3, <3>4
  <2> QED
    BY <2>1, <2>2
<1>12. ASSUME NEW j \in 1 .. n + 1 PROVE previous'[r[j]] = R(j - 1)
  <2>1. CASE j = 1
    <3>1. R(j - 1) = NULL
      BY <1>5, <1>7, <1>10, <2>1
    <3> QED
      BY <1>7, <1>8, <1>9, <2>1, <3>1
  <2>2. CASE j = 2
    <3>1. r[j] = q[1] /\ 1 \in 1 .. n /\ q[1] = N(1)
      BY <1>5, <1>7, <1>9, <2>2
    <3>2. R(j - 1) = p
      BY <1>7, <1>10, <2>2
    <3> QED
      BY <1>5, <1>8, <3>1, <3>2
  <2>3. CASE j > 2
    <3>1. r[j] = q[j - 1] /\ j - 1 \in 1 .. n /\ j - 1 # 1
      BY <1>7, <1>9, <2>3
    <3>2. q[j - 1] # N(1) /\ previous[q[j - 1]] = N(j - 1 - 1)
      BY <1>5, <3>1
    <3>3. previous'[q[j - 1]] = N(j - 1 - 1)
      BY <1>5, <1>7, <1>8, <3>1, <3>2
    <3>4. R(j - 1) = N(j - 1 - 1)
      BY <1>7, <1>10, <3>1
    <3> QED
      BY <3>1, <3>3, <3>4
  <2> QED
    BY <1>7, <2>1, <2>2, <2>3
<1>13. /\ head' = [head EXCEPT ![c] = p]
       /\ tail' = IF N(1) = NULL THEN [tail EXCEPT ![c] = p] ELSE tail
  BY <1>5 DEF PlaceSprite
<1>14. head'[c] = R(1)
  BY <1>10, <1>13 DEF TypeOK
<1>15. tail'[c] = R(n + 1)
  <2>1. CASE n = 0
    BY <1>5, <1>10, <1>13, <2>1 DEF TypeOK
  <2>2. CASE n # 0
    <3>1. 1 \in 1 .. n /\ N(1) # NULL /\ n + 1 # 1 /\ n + 1 - 1 = n /\ n + 1 \in Int
      BY <1>5, <2>2
    <3>2. R(n + 1) = N(n)
      BY <1>10, <3>1
    <3> QED
      BY <1>5, <1>13, <3>1, <3>2
  <2> QED
    BY <2>1, <2>2
<1>16. \A d \in Canvases : d # c => head'[d] = head[d] /\ tail'[d] = tail[d]
  BY <1>13 DEF TypeOK
<1>17. ASSUME NEW x \in Placements, canvas[x] \in Canvases, canvas[x] # c
       PROVE  next'[x] = next[x] /\ previous'[x] = previous[x] /\ canvas'[x] = canvas[x]
  <2>1. x # p /\ x # N(1)
    BY <1>1, <1>5, <1>17, LayerAssumption
  <2> QED
    BY <1>6, <1>8, <2>1 DEF TypeOK
<1>18. Rewired(c, r)
  BY <1>9, <1>11, <1>12, <1>14, <1>15, <1>16, <1>17 DEF Rewired, R
<1>19. \A j, k \in 1 .. Len(r) : j # k => r[j] # r[k]
  <2>1. \A j, k \in 1 .. n : j # k => q[j] # q[k]
    BY <1>5
  <2> QED
    BY SMTT(40), <1>7, <1>9, <2>1
<1>20. ASSUME NEW j \in 1 .. Len(r) PROVE canvas'[r[j]] = c
  <2>1. CASE j = 1
    BY <1>6, <1>7, <1>9, <2>1 DEF TypeOK
  <2>2. CASE j # 1
    <3>1. j - 1 \in 1 .. n /\ r[j] = q[j - 1]
      BY <1>7, <1>9, <2>2
    <3> QED
      BY <1>5, <1>6, <1>7, <3>1 DEF TypeOK
  <2> QED
    BY <2>1, <2>2
<1>21. ASSUME NEW x \in Placements, canvas'[x] = c PROVE \E j \in 1 .. Len(r) : r[j] = x
  <2>1. CASE x = p
    <3>1. 1 \in 1 .. Len(r) /\ r[1] = x
      BY <1>5, <1>9, <2>1
    <3> QED
      BY <3>1
  <2>2. CASE x # p
    <3>1. PICK k \in 1 .. n : q[k] = x
      BY <1>2, <1>6, <1>21, <2>2, OnList DEF TypeOK
    <3>2. k + 1 \in 1 .. Len(r) /\ r[k + 1] = x
      BY <1>5, <1>9, <3>1
    <3> QED
      BY <3>2
  <2> QED
    BY <2>1, <2>2
<1>22. stack'[c] = r /\ \A d \in Canvases : d # c => stack'[d] = stack[d]
  BY <1>3, <1>4 DEF TypeOK
<1>23. \A x \in Placements : canvas'[x] \in Canvases /\ canvas'[x] # c => canvas[x] = canvas'[x]
  BY <1>6 DEF TypeOK
<1>24. Restacked(c, r)
  BY <1>17, <1>19, <1>20, <1>21, <1>22, <1>23 DEF Restacked
<1> QED
  BY <1>18, <1>24, Relinked

LEMMA DestroyLinks ==
  ASSUME TypeOK, ListIsStack, NEW p \in Placements, DestroyPlacement(p)
  PROVE  ListIsStack'
<1>1. PICK c \in Canvases : c = canvas[p]
  BY Placed DEF DestroyPlacement
<1>2. PICK q : q = stack[c]
  OBVIOUS
<1>3. PICK r : r = stack'[c]
  OBVIOUS
<1> DEFINE n == Len(q)
           N(j) == Nth(q, j)
<1>4. PICK i \in 1 .. n : q[i] = p /\ stack' = [stack EXCEPT ![c] = Order!Without(q, i)]
  BY <1>1, <1>2, StackTyped DEF DestroyPlacement, Moves, Order!Remove, Order!Replace
<1>5. /\ q \in Seq(Placements) /\ n \in Nat
      /\ \A j \in Int : N(j) \in Placements \union {NULL}
      /\ \A j \in 1 .. n : /\ q[j] \in Placements /\ q[j] # NULL /\ N(j) = q[j]
                           /\ canvas[q[j]] = c
                           /\ next[q[j]] = N(j + 1) /\ previous[q[j]] = N(j - 1)
      /\ \A j \in Int : j \notin 1 .. n => N(j) = NULL
      /\ \A j \in 1 .. n, k \in Int : q[j] = N(k) => j = k
      /\ \A j \in Int : N(j) # NULL => canvas[N(j)] = c
      /\ head[c] = N(1) /\ tail[c] = N(n)
  BY SMTT(40), <1>2, Neighbours DEF ListIsStack
<1> HIDE DEF N
<1>6. canvas' = [canvas EXCEPT ![p] = NULL]
  BY DEF DestroyPlacement
<1>7. /\ i \in Int /\ n \in Int /\ p = N(i) /\ N(i) = q[i]
      /\ previous[p] = N(i - 1) /\ next[p] = N(i + 1)
  BY <1>4, <1>5
<1>8. \A x \in Placements :
         /\ next'[x] = IF x = p THEN NULL ELSE IF x = N(i - 1) THEN N(i + 1) ELSE next[x]
         /\ previous'[x] = IF x = p THEN NULL ELSE IF x = N(i + 1) THEN N(i - 1)
                           ELSE previous[x]
  <2>1. /\ next' = [Assign(next, N(i - 1), N(i + 1)) EXCEPT ![p] = NULL]
        /\ previous' = [Assign(previous, N(i + 1), N(i - 1)) EXCEPT ![p] = NULL]
    BY <1>1, <1>7 DEF DestroyPlacement
  <2> QED
    BY <1>5, <1>7, <2>1, LayerAssumption DEF Assign, TypeOK
<1>9. /\ Len(r) = n - 1
      /\ \A j \in 1 .. n - 1 : r[j] = IF j < i THEN q[j] ELSE q[j + 1]
  <2>1. r = Order!Without(q, i)
    BY <1>3, <1>4 DEF TypeOK
  <2>2. q \in Seq(Placements) /\ i \in 1 .. Len(q) /\ n = Len(q)
    BY <1>4, <1>5
  <2> QED
    BY <2>1, <2>2, WithoutStack
<1> DEFINE R(j) == Nth(r, j)
<1>10. \A j \in Int : R(j) = IF j < i THEN N(j) ELSE N(j + 1)
  BY <1>4, <1>5, <1>7, <1>9 DEF Nth, N
<1> HIDE DEF R
<1>11. ASSUME NEW j \in 1 .. n - 1 PROVE next'[r[j]] = R(j + 1)
  <2>1. CASE j = i - 1
    <3>1. r[j] = q[i - 1] /\ i - 1 \in 1 .. n
      BY <1>4, <1>5, <1>7, <1>9, <2>1
    <3>2. q[i - 1] = N(i - 1) /\ q[i - 1] # p /\ q[i - 1] \in Placements
      BY <1>4, <1>5, <1>7, <2>1, <3>1
    <3>3. next'[q[i - 1]] = N(i + 1)
      BY <1>5, <1>8, <3>1, <3>2
    <3>4. R(j + 1) = N(i + 1)
      BY <1>5, <1>7, <1>10, <2>1, <3>2
    <3> QED
      BY <3>1, <3>3, <3>4
  <2>2. CASE j < i - 1
    <3>1. r[j] = q[j] /\ j \in 1 .. n
      BY <1>4, <1>5, <1>7, <1>9, <2>2
    <3>2. q[j] # N(i - 1) /\ q[j] # p
      BY <1>4, <1>5, <1>7, <2>2, <3>1
    <3>3. next'[q[j]] = N(j + 1)
      BY <1>5, <1>8, <3>1, <3>2
    <3>4. R(j + 1) = N(j + 1)
      BY <1>5, <1>7, <1>10, <2>2, <3>2
    <3> QED
      BY <3>1, <3>3, <3>4
  <2>3. CASE j \in i .. n - 1
    <3>1. r[j] = q[j + 1] /\ j + 1 \in 1 .. n
      BY <1>4, <1>5, <1>7, <1>9, <2>3
    <3>2. q[j + 1] # N(i - 1) /\ q[j + 1] # p /\ q[j + 1] \in Placements
      BY <1>4, <1>5, <1>7, <2>3, <3>1
    <3>3. next'[q[j + 1]] = N(j + 1 + 1)
      BY <1>5, <1>8, <3>1, <3>2
    <3>4. R(j + 1) = N(j + 1 + 1)
      BY <1>5, <1>7, <1>10, <2>3, <3>2
    <3> QED
      BY <3>1, <3>3, <3>4
  <2> QED
    BY <1>5, <1>7, <2>1, <2>2, <2>3
<1>12. ASSUME NEW j \in 1 .. n - 1 PROVE previous'[r[j]] = R(j - 1)
  <2>1. CASE j = i
    <3>1. r[j] = q[i + 1] /\ i + 1 \in 1 .. n
      BY <1>4, <1>5, <1>7, <1>9, <2>1
    <3>2. q[i + 1] = N(i + 1) /\ q[i + 1] # p /\ q[i + 1] \in Placements /\ j - 1 \in Int /\ j - 1 = i - 1
      BY <1>4, <1>5, <1>7, <2>1, <3>1
    <3>3. previous'[q[i + 1]] = N(i - 1)
      BY <1>5, <1>8, <3>1, <3>2
    <3>4. R(j - 1) = N(i - 1)
      BY <1>5, <1>7, <1>10, <2>1, <3>2
    <3> QED
      BY <3>1, <3>3, <3>4
  <2>2. CASE j < i
    <3>1. r[j] = q[j] /\ j \in 1 .. n
      BY <1>4, <1>5, <1>7, <1>9, <2>2
    <3>2. q[j] # N(i + 1) /\ q[j] # p
      BY <1>4, <1>5, <1>7, <2>2, <3>1
    <3>3. previous'[q[j]] = N(j - 1)
      BY <1>5, <1>8, <3>1, <3>2
    <3>4. R(j - 1) = N(j - 1)
      BY <1>5, <1>7, <1>10, <2>2, <3>2
    <3> QED
      BY <3>1, <3>3, <3>4
  <2>3. CASE j \in i + 1 .. n - 1
    <3>1. r[j] = q[j + 1] /\ j + 1 \in 1 .. n
      BY <1>4, <1>5, <1>7, <1>9, <2>3
    <3>2. q[j + 1] # N(i + 1) /\ q[j + 1] # p /\ q[j + 1] \in Placements /\ previous[q[j + 1]] = N(j)
      BY <1>4, <1>5, <1>7, <2>3, <3>1
    <3>3. previous'[q[j + 1]] = N(j)
      BY <1>5, <1>8, <3>1, <3>2
    <3>4. R(j - 1) = N(j)
      BY <1>5, <1>7, <1>10, <2>3, <3>2
    <3> QED
      BY <3>1, <3>3, <3>4
  <2> QED
    BY <1>5, <1>7, <2>1, <2>2, <2>3
<1>13. /\ head' = IF N(i - 1) = NULL THEN [head EXCEPT ![c] = N(i + 1)] ELSE head
       /\ tail' = IF N(i + 1) = NULL THEN [tail EXCEPT ![c] = N(i - 1)] ELSE tail
  BY <1>1, <1>7 DEF DestroyPlacement
<1>14. head'[c] = R(1)
  <2>1. CASE i = 1
    BY <1>5, <1>7, <1>10, <1>13, <2>1 DEF TypeOK
  <2>2. CASE i # 1
    <3>1. i - 1 \in 1 .. n /\ N(i - 1) # NULL /\ 1 < i
      BY <1>4, <1>5, <1>7, <2>2
    <3>2. R(1) = N(1)
      BY <1>7, <1>10, <3>1
    <3> QED
      BY <1>5, <1>13, <3>1, <3>2
  <2> QED
    BY <2>1, <2>2
<1>15. tail'[c] = R(n - 1)
  <2>1. CASE i = n
    BY <1>5, <1>7, <1>10, <1>13, <2>1 DEF TypeOK
  <2>2. CASE i # n
    <3>1. i + 1 \in 1 .. n /\ N(i + 1) # NULL /\ ~(n - 1 < i) /\ n - 1 + 1 = n /\ n - 1 \in Int
      BY <1>4, <1>5, <1>7, <2>2
    <3>2. R(n - 1) = N(n)
      BY <1>7, <1>10, <3>1
    <3> QED
      BY <1>5, <1>13, <3>1, <3>2
  <2> QED
    BY <2>1, <2>2
<1>16. \A d \in Canvases : d # c => head'[d] = head[d] /\ tail'[d] = tail[d]
  BY <1>13 DEF TypeOK
<1>17. ASSUME NEW x \in Placements, canvas[x] \in Canvases, canvas[x] # c
       PROVE  next'[x] = next[x] /\ previous'[x] = previous[x] /\ canvas'[x] = canvas[x]
  <2>1. x # NULL
    BY LayerAssumption
  <2>2. \A j \in Int : x # N(j)
    BY <1>5, <1>17, <2>1
  <2> QED
    BY <1>6, <1>7, <1>8, <2>2 DEF TypeOK
<1>18. Rewired(c, r)
  BY <1>9, <1>11, <1>12, <1>14, <1>15, <1>16, <1>17 DEF Rewired, R
<1>19. \A j, k \in 1 .. Len(r) : j # k => r[j] # r[k]
  BY SMTT(40), <1>5, <1>7, <1>9
<1>20. ASSUME NEW j \in 1 .. Len(r) PROVE canvas'[r[j]] = c
  <2>1. PICK k \in 1 .. n : r[j] = q[k] /\ k # i
    BY <1>4, <1>5, <1>7, <1>9
  <2> QED
    BY <1>5, <1>6, <1>7, <2>1 DEF TypeOK
<1>21. ASSUME NEW x \in Placements, canvas'[x] = c PROVE \E j \in 1 .. Len(r) : r[j] = x
  <2>1. x # p /\ canvas[x] = c
    BY <1>6, <1>21, LayerAssumption DEF TypeOK
  <2>2. PICK k \in 1 .. n : q[k] = x
    BY <1>2, <2>1, OnList
  <2>3. CASE k < i
    <3>1. k \in 1 .. Len(r) /\ r[k] = x
      BY <1>4, <1>5, <1>7, <1>9, <2>2, <2>3
    <3> QED
      BY <3>1
  <2>4. CASE k > i
    <3>1. k - 1 \in 1 .. Len(r) /\ r[k - 1] = x
      BY <1>4, <1>5, <1>7, <1>9, <2>2, <2>4
    <3> QED
      BY <3>1
  <2> QED
    BY <1>4, <1>5, <1>7, <2>1, <2>2, <2>3, <2>4
<1>22. stack'[c] = r /\ \A d \in Canvases : d # c => stack'[d] = stack[d]
  BY <1>3, <1>4 DEF TypeOK
<1>23. \A x \in Placements : canvas'[x] \in Canvases /\ canvas'[x] # c => canvas[x] = canvas'[x]
  BY <1>6, LayerAssumption DEF TypeOK
<1>24. Restacked(c, r)
  BY <1>17, <1>19, <1>20, <1>21, <1>22, <1>23 DEF Restacked
<1> QED
  BY <1>18, <1>24, Relinked

-------------------------------------------------------------------------------
(* Canvases *)

LEMMA NatMin ==
  ASSUME NEW T \in SUBSET Nat, T # {}
  PROVE  \E n \in T : \A m \in T : n <= m
<1> DEFINE R == {ss \in Nat \X Nat : ss[1] < ss[2]}
<1>1. IsWellFoundedOn(R, Nat)
  BY NatLessThanWellFounded, Zenon DEF OpToRel
<1>2. PICK n \in T : \A m \in T : ~(<<m, n>> \in R)
  <2> HIDE DEF R
  <2> QED
    BY <1>1, WFMin, Zenon
<1>3. ASSUME NEW m \in T PROVE n <= m
  <2>1. n \in Nat /\ m \in Nat
    OBVIOUS
  <2>2. <<m, n>> \in Nat \X Nat
    BY <2>1, Zenon
  <2>3. <<m, n>>[1] = m /\ <<m, n>>[2] = n
    BY Zenon
  <2>4. ~(<<m, n>>[1] < <<m, n>>[2])
    BY <1>2, <2>2, Zenon
  <2> QED
    BY <2>1, <2>3, <2>4
<1> QED
  BY <1>3

(* The walk of animate_destroy_canvas reaches what is on the canvas: a set *)
(* that holds the head and is closed under next holds every placement of   *)
(* the list, since there is no first one it misses.                        *)
LEMMA ReachedIsList ==
  ASSUME TypeOK, ListIsStack, NEW c \in Canvases
  PROVE  Reached(c) = {p \in Placements : canvas[p] = c}
<1>1. PICK q : q = stack[c]
  OBVIOUS
<1>2. Linked(c, stack[c])
  BY DEF ListIsStack
<1>3. /\ Len(q) \in Nat
      /\ \A j \in 1 .. Len(q) :
            /\ q[j] \in Placements /\ q[j] # NULL /\ Nth(q, j) = q[j]
            /\ canvas[q[j]] = c /\ next[q[j]] = Nth(q, j + 1)
      /\ \A j \in Int : j \notin 1 .. Len(q) => Nth(q, j) = NULL
      /\ \A j \in Int : Nth(q, j) \in Placements \union {NULL}
      /\ \A j \in Int : Nth(q, j) # NULL => canvas[Nth(q, j)] = c
      /\ head[c] = Nth(q, 1)
  BY <1>1, <1>2, Neighbours
<1>4. ASSUME NEW p \in Reached(c) PROVE p \in Placements /\ canvas[p] = c
  <2> DEFINE S == {x \in Placements : canvas[x] = c}
  <2>1. head[c] # NULL => head[c] \in S
    BY <1>3
  <2>2. ASSUME NEW x \in S, next[x] # NULL PROVE next[x] \in S
    <3>1. PICK j \in 1 .. Len(q) : q[j] = x
      BY <1>1, OnList
    <3>2. next[x] = Nth(q, j + 1) /\ j + 1 \in Int
      BY <1>3, <3>1
    <3> QED
      BY <1>3, <2>2, <3>2
  <2>3. S \in SUBSET Placements
    OBVIOUS
  <2> HIDE DEF S
  <2>4. p \in S
    BY <2>1, <2>2, <2>3 DEF Reached
  <2> QED
    BY <2>4 DEF S
<1>5. ASSUME NEW p \in Placements, canvas[p] = c PROVE p \in Reached(c)
  <2>1. PICK k \in 1 .. Len(q) : q[k] = p
    BY <1>1, <1>5, OnList
  <2>2. SUFFICES ASSUME NEW S \in SUBSET Placements,
                        head[c] # NULL => head[c] \in S,
                        \A x \in S : next[x] # NULL => next[x] \in S,
                        p \notin S
                 PROVE  FALSE
    BY DEF Reached
  <2> DEFINE T == {j \in 1 .. Len(q) : q[j] \notin S}
  <2>3. T \in SUBSET Nat /\ T # {}
    BY <1>3, <2>1, <2>2
  <2>4. PICK m \in T : \A j \in T : m <= j
    <3> HIDE DEF T
    <3> QED
      BY <2>3, NatMin
  <2>5. m \in 1 .. Len(q) /\ q[m] \notin S /\ m \in Int /\ Nth(q, m) = q[m] /\ q[m] # NULL
    BY <1>3
  <2>6. CASE m = 1
    BY <1>3, <2>2, <2>5, <2>6
  <2>7. CASE m # 1
    <3>1. m - 1 \in 1 .. Len(q) /\ m - 1 + 1 = m
      BY <1>3, <2>5, <2>7
    <3>2. q[m - 1] \in S
      BY <2>4, <2>5, <3>1
    <3>3. next[q[m - 1]] = q[m]
      BY <1>3, <2>5, <3>1
    <3> QED
      BY <2>2, <2>5, <3>2, <3>3
  <2> QED
    BY <2>6, <2>7
<1>6. Reached(c) \subseteq Placements
  BY DEF Reached
<1> QED
  BY <1>4, <1>5, <1>6

LEMMA DestroyCanvasLinks ==
  ASSUME TypeOK, ListIsStack, NEW c \in Canvases, DestroyCanvas(c)
  PROVE  ListIsStack'
<1>1. PICK r : r = <<>>
  OBVIOUS
<1>2. Len(r) = 0 /\ \A j \in Int : Nth(r, j) = NULL
  BY <1>1 DEF Nth
<1>3. \A x \in Placements :
         /\ canvas[x] = c => canvas'[x] = NULL
         /\ canvas[x] # c => canvas'[x] = canvas[x] /\ next'[x] = next[x]
                             /\ previous'[x] = previous[x]
  BY ReachedIsList DEF DestroyCanvas
<1>4. head'[c] = NULL /\ tail'[c] = NULL
      /\ \A d \in Canvases : d # c => head'[d] = head[d] /\ tail'[d] = tail[d]
  BY DEF DestroyCanvas, TypeOK
<1>5. stack'[c] = r /\ \A d \in Canvases : d # c => stack'[d] = stack[d]
  BY <1>1 DEF DestroyCanvas, Order!Clear, Order!Replace, TypeOK
<1>6. c # NULL /\ NULL \notin Canvases
  BY LayerAssumption
<1>7. Restacked(c, r)
  BY <1>2, <1>3, <1>5, <1>6 DEF Restacked
<1>8. Rewired(c, r)
  BY <1>2, <1>3, <1>4 DEF Rewired
<1> QED
  BY <1>7, <1>8, Relinked

(* An address that is given to a new canvas has an empty list already.     *)
LEMMA CreateCanvasLinks ==
  ASSUME TypeOK, ListIsStack, CountsPlacements, NEW c \in Canvases, CreateCanvas(c)
  PROVE  ListIsStack'
<1>1. PICK q : q = stack[c]
  OBVIOUS
<1>2. Linked(c, q) /\ Len(q) \in Nat /\ \A j \in 1 .. Len(q) : q[j] \in Placements
  BY <1>1, StackTyped DEF ListIsStack
<1>3. \A p \in Placements : canvas[p] # c
  BY LayerAssumption DEF CountsPlacements, Live, CreateCanvas
<1>4. 1 .. Len(q) = {}
  BY <1>2, <1>3 DEF Linked
<1>5. head[c] = NULL /\ tail[c] = NULL
  BY <1>2, <1>4 DEF Linked, Nth
<1>6. head' = head /\ tail' = tail
  BY <1>5 DEF CreateCanvas, TypeOK
<1>7. UNCHANGED <<canvas, next, previous, head, tail, stack>>
  BY <1>6 DEF CreateCanvas
<1> QED
  BY <1>7 DEF ListIsStack, Linked

-------------------------------------------------------------------------------
(* Types: the stacks *)

LEMMA UpStack ==
  ASSUME TypeOK, ListIsStack, NEW p \in Placements, PlacementUp(p)
  PROVE  stack' \in [Canvases -> Seq(Placements)]
<1>1. PICK c \in Canvases : c = canvas[p]
  BY Placed DEF PlacementUp
<1>2. PICK q \in Seq(Placements) : q = stack[c] /\ Len(q) \in Nat
  BY StackTyped
<1>3. PICK i \in 1 .. Len(q) : stack' = [stack EXCEPT ![c] = Order!Raised(q, i)]
  BY <1>1, <1>2, StackTyped DEF PlacementUp, Moves, Order!Up, Order!Replace
<1>4. Order!Raised(q, i) \in Seq(Placements)
  <2>1. CASE i = 1
    BY <1>2, <2>1 DEF Order!Raised
  <2>2. CASE i # 1
    BY <1>2, <2>2, RaisedStack
  <2> QED
    BY <2>1, <2>2
<1> QED
  BY <1>3, <1>4 DEF TypeOK

LEMMA DownStack ==
  ASSUME TypeOK, ListIsStack, NEW p \in Placements, PlacementDown(p)
  PROVE  stack' \in [Canvases -> Seq(Placements)]
<1>1. PICK c \in Canvases : c = canvas[p]
  BY Placed DEF PlacementDown
<1>2. PICK q \in Seq(Placements) : q = stack[c] /\ Len(q) \in Nat
  BY StackTyped
<1>3. PICK i \in 1 .. Len(q) : stack' = [stack EXCEPT ![c] = Order!Lowered(q, i)]
  BY <1>1, <1>2, StackTyped DEF PlacementDown, Moves, Order!Down, Order!Replace
<1>4. Order!Lowered(q, i) \in Seq(Placements)
  <2>1. CASE i = Len(q)
    BY <1>2, <2>1 DEF Order!Lowered
  <2>2. CASE i # Len(q)
    BY <1>2, <2>2, LoweredStack
  <2> QED
    BY <2>1, <2>2
<1> QED
  BY <1>3, <1>4 DEF TypeOK

LEMMA TopStack ==
  ASSUME TypeOK, ListIsStack, NEW p \in Placements, PlacementTop(p)
  PROVE  stack' \in [Canvases -> Seq(Placements)]
<1>1. PICK c \in Canvases : c = canvas[p]
  BY Placed DEF PlacementTop
<1>2. PICK q \in Seq(Placements) : q = stack[c] /\ Len(q) \in Nat
  BY StackTyped
<1>3. PICK i \in 1 .. Len(q) : stack' = [stack EXCEPT ![c] = Order!ToTop(q, i)]
  BY <1>1, <1>2, StackTyped DEF PlacementTop, Moves, Order!Top, Order!Replace
<1>4. Order!ToTop(q, i) \in Seq(Placements)
  BY <1>2, ToTopStack
<1> QED
  BY <1>3, <1>4 DEF TypeOK

LEMMA BottomStack ==
  ASSUME TypeOK, ListIsStack, NEW p \in Placements, PlacementBottom(p)
  PROVE  stack' \in [Canvases -> Seq(Placements)]
<1>1. PICK c \in Canvases : c = canvas[p]
  BY Placed DEF PlacementBottom
<1>2. PICK q \in Seq(Placements) : q = stack[c] /\ Len(q) \in Nat
  BY StackTyped
<1>3. PICK i \in 1 .. Len(q) : stack' = [stack EXCEPT ![c] = Order!ToBottom(q, i)]
  BY <1>1, <1>2, StackTyped DEF PlacementBottom, Moves, Order!Bottom, Order!Replace
<1>4. Order!ToBottom(q, i) \in Seq(Placements)
  BY <1>2, ToBottomStack
<1> QED
  BY <1>3, <1>4 DEF TypeOK

LEMMA DestroyStack ==
  ASSUME TypeOK, ListIsStack, NEW p \in Placements, DestroyPlacement(p)
  PROVE  stack' \in [Canvases -> Seq(Placements)]
<1>1. PICK c \in Canvases : c = canvas[p]
  BY Placed DEF DestroyPlacement
<1>2. PICK q \in Seq(Placements) : q = stack[c] /\ Len(q) \in Nat
  BY StackTyped
<1>3. PICK i \in 1 .. Len(q) : stack' = [stack EXCEPT ![c] = Order!Without(q, i)]
  BY <1>1, <1>2, StackTyped DEF DestroyPlacement, Moves, Order!Remove, Order!Replace
<1>4. Order!Without(q, i) \in Seq(Placements)
  BY <1>2, WithoutStack
<1> QED
  BY <1>3, <1>4 DEF TypeOK

LEMMA PlaceStack ==
  ASSUME TypeOK, NEW c \in Canvases, NEW s \in Sprites, NEW p \in Placements,
         PlaceSprite(c, s, p)
  PROVE  stack' \in [Canvases -> Seq(Placements)]
<1>1. stack[c] \in Seq(Placements)
  BY DEF TypeOK
<1>2. Order!OnTop(stack[c], p) \in Seq(Placements)
  BY <1>1, OnTopStack
<1> QED
  BY <1>2 DEF PlaceSprite, Order!Place, Order!Replace, TypeOK

-------------------------------------------------------------------------------
(* Counts *)

(* The placements that point to a sprite. *)
Users(s) == {p \in Placements : sprite[p] = s}

(* The placements that an operation takes away from a sprite, or gives it. *)
LEMMA UsersFinite ==
  ASSUME NEW s
  PROVE  IsFiniteSet(Users(s)) /\ Cardinality(Users(s)) \in Nat
<1>1. Users(s) \in SUBSET Placements
  BY DEF Users
<1>2. IsFiniteSet(Users(s))
  BY <1>1, LayerAssumption, FS_Subset
<1> QED
  BY <1>2, FS_CardinalityType

(* A sprite that is not allocated has no users, so its count may be set to *)
(* 0 when its address is used again.                                       *)
LEMMA NoUsers ==
  ASSUME TypeOK, CountsPlacements, FreeIsCleared, NEW s \in Sprites, s \notin sprites
  PROVE  Users(s) = {} /\ Cardinality(Users(s)) = 0
<1>1. Users(s) = {}
  BY LayerAssumption DEF Users, CountsPlacements, FreeIsCleared, TypeOK
<1> QED
  BY <1>1, FS_EmptySet

LEMMA PlaceCounts ==
  ASSUME TypeOK, ListInv, NEW c \in Canvases, NEW s \in Sprites, NEW p \in Placements,
         PlaceSprite(c, s, p)
  PROVE  CountsPlacements' /\ FreeIsCleared' /\ count' \in [Sprites -> Nat]
<1>1. /\ sprite[p] = NULL /\ canvas[p] = NULL /\ s # NULL /\ c # NULL
      /\ s \in sprites /\ c \in canvases
  BY LayerAssumption DEF PlaceSprite, ListInv, FreeIsCleared, Live
<1>2. /\ sprite' = [sprite EXCEPT ![p] = s] /\ canvas' = [canvas EXCEPT ![p] = c]
      /\ count' = [count EXCEPT ![s] = @ + 1]
      /\ sprites' = sprites /\ canvases' = canvases
  BY DEF PlaceSprite
<1>3. ASSUME NEW t \in sprites' PROVE count'[t] = Cardinality(Users(t)')
  <2>1. count[t] = Cardinality(Users(t)) /\ t \in Sprites
    BY <1>2 DEF ListInv, CountsPlacements, Users, TypeOK
  <2>2. CASE t = s
    <3>1. Users(t)' = Users(t) \union {p} /\ p \notin Users(t)
      BY <1>1, <1>2, <2>2 DEF Users, TypeOK
    <3>2. Cardinality(Users(t) \union {p}) = Cardinality(Users(t)) + 1
      BY <3>1, UsersFinite, FS_AddElement
    <3> QED
      BY <1>2, <2>1, <2>2, <3>1, <3>2 DEF TypeOK
  <2>3. CASE t # s
    <3>1. Users(t)' = Users(t)
      BY <1>1, <1>2, <2>1, <2>3, LayerAssumption DEF Users, TypeOK
    <3> QED
      BY <1>2, <2>1, <2>3, <3>1 DEF TypeOK
  <2> QED
    BY <2>2, <2>3
<1>4. ASSUME NEW x \in Live' PROVE sprite'[x] \in sprites' /\ canvas'[x] \in canvases'
  BY <1>1, <1>2 DEF ListInv, CountsPlacements, Live, TypeOK
<1>5. FreeIsCleared'
  BY <1>1, <1>2 DEF ListInv, FreeIsCleared, Live, TypeOK
<1>6. count' \in [Sprites -> Nat]
  BY <1>2 DEF TypeOK
<1> QED
  BY <1>3, <1>4, <1>5, <1>6 DEF CountsPlacements, Users

LEMMA DestroyCounts ==
  ASSUME TypeOK, ListInv, NEW p \in Placements, DestroyPlacement(p)
  PROVE  CountsPlacements' /\ FreeIsCleared' /\ count' \in [Sprites -> Nat]
<1>1. PICK s : s = sprite[p]
  OBVIOUS
<1>2. p \in Live /\ s \in sprites /\ s \in Sprites /\ s # NULL
  BY <1>1, LayerAssumption DEF DestroyPlacement, ListInv, CountsPlacements, TypeOK
<1>3. /\ sprite' = [sprite EXCEPT ![p] = NULL] /\ canvas' = [canvas EXCEPT ![p] = NULL]
      /\ count' = [count EXCEPT ![s] = @ - 1]
      /\ sprites' = sprites /\ canvases' = canvases
  BY <1>1 DEF DestroyPlacement
<1>4. p \in Users(s) /\ Cardinality(Users(s)) \in Nat /\ Cardinality(Users(s)) # 0
  <2>1. p \in Users(s)
    BY <1>1 DEF Users
  <2>2. Users(s) # {}
    BY <2>1
  <2> QED
    BY <2>1, <2>2, UsersFinite, FS_EmptySet
<1>5. count[s] = Cardinality(Users(s))
  BY <1>2 DEF ListInv, CountsPlacements, Users
<1>6. ASSUME NEW t \in sprites' PROVE count'[t] = Cardinality(Users(t)')
  <2>1. count[t] = Cardinality(Users(t)) /\ t \in Sprites
    BY <1>3 DEF ListInv, CountsPlacements, Users, TypeOK
  <2>2. CASE t = s
    <3>1. Users(t)' = Users(t) \ {p}
      BY <1>2, <1>3, <2>2 DEF Users, TypeOK
    <3>2. Cardinality(Users(t) \ {p}) = Cardinality(Users(t)) - 1
      BY <1>4, <2>2, UsersFinite, FS_RemoveElement
    <3> QED
      BY <1>3, <2>1, <2>2, <3>1, <3>2 DEF TypeOK
  <2>3. CASE t # s
    <3>1. Users(t)' = Users(t)
      BY <1>1, <1>3, <2>1, <2>3, LayerAssumption DEF Users, TypeOK
    <3> QED
      BY <1>3, <2>1, <2>3, <3>1 DEF TypeOK
  <2> QED
    BY <2>2, <2>3
<1>7. ASSUME NEW x \in Live' PROVE sprite'[x] \in sprites' /\ canvas'[x] \in canvases'
  <2>1. x # p /\ x \in Live
    BY <1>3 DEF Live, TypeOK
  <2> QED
    BY <1>3, <2>1 DEF ListInv, CountsPlacements, Live, TypeOK
<1>8. FreeIsCleared'
  BY <1>3 DEF ListInv, FreeIsCleared, Live, TypeOK
<1>9. count' \in [Sprites -> Nat]
  BY <1>2, <1>3, <1>4, <1>5 DEF TypeOK
<1> QED
  BY <1>6, <1>7, <1>8, <1>9 DEF CountsPlacements, Users

LEMMA DestroyCanvasCounts ==
  ASSUME TypeOK, ListInv, NEW c \in Canvases, DestroyCanvas(c)
  PROVE  CountsPlacements' /\ FreeIsCleared' /\ count' \in [Sprites -> Nat]
<1>1. PICK W : W = Reached(c)
  OBVIOUS
<1>2. W = {x \in Placements : canvas[x] = c}
  BY <1>1, ReachedIsList DEF ListInv
<1>3. /\ \A x \in Placements : /\ sprite'[x] = IF x \in W THEN NULL ELSE sprite[x]
                               /\ canvas'[x] = IF x \in W THEN NULL ELSE canvas[x]
      /\ count' = [t \in Sprites |-> count[t] - Cardinality({x \in W : sprite[x] = t})]
      /\ sprites' = sprites /\ canvases' = canvases \ {c}
  BY <1>1 DEF DestroyCanvas
<1>4. ASSUME NEW t \in Sprites
      PROVE  /\ Users(t)' = Users(t) \ W
             /\ Users(t) \cap W = {x \in W : sprite[x] = t}
             /\ Cardinality(Users(t) \cap W) \in Nat
             /\ Cardinality(Users(t) \ W) \in Nat
             /\ Cardinality(Users(t) \ W) = Cardinality(Users(t)) - Cardinality(Users(t) \cap W)
  <2>1. Users(t)' = Users(t) \ W
    BY <1>2, <1>3, LayerAssumption DEF Users
  <2>2. Users(t) \cap W = {x \in W : sprite[x] = t}
    BY <1>2 DEF Users
  <2>3. Users(t) \cap W \in SUBSET Users(t) /\ IsFiniteSet(Users(t))
    BY UsersFinite
  <2>4. IsFiniteSet(Users(t) \cap W) /\ IsFiniteSet(Users(t) \ W)
    BY <2>3, FS_Subset, FS_Difference
  <2> QED
    BY <2>1, <2>2, <2>3, <2>4, FS_CardinalityType, FS_Difference
<1>5. ASSUME NEW t \in Sprites PROVE count'[t] = count[t] - Cardinality(Users(t) \cap W)
  BY <1>3, <1>4
<1>6. ASSUME NEW t \in sprites PROVE count[t] = Cardinality(Users(t)) /\ t \in Sprites
  BY DEF ListInv, CountsPlacements, Users, TypeOK
<1>7. ASSUME NEW t \in sprites' PROVE count'[t] = Cardinality(Users(t)')
  <2>1. t \in sprites /\ t \in Sprites
    BY <1>3, <1>6
  <2> QED
    BY <1>4, <1>5, <1>6, <2>1
<1>8. ASSUME NEW t \in Sprites PROVE count'[t] \in Nat
  <2>1. CASE t \in sprites
    BY <1>4, <1>5, <1>6, <2>1, UsersFinite
  <2>2. CASE t \notin sprites
    <3>1. Users(t) \cap W = {}
      BY <2>2, NoUsers DEF ListInv
    <3>2. Cardinality(Users(t) \cap W) = 0
      BY <3>1, FS_EmptySet
    <3>3. count[t] \in Nat
      BY DEF TypeOK
    <3>4. count'[t] = count[t] - Cardinality(Users(t) \cap W)
      BY <1>5
    <3> QED
      BY <3>2, <3>3, <3>4
  <2> QED
    BY <2>1, <2>2
<1>9. count' \in [Sprites -> Nat]
  <2>1. count' = [t \in Sprites |-> count'[t]]
    BY <1>3
  <2> QED
    BY <1>8, <2>1
<1>10. ASSUME NEW x \in Live' PROVE sprite'[x] \in sprites' /\ canvas'[x] \in canvases'
  <2>1. x \in Placements /\ x \notin W /\ x \in Live /\ canvas[x] # c
    BY <1>2, <1>3 DEF Live
  <2> QED
    BY <1>3, <2>1 DEF ListInv, CountsPlacements
<1>11. FreeIsCleared'
  BY <1>2, <1>3 DEF ListInv, FreeIsCleared, Live
<1> QED
  BY <1>7, <1>9, <1>10, <1>11 DEF CountsPlacements, Users

-------------------------------------------------------------------------------
(* The theorems *)

LEMMA ListInit ==
  Init => TypeOK /\ ListInv
<1> SUFFICES ASSUME Init PROVE TypeOK /\ ListInv
  OBVIOUS
<1>1. stack = [c \in Canvases |-> <<>>] /\ <<>> \in Seq(Placements) /\ Len(<<>>) = 0
  BY DEF Init, Order!Init
<1>2. TypeOK
  BY <1>1 DEF Init, TypeOK
<1>3. Live = {}
  BY DEF Init, Live
<1>4. ASSUME NEW c \in Canvases PROVE Linked(c, stack[c])
  <2>1. PICK q : q = stack[c]
    OBVIOUS
  <2>2. Len(q) = 0
    BY <1>1, <2>1
  <2>3. c # NULL
    BY LayerAssumption
  <2>4. Linked(c, q)
    BY <2>2, <2>3 DEF Init, Linked, Nth
  <2> QED
    BY <2>1, <2>4
<1>5. CountsPlacements /\ FreeIsCleared
  BY <1>3 DEF Init, CountsPlacements, FreeIsCleared
<1> QED
  BY <1>2, <1>4, <1>5 DEF ListInv, ListIsStack

(* A step that changes no pointer, canvas or sprite of a placement.        *)
LEMMA LinksKept ==
  ASSUME ListIsStack, UNCHANGED <<canvas, next, previous, head, tail, stack>>
  PROVE  ListIsStack'
  BY DEF ListIsStack, Linked

LEMMA CountsKept ==
  ASSUME CountsPlacements, FreeIsCleared,
         UNCHANGED <<canvases, sprites, canvas, sprite, count>>
  PROVE  CountsPlacements' /\ FreeIsCleared'
  BY DEF CountsPlacements, FreeIsCleared, Live

LEMMA CreateSpriteCounts ==
  ASSUME TypeOK, ListInv, NEW s \in Sprites, CreateSprite(s)
  PROVE  CountsPlacements' /\ FreeIsCleared'
<1>1. \A t : Users(t)' = Users(t)
  BY DEF Users, CreateSprite
<1>2. ASSUME NEW t \in sprites' PROVE count'[t] = Cardinality(Users(t))
  <2>1. CASE t = s
    BY <2>1, NoUsers DEF CreateSprite, ListInv, TypeOK
  <2>2. CASE t # s
    <3>1. t \in sprites /\ count'[t] = count[t]
      BY <2>2 DEF CreateSprite, TypeOK
    <3> QED
      BY <3>1 DEF ListInv, CountsPlacements, Users
  <2> QED
    BY <2>1, <2>2
<1>3. /\ \A p \in Live' : sprite'[p] \in sprites' /\ canvas'[p] \in canvases'
      /\ FreeIsCleared'
  BY DEF CreateSprite, ListInv, CountsPlacements, FreeIsCleared, Live
<1> QED
  BY <1>1, <1>2, <1>3 DEF CountsPlacements, Users

LEMMA DestroySpriteCounts ==
  ASSUME TypeOK, ListInv, NEW s \in Sprites, DestroySprite(s)
  PROVE  CountsPlacements' /\ FreeIsCleared'
<1>1. UNCHANGED <<canvases, canvas, sprite, count>> /\ sprites' = sprites \ {s}
  BY DEF DestroySprite, lists
<1>2. Users(s) = {}
  <2>1. Cardinality(Users(s)) = 0
    BY DEF DestroySprite, ListInv, CountsPlacements, Users
  <2> QED
    BY <2>1, UsersFinite, FS_EmptySet
<1>3. ASSUME NEW p \in Live' PROVE sprite'[p] \in sprites' /\ canvas'[p] \in canvases'
  <2>1. p \in Live /\ sprite[p] # s
    BY <1>1, <1>2 DEF Live, Users
  <2> QED
    BY <1>1, <2>1 DEF ListInv, CountsPlacements
<1>4. \A t \in sprites' : count'[t] = Cardinality({p \in Placements : sprite'[p] = t})
  BY <1>1 DEF ListInv, CountsPlacements
<1>5. FreeIsCleared'
  BY <1>1 DEF ListInv, FreeIsCleared, Live
<1> QED
  BY <1>3, <1>4, <1>5 DEF CountsPlacements

LEMMA ListNext ==
  ASSUME TypeOK, ListInv, [Next]_vars
  PROVE  ListInv'
<1> USE DEF ListInv
<1>1. ASSUME NEW c \in Canvases, CreateCanvas(c) PROVE ListInv'
  <2>1. CountsPlacements' /\ FreeIsCleared'
    BY <1>1 DEF CreateCanvas, CountsPlacements, FreeIsCleared, Live
  <2> QED
    BY <1>1, <2>1, CreateCanvasLinks
<1>2. ASSUME NEW c \in Canvases, DestroyCanvas(c) PROVE ListInv'
  BY <1>2, DestroyCanvasLinks, DestroyCanvasCounts
<1>3. ASSUME NEW c \in Canvases, NEW s \in Sprites, NEW p \in Placements, PlaceSprite(c, s, p)
      PROVE  ListInv'
  BY <1>3, PlaceLinks, PlaceCounts
<1>4. ASSUME NEW s \in Sprites, CreateSprite(s) PROVE ListInv'
  <2>1. UNCHANGED <<canvas, next, previous, head, tail, stack>>
    BY <1>4 DEF CreateSprite
  <2> QED
    BY <1>4, <2>1, LinksKept, CreateSpriteCounts
<1>5. ASSUME NEW s \in Sprites, DestroySprite(s) PROVE ListInv'
  <2>1. UNCHANGED <<canvas, next, previous, head, tail, stack>>
    BY <1>5 DEF DestroySprite, lists
  <2> QED
    BY <1>5, <2>1, LinksKept, DestroySpriteCounts
<1>6. ASSUME NEW p \in Placements, PlacementUp(p) PROVE ListInv'
  <2>1. UNCHANGED <<canvases, sprites, canvas, sprite, count>>
    BY <1>6 DEF PlacementUp
  <2> QED
    BY <1>6, <2>1, UpLinks, CountsKept
<1>7. ASSUME NEW p \in Placements, PlacementDown(p) PROVE ListInv'
  <2>1. UNCHANGED <<canvases, sprites, canvas, sprite, count>>
    BY <1>7 DEF PlacementDown
  <2> QED
    BY <1>7, <2>1, DownLinks, CountsKept
<1>8. ASSUME NEW p \in Placements, PlacementTop(p) PROVE ListInv'
  <2>1. UNCHANGED <<canvases, sprites, canvas, sprite, count>>
    BY <1>8 DEF PlacementTop
  <2> QED
    BY <1>8, <2>1, TopLinks, CountsKept
<1>9. ASSUME NEW p \in Placements, PlacementBottom(p) PROVE ListInv'
  <2>1. UNCHANGED <<canvases, sprites, canvas, sprite, count>>
    BY <1>9 DEF PlacementBottom
  <2> QED
    BY <1>9, <2>1, BottomLinks, CountsKept
<1>10. ASSUME NEW p \in Placements, DestroyPlacement(p) PROVE ListInv'
  BY <1>10, DestroyLinks, DestroyCounts
<1>11. ASSUME NEW p \in Placements, PlacementDownAlone(p) PROVE ListInv'
  <2>1. UNCHANGED <<canvases, sprites, canvas, sprite, next, previous, head, tail, count, stack>>
    BY <1>11 DEF PlacementDownAlone, lists
  <2> QED
    BY <2>1, LinksKept, CountsKept
<1>12. CASE UNCHANGED vars
  <2>1. UNCHANGED <<canvases, sprites, canvas, sprite, next, previous, head, tail, count, stack>>
    BY <1>12 DEF vars, lists
  <2> QED
    BY <2>1, LinksKept, CountsKept
<1> QED
  BY <1>1, <1>2, <1>3, <1>4, <1>5, <1>6, <1>7, <1>8, <1>9, <1>10, <1>11, <1>12 DEF Next

LEMMA TypeNext ==
  ASSUME TypeOK, ListInv, [Next]_vars
  PROVE  TypeOK'
<1>1. ASSUME NEW c \in Canvases, CreateCanvas(c) PROVE TypeOK'
  BY <1>1 DEF CreateCanvas, TypeOK
<1>2. ASSUME NEW c \in Canvases, DestroyCanvas(c) PROVE TypeOK'
  <2>1. count' \in [Sprites -> Nat]
    BY <1>2, DestroyCanvasCounts
  <2>2. stack' \in [Canvases -> Seq(Placements)]
    <3>1. <<>> \in Seq(Placements)
      OBVIOUS
    <3> QED
      BY <1>2, <3>1 DEF DestroyCanvas, Order!Clear, Order!Replace, TypeOK
  <2>3. PICK W : W = Reached(c)
    OBVIOUS
  <2>4. /\ canvas' \in [Placements -> Canvases \union {NULL}]
        /\ sprite' \in [Placements -> Sprites \union {NULL}]
        /\ next' \in [Placements -> Placements \union {NULL}]
        /\ previous' \in [Placements -> Placements \union {NULL}]
    BY <1>2, <2>3 DEF DestroyCanvas, TypeOK
  <2> QED
    BY <1>2, <2>1, <2>2, <2>4 DEF DestroyCanvas, TypeOK
<1>3. ASSUME NEW c \in Canvases, NEW s \in Sprites, NEW p \in Placements, PlaceSprite(c, s, p)
      PROVE  TypeOK'
  <2>1. count' \in [Sprites -> Nat]
    BY <1>3, PlaceCounts
  <2>2. stack' \in [Canvases -> Seq(Placements)]
    BY <1>3, PlaceStack
  <2>3. previous' \in [Placements -> Placements \union {NULL}]
    BY <1>3 DEF PlaceSprite, Assign, TypeOK
  <2> QED
    BY <1>3, <2>1, <2>2, <2>3 DEF PlaceSprite, TypeOK
<1>4. ASSUME NEW s \in Sprites, CreateSprite(s) PROVE TypeOK'
  BY <1>4 DEF CreateSprite, TypeOK
<1>5. ASSUME NEW s \in Sprites, DestroySprite(s) PROVE TypeOK'
  BY <1>5 DEF DestroySprite, lists, TypeOK
<1>6. ASSUME NEW p \in Placements, PlacementUp(p) PROVE TypeOK'
  <2>1. PICK c \in Canvases : c = canvas[p]
    BY <1>6, Placed DEF PlacementUp, ListInv
  <2>2. stack' \in [Canvases -> Seq(Placements)]
    BY <1>6, UpStack DEF ListInv
  <2>3. next' \in [Placements -> Placements \union {NULL}]
    BY <1>6, <2>1 DEF PlacementUp, Assign, TypeOK
  <2>4. previous' \in [Placements -> Placements \union {NULL}]
    BY <1>6, <2>1 DEF PlacementUp, Assign, TypeOK
  <2>5. /\ head' \in [Canvases -> Placements \union {NULL}]
        /\ tail' \in [Canvases -> Placements \union {NULL}]
    BY <1>6, <2>1 DEF PlacementUp, TypeOK
  <2> QED
    BY <1>6, <2>2, <2>3, <2>4, <2>5 DEF PlacementUp, TypeOK
<1>7. ASSUME NEW p \in Placements, PlacementDown(p) PROVE TypeOK'
  <2>1. PICK c \in Canvases : c = canvas[p]
    BY <1>7, Placed DEF PlacementDown, ListInv
  <2>2. stack' \in [Canvases -> Seq(Placements)]
    BY <1>7, DownStack DEF ListInv
  <2>3. next' \in [Placements -> Placements \union {NULL}]
    BY <1>7, <2>1 DEF PlacementDown, Assign, TypeOK
  <2>4. previous' \in [Placements -> Placements \union {NULL}]
    BY <1>7, <2>1 DEF PlacementDown, Assign, TypeOK
  <2>5. /\ head' \in [Canvases -> Placements \union {NULL}]
        /\ tail' \in [Canvases -> Placements \union {NULL}]
    BY <1>7, <2>1 DEF PlacementDown, TypeOK
  <2> QED
    BY <1>7, <2>2, <2>3, <2>4, <2>5 DEF PlacementDown, TypeOK
<1>8. ASSUME NEW p \in Placements, PlacementTop(p) PROVE TypeOK'
  <2>1. PICK c \in Canvases : c = canvas[p]
    BY <1>8, Placed DEF PlacementTop, ListInv
  <2>2. stack' \in [Canvases -> Seq(Placements)]
    BY <1>8, TopStack DEF ListInv
  <2>3. CASE p = head[c]
    BY <1>8, <2>1, <2>2, <2>3 DEF PlacementTop, TypeOK
  <2>4. CASE p # head[c]
    <3>1. next' \in [Placements -> Placements \union {NULL}]
      <4>1. next' = [next EXCEPT ![previous[p]] = next[p], ![p] = head[c]]
        BY <1>8, <2>1, <2>4 DEF PlacementTop
      <4>2. next[p] \in Placements \union {NULL} /\ head[c] \in Placements \union {NULL}
        BY <2>1 DEF TypeOK
      <4> QED
        BY <4>1, <4>2 DEF TypeOK
    <3>2. previous' \in [Placements -> Placements \union {NULL}]
      BY <1>8, <2>1, <2>4 DEF PlacementTop, Assign, TypeOK
    <3>3. head' \in [Canvases -> Placements \union {NULL}]
      BY <1>8, <2>1, <2>4 DEF PlacementTop, TypeOK
    <3>4. tail' \in [Canvases -> Placements \union {NULL}]
      <4>1. tail' = tail \/ tail' = [tail EXCEPT ![c] = previous[p]]
        BY <1>8, <2>1, <2>4 DEF PlacementTop
      <4>2. previous[p] \in Placements \union {NULL}
        BY DEF TypeOK
      <4> QED
        BY <4>1, <4>2 DEF TypeOK
    <3> QED
      BY <1>8, <2>2, <3>1, <3>2, <3>3, <3>4 DEF PlacementTop, TypeOK
  <2> QED
    BY <2>3, <2>4
<1>9. ASSUME NEW p \in Placements, PlacementBottom(p) PROVE TypeOK'
  <2>1. PICK c \in Canvases : c = canvas[p]
    BY <1>9, Placed DEF PlacementBottom, ListInv
  <2>2. stack' \in [Canvases -> Seq(Placements)]
    BY <1>9, BottomStack DEF ListInv
  <2>3. CASE p = tail[c]
    BY <1>9, <2>1, <2>2, <2>3 DEF PlacementBottom, TypeOK
  <2>4. CASE p # tail[c]
    <3>1. next' \in [Placements -> Placements \union {NULL}]
      BY <1>9, <2>1, <2>4 DEF PlacementBottom, Assign, TypeOK
    <3>2. previous' \in [Placements -> Placements \union {NULL}]
      <4>1. previous' = [previous EXCEPT ![next[p]] = previous[p], ![p] = tail[c]]
        BY <1>9, <2>1, <2>4 DEF PlacementBottom
      <4>2. previous[p] \in Placements \union {NULL} /\ tail[c] \in Placements \union {NULL}
        BY <2>1 DEF TypeOK
      <4> QED
        BY <4>1, <4>2 DEF TypeOK
    <3>3. head' \in [Canvases -> Placements \union {NULL}]
      <4>1. head' = head \/ head' = [head EXCEPT ![c] = next[p]]
        BY <1>9, <2>1, <2>4 DEF PlacementBottom
      <4>2. next[p] \in Placements \union {NULL}
        BY DEF TypeOK
      <4> QED
        BY <4>1, <4>2 DEF TypeOK
    <3>4. tail' \in [Canvases -> Placements \union {NULL}]
      BY <1>9, <2>1, <2>4 DEF PlacementBottom, TypeOK
    <3> QED
      BY <1>9, <2>2, <3>1, <3>2, <3>3, <3>4 DEF PlacementBottom, TypeOK
  <2> QED
    BY <2>3, <2>4
<1>10. ASSUME NEW p \in Placements, DestroyPlacement(p) PROVE TypeOK'
  <2>1. count' \in [Sprites -> Nat]
    BY <1>10, DestroyCounts
  <2>2. stack' \in [Canvases -> Seq(Placements)]
    BY <1>10, DestroyStack DEF ListInv
  <2>3. next' \in [Placements -> Placements \union {NULL}]
    BY <1>10 DEF DestroyPlacement, Assign, TypeOK
  <2>4. previous' \in [Placements -> Placements \union {NULL}]
    BY <1>10 DEF DestroyPlacement, Assign, TypeOK
  <2>5. /\ head' \in [Canvases -> Placements \union {NULL}]
        /\ tail' \in [Canvases -> Placements \union {NULL}]
    BY <1>10 DEF DestroyPlacement, TypeOK
  <2> QED
    BY <1>10, <2>1, <2>2, <2>3, <2>4, <2>5 DEF DestroyPlacement, TypeOK
<1>11. ASSUME NEW p \in Placements, PlacementDownAlone(p) PROVE TypeOK'
  BY <1>11 DEF PlacementDownAlone, lists, TypeOK
<1>12. CASE UNCHANGED vars
  BY <1>12 DEF vars, lists, TypeOK
<1> QED
  BY <1>1, <1>2, <1>3, <1>4, <1>5, <1>6, <1>7, <1>8, <1>9, <1>10, <1>11, <1>12 DEF Next

(* Whatever calls are made, the pointers, counts and stacks are of their   *)
(* types; a count is never taken below zero, although the library takes it *)
(* down without a look.                                                    *)
THEOREM ListTypes == Spec => []TypeOK
<1>1. Init => TypeOK /\ ListInv
  BY ListInit
<1>2. TypeOK /\ ListInv /\ [Next]_vars => (TypeOK /\ ListInv)'
  BY TypeNext, ListNext
<1> QED
  BY <1>1, <1>2, PTL DEF Spec

(* The inductive invariant of the lists. *)
THEOREM ListInvariant == Spec => []ListInv
<1>1. Init => TypeOK /\ ListInv
  BY ListInit
<1>2. TypeOK /\ ListInv /\ [Next]_vars => (TypeOK /\ ListInv)'
  BY TypeNext, ListNext
<1> QED
  BY <1>1, <1>2, PTL DEF Spec

(* After any calls, on any number of canvases, the doubly linked list of a *)
(* canvas read from either end is the stack that the calls promise, and    *)
(* holds every placement of the canvas.                                    *)
THEOREM ListsAreStacks == Spec => []ListIsStack
<1>1. ListInv => ListIsStack
  BY DEF ListInv
<1> QED
  BY <1>1, ListInvariant, PTL

(* A sprite counts the placements that point to it and is not freed under  *)
(* one; no placement outlives its canvas.                                  *)
THEOREM CountsAreExact == Spec => []CountsPlacements
<1>1. ListInv => CountsPlacements
  BY DEF ListInv
<1> QED
  BY <1>1, ListInvariant, PTL

(* The history asks nothing of the calls: a placement on a canvas is on    *)
(* its stack, one that is free is on none, so no call is held back by what *)
(* it does to the stack.                                                   *)
THEOREM HistoryHoldsNothingBack ==
  Spec => [](/\ \A p \in Live : \E i \in DOMAIN stack[canvas[p]] : stack[canvas[p]][i] = p
             /\ \A p \in Placements \ Live, d \in Canvases : p \notin Order!Placed(d))
<1>1. ASSUME TypeOK, ListInv, NEW p \in Live
      PROVE  \E i \in DOMAIN stack[canvas[p]] : stack[canvas[p]][i] = p
  BY <1>1, Placed, StackTyped DEF ListInv
<1>2. ASSUME TypeOK, ListInv, NEW p \in Placements \ Live, NEW d \in Canvases
      PROVE  p \notin Order!Placed(d)
  <2>1. PICK q : q = stack[d]
    OBVIOUS
  <2>2. Linked(d, q) /\ DOMAIN q = 1 .. Len(q) /\ canvas[p] = NULL /\ d # NULL
    BY <1>2, <2>1, StackTyped, LayerAssumption DEF ListInv, ListIsStack, Live
  <2> QED
    BY <2>1, <2>2 DEF Linked, Order!Placed
<1>3. TypeOK /\ ListInv =>
        /\ \A p \in Live : \E i \in DOMAIN stack[canvas[p]] : stack[canvas[p]][i] = p
        /\ \A p \in Placements \ Live, d \in Canvases : p \notin Order!Placed(d)
  BY <1>1, <1>2
<1> QED
  BY <1>3, ListTypes, ListInvariant, PTL

(* Every call moves one placement of one stack, and does to the stacks     *)
(* what LayerOrder promises of it.                                         *)
THEOREM LayersImplementOrder == Spec => Order!Spec
<1>1. Init => Order!Init
  BY DEF Init
<1>2. ASSUME TypeOK, ListInv, [Next]_vars PROVE [Order!Next]_stack
  <2>1. ASSUME NEW c \in Canvases, CreateCanvas(c) PROVE UNCHANGED stack
    BY <2>1 DEF CreateCanvas
  <2>2. ASSUME NEW c \in Canvases, DestroyCanvas(c) PROVE Order!Next
    BY <2>2 DEF DestroyCanvas, Order!Next
  <2>3. ASSUME NEW c \in Canvases, NEW s \in Sprites, NEW p \in Placements, PlaceSprite(c, s, p)
        PROVE  Order!Next
    BY <2>3 DEF PlaceSprite, Order!Next
  <2>4. ASSUME NEW s \in Sprites, CreateSprite(s) \/ DestroySprite(s) PROVE UNCHANGED stack
    BY <2>4 DEF CreateSprite, DestroySprite
  <2>5. ASSUME NEW p \in Live
        PROVE  /\ canvas[p] \in Canvases
               /\ Moves(p, Order!Up) => Order!Next
               /\ Moves(p, Order!Down) => Order!Next
               /\ Moves(p, Order!Top) => Order!Next
               /\ Moves(p, Order!Bottom) => Order!Next
               /\ Moves(p, Order!Remove) => Order!Next
    <3>1. canvas[p] \in Canvases
      BY <1>2, Placed DEF ListInv
    <3> QED
      BY <3>1 DEF Moves, Order!Next
  <2>6. ASSUME NEW p \in Placements,
               PlacementUp(p) \/ PlacementDown(p) \/ PlacementTop(p) \/ PlacementBottom(p)
               \/ DestroyPlacement(p)
        PROVE  Order!Next
    BY <2>5, <2>6
       DEF PlacementUp, PlacementDown, PlacementTop, PlacementBottom, DestroyPlacement
  <2>7. ASSUME NEW p \in Placements, PlacementDownAlone(p) PROVE UNCHANGED stack
    BY <2>7 DEF PlacementDownAlone
  <2>8. CASE UNCHANGED vars
    BY <2>8 DEF vars
  <2> QED
    BY <1>2, <2>1, <2>2, <2>3, <2>4, <2>6, <2>7, <2>8 DEF Next
<1> QED
  BY <1>1, <1>2, ListTypes, ListInvariant, PTL DEF Spec, Order!Spec

===============================================================================
