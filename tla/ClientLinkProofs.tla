---------------------------- MODULE ClientLinkProofs ---------------------------
(* Theorems about the handshake and about lines, for any number of clients *)
(* and any lines: first what the scan of Framing computes, then what holds *)
(* of a handshake, then what holds of the bytes of a session.              *)
EXTENDS ClientLink, SequenceTheorems, WellFoundedInduction, TLAPS

(* What the recursive functions of Framing compute, by induction on the    *)
(* numbers up to the length of a sequence.                                 *)

(* A set of numbers that is not empty has a least one. *)
LEMMA LeastNumber ==
  ASSUME NEW T \in SUBSET Nat, T # {}
  PROVE  \E n \in T : \A m \in T : n <= m
<1> DEFINE R == {ss \in Nat \X Nat : ss[1] < ss[2]}
<1>1. IsWellFoundedOn(R, Nat)
  BY NatLessThanWellFounded, Zenon DEF OpToRel
<1>2. PICK n \in T : \A m \in T : ~(<<m, n>> \in R)
  <2> HIDE DEF R
  <2> QED
    BY <1>1, WFMin, Zenon
<1>3. ASSUME NEW m \in T PROVE n <= m
  <2>1. n \in Nat /\ m \in Nat
    OBVIOUS
  <2>2. <<m, n>> \in Nat \X Nat
    BY <2>1, Zenon
  <2>3. <<m, n>>[1] = m /\ <<m, n>>[2] = n
    BY Zenon
  <2>4. ~(<<m, n>>[1] < <<m, n>>[2])
    BY <1>2, <2>2, Zenon
  <2> QED
    BY <2>1, <2>3, <2>4
<1> QED
  BY <1>3

(* A set with 0, and with each number whose predecessor it has, has all.   *)
LEMMA UpTo ==
  ASSUME NEW n \in Nat, NEW T, 0 \in T, \A i \in 1 .. n : i - 1 \in T => i \in T
  PROVE  \A i \in 0 .. n : i \in T
<1> DEFINE M == {i \in 0 .. n : i \notin T}
<1>1. SUFFICES ASSUME M # {} PROVE FALSE
  OBVIOUS
<1>2. PICK k \in M : \A m \in M : k <= m
  <2>1. M \in SUBSET Nat
    OBVIOUS
  <2> HIDE DEF M
  <2> QED
    BY <1>1, <2>1, LeastNumber
<1>3. k \in 1 .. n /\ k - 1 \in 0 .. n /\ ~(k <= k - 1)
  OBVIOUS
<1>4. k - 1 \in T
  BY <1>2, <1>3
<1> QED
  BY <1>3, <1>4

(* A function that is defined from one number to the next exists.          *)
Follows(f, a, G, n) == f[0] = a /\ \A i \in 1 .. n : f[i] = G[i][f[i - 1]]

LEMMA StepByStep ==
  ASSUME NEW S, NEW a \in S, NEW n \in Nat, NEW G \in [1 .. n -> [S -> S]]
  PROVE  \E f \in [0 .. n -> S] : Follows(f, a, G, n)
<1> DEFINE T == {m \in 0 .. n : \E f \in [0 .. m -> S] : Follows(f, a, G, m)}
<1>1. 0 \in T
  <2> DEFINE f == [i \in 0 .. 0 |-> a]
  <2>1. f \in [0 .. 0 -> S] /\ f[0] = a
    OBVIOUS
  <2>2. Follows(f, a, G, 0)
    BY <2>1 DEF Follows
  <2> QED
    BY <2>1, <2>2
<1>2. ASSUME NEW m \in 1 .. n, m - 1 \in T PROVE m \in T
  <2>1. PICK f \in [0 .. (m - 1) -> S] : Follows(f, a, G, m - 1)
    BY <1>2
  <2> DEFINE last == G[m][f[m - 1]]
             h == [i \in 0 .. m |-> IF i = m THEN last ELSE f[i]]
  <2>2. last \in S
    OBVIOUS
  <2>3. h \in [0 .. m -> S]
    <3>1. \A i \in 0 .. m : i # m => i \in 0 .. (m - 1)
      OBVIOUS
    <3> HIDE DEF last
    <3> QED
      BY <2>2, <3>1
  <2>4. Follows(h, a, G, m)
    <3>1. h[0] = a
      BY <2>1 DEF Follows
    <3>2. ASSUME NEW i \in 1 .. m PROVE h[i] = G[i][h[i - 1]]
      <4>1. i \in 0 .. m /\ i - 1 \in 0 .. m /\ i - 1 # m
        OBVIOUS
      <4>2. h[i - 1] = f[i - 1]
        BY <4>1
      <4>3. CASE i = m
        BY <4>1, <4>2, <4>3
      <4>4. CASE i # m
        <5>1. i \in 1 .. (m - 1) /\ h[i] = f[i]
          BY <4>1, <4>4
        <5> QED
          BY <2>1, <4>2, <5>1 DEF Follows
      <4> QED
        BY <4>3, <4>4
    <3> QED
      BY <3>1, <3>2 DEF Follows
  <2> QED
    <3> HIDE DEF h
    <3> QED
      BY <2>3, <2>4
<1>3. \A m \in 0 .. n : m \in T
  <2> HIDE DEF T
  <2> QED
    BY <1>1, <1>2, UpTo
<1> QED
  BY <1>3

-------------------------------------------------------------------------------
(* Scanning *)

Scans(B) == [lines : Seq(Seq(B)), rest : Seq(B)]

(* What Queue, Scanned, Byte and Scan return. *)
LEMMA QueueTyped ==
  ASSUME NEW S, NEW q \in Seq(S), NEW x \in S
  PROVE  Queue(q, x) \in Seq(S)
  BY DEF Queue

LEMMA ScannedParts ==
  ASSUME NEW l, NEW r
  PROVE  Scanned(l, r).lines = l /\ Scanned(l, r).rest = r
  BY DEF Scanned

LEMMA ScannedTyped ==
  ASSUME NEW B, NEW l \in Seq(Seq(B)), NEW r \in Seq(B)
  PROVE  Scanned(l, r) \in Scans(B)
  BY DEF Scanned, Scans

LEMMA ScansParts ==
  ASSUME NEW B, NEW s \in Scans(B)
  PROVE  s.lines \in Seq(Seq(B)) /\ s.rest \in Seq(B) /\ s = Scanned(s.lines, s.rest)
  BY DEF Scanned, Scans

LEMMA ByteTyped ==
  ASSUME NEW B, NEW s \in Scans(B), NEW b \in B
  PROVE  Byte(s, b) \in Scans(B)
<1>1. s.lines \in Seq(Seq(B)) /\ s.rest \in Seq(B) /\ <<>> \in Seq(B)
  BY ScansParts
<1>2. Queue(s.lines, s.rest) \in Seq(Seq(B))
  BY <1>1, QueueTyped
<1>3. Append(s.rest, b) \in Seq(B)
  BY <1>1
<1> QED
  BY <1>1, <1>2, <1>3, ScannedTyped DEF Byte

(* The scans after each byte. *)
LEMMA ScanSteps ==
  ASSUME NEW B, NEW s \in Scans(B), NEW q \in Seq(B)
  PROVE  \E f \in [0 .. Len(q) -> Scans(B)] :
            /\ f[0] = s /\ \A i \in 1 .. Len(q) : f[i] = Byte(f[i - 1], q[i])
            /\ Scan(s, q) = f[Len(q)]
<1> DEFINE n == Len(q)
           G == [i \in 1 .. n |-> [x \in Scans(B) |-> Byte(x, q[i])]]
           H(g) == [i \in 0 .. n |-> IF i = 0 THEN s ELSE Byte(g[i - 1], q[i])]
           after == CHOOSE g : g = H(g)
<1>0. n \in Nat /\ \A i \in 1 .. n : q[i] \in B
  OBVIOUS
<1>1. G \in [1 .. n -> [Scans(B) -> Scans(B)]]
  BY <1>0, ByteTyped
<1>2. PICK f \in [0 .. n -> Scans(B)] : Follows(f, s, G, n)
  <2> HIDE DEF G, n
  <2> QED
    BY <1>0, <1>1, StepByStep
<1>3. f[0] = s /\ \A i \in 1 .. n : f[i] = Byte(f[i - 1], q[i])
  <2>1. \A i \in 1 .. n : i - 1 \in 0 .. n /\ f[i - 1] \in Scans(B)
    BY <1>0, <1>2
  <2> QED
    BY <1>2, <2>1 DEF Follows
<1>4. f = H(f)
  <2>1. ASSUME NEW i \in 0 .. n PROVE f[i] = H(f)[i]
    <3>1. i = 0 \/ i \in 1 .. n
      BY <1>0
    <3> QED
      BY <1>3, <3>1
  <2>2. f = [i \in 0 .. n |-> f[i]]
    BY <1>2
  <2> QED
    BY <2>1, <2>2
<1>5. after = H(after)
  <2> HIDE DEF H
  <2> QED
    BY <1>4
<1>6. Scan(s, q) = after[n]
  BY DEF Scan
<1>7. after[0] = s /\ \A i \in 1 .. n : after[i] = Byte(after[i - 1], q[i])
  <2> HIDE DEF after
  <2>1. 0 \in 0 .. n /\ 1 .. n \subseteq 0 .. n \ {0}
    BY <1>0
  <2> QED
    BY <1>5, <2>1
<1>8. \A i \in 0 .. n : after[i] = f[i]
  <2> DEFINE T == {i \in 0 .. n : after[i] = f[i]}
  <2> HIDE DEF after
  <2>1. 0 \in T
    BY <1>0, <1>3, <1>7
  <2>2. ASSUME NEW i \in 1 .. n, i - 1 \in T PROVE i \in T
    BY <1>3, <1>7, <2>2
  <2>3. \A i \in 0 .. n : i \in T
    <3> HIDE DEF T, n
    <3> QED
      BY <1>0, <2>1, <2>2, UpTo
  <2> QED
    BY <2>3
<1>9. Scan(s, q) = f[n]
  BY <1>0, <1>6, <1>8
<1> QED
  BY <1>3, <1>9

(* Appending goes on behind what is before. *)
LEMMA AppendBehind ==
  ASSUME NEW S, NEW p \in Seq(S), NEW q \in Seq(S), NEW x \in S
  PROVE  p \o Append(q, x) = Append(p \o q, x)
<1> DEFINE u == p \o Append(q, x)  v == Append(p \o q, x)
<1>1. u \in Seq(S) /\ v \in Seq(S) /\ Len(u) = Len(v)
  OBVIOUS
<1>2. \A i \in 1 .. Len(u) : u[i] = v[i]
  OBVIOUS
<1> HIDE DEF u, v
<1>3. u = v
  BY <1>1, <1>2, SeqEqual
<1> QED
  BY <1>3 DEF u, v

(* Nothing scanned, nothing done. *)
LEMMA ScanNothing ==
  ASSUME NEW B, NEW s \in Scans(B), NEW q \in Seq(B)
  PROVE  Len(q) = 0 => Scan(s, q) = s
<1>1. PICK f \in [0 .. Len(q) -> Scans(B)] :
        /\ f[0] = s /\ \A i \in 1 .. Len(q) : f[i] = Byte(f[i - 1], q[i])
        /\ Scan(s, q) = f[Len(q)]
  BY ScanSteps
<1> QED
  BY <1>1

LEMMA ScanTyped ==
  ASSUME NEW B, NEW s \in Scans(B), NEW q \in Seq(B)
  PROVE  Scan(s, q) \in Scans(B)
<1>1. Len(q) \in 0 .. Len(q)
  OBVIOUS
<1> QED
  BY <1>1, ScanSteps

(* What is read in two reads is scanned as if it were read in one. *)
LEMMA ScanTwice ==
  ASSUME NEW B, NEW s \in Scans(B), NEW p \in Seq(B), NEW q \in Seq(B)
  PROVE  Scan(s, p \o q) = Scan(Scan(s, p), q)
<1> DEFINE r == p \o q  m == Len(p)  n == Len(q)
<1>1. /\ r \in Seq(B) /\ m \in Nat /\ n \in Nat /\ Len(r) = m + n
      /\ \A i \in 1 .. m : r[i] = p[i]
      /\ \A i \in 1 .. n : r[m + i] = q[i]
  OBVIOUS
<1>2. PICK f \in [0 .. Len(r) -> Scans(B)] :
        /\ f[0] = s /\ \A i \in 1 .. Len(r) : f[i] = Byte(f[i - 1], r[i])
        /\ Scan(s, r) = f[Len(r)]
  <2>1. r \in Seq(B)
    BY <1>1
  <2> HIDE DEF r
  <2> QED
    BY <2>1, ScanSteps
<1>3. PICK g \in [0 .. m -> Scans(B)] :
        /\ g[0] = s /\ \A i \in 1 .. m : g[i] = Byte(g[i - 1], p[i])
        /\ Scan(s, p) = g[m]
  BY ScanSteps
<1>4. g[m] \in Scans(B)
  BY <1>1, <1>3
<1>5. PICK h \in [0 .. n -> Scans(B)] :
        /\ h[0] = g[m] /\ \A i \in 1 .. n : h[i] = Byte(h[i - 1], q[i])
        /\ Scan(g[m], q) = h[n]
  <2> DEFINE u == g[m]
  <2> HIDE DEF u
  <2>1. u \in Scans(B)
    BY <1>4 DEF u
  <2>2. \E h \in [0 .. n -> Scans(B)] :
          /\ h[0] = u /\ \A i \in 1 .. n : h[i] = Byte(h[i - 1], q[i])
          /\ Scan(u, q) = h[n]
    BY <2>1, ScanSteps
  <2> QED
    BY <2>2 DEF u
<1> HIDE DEF r, m, n
<1>6. \A i \in 0 .. m : f[i] = g[i]
  <2> DEFINE T == {i \in 0 .. m : f[i] = g[i]}
  <2>1. 0 \in T
    BY <1>1, <1>2, <1>3
  <2>2. ASSUME NEW i \in 1 .. m, i - 1 \in T PROVE i \in T
    BY <1>1, <1>2, <1>3, <2>2
  <2>3. \A i \in 0 .. m : i \in T
    <3> HIDE DEF T
    <3> QED
      BY <1>1, <2>1, <2>2, UpTo
  <2> QED
    BY <2>3
<1>7. \A i \in 0 .. n : f[m + i] = h[i]
  <2> DEFINE T == {i \in 0 .. n : f[m + i] = h[i]}
  <2>1. 0 \in T
    BY <1>1, <1>5, <1>6
  <2>2. ASSUME NEW i \in 1 .. n, i - 1 \in T PROVE i \in T
    <3>1. m + i \in 1 .. Len(r) /\ (m + i) - 1 = m + (i - 1)
      BY <1>1
    <3>2. f[m + (i - 1)] = h[i - 1]
      BY <2>2
    <3>3. f[m + i] = Byte(f[m + (i - 1)], r[m + i])
      BY <1>2, <3>1
    <3> QED
      BY <1>1, <1>5, <3>2, <3>3
  <2>3. \A i \in 0 .. n : i \in T
    <3> HIDE DEF T
    <3> QED
      BY <1>1, <2>1, <2>2, UpTo
  <2> QED
    BY <2>3
<1>8. f[Len(r)] = h[n]
  BY <1>1, <1>7
<1> QED
  BY <1>2, <1>3, <1>5, <1>8 DEF r

(* Lines queued before only come before. *)
LEMMA ScanBehind ==
  ASSUME NEW B, NEW s \in Scans(B), NEW t \in Scans(B), NEW l \in Seq(Seq(B)), NEW q \in Seq(B)
  PROVE  t = Scanned(l \o s.lines, s.rest)
           => Scan(t, q) = Scanned(l \o Scan(s, q).lines, Scan(s, q).rest)
<1> DEFINE n == Len(q)
<1>0. n \in Nat /\ \A i \in 1 .. n : q[i] \in B
  OBVIOUS
<1>1. ASSUME NEW u \in Scans(B)
      PROVE  \E f \in [0 .. n -> Scans(B)] :
               /\ f[0] = u /\ \A i \in 1 .. n : f[i] = Byte(f[i - 1], q[i])
               /\ Scan(u, q) = f[n]
  BY ScanSteps
<1>2. PICK f \in [0 .. n -> Scans(B)] :
        /\ f[0] = s /\ \A i \in 1 .. n : f[i] = Byte(f[i - 1], q[i])
        /\ Scan(s, q) = f[n]
  BY <1>1
<1>3. PICK g \in [0 .. n -> Scans(B)] :
        /\ g[0] = t /\ \A i \in 1 .. n : g[i] = Byte(g[i - 1], q[i])
        /\ Scan(t, q) = g[n]
  BY <1>1
<1> HAVE t = Scanned(l \o s.lines, s.rest)
<1>4. \A i \in 0 .. n : g[i] = Scanned(l \o f[i].lines, f[i].rest)
  <2> DEFINE T == {i \in 0 .. n : g[i] = Scanned(l \o f[i].lines, f[i].rest)}
  <2>1. 0 \in T
    BY <1>0, <1>2, <1>3
  <2>2. ASSUME NEW i \in 1 .. n, i - 1 \in T PROVE i \in T
    <3>1. /\ i - 1 \in 0 .. n /\ f[i - 1] \in Scans(B)
          /\ g[i - 1] = Scanned(l \o f[i - 1].lines, f[i - 1].rest)
          /\ f[i] = Byte(f[i - 1], q[i]) /\ g[i] = Byte(g[i - 1], q[i])
      BY <1>0, <1>2, <1>3, <2>2
    <3> DEFINE x == f[i - 1].lines y == f[i - 1].rest
    <3>2. x \in Seq(Seq(B)) /\ y \in Seq(B)
      BY <3>1, ScansParts
    <3>3. l \o Queue(x, y) = Queue(l \o x, y)
      <4>1. l \o Append(x, y) = Append(l \o x, y)
        <5> DEFINE S == Seq(B)
        <5>1. l \in Seq(S) /\ x \in Seq(S) /\ y \in S
          BY <3>2
        <5> HIDE DEF x, y, S
        <5> QED
          BY <5>1, AppendBehind
      <4> QED
        BY <4>1 DEF Queue
    <3>4. CASE q[i] = Nl
      <4>1. f[i] = Scanned(Queue(x, y), <<>>) /\ g[i] = Scanned(Queue(l \o x, y), <<>>)
        BY <3>1, <3>4, ScannedParts DEF Byte
      <4> QED
        <5>1. f[i].lines = Queue(x, y) /\ f[i].rest = <<>>
          BY <4>1 DEF Scanned
        <5>2. g[i] = Scanned(l \o f[i].lines, f[i].rest)
          <6> HIDE DEF x, y, T
          <6> QED
            BY <3>3, <4>1, <5>1
        <5> QED
          BY <1>0, <5>2
    <3>5. CASE q[i] # Nl
      <4>1. f[i].lines = x /\ f[i].rest = Append(y, q[i])
        <5>1. f[i] = Scanned(x, Append(y, q[i]))
          BY <3>1, <3>5 DEF Byte
        <5> HIDE DEF x, y
        <5> QED
          BY <5>1 DEF Scanned
      <4>2. g[i] = Scanned(l \o x, Append(y, q[i]))
        BY <3>1, <3>5, ScannedParts DEF Byte
      <4>3. g[i] = Scanned(l \o f[i].lines, f[i].rest)
        <5> HIDE DEF x, y, T
        <5> QED
          BY <4>1, <4>2
      <4> QED
        BY <1>0, <4>3
    <3> QED
      BY <3>4, <3>5
  <2>3. \A i \in 0 .. n : i \in T
    <3> HIDE DEF T, n
    <3> QED
      BY <1>0, <2>1, <2>2, UpTo
  <2> QED
    BY <2>3
<1>5. g[n] = Scanned(l \o f[n].lines, f[n].rest)
  BY <1>0, <1>4
<1> QED
  BY <1>2, <1>3, <1>5

(* Without a newline all is rest. *)
LEMMA ScanRest ==
  ASSUME NEW B, NEW s \in Scans(B), NEW q \in Seq(B), \A i \in DOMAIN q : q[i] # Nl
  PROVE  Scan(s, q) = Scanned(s.lines, s.rest \o q)
<1> DEFINE n == Len(q)
<1>0. n \in Nat /\ (\A i \in 1 .. n : q[i] \in B /\ q[i] # Nl) /\ s.rest \in Seq(B)
  BY ScansParts
<1>1. PICK f \in [0 .. n -> Scans(B)] :
        /\ f[0] = s /\ \A i \in 1 .. n : f[i] = Byte(f[i - 1], q[i])
        /\ Scan(s, q) = f[n]
  BY ScanSteps
<1>2. \A i \in 0 .. n : f[i] = Scanned(s.lines, s.rest \o SubSeq(q, 1, i))
  <2> DEFINE T == {i \in 0 .. n : f[i] = Scanned(s.lines, s.rest \o SubSeq(q, 1, i))}
  <2>1. 0 \in T
    <3>1. SubSeq(q, 1, 0) = <<>> /\ s.rest \o SubSeq(q, 1, 0) = s.rest
      BY <1>0
    <3>2. s = Scanned(s.lines, s.rest)
      BY ScansParts
    <3>3. f[0] = Scanned(s.lines, s.rest \o SubSeq(q, 1, 0))
      BY <1>1, <3>1, <3>2
    <3> QED
      BY <1>0, <3>3
  <2>2. ASSUME NEW i \in 1 .. n, i - 1 \in T PROVE i \in T
    <3>1. SubSeq(q, 1, i - 1) \in Seq(B) /\ SubSeq(q, 1, i) = Append(SubSeq(q, 1, i - 1), q[i])
      BY <1>0
    <3>2. s.rest \o Append(SubSeq(q, 1, i - 1), q[i])
            = Append(s.rest \o SubSeq(q, 1, i - 1), q[i])
      <4> DEFINE z == SubSeq(q, 1, i - 1)  y == s.rest  b == q[i]
      <4>1. y \in Seq(B) /\ z \in Seq(B) /\ b \in B
        BY <1>0, <3>1
      <4> HIDE DEF z, y, b
      <4>2. y \o Append(z, b) = Append(y \o z, b)
        BY <4>1, AppendBehind
      <4> QED
        BY <4>2 DEF z, y, b
    <3>3. f[i] = Byte(Scanned(s.lines, s.rest \o SubSeq(q, 1, i - 1)), q[i])
      BY <1>1, <2>2
    <3>4. f[i] = Scanned(s.lines, Append(s.rest \o SubSeq(q, 1, i - 1), q[i]))
      BY <1>0, <3>3, ScannedParts DEF Byte
    <3> QED
      BY <3>1, <3>2, <3>4
  <2>3. \A i \in 0 .. n : i \in T
    <3> HIDE DEF T, n
    <3> QED
      BY <1>0, <2>1, <2>2, UpTo
  <2> QED
    BY <2>3
<1>3. SubSeq(q, 1, n) = q
  OBVIOUS
<1>4. f[n] = Scanned(s.lines, s.rest \o SubSeq(q, 1, n))
  BY <1>0, <1>2
<1> QED
  BY <1>1, <1>3, <1>4

(* What was queued stays queued, in its place. *)
LEMMA ScanKeeps ==
  ASSUME NEW B, NEW s \in Scans(B), NEW q \in Seq(B)
  PROVE  IsPrefix(s.lines, Scan(s, q).lines)
<1> DEFINE n == Len(q)
           m == Len(s.lines)
<1>0. n \in Nat /\ m \in Nat /\ \A i \in 1 .. n : q[i] \in B
  BY ScansParts
<1>1. PICK f \in [0 .. n -> Scans(B)] :
        /\ f[0] = s /\ \A i \in 1 .. n : f[i] = Byte(f[i - 1], q[i])
        /\ Scan(s, q) = f[n]
  BY ScanSteps
<1> DEFINE Kept(x) == m <= Len(x) /\ \A j \in 1 .. m : x[j] = s.lines[j]
<1>2. \A i \in 0 .. n : Kept(f[i].lines)
  <2> DEFINE T == {i \in 0 .. n : Kept(f[i].lines)}
  <2>1. 0 \in T
    <3>1. Kept(s.lines) /\ 0 \in 0 .. n
      BY <1>0
    <3>2. f[0] = s
      BY <1>1
    <3>3. Kept(f[0].lines)
      BY <3>1, <3>2, Zenon
    <3> HIDE DEF Kept, n
    <3> QED
      BY <3>1, <3>3
  <2>2. ASSUME NEW i \in 1 .. n, i - 1 \in T PROVE i \in T
    <3> DEFINE x == f[i - 1].lines
    <3>0. i - 1 \in 0 .. n /\ i \in 0 .. n /\ f[i - 1] \in Scans(B)
      BY <1>0, <1>1
    <3>1. i - 1 \in 0 .. n /\ i \in 0 .. n /\ Kept(x) /\ f[i - 1] \in Scans(B)
      <4> HIDE DEF Kept
      <4> QED
        BY <2>2, <3>0
    <3>2. x \in Seq(Seq(B)) /\ f[i - 1].rest \in Seq(B)
      BY <3>1, ScansParts
    <3>3. f[i] = Byte(f[i - 1], q[i])
      BY <1>1
    <3>4. f[i].lines = x \/ f[i].lines = Append(x, f[i - 1].rest)
      BY <3>3 DEF Byte, Queue, Scanned
    <3>5. Kept(Append(x, f[i - 1].rest))
      BY <1>0, <3>1, <3>2
    <3>6. Kept(f[i].lines)
      <4> HIDE DEF x, Kept
      <4> QED
        BY <3>1, <3>4, <3>5
    <3> QED
      BY <3>1, <3>6
  <2>3. \A i \in 0 .. n : i \in T
    <3> HIDE DEF T, n
    <3> QED
      BY <1>0, <2>1, <2>2, UpTo
  <2> QED
    BY <2>3
<1>3. f[n].lines \in Seq(Seq(B)) /\ s.lines \in Seq(Seq(B)) /\ Kept(f[n].lines)
  <2>1. n \in 0 .. n
    BY <1>0
  <2>2. f[n] \in Scans(B) /\ Kept(f[n].lines)
    <3> HIDE DEF Kept
    <3> QED
      BY <1>1, <1>2, <2>1
  <2> HIDE DEF Kept
  <2> QED
    BY <2>2, ScansParts
<1>4. ASSUME NEW x \in Seq(Seq(B)), Kept(x) PROVE IsPrefix(s.lines, x)
  <2>1. SubSeq(s.lines, 1, m) \in Seq(Seq(B)) /\ SubSeq(x, 1, m) \in Seq(Seq(B))
    BY <1>0, <1>3, <1>4
  <2>2. Len(SubSeq(s.lines, 1, m)) = m /\ Len(SubSeq(x, 1, m)) = m
    BY <1>0, <1>3, <1>4
  <2>3. \A j \in 1 .. m : SubSeq(s.lines, 1, m)[j] = SubSeq(x, 1, m)[j]
    BY <1>0, <1>3, <1>4
  <2>4. SubSeq(s.lines, 1, m) = SubSeq(x, 1, m)
    BY <2>1, <2>2, <2>3, SeqEqual
  <2> QED
    BY <1>4, <2>4 DEF IsPrefix
<1> QED
  BY <1>1, <1>3, <1>4

(* A line only grows until it is queued. *)
LEMMA ScanGrows ==
  ASSUME NEW B, NEW s \in Scans(B), NEW q \in Seq(B), s.rest # <<>>
  PROVE  \/ Len(Scan(s, q).rest) >= Len(s.rest)
         \/ \E k \in 1 .. Len(Scan(s, q).lines) : Len(Scan(s, q).lines[k]) >= Len(s.rest)
<1> DEFINE n == Len(q)
           m == Len(s.rest)
<1>0. n \in Nat /\ m \in Nat /\ m > 0 /\ \A i \in 1 .. n : q[i] \in B
  BY ScansParts
<1>1. PICK f \in [0 .. n -> Scans(B)] :
        /\ f[0] = s /\ \A i \in 1 .. n : f[i] = Byte(f[i - 1], q[i])
        /\ Scan(s, q) = f[n]
  BY ScanSteps
<1> DEFINE Long(x) == \/ Len(x.rest) >= m
                      \/ \E k \in 1 .. Len(x.lines) : Len(x.lines[k]) >= m
<1>2. \A i \in 0 .. n : Long(f[i])
  <2> DEFINE T == {i \in 0 .. n : Long(f[i])}
  <2>1. 0 \in T
    BY <1>0, <1>1
  <2>2. ASSUME NEW i \in 1 .. n, i - 1 \in T PROVE i \in T
    <3> DEFINE x == f[i - 1].lines  y == f[i - 1].rest
    <3>1. i - 1 \in 0 .. n /\ i \in 0 .. n /\ Long(f[i - 1]) /\ f[i - 1] \in Scans(B)
      BY <1>0, <1>1, <2>2
    <3>2. x \in Seq(Seq(B)) /\ y \in Seq(B) /\ q[i] \in B
      BY <1>0, <3>1, ScansParts
    <3>3. f[i] = Byte(f[i - 1], q[i])
      BY <1>1
    <3>4. CASE q[i] # Nl
      <4>1. f[i].lines = x /\ f[i].rest = Append(y, q[i])
        BY <3>3, <3>4 DEF Byte, Scanned
      <4>2. Len(Append(y, q[i])) = Len(y) + 1 /\ Len(y) \in Nat
        BY <3>2
      <4>3. Long(f[i])
        BY <1>0, <3>1, <4>1, <4>2
      <4> QED
        BY <3>1, <4>3
    <3>5. CASE q[i] = Nl /\ y = <<>>
      <4>1. f[i].lines = x
        BY <3>3, <3>5 DEF Byte, Scanned, Queue
      <4>2. ~(Len(y) >= m)
        BY <1>0, <3>5
      <4>3. \E k \in 1 .. Len(x) : Len(x[k]) >= m
        <5> HIDE DEF x, y
        <5> QED
          BY <3>1, <4>2 DEF x, y
      <4>4. Long(f[i])
        BY <4>1, <4>3
      <4> QED
        BY <3>1, <4>4
    <3>6. CASE q[i] = Nl /\ y # <<>>
      <4>1. f[i].lines = Append(x, y)
        BY <3>3, <3>6 DEF Byte, Scanned, Queue
      <4>2. /\ Len(Append(x, y)) = Len(x) + 1 /\ Len(x) \in Nat
            /\ Append(x, y)[Len(x) + 1] = y
            /\ \A k \in 1 .. Len(x) : Append(x, y)[k] = x[k]
        <5> HIDE DEF x, y
        <5> QED
          BY <3>2
      <4>3. ASSUME Len(y) >= m PROVE Long(f[i])
        <5>1. Len(x) + 1 \in 1 .. Len(Append(x, y))
          BY <4>2
        <5> QED
          BY <4>1, <4>2, <4>3, <5>1
      <4>4. ASSUME \E k \in 1 .. Len(x) : Len(x[k]) >= m PROVE Long(f[i])
        <5>1. \A k \in 1 .. Len(x) : k \in 1 .. Len(Append(x, y))
          BY <4>2
        <5> QED
          BY <4>1, <4>2, <4>4, <5>1
      <4>5. Long(f[i])
        BY <3>1, <4>3, <4>4
      <4> QED
        BY <3>1, <4>5
    <3> QED
      BY <3>4, <3>5, <3>6
  <2>3. \A i \in 0 .. n : i \in T
    <3> HIDE DEF T, n
    <3> QED
      BY <1>0, <2>1, <2>2, UpTo
  <2> QED
    BY <2>3
<1> QED
  BY <1>0, <1>1, <1>2

(* The rest is at most what was there, and has no newline. *)
LEMMA RestBounded ==
  ASSUME NEW B, NEW s \in Scans(B), NEW q \in Seq(B), \A i \in DOMAIN s.rest : s.rest[i] # Nl
  PROVE  /\ Len(Scan(s, q).rest) <= Len(s.rest) + Len(q)
         /\ \A i \in DOMAIN Scan(s, q).rest : Scan(s, q).rest[i] # Nl
<1> DEFINE n == Len(q)
           m == Len(s.rest)
<1>0. n \in Nat /\ m \in Nat /\ \A i \in 1 .. n : q[i] \in B
  BY ScansParts
<1>1. PICK f \in [0 .. n -> Scans(B)] :
        /\ f[0] = s /\ \A i \in 1 .. n : f[i] = Byte(f[i - 1], q[i])
        /\ Scan(s, q) = f[n]
  BY ScanSteps
<1> DEFINE Fine(y, i) == Len(y) <= m + i /\ \A k \in DOMAIN y : y[k] # Nl
<1>2. \A i \in 0 .. n : Fine(f[i].rest, i)
  <2> DEFINE T == {i \in 0 .. n : Fine(f[i].rest, i)}
  <2>1. 0 \in T
    <3>1. Fine(s.rest, 0) /\ 0 \in 0 .. n
      BY <1>0
    <3>2. f[0] = s
      BY <1>1
    <3>3. Fine(f[0].rest, 0)
      BY <3>1, <3>2, Zenon
    <3> HIDE DEF Fine, n
    <3> QED
      BY <3>1, <3>3
  <2>2. ASSUME NEW i \in 1 .. n, i - 1 \in T PROVE i \in T
    <3> DEFINE y == f[i - 1].rest
    <3>1. i - 1 \in 0 .. n /\ i \in 0 .. n /\ Fine(y, i - 1) /\ f[i - 1] \in Scans(B)
      BY <1>0, <1>1, <2>2
    <3>2. y \in Seq(B) /\ q[i] \in B
      BY <1>0, <3>1, ScansParts
    <3>3. f[i] = Byte(f[i - 1], q[i])
      BY <1>1
    <3>4. CASE q[i] # Nl
      <4>1. f[i].rest = Append(y, q[i])
        BY <3>3, <3>4 DEF Byte, Scanned
      <4>2. Fine(Append(y, q[i]), i)
        <5> HIDE DEF y
        <5>1. Len(y) \in Nat /\ Len(Append(y, q[i])) = Len(y) + 1
          BY <3>2
        <5>2. Len(Append(y, q[i])) <= m + i
          BY <1>0, <3>1, <5>1
        <5>3. ASSUME NEW k \in DOMAIN Append(y, q[i]) PROVE Append(y, q[i])[k] # Nl
          <6>1. CASE k \in DOMAIN y
            BY <3>1, <3>2, <6>1
          <6>2. CASE k = Len(y) + 1
            BY <3>2, <3>4, <6>2
          <6>3. k \in DOMAIN y \/ k = Len(y) + 1
            BY <3>2, <5>1
          <6> QED
            BY <6>1, <6>2, <6>3
        <5> QED
          BY <5>2, <5>3
      <4> QED
        BY <3>1, <4>1, <4>2
    <3>5. CASE q[i] = Nl
      <4>1. f[i].rest = <<>>
        BY <3>3, <3>5 DEF Byte, Scanned
      <4> QED
        BY <1>0, <3>1, <4>1
    <3> QED
      BY <3>4, <3>5
  <2>3. \A i \in 0 .. n : i \in T
    <3> HIDE DEF T, n
    <3> QED
      BY <1>0, <2>1, <2>2, UpTo
  <2> QED
    BY <2>3
<1> QED
  BY <1>0, <1>1, <1>2

-------------------------------------------------------------------------------
(* The lines that are queued *)

(* The lines queued after each line. *)
LEMMA QueuedSteps ==
  ASSUME NEW S, NEW q \in Seq(S)
  PROVE  \E f \in [0 .. Len(q) -> Seq(S)] :
            /\ f[0] = <<>> /\ \A i \in 1 .. Len(q) : f[i] = Queue(f[i - 1], q[i])
            /\ Queued(q) = f[Len(q)]
<1> DEFINE n == Len(q)
           G == [i \in 1 .. n |-> [x \in Seq(S) |-> Queue(x, q[i])]]
           H(g) == [i \in 0 .. n |-> IF i = 0 THEN <<>> ELSE Queue(g[i - 1], q[i])]
           upTo == CHOOSE g : g = H(g)
<1>0. n \in Nat /\ (\A i \in 1 .. n : q[i] \in S) /\ <<>> \in Seq(S)
  OBVIOUS
<1>1. G \in [1 .. n -> [Seq(S) -> Seq(S)]]
  BY <1>0, QueueTyped
<1>2. PICK f \in [0 .. n -> Seq(S)] : Follows(f, <<>>, G, n)
  <2> HIDE DEF G, n
  <2> QED
    BY <1>0, <1>1, StepByStep
<1>3. f[0] = <<>> /\ \A i \in 1 .. n : f[i] = Queue(f[i - 1], q[i])
  <2>1. \A i \in 1 .. n : i - 1 \in 0 .. n /\ f[i - 1] \in Seq(S)
    BY <1>0, <1>2
  <2> QED
    BY <1>2, <2>1 DEF Follows
<1>4. f = H(f)
  <2>1. ASSUME NEW i \in 0 .. n PROVE f[i] = H(f)[i]
    <3>1. i = 0 \/ i \in 1 .. n
      BY <1>0
    <3> QED
      BY <1>3, <3>1
  <2>2. f = [i \in 0 .. n |-> f[i]]
    BY <1>2
  <2> QED
    BY <2>1, <2>2
<1>5. upTo = H(upTo)
  <2> HIDE DEF H
  <2> QED
    BY <1>4
<1>6. Queued(q) = upTo[n]
  BY DEF Queued
<1>7. upTo[0] = <<>> /\ \A i \in 1 .. n : upTo[i] = Queue(upTo[i - 1], q[i])
  <2> HIDE DEF upTo
  <2>1. 0 \in 0 .. n /\ 1 .. n \subseteq 0 .. n \ {0}
    BY <1>0
  <2> QED
    BY <1>5, <2>1
<1>8. \A i \in 0 .. n : upTo[i] = f[i]
  <2> DEFINE T == {i \in 0 .. n : upTo[i] = f[i]}
  <2> HIDE DEF upTo
  <2>1. 0 \in T
    BY <1>0, <1>3, <1>7
  <2>2. ASSUME NEW i \in 1 .. n, i - 1 \in T PROVE i \in T
    BY <1>3, <1>7, <2>2
  <2>3. \A i \in 0 .. n : i \in T
    <3> HIDE DEF T, n
    <3> QED
      BY <1>0, <2>1, <2>2, UpTo
  <2> QED
    BY <2>3
<1>9. Queued(q) = f[n]
  BY <1>0, <1>6, <1>8
<1> QED
  BY <1>3, <1>9

(* One line more, which is queued unless it is empty. *)
LEMMA QueuedAppend ==
  ASSUME NEW S, NEW q \in Seq(S), NEW r \in Seq(S), NEW x \in S
  PROVE  r = Append(q, x) => Queued(r) = Queue(Queued(q), x)
<1> DEFINE n == Len(q)
<1>1. PICK f \in [0 .. Len(q) -> Seq(S)] :
        /\ f[0] = <<>> /\ \A i \in 1 .. Len(q) : f[i] = Queue(f[i - 1], q[i])
        /\ Queued(q) = f[Len(q)]
  BY QueuedSteps
<1>2. PICK g \in [0 .. Len(r) -> Seq(S)] :
        /\ g[0] = <<>> /\ \A i \in 1 .. Len(r) : g[i] = Queue(g[i - 1], r[i])
        /\ Queued(r) = g[Len(r)]
  BY QueuedSteps
<1> HAVE r = Append(q, x)
<1>3. n \in Nat /\ Len(r) = n + 1 /\ r[n + 1] = x /\ \A i \in 1 .. n : r[i] = q[i]
  OBVIOUS
<1>4. \A i \in 0 .. n : f[i] = g[i]
  <2> DEFINE T == {i \in 0 .. n : f[i] = g[i]}
  <2>1. 0 \in T
    BY <1>1, <1>2, <1>3
  <2>2. ASSUME NEW i \in 1 .. n, i - 1 \in T PROVE i \in T
    BY <1>1, <1>2, <1>3, <2>2
  <2>3. \A i \in 0 .. n : i \in T
    <3> HIDE DEF T, n
    <3> QED
      BY <1>3, <2>1, <2>2, UpTo
  <2> QED
    BY <2>3
<1>5. g[n + 1] = Queue(g[n], x)
  <2>1. n + 1 \in 1 .. Len(r) /\ (n + 1) - 1 = n
    BY <1>3
  <2> QED
    BY <1>2, <1>3, <2>1
<1> QED
  BY <1>1, <1>2, <1>3, <1>4, <1>5

(* No line, no line queued. *)
LEMMA QueuedNothing ==
  ASSUME NEW S, NEW q \in Seq(S)
  PROVE  Len(q) = 0 => Queued(q) = <<>>
<1>1. PICK f \in [0 .. Len(q) -> Seq(S)] :
        /\ f[0] = <<>> /\ \A i \in 1 .. Len(q) : f[i] = Queue(f[i - 1], q[i])
        /\ Queued(q) = f[Len(q)]
  BY QueuedSteps
<1> QED
  BY <1>1

(* What is queued was written. *)
LEMMA QueuedWritten ==
  ASSUME NEW S, NEW q \in Seq(S)
  PROVE  /\ Queued(q) \in Seq(S)
         /\ \A k \in 1 .. Len(Queued(q)) : \E i \in 1 .. Len(q) : Queued(q)[k] = q[i]
<1> DEFINE n == Len(q)
<1>0. n \in Nat /\ \A i \in 1 .. n : q[i] \in S
  OBVIOUS
<1>1. PICK f \in [0 .. n -> Seq(S)] :
        /\ f[0] = <<>> /\ \A i \in 1 .. n : f[i] = Queue(f[i - 1], q[i])
        /\ Queued(q) = f[n]
  BY QueuedSteps
<1> DEFINE From(x) == \A k \in 1 .. Len(x) : \E i \in 1 .. n : x[k] = q[i]
<1>2. \A i \in 0 .. n : From(f[i])
  <2> DEFINE T == {i \in 0 .. n : From(f[i])}
  <2>1. 0 \in T
    BY <1>0, <1>1
  <2>2. ASSUME NEW i \in 1 .. n, i - 1 \in T PROVE i \in T
    <3> DEFINE x == f[i - 1]
    <3>0. i - 1 \in 0 .. n /\ i \in 0 .. n /\ From(x)
      <4> HIDE DEF From
      <4> QED
        BY <1>0, <2>2
    <3>1. i - 1 \in 0 .. n /\ i \in 0 .. n /\ From(x) /\ x \in Seq(S) /\ q[i] \in S
      BY <1>0, <1>1, <3>0
    <3>2. f[i] = x \/ f[i] = Append(x, q[i])
      BY <1>1 DEF Queue
    <3>3. From(Append(x, q[i]))
      <4> HIDE DEF x
      <4>1. ASSUME NEW k \in 1 .. Len(Append(x, q[i]))
            PROVE  \E j \in 1 .. n : Append(x, q[i])[k] = q[j]
        <5>1. CASE k \in 1 .. Len(x)
          BY <3>1, <5>1
        <5>2. CASE k = Len(x) + 1
          BY <3>1, <5>2
        <5>3. k \in 1 .. Len(x) \/ k = Len(x) + 1
          BY <3>1
        <5> QED
          BY <5>1, <5>2, <5>3
      <4> QED
        BY <4>1
    <3>4. From(f[i])
      <4> HIDE DEF x, From
      <4> QED
        BY <3>1, <3>2, <3>3
    <3> QED
      BY <3>1, <3>4
  <2>3. \A i \in 0 .. n : i \in T
    <3> HIDE DEF T, n
    <3> QED
      BY <1>0, <2>1, <2>2, UpTo
  <2> QED
    BY <2>3
<1>3. n \in 0 .. n
  BY <1>0
<1>4. From(f[n]) /\ f[n] \in Seq(S)
  <2> HIDE DEF From
  <2> QED
    BY <1>1, <1>2, <1>3
<1> QED
  BY <1>1, <1>4

(* What is taken from the wire and what is left there. *)
LEMMA TakenAndLeft ==
  ASSUME NEW B, NEW w \in Seq(B), NEW b \in Seq(B), NEW size \in Nat, Space(b, size) \in Nat
  PROVE  /\ Taken(b, w, size) \in Seq(B) /\ Left(b, w, size) \in Seq(B)
         /\ Len(Taken(b, w, size)) <= Space(b, size)
         /\ w = Taken(b, w, size) \o Left(b, w, size)
<1> DEFINE k == Min({Len(w), Space(b, size)})
<1>1. k \in 0 .. Len(w) /\ k <= Space(b, size)
  <2>1. ASSUME NEW m \in Nat, NEW n \in Nat
        PROVE  Min({m, n}) \in 0 .. m /\ Min({m, n}) <= n
    <3>1. \E x \in {m, n} : \A y \in {m, n} : x <= y
      <4>1. CASE m <= n
        BY <4>1
      <4>2. CASE n <= m
        BY <4>2
      <4> QED
        BY <4>1, <4>2
    <3>2. Min({m, n}) \in {m, n} /\ \A y \in {m, n} : Min({m, n}) <= y
      BY <3>1 DEF Min
    <3> QED
      BY <3>2
  <2>2. Len(w) \in Nat
    OBVIOUS
  <2> QED
    BY <2>1, <2>2
<1> HIDE DEF k
<1>2. Taken(b, w, size) = SubSeq(w, 1, k)
  BY DEF Taken, k
<1>3. SubSeq(w, 1, k) \in Seq(B) /\ Len(SubSeq(w, 1, k)) = k
  BY <1>1
<1>4. Left(b, w, size) = SubSeq(w, k + 1, Len(w))
  BY <1>2, <1>3 DEF Left
<1>5. SubSeq(w, k + 1, Len(w)) \in Seq(B)
  BY <1>1
<1>6. w = SubSeq(w, 1, k) \o SubSeq(w, k + 1, Len(w))
  <2> DEFINE p == SubSeq(w, 1, k)  q == SubSeq(w, k + 1, Len(w))  r == p \o q
  <2>1. /\ p \in Seq(B) /\ Len(p) = k /\ \A i \in 1 .. k : p[i] = w[i]
        /\ q \in Seq(B) /\ Len(q) = Len(w) - k
        /\ \A i \in 1 .. Len(w) - k : q[i] = w[k + i]
        /\ k \in Nat /\ Len(w) \in Nat /\ k <= Len(w)
    BY <1>1
  <2> HIDE DEF p, q
  <2>2. r \in Seq(B) /\ Len(r) = Len(w)
    <3>1. p \in Seq(B) /\ q \in Seq(B)
      BY <2>1
    <3>2. r \in Seq(B) /\ Len(r) = Len(p) + Len(q)
      BY <3>1, ConcatProperties
    <3> HIDE DEF r
    <3> QED
      BY <2>1, <3>2
  <2>3. ASSUME NEW i \in 1 .. Len(w) PROVE r[i] = w[i]
    <3>1. CASE i <= k
      BY <2>1, <3>1
    <3>2. CASE i > k
      <4>1. i - k \in 1 .. Len(w) - k /\ k + (i - k) = i
        BY <2>1, <3>2
      <4>2. r[i] = q[i - k]
        BY <2>1, <3>2
      <4> QED
        BY <2>1, <4>1, <4>2
    <3> QED
      BY <2>1, <3>1, <3>2
  <2> HIDE DEF r
  <2>4. r = w
    BY <2>2, <2>3, SeqEqual
  <2> QED
    BY <2>4 DEF p, q, r
<1> QED
  BY <1>1, <1>2, <1>3, <1>4, <1>5, <1>6

(* One byte is one step. *)
LEMMA ScanByte ==
  ASSUME NEW B, NEW s \in Scans(B), NEW b \in B, NEW y \in Seq(B)
  PROVE  Len(y) = 1 /\ y[1] = b => Scan(s, y) = Byte(s, b)
<1>1. PICK f \in [0 .. Len(y) -> Scans(B)] :
        /\ f[0] = s /\ \A i \in 1 .. Len(y) : f[i] = Byte(f[i - 1], y[i])
        /\ Scan(s, y) = f[Len(y)]
  BY ScanSteps
<1> HAVE Len(y) = 1 /\ y[1] = b
<1>2. 1 \in 1 .. Len(y) /\ 1 - 1 = 0
  OBVIOUS
<1> QED
  BY <1>1, <1>2

(* The bytes of a line and its newline queue that line. *)
WithLine(v, w, r, q, line) == v = w \o line \o <<Nl>> /\ r = Append(q, line)

LEMMA WriteScanned ==
  ASSUME NEW B, NEW s \in Scans(B), NEW w \in Seq(B), NEW q \in Seq(Seq(B)),
         NEW line \in Seq(B), NEW v \in Seq(B), NEW r \in Seq(Seq(B)),
         Nl \in B, \A i \in DOMAIN line : line[i] # Nl
  PROVE  Scan(s, w) = Scanned(Queued(q), <<>>) /\ WithLine(v, w, r, q, line)
           => Scan(s, v) = Scanned(Queued(r), <<>>)
<1> DEFINE x == w \o line  y == <<Nl>>
<1>2. Queued(q) \in Seq(Seq(B)) /\ <<>> \in Seq(B)
  BY QueuedWritten
<1> DEFINE t == Scanned(Queued(q), <<>>)  u == Scanned(Queued(q), line)
<1>3. t \in Scans(B) /\ t.lines = Queued(q) /\ t.rest = <<>>
  BY <1>2, ScannedTyped, ScannedParts
<1>4. u \in Scans(B) /\ u.lines = Queued(q) /\ u.rest = line
  BY <1>2, ScannedTyped, ScannedParts
<1>5. Scan(s, x) = Scan(Scan(s, w), line)
  BY ScanTwice
<1>6. Scan(t, line) = u
  <2>1. <<>> \o line = line
    OBVIOUS
  <2>2. Scan(t, line) = Scanned(t.lines, t.rest \o line)
    <3> HIDE DEF t
    <3> QED
      BY <1>3, ScanRest
  <2> HIDE DEF t
  <2> QED
    BY <1>3, <2>1, <2>2
<1>7. Scan(u, y) = Scanned(Queue(Queued(q), line), <<>>)
  <2>1. y \in Seq(B) /\ Len(y) = 1 /\ y[1] = Nl
    OBVIOUS
  <2>4. Scan(u, y) = Byte(u, Nl)
    <3> HIDE DEF u, y
    <3> QED
      BY <1>4, <2>1, ScanByte
  <2> HIDE DEF u
  <2> QED
    BY <1>4, <2>4 DEF Byte
<1>8. Scan(s, x \o y) = Scan(Scan(s, x), y)
  <2>1. x \in Seq(B) /\ y \in Seq(B)
    OBVIOUS
  <2> HIDE DEF x, y
  <2> QED
    BY <2>1, ScanTwice
<1>9. Scan(s, w) = t => Scan(s, x \o y) = Scanned(Queue(Queued(q), line), <<>>)
  <2> HIDE DEF x, y, t, u
  <2> QED
    BY <1>5, <1>6, <1>7, <1>8
<1>10. r = Append(q, line) => Queued(r) = Queue(Queued(q), line)
  <2>1. Append(q, line) \in Seq(Seq(B))
    OBVIOUS
  <2>2. \A p \in Seq(Seq(B)) : p = Append(q, line) => Queued(p) = Queue(Queued(q), line)
    BY QueuedAppend
  <2> QED
    BY <2>1, <2>2, Zenon
<1>11. ASSUME Scan(s, w) = t, v = x \o y, r = Append(q, line)
       PROVE  Scan(s, v) = Scanned(Queued(r), <<>>)
  <2> HIDE DEF x, y, t
  <2> QED
    BY <1>9, <1>10, <1>11, Zenon
<1> QED
  BY <1>11 DEF WithLine

(* A read of more bytes, cut together with what read_buf has of them:      *)
(* the scan of what is left goes on as it would have.                      *)
LEMMA ReadScanned ==
  ASSUME NEW B, NEW l \in Seq(Seq(B)), NEW b \in Seq(B), NEW t \in Seq(B), NEW u \in Seq(B),
         \A i \in DOMAIN b : b[i] # Nl
  PROVE  /\ Lines(b \o t) \in Seq(Seq(B)) /\ Rest(b \o t) \in Seq(B)
         /\ Scan(Scanned(l, b), t \o u)
              = Scan(Scanned(l \o Lines(b \o t), Rest(b \o t)), u)
         /\ Len(Rest(b \o t)) <= Len(b) + Len(t)
         /\ \A i \in DOMAIN Rest(b \o t) : Rest(b \o t)[i] # Nl
<1> DEFINE n == Scanned(<<>>, <<>>)  s == Scanned(<<>>, b)  z == Scanned(l, b)
<1>1. /\ n \in Scans(B) /\ n.lines = <<>> /\ n.rest = <<>>
      /\ s \in Scans(B) /\ s.lines = <<>> /\ s.rest = b
      /\ z \in Scans(B)
  <2>1. <<>> \in Seq(Seq(B)) /\ <<>> \in Seq(B)
    OBVIOUS
  <2> QED
    BY <2>1, ScannedTyped, ScannedParts
<1>2. Scan(n, b) = s
  <2>1. <<>> \o b = b
    OBVIOUS
  <2>2. Scan(n, b) = Scanned(n.lines, n.rest \o b)
    <3> HIDE DEF n
    <3> QED
      BY <1>1, ScanRest
  <2> HIDE DEF n
  <2> QED
    BY <1>1, <2>1, <2>2
<1>3. Scan(n, b \o t) = Scan(s, t)
  <2> HIDE DEF n, s
  <2> QED
    BY <1>1, <1>2, ScanTwice
<1>4. Lines(b \o t) = Scan(s, t).lines /\ Rest(b \o t) = Scan(s, t).rest
  BY <1>3 DEF Lines, Rest
<1>5. Lines(b \o t) \in Seq(Seq(B)) /\ Rest(b \o t) \in Seq(B)
  <2>1. Scan(s, t) \in Scans(B)
    <3> HIDE DEF s
    <3> QED
      BY <1>1, ScanTyped
  <2> QED
    BY <1>4, <2>1, ScansParts
<1>6. Scan(z, t) = Scanned(l \o Lines(b \o t), Rest(b \o t))
  <2>1. l \o <<>> = l
    OBVIOUS
  <2>2. z = Scanned(l \o s.lines, s.rest)
    <3> HIDE DEF s
    <3> QED
      BY <1>1, <2>1
  <2>3. z = Scanned(l \o s.lines, s.rest)
          => Scan(z, t) = Scanned(l \o Scan(s, t).lines, Scan(s, t).rest)
    <3> HIDE DEF s, z
    <3> QED
      BY <1>1, ScanBehind
  <2> QED
    BY <1>4, <2>2, <2>3, Zenon
<1>7. Scan(z, t \o u) = Scan(Scan(z, t), u)
  <2> HIDE DEF z
  <2> QED
    BY <1>1, ScanTwice
<1>8. /\ Len(Scan(s, t).rest) <= Len(s.rest) + Len(t)
      /\ \A i \in DOMAIN Scan(s, t).rest : Scan(s, t).rest[i] # Nl
  <2>1. \A i \in DOMAIN s.rest : s.rest[i] # Nl
    BY <1>1
  <2> HIDE DEF s
  <2> QED
    BY <1>1, <2>1, RestBounded
<1>9. /\ Len(Rest(b \o t)) <= Len(b) + Len(t)
      /\ \A i \in DOMAIN Rest(b \o t) : Rest(b \o t)[i] # Nl
  <2> HIDE DEF s
  <2> QED
    BY <1>1, <1>4, <1>8
<1>10. Scan(z, t \o u) = Scan(Scanned(l \o Lines(b \o t), Rest(b \o t)), u)
  BY <1>6, <1>7, Zenon
<1> QED
  BY <1>5, <1>9, <1>10

(* A full buffer without a newline has the start of a line in it that does *)
(* not fit.                                                                *)
LEMMA FullScanned ==
  ASSUME NEW B, NEW l \in Seq(Seq(B)), NEW b \in Seq(B), NEW w \in Seq(B),
         NEW q \in Seq(Seq(B)), b # <<>>,
         Scan(Scanned(l, b), w) = Scanned(Queued(q), <<>>)
  PROVE  \E i \in DOMAIN q : Len(q[i]) >= Len(b)
<1> DEFINE z == Scanned(l, b)
<1>1. z \in Scans(B) /\ z.rest = b
  BY ScannedTyped, ScannedParts
<1>2. \/ Len(Scan(z, w).rest) >= Len(z.rest)
      \/ \E k \in 1 .. Len(Scan(z, w).lines) : Len(Scan(z, w).lines[k]) >= Len(z.rest)
  <2> HIDE DEF z
  <2> QED
    BY <1>1, ScanGrows
<1>3. Scan(z, w).rest = <<>> /\ Scan(z, w).lines = Queued(q)
  BY ScannedParts
<1>4. Len(b) \in Nat /\ ~(Len(<<>>) >= Len(b))
  OBVIOUS
<1>5. \E k \in 1 .. Len(Queued(q)) : Len(Queued(q)[k]) >= Len(b)
  <2> HIDE DEF z
  <2> QED
    BY <1>1, <1>2, <1>3, <1>4
<1>6. \A k \in 1 .. Len(Queued(q)) : \E i \in 1 .. Len(q) : Queued(q)[k] = q[i]
  BY QueuedWritten
<1>7. DOMAIN q = 1 .. Len(q)
  OBVIOUS
<1> QED
  BY <1>5, <1>6, <1>7

-------------------------------------------------------------------------------
(* The handshake *)

Serves(c) == serving = c /\ mpc \notin {"head", "poll", "read"}
Unmet(c)  == "met" \notin mishap[c]

ConnTypes ==
  /\ proc \in [Clients -> Procs]
  /\ {sigPending, pid, serving} \subseteq Clients \union {None}
  /\ handling \subseteq Clients /\ requested \in BOOLEAN
  /\ mpc \in Steps
  /\ sessions \in [Clients -> Nat] /\ link \in [Clients -> Links]
  /\ mishap \in [Clients -> SUBSET Mishaps]
  /\ requested \/ handling # {} => pid \in Clients
  /\ mpc \notin {"head", "poll", "read"} => serving \in Clients

(* Nothing is known of a client that has not started. *)
NewInv ==
  \A c \in Clients : proc[c] = "new" =>
     sigPending # c /\ c \notin handling /\ pid # c /\ serving # c /\ sessions[c] = 0

(* While a request that met no other is under way, no other is; and pid is *)
(* overwritten while a handler runs only if both requests met another.     *)
MetInv ==
  /\ \A c, d \in Clients : Unmet(c) /\ UnderWay(c) /\ UnderWay(d) => c = d
  /\ \A c \in handling : pid = c \/ (~Unmet(pid) /\ ~Unmet(c))

(* A request that met no other is in one place: with the kernel, with the  *)
(* handler, in the flags, with the main loop, or served.                   *)
OnceInv ==
  \A c \in Clients : Unmet(c) =>
     /\ sigPending = c \/ c \in handling =>
          /\ ~(sigPending = c /\ c \in handling)
          /\ ~(requested /\ pid = c) /\ ~Serves(c) /\ sessions[c] = 0
     /\ requested /\ pid = c => sessions[c] = 0 /\ (Serves(c) => mpc = "reset")
     /\ Serves(c) => sessions[c] = 0
     /\ sessions[c] <= 1

(* What the state of a session says of its client. *)
LinkInv ==
  /\ mpc = "add_half" => "interrupted" \in mishap[serving]
  /\ \A c \in Clients :
       /\ link[c] = "half" => "interrupted" \in mishap[c]
       /\ proc[c] = "connected" =>
            link[c] \in {"whole", "closed"} \/ (serving = c /\ mpc = "add")

ConnInv == ConnTypes /\ NewInv /\ MetInv /\ OnceInv /\ LinkInv

-------------------------------------------------------------------------------
(* At the start nobody is connected. *)
LEMMA InitInv == Init => ConnInv
<1> SUFFICES ASSUME Init PROVE ConnInv
  OBVIOUS
<1> USE ConnectionAssumption DEF Init, ConnInit
<1>1. ConnTypes
  BY DEF ConnTypes, Procs, Steps, Links
<1>2. NewInv /\ MetInv /\ LinkInv
  BY DEF NewInv, MetInv, LinkInv, UnderWay
<1>3. OnceInv
  BY DEF OnceInv, Serves
<1> QED
  BY <1>1, <1>2, <1>3 DEF ConnInv

(* Mishaps are only added. *)
LEMMA WithAdds ==
  ASSUME NEW f \in [Clients -> SUBSET Mishaps], NEW C, NEW m \in Mishaps
  PROVE  /\ With(f, C, m) \in [Clients -> SUBSET Mishaps]
         /\ \A d \in Clients :
              /\ "met" \in With(f, C, m)[d] <=> "met" \in f[d] \/ (m = "met" /\ d \in C)
              /\ "interrupted" \in f[d] \/ (m = "interrupted" /\ d \in C)
                   => "interrupted" \in With(f, C, m)[d]
  BY DEF With

(* A client asks: it, and who asks already, meet. *)
LEMMA AskInv ==
  ASSUME ConnInv, NEW c \in Clients, Ask(c)
  PROVE  ConnInv'
<1> DEFINE D == {d \in Clients : UnderWay(d)}
<1>1. PICK f \in [Clients -> SUBSET Mishaps] :
        /\ f = With(mishap, IF D = {} THEN {} ELSE D \union {c}, "met")
        /\ mishap' = With(f, IF sigPending = None THEN {} ELSE {c}, "lost")
  <2>1. "met" \in Mishaps
    BY DEF Mishaps
  <2> QED
    BY <2>1, WithAdds DEF Ask, ConnInv, ConnTypes
<1>2. /\ mishap' \in [Clients -> SUBSET Mishaps]
      /\ \A d \in Clients :
           /\ Unmet(d)' <=> Unmet(d) /\ (D = {} \/ d \notin D \union {c})
           /\ "interrupted" \in mishap[d] => "interrupted" \in mishap'[d]
  <2>1. "met" \in Mishaps /\ "lost" \in Mishaps /\ mishap \in [Clients -> SUBSET Mishaps]
    BY DEF Mishaps, ConnInv, ConnTypes
  <2> QED
    BY <1>1, <2>1, WithAdds DEF Unmet
<1>3. /\ sigPending # c /\ c \notin handling /\ pid # c /\ serving # c /\ sessions[c] = 0
      /\ sigPending' \in {sigPending, c} /\ (sigPending = None => sigPending' = c)
      /\ (sigPending # None => sigPending' = sigPending)
  BY DEF Ask, ConnInv, NewInv
<1>4. ConnTypes'
  BY <1>2 DEF Ask, ConnInv, ConnTypes, Procs
<1>5. NewInv'
  BY <1>3 DEF Ask, ConnInv, ConnTypes, NewInv
<1>6. \A d \in Clients : UnderWay(d)' => d \in D \union {c}
  BY <1>3 DEF Ask, UnderWay
<1>7. MetInv'
  <2>1. \A b, d \in Clients : Unmet(b)' /\ UnderWay(b)' /\ UnderWay(d)' => b = d
    BY <1>2, <1>6
  <2>2. \A d \in handling' : pid' = d \/ (~Unmet(pid)' /\ ~Unmet(d)')
    BY <1>2 DEF Ask, ConnInv, ConnTypes, MetInv
  <2> QED
    BY <2>1, <2>2 DEF MetInv, Unmet
<1>8. OnceInv'
  BY <1>2, <1>3 DEF Ask, ConnInv, ConnTypes, OnceInv, Serves
<1>9. LinkInv'
  BY <1>2 DEF Ask, ConnInv, ConnTypes, LinkInv
<1> QED
  BY <1>4, <1>5, <1>7, <1>8, <1>9 DEF ConnInv

(* A step of a client that waits or leaves. *)
LEMMA ClientInv ==
  ASSUME ConnInv, NEW c \in Clients, NEW C, NEW p \in Procs \ {"new", "connected"},
         proc[c] # "new", proc' = [proc EXCEPT ![c] = p],
         mishap' = mishap \/ mishap' = With(mishap, C, "missed"),
         UNCHANGED <<sigPending, handling, pid, requested, mpc, serving, sessions, link>>
  PROVE  ConnInv'
<1>1. /\ mishap' \in [Clients -> SUBSET Mishaps]
      /\ \A d \in Clients :
           /\ Unmet(d)' <=> Unmet(d)
           /\ "interrupted" \in mishap[d] => "interrupted" \in mishap'[d]
  <2>1. "missed" \in Mishaps /\ mishap \in [Clients -> SUBSET Mishaps]
    BY DEF Mishaps, ConnInv, ConnTypes
  <2> QED
    BY <2>1, WithAdds DEF Unmet
<1>2. ConnTypes'
  BY <1>1 DEF ConnInv, ConnTypes
<1>3. NewInv'
  BY DEF ConnInv, ConnTypes, NewInv
<1>4. \A d \in Clients : UnderWay(d)' <=> UnderWay(d)
  BY DEF UnderWay
<1>5. MetInv'
  BY <1>1, <1>4 DEF ConnInv, ConnTypes, MetInv
<1>6. OnceInv'
  BY <1>1 DEF ConnInv, OnceInv, Serves
<1>7. LinkInv'
  BY <1>1 DEF ConnInv, ConnTypes, LinkInv
<1> QED
  BY <1>2, <1>3, <1>5, <1>6, <1>7 DEF ConnInv

(* A client waits for its answer, or exits. *)
LEMMA WaitsInv ==
  ASSUME ConnInv, NEW c \in Clients, Waits(c) \/ Exit(c)
  PROVE  ConnInv'
<1>1. CASE Test(c)
  <2>1. PICK p \in {"opening_c2s", "pausing"} : proc' = [proc EXCEPT ![c] = p]
    BY <1>1 DEF Test
  <2> QED
    BY <1>1, <2>1, ClientInv DEF Test, Procs, signals
<1>2. CASE Pause(c)
  BY <1>2, ClientInv DEF Pause, Befalls, Procs, signals
<1>3. CASE ClientOpenC2S(c)
  BY <1>3, ClientInv DEF ClientOpenC2S, Procs, signals
<1>4. CASE Exit(c)
  BY <1>4, ClientInv DEF Exit, Procs, signals
<1> QED
  BY <1>1, <1>2, <1>3, <1>4 DEF Waits

-------------------------------------------------------------------------------
(* What the handler of the signal of c finds. *)
LEMMA Pending ==
  ASSUME ConnInv, NEW c \in Clients, sigPending = c
  PROVE  /\ proc[c] # "new"
         /\ Unmet(c) => requested = FALSE /\ handling = {} /\ ~Serves(c) /\ sessions[c] = 0
         /\ \A d \in Clients : Unmet(d) /\ UnderWay(d) => c = d
<1>1. UnderWay(c)
  BY DEF UnderWay
<1>2. \A d \in Clients : (Unmet(c) \/ Unmet(d)) /\ UnderWay(d) => c = d
  BY <1>1 DEF ConnInv, MetInv
<1>3. ASSUME Unmet(c) PROVE requested = FALSE /\ handling = {}
  <2>1. requested => UnderWay(pid) /\ pid \in Clients
    BY DEF UnderWay, ConnInv, ConnTypes
  <2>2. \A d \in handling : UnderWay(d) /\ d \in Clients
    BY DEF UnderWay, ConnInv, ConnTypes
  <2> QED
    BY <1>2, <1>3, <2>1, <2>2 DEF ConnInv, ConnTypes, OnceInv
<1> QED
  BY <1>2, <1>3 DEF ConnInv, NewInv, OnceInv

(* The signal is handled by a worker. *)
LEMMA WorkerInv ==
  ASSUME ConnInv, NEW c \in Clients, DeliverToWorker(c)
  PROVE  ConnInv'
<1>1. /\ mishap' \in [Clients -> SUBSET Mishaps]
      /\ \A d \in Clients :
           /\ Unmet(d)' <=> Unmet(d)
           /\ "interrupted" \in mishap[d] => "interrupted" \in mishap'[d]
  <2>1. "lost" \in Mishaps /\ mishap \in [Clients -> SUBSET Mishaps]
    BY DEF Mishaps, ConnInv, ConnTypes
  <2> QED
    BY <2>1, WithAdds DEF DeliverToWorker, Befalls, Unmet
<1>2. sigPending = c
  BY DEF DeliverToWorker
<1>3. ConnTypes'
  BY <1>1, <1>2 DEF DeliverToWorker, ConnInv, ConnTypes
<1>4. NewInv'
  BY <1>2, Pending, ConnectionAssumption DEF DeliverToWorker, ConnInv, NewInv
<1>5. \A d \in Clients : UnderWay(d)' => UnderWay(d)
  BY <1>2, ConnectionAssumption DEF DeliverToWorker, UnderWay, ConnInv, ConnTypes
<1>6. MetInv'
  <2>1. \A b, d \in Clients : Unmet(b)' /\ UnderWay(b)' /\ UnderWay(d)' => b = d
    BY <1>1, <1>5 DEF ConnInv, MetInv
  <2>2. \A d \in handling : ~(c # d /\ (Unmet(c) \/ Unmet(d)))
    BY <1>2, Pending DEF UnderWay, ConnInv, ConnTypes
  <2>3. \A d \in handling' : pid' = d \/ (~Unmet(pid)' /\ ~Unmet(d)')
    BY <1>1, <2>2 DEF DeliverToWorker, ConnInv, ConnTypes
  <2> QED
    BY <2>1, <2>3 DEF MetInv, Unmet
<1>7. OnceInv'
  BY <1>1, <1>2, Pending, ConnectionAssumption
     DEF DeliverToWorker, ConnInv, ConnTypes, OnceInv, Serves
<1>8. LinkInv'
  BY <1>1 DEF DeliverToWorker, ConnInv, ConnTypes, LinkInv
<1> QED
  BY <1>3, <1>4, <1>6, <1>7, <1>8 DEF ConnInv

(* The handler of a worker ends. *)
LEMMA HandlerEndInv ==
  ASSUME ConnInv, NEW c \in Clients, HandlerEnd(c)
  PROVE  ConnInv'
<1>1. c \in handling /\ UnderWay(c) /\ pid \in Clients
  BY DEF HandlerEnd, UnderWay, ConnInv, ConnTypes
<1>2. pid = c \/ (~Unmet(pid) /\ ~Unmet(c))
  BY <1>1 DEF ConnInv, MetInv
<1>3. \A d \in Clients : UnderWay(d)' => UnderWay(d) \/ d = pid
  BY DEF HandlerEnd, UnderWay
<1>4. ConnTypes'
  BY <1>1 DEF HandlerEnd, ConnInv, ConnTypes
<1>5. NewInv'
  BY DEF HandlerEnd, ConnInv, NewInv
<1>6. MetInv'
  <2>1. \A b, d \in Clients : Unmet(b) /\ UnderWay(b)' /\ UnderWay(d)' => b = d
    <3> SUFFICES ASSUME NEW b \in Clients, NEW d \in Clients,
                        Unmet(b), UnderWay(b)', UnderWay(d)'
                 PROVE  b = d
      OBVIOUS
    <3>1. CASE pid = c
      BY <1>1, <1>3, <3>1 DEF ConnInv, MetInv
    <3>2. CASE ~Unmet(pid) /\ ~Unmet(c)
      <4>1. UnderWay(b)
        BY <1>3, <3>2
      <4>2. b = c
        BY <1>1, <4>1 DEF ConnInv, MetInv
      <4> QED
        BY <3>2, <4>2
    <3> QED
      BY <1>2, <3>1, <3>2
  <2>2. \A d \in handling' : pid' = d \/ (~Unmet(pid)' /\ ~Unmet(d)')
    BY DEF HandlerEnd, ConnInv, MetInv, Unmet
  <2> QED
    BY <2>1, <2>2 DEF HandlerEnd, MetInv, Unmet
<1>7. OnceInv'
  BY <1>1, <1>2 DEF HandlerEnd, ConnInv, OnceInv, Serves, Unmet
<1>8. LinkInv'
  BY DEF HandlerEnd, ConnInv, LinkInv
<1> QED
  BY <1>4, <1>5, <1>6, <1>7, <1>8 DEF ConnInv

(* The signal is handled by the main thread, which it may interrupt. *)
LEMMA MainInv ==
  ASSUME ConnInv, NEW c \in Clients, DeliverToMain(c)
  PROVE  ConnInv'
<1>1. PICK f \in [Clients -> SUBSET Mishaps] :
        /\ f = With(mishap, Overwritten(c), "lost")
        /\ mishap' = With(f, IF mpc = "open_s2c" THEN {serving} ELSE {}, "interrupted")
  <2>1. "lost" \in Mishaps
    BY DEF Mishaps
  <2> QED
    BY <2>1, WithAdds DEF DeliverToMain, ConnInv, ConnTypes
<1>2. /\ mishap' \in [Clients -> SUBSET Mishaps]
      /\ mpc = "open_s2c" => "interrupted" \in mishap'[serving]
      /\ \A d \in Clients :
           /\ Unmet(d)' <=> Unmet(d)
           /\ "interrupted" \in mishap[d] => "interrupted" \in mishap'[d]
  <2>1. /\ "lost" \in Mishaps /\ "interrupted" \in Mishaps
        /\ mishap \in [Clients -> SUBSET Mishaps]
        /\ mpc = "open_s2c" => serving \in Clients
    BY DEF Mishaps, ConnInv, ConnTypes
  <2> QED
    BY <1>1, <2>1, WithAdds DEF Unmet
<1>3. sigPending = c /\ mpc \in Steps
  BY DEF DeliverToMain, ConnInv, ConnTypes
<1>4. ConnTypes'
  BY <1>2, <1>3 DEF DeliverToMain, ConnInv, ConnTypes, Steps
<1>5. NewInv'
  BY <1>3, Pending, ConnectionAssumption DEF DeliverToMain, ConnInv, NewInv
<1>6. \A d \in Clients : UnderWay(d)' => UnderWay(d)
  BY <1>3, ConnectionAssumption DEF DeliverToMain, UnderWay
<1>7. MetInv'
  <2>1. \A b, d \in Clients : Unmet(b)' /\ UnderWay(b)' /\ UnderWay(d)' => b = d
    BY <1>2, <1>6 DEF ConnInv, MetInv
  <2>2. \A d \in handling : ~(c # d /\ (Unmet(c) \/ Unmet(d)))
    BY <1>3, Pending DEF UnderWay, ConnInv, ConnTypes
  <2>3. \A d \in handling' : pid' = d \/ (~Unmet(pid)' /\ ~Unmet(d)')
    BY <1>2, <2>2 DEF DeliverToMain, ConnInv, ConnTypes
  <2> QED
    BY <2>1, <2>3 DEF MetInv, Unmet
<1>8. \A d \in Clients : Serves(d)' <=> Serves(d)
  BY DEF DeliverToMain, Serves
<1>9. OnceInv'
  BY <1>2, <1>3, <1>8, Pending, ConnectionAssumption
     DEF DeliverToMain, ConnInv, ConnTypes, OnceInv
<1>10. LinkInv'
  BY <1>2 DEF DeliverToMain, ConnInv, ConnTypes, LinkInv
<1> QED
  BY <1>4, <1>5, <1>7, <1>9, <1>10 DEF ConnInv

-------------------------------------------------------------------------------
(* The main loop reads the pid. *)
LEMMA TakePidInv ==
  ASSUME ConnInv, TakePid
  PROVE  ConnInv'
<1>1. requested /\ pid \in Clients /\ UnderWay(pid)
  BY DEF TakePid, UnderWay, ConnInv, ConnTypes
<1>2. ConnTypes'
  BY <1>1 DEF TakePid, signals, ConnInv, ConnTypes, Steps
<1>3. NewInv'
  BY <1>1 DEF TakePid, signals, ConnInv, NewInv
<1>4. \A d \in Clients : UnderWay(d)' => UnderWay(d)
  BY <1>1 DEF TakePid, signals, UnderWay
<1>5. MetInv'
  BY <1>4 DEF TakePid, signals, ConnInv, MetInv, Unmet
<1>6. OnceInv'
  BY <1>1 DEF TakePid, signals, ConnInv, OnceInv, Serves, Unmet
<1>7. LinkInv'
  BY DEF TakePid, signals, ConnInv, LinkInv
<1> QED
  BY <1>2, <1>3, <1>5, <1>6, <1>7 DEF ConnInv

(* It clears the flag; a request that came in between is lost. *)
LEMMA ResetInv ==
  ASSUME ConnInv, Reset
  PROVE  ConnInv'
<1>1. /\ mishap' \in [Clients -> SUBSET Mishaps]
      /\ \A d \in Clients :
           /\ Unmet(d)' <=> Unmet(d)
           /\ "interrupted" \in mishap[d] => "interrupted" \in mishap'[d]
  <2>1. "lost" \in Mishaps /\ mishap \in [Clients -> SUBSET Mishaps]
    BY DEF Mishaps, ConnInv, ConnTypes
  <2> QED
    BY <2>1, WithAdds DEF Reset, Befalls, Unmet
<1>2. ConnTypes'
  BY <1>1 DEF Reset, ConnInv, ConnTypes, Steps
<1>3. NewInv'
  BY DEF Reset, ConnInv, NewInv
<1>4. \A d \in Clients : UnderWay(d)' => UnderWay(d)
  BY DEF Reset, UnderWay
<1>5. MetInv'
  BY <1>1, <1>4 DEF Reset, ConnInv, ConnTypes, MetInv
<1>6. \A d \in Clients : Serves(d)' <=> Serves(d)
  BY DEF Reset, Serves
<1>7. OnceInv'
  BY <1>1, <1>6 DEF Reset, ConnInv, OnceInv
<1>8. LinkInv'
  BY <1>1 DEF Reset, ConnInv, ConnTypes, LinkInv
<1> QED
  BY <1>2, <1>3, <1>5, <1>7, <1>8 DEF ConnInv

(* The steps of the main loop up to the second open. *)
LEMMA ServeInv ==
  ASSUME ConnInv, mpc \in {"prepare", "open_c2s", "open_s2c"},
         mpc' \in {"open_c2s", "open_s2c", "add"},
         NEW p \in Procs \ {"new"}, proc' = [proc EXCEPT ![serving] = p] \/ proc' = proc,
         proc'[serving] = "connected" => proc[serving] = "connected" \/ mpc' = "add",
         UNCHANGED <<signals, serving, sessions, link, mishap>>
  PROVE  ConnInv'
<1>1. serving \in Clients
  BY DEF ConnInv, ConnTypes
<1>2. ConnTypes'
  BY <1>1 DEF signals, ConnInv, ConnTypes, Steps
<1>3. NewInv'
  BY <1>1 DEF signals, ConnInv, ConnTypes, NewInv
<1>4. \A d \in Clients : UnderWay(d)' <=> UnderWay(d)
  BY DEF signals, UnderWay
<1>5. MetInv'
  BY <1>4 DEF signals, ConnInv, MetInv, Unmet
<1>6. OnceInv'
  BY DEF signals, ConnInv, OnceInv, Serves, Unmet
<1>7. LinkInv'
  BY <1>1 DEF ConnInv, ConnTypes, LinkInv
<1> QED
  BY <1>2, <1>3, <1>5, <1>6, <1>7 DEF ConnInv

(* The session is added. *)
LEMMA AddSessionInv ==
  ASSUME ConnInv, AddSession
  PROVE  ConnInv'
<1>1. serving \in Clients /\ sessions[serving] \in Nat
  BY DEF AddSession, ConnInv, ConnTypes
<1>2. PICK reaped \in SUBSET Clients :
        link' = [d \in Clients |->
                   IF d = serving /\ link[d] \notin {"whole", "closed"}
                   THEN IF mpc = "add" THEN "whole" ELSE "half"
                   ELSE IF d \in reaped /\ link[d] # "none" THEN "closed"
                   ELSE link[d]]
  BY DEF AddSession
<1>3. ConnTypes'
  BY <1>1, <1>2 DEF AddSession, signals, ConnInv, ConnTypes, Steps, Links
<1>4. NewInv'
  BY <1>1 DEF AddSession, signals, ConnInv, ConnTypes, NewInv
<1>5. \A d \in Clients : UnderWay(d)' <=> UnderWay(d)
  BY DEF AddSession, signals, UnderWay
<1>6. MetInv'
  BY <1>5 DEF AddSession, signals, ConnInv, MetInv, Unmet
<1>7. OnceInv'
  <2>1. \A d \in Clients : ~Serves(d)'
    BY DEF AddSession, Serves
  <2>2. Serves(serving)
    BY DEF AddSession, Serves
  <2>3. Unmet(serving) =>
          /\ sessions[serving] = 0 /\ sigPending # serving /\ serving \notin handling
          /\ ~(requested /\ pid = serving)
    BY <1>1, <2>2 DEF AddSession, ConnInv, OnceInv
  <2>4. \A d \in Clients : sessions'[d] = IF d = serving THEN sessions[d] + 1 ELSE sessions[d]
    BY DEF AddSession, ConnInv, ConnTypes
  <2> QED
    BY <1>1, <2>1, <2>3, <2>4 DEF AddSession, signals, ConnInv, OnceInv, Unmet
<1>8. LinkInv'
  BY <1>1, <1>2 DEF AddSession, ConnInv, ConnTypes, LinkInv, Links
<1> QED
  BY <1>3, <1>4, <1>6, <1>7, <1>8 DEF ConnInv

(* The steps of the main loop in a handshake. *)
LEMMA AcceptInv ==
  ASSUME ConnInv, Accept
  PROVE  ConnInv'
<1>1. CASE Prepare
  <2>1. serving \in Clients /\ proc[serving] \in Procs /\ proc[serving] # "new"
    BY <1>1 DEF Prepare, ConnInv, ConnTypes, NewInv
  <2>2. PICK p \in Signalled(proc[serving]) : proc' = [proc EXCEPT ![serving] = p]
    BY <1>1 DEF Prepare
  <2>3. p \in Procs \ {"new"} /\ (p = "connected" => proc[serving] = "connected")
    BY <2>1, <2>2 DEF Signalled, Procs
  <2>4. proc'[serving] = p
    BY <2>1, <2>2 DEF ConnInv, ConnTypes
  <2> QED
    BY <1>1, <2>2, <2>3, <2>4, ServeInv DEF Prepare
<1>2. CASE ServerOpenC2S
  BY <1>2, ServeInv DEF ServerOpenC2S, Procs
<1>3. CASE OpenS2C
  <2>1. "connected" \in Procs \ {"new"}
    BY DEF Procs
  <2> QED
    BY <1>3, <2>1, ServeInv DEF OpenS2C
<1> QED
  BY <1>1, <1>2, <1>3, TakePidInv, ResetInv, AddSessionInv DEF Accept

(* Lines do not touch the handshake, and a session that is read out at     *)
(* most ends.                                                              *)
LEMMA LineInv ==
  ASSUME ConnInv, mpc \in {"head", "poll", "read"}, mpc' \in {"head", "poll", "read"},
         link' \in [Clients -> Links],
         \A d \in Clients : link'[d] \in {link[d], "closed"},
         UNCHANGED <<proc, signals, serving, sessions, mishap>>
  PROVE  ConnInv'
<1>1. ConnTypes'
  BY DEF signals, ConnInv, ConnTypes, Steps
<1>2. NewInv'
  BY DEF signals, ConnInv, NewInv
<1>3. \A d \in Clients : UnderWay(d)' <=> UnderWay(d)
  BY DEF signals, UnderWay
<1>4. MetInv'
  BY <1>3 DEF signals, ConnInv, MetInv, Unmet
<1>5. OnceInv'
  BY DEF signals, ConnInv, OnceInv, Serves, Unmet
<1>6. LinkInv'
  BY DEF ConnInv, LinkInv
<1> QED
  BY <1>1, <1>2, <1>4, <1>5, <1>6 DEF ConnInv

(* ConnInv holds of every behaviour. *)
THEOREM ConnInvariant == Spec => []ConnInv
<1>1. ASSUME ConnInv, [Next]_vars PROVE ConnInv'
  <2>1. CASE UNCHANGED vars
    BY <1>1, <2>1
       DEF vars, connVars, signals, ConnInv, ConnTypes, NewInv, MetInv, OnceInv, LinkInv,
           UnderWay, Unmet, Serves
  <2>2. ASSUME NEW c \in Clients,
               Ask(c) \/ Waits(c) \/ Exit(c) \/ Deliver(c) \/ HandlerEnd(c)
        PROVE  ConnInv'
    BY <1>1, <2>2, AskInv, WaitsInv, WorkerInv, MainInv, HandlerEndInv DEF Deliver
  <2>3. ASSUME NEW c \in Clients, Write(c) PROVE ConnInv'
    BY <1>1, <2>3
       DEF Write, connVars, signals, ConnInv, ConnTypes, NewInv, MetInv, OnceInv, LinkInv,
           UnderWay, Unmet, Serves
  <2>4. CASE Accept
    BY <1>1, <2>4, AcceptInv
  <2>5. CASE Poll
    BY <1>1, <2>5, LineInv DEF Poll, ConnInv, ConnTypes
  <2>6. ASSUME NEW c \in Clients, Read(c) PROVE ConnInv'
    <3>1. link' \in [Clients -> Links] /\ \A d \in Clients : link'[d] \in {link[d], "closed"}
      BY <1>1, <2>6 DEF Read, ReadNothing, ConnInv, ConnTypes, Links
    <3> QED
      BY <1>1, <2>6, <3>1, LineInv DEF Read
  <2> QED
    BY <1>1, <2>1, <2>2, <2>3, <2>4, <2>5, <2>6 DEF Next, Main
<1> QED
  BY <1>1, InitInv, PTL DEF Spec

(* handle_new_client: whoever's request meets no other gets one session,   *)
(* whole unless its open is interrupted, and whoever is connected has one. *)
THEOREM OneSession == Spec => []OneSessionEach
<1>1. ConnInv => OneSessionEach
  BY DEF ConnInv, ConnTypes, OnceInv, LinkInv, OneSessionEach, Serves, Unmet
<1> QED
  BY <1>1, ConnInvariant, PTL

-------------------------------------------------------------------------------
(* Lines *)

(* The rest of TypeOK, and how many lines a client of an instance writes. *)
LineTypes ==
  /\ got \in [Clients -> BOOLEAN] /\ reader \in [Clients -> BOOLEAN]
  /\ wire \in [Clients -> Seq(Bytes)] /\ buf \in [Clients -> Seq(Bytes)]
  /\ \A c \in Clients : Len(buf[c]) < BufSize
  /\ cut \in [Clients -> Seq(Seq(Bytes))] /\ written \in [Clients -> Seq(Seq(Bytes))]
  /\ \A c \in Clients : Len(written[c]) <= MaxWrites
  /\ ready \subseteq Clients

LinesInv == LineTypes /\ FramingInv

(* A byte may be a newline. *)
LEMMA BytesHaveNl == Nl \in Bytes
  BY LinkAssumption DEF Nl, Bytes

(* At the start nothing was written and nothing is to be read. *)
LEMMA InitLines == Init => LinesInv
<1> SUFFICES ASSUME Init PROVE LinesInv
  OBVIOUS
<1>0. <<>> \in Seq(Bytes) /\ <<>> \in Seq(Seq(Bytes)) /\ Len(<<>>) = 0
  OBVIOUS
<1>1. LineTypes
  BY <1>0, LinkAssumption DEF Init, ConnInit, LineTypes
<1>2. Scan(Scanned(<<>>, <<>>), <<>>) = Scanned(Queued(<<>>), <<>>)
  <2> DEFINE s == Scanned(<<>>, <<>>)
  <2>1. s \in Scans(Bytes)
    BY <1>0, ScannedTyped
  <2>2. Scan(s, <<>>) = s
    <3> HIDE DEF s
    <3> QED
      BY <1>0, <2>1, ScanNothing
  <2>3. Queued(<<>>) = <<>>
    BY <1>0, QueuedNothing
  <2> QED
    BY <2>2, <2>3
<1>3. FramingInv
  BY <1>2 DEF Init, ConnInit, FramingInv
<1> QED
  BY <1>1, <1>3 DEF LinesInv

(* A client that has exited stays away, and a session is closed on account *)
(* of one that has.                                                        *)
LEMMA HandshakeLines ==
  ASSUME ConnTypes, LinesInv, UNCHANGED lineVars,
         got' \in [Clients -> BOOLEAN], reader' \in [Clients -> BOOLEAN],
         \A d \in Clients : proc[d] = "gone" => proc'[d] = "gone",
         \A d \in Clients : link'[d] = "closed" => link[d] = "closed" \/ proc[d] = "gone"
  PROVE  LinesInv'
<1>1. LineTypes'
  BY DEF lineVars, LinesInv, LineTypes
<1>2. FramingInv'
  BY DEF lineVars, LinesInv, FramingInv, TooLong
<1> QED
  BY <1>1, <1>2 DEF LinesInv

(* The steps of a client in its handshake, and of the handler. *)
LEMMA ClientLines ==
  ASSUME ConnTypes, LinesInv, UNCHANGED lineVars, NEW c \in Clients,
         Ask(c) \/ Waits(c) \/ Exit(c) \/ Deliver(c) \/ HandlerEnd(c)
  PROVE  LinesInv'
<1>1. UNCHANGED <<got, reader, link>>
  BY DEF Ask, Waits, Test, Pause, ClientOpenC2S, Exit, Deliver, DeliverToWorker,
         DeliverToMain, HandlerEnd
<1>2. \A d \in Clients : proc[d] = "gone" => proc'[d] = "gone"
  BY DEF Ask, Waits, Test, Pause, ClientOpenC2S, Exit, Deliver, DeliverToWorker,
         DeliverToMain, HandlerEnd, ConnTypes
<1> QED
  BY <1>1, <1>2, HandshakeLines DEF LinesInv, LineTypes

(* The steps of the main loop in a handshake. *)
LEMMA AcceptLines ==
  ASSUME ConnTypes, LinesInv, UNCHANGED lineVars, Accept
  PROVE  LinesInv'
<1>1. got' \in [Clients -> BOOLEAN] /\ reader' \in [Clients -> BOOLEAN]
  BY DEF Accept, TakePid, Reset, Prepare, ServerOpenC2S, OpenS2C, AddSession,
         LinesInv, LineTypes
<1>2. \A d \in Clients : proc[d] = "gone" => proc'[d] = "gone"
  <2>1. CASE Prepare
    <3>1. PICK p \in Signalled(proc[serving]) : proc' = [proc EXCEPT ![serving] = p]
      BY <2>1 DEF Prepare
    <3>2. proc[serving] = "gone" => p = "gone"
      BY <3>1 DEF Signalled
    <3> QED
      BY <3>1, <3>2 DEF ConnTypes
  <2>2. CASE OpenS2C
    BY <2>2 DEF OpenS2C, ConnTypes
  <2>3. CASE TakePid \/ Reset \/ ServerOpenC2S \/ AddSession
    BY <2>3 DEF TakePid, Reset, ServerOpenC2S, AddSession
  <2> QED
    BY <2>1, <2>2, <2>3 DEF Accept
<1>3. \A d \in Clients : link'[d] = "closed" => link[d] = "closed" \/ proc[d] = "gone"
  <2>1. CASE AddSession
    <3>1. PICK reaped \in SUBSET {d \in Clients : proc[d] = "gone"} :
            link' = [d \in Clients |->
                       IF d = serving /\ link[d] \notin {"whole", "closed"}
                       THEN IF mpc = "add" THEN "whole" ELSE "half"
                       ELSE IF d \in reaped /\ link[d] # "none" THEN "closed"
                       ELSE link[d]]
      BY <2>1 DEF AddSession
    <3> QED
      BY <3>1
  <2>2. CASE ~AddSession
    BY <2>2 DEF Accept, TakePid, Reset, Prepare, ServerOpenC2S, OpenS2C
  <2> QED
    BY <2>1, <2>2
<1> QED
  BY <1>1, <1>2, <1>3, HandshakeLines

-------------------------------------------------------------------------------
(* A line more on the wire. *)
LEMMA WriteLines ==
  ASSUME ConnTypes, LinesInv, NEW c \in Clients, Write(c)
  PROVE  LinesInv'
<1> DEFINE n == Len(written[c]) + 1
<1>1. PICK len \in LineLengths :
        /\ wire' = [wire EXCEPT ![c] = @ \o Text(n, len) \o <<Nl>>]
        /\ written' = [written EXCEPT ![c] = Append(@, Text(n, len))]
  BY DEF Write
<1> DEFINE line == Text(n, len)  v == wire[c] \o line \o <<Nl>>  r == Append(written[c], line)
<1>2. /\ wire[c] \in Seq(Bytes) /\ buf[c] \in Seq(Bytes)
      /\ cut[c] \in Seq(Seq(Bytes)) /\ written[c] \in Seq(Seq(Bytes))
  BY DEF LinesInv, LineTypes
<1>3. n \in Bytes /\ n # Nl /\ n <= MaxWrites
  BY <1>2, LinkAssumption DEF Write, Bytes, Nl
<1>4. line \in Seq(Bytes) /\ \A i \in DOMAIN line : line[i] # Nl
  <2>1. len \in Nat
    BY LinkAssumption
  <2> HIDE DEF n
  <2> QED
    BY <1>3, <2>1 DEF Text
<1> HIDE DEF line
<1>5. v \in Seq(Bytes) /\ r \in Seq(Seq(Bytes)) /\ Len(r) = n
  BY <1>2, <1>4, BytesHaveNl
<1>6. wire' = [wire EXCEPT ![c] = v] /\ written' = [written EXCEPT ![c] = r]
  BY <1>1 DEF line
<1>7. LineTypes'
  <2> HIDE DEF v, r, n
  <2> QED
    BY <1>3, <1>5, <1>6 DEF Write, connVars, LinesInv, LineTypes
<1>8. Scan(Scanned(cut[c], buf[c]), v) = Scanned(Queued(r), <<>>)
  <2> DEFINE s == Scanned(cut[c], buf[c])
  <2>1. s \in Scans(Bytes)
    BY <1>2, ScannedTyped
  <2>2. Scan(s, wire[c]) = Scanned(Queued(written[c]), <<>>)
    BY DEF LinesInv, FramingInv
  <2>3. WithLine(v, wire[c], r, written[c], line)
    BY DEF WithLine
  <2> HIDE DEF s, v, r
  <2>4. /\ wire[c] \in Seq(Bytes) /\ written[c] \in Seq(Seq(Bytes)) /\ line \in Seq(Bytes)
        /\ v \in Seq(Bytes) /\ r \in Seq(Seq(Bytes))
    BY <1>2, <1>4, <1>5
  <2>5. \A i \in DOMAIN line : line[i] # Nl
    BY <1>4
  <2>6. Scan(s, v) = Scanned(Queued(r), <<>>)
    BY <2>1, <2>2, <2>3, <2>4, <2>5, BytesHaveNl, WriteScanned
  <2> QED
    BY <2>6 DEF s
<1>9. \A d \in Clients : TooLong(d) => TooLong(d)'
  <2>1. \A i \in DOMAIN written[c] : i \in DOMAIN r /\ r[i] = written[c][i]
    BY <1>2, <1>4
  <2> HIDE DEF r
  <2> QED
    BY <1>6, <2>1 DEF TooLong, LinesInv, LineTypes
<1>10. FramingInv'
  <2> HIDE DEF v, r
  <2> QED
    BY <1>6, <1>8, <1>9 DEF Write, connVars, LinesInv, LineTypes, FramingInv
<1> QED
  BY <1>7, <1>10 DEF LinesInv

(* One read, and what is cut. *)
LEMMA ReadLines ==
  ASSUME ConnTypes, LinesInv, NEW c \in Clients, Read(c)
  PROVE  LinesInv'
<1>1. /\ wire[c] \in Seq(Bytes) /\ buf[c] \in Seq(Bytes) /\ Len(buf[c]) < BufSize
      /\ cut[c] \in Seq(Seq(Bytes)) /\ written[c] \in Seq(Seq(Bytes))
      /\ \A i \in DOMAIN buf[c] : buf[c][i] # Nl
      /\ Scan(Scanned(cut[c], buf[c]), wire[c]) = Scanned(Queued(written[c]), <<>>)
  BY DEF LinesInv, LineTypes, FramingInv
<1>2. Len(buf[c]) \in Nat /\ BufSize \in Nat /\ BufSize > 1
  BY <1>1, LinkAssumption
<1>3. CASE Space(buf[c], BufSize) > 0
  <2> DEFINE t == Taken(buf[c], wire[c], BufSize)  u == Left(buf[c], wire[c], BufSize)
             l == cut[c] \o Lines(buf[c] \o t)  e == Rest(buf[c] \o t)
  <2>1. /\ cut' = [cut EXCEPT ![c] = l] /\ buf' = [buf EXCEPT ![c] = e]
        /\ wire' = [wire EXCEPT ![c] = u] /\ UNCHANGED <<link, proc, got, reader, written>>
        /\ ready' = ready \ {c}
    BY <1>3 DEF Read
  <2>2. Space(buf[c], BufSize) \in Nat /\ Len(buf[c]) + Space(buf[c], BufSize) < BufSize
    BY <1>2, <1>3 DEF Space
  <2>3. /\ t \in Seq(Bytes) /\ u \in Seq(Bytes) /\ wire[c] = t \o u
        /\ Len(t) <= Space(buf[c], BufSize)
    <3>1. /\ wire[c] \in Seq(Bytes) /\ buf[c] \in Seq(Bytes) /\ BufSize \in Nat
          /\ Space(buf[c], BufSize) \in Nat
      BY <1>1, <1>2, <2>2
    <3> QED
      BY <3>1, TakenAndLeft
  <2> HIDE DEF t, u
  <2>4. /\ Lines(buf[c] \o t) \in Seq(Seq(Bytes)) /\ e \in Seq(Bytes)
        /\ Scan(Scanned(cut[c], buf[c]), t \o u) = Scan(Scanned(l, e), u)
        /\ Len(e) <= Len(buf[c]) + Len(t) /\ \A i \in DOMAIN e : e[i] # Nl
    BY <1>1, <2>3, ReadScanned
  <2>5. l \in Seq(Seq(Bytes)) /\ Len(e) < BufSize
    <3>1. l \in Seq(Seq(Bytes))
      BY <1>1, <2>4
    <3>2. Len(t) \in Nat /\ Len(e) \in Nat
      BY <2>3, <2>4
    <3> HIDE DEF e
    <3> QED
      BY <1>2, <2>2, <2>3, <2>4, <3>1, <3>2
  <2>6. Scan(Scanned(l, e), u) = Scanned(Queued(written[c]), <<>>)
    BY <1>1, <2>3, <2>4, Zenon
  <2> HIDE DEF l, e
  <2>7. LineTypes'
    BY <2>1, <2>3, <2>4, <2>5 DEF LinesInv, LineTypes
  <2>8. FramingInv'
    BY <2>1, <2>4, <2>6 DEF LinesInv, LineTypes, FramingInv, TooLong
  <2> QED
    BY <2>7, <2>8 DEF LinesInv
<1>4. CASE ~(Space(buf[c], BufSize) > 0)
  <2>1. /\ UNCHANGED <<cut, buf, wire, proc, got, reader, written>>
        /\ link' = [link EXCEPT ![c] = "closed"] /\ ready' = ready \ {c}
    BY <1>4 DEF Read, ReadNothing
  <2>2. buf[c] # <<>> /\ Len(buf[c]) >= BufSize - 1
    BY <1>1, <1>2, <1>4 DEF Space
  <2>3. TooLong(c)
    <3>1. PICK i \in DOMAIN written[c] : Len(written[c][i]) >= Len(buf[c])
      BY <1>1, <2>2, FullScanned
    <3>2. Len(written[c][i]) \in Nat
      BY <1>1
    <3> QED
      BY <1>2, <2>2, <3>1, <3>2 DEF TooLong
  <2>4. LineTypes'
    BY <2>1 DEF LinesInv, LineTypes
  <2>5. FramingInv'
    BY <2>1, <2>3 DEF ConnTypes, LinesInv, FramingInv, TooLong
  <2> QED
    BY <2>4, <2>5 DEF LinesInv
<1> QED
  BY <1>3, <1>4

-------------------------------------------------------------------------------
(* LinesInv holds of every behaviour. *)
THEOREM LinesInvariant == Spec => []LinesInv
<1>1. ASSUME ConnInv, LinesInv, [Next]_vars PROVE LinesInv'
  <2>0. ConnTypes
    BY <1>1 DEF ConnInv
  <2>1. CASE UNCHANGED vars
    BY <1>1, <2>1 DEF vars, connVars, lineVars, LinesInv, LineTypes, FramingInv, TooLong
  <2>2. ASSUME NEW c \in Clients, UNCHANGED lineVars,
               Ask(c) \/ Waits(c) \/ Exit(c) \/ Deliver(c) \/ HandlerEnd(c)
        PROVE  LinesInv'
    BY <1>1, <2>0, <2>2, ClientLines
  <2>3. ASSUME NEW c \in Clients, Write(c) PROVE LinesInv'
    BY <1>1, <2>0, <2>3, WriteLines
  <2>4. CASE Accept /\ UNCHANGED lineVars
    BY <1>1, <2>0, <2>4, AcceptLines
  <2>5. CASE Poll
    <3>1. ready' \subseteq Clients
      BY <2>5 DEF Poll
    <3> QED
      BY <1>1, <2>5, <3>1 DEF Poll, LinesInv, LineTypes, FramingInv, TooLong
  <2>6. ASSUME NEW c \in Clients, Read(c) PROVE LinesInv'
    BY <1>1, <2>0, <2>6, ReadLines
  <2> QED
    BY <1>1, <2>1, <2>2, <2>3, <2>4, <2>5, <2>6 DEF Next, Main
<1> QED
  BY <1>1, InitLines, ConnInvariant, PTL DEF Spec

(* FramingInv, of which LinesFramed follows, holds of every behaviour. *)
THEOREM FramingInvariant == Spec => []FramingInv
<1>1. LinesInv => FramingInv
  BY DEF LinesInv
<1> QED
  BY <1>1, LinesInvariant, PTL

(* Every variable of the handshake and of the lines keeps its type, and    *)
(* read_buf never is without room for its NUL.                             *)
THEOREM LinkTyped == Spec => []TypeOK
<1>1. ConnInv /\ LinesInv => TypeOK
  BY DEF ConnInv, ConnTypes, LinesInv, LineTypes, TypeOK
<1> QED
  BY <1>1, ConnInvariant, LinesInvariant, PTL

(* process_session_commands: however reads cut the bytes, the lines queued *)
(* are those written, empty ones left out; and only a line too long for    *)
(* read_buf ends the session of a client that is there.                    *)
THEOREM LinesWhole == Spec => []LinesFramed
<1>1. ASSUME LinesInv, NEW c \in Clients
      PROVE  /\ IsPrefix(cut[c], Queued(written[c]))
             /\ wire[c] = <<>> => cut[c] = Queued(written[c]) /\ buf[c] = <<>>
  <2> DEFINE s == Scanned(cut[c], buf[c])  q == Queued(written[c])
  <2>1. /\ s \in Scans(Bytes) /\ s.lines = cut[c] /\ s.rest = buf[c]
        /\ wire[c] \in Seq(Bytes)
    BY <1>1, ScannedTyped, ScannedParts DEF LinesInv, LineTypes
  <2>2. Scan(s, wire[c]) = Scanned(q, <<>>)
    BY <1>1 DEF LinesInv, FramingInv
  <2>3. Scan(s, wire[c]).lines = q /\ Scan(s, wire[c]).rest = <<>>
    <3> HIDE DEF s, q
    <3> QED
      BY <2>2, ScannedParts
  <2>4. IsPrefix(s.lines, Scan(s, wire[c]).lines)
    <3> HIDE DEF s
    <3> QED
      BY <2>1, ScanKeeps
  <2>5. Len(wire[c]) = 0 => Scan(s, wire[c]) = s
    <3> HIDE DEF s
    <3> QED
      BY <2>1, ScanNothing
  <2>6. wire[c] = <<>> => Len(wire[c]) = 0
    OBVIOUS
  <2> HIDE DEF s, q
  <2>7. wire[c] = <<>> => cut[c] = q /\ buf[c] = <<>>
    BY <2>1, <2>3, <2>5, <2>6, Zenon
  <2> QED
    BY <2>1, <2>3, <2>4, <2>7 DEF q
<1>2. LinesInv => LinesFramed
  BY <1>1 DEF LinesInv, FramingInv, LinesFramed
<1> QED
  BY <1>2, LinesInvariant, PTL

===============================================================================
