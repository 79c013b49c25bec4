---------------------------- MODULE FramesProofs ------------------------------
(* Theorems of Frames: a frame shows what lies on top, for any canvases,   *)
(* sprites, motions and sizes, after any calls.                            *)
EXTENDS Frames, LayerListProofs

(* Arithmetic *)

(* What the code's division gives. *)
LEMMA Division ==
  ASSUME NEW a \in Int, NEW b \in Nat \ {0}
  PROVE  /\ a \div b \in Int
         /\ b * (a \div b) <= a /\ a < b * (a \div b) + b
  OBVIOUS

(* Products in order. *)
LEMMA Product ==
  ASSUME NEW d \in Nat, NEW a \in Int, NEW b \in Int, a <= b
  PROVE  a * d <= b * d /\ a * d \in Int /\ b * d \in Int
<1>1. PICK k \in Nat : b = a + k
  <2>1. b - a \in Nat /\ b = a + (b - a)
    OBVIOUS
  <2> QED
    BY <2>1
<1>2. k * d \in Nat
  OBVIOUS
<1>3. b * d = a * d + k * d
  BY <1>1
<1> QED
  BY <1>2, <1>3

(* r is the whole number nearest to n / d. *)
Near(r, n, d) ==
  /\ 2 * (r * d - n) \in -d .. d
  /\ 2 * (r * d - n) = d => n > 0
  /\ 2 * (r * d - n) = -d => n < 0

LEMMA NearestOne ==
  ASSUME NEW n \in Int, NEW d \in Nat \ {0}, NEW r \in Int, NEW s \in Int,
         Near(r, n, d), Near(s, n, d)
  PROVE  r = s
<1>1. ASSUME NEW i \in Int, NEW j \in Int, Near(i, n, d), Near(j, n, d), i < j
      PROVE  FALSE
  <2>1. (i + 1) * d <= j * d /\ (i + 1) * d \in Int /\ j * d \in Int /\ i * d \in Int
    BY <1>1, Product
  <2>2. (i + 1) * d = i * d + d
    OBVIOUS
  <2>3. PICK x \in Int, y \in Int : x = i * d /\ y = j * d
    BY <2>1
  <2>4. /\ x + d <= y /\ -d <= 2 * (x - n) /\ 2 * (y - n) <= d
        /\ 2 * (y - n) = d => n > 0
        /\ 2 * (x - n) = -d => n < 0
    BY <1>1, <2>1, <2>2, <2>3 DEF Near
  <2> QED
    BY <2>4
<1> QED
  BY <1>1

LEMMA RoundedNear ==
  ASSUME NEW n \in Int, NEW d \in Nat \ {0}
  PROVE  Rounded(n, d) \in Int /\ Near(Rounded(n, d), n, d)
<1>1. CASE n >= 0
  <2>1. PICK r \in Int : r = (2 * n + d) \div (2 * d)
    BY Division
  <2>2. (2 * d) * r <= 2 * n + d /\ 2 * n + d < (2 * d) * r + 2 * d
    <3>1. 2 * n + d \in Int /\ 2 * d \in Nat \ {0}
      OBVIOUS
    <3> QED
      BY <2>1, <3>1, Division, Zenon
  <2>3. PICK x \in Int : x = r * d /\ (2 * d) * r = 2 * x
    OBVIOUS
  <2>4. 2 * (x - n) <= d /\ -d < 2 * (x - n)
    BY <2>2, <2>3
  <2>5. n = 0 => r = 0
    <3> SUFFICES ASSUME n = 0 PROVE r = 0
      OBVIOUS
    <3>1. r <= -1 => x <= -d
      BY <2>3, Product
    <3>2. r >= 1 => x >= d
      BY <2>3, Product
    <3> QED
      BY <2>4, <3>1, <3>2
  <2>6. 2 * (x - n) = d => n > 0
    BY <1>1, <2>3, <2>5
  <2> QED
    BY <1>1, <2>1, <2>3, <2>4, <2>6 DEF Near, Rounded
<1>2. CASE n < 0
  <2>1. PICK r \in Int : r = (d - 2 * n) \div (2 * d)
    BY <1>2, Division
  <2>2. (2 * d) * r <= d - 2 * n /\ d - 2 * n < (2 * d) * r + 2 * d
    <3>1. d - 2 * n \in Int /\ 2 * d \in Nat \ {0}
      OBVIOUS
    <3> QED
      BY <2>1, <3>1, Division, Zenon
  <2>3. PICK x \in Int : x = r * d /\ (2 * d) * r = 2 * x /\ (-r) * d = -x
    OBVIOUS
  <2>4. -d <= 2 * (-x - n) /\ 2 * (-x - n) < d
    BY <2>2, <2>3
  <2> QED
    BY <1>2, <2>1, <2>3, <2>4 DEF Near, Rounded
<1> QED
  BY <1>1, <1>2

(* The code's rounding is rounding. *)
LEMMA NearestIsRounded ==
  ASSUME NEW n \in Int, NEW d \in Nat \ {0}
  PROVE  Nearest(n, d) = Rounded(n, d) /\ Rounded(n, d) \in Int
<1>1. PICK r \in Int : r = Rounded(n, d) /\ Near(r, n, d)
  BY RoundedNear
<1>2. PICK k \in Int : k = n \div d
  BY Division
<1>3. r \in k - 1 .. k + 1
  <2>1. PICK x \in Int, y \in Int : x = r * d /\ y = k * d /\ d * k = y
    OBVIOUS
  <2>2. y <= n /\ n < y + d /\ -d <= 2 * (x - n) /\ 2 * (x - n) <= d
    BY <1>1, <1>2, <2>1, Division DEF Near
  <2>3. ASSUME r <= k - 2 PROVE FALSE
    <3>1. x <= (k - 2) * d /\ (k - 2) * d = y - 2 * d
      BY <2>1, <2>3, Product
    <3> QED
      BY <2>2, <3>1
  <2>4. ASSUME k + 2 <= r PROVE FALSE
    <3>1. (k + 2) * d <= x /\ (k + 2) * d = y + 2 * d
      BY <2>1, <2>4, Product
    <3> QED
      BY <2>2, <3>1
  <2> QED
    BY <2>3, <2>4
<1>4. Nearest(n, d) = CHOOSE i \in k - 1 .. k + 1 : Near(i, n, d)
  BY <1>2 DEF Nearest, Near
<1>5. \A i \in k - 1 .. k + 1 : Near(i, n, d) => i = r
  BY <1>1, NearestOne
<1>6. (CHOOSE i \in k - 1 .. k + 1 : Near(i, n, d)) = r
  BY <1>1, <1>3, <1>5
<1> QED
  BY <1>1, <1>4, <1>6

(* A point of a picture has an index of its own. *)
LEMMA IndexOfPoint ==
  ASSUME NEW x \in 0 .. Width - 1, NEW y \in 0 .. Height - 1
  PROVE  /\ y * Width + x \in 0 .. Width * Height - 1
         /\ \A v \in 0 .. Width - 1, w \in 0 .. Height - 1 :
              w * Width + v = y * Width + x => v = x /\ w = y
<1>0. Width \in Nat /\ Height \in Nat
  BY FrameAssumption
<1>1. PICK a \in Int : a = y * Width
  BY <1>0
<1>2. 0 <= a /\ a <= (Height - 1) * Width
  BY <1>0, <1>1, Product
<1>3. (Height - 1) * Width = Width * Height - Width /\ Width * Height \in Int
  BY <1>0
<1>4. ASSUME NEW v \in 0 .. Width - 1, NEW w \in 0 .. Height - 1,
             w * Width + v = y * Width + x
      PROVE  v = x /\ w = y
  <2>1. PICK b \in Int : b = w * Width
    BY <1>0
  <2>2. ASSUME w <= y - 1 PROVE FALSE
    <3>1. b <= (y - 1) * Width /\ (y - 1) * Width = a - Width
      BY <1>0, <1>1, <2>1, <2>2, Product
    <3> QED
      BY <1>0, <1>1, <1>4, <2>1, <3>1
  <2>3. ASSUME y <= w - 1 PROVE FALSE
    <3>1. a <= (w - 1) * Width /\ (w - 1) * Width = b - Width
      BY <1>0, <1>1, <2>1, <2>3, Product
    <3> QED
      BY <1>0, <1>1, <1>4, <2>1, <3>1
  <2>4. w = y
    BY <2>2, <2>3
  <2> QED
    BY <1>0, <1>1, <1>4, <2>1, <2>4
<1> QED
  BY <1>0, <1>1, <1>2, <1>3, <1>4

-------------------------------------------------------------------------------
(* One placement *)

(* Positions and motion are whole numbers. *)
Places == [x : Int, y : Int, vx : Int, vy : Int, ax : Int, ay : Int]
PlacingTyped == placing \in [Placements -> Places]

LEMMA Position ==
  ASSUME PlacingTyped, NEW p \in Placements, NEW f \in FrameNumbers
  PROVE  LET m == placing[p]
         IN  /\ PositionX(p, f) \in Int /\ PositionY(p, f) \in Int
             /\ \A x \in Int : x - m.x - Nearest(Displacement(m.vx, m.ax, f), Denominator)
                                 = x - PositionX(p, f)
             /\ \A y \in Int : y - m.y - Nearest(Displacement(m.vy, m.ay, f), Denominator)
                                 = y - PositionY(p, f)
<1> DEFINE m == placing[p]
           dx == Displacement(m.vx, m.ax, f)
           dy == Displacement(m.vy, m.ay, f)
<1>1. m.x \in Int /\ m.y \in Int /\ m.vx \in Int /\ m.vy \in Int /\ m.ax \in Int /\ m.ay \in Int
  BY DEF PlacingTyped, Places
<1>2. f \in Int /\ FrameRate \in Nat \ {0}
  BY FrameAssumption
<1>3. \A v \in Int, a \in Int : Displacement(v, a, f) \in Int
  BY <1>2 DEF Displacement
<1>4. Denominator \in Nat \ {0}
  <2>1. 1 * FrameRate <= FrameRate * FrameRate /\ FrameRate * FrameRate \in Int
    BY <1>2, Product
  <2>2. Denominator = 2 * (FrameRate * FrameRate)
    BY <1>2 DEF Denominator
  <2> QED
    BY <1>2, <2>1, <2>2
<1>5. dx \in Int /\ dy \in Int
  BY <1>1, <1>3
<1>6. /\ Nearest(dx, Denominator) = Rounded(dx, Denominator)
      /\ Nearest(dy, Denominator) = Rounded(dy, Denominator)
      /\ Rounded(dx, Denominator) \in Int /\ Rounded(dy, Denominator) \in Int
  <2> HIDE DEF dx, dy
  <2> QED
    BY <1>4, <1>5, NearestIsRounded
<1>7. /\ PositionX(p, f) = m.x + Rounded(dx, Denominator)
      /\ PositionY(p, f) = m.y + Rounded(dy, Denominator)
  BY DEF PositionX, PositionY
<1> HIDE DEF dx, dy
<1>8. /\ PositionX(p, f) \in Int /\ PositionY(p, f) \in Int
      /\ \A x \in Int : x - m.x - Nearest(dx, Denominator) = x - PositionX(p, f)
      /\ \A y \in Int : y - m.y - Nearest(dy, Denominator) = y - PositionY(p, f)
  BY <1>1, <1>6, <1>7
<1> QED
  BY <1>8 DEF dx, dy

(* The pixel that a placement paints at a point is the one it has there. *)
LEMMA PaintedPixel ==
  ASSUME PlacingTyped, NEW p \in Placements, sprite[p] \in Sprites, NEW f \in FrameNumbers,
         NEW x \in 0 .. Width - 1, NEW y \in 0 .. Height - 1
  PROVE  /\ PixelAt(p, x, y, f) # {} => \E q \in Painted(p, f) : Index(p, q, f) = y * Width + x
         /\ \A q \in Painted(p, f) :
              Index(p, q, f) = y * Width + x => PixelAt(p, x, y, f) = {Pixel(p, q)}
<1> DEFINE s == Look[sprite[p]]
           X == PositionX(p, f)
           Y == PositionY(p, f)
           u == x - X
           v == y - Y
           at == s.pixels[v * s.width + u]
<1>0. /\ Width \in Nat /\ Height \in Nat /\ x \in Int /\ y \in Int
      /\ s.width \in Nat /\ s.height \in Nat
  BY FrameAssumption
<1>1. X \in Int /\ Y \in Int
  BY Position
<1>2. PixelAt(p, x, y, f) =
        IF u \in 0 .. s.width - 1 /\ v \in 0 .. s.height - 1
        THEN {pixel \in {at} : ~Transparent(pixel)}
        ELSE {}
  <2>1. /\ x - placing[p].x
             - Nearest(Displacement(placing[p].vx, placing[p].ax, f), Denominator) = u
        /\ y - placing[p].y
             - Nearest(Displacement(placing[p].vy, placing[p].ay, f), Denominator) = v
    BY <1>0, Position
  <2> QED
    BY <2>1 DEF PixelAt
<1>3. ASSUME PixelAt(p, x, y, f) # {}
      PROVE  \E q \in Painted(p, f) : Index(p, q, f) = y * Width + x
  <2>1. u \in 0 .. s.width - 1 /\ v \in 0 .. s.height - 1 /\ ~Transparent(at)
    BY <1>2, <1>3
  <2>2. X + u = x /\ Y + v = y
    BY <1>0, <1>1
  <2> DEFINE q == <<u, v>>
  <2>3. q[1] = u /\ q[2] = v
    OBVIOUS
  <2>4. Pixel(p, q) = at
    BY DEF Pixel
  <2>5. q \in (0 .. s.width - 1) \X (0 .. s.height - 1)
    BY <2>1
  <2>6. X + q[1] \in 0 .. Width - 1 /\ Y + q[2] \in 0 .. Height - 1
    BY <2>2, <2>3
  <2>7. q \in Painted(p, f)
    BY <2>1, <2>4, <2>5, <2>6 DEF Painted
  <2>8. Index(p, q, f) = y * Width + x
    <3>1. Index(p, q, f) = (y * Width + X) + u
      BY <2>2, <2>3 DEF Index
    <3>2. y * Width \in Int /\ u \in Int
      BY <1>0, <1>1
    <3> QED
      BY <1>1, <2>2, <3>1, <3>2
  <2> QED
    BY <2>7, <2>8
<1>4. ASSUME NEW q \in Painted(p, f), Index(p, q, f) = y * Width + x
      PROVE  PixelAt(p, x, y, f) = {Pixel(p, q)}
  <2>1. /\ q \in (0 .. s.width - 1) \X (0 .. s.height - 1)
        /\ X + q[1] \in 0 .. Width - 1 /\ Y + q[2] \in 0 .. Height - 1
        /\ ~Transparent(Pixel(p, q))
    BY DEF Painted
  <2>2. (Y + q[2]) * Width + (X + q[1]) = y * Width + x
    <3>1. (Y + q[2]) * Width \in Int /\ q[1] \in Int
      BY <1>0, <1>1, <2>1
    <3>2. ((Y + q[2]) * Width + X) + q[1] = y * Width + x
      BY <1>4 DEF Index
    <3> QED
      BY <1>1, <3>1, <3>2
  <2>3. X + q[1] = x /\ Y + q[2] = y
    <3>1. PICK i \in 0 .. Width - 1, j \in 0 .. Height - 1 : i = X + q[1] /\ j = Y + q[2]
      BY <2>1
    <3>2. j * Width + i = y * Width + x
      BY <2>2, <3>1
    <3>3. i = x /\ j = y
      BY <3>2, IndexOfPoint
    <3> QED
      BY <3>1, <3>3
  <2>4. q[1] = u /\ q[2] = v /\ u \in 0 .. s.width - 1 /\ v \in 0 .. s.height - 1
    BY <1>0, <1>1, <2>1, <2>3
  <2>5. Pixel(p, q) = at
    BY <2>4 DEF Pixel
  <2> HIDE DEF at
  <2> QED
    BY <1>2, <2>1, <2>4, <2>5
<1> QED
  BY <1>3, <1>4

-------------------------------------------------------------------------------
(* The loop over the placements *)

(* A set with 0, and with each number whose predecessor it has, has all.   *)
LEMMA UpTo ==
  ASSUME NEW n \in Nat, NEW T, 0 \in T, \A i \in 1 .. n : i - 1 \in T => i \in T
  PROVE  \A i \in 0 .. n : i \in T
<1> DEFINE M == {i \in 0 .. n : i \notin T}
<1>1. SUFFICES ASSUME M # {} PROVE FALSE
  OBVIOUS
<1>2. PICK k \in M : \A m \in M : k <= m
  <2>1. M \in SUBSET Nat
    OBVIOUS
  <2> HIDE DEF M
  <2> QED
    BY <1>1, <2>1, NatMin
<1>3. k \in 1 .. n /\ k - 1 \in 0 .. n /\ ~(k <= k - 1)
  OBVIOUS
<1>4. k - 1 \in T
  BY <1>2, <1>3
<1> QED
  BY <1>3, <1>4

(* The walk finds the list from its end.                                   *)
FromBelow(q, n) == [i \in 1 .. n |-> q[Len(q) + 1 - i]]

LEMMA FromBelowSeq ==
  ASSUME NEW q \in Seq(Placements), NEW n \in 0 .. Len(q)
  PROVE  /\ FromBelow(q, n) \in Seq(Placements) /\ Len(FromBelow(q, n)) = n
         /\ n > 0 => Last(FromBelow(q, n)) = q[Len(q) + 1 - n]
         /\ n < Len(q) =>
              FromBelow(q, n + 1) = Append(FromBelow(q, n), q[Len(q) - n])
<1>1. ASSUME NEW m \in 0 .. Len(q)
      PROVE  /\ FromBelow(q, m) \in [1 .. m -> Placements]
             /\ FromBelow(q, m) \in Seq(Placements) /\ Len(FromBelow(q, m)) = m
             /\ \A i \in 1 .. m : FromBelow(q, m)[i] = q[Len(q) + 1 - i]
  <2>1. \A i \in 1 .. m : Len(q) + 1 - i \in 1 .. Len(q)
    OBVIOUS
  <2>2. FromBelow(q, m) \in [1 .. m -> Placements]
    BY <2>1 DEF FromBelow
  <2>3. m \in Nat
    OBVIOUS
  <2>4. FromBelow(q, m) \in Seq(Placements) /\ Len(FromBelow(q, m)) = m
    BY <2>2, <2>3, SeqOfLength
  <2> QED
    BY <2>2, <2>4 DEF FromBelow
<1>2. n > 0 => Last(FromBelow(q, n)) = q[Len(q) + 1 - n]
  BY <1>1 DEF Last
<1>3. ASSUME n < Len(q)
      PROVE  FromBelow(q, n + 1) = Append(FromBelow(q, n), q[Len(q) - n])
  <2> DEFINE r == FromBelow(q, n)
             s == FromBelow(q, n + 1)
             e == q[Len(q) - n]
  <2>1. n + 1 \in 0 .. Len(q) /\ Len(q) - n \in 1 .. Len(q) /\ n \in Nat
    BY <1>3
  <2>2. /\ r \in Seq(Placements) /\ Len(r) = n
        /\ s \in Seq(Placements) /\ Len(s) = n + 1 /\ e \in Placements
    BY <1>1, <2>1
  <2>3. \A i \in 1 .. n + 1 : s[i] = q[Len(q) + 1 - i]
    BY <1>1, <2>1
  <2>4. \A i \in 1 .. n : r[i] = q[Len(q) + 1 - i]
    BY <1>1
  <2>5. s[n + 1] = e
    <3>1. Len(q) + 1 - (n + 1) = Len(q) - n /\ n + 1 \in 1 .. n + 1
      BY <2>1
    <3> QED
      BY <2>3, <3>1
  <2> HIDE DEF r, s, e
  <2>6. Append(r, e) \in Seq(Placements) /\ Len(Append(r, e)) = n + 1
    BY <2>2
  <2>7. \A i \in 1 .. n + 1 : s[i] = Append(r, e)[i]
    BY <2>1, <2>2, <2>3, <2>4, <2>5
  <2>8. s = Append(r, e)
    BY <2>2, <2>6, <2>7, SeqEqual
  <2> QED
    BY <2>8 DEF r, s, e
<1> QED
  BY <1>1, <1>2, <1>3

LEMMA StackFits ==
  ASSUME TypeOK, ListIsStack, NEW c \in Canvases
  PROVE  Cardinality(Placements) \in Nat /\ Len(stack[c]) <= Cardinality(Placements)
<1>1. Cardinality(Placements) \in Nat
  BY LayerAssumption, FS_CardinalityType
<1>2. PICK q : q = stack[c]
  OBVIOUS
<1>3. q \in Seq(Placements) /\ Len(q) \in Nat /\ \A i, j \in 1 .. Len(q) : i # j => q[i] # q[j]
  BY <1>2, StackTyped DEF ListIsStack, Linked
<1>4. q \in [1 .. Len(q) -> Placements]
  BY <1>3
<1>5. q \in Injection(1 .. Len(q), Placements)
  BY <1>3, <1>4 DEF Injection, IsInjective
<1>6. Cardinality(1 .. Len(q)) <= Cardinality(Placements)
  BY <1>5, LayerAssumption, FS_Injection
<1>7. Cardinality(1 .. Len(q)) = Len(q)
  <2>1. 1 \in Int /\ Len(q) \in Int
    BY <1>3
  <2>2. Cardinality(1 .. Len(q)) = IF 1 > Len(q) THEN 0 ELSE Len(q) - 1 + 1
    BY <2>1, FS_Interval
  <2> QED
    BY <1>3, <2>2
<1> QED
  BY <1>1, <1>2, <1>6, <1>7

LEMMA WalkIsList ==
  ASSUME TypeOK, ListIsStack, NEW c \in Canvases
  PROVE  Walk(c) = FromBelow(stack[c], Len(stack[c]))
<1> DEFINE q == stack[c]
           N == Cardinality(Placements)
           H(g) == [n \in 0 .. N |->
                      IF n = 0 THEN IF tail[c] = NULL THEN <<>> ELSE <<tail[c]>>
                      ELSE LET w == g[n - 1]
                           IN  IF w = <<>> \/ previous[Last(w)] = NULL THEN w
                               ELSE Append(w, previous[Last(w)])]
           walk == CHOOSE g : g = H(g)
           len(n) == IF n + 1 <= Len(q) THEN n + 1 ELSE Len(q)
           f == [n \in 0 .. N |-> FromBelow(q, len(n))]
<1>0. N \in Nat /\ Len(q) <= N /\ Len(q) \in Nat /\ q \in Seq(Placements)
  BY StackFits, StackTyped
<1>1. /\ tail[c] = Nth(q, Len(q))
      /\ \A i \in 1 .. Len(q) : /\ q[i] # NULL /\ Nth(q, i) = q[i]
                                /\ previous[q[i]] = Nth(q, i - 1)
      /\ Nth(q, 0) = NULL
  <2>1. Linked(c, stack[c])
    BY DEF ListIsStack
  <2>2. 0 \in Int /\ 0 \notin 1 .. Len(q)
    OBVIOUS
  <2> QED
    BY <2>1, <2>2, Neighbours
<1> HIDE DEF q, N
<1>2. f[0] = IF tail[c] = NULL THEN <<>> ELSE <<tail[c]>>
  <2>1. 0 \in 0 .. N /\ f[0] = FromBelow(q, len(0))
    BY <1>0
  <2>2. FromBelow(q, 0) = <<>>
    BY DEF FromBelow
  <2>3. CASE Len(q) = 0
    BY <1>1, <2>1, <2>2, <2>3
  <2>4. CASE Len(q) # 0
    <3>1. Len(q) \in 1 .. Len(q) /\ 0 < Len(q) /\ 0 \in 0 .. Len(q) /\ len(0) = 0 + 1
      BY <1>0, <2>4
    <3>2. FromBelow(q, 0 + 1) = Append(FromBelow(q, 0), q[Len(q) - 0])
      BY <1>0, <3>1, FromBelowSeq
    <3>3. Len(q) - 0 = Len(q)
      BY <1>0
    <3>4. FromBelow(q, len(0)) = <<q[Len(q)]>>
      <4>1. FromBelow(q, len(0)) = FromBelow(q, 0 + 1)
        BY <3>1
      <4>2. FromBelow(q, 0 + 1) = Append(<<>>, q[Len(q)])
        BY <2>2, <3>2, <3>3
      <4>3. Append(<<>>, q[Len(q)]) = <<q[Len(q)]>>
        OBVIOUS
      <4> QED
        BY <4>1, <4>2, <4>3, Zenon
    <3> QED
      BY <1>1, <2>1, <3>1, <3>4
  <2> QED
    BY <2>3, <2>4
<1>3. ASSUME NEW n \in 1 .. N
      PROVE  LET w == f[n - 1]
             IN  f[n] = IF w = <<>> \/ previous[Last(w)] = NULL THEN w
                        ELSE Append(w, previous[Last(w)])
  <2> DEFINE w == f[n - 1]
             m == len(n - 1)
  <2>1. /\ n - 1 \in 0 .. N /\ n \in 0 .. N /\ m \in 0 .. Len(q)
        /\ w = FromBelow(q, m) /\ f[n] = FromBelow(q, len(n))
    BY <1>0
  <2>2. /\ w \in Seq(Placements) /\ Len(w) = m
        /\ m > 0 => Last(w) = q[Len(q) + 1 - m]
        /\ m < Len(q) => FromBelow(q, m + 1) = Append(w, q[Len(q) - m])
    <3> HIDE DEF f, m
    <3> QED
      BY <1>0, <2>1, FromBelowSeq, Zenon
  <2>3. CASE n + 1 <= Len(q)
    <3>1. m = n /\ len(n) = m + 1 /\ m > 0 /\ m < Len(q)
      BY <1>0, <2>3
    <3>2. PICK i \in 1 .. Len(q) : /\ i = Len(q) + 1 - n
                                   /\ i - 1 = Len(q) - n /\ i - 1 \in 1 .. Len(q)
      BY <1>0, <2>3
    <3>3. w # <<>>
      BY <2>2, <3>1
    <3>4. previous[Last(w)] = q[Len(q) - m] /\ q[Len(q) - m] # NULL
      <4>1. previous[q[i]] = q[i - 1] /\ q[i - 1] # NULL
        BY <1>1, <3>2
      <4> HIDE DEF f, m
      <4>2. Last(w) = q[i]
        BY <2>2, <3>1, <3>2
      <4> QED
        BY <3>1, <3>2, <4>1, <4>2
    <3>5. f[n] = Append(w, q[Len(q) - m])
      BY <2>1, <2>2, <3>1
    <3> HIDE DEF f, m
    <3> QED
      BY <3>3, <3>4, <3>5
  <2>4. CASE ~(n + 1 <= Len(q))
    <3>1. m = Len(q) /\ len(n) = Len(q)
      BY <1>0, <2>4
    <3>2. f[n] = w
      BY <2>1, <3>1
    <3>3. w = <<>> \/ previous[Last(w)] = NULL
      <4>1. CASE Len(q) = 0
        BY <2>2, <3>1, <4>1
      <4>2. CASE Len(q) # 0
        <5>1. m > 0 /\ Len(q) + 1 - m = 1 /\ 1 \in 1 .. Len(q)
          BY <1>0, <3>1, <4>2
        <5>2. previous[q[1]] = NULL
          <6>1. previous[q[1]] = Nth(q, 1 - 1) /\ 1 - 1 = 0
            BY <1>1, <5>1
          <6> QED
            BY <1>1, <6>1
        <5> HIDE DEF f, m
        <5> QED
          BY <2>2, <5>1, <5>2
      <4> QED
        BY <4>1, <4>2
    <3> HIDE DEF f, m
    <3> QED
      BY <3>2, <3>3
  <2> QED
    BY <2>3, <2>4
<1>4. f = H(f)
  <2>1. ASSUME NEW n \in 0 .. N PROVE f[n] = H(f)[n]
    <3>1. n = 0 \/ n \in 1 .. N
      BY <1>0
    <3>2. \A k \in 1 .. N : k # 0
      OBVIOUS
    <3> HIDE DEF f
    <3> QED
      BY <1>2, <1>3, <3>1, <3>2
  <2>2. f = [n \in 0 .. N |-> f[n]]
    OBVIOUS
  <2> HIDE DEF f
  <2> QED
    BY <2>1, <2>2
<1>5. walk = H(walk)
  <2> HIDE DEF H, f
  <2> QED
    BY <1>4
<1>6. Walk(c) = walk[N]
  BY DEF Walk, N
<1> HIDE DEF walk
<1>7. \A n \in 0 .. N : walk[n] = f[n]
  <2> DEFINE T == {n \in 0 .. N : walk[n] = f[n]}
  <2>1. 0 \in T
    <3> HIDE DEF f
    <3> QED
      BY <1>0, <1>2, <1>5
  <2>2. ASSUME NEW n \in 1 .. N, n - 1 \in T PROVE n \in T
    <3>1. n \in 0 .. N /\ n # 0 /\ walk[n - 1] = f[n - 1]
      BY <2>2
    <3>2. walk[n] = H(walk)[n]
      <4> HIDE DEF H
      <4> QED
        BY <1>5
    <3> HIDE DEF f
    <3>3. walk[n] = f[n]
      BY <1>3, <3>1, <3>2
    <3> QED
      BY <3>1, <3>3
  <2>3. \A n \in 0 .. N : n \in T
    <3> HIDE DEF T
    <3> QED
      BY <1>0, <2>1, <2>2, UpTo
  <2> QED
    BY <2>3
<1>8. N \in 0 .. N /\ len(N) = Len(q)
  BY <1>0
<1>9. Walk(c) = FromBelow(q, Len(q))
  BY <1>6, <1>7, <1>8
<1> QED
  BY <1>9 DEF q

-------------------------------------------------------------------------------
(* The picture *)

(* Point k of the buffer shows the last of w[1] .. w[n] that paints there.  *)
Paints(p, k, f) == \E q \in Painted(p, f) : Index(p, q, f) = k
Colour(p, k, f) == Shown(Pixel(p, CHOOSE q \in Painted(p, f) : Index(p, q, f) = k))
Painters(w, n, k, f) == {i \in 1 .. n : Paints(w[i], k, f)}
Point(w, n, k, f) ==
  IF Painters(w, n, k, f) = {} THEN Shown(Background)
  ELSE Colour(w[Max(Painters(w, n, k, f))], k, f)
Picture(w, n, f) == [k \in 0 .. Width * Height - 1 |-> Point(w, n, k, f)]

LEMMA PaintPoint ==
  ASSUME NEW w, NEW n \in Nat \ {0}, NEW k, NEW f
  PROVE  Point(w, n, k, f) = IF Paints(w[n], k, f) THEN Colour(w[n], k, f)
                             ELSE Point(w, n - 1, k, f)
<1> DEFINE T == Painters(w, n, k, f)
<1>1. CASE Paints(w[n], k, f)
  <2>1. n \in T /\ \A i \in T : i \in Int /\ i <= n
    BY <1>1 DEF Painters
  <2>2. \A m \in T : (\A i \in T : m >= i) => m = n
    BY <2>1
  <2> HIDE DEF T
  <2>3. Max(T) = n
    <3>1. \A i \in T : n >= i
      BY <2>1
    <3> QED
      BY <2>1, <2>2, <3>1 DEF Max
  <2>4. T # {}
    BY <2>1
  <2> QED
    BY <1>1, <2>3, <2>4 DEF Point, T
<1>2. CASE ~Paints(w[n], k, f)
  <2>1. Painters(w, n - 1, k, f) = T
    BY <1>2 DEF Painters
  <2> QED
    BY <1>2, <2>1 DEF Point
<1> QED
  BY <1>1, <1>2

LEMMA PaintPicture ==
  ASSUME NEW w, NEW n \in Nat \ {0}, NEW f
  PROVE  Picture(w, n, f) = Paint(Picture(w, n - 1, f), w[n], f)
<1> DEFINE D == 0 .. Width * Height - 1
           b == Picture(w, n - 1, f)
<1>1. DOMAIN b = D /\ \A k \in D : b[k] = Point(w, n - 1, k, f)
  BY DEF Picture
<1>2. Paint(b, w[n], f) =
        [k \in D |-> IF Paints(w[n], k, f) THEN Colour(w[n], k, f) ELSE b[k]]
  <2> HIDE DEF b, D
  <2> QED
    BY <1>1 DEF Paint, Paints, Colour
<1>3. \A k \in D : Point(w, n, k, f) =
        IF Paints(w[n], k, f) THEN Colour(w[n], k, f) ELSE b[k]
  <2> HIDE DEF b, D
  <2> QED
    BY <1>1, PaintPoint
<1>4. Picture(w, n, f) = [k \in D |-> Point(w, n, k, f)]
  BY DEF Picture
<1> HIDE DEF b, D
<1>5. Picture(w, n, f) = Paint(b, w[n], f)
  BY <1>2, <1>3, <1>4
<1> QED
  BY <1>5 DEF b

LEMMA PaintsPicture ==
  ASSUME NEW w \in Seq(Placements), NEW f
  PROVE  PaintAll(w, f) = Picture(w, Len(w), f)
<1> DEFINE N == Len(w)
           H(g) == [n \in 0 .. N |-> IF n = 0 THEN Blank ELSE Paint(g[n - 1], w[n], f)]
           buffer == CHOOSE g : g = H(g)
           h == [n \in 0 .. N |-> Picture(w, n, f)]
<1>0. N \in Nat /\ 0 \in 0 .. N /\ N \in 0 .. N
  OBVIOUS
<1>1. Picture(w, 0, f) = Blank
  <2>1. \A k : Painters(w, 0, k, f) = {}
    BY DEF Painters
  <2> QED
    BY <2>1 DEF Picture, Point, Blank
<1> HIDE DEF N
<1>2. h[0] = Blank
  BY <1>0, <1>1
<1>3. ASSUME NEW n \in 1 .. N PROVE h[n] = Paint(h[n - 1], w[n], f)
  <2>1. n \in 0 .. N /\ n - 1 \in 0 .. N /\ n \in Nat \ {0}
    BY <1>0
  <2>2. h[n] = Picture(w, n, f) /\ h[n - 1] = Picture(w, n - 1, f)
    BY <2>1
  <2> HIDE DEF h
  <2> QED
    BY <2>1, <2>2, PaintPicture
<1>4. h = H(h)
  <2>1. ASSUME NEW n \in 0 .. N PROVE h[n] = H(h)[n]
    <3>1. n = 0 \/ n \in 1 .. N
      BY <1>0
    <3>2. \A k \in 1 .. N : k # 0
      OBVIOUS
    <3> HIDE DEF h
    <3> QED
      BY <1>2, <1>3, <3>1, <3>2
  <2>2. h = [n \in 0 .. N |-> h[n]]
    OBVIOUS
  <2> HIDE DEF h
  <2> QED
    BY <2>1, <2>2
<1>5. buffer = H(buffer)
  <2> HIDE DEF H, h
  <2> QED
    BY <1>4
<1>6. PaintAll(w, f) = buffer[N]
  BY DEF PaintAll, N
<1> HIDE DEF buffer
<1>7. \A n \in 0 .. N : buffer[n] = h[n]
  <2> DEFINE T == {n \in 0 .. N : buffer[n] = h[n]}
  <2>1. 0 \in T
    <3> HIDE DEF h
    <3> QED
      BY <1>0, <1>2, <1>5
  <2>2. ASSUME NEW n \in 1 .. N, n - 1 \in T PROVE n \in T
    <3>1. n \in 0 .. N /\ n # 0 /\ buffer[n - 1] = h[n - 1]
      BY <2>2
    <3>2. buffer[n] = H(buffer)[n]
      <4> HIDE DEF H
      <4> QED
        BY <1>5
    <3> HIDE DEF h
    <3>3. buffer[n] = h[n]
      BY <1>3, <3>1, <3>2
    <3> QED
      BY <3>1, <3>3
  <2>3. \A n \in 0 .. N : n \in T
    <3> HIDE DEF T
    <3> QED
      BY <1>0, <2>1, <2>2, UpTo
  <2> QED
    BY <2>3
<1>8. h[N] = Picture(w, N, f)
  BY <1>0
<1> HIDE DEF h
<1> QED
  BY <1>0, <1>6, <1>7, <1>8 DEF N

-------------------------------------------------------------------------------
(* The theorem *)

LEMMA Greatest ==
  ASSUME NEW n \in Nat, NEW T \in SUBSET (1 .. n), T # {}
  PROVE  Max(T) \in T /\ \A i \in T : i <= Max(T)
<1> DEFINE S == {k \in 0 .. n : n - k \in T}
<1>1. S \in SUBSET Nat /\ S # {}
  <2>1. PICK i \in T : TRUE
    OBVIOUS
  <2>2. n - i \in 0 .. n /\ n - (n - i) = i
    BY <2>1
  <2>3. n - (n - i) \in T
    BY <2>1, <2>2, Zenon
  <2>4. n - i \in S
    BY <2>2, <2>3, Zenon
  <2>5. S \in SUBSET Nat
    OBVIOUS
  <2> HIDE DEF S
  <2> QED
    BY <2>4, <2>5
<1>2. PICK k \in S : \A m \in S : k <= m
  <2> HIDE DEF S
  <2> QED
    BY <1>1, NatMin
<1>3. n - k \in T
  OBVIOUS
<1>4. ASSUME NEW i \in T PROVE n - k >= i
  <2>1. n - i \in 0 .. n /\ n - (n - i) = i
    OBVIOUS
  <2>2. n - (n - i) \in T
    BY <2>1, Zenon
  <2>3. k <= n - i
    BY <1>2, <2>1, <2>2
  <2> QED
    BY <1>1, <2>3
<1>5. \E x \in T : \A y \in T : x >= y
  <2> HIDE DEF S
  <2> QED
    BY <1>3, <1>4
<1>6. Max(T) \in T /\ \A y \in T : Max(T) >= y
  BY <1>5 DEF Max
<1> QED
  BY <1>6

(* One point of a frame. *)
LEMMA FramePoint ==
  ASSUME TypeOK, ListInv, PlacingTyped,
         NEW c \in Canvases, NEW f \in FrameNumbers,
         NEW x \in 0 .. Width - 1, NEW y \in 0 .. Height - 1
  PROVE  LET q == stack[c]
             there == {i \in DOMAIN q : PixelAt(q[i], x, y, f) # {}}
             seen == IF there = {} THEN {Background} ELSE PixelAt(q[Min(there)], x, y, f)
         IN  \E pixel \in seen :
               GenerateFrame(c, f)[y * Width + x] = <<MAX_ALPHA, pixel[2]>>
<1> DEFINE q == stack[c]
           L == Len(q)
           w == FromBelow(q, L)
           k == y * Width + x
           there == {i \in DOMAIN q : PixelAt(q[i], x, y, f) # {}}
           T == Painters(w, L, k, f)
<1>1. q \in Seq(Placements) /\ L \in Nat /\ DOMAIN q = 1 .. L /\ Linked(c, q)
  BY StackTyped DEF ListInv, ListIsStack
<1>2. \A i \in 1 .. L : q[i] \in Placements /\ sprite[q[i]] \in Sprites
  <2> SUFFICES ASSUME NEW i \in 1 .. L PROVE q[i] \in Placements /\ sprite[q[i]] \in Sprites
    OBVIOUS
  <2>1. q[i] \in Placements /\ canvas[q[i]] = c
    BY <1>1 DEF Linked
  <2>2. q[i] \in Live
    BY <2>1, LayerAssumption DEF Live
  <2> QED
    BY <2>1, <2>2 DEF ListInv, CountsPlacements, TypeOK
<1>3. /\ w \in Seq(Placements) /\ Len(w) = L
      /\ \A i \in 1 .. L : w[i] = q[L + 1 - i]
  <2>1. L \in 0 .. L
    BY <1>1
  <2> QED
    BY <1>1, <2>1, FromBelowSeq DEF FromBelow
<1>4. GenerateFrame(c, f)[k] = Point(w, L, k, f)
  <2>1. Walk(c) = w
    BY WalkIsList DEF ListInv
  <2>2. GenerateFrame(c, f) = Picture(w, L, f)
    <3> HIDE DEF w, L
    <3> QED
      BY <1>3, <2>1, PaintsPicture DEF GenerateFrame
  <2>3. k \in 0 .. Width * Height - 1
    BY IndexOfPoint
  <2> QED
    BY <2>2, <2>3 DEF Picture
<1> HIDE DEF q, L, w, k
<1>5. ASSUME NEW i \in 1 .. L
      PROVE  /\ Paints(q[i], k, f) <=> i \in there
             /\ i \in there => PixelAt(q[i], x, y, f) # {}
             /\ i \in there => \A pixel \in PixelAt(q[i], x, y, f) :
                                  Colour(q[i], k, f) = <<MAX_ALPHA, pixel[2]>>
  <2> DEFINE p == q[i]
  <2>1. p \in Placements /\ sprite[p] \in Sprites /\ (i \in there <=> PixelAt(p, x, y, f) # {})
    BY <1>1, <1>2
  <2> HIDE DEF p, there
  <2>2. /\ PixelAt(p, x, y, f) # {} => \E r \in Painted(p, f) : Index(p, r, f) = k
        /\ \A r \in Painted(p, f) : Index(p, r, f) = k => PixelAt(p, x, y, f) = {Pixel(p, r)}
    BY <2>1, PaintedPixel DEF k
  <2>3. Paints(p, k, f) <=> i \in there
    BY <2>1, <2>2 DEF Paints
  <2>4. ASSUME i \in there, NEW pixel \in PixelAt(p, x, y, f)
        PROVE  Colour(p, k, f) = <<MAX_ALPHA, pixel[2]>>
    <3>1. PICK r : r = CHOOSE z \in Painted(p, f) : Index(p, z, f) = k
      OBVIOUS
    <3>2. r \in Painted(p, f) /\ Index(p, r, f) = k
      BY <2>1, <2>2, <2>4, <3>1
    <3>3. pixel = Pixel(p, r)
      BY <2>2, <2>4, <3>2
    <3> QED
      BY <3>1, <3>3 DEF Colour, Shown
  <2> QED
    BY <2>1, <2>3, <2>4 DEF p
<1>6. \A i \in 1 .. L : L + 1 - i \in 1 .. L /\ L + 1 - (L + 1 - i) = i
  BY <1>1
<1>7. \A i \in 1 .. L : i \in T <=> L + 1 - i \in there
  BY <1>3, <1>5, <1>6 DEF Painters
<1>8. T \in SUBSET (1 .. L) /\ there \in SUBSET (1 .. L)
  BY <1>1 DEF Painters
<1> HIDE DEF T, there
<1>9. CASE there = {}
  <2>1. T = {}
    BY <1>7, <1>8, <1>9
  <2>2. GenerateFrame(c, f)[k] = <<MAX_ALPHA, Background[2]>>
    BY <1>4, <2>1 DEF Point, Shown, T
  <2> QED
    BY <1>9, <2>2 DEF q, k, there
<1>10. CASE there # {}
  <2>1. T # {}
    <3>1. PICK i \in there : i \in 1 .. L
      BY <1>8, <1>10
    <3>2. L + 1 - i \in 1 .. L /\ L + 1 - (L + 1 - i) = i
      BY <1>6, <3>1
    <3>3. L + 1 - i \in T
      BY <1>7, <3>1, <3>2
    <3> QED
      BY <3>3
  <2>2. PICK t : t = Max(T)
    OBVIOUS
  <2>3. t \in T /\ \A i \in T : i <= t
    BY <1>1, <1>8, <2>1, <2>2, Greatest
  <2>4. PICK b : b = L + 1 - t
    OBVIOUS
  <2>5. t \in 1 .. L /\ b \in 1 .. L /\ b \in there /\ w[t] = q[b]
    BY <1>3, <1>6, <1>7, <1>8, <2>3, <2>4
  <2>6. ASSUME NEW i \in there PROVE b <= i
    <3>1. i \in 1 .. L
      BY <1>8
    <3>2. L + 1 - i \in T
      BY <1>6, <1>7, <3>1
    <3>3. L + 1 - i <= t
      BY <2>3, <3>2
    <3> QED
      BY <1>1, <2>4, <2>5, <3>1, <3>3
  <2>7. Min(there) = b
    <3>1. \A i \in there : (\A j \in there : i <= j) => i = b
      BY <1>8, <2>5, <2>6
    <3> QED
      BY <2>5, <2>6, <3>1 DEF Min
  <2>8. GenerateFrame(c, f)[k] = Colour(q[b], k, f)
    BY <1>4, <2>1, <2>2, <2>5 DEF Point, T
  <2>9. \E pixel \in PixelAt(q[b], x, y, f) : GenerateFrame(c, f)[k] = <<MAX_ALPHA, pixel[2]>>
    BY <1>5, <2>5, <2>8
  <2> QED
    BY <1>10, <2>7, <2>9 DEF q, k, there
<1> QED
  BY <1>9, <1>10

LEMMA PlacingStep ==
  ASSUME PlacingTyped, [FrameNext]_<<vars, placing>>
  PROVE  PlacingTyped'
<1>1. Nowhere \in Places
  BY DEF Nowhere, Places
<1>2. CASE LayerStep
  <2>1. PICK pos \in Positions :
          placing' = [p \in Placements |->
                        IF canvas'[p] = NULL THEN Nowhere
                        ELSE IF canvas[p] = NULL
                             THEN [Nowhere EXCEPT !.x = pos[1], !.y = pos[2]]
                        ELSE placing[p]]
    BY <1>2 DEF LayerStep
  <2>2. pos[1] \in Int /\ pos[2] \in Int
    BY FrameAssumption
  <2>3. [Nowhere EXCEPT !.x = pos[1], !.y = pos[2]] \in Places
    <3>1. \A a \in Int, b \in Int : [Nowhere EXCEPT !.x = a, !.y = b] \in Places
      BY <1>1 DEF Places
    <3> QED
      BY <2>2, <3>1, Zenon
  <2> QED
    BY <1>1, <2>1, <2>3 DEF PlacingTyped
<1>3. ASSUME NEW p \in Placements, NEW m \in Motions, SetAnimationParams(p, m)
      PROVE  PlacingTyped'
  <2> DEFINE q == [placing[p] EXCEPT !.vx = m.vx, !.vy = m.vy, !.ax = m.ax, !.ay = m.ay]
  <2>1. m \in [vx : Int, vy : Int, ax : Int, ay : Int]
    BY FrameAssumption
  <2>2. q \in Places
    <3>1. placing[p] \in Places /\ m.vx \in Int /\ m.vy \in Int /\ m.ax \in Int /\ m.ay \in Int
      BY <2>1 DEF PlacingTyped
    <3>2. \A r \in Places, i \in Int, j \in Int, k \in Int, l \in Int :
            [r EXCEPT !.vx = i, !.vy = j, !.ax = k, !.ay = l] \in Places
      BY DEF Places
    <3> QED
      BY <3>1, <3>2, Zenon
  <2>3. placing' = [placing EXCEPT ![p] = q]
    BY <1>3 DEF PlacingTyped, SetAnimationParams
  <2> HIDE DEF q
  <2> QED
    BY <2>2, <2>3 DEF PlacingTyped
<1>4. CASE UNCHANGED <<vars, placing>>
  BY <1>4 DEF PlacingTyped
<1> QED
  BY <1>2, <1>3, <1>4 DEF FrameNext

(* The calls that move sprites do not touch the lists. *)
THEOREM FramesKeepLists == FrameSpec => Spec
<1>1. FrameInit => Init
  BY DEF FrameInit
<1>2. [FrameNext]_<<vars, placing>> => [Next]_vars
  BY DEF FrameNext, LayerStep, SetAnimationParams
<1> QED
  BY <1>1, <1>2, PTL DEF FrameSpec, Spec

(* animate_generate_frame: each point of a frame of any canvas shows,      *)
(* opaque, the pixel of the topmost placement that has one there at that   *)
(* time, and the background where none has, after any calls and for any    *)
(* canvas size, sprites, positions and motions.                            *)
THEOREM FramesAreRight == FrameSpec => []FramesShowStack
<1>1. FrameInit => PlacingTyped
  BY DEF FrameInit, PlacingTyped, Nowhere, Places
<1>2. PlacingTyped /\ [FrameNext]_<<vars, placing>> => PlacingTyped'
  BY PlacingStep
<1>3. FrameSpec => []PlacingTyped
  BY <1>1, <1>2, PTL DEF FrameSpec
<1>4. TypeOK /\ ListInv /\ PlacingTyped => FramesShowStack
  <2> SUFFICES ASSUME TypeOK, ListInv, PlacingTyped PROVE FramesShowStack
    OBVIOUS
  <2>1. canvases \subseteq Canvases
    BY DEF TypeOK
  <2> QED
    BY <2>1, FramePoint DEF FramesShowStack
<1> QED
  BY <1>3, <1>4, FramesKeepLists, ListTypes, ListInvariant, PTL

===============================================================================
