--------------------------------- MODULE Frames --------------------------------
(* What animate_generate_frame makes of the lists of LayerList: positions  *)
(* and motion of the placements, and the pixels of a frame, painted from   *)
(* the bottom layer to the top one.                                        *)
(*                                                                         *)
(* A time is frame / FrameRate seconds.  The code computes with doubles,   *)
(* which is exact when the rate is a power of two, as it is in the         *)
(* instance; here the arithmetic is that of fractions.                     *)
EXTENDS LayerList, SequencesExt

CONSTANTS
  Width, Height,  \* of every canvas
  Background,     \* background_color, <<alpha, rgb>> like every color
  Look,           \* Look[s]: width, height and pixels of a sprite
  Positions,      \* the <<x, y>> at which sprites are placed
  Motions,        \* the velocities and accelerations they are given
  FrameNumbers, FrameRate   \* the frames looked at

ASSUME FrameAssumption ==
  /\ {Width, Height, FrameRate} \subseteq Nat \ {0} /\ FrameNumbers \subseteq Nat
  /\ \A s \in Sprites : Look[s].width \in Nat /\ Look[s].height \in Nat
  /\ Positions \subseteq Int \X Int
  /\ Motions \subseteq [vx : Int, vy : Int, ax : Int, ay : Int]

VARIABLE placing  \* placing[p]: x, y, vx, vy, ax, ay of the placement p

MAX_ALPHA == 255
Nowhere == [x |-> 0, y |-> 0, vx |-> 0, vy |-> 0, ax |-> 0, ay |-> 0]

-------------------------------------------------------------------------------
(* Positions *)

(* A new placement is put at a position and does not move; a freed one is  *)
(* forgotten.                                                              *)
LayerStep ==
  /\ Next
  /\ \E pos \in Positions :
        placing' = [p \in Placements |->
                      IF canvas'[p] = NULL THEN Nowhere
                      ELSE IF canvas[p] = NULL
                           THEN [Nowhere EXCEPT !.x = pos[1], !.y = pos[2]]
                      ELSE placing[p]]

SetAnimationParams(p, m) ==
  /\ ~crashed /\ p \in Live
  /\ placing' = [placing EXCEPT ![p].vx = m.vx, ![p].vy = m.vy,
                                ![p].ax = m.ax, ![p].ay = m.ay]
  /\ UNCHANGED vars

FrameInit == Init /\ placing = [p \in Placements |-> Nowhere]
FrameNext == LayerStep \/ \E p \in Placements, m \in Motions : SetAnimationParams(p, m)
FrameSpec == FrameInit /\ [][FrameNext]_<<vars, placing>>

-------------------------------------------------------------------------------
(* A frame *)

(* The fraction n / d rounded: a half is added or subtracted and the rest  *)
(* cut off.  A plausible slip: a half is added in any case and the floor   *)
(* taken.                                                                  *)
Rounded_Floor(n, d) == (2 * n + d) \div (2 * d)
Rounded(n, d) ==
  IF n >= 0 THEN (2 * n + d) \div (2 * d) ELSE -((d - 2 * n) \div (2 * d))

(* v t + a t^2 / 2 for t = f / FrameRate, as numerator over Denominator. *)
Denominator == 2 * FrameRate * FrameRate
Displacement(v, a, f) == 2 * v * f * FrameRate + a * f * f

PositionX(p, f) ==
  placing[p].x + Rounded(Displacement(placing[p].vx, placing[p].ax, f), Denominator)
PositionY(p, f) ==
  placing[p].y + Rounded(Displacement(placing[p].vy, placing[p].ay, f), Denominator)

Transparent(pixel) == pixel[1] = 0
Shown(pixel) == <<MAX_ALPHA, pixel[2]>>

(* The pixels of the sprite of p that are painted in frame f, and where in *)
(* the buffer.                                                             *)
Pixel(p, q) == Look[sprite[p]].pixels[q[2] * Look[sprite[p]].width + q[1]]
Painted(p, f) ==
  {q \in (0 .. Look[sprite[p]].width - 1) \X (0 .. Look[sprite[p]].height - 1) :
     /\ PositionX(p, f) + q[1] \in 0 .. Width - 1
     /\ PositionY(p, f) + q[2] \in 0 .. Height - 1
     /\ ~Transparent(Pixel(p, q))}
Index(p, q, f) == (PositionY(p, f) + q[2]) * Width + PositionX(p, f) + q[1]

Paint(buffer, p, f) ==
  [i \in DOMAIN buffer |->
     IF \E q \in Painted(p, f) : Index(p, q, f) = i
     THEN Shown(Pixel(p, CHOOSE q \in Painted(p, f) : Index(p, q, f) = i))
     ELSE buffer[i]]

(* The placements the loop comes to, from the tail along previous. *)
Walk(c) ==
  LET walk[n \in 0 .. Cardinality(Placements)] ==
        IF n = 0 THEN IF tail[c] = NULL THEN <<>> ELSE <<tail[c]>>
        ELSE LET q == walk[n - 1]
             IN  IF q = <<>> \/ previous[Last(q)] = NULL THEN q
                 ELSE Append(q, previous[Last(q)])
  IN  walk[Cardinality(Placements)]

(* The buffer after the placements of w are painted one over the other. *)
Blank == [i \in 0 .. Width * Height - 1 |-> Shown(Background)]
PaintAll(w, f) ==
  LET buffer[n \in 0 .. Len(w)] ==
        IF n = 0 THEN Blank ELSE Paint(buffer[n - 1], w[n], f)
  IN  buffer[Len(w)]

(* frame_buf after animate_generate_frame. *)
GenerateFrame(c, f) == PaintAll(Walk(c), f)

-------------------------------------------------------------------------------
(* What a frame shows *)

(* The whole number nearest to n / d, of two the one farther from zero. *)
Nearest(n, d) ==
  CHOOSE r \in (n \div d) - 1 .. (n \div d) + 1 :
     /\ 2 * (r * d - n) \in -d .. d
     /\ 2 * (r * d - n) = d => n > 0
     /\ 2 * (r * d - n) = -d => n < 0

(* The pixel that placement p has at the point (x, y) in frame f: none     *)
(* beside the sprite, nor where it is transparent.                         *)
PixelAt(p, x, y, f) ==
  LET m == placing[p]
      s == Look[sprite[p]]
      u == x - m.x - Nearest(Displacement(m.vx, m.ax, f), Denominator)
      v == y - m.y - Nearest(Displacement(m.vy, m.ay, f), Denominator)
  IN  IF u \in 0 .. s.width - 1 /\ v \in 0 .. s.height - 1
      THEN {pixel \in {s.pixels[v * s.width + u]} : ~Transparent(pixel)}
      ELSE {}

(* Every point of a frame shows, fully opaque, the topmost placement of    *)
(* the stack of the canvas that has a pixel there, at its place at that    *)
(* time, and the background where there is none.                           *)
FramesShowStack ==
  \A c \in canvases, f \in FrameNumbers :
    LET frame == GenerateFrame(c, f)
        q == stack[c]
    IN  \A x \in 0 .. Width - 1, y \in 0 .. Height - 1 :
          LET there == {i \in DOMAIN q : PixelAt(q[i], x, y, f) # {}}
              seen == IF there = {} THEN {Background} ELSE PixelAt(q[Min(there)], x, y, f)
          IN  \E pixel \in seen : frame[y * Width + x] = <<MAX_ALPHA, pixel[2]>>

===============================================================================
