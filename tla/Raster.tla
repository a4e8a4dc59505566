------------------------------- MODULE Raster -------------------------------
(***************************************************************************)
(* What the GPU draws into VRAM (src/raster.cpp), and the part of          *)
(* Gpu::draw_polygon that makes a quad of two triangles.                   *)
(*                                                                         *)
(* A pixel is one colour channel and the mask bit: the three channels are  *)
(* worked out apart and alike.  The arithmetic of a channel has the code's *)
(* own widths; the fractions of a plane and of a line's position, and the  *)
(* size of VRAM, are constants, so that a small VRAM stands for the real   *)
(* one.  A texel is a pixel: how an indexed one finds its palette is in    *)
(* Gpu.  A textured primitive is never drawn over the page it reads.       *)
(*                                                                         *)
(* A behaviour draws one primitive, from any of the settings.              *)
(***************************************************************************)
EXTENDS Integers, Sequences

CONSTANTS
  Width, Height,   \* VRAM_WIDTH, VRAM_HEIGHT: powers of two
  PlaneScale,      \* 2 ^ PLANE_BITS
  PositionScale,   \* 2 ^ POSITION_BITS
  Nudge,           \* POSITION_NUDGE
  FillUnit,        \* the pixels a fill's sides are rounded to
  Settings,        \* bound: the drawing state primitives are drawn under
  Masks,           \* bound: which pixels of VRAM have the mask bit
  Polygons,        \* bound: the corners of polygons, sequences of vertices
  Ends,            \* bound: where lines begin and end
  Corners,         \* bound: where rectangles and copies begin
  Sides,           \* bound: how wide and how high they are
  Shadings         \* bound: how primitives are coloured

Place == (0 .. Width - 1) \X (0 .. Height - 1)
Level == 0 .. 31
Pixel == [level : Level, mask : BOOLEAN]
Shading == [gouraud : BOOLEAN, textured : BOOLEAN, raw : BOOLEAN,
            translucent : BOOLEAN]
Setting ==
  [left : Nat, right : Nat, top : Nat, bottom : Nat, check : BOOLEAN,
   mask : BOOLEAN, dither : BOOLEAN, blend : 0 .. 3, flip : BOOLEAN \X BOOLEAN,
   page : Place, window : Place]

\* A coordinate and the offset added to it have eleven bits each, the sign's
\* among them.
Coordinate == -2 * Width .. 2 * Width - 1
Vertex == [x : Coordinate, y : Coordinate, colour : 0 .. 255, u : 0 .. 255,
           v : 0 .. 255]

\* VRAM is no higher than it is wide.  A line has no more steps than the nudge
\* has units, and the two together stay below the least distance a step can have
\* from the middle between two pixels.  A window's pixels are in the rows from
\* its page's down.
ASSUME RasterAssumption ==
  /\ Width \in Nat \ {0} /\ Height \in 1 .. Width /\ FillUnit \in Nat \ {0}
  /\ PlaneScale \in Nat \ {0} /\ PlaneScale % 2 = 0
  /\ PositionScale \in Nat \ {0} /\ PositionScale % 2 = 0
  /\ Nudge \in Nat /\ 2 * Nudge <= PositionScale
  /\ \A n \in 1 .. Width - 1 : n <= Nudge /\ 2 * n * (Nudge + n) < PositionScale
  /\ Settings \subseteq Setting /\ Shadings \subseteq Shading
  /\ \A s \in Settings : s.page[2] + s.window[2] < Height
  /\ Masks \subseteq SUBSET Place /\ Ends \subseteq Vertex
  /\ \A c \in Polygons : c \in Seq(Vertex) /\ Len(c) \in 3 .. 4
  /\ Corners \subseteq Coordinate \X Coordinate /\ Sides \subseteq Nat

VARIABLES
  vram,    \* Gpu::vram
  set,     \* the draw area, the mask setting, the draw mode and the window
  last     \* history: the primitive drawn, with VRAM as it found it

rasterVars == <<vram, set, last>>

Nothing == [kind |-> "nothing"]

\* Every pixel of VRAM a colour of its own, as far as the levels go.
RasterInit ==
  /\ \E masked \in Masks :
       vram = [p \in Place |->
                 [level |-> ((p[1] + 5 * p[2]) % 32), mask |-> p \in masked]]
  /\ set \in Settings
  /\ last = Nothing

-----------------------------------------------------------------------------
(* A pixel.                                                                *)

\* DITHER, by row and column.
Dither == <<<<-4, 0, -3, 1>>, <<2, -2, 3, -1>>, <<-3, 1, -4, 0>>, <<3, -1, 2, -2>>>>

\* to_pixel and from_pixel, for one channel.
Clamped(v) == IF v < 0 THEN 0 ELSE IF v > 255 THEN 255 ELSE v
ToLevel(colour, offset) == Clamped(colour + offset) \div 8
FromLevel(level) == 8 * level

\* blend.
Blend(behind, front) ==
  CASE set.blend = 0 -> behind \div 2 + front \div 2
    [] set.blend = 1 -> behind + front
    [] set.blend = 2 -> IF behind < front THEN 0 ELSE behind - front
    [] set.blend = 3 -> behind + front \div 4

\* put: the pixel at p, once a colour has been put over it.
Put(behind, p, colour, translucent, dither) ==
  IF set.check /\ behind.mask THEN behind
  ELSE [level |-> ToLevel(IF translucent
                          THEN Blend(FromLevel(behind.level), colour) ELSE colour,
                          IF dither THEN Dither[(p[2] % 4) + 1][(p[1] % 4) + 1] ELSE 0),
        mask |-> set.mask]

InClip(p) == p[1] \in set.left .. set.right /\ p[2] \in set.top .. set.bottom

\* prepare: only a primitive with a gradient across it is dithered.
Dithers(how) == set.dither /\ (how.gouraud \/ (how.textured /\ ~how.raw))

\* sample: the window's pixels of a page, over and over.
Sample(v, s, t) ==
  LET Folded(c, size) == (c % 256) % size
  IN v[<<((set.page[1] + Folded(s, set.window[1] + 1)) % Width),
         ((set.page[2] + Folded(t, set.window[2] + 1)) % Height)>>]

\* shade_texel and put: what a texel makes of the pixel at p.
PutTexel(behind, p, found, how, tint, dither) ==
  IF found.level = 0 /\ ~found.mask THEN behind
  ELSE Put(behind, p,
           IF how.raw THEN FromLevel(found.level)
           ELSE (FromLevel(found.level) * tint) \div 128,
           how.translucent /\ found.mask, dither)

-----------------------------------------------------------------------------
(* Polygons.                                                               *)

\* edge: twice the area of the triangle a, b and the point make.
Edge(a, b, x, y) == (b.x - a.x) * (y - a.y) - (b.y - a.y) * (x - a.x)
\* Mutant: an edge that ends a shape owns the pixels on it too.
TopOrLeftOrBottom(a, b) == a.y = b.y \/ b.y < a.y

\* top_or_left: whether the edge from a to b owns the pixels on it.
TopOrLeft(a, b) == IF a.y = b.y THEN b.x > a.x ELSE b.y < a.y

Area(c) == Edge(c[1], c[2], c[3].x, c[3].y)
Wound(c) == IF Area(c) < 0 THEN <<c[1], c[3], c[2]>> ELSE c

\* draw_triangle's three edge functions, each with what it has to reach.
Inside(w, p) ==
  \A i \in 1 .. 3 :
    LET a == w[i]
        b == w[(i % 3) + 1]
    IN Edge(a, b, p[1], p[2]) >= (IF TopOrLeft(a, b) THEN 0 ELSE 1)

Covered(c) == {p \in Place : Area(c) # 0 /\ InClip(p) /\ Inside(Wound(c), p)}

\* C++ division, which rounds towards zero.
Quotient(a, b) ==
  LET Abs(n) == IF n < 0 THEN -n ELSE n
  IN IF (a < 0) = (b < 0) THEN Abs(a) \div Abs(b) ELSE -(Abs(a) \div Abs(b))

\* plan: the leftmost corner, the last of equals but for the first and third.
Anchor(c) ==
  IF c[2].x <= c[1].x THEN IF c[3].x <= c[2].x THEN 3 ELSE 2
  ELSE IF c[3].x < c[1].x THEN 3 ELSE 1

WordSize == 256 * PlaneScale * PlaneScale

\* plane_step.
PlaneStep(numerator, det) ==
  PlaneScale * Quotient(numerator * PlaneScale, det)

\* Mutant: no half unit at the anchor.
AnchoredAtNothing(v) == v * PlaneScale * PlaneScale

\* Half a unit at the anchor.
Anchored(v) == (v * PlaneScale + PlaneScale \div 2) * PlaneScale

\* plane_of and Plane::at: the attribute with value val[i] at corner i, read at
\* (x, y).  Sorting the corners down the screen would turn the signs of
\* numerators and determinant together.
PlaneAt(c, val, x, y) ==
  LET det == (c[2].x - c[1].x) * (c[3].y - c[2].y)
             - (c[3].x - c[2].x) * (c[2].y - c[1].y)
      stepX == PlaneStep((val[2] - val[1]) * (c[3].y - c[2].y)
                         - (val[3] - val[2]) * (c[2].y - c[1].y), det)
      stepY == PlaneStep((c[2].x - c[1].x) * (val[3] - val[2])
                         - (c[3].x - c[2].x) * (val[2] - val[1]), det)
      a == Anchor(c)
  IN ((Anchored(val[a]) + stepX * (x - c[a].x) + stepY * (y - c[a].y))
        % WordSize) \div (PlaneScale * PlaneScale)

Values(c, field) == [i \in 1 .. 3 |-> c[i][field]]

\* draw_triangle, over the VRAM v.
Triangle(v, c, how) ==
  LET covered == Covered(c)
      At(field, p) == PlaneAt(c, Values(c, field), p[1], p[2])
  IN [p \in Place |->
        IF p \notin covered THEN v[p]
        ELSE IF how.textured
        THEN PutTexel(v[p], p, Sample(v, At("u", p), At("v", p)), how,
                      At("colour", p), Dithers(how))
        ELSE Put(v[p], p, At("colour", p), how.translucent, Dithers(how))]

\* Mutant: the fan's second triangle turns about the first corner.
PolygonAboutFirst(v, c, how) ==
  IF Len(c) = 3 THEN Triangle(v, c, how)
  ELSE Triangle(Triangle(v, <<c[1], c[2], c[3]>>, how), <<c[1], c[3], c[4]>>, how)

\* draw_polygon: a quad is two triangles with the second and third corners in
\* common.
Polygon(v, c, how) ==
  IF Len(c) = 3 THEN Triangle(v, c, how)
  ELSE Triangle(Triangle(v, <<c[1], c[2], c[3]>>, how), <<c[2], c[3], c[4]>>, how)

-----------------------------------------------------------------------------
(* Lines.                                                                  *)

Magnitude(n) == IF n < 0 THEN -n ELSE n
Larger(a, b) == IF a < b THEN b ELSE a

\* Mutant: rounded towards zero, as a division is.
PositionStepCut(delta, steps) ==
  IF steps = 0 THEN 0 ELSE Quotient(delta * PositionScale, steps)

\* position_step: rounded away from zero.
PositionStep(delta, steps) ==
  IF steps = 0 \/ delta = 0 THEN 0
  ELSE Quotient(delta * PositionScale
                + (IF delta > 0 THEN steps - 1 ELSE 1 - steps), steps)

TooLong(a, b) ==
  Magnitude(b.x - a.x) >= Width \/ Magnitude(b.y - a.y) >= Height

\* draw_line's walk, left to right: the place and the colour of each step.
Walk(from, to, how) ==
  LET backwards == from.x >= to.x /\ to.x # from.x
      first  == IF backwards THEN to ELSE from
      second == IF backwards THEN from ELSE to
      steps  == Larger(Magnitude(to.x - from.x), Magnitude(to.y - from.y))
      stepX  == PositionStep(second.x - first.x, steps)
      stepY  == PositionStep(second.y - first.y, steps)
      startX == first.x * PositionScale + PositionScale \div 2 - Nudge
      startY == first.y * PositionScale + PositionScale \div 2
                - (IF stepY < 0 THEN Nudge ELSE 0)
      shade  == IF steps = 0 THEN 0
                ELSE Quotient((second.colour - first.colour) * 4096, steps)
  IN [n \in 0 .. steps |->
        [place  |-> <<(startX + n * stepX) \div PositionScale,
                      (startY + n * stepY) \div PositionScale>>,
         colour |-> IF how.gouraud
                    THEN (first.colour * 4096 + 2048 + n * shade) \div 4096
                    ELSE first.colour]]

\* draw_line: every line may be dithered.
Segment(v, from, to, how) ==
  LET walk == Walk(from, to, how)
      At(p) == {n \in DOMAIN walk : walk[n].place = p /\ InClip(p)}
  IN IF TooLong(from, to) THEN v
     ELSE [p \in Place |->
             IF At(p) = {} THEN v[p]
             ELSE LET n == CHOOSE n \in At(p) : TRUE
                  IN Put(v[p], p, walk[n].colour, how.translucent, set.dither)]

-----------------------------------------------------------------------------
(* Rectangles, fills and copies.                                           *)

\* Mutant: the row and the column that end it are drawn too.
WithinClosed(column, row, w, h) == column \in 0 .. w /\ row \in 0 .. h

Within(column, row, w, h) == column \in 0 .. w - 1 /\ row \in 0 .. h - 1

\* draw_rectangle: one texel to the pixel, a flipped row starting one texel on.
Rectangle(v, c, w, h, how) ==
  [p \in Place |->
     LET column == p[1] - c.x
         row    == p[2] - c.y
         s      == IF set.flip[1] THEN c.u + 1 - column ELSE c.u + column
         t      == IF set.flip[2] THEN c.v - row ELSE c.v + row
     IN IF ~(Within(column, row, w, h) /\ InClip(p)) THEN v[p]
        ELSE IF how.textured
        THEN PutTexel(v[p], p, Sample(v, s, t), how, c.colour, FALSE)
        ELSE Put(v[p], p, c.colour, how.translucent, FALSE)]

\* execute_gp0 and fill_vram: whole units of a row, whatever the mask bits and
\* the draw area say.
Filled(v, x, y, w, h, colour) ==
  LET left == x - (x % FillUnit)
      wide == FillUnit * ((w + FillUnit - 1) \div FillUnit)
  IN [p \in Place |->
        IF (p[1] - left) % Width < wide /\ (p[2] - y) % Height < h
        THEN [level |-> ToLevel(colour, 0), mask |-> FALSE] ELSE v[p]]

\* Mutant: what is there is not asked.
CopiedOverAnyway(was, source) == [source EXCEPT !.mask = @ \/ set.mask]

\* A pixel of the copy over the one that was there.
CopiedOver(was, source) ==
  IF set.check /\ was.mask THEN was ELSE [source EXCEPT !.mask = @ \/ set.mask]

\* copy_vram: one row, read whole before any of it is written.
CopiedRow(v, from, to, w, line) ==
  [p \in Place |->
     LET column == (p[1] - to[1]) % Width
     IN IF p[2] = (to[2] + line) % Height /\ column < w
        THEN CopiedOver(v[p], v[<<((from[1] + column) % Width),
                                  ((from[2] + line) % Height)>>])
        ELSE v[p]]

\* copy_vram: its rows one after another.
Copied(v, from, to, w, h) ==
  LET rows[n \in 0 .. h] ==
        IF n = 0 THEN v ELSE CopiedRow(rows[n - 1], from, to, w, n - 1)
  IN rows[h]

-----------------------------------------------------------------------------
(* The primitives, one of them to a behaviour.                             *)

Draws(primitive) == last' = primitive /\ UNCHANGED set

\* The texels a primitive may read: below it, it draws nothing.
Page == {p \in Place : p[2] >= set.page[2]}
ClearOfPage(how, bottom) == how.textured => bottom < set.page[2]

DrawPolygon ==
  /\ last = Nothing
  /\ \E c \in Polygons, how \in Shadings :
       /\ \A i \in DOMAIN c :
            /\ ClearOfPage(how, c[i].y)
            /\ ~how.gouraud => c[i].colour = c[1].colour
       /\ Draws([kind |-> "polygon", corners |-> c, how |-> how, before |-> vram])
       /\ vram' = Polygon(vram, c, how)

DrawLine ==
  /\ last = Nothing
  /\ \E a, b \in Ends, how \in Shadings :
       /\ ~how.textured
       /\ ~how.gouraud => a.colour = b.colour
       /\ Draws([kind |-> "line", from |-> a, to |-> b, how |-> how, before |-> vram])
       /\ vram' = Segment(vram, a, b, how)

DrawRectangle ==
  /\ last = Nothing
  /\ \E c \in Corners, w, h \in Sides, how \in Shadings :
       /\ ~how.gouraud
       /\ ClearOfPage(how, c[2] + h - 1)
       /\ LET corner == [x |-> c[1], y |-> c[2], colour |-> 128, u |-> 1, v |-> 0]
          IN /\ Draws([kind |-> "rectangle", corner |-> corner, width |-> w,
                       height |-> h, how |-> how, before |-> vram])
             /\ vram' = Rectangle(vram, corner, w, h, how)

FillVram ==
  /\ last = Nothing
  /\ \E c \in Corners, w, h \in Sides :
       /\ Draws([kind |-> "fill", before |-> vram])
       /\ vram' = Filled(vram, c[1], c[2], w, h, 255)

CopyVram ==
  /\ last = Nothing
  /\ \E a, b \in Corners, w, h \in Sides \ {0} :
       /\ Draws([kind |-> "copy", from |-> a, to |-> b, width |-> w, height |-> h,
                 before |-> vram])
       /\ vram' = Copied(vram, a, b, w, h)

RasterNext == CopyVram \/ FillVram \/ DrawRectangle \/ DrawLine \/ DrawPolygon

RasterSpec == RasterInit /\ [][RasterNext]_rasterVars

-----------------------------------------------------------------------------
(* What is checked.                                                        *)

\* Every pixel of VRAM stays one there is, its level in its five bits however
\* bright what is put over it.
RasterTypeOK ==
  /\ vram \in [Place -> Pixel] /\ set \in Settings
  /\ last.kind \in {"nothing", "polygon", "line", "rectangle", "fill", "copy"}

\* The rule for a pixel on an edge, without the edges: the point drawn for is a
\* hair to the right of the pixel's own, and less than a hair below it, where
\* no edge of a shape with whole corners can be: there are more hairs to a
\* pixel than pixels to an edge.
Hair == 4 * Width
StrictlyInside(outline, p) ==
  LET n == Len(outline)
      Side(i) ==
        LET a == outline[i]
            b == outline[(i % n) + 1]
        IN (b.x - a.x) * (Hair * Hair * (p[2] - a.y) + 1)
           - (b.y - a.y) * (Hair * Hair * (p[1] - a.x) + Hair)
  IN (\A i \in 1 .. n : Side(i) > 0) \/ (\A i \in 1 .. n : Side(i) < 0)

\* The corners in the order a walk round the shape meets them.
Outline(c) == IF Len(c) = 3 THEN c ELSE <<c[1], c[2], c[4], c[3]>>
Convex(o) ==
  LET n == Len(o)
      Turn(i) == LET a == o[i]
                     b == o[(i % n) + 1]
                     d == o[((i + 1) % n) + 1]
                 IN Edge(a, b, d.x, d.y)
  IN (\A i \in 1 .. n : Turn(i) > 0) \/ (\A i \in 1 .. n : Turn(i) < 0)

\* A flat polygon, whichever way its corners go round, draws every pixel whose
\* point is inside it once and no other: of a quad, the pixels on the seam of
\* its two triangles once, which shows as soon as it is translucent.
SeamDrawnOnce ==
  last.kind = "polygon" =>
    LET c == last.corners
        flat == \A i \in DOMAIN c : c[i].colour = c[1].colour
    IN ~last.how.textured /\ flat /\ Convex(Outline(c)) =>
         \A p \in Place :
           vram[p] = IF InClip(p) /\ StrictlyInside(Outline(c), p)
                     THEN Put(last.before[p], p, c[1].colour,
                              last.how.translucent, Dithers(last.how))
                     ELSE last.before[p]

\* Small enough for its planes to drift by less than half a shade.
Small(c) ==
  \A i, j \in DOMAIN c :
    2 * (Magnitude(c[i].x - c[j].x) + Magnitude(c[i].y - c[j].y)) < PlaneScale

\* The fixed-point planes, and a line's shades, stay between the shades of the
\* corners: no dark corner comes out bright for having wrapped below zero.
ShadeInRange ==
  /\ last.kind = "polygon" /\ ~last.how.textured /\ Len(last.corners) = 3
       /\ Small(last.corners) =>
       LET shades == {last.corners[i].colour : i \in 1 .. 3}
       IN \A p \in Covered(last.corners) :
            LET shade == PlaneAt(last.corners, Values(last.corners, "colour"),
                                 p[1], p[2])
            IN \E low, high \in shades : low <= shade /\ shade <= high
  /\ last.kind = "line" /\ ~TooLong(last.from, last.to) =>
       LET walk == Walk(last.from, last.to, last.how)
           shades == {last.from.colour, last.to.colour}
       IN \A n \in DOMAIN walk :
            \E low, high \in shades :
              low <= walk[n].colour /\ walk[n].colour <= high

\* The places of a line by rounding alone: n steps from its left end, a middle
\* between two pixels going to the left one and to the upper one, unless the
\* line goes down the screen.
LinePlaces(a, b) ==
  LET first  == IF b.x < a.x THEN b ELSE a
      second == IF b.x < a.x THEN a ELSE b
      steps  == Larger(Magnitude(a.x - b.x), Magnitude(a.y - b.y))
      Least(delta, n) == -((steps - 2 * n * delta) \div (2 * steps))
      Most(delta, n)  == (steps + 2 * n * delta) \div (2 * steps)
      dy == second.y - first.y
  IN IF steps = 0 THEN {<<a.x, a.y>>}
     ELSE {<<first.x + Least(second.x - first.x, n),
             first.y + (IF dy > 0 THEN Most(dy, n) ELSE Least(dy, n))>> :
              n \in 0 .. steps}

\* The walk with its accumulated fractions draws the line rounding gives, both
\* its ends with it, each pixel once, whichever end it was named from.
LineExact ==
  last.kind = "line" /\ ~last.how.gouraud /\ ~TooLong(last.from, last.to) =>
    \A p \in Place :
      vram[p] = IF InClip(p) /\ p \in LinePlaces(last.from, last.to)
                THEN Put(last.before[p], p, last.from.colour,
                         last.how.translucent, set.dither)
                ELSE last.before[p]

\* A rectangle is the quad with the same corners, texels and all.
SpriteIsQuad ==
  last.kind = "rectangle" /\ set.flip = <<FALSE, FALSE>> /\ ~Dithers(last.how) =>
    LET c == last.corner
        Corner(i, j) == [c EXCEPT !.x = @ + i, !.y = @ + j, !.u = @ + i, !.v = @ + j]
        w == last.width
        h == last.height
    IN vram = Polygon(last.before,
                      <<Corner(0, 0), Corner(w, 0), Corner(0, h), Corner(w, h)>>,
                      last.how)

\* A row of the copy is read after it was written.
Overtaken(c) ==
  /\ \E i, j \in 0 .. c.height - 1 :
       i < j /\ (c.to[2] + i) % Height = (c.from[2] + j) % Height
  /\ \E i, j \in 0 .. c.width - 1 :
       (c.to[1] + i) % Width = (c.from[1] + j) % Width

\* A copy that does not run into its own source moves what was there, sideways
\* over itself and round the edges of VRAM too, and writes no pixel it must not.
CopyFaithful ==
  last.kind = "copy" /\ ~Overtaken(last) =>
    \A p \in Place :
      LET i == (p[1] - last.to[1]) % Width
          j == (p[2] - last.to[2]) % Height
          was == last.before[p]
          source == last.before[<<((last.from[1] + i) % Width),
                                  ((last.from[2] + j) % Height)>>]
      IN vram[p] = IF i < last.width /\ j < last.height /\ ~(set.check /\ was.mask)
                   THEN [source EXCEPT !.mask = @ \/ set.mask] ELSE was
=============================================================================
