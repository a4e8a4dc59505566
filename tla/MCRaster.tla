------------------------------ MODULE MCRaster ------------------------------
(***************************************************************************)
(* A VRAM of eight pixels by eight: every convex quad on a grid of four by *)
(* four, every triangle on one of five by five in dark and light corners,  *)
(* each named from its leftmost corner, and lines of every slope that fit, *)
(* with some that do not.                                                  *)
(***************************************************************************)
EXTENDS Raster

Grid == 0 .. 3

At(x, y, colour) == [x |-> x, y |-> y, colour |-> colour, u |-> x % 8, v |-> y]

First(s) == \A i \in DOMAIN s : s[1].x * 8 + s[1].y <= s[i].x * 8 + s[i].y

Shades == {<<96, 96, 96>>, <<0, 1, 0>>, <<1, 255, 1>>}
MCTriangles ==
  {t \in {<<At(a[1], a[2], s[1]), At(b[1], b[2], s[2]),
            At(c[1], c[2], s[3])>> :
            a, b, c \in (0 .. 4) \X (0 .. 4), s \in Shades} :
     First(t) /\ Area(t) # 0}
MCQuads ==
  {q \in {<<At(a[1], a[2], 96), At(b[1], b[2], 96),
            At(c[1], c[2], 96), At(d[1], d[2], 96)>> :
            a, b, c, d \in Grid \X Grid} : First(q) /\ Convex(Outline(q))}
MCPolygons == MCTriangles \cup MCQuads

MCEnds == {At(x, y, 0) : x \in {-1, 0, 1, 2, 5, 7}, y \in {0, 1, 3, 6}}
          \cup {At(x, y, 255) : x \in {0, 4, 7}, y \in {0, 2, 5}}

MCCorners == {0, 1, 3, 6} \X {0, 1, 2, 7}

MCMasks == {{<<1, 1>>, <<2, 3>>, <<6, 6>>, <<3, 0>>}}

Base ==
  [left |-> 0, right |-> 7, top |-> 0, bottom |-> 7, check |-> FALSE,
   mask |-> FALSE, dither |-> FALSE, blend |-> 1, flip |-> <<FALSE, FALSE>>,
   page |-> <<4, 4>>, window |-> <<3, 3>>]

MCSettings ==
  {Base, [Base EXCEPT !.left = 1, !.bottom = 2, !.check = TRUE, !.mask = TRUE,
                      !.blend = 2, !.dither = TRUE, !.flip = <<TRUE, TRUE>>]}

Plain == [gouraud |-> FALSE, textured |-> FALSE, raw |-> FALSE,
          translucent |-> TRUE]
MCShadings ==
  {Plain, [Plain EXCEPT !.textured = TRUE, !.raw = TRUE],
   [Plain EXCEPT !.gouraud = TRUE, !.translucent = FALSE]}
=============================================================================
