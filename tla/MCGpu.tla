------------------------------- MODULE MCGpu -------------------------------
(***************************************************************************)
(* A GPU small enough to check: VRAM of two pixels by two, and one command *)
(* of each kind that reads its words or leaves the port differently.       *)
(***************************************************************************)
EXTENDS Gpu

Plainly(f) == [Bare EXCEPT !.family = f]

MCCommands ==
  {Plainly("clear"), Plainly("drawMode"), Plainly("load"), Plainly("store"),
   [Bare EXCEPT !.family = "polygon", !.textured = TRUE, !.shaded = TRUE],
   [Bare EXCEPT !.family = "rectangle", !.textured = TRUE, !.sized = TRUE],
   [Bare EXCEPT !.family = "line", !.shaded = TRUE, !.more = TRUE]}

MCSizes == {<<1, 1>>, <<0, 0>>}

MCCosts ==
  [f \in Family |-> CASE f \in {"polygon", "line"} -> {0, 2}
                      [] f \in {"rectangle", "fill", "copy", "store"} -> {1}
                      [] OTHER -> {0}]
=============================================================================
