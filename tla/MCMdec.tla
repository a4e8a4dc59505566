------------------------------- MODULE MCMdec -------------------------------
(***************************************************************************)
(* A decoder small enough to check: blocks of three coefficients, pictures *)
(* of one block or of two, a few words to a macroblock.                    *)
(***************************************************************************)
EXTENDS Mdec

MCWords == [d \in Depths |-> IF d = "colour" THEN 2 ELSE 1]
=============================================================================
