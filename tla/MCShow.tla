------------------------------ MODULE MCShow ------------------------------
(***************************************************************************)
(* Model-checking instance of Show: a 4-line terminal (3 body rows), up to *)
(* 6 rows drawn, so the body scrolls; a pad 12 columns wider than the      *)
(* terminal, so KEY_RIGHT scrolls twice.                                   *)
(***************************************************************************)
EXTENDS Show

MCLINES == 4
MCCOLS == 10
MCCOLS_PAD == 22
MCCOLS_TO_SORT == 7
MCRATE_RX == 4
MCMaxRows == 6

\* scroll_y has no upper bound in show.c: cut the state space there
MaxScrollY == 6
ScrollBound == scroll_y <= MaxScrollY
=============================================================================
