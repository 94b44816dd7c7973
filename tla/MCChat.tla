------------------------------- MODULE MCChat ------------------------------
(* Model values for TLC: two companies with labels that match, and a third *)
(* that one of them is taken for when it is asked for.                     *)
EXTENDS Chat

CONSTANTS a, b, c

TwoAlike == {{a, b}}
OneMistaken == {<<a, b>>, <<b, c>>}
=============================================================================
