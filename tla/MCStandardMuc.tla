---------------------------- MODULE MCStandardMuc ----------------------------
(***************************************************************************)
(* Instances of StandardMuc for TLC: the clients, and input files with an  *)
(* id alternating or twice in a row.                                       *)
(***************************************************************************)
EXTENDS StandardMucRefinement

CONSTANTS alice, bob, carol

InputABA == << alice, bob, alice >>
InputAABC == << alice, alice, bob, carol >>
=============================================================================
