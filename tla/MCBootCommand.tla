---------------------------- MODULE MCBootCommand ---------------------------
EXTENDS BootCommand

MCDisk == 1..4

(* Two fragments out of order, more blocks than the window, and a package  *)
(* with one range, whose map is shorter.                                   *)
MCLayouts == {<<3, 4, 1>>, <<2, 3>>}
=============================================================================
