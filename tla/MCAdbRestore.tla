-------------------------- MODULE MCAdbRestore --------------------------
(* Instances of AdbRestore for model checking. *)
EXTENDS AdbRestore

\* A partition with padding, one of three chunks, one that fills its chunk.
MCSize == <<1, 7, 3>>
=============================================================================
