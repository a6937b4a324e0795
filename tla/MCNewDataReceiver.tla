----------------------- MODULE MCNewDataReceiver -----------------------
(* Instances of NewDataReceiver for model checking. *)
EXTENDS NewDataReceiver

\* Three commands, one of them larger than a piece of the stream.
MCNeed == [j \in 1 .. K |-> IF j = 2 THEN 3 ELSE 1]
=============================================================================
