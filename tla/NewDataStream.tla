-------------------------- MODULE NewDataStream --------------------------
(***************************************************************************)
(* What NewDataReceiver promises: the new data of a package is one stream, *)
(* the new commands take it in the order of the transfer list, each of     *)
(* them exactly as much as it needs, and the update succeeds only when all *)
(* of them have been served.  It may fail at any point.                    *)
(***************************************************************************)
EXTENDS Integers

CONSTANTS
    K,          \* number of new commands
    Need,       \* units each of them needs
    StreamLen   \* units of the stream

VARIABLES
    taken,      \* units taken from the stream
    out,        \* the units each command has been given
    done,       \* commands that have been served
    given,      \* units the command whose turn it is has got
    outcome     \* "running", "success" or "failure"

svars == <<taken, out, done, given, outcome>>

SInit ==
    /\ taken = 0 /\ out = [j \in 1 .. K |-> {}]
    /\ done = 0 /\ given = 0 /\ outcome = "running"

\* The command whose turn it is gets the next units of the stream.
Deliver ==
    /\ outcome = "running" /\ done < K
    /\ \E n \in 1 .. StreamLen - taken :
         /\ given + n <= Need[done + 1]
         /\ given' = given + n
         /\ out' = [out EXCEPT ![done + 1] = @ \cup (taken + 1 .. taken + n)]
         /\ taken' = taken + n
    /\ UNCHANGED <<done, outcome>>

Served ==
    /\ outcome = "running" /\ done < K
    /\ given = Need[done + 1]
    /\ done' = done + 1 /\ given' = 0
    /\ UNCHANGED <<taken, out, outcome>>

Finish ==
    /\ outcome = "running"
    /\ \/ outcome' = "failure"
       \/ done = K /\ outcome' = "success"
    /\ UNCHANGED <<taken, out, done, given>>

SNext == Deliver \/ Served \/ Finish

StreamSpec == SInit /\ [][SNext]_svars /\ WF_svars(Finish)
=============================================================================
