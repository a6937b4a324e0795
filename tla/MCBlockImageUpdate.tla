----------------------- MODULE MCBlockImageUpdate -----------------------
(***************************************************************************)
(* Transfer lists and initial images for model checking BlockImageUpdate.  *)
(***************************************************************************)
EXTENDS BlockImageUpdate, Sequences

\* Only whether a block holds what the source, the target or neither image
\* has there matters.
Old(S) == [b \in S |-> "old"]
New(S) == [b \in S |-> "new"]

Line(type, tgt, src, uses, id) ==
    [type |-> type, tgt |-> New(tgt), src |-> Old(src), uses |-> uses, id |-> id]

Lines(seq) == [k \in 0 .. Len(seq) - 1 |-> seq[k + 1]]
(***************************************************************************)
(* Every kind of command, stashes that are used once, and two commands     *)
(* whose source and target overlap.                                        *)
(***************************************************************************)
FullList == Lines(<<
    Line("new",   {0}, {}, {}, "a"),
    Line("stash", {}, {1}, {}, "a"),
    Line("move",  {1}, {2}, {}, "b"),
    Line("diff",  {2, 3}, {2, 3}, {"a"}, "c"),
    Line("free",  {}, {}, {}, "a"),
    Line("zero",  {4}, {}, {}, "a"),
    Line("new",   {5}, {}, {}, "a"),
    Line("erase", {6}, {}, {}, "a"),
    [Line("compute_hash_tree", {7}, {}, {}, "a") EXCEPT !.src = New({0, 1, 3})]
>>)

FullBlocks == 0 .. 7
FullSource == {Old(FullBlocks)}

(***************************************************************************)
(* No command overwrites its own source.  The hash tree covers block 6,    *)
(* which the list leaves as it is.                                         *)
(***************************************************************************)
DisjointList == Lines(<<
    Line("stash", {}, {1}, {}, "a"),
    Line("move",  {1}, {2}, {}, "b"),
    Line("diff",  {2, 3}, {4}, {"a"}, "c"),
    Line("free",  {}, {}, {}, "a"),
    Line("zero",  {4}, {}, {}, "a"),
    Line("new",   {0}, {}, {}, "a"),
    [Line("compute_hash_tree", {5}, {}, {}, "a") EXCEPT
        !.src = [b \in {0, 1, 3, 6} |-> IF b = 6 THEN "old" ELSE "new"]]
>>)

DisjointBlocks == 0 .. 6

\* The blocks the list reads hold anything.
DisjointAnything ==
    {[b \in DisjointBlocks |-> IF b \in {1, 2, 3, 4, 6} THEN f[b] ELSE "old"] :
        f \in [{1, 2, 3, 4, 6} -> {"old", "new", Garbage}]}

(***************************************************************************)
(* The list of GenerateTransferList in tests/unit/updater_test.cpp, range  *)
(* for range: stash "a" is freed before it is made, and freed again at the *)
(* end.                                                                    *)
(***************************************************************************)
TestList == Lines(<<
    Line("stash", {}, {1}, {}, "b"),
    Line("stash", {}, {2}, {}, "c"),
    Line("new",   {1, 2}, {}, {}, "a"),
    Line("zero",  {0}, {}, {}, "a"),
    Line("diff",  {3}, {3}, {"b", "c"}, "bdc"),
    Line("free",  {}, {}, {}, "b"),
    Line("free",  {}, {}, {}, "a"),
    Line("stash", {}, {5}, {}, "a"),
    Line("move",  {5}, {4}, {}, "e"),
    Line("diff",  {6}, {6}, {"a"}, "abcd"),
    Line("new",   {4}, {}, {}, "a"),
    Line("move",  {9}, {}, {"a"}, "a"),
    Line("free",  {}, {}, {}, "a")
>>)

TestBlocks == {0, 1, 2, 3, 4, 5, 6, 9}
TestSource == {Old(TestBlocks)}

NoStale == {}
=============================================================================
