--------------------------- MODULE MCAdbBackup ---------------------------
(* Instances of AdbBackup for model checking. *)
EXTENDS AdbBackup

\* Compressed tars that end short of a structure, and between them an image
\* that needs a second chunk. The last one fits whole into the read of the
\* loop after the TWEOF of the image, which may then take it for the image's.
MCFiles == << [kind |-> "TWFN", compressed |-> TRUE, size |-> 3],
              [kind |-> "TWIMG", compressed |-> FALSE, size |-> 6],
              [kind |-> "TWFN", compressed |-> TRUE, size |-> 2] >>

=============================================================================
