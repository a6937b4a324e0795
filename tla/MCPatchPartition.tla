------------------------- MODULE MCPatchPartition -------------------------
\* Instances of PatchPartition.
EXTENDS PatchPartition

\* An update of two partitions in place.
UpdateScript == << [kind |-> "patch", target |-> "boot", source |-> "boot"],
                   [kind |-> "patch", target |-> "dtbo", source |-> "dtbo"] >>
UpdateDevices == {"boot", "dtbo"}

\* applypatch --patch recovery from boot, then --flash dtbo from a file.
ToolRuns == << [kind |-> "patch", target |-> "recovery", source |-> "boot"],
               [kind |-> "flash", target |-> "dtbo", source |-> "image"] >>
ToolDevices == {"recovery", "boot", "dtbo", "image"}

\* /cache with two files and four logs; the first file, the newest and the oldest
\* log are open.  Maybe there is a backup an abandoned update has left: part of
\* one, one of the same size, or one of a larger partition.
SomeFiles == {<<"cache", 1>>, <<"cache", 2>>, <<"log", 0>>, <<"log", 1>>, <<"log", 2>>, <<"log", 3>>}
OpenFiles == {<<"cache", 1>>, <<"log", 0>>, <<"log", 3>>}
SomeLeftovers == {0, 2, ImageSize, ImageSize + 1}

NoFiles == {}
NoLeftover == {0}
=============================================================================
