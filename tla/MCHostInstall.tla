---------------------------- MODULE MCHostInstall ----------------------------
(* Instances of HostInstall for TLC. *)
EXTENDS HostInstall

MCEpochs == 1..3
MCEntries == 1..3
MCDirs == {1, 2}

\* A directory of every epoch, one that goes and comes back, and a file that comes.
MCContents == <<{1, 2}, {1, 3}, {1, 2, 3}>>
=============================================================================
