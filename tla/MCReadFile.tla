----------------------------- MODULE MCReadFile -----------------------------
(* An instance of ReadFile for TLC.  The bytes of a file are their own      *)
(* positions, so that a byte out of place, lost or read twice shows.        *)
EXTENDS ReadFile

CONSTANT MaxFile    \* the longest file

MCByte == 0 .. MaxFile
MCFiles == {[i \in 1 .. n |-> i] : n \in 0 .. MaxFile}
=============================================================================
