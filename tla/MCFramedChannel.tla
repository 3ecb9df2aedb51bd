-------------------------- MODULE MCFramedChannel --------------------------
\* FramedChannel for TLC.
EXTENDS FramedChannel

F(i, d, s) == [id |-> i, defect |-> d, size |-> s]

\* Frames of a peer of the same version: whole, empty, corrupted, too large.
MCFrames == {F(1, "none", 2), F(2, "none", 0), F(3, "checksum", 1),
             F(4, "magic", 1), F(5, "none", 3)}

\* A peer of a later version, which knows one type of frame more.
MCNewerFrames == {F(1, "none", 2), F(2, "type", 1)}
=============================================================================
