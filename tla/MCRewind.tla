------------------------------- MODULE MCRewind -------------------------------
EXTENDS Rewind

\* Three snapshots of one length.
OneLength == [length : {2}, bits : {{}, {1}, {1, 2}}]

\* Two of one length, one of another, and an engine that keeps no state.
SomeLengths == [length : {2}, bits : {{}, {1}}] \union [length : {0, 1}, bits : {{}}]
===============================================================================
