--------------------------- MODULE MCMessageStore ---------------------------
(* Two ids, two conversations and three rows: enough for an id shared by   *)
(* two conversations, for a row inserted after the mark of its namesake    *)
(* and for a first row removed under a later one.                          *)
EXTENDS MessageStore, TLC

CONSTANTS id1, id2, alice, room, nick1, nick2

MCIds == {id1, id2}
MCJids == {alice, room}
MCTimes == {1}
MCSymmetry == Permutations({id1, id2}) \cup Permutations({alice, room})

=============================================================================
