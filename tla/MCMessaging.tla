---------------------------- MODULE MCMessaging -----------------------------
(* Instances of Messaging: a contact and a room, messages the user sends,  *)
(* messages that others and the user's other client send, and two seconds, *)
(* so that two messages may or may not share one.                          *)
EXTENDS Messaging, TLC

CONSTANTS own1, own2, peer1, peer2, carbon1, alice, room, nick1

MCIds == OwnIds \cup PeerIds \cup CarbonIds
MCTimes == {1, 2}
OneSecond == {1}
MCFromAlice == [id \in PeerIds |-> alice]
MCFromBoth == [id \in PeerIds |-> IF id = peer1 THEN alice ELSE room]
MCOwnSymmetry == Permutations({own1, own2})

=============================================================================
