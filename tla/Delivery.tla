------------------------------ MODULE Delivery ------------------------------
(***************************************************************************)
(* What the client promises of the messages its user sends: how far each   *)
(* has really come, and what is shown of it.  What is shown follows the    *)
(* truth, at any distance, and never runs ahead of it; a message the user  *)
(* removed comes back only when the server has it to send.                 *)
(***************************************************************************)
EXTENDS Integers

CONSTANT Messages

VARIABLE mail   \* of each message, how far it has come and what is shown

(* [reached |-> ..., shown |-> ...]: reached is 0 for a message that was   *)
(* sent, 1 for one at the server, 2 for one a peer received, 3 for one it  *)
(* displayed; shown is the state of the row, as MessageController numbers  *)
(* it.                                                                     *)
NotSent == -1
Absent == -2    \* there is no row

Init == mail = [m \in Messages |-> [reached |-> NotSent, shown |-> Absent]]

(* What a step may do with a message, from a to b.                         *)
Send(a, b) == a = [reached |-> NotSent, shown |-> Absent] /\ b = [reached |-> 0, shown |-> 0]
Advance(a, b) == /\ a.reached >= 0 /\ b.reached \in a.reached + 1 .. 3
                 /\ b.shown = a.shown
Learn(a, b) == /\ a.shown # Absent /\ b.shown > a.shown /\ b.shown \in 1 .. a.reached
               /\ b.reached = a.reached
Remove(a, b) == b = [a EXCEPT !.shown = Absent]

(* The echo from a room counts as received, and is confirmed (-1).         *)
Confirm(a, b) == a.reached >= 1 /\ a.shown = 0 /\ b = [a EXCEPT !.shown = -1]
ComeBack(a, b) == /\ a.reached >= 1 /\ a.shown = Absent
                  /\ b.shown \in {0, -1} /\ b.reached = a.reached

Step(a, b) ==
    \/ b = a
    \/ Send(a, b)
    \/ Advance(a, b)
    \/ Learn(a, b)
    \/ Remove(a, b)
    \/ Confirm(a, b)
    \/ ComeBack(a, b)

Next == /\ mail' = [m \in Messages |-> mail'[m]]
        /\ \A m \in Messages : Step(mail[m], mail'[m])

Spec == Init /\ [][Next]_mail

=============================================================================
