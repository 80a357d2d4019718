---------------------------- MODULE MessageLife -----------------------------
(***************************************************************************)
(* What the store promises of one message of one conversation, as the      *)
(* comment above MessageController::setMessageStateOfId words it: "valid   *)
(* state changes: DEFAULT (0) -> DISPLAYED_CONFIRMED (-1),                 *)
(* UPLOADING_ATTACHMENT -> ANY STATE or new state is bigger then current   *)
(* one".  A message enters a conversation in state DEFAULT, only once at a *)
(* time, and may be removed.                                               *)
(***************************************************************************)
EXTENDS Integers

CONSTANTS Ids, Jids

VARIABLE status     \* status[id, jid]: the state shown for the message, or Absent

Absent == -2
Messages == Ids \X Jids

Init == status = [m \in Messages |-> Absent]

(* The comment's three cases: 0 is DEFAULT, -1 DISPLAYED_CONFIRMED, 4      *)
(* UPLOADING_ATTACHMENT.                                                   *)
ValidChange(current, new) ==
    /\ current # Absent /\ new # Absent
    /\ \/ current = 0 /\ new = -1
       \/ current = 4
       \/ new > current

Change(current, new) ==
    \/ new = current
    \/ current = Absent /\ new = 0
    \/ new = Absent
    \/ ValidChange(current, new)

Next == /\ status' = [m \in Messages |-> status'[m]]
        /\ \A m \in Messages : Change(status[m], status'[m])

Spec == Init /\ [][Next]_status

=============================================================================
