---------------------------- MODULE MCSyncReplay ----------------------------
(***************************************************************************)
(* One device, alone, pushes one batch and pushes it again without an      *)
(* Idempotency-Key, as the web client does: is the final state the same?   *)
(***************************************************************************)
EXTENDS SyncPush

CONSTANTS p1, r1, c1, s1, n1, A

VARIABLE first   \* the contents when the batch was first answered, and whether it was

Entities == {c1, s1}
Kinds == [e \in Entities |-> IF e = s1 THEN "subscription" ELSE "category"]
Rows == [e \in Entities |-> [home |-> A, name |-> n1, ver |-> 1, born |-> 0,
                             ref |-> IF e = s1 THEN c1 ELSE NoEntity]]

\* Offline, the user deletes a category that is in use, then the subscription that uses it.
Delete(e) == [op |-> "delete", ent |-> e, name |-> NoName, ref |-> NoEntity, base |-> 0]
Bodies == [r \in {r1} |-> <<Delete(c1), Delete(s1)>>]
NoKeys == [r \in {r1} |-> NoSlot]
Homes == [r \in {r1} |-> A]
Twice == [r \in {r1} |-> 2]
Results == [1..2 -> Status]

Contents == [e \in Entity |-> <<rows[e].home, rows[e].name, rows[e].ref>>]

ReplayInit == PushInit /\ first = <<FALSE, Contents>>

ReplayNext ==
  /\ PushNext
  /\ first' = IF ~first[1] /\ Respond(p1) THEN <<TRUE, Contents>> ELSE first

ReplaySpec == ReplayInit /\ [][ReplayNext]_<<allVars, first>>

\* REQ-SYN-004: pushed, then replayed identically after a cut, a batch leads to the
\* same final state as when it is sent once.
SameFinalState == first[1] /\ Working(p1, "respond") => Contents = first[2]
=============================================================================
