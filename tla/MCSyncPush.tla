----------------------------- MODULE MCSyncPush -----------------------------
(* Instances of SyncPush for TLC. *)
EXTENDS SyncPush, TLC

CONSTANTS r1, r2, r3, k1, c1, c2, s1, n1, n2, A, B, p1, p2

Entities == {c1, c2, s1}
Kinds == [e \in Entities |-> IF e = s1 THEN "subscription" ELSE "category"]

Upsert(e, name, ref, base) == [op |-> "upsert", ent |-> e, name |-> name, ref |-> ref, base |-> base]
Delete(e) == [op |-> "delete", ent |-> e, name |-> NoName, ref |-> NoEntity, base |-> 0]

\* Household A has a category and a subscription that refers to it, B a category.
Rows == [e \in Entities |->
  CASE e = c1 -> [home |-> A, name |-> n1, ref |-> NoEntity, ver |-> 1, born |-> 0]
    [] e = c2 -> [home |-> B, name |-> n1, ref |-> NoEntity, ver |-> 1, born |-> 0]
    [] e = s1 -> [home |-> A, name |-> n1, ref |-> c1, ver |-> 1, born |-> 0]]

\* r1 makes s1 refer to nothing and writes c1, which may be deleted by then; r2 makes
\* s1 refer to c1 again, then deletes c1, which may be refused; the sender of r3 uses
\* the identifier of c1 in B, with no name, with the name of c2, with another one.
Requests == {r1, r2, r3}
Bodies == [r \in Requests |->
  CASE r = r1 -> <<Upsert(s1, n2, NoEntity, 1), Upsert(c1, n1, NoEntity, 1)>>
    [] r = r2 -> <<Upsert(s1, n1, c1, 1), Delete(c1)>>
    [] r = r3 -> <<Upsert(c1, NoName, NoEntity, 0), Upsert(c1, n1, NoEntity, 0),
                   Upsert(c1, n2, NoEntity, 0)>>]
Slots == [r \in Requests |-> IF r = r1 THEN k1 ELSE NoSlot]
Homes == [r \in Requests |-> IF r = r3 THEN B ELSE A]
FirstAgain == [r \in Requests |-> IF r = r1 THEN 2 ELSE 1]

Results == UNION {[1..n -> Status] : n \in 0..3}

HandlerSymmetry == Permutations({p1, p2})
=============================================================================
