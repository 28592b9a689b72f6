------------------------------ MODULE Replica ------------------------------
(* What the change feed promises one device: the entities of the server move *)
(* from version to version, the device acknowledges each of them forwards    *)
(* only, and it comes to have them all.  A change that the feed cannot show  *)
(* leads its entity astray, and nothing more is promised of that entity      *)
(* until the device starts from nothing.                                     *)
EXTENDS Naturals

CONSTANTS
  Entities,      \* what the household owns
  NoRow,         \* the row of an entity that does not exist
  MaxVersion     \* bound on the versions of an entity

VARIABLES
  version,       \* [Entities -> Nat]: how many changes each entity has had
  rows,          \* [Entities -> row]: what the server holds of them
  acknowledged,  \* [Entities -> Nat]: the version the device has for good
  astray         \* the entities whose changes the feed may hide

replicaVars == <<version, rows, acknowledged, astray>>

Init ==
  /\ version \in [Entities -> 0 .. MaxVersion]
  /\ acknowledged = [e \in Entities |-> 0]
  /\ astray = {}

(* The server changes an entity; when the change is out of place in the feed *)
(* the entity goes astray.                                                   *)
Change(e) ==
  /\ version[e] < MaxVersion
  /\ version' = [version EXCEPT ![e] = @ + 1]
  /\ rows' = [rows EXCEPT ![e] = rows'[e]]
  /\ astray' \in {astray, astray \union {e}}
  /\ UNCHANGED acknowledged

(* The server forgets deletions that the device has not seen. *)
Forget ==
  /\ astray' \in {astray \union gone : gone \in SUBSET {e \in Entities : rows[e] = NoRow}}
  /\ UNCHANGED <<version, rows, acknowledged>>

(* The device acknowledges versions the server has reached, none older than  *)
(* what it had.                                                              *)
Advance ==
  /\ acknowledged' \in [Entities -> 0 .. MaxVersion]
  /\ \A e \in Entities \ astray : acknowledged'[e] \in acknowledged[e] .. version[e]
  /\ UNCHANGED <<version, rows, astray>>

(* The device starts from nothing: entities may find their way again.        *)
Reset ==
  /\ acknowledged' = [e \in Entities |-> 0]
  /\ astray' \in SUBSET astray
  /\ UNCHANGED <<version, rows>>

Next == (\E e \in Entities : Change(e)) \/ Forget \/ Advance \/ Reset

(* An entity the device never had may be gone without a trace.               *)
Caught ==
  \A e \in Entities \ astray :
    acknowledged[e] = version[e] \/ (acknowledged[e] = 0 /\ rows[e] = NoRow)

CatchUp == Advance /\ ~Caught /\ Caught'

Spec == Init /\ [][Next]_replicaVars /\ WF_replicaVars(CatchUp)
=============================================================================
