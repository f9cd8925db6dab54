--------------------------- MODULE OrderContract ---------------------------
(***************************************************************************)
(* The part of the Kaffebar contract that every implementation shares: the *)
(* order identifiers, the three statuses and what is stored of an order.   *)
(* Names, sizes and milk never influence control and are left out.         *)
(***************************************************************************)
EXTENDS Naturals

CONSTANTS Orders,   \* every order identifier that can come into existence
          Absent    \* "no such order"; as a status, that of an order not yet created

Status == {"PENDING", "BREWING", "READY"}

Version == [status : Status, createdAt : Nat, updatedAt : Nat]

ASSUME AbsentAssumption == Absent \notin Status /\ Absent \notin Version
=============================================================================
