------------------------------- MODULE MCTicket ------------------------------
(***************************************************************************)
(* Two providers, of which one has the skill the job asks for, both in an  *)
(* area that covers the address.                                           *)
(***************************************************************************)
EXTENDS Ticket

CONSTANTS p1, p2

To(type, zone, size) == [type |-> type, zone |-> zone, size |-> size]

MCSetting == {To("SEND_TO_ALL", "NONE", 0), To("BATCH_WISE", "ALL", 2),
              To("BATCH_WISE", "NONE", 0), To("BATCH_WISE", "POSTAL_CODE", 1)}
MCServing == [zone \in {"POLYGON", "POSTAL_CODE"} |-> {p1, p2}]
MCSkill   == [p \in Provider |-> IF p = p1 THEN {0} ELSE {1}]
==============================================================================
