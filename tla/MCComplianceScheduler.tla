----------------------- MODULE MCComplianceScheduler -----------------------
(***************************************************************************)
(* Small instances of ComplianceScheduler: the requests share a process,   *)
(* and its one connection, with the first instance.                        *)
(***************************************************************************)
EXTENDS ComplianceScheduler

CONSTANTS c1, c2, i1

OwnPool == [p \in Clients |-> IF p \in Requests \cup {i1} THEN {c1} ELSE {c2}]
=============================================================================
