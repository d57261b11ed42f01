--------------------------- MODULE MCClientReport ---------------------------
(***************************************************************************)
(* TLC instances of ClientReport and of FwAccounting, which it extends:    *)
(* addresses none of which is a part of another, and 192.168.1.1 beside    *)
(* 192.168.1.10.                                                           *)
(***************************************************************************)
EXTENDS ClientReport, TLC

CONSTANTS ip1, ip10

\* Without Prefix no address is different from the others.
Symmetry == Permutations(Ips)

Distinct == [ip \in Ips |-> {ip}]

Prefix == [ip \in Ips |-> IF ip = ip1 THEN {ip1, ip10} ELSE {ip}]
=============================================================================
