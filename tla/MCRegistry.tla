----------------------------- MODULE MCRegistry -----------------------------
(* An instance of Registry: a group that two hosts may claim and a device    *)
(* that one of them is.                                                      *)
EXTENDS Registry

CONSTANTS h1, h2, g, p

MCAddresses == [u \in {g, p} |-> IF u = g THEN {h1, h2} ELSE {h1}]
=============================================================================
