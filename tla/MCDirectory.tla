---------------------------- MODULE MCDirectory ----------------------------
(* Instances of Directory: "BEAD" and "bead" are the same alias, and "bead" *)
(* begins the ID of p2, whichever peer it is given to as an alias.          *)
EXTENDS Directory

CONSTANTS p1, p2

MCFold     == [w \in Word |-> IF w = "BEAD" THEN "bead" ELSE w]
MCPrefixed == [w \in Word |-> IF w = "bead" THEN {p2} ELSE {}]
============================================================================
