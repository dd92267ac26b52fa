------------------------------ MODULE MCSeries ------------------------------
(* The company has no document yet, or b1 has numbered some. *)
EXTENDS DocumentSeries

CONSTANTS b1, b2

TwoBranches == [t \in Requests |-> IF t = 3 THEN b2 ELSE b1]
NewOrOneBranch == {{}, {b1}}
BothBranches == {{b1, b2}}
=============================================================================
