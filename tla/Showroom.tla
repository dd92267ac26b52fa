------------------------------ MODULE Showroom ------------------------------
(***************************************************************************)
(* The POS counter and the approval counter over the same pieces: every    *)
(* request of either may run between any two steps of the others.          *)
(***************************************************************************)
EXTENDS Approvals

ShowroomNext ==
    \/ ApprovalNext
    \/ SalesNext /\ UNCHANGED approval

ShowroomSpec == ApprovalInit /\ [][ShowroomNext]_approvalVars

-----------------------------------------------------------------------------
(* The counters implement Custody: a piece is held by the document of its  *)
(* last movement unless it is on the shelf.                                *)

HolderOf(i) == IF stock[i] = "AVAILABLE" THEN None ELSE LastMovement(i).doc

C == INSTANCE Custody WITH Shop   <- None,
                           holder <- [i \in Items |-> HolderOf(i)]

\* However requests interleave, pieces move by whole documents, and a sold
\* piece stays sold.
PiecesMoveByDocument == C!CustodySpec
=============================================================================
