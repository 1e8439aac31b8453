---------------------------- MODULE MCAuditUpkeep ----------------------------
(* One concern, one backup pass, a cap of one row an arm: two rows of a    *)
(* type past their time are one more than a sweep may delete.              *)
EXTENDS AuditUpkeep
=============================================================================
