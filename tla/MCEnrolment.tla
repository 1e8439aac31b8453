--------------------------- MODULE MCEnrolment ---------------------------
(* Enrolment on small sets; see the .cfg files.                            *)
EXTENDS Enrolment
=============================================================================
