----------------------------- MODULE MCSessions ------------------------------
(* Two tabs and two sign-ins: a session each, or one shared by broadcast.  *)
EXTENDS Sessions
=============================================================================
