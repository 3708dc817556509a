----------------------------- MODULE MCMembers ------------------------------
(* Members of one workspace, their machines and a removal. *)
EXTENDS Members
=============================================================================
