------------------------------ MODULE MCSystem ------------------------------
(***************************************************************************)
(* An instance of System for TLC: two sessions of one client on a companion*)
(* that takes one or two.                                                  *)
(***************************************************************************)
EXTENDS System, TLC

Interchangeable == Permutations(SessionId)

\* The state that decides a behaviour: neither the lines of the latest step nor
\* how an attachment ended.
Presence == [e \in DOMAIN endpoints |->
    IF endpoints[e] = None THEN None
    ELSE [sessions |-> endpoints[e].sessions, online |-> endpoints[e].online]]
Deciding == <<Presence, sessions, attachments, stray, companion, gateway, client, failures>>
=============================================================================
