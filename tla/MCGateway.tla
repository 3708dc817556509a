------------------------------ MODULE MCGateway -----------------------------
(***************************************************************************)
(* Instances of Gateway for TLC: one tenant's endpoint, which another      *)
(* tenant's clients contend for.                                           *)
(***************************************************************************)
EXTENDS Gateway, TLC

CONSTANTS laptop, desk, ann, bob

MCOwnerOf == [e \in Endpoint |-> IF e = laptop THEN ann ELSE bob]

Interchangeable == Permutations(SessionId)

\* The state that decides a behaviour here: neither the history of lines,
\* goodbyes and kept sessions, nor how an attachment will have ended.
Presence == [e \in Endpoint |->
    IF endpoints[e] = None THEN None
    ELSE [sessions |-> endpoints[e].sessions, online |-> endpoints[e].online,
          maxSessions |-> endpoints[e].maxSessions]]
WithoutHistory == <<Presence, sessions, attachments, stray, endpointStreams,
                    sessionStreams, sessionStreamOwners, rows, aged, calls, journals, restarts>>
WithServed == <<WithoutHistory, served, used>>
=============================================================================
