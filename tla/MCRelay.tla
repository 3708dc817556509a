------------------------------- MODULE MCRelay ------------------------------
(***************************************************************************)
(* Instances of Relay for TLC.  Endpoints laptop and desk belong to two    *)
(* tenants; session ids are interchangeable.                               *)
(***************************************************************************)
EXTENDS Relay, TLC

CONSTANTS laptop, desk, ann, bob

MCOwnerOf == (laptop :> ann) @@ (desk :> bob)

Interchangeable == Permutations(SessionId)
=============================================================================
