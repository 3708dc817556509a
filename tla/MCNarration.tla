----------------------------- MODULE MCNarration ----------------------------
(***************************************************************************)
(* An instance of Narration for TLC: two turns under one budget, which has *)
(* room for the first step of one, with its cleanup, in a minute.          *)
(***************************************************************************)
EXTENDS Narration, TLC

CONSTANTS t1, t2

Interchangeable == Permutations(Turn)

\* Of a turn that is over, what the invariants say of it.
Deciding ==
    <<[t \in Turn |->
          IF Is(t, {"settled"}) /\ turns[t].queue = <<>>
          THEN [ack |-> turns[t].ack, card |-> turns[t].card, lost |-> turns[t].lost,
                route |-> turns[t].route, honest |-> turns[t].label => turns[t].left]
          ELSE turns[t]], now, budget>>
=============================================================================
