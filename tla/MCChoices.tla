----------------------------- MODULE MCChoices ------------------------------
(***************************************************************************)
(* Instances of Choices for TLC: two threads, two agents and two projects. *)
(***************************************************************************)
EXTENDS Choices, TLC

CONSTANTS codex, claude, symma, site, large, deep

Says(state, seen, agents, roots) ==
    [state |-> state, seen |-> seen, agents |-> agents, roots |-> roots, modes |-> {codex}]

\* A laptop that lists a project, or none and one agent, or is closed beside a
\* desk with two projects.
Situations ==
    LET both == <<codex, claude>>
    IN {<<Says("ready", 1, both, <<symma>>)>>,
        <<Says("ready", 1, <<claude>>, <<>>)>>,
        <<Says("asleep", 2, both, <<symma>>), Says("ready", 1, both, <<site, symma>>)>>}

Own    == codex :> {large} @@ claude :> {deep}
Common == [a \in Agent |-> {large}]

Interchangeable == Permutations(Conv)
=============================================================================
