------------------------------- MODULE MCTurns ------------------------------
(***************************************************************************)
(* Instances of Turns for TLC: messages of one DM thread, one of them sent *)
(* twice, and mentions in one channel thread with a reply under an opening.*)
(***************************************************************************)
EXTENDS Turns, TLC

CONSTANTS d1, d2, d3, d4,   \* deliveries
          ask, more,        \* messages
          ping, again,      \* mentions
          thread, r1, r2

ThreadsEventOf == d1 :> ask @@ d2 :> ask @@ d3 :> more
MentionsEventOf == d1 :> ping @@ d2 :> ping @@ d3 :> again @@ d4 :> ask

SourcesOf == [e \in Mention |-> thread]
RootsOf == [e \in Event \ Mention |-> r1]
=============================================================================
