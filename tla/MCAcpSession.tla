---------------------------- MODULE MCAcpSession ----------------------------
(***************************************************************************)
(* Instances of AcpSession for TLC: the calls the clients make, on agents  *)
(* that serve modes and models in each of the ways there are.              *)
(***************************************************************************)
EXTENDS AcpSession, TLC

\* A member's call through a companion, and its variations.
Member == [resume |-> TRUE, mode |-> "read-only", requirePlan |-> FALSE, upstream |-> TRUE,
           candidates |-> <<>>, model |-> "big",
           load |-> TRUE, gated |-> FALSE, methods |-> TRUE,
           modesAs |-> "modes", modes |-> {"read-only", "full"},
           modelsAs |-> "roster", models |-> {"big", "small"}, ids |-> {"m1", None}]

\* A review of an agent whose sandbox is plan mode, on this machine.
Review == [Member EXCEPT !.resume = FALSE, !.mode = None, !.requirePlan = TRUE,
                         !.upstream = FALSE, !.candidates = <<"gone", "small">>,
                         !.modesAs = "option", !.modes = {"plan", "full"},
                         !.modelsAs = "option", !.ids = {None}]

Calls == {Member,
          [Member EXCEPT !.gated = TRUE, !.ids = {"m1", "m2"}],
          [Member EXCEPT !.gated = TRUE, !.methods = FALSE],
          [Member EXCEPT !.mode = "full", !.load = FALSE, !.models = {"small"}],
          [Member EXCEPT !.mode = "gone"],
          [Member EXCEPT !.mode = "full", !.requirePlan = TRUE, !.load = FALSE],
          [Member EXCEPT !.mode = None, !.modes = {"plan", "full"}],
          Review,
          [Review EXCEPT !.upstream = TRUE, !.resume = TRUE],
          [Review EXCEPT !.modesAs = "modes", !.candidates = <<>>],
          [Review EXCEPT !.modesAs = "none", !.modes = {}, !.candidates = <<"gone">>],
          [Review EXCEPT !.requirePlan = FALSE],
          [Review EXCEPT !.requirePlan = FALSE, !.modesAs = "none", !.modes = {}]}

Asks == {[kind |-> "switch-mode", mcp |-> FALSE, options |-> {"allow_once", "reject_once"}],
         [kind |-> "edit", mcp |-> FALSE, options |-> {"allow_always", "reject_always"}],
         [kind |-> "read", mcp |-> TRUE, options |-> {"allow_once"}]}

\* For LateReplay, which the call below is enough to see at work.
Late == {[Member EXCEPT !.mode = "full"]}
=============================================================================
