------------------------------- MODULE Broker -------------------------------
(***************************************************************************)
(* What the pairing relay promises, with nothing of how it keeps track of  *)
(* it: sessions between one client and one endpoint, each live from its    *)
(* accepted open until the client is told that it ended.  Resume timers,   *)
(* attachments, generations and presence do not appear here; Relay is      *)
(* shown to implement this module (Relay!BrokerSpec).                      *)
(***************************************************************************)
CONSTANTS Endpoint, SessionId, Owner, RunId, OwnerOf, None

VARIABLES live,   \* who a session id currently joins, or None
          sent    \* the lines handed to the peers by the latest step

vars == <<live, sent>>

Pairing == [run: RunId, endpoint: Endpoint, owner: Owner]

ToClient(s, kind) == [to |-> s, kind |-> kind, session |-> s]
ToEndpoint(e, kind, s) == [to |-> e, kind |-> kind, session |-> s]

Init == /\ live = [s \in SessionId |-> None]
        /\ sent = {}

\* A free id is paired with an endpoint of the caller, which gets the open.
Accept(s, p) == /\ live[s] = None
                /\ p.owner = OwnerOf[p.endpoint]
                /\ live' = [live EXCEPT ![s] = p]
                /\ sent' = {ToEndpoint(p.endpoint, "open", s)}

\* Sessions end, all of one endpoint at once when it comes back without them.
\* Each client hears of its end in the very step that ends its session.
Finish(S) == /\ S # {}
             /\ \A s \in S : live[s] # None
             /\ live' = [s \in SessionId |-> IF s \in S THEN None ELSE live[s]]
             /\ \A s \in S : \E kind \in {"close", "refused"} :
                    ToClient(s, kind) \in sent'
             /\ \A m \in sent' : /\ m.kind \in {"close", "refused"}
                                  /\ (m.to \in SessionId => m.session \in S)
                                  /\ (m.to \in Endpoint => live'[m.session] = None)

\* A line crosses a live session, between its two peers and to nobody else.
Carry(s) == /\ live[s] # None
            /\ UNCHANGED live
            /\ \/ sent' = {ToClient(s, "frame")}
               \/ sent' = {ToClient(s, "opened")}
               \/ sent' = {ToEndpoint(live[s].endpoint, "frame", s)}

\* An open that is turned down pairs nobody; an endpoint is told of sessions
\* it still believes in.
TurnAway == /\ UNCHANGED live
            /\ \/ \E s \in SessionId : sent' = {ToClient(s, "refused")}
               \/ \E e \in Endpoint : \E S \in SUBSET {s \in SessionId : live[s] = None} :
                      sent' = {ToEndpoint(e, "close", s) : s \in S}

\* Peers come and go, and lines that no session accounts for are dropped.
Quiet == sent' = {} /\ UNCHANGED live

Next == \/ Quiet
        \/ TurnAway
        \/ \E s \in SessionId : Carry(s)
        \/ \E s \in SessionId, p \in Pairing : Accept(s, p)
        \/ \E S \in SUBSET SessionId : Finish(S)

Spec == Init /\ [][Next]_vars

\* A broker in a process that may start over: every session is gone with it, and
\* nobody is told.
SpecWithRestarts == Init /\ [][Next \/ Init']_vars
=============================================================================
