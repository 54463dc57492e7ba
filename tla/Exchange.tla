------------------------------- MODULE Exchange -------------------------------
(***************************************************************************)
(* One exchange between three programs, each with a roster of its own: the *)
(* client leases a peer from the coordinator, checks the lease against its *)
(* own roster, seals its request and signs it; the coordinator redeems the *)
(* lease and relays the envelope; the peer admits it or refuses it.  The   *)
(* peer's clock and seen-set are those of Replay, the coordinator's slots  *)
(* those of LeasePool, and a message is an envelope under its request_id.  *)
(*                                                                         *)
(* There is one peer.  What sets the parties apart is what their rosters   *)
(* say of it, and the key and the roster it was last started with.         *)
(***************************************************************************)
EXTENDS Replay

CONSTANTS
    Rosters,    \* the versions of the roster that are about
    Keys,       \* encryption keys of the peer, a retired one among them
    Models,
    Entry,      \* Entry[n]: what version n says of the peer and of the sender
    Slots       \* max_concurrent

ASSUME RosterTyped ==
    /\ Rosters \subseteq Nat \ {0}
    /\ Entry \in [Rosters -> [key : Keys, model : Models, lists : BOOLEAN]]
ASSUME SlotsTyped == Slots \in Nat \ {0}

VARIABLES
    coordinator,    \* the roster it was started with
    peer,           \* the roster and the private key it was started with
    holder, used,   \* the coordinator's leases, as LeasePool sees them
    asked,          \* asked[v]: how far v's client is, and what it asks for
    relay,          \* relay[v]: how far the coordinator's relay of v is
    answered        \* the messages the peer has begun to answer (history)

window == <<clock, setback, ts, seen, expiry, accepted, first>>
pool == <<holder, used>>
exchange == <<window, coordinator, peer, pool, asked, relay, answered>>

ThePeer == "peer"
NoPeer == "none"

Pool == INSTANCE LeasePool WITH
            Requests <- Messages, Peers <- {ThePeer},
            MaxConcurrent <- [p \in {ThePeer} |-> Slots]

Idle == [at |-> "idle"]
Refused == [at |-> "refused"]

\* seal_request: to whom the request can be opened, and whether it is one that a peer
\* can parse.
Sealed(key, sound) == [at |-> "sealed", key |-> key, sound |-> sound]

-----------------------------------------------------------------------------
(* The client.                                                             *)

\* /v1/lease: the coordinator finds a free slot on a peer that serves the model
\* and discloses the peer's key, all by its own roster.
Lease(v, model, roster) ==
    /\ asked[v] = Idle
    /\ Entry[coordinator].lists
    /\ Entry[coordinator].model = model
    /\ holder' = [holder EXCEPT ![v] = ThePeer]
    /\ Pool!Reassign
    /\ asked' = [asked EXCEPT ![v] =
                    [at |-> "leased", model |-> model, roster |-> roster,
                     offered |-> Entry[coordinator].key]]
    /\ UNCHANGED <<window, coordinator, peer, relay, answered>>

\* _recipient: the lease agrees with the client's roster on the key and the model.
Recipient(v) ==
    /\ asked[v].offered = Entry[asked[v].roster].key
    /\ asked[v].model = Entry[asked[v].roster].model

\* The client seals to the key its roster names, and signs by its own clock.
Seal(v, date, sound) ==
    /\ asked[v].at = "leased"
    /\ Recipient(v)
    /\ Sign(v, date)
    /\ asked' = [asked EXCEPT ![v] = Sealed(Entry[asked[v].roster].key, sound)]
    /\ UNCHANGED <<coordinator, peer, pool, relay, answered>>

\* The client refuses the lease, which the coordinator does not learn.
Balk(v) ==
    /\ asked[v].at = "leased"
    /\ ~ Recipient(v)
    /\ asked' = [asked EXCEPT ![v] = Refused]
    /\ UNCHANGED <<window, coordinator, peer, pool, relay, answered>>

-----------------------------------------------------------------------------
(* The coordinator.                                                        *)

\* (mutant of Relay) leaves it to the peer to look at the date
RelayUndated(v) ==
    /\ asked[v].at = "sealed"
    /\ Entry[coordinator].lists
    /\ Pool!Redeem(v)
    /\ relay' = [relay EXCEPT ![v] = "open"]
    /\ UNCHANGED <<window, coordinator, peer, asked, answered>>

\* /v1/infer up to the relay.  A copy that fails one of the checks is answered with
\* an error and changes nothing.  The coordinator's clock agrees with the peer's.
Relay(v) ==
    /\ asked[v].at = "sealed"
    /\ Entry[coordinator].lists
    /\ Fresh(ts[v])
    /\ Pool!Redeem(v)
    /\ relay' = [relay EXCEPT ![v] = "open"]
    /\ UNCHANGED <<window, coordinator, peer, asked, answered>>

\* (mutant of EndRelay) the lease is left to its TTL
EndRelayKept(v) == relay' = [relay EXCEPT ![v] = "none"] /\ UNCHANGED pool

\* stream()'s finally clause, whether the lease is still there or not.
EndRelay(v) ==
    /\ relay' = [relay EXCEPT ![v] = "none"]
    /\ holder' = [holder EXCEPT ![v] = NoPeer]
    /\ Pool!Reassign

\* The lease is past its TTL and a sweep, or its own redemption, finds it.
Expire(v) ==
    /\ holder[v] = ThePeer
    /\ holder' = [holder EXCEPT ![v] = NoPeer]
    /\ Pool!Reassign
    /\ UNCHANGED <<window, coordinator, peer, asked, relay, answered>>

\* The answer is over, or the connection to the peer fails or times out.
Finish(v) ==
    /\ relay[v] # "none"
    /\ EndRelay(v)
    /\ UNCHANGED <<window, coordinator, peer, asked, answered>>

\* Leases and relays live in memory.
RestartCoordinator(roster) ==
    /\ coordinator' = roster
    /\ holder' = [v \in Messages |-> NoPeer]
    /\ used' = {}
    /\ relay' = [v \in Messages |-> "none"]
    /\ UNCHANGED <<window, peer, asked, answered>>

-----------------------------------------------------------------------------
(* The peer.                                                               *)

Listed == Entry[peer.roster].lists

\* unseal_request succeeds, and what it yields can be parsed.
Servable(v) == asked[v].key = peer.key /\ asked[v].sound

\* A genuine copy is refused: 401 for a sender the roster does not list, a date
\* outside the window or an id in the seen-set, 400 for what cannot be opened or
\* parsed.  The id is remembered before the envelope is opened.
RefuseEnvelope(v) ==
    \/ ~ Listed /\ UNCHANGED window
    \/ Listed /\ (RefuseStale(v) \/ Refuse(v))
    \/ Listed /\ Accept(v) /\ ~ Servable(v)

\* The engine is asked for an answer.
Admit(v) ==
    /\ Listed
    /\ Accept(v)
    /\ Servable(v)
    /\ answered' = answered \cup {v}

\* The relay's own copy arrives.
Infer(v) ==
    /\ relay[v] = "open"
    /\ \/ /\ Admit(v)
          /\ relay' = [relay EXCEPT ![v] = "serving"]
          /\ UNCHANGED pool
       \/ /\ RefuseEnvelope(v)
          /\ EndRelay(v)
          /\ UNCHANGED answered
    /\ UNCHANGED <<coordinator, peer, asked>>

\* Another copy of it reaches the peer, whoever sends it.
InferAgain(v) ==
    /\ asked[v].at = "sealed"
    /\ \/ Admit(v)
       \/ RefuseEnvelope(v) /\ UNCHANGED answered
    /\ UNCHANGED <<coordinator, peer, pool, asked, relay>>

\* (mutant of InferAltered) the id is remembered before the signature is checked
InferAlteredFirst(v) ==
    /\ asked[v].at = "sealed"
    /\ RefuseStale(v) \/ Refuse(v) \/ Accept(v)
    /\ UNCHANGED <<coordinator, peer, pool, asked, relay, answered>>

\* A copy whose signature does not verify: 401 before anything is remembered.
InferAltered(v) ==
    /\ asked[v].at = "sealed"
    /\ UNCHANGED exchange

\* The operator starts the peer with a roster and an identity.  The start compares
\* the engine's model with the roster's, but not the identity's key.
RestartPeer(roster, key) ==
    /\ Restart
    /\ peer' = [roster |-> roster, key |-> key]
    /\ UNCHANGED <<coordinator, pool, asked, relay, answered>>

-----------------------------------------------------------------------------
ExchangeInit ==
    /\ Init
    /\ coordinator \in Rosters
    /\ peer \in [roster : Rosters, key : Keys]
    /\ Pool!Init
    /\ asked = [v \in Messages |-> Idle]
    /\ relay = [v \in Messages |-> "none"]
    /\ answered = {}

ExchangeNext ==
    \/ \E v \in Messages :
        \/ \E model \in Models, roster \in Rosters : Lease(v, model, roster)
        \/ \E date \in -Drift..(MaxClock + Drift), sound \in BOOLEAN : Seal(v, date, sound)
        \/ Balk(v)
        \/ Relay(v) \/ Expire(v) \/ Finish(v)
        \/ Infer(v) \/ InferAgain(v) \/ InferAltered(v)
    \/ \E roster \in Rosters : RestartCoordinator(roster)
    \/ \E roster \in Rosters, key \in Keys : RestartPeer(roster, key)
    \/ (Tick \/ SetBack)
        /\ UNCHANGED <<coordinator, peer, pool, asked, relay, answered>>

ExchangeSpec == ExchangeInit /\ [][ExchangeNext]_exchange

-----------------------------------------------------------------------------
(* Properties.                                                             *)

Exchanges ==
    {Idle, Refused}
        \cup [at : {"leased"}, model : Models, roster : Rosters, offered : Keys]
        \cup [at : {"sealed"}, key : Keys, sound : BOOLEAN]

\* Every variable keeps its type, those of Replay included.
ExchangeTypeOK ==
    /\ TypeOK
    /\ coordinator \in Rosters
    /\ peer \in [roster : Rosters, key : Keys]
    /\ holder \in [Messages -> {ThePeer, NoPeer}] /\ used \in SUBSET Messages
    /\ asked \in [Messages -> Exchanges]
    /\ relay \in [Messages -> {"none", "open", "serving"}]
    /\ answered \in SUBSET Messages

\* The id goes into the seen-set before the request is opened, and still no request
\* is lost to it: what the peer would refuse as a replay it has begun to answer, or
\* it can never answer it as long as it runs.
NothingServableIsLost ==
    \A v \in seen \ answered : ~ Servable(v)

\* No relay ends and keeps its slot, and none runs on a lease that another copy could
\* still redeem: the leases in force that are marked as used are those with a relay,
\* through refusals, expiry in mid-relay and restarts.
SlotsFollowRelays == used = {v \in Messages : holder[v] = ThePeer /\ relay[v] # "none"}

\* An envelope that the coordinator lets through is admitted by a peer whose clock
\* agrees and whose roster and key are those the client knows: a client that is late
\* or repeats itself does not cost the peer a failed relay.
LetThroughIsWelcome ==
    [][\A v \in Messages \ answered :
          /\ relay[v] = "none" /\ relay'[v] = "open"
          /\ Listed /\ Servable(v)
          => Fresh(ts[v]) /\ v \notin Kept]_exchange
==============================================================================
