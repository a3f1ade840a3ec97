------------------------------ MODULE QriNode ------------------------------
(***************************************************************************)
(* A qri p2p node's peer connections (the p2p code of                     *)
(* src/repo/mem_repo_test.go: ConnectToPeer, DisconnectFromPeer,          *)
(* peerConnectionParamsToPeerInfo, getPeerInfo, Peers,                    *)
(* ClosestConnectedQriPeers).                                            *)
(*                                                                         *)
(* Callers run ConnectToPeer and DisconnectFromPeer concurrently with the *)
(* network: remote peers open connections to the node and drop them at   *)
(* any time.  The host's connection list (Network().Conns()) is a         *)
(* sequence with one entry per connection; libp2p may hold several to    *)
(* one peer and lists them in no fixed order.  The qri profile service   *)
(* (qis) is outside src/: a profile request succeeds with a connected    *)
(* peer that speaks the qri protocol, and the profile is forgotten when  *)
(* the peer disconnects.                                                  *)
(***************************************************************************)
EXTENDS Naturals, Sequences, SequencesExt

CONSTANTS
    Remotes,       \* peer IDs of other nodes
    Self,          \* this node's peer ID (every connection's LocalPeer)
    Profiles,      \* profile IDs in the node's profile store
    ProfilePeers,  \* ProfilePeers[pro]: Profiles().PeerIDs(pro), in order
    QriPeers,      \* peers whose host supports the qri protocol
    Known,         \* peers with addresses in the local peerstore
    Callers,       \* goroutines calling ConnectToPeer / DisconnectFromPeer
    MaxConns,      \* bound on the host's open connections
    MaxOpened      \* bound on the connections opened in a behaviour

ASSUME Self \notin Remotes /\ QriPeers \subseteq Remotes /\ Known \subseteq Remotes
ASSUME ProfilePeers \in [Profiles -> Seq(Remotes)]

VARIABLES
    conns,    \* the host's connections: [peer, id], one per connection
    opened,   \* connections opened so far (the next connection's id)
    qisPro,   \* peers whose qri profile the qis holds (ConnectedPeerProfile)
    pc,       \* pc[c]: "idle", "connect", "upgrade", "profile", "close", "done"
    target,   \* target[c]: the peer c resolved its parameters to
    snap,     \* snap[c]: the ids of ConnsToPeer(target) DisconnectFromPeer took
    idx,      \* idx[c]: how many of snap[c] the close loop has passed
    outcome   \* outcome[c]: "none", "ok" (profile / nil error) or "err"

vars == << conns, opened, qisPro, pc, target, snap, idx, outcome >>

NoPeer == Self

Connected(p) == \E i \in DOMAIN conns : conns[i].peer = p
\* The connection with id k is open.
Open(k) == \E i \in DOMAIN conns : conns[i].id = k

\* The ways the host's Conns() can list the connections.
ConnListings ==
    {[i \in DOMAIN conns |-> conns[perm[i]].peer] : perm \in SetToSeqs(DOMAIN conns)}

Init ==
    /\ conns = << >>
    /\ opened = 0
    /\ qisPro = {}
    /\ pc = [c \in Callers |-> "idle"]
    /\ target = [c \in Callers |-> NoPeer]
    /\ snap = [c \in Callers |-> << >>]
    /\ idx = [c \in Callers |-> 0]
    /\ outcome = [c \in Callers |-> "none"]

-----------------------------------------------------------------------------
(* Resolving PeerConnectionParams to a peer to dial.                      *)

\* getPeerInfo: the local peerstore, else an IPFS routing lookup that may
\* fail (the node offline, or the peer not found).
getPeerInfo(p) == IF p \in Known THEN {p} ELSE {p, NoPeer}

\* peerConnectionParamsToPeerInfo: a multiaddr names the peer directly; a
\* peer ID goes through getPeerInfo; a profile ID through the first of the
\* profile's peer IDs, an error when it has none.  NoPeer is an error.
Params == [kind: {"multiaddr", "peerid"}, peer: Remotes] \cup [kind: {"profile"}, pro: Profiles]

peerConnectionParamsToPeerInfo(p) ==
    CASE p.kind = "multiaddr" -> {p.peer}
      [] p.kind = "peerid"    -> getPeerInfo(p.peer)
      [] p.kind = "profile"   -> IF ProfilePeers[p.pro] = << >> THEN {NoPeer}
                                 ELSE getPeerInfo(ProfilePeers[p.pro][1])

\* Removes every connection to p.
DropConns(p) == SelectSeq(conns, LAMBDA q : q.peer # p)

\* A new connection to p, with a fresh id.
OpenConn(p) ==
    /\ Len(conns) < MaxConns /\ opened < MaxOpened
    /\ conns' = Append(conns, [peer |-> p, id |-> opened + 1])
    /\ opened' = opened + 1

-----------------------------------------------------------------------------
(* ConnectToPeer, one step per blocking call.                             *)

ConnectResolve(c) ==
    /\ pc[c] = "idle"
    /\ \E p \in Params, r \in Remotes \cup {NoPeer} :
         /\ r \in peerConnectionParamsToPeerInfo(p)
         /\ IF r = NoPeer
            THEN pc' = [pc EXCEPT ![c] = "done"] /\ outcome' = [outcome EXCEPT ![c] = "err"]
            ELSE pc' = [pc EXCEPT ![c] = "connect"] /\ UNCHANGED outcome
         /\ target' = [target EXCEPT ![c] = r]
    /\ UNCHANGED << conns, opened, qisPro, snap, idx >>

(* host.Connect: returns at once when a connection exists; otherwise the *)
(* dial opens one or fails.                                               *)
HostConnect(c) ==
    /\ pc[c] = "connect"
    /\ \/ /\ \/ Connected(target[c]) /\ UNCHANGED << conns, opened >>
             \/ ~Connected(target[c]) /\ OpenConn(target[c])
          /\ pc' = [pc EXCEPT ![c] = "upgrade"]
          /\ UNCHANGED outcome
       \/ /\ ~Connected(target[c])
          /\ pc' = [pc EXCEPT ![c] = "done"]
          /\ outcome' = [outcome EXCEPT ![c] = "err"]
          /\ UNCHANGED << conns, opened >>
    /\ UNCHANGED << qisPro, target, snap, idx >>

(* qis.QriProfileRequest: exchanges profiles over the open connection.   *)
QriProfileRequest(c) ==
    /\ pc[c] = "upgrade"
    /\ IF Connected(target[c]) /\ target[c] \in QriPeers
       THEN /\ qisPro' = qisPro \cup {target[c]}
            /\ pc' = [pc EXCEPT ![c] = "profile"]
            /\ UNCHANGED outcome
       ELSE /\ pc' = [pc EXCEPT ![c] = "done"]
            /\ outcome' = [outcome EXCEPT ![c] = "err"]
            /\ UNCHANGED qisPro
    /\ UNCHANGED << conns, opened, target, snap, idx >>

(* pro := qis.ConnectedPeerProfile(id); the check that follows tests err, *)
(* which is nil at this point, and returns an error.                     *)
ConnectedPeerProfile(c) ==
    outcome' = [outcome EXCEPT ![c] = "err"]

ConnectReturn(c) ==
    /\ pc[c] = "profile"
    /\ ConnectedPeerProfile(c)
    /\ pc' = [pc EXCEPT ![c] = "done"]
    /\ UNCHANGED << conns, opened, qisPro, target, snap, idx >>

-----------------------------------------------------------------------------
(* DisconnectFromPeer: resolve, take ConnsToPeer, close each in turn and  *)
(* return the first Close error.                                          *)

DisconnectResolve(c) ==
    /\ pc[c] = "idle"
    /\ \E p \in Params, r \in Remotes \cup {NoPeer} :
         /\ r \in peerConnectionParamsToPeerInfo(p)
         /\ IF r = NoPeer
            THEN pc' = [pc EXCEPT ![c] = "done"] /\ outcome' = [outcome EXCEPT ![c] = "err"]
            ELSE pc' = [pc EXCEPT ![c] = "close"] /\ UNCHANGED outcome
         /\ target' = [target EXCEPT ![c] = r]
         /\ snap' = [snap EXCEPT ![c] =
                       LET mine == SelectSeq(conns, LAMBDA q : q.peer = r)
                       IN [i \in DOMAIN mine |-> mine[i].id]]
         /\ idx' = [idx EXCEPT ![c] = 0]
    /\ UNCHANGED << conns, opened, qisPro >>

(* conn.Close() on the loop's next connection: it leaves the host's list; *)
(* the qis forgets a peer with no connection left.  Closing a connection *)
(* the remote side already dropped is a no-op.                            *)
CloseStep(c) ==
    LET k == snap[c][idx[c] + 1] IN
    /\ conns' = SelectSeq(conns, LAMBDA q : q.id # k)
    /\ qisPro' = IF \E i \in DOMAIN conns' : conns'[i].peer = target[c]
                 THEN qisPro ELSE qisPro \ {target[c]}
    /\ idx' = [idx EXCEPT ![c] = @ + 1]
    /\ UNCHANGED << opened, pc, target, snap, outcome >>

Close(c) ==
    /\ pc[c] = "close"
    /\ \/ idx[c] < Len(snap[c]) /\ CloseStep(c)
       \/ /\ idx[c] < Len(snap[c]) /\ Open(snap[c][idx[c] + 1])
          /\ pc' = [pc EXCEPT ![c] = "done"]
          /\ outcome' = [outcome EXCEPT ![c] = "err"]
          /\ UNCHANGED << conns, opened, qisPro, target, snap, idx >>
       \/ /\ idx[c] = Len(snap[c])
          /\ pc' = [pc EXCEPT ![c] = "done"]
          /\ outcome' = [outcome EXCEPT ![c] = "ok"]
          /\ UNCHANGED << conns, opened, qisPro, target, snap, idx >>

(* The caller takes the result and makes its next call.                   *)
Finish(c) ==
    /\ pc[c] = "done"
    /\ pc' = [pc EXCEPT ![c] = "idle"]
    /\ target' = [target EXCEPT ![c] = NoPeer]
    /\ outcome' = [outcome EXCEPT ![c] = "none"]
    /\ UNCHANGED << conns, opened, qisPro, snap, idx >>

-----------------------------------------------------------------------------
(* The network.                                                           *)

(* A remote peer opens a connection to the node.                          *)
Incoming(p) ==
    /\ OpenConn(p)
    /\ UNCHANGED << qisPro, pc, target, snap, idx, outcome >>

(* A remote peer goes away: all its connections close.                    *)
RemoteDrop(p) ==
    /\ Connected(p)
    /\ conns' = DropConns(p)
    /\ qisPro' = qisPro \ {p}
    /\ UNCHANGED << opened, pc, target, snap, idx, outcome >>

Next ==
    \/ \E c \in Callers :
         \/ ConnectResolve(c) \/ HostConnect(c) \/ QriProfileRequest(c)
         \/ ConnectReturn(c) \/ DisconnectResolve(c) \/ Close(c) \/ Finish(c)
    \/ \E p \in Remotes : Incoming(p) \/ RemoteDrop(p)

(* Each call runs to its return once started: every step is a blocking   *)
(* call that returns (dials and requests time out).                       *)
Spec == Init /\ [][Next]_vars
          /\ \A c \in Callers :
               WF_vars(HostConnect(c) \/ QriProfileRequest(c) \/ ConnectReturn(c) \/ Close(c))
-----------------------------------------------------------------------------
(* What the node reports about its connections.                           *)

\* Peers: the LocalPeer of every connection, each once.
Peers == IF conns = << >> THEN << >> ELSE << Self >>

\* The fallback loop of ClosestConnectedQriPeers over a listing of Conns():
\* connections whose peer supports the qri protocol, until added >= max.
RECURSIVE ClosestFallback(_, _, _)
ClosestFallback(cl, max, acc) ==
    IF cl = << >> THEN acc
    ELSE IF Head(cl) \notin QriPeers THEN ClosestFallback(Tail(cl), max, acc)
    ELSE IF Len(acc) + 1 >= max THEN Append(acc, Head(cl))
    ELSE ClosestFallback(Tail(cl), max, Append(acc, Head(cl)))

\* Faulty variant: the ConnsToPeer check dropped from the first loop.
ClosestConnectedQriPeersNoConnCheck(pro, max, cl) ==
    LET pid == ProfilePeers[pro]
    IN IF pid # << >> THEN pid ELSE ClosestFallback(cl, max, << >>)

\* ClosestConnectedQriPeers (the node online): the profile's peer IDs that
\* have a connection, all of them; when there are none, the fallback.
ClosestConnectedQriPeers(pro, max, cl) ==
    LET pid == SelectSeq(ProfilePeers[pro], LAMBDA p : Connected(p))
    IN IF pid # << >> THEN pid ELSE ClosestFallback(cl, max, << >>)

\* The calls made of it: every profile, max of 1 or 2, every listing.
ClosestResults ==
    {[pro |-> pro, max |-> m, r |-> ClosestConnectedQriPeers(pro, m, cl)] :
        pro \in Profiles, m \in 1..2, cl \in ConnListings}

-----------------------------------------------------------------------------
(* Properties *)

(* Closest peers are connected: every peer ClosestConnectedQriPeers       *)
(* returns has a connection; when one of the profile's own peers is       *)
(* connected only the profile's peers are returned, otherwise only qri    *)
(* peers, and some qri peer whenever one is connected.                    *)
ClosestSound ==
    \A x \in ClosestResults :
       /\ \A i \in DOMAIN x.r : Connected(x.r[i])
       /\ IF \E p \in ToSet(ProfilePeers[x.pro]) : Connected(p)
          THEN ToSet(x.r) \subseteq ToSet(ProfilePeers[x.pro])
          ELSE /\ ToSet(x.r) \subseteq QriPeers
               /\ (x.r = << >>) <=> ~\E p \in QriPeers : Connected(p)

=============================================================================
