----------------------------- MODULE NetService -----------------------------
(***************************************************************************)
(* The network thread of network/src: the libp2p Service (service.rs) with *)
(* its dial table and ban queues, the Behaviour and P2P event queues       *)
(* (behaviour.rs, p2p/mod.rs), the loop of manager.rs's network_service,   *)
(* and the MessageHandler (handler.rs) with the parts of the message       *)
(* processor (handler_processor.rs) that act on peers: on_connect and      *)
(* process_status.                                                          *)
(*                                                                         *)
(* Three queues connect them: the events Behaviour hands to Service::poll  *)
(* (P2P's and Kademlia's, merged in the order they were generated), the    *)
(* handler channel, and the network channel the handler writes back to.   *)
(* The swarm's connections, and what remote peers send, are the            *)
(* environment.  Gossip, Publish and Propagate do not touch peer state and *)
(* are left out.                                                           *)
(***************************************************************************)
EXTENDS Integers, Sequences, FiniteSets

CONSTANTS
    Peers,            \* remote peers
    BootNodes,        \* peers of --dial_addrs, dialed by Service::new
    Routable,         \* peers Kademlia knows a non-loopback ip4 address of
    Foreign,          \* peers whose Status carries another network_id
    DIAL_PEER_LIMIT,  \* dial_peer is skipped above this many peers (8)
    MaxEnv,           \* bound: connection and remote events
    MaxTicks          \* bound: dial_interval ticks

ASSUME BootNodes \subseteq Peers /\ Routable \subseteq Peers
ASSUME Foreign \subseteq Peers /\ DIAL_PEER_LIMIT \in Nat
ASSUME MaxEnv \in Nat /\ MaxTicks \in Nat

None == "none"   \* no entry in Service::nodes

VARIABLES
    link,       \* the swarm's connection to each peer: "none", "dialing", "up"
    banned,     \* peers Swarm::ban_peer_id has banned
    bq,         \* events queued in Behaviour (and P2P) for Service::poll
    nodes,      \* Service::nodes: the DialStatus of each peer, or None
    peers,      \* Service::peers
    toBan,      \* Service::peers_to_ban (BAN_PEER_WAIT_TIMEOUT)
    banTimeout, \* Service::peer_ban_timeout (BAN_PEER_TIMEOUT)
    hq,         \* the handler channel (HandlerMessage)
    nq,         \* the network channel (NetworkMessage)
    toSync,     \* peers handed to the sync manager with AddPeer
    halted,     \* the network thread has panicked
    env,        \* connection and remote events so far
    ticks       \* dial_interval ticks so far

vars == <<link, banned, bq, nodes, peers, toBan, banTimeout, hq, nq, toSync,
          halted, env, ticks>>
swarm == <<link, banned>>
service == <<nodes, peers, toBan, banTimeout>>

-----------------------------------------------------------------------------
(* Events and messages.                                                    *)

(* BehaviourEvent: InjectConnect (dialer: the ConnectedPoint is Dialer),   *)
(* PeerDisconnected, FindPeers (Kademlia's RoutingUpdated), and RPC with a *)
(* Status or a Goodbye request from the peer.                              *)
EvConnect(p, d) == [kind |-> "connect", peer |-> p, dialer |-> d]
Ev(k, p) == [kind |-> k, peer |-> p, dialer |-> FALSE]

(* HandlerMessage: PeerDialed, PeerDisconnected, RPC Status, RPC Goodbye.  *)
(* NetworkMessage: P2P (an RPC request to a peer) and Disconnect.          *)
Msg(k, p) == [kind |-> k, peer |-> p]

(* Service::disconnect_and_ban_peer: the peer goes into peers_to_ban and   *)
(* peer_ban_timeout.                                                       *)
DisconnectAndBanPeer(p) ==
    /\ toBan' = toBan \cup {p}
    /\ banTimeout' = banTimeout \cup {p}

(* A connection or remote event, within the bound.                        *)
EnvStep == env < MaxEnv /\ env' = env + 1

-----------------------------------------------------------------------------
(* Service::new dials every --dial_addrs address; nodes and peers start   *)
(* empty.                                                                  *)
Init ==
    /\ link = [p \in Peers |-> IF p \in BootNodes THEN "dialing" ELSE "none"]
    /\ banned = {}
    /\ bq = <<>>
    /\ nodes = [p \in Peers |-> None]
    /\ peers = {}
    /\ toBan = {} /\ banTimeout = {}
    /\ hq = <<>> /\ nq = <<>>
    /\ toSync = {}
    /\ halted = FALSE
    /\ env = 0 /\ ticks = 0

(* An outgoing dial completes; P2P::inject_connected queues InjectConnect *)
(* with a Dialer endpoint.  A banned peer's connection is refused.         *)
DialSucceeded(p) ==
    /\ link[p] = "dialing"
    /\ p \notin banned
    /\ EnvStep
    /\ link' = [link EXCEPT ![p] = "up"]
    /\ bq' = Append(bq, EvConnect(p, TRUE))
    /\ UNCHANGED <<banned, service, hq, nq, toSync, halted, ticks>>

(* An outgoing dial fails.  P2P has no inject_dial_failure and Service    *)
(* hears nothing.                                                          *)
DialFailed(p) ==
    /\ link[p] = "dialing"
    /\ EnvStep
    /\ link' = [link EXCEPT ![p] = "none"]
    /\ UNCHANGED <<banned, bq, service, hq, nq, toSync, halted, ticks>>

(* A peer connects to the listener: InjectConnect with a Listener endpoint.*)
Inbound(p) ==
    /\ link[p] = "none"
    /\ p \notin banned
    /\ EnvStep
    /\ link' = [link EXCEPT ![p] = "up"]
    /\ bq' = Append(bq, EvConnect(p, FALSE))
    /\ UNCHANGED <<banned, service, hq, nq, toSync, halted, ticks>>

(* The connection closes (the remote hung up, ping failed):               *)
(* P2P::inject_disconnected queues PeerDisconnected.                       *)
ConnectionClosed(p) ==
    /\ link[p] = "up"
    /\ EnvStep
    /\ link' = [link EXCEPT ![p] = "none"]
    /\ bq' = Append(bq, Ev("disconnect", p))
    /\ UNCHANGED <<banned, service, hq, nq, toSync, halted, ticks>>

(* Kademlia's routing table takes the peer in: RoutingUpdated becomes     *)
(* FindPeers (behaviour.rs).  This follows a connection or mDNS discovery.*)
RoutingUpdated(p) ==
    /\ EnvStep
    /\ bq' = Append(bq, Ev("find", p))
    /\ UNCHANGED <<swarm, service, hq, nq, toSync, halted, ticks>>

(* The connected peer sends a Status (its request or its answer to ours) *)
(* or a Goodbye request: P2P::inject_node_event queues it.                *)
RemoteRPC(p, k) ==
    /\ link[p] = "up"
    /\ EnvStep
    /\ bq' = Append(bq, Ev(k, p))
    /\ UNCHANGED <<swarm, service, hq, nq, toSync, halted, ticks>>

-----------------------------------------------------------------------------
(* Service::poll, one BehaviourEvent taken from the front of the queue    *)
(* (Behaviour::poll removes events[0]).                                    *)

(* InjectConnect: the peer joins peers, its dial entry (if any) becomes   *)
(* Connected; a Dialer endpoint is reported to the handler as PeerDialed. *)
OnInjectConnect(e) ==
    /\ peers' = peers \cup {e.peer}
    /\ nodes' = IF nodes[e.peer] # None
                THEN [nodes EXCEPT ![e.peer] = "Connected"] ELSE nodes
    /\ hq' = IF e.dialer THEN Append(hq, Msg("dialed", e.peer)) ELSE hq
    /\ UNCHANGED <<toBan, banTimeout, halted>>

(* PeerDisconnected: nodes.get_mut(&peer_id).unwrap() marks the entry     *)
(* Disconnected, the peer leaves peers and the handler hears of it.  A    *)
(* peer without an entry makes the unwrap panic, which ends the thread.   *)
OnPeerDisconnected(e) ==
    IF nodes[e.peer] = None
    THEN /\ halted' = TRUE
         /\ UNCHANGED <<nodes, peers, toBan, banTimeout, hq>>
    ELSE /\ nodes' = [nodes EXCEPT ![e.peer] = "Disconnected"]
         /\ peers' = peers \ {e.peer}
         /\ hq' = Append(hq, Msg("disconnect", e.peer))
         /\ UNCHANGED <<toBan, banTimeout, halted>>

(* FindPeers: a peer not yet in nodes is entered as Unknown when one of   *)
(* its addresses is ip4 and not 127.0.0.1; nothing else changes.          *)
OnFindPeers(e) ==
    /\ nodes' = IF nodes[e.peer] = None /\ e.peer \in Routable
                THEN [nodes EXCEPT ![e.peer] = "Unknown"] ELSE nodes
    /\ UNCHANGED <<peers, toBan, banTimeout, hq, halted>>

(* RPC: network_service passes it to the handler; a Goodbye request puts  *)
(* the peer on its local peers_to_ban, which disconnect_and_ban_peer      *)
(* empties before the poll returns.                                        *)
OnRPC(e) ==
    /\ hq' = Append(hq, Msg(e.kind, e.peer))
    /\ IF e.kind = "goodbye" THEN DisconnectAndBanPeer(e.peer)
       ELSE UNCHANGED <<toBan, banTimeout>>
    /\ UNCHANGED <<nodes, peers, halted>>

ServicePoll ==
    /\ ~halted
    /\ bq # <<>>
    /\ bq' = Tail(bq)
    /\ LET e == Head(bq) IN
       CASE e.kind = "connect"    -> OnInjectConnect(e)
         [] e.kind = "disconnect" -> OnPeerDisconnected(e)
         [] e.kind = "find"       -> OnFindPeers(e)
         [] OTHER                 -> OnRPC(e)
    /\ UNCHANGED <<swarm, nq, toSync, env, ticks>>

(* Service::dial_peer: every entry that is Unknown or Disconnected and    *)
(* whose peer is not in peers is set to Dial and its first address        *)
(* dialed; a peer already being dialed or connected gets no second link.  *)
DialPeer ==
    LET D == {p \in Peers : p \notin peers
                            /\ nodes[p] \in {"Unknown", "Disconnected"}}
    IN /\ nodes' = [p \in Peers |-> IF p \in D THEN "Dial" ELSE nodes[p]]
       /\ link' = [p \in Peers |->
                     IF p \in D /\ link[p] = "none" THEN "dialing" ELSE link[p]]

(* dial_interval fires (every 15 s): dial_peer, unless more than          *)
(* DIAL_PEER_LIMIT peers are connected.                                    *)
DialTick ==
    /\ ~halted
    /\ ticks < MaxTicks
    /\ ticks' = ticks + 1
    /\ IF Cardinality(peers) > DIAL_PEER_LIMIT THEN UNCHANGED <<nodes, link>>
       ELSE DialPeer
    /\ UNCHANGED <<banned, bq, peers, toBan, banTimeout, hq, nq, toSync,
                   halted, env>>

(* peers_to_ban yields the peer after BAN_PEER_WAIT_TIMEOUT:              *)
(* Swarm::ban_peer_id bans it and closes its connection.  The code then   *)
(* calls swarm.inject_disconnected, which resolves to Behaviour's own     *)
(* method and only prints; whether P2P still hears of the closed          *)
(* connection depends on the libp2p version, so both are possible.        *)
BanExpire(p) ==
    /\ ~halted
    /\ p \in toBan
    /\ toBan' = toBan \ {p}
    /\ banned' = banned \cup {p}
    /\ IF link[p] = "up"
       THEN /\ link' = [link EXCEPT ![p] = "none"]
            /\ \/ bq' = Append(bq, Ev("disconnect", p))
               \/ UNCHANGED bq
       ELSE UNCHANGED <<link, bq>>
    /\ UNCHANGED <<nodes, peers, banTimeout, hq, nq, toSync, halted, env, ticks>>

(* peer_ban_timeout yields the peer after BAN_PEER_TIMEOUT (30 s, after   *)
(* the 200 ms of peers_to_ban): Swarm::unban_peer_id.                      *)
Unban(p) ==
    /\ ~halted
    /\ p \in banTimeout
    /\ p \notin toBan
    /\ banTimeout' = banTimeout \ {p}
    /\ banned' = banned \ {p}
    /\ UNCHANGED <<link, bq, nodes, peers, toBan, hq, nq, toSync, halted,
                   env, ticks>>

(* network_service drains the network channel: Disconnect calls           *)
(* disconnect_and_ban_peer with BAN_PEER_TIMEOUT; P2P hands the request   *)
(* to the swarm, which sends it on the peer's connection.                 *)
NetworkRecv ==
    /\ ~halted
    /\ nq # <<>>
    /\ nq' = Tail(nq)
    /\ IF Head(nq).kind = "disconnect" THEN DisconnectAndBanPeer(Head(nq).peer)
       ELSE UNCHANGED <<toBan, banTimeout>>
    /\ UNCHANGED <<swarm, bq, nodes, peers, hq, toSync, halted, env, ticks>>

(* MessageProcessor::on_connect: our Status goes to the peer.            *)
OnConnect(p) ==
    /\ nq' = Append(nq, Msg("status", p))
    /\ UNCHANGED toSync

(* MessageProcessor::on_disconnect: SyncMessage::Disconnect to sync.       *)
OnDisconnect(p) ==
    /\ toSync' = toSync \ {p}
    /\ UNCHANGED nq

(* HandlerNetworkContext::disconnect: a Goodbye request to the peer       *)
(* (send_rpc_request), then Disconnect to the network service.            *)
HandlerDisconnect(p) == << Msg("goodbye", p), Msg("disconnect", p) >>

(* MessageProcessor::process_status: only network_id is compared; a       *)
(* mismatch calls HandlerNetworkContext::disconnect (a Goodbye request,   *)
(* then Disconnect).  Otherwise a peer with a lower finalized number is   *)
(* only logged and any other is AddPeer to sync; heads are not modelled,  *)
(* so either may happen.                                                   *)
ProcessStatus(p) ==
    IF p \in Foreign
    THEN /\ nq' = nq \o HandlerDisconnect(p)
         /\ UNCHANGED toSync
    ELSE /\ \/ toSync' = toSync \cup {p}
            \/ UNCHANGED toSync
         /\ UNCHANGED nq

(* MessageHandler::handle_message of the next HandlerMessage: PeerDialed,  *)
(* PeerDisconnected, and the RPC requests Status (on_status_request, which *)
(* also answers with our Status) and Goodbye.                              *)
Handle ==
    /\ hq # <<>>
    /\ hq' = Tail(hq)
    /\ LET m == Head(hq) IN
       CASE m.kind = "dialed"                   -> OnConnect(m.peer)
         [] m.kind \in {"disconnect", "goodbye"} -> OnDisconnect(m.peer)
         [] OTHER                               -> ProcessStatus(m.peer)
    /\ UNCHANGED <<swarm, bq, service, halted, env, ticks>>

Next ==
    \/ \E p \in Peers : DialSucceeded(p) \/ DialFailed(p) \/ Inbound(p)
    \/ \E p \in Peers : ConnectionClosed(p) \/ RoutingUpdated(p)
    \/ \E p \in Peers, k \in {"status", "goodbye"} : RemoteRPC(p, k)
    \/ ServicePoll
    \/ DialTick
    \/ \E p \in Peers : BanExpire(p) \/ Unban(p)
    \/ NetworkRecv
    \/ Handle

Spec == Init /\ [][Next]_vars

-----------------------------------------------------------------------------
(* Properties.                                                             *)

(* The network thread never dies on a disconnect: every PeerDisconnected  *)
(* Service::poll takes is for a peer with an entry in nodes, so the       *)
(* unwrap of service.rs:214 holds.                                         *)
NoDisconnectPanic == ~halted
=============================================================================
