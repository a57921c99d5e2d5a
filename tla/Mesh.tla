-------------------------------- MODULE Mesh --------------------------------
(***************************************************************************)
(* How the processes of an experiment connect before the first job: main   *)
(* of exp/ivp1.cpp and exp/bosch1.cpp with BFTKVS (bft_kvs.h).             *)
(*                                                                         *)
(* Each node is one thread that owns an instance of the store per CPU.  It *)
(* constructs all instances, which listen from then on, then has every     *)
(* instance connect to its peers, and then has every instance accept the   *)
(* peers' connections.  Nobody accepts before it has connected, so the     *)
(* kernel must complete connections that nobody has accepted yet; they     *)
(* wait in the backlog of the listening socket.                            *)
(*                                                                         *)
(* An instance is <<node_id, cpu>>.  In a distributed experiment the       *)
(* replicas are the instances with one cpu on all nodes, in a local one    *)
(* the instances of a single node.                                         *)
(***************************************************************************)
EXTENDS Integers, Sequences, FiniteSets

CONSTANTS
  exp_type,            \* "local" or "distributed"
  first_node,          \* the smallest node_id
  replication_factor,
  num_nmr_instances,   \* instances per node, when distributed
  Backlog              \* length of a listen queue

ASSUME MeshAssumption ==
  /\ exp_type \in {"local", "distributed"}
  /\ first_node \in 1..8
  /\ exp_type = "distributed" => first_node \in {1, 5}
  /\ replication_factor \in 2..4
  /\ num_nmr_instances \in Nat \ {0}
  /\ Backlog \in Nat

Local == exp_type = "local"

\* The instances that main constructs.
Instance ==
  IF Local THEN {first_node} \X (0..(replication_factor - 1))
           ELSE (first_node..(first_node + replication_factor - 1)) \X (0..(num_nmr_instances - 1))

Peer == 0..(replication_factor - 1)

my_process_id(e) == IF Local THEN e[2] ELSE (e[1] - 1) % 4

Others(e) == Peer \ {my_process_id(e)}

\* The table of ports, by CPU and node.
bft_kvs_ports(cpu, node) == 8080 + 4 * cpu + node

\* Where an instance listens.
Address(e) == <<e[1], bft_kvs_ports(e[2], (e[1] - 1) % 4)>>

\* config.peers: where an instance expects peer p.
peers(e, p) ==
  IF Local
    THEN <<e[1], bft_kvs_ports(p, (e[1] - 1) % 4)>>
    ELSE <<IF e[1] <= 4 THEN p + 1 ELSE p + 5, bft_kvs_ports(e[2], p)>>

Before(e) == {f \in Instance : f[1] = e[1] /\ f[2] < e[2]}
SameNode(e) == {f \in Instance : f[1] = e[1]}

NoSocket == <<>>

VARIABLES
  at,        \* where main is with an instance
  i,         \* the loop variable of connect_to_servers, then of accept_clients
  client,    \* instance -> peer -> instance at the other end, or NoSocket
  server,    \* the same for accepted connections
  backlog,   \* connections that wait to be accepted
  sent,      \* connections <<from, to>> on which the id has been sent
  socket     \* tcp::socket s of either function, as the instance at its other end

mvars == <<at, i, client, server, backlog, sent, socket>>

Connecting == {"connect", "send"}

MeshInit ==
  /\ at = [e \in Instance |-> "new"]
  /\ i = [e \in Instance |-> 0]
  /\ client = [e \in Instance |-> [p \in Peer |-> NoSocket]]
  /\ server = [e \in Instance |-> [p \in Peer |-> NoSocket]]
  /\ backlog = [e \in Instance |-> <<>>]
  /\ sent = {}
  /\ socket = [e \in Instance |-> NoSocket]

\* The constructor: the acceptor listens.  Peers are visited in order, without
\* the instance itself.
Construct(e) ==
  /\ at[e] = "new"
  /\ \A f \in Before(e) : at[f] # "new"
  /\ at' = [at EXCEPT ![e] = "connect"]
  /\ i' = [i EXCEPT ![e] = IF my_process_id(e) = 0 THEN 1 ELSE 0]
  /\ UNCHANGED <<client, server, backlog, sent, socket>>

\* Variant: a connection is completed by accept only.
ConnectRendezvous(e) ==
  /\ at[e] = "connect"
  /\ \A f \in SameNode(e) : at[f] # "new"
  /\ \A f \in Before(e) : at[f] \notin Connecting
  /\ \E f \in Instance :
       /\ Address(f) = peers(e, i[e])
       /\ at[f] = "accept" /\ backlog[f] = <<>>
       /\ backlog' = [backlog EXCEPT ![f] = Append(@, e)]
       /\ socket' = [socket EXCEPT ![e] = f]
  /\ at' = [at EXCEPT ![e] = "send"]
  /\ UNCHANGED <<i, client, server, sent>>

\* connect succeeds as soon as somebody listens at the address.
Connect(e) ==
  /\ at[e] = "connect"
  /\ \A f \in SameNode(e) : at[f] # "new"
  /\ \A f \in Before(e) : at[f] \notin Connecting
  /\ \E f \in Instance :
       /\ Address(f) = peers(e, i[e])
       /\ at[f] # "new" /\ Len(backlog[f]) < Backlog
       /\ backlog' = [backlog EXCEPT ![f] = Append(@, e)]
       /\ socket' = [socket EXCEPT ![e] = f]
  /\ at' = [at EXCEPT ![e] = "send"]
  /\ UNCHANGED <<i, client, server, sent>>

\* Until then it throws, and is tried again after a sleep.
Retry(e) == at[e] = "connect" /\ UNCHANGED mvars

\* The loop of connect_to_servers skips the instance itself.
NextPeer(e) == IF i[e] + 1 = my_process_id(e) THEN i[e] + 2 ELSE i[e] + 1

SendId(e) ==
  /\ at[e] = "send"
  /\ sent' = sent \cup {<<e, socket[e]>>}
  /\ client' = [client EXCEPT ![e][i[e]] = socket[e]]
  /\ IF NextPeer(e) < replication_factor
       THEN at' = [at EXCEPT ![e] = "connect"] /\ i' = [i EXCEPT ![e] = NextPeer(e)]
       ELSE at' = [at EXCEPT ![e] = "accept"] /\ i' = [i EXCEPT ![e] = 0]
  /\ UNCHANGED <<server, backlog, socket>>

\* accept_clients, once all instances of the node have connected.
Accept(e) ==
  /\ at[e] = "accept"
  /\ \A f \in SameNode(e) : at[f] \notin Connecting \cup {"new"}
  /\ \A f \in Before(e) : at[f] = "connected"
  /\ backlog[e] # <<>>
  /\ socket' = [socket EXCEPT ![e] = Head(backlog[e])]
  /\ backlog' = [backlog EXCEPT ![e] = Tail(@)]
  /\ at' = [at EXCEPT ![e] = "receive"]
  /\ UNCHANGED <<i, client, server, sent>>

\* Variant: one connection too few.
ReceiveIdShort(e) ==
  LET id == my_process_id(socket[e]) IN
  /\ at[e] = "receive"
  /\ <<socket[e], e>> \in sent
  /\ server' = [server EXCEPT ![e][id] = socket[e]]
  /\ i' = [i EXCEPT ![e] = @ + 1]
  /\ at' = [at EXCEPT ![e] = IF i[e] + 2 < replication_factor - 1 THEN "accept" ELSE "connected"]
  /\ UNCHANGED <<client, backlog, sent, socket>>

\* receive blocks until the id is there; the two assertions end the process.
ReceiveId(e) ==
  LET id == my_process_id(socket[e]) IN
  /\ at[e] = "receive"
  /\ <<socket[e], e>> \in sent
  /\ IF id < replication_factor /\ server[e][id] = NoSocket
       THEN /\ server' = [server EXCEPT ![e][id] = socket[e]]
            /\ i' = [i EXCEPT ![e] = @ + 1]
            /\ at' = [at EXCEPT ![e] = IF i[e] + 1 < replication_factor - 1 THEN "accept" ELSE "connected"]
       ELSE at' = [at EXCEPT ![e] = "aborted"] /\ UNCHANGED <<server, i>>
  /\ UNCHANGED <<client, backlog, sent, socket>>

MeshStep(e) == Construct(e) \/ Connect(e) \/ SendId(e) \/ Accept(e) \/ ReceiveId(e)

MeshNext == \E e \in Instance : MeshStep(e) \/ Retry(e)

MeshSpec == MeshInit /\ [][MeshNext]_mvars

-----------------------------------------------------------------------------
(* Properties.                                                             *)

MeshTypeOK ==
  /\ at \in [Instance -> {"new", "connect", "send", "accept", "receive", "connected", "aborted"}]
  /\ i \in [Instance -> 0..replication_factor]
  /\ client \in [Instance -> [Peer -> Instance \cup {NoSocket}]]
  /\ server \in [Instance -> [Peer -> Instance \cup {NoSocket}]]
  /\ backlog \in [Instance -> Seq(Instance)]
  /\ sent \subseteq Instance \X Instance
  /\ socket \in [Instance -> Instance \cup {NoSocket}]

\* An instance that main takes for connected has a socket to and from every
\* peer, each one shared with the replica of that number on the same CPU (or
\* node): also the accepted ones, which accept_clients never looks at, and no
\* assertion ends a process on the way there.
MeshComplete ==
  \A e \in Instance :
    /\ at[e] # "aborted"
    /\ at[e] = "connected" =>
         \A p \in Others(e) :
           /\ client[e][p] # NoSocket /\ my_process_id(client[e][p]) = p
           /\ server[e][p] # NoSocket /\ my_process_id(server[e][p]) = p
           /\ server[e][p] = client[e][p]
           /\ client[server[e][p]][my_process_id(e)] = e

=============================================================================
