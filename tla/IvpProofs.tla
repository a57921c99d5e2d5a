----------------------------- MODULE IvpProofs ------------------------------
(***************************************************************************)
(* Proofs about the experiment exp/ivp1.cpp: the mesh of connections that  *)
(* its stores and those of exp/bosch1.cpp start with, for every number of  *)
(* replicas and instances that the drivers allow, and the timed registers  *)
(* on the servers, for every number of replicas, period and bound.         *)
(***************************************************************************)
EXTENDS IvpExperiment, OrderLemmas, FiniteSetTheorems, TLAPS

-----------------------------------------------------------------------------
(* Addresses.                                                              *)

\* The replicas of one store: a CPU of all nodes, or the CPUs of one node.
Group(e, f) == IF Local THEN e[1] = f[1] ELSE e[2] = f[2]

LEMMA InstanceFacts ==
  ASSUME NEW e \in Instance
  PROVE  /\ e[1] \in Nat /\ e[2] \in Nat /\ e = <<e[1], e[2]>>
         /\ my_process_id(e) \in Peer
         /\ ~ Local => e[1] = first_node + my_process_id(e)
         /\ Local => e[1] = first_node /\ e[2] = my_process_id(e)
<1>1. CASE Local
  BY <1>1, MeshAssumption DEF Instance, my_process_id, Peer
<1>2. CASE ~ Local
  <2>1. /\ e \in (first_node..(first_node + replication_factor - 1)) \X (0..(num_nmr_instances - 1))
        /\ first_node \in {1, 5} /\ replication_factor \in 2..4 /\ num_nmr_instances \in Nat
    BY <1>2, MeshAssumption DEF Instance, Local
  <2>2. e[1] \in first_node..(first_node + replication_factor - 1) /\ e[2] \in Nat /\ e = <<e[1], e[2]>>
    BY <2>1
  <2>3. (e[1] - 1) % 4 = e[1] - first_node
    BY <2>1, <2>2
  <2> QED BY <1>2, <2>1, <2>2, <2>3 DEF my_process_id, Peer
<1> QED BY <1>1, <1>2

\* Who listens where an instance expects its peer p is replica p of its group.
LEMMA PeerFacts ==
  ASSUME NEW e \in Instance, NEW f \in Instance, NEW p \in Others(e), Address(f) = peers(e, p)
  PROVE  Group(e, f) /\ my_process_id(f) = p
<1>1. p \in Peer /\ p \in Nat /\ p < 4
  BY MeshAssumption DEF Others, Peer
<1>2. CASE Local
  <2>1. 8080 + 4 * f[2] + ((f[1] - 1) % 4) = 8080 + 4 * p + ((e[1] - 1) % 4) /\ f[1] = e[1]
    BY <1>2 DEF Address, peers, bft_kvs_ports
  <2>2. f[2] = p
    BY <1>1, <2>1, InstanceFacts
  <2> QED BY <1>2, <2>1, <2>2 DEF Group, my_process_id
<1>3. CASE ~ Local
  <2>1. /\ f[1] = (IF e[1] <= 4 THEN p + 1 ELSE p + 5)
        /\ 8080 + 4 * f[2] + ((f[1] - 1) % 4) = 8080 + 4 * e[2] + p
    BY <1>3 DEF Address, peers, bft_kvs_ports
  <2>2. first_node \in {1, 5} /\ replication_factor \in 2..4
    BY <1>3, MeshAssumption DEF Local
  <2>3. f[1] = first_node + p
    BY <1>1, <1>3, <2>1, <2>2, InstanceFacts DEF Peer
  <2>4. (f[1] - 1) % 4 = p
    BY <1>1, <2>2, <2>3
  <2>5. f[2] = e[2]
    <3>1. f[2] \in Nat /\ e[2] \in Nat
      BY InstanceFacts
    <3>2. 8080 + 4 * f[2] + p = 8080 + 4 * e[2] + p
      BY <2>1, <2>4
    <3> QED BY <1>1, <3>1, <3>2
  <2> QED BY <1>3, <2>4, <2>5 DEF Group, my_process_id
<1> QED BY <1>2, <1>3

\* The number of a replica tells it from the others of its group.
LEMMA GroupFacts ==
  ASSUME NEW e \in Instance, NEW f \in Instance, NEW g \in Instance, Group(e, f), Group(e, g)
  PROVE  Group(f, e) /\ (my_process_id(f) = my_process_id(g) => f = g)
BY InstanceFacts DEF Group

-----------------------------------------------------------------------------
(* The inductive invariant of the mesh.                                    *)

Pending(f) == {backlog[f][n] : n \in DOMAIN backlog[f]}

\* e's connection to f is known to e: it is in the table of e or about to be.
Opened(e, f) == \/ client[e][my_process_id(f)] = f
                \/ at[e] = "send" /\ socket[e] = f

Filled(e) == {p \in Peer : server[e][p] # NoSocket}

ConnectPart ==
  \A e \in Instance :
    /\ at[e] \in Connecting => i[e] \in Others(e)
    /\ at[e] = "send" => /\ socket[e] \in Instance /\ Group(e, socket[e])
                         /\ my_process_id(socket[e]) = i[e]
    /\ \A p \in Peer : client[e][p] # NoSocket => Group(e, client[e][p]) /\ my_process_id(client[e][p]) = p
    /\ \A p \in Others(e) : client[e][p] # NoSocket <=>
         at[e] # "new" /\ (at[e] \in Connecting => p < i[e])
    /\ client[e][my_process_id(e)] = NoSocket

AcceptPart ==
  \A e \in Instance :
    /\ at[e] # "aborted"
    /\ at[e] \in Connecting \cup {"new"} => Filled(e) = {}
    /\ at[e] = "receive" => socket[e] \in Instance /\ socket[e] \notin Pending(e)
                             /\ server[e][my_process_id(socket[e])] # socket[e]
                             /\ Group(e, socket[e]) /\ Opened(socket[e], e)
    /\ at[e] \in {"accept", "receive"} => i[e] = Cardinality(Filled(e)) /\ i[e] < replication_factor - 1
    /\ at[e] = "connected" => Cardinality(Filled(e)) = replication_factor - 1
    /\ \A p \in Filled(e) : /\ Group(e, server[e][p]) /\ my_process_id(server[e][p]) = p
                            /\ server[e][p] \notin Pending(e)
                            /\ client[server[e][p]][my_process_id(e)] = e
    /\ \A f \in Pending(e) : Group(e, f) /\ Opened(f, e)
    /\ \A m, n \in DOMAIN backlog[e] : m # n => backlog[e][m] # backlog[e][n]

SentPart == \A e, f \in Instance : <<e, f>> \in sent => client[e][my_process_id(f)] = f

MeshInv == MeshTypeOK /\ ConnectPart /\ AcceptPart /\ SentPart

LEMMA SocketFacts ==
  /\ NoSocket \notin Instance
  /\ \A e \in Instance : Others(e) \subseteq Peer /\ my_process_id(e) \notin Others(e)
  /\ \A e \in Instance, p \in Peer : p # my_process_id(e) => p \in Others(e)
  /\ Peer \subseteq Nat /\ IsFiniteSet(Peer) /\ replication_factor \in Nat
  /\ \A p \in Peer : p < replication_factor
<1>1. NoSocket \notin Instance
  <2> SUFFICES ASSUME NoSocket \in Instance PROVE FALSE
    OBVIOUS
  <2>1. NoSocket = <<NoSocket[1], NoSocket[2]>>
    BY InstanceFacts
  <2> QED BY <2>1 DEF NoSocket
<1>2. replication_factor \in Nat
  BY MeshAssumption
<1>3. IsFiniteSet(Peer)
  BY <1>2, FS_Interval DEF Peer
<1> QED BY <1>1, <1>2, <1>3 DEF Others, Peer

LEMMA MeshInitInv == MeshInit => MeshInv
<1> SUFFICES ASSUME MeshInit PROVE MeshInv
  OBVIOUS
<1> USE DEF MeshInit
<1>1. MeshTypeOK
  BY SocketFacts DEF MeshTypeOK
<1>2. ConnectPart
  BY SocketFacts, InstanceFacts DEF ConnectPart, Connecting
<1>3. AcceptPart
  BY DEF AcceptPart, Connecting, Filled, Pending
<1>4. SentPart
  BY DEF SentPart
<1> QED BY <1>1, <1>2, <1>3, <1>4 DEF MeshInv

LEMMA ConstructStep ==
  ASSUME MeshInv, NEW e \in Instance, Construct(e)
  PROVE  MeshInv'
<1> USE DEF Construct
<1>1. IF my_process_id(e) = 0 THEN 1 \in Others(e) /\ \A p \in Others(e) : ~ (p < 1)
                              ELSE 0 \in Others(e) /\ \A p \in Others(e) : ~ (p < 0)
  BY MeshAssumption DEF Others, Peer
<1>2. /\ at'[e] = "connect" /\ i'[e] \in Others(e) /\ \A p \in Others(e) : ~ (p < i'[e])
      /\ \A g \in Instance : g # e => at'[g] = at[g] /\ i'[g] = i[g]
  BY <1>1 DEF MeshInv, MeshTypeOK
<1>3. MeshTypeOK'
  BY SocketFacts, MeshAssumption DEF MeshInv, MeshTypeOK
<1>4. \A g, f \in Instance : Opened(g, f) => Opened(g, f)'
  BY <1>2 DEF Opened
<1>5. \A g \in Instance : Pending(g)' = Pending(g) /\ Filled(g)' = Filled(g)
  BY DEF Pending, Filled
<1>6. ConnectPart'
  BY <1>2 DEF MeshInv, ConnectPart, Connecting
<1>7. AcceptPart'
  <2>1. \A g \in Instance : Pending(g) \subseteq Instance
    BY DEF MeshInv, MeshTypeOK, Pending
  <2>2. ASSUME NEW g \in Instance, at'[g] = "receive"
        PROVE  /\ socket'[g] \in Instance /\ socket'[g] \notin Pending(g)'
               /\ server'[g][my_process_id(socket'[g])] # socket'[g]
               /\ Group(g, socket'[g]) /\ Opened(socket[g], g)'
    BY <1>2, <1>4, <1>5, <2>2 DEF MeshInv, AcceptPart
  <2>3. ASSUME NEW g \in Instance
        PROVE  /\ at'[g] # "aborted"
               /\ at'[g] \in Connecting \cup {"new"} => Filled(g)' = {}
               /\ at'[g] \in {"accept", "receive"} => i'[g] = Cardinality(Filled(g)') /\ i'[g] < replication_factor - 1
               /\ at'[g] = "connected" => Cardinality(Filled(g)') = replication_factor - 1
               /\ \A f \in Pending(g)' : Group(g, f) /\ Opened(f, g)'
    BY <1>2, <1>4, <1>5, <2>1 DEF MeshInv, AcceptPart, Connecting
  <2> QED BY <1>5, <2>2, <2>3 DEF MeshInv, AcceptPart
<1>8. SentPart'
  BY DEF MeshInv, SentPart
<1> QED BY <1>3, <1>6, <1>7, <1>8 DEF MeshInv

LEMMA ConnectStep ==
  ASSUME MeshInv, NEW e \in Instance, Connect(e)
  PROVE  MeshInv'
<1>1. PICK f \in Instance :
        /\ Address(f) = peers(e, i[e])
        /\ backlog' = [backlog EXCEPT ![f] = Append(@, e)]
        /\ socket' = [socket EXCEPT ![e] = f]
  BY DEF Connect
<1>2. at[e] = "connect" /\ at' = [at EXCEPT ![e] = "send"] /\ UNCHANGED <<i, client, server, sent>>
  BY DEF Connect
<1>3. i[e] \in Others(e) /\ Group(e, f) /\ my_process_id(f) = i[e]
  BY <1>1, <1>2, PeerFacts DEF MeshInv, ConnectPart, Connecting
<1>4. Group(f, e) /\ f # e
  BY <1>3, GroupFacts, SocketFacts DEF Group
<1>5. client[e][my_process_id(f)] = NoSocket
  <2>1. i[e] \in Nat
    BY <1>3, SocketFacts
  <2> QED BY <1>2, <1>3, <2>1 DEF MeshInv, ConnectPart, Connecting
<1>6. /\ at'[e] = "send" /\ socket'[e] = f
      /\ \A g \in Instance : g # e => at'[g] = at[g] /\ socket'[g] = socket[g]
      /\ \A g \in Instance : g # f => backlog'[g] = backlog[g]
      /\ backlog'[f] = Append(backlog[f], e)
  BY <1>1, <1>2 DEF MeshInv, MeshTypeOK
<1>7. MeshTypeOK'
  BY <1>1, <1>2 DEF MeshInv, MeshTypeOK
<1>8. ~ Opened(e, f) /\ Opened(e, f)'
  BY <1>2, <1>5, <1>6, SocketFacts DEF Opened
<1>9. \A g, h \in Instance : Opened(g, h) => Opened(g, h)'
  BY <1>2, <1>6 DEF Opened
<1>10. \A g \in Instance : Filled(g)' = Filled(g)
  BY <1>2 DEF Filled
<1>11. /\ Pending(f)' = Pending(f) \cup {e} /\ e \notin Pending(f)
       /\ \A g \in Instance : g # f => Pending(g)' = Pending(g)
  <2>1. backlog[f] \in Seq(Instance)
    BY DEF MeshInv, MeshTypeOK
  <2>2. Pending(f)' = Pending(f) \cup {e}
    BY <1>6, <2>1 DEF Pending
  <2>3. e \notin Pending(f)
    BY <1>8 DEF MeshInv, AcceptPart
  <2> QED BY <1>6, <2>2, <2>3 DEF Pending
<1>12. ConnectPart'
  BY <1>2, <1>3, <1>6 DEF MeshInv, ConnectPart, Connecting
<1>13. AcceptPart'
  <2>1. \A p \in Filled(f) : server[f][p] # e
    BY <1>5, SocketFacts DEF MeshInv, AcceptPart
  <2>2. at[f] = "receive" => socket[f] # e
    BY <1>8 DEF MeshInv, AcceptPart
  <2>3. \A m, n \in DOMAIN backlog'[f] : m # n => backlog'[f][m] # backlog'[f][n]
    <3>1. backlog[f] \in Seq(Instance) /\ \A m \in DOMAIN backlog[f] : backlog[f][m] # e
      BY <1>11 DEF MeshInv, MeshTypeOK, Pending
    <3>2. \A m, n \in DOMAIN backlog[f] : m # n => backlog[f][m] # backlog[f][n]
      BY DEF MeshInv, AcceptPart
    <3> QED BY <1>6, <3>1, <3>2
  <2>4. ASSUME NEW g \in Instance
        PROVE  /\ at'[g] # "aborted"
               /\ at'[g] \in Connecting \cup {"new"} => Filled(g)' = {}
               /\ at'[g] \in {"accept", "receive"} => i'[g] = Cardinality(Filled(g)') /\ i'[g] < replication_factor - 1
               /\ at'[g] = "connected" => Cardinality(Filled(g)') = replication_factor - 1
    BY <1>2, <1>6, <1>10 DEF MeshInv, AcceptPart, Connecting
  <2>5. ASSUME NEW g \in Instance, at'[g] = "receive"
        PROVE  /\ socket'[g] \in Instance /\ socket'[g] \notin Pending(g)'
               /\ server'[g][my_process_id(socket'[g])] # socket'[g]
               /\ Group(g, socket'[g]) /\ Opened(socket[g], g)'
    BY <1>2, <1>6, <1>9, <1>11, <2>2, <2>5 DEF MeshInv, AcceptPart
  <2>6. ASSUME NEW g \in Instance, NEW p \in Filled(g)
        PROVE  /\ Group(g, server'[g][p]) /\ my_process_id(server'[g][p]) = p
               /\ server'[g][p] \notin Pending(g)'
               /\ client'[server'[g][p]][my_process_id(g)] = g
    BY <1>2, <1>11, <2>1 DEF MeshInv, AcceptPart
  <2>7. ASSUME NEW g \in Instance, NEW h \in Pending(g)'
        PROVE  Group(g, h) /\ Opened(h, g)'
    <3>1. CASE h \in Pending(g)
      <4>1. h \in Instance
        BY <3>1 DEF MeshInv, MeshTypeOK, Pending
      <4> QED BY <1>9, <3>1, <4>1 DEF MeshInv, AcceptPart
    <3>2. CASE h \notin Pending(g)
      <4>1. g = f /\ h = e
        BY <1>11, <2>7, <3>2
      <4> QED BY <1>4, <1>8, <4>1
    <3> QED BY <3>1, <3>2
  <2>8. ASSUME NEW g \in Instance, NEW m \in DOMAIN backlog'[g], NEW n \in DOMAIN backlog'[g], m # n
        PROVE  backlog'[g][m] # backlog'[g][n]
    BY <1>6, <2>3, <2>8 DEF MeshInv, AcceptPart
  <2> QED BY <1>10, <2>4, <2>5, <2>6, <2>7, <2>8 DEF AcceptPart
<1>14. SentPart'
  BY <1>2 DEF MeshInv, SentPart
<1> QED BY <1>7, <1>12, <1>13, <1>14 DEF MeshInv

\* The order in which connect_to_servers visits the peers leaves none out.
LEMMA NextPeerFacts ==
  ASSUME NEW e \in Instance, MeshTypeOK, i[e] \in Others(e)
  PROVE  /\ NextPeer(e) < replication_factor =>
              NextPeer(e) \in Others(e) /\ \A p \in Others(e) : p < NextPeer(e) <=> p < i[e] \/ p = i[e]
         /\ ~ (NextPeer(e) < replication_factor) => \A p \in Others(e) : p < i[e] \/ p = i[e]
<1>1. my_process_id(e) \in Peer /\ i[e] \in Peer /\ i[e] # my_process_id(e) /\ replication_factor \in Nat
  BY InstanceFacts, MeshAssumption DEF Others
<1> QED BY <1>1 DEF NextPeer, Others, Peer

LEMMA SendStep ==
  ASSUME MeshInv, NEW e \in Instance, SendId(e)
  PROVE  MeshInv'
<1> DEFINE f == socket[e]
<1>1. /\ at[e] = "send" /\ sent' = sent \cup {<<e, f>>}
      /\ client' = [client EXCEPT ![e][i[e]] = f]
      /\ UNCHANGED <<server, backlog, socket>>
  BY DEF SendId
<1>2. f \in Instance /\ f # NoSocket /\ Group(e, f) /\ my_process_id(f) = i[e] /\ i[e] \in Others(e) /\ i[e] \in Peer
  BY <1>1, SocketFacts DEF MeshInv, ConnectPart, Connecting
<1>3. /\ client'[e][i[e]] = f /\ \A p \in Peer : p # i[e] => client'[e][p] = client[e][p]
      /\ \A g \in Instance : g # e => client'[g] = client[g]
  BY <1>1, <1>2 DEF MeshInv, MeshTypeOK
<1>4. /\ \A g \in Instance : g # e => at'[g] = at[g] /\ i'[g] = i[g]
      /\ \/ /\ NextPeer(e) < replication_factor /\ at'[e] = "connect" /\ i'[e] = NextPeer(e)
         \/ /\ ~ (NextPeer(e) < replication_factor) /\ at'[e] = "accept" /\ i'[e] = 0
  BY DEF SendId, MeshInv, MeshTypeOK
<1>5. client[e][i[e]] = NoSocket
  <2>1. i[e] \in Nat
    BY <1>2, SocketFacts
  <2> QED BY <1>1, <1>2, <2>1 DEF MeshInv, ConnectPart, Connecting
<1>6. MeshTypeOK'
  <2>1. client' \in [Instance -> [Peer -> Instance \cup {NoSocket}]]
    BY <1>1, <1>2 DEF MeshInv, MeshTypeOK
  <2>2. i' \in [Instance -> 0..replication_factor]
    <3>1. NextPeer(e) < replication_factor => NextPeer(e) \in 0..replication_factor
      <4>1. NextPeer(e) < replication_factor => NextPeer(e) \in Others(e)
        BY <1>2, NextPeerFacts DEF MeshInv
      <4>2. Others(e) \subseteq 0..replication_factor
        BY MeshAssumption DEF Others, Peer
      <4> QED BY <4>1, <4>2
    <3>2. 0 \in 0..replication_factor
      BY SocketFacts
    <3> QED BY <3>1, <3>2 DEF SendId, MeshInv, MeshTypeOK
  <2>3. at' \in [Instance -> {"new", "connect", "send", "accept", "receive", "connected", "aborted"}]
    BY DEF SendId, MeshInv, MeshTypeOK
  <2>4. sent' \subseteq Instance \X Instance
    BY <1>1, <1>2 DEF MeshInv, MeshTypeOK
  <2> QED BY <1>1, <2>1, <2>2, <2>3, <2>4 DEF MeshInv, MeshTypeOK
<1> HIDE DEF f
<1>7. ASSUME NEW g \in Instance, NEW p \in Peer, client[g][p] # NoSocket
      PROVE  client'[g][p] = client[g][p]
  BY <1>3, <1>5, <1>7
<1>8. \A g, h \in Instance : Opened(g, h) => Opened(g, h)'
  <2> SUFFICES ASSUME NEW g \in Instance, NEW h \in Instance, Opened(g, h) PROVE Opened(g, h)'
    OBVIOUS
  <2>1. my_process_id(h) \in Peer /\ h # NoSocket
    BY InstanceFacts, SocketFacts
  <2>2. CASE client[g][my_process_id(h)] = h
    BY <1>7, <2>1, <2>2 DEF Opened
  <2>3. CASE at[g] = "send" /\ socket[g] = h /\ g # e
    BY <1>1, <1>4, <2>3 DEF Opened
  <2>4. CASE at[g] = "send" /\ socket[g] = h /\ g = e
    BY <1>2, <1>3, <2>4 DEF Opened, f
  <2> QED BY <2>2, <2>3, <2>4 DEF Opened
<1>9. \A g \in Instance : /\ Pending(g)' = Pending(g) /\ Filled(g)' = Filled(g)
                          /\ Pending(g) \subseteq Instance
  BY <1>1 DEF MeshInv, MeshTypeOK, Pending, Filled
<1>10. ConnectPart'
  <2> SUFFICES ASSUME NEW g \in Instance
               PROVE  /\ at'[g] \in Connecting => i'[g] \in Others(g)
                      /\ at'[g] = "send" => /\ socket'[g] \in Instance /\ Group(g, socket'[g])
                                             /\ my_process_id(socket'[g]) = i'[g]
                      /\ \A p \in Peer : client'[g][p] # NoSocket =>
                            Group(g, client'[g][p]) /\ my_process_id(client'[g][p]) = p
                      /\ \A p \in Others(g) : client'[g][p] # NoSocket <=>
                           at'[g] # "new" /\ (at'[g] \in Connecting => p < i'[g])
                      /\ client'[g][my_process_id(g)] = NoSocket
    BY DEF ConnectPart
  <2>1. CASE g # e
    BY <1>1, <1>3, <1>4, <2>1 DEF MeshInv, ConnectPart
  <2>2. CASE g = e
    <3>1. /\ NextPeer(e) < replication_factor =>
               NextPeer(e) \in Others(e) /\ \A p \in Others(e) : p < NextPeer(e) <=> p < i[e] \/ p = i[e]
          /\ ~ (NextPeer(e) < replication_factor) => \A p \in Others(e) : p < i[e] \/ p = i[e]
      BY <1>2, NextPeerFacts DEF MeshInv
    <3>2. \A p \in Others(e) : client'[e][p] # NoSocket <=> p < i[e] \/ p = i[e]
      BY <1>1, <1>2, <1>3, SocketFacts DEF MeshInv, ConnectPart, Connecting
    <3>3. my_process_id(e) # i[e] /\ my_process_id(e) \in Peer
      BY <1>2, SocketFacts, InstanceFacts
    <3>4. client'[e][my_process_id(e)] = NoSocket
      BY <1>3, <3>3 DEF MeshInv, ConnectPart
    <3>5. \A p \in Peer : client'[e][p] # NoSocket =>
                            Group(e, client'[e][p]) /\ my_process_id(client'[e][p]) = p
      BY <1>2, <1>3 DEF MeshInv, ConnectPart
    <3> QED BY <1>4, <2>2, <3>1, <3>2, <3>4, <3>5 DEF Connecting
  <2> QED BY <2>1, <2>2
<1>11. AcceptPart'
  <2>1. ASSUME NEW g \in Instance, at'[g] = "receive"
        PROVE  /\ socket'[g] \in Instance /\ socket'[g] \notin Pending(g)'
               /\ server'[g][my_process_id(socket'[g])] # socket'[g]
               /\ Group(g, socket'[g]) /\ Opened(socket[g], g)'
    <3>1. at[g] = "receive"
      BY <1>4, <2>1
    <3>2. socket[g] \in Instance /\ Opened(socket[g], g)
      BY <3>1 DEF MeshInv, AcceptPart
    <3>3. Opened(socket[g], g)'
      <4>1. PICK h \in Instance : h = socket[g]
        BY <3>2
      <4>2. Opened(h, g)
        BY <3>2, <4>1
      <4>3. Opened(h, g)'
        BY <1>8, <4>2
      <4>4. socket'[g] = h
        BY <1>1, <4>1
      <4> QED BY <4>3, <4>4 DEF Opened
    <3> QED BY <1>1, <1>9, <3>1, <3>3 DEF MeshInv, AcceptPart
  <2>2. ASSUME NEW g \in Instance
        PROVE  /\ at'[g] # "aborted"
               /\ at'[g] \in Connecting \cup {"new"} => Filled(g)' = {}
               /\ at'[g] = "connected" => Cardinality(Filled(g)') = replication_factor - 1
               /\ \A h \in Pending(g)' : Group(g, h) /\ Opened(h, g)'
    BY <1>1, <1>4, <1>8, <1>9 DEF MeshInv, AcceptPart, Connecting
  <2>3. ASSUME NEW g \in Instance, at'[g] \in {"accept", "receive"}
        PROVE  i'[g] = Cardinality(Filled(g)') /\ i'[g] < replication_factor - 1
    <3>1. CASE g # e
      BY <1>4, <1>9, <2>3, <3>1 DEF MeshInv, AcceptPart
    <3>2. CASE g = e
      <4>1. i'[e] = 0 /\ Filled(e) = {}
        BY <1>1, <1>4, <2>3, <3>2 DEF MeshInv, AcceptPart, Connecting
      <4>2. 0 < replication_factor - 1
        BY MeshAssumption
      <4> QED BY <1>9, <3>2, <4>1, <4>2, FS_EmptySet
    <3> QED BY <3>1, <3>2
  <2>4. ASSUME NEW g \in Instance, NEW p \in Filled(g)
        PROVE  /\ Group(g, server'[g][p]) /\ my_process_id(server'[g][p]) = p
               /\ server'[g][p] \notin Pending(g)'
               /\ client'[server'[g][p]][my_process_id(g)] = g
    <3>1. /\ Group(g, server[g][p]) /\ my_process_id(server[g][p]) = p
          /\ server[g][p] \notin Pending(g)
          /\ client[server[g][p]][my_process_id(g)] = g
      BY DEF MeshInv, AcceptPart
    <3>2. server[g][p] \in Instance /\ my_process_id(g) \in Peer /\ g # NoSocket
      BY InstanceFacts, SocketFacts DEF MeshInv, MeshTypeOK, Filled
    <3>3. client'[server[g][p]][my_process_id(g)] = g
      BY <1>7, <3>1, <3>2
    <3> QED BY <1>1, <1>9, <3>1, <3>3
  <2>5. \A g \in Instance : \A m, n \in DOMAIN backlog'[g] : m # n => backlog'[g][m] # backlog'[g][n]
    BY <1>1 DEF MeshInv, AcceptPart
  <2> QED BY <1>9, <2>1, <2>2, <2>3, <2>4, <2>5 DEF AcceptPart
<1>12. SentPart'
  <2> SUFFICES ASSUME NEW g \in Instance, NEW h \in Instance, <<g, h>> \in sent'
               PROVE  client'[g][my_process_id(h)] = h
    BY DEF SentPart
  <2>1. my_process_id(h) \in Peer /\ h # NoSocket
    BY InstanceFacts, SocketFacts
  <2>2. CASE <<g, h>> \in sent
    BY <1>7, <2>1, <2>2 DEF MeshInv, SentPart
  <2>3. CASE <<g, h>> \notin sent
    BY <1>1, <1>2, <1>3, <2>3
  <2> QED BY <2>2, <2>3
<1> QED BY <1>6, <1>10, <1>11, <1>12 DEF MeshInv

LEMMA AcceptStep ==
  ASSUME MeshInv, NEW e \in Instance, Accept(e)
  PROVE  MeshInv'
<1> DEFINE q == backlog[e]
           f == Head(q)
<1>1. /\ at[e] = "accept" /\ q # <<>> /\ UNCHANGED <<i, client, server, sent>>
      /\ socket' = [socket EXCEPT ![e] = f] /\ backlog' = [backlog EXCEPT ![e] = Tail(q)]
      /\ at' = [at EXCEPT ![e] = "receive"]
  BY DEF Accept
<1>2. q \in Seq(Instance) /\ \A m, n \in DOMAIN q : m # n => q[m] # q[n]
  BY DEF MeshInv, MeshTypeOK, AcceptPart
<1>3. /\ at'[e] = "receive" /\ socket'[e] = f /\ backlog'[e] = Tail(q)
      /\ \A g \in Instance : g # e => at'[g] = at[g] /\ socket'[g] = socket[g] /\ backlog'[g] = backlog[g]
  BY <1>1 DEF MeshInv, MeshTypeOK
<1>4. /\ f \in Instance /\ f = q[1] /\ 1 \in DOMAIN q /\ Tail(q) \in Seq(Instance)
      /\ \A n \in DOMAIN Tail(q) : n + 1 \in DOMAIN q /\ n + 1 # 1 /\ Tail(q)[n] = q[n + 1] /\ n \in Nat
  BY <1>1, <1>2
<1>5. MeshTypeOK'
  BY <1>1, <1>4 DEF MeshInv, MeshTypeOK
<1>6. f \in Pending(e)
  BY <1>4 DEF Pending
<1> HIDE DEF f, q
<1>7. /\ Pending(e)' \subseteq Pending(e) /\ f \notin Pending(e)'
      /\ \A g \in Instance : g # e => Pending(g)' = Pending(g)
      /\ \A g \in Instance : Pending(g) \subseteq Instance
  <2>1. Pending(e)' = {Tail(q)[n] : n \in DOMAIN Tail(q)} /\ Pending(e) = {q[n] : n \in DOMAIN q}
    BY <1>3 DEF Pending, q
  <2>2. ASSUME NEW g \in Instance, g # e PROVE Pending(g)' = Pending(g)
    BY <1>3, <2>2 DEF Pending
  <2>3. \A g \in Instance : Pending(g) \subseteq Instance
    BY DEF MeshInv, MeshTypeOK, Pending
  <2> QED BY <1>2, <1>4, <2>1, <2>2, <2>3
<1>8. \A g, h \in Instance : Opened(g, h) => Opened(g, h)'
  BY <1>1, <1>3 DEF Opened
<1>9. \A g \in Instance : Filled(g)' = Filled(g)
  BY <1>1 DEF Filled
<1>10. ConnectPart'
  BY <1>1, <1>3 DEF MeshInv, ConnectPart, Connecting
<1>11. AcceptPart'
  <2>1. ASSUME NEW g \in Instance, at'[g] = "receive"
        PROVE  /\ socket'[g] \in Instance /\ socket'[g] \notin Pending(g)'
               /\ server'[g][my_process_id(socket'[g])] # socket'[g]
               /\ Group(g, socket'[g]) /\ Opened(socket[g], g)'
    <3>1. CASE g # e
      BY <1>1, <1>3, <1>7, <1>8, <2>1, <3>1 DEF MeshInv, AcceptPart
    <3>2. CASE g = e
      <4>1. Group(e, f) /\ Opened(f, e)
        BY <1>6 DEF MeshInv, AcceptPart
      <4>3. server[e][my_process_id(f)] # f
        <5> SUFFICES ASSUME server[e][my_process_id(f)] = f PROVE FALSE
          OBVIOUS
        <5>1. my_process_id(f) \in Filled(e)
          BY <1>4, InstanceFacts, SocketFacts DEF Filled
        <5> QED BY <1>6, <5>1 DEF MeshInv, AcceptPart
      <4>4. Opened(socket[e], e)'
        BY <1>1, <1>3, <1>4, <4>1 DEF Opened
      <4> QED BY <1>1, <1>3, <1>4, <1>7, <3>2, <4>1, <4>3, <4>4
    <3> QED BY <3>1, <3>2
  <2>2. ASSUME NEW g \in Instance
        PROVE  /\ at'[g] # "aborted"
               /\ at'[g] \in Connecting \cup {"new"} => Filled(g)' = {}
               /\ at'[g] \in {"accept", "receive"} => i'[g] = Cardinality(Filled(g)') /\ i'[g] < replication_factor - 1
               /\ at'[g] = "connected" => Cardinality(Filled(g)') = replication_factor - 1
    BY <1>1, <1>3, <1>9 DEF MeshInv, AcceptPart, Connecting
  <2>3. ASSUME NEW g \in Instance, NEW h \in Pending(g)'
        PROVE  Group(g, h) /\ Opened(h, g)'
    <3>1. h \in Pending(g) /\ h \in Instance
      BY <1>7, <2>3
    <3> QED BY <1>8, <3>1 DEF MeshInv, AcceptPart
  <2>4. ASSUME NEW g \in Instance, NEW p \in Filled(g)
        PROVE  /\ Group(g, server'[g][p]) /\ my_process_id(server'[g][p]) = p
               /\ server'[g][p] \notin Pending(g)'
               /\ client'[server'[g][p]][my_process_id(g)] = g
    BY <1>1, <1>7 DEF MeshInv, AcceptPart
  <2>5. ASSUME NEW g \in Instance, NEW m \in DOMAIN backlog'[g], NEW n \in DOMAIN backlog'[g], m # n
        PROVE  backlog'[g][m] # backlog'[g][n]
    <3>1. CASE g # e
      BY <1>3, <2>5, <3>1 DEF MeshInv, AcceptPart
    <3>2. CASE g = e
      <4>1. m \in DOMAIN Tail(q) /\ n \in DOMAIN Tail(q)
        BY <1>3, <2>5, <3>2
      <4>2. /\ m + 1 \in DOMAIN q /\ n + 1 \in DOMAIN q /\ m + 1 # n + 1
            /\ Tail(q)[m] = q[m + 1] /\ Tail(q)[n] = q[n + 1]
        BY <1>4, <2>5, <4>1
      <4> QED BY <1>2, <1>3, <3>2, <4>2
    <3> QED BY <3>1, <3>2
  <2> QED BY <1>9, <2>1, <2>2, <2>3, <2>4, <2>5 DEF AcceptPart
<1>12. SentPart'
  BY <1>1 DEF MeshInv, SentPart
<1> QED BY <1>5, <1>10, <1>11, <1>12 DEF MeshInv

\* The two assertions of accept_clients hold: the id is that of a peer that has
\* not been accepted before.
LEMMA ReceiveStep ==
  ASSUME MeshInv, NEW e \in Instance, ReceiveId(e)
  PROVE  MeshInv'
<1>1. PICK f \in Instance : f = socket[e]
  BY DEF ReceiveId, MeshInv, AcceptPart
<1> DEFINE id == my_process_id(f)
<1>2. /\ at[e] = "receive" /\ <<f, e>> \in sent /\ UNCHANGED <<client, backlog, sent, socket>>
  BY <1>1 DEF ReceiveId
<1>3. f \notin Pending(e) /\ server[e][id] # f /\ Group(e, f) /\ i[e] = Cardinality(Filled(e)) /\ i[e] < replication_factor - 1
  BY <1>1, <1>2 DEF MeshInv, AcceptPart
<1>4. id \in Peer /\ id < replication_factor /\ e # NoSocket /\ f # NoSocket
  BY InstanceFacts, SocketFacts
<1>5. server[e][id] = NoSocket
  <2> SUFFICES ASSUME server[e][id] # NoSocket PROVE FALSE
    OBVIOUS
  <2>1. id \in Filled(e) /\ server[e][id] \in Instance
    BY <1>4 DEF Filled, MeshInv, MeshTypeOK
  <2>2. Group(e, server[e][id]) /\ my_process_id(server[e][id]) = id
    BY <2>1 DEF MeshInv, AcceptPart
  <2> QED BY <1>3, <2>1, <2>2, GroupFacts
<1>6. /\ server' = [server EXCEPT ![e][id] = f]
      /\ i' = [i EXCEPT ![e] = @ + 1]
      /\ at' = [at EXCEPT ![e] = IF i[e] + 1 < replication_factor - 1 THEN "accept" ELSE "connected"]
  BY <1>1, <1>4, <1>5 DEF ReceiveId
<1>7. i[e] \in Nat /\ replication_factor \in Nat
  BY SocketFacts DEF MeshInv, MeshTypeOK
<1>8. MeshTypeOK'
  <2>1. i[e] + 1 \in 0..replication_factor
    BY <1>3, <1>7
  <2> QED BY <1>2, <1>4, <1>6, <2>1 DEF MeshInv, MeshTypeOK
<1> HIDE DEF id
<1>9. /\ server'[e][id] = f /\ \A p \in Peer : p # id => server'[e][p] = server[e][p]
      /\ \A g \in Instance : g # e => server'[g] = server[g] /\ i'[g] = i[g] /\ at'[g] = at[g]
      /\ i'[e] = i[e] + 1
      /\ at'[e] = IF i[e] + 1 < replication_factor - 1 THEN "accept" ELSE "connected"
  BY <1>4, <1>6 DEF MeshInv, MeshTypeOK
<1>10. /\ Filled(e)' = Filled(e) \cup {id} /\ id \notin Filled(e)
       /\ \A g \in Instance : g # e => Filled(g)' = Filled(g)
  BY <1>4, <1>5, <1>9 DEF Filled
<1>11. Cardinality(Filled(e)') = i[e] + 1
  <2>1. IsFiniteSet(Filled(e))
    BY SocketFacts, FS_Subset DEF Filled
  <2>2. Cardinality(Filled(e) \cup {id}) = Cardinality(Filled(e)) + 1
    BY <1>10, <2>1, FS_AddElement
  <2> QED BY <1>3, <1>10, <2>2
<1>12. \A g \in Instance : Pending(g)' = Pending(g) /\ Pending(g) \subseteq Instance
  BY <1>2 DEF Pending, MeshInv, MeshTypeOK
<1>13. \A g, h \in Instance : Opened(g, h) => Opened(g, h)'
  BY <1>2, <1>9 DEF Opened
<1>14. ConnectPart'
  BY <1>2, <1>9 DEF MeshInv, ConnectPart, Connecting
<1>15. AcceptPart'
  <2>1. ASSUME NEW g \in Instance, at'[g] = "receive"
        PROVE  /\ socket'[g] \in Instance /\ socket'[g] \notin Pending(g)'
               /\ server'[g][my_process_id(socket'[g])] # socket'[g]
               /\ Group(g, socket'[g]) /\ Opened(socket[g], g)'
    <3>1. g # e /\ at[g] = "receive"
      BY <1>9, <2>1
    <3>2. PICK h \in Instance : h = socket[g]
      BY <3>1 DEF MeshInv, AcceptPart
    <3>3. Opened(h, g)'
      BY <1>13, <3>1, <3>2 DEF MeshInv, AcceptPart
    <3>4. Opened(socket[g], g)'
      BY <1>2, <3>2, <3>3 DEF Opened
    <3> QED BY <1>2, <1>9, <1>12, <3>1, <3>4 DEF MeshInv, AcceptPart
  <2>2. ASSUME NEW g \in Instance
        PROVE  /\ at'[g] # "aborted"
               /\ at'[g] \in Connecting \cup {"new"} => Filled(g)' = {}
               /\ at'[g] \in {"accept", "receive"} => i'[g] = Cardinality(Filled(g)') /\ i'[g] < replication_factor - 1
               /\ at'[g] = "connected" => Cardinality(Filled(g)') = replication_factor - 1
    <3>1. CASE g # e
      BY <1>9, <1>10, <3>1 DEF MeshInv, AcceptPart
    <3>2. CASE g = e
      BY <1>3, <1>7, <1>9, <1>11, <3>2 DEF Connecting
    <3> QED BY <3>1, <3>2
  <2>3. ASSUME NEW g \in Instance, NEW h \in Pending(g)'
        PROVE  Group(g, h) /\ Opened(h, g)'
    BY <1>12, <1>13, <2>3 DEF MeshInv, AcceptPart
  <2>4. ASSUME NEW g \in Instance, NEW p \in Filled(g)'
        PROVE  /\ Group(g, server'[g][p]) /\ my_process_id(server'[g][p]) = p
               /\ server'[g][p] \notin Pending(g)'
               /\ client'[server'[g][p]][my_process_id(g)] = g
    <3>1. CASE g = e /\ p = id
      <4>1. client[f][my_process_id(e)] = e
        BY <1>2 DEF MeshInv, SentPart
      <4> QED BY <1>2, <1>3, <1>9, <1>12, <3>1, <4>1 DEF id
    <3>2. CASE ~ (g = e /\ p = id)
      <4>1. p \in Filled(g) /\ server'[g][p] = server[g][p]
        BY <1>9, <1>10, <2>4, <3>2 DEF Filled
      <4> QED BY <1>2, <1>12, <4>1 DEF MeshInv, AcceptPart
    <3> QED BY <3>1, <3>2
  <2>5. \A g \in Instance : \A m, n \in DOMAIN backlog'[g] : m # n => backlog'[g][m] # backlog'[g][n]
    BY <1>2 DEF MeshInv, AcceptPart
  <2> QED BY <2>1, <2>2, <2>3, <2>4, <2>5 DEF AcceptPart
<1>16. SentPart'
  BY <1>2 DEF MeshInv, SentPart
<1> QED BY <1>8, <1>14, <1>15, <1>16 DEF MeshInv

LEMMA MeshStutter ==
  ASSUME MeshInv, UNCHANGED mvars
  PROVE  MeshInv'
<1> USE DEF mvars
<1>1. MeshTypeOK'
  BY DEF MeshInv, MeshTypeOK
<1>2. ConnectPart'
  BY DEF MeshInv, ConnectPart
<1>3. AcceptPart'
  <2>1. \A e \in Instance : Filled(e)' = Filled(e) /\ Pending(e)' = Pending(e)
    BY DEF Filled, Pending
  <2>2. \A e, f : Opened(f, e)' <=> Opened(f, e)
    BY DEF Opened
  <2>3. \A e : Opened(socket[e], e)' <=> Opened(socket[e], e)
    BY DEF Opened
  <2> QED BY <2>1, <2>2, <2>3 DEF MeshInv, AcceptPart
<1>4. SentPart'
  BY DEF MeshInv, SentPart
<1> QED BY <1>1, <1>2, <1>3, <1>4 DEF MeshInv

LEMMA MeshInductive == MeshInv /\ [MeshNext]_mvars => MeshInv'
<1> SUFFICES ASSUME MeshInv, [MeshNext]_mvars PROVE MeshInv'
  OBVIOUS
<1>1. ASSUME NEW e \in Instance, MeshStep(e) PROVE MeshInv'
  BY <1>1, ConstructStep, ConnectStep, SendStep, AcceptStep, ReceiveStep DEF MeshStep
<1>2. ASSUME NEW e \in Instance, Retry(e) PROVE MeshInv'
  BY <1>2, MeshStutter DEF Retry
<1>3. CASE UNCHANGED mvars
  BY <1>3, MeshStutter
<1> QED BY <1>1, <1>2, <1>3 DEF MeshNext

LEMMA MeshInvComplete == MeshInv => MeshComplete
<1> SUFFICES ASSUME MeshInv, NEW e \in Instance
             PROVE  /\ at[e] # "aborted"
                    /\ at[e] = "connected" =>
                         \A p \in Others(e) :
                           /\ client[e][p] # NoSocket /\ my_process_id(client[e][p]) = p
                           /\ server[e][p] # NoSocket /\ my_process_id(server[e][p]) = p
                           /\ server[e][p] = client[e][p]
                           /\ client[server[e][p]][my_process_id(e)] = e
  BY DEF MeshComplete
<1>1. at[e] # "aborted"
  BY DEF MeshInv, AcceptPart
<1>2. ASSUME at[e] = "connected", NEW p \in Others(e)
      PROVE  /\ client[e][p] # NoSocket /\ my_process_id(client[e][p]) = p
             /\ server[e][p] # NoSocket /\ my_process_id(server[e][p]) = p
             /\ server[e][p] = client[e][p]
             /\ client[server[e][p]][my_process_id(e)] = e
  <2>1. p \in Peer
    BY SocketFacts
  <2>0. \A x \in Peer : /\ client[e][x] \in Instance \cup {NoSocket}
                        /\ server[e][x] \in Instance \cup {NoSocket}
    BY DEF MeshInv, MeshTypeOK
  <2>2. client[e][p] # NoSocket /\ client[e][p] \in Instance /\ Group(e, client[e][p]) /\ my_process_id(client[e][p]) = p
    BY <1>2, <2>0, <2>1 DEF MeshInv, ConnectPart, Connecting
  <2>3. p \in Filled(e)
    <3>1. \A x \in Filled(e) : x # my_process_id(e)
      <4> SUFFICES ASSUME my_process_id(e) \in Filled(e) PROVE FALSE
        OBVIOUS
      <4> DEFINE f == server[e][my_process_id(e)]
      <4>1. f \in Instance /\ Group(e, f) /\ my_process_id(f) = my_process_id(e) /\ client[f][my_process_id(e)] = e
        <5>1. f \in Instance
          BY <2>0 DEF Filled
        <5> QED BY <5>1 DEF MeshInv, AcceptPart
      <4> HIDE DEF f
      <4>2. Group(e, e)
        BY DEF Group
      <4>3. f = e
        BY <4>1, <4>2, GroupFacts
      <4> QED BY <4>1, <4>3, SocketFacts DEF MeshInv, ConnectPart
    <3>2. Filled(e) \subseteq Others(e)
      BY <3>1, SocketFacts DEF Filled
    <3>3. IsFiniteSet(Others(e)) /\ Cardinality(Others(e)) = replication_factor - 1
      <4>1. my_process_id(e) \in Peer
        BY InstanceFacts
      <4>2. Cardinality(Peer) = replication_factor
        <5>1. 0 \in Int /\ replication_factor - 1 \in Int /\ ~ (0 > replication_factor - 1)
          BY MeshAssumption
        <5>2. Cardinality(0..(replication_factor - 1)) = (replication_factor - 1) - 0 + 1
          BY <5>1, FS_Interval
        <5> QED BY <5>1, <5>2, SocketFacts DEF Peer
      <4> QED BY <4>1, <4>2, SocketFacts, FS_RemoveElement DEF Others
    <3>4. Cardinality(Filled(e)) = replication_factor - 1
      BY <1>2 DEF MeshInv, AcceptPart
    <3>5. Filled(e) = Others(e)
      BY <3>2, <3>3, <3>4, FS_Subset
    <3> QED BY <1>2, <3>5
  <2>4. /\ server[e][p] # NoSocket /\ server[e][p] \in Instance /\ Group(e, server[e][p])
        /\ my_process_id(server[e][p]) = p /\ client[server[e][p]][my_process_id(e)] = e
    <3>1. server[e][p] # NoSocket /\ server[e][p] \in Instance
      BY <2>0, <2>3 DEF Filled
    <3> QED BY <2>3, <3>1 DEF MeshInv, AcceptPart
  <2>5. server[e][p] = client[e][p]
    BY <2>2, <2>4, GroupFacts
  <2> QED BY <2>2, <2>4, <2>5
<1> QED BY <1>1, <1>2

\* Whatever the order in which the processes of an experiment come up, every
\* instance that has connected and accepted shares one connection each way with
\* every replica of its store, and no assertion of accept_clients fails.
THEOREM MeshCorrect == MeshSpec => [](MeshTypeOK /\ MeshComplete)
<1>1. MeshInv => MeshTypeOK /\ MeshComplete
  BY MeshInvComplete DEF MeshInv
<1> QED BY <1>1, MeshInitInv, MeshInductive, PTL DEF MeshSpec

LEMMA IvpMeshStep == [Next]_vars => [MeshNext]_mvars
<1> SUFFICES ASSUME [Next]_vars PROVE [MeshNext]_mvars
  OBVIOUS
<1>1. CASE ConnectMesh
  BY <1>1 DEF ConnectMesh
<1>2. CASE Tick \/ Stop \/ UNCHANGED vars
  BY <1>2 DEF Tick, Stop, vars
<1>3. ASSUME NEW n \in Replica, StartServer(n) \/ Start(n) \/ BeginJob(n) \/ ReadState(n) \/ WriteState(n) \/ CollectGarbage(n)
      PROVE  UNCHANGED mvars
  BY <1>3 DEF StartServer, Start, BeginJob, ReadState, WriteState, CollectGarbage
<1> QED BY <1>1, <1>2, <1>3 DEF Next

\* The experiment's processes connect as the mesh does, whatever its jobs and
\* servers do in between: the inductive invariant of the mesh holds in it too.
THEOREM IvpMesh == Spec => []MeshInv
<1>1. MeshInv /\ [Next]_vars => MeshInv'
  BY IvpMeshStep, MeshInductive
<1>2. Init => MeshInv
  BY MeshInitInv DEF Init
<1> QED BY <1>1, <1>2, PTL DEF Spec

\* The same of the experiment as a whole.
THEOREM IvpMeshComplete == Spec => []MeshComplete
BY IvpMesh, MeshInvComplete, PTL

-----------------------------------------------------------------------------
(* The inductive invariant of the jobs and the servers.                    *)

Stored == [value : Nat, time : Nat, until : Int]
Record == [value : Nat, time : Nat]

JobTypes ==
  /\ kvs_type \in KvsTypes /\ use_simple_median \in BOOLEAN
  /\ now \in 0..MaxTime
  /\ serving \subseteq Replica /\ slipped \subseteq Replica
  /\ clients \in [Replica -> SUBSET Replica]
  /\ bucket \in [Replica -> [Key -> SUBSET Stored]]
  /\ pc \in [Replica -> {"off", "asleep", "read", "compute", "crashed"}]
  /\ state \in [Replica -> [Key -> Nat]]
  /\ release \in [Replica -> Nat]
  /\ published \in [Replica -> Nat]
  /\ num_jobs \in [Replica -> 0..max_jobs]
  /\ written \in [Replica -> [Key -> SUBSET Record]]
  /\ \A n \in Replica : pc[n] \in {"read", "compute"} => num_jobs[n] < max_jobs

IsRelease(t) == \E q \in Nat : t = q * time_period

\* A job belongs to a release that has come.
Scheduled(n) ==
  /\ pc[n] = "asleep" => IsRelease(release[n])
  /\ pc[n] \in {"read", "compute"} => IsRelease(published[n]) /\ published[n] <= now

\* A replica writes for one release after another, and at most one of them has
\* not come.
Ordered(n) ==
  \A k \in Key :
    /\ pc[n] = "off" => written[n][k] = {}
    /\ \A w \in written[n][k] :
         /\ pc[n] = "asleep" => w.time <= release[n]
         /\ pc[n] \in {"read", "compute"} => w.time <= published[n]
    /\ \A u, w \in written[n][k] : u.time = w.time \/ (u.time > now /\ w.time > now) => u = w

OneAhead == \A n \in Replica : Scheduled(n) /\ Ordered(n)

\* Of the records W of a key, w is the last, or the last but one and its value
\* has not been written again.
Recent(W, w) ==
  \A u, x \in W : w.time < u.time /\ w.time < x.time => u = x /\ u.value # w.value

\* A bucket B against the records W written to it: it holds nothing else, and
\* the recent ones for two periods at least.
Retains(B, W) ==
  /\ \A e \in B : [value |-> e.value, time |-> e.time] \in W
  /\ \A w \in W : Recent(W, w) =>
       \E e \in B : /\ e.value = w.value /\ e.time = w.time
                    /\ e.until = Forever \/ e.until >= w.time + 2 * time_period

Registers ==
  \A n \in Replica, k \in Key :
    /\ IsFiniteSet(bucket[n][k])
    /\ Retains(bucket[n][k], written[n][k])
    /\ kvs_type # "etcd" => \A e \in bucket[n][k] : e.until = Forever

JobInv == JobTypes /\ OneAhead /\ Registers

-----------------------------------------------------------------------------
(* What a read returns.                                                    *)

LEMMA ReplicaFacts == IsFiniteSet(Replica)
<1> DEFINE U == first_node..(first_node + replication_factor - 1)
<1>1. first_node \in Int /\ first_node + replication_factor - 1 \in Int /\ first_node \in U
  BY MeshAssumption
<1>2. IsFiniteSet(U)
  BY <1>1, FS_Interval
<1>3. Replica \in SUBSET U
  <2>1. CASE Local
    BY <1>1, <2>1 DEF Replica, Instance
  <2>2. CASE ~ Local
    BY <2>2 DEF Replica, Instance
  <2> QED BY <2>1, <2>2
<1> QED BY <1>2, <1>3, FS_Subset

LEMMA DueFacts ==
  ASSUME NEW b \in SUBSET Stored, NEW t, NEW u
  PROVE  due(b, t, u) \subseteq Nat
BY DEF due, Stored

\* The median and the majority of natural numbers are natural numbers.
LEMMA FuseFacts ==
  ASSUME NEW S, IsFiniteSet(S), NEW votes \in [S -> Nat], NEW m \in BOOLEAN
  PROVE  fuse_redundant_values(votes, m) \subseteq Nat
<1> DEFINE n == Cardinality(S)
<1>1. n \in Nat /\ DOMAIN votes = S
  BY FS_CardinalityType
<1>2. CASE m /\ n > 2
  <2> DEFINE sorted == CHOOSE s \in SetToSeqs(S) : \A j \in 1..(n - 1) : votes[s[j]] <= votes[s[j + 1]]
             upper == (n \div 2) + 1
             lower == ((n - 1) \div 2) + 1
  <2>1. votes \in [S -> Int]
    OBVIOUS
  <2>2. sorted \in SetToSeqs(S)
    BY <2>1, SortedExists
  <2>3. sorted \in [1..n -> S]
    BY <2>2 DEF SetToSeqs
  <2>4. upper \in 1..n /\ lower \in 1..n
    <3> HIDE DEF n
    <3> QED BY <1>1, <1>2, Z3
  <2>5. votes[sorted[upper]] \in Nat /\ votes[sorted[lower]] \in Nat
    <3> HIDE DEF n, upper, lower, sorted
    <3> QED BY <2>3, <2>4
  <2>6. (votes[sorted[upper]] + votes[sorted[lower]]) \div 2 \in Nat
    <3> DEFINE a == votes[sorted[upper]] + votes[sorted[lower]]
    <3>1. a \in Nat
      BY <2>5
    <3> HIDE DEF a
    <3>2. a \div 2 \in Nat
      BY <3>1, Z3
    <3> QED BY <3>2 DEF a
  <2>7. MedianOf(votes) = (votes[sorted[upper]] + votes[sorted[lower]]) \div 2
    BY <1>1 DEF MedianOf
  <2>8. fuse_redundant_values(votes, m) = {MedianOf(votes)}
    BY <1>1, <1>2 DEF fuse_redundant_values
  <2> QED BY <2>6, <2>7, <2>8
<1>3. CASE m /\ ~ (n > 2)
  BY <1>1, <1>3 DEF fuse_redundant_values
<1>4. CASE ~ m
  BY <1>1, <1>4 DEF fuse_redundant_values, Range
<1> QED BY <1>2, <1>3, <1>4

LEMMA ReadFacts ==
  ASSUME JobTypes, NEW n \in Replica, NEW k \in Key, NEW t \in Int
  PROVE  try_read(n, k, t) \subseteq Nat
<1> DEFINE Says(s) == due(bucket[s][k], t, now)
           S == {s \in clients[n] : Says(s) # {}}
           votes == [s \in S |-> CHOOSE v \in Says(s) : TRUE]
<1>1. clients[n] \in SUBSET Replica /\ use_simple_median \in BOOLEAN
  BY DEF JobTypes
<1>2. IsFiniteSet(S)
  BY <1>1, ReplicaFacts, FS_Subset
<1>3. ASSUME NEW s \in S PROVE votes[s] \in Nat
  <2>1. bucket[s][k] \in SUBSET Stored
    BY <1>1 DEF JobTypes
  <2>2. Says(s) \subseteq Nat /\ Says(s) # {}
    BY <2>1, DueFacts
  <2> HIDE DEF Says
  <2> QED BY <2>2
<1>4. votes \in [S -> Nat]
  BY <1>3
<1>5. fuse_redundant_values(votes, use_simple_median) \subseteq Nat
  <2> HIDE DEF votes, S
  <2> QED BY <1>1, <1>2, <1>4, FuseFacts
<1>6. try_read(n, k, t) = IF t > now THEN {} ELSE fuse_redundant_values(votes, use_simple_median)
  BY DEF try_read
<1> QED BY <1>5, <1>6

-----------------------------------------------------------------------------
(* Types.                                                                  *)

LEMMA TypesInit == Init => JobTypes
<1> SUFFICES ASSUME Init PROVE JobTypes
  OBVIOUS
<1>1. InitialState \in [Key -> Nat]
  BY DEF InitialState, Key
<1>2. Nothing \in [Key -> SUBSET Stored] /\ Nothing \in [Key -> SUBSET Record]
  BY DEF Nothing
<1> QED BY <1>1, <1>2, IvpAssumption DEF Init, JobTypes

LEMMA ReleaseTypes ==
  ASSUME NEW t \in Nat
  PROVE  /\ next_release(t) \in Nat /\ next_release(t) > t
         /\ \E q \in Nat : next_release(t) = q * time_period
         /\ \A q \in Nat : q * time_period <= t => q * time_period + time_period <= next_release(t)
<1>0. time_period \in Nat \ {0}
  BY IvpAssumption
<1> DEFINE d == t \div time_period
<1>1. /\ d \in Nat /\ d * time_period \in Nat /\ (d + 1) * time_period = d * time_period + time_period
      /\ \A q \in Nat : q * time_period <= t => q * time_period <= d * time_period
  BY <1>0, LastMultiple
<1>2. t < d * time_period + time_period
  BY <1>0, Quotient
<1>3. next_release(t) = (d + 1) * time_period
  BY DEF next_release
<1> HIDE DEF d
<1>4. next_release(t) = d * time_period + time_period /\ d + 1 \in Nat
  BY <1>1, <1>3
<1>5. \E q \in Nat : next_release(t) = q * time_period
  BY <1>3, <1>4
<1>6. ASSUME NEW q \in Nat, q * time_period <= t
      PROVE  q * time_period + time_period <= next_release(t)
  <2>1. q * time_period \in Nat /\ q * time_period <= d * time_period
    BY <1>0, <1>1, <1>6
  <2> QED BY <1>0, <1>1, <1>4, <2>1
<1> QED BY <1>0, <1>1, <1>2, <1>4, <1>5, <1>6

\* The release a job begins at is a multiple of the period that has come, and
\* no earlier than the one its task waited for.
LEMMA BeginTypes ==
  ASSUME now \in Nat
  PROVE  /\ my_release_time \in Nat /\ my_release_time <= now /\ IsRelease(my_release_time)
         /\ \A q \in Nat : q * time_period <= now => q * time_period <= my_release_time
BY IvpAssumption, LastMultiple DEF my_release_time, IsRelease

LEMMA WriteTypes ==
  ASSUME JobTypes, NEW n \in Replica, NEW k \in Key, NEW t \in Nat, NEW v \in Nat
  PROVE  try_write(n, k, t, v) \in SUBSET Stored
<1>1. bucket[n][k] \in SUBSET Stored /\ now \in Nat /\ now + ttl \in Int /\ Forever \in Int
  BY IvpAssumption, ServerAssumption DEF JobTypes, Forever
<1>2. etcd_set(bucket[n][k], v, t, now) \in SUBSET Stored
  BY <1>1 DEF etcd_set, Stored
<1>3. zadd(bucket[n][k], v, t) \in SUBSET Stored
  BY <1>1 DEF zadd, Stored
<1> QED BY <1>1, <1>2, <1>3 DEF try_write

LEMMA SimulateTypes ==
  ASSUME NEW x \in [Key -> Nat]
  PROVE  Simulate(x) \in [Key -> Nat]
BY DEF Simulate, Key

LEMMA TypesStep ==
  ASSUME JobTypes, [Next]_vars
  PROVE  JobTypes'
<1>0. now \in Nat /\ now \in 0..MaxTime /\ MaxTime \in Nat /\ max_jobs \in Nat /\ time_period \in Nat \ {0} /\ Delay \in Nat
  BY IvpAssumption DEF JobTypes
<1>1. CASE ConnectMesh \/ Stop \/ UNCHANGED vars
  BY <1>1 DEF ConnectMesh, Stop, vars, ivars, JobTypes
<1>2. CASE Tick
  <2>1. now' \in 0..MaxTime
    BY <1>0, <1>2 DEF Tick
  <2>2. slipped' \subseteq Replica
    BY <1>2 DEF Tick, Released, JobTypes
  <2> QED BY <1>2, <2>1, <2>2 DEF Tick, JobTypes
<1>3. ASSUME NEW n \in Replica, StartServer(n) PROVE JobTypes'
  BY <1>3 DEF StartServer, JobTypes
<1>4. ASSUME NEW n \in Replica, Start(n) PROVE JobTypes'
  <2>1. CASE n \in serving
    <3>1. /\ clients' \in [Replica -> SUBSET Replica]
          /\ bucket' \in [Replica -> [Key -> SUBSET Stored]]
          /\ written' \in [Replica -> [Key -> SUBSET Record]]
      <4>1. Nothing \in [Key -> SUBSET Stored] /\ Nothing \in [Key -> SUBSET Record]
        BY DEF Nothing
      <4>2. get_redis_clients(n) \/ get_etcd_client(n)
        BY <1>4, <2>1 DEF Start
      <4> QED BY <4>1, <4>2 DEF get_redis_clients, get_etcd_client, JobTypes
    <3>2. next_release(now + Delay) \in Nat
      BY <1>0, ReleaseTypes
    <3>3. slipped' \subseteq Replica
      BY <1>4, <2>1 DEF Start, JobTypes
    <3>4. pc' = [pc EXCEPT ![n] = "asleep"] /\ release' = [release EXCEPT ![n] = next_release(now + Delay)]
      BY <1>4, <2>1 DEF Start
    <3>5. UNCHANGED <<kvs_type, use_simple_median, now, serving, state, published, num_jobs, inputs>>
      BY <1>4 DEF Start
    <3> QED BY <3>1, <3>2, <3>3, <3>4, <3>5 DEF JobTypes
  <2>2. CASE n \notin serving
    BY <1>4, <2>2 DEF Start, JobTypes
  <2> QED BY <2>1, <2>2
<1>5. ASSUME NEW n \in Replica, BeginJob(n) PROVE JobTypes'
  BY <1>0, <1>5, BeginTypes DEF BeginJob, JobTypes
<1>6. ASSUME NEW n \in Replica, ReadState(n) PROVE JobTypes'
  <2> DEFINE values == [k \in Key |-> try_read(n, k, published[n] - time_period)]
  <2>1. CASE num_jobs[n] = 0
    BY <1>6, <2>1 DEF ReadState, JobTypes
  <2>2. CASE num_jobs[n] > 0 /\ clients[n] # Replica
    BY <1>6, <2>2 DEF ReadState, JobTypes
  <2>3. CASE ~ (num_jobs[n] = 0) /\ ~ (num_jobs[n] > 0 /\ clients[n] # Replica)
    <3>1. published[n] - time_period \in Int
      BY <1>0 DEF JobTypes
    <3>2. \A k \in Key : values[k] \subseteq Nat
      BY <3>1, ReadFacts
    <3>3. /\ state' = [state EXCEPT ![n] = [k \in Key |-> read_into(state[n][k], values[k])]]
          /\ pc' = [pc EXCEPT ![n] = "compute"] /\ UNCHANGED slipped /\ pc[n] = "read"
      BY <1>6, <2>3 DEF ReadState
    <3>4. ASSUME NEW k \in Key PROVE read_into(state[n][k], values[k]) \in Nat
      <4>1. values[k] \subseteq Nat /\ state[n][k] \in Nat
        BY <3>2 DEF JobTypes
      <4> HIDE DEF values
      <4> QED BY <4>1 DEF read_into
    <3>5. state' \in [Replica -> [Key -> Nat]]
      <4> HIDE DEF values
      <4> QED BY <3>3, <3>4 DEF JobTypes
    <3>6. UNCHANGED <<kvs_type, use_simple_median, now, serving, clients, bucket, release, published, num_jobs, written>>
      BY <1>6 DEF ReadState
    <3> HIDE DEF values
    <3> QED BY <3>3, <3>5, <3>6 DEF JobTypes
  <2> QED BY <2>1, <2>2, <2>3
<1>7. ASSUME NEW n \in Replica, WriteState(n) PROVE JobTypes'
  <2> DEFINE x == Simulate(state[n])
             pt == published[n] + time_period
  <2>1. x \in [Key -> Nat] /\ pt \in Nat
    BY <1>0, SimulateTypes DEF JobTypes
  <2>2. \A k \in Key : x[k] \in Nat /\ try_write(n, k, pt, x[k]) \in SUBSET Stored
    BY <2>1, WriteTypes
  <2>3. /\ pc[n] = "compute"
        /\ state' = [state EXCEPT ![n] = x]
        /\ bucket' = [bucket EXCEPT ![n] = [k \in Key |-> try_write(n, k, pt, x[k])]]
        /\ written' = [written EXCEPT ![n] = [k \in Key |->
             written[n][k] \cup {[value |-> x[k], time |-> t] : t \in {pt} \ 0..now}]]
        /\ pc' = [pc EXCEPT ![n] = "asleep"]
        /\ num_jobs' = [num_jobs EXCEPT ![n] = num_jobs[n] + 1]
        /\ release' = [release EXCEPT ![n] = next_release(now)]
        /\ UNCHANGED <<kvs_type, use_simple_median, now, serving, clients, published, slipped>>
    BY <1>7 DEF WriteState
  <2>4. next_release(now) \in Nat
    BY <1>0, ReleaseTypes
  <2> HIDE DEF x, pt
  <2>5. bucket' \in [Replica -> [Key -> SUBSET Stored]]
    BY <2>2, <2>3 DEF JobTypes
  <2>6. written' \in [Replica -> [Key -> SUBSET Record]]
    <3>1. ASSUME NEW k \in Key
          PROVE  written[n][k] \cup {[value |-> x[k], time |-> t] : t \in {pt} \ 0..now} \in SUBSET Record
      BY <2>1, <2>2 DEF JobTypes, Record
    <3> QED BY <2>3, <3>1 DEF JobTypes
  <2>7. num_jobs' \in [Replica -> 0..max_jobs]
    BY <1>0, <2>3 DEF JobTypes
  <2> QED BY <2>1, <2>3, <2>4, <2>5, <2>6, <2>7 DEF JobTypes
<1>8. ASSUME NEW n \in Replica, CollectGarbage(n) PROVE JobTypes'
  <2>1. \A k \in Key : collect(bucket[n][k]) \in SUBSET Stored
    BY DEF collect, JobTypes
  <2> QED BY <1>8, <2>1 DEF CollectGarbage, JobTypes
<1> QED BY <1>1, <1>2, <1>3, <1>4, <1>5, <1>6, <1>7, <1>8 DEF Next

\* Every value that a replica computes, reads and stores is a number and every
\* job is counted, for every number of replicas, every period and both fusions:
\* the type invariant.
THEOREM IvpTypes == Spec => []TypeOK
<1>1. JobTypes /\ [Next]_vars => JobTypes'
  BY TypesStep
<1>2. JobTypes /\ MeshInv => TypeOK
  <2> SUFFICES ASSUME JobTypes, MeshInv PROVE TypeOK
    OBVIOUS
  <2>1. MeshTypeOK
    BY DEF MeshInv
  <2>2. ASSUME NEW n \in Replica
        PROVE  /\ clients[n] \subseteq Replica
               /\ pc[n] \in {"off", "asleep", "read", "compute", "crashed"}
               /\ num_jobs[n] \in 0..max_jobs
               /\ DOMAIN state[n] = Key /\ Range(state[n]) \subseteq Nat
    BY DEF JobTypes, Range
  <2>3. ASSUME NEW n \in Replica, NEW k \in Key, NEW e \in bucket[n][k]
        PROVE  e.value \in Nat /\ e.time \in Nat
    <3>1. e \in Stored
      BY DEF JobTypes
    <3> QED BY <3>1 DEF Stored
  <2>4. /\ kvs_type \in KvsTypes /\ use_simple_median \in BOOLEAN
        /\ now \in 0..MaxTime
        /\ serving \subseteq Replica /\ slipped \subseteq Replica
    BY DEF JobTypes
  <2> QED BY <2>1, <2>2, <2>3, <2>4 DEF TypeOK
<1> QED BY <1>1, <1>2, TypesInit, IvpMesh, PTL DEF Spec

-----------------------------------------------------------------------------
(* The order of the releases a replica writes for.                         *)

LEMMA AheadInit == Init => OneAhead
<1> SUFFICES ASSUME Init, NEW n \in Replica PROVE Scheduled(n) /\ Ordered(n)
  BY DEF OneAhead
<1>1. pc[n] = "off" /\ written[n] = Nothing
  BY DEF Init
<1> QED BY <1>1 DEF Scheduled, Ordered, Nothing

\* What a step leaves alone, and an emptied server, stay in order.
LEMMA AheadKept ==
  ASSUME JobTypes, NEW n \in Replica, Scheduled(n), Ordered(n), now' \in Nat, now <= now',
         UNCHANGED <<pc[n], release[n], published[n]>>,
         written'[n] = written[n] \/ written'[n] = Nothing
  PROVE  Scheduled(n)' /\ Ordered(n)'
<1>0. now \in Nat /\ now' \in Nat
  BY IvpAssumption DEF JobTypes
<1>1. Scheduled(n)'
  BY <1>0 DEF Scheduled, IsRelease, JobTypes
<1>2. ASSUME NEW k \in Key
      PROVE  /\ pc'[n] = "off" => written'[n][k] = {}
             /\ \A w \in written'[n][k] :
                  /\ pc'[n] = "asleep" => w.time <= release'[n]
                  /\ pc'[n] \in {"read", "compute"} => w.time <= published'[n]
             /\ \A u, w \in written'[n][k] : u.time = w.time \/ (u.time > now' /\ w.time > now') => u = w
  <2>1. CASE written'[n] = Nothing
    BY <2>1 DEF Nothing
  <2>2. CASE written'[n] = written[n]
    <3>1. \A w \in written[n][k] : w.time \in Nat
      BY DEF JobTypes, Record
    <3>2. \A u, w \in written[n][k] : (u.time > now' /\ w.time > now') => (u.time > now /\ w.time > now)
      BY <1>0, <3>1
    <3> QED BY <2>2, <3>2 DEF Ordered
  <2> QED BY <2>1, <2>2
<1> QED BY <1>1, <1>2 DEF Ordered

LEMMA AheadStep ==
  ASSUME JobTypes, OneAhead, [Next]_vars
  PROVE  OneAhead'
<1>0. now \in Nat /\ now <= now /\ time_period \in Nat \ {0} /\ Delay \in Nat
  BY IvpAssumption DEF JobTypes
<1>a. \A n \in Replica : Scheduled(n) /\ Ordered(n)
  BY DEF OneAhead
<1> SUFFICES ASSUME NEW m \in Replica PROVE Scheduled(m)' /\ Ordered(m)'
  BY DEF OneAhead
<1>1. CASE ConnectMesh \/ Stop \/ UNCHANGED vars
  <2>1. UNCHANGED ivars
    BY <1>1 DEF ConnectMesh, Stop, vars
  <2> QED BY <1>0, <1>a, <2>1, AheadKept DEF ivars
<1>2. CASE Tick
  BY <1>0, <1>2, <1>a, AheadKept DEF Tick
<1>3. ASSUME NEW n \in Replica, StartServer(n) \/ ReadState(n) \/ CollectGarbage(n) PROVE Scheduled(m)' /\ Ordered(m)'
  <2>1. UNCHANGED <<now, release, published, written>>
    BY <1>3 DEF StartServer, ReadState, CollectGarbage
  <2>2. \/ pc'[m] = pc[m]
        \/ pc[m] = "read" /\ pc'[m] \in {"compute", "crashed"}
    BY <1>3 DEF StartServer, ReadState, CollectGarbage, JobTypes
  <2>3. CASE pc'[m] = pc[m]
    BY <1>0, <1>a, <2>1, <2>3, AheadKept
  <2>4. CASE pc[m] = "read" /\ pc'[m] \in {"compute", "crashed"}
    BY <1>a, <2>1, <2>4 DEF Scheduled, Ordered, IsRelease
  <2> QED BY <2>2, <2>3, <2>4
<1>4. ASSUME NEW n \in Replica, Start(n) PROVE Scheduled(m)' /\ Ordered(m)'
  <2>0. /\ pc[n] = "off" /\ UNCHANGED <<now, published>>
        /\ pc' = [pc EXCEPT ![n] = IF n \in serving THEN "asleep" ELSE "crashed"]
        /\ release' = [release EXCEPT ![n] = IF n \in serving THEN next_release(now + Delay) ELSE release[n]]
    BY <1>4 DEF Start, JobTypes
  <2>1. written'[m] = written[m] \/ written'[m] = Nothing
    BY <1>4 DEF Start, get_redis_clients, get_etcd_client
  <2>2. CASE m # n
    <3>1. UNCHANGED <<pc[m], release[m], published[m]>>
      BY <2>0, <2>2 DEF JobTypes
    <3> QED BY <1>0, <1>a, <2>0, <2>1, <3>1, AheadKept
  <2>3. CASE m = n
    <3>1. \A k \in Key : written'[m][k] = {}
      BY <1>a, <2>0, <2>1, <2>3 DEF Ordered, Nothing
    <3>2. pc'[m] \in {"asleep", "crashed"} /\ (pc'[m] = "asleep" => release'[m] = next_release(now + Delay))
      BY <2>0, <2>3 DEF JobTypes
    <3>3. \E q \in Nat : next_release(now + Delay) = q * time_period
      <4>1. now + Delay \in Nat
        BY <1>0
      <4> QED BY <4>1, ReleaseTypes
    <3>4. Scheduled(m)'
      BY <3>2, <3>3 DEF Scheduled, IsRelease
    <3> QED BY <3>1, <3>4 DEF Ordered
  <2> QED BY <2>2, <2>3
<1>5. ASSUME NEW n \in Replica, BeginJob(n) PROVE Scheduled(m)' /\ Ordered(m)'
  <2>0. /\ pc[n] = "asleep" /\ now >= release[n] /\ UNCHANGED <<now, release, written>>
        /\ pc' = [pc EXCEPT ![n] = "read"]
        /\ published' = [published EXCEPT ![n] = my_release_time]
    BY <1>5 DEF BeginJob
  <2>1. CASE m # n
    <3>1. UNCHANGED <<pc[m], release[m], published[m]>>
      BY <2>0, <2>1 DEF JobTypes
    <3> QED BY <1>0, <1>a, <2>0, <3>1, AheadKept
  <2>2. CASE m = n
    <3>1. pc'[m] = "read" /\ published'[m] = my_release_time /\ written'[m] = written[m]
      BY <2>0, <2>2 DEF JobTypes
    <3>2. my_release_time \in Nat /\ my_release_time <= now /\ IsRelease(my_release_time)
      BY <1>0, BeginTypes
    <3>3. release[m] <= my_release_time /\ release[m] \in Nat
      <4>1. IsRelease(release[m]) /\ release[m] \in Nat /\ release[m] <= now
        BY <1>0, <1>a, <2>0, <2>2 DEF Scheduled, JobTypes
      <4> QED BY <1>0, <4>1, BeginTypes DEF IsRelease
    <3>4. Scheduled(m)'
      <4>1. now' = now
        BY <2>0
      <4> QED BY <3>1, <3>2, <4>1 DEF Scheduled, IsRelease
    <3>5. ASSUME NEW k \in Key, NEW w \in written[m][k] PROVE w.time <= my_release_time
      <4>1. w.time \in Nat /\ w.time <= release[m]
        BY <1>a, <2>0, <2>2 DEF Ordered, JobTypes, Record
      <4> QED BY <3>2, <3>3, <4>1
    <3>6. \A k \in Key : \A u, w \in written[m][k] : u.time = w.time \/ (u.time > now /\ w.time > now) => u = w
      BY <1>a DEF Ordered
    <3>7. Ordered(m)'
      BY <2>0, <3>1, <3>5, <3>6 DEF Ordered
    <3> QED BY <3>4, <3>7
  <2> QED BY <2>1, <2>2
<1>6. ASSUME NEW n \in Replica, WriteState(n) PROVE Scheduled(m)' /\ Ordered(m)'
  <2> DEFINE x == Simulate(state[n])
             pt == published[n] + time_period
  <2>0. /\ pc[n] = "compute" /\ UNCHANGED <<now, published>>
        /\ written' = [written EXCEPT ![n] = [k \in Key |->
             written[n][k] \cup {[value |-> x[k], time |-> t] : t \in {pt} \ 0..now}]]
        /\ pc' = [pc EXCEPT ![n] = "asleep"]
        /\ release' = [release EXCEPT ![n] = next_release(now)]
    BY <1>6 DEF WriteState
  <2>1. CASE m # n
    <3>1. UNCHANGED <<pc[m], release[m], published[m]>> /\ written'[m] = written[m]
      <4> HIDE DEF x, pt
      <4> QED BY <2>0, <2>1 DEF JobTypes
    <3> QED BY <1>0, <1>a, <2>0, <3>1, AheadKept
  <2>2. CASE m = n
    <3>1. published[n] \in Nat /\ published[n] <= now /\ IsRelease(published[n]) /\ pt \in Nat /\ published[n] < pt
      BY <1>0, <1>a, <2>0 DEF Scheduled, JobTypes
    <3>2. next_release(now) \in Nat /\ IsRelease(next_release(now)) /\ pt <= next_release(now)
      BY <1>0, <3>1, ReleaseTypes DEF IsRelease
    <3> HIDE DEF x, pt
    <3>3. pc'[m] = "asleep" /\ release'[m] = next_release(now) /\ now' = now
      BY <2>0, <2>2 DEF JobTypes
    <3>4. Scheduled(m)'
      BY <3>2, <3>3 DEF Scheduled, IsRelease
    <3>5. ASSUME NEW k \in Key
          PROVE  /\ \A w \in written'[m][k] : w.time <= next_release(now)
                 /\ \A u, w \in written'[m][k] : u.time = w.time \/ (u.time > now /\ w.time > now) => u = w
      <4> DEFINE W == written[n][k]
                 A == {[value |-> x[k], time |-> t] : t \in {pt} \ 0..now}
      <4>1. written'[m][k] = W \cup A
        BY <2>0, <2>2 DEF JobTypes
      <4>2. \A w \in W : w.time \in Nat /\ w.time <= published[n]
        BY <1>a, <2>0 DEF Ordered, JobTypes, Record
      <4>3. \A w \in A : w = [value |-> x[k], time |-> pt] /\ w.time = pt /\ pt > now
        BY <1>0, <3>1
      <4>4. \A u, w \in W : u.time = w.time \/ (u.time > now /\ w.time > now) => u = w
        BY <1>a DEF Ordered
      <4> HIDE DEF W, A
      <4>5. \A w \in W \cup A : w.time <= next_release(now)
        BY <3>1, <3>2, <4>2, <4>3
      <4>6. ASSUME NEW u \in W, NEW w \in A PROVE u.time # w.time /\ w.time # u.time /\ ~ (u.time > now)
        BY <1>0, <3>1, <4>2, <4>3
      <4>7. \A u, w \in W \cup A : u.time = w.time \/ (u.time > now /\ w.time > now) => u = w
        BY <4>3, <4>4, <4>6
      <4> QED BY <4>1, <4>5, <4>7
    <3>6. Ordered(m)'
      BY <3>3, <3>5 DEF Ordered
    <3> QED BY <3>4, <3>6
  <2> QED BY <2>1, <2>2
<1> QED BY <1>1, <1>2, <1>3, <1>4, <1>5, <1>6 DEF Next

-----------------------------------------------------------------------------
(* The entries on the servers.                                             *)

\* ZADD removes the same value for earlier, which is then no longer recent.
LEMMA ZaddRetains ==
  ASSUME NEW B \in SUBSET Stored, NEW W \in SUBSET Record, Retains(B, W),
         NEW v \in Nat, NEW t \in Nat, \A w \in W : w.time < t
  PROVE  Retains(zadd(B, v, t), W \cup {[value |-> v, time |-> t]})
<1> DEFINE r == [value |-> v, time |-> t]
           a == [value |-> v, time |-> t, until |-> Forever]
           C == zadd(B, v, t)
           X == W \cup {r}
<1>1. a \in C /\ a.value = v /\ a.time = t /\ a.until = Forever /\ r.value = v /\ r.time = t /\ r \in X
  BY DEF zadd
<1>2. \A e \in C : (e \in B /\ e.value # v) \/ e = a
  BY DEF zadd
<1>3. \A e \in B : e.value # v => e \in C
  BY DEF zadd
<1>4. [value |-> a.value, time |-> a.time] = r
  BY <1>1
<1> HIDE DEF r, a, C
<1>5. \A e \in C : [value |-> e.value, time |-> e.time] \in X
  BY <1>1, <1>2, <1>4 DEF Retains
<1>6. ASSUME NEW w \in X, Recent(X, w)
      PROVE  \E e \in C : /\ e.value = w.value /\ e.time = w.time
                          /\ e.until = Forever \/ e.until >= w.time + 2 * time_period
  <2>1. CASE w = r
    BY <1>1, <2>1
  <2>2. CASE w \in W
    <3>1. w.time < r.time
      BY <1>1, <2>2
    <3>2. r.value # w.value /\ Recent(W, w)
      BY <1>1, <1>6, <3>1 DEF Recent
    <3>3. PICK e \in B : /\ e.value = w.value /\ e.time = w.time
                         /\ e.until = Forever \/ e.until >= w.time + 2 * time_period
      BY <2>2, <3>2 DEF Retains
    <3>4. e \in C
      BY <1>1, <1>3, <3>2, <3>3
    <3> QED BY <3>3, <3>4
  <2> QED BY <2>1, <2>2
<1>7. Retains(C, X)
  BY <1>5, <1>6 DEF Retains
<1> QED BY <1>7 DEF C, r

\* What etcd is given expires no earlier than two periods after its time.
LEMMA EtcdRetains ==
  ASSUME NEW B \in SUBSET Stored, NEW W \in SUBSET Record, Retains(B, W),
         NEW v \in Nat, NEW t \in Nat, NEW u \in Nat, t <= u + time_period,
         \A w \in W : w.time < t
  PROVE  Retains(etcd_set(B, v, t, u), W \cup {[value |-> v, time |-> t]})
<1> DEFINE r == [value |-> v, time |-> t]
           a == [value |-> v, time |-> t, until |-> u + ttl]
           C == etcd_set(B, v, t, u)
           X == W \cup {r}
<1>1. /\ a \in C /\ a.value = v /\ a.time = t /\ r.value = v /\ r.time = t /\ r \in X
      /\ a.until >= t + 2 * time_period
  BY IvpAssumption, ServerAssumption DEF etcd_set
<1>2. \A e \in C : e \in B \/ e = a
  BY DEF etcd_set
<1>3. \A e \in B : e.time # t => e \in C
  BY DEF etcd_set
<1>4. [value |-> a.value, time |-> a.time] = r
  BY <1>1
<1> HIDE DEF r, a, C
<1>5. \A e \in C : [value |-> e.value, time |-> e.time] \in X
  BY <1>1, <1>2, <1>4 DEF Retains
<1>6. ASSUME NEW w \in X, Recent(X, w)
      PROVE  \E e \in C : /\ e.value = w.value /\ e.time = w.time
                          /\ e.until = Forever \/ e.until >= w.time + 2 * time_period
  <2>1. CASE w = r
    BY <1>1, <2>1
  <2>2. CASE w \in W
    <3>1. w.time < t /\ w.time \in Nat
      BY <2>2 DEF Record
    <3>2. Recent(W, w)
      BY <1>6 DEF Recent
    <3>3. PICK e \in B : /\ e.value = w.value /\ e.time = w.time
                         /\ e.until = Forever \/ e.until >= w.time + 2 * time_period
      BY <2>2, <3>2 DEF Retains
    <3>4. e.time # t
      BY <3>1, <3>3
    <3> QED BY <1>3, <3>3, <3>4
  <2> QED BY <2>1, <2>2
<1>7. Retains(C, X)
  BY <1>5, <1>6 DEF Retains
<1> QED BY <1>7 DEF C, r

\* At most one entry is later than a recent one, so that among the gc_keep
\* latest are all recent ones.
LEMMA CollectRetains ==
  ASSUME gc_keep >= 2,
         NEW B \in SUBSET Stored, IsFiniteSet(B), \A e \in B : e.until = Forever,
         NEW W \in SUBSET Record, \A u, w \in W : u.time = w.time => u = w,
         Retains(B, W)
  PROVE  Retains(collect(B), W)
<1>1. collect(B) \subseteq B
  BY DEF collect
<1>2. \A e \in collect(B) : [value |-> e.value, time |-> e.time] \in W
  BY <1>1 DEF Retains
<1>3. ASSUME NEW w \in W, Recent(W, w)
      PROVE  \E e \in collect(B) : /\ e.value = w.value /\ e.time = w.time
                                   /\ e.until = Forever \/ e.until >= w.time + 2 * time_period
  <2>1. PICK e \in B : /\ e.value = w.value /\ e.time = w.time
                       /\ e.until = Forever \/ e.until >= w.time + 2 * time_period
    BY <1>3 DEF Retains
  <2> DEFINE Low == {f \in B : Earlier(f, e)}
             High == {f \in B : ~ Earlier(f, e)}
  <2>2. ASSUME NEW f \in High
        PROVE  f = e \/ w.time < f.time
    <3>1. f \in Stored /\ e \in Stored /\ f.until = e.until
      BY <2>1
    <3>2. f.time \in Nat /\ e.time \in Nat /\ f.value \in Nat /\ e.value \in Nat
      BY <3>1 DEF Stored
    <3>3. ~ (f.time < e.time)
      BY DEF Earlier
    <3>4. CASE f.time = e.time
      <4>1. [value |-> f.value, time |-> f.time] \in W /\ [value |-> e.value, time |-> e.time] \in W
        BY <2>1 DEF Retains
      <4>2. f.value = e.value
        BY <3>4, <4>1
      <4> QED BY <3>1, <3>4, <4>2 DEF Stored
    <3> QED BY <2>1, <3>2, <3>3, <3>4
  <2>3. ASSUME NEW f \in High, NEW g \in High, f # e, g # e
        PROVE  f = g
    <3>1. w.time < f.time /\ w.time < g.time
      BY <2>2, <2>3
    <3>2. [value |-> f.value, time |-> f.time] \in W /\ [value |-> g.value, time |-> g.time] \in W
      BY DEF Retains
    <3>3. [value |-> f.value, time |-> f.time] = [value |-> g.value, time |-> g.time]
      BY <1>3, <3>1, <3>2 DEF Recent
    <3>4. f.value = g.value /\ f.time = g.time
      BY <3>3
    <3>5. f \in Stored /\ g \in Stored /\ f.until = g.until
      OBVIOUS
    <3> QED BY <3>4, <3>5 DEF Stored
  <2>4. IsFiniteSet(High) /\ Cardinality(High) <= 2 /\ Cardinality(High) \in Nat
    <3>1. \E f : High \subseteq {e} \cup {f}
      <4>1. CASE \E f \in High : f # e
        BY <2>3, <4>1
      <4> QED BY <4>1
    <3>2. PICK f : High \subseteq {e} \cup {f}
      BY <3>1
    <3>3. IsFiniteSet({e}) /\ Cardinality({e}) = 1
      BY FS_Singleton
    <3>4. IsFiniteSet({e} \cup {f}) /\ Cardinality({e} \cup {f}) <= 2
      <4> DEFINE E == {e}
      <4> HIDE DEF E
      <4>1. IsFiniteSet(E \cup {f}) /\ Cardinality(E \cup {f}) = (IF f \in E THEN Cardinality(E) ELSE Cardinality(E) + 1)
        BY <3>3, FS_AddElement DEF E
      <4>2. IsFiniteSet(E \cup {f}) /\ Cardinality(E \cup {f}) <= 2
        BY <3>3, <4>1 DEF E
      <4> QED BY <4>2 DEF E
    <3> HIDE DEF High
    <3>5. IsFiniteSet(High) /\ Cardinality(High) <= Cardinality({e} \cup {f})
      BY <3>2, <3>4, FS_Subset
    <3> QED BY <3>4, <3>5, FS_CardinalityType
  <2>5. Cardinality(B) \in Nat /\ Rank(B, e) = Cardinality(B) - Cardinality(High)
    <3>1. Low = B \ High /\ B \cap High = High
      OBVIOUS
    <3>2. Cardinality(B \ High) = Cardinality(B) - Cardinality(B \cap High)
      BY FS_Difference
    <3>3. Cardinality(B) \in Nat
      BY FS_CardinalityType
    <3> QED BY <3>1, <3>2, <3>3 DEF Rank
  <2> HIDE DEF High
  <2>6. Rank(B, e) > Cardinality(B) - gc_keep - 1
    BY <2>4, <2>5, ServerAssumption
  <2>7. e \in collect(B)
    BY <2>6 DEF collect
  <2> QED BY <2>1, <2>7
<1> QED BY <1>2, <1>3 DEF Retains

LEMMA RegistersInit == Init => Registers
<1> SUFFICES ASSUME Init, NEW n \in Replica, NEW k \in Key
             PROVE  /\ IsFiniteSet(bucket[n][k])
                    /\ Retains(bucket[n][k], written[n][k])
                    /\ kvs_type # "etcd" => \A e \in bucket[n][k] : e.until = Forever
  BY DEF Registers
<1>1. bucket[n][k] = {} /\ written[n][k] = {}
  BY DEF Init, Nothing
<1> QED BY <1>1, FS_EmptySet DEF Retains

LEMMA RegistersStep ==
  ASSUME gc_keep >= 2, JobTypes, OneAhead, Registers, [Next]_vars
  PROVE  Registers'
<1> DEFINE Holds(n, k) == /\ IsFiniteSet(bucket[n][k])
                          /\ Retains(bucket[n][k], written[n][k])
                          /\ kvs_type # "etcd" => \A e \in bucket[n][k] : e.until = Forever
<1>0. now \in Nat /\ time_period \in Nat \ {0} /\ kvs_type' = kvs_type
  BY IvpAssumption DEF JobTypes, Next, ConnectMesh, Stop, Tick, StartServer, Start, BeginJob,
       ReadState, WriteState, CollectGarbage, vars, ivars
<1>a. \A n \in Replica, k \in Key : Holds(n, k)
  BY DEF Registers
<1> SUFFICES ASSUME NEW m \in Replica, NEW k \in Key
             PROVE  /\ IsFiniteSet(bucket'[m][k])
                    /\ Retains(bucket'[m][k], written'[m][k])
                    /\ kvs_type # "etcd" => \A e \in bucket'[m][k] : e.until = Forever
  BY <1>0 DEF Registers, Retains, Recent
<1> HIDE DEF Holds
<1>b. CASE bucket'[m][k] = bucket[m][k] /\ written'[m][k] = written[m][k]
  BY <1>a, <1>b DEF Holds
<1>1. CASE ConnectMesh \/ Stop \/ Tick \/ UNCHANGED vars
  BY <1>1, <1>b DEF ConnectMesh, Stop, Tick, vars, ivars
<1>2. ASSUME NEW n \in Replica, StartServer(n) \/ BeginJob(n) \/ ReadState(n)
      PROVE  bucket'[m][k] = bucket[m][k] /\ written'[m][k] = written[m][k]
  BY <1>2 DEF StartServer, BeginJob, ReadState
<1>3. ASSUME NEW n \in Replica, Start(n)
      PROVE  \/ bucket'[m][k] = bucket[m][k] /\ written'[m][k] = written[m][k]
             \/ bucket'[m][k] = {} /\ written'[m][k] = {}
  BY <1>3 DEF Start, get_redis_clients, get_etcd_client, Nothing
<1>c. CASE bucket'[m][k] = {} /\ written'[m][k] = {}
  BY <1>c, FS_EmptySet DEF Retains
<1>4. ASSUME NEW n \in Replica, WriteState(n)
      PROVE  /\ IsFiniteSet(bucket'[m][k])
             /\ Retains(bucket'[m][k], written'[m][k])
             /\ kvs_type # "etcd" => \A e \in bucket'[m][k] : e.until = Forever
  <2> DEFINE x == Simulate(state[n])
             pt == published[n] + time_period
             B == bucket[n][k]
             W == written[n][k]
  <2>0. /\ pc[n] = "compute"
        /\ bucket' = [bucket EXCEPT ![n] = [j \in Key |-> try_write(n, j, pt, x[j])]]
        /\ written' = [written EXCEPT ![n] = [j \in Key |->
             written[n][j] \cup {[value |-> x[j], time |-> t] : t \in {pt} \ 0..now}]]
    BY <1>4 DEF WriteState
  <2>1. x[k] \in Nat /\ pt \in Nat /\ published[n] \in Nat /\ published[n] <= now
    <3>1. x \in [Key -> Nat]
      BY SimulateTypes DEF JobTypes
    <3> QED BY <1>0, <2>0, <3>1 DEF JobTypes, OneAhead, Scheduled
  <2>2. CASE m # n
    <3> HIDE DEF x, pt
    <3>1. bucket'[m] = bucket[m] /\ written'[m] = written[m]
      BY <2>0, <2>2 DEF JobTypes
    <3> QED BY <1>b, <3>1
  <2>3. CASE m = n
    <3> DEFINE v == x[k]
    <3>0. \A w \in W : w.time \in Nat /\ w.time < pt
      <4>1. \A w \in W : w.time \in Nat /\ w.time <= published[n]
        BY <2>0 DEF OneAhead, Ordered, JobTypes, Record
      <4> QED BY <1>0, <2>1, <4>1
    <3>d. pt <= now + time_period
      BY <1>0, <2>1
    <3> HIDE DEF x, pt
    <3>1. /\ bucket'[m][k] = try_write(n, k, pt, v)
          /\ written'[m][k] = W \cup {[value |-> v, time |-> t] : t \in {pt} \ 0..now}
      BY <2>0, <2>3 DEF JobTypes
    <3>2. B \in SUBSET Stored /\ W \in SUBSET Record /\ IsFiniteSet(B) /\ Retains(B, W)
          /\ (kvs_type # "etcd" => \A e \in B : e.until = Forever)
      BY <1>a DEF JobTypes, Holds
    <3>3. CASE pt <= now
      <4>1. {pt} \ 0..now = {}
        BY <1>0, <2>1, <3>3
      <4>2. try_write(n, k, pt, v) = B
        BY <3>3 DEF try_write
      <4> QED BY <1>b, <2>3, <3>1, <4>1, <4>2
    <3>4. CASE ~ (pt <= now)
      <4>1. {[value |-> v, time |-> t] : t \in {pt} \ 0..now} = {[value |-> v, time |-> pt]}
        <5>1. {pt} \ 0..now = {pt}
          BY <1>0, <2>1, <3>4
        <5> QED BY <5>1
      <4>2. written'[m][k] = W \cup {[value |-> v, time |-> pt]}
        BY <3>1, <4>1
      <4> HIDE DEF v, B, W
      <4>3. CASE kvs_type = "etcd"
        <5>1. bucket'[m][k] = etcd_set(B, v, pt, now)
          BY <3>1, <3>4, <4>3 DEF try_write, B
        <5>2. Retains(bucket'[m][k], written'[m][k])
          BY <1>0, <2>1, <3>0, <3>2, <3>d, <4>2, <5>1, EtcdRetains DEF v
        <5>3. IsFiniteSet(etcd_set(B, v, pt, now))
          <6>1. IsFiniteSet({e \in B : e.time # pt})
            BY <3>2, FS_Subset
          <6> QED BY <6>1, FS_AddElement DEF etcd_set
        <5> QED BY <4>3, <5>1, <5>2, <5>3
      <4>4. CASE kvs_type # "etcd"
        <5>1. bucket'[m][k] = zadd(B, v, pt)
          BY <3>1, <3>4, <4>4 DEF try_write, B
        <5>2. Retains(bucket'[m][k], written'[m][k])
          BY <2>1, <3>0, <3>2, <4>2, <5>1, ZaddRetains DEF v
        <5>3. IsFiniteSet(zadd(B, v, pt))
          <6>1. IsFiniteSet({e \in B : e.value # v})
            BY <3>2, FS_Subset
          <6> QED BY <6>1, FS_AddElement DEF zadd
        <5>4. \A e \in zadd(B, v, pt) : e.until = Forever
          BY <3>2, <4>4 DEF zadd
        <5> QED BY <5>1, <5>2, <5>3, <5>4
      <4> QED BY <4>3, <4>4
    <3> QED BY <3>3, <3>4
  <2> QED BY <2>2, <2>3
<1>5. ASSUME NEW n \in Replica, CollectGarbage(n)
      PROVE  /\ IsFiniteSet(bucket'[m][k])
             /\ Retains(bucket'[m][k], written'[m][k])
             /\ kvs_type # "etcd" => \A e \in bucket'[m][k] : e.until = Forever
  <2>0. /\ kvs_type = "RedisKVS2" /\ written' = written
        /\ bucket' = [bucket EXCEPT ![n] = [j \in Key |-> collect(bucket[n][j])]]
    BY <1>5 DEF CollectGarbage
  <2>1. CASE m # n
    <3>1. bucket'[m] = bucket[m]
      BY <2>0, <2>1 DEF JobTypes
    <3> QED BY <1>b, <2>0, <3>1
  <2>2. CASE m = n
    <3> DEFINE B == bucket[n][k]
               W == written[n][k]
    <3>1. bucket'[m][k] = collect(B) /\ written'[m][k] = W
      BY <2>0, <2>2 DEF JobTypes
    <3>2. B \in SUBSET Stored /\ W \in SUBSET Record /\ IsFiniteSet(B) /\ Retains(B, W)
          /\ \A e \in B : e.until = Forever
      BY <1>a, <2>0 DEF JobTypes, Holds
    <3>3. \A u, w \in W : u.time = w.time => u = w
      BY DEF OneAhead, Ordered
    <3> HIDE DEF B, W
    <3>4. Retains(collect(B), W)
      BY <3>2, <3>3, CollectRetains
    <3>5. collect(B) \in SUBSET B
      BY DEF collect
    <3>6. IsFiniteSet(collect(B))
      BY <3>2, <3>5, FS_Subset
    <3> QED BY <3>1, <3>2, <3>4, <3>5, <3>6
  <2> QED BY <2>1, <2>2
<1> QED BY <1>1, <1>2, <1>3, <1>4, <1>5, <1>b, <1>c DEF Next

\* The invariant tells what is due: the entry written for the last release
\* that has come.
LEMMA InvCurrent == JobInv => Current
<1> SUFFICES ASSUME JobInv, NEW n \in Replica, NEW k \in Key, NEW w \in written[n][k],
                    w.time <= now, now < w.time + 2 * time_period,
                    \A u \in written[n][k] : w.time < u.time => now < u.time /\ u.value # w.value
             PROVE  due(bucket[n][k], w.time, now) = {w.value}
  BY DEF Current
<1> DEFINE B == bucket[n][k]
           W == written[n][k]
           S == {e \in B : w.time <= e.time /\ e.time <= now /\ (e.until = Forever \/ now < e.until)}
<1>1. now \in Nat /\ time_period \in Nat /\ B \in SUBSET Stored /\ W \in SUBSET Record /\ w \in Record
  BY IvpAssumption DEF JobInv, JobTypes
<1>2. \A u, x \in W : u.time = x.time \/ (u.time > now /\ x.time > now) => u = x
  BY DEF JobInv, OneAhead, Ordered
<1>3. Retains(B, W)
  BY DEF JobInv, Registers
<1>4. Recent(W, w)
  <2> SUFFICES ASSUME NEW u \in W, NEW x \in W, w.time < u.time, w.time < x.time
               PROVE  u = x /\ u.value # w.value
    BY DEF Recent
  <2>1. now < u.time /\ now < x.time /\ u.time \in Nat /\ x.time \in Nat /\ u.value # w.value
    BY <1>1 DEF Record
  <2>2. u.time > now /\ x.time > now
    BY <1>1, <2>1
  <2> QED BY <1>2, <2>1, <2>2
<1>5. ASSUME NEW e \in S PROVE e.value = w.value /\ e.time = w.time /\ e.value \in Nat /\ e.time \in Nat
  <2> DEFINE u == [value |-> e.value, time |-> e.time]
  <2>1. u \in W /\ e \in Stored /\ w \in W
    BY <1>1, <1>3 DEF Retains
  <2>2. e.value \in Nat /\ e.time \in Nat /\ w.time \in Nat /\ w.time <= e.time /\ e.time <= now
    BY <1>1, <2>1 DEF Stored, Record
  <2>3. u.time = e.time /\ u.value = e.value
    OBVIOUS
  <2> HIDE DEF u
  <2>4. ~ (w.time < u.time)
    BY <1>1, <2>1, <2>2, <2>3
  <2>5. u.time = w.time
    BY <2>2, <2>3, <2>4
  <2>6. u = w
    BY <1>2, <2>1, <2>5
  <2> QED BY <2>2, <2>3, <2>6
<1>6. \E e \in B : e \in S
  <2>1. PICK e \in B : /\ e.value = w.value /\ e.time = w.time
                       /\ e.until = Forever \/ e.until >= w.time + 2 * time_period
    BY <1>3, <1>4 DEF Retains
  <2>2. e \in Stored /\ e.until \in Int /\ w.time \in Nat
    BY <1>1 DEF Stored, Record
  <2>3. e.until = Forever \/ now < e.until
    BY <1>1, <2>1, <2>2
  <2> QED BY <1>1, <2>1, <2>2, <2>3
<1>7. due(B, w.time, now) = {e.value : e \in {e \in S : \A f \in S : ~ Earlier(e, f)}}
  BY DEF due
<1> HIDE DEF S
<1>8. \A e, f \in S : ~ Earlier(e, f)
  BY <1>5 DEF Earlier
<1> QED BY <1>5, <1>6, <1>7, <1>8

\* The inductive invariant: every server holds what its replica wrote for the
\* release that came last and for the one that comes next, unless the second
\* write moved the first.  Garbage collection must keep two entries for that;
\* the code keeps ten.
THEOREM IvpInvariant ==
  ASSUME gc_keep >= 2
  PROVE  Spec => []JobInv
<1>1. Init => JobInv
  BY TypesInit, AheadInit, RegistersInit DEF JobInv
<1>2. JobInv /\ [Next]_vars => JobInv'
  BY TypesStep, AheadStep, RegistersStep DEF JobInv
<1> QED BY <1>1, <1>2, PTL DEF Spec

\* Whatever replica starts, slips, crashes or collects garbage when, what is due
\* on a server is what its replica wrote last for a release that has come: for
\* every number of replicas and every period, and with etcd for every time to
\* live of at least three periods.
THEOREM RegisterCurrent ==
  ASSUME gc_keep >= 2
  PROVE  Spec => []Current
BY IvpInvariant, InvCurrent, PTL

=============================================================================
