------------------------------ MODULE PeerNames ------------------------------
(***************************************************************************)
(* What the backend derives from an ASN for a peer's tunnel: the listen    *)
(* port, the name and the addresses of both ends (app/peer/validation.py,  *)
(* app/peer/config.py, app/peer/service.py), and the peers that have them. *)
(*                                                                         *)
(* An ASN is its decimal digits without leading zeros, kept as a record:   *)
(* tail, the last five, and head, those before.  fe80::<digits> reads its  *)
(* digits as hexadecimal; an address is its network and the number after.  *)
(* Operations follow one another here: PeerLifecycle has their races and   *)
(* the calls to the node.                                                  *)
(***************************************************************************)
EXTENDS Integers

CONSTANTS
  Peer,      \* rows of peer_requests
  Node,
  PeerAsn,   \* the ASNs that ask for peers
  NodeAsn,   \* NodeAsn[n]: node_effective_asn
  IdTail,    \* the last four characters of row ids
  Given,     \* addresses that users enter
  None

VARIABLE row   \* row[p]: the peer_requests row, or None

Address == [net : {"fe80", "ula", "other"}, host : Nat]

-----------------------------------------------------------------------------
(* Derivations. *)

\* wireguard_listen_port: the last five digits; 0 stands for its ValueError.
Port(a) == IF 1 <= a.tail /\ a.tail <= 65535 THEN a.tail ELSE 0

\* peer_protocol_name: DN42_ is left out.
Name(r) == <<r.asn.tail % 10000, r.id>>

\* normalize_dn42_asn_suffix: what follows 424242, if the ASN starts so, or the last four
\* digits, which are the whole of a shorter one.
Suffix(a) ==
  CASE a.head = 42424 /\ a.tail \div 10000 = 2 -> a.tail % 10000
    [] a.head = 4242 /\ a.tail \div 1000 = 42 -> a.tail % 1000
    [] a.head = 424 /\ a.tail \div 100 = 242 -> a.tail % 100
    [] a.head = 42 /\ a.tail \div 10 = 4242 -> a.tail % 10
    [] a.head = 4 /\ a.tail = 24242 -> 0
    [] OTHER -> a.tail % 10000

\* The number whose hexadecimal digits are the decimal digits of s.
Hex(s) ==
  LET tens == s \div 10
      hundreds == tens \div 10
  IN  (((hundreds \div 10) * 16 + (hundreds % 10)) * 16 + (tens % 10)) * 16 + (s % 10)

\* asn_link_local_address.
LinkLocal(a) == [net |-> "fe80", host |-> Hex(Suffix(a))]

\* normalize_tunnel_address: link-local or ULA.
TunnelAddress(x) == x.net \in {"fe80", "ula"}

\* _derive_local_link_address: our end matches the peer's kind of address.
OurEnd(n, link) ==
  IF link.net = "fe80" THEN LinkLocal(NodeAsn[n])
  ELSE [net |-> link.net, host |-> Hex(Suffix(NodeAsn[n]))]

\* What a user enters: DN42 IPv4, DN42 IPv6, the addresses of the peer's and of our end.
Input == [ipv4 : BOOLEAN, ipv6 : Given \union {None}, link : Given \union {None},
          local : Given \union {None}]

\* normalize_peer_input: which inputs are refused, and the two ends of the others.
Accepted(i) ==
  /\ i.ipv4 \/ i.ipv6 # None \/ i.link # None
  /\ i.link # None => TunnelAddress(i.link)
  /\ i.local # None => TunnelAddress(i.local)

PeerEnd(a, i) ==
  IF i.link # None THEN i.link
  ELSE IF i.ipv6 # None /\ TunnelAddress(i.ipv6) THEN i.ipv6
  ELSE LinkLocal(a)

Ends(a, n, i) ==
  [peer |-> PeerEnd(a, i), local |-> IF i.local # None THEN i.local ELSE OurEnd(n, PeerEnd(a, i))]

-----------------------------------------------------------------------------
(* Peers. *)

Init == row = [p \in Peer |-> None]

\* find_peer_on_node.
PeerOnNode(n, a) == {p \in Peer : row[p] # None /\ row[p].node = n /\ row[p].asn = a}

\* build_deploy_payload: without a port there is nothing to deploy.
Deployments(a) == IF Port(a) = 0 THEN {"failed"} ELSE {"deployed", "failed"}

\* create_peer.
Create(p, a, n, i) ==
  /\ row[p] = None
  /\ PeerOnNode(n, a) = {}
  /\ Accepted(i)
  /\ \E id \in IdTail, d \in Deployments(a) :
       row' = [row EXCEPT ![p] = [asn |-> a, node |-> n, id |-> id, ends |-> Ends(a, n, i),
                                   deploy |-> d]]

\* update_peer with redeploy, perhaps onto another node.
Update(p, n, i) ==
  /\ row[p] # None
  /\ PeerOnNode(n, row[p].asn) \subseteq {p}
  /\ Accepted(i)
  /\ \E d \in Deployments(row[p].asn) :
       row' = [row EXCEPT ![p].node = n, ![p].ends = Ends(row[p].asn, n, i), ![p].deploy = d]

\* delete_peer.
Delete(p) ==
  /\ row[p] # None
  /\ row' = [row EXCEPT ![p] = None]

Next ==
  \E p \in Peer :
    \/ Delete(p)
    \/ \E n \in Node, i \in Input :
         Update(p, n, i) \/ \E a \in PeerAsn : Create(p, a, n, i)

Spec == Init /\ [][Next]_row

-----------------------------------------------------------------------------
(* Properties. *)

Deployed == {p \in Peer : row[p] # None /\ row[p].deploy = "deployed"}

\* What app/peer/validation.py:203 says of the listen ports of a node's peers, because there is
\* at most one peer of an ASN on a node: they do not conflict.
PortsDistinct ==
  \A p, q \in Deployed :
    p # q /\ row[p].node = row[q].node => Port(row[p].asn) # Port(row[q].asn)

\* What is true of them: the ASNs do differ, and the ports conflict where the ASNs agree in
\* their last five digits, and only there.
PortsConflictByTail ==
  \A p, q \in Deployed :
    p # q /\ row[p].node = row[q].node =>
      /\ row[p].asn # row[q].asn
      /\ Port(row[p].asn) = Port(row[q].asn) <=> row[p].asn.tail = row[q].asn.tail
=============================================================================
