--------------------------- MODULE PeerNamesProofs ---------------------------
(***************************************************************************)
(* Where what PeerNames derives of ASNs can be told apart, for any peers,  *)
(* nodes and ASNs.  Those of dn42, AS4242420000 to AS4242429999, share all *)
(* but their last four digits; the backend takes any.                      *)
(***************************************************************************)
EXTENDS PeerNames, TLAPS

Dn42 == {a \in [head : Nat, tail : Nat] : a.head = 42424 /\ 20000 <= a.tail /\ a.tail <= 29999}

LEMMA SameAsn ==
  ASSUME NEW a \in Dn42, NEW b \in Dn42, a.tail = b.tail
  PROVE  a = b
<1>1. a = [head |-> a.head, tail |-> a.tail] /\ b = [head |-> b.head, tail |-> b.tail]
  BY DEF Dn42
<1>2. a.head = b.head
  BY DEF Dn42
<1> QED
  BY <1>1, <1>2

\* Every ASN of dn42 has a listen port, and no two have the same.
LEMMA PortOfDn42 ==
  ASSUME NEW a \in Dn42, NEW b \in Dn42
  PROVE  /\ Port(a) # 0
         /\ Port(a) = Port(b) => a = b
<1>1. Port(a) = a.tail /\ Port(b) = b.tail /\ a.tail # 0
  BY DEF Dn42, Port
<1> QED
  BY <1>1, SameAsn

\* Decimal digits read as hexadecimal ones: the last digit and the others can be told.
LEMMA LastDigit ==
  ASSUME NEW x \in Nat, NEW y \in Nat, NEW c \in 0..9, NEW d \in 0..9,
         x * 16 + c = y * 16 + d
  PROVE  x = y /\ c = d
OBVIOUS

LEMMA Division ==
  ASSUME NEW x \in Nat
  PROVE  x \div 10 \in Nat /\ x % 10 \in 0..9 /\ x = 10 * (x \div 10) + (x % 10)
OBVIOUS

LEMMA HexInjective ==
  ASSUME NEW s \in Nat, NEW t \in Nat, Hex(s) = Hex(t)
  PROVE  s = t
<1> DEFINE s1 == s \div 10
           s2 == s1 \div 10
           s3 == s2 \div 10
           t1 == t \div 10
           t2 == t1 \div 10
           t3 == t2 \div 10
<1>1. /\ s1 \in Nat /\ s2 \in Nat /\ s3 \in Nat
      /\ t1 \in Nat /\ t2 \in Nat /\ t3 \in Nat
  BY Division
<1>2. /\ s % 10 \in 0..9 /\ s1 % 10 \in 0..9 /\ s2 % 10 \in 0..9
      /\ t % 10 \in 0..9 /\ t1 % 10 \in 0..9 /\ t2 % 10 \in 0..9
  BY <1>1, Division
<1>3. /\ s = 10 * s1 + (s % 10) /\ s1 = 10 * s2 + (s1 % 10) /\ s2 = 10 * s3 + (s2 % 10)
      /\ t = 10 * t1 + (t % 10) /\ t1 = 10 * t2 + (t1 % 10) /\ t2 = 10 * t3 + (t2 % 10)
  BY <1>1, Division
<1>4. ((s3 * 16 + (s2 % 10)) * 16 + (s1 % 10)) * 16 + (s % 10)
        = ((t3 * 16 + (t2 % 10)) * 16 + (t1 % 10)) * 16 + (t % 10)
  BY DEF Hex
<1> HIDE DEF s1, s2, s3, t1, t2, t3
<1> DEFINE u == (s3 * 16 + (s2 % 10)) * 16 + (s1 % 10)
           v == (t3 * 16 + (t2 % 10)) * 16 + (t1 % 10)
<1>5. /\ s3 * 16 + (s2 % 10) \in Nat /\ u \in Nat
      /\ t3 * 16 + (t2 % 10) \in Nat /\ v \in Nat
  BY <1>1, <1>2
<1>6. s % 10 = t % 10 /\ u = v
  <2>1. u * 16 + (s % 10) = v * 16 + (t % 10)
    BY <1>4
  <2> HIDE DEF u, v
  <2> QED
    BY <1>2, <1>5, <2>1, LastDigit
<1>7. s1 % 10 = t1 % 10 /\ s3 * 16 + (s2 % 10) = t3 * 16 + (t2 % 10)
  BY <1>2, <1>5, <1>6, LastDigit
<1>8. s2 % 10 = t2 % 10 /\ s3 = t3
  BY <1>1, <1>2, <1>7, LastDigit
<1> QED
  BY <1>3, <1>6, <1>7, <1>8

\* No two ASNs of dn42 have the same link-local address.
LEMMA LinkLocalOfDn42 ==
  ASSUME NEW a \in Dn42, NEW b \in Dn42, LinkLocal(a) = LinkLocal(b)
  PROVE  a = b
<1>1. ASSUME NEW c \in Dn42
      PROVE  Suffix(c) = c.tail - 20000 /\ c.tail - 20000 \in Nat /\ c.tail \in Nat
  <2>1. /\ c.head = 42424 /\ c.tail \in Nat
        /\ c.tail \div 10000 = 2 /\ c.tail % 10000 = c.tail - 20000 /\ 20000 <= c.tail
    BY DEF Dn42
  <2> QED
    BY <2>1 DEF Suffix
<1>2. Hex(Suffix(a)) = Hex(Suffix(b))
  BY DEF LinkLocal
<1>3. Suffix(a) = Suffix(b)
  BY <1>1, <1>2, HexInjective
<1>4. a.tail = b.tail
  BY <1>1, <1>3
<1> QED
  BY <1>4, SameAsn

\* The two ends of a tunnel whose addresses are both derived differ, if both ASNs are of dn42:
\* normalize_peer_input compares them with nothing.
THEOREM DerivedEndsDiffer ==
  ASSUME NEW n \in Node, NodeAsn[n] \in Dn42,
         NEW a \in Dn42, a # NodeAsn[n],
         NEW i, i.link = None, i.ipv6 = None, i.local = None
  PROVE  Ends(a, n, i).peer # Ends(a, n, i).local
<1>1. Ends(a, n, i).peer = LinkLocal(a)
  BY DEF Ends, PeerEnd
<1>2. Ends(a, n, i).local = LinkLocal(NodeAsn[n])
  BY DEF Ends, PeerEnd, OurEnd, LinkLocal
<1> QED
  BY <1>1, <1>2, LinkLocalOfDn42

-----------------------------------------------------------------------------
\* A node has one peer of an ASN at most, and what is deployed has a port.
Inv ==
  /\ DOMAIN row = Peer
  /\ \A p \in Deployed : Port(row[p].asn) # 0
  /\ \A p, q \in Peer : /\ row[p] # None /\ row[q] # None
                        /\ row[p].node = row[q].node /\ row[p].asn = row[q].asn
                        => p = q

LEMMA InvHolds == Spec => []Inv
<1>1. Init => Inv
  BY DEF Init, Inv, Deployed
<1>2. Inv /\ [Next]_row => Inv'
  <2> SUFFICES ASSUME Inv, [Next]_row PROVE Inv'
    OBVIOUS
  <2>1. ASSUME NEW p \in Peer, Delete(p) PROVE Inv'
    BY <2>1 DEF Inv, Delete, Deployed
  <2>2. ASSUME NEW p \in Peer, NEW n \in Node, NEW i \in Input, Update(p, n, i) PROVE Inv'
    <3>1. \A q \in Peer : q # p => row'[q] = row[q]
      BY <2>2 DEF Inv, Update
    <3>2. row'[p].asn = row[p].asn /\ row'[p].node = n /\ row[p] # None
      BY <2>2 DEF Inv, Update
    <3>3. \A q \in Peer : row[q] # None /\ row[q].node = n /\ row[q].asn = row[p].asn => q = p
      BY <2>2 DEF Update, PeerOnNode
    <3>4. DOMAIN row' = Peer
      BY <2>2 DEF Inv, Update
    <3>5. p \in Deployed' => Port(row'[p].asn) # 0
      <4> SUFFICES ASSUME Port(row[p].asn) = 0 PROVE row'[p].deploy = "failed"
        BY <3>2 DEF Deployed
      <4>1. Deployments(row[p].asn) = {"failed"}
        BY DEF Deployments
      <4> QED
        BY <2>2, <4>1 DEF Inv, Update
    <3> QED
      BY <3>1, <3>2, <3>3, <3>4, <3>5 DEF Inv, Deployed
  <2>3. ASSUME NEW p \in Peer, NEW n \in Node, NEW i \in Input, NEW a \in PeerAsn,
               Create(p, a, n, i)
        PROVE Inv'
    <3>1. \A q \in Peer : q # p => row'[q] = row[q]
      BY <2>3 DEF Inv, Create
    <3>2. row'[p].asn = a /\ row'[p].node = n
      BY <2>3 DEF Inv, Create
    <3>3. \A q \in Peer : row[q] # None /\ row[q].node = n /\ row[q].asn = a => FALSE
      BY <2>3 DEF Create, PeerOnNode
    <3>4. DOMAIN row' = Peer
      BY <2>3 DEF Inv, Create
    <3>5. p \in Deployed' => Port(row'[p].asn) # 0
      BY <2>3, <3>2 DEF Inv, Create, Deployments, Deployed
    <3> QED
      BY <3>1, <3>2, <3>3, <3>4, <3>5 DEF Inv, Deployed
  <2>4. CASE UNCHANGED row
    BY <2>4 DEF Inv, Deployed
  <2> QED
    BY <2>1, <2>2, <2>3, <2>4 DEF Next
<1> QED
  BY <1>1, <1>2, PTL DEF Spec

LEMMA TailsDecide == Inv => PortsConflictByTail
<1> SUFFICES ASSUME Inv, NEW p \in Deployed, NEW q \in Deployed, p # q, row[p].node = row[q].node
             PROVE  /\ row[p].asn # row[q].asn
                    /\ Port(row[p].asn) = Port(row[q].asn)
                         <=> row[p].asn.tail = row[q].asn.tail
  BY DEF PortsConflictByTail
<1>1. Port(row[p].asn) = row[p].asn.tail /\ Port(row[q].asn) = row[q].asn.tail
  BY DEF Inv, Port
<1> QED
  BY <1>1 DEF Inv, Deployed

\* Deployed peers of one node have different ASNs, whose listen ports are the same exactly if
\* their last five digits are (wireguard_listen_port, find_peer_on_node), whatever ASNs there are.
THEOREM TailsDecidePorts == Spec => []PortsConflictByTail
BY InvHolds, TailsDecide, PTL

\* create_peer does let it happen: once a peer is deployed, any other ASN with its last five
\* digits can be deployed on that node, where app/peer/validation.py:203 is false from then on.
THEOREM PortsMayConflict ==
  ASSUME Inv, NEW p \in Deployed, NEW q \in Peer, row[q] = None,
         NEW b, b.tail = row[p].asn.tail, NEW i, Accepted(i), NEW id \in IdTail,
         PeerOnNode(row[p].node, b) = {},
         LET n == row[p].node
             new == [asn |-> b, node |-> n, id |-> id, ends |-> Ends(b, n, i),
                     deploy |-> "deployed"]
         IN  new # None /\ row' = [row EXCEPT ![q] = new]
  PROVE  Create(q, b, row[p].node, i) /\ ~PortsDistinct'
<1> DEFINE n == row[p].node
           new == [asn |-> b, node |-> n, id |-> id, ends |-> Ends(b, n, i), deploy |-> "deployed"]
<1>1. p \in Peer /\ p # q
  BY DEF Deployed
<1>2. Port(b) = Port(row[p].asn) /\ Port(b) # 0
  BY DEF Inv, Port
<1>3. Create(q, b, n, i)
  BY <1>2 DEF Create, Deployments
<1>4. /\ new.asn = b /\ new.node = n /\ new.deploy = "deployed" /\ new # None
      /\ row' = [row EXCEPT ![q] = new]
  OBVIOUS
<1> HIDE DEF new
<1>5. row'[q] = new /\ row'[p] = row[p]
  BY <1>1, <1>4 DEF Inv
<1>6. p \in Deployed' /\ q \in Deployed'
  BY <1>1, <1>4, <1>5 DEF Deployed
<1>7. ~PortsDistinct'
  BY <1>1, <1>2, <1>4, <1>5, <1>6 DEF PortsDistinct
<1> QED
  BY <1>3, <1>7

\* Among the deployed peers of a node whose ASNs are of dn42, whatever other peers it has, the
\* docstring is right.
Dn42PortsDistinct ==
  \A p, q \in Deployed :
    /\ p # q /\ row[p].node = row[q].node
    /\ row[p].asn \in Dn42 /\ row[q].asn \in Dn42
    => Port(row[p].asn) # Port(row[q].asn)

\* No deployed peers of one node with ASNs of dn42 listen on the same port.
THEOREM PortsOfDn42Distinct == Spec => []Dn42PortsDistinct
<1>1. Inv => Dn42PortsDistinct
  BY TailsDecide, PortOfDn42 DEF PortsConflictByTail, Dn42PortsDistinct
<1> QED
  BY <1>1, InvHolds, PTL
=============================================================================
