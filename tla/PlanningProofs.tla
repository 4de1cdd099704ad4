--------------------------- MODULE PlanningProofs ---------------------------
(***************************************************************************)
(* What planning promises, for all documents, names and addresses.  The    *)
(* invariant says what each step knows of the documents loaded so far; the *)
(* lemmas say what generation makes of documents that are valid and        *)
(* resolve.                                                                *)
(***************************************************************************)
EXTENDS Planning, SequenceTheorems, TLAPS

(* ------------------------- documents as sets --------------------------- *)

\* The entries of an interfaces document are interfaces, and an id or a device
\* determines the entry.
LEMMA EntriesOfValid ==
  ASSUME NEW doc \in InterfacesDocuments, ValidInterfaces(doc)
  PROVE  /\ Range(doc) \subseteq Interfaces
         /\ Range(doc) # {}
         /\ \A c, d \in Range(doc) : c.id = d.id => c = d
         /\ \A c, d \in Range(doc) : c.device = d.device => c = d
         /\ \A c \in Range(doc) : ValidInterface(c)
         /\ ValidVlans(Range(doc)) /\ ValidBridges(Range(doc))
<1>1. doc \in Seq(Interfaces)
  BY PlanningAssumption
<1>2. doc # <<>> /\ UniqueIds(doc) /\ UniqueDevices(doc)
  BY DEF ValidInterfaces
<1>3. doc \in [1 .. Len(doc) -> Interfaces] /\ Len(doc) \in Nat
  BY <1>1
<1>4. Len(doc) # 0
  BY <1>1, <1>2
<1>5. Range(doc) # {}
  <2>1. 1 \in DOMAIN doc
    BY <1>3, <1>4
  <2> QED  BY <2>1 DEF Range
<1>6. Range(doc) \subseteq Interfaces
  BY <1>3 DEF Range
<1>7. \A c, d \in Range(doc) : c.id = d.id => c = d
  BY <1>2 DEF Range, UniqueIds
<1>8. \A c, d \in Range(doc) : c.device = d.device => c = d
  BY <1>2 DEF Range, UniqueDevices
<1> QED  BY <1>5, <1>6, <1>7, <1>8 DEF ValidInterfaces

\* Likewise of gateways and routes.
LEMMA EntriesOfGateways ==
  ASSUME NEW doc \in GatewaysDocuments \cup {<<>>}, ValidGateways(doc)
  PROVE  /\ Range(doc) \subseteq Gateways
         /\ \A g, h \in Range(doc) : g.id = h.id => g = h
<1>1. doc \in Seq(Gateways)
  BY PlanningAssumption, EmptySeq
<1>2. doc \in [1 .. Len(doc) -> Gateways]
  BY <1>1
<1> QED  BY <1>2 DEF Range, ValidGateways, UniqueIds

LEMMA EntriesOfRoutes ==
  ASSUME NEW doc \in RoutesDocuments \cup {<<>>}
  PROVE  Range(doc) \subseteq Routes
<1>1. doc \in Seq(Routes)
  BY PlanningAssumption, EmptySeq
<1>2. doc \in [1 .. Len(doc) -> Routes]
  BY <1>1
<1> QED  BY <1>2 DEF Range

\* What the lemmas below assume of a set of interfaces.
Accepted(I) ==
  /\ I \subseteq Interfaces /\ I # {}
  /\ \A c, d \in I : c.id = d.id => c = d
  /\ \A c, d \in I : c.device = d.device => c = d
  /\ \A c \in I : ValidInterface(c)
  /\ ValidVlans(I) /\ ValidBridges(I)

(* ------------------------ generation accepts --------------------------- *)

LEMMA AcceptedIsGenerable ==
  ASSUME NEW network, Accepted(DOMAIN network)
  PROVE  Generable(network)
<1> DEFINE I == DOMAIN network
<1>1. GenerableVlans(I)
  BY DEF Accepted, ValidVlans, GenerableVlans
<1>2. GenerableBridges(I)
  <2> SUFFICES ASSUME NEW b \in Bridges(I)
               PROVE  /\ b.vlan = None /\ b.bridge # <<>>
                      /\ \A k \in DOMAIN b.bridge :
                           /\ \E c \in I : c.id = b.bridge[k] /\ c.bridge = None /\ Unaddressed(c)
                           /\ b.bridge[k] \notin VlanParents(I)
                           /\ \A other \in Bridges(I) : \A l \in DOMAIN other.bridge :
                                other.bridge[l] = b.bridge[k] => other = b /\ l = k
    BY DEF GenerableBridges
  <2>1. b \in I /\ b.bridge # None /\ ValidInterface(b)
    BY DEF Bridges, Accepted
  <2>2. b.vlan = None /\ b.bridge # <<>> /\ IsInjective(b.bridge)
    BY <2>1 DEF ValidInterface
  <2>3. ASSUME NEW k \in DOMAIN b.bridge
        PROVE  /\ \E c \in I : c.id = b.bridge[k] /\ c.bridge = None /\ Unaddressed(c)
               /\ b.bridge[k] \notin VlanParents(I)
               /\ \A other \in Bridges(I) : \A l \in DOMAIN other.bridge :
                    other.bridge[l] = b.bridge[k] => other = b /\ l = k
    <3>1. b.bridge[k] \in Range(b.bridge)
      BY DEF Range
    <3>2. /\ \E c \in I : c.id = b.bridge[k] /\ c.bridge = None /\ Unaddressed(c)
          /\ b.bridge[k] \notin VlanParents(I)
          /\ \A other \in Bridges(I) : b.bridge[k] \in Range(other.bridge) => other = b
      BY <3>1 DEF Accepted, ValidBridges
    <3>3. ASSUME NEW other \in Bridges(I), NEW l \in DOMAIN other.bridge,
                 other.bridge[l] = b.bridge[k]
          PROVE  other = b /\ l = k
      <4>1. b.bridge[k] \in Range(other.bridge)
        BY <3>3 DEF Range
      <4>2. other = b
        BY <3>2, <4>1
      <4> QED  BY <2>2, <3>3, <4>2 DEF IsInjective
    <3> QED  BY <3>2, <3>3
  <2> QED  BY <2>2, <2>3
<1>3. ValidFiles(Files(network))
  <2>1. Files(network).networks # {}
    BY DEF Files, Accepted
  <2>2. ASSUME NEW d \in Files(network).netdevs
        PROVE  NetdevName(d.device) /\ (d.kind = "vlan" => d.tag \in 1 .. 4094)
    <3>1. PICK c \in Vlans(I) \cup Bridges(I) : d = NetdevFile(c)
      BY DEF Files
    <3>2. ValidInterface(c) /\ (c.vlan # None \/ c.bridge # None)
      BY DEF Vlans, Bridges, Accepted
    <3>3. NetdevName(d.device)
      <4>1. d.device = c.device /\ VirtualName(c.device)
        BY <3>1, <3>2 DEF ValidInterface, NetdevFile
      <4>2. Length[c.device] \in Nat \ {0}
        BY <3>2, PlanningAssumption DEF Accepted, Vlans, Bridges, Interfaces
      <4> QED  BY <4>1, <4>2 DEF VirtualName, NetdevName
    <3>4. d.kind = "vlan" => c.vlan # None /\ d.tag = c.vlan.tag
      BY <3>1 DEF NetdevFile
    <3>5. c.vlan # None => c.vlan.tag \in 1 .. 4094
      BY <3>2 DEF ValidInterface
    <3> QED  BY <3>3, <3>4, <3>5
  <2> QED  BY <2>1, <2>2 DEF ValidFiles
<1> QED  BY <1>1, <1>2, <1>3 DEF Generable

(* ------------------------- what is generated --------------------------- *)

\* The device an accepted interface is bridged to is that of a bridge, and who
\* is bridged is an unaddressed interface that is neither bridge nor parent.
LEMMA BridgeOfMember ==
  ASSUME NEW I, Accepted(I), NEW c \in I, BridgeOf(c, I) # None
  PROVE  /\ \E b \in Bridges(I) : BridgeOf(c, I) = b.device
         /\ c.bridge = None /\ Unaddressed(c) /\ c.id \notin VlanParents(I)
<1>1. \E b \in Bridges(I) : c.id \in Range(b.bridge)
  BY DEF BridgeOf
<1>2. PICK b \in Bridges(I) : c.id \in Range(b.bridge) /\ BridgeOf(c, I) = b.device
  BY <1>1 DEF BridgeOf
<1>3. PICK m \in I : m.id = c.id /\ m.bridge = None /\ Unaddressed(m)
  BY <1>2 DEF Accepted, ValidBridges
<1>4. m = c
  BY <1>3 DEF Accepted
<1>5. c.id \notin VlanParents(I)
  BY <1>2 DEF Accepted, ValidBridges
<1> QED  BY <1>2, <1>3, <1>4, <1>5

\* MembersQuiet, of one file.
LEMMA MembersAreQuiet ==
  ASSUME NEW I, Accepted(I), NEW c \in I, NEW hops,
         NetworkFile(c, I, hops).bridge # None
  PROVE  LET n == NetworkFile(c, I, hops)
         IN  /\ n.dhcp = "no" /\ n.ra = "no" /\ n.linkLocal = "no"
             /\ n.addresses = {}
<1>1. BridgeOf(c, I) # None
  BY DEF NetworkFile
<1>2. c.ipv4 = "disabled" /\ c.ipv6 = "disabled"
  BY <1>1, BridgeOfMember DEF Unaddressed
<1>3. {c.ipv4, c.ipv6} \cap Subnets = {}
  BY <1>2, PlanningAssumption DEF IPv4Modes, IPv6Modes
<1>4. RouterAdvertisements(c) = "no"
  BY <1>2 DEF RouterAdvertisements
<1>5. Dhcp(c, BridgeOf(c, I)) = "no"
  BY <1>1 DEF Dhcp
<1> QED  BY <1>1, <1>3, <1>4, <1>5 DEF NetworkFile

\* Where every .network and .netdev file of a plan comes from.
LEMMA FilesComeFromInterfaces ==
  ASSUME files = Files(resolved), Accepted(DOMAIN resolved)
  PROVE  /\ files.networks = {NetworkFile(c, DOMAIN resolved, resolved[c]) : c \in DOMAIN resolved}
         /\ files.netdevs = {NetdevFile(c) : c \in Vlans(DOMAIN resolved) \cup Bridges(DOMAIN resolved)}
         /\ Made("vlan") = {c.device : c \in Vlans(DOMAIN resolved)}
         /\ Made("bridge") = {c.device : c \in Bridges(DOMAIN resolved)}
<1> DEFINE I == DOMAIN resolved
<1>1. files.networks = {NetworkFile(c, I, resolved[c]) : c \in I}
  BY DEF Files
<1>2. files.netdevs = {NetdevFile(c) : c \in Vlans(I) \cup Bridges(I)}
  BY DEF Files
<1>3. \A c : /\ NetdevFile(c).device = c.device
             /\ c.vlan # None => NetdevFile(c).kind = "vlan"
             /\ c.vlan = None => NetdevFile(c).kind = "bridge"
  BY DEF NetdevFile
<1>4. \A c \in Bridges(I) : c.vlan = None
  BY DEF Bridges, Accepted, ValidInterface
<1>5. \A c \in Vlans(I) : c.vlan # None
  BY DEF Vlans
<1>6. Made("vlan") = {c.device : c \in Vlans(I)}
  BY <1>2, <1>3, <1>4, <1>5 DEF Made
<1>7. Made("bridge") = {c.device : c \in Bridges(I)}
  BY <1>2, <1>3, <1>4, <1>5 DEF Made
<1> QED  BY <1>1, <1>2, <1>6, <1>7

\* The files of accepted interfaces are in layers.
LEMMA FilesAreLayered ==
  ASSUME files = Files(resolved), Accepted(DOMAIN resolved)
  PROVE  Layered
<1> DEFINE I == DOMAIN resolved
           File(c) == NetworkFile(c, I, resolved[c])
<1>1. /\ files.networks = {File(c) : c \in I}
      /\ files.netdevs = {NetdevFile(c) : c \in Vlans(I) \cup Bridges(I)}
      /\ Made("vlan") = {c.device : c \in Vlans(I)}
      /\ Made("bridge") = {c.device : c \in Bridges(I)}
  BY FilesComeFromInterfaces
<1>2. \A c : /\ File(c).device = c.device
             /\ File(c).bridge = BridgeOf(c, I)
             /\ \A v : v \in File(c).vlans <=>
                       \E d \in Vlans(I) : d.vlan.parent = c.id /\ d.device = v
  <2> TAKE c
  <2>1. File(c).vlans = {v.device : v \in {d \in Vlans(I) : d.vlan.parent = c.id}}
    BY DEF NetworkFile
  <2>2. \A v : v \in File(c).vlans <=>
               \E d \in Vlans(I) : d.vlan.parent = c.id /\ d.device = v
    BY <2>1
  <2>3. File(c).device = c.device /\ File(c).bridge = BridgeOf(c, I)
    BY DEF NetworkFile
  <2> QED  BY <2>2, <2>3
<1>3. \A c, d \in I : c.device = d.device => c = d
  BY DEF Accepted
<1>4. \A c, d \in I : c.id = d.id => c = d
  BY DEF Accepted
<1>5. Vlans(I) \subseteq I /\ Bridges(I) \subseteq I
  BY DEF Vlans, Bridges
<1>6. \A n, o \in files.networks : n.device = o.device => n = o
  BY <1>1, <1>2, <1>3
<1>7. \A d, e \in files.netdevs : d.device = e.device => d = e
  <2>1. \A c : NetdevFile(c).device = c.device
    BY DEF NetdevFile
  <2> QED  BY <1>1, <1>3, <1>5, <2>1
<1>8. ASSUME NEW n \in files.networks
      PROVE  /\ n.vlans \subseteq Made("vlan")
             /\ n.vlans # {} => n.device \notin Made("vlan") \cup Made("bridge") /\ n.bridge = None
             /\ n.bridge # None => n.bridge \in Made("bridge") /\ n.device \notin Made("bridge")
  <2>1. PICK c \in I : n = File(c)
    BY <1>1
  <2>2. n.vlans \subseteq Made("vlan")
    <3>1. SUFFICES ASSUME NEW v \in n.vlans PROVE v \in Made("vlan")
      OBVIOUS
    <3>2. PICK d \in Vlans(I) : d.device = v
      BY <1>2, <2>1, <3>1
    <3> QED  BY <1>1, <3>2
  <2>3. ASSUME n.vlans # {}
        PROVE  n.device \notin Made("vlan") \cup Made("bridge") /\ n.bridge = None
    <3>1. PICK v \in Vlans(I) : v.vlan.parent = c.id
      BY <1>2, <2>1, <2>3
    <3>2. PICK p \in I : p.id = c.id /\ p.vlan = None /\ p.bridge = None
      BY <3>1 DEF Accepted, ValidVlans
    <3>3. c.vlan = None /\ c.bridge = None
      BY <1>4, <3>2
    <3>4. c.device \notin Made("vlan") \cup Made("bridge")
      BY <1>1, <1>3, <1>5, <3>3 DEF Vlans, Bridges
    <3>5. c.id \in VlanParents(I)
      BY <3>1 DEF VlanParents
    <3>6. BridgeOf(c, I) = None
      BY <3>5, BridgeOfMember
    <3> QED  BY <1>2, <2>1, <3>4, <3>6
  <2>4. ASSUME n.bridge # None
        PROVE  n.bridge \in Made("bridge") /\ n.device \notin Made("bridge")
    <3>1. BridgeOf(c, I) # None
      BY <1>2, <2>1, <2>4
    <3>2. (\E b \in Bridges(I) : BridgeOf(c, I) = b.device) /\ c.bridge = None
      BY <3>1, BridgeOfMember
    <3>3. c.device \notin Made("bridge")
      BY <1>1, <1>3, <1>5, <3>2 DEF Bridges
    <3> QED  BY <1>1, <1>2, <2>1, <3>2, <3>3
  <2> QED  BY <2>2, <2>3, <2>4
<1>9. ASSUME NEW v \in Made("vlan")
      PROVE  \E n \in files.networks :
               v \in n.vlans /\ \A o \in files.networks : v \in o.vlans => o = n
  <2>1. PICK d \in Vlans(I) : v = d.device
    BY <1>1
  <2>2. PICK p \in I : p.id = d.vlan.parent
    BY DEF Accepted, ValidVlans
  <2>3. v \in File(p).vlans
    BY <1>2, <2>1, <2>2
  <2>4. ASSUME NEW o \in files.networks, v \in o.vlans
        PROVE  o = File(p)
    <3>1. PICK c \in I : o = File(c)
      BY <1>1
    <3>0. v \in File(c).vlans
      BY <2>4, <3>1
    <3>4. \A w : w \in File(c).vlans <=>
                 \E x \in Vlans(I) : x.vlan.parent = c.id /\ x.device = w
      BY <1>2
    <3>2. PICK e \in Vlans(I) : e.vlan.parent = c.id /\ e.device = v
      BY <3>0, <3>4
    <3>3. e = d
      BY <1>3, <1>5, <2>1, <3>2
    <3> QED  BY <1>4, <2>2, <3>1, <3>2, <3>3
  <2> QED  BY <1>1, <2>3, <2>4
<1> QED  BY <1>6, <1>7, <1>8, <1>9 DEF Layered

(* ------------------------------- routes -------------------------------- *)

\* What is known of a plan's routes: accepted interfaces, gateways and routes
\* that resolve among them, and the routes that Network attaches.
RoutesResolved(I, G, R) ==
  /\ Accepted(I) /\ G \subseteq Gateways /\ R \subseteq Routes
  /\ \A g, h \in G : g.id = h.id => g = h
  /\ Resolves(I, G, R)

\* A route attached to an interface goes over a gateway on that interface and
\* satisfies what resolution checked.
LEMMA AttachedRoute ==
  ASSUME NEW I, NEW G, NEW R, RoutesResolved(I, G, R),
         NEW c \in I, NEW r \in Network(I, G, R)[c]
  PROVE  \E q \in R, g \in G :
           /\ r = Hop(q, g)
           /\ g.address # None => Family[g.address] = Family[q.network]
           /\ g.address = None => SupportsFamily(c, q.network)
           /\ g.address # None /\ ~g.onlink =>
                \E s \in StaticNetworks(c, g.address) : g.address \in AddressesOf[s]
<1>1. PICK q \in R : r = Hop(q, Named(q.gateway, G)) /\ Named(q.gateway, G).interface = c.id
  BY DEF Network
<1>2. PICK g \in G :
        /\ g.id = q.gateway
        /\ g.address # None => Family[g.address] = Family[q.network]
        /\ g.address = None => SupportsFamily(Named(g.interface, I), q.network)
  BY DEF RoutesResolved, Resolves, RouteResolves
<1>3. Named(q.gateway, G) = g
  BY <1>2 DEF Named, RoutesResolved
<1>4. Named(g.interface, I) = c
  BY <1>1, <1>3 DEF Named, RoutesResolved, Accepted
<1>5. g.address # None /\ ~g.onlink =>
        \E s \in StaticNetworks(c, g.address) : g.address \in AddressesOf[s]
  <2>1. PICK d \in I :
          /\ d.id = g.interface
          /\ g.address # None /\ ~g.onlink =>
               \E s \in StaticNetworks(d, g.address) : g.address \in AddressesOf[s]
    BY DEF RoutesResolved, Resolves, GatewayResolves
  <2>2. d = c
    BY <1>1, <1>3, <2>1 DEF RoutesResolved, Accepted
  <2> QED  BY <2>1, <2>2
<1> QED  BY <1>1, <1>2, <1>3, <1>4, <1>5

LEMMA FilesAreReachable ==
  ASSUME NEW I, NEW G, NEW R, RoutesResolved(I, G, R),
         resolved = Network(I, G, R), files = Files(resolved)
  PROVE  RoutesReachable
<1>1. DOMAIN resolved = I /\ Accepted(I)
  BY DEF Network, RoutesResolved
<1>2. SUFFICES
        ASSUME NEW n \in files.networks, NEW r \in n.routes
        PROVE  /\ r.address # None => Family[r.address] = Family[r.network]
               /\ r.address # None /\ ~r.onlink =>
                    \E s \in n.addresses : r.address \in AddressesOf[s]
               /\ r.address = None =>
                    \/ \E s \in n.addresses : Family[s] = Family[r.network]
                    \/ Family[r.network] = 4 /\ n.dhcp \in {"yes", "ipv4"}
                    \/ Family[r.network] = 6 /\ (n.dhcp \in {"yes", "ipv6"} \/ n.ra = "yes")
               /\ n.bridge # None => r.onlink
  BY DEF RoutesReachable
<1>3. PICK c \in I : n = NetworkFile(c, I, resolved[c])
  BY <1>1, FilesComeFromInterfaces
<1>4. /\ n.routes = resolved[c]
      /\ n.addresses = {c.ipv4, c.ipv6} \cap Subnets
      /\ n.bridge = BridgeOf(c, I)
      /\ n.dhcp = Dhcp(c, BridgeOf(c, I))
      /\ n.ra = RouterAdvertisements(c)
  BY <1>3 DEF NetworkFile
<1>5. r \in Network(I, G, R)[c]
  BY <1>2, <1>4
<1>6. PICK q \in R, g \in G :
        /\ r = Hop(q, g)
        /\ g.address # None => Family[g.address] = Family[q.network]
        /\ g.address = None => SupportsFamily(c, q.network)
        /\ g.address # None /\ ~g.onlink =>
             \E s \in StaticNetworks(c, g.address) : g.address \in AddressesOf[s]
  BY <1>5, AttachedRoute
<1>7. r.network = q.network /\ r.address = g.address /\ r.onlink = g.onlink
  BY <1>6 DEF Hop
<1>8. /\ c.ipv4 \in Static(4) \cup {"dhcp", "disabled"}
      /\ c.ipv6 \in Static(6) \cup {"dhcp6", "slaac", "disabled"}
  BY <1>1 DEF Accepted, Interfaces, IPv4Modes, IPv6Modes
<1>9. r.address # None => Family[r.address] = Family[r.network]
  BY <1>6, <1>7
<1>10. ASSUME r.address # None, ~r.onlink
       PROVE  \E s \in n.addresses : r.address \in AddressesOf[s]
  BY <1>4, <1>6, <1>7, <1>10 DEF StaticNetworks
<1>11. n.bridge # None => r.onlink
  <2>1. SUFFICES ASSUME n.bridge # None, ~r.onlink PROVE FALSE
    OBVIOUS
  <2>2. c.ipv4 = "disabled" /\ c.ipv6 = "disabled"
    BY <1>1, <1>4, <2>1, BridgeOfMember DEF Unaddressed
  <2>3. {c.ipv4, c.ipv6} \cap Subnets = {}
    BY <2>2, PlanningAssumption DEF IPv4Modes, IPv6Modes
  <2>4. r.address = None
    BY <1>4, <1>10, <2>1, <2>3
  <2> QED  BY <1>6, <1>7, <2>2, <2>4 DEF SupportsFamily
<1>12. ASSUME r.address = None
       PROVE  \/ \E s \in n.addresses : Family[s] = Family[r.network]
              \/ Family[r.network] = 4 /\ n.dhcp \in {"yes", "ipv4"}
              \/ Family[r.network] = 6 /\ (n.dhcp \in {"yes", "ipv6"} \/ n.ra = "yes")
  <2>1. SupportsFamily(c, r.network)
    BY <1>6, <1>7, <1>12
  <2>2. n.bridge = None
    <3>1. SUFFICES ASSUME n.bridge # None PROVE FALSE
      OBVIOUS
    <3>2. c.ipv4 = "disabled" /\ c.ipv6 = "disabled"
      BY <1>1, <1>4, <3>1, BridgeOfMember DEF Unaddressed
    <3> QED  BY <2>1, <3>2 DEF SupportsFamily
  <2>3. r.network \in Destinations
    BY <1>7 DEF RoutesResolved, Routes
  <2>4. Family[r.network] \in {4, 6}
    BY <2>3, PlanningAssumption DEF IPv4Modes, IPv6Modes
  <2>5. CASE Family[r.network] = 4
    <3>1. c.ipv4 # "disabled"
      BY <2>1, <2>5 DEF SupportsFamily
    <3>2. CASE c.ipv4 \in Static(4)
      BY <1>4, <2>5, <3>2 DEF Static
    <3>3. CASE c.ipv4 = "dhcp"
      <4>1. Dhcp(c, None) \in {"yes", "ipv4"}
        BY <3>3 DEF Dhcp
      <4> QED  BY <1>4, <2>2, <2>5, <4>1
    <3> QED  BY <1>8, <3>1, <3>2, <3>3
  <2>6. CASE Family[r.network] = 6
    <3>1. c.ipv6 # "disabled"
      BY <2>1, <2>6 DEF SupportsFamily
    <3>2. CASE c.ipv6 \in Static(6)
      BY <1>4, <2>6, <3>2 DEF Static
    <3>3. CASE c.ipv6 = "dhcp6"
      <4>1. Dhcp(c, None) \in {"yes", "ipv6"}
        BY <3>3 DEF Dhcp
      <4> QED  BY <1>4, <2>2, <2>6, <4>1
    <3>4. CASE c.ipv6 = "slaac"
      <4>1. RouterAdvertisements(c) = "yes"
        BY <3>4, PlanningAssumption DEF RouterAdvertisements, IPv4Modes, IPv6Modes
      <4> QED  BY <1>4, <2>6, <4>1
    <3> QED  BY <1>8, <3>1, <3>2, <3>3, <3>4
  <2> QED  BY <2>4, <2>5, <2>6
<1> QED  BY <1>9, <1>10, <1>11, <1>12

(* ------------------------------ planning ------------------------------- *)

\* What every step knows of the documents loaded so far.
PlanInv ==
  /\ PlanTypeOK
  /\ step \notin {"interfaces", "invalid"} =>
       ValidInterfaces(interfaces) /\ interfaces \in InterfacesDocuments
  /\ step \notin {"interfaces", "gateways", "invalid"} => ValidGateways(gateways)
  /\ step \in {"generate", "ungenerable", "planned"} =>
       /\ Resolves(Range(interfaces), Range(gateways), Range(routes))
       /\ resolved = Network(Range(interfaces), Range(gateways), Range(routes))
  /\ step = "planned" => files = Files(resolved)
  /\ step # "ungenerable"
  /\ step \in {"interfaces", "gateways", "routes", "resolve"} => resolved = <<>>

LEMMA ValidIsAccepted ==
  ASSUME NEW doc \in InterfacesDocuments, ValidInterfaces(doc)
  PROVE  Accepted(Range(doc))
BY EntriesOfValid DEF Accepted

LEMMA DomainOfNetwork == \A I, G, R : DOMAIN Network(I, G, R) = I
BY DEF Network

\* Interfaces planned alone are a network without gateways and routes.
LEMMA InterfacesAlone ==
  ASSUME NEW I
  PROVE  /\ Resolves(I, Range(<<>>), Range(<<>>))
         /\ ResolveInterfaces(I) = Network(I, Range(<<>>), Range(<<>>))
<1>1. Range(<<>>) = {}
  BY DEF Range
<1> QED  BY <1>1 DEF Resolves, ResolveInterfaces, Network

LEMMA PlanInvHolds == PlanSpec => []PlanInv
<1>1. PlanInit => PlanInv
  BY DEF PlanInit, PlanInv, PlanTypeOK, Endings, NoFiles
<1>2. PlanInv /\ [PlanNext]_planVars => PlanInv'
  <2> SUFFICES ASSUME PlanInv, [PlanNext]_planVars PROVE PlanInv'
    OBVIOUS
  <2>1. ASSUME NEW doc \in InterfacesDocuments, LoadInterfaces(doc)
        PROVE  PlanInv'
    BY <2>1 DEF PlanInv, PlanTypeOK, LoadInterfaces, Endings
  <2>8. ASSUME NEW doc \in InterfacesDocuments, PlanInterfaces(doc)
        PROVE  PlanInv'
    <3>1. /\ ValidInterfaces(doc) /\ step' = "generate" /\ UNCHANGED files
          /\ interfaces' = doc /\ gateways' = <<>> /\ routes' = <<>>
          /\ resolved' = ResolveInterfaces(Range(doc))
      BY <2>8 DEF PlanInterfaces
    <3>2. ValidGateways(<<>>)
      BY DEF ValidGateways, UniqueIds, Range
    <3>3. DOMAIN resolved' = Range(doc)
      BY <3>1 DEF ResolveInterfaces
    <3>4. /\ Resolves(Range(interfaces'), Range(gateways'), Range(routes'))
          /\ resolved' = Network(Range(interfaces'), Range(gateways'), Range(routes'))
      BY <3>1, InterfacesAlone
    <3> QED  BY <3>1, <3>2, <3>3, <3>4 DEF PlanInv, PlanTypeOK, Endings
  <2>2. ASSUME NEW doc \in GatewaysDocuments, LoadGateways(doc)
        PROVE  PlanInv'
    BY <2>2 DEF PlanInv, PlanTypeOK, LoadGateways, Endings
  <2>3. ASSUME NEW doc \in RoutesDocuments, LoadRoutes(doc)
        PROVE  PlanInv'
    BY <2>3 DEF PlanInv, PlanTypeOK, LoadRoutes, Endings
  <2>4. CASE Resolve
    BY <2>4, DomainOfNetwork DEF PlanInv, PlanTypeOK, Resolve, Endings
  <2>5. CASE Generate
    <3>1. step = "generate" /\ UNCHANGED <<interfaces, gateways, routes, resolved>>
      BY <2>5 DEF Generate
    <3>2. Accepted(Range(interfaces))
      BY <3>1, ValidIsAccepted DEF PlanInv
    <3>3. DOMAIN resolved = Range(interfaces)
      BY <3>1, DomainOfNetwork DEF PlanInv
    <3>4. Generable(resolved)
      BY <3>2, <3>3, AcceptedIsGenerable
    <3>5. files' = Files(resolved) /\ step' = "planned"
      BY <2>5, <3>4 DEF Generate
    <3>6. DOMAIN files' = {"networks", "netdevs"}
      BY <3>5 DEF Files
    <3> QED  BY <3>1, <3>5, <3>6 DEF PlanInv, PlanTypeOK, Endings
  <2>6. CASE Again
    BY <2>6 DEF PlanInv, PlanTypeOK, Again, Endings, NoFiles
  <2>7. CASE UNCHANGED planVars
    BY <2>7 DEF PlanInv, PlanTypeOK, planVars
  <2> QED  BY <2>1, <2>2, <2>3, <2>4, <2>5, <2>6, <2>7, <2>8 DEF PlanNext
<1> QED  BY <1>1, <1>2, PTL DEF PlanSpec

\* Type correctness, and the backend refuses nothing that validation and
\* resolution let through: the rules that generate() of networkd.py repeats
\* are no stronger than those of config/interfaces.py and config/resolver.py.
THEOREM AcceptedIsGenerated == PlanSpec => [](PlanTypeOK /\ GenerationAccepts)
<1>1. PlanInv => PlanTypeOK /\ GenerationAccepts
  BY DEF PlanInv, GenerationAccepts
<1> QED  BY <1>1, PlanInvHolds, PTL

LEMMA PlanInvIsSound ==
  PlanInv => Layered /\ RoutesReachable /\ MembersQuiet
<1>1. PlanInv => Layered /\ RoutesReachable /\ MembersQuiet
  <2> SUFFICES ASSUME PlanInv PROVE Layered /\ RoutesReachable /\ MembersQuiet
    OBVIOUS
  <2> DEFINE I == Range(interfaces)
             G == Range(gateways)
             R == Range(routes)
  <2>1. CASE step # "planned"
    BY <2>1 DEF Layered, RoutesReachable, MembersQuiet
  <2>2. CASE step = "planned"
    <3>1. /\ ValidInterfaces(interfaces) /\ interfaces \in InterfacesDocuments
          /\ ValidGateways(gateways) /\ gateways \in GatewaysDocuments \cup {<<>>}
          /\ routes \in RoutesDocuments \cup {<<>>}
          /\ Resolves(I, G, R) /\ resolved = Network(I, G, R)
          /\ files = Files(resolved)
      BY <2>2 DEF PlanInv, PlanTypeOK
    <3>2. Accepted(I)
      BY <3>1, ValidIsAccepted
    <3>3. DOMAIN resolved = I
      BY <3>1, DomainOfNetwork
    <3>4. RoutesResolved(I, G, R)
      BY <3>1, <3>2, EntriesOfGateways, EntriesOfRoutes DEF RoutesResolved
    <3>5. Layered
      BY <3>1, <3>2, <3>3, FilesAreLayered
    <3>6. RoutesReachable
      BY <3>1, <3>4, FilesAreReachable
    <3>7. MembersQuiet
      <4>1. SUFFICES ASSUME NEW n \in files.networks, n.bridge # None
                     PROVE  /\ n.dhcp = "no" /\ n.ra = "no" /\ n.linkLocal = "no"
                            /\ n.addresses = {}
        BY DEF MembersQuiet
      <4>2. PICK c \in I : n = NetworkFile(c, I, resolved[c])
        BY <3>1, <3>2, <3>3, FilesComeFromInterfaces
      <4> QED  BY <3>2, <4>1, <4>2, MembersAreQuiet
    <3> QED  BY <3>5, <3>6, <3>7
  <2> QED  BY <2>1, <2>2
<1> QED  BY <1>1

\* Whatever documents are accepted, the stacked devices of the plan never go
\* round in a circle and nothing belongs to two bridges (the checks of
\* validate_interfaces that keep parents below their children).
THEOREM PlansAreLayered == PlanSpec => []Layered
  BY PlanInvIsSound, PlanInvHolds, PTL

\* Every gateway written into a file is on a network of the interface that the
\* file configures (_resolve_gateway and _resolve_route).
THEOREM RoutesCanBeUsed == PlanSpec => []RoutesReachable
  BY PlanInvIsSound, PlanInvHolds, PTL

\* A member of a bridge has no addressing of its own in the generated files,
\* whatever its document leaves to defaults (_network_file).
THEOREM MembersAreSilent == PlanSpec => []MembersQuiet
  BY PlanInvIsSound, PlanInvHolds, PTL
=============================================================================
