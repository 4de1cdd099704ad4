------------------------------ MODULE Planning ------------------------------
(***************************************************************************)
(* From the three documents to networkd's files: what config/interfaces.py,*)
(* gateways.py and routes.py accept, what config/resolver.py makes of it   *)
(* and what generate() of backends/networkd.py writes, with the rules that *)
(* each of them checks for itself.                                         *)
(*                                                                         *)
(* A document is a sequence of entries.  A family's setting is its mode,   *)
(* or the static subnet; names stand for texts that match their patterns.  *)
(* The order of lines in a file is left out: entries of loops are sets.    *)
(***************************************************************************)
EXTENDS Naturals, Sequences, Functions, Absence

CONSTANTS
  Ids, Devices,
  Length,         \* of a device's name
  Colons, Dots,   \* devices with a colon in their name, and "." and ".."
  Subnets, Addresses, Destinations,
  Family,         \* 4 or 6, of a subnet, address or destination
  AddressesOf,    \* the addresses that are in a subnet
  InterfacesDocuments, GatewaysDocuments, RoutesDocuments  \* what may be read

Static(family) == {s \in Subnets : Family[s] = family}
IPv4Modes == {"dhcp", "disabled"}
IPv6Modes == {"dhcp6", "slaac", "disabled"}
VLANSettings == [parent : Ids, tag : Nat]
BridgeMembers == Seq(Ids)
Interfaces == [id : Ids, device : Devices,
               ipv4 : Static(4) \cup IPv4Modes, ipv6 : Static(6) \cup IPv6Modes,
               vlan : VLANSettings \cup {None}, bridge : BridgeMembers \cup {None}]
Gateways == [id : Ids, interface : Ids, address : Addresses \cup {None}, onlink : BOOLEAN]
Routes == [id : Ids, network : Destinations, gateway : Ids]

ASSUME PlanningAssumption ==
  /\ InterfacesDocuments \subseteq Seq(Interfaces)
  /\ GatewaysDocuments \subseteq Seq(Gateways)
  /\ RoutesDocuments \subseteq Seq(Routes)
  /\ Family \in [Subnets \cup Addresses \cup Destinations -> {4, 6}]
  /\ \A s \in Subnets : \A a \in AddressesOf[s] : a \in Addresses /\ Family[a] = Family[s]
  /\ Length \in [Devices -> Nat \ {0}] /\ Colons \cup Dots \subseteq Devices
  /\ Subnets \cap (IPv4Modes \cup IPv6Modes) = {}
  /\ None \notin Addresses \cup Devices \cup BridgeMembers \cup VLANSettings

VARIABLES
  step,                         \* what plan_network does next, or how it ended
  interfaces, gateways, routes, \* the documents loaded
  resolved,                     \* each interface's routes
  files                         \* the candidate: .network and .netdev files

planVars == <<step, interfaces, gateways, routes, resolved, files>>

Endings == {"invalid", "unresolvable", "ungenerable", "planned"}
NoFiles == [networks |-> {}, netdevs |-> {}]

(* --------------------- validation of one document ---------------------- *)

Vlans(I) == {c \in I : c.vlan # None}
Bridges(I) == {c \in I : c.bridge # None}
VlanParents(I) == {c.vlan.parent : c \in Vlans(I)}
Unaddressed(c) == c.ipv4 = "disabled" /\ c.ipv6 = "disabled"

UniqueIds(doc) == \A i, j \in DOMAIN doc : doc[i].id = doc[j].id => i = j
UniqueDevices(doc) == \A i, j \in DOMAIN doc : doc[i].device = doc[j].device => i = j

\* Mutant: a byte is kept for the end of the string.
LongVirtualName(device) ==
  Length[device] <= 16 /\ device \notin Dots /\ device \notin Colons

\* What a device may be named that networkd is to make.
VirtualName(device) ==
  Length[device] <= 15 /\ device \notin Dots /\ device \notin Colons

\* Rules for one interface.
ValidInterface(c) ==
  /\ c.vlan = None \/ c.bridge = None
  /\ c.vlan # None => c.vlan.tag \in 1 .. 4094
  /\ c.bridge # None => c.bridge # <<>> /\ IsInjective(c.bridge)
  /\ c.vlan # None \/ c.bridge # None => VirtualName(c.device)

\* A parent is another, physical interface; a tag is used once on it.
ValidVlans(I) ==
  \A c \in Vlans(I) :
    /\ \E p \in I : p.id = c.vlan.parent /\ p.id # c.id /\ p.vlan = None /\ p.bridge = None
    /\ \A d \in Vlans(I) : d.vlan = c.vlan => d = c

\* A member is an unaddressed interface, neither bridge nor VLAN parent, of
\* one bridge.
ValidBridges(I) ==
  \A b \in Bridges(I) : \A m \in Range(b.bridge) :
    /\ \E c \in I : c.id = m /\ c.bridge = None /\ Unaddressed(c)
    /\ m \notin VlanParents(I)
    /\ \A other \in Bridges(I) : m \in Range(other.bridge) => other = b

\* Mutant: two interfaces may name one device.
ValidButForDevices(doc) ==
  /\ doc # <<>> /\ UniqueIds(doc)
  /\ \A c \in Range(doc) : ValidInterface(c)
  /\ ValidVlans(Range(doc)) /\ ValidBridges(Range(doc))

ValidInterfaces(doc) ==
  /\ doc # <<>> /\ UniqueIds(doc) /\ UniqueDevices(doc)
  /\ \A c \in Range(doc) : ValidInterface(c)
  /\ ValidVlans(Range(doc)) /\ ValidBridges(Range(doc))

ValidGateways(doc) ==
  UniqueIds(doc) /\ \A g \in Range(doc) : g.onlink => g.address # None

ValidRoutes(doc) == UniqueIds(doc)

(* ----------------------------- resolution ------------------------------ *)

Named(id, entries) == CHOOSE e \in entries : e.id = id

\* _static_networks: the static subnets of the address's family.
StaticNetworks(c, address) ==
  {s \in {c.ipv4, c.ipv6} \cap Subnets : Family[s] = Family[address]}

\* _supports_family
SupportsFamily(c, network) ==
  IF Family[network] = 4 THEN c.ipv4 # "disabled" ELSE c.ipv6 # "disabled"

\* The gateway's interface exists and its address is in a static subnet of it,
\* unless declared to be on link or absent.
GatewayResolves(g, I) ==
  \E c \in I :
    /\ c.id = g.interface
    /\ g.address # None /\ ~g.onlink =>
         \E s \in StaticNetworks(c, g.address) : g.address \in AddressesOf[s]

\* Mutant: families are compared for direct routes only.
RouteResolvesAnyFamily(r, G, I) ==
  \E g \in G :
    /\ g.id = r.gateway
    /\ g.address = None => SupportsFamily(Named(g.interface, I), r.network)

\* The route's gateway exists and is of its family.
RouteResolves(r, G, I) ==
  \E g \in G :
    /\ g.id = r.gateway
    /\ g.address # None => Family[g.address] = Family[r.network]
    /\ g.address = None => SupportsFamily(Named(g.interface, I), r.network)

Resolves(I, G, R) ==
  /\ \A g \in G : GatewayResolves(g, I)
  /\ \A r \in R : RouteResolves(r, G, I)

\* A ResolvedRoute.
Hop(r, g) == [id |-> r.id, network |-> r.network, address |-> g.address, onlink |-> g.onlink]

\* The interfaces, each with the routes over its gateways.
Network(I, G, R) ==
  [c \in I |-> {Hop(r, Named(r.gateway, G)) :
                  r \in {q \in R : Named(q.gateway, G).interface = c.id}}]

\* resolve_interfaces: the interfaces as they are configured, without routes.
ResolveInterfaces(I) == [c \in I |-> {}]

(* ----------------------------- generation ------------------------------ *)

\* generate's own check of VLANs.
GenerableVlans(I) ==
  \A c \in Vlans(I) :
    /\ \E p \in I : p.id = c.vlan.parent /\ p.id # c.id /\ p.vlan = None /\ p.bridge = None
    /\ \A d \in Vlans(I) \ {c} : d.vlan # c.vlan

\* _bridge_attachments: a member that is attached already is refused.
GenerableBridges(I) ==
  \A b \in Bridges(I) :
    /\ b.vlan = None /\ b.bridge # <<>>
    /\ \A k \in DOMAIN b.bridge :
         /\ \E c \in I : c.id = b.bridge[k] /\ c.bridge = None /\ Unaddressed(c)
         /\ b.bridge[k] \notin VlanParents(I)
         /\ \A other \in Bridges(I) : \A l \in DOMAIN other.bridge :
              other.bridge[l] = b.bridge[k] => other = b /\ l = k

\* The device whose bridge an interface is attached to.
BridgeOf(c, I) ==
  IF \E b \in Bridges(I) : c.id \in Range(b.bridge)
  THEN (CHOOSE b \in Bridges(I) : c.id \in Range(b.bridge)).device
  ELSE None

\* Mutant: a disabled family says nothing.
SilentRouterAdvertisements(c) ==
  CASE c.ipv6 = "slaac" -> "yes" [] c.ipv6 \in Subnets -> "no" [] OTHER -> None

\* IPv6AcceptRA=
RouterAdvertisements(c) ==
  CASE c.ipv6 = "slaac" -> "yes"
    [] c.ipv6 \in Subnets \cup {"disabled"} -> "no"
    [] OTHER -> None

\* DHCP=
Dhcp(c, bridge) ==
  CASE bridge # None -> "no"
    [] bridge = None /\ c.ipv4 = "dhcp" /\ c.ipv6 = "dhcp6" -> "yes"
    [] bridge = None /\ c.ipv4 = "dhcp" /\ c.ipv6 # "dhcp6" -> "ipv4"
    [] bridge = None /\ c.ipv4 # "dhcp" /\ c.ipv6 = "dhcp6" -> "ipv6"
    [] OTHER -> None

\* _render_interface
NetworkFile(c, I, hops) ==
  LET bridge == BridgeOf(c, I)
  IN  [id |-> c.id, device |-> c.device,
       addresses |-> {c.ipv4, c.ipv6} \cap Subnets,
       ra |-> RouterAdvertisements(c), dhcp |-> Dhcp(c, bridge),
       linkLocal |-> IF bridge = None THEN None ELSE "no",
       vlans |-> {v.device : v \in {d \in Vlans(I) : d.vlan.parent = c.id}},
       bridge |-> bridge, routes |-> hops]

NetdevFile(c) ==
  [id |-> c.id, device |-> c.device,
   kind |-> IF c.vlan # None THEN "vlan" ELSE "bridge",
   tag |-> IF c.vlan # None THEN c.vlan.tag ELSE 0]

Files(network) ==
  LET I == DOMAIN network
  IN  [networks |-> {NetworkFile(c, I, network[c]) : c \in I},
       netdevs |-> {NetdevFile(c) : c \in Vlans(I) \cup Bridges(I)}]

\* The texts that Name= of a .netdev file may have.
NetdevName(device) ==
  Length[device] \in 1 .. 15 /\ device \notin Colons /\ device \notin Dots

\* validate: the candidate is not empty, and .netdev files have names and tags
\* that networkd takes.
ValidFiles(candidate) ==
  /\ candidate.networks # {}
  /\ \A d \in candidate.netdevs :
       NetdevName(d.device) /\ (d.kind = "vlan" => d.tag \in 1 .. 4094)

Generable(network) ==
  /\ GenerableVlans(DOMAIN network) /\ GenerableBridges(DOMAIN network)
  /\ ValidFiles(Files(network))

(* ------------------------------ planning ------------------------------- *)

LoadInterfaces(doc) ==
  /\ step = "interfaces"
  /\ interfaces' = doc
  /\ step' = IF ValidInterfaces(doc) THEN "gateways" ELSE "invalid"
  /\ UNCHANGED <<gateways, routes, resolved, files>>

\* An absent document is the empty one.
LoadGateways(doc) ==
  /\ step = "gateways"
  /\ gateways' = doc
  /\ step' = IF ValidGateways(doc) THEN "routes" ELSE "invalid"
  /\ UNCHANGED <<interfaces, routes, resolved, files>>

LoadRoutes(doc) ==
  /\ step = "routes"
  /\ routes' = doc
  /\ step' = IF ValidRoutes(doc) THEN "resolve" ELSE "invalid"
  /\ UNCHANGED <<interfaces, gateways, resolved, files>>

Resolve ==
  LET I == Range(interfaces)
      G == Range(gateways)
      R == Range(routes)
  IN  /\ step = "resolve"
      /\ resolved' = IF Resolves(I, G, R) THEN Network(I, G, R) ELSE resolved
      /\ step' = IF Resolves(I, G, R) THEN "generate" ELSE "unresolvable"
      /\ UNCHANGED <<interfaces, gateways, routes, files>>

Generate ==
  /\ step = "generate"
  /\ files' = IF Generable(resolved) THEN Files(resolved) ELSE files
  /\ step' = IF Generable(resolved) THEN "planned" ELSE "ungenerable"
  /\ UNCHANGED <<interfaces, gateways, routes, resolved>>

\* plan_interfaces of core/interfaces.py: a valid interfaces document alone.
PlanInterfaces(doc) ==
  /\ step = "interfaces"
  /\ ValidInterfaces(doc)
  /\ interfaces' = doc /\ gateways' = <<>> /\ routes' = <<>>
  /\ resolved' = ResolveInterfaces(Range(doc))
  /\ step' = "generate"
  /\ UNCHANGED files

PlanInit ==
  /\ step = "interfaces"
  /\ interfaces = <<>> /\ gateways = <<>> /\ routes = <<>>
  /\ resolved = <<>> /\ files = NoFiles

\* The next plan starts from nothing.
Again ==
  /\ step \in Endings
  /\ step' = "interfaces"
  /\ interfaces' = <<>> /\ gateways' = <<>> /\ routes' = <<>>
  /\ resolved' = <<>> /\ files' = NoFiles

PlanNext ==
  \/ \E doc \in InterfacesDocuments : LoadInterfaces(doc) \/ PlanInterfaces(doc)
  \/ \E doc \in GatewaysDocuments : LoadGateways(doc)
  \/ \E doc \in RoutesDocuments : LoadRoutes(doc)
  \/ Resolve \/ Generate \/ Again

PlanSpec == PlanInit /\ [][PlanNext]_planVars

(* ----------------------------- properties ------------------------------ *)

PlanTypeOK ==
  /\ step \in {"interfaces", "gateways", "routes", "resolve", "generate"} \cup Endings
  /\ interfaces \in InterfacesDocuments \cup {<<>>}
  /\ gateways \in GatewaysDocuments \cup {<<>>}
  /\ routes \in RoutesDocuments \cup {<<>>}
  /\ resolved = <<>> \/ DOMAIN resolved = Range(interfaces)
  /\ DOMAIN files = {"networks", "netdevs"}

\* The backend refuses nothing that validation and resolution let through: an
\* administrator is told of a mistake in terms of the documents, and edit,
\* which validates only, accepts no interfaces that can never be applied.
GenerationAccepts == step # "ungenerable"

Made(kind) == {d.device : d \in {e \in files.netdevs : e.kind = kind}}

\* The devices of a plan are in layers - physical, VLAN, bridge - with
\* attachments only upwards: every device is described once, every VLAN= and
\* Bridge= line names a device that is made, every VLAN is on one parent, no
\* device is below itself.
Layered ==
  step = "planned" =>
    /\ \A n, o \in files.networks : n.device = o.device => n = o
    /\ \A d, e \in files.netdevs : d.device = e.device => d = e
    /\ \A n \in files.networks :
         /\ n.vlans \subseteq Made("vlan")
         /\ n.vlans # {} => n.device \notin Made("vlan") \cup Made("bridge") /\ n.bridge = None
         /\ n.bridge # None => n.bridge \in Made("bridge") /\ n.device \notin Made("bridge")
    /\ \A v \in Made("vlan") : \E n \in files.networks :
         v \in n.vlans /\ \A o \in files.networks : v \in o.vlans => o = n

\* A route can be used where it is written: its next hop is of its family and
\* in a subnet of the same file, a direct route is on a device that has its
\* family, and only a gateway declared on link puts one on a bridge member.
RoutesReachable ==
  step = "planned" =>
    \A n \in files.networks : \A r \in n.routes :
      /\ r.address # None => Family[r.address] = Family[r.network]
      /\ r.address # None /\ ~r.onlink =>
           \E s \in n.addresses : r.address \in AddressesOf[s]
      /\ r.address = None =>
           \/ \E s \in n.addresses : Family[s] = Family[r.network]
           \/ Family[r.network] = 4 /\ n.dhcp \in {"yes", "ipv4"}
           \/ Family[r.network] = 6 /\ (n.dhcp \in {"yes", "ipv6"} \/ n.ra = "yes")
      /\ n.bridge # None => r.onlink

\* Members of a bridge have no addressing of their own: "DHCP, IPv6 router
\* advertisements and link-local addressing explicitly disabled".
MembersQuiet ==
  step = "planned" =>
    \A n \in files.networks :
      n.bridge # None => /\ n.dhcp = "no" /\ n.ra = "no" /\ n.linkLocal = "no"
                         /\ n.addresses = {}
=============================================================================
