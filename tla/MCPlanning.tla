----------------------------- MODULE MCPlanning -----------------------------
(***************************************************************************)
(* A small instance of Planning.  Documents with up to three interfaces    *)
(* stacked in every way (parents and members that exist, do not, are the   *)
(* interface itself), and documents with one interface in every addressing,*)
(* with gateways in, beside and outside its subnets.                       *)
(***************************************************************************)
EXTENDS Planning, TLC

CONSTANTS
  i1, i2, i3, d1, d2, d3,
  long, colon, dots,              \* no names for a virtual device
  net4, net6,                     \* a subnet of each family
  in4, in6, out4,                 \* addresses, two of them in these subnets
  to4, to6                        \* destinations

MCFamily == [x \in {net4, in4, out4, to4} |-> 4] @@ [x \in {net6, in6, to6} |-> 6]
MCLength == [d \in {d1, d2} |-> 4] @@ d3 :> 15 @@ long :> 16 @@ colon :> 6 @@ dots :> 2
MCAddressesOf == net4 :> {in4} @@ net6 :> {in6}

Interface(id, device, ipv4, ipv6, vlan, bridge) ==
  [id |-> id, device |-> device, ipv4 |-> ipv4, ipv6 |-> ipv6,
   vlan |-> vlan, bridge |-> bridge]

\* How an interface may be stacked: <<vlan, bridge>>.
Plain == <<None, None>>
Tagged == {<<[parent |-> p, tag |-> t], None>> : p \in {i1, i2}, t \in {1, 4094}}
Bridged == {<<None, m>> : m \in {<<i1>>, <<i2>>, <<i3>>, <<i1, i2>>, <<i2, i1>>, <<i2, i2>>}}
Odd == {<<[parent |-> i1, tag |-> t], None>> : t \in {0, 4095}}
       \cup {<<None, <<>> >>, <<[parent |-> i1, tag |-> 1], <<i2>> >>}
Stacks == {Plain} \cup Tagged \cup Bridged

Stacked ==
  {<<Interface(i1, d1, a, "disabled", s[1], s[2]), Interface(i2, d2, "disabled", b, t[1], t[2])>> :
     a \in {net4, "disabled"}, b \in {net6, "disabled"}, s \in Stacks, t \in Stacks \cup Odd}
Third ==
  {Interface(i3, x[1], "disabled", "disabled", x[2][1], x[2][2]) :
     x \in ({d3} \X Stacks)
           \cup ({d1, long, colon, dots} \X {Plain, <<[parent |-> i1, tag |-> 1], None>>,
                                         <<None, <<i1>> >>})}
Addressed ==
  {<<Interface(i1, d1, a, b, None, None)>> :
     a \in {net4, "dhcp", "disabled"}, b \in {net6, "dhcp6", "slaac", "disabled"}}

MCInterfacesDocuments ==
  {<<>>} \cup Addressed \cup Stacked \cup {Append(doc, c) : doc \in Stacked, c \in Third}

Via(id, interface, address, onlink) ==
  [id |-> id, interface |-> interface, address |-> address, onlink |-> onlink]
MCGatewaysDocuments ==
  {<<>>}
  \cup {<<Via(i1, i, a, o)>> : i \in {i1, i2}, a \in {None, in4, in6, out4}, o \in BOOLEAN}
  \cup {<<Via(i1, i1, in4, FALSE), Via(g, i2, out4, TRUE)>> : g \in {i1, i2}}

To(id, network, gateway) == [id |-> id, network |-> network, gateway |-> gateway]
MCRoutesDocuments ==
  {<<>>, <<To(i1, to4, i1), To(i1, to6, i1)>>, <<To(i1, to4, i1), To(i2, to4, i2)>>}
  \cup {<<To(i1, n, i1)>> : n \in {to4, to6}}
=============================================================================
