CONSTANTS
  i1 = i1
  i2 = i2
  i3 = i3
  d1 = d1
  d2 = d2
  d3 = d3
  long = long
  colon = colon
  dots = dots
  net4 = net4
  net6 = net6
  in4 = in4
  in6 = in6
  out4 = out4
  to4 = to4
  to6 = to6
  None = None
  Absent = Absent
  Ids = {i1, i2, i3}
  Devices = {d1, d2, d3, long, colon, dots}
  Length <- MCLength
  Colons = {colon}
  Dots = {dots}
  Subnets = {net4, net6}
  Addresses = {in4, in6, out4}
  Destinations = {to4, to6}
  Family <- MCFamily
  AddressesOf <- MCAddressesOf
  InterfacesDocuments <- MCInterfacesDocuments
  GatewaysDocuments <- MCGatewaysDocuments
  RoutesDocuments <- MCRoutesDocuments
SPECIFICATION PlanSpec
INVARIANTS
  GenerationAccepts
  Layered
  RoutesReachable
  MembersQuiet
