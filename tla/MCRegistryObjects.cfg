SPECIFICATION Spec
CONSTANTS
  d1 = d1
  d2 = d2
  inside = inside
  outside = outside
  c1 = c1
  r1 = r1
  r2 = r2
  a1 = a1
  None = None
  Domains = {d1, d2}
  Hosts = {inside, outside}
  Contacts = {c1}
  Registrars = {r1, r2}
  Addresses = {a1}
  StatusChoices = {"clientDeleteProhibited"}
  Parent <- MCParent
  MaxNameservers = 1
INVARIANTS
  TypeOK
  ContactReferencesResolve
  HostReferencesResolve
PROPERTIES
  NarrowGlue
  ForeignLinksHoldHosts
  RenameKeepsDelegation
SYMMETRY RegistrarSymmetry
