SPECIFICATION Spec
CONSTANTS
  leafA = leafA
  leafB = leafB
  ca = ca
  root = root
  old = old
  crossed = crossed
  stray = stray
  r1 = r1
  r2 = r2
  p1 = p1
  p2 = p2
  None = None
  Certs <- MCCerts
  Subject <- MCSubject
  Issuer <- MCIssuer
  AllowedLeaves = {leafA, leafB}
  CanonicalChain <- MCCanonicalChain
  Clids = {r1, r2}
  Passwords = {p1, p2}
  Settings <- MCSettings
  Presentations <- MCPresentations
  FragmentSizes = {1, 2, 3, 4}
  MaxLogins = 2
INVARIANTS GuardStopsInTime GreetedIsCanonical SessionMatchesCertificate
PROPERTY CanonicalClientsAreServed
CHECK_DEADLOCK FALSE
