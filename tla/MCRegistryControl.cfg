SPECIFICATION Spec
CONSTANTS
  nic = nic
  example = example
  low = low
  upper = upper
  loopback = loopback
  admin = admin
  r1 = r1
  None = None
  Torn = Torn
  DefaultDomains <- BothDefaults
  Roles <- OneRole
  ReservedNames = {nic}
  Registrars = {admin, r1}
  Admin = admin
  Glue = {low, upper, loopback}
  Usable = {low, upper}
  AddressKey <- Spelled
  ImportedRows <- Fixtures
  MaxCommands = 3
PROPERTIES
  SeedingCompletes
  SeededDefaultsStay
  SeedingIsIdempotent
  SeedingFailsOnlyIfBlocked
