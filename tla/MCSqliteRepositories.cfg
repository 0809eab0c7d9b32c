SPECIFICATION MCSpec
CONSTANTS
  None = None
  Registrars = {"r1", "r2"}
  DomainNames = {"d"}
  HostNames = {"ns1", "ns2"}
  ContactIds = {"a", "A", "b"}
  Texts = {"text"}
  Lookup <- SmallLookup
  KeyOf <- SmallKeyOf
  CreateInputs <- SmallCreateInputs
  UpdateInputs <- SmallUpdateInputs
  Fixtures <- SmallFixtures
  Periods = {None, 2}
  MaxCalls = 3
INVARIANTS
  ContactIdsAreUnique
PROPERTIES
  ImplementsMemory
