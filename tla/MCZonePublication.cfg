SPECIFICATION Spec
CONSTANTS
  None = None
  Torn = Torn
  MaxName = 2
  BulkFrom = 2
  HashOf <- SmallHashOf
  RowsOf <- SmallRowsOf
  HostNames <- SmallHostNames
  Addresses <- SmallAddresses
  Configs = {1}
  BulkSizes = {45535}
  MaxEdition = 3
  MaxKeys = 4
PROPERTIES
  ZonesVerify
  ZoneAndExportAgree
  OnlyMadeUpDataMoves
  GenerateKeepsKeys
