SPECIFICATION Spec
CONSTANTS
  n1 = n1
  nic = nic
  r1 = r1
  r2 = r2
  r3 = r3
  a1 = a1
  None = None
  Names = {n1, nic}
  ReservedNames = {nic}
  Registrars = {r1, r2, r3}
  AuthInfos = {a1}
  StatusChoices = {"clientDeleteProhibited", "clientUpdateProhibited"}
  YearTicks = 2
  AddGraceTicks = 1
  MaxYears = 2
  Horizon = 3
  MaxExpiry = 8
  MaxQueue = 1
INVARIANTS
  TypeOK
  StatusesNormalized
  PendingTransferAgrees
  RedemptionIsPendingDelete
  LeavingNamesCanReturn
PROPERTIES
  SponsorGoesToRequester
  PendingDeleteHolds
  ExpiryNeverMovesBack
  SponsorMovesOneWay
  OnlyApprovalsPassTheCap
  PendingTransferIsAnnounced
  ImplementsContract
SYMMETRY RegistrarSymmetry
