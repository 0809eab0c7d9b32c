------------------------ MODULE DomainLifecycleProofs -------------------------
(***************************************************************************)
(* Proofs about DomainLifecycle for every value of its constants.          *)
(*                                                                         *)
(* The invariants speak of one name at a time, so the argument is about    *)
(* one record: RecordOK is the inductive invariant of a stored record, and *)
(* each repository method maps a record that satisfies it to another one.  *)
(* The parties of a transfer, at the end, need one fact more, which the    *)
(* effect lemmas carry: the first losing registrar stays recorded.         *)
(***************************************************************************)
EXTENDS DomainLifecycle, TLAPS

-------------------------------------------------------------------------------
(* The inductive invariant.                                                *)

RecordNormalized(d) ==
  /\ d.statuses # {}
  /\ "ok" \in d.statuses <=> d.statuses = {"ok"}

RecordPendingAgrees(d) ==
  "pendingTransfer" \in d.statuses
    <=> d.transfer # None /\ d.transfer.status = "pending"

RecordRedemption(d) ==
  d.rgpStatus = "redemptionPeriod" => "pendingDelete" \in d.statuses

RecordReturn(d) ==
  "pendingDelete" \in d.statuses =>
    \/ d.rgpStatus = "redemptionPeriod"
    \/ d.rgpStatus = "transferPeriod" /\ d.transfer # None

RecordOK(d) ==
  /\ d \in DomainRecord
  /\ RecordNormalized(d)
  /\ RecordPendingAgrees(d)
  /\ RecordRedemption(d)
  /\ RecordReturn(d)

IInv ==
  /\ TypeOK
  /\ \A n \in Names : IsRegistered(n) => RecordOK(domains[n])

-------------------------------------------------------------------------------
(* Lemmas about the operators.                                             *)

\* A normalized status list is not empty, has "ok" only alone, and keeps every
\* other status of the list it was made from (normalizeObjectStatuses).
LEMMA NormalizeFacts ==
  ASSUME NEW S \in SUBSET ObjectStatuses
  PROVE  LET N == NormalizeObjectStatuses(S)
         IN  /\ N \in SUBSET ObjectStatuses
             /\ N # {}
             /\ "ok" \in N <=> N = {"ok"}
             /\ \A s : s # "ok" => (s \in N <=> s \in S)
BY DEF NormalizeObjectStatuses, ObjectStatuses

\* A number of years is a number of ticks.
LEMMA YearsInTicks ==
  ASSUME NEW y \in Years
  PROVE  y * YearTicks \in Nat /\ y * YearTicks > 0
<1>1. y \in Nat /\ y > 0
  BY ClockAssumption DEF Years
<1>2. YearTicks \in Nat /\ YearTicks > 0
  BY ClockAssumption
<1>3. QED
  BY <1>1, <1>2

\* The registration cap is a number of ticks.
LEMMA CapInTicks == MaxYears * YearTicks \in Nat
<1>1. MaxYears \in Years
  BY ClockAssumption DEF Years
<1>2. QED
  BY <1>1, YearsInTicks

\* No legal number of years is longer than the cap.
LEMMA YearsWithinCap ==
  ASSUME NEW y \in Years
  PROVE  y * YearTicks =< MaxYears * YearTicks
<1>1. y \in Nat /\ MaxYears \in Nat /\ y =< MaxYears /\ YearTicks \in Nat
  BY ClockAssumption DEF Years
<1>2. QED
  BY <1>1

\* create writes a record that is normalized and without transfer.
LEMMA CreateRecordOK ==
  ASSUME now \in Nat,
         NEW r \in Registrars, NEW years \in Years,
         NEW auth \in AuthInfos \cup {None}
  PROVE  RecordOK(CreateRecord(r, years, auth))
<1> DEFINE d == CreateRecord(r, years, auth)
<1>1. years * YearTicks \in Nat
  BY YearsInTicks
<1>2. d \in DomainRecord
  BY <1>1 DEF CreateRecord, DomainRecord, ObjectStatuses, RgpStatuses
<1>3. RecordNormalized(d) /\ RecordPendingAgrees(d) /\ RecordRedemption(d) /\ RecordReturn(d)
  BY DEF CreateRecord, RecordNormalized, RecordPendingAgrees, RecordRedemption, RecordReturn
<1>4. QED
  BY <1>2, <1>3 DEF RecordOK

\* Editing the statuses and the other columns as <update> does.
LEMMA UpdateRecordOK ==
  ASSUME NEW d, RecordOK(d),
         NEW add \in SUBSET CLIENT_SETTABLE_DOMAIN_STATUSES,
         NEW rem \in SUBSET CLIENT_SETTABLE_DOMAIN_STATUSES,
         NEW auth \in AuthInfos \cup {None}
  PROVE  RecordOK([UpdateStatuses(d, add, rem) EXCEPT !.authInfo = auth])
<1> DEFINE S == (d.statuses \ rem) \cup add
           e == [UpdateStatuses(d, add, rem) EXCEPT !.authInfo = auth]
<1>1. d \in DomainRecord
  BY DEF RecordOK
<1>2. S \in SUBSET ObjectStatuses
  BY <1>1 DEF DomainRecord, ObjectStatuses
<1>3. /\ e = [d EXCEPT !.statuses = NormalizeObjectStatuses(S), !.authInfo = auth]
      /\ e \in DomainRecord
  BY <1>1, <1>2, NormalizeFacts DEF UpdateStatuses, DomainRecord
<1>4. /\ e.statuses = NormalizeObjectStatuses(S)
      /\ e.transfer = d.transfer
      /\ e.rgpStatus = d.rgpStatus
      /\ e.expiresAt = d.expiresAt
  BY <1>1, <1>3 DEF DomainRecord
<1>5. RecordNormalized(e)
  BY <1>2, <1>4, NormalizeFacts DEF RecordNormalized
<1>6. \A s \in {"pendingTransfer", "pendingDelete"} : s \in e.statuses <=> s \in d.statuses
  BY <1>2, <1>4, NormalizeFacts DEF CLIENT_SETTABLE_DOMAIN_STATUSES
<1>7. RecordPendingAgrees(e) /\ RecordRedemption(e) /\ RecordReturn(e)
  BY <1>4, <1>6 DEF RecordOK, RecordPendingAgrees, RecordRedemption, RecordReturn
<1>8. QED
  BY <1>3, <1>5, <1>7 DEF RecordOK

\* A renewal, of a name that is not being deleted.
LEMMA RenewRecordOK ==
  ASSUME NEW d, RecordOK(d), NEW years \in Years, "pendingDelete" \notin d.statuses
  PROVE  RecordOK(RenewRecord(d, years))
<1> DEFINE e == RenewRecord(d, years)
<1>1. d \in DomainRecord
  BY DEF RecordOK
<1>2. /\ e \in DomainRecord
      /\ e.statuses = d.statuses
      /\ e.transfer = d.transfer
      /\ e.rgpStatus = "renewPeriod"
      /\ e.expiresAt = d.expiresAt + years * YearTicks
  <2>1. years * YearTicks \in Nat
    BY YearsInTicks
  <2>2. d.expiresAt + years * YearTicks \in Nat
    BY <1>1, <2>1 DEF DomainRecord
  <2>3. e = [d EXCEPT !.expiresAt = d.expiresAt + years * YearTicks,
                      !.rgpStatus = "renewPeriod"]
    BY DEF RenewRecord
  <2>4. QED
    BY <1>1, <2>2, <2>3 DEF DomainRecord, RgpStatuses
<1>3. QED
  BY <1>2 DEF RecordOK, RecordNormalized, RecordPendingAgrees, RecordRedemption, RecordReturn

\* A deletion past the grace period, and the restore that undoes it.
LEMMA RedeemRecordOK ==
  ASSUME NEW d, RecordOK(d)
  PROVE  /\ RecordOK([UpdateStatuses(d, {"pendingDelete"}, {}) EXCEPT
                         !.rgpStatus = "redemptionPeriod"])
         /\ RecordOK([UpdateStatuses(d, {}, {"pendingDelete"}) EXCEPT
                         !.rgpStatus = "pendingRestore"])
<1> DEFINE S == (d.statuses \ {}) \cup {"pendingDelete"}
           R == (d.statuses \ {"pendingDelete"}) \cup {}
           e == [UpdateStatuses(d, {"pendingDelete"}, {}) EXCEPT
                   !.rgpStatus = "redemptionPeriod"]
           f == [UpdateStatuses(d, {}, {"pendingDelete"}) EXCEPT
                   !.rgpStatus = "pendingRestore"]
<1>1. d \in DomainRecord
  BY DEF RecordOK
<1>2. S \in SUBSET ObjectStatuses /\ R \in SUBSET ObjectStatuses
  BY <1>1 DEF DomainRecord, ObjectStatuses
<1>3. /\ e \in DomainRecord
      /\ e.statuses = NormalizeObjectStatuses(S)
      /\ e.rgpStatus = "redemptionPeriod"
      /\ e.transfer = d.transfer
  BY <1>1, <1>2, NormalizeFacts DEF UpdateStatuses, DomainRecord, RgpStatuses
<1>4. /\ f \in DomainRecord
      /\ f.statuses = NormalizeObjectStatuses(R)
      /\ f.rgpStatus = "pendingRestore"
      /\ f.transfer = d.transfer
  BY <1>1, <1>2, NormalizeFacts DEF UpdateStatuses, DomainRecord, RgpStatuses
<1>5. RecordNormalized(e) /\ RecordNormalized(f)
  BY <1>2, <1>3, <1>4, NormalizeFacts DEF RecordNormalized
<1>6. /\ "pendingTransfer" \in e.statuses <=> "pendingTransfer" \in d.statuses
      /\ "pendingTransfer" \in f.statuses <=> "pendingTransfer" \in d.statuses
      /\ "pendingDelete" \in e.statuses
      /\ "pendingDelete" \notin f.statuses
  BY <1>2, <1>3, <1>4, NormalizeFacts
<1>7. RecordPendingAgrees(e) /\ RecordPendingAgrees(f)
  BY <1>3, <1>4, <1>6 DEF RecordOK, RecordPendingAgrees
<1>8. RecordRedemption(e) /\ RecordRedemption(f) /\ RecordReturn(e) /\ RecordReturn(f)
  BY <1>3, <1>4, <1>6 DEF RecordRedemption, RecordReturn
<1>9. QED
  BY <1>3, <1>4, <1>5, <1>7, <1>8 DEF RecordOK

\* The period a transfer will grant is a legal one.
LEMMA TransferYearsOK ==
  ASSUME NEW d \in DomainRecord
  PROVE  TransferYears(d) \in Years
BY ClockAssumption DEF TransferYears, DomainRecord, TransferRecord, Years

\* setTransfer, whatever the new status of the transfer.
LEMMA TransferRecordOK ==
  ASSUME NEW d, RecordOK(d),
         NEW status \in {"pending", "approved", "rejected", "cancelled"},
         NEW r \in Registrars, NEW years \in Years
  PROVE  LET e == SetTransferStatus(d, status, r, years)
         IN  /\ RecordOK(e)
             /\ e.transfer \in TransferRecord
             /\ e.transfer.status = status
             /\ e.transfer.requestedBy = RequestedBy(d, r)
             /\ e.transfer.losingRegistrar = LosingRegistrar(d)
             /\ e.registrarId = d.registrarId
             /\ e.expiresAt = d.expiresAt
             /\ "pendingDelete" \in e.statuses <=> "pendingDelete" \in d.statuses
<1> DEFINE e == SetTransferStatus(d, status, r, years)
           S == IF status = "pending" THEN d.statuses \cup {"pendingTransfer"}
                                      ELSE d.statuses \ {"pendingTransfer"}
           t == [status          |-> status,
                 requestedBy     |-> RequestedBy(d, r),
                 losingRegistrar |-> LosingRegistrar(d),
                 periodYears     |-> years]
<1>1. d \in DomainRecord
  BY DEF RecordOK
<1>2. S \in SUBSET ObjectStatuses
  BY <1>1 DEF DomainRecord, ObjectStatuses
<1>3. RequestedBy(d, r) \in Registrars /\ LosingRegistrar(d) \in Registrars
  BY <1>1 DEF RequestedBy, LosingRegistrar, DomainRecord, TransferRecord
<1>4. t \in TransferRecord /\ t # None
  BY <1>3, NoneAssumption DEF TransferRecord
<1>5. NormalizeObjectStatuses(S) \in SUBSET ObjectStatuses
  BY <1>2, NormalizeFacts
<1>6. e = [d EXCEPT !.statuses = NormalizeObjectStatuses(S), !.transfer = t]
  BY DEF SetTransferStatus
<1>7. /\ e \in DomainRecord
      /\ e.statuses = NormalizeObjectStatuses(S)
      /\ e.transfer = t
      /\ e.rgpStatus = d.rgpStatus
      /\ e.registrarId = d.registrarId
      /\ e.expiresAt = d.expiresAt
  BY <1>1, <1>4, <1>5, <1>6 DEF DomainRecord
<1>8. RecordNormalized(e)
  BY <1>2, <1>7, NormalizeFacts DEF RecordNormalized
<1>9. /\ "pendingDelete" \in e.statuses <=> "pendingDelete" \in d.statuses
      /\ "pendingTransfer" \in e.statuses <=> status = "pending"
  BY <1>2, <1>7, NormalizeFacts
<1>10. RecordPendingAgrees(e)
  BY <1>4, <1>7, <1>9 DEF RecordPendingAgrees
<1>11. RecordRedemption(e) /\ RecordReturn(e)
  BY <1>4, <1>7, <1>9 DEF RecordOK, RecordRedemption, RecordReturn
<1>12. QED
  BY <1>4, <1>7, <1>8, <1>9, <1>10, <1>11 DEF RecordOK

\* An approval: the name goes to the requester, for longer.
LEMMA ApproveRecordOK ==
  ASSUME NEW d, RecordOK(d), NEW r \in Registrars
  PROVE  LET e == ApproveTransferRecord(d, r)
         IN  /\ RecordOK(e)
             /\ e.transfer \in TransferRecord
             /\ e.transfer.status = "approved"
             /\ e.transfer.requestedBy = RequestedBy(d, r)
             /\ e.transfer.losingRegistrar = LosingRegistrar(d)
             /\ e.registrarId = RequestedBy(d, r)
             /\ e.expiresAt > d.expiresAt
             /\ e.expiresAt = d.expiresAt + TransferYears(d) * YearTicks
             /\ e.rgpStatus = "transferPeriod"
             /\ "pendingDelete" \in e.statuses <=> "pendingDelete" \in d.statuses
<1> DEFINE s == SetTransferStatus(d, "approved", r, TransferYears(d))
           e == ApproveTransferRecord(d, r)
           x == d.expiresAt + TransferYears(d) * YearTicks
<1>1. d \in DomainRecord
  BY DEF RecordOK
<1>2. TransferYears(d) \in Years
  BY <1>1, TransferYearsOK
<1>3. /\ RecordOK(s)
      /\ s.transfer \in TransferRecord
      /\ s.transfer.status = "approved"
      /\ s.transfer.requestedBy = RequestedBy(d, r)
      /\ s.transfer.losingRegistrar = LosingRegistrar(d)
      /\ "pendingDelete" \in s.statuses <=> "pendingDelete" \in d.statuses
  BY <1>2, TransferRecordOK
<1>4. RequestedBy(d, r) \in Registrars
  BY <1>1 DEF RequestedBy, DomainRecord, TransferRecord
<1>5. x \in Nat /\ x > d.expiresAt
  <2>1. TransferYears(d) * YearTicks \in Nat /\ TransferYears(d) * YearTicks > 0
    BY <1>2, YearsInTicks
  <2>2. d.expiresAt \in Nat
    BY <1>1 DEF DomainRecord
  <2>3. QED
    BY <2>1, <2>2
<1>6. e = [s EXCEPT !.registrarId = RequestedBy(d, r),
                    !.expiresAt   = x,
                    !.rgpStatus   = "transferPeriod"]
  BY DEF ApproveTransferRecord
<1>7. s \in DomainRecord
  BY <1>3 DEF RecordOK
<1>8. /\ e \in DomainRecord
      /\ e.statuses = s.statuses
      /\ e.transfer = s.transfer
      /\ e.rgpStatus = "transferPeriod"
      /\ e.registrarId = RequestedBy(d, r)
      /\ e.expiresAt = x
  BY <1>4, <1>5, <1>6, <1>7 DEF DomainRecord, RgpStatuses
<1>9. RecordNormalized(e) /\ RecordPendingAgrees(e) /\ RecordRedemption(e)
  BY <1>3, <1>8 DEF RecordOK, RecordNormalized, RecordPendingAgrees, RecordRedemption
<1>10. RecordReturn(e)
  BY <1>3, <1>8, NoneAssumption DEF RecordReturn
<1>11. QED
  BY <1>3, <1>5, <1>8, <1>9, <1>10 DEF RecordOK

-------------------------------------------------------------------------------
(* What a command can do to the row of its name: `d' is the row before and *)
(* `e' the row after, None when there is none.                             *)

Leaving(d) == "pendingDelete" \in d.statuses

Capped(e) == e.expiresAt =< now + MaxYears * YearTicks

Registers(d, e) ==
  /\ d = None /\ e # None
  /\ e.transfer = None
  /\ ~Leaving(e)
  /\ Capped(e)

Releases(d, e) ==
  /\ d # None /\ e = None
  /\ ~Leaving(d)

\* The record stays, with its parties and its deletion state.
Keeps(d, e) ==
  /\ e.registrarId = d.registrarId
  /\ d.transfer = None => e.transfer = None
  /\ d.transfer # None => /\ e.transfer # None
                         /\ e.transfer.requestedBy = d.transfer.requestedBy
                         /\ e.transfer.losingRegistrar = d.transfer.losingRegistrar
  /\ Leaving(e) <=> Leaving(d)

Claims(d, e) ==
  /\ d.transfer = None /\ e.transfer # None
  /\ e.registrarId = d.registrarId
  /\ e.transfer.requestedBy \in Registrars
  /\ e.transfer.losingRegistrar = d.registrarId
  /\ Leaving(e) <=> Leaving(d)

HandsOver(d, e) ==
  /\ d.transfer # None /\ e.transfer # None
  /\ e.transfer.requestedBy = d.transfer.requestedBy
  /\ e.transfer.losingRegistrar = d.transfer.losingRegistrar
  /\ e.registrarId = d.transfer.requestedBy
  /\ e.transfer.status = "approved"
  /\ e.expiresAt > d.expiresAt
  /\ Leaving(e) <=> Leaving(d)

Leaves(d, e) ==
  /\ e.registrarId = d.registrarId
  /\ e.transfer = d.transfer
  /\ Leaving(e)

Returns(d, e) ==
  /\ e.registrarId = d.registrarId
  /\ e.transfer = d.transfer
  /\ ~Leaving(e)
  /\ d.rgpStatus = "redemptionPeriod"
  /\ e.rgpStatus = "pendingRestore"

\* The expiry stays, is extended within the cap, or is extended by an approval.
Approved(d, e) ==
  /\ e.transfer # None
  /\ e.transfer.status = "approved"
  /\ e.rgpStatus = "transferPeriod"
  /\ e.expiresAt = d.expiresAt + TransferYears(d) * YearTicks

Extends(d, e) == e.expiresAt = d.expiresAt \/ Capped(e) \/ Approved(d, e)

Changes(d, e) ==
  /\ d # None /\ e # None
  /\ e.expiresAt >= d.expiresAt
  /\ Extends(d, e)
  /\ Keeps(d, e) \/ Claims(d, e) \/ HandsOver(d, e) \/ Leaves(d, e) \/ Returns(d, e)

Effect(d, e) == Registers(d, e) \/ Releases(d, e) \/ Changes(d, e)

\* A domain command stores one row, good if it is a record, with such an effect.
Stores(n, e) ==
  /\ Store(n, e)
  /\ now' = now
  /\ e # None => RecordOK(e)
  /\ Effect(domains[n], e)

\* The types of the columns of a good row, as the leaves below need them.
LEMMA RecordFacts ==
  ASSUME NEW d, RecordOK(d)
  PROVE  /\ d \in DomainRecord
         /\ d # None
         /\ d.registrarId \in Registrars
         /\ d.statuses \in SUBSET ObjectStatuses
         /\ d.expiresAt \in Nat
         /\ d.createdAt \in Nat
         /\ d.authInfo \in AuthInfos \cup {None}
BY NoneAssumption DEF RecordOK, DomainRecord

\* <create> stores a good row for a name that had none.
LEMMA CreateEffect ==
  ASSUME IInv, NEW n \in Names, NEW r \in Registrars, NEW years \in Years,
         NEW auth \in AuthInfos \cup {None}, Create(n, r, years, auth)
  PROVE  \E e : Stores(n, e)
<1> DEFINE e == CreateRecord(r, years, auth)
<1>1. Store(n, e) /\ now' = now /\ domains[n] = None
  BY DEF Create, MayCreate, IsRegistered
<1>2. RecordOK(e)
  BY CreateRecordOK DEF IInv, TypeOK
<1>3. Capped(e)
  <2>1. years * YearTicks \in Nat /\ years * YearTicks =< MaxYears * YearTicks
    BY YearsInTicks, YearsWithinCap
  <2>2. e.expiresAt = now + years * YearTicks /\ now \in Nat
    BY DEF CreateRecord, IInv, TypeOK
  <2>3. QED
    BY <2>1, <2>2, CapInTicks DEF Capped
<1>4. Registers(domains[n], e)
  BY <1>1, <1>2, <1>3, RecordFacts DEF Registers, Leaving, CreateRecord
<1>5. QED
  BY <1>1, <1>2, <1>4 DEF Stores, Effect

\* <update> leaves sponsor, transfer, expiry and deletion state alone.
LEMMA UpdateEffect ==
  ASSUME IInv, NEW n \in Names, NEW r \in Registrars,
         NEW add, NEW rem, NEW auth \in AuthInfos \cup {None},
         NEW other, Update(n, r, add, rem, auth, other)
  PROVE  \E e : Stores(n, e)
<1> DEFINE d == domains[n]
           a == IF auth = None THEN d.authInfo ELSE auth
           e == [UpdateStatuses(d, add, rem) EXCEPT !.authInfo = a]
<1>1. RecordOK(d) /\ d # None
  BY DEF Update, MayUpdate, IsSponsor, IsRegistered, IInv
<1>2. /\ add \in SUBSET CLIENT_SETTABLE_DOMAIN_STATUSES
      /\ rem \in SUBSET CLIENT_SETTABLE_DOMAIN_STATUSES
  BY DEF Update, MayUpdate
<1>3. a \in AuthInfos \cup {None}
  BY <1>1, RecordFacts
<1>4. RecordOK(e)
  BY <1>1, <1>2, <1>3, UpdateRecordOK
<1>5. Store(n, e) /\ now' = now
  <2>1. [UpdateStatuses(d, add, rem) EXCEPT
           !.authInfo = IF auth = None THEN @ ELSE auth] = e
    BY <1>1, RecordFacts DEF UpdateStatuses, DomainRecord
  <2>2. QED
    BY <2>1 DEF Update
<1>6. /\ e.registrarId = d.registrarId
      /\ e.transfer = d.transfer
      /\ e.expiresAt = d.expiresAt
      /\ e.statuses = NormalizeObjectStatuses((d.statuses \ rem) \cup add)
  BY <1>1, RecordFacts DEF UpdateStatuses, DomainRecord
<1>7. Leaving(e) <=> Leaving(d)
  <2>1. (d.statuses \ rem) \cup add \in SUBSET ObjectStatuses
    BY <1>1, <1>2, RecordFacts DEF ObjectStatuses
  <2>2. QED
    BY <1>2, <1>6, <2>1, NormalizeFacts DEF Leaving, CLIENT_SETTABLE_DOMAIN_STATUSES
<1>8. Changes(d, e)
  BY <1>1, <1>4, <1>6, <1>7, RecordFacts DEF Changes, Extends, Keeps
<1>9. QED
  BY <1>4, <1>5, <1>8 DEF Stores, Effect

\* <renew> only moves the expiry forward.
LEMMA RenewEffect ==
  ASSUME IInv, NEW n \in Names, NEW r \in Registrars, NEW years \in Years,
         NEW cur, Renew(n, r, years, cur)
  PROVE  \E e : Stores(n, e)
<1> DEFINE d == domains[n]
           e == RenewRecord(d, years)
<1>1. /\ RecordOK(d) /\ d # None
      /\ WithinTenYears(d.expiresAt, years)
      /\ "pendingDelete" \notin d.statuses
      /\ Store(n, e) /\ now' = now
  BY DEF Renew, MayRenew, IsSponsor, IsRegistered, IInv, CanRenew, HasAnyStatus
<1>2. RecordOK(e)
  BY <1>1, RenewRecordOK
<1>3. years * YearTicks \in Nat
  BY YearsInTicks
<1>4. /\ e.registrarId = d.registrarId
      /\ e.transfer = d.transfer
      /\ e.statuses = d.statuses
      /\ e.expiresAt = d.expiresAt + years * YearTicks
  BY <1>1, RecordFacts DEF RenewRecord, DomainRecord
<1>5. e.expiresAt >= d.expiresAt
  BY <1>1, <1>3, <1>4, RecordFacts
<1>6. Capped(e)
  BY <1>1, <1>4 DEF Capped, WithinTenYears
<1>7. Changes(d, e)
  BY <1>1, <1>2, <1>4, <1>5, <1>6, RecordFacts DEF Changes, Extends, Keeps, Leaving
<1>8. QED
  BY <1>1, <1>2, <1>7 DEF Stores, Effect

\* <delete> in the add grace period removes a row that is not leaving.
LEMMA PurgeEffect ==
  ASSUME IInv, NEW n \in Names, NEW r \in Registrars, Purge(n, r)
  PROVE  \E e : Stores(n, e)
<1>1. /\ Store(n, None) /\ now' = now /\ domains[n] # None
      /\ CanDelete(domains[n].statuses)
  BY DEF Purge, MayDelete, IsSponsor, IsRegistered
<1>2. ~Leaving(domains[n])
  BY <1>1 DEF CanDelete, HasAnyStatus, Leaving
<1>3. Releases(domains[n], None)
  BY <1>1, <1>2 DEF Releases
<1>4. QED
  BY <1>1, <1>3 DEF Stores, Effect

\* A later <delete> only begins the name's deletion.
LEMMA RedeemEffect ==
  ASSUME IInv, NEW n \in Names, NEW r \in Registrars, Redeem(n, r)
  PROVE  \E e : Stores(n, e)
<1> DEFINE d == domains[n]
           S == (d.statuses \ {}) \cup {"pendingDelete"}
           e == [UpdateStatuses(d, {"pendingDelete"}, {}) EXCEPT
                   !.rgpStatus = "redemptionPeriod"]
<1>1. RecordOK(d) /\ d # None /\ Store(n, e) /\ now' = now
  BY DEF Redeem, MayDelete, IsSponsor, IsRegistered, IInv
<1>2. RecordOK(e)
  BY <1>1, RedeemRecordOK
<1>3. /\ e.registrarId = d.registrarId
      /\ e.transfer = d.transfer
      /\ e.expiresAt = d.expiresAt
      /\ e.rgpStatus = "redemptionPeriod"
  BY <1>1, RecordFacts DEF UpdateStatuses, DomainRecord
<1>4. Leaving(e)
  BY <1>2, <1>3 DEF RecordOK, RecordRedemption, Leaving
<1>5. Changes(d, e)
  BY <1>1, <1>2, <1>3, <1>4, RecordFacts DEF Changes, Extends, Leaves
<1>6. QED
  BY <1>1, <1>2, <1>5 DEF Stores, Effect

\* <rgp:restore> only undoes a deletion, out of redemption.
LEMMA RestoreEffect ==
  ASSUME IInv, NEW n \in Names, NEW r \in Registrars, Restore(n, r)
  PROVE  \E e : Stores(n, e)
<1> DEFINE d == domains[n]
           R == (d.statuses \ {"pendingDelete"}) \cup {}
           e == [UpdateStatuses(d, {}, {"pendingDelete"}) EXCEPT
                   !.rgpStatus = "pendingRestore"]
<1>1. /\ RecordOK(d) /\ d # None /\ Store(n, e) /\ now' = now
      /\ d.rgpStatus = "redemptionPeriod"
  BY DEF Restore, MayRestore, IsSponsor, IsRegistered, IInv
<1>2. RecordOK(e)
  BY <1>1, RedeemRecordOK
<1>3. /\ e.registrarId = d.registrarId
      /\ e.transfer = d.transfer
      /\ e.expiresAt = d.expiresAt
      /\ e.rgpStatus = "pendingRestore"
      /\ e.statuses = NormalizeObjectStatuses(R)
  BY <1>1, RecordFacts DEF UpdateStatuses, DomainRecord
<1>4. ~Leaving(e)
  <2>1. R \in SUBSET ObjectStatuses
    BY <1>1, RecordFacts
  <2>2. QED
    BY <1>3, <2>1, NormalizeFacts DEF Leaving
<1>5. Changes(d, e)
  BY <1>1, <1>2, <1>3, <1>4, RecordFacts DEF Changes, Extends, Returns
<1>6. QED
  BY <1>1, <1>2, <1>5 DEF Stores, Effect

\* A request, a rejection or a cancellation: the record stays, its claim with it.
LEMMA SetTransferEffect ==
  ASSUME IInv, NEW n \in Names, NEW r \in Registrars, NEW years \in Years,
         NEW status \in {"pending", "rejected", "cancelled"},
         domains[n] # None,
         Store(n, SetTransferStatus(domains[n], status, r, years)),
         now' = now
  PROVE  \E e : Stores(n, e)
<1> DEFINE d == domains[n]
           e == SetTransferStatus(d, status, r, years)
<1>1. RecordOK(d)
  BY DEF IInv, IsRegistered
<1>2. /\ RecordOK(e)
      /\ e.transfer \in TransferRecord
      /\ e.transfer.requestedBy = RequestedBy(d, r)
      /\ e.transfer.losingRegistrar = LosingRegistrar(d)
      /\ e.registrarId = d.registrarId
      /\ e.expiresAt = d.expiresAt
      /\ Leaving(e) <=> Leaving(d)
  BY <1>1, TransferRecordOK DEF Leaving
<1>3. e.transfer # None
  BY <1>2, NoneAssumption
<1>4. CASE d.transfer = None
  <2>1. Claims(d, e)
    BY <1>2, <1>3, <1>4 DEF Claims, RequestedBy, LosingRegistrar
  <2>2. QED
    BY <1>1, <1>2, <2>1, RecordFacts DEF Stores, Effect, Changes, Extends
<1>5. CASE d.transfer # None
  <2>1. Keeps(d, e)
    BY <1>2, <1>3, <1>5 DEF Keeps, RequestedBy, LosingRegistrar
  <2>2. QED
    BY <1>1, <1>2, <2>1, RecordFacts DEF Stores, Effect, Changes, Extends
<1>6. QED
  BY <1>4, <1>5

\* An approval records a first claim or hands the name to the recorded claimant.
LEMMA ApproveEffect ==
  ASSUME IInv, NEW n \in Names, NEW r \in Registrars, ApproveTransfer(n, r)
  PROVE  \E e : Stores(n, e)
<1> DEFINE d == domains[n]
           e == ApproveTransferRecord(d, r)
<1>1. /\ RecordOK(d) /\ d # None /\ d.registrarId = r
      /\ Store(n, e) /\ now' = now
  BY DEF ApproveTransfer, IsSponsor, IsRegistered, IInv
<1>2. /\ RecordOK(e)
      /\ e.transfer \in TransferRecord
      /\ e.transfer.status = "approved"
      /\ e.transfer.requestedBy = RequestedBy(d, r)
      /\ e.transfer.losingRegistrar = LosingRegistrar(d)
      /\ e.registrarId = RequestedBy(d, r)
      /\ e.expiresAt > d.expiresAt
      /\ e.expiresAt = d.expiresAt + TransferYears(d) * YearTicks
      /\ e.rgpStatus = "transferPeriod"
      /\ Leaving(e) <=> Leaving(d)
  BY <1>1, ApproveRecordOK DEF Leaving
<1>3. /\ e.transfer # None /\ e.expiresAt >= d.expiresAt
      /\ Extends(d, e)
  BY <1>1, <1>2, RecordFacts, NoneAssumption DEF Extends, Approved
<1>4. CASE d.transfer = None
  <2>1. Claims(d, e)
    BY <1>1, <1>2, <1>3, <1>4 DEF Claims, RequestedBy, LosingRegistrar
  <2>2. QED
    BY <1>1, <1>2, <1>3, <2>1, RecordFacts DEF Stores, Effect, Changes
<1>5. CASE d.transfer # None
  <2>1. HandsOver(d, e)
    BY <1>2, <1>3, <1>5 DEF HandsOver, RequestedBy, LosingRegistrar
  <2>2. QED
    BY <1>1, <1>2, <1>3, <2>1, RecordFacts DEF Stores, Effect, Changes
<1>6. QED
  BY <1>4, <1>5

\* Every domain command stores one good row with one of the effects above.
LEMMA CommandEffect ==
  ASSUME IInv, NEW n \in Names, NEW r \in Registrars, DomainCommand(n, r)
  PROVE  \E e : Stores(n, e)
<1>1. ASSUME NEW years \in Years, NEW auth \in AuthInfos \cup {None},
             Create(n, r, years, auth)
      PROVE  \E e : Stores(n, e)
  BY <1>1, CreateEffect
<1>2. ASSUME NEW add \in SUBSET StatusChoices, NEW rem \in SUBSET StatusChoices,
             NEW auth \in AuthInfos \cup {None}, NEW other \in BOOLEAN,
             Update(n, r, add, rem, auth, other)
      PROVE  \E e : Stores(n, e)
  BY <1>2, UpdateEffect
<1>3. ASSUME NEW years \in Years, NEW cur \in (0..MaxExpiry) \cup {None},
             Renew(n, r, years, cur)
      PROVE  \E e : Stores(n, e)
  BY <1>3, RenewEffect
<1>4. CASE Purge(n, r)
  BY <1>4, PurgeEffect
<1>5. CASE Redeem(n, r)
  BY <1>5, RedeemEffect
<1>6. CASE Restore(n, r)
  BY <1>6, RestoreEffect
<1>7. ASSUME NEW years \in Years, NEW pw \in AuthInfos \cup {None},
             RequestTransfer(n, r, years, pw)
      PROVE  \E e : Stores(n, e)
  <2>1. /\ domains[n] # None /\ now' = now
        /\ Store(n, SetTransferStatus(domains[n], "pending", r, years))
    BY <1>7 DEF RequestTransfer, MayRequestTransfer, IsRegistered
  <2>2. QED
    BY <2>1, SetTransferEffect
<1>8. CASE ApproveTransfer(n, r)
  BY <1>8, ApproveEffect
<1>9. CASE RejectTransfer(n, r) \/ CancelTransfer(n, r)
  <2>1. /\ domains[n] # None /\ now' = now
        /\ \E status \in {"rejected", "cancelled"} :
             Store(n, SetTransferStatus(domains[n], status, r, TransferYears(domains[n])))
    BY <1>9 DEF RejectTransfer, CancelTransfer, MayCancelTransfer, IsSponsor, IsRegistered
  <2>2. TransferYears(domains[n]) \in Years
    BY <2>1, TransferYearsOK DEF IInv, IsRegistered, RecordOK
  <2>3. QED
    BY <2>1, <2>2, SetTransferEffect
<1>10. QED
  BY <1>1, <1>2, <1>3, <1>4, <1>5, <1>6, <1>7, <1>8, <1>9 DEF DomainCommand

-------------------------------------------------------------------------------
(* The invariant and what follows from it.                                 *)

\* The empty registry satisfies the inductive invariant.
LEMMA InitIInv == Init => IInv
<1> SUFFICES ASSUME Init PROVE IInv
  OBVIOUS
<1>1. TypeOK
  BY DEF Init, TypeOK
<1>2. \A n \in Names : ~IsRegistered(n)
  BY DEF Init, IsRegistered
<1>3. QED
  BY <1>1, <1>2 DEF IInv

\* Only a transfer request and an acknowledgement touch the poll queues.
LEMMA QueuesTyped ==
  ASSUME IInv, [Next]_vars
  PROVE  queues' \in [Registrars -> Seq(Names)]
<1>1. queues \in [Registrars -> Seq(Names)]
  BY DEF IInv, TypeOK
<1>2. ASSUME NEW n \in Names, NEW r \in Registrars, DomainCommand(n, r)
      PROVE  queues' \in [Registrars -> Seq(Names)]
  <2>1. CASE queues' = queues
    BY <1>1, <2>1
  <2>2. CASE queues' # queues
    <3>1. /\ IsRegistered(n)
          /\ queues' = [queues EXCEPT ![domains[n].registrarId] = Append(@, n)]
      BY <1>2, <2>2 DEF DomainCommand, Create, Update, Renew, Purge, Redeem, Restore,
                        RequestTransfer, MayRequestTransfer, ApproveTransfer, RejectTransfer,
                        CancelTransfer
    <3>2. domains[n].registrarId \in Registrars
      BY <3>1, RecordFacts DEF IInv
    <3>3. QED
      BY <1>1, <3>1, <3>2
  <2>3. QED
    BY <2>1, <2>2
<1>3. ASSUME NEW r \in Registrars, NEW i \in 1..MaxQueue, PollAck(r, i)
      PROVE  queues' \in [Registrars -> Seq(Names)]
  <2>1. queues[r] \in Seq(Names) /\ i \in 1..Len(queues[r])
    BY <1>1, <1>3 DEF PollAck
  <2>2. RemoveAt(queues[r], i) \in Seq(Names)
    BY <2>1 DEF RemoveAt
  <2>3. QED
    BY <1>1, <1>3, <2>2 DEF PollAck
<1>4. CASE TimePasses \/ UNCHANGED vars
  BY <1>1, <1>4 DEF TimePasses, vars
<1>5. QED
  BY <1>2, <1>3, <1>4 DEF Next

\* A step either leaves the domain table alone or is one command's effect.
LEMMA StepEffect ==
  ASSUME IInv, [Next]_vars
  PROVE  \/ /\ domains' = domains
            /\ now' \in Nat /\ now' >= now
         \/ \E n \in Names : \E e : Stores(n, e)
<1>1. now \in Nat
  BY DEF IInv, TypeOK
<1>2. CASE \E n \in Names, r \in Registrars : DomainCommand(n, r)
  BY <1>2, CommandEffect
<1>3. CASE \E r \in Registrars, i \in 1..MaxQueue : PollAck(r, i)
  BY <1>1, <1>3 DEF PollAck
<1>4. CASE TimePasses \/ UNCHANGED vars
  BY <1>1, <1>4 DEF TimePasses, vars
<1>5. QED
  BY <1>2, <1>3, <1>4 DEF Next

\* Every step, or stutter, keeps the inductive invariant.
LEMMA StepIInv == IInv /\ [Next]_vars => IInv'
<1> SUFFICES ASSUME IInv, [Next]_vars PROVE IInv'
  OBVIOUS
<1>1. domains \in [Names -> DomainRecord \cup {None}] /\ now \in Nat
  BY DEF IInv, TypeOK
<1>2. queues' \in [Registrars -> Seq(Names)]
  BY QueuesTyped
<1>3. CASE domains' = domains /\ now' \in Nat /\ now' >= now
  <2>1. TypeOK'
    BY <1>1, <1>2, <1>3 DEF TypeOK
  <2>2. ASSUME NEW n \in Names, IsRegistered(n)'
        PROVE  RecordOK(domains[n])'
    <3>1. RecordOK(domains[n])
      BY <1>3, <2>2 DEF IInv, IsRegistered
    <3>2. QED
      BY <1>3, <3>1
  <2>3. QED
    BY <2>1, <2>2 DEF IInv
<1>4. ASSUME NEW m \in Names, NEW e, Stores(m, e)
      PROVE  IInv'
  <2>1. /\ domains' = [domains EXCEPT ![m] = e]
        /\ now' = now
        /\ e # None => RecordOK(e)
    BY <1>4 DEF Stores, Store
  <2>2. TypeOK'
    BY <1>1, <1>2, <2>1 DEF TypeOK, RecordOK
  <2>3. ASSUME NEW n \in Names, IsRegistered(n)'
        PROVE  RecordOK(domains[n])'
    <3>1. domains'[n] = IF n = m THEN e ELSE domains[n]
      BY <1>1, <2>1
    <3>2. RecordOK(domains'[n])
      BY <2>1, <2>3, <3>1 DEF IInv, IsRegistered
    <3>3. QED
      BY <3>2
  <2>4. QED
    BY <2>2, <2>3 DEF IInv
<1>5. QED
  BY <1>3, <1>4, StepEffect

\* The inductive invariant holds in every reachable state.
THEOREM Inductive == Spec => []IInv
BY InitIInv, StepIInv, PTL DEF Spec

\* Every reachable state has the declared types: in particular a transfer never
\* names an unknown registrar and never grants an illegal period.
THEOREM TypeCorrect == Spec => []TypeOK
<1>1. IInv => TypeOK
  BY DEF IInv
<1>2. QED
  BY <1>1, Inductive, PTL

\* "ok" is stored exactly when no other status is, on every name, for ever.
THEOREM StatusesStayNormalized == Spec => []StatusesNormalized
<1>1. IInv => StatusesNormalized
  BY DEF IInv, RecordOK, RecordNormalized, StatusesNormalized, HasStatus
<1>2. QED
  BY <1>1, Inductive, PTL

\* The pendingTransfer status and the transfer record never disagree.
THEOREM PendingTransferAlwaysAgrees == Spec => []PendingTransferAgrees
<1>1. IInv => PendingTransferAgrees
  BY DEF IInv, RecordOK, RecordPendingAgrees, PendingTransferAgrees,
         HasStatus, HasPendingTransfer
<1>2. QED
  BY <1>1, Inductive, PTL

\* A name in redemption carries pendingDelete.
THEOREM RedemptionAlwaysPendingDelete == Spec => []RedemptionIsPendingDelete
<1>1. IInv => RedemptionIsPendingDelete
  BY DEF IInv, RecordOK, RecordRedemption, RedemptionIsPendingDelete, HasStatus
<1>2. QED
  BY <1>1, Inductive, PTL

\* A name in pendingDelete has lost its redemption period only to a transfer.
THEOREM LeavingNamesStayRestorable == Spec => []LeavingNamesCanReturn
<1>1. IInv => LeavingNamesCanReturn
  BY DEF IInv, RecordOK, RecordReturn, LeavingNamesCanReturn, HasStatus
<1>2. QED
  BY <1>1, Inductive, PTL

-------------------------------------------------------------------------------
(* What a step may never do.                                               *)

\* The four step properties follow from the effect a command can have.
LEMMA StepProperties ==
  ASSUME IInv, [Next]_vars
  PROVE  SponsorStep /\ PendingDeleteStep /\ ExpiryStep /\ CapStep
<1>1. domains \in [Names -> DomainRecord \cup {None}] /\ now \in Nat
  BY DEF IInv, TypeOK
<1>2. CASE domains' = domains
  <2>1. ASSUME NEW n \in Names, IsRegistered(n)
        PROVE  domains[n].expiresAt \in Nat
    BY <2>1, RecordFacts DEF IInv
  <2>2. QED
    BY <1>2, <2>1 DEF SponsorStep, PendingDeleteStep, ExpiryStep, CapStep,
                      StaysRegistered, HasStatus, IsRegistered
<1>3. ASSUME NEW m \in Names, NEW e, Stores(m, e)
      PROVE  SponsorStep /\ PendingDeleteStep /\ ExpiryStep /\ CapStep
  <2>1. /\ domains' = [domains EXCEPT ![m] = e]
        /\ Effect(domains[m], e)
    BY <1>3 DEF Stores, Store
  <2>2. \A n \in Names : domains'[n] = IF n = m THEN e ELSE domains[n]
    BY <1>1, <2>1
  <2>3. ASSUME NEW n \in Names, IsRegistered(n)
        PROVE  domains[n].expiresAt \in Nat
    BY <2>3, RecordFacts DEF IInv
  <2>4. SponsorStep
    BY <2>1, <2>2 DEF SponsorStep, StaysRegistered, IsRegistered, Effect, Registers,
                      Releases, Changes, Keeps, Claims, HandsOver, Leaves, Returns
  <2>5. PendingDeleteStep
    BY <2>1, <2>2 DEF PendingDeleteStep, HasStatus, IsRegistered, Effect, Registers,
                      Releases, Changes, Keeps, Claims, HandsOver, Leaves, Returns, Leaving
  <2>6. ExpiryStep
    BY <2>1, <2>2, <2>3 DEF ExpiryStep, StaysRegistered, IsRegistered, Effect,
                            Registers, Releases, Changes
  <2>7. CapStep
    <3>1. ASSUME NEW f, Capped(f), f.expiresAt \in Nat
          PROVE  WithinTenYears(f.expiresAt, 0)
      BY <3>1, ClockAssumption DEF Capped, WithinTenYears
    <3>2. e # None => e.expiresAt \in Nat
      BY <1>3, RecordFacts DEF Stores
    <3>3. QED
      BY <2>1, <2>2, <3>1, <3>2 DEF CapStep, IsRegistered, Effect, Registers, Releases,
                                   Changes, Extends, Approved
  <2>8. QED
    BY <2>4, <2>5, <2>6, <2>7
<1>4. QED
  BY <1>2, <1>3, StepEffect

\* A name changes hands only to the requester recorded on its transfer.
THEOREM SponsorAlwaysGoesToRequester == Spec => SponsorGoesToRequester
<1>1. IInv /\ [Next]_vars => [SponsorStep]_vars
  BY StepProperties
<1>2. QED
  BY <1>1, Inductive, PTL DEF Spec, SponsorGoesToRequester

\* A name in pendingDelete is never purged and leaves it only by a restore.
THEOREM PendingDeleteAlwaysHolds == Spec => PendingDeleteHolds
<1>1. IInv /\ [Next]_vars => [PendingDeleteStep]_vars
  BY StepProperties
<1>2. QED
  BY <1>1, Inductive, PTL DEF Spec, PendingDeleteHolds

\* The expiry of a name that stays registered never moves back.
THEOREM ExpiryIsMonotone == Spec => ExpiryNeverMovesBack
<1>1. IInv /\ [Next]_vars => [ExpiryStep]_vars
  BY StepProperties
<1>2. QED
  BY <1>1, Inductive, PTL DEF Spec, ExpiryNeverMovesBack

\* Only an approval carries an expiry past the registration cap.
THEOREM OnlyApprovalsEverPassTheCap == Spec => OnlyApprovalsPassTheCap
<1>1. IInv /\ [Next]_vars => [CapStep]_vars
  BY StepProperties
<1>2. QED
  BY <1>1, Inductive, PTL DEF Spec, OnlyApprovalsPassTheCap

-------------------------------------------------------------------------------
(* A pending transfer and the message about it.                            *)

IsPending(d) == d # None /\ d.transfer # None /\ d.transfer.status = "pending"

\* A message more is a change of a queue, and tells which message it is.
LEMMA AppendChanges ==
  ASSUME NEW S, NEW q \in Seq(S), NEW m \in S, NEW n \in S
  PROVE  /\ Append(q, m) # q
         /\ Append(q, m) = Append(q, n) <=> m = n
<1>1. Len(q) \in Nat /\ Len(Append(q, m)) = Len(q) + 1
  OBVIOUS
<1>2. Append(q, m)[Len(q) + 1] = m /\ Append(q, n)[Len(q) + 1] = n
  OBVIOUS
<1>3. QED
  BY <1>1, <1>2

\* The row a command stores is never one whose transfer has just become pending.
LEMMA QuietCommand ==
  ASSUME IInv, NEW m \in Names, NEW e, Store(m, e), UNCHANGED queues,
         IsPending(e) => IsPending(domains[m])
  PROVE  AnnounceStep
<1>1. /\ domains \in [Names -> DomainRecord \cup {None}]
      /\ queues \in [Registrars -> Seq(Names)]
  BY DEF IInv, TypeOK
<1>2. \A n \in Names : domains'[n] = IF n = m THEN e ELSE domains[n]
  BY <1>1 DEF Store
<1>3. \A n \in Names : IsPending(domains'[n]) => IsPending(domains[n])
  BY <1>2
<1>4. \A n \in Names, r \in Registrars : queues'[r] # Append(queues[r], n)
  <2> SUFFICES ASSUME NEW n \in Names, NEW r \in Registrars
               PROVE  queues[r] # Append(queues[r], n)
    OBVIOUS
  <2>1. queues[r] \in Seq(Names)
    BY <1>1
  <2>2. QED
    BY <2>1, AppendChanges
<1>5. QED
  BY <1>3, <1>4 DEF AnnounceStep, HasPendingTransfer, IsRegistered, IsPending

LEMMA RequestAnnounces ==
  ASSUME IInv, NEW m \in Names, NEW r \in Registrars, NEW years \in Years, NEW pw,
         RequestTransfer(m, r, years, pw)
  PROVE  AnnounceStep
<1> DEFINE d == domains[m]
           e == SetTransferStatus(d, "pending", r, years)
<1>1. /\ d # None /\ RecordOK(d)
      /\ CanTransferRequest(d.statuses)
      /\ Store(m, e)
      /\ queues' = [queues EXCEPT ![d.registrarId] = Append(@, m)]
  BY DEF RequestTransfer, MayRequestTransfer, IsRegistered, IInv
<1>2. /\ domains \in [Names -> DomainRecord \cup {None}]
      /\ queues \in [Registrars -> Seq(Names)]
  BY DEF IInv, TypeOK
<1>3. ~IsPending(d)
  BY <1>1 DEF CanTransferRequest, HasAnyStatus, RecordOK, RecordPendingAgrees, IsPending
<1>4. IsPending(e) /\ e.registrarId = d.registrarId
  <2>1. /\ RecordOK(e)
        /\ e.transfer \in TransferRecord
        /\ e.registrarId = d.registrarId
    BY <1>1, TransferRecordOK
  <2>2. e.transfer.status = "pending"
    BY <1>1, RecordFacts DEF SetTransferStatus, DomainRecord
  <2>3. QED
    BY <2>1, <2>2, RecordFacts, NoneAssumption DEF IsPending
<1>5. \A n \in Names : domains'[n] = IF n = m THEN e ELSE domains[n]
  BY <1>1, <1>2 DEF Store
<1>6. d.registrarId \in Registrars
  BY <1>1, RecordFacts
<1>7. \A t \in Registrars :
        queues'[t] = IF t = d.registrarId THEN Append(queues[t], m) ELSE queues[t]
  BY <1>1, <1>2, <1>6
<1> HIDE DEF e, d
<1>8. ASSUME NEW n \in Names, NEW t \in Registrars
      PROVE  queues'[t] = Append(queues[t], n) <=> n = m /\ t = d.registrarId
  <2>1. queues[t] \in Seq(Names)
    BY <1>2
  <2>2. Append(queues[t], n) # queues[t]
    BY <2>1, AppendChanges
  <2>3. Append(queues[t], m) = Append(queues[t], n) <=> m = n
    BY <2>1, AppendChanges
  <2>4. QED
    BY <1>7, <2>2, <2>3
<1>9. ASSUME NEW n \in Names, NEW t \in Registrars
      PROVE  (~IsPending(domains[n]) /\ IsPending(domains'[n]) /\ domains'[n].registrarId = t)
               <=> n = m /\ t = d.registrarId
  BY <1>3, <1>4, <1>5 DEF d
<1>10. QED
  BY <1>8, <1>9 DEF AnnounceStep, HasPendingTransfer, IsRegistered, IsPending

\* Every other command leaves the transfer alone, or ends it.
LEMMA CommandAnnounces ==
  ASSUME IInv, NEW n \in Names, NEW r \in Registrars, DomainCommand(n, r)
  PROVE  AnnounceStep
<1> DEFINE d == domains[n]
<1>1. ASSUME d # None
      PROVE  RecordOK(d)
  BY <1>1 DEF IInv, IsRegistered
<1>2. ASSUME NEW years \in Years, NEW auth \in AuthInfos \cup {None},
             Create(n, r, years, auth)
      PROVE  AnnounceStep
  <2>1. ~IsPending(CreateRecord(r, years, auth))
    BY DEF IsPending, CreateRecord
  <2>2. QED
    BY <1>2, <2>1, QuietCommand DEF Create
<1>3. ASSUME NEW add \in SUBSET StatusChoices, NEW rem \in SUBSET StatusChoices,
             NEW auth \in AuthInfos \cup {None}, NEW other \in BOOLEAN,
             Update(n, r, add, rem, auth, other)
      PROVE  AnnounceStep
  <2> DEFINE e == [UpdateStatuses(d, add, rem) EXCEPT
                     !.authInfo = IF auth = None THEN @ ELSE auth]
  <2>1. RecordOK(d) /\ d # None /\ Store(n, e) /\ UNCHANGED queues
    BY <1>1, <1>3 DEF Update, MayUpdate, IsSponsor, IsRegistered
  <2>2. e.transfer = d.transfer
    BY <2>1, RecordFacts DEF UpdateStatuses, DomainRecord
  <2>3. IsPending(e) => IsPending(d)
    BY <2>1, <2>2 DEF IsPending
  <2>4. QED
    BY <2>1, <2>3, QuietCommand
<1>4. ASSUME NEW years \in Years, NEW cur, Renew(n, r, years, cur)
      PROVE  AnnounceStep
  <2> DEFINE e == RenewRecord(d, years)
  <2>1. RecordOK(d) /\ d # None /\ Store(n, e) /\ UNCHANGED queues
    BY <1>1, <1>4 DEF Renew, MayRenew, IsSponsor, IsRegistered
  <2>2. e.transfer = d.transfer
    BY <2>1, RecordFacts DEF RenewRecord, DomainRecord
  <2>3. IsPending(e) => IsPending(d)
    BY <2>1, <2>2 DEF IsPending
  <2>4. QED
    BY <2>1, <2>3, QuietCommand
<1>5. CASE Purge(n, r)
  BY <1>5, QuietCommand DEF Purge, IsPending
<1>6. CASE Redeem(n, r)
  <2> DEFINE e == [UpdateStatuses(d, {"pendingDelete"}, {}) EXCEPT
                     !.rgpStatus = "redemptionPeriod"]
  <2>1. RecordOK(d) /\ d # None /\ Store(n, e) /\ UNCHANGED queues
    BY <1>1, <1>6 DEF Redeem, MayDelete, IsSponsor, IsRegistered
  <2>2. e.transfer = d.transfer
    BY <2>1, RecordFacts DEF UpdateStatuses, DomainRecord
  <2>3. IsPending(e) => IsPending(d)
    BY <2>1, <2>2 DEF IsPending
  <2>4. QED
    BY <2>1, <2>3, QuietCommand
<1>7. CASE Restore(n, r)
  <2> DEFINE e == [UpdateStatuses(d, {}, {"pendingDelete"}) EXCEPT
                     !.rgpStatus = "pendingRestore"]
  <2>1. RecordOK(d) /\ d # None /\ Store(n, e) /\ UNCHANGED queues
    BY <1>1, <1>7 DEF Restore, MayRestore, IsSponsor, IsRegistered
  <2>2. e.transfer = d.transfer
    BY <2>1, RecordFacts DEF UpdateStatuses, DomainRecord
  <2>3. IsPending(e) => IsPending(d)
    BY <2>1, <2>2 DEF IsPending
  <2>4. QED
    BY <2>1, <2>3, QuietCommand
<1>8. ASSUME NEW years \in Years, NEW pw, RequestTransfer(n, r, years, pw)
      PROVE  AnnounceStep
  BY <1>8, RequestAnnounces
<1>9. CASE ApproveTransfer(n, r)
  <2> DEFINE e == ApproveTransferRecord(d, r)
  <2>1. RecordOK(d) /\ d # None /\ Store(n, e) /\ UNCHANGED queues
    BY <1>1, <1>9 DEF ApproveTransfer, IsSponsor, IsRegistered
  <2>2. e.transfer.status = "approved"
    BY <2>1, ApproveRecordOK
  <2>3. ~IsPending(e)
    BY <2>2 DEF IsPending
  <2>4. QED
    BY <2>1, <2>3, QuietCommand
<1>10. CASE RejectTransfer(n, r) \/ CancelTransfer(n, r)
  <2>1. /\ RecordOK(d) /\ d # None /\ UNCHANGED queues
        /\ \E status \in {"rejected", "cancelled"} :
             Store(n, SetTransferStatus(d, status, r, TransferYears(d)))
    BY <1>1, <1>10 DEF RejectTransfer, CancelTransfer, MayCancelTransfer, IsSponsor, IsRegistered
  <2>2. PICK status \in {"rejected", "cancelled"} :
          Store(n, SetTransferStatus(d, status, r, TransferYears(d)))
    BY <2>1
  <2>3. SetTransferStatus(d, status, r, TransferYears(d)).transfer.status = status
    BY <2>1, RecordFacts DEF SetTransferStatus, DomainRecord
  <2>4. ~IsPending(SetTransferStatus(d, status, r, TransferYears(d)))
    BY <2>3 DEF IsPending
  <2>5. QED
    BY <2>1, <2>2, <2>4, QuietCommand
<1>11. QED
  BY <1>2, <1>3, <1>4, <1>5, <1>6, <1>7, <1>8, <1>9, <1>10 DEF DomainCommand

\* No step without a domain command leaves a message, and none opens a transfer.
LEMMA StepAnnounces ==
  ASSUME IInv, [Next]_vars
  PROVE  [AnnounceStep]_vars
<1>1. queues \in [Registrars -> Seq(Names)]
  BY DEF IInv, TypeOK
<1>2. CASE \E n \in Names, r \in Registrars : DomainCommand(n, r)
  BY <1>2, CommandAnnounces
<1>3. ASSUME NEW r \in Registrars, NEW i \in 1..MaxQueue, PollAck(r, i)
      PROVE  AnnounceStep
  <2>1. /\ i \in 1..Len(queues[r])
        /\ queues' = [queues EXCEPT ![r] = RemoveAt(queues[r], i)]
        /\ UNCHANGED domains
    BY <1>3 DEF PollAck
  <2>2. queues[r] \in Seq(Names) /\ Len(queues[r]) \in Nat
    BY <1>1
  <2> DEFINE before == SubSeq(queues[r], 1, i - 1)
             behind == SubSeq(queues[r], i + 1, Len(queues[r]))
  <2>3. /\ before \in Seq(Names) /\ Len(before) = i - 1
        /\ behind \in Seq(Names) /\ Len(behind) = Len(queues[r]) - i
    BY <2>1, <2>2
  <2> HIDE DEF before, behind
  <2>4. Len(before \o behind) = Len(queues[r]) - 1
    <3>1. Len(before \o behind) = Len(before) + Len(behind)
      BY <2>3
    <3>2. QED
      BY <2>1, <2>2, <2>3, <3>1
  <2>5. RemoveAt(queues[r], i) = before \o behind
    BY DEF RemoveAt, before, behind
  <2>6. \A t \in Registrars : queues'[t] = IF t = r THEN before \o behind ELSE queues[t]
    BY <1>1, <2>1, <2>5
  <2>7. ASSUME NEW n \in Names, NEW t \in Registrars
        PROVE  queues'[t] # Append(queues[t], n)
    <3>1. queues[t] \in Seq(Names) /\ Len(queues[t]) \in Nat
      BY <1>1
    <3>2. Len(Append(queues[t], n)) = Len(queues[t]) + 1
      BY <3>1
    <3>3. CASE t = r
      <4>1. queues'[t] = before \o behind /\ Len(before \o behind) = Len(queues[t]) - 1
        BY <2>4, <2>6, <3>3
      <4>2. Len(queues[t]) - 1 # Len(queues[t]) + 1
        BY <3>1
      <4>3. QED
        BY <3>2, <4>1, <4>2
    <3>4. CASE t # r
      BY <2>6, <3>1, <3>4, AppendChanges
    <3>5. QED
      BY <3>3, <3>4
  <2>8. QED
    BY <2>1, <2>7 DEF AnnounceStep, HasPendingTransfer, IsRegistered
<1>4. CASE TimePasses
  <2>1. UNCHANGED <<domains, queues>>
    BY <1>4 DEF TimePasses
  <2>2. ASSUME NEW n \in Names, NEW r \in Registrars
        PROVE  queues'[r] # Append(queues[r], n)
    <3>1. queues[r] \in Seq(Names)
      BY <1>1
    <3>2. QED
      BY <2>1, <3>1, AppendChanges
  <2>3. QED
    BY <2>1, <2>2 DEF AnnounceStep, HasPendingTransfer, IsRegistered
<1>5. QED
  BY <1>2, <1>3, <1>4 DEF Next

\* A transfer becomes pending exactly in the steps that tell its sponsor.
THEOREM PendingTransferIsAlwaysAnnounced == Spec => PendingTransferIsAnnounced
<1>1. IInv /\ [Next]_vars => [AnnounceStep]_vars
  BY StepAnnounces
<1>2. QED
  BY <1>1, Inductive, PTL DEF Spec, PendingTransferIsAnnounced

-------------------------------------------------------------------------------
(* The parties of a transfer.  A record is kept once it exists, so a name  *)
(* can only ever pass from its one loser to its one requester.             *)

RecordParties(d) ==
  d.transfer # None =>
    d.registrarId \in {d.transfer.losingRegistrar, d.transfer.requestedBy}

SponsorIsAParty == \A n \in Names : IsRegistered(n) => RecordParties(domains[n])

\* One effect keeps the parties, and the sponsor among them.
LEMMA EffectParties ==
  ASSUME NEW d, NEW e, d # None, e # None, Effect(d, e)
  PROVE  /\ KeepsParties(d, e)
         /\ RecordParties(d) => RecordParties(e)
         /\ e.registrarId # d.registrarId =>
              d.transfer # None /\ e.registrarId = d.transfer.requestedBy
<1>1. Changes(d, e)
  BY DEF Effect, Registers, Releases
<1>2. CASE Keeps(d, e)
  BY <1>2 DEF Keeps, KeepsParties, RecordParties
<1>3. CASE Claims(d, e)
  BY <1>3 DEF Claims, KeepsParties, RecordParties
<1>4. CASE HandsOver(d, e)
  BY <1>4 DEF HandsOver, KeepsParties, RecordParties
<1>5. CASE Leaves(d, e) \/ Returns(d, e)
  BY <1>5 DEF Leaves, Returns, KeepsParties, RecordParties
<1>6. QED
  BY <1>1, <1>2, <1>3, <1>4, <1>5 DEF Changes

\* Every step keeps the sponsor among the parties, and moves a name one way only.
LEMMA StepParties ==
  ASSUME IInv, SponsorIsAParty, [Next]_vars
  PROVE  SponsorIsAParty' /\ MoveStep
<1>1. domains \in [Names -> DomainRecord \cup {None}]
  BY DEF IInv, TypeOK
<1>2. CASE domains' = domains
  BY <1>2 DEF SponsorIsAParty, MoveStep, IsRegistered, KeepsParties
<1>3. ASSUME NEW m \in Names, NEW e, Stores(m, e)
      PROVE  SponsorIsAParty' /\ MoveStep
  <2>1. /\ \A n \in Names : domains'[n] = IF n = m THEN e ELSE domains[n]
        /\ Effect(domains[m], e)
    BY <1>1, <1>3 DEF Stores, Store
  <2>2. SponsorIsAParty'
    <3> SUFFICES ASSUME NEW n \in Names, domains'[n] # None
                 PROVE  RecordParties(domains'[n])
      BY DEF SponsorIsAParty, IsRegistered
    <3>1. CASE n # m
      BY <2>1, <3>1 DEF SponsorIsAParty, IsRegistered
    <3>2. CASE n = m /\ domains[m] # None
      BY <2>1, <3>2, EffectParties DEF SponsorIsAParty, IsRegistered
    <3>3. CASE n = m /\ domains[m] = None
      BY <2>1, <3>3 DEF Effect, Registers, Releases, Changes, RecordParties
    <3>4. QED
      BY <3>1, <3>2, <3>3
  <2>3. MoveStep
    <3> SUFFICES ASSUME NEW n \in Names, domains[n] # None, domains'[n] # None
                 PROVE  /\ KeepsParties(domains[n], domains'[n])
                        /\ domains'[n].registrarId # domains[n].registrarId =>
                             /\ domains[n].transfer # None
                             /\ domains[n].registrarId = domains[n].transfer.losingRegistrar
                             /\ domains'[n].registrarId = domains[n].transfer.requestedBy
      BY DEF MoveStep, StaysRegistered, IsRegistered
    <3>1. CASE n # m
      BY <2>1, <3>1 DEF KeepsParties
    <3>2. CASE n = m
      <4>1. domains'[n] = e
        BY <2>1, <3>2
      <4>2. /\ KeepsParties(domains[n], e)
            /\ e.registrarId # domains[n].registrarId =>
                 domains[n].transfer # None /\ e.registrarId = domains[n].transfer.requestedBy
        BY <2>1, <3>2, <4>1, EffectParties
      <4>3. domains[n].transfer # None =>
              domains[n].registrarId \in {domains[n].transfer.losingRegistrar,
                                          domains[n].transfer.requestedBy}
        BY DEF SponsorIsAParty, IsRegistered, RecordParties
      <4>4. QED
        BY <4>1, <4>2, <4>3
    <3>3. QED
      BY <3>1, <3>2
  <2>4. QED
    BY <2>2, <2>3
<1>4. QED
  BY <1>2, <1>3, StepEffect

LEMMA InductiveParties == Spec => [](IInv /\ SponsorIsAParty)
<1>1. Init => SponsorIsAParty
  BY DEF Init, SponsorIsAParty, IsRegistered
<1>2. IInv /\ SponsorIsAParty /\ [Next]_vars => SponsorIsAParty'
  BY StepParties
<1>3. QED
  BY <1>1, <1>2, Inductive, PTL DEF Spec

\* The sponsor of a name with a transfer on record is the recorded loser or the
\* recorded requester.  An open transfer whose loser is not the sponsor is thus one
\* whose requester holds the name already: the recorded loser can be trusted until
\* the first approval (`??' in setTransfer keeps what the first request wrote).
THEOREM OpenTransferIsBetweenItsParties ==
  Spec => [](\A n \in Names : HasPendingTransfer(n) =>
               domains[n].registrarId \in {domains[n].transfer.losingRegistrar,
                                           domains[n].transfer.requestedBy})
<1>1. SponsorIsAParty =>
        \A n \in Names : HasPendingTransfer(n) =>
          domains[n].registrarId \in {domains[n].transfer.losingRegistrar,
                                      domains[n].transfer.requestedBy}
  BY DEF SponsorIsAParty, RecordParties, HasPendingTransfer
<1>2. QED
  BY <1>1, InductiveParties, PTL

\* A registered name changes hands at most once: it passes from the loser to the
\* requester of its first transfer, those two never change while it is registered,
\* and no request, approval or reject by anyone moves it a second time.
THEOREM NamesMoveAtMostOnce == Spec => SponsorMovesOneWay
<1>1. IInv /\ SponsorIsAParty /\ [Next]_vars => [MoveStep]_vars
  BY StepParties
<1>2. QED
  BY <1>1, InductiveParties, PTL DEF Spec, SponsorMovesOneWay

-------------------------------------------------------------------------------
(* The lifecycle implements the registration contract.                     *)

\* The empty registry is an initial state of the contract.
LEMMA InitContract == Init => Contract!Init
BY DEF Init, Contract!Init, HolderOf, ClaimantOf, IsLeaving

\* One stored row is one step of the contract, or none.
LEMMA StoresContract ==
  ASSUME IInv, NEW m \in Names, NEW e, Stores(m, e)
  PROVE  [Contract!Next]_(Contract!contractVars)
<1> DEFINE d        == domains[m]
           holder   == [n \in Names |-> HolderOf(domains[n])]
           claimant == [n \in Names |-> ClaimantOf(domains[n])]
           leaving  == [n \in Names |-> IsLeaving(domains[n])]
<1>1. domains \in [Names -> DomainRecord \cup {None}]
  BY DEF IInv, TypeOK
<1>2. domains' = [domains EXCEPT ![m] = e]
  BY DEF Stores, Store
<1>3. /\ d # None => RecordOK(d)
      /\ e # None => RecordOK(e)
      /\ Effect(d, e)
  BY DEF Stores, IInv, IsRegistered
<1>4. /\ holder'   = [holder EXCEPT ![m] = HolderOf(e)]
      /\ claimant' = [claimant EXCEPT ![m] = ClaimantOf(e)]
      /\ leaving'  = [leaving EXCEPT ![m] = IsLeaving(e)]
  BY <1>1, <1>2
<1>5. /\ holder[m] = HolderOf(d)
      /\ claimant[m] = ClaimantOf(d)
      /\ leaving[m] = IsLeaving(d)
  OBVIOUS
<1>6. /\ holder = [holder EXCEPT ![m] = HolderOf(d)]
      /\ claimant = [claimant EXCEPT ![m] = ClaimantOf(d)]
      /\ leaving = [leaving EXCEPT ![m] = IsLeaving(d)]
  OBVIOUS
<1>7. CASE Registers(d, e)
  <2>1. /\ HolderOf(d) = None /\ HolderOf(e) = e.registrarId
        /\ ClaimantOf(d) = None /\ ClaimantOf(e) = None
        /\ IsLeaving(d) = FALSE /\ IsLeaving(e) = FALSE
    BY <1>7 DEF Registers, Leaving, HolderOf, ClaimantOf, IsLeaving
  <2>2. e.registrarId \in Registrars
    BY <1>3, <1>7, RecordFacts DEF Registers
  <2>3. Contract!Register(m, e.registrarId)
    BY <1>4, <1>5, <1>6, <2>1 DEF Contract!Register
  <2>4. QED
    BY <2>2, <2>3 DEF Contract!Next
<1>8. CASE Releases(d, e)
  <2>1. /\ HolderOf(d) # None /\ HolderOf(e) = None
        /\ ClaimantOf(e) = None
        /\ IsLeaving(d) = FALSE /\ IsLeaving(e) = FALSE
    BY <1>3, <1>8, RecordFacts, NoneAssumption
       DEF Releases, Leaving, HolderOf, ClaimantOf, IsLeaving
  <2>2. Contract!Release(m)
    BY <1>4, <1>5, <1>6, <2>1 DEF Contract!Release
  <2>3. QED
    BY <2>2 DEF Contract!Next
<1>9. CASE Changes(d, e)
  <2>1. /\ d # None /\ e # None
        /\ HolderOf(d) = d.registrarId /\ HolderOf(e) = e.registrarId
        /\ HolderOf(d) # None
        /\ IsLeaving(d) <=> Leaving(d)
        /\ IsLeaving(e) <=> Leaving(e)
    BY <1>3, <1>9, RecordFacts, NoneAssumption
       DEF Changes, HolderOf, IsLeaving, Leaving
  <2>2. CASE Keeps(d, e)
    <3>1. /\ HolderOf(e) = HolderOf(d)
          /\ ClaimantOf(e) = ClaimantOf(d)
          /\ IsLeaving(e) = IsLeaving(d)
      BY <2>1, <2>2 DEF Keeps, ClaimantOf, IsLeaving, Leaving
    <3>2. UNCHANGED Contract!contractVars
      BY <1>4, <1>5, <1>6, <3>1 DEF Contract!contractVars
    <3>3. QED
      BY <3>2
  <2>3. CASE Claims(d, e)
    <3>1. /\ HolderOf(e) = HolderOf(d)
          /\ ClaimantOf(d) = None
          /\ ClaimantOf(e) = e.transfer.requestedBy
          /\ IsLeaving(e) = IsLeaving(d)
      BY <2>1, <2>3 DEF Claims, ClaimantOf, IsLeaving, Leaving
    <3>2. Contract!Claim(m, e.transfer.requestedBy)
      BY <1>4, <1>5, <1>6, <2>1, <3>1 DEF Contract!Claim
    <3>3. QED
      BY <2>3, <3>2 DEF Contract!Next, Claims
  <2>4. CASE HandsOver(d, e)
    <3>1. /\ HolderOf(e) = ClaimantOf(d)
          /\ ClaimantOf(e) = ClaimantOf(d)
          /\ IsLeaving(e) = IsLeaving(d)
      BY <2>1, <2>4 DEF HandsOver, ClaimantOf, IsLeaving, Leaving
    <3>2. ClaimantOf(d) # None
      BY <1>3, <2>1, <3>1, RecordFacts, NoneAssumption
    <3>3. Contract!HandOver(m)
      BY <1>4, <1>5, <1>6, <3>1, <3>2 DEF Contract!HandOver
    <3>4. QED
      BY <3>3 DEF Contract!Next
  <2>5. CASE Leaves(d, e)
    <3>1. /\ HolderOf(e) = HolderOf(d)
          /\ ClaimantOf(e) = ClaimantOf(d)
          /\ IsLeaving(e) = TRUE
      BY <2>1, <2>5 DEF Leaves, ClaimantOf, IsLeaving, Leaving
    <3>2. Contract!Leave(m)
      BY <1>4, <1>5, <1>6, <2>1, <3>1 DEF Contract!Leave
    <3>3. QED
      BY <3>2 DEF Contract!Next
  <2>6. CASE Returns(d, e)
    <3>1. /\ HolderOf(e) = HolderOf(d)
          /\ ClaimantOf(e) = ClaimantOf(d)
          /\ IsLeaving(d)
          /\ IsLeaving(e) = FALSE
      BY <1>3, <2>1, <2>6
         DEF Returns, ClaimantOf, IsLeaving, Leaving, RecordOK, RecordRedemption
    <3>2. Contract!Return(m)
      BY <1>4, <1>5, <1>6, <3>1 DEF Contract!Return
    <3>3. QED
      BY <3>2 DEF Contract!Next
  <2>7. QED
    BY <1>9, <2>2, <2>3, <2>4, <2>5, <2>6 DEF Changes
<1>10. QED
  BY <1>3, <1>7, <1>8, <1>9 DEF Effect

\* Every step is a step of the contract, or changes nothing it speaks of.
LEMMA StepContract ==
  ASSUME IInv, [Next]_vars
  PROVE  [Contract!Next]_(Contract!contractVars)
<1>1. CASE domains' = domains
  <2>1. UNCHANGED Contract!contractVars
    BY <1>1 DEF Contract!contractVars
  <2>2. QED
    BY <2>1
<1>2. CASE \E m \in Names : \E e : Stores(m, e)
  BY <1>2, StoresContract
<1>3. QED
  BY <1>1, <1>2, StepEffect

\* The lifecycle, whatever its parameters, implements the registration contract:
\* names pass only to the recorded claimant, claims stand, leaving names are kept.
THEOREM LifecycleImplementsContract == Spec => ImplementsContract
<1>1. IInv /\ [Next]_vars => [Contract!Next]_(Contract!contractVars)
  BY StepContract
<1>2. QED
  BY <1>1, InitContract, Inductive, PTL DEF Spec, ImplementsContract, Contract!Spec
===============================================================================
