--------------------------- MODULE DomainLifecycle ----------------------------
(***************************************************************************)
(* The life of a domain name in the registry, as driven by EPP <domain>    *)
(* commands: create, update, renew, transfer, delete, restore, and the     *)
(* poll messages a transfer request leaves for the sponsor.                *)
(*                                                                         *)
(* An operator that takes a record `d' is a repository method, a predicate *)
(* named Is/Can/Within is a check of the service, an action is the whole   *)
(* command handler.  Every await in that code is on a settled promise, so  *)
(* the process answers one command before it reads the next: one command   *)
(* is one step.  A command answered with an error changes nothing and is a *)
(* stuttering step, so its checks are the guards here.                     *)
(*                                                                         *)
(* Time is counted in ticks, YearTicks to a year; a tick is longer than    *)
(* the minute of tolerance and the calendar roundings in the code.         *)
(***************************************************************************)
EXTENDS ObjectStatusPolicy, Integers, Sequences, SequencesExt

CONSTANTS
  Names,            \* domain names under the TLD
  ReservedNames,    \* the names registrars cannot create
  Registrars,       \* client identifiers
  AuthInfos,        \* authorization passwords
  StatusChoices,    \* the client statuses updates are about
  None,             \* an absent optional value
  YearTicks,        \* ticks in a year
  AddGraceTicks,    \* ticks in the add grace period
  MaxYears,         \* MAX_REGISTRATION_YEARS
  Horizon,          \* bound: the clock stops here
  MaxExpiry,        \* bound: no approval moves an expiry past this tick
  MaxQueue          \* bound: poll messages waiting for one registrar

Years == 1..MaxYears

TransferRecord ==
  [status: {"pending", "approved", "rejected", "cancelled"},
   requestedBy: Registrars,
   losingRegistrar: Registrars,
   periodYears: Years]

RgpStatuses ==
  {"addPeriod", "renewPeriod", "transferPeriod", "redemptionPeriod",
   "pendingRestore"}

DomainRecord ==
  [registrarId: Registrars,
   statuses: SUBSET ObjectStatuses,
   rgpStatus: RgpStatuses,
   transfer: TransferRecord \cup {None},
   authInfo: AuthInfos \cup {None},
   createdAt: Nat,
   expiresAt: Nat]

ASSUME NamesAssumption == ReservedNames \subseteq Names

ASSUME ChoicesAssumption == StatusChoices \subseteq CLIENT_SETTABLE_DOMAIN_STATUSES

ASSUME ClockAssumption ==
  /\ YearTicks \in Nat \ {0}
  /\ AddGraceTicks \in Nat
  /\ MaxYears \in Nat \ {0}
  /\ Horizon \in Nat
  /\ MaxExpiry \in Nat
  /\ MaxQueue \in Nat

ASSUME NoneAssumption ==
  /\ None \notin Registrars
  /\ None \notin AuthInfos
  /\ None \notin TransferRecord
  /\ None \notin DomainRecord

VARIABLES
  domains,          \* the domain table: a record for each registered name
  queues,           \* poll messages of each registrar, named by their domain
  now               \* the clock

vars == <<domains, queues, now>>

-------------------------------------------------------------------------------
(* The repository: what each method writes.                                *)

CreateRecord(r, years, auth) ==
  [registrarId |-> r,
   statuses    |-> {"ok"},
   rgpStatus   |-> "addPeriod",
   transfer    |-> None,
   authInfo    |-> auth,
   createdAt   |-> now,
   expiresAt   |-> now + years * YearTicks]

UpdateStatuses(d, add, rem) ==
  [d EXCEPT !.statuses = NormalizeObjectStatuses((@ \ rem) \cup add)]

RenewRecord(d, years) ==
  [d EXCEPT !.expiresAt = @ + years * YearTicks,
            !.rgpStatus = "renewPeriod"]

\* Mutant: a later caller replaces the requester on record.
LatestCaller(d, r) == r

\* Mutant: the default period of a transfer nobody requested is forgotten.
TransferYearsNoDefault(d) ==
  IF d.transfer = None THEN 0 ELSE d.transfer.periodYears

\* Mutant: only an approval takes the pendingTransfer status away.
OnlyApprovalCloses(d, status, r, years) ==
  [d EXCEPT
     !.statuses = NormalizeObjectStatuses(
                    CASE status = "pending"  -> @ \cup {"pendingTransfer"}
                      [] status = "approved" -> @ \ {"pendingTransfer"}
                      [] OTHER -> @),
     !.transfer = [status          |-> status,
                   requestedBy     |-> IF d.transfer = None THEN r
                                       ELSE d.transfer.requestedBy,
                   losingRegistrar |-> IF d.transfer = None THEN d.registrarId
                                       ELSE d.transfer.losingRegistrar,
                   periodYears     |-> years]]

\* The parties and period of a transfer record are kept once it exists.
RequestedBy(d, r) == IF d.transfer = None THEN r ELSE d.transfer.requestedBy
LosingRegistrar(d) ==
  IF d.transfer = None THEN d.registrarId ELSE d.transfer.losingRegistrar
TransferYears(d) == IF d.transfer = None THEN 1 ELSE d.transfer.periodYears

SetTransferStatus(d, status, r, years) ==
  [d EXCEPT
     !.statuses = NormalizeObjectStatuses(
                    IF status = "pending" THEN @ \cup {"pendingTransfer"}
                                          ELSE @ \ {"pendingTransfer"}),
     !.transfer = [status          |-> status,
                   requestedBy     |-> RequestedBy(d, r),
                   losingRegistrar |-> LosingRegistrar(d),
                   periodYears     |-> years]]

\* Mutant: the new expiry is counted from today instead of the old expiry.
ApproveFromToday(d, r) ==
  [SetTransferStatus(d, "approved", r, TransferYears(d)) EXCEPT
     !.registrarId = RequestedBy(d, r),
     !.expiresAt   = now + TransferYears(d) * YearTicks,
     !.rgpStatus   = "transferPeriod"]

\* An approval also hands the name over and extends it.
ApproveTransferRecord(d, r) ==
  [SetTransferStatus(d, "approved", r, TransferYears(d)) EXCEPT
     !.registrarId = RequestedBy(d, r),
     !.expiresAt   = d.expiresAt + TransferYears(d) * YearTicks,
     !.rgpStatus   = "transferPeriod"]

-------------------------------------------------------------------------------
(* The service: what each command checks.                                  *)

IsRegistered(n) == domains[n] # None

IsSponsor(n, r) == IsRegistered(n) /\ domains[n].registrarId = r

WithinTenYears(expiry, years) ==
  expiry + years * YearTicks =< now + MaxYears * YearTicks

WithinAddGracePeriod(d) == now - d.createdAt =< AddGraceTicks

MayCreate(n) == n \notin ReservedNames /\ ~IsRegistered(n)

MayUpdate(n, r, add, rem, other) ==
  /\ IsSponsor(n, r)
  /\ CanUpdate(domains[n].statuses, add, rem, other)
  /\ add \cup rem \subseteq CLIENT_SETTABLE_DOMAIN_STATUSES
  /\ IsStatusDelta(domains[n].statuses, add, rem)

\* Mutant: the ten-year cap is not asserted on renewals.
MayRenewUncapped(n, r, years, cur) ==
  /\ IsSponsor(n, r)
  /\ cur \in {None, domains[n].expiresAt}
  /\ CanRenew(domains[n].statuses)

\* curExpDate `cur' is compared when it is given.
MayRenew(n, r, years, cur) ==
  /\ IsSponsor(n, r)
  /\ cur \in {None, domains[n].expiresAt}
  /\ CanRenew(domains[n].statuses)
  /\ WithinTenYears(domains[n].expiresAt, years)

MayDelete(n, r) == IsSponsor(n, r) /\ CanDelete(domains[n].statuses)

\* Mutant: restore does not ask for the redemption period.
MayRestoreAnytime(n, r) == IsSponsor(n, r)

MayRestore(n, r) == IsSponsor(n, r) /\ domains[n].rgpStatus = "redemptionPeriod"

MayRequestTransfer(n, years) ==
  /\ IsRegistered(n)
  /\ CanTransferRequest(domains[n].statuses)
  /\ WithinTenYears(domains[n].expiresAt, years)

\* The recorded requester cancels, whatever has become of the transfer.
MayCancelTransfer(n, r) ==
  /\ IsRegistered(n)
  /\ domains[n].transfer # None
  /\ domains[n].transfer.requestedBy = r

-------------------------------------------------------------------------------
(* The command handlers.                                                   *)

Store(n, d) == domains' = [domains EXCEPT ![n] = d]

\* <domain:create>: a free, unreserved name, for 1 to MaxYears years.
Create(n, r, years, auth) ==
  /\ MayCreate(n)
  /\ Store(n, CreateRecord(r, years, auth))
  /\ UNCHANGED <<queues, now>>

\* <domain:update>: `other' stands for changes to nameservers, contacts, keys.
Update(n, r, add, rem, auth, other) ==
  /\ MayUpdate(n, r, add, rem, other \/ auth # None)
  /\ Store(n, [UpdateStatuses(domains[n], add, rem) EXCEPT
                 !.authInfo = IF auth = None THEN @ ELSE auth])
  /\ UNCHANGED <<queues, now>>

\* <domain:renew>.
Renew(n, r, years, cur) ==
  /\ MayRenew(n, r, years, cur)
  /\ Store(n, RenewRecord(domains[n], years))
  /\ UNCHANGED <<queues, now>>

\* <domain:delete> in the add grace period purges the name at once ...
Purge(n, r) ==
  /\ MayDelete(n, r)
  /\ WithinAddGracePeriod(domains[n])
  /\ Store(n, None)
  /\ UNCHANGED <<queues, now>>

\* ... and later only starts its redemption.
Redeem(n, r) ==
  /\ MayDelete(n, r)
  /\ ~WithinAddGracePeriod(domains[n])
  /\ Store(n, [UpdateStatuses(domains[n], {"pendingDelete"}, {}) EXCEPT
                 !.rgpStatus = "redemptionPeriod"])
  /\ UNCHANGED <<queues, now>>

\* Mutant: restore lifts the status and forgets the redemption period.
RestoreStatusOnly(n, r) ==
  /\ MayRestore(n, r)
  /\ Store(n, UpdateStatuses(domains[n], {}, {"pendingDelete"}))
  /\ UNCHANGED <<queues, now>>

\* <rgp:restore>, carried by a <domain:update>.
Restore(n, r) ==
  /\ MayRestore(n, r)
  /\ Store(n, [UpdateStatuses(domains[n], {}, {"pendingDelete"}) EXCEPT
                 !.rgpStatus = "pendingRestore"])
  /\ UNCHANGED <<queues, now>>

\* A non-sponsor must present the name's password, and the name must have one.
IsAuthorized(d, r, pw) ==
  r = d.registrarId \/ (d.authInfo # None /\ pw = d.authInfo)

\* Mutant: the message goes to the requester instead of the sponsor.
RequestTellsRequester(n, r, years, pw) ==
  /\ MayRequestTransfer(n, years)
  /\ IsAuthorized(domains[n], r, pw)
  /\ Len(queues[r]) < MaxQueue
  /\ Store(n, SetTransferStatus(domains[n], "pending", r, years))
  /\ queues' = [queues EXCEPT ![r] = Append(@, n)]
  /\ UNCHANGED now

\* <domain:transfer op="request"> also leaves the sponsor a poll message.
RequestTransfer(n, r, years, pw) ==
  /\ MayRequestTransfer(n, years)
  /\ IsAuthorized(domains[n], r, pw)
  /\ Len(queues[domains[n].registrarId]) < MaxQueue
  /\ Store(n, SetTransferStatus(domains[n], "pending", r, years))
  /\ queues' = [queues EXCEPT ![domains[n].registrarId] = Append(@, n)]
  /\ UNCHANGED now

\* op="approve" asks for the sponsor, not for a pending transfer.
ApproveTransfer(n, r) ==
  /\ IsSponsor(n, r)
  /\ domains[n].expiresAt + TransferYears(domains[n]) * YearTicks =< MaxExpiry
  /\ Store(n, ApproveTransferRecord(domains[n], r))
  /\ UNCHANGED <<queues, now>>

\* Mutant: a rejected transfer hands the name over too.
RejectHandsOver(n, r) ==
  /\ IsSponsor(n, r)
  /\ Store(n, [SetTransferStatus(domains[n], "rejected", r, TransferYears(domains[n]))
                 EXCEPT !.registrarId = RequestedBy(domains[n], r)])
  /\ UNCHANGED <<queues, now>>

RejectTransfer(n, r) ==
  /\ IsSponsor(n, r)
  /\ Store(n, SetTransferStatus(domains[n], "rejected", r, TransferYears(domains[n])))
  /\ UNCHANGED <<queues, now>>

\* Mutant: a cancel hands the name back, whatever has become of the transfer.
CancelHandsBack(n, r) ==
  /\ MayCancelTransfer(n, r)
  /\ Store(n, [SetTransferStatus(domains[n], "cancelled", r, TransferYears(domains[n]))
                 EXCEPT !.registrarId = LosingRegistrar(domains[n])])
  /\ UNCHANGED <<queues, now>>

CancelTransfer(n, r) ==
  /\ MayCancelTransfer(n, r)
  /\ Store(n, SetTransferStatus(domains[n], "cancelled", r, TransferYears(domains[n])))
  /\ UNCHANGED <<queues, now>>

\* <poll op="ack">: the message is found by its id, wherever it is queued.
PollAck(r, i) ==
  /\ i \in 1..Len(queues[r])
  /\ queues' = [queues EXCEPT ![r] = RemoveAt(@, i)]
  /\ UNCHANGED <<domains, now>>

TimePasses ==
  /\ now < Horizon
  /\ now' = now + 1
  /\ UNCHANGED <<domains, queues>>

-------------------------------------------------------------------------------
Init ==
  /\ domains = [n \in Names |-> None]
  /\ queues = [r \in Registrars |-> <<>>]
  /\ now = 0

DomainCommand(n, r) ==
  \/ \E years \in Years, auth \in AuthInfos \cup {None} :
        Create(n, r, years, auth)
  \/ \E add, rem \in SUBSET StatusChoices, auth \in AuthInfos \cup {None},
        other \in BOOLEAN : Update(n, r, add, rem, auth, other)
  \/ \E years \in Years, cur \in (0..MaxExpiry) \cup {None} : Renew(n, r, years, cur)
  \/ Purge(n, r)
  \/ Redeem(n, r)
  \/ Restore(n, r)
  \/ \E years \in Years, pw \in AuthInfos \cup {None} :
        RequestTransfer(n, r, years, pw)
  \/ ApproveTransfer(n, r)
  \/ RejectTransfer(n, r)
  \/ CancelTransfer(n, r)

Next ==
  \/ \E n \in Names, r \in Registrars : DomainCommand(n, r)
  \/ \E r \in Registrars, i \in 1..MaxQueue : PollAck(r, i)
  \/ TimePasses

Spec == Init /\ [][Next]_vars

-------------------------------------------------------------------------------
(* Invariants.                                                             *)

TypeOK ==
  /\ domains \in [Names -> DomainRecord \cup {None}]
  /\ queues \in [Registrars -> Seq(Names)]
  /\ now \in Nat

HasStatus(n, status) == IsRegistered(n) /\ status \in domains[n].statuses

HasPendingTransfer(n) ==
  /\ IsRegistered(n)
  /\ domains[n].transfer # None
  /\ domains[n].transfer.status = "pending"

\* Status "ok" is stored exactly when the name carries no other status, through
\* whatever mix of updates, transfers, deletes and restores the list was edited
\* (the rule above normalizeObjectStatuses, which every writer must re-apply).
StatusesNormalized ==
  \A n \in Names : IsRegistered(n) =>
    /\ domains[n].statuses # {}
    /\ HasStatus(n, "ok") <=> domains[n].statuses = {"ok"}

\* The pendingTransfer status and the transfer record, two columns written by
\* different methods, always agree: no name is left blocked by a transfer that
\* is over, and no open transfer is without its status.
PendingTransferAgrees ==
  \A n \in Names : HasStatus(n, "pendingTransfer") <=> HasPendingTransfer(n)

\* A name in its redemption period carries pendingDelete, so it can be neither
\* renewed, deleted again nor requested by another registrar until restored.
RedemptionIsPendingDelete ==
  \A n \in Names :
    IsRegistered(n) /\ domains[n].rgpStatus = "redemptionPeriod"
      => HasStatus(n, "pendingDelete")

\* A name in pendingDelete has left the redemption period only through an approved
\* transfer: neither an update, a renewal nor any other step of a transfer takes
\* from its sponsor the RGP status that a restore asks for.
LeavingNamesCanReturn ==
  \A n \in Names : HasStatus(n, "pendingDelete") =>
    \/ domains[n].rgpStatus = "redemptionPeriod"
    \/ domains[n].rgpStatus = "transferPeriod" /\ domains[n].transfer # None

-------------------------------------------------------------------------------
(* Action properties: what a step may never do.                            *)

StaysRegistered(n) == IsRegistered(n) /\ domains'[n] # None

SponsorStep ==
  \A n \in Names :
    StaysRegistered(n) /\ domains'[n].registrarId # domains[n].registrarId =>
      /\ domains[n].transfer # None
      /\ domains'[n].registrarId = domains[n].transfer.requestedBy
      /\ domains'[n].transfer.status = "approved"
      /\ domains'[n].expiresAt > domains[n].expiresAt

\* A name that stays registered changes hands only to the registrar recorded on
\* its transfer, in the step that marks the transfer approved and extends the
\* registration; no other command moves a name between registrars.
SponsorGoesToRequester == [][SponsorStep]_vars

PendingDeleteStep ==
  \A n \in Names : HasStatus(n, "pendingDelete") =>
    /\ domains'[n] # None
    /\ \/ "pendingDelete" \in domains'[n].statuses
       \/ /\ domains[n].rgpStatus = "redemptionPeriod"
          /\ domains'[n].rgpStatus = "pendingRestore"

\* Once deletion has begun after the add grace period the name is never purged,
\* and pendingDelete goes away only through a restore out of redemption.
PendingDeleteHolds == [][PendingDeleteStep]_vars

ExpiryStep ==
  \A n \in Names : StaysRegistered(n) =>
    domains'[n].expiresAt >= domains[n].expiresAt

\* While a name stays registered its expiry never moves back, whoever sponsors it
\* and whichever of renew and approve extends it.
ExpiryNeverMovesBack == [][ExpiryStep]_vars

KeepsParties(d, e) ==
  d.transfer # None =>
    /\ e.transfer # None
    /\ e.transfer.losingRegistrar = d.transfer.losingRegistrar
    /\ e.transfer.requestedBy = d.transfer.requestedBy

MoveStep ==
  \A n \in Names : StaysRegistered(n) =>
    /\ KeepsParties(domains[n], domains'[n])
    /\ domains'[n].registrarId # domains[n].registrarId =>
         /\ domains[n].transfer # None
         /\ domains[n].registrarId = domains[n].transfer.losingRegistrar
         /\ domains'[n].registrarId = domains[n].transfer.requestedBy

\* The parties of a name's first transfer stay recorded (`??' in setTransfer), so
\* while it is registered a name moves at most once, from the one to the other:
\* later requests are announced and approved like the first, and move nothing.
SponsorMovesOneWay == [][MoveStep]_vars

CapStep ==
  \A n \in Names :
    domains'[n] # None /\ (IsRegistered(n) => domains'[n].expiresAt # domains[n].expiresAt) =>
      \/ WithinTenYears(domains'[n].expiresAt, 0)
      \/ /\ IsRegistered(n)
         /\ domains'[n].transfer # None
         /\ domains'[n].transfer.status = "approved"
         /\ domains'[n].rgpStatus = "transferPeriod"
         /\ domains'[n].expiresAt
              = domains[n].expiresAt + TransferYears(domains[n]) * YearTicks

\* Only the approval of a transfer, whose cap was asserted when it was requested if
\* it ever was, carries an expiry more than MaxYears years ahead, and by no more
\* than the period on record; no creation and no sequence of renewals does.
OnlyApprovalsPassTheCap == [][CapStep]_vars

AnnounceStep ==
  \A n \in Names, r \in Registrars :
    queues'[r] = Append(queues[r], n) <=>
      /\ ~HasPendingTransfer(n) /\ HasPendingTransfer(n)'
      /\ domains'[n].registrarId = r

\* A transfer becomes pending exactly in the steps that leave a message about it
\* with the registrar who can approve it.
PendingTransferIsAnnounced == [][AnnounceStep]_vars

-------------------------------------------------------------------------------
(* The abstract contract this lifecycle implements.                        *)

HolderOf(d)   == IF d = None THEN None ELSE d.registrarId
ClaimantOf(d) ==
  IF d = None \/ d.transfer = None THEN None ELSE d.transfer.requestedBy
IsLeaving(d)  == d # None /\ "pendingDelete" \in d.statuses

Contract ==
  INSTANCE RegistrationContract WITH
    Nobody   <- None,
    holder   <- [n \in Names |-> HolderOf(domains[n])],
    claimant <- [n \in Names |-> ClaimantOf(domains[n])],
    leaving  <- [n \in Names |-> IsLeaving(domains[n])]

\* Every command keeps the contract: a name is handed over only to the registrar
\* its transfer record names, that registrar is never replaced while the name is
\* registered, and a name in pendingDelete is never released.
ImplementsContract == Contract!Spec

-------------------------------------------------------------------------------
(* What comments and docs of the source say, and the code does not ensure. *)

\* "Sponsor who must approve or reject": the losing registrar recorded on an
\* open transfer is the name's sponsor (src/src/domain/types.ts:61).
LosingRegistrarIsSponsor ==
  \A n \in Names : HasPendingTransfer(n) =>
    domains[n].transfer.losingRegistrar = domains[n].registrarId
===============================================================================
