------------------------------ MODULE BulkSync ------------------------------
(***************************************************************************)
(* POST /sync/bulk (api/sync.py): kiosks push the sessions, payments and   *)
(* voucher redemptions they recorded while offline.  Every kiosk runs its  *)
(* own device-service against one shared Postgres database, and handlers   *)
(* run in a thread pool, so pushes interleave between any two statements.  *)
(*                                                                         *)
(* One request is one transaction (READ COMMITTED).  An item of a batch is *)
(* a SELECT ("lookup") and, when it changes something, an INSERT or UPDATE *)
(* ("flush") in a savepoint of its own; other requests run in between.     *)
(* Two abstractions keep the data small: state stands for state together   *)
(* with activation_mode and offline, and booth for booth_id together with  *)
(* campaign_id, which the code treats alike.                               *)
(***************************************************************************)
EXTENDS Naturals, Sequences, FiniteSets

CONSTANTS
  Devices,         \* kiosks that may push
  LocalIds,        \* session_local_id values: sessions.client_ref
  PaymentIds,      \* payment_local_id values: payments.client_ref
  VoucherCodes,    \* vouchers.code
  SessionCodes,    \* sessions.code
  ProviderRefs,    \* payments.provider_ref
  Frames,          \* ids of server frame templates
  KioskFrames,     \* "frm_" ids, frames that exist on the kiosk only
  Booths,          \* ids of booths (and of campaigns)
  Amounts,         \* what else a payment says: amount, currency, method, ...
  CameraLinked,    \* kiosks with a camera profile
  Payloads,        \* request bodies a kiosk may send
  InitialSessions, \* the sessions table before the first push
  InitialVouchers, \* the vouchers table, filled by the admin panel
  Requests,        \* handler threads
  MAX_BULK_ITEMS,
  MaxPushes,       \* bound on the number of requests
  MaxEdits,        \* bound on the number of edits by others
  Null

VARIABLES
  sessions, payments, vouchers, devices, syncLog,  \* committed rows
  liveRefs,  \* frames and booths that are not soft-deleted
  overdue,   \* vouchers past expires_at
  former,    \* history: the kiosks that gave a session up to another one
  req,       \* control state of each request
  tx,        \* uncommitted rows of each request and the locks it holds
  pushes, edits

tables == <<sessions, payments, vouchers, devices, syncLog>>
admin  == <<liveRefs, overdue, former, edits>>
vars   == <<tables, admin, req, tx, pushes>>

(***************************************************************************)
(* Rows and payload items.                                                 *)
(***************************************************************************)
SessionStates == {"started", "payment_choice", "simulation", "take_photo",
                  "re_take", "print", "complete", "cancelled"}

\* "synced" counts the session_device_logs rows with reason "synced".
SessionRows ==
  [device_id: Devices \cup {Null}, state: SessionStates, frame: Frames \cup {Null},
   booth: Booths \cup {Null}, code: SessionCodes \cup {Null}, synced: Nat]

PaymentStatuses == {"pending", "succeeded", "failed", "refunded"}

PaymentRows ==
  [device_id: Devices, session: LocalIds, booth: Booths \cup {Null},
   voucher: VoucherCodes \cup {Null}, amount: Amounts, status: PaymentStatuses,
   provider_ref: ProviderRefs \cup {Null}]

VoucherRows ==
  [status: {"available", "used", "voided"}, session: LocalIds \cup {Null},
   device_id: Devices \cup {Null}, deleted: BOOLEAN]

\* An "unknown" word is one the server does not have.
SessionItems ==
  [kind: {"session"}, id: LocalIds, state: SessionStates \cup {"unknown"},
   frame: Frames \cup KioskFrames \cup {Null}, booth: Booths \cup {Null},
   code: SessionCodes \cup {Null}]

KioskWords == {"pending", "paid", "succeeded", "failed", "cancelled", "refunded"}

PaymentItems ==
  [kind: {"payment"}, id: PaymentIds, session: LocalIds,
   booth: Booths \cup {Null}, voucher: VoucherCodes \cup {Null}, amount: Amounts,
   status: KioskWords \cup {"unknown", Null}, provider_ref: ProviderRefs \cup {Null}]

VoucherItems == [kind: {"voucher"}, id: VoucherCodes, session: LocalIds]

Items == SessionItems \cup PaymentItems \cup VoucherItems

\* What the optional device block of a push carries: nothing that counts,
\* health fields only, or a battery level too.
Reports == {"none", "health", "battery"}

BulkSyncRequest ==
  [report: Reports, sessions: Seq(SessionItems), payments: Seq(PaymentItems),
   vouchers: Seq(VoucherItems)]

\* The device_sync_logs row of a committed push.
DeviceSyncLogs ==
  [device: Devices, ok: SUBSET Items, failed: SUBSET Items,
   status: {"success", "partial", "failed"}]

\* The columns of devices that a push writes.
DeviceRows == [connectivity: {"connect", "online"}, last_synced: BOOLEAN]

Refs == Frames \cup Booths

ASSUME PayloadsAssumption == Payloads \subseteq BulkSyncRequest
ASSUME NullAssumption ==
  Null \notin Devices \cup LocalIds \cup PaymentIds \cup VoucherCodes \cup SessionCodes
              \cup ProviderRefs \cup Frames \cup KioskFrames \cup Booths
              \cup KioskWords \cup {"unknown"}
              \cup SessionRows \cup PaymentRows \cup VoucherRows
ASSUME FramesAssumption == Frames \cap KioskFrames = {}
ASSUME DevicesAssumption == CameraLinked \subseteq Devices
ASSUME BoundsAssumption ==
  MAX_BULK_ITEMS \in Nat /\ MaxPushes \in Nat /\ MaxEdits \in Nat
\* Rows that predate the code column have no code; no two have the same one.
ASSUME SessionsAssumption ==
  /\ InitialSessions \in [LocalIds -> SessionRows \cup {Null}]
  /\ \A l, m \in LocalIds :
       (l # m /\ InitialSessions[l] # Null /\ InitialSessions[m] # Null
        /\ InitialSessions[l].code # Null)
       => InitialSessions[l].code # InitialSessions[m].code
\* The admin panel issues vouchers unspent, some bound to one kiosk.
ASSUME VouchersAssumption ==
  /\ InitialVouchers \in [VoucherCodes -> VoucherRows \cup {Null}]
  /\ \A v \in VoucherCodes : InitialVouchers[v] # Null =>
       InitialVouchers[v].status # "used" /\ InitialVouchers[v].session = Null

-----------------------------------------------------------------------------
(***************************************************************************)
(* Requests and transactions.                                              *)
(***************************************************************************)
Idle == [pc |-> "idle", device |-> Null, report |-> "none", todo |-> <<>>,
         seen |-> Null, want |-> Null, ok |-> {}, failed |-> {}]

NoWrites == [sessions |-> [l \in LocalIds |-> Null],
             payments |-> [p \in PaymentIds |-> Null],
             vouchers |-> [v \in VoucherCodes |-> Null],
             held     |-> {}]

Rows == SessionRows \cup PaymentRows \cup VoucherRows

\* A request: where it is, who calls, the items left to process, the row it
\* loaded for the current item and the row it wants, and the results so far.
RequestStates ==
  [pc: {"idle", "report", "lookup", "flush"}, device: Devices \cup {Null},
   report: Reports, todo: Seq(Items), seen: Rows \cup {Null},
   want: Rows \cup {Null}, ok: SUBSET Items, failed: SUBSET Items]

\* Locks on rows and on entries of unique indexes.
Keys == {"session", "code", "payment", "provider", "voucher", "redeems", "device"} \X
        (LocalIds \cup SessionCodes \cup PaymentIds \cup ProviderRefs
         \cup VoucherCodes \cup Devices)

Transactions ==
  [sessions: [LocalIds -> SessionRows \cup {Null}],
   payments: [PaymentIds -> PaymentRows \cup {Null}],
   vouchers: [VoucherCodes -> VoucherRows \cup {Null}],
   held: SUBSET Keys]

Init ==
  /\ sessions = InitialSessions
  /\ payments = [p \in PaymentIds |-> Null]
  /\ vouchers = InitialVouchers
  /\ devices  = [d \in Devices |-> [connectivity |-> "connect", last_synced |-> FALSE]]
  /\ syncLog  = {}
  /\ liveRefs = Refs
  /\ overdue  = {}
  /\ former   = [l \in LocalIds |-> {}]
  /\ req = [r \in Requests |-> Idle]
  /\ tx  = [r \in Requests |-> NoWrites]
  /\ pushes = 0
  /\ edits  = 0

\* A request reads its own uncommitted rows over the committed ones.
SessionRow(r, l) == IF tx[r].sessions[l] = Null THEN sessions[l] ELSE tx[r].sessions[l]
PaymentRow(r, p) == IF tx[r].payments[p] = Null THEN payments[p] ELSE tx[r].payments[p]
VoucherRow(r, v) == IF tx[r].vouchers[v] = Null THEN vouchers[v] ELSE tx[r].vouchers[v]

\* Row locks and entries of unique indexes are held until the transaction ends.
Free(r, keys) == \A q \in Requests \ {r} : tx[q].held \cap keys = {}

Item(r) == Head(req[r].todo)

\* Mutant: the loop does not advance.
SameItem(q) == [q EXCEPT !.pc = "lookup", !.seen = Null, !.want = Null]
NextItem(q) == [q EXCEPT !.pc = "lookup", !.todo = Tail(@), !.seen = Null, !.want = Null]
Applied(q)  == [NextItem(q) EXCEPT !.ok = @ \cup {Head(q.todo)}]
\* Mutant: a payment or a voucher is recorded as applied before its savepoint ends.
EagerlyApplied(q) ==
  IF Head(q.todo).kind # "session" THEN Applied(q)
  ELSE [NextItem(q) EXCEPT !.failed = @ \cup {Head(q.todo)}]
Failed(q)   == [NextItem(q) EXCEPT !.failed = @ \cup {Head(q.todo)}]

-----------------------------------------------------------------------------
(***************************************************************************)
(* What the lookup of an item decides.                                     *)
(***************************************************************************)
\* _resolve_frame: a kiosk-local frame is stored as null.
ServerFrame(f) == IF f \in KioskFrames THEN Null ELSE f

\* _checked_ref and _resolve_frame: missing and soft-deleted rows are refused.
Missing(ref) == ref \notin liveRefs \cup {Null}

FreeCodes(r) ==
  {c \in SessionCodes : \A l \in LocalIds :
     SessionRow(r, l) = Null \/ SessionRow(r, l).code # c}

\* _allocate_session_code: the kiosk's code when it is free, else a random one.
AllocatedCodes(r, preferred) ==
  IF preferred \in FreeCodes(r) THEN {preferred} ELSE FreeCodes(r)

SessionRefused(r, i) ==
  LET row == SessionRow(r, i.id) IN
  \/ i.state \notin SessionStates
  \/ Missing(ServerFrame(i.frame))
  \/ Missing(i.booth)
  \/ row # Null /\ row.device_id # req[r].device
  \/ (row # Null => row.code = Null) /\ FreeCodes(r) = {}

\* Mutant: an update allocates a code again.
RecodedSessions(r, i) ==
  {[device_id |-> req[r].device, state |-> i.state, frame |-> ServerFrame(i.frame),
    booth |-> i.booth, code |-> c, synced |-> 0] : c \in AllocatedCodes(r, i.code)}

WantedSessions(r, i) ==
  LET row == SessionRow(r, i.id)
      refreshed == [row EXCEPT !.state = i.state, !.frame = ServerFrame(i.frame),
                               !.booth = i.booth]
  IN CASE row = Null ->
            {[device_id |-> req[r].device, state |-> i.state,
              frame |-> ServerFrame(i.frame), booth |-> i.booth,
              code |-> c, synced |-> 0] : c \in AllocatedCodes(r, i.code)}
       [] row # Null /\ row.code = Null ->
            {[refreshed EXCEPT !.code = c] : c \in AllocatedCodes(r, i.code)}
       [] OTHER -> {refreshed}

\* Mutant: sessions of other kiosks resolve too.
UnknownSession(r, l) == SessionRow(r, l) = Null

\* _resolve_session_id: session_ids holds the sessions this batch applied.
Unresolved(r, l) ==
  /\ \A i \in req[r].ok : i.kind = "session" => i.id # l
  /\ SessionRow(r, l) # Null => SessionRow(r, l).device_id # req[r].device

\* Mutant: the kiosk's word is stored as it came.
Verbatim(word) == IF word = Null THEN "pending" ELSE word

Canonical(word) ==
  CASE word \in {"paid", "succeeded"}   -> "succeeded"
    [] word \in {"failed", "cancelled"} -> "failed"
    [] word = "refunded"                -> "refunded"
    [] OTHER                            -> "pending"

\* Mutant: a payment of another kiosk may be updated.
ForeignPaymentRefused(r, i) ==
  \/ Unresolved(r, i.session)
  \/ i.status \notin KioskWords \cup {Null}
  \/ Missing(i.booth)

PaymentRefused(r, i) ==
  \/ Unresolved(r, i.session)
  \/ i.status \notin KioskWords \cup {Null}
  \/ Missing(i.booth)
  \/ /\ i.voucher # Null
     /\ VoucherRow(r, i.voucher) # Null => VoucherRow(r, i.voucher).deleted
  \/ /\ PaymentRow(r, i.id) # Null
     /\ PaymentRow(r, i.id).device_id # req[r].device

\* A payment without a booth takes its session's; a resent payment that names
\* no status keeps the one it has.
WantedPayments(r, i) ==
  LET row == PaymentRow(r, i.id) IN
  {[device_id |-> req[r].device, session |-> i.session,
    booth |-> IF i.booth # Null THEN i.booth ELSE SessionRow(r, i.session).booth,
    voucher |-> i.voucher, amount |-> i.amount,
    status |-> IF row # Null /\ i.status = Null THEN row.status ELSE Canonical(i.status),
    provider_ref |-> i.provider_ref]}

\* Mutant: expiry is checked before the idempotent retry.
ExpiredVoucherRefused(r, i) ==
  LET row == VoucherRow(r, i.id) IN
  \/ Unresolved(r, i.session)
  \/ row = Null
  \/ row.device_id \notin {Null, req[r].device}
  \/ i.id \in overdue
  \/ row.status # "available" /\ ~(row.status = "used" /\ row.session = i.session)

VoucherRefused(r, i) ==
  LET row == VoucherRow(r, i.id) IN
  \/ Unresolved(r, i.session)
  \/ row = Null
  \/ row.device_id \notin {Null, req[r].device}
  \/ /\ ~(row.status = "used" /\ row.session = i.session)
     /\ row.status # "available" \/ i.id \in overdue

WantedVouchers(r, i) ==
  LET row == VoucherRow(r, i.id) IN
  {IF row.status = "used" THEN row
   ELSE [row EXCEPT !.status = "used", !.session = i.session,
                    !.device_id = req[r].device]}

Refused(r, i) == CASE i.kind = "session" -> SessionRefused(r, i)
                   [] i.kind = "payment" -> PaymentRefused(r, i)
                   [] i.kind = "voucher" -> VoucherRefused(r, i)

Row(r, i)     == CASE i.kind = "session" -> SessionRow(r, i.id)
                   [] i.kind = "payment" -> PaymentRow(r, i.id)
                   [] i.kind = "voucher" -> VoucherRow(r, i.id)

Wanted(r, i)  == CASE i.kind = "session" -> WantedSessions(r, i)
                   [] i.kind = "payment" -> WantedPayments(r, i)
                   [] i.kind = "voucher" -> WantedVouchers(r, i)

-----------------------------------------------------------------------------
(***************************************************************************)
(* What the flush of an item writes.  UPDATE carries only the columns that *)
(* differ from the row as it was loaded, and finds the row by id, whatever *)
(* other transactions have committed to it since.                          *)
(***************************************************************************)
Newer(loaded, assigned, current) == IF assigned # loaded THEN assigned ELSE current

FlushedSession(r) ==
  LET seen == req[r].seen
      want == req[r].want
      row  == SessionRow(r, Item(r).id)
  IN IF seen = Null
       THEN [want EXCEPT !.synced = 1]
       ELSE [device_id |-> row.device_id,
             state  |-> Newer(seen.state, want.state, row.state),
             frame  |-> Newer(seen.frame, want.frame, row.frame),
             booth  |-> Newer(seen.booth, want.booth, row.booth),
             code   |-> Newer(seen.code, want.code, row.code),
             synced |-> row.synced + 1]

FlushedPayment(r) ==
  LET seen == req[r].seen
      want == req[r].want
      row  == PaymentRow(r, Item(r).id)
  IN IF seen = Null
       THEN want
       ELSE [device_id |-> row.device_id,
             session |-> Newer(seen.session, want.session, row.session),
             booth   |-> Newer(seen.booth, want.booth, row.booth),
             voucher |-> Newer(seen.voucher, want.voucher, row.voucher),
             amount  |-> Newer(seen.amount, want.amount, row.amount),
             status  |-> Newer(seen.status, want.status, row.status),
             provider_ref |-> Newer(seen.provider_ref, want.provider_ref, row.provider_ref)]

FlushedVoucher(r) ==
  LET seen == req[r].seen
      want == req[r].want
      row  == VoucherRow(r, Item(r).id)
  IN [status    |-> Newer(seen.status, want.status, row.status),
      session   |-> Newer(seen.session, want.session, row.session),
      device_id |-> Newer(seen.device_id, want.device_id, row.device_id),
      deleted   |-> row.deleted]

\* The row and the unique-index entries a flush locks.
ClaimsCode(r)     == req[r].seen # Null => req[r].seen.code # req[r].want.code
ClaimsProvider(r) ==
  /\ req[r].want.provider_ref # Null
  /\ req[r].seen # Null => req[r].seen.provider_ref # req[r].want.provider_ref

SessionKeys(r) == {<<"session", Item(r).id>>} \cup
                  (IF ClaimsCode(r) THEN {<<"code", req[r].want.code>>} ELSE {})
PaymentKeys(r) == {<<"payment", Item(r).id>>} \cup
                  (IF ClaimsProvider(r) THEN {<<"provider", req[r].want.provider_ref>>} ELSE {})
VoucherKeys(r) == {<<"voucher", Item(r).id>>, <<"redeems", req[r].want.session>>}

DeviceKey(r) == <<"device", req[r].device>>

FlushKeys(r) == CASE Item(r).kind = "session" -> SessionKeys(r)
                  [] Item(r).kind = "payment" -> PaymentKeys(r)
                  [] Item(r).kind = "voucher" -> VoucherKeys(r)

\* Unique columns: sessions.client_ref and code, payments.client_ref and
\* provider_ref, vouchers.session_id.
\* Mutant: sessions.code is not unique.
ClientRefConflict(r) == req[r].seen = Null /\ SessionRow(r, Item(r).id) # Null

SessionConflict(r) ==
  \/ req[r].seen = Null /\ SessionRow(r, Item(r).id) # Null
  \/ /\ ClaimsCode(r)
     /\ \E l \in LocalIds \ {Item(r).id} :
          SessionRow(r, l) # Null /\ SessionRow(r, l).code = req[r].want.code

PaymentConflict(r) ==
  \/ req[r].seen = Null /\ PaymentRow(r, Item(r).id) # Null
  \/ /\ ClaimsProvider(r)
     /\ \E p \in PaymentIds \ {Item(r).id} :
          /\ PaymentRow(r, p) # Null
          /\ PaymentRow(r, p).provider_ref = req[r].want.provider_ref

VoucherConflict(r) ==
  \E v \in VoucherCodes \ {Item(r).id} :
    VoucherRow(r, v) # Null /\ VoucherRow(r, v).session = req[r].want.session

Conflict(r) == CASE Item(r).kind = "session" -> SessionConflict(r)
                 [] Item(r).kind = "payment" -> PaymentConflict(r)
                 [] Item(r).kind = "voucher" -> VoucherConflict(r)

-----------------------------------------------------------------------------
(***************************************************************************)
(* The handler, bulk_sync.                                                 *)
(***************************************************************************)
Accepted(p) ==
  LET total == Len(p.sessions) + Len(p.payments) + Len(p.vouchers) IN
  /\ total > 0 \/ p.report # "none"
  /\ total <= MAX_BULK_ITEMS

\* A kiosk may send any body at any time: a first push, the retry of one whose
\* answer was lost, or an older one that was delayed.
Receive(r, d, p) ==
  /\ req[r].pc = "idle"
  /\ pushes < MaxPushes
  /\ Accepted(p)
  /\ req' = [req EXCEPT ![r] = [Idle EXCEPT
               !.pc = IF p.report = "none" THEN "lookup" ELSE "report",
               !.device = d, !.report = p.report,
               !.todo = p.sessions \o p.payments \o p.vouchers]]
  /\ pushes' = pushes + 1
  /\ UNCHANGED <<tables, admin, tx>>

\* Mutant: the connection returns to the pool with its transaction open.
LeakyRollback(r) ==
  /\ req' = [req EXCEPT ![r] = Idle]
  /\ UNCHANGED <<tables, admin, tx, pushes>>

\* The transaction ends without a commit: its rows and locks are gone.
Rollback(r) ==
  /\ req' = [req EXCEPT ![r] = Idle]
  /\ tx'  = [tx EXCEPT ![r] = NoWrites]
  /\ UNCHANGED <<tables, admin, pushes>>

\* _apply_device_update: a battery level has nowhere to go without a camera.
NoCamera(r) == req[r].report = "battery" /\ req[r].device \notin CameraLinked

RejectReport(r) ==
  /\ req[r].pc = "report"
  /\ NoCamera(r)
  /\ Rollback(r)

ApplyReport(r) ==
  /\ req[r].pc = "report"
  /\ ~NoCamera(r)
  /\ Free(r, {DeviceKey(r)})
  /\ req' = [req EXCEPT ![r].pc = "lookup"]
  /\ tx'  = [tx EXCEPT ![r].held = @ \cup {DeviceKey(r)}]
  /\ UNCHANGED <<tables, admin, pushes>>

LooksUp(r) == req[r].pc = "lookup" /\ req[r].todo # <<>>

RefuseItem(r) ==
  /\ LooksUp(r)
  /\ Refused(r, Item(r))
  /\ req' = [req EXCEPT ![r] = Failed(@)]
  /\ UNCHANGED <<tables, admin, tx, pushes>>

\* Nothing differs from the stored row: the item is applied without a write.
KeepItem(r) ==
  /\ LooksUp(r)
  /\ ~Refused(r, Item(r))
  /\ Row(r, Item(r)) \in Wanted(r, Item(r))
  /\ req' = [req EXCEPT ![r] = Applied(@)]
  /\ UNCHANGED <<tables, admin, tx, pushes>>

StageItem(r) ==
  /\ LooksUp(r)
  /\ ~Refused(r, Item(r))
  /\ Row(r, Item(r)) \notin Wanted(r, Item(r))
  /\ \E want \in Wanted(r, Item(r)) :
       req' = [req EXCEPT ![r].pc = "flush", ![r].seen = Row(r, Item(r)), ![r].want = want]
  /\ UNCHANGED <<tables, admin, tx, pushes>>

\* A flush waits for the locks it needs.
Flushes(r, kind) ==
  /\ req[r].pc = "flush"
  /\ Item(r).kind = kind
  /\ Free(r, FlushKeys(r))
  /\ ~Conflict(r)
  /\ req' = [req EXCEPT ![r] = Applied(@)]
  /\ UNCHANGED <<tables, admin, pushes>>

FlushSession(r) ==
  /\ Flushes(r, "session")
  /\ tx' = [tx EXCEPT ![r].sessions[Item(r).id] = FlushedSession(r),
                      ![r].held = @ \cup SessionKeys(r)]

FlushPayment(r) ==
  /\ Flushes(r, "payment")
  /\ tx' = [tx EXCEPT ![r].payments[Item(r).id] = FlushedPayment(r),
                      ![r].held = @ \cup PaymentKeys(r)]

FlushVoucher(r) ==
  /\ Flushes(r, "voucher")
  /\ tx' = [tx EXCEPT ![r].vouchers[Item(r).id] = FlushedVoucher(r),
                      ![r].held = @ \cup VoucherKeys(r)]

\* A unique column is violated: the savepoint is rolled back, the item fails.
IntegrityError(r) ==
  /\ req[r].pc = "flush"
  /\ Free(r, FlushKeys(r))
  /\ Conflict(r)
  /\ req' = [req EXCEPT ![r] = Failed(@)]
  /\ UNCHANGED <<tables, admin, tx, pushes>>

LogStatus(ok, failed) == IF failed = {} THEN "success"
                         ELSE IF ok = {} THEN "failed" ELSE "partial"

AtCommit(r) == req[r].pc = "lookup" /\ req[r].todo = <<>>

\* devices.last_synced_at is written by the flush of the final commit.
Commit(r) ==
  LET d == req[r].device IN
  /\ AtCommit(r)
  /\ Free(r, {DeviceKey(r)})
  /\ sessions' = [l \in LocalIds |-> SessionRow(r, l)]
  /\ payments' = [p \in PaymentIds |-> PaymentRow(r, p)]
  /\ vouchers' = [v \in VoucherCodes |-> VoucherRow(r, v)]
  /\ devices'  = [devices EXCEPT ![d] =
       [connectivity |-> IF req[r].report # "none" THEN "online" ELSE @.connectivity,
        last_synced  |-> TRUE]]
  /\ syncLog'  = syncLog \cup
       {[device |-> d, ok |-> req[r].ok, failed |-> req[r].failed,
         status |-> LogStatus(req[r].ok, req[r].failed)]}
  /\ req' = [req EXCEPT ![r] = Idle]
  /\ tx'  = [tx EXCEPT ![r] = NoWrites]
  /\ UNCHANGED <<admin, pushes>>

\* The process dies, or the connection is lost, before the commit.
Crash(r) == req[r].pc # "idle" /\ Rollback(r)

-----------------------------------------------------------------------------
(***************************************************************************)
(* Postgres breaks a cycle of transactions that wait for each other by     *)
(* failing a statement of one of them.  Inside a savepoint that fails the  *)
(* item; elsewhere it fails the request.                                   *)
(***************************************************************************)
Needs(r) == CASE req[r].pc = "flush" -> FlushKeys(r)
              [] req[r].pc = "report" /\ ~NoCamera(r) -> {DeviceKey(r)}
              [] AtCommit(r) -> {DeviceKey(r)}
              [] OTHER -> {}

WaitsFor(q, r) == q # r /\ Needs(q) \cap tx[r].held # {}

Deadlocked(r) ==
  \E cycle \in SUBSET Requests :
    /\ r \in cycle
    /\ \A q \in cycle : /\ \E p \in cycle : WaitsFor(q, p)
                        /\ \E p \in cycle : WaitsFor(p, q)

DeadlockVictim(r) ==
  /\ Deadlocked(r)
  /\ \/ req[r].pc # "flush" /\ Rollback(r)
     \/ /\ req[r].pc = "flush"
        /\ req' = [req EXCEPT ![r] = Failed(@)]
        /\ UNCHANGED <<tables, admin, tx, pushes>>

-----------------------------------------------------------------------------
(***************************************************************************)
(* What else writes these tables: the admin panel and the clock, which     *)
(* this code only reads, and the online session API, which may give a      *)
(* session to another kiosk.  An UPDATE of theirs waits for the row like   *)
(* any other.                                                              *)
(***************************************************************************)
Unlocked(key) == \A r \in Requests : key \notin tx[r].held

Edit ==
  /\ edits < MaxEdits
  /\ edits' = edits + 1
  /\ UNCHANGED <<devices, syncLog, req, tx, pushes>>

RetireRef(x) ==
  /\ Edit
  /\ x \in liveRefs
  /\ liveRefs' = liveRefs \ {x}
  /\ UNCHANGED <<sessions, payments, vouchers, overdue, former>>

ExpireVoucher(v) ==
  /\ Edit
  /\ v \notin overdue
  /\ overdue' = overdue \cup {v}
  /\ UNCHANGED <<sessions, payments, vouchers, liveRefs, former>>

EditVoucher(v) ==
  /\ Edit
  /\ vouchers[v] # Null
  /\ Unlocked(<<"voucher", v>>)
  /\ \/ /\ vouchers[v].status = "available"
        /\ vouchers' = [vouchers EXCEPT ![v].status = "voided"]
     \/ vouchers' = [vouchers EXCEPT ![v].deleted = TRUE]
  /\ UNCHANGED <<sessions, payments, liveRefs, overdue, former>>

Refund(p) ==
  /\ Edit
  /\ payments[p] # Null
  /\ payments[p].status = "succeeded"
  /\ Unlocked(<<"payment", p>>)
  /\ payments' = [payments EXCEPT ![p].status = "refunded"]
  /\ UNCHANGED <<sessions, vouchers, liveRefs, overdue, former>>

\* update_session with another device_id or with null; the other columns that a
\* PATCH may set are in SessionLifecycle.
SwapDevice(l, d) ==
  /\ Edit
  /\ sessions[l] # Null
  /\ sessions[l].device_id # d
  /\ Unlocked(<<"session", l>>)
  /\ sessions' = [sessions EXCEPT ![l].device_id = d]
  /\ former' = [former EXCEPT ![l] = @ \cup {sessions[l].device_id}]
  /\ UNCHANGED <<payments, vouchers, liveRefs, overdue>>

-----------------------------------------------------------------------------
\* What a request does once it has started, and the database to it.
Progress(r) ==
  \/ RejectReport(r) \/ ApplyReport(r)
  \/ RefuseItem(r) \/ KeepItem(r) \/ StageItem(r)
  \/ FlushSession(r) \/ FlushPayment(r) \/ FlushVoucher(r)
  \/ IntegrityError(r) \/ DeadlockVictim(r) \/ Commit(r)

Admin ==
  \/ \E x \in Refs : RetireRef(x)
  \/ \E v \in VoucherCodes : ExpireVoucher(v) \/ EditVoucher(v)
  \/ \E p \in PaymentIds : Refund(p)
  \/ \E l \in LocalIds, d \in Devices \cup {Null} : SwapDevice(l, d)

Next ==
  \/ \E r \in Requests :
       \/ \E d \in Devices, p \in Payloads : Receive(r, d, p)
       \/ Progress(r)
       \/ Crash(r)
  \/ Admin

Spec == Init /\ [][Next]_vars

\* A request that can take a step is scheduled again: the thread pool runs
\* every handler, Postgres grants a free lock and resolves every deadlock.
FairSpec == Spec /\ \A r \in Requests : WF_vars(Progress(r))

-----------------------------------------------------------------------------
(***************************************************************************)
(* Properties.                                                             *)
(***************************************************************************)
\* A staged item carries the row it loaded and the row it wants, which has a
\* code or a session where one is claimed.
StagedOK(q) ==
  q.pc = "flush" =>
    /\ q.todo # <<>>
    /\ Head(q.todo).kind = "session" =>
         /\ q.seen \in SessionRows \cup {Null}
         /\ q.want \in SessionRows /\ q.want.code # Null
    /\ Head(q.todo).kind = "payment" =>
         q.seen \in PaymentRows \cup {Null} /\ q.want \in PaymentRows
    /\ Head(q.todo).kind = "voucher" =>
         /\ q.seen \in VoucherRows
         /\ q.want \in VoucherRows /\ q.want.session # Null

\* Every table holds rows of its type, the database's and each request's own,
\* and a request past its start has a caller and well-formed staged rows.
TypeOK ==
  /\ sessions \in [LocalIds -> SessionRows \cup {Null}]
  /\ payments \in [PaymentIds -> PaymentRows \cup {Null}]
  /\ vouchers \in [VoucherCodes -> VoucherRows \cup {Null}]
  /\ devices \in [Devices -> DeviceRows]
  /\ syncLog \subseteq DeviceSyncLogs
  /\ liveRefs \subseteq Refs
  /\ overdue \subseteq VoucherCodes
  /\ former \in [LocalIds -> SUBSET (Devices \cup {Null})]
  /\ req \in [Requests -> RequestStates]
  /\ \A r \in Requests : /\ req[r].pc # "idle" => req[r].device \in Devices
                         /\ StagedOK(req[r])
  /\ tx \in [Requests -> Transactions]
  /\ pushes \in 0..MaxPushes
  /\ edits \in 0..MaxEdits

\* The kiosks that own a session or have owned it.
Owners(l, row) == former[l] \cup {row.device_id}

HasSession(l, d) == sessions[l] # Null /\ d \in Owners(l, sessions[l])

\* Whatever was pushed, swapped, raced, rolled back or crashed: a payment belongs
\* to a session of the kiosk that made the payment, and a spent voucher to a
\* session of the kiosk it was spent at, unless that kiosk has given the session
\* up.  The code checks ownership on the copies it loaded, before others commit.
OwnershipConsistent ==
  /\ \A p \in PaymentIds : payments[p] # Null =>
       HasSession(payments[p].session, payments[p].device_id)
  /\ \A v \in VoucherCodes :
       (vouchers[v] # Null /\ vouchers[v].status = "used") =>
         HasSession(vouchers[v].session, vouchers[v].device_id)

Acknowledged(i, d) == \E e \in syncLog : e.device = d /\ i \in e.ok

\* What the answer of a committed push calls applied, and the kiosk may
\* therefore forget, is in the tables: the session and the payment as rows of
\* that kiosk, the voucher as a spent one.
AcknowledgedIsStored ==
  \A e \in syncLog : \A i \in e.ok :
    /\ i.kind = "session" => HasSession(i.id, e.device)
    /\ i.kind = "payment" => payments[i.id] # Null /\ payments[i.id].device_id = e.device
    /\ i.kind = "voucher" => vouchers[i.id] # Null /\ vouchers[i.id].status = "used"

\* No two sessions share a code, no two payments a provider reference, and no
\* session spends two vouchers, though each request picks its values from rows
\* it read before others committed theirs.
UniqueColumns ==
  /\ \A l, m \in LocalIds :
       (l # m /\ sessions[l] # Null /\ sessions[m] # Null /\ sessions[l].code # Null)
         => sessions[l].code # sessions[m].code
  /\ \A p, q \in PaymentIds :
       (p # q /\ payments[p] # Null /\ payments[q] # Null /\ payments[p].provider_ref # Null)
         => payments[p].provider_ref # payments[q].provider_ref
  /\ \A v, w \in VoucherCodes :
       (v # w /\ vouchers[v] # Null /\ vouchers[w] # Null /\ vouchers[v].session # Null)
         => vouchers[v].session # vouchers[w].session

\* The reasons for which the lookup may refuse an item that was acknowledged.
Outdated(r, i) ==
  \/ i.kind = "session" /\ (Missing(ServerFrame(i.frame)) \/ Missing(i.booth))
  \/ /\ i.kind = "payment"
     /\ \/ Missing(i.booth)
        \/ i.voucher # Null /\ VoucherRow(r, i.voucher).deleted
  \/ /\ i.kind = "voucher"
     /\ LET row == VoucherRow(r, i.id)
        IN row.session # i.session \/ row.device_id # req[r].device
  \/ req[r].device \in former[IF i.kind = "session" THEN i.id ELSE i.session]

\* The reasons for which its flush may then violate a unique column: the row is
\* no longer the one its lookup loaded, or a payment that had given its reference
\* up finds it taken.
Overtaken(r, i) ==
  \/ Row(r, i) # req[r].seen
  \/ /\ i.kind = "payment"
     /\ \E p \in PaymentIds \ {i.id} :
          PaymentRow(r, p) # Null /\ PaymentRow(r, p).provider_ref = req[r].want.provider_ref

\* The retry of an acknowledged item passes its lookup, even when its voucher has
\* expired since, unless the catalogue rows it names are gone, another session or
\* kiosk took the voucher over, or the kiosk has given the session up.  Its flush
\* meets no unique column unless it was overtaken.  It may still be the victim of
\* a deadlock.
RetryStaysAcceptable ==
  \A r \in Requests :
    (req[r].todo # <<>> /\ Acknowledged(Item(r), req[r].device)) =>
      /\ LooksUp(r) /\ Refused(r, Item(r)) => Outdated(r, Item(r))
      /\ req[r].pc = "flush" /\ Conflict(r) => Overtaken(r, Item(r))

\* Session, payment and voucher rows change only when a push commits, only its
\* caller's rows, and only rows of items it reports as applied: a failed item,
\* a rejected or a crashed push leaves nothing behind.  The edits of others
\* apart.
AppliedInThisStep(kind, id, owners) ==
  \E r \in Requests :
    /\ req[r].pc # "idle" /\ req'[r].pc = "idle"
    /\ req[r].device \in owners
    /\ \E i \in req[r].ok : i.kind = kind /\ i.id = id

OnlyAppliedItemsWrite ==
  [][ edits' = edits =>
      /\ \A l \in LocalIds : sessions'[l] # sessions[l] =>
           AppliedInThisStep("session", l, Owners(l, sessions'[l]))
      /\ \A p \in PaymentIds : payments'[p] # payments[p] =>
           AppliedInThisStep("payment", p, {payments'[p].device_id})
      /\ \A v \in VoucherCodes : vouchers'[v] # vouchers[v] =>
           AppliedInThisStep("voucher", v, {vouchers'[v].device_id}) ]_vars

\* "Retries are idempotent" (api/sync.py:336): the commit of a push whose
\* applied items were all acknowledged before changes no row.
RetryChangesNothing ==
  [][ \A r \in Requests :
        (AtCommit(r) /\ req'[r].pc = "idle"
         /\ \A i \in req[r].ok : Acknowledged(i, req[r].device))
        => UNCHANGED <<sessions, payments, vouchers>> ]_vars

\* "Must be available (or already used by the same session ...)"
\* (schemas/sync.py:88): a spent voucher stays with the session that spent it.
VoucherSpentOnce ==
  [][ \A v \in VoucherCodes :
        (vouchers[v] # Null /\ vouchers[v].status = "used")
        => vouchers'[v].session = vouchers[v].session ]_vars

\* The ledger this module keeps: see OfflineLedger.
OwnersOf == [l \in LocalIds |->
               IF sessions[l] = Null THEN {} ELSE Owners(l, sessions[l]) \ {Null}]
ChargedTo == [p \in PaymentIds |-> IF payments[p] = Null THEN Null ELSE payments[p].session]
SpentFor == [v \in VoucherCodes |-> IF vouchers[v] = Null THEN Null ELSE vouchers[v].session]

Ledger == INSTANCE OfflineLedger WITH
  Sessions <- LocalIds, Payments <- PaymentIds, Vouchers <- VoucherCodes,
  owners <- OwnersOf, charged <- ChargedTo, spent <- SpentFor

\* Seen from outside, a push takes effect in one step and touches its caller's
\* records only, however its items interleave with those of other pushes; of
\* the edits only a swap touches the ledger.
ImplementsLedger == Ledger!Spec

\* Every push is answered: no request waits for ever, although pushes hold
\* the rows of earlier items, and the row of their kiosk, while they wait for
\* others.
PushAnswered == \A r \in Requests : req[r].pc # "idle" ~> req[r].pc = "idle"

=============================================================================
