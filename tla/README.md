# Verification of the kiosk device-service

The device-service is the HTTP service that photo-booth kiosks talk to. Its
handlers are synchronous functions that FastAPI runs in a thread pool. Each
works in one database transaction (READ COMMITTED) on a Postgres database that
all instances of the service and the admin panel ("backend2", not in this
repository) share. Identity comes from an external SSO. This directory holds
TLA+ models of the service, the TLC runs that check them, and proofs checked by
TLAPS.

## Inventory

| Part | State it keeps | Operations | What is hard | What makes it correct | Modelled |
|---|---|---|---|---|---|
| Offline bulk sync (`api/sync.py`) | sessions, payments, vouchers, device row, sync log | `POST /sync/bulk` | concurrent pushes, savepoints, retries, refunds, deadlocks, crashes | owners consistent, answers true, retries idempotent, one voucher one session | `BulkSync` |
| Session lifecycle (`api/session.py`) | sessions, device logs | create, steps, cancel, PATCH, GET | check-then-act races | a session follows its lifecycle, its log tells how | `SessionLifecycle` |
| Pairing and tokens (`api/auth_device.py`, `lib/sso.py`) | device row, grant at the SSO | authorize, token, refresh, password | two systems, failure between them | a recorded device has a grant, a kiosk's codes are known, a verified device was granted | `DevicePairing` |
| Request identity (`lib/protect_token.py`, `lib/device_identity.py`) | none | per request | a device that is deleted while requests are open | the caller is the device of the token, and a deleted one is refused | partly, in `DeviceReports` |
| Liveness and heartbeat (`lib/device_liveness.py`, `api/device.py`) | connectivity, health, `last_synced_at`, sync log | heartbeat, device block of a push, middleware after each answer, polls | two transactions per request, overlap, crashes in between | "online" passes, a stamp has the row of its GET or push in the log, one log row per request | `DeviceReports` |
| Catalogue reads (`api/config.py`, `templates.py`, `campaigns.py`, `voucher.py`) | none (reads) | GETs | several SELECTs overtaken by edits, soft deletes, fallbacks | only live rows of the caller's newest valid assignment, the same from every endpoint | `KioskCatalogue` |
| Plug profiles (`api/plug.py`) | camera and printer profiles | POST | check-then-insert race, refusal half way, row locks | no profile without a device, no lock cycle | `DeviceReports` |
| Connection pool (`database.py`) | connections in use | first statement, commit, re-read, close | a second connection while the first is held, slow services, timeouts | every connection comes back, a full pool drains, every request ends | `ConnectionPool` |
| Upload, WhatsApp (`api/upload.py`, `api/whatsapp.py`) | none | pass-through | connections held while another service is asked | | as requests of `ConnectionPool` |
| Conflict classifier (`lib/device_conflict.py`) | none | error mapping | stale lookups | | `device_taken`, in `DevicePairing` |
| Commerce (`lib/commerce.py`, `lib/payment_gateway.py`) | external orders | checkout | partial failure | no endpoint calls it | no |
| Settings, helpers, seeds | none | | | | no |

How they interact: every part reads the `devices` row of its caller and several
write it (liveness, bulk sync, pairing, plug), and every part but the upload proxy
and the forwarded SSO calls takes its connections from one pool. The session API, bulk sync and
the voucher endpoint share `sessions` and `vouchers`. The admin panel writes
vouchers, refunds and soft deletes at any time. `PROJECT.json` lists all parts
and the hazards at their lines.

## Modules

| Module | Contents |
|---|---|
| `BulkSync` | the tables, requests and transactions of `POST /sync/bulk`, its actions and properties |
| `OfflineLedger` | what bulk sync promises: an abstract ledger that one push changes in one step |
| `BulkSyncInv` | the inductive invariants: of owners and answers, of unique columns, of promises, and of retries |
| `BulkSyncProofs` | the theorems on types, owners and answers |
| `BulkSyncUniqueProofs` | the theorems on unique columns |
| `BulkSyncPromiseProofs` | the theorems on what a push promises: what it writes, the refinement of `OfflineLedger`, retries |
| `MCBulkSync` | instances for TLC: payloads, initial tables |
| `SessionLifecycle` | the online session API, with bulk pushes of the same rows; properties and inductive invariant |
| `SessionLifecycleProofs` | its theorems |
| `MCSessionLifecycle` | instances for TLC: patches, pushes, the frames that are offered |
| `DevicePairing` | pairing and tokens, with the SSO as an external actor; properties and inductive invariant |
| `PairingPromise` | what pairing promises: codes, grants and tenants bound once, with no SSO, handlers or failures |
| `DevicePairingProofs` | the theorems of pairing, among them that it implements its promise |
| `MCDevicePairing` | instances for TLC |
| `KioskCatalogue` | the reads of assignment, campaign, frames and vouchers, with edits in between; properties and inductive invariant |
| `KioskCatalogueProofs` | the theorems on answers that no edit overtakes, or one |
| `MCKioskCatalogue` | instances for TLC: windows, initial tables |
| `DeviceReports` | heartbeats, device blocks, plug reports and the liveness middleware; properties and inductive invariant |
| `DeviceReportsProofs` | its theorems |
| `MCDeviceReports` | instances for TLC: the calls of a kiosk |
| `ConnectionPool` | the connections that the requests of one process share; properties and inductive invariant |
| `ConnectionPoolProofs` | its theorems |
| `MCConnectionPool` | instance for TLC |

### BulkSync and the code

*State.* `sessions`, `payments`, `vouchers`, `devices` are the committed rows,
keyed by what the kiosk knows them by (`client_ref`, `code`); `syncLog` is
`device_sync_logs`. `req[r]` is where handler thread `r` is: the items left, the
row it loaded (`seen`) and the row it wants to store (`want`) for the current
item, and the results. `tx[r]` is what it has flushed and not committed, and
the locks it holds until it ends.

*Actions.*

| Action | Code |
|---|---|
| `Receive` | `bulk_sync` up to the limit checks; a rejected request changes nothing and is not a step |
| `ApplyReport`, `RejectReport` | `_apply_device_update`, its 404 |
| `RefuseItem` | the lookup of an item raises `ValueError` |
| `KeepItem` | the item is as stored, or its voucher is already redeemed: nothing to flush |
| `StageItem` | the lookup succeeds: the SELECTs of one item, taken as one atomic read |
| `FlushSession`, `FlushPayment`, `FlushVoucher` | the INSERT or UPDATE, once its locks are free |
| `IntegrityError` | the flush meets a unique column taken by a row committed after the lookup |
| `DeadlockVictim` | Postgres breaks a circle of lock waits by failing one statement |
| `Commit` | the log row, `last_synced_at`, `db.commit()` |
| `Crash` | the process or the connection dies: rollback |
| `SwapDevice` | `update_session` (`PATCH /sessions/{id}`) with another `device_id`, or with null |
| `RetireRef`, `ExpireVoucher`, `EditVoucher`, `Refund` | the admin panel and the clock, as the comments and reads of `api/sync.py` show them |

Between the lookup and the flush of an item, and between items, every other
thread may take steps. An UPDATE carries only the columns that differ from the
row as it was loaded (`Newer`) and finds the row by id, as SQLAlchemy does.

*Abstractions.* `state` stands for `state`, `activation_mode` and `offline`;
`booth` for `booth_id` and `campaign_id`, which the code treats alike; `amount`
for everything else a payment says. Timestamps, gateway payloads, health
values, error wording and error limits are left out. The `session_device_logs`
rows of reason "synced" are a count. Identical log rows are one element of
`syncLog`. A swap is one step here, as its load and its write are two in
`SessionLifecycle`; its other columns are there as well. `former[l]` is a history
of the kiosks that gave a session up, which no action reads. Index entries of one statement are acquired together; foreign-key
share locks are left out. The session factory has `autoflush=False`, so the only
statements are the explicit ones.

### SessionLifecycle and the code

*State.* `sessions` are the committed rows, `logs[s]` the `session_device_logs` of a
session in the order of `created_at`, `req[h]` what handler thread `h` has loaded
(`seen`), wants to store (`want`) and will log (`entry`).

| Action | Code |
|---|---|
| `CreateSession` | `create_session` up to the flush |
| `Step` | `_step`, for the four endpoints that call it, up to the flush |
| `CancelSession`, `UpdateSessionPayment`, `UpdateSession` | the handlers of these names, up to the flush |
| `UpsertSession` | the lookup of a session item in `_upsert_session` of bulk sync |
| `Write` | UPDATE or INSERT, the log row, `db.commit()` |
| `Abort` | an exception in between, or a crash: rollback |

A handler is two steps: it loads and checks the row, and it writes. The UPDATE
takes the lock of the row, which is held until the commit, and the `created_at` of
the log row is taken by its INSERT after that, so UPDATE, INSERT and COMMIT are
one step as far as this row is concerned. Requests that are answered with an error
before they write, a second cancel and a PATCH that changes no modelled column
are not steps. Which kiosks are live, assigned and offered which frames is
constant in an instance. Two sessions that are created never have the same id; a
clash of codes or of `client_ref` is an `Abort` here and is checked in `BulkSync`.

### DevicePairing and the code

*State.* `devices` are the committed rows by `device_code`; `req[h]` is where handler
`h` is, with the row it has flushed (`code`, `tenant`), the SSO code it was answered
(`sso`) or the row it is about to mark (`seen`). `grants` is the SSO's state, `answered`
and `tokens` are what kiosks have received.

| Action | Code |
|---|---|
| `Authorize` | `authorize_device`, step 1: tenant free, code unused, flush |
| `SsoAuthorizes`, `SsoAnswerLost` | step 2: the SSO makes the grant; its answer arrives, or does not |
| `Recheck`, `Commit` | step 3: the two lookups; the commit, which a unique index may refuse |
| `Answer` | the answer to the kiosk |
| `Verify`, `Expire`, `Revoke` | what operators and time do at the SSO, partly through `verify_device` and `revoke_device` |
| `Poll`, `Refresh` | the SSO's half of `device_token` and `refresh_device_token`, when it answers 200 |
| `FindDevice`, `Stamp` | `_mark_connected` and `_reconnect_after_refresh`: SELECT, then UPDATE and commit; the tokens are forwarded |
| `SkipStamp` | the bookkeeping failed; the tokens are forwarded all the same |
| `Abort` | the SSO refuses, the database fails, the process dies or the kiosk does not get the answer |
| `RecordLiveness` | the middleware sets `connectivity` after any request of the kiosk |

The lookup of the tenant and the flush of step 1 are one step: what changes
between them may as well change after them, as step 3 looks again. A refresh
spends the old token at once, so an answer that is lost leaves the kiosk without.
Polls and refreshes that the SSO refuses change nothing. `device_code` is chosen
at random; a code that another transaction has flushed is not chosen here.

`PairingPromise` is the abstract view: `bindings` of code, grant and tenant, which
are made once and stay; `shown`, `approved` and `issued` grants; `verified` codes.
`ImplementsPromise` maps committed rows to bindings, what kiosks have received to
`shown`, and the SSO's statuses to `approved` and `issued`. Flushes, lookups, lost
answers, failed bookkeeping and connectivity map to stuttering.

### KioskCatalogue and the code

*State.* `db` are the committed tables. `req` is one request: the candidates it has
read (`rows`), those not yet tried (`left`), the booths its SQLAlchemy session keeps
(`booths`), and what it will answer. `req.held` records which campaigns were right
while the request ran; no action reads it.

| Action | Code |
|---|---|
| `Begin` | the SELECT of the candidates in `get_valid_assignment`, and the time |
| `TryAssignment`, `NoAssignment` | its loop: the booth of a candidate is loaded, the window checked |
| `ReadCampaign` | the campaign of the booth, in `_active_campaign` and `_me_response` |
| `ReadFrames`, `ReadFallback` | the two SELECTs of `_resolve_frames` |
| `ReadVouchers` | `_device_vouchers`, counted by `/config` and listed by `/vouchers` |
| `Answer` | the answer; the transaction ends |
| `Edit` | the admin panel changes one row |

Requests only read, so they do not disturb each other and one at a time is enough.
Times are the naive WIB values that `_as_naive_wib` leaves. Profiles, paging, names
and the texts of 404 answers are left out. An assignment always has a booth row,
as rows are only soft-deleted.

### DeviceReports and the code

*State.* `device` is the row, with the columns that reports and the middleware
write; `cameras`, `printers` and `syncLogs` are the profiles and log rows by the
number of the request that made them, which is also the time it stamps. `req[t]`
is what handler thread `t` has loaded and which rows it will lock (`todo`) and has
locked (`held`). `crossed` and `lost` are histories that no action reads.

| Action | Code |
|---|---|
| `Begin` | a request arrives; the endpoint loads the device of the token and its profiles |
| `Lock` | one row of a flush: SQLAlchemy writes the profiles before the device that refers to them |
| `Refuse` | the 401, 404 and 422 answers, before or after the first flush; rollback |
| `Commit` | `db.commit()` of `heartbeat`, of the device block of `bulk_sync`, of the plug report, of the token endpoints' own bookkeeping |
| `LoadAgain`, `Note` | `_record_liveness`: its SELECT; its UPDATE, log row and commit |
| `Crash` | an unhandled exception, or the end of the process, at any point |
| `AdminDeletes` | the admin panel soft-deletes the device |

A column is written when its value differs from the loaded one, as SQLAlchemy
does, so the bookkeeping of a request that loaded "connect" leaves alone the
"online" that another report commits before its UPDATE. There is one device: no
handler here touches the row of another. Storage state and printer health are
treated alike and are one column. `last_seen_at`, `last_heartbeat`, error details
and display names are left out. Items of a push are in `BulkSync`; here a push has
its device block, its stamp, which is set however the items fare, and its log row,
which is a success, partial or failed one: any of the three, as the outcome depends on
the items. The log row of a push that is refused is the middleware's; what tells it from
one whose items all failed is the column `tables`, which only the endpoint fills. `get`, `poll` and `write` are the requests whose handler leaves the
device row alone.

### ConnectionPool and the code

*State.* `pc[r]` is where request `r` is, `kind[r]` what it does with the database
and with other services, `held` the pairs of a request and one of its two Sessions
that have a connection.

| Action | Code |
|---|---|
| `Arrive`, `Reject` | a request reaches its handler, or is refused before: a body that does not validate |
| `Connect` | the first statement of a Session, and the first after a commit (`db.refresh`) |
| `PoolTimeout` | no connection came free in time; `authorize_device` answers 503, others fail with 500 |
| `Read`, `CallOut`, `Commit`, `OutsideAnswers` | the handler: reads; asks the SSO, WAHA or the storage; commits |
| `Refuse`, `Break` | it raises an `HTTPException`; it raises anything else |
| `Record`, `RecordTimeout`, `Recorded` | `_record_liveness`, `_mark_connected`, `_reconnect_after_refresh`: a Session of their own, or none in time, which they swallow |
| `Send` | the answer is sent, then `get_db` closes its Session |

`create_engine` sets no size, so a process has SQLAlchemy's 5 + 10 connections and
a wait of 30 seconds; `PoolLimit` is any number. `get_db` is closed after the
response was sent (the pinned FastAPI runs the exit of a dependency then), and the
middleware holds the response back while it keeps its books. That a request takes
a second connection with the first in hand is what the module is about. The threads
that run handlers, connections that break, `pool_pre_ping`, `pool_recycle` and
other reasons for a re-read to fail are left out; `SSOClient` and `WahaClient` have
timeouts, so `Refuse` may end every call.

### Properties

| Property | Says |
|---|---|
| `TypeOK` | types of all state |
| `OwnershipConsistent` | a payment's kiosk has its session or gave it up, and so has the kiosk that spent a voucher |
| `AcknowledgedIsStored` | what a committed answer reports as applied is in the tables, for that kiosk |
| `UniqueColumns` | codes, provider references and voucher sessions stay unique though they are chosen from stale reads |
| `RetryStaysAcceptable` | the retry of an acknowledged item passes its lookup, unless the catalogue rows it names are gone, its voucher was taken over or its session given up; and its flush meets no unique column, unless its row has changed since the lookup or another payment has taken the reference it had given up |
| `OnlyAppliedItemsWrite` | rows change only when a push commits, and only rows of items it reports as applied |
| `ImplementsLedger` | the whole refines `OfflineLedger!Spec` |
| `RetryChangesNothing` | a push that only repeats acknowledged items changes no row |
| `PushAnswered` | every push is answered |
| `VoucherSpentOnce` | a spent voucher stays with its session |
| `LogExplainsRow` | the newest step in the log of a session led to its state, and its newest creation or swap names its kiosk, unless a PATCH or a push set them without a log |
| `LogFollowsLifecycle` | an action in a log comes after a step that led to the state it starts from |
| `ActionsFollowLifecycle` | an action takes a session from the source state in `ACTIONS` to the next |
| `RowHasGrant` | a committed device row has a grant that the SSO made for it |
| `UniqueTenants` | no tenant is bound to two devices |
| `AnsweredIsBound` | the client of a grant that a kiosk has received has a row bound to that grant |
| `VerifiedWasApproved` | a device is verified only if its grant was exchanged for tokens |
| `Reconnects` | a kiosk that keeps its tokens is shown as connected in the end |
| `VerifiedInTheEnd` | a kiosk that keeps its tokens is marked as verified in the end |
| `QuietAnswerRight` | an answer that no edit overtakes is what one look at the tables says: the newest valid assignment's campaign, its frames, its vouchers; so the endpoints agree, unless two assignments began at the same time: then it accepts either |
| `OvertakenOnce` | an answer that one edit overtakes has a campaign that was right before or after it |
| `DeletedNotServed` | no frame is served that was soft-deleted before the request began |
| `ImplementsPromise` | pairing refines `PairingPromise!Spec` |
| `OnlineIsPassing` | "online" is in the row only while bookkeeping that will end it is under way, unless a crash lost it |
| `OnlineEnds` | "online" does not stay, likewise |
| `NoStrayProfile` | unless two plug reports crossed, no profile is left without a device, whatever is refused or crashes |
| `StampIsLogged` | `last_synced_at` is the time of a GET that was answered or a push that was committed, whatever became of its items, and its row is in the log |
| `LoggedOnce` | endpoint and middleware do not both log a request |
| `DeletedIsRefused` | a request that arrives after the deletion of the device creates and stamps nothing, and leaves nothing in the log but a refusal |
| `NoLockCycle` | of the open transactions one can go on: their row locks admit no cycle |
| `AloneIsExact` | when a request that overlapped no other has been noted, the rows show what it reported and how it was answered |
| `ConnectionsReturned` | on every path, refused, failed or answered, a request gives its connections back |
| `CircleOfBooksOnly` | if all connections are held by requests that wait for another one, each is held by an answer that waits for its bookkeeping, one per connection: handlers never close the circle |
| `FullPoolDrains` | a full pool has a connection to give again, whether its holders ask slow services or wait for each other |
| `EveryRequestEnds` | every request is answered, whoever holds the connections |

`IInv` is the inductive invariant of each module, checked by TLC before its proof, and
in `pairing` and `catalogue` beside it. `sync_safety` checks `PushInv` instead, which is
`IInv` with the invariants behind the unique columns and the promises. `ExactInv` of
`DeviceReports` is `IInv` with what a request knows that overlaps no other.

## Runs

| Run | Instance | Result |
|---|---|---|
| `sync_safety` | 2 kiosks, 2 threads, 3 pushes out of 4 payloads, 1 edit by the admin panel or swap by a PATCH; a legacy session without code; two payments that want one reference; one voucher bound to a kiosk | 593 013 states, all safety properties and the invariant of the proofs hold |
| `sync_retry` | 1 kiosk, 2 threads, overlapping batches of the same content, no admin edits, fair threads | retries change nothing and every push is answered |
| `sync_double_spend` | 2 kiosks, 1 voucher sold twice | `VoucherSpentOnce` is violated |
| `sync_refund_retry` | as `sync_retry` with one admin edit | `RetryChangesNothing` is violated |
| `lifecycle_logs` | 2 sessions, one of which is pushed by its kiosk, 2 kiosks, 2 threads, 5 requests, 8 patches, 2 pushes | 710 215 states, the invariants on the log hold |
| `lifecycle_race` | the same with one patch and no pushes | `ActionsFollowLifecycle` is violated |
| `pairing` | 2 codes, 2 grants, 1 tenant, 2 threads, 2 authorize requests, any number of polls, refreshes and failures | 41 347 states, everything but `VerifiedInTheEnd` holds, and the refinement |
| `pairing_verified` | 1 code, 1 grant | `VerifiedInTheEnd` is violated |
| `catalogue` | 2 assignments, booths, campaigns and frames, 1 voucher, 4 windows, 2 times, 2 edits, 2 initial catalogues | 711 812 states, everything but `DeletedNotServed` holds |
| `catalogue_deleted` | the same with 1 edit | `DeletedNotServed` is violated |
| `device_reports` | 2 threads, 3 requests out of 6 calls, with and without a camera linked before, crashes, deletion | 1 271 006 states, all properties of `DeviceReports` hold |
| `pool` | 3 requests of 6 kinds, 2 connections | 120 466 states, all properties of `ConnectionPool` hold |

*Why the bounds are enough.* Two threads show every pairwise race. The third
push is the retry, or the one that meets what two others left. The payloads
are chosen so that they collide on every unique column (code, provider
reference, voucher, session), on the owner of a session, and on a bad item in
the middle of a batch. One admin edit can fall between any two steps.
Five requests take a session from its creation through a patch to "simulation"
and two steps, or let two steps, a swap or a cancel overtake each other after it.
Two authorize requests are the race for a tenant. Two assignments can be ordered,
tie, share a booth or be passed over; two edits change what a request will read
before it begins and again while it runs, or overtake it twice. Three reports are two that overlap and the one whose rows they
leave; the six calls are refused for want of a camera, plug one device, both or fail half
way, push with every outcome, read and get tokens; a poll is left out of the instance,
as the middleware notes one that succeeds as it notes a heartbeat. A pool that is smaller
than the number of requests, as the real one is (15 connections, 40 threads for handlers),
is where they starve each other: with three requests on two connections two handlers that
ask a slow service, or two answers that wait for their bookkeeping, hold them all while
the third waits, and one request that keeps its books holds both.
`MaxPushes`, `MaxEdits`, `MaxRequests` and `MaxAuthorize` are the only bounds on behaviour. A run
ends when the pushes or requests are used up (or, in a pairing run, the grants are dead), so deadlock is not checked; that requests do not get stuck is
`PushAnswered`.

*Fairness.* `FairSpec` assumes weak fairness of `Progress(r)` for each thread:
the thread pool runs every handler, Postgres grants a lock once it is free and
its detector breaks every circle of waits. Nothing is assumed of kiosks, the
admin panel or crashes. In `DevicePairing`, `FairSpec` assumes that handlers proceed,
that a kiosk with tokens refreshes them again and again (access tokens are
short-lived) and gets its turn in the thread pool, and that the SELECT and
the UPDATE of the bookkeeping do not fail each time they are tried: strong fairness,
since a failure or another request may intervene. It assumes nothing of crashes
and of lost answers: a kiosk that loses its tokens is excused by `Paired`. In
`DeviceReports` a thread goes on unless it crashes (weak fairness of `Step`), and a
crash that takes the bookkeeping with it is excused by `lost`. In `ConnectionPool`
weak fairness of `Progress` is enough: a request that waits can either connect or time
out, whether the pool is full or not, and every call to another service has a timeout.
The timeouts are what it rests on. If the bookkeeping waited as long as it takes (the
mutant `RecordWaits`), two answers would hold both connections for ever; if the handlers
did (`PatientConnect`), one of them could see every connection that comes free go to
another request.

*The divergences.* `_redeem_voucher` checks the status on the row it loaded
and updates by id. Two concurrent pushes can both redeem a voucher, and the
second takes it over; both kiosks were told it was applied. And a retry is
idempotent only as long as nobody else wrote the row: after a refund it puts
"succeeded" back. `_step` checks the state it loaded and updates by id, so a step
can be written after a cancel and revive the session.
`_mark_connected` has one chance, at the poll that gets the tokens: when it fails, no
later poll succeeds and a refresh does not set `is_verified`. The fallback of
`_resolve_frames` does not filter on `deleted_at`, so a frame that was deleted while
public is served to kiosks that have no frames of their own.

*Noted while modelling*, and in no run: A failed status poll is logged, though
`models/device_sync_log.py` says that polling never logs. The responses that reach
the middleware are streamed and have no `body`, so the error detail of a log is
always "HTTP" and the status. A heartbeat whose battery has no camera is answered
404 and the rest of its report is discarded. A plug report for a profile that was
soft-deleted is answered 201 and shows nowhere. When a swap of a session races with
the redemption of a voucher, two kiosks can each be told it was applied, and the retry
of one is refused. A PATCH with `device_id` null takes the session from its kiosk
without a log row. One with the frame null is not checked by `_apply_frame`, so it clears
a locked frame. A step that overtakes a PATCH in flight lets it change the frame of
a session that has started since. With as many open requests as connections, all of
them done but for their bookkeeping, none gets a second connection before the wait
ends: their stamps and log rows are dropped, and others that wait fail with them. After
a commit whose re-read gets no connection the kiosk is told 500 and may repeat a
`POST /sessions` that was stored. Two assignments with the same start are in no order, so
`/config` and `/devices/me` may each take another one.

## Proofs

`BulkSyncProofs`, `BulkSyncUniqueProofs` and `BulkSyncPromiseProofs` prove, for any sets
of kiosks, threads, items, payloads and any bounds:

| Theorem | Statement |
|---|---|
| `Inductive` | `Spec => []IInv` |
| `TypeCorrect` | `Spec => []TypeOK` |
| `Ownership` | `Spec => []OwnershipConsistent` |
| `Acknowledgement` | `Spec => []AcknowledgedIsStored` |
| `UniqueInductive`, `ColumnsStayUnique` | `Spec => []UniqueInv`, `Spec => []UniqueColumns` |
| `PushInductive` | `Spec => []PushInv` |
| `RetryAccepted` | `Spec => []RetryStaysAcceptable` |
| `OnlyAppliedWrite` | `Spec => OnlyAppliedItemsWrite` |
| `PushesImplementLedger` | `Spec => ImplementsLedger` |
| `RetriesIdempotent` | `OneContent(sent)` implies `Spec /\ OthersLeaveRows => RetryChangesNothing` |

`SessionLifecycleProofs` proves, for any sets of sessions, kiosks, frames, patches,
pushes, handlers and any number of requests:

| Theorem | Statement |
|---|---|
| `LifecycleInductive` | `Spec => []IInv` |
| `LifecycleTypeCorrect` | `Spec => []TypeOK` |
| `LogIsCurrent` | `Spec => []LogExplainsRow` |
| `LogIsConnected` | `Spec => []LogFollowsLifecycle` |

`DevicePairingProofs` proves, for any sets of codes, grants, tenants and handlers:

| Theorem | Statement |
|---|---|
| `PairingInductive` | `Spec => []IInv` |
| `PairingTypeCorrect` | `Spec => []TypeOK` |
| `NoOrphanRow` | `Spec => []RowHasGrant` |
| `TenantsUnique` | `Spec => []UniqueTenants` |
| `KnownWhenAnswered` | `Spec => []AnsweredIsBound` |
| `VerifiedByGrant` | `Spec => []VerifiedWasApproved` |
| `PairingKeepsPromise` | `Spec => ImplementsPromise` |

`KioskCatalogueProofs` proves, for any tables, times, windows and number of edits:

| Theorem | Statement |
|---|---|
| `CatalogueInductive` | `Spec => []IInv` |
| `CatalogueTypeCorrect` | `Spec => []TypeOK` |
| `AnswersRight` | `Spec => []QuietAnswerRight` |
| `OvertakenInductive`, `OneEditAtMost` | `Spec => []OvertakenInv`, `Spec => []OvertakenOnce` |

`DeviceReportsProofs` proves, for any threads, calls, readings, names and number of
requests:

| Theorem | Statement |
|---|---|
| `Inductive`, `TypeCorrect` | `Spec => []IInv`, `Spec => []TypeOK` |
| `OnlinePasses` | `Spec => []OnlineIsPassing` |
| `ProfilesAreLinked` | `Spec => []NoStrayProfile` |
| `StampsAreLogged`, `OneLogEach` | `Spec => []StampIsLogged`, `Spec => []LoggedOnce` |
| `DeletedStaysOut` | `Spec => []DeletedIsRefused` |
| `NoDeadlock` | `Spec => []NoLockCycle` |
| `ExactInductive`, `AloneReportsExact` | `Spec => []ExactInv`, `Spec => AloneIsExact` |

`ConnectionPoolProofs` proves, for any finite set of requests and any pool:

| Theorem | Statement |
|---|---|
| `PoolInductive`, `PoolTypeCorrect` | `Spec => []IInv`, `Spec => []TypeOK` |
| `AllReturned` | `Spec => []ConnectionsReturned` |
| `OnlyBooksCircle` | `Spec => []CircleOfBooksOnly` |

They use the named assumptions on the constants in the modules; TLC evaluates those on every run.

*The argument.* `OwnershipConsistent` and `AcknowledgedIsStored` are about committed
rows and are not inductive: whether a commit keeps them depends on what the
transaction saw when it staged the rows it now publishes. `IInv` adds that
knowledge: locks are exclusive and every uncommitted row is locked (`LocksInv`);
uncommitted rows belong to the caller and replace rows of the caller
(`WritesOwned`); the checks made at the lookup of an item still hold at its flush
(`StagedOwned`); and every item promised so far is seen as stored. Other
threads do not disturb this because the kiosks that have or had a session only become
more (a swap adds one, and leaves the old one in `former`), the owner of a payment never
changes, the device a voucher is bound to never changes, and a row locked by one thread is
not written by another. The proof has one step for each action and one for each
conjunct it can disturb; steps of the other threads are handled by lemmas on
what a commit may change.

For the sessions, `LogExplainsRow` is not inductive because a write depends on what
its handler planned when the row was different. `HandlersPlanned` adds that the plan
agrees with the log entry that goes with it: a handler that changes the state
without logging a step sets a state that a PATCH or a push may set; one that logs
a step changes the state to its target, so the column is in the UPDATE whatever
the row has become (this is where it matters that an UPDATE has only the columns
that differ from the loaded row); likewise for the kiosk. A row exists exactly when it has a
log, and the insertion of a row is nobody else's.

`UniqueColumns` rests on `UniqueInv`: no request sees a value twice among the rows it
would see, its own writes over the committed ones; and of every value it has put where
the committed row has another it holds the index entry. A commit of another request
publishes only values whose entries that one holds, so they clash with none of these.

What a push promises rests on `PromiseInv`. `OnlyAppliedItemsWrite` follows from
`WritesApplied`: every uncommitted row stands for an item that is reported as applied,
which a savepoint that is rolled back must not disturb. For `RetryStaysAcceptable` one has
to know which findings of an item's checks outlast other commits. `PassedForGood` lists
them: the server knows the item's words and the voucher it names exists; its session is
one that the kiosk has or had; and a session that has a code, or is about to get one, keeps
one, so that its retry does not need a free code. `AcknowledgedForGood` says the same of
the log. What is not in these lists is what the property allows as a reason to refuse.
That is the lookup. At the flush, a row that is still the one the lookup loaded can clash
in one way only. A session in the log has a code, and no UPDATE gives it another
(`KeepsCode`). A voucher in the log is spent, so one that is to be written was loaded as
available and has changed since. A payment was there when it was loaded, so what clashes
is its reference, which the lookup does not compare with those of other payments: a later
push may have stored the payment without it, and another payment has it now. `sync_safety`
reaches this case. The property says nothing of the victim of a deadlock.

`OfflineLedger` has the kiosks that have had a session, what payments are charged to and
what vouchers were spent for. That a commit is its `Push` needs `OwnershipConsistent` of
the state after it, and that the ids it changes are new or the caller's, which `WritesOwned`
says; `FormerHadSession`, that nobody has given up a session that is not there, makes the
pusher of a new session its only owner. A swap is its `Swap`; a `Push` of the new kiosk if
the session never had one; and a stutter if it goes to nobody, or back to a kiosk that had
it. All other steps stutter.

`RetryChangesNothing` does not hold in general, and `RetriesIdempotent` says when it does.
*`OneContent`*: each item is sent with one content; else a delayed older push may write
what it says after a newer one was acknowledged. And the sessions that are pushed were not
there before; else two pushes may both load the old row, and the second to commit gives it
another code or one more log row. *`OthersLeaveRows`*: nobody but the pushes writes
sessions, payments or vouchers; `sync_refund_retry` shows a refund undone otherwise.
Catalogue rows may be retired and vouchers expire. `RetryInv` says that then an item is
written once: what is stored under its id, committed or not, says what the item says, so
whoever looks it up later keeps it, and whoever looked it up before finds the id taken and
fails. Vouchers are the exception, which two pushes may redeem for the same session; there
both write the same row. TLC checked `RetryInv` on instances with two kiosks, a session
without a code, a bound voucher, four pushes and edits; `sync_retry` meets both hypotheses.

For pairing, whether a commit keeps `RowHasGrant` depends on the grant the handler was
answered, and whether an answer keeps `AnsweredIsBound` on the row it committed.
`HandlerInv` adds both, and that an uncommitted row has its code, and so its grant, to
itself: no other handler can have answered that grant. Each step leaves rows,
grants and answers `Stable`, from which the parts of all other handlers follow.

For the catalogue, `QuietAnswerRight` says nothing until the answer is there. `QuietInv`
adds what the request knows before, while nobody has edited: the candidates it has
passed over are not valid, so the first that serves is the newest; the campaign it is
about to read is that of a newest assignment; and it falls back only if no linked
frame can be served. After an edit `Quiet` is false until the next request, so `Edit`
preserves the rest for free.

`OvertakenOnce` needs to know what an edit that comes later would find. `View` is the
tables as the request will have seen them if no other edit comes: the candidates and
booths it has kept, everything else as it is now. `OvertakenInv` says that while at most
one edit has overtaken the request, both the tables and the view have the campaign in
what was right at some moment of the request. The property is tight: with two edits in
its guard instead of one TLC finds a campaign that was never the kiosk's.

For the reports, each property needs what the requests under way have loaded. `OpenInv` and `AnswerInv`
say that a number has left no trace before its request commits, and only that of
its endpoint before it is noted (`LoggedOnce`, `StampIsLogged`); that a request which
began after the deletion has seen it (`DeletedIsRefused`); `PlugInv`, that a plug report
that crossed no other still knows the profiles of the device. `LockInv` says that locks are
taken in one order, camera, printer, device; were every transaction
to wait, none could hold the device row (its holder waits for nobody), so none a printer,
so none a camera, and who wants a camera could go on (`NoDeadlock`).

`AloneIsExact` compares the rows with what was reported two transactions earlier.
`AloneInv` follows a request that overlaps no other through both: what it has loaded is
what is committed; once it has committed, the row and the profiles show its report; and
the middleware has loaded the connectivity that is there when it writes. A step of another
request would make it overlap, so only its own steps and the deletion matter, which leaves
these columns alone.

In the pool, a request that waits holds at most its own connection, and only in the
wait for its bookkeeping: `ConnectionsReturned` says that a Session waits for its first
connection without one, also after a commit, and that the bookkeeping has one only while
it writes. So if every connection is held by one who waits, connections and answers that
wait for their bookkeeping are the same in number. That nobody stays there is liveness.

That pairing implements its promise is one lemma per kind of step: each maps to one
step of `PairingPromise` or to a stutter. `Commit` is a `Bind`, whose freedom is that of the
unique indexes and of grants, which the SSO makes once.

*Only model-checked.* `PushAnswered`, `Reconnects`, `OnlineEnds`, `FullPoolDrains` and
`EveryRequestEnds` are liveness under fairness, which is out of the prover's reach and stays with TLC. Every
other property of a run that passes is a theorem, `RetryChangesNothing` with the two
hypotheses above. There are no recursive operators.

## Not modelled

- Commerce and the payment gateway: client libraries that no endpoint calls, so there
  is no caller whose order of calls, retries or state could be modelled.
- What the upload proxy and WhatsApp pass through, and the normalisation of addresses:
  data, no state. Their hold on connections is in `ConnectionPool`.
- The wording of conflicts: the classifier chooses a message and changes nothing.
- Token decoding: a pure function of the request; signatures are checked by the SSO.
- `GET session-limit`, `POST redeem`, password check and resource token: single reads,
  or calls that are passed on, which change nothing here.
- The profiles in `/config`, two more reads by id; paging.
- The columns of a PATCH other than the kiosk in `BulkSync`; they are in
  `SessionLifecycle`, which has no payments.
- Seeds, settings, clock, id generation.

## Plan

1. An abstract lifecycle that `SessionLifecycle` implements where no races occur, with the
   proof that it does.
2. Composition: PATCHes with all columns against bulk sync on one `sessions` table, with
   the vouchers and frames a kiosk was given by `KioskCatalogue`.
3. The conflict classifier as a pure function against a reference definition.
