--------------------------- MODULE BulkSyncProofs ---------------------------
(***************************************************************************)
(* Theorems about POST /sync/bulk for any number of kiosks, requests,      *)
(* items and pushes: type correctness first, one lemma per group of steps. *)
(***************************************************************************)
EXTENDS BulkSyncInv, TLAPS

(***************************************************************************)
(* Type correctness.                                                       *)
(***************************************************************************)

\* The kind of an item of a batch decides its type.
LEMMA ItemKinds ==
  ASSUME NEW i \in Items
  PROVE  /\ i.kind \in {"session", "payment", "voucher"}
         /\ i.kind = "session" => i \in SessionItems
         /\ i.kind = "payment" => i \in PaymentItems
         /\ i.kind = "voucher" => i \in VoucherItems
  BY DEF Items, SessionItems, PaymentItems, VoucherItems

\* The state of an idle request, and its transaction, are well formed.
LEMMA IdleType == Idle \in RequestStates /\ NoWrites \in Transactions
  BY DEF Idle, RequestStates, Reports, NoWrites, Transactions

\* Recording the result of an item leaves a well-formed request with the same
\* caller, ready for its next lookup.
LEMMA ResultType ==
  ASSUME NEW q \in RequestStates, q.todo # <<>>
  PROVE  /\ NextItem(q) \in RequestStates /\ Applied(q) \in RequestStates
         /\ Failed(q) \in RequestStates
         /\ Applied(q).pc = "lookup" /\ Applied(q).device = q.device
         /\ Failed(q).pc = "lookup" /\ Failed(q).device = q.device
         /\ Applied(q).ok = q.ok \cup {Head(q.todo)} /\ Failed(q).ok = q.ok
         /\ Head(q.todo) \in Items
  <1>1. Head(q.todo) \in Items /\ Tail(q.todo) \in Seq(Items)
    BY DEF RequestStates
  <1> QED
    BY <1>1 DEF RequestStates, NextItem, Applied, Failed

\* The rows a request sees are rows.
LEMMA VisibleType ==
  ASSUME TypeOK, NEW r \in Requests
  PROVE  /\ \A l \in LocalIds : SessionRow(r, l) \in SessionRows \cup {Null}
         /\ \A p \in PaymentIds : PaymentRow(r, p) \in PaymentRows \cup {Null}
         /\ \A v \in VoucherCodes : VoucherRow(r, v) \in VoucherRows \cup {Null}
  BY DEF TypeOK, Transactions, SessionRow, PaymentRow, VoucherRow

\* A code is allocated among the free ones.
LEMMA CodesType ==
  ASSUME NEW r, NEW c
  PROVE  AllocatedCodes(r, c) \subseteq SessionCodes
  BY DEF AllocatedCodes, FreeCodes

\* What a request wants to store for an item it does not refuse is a row.
LEMMA WantedSessionType ==
  ASSUME TypeOK, NEW r \in Requests, req[r].device \in Devices,
         NEW i \in SessionItems, ~SessionRefused(r, i),
         NEW want \in WantedSessions(r, i)
  PROVE  want \in SessionRows /\ want.code # Null
  <1> DEFINE row == SessionRow(r, i.id)
  <1>1. row \in SessionRows \cup {Null}
    BY VisibleType DEF SessionItems
  <1>2. i.state \in SessionStates /\ ServerFrame(i.frame) \in Frames \cup {Null}
        /\ i.booth \in Booths \cup {Null}
    BY DEF SessionRefused, SessionItems, ServerFrame
  <1>3. AllocatedCodes(r, i.code) \subseteq SessionCodes
    BY CodesType
  <1>c. \A c \in AllocatedCodes(r, i.code) : c # Null
    BY <1>3, NullAssumption
  <1>4. CASE row = Null
    BY <1>2, <1>3, <1>c, <1>4 DEF WantedSessions, SessionRows
  <1>5. CASE row # Null
    <2> DEFINE refreshed == [row EXCEPT !.state = i.state, !.frame = ServerFrame(i.frame),
                                        !.booth = i.booth]
    <2>1. refreshed \in SessionRows
      BY <1>1, <1>2, <1>5 DEF SessionRows
    <2>2. /\ refreshed.code = row.code
          /\ \A c \in SessionCodes : /\ [refreshed EXCEPT !.code = c] \in SessionRows
                                    /\ [refreshed EXCEPT !.code = c].code = c
      BY <1>1, <1>5, <2>1 DEF SessionRows
    <2>3. CASE row.code = Null
      <3>1. WantedSessions(r, i) =
              {[refreshed EXCEPT !.code = c] : c \in AllocatedCodes(r, i.code)}
        BY <1>5, <2>3 DEF WantedSessions
      <3> QED BY <3>1, <2>2, <1>3, <1>c
    <2>4. CASE row.code # Null
      BY <1>5, <2>1, <2>2, <2>4 DEF WantedSessions
    <2> QED BY <2>3, <2>4
  <1> QED BY <1>4, <1>5

LEMMA WantedPaymentType ==
  ASSUME TypeOK, NEW r \in Requests, req[r].device \in Devices,
         NEW i \in PaymentItems, ~PaymentRefused(r, i),
         SessionRow(r, i.session) \in SessionRows
  PROVE  WantedPayments(r, i) \subseteq PaymentRows
  <1>1. PaymentRow(r, i.id) \in PaymentRows \cup {Null}
    BY VisibleType DEF PaymentItems
  <1>2. SessionRow(r, i.session).booth \in Booths \cup {Null}
    BY DEF SessionRows
  <1>3. Canonical(i.status) \in PaymentStatuses
    BY DEF Canonical, PaymentStatuses
  <1> QED
    BY <1>1, <1>2, <1>3 DEF WantedPayments, PaymentItems, PaymentRows

LEMMA WantedVoucherType ==
  ASSUME TypeOK, NEW r \in Requests, req[r].device \in Devices,
         NEW i \in VoucherItems, ~VoucherRefused(r, i)
  PROVE  /\ VoucherRow(r, i.id) \in VoucherRows
         /\ \A want \in WantedVouchers(r, i) : want \in VoucherRows /\ want.session = i.session
  <1>1. VoucherRow(r, i.id) \in VoucherRows
    BY VisibleType DEF VoucherRefused, VoucherItems
  <1> QED
    BY <1>1 DEF WantedVouchers, VoucherRefused, VoucherRows, VoucherItems

\* A session that resolves is there, of the caller.
LEMMA ResolvedSession ==
  ASSUME NEW r \in Requests, NEW l, AppliedVisible(r), ~Unresolved(r, l)
  PROVE  SeesSession(r, l, req[r].device)
  BY DEF AppliedVisible, Unresolved, SeesSession, Owners

\* The row and the wanted row of an item that is not refused fit its kind.
LEMMA WantedType ==
  ASSUME TypeOK, NEW r \in Requests, AppliedVisible(r), req[r].device \in Devices,
         NEW i \in Items, ~Refused(r, i), NEW want \in Wanted(r, i)
  PROVE  /\ i.kind = "session" =>
              /\ Row(r, i) \in SessionRows \cup {Null}
              /\ want \in SessionRows /\ want.code # Null
         /\ i.kind = "payment" => Row(r, i) \in PaymentRows \cup {Null} /\ want \in PaymentRows
         /\ i.kind = "voucher" =>
              Row(r, i) \in VoucherRows /\ want \in VoucherRows /\ want.session = i.session
  <1>1. CASE i.kind = "session"
    <2>1. i \in SessionItems /\ ~SessionRefused(r, i) /\ want \in WantedSessions(r, i)
          /\ Row(r, i) = SessionRow(r, i.id)
      BY <1>1, ItemKinds DEF Refused, Wanted, Row
    <2> QED BY <1>1, <2>1, WantedSessionType, VisibleType DEF SessionItems
  <1>2. CASE i.kind = "payment"
    <2>1. i \in PaymentItems /\ ~PaymentRefused(r, i) /\ want \in WantedPayments(r, i)
          /\ Row(r, i) = PaymentRow(r, i.id)
      BY <1>2, ItemKinds DEF Refused, Wanted, Row
    <2>2. SessionRow(r, i.session) \in SessionRows
      BY <2>1, ResolvedSession, VisibleType DEF PaymentRefused, PaymentItems, SeesSession
    <2> QED BY <1>2, <2>1, <2>2, WantedPaymentType, VisibleType DEF PaymentItems
  <1>3. CASE i.kind = "voucher"
    <2>1. i \in VoucherItems /\ ~VoucherRefused(r, i) /\ want \in WantedVouchers(r, i)
          /\ Row(r, i) = VoucherRow(r, i.id)
      BY <1>3, ItemKinds DEF Refused, Wanted, Row
    <2> QED BY <1>3, <2>1, WantedVoucherType
  <1> QED BY <1>1, <1>2, <1>3, ItemKinds

\* The locks of a flush are keys.
LEMMA KeysType ==
  ASSUME TypeOK, NEW r \in Requests, req[r].pc = "flush"
  PROVE  /\ Item(r) \in Items /\ Item(r).id \in LocalIds \cup PaymentIds \cup VoucherCodes
         /\ Item(r).kind = "session" => SessionKeys(r) \subseteq Keys
         /\ Item(r).kind = "payment" => PaymentKeys(r) \subseteq Keys
         /\ Item(r).kind = "voucher" => VoucherKeys(r) \subseteq Keys
  <1> DEFINE want == req[r].want
  <1>1. Item(r) \in Items /\ StagedOK(req[r])
    BY DEF TypeOK, StagedOK, Item, RequestStates
  <1>2. Item(r).kind = "session" => Item(r).id \in LocalIds /\ want \in SessionRows
                                         /\ want.code # Null
    BY <1>1, ItemKinds DEF StagedOK, Item, SessionItems
  <1>3. Item(r).kind = "payment" => Item(r).id \in PaymentIds /\ want \in PaymentRows
    BY <1>1, ItemKinds DEF StagedOK, Item, PaymentItems
  <1>4. Item(r).kind = "voucher" => /\ Item(r).id \in VoucherCodes
                                    /\ want \in VoucherRows /\ want.session # Null
    BY <1>1, ItemKinds DEF StagedOK, Item, VoucherItems
  <1>5. Item(r).kind = "session" => SessionKeys(r) \subseteq Keys
    <2> SUFFICES ASSUME Item(r).kind = "session" PROVE SessionKeys(r) \subseteq Keys
      OBVIOUS
    <2>1. want.code \in SessionCodes
      BY <1>2 DEF SessionRows
    <2> QED BY <1>2, <2>1 DEF SessionKeys, Keys
  <1>6. Item(r).kind = "payment" => PaymentKeys(r) \subseteq Keys
    <2> SUFFICES ASSUME Item(r).kind = "payment" PROVE PaymentKeys(r) \subseteq Keys
      OBVIOUS
    <2>1. want.provider_ref \in ProviderRefs \cup {Null}
      BY <1>3 DEF PaymentRows
    <2> QED BY <1>3, <2>1 DEF PaymentKeys, ClaimsProvider, Keys
  <1>7. Item(r).kind = "voucher" => VoucherKeys(r) \subseteq Keys
    BY <1>4 DEF VoucherRows, VoucherKeys, Keys
  <1> QED BY <1>1, <1>2, <1>3, <1>4, <1>5, <1>6, <1>7, ItemKinds

\* A step of one request is well typed when what it writes is.
LEMMA LocalType ==
  ASSUME TypeOK, NEW r \in Requests, NEW x \in RequestStates, NEW t \in Transactions,
         x.pc # "idle" => x.device \in Devices, StagedOK(x),
         req' = [req EXCEPT ![r] = x], tx' = [tx EXCEPT ![r] = t],
         UNCHANGED <<tables, admin>>, pushes' \in 0..MaxPushes
  PROVE  TypeOK'
  <1>1. req' \in [Requests -> RequestStates] /\ tx' \in [Requests -> Transactions]
    BY DEF TypeOK
  <1>2. \A q \in Requests : (req'[q].pc # "idle" => req'[q].device \in Devices) /\ StagedOK(req'[q])
    BY DEF TypeOK
  <1> QED BY <1>1, <1>2 DEF TypeOK, tables, admin

\* The steps that look up or fail an item, or end the request, keep the types.
LEMMA RollbackType ==
  ASSUME TypeOK, NEW r \in Requests, Rollback(r)
  PROVE  TypeOK'
  <1>1. StagedOK(Idle) /\ Idle.pc = "idle"
    BY DEF StagedOK, Idle
  <1> QED BY <1>1, LocalType, IdleType DEF Rollback, TypeOK

LEMMA ResultStepType ==
  ASSUME TypeOK, NEW r \in Requests, req[r].todo # <<>>, req[r].pc # "idle",
         NEW x \in {Applied(req[r]), Failed(req[r])}, req' = [req EXCEPT ![r] = x],
         NEW t \in Transactions, tx' = [tx EXCEPT ![r] = t], UNCHANGED <<tables, admin, pushes>>
  PROVE  TypeOK'
  <1>1. req[r] \in RequestStates /\ req[r].device \in Devices
    BY DEF TypeOK
  <1>2. x \in RequestStates /\ x.pc = "lookup" /\ x.device = req[r].device
    BY <1>1, ResultType
  <1> QED BY <1>1, <1>2, LocalType DEF TypeOK, StagedOK

LEMMA ReceiveType ==
  ASSUME TypeOK, NEW r \in Requests, NEW d \in Devices, NEW p \in Payloads, Receive(r, d, p)
  PROVE  TypeOK'
  <1> DEFINE x == [Idle EXCEPT
               !.pc = IF p.report = "none" THEN "lookup" ELSE "report",
               !.device = d, !.report = p.report,
               !.todo = p.sessions \o p.payments \o p.vouchers]
  <1>1. p \in BulkSyncRequest
    BY PayloadsAssumption
  <1>2. p.sessions \o p.payments \o p.vouchers \in Seq(Items)
    <2>1. p.sessions \in Seq(Items) /\ p.payments \in Seq(Items) /\ p.vouchers \in Seq(Items)
      BY <1>1 DEF BulkSyncRequest, Items
    <2> QED BY <2>1
  <1>3. x \in RequestStates /\ x.pc # "flush" /\ x.device \in Devices
    BY <1>1, <1>2, IdleType DEF RequestStates, BulkSyncRequest, Idle
  <1>4. StagedOK(x)
    BY <1>3 DEF StagedOK
  <1>5. tx' = [tx EXCEPT ![r] = tx[r]] /\ tx[r] \in Transactions
    BY DEF Receive, TypeOK
  <1>6. pushes' \in 0..MaxPushes
    BY BoundsAssumption DEF Receive, TypeOK
  <1>7. req' = [req EXCEPT ![r] = x] /\ UNCHANGED <<tables, admin>>
    BY DEF Receive
  <1> QED BY <1>3, <1>4, <1>5, <1>6, <1>7, LocalType

LEMMA ApplyReportType ==
  ASSUME TypeOK, NEW r \in Requests, ApplyReport(r)
  PROVE  TypeOK'
  <1> DEFINE x == [req[r] EXCEPT !.pc = "lookup"]
             t == [tx[r] EXCEPT !.held = @ \cup {DeviceKey(r)}]
  <1>1. req[r] \in RequestStates /\ req[r].device \in Devices /\ tx[r] \in Transactions
    BY DEF TypeOK, ApplyReport
  <1>2. x \in RequestStates /\ x.pc # "flush" /\ x.device \in Devices
    BY <1>1 DEF RequestStates
  <1>3. t \in Transactions
    <2>1. DeviceKey(r) \in Keys
      BY <1>1 DEF DeviceKey, Keys
    <2> QED BY <1>1, <2>1 DEF Transactions
  <1>4. StagedOK(x)
    BY <1>2 DEF StagedOK
  <1>5. req' = [req EXCEPT ![r] = x] /\ tx' = [tx EXCEPT ![r] = t]
    BY DEF ApplyReport, TypeOK
  <1> QED BY <1>2, <1>3, <1>4, <1>5, LocalType DEF ApplyReport, TypeOK

LEMMA StageType ==
  ASSUME TypeOK, NEW r \in Requests, AppliedVisible(r), StageItem(r)
  PROVE  TypeOK'
  <1>1. PICK want \in Wanted(r, Item(r)) :
          req' = [req EXCEPT ![r].pc = "flush", ![r].seen = Row(r, Item(r)), ![r].want = want]
    BY DEF StageItem
  <1> DEFINE x == [req[r] EXCEPT !.pc = "flush", !.seen = Row(r, Item(r)), !.want = want]
  <1>2. req[r] \in RequestStates /\ req[r].device \in Devices /\ tx[r] \in Transactions
        /\ req[r].todo # <<>> /\ Item(r) \in Items
    BY DEF TypeOK, StageItem, LooksUp, Item, RequestStates
  <1>3. /\ Item(r).kind = "session" =>
             /\ Row(r, Item(r)) \in SessionRows \cup {Null}
             /\ want \in SessionRows /\ want.code # Null
        /\ Item(r).kind = "payment" =>
             Row(r, Item(r)) \in PaymentRows \cup {Null} /\ want \in PaymentRows
        /\ Item(r).kind = "voucher" =>
             Row(r, Item(r)) \in VoucherRows /\ want \in VoucherRows /\ want.session # Null
    <2>1. Item(r).kind = "voucher" => Item(r).session # Null
      BY <1>2, ItemKinds, NullAssumption DEF VoucherItems
    <2> QED BY <1>2, <2>1, WantedType DEF StageItem
  <1>4. Row(r, Item(r)) \in Rows \cup {Null} /\ want \in Rows \cup {Null}
    BY <1>2, <1>3, ItemKinds DEF Rows
  <1>5. x \in RequestStates /\ x.device = req[r].device
    BY <1>2, <1>4 DEF RequestStates
  <1>6. StagedOK(x)
    BY <1>2, <1>3 DEF StagedOK, Item, RequestStates
  <1>7. req' = [req EXCEPT ![r] = x] /\ tx' = [tx EXCEPT ![r] = tx[r]]
    BY <1>1 DEF StageItem, TypeOK
  <1> QED BY <1>2, <1>5, <1>6, <1>7, LocalType DEF StageItem, TypeOK

\* A flushed row is a row.
LEMMA FlushedType ==
  ASSUME TypeOK, NEW r \in Requests, req[r].pc = "flush", ~Conflict(r), StagedOwned(r)
  PROVE  /\ Item(r).kind = "session" => FlushedSession(r) \in SessionRows
         /\ Item(r).kind = "payment" => FlushedPayment(r) \in PaymentRows
         /\ Item(r).kind = "voucher" => FlushedVoucher(r) \in VoucherRows
  <1> DEFINE seen == req[r].seen
             want == req[r].want
  <1>1. Item(r) \in Items /\ StagedOK(req[r])
    BY KeysType DEF TypeOK
  <1>2. ASSUME Item(r).kind = "session" PROVE FlushedSession(r) \in SessionRows
    <2> DEFINE row == SessionRow(r, Item(r).id)
    <2>1. want \in SessionRows /\ row \in SessionRows \cup {Null}
      BY <1>1, <1>2, ItemKinds, VisibleType DEF StagedOK, SessionItems, Item
    <2>2. CASE seen = Null
      BY <2>1, <2>2 DEF FlushedSession, SessionRows
    <2>3. CASE seen # Null
      <3>1. row \in SessionRows
        BY <1>2, <2>1, <2>3 DEF StagedOwned, SeesSession
      <3> QED BY <2>1, <2>3, <3>1 DEF FlushedSession, Newer, SessionRows
    <2> QED BY <2>2, <2>3
  <1>3. ASSUME Item(r).kind = "payment" PROVE FlushedPayment(r) \in PaymentRows
    <2> DEFINE row == PaymentRow(r, Item(r).id)
    <2>1. want \in PaymentRows /\ row \in PaymentRows \cup {Null}
      BY <1>1, <1>3, ItemKinds, VisibleType DEF StagedOK, PaymentItems, Item
    <2>2. CASE seen = Null
      BY <2>1, <2>2 DEF FlushedPayment
    <2>3. CASE seen # Null
      <3>1. row \in PaymentRows
        BY <1>3, <2>1, <2>3 DEF StagedOwned
      <3> QED BY <2>1, <2>3, <3>1 DEF FlushedPayment, Newer, PaymentRows
    <2> QED BY <2>2, <2>3
  <1>4. ASSUME Item(r).kind = "voucher" PROVE FlushedVoucher(r) \in VoucherRows
    <2> DEFINE row == VoucherRow(r, Item(r).id)
    <2>1. want \in VoucherRows /\ row \in VoucherRows \cup {Null} /\ Item(r).id \in VoucherCodes
      BY <1>1, <1>4, ItemKinds, VisibleType DEF StagedOK, VoucherItems, Item
    <2>2. row \in VoucherRows
      BY <1>4, <2>1 DEF StagedOwned, VoucherRow
    <2> QED BY <2>1, <2>2 DEF FlushedVoucher, Newer, VoucherRows
  <1> QED BY <1>2, <1>3, <1>4

LEMMA FlushType ==
  ASSUME TypeOK, NEW r \in Requests, StagedOwned(r),
         FlushSession(r) \/ FlushPayment(r) \/ FlushVoucher(r)
  PROVE  TypeOK'
  <1>1. /\ req[r].pc = "flush" /\ ~Conflict(r) /\ UNCHANGED <<tables, admin, pushes>>
        /\ req' = [req EXCEPT ![r] = Applied(req[r])]
    BY DEF FlushSession, FlushPayment, FlushVoucher, Flushes
  <1>2. req[r].todo # <<>> /\ tx[r] \in Transactions /\ Item(r) \in Items
    BY <1>1, KeysType DEF TypeOK, StagedOK
  <1>3. PICK t \in Transactions : tx' = [tx EXCEPT ![r] = t]
    <2>1. CASE FlushSession(r)
      <3> DEFINE t == [tx[r] EXCEPT !.sessions[Item(r).id] = FlushedSession(r),
                                    !.held = @ \cup SessionKeys(r)]
      <3>1. FlushedSession(r) \in SessionRows /\ SessionKeys(r) \subseteq Keys
        BY <1>1, <2>1, FlushedType, KeysType DEF FlushSession, Flushes
      <3>2. t \in Transactions
        BY <1>2, <3>1 DEF Transactions
      <3>3. tx' = [tx EXCEPT ![r] = t]
        BY <2>1 DEF FlushSession, TypeOK, Transactions
      <3> QED BY <3>2, <3>3
    <2>2. CASE FlushPayment(r)
      <3> DEFINE t == [tx[r] EXCEPT !.payments[Item(r).id] = FlushedPayment(r),
                                    !.held = @ \cup PaymentKeys(r)]
      <3>1. FlushedPayment(r) \in PaymentRows /\ PaymentKeys(r) \subseteq Keys
        BY <1>1, <2>2, FlushedType, KeysType DEF FlushPayment, Flushes
      <3>2. t \in Transactions
        BY <1>2, <3>1 DEF Transactions
      <3>3. tx' = [tx EXCEPT ![r] = t]
        BY <2>2 DEF FlushPayment, TypeOK, Transactions
      <3> QED BY <3>2, <3>3
    <2>3. CASE FlushVoucher(r)
      <3> DEFINE t == [tx[r] EXCEPT !.vouchers[Item(r).id] = FlushedVoucher(r),
                                    !.held = @ \cup VoucherKeys(r)]
      <3>1. FlushedVoucher(r) \in VoucherRows /\ VoucherKeys(r) \subseteq Keys
        BY <1>1, <2>3, FlushedType, KeysType DEF FlushVoucher, Flushes
      <3>2. t \in Transactions
        BY <1>2, <3>1 DEF Transactions
      <3>3. tx' = [tx EXCEPT ![r] = t]
        BY <2>3 DEF FlushVoucher, TypeOK, Transactions
      <3> QED BY <3>2, <3>3
    <2> QED BY <2>1, <2>2, <2>3
  <1> QED BY <1>1, <1>2, <1>3, ResultStepType

\* A request that deadlocked, or looks up or flushes, has not ended.
LEMMA VictimWaits ==
  ASSUME TypeOK, NEW r \in Requests, Deadlocked(r)
  PROVE  req[r].pc # "idle"
  <1>1. Needs(r) # {}
    BY DEF Deadlocked, WaitsFor
  <1> QED BY <1>1 DEF Needs, AtCommit

\* The item of this step failed or was kept, and the transaction stays as it is.
ResultStep(r) ==
  /\ req[r].todo # <<>> /\ req[r].pc # "idle"
  /\ req' = [req EXCEPT ![r] = Applied(req[r])] \/ req' = [req EXCEPT ![r] = Failed(req[r])]
  /\ UNCHANGED <<tables, admin, tx, pushes>>

LEMMA ResultSteps ==
  ASSUME TypeOK, NEW r \in Requests,
         \/ RefuseItem(r) \/ KeepItem(r) \/ IntegrityError(r)
         \/ DeadlockVictim(r) /\ req[r].pc = "flush"
  PROVE  ResultStep(r)
  <1>1. CASE req[r].pc = "flush"
    <2>1. req[r].todo # <<>>
      BY <1>1 DEF TypeOK, StagedOK
    <2> QED BY <1>1, <2>1
          DEF ResultStep, RefuseItem, KeepItem, LooksUp, IntegrityError, DeadlockVictim
  <1>2. CASE req[r].pc # "flush"
    BY <1>2 DEF ResultStep, RefuseItem, KeepItem, LooksUp, IntegrityError
  <1> QED BY <1>1, <1>2

LEMMA CommitType ==
  ASSUME TypeOK, NEW r \in Requests, Commit(r)
  PROVE  TypeOK'
  <1>1. /\ sessions' \in [LocalIds -> SessionRows \cup {Null}]
        /\ payments' \in [PaymentIds -> PaymentRows \cup {Null}]
        /\ vouchers' \in [VoucherCodes -> VoucherRows \cup {Null}]
    BY VisibleType DEF Commit
  <1>2. req[r] \in RequestStates /\ req[r].device \in Devices
    BY DEF TypeOK, Commit, AtCommit
  <1>3. devices' \in [Devices -> DeviceRows]
    <2>1. devices[req[r].device].connectivity \in {"connect", "online"}
      BY <1>2 DEF TypeOK, DeviceRows
    <2> QED BY <1>2, <2>1 DEF TypeOK, Commit, DeviceRows
  <1>4. syncLog' \subseteq DeviceSyncLogs
    <2>1. LogStatus(req[r].ok, req[r].failed) \in {"success", "partial", "failed"}
      BY DEF LogStatus
    <2> QED BY <1>2, <2>1 DEF TypeOK, Commit, DeviceSyncLogs, RequestStates
  <1>5. req' \in [Requests -> RequestStates] /\ tx' \in [Requests -> Transactions]
    BY IdleType DEF TypeOK, Commit
  <1>6. \A q \in Requests : (req'[q].pc # "idle" => req'[q].device \in Devices) /\ StagedOK(req'[q])
    BY DEF TypeOK, Commit, Idle, StagedOK
  <1> QED BY <1>1, <1>3, <1>4, <1>5, <1>6 DEF TypeOK, Commit, admin

LEMMA AdminType ==
  ASSUME TypeOK, Admin
  PROVE  TypeOK'
  <1>1. edits' \in 0..MaxEdits /\ UNCHANGED <<devices, syncLog, req, tx, pushes>>
    <2>1. Edit
      BY DEF Admin, RetireRef, ExpireVoucher, SwapDevice, EditVoucher, Refund
    <2>2. edits \in 0..MaxEdits
      BY DEF TypeOK
    <2> QED BY <2>1, <2>2, BoundsAssumption DEF Edit
  <1>2. liveRefs' \subseteq Refs /\ overdue' \subseteq VoucherCodes
    BY DEF TypeOK, Admin, RetireRef, ExpireVoucher, SwapDevice, EditVoucher, Refund
  <1>3. vouchers' \in [VoucherCodes -> VoucherRows \cup {Null}]
    <2>1. CASE \E v \in VoucherCodes : EditVoucher(v)
      <3>1. PICK v \in VoucherCodes : EditVoucher(v)
        BY <2>1
      <3>2. vouchers[v] \in VoucherRows
        BY <3>1 DEF TypeOK, EditVoucher
      <3>3. [vouchers[v] EXCEPT !.status = "voided"] \in VoucherRows
            /\ [vouchers[v] EXCEPT !.deleted = TRUE] \in VoucherRows
        BY <3>2 DEF VoucherRows
      <3> QED BY <3>1, <3>3 DEF TypeOK, EditVoucher
    <2>2. CASE UNCHANGED vouchers
      BY <2>2 DEF TypeOK
    <2> QED BY <2>1, <2>2 DEF Admin, RetireRef, ExpireVoucher, SwapDevice, Refund
  <1>4. payments' \in [PaymentIds -> PaymentRows \cup {Null}]
    <2>1. CASE \E p \in PaymentIds : Refund(p)
      <3>1. PICK p \in PaymentIds : Refund(p)
        BY <2>1
      <3>2. payments[p] \in PaymentRows
        BY <3>1 DEF TypeOK, Refund
      <3>3. [payments[p] EXCEPT !.status = "refunded"] \in PaymentRows
        BY <3>2 DEF PaymentRows, PaymentStatuses
      <3> QED BY <3>1, <3>3 DEF TypeOK, Refund
    <2>2. CASE UNCHANGED payments
      BY <2>2 DEF TypeOK
    <2> QED BY <2>1, <2>2 DEF Admin, RetireRef, ExpireVoucher, SwapDevice, EditVoucher
  <1>5. /\ sessions' \in [LocalIds -> SessionRows \cup {Null}]
        /\ former' \in [LocalIds -> SUBSET (Devices \cup {Null})]
    <2>1. CASE \E l \in LocalIds, d \in Devices \cup {Null} : SwapDevice(l, d)
      <3>1. PICK l \in LocalIds, d \in Devices \cup {Null} : SwapDevice(l, d)
        BY <2>1
      <3>2. sessions[l] \in SessionRows
        BY <3>1 DEF TypeOK, SwapDevice
      <3>3. [sessions[l] EXCEPT !.device_id = d] \in SessionRows
        BY <3>2 DEF SessionRows
      <3>4. sessions[l].device_id \in Devices \cup {Null}
        BY <3>2 DEF SessionRows
      <3>5. /\ sessions' = [sessions EXCEPT ![l] = [sessions[l] EXCEPT !.device_id = d]]
            /\ former' = [former EXCEPT ![l] = former[l] \cup {sessions[l].device_id}]
        BY <3>1 DEF SwapDevice
      <3> QED BY <3>3, <3>4, <3>5 DEF TypeOK
    <2>2. CASE UNCHANGED <<sessions, former>>
      BY <2>2 DEF TypeOK
    <2> QED BY <2>1, <2>2 DEF Admin, RetireRef, ExpireVoucher, EditVoucher, Refund
  <1> QED BY <1>1, <1>2, <1>3, <1>4, <1>5 DEF TypeOK

\* Every step keeps the types, given what the requests know.
LEMMA TypeStep ==
  ASSUME TypeOK, \A r \in Requests : RequestInv(r), [Next]_vars
  PROVE  TypeOK'
  <1>1. ASSUME NEW r \in Requests, NEW d \in Devices, NEW p \in Payloads, Receive(r, d, p)
        PROVE  TypeOK'
    BY <1>1, ReceiveType
  <1>2. ASSUME NEW r \in Requests, Progress(r)
        PROVE  TypeOK'
    <2>1. CASE ResultStep(r)
      <3>1. tx[r] \in Transactions /\ tx' = [tx EXCEPT ![r] = tx[r]]
        BY <2>1 DEF TypeOK, ResultStep
      <3> QED BY <2>1, <3>1, ResultStepType DEF ResultStep
    <2>2. CASE Rollback(r)
      BY <2>2, RollbackType
    <2>3. CASE ApplyReport(r)
      BY <2>3, ApplyReportType
    <2>4. CASE StageItem(r)
      BY <2>4, StageType DEF RequestInv
    <2>5. CASE FlushSession(r) \/ FlushPayment(r) \/ FlushVoucher(r)
      BY <2>5, FlushType DEF RequestInv
    <2>6. CASE Commit(r)
      BY <2>6, CommitType
    <2> QED
      BY <1>2, <2>1, <2>2, <2>3, <2>4, <2>5, <2>6, ResultSteps
         DEF Progress, RejectReport, DeadlockVictim
  <1>3. ASSUME NEW r \in Requests, Crash(r)
        PROVE  TypeOK'
    BY <1>3, RollbackType DEF Crash
  <1>4. CASE Admin
    BY <1>4, AdminType
  <1>5. CASE UNCHANGED vars
    <2>1. UNCHANGED <<sessions, payments, vouchers, devices, syncLog, liveRefs, overdue,
                      former, req, tx, pushes, edits>>
      BY <1>5 DEF vars, tables, admin
    <2> QED BY <2>1 DEF TypeOK, StagedOK
  <1> QED BY <1>1, <1>2, <1>3, <1>4, <1>5 DEF Next

-----------------------------------------------------------------------------
(***************************************************************************)
(* What the steps of others leave of a request's knowledge.                *)
(***************************************************************************)

\* The committed tables change without taking anything away that request q may
\* have seen, and not where q has an uncommitted insert.
Kept(q) ==
  /\ req'[q] = req[q] /\ tx'[q] = tx[q]
  /\ \A l \in LocalIds :
       /\ former[l] \subseteq former'[l]
       /\ sessions[l] # Null =>
            sessions'[l] # Null /\ Owners(l, sessions[l]) \subseteq Owners(l, sessions[l])'
       /\ tx[q].sessions[l] # Null =>
            /\ sessions[l] = Null => sessions'[l] = Null
            /\ sessions[l] # Null => sessions'[l].device_id = sessions[l].device_id
  /\ \A p \in PaymentIds :
       /\ payments[p] # Null =>
            payments'[p] # Null /\ payments'[p].device_id = payments[p].device_id
       /\ (tx[q].payments[p] # Null /\ payments[p] = Null) => payments'[p] = Null
  /\ \A v \in VoucherCodes :
       /\ vouchers[v] # Null => vouchers'[v] # Null
       /\ (vouchers[v] # Null /\ vouchers[v].status = "used") => vouchers'[v].status = "used"

\* What q sees it goes on seeing.
LEMMA StillSees ==
  ASSUME NEW q \in Requests, Kept(q)
  PROVE  /\ \A l \in LocalIds, d \in Devices \cup {Null} :
              SeesSession(q, l, d) => SeesSession(q, l, d)'
         /\ \A p \in PaymentIds : PaymentRow(q, p) # Null =>
              PaymentRow(q, p)' # Null /\ PaymentRow(q, p)'.device_id = PaymentRow(q, p).device_id
         /\ \A v \in VoucherCodes : (VoucherRow(q, v) # Null /\ VoucherRow(q, v).status = "used") =>
              VoucherRow(q, v)' # Null /\ VoucherRow(q, v)'.status = "used"
  BY DEF Kept, SeesSession, SessionRow, PaymentRow, VoucherRow, Owners

\* A request that neither moves nor loses anything keeps its invariant.
LEMMA KeptInv ==
  ASSUME TypeOK, NEW q \in Requests, Kept(q), RequestInv(q)
  PROVE  RequestInv(q)'
  <1> DEFINE d == req[q].device
  <1>1. /\ d \in Devices \cup {Null} /\ tx[q] \in Transactions
        /\ req'[q] = req[q] /\ tx'[q] = tx[q]
    BY DEF TypeOK, RequestStates, Kept
  <1>2. WritesOwned(q)'
    <2>1. ASSUME NEW l \in LocalIds, tx[q].sessions[l] # Null
          PROVE  /\ d \in Owners(l, tx[q].sessions[l])'
                 /\ sessions'[l] # Null => tx[q].sessions[l].device_id = sessions'[l].device_id
      BY <1>1, <2>1 DEF Kept, RequestInv, WritesOwned, Owners
    <2>2. ASSUME NEW p \in PaymentIds, tx[q].payments[p] # Null
          PROVE  /\ tx[q].payments[p].device_id = d
                 /\ payments'[p] # Null => payments'[p].device_id = d
                 /\ SeesSession(q, tx[q].payments[p].session, d)'
      <3>1. tx[q].payments[p].session \in LocalIds
        BY <1>1, <2>2 DEF Transactions, PaymentRows
      <3> QED BY <1>1, <2>2, <3>1, StillSees DEF Kept, RequestInv, WritesOwned
    <2>3. ASSUME NEW v \in VoucherCodes, tx[q].vouchers[v] # Null
          PROVE  /\ vouchers'[v] # Null
                 /\ tx[q].vouchers[v].status = "used"
                 /\ tx[q].vouchers[v].device_id = d
                 /\ BoundVoucher(v, tx[q].vouchers[v])
                 /\ SeesSession(q, tx[q].vouchers[v].session, d)'
      <3>1. /\ vouchers[v] # Null /\ tx[q].vouchers[v].status = "used"
            /\ tx[q].vouchers[v].device_id = d /\ BoundVoucher(v, tx[q].vouchers[v])
            /\ SeesSession(q, tx[q].vouchers[v].session, d)
        BY <2>3 DEF RequestInv, WritesOwned
      <3>2. tx[q].vouchers[v].session \in LocalIds \cup {Null}
        BY <1>1, <2>3 DEF Transactions, VoucherRows
      <3>3. tx[q].vouchers[v].session \in LocalIds
        BY <3>1, <3>2 DEF BoundVoucher
      <3> QED BY <1>1, <3>1, <3>3, StillSees DEF Kept
    <2> QED BY <1>1, <2>1, <2>2, <2>3 DEF WritesOwned, BoundVoucher
  <1>3. StagedOwned(q)'
    <2> SUFFICES ASSUME req[q].pc = "flush"
                 PROVE  StagedOwned(q)'
      BY <1>1 DEF StagedOwned
    <2> DEFINE i == Item(q)
               want == req[q].want
               seen == req[q].seen
    <2>1. i \in Items /\ StagedOK(req[q]) /\ Item(q)' = i /\ StagedOwned(q)
      BY <1>1, KeysType DEF TypeOK, Item, RequestInv
    <2>2. ASSUME i.kind = "session"
          PROVE  want.device_id = d /\ (seen # Null => SeesSession(q, i.id, d)')
      BY <1>1, <2>1, <2>2, StillSees, ItemKinds DEF StagedOwned, SessionItems
    <2>3. ASSUME i.kind = "payment"
          PROVE  /\ want.device_id = d
                 /\ SeesSession(q, want.session, d)'
                 /\ seen # Null => PaymentRow(q, i.id)' # Null /\ PaymentRow(q, i.id)'.device_id = d
      <3>1. want.session \in LocalIds /\ i.id \in PaymentIds
        BY <2>1, <2>3, ItemKinds DEF StagedOK, Item, PaymentRows, PaymentItems
      <3> QED BY <1>1, <2>1, <2>3, <3>1, StillSees DEF StagedOwned
    <2>4. ASSUME i.kind = "voucher"
          PROVE  /\ vouchers'[i.id] # Null
                 /\ seen.status = "available" /\ BoundVoucher(i.id, seen)
                 /\ want.status = "used" /\ want.device_id = d
                 /\ seen.device_id \in {Null, d}
                 /\ SeesSession(q, want.session, d)'
      <3>1. want.session \in LocalIds /\ i.id \in VoucherCodes
        BY <2>1, <2>4, ItemKinds DEF StagedOK, Item, VoucherRows, VoucherItems
      <3> QED BY <1>1, <2>1, <2>4, <3>1, StillSees DEF StagedOwned, Kept
    <2> QED BY <1>1, <2>1, <2>2, <2>3, <2>4 DEF StagedOwned, BoundVoucher
  <1>4. AppliedVisible(q)'
    <2>1. ASSUME NEW i \in req[q].ok
          PROVE  /\ i.kind = "session" => SeesSession(q, i.id, d)'
                 /\ i.kind = "payment" =>
                      PaymentRow(q, i.id)' # Null /\ PaymentRow(q, i.id)'.device_id = d
                 /\ i.kind = "voucher" =>
                      VoucherRow(q, i.id)' # Null /\ VoucherRow(q, i.id)'.status = "used"
      <3>1. i \in Items
        BY DEF TypeOK, RequestStates
      <3>2. /\ i.kind = "session" => i.id \in LocalIds
            /\ i.kind = "payment" => i.id \in PaymentIds
            /\ i.kind = "voucher" => i.id \in VoucherCodes
        BY <3>1, ItemKinds DEF SessionItems, PaymentItems, VoucherItems
      <3> QED BY <1>1, <3>2, StillSees DEF RequestInv, AppliedVisible
    <2> QED BY <1>1, <2>1 DEF AppliedVisible
  <1> QED BY <1>2, <1>3, <1>4 DEF RequestInv

\* A step that leaves the committed tables alone takes nothing away.
LEMMA UnchangedTablesKeep ==
  ASSUME NEW q, UNCHANGED <<tables, former>>, req'[q] = req[q], tx'[q] = tx[q]
  PROVE  Kept(q)
  BY DEF Kept, tables, Owners

\* A swap adds an owner to a session, and none that a push has written is swapped.
LEMMA SwapKeeps ==
  ASSUME TypeOK, Admin, NEW l \in LocalIds
  PROVE  /\ former[l] \subseteq former'[l]
         /\ sessions[l] = Null => sessions'[l] = Null
         /\ sessions[l] # Null =>
              sessions'[l] # Null /\ Owners(l, sessions[l]) \subseteq Owners(l, sessions[l])'
         /\ ~Unlocked(<<"session", l>>) => sessions'[l] = sessions[l]
  <1>1. CASE \E m \in LocalIds, d \in Devices \cup {Null} : SwapDevice(m, d)
    <2>1. PICK m \in LocalIds, d \in Devices \cup {Null} : SwapDevice(m, d)
      BY <1>1
    <2>2. sessions[m] \in SessionRows
      BY <2>1 DEF TypeOK, SwapDevice
    <2>3. [sessions[m] EXCEPT !.device_id = d] \in SessionRows
      BY <2>2 DEF SessionRows
    <2>4. sessions' = [sessions EXCEPT ![m] = [sessions[m] EXCEPT !.device_id = d]]
          /\ former' = [former EXCEPT ![m] = former[m] \cup {sessions[m].device_id}]
      BY <2>1 DEF SwapDevice
    <2>5. sessions[m] # Null /\ [sessions[m] EXCEPT !.device_id = d] # Null
      BY <2>2, <2>3, NullAssumption
    <2>6. CASE l = m
      BY <2>1, <2>4, <2>5, <2>6 DEF Owners, TypeOK, SwapDevice
    <2>7. CASE l # m
      BY <2>4, <2>7 DEF Owners, TypeOK
    <2> QED BY <2>6, <2>7
  <1>2. CASE UNCHANGED <<sessions, former>>
    BY <1>2 DEF Owners
  <1> QED BY <1>1, <1>2 DEF Admin, RetireRef, ExpireVoucher, EditVoucher, Refund

\* The edits of others take nothing away.
LEMMA AdminKeeps ==
  ASSUME TypeOK, LocksInv, NEW q \in Requests, Admin
  PROVE  Kept(q)
  <1>1. /\ UNCHANGED <<req, tx>>
        /\ \A l \in LocalIds : tx[q].sessions[l] # Null => ~Unlocked(<<"session", l>>)
    BY DEF Admin, RetireRef, ExpireVoucher, SwapDevice, EditVoucher, Refund, Edit, LocksInv,
           Unlocked
  <1>2. \A p \in PaymentIds :
          /\ payments[p] # Null =>
               payments'[p] # Null /\ payments'[p].device_id = payments[p].device_id
          /\ payments[p] = Null => payments'[p] = Null
    <2>1. CASE \E p \in PaymentIds : Refund(p)
      <3>1. PICK p \in PaymentIds : Refund(p)
        BY <2>1
      <3>2. payments[p] \in PaymentRows
        BY <3>1 DEF TypeOK, Refund
      <3>3. /\ [payments[p] EXCEPT !.status = "refunded"] # Null
            /\ [payments[p] EXCEPT !.status = "refunded"].device_id = payments[p].device_id
        <4>1. [payments[p] EXCEPT !.status = "refunded"] \in PaymentRows
          BY <3>2 DEF PaymentRows, PaymentStatuses
        <4>2. [payments[p] EXCEPT !.status = "refunded"].device_id = payments[p].device_id
          BY <3>2 DEF PaymentRows
        <4> QED BY <4>1, <4>2, NullAssumption
      <3>4. payments' = [payments EXCEPT ![p] = [payments[p] EXCEPT !.status = "refunded"]]
        BY <3>1 DEF Refund
      <3> QED BY <3>1, <3>3, <3>4 DEF TypeOK, Refund
    <2>2. CASE UNCHANGED payments
      BY <2>2
    <2> QED BY <2>1, <2>2 DEF Admin, RetireRef, ExpireVoucher, SwapDevice, EditVoucher
  <1>3. \A v \in VoucherCodes :
          /\ vouchers[v] # Null => vouchers'[v] # Null
          /\ (vouchers[v] # Null /\ vouchers[v].status = "used") => vouchers'[v].status = "used"
    <2>1. CASE \E v \in VoucherCodes : EditVoucher(v)
      <3>1. PICK v \in VoucherCodes : EditVoucher(v)
        BY <2>1
      <3>2. vouchers[v] \in VoucherRows
        BY <3>1 DEF TypeOK, EditVoucher
      <3>3. [vouchers[v] EXCEPT !.status = "voided"] # Null
            /\ [vouchers[v] EXCEPT !.deleted = TRUE] # Null
            /\ [vouchers[v] EXCEPT !.deleted = TRUE].status = vouchers[v].status
        BY <3>2, NullAssumption DEF VoucherRows
      <3> QED BY <3>1, <3>3 DEF TypeOK, EditVoucher
    <2>2. CASE UNCHANGED vouchers
      BY <2>2
    <2> QED BY <2>1, <2>2 DEF Admin, RetireRef, ExpireVoucher, SwapDevice, Refund
  <1> QED BY <1>1, <1>2, <1>3, SwapKeeps DEF Kept

\* A commit takes nothing away from another request: it replaces rows of its
\* own kiosk, and none that the other has written.
LEMMA CommitKeeps ==
  ASSUME TypeOK, LocksInv, NEW r \in Requests, RequestInv(r), Commit(r),
         NEW q \in Requests, q # r
  PROVE  Kept(q)
  <1>1. req'[q] = req[q] /\ tx'[q] = tx[q]
    BY DEF Commit, TypeOK
  <1>2. ASSUME NEW l \in LocalIds
        PROVE  /\ former'[l] = former[l]
               /\ sessions[l] # Null =>
                    sessions'[l] # Null /\ sessions'[l].device_id = sessions[l].device_id
               /\ (tx[q].sessions[l] # Null /\ sessions[l] = Null) => sessions'[l] = Null
    <2>1. CASE tx[r].sessions[l] = Null
      BY <2>1 DEF Commit, SessionRow, admin
    <2>2. CASE tx[r].sessions[l] # Null
      <3>1. sessions'[l] = tx[r].sessions[l] /\ former' = former
        BY <2>2 DEF Commit, SessionRow, admin
      <3>2. sessions[l] # Null => tx[r].sessions[l].device_id = sessions[l].device_id
        BY <2>2 DEF RequestInv, WritesOwned
      <3>3. tx[q].sessions[l] = Null
        <4>1. <<"session", l>> \in tx[r].held
          BY <2>2 DEF LocksInv
        <4>2. tx[q].held \cap tx[r].held = {}
          BY DEF LocksInv
        <4>3. tx[q].sessions[l] # Null => <<"session", l>> \in tx[q].held
          BY DEF LocksInv
        <4> QED BY <4>1, <4>2, <4>3
      <3> QED BY <2>2, <3>1, <3>2, <3>3
    <2> QED BY <2>1, <2>2
  <1>3. ASSUME NEW p \in PaymentIds
        PROVE  /\ payments[p] # Null =>
                    payments'[p] # Null /\ payments'[p].device_id = payments[p].device_id
               /\ (tx[q].payments[p] # Null /\ payments[p] = Null) => payments'[p] = Null
    <2>1. CASE tx[r].payments[p] = Null
      BY <2>1 DEF Commit, PaymentRow
    <2>2. CASE tx[r].payments[p] # Null
      <3>1. payments'[p] = tx[r].payments[p]
        BY <2>2 DEF Commit, PaymentRow
      <3>2. /\ tx[r].payments[p].device_id = req[r].device
            /\ payments[p] # Null => payments[p].device_id = req[r].device
        BY <2>2 DEF RequestInv, WritesOwned
      <3>3. tx[q].payments[p] = Null
        <4>1. <<"payment", p>> \in tx[r].held
          BY <2>2 DEF LocksInv
        <4>2. tx[q].held \cap tx[r].held = {}
          BY DEF LocksInv
        <4>3. tx[q].payments[p] # Null => <<"payment", p>> \in tx[q].held
          BY DEF LocksInv
        <4> QED BY <4>1, <4>2, <4>3
      <3> QED BY <2>2, <3>1, <3>2, <3>3
    <2> QED BY <2>1, <2>2
  <1>4. ASSUME NEW v \in VoucherCodes
        PROVE  /\ vouchers[v] # Null => vouchers'[v] # Null
               /\ (vouchers[v] # Null /\ vouchers[v].status = "used") => vouchers'[v].status = "used"
    BY DEF Commit, VoucherRow, RequestInv, WritesOwned
  <1> QED BY <1>1, <1>2, <1>3, <1>4 DEF Kept, Owners

-----------------------------------------------------------------------------
(***************************************************************************)
(* The committed tables.                                                   *)
(***************************************************************************)

\* A commit takes no session from a kiosk, and publishes those its caller sees.
LEMMA CommitSees ==
  ASSUME NEW r \in Requests, RequestInv(r), Commit(r)
  PROVE  /\ \A l \in LocalIds : \A k : HasSession(l, k) => HasSession(l, k)'
         /\ \A l \in LocalIds : \A k : SeesSession(r, l, k) => HasSession(l, k)'
  <1>0. /\ former' = former
        /\ \A l \in LocalIds : sessions'[l] = SessionRow(r, l)
    BY DEF Commit, admin
  <1>1. \A l \in LocalIds : \A k : HasSession(l, k) => HasSession(l, k)'
    <2> SUFFICES ASSUME NEW l \in LocalIds, NEW k, HasSession(l, k)
                 PROVE  sessions'[l] # Null /\ k \in former'[l] \cup {sessions'[l].device_id}
      BY DEF HasSession, Owners
    <2>1. CASE tx[r].sessions[l] = Null
      BY <1>0, <2>1 DEF HasSession, Owners, SessionRow
    <2>2. CASE tx[r].sessions[l] # Null
      <3>1. sessions[l] # Null /\ tx[r].sessions[l].device_id = sessions[l].device_id
        BY <2>2 DEF HasSession, RequestInv, WritesOwned
      <3> QED BY <1>0, <2>2, <3>1 DEF HasSession, Owners, SessionRow
    <2> QED BY <2>1, <2>2
  <1>2. \A l \in LocalIds : \A k : SeesSession(r, l, k) => HasSession(l, k)'
    <2> SUFFICES ASSUME NEW l \in LocalIds, NEW k, SeesSession(r, l, k)
                 PROVE  sessions'[l] # Null /\ k \in former'[l] \cup {sessions'[l].device_id}
      BY DEF HasSession, Owners
    <2> QED BY <1>0 DEF SeesSession, Owners
  <1> QED BY <1>1, <1>2

\* A commit publishes consistent rows, and what it acknowledges with them.
LEMMA CommitTables ==
  ASSUME TypeOK, TablesInv, NEW r \in Requests, RequestInv(r), Commit(r)
  PROVE  TablesInv'
  <1> DEFINE d == req[r].device
  <1>0. /\ former' = former
        /\ \A l \in LocalIds : sessions'[l] = SessionRow(r, l)
        /\ \A p \in PaymentIds : payments'[p] = PaymentRow(r, p)
    BY DEF Commit, admin
  <1>1. \A l \in LocalIds : \A k : HasSession(l, k) => HasSession(l, k)'
    BY CommitSees
  <1>2. \A l \in LocalIds : \A k : SeesSession(r, l, k) => HasSession(l, k)'
    BY CommitSees
  <1>3. \A p \in PaymentIds : payments[p] # Null =>
          payments'[p] # Null /\ payments'[p].device_id = payments[p].device_id
    <2> SUFFICES ASSUME NEW p \in PaymentIds, payments[p] # Null
                 PROVE  payments'[p] # Null /\ payments'[p].device_id = payments[p].device_id
      OBVIOUS
    <2>1. CASE tx[r].payments[p] = Null
      BY <1>0, <2>1 DEF PaymentRow
    <2>2. CASE tx[r].payments[p] # Null
      <3>1. tx[r].payments[p].device_id = payments[p].device_id
        BY <2>2 DEF RequestInv, WritesOwned
      <3> QED BY <1>0, <2>2, <3>1 DEF PaymentRow
    <2> QED BY <2>1, <2>2
  <1>4. \A v \in VoucherCodes : (vouchers[v] # Null /\ vouchers[v].status = "used") =>
          vouchers'[v] # Null /\ vouchers'[v].status = "used"
    BY DEF Commit, VoucherRow, RequestInv, WritesOwned
  <1>5. OwnershipConsistent'
    <2>1. ASSUME NEW p \in PaymentIds, payments'[p] # Null
          PROVE  HasSession(payments[p].session, payments[p].device_id)'
      <3>1. payments'[p] = PaymentRow(r, p) /\ PaymentRow(r, p) \in PaymentRows
        BY <2>1, VisibleType DEF Commit
      <3>2. payments'[p].session \in LocalIds /\ payments'[p].device_id \in Devices
        BY <3>1 DEF PaymentRows
      <3>3. CASE tx[r].payments[p] = Null
        BY <1>1, <2>1, <3>1, <3>2, <3>3
           DEF PaymentRow, TablesInv, OwnershipConsistent
      <3>4. CASE tx[r].payments[p] # Null
        BY <1>2, <3>1, <3>2, <3>4 DEF PaymentRow, RequestInv, WritesOwned
      <3> QED BY <3>3, <3>4
    <2>2. ASSUME NEW v \in VoucherCodes, vouchers'[v] # Null, vouchers'[v].status = "used"
          PROVE  HasSession(vouchers[v].session, vouchers[v].device_id)'
      <3>1. vouchers'[v] = VoucherRow(r, v) /\ VoucherRow(r, v) \in VoucherRows
        BY <2>2, VisibleType DEF Commit
      <3>2. CASE tx[r].vouchers[v] = Null
        <4>1. /\ vouchers'[v] = vouchers[v]
              /\ HasSession(vouchers[v].session, vouchers[v].device_id)
              /\ vouchers[v].session # Null
          BY <2>2, <3>1, <3>2
             DEF VoucherRow, TablesInv, OwnershipConsistent, VouchersBound, BoundVoucher
        <4>2. vouchers[v].session \in LocalIds
          BY <3>1, <4>1 DEF VoucherRows
        <4> QED BY <1>1, <4>1, <4>2
      <3>3. CASE tx[r].vouchers[v] # Null
        <4>1. /\ vouchers'[v].device_id = d
              /\ SeesSession(r, vouchers'[v].session, d)
              /\ vouchers'[v].session # Null
          BY <2>2, <3>1, <3>3 DEF VoucherRow, RequestInv, WritesOwned, BoundVoucher
        <4>2. vouchers'[v].session \in LocalIds
          BY <3>1, <4>1 DEF VoucherRows
        <4> QED BY <1>2, <4>1, <4>2
      <3> QED BY <3>2, <3>3
    <2> QED BY <2>1, <2>2 DEF OwnershipConsistent
  <1>6. AcknowledgedIsStored'
    <2> SUFFICES ASSUME NEW e \in syncLog', NEW i \in e.ok
                 PROVE  /\ i.kind = "session" =>
                             HasSession(i.id, e.device)'
                        /\ i.kind = "payment" =>
                             payments'[i.id] # Null /\ payments'[i.id].device_id = e.device
                        /\ i.kind = "voucher" =>
                             vouchers'[i.id] # Null /\ vouchers'[i.id].status = "used"
      BY DEF AcknowledgedIsStored
    <2>1. CASE e \in syncLog
      <3>1. i \in Items /\ e.device \in Devices
        BY <2>1 DEF TypeOK, DeviceSyncLogs
      <3>2. /\ i.kind = "session" => i.id \in LocalIds
            /\ i.kind = "payment" => i.id \in PaymentIds
            /\ i.kind = "voucher" => i.id \in VoucherCodes
        BY <3>1, ItemKinds DEF SessionItems, PaymentItems, VoucherItems
      <3> QED BY <1>1, <1>3, <1>4, <2>1, <3>1, <3>2 DEF TablesInv, AcknowledgedIsStored
    <2>2. CASE e \notin syncLog
      <3>1. e.device = d /\ e.ok = req[r].ok
        BY <2>2 DEF Commit
      <3>2. i \in Items
        BY <3>1 DEF TypeOK, RequestStates
      <3>3. /\ i.kind = "session" => i.id \in LocalIds
            /\ i.kind = "payment" => i.id \in PaymentIds
            /\ i.kind = "voucher" => i.id \in VoucherCodes
        BY <3>2, ItemKinds DEF SessionItems, PaymentItems, VoucherItems
      <3> QED BY <1>2, <3>1, <3>3 DEF RequestInv, AppliedVisible, Commit
    <2> QED BY <2>1, <2>2
  <1>7. VouchersBound'
    BY DEF Commit, VoucherRow, TablesInv, VouchersBound, RequestInv, WritesOwned, BoundVoucher
  <1> QED BY <1>5, <1>6, <1>7 DEF TablesInv

\* The edits of others leave the committed tables consistent.
LEMMA AdminTables ==
  ASSUME TypeOK, TablesInv, Admin
  PROVE  TablesInv'
  <1>1. \A l \in LocalIds : \A k : HasSession(l, k) => HasSession(l, k)'
    BY SwapKeeps DEF HasSession
  <1>2. UNCHANGED syncLog
    BY DEF Admin, RetireRef, ExpireVoucher, SwapDevice, EditVoucher, Refund, Edit
  <1>3. \A p \in PaymentIds :
          /\ payments'[p] = Null <=> payments[p] = Null
          /\ payments'[p] # Null =>
               /\ payments'[p].session = payments[p].session
               /\ payments'[p].device_id = payments[p].device_id
    <2>1. CASE \E p \in PaymentIds : Refund(p)
      <3>1. PICK p \in PaymentIds : Refund(p)
        BY <2>1
      <3>2. payments[p] \in PaymentRows
        BY <3>1 DEF TypeOK, Refund
      <3>3. /\ [payments[p] EXCEPT !.status = "refunded"].session = payments[p].session
            /\ [payments[p] EXCEPT !.status = "refunded"].device_id = payments[p].device_id
            /\ [payments[p] EXCEPT !.status = "refunded"] # Null
        <4>1. [payments[p] EXCEPT !.status = "refunded"] \in PaymentRows
          BY <3>2 DEF PaymentRows, PaymentStatuses
        <4> QED BY <3>2, <4>1, NullAssumption DEF PaymentRows
      <3>4. payments' = [payments EXCEPT ![p] = [payments[p] EXCEPT !.status = "refunded"]]
            /\ payments[p] # Null
        BY <3>1 DEF Refund
      <3> QED BY <3>3, <3>4 DEF TypeOK
    <2>2. CASE UNCHANGED payments
      BY <2>2
    <2> QED BY <2>1, <2>2 DEF Admin, RetireRef, ExpireVoucher, SwapDevice, EditVoucher
  <1>4. \A v \in VoucherCodes :
          /\ vouchers'[v] = Null <=> vouchers[v] = Null
          /\ vouchers'[v] # Null =>
               /\ vouchers'[v].session = vouchers[v].session
               /\ vouchers'[v].device_id = vouchers[v].device_id
               /\ vouchers'[v].status \in {vouchers[v].status, "voided"}
               /\ vouchers[v].status = "used" => vouchers'[v].status = "used"
    <2>1. CASE \E v \in VoucherCodes : EditVoucher(v)
      <3>1. PICK v \in VoucherCodes : EditVoucher(v)
        BY <2>1
      <3>2. vouchers[v] \in VoucherRows
        BY <3>1 DEF TypeOK, EditVoucher
      <3> DEFINE void == [vouchers[v] EXCEPT !.status = "voided"]
                 delete == [vouchers[v] EXCEPT !.deleted = TRUE]
      <3>3. /\ void # Null /\ void.session = vouchers[v].session
            /\ void.device_id = vouchers[v].device_id /\ void.status = "voided"
            /\ delete # Null /\ delete.session = vouchers[v].session
            /\ delete.device_id = vouchers[v].device_id /\ delete.status = vouchers[v].status
        BY <3>2, NullAssumption DEF VoucherRows
      <3>4. vouchers[v] # Null
            /\ \/ vouchers[v].status # "used" /\ vouchers' = [vouchers EXCEPT ![v] = void]
               \/ vouchers' = [vouchers EXCEPT ![v] = delete]
        BY <3>1 DEF EditVoucher
      <3> HIDE DEF void, delete
      <3> QED BY <3>3, <3>4 DEF TypeOK
    <2>2. CASE UNCHANGED vouchers
      BY <2>2
    <2> QED BY <2>1, <2>2 DEF Admin, RetireRef, ExpireVoucher, SwapDevice, Refund
  <1>5. OwnershipConsistent'
    <2>1. ASSUME NEW p \in PaymentIds, payments'[p] # Null
          PROVE  HasSession(payments[p].session, payments[p].device_id)'
      <3>1. /\ payments[p] \in PaymentRows /\ payments'[p].session = payments[p].session
            /\ payments'[p].device_id = payments[p].device_id
            /\ HasSession(payments[p].session, payments[p].device_id)
        BY <1>3, <2>1 DEF TypeOK, TablesInv, OwnershipConsistent
      <3>2. payments[p].session \in LocalIds /\ payments[p].device_id \in Devices
        BY <3>1 DEF PaymentRows
      <3> QED BY <1>1, <3>1, <3>2 DEF HasSession
    <2>2. ASSUME NEW v \in VoucherCodes, vouchers'[v] # Null, vouchers'[v].status = "used"
          PROVE  HasSession(vouchers[v].session, vouchers[v].device_id)'
      <3>1. /\ vouchers[v] \in VoucherRows /\ vouchers[v] # Null /\ vouchers[v].status = "used"
            /\ vouchers'[v].session = vouchers[v].session
            /\ vouchers'[v].device_id = vouchers[v].device_id
        BY <1>4, <2>2 DEF TypeOK
      <3>2. /\ HasSession(vouchers[v].session, vouchers[v].device_id)
            /\ vouchers[v].session \in LocalIds
        BY <3>1 DEF TablesInv, OwnershipConsistent, VouchersBound, BoundVoucher, VoucherRows
      <3> QED BY <1>1, <3>1, <3>2 DEF HasSession
    <2> QED BY <2>1, <2>2 DEF OwnershipConsistent
  <1>6. AcknowledgedIsStored'
    <2> SUFFICES ASSUME NEW e \in syncLog, NEW i \in e.ok
                 PROVE  /\ i.kind = "session" =>
                             HasSession(i.id, e.device)'
                        /\ i.kind = "payment" =>
                             payments'[i.id] # Null /\ payments'[i.id].device_id = e.device
                        /\ i.kind = "voucher" =>
                             vouchers'[i.id] # Null /\ vouchers'[i.id].status = "used"
      BY <1>2 DEF AcknowledgedIsStored
    <2>1. i \in Items /\ e.device \in Devices
      BY DEF TypeOK, DeviceSyncLogs
    <2>2. /\ i.kind = "session" => i.id \in LocalIds
          /\ i.kind = "payment" => i.id \in PaymentIds
          /\ i.kind = "voucher" => i.id \in VoucherCodes
      BY <2>1, ItemKinds DEF SessionItems, PaymentItems, VoucherItems
    <2> QED BY <1>1, <1>3, <1>4, <2>1, <2>2 DEF TablesInv, AcknowledgedIsStored
  <1>7. VouchersBound'
    BY <1>4 DEF TablesInv, VouchersBound, BoundVoucher
  <1> QED BY <1>5, <1>6, <1>7 DEF TablesInv

-----------------------------------------------------------------------------
(***************************************************************************)
(* What a request knows after its own steps.                               *)
(***************************************************************************)

\* A request that ended knows nothing, and holds nothing.
LEMMA EndedInv ==
  ASSUME NEW r \in Requests, req'[r] = Idle, tx'[r] = NoWrites
  PROVE  RequestInv(r)'
  BY DEF RequestInv, WritesOwned, StagedOwned, AppliedVisible, Idle, NoWrites

LEMMA ReceiveInv ==
  ASSUME TypeOK, LocksInv, NEW r \in Requests, NEW d \in Devices, NEW p \in Payloads,
         Receive(r, d, p)
  PROVE  RequestInv(r)'
  <1>1. tx'[r] = NoWrites
    BY DEF Receive, LocksInv
  <1>2. req'[r].ok = {} /\ req'[r].pc # "flush"
    BY DEF Receive, TypeOK, Idle
  <1> QED
    BY <1>1, <1>2 DEF RequestInv, WritesOwned, StagedOwned, AppliedVisible, NoWrites

\* A step that leaves the rows a request sees alone, and adds at most a visible
\* item to its results, keeps its invariant.
LEMMA SameRowsInv ==
  ASSUME NEW r \in Requests, RequestInv(r), UNCHANGED <<tables, former>>,
         tx'[r].sessions = tx[r].sessions, tx'[r].payments = tx[r].payments,
         tx'[r].vouchers = tx[r].vouchers,
         req'[r].device = req[r].device, req'[r].pc # "flush",
         \A i \in req'[r].ok \ req[r].ok :
           /\ i.kind = "session" => SeesSession(r, i.id, req[r].device)
           /\ i.kind = "payment" =>
                PaymentRow(r, i.id) # Null /\ PaymentRow(r, i.id).device_id = req[r].device
           /\ i.kind = "voucher" =>
                VoucherRow(r, i.id) # Null /\ VoucherRow(r, i.id).status = "used"
  PROVE  RequestInv(r)'
  <1>1. UNCHANGED <<sessions, payments, vouchers, former>>
    BY DEF tables
  <1>2. WritesOwned(r)'
    <2>1. \A l, k : SeesSession(r, l, k) => SeesSession(r, l, k)'
      BY <1>1 DEF SeesSession, Owners, SessionRow
    <2>2. \A l, row : Owners(l, row)' = Owners(l, row)
      BY <1>1 DEF Owners
    <2>3. \A l \in LocalIds : tx'[r].sessions[l] # Null =>
            /\ req'[r].device \in Owners(l, tx'[r].sessions[l])
            /\ sessions'[l] # Null => tx'[r].sessions[l].device_id = sessions'[l].device_id
      BY <1>1 DEF RequestInv, WritesOwned
    <2>4. \A p \in PaymentIds : tx'[r].payments[p] # Null =>
            /\ tx'[r].payments[p].device_id = req'[r].device
            /\ payments'[p] # Null => payments'[p].device_id = req'[r].device
            /\ SeesSession(r, tx[r].payments[p].session, req[r].device)
      BY <1>1 DEF RequestInv, WritesOwned
    <2>5. \A v \in VoucherCodes : tx'[r].vouchers[v] # Null =>
            /\ vouchers'[v] # Null
            /\ tx'[r].vouchers[v].status = "used"
            /\ tx'[r].vouchers[v].device_id = req'[r].device
            /\ BoundVoucher(v, tx'[r].vouchers[v])
            /\ SeesSession(r, tx[r].vouchers[v].session, req[r].device)
      BY <1>1 DEF RequestInv, WritesOwned
    <2>6. \A v, row : BoundVoucher(v, row)' <=> BoundVoucher(v, row)
      BY DEF BoundVoucher
    <2> QED BY <2>1, <2>2, <2>3, <2>4, <2>5, <2>6 DEF WritesOwned
  <1>3. AppliedVisible(r)'
    BY <1>1 DEF RequestInv, AppliedVisible, SeesSession, Owners, SessionRow, PaymentRow, VoucherRow
  <1> QED BY <1>2, <1>3 DEF RequestInv, StagedOwned

\* An item whose row needs no change is visible as the caller's.
LEMMA KeptItemVisible ==
  ASSUME TypeOK, NEW r \in Requests, AppliedVisible(r), KeepItem(r)
  PROVE  LET i == Item(r)
         IN /\ i.kind = "session" => SeesSession(r, i.id, req[r].device)
            /\ i.kind = "payment" =>
                 PaymentRow(r, i.id) # Null /\ PaymentRow(r, i.id).device_id = req[r].device
            /\ i.kind = "voucher" =>
                 VoucherRow(r, i.id) # Null /\ VoucherRow(r, i.id).status = "used"
  <1> DEFINE i == Item(r)
             d == req[r].device
  <1>1. /\ i \in Items /\ ~Refused(r, i) /\ d \in Devices
        /\ Row(r, i) \in Wanted(r, i)
    BY DEF KeepItem, LooksUp, Item, TypeOK, RequestStates
  <1>2. ASSUME i.kind = "session" PROVE SeesSession(r, i.id, d)
    <2>1. SessionRow(r, i.id) \in SessionRows /\ ~SessionRefused(r, i)
      BY <1>1, <1>2, WantedType DEF Row, Refused
    <2> QED BY <2>1, NullAssumption DEF SessionRefused, SeesSession, Owners
  <1>3. ASSUME i.kind = "payment"
        PROVE  PaymentRow(r, i.id) # Null /\ PaymentRow(r, i.id).device_id = d
    <2>1. PaymentRow(r, i.id) \in PaymentRows /\ ~PaymentRefused(r, i)
      BY <1>1, <1>3, WantedType DEF Row, Refused
    <2> QED BY <2>1, NullAssumption DEF PaymentRefused
  <1>4. ASSUME i.kind = "voucher"
        PROVE  VoucherRow(r, i.id) # Null /\ VoucherRow(r, i.id).status = "used"
    <2> DEFINE row == VoucherRow(r, i.id)
    <2>1. row \in VoucherRows /\ row \in WantedVouchers(r, i)
      BY <1>1, <1>4, WantedType DEF Row, Wanted
    <2>2. row.status = "used"
      BY <2>1 DEF WantedVouchers, VoucherRows
    <2> QED BY <2>1, <2>2, NullAssumption
  <1> QED BY <1>2, <1>3, <1>4

LEMMA ApplyReportInv ==
  ASSUME TypeOK, NEW r \in Requests, RequestInv(r), ApplyReport(r)
  PROVE  RequestInv(r)'
  <1>1. req[r] \in RequestStates /\ tx[r] \in Transactions
    BY DEF TypeOK
  <1>2. /\ req'[r].pc = "lookup" /\ req'[r].device = req[r].device /\ req'[r].ok = req[r].ok
        /\ tx'[r].sessions = tx[r].sessions /\ tx'[r].payments = tx[r].payments
        /\ tx'[r].vouchers = tx[r].vouchers /\ UNCHANGED <<tables, former>>
    BY <1>1 DEF ApplyReport, admin, TypeOK, RequestStates, Transactions
  <1> QED BY <1>2, SameRowsInv

LEMMA FailedInv ==
  ASSUME TypeOK, NEW r \in Requests, RequestInv(r), req[r].todo # <<>>,
         req' = [req EXCEPT ![r] = Failed(req[r])], UNCHANGED <<tables, former, tx>>
  PROVE  RequestInv(r)'
  <1>1. req'[r].pc = "lookup" /\ req'[r].device = req[r].device /\ req'[r].ok = req[r].ok
    BY ResultType DEF TypeOK
  <1> QED BY <1>1, SameRowsInv

LEMMA KeepItemInv ==
  ASSUME TypeOK, NEW r \in Requests, RequestInv(r), KeepItem(r)
  PROVE  RequestInv(r)'
  <1>1. /\ req'[r].pc = "lookup" /\ req'[r].device = req[r].device
        /\ req'[r].ok = req[r].ok \cup {Item(r)} /\ UNCHANGED <<tables, former, tx>>
    BY ResultType DEF TypeOK, KeepItem, LooksUp, Item, admin
  <1>2. \A i \in req'[r].ok \ req[r].ok : i = Item(r)
    BY <1>1
  <1> QED BY <1>1, <1>2, SameRowsInv, KeptItemVisible DEF RequestInv

\* The checks of a lookup are what StagedOwned asks for.
LEMMA StageInv ==
  ASSUME TypeOK, VouchersBound, NEW r \in Requests, RequestInv(r), StageItem(r)
  PROVE  RequestInv(r)'
  <1> DEFINE i == Item(r)
             d == req[r].device
  <1>1. PICK want \in Wanted(r, i) :
          req' = [req EXCEPT ![r].pc = "flush", ![r].seen = Row(r, i), ![r].want = want]
    BY DEF StageItem
  <1>2. /\ i \in Items /\ ~Refused(r, i) /\ d \in Devices /\ req[r] \in RequestStates
        /\ Row(r, i) \notin Wanted(r, i)
        /\ UNCHANGED <<tables, former, tx>>
    BY DEF StageItem, admin, LooksUp, Item, TypeOK, RequestStates
  <1>3. /\ req'[r].pc = "flush" /\ req'[r].seen = Row(r, i) /\ req'[r].want = want
        /\ req'[r].device = d /\ req'[r].ok = req[r].ok /\ req'[r].todo = req[r].todo
    BY <1>1, <1>2 DEF TypeOK, RequestStates
  <1>4. UNCHANGED <<sessions, payments, vouchers, former, tx>> /\ Item(r)' = i
    BY <1>2, <1>3 DEF tables, Item
  <1>5. WritesOwned(r)' /\ AppliedVisible(r)'
    BY <1>3, <1>4 DEF RequestInv, WritesOwned, AppliedVisible, SeesSession, Owners, SessionRow,
                      PaymentRow, VoucherRow, BoundVoucher
  <1>6. ASSUME i.kind = "session"
        PROVE  want.device_id = d /\ (Row(r, i) # Null => SeesSession(r, i.id, d))
    <2> DEFINE row == SessionRow(r, i.id)
    <2>1. /\ i \in SessionItems /\ ~SessionRefused(r, i) /\ want \in WantedSessions(r, i)
          /\ Row(r, i) = row /\ row \in SessionRows \cup {Null}
      BY <1>2, <1>6, ItemKinds, WantedType DEF RequestInv, Refused, Wanted, Row
    <2>2. row # Null => row.device_id = d
      BY <2>1 DEF SessionRefused
    <2>3. want.device_id = d
      <3>1. CASE row = Null
        BY <2>1, <3>1 DEF WantedSessions
      <3>2. CASE row # Null
        <4> DEFINE refreshed == [row EXCEPT !.state = i.state, !.frame = ServerFrame(i.frame),
                                            !.booth = i.booth]
        <4>1. /\ refreshed.device_id = row.device_id
              /\ \A c : [refreshed EXCEPT !.code = c].device_id = row.device_id
          BY <2>1, <3>2 DEF SessionRows
        <4>2. want = refreshed \/ \E c : want = [refreshed EXCEPT !.code = c]
          <5>1. CASE row.code = Null
            <6>1. WantedSessions(r, i) =
                    {[refreshed EXCEPT !.code = c] : c \in AllocatedCodes(r, i.code)}
              BY <3>2, <5>1 DEF WantedSessions
            <6> QED BY <2>1, <6>1
          <5>2. CASE row.code # Null
            BY <2>1, <3>2, <5>2 DEF WantedSessions
          <5> QED BY <5>1, <5>2
        <4> HIDE DEF refreshed
        <4> QED BY <2>2, <3>2, <4>1, <4>2
      <3> QED BY <3>1, <3>2
    <2> QED BY <2>1, <2>2, <2>3 DEF SeesSession, Owners
  <1>7. ASSUME i.kind = "payment"
        PROVE  /\ want.device_id = d /\ SeesSession(r, want.session, d)
               /\ Row(r, i) # Null =>
                    PaymentRow(r, i.id) # Null /\ PaymentRow(r, i.id).device_id = d
    <2>1. /\ ~PaymentRefused(r, i) /\ want \in WantedPayments(r, i)
          /\ Row(r, i) = PaymentRow(r, i.id)
      BY <1>2, <1>7 DEF Refused, Wanted, Row
    <2>2. want.device_id = d /\ want.session = i.session
      BY <2>1 DEF WantedPayments
    <2> QED BY <2>1, <2>2, ResolvedSession DEF PaymentRefused, RequestInv
  <1>8. ASSUME i.kind = "voucher"
        PROVE  /\ vouchers[i.id] # Null
               /\ Row(r, i).status = "available" /\ BoundVoucher(i.id, Row(r, i))
               /\ want.status = "used" /\ want.device_id = d
               /\ Row(r, i).device_id \in {Null, d}
               /\ SeesSession(r, want.session, d)
    <2> DEFINE row == VoucherRow(r, i.id)
    <2>1. /\ i \in VoucherItems /\ ~VoucherRefused(r, i) /\ want \in WantedVouchers(r, i)
          /\ Row(r, i) = row /\ row \notin WantedVouchers(r, i) /\ row \in VoucherRows
      BY <1>2, <1>8, ItemKinds, WantedType DEF RequestInv, Refused, Wanted, Row
    <2>2. row.status = "available" /\ row.device_id \in {Null, d}
      BY <2>1 DEF VoucherRefused, WantedVouchers
    <2>3. want.status = "used" /\ want.device_id = d /\ want.session = i.session
      BY <2>1, <2>2 DEF WantedVouchers, VoucherRows
    <2>4. vouchers[i.id] # Null /\ BoundVoucher(i.id, row)
      BY <2>1, NullAssumption DEF VoucherItems, VoucherRow, RequestInv, WritesOwned, VouchersBound
    <2>5. SeesSession(r, i.session, d)
      BY <2>1, ResolvedSession DEF VoucherRefused, RequestInv
    <2> QED BY <2>1, <2>2, <2>3, <2>4, <2>5
  <1>9. StagedOwned(r)'
    BY <1>3, <1>4, <1>6, <1>7, <1>8
       DEF StagedOwned, SeesSession, Owners, SessionRow, PaymentRow, BoundVoucher
  <1> QED BY <1>5, <1>9 DEF RequestInv

\* What every flush does to the request, whichever row it writes.
LEMMA FlushResult ==
  ASSUME TypeOK, NEW r \in Requests, NEW kind \in {"session", "payment", "voucher"},
         Flushes(r, kind)
  PROVE  /\ req[r].pc = "flush" /\ Item(r).kind = kind /\ ~Conflict(r)
         /\ Item(r) \in Items /\ StagedOK(req[r]) /\ tx[r] \in Transactions
         /\ req'[r].pc = "lookup" /\ req'[r].device = req[r].device
         /\ req'[r].ok = req[r].ok \cup {Item(r)}
         /\ UNCHANGED <<sessions, payments, vouchers, former>>
         /\ req[r].device \in Devices
         /\ Free(r, FlushKeys(r))
  <1>1. req[r].pc = "flush" /\ req[r].todo # <<>>
    BY DEF Flushes, TypeOK, StagedOK
  <1> QED
    BY <1>1, ResultType, KeysType DEF Flushes, TypeOK, Item, tables, admin

\* Writing rows of the caller over rows of the caller keeps the invariant, and
\* makes the item that wrote them visible.
LEMMA WroteInv ==
  ASSUME TypeOK, NEW r \in Requests, RequestInv(r), NEW d, d = req[r].device,
         NEW i \in Items, UNCHANGED <<sessions, payments, vouchers, former>>,
         tx[r] \in Transactions, tx'[r] \in Transactions,
         req'[r].pc = "lookup", req'[r].device = d, req'[r].ok = req[r].ok \cup {i},
         \A l \in LocalIds : tx'[r].sessions[l] # tx[r].sessions[l] =>
           /\ tx'[r].sessions[l] # Null
           /\ d \in Owners(l, tx'[r].sessions[l])
           /\ sessions[l] # Null => tx'[r].sessions[l].device_id = sessions[l].device_id,
         \A p \in PaymentIds : tx'[r].payments[p] # tx[r].payments[p] =>
           /\ tx'[r].payments[p] # Null
           /\ tx'[r].payments[p].device_id = d
           /\ payments[p] # Null => payments[p].device_id = d
           /\ SeesSession(r, tx'[r].payments[p].session, d),
         \A v \in VoucherCodes : tx'[r].vouchers[v] # tx[r].vouchers[v] =>
           /\ tx'[r].vouchers[v] # Null
           /\ vouchers[v] # Null
           /\ tx'[r].vouchers[v].status = "used"
           /\ tx'[r].vouchers[v].device_id = d
           /\ BoundVoucher(v, tx'[r].vouchers[v])
           /\ SeesSession(r, tx'[r].vouchers[v].session, d),
         i.kind = "session" => tx'[r].sessions[i.id] # Null,
         i.kind = "payment" => tx'[r].payments[i.id] # Null,
         i.kind = "voucher" => tx'[r].vouchers[i.id] # Null
  PROVE  RequestInv(r)'
  <1> DEFINE After(l) == IF tx'[r].sessions[l] = Null THEN sessions[l] ELSE tx'[r].sessions[l]
             Paid(p) == IF tx'[r].payments[p] = Null THEN payments[p] ELSE tx'[r].payments[p]
             Spent(v) == IF tx'[r].vouchers[v] = Null THEN vouchers[v] ELSE tx'[r].vouchers[v]
             Seen(l) == After(l) # Null /\ d \in Owners(l, After(l))
  <1>1. \A l \in LocalIds : SeesSession(r, l, d) => Seen(l)
    BY DEF SeesSession, SessionRow
  <1>2. \A l \in LocalIds : tx'[r].sessions[l] # Null =>
          /\ d \in Owners(l, tx'[r].sessions[l])
          /\ sessions[l] # Null => tx'[r].sessions[l].device_id = sessions[l].device_id
    BY DEF RequestInv, WritesOwned
  <1>3. ASSUME NEW p \in PaymentIds, tx'[r].payments[p] # Null
        PROVE  /\ tx'[r].payments[p].device_id = d
               /\ payments[p] # Null => payments[p].device_id = d
               /\ Seen(tx'[r].payments[p].session)
    <2>1. /\ tx'[r].payments[p].device_id = d
          /\ payments[p] # Null => payments[p].device_id = d
          /\ SeesSession(r, tx'[r].payments[p].session, d)
      BY <1>3 DEF RequestInv, WritesOwned
    <2>2. tx'[r].payments[p].session \in LocalIds
      BY <1>3 DEF Transactions, PaymentRows
    <2> QED BY <1>1, <2>1, <2>2
  <1>4. ASSUME NEW v \in VoucherCodes, tx'[r].vouchers[v] # Null
        PROVE  /\ vouchers[v] # Null
               /\ tx'[r].vouchers[v].status = "used"
               /\ tx'[r].vouchers[v].device_id = d
               /\ BoundVoucher(v, tx'[r].vouchers[v])
               /\ Seen(tx'[r].vouchers[v].session)
    <2>1. /\ vouchers[v] # Null
          /\ tx'[r].vouchers[v].status = "used"
          /\ tx'[r].vouchers[v].device_id = d
          /\ BoundVoucher(v, tx'[r].vouchers[v])
          /\ SeesSession(r, tx'[r].vouchers[v].session, d)
      BY <1>4 DEF RequestInv, WritesOwned
    <2>2. tx'[r].vouchers[v].session \in LocalIds
      BY <1>4, <2>1 DEF Transactions, VoucherRows, BoundVoucher
    <2> QED BY <1>1, <2>1, <2>2
  <1>5. WritesOwned(r)'
    BY <1>2, <1>3, <1>4 DEF WritesOwned, SeesSession, Owners, SessionRow, BoundVoucher
  <1>6. ASSUME NEW j \in req[r].ok \cup {i}
        PROVE  /\ j.kind = "session" => Seen(j.id)
               /\ j.kind = "payment" => Paid(j.id) # Null /\ Paid(j.id).device_id = d
               /\ j.kind = "voucher" => Spent(j.id) # Null /\ Spent(j.id).status = "used"
    <2>1. j \in Items
      BY DEF TypeOK, RequestStates
    <2>2. /\ j.kind = "session" => j.id \in LocalIds
          /\ j.kind = "payment" => j.id \in PaymentIds
          /\ j.kind = "voucher" => j.id \in VoucherCodes
      BY <2>1, ItemKinds DEF SessionItems, PaymentItems, VoucherItems
    <2>3. CASE j = i
      BY <1>2, <1>3, <1>4, <2>2, <2>3
    <2>4. CASE j \in req[r].ok
      <3>1. /\ j.kind = "session" => SeesSession(r, j.id, d)
            /\ j.kind = "payment" => PaymentRow(r, j.id) # Null /\ PaymentRow(r, j.id).device_id = d
            /\ j.kind = "voucher" => VoucherRow(r, j.id) # Null /\ VoucherRow(r, j.id).status = "used"
        BY <2>4 DEF RequestInv, AppliedVisible
      <3> QED BY <1>1, <1>3, <1>4, <2>2, <3>1 DEF PaymentRow, VoucherRow
    <2> QED BY <2>3, <2>4
  <1>7. AppliedVisible(r)'
    BY <1>6 DEF AppliedVisible, SeesSession, Owners, SessionRow, PaymentRow, VoucherRow
  <1> QED BY <1>5, <1>7 DEF RequestInv, StagedOwned

LEMMA FlushSessionInv ==
  ASSUME TypeOK, TypeOK', NEW r \in Requests, RequestInv(r), FlushSession(r)
  PROVE  RequestInv(r)'
  <1> DEFINE i == Item(r)
             d == req[r].device
             new == FlushedSession(r)
  <1>1. /\ req[r].pc = "flush" /\ i.kind = "session" /\ ~Conflict(r) /\ i \in Items
        /\ StagedOK(req[r]) /\ tx[r] \in Transactions /\ tx'[r] \in Transactions
        /\ req'[r].pc = "lookup" /\ req'[r].device = d /\ req'[r].ok = req[r].ok \cup {i}
        /\ UNCHANGED <<sessions, payments, vouchers, former>>
    BY FlushResult DEF FlushSession, TypeOK
  <1>2. i.id \in LocalIds /\ new # Null
    BY <1>1, ItemKinds, FlushedType, NullAssumption DEF SessionItems, RequestInv
  <1>3. /\ tx'[r].sessions = [tx[r].sessions EXCEPT ![i.id] = new]
        /\ tx'[r].payments = tx[r].payments /\ tx'[r].vouchers = tx[r].vouchers
    BY <1>1 DEF FlushSession, TypeOK, Transactions
  <1>4. sessions[i.id] # Null => new.device_id = sessions[i.id].device_id
    <2>1. CASE req[r].seen = Null
      BY <1>1, <1>2, <2>1 DEF Conflict, SessionConflict, SessionRow
    <2>2. CASE req[r].seen # Null
      <3>1. new.device_id = SessionRow(r, i.id).device_id
        BY <2>2 DEF FlushedSession
      <3> QED BY <1>2, <3>1 DEF SessionRow, RequestInv, WritesOwned
    <2> QED BY <2>1, <2>2
  <1>5. d \in Owners(i.id, new)
    <2>1. CASE req[r].seen = Null
      BY <1>1, <2>1
         DEF FlushedSession, RequestInv, StagedOwned, StagedOK, Item, SessionRows, Owners
    <2>2. CASE req[r].seen # Null
      BY <1>1, <2>2 DEF FlushedSession, RequestInv, StagedOwned, SeesSession, Owners
    <2> QED BY <2>1, <2>2
  <1>6. tx'[r].sessions[i.id] = new
        /\ \A l \in LocalIds : l # i.id => tx'[r].sessions[l] = tx[r].sessions[l]
    BY <1>1, <1>2, <1>3 DEF Transactions
  <1>7. \A l \in LocalIds : tx'[r].sessions[l] # tx[r].sessions[l] =>
          /\ tx'[r].sessions[l] # Null
          /\ d \in Owners(l, tx'[r].sessions[l])
          /\ sessions[l] # Null => tx'[r].sessions[l].device_id = sessions[l].device_id
    <2> SUFFICES ASSUME NEW l \in LocalIds, tx'[r].sessions[l] # tx[r].sessions[l]
                 PROVE  l = i.id
      BY <1>2, <1>4, <1>5, <1>6
    <2> QED BY <1>6
  <1>8. tx'[r].sessions[i.id] # Null /\ i.kind # "payment" /\ i.kind # "voucher"
    BY <1>1, <1>2, <1>6
  <1>9. /\ \A p \in PaymentIds : tx'[r].payments[p] = tx[r].payments[p]
        /\ \A v \in VoucherCodes : tx'[r].vouchers[v] = tx[r].vouchers[v]
    BY <1>3
  <1> HIDE DEF new, d, i
  <1> QED BY <1>1, <1>7, <1>8, <1>9, WroteInv, SMTT(60) DEF d

LEMMA FlushPaymentInv ==
  ASSUME TypeOK, TypeOK', OwnershipConsistent, NEW r \in Requests, RequestInv(r), FlushPayment(r)
  PROVE  RequestInv(r)'
  <1> DEFINE i == Item(r)
             d == req[r].device
             new == FlushedPayment(r)
             row == PaymentRow(r, i.id)
  <1>1. /\ req[r].pc = "flush" /\ i.kind = "payment" /\ ~Conflict(r) /\ i \in Items
        /\ StagedOK(req[r]) /\ tx[r] \in Transactions /\ tx'[r] \in Transactions
        /\ req'[r].pc = "lookup" /\ req'[r].device = d /\ req'[r].ok = req[r].ok \cup {i}
        /\ UNCHANGED <<sessions, payments, vouchers, former>>
    BY FlushResult DEF FlushPayment, TypeOK
  <1>2. i.id \in PaymentIds /\ new \in PaymentRows /\ new # Null /\ d \in Devices
    BY <1>1, ItemKinds, FlushedType, NullAssumption DEF PaymentItems, RequestInv, TypeOK
  <1>3. /\ tx'[r].payments = [tx[r].payments EXCEPT ![i.id] = new]
        /\ tx'[r].sessions = tx[r].sessions /\ tx'[r].vouchers = tx[r].vouchers
    BY <1>1 DEF FlushPayment, TypeOK, Transactions
  <1>4. row # Null => row.device_id = d /\ SeesSession(r, row.session, d)
    <2> SUFFICES ASSUME row # Null
                 PROVE  row.device_id = d /\ SeesSession(r, row.session, d)
      OBVIOUS
    <2>1. row.device_id = d
      BY <1>1 DEF Conflict, PaymentConflict, RequestInv, StagedOwned
    <2>2. row.session \in LocalIds
      BY <1>2, VisibleType DEF PaymentRows
    <2>3. CASE tx[r].payments[i.id] # Null
      BY <1>2, <2>1, <2>3 DEF PaymentRow, RequestInv, WritesOwned
    <2>4. CASE tx[r].payments[i.id] = Null
      <3>1. HasSession(row.session, d)
        BY <1>2, <2>1, <2>4 DEF PaymentRow, OwnershipConsistent
      <3> QED BY <2>1, <2>2, <3>1 DEF HasSession, SeesSession, Owners, SessionRow, RequestInv, WritesOwned
    <2> QED BY <2>3, <2>4
  <1>5. new.device_id = d /\ SeesSession(r, new.session, d)
    <2>1. req[r].want.device_id = d /\ SeesSession(r, req[r].want.session, d)
      BY <1>1 DEF RequestInv, StagedOwned
    <2>2. CASE req[r].seen = Null
      BY <2>1, <2>2 DEF FlushedPayment
    <2>3. CASE req[r].seen # Null
      <3>1. row # Null
        BY <1>1, <2>3 DEF RequestInv, StagedOwned
      <3>2. new.device_id = row.device_id
            /\ (new.session = req[r].want.session \/ new.session = row.session)
        BY <2>3 DEF FlushedPayment, Newer
      <3> QED BY <1>4, <2>1, <3>1, <3>2
    <2> QED BY <2>2, <2>3
  <1>6. payments[i.id] # Null => payments[i.id].device_id = d
    BY <1>2, <1>4 DEF PaymentRow, RequestInv, WritesOwned
  <1>7. tx'[r].payments[i.id] = new
        /\ \A p \in PaymentIds : p # i.id => tx'[r].payments[p] = tx[r].payments[p]
    BY <1>1, <1>2, <1>3 DEF Transactions
  <1> HIDE DEF new, d, i, row
  <1> QED BY <1>1, <1>2, <1>3, <1>5, <1>6, <1>7, WroteInv DEF d

LEMMA FlushVoucherInv ==
  ASSUME TypeOK, TypeOK', VouchersBound, NEW r \in Requests, RequestInv(r), FlushVoucher(r)
  PROVE  RequestInv(r)'
  <1> DEFINE i == Item(r)
             d == req[r].device
             seen == req[r].seen
             want == req[r].want
             new == FlushedVoucher(r)
             row == VoucherRow(r, i.id)
  <1>1. /\ req[r].pc = "flush" /\ i.kind = "voucher" /\ ~Conflict(r) /\ i \in Items
        /\ StagedOK(req[r]) /\ tx[r] \in Transactions /\ tx'[r] \in Transactions
        /\ req'[r].pc = "lookup" /\ req'[r].device = d /\ req'[r].ok = req[r].ok \cup {i}
        /\ UNCHANGED <<sessions, payments, vouchers, former>>
    BY FlushResult DEF FlushVoucher, TypeOK
  <1>2. i.id \in VoucherCodes /\ new # Null
    BY <1>1, ItemKinds, FlushedType, NullAssumption DEF VoucherItems, RequestInv
  <1>3. /\ tx'[r].vouchers = [tx[r].vouchers EXCEPT ![i.id] = new]
        /\ tx'[r].sessions = tx[r].sessions /\ tx'[r].payments = tx[r].payments
    BY <1>1 DEF FlushVoucher, TypeOK, Transactions
  <1>4. /\ vouchers[i.id] # Null
        /\ seen.status = "available" /\ BoundVoucher(i.id, seen)
        /\ want.status = "used" /\ want.device_id = d
        /\ seen.device_id \in {Null, d}
        /\ SeesSession(r, want.session, d)
        /\ want.session # Null
    BY <1>1 DEF RequestInv, StagedOwned, StagedOK, Item
  <1>5. BoundVoucher(i.id, row)
    BY <1>2, <1>4 DEF VoucherRow, VouchersBound, RequestInv, WritesOwned
  <1>6. new.status = "used" /\ new.session = want.session
    BY <1>4 DEF FlushedVoucher, Newer, BoundVoucher
  <1>7. new.device_id = d
    <2>1. CASE seen.device_id = d
      <3>1. InitialVouchers[i.id].device_id = d
        BY <1>4, <2>1 DEF BoundVoucher
      <3>2. d # Null
        BY <1>1, NullAssumption DEF TypeOK
      <3>3. row.device_id = d
        BY <1>5, <3>1, <3>2 DEF BoundVoucher
      <3> QED BY <1>4, <2>1, <3>3 DEF FlushedVoucher, Newer
    <2>2. CASE seen.device_id # d
      BY <1>4, <2>2 DEF FlushedVoucher, Newer
    <2> QED BY <2>1, <2>2
  <1>8. BoundVoucher(i.id, new)
    <2>1. InitialVouchers[i.id].device_id = seen.device_id
      BY <1>4 DEF BoundVoucher
    <2> QED BY <1>4, <1>6, <1>7, <2>1 DEF BoundVoucher
  <1>9. tx'[r].vouchers[i.id] = new
        /\ \A v \in VoucherCodes : v # i.id => tx'[r].vouchers[v] = tx[r].vouchers[v]
    BY <1>1, <1>2, <1>3 DEF Transactions
  <1> HIDE DEF new, d, i, row, seen, want
  <1> QED BY <1>1, <1>2, <1>3, <1>4, <1>6, <1>7, <1>8, <1>9, WroteInv DEF d

-----------------------------------------------------------------------------
(***************************************************************************)
(* The locks.                                                              *)
(***************************************************************************)

\* Taking only free locks, and the lock of every row written, keeps them apart.
LEMMA LocksLocal ==
  ASSUME LocksInv, NEW r \in Requests, NEW keys, Free(r, keys),
         \A q \in Requests \ {r} : req'[q] = req[q] /\ tx'[q] = tx[q],
         tx'[r].held \subseteq tx[r].held \cup keys,
         req'[r].pc = "idle" => req'[r] = Idle /\ tx'[r] = NoWrites,
         \A l \in LocalIds : tx'[r].sessions[l] # Null => <<"session", l>> \in tx'[r].held,
         \A p \in PaymentIds : tx'[r].payments[p] # Null => <<"payment", p>> \in tx'[r].held,
         \A v \in VoucherCodes : tx'[r].vouchers[v] # Null => <<"voucher", v>> \in tx'[r].held
  PROVE  LocksInv'
  <1>1. ASSUME NEW q \in Requests, q # r
        PROVE  tx'[q].held \cap tx'[r].held = {}
    <2>1. tx[q].held \cap tx[r].held = {} /\ tx[q].held \cap keys = {}
      BY <1>1 DEF LocksInv, Free
    <2> QED BY <1>1, <2>1
  <1>2. ASSUME NEW q \in Requests, NEW s \in Requests, q # s
        PROVE  tx'[q].held \cap tx'[s].held = {}
    BY <1>1, <1>2 DEF LocksInv
  <1> QED BY <1>2 DEF LocksInv

\* A step of r that leaves its transaction as it is, or ends it.
LEMMA LocksSame ==
  ASSUME LocksInv, NEW r \in Requests,
         \A q \in Requests \ {r} : req'[q] = req[q] /\ tx'[q] = tx[q],
         \/ tx'[r] = tx[r] /\ req'[r].pc # "idle"
         \/ tx'[r] = NoWrites /\ req'[r] = Idle
  PROVE  LocksInv'
  <1>1. Free(r, {})
    BY DEF Free
  <1>2. CASE tx'[r] = tx[r] /\ req'[r].pc # "idle"
    BY <1>1, <1>2, LocksLocal DEF LocksInv
  <1>3. CASE tx'[r] = NoWrites /\ req'[r] = Idle
    <2>1. /\ tx'[r].held = {}
          /\ \A l \in LocalIds : tx'[r].sessions[l] = Null
          /\ \A p \in PaymentIds : tx'[r].payments[p] = Null
          /\ \A v \in VoucherCodes : tx'[r].vouchers[v] = Null
      BY <1>3 DEF NoWrites
    <2> QED BY <1>1, <1>3, <2>1, LocksLocal
  <1> QED BY <1>2, <1>3

LEMMA FlushLocks ==
  ASSUME TypeOK, LocksInv, NEW r \in Requests,
         FlushSession(r) \/ FlushPayment(r) \/ FlushVoucher(r)
  PROVE  LocksInv'
  <1>1. /\ req[r].pc = "flush" /\ Free(r, FlushKeys(r)) /\ tx[r] \in Transactions
        /\ req' = [req EXCEPT ![r] = Applied(req[r])]
        /\ req \in [Requests -> RequestStates] /\ tx \in [Requests -> Transactions]
    BY DEF FlushSession, FlushPayment, FlushVoucher, Flushes, TypeOK
  <1>2. req'[r].pc # "idle"
    BY <1>1, ResultType DEF TypeOK, StagedOK
  <1>3. CASE FlushSession(r)
    <2>1. /\ tx'[r].held = tx[r].held \cup SessionKeys(r)
          /\ tx'[r].sessions = [tx[r].sessions EXCEPT ![Item(r).id] = FlushedSession(r)]
          /\ tx'[r].payments = tx[r].payments /\ tx'[r].vouchers = tx[r].vouchers
          /\ \A q \in Requests \ {r} : req'[q] = req[q] /\ tx'[q] = tx[q]
          /\ FlushKeys(r) = SessionKeys(r)
      BY <1>1, <1>3 DEF FlushSession, Flushes, Transactions, FlushKeys
    <2>2. \A l \in LocalIds : tx'[r].sessions[l] # Null => <<"session", l>> \in tx'[r].held
      BY <1>1, <2>1 DEF LocksInv, Transactions, SessionKeys
    <2>3. /\ \A p \in PaymentIds : tx'[r].payments[p] # Null => <<"payment", p>> \in tx'[r].held
          /\ \A v \in VoucherCodes : tx'[r].vouchers[v] # Null => <<"voucher", v>> \in tx'[r].held
      BY <2>1 DEF LocksInv
    <2> QED BY <1>1, <1>2, <2>1, <2>2, <2>3, LocksLocal
  <1>4. CASE FlushPayment(r)
    <2>1. /\ tx'[r].held = tx[r].held \cup PaymentKeys(r)
          /\ tx'[r].payments = [tx[r].payments EXCEPT ![Item(r).id] = FlushedPayment(r)]
          /\ tx'[r].sessions = tx[r].sessions /\ tx'[r].vouchers = tx[r].vouchers
          /\ \A q \in Requests \ {r} : req'[q] = req[q] /\ tx'[q] = tx[q]
          /\ FlushKeys(r) = PaymentKeys(r)
      BY <1>1, <1>4 DEF FlushPayment, Flushes, Transactions, FlushKeys
    <2>2. \A p \in PaymentIds : tx'[r].payments[p] # Null => <<"payment", p>> \in tx'[r].held
      BY <1>1, <2>1 DEF LocksInv, Transactions, PaymentKeys
    <2>3. /\ \A l \in LocalIds : tx'[r].sessions[l] # Null => <<"session", l>> \in tx'[r].held
          /\ \A v \in VoucherCodes : tx'[r].vouchers[v] # Null => <<"voucher", v>> \in tx'[r].held
      BY <2>1 DEF LocksInv
    <2> QED BY <1>1, <1>2, <2>1, <2>2, <2>3, LocksLocal
  <1>5. CASE FlushVoucher(r)
    <2>1. /\ tx'[r].held = tx[r].held \cup VoucherKeys(r)
          /\ tx'[r].vouchers = [tx[r].vouchers EXCEPT ![Item(r).id] = FlushedVoucher(r)]
          /\ tx'[r].sessions = tx[r].sessions /\ tx'[r].payments = tx[r].payments
          /\ \A q \in Requests \ {r} : req'[q] = req[q] /\ tx'[q] = tx[q]
          /\ FlushKeys(r) = VoucherKeys(r)
      BY <1>1, <1>5 DEF FlushVoucher, Flushes, Transactions, FlushKeys
    <2>2. \A v \in VoucherCodes : tx'[r].vouchers[v] # Null => <<"voucher", v>> \in tx'[r].held
      BY <1>1, <2>1 DEF LocksInv, Transactions, VoucherKeys
    <2>3. /\ \A l \in LocalIds : tx'[r].sessions[l] # Null => <<"session", l>> \in tx'[r].held
          /\ \A p \in PaymentIds : tx'[r].payments[p] # Null => <<"payment", p>> \in tx'[r].held
      BY <2>1 DEF LocksInv
    <2> QED BY <1>1, <1>2, <2>1, <2>2, <2>3, LocksLocal
  <1> QED BY <1>3, <1>4, <1>5

\* No step lets two transactions hold the same lock, or write without one.
LEMMA LocksStep ==
  ASSUME TypeOK, LocksInv, [Next]_vars
  PROVE  LocksInv'
  <1> USE DEF TypeOK
  <1>1. ASSUME NEW r \in Requests, NEW d \in Devices, NEW p \in Payloads, Receive(r, d, p)
        PROVE  LocksInv'
    BY <1>1, LocksSame DEF Receive, Idle
  <1>2. ASSUME NEW r \in Requests, Progress(r) \/ Crash(r)
        PROVE  LocksInv'
    <2>1. CASE ResultStep(r)
      <3>1. req'[r].pc # "idle" /\ tx'[r] = tx[r]
            /\ \A q \in Requests \ {r} : req'[q] = req[q] /\ tx'[q] = tx[q]
        BY <2>1, ResultType DEF ResultStep
      <3> QED BY <3>1, LocksSame
    <2>2. CASE Rollback(r) \/ Commit(r)
      BY <2>2, LocksSame DEF Rollback, Commit
    <2>3. CASE ApplyReport(r)
      <3>1. /\ req[r] \in RequestStates /\ tx[r] \in Transactions
            /\ \A q \in Requests \ {r} : req'[q] = req[q] /\ tx'[q] = tx[q]
        BY <2>3 DEF ApplyReport
      <3>2. /\ req'[r].pc = "lookup"
            /\ tx'[r].held = tx[r].held \cup {DeviceKey(r)}
            /\ tx'[r].sessions = tx[r].sessions /\ tx'[r].payments = tx[r].payments
            /\ tx'[r].vouchers = tx[r].vouchers
        BY <2>3, <3>1 DEF ApplyReport, RequestStates, Transactions
      <3>3. Free(r, {DeviceKey(r)})
        BY <2>3 DEF ApplyReport
      <3> QED BY <3>1, <3>2, <3>3, LocksLocal DEF LocksInv
    <2>4. CASE StageItem(r)
      <3>1. /\ req[r] \in RequestStates /\ UNCHANGED tx
            /\ \A q \in Requests \ {r} : req'[q] = req[q]
        BY <2>4 DEF StageItem
      <3>2. req'[r].pc = "flush"
        BY <2>4, <3>1 DEF StageItem, RequestStates
      <3> QED BY <3>1, <3>2, LocksSame
    <2>5. CASE FlushSession(r) \/ FlushPayment(r) \/ FlushVoucher(r)
      BY <2>5, FlushLocks
    <2> QED
      BY <1>2, <2>1, <2>2, <2>3, <2>4, <2>5, ResultSteps
         DEF Progress, Crash, RejectReport, DeadlockVictim
  <1>3. CASE Admin
    <2>1. UNCHANGED <<req, tx>>
      BY <1>3 DEF Admin, RetireRef, ExpireVoucher, SwapDevice, EditVoucher, Refund, Edit
    <2> QED BY <2>1 DEF LocksInv
  <1>4. CASE UNCHANGED vars
    BY <1>4 DEF vars, LocksInv
  <1> QED BY <1>1, <1>2, <1>3, <1>4 DEF Next

-----------------------------------------------------------------------------
(***************************************************************************)
(* The invariant, from the empty service on.                               *)
(***************************************************************************)
LEMMA InitInv ==
  ASSUME Init
  PROVE  IInv
  <1>1. TypeOK
    <2>1. \A r \in Requests : req[r] = Idle /\ StagedOK(req[r]) /\ req[r].pc = "idle"
      BY DEF Init, Idle, StagedOK
    <2>2. \A p \in PaymentIds : payments[p] = Null
      BY DEF Init
    <2>3. pushes \in 0..MaxPushes /\ edits \in 0..MaxEdits
      BY BoundsAssumption DEF Init
    <2> QED
      BY <2>1, <2>2, <2>3, IdleType, SessionsAssumption, VouchersAssumption
         DEF Init, TypeOK, DeviceRows
  <1>2. LocksInv
    BY DEF Init, LocksInv, NoWrites
  <1>3. TablesInv
    <2>1. OwnershipConsistent /\ AcknowledgedIsStored
      BY VouchersAssumption DEF Init, OwnershipConsistent, AcknowledgedIsStored
    <2>2. VouchersBound
      BY VouchersAssumption DEF Init, VouchersBound, BoundVoucher
    <2> QED BY <2>1, <2>2 DEF TablesInv
  <1>4. \A r \in Requests : RequestInv(r)
    BY DEF Init, RequestInv, WritesOwned, StagedOwned, AppliedVisible, Idle, NoWrites
  <1> QED BY <1>1, <1>2, <1>3, <1>4 DEF IInv

\* While no table changes, the committed rows stay consistent.
LEMMA UnchangedTablesInv ==
  ASSUME TablesInv, UNCHANGED <<tables, former>>
  PROVE  TablesInv'
  BY DEF TablesInv, tables, OwnershipConsistent, AcknowledgedIsStored, HasSession, Owners,
         VouchersBound, BoundVoucher

\* A request's own steps keep what it knows.
LEMMA OwnStepInv ==
  ASSUME IInv, TypeOK', NEW r \in Requests, Progress(r) \/ Crash(r)
  PROVE  RequestInv(r)'
  <1> USE DEF IInv, TypeOK
  <1>1. CASE Rollback(r) \/ Commit(r)
    BY <1>1, EndedInv DEF Rollback, Commit
  <1>2. CASE ApplyReport(r)
    BY <1>2, ApplyReportInv
  <1>3. CASE RefuseItem(r) \/ IntegrityError(r) \/ (DeadlockVictim(r) /\ req[r].pc = "flush")
    <2>1. req[r].todo # <<>> /\ UNCHANGED <<tables, former, tx>>
          /\ req' = [req EXCEPT ![r] = Failed(req[r])]
      BY <1>3, ResultSteps
         DEF ResultStep, RefuseItem, IntegrityError, DeadlockVictim, admin
    <2> QED BY <2>1, FailedInv
  <1>4. CASE KeepItem(r)
    BY <1>4, KeepItemInv
  <1>5. CASE StageItem(r)
    BY <1>5, StageInv DEF TablesInv
  <1>6. CASE FlushSession(r)
    BY <1>6, FlushSessionInv
  <1>7. CASE FlushPayment(r)
    BY <1>7, FlushPaymentInv DEF TablesInv
  <1>8. CASE FlushVoucher(r)
    BY <1>8, FlushVoucherInv DEF TablesInv
  <1> QED
    BY <1>1, <1>2, <1>3, <1>4, <1>5, <1>6, <1>7, <1>8
       DEF Progress, Crash, RejectReport, DeadlockVictim

\* All that a step of r does to the committed tables and to other requests.
LEMMA LocalOrCommit ==
  ASSUME TypeOK, NEW r \in Requests, Progress(r) \/ Crash(r)
  PROVE  /\ Commit(r) \/ UNCHANGED tables
         /\ UNCHANGED former
         /\ \A q \in Requests \ {r} : req'[q] = req[q] /\ tx'[q] = tx[q]
  <1> USE DEF TypeOK, admin
  <1>1. CASE Rollback(r) \/ Commit(r)
    BY <1>1 DEF Rollback, Commit
  <1>2. CASE ApplyReport(r) \/ StageItem(r)
    BY <1>2 DEF ApplyReport, StageItem
  <1>3. CASE ResultStep(r)
    BY <1>3 DEF ResultStep
  <1>4. CASE FlushSession(r) \/ FlushPayment(r) \/ FlushVoucher(r)
    BY <1>4 DEF FlushSession, FlushPayment, FlushVoucher, Flushes
  <1> QED
    BY <1>1, <1>2, <1>3, <1>4, ResultSteps DEF Progress, Crash, RejectReport, DeadlockVictim

\* The invariant is inductive.
LEMMA StepInv ==
  ASSUME IInv, [Next]_vars
  PROVE  IInv'
  <1>1. TypeOK'
    BY TypeStep DEF IInv
  <1>2. LocksInv'
    BY LocksStep DEF IInv
  <1>3. ASSUME NEW r \in Requests, NEW d \in Devices, NEW p \in Payloads, Receive(r, d, p)
        PROVE  TablesInv' /\ \A q \in Requests : RequestInv(q)'
    <2>1. UNCHANGED <<tables, former, tx>> /\ \A q \in Requests \ {r} : req'[q] = req[q]
      BY <1>3 DEF Receive, IInv, TypeOK, admin
    <2>2. RequestInv(r)'
      BY <1>3, ReceiveInv DEF IInv
    <2>3. \A q \in Requests \ {r} : RequestInv(q)'
      BY <2>1, UnchangedTablesKeep, KeptInv DEF IInv
    <2> QED BY <2>1, <2>2, <2>3, UnchangedTablesInv DEF IInv
  <1>4. ASSUME NEW r \in Requests, Progress(r) \/ Crash(r)
        PROVE  TablesInv' /\ \A q \in Requests : RequestInv(q)'
    <2>1. RequestInv(r)'
      BY <1>1, <1>4, OwnStepInv
    <2>2. /\ Commit(r) \/ UNCHANGED tables
          /\ UNCHANGED former
          /\ \A q \in Requests \ {r} : req'[q] = req[q] /\ tx'[q] = tx[q]
      BY <1>4, LocalOrCommit DEF IInv
    <2>3. \A q \in Requests \ {r} : Kept(q)
      BY <2>2, CommitKeeps, UnchangedTablesKeep DEF IInv
    <2>4. \A q \in Requests \ {r} : RequestInv(q)'
      BY <2>3, KeptInv DEF IInv
    <2>5. TablesInv'
      BY <2>2, CommitTables, UnchangedTablesInv DEF IInv
    <2> QED BY <2>1, <2>4, <2>5
  <1>5. CASE Admin
    BY <1>5, AdminTables, AdminKeeps, KeptInv, <1>1, <1>2 DEF IInv
  <1>6. CASE UNCHANGED vars
    <2>1. UNCHANGED <<tables, former, req, tx>>
      BY <1>6 DEF vars, admin
    <2>2. \A q \in Requests : RequestInv(q)'
      BY <2>1, UnchangedTablesKeep, KeptInv DEF IInv
    <2> QED BY <1>1, <1>2, <2>1, <2>2, UnchangedTablesInv DEF IInv
  <1> QED BY <1>1, <1>2, <1>3, <1>4, <1>5, <1>6 DEF Next, IInv

-----------------------------------------------------------------------------
(***************************************************************************)
(* The theorems.                                                           *)
(***************************************************************************)

\* The inductive invariant holds in every reachable state of POST /sync/bulk,
\* for any number of kiosks, handler threads, items and pushes.
THEOREM Inductive == Spec => []IInv
  <1>1. Init => IInv
    BY InitInv
  <1>2. IInv /\ [Next]_vars => IInv'
    BY StepInv
  <1> QED BY <1>1, <1>2, PTL DEF Spec

\* Every table and every open transaction holds rows of its type, and what a
\* flush is about to write is a row of the item's kind.
THEOREM TypeCorrect == Spec => []TypeOK
  <1>1. IInv => TypeOK
    BY DEF IInv
  <1> QED BY <1>1, Inductive, PTL

\* A payment belongs to a session of its own kiosk, and a spent voucher to a
\* session of the kiosk where it was spent: the ownership checks of api/sync.py
\* (lines 111, 167-175 and 232) suffice, although each is made on a copy that
\* other pushes may outdate before the commit.
THEOREM Ownership == Spec => []OwnershipConsistent
  <1>1. IInv => OwnershipConsistent
    BY DEF IInv, TablesInv
  <1> QED BY <1>1, Inductive, PTL

\* What a committed push reported as applied stays in the tables, so that the
\* kiosk may forget it (api/sync.py:390-449).
THEOREM Acknowledgement == Spec => []AcknowledgedIsStored
  <1>1. IInv => AcknowledgedIsStored
    BY DEF IInv, TablesInv
  <1> QED BY <1>1, Inductive, PTL
=============================================================================
