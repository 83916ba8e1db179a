------------------------ MODULE BulkSyncPromiseProofs ------------------------
(***************************************************************************)
(* Proofs of what a push promises its kiosk: it writes the rows of the     *)
(* items it reports as applied and no others, it takes effect in one step  *)
(* of the ledger, and the retry of an item it has acknowledged is applied  *)
(* again and, if no item has two contents, changes nothing.                *)
(***************************************************************************)
EXTENDS BulkSyncUniqueProofs

(***************************************************************************)
(* Written rows stand for applied items.                                   *)
(***************************************************************************)
\* A request without writes, and one whose results grow over the same rows.
LEMMA NoWritesApplied ==
  ASSUME NEW r, tx'[r] = NoWrites
  PROVE  WritesApplied(r)'
  BY DEF WritesApplied, NoWrites

LEMMA SameWritesApplied ==
  ASSUME NEW r, WritesApplied(r), req[r].ok \subseteq req'[r].ok,
         tx'[r].sessions = tx[r].sessions, tx'[r].payments = tx[r].payments,
         tx'[r].vouchers = tx[r].vouchers
  PROVE  WritesApplied(r)'
  BY DEF WritesApplied

\* What the steps of a request that end no transaction do to its results.
LEMMA ResultsGrow ==
  ASSUME TypeOK, NEW r \in Requests, ResultStep(r) \/ ApplyReport(r) \/ StageItem(r)
  PROVE  /\ req[r].ok \subseteq req'[r].ok
         /\ req'[r].device = req[r].device /\ req'[r].pc # "idle"
         /\ tx'[r].sessions = tx[r].sessions /\ tx'[r].payments = tx[r].payments
         /\ tx'[r].vouchers = tx[r].vouchers
  <1>1. req[r] \in RequestStates /\ tx[r] \in Transactions
    BY DEF TypeOK
  <1>2. CASE ResultStep(r)
    BY <1>1, <1>2, ResultType DEF ResultStep, TypeOK
  <1>3. CASE ApplyReport(r)
    <2>1. req'[r] = [req[r] EXCEPT !.pc = "lookup"]
          /\ tx'[r] = [tx[r] EXCEPT !.held = @ \cup {DeviceKey(r)}]
      BY <1>3 DEF ApplyReport, TypeOK
    <2> QED BY <1>1, <2>1 DEF RequestStates, Transactions
  <1>4. CASE StageItem(r)
    <2>1. PICK want \in Wanted(r, Item(r)) :
            req' = [req EXCEPT ![r].pc = "flush", ![r].seen = Row(r, Item(r)), ![r].want = want]
      BY <1>4 DEF StageItem
    <2>2. tx' = tx
      BY <1>4 DEF StageItem
    <2> QED BY <1>1, <2>1, <2>2 DEF TypeOK, RequestStates
  <1> QED BY <1>2, <1>3, <1>4

\* A flush writes one row, that of the item it reports.
LEMMA FlushWritesApplied ==
  ASSUME TypeOK, NEW r \in Requests, WritesApplied(r),
         FlushSession(r) \/ FlushPayment(r) \/ FlushVoucher(r)
  PROVE  WritesApplied(r)'
  <1> DEFINE i == Item(r)
  <1>1. CASE FlushSession(r)
    <2>1. i.kind = "session" /\ req'[r].ok = req[r].ok \cup {i} /\ tx[r] \in Transactions
      BY <1>1, FlushResult DEF FlushSession
    <2>2. /\ \A l \in LocalIds : l # i.id => tx'[r].sessions[l] = tx[r].sessions[l]
          /\ tx'[r].payments = tx[r].payments /\ tx'[r].vouchers = tx[r].vouchers
      BY <1>1, <2>1 DEF FlushSession, TypeOK, Transactions
    <2> QED BY <2>1, <2>2 DEF WritesApplied
  <1>2. CASE FlushPayment(r)
    <2>1. i.kind = "payment" /\ req'[r].ok = req[r].ok \cup {i} /\ tx[r] \in Transactions
      BY <1>2, FlushResult DEF FlushPayment
    <2>2. /\ \A p \in PaymentIds : p # i.id => tx'[r].payments[p] = tx[r].payments[p]
          /\ tx'[r].sessions = tx[r].sessions /\ tx'[r].vouchers = tx[r].vouchers
      BY <1>2, <2>1 DEF FlushPayment, TypeOK, Transactions
    <2> QED BY <2>1, <2>2 DEF WritesApplied
  <1>3. CASE FlushVoucher(r)
    <2>1. i.kind = "voucher" /\ req'[r].ok = req[r].ok \cup {i} /\ tx[r] \in Transactions
      BY <1>3, FlushResult DEF FlushVoucher
    <2>2. /\ \A v \in VoucherCodes : v # i.id => tx'[r].vouchers[v] = tx[r].vouchers[v]
          /\ tx'[r].sessions = tx[r].sessions /\ tx'[r].payments = tx[r].payments
      BY <1>3, <2>1 DEF FlushVoucher, TypeOK, Transactions
    <2> QED BY <2>1, <2>2 DEF WritesApplied
  <1> QED BY <1>1, <1>2, <1>3

\* The steps of a request are those that end its transaction, those that leave
\* its rows alone, and the flushes.
LEMMA OwnSteps ==
  ASSUME TypeOK, NEW r \in Requests, Progress(r) \/ Crash(r)
  PROVE  \/ Rollback(r) \/ Commit(r)
         \/ ResultStep(r) \/ ApplyReport(r) \/ StageItem(r)
         \/ FlushSession(r) \/ FlushPayment(r) \/ FlushVoucher(r)
  BY ResultSteps DEF Progress, Crash, RejectReport, DeadlockVictim

LEMMA StepWritesApplied ==
  ASSUME IInv, [Next]_vars, NEW r \in Requests, WritesApplied(r)
  PROVE  WritesApplied(r)'
  <1> USE DEF IInv, TypeOK
  <1>1. CASE req'[r] = req[r] /\ tx'[r] = tx[r]
    BY <1>1, SameWritesApplied
  <1>2. ASSUME NEW d \in Devices, NEW p \in Payloads, Receive(r, d, p)
        PROVE  WritesApplied(r)'
    BY <1>2, NoWritesApplied DEF Receive, LocksInv
  <1>3. CASE Progress(r) \/ Crash(r)
    <2>1. CASE Rollback(r) \/ Commit(r)
      BY <2>1, NoWritesApplied DEF Rollback, Commit
    <2>2. CASE ResultStep(r) \/ ApplyReport(r) \/ StageItem(r)
      BY <2>2, ResultsGrow, SameWritesApplied
    <2> QED BY <1>3, <2>1, <2>2, OwnSteps, FlushWritesApplied
  <1>4. ASSUME NEW q \in Requests \ {r},
               \/ \E d \in Devices, p \in Payloads : Receive(q, d, p)
               \/ Progress(q) \/ Crash(q)
        PROVE  req'[r] = req[r] /\ tx'[r] = tx[r]
    BY <1>4, LocalOrCommit DEF Receive
  <1>5. CASE Admin \/ UNCHANGED vars
    BY <1>1, <1>5 DEF Admin, RetireRef, ExpireVoucher, SwapDevice, EditVoucher, Refund, Edit, vars
  <1> QED BY <1>1, <1>2, <1>3, <1>4, <1>5 DEF Next
-----------------------------------------------------------------------------
(***************************************************************************)
(* What the checks of an item have found for good.                         *)
(***************************************************************************)
\* An item names things of their kind.
LEMMA ItemRefs ==
  ASSUME NEW i \in Items
  PROVE  /\ i.kind = "session" => i.id \in LocalIds
         /\ i.kind # "session" => i.session \in LocalIds
         /\ i.kind = "payment" => i.id \in PaymentIds /\ i.voucher \in VoucherCodes \cup {Null}
         /\ i.kind = "voucher" => i.id \in VoucherCodes
  BY ItemKinds DEF SessionItems, PaymentItems, VoucherItems

LEMMA PassedItems ==
  ASSUME TypeOK, NEW r \in Requests
  PROVE  Passed(r) \subseteq Items /\ req[r].ok \subseteq Items
  BY KeysType DEF Passed, TypeOK, RequestStates, StagedOK, Item

\* A request that neither moves nor loses anything, codes included.
LEMMA KeptPassed ==
  ASSUME TypeOK, NEW q \in Requests, Kept(q), PassedForGood(q),
         \A l \in LocalIds : Coded(sessions[l]) => Coded(sessions'[l])
  PROVE  PassedForGood(q)'
  <1>1. /\ req'[q] = req[q] /\ tx'[q] = tx[q] /\ Passed(q)' = Passed(q) /\ Item(q)' = Item(q)
        /\ req[q].device \in Devices \cup {Null}
    BY DEF Kept, Passed, Item, TypeOK, RequestStates
  <1>2. \A i \in Passed(q) :
          Understood(i) /\ (i.kind # "session" => SeesSession(q, i.session, req[q].device)')
    BY <1>1, StillSees, PassedItems, ItemRefs DEF PassedForGood
  <1>3. \A l \in LocalIds : Coded(SessionRow(q, l)) => Coded(SessionRow(q, l))'
    BY <1>1 DEF SessionRow, Coded
  <1>4. req[q].pc = "flush" => Item(q) \in Items
    BY PassedItems DEF Passed
  <1>5. \A i \in req[q].ok : i.kind = "session" => Coded(SessionRow(q, i.id))'
    BY <1>3, PassedItems, ItemRefs DEF PassedForGood
  <1>6. (req[q].pc = "flush" /\ Item(q).kind = "session" /\ Coded(req[q].seen))
          => Coded(SessionRow(q, Item(q).id))'
    <2> SUFFICES ASSUME req[q].pc = "flush", Item(q).kind = "session", Coded(req[q].seen)
                 PROVE  Coded(SessionRow(q, Item(q).id))'
      OBVIOUS
    <2>1. Item(q).id \in LocalIds /\ Coded(SessionRow(q, Item(q).id))
      BY <1>4, ItemRefs DEF PassedForGood
    <2> QED BY <1>1, <1>3, <2>1
  <1>7. \A l \in LocalIds : tx[q].sessions[l] # Null => Coded(tx[q].sessions[l])
    BY DEF PassedForGood
  <1> QED BY <1>1, <1>2, <1>5, <1>6, <1>7 DEF PassedForGood, Understood, Coded

\* A request writes sessions with a code, or nothing, and what is new among its
\* items has passed its checks.
LEMMA OwnPassed ==
  ASSUME TypeOK, NEW r \in Requests, PassedForGood(r), WritesOwned(r)',
         UNCHANGED <<sessions, former>>, req'[r].device = req[r].device,
         \A l \in LocalIds : tx'[r].sessions[l] # tx[r].sessions[l] => Coded(tx'[r].sessions[l]),
         \A i \in Passed(r)' \ Passed(r) :
           Understood(i) /\ (i.kind # "session" => SeesSession(r, i.session, req[r].device)),
         Passed(r)' \subseteq Items,
         req'[r].ok \subseteq Items,
         \A i \in req'[r].ok \ req[r].ok : i.kind = "session" => Coded(SessionRow(r, i.id))',
         (req'[r].pc = "flush" /\ Item(r)'.kind = "session" /\ Coded(req'[r].seen))
           => Coded(SessionRow(r, Item(r).id))'
  PROVE  PassedForGood(r)'
  <1>1. \A l \in LocalIds : tx'[r].sessions[l] # Null =>
          Coded(tx'[r].sessions[l]) /\ req[r].device \in Owners(l, tx'[r].sessions[l])
    BY DEF PassedForGood, WritesOwned, Owners
  <1>2. \A l \in LocalIds : tx'[r].sessions[l] = Null => tx[r].sessions[l] = Null
    BY DEF Coded
  <1>3. \A l \in LocalIds :
          SeesSession(r, l, req[r].device) => SeesSession(r, l, req[r].device)'
    BY <1>1, <1>2 DEF SeesSession, SessionRow, Owners
  <1>4. \A l \in LocalIds : Coded(SessionRow(r, l)) => Coded(SessionRow(r, l))'
    BY <1>1, <1>2 DEF SessionRow, Coded
  <1>5. \A i \in Passed(r)' :
          Understood(i) /\ (i.kind # "session" => SeesSession(r, i.session, req[r].device)')
    BY <1>3, ItemRefs DEF PassedForGood
  <1>6. \A i \in req'[r].ok : i.kind = "session" => Coded(SessionRow(r, i.id))'
    BY <1>4, ItemRefs DEF PassedForGood
  <1> QED BY <1>1, <1>5, <1>6 DEF PassedForGood, Understood, Coded

\* An item that is not refused has passed.
LEMMA LookupPasses ==
  ASSUME TypeOK, VouchersBound, NEW r \in Requests, RequestInv(r), LooksUp(r),
         ~Refused(r, Item(r))
  PROVE  LET i == Item(r)
         IN Understood(i) /\ (i.kind # "session" => SeesSession(r, i.session, req[r].device))
  <1> DEFINE i == Item(r)
  <1>1. i \in Items
    BY DEF LooksUp, Item, TypeOK, RequestStates
  <1>2. CASE i.kind = "session"
    BY <1>2 DEF Refused, SessionRefused, Understood
  <1>3. CASE i.kind = "payment"
    <2>1. ~PaymentRefused(r, i) /\ SeesSession(r, i.session, req[r].device)
      BY <1>3, ResolvedSession DEF Refused, PaymentRefused, RequestInv
    <2>2. i.voucher # Null => VoucherRow(r, i.voucher) # Null /\ i.voucher \in VoucherCodes
      BY <1>1, <1>3, <2>1, ItemRefs DEF PaymentRefused
    <2>3. i.voucher # Null => InitialVouchers[i.voucher] # Null
      BY <2>2 DEF VoucherRow, RequestInv, WritesOwned, VouchersBound
    <2> QED BY <1>3, <2>1, <2>3 DEF PaymentRefused, Understood
  <1>4. CASE i.kind = "voucher"
    BY <1>4, ResolvedSession DEF Refused, VoucherRefused, RequestInv, Understood
  <1> QED BY <1>1, <1>2, <1>3, <1>4, ItemKinds
\* A session that is written has a code: a new one, or the one it had.
LEMMA FlushedCode ==
  ASSUME TypeOK, NEW r \in Requests, RequestInv(r), PassedForGood(r), FlushSession(r)
  PROVE  Coded(FlushedSession(r))
  <1>1. /\ Item(r).kind = "session" /\ StagedOK(req[r]) /\ req[r].pc = "flush"
        /\ Item(r) \in Items /\ ~Conflict(r)
    BY FlushResult DEF FlushSession
  <1>2. FlushedSession(r) # Null
    BY <1>1, FlushedType, NullAssumption DEF RequestInv
  <1>3. req[r].want.code # Null
    BY <1>1 DEF StagedOK, Item
  <1>4. CASE req[r].seen = Null
    BY <1>1, <1>2, <1>3, <1>4 DEF FlushedSession, StagedOK, Item, SessionRows, Coded
  <1>5. CASE req[r].seen # Null
    <2>1. FlushedSession(r).code =
            Newer(req[r].seen.code, req[r].want.code, SessionRow(r, Item(r).id).code)
      BY <1>5 DEF FlushedSession
    <2>2. Coded(req[r].seen) => Coded(SessionRow(r, Item(r).id))
      BY <1>1 DEF PassedForGood
    <2> QED BY <1>2, <1>3, <1>5, <2>1, <2>2 DEF Newer, Coded
  <1> QED BY <1>4, <1>5

LEMMA EndedPassed ==
  ASSUME NEW r, req'[r].ok = {}, req'[r].pc # "flush", tx'[r] = NoWrites
  PROVE  PassedForGood(r)'
  BY DEF PassedForGood, Passed, NoWrites

LEMMA FlushPassed ==
  ASSUME IInv, IInv', NEW r \in Requests, PassedForGood(r),
         FlushSession(r) \/ FlushPayment(r) \/ FlushVoucher(r)
  PROVE  PassedForGood(r)'
  <1> DEFINE i == Item(r)
  <1> USE DEF IInv
  <1>1. PICK kind \in {"session", "payment", "voucher"} : Flushes(r, kind)
    BY DEF FlushSession, FlushPayment, FlushVoucher
  <1>2. /\ req[r].pc = "flush" /\ i \in Items /\ tx[r] \in Transactions
        /\ req'[r].pc = "lookup" /\ req'[r].device = req[r].device
        /\ req'[r].ok = req[r].ok \cup {i}
        /\ UNCHANGED <<sessions, former>>
    BY <1>1, FlushResult
  <1>3. Passed(r)' = Passed(r) /\ Passed(r) \subseteq Items /\ req'[r].ok \subseteq Items
    BY <1>2, PassedItems DEF Passed
  <1>w. WritesOwned(r)' /\ TypeOK
    BY DEF RequestInv
  <1>4. CASE FlushSession(r)
    <2>1. i.id \in LocalIds /\ i.kind = "session"
      BY <1>2, <1>4, ItemRefs DEF FlushSession, Flushes
    <2>2. /\ tx'[r].sessions[i.id] = FlushedSession(r)
          /\ \A l \in LocalIds : l # i.id => tx'[r].sessions[l] = tx[r].sessions[l]
      BY <1>2, <1>4, <2>1 DEF FlushSession, TypeOK, Transactions
    <2>3. Coded(FlushedSession(r))
      BY <1>4, FlushedCode
    <2>5. \A j \in req'[r].ok \ req[r].ok : j = i
      BY <1>2
    <2>6. \A j \in req'[r].ok \ req[r].ok : j.kind = "session" => Coded(SessionRow(r, j.id))'
      BY <2>3, <2>2, <2>5 DEF SessionRow, Coded
    <2>7. \A l \in LocalIds : tx'[r].sessions[l] # tx[r].sessions[l] => Coded(tx'[r].sessions[l])
      BY <2>2, <2>3
    <2> QED BY <1>2, <1>3, <1>w, <2>6, <2>7, OwnPassed
  <1>5. CASE FlushPayment(r) \/ FlushVoucher(r)
    <2>1. i.kind # "session" /\ tx'[r].sessions = tx[r].sessions
      BY <1>2, <1>5 DEF FlushPayment, FlushVoucher, Flushes, TypeOK, Transactions
    <2>2. \A j \in req'[r].ok \ req[r].ok : j.kind # "session"
      BY <1>2, <2>1
    <2> QED BY <1>2, <1>3, <1>w, <2>1, <2>2, OwnPassed
  <1> QED BY <1>4, <1>5

LEMMA OwnStepPassed ==
  ASSUME IInv, IInv', NEW r \in Requests, PassedForGood(r), Progress(r) \/ Crash(r)
  PROVE  PassedForGood(r)'
  <1> DEFINE i == Item(r)
  <1> USE DEF IInv
  <1>0. req[r] \in RequestStates /\ req'[r] \in RequestStates /\ tx[r] \in Transactions
    BY DEF TypeOK
  <1>1. CASE Rollback(r) \/ Commit(r)
    <2>1. req'[r] = Idle /\ tx'[r] = NoWrites
      BY <1>1 DEF Rollback, Commit, TypeOK
    <2> QED BY <2>1, EndedPassed DEF Idle
  <1>2. CASE ApplyReport(r)
    <2>1. req'[r] = [req[r] EXCEPT !.pc = "lookup"] /\ req[r].pc = "report"
          /\ tx'[r] = [tx[r] EXCEPT !.held = @ \cup {DeviceKey(r)}]
          /\ UNCHANGED <<sessions, former>>
      BY <1>2 DEF ApplyReport, TypeOK, tables, admin
    <2>2. /\ req'[r].device = req[r].device /\ req'[r].ok = req[r].ok /\ req'[r].pc = "lookup"
          /\ tx'[r].sessions = tx[r].sessions
      BY <1>0, <2>1 DEF RequestStates, Transactions
    <2>3. Passed(r)' \subseteq Passed(r) /\ Passed(r) \subseteq Items
      BY <2>2, PassedItems DEF Passed
    <2> QED BY <2>1, <2>2, <2>3, PassedItems, OwnPassed DEF RequestInv
  <1>3. CASE RefuseItem(r) \/ IntegrityError(r) \/ (DeadlockVictim(r) /\ req[r].pc = "flush")
    <2>1. req[r].todo # <<>> /\ UNCHANGED <<sessions, former, tx>>
          /\ req' = [req EXCEPT ![r] = Failed(req[r])]
      BY <1>3, ResultSteps
         DEF ResultStep, RefuseItem, IntegrityError, DeadlockVictim, tables, admin
    <2>2. req'[r].device = req[r].device /\ req'[r].ok = req[r].ok /\ req'[r].pc = "lookup"
      BY <1>0, <2>1, ResultType DEF TypeOK
    <2>3. Passed(r)' \subseteq Passed(r) /\ Passed(r) \subseteq Items
      BY <2>2, PassedItems DEF Passed
    <2> QED BY <2>1, <2>2, <2>3, PassedItems, OwnPassed DEF RequestInv
  <1>4. CASE KeepItem(r)
    <2>1. /\ LooksUp(r) /\ ~Refused(r, i) /\ Row(r, i) \in Wanted(r, i) /\ req[r].todo # <<>>
          /\ req' = [req EXCEPT ![r] = Applied(req[r])]
          /\ UNCHANGED <<sessions, payments, vouchers, former, tx>>
      BY <1>4 DEF KeepItem, LooksUp, tables, admin
    <2>2. /\ req'[r].device = req[r].device /\ req'[r].ok = req[r].ok \cup {i}
          /\ req'[r].pc = "lookup" /\ i \in Items /\ req[r].device \in Devices
      BY <1>0, <2>1, ResultType DEF TypeOK, Item, LooksUp
    <2>3. Understood(i) /\ (i.kind # "session" => SeesSession(r, i.session, req[r].device))
      BY <2>1, LookupPasses DEF TablesInv
    <2>4. Passed(r)' = req[r].ok \cup {i} /\ req[r].ok \subseteq Items
          /\ req[r].ok \subseteq Passed(r)
      BY <2>2, PassedItems DEF Passed
    <2>5. i.kind = "session" => Coded(SessionRow(r, i.id))
      <3> SUFFICES ASSUME i.kind = "session"
                   PROVE  Coded(SessionRow(r, i.id))
        OBVIOUS
      <3>1. i \in SessionItems /\ ~SessionRefused(r, i) /\ SessionRow(r, i.id) \in WantedSessions(r, i)
        BY <2>1, <2>2, ItemKinds DEF Refused, Row, Wanted
      <3> QED BY <2>2, <3>1, WantedSessionType, NullAssumption DEF Coded
    <2>6. \A l \in LocalIds : SessionRow(r, l)' = SessionRow(r, l)
      BY <2>1 DEF SessionRow
    <2>7. \A j \in req'[r].ok \ req[r].ok : j = i
      BY <2>2
    <2>8. \A j \in req'[r].ok \ req[r].ok : j.kind = "session" => Coded(SessionRow(r, j.id))'
      BY <2>2, <2>5, <2>6, <2>7, ItemRefs DEF Coded
    <2> QED BY <2>1, <2>2, <2>3, <2>4, <2>8, OwnPassed DEF RequestInv
  <1>5. CASE StageItem(r)
    <2>1. PICK want \in Wanted(r, i) :
            req' = [req EXCEPT ![r].pc = "flush", ![r].seen = Row(r, i), ![r].want = want]
      BY <1>5 DEF StageItem
    <2>2. /\ LooksUp(r) /\ ~Refused(r, i)
          /\ UNCHANGED <<sessions, payments, vouchers, former, tx>>
      BY <1>5 DEF StageItem, tables, admin
    <2>3. /\ req'[r].pc = "flush" /\ req'[r].seen = Row(r, i)
          /\ req'[r].device = req[r].device /\ req'[r].ok = req[r].ok
          /\ req'[r].todo = req[r].todo
      BY <1>0, <2>1 DEF TypeOK, RequestStates
    <2>4. Item(r)' = i
      BY <2>3 DEF Item
    <2>5. Understood(i) /\ (i.kind # "session" => SeesSession(r, i.session, req[r].device))
      BY <2>2, LookupPasses DEF TablesInv
    <2>6. i \in Items
      BY <1>0, <2>2 DEF LooksUp, Item, RequestStates
    <2>7. Passed(r)' = req[r].ok \cup {i} /\ req[r].ok \subseteq Items
          /\ req[r].ok \subseteq Passed(r)
      BY <2>3, <2>4, PassedItems DEF Passed
    <2>8. /\ (i.kind = "session" /\ Coded(req'[r].seen)) => Coded(SessionRow(r, i.id))
          /\ \A l \in LocalIds : SessionRow(r, l)' = SessionRow(r, l)
      BY <2>2, <2>3 DEF Row, SessionRow
    <2>9. (Item(r)'.kind = "session" /\ Coded(req'[r].seen)) => Coded(SessionRow(r, Item(r).id))'
      BY <2>4, <2>6, <2>8, ItemRefs DEF Coded
    <2> QED BY <2>2, <2>3, <2>5, <2>6, <2>7, <2>9, OwnPassed DEF RequestInv
  <1> QED
    BY <1>1, <1>2, <1>3, <1>4, <1>5, FlushPassed
       DEF Progress, Crash, RejectReport, DeadlockVictim

\* A session is staged with the code it has, and stays staged as it is.
LEMMA StagedCode ==
  ASSUME TypeOK, NEW r \in Requests, StageItem(r)
  PROVE  KeepsCode(r)'
  <1> DEFINE i == Item(r)
  <1>1. PICK want \in Wanted(r, i) :
          req' = [req EXCEPT ![r].pc = "flush", ![r].seen = Row(r, i), ![r].want = want]
    BY DEF StageItem
  <1>2. req[r] \in RequestStates
    BY DEF TypeOK
  <1>3. req'[r].seen = Row(r, i) /\ req'[r].want = want /\ req'[r].todo = req[r].todo
    BY <1>1, <1>2 DEF TypeOK, RequestStates
  <1>4. Item(r)' = i
    BY <1>3 DEF Item
  <1>5. i \in Items
    BY <1>2 DEF StageItem, LooksUp, Item, RequestStates
  <1>6. ASSUME i.kind = "session", Coded(Row(r, i))
        PROVE  want.code = Row(r, i).code
    <2> DEFINE row == SessionRow(r, i.id)
    <2>1. Row(r, i) = row /\ want \in WantedSessions(r, i) /\ i.id \in LocalIds
      BY <1>5, <1>6, ItemRefs DEF Row, Wanted
    <2>2. row # Null /\ row.code # Null /\ row \in SessionRows
      BY <1>6, <2>1, VisibleType DEF Coded
    <2>3. want = [row EXCEPT !.state = i.state, !.frame = ServerFrame(i.frame), !.booth = i.booth]
      BY <2>1, <2>2 DEF WantedSessions
    <2> QED BY <2>1, <2>2, <2>3 DEF SessionRows
  <1> QED BY <1>3, <1>4, <1>6 DEF KeepsCode, Coded

LEMMA StepKeepsCode ==
  ASSUME IInv, [Next]_vars, NEW r \in Requests, KeepsCode(r)
  PROVE  KeepsCode(r)'
  <1> USE DEF IInv
  <1>0. TypeOK
    OBVIOUS
  <1>1. CASE req'[r] = req[r]
    BY <1>1 DEF KeepsCode, Item, Coded
  <1>2. CASE req'[r].pc # "flush"
    BY <1>2 DEF KeepsCode
  <1>3. ASSUME NEW d \in Devices, NEW p \in Payloads, Receive(r, d, p)
        PROVE  req'[r].pc # "flush"
    BY <1>3 DEF Receive, TypeOK, Idle
  <1>4. CASE Progress(r) \/ Crash(r)
    <2>1. CASE Rollback(r) \/ Commit(r)
      BY <1>2, <2>1 DEF Rollback, Commit, TypeOK, Idle
    <2>2. CASE ResultStep(r)
      BY <1>2, <2>2, ResultType DEF ResultStep, TypeOK
    <2>3. CASE ApplyReport(r)
      BY <1>2, <2>3 DEF ApplyReport, TypeOK, RequestStates
    <2>4. CASE FlushSession(r) \/ FlushPayment(r) \/ FlushVoucher(r)
      BY <1>0, <1>2, <2>4, FlushResult DEF FlushSession, FlushPayment, FlushVoucher
    <2> QED BY <1>0, <1>4, <2>1, <2>2, <2>3, <2>4, OwnSteps, StagedCode
  <1>5. ASSUME NEW q \in Requests \ {r},
               \/ \E d \in Devices, p \in Payloads : Receive(q, d, p)
               \/ Progress(q) \/ Crash(q)
        PROVE  req'[r] = req[r]
    BY <1>0, <1>5, LocalOrCommit DEF Receive, TypeOK
  <1>6. CASE Admin \/ UNCHANGED vars
    BY <1>1, <1>6 DEF Admin, RetireRef, ExpireVoucher, SwapDevice, EditVoucher, Refund, Edit, vars
  <1> QED BY <1>1, <1>2, <1>3, <1>4, <1>5, <1>6 DEF Next
-----------------------------------------------------------------------------
(***************************************************************************)
(* The committed tables, and the whole invariant.                          *)
(***************************************************************************)
\* Sessions keep their code and their owners, and the log keeps its entries.
TablesGrow ==
  /\ UNCHANGED syncLog
  /\ \A l \in LocalIds : Coded(sessions[l]) => Coded(sessions'[l])
  /\ \A l \in LocalIds : \A k : HasSession(l, k) => HasSession(l, k)'
  /\ \A l \in LocalIds : sessions[l] = Null => former'[l] = former[l]
  /\ \A l \in LocalIds : sessions[l] # Null => sessions'[l] # Null

LEMMA TablesGrowInv ==
  ASSUME TypeOK, AcknowledgedForGood, FormerHadSession, TablesGrow
  PROVE  AcknowledgedForGood' /\ FormerHadSession'
  <1>1. \A e \in syncLog : \A i \in e.ok : i \in Items
    BY DEF TypeOK, DeviceSyncLogs
  <1>2. AcknowledgedForGood'
    BY <1>1, ItemRefs DEF AcknowledgedForGood, TablesGrow, Understood, Coded
  <1>3. FormerHadSession'
    BY DEF FormerHadSession, TablesGrow
  <1> QED BY <1>2, <1>3

\* A commit adds what it acknowledges, which it has passed for good.
LEMMA CommitForGood ==
  ASSUME TypeOK, NEW r \in Requests, RequestInv(r), PassedForGood(r),
         AcknowledgedForGood, FormerHadSession, Commit(r)
  PROVE  /\ AcknowledgedForGood' /\ FormerHadSession'
         /\ \A l \in LocalIds : Coded(sessions[l]) => Coded(sessions'[l])
  <1>1. /\ \A l \in LocalIds : sessions'[l] = SessionRow(r, l)
        /\ former' = former
        /\ syncLog' = syncLog \cup
             {[device |-> req[r].device, ok |-> req[r].ok, failed |-> req[r].failed,
               status |-> LogStatus(req[r].ok, req[r].failed)]}
    BY DEF Commit, admin
  <1>2. \A l \in LocalIds : Coded(sessions[l]) => Coded(sessions'[l])
    BY <1>1 DEF SessionRow, PassedForGood, Coded
  <1>3. FormerHadSession'
    BY <1>1 DEF FormerHadSession, SessionRow
  <1>4. AcknowledgedForGood'
    <2> SUFFICES ASSUME NEW e \in syncLog', NEW i \in e.ok
                 PROVE  /\ Understood(i)
                        /\ i.kind = "session" => Coded(sessions'[i.id])
                        /\ i.kind # "session" => HasSession(i.session, e.device)'
      BY DEF AcknowledgedForGood, Understood, Coded
    <2>1. CASE e \in syncLog
      <3>1. i \in Items
        BY <2>1 DEF TypeOK, DeviceSyncLogs
      <3> QED BY <1>2, <2>1, <3>1, ItemRefs, CommitSees DEF AcknowledgedForGood
    <2>2. CASE e \notin syncLog
      <3>1. e.device = req[r].device /\ e.ok = req[r].ok
        BY <1>1, <2>2
      <3>2. i \in Items /\ i \in Passed(r)
        BY <3>1, PassedItems DEF Passed
      <3> QED BY <1>1, <3>1, <3>2, ItemRefs, CommitSees DEF PassedForGood
    <2> QED BY <2>1, <2>2
  <1> QED BY <1>2, <1>3, <1>4

\* The edits of others give sessions away, and leave their codes alone.
LEMMA AdminGrows ==
  ASSUME TypeOK, Admin
  PROVE  TablesGrow
  <1>1. UNCHANGED syncLog
    BY DEF Admin, RetireRef, ExpireVoucher, SwapDevice, EditVoucher, Refund, Edit
  <1>2. CASE \E m \in LocalIds, d \in Devices \cup {Null} : SwapDevice(m, d)
    <2>1. PICK m \in LocalIds, d \in Devices \cup {Null} : SwapDevice(m, d)
      BY <1>2
    <2>2. /\ sessions' = [sessions EXCEPT ![m] = [sessions[m] EXCEPT !.device_id = d]]
          /\ former' = [former EXCEPT ![m] = former[m] \cup {sessions[m].device_id}]
          /\ sessions[m] \in SessionRows /\ sessions[m] # Null
      BY <2>1 DEF SwapDevice, TypeOK
    <2>3. [sessions[m] EXCEPT !.device_id = d].code = sessions[m].code
      BY <2>2 DEF SessionRows
    <2>4. \A l \in LocalIds : l # m => sessions'[l] = sessions[l] /\ former'[l] = former[l]
      BY <2>2 DEF TypeOK
    <2>5. sessions'[m].code = sessions[m].code /\ sessions'[m] # Null
      BY <1>2, <2>2, <2>3, SwapKeeps DEF TypeOK
    <2>6. \A l \in LocalIds : Coded(sessions[l]) => Coded(sessions'[l])
      BY <2>4, <2>5 DEF Coded
    <2> QED BY <1>1, <2>2, <2>4, <2>5, <2>6, SwapKeeps DEF TablesGrow, HasSession
  <1>3. CASE UNCHANGED <<sessions, former>>
    BY <1>1, <1>3 DEF TablesGrow, HasSession, Owners
  <1> QED BY <1>2, <1>3 DEF Admin, RetireRef, ExpireVoucher, EditVoucher, Refund

LEMMA QuietGrows ==
  ASSUME UNCHANGED <<tables, former>>
  PROVE  TablesGrow
  BY DEF TablesGrow, tables, HasSession, Owners

LEMMA StepPromise ==
  ASSUME IInv, IInv', PromiseInv, [Next]_vars
  PROVE  PromiseInv'
  <1> USE DEF IInv
  <1>1. \A r \in Requests : WritesApplied(r)' /\ KeepsCode(r)'
    BY StepWritesApplied, StepKeepsCode DEF PromiseInv
  <1>2. ASSUME NEW r \in Requests, NEW d \in Devices, NEW p \in Payloads, Receive(r, d, p)
        PROVE  AcknowledgedForGood' /\ FormerHadSession' /\ \A q \in Requests : PassedForGood(q)'
    <2>1. /\ UNCHANGED <<tables, former, tx>> /\ \A q \in Requests \ {r} : req'[q] = req[q]
          /\ req'[r].ok = {} /\ req'[r].pc # "flush" /\ tx'[r] = NoWrites
      BY <1>2 DEF Receive, TypeOK, admin, LocksInv, Idle
    <2>2. TablesGrow
      BY <2>1, QuietGrows
    <2>3. \A q \in Requests \ {r} : PassedForGood(q)'
      BY <2>1, <2>2, UnchangedTablesKeep, KeptPassed DEF PromiseInv, TablesGrow
    <2> QED BY <2>1, <2>2, <2>3, EndedPassed, TablesGrowInv DEF PromiseInv
  <1>3. ASSUME NEW r \in Requests, Progress(r) \/ Crash(r)
        PROVE  AcknowledgedForGood' /\ FormerHadSession' /\ \A q \in Requests : PassedForGood(q)'
    <2>1. PassedForGood(r)'
      BY <1>3, OwnStepPassed DEF PromiseInv
    <2>2. /\ Commit(r) \/ UNCHANGED tables
          /\ UNCHANGED former
          /\ \A q \in Requests \ {r} : req'[q] = req[q] /\ tx'[q] = tx[q]
      BY <1>3, LocalOrCommit
    <2>3. /\ AcknowledgedForGood' /\ FormerHadSession'
          /\ \A l \in LocalIds : Coded(sessions[l]) => Coded(sessions'[l])
      BY <2>2, CommitForGood, QuietGrows, TablesGrowInv DEF PromiseInv, TablesGrow
    <2>4. \A q \in Requests \ {r} : Kept(q)
      BY <2>2, CommitKeeps, UnchangedTablesKeep
    <2>5. \A q \in Requests \ {r} : PassedForGood(q)'
      BY <2>3, <2>4, KeptPassed DEF PromiseInv
    <2> QED BY <2>1, <2>3, <2>5
  <1>4. CASE Admin
    <2>1. TablesGrow
      BY <1>4, AdminGrows
    <2>2. \A q \in Requests : PassedForGood(q)'
      BY <1>4, <2>1, AdminKeeps, KeptPassed DEF PromiseInv, TablesGrow
    <2> QED BY <1>1, <2>1, <2>2, TablesGrowInv DEF PromiseInv
  <1>5. CASE UNCHANGED vars
    <2>1. UNCHANGED <<tables, former, req, tx>> /\ TablesGrow
      BY <1>5, QuietGrows DEF vars, admin
    <2>2. \A q \in Requests : PassedForGood(q)'
      BY <2>1, UnchangedTablesKeep, KeptPassed DEF PromiseInv, TablesGrow
    <2> QED BY <1>1, <2>1, <2>2, TablesGrowInv DEF PromiseInv
  <1> QED BY <1>1, <1>2, <1>3, <1>4, <1>5 DEF Next, PromiseInv

LEMMA InitPromise ==
  ASSUME Init
  PROVE  PromiseInv
  <1>1. \A r \in Requests : WritesApplied(r) /\ KeepsCode(r)
    BY DEF Init, WritesApplied, KeepsCode, NoWrites, Idle
  <1>2. \A r \in Requests : PassedForGood(r)
    BY DEF Init, PassedForGood, Passed, NoWrites, Idle
  <1>3. FormerHadSession /\ AcknowledgedForGood
    BY DEF Init, FormerHadSession, AcknowledgedForGood
  <1> QED BY <1>1, <1>2, <1>3 DEF PromiseInv
-----------------------------------------------------------------------------
(***************************************************************************)
(* A retry of an acknowledged item.                                        *)
(***************************************************************************)
\* What the log has acknowledged to a kiosk, its next request sees.
LEMMA AcknowledgedSeen ==
  ASSUME IInv, AcknowledgedForGood, NEW r \in Requests, PassedForGood(r),
         NEW i \in Items, Acknowledged(i, req[r].device)
  PROVE  LET d == req[r].device
         IN /\ Understood(i)
            /\ i.kind = "session" => SeesSession(r, i.id, d) /\ Coded(SessionRow(r, i.id))
            /\ i.kind # "session" => SeesSession(r, i.session, d)
            /\ i.kind = "payment" => PaymentRow(r, i.id).device_id = d
            /\ i.kind = "voucher" =>
                 VoucherRow(r, i.id) # Null /\ VoucherRow(r, i.id).status = "used"
  <1> USE DEF IInv
  <1> DEFINE d == req[r].device
  <1>1. PICK e \in syncLog : e.device = d /\ i \in e.ok
    BY DEF Acknowledged
  <1>2. Understood(i)
    BY <1>1 DEF AcknowledgedForGood
  <1>3. \A l \in LocalIds : HasSession(l, d) => SeesSession(r, l, d)
    BY DEF HasSession, SeesSession, SessionRow, Owners, RequestInv, WritesOwned
  <1>4. i.kind = "session" => SeesSession(r, i.id, d) /\ Coded(SessionRow(r, i.id))
    <2> SUFFICES ASSUME i.kind = "session"
                 PROVE  SeesSession(r, i.id, d) /\ Coded(SessionRow(r, i.id))
      OBVIOUS
    <2>1. i.id \in LocalIds /\ HasSession(i.id, d) /\ Coded(sessions[i.id])
      BY <1>1, ItemRefs DEF TablesInv, AcknowledgedIsStored, AcknowledgedForGood
    <2>2. Coded(SessionRow(r, i.id))
      BY <2>1 DEF SessionRow, PassedForGood
    <2> QED BY <1>3, <2>1, <2>2
  <1>5. i.kind # "session" => SeesSession(r, i.session, d)
    BY <1>1, <1>3, ItemRefs DEF AcknowledgedForGood
  <1>6. i.kind = "payment" => PaymentRow(r, i.id).device_id = d
    BY <1>1, ItemRefs
       DEF TablesInv, AcknowledgedIsStored, PaymentRow, RequestInv, WritesOwned
  <1>7. i.kind = "voucher" => VoucherRow(r, i.id) # Null /\ VoucherRow(r, i.id).status = "used"
    BY <1>1, ItemRefs
       DEF TablesInv, AcknowledgedIsStored, VoucherRow, RequestInv, WritesOwned
  <1> QED BY <1>2, <1>4, <1>5, <1>6, <1>7

\* A session the caller sees does not resolve only if it has been given up.
LEMMA UnresolvedGivenUp ==
  ASSUME NEW r \in Requests, NEW l, SeesSession(r, l, req[r].device),
         Unresolved(r, l) \/ SessionRow(r, l).device_id # req[r].device
  PROVE  req[r].device \in former[l]
  BY DEF SeesSession, Unresolved, Owners

\* At the lookup: only for one of the named reasons is a retry refused.
LEMMA RetryPasses ==
  ASSUME IInv, PromiseInv, NEW r \in Requests, LooksUp(r),
         Acknowledged(Item(r), req[r].device), Refused(r, Item(r))
  PROVE  Outdated(r, Item(r))
  <1> DEFINE i == Item(r)
             d == req[r].device
  <1>1. i \in Items
    BY DEF LooksUp, Item, IInv, TypeOK, RequestStates
  <1>2. /\ Understood(i)
        /\ i.kind = "session" => SeesSession(r, i.id, d) /\ Coded(SessionRow(r, i.id))
        /\ i.kind # "session" => SeesSession(r, i.session, d)
        /\ i.kind = "payment" => PaymentRow(r, i.id).device_id = d
        /\ i.kind = "voucher" => VoucherRow(r, i.id) # Null /\ VoucherRow(r, i.id).status = "used"
    BY <1>1, AcknowledgedSeen DEF PromiseInv
  <1>3. CASE i.kind = "session"
    <2>1. SessionRefused(r, i)
      BY <1>3 DEF Refused
    <2>2. \/ Missing(ServerFrame(i.frame)) \/ Missing(i.booth)
          \/ SessionRow(r, i.id).device_id # d
      BY <1>2, <1>3, <2>1 DEF SessionRefused, Understood, Coded
    <2> QED BY <1>2, <1>3, <2>2, UnresolvedGivenUp DEF Outdated
  <1>4. CASE i.kind = "payment"
    <2>1. PaymentRefused(r, i)
      BY <1>4 DEF Refused
    <2>2. i.voucher # Null => VoucherRow(r, i.voucher) # Null
      BY <1>1, <1>2, <1>4, ItemRefs
         DEF Understood, IInv, TablesInv, VouchersBound, VoucherRow
    <2>3. \/ Unresolved(r, i.session) \/ Missing(i.booth)
          \/ i.voucher # Null /\ VoucherRow(r, i.voucher).deleted
      BY <1>2, <1>4, <2>1, <2>2 DEF PaymentRefused, Understood
    <2> QED BY <1>2, <1>4, <2>3, UnresolvedGivenUp DEF Outdated
  <1>5. CASE i.kind = "voucher"
    <2>1. VoucherRefused(r, i)
      BY <1>5 DEF Refused
    <2>2. \/ Unresolved(r, i.session)
          \/ VoucherRow(r, i.id).device_id # d
          \/ VoucherRow(r, i.id).session # i.session
      BY <1>2, <1>5, <2>1 DEF VoucherRefused
    <2> QED BY <1>2, <1>5, <2>2, UnresolvedGivenUp DEF Outdated
  <1> QED BY <1>1, <1>3, <1>4, <1>5, ItemKinds

\* At the flush: a row that is still the one loaded violates a unique column only
\* with a reference that another payment has, because an acknowledged session has
\* its code, and an acknowledged voucher is spent and would not be written.
LEMMA RetryFlushes ==
  ASSUME IInv, PromiseInv, NEW r \in Requests, req[r].pc = "flush",
         Acknowledged(Item(r), req[r].device), Conflict(r)
  PROVE  Overtaken(r, Item(r))
  <1> DEFINE i == Item(r)
             d == req[r].device
  <1>1. i \in Items
    BY PassedItems DEF Passed, IInv
  <1>2. /\ i.kind = "session" => Coded(SessionRow(r, i.id))
        /\ i.kind = "voucher" => VoucherRow(r, i.id).status = "used"
    BY <1>1, AcknowledgedSeen DEF PromiseInv
  <1>3. CASE i.kind = "session"
    <2> SUFFICES ASSUME SessionRow(r, i.id) = req[r].seen
                 PROVE  FALSE
      BY <1>3 DEF Overtaken, Row
    <2>1. req[r].seen # Null /\ req[r].want.code = req[r].seen.code
      BY <1>2, <1>3 DEF PromiseInv, KeepsCode, Coded
    <2>2. ~SessionConflict(r)
      BY <2>1 DEF SessionConflict, ClaimsCode
    <2> QED BY <1>3, <2>2 DEF Conflict
  <1>4. CASE i.kind = "payment"
    <2>1. PaymentConflict(r)
      BY <1>4 DEF Conflict
    <2>2. CASE req[r].seen = Null /\ PaymentRow(r, i.id) # Null
      BY <1>4, <2>2 DEF Overtaken, Row
    <2> QED BY <1>4, <2>1, <2>2 DEF PaymentConflict, Overtaken
  <1>5. CASE i.kind = "voucher"
    <2>1. req[r].seen.status = "available"
      BY <1>5 DEF IInv, RequestInv, StagedOwned
    <2> QED BY <1>2, <1>5, <2>1 DEF Overtaken, Row
  <1> QED BY <1>1, <1>3, <1>4, <1>5, ItemKinds

LEMMA RetryAcceptable ==
  ASSUME IInv, PromiseInv
  PROVE  RetryStaysAcceptable
  BY RetryPasses, RetryFlushes DEF RetryStaysAcceptable

-----------------------------------------------------------------------------
(***************************************************************************)
(* What a commit writes.                                                   *)
(***************************************************************************)
\* A commit changes rows of its caller, for items it reports as applied.
LEMMA CommitWritesApplied ==
  ASSUME IInv, NEW r \in Requests, WritesApplied(r), Commit(r)
  PROVE  /\ \A l \in LocalIds : sessions'[l] # sessions[l] =>
              AppliedInThisStep("session", l, Owners(l, sessions'[l]))
         /\ \A p \in PaymentIds : payments'[p] # payments[p] =>
              AppliedInThisStep("payment", p, {payments'[p].device_id})
         /\ \A v \in VoucherCodes : vouchers'[v] # vouchers[v] =>
              AppliedInThisStep("voucher", v, {vouchers'[v].device_id})
  <1> USE DEF IInv
  <1>1. /\ req[r].pc # "idle" /\ req'[r].pc = "idle"
        /\ \A l \in LocalIds : sessions'[l] = SessionRow(r, l)
        /\ \A p \in PaymentIds : payments'[p] = PaymentRow(r, p)
        /\ \A v \in VoucherCodes : vouchers'[v] = VoucherRow(r, v)
    BY DEF Commit, AtCommit, TypeOK, Idle
  <1>2. ASSUME NEW l \in LocalIds, sessions'[l] # sessions[l]
        PROVE  AppliedInThisStep("session", l, Owners(l, sessions'[l]))
    <2>1. tx[r].sessions[l] # Null /\ sessions'[l] = tx[r].sessions[l]
      BY <1>1, <1>2 DEF SessionRow
    <2>2. req[r].device \in Owners(l, sessions'[l])
      BY <2>1 DEF RequestInv, WritesOwned
    <2> QED BY <1>1, <2>1, <2>2 DEF WritesApplied, AppliedInThisStep
  <1>3. ASSUME NEW p \in PaymentIds, payments'[p] # payments[p]
        PROVE  AppliedInThisStep("payment", p, {payments'[p].device_id})
    <2>1. tx[r].payments[p] # Null /\ payments'[p] = tx[r].payments[p]
      BY <1>1, <1>3 DEF PaymentRow
    <2>2. req[r].device \in {payments'[p].device_id}
      BY <2>1 DEF RequestInv, WritesOwned
    <2> QED BY <1>1, <2>1, <2>2 DEF WritesApplied, AppliedInThisStep
  <1>4. ASSUME NEW v \in VoucherCodes, vouchers'[v] # vouchers[v]
        PROVE  AppliedInThisStep("voucher", v, {vouchers'[v].device_id})
    <2>1. tx[r].vouchers[v] # Null /\ vouchers'[v] = tx[r].vouchers[v]
      BY <1>1, <1>4 DEF VoucherRow
    <2>2. req[r].device \in {vouchers'[v].device_id}
      BY <2>1 DEF RequestInv, WritesOwned
    <2> QED BY <1>1, <2>1, <2>2 DEF WritesApplied, AppliedInThisStep
  <1> QED BY <1>2, <1>3, <1>4

\* The steps other than a commit and an edit leave the rows alone.
LEMMA RowsChange ==
  ASSUME TypeOK, [Next]_vars
  PROVE  \/ UNCHANGED <<sessions, payments, vouchers, former>>
         \/ \E r \in Requests : Commit(r)
         \/ Admin /\ edits' # edits
  <1>1. ASSUME NEW r \in Requests, NEW d \in Devices, NEW p \in Payloads, Receive(r, d, p)
        PROVE  UNCHANGED <<sessions, payments, vouchers, former>>
    BY <1>1 DEF Receive, tables, admin
  <1>2. ASSUME NEW r \in Requests, Progress(r) \/ Crash(r)
        PROVE  Commit(r) \/ UNCHANGED <<sessions, payments, vouchers, former>>
    BY <1>2, LocalOrCommit DEF tables
  <1>3. CASE Admin
    <2>1. edits' = edits + 1
      BY <1>3 DEF Admin, RetireRef, ExpireVoucher, SwapDevice, EditVoucher, Refund, Edit
    <2>2. edits \in Nat
      BY BoundsAssumption DEF TypeOK
    <2> QED BY <1>3, <2>1, <2>2
  <1>4. CASE UNCHANGED vars
    BY <1>4 DEF vars, tables, admin
  <1> QED BY <1>1, <1>2, <1>3, <1>4 DEF Next
-----------------------------------------------------------------------------
(***************************************************************************)
(* The ledger.                                                             *)
(***************************************************************************)
\* The ledger of well-formed tables is well formed.
LEMMA LedgerType ==
  ASSUME TypeOK
  PROVE  /\ OwnersOf \in [LocalIds -> SUBSET Devices]
         /\ ChargedTo \in [PaymentIds -> LocalIds \cup {Null}]
         /\ SpentFor \in [VoucherCodes -> LocalIds \cup {Null}]
  <1>1. ASSUME NEW l \in LocalIds
        PROVE  (IF sessions[l] = Null THEN {} ELSE Owners(l, sessions[l]) \ {Null}) \subseteq Devices
    BY DEF TypeOK, SessionRows, Owners
  <1>2. ASSUME NEW p \in PaymentIds
        PROVE  (IF payments[p] = Null THEN Null ELSE payments[p].session) \in LocalIds \cup {Null}
    BY DEF TypeOK, PaymentRows
  <1>3. ASSUME NEW v \in VoucherCodes
        PROVE  (IF vouchers[v] = Null THEN Null ELSE vouchers[v].session) \in LocalIds \cup {Null}
    BY DEF TypeOK, VoucherRows
  <1> QED BY <1>1, <1>2, <1>3 DEF OwnersOf, ChargedTo, SpentFor

\* The same after a step.
LEMMA LedgerTypeAfter ==
  ASSUME TypeOK'
  PROVE  /\ OwnersOf' \in [LocalIds -> SUBSET Devices]
         /\ ChargedTo' \in [PaymentIds -> LocalIds \cup {Null}]
         /\ SpentFor' \in [VoucherCodes -> LocalIds \cup {Null}]
  <1>1. ASSUME NEW l \in LocalIds
        PROVE  (IF sessions[l] = Null THEN {} ELSE Owners(l, sessions[l]) \ {Null})' \subseteq Devices
    BY DEF TypeOK, SessionRows, Owners
  <1>2. ASSUME NEW p \in PaymentIds
        PROVE  (IF payments[p] = Null THEN Null ELSE payments[p].session)' \in LocalIds \cup {Null}
    BY DEF TypeOK, PaymentRows
  <1>3. ASSUME NEW v \in VoucherCodes
        PROVE  (IF vouchers[v] = Null THEN Null ELSE vouchers[v].session)' \in LocalIds \cup {Null}
    BY DEF TypeOK, VoucherRows
  <1> QED BY <1>1, <1>2, <1>3 DEF OwnersOf, ChargedTo, SpentFor

\* The kiosks that have a session are its owners in the ledger.
LEMMA LedgerOwner ==
  ASSUME NEW l \in LocalIds, NEW d, d # Null
  PROVE  d \in OwnersOf[l] <=> HasSession(l, d)
  BY DEF OwnersOf, HasSession

\* Unique columns let a session spend one voucher only.
LEMMA LedgerUnique ==
  ASSUME UniqueColumns
  PROVE  Ledger!OneVoucherPerSession(SpentFor)
  BY DEF UniqueColumns, Ledger!OneVoucherPerSession, SpentFor

LEMMA LedgerInit ==
  ASSUME Init
  PROVE  Ledger!Init
  <1>1. ASSUME NEW l \in LocalIds
        PROVE  OwnersOf[l] \in {{}} \cup {{d} : d \in Devices}
    <2>1. sessions[l] \in SessionRows \cup {Null} /\ former[l] = {}
      BY SessionsAssumption DEF Init
    <2>2. CASE sessions[l] = Null
      BY <2>2 DEF OwnersOf
    <2>3. CASE sessions[l] # Null
      <3>1. OwnersOf[l] = {sessions[l].device_id} \ {Null}
        BY <2>1, <2>3 DEF OwnersOf, Owners
      <3>2. sessions[l].device_id \in Devices \cup {Null}
        BY <2>1, <2>3 DEF SessionRows
      <3> QED BY <3>1, <3>2, NullAssumption
    <2> QED BY <2>2, <2>3
  <1>2. OwnersOf \in [LocalIds -> {{}} \cup {{d} : d \in Devices}]
    BY <1>1 DEF OwnersOf
  <1>3. ChargedTo = [p \in PaymentIds |-> Null]
    BY DEF Init, ChargedTo
  <1>4. SpentFor = [v \in VoucherCodes |-> Null]
    BY VouchersAssumption DEF Init, SpentFor
  <1> QED BY <1>2, <1>3, <1>4 DEF Ledger!Init

\* A commit is the push of its caller.
LEMMA CommitPushes ==
  ASSUME IInv, TypeOK', UniqueColumns', FormerHadSession, NEW r \in Requests, Commit(r),
         NEW d, d = req[r].device
  PROVE  d \in Devices /\ Ledger!Push(d)
  <1> USE DEF IInv
  <1>0. d \in Devices /\ d # Null /\ former' = former /\ RequestInv(r)
    BY NullAssumption DEF Commit, AtCommit, TypeOK, admin
  <1>1. /\ OwnersOf' \in [LocalIds -> SUBSET Devices]
        /\ ChargedTo' \in [PaymentIds -> LocalIds \cup {Null}]
        /\ SpentFor' \in [VoucherCodes -> LocalIds \cup {Null}]
    BY LedgerTypeAfter
  <1>2. Ledger!OneVoucherPerSession(SpentFor')
    BY DEF UniqueColumns, Ledger!OneVoucherPerSession, SpentFor
  <1>3. ASSUME NEW l \in LocalIds, OwnersOf'[l] # OwnersOf[l]
        PROVE  OwnersOf[l] = {} /\ OwnersOf'[l] = {d}
    <2>1. sessions'[l] = SessionRow(r, l)
      BY DEF Commit
    <2>2. tx[r].sessions[l] # Null
      BY <1>0, <1>3, <2>1 DEF SessionRow, OwnersOf, Owners
    <2>3. /\ sessions'[l] = tx[r].sessions[l] /\ d \in Owners(l, tx[r].sessions[l])
          /\ sessions[l] # Null => tx[r].sessions[l].device_id = sessions[l].device_id
      BY <1>0, <2>1, <2>2 DEF SessionRow, RequestInv, WritesOwned
    <2>4. sessions[l] = Null
      BY <1>0, <1>3, <2>2, <2>3 DEF OwnersOf, Owners
    <2>5. former[l] = {}
      BY <2>4 DEF FormerHadSession
    <2>6. Owners(l, tx[r].sessions[l]) = {d}
      BY <2>3, <2>5 DEF Owners
    <2> QED BY <1>0, <2>2, <2>3, <2>4, <2>6 DEF OwnersOf, Owners
  <1>4. ASSUME NEW l \in LocalIds, SeesSession(r, l, d)
        PROVE  d \in OwnersOf'[l]
    <2>1. HasSession(l, d)'
      BY <1>0, <1>4, CommitSees
    <2> QED BY <1>0, <2>1 DEF OwnersOf, HasSession, Owners
  <1>5. ASSUME NEW p \in PaymentIds, ChargedTo'[p] # ChargedTo[p]
        PROVE  /\ ChargedTo'[p] # Null /\ d \in OwnersOf'[ChargedTo'[p]]
               /\ ChargedTo[p] # Null => d \in OwnersOf[ChargedTo[p]]
    <2>1. payments'[p] = PaymentRow(r, p)
      BY DEF Commit
    <2>2. tx[r].payments[p] # Null
      BY <1>5, <2>1 DEF PaymentRow, ChargedTo
    <2>3. /\ ChargedTo'[p] = tx[r].payments[p].session
          /\ SeesSession(r, ChargedTo'[p], d) /\ ChargedTo'[p] \in LocalIds
      <3>1. tx[r].payments[p] \in PaymentRows
        BY <2>2 DEF TypeOK, Transactions
      <3>2. ChargedTo'[p] = tx[r].payments[p].session
        BY <2>1, <2>2 DEF PaymentRow, ChargedTo
      <3> QED BY <1>0, <2>2, <3>1, <3>2 DEF RequestInv, WritesOwned, PaymentRows
    <2>4. ChargedTo[p] # Null => d \in OwnersOf[ChargedTo[p]]
      <3> SUFFICES ASSUME ChargedTo[p] # Null
                   PROVE  d \in OwnersOf[ChargedTo[p]]
        OBVIOUS
      <3>1. payments[p] # Null /\ ChargedTo[p] = payments[p].session
        BY DEF ChargedTo
      <3>2. HasSession(ChargedTo[p], d)
        BY <1>0, <2>2, <3>1 DEF RequestInv, WritesOwned, TablesInv, OwnershipConsistent
      <3>3. ChargedTo[p] \in LocalIds
        BY LedgerType
      <3> QED BY <1>0, <3>2, <3>3, LedgerOwner
    <2> QED BY <1>4, <2>3, <2>4, NullAssumption
  <1>6. ASSUME NEW v \in VoucherCodes, SpentFor'[v] # SpentFor[v]
        PROVE  SpentFor'[v] # Null /\ d \in OwnersOf'[SpentFor'[v]]
    <2>1. vouchers'[v] = VoucherRow(r, v)
      BY DEF Commit
    <2>2. tx[r].vouchers[v] # Null
      BY <1>6, <2>1 DEF VoucherRow, SpentFor
    <2>3. SpentFor'[v] = tx[r].vouchers[v].session
      BY <2>1, <2>2 DEF VoucherRow, SpentFor
    <2>4. SeesSession(r, SpentFor'[v], d) /\ SpentFor'[v] # Null
      BY <1>0, <2>2, <2>3 DEF RequestInv, WritesOwned, BoundVoucher
    <2>5. SpentFor'[v] \in LocalIds
      BY <1>1, <2>4
    <2> QED BY <1>4, <2>4, <2>5
  <1> QED BY <1>0, <1>1, <1>2, <1>3, <1>5, <1>6 DEF Ledger!Push
\* A swap to a kiosk gives it the session.  One that had never had an owner is
\* the new kiosk's as if it had been pushed; a swap to no kiosk changes nothing.
LEMMA SwapSwaps ==
  ASSUME TypeOK, TypeOK', UniqueColumns, NEW m \in LocalIds, NEW k \in Devices \cup {Null},
         SwapDevice(m, k)
  PROVE  [Ledger!Next]_(Ledger!vars)
  <1>1. /\ sessions' = [sessions EXCEPT ![m] = [sessions[m] EXCEPT !.device_id = k]]
        /\ former' = [former EXCEPT ![m] = former[m] \cup {sessions[m].device_id}]
        /\ sessions[m] \in SessionRows /\ sessions[m] # Null
        /\ UNCHANGED <<payments, vouchers>>
    BY DEF SwapDevice, TypeOK
  <1>2. [sessions[m] EXCEPT !.device_id = k] \in SessionRows
    BY <1>1 DEF SessionRows
  <1>3. /\ sessions'[m] = [sessions[m] EXCEPT !.device_id = k]
        /\ sessions'[m] # Null /\ sessions'[m].device_id = k
        /\ former'[m] = former[m] \cup {sessions[m].device_id}
        /\ \A l \in LocalIds : l # m => sessions'[l] = sessions[l] /\ former'[l] = former[l]
    BY <1>1, <1>2, NullAssumption DEF TypeOK, SessionRows
  <1>4. OwnersOf'[m] = OwnersOf[m] \cup ({k} \ {Null})
    BY <1>1, <1>3 DEF OwnersOf, Owners
  <1>5. \A l \in LocalIds : l # m => OwnersOf'[l] = OwnersOf[l]
    BY <1>3 DEF OwnersOf, Owners
  <1>6. ChargedTo' = ChargedTo /\ SpentFor' = SpentFor
    BY <1>1 DEF ChargedTo, SpentFor
  <1>7. /\ OwnersOf \in [LocalIds -> SUBSET Devices] /\ OwnersOf' \in [LocalIds -> SUBSET Devices]
        /\ ChargedTo \in [PaymentIds -> LocalIds \cup {Null}]
        /\ SpentFor \in [VoucherCodes -> LocalIds \cup {Null}]
    BY LedgerType, LedgerTypeAfter
  <1>8. CASE k = Null
    <2>1. \A l \in LocalIds : OwnersOf'[l] = OwnersOf[l]
      BY <1>4, <1>5, <1>8
    <2>2. OwnersOf' = OwnersOf
      BY <1>7, <2>1
    <2> QED BY <1>6, <2>2 DEF Ledger!vars
  <1>9. CASE k \in Devices /\ OwnersOf[m] # {}
    <2>1. k # Null
      BY <1>9, NullAssumption
    <2>2. OwnersOf' = [OwnersOf EXCEPT ![m] = OwnersOf[m] \cup {k}]
      BY <1>4, <1>5, <1>7, <2>1
    <2>3. Ledger!Swap(m, k)
      BY <1>6, <1>9, <2>2 DEF Ledger!Swap
    <2> QED BY <1>9, <2>3 DEF Ledger!Next
  <1>10. CASE k \in Devices /\ OwnersOf[m] = {}
    <2>1. k # Null
      BY <1>10, NullAssumption
    <2>2. OwnersOf'[m] = {k}
      BY <1>4, <1>10, <2>1
    <2>3. \A l \in LocalIds : OwnersOf'[l] # OwnersOf[l] => OwnersOf[l] = {} /\ OwnersOf'[l] = {k}
      BY <1>5, <1>10, <2>2
    <2>4. Ledger!Push(k)
      BY <1>6, <1>7, <2>3, LedgerUnique DEF Ledger!Push
    <2> QED BY <1>10, <2>4 DEF Ledger!Next
  <1> QED BY <1>8, <1>9, <1>10

\* The edits of others, swaps apart, are not in the ledger.
LEMMA AdminLedger ==
  ASSUME TypeOK, TypeOK', UniqueColumns, Admin
  PROVE  [Ledger!Next]_(Ledger!vars)
  <1>1. CASE \E m \in LocalIds, k \in Devices \cup {Null} : SwapDevice(m, k)
    BY <1>1, SwapSwaps
  <1>2. CASE \E p \in PaymentIds : Refund(p)
    <2>1. PICK p \in PaymentIds : Refund(p)
      BY <1>2
    <2>2. /\ payments[p] \in PaymentRows /\ UNCHANGED <<sessions, vouchers, former>>
          /\ payments' = [payments EXCEPT ![p] = [payments[p] EXCEPT !.status = "refunded"]]
      BY <2>1 DEF Refund, TypeOK
    <2>3. /\ payments'[p].session = payments[p].session
          /\ [payments[p] EXCEPT !.status = "refunded"] \in PaymentRows
          /\ \A q \in PaymentIds : q # p => payments'[q] = payments[q]
      BY <2>2 DEF TypeOK, PaymentRows, PaymentStatuses
    <2>4. payments'[p] # Null /\ payments[p] # Null
      BY <2>2, <2>3, NullAssumption DEF TypeOK
    <2> QED BY <2>2, <2>3, <2>4 DEF Ledger!vars, OwnersOf, Owners, ChargedTo, SpentFor
  <1>3. CASE \E v \in VoucherCodes : EditVoucher(v)
    <2>1. PICK v \in VoucherCodes : EditVoucher(v)
      BY <1>3
    <2>2. PICK row \in {[vouchers[v] EXCEPT !.status = "voided"],
                        [vouchers[v] EXCEPT !.deleted = TRUE]} :
            /\ vouchers' = [vouchers EXCEPT ![v] = row]
            /\ vouchers[v] \in VoucherRows /\ UNCHANGED <<sessions, payments, former>>
      BY <2>1 DEF EditVoucher, TypeOK
    <2>3. row \in VoucherRows /\ row.session = vouchers[v].session
      BY <2>2 DEF VoucherRows
    <2>4. row # Null /\ vouchers[v] # Null
      BY <2>2, <2>3, NullAssumption
    <2> QED BY <2>2, <2>3, <2>4 DEF Ledger!vars, OwnersOf, Owners, ChargedTo, SpentFor, TypeOK
  <1>4. CASE UNCHANGED <<sessions, payments, vouchers, former>>
    BY <1>4 DEF Ledger!vars, OwnersOf, Owners, ChargedTo, SpentFor
  <1> QED BY <1>1, <1>2, <1>3, <1>4 DEF Admin, RetireRef, ExpireVoucher

\* Every step is a step of the ledger, or none.
LEMMA LedgerStep ==
  ASSUME IInv, IInv', UniqueColumns, UniqueColumns', FormerHadSession, [Next]_vars
  PROVE  [Ledger!Next]_(Ledger!vars)
  <1> USE DEF IInv
  <1>1. CASE UNCHANGED <<sessions, payments, vouchers, former>>
    BY <1>1 DEF Ledger!vars, OwnersOf, Owners, ChargedTo, SpentFor
  <1>2. ASSUME NEW r \in Requests, Commit(r)
        PROVE  Ledger!Next
    BY <1>2, CommitPushes DEF Ledger!Next
  <1>3. CASE Admin
    BY <1>3, AdminLedger
  <1> QED BY <1>1, <1>2, <1>3, RowsChange

-----------------------------------------------------------------------------
(***************************************************************************)
(* Retries, when no item is sent with another content.                     *)
(***************************************************************************)
\* What a request sees of an item that was written is what the item says.
LEMMA SeenStores ==
  ASSUME IInv, NEW sent \in SUBSET Items, NEW r \in Requests, StoredOnce(sent),
         WritesOnce(r, sent), NEW i \in sent
  PROVE  /\ i.kind = "session" /\ SessionRow(r, i.id) # Null =>
              StoresSession(SessionRow(r, i.id), i)
         /\ i.kind = "payment" /\ PaymentRow(r, i.id) # Null =>
              StoresPayment(PaymentRow(r, i.id), i, SessionRow(r, i.session))
         /\ i.kind = "voucher" /\ VoucherRow(r, i.id) # Null
              /\ VoucherRow(r, i.id).status = "used" => VoucherRow(r, i.id).session = i.session
  <1> USE ItemRefs
  <1>1. i.kind = "session" /\ SessionRow(r, i.id) # Null => StoresSession(SessionRow(r, i.id), i)
    BY DEF StoredOnce, WritesOnce, SessionRow
  <1>2. ASSUME i.kind = "payment", PaymentRow(r, i.id) # Null
        PROVE  StoresPayment(PaymentRow(r, i.id), i, SessionRow(r, i.session))
    <2>1. CASE tx[r].payments[i.id] # Null
      BY <1>2, <2>1 DEF WritesOnce, PaymentRow
    <2>2. CASE tx[r].payments[i.id] = Null
      <3>1. PaymentRow(r, i.id) = payments[i.id] /\ payments[i.id] # Null /\ i.id \in PaymentIds
        BY <1>2, <2>2 DEF PaymentRow
      <3>2. StoresPayment(payments[i.id], i, sessions[i.session])
        BY <1>2, <3>1 DEF StoredOnce
      <3>3. sessions[i.session] # Null
        BY <3>1, <3>2 DEF StoresPayment, IInv, TablesInv, OwnershipConsistent, HasSession
      <3>4. SessionRow(r, i.session) = sessions[i.session]
        BY <1>2, <3>3 DEF WritesOnce, SessionRow
      <3> QED BY <3>1, <3>2, <3>4
    <2> QED BY <2>1, <2>2
  <1>3. ASSUME i.kind = "voucher", VoucherRow(r, i.id) # Null, VoucherRow(r, i.id).status = "used"
        PROVE  VoucherRow(r, i.id).session = i.session
    BY <1>3 DEF StoredOnce, WritesOnce, VoucherRow
  <1> QED BY <1>1, <1>2, <1>3

\* A session, or a payment, of the caller that says what the item says is kept.
LEMMA StoredIsWanted ==
  ASSUME NEW r, NEW i
  PROVE  /\ SessionRow(r, i.id) \in SessionRows /\ StoresSession(SessionRow(r, i.id), i)
              /\ SessionRow(r, i.id) # Null => SessionRow(r, i.id) \in WantedSessions(r, i)
         /\ PaymentRow(r, i.id) \in PaymentRows /\ PaymentRow(r, i.id) # Null
              /\ StoresPayment(PaymentRow(r, i.id), i, SessionRow(r, i.session))
              /\ PaymentRow(r, i.id).device_id = req[r].device
                => PaymentRow(r, i.id) \in WantedPayments(r, i)
  <1>1. ASSUME SessionRow(r, i.id) \in SessionRows, StoresSession(SessionRow(r, i.id), i),
               SessionRow(r, i.id) # Null
        PROVE  SessionRow(r, i.id) \in WantedSessions(r, i)
    <2> DEFINE row == SessionRow(r, i.id)
    <2>1. row = [row EXCEPT !.state = i.state, !.frame = ServerFrame(i.frame), !.booth = i.booth]
      <3> HIDE DEF row
      <3> QED BY <1>1 DEF row, StoresSession, SessionRows
    <2>2. row # Null /\ row.code # Null
      BY <1>1 DEF StoresSession
    <2> QED BY <2>1, <2>2 DEF WantedSessions
  <1>2. ASSUME PaymentRow(r, i.id) \in PaymentRows, PaymentRow(r, i.id) # Null,
               StoresPayment(PaymentRow(r, i.id), i, SessionRow(r, i.session)),
               PaymentRow(r, i.id).device_id = req[r].device
        PROVE  PaymentRow(r, i.id) \in WantedPayments(r, i)
    <2> DEFINE row == PaymentRow(r, i.id)
               booth == IF i.booth # Null THEN i.booth ELSE SessionRow(r, i.session).booth
               status == IF row # Null /\ i.status = Null THEN row.status ELSE Canonical(i.status)
    <2>1. row.booth = booth /\ row.status = status /\ row.session = i.session
          /\ row.voucher = i.voucher /\ row.amount = i.amount
          /\ row.provider_ref = i.provider_ref /\ row.device_id = req[r].device
      BY <1>2 DEF StoresPayment
    <2>2. WantedPayments(r, i) =
            {[device_id |-> req[r].device, session |-> i.session, booth |-> booth,
              voucher |-> i.voucher, amount |-> i.amount, status |-> status,
              provider_ref |-> i.provider_ref]}
      BY DEF WantedPayments
    <2> HIDE DEF row, booth, status
    <2>3. row \in PaymentRows
      BY <1>2 DEF row
    <2>4. row = [device_id |-> req[r].device, session |-> i.session, booth |-> booth,
                 voucher |-> i.voucher, amount |-> i.amount, status |-> status,
                 provider_ref |-> i.provider_ref]
      BY <2>1, <2>3 DEF PaymentRows
    <2> QED BY <2>2, <2>4 DEF row
  <1> QED BY <1>1, <1>2

\* So only what was not there is written, and it says what the item says.
LEMMA StagesNew ==
  ASSUME IInv, NEW sent \in SUBSET Items, NEW r \in Requests, StoredOnce(sent),
         WritesOnce(r, sent), StageItem(r)
  PROVE  StagesOnce(r)'
  <1> DEFINE i == Item(r)
             d == req[r].device
  <1> USE DEF IInv
  <1>1. PICK want \in Wanted(r, i) :
          req' = [req EXCEPT ![r].pc = "flush", ![r].seen = Row(r, i), ![r].want = want]
    BY DEF StageItem
  <1>2. /\ ~Refused(r, i) /\ Row(r, i) \notin Wanted(r, i) /\ req[r] \in RequestStates
        /\ req[r].todo # <<>> /\ d \in Devices /\ UNCHANGED <<tables, admin, tx>>
    BY DEF StageItem, LooksUp, TypeOK
  <1>3. i \in sent /\ i \in Items
    BY <1>2 DEF WritesOnce, Item
  <1>4. /\ req'[r].seen = Row(r, i) /\ req'[r].want = want /\ req'[r].todo = req[r].todo
        /\ \A l : SessionRow(r, l)' = SessionRow(r, l)
    BY <1>1, <1>2 DEF TypeOK, RequestStates, SessionRow, tables
  <1>5. Item(r)' = i
    BY <1>4 DEF Item
  <1>6. ASSUME i.kind = "session"
        PROVE  Row(r, i) = Null /\ StoresSession(want, i)
    <2>1. /\ ~SessionRefused(r, i) /\ Row(r, i) = SessionRow(r, i.id) /\ i \in SessionItems
          /\ SessionRow(r, i.id) \notin WantedSessions(r, i) /\ want \in WantedSessions(r, i)
          /\ SessionRow(r, i.id) \in SessionRows \cup {Null}
      BY <1>2, <1>3, <1>6, VisibleType, ItemKinds, ItemRefs DEF Refused, Row, Wanted
    <2>2. SessionRow(r, i.id) = Null
      BY <1>3, <1>6, <2>1, SeenStores, StoredIsWanted
    <2>3. want.code # Null
      BY <1>2, <2>1, WantedSessionType
    <2>4. want.state = i.state /\ want.frame = ServerFrame(i.frame) /\ want.booth = i.booth
      BY <2>1, <2>2 DEF WantedSessions
    <2> QED BY <2>1, <2>2, <2>3, <2>4 DEF StoresSession
  <1>7. ASSUME i.kind = "payment"
        PROVE  Row(r, i) = Null /\ StoresPayment(want, i, SessionRow(r, i.session))
    <2>1. /\ ~PaymentRefused(r, i) /\ Row(r, i) = PaymentRow(r, i.id)
          /\ PaymentRow(r, i.id) \notin WantedPayments(r, i) /\ want \in WantedPayments(r, i)
          /\ PaymentRow(r, i.id) \in PaymentRows \cup {Null}
      BY <1>2, <1>3, <1>7, VisibleType, ItemRefs DEF Refused, Row, Wanted
    <2>2. PaymentRow(r, i.id) = Null
      BY <1>3, <1>7, <2>1, SeenStores, StoredIsWanted DEF PaymentRefused
    <2> QED BY <2>1, <2>2 DEF WantedPayments, StoresPayment
  <1>8. ASSUME i.kind = "voucher"
        PROVE  want.session = i.session
    BY <1>2, <1>3, <1>8, WantedType DEF RequestInv
  <1> QED BY <1>4, <1>5, <1>6, <1>7, <1>8 DEF StagesOnce

\* What is committed stays, but for vouchers that are spent.
RowsLast ==
  /\ former' = former
  /\ \A l \in LocalIds : sessions[l] # Null => sessions'[l] = sessions[l]
  /\ \A p \in PaymentIds : payments[p] # Null => payments'[p] = payments[p]
  /\ \A v \in VoucherCodes : vouchers[v] # Null => vouchers'[v].deleted = vouchers[v].deleted

\* Nothing is committed in the place of what q has written.
WrittenApart(q) ==
  /\ \A l \in LocalIds : tx[q].sessions[l] # Null => sessions'[l] = sessions[l]
  /\ \A p \in PaymentIds : tx[q].payments[p] # Null => payments'[p] = payments[p]

\* A request that does not move sees what it saw.
LEMMA OthersKeepOnce ==
  ASSUME IInv, NEW sent \in SUBSET Items, NEW q \in Requests, WritesOnce(q, sent), StagesOnce(q),
         req'[q] = req[q], tx'[q] = tx[q], RowsLast, WrittenApart(q)
  PROVE  WritesOnce(q, sent)' /\ StagesOnce(q)'
  <1> USE DEF IInv
  <1>1. \A l \in LocalIds : SessionRow(q, l) # Null => SessionRow(q, l)' = SessionRow(q, l)
    BY DEF SessionRow, RowsLast
  <1>2. Item(q)' = Item(q)
    BY DEF Item
  <1>3. ASSUME NEW i \in sent, i.kind = "payment", tx[q].payments[i.id] # Null
        PROVE  StoresPayment(tx[q].payments[i.id], i, SessionRow(q, i.session)')
    <2>1. StoresPayment(tx[q].payments[i.id], i, SessionRow(q, i.session))
          /\ i.id \in PaymentIds /\ i.session \in LocalIds
      BY <1>3, ItemRefs DEF WritesOnce
    <2>2. SessionRow(q, i.session) # Null
      BY <1>3, <2>1 DEF RequestInv, WritesOwned, SeesSession, StoresPayment
    <2> QED BY <1>1, <2>1, <2>2
  <1>4. ASSUME NEW i \in sent, i.kind = "voucher", tx[q].vouchers[i.id] # Null
        PROVE  vouchers'[i.id].deleted = vouchers[i.id].deleted
    BY <1>4, ItemRefs DEF RequestInv, WritesOwned, RowsLast
  <1>5. WritesOnce(q, sent)'
    BY <1>3, <1>4 DEF WritesOnce, WrittenApart, StoresSession, StoresPayment
  <1>6. ASSUME NEW i, i = Item(q), req[q].pc = "flush", i.kind = "payment"
        PROVE  StoresPayment(req[q].want, i, SessionRow(q, i.session)')
    <2>1. StoresPayment(req[q].want, i, SessionRow(q, i.session)) /\ i \in Items
      BY <1>6, PassedItems DEF StagesOnce, Passed
    <2>2. SessionRow(q, i.session) # Null /\ i.session \in LocalIds
      BY <1>6, <2>1, ItemRefs DEF RequestInv, StagedOwned, SeesSession, StoresPayment
    <2> QED BY <1>1, <2>1, <2>2
  <1>7. StagesOnce(q)'
    BY <1>2, <1>6 DEF StagesOnce, StoresSession, StoresPayment
  <1> QED BY <1>5, <1>7

\* A commit adds what was not there, or spends a voucher.
LEMMA CommitLast ==
  ASSUME IInv, NEW sent \in SUBSET Items, NEW r \in Requests, WritesOnce(r, sent),
         WritesApplied(r), Commit(r)
  PROVE  RowsLast /\ \A q \in Requests \ {r} : WrittenApart(q)
  <1> USE DEF IInv
  <1>1. /\ \A l \in LocalIds : sessions'[l] = SessionRow(r, l)
        /\ \A p \in PaymentIds : payments'[p] = PaymentRow(r, p)
        /\ \A v \in VoucherCodes : vouchers'[v] = VoucherRow(r, v)
        /\ former' = former
    BY DEF Commit, admin
  <1>2. ASSUME NEW v \in VoucherCodes
        PROVE  vouchers'[v].deleted = vouchers[v].deleted
    <2>1. CASE tx[r].vouchers[v] = Null
      BY <1>1, <2>1 DEF VoucherRow
    <2>2. CASE tx[r].vouchers[v] # Null
      BY <1>1, <2>2 DEF VoucherRow, WritesApplied, WritesOnce
    <2> QED BY <2>1, <2>2
  <1>3. RowsLast
    BY <1>1, <1>2 DEF RowsLast, WritesOnce, SessionRow, PaymentRow
  <1>4. ASSUME NEW q \in Requests \ {r}
        PROVE  WrittenApart(q)
    <2>1. tx[q].held \cap tx[r].held = {}
      BY DEF LocksInv
    <2>2. ASSUME NEW l \in LocalIds, tx[q].sessions[l] # Null
          PROVE  tx[r].sessions[l] = Null
      <3>1. <<"session", l>> \in tx[q].held
        BY <2>2 DEF LocksInv
      <3>2. tx[r].sessions[l] # Null => <<"session", l>> \in tx[r].held
        BY DEF LocksInv
      <3> QED BY <2>1, <3>1, <3>2
    <2>3. ASSUME NEW p \in PaymentIds, tx[q].payments[p] # Null
          PROVE  tx[r].payments[p] = Null
      <3>1. <<"payment", p>> \in tx[q].held
        BY <2>3 DEF LocksInv
      <3>2. tx[r].payments[p] # Null => <<"payment", p>> \in tx[r].held
        BY DEF LocksInv
      <3> QED BY <2>1, <3>1, <3>2
    <2> QED BY <1>1, <2>2, <2>3 DEF WrittenApart, SessionRow, PaymentRow
  <1> QED BY <1>3, <1>4

LEMMA CommitOnce ==
  ASSUME IInv, NEW sent \in SUBSET Items, NEW r \in Requests, StoredOnce(sent),
         WritesOnce(r, sent), Commit(r)
  PROVE  StoredOnce(sent)'
  <1>1. /\ \A l \in LocalIds : sessions'[l] = SessionRow(r, l)
        /\ \A p \in PaymentIds : payments'[p] = PaymentRow(r, p)
        /\ \A v \in VoucherCodes : vouchers'[v] = VoucherRow(r, v)
        /\ former' = former
    BY DEF Commit, admin
  <1>2. ASSUME NEW i \in sent
        PROVE  /\ i.kind = "session" /\ sessions'[i.id] # Null =>
                    StoresSession(sessions'[i.id], i)
               /\ i.kind = "payment" /\ payments'[i.id] # Null =>
                    StoresPayment(payments'[i.id], i, sessions'[i.session])
               /\ i.kind = "voucher" /\ vouchers'[i.id] # Null /\ vouchers'[i.id].status = "used" =>
                    vouchers'[i.id].session = i.session
    BY <1>1, SeenStores, ItemRefs
  <1> QED BY <1>1, <1>2 DEF StoredOnce, StoresSession, StoresPayment

\* A request whose rows stay as they are, and whose items are among those sent.
LEMMA SameWritesOnce ==
  ASSUME NEW sent, NEW r, WritesOnce(r, sent), UNCHANGED <<sessions, payments, vouchers>>,
         tx'[r].sessions = tx[r].sessions, tx'[r].payments = tx[r].payments,
         tx'[r].vouchers = tx[r].vouchers,
         req'[r].todo \in Seq(sent), req'[r].ok \subseteq sent
  PROVE  WritesOnce(r, sent)'
  <1>1. \A l : SessionRow(r, l)' = SessionRow(r, l)
    BY DEF SessionRow
  <1>2. ASSUME NEW i \in sent, i.kind = "payment", tx'[r].payments[i.id] # Null
        PROVE  StoresPayment(tx'[r].payments[i.id], i, SessionRow(r, i.session)')
    BY <1>1, <1>2 DEF WritesOnce
  <1>3. ASSUME NEW i \in sent, i.kind = "session", tx'[r].sessions[i.id] # Null
        PROVE  StoresSession(tx'[r].sessions[i.id], i)
    BY <1>3 DEF WritesOnce
  <1>4. ASSUME NEW i \in sent, i.kind = "voucher", tx'[r].vouchers[i.id] # Null
        PROVE  /\ tx'[r].vouchers[i.id].session = i.session
               /\ tx'[r].vouchers[i.id].deleted = vouchers'[i.id].deleted
    BY <1>4 DEF WritesOnce
  <1>5. /\ \A l \in LocalIds : tx'[r].sessions[l] # Null => sessions'[l] = Null
        /\ \A p \in PaymentIds : tx'[r].payments[p] # Null => payments'[p] = Null
    BY DEF WritesOnce
  <1> QED BY <1>2, <1>3, <1>4, <1>5 DEF WritesOnce, StoresSession, StoresPayment

LEMMA EndedOnce ==
  ASSUME NEW sent \in SUBSET Items, NEW r, tx'[r] = NoWrites,
         req'[r].todo \in Seq(sent), req'[r].ok = {}, req'[r].pc # "flush"
  PROVE  WritesOnce(r, sent)' /\ StagesOnce(r)'
  <1>1. /\ \A l \in LocalIds : tx'[r].sessions[l] = Null
        /\ \A p \in PaymentIds : tx'[r].payments[p] = Null
        /\ \A v \in VoucherCodes : tx'[r].vouchers[v] = Null
    BY DEF NoWrites
  <1>2. WritesOnce(r, sent)'
    BY <1>1, ItemRefs DEF WritesOnce
  <1> QED BY <1>2 DEF StagesOnce

\* The item that is done leaves the list, and may join the results.
LEMMA ItemDone ==
  ASSUME TypeOK, NEW sent \in SUBSET Items, NEW r \in Requests, WritesOnce(r, sent),
         req[r].todo # <<>>, NEW x \in {Applied(req[r]), Failed(req[r])}, req'[r] = x
  PROVE  /\ Item(r) \in sent
         /\ req'[r].todo \in Seq(sent) /\ req'[r].ok \subseteq sent /\ req'[r].pc = "lookup"
  <1>1. req[r] \in RequestStates /\ req[r].todo \in Seq(sent) /\ req[r].ok \subseteq sent
    BY DEF TypeOK, WritesOnce
  <1>2. Item(r) \in sent /\ Tail(req[r].todo) \in Seq(sent)
    BY <1>1 DEF Item
  <1>3. /\ x.pc = "lookup" /\ x.todo = Tail(req[r].todo)
        /\ x.ok \subseteq req[r].ok \cup {Item(r)}
    BY <1>1 DEF Applied, Failed, NextItem, RequestStates, Item
  <1> QED BY <1>1, <1>2, <1>3

\* A new session says what its item says; nothing refers to it yet.
LEMMA FlushSessionOnce ==
  ASSUME IInv, NEW sent \in SUBSET Items, OneContent(sent), NEW r \in Requests,
         WritesOnce(r, sent), StagesOnce(r), FlushSession(r)
  PROVE  WritesOnce(r, sent)' /\ StagesOnce(r)'
  <1> USE DEF IInv
  <1> DEFINE i == Item(r)
  <1>1. /\ req[r].pc = "flush" /\ i.kind = "session" /\ ~Conflict(r) /\ StagedOK(req[r])
        /\ tx[r] \in Transactions /\ req[r].todo # <<>>
        /\ UNCHANGED <<sessions, payments, vouchers>>
        /\ req'[r] = Applied(req[r])
    BY FlushResult DEF FlushSession, Flushes, TypeOK, StagedOK
  <1>2. /\ i \in sent /\ i.id \in LocalIds
        /\ req'[r].todo \in Seq(sent) /\ req'[r].ok \subseteq sent /\ req'[r].pc = "lookup"
    BY <1>1, ItemDone, ItemRefs
  <1>3. /\ req[r].seen = Null /\ StoresSession(req[r].want, i)
        /\ SessionRow(r, i.id) = Null /\ req[r].want \in SessionRows
    BY <1>1 DEF StagesOnce, Conflict, SessionConflict, StagedOK, Item
  <1>4. StoresSession(FlushedSession(r), i)
    BY <1>3 DEF FlushedSession, StoresSession, SessionRows
  <1>5. /\ tx'[r].sessions = [tx[r].sessions EXCEPT ![i.id] = FlushedSession(r)]
        /\ tx'[r].payments = tx[r].payments /\ tx'[r].vouchers = tx[r].vouchers
    BY <1>1 DEF FlushSession, TypeOK, Transactions
  <1>6. sessions[i.id] = Null /\ tx[r].sessions[i.id] = Null
    BY <1>3 DEF SessionRow
  <1>7. \A l \in LocalIds : l # i.id => SessionRow(r, l)' = SessionRow(r, l)
    BY <1>1, <1>5 DEF SessionRow, Transactions
  <1>8. ASSUME NEW j \in sent, j.kind = "session", tx'[r].sessions[j.id] # Null
        PROVE  StoresSession(tx'[r].sessions[j.id], j)
    <2>1. CASE j.id = i.id
      <3>1. j = i
        BY <1>1, <1>2, <1>8, <2>1 DEF OneContent
      <3> QED BY <1>1, <1>2, <1>4, <1>5, <3>1 DEF Transactions
    <2>2. CASE j.id # i.id
      BY <1>1, <1>5, <1>8, <2>2, ItemRefs DEF WritesOnce, Transactions
    <2> QED BY <2>1, <2>2
  <1>9. ASSUME NEW j \in sent, j.kind = "payment", tx[r].payments[j.id] # Null
        PROVE  StoresPayment(tx[r].payments[j.id], j, SessionRow(r, j.session)')
    <2>1. StoresPayment(tx[r].payments[j.id], j, SessionRow(r, j.session))
          /\ j.id \in PaymentIds /\ j.session \in LocalIds
      BY <1>9, ItemRefs DEF WritesOnce
    <2>2. SessionRow(r, j.session) # Null
      BY <1>9, <2>1 DEF RequestInv, WritesOwned, SeesSession, StoresPayment
    <2> QED BY <1>3, <1>7, <2>1, <2>2
  <1>10. \A l \in LocalIds : tx'[r].sessions[l] # Null => sessions[l] = Null
    BY <1>1, <1>5, <1>6 DEF WritesOnce, Transactions
  <1>11. WritesOnce(r, sent)'
    BY <1>1, <1>2, <1>5, <1>8, <1>9, <1>10 DEF WritesOnce, StoresSession, StoresPayment
  <1> QED BY <1>2, <1>11 DEF StagesOnce

LEMMA FlushPaymentOnce ==
  ASSUME IInv, NEW sent \in SUBSET Items, OneContent(sent), NEW r \in Requests,
         WritesOnce(r, sent), StagesOnce(r), FlushPayment(r)
  PROVE  WritesOnce(r, sent)' /\ StagesOnce(r)'
  <1> USE DEF IInv
  <1> DEFINE i == Item(r)
  <1>1. /\ req[r].pc = "flush" /\ i.kind = "payment" /\ ~Conflict(r)
        /\ tx[r] \in Transactions /\ req[r].todo # <<>>
        /\ UNCHANGED <<sessions, payments, vouchers>>
        /\ req'[r] = Applied(req[r])
    BY FlushResult DEF FlushPayment, Flushes, TypeOK, StagedOK
  <1>2. /\ i \in sent /\ i.id \in PaymentIds
        /\ req'[r].todo \in Seq(sent) /\ req'[r].ok \subseteq sent /\ req'[r].pc = "lookup"
    BY <1>1, ItemDone, ItemRefs
  <1>3. /\ req[r].seen = Null /\ StoresPayment(req[r].want, i, SessionRow(r, i.session))
        /\ PaymentRow(r, i.id) = Null
    BY <1>1 DEF StagesOnce, Conflict, PaymentConflict
  <1>4. FlushedPayment(r) = req[r].want
    BY <1>3 DEF FlushedPayment
  <1>5. /\ tx'[r].payments = [tx[r].payments EXCEPT ![i.id] = FlushedPayment(r)]
        /\ tx'[r].sessions = tx[r].sessions /\ tx'[r].vouchers = tx[r].vouchers
    BY <1>1 DEF FlushPayment, TypeOK, Transactions
  <1>6. payments[i.id] = Null
    BY <1>3 DEF PaymentRow
  <1>7. \A l : SessionRow(r, l)' = SessionRow(r, l)
    BY <1>1, <1>5 DEF SessionRow
  <1>8. ASSUME NEW j \in sent, j.kind = "payment", tx'[r].payments[j.id] # Null
        PROVE  StoresPayment(tx'[r].payments[j.id], j, SessionRow(r, j.session))
    <2>1. CASE j.id = i.id
      <3>1. j = i
        BY <1>1, <1>2, <1>8, <2>1 DEF OneContent
      <3> QED BY <1>1, <1>2, <1>3, <1>4, <1>5, <3>1 DEF Transactions
    <2>2. CASE j.id # i.id
      BY <1>1, <1>5, <1>8, <2>2, ItemRefs DEF WritesOnce, Transactions
    <2> QED BY <2>1, <2>2
  <1>9. \A p \in PaymentIds : tx'[r].payments[p] # Null => payments[p] = Null
    BY <1>1, <1>5, <1>6 DEF WritesOnce, Transactions
  <1>10. WritesOnce(r, sent)'
    BY <1>1, <1>2, <1>5, <1>7, <1>8, <1>9 DEF WritesOnce, StoresSession, StoresPayment
  <1> QED BY <1>2, <1>10 DEF StagesOnce

\* A voucher that is spent keeps what the admin panel has set.
LEMMA FlushVoucherOnce ==
  ASSUME IInv, NEW sent \in SUBSET Items, OneContent(sent), NEW r \in Requests,
         WritesOnce(r, sent), StagesOnce(r), FlushVoucher(r)
  PROVE  WritesOnce(r, sent)' /\ StagesOnce(r)'
  <1> USE DEF IInv
  <1> DEFINE i == Item(r)
  <1>1. /\ req[r].pc = "flush" /\ i.kind = "voucher" /\ StagedOK(req[r])
        /\ tx[r] \in Transactions /\ req[r].todo # <<>>
        /\ UNCHANGED <<sessions, payments, vouchers>>
        /\ req'[r] = Applied(req[r])
    BY FlushResult DEF FlushVoucher, Flushes, TypeOK, StagedOK
  <1>2. /\ i \in sent /\ i.id \in VoucherCodes
        /\ req'[r].todo \in Seq(sent) /\ req'[r].ok \subseteq sent /\ req'[r].pc = "lookup"
    BY <1>1, ItemDone, ItemRefs
  <1>3. /\ req[r].want.session = i.session /\ req[r].want.session # Null
        /\ req[r].seen.session = Null
    BY <1>1 DEF StagesOnce, StagedOK, Item, RequestInv, StagedOwned, BoundVoucher
  <1>4. FlushedVoucher(r).session = i.session
        /\ FlushedVoucher(r).deleted = VoucherRow(r, i.id).deleted
    BY <1>3 DEF FlushedVoucher, Newer
  <1>5. /\ tx'[r].vouchers = [tx[r].vouchers EXCEPT ![i.id] = FlushedVoucher(r)]
        /\ tx'[r].sessions = tx[r].sessions /\ tx'[r].payments = tx[r].payments
    BY <1>1 DEF FlushVoucher, TypeOK, Transactions
  <1>6. VoucherRow(r, i.id).deleted = vouchers[i.id].deleted
    BY <1>1, <1>2 DEF VoucherRow, WritesOnce
  <1>7. \A l : SessionRow(r, l)' = SessionRow(r, l)
    BY <1>1, <1>5 DEF SessionRow
  <1>8. ASSUME NEW j \in sent, j.kind = "voucher", tx'[r].vouchers[j.id] # Null
        PROVE  /\ tx'[r].vouchers[j.id].session = j.session
               /\ tx'[r].vouchers[j.id].deleted = vouchers[j.id].deleted
    <2>1. CASE j.id = i.id
      <3>1. j = i
        BY <1>1, <1>2, <1>8, <2>1 DEF OneContent
      <3> QED BY <1>1, <1>2, <1>4, <1>5, <1>6, <3>1 DEF Transactions
    <2>2. CASE j.id # i.id
      BY <1>1, <1>5, <1>8, <2>2, ItemRefs DEF WritesOnce, Transactions
    <2> QED BY <2>1, <2>2
  <1>9. WritesOnce(r, sent)'
    BY <1>1, <1>2, <1>5, <1>7, <1>8 DEF WritesOnce, StoresSession, StoresPayment
  <1> QED BY <1>2, <1>9 DEF StagesOnce

\* The own steps of a request, and the start of one.
LEMMA OwnStepOnce ==
  ASSUME IInv, NEW sent \in SUBSET Items, OneContent(sent), StoredOnce(sent),
         NEW r \in Requests, WritesOnce(r, sent), StagesOnce(r), Progress(r) \/ Crash(r)
  PROVE  WritesOnce(r, sent)' /\ StagesOnce(r)'
  <1> USE DEF IInv
  <1>0. req[r] \in RequestStates /\ tx[r] \in Transactions
        /\ req[r].todo \in Seq(sent) /\ req[r].ok \subseteq sent
    BY DEF TypeOK, WritesOnce
  <1>1. CASE Rollback(r) \/ Commit(r)
    <2>1. req'[r] = Idle /\ tx'[r] = NoWrites
      BY <1>1 DEF Rollback, Commit, TypeOK
    <2>2. req'[r].todo = <<>> /\ req'[r].ok = {} /\ req'[r].pc = "idle"
      BY <2>1 DEF Idle
    <2>3. req'[r].todo \in Seq(sent)
      BY <2>2
    <2> QED BY <2>1, <2>2, <2>3, EndedOnce
  <1>2. CASE ResultStep(r)
    <2>1. PICK x \in {Applied(req[r]), Failed(req[r])} : req'[r] = x
      BY <1>2 DEF ResultStep, TypeOK
    <2>2. /\ req'[r].todo \in Seq(sent) /\ req'[r].ok \subseteq sent /\ req'[r].pc = "lookup"
          /\ UNCHANGED <<sessions, payments, vouchers, tx>>
      BY <1>2, <2>1, ItemDone DEF ResultStep, tables
    <2> QED BY <2>2, SameWritesOnce DEF StagesOnce
  <1>3. CASE ApplyReport(r)
    <2>1. req'[r] = [req[r] EXCEPT !.pc = "lookup"] /\ UNCHANGED <<sessions, payments, vouchers>>
      BY <1>3 DEF ApplyReport, TypeOK, tables
    <2>2. req'[r].todo = req[r].todo /\ req'[r].ok = req[r].ok /\ req'[r].pc = "lookup"
      BY <1>0, <2>1 DEF RequestStates
    <2> QED BY <1>0, <1>3, <2>1, <2>2, ResultsGrow, SameWritesOnce DEF StagesOnce
  <1>4. CASE StageItem(r)
    <2>1. PICK want \in Wanted(r, Item(r)) :
            req' = [req EXCEPT ![r].pc = "flush", ![r].seen = Row(r, Item(r)), ![r].want = want]
      BY <1>4 DEF StageItem
    <2>2. req'[r].todo = req[r].todo /\ req'[r].ok = req[r].ok
          /\ UNCHANGED <<sessions, payments, vouchers, tx>>
      BY <1>0, <1>4, <2>1 DEF StageItem, TypeOK, RequestStates, tables
    <2> QED BY <1>0, <1>4, <2>2, StagesNew, SameWritesOnce
  <1>5. CASE FlushSession(r) \/ FlushPayment(r) \/ FlushVoucher(r)
    BY <1>5, FlushSessionOnce, FlushPaymentOnce, FlushVoucherOnce
  <1> QED BY <1>1, <1>2, <1>3, <1>4, <1>5, OwnSteps

LEMMA ReceiveOnce ==
  ASSUME IInv, NEW sent \in SUBSET Items, OneContent(sent), NEW r \in Requests,
         NEW d \in Devices, NEW p \in Payloads, Receive(r, d, p)
  PROVE  WritesOnce(r, sent)' /\ StagesOnce(r)'
  <1>1. tx'[r] = NoWrites
    BY DEF Receive, IInv, LocksInv
  <1>2. /\ req'[r].todo = p.sessions \o p.payments \o p.vouchers
        /\ req'[r].ok = {} /\ req'[r].pc # "flush"
    BY DEF Receive, IInv, TypeOK, Idle
  <1> QED BY <1>1, <1>2, EndedOnce DEF OneContent

\* What the edits of others may do here: retire what the catalogue offers, and let
\* vouchers expire.
LeavesRows == edits' # edits => UNCHANGED <<sessions, payments, vouchers>>

LEMMA AdminOnce ==
  ASSUME TypeOK, Admin, LeavesRows
  PROVE  UNCHANGED <<sessions, payments, vouchers, former, req, tx>>
  <1>1. UNCHANGED <<req, tx>> /\ edits' = edits + 1
    BY DEF Admin, RetireRef, ExpireVoucher, SwapDevice, EditVoucher, Refund, Edit
  <1>2. UNCHANGED <<sessions, payments, vouchers>>
    <2>1. edits \in Nat
      BY BoundsAssumption DEF TypeOK
    <2> QED BY <1>1, <2>1 DEF LeavesRows
  <1>3. former' = former
    <2>1. ASSUME NEW l \in LocalIds, NEW d \in Devices \cup {Null}, SwapDevice(l, d)
          PROVE  FALSE
      <3>1. /\ sessions' = [sessions EXCEPT ![l] = [sessions[l] EXCEPT !.device_id = d]]
            /\ sessions[l] \in SessionRows /\ sessions[l].device_id # d
        BY <2>1 DEF SwapDevice, TypeOK
      <3>2. [sessions[l] EXCEPT !.device_id = d].device_id = d
        BY <3>1 DEF SessionRows
      <3>3. sessions'[l].device_id = d
        BY <3>1, <3>2 DEF TypeOK
      <3> QED BY <1>2, <3>1, <3>3
    <2> QED BY <2>1 DEF Admin, RetireRef, ExpireVoucher, EditVoucher, Refund
  <1> QED BY <1>1, <1>2, <1>3

LEMMA StepOnce ==
  ASSUME PushInv, NEW sent \in SUBSET Items, OneContent(sent), RetryInv(sent),
         [Next]_vars, [LeavesRows]_vars
  PROVE  RetryInv(sent)'
  <1> USE DEF PushInv, RetryInv
  <1>0. IInv /\ TypeOK /\ LocksInv /\ \A r \in Requests : WritesApplied(r)
    BY DEF IInv, PromiseInv
  <1>1. ASSUME UNCHANGED <<sessions, payments, vouchers, former>>
        PROVE  /\ StoredOnce(sent)' /\ RowsLast
               /\ \A q \in Requests : WrittenApart(q)
    BY <1>1 DEF StoredOnce, StoresSession, StoresPayment, RowsLast, WrittenApart
  <1>2. ASSUME NEW r \in Requests, NEW d \in Devices, NEW p \in Payloads, Receive(r, d, p)
        PROVE  RetryInv(sent)'
    <2>1. /\ UNCHANGED <<sessions, payments, vouchers, former, tx>>
          /\ \A q \in Requests \ {r} : req'[q] = req[q]
      BY <1>0, <1>2 DEF Receive, TypeOK, tables, admin
    <2>2. WritesOnce(r, sent)' /\ StagesOnce(r)'
      BY <1>0, <1>2, ReceiveOnce
    <2>3. \A q \in Requests \ {r} : WritesOnce(q, sent)' /\ StagesOnce(q)'
      BY <1>0, <1>1, <2>1, OthersKeepOnce
    <2> QED BY <1>1, <2>1, <2>2, <2>3
  <1>3. ASSUME NEW r \in Requests, Progress(r) \/ Crash(r)
        PROVE  RetryInv(sent)'
    <2>1. WritesOnce(r, sent)' /\ StagesOnce(r)'
      BY <1>0, <1>3, OwnStepOnce
    <2>2. /\ Commit(r) \/ UNCHANGED <<sessions, payments, vouchers, former>>
          /\ \A q \in Requests \ {r} : req'[q] = req[q] /\ tx'[q] = tx[q]
      BY <1>0, <1>3, LocalOrCommit DEF tables
    <2>3. /\ StoredOnce(sent)' /\ RowsLast
          /\ \A q \in Requests \ {r} : WrittenApart(q)
      BY <1>0, <1>1, <2>2, CommitLast, CommitOnce
    <2>4. \A q \in Requests \ {r} : WritesOnce(q, sent)' /\ StagesOnce(q)'
      BY <1>0, <2>2, <2>3, OthersKeepOnce
    <2> QED BY <2>1, <2>3, <2>4
  <1>4. CASE Admin \/ UNCHANGED vars
    <2>1. UNCHANGED <<sessions, payments, vouchers, former, req, tx>>
      BY <1>0, <1>4, AdminOnce DEF vars, tables, admin
    <2>2. \A q \in Requests : WritesOnce(q, sent)' /\ StagesOnce(q)'
      BY <1>0, <1>1, <2>1, OthersKeepOnce
    <2> QED BY <1>1, <2>1, <2>2
  <1> QED BY <1>2, <1>3, <1>4 DEF Next

LEMMA InitOnce ==
  ASSUME NEW sent \in SUBSET Items, OneContent(sent), Init
  PROVE  RetryInv(sent)
  <1>1. \A r \in Requests : WritesOnce(r, sent) /\ StagesOnce(r)
    <2> SUFFICES ASSUME NEW r \in Requests
                 PROVE  WritesOnce(r, sent) /\ StagesOnce(r)
      OBVIOUS
    <2>1. /\ \A l \in LocalIds : tx[r].sessions[l] = Null
          /\ \A p \in PaymentIds : tx[r].payments[p] = Null
          /\ \A v \in VoucherCodes : tx[r].vouchers[v] = Null
      BY DEF Init, NoWrites
    <2>2. req[r].todo = <<>> /\ req[r].ok = {} /\ req[r].pc = "idle"
      BY DEF Init, Idle
    <2>3. req[r].todo \in Seq(sent)
      BY <2>2
    <2>4. WritesOnce(r, sent)
      BY <2>1, <2>2, <2>3, ItemRefs DEF WritesOnce
    <2> QED BY <2>2, <2>4 DEF StagesOnce
  <1>2. StoredOnce(sent)
    BY VouchersAssumption, ItemRefs DEF Init, StoredOnce, OneContent
  <1> QED BY <1>1, <1>2 DEF RetryInv

\* When all that a push has applied was acknowledged to its kiosk before, the rows
\* are the ones that are stored.
LEMMA CommitsAgain ==
  ASSUME PushInv, NEW sent \in SUBSET Items, StoredOnce(sent),
         NEW r \in Requests, WritesOnce(r, sent), Commit(r),
         \A i \in req[r].ok : Acknowledged(i, req[r].device)
  PROVE  UNCHANGED <<sessions, payments, vouchers>>
  <1> USE DEF PushInv, IInv, TablesInv
  <1> DEFINE d == req[r].device
  <1>1. ASSUME NEW l \in LocalIds
        PROVE  tx[r].sessions[l] = Null
    <2>1. \A i \in req[r].ok : i.kind = "session" => sessions[i.id] # Null
      BY DEF Acknowledged, AcknowledgedIsStored, HasSession
    <2> QED BY <2>1 DEF WritesOnce, PromiseInv, WritesApplied
  <1>2. ASSUME NEW p \in PaymentIds
        PROVE  tx[r].payments[p] = Null
    <2>1. \A i \in req[r].ok : i.kind = "payment" => payments[i.id] # Null
      BY DEF Acknowledged, AcknowledgedIsStored
    <2> QED BY <2>1 DEF WritesOnce, PromiseInv, WritesApplied
  <1>3. ASSUME NEW v \in VoucherCodes, tx[r].vouchers[v] # Null
        PROVE  tx[r].vouchers[v] = vouchers[v]
    <2>1. PICK i \in req[r].ok : i.kind = "voucher" /\ i.id = v
      BY <1>3 DEF PromiseInv, WritesApplied
    <2>2. i \in sent /\ i.session \in LocalIds
      BY <2>1, ItemRefs DEF WritesOnce
    <2>3. PICK e \in syncLog : e.device = d /\ i \in e.ok
      BY DEF Acknowledged
    <2>4. /\ vouchers[v] # Null /\ vouchers[v].status = "used"
          /\ HasSession(i.session, d)
      BY <2>1, <2>3 DEF AcknowledgedIsStored, PromiseInv, AcknowledgedForGood
    <2>5. vouchers[v].session = i.session /\ former = [l \in LocalIds |-> {}]
      BY <2>1, <2>2, <2>4 DEF StoredOnce
    <2>6. vouchers[v].device_id = d
      <3>1. HasSession(i.session, vouchers[v].device_id)
        BY <2>4, <2>5 DEF OwnershipConsistent
      <3> QED BY <2>2, <2>4, <2>5, <3>1 DEF HasSession, Owners
    <2>7. /\ tx[r].vouchers[v].status = "used" /\ tx[r].vouchers[v].device_id = d
          /\ tx[r].vouchers[v].session = i.session
          /\ tx[r].vouchers[v].deleted = vouchers[v].deleted
      BY <1>3, <2>1, <2>2 DEF RequestInv, WritesOwned, WritesOnce
    <2>8. vouchers[v] \in VoucherRows /\ tx[r].vouchers[v] \in VoucherRows
      BY <1>3, <2>4 DEF TypeOK, Transactions
    <2> QED BY <2>4, <2>5, <2>6, <2>7, <2>8 DEF VoucherRows
  <1>4. /\ sessions' = [l \in LocalIds |-> sessions[l]]
        /\ payments' = [p \in PaymentIds |-> payments[p]]
        /\ vouchers' = [v \in VoucherCodes |-> vouchers[v]]
    BY <1>1, <1>2, <1>3 DEF Commit, SessionRow, PaymentRow, VoucherRow
  <1> QED BY <1>4 DEF TypeOK

-----------------------------------------------------------------------------
(***************************************************************************)
(* The theorems.                                                           *)
(***************************************************************************)

\* The whole inductive invariant, as the runs check it: what each transaction
\* knows, holds and has passed, in every reachable state.
THEOREM PushInductive == Spec => []PushInv
  <1>1. Init => PromiseInv
    BY InitPromise
  <1>2. IInv /\ IInv' /\ PromiseInv /\ [Next]_vars => PromiseInv'
    BY StepPromise
  <1>3. Spec => []PromiseInv
    BY <1>1, <1>2, Inductive, PTL DEF Spec
  <1>4. IInv /\ UniqueInv /\ PromiseInv => PushInv
    BY DEF PushInv
  <1> QED BY <1>3, <1>4, Inductive, UniqueInductive, PTL

\* What was acknowledged and is resent, because the answer was lost, is refused by
\* the checks of api/sync.py:94-121, 216-233 and 258-272 for one of the named
\* reasons only.  Its write violates a unique column (api/sync.py:390-422) only if
\* the row has changed since its lookup, or if a payment had given its reference
\* up and another has taken it.  Nothing is said of a deadlock.
THEOREM RetryAccepted == Spec => []RetryStaysAcceptable
  <1>1. PushInv => RetryStaysAcceptable
    BY RetryAcceptable DEF PushInv
  <1> QED BY <1>1, PushInductive, PTL

\* Only the commit of a push changes session, payment and voucher rows, only its
\* caller's, and only those of items it reports as applied: the savepoints of
\* api/sync.py:405-437 and the rollback of a push that fails leave nothing behind.
THEOREM OnlyAppliedWrite == Spec => OnlyAppliedItemsWrite
  <1> DEFINE Applies ==
        edits' = edits =>
          /\ \A l \in LocalIds : sessions'[l] # sessions[l] =>
               AppliedInThisStep("session", l, Owners(l, sessions'[l]))
          /\ \A p \in PaymentIds : payments'[p] # payments[p] =>
               AppliedInThisStep("payment", p, {payments'[p].device_id})
          /\ \A v \in VoucherCodes : vouchers'[v] # vouchers[v] =>
               AppliedInThisStep("voucher", v, {vouchers'[v].device_id})
  <1>1. PushInv /\ [Next]_vars => Applies
    <2> SUFFICES ASSUME PushInv, [Next]_vars, edits' = edits
                 PROVE  Applies
      OBVIOUS
    <2>1. CASE UNCHANGED <<sessions, payments, vouchers>>
      BY <2>1
    <2>2. ASSUME NEW r \in Requests, Commit(r)
          PROVE  Applies
      BY <2>2, CommitWritesApplied DEF PushInv, PromiseInv
    <2> QED BY <2>1, <2>2, RowsChange DEF PushInv, IInv
  <1>2. Applies => [Applies]_vars
    OBVIOUS
  <1>3. PushInv /\ [Next]_vars => [Applies]_vars
    BY <1>1, <1>2
  <1> HIDE DEF Applies
  <1>4. Spec => [][Applies]_vars
    BY <1>3, PushInductive, PTL DEF Spec
  <1> QED BY <1>4 DEF OnlyAppliedItemsWrite, Applies

\* Seen from outside, POST /sync/bulk is the ledger of OfflineLedger: a push takes
\* effect in one step, in the records of its caller, however it interleaves with
\* others, and of what the admin panel does only a swap is in the ledger.
THEOREM PushesImplementLedger == Spec => ImplementsLedger
  <1>1. Init => Ledger!Init
    BY LedgerInit
  <1>2. PushInv /\ PushInv' /\ [Next]_vars => [Ledger!Next]_(Ledger!vars)
    BY LedgerStep DEF PushInv, UniqueInv, PromiseInv
  <1>3. Spec => Ledger!Spec
    BY <1>1, <1>2, PushInductive, PTL DEF Spec, Ledger!Spec
  <1> QED BY <1>3 DEF ImplementsLedger

\* "Retries are idempotent" (api/sync.py:336): when no item is ever sent with two
\* contents, and only pushes write the rows, then a push whose applied items were
\* all acknowledged before changes nothing, however the pushes interleave.  With
\* two contents an older body may be applied last, and write what it says; a
\* session older than the pushes may get its code from a retry.
THEOREM RetriesIdempotent ==
  ASSUME NEW sent \in SUBSET Items, OneContent(sent)
  PROVE  Spec /\ OthersLeaveRows => RetryChangesNothing
  <1> DEFINE Idempotent ==
        \A r \in Requests :
          (AtCommit(r) /\ req'[r].pc = "idle"
           /\ \A i \in req[r].ok : Acknowledged(i, req[r].device))
          => UNCHANGED <<sessions, payments, vouchers>>
  <1>1. Init => RetryInv(sent)
    BY InitOnce
  <1>2. PushInv /\ RetryInv(sent) /\ [Next]_vars /\ [LeavesRows]_vars => RetryInv(sent)'
    BY StepOnce
  <1>3. PushInv /\ RetryInv(sent) /\ [Next]_vars => [Idempotent]_vars
    <2> SUFFICES ASSUME PushInv, RetryInv(sent), [Next]_vars, NEW r \in Requests,
                        AtCommit(r), req'[r].pc = "idle",
                        \A i \in req[r].ok : Acknowledged(i, req[r].device)
                 PROVE  UNCHANGED <<sessions, payments, vouchers>>
      OBVIOUS
    <2>1. CASE Admin
      <3>1. req' = req
        BY <2>1 DEF Admin, RetireRef, ExpireVoucher, SwapDevice, EditVoucher, Refund, Edit
      <3> QED BY <3>1 DEF AtCommit
    <2>2. ASSUME NEW q \in Requests, Commit(q)
          PROVE  UNCHANGED <<sessions, payments, vouchers>>
      <3>1. q = r
        BY <2>2 DEF Commit, AtCommit, PushInv, IInv, TypeOK
      <3> QED BY <2>2, <3>1, CommitsAgain DEF RetryInv
    <2> QED BY <2>1, <2>2, RowsChange DEF PushInv, IInv
  <1>4. OthersLeaveRows => [][LeavesRows]_vars
    BY DEF OthersLeaveRows, LeavesRows
  <1>5. [][Idempotent]_vars => RetryChangesNothing
    BY DEF RetryChangesNothing
  <1> HIDE DEF Idempotent
  <1> QED BY <1>1, <1>2, <1>3, <1>4, <1>5, PushInductive, PTL DEF Spec
=============================================================================
