------------------------ MODULE BulkSyncUniqueProofs ------------------------
(***************************************************************************)
(* Proof that concurrent pushes keep the unique columns unique, although   *)
(* each picks its values from rows it read before others committed.        *)
(***************************************************************************)
EXTENDS BulkSyncProofs

(***************************************************************************)
(* Columns.                                                                *)
(***************************************************************************)
\* A commit of q publishes a column to r: T is committed, Q and R are what the
\* two have written, to the rows WQ and WR.
Publishes(kind, T, Q, WQ, SeenQ, heldQ, R, WR, SeenR, heldR, After) ==
  \A x \in DOMAIN After :
    /\ SeenQ[x] = IF x \in WQ THEN Q[x] ELSE T[x]
    /\ SeenR[x] = IF x \in WR THEN R[x] ELSE T[x]
    /\ After[x] = IF x \in WR THEN R[x] ELSE SeenQ[x]
    /\ x \notin WQ \/ x \notin WR
    /\ x \in WQ => (Q[x] = Null \/ Q[x] = T[x] \/ <<kind, Q[x]>> \in heldQ)
    /\ x \in WR => (R[x] = Null \/ R[x] = T[x] \/ <<kind, R[x]>> \in heldR)

\* Both hold what they have claimed, and they have written different rows.
LEMMA OneCommit ==
  ASSUME NEW Ids, NEW kind, NEW T, NEW SeenQ, NEW SeenR, NEW After,
         NEW Q, NEW WQ, NEW heldQ, DOMAIN SeenQ = Ids, Distinct(SeenQ),
         NEW R, NEW WR, NEW heldR, DOMAIN SeenR = Ids, Distinct(SeenR),
         DOMAIN After = Ids, heldQ \cap heldR = {},
         Publishes(kind, T, Q, WQ, SeenQ, heldQ, R, WR, SeenR, heldR, After)
  PROVE  Distinct(After)
  <1> USE DEF Publishes
  <1>1. ASSUME NEW x \in Ids, NEW y \in Ids, x # y, x \notin WR, After[x] # Null,
               After[x] = After[y]
        PROVE  FALSE
    <2>1. SeenQ[x] # SeenQ[y] /\ After[x] = SeenQ[x]
      BY <1>1 DEF Distinct
    <2>2. y \in WR /\ y \notin WQ /\ After[y] = R[y] /\ R[y] # T[y]
      BY <1>1, <2>1
    <2>3. x \in WQ /\ Q[x] # T[x]
      <3>1. SeenR[x] # SeenR[y]
        BY <1>1, <2>2 DEF Distinct
      <3> QED BY <1>1, <2>2, <3>1
    <2>4. <<kind, R[y]>> \in heldR /\ <<kind, Q[x]>> \in heldQ /\ Q[x] = R[y]
      BY <1>1, <2>2, <2>3
    <2> QED BY <2>4
  <1>2. ASSUME NEW x \in Ids, NEW y \in Ids, x # y, x \in WR, y \in WR, After[x] # Null
        PROVE  After[x] # After[y]
    BY <1>2 DEF Distinct
  <1>3. ASSUME NEW x \in Ids, NEW y \in Ids, x # y, After[x] # Null
        PROVE  After[x] # After[y]
    BY <1>1, <1>2, <1>3
  <1> QED BY <1>3 DEF Distinct

\* A flush writes a value that no other row has, or leaves the column alone.
LEMMA OneFlush ==
  ASSUME NEW Ids, NEW column, DOMAIN column = Ids, Distinct(column), NEW x \in Ids, NEW value,
         \/ value = Null \/ value = column[x]
         \/ \A y \in Ids \ {x} : column[y] # value
  PROVE  Distinct([column EXCEPT ![x] = value])
  BY DEF Distinct

\* The committed columns are distinct, and they are what a request sees that has
\* written nothing.
LEMMA SeenAfresh ==
  ASSUME UniqueColumns, NEW r \in Requests, tx[r] = NoWrites
  PROVE  SeesNothingTwice(r) /\ HoldsClaims(r)
  <1>1. /\ \A l \in LocalIds : SessionRow(r, l) = sessions[l]
        /\ \A p \in PaymentIds : PaymentRow(r, p) = payments[p]
        /\ \A v \in VoucherCodes : VoucherRow(r, v) = vouchers[v]
    BY DEF NoWrites, SessionRow, PaymentRow, VoucherRow
  <1>2. Distinct(CodesSeen(r))
    BY <1>1 DEF UniqueColumns, CodesSeen, Distinct, CodeOf
  <1>3. Distinct(ReferencesSeen(r))
    BY <1>1 DEF UniqueColumns, ReferencesSeen, Distinct, ReferenceOf
  <1>4. Distinct(SessionsSeen(r))
    BY <1>1 DEF UniqueColumns, SessionsSeen, Distinct, SpentOn
  <1> QED BY <1>2, <1>3, <1>4 DEF SeesNothingTwice, HoldsClaims, NoWrites

\* The same once a request has ended.
LEMMA SeenOnceEnded ==
  ASSUME UniqueColumns', NEW r \in Requests, tx'[r] = NoWrites
  PROVE  (SeesNothingTwice(r) /\ HoldsClaims(r))'
  <1>1. /\ \A l \in LocalIds : SessionRow(r, l)' = sessions'[l]
        /\ \A p \in PaymentIds : PaymentRow(r, p)' = payments'[p]
        /\ \A v \in VoucherCodes : VoucherRow(r, v)' = vouchers'[v]
    BY DEF NoWrites, SessionRow, PaymentRow, VoucherRow
  <1>2. Distinct(CodesSeen(r)')
    BY <1>1 DEF UniqueColumns, CodesSeen, Distinct, CodeOf
  <1>3. Distinct(ReferencesSeen(r)')
    BY <1>1 DEF UniqueColumns, ReferencesSeen, Distinct, ReferenceOf
  <1>4. Distinct(SessionsSeen(r)')
    BY <1>1 DEF UniqueColumns, SessionsSeen, Distinct, SpentOn
  <1>5. HoldsClaims(r)'
    BY DEF HoldsClaims, NoWrites
  <1> QED BY <1>2, <1>3, <1>4, <1>5 DEF SeesNothingTwice

-----------------------------------------------------------------------------
(***************************************************************************)
(* Steps that leave the columns alone.                                     *)
(***************************************************************************)
\* The committed columns stay.
SameCommitted ==
  /\ \A l \in LocalIds : CodeOf(sessions'[l]) = CodeOf(sessions[l])
  /\ \A p \in PaymentIds : ReferenceOf(payments'[p]) = ReferenceOf(payments[p])
  /\ \A v \in VoucherCodes : SpentOn(vouchers'[v]) = SpentOn(vouchers[v])

\* So do the rows of a request, and it keeps its locks.
SameColumns(r) ==
  /\ SameCommitted
  /\ tx'[r].sessions = tx[r].sessions /\ tx'[r].payments = tx[r].payments
  /\ tx'[r].vouchers = tx[r].vouchers /\ tx[r].held \subseteq tx'[r].held

LEMMA SameColumnsKeep ==
  ASSUME NEW r \in Requests, SeesNothingTwice(r), HoldsClaims(r), SameColumns(r)
  PROVE  (SeesNothingTwice(r) /\ HoldsClaims(r))'
  <1>1. CodesSeen(r)' = CodesSeen(r)
    BY DEF SameColumns, SameCommitted, CodesSeen, SessionRow
  <1>2. ReferencesSeen(r)' = ReferencesSeen(r)
    BY DEF SameColumns, SameCommitted, ReferencesSeen, PaymentRow
  <1>3. SessionsSeen(r)' = SessionsSeen(r)
    BY DEF SameColumns, SameCommitted, SessionsSeen, VoucherRow
  <1>4. HoldsClaims(r)'
    BY DEF SameColumns, SameCommitted, HoldsClaims
  <1> QED BY <1>1, <1>2, <1>3, <1>4 DEF SeesNothingTwice

\* The admin panel writes no unique column.
LEMMA AdminColumns ==
  ASSUME TypeOK, Admin
  PROVE  SameCommitted /\ UNCHANGED tx
  <1>1. UNCHANGED tx
    BY DEF Admin, RetireRef, ExpireVoucher, SwapDevice, EditVoucher, Refund, Edit
  <1>2. ASSUME NEW l \in LocalIds
        PROVE  CodeOf(sessions'[l]) = CodeOf(sessions[l])
    <2>1. CASE UNCHANGED sessions
      BY <2>1
    <2>2. CASE \E m \in LocalIds, d \in Devices \cup {Null} : SwapDevice(m, d)
      <3>1. PICK m \in LocalIds, d \in Devices \cup {Null} : SwapDevice(m, d)
        BY <2>2
      <3>2. sessions[m] \in SessionRows /\ sessions[m] # Null
        BY <3>1 DEF SwapDevice, TypeOK
      <3>3. [sessions[m] EXCEPT !.device_id = d] \in SessionRows
            /\ [sessions[m] EXCEPT !.device_id = d].code = sessions[m].code
        BY <3>2 DEF SessionRows
      <3>4. sessions' = [sessions EXCEPT ![m] = [sessions[m] EXCEPT !.device_id = d]]
        BY <3>1 DEF SwapDevice
      <3> QED BY <3>2, <3>3, <3>4, NullAssumption DEF CodeOf, TypeOK
    <2> QED BY <2>1, <2>2 DEF Admin, RetireRef, ExpireVoucher, EditVoucher, Refund
  <1>3. ASSUME NEW p \in PaymentIds
        PROVE  ReferenceOf(payments'[p]) = ReferenceOf(payments[p])
    <2>1. CASE UNCHANGED payments
      BY <2>1
    <2>2. CASE \E q \in PaymentIds : Refund(q)
      <3>1. PICK q \in PaymentIds : Refund(q)
        BY <2>2
      <3>2. payments[q] \in PaymentRows /\ payments[q] # Null
        BY <3>1 DEF Refund, TypeOK
      <3>3. [payments[q] EXCEPT !.status = "refunded"] \in PaymentRows
            /\ [payments[q] EXCEPT !.status = "refunded"].provider_ref = payments[q].provider_ref
        BY <3>2 DEF PaymentRows, PaymentStatuses
      <3>4. payments' = [payments EXCEPT ![q] = [payments[q] EXCEPT !.status = "refunded"]]
        BY <3>1 DEF Refund
      <3> QED BY <3>2, <3>3, <3>4, NullAssumption DEF ReferenceOf, TypeOK
    <2> QED BY <2>1, <2>2 DEF Admin, RetireRef, ExpireVoucher, SwapDevice, EditVoucher
  <1>4. ASSUME NEW v \in VoucherCodes
        PROVE  SpentOn(vouchers'[v]) = SpentOn(vouchers[v])
    <2>1. CASE UNCHANGED vouchers
      BY <2>1
    <2>2. CASE \E w \in VoucherCodes : EditVoucher(w)
      <3>1. PICK w \in VoucherCodes : EditVoucher(w)
        BY <2>2
      <3>2. vouchers[w] \in VoucherRows /\ vouchers[w] # Null
        BY <3>1 DEF EditVoucher, TypeOK
      <3> DEFINE voided == [vouchers[w] EXCEPT !.status = "voided"]
                 gone == [vouchers[w] EXCEPT !.deleted = TRUE]
      <3>3. /\ voided \in VoucherRows /\ voided.session = vouchers[w].session
            /\ gone \in VoucherRows /\ gone.session = vouchers[w].session
        BY <3>2 DEF VoucherRows
      <3>4. \/ vouchers' = [vouchers EXCEPT ![w] = voided]
            \/ vouchers' = [vouchers EXCEPT ![w] = gone]
        BY <3>1 DEF EditVoucher
      <3> HIDE DEF voided, gone
      <3> QED BY <3>2, <3>3, <3>4, NullAssumption DEF SpentOn, TypeOK
    <2> QED BY <2>1, <2>2 DEF Admin, RetireRef, ExpireVoucher, SwapDevice, Refund
  <1> QED BY <1>1, <1>3, <1>4, <1>2 DEF SameCommitted

\* The same columns are as distinct as they were.
LEMMA SameUnique ==
  ASSUME UniqueColumns, SameCommitted
  PROVE  UniqueColumns'
  <1>1. ASSUME NEW l \in LocalIds, NEW m \in LocalIds,
               l # m, sessions'[l] # Null, sessions'[m] # Null, sessions'[l].code # Null
        PROVE  sessions'[l].code # sessions'[m].code
    BY <1>1 DEF SameCommitted, UniqueColumns, CodeOf
  <1>2. ASSUME NEW p \in PaymentIds, NEW q \in PaymentIds, p # q, payments'[p] # Null,
               payments'[q] # Null, payments'[p].provider_ref # Null
        PROVE  payments'[p].provider_ref # payments'[q].provider_ref
    BY <1>2 DEF SameCommitted, UniqueColumns, ReferenceOf
  <1>3. ASSUME NEW v \in VoucherCodes, NEW w \in VoucherCodes,
               v # w, vouchers'[v] # Null, vouchers'[w] # Null, vouchers'[v].session # Null
        PROVE  vouchers'[v].session # vouchers'[w].session
    BY <1>3 DEF SameCommitted, UniqueColumns, SpentOn
  <1> QED BY <1>1, <1>2, <1>3 DEF UniqueColumns

-----------------------------------------------------------------------------
(***************************************************************************)
(* The commit.                                                             *)
(***************************************************************************)
\* What a request sees when it commits is what is committed.
LEMMA CommitUnique ==
  ASSUME NEW r \in Requests, SeesNothingTwice(r), Commit(r)
  PROVE  UniqueColumns'
  <1>1. /\ sessions' = [l \in LocalIds |-> SessionRow(r, l)]
        /\ payments' = [p \in PaymentIds |-> PaymentRow(r, p)]
        /\ vouchers' = [v \in VoucherCodes |-> VoucherRow(r, v)]
    BY DEF Commit
  <1>2. ASSUME NEW l \in LocalIds, NEW m \in LocalIds,
               l # m, sessions'[l] # Null, sessions'[m] # Null, sessions'[l].code # Null
        PROVE  sessions'[l].code # sessions'[m].code
    <2>1. Distinct([k \in LocalIds |-> CodeOf(SessionRow(r, k))])
      BY DEF SeesNothingTwice, CodesSeen
    <2> QED BY <1>1, <1>2, <2>1 DEF Distinct, CodeOf
  <1>3. ASSUME NEW p \in PaymentIds, NEW q \in PaymentIds, p # q, payments'[p] # Null,
               payments'[q] # Null, payments'[p].provider_ref # Null
        PROVE  payments'[p].provider_ref # payments'[q].provider_ref
    <2>1. Distinct([k \in PaymentIds |-> ReferenceOf(PaymentRow(r, k))])
      BY DEF SeesNothingTwice, ReferencesSeen
    <2> QED BY <1>1, <1>3, <2>1 DEF Distinct, ReferenceOf
  <1>4. ASSUME NEW v \in VoucherCodes, NEW w \in VoucherCodes,
               v # w, vouchers'[v] # Null, vouchers'[w] # Null, vouchers'[v].session # Null
        PROVE  vouchers'[v].session # vouchers'[w].session
    <2>1. Distinct([k \in VoucherCodes |-> SpentOn(VoucherRow(r, k))])
      BY DEF SeesNothingTwice, SessionsSeen
    <2> QED BY <1>1, <1>4, <2>1 DEF Distinct, SpentOn
  <1> QED BY <1>2, <1>3, <1>4 DEF UniqueColumns

\* Another request does not see a value twice because of it.
LEMMA CommitSeen ==
  ASSUME TypeOK, LocksInv, NEW q \in Requests, SeesNothingTwice(q), HoldsClaims(q), Commit(q),
         NEW r \in Requests, r # q, SeesNothingTwice(r), HoldsClaims(r)
  PROVE  (SeesNothingTwice(r) /\ HoldsClaims(r))'
  <1>0. tx[q].held \cap tx[r].held = {}
    BY DEF LocksInv
  <1>1. /\ tx'[r] = tx[r]
        /\ sessions' = [l \in LocalIds |-> SessionRow(q, l)]
        /\ payments' = [p \in PaymentIds |-> PaymentRow(q, p)]
        /\ vouchers' = [v \in VoucherCodes |-> VoucherRow(q, v)]
    BY DEF Commit, TypeOK
  <1>2. /\ \A l \in LocalIds : tx[q].sessions[l] = Null \/ tx[r].sessions[l] = Null
        /\ \A p \in PaymentIds : tx[q].payments[p] = Null \/ tx[r].payments[p] = Null
        /\ \A v \in VoucherCodes : tx[q].vouchers[v] = Null \/ tx[r].vouchers[v] = Null
    BY <1>0 DEF LocksInv
  <1>3. Distinct(CodesSeen(r))'
    <2> DEFINE T == [l \in LocalIds |-> CodeOf(sessions[l])]
               Q == [l \in LocalIds |-> CodeOf(tx[q].sessions[l])]
               R == [l \in LocalIds |-> CodeOf(tx[r].sessions[l])]
               WQ == {l \in LocalIds : tx[q].sessions[l] # Null}
               WR == {l \in LocalIds : tx[r].sessions[l] # Null}
               SeenQ == CodesSeen(q)
               SeenR == CodesSeen(r)
               After == [l \in LocalIds |->
                           CodeOf(IF tx[r].sessions[l] = Null THEN SessionRow(q, l) ELSE tx[r].sessions[l])]
    <2>1. /\ DOMAIN SeenQ = LocalIds /\ DOMAIN SeenR = LocalIds /\ DOMAIN After = LocalIds
          /\ Distinct(SeenQ) /\ Distinct(SeenR)
      BY DEF CodesSeen, SeesNothingTwice
    <2>2. ASSUME NEW l \in LocalIds
          PROVE  /\ SeenQ[l] = IF l \in WQ THEN Q[l] ELSE T[l]
                 /\ SeenR[l] = IF l \in WR THEN R[l] ELSE T[l]
                 /\ After[l] = IF l \in WR THEN R[l] ELSE SeenQ[l]
      BY DEF CodesSeen, SessionRow
    <2>3. ASSUME NEW l \in LocalIds
          PROVE  /\ l \notin WQ \/ l \notin WR
                 /\ l \in WQ => (Q[l] = Null \/ Q[l] = T[l]
                                    \/ <<"code", Q[l]>> \in tx[q].held)
                 /\ l \in WR => (R[l] = Null \/ R[l] = T[l]
                                    \/ <<"code", R[l]>> \in tx[r].held)
      BY <1>2 DEF HoldsClaims
    <2>4. Distinct(After)
      <3> HIDE DEF T, Q, R, WQ, WR, SeenQ, SeenR, After
      <3>1. Publishes("code", T, Q, WQ, SeenQ, tx[q].held, R, WR, SeenR, tx[r].held, After)
        BY <2>1, <2>2, <2>3 DEF Publishes
      <3> QED BY <1>0, <2>1, <3>1, OneCommit
    <2>5. CodesSeen(r)' = After
      BY <1>1 DEF CodesSeen, SessionRow
    <2> QED BY <2>4, <2>5 DEF Distinct
  <1>4. Distinct(ReferencesSeen(r))'
    <2> DEFINE T == [p \in PaymentIds |-> ReferenceOf(payments[p])]
               Q == [p \in PaymentIds |-> ReferenceOf(tx[q].payments[p])]
               R == [p \in PaymentIds |-> ReferenceOf(tx[r].payments[p])]
               WQ == {p \in PaymentIds : tx[q].payments[p] # Null}
               WR == {p \in PaymentIds : tx[r].payments[p] # Null}
               SeenQ == ReferencesSeen(q)
               SeenR == ReferencesSeen(r)
               After == [p \in PaymentIds |->
                           ReferenceOf(IF tx[r].payments[p] = Null THEN PaymentRow(q, p) ELSE tx[r].payments[p])]
    <2>1. /\ DOMAIN SeenQ = PaymentIds /\ DOMAIN SeenR = PaymentIds /\ DOMAIN After = PaymentIds
          /\ Distinct(SeenQ) /\ Distinct(SeenR)
      BY DEF ReferencesSeen, SeesNothingTwice
    <2>2. ASSUME NEW p \in PaymentIds
          PROVE  /\ SeenQ[p] = IF p \in WQ THEN Q[p] ELSE T[p]
                 /\ SeenR[p] = IF p \in WR THEN R[p] ELSE T[p]
                 /\ After[p] = IF p \in WR THEN R[p] ELSE SeenQ[p]
      BY DEF ReferencesSeen, PaymentRow
    <2>3. ASSUME NEW p \in PaymentIds
          PROVE  /\ p \notin WQ \/ p \notin WR
                 /\ p \in WQ => (Q[p] = Null \/ Q[p] = T[p]
                                    \/ <<"provider", Q[p]>> \in tx[q].held)
                 /\ p \in WR => (R[p] = Null \/ R[p] = T[p]
                                    \/ <<"provider", R[p]>> \in tx[r].held)
      BY <1>2 DEF HoldsClaims
    <2>4. Distinct(After)
      <3> HIDE DEF T, Q, R, WQ, WR, SeenQ, SeenR, After
      <3>1. Publishes("provider", T, Q, WQ, SeenQ, tx[q].held, R, WR, SeenR, tx[r].held, After)
        BY <2>1, <2>2, <2>3 DEF Publishes
      <3> QED BY <1>0, <2>1, <3>1, OneCommit
    <2>5. ReferencesSeen(r)' = After
      BY <1>1 DEF ReferencesSeen, PaymentRow
    <2> QED BY <2>4, <2>5 DEF Distinct
  <1>5. Distinct(SessionsSeen(r))'
    <2> DEFINE T == [v \in VoucherCodes |-> SpentOn(vouchers[v])]
               Q == [v \in VoucherCodes |-> SpentOn(tx[q].vouchers[v])]
               R == [v \in VoucherCodes |-> SpentOn(tx[r].vouchers[v])]
               WQ == {v \in VoucherCodes : tx[q].vouchers[v] # Null}
               WR == {v \in VoucherCodes : tx[r].vouchers[v] # Null}
               SeenQ == SessionsSeen(q)
               SeenR == SessionsSeen(r)
               After == [v \in VoucherCodes |->
                           SpentOn(IF tx[r].vouchers[v] = Null THEN VoucherRow(q, v) ELSE tx[r].vouchers[v])]
    <2>1. /\ DOMAIN SeenQ = VoucherCodes /\ DOMAIN SeenR = VoucherCodes /\ DOMAIN After = VoucherCodes
          /\ Distinct(SeenQ) /\ Distinct(SeenR)
      BY DEF SessionsSeen, SeesNothingTwice
    <2>2. ASSUME NEW v \in VoucherCodes
          PROVE  /\ SeenQ[v] = IF v \in WQ THEN Q[v] ELSE T[v]
                 /\ SeenR[v] = IF v \in WR THEN R[v] ELSE T[v]
                 /\ After[v] = IF v \in WR THEN R[v] ELSE SeenQ[v]
      BY DEF SessionsSeen, VoucherRow
    <2>3. ASSUME NEW v \in VoucherCodes
          PROVE  /\ v \notin WQ \/ v \notin WR
                 /\ v \in WQ => (Q[v] = Null \/ Q[v] = T[v]
                                    \/ <<"redeems", Q[v]>> \in tx[q].held)
                 /\ v \in WR => (R[v] = Null \/ R[v] = T[v]
                                    \/ <<"redeems", R[v]>> \in tx[r].held)
      BY <1>2 DEF HoldsClaims
    <2>4. Distinct(After)
      <3> HIDE DEF T, Q, R, WQ, WR, SeenQ, SeenR, After
      <3>1. Publishes("redeems", T, Q, WQ, SeenQ, tx[q].held, R, WR, SeenR, tx[r].held, After)
        BY <2>1, <2>2, <2>3 DEF Publishes
      <3> QED BY <1>0, <2>1, <3>1, OneCommit
    <2>5. SessionsSeen(r)' = After
      BY <1>1 DEF SessionsSeen, VoucherRow
    <2> QED BY <2>4, <2>5 DEF Distinct
  <1>6. HoldsClaims(r)'
    <2>1. /\ \A l \in LocalIds : tx[r].sessions[l] # Null => sessions'[l] = sessions[l]
          /\ \A p \in PaymentIds : tx[r].payments[p] # Null => payments'[p] = payments[p]
          /\ \A v \in VoucherCodes : tx[r].vouchers[v] # Null => vouchers'[v] = vouchers[v]
      BY <1>1, <1>2 DEF SessionRow, PaymentRow, VoucherRow
    <2> QED BY <1>1, <2>1 DEF HoldsClaims
  <1> QED BY <1>3, <1>4, <1>5, <1>6 DEF SeesNothingTwice

-----------------------------------------------------------------------------
(***************************************************************************)
(* The flushes.                                                            *)
(***************************************************************************)
\* A session takes a code that is free and claims it, or keeps its own.
LEMMA FlushSessionUnique ==
  ASSUME TypeOK, NEW r \in Requests, RequestInv(r), SeesNothingTwice(r), HoldsClaims(r),
         FlushSession(r)
  PROVE  (SeesNothingTwice(r) /\ HoldsClaims(r))'
  <1> DEFINE i == Item(r)
             new == FlushedSession(r)
             row == SessionRow(r, i.id)
             value == new.code
  <1>1. /\ req[r].pc = "flush" /\ i.kind = "session" /\ ~SessionConflict(r) /\ i \in Items
        /\ StagedOK(req[r]) /\ StagedOwned(r) /\ tx[r] \in Transactions
        /\ UNCHANGED <<sessions, payments, vouchers>>
    BY FlushResult DEF FlushSession, Conflict, RequestInv
  <1>2. i.id \in LocalIds /\ new # Null
    BY <1>1, ItemKinds, FlushedType, FlushResult, NullAssumption DEF SessionItems, FlushSession
  <1>3. /\ tx'[r].sessions = [tx[r].sessions EXCEPT ![i.id] = new]
        /\ tx'[r].payments = tx[r].payments /\ tx'[r].vouchers = tx[r].vouchers
        /\ tx'[r].held = tx[r].held \cup SessionKeys(r)
    BY <1>1 DEF FlushSession, TypeOK, Transactions
  <1>4. /\ tx'[r].sessions[i.id] = new
        /\ \A x \in LocalIds \ {i.id} : tx'[r].sessions[x] = tx[r].sessions[x]
    BY <1>1, <1>2, <1>3 DEF Transactions
  <1>5. \/ value = CodeOf(row)
        \/ /\ <<"code", value>> \in tx'[r].held
           /\ \A x \in LocalIds \ {i.id} : CodeOf(SessionRow(r, x)) # value
    <2>1. CASE ClaimsCode(r)
      <3>1. value = req[r].want.code /\ value # Null
        BY <1>1, <2>1 DEF ClaimsCode, FlushedSession, Newer, StagedOK, Item, SessionRows
      <3>2. <<"code", value>> \in tx'[r].held
        BY <1>3, <2>1, <3>1 DEF SessionKeys
      <3>3. \A x \in LocalIds \ {i.id} : CodeOf(SessionRow(r, x)) # value
        BY <1>1, <2>1, <3>1 DEF SessionConflict, CodeOf
      <3> QED BY <3>2, <3>3
    <2>2. CASE ~ClaimsCode(r)
      <3>1. req[r].seen # Null /\ value = row.code /\ row # Null
        BY <1>1, <2>2 DEF ClaimsCode, FlushedSession, Newer, StagedOwned, SeesSession
      <3> QED BY <3>1 DEF CodeOf
    <2> QED BY <2>1, <2>2
  <1>6. Distinct(CodesSeen(r)')
    <2>1. CodesSeen(r)' = [CodesSeen(r) EXCEPT ![i.id] = value]
      BY <1>1, <1>2, <1>4 DEF CodesSeen, SessionRow, CodeOf
    <2>2. /\ Distinct(CodesSeen(r)) /\ DOMAIN CodesSeen(r) = LocalIds
          /\ CodesSeen(r)[i.id] = CodeOf(row)
          /\ \A x \in LocalIds : CodesSeen(r)[x] = CodeOf(SessionRow(r, x))
      BY <1>2 DEF SeesNothingTwice, CodesSeen
    <2>3. \/ value = Null \/ value = CodesSeen(r)[i.id]
          \/ \A y \in LocalIds \ {i.id} : CodesSeen(r)[y] # value
      BY <1>5, <2>2
    <2>4. Distinct([CodesSeen(r) EXCEPT ![i.id] = value])
      <3> HIDE DEF i, value
      <3> QED BY <1>2, <2>2, <2>3, OneFlush
    <2> QED BY <2>1, <2>4
  <1>7. ASSUME NEW x \in LocalIds, tx'[r].sessions[x] # Null
        PROVE  LET v == CodeOf(tx'[r].sessions[x]) IN
                 v \in {Null, CodeOf(sessions[x])} \/ <<"code", v>> \in tx'[r].held
    <2>1. CASE x = i.id
      <3>1. CodeOf(tx'[r].sessions[x]) = value
        BY <1>2, <1>4, <2>1 DEF CodeOf
      <3>2. CASE value = CodeOf(row)
        BY <1>2, <1>3, <2>1, <3>1, <3>2 DEF SessionRow, HoldsClaims
      <3> QED BY <1>5, <2>1, <3>1, <3>2
    <2>2. CASE x # i.id
      BY <1>3, <1>4, <1>7, <2>2 DEF HoldsClaims
    <2> QED BY <2>1, <2>2
  <1>8. HoldsClaims(r)'
    BY <1>1, <1>3, <1>7 DEF HoldsClaims
  <1>9. ReferencesSeen(r)' = ReferencesSeen(r)
    BY <1>1, <1>3 DEF ReferencesSeen, PaymentRow
  <1>10. SessionsSeen(r)' = SessionsSeen(r)
    BY <1>1, <1>3 DEF SessionsSeen, VoucherRow
  <1> QED BY <1>6, <1>8, <1>9, <1>10 DEF SeesNothingTwice

\* A payment gives its provider reference up, keeps it, or claims another.
LEMMA FlushPaymentUnique ==
  ASSUME TypeOK, NEW r \in Requests, RequestInv(r), SeesNothingTwice(r), HoldsClaims(r),
         FlushPayment(r)
  PROVE  (SeesNothingTwice(r) /\ HoldsClaims(r))'
  <1> DEFINE i == Item(r)
             new == FlushedPayment(r)
             row == PaymentRow(r, i.id)
             value == new.provider_ref
  <1>1. /\ req[r].pc = "flush" /\ i.kind = "payment" /\ ~PaymentConflict(r) /\ i \in Items
        /\ StagedOK(req[r]) /\ StagedOwned(r) /\ tx[r] \in Transactions
        /\ UNCHANGED <<sessions, payments, vouchers>>
    BY FlushResult DEF FlushPayment, Conflict, RequestInv
  <1>2. i.id \in PaymentIds /\ new # Null
    BY <1>1, ItemKinds, FlushedType, FlushResult, NullAssumption DEF PaymentItems, FlushPayment
  <1>3. /\ tx'[r].payments = [tx[r].payments EXCEPT ![i.id] = new]
        /\ tx'[r].sessions = tx[r].sessions /\ tx'[r].vouchers = tx[r].vouchers
        /\ tx'[r].held = tx[r].held \cup PaymentKeys(r)
    BY <1>1 DEF FlushPayment, TypeOK, Transactions
  <1>4. /\ tx'[r].payments[i.id] = new
        /\ \A x \in PaymentIds \ {i.id} : tx'[r].payments[x] = tx[r].payments[x]
    BY <1>1, <1>2, <1>3 DEF Transactions
  <1>5. \/ value = Null
        \/ value = ReferenceOf(row)
        \/ /\ <<"provider", value>> \in tx'[r].held
           /\ \A x \in PaymentIds \ {i.id} : ReferenceOf(PaymentRow(r, x)) # value
    <2>1. CASE ClaimsProvider(r)
      <3>1. value = req[r].want.provider_ref /\ value # Null
        BY <2>1 DEF ClaimsProvider, FlushedPayment, Newer
      <3>2. <<"provider", value>> \in tx'[r].held
        BY <1>3, <2>1, <3>1 DEF PaymentKeys
      <3>3. \A x \in PaymentIds \ {i.id} : ReferenceOf(PaymentRow(r, x)) # value
        BY <1>1, <2>1, <3>1 DEF PaymentConflict, ReferenceOf
      <3> QED BY <3>2, <3>3
    <2>2. CASE ~ClaimsProvider(r)
      <3>1. CASE req[r].seen = Null
        BY <2>2, <3>1 DEF ClaimsProvider, FlushedPayment
      <3>2. CASE req[r].seen # Null
        <4>1. row # Null
          BY <1>1, <3>2 DEF StagedOwned
        <4>2. value = Null \/ value = row.provider_ref
          BY <2>2, <3>2 DEF ClaimsProvider, FlushedPayment, Newer
        <4> QED BY <4>1, <4>2 DEF ReferenceOf
      <3> QED BY <3>1, <3>2
    <2> QED BY <2>1, <2>2
  <1>6. Distinct(ReferencesSeen(r)')
    <2>1. ReferencesSeen(r)' = [ReferencesSeen(r) EXCEPT ![i.id] = value]
      BY <1>1, <1>2, <1>4 DEF ReferencesSeen, PaymentRow, ReferenceOf
    <2>2. /\ Distinct(ReferencesSeen(r)) /\ DOMAIN ReferencesSeen(r) = PaymentIds
          /\ ReferencesSeen(r)[i.id] = ReferenceOf(row)
          /\ \A x \in PaymentIds : ReferencesSeen(r)[x] = ReferenceOf(PaymentRow(r, x))
      BY <1>2 DEF SeesNothingTwice, ReferencesSeen
    <2>3. \/ value = Null \/ value = ReferencesSeen(r)[i.id]
          \/ \A y \in PaymentIds \ {i.id} : ReferencesSeen(r)[y] # value
      BY <1>5, <2>2
    <2>4. Distinct([ReferencesSeen(r) EXCEPT ![i.id] = value])
      <3> HIDE DEF i, value
      <3> QED BY <1>2, <2>2, <2>3, OneFlush
    <2> QED BY <2>1, <2>4
  <1>7. ASSUME NEW x \in PaymentIds, tx'[r].payments[x] # Null
        PROVE  LET v == ReferenceOf(tx'[r].payments[x]) IN
                 v \in {Null, ReferenceOf(payments[x])} \/ <<"provider", v>> \in tx'[r].held
    <2>1. CASE x = i.id
      <3>1. ReferenceOf(tx'[r].payments[x]) = value
        BY <1>2, <1>4, <2>1 DEF ReferenceOf
      <3>2. CASE value = ReferenceOf(row)
        BY <1>2, <1>3, <2>1, <3>1, <3>2 DEF PaymentRow, HoldsClaims
      <3> QED BY <1>5, <2>1, <3>1, <3>2
    <2>2. CASE x # i.id
      BY <1>3, <1>4, <1>7, <2>2 DEF HoldsClaims
    <2> QED BY <2>1, <2>2
  <1>8. HoldsClaims(r)'
    BY <1>1, <1>3, <1>7 DEF HoldsClaims
  <1>9. CodesSeen(r)' = CodesSeen(r)
    BY <1>1, <1>3 DEF CodesSeen, SessionRow
  <1>10. SessionsSeen(r)' = SessionsSeen(r)
    BY <1>1, <1>3 DEF SessionsSeen, VoucherRow
  <1> QED BY <1>6, <1>8, <1>9, <1>10 DEF SeesNothingTwice

\* A voucher is spent on a session that has spent none.
LEMMA FlushVoucherUnique ==
  ASSUME TypeOK, NEW r \in Requests, RequestInv(r), SeesNothingTwice(r), HoldsClaims(r),
         FlushVoucher(r)
  PROVE  (SeesNothingTwice(r) /\ HoldsClaims(r))'
  <1> DEFINE i == Item(r)
             new == FlushedVoucher(r)
             row == VoucherRow(r, i.id)
             value == new.session
  <1>1. /\ req[r].pc = "flush" /\ i.kind = "voucher" /\ ~VoucherConflict(r) /\ i \in Items
        /\ StagedOK(req[r]) /\ StagedOwned(r) /\ tx[r] \in Transactions
        /\ UNCHANGED <<sessions, payments, vouchers>>
    BY FlushResult DEF FlushVoucher, Conflict, RequestInv
  <1>2. i.id \in VoucherCodes /\ new # Null
    BY <1>1, ItemKinds, FlushedType, FlushResult, NullAssumption DEF VoucherItems, FlushVoucher
  <1>3. /\ tx'[r].vouchers = [tx[r].vouchers EXCEPT ![i.id] = new]
        /\ tx'[r].sessions = tx[r].sessions /\ tx'[r].payments = tx[r].payments
        /\ tx'[r].held = tx[r].held \cup VoucherKeys(r)
    BY <1>1 DEF FlushVoucher, TypeOK, Transactions
  <1>4. /\ tx'[r].vouchers[i.id] = new
        /\ \A x \in VoucherCodes \ {i.id} : tx'[r].vouchers[x] = tx[r].vouchers[x]
    BY <1>1, <1>2, <1>3 DEF Transactions
  <1>5. /\ <<"redeems", value>> \in tx'[r].held
        /\ \A x \in VoucherCodes \ {i.id} : SpentOn(VoucherRow(r, x)) # value
    <2>1. value = req[r].want.session /\ value # Null
      BY <1>1 DEF FlushedVoucher, Newer, StagedOwned, StagedOK, Item, BoundVoucher
    <2>2. <<"redeems", value>> \in tx'[r].held
      BY <1>3, <2>1 DEF VoucherKeys
    <2>3. \A x \in VoucherCodes \ {i.id} : SpentOn(VoucherRow(r, x)) # value
      BY <1>1, <2>1 DEF VoucherConflict, SpentOn
    <2> QED BY <2>2, <2>3
  <1>6. Distinct(SessionsSeen(r)')
    <2>1. SessionsSeen(r)' = [SessionsSeen(r) EXCEPT ![i.id] = value]
      BY <1>1, <1>2, <1>4 DEF SessionsSeen, VoucherRow, SpentOn
    <2>2. /\ Distinct(SessionsSeen(r)) /\ DOMAIN SessionsSeen(r) = VoucherCodes
          /\ SessionsSeen(r)[i.id] = SpentOn(row)
          /\ \A x \in VoucherCodes : SessionsSeen(r)[x] = SpentOn(VoucherRow(r, x))
      BY <1>2 DEF SeesNothingTwice, SessionsSeen
    <2>3. \/ value = Null \/ value = SessionsSeen(r)[i.id]
          \/ \A y \in VoucherCodes \ {i.id} : SessionsSeen(r)[y] # value
      BY <1>5, <2>2
    <2>4. Distinct([SessionsSeen(r) EXCEPT ![i.id] = value])
      <3> HIDE DEF i, value
      <3> QED BY <1>2, <2>2, <2>3, OneFlush
    <2> QED BY <2>1, <2>4
  <1>7. ASSUME NEW x \in VoucherCodes, tx'[r].vouchers[x] # Null
        PROVE  LET v == SpentOn(tx'[r].vouchers[x]) IN
                 v \in {Null, SpentOn(vouchers[x])} \/ <<"redeems", v>> \in tx'[r].held
    <2>1. CASE x = i.id
      <3>1. SpentOn(tx'[r].vouchers[x]) = value
        BY <1>2, <1>4, <2>1 DEF SpentOn
      <3>2. CASE value = SpentOn(row)
        BY <1>2, <1>3, <2>1, <3>1, <3>2 DEF VoucherRow, HoldsClaims
      <3> QED BY <1>5, <2>1, <3>1, <3>2
    <2>2. CASE x # i.id
      BY <1>3, <1>4, <1>7, <2>2 DEF HoldsClaims
    <2> QED BY <2>1, <2>2
  <1>8. HoldsClaims(r)'
    BY <1>1, <1>3, <1>7 DEF HoldsClaims
  <1>9. CodesSeen(r)' = CodesSeen(r)
    BY <1>1, <1>3 DEF CodesSeen, SessionRow
  <1>10. ReferencesSeen(r)' = ReferencesSeen(r)
    BY <1>1, <1>3 DEF ReferencesSeen, PaymentRow
  <1> QED BY <1>6, <1>8, <1>9, <1>10 DEF SeesNothingTwice

-----------------------------------------------------------------------------
(***************************************************************************)
(* The invariant.                                                          *)
(***************************************************************************)
LEMMA InitUnique ==
  ASSUME Init
  PROVE  UniqueInv
  <1>1. UniqueColumns
    BY SessionsAssumption, VouchersAssumption DEF Init, UniqueColumns
  <1>2. \A r \in Requests : tx[r] = NoWrites
    BY DEF Init
  <1> QED BY <1>1, <1>2, SeenAfresh DEF UniqueInv

\* Without a commit, the tables and the other requests keep what they have.
LEMMA QuietStep ==
  ASSUME UniqueInv, UNCHANGED <<sessions, payments, vouchers>>
  PROVE  /\ UniqueColumns'
         /\ \A r \in Requests : tx'[r] = tx[r] => (SeesNothingTwice(r) /\ HoldsClaims(r))'
  <1>1. SameCommitted
    BY DEF SameCommitted
  <1>2. ASSUME NEW r \in Requests, tx'[r] = tx[r]
        PROVE  (SeesNothingTwice(r) /\ HoldsClaims(r))'
    BY <1>1, <1>2, SameColumnsKeep DEF SameColumns, UniqueInv
  <1> QED BY <1>1, <1>2, SameUnique DEF UniqueInv

\* A request's own steps.
LEMMA OwnStepUnique ==
  ASSUME IInv, UniqueInv, NEW r \in Requests, Progress(r) \/ Crash(r)
  PROVE  UniqueColumns' /\ (SeesNothingTwice(r) /\ HoldsClaims(r))'
  <1> USE DEF IInv
  <1>1. CASE Commit(r)
    <2>1. UniqueColumns'
      BY <1>1, CommitUnique DEF UniqueInv
    <2>2. tx'[r] = NoWrites
      BY <1>1 DEF Commit, TypeOK
    <2> QED BY <2>1, <2>2, SeenOnceEnded
  <1>2. CASE ~Commit(r)
    <2>1. UNCHANGED <<sessions, payments, vouchers>>
      BY <1>2, LocalOrCommit DEF tables
    <2>2. UniqueColumns'
      BY <2>1, QuietStep
    <2>3. CASE Rollback(r)
      <3>1. tx'[r] = NoWrites
        BY <2>3 DEF Rollback, TypeOK
      <3> QED BY <2>2, <3>1, SeenOnceEnded
    <2>4. CASE ResultStep(r) \/ StageItem(r)
      <3>1. tx'[r] = tx[r]
        BY <2>4 DEF ResultStep, StageItem
      <3> QED BY <2>1, <3>1, QuietStep
    <2>5. CASE ApplyReport(r)
      <3>1. /\ tx'[r].sessions = tx[r].sessions /\ tx'[r].payments = tx[r].payments
            /\ tx'[r].vouchers = tx[r].vouchers /\ tx[r].held \subseteq tx'[r].held
        BY <2>5 DEF ApplyReport, TypeOK, Transactions
      <3>2. SameColumns(r)
        BY <2>1, <3>1 DEF SameColumns, SameCommitted
      <3> QED BY <2>2, <3>2, SameColumnsKeep DEF UniqueInv
    <2>6. CASE FlushSession(r) \/ FlushPayment(r) \/ FlushVoucher(r)
      <3>1. RequestInv(r) /\ SeesNothingTwice(r) /\ HoldsClaims(r)
        BY DEF UniqueInv
      <3> QED BY <2>2, <2>6, <3>1, FlushSessionUnique, FlushPaymentUnique, FlushVoucherUnique
    <2> QED
      BY <1>2, <2>3, <2>4, <2>5, <2>6, ResultSteps
         DEF Progress, Crash, RejectReport, DeadlockVictim
  <1> QED BY <1>1, <1>2

LEMMA StepUnique ==
  ASSUME IInv, UniqueInv, [Next]_vars
  PROVE  UniqueInv'
  <1>1. ASSUME NEW r \in Requests, NEW d \in Devices, NEW p \in Payloads, Receive(r, d, p)
        PROVE  UniqueInv'
    BY <1>1, QuietStep DEF Receive, tables, UniqueInv
  <1>2. ASSUME NEW r \in Requests, Progress(r) \/ Crash(r)
        PROVE  UniqueInv'
    <2>1. UniqueColumns' /\ (SeesNothingTwice(r) /\ HoldsClaims(r))'
      BY <1>2, OwnStepUnique
    <2>2. /\ Commit(r) \/ UNCHANGED <<sessions, payments, vouchers>>
          /\ \A q \in Requests \ {r} : tx'[q] = tx[q]
      BY <1>2, LocalOrCommit DEF IInv, tables
    <2>3. ASSUME NEW q \in Requests \ {r}
          PROVE  (SeesNothingTwice(q) /\ HoldsClaims(q))'
      BY <2>2, CommitSeen, QuietStep DEF UniqueInv, IInv
    <2> QED BY <2>1, <2>3 DEF UniqueInv
  <1>3. CASE Admin
    <2>1. SameCommitted /\ UNCHANGED tx
      BY <1>3, AdminColumns DEF IInv
    <2>2. UniqueColumns'
      BY <2>1, SameUnique DEF UniqueInv
    <2>3. ASSUME NEW r \in Requests
          PROVE  (SeesNothingTwice(r) /\ HoldsClaims(r))'
      BY <2>1, SameColumnsKeep DEF SameColumns, UniqueInv
    <2> QED BY <2>2, <2>3 DEF UniqueInv
  <1>4. CASE UNCHANGED vars
    BY <1>4, QuietStep DEF vars, tables, UniqueInv
  <1> QED BY <1>1, <1>2, <1>3, <1>4 DEF Next

-----------------------------------------------------------------------------
(***************************************************************************)
(* The theorems.                                                           *)
(***************************************************************************)

\* No request ever sees a code, a provider reference or a redeemed session
\* twice, and each holds the index entries of the values it has claimed, for
\* any number of kiosks, handler threads, items and pushes.
THEOREM UniqueInductive == Spec => []UniqueInv
  <1>1. Init => UniqueInv
    BY InitUnique
  <1>2. IInv /\ UniqueInv /\ [Next]_vars => UniqueInv'
    BY StepUnique
  <1> QED BY <1>1, <1>2, Inductive, PTL DEF Spec

\* No two sessions share a code, no two payments a provider reference, and no
\* session spends two vouchers, although a push chooses its values from rows
\* it read before others committed theirs (api/sync.py:83-93, 242-256, 268-280).
THEOREM ColumnsStayUnique == Spec => []UniqueColumns
  <1>1. UniqueInv => UniqueColumns
    BY DEF UniqueInv
  <1> QED BY <1>1, UniqueInductive, PTL
=============================================================================
