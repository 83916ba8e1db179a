---------------------------- MODULE BulkSyncInv ----------------------------
(***************************************************************************)
(* The inductive invariant behind OwnershipConsistent and                  *)
(* AcknowledgedIsStored.  Those two speak of committed rows; what makes    *)
(* them last is what each open transaction knows about the rows it loaded, *)
(* wrote and promised to its caller, and that the commits of others do not *)
(* take that knowledge away.                                               *)
(***************************************************************************)
EXTENDS BulkSync

\* A request sees session l, and it belongs to kiosk d or has belonged to it.
SeesSession(r, l, d) == SessionRow(r, l) # Null /\ d \in Owners(l, SessionRow(r, l))

\* Two transactions never hold the same lock, and an uncommitted row is locked.
LocksInv ==
  /\ \A q, r \in Requests : q # r => tx[q].held \cap tx[r].held = {}
  /\ \A r \in Requests :
       /\ req[r].pc = "idle" => req[r] = Idle /\ tx[r] = NoWrites
       /\ \A l \in LocalIds : tx[r].sessions[l] # Null => <<"session", l>> \in tx[r].held
       /\ \A p \in PaymentIds : tx[r].payments[p] # Null => <<"payment", p>> \in tx[r].held
       /\ \A v \in VoucherCodes : tx[r].vouchers[v] # Null => <<"voucher", v>> \in tx[r].held

\* A voucher bound to a kiosk stays bound to it, nothing binds one but its
\* redemption, and that gives it a session.
BoundVoucher(v, row) ==
  /\ row.status = "available" =>
       row.device_id = InitialVouchers[v].device_id /\ row.session = Null
  /\ row.status = "used" => row.session # Null
  /\ InitialVouchers[v].device_id # Null => row.device_id = InitialVouchers[v].device_id

VouchersBound ==
  \A v \in VoucherCodes :
    /\ vouchers[v] = Null <=> InitialVouchers[v] = Null
    /\ vouchers[v] # Null => BoundVoucher(v, vouchers[v])

\* The uncommitted rows of a request belong to its caller, sessions at least to a
\* former one, and none replaces a row of another kiosk.
WritesOwned(r) ==
  LET d == req[r].device IN
  /\ \A l \in LocalIds : tx[r].sessions[l] # Null =>
       /\ d \in Owners(l, tx[r].sessions[l])
       /\ sessions[l] # Null => tx[r].sessions[l].device_id = sessions[l].device_id
  /\ \A p \in PaymentIds : tx[r].payments[p] # Null =>
       /\ tx[r].payments[p].device_id = d
       /\ payments[p] # Null => payments[p].device_id = d
       /\ SeesSession(r, tx[r].payments[p].session, d)
  /\ \A v \in VoucherCodes : tx[r].vouchers[v] # Null =>
       /\ vouchers[v] # Null
       /\ tx[r].vouchers[v].status = "used"
       /\ tx[r].vouchers[v].device_id = d
       /\ BoundVoucher(v, tx[r].vouchers[v])
       /\ SeesSession(r, tx[r].vouchers[v].session, d)

\* The checks made at the lookup of an item still hold when it is flushed.
StagedOwned(r) ==
  LET i == Item(r)
      d == req[r].device
      seen == req[r].seen
      want == req[r].want
  IN req[r].pc = "flush" =>
     /\ i.kind = "session" =>
          /\ want.device_id = d
          /\ seen # Null => SeesSession(r, i.id, d)
     /\ i.kind = "payment" =>
          /\ want.device_id = d
          /\ SeesSession(r, want.session, d)
          /\ seen # Null => PaymentRow(r, i.id) # Null /\ PaymentRow(r, i.id).device_id = d
     /\ i.kind = "voucher" =>
          /\ vouchers[i.id] # Null
          /\ seen.status = "available" /\ BoundVoucher(i.id, seen)
          /\ want.status = "used" /\ want.device_id = d
          /\ seen.device_id \in {Null, d}
          /\ SeesSession(r, want.session, d)

\* An item reported as applied is visible to the request that reports it.
AppliedVisible(r) ==
  LET d == req[r].device IN
  \A i \in req[r].ok :
    /\ i.kind = "session" => SeesSession(r, i.id, d)
    /\ i.kind = "payment" => PaymentRow(r, i.id) # Null /\ PaymentRow(r, i.id).device_id = d
    /\ i.kind = "voucher" => VoucherRow(r, i.id) # Null /\ VoucherRow(r, i.id).status = "used"

\* The invariant of one request, and of them all with the committed tables.
RequestInv(r) == WritesOwned(r) /\ StagedOwned(r) /\ AppliedVisible(r)

TablesInv == OwnershipConsistent /\ AcknowledgedIsStored /\ VouchersBound

\* What a kiosk has been told is true of the tables, what an open transaction
\* has checked stays true until it ends, and no two write the same row.
IInv == TypeOK /\ LocksInv /\ TablesInv /\ \A r \in Requests : RequestInv(r)

-----------------------------------------------------------------------------
(***************************************************************************)
(* The same for UniqueColumns.  A request chooses its values from what it  *)
(* sees, and what it sees has no value twice.  That outlasts the commits   *)
(* of others because it holds the index entry of every value it has put    *)
(* where the committed row has another.                                    *)
(***************************************************************************)
\* The unique column of a row, and Null without a row.
CodeOf(row) == IF row = Null THEN Null ELSE row.code
ReferenceOf(row) == IF row = Null THEN Null ELSE row.provider_ref
SpentOn(row) == IF row = Null THEN Null ELSE row.session

CodesSeen(r) == [l \in LocalIds |-> CodeOf(SessionRow(r, l))]
ReferencesSeen(r) == [p \in PaymentIds |-> ReferenceOf(PaymentRow(r, p))]
SessionsSeen(r) == [v \in VoucherCodes |-> SpentOn(VoucherRow(r, v))]

\* No value is there twice.
Distinct(column) ==
  \A x, y \in DOMAIN column : x # y /\ column[x] # Null => column[x] # column[y]

SeesNothingTwice(r) ==
  Distinct(CodesSeen(r)) /\ Distinct(ReferencesSeen(r)) /\ Distinct(SessionsSeen(r))

\* Every value a request has written is committed in this row, or claimed.
HoldsClaims(r) ==
  /\ \A l \in LocalIds : tx[r].sessions[l] # Null =>
       LET code == CodeOf(tx[r].sessions[l]) IN
         code \in {Null, CodeOf(sessions[l])} \/ <<"code", code>> \in tx[r].held
  /\ \A p \in PaymentIds : tx[r].payments[p] # Null =>
       LET ref == ReferenceOf(tx[r].payments[p]) IN
         ref \in {Null, ReferenceOf(payments[p])} \/ <<"provider", ref>> \in tx[r].held
  /\ \A v \in VoucherCodes : tx[r].vouchers[v] # Null =>
       LET session == SpentOn(tx[r].vouchers[v]) IN
         session \in {Null, SpentOn(vouchers[v])} \/ <<"redeems", session>> \in tx[r].held

UniqueInv ==
  UniqueColumns /\ \A r \in Requests : SeesNothingTwice(r) /\ HoldsClaims(r)

-----------------------------------------------------------------------------
(***************************************************************************)
(* The same for RetryStaysAcceptable, OnlyAppliedItemsWrite and            *)
(* ImplementsLedger: which items the rows of a request stand for, and what *)
(* the checks of an applied item have found that no one takes back.        *)
(***************************************************************************)
\* Every row a request has written stands for an item it reports as applied.
WritesApplied(r) ==
  /\ \A l \in LocalIds : tx[r].sessions[l] # Null =>
       \E i \in req[r].ok : i.kind = "session" /\ i.id = l
  /\ \A p \in PaymentIds : tx[r].payments[p] # Null =>
       \E i \in req[r].ok : i.kind = "payment" /\ i.id = p
  /\ \A v \in VoucherCodes : tx[r].vouchers[v] # Null =>
       \E i \in req[r].ok : i.kind = "voucher" /\ i.id = v

\* The server knows the words of an item, and the voucher it names exists.
Understood(i) ==
  /\ i.kind = "session" => i.state \in SessionStates
  /\ i.kind = "payment" =>
       /\ i.status \in KioskWords \cup {Null}
       /\ i.voucher # Null => InitialVouchers[i.voucher] # Null

Coded(row) == row # Null /\ row.code # Null

\* The items that have passed the checks of their lookup.
Passed(r) == req[r].ok \cup (IF req[r].pc = "flush" THEN {Item(r)} ELSE {})

\* An item that has passed is understood, and its session is one the caller has
\* or has had; a session that has a code, or gets one, keeps one.
PassedForGood(r) ==
  /\ \A i \in Passed(r) :
       Understood(i) /\ (i.kind # "session" => SeesSession(r, i.session, req[r].device))
  /\ \A i \in req[r].ok : i.kind = "session" => Coded(SessionRow(r, i.id))
  /\ (req[r].pc = "flush" /\ Item(r).kind = "session" /\ Coded(req[r].seen))
       => Coded(SessionRow(r, Item(r).id))
  /\ \A l \in LocalIds : tx[r].sessions[l] # Null => Coded(tx[r].sessions[l])

\* No UPDATE of a session that has a code gives it another.
KeepsCode(r) ==
  (req[r].pc = "flush" /\ Item(r).kind = "session" /\ Coded(req[r].seen))
    => req[r].want.code = req[r].seen.code

AcknowledgedForGood ==
  \A e \in syncLog : \A i \in e.ok :
    /\ Understood(i)
    /\ i.kind = "session" => Coded(sessions[i.id])
    /\ i.kind # "session" => HasSession(i.session, e.device)

\* Nobody has given up a session that was never there.
FormerHadSession == \A l \in LocalIds : sessions[l] = Null => former[l] = {}

PromiseInv ==
  /\ FormerHadSession /\ AcknowledgedForGood
  /\ \A r \in Requests : WritesApplied(r) /\ PassedForGood(r) /\ KeepsCode(r)

\* Everything the proofs about this module rest on.
PushInv == IInv /\ UniqueInv /\ PromiseInv

-----------------------------------------------------------------------------
(***************************************************************************)
(* What RetryChangesNothing rests on.  It speaks of retries, so no item is *)
(* ever sent with another content, and nobody but the pushes rewrites the  *)
(* rows.  Then an item is written once: whoever looks it up later finds    *)
(* what it says, and whoever looked it up before fails to insert it.       *)
(***************************************************************************)
\* The bodies are made of the items in sent, each of which has one content, and
\* its session was not there before the first push.
OneContent(sent) ==
  /\ \A p \in Payloads : p.sessions \o p.payments \o p.vouchers \in Seq(sent)
  /\ \A i, j \in sent : i.kind = j.kind /\ i.id = j.id => i = j
  /\ \A i \in sent : i.kind = "session" => InitialSessions[i.id] = Null

\* Others may retire what the catalogue offers, and vouchers may expire.
OthersLeaveRows == [][edits' # edits => UNCHANGED <<sessions, payments, vouchers>>]_vars

\* What an item says is in its row.
StoresSession(row, i) ==
  /\ row.state = i.state /\ row.frame = ServerFrame(i.frame) /\ row.booth = i.booth
  /\ row.code # Null

StoresPayment(row, i, session) ==
  /\ row.session = i.session /\ row.voucher = i.voucher /\ row.amount = i.amount
  /\ row.booth = IF i.booth # Null THEN i.booth ELSE session.booth
  /\ row.status = Canonical(i.status) /\ row.provider_ref = i.provider_ref

\* The committed rows of the items.
StoredOnce(sent) ==
  /\ former = [l \in LocalIds |-> {}]
  /\ \A i \in sent :
       /\ i.kind = "session" /\ sessions[i.id] # Null => StoresSession(sessions[i.id], i)
       /\ i.kind = "payment" /\ payments[i.id] # Null =>
            StoresPayment(payments[i.id], i, sessions[i.session])
       /\ i.kind = "voucher" /\ vouchers[i.id] # Null /\ vouchers[i.id].status = "used" =>
            vouchers[i.id].session = i.session

\* The rows that a request has written: new ones, and vouchers that it spends.
WritesOnce(r, sent) ==
  /\ req[r].todo \in Seq(sent) /\ req[r].ok \subseteq sent
  /\ \A l \in LocalIds : tx[r].sessions[l] # Null => sessions[l] = Null
  /\ \A p \in PaymentIds : tx[r].payments[p] # Null => payments[p] = Null
  /\ \A i \in sent :
       /\ i.kind = "session" /\ tx[r].sessions[i.id] # Null =>
            StoresSession(tx[r].sessions[i.id], i)
       /\ i.kind = "payment" /\ tx[r].payments[i.id] # Null =>
            StoresPayment(tx[r].payments[i.id], i, SessionRow(r, i.session))
       /\ i.kind = "voucher" /\ tx[r].vouchers[i.id] # Null =>
            /\ tx[r].vouchers[i.id].session = i.session
            /\ tx[r].vouchers[i.id].deleted = vouchers[i.id].deleted

\* The rows that it is about to write.
StagesOnce(r) ==
  LET i == Item(r)
      want == req[r].want
  IN req[r].pc = "flush" =>
       /\ i.kind = "session" => req[r].seen = Null /\ StoresSession(want, i)
       /\ i.kind = "payment" =>
            req[r].seen = Null /\ StoresPayment(want, i, SessionRow(r, i.session))
       /\ i.kind = "voucher" => want.session = i.session

RetryInv(sent) ==
  StoredOnce(sent) /\ \A r \in Requests : WritesOnce(r, sent) /\ StagesOnce(r)
=============================================================================
