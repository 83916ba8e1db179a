---------------------------- MODULE OfflineLedger ----------------------------
(***************************************************************************)
(* What POST /sync/bulk promises about the offline records of all kiosks,  *)
(* whatever happens inside it: a ledger of sessions, of the payments made  *)
(* for them and of the vouchers spent on them, which one push of one kiosk *)
(* changes in one step.                                                    *)
(***************************************************************************)
CONSTANTS Devices, Sessions, Payments, Vouchers, Null

VARIABLES
  owners,   \* the kiosks that have had a session
  charged,  \* the session a payment is for
  spent     \* the session a voucher is spent on

vars == <<owners, charged, spent>>

OneVoucherPerSession(f) ==
  \A v, w \in Vouchers : (v # w /\ f[v] # Null) => f[v] # f[w]

Init ==
  /\ owners \in [Sessions -> {{}} \cup {{d} : d \in Devices}]
  /\ charged = [p \in Payments |-> Null]
  /\ spent = [v \in Vouchers |-> Null]

\* A push of kiosk d: new sessions become its own; payments and vouchers go to
\* its sessions; a payment moves between sessions of one kiosk only.
Push(d) ==
  /\ owners' \in [Sessions -> SUBSET Devices]
  /\ charged' \in [Payments -> Sessions \cup {Null}]
  /\ spent' \in [Vouchers -> Sessions \cup {Null}]
  /\ \A s \in Sessions : owners'[s] # owners[s] => owners[s] = {} /\ owners'[s] = {d}
  /\ \A p \in Payments : charged'[p] # charged[p] =>
       /\ charged'[p] # Null /\ d \in owners'[charged'[p]]
       /\ charged[p] # Null => d \in owners[charged[p]]
  /\ \A v \in Vouchers : spent'[v] # spent[v] =>
       spent'[v] # Null /\ d \in owners'[spent'[v]]
  /\ OneVoucherPerSession(spent')

\* A session is given to another kiosk.
Swap(s, d) ==
  /\ owners[s] # {}
  /\ owners' = [owners EXCEPT ![s] = @ \cup {d}]
  /\ UNCHANGED <<charged, spent>>

Next == \E d \in Devices : Push(d) \/ \E s \in Sessions : Swap(s, d)

Spec == Init /\ [][Next]_vars
=============================================================================
