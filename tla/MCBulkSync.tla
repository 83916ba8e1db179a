----------------------------- MODULE MCBulkSync -----------------------------
(***************************************************************************)
(* Instances of BulkSync for TLC: payloads, tables and a small catalogue.  *)
(***************************************************************************)
EXTENDS BulkSyncInv, TLC

CONSTANTS kioskA, kioskB, s1, s2, pay1, pay2, vch1, vch2, code1, code2, inv1,
          frame1, frmLocal, booth1, r1, r2

Session(id, state, frame, booth, code) ==
  [kind |-> "session", id |-> id, state |-> state, frame |-> frame,
   booth |-> booth, code |-> code]
Payment(id, session, status, amount, ref) ==
  [kind |-> "payment", id |-> id, session |-> session, booth |-> Null,
   voucher |-> Null, status |-> status, amount |-> amount, provider_ref |-> ref]
Voucher(id, session) == [kind |-> "voucher", id |-> id, session |-> session]

Push(report, ss, ps, vs) ==
  [report |-> report, sessions |-> ss, payments |-> ps, vouchers |-> vs]

Available(device) == [status |-> "available", session |-> Null,
                      device_id |-> device, deleted |-> FALSE]

NoSessions == [l \in LocalIds |-> Null]

\* A session of kioskA from before codes existed, with another state.
LegacySession ==
  [NoSessions EXCEPT ![s2] =
     [device_id |-> kioskA, state |-> "started", frame |-> Null, booth |-> Null,
      code |-> Null, synced |-> 0]]

\* vch1 is anybody's, vch2 is bound to kioskB.
MixedVouchers == [v \in VoucherCodes |-> IF v = vch1 THEN Available(Null) ELSE Available(kioskB)]

\* A whole session with its payment and voucher; the same session edited, its
\* payment without the reference, which another payment takes; a second session
\* with the first payment and voucher, and with a voucher bound to kioskB; a
\* device-only report.
SafetyPayloads ==
  {Push("health", <<Session(s1, "complete", frame1, Null, code1)>>,
        <<Payment(pay1, s1, "paid", 1, inv1)>>, <<Voucher(vch1, s1)>>),
   Push("none", <<Session(s1, "print", frmLocal, booth1, Null)>>,
        <<Payment(pay1, s1, Null, 2, Null), Payment(pay2, s1, "paid", 1, inv1)>>, <<>>),
   Push("none", <<Session(s2, "complete", Null, Null, code1)>>,
        <<Payment(pay1, s2, "failed", 1, Null)>>, <<Voucher(vch2, s2), Voucher(vch1, s2)>>),
   Push("battery", <<>>, <<>>, <<>>)}

\* One content per item, in overlapping batches: the full push, and a smaller
\* one that repeats the session and spends a voucher for it.
RetryPayloads ==
  {Push("health", <<Session(s1, "complete", frame1, Null, code1)>>,
        <<Payment(pay1, s1, "paid", 1, inv1)>>, <<Voucher(vch1, s1)>>),
   Push("none", <<Session(s1, "complete", frame1, Null, code1)>>,
        <<>>, <<Voucher(vch1, s1)>>)}

\* Two sessions, recorded by two kiosks, that were given the same voucher code.
OneVoucherTwiceSold ==
  {Push("none", <<Session(s, "complete", Null, Null, Null)>>, <<>>,
        <<Voucher(vch1, s)>>) : s \in {s1, s2}}

FreeVouchers == [v \in VoucherCodes |-> Available(Null)]
=============================================================================
