---------------------------- MODULE PairingPromise ----------------------------
(***************************************************************************)
(* What pairing promises to kiosks, operators and tenants, with no SSO, no *)
(* handlers and no failures in sight: a code, a grant and a tenant are     *)
(* bound to each other once and for good; only bound grants are shown on a *)
(* kiosk, only shown ones approved, only approved ones exchanged, once,    *)
(* and only a device whose grant was exchanged is verified.                *)
(***************************************************************************)
CONSTANTS Codes, SsoCodes, Tenants, Null

VARIABLES
  bindings,   \* which code, grant and tenant belong together
  shown,      \* grants that a kiosk shows to its operator
  approved,   \* grants that an operator approved and no kiosk has exchanged
  issued,     \* grants that were exchanged for tokens
  verified    \* codes of verified devices

vars == <<bindings, shown, approved, issued, verified>>

Binding == [code: Codes, grant: SsoCodes, tenant: Tenants \cup {Null}]

Init ==
  /\ bindings = {} /\ shown = {} /\ approved = {} /\ issued = {} /\ verified = {}

\* No code, no grant and no tenant is bound twice.
Free(new) ==
  \A old \in bindings :
    /\ old.code # new.code /\ old.grant # new.grant
    /\ new.tenant = Null \/ old.tenant # new.tenant

Bind(new) ==
  /\ Free(new)
  /\ bindings' = bindings \cup {new}
  /\ UNCHANGED <<shown, approved, issued, verified>>

Bound(grant) == \E b \in bindings : b.grant = grant

Show(grant) ==
  /\ Bound(grant)
  /\ shown' = shown \cup {grant}
  /\ UNCHANGED <<bindings, approved, issued, verified>>

Approve(grant) ==
  /\ grant \in shown \ issued
  /\ approved' = approved \cup {grant}
  /\ UNCHANGED <<bindings, shown, issued, verified>>

\* An approval that nobody uses runs out.
RunOut(grant) ==
  /\ approved' = approved \ {grant}
  /\ UNCHANGED <<bindings, shown, issued, verified>>

Issue(grant) ==
  /\ grant \in approved
  /\ approved' = approved \ {grant} /\ issued' = issued \cup {grant}
  /\ UNCHANGED <<bindings, shown, verified>>

Verify(b) ==
  /\ b.grant \in issued
  /\ verified' = verified \cup {b.code}
  /\ UNCHANGED <<bindings, shown, approved, issued>>

Next ==
  \/ \E new \in Binding : Bind(new)
  \/ \E grant \in SsoCodes : Show(grant) \/ Approve(grant) \/ RunOut(grant) \/ Issue(grant)
  \/ \E b \in bindings : Verify(b)

Spec == Init /\ [][Next]_vars
=============================================================================
