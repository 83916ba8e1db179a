---------------------------- MODULE DevicePairing ----------------------------
(***************************************************************************)
(* Pairing a kiosk (api/auth_device.py).  The kiosk asks for a grant: the  *)
(* service inserts a device row, asks the SSO, and commits the row with    *)
(* the codes of the grant.  The kiosk shows the user code, an operator     *)
(* decides at the SSO, the kiosk polls for its tokens and refreshes them.  *)
(* The service marks the device row as the tokens pass through.            *)
(*                                                                         *)
(* The SSO (grants) and the database (devices) share no transaction: an    *)
(* answer of the SSO may be lost after it acted, and the service may fail  *)
(* between any two steps.                                                  *)
(***************************************************************************)
EXTENDS Naturals

CONSTANTS
  Codes,          \* device codes the service may generate, the client ids at the SSO
  SsoCodes,       \* device codes the SSO may generate, one for each grant
  Tenants,
  Handlers,       \* handler threads
  MaxAuthorize,   \* bound on the number of authorize requests
  Null

VARIABLES
  devices,      \* committed device rows
  req,          \* where each handler is
  grants,       \* the SSO's grants
  answered,     \* grants whose codes a kiosk has received
  tokens,       \* grants whose current refresh token a kiosk holds
  authorizations

vars == <<devices, req, grants, answered, tokens, authorizations>>

Rows == [tenant: Tenants \cup {Null}, sso: SsoCodes \cup {Null}, verified: BOOLEAN,
         connectivity: {"disconnect", "connect", "error"}]

Grants == [client: Codes,
           status: {"pending", "approved", "denied", "expired", "consumed", "revoked"}]

Authorizing == {"flushed", "granted", "checked"}
Forwarding == {"polled", "refreshed", "mark", "reconnect"}

Requests == [pc: {"idle", "bound"} \cup Authorizing \cup Forwarding,
             code: Codes \cup {Null}, tenant: Tenants \cup {Null},
             sso: SsoCodes \cup {Null}, seen: Rows \cup {Null}]

Idle == [pc |-> "idle", code |-> Null, tenant |-> Null, sso |-> Null, seen |-> Null]

ASSUME BoundAssumption == MaxAuthorize \in Nat
ASSUME NullAssumption == Null \notin Codes \cup SsoCodes \cup Tenants \cup Rows \cup Grants

Init ==
  /\ devices = [c \in Codes |-> Null]
  /\ req = [h \in Handlers |-> Idle]
  /\ grants = [g \in SsoCodes |-> Null]
  /\ answered = {}
  /\ tokens = {}
  /\ authorizations = 0

-----------------------------------------------------------------------------
(***************************************************************************)
(* POST /auth/device/authorize/                                            *)
(***************************************************************************)
\* device_taken: another committed row has this value in a unique column.
TenantTaken(t) == t # Null /\ \E c \in Codes : devices[c] # Null /\ devices[c].tenant = t
SsoTaken(g) == \E c \in Codes : devices[c] # Null /\ devices[c].sso = g

\* Mutant: the row is committed before the SSO is asked.
CommittingAuthorize(h, c, t) ==
  /\ req[h].pc = "idle" /\ authorizations < MaxAuthorize
  /\ ~TenantTaken(t)
  /\ devices[c] = Null /\ \A k \in Handlers : req[k].pc \in Authorizing => req[k].code # c
  /\ devices' = [devices EXCEPT ![c] =
       [tenant |-> Null, sso |-> Null, verified |-> FALSE, connectivity |-> "disconnect"]]
  /\ req' = [req EXCEPT ![h] = [Idle EXCEPT !.pc = "flushed", !.code = c, !.tenant = t]]
  /\ authorizations' = authorizations + 1
  /\ UNCHANGED <<grants, answered, tokens>>

\* The tenant is free, and a row with an unused code is flushed, not committed.
\* A flush waits for another transaction that has flushed the same code.
Authorize(h, c, t) ==
  /\ req[h].pc = "idle" /\ authorizations < MaxAuthorize
  /\ ~TenantTaken(t)
  /\ devices[c] = Null /\ \A k \in Handlers : req[k].pc \in Authorizing => req[k].code # c
  /\ req' = [req EXCEPT ![h] = [Idle EXCEPT !.pc = "flushed", !.code = c, !.tenant = t]]
  /\ authorizations' = authorizations + 1
  /\ UNCHANGED <<devices, grants, answered, tokens>>

\* The SSO makes a grant for the client, with a code of its own.
NewGrant(h, g) ==
  /\ req[h].pc = "flushed" /\ grants[g] = Null
  /\ grants' = [grants EXCEPT ![g] = [client |-> req[h].code, status |-> "pending"]]
  /\ UNCHANGED <<devices, answered, tokens, authorizations>>

SsoAuthorizes(h, g) ==
  NewGrant(h, g) /\ req' = [req EXCEPT ![h].pc = "granted", ![h].sso = g]

\* The SSO made the grant, but its answer is lost or cannot be read: rollback.
SsoAnswerLost(h, g) == NewGrant(h, g) /\ req' = [req EXCEPT ![h] = Idle]

\* The tenant and the SSO code are looked up again.
Recheck(h) ==
  /\ req[h].pc = "granted"
  /\ req' = IF TenantTaken(req[h].tenant) \/ SsoTaken(req[h].sso)
              THEN [req EXCEPT ![h] = Idle]
              ELSE [req EXCEPT ![h].pc = "checked"]
  /\ UNCHANGED <<devices, grants, answered, tokens, authorizations>>

\* Mutant: the column has no default.
NoDefaultRow(h) == [tenant |-> req[h].tenant, sso |-> req[h].sso, verified |-> FALSE,
                    connectivity |-> Null]

NewRow(h) == [tenant |-> req[h].tenant, sso |-> req[h].sso, verified |-> FALSE,
              connectivity |-> "disconnect"]

\* Mutant: the codes are answered though the commit is refused.
AnsweringCommit(h) ==
  /\ req[h].pc = "checked"
  /\ IF TenantTaken(req[h].tenant) \/ SsoTaken(req[h].sso)
       THEN UNCHANGED devices
       ELSE devices' = [devices EXCEPT ![req[h].code] = NewRow(h)]
  /\ req' = [req EXCEPT ![h].pc = "bound"]
  /\ UNCHANGED <<grants, answered, tokens, authorizations>>

\* Mutant: the columns have no unique index.
UnindexedCommit(h) ==
  /\ req[h].pc = "checked"
  /\ devices' = [devices EXCEPT ![req[h].code] = NewRow(h)]
  /\ req' = [req EXCEPT ![h].pc = "bound"]
  /\ UNCHANGED <<grants, answered, tokens, authorizations>>

\* The codes are bound and the row is committed, unless a unique index refuses it.
Commit(h) ==
  /\ req[h].pc = "checked"
  /\ IF TenantTaken(req[h].tenant) \/ SsoTaken(req[h].sso)
       THEN req' = [req EXCEPT ![h] = Idle] /\ UNCHANGED devices
       ELSE /\ devices' = [devices EXCEPT ![req[h].code] = NewRow(h)]
            /\ req' = [req EXCEPT ![h].pc = "bound"]
  /\ UNCHANGED <<grants, answered, tokens, authorizations>>

\* The kiosk receives the grant.
Answer(h) ==
  /\ req[h].pc = "bound"
  /\ answered' = answered \cup {req[h].sso}
  /\ req' = [req EXCEPT ![h] = Idle]
  /\ UNCHANGED <<devices, grants, tokens, authorizations>>

-----------------------------------------------------------------------------
(***************************************************************************)
(* The SSO: operators decide on grants they see on a kiosk, pending and    *)
(* approved grants expire, and paired devices are revoked.                 *)
(***************************************************************************)
SetStatus(g, from, to) ==
  /\ grants[g] # Null /\ grants[g].status \in from
  /\ grants' = [grants EXCEPT ![g].status = to]
  /\ UNCHANGED <<devices, req, answered, tokens, authorizations>>

Verify(g, decision) == g \in answered /\ SetStatus(g, {"pending"}, decision)
Expire(g) == SetStatus(g, {"pending", "approved"}, "expired")
Revoke(g) == SetStatus(g, {"consumed"}, "revoked")

-----------------------------------------------------------------------------
(***************************************************************************)
(* POST /auth/device/token/ and POST /auth/device/refresh/.  Polls that    *)
(* the SSO answers with an error change nothing and are left out.          *)
(***************************************************************************)
\* Mutant: any answer of the SSO marks the device.
EagerPoll(h, g) ==
  /\ req[h].pc = "idle" /\ g \in answered
  /\ grants[g].status \in {"pending", "approved"}
  /\ grants' = [grants EXCEPT ![g].status = IF @ = "approved" THEN "consumed" ELSE @]
  /\ req' = [req EXCEPT ![h] = [Idle EXCEPT !.pc = "polled", !.sso = g]]
  /\ UNCHANGED <<devices, answered, tokens, authorizations>>

\* An approved grant is exchanged for tokens, once.
Poll(h, g) ==
  /\ req[h].pc = "idle" /\ g \in answered
  /\ grants[g].status = "approved"
  /\ grants' = [grants EXCEPT ![g].status = "consumed"]
  /\ req' = [req EXCEPT ![h] = [Idle EXCEPT !.pc = "polled", !.sso = g]]
  /\ UNCHANGED <<devices, answered, tokens, authorizations>>

\* The refresh token is rotated: the old one is spent.
Refresh(h, g) ==
  /\ req[h].pc = "idle" /\ g \in tokens
  /\ grants[g].status = "consumed"
  /\ tokens' = tokens \ {g}
  /\ req' = [req EXCEPT ![h] = [Idle EXCEPT !.pc = "refreshed", !.sso = g]]
  /\ UNCHANGED <<devices, grants, answered, authorizations>>

\* _mark_connected finds the row by the SSO code, _reconnect_after_refresh by
\* the client_id of the new access token.
FindDevice(h, c) ==
  /\ devices[c] # Null
  /\ \/ /\ req[h].pc = "polled" /\ devices[c].sso = req[h].sso
        /\ req' = [req EXCEPT ![h].pc = "mark", ![h].code = c, ![h].seen = devices[c]]
     \/ /\ req[h].pc = "refreshed" /\ c = grants[req[h].sso].client
        /\ req' = [req EXCEPT ![h].pc = "reconnect", ![h].code = c, ![h].seen = devices[c]]
  /\ UNCHANGED <<devices, grants, answered, tokens, authorizations>>

\* Mutant: the refresh only stamps last_synced_at.
TimestampOnly(job, seen, row) ==
  IF job = "mark" THEN [row EXCEPT !.verified = TRUE, !.connectivity = "connect"] ELSE row

\* UPDATE carries the columns that differ from the row as it was loaded.
Stamped(job, seen, row) ==
  [row EXCEPT !.verified = IF job = "mark" /\ ~seen.verified THEN TRUE ELSE @,
              !.connectivity = IF seen.connectivity # "connect" THEN "connect" ELSE @]

\* The kiosk receives the tokens.
Forward(h) ==
  /\ tokens' = tokens \cup {req[h].sso}
  /\ req' = [req EXCEPT ![h] = Idle]
  /\ UNCHANGED <<grants, answered, authorizations>>

Stamp(h) ==
  /\ req[h].pc \in {"mark", "reconnect"}
  /\ devices' = [devices EXCEPT ![req[h].code] = Stamped(req[h].pc, req[h].seen, @)]
  /\ Forward(h)

\* Best effort: the tokens are forwarded though the row could not be marked.
SkipStamp(h) ==
  /\ req[h].pc \in Forwarding
  /\ Forward(h)
  /\ UNCHANGED devices

\* The SSO refuses or cannot be reached, the database fails, the process dies
\* or the answer to the kiosk is lost: what is not committed is rolled back.
Abort(h) ==
  /\ req[h].pc # "idle"
  /\ req' = [req EXCEPT ![h] = Idle]
  /\ UNCHANGED <<devices, grants, answered, tokens, authorizations>>

\* _record_liveness: any request with a token of the device.
RecordLiveness(g, connectivity) ==
  /\ g \in tokens
  /\ LET c == grants[g].client
     IN devices[c] # Null /\ devices' = [devices EXCEPT ![c].connectivity = connectivity]
  /\ UNCHANGED <<req, grants, answered, tokens, authorizations>>

-----------------------------------------------------------------------------
Progress(h) ==
  \/ Recheck(h) \/ Commit(h) \/ Answer(h) \/ Stamp(h)
  \/ \E g \in SsoCodes : SsoAuthorizes(h, g)
  \/ \E c \in Codes : FindDevice(h, c)

Next ==
  \/ \E h \in Handlers :
       \/ Progress(h) \/ SkipStamp(h) \/ Abort(h)
       \/ \E c \in Codes, t \in Tenants \cup {Null} : Authorize(h, c, t)
       \/ \E g \in SsoCodes : SsoAnswerLost(h, g) \/ Poll(h, g) \/ Refresh(h, g)
  \/ \E g \in SsoCodes :
       \/ \E decision \in {"approved", "denied"} : Verify(g, decision)
       \/ Expire(g) \/ Revoke(g)
       \/ \E connectivity \in {"connect", "error"} : RecordLiveness(g, connectivity)

Spec == Init /\ [][Next]_vars

Found(g) == \E h \in Handlers, c \in Codes : req[h].sso = g /\ FindDevice(h, c)
Stamps(g) == \E h \in Handlers : req[h].sso = g /\ Stamp(h)

\* Handlers run to their end; a kiosk refreshes its tokens again and again, in
\* turn with the others; and the bookkeeping that follows does not fail every time.
FairSpec ==
  /\ Spec
  /\ \A h \in Handlers : WF_vars(Progress(h))
  /\ \A g \in SsoCodes :
       /\ SF_vars(\E h \in Handlers : Refresh(h, g))
       /\ SF_vars(Found(g)) /\ SF_vars(Stamps(g))

-----------------------------------------------------------------------------
(***************************************************************************)
(* Properties.                                                             *)
(***************************************************************************)
\* Types of all state.
TypeOK ==
  /\ devices \in [Codes -> Rows \cup {Null}]
  /\ req \in [Handlers -> Requests]
  /\ grants \in [SsoCodes -> Grants \cup {Null}]
  /\ answered \subseteq SsoCodes
  /\ tokens \subseteq SsoCodes
  /\ authorizations \in 0 .. MaxAuthorize

\* A failed authorize leaves no orphan row, whatever fails and wherever: each
\* committed row has a grant that the SSO made for it.
RowHasGrant ==
  \A c \in Codes : devices[c] # Null =>
    /\ devices[c].sso \in SsoCodes
    /\ grants[devices[c].sso] # Null /\ grants[devices[c].sso].client = c

\* Two pairings at the same time do not bind one tenant to two devices.
UniqueTenants ==
  \A c, d \in Codes :
    (devices[c] # Null /\ devices[d] # Null /\ devices[c].tenant = devices[d].tenant
       /\ devices[c].tenant # Null) => c = d

\* A kiosk never has codes that the service does not know: the client of a
\* grant that a kiosk received has a row, bound to that grant.  So the service
\* finds the device of every token that the SSO issues.
AnsweredIsBound ==
  \A g \in answered :
    /\ grants[g] # Null
    /\ devices[grants[g].client] # Null /\ devices[grants[g].client].sso = g

\* A device is verified only when the SSO has issued tokens for its grant.
VerifiedWasApproved ==
  \A c \in Codes : (devices[c] # Null /\ devices[c].verified) =>
    grants[devices[c].sso].status \in {"consumed", "revoked"}

-----------------------------------------------------------------------------
(***************************************************************************)
(* The inductive invariant behind them: what each handler knows of the     *)
(* grant and the row that it is working on, between its steps.             *)
(***************************************************************************)
\* An uncommitted row has its code to itself.
OwnCode(h) ==
  /\ req[h].code \in Codes /\ devices[req[h].code] = Null
  /\ \A k \in Handlers \ {h} : req[k].pc \in Authorizing => req[k].code # req[h].code

\* The grant in the answer is for that code, and no kiosk knows it yet.
OwnGrant(h) ==
  /\ req[h].sso \in SsoCodes \ answered
  /\ grants[req[h].sso] # Null /\ grants[req[h].sso].client = req[h].code

BoundTo(g) ==
  /\ g \in SsoCodes /\ grants[g] # Null
  /\ devices[grants[g].client] # Null /\ devices[grants[g].client].sso = g

Exchanged(g) == g \in answered /\ grants[g].status \in {"consumed", "revoked"}

\* The row that is to be marked is the one of the grant.
OwnRow(h) ==
  /\ req[h].code \in Codes /\ req[h].seen \in Rows
  /\ devices[req[h].code] # Null /\ devices[req[h].code].sso = req[h].sso

HandlerInv(h) ==
  /\ req[h].pc \in Authorizing => OwnCode(h)
  /\ req[h].pc \in {"granted", "checked"} => OwnGrant(h)
  /\ req[h].pc = "bound" => BoundTo(req[h].sso)
  /\ req[h].pc \in Forwarding => Exchanged(req[h].sso)
  /\ req[h].pc \in {"mark", "reconnect"} => OwnRow(h)

\* Tokens, like those that are on their way, are of grants that were exchanged.
TokensInv == \A g \in tokens : Exchanged(g)

IInv == /\ TypeOK /\ RowHasGrant /\ UniqueTenants /\ AnsweredIsBound /\ VerifiedWasApproved
        /\ TokensInv /\ \A h \in Handlers : HandlerInv(h)

-----------------------------------------------------------------------------
(***************************************************************************)
(* The promise, as the tables of the service and of the SSO keep it.       *)
(***************************************************************************)
Binding(c) == [code |-> c, grant |-> devices[c].sso, tenant |-> devices[c].tenant]
Bindings == {Binding(c) : c \in {d \in Codes : devices[d] # Null}}

InStatus(statuses) == {g \in SsoCodes : grants[g] # Null /\ grants[g].status \in statuses}

Promise == INSTANCE PairingPromise WITH
             bindings <- Bindings, shown <- answered,
             approved <- InStatus({"approved"}), issued <- InStatus({"consumed", "revoked"}),
             verified <- {c \in Codes : devices[c] # Null /\ devices[c].verified}

\* Whatever fails between the service, the SSO and the kiosk, pairing implements
\* its promise: "all-or-nothing" (api/auth_device.py:137), and in this order.
ImplementsPromise == Promise!Spec

-----------------------------------------------------------------------------
\* The kiosk holds tokens, or they are on their way to it.
Paired(g) ==
  /\ grants[g] # Null /\ grants[g].status = "consumed"
  /\ g \in tokens \/ \E h \in Handlers : req[h].pc \in Forwarding /\ req[h].sso = g

\* A kiosk that keeps its tokens is shown as connected in the end, although
\* the bookkeeping may fail and other requests set the flag to "error".
Reconnects ==
  \A g \in SsoCodes :
    g \in tokens ~> (~Paired(g) \/ devices[grants[g].client].connectivity = "connect")

\* "the kiosk keeps polling and a later success (or any subsequent success)
\* will set them" (api/auth_device.py:292): a kiosk that keeps its tokens is
\* marked as verified in the end.
VerifiedInTheEnd ==
  \A g \in SsoCodes :
    g \in tokens ~> (~Paired(g) \/ devices[grants[g].client].verified)

=============================================================================
