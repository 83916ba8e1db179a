------------------------ MODULE DevicePairingProofs ------------------------
(***************************************************************************)
(* Proofs about DevicePairing: the inductive invariant, one lemma for each *)
(* action, and the theorems.                                               *)
(***************************************************************************)
EXTENDS DevicePairing, TLAPS

\* What every step leaves true: rows keep their codes, grants keep their client,
\* and what was exchanged or answered stays so.
Stable ==
  /\ \A c \in Codes : devices[c] # Null => devices'[c] # Null /\ devices'[c].sso = devices[c].sso
  /\ \A g \in SsoCodes : grants[g] # Null =>
       /\ grants'[g] # Null /\ grants'[g].client = grants[g].client
       /\ grants[g].status \in {"consumed", "revoked"}
            => grants'[g].status \in {"consumed", "revoked"}
  /\ answered \subseteq answered'

\* Committed rows, grants and handlers in the types of the model.
LEMMA Types ==
  ASSUME TypeOK
  PROVE  /\ \A c \in Codes : devices[c] \in Rows \cup {Null}
         /\ \A g \in SsoCodes : grants[g] \in Grants \cup {Null}
         /\ \A g \in SsoCodes : grants[g] # Null =>
              /\ grants[g].client \in Codes
              /\ grants[g].status \in {"pending", "approved", "denied", "expired",
                                       "consumed", "revoked"}
         /\ \A h \in Handlers : /\ req[h] \in Requests
                                /\ req[h].code \in Codes \cup {Null}
                                /\ req[h].sso \in SsoCodes \cup {Null}
         /\ answered \subseteq SsoCodes /\ tokens \subseteq SsoCodes
  BY DEF TypeOK, Grants, Requests

LEMMA IdleType == Idle \in Requests
  BY DEF Idle, Requests

\* A handler that does not step keeps its part of the invariant, if its code is
\* still free and its grant still unknown to kiosks.
LEMMA OtherHandlers ==
  ASSUME TypeOK, AnsweredIsBound, Stable, NEW k \in Handlers, HandlerInv(k), req'[k] = req[k],
         req[k].pc \in Authorizing => OwnCode(k)',
         req[k].pc \in {"granted", "checked"} => req[k].sso \notin answered'
  PROVE  HandlerInv(k)'
  <1>1. req[k].pc \in {"granted", "checked"} => OwnGrant(k)'
    BY DEF HandlerInv, OwnGrant, Stable
  <1>2. req[k].pc = "bound" => BoundTo(req[k].sso)'
    <2>1. SUFFICES ASSUME req[k].pc = "bound" PROVE BoundTo(req[k].sso)'
      OBVIOUS
    <2>2. BoundTo(req[k].sso)
      BY <2>1 DEF HandlerInv
    <2>3. grants[req[k].sso].client \in Codes
      BY <2>2, Types DEF BoundTo
    <2> QED BY <2>2, <2>3 DEF BoundTo, Stable
  <1>3. req[k].pc \in Forwarding => Exchanged(req[k].sso)'
    <2>1. SUFFICES ASSUME req[k].pc \in Forwarding PROVE Exchanged(req[k].sso)'
      OBVIOUS
    <2>2. Exchanged(req[k].sso) /\ req[k].sso \in SsoCodes
      BY <2>1, Types DEF HandlerInv, Exchanged
    <2>3. grants[req[k].sso] # Null
      BY <2>2 DEF Exchanged, AnsweredIsBound
    <2> QED BY <2>2, <2>3 DEF Exchanged, Stable
  <1>4. req[k].pc \in {"mark", "reconnect"} => OwnRow(k)'
    BY DEF HandlerInv, OwnRow, Stable
  <1> QED BY <1>1, <1>2, <1>3, <1>4 DEF HandlerInv

\* The parts about answered grants and tokens.
LEMMA AnswersStable ==
  ASSUME TypeOK, AnsweredIsBound, TokensInv, Stable
  PROVE  /\ \A g \in answered : BoundTo(g)'
         /\ \A g \in tokens : Exchanged(g)'
  <1>1. ASSUME NEW g \in answered
        PROVE  BoundTo(g)'
    <2>1. g \in SsoCodes /\ grants[g] # Null /\ grants[g].client \in Codes
      BY Types DEF AnsweredIsBound
    <2> QED BY <2>1 DEF AnsweredIsBound, BoundTo, Stable
  <1>2. ASSUME NEW g \in tokens
        PROVE  Exchanged(g)'
    <2>1. Exchanged(g) /\ g \in SsoCodes
      BY Types DEF TokensInv
    <2>2. grants[g] # Null
      BY <2>1 DEF Exchanged, AnsweredIsBound
    <2> QED BY <2>1, <2>2 DEF Exchanged, Stable
  <1> QED BY <1>1, <1>2

\* A step of one handler that changes neither the tables nor the SSO.
LEMMA MoveKeeps ==
  ASSUME IInv, NEW h \in Handlers, NEW r \in Requests, req' = [req EXCEPT ![h] = r],
         UNCHANGED <<devices, grants, answered>>,
         tokens' \subseteq SsoCodes, \A g \in tokens' : Exchanged(g),
         authorizations' \in 0 .. MaxAuthorize,
         r.pc \in Authorizing =>
           /\ r.code \in Codes /\ devices[r.code] = Null
           /\ \A k \in Handlers \ {h} : req[k].pc \in Authorizing => req[k].code # r.code,
         r.pc \in {"granted", "checked"} =>
           /\ r.sso \in SsoCodes \ answered
           /\ grants[r.sso] # Null /\ grants[r.sso].client = r.code,
         r.pc = "bound" => BoundTo(r.sso),
         r.pc \in Forwarding => Exchanged(r.sso),
         r.pc \in {"mark", "reconnect"} =>
           /\ r.code \in Codes /\ r.seen \in Rows
           /\ devices[r.code] # Null /\ devices[r.code].sso = r.sso
  PROVE  IInv'
  <1>1. TypeOK'
    BY DEF IInv, TypeOK
  <1>2. RowHasGrant' /\ UniqueTenants' /\ AnsweredIsBound' /\ VerifiedWasApproved' /\ TokensInv'
    BY DEF IInv, RowHasGrant, UniqueTenants, AnsweredIsBound, VerifiedWasApproved, TokensInv,
       Exchanged
  <1>3. req'[h] = r /\ \A k \in Handlers \ {h} : req'[k] = req[k]
    BY DEF IInv, TypeOK
  <1>4. HandlerInv(h)'
    BY <1>3 DEF HandlerInv, OwnCode, OwnGrant, BoundTo, Exchanged, OwnRow
  <1>5. ASSUME NEW k \in Handlers \ {h}
        PROVE  HandlerInv(k)'
    <2>1. Stable
      BY DEF Stable
    <2>2. req[k].pc \in Authorizing => OwnCode(k)'
      BY <1>3 DEF IInv, HandlerInv, OwnCode
    <2>3. req[k].pc \in {"granted", "checked"} => req[k].sso \notin answered'
      BY DEF IInv, HandlerInv, OwnGrant
    <2> QED BY <1>3, <2>1, <2>2, <2>3, OtherHandlers DEF IInv
  <1> QED BY <1>1, <1>2, <1>4, <1>5 DEF IInv

(***************************************************************************)
(* Handler steps that leave the tables and the SSO as they are.            *)
(***************************************************************************)
LEMMA AuthorizeKeeps ==
  ASSUME IInv, NEW h \in Handlers, NEW c \in Codes, NEW t \in Tenants \cup {Null},
         Authorize(h, c, t)
  PROVE  IInv'
  <1> DEFINE r == [Idle EXCEPT !.pc = "flushed", !.code = c, !.tenant = t]
  <1>1. r \in Requests /\ r.pc = "flushed" /\ r.code = c
    BY DEF Idle, Requests, Authorizing
  <1>2. /\ req' = [req EXCEPT ![h] = r] /\ UNCHANGED <<devices, grants, answered, tokens>>
        /\ devices[c] = Null /\ \A k \in Handlers : req[k].pc \in Authorizing => req[k].code # c
        /\ authorizations' \in 0 .. MaxAuthorize
    BY BoundAssumption DEF Authorize, IInv, TypeOK
  <1>3. tokens' \subseteq SsoCodes /\ \A g \in tokens' : Exchanged(g)
    BY <1>2 DEF IInv, TypeOK, TokensInv
  <1> QED BY <1>1, <1>2, <1>3, MoveKeeps DEF Forwarding

\* A handler that gives up, before or after its commit.
LEMMA IdleKeeps ==
  ASSUME IInv, NEW h \in Handlers, req' = [req EXCEPT ![h] = Idle],
         UNCHANGED <<devices, grants, answered, authorizations>>,
         tokens' \subseteq SsoCodes, \A g \in tokens' : Exchanged(g)
  PROVE  IInv'
  <1>1. Idle.pc = "idle"
    BY DEF Idle
  <1>2. authorizations' \in 0 .. MaxAuthorize
    BY DEF IInv, TypeOK
  <1> QED BY <1>1, <1>2, IdleType, MoveKeeps DEF Authorizing, Forwarding

LEMMA AbortKeeps ==
  ASSUME IInv, NEW h \in Handlers, Abort(h)
  PROVE  IInv'
  <1>1. tokens' \subseteq SsoCodes /\ \A g \in tokens' : Exchanged(g)
    BY DEF Abort, IInv, TypeOK, TokensInv
  <1> QED BY <1>1, IdleKeeps DEF Abort

LEMMA SkipStampKeeps ==
  ASSUME IInv, NEW h \in Handlers, SkipStamp(h)
  PROVE  IInv'
  <1>1. Exchanged(req[h].sso) /\ req[h].sso \in SsoCodes
    BY Types DEF SkipStamp, IInv, HandlerInv, Exchanged
  <1>2. tokens' \subseteq SsoCodes /\ \A g \in tokens' : Exchanged(g)
    BY <1>1 DEF SkipStamp, Forward, IInv, TypeOK, TokensInv
  <1> QED BY <1>2, IdleKeeps DEF SkipStamp, Forward

LEMMA RecheckKeeps ==
  ASSUME IInv, NEW h \in Handlers, Recheck(h)
  PROVE  IInv'
  <1>1. tokens' \subseteq SsoCodes /\ \A g \in tokens' : Exchanged(g)
    BY DEF Recheck, IInv, TypeOK, TokensInv
  <1>2. CASE req' = [req EXCEPT ![h] = Idle]
    BY <1>1, <1>2, IdleKeeps DEF Recheck
  <1>3. CASE req' = [req EXCEPT ![h].pc = "checked"]
    <2> DEFINE r == [req[h] EXCEPT !.pc = "checked"]
    <2>1. req[h] \in Requests
      BY DEF IInv, TypeOK
    <2>2. /\ r \in Requests /\ r.pc = "checked" /\ r.code = req[h].code
          /\ r.sso = req[h].sso
      BY <2>1 DEF Requests, Authorizing
    <2>3. OwnCode(h) /\ OwnGrant(h)
      BY DEF Recheck, IInv, HandlerInv, Authorizing
    <2>4. req' = [req EXCEPT ![h] = r] /\ authorizations' \in 0 .. MaxAuthorize
      BY <1>3 DEF IInv, TypeOK, Recheck
    <2>5. /\ r.code \in Codes /\ devices[r.code] = Null
          /\ \A k \in Handlers \ {h} : req[k].pc \in Authorizing => req[k].code # r.code
          /\ r.sso \in SsoCodes \ answered
          /\ grants[r.sso] # Null /\ grants[r.sso].client = r.code
          /\ r.pc # "bound" /\ r.pc \notin Forwarding /\ r.pc \notin {"mark", "reconnect"}
      BY <2>2, <2>3 DEF OwnCode, OwnGrant, Forwarding
    <2> HIDE DEF r
    <2> QED BY <1>1, <2>2, <2>4, <2>5, MoveKeeps DEF Recheck
  <1> QED BY <1>2, <1>3 DEF Recheck

LEMMA RefreshKeeps ==
  ASSUME IInv, NEW h \in Handlers, NEW g \in SsoCodes, Refresh(h, g)
  PROVE  IInv'
  <1> DEFINE r == [Idle EXCEPT !.pc = "refreshed", !.sso = g]
  <1>1. r \in Requests /\ r.pc = "refreshed" /\ r.sso = g
    BY DEF Idle, Requests, Forwarding
  <1>2. /\ req' = [req EXCEPT ![h] = r] /\ UNCHANGED <<devices, grants, answered>>
        /\ authorizations' \in 0 .. MaxAuthorize /\ tokens' = tokens \ {g}
    BY DEF Refresh, IInv, TypeOK
  <1>3. Exchanged(g)
    BY DEF Refresh, IInv, TokensInv
  <1>4. tokens' \subseteq SsoCodes /\ \A k \in tokens' : Exchanged(k)
    BY <1>2 DEF IInv, TypeOK, TokensInv
  <1> QED BY <1>1, <1>2, <1>3, <1>4, MoveKeeps DEF Authorizing

LEMMA FindDeviceKeeps ==
  ASSUME IInv, NEW h \in Handlers, NEW c \in Codes, FindDevice(h, c)
  PROVE  IInv'
  <1>1. PICK job \in {"mark", "reconnect"} :
          req' = [req EXCEPT ![h] = [@ EXCEPT !.pc = job, !.code = c, !.seen = devices[c]]]
    BY DEF FindDevice, IInv, TypeOK
  <1> DEFINE r == [req[h] EXCEPT !.pc = job, !.code = c, !.seen = devices[c]]
  <1>2. /\ req[h] \in Requests /\ devices[c] \in Rows
        /\ req[h].pc \in {"polled", "refreshed"}
    BY Types DEF FindDevice, IInv, TypeOK
  <1>3. /\ r \in Requests /\ r.pc = job /\ r.code = c /\ r.sso = req[h].sso
        /\ r.seen = devices[c]
    BY <1>2 DEF Requests, Forwarding
  <1>4. Exchanged(req[h].sso)
    BY <1>2 DEF IInv, HandlerInv, Forwarding
  <1>5. devices[c] # Null /\ devices[c].sso = req[h].sso
    BY <1>4 DEF FindDevice, Exchanged, IInv, AnsweredIsBound
  <1>6. tokens' \subseteq SsoCodes /\ \A g \in tokens' : Exchanged(g)
    BY DEF FindDevice, IInv, TypeOK, TokensInv
  <1>7. authorizations' \in 0 .. MaxAuthorize
    BY DEF FindDevice, IInv, TypeOK
  <1> QED BY <1>1, <1>2, <1>3, <1>4, <1>5, <1>6, <1>7, MoveKeeps DEF FindDevice, Authorizing

(***************************************************************************)
(* Steps of the SSO.                                                       *)
(***************************************************************************)
LEMMA GrantsKeep ==
  ASSUME IInv, Stable, grants' \in [SsoCodes -> Grants \cup {Null}],
         UNCHANGED <<devices, answered, tokens>>
  PROVE  RowHasGrant' /\ UniqueTenants' /\ AnsweredIsBound' /\ VerifiedWasApproved' /\ TokensInv'
  <1>1. RowHasGrant'
    BY DEF IInv, RowHasGrant, Stable
  <1>2. UniqueTenants'
    BY DEF IInv, UniqueTenants
  <1>3. AnsweredIsBound' /\ TokensInv'
    BY AnswersStable DEF IInv, AnsweredIsBound, TokensInv, BoundTo
  <1>4. VerifiedWasApproved'
    BY DEF IInv, RowHasGrant, VerifiedWasApproved, Stable
  <1> QED BY <1>1, <1>2, <1>3, <1>4

\* A new grant is known to no row and to no kiosk.
LEMMA NewGrantFacts ==
  ASSUME IInv, NEW h \in Handlers, NEW g \in SsoCodes, NewGrant(h, g)
  PROVE  /\ Stable /\ grants' \in [SsoCodes -> Grants \cup {Null}]
         /\ UNCHANGED <<devices, answered, tokens, authorizations>>
         /\ g \notin answered /\ grants'[g] # Null /\ grants'[g].client = req[h].code
         /\ OwnCode(h)
  <1>1. OwnCode(h) /\ req[h].code \in Codes
    BY DEF NewGrant, IInv, HandlerInv, Authorizing, OwnCode
  <1> DEFINE new == [client |-> req[h].code, status |-> "pending"]
  <1>2. new \in Grants
    BY <1>1 DEF Grants
  <1>3. /\ grants[g] = Null /\ grants' = [grants EXCEPT ![g] = new]
        /\ UNCHANGED <<devices, answered, tokens, authorizations>>
    BY DEF NewGrant
  <1>4. grants'[g] = new /\ \A k \in SsoCodes : k # g => grants'[k] = grants[k]
    BY <1>3 DEF IInv, TypeOK
  <1>5. Stable
    BY <1>3, <1>4 DEF Stable
  <1>6. g \notin answered
    BY <1>3 DEF IInv, AnsweredIsBound
  <1>7. new # Null
    BY <1>2, NullAssumption
  <1> QED BY <1>1, <1>2, <1>3, <1>4, <1>5, <1>6, <1>7 DEF IInv, TypeOK

LEMMA SsoAuthorizesKeeps ==
  ASSUME IInv, NEW h \in Handlers, NEW g \in SsoCodes, SsoAuthorizes(h, g)
  PROVE  IInv'
  <1> DEFINE r == [req[h] EXCEPT !.pc = "granted", !.sso = g]
  <1>1. NewGrant(h, g)
    BY DEF SsoAuthorizes
  <1>2. req[h] \in Requests /\ req[h].pc = "flushed"
    BY <1>1 DEF NewGrant, IInv, TypeOK
  <1>3. r \in Requests /\ r.pc = "granted" /\ r.sso = g /\ r.code = req[h].code
    BY <1>2 DEF Requests, Authorizing
  <1>4. req' = [req EXCEPT ![h] = r]
    BY DEF SsoAuthorizes, IInv, TypeOK
  <1>5. req'[h] = r /\ \A k \in Handlers \ {h} : req'[k] = req[k]
    BY <1>4 DEF IInv, TypeOK
  <1>6. TypeOK'
    BY <1>1, <1>3, <1>4, NewGrantFacts DEF IInv, TypeOK
  <1>7. HandlerInv(h)'
    <2>1. OwnCode(h)'
      BY <1>1, <1>2, <1>3, <1>5, NewGrantFacts DEF OwnCode
    <2>2. OwnGrant(h)'
      BY <1>1, <1>3, <1>5, NewGrantFacts DEF OwnGrant
    <2> QED BY <1>3, <1>5, <2>1, <2>2 DEF HandlerInv, Forwarding
  <1>8. ASSUME NEW k \in Handlers \ {h}
        PROVE  HandlerInv(k)'
    <2>1. req[k].pc \in Authorizing => OwnCode(k)'
      <3>1. req[h].pc \in Authorizing
        BY <1>2 DEF Authorizing
      <3>2. req[k].pc \in Authorizing => OwnCode(k)
        BY DEF IInv, HandlerInv
      <3>3. devices' = devices
        BY <1>1, NewGrantFacts
      <3> QED BY <1>3, <1>5, <3>1, <3>2, <3>3 DEF OwnCode
    <2>2. req[k].pc \in {"granted", "checked"} => req[k].sso \notin answered'
      BY <1>1, NewGrantFacts DEF IInv, HandlerInv, OwnGrant
    <2> QED BY <1>1, <1>5, <2>1, <2>2, NewGrantFacts, OtherHandlers DEF IInv
  <1>9. RowHasGrant' /\ UniqueTenants' /\ AnsweredIsBound' /\ VerifiedWasApproved' /\ TokensInv'
    BY <1>1, NewGrantFacts, GrantsKeep
  <1> QED BY <1>6, <1>7, <1>8, <1>9 DEF IInv

\* The SSO acts while a handler ends or no handler steps.
LEMMA SsoStepKeeps ==
  ASSUME IInv, Stable, grants' \in [SsoCodes -> Grants \cup {Null}],
         UNCHANGED <<devices, answered, tokens, authorizations>>,
         \A k \in Handlers : req'[k] = req[k] \/ req'[k] = Idle,
         req' \in [Handlers -> Requests]
  PROVE  IInv'
  <1>1. TypeOK'
    BY DEF IInv, TypeOK
  <1>2. ASSUME NEW k \in Handlers
        PROVE  HandlerInv(k)'
    <2>1. CASE req'[k] = Idle
      BY <2>1 DEF HandlerInv, Idle, Authorizing, Forwarding
    <2>2. CASE req'[k] = req[k]
      <3>1. req[k].pc \in Authorizing => OwnCode(k)
        BY DEF IInv, HandlerInv
      <3>2. \A j \in Handlers : req'[j].pc \in Authorizing => req'[j] = req[j]
        BY DEF Idle, Authorizing
      <3>3. req[k].pc \in Authorizing => OwnCode(k)'
        BY <2>2, <3>1, <3>2 DEF OwnCode
      <3>4. req[k].pc \in {"granted", "checked"} => req[k].sso \notin answered'
        BY DEF IInv, HandlerInv, OwnGrant
      <3> QED BY <2>2, <3>3, <3>4, OtherHandlers DEF IInv
    <2> QED BY <2>1, <2>2
  <1>3. RowHasGrant' /\ UniqueTenants' /\ AnsweredIsBound' /\ VerifiedWasApproved' /\ TokensInv'
    BY GrantsKeep
  <1> QED BY <1>1, <1>2, <1>3 DEF IInv

LEMMA SsoAnswerLostKeeps ==
  ASSUME IInv, NEW h \in Handlers, NEW g \in SsoCodes, SsoAnswerLost(h, g)
  PROVE  IInv'
  <1>1. NewGrant(h, g) /\ req' = [req EXCEPT ![h] = Idle]
    BY DEF SsoAnswerLost
  <1>2. req' \in [Handlers -> Requests] /\ \A k \in Handlers : req'[k] = req[k] \/ req'[k] = Idle
    BY <1>1, IdleType DEF IInv, TypeOK
  <1> QED BY <1>1, <1>2, NewGrantFacts, SsoStepKeeps

\* A status changes, but never from exchanged to something else.
LEMMA StatusFacts ==
  ASSUME IInv, NEW g \in SsoCodes, grants[g] # Null,
         NEW to \in {"approved", "denied", "expired", "consumed", "revoked"},
         grants[g].status \in {"consumed", "revoked"} => to = "revoked",
         grants' = [grants EXCEPT ![g].status = to],
         UNCHANGED <<devices, answered>>
  PROVE  /\ Stable /\ grants' \in [SsoCodes -> Grants \cup {Null}]
         /\ grants'[g].status = to
  <1>1. grants[g] \in Grants
    BY Types DEF IInv
  <1> DEFINE new == [grants[g] EXCEPT !.status = to]
  <1>2. new \in Grants /\ new.client = grants[g].client /\ new.status = to
    BY <1>1 DEF Grants
  <1>3. new # Null
    BY <1>2, NullAssumption
  <1>4. grants' = [grants EXCEPT ![g] = new]
    BY DEF IInv, TypeOK
  <1>5. grants'[g] = new /\ \A k \in SsoCodes : k # g => grants'[k] = grants[k]
    BY <1>4 DEF IInv, TypeOK
  <1>6. Stable
    BY <1>2, <1>3, <1>5 DEF Stable
  <1> QED BY <1>2, <1>4, <1>5, <1>6 DEF IInv, TypeOK

LEMMA SetStatusKeeps ==
  ASSUME IInv, NEW g \in SsoCodes, Verify(g, "approved") \/ Verify(g, "denied") \/ Expire(g) \/ Revoke(g)
  PROVE  IInv'
  <1>1. PICK to \in {"approved", "denied", "expired", "consumed", "revoked"} :
          /\ grants[g] # Null
          /\ grants[g].status \in {"consumed", "revoked"} => to = "revoked"
          /\ grants' = [grants EXCEPT ![g].status = to]
          /\ UNCHANGED <<devices, req, answered, tokens, authorizations>>
    <2>1. CASE Verify(g, "approved")
      BY <2>1 DEF Verify, SetStatus
    <2>2. CASE Verify(g, "denied")
      BY <2>2 DEF Verify, SetStatus
    <2>3. CASE Expire(g)
      BY <2>3 DEF Expire, SetStatus
    <2>4. CASE Revoke(g)
      BY <2>4 DEF Revoke, SetStatus
    <2> QED BY <2>1, <2>2, <2>3, <2>4
  <1>2. Stable /\ grants' \in [SsoCodes -> Grants \cup {Null}]
    BY <1>1, StatusFacts
  <1> QED BY <1>1, <1>2, SsoStepKeeps DEF IInv, TypeOK

LEMMA PollKeeps ==
  ASSUME IInv, NEW h \in Handlers, NEW g \in SsoCodes, Poll(h, g)
  PROVE  IInv'
  <1> DEFINE r == [Idle EXCEPT !.pc = "polled", !.sso = g]
  <1>1. r \in Requests /\ r.pc = "polled" /\ r.sso = g
    BY DEF Idle, Requests, Forwarding
  <1>2. /\ g \in answered /\ grants[g] # Null /\ grants[g].status = "approved"
        /\ grants' = [grants EXCEPT ![g].status = "consumed"]
        /\ req' = [req EXCEPT ![h] = r]
        /\ UNCHANGED <<devices, answered, tokens, authorizations>>
    BY DEF Poll, IInv, AnsweredIsBound
  <1>3. /\ Stable /\ grants' \in [SsoCodes -> Grants \cup {Null}]
        /\ grants'[g].status = "consumed"
    BY <1>2, StatusFacts
  <1>4. req'[h] = r /\ \A k \in Handlers \ {h} : req'[k] = req[k]
    BY <1>2 DEF IInv, TypeOK
  <1>5. TypeOK'
    BY <1>1, <1>2, <1>3 DEF IInv, TypeOK
  <1>6. HandlerInv(h)'
    <2>1. Exchanged(g)'
      BY <1>2, <1>3 DEF Exchanged
    <2>2. Exchanged(req[h].sso)'
      BY <1>1, <1>4, <2>1 DEF Exchanged
    <2> HIDE DEF r
    <2> QED BY <1>1, <1>4, <2>2 DEF HandlerInv, Authorizing
  <1>7. ASSUME NEW k \in Handlers \ {h}
        PROVE  HandlerInv(k)'
    <2>1. req[k].pc \in Authorizing => OwnCode(k)'
      <3>1. req[k].pc \in Authorizing => OwnCode(k)
        BY DEF IInv, HandlerInv
      <3> QED BY <1>1, <1>2, <1>4, <3>1 DEF OwnCode, Authorizing
    <2>2. req[k].pc \in {"granted", "checked"} => req[k].sso \notin answered'
      BY <1>2 DEF IInv, HandlerInv, OwnGrant
    <2> QED BY <1>3, <1>4, <2>1, <2>2, OtherHandlers DEF IInv
  <1>8. RowHasGrant' /\ UniqueTenants' /\ AnsweredIsBound' /\ VerifiedWasApproved' /\ TokensInv'
    BY <1>2, <1>3, GrantsKeep
  <1> QED BY <1>5, <1>6, <1>7, <1>8 DEF IInv

(***************************************************************************)
(* Steps that change device rows.                                          *)
(***************************************************************************)
LEMMA CommitKeeps ==
  ASSUME IInv, NEW h \in Handlers, Commit(h)
  PROVE  IInv'
  <1> DEFINE c == req[h].code
             r == [req[h] EXCEPT !.pc = "bound"]
             refused == TenantTaken(req[h].tenant) \/ SsoTaken(req[h].sso)
  <1>1. /\ OwnCode(h) /\ OwnGrant(h) /\ req[h].pc = "checked" /\ req[h] \in Requests
        /\ UNCHANGED <<grants, answered, tokens, authorizations>>
    BY DEF Commit, IInv, TypeOK, HandlerInv, Authorizing
  <1>2. CASE refused
    <2>1. tokens' \subseteq SsoCodes /\ \A g \in tokens' : Exchanged(g)
      BY <1>1 DEF IInv, TypeOK, TokensInv
    <2> QED BY <1>1, <1>2, <2>1, IdleKeeps DEF Commit
  <1>3. CASE ~refused
    <2>1. /\ devices' = [devices EXCEPT ![c] = NewRow(h)]
          /\ req' = [req EXCEPT ![h] = r]
      BY <1>3 DEF Commit, IInv, TypeOK
    <2>2. /\ r \in Requests /\ r.pc = "bound" /\ r.sso = req[h].sso
      BY <1>1 DEF Requests
    <2>3. /\ NewRow(h) \in Rows /\ NewRow(h) # Null
          /\ NewRow(h).sso = req[h].sso /\ NewRow(h).tenant = req[h].tenant
          /\ ~NewRow(h).verified
      <3>1. req[h].tenant \in Tenants \cup {Null} /\ req[h].sso \in SsoCodes \cup {Null}
        BY <1>1 DEF Requests
      <3>2. NewRow(h) \in Rows
        BY <3>1 DEF NewRow, Rows
      <3> QED BY <3>2, NullAssumption DEF NewRow
    <2>4. /\ c \in Codes /\ devices[c] = Null
          /\ req[h].sso \in SsoCodes \ answered
          /\ grants[req[h].sso] # Null /\ grants[req[h].sso].client = c
          /\ \A k \in Handlers \ {h} : req[k].pc \in Authorizing => req[k].code # c
      BY <1>1 DEF OwnCode, OwnGrant
    <2>5. /\ devices'[c] = NewRow(h) /\ \A d \in Codes : d # c => devices'[d] = devices[d]
          /\ req'[h] = r /\ \A k \in Handlers \ {h} : req'[k] = req[k]
      BY <2>1, <2>4 DEF IInv, TypeOK
    <2>6. TypeOK'
      BY <1>1, <2>1, <2>2, <2>3, <2>4 DEF IInv, TypeOK
    <2>7. Stable
      BY <1>1, <2>4, <2>5 DEF Stable
    <2>8. RowHasGrant'
      BY <1>1, <2>3, <2>4, <2>5 DEF IInv, RowHasGrant
    <2>9. UniqueTenants'
      <3>1. \A d \in Codes : (devices[d] # Null /\ req[h].tenant # Null)
                               => devices[d].tenant # req[h].tenant
        BY <1>3 DEF TenantTaken
      <3> QED BY <2>3, <2>5, <3>1 DEF IInv, UniqueTenants
    <2>10. AnsweredIsBound' /\ TokensInv'
      BY <1>1, <2>7, AnswersStable DEF IInv, AnsweredIsBound, TokensInv, BoundTo
    <2>11. VerifiedWasApproved'
      BY <1>1, <2>3, <2>5 DEF IInv, VerifiedWasApproved
    <2>12. HandlerInv(h)'
      <3>1. BoundTo(req[h].sso)'
        <4>1. BoundTo(r.sso)'
          BY <1>1, <2>2, <2>3, <2>4, <2>5 DEF BoundTo
        <4> QED BY <2>2, <2>5, <4>1
      <3> QED BY <2>2, <2>5, <3>1 DEF HandlerInv, Authorizing, Forwarding
    <2>13. ASSUME NEW k \in Handlers \ {h}
           PROVE  HandlerInv(k)'
      <3>1. req[k].pc \in Authorizing => OwnCode(k)'
        <4>1. req[k].pc \in Authorizing => OwnCode(k)
          BY DEF IInv, HandlerInv
        <4> QED BY <2>2, <2>4, <2>5, <4>1 DEF OwnCode, Authorizing
      <3>2. req[k].pc \in {"granted", "checked"} => req[k].sso \notin answered'
        BY <1>1 DEF IInv, HandlerInv, OwnGrant
      <3> QED BY <2>5, <2>7, <3>1, <3>2, OtherHandlers DEF IInv
    <2> QED BY <2>6, <2>8, <2>9, <2>10, <2>11, <2>12, <2>13 DEF IInv
  <1> QED BY <1>2, <1>3

LEMMA AnswerKeeps ==
  ASSUME IInv, NEW h \in Handlers, Answer(h)
  PROVE  IInv'
  <1>1. /\ BoundTo(req[h].sso) /\ req' = [req EXCEPT ![h] = Idle]
        /\ answered' = answered \cup {req[h].sso}
        /\ UNCHANGED <<devices, grants, tokens, authorizations>>
    BY DEF Answer, IInv, HandlerInv
  <1>2. req'[h] = Idle /\ \A k \in Handlers \ {h} : req'[k] = req[k]
    BY <1>1 DEF IInv, TypeOK
  <1>3. TypeOK'
    BY <1>1, IdleType DEF IInv, TypeOK, BoundTo
  <1>4. RowHasGrant' /\ UniqueTenants' /\ VerifiedWasApproved'
    BY <1>1 DEF IInv, RowHasGrant, UniqueTenants, VerifiedWasApproved
  <1>5. AnsweredIsBound' /\ TokensInv'
    BY <1>1 DEF IInv, AnsweredIsBound, TokensInv, BoundTo, Exchanged
  <1>6. HandlerInv(h)'
    BY <1>2 DEF HandlerInv, Idle, Authorizing, Forwarding
  <1>7. ASSUME NEW k \in Handlers \ {h}
        PROVE  HandlerInv(k)'
    <2>1. Stable
      BY <1>1 DEF Stable
    <2>2. req[k].pc \in Authorizing => OwnCode(k)'
      <3>1. req[k].pc \in Authorizing => OwnCode(k)
        BY DEF IInv, HandlerInv
      <3> QED BY <1>1, <1>2, <3>1 DEF OwnCode, Idle, Authorizing
    <2>3. req[k].pc \in {"granted", "checked"} => req[k].sso \notin answered'
      BY <1>1 DEF IInv, HandlerInv, OwnCode, OwnGrant, BoundTo, Authorizing
    <2> QED BY <1>2, <2>1, <2>2, <2>3, OtherHandlers DEF IInv
  <1> QED BY <1>3, <1>4, <1>5, <1>6, <1>7 DEF IInv

\* The flags of one committed row change, and perhaps a token is forwarded.
LEMMA FlagsKeep ==
  ASSUME IInv, NEW c \in Codes, devices[c] # Null, NEW row \in Rows,
         devices' = [devices EXCEPT ![c] = row],
         row.sso = devices[c].sso, row.tenant = devices[c].tenant,
         row.verified => devices[c].verified \/ Exchanged(devices[c].sso),
         UNCHANGED <<grants, answered, authorizations>>,
         tokens' \subseteq SsoCodes, \A g \in tokens' : Exchanged(g),
         \A k \in Handlers : req'[k] = req[k] \/ req'[k] = Idle,
         req' \in [Handlers -> Requests]
  PROVE  IInv'
  <1>1. /\ devices'[c] = row /\ \A d \in Codes : d # c => devices'[d] = devices[d]
        /\ row # Null
    BY NullAssumption DEF IInv, TypeOK
  <1>2. TypeOK'
    BY DEF IInv, TypeOK
  <1>3. Stable
    BY <1>1 DEF Stable
  <1>4. RowHasGrant' /\ UniqueTenants'
    BY <1>1 DEF IInv, RowHasGrant, UniqueTenants
  <1>5. VerifiedWasApproved'
    BY <1>1 DEF IInv, VerifiedWasApproved, Exchanged
  <1>6. AnsweredIsBound'
    BY <1>3, AnswersStable DEF IInv, AnsweredIsBound, BoundTo
  <1>7. TokensInv'
    BY DEF TokensInv, Exchanged
  <1>8. ASSUME NEW k \in Handlers
        PROVE  HandlerInv(k)'
    <2>1. CASE req'[k] = Idle
      BY <2>1 DEF HandlerInv, Idle, Authorizing, Forwarding
    <2>2. CASE req'[k] = req[k]
      <3>1. req[k].pc \in Authorizing => OwnCode(k)
        BY DEF IInv, HandlerInv
      <3>2. \A j \in Handlers : req'[j].pc \in Authorizing => req'[j] = req[j]
        BY DEF Idle, Authorizing
      <3>3. req[k].pc \in Authorizing => OwnCode(k)'
        BY <1>1, <2>2, <3>1, <3>2 DEF OwnCode
      <3>4. req[k].pc \in {"granted", "checked"} => req[k].sso \notin answered'
        BY DEF IInv, HandlerInv, OwnGrant
      <3> QED BY <1>3, <2>2, <3>3, <3>4, OtherHandlers DEF IInv
    <2> QED BY <2>1, <2>2
  <1> QED BY <1>2, <1>4, <1>5, <1>6, <1>7, <1>8 DEF IInv

LEMMA StampKeeps ==
  ASSUME IInv, NEW h \in Handlers, Stamp(h)
  PROVE  IInv'
  <1> DEFINE c == req[h].code
             row == Stamped(req[h].pc, req[h].seen, devices[c])
  <1>1. OwnRow(h) /\ Exchanged(req[h].sso) /\ req[h].sso \in SsoCodes
    BY Types DEF Stamp, IInv, HandlerInv, Forwarding, Exchanged
  <1>2. c \in Codes /\ devices[c] # Null /\ devices[c] \in Rows /\ devices[c].sso = req[h].sso
    BY <1>1, Types DEF OwnRow, IInv
  <1>3. /\ row \in Rows /\ row.sso = devices[c].sso /\ row.tenant = devices[c].tenant
    BY <1>2 DEF Stamped, Rows
  <1>4. /\ devices' = [devices EXCEPT ![c] = row] /\ req' = [req EXCEPT ![h] = Idle]
        /\ tokens' = tokens \cup {req[h].sso} /\ UNCHANGED <<grants, answered, authorizations>>
    BY DEF Stamp, Forward
  <1>5. tokens' \subseteq SsoCodes /\ \A g \in tokens' : Exchanged(g)
    BY <1>1, <1>4 DEF IInv, TypeOK, TokensInv
  <1>6. req' \in [Handlers -> Requests] /\ \A k \in Handlers : req'[k] = req[k] \/ req'[k] = Idle
    BY <1>4, IdleType DEF IInv, TypeOK
  <1> HIDE DEF row, c
  <1> QED BY <1>1, <1>2, <1>3, <1>4, <1>5, <1>6, FlagsKeep

LEMMA RecordLivenessKeeps ==
  ASSUME IInv, NEW g \in SsoCodes, NEW connectivity \in {"connect", "error"},
         RecordLiveness(g, connectivity)
  PROVE  IInv'
  <1> DEFINE c == grants[g].client
             row == [devices[c] EXCEPT !.connectivity = connectivity]
  <1>1. g \in answered /\ grants[g] # Null
    BY DEF RecordLiveness, IInv, TokensInv, Exchanged, AnsweredIsBound
  <1>2. c \in Codes /\ devices[c] # Null /\ devices[c] \in Rows
    BY <1>1, Types DEF IInv, AnsweredIsBound
  <1>3. /\ row \in Rows /\ row.sso = devices[c].sso /\ row.tenant = devices[c].tenant
        /\ row.verified = devices[c].verified
    BY <1>2 DEF Rows
  <1>4. devices' = [devices EXCEPT ![c] = row] /\ UNCHANGED <<req, grants, answered, tokens, authorizations>>
    BY DEF RecordLiveness, IInv, TypeOK
  <1>5. tokens' \subseteq SsoCodes /\ \A k \in tokens' : Exchanged(k)
    BY <1>4 DEF IInv, TypeOK, TokensInv
  <1>6. req' \in [Handlers -> Requests] /\ \A k \in Handlers : req'[k] = req[k]
    BY <1>4 DEF IInv, TypeOK
  <1> HIDE DEF row, c
  <1> QED BY <1>2, <1>3, <1>4, <1>5, <1>6, FlagsKeep

(***************************************************************************)
(* Theorems.                                                               *)
(***************************************************************************)
\* The inductive invariant holds in every reachable state.
THEOREM PairingInductive == Spec => []IInv
  <1>1. Init => IInv
    BY BoundAssumption, IdleType DEF Init, Idle, IInv, TypeOK, RowHasGrant, UniqueTenants,
       AnsweredIsBound, VerifiedWasApproved, TokensInv, HandlerInv, Authorizing, Forwarding
  <1>2. IInv /\ [Next]_vars => IInv'
    <2> SUFFICES ASSUME IInv, [Next]_vars
                 PROVE  IInv'
      OBVIOUS
    <2>1. ASSUME NEW h \in Handlers, Progress(h) \/ SkipStamp(h) \/ Abort(h)
          PROVE  IInv'
      BY <2>1, RecheckKeeps, CommitKeeps, AnswerKeeps, StampKeeps, SsoAuthorizesKeeps,
         FindDeviceKeeps, SkipStampKeeps, AbortKeeps DEF Progress
    <2>2. ASSUME NEW h \in Handlers, NEW c \in Codes, NEW t \in Tenants \cup {Null},
                 Authorize(h, c, t)
          PROVE  IInv'
      BY <2>2, AuthorizeKeeps
    <2>3. ASSUME NEW h \in Handlers, NEW g \in SsoCodes,
                 SsoAnswerLost(h, g) \/ Poll(h, g) \/ Refresh(h, g)
          PROVE  IInv'
      BY <2>3, SsoAnswerLostKeeps, PollKeeps, RefreshKeeps
    <2>4. ASSUME NEW g \in SsoCodes, NEW decision \in {"approved", "denied"},
                 Verify(g, decision) \/ Expire(g) \/ Revoke(g)
          PROVE  IInv'
      BY <2>4, SetStatusKeeps
    <2>5. ASSUME NEW g \in SsoCodes, NEW connectivity \in {"connect", "error"},
                 RecordLiveness(g, connectivity)
          PROVE  IInv'
      BY <2>5, RecordLivenessKeeps
    <2>6. CASE UNCHANGED vars
      BY <2>6 DEF vars, IInv, TypeOK, RowHasGrant, UniqueTenants, AnsweredIsBound,
         VerifiedWasApproved, TokensInv, HandlerInv, OwnCode, OwnGrant, BoundTo, Exchanged, OwnRow
    <2> QED BY <2>1, <2>2, <2>3, <2>4, <2>5, <2>6 DEF Next
  <1> QED BY <1>1, <1>2, PTL DEF Spec

\* All rows, grants and handlers are well typed.
THEOREM PairingTypeCorrect == Spec => []TypeOK
  <1>1. IInv => TypeOK
    BY DEF IInv
  <1> QED BY <1>1, PairingInductive, PTL

\* No failure of the SSO, of the service or of the database leaves a row
\* without its grant.
THEOREM NoOrphanRow == Spec => []RowHasGrant
  <1>1. IInv => RowHasGrant
    BY DEF IInv
  <1> QED BY <1>1, PairingInductive, PTL

\* Overlapping authorize requests never bind a tenant twice.
THEOREM TenantsUnique == Spec => []UniqueTenants
  <1>1. IInv => UniqueTenants
    BY DEF IInv
  <1> QED BY <1>1, PairingInductive, PTL

\* Whatever codes a kiosk has received, its row is there and bound to them.
THEOREM KnownWhenAnswered == Spec => []AnsweredIsBound
  <1>1. IInv => AnsweredIsBound
    BY DEF IInv
  <1> QED BY <1>1, PairingInductive, PTL

\* A device is verified only after its grant was exchanged for tokens.
THEOREM VerifiedByGrant == Spec => []VerifiedWasApproved
  <1>1. IInv => VerifiedWasApproved
    BY DEF IInv
  <1> QED BY <1>1, PairingInductive, PTL

(***************************************************************************)
(* The refinement: each step binds, shows, approves, issues or verifies,   *)
(* or changes nothing of what was promised.                                *)
(***************************************************************************)
\* Steps that change no row, no status and no answer, but may add pending grants.
LEMMA NothingPromised ==
  ASSUME UNCHANGED <<devices, answered>>,
         \A g \in SsoCodes :
           \/ grants'[g] = grants[g]
           \/ grants[g] = Null /\ grants'[g].status = "pending"
  PROVE  UNCHANGED Promise!vars
  <1>1. UNCHANGED Bindings /\ UNCHANGED {c \in Codes : devices[c] # Null /\ devices[c].verified}
    BY DEF Bindings, Binding
  <1>2. UNCHANGED InStatus({"approved"}) /\ UNCHANGED InStatus({"consumed", "revoked"})
    BY DEF InStatus
  <1> QED BY <1>1, <1>2 DEF Promise!vars

\* A row is committed with a free tenant and a free grant.
LEMMA RowPromised ==
  ASSUME IInv, NEW c \in Codes, NEW row \in Rows, UNCHANGED <<grants, answered>>,
         devices[c] = Null, devices' = [devices EXCEPT ![c] = row],
         row.sso \in SsoCodes, ~row.verified, ~TenantTaken(row.tenant), ~SsoTaken(row.sso)
  PROVE  \E new \in Promise!Binding : Promise!Bind(new)
  <1> DEFINE new == [code |-> c, grant |-> row.sso, tenant |-> row.tenant]
  <1>1. devices'[c] = row /\ row # Null /\ \A d \in Codes \ {c} : devices'[d] = devices[d]
    BY NullAssumption DEF IInv, TypeOK
  <1>2. Bindings' = Bindings \cup {new}
    <2>1. \A d \in Codes \ {c} : Binding(d)' = Binding(d)
      BY <1>1 DEF Binding
    <2>2. Binding(c)' = new
      BY <1>1 DEF Binding
    <2>3. {d \in Codes : devices[d] # Null}' = {d \in Codes : devices[d] # Null} \cup {c}
      BY <1>1
    <2> HIDE DEF new
    <2> QED BY <2>1, <2>2, <2>3 DEF Bindings
  <1>3. Promise!Free(new)
    <2>1. ASSUME NEW d \in Codes, devices[d] # Null
          PROVE  /\ d # c /\ devices[d].sso # row.sso
                 /\ row.tenant = Null \/ devices[d].tenant # row.tenant
      BY <2>1 DEF TenantTaken, SsoTaken
    <2> QED BY <2>1 DEF Promise!Free, Bindings, Binding
  <1>4. UNCHANGED {d \in Codes : devices[d] # Null /\ devices[d].verified}
    BY <1>1
  <1>5. UNCHANGED InStatus({"approved"}) /\ UNCHANGED InStatus({"consumed", "revoked"})
    BY DEF InStatus
  <1>6. new \in Promise!Binding
    BY DEF Promise!Binding, Rows
  <1> QED BY <1>2, <1>3, <1>4, <1>5, <1>6 DEF Promise!Bind

LEMMA CommitPromised ==
  ASSUME IInv, NEW h \in Handlers, Commit(h)
  PROVE  (\E new \in Promise!Binding : Promise!Bind(new)) \/ UNCHANGED Promise!vars
  <1>1. CASE TenantTaken(req[h].tenant) \/ SsoTaken(req[h].sso)
    BY <1>1, NothingPromised DEF Commit
  <1>2. CASE ~(TenantTaken(req[h].tenant) \/ SsoTaken(req[h].sso))
    <2>1. /\ devices' = [devices EXCEPT ![req[h].code] = NewRow(h)]
          /\ UNCHANGED <<grants, answered>> /\ req[h].pc = "checked"
      BY <1>2 DEF Commit
    <2>2. /\ req[h].code \in Codes /\ devices[req[h].code] = Null /\ req[h].sso \in SsoCodes
          /\ req[h].tenant \in Tenants \cup {Null}
      BY <2>1 DEF IInv, HandlerInv, OwnCode, OwnGrant, Authorizing, TypeOK, Requests
    <2>3. /\ NewRow(h) \in Rows /\ NewRow(h).sso = req[h].sso
          /\ NewRow(h).tenant = req[h].tenant /\ ~NewRow(h).verified
      BY <2>2 DEF NewRow, Rows
    <2> QED BY <1>2, <2>1, <2>2, <2>3, RowPromised
  <1> QED BY <1>1, <1>2

LEMMA AnswerPromised ==
  ASSUME IInv, NEW h \in Handlers, Answer(h)
  PROVE  \E g \in SsoCodes : Promise!Show(g)
  <1>1. BoundTo(req[h].sso) /\ answered' = answered \cup {req[h].sso}
        /\ UNCHANGED <<devices, grants>>
    BY DEF Answer, IInv, HandlerInv
  <1>2. grants[req[h].sso].client \in Codes /\ req[h].sso \in SsoCodes
    BY <1>1, Types DEF IInv, BoundTo
  <1>3. Promise!Bound(req[h].sso)
    <2>1. Binding(grants[req[h].sso].client) \in Bindings
      BY <1>1, <1>2 DEF Bindings, BoundTo
    <2> QED BY <1>1, <2>1 DEF Promise!Bound, Binding, BoundTo
  <1>4. /\ UNCHANGED Bindings /\ UNCHANGED InStatus({"approved"})
        /\ UNCHANGED InStatus({"consumed", "revoked"})
        /\ UNCHANGED {c \in Codes : devices[c] # Null /\ devices[c].verified}
    BY <1>1 DEF Bindings, Binding, InStatus
  <1> QED BY <1>1, <1>2, <1>3, <1>4 DEF Promise!Show

\* A step that only changes the status of one grant.
LEMMA StatusPromised ==
  ASSUME IInv, NEW g \in SsoCodes, NEW to, UNCHANGED <<devices, answered>>,
         grants[g] # Null, grants' = [grants EXCEPT ![g].status = to]
  PROVE  /\ to = "approved" /\ g \in answered /\ grants[g].status = "pending" => Promise!Approve(g)
         /\ to = "consumed" /\ grants[g].status = "approved" => Promise!Issue(g)
         /\ to \in {"denied", "expired"} /\ grants[g].status \in {"pending", "approved"}
              => Promise!RunOut(g)
         /\ to = "revoked" /\ grants[g].status = "consumed" => UNCHANGED Promise!vars
  <1>1. /\ grants'[g].status = to
        /\ \A k \in SsoCodes \ {g} : grants'[k] = grants[k]
        /\ grants[g] \in Grants
    BY Types DEF IInv, TypeOK, Grants
  <1>2. to \in {"pending", "approved", "denied", "expired", "consumed", "revoked"} => grants'[g] # Null
    <2>1. grants'[g] = [grants[g] EXCEPT !.status = to]
      BY DEF IInv, TypeOK
    <2>2. ASSUME to \in {"pending", "approved", "denied", "expired", "consumed", "revoked"}
          PROVE  grants'[g] \in Grants
      BY <1>1, <2>1, <2>2 DEF Grants
    <2> QED BY <2>2, NullAssumption
  <1>3. UNCHANGED Bindings /\ UNCHANGED {c \in Codes : devices[c] # Null /\ devices[c].verified}
    BY DEF Bindings, Binding
  <1>4. ASSUME to \in {"denied", "approved", "expired"}, grants[g].status \in {"pending", "approved"}
        PROVE  /\ InStatus({"approved"})' = IF to = "approved" THEN InStatus({"approved"}) \cup {g}
                                             ELSE InStatus({"approved"}) \ {g}
               /\ UNCHANGED InStatus({"consumed", "revoked"})
               /\ g \notin InStatus({"consumed", "revoked"})
    BY <1>1, <1>2, <1>4 DEF InStatus
  <1>5. ASSUME to = "consumed", grants[g].status = "approved"
        PROVE  /\ g \in InStatus({"approved"}) /\ InStatus({"approved"})' = InStatus({"approved"}) \ {g}
               /\ InStatus({"consumed", "revoked"})' = InStatus({"consumed", "revoked"}) \cup {g}
    BY <1>1, <1>2, <1>5 DEF InStatus
  <1>6. ASSUME to = "revoked", grants[g].status = "consumed"
        PROVE  UNCHANGED InStatus({"approved"}) /\ UNCHANGED InStatus({"consumed", "revoked"})
    BY <1>1, <1>2, <1>6 DEF InStatus
  <1>7. ASSUME to = "approved", g \in answered, grants[g].status = "pending" PROVE Promise!Approve(g)
    BY <1>3, <1>4, <1>7 DEF Promise!Approve
  <1>8. ASSUME to = "consumed", grants[g].status = "approved" PROVE Promise!Issue(g)
    BY <1>3, <1>5, <1>8 DEF Promise!Issue
  <1>9. ASSUME to \in {"denied", "expired"}, grants[g].status \in {"pending", "approved"}
        PROVE  Promise!RunOut(g)
    BY <1>3, <1>4, <1>9 DEF Promise!RunOut
  <1>10. ASSUME to = "revoked", grants[g].status = "consumed" PROVE UNCHANGED Promise!vars
    BY <1>3, <1>6, <1>10 DEF Promise!vars
  <1> QED BY <1>7, <1>8, <1>9, <1>10

\* A step that only changes the flags of one row.
LEMMA FlagsPromised ==
  ASSUME IInv, NEW c \in Codes, NEW row \in Rows, UNCHANGED <<grants, answered>>,
         devices[c] # Null, devices' = [devices EXCEPT ![c] = row],
         row.sso = devices[c].sso, row.tenant = devices[c].tenant,
         devices[c].verified => row.verified,
         row.verified => devices[c].verified \/ Exchanged(row.sso)
  PROVE  (\E b \in Bindings : Promise!Verify(b)) \/ UNCHANGED Promise!vars
  <1> DEFINE Marked == {d \in Codes : devices[d] # Null /\ devices[d].verified}
  <1>1. devices'[c] = row /\ row # Null /\ \A d \in Codes \ {c} : devices'[d] = devices[d]
    BY NullAssumption DEF IInv, TypeOK
  <1>2. UNCHANGED Bindings
    <2>1. \A d \in Codes : devices'[d] # Null <=> devices[d] # Null
      BY <1>1
    <2>2. \A d \in Codes : Binding(d)' = Binding(d)
      BY <1>1 DEF Binding
    <2> QED BY <2>1, <2>2 DEF Bindings
  <1>3. UNCHANGED InStatus({"approved"}) /\ UNCHANGED InStatus({"consumed", "revoked"})
    BY DEF InStatus
  <1>4. CASE row.verified /\ ~devices[c].verified
    <2>1. Marked' = Marked \cup {c}
      BY <1>1, <1>4
    <2>2. Exchanged(row.sso) /\ row.sso \in SsoCodes /\ grants[row.sso] # Null
      BY <1>4 DEF Exchanged, IInv, TypeOK, AnsweredIsBound
    <2>3. row.sso \in InStatus({"consumed", "revoked"})
      BY <2>2 DEF InStatus, Exchanged
    <2>4. Binding(c) \in Bindings /\ Binding(c).code = c /\ Binding(c).grant = row.sso
      BY DEF Bindings, Binding
    <2>5. Promise!Verify(Binding(c))
      BY <1>2, <1>3, <2>1, <2>3, <2>4 DEF Promise!Verify
    <2> QED BY <2>4, <2>5 DEF Promise!Verify
  <1>5. CASE ~(row.verified /\ ~devices[c].verified)
    <2>1. UNCHANGED Marked
      BY <1>1, <1>5
    <2> QED BY <1>2, <1>3, <2>1 DEF Promise!vars
  <1> QED BY <1>4, <1>5

LEMMA NewGrantPromised ==
  ASSUME IInv, NEW h \in Handlers, NEW g \in SsoCodes, NewGrant(h, g)
  PROVE  UNCHANGED Promise!vars
  <1>1. /\ grants[g] = Null /\ UNCHANGED <<devices, answered>>
        /\ grants' = [grants EXCEPT ![g] = [client |-> req[h].code, status |-> "pending"]]
    BY DEF NewGrant
  <1>2. grants'[g].status = "pending" /\ \A k \in SsoCodes \ {g} : grants'[k] = grants[k]
    BY <1>1 DEF IInv, TypeOK
  <1> QED BY <1>1, <1>2, NothingPromised

LEMMA StampPromised ==
  ASSUME IInv, NEW h \in Handlers, Stamp(h)
  PROVE  (\E b \in Bindings : Promise!Verify(b)) \/ UNCHANGED Promise!vars
  <1> DEFINE c == req[h].code
             row == Stamped(req[h].pc, req[h].seen, devices[c])
  <1>1. OwnRow(h) /\ Exchanged(req[h].sso)
    BY DEF Stamp, IInv, HandlerInv, Forwarding
  <1>2. c \in Codes /\ devices[c] # Null /\ devices[c] \in Rows /\ devices[c].sso = req[h].sso
    BY <1>1, Types DEF OwnRow, IInv
  <1>3. /\ row \in Rows /\ row.sso = devices[c].sso /\ row.tenant = devices[c].tenant
        /\ devices[c].verified => row.verified
    BY <1>2 DEF Stamped, Rows
  <1>4. devices' = [devices EXCEPT ![c] = row] /\ UNCHANGED <<grants, answered>>
    BY DEF Stamp, Forward
  <1> HIDE DEF row
  <1> QED BY <1>1, <1>2, <1>3, <1>4, FlagsPromised

LEMMA RecordPromised ==
  ASSUME IInv, NEW g \in SsoCodes, NEW connectivity \in {"connect", "error"},
         RecordLiveness(g, connectivity)
  PROVE  (\E b \in Bindings : Promise!Verify(b)) \/ UNCHANGED Promise!vars
  <1> DEFINE c == grants[g].client
             row == [devices[c] EXCEPT !.connectivity = connectivity]
  <1>1. g \in answered /\ grants[g] # Null
    BY DEF RecordLiveness, IInv, TokensInv, Exchanged, AnsweredIsBound
  <1>2. c \in Codes /\ devices[c] # Null /\ devices[c] \in Rows
    BY <1>1, Types DEF IInv, AnsweredIsBound
  <1>3. /\ row \in Rows /\ row.sso = devices[c].sso /\ row.tenant = devices[c].tenant
        /\ row.verified = devices[c].verified
    BY <1>2 DEF Rows
  <1>4. devices' = [devices EXCEPT ![c] = row] /\ UNCHANGED <<grants, answered>>
    BY DEF RecordLiveness, IInv, TypeOK
  <1> HIDE DEF row
  <1> QED BY <1>2, <1>3, <1>4, FlagsPromised

\* Every step of the service and of the SSO keeps to the promise.
LEMMA StepPromised ==
  ASSUME IInv, [Next]_vars
  PROVE  [Promise!Next]_(Promise!vars)
  <1>1. ASSUME NEW h \in Handlers, Progress(h) \/ SkipStamp(h) \/ Abort(h)
        PROVE  [Promise!Next]_(Promise!vars)
    <2>1. CASE Recheck(h) \/ SkipStamp(h) \/ Abort(h) \/ \E c \in Codes : FindDevice(h, c)
      BY <2>1, NothingPromised DEF Recheck, SkipStamp, Forward, Abort, FindDevice
    <2>2. CASE Commit(h)
      BY <2>2, CommitPromised DEF Promise!Next
    <2>3. CASE Answer(h)
      BY <2>3, AnswerPromised DEF Promise!Next
    <2>4. CASE Stamp(h)
      <3>1. (\E b \in Bindings : Promise!Verify(b)) \/ UNCHANGED Promise!vars
        BY <2>4, StampPromised
      <3> QED BY <3>1 DEF Promise!Next
    <2>5. CASE \E g \in SsoCodes : SsoAuthorizes(h, g)
      BY <2>5, NewGrantPromised DEF SsoAuthorizes
    <2> QED BY <1>1, <2>1, <2>2, <2>3, <2>4, <2>5 DEF Progress
  <1>2. ASSUME NEW h \in Handlers, NEW c \in Codes, NEW t \in Tenants \cup {Null},
               Authorize(h, c, t)
        PROVE  [Promise!Next]_(Promise!vars)
    BY <1>2, NothingPromised DEF Authorize
  <1>3. ASSUME NEW h \in Handlers, NEW g \in SsoCodes,
               SsoAnswerLost(h, g) \/ Poll(h, g) \/ Refresh(h, g)
        PROVE  [Promise!Next]_(Promise!vars)
    <2>1. CASE SsoAnswerLost(h, g)
      BY <2>1, NewGrantPromised DEF SsoAnswerLost
    <2>2. CASE Poll(h, g)
      <3>1. grants[g] # Null
        BY <2>2 DEF Poll, IInv, AnsweredIsBound
      <3>2. Promise!Issue(g)
        BY <2>2, <3>1, StatusPromised DEF Poll
      <3> QED BY <3>2 DEF Promise!Next
    <2>3. CASE Refresh(h, g)
      BY <2>3, NothingPromised DEF Refresh
    <2> QED BY <1>3, <2>1, <2>2, <2>3
  <1>4. ASSUME NEW g \in SsoCodes, NEW decision \in {"approved", "denied"},
               Verify(g, decision) \/ Expire(g) \/ Revoke(g)
        PROVE  [Promise!Next]_(Promise!vars)
    <2>1. Promise!Approve(g) \/ Promise!RunOut(g) \/ UNCHANGED Promise!vars
      BY <1>4, StatusPromised DEF Verify, Expire, Revoke, SetStatus
    <2> QED BY <2>1 DEF Promise!Next
  <1>5. ASSUME NEW g \in SsoCodes, NEW connectivity \in {"connect", "error"},
               RecordLiveness(g, connectivity)
        PROVE  [Promise!Next]_(Promise!vars)
    <2>1. (\E b \in Bindings : Promise!Verify(b)) \/ UNCHANGED Promise!vars
      BY <1>5, RecordPromised
    <2> QED BY <2>1 DEF Promise!Next
  <1>6. CASE UNCHANGED vars
    BY <1>6, NothingPromised DEF vars
  <1> QED BY <1>1, <1>2, <1>3, <1>4, <1>5, <1>6 DEF Next

\* Pairing implements its promise: codes, grants and tenants are bound once and
\* for good, and shown, approved, exchanged and verified in this order.
THEOREM PairingKeepsPromise == Spec => ImplementsPromise
  <1>1. Init => Promise!Init
    BY DEF Init, Promise!Init, Bindings, InStatus
  <1>2. IInv /\ [Next]_vars => [Promise!Next]_(Promise!vars)
    BY StepPromised
  <1> QED BY <1>1, <1>2, PairingInductive, PTL DEF Spec, ImplementsPromise, Promise!Spec
=============================================================================
