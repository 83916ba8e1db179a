------------------------ MODULE KioskCatalogueProofs ------------------------
(***************************************************************************)
(* Proofs about KioskCatalogue, for any tables, times and number of edits. *)
(***************************************************************************)
EXTENDS KioskCatalogue, TLAPS

USE BoundAssumption, TimeAssumption, CatalogueAssumption, NullAssumption

\* Idle is a request between two others.
LEMMA IdleTyped == Idle \in Requests
<1>1. NoBooths \in [Booths -> BoothRows \cup {Null}] /\ 0 \in 0 .. MaxEdits
  BY DEF NoBooths
<1>2. "idle" \in Reading \cup {"idle", "done"} /\ "me" \in Kinds
  BY DEF Kinds
<1>. QED
  BY <1>1, <1>2 DEF Idle, Requests

\* What is expected is a campaign or none.
LEMMA ExpectedTyped ==
  ASSUME NEW d \in Databases, NEW now
  PROVE  Expected(d, now) \subseteq Campaigns \cup {Null}
<1>1. ASSUME NEW a \in Assignments
      PROVE  CampaignOf(d, d.assignments[a].booth) \in Campaigns \cup {Null}
  <2>1. d.assignments[a].booth \in Booths
    BY DEF Databases, AssignmentRows
  <2>. QED
    BY <2>1 DEF CampaignOf, Databases, BoothRows
<1>2. Newest(d, now) \subseteq Assignments
  BY DEF Newest, Valid
<1>. QED
  BY <1>1, <1>2 DEF Expected

\* A request without candidates left has no valid assignment.
LEMMA NoneLeft ==
  ASSUME IInv, Quiet, req.pc = "assignments", req.left = {}
  PROVE  Null \in Expected(db, req.now)
  BY DEF IInv, QuietInv, CandidatesRight, Expected, Newest, Valid

\* The first candidate left that serves the device is the newest valid one, and
\* the booth that was read for it is the booth it has.
LEMMA FirstIsNewest ==
  ASSUME IInv, Quiet, req.pc = "assignments",
         NEW a \in req.left, First(req.rows, req.left, a), Serves(a)
  PROVE  /\ a \in Newest(db, req.now)
         /\ BoothOf(a) = db.booths[db.assignments[a].booth]
<1>1. /\ db \in Databases /\ req \in Requests /\ a \in Assignments
      /\ CandidatesRight /\ req.rows = db.assignments
  BY DEF IInv, TypeOK, QuietInv, CandidatesRight, Requests
<1>2. BoothOf(a) = db.booths[db.assignments[a].booth]
  BY <1>1 DEF BoothOf, CandidatesRight, Databases, AssignmentRows
<1>3. a \in Valid(db, req.now)
  BY <1>1, <1>2 DEF Serves, Valid
<1>4. ASSUME NEW b \in Valid(db, req.now)
      PROVE  db.assignments[b].window.from <= db.assignments[a].window.from
  <2>1. b \in req.left
    BY <1>1, <1>4 DEF CandidatesRight, Valid
  <2>2. req.rows[a].window.from # Null
    BY <1>1 DEF Serves, Covers
  <2>. QED
    BY <2>1, <2>2, <1>1 DEF First
<1>. QED
  BY <1>2, <1>3, <1>4 DEF Newest

-----------------------------------------------------------------------------
(***************************************************************************)
(* How a request goes on once it knows its campaign.                       *)
(***************************************************************************)
LEMMA ResolvedKeeps ==
  ASSUME IInv, req.pc \in {"assignments", "campaign"},
         NEW c \in Campaigns \cup {Null},
         Quiet => c \in Expected(db, req.now),
         req' = Resolved(c), UNCHANGED <<db, edits>>
  PROVE  IInv'
<1>1. req \in Requests /\ db \in Databases /\ Progressed
  BY DEF IInv, TypeOK
<1>2. /\ req'.campaign = c /\ req'.pc = AfterCampaign(c) /\ req'.kind = req.kind
      /\ req'.now = req.now /\ req'.frames = {} /\ req'.vouchers = {}
      /\ req'.began = req.began
  BY <1>1 DEF Resolved, Chosen, Requests, Progressed, Reading
<1>3. /\ AfterCampaign(c) \in {"done", "vouchers", "fallback", "frames"}
      /\ AfterCampaign(c) = "done" => ~ServesFrames /\ (ServesVouchers => c = Null)
      /\ AfterCampaign(c) = "vouchers" => ~ServesFrames /\ ServesVouchers /\ c # Null
      /\ AfterCampaign(c) = "fallback" => ServesFrames /\ c = Null
      /\ AfterCampaign(c) = "frames" => ServesFrames /\ c # Null
  BY <1>1 DEF AfterCampaign, ServesFrames, ServesVouchers, Requests, Kinds
<1>4. (ServesFrames' <=> ServesFrames) /\ (ServesVouchers' <=> ServesVouchers)
  BY <1>2 DEF ServesFrames, ServesVouchers
<1>5. TypeOK'
  <2>1. req' \in Requests
    BY <1>1, <1>3 DEF Resolved, Chosen, NoBooths, Requests, Reading
  <2>. QED BY <2>1 DEF IInv, TypeOK
<1>6. Progressed'
  BY <1>1, <1>2, <1>3, <1>4 DEF Progressed, Reading
<1>7. (Quiet => QuietInv)'
  BY <1>2, <1>3, <1>4 DEF QuietInv, Quiet
<1>8. QuietAnswerRight'
  BY <1>2, <1>3, <1>4 DEF QuietAnswerRight, Quiet
<1>. QED
  BY <1>5, <1>6, <1>7, <1>8 DEF IInv

-----------------------------------------------------------------------------
(***************************************************************************)
(* One lemma for each action.                                              *)
(***************************************************************************)
LEMMA BeginKeeps ==
  ASSUME IInv, NEW kind \in Kinds, NEW now \in Times, Begin(kind, now)
  PROVE  IInv'
<1>1. req \in Requests /\ db \in Databases /\ edits \in 0 .. MaxEdits /\ db' = db /\ edits' = edits
  BY DEF IInv, TypeOK, Begin
<1>2. /\ req'.pc = "assignments" /\ req'.kind = kind /\ req'.now = now
      /\ req'.rows = db.assignments /\ req'.booths = NoBooths
      /\ req'.left = {a \in Assignments : db.assignments[a].active}
      /\ req'.frames = {} /\ req'.vouchers = {} /\ req'.began = edits
  BY DEF Begin, Idle
<1>3. TypeOK'
  <2>1. Expected(db, now) \subseteq Campaigns \cup {Null}
    BY <1>1, ExpectedTyped
  <2>2. db.assignments \in [Assignments -> AssignmentRows]
    BY <1>1 DEF Databases
  <2>3. req' \in Requests
    BY <1>1, <2>1, <2>2 DEF Begin, Idle, NoBooths, Requests, Reading
  <2>. QED BY <1>1, <2>3 DEF TypeOK
<1>4. Progressed'
  BY <1>1, <1>2 DEF Progressed, Reading, Databases
<1>5. (Quiet => QuietInv)'
  BY <1>1, <1>2 DEF QuietInv, CandidatesRight, Valid, Covers, NoBooths
<1>6. QuietAnswerRight'
  BY <1>2 DEF QuietAnswerRight
<1>. QED
  BY <1>3, <1>4, <1>5, <1>6 DEF IInv

LEMMA TryAssignmentKeeps ==
  ASSUME IInv, NEW a \in Assignments, TryAssignment(a)
  PROVE  IInv'
<1>1. /\ req \in Requests /\ db \in Databases /\ Progressed /\ (Quiet => QuietInv)
      /\ req.pc = "assignments" /\ a \in req.left /\ First(req.rows, req.left, a)
      /\ db' = db /\ edits' = edits /\ edits \in 0 .. MaxEdits
  BY DEF IInv, TypeOK, TryAssignment
<1>2. req.rows[a].booth \in Booths /\ BoothOf(a) \in BoothRows
  <2>1. req.rows[a] \in AssignmentRows
    BY <1>1 DEF Progressed
  <2>2. req.rows[a].booth \in Booths
    BY <2>1 DEF AssignmentRows
  <2>. QED
    BY <1>1, <2>2 DEF BoothOf, Requests, Databases
<1>3. CASE ~Serves(a)
  <2> DEFINE b == req.rows[a].booth
  <2>1. req' = [req EXCEPT !.left = @ \ {a}, !.booths[b] = BoothOf(a)]
    BY <1>3 DEF TryAssignment
  <2>2. req' \in Requests
    BY <1>1, <1>2, <2>1 DEF Requests
  <2>3. /\ req'.pc = "assignments" /\ req'.rows = req.rows /\ req'.now = req.now
        /\ req'.left = req.left \ {a} /\ req'.began = req.began
        /\ req'.frames = req.frames /\ req'.vouchers = req.vouchers
        /\ req'.booths = [req.booths EXCEPT ![b] = BoothOf(a)]
    BY <1>1, <2>1 DEF Requests
  <2>4. Progressed'
    BY <1>1, <2>3 DEF Progressed, Reading
  <2>5. ASSUME Quiet PROVE QuietInv'
    <3>1. CandidatesRight
      BY <1>1, <2>5 DEF QuietInv
    <3>2. BoothOf(a) = db.booths[b]
      BY <1>1, <1>2, <3>1 DEF CandidatesRight, BoothOf
    <3>3. a \notin Valid(db, req.now)
      BY <1>3, <3>1, <3>2 DEF Valid, Serves, CandidatesRight
    <3>4. \A k \in Booths : req'.booths[k] \in {Null, db.booths[k]}
      BY <1>1, <1>2, <2>3, <3>1, <3>2 DEF CandidatesRight, Requests
    <3>5. CandidatesRight'
      BY <1>1, <2>3, <3>1, <3>3, <3>4 DEF CandidatesRight
    <3>. QED
      BY <2>3, <3>5 DEF QuietInv
  <2>6. (Quiet => QuietInv)'
    BY <1>1, <2>3, <2>5 DEF Quiet
  <2>. QED
    BY <1>1, <2>2, <2>3, <2>4, <2>6 DEF IInv, TypeOK, QuietAnswerRight
<1>4. CASE Serves(a) /\ BoothOf(a).campaign = Null
  <2>1. req' = Resolved(Null)
    BY <1>4 DEF TryAssignment
  <2>2. ASSUME Quiet PROVE Null \in Expected(db, req.now)
    <3>1. a \in Newest(db, req.now) /\ BoothOf(a) = db.booths[db.assignments[a].booth]
      BY <1>1, <1>4, <2>2, FirstIsNewest
    <3>2. CampaignOf(db, db.assignments[a].booth) = Null
      BY <1>4, <3>1 DEF CampaignOf
    <3>. QED
      BY <3>1, <3>2 DEF Expected
  <2>. QED
    BY <1>1, <2>1, <2>2, ResolvedKeeps
<1>5. CASE Serves(a) /\ BoothOf(a).campaign # Null
  <2> DEFINE c == BoothOf(a).campaign
  <2>1. req' = Chosen("campaign", c)
    BY <1>5 DEF TryAssignment
  <2>2. c \in Campaigns
    BY <1>2, <1>5 DEF BoothRows
  <2>3. req' \in Requests
    BY <1>1, <2>1, <2>2 DEF Chosen, Requests, Reading, NoBooths
  <2>4. /\ req'.pc = "campaign" /\ req'.campaign = c /\ req'.now = req.now
        /\ req'.began = req.began /\ req'.frames = req.frames /\ req'.vouchers = req.vouchers
    BY <1>1, <2>1 DEF Chosen, Requests
  <2>5. Progressed'
    BY <1>1, <1>5, <2>4 DEF Progressed, Reading
  <2>6. ASSUME Quiet PROVE QuietInv'
    <3>1. CampaignRead'
      BY <1>1, <1>5, <2>4, <2>6, FirstIsNewest DEF CampaignRead
    <3>. QED
      BY <2>4, <3>1 DEF QuietInv
  <2>7. (Quiet => QuietInv)'
    BY <1>1, <2>4, <2>6 DEF Quiet
  <2>. QED
    BY <1>1, <2>3, <2>4, <2>5, <2>7 DEF IInv, TypeOK, QuietAnswerRight
<1>. QED
  BY <1>3, <1>4, <1>5

LEMMA NoAssignmentKeeps ==
  ASSUME IInv, NoAssignment
  PROVE  IInv'
  BY NoneLeft, ResolvedKeeps DEF NoAssignment

LEMMA ReadCampaignKeeps ==
  ASSUME IInv, ReadCampaign
  PROVE  IInv'
<1> DEFINE c == IF db.campaigns[req.campaign].live THEN req.campaign ELSE Null
<1>1. c \in Campaigns \cup {Null} /\ req.campaign # Null
  BY DEF IInv, TypeOK, Requests, ReadCampaign, Progressed
<1>2. ASSUME Quiet PROVE c \in Expected(db, req.now)
  <2>1. PICK a \in Newest(db, req.now) :
          db.booths[db.assignments[a].booth].campaign = req.campaign
    BY <1>2 DEF IInv, QuietInv, CampaignRead, ReadCampaign
  <2>2. CampaignOf(db, db.assignments[a].booth) = c
    BY <1>1, <2>1 DEF CampaignOf
  <2>. QED
    BY <2>1, <2>2 DEF Expected
<1>. QED
  BY <1>1, <1>2, ResolvedKeeps DEF ReadCampaign

\* What the last steps of a request have in common.
LEMMA ReadTyped ==
  ASSUME NEW d \in Databases, NEW c \in Campaigns, NEW kind
  PROVE  Linked(d, c) \subseteq Frames /\ Public(d) \subseteq Frames
         /\ Offered(d, c, kind) \subseteq Vouchers
  BY DEF Linked, Public, Offered, Databases, CampaignRows

LEMMA ReadFramesKeeps ==
  ASSUME IInv, ReadFrames
  PROVE  IInv'
<1>1. /\ req \in Requests /\ db \in Databases /\ Progressed /\ (Quiet => QuietInv)
      /\ req.pc = "frames" /\ db' = db /\ edits' = edits
      /\ req.campaign # Null /\ req.campaign \in Campaigns /\ ServesFrames
  BY DEF IInv, TypeOK, ReadFrames, Progressed, Requests
<1> DEFINE linked == Linked(db, req.campaign)
<1>2. CASE linked = {}
  <2>1. req' = [req EXCEPT !.pc = "fallback"]
    BY <1>2 DEF ReadFrames
  <2>2. req' \in Requests
    BY <1>1, <2>1 DEF Requests, Reading
  <2>. QED
    BY <1>1, <1>2, <2>1, <2>2
    DEF IInv, TypeOK, Progressed, Reading, Quiet, QuietInv, QuietAnswerRight, Requests,
        ServesFrames
<1>3. CASE linked # {}
  <2>1. req' = [req EXCEPT !.pc = AfterFrames, !.frames = linked]
    BY <1>3 DEF ReadFrames
  <2>2. linked = ExpectedFrames(db, req.campaign) /\ linked \subseteq Frames
    BY <1>1, <1>3, ReadTyped DEF ExpectedFrames
  <2>3. /\ AfterFrames \in {"vouchers", "done"}
        /\ AfterFrames = "vouchers" <=> ServesVouchers
    BY <1>1 DEF AfterFrames, ServesFrames, ServesVouchers
  <2>4. req' \in Requests
    BY <1>1, <2>1, <2>2, <2>3 DEF Requests, Reading
  <2>. QED
    BY <1>1, <2>1, <2>2, <2>3, <2>4
    DEF IInv, TypeOK, Progressed, Reading, Quiet, QuietInv, QuietAnswerRight, Requests,
        ServesFrames, ServesVouchers
<1>. QED
  BY <1>2, <1>3

LEMMA ReadFallbackKeeps ==
  ASSUME IInv, ReadFallback
  PROVE  IInv'
<1>1. /\ req \in Requests /\ db \in Databases /\ Progressed /\ (Quiet => QuietInv)
      /\ req.pc = "fallback" /\ db' = db /\ edits' = edits /\ ServesFrames
  BY DEF IInv, TypeOK, ReadFallback, Progressed
<1>2. req' = [req EXCEPT !.pc = AfterFrames, !.frames = Public(db)]
  BY DEF ReadFallback
<1>3. Quiet => Public(db) = ExpectedFrames(db, req.campaign)
  BY <1>1 DEF QuietInv, ExpectedFrames
<1>4. /\ AfterFrames \in {"vouchers", "done"}
      /\ AfterFrames = "vouchers" <=> ServesVouchers /\ req.campaign # Null
  BY <1>1 DEF AfterFrames, ServesFrames, ServesVouchers
<1>5. req' \in Requests
  BY <1>1, <1>2, <1>4 DEF Requests, Reading, Public
<1>. QED
  BY <1>1, <1>2, <1>3, <1>4, <1>5
  DEF IInv, TypeOK, Progressed, Reading, Quiet, QuietInv, QuietAnswerRight, Requests,
      ServesFrames, ServesVouchers

LEMMA ReadVouchersKeeps ==
  ASSUME IInv, ReadVouchers
  PROVE  IInv'
<1>1. /\ req \in Requests /\ db \in Databases /\ Progressed /\ (Quiet => QuietInv)
      /\ req.pc = "vouchers" /\ db' = db /\ edits' = edits /\ ServesVouchers
      /\ req.campaign # Null /\ req.campaign \in Campaigns
  BY DEF IInv, TypeOK, ReadVouchers, Progressed, Requests
<1> DEFINE offered == Offered(db, req.campaign, req.kind)
<1>2. req' = [req EXCEPT !.pc = "done", !.vouchers = offered]
  BY DEF ReadVouchers
<1>3. offered \subseteq Vouchers
  BY <1>1, ReadTyped
<1>4. req' \in Requests
  BY <1>1, <1>2, <1>3 DEF Requests, Reading
<1>. QED
  BY <1>1, <1>2, <1>4
  DEF IInv, TypeOK, Progressed, Reading, Quiet, QuietInv, QuietAnswerRight, Requests,
      ServesFrames, ServesVouchers

LEMMA AnswerKeeps ==
  ASSUME IInv, Answer
  PROVE  IInv'
<1>1. req' \in Requests
  BY IdleTyped DEF Answer
<1>. QED
  BY <1>1
  DEF IInv, TypeOK, Answer, Idle, Progressed, Reading, QuietInv, QuietAnswerRight

\* An edit of one row leaves tables of the same types.
LEMMA EditedTyped ==
  ASSUME db \in Databases
  PROVE  Edited \subseteq Databases
  BY DEF Edited, Databases

\* After an edit nothing more is known of a request that began before.
LEMMA EditKeeps ==
  ASSUME IInv, Edit
  PROVE  IInv'
<1>1. PICK next \in Edited \ {db} :
        /\ db' = next
        /\ req' = IF req.pc \in Reading
                    THEN [req EXCEPT !.held = @ \cup Expected(next, req.now)] ELSE req
  BY DEF Edit
<1>2. /\ req \in Requests /\ db \in Databases /\ Progressed
      /\ edits \in 0 .. MaxEdits /\ edits < MaxEdits /\ edits' = edits + 1
  BY DEF IInv, TypeOK, Edit
<1>3. next \in Databases
  BY <1>1, <1>2, EditedTyped
<1>4. Expected(next, req.now) \subseteq Campaigns \cup {Null}
  BY <1>3, ExpectedTyped
<1>5. req' \in Requests
  BY <1>1, <1>2, <1>4 DEF Requests
<1>6. req.began \in 0 .. MaxEdits /\ req'.began = req.began
  BY <1>1, <1>2 DEF Requests
<1>7. TypeOK'
  BY <1>1, <1>2, <1>3, <1>5 DEF TypeOK
<1>8. ~Quiet'
  BY <1>2, <1>6 DEF Quiet, Progressed
<1>9. Progressed'
  BY <1>1, <1>2, <1>6 DEF Progressed, Reading, ServesFrames, ServesVouchers, Requests
<1>. QED
  BY <1>7, <1>8, <1>9 DEF IInv, QuietAnswerRight

-----------------------------------------------------------------------------
(***************************************************************************)
(* The theorems.                                                           *)
(***************************************************************************)
\* The inductive invariant holds in every reachable state: what a request has
\* read is what the tables say, as long as nobody has overtaken it.
THEOREM CatalogueInductive == Spec => []IInv
<1>1. Init => IInv
  <2> SUFFICES ASSUME Init PROVE IInv
    OBVIOUS
  <2>1. TypeOK
    BY IdleTyped DEF Init, TypeOK
  <2>. QED
    BY <2>1 DEF Init, IInv, Idle, Progressed, Reading, QuietInv, QuietAnswerRight
<1>2. IInv /\ [Next]_vars => IInv'
  <2> SUFFICES ASSUME IInv, [Next]_vars PROVE IInv'
    OBVIOUS
  <2>1. ASSUME NEW kind \in Kinds, NEW now \in Times, Begin(kind, now) PROVE IInv'
    BY <2>1, BeginKeeps
  <2>2. ASSUME NEW a \in Assignments, TryAssignment(a) PROVE IInv'
    BY <2>2, TryAssignmentKeeps
  <2>3. CASE NoAssignment   BY <2>3, NoAssignmentKeeps
  <2>4. CASE ReadCampaign   BY <2>4, ReadCampaignKeeps
  <2>5. CASE ReadFrames     BY <2>5, ReadFramesKeeps
  <2>6. CASE ReadFallback   BY <2>6, ReadFallbackKeeps
  <2>7. CASE ReadVouchers   BY <2>7, ReadVouchersKeeps
  <2>8. CASE Answer         BY <2>8, AnswerKeeps
  <2>9. CASE Edit           BY <2>9, EditKeeps
  <2>10. CASE UNCHANGED vars
    BY <2>10
    DEF vars, IInv, TypeOK, Progressed, Quiet, QuietInv, QuietAnswerRight, CandidatesRight,
        CampaignRead, ServesFrames, ServesVouchers
  <2>. QED
    BY <2>1, <2>2, <2>3, <2>4, <2>5, <2>6, <2>7, <2>8, <2>9, <2>10 DEF Next
<1>. QED
  BY <1>1, <1>2, PTL DEF Spec

\* Tables, request and counter are well typed, for any catalogue.
THEOREM CatalogueTypeCorrect == Spec => []TypeOK
  BY CatalogueInductive, PTL DEF IInv

\* For any number of assignments, booths, campaigns, frames and vouchers, the
\* SELECTs of an endpoint, one after the other, find what one look would find, unless
\* an edit overtakes them.
THEOREM AnswersRight == Spec => []QuietAnswerRight
  BY CatalogueInductive, PTL DEF IInv

-----------------------------------------------------------------------------
(***************************************************************************)
(* One edit does not lead a request astray, wherever it comes between the  *)
(* SELECTs: what is expected of which tables.                              *)
(***************************************************************************)
\* Frames and vouchers have no say in the choice of the campaign.
LEMMA SameExpected ==
  ASSUME NEW d, NEW e, NEW now,
         e.assignments = d.assignments, e.booths = d.booths, e.campaigns = d.campaigns
  PROVE  Expected(e, now) = Expected(d, now)
  BY DEF Expected, Newest, Valid, CampaignOf

\* The tables of the view.
LEMMA ViewTables ==
  ASSUME IInv, req.pc = "assignments"
  PROVE  /\ View.assignments = req.rows /\ View.campaigns = db.campaigns
         /\ View.booths = [b \in Booths |-> IF req.booths[b] = Null THEN db.booths[b]
                                                                    ELSE req.booths[b]]
         /\ req.rows \in [Assignments -> AssignmentRows]
  BY DEF IInv, TypeOK, Databases, View, Progressed

\* What the request finds for a candidate is what the view has.
LEMMA BoothInView ==
  ASSUME IInv, req.pc = "assignments", NEW a \in Assignments
  PROVE  /\ req.rows[a].booth \in Booths
         /\ BoothOf(a) = View.booths[View.assignments[a].booth]
  BY ViewTables DEF BoothOf, AssignmentRows

\* The candidates that were passed over are not valid in the view.
LEMMA PassedOverInView ==
  ASSUME IInv, OvertakenInv, req.pc = "assignments"
  PROVE  Valid(View, req.now) \subseteq req.left
<1> SUFFICES ASSUME NEW a \in Assignments \ req.left, a \in Valid(View, req.now)
             PROVE  FALSE
  BY DEF Valid
<1>1. Covers(req.rows[a], req.now) /\ BoothOf(a).live
  BY ViewTables, BoothInView DEF Valid
<1>2. req.booths[req.rows[a].booth] # Null /\ ~req.booths[req.rows[a].booth].live
  BY <1>1 DEF OvertakenInv, PassedOver
<1>. QED
  BY <1>1, <1>2 DEF BoothOf

\* Without candidates, no assignment is valid in the view.
LEMMA NoneInView ==
  ASSUME IInv, OvertakenInv, req.pc = "assignments", req.left = {}
  PROVE  Null \in Expected(View, req.now)
  BY PassedOverInView DEF Expected, Newest

\* The candidate that serves is the newest in the view.
LEMMA NewestInView ==
  ASSUME IInv, OvertakenInv, req.pc = "assignments",
         NEW a \in req.left, First(req.rows, req.left, a), Serves(a)
  PROVE  CampaignOf(View, View.assignments[a].booth) \in Expected(View, req.now)
<1>1. a \in Assignments
  BY DEF IInv, TypeOK, Requests
<1>2. a \in Valid(View, req.now) /\ req.rows[a].window.from # Null
  BY <1>1, ViewTables, BoothInView DEF Serves, Valid, Covers
<1>3. ASSUME NEW b \in Valid(View, req.now)
      PROVE  View.assignments[b].window.from <= View.assignments[a].window.from
  BY <1>2, <1>3, ViewTables, PassedOverInView DEF First
<1>4. a \in Newest(View, req.now)
  BY <1>1, <1>2, <1>3 DEF Newest
<1>. QED
  BY <1>4 DEF Expected

-----------------------------------------------------------------------------
(***************************************************************************)
(* The steps of the request.                                               *)
(***************************************************************************)
LEMMA BeginOvertaken ==
  ASSUME IInv, IInv', NEW kind \in Kinds, NEW now \in Times, Begin(kind, now)
  PROVE  OvertakenInv'
<1>1. /\ req'.pc = "assignments" /\ req'.now = now /\ req'.rows = db.assignments
      /\ req'.booths = NoBooths /\ req'.held = Expected(db, now)
      /\ req'.left = {a \in Assignments : db.assignments[a].active}
      /\ db' = db /\ db \in Databases
  BY DEF Begin, Idle, IInv, TypeOK
<1>2. PassedOver'
  BY <1>1 DEF PassedOver, Covers
<1>3. View'.assignments = db.assignments /\ View'.campaigns = db.campaigns
  BY <1>1 DEF View, Databases
<1>4. View'.booths = db.booths
  BY <1>1 DEF View, Databases, NoBooths
<1>5. Expected(View', now) = Expected(db, now)
  BY <1>3, <1>4, SameExpected
<1>. QED
  BY <1>1, <1>2, <1>5 DEF OvertakenInv

\* The campaign is decided by what the request has seen.
LEMMA ResolvedOvertaken ==
  ASSUME IInv, OvertakenInv, req.pc \in {"assignments", "campaign"}, NEW c,
         edits <= req.began + 1 => c \in req.held,
         req' = Resolved(c), UNCHANGED <<db, edits>>
  PROVE  OvertakenInv'
<1>1. /\ req'.pc = AfterCampaign(c) /\ req'.campaign = c /\ req'.held = req.held
      /\ req'.began = req.began /\ req'.now = req.now
  BY DEF Resolved, Chosen, IInv, TypeOK, Requests
<1>2. AfterCampaign(c) \in {"done", "vouchers", "fallback", "frames"}
  BY DEF AfterCampaign
<1>3. req.pc \in Reading
  BY DEF Reading
<1>. QED
  BY <1>1, <1>2, <1>3 DEF OvertakenInv

LEMMA TryAssignmentOvertaken ==
  ASSUME IInv, OvertakenInv, NEW a \in Assignments, TryAssignment(a)
  PROVE  OvertakenInv'
<1>1. /\ req.pc = "assignments" /\ req \in Requests /\ db \in Databases
      /\ a \in req.left /\ First(req.rows, req.left, a) /\ db' = db /\ edits' = edits
      /\ req.rows \in [Assignments -> AssignmentRows]
  BY DEF TryAssignment, IInv, TypeOK, Progressed
<1>2. req.rows[a].booth \in Booths /\ BoothOf(a) \in BoothRows
  BY <1>1, BoothInView DEF BoothOf, Requests, Databases
<1>3. req.pc \in Reading
  BY <1>1 DEF Reading
<1>4. CASE ~Serves(a)
  <2> DEFINE b == req.rows[a].booth
  <2>1. req' = [req EXCEPT !.left = @ \ {a}, !.booths[b] = BoothOf(a)]
    BY <1>4 DEF TryAssignment
  <2>2. /\ req'.pc = "assignments" /\ req'.rows = req.rows /\ req'.now = req.now
        /\ req'.left = req.left \ {a} /\ req'.began = req.began /\ req'.held = req.held
        /\ req'.booths = [req.booths EXCEPT ![b] = BoothOf(a)]
    BY <1>1, <2>1 DEF Requests
  <2>3. req.booths \in [Booths -> BoothRows \cup {Null}] /\ db.booths \in [Booths -> BoothRows]
    BY <1>1 DEF Requests, Databases
  <2>4. PassedOver'
    <3> SUFFICES ASSUME NEW k \in Assignments \ req'.left, Covers(req.rows[k], req.now)
                 PROVE  /\ req'.booths[req.rows[k].booth] # Null
                        /\ ~req'.booths[req.rows[k].booth].live
      BY <2>2 DEF PassedOver
    <3>1. CASE k = a
      BY <1>2, <1>4, <2>2, <2>3, <3>1 DEF Serves
    <3>2. CASE k # a
      <4>1. req.booths[req.rows[k].booth] # Null /\ ~req.booths[req.rows[k].booth].live
        BY <1>1, <2>2, <3>2 DEF OvertakenInv, PassedOver
      <4>2. req.rows[k].booth \in Booths
        BY <1>1, BoothInView
      <4>3. CASE req.rows[k].booth = b
        BY <1>2, <2>2, <2>3, <4>1, <4>3 DEF BoothOf
      <4>4. CASE req.rows[k].booth # b
        BY <2>2, <2>3, <4>1, <4>2, <4>4
      <4>. QED BY <4>3, <4>4
    <3>. QED BY <3>1, <3>2
  <2>5. Expected(View', req.now) = Expected(View, req.now)
    <3>1. ASSUME NEW k \in Booths
          PROVE  (IF req'.booths[k] = Null THEN db.booths[k] ELSE req'.booths[k])
                   = (IF req.booths[k] = Null THEN db.booths[k] ELSE req.booths[k])
      BY <1>2, <2>2, <2>3 DEF BoothOf
    <3>2. [k \in Booths |-> IF req'.booths[k] = Null THEN db.booths[k] ELSE req'.booths[k]]
            = [k \in Booths |-> IF req.booths[k] = Null THEN db.booths[k] ELSE req.booths[k]]
      BY <3>1
    <3>3. /\ View.assignments = req.rows /\ View.campaigns = db.campaigns
          /\ View.booths = [k \in Booths |-> IF req.booths[k] = Null THEN db.booths[k]
                                                                     ELSE req.booths[k]]
      BY <1>1, ViewTables
    <3>4. /\ View'.assignments = req.rows /\ View'.campaigns = db.campaigns
          /\ View'.booths = [k \in Booths |-> IF req'.booths[k] = Null THEN db.booths[k]
                                                                       ELSE req'.booths[k]]
      BY <1>1, <2>2 DEF View, Databases
    <3>. QED
      BY <3>2, <3>3, <3>4, SameExpected
  <2>. QED
    BY <1>1, <1>3, <2>2, <2>4, <2>5 DEF OvertakenInv
<1>5. CASE Serves(a)
  <2>1. /\ BoothOf(a) = View.booths[View.assignments[a].booth]
        /\ View.campaigns = db.campaigns
    BY <1>1, BoothInView, ViewTables
  <2>2. edits <= req.began + 1 =>
          CampaignOf(View, View.assignments[a].booth) \in req.held
    BY <1>1, <1>5, NewestInView DEF OvertakenInv
  <2>3. CASE BoothOf(a).campaign = Null
    <3>1. req' = Resolved(Null)
      BY <1>5, <2>3 DEF TryAssignment
    <3>2. edits <= req.began + 1 => Null \in req.held
      BY <2>1, <2>2, <2>3 DEF CampaignOf
    <3>. QED
      BY <1>1, <3>1, <3>2, ResolvedOvertaken
  <2>4. CASE BoothOf(a).campaign # Null
    <3> DEFINE c == BoothOf(a).campaign
    <3>1. req' = Chosen("campaign", c)
      BY <1>5, <2>4 DEF TryAssignment
    <3>2. /\ req'.pc = "campaign" /\ req'.campaign = c /\ req'.now = req.now
          /\ req'.began = req.began /\ req'.held = req.held
      BY <1>1, <3>1 DEF Chosen, Requests
    <3>3. edits <= req.began + 1 =>
            (IF db.campaigns[c].live THEN c ELSE Null) \in req.held
      BY <2>1, <2>2, <2>4 DEF CampaignOf
    <3>. QED
      BY <1>1, <1>3, <3>2, <3>3 DEF OvertakenInv
  <2>. QED BY <2>3, <2>4
<1>. QED
  BY <1>4, <1>5

LEMMA NoAssignmentOvertaken ==
  ASSUME IInv, OvertakenInv, NoAssignment
  PROVE  OvertakenInv'
<1>1. edits <= req.began + 1 => Null \in req.held
  BY NoneInView DEF OvertakenInv, NoAssignment
<1>. QED
  BY <1>1, ResolvedOvertaken DEF NoAssignment

LEMMA ReadCampaignOvertaken ==
  ASSUME IInv, OvertakenInv, ReadCampaign
  PROVE  OvertakenInv'
<1> DEFINE c == IF db.campaigns[req.campaign].live THEN req.campaign ELSE Null
<1>1. edits <= req.began + 1 => c \in req.held
  BY DEF OvertakenInv, ReadCampaign
<1>. QED
  BY <1>1, ResolvedOvertaken DEF ReadCampaign

\* Later steps leave the campaign alone.
LEMMA LaterOvertaken ==
  ASSUME IInv, OvertakenInv, ReadFrames \/ ReadFallback \/ ReadVouchers
  PROVE  OvertakenInv'
<1>1. /\ req.pc \in {"frames", "fallback", "vouchers"}
      /\ req'.pc \in {"fallback", "vouchers", "done"}
      /\ req'.campaign = req.campaign /\ req'.now = req.now
      /\ req'.began = req.began /\ req'.held = req.held /\ db' = db /\ edits' = edits
  BY DEF IInv, TypeOK, Requests, ReadFrames, ReadFallback, ReadVouchers, AfterFrames
<1>2. req.pc \in Reading
  BY <1>1 DEF Reading
<1>. QED
  BY <1>1, <1>2 DEF OvertakenInv

-----------------------------------------------------------------------------
(***************************************************************************)
(* The edit.                                                               *)
(***************************************************************************)
\* Of the three tables that choose the campaign an edit changes at most one.
LEMMA OneTable ==
  ASSUME db \in Databases, NEW next \in Edited
  PROVE  \/ next.booths = db.booths /\ next.campaigns = db.campaigns
         \/ /\ next.assignments = db.assignments /\ next.campaigns = db.campaigns
            /\ \E b \in Booths, r \in BoothRows : next.booths = [db.booths EXCEPT ![b] = r]
         \/ next.assignments = db.assignments /\ next.booths = db.booths
<1>1. ASSUME NEW a \in Assignments, NEW r \in AssignmentRows,
             next = [db EXCEPT !.assignments[a] = r]
      PROVE  next.booths = db.booths /\ next.campaigns = db.campaigns
  BY <1>1 DEF Databases
<1>2. ASSUME NEW b \in Booths, NEW r \in BoothRows, next = [db EXCEPT !.booths[b] = r]
      PROVE  /\ next.assignments = db.assignments /\ next.campaigns = db.campaigns
             /\ next.booths = [db.booths EXCEPT ![b] = r]
  BY <1>2 DEF Databases
<1>3. ASSUME NEW c \in Campaigns, NEW r \in CampaignRows,
             next = [db EXCEPT !.campaigns[c] = r]
      PROVE  next.assignments = db.assignments /\ next.booths = db.booths
  BY <1>3 DEF Databases
<1>4. ASSUME NEW f \in Frames, NEW r \in FrameRows, next = [db EXCEPT !.frames[f] = r]
      PROVE  next.assignments = db.assignments /\ next.booths = db.booths
  BY <1>4 DEF Databases
<1>5. ASSUME NEW v \in Vouchers, NEW r \in VoucherRows, next = [db EXCEPT !.vouchers[v] = r]
      PROVE  next.assignments = db.assignments /\ next.booths = db.booths
  BY <1>5 DEF Databases
<1>6. \/ \E a \in Assignments, r \in AssignmentRows : next = [db EXCEPT !.assignments[a] = r]
      \/ \E b \in Booths, r \in BoothRows : next = [db EXCEPT !.booths[b] = r]
      \/ \E c \in Campaigns, r \in CampaignRows : next = [db EXCEPT !.campaigns[c] = r]
      \/ \E f \in Frames, r \in FrameRows : next = [db EXCEPT !.frames[f] = r]
      \/ \E v \in Vouchers, r \in VoucherRows : next = [db EXCEPT !.vouchers[v] = r]
  BY DEF Edited
<1>. QED
  BY <1>1, <1>2, <1>3, <1>4, <1>5, <1>6

\* While the candidates are tried: the view is of before or of after the edit.
LEMMA EditedView ==
  ASSUME IInv, Quiet, req.pc = "assignments", NEW next \in Edited,
         NEW view, view.assignments = req.rows, view.campaigns = next.campaigns,
         view.booths = [b \in Booths |-> IF req.booths[b] = Null THEN next.booths[b]
                                                                 ELSE req.booths[b]]
  PROVE  Expected(view, req.now) \in {Expected(db, req.now), Expected(next, req.now)}
<1>1. /\ db \in Databases /\ next \in Databases /\ req.rows = db.assignments
      /\ \A b \in Booths : req.booths[b] \in {Null, db.booths[b]}
  BY EditedTyped DEF IInv, TypeOK, QuietInv, CandidatesRight
<1>2. db.booths \in [Booths -> BoothRows] /\ next.booths \in [Booths -> BoothRows]
  BY <1>1 DEF Databases
<1>3. CASE next.booths = db.booths
  <2>1. view.booths = db.booths
    BY <1>1, <1>2, <1>3
  <2>2. CASE next.campaigns = db.campaigns
    BY <1>1, <2>1, <2>2, SameExpected
  <2>3. CASE next.assignments = db.assignments
    BY <1>1, <1>3, <2>1, <2>3, SameExpected
  <2>. QED
    BY <1>1, <1>2, <2>2, <2>3, OneTable
<1>4. CASE next.booths # db.booths
  <2>1. next.assignments = db.assignments /\ next.campaigns = db.campaigns
    BY <1>1, <1>4, OneTable
  <2>2. PICK b \in Booths, r \in BoothRows : next.booths = [db.booths EXCEPT ![b] = r]
    BY <1>1, <1>4, OneTable
  <2>3. CASE req.booths[b] = Null
    <3>1. view.booths = next.booths
      BY <1>1, <1>2, <2>2, <2>3
    <3>. QED
      BY <1>1, <2>1, <3>1, SameExpected
  <2>4. CASE req.booths[b] # Null
    <3>1. view.booths = db.booths
      BY <1>1, <1>2, <2>2, <2>4
    <3>. QED
      BY <1>1, <2>1, <3>1, SameExpected
  <2>. QED BY <2>3, <2>4
<1>. QED
  BY <1>3, <1>4

\* Once the booth is known: its campaign is that of before or of after the edit.
LEMMA EditedCampaign ==
  ASSUME IInv, Quiet, req.pc = "campaign", NEW next \in Edited
  PROVE  (IF next.campaigns[req.campaign].live THEN req.campaign ELSE Null)
           \in Expected(db, req.now) \cup Expected(next, req.now)
<1>1. db \in Databases /\ req.campaign # Null /\ CampaignRead
  BY DEF IInv, TypeOK, Progressed, QuietInv
<1>2. PICK a \in Newest(db, req.now) :
        db.booths[db.assignments[a].booth].campaign = req.campaign
  BY <1>1 DEF CampaignRead
<1>3. CASE next.campaigns = db.campaigns
  BY <1>1, <1>2, <1>3 DEF Expected, CampaignOf
<1>4. CASE next.assignments = db.assignments /\ next.booths = db.booths
  <2>1. Newest(next, req.now) = Newest(db, req.now)
    BY <1>4 DEF Newest, Valid
  <2>2. CampaignOf(next, next.assignments[a].booth) \in Expected(next, req.now)
    BY <2>1 DEF Expected
  <2>. QED
    BY <1>1, <1>2, <1>4, <2>2 DEF CampaignOf
<1>. QED
  BY <1>1, <1>3, <1>4, OneTable

LEMMA EditOvertaken ==
  ASSUME IInv, OvertakenInv, Edit
  PROVE  OvertakenInv'
<1>1. PICK next \in Edited \ {db} :
        /\ db' = next
        /\ req' = IF req.pc \in Reading
                    THEN [req EXCEPT !.held = @ \cup Expected(next, req.now)] ELSE req
  BY DEF Edit
<1>2. /\ req \in Requests /\ db \in Databases /\ next \in Databases /\ Progressed
      /\ edits \in Nat /\ req.began \in Nat /\ req.began <= edits /\ edits' = edits + 1
  BY EditedTyped DEF IInv, TypeOK, Edit, Progressed, Requests
<1>3. /\ req'.pc = req.pc /\ req'.campaign = req.campaign /\ req'.now = req.now
      /\ req'.began = req.began /\ req'.rows = req.rows /\ req'.booths = req.booths
      /\ req'.left = req.left /\ req.held \subseteq req'.held
      /\ req.pc \in Reading => req'.held = req.held \cup Expected(next, req.now)
  BY <1>1, <1>2 DEF Requests
<1>4. req.pc = "assignments" => PassedOver'
  BY <1>3 DEF OvertakenInv, PassedOver
<1>5. CASE edits' <= req.began + 1
  <2>1. Quiet /\ edits <= req.began + 1
    BY <1>2, <1>5 DEF Quiet
  <2>2. req.pc \in Reading => Expected(db, req.now) \subseteq req'.held
                              /\ Expected(next, req.now) \subseteq req'.held
    BY <1>3, <2>1 DEF OvertakenInv
  <2>3. ASSUME req.pc = "assignments" PROVE Expected(View', req.now) \subseteq req'.held
    <3>1. /\ View'.assignments = req.rows /\ View'.campaigns = next.campaigns
          /\ View'.booths = [b \in Booths |-> IF req.booths[b] = Null THEN next.booths[b]
                                                                      ELSE req.booths[b]]
      BY <1>1, <1>2, <1>3 DEF View, Databases
    <3>2. Expected(View', req.now) \in {Expected(db, req.now), Expected(next, req.now)}
      BY <2>1, <2>3, <3>1, EditedView
    <3>. QED
      BY <2>2, <2>3, <3>2 DEF Reading
  <2>4. ASSUME req.pc = "campaign"
        PROVE  (IF next.campaigns[req.campaign].live THEN req.campaign ELSE Null) \in req'.held
    <3>1. (IF next.campaigns[req.campaign].live THEN req.campaign ELSE Null)
             \in Expected(db, req.now) \cup Expected(next, req.now)
      BY <2>1, <2>4, EditedCampaign
    <3>. QED
      BY <2>2, <2>4, <3>1 DEF Reading
  <2>5. req.pc \in {"frames", "fallback", "vouchers", "done"} => req.campaign \in req'.held
    BY <1>3, <2>1 DEF OvertakenInv
  <2>. QED
    BY <1>1, <1>3, <1>4, <2>2, <2>3, <2>4, <2>5 DEF OvertakenInv
<1>6. CASE ~(edits' <= req.began + 1)
  BY <1>3, <1>4, <1>6 DEF OvertakenInv
<1>. QED
  BY <1>5, <1>6

-----------------------------------------------------------------------------
(***************************************************************************)
(* The theorems.                                                           *)
(***************************************************************************)
\* What a request has seen when at most one edit has overtaken it is what one look
\* at the tables, before or after that edit, would have shown.
THEOREM OvertakenInductive == Spec => []OvertakenInv
<1>1. Init => OvertakenInv
  BY DEF Init, Idle, OvertakenInv, Reading
<1>2. IInv /\ IInv' /\ OvertakenInv /\ [Next]_vars => OvertakenInv'
  <2> SUFFICES ASSUME IInv, IInv', OvertakenInv, [Next]_vars PROVE OvertakenInv'
    OBVIOUS
  <2>1. ASSUME NEW kind \in Kinds, NEW now \in Times, Begin(kind, now) PROVE OvertakenInv'
    BY <2>1, BeginOvertaken
  <2>2. ASSUME NEW a \in Assignments, TryAssignment(a) PROVE OvertakenInv'
    BY <2>2, TryAssignmentOvertaken
  <2>3. CASE NoAssignment   BY <2>3, NoAssignmentOvertaken
  <2>4. CASE ReadCampaign   BY <2>4, ReadCampaignOvertaken
  <2>5. CASE ReadFrames \/ ReadFallback \/ ReadVouchers   BY <2>5, LaterOvertaken
  <2>6. CASE Answer
    BY <2>6 DEF Answer, Idle, OvertakenInv, Reading
  <2>7. CASE Edit   BY <2>7, EditOvertaken
  <2>8. CASE UNCHANGED vars
    BY <2>8 DEF vars, OvertakenInv, PassedOver, View
  <2>. QED
    BY <2>1, <2>2, <2>3, <2>4, <2>5, <2>6, <2>7, <2>8 DEF Next
<1>. QED
  BY <1>1, <1>2, CatalogueInductive, PTL DEF Spec

\* A single edit, wherever it comes between the SELECTs, leaves the kiosk with a
\* campaign that was its own before or after.
THEOREM OneEditAtMost == Spec => []OvertakenOnce
<1>1. OvertakenInv => OvertakenOnce
  BY DEF OvertakenInv, OvertakenOnce
<1>. QED
  BY <1>1, OvertakenInductive, PTL
=============================================================================
