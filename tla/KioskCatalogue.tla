--------------------------- MODULE KioskCatalogue ---------------------------
(***************************************************************************)
(* What a kiosk is given to work with: GET /config, /templates,            *)
(* /devices/me and /vouchers.  Each resolves the kiosk's assignment, booth *)
(* and campaign with one SELECT after the other, and the admin panel may   *)
(* change the catalogue between any two of them (READ COMMITTED).  The     *)
(* requests only read, so one of them at a time shows all there is.        *)
(***************************************************************************)
EXTENDS Naturals

CONSTANTS
  Assignments,    \* device assignments of the kiosk
  Booths, Campaigns, Frames,
  Vouchers,
  Times,          \* naive WIB times, of requests and window bounds
  Windows,        \* windows that the admin panel sets
  Catalogues,     \* initial databases
  MaxEdits,       \* bound on the edits of the admin panel
  Null

VARIABLES
  db,       \* the committed catalogue tables
  req,      \* the request that is served
  edits     \* edits so far

vars == <<db, req, edits>>

\* "active" and "live" stand for the columns that the reads of these rows check
\* together: status and deleted_at of an assignment; deleted_at of a voucher and
\* of its batch and the device it is bound to; otherwise deleted_at.
AssignmentRows == [booth: Booths, window: Windows, active: BOOLEAN]
BoothRows == [campaign: Campaigns \cup {Null}, live: BOOLEAN]
CampaignRows == [frames: SUBSET Frames, live: BOOLEAN]
FrameRows == [public: BOOLEAN, live: BOOLEAN]
VoucherRows == [campaign: Campaigns \cup {Null}, available: BOOLEAN, live: BOOLEAN]

Databases == [assignments: [Assignments -> AssignmentRows],
              booths: [Booths -> BoothRows],
              campaigns: [Campaigns -> CampaignRows],
              frames: [Frames -> FrameRows],
              vouchers: [Vouchers -> VoucherRows]]

Kinds == {"config", "templates", "me", "vouchers"}
Reading == {"assignments", "campaign", "frames", "fallback", "vouchers"}

Requests == [pc: Reading \cup {"idle", "done"}, kind: Kinds, now: Times \cup {Null},
             rows: [Assignments -> AssignmentRows] \cup {Null}, left: SUBSET Assignments,
             booths: [Booths -> BoothRows \cup {Null}],
             campaign: Campaigns \cup {Null}, frames: SUBSET Frames,
             vouchers: SUBSET Vouchers,
             began: 0 .. MaxEdits, held: SUBSET (Campaigns \cup {Null})]

ASSUME BoundAssumption == MaxEdits \in Nat
ASSUME TimeAssumption ==
  /\ Times \subseteq Nat
  /\ Windows \subseteq [from: Times \cup {Null}, until: Times \cup {Null}]
ASSUME CatalogueAssumption == Catalogues \subseteq Databases
ASSUME NullAssumption == Null \notin Campaigns \cup Times \cup BoothRows

NoBooths == [b \in Booths |-> Null]

Idle == [pc |-> "idle", kind |-> "me", now |-> Null, rows |-> Null, left |-> {},
         booths |-> NoBooths, campaign |-> Null, frames |-> {}, vouchers |-> {},
         began |-> 0, held |-> {}]

Init == db \in Catalogues /\ req = Idle /\ edits = 0

-----------------------------------------------------------------------------
(***************************************************************************)
(* The rules of lib/device_assignment.py and api/config.py.                *)
(***************************************************************************)
\* is_assignment_window_valid, but for the booth: both bounds are set and
\* include the time of the request.
Covers(row, now) ==
  /\ row.active
  /\ row.window.from # Null /\ row.window.until # Null
  /\ row.window.from <= now /\ now <= row.window.until

\* Mutant: oldest first.
Oldest(rows, left, a) ==
  rows[a].window.from # Null =>
    \A b \in left : rows[b].window.from # Null => rows[a].window.from <= rows[b].window.from

\* ORDER BY assigned_from DESC, where Postgres has nulls first: row a may be
\* the first of rows.  Rows of the same time are in no order.
First(rows, left, a) ==
  rows[a].window.from # Null =>
    \A b \in left : rows[b].window.from # Null /\ rows[b].window.from <= rows[a].window.from

\* Mutant: the rows instead of their ids.
LinkedRows(d, c) == {d.frames[f] : f \in d.campaigns[c].frames}

\* Frames of the campaign, and the frames to fall back on.
Linked(d, c) == {f \in d.campaigns[c].frames : d.frames[f].public /\ d.frames[f].live}
Public(d) == {f \in Frames : d.frames[f].public}

\* _device_vouchers; /config counts only those that are available.
Offered(d, c, kind) ==
  {v \in Vouchers : /\ d.vouchers[v].campaign = c /\ d.vouchers[v].live
                    /\ kind = "config" => d.vouchers[v].available}

-----------------------------------------------------------------------------
(***************************************************************************)
(* What the request should find: the rules, of one state of the tables.    *)
(***************************************************************************)
Valid(d, now) ==
  {a \in Assignments : Covers(d.assignments[a], now) /\ d.booths[d.assignments[a].booth].live}

\* The valid assignments that no other began after.
Newest(d, now) ==
  {a \in Valid(d, now) : \A b \in Valid(d, now) :
     d.assignments[b].window.from <= d.assignments[a].window.from}

CampaignOf(d, b) ==
  IF d.booths[b].campaign # Null /\ d.campaigns[d.booths[b].campaign].live
    THEN d.booths[b].campaign ELSE Null

\* The campaign of the kiosk: several, if assignments began at one time.
Expected(d, now) ==
  IF Newest(d, now) = {} THEN {Null}
    ELSE {CampaignOf(d, d.assignments[a].booth) : a \in Newest(d, now)}

ExpectedFrames(d, c) ==
  IF c # Null /\ Linked(d, c) # {} THEN Linked(d, c) ELSE Public(d)

-----------------------------------------------------------------------------
(***************************************************************************)
(* A request, one action for each SELECT.                                  *)
(***************************************************************************)
\* The active assignments of the device are read, then the clock.
Begin(kind, now) ==
  /\ req.pc = "idle"
  /\ req' = [Idle EXCEPT !.pc = "assignments", !.kind = kind, !.now = now,
               !.rows = db.assignments,
               !.left = {a \in Assignments : db.assignments[a].active},
               !.began = edits, !.held = Expected(db, now)]
  /\ UNCHANGED <<db, edits>>

\* Where a request goes on once it knows its campaign, or that it has none.
\* GET /vouchers answers 404 without a campaign.
AfterCampaign(c) ==
  IF req.kind = "me" \/ (req.kind = "vouchers" /\ c = Null) THEN "done"
  ELSE IF req.kind = "vouchers" THEN "vouchers"
  ELSE IF c = Null THEN "fallback" ELSE "frames"

\* The candidates are dropped as get_valid_assignment returns.
Chosen(pc, c) ==
  [req EXCEPT !.pc = pc, !.campaign = c, !.rows = Null, !.left = {}, !.booths = NoBooths]

Resolved(c) == Chosen(AfterCampaign(c), c)

\* The booth of a candidate.  It is read once: the SQLAlchemy session keeps it
\* for another candidate and for the db.get that follows.
BoothOf(a) ==
  LET b == req.rows[a].booth IN IF req.booths[b] = Null THEN db.booths[b] ELSE req.booths[b]

Serves(a) == Covers(req.rows[a], req.now) /\ BoothOf(a).live

\* Candidates are tried newest first until one serves the device.
TryAssignment(a) ==
  /\ req.pc = "assignments" /\ a \in req.left /\ First(req.rows, req.left, a)
  /\ req' = IF ~Serves(a)
              THEN [req EXCEPT !.left = @ \ {a}, !.booths[req.rows[a].booth] = BoothOf(a)]
            ELSE IF BoothOf(a).campaign = Null THEN Resolved(Null)
            ELSE Chosen("campaign", BoothOf(a).campaign)
  /\ UNCHANGED <<db, edits>>

NoAssignment ==
  /\ req.pc = "assignments" /\ req.left = {}
  /\ req' = Resolved(Null)
  /\ UNCHANGED <<db, edits>>

\* Mutant: deleted_at is not looked at.
UncheckedCampaign ==
  /\ req.pc = "campaign"
  /\ req' = Resolved(req.campaign)
  /\ UNCHANGED <<db, edits>>

\* A soft-deleted campaign is no campaign.
ReadCampaign ==
  /\ req.pc = "campaign"
  /\ req' = Resolved(IF db.campaigns[req.campaign].live THEN req.campaign ELSE Null)
  /\ UNCHANGED <<db, edits>>

AfterFrames == IF req.kind = "config" /\ req.campaign # Null THEN "vouchers" ELSE "done"

\* Mutant: a campaign without frames that can be served has none.
NoFallback ==
  /\ req.pc = "frames"
  /\ req' = [req EXCEPT !.pc = AfterFrames, !.frames = Linked(db, req.campaign)]
  /\ UNCHANGED <<db, edits>>

ReadFrames ==
  /\ req.pc = "frames"
  /\ LET linked == Linked(db, req.campaign) IN
       req' = IF linked = {} THEN [req EXCEPT !.pc = "fallback"]
                ELSE [req EXCEPT !.pc = AfterFrames, !.frames = linked]
  /\ UNCHANGED <<db, edits>>

ReadFallback ==
  /\ req.pc = "fallback"
  /\ req' = [req EXCEPT !.pc = AfterFrames, !.frames = Public(db)]
  /\ UNCHANGED <<db, edits>>

ReadVouchers ==
  /\ req.pc = "vouchers"
  /\ req' = [req EXCEPT !.pc = "done", !.vouchers = Offered(db, req.campaign, req.kind)]
  /\ UNCHANGED <<db, edits>>

Answer ==
  /\ req.pc = "done"
  /\ req' = Idle
  /\ UNCHANGED <<db, edits>>

\* The admin panel changes one row (external).
Edited ==
       {[db EXCEPT !.assignments[a] = r] : a \in Assignments, r \in AssignmentRows}
  \cup {[db EXCEPT !.booths[b] = r] : b \in Booths, r \in BoothRows}
  \cup {[db EXCEPT !.campaigns[c] = r] : c \in Campaigns, r \in CampaignRows}
  \cup {[db EXCEPT !.frames[f] = r] : f \in Frames, r \in FrameRows}
  \cup {[db EXCEPT !.vouchers[v] = r] : v \in Vouchers, r \in VoucherRows}

Edit ==
  /\ edits < MaxEdits
  /\ \E next \in Edited \ {db} :
       /\ db' = next
       /\ req' = IF req.pc \in Reading
                   THEN [req EXCEPT !.held = @ \cup Expected(next, req.now)] ELSE req
  /\ edits' = edits + 1

Next ==
  \/ \E kind \in Kinds, now \in Times : Begin(kind, now)
  \/ \E a \in Assignments : TryAssignment(a)
  \/ NoAssignment
  \/ ReadCampaign
  \/ ReadFrames
  \/ ReadFallback
  \/ ReadVouchers
  \/ Answer
  \/ Edit

Spec == Init /\ [][Next]_vars
-----------------------------------------------------------------------------
(***************************************************************************)
(* Properties.                                                             *)
(***************************************************************************)
\* Types of all state.
TypeOK == db \in Databases /\ req \in Requests /\ edits \in 0 .. MaxEdits

Quiet == edits = req.began

ServesFrames == req.kind \in {"config", "templates"}
ServesVouchers == req.kind = "vouchers" \/ req.kind = "config"

\* The four endpoints resolve the catalogue in the same way, step by step, and
\* if nobody edits it meanwhile each answers what one look at the tables says:
\* the campaign of the newest valid assignment, its frames (all public ones if it
\* has none), its vouchers.  So /config and /devices/me, of which a kiosk
\* combines the answers (api/config.py:31-32), agree, unless two assignments began
\* at the same time: then either is right.
QuietAnswerRight ==
  (req.pc = "done" /\ Quiet) =>
    /\ req.campaign \in Expected(db, req.now)
    /\ req.frames = IF ServesFrames THEN ExpectedFrames(db, req.campaign) ELSE {}
    /\ req.vouchers = IF ServesVouchers /\ req.campaign # Null
                        THEN Offered(db, req.campaign, req.kind) ELSE {}

\* A request that one edit overtakes, wherever between its SELECTs, answers a
\* campaign that was right before or after the edit.  (Two edits are too many:
\* the kiosk may be given a campaign that was never its own.)
OvertakenOnce == (req.pc = "done" /\ edits <= req.began + 1) => req.campaign \in req.held

\* "Operational reads (kiosk config/sync/session/voucher) treat deleted rows as
\* missing" (lib/soft_delete.py:5-6): no frame is served that was soft-deleted
\* before the request began and still is.
DeletedNotServed ==
  (req.pc = "done" /\ Quiet) => \A f \in req.frames : db.frames[f].live

-----------------------------------------------------------------------------
(***************************************************************************)
(* The inductive invariant behind QuietAnswerRight: what a request that    *)
(* nobody has overtaken knows between its SELECTs.                         *)
(***************************************************************************)
\* What is set and not yet set, overtaken or not.
Progressed ==
  /\ req.began <= edits
  /\ req.pc \in Reading => req.now \in Times /\ req.vouchers = {}
  /\ req.pc = "assignments" => req.rows \in [Assignments -> AssignmentRows]
  /\ req.pc \in {"assignments", "campaign"} => req.frames = {}
  /\ req.pc \in {"campaign", "frames", "vouchers"} => req.campaign # Null
  /\ req.pc \in {"frames", "fallback"} => ServesFrames
  /\ req.pc = "vouchers" => ServesVouchers

\* The candidates that were passed over are not valid.
CandidatesRight ==
  /\ req.rows = db.assignments
  /\ \A a \in Assignments \ req.left : a \notin Valid(db, req.now)
  /\ \A b \in Booths : req.booths[b] \in {Null, db.booths[b]}

CampaignRead ==
  \E a \in Newest(db, req.now) : db.booths[db.assignments[a].booth].campaign = req.campaign

QuietInv ==
  /\ req.pc = "assignments" => CandidatesRight
  /\ req.pc = "campaign" => CampaignRead
  /\ req.pc \in {"frames", "fallback", "vouchers"} => req.campaign \in Expected(db, req.now)
  /\ req.pc = "fallback" => (req.campaign # Null => Linked(db, req.campaign) = {})
  /\ req.pc = "vouchers" =>
       req.frames = IF ServesFrames THEN ExpectedFrames(db, req.campaign) ELSE {}

IInv == TypeOK /\ Progressed /\ (Quiet => QuietInv) /\ QuietAnswerRight

-----------------------------------------------------------------------------
(***************************************************************************)
(* The same for OvertakenOnce.                                             *)
(***************************************************************************)
\* The tables as the request will have seen them if no other edit comes: the
\* candidates and booths it keeps, and otherwise what is there now.
View ==
  [db EXCEPT !.assignments = req.rows,
             !.booths = [b \in Booths |-> IF req.booths[b] = Null THEN @[b] ELSE req.booths[b]]]

\* The booths of the candidates that were passed over are kept.
PassedOver ==
  \A a \in Assignments \ req.left :
    Covers(req.rows[a], req.now) =>
      req.booths[req.rows[a].booth] # Null /\ ~req.booths[req.rows[a].booth].live

\* One edit later, what the request sees is still what one look at the tables,
\* before or after the edit, would have shown.
OvertakenInv ==
  /\ req.pc = "assignments" => PassedOver
  /\ edits <= req.began + 1 =>
       /\ req.pc \in Reading => Expected(db, req.now) \subseteq req.held
       /\ req.pc = "assignments" => Expected(View, req.now) \subseteq req.held
       /\ req.pc = "campaign" =>
            (IF db.campaigns[req.campaign].live THEN req.campaign ELSE Null) \in req.held
       /\ req.pc \in {"frames", "fallback", "vouchers", "done"} => req.campaign \in req.held
=============================================================================
