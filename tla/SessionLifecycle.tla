-------------------------- MODULE SessionLifecycle --------------------------
(***************************************************************************)
(* The online session API (api/session.py): photo sessions are created,    *)
(* stepped through their lifecycle, cancelled and patched, while bulk sync *)
(* (api/sync.py) pushes offline copies of the same rows.                   *)
(*                                                                         *)
(* Every handler loads the row, checks it, and writes it back in a later   *)
(* statement that finds the row by id and carries the columns that differ  *)
(* from the loaded row.  The UPDATE takes the lock of the row and inserts  *)
(* the log entry before the commit releases it, so UPDATE, INSERT and      *)
(* COMMIT are one step here, and the load is another.                      *)
(***************************************************************************)
EXTENDS Naturals, Sequences

CONSTANTS
  Devices,      \* kiosks
  LiveDevices,  \* kiosks whose row is not soft-deleted
  Assigned,     \* active kiosks in the window of an assignment to a live booth
  SessionIds,
  LocalIds,     \* the sessions that have a client_ref: those that kiosks push
  Frames,
  Offered,      \* the public frames the campaign of a kiosk (or no kiosk) offers
  Patches,      \* what PATCH /sessions/{id} may be asked to set
  Pushes,       \* offline copies of sessions that bulk sync may bring
  Handlers,     \* handler threads
  MaxRequests,  \* bound on the number of requests
  Null

VARIABLES
  sessions,  \* committed rows
  logs,      \* session_device_logs of each session, oldest first
  req,       \* what each handler has loaded and is about to write
  requests

vars == <<sessions, logs, req, requests>>

SessionStates == {"started", "payment_choice", "simulation", "take_photo",
                  "re_take", "print", "complete", "cancelled"}

\* action -> the state it is allowed in, and the next state
Actions == [simulation |-> [from |-> "simulation", to |-> "take_photo"],
            retake     |-> [from |-> "take_photo", to |-> "re_take"],
            photo      |-> [from |-> "re_take",    to |-> "take_photo"],
            print      |-> [from |-> "take_photo", to |-> "print"]]

FRAME_SETTER_STATES == {"started", "payment_choice"}
CANCELLABLE == {"started", "payment_choice", "simulation", "take_photo",
                "re_take", "print"}

Columns == {"state", "device", "frame", "activation"}

SessionRows == [state: SessionStates, device: Devices \cup {Null},
                frame: Frames \cup {Null}, activation: {"qr", "voucher", Null}]

Steps == DOMAIN Actions \cup {"created", "cancelled"}

\* The state in which each logged step leaves the session.
Target(reason) == CASE reason = "created"   -> "started"
                    [] reason = "cancelled" -> "cancelled"
                    [] OTHER                -> Actions[reason].to

SessionDeviceLogs == [reason: Steps \cup {"device_swap", "synced"},
                      device: Devices \cup {Null}, frame: Frames \cup {Null}]

\* SessionUpdate: only the fields that the request set.
SessionUpdate ==
  UNION {[cs -> SessionStates \cup Devices \cup Frames \cup {"qr", "voucher", Null}] :
           cs \in SUBSET Columns}

ASSUME PatchesAssumption ==
  /\ Patches \subseteq SessionUpdate
  /\ \A p \in Patches :
       /\ "state" \in DOMAIN p => p["state"] \in SessionStates
       /\ "device" \in DOMAIN p => p["device"] \in Devices \cup {Null}
       /\ "frame" \in DOMAIN p => p["frame"] \in Frames \cup {Null}
       /\ "activation" \in DOMAIN p => p["activation"] \in {"qr", "voucher", Null}
ASSUME PushesAssumption ==
  Pushes \subseteq [state: SessionStates, frame: Frames \cup {Null},
                    activation: {"qr", "voucher", Null}]
ASSUME DevicesAssumption ==
  Assigned \subseteq LiveDevices /\ LiveDevices \subseteq Devices
ASSUME OfferedAssumption == Offered \in [Devices \cup {Null} -> SUBSET Frames]
ASSUME LocalIdsAssumption == LocalIds \subseteq SessionIds
ASSUME BoundAssumption == MaxRequests \in Nat
ASSUME NullAssumption == Null \notin Devices \cup Frames \cup SessionIds \cup SessionRows

-----------------------------------------------------------------------------
Idle == [pc |-> "idle", session |-> Null, seen |-> Null, want |-> Null, entry |-> <<>>]

\* What a handler loaded, the row it wants to store, and its log entry, if any.
Loaded == [pc: {"write"}, session: SessionIds, seen: SessionRows \cup {Null},
           want: SessionRows, entry: {<<>>} \cup {<<e>> : e \in SessionDeviceLogs}]

Init ==
  /\ sessions = [s \in SessionIds |-> Null]
  /\ logs = [s \in SessionIds |-> <<>>]
  /\ req = [h \in Handlers |-> Idle]
  /\ requests = 0

\* _snapshot_payload: the log names the kiosk and the frame as they were loaded.
Entry(reason, device, frame) == <<[reason |-> reason, device |-> device, frame |-> frame]>>

\* Every handler begins with the SELECT of its session.
Load(h, s, want, entry) ==
  /\ req[h].pc = "idle"
  /\ requests < MaxRequests
  /\ req' = [req EXCEPT ![h] =
       [pc |-> "write", session |-> s, seen |-> sessions[s], want |-> want, entry |-> entry]]
  /\ requests' = requests + 1
  /\ UNCHANGED <<sessions, logs>>

\* A new session has a fresh id, which no other handler knows.
Fresh(s) == sessions[s] = Null /\ \A h \in Handlers : req[h].session # s

\* _apply_frame: the frame must be offered, and is locked once the photo
\* session has started.
FrameAllowed(row, frame, device) ==
  /\ frame \in Offered[device]
  /\ row.state \in FRAME_SETTER_STATES \/ row.frame = frame

\* Mutant: the state is left to the default of the column.
StatelessCreate(h, s, device, frame) ==
  /\ s \notin LocalIds /\ Fresh(s)
  /\ device \in Assigned
  /\ frame # Null => frame \in Offered[device]
  /\ Load(h, s, [state |-> Null, device |-> device, frame |-> frame, activation |-> Null],
          Entry("created", device, frame))

\* POST /sessions
CreateSession(h, s, device, frame) ==
  /\ s \notin LocalIds /\ Fresh(s)
  /\ device \in Assigned
  /\ frame # Null => frame \in Offered[device]
  /\ Load(h, s, [state |-> "started", device |-> device, frame |-> frame, activation |-> Null],
          Entry("created", device, frame))

\* Mutant: the state is not checked.
UncheckedStep(h, s, action) ==
  /\ sessions[s] # Null
  /\ sessions[s].state # Actions[action].to
  /\ Load(h, s, [sessions[s] EXCEPT !.state = Actions[action].to],
          Entry(action, sessions[s].device, sessions[s].frame))

\* PATCH /sessions/{id}/simulation, /retake, /photo and /print
Step(h, s, action) ==
  /\ sessions[s] # Null
  /\ sessions[s].state = Actions[action].from
  /\ Load(h, s, [sessions[s] EXCEPT !.state = Actions[action].to],
          Entry(action, sessions[s].device, sessions[s].frame))

\* PATCH /sessions/{id}/cancel; a cancelled session is left as it is.
CancelSession(h, s) ==
  /\ sessions[s] # Null
  /\ sessions[s].state \in CANCELLABLE
  /\ Load(h, s, [sessions[s] EXCEPT !.state = "cancelled"],
          Entry("cancelled", sessions[s].device, sessions[s].frame))

\* PATCH /sessions/{id}/payment
UpdateSessionPayment(h, s, mode) ==
  /\ sessions[s] # Null
  /\ sessions[s].state \in {"started", "payment_choice"}
  /\ Load(h, s, [sessions[s] EXCEPT !.activation = mode], <<>>)

\* exclude_unset: a field that was not set keeps its value.
Updated(row, patch) ==
  LET Field(c, old) == IF c \in DOMAIN patch THEN patch[c] ELSE old
  IN [state |-> Field("state", row.state), device |-> Field("device", row.device),
      frame |-> Field("frame", row.frame), activation |-> Field("activation", row.activation)]

\* PATCH /sessions/{id}: the fields that were set overwrite the row; only a
\* frame that is not null is checked, and only another kiosk is logged.
UpdateSession(h, s, patch) ==
  /\ sessions[s] # Null
  /\ LET row == sessions[s]
         named == "device" \in DOMAIN patch /\ patch["device"] # Null
         swap == named /\ patch["device"] # row.device
         want == Updated(row, patch)
     IN /\ ("frame" \in DOMAIN patch /\ patch["frame"] # Null) =>
             FrameAllowed(row, patch["frame"], IF named THEN patch["device"] ELSE row.device)
        /\ swap => patch["device"] \in LiveDevices
        /\ want # row
        /\ Load(h, s, want, IF swap THEN Entry("device_swap", want.device, want.frame)
                                    ELSE <<>>)

\* _upsert_session of bulk sync, for a session that is new or of the same kiosk;
\* when it brings nothing new here, it does in a column that is left out.
UpsertSession(h, s, device, push) ==
  LET row == sessions[s]
      want == [state |-> push.state, device |-> device, frame |-> push.frame,
               activation |-> push.activation]
  IN /\ s \in LocalIds
     /\ Fresh(s) \/ (row # Null /\ row.device = device)
     /\ Load(h, s, want, Entry("synced", device, push.frame))

\* Mutant: the log entry is committed before the row, in a transaction of its own.
LogFirst(h) ==
  /\ req[h].pc = "write"
  /\ logs' = [logs EXCEPT ![req[h].session] = @ \o req[h].entry]
  /\ req' = [req EXCEPT ![h] = IF req[h].entry = <<>> THEN Idle ELSE [@ EXCEPT !.entry = <<>>]]
  /\ IF req[h].entry # <<>> THEN UNCHANGED sessions
     ELSE sessions' = [sessions EXCEPT ![req[h].session] = req[h].want]
  /\ UNCHANGED requests

\* UPDATE carries the columns that differ from the row as it was loaded.
Merged(seen, want, row) ==
  LET Newer(loaded, assigned, current) == IF assigned # loaded THEN assigned ELSE current
  IN [state |-> Newer(seen.state, want.state, row.state),
      device |-> Newer(seen.device, want.device, row.device),
      frame |-> Newer(seen.frame, want.frame, row.frame),
      activation |-> Newer(seen.activation, want.activation, row.activation)]

\* UPDATE or INSERT, log entry and commit.
Write(h) ==
  LET s == req[h].session
      seen == req[h].seen
      want == req[h].want
  IN /\ req[h].pc = "write"
     /\ sessions' = [sessions EXCEPT ![s] = IF seen = Null THEN want
                                               ELSE Merged(seen, want, sessions[s])]
     /\ logs' = [logs EXCEPT ![s] = @ \o req[h].entry]
     /\ req' = [req EXCEPT ![h] = Idle]
     /\ UNCHANGED requests

\* The process dies, the connection is lost or the database refuses the write
\* (a code or a client_ref that is taken, an unknown reference): rollback.
Abort(h) ==
  /\ req[h].pc = "write"
  /\ req' = [req EXCEPT ![h] = Idle]
  /\ UNCHANGED <<sessions, logs, requests>>

Next ==
  \E h \in Handlers :
    \/ \E s \in SessionIds :
         \/ \E d \in Devices, f \in Frames \cup {Null} : CreateSession(h, s, d, f)
         \/ \E a \in DOMAIN Actions : Step(h, s, a)
         \/ CancelSession(h, s)
         \/ \E mode \in {"qr", "voucher"} : UpdateSessionPayment(h, s, mode)
         \/ \E patch \in Patches : UpdateSession(h, s, patch)
         \/ \E d \in LiveDevices, push \in Pushes : UpsertSession(h, s, d, push)
    \/ Write(h)
    \/ Abort(h)

Spec == Init /\ [][Next]_vars

-----------------------------------------------------------------------------
(***************************************************************************)
(* Properties.                                                             *)
(***************************************************************************)
\* Types of all state.
TypeOK ==
  /\ sessions \in [SessionIds -> SessionRows \cup {Null}]
  /\ logs \in [SessionIds -> Seq(SessionDeviceLogs)]
  /\ req \in [Handlers -> Loaded \cup {Idle}]
  /\ requests \in 0 .. MaxRequests

\* States that a session is put in without a step: by a PATCH or a push.
OutsideStates ==
  {p["state"] : p \in {q \in Patches : "state" \in DOMAIN q}} \cup {p.state : p \in Pushes}

\* Entry i is the last one in the log of s with one of these reasons.
LastEntry(s, i, reasons) ==
  /\ i \in DOMAIN logs[s]
  /\ logs[s][i].reason \in reasons
  /\ \A j \in DOMAIN logs[s] : j > i => logs[s][j].reason \notin reasons

OwnerReasons == {"created", "device_swap"}

\* The log never lags behind the row, whatever overtakes what between a load
\* and a write.  Unless a PATCH or a push chose the state, it is the one that
\* the newest step of the log leads to; and unless a PATCH cleared it, the
\* kiosk is the one that the newest "created" or "device_swap" entry names, or
\* the one that pushed the session first.
StateExplained(s) ==
  \/ sessions[s].state \in OutsideStates
  \/ \E i \in DOMAIN logs[s] :
       LastEntry(s, i, Steps) /\ Target(logs[s][i].reason) = sessions[s].state

DeviceExplained(s) ==
  \/ sessions[s].device = Null
  \/ \E i \in DOMAIN logs[s] :
       LastEntry(s, i, OwnerReasons) /\ logs[s][i].device = sessions[s].device
  \/ /\ \A j \in DOMAIN logs[s] : logs[s][j].reason \notin OwnerReasons
     /\ logs[s][1].device = sessions[s].device

LogExplainsRow ==
  \A s \in SessionIds : sessions[s] # Null => StateExplained(s) /\ DeviceExplained(s)

\* An action in the log of a session has its reason there: an earlier step that
\* led to the state it starts from, unless PATCH or a push can set that state.
LogFollowsLifecycle ==
  \A s \in SessionIds : \A i \in DOMAIN logs[s] :
    LET a == logs[s][i].reason IN
    (a \in DOMAIN Actions /\ Actions[a].from \notin OutsideStates) =>
      \E j \in 1 .. (i - 1) :
        logs[s][j].reason \in Steps /\ Target(logs[s][j].reason) = Actions[a].from

-----------------------------------------------------------------------------
(***************************************************************************)
(* The inductive invariant behind the two invariants on the log: what a    *)
(* handler is about to write agrees with the log entry that it will add,   *)
(* though the row may have changed since it was loaded.                    *)
(***************************************************************************)
Logs(entry, reasons) == entry # <<>> /\ entry[1].reason \in reasons

StatePlanned(seen, want, entry) ==
  IF Logs(entry, Steps)
    THEN want.state = Target(entry[1].reason) /\ (seen # Null => want.state # seen.state)
    ELSE want.state \in OutsideStates \/ (seen # Null /\ want.state = seen.state)

DevicePlanned(seen, want, entry) ==
  IF Logs(entry, OwnerReasons)
    THEN want.device = entry[1].device /\ (seen # Null => want.device # seen.device)
    ELSE IF seen = Null THEN want.device = entry[1].device
                        ELSE want.device \in {Null, seen.device}

\* The source state of the action has been logged already.
ActionGrounded(s, entry) ==
  LET from == Actions[entry[1].reason].from IN
  (Logs(entry, DOMAIN Actions) /\ from \notin OutsideStates) =>
    \E j \in DOMAIN logs[s] :
      logs[s][j].reason \in Steps /\ Target(logs[s][j].reason) = from

Planned(s, seen, want, entry) ==
  /\ seen = Null <=> sessions[s] = Null
  /\ seen = Null => entry # <<>>
  /\ StatePlanned(seen, want, entry)
  /\ DevicePlanned(seen, want, entry)
  /\ ActionGrounded(s, entry)

HandlersPlanned ==
  \A h \in Handlers : req[h].pc = "write" =>
    /\ Planned(req[h].session, req[h].seen, req[h].want, req[h].entry)
    /\ req[h].seen = Null => \A g \in Handlers \ {h} : req[g].session # req[h].session

RowsLogged == \A s \in SessionIds : sessions[s] = Null <=> logs[s] = <<>>

IInv == TypeOK /\ LogExplainsRow /\ LogFollowsLifecycle /\ RowsLogged /\ HandlersPlanned

-----------------------------------------------------------------------------
\* "lifecycle: action -> (allowed_source_state, next_state)" (api/session.py:29):
\* an action takes a session from its source state to its next state.
ActionsFollowLifecycle ==
  [][ \A s \in SessionIds :
        LET e == logs'[s][Len(logs'[s])] IN
        (logs'[s] # logs[s] /\ e.reason \in DOMAIN Actions) =>
          /\ sessions[s].state = Actions[e.reason].from
          /\ sessions'[s].state = Actions[e.reason].to ]_vars

=============================================================================
