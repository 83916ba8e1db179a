----------------------- MODULE SessionLifecycleProofs -----------------------
(***************************************************************************)
(* Theorems about the online session API, for any number of kiosks,        *)
(* sessions, handler threads and requests, and any patches and pushes.     *)
(***************************************************************************)
EXTENDS SessionLifecycle, TLAPS

(***************************************************************************)
(* What handlers plan to write.                                            *)
(***************************************************************************)

\* Actions have a source and a next state, which differ, and are steps.
LEMMA ActionStates ==
  ASSUME NEW a \in DOMAIN Actions
  PROVE  /\ Actions[a].from \in SessionStates /\ Actions[a].to \in SessionStates
         /\ Actions[a].from # Actions[a].to
         /\ Target(a) = Actions[a].to
         /\ a \in Steps /\ a \notin OwnerReasons
  BY DEF Actions, SessionStates, Target, Steps, OwnerReasons

\* Every step leads to a state.
LEMMA TargetType ==
  ASSUME NEW a \in Steps
  PROVE  Target(a) \in SessionStates
  BY DEF Actions, SessionStates, Target, Steps

\* A patched row is a row: its state is the old one or an outside state, and
\* its kiosk is the old one or the one in the patch.
LEMMA UpdatedType ==
  ASSUME NEW row \in SessionRows, NEW patch \in Patches
  PROVE  LET want == Updated(row, patch) IN
         /\ want \in SessionRows
         /\ want.state = row.state \/ want.state \in OutsideStates
         /\ IF "device" \in DOMAIN patch THEN want.device = patch["device"]
                                         ELSE want.device = row.device
  <1>1. /\ "state" \in DOMAIN patch => patch["state"] \in SessionStates
        /\ "device" \in DOMAIN patch => patch["device"] \in Devices \cup {Null}
        /\ "frame" \in DOMAIN patch => patch["frame"] \in Frames \cup {Null}
        /\ "activation" \in DOMAIN patch => patch["activation"] \in {"qr", "voucher", Null}
    BY PatchesAssumption
  <1>2. "state" \in DOMAIN patch => patch["state"] \in OutsideStates
    BY DEF OutsideStates
  <1> QED BY <1>1, <1>2 DEF Updated, SessionRows

\* A merged row is a row, and each of its columns is the wanted one if that
\* differs from the loaded one, else the current one.
LEMMA MergedType ==
  ASSUME NEW seen \in SessionRows, NEW want \in SessionRows, NEW row \in SessionRows
  PROVE  LET m == Merged(seen, want, row) IN
         /\ m \in SessionRows
         /\ m.state = IF want.state # seen.state THEN want.state ELSE row.state
         /\ m.device = IF want.device # seen.device THEN want.device ELSE row.device
  BY DEF Merged, SessionRows

(***************************************************************************)
(* A load keeps the invariant if what it plans agrees with its log entry.  *)
(***************************************************************************)
LEMMA LoadKeeps ==
  ASSUME IInv, NEW h \in Handlers, NEW s \in SessionIds, NEW want \in SessionRows,
         NEW entry \in {<<>>} \cup {<<e>> : e \in SessionDeviceLogs},
         Load(h, s, want, entry),
         Planned(s, sessions[s], want, entry),
         sessions[s] = Null => Fresh(s),
         sessions[s] # Null => sessions[s] \in SessionRows
  PROVE  IInv'
  <1> DEFINE q == [pc |-> "write", session |-> s, seen |-> sessions[s], want |-> want,
                   entry |-> entry]
  <1>1. /\ req' = [req EXCEPT ![h] = q] /\ requests' = requests + 1
        /\ requests < MaxRequests /\ req[h].pc = "idle"
        /\ sessions' = sessions /\ logs' = logs
    BY DEF Load
  <1>2. q \in Loaded
    BY DEF Loaded
  <1>3. TypeOK'
    BY <1>1, <1>2, BoundAssumption DEF IInv, TypeOK
  <1>4. LogExplainsRow' /\ LogFollowsLifecycle' /\ RowsLogged'
    BY <1>1 DEF IInv, LogExplainsRow, LogFollowsLifecycle, RowsLogged, StateExplained,
       DeviceExplained, LastEntry
  <1>5. \A g \in Handlers : g # h => req'[g] = req[g]
    BY <1>1 DEF IInv, TypeOK
  <1>6. req'[h] = q
    BY <1>1 DEF IInv, TypeOK
  <1>7. HandlersPlanned'
    <2> SUFFICES ASSUME NEW g \in Handlers, req'[g].pc = "write"
                 PROVE  /\ Planned(req[g].session, req[g].seen, req[g].want, req[g].entry)'
                        /\ req'[g].seen = Null =>
                             \A k \in Handlers \ {g} : req'[k].session # req'[g].session
      BY DEF HandlersPlanned
    <2>1. CASE g = h
      <3>1. Planned(req[g].session, req[g].seen, req[g].want, req[g].entry)'
        BY <1>1, <1>6, <2>1 DEF Planned, ActionGrounded
      <3>2. sessions[s] = Null => \A k \in Handlers \ {g} : req'[k].session # s
        BY <1>5, <2>1 DEF Fresh
      <3> QED BY <1>6, <2>1, <3>1, <3>2
    <2>2. CASE g # h
      <3>0. req'[g] = req[g]
        BY <1>5, <2>2
      <3>1. /\ Planned(req[g].session, req[g].seen, req[g].want, req[g].entry)
            /\ req[g].seen = Null => \A k \in Handlers \ {g} : req[k].session # req[g].session
        BY <3>0 DEF IInv, HandlersPlanned
      <3>2. req[g].seen = Null => s # req[g].session
        BY <3>1 DEF Planned, Fresh
      <3>3. Planned(req[g].session, req[g].seen, req[g].want, req[g].entry)'
        BY <1>1, <3>0, <3>1 DEF Planned, ActionGrounded
      <3>4. req'[g].seen = Null => \A k \in Handlers \ {g} : req'[k].session # req'[g].session
        BY <1>5, <1>6, <3>0, <3>1, <3>2
      <3> QED BY <3>3, <3>4
    <2> QED BY <2>1, <2>2
  <1> QED BY <1>3, <1>4, <1>7 DEF IInv

\* The row of an existing session is a row, and its state is an outside one or
\* has been logged.
LEMMA RowFacts ==
  ASSUME IInv, NEW s \in SessionIds, sessions[s] # Null
  PROVE  /\ sessions[s] \in SessionRows
         /\ sessions[s].state \in OutsideStates
            \/ \E j \in DOMAIN logs[s] :
                 logs[s][j].reason \in Steps /\ Target(logs[s][j].reason) = sessions[s].state
  BY DEF IInv, TypeOK, LogExplainsRow, StateExplained, LastEntry

LEMMA CreateKeeps ==
  ASSUME IInv, NEW h \in Handlers, NEW s \in SessionIds, NEW d \in Devices,
         NEW f \in Frames \cup {Null}, CreateSession(h, s, d, f)
  PROVE  IInv'
  <1> DEFINE want == [state |-> "started", device |-> d, frame |-> f, activation |-> Null]
             entry == Entry("created", d, f)
  <1>1. Fresh(s) /\ sessions[s] = Null /\ Load(h, s, want, entry)
    BY DEF CreateSession, Fresh
  <1>2. want \in SessionRows
    BY DEF SessionRows, SessionStates
  <1>3. /\ entry \in {<<e>> : e \in SessionDeviceLogs} /\ entry # <<>>
        /\ entry[1].reason = "created" /\ entry[1].device = d
    BY DEF Entry, SessionDeviceLogs, Steps
  <1>4. Planned(s, sessions[s], want, entry)
    <2>1. StatePlanned(sessions[s], want, entry)
      BY <1>1, <1>3 DEF StatePlanned, Logs, Steps, Target
    <2>2. DevicePlanned(sessions[s], want, entry)
      BY <1>1, <1>3 DEF DevicePlanned, Logs, OwnerReasons
    <2>3. ActionGrounded(s, entry)
      BY <1>3 DEF ActionGrounded, Logs, Actions
    <2> QED BY <1>1, <1>3, <2>1, <2>2, <2>3 DEF Planned
  <1> QED BY <1>1, <1>2, <1>3, <1>4, LoadKeeps

LEMMA StepKeeps ==
  ASSUME IInv, NEW h \in Handlers, NEW s \in SessionIds, NEW a \in DOMAIN Actions,
         Step(h, s, a)
  PROVE  IInv'
  <1> DEFINE row == sessions[s]
             want == [row EXCEPT !.state = Actions[a].to]
             entry == Entry(a, row.device, row.frame)
  <1>1. row # Null /\ row.state = Actions[a].from /\ Load(h, s, want, entry)
    BY DEF Step
  <1>2. row \in SessionRows
    BY <1>1, RowFacts
  <1>3. want \in SessionRows /\ want.state = Actions[a].to /\ want.device = row.device
    BY <1>2, ActionStates DEF SessionRows
  <1>4. /\ entry \in {<<e>> : e \in SessionDeviceLogs} /\ entry # <<>>
        /\ entry[1].reason = a
    BY <1>2, ActionStates DEF Entry, SessionDeviceLogs, SessionRows
  <1>5. Planned(s, row, want, entry)
    <2>1. StatePlanned(row, want, entry)
      BY <1>1, <1>3, <1>4, ActionStates DEF StatePlanned, Logs
    <2>2. DevicePlanned(row, want, entry)
      BY <1>1, <1>3, <1>4, ActionStates DEF DevicePlanned, Logs
    <2>3. ActionGrounded(s, entry)
      BY <1>1, <1>4, RowFacts DEF ActionGrounded, Logs
    <2> QED BY <1>1, <2>1, <2>2, <2>3 DEF Planned
  <1> QED BY <1>1, <1>2, <1>3, <1>4, <1>5, LoadKeeps

LEMMA CancelKeeps ==
  ASSUME IInv, NEW h \in Handlers, NEW s \in SessionIds, CancelSession(h, s)
  PROVE  IInv'
  <1> DEFINE row == sessions[s]
             want == [row EXCEPT !.state = "cancelled"]
             entry == Entry("cancelled", row.device, row.frame)
  <1>1. row # Null /\ row.state \in CANCELLABLE /\ Load(h, s, want, entry)
    BY DEF CancelSession
  <1>2. row \in SessionRows
    BY <1>1, RowFacts
  <1>3. want \in SessionRows /\ want.state = "cancelled" /\ want.device = row.device
    BY <1>2 DEF SessionRows, SessionStates
  <1>4. /\ entry \in {<<e>> : e \in SessionDeviceLogs} /\ entry # <<>>
        /\ entry[1].reason = "cancelled"
    BY <1>2 DEF Entry, SessionDeviceLogs, SessionRows, Steps
  <1>5. Planned(s, row, want, entry)
    <2>1. StatePlanned(row, want, entry)
      BY <1>1, <1>3, <1>4 DEF StatePlanned, Logs, Steps, Target, CANCELLABLE
    <2>2. DevicePlanned(row, want, entry)
      BY <1>1, <1>3, <1>4 DEF DevicePlanned, Logs, OwnerReasons
    <2>3. ActionGrounded(s, entry)
      BY <1>4 DEF ActionGrounded, Logs, Actions
    <2> QED BY <1>1, <2>1, <2>2, <2>3 DEF Planned
  <1> QED BY <1>1, <1>2, <1>3, <1>4, <1>5, LoadKeeps

LEMMA PaymentKeeps ==
  ASSUME IInv, NEW h \in Handlers, NEW s \in SessionIds, NEW mode \in {"qr", "voucher"},
         UpdateSessionPayment(h, s, mode)
  PROVE  IInv'
  <1> DEFINE row == sessions[s]
             want == [row EXCEPT !.activation = mode]
  <1>1. row # Null /\ Load(h, s, want, <<>>)
    BY DEF UpdateSessionPayment
  <1>2. row \in SessionRows
    BY <1>1, RowFacts
  <1>3. want \in SessionRows /\ want.state = row.state /\ want.device = row.device
    BY <1>2 DEF SessionRows
  <1>4. Planned(s, row, want, <<>>)
    BY <1>1, <1>3 DEF Planned, StatePlanned, DevicePlanned, ActionGrounded, Logs
  <1> QED BY <1>1, <1>2, <1>3, <1>4, LoadKeeps

LEMMA UpdateKeeps ==
  ASSUME IInv, NEW h \in Handlers, NEW s \in SessionIds, NEW patch \in Patches,
         UpdateSession(h, s, patch)
  PROVE  IInv'
  <1> DEFINE row == sessions[s]
             want == Updated(row, patch)
             swap == "device" \in DOMAIN patch /\ patch["device"] # Null
                     /\ patch["device"] # row.device
             entry == IF swap THEN Entry("device_swap", want.device, want.frame) ELSE <<>>
  <1>1. row # Null /\ Load(h, s, want, entry)
    BY DEF UpdateSession
  <1>2. row \in SessionRows
    BY <1>1, RowFacts
  <1>3. /\ want \in SessionRows
        /\ want.state = row.state \/ want.state \in OutsideStates
        /\ IF "device" \in DOMAIN patch THEN want.device = patch["device"]
                                        ELSE want.device = row.device
    BY <1>2, UpdatedType
  <1>4. CASE swap
    <2>1. /\ entry \in {<<e>> : e \in SessionDeviceLogs} /\ entry # <<>>
          /\ entry[1].reason = "device_swap" /\ entry[1].device = want.device
      BY <1>3, <1>4 DEF Entry, SessionDeviceLogs, SessionRows
    <2>2. Planned(s, row, want, entry)
      <3>1. StatePlanned(row, want, entry)
        BY <1>1, <1>3, <2>1 DEF StatePlanned, Logs, Steps, Actions
      <3>2. DevicePlanned(row, want, entry)
        BY <1>1, <1>3, <1>4, <2>1 DEF DevicePlanned, Logs, OwnerReasons
      <3>3. ActionGrounded(s, entry)
        BY <2>1 DEF ActionGrounded, Logs, Actions
      <3> QED BY <1>1, <3>1, <3>2, <3>3 DEF Planned
    <2> QED BY <1>1, <1>2, <1>3, <2>1, <2>2, LoadKeeps
  <1>5. CASE ~swap
    <2>1. entry = <<>>
      BY <1>5
    <2>2. want.device \in {Null, row.device}
      BY <1>3, <1>5
    <2>3. Planned(s, row, want, entry)
      BY <1>1, <1>3, <2>1, <2>2 DEF Planned, StatePlanned, DevicePlanned, ActionGrounded, Logs
    <2> QED BY <1>1, <1>2, <1>3, <2>1, <2>3, LoadKeeps
  <1> QED BY <1>4, <1>5

LEMMA UpsertKeeps ==
  ASSUME IInv, NEW h \in Handlers, NEW s \in SessionIds, NEW d \in LiveDevices,
         NEW push \in Pushes, UpsertSession(h, s, d, push)
  PROVE  IInv'
  <1> DEFINE row == sessions[s]
             want == [state |-> push.state, device |-> d, frame |-> push.frame,
                      activation |-> push.activation]
             entry == Entry("synced", d, push.frame)
  <1>1. /\ Fresh(s) \/ (row # Null /\ row.device = d)
        /\ Load(h, s, want, entry)
    BY DEF UpsertSession
  <1>2. /\ push.state \in SessionStates /\ push.frame \in Frames \cup {Null}
        /\ push.activation \in {"qr", "voucher", Null} /\ d \in Devices
        /\ push.state \in OutsideStates
    BY PushesAssumption, DevicesAssumption DEF OutsideStates
  <1>3. want \in SessionRows
    BY <1>2 DEF SessionRows
  <1>4. /\ entry \in {<<e>> : e \in SessionDeviceLogs} /\ entry # <<>>
        /\ entry[1].reason = "synced" /\ entry[1].device = d
    BY <1>2 DEF Entry, SessionDeviceLogs
  <1>5. Planned(s, row, want, entry)
    <2>1. StatePlanned(row, want, entry)
      BY <1>2, <1>4 DEF StatePlanned, Logs, Steps, Actions
    <2>2. DevicePlanned(row, want, entry)
      BY <1>1, <1>4 DEF DevicePlanned, Logs, OwnerReasons, Fresh
    <2>3. ActionGrounded(s, entry)
      BY <1>4 DEF ActionGrounded, Logs, Actions
    <2> QED BY <1>4, <2>1, <2>2, <2>3 DEF Planned
  <1>6. row = Null => Fresh(s)
    BY <1>1
  <1>7. row # Null => row \in SessionRows
    BY RowFacts
  <1> QED BY <1>1, <1>3, <1>4, <1>5, <1>6, <1>7, LoadKeeps

(***************************************************************************)
(* A write keeps the invariant.                                            *)
(***************************************************************************)

\* What is in a log after an entry was appended to it.
LEMMA Appended ==
  ASSUME NEW log \in Seq(SessionDeviceLogs),
         NEW entry \in {<<>>} \cup {<<e>> : e \in SessionDeviceLogs}
  PROVE  /\ log \o entry \in Seq(SessionDeviceLogs)
         /\ DOMAIN log = 1 .. Len(log) /\ Len(log) \in Nat
         /\ \A i \in DOMAIN log : i \in DOMAIN (log \o entry) /\ (log \o entry)[i] = log[i]
         /\ entry = <<>> => log \o entry = log
         /\ entry # <<>> => /\ entry[1] \in SessionDeviceLogs
                           /\ DOMAIN (log \o entry) = 1 .. (Len(log) + 1)
                           /\ (log \o entry)[Len(log) + 1] = entry[1]
                           /\ log \o entry # <<>>
  <1>1. CASE entry = <<>>
    BY <1>1
  <1>2. CASE entry # <<>>
    <2>1. PICK e \in SessionDeviceLogs : entry = <<e>>
      BY <1>2
    <2> QED BY <2>1
  <1> QED BY <1>1, <1>2

\* The last entry with one of some reasons stays the last one when nothing of
\* that kind is appended.
LEMMA AppendedLast ==
  ASSUME NEW s \in SessionIds, NEW reasons, logs[s] \in Seq(SessionDeviceLogs),
         NEW entry \in {<<>>} \cup {<<e>> : e \in SessionDeviceLogs},
         logs'[s] = logs[s] \o entry, ~Logs(entry, reasons)
  PROVE  /\ \A i \in DOMAIN logs[s] : LastEntry(s, i, reasons) =>
              LastEntry(s, i, reasons)' /\ logs'[s][i] = logs[s][i]
         /\ (\A j \in DOMAIN logs[s] : logs[s][j].reason \notin reasons) =>
              \A j \in DOMAIN logs'[s] : logs'[s][j].reason \notin reasons
  <1> DEFINE n == Len(logs[s])
  <1>1. /\ n \in Nat /\ DOMAIN logs[s] = 1 .. n
        /\ \A i \in DOMAIN logs[s] : i \in DOMAIN logs'[s] /\ logs'[s][i] = logs[s][i]
        /\ entry = <<>> => logs'[s] = logs[s]
        /\ entry # <<>> => DOMAIN logs'[s] = 1 .. (n + 1) /\ logs'[s][n + 1] = entry[1]
    BY Appended
  <1>2. CASE entry = <<>>
    BY <1>1, <1>2 DEF LastEntry
  <1>3. CASE entry # <<>>
    <2>1. \A j \in DOMAIN logs'[s] :
            \/ logs'[s][j].reason \notin reasons
            \/ j \in DOMAIN logs[s] /\ logs'[s][j] = logs[s][j]
      <3>1. entry[1].reason \notin reasons
        BY <1>3 DEF Logs
      <3>2. \A j \in 1 .. (n + 1) : j = n + 1 \/ j \in 1 .. n
        BY <1>1
      <3> QED BY <1>1, <1>3, <3>1, <3>2
    <2>2. ASSUME NEW i \in DOMAIN logs[s], LastEntry(s, i, reasons)
          PROVE  LastEntry(s, i, reasons)' /\ logs'[s][i] = logs[s][i]
      BY <1>1, <2>1, <2>2 DEF LastEntry
    <2> QED BY <2>1, <2>2
  <1> QED BY <1>2, <1>3

\* The fields of a request are given names of their own: they stand for the
\* values before the step in formulas about the state after it.
LEMMA WriteOfKeeps ==
  ASSUME IInv, NEW h \in Handlers, Write(h),
         NEW s, s = req[h].session, NEW seen, seen = req[h].seen,
         NEW want, want = req[h].want, NEW entry, entry = req[h].entry,
         NEW n, n = Len(logs[s])
  PROVE  IInv'
  <1>1. /\ s \in SessionIds /\ seen \in SessionRows \cup {Null} /\ want \in SessionRows
        /\ entry \in {<<>>} \cup {<<e>> : e \in SessionDeviceLogs}
        /\ req[h].pc = "write" /\ logs[s] \in Seq(SessionDeviceLogs)
        /\ sessions[s] \in SessionRows \cup {Null}
    BY DEF Write, IInv, TypeOK, Loaded, Idle
  <1>2. /\ Planned(s, seen, want, entry)
        /\ seen = Null => \A g \in Handlers \ {h} : req[g].session # s
    BY <1>1 DEF IInv, HandlersPlanned
  <1>3. /\ sessions' = [sessions EXCEPT ![s] = IF seen = Null THEN want
                                               ELSE Merged(seen, want, sessions[s])]
        /\ logs' = [logs EXCEPT ![s] = @ \o entry]
        /\ req' = [req EXCEPT ![h] = Idle]
        /\ requests' = requests
    BY DEF Write
  <1>4. /\ \A t \in SessionIds : t # s => sessions'[t] = sessions[t] /\ logs'[t] = logs[t]
        /\ logs'[s] = logs[s] \o entry
        /\ sessions'[s] = IF seen = Null THEN want ELSE Merged(seen, want, sessions[s])
        /\ req'[h] = Idle
        /\ \A g \in Handlers : g # h => req'[g] = req[g]
    BY <1>1, <1>3 DEF IInv, TypeOK
  <1>5. /\ n \in Nat /\ DOMAIN logs[s] = 1 .. n /\ logs'[s] \in Seq(SessionDeviceLogs)
        /\ \A i \in DOMAIN logs[s] : i \in DOMAIN logs'[s] /\ logs'[s][i] = logs[s][i]
        /\ entry = <<>> => logs'[s] = logs[s]
        /\ entry # <<>> => /\ DOMAIN logs'[s] = 1 .. (n + 1) /\ logs'[s][n + 1] = entry[1]
                          /\ logs'[s] # <<>>
    <2>1. /\ logs[s] \o entry \in Seq(SessionDeviceLogs)
          /\ DOMAIN logs[s] = 1 .. n /\ n \in Nat
          /\ \A i \in DOMAIN logs[s] : /\ i \in DOMAIN (logs[s] \o entry)
                                      /\ (logs[s] \o entry)[i] = logs[s][i]
          /\ entry = <<>> => logs[s] \o entry = logs[s]
          /\ entry # <<>> => /\ DOMAIN (logs[s] \o entry) = 1 .. (n + 1)
                            /\ (logs[s] \o entry)[n + 1] = entry[1]
                            /\ logs[s] \o entry # <<>>
      BY <1>1, Appended
    <2> QED BY <1>4, <2>1
  <1>6. /\ sessions'[s] \in SessionRows /\ sessions'[s] # Null
        /\ seen = Null => sessions'[s] = want
        /\ seen # Null =>
             /\ sessions[s] # Null
             /\ sessions'[s].state = IF want.state # seen.state THEN want.state
                                                               ELSE sessions[s].state
             /\ sessions'[s].device = IF want.device # seen.device THEN want.device
                                                                  ELSE sessions[s].device
    <2>1. seen # Null => sessions[s] # Null
      BY <1>2 DEF Planned
    <2> QED BY <1>1, <1>4, <2>1, MergedType, NullAssumption
  <1>7. TypeOK'
    <2>1. sessions' \in [SessionIds -> SessionRows \cup {Null}]
      BY <1>3, <1>4, <1>6 DEF IInv, TypeOK
    <2>2. logs' \in [SessionIds -> Seq(SessionDeviceLogs)]
      BY <1>3, <1>4, <1>5 DEF IInv, TypeOK
    <2>3. req' \in [Handlers -> Loaded \cup {Idle}]
      BY <1>3 DEF IInv, TypeOK
    <2> QED BY <1>3, <2>1, <2>2, <2>3 DEF IInv, TypeOK
  <1>8. LogExplainsRow'
    <2> SUFFICES ASSUME NEW t \in SessionIds, sessions'[t] # Null
                 PROVE  StateExplained(t)' /\ DeviceExplained(t)'
      BY DEF LogExplainsRow
    <2>1. CASE t # s
      BY <1>4, <2>1 DEF IInv, LogExplainsRow, StateExplained, DeviceExplained, LastEntry
    <2>2. CASE t = s
      <3>1. seen # Null => StateExplained(s) /\ DeviceExplained(s)
        BY <1>1, <1>6 DEF IInv, LogExplainsRow
      <3>2. StateExplained(s)'
        <4>1. CASE Logs(entry, Steps)
          <5>1. sessions'[s].state = Target(entry[1].reason)
            BY <1>2, <1>6, <4>1 DEF Planned, StatePlanned
          <5>2. LastEntry(s, n + 1, Steps)' /\ logs'[s][n + 1] = entry[1]
            <6>1. /\ DOMAIN logs'[s] = 1 .. (n + 1) /\ logs'[s][n + 1] = entry[1]
                  /\ n + 1 \in 1 .. (n + 1) /\ \A j \in 1 .. (n + 1) : ~(j > n + 1)
              BY <1>5, <4>1 DEF Logs
            <6> QED BY <4>1, <6>1 DEF LastEntry, Logs
          <5> QED BY <5>1, <5>2 DEF StateExplained, LastEntry
        <4>2. CASE ~Logs(entry, Steps) /\ want.state \in OutsideStates
                   /\ (seen = Null \/ want.state # seen.state)
          BY <1>6, <4>2 DEF StateExplained
        <4>3. CASE ~Logs(entry, Steps) /\ seen # Null /\ want.state = seen.state
          <5>1. sessions'[s].state = sessions[s].state
            BY <1>6, <4>3
          <5>2. \A i \in DOMAIN logs[s] : LastEntry(s, i, Steps) =>
                  LastEntry(s, i, Steps)' /\ logs'[s][i] = logs[s][i]
            BY <1>1, <1>4, <4>3, AppendedLast
          <5> QED BY <1>5, <3>1, <4>3, <5>1, <5>2 DEF StateExplained
        <4> QED BY <1>2, <4>1, <4>2, <4>3 DEF Planned, StatePlanned
      <3>3. DeviceExplained(s)'
        <4>1. CASE Logs(entry, OwnerReasons)
          <5>1. sessions'[s].device = entry[1].device
            BY <1>2, <1>6, <4>1 DEF Planned, DevicePlanned
          <5>2. LastEntry(s, n + 1, OwnerReasons)' /\ logs'[s][n + 1] = entry[1]
            <6>1. /\ DOMAIN logs'[s] = 1 .. (n + 1) /\ logs'[s][n + 1] = entry[1]
                  /\ n + 1 \in 1 .. (n + 1) /\ \A j \in 1 .. (n + 1) : ~(j > n + 1)
              BY <1>5, <4>1 DEF Logs
            <6> QED BY <4>1, <6>1 DEF LastEntry, Logs
          <5> QED BY <5>1, <5>2 DEF DeviceExplained, LastEntry
        <4>2. CASE ~Logs(entry, OwnerReasons)
          <5>0. /\ \A i \in DOMAIN logs[s] : LastEntry(s, i, OwnerReasons) =>
                     LastEntry(s, i, OwnerReasons)' /\ logs'[s][i] = logs[s][i]
                /\ (\A j \in DOMAIN logs[s] : logs[s][j].reason \notin OwnerReasons) =>
                     \A j \in DOMAIN logs'[s] : logs'[s][j].reason \notin OwnerReasons
            BY <1>1, <1>4, <4>2, AppendedLast
          <5>1. CASE seen = Null
            <6>1. logs[s] = <<>> /\ entry # <<>>
              BY <1>1, <1>2, <5>1 DEF Planned, IInv, RowsLogged
            <6>2. n = 0 /\ DOMAIN logs[s] = {}
              BY <6>1
            <6>3. logs'[s][1] = entry[1] /\ sessions'[s].device = entry[1].device
              BY <1>2, <1>5, <1>6, <4>2, <5>1, <6>1, <6>2 DEF Planned, DevicePlanned
            <6> QED BY <5>0, <6>2, <6>3 DEF DeviceExplained
          <5>2. CASE seen # Null
            <6>1. sessions'[s].device \in {Null, sessions[s].device}
              BY <1>2, <1>6, <4>2, <5>2 DEF Planned, DevicePlanned
            <6>2. logs[s] # <<>>
              BY <1>1, <1>6, <5>2 DEF IInv, RowsLogged
            <6>3. 1 \in DOMAIN logs[s]
              BY <1>1, <1>5, <6>2
            <6>4. logs'[s][1] = logs[s][1]
              BY <1>5, <6>3
            <6> QED BY <1>5, <3>1, <5>0, <5>2, <6>1, <6>4 DEF DeviceExplained
          <5> QED BY <5>1, <5>2
        <4> QED BY <4>1, <4>2
      <3> QED BY <2>2, <3>2, <3>3
    <2> QED BY <2>1, <2>2
  <1>9. LogFollowsLifecycle'
    <2> SUFFICES ASSUME NEW t \in SessionIds, NEW i \in DOMAIN logs'[t],
                        logs'[t][i].reason \in DOMAIN Actions,
                        Actions[logs'[t][i].reason].from \notin OutsideStates
                 PROVE  \E j \in 1 .. (i - 1) :
                          /\ logs'[t][j].reason \in Steps
                          /\ Target(logs'[t][j].reason) = Actions[logs'[t][i].reason].from
      BY DEF LogFollowsLifecycle, OutsideStates
    <2>1. CASE t # s
      BY <1>4, <2>1 DEF IInv, LogFollowsLifecycle
    <2>2. CASE t = s /\ i \in DOMAIN logs[s]
      <3>1. PICK j \in 1 .. (i - 1) :
              /\ logs[s][j].reason \in Steps
              /\ Target(logs[s][j].reason) = Actions[logs[s][i].reason].from
        BY <1>1, <1>5, <2>2 DEF IInv, LogFollowsLifecycle
      <3>2. j \in DOMAIN logs[s]
        BY <1>5, <2>2, <3>1
      <3> QED BY <1>5, <2>2, <3>1, <3>2
    <2>3. CASE t = s /\ i \notin DOMAIN logs[s]
      <3>1. entry # <<>> /\ i = n + 1 /\ logs'[s][i] = entry[1]
        BY <1>5, <2>3
      <3>2. PICK j \in DOMAIN logs[s] :
              /\ logs[s][j].reason \in Steps
              /\ Target(logs[s][j].reason) = Actions[entry[1].reason].from
        BY <1>2, <2>3, <3>1 DEF Planned, ActionGrounded, Logs
      <3>3. j \in 1 .. (i - 1)
        BY <1>5, <3>1, <3>2
      <3> QED BY <1>5, <2>3, <3>1, <3>2, <3>3
    <2> QED BY <2>1, <2>2, <2>3
  <1>10. RowsLogged'
    <2>1. logs'[s] # <<>>
      <3>1. CASE seen = Null
        BY <1>2, <1>5, <3>1 DEF Planned
      <3>2. CASE seen # Null
        BY <1>1, <1>5, <1>6, <3>2 DEF IInv, RowsLogged
      <3> QED BY <3>1, <3>2
    <2> QED BY <1>4, <1>6, <2>1 DEF IInv, RowsLogged
  <1>11. HandlersPlanned'
    <2> SUFFICES ASSUME NEW g \in Handlers, req'[g].pc = "write"
                 PROVE  /\ Planned(req[g].session, req[g].seen, req[g].want, req[g].entry)'
                        /\ req'[g].seen = Null =>
                             \A k \in Handlers \ {g} : req'[k].session # req'[g].session
      BY DEF HandlersPlanned
    <2>1. g # h /\ req'[g] = req[g]
      BY <1>4 DEF Idle
    <2>2. /\ Planned(req[g].session, req[g].seen, req[g].want, req[g].entry)
          /\ req[g].seen = Null => \A k \in Handlers \ {g} : req[k].session # req[g].session
          /\ req[g].session \in SessionIds
      BY <2>1 DEF IInv, HandlersPlanned, TypeOK, Loaded, Idle
    <2>3. req[g].seen = Null <=> sessions'[req[g].session] = Null
      BY <1>4, <1>6, <2>1, <2>2 DEF Planned
    <2>4. ActionGrounded(req[g].session, req[g].entry)'
      <3>1. ActionGrounded(req[g].session, req[g].entry)
        BY <2>2 DEF Planned
      <3>2. \A j \in DOMAIN logs[req[g].session] :
              /\ j \in DOMAIN logs'[req[g].session]
              /\ logs'[req[g].session][j] = logs[req[g].session][j]
        BY <1>4, <1>5, <2>2
      <3> QED BY <2>1, <3>1, <3>2 DEF ActionGrounded
    <2>5. Planned(req[g].session, req[g].seen, req[g].want, req[g].entry)'
      BY <2>1, <2>2, <2>3, <2>4 DEF Planned
    <2>6. req'[g].seen = Null => \A k \in Handlers \ {g} : req'[k].session # req'[g].session
      BY <1>4, <2>1, <2>2, NullAssumption DEF Idle
    <2> QED BY <2>5, <2>6
  <1> QED BY <1>7, <1>8, <1>9, <1>10, <1>11 DEF IInv

LEMMA WriteKeeps ==
  ASSUME IInv, NEW h \in Handlers, Write(h)
  PROVE  IInv'
  <1>1. PICK s, seen, want, entry : /\ s = req[h].session /\ seen = req[h].seen
                                    /\ want = req[h].want /\ entry = req[h].entry
    OBVIOUS
  <1>2. PICK n : n = Len(logs[s])
    OBVIOUS
  <1> QED BY <1>1, <1>2, WriteOfKeeps

\* A handler that gives up leaves everything as it was.
LEMMA AbortKeeps ==
  ASSUME IInv, NEW h \in Handlers, Abort(h)
  PROVE  IInv'
  <1>1. /\ req' = [req EXCEPT ![h] = Idle]
        /\ sessions' = sessions /\ logs' = logs /\ requests' = requests
    BY DEF Abort
  <1>2. TypeOK'
    BY <1>1 DEF IInv, TypeOK
  <1>3. LogExplainsRow' /\ LogFollowsLifecycle' /\ RowsLogged'
    BY <1>1 DEF IInv, LogExplainsRow, LogFollowsLifecycle, RowsLogged, StateExplained,
       DeviceExplained, LastEntry
  <1>4. req'[h] = Idle /\ \A g \in Handlers : g # h => req'[g] = req[g]
    BY <1>1 DEF IInv, TypeOK
  <1>5. HandlersPlanned'
    <2> SUFFICES ASSUME NEW g \in Handlers, req'[g].pc = "write"
                 PROVE  /\ Planned(req[g].session, req[g].seen, req[g].want, req[g].entry)'
                        /\ req'[g].seen = Null =>
                             \A k \in Handlers \ {g} : req'[k].session # req'[g].session
      BY DEF HandlersPlanned
    <2>1. g # h /\ req'[g] = req[g]
      BY <1>4 DEF Idle
    <2>2. /\ Planned(req[g].session, req[g].seen, req[g].want, req[g].entry)
          /\ req[g].seen = Null => \A k \in Handlers \ {g} : req[k].session # req[g].session
          /\ req[g].session \in SessionIds
      BY <2>1 DEF IInv, HandlersPlanned, TypeOK, Loaded, Idle
    <2>3. Planned(req[g].session, req[g].seen, req[g].want, req[g].entry)'
      BY <1>1, <2>1, <2>2 DEF Planned, ActionGrounded
    <2>4. req'[g].seen = Null => \A k \in Handlers \ {g} : req'[k].session # req'[g].session
      BY <1>4, <2>1, <2>2, NullAssumption DEF Idle
    <2> QED BY <2>3, <2>4
  <1> QED BY <1>2, <1>3, <1>5 DEF IInv

(***************************************************************************)
(* Theorems.                                                               *)
(***************************************************************************)

\* The inductive invariant holds in every reachable state.
THEOREM LifecycleInductive == Spec => []IInv
  <1>1. Init => IInv
    BY BoundAssumption DEF Init, Idle, IInv, TypeOK, LogExplainsRow, LogFollowsLifecycle,
       RowsLogged, HandlersPlanned
  <1>2. IInv /\ [Next]_vars => IInv'
    <2> SUFFICES ASSUME IInv, [Next]_vars
                 PROVE  IInv'
      OBVIOUS
    <2>1. CASE Next
      BY <2>1, CreateKeeps, StepKeeps, CancelKeeps, PaymentKeeps, UpdateKeeps, UpsertKeeps,
         WriteKeeps, AbortKeeps DEF Next
    <2>2. CASE UNCHANGED vars
      BY <2>2 DEF vars, IInv, TypeOK, LogExplainsRow, LogFollowsLifecycle, RowsLogged,
         HandlersPlanned, Planned, ActionGrounded, StateExplained, DeviceExplained, LastEntry
    <2> QED BY <2>1, <2>2
  <1> QED BY <1>1, <1>2, PTL DEF Spec

\* All rows, logs and handlers are well typed.
THEOREM LifecycleTypeCorrect == Spec => []TypeOK
  <1>1. IInv => TypeOK
    BY DEF IInv
  <1> QED BY <1>1, LifecycleInductive, PTL

\* The newest entries of the log explain the state and the kiosk of a session.
THEOREM LogIsCurrent == Spec => []LogExplainsRow
  <1>1. IInv => LogExplainsRow
    BY DEF IInv
  <1> QED BY <1>1, LifecycleInductive, PTL

\* Every action in a log follows a step that led to its source state.
THEOREM LogIsConnected == Spec => []LogFollowsLifecycle
  <1>1. IInv => LogFollowsLifecycle
    BY DEF IInv
  <1> QED BY <1>1, LifecycleInductive, PTL
=============================================================================
