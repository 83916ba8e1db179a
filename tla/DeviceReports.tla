---------------------------- MODULE DeviceReports ----------------------------
(***************************************************************************)
(* What a kiosk reports about itself: PATCH /devices/heartbeat, the device *)
(* block of POST /sync/bulk, POST /plug/camera_and_printer, and the        *)
(* liveness middleware that notes every request of the kiosk on its device *)
(* row (api/device.py, api/plug.py, api/sync.py, lib/device_liveness.py).  *)
(*                                                                         *)
(* A request is handled in two transactions: the endpoint's, and after the *)
(* answer the bookkeeping of the middleware, which loads the device again. *)
(* Each loads rows, keeps them, and writes the columns in which its values *)
(* differ from the loaded ones.  The rows are locked when they are         *)
(* flushed: first the profiles, then the device that refers to them.       *)
(*                                                                         *)
(* One device: no handler here touches the row of another.                 *)
(***************************************************************************)
EXTENDS Naturals

CONSTANTS
  Threads,      \* handler threads
  Calls,        \* the requests that the kiosk may send
  Readings,     \* values of battery, storage_state, printer_health
  Names,        \* descriptions of cameras and printers
  Blank,        \* a name that strip() leaves empty
  MaxRequests,  \* bound on the number of requests
  AdminCameras, \* cameras that the admin panel may have linked, and Null for none
  Null

VARIABLES
  device,       \* the device row
  cameras,      \* camera_profiles
  printers,     \* printer_profiles
  syncLogs,     \* device_sync_logs, by the request that made them
  req,          \* where each handler thread is
  requests,     \* number of requests so far
  crossed,      \* history: two plug reports were handled at the same time
  lost          \* history: the bookkeeping that would end "online" is lost

vars == <<device, cameras, printers, syncLogs, req, requests, crossed, lost>>

\* Requests are numbered, and the number is also the id of the profile that the
\* request inserts and the time it stamps.  0 is for what the admin panel set up,
\* and for the time of the token endpoints.
Ids == 0 .. MaxRequests

DeviceRows == [connectivity: {"disconnect", "connect", "error", "online"},
               health: Readings \cup {Null},
               camera: Ids \cup {Null}, printer: Ids \cup {Null},
               synced: Ids \cup {Null}, deleted: Ids \cup {Null}]

CameraRows == [name: Names, battery: Readings \cup {Null}]

\* Only the endpoint of a bulk push fills the column tables.
Outcomes == {"success", "partial", "failed"}
LogRows == [type: {"push", "pull", Null}, status: Outcomes, tables: BOOLEAN]

\* "get" is any GET but the status trigger ("poll"), "write" any other request
\* of the kiosk.  A call that is not fit is refused before it writes anything.
AllCalls == [op: {"heartbeat", "bulk", "plug", "get", "poll", "write", "token"},
             fit: BOOLEAN,
             battery: Readings \cup {Null}, health: Readings \cup {Null},
             camera: Names \cup {Null, Blank}, printer: Names \cup {Null, Blank}]

\* seen, camera and printer are the rows as the transaction loaded them; todo
\* and held the tables whose row it will lock and has locked.
Tables == {"camera", "printer", "device"}

Handlers == [pc: {"idle", "open", "answered", "noting"},
             call: AllCalls \cup {Null}, n: Ids, ok: BOOLEAN,
             seen: DeviceRows \cup {Null},
             camera: CameraRows \cup {Null}, printer: Names \cup {Null},
             todo: SUBSET Tables, held: SUBSET Tables, alone: BOOLEAN]

Idle == [pc |-> "idle", call |-> Null, n |-> 0, ok |-> FALSE, seen |-> Null,
         camera |-> Null, printer |-> Null, todo |-> {}, held |-> {}, alone |-> FALSE]

ASSUME CallsAssumption == Calls \subseteq AllCalls
ASSUME CamerasAssumption == AdminCameras \subseteq CameraRows \cup {Null}
ASSUME BoundAssumption == MaxRequests \in Nat
ASSUME NullAssumption == /\ Null \notin Ids \cup Readings \cup Names \cup {Blank}
                         /\ Null \notin AllCalls \cup DeviceRows \cup CameraRows
                         /\ Blank \notin Names

Init ==
  /\ \E camera \in AdminCameras :
       /\ device = [connectivity |-> "disconnect", health |-> Null,
                    camera |-> IF camera = Null THEN Null ELSE 0,
                    printer |-> Null, synced |-> Null, deleted |-> Null]
       /\ cameras = [i \in Ids |-> IF i = 0 THEN camera ELSE Null]
  /\ printers = [i \in Ids |-> Null]
  /\ syncLogs = [i \in Ids |-> {}]
  /\ req = [t \in Threads |-> Idle]
  /\ requests = 0
  /\ crossed = FALSE /\ lost = FALSE

-----------------------------------------------------------------------------
(***************************************************************************)
(* What the endpoints refuse and write.                                    *)
(***************************************************************************)
\* A bulk push has a device block or only records; a heartbeat always reports.
Reports(call) ==
  \/ call.op = "heartbeat"
  \/ call.op = "bulk" /\ (call.battery # Null \/ call.health # Null)

\* Mutant: the deleted_at of the device is not looked at.
KnownThoughDeleted(call, seen) == ~call.fit

\* require_request_device_id, and what the schemas refuse before it.
Unknown(call, seen) == ~call.fit \/ (call.op # "token" /\ seen.deleted # Null)

\* A battery is stored with the camera.
CameraMissing(call, seen) == Reports(call) /\ call.battery # Null /\ seen.camera = Null

NothingToPlug(call) ==
  call.op = "plug" /\ \/ call.camera = Null /\ call.printer = Null
                      \/ call.camera = Blank

\* Refused before anything is flushed.
Barred(call, seen) == Unknown(call, seen) \/ CameraMissing(call, seen) \/ NothingToPlug(call)

\* A printer without a name is refused after the camera was flushed.
Refused(call, seen) == Barred(call, seen) \/ (call.op = "plug" /\ call.printer = Blank)

PlugsCamera(call) == call.op = "plug" /\ call.camera # Null
PlugsPrinter(call) == call.op = "plug" /\ call.printer # Null

\* Each column is written when its value differs from the loaded one.
Differs(value, loaded) == value # Null /\ value # loaded

\* Mutant: a battery is stored only where there is none.
FirstBattery(call, loaded, row) ==
  [row EXCEPT
     !.name = IF PlugsCamera(call) /\ Differs(call.camera, loaded.name) THEN call.camera ELSE @,
     !.battery = IF Reports(call) /\ @ = Null THEN call.battery ELSE @]

\* The columns of the linked profiles.
Camera(call, loaded, row) ==
  [row EXCEPT
     !.name = IF PlugsCamera(call) /\ Differs(call.camera, loaded.name) THEN call.camera ELSE @,
     !.battery = IF Reports(call) /\ Differs(call.battery, loaded.battery)
                   THEN call.battery ELSE @]

Printer(call, loaded, row) ==
  IF PlugsPrinter(call) /\ Differs(call.printer, loaded) THEN call.printer ELSE row

\* The columns of the device; a new profile is linked.
Connectivity(call) ==
  IF Reports(call) THEN "online" ELSE IF call.op = "token" THEN "connect" ELSE Null

Device(call, n, seen, row) ==
  [row EXCEPT
     !.connectivity = IF Differs(Connectivity(call), seen.connectivity)
                        THEN Connectivity(call) ELSE @,
     !.health = IF Reports(call) /\ Differs(call.health, seen.health) THEN call.health ELSE @,
     !.synced = IF call.op = "bulk" THEN n ELSE IF call.op = "token" THEN 0 ELSE @,
     !.camera = IF PlugsCamera(call) /\ seen.camera = Null THEN n ELSE @,
     !.printer = IF PlugsPrinter(call) /\ seen.printer = Null THEN n ELSE @]

\* The rows that are locked on the way to the commit or the refusal.
Flushes(call, seen, camera, printer) ==
  IF Barred(call, seen) THEN {}
  ELSE {table \in Tables :
         \/ table = "camera" /\ seen.camera # Null /\ Camera(call, camera, camera) # camera
         \/ ~Refused(call, seen) /\
              \/ table = "printer" /\ seen.printer # Null
                                   /\ Printer(call, printer, printer) # printer
              \/ table = "device" /\ \/ call.op \in {"heartbeat", "bulk", "token"}
                                     \/ PlugsCamera(call) /\ seen.camera = Null
                                     \/ PlugsPrinter(call) /\ seen.printer = Null}

-----------------------------------------------------------------------------
(***************************************************************************)
(* The request and its endpoint.                                           *)
(***************************************************************************)
Active(t) == req[t].pc # "idle"
Open(t) == req[t].pc = "open"

\* The endpoint loads the device of the token and the profiles linked to it.
Begin(t, call) ==
  /\ ~Active(t) /\ requests < MaxRequests
  /\ requests' = requests + 1
  /\ LET camera == IF device.camera = Null THEN Null ELSE cameras[device.camera]
         printer == IF device.printer = Null THEN Null ELSE printers[device.printer]
     IN req' = [u \in Threads |->
          IF u = t
            THEN [Idle EXCEPT !.pc = "open", !.call = call, !.n = requests + 1,
                    !.seen = device, !.camera = camera, !.printer = printer,
                    !.todo = Flushes(call, device, camera, printer),
                    !.alone = \A v \in Threads : ~Active(v)]
            ELSE [req[u] EXCEPT !.alone = FALSE]]
  /\ crossed' = (crossed \/ (call.op = "plug"
                               /\ \E u \in Threads : Open(u) /\ req[u].call.op = "plug"))
  /\ UNCHANGED <<device, cameras, printers, syncLogs, lost>>

\* The row of a table that a transaction works on.
RowId(t, table) ==
  IF table = "camera" THEN req[t].seen.camera
  ELSE IF table = "printer" THEN req[t].seen.printer ELSE 0

\* Mutant: a flush writes its rows in any order.
AnyOrder(table) == {}

\* A flush writes the profiles before the device that refers to them.
Earlier(table) ==
  IF table = "camera" THEN {} ELSE IF table = "printer" THEN {"camera"}
                                                        ELSE {"camera", "printer"}

CanLock(t, table) ==
  /\ table \in req[t].todo /\ Earlier(table) \cap req[t].todo = {}
  /\ \A u \in Threads \ {t} : table \in req[u].held => RowId(u, table) # RowId(t, table)

Lock(t, table) ==
  /\ CanLock(t, table)
  /\ req' = [req EXCEPT ![t].todo = @ \ {table}, ![t].held = @ \cup {table}]
  /\ UNCHANGED <<device, cameras, printers, syncLogs, requests, crossed, lost>>

\* The end of the transaction: its rows are released and forgotten.
Answered(r, ok) == [Idle EXCEPT !.pc = "answered", !.call = r.call, !.n = r.n, !.ok = ok,
                                !.alone = r.alone]

\* Mutant: what was flushed before the refusal is kept.
CommittingRefuse(t) ==
  /\ Open(t) /\ req[t].todo = {}
  /\ Refused(req[t].call, req[t].seen)
  /\ req' = [req EXCEPT ![t] = Answered(@, FALSE)]
  /\ cameras' = [i \in Ids |->
       IF /\ PlugsCamera(req[t].call) /\ ~Barred(req[t].call, req[t].seen)
          /\ req[t].seen.camera = Null /\ i = req[t].n
         THEN [name |-> req[t].call.camera, battery |-> Null] ELSE cameras[i]]
  /\ UNCHANGED <<device, printers, syncLogs, requests, crossed, lost>>

Refuse(t) ==
  /\ Open(t) /\ req[t].todo = {}
  /\ Refused(req[t].call, req[t].seen)
  /\ req' = [req EXCEPT ![t] = Answered(@, FALSE)]
  /\ UNCHANGED <<device, cameras, printers, syncLogs, requests, crossed, lost>>

\* The log row of a bulk push: the outcome depends on its items, which are in
\* BulkSync; a push of the device block alone is a success.
BulkRows == [type: {"pull"}, status: Outcomes, tables: {TRUE}]

\* New profiles, the columns of linked ones, and the device are committed; a
\* bulk push stamps the device and adds its own log row, however its items fared.
\* The token endpoints are public: they have no claims, so the middleware does not
\* note them.
Commit(t) ==
  LET r == req[t]
      call == r.call
  IN
  /\ Open(t) /\ r.todo = {}
  /\ ~Refused(call, r.seen)
  /\ cameras' = [i \in Ids |->
       IF PlugsCamera(call) /\ r.seen.camera = Null /\ i = r.n
         THEN [name |-> call.camera, battery |-> Null]
       ELSE IF r.seen.camera # Null /\ i = r.seen.camera
         THEN Camera(call, r.camera, cameras[i]) ELSE cameras[i]]
  /\ printers' = [i \in Ids |->
       IF PlugsPrinter(call) /\ r.seen.printer = Null /\ i = r.n THEN call.printer
       ELSE IF r.seen.printer # Null /\ i = r.seen.printer
         THEN Printer(call, r.printer, printers[i]) ELSE printers[i]]
  /\ device' = Device(call, r.n, r.seen, device)
  /\ IF call.op = "bulk"
       THEN \E row \in BulkRows : syncLogs' = [syncLogs EXCEPT ![r.n] = @ \cup {row}]
       ELSE UNCHANGED syncLogs
  /\ req' = [req EXCEPT ![t] = IF call.op = "token" THEN Idle
                                                     ELSE Answered(r, TRUE)]
  /\ lost' = (lost /\ device'.connectivity = "online")
  /\ UNCHANGED <<requests, crossed>>

-----------------------------------------------------------------------------
(***************************************************************************)
(* _record_liveness, once the endpoint has answered.                       *)
(***************************************************************************)
\* Mutant: another word for the state.
OddOutcome(r) == IF r.ok THEN "connected" ELSE "error"

Outcome(r) == IF r.ok THEN "connect" ELSE "error"

Delivers(r) == r.ok /\ r.call.op = "get"

\* Mutant: a success that delivers nothing is not noted.
QuietLoadAgain(t) ==
  /\ req[t].pc = "answered"
  /\ req' = [req EXCEPT ![t] =
       IF @.ok /\ ~Delivers(@) THEN Idle
       ELSE [@ EXCEPT !.pc = "noting", !.seen = device,
               !.todo = IF Delivers(req[t]) \/ device.connectivity # Outcome(req[t])
                          THEN {"device"} ELSE {}]]
  /\ UNCHANGED <<device, cameras, printers, syncLogs, requests, crossed, lost>>

\* The device is loaded again.  Its deleted_at is not looked at.
LoadAgain(t) ==
  /\ req[t].pc = "answered"
  /\ req' = [req EXCEPT ![t].pc = "noting", ![t].seen = device,
       ![t].todo = IF Delivers(req[t]) \/ device.connectivity # Outcome(req[t])
                     THEN {"device"} ELSE {}]
  /\ UNCHANGED <<device, cameras, printers, syncLogs, requests, crossed, lost>>

\* Mutant: "online" is left as it is.
StickyNoted(r, row) ==
  [row EXCEPT !.connectivity = IF r.seen.connectivity \in {"disconnect", "error"}
                                 THEN Outcome(r) ELSE @,
              !.synced = IF Delivers(r) THEN r.n ELSE @]

\* Mutant: any success stamps the time of the last sync.
StampingNoted(r, row) ==
  [row EXCEPT !.connectivity = IF Outcome(r) # r.seen.connectivity THEN Outcome(r) ELSE @,
              !.synced = IF r.ok THEN r.n ELSE @]

Noted(r, row) ==
  [row EXCEPT !.connectivity = IF Outcome(r) # r.seen.connectivity THEN Outcome(r) ELSE @,
              !.synced = IF Delivers(r) THEN r.n ELSE @]

\* The row of a GET that was answered, and that of a refusal.
Delivery == [type |-> "push", status |-> "success", tables |-> FALSE]
Refusal(call) ==
  [type |-> IF call.op \in {"get", "poll"} THEN "push" ELSE IF call.op = "bulk" THEN "pull" ELSE Null,
   status |-> "failed", tables |-> FALSE]

\* Mutant: every success is logged as a delivery.
LoggingRows(r) == IF r.ok THEN {Delivery} ELSE {Refusal(r.call)}

\* _log_type, and which requests are logged at all.
NotedRows(r) ==
  IF Delivers(r) THEN {Delivery} ELSE IF r.ok THEN {} ELSE {Refusal(r.call)}

Note(t) ==
  /\ req[t].pc = "noting" /\ req[t].todo = {}
  /\ device' = Noted(req[t], device)
  /\ syncLogs' = [syncLogs EXCEPT ![req[t].n] = @ \cup NotedRows(req[t])]
  /\ req' = [req EXCEPT ![t] = Idle]
  /\ lost' = (lost /\ device'.connectivity = "online")
  /\ UNCHANGED <<cameras, printers, requests, crossed>>

-----------------------------------------------------------------------------
\* The bookkeeping of this thread is to end the "online" it may find.
EndsOnline(t) ==
  \/ req[t].pc = "answered"
  \/ req[t].pc = "noting" /\ req[t].seen.connectivity = "online"

\* An exception that nothing handles, or the end of the process, at any point:
\* what is not committed is rolled back.  An exception of the endpoint passes the
\* middleware by; one of the bookkeeping is swallowed.
Crash(t) ==
  /\ Active(t)
  /\ req' = [req EXCEPT ![t] = Idle]
  /\ lost' = (lost \/ (device.connectivity = "online" /\ EndsOnline(t)))
  /\ UNCHANGED <<device, cameras, printers, syncLogs, requests, crossed>>

\* The admin panel soft-deletes the device.
AdminDeletes ==
  /\ device.deleted = Null
  /\ device' = [device EXCEPT !.deleted = requests]
  /\ UNCHANGED <<cameras, printers, syncLogs, req, requests, crossed, lost>>

-----------------------------------------------------------------------------
Step(t) ==
  \/ \E table \in Tables : Lock(t, table)
  \/ Refuse(t) \/ Commit(t) \/ LoadAgain(t) \/ Note(t)

Next ==
  \/ \E t \in Threads : Step(t) \/ Crash(t) \/ \E call \in Calls : Begin(t, call)
  \/ AdminDeletes

Spec == Init /\ [][Next]_vars

\* A handler thread does not stop between two steps, unless it crashes.
FairSpec == Spec /\ \A t \in Threads : WF_vars(Step(t))

-----------------------------------------------------------------------------
(***************************************************************************)
(* Properties.                                                             *)
(***************************************************************************)
\* Types of all state.
TypeOK ==
  /\ device \in DeviceRows
  /\ cameras \in [Ids -> CameraRows \cup {Null}]
  /\ printers \in [Ids -> Names \cup {Null}]
  /\ syncLogs \in [Ids -> SUBSET LogRows]
  /\ req \in [Threads -> Handlers]
  /\ requests \in Ids /\ crossed \in BOOLEAN /\ lost \in BOOLEAN

\* "always overwritten, so the vocabulary stays exactly disconnect / connect /
\* error" (lib/device_liveness.py:6): the "online" of a report is there only
\* while some bookkeeping that will end it is under way, unless it is lost.
OnlineIsPassing ==
  device.connectivity = "online" => lost \/ \E t \in Threads : EndsOnline(t)

\* "creates a fresh profile on first plug and updates the already-linked profile
\* on re-plug" (api/plug.py:31): unless two plug reports crossed each other, no
\* profile is left that no device refers to, whatever is refused or crashes.
NoStrayProfile ==
  ~crossed => \A i \in Ids : /\ cameras[i] # Null => device.camera = i
                             /\ printers[i] # Null => device.printer = i

\* The time the kiosk diffs against is never without its row in the log: the
\* delivery of a GET, from the middleware, or the row of a bulk push, from its
\* endpoint, with whatever outcome; never a refusal.  Endpoint and middleware each
\* commit both.
StampIsLogged ==
  device.synced \in Ids \ {0} =>
    \E row \in syncLogs[device.synced] : row = Delivery \/ row \in BulkRows

\* A request is logged at most once, although a bulk push is logged by its
\* endpoint, a GET and every refusal by the middleware.
LoggedOnce ==
  \A i \in Ids : \A row, other \in syncLogs[i] : row = other

\* A request that arrives after the device was deleted delivers nothing and
\* creates nothing, whatever runs at the same time; a push leaves a refusal.
DeletedIsRefused ==
  device.deleted # Null =>
    \A i \in Ids : i > device.deleted =>
      /\ cameras[i] = Null /\ printers[i] = Null
      /\ device.synced # i /\ \A row \in syncLogs[i] : row.status = "failed" /\ ~row.tables

\* Whenever transactions are open, one of them can go on: the order of the
\* locks admits no cycle of transactions that wait for each other.
NoLockCycle ==
  (\E t \in Threads : req[t].pc \in {"open", "noting"}) =>
    \E t \in Threads :
      /\ req[t].pc \in {"open", "noting"}
      /\ req[t].todo = {} \/ \E table \in Tables : CanLock(t, table)

-----------------------------------------------------------------------------
(***************************************************************************)
(* The inductive invariant behind them.                                    *)
(***************************************************************************)
\* A foreign key refers to a row.
LinkInv ==
  /\ device.camera # Null => cameras[device.camera] # Null
  /\ device.printer # Null => printers[device.printer] # Null

\* What a transaction that is open has loaded, and that its number is its own.
OpenInv(t) ==
  LET r == req[t] IN
  /\ r.seen \in DeviceRows /\ r.n # 0
  /\ r.seen.camera # Null => cameras[r.seen.camera] # Null /\ r.camera \in CameraRows
  /\ r.seen.printer # Null => printers[r.seen.printer] # Null /\ r.printer \in Names
  /\ cameras[r.n] = Null /\ printers[r.n] = Null /\ syncLogs[r.n] = {}
  /\ device.synced # r.n
  /\ device.deleted # Null /\ r.n > device.deleted => r.seen.deleted # Null

\* A plug report that crossed no other knows the profiles of the device.
PlugInv(t) ==
  Open(t) /\ req[t].call.op = "plug" /\ ~crossed =>
    /\ req[t].seen.camera = device.camera /\ req[t].seen.printer = device.printer
    /\ \A u \in Threads \ {t} : ~(Open(u) /\ req[u].call.op = "plug")

\* What the middleware will note of a request.
AnswerInv(t) ==
  LET r == req[t] IN
  /\ r.n # 0
  /\ syncLogs[r.n] \in IF r.ok /\ r.call.op = "bulk" THEN {{row} : row \in BulkRows} ELSE {{}}
  /\ device.deleted # Null /\ r.n > device.deleted => ~r.ok

\* The tables that are locked come before those that will be.
LockInv(t) ==
  \A table \in req[t].held : \A other \in req[t].todo : table \in Earlier(other)

ThreadInv(t) ==
  /\ Active(t) => req[t].call \in Calls /\ req[t].n \in 1 .. requests
  /\ Open(t) => OpenInv(t)
  /\ req[t].pc \in {"answered", "noting"} => AnswerInv(t)
  /\ req[t].pc \in {"idle", "answered"} => req[t].todo \cup req[t].held = {}
  /\ req[t].pc = "noting" =>
       req[t].seen \in DeviceRows /\ req[t].todo \cup req[t].held \subseteq {"device"}
  /\ LockInv(t)

\* Each request has a number of its own.
NumbersInv == \A t, u \in Threads : Active(t) /\ Active(u) /\ t # u => req[t].n # req[u].n

\* The numbers that are still to come have left no trace.
FutureInv ==
  /\ \A i \in Ids : i > requests => cameras[i] = Null /\ printers[i] = Null /\ syncLogs[i] = {}
  /\ device.synced # Null => device.synced <= requests
  /\ device.deleted # Null => device.deleted <= requests

IInv == /\ TypeOK /\ OnlineIsPassing /\ NoStrayProfile /\ StampIsLogged /\ LoggedOnce
        /\ DeletedIsRefused /\ LinkInv /\ FutureInv /\ NumbersInv
        /\ \A t \in Threads : ThreadInv(t) /\ PlugInv(t)

\* The rows show what a request reported.
Shown(call) ==
  /\ Reports(call) =>
       /\ call.health # Null => device.health = call.health
       /\ call.battery # Null => cameras[device.camera].battery = call.battery
  /\ PlugsCamera(call) => cameras[device.camera].name = call.camera
  /\ PlugsPrinter(call) => printers[device.printer] = call.printer

\* While a request overlaps no other, what it has loaded is what is there, but
\* for a deletion by the admin panel, and what it has committed stays.
AloneInv(t) ==
  LET r == req[t] IN
  r.alone =>
    /\ \A u \in Threads \ {t} : ~Active(u)
    /\ r.pc = "open" =>
         /\ device = [r.seen EXCEPT !.deleted = device.deleted]
         /\ r.seen.camera # Null => r.camera = cameras[r.seen.camera]
         /\ r.seen.printer # Null => r.printer = printers[r.seen.printer]
    /\ r.pc \in {"answered", "noting"} /\ r.ok => Shown(r.call)
    /\ r.pc = "noting" => r.seen.connectivity = device.connectivity

ExactInv == IInv /\ \A t \in Threads : AloneInv(t)

-----------------------------------------------------------------------------
\* When a request that overlapped no other is noted, the rows show what it
\* reported and how it was answered: no crash or refusal before it, and nothing
\* that is left out of an UPDATE, gets in the way.
ShowsWhatItSaid(r) ==
  /\ device'.connectivity = Outcome(r)
  /\ Delivers(r) => device'.synced = r.n
  /\ r.ok /\ Reports(r.call) =>
       /\ r.call.health # Null => device'.health = r.call.health
       /\ r.call.battery # Null => cameras'[device'.camera].battery = r.call.battery
  /\ r.ok /\ PlugsCamera(r.call) => cameras'[device'.camera].name = r.call.camera
  /\ r.ok /\ PlugsPrinter(r.call) => printers'[device'.printer] = r.call.printer

AloneIsExact == [][\A t \in Threads : Note(t) /\ req[t].alone => ShowsWhatItSaid(req[t])]_vars

\* A report does not leave the device "online" for good.
OnlineEnds == []<>(device.connectivity # "online" \/ lost)
=============================================================================
