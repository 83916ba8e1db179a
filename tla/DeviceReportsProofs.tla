------------------------ MODULE DeviceReportsProofs ------------------------
(***************************************************************************)
(* Proofs about DeviceReports: the inductive invariant, one lemma for each *)
(* action, and the theorems.                                               *)
(***************************************************************************)
EXTENDS DeviceReports, TLAPS

\* The types of the rows and of the handlers, field by field.
LEMMA Types ==
  ASSUME TypeOK
  PROVE  /\ \A t \in Threads : req[t] \in Handlers
         /\ \A i \in Ids : /\ cameras[i] \in CameraRows \cup {Null}
                           /\ printers[i] \in Names \cup {Null}
                           /\ syncLogs[i] \in SUBSET LogRows
         /\ device.camera \in Ids \cup {Null} /\ device.printer \in Ids \cup {Null}
         /\ device.synced \in Ids \cup {Null} /\ device.deleted \in Ids \cup {Null}
  BY DEF TypeOK, DeviceRows

LEMMA IdsAreNumbers ==
  /\ \A i \in Ids : i \in Nat /\ i <= MaxRequests /\ i # Null
  /\ 0 \in Ids
  BY BoundAssumption, NullAssumption DEF Ids

LEMMA IdleType == Idle \in Handlers /\ Idle.pc = "idle" /\ Idle.todo = {} /\ Idle.held = {}
  BY IdsAreNumbers DEF Idle, Handlers

\* A thread that does not step, while rows stay and its own number is left alone.
Undisturbed(u) ==
  /\ req'[u] = [req[u] EXCEPT !.alone = req'[u].alone]
  /\ requests' \in Nat /\ requests <= requests'
  /\ \A i \in Ids : (cameras[i] # Null => cameras'[i] # Null)
                    /\ (printers[i] # Null => printers'[i] # Null)
  /\ Active(u) =>
       /\ cameras[req[u].n] = Null => cameras'[req[u].n] = Null
       /\ printers[req[u].n] = Null => printers'[req[u].n] = Null
       /\ syncLogs'[req[u].n] = syncLogs[req[u].n]
       /\ device'.synced = device.synced \/ device'.synced # req[u].n
  /\ device'.deleted = device.deleted \/ device'.deleted = requests

LEMMA OthersKeep ==
  ASSUME TypeOK, NEW u \in Threads, ThreadInv(u), Undisturbed(u)
  PROVE  ThreadInv(u)'
  <1>1. /\ req'[u].pc = req[u].pc /\ req'[u].call = req[u].call /\ req'[u].n = req[u].n
        /\ req'[u].ok = req[u].ok /\ req'[u].seen = req[u].seen
        /\ req'[u].camera = req[u].camera /\ req'[u].printer = req[u].printer
        /\ req'[u].todo = req[u].todo /\ req'[u].held = req[u].held
    <2>1. req[u] \in Handlers
      BY Types
    <2> QED BY <2>1 DEF Undisturbed, Handlers
  <1>2. requests \in Nat
    BY IdsAreNumbers DEF TypeOK
  <1>3. (Active(u) => req[u].call \in Calls /\ req[u].n \in 1 .. requests)'
    BY <1>1, <1>2 DEF ThreadInv, Undisturbed, Active
  <1>4. ASSUME Active(u), device'.deleted # Null, req[u].n > device'.deleted
        PROVE  device.deleted # Null /\ req[u].n > device.deleted
    BY <1>2, <1>4 DEF ThreadInv, Undisturbed
  <1>5. ASSUME Open(u)
        PROVE  OpenInv(u)'
    <2>1. OpenInv(u) /\ Active(u)
      BY <1>5 DEF ThreadInv, Open, Active
    <2>2. /\ req[u].seen.camera # Null => req[u].seen.camera \in Ids
          /\ req[u].seen.printer # Null => req[u].seen.printer \in Ids
      BY <2>1 DEF OpenInv, DeviceRows
    <2> QED BY <1>1, <1>4, <2>1, <2>2 DEF OpenInv, Undisturbed
  <1>6. ASSUME req[u].pc \in {"answered", "noting"}
        PROVE  AnswerInv(u)'
    <2>1. AnswerInv(u) /\ Active(u)
      BY <1>6 DEF ThreadInv, Active
    <2> QED BY <1>1, <1>4, <2>1 DEF AnswerInv, Undisturbed
  <1>7. LockInv(u)'
    BY <1>1 DEF ThreadInv, LockInv
  <1> QED BY <1>1, <1>3, <1>5, <1>6, <1>7 DEF ThreadInv, Open

\* A step of one thread that changes no table.
LEMMA MoveKeeps ==
  ASSUME IInv, NEW t \in Threads, NEW r \in Handlers, req' = [req EXCEPT ![t] = r],
         UNCHANGED <<device, cameras, printers, syncLogs, requests, crossed>>,
         lost' \in BOOLEAN, OnlineIsPassing', ThreadInv(t)',
         r.pc # "idle" => Active(t) /\ r.n = req[t].n,
         r.pc = "open" => Open(t) /\ r.seen = req[t].seen /\ r.call = req[t].call
  PROVE  IInv'
  <1>1. TypeOK'
    BY DEF IInv, TypeOK
  <1>2. req'[t] = r /\ \A u \in Threads \ {t} : req'[u] = req[u]
    BY DEF IInv, TypeOK
  <1>3. /\ NoStrayProfile' /\ StampIsLogged' /\ LoggedOnce' /\ DeletedIsRefused'
        /\ LinkInv' /\ FutureInv'
    BY DEF IInv, NoStrayProfile, StampIsLogged, LoggedOnce, DeletedIsRefused, LinkInv, FutureInv
  <1>4. NumbersInv'
    BY <1>2 DEF IInv, NumbersInv, Active
  <1>5. ASSUME NEW u \in Threads \ {t}
        PROVE  ThreadInv(u)'
    <2>1. Undisturbed(u)
      <3>1. requests \in Nat
        BY IdsAreNumbers DEF IInv, TypeOK
      <3>2. req[u] \in Handlers
        BY Types DEF IInv
      <3>3. req'[u] = [req[u] EXCEPT !.alone = req'[u].alone]
        BY <1>2, <3>2 DEF Handlers
      <3> QED BY <3>1, <3>3 DEF Undisturbed
    <2> QED BY <2>1, OthersKeep DEF IInv
  <1>6. \A u \in Threads : PlugInv(u)'
    BY <1>2 DEF IInv, PlugInv, Open
  <1> QED BY <1>1, <1>3, <1>4, <1>5, <1>6 DEF IInv

(***************************************************************************)
(* The steps of one thread that change no table.                           *)
(***************************************************************************)
LEMMA LockKeeps ==
  ASSUME IInv, NEW t \in Threads, NEW table \in Tables, Lock(t, table)
  PROVE  IInv'
  <1> DEFINE r == [req[t] EXCEPT !.todo = @ \ {table}, !.held = @ \cup {table}]
  <1>1. req[t] \in Handlers
    BY Types DEF IInv
  <1>2. /\ r \in Handlers /\ r.pc = req[t].pc /\ r.call = req[t].call /\ r.n = req[t].n
        /\ r.ok = req[t].ok /\ r.seen = req[t].seen /\ r.camera = req[t].camera
        /\ r.printer = req[t].printer
        /\ r.todo = req[t].todo \ {table} /\ r.held = req[t].held \cup {table}
    BY <1>1 DEF Handlers
  <1>3. req' = [req EXCEPT ![t] = r]
    BY DEF Lock
  <1>4. req'[t] = r /\ \A u \in Threads \ {t} : req'[u] = req[u]
    BY <1>3 DEF IInv, TypeOK
  <1> HIDE DEF r
  <1>5. ThreadInv(t) /\ table \in req[t].todo /\ Earlier(table) \cap req[t].todo = {}
    BY DEF IInv, Lock, CanLock
  <1>6. ThreadInv(t)'
    <2>1. LockInv(t)'
      <3>1. ASSUME NEW other \in req[t].todo, other # table
            PROVE  table \in Earlier(other)
        <4>1. other \in Tables /\ other \notin Earlier(table)
          BY <1>1, <1>5, <3>1 DEF Handlers
        <4> QED BY <3>1, <4>1 DEF Earlier, Tables
      <3> QED BY <1>2, <1>4, <1>5, <3>1 DEF ThreadInv, LockInv
    <2>2. (Active(t) => req[t].call \in Calls /\ req[t].n \in 1 .. requests)'
      BY <1>2, <1>4, <1>5 DEF ThreadInv, Active, Lock
    <2>3. (Open(t) => OpenInv(t))'
      BY <1>2, <1>4, <1>5 DEF ThreadInv, Open, OpenInv, Lock
    <2>4. (req[t].pc \in {"answered", "noting"} => AnswerInv(t))'
      BY <1>2, <1>4, <1>5 DEF ThreadInv, AnswerInv, Lock
    <2> QED BY <1>2, <1>4, <1>5, <2>1, <2>2, <2>3, <2>4 DEF ThreadInv
  <1>7. OnlineIsPassing'
    <2>1. \A u \in Threads : EndsOnline(u) => EndsOnline(u)'
      BY <1>2, <1>4 DEF EndsOnline
    <2> QED BY <2>1 DEF IInv, OnlineIsPassing, Lock
  <1>8. lost' \in BOOLEAN
    BY DEF IInv, TypeOK, Lock
  <1>9. Active(t)
    BY <1>5 DEF ThreadInv, Active
  <1> QED BY <1>2, <1>3, <1>6, <1>7, <1>8, <1>9, MoveKeeps DEF Lock, Open

LEMMA AnsweredType ==
  ASSUME NEW r \in Handlers, NEW ok \in BOOLEAN
  PROVE  /\ Answered(r, ok) \in Handlers
         /\ Answered(r, ok).pc = "answered" /\ Answered(r, ok).ok = ok
         /\ Answered(r, ok).n = r.n /\ Answered(r, ok).call = r.call
         /\ Answered(r, ok).todo = {} /\ Answered(r, ok).held = {}
  BY IdsAreNumbers DEF Answered, Idle, Handlers

LEMMA RefuseKeeps ==
  ASSUME IInv, NEW t \in Threads, Refuse(t)
  PROVE  IInv'
  <1> DEFINE r == Answered(req[t], FALSE)
  <1>1. /\ r \in Handlers /\ r.pc = "answered" /\ r.n = req[t].n /\ r.call = req[t].call
        /\ r.todo = {} /\ r.held = {} /\ r.ok = FALSE
    <2>1. req[t] \in Handlers
      BY Types DEF IInv
    <2> QED BY <2>1, AnsweredType
  <1>2. req' = [req EXCEPT ![t] = r] /\ Open(t)
    BY DEF Refuse
  <1>3. req'[t] = r /\ \A u \in Threads \ {t} : req'[u] = req[u]
    BY <1>2 DEF IInv, TypeOK
  <1> HIDE DEF r
  <1>4. OpenInv(t) /\ req[t].call \in Calls /\ req[t].n \in 1 .. requests
    BY <1>2 DEF IInv, ThreadInv, Open, Active
  <1>5. ThreadInv(t)'
    <2>1. AnswerInv(t)'
      <3>1. req'[t].n = req[t].n /\ req'[t].n # 0 /\ ~req'[t].ok /\ syncLogs'[req'[t].n] = {}
        BY <1>1, <1>3, <1>4 DEF OpenInv, Refuse
      <3> QED BY <3>1 DEF AnswerInv
    <2> QED BY <1>1, <1>3, <1>4, <2>1 DEF ThreadInv, Open, Active, LockInv, Refuse
  <1>6. OnlineIsPassing'
    BY <1>1, <1>2, <1>3 DEF IInv, OnlineIsPassing, EndsOnline, Open, Refuse
  <1>7. lost' \in BOOLEAN
    BY DEF IInv, TypeOK, Refuse
  <1> QED BY <1>1, <1>2, <1>5, <1>6, <1>7, MoveKeeps DEF Refuse, Open, Active

LEMMA LoadAgainKeeps ==
  ASSUME IInv, NEW t \in Threads, LoadAgain(t)
  PROVE  IInv'
  <1> DEFINE todo == IF Delivers(req[t]) \/ device.connectivity # Outcome(req[t])
                       THEN {"device"} ELSE {}
             r == [req[t] EXCEPT !.pc = "noting", !.seen = device, !.todo = todo]
  <1>1. /\ r \in Handlers /\ r.pc = "noting" /\ r.n = req[t].n /\ r.call = req[t].call
        /\ r.ok = req[t].ok /\ r.seen = device /\ r.held = req[t].held
        /\ r.todo \subseteq {"device"}
    <2>1. req[t] \in Handlers /\ device \in DeviceRows
      BY Types DEF IInv, TypeOK
    <2>2. todo \in SUBSET Tables /\ todo \subseteq {"device"}
      BY DEF Tables
    <2> HIDE DEF todo
    <2> QED BY <2>1, <2>2 DEF Handlers
  <1>2. req' = [req EXCEPT ![t] = r] /\ req[t].pc = "answered"
    BY DEF LoadAgain
  <1>3. req'[t] = r /\ \A u \in Threads \ {t} : req'[u] = req[u]
    BY <1>2 DEF IInv, TypeOK
  <1> HIDE DEF r
  <1>4. /\ AnswerInv(t) /\ req[t].call \in Calls /\ req[t].n \in 1 .. requests
        /\ req[t].held = {}
    BY <1>2 DEF IInv, ThreadInv, Active
  <1>5. ThreadInv(t)'
    <2>1. AnswerInv(t)'
      BY <1>1, <1>3, <1>4 DEF AnswerInv, LoadAgain
    <2>2. device \in DeviceRows
      BY DEF IInv, TypeOK
    <2> QED BY <1>1, <1>3, <1>4, <2>1, <2>2 DEF ThreadInv, Open, Active, LockInv, LoadAgain
  <1>6. OnlineIsPassing'
    BY <1>1, <1>2, <1>3 DEF IInv, OnlineIsPassing, EndsOnline, LoadAgain
  <1>7. lost' \in BOOLEAN
    BY DEF IInv, TypeOK, LoadAgain
  <1> QED BY <1>1, <1>2, <1>5, <1>6, <1>7, MoveKeeps DEF LoadAgain, Active

LEMMA CrashKeeps ==
  ASSUME IInv, NEW t \in Threads, Crash(t)
  PROVE  IInv'
  <1>1. req' = [req EXCEPT ![t] = Idle]
    BY DEF Crash
  <1>2. req'[t] = Idle /\ \A u \in Threads \ {t} : req'[u] = req[u]
    BY <1>1 DEF IInv, TypeOK
  <1>3. ThreadInv(t)'
    BY <1>2, IdleType DEF ThreadInv, Open, Active, LockInv
  <1>4. OnlineIsPassing'
    BY <1>2 DEF IInv, OnlineIsPassing, EndsOnline, Crash
  <1>5. lost' \in BOOLEAN
    BY DEF IInv, TypeOK, Crash
  <1> QED BY <1>1, <1>3, <1>4, <1>5, IdleType, MoveKeeps DEF Crash

(***************************************************************************)
(* The arrival of a request.                                               *)
(***************************************************************************)
LEMMA BeginKeeps ==
  ASSUME IInv, NEW t \in Threads, NEW call \in Calls, Begin(t, call)
  PROVE  IInv'
  <1> DEFINE camera == IF device.camera = Null THEN Null ELSE cameras[device.camera]
             printer == IF device.printer = Null THEN Null ELSE printers[device.printer]
             todo == Flushes(call, device, camera, printer)
             alone == \A v \in Threads : ~Active(v)
             r == [Idle EXCEPT !.pc = "open", !.call = call, !.n = requests + 1,
                     !.seen = device, !.camera = camera, !.printer = printer,
                     !.todo = todo, !.alone = alone]
  <1>0. /\ requests < MaxRequests /\ requests' = requests + 1 /\ ~Active(t)
        /\ UNCHANGED <<device, cameras, printers, syncLogs, lost>>
        /\ crossed' = (crossed \/ (call.op = "plug"
                         /\ \E u \in Threads : Open(u) /\ req[u].call.op = "plug"))
    BY DEF Begin
  <1>1. /\ requests \in Ids /\ requests' = requests + 1 /\ requests' \in Ids
        /\ requests \in Nat /\ ~Active(t)
    <2>1. requests \in Ids
      BY DEF IInv, TypeOK
    <2> QED BY <1>0, <2>1, BoundAssumption DEF Ids
  <1>2. /\ camera \in CameraRows \cup {Null} /\ printer \in Names \cup {Null}
        /\ device.camera # Null => camera \in CameraRows
        /\ device.printer # Null => printer \in Names
    BY Types DEF IInv, LinkInv
  <1>3. todo \in SUBSET Tables /\ alone \in BOOLEAN /\ call \in AllCalls
    BY CallsAssumption DEF Flushes
  <1>4. req' = [u \in Threads |-> IF u = t THEN r ELSE [req[u] EXCEPT !.alone = FALSE]]
    BY DEF Begin
  <1>5. /\ r \in Handlers /\ r.pc = "open" /\ r.call = call /\ r.n = requests + 1
        /\ r.seen = device /\ r.camera = camera /\ r.printer = printer /\ r.held = {}
        /\ r.todo = todo
    <2> HIDE DEF camera, printer, todo, alone
    <2>1. device \in DeviceRows /\ requests + 1 \in Ids
      BY <1>1 DEF IInv, TypeOK
    <2> QED BY <1>2, <1>3, <2>1, IdsAreNumbers DEF Idle, Handlers
  <1> HIDE DEF r, camera, printer, todo, alone
  <1>6. /\ req'[t] = r
        /\ \A u \in Threads \ {t} : req'[u] = [req[u] EXCEPT !.alone = FALSE]
    BY <1>4
  <1>7. \A u \in Threads \ {t} :
          /\ req'[u] \in Handlers /\ req'[u].pc = req[u].pc /\ req'[u].call = req[u].call
          /\ req'[u].n = req[u].n /\ req'[u].seen = req[u].seen /\ req'[u].alone = FALSE
    <2>1. \A u \in Threads : req[u] \in Handlers
      BY Types DEF IInv
    <2>2. ASSUME NEW u \in Threads \ {t}
          PROVE  /\ req'[u] \in Handlers /\ req'[u].pc = req[u].pc /\ req'[u].call = req[u].call
                 /\ req'[u].n = req[u].n /\ req'[u].seen = req[u].seen /\ req'[u].alone = FALSE
      <3>1. req[u] \in Handlers /\ req'[u] = [req[u] EXCEPT !.alone = FALSE]
        BY <1>6, <2>1
      <3> QED BY <3>1 DEF Handlers
    <2> QED BY <2>2
  <1>8. TypeOK'
    <2>1. req' \in [Threads -> Handlers]
      BY <1>4, <1>5, <1>6, <1>7
    <2>2. crossed' \in BOOLEAN
      BY <1>0 DEF IInv, TypeOK
    <2> QED BY <1>0, <1>1, <2>1, <2>2 DEF IInv, TypeOK
  <1>9. FutureInv /\ \A i \in Ids : i > requests' => i > requests
    BY <1>1, IdsAreNumbers DEF IInv
  <1>10. /\ NoStrayProfile' /\ StampIsLogged' /\ LoggedOnce' /\ DeletedIsRefused'
         /\ LinkInv'
    BY <1>0 DEF IInv, NoStrayProfile, StampIsLogged, LoggedOnce, DeletedIsRefused, LinkInv
  <1>11. FutureInv'
    <2>1. /\ device.synced # Null => device.synced \in Nat
          /\ device.deleted # Null => device.deleted \in Nat
      BY Types, IdsAreNumbers DEF IInv
    <2> QED BY <1>0, <1>1, <1>9, <2>1 DEF FutureInv
  <1>12. OnlineIsPassing'
    <2>1. \A u \in Threads : EndsOnline(u) => EndsOnline(u)'
      BY <1>1, <1>7 DEF EndsOnline, Active
    <2> QED BY <1>0, <2>1 DEF IInv, OnlineIsPassing
  <1>13. \A u \in Threads : Active(u) => req[u].n \in 1 .. requests
    BY DEF IInv, ThreadInv
  <1>14. NumbersInv'
    BY <1>1, <1>5, <1>6, <1>7, <1>13 DEF IInv, NumbersInv, Active
  <1>15. ThreadInv(t)'
    <2>1. OpenInv(t)'
      <3>1. /\ cameras[r.n] = Null /\ printers[r.n] = Null /\ syncLogs[r.n] = {}
            /\ device.synced # r.n /\ r.n # 0
        <4>1. r.n \in Ids /\ r.n > requests
          BY <1>1, <1>5
        <4>2. device.synced # Null => device.synced \in Nat /\ device.synced <= requests
          BY <1>9, Types, IdsAreNumbers DEF IInv, FutureInv
        <4> QED BY <1>1, <1>9, <4>1, <4>2, IdsAreNumbers, NullAssumption DEF FutureInv
      <3>2. /\ device.camera # Null => cameras[device.camera] # Null
            /\ device.printer # Null => printers[device.printer] # Null
            /\ device \in DeviceRows
        BY DEF IInv, LinkInv, TypeOK
      <3> QED BY <1>2, <1>5, <1>6, <3>1, <3>2, <1>0 DEF OpenInv
    <2> QED BY <1>1, <1>5, <1>6, <2>1 DEF ThreadInv, Open, Active, LockInv
  <1>16. ASSUME NEW u \in Threads \ {t}
         PROVE  ThreadInv(u)'
    <2>1. requests' \in Nat /\ requests <= requests'
      BY <1>1
    <2>2. Undisturbed(u)
      BY <1>0, <1>6, <1>7, <2>1 DEF Undisturbed
    <2> QED BY <2>2, OthersKeep DEF IInv
  <1>17. ASSUME NEW u \in Threads, Open(u)', req'[u].call.op = "plug", ~crossed'
         PROVE  PlugInv(u)'
    <2>1. /\ UNCHANGED device /\ ~crossed
          /\ call.op = "plug" => ~\E v \in Threads : Open(v) /\ req[v].call.op = "plug"
      BY <1>0, <1>17
    <2>2. CASE u = t
      BY <1>5, <1>6, <1>7, <1>17, <2>1, <2>2 DEF PlugInv, Open
    <2>3. CASE u # t
      <3>1. Open(u) /\ req[u].call.op = "plug"
        BY <1>7, <1>17, <2>3 DEF Open
      <3>2. call.op # "plug" /\ PlugInv(u)
        BY <2>1, <3>1 DEF IInv
      <3> QED BY <1>5, <1>6, <1>7, <2>1, <2>3, <3>1, <3>2 DEF PlugInv, Open
    <2> QED BY <2>2, <2>3
  <1>18. \A u \in Threads : PlugInv(u)'
    BY <1>17 DEF PlugInv
  <1> QED BY <1>8, <1>10, <1>11, <1>12, <1>14, <1>15, <1>16, <1>18 DEF IInv

(***************************************************************************)
(* The bookkeeping.                                                        *)
(***************************************************************************)
LEMMA NotedFields ==
  ASSUME NEW r \in Handlers, NEW row \in DeviceRows
  PROVE  /\ Noted(r, row) \in DeviceRows
         /\ Noted(r, row).camera = row.camera /\ Noted(r, row).printer = row.printer
         /\ Noted(r, row).deleted = row.deleted
         /\ Noted(r, row).synced = IF Delivers(r) THEN r.n ELSE row.synced
         /\ Noted(r, row).connectivity =
              IF Outcome(r) # r.seen.connectivity THEN Outcome(r) ELSE row.connectivity
  <1> DEFINE word == IF Outcome(r) # r.seen.connectivity THEN Outcome(r) ELSE row.connectivity
             time == IF Delivers(r) THEN r.n ELSE row.synced
  <1>1. word \in {"disconnect", "connect", "error", "online"} /\ time \in Ids \cup {Null}
    BY DEF Outcome, DeviceRows, Handlers
  <1>2. Noted(r, row) = [row EXCEPT !.connectivity = word, !.synced = time]
    BY DEF Noted
  <1> HIDE DEF word, time
  <1>3. /\ Noted(r, row) \in DeviceRows /\ Noted(r, row).connectivity = word
        /\ Noted(r, row).synced = time
        /\ Noted(r, row).camera = row.camera /\ Noted(r, row).printer = row.printer
        /\ Noted(r, row).deleted = row.deleted
    BY <1>1, <1>2 DEF DeviceRows
  <1> QED BY <1>3 DEF word, time

\* The rows that the middleware writes, and that an endpoint writes.
LEMMA LoggedRows ==
  /\ Delivery \in LogRows /\ BulkRows \subseteq LogRows
  /\ \A call : /\ Refusal(call) \in LogRows
               /\ Refusal(call).status = "failed" /\ ~Refusal(call).tables
  <1>1. Delivery \in LogRows /\ BulkRows \subseteq LogRows
    BY DEF Delivery, BulkRows, LogRows, Outcomes
  <1>2. ASSUME NEW call
        PROVE  /\ Refusal(call) \in LogRows
               /\ Refusal(call).status = "failed" /\ ~Refusal(call).tables
    <2> DEFINE kind == IF call.op \in {"get", "poll"} THEN "push"
                       ELSE IF call.op = "bulk" THEN "pull" ELSE Null
    <2>1. Refusal(call) = [type |-> kind, status |-> "failed", tables |-> FALSE]
      BY DEF Refusal
    <2>2. kind \in {"push", "pull", Null}
      OBVIOUS
    <2> HIDE DEF kind
    <2> QED BY <2>1, <2>2 DEF LogRows, Outcomes
  <1> QED BY <1>1, <1>2

LEMMA NotedRowsFacts ==
  ASSUME NEW r \in Handlers
  PROVE  /\ NotedRows(r) \in SUBSET LogRows
         /\ \A row, other \in NotedRows(r) : row = other
         /\ ~Delivers(r) => \A row \in NotedRows(r) : row.status = "failed" /\ ~row.tables
         /\ Delivers(r) => NotedRows(r) = {Delivery}
         /\ r.ok /\ r.call.op = "bulk" => NotedRows(r) = {}
  <1>1. r.ok /\ r.call.op = "bulk" => ~Delivers(r)
    BY DEF Delivers
  <1> QED BY <1>1, LoggedRows DEF NotedRows

LEMMA NoteKeeps ==
  ASSUME IInv, NEW t \in Threads, Note(t)
  PROVE  IInv'
  <1> DEFINE r == req[t]
  <1>1. r \in Handlers /\ device \in DeviceRows /\ r.pc = "noting"
    BY Types DEF IInv, TypeOK, Note
  <1>2. /\ AnswerInv(t) /\ r.n \in 1 .. requests /\ Active(t) /\ r.seen \in DeviceRows
        /\ r.n \in Ids \ {0}
    <2>1. AnswerInv(t) /\ r.n \in 1 .. requests /\ Active(t) /\ r.seen \in DeviceRows
      BY <1>1 DEF IInv, ThreadInv, Active
    <2> QED BY <1>1, <2>1 DEF Handlers, AnswerInv
  <1>3. /\ device' \in DeviceRows /\ device'.camera = device.camera
        /\ device'.printer = device.printer /\ device'.deleted = device.deleted
        /\ device'.synced = IF Delivers(r) THEN r.n ELSE device.synced
        /\ device'.connectivity =
             IF Outcome(r) # r.seen.connectivity THEN Outcome(r) ELSE device.connectivity
    BY <1>1, NotedFields DEF Note
  <1>4. /\ req'[t] = Idle /\ \A u \in Threads \ {t} : req'[u] = req[u]
        /\ \A u \in Threads : req'[u] \in Handlers
        /\ UNCHANGED <<cameras, printers, requests, crossed>>
    BY IdleType, Types DEF Note, IInv, TypeOK
  <1>5. /\ syncLogs'[r.n] = syncLogs[r.n] \cup NotedRows(r)
        /\ \A i \in Ids \ {r.n} : syncLogs'[i] = syncLogs[i]
        /\ syncLogs' \in [Ids -> SUBSET LogRows]
    <2>1. syncLogs \in [Ids -> SUBSET LogRows] /\ NotedRows(r) \in SUBSET LogRows
      BY <1>1, NotedRowsFacts DEF IInv, TypeOK
    <2>2. syncLogs' = [syncLogs EXCEPT ![r.n] = @ \cup NotedRows(r)]
      BY DEF Note
    <2> HIDE DEF r
    <2> QED BY <1>2, <2>1, <2>2
  <1>6. TypeOK'
    BY <1>3, <1>4, <1>5, IdleType DEF IInv, TypeOK, Note
  <1>7. OnlineIsPassing'
    <2>1. SUFFICES ASSUME device'.connectivity = "online" PROVE OnlineIsPassing'
      BY DEF OnlineIsPassing
    <2>2. Outcome(r) # "online"
      BY DEF Outcome
    <2>3. device.connectivity = "online" /\ ~EndsOnline(t)
      BY <1>1, <1>3, <2>1, <2>2 DEF EndsOnline
    <2>4. lost' = lost
      BY <2>1 DEF Note, IInv, TypeOK
    <2> QED BY <1>4, <2>3, <2>4 DEF IInv, OnlineIsPassing, EndsOnline
  <1>8. NoStrayProfile' /\ LinkInv'
    BY <1>3, <1>4 DEF IInv, NoStrayProfile, LinkInv
  <1>9. StampIsLogged'
    <2>1. CASE Delivers(r)
      BY <1>1, <1>3, <1>5, <2>1, NotedRowsFacts DEF StampIsLogged
    <2>2. CASE ~Delivers(r)
      BY <1>3, <1>5, <2>2 DEF IInv, StampIsLogged
    <2> QED BY <2>1, <2>2
  <1>10. LoggedOnce'
    <2>1. \A row, other \in syncLogs'[r.n] : row = other
      <3>1. /\ \A row, other \in NotedRows(r) : row = other
            /\ r.ok /\ r.call.op = "bulk" => NotedRows(r) = {}
        BY <1>1, NotedRowsFacts
      <3>2. CASE r.ok /\ r.call.op = "bulk"
        BY <1>2, <1>5, <3>1, <3>2 DEF AnswerInv
      <3>3. CASE ~(r.ok /\ r.call.op = "bulk")
        BY <1>2, <1>5, <3>1, <3>3 DEF AnswerInv
      <3> QED BY <3>2, <3>3
    <2> QED BY <1>5, <2>1 DEF IInv, LoggedOnce
  <1>11. DeletedIsRefused'
    <2>1. ASSUME device'.deleted # Null, NEW i \in Ids, i > device'.deleted
          PROVE  /\ cameras'[i] = Null /\ printers'[i] = Null
                 /\ device'.synced # i
                 /\ \A row \in syncLogs'[i] : row.status = "failed" /\ ~row.tables
      <3>1. /\ cameras[i] = Null /\ printers[i] = Null
            /\ device.synced # i
            /\ \A row \in syncLogs[i] : row.status = "failed" /\ ~row.tables
        BY <1>3, <2>1 DEF IInv, DeletedIsRefused
      <3>2. CASE i = r.n
        <4>1. ~r.ok
          BY <1>2, <1>3, <2>1, <3>2 DEF AnswerInv
        <4>2. ~Delivers(r)
          BY <4>1 DEF Delivers
        <4> QED BY <1>1, <1>3, <1>4, <1>5, <3>1, <3>2, <4>2, NotedRowsFacts
      <3>3. CASE i # r.n
        BY <1>3, <1>4, <1>5, <3>1, <3>3
      <3> QED BY <3>2, <3>3
    <2> QED BY <2>1 DEF DeletedIsRefused
  <1>12. FutureInv'
    <2>1. requests \in Nat /\ r.n <= requests
      BY <1>2, IdsAreNumbers DEF IInv, TypeOK
    <2> QED BY <1>2, <1>3, <1>4, <1>5, <2>1 DEF IInv, FutureInv
  <1>13. NumbersInv'
    BY <1>4, IdleType DEF IInv, NumbersInv, Active
  <1>14. ThreadInv(t)'
    BY <1>4, IdleType DEF ThreadInv, Open, Active, LockInv
  <1>15. ASSUME NEW u \in Threads \ {t}
         PROVE  ThreadInv(u)'
    <2>1. req[u] \in Handlers /\ requests \in Nat
      BY Types, IdsAreNumbers DEF IInv, TypeOK
    <2>2. req'[u] = [req[u] EXCEPT !.alone = req'[u].alone]
      BY <1>4, <2>1 DEF Handlers
    <2>3. Active(u) => req[u].n # r.n /\ req[u].n \in Ids
      BY <1>2, <2>1 DEF IInv, NumbersInv, Handlers
    <2>4. Undisturbed(u)
      BY <1>3, <1>4, <1>5, <2>1, <2>2, <2>3 DEF Undisturbed
    <2> QED BY <2>4, OthersKeep DEF IInv
  <1>16. \A u \in Threads : PlugInv(u)'
    BY <1>3, <1>4, IdleType DEF IInv, PlugInv, Open
  <1> QED BY <1>6, <1>7, <1>8, <1>9, <1>10, <1>11, <1>12, <1>13, <1>14, <1>15, <1>16 DEF IInv

LEMMA AdminDeletesKeeps ==
  ASSUME IInv, AdminDeletes
  PROVE  IInv'
  <1>1. /\ device \in DeviceRows /\ requests \in Ids /\ requests \in Nat
        /\ device' = [device EXCEPT !.deleted = requests] /\ device.deleted = Null
        /\ UNCHANGED <<cameras, printers, syncLogs, req, requests, crossed, lost>>
    BY IdsAreNumbers DEF AdminDeletes, IInv, TypeOK
  <1>2. /\ device' \in DeviceRows /\ device'.deleted = requests
        /\ device'.camera = device.camera /\ device'.printer = device.printer
        /\ device'.synced = device.synced /\ device'.connectivity = device.connectivity
    BY <1>1 DEF DeviceRows
  <1>3. TypeOK' /\ LinkInv' /\ NoStrayProfile' /\ StampIsLogged' /\ LoggedOnce' /\ NumbersInv'
    BY <1>1, <1>2 DEF IInv, TypeOK, LinkInv, NoStrayProfile, StampIsLogged, LoggedOnce,
       NumbersInv, Active
  <1>4. OnlineIsPassing' /\ \A u \in Threads : PlugInv(u)'
    BY <1>1, <1>2 DEF IInv, OnlineIsPassing, EndsOnline, PlugInv, Open
  <1>5. DeletedIsRefused'
    <2>1. device.synced # Null => device.synced \in Nat /\ device.synced <= requests
      BY Types, IdsAreNumbers DEF IInv, FutureInv
    <2> QED BY <1>1, <1>2, <2>1, IdsAreNumbers DEF IInv, FutureInv, DeletedIsRefused
  <1>6. FutureInv'
    BY <1>1, <1>2 DEF IInv, FutureInv
  <1>7. ASSUME NEW u \in Threads
        PROVE  ThreadInv(u)'
    <2>1. req[u] \in Handlers
      BY Types DEF IInv
    <2>2. req'[u] = [req[u] EXCEPT !.alone = req'[u].alone]
      BY <1>1, <2>1 DEF Handlers
    <2>3. Undisturbed(u)
      BY <1>1, <1>2, <2>2 DEF Undisturbed
    <2> QED BY <2>3, OthersKeep DEF IInv
  <1> QED BY <1>3, <1>4, <1>5, <1>6, <1>7 DEF IInv

(***************************************************************************)
(* The commit of the endpoint.                                             *)
(***************************************************************************)
LEMMA DeviceFields ==
  ASSUME NEW call \in AllCalls, NEW n \in Ids, NEW seen \in DeviceRows, NEW row \in DeviceRows
  PROVE  /\ Device(call, n, seen, row) \in DeviceRows
         /\ Device(call, n, seen, row).deleted = row.deleted
         /\ Device(call, n, seen, row).synced =
              IF call.op = "bulk" THEN n ELSE IF call.op = "token" THEN 0 ELSE row.synced
         /\ Device(call, n, seen, row).camera =
              IF PlugsCamera(call) /\ seen.camera = Null THEN n ELSE row.camera
         /\ Device(call, n, seen, row).printer =
              IF PlugsPrinter(call) /\ seen.printer = Null THEN n ELSE row.printer
         /\ call.op = "token" /\ Device(call, n, seen, row).connectivity = "online"
              => row.connectivity = "online"
  <1> DEFINE word == IF Differs(Connectivity(call), seen.connectivity)
                       THEN Connectivity(call) ELSE row.connectivity
             health == IF Reports(call) /\ Differs(call.health, seen.health)
                         THEN call.health ELSE row.health
             time == IF call.op = "bulk" THEN n ELSE IF call.op = "token" THEN 0 ELSE row.synced
             camera == IF PlugsCamera(call) /\ seen.camera = Null THEN n ELSE row.camera
             printer == IF PlugsPrinter(call) /\ seen.printer = Null THEN n ELSE row.printer
  <1>1. word \in {"disconnect", "connect", "error", "online"}
    BY DEF Differs, Connectivity, DeviceRows
  <1>2. health \in Readings \cup {Null}
    BY DEF AllCalls, DeviceRows
  <1>3. time \in Ids \cup {Null} /\ camera \in Ids \cup {Null} /\ printer \in Ids \cup {Null}
    BY IdsAreNumbers DEF DeviceRows
  <1>4. Device(call, n, seen, row) =
          [row EXCEPT !.connectivity = word, !.health = health, !.synced = time,
                      !.camera = camera, !.printer = printer]
    BY DEF Device
  <1>5. call.op = "token" /\ word = "online" => row.connectivity = "online"
    BY DEF Connectivity, Reports, Differs
  <1> HIDE DEF word, health, time, camera, printer
  <1>6. /\ Device(call, n, seen, row) \in DeviceRows
        /\ Device(call, n, seen, row).connectivity = word
        /\ Device(call, n, seen, row).deleted = row.deleted
        /\ Device(call, n, seen, row).synced = time
        /\ Device(call, n, seen, row).camera = camera
        /\ Device(call, n, seen, row).printer = printer
    BY <1>1, <1>2, <1>3, <1>4 DEF DeviceRows
  <1> QED BY <1>5, <1>6 DEF time, camera, printer

\* What is flushed keeps the type of a profile.
LEMMA CameraType ==
  ASSUME NEW call \in AllCalls, NEW seen \in DeviceRows, ~Refused(call, seen),
         NEW camera \in CameraRows, NEW row \in CameraRows
  PROVE  Camera(call, camera, row) \in CameraRows
  <1> DEFINE new == IF PlugsCamera(call) /\ Differs(call.camera, camera.name)
                      THEN call.camera ELSE row.name
             battery == IF Reports(call) /\ Differs(call.battery, camera.battery)
                          THEN call.battery ELSE row.battery
  <1>1. new \in Names /\ battery \in Readings \cup {Null}
    BY DEF CameraRows, AllCalls, PlugsCamera, Refused, Barred, Unknown, NothingToPlug
  <1>2. Camera(call, camera, row) = [row EXCEPT !.name = new, !.battery = battery]
    BY DEF Camera
  <1> HIDE DEF new, battery
  <1> QED BY <1>1, <1>2 DEF CameraRows

LEMMA PrinterType ==
  ASSUME NEW call \in AllCalls, NEW seen \in DeviceRows, ~Refused(call, seen),
         NEW printer, NEW name \in Names
  PROVE  Printer(call, printer, name) \in Names
  BY DEF PlugsPrinter, Refused, AllCalls, Printer

LEMMA CommitKeeps ==
  ASSUME IInv, NEW t \in Threads, Commit(t)
  PROVE  IInv'
  <1> DEFINE r == req[t]
             call == r.call
             seen == r.seen
             New(i) == PlugsCamera(call) /\ seen.camera = Null /\ i = r.n
             NewPrinter(i) == PlugsPrinter(call) /\ seen.printer = Null /\ i = r.n
             after == IF call.op = "token" THEN Idle ELSE Answered(r, TRUE)
  <1>1. /\ r \in Handlers /\ device \in DeviceRows /\ Open(t) /\ ~Refused(call, seen)
        /\ Active(t) /\ OpenInv(t) /\ call \in AllCalls /\ call \in Calls
        /\ r.n \in 1 .. requests
        /\ r.n \in Ids \ {0} /\ seen \in DeviceRows
    <2>1. r \in Handlers /\ device \in DeviceRows /\ Open(t) /\ ~Refused(call, seen)
      BY Types DEF IInv, TypeOK, Commit
    <2>2. Active(t) /\ OpenInv(t) /\ call \in Calls /\ r.n \in 1 .. requests
      BY <2>1 DEF IInv, ThreadInv, Open, Active
    <2> QED BY <2>1, <2>2, CallsAssumption DEF Handlers, OpenInv
  <1>2. cameras' = [i \in Ids |-> IF New(i) THEN [name |-> call.camera, battery |-> Null]
                      ELSE IF seen.camera # Null /\ i = seen.camera
                        THEN Camera(call, r.camera, cameras[i]) ELSE cameras[i]]
    BY DEF Commit
  <1>3. printers' = [i \in Ids |-> IF NewPrinter(i) THEN call.printer
                       ELSE IF seen.printer # Null /\ i = seen.printer
                         THEN Printer(call, r.printer, printers[i]) ELSE printers[i]]
    BY DEF Commit
  <1>4. /\ device' = Device(call, r.n, seen, device)
        /\ IF call.op = "bulk"
             THEN \E row \in BulkRows : syncLogs' = [syncLogs EXCEPT ![r.n] = @ \cup {row}]
             ELSE UNCHANGED syncLogs
        /\ req' = [req EXCEPT ![t] = after]
        /\ lost' = (lost /\ device'.connectivity = "online")
        /\ UNCHANGED <<requests, crossed>>
    BY DEF Commit
  <1>5. /\ after \in Handlers /\ after.pc = (IF call.op = "token" THEN "idle" ELSE "answered")
        /\ after.todo = {} /\ after.held = {}
        /\ call.op # "token" => after.ok /\ after.n = r.n /\ after.call = call
    BY <1>1, IdleType, AnsweredType
  <1> HIDE DEF after
  <1>6. req'[t] = after /\ \A u \in Threads \ {t} : req'[u] = req[u]
    BY <1>4 DEF IInv, TypeOK
  <1>7. device.deleted # Null => ~(r.n > device.deleted) \/ call.op = "token"
    BY <1>1 DEF OpenInv, Refused, Barred, Unknown, NothingToPlug
  <1>8. ASSUME NEW i \in Ids
        PROVE  /\ cameras'[i] \in CameraRows \cup {Null}
               /\ cameras'[i] # Null <=> cameras[i] # Null \/ New(i)
               /\ i # r.n => ~New(i)
               /\ New(r.n) \/ cameras'[r.n] = Null
    <2>1. cameras[i] \in CameraRows \cup {Null} /\ cameras[r.n] = Null
      BY <1>1, Types DEF IInv, OpenInv
    <2>2. seen.camera # Null => cameras[seen.camera] # Null /\ r.camera \in CameraRows
      BY <1>1 DEF OpenInv
    <2>3. \A c \in CameraRows : c # Null
      BY NullAssumption
    <2>4. cameras'[i] \in CameraRows \cup {Null} /\ (cameras'[i] # Null <=> cameras[i] # Null \/ New(i))
      <3>1. CASE New(i)
        <4>1. call.camera \in Names
          BY <1>1, <3>1 DEF PlugsCamera, Refused, Barred, Unknown, NothingToPlug, AllCalls
        <4>2. cameras'[i] = [name |-> call.camera, battery |-> Null]
          BY <1>2, <3>1
        <4>3. cameras'[i] \in CameraRows
          BY <4>1, <4>2 DEF CameraRows
        <4> QED BY <2>3, <3>1, <4>3
      <3>2. CASE ~New(i) /\ seen.camera # Null /\ i = seen.camera
        <4>1. cameras[i] \in CameraRows /\ r.camera \in CameraRows
          BY <2>1, <2>2, <3>2
        <4>2. cameras'[i] = Camera(call, r.camera, cameras[i])
          BY <1>2, <3>2
        <4>3. cameras'[i] \in CameraRows
          BY <1>1, <4>1, <4>2, CameraType
        <4> QED BY <2>3, <3>2, <4>1, <4>3
      <3>3. CASE ~New(i) /\ ~(seen.camera # Null /\ i = seen.camera)
        BY <1>2, <2>1, <3>3
      <3> QED BY <3>1, <3>2, <3>3
    <2>5. New(r.n) \/ cameras'[r.n] = Null
      BY <1>1, <1>2, <2>1, <2>2
    <2> QED BY <2>4, <2>5
  <1>9. ASSUME NEW i \in Ids
        PROVE  /\ printers'[i] \in Names \cup {Null}
               /\ printers'[i] # Null <=> printers[i] # Null \/ NewPrinter(i)
               /\ i # r.n => ~NewPrinter(i)
               /\ NewPrinter(r.n) \/ printers'[r.n] = Null
    <2>1. printers[i] \in Names \cup {Null} /\ printers[r.n] = Null
      BY <1>1, Types DEF IInv, OpenInv
    <2>2. seen.printer # Null => printers[seen.printer] # Null /\ r.printer \in Names
      BY <1>1 DEF OpenInv
    <2>3. \A name \in Names : name # Null
      BY NullAssumption
    <2>4. printers'[i] \in Names \cup {Null} /\ (printers'[i] # Null <=> printers[i] # Null \/ NewPrinter(i))
      <3>1. CASE NewPrinter(i)
        <4>1. call.printer \in Names
          BY <1>1, <3>1 DEF PlugsPrinter, Refused, AllCalls
        <4> QED BY <1>3, <2>3, <3>1, <4>1
      <3>2. CASE ~NewPrinter(i) /\ seen.printer # Null /\ i = seen.printer
        <4>1. printers[i] \in Names
          BY <2>1, <2>2, <3>2
        <4>2. Printer(call, r.printer, printers[i]) \in Names
          BY <1>1, <4>1, PrinterType
        <4> QED BY <1>3, <2>3, <3>2, <4>1, <4>2
      <3>3. CASE ~NewPrinter(i) /\ ~(seen.printer # Null /\ i = seen.printer)
        BY <1>3, <2>1, <3>3
      <3> QED BY <3>1, <3>2, <3>3
    <2>5. NewPrinter(r.n) \/ printers'[r.n] = Null
      BY <1>1, <1>3, <2>1, <2>2
    <2> QED BY <2>4, <2>5
  <1>10. /\ device' \in DeviceRows /\ device'.deleted = device.deleted
         /\ device'.synced = IF call.op = "bulk" THEN r.n
                              ELSE IF call.op = "token" THEN 0 ELSE device.synced
         /\ device'.camera = IF New(r.n) THEN r.n ELSE device.camera
         /\ device'.printer = IF NewPrinter(r.n) THEN r.n ELSE device.printer
         /\ call.op = "token" /\ device'.connectivity = "online" => device.connectivity = "online"
    BY <1>1, <1>4, DeviceFields
  <1>11. /\ New(r.n) => call.op = "plug" /\ seen.camera = Null
         /\ NewPrinter(r.n) => call.op = "plug" /\ seen.printer = Null
    BY DEF PlugsCamera, PlugsPrinter
  <1>12. /\ syncLogs' \in [Ids -> SUBSET LogRows]
         /\ \A i \in Ids \ {r.n} : syncLogs'[i] = syncLogs[i]
         /\ IF call.op = "bulk" THEN \E row \in BulkRows : syncLogs'[r.n] = {row}
                                ELSE syncLogs'[r.n] = {}
    <2>1. syncLogs \in [Ids -> SUBSET LogRows] /\ syncLogs[r.n] = {}
      BY <1>1 DEF IInv, TypeOK, OpenInv
    <2> HIDE DEF r, call
    <2>2. CASE call.op = "bulk"
      <3>1. PICK row \in BulkRows : syncLogs' = [syncLogs EXCEPT ![r.n] = @ \cup {row}]
        BY <1>4, <2>2
      <3>2. row \in LogRows
        BY LoggedRows
      <3> QED BY <1>1, <2>1, <2>2, <3>1, <3>2
    <2>3. CASE call.op # "bulk"
      BY <1>4, <2>1, <2>3
    <2> QED BY <2>2, <2>3
  <1>13. cameras' \in [Ids -> CameraRows \cup {Null}] /\ printers' \in [Ids -> Names \cup {Null}]
    <2>1. /\ \A i \in Ids : cameras'[i] \in CameraRows \cup {Null}
          /\ \A i \in Ids : printers'[i] \in Names \cup {Null}
      BY <1>8, <1>9
    <2> QED BY <1>2, <1>3, <2>1
  <1> HIDE DEF r, call, seen, New, NewPrinter
  <1>14. TypeOK'
    <2>1. req' \in [Threads -> Handlers] /\ lost' \in BOOLEAN
      BY <1>4, <1>5 DEF IInv, TypeOK
    <2> QED BY <1>4, <1>10, <1>12, <1>13, <2>1 DEF IInv, TypeOK
  <1>15. OnlineIsPassing'
    <2>1. SUFFICES ASSUME device'.connectivity = "online" PROVE OnlineIsPassing'
      BY DEF OnlineIsPassing
    <2>2. CASE call.op = "token"
      <3>1. ~EndsOnline(t) /\ lost' = lost
        BY <1>1, <1>4, <2>1 DEF EndsOnline, Open, IInv, TypeOK
      <3> QED BY <1>6, <1>10, <2>1, <2>2, <3>1 DEF IInv, OnlineIsPassing, EndsOnline
    <2>3. CASE call.op # "token"
      BY <1>5, <1>6, <2>3 DEF OnlineIsPassing, EndsOnline
    <2> QED BY <2>2, <2>3
  <1>16. ~crossed' /\ call.op = "plug" => seen.camera = device.camera /\ seen.printer = device.printer
    BY <1>1, <1>4 DEF IInv, PlugInv, r, call, seen
  <1>17. NoStrayProfile'
    <2>1. ASSUME ~crossed', NEW i \in Ids
          PROVE  /\ cameras'[i] # Null => device'.camera = i
                 /\ printers'[i] # Null => device'.printer = i
      <3>1. /\ cameras[i] # Null => device.camera = i
            /\ printers[i] # Null => device.printer = i
        BY <1>4, <2>1 DEF IInv, NoStrayProfile
      <3>2. i \in Nat /\ i # Null
        BY IdsAreNumbers
      <3>3. New(r.n) => device.camera = Null
        BY <1>11, <1>16, <2>1
      <3>4. NewPrinter(r.n) => device.printer = Null
        BY <1>11, <1>16, <2>1
      <3>5. New(i) => i = r.n
        BY <1>8
      <3>6. NewPrinter(i) => i = r.n
        BY <1>9
      <3>7. cameras'[i] # Null => device'.camera = i
        BY <1>8, <1>10, <3>1, <3>2, <3>3, <3>5
      <3>8. printers'[i] # Null => device'.printer = i
        BY <1>9, <1>10, <3>1, <3>2, <3>4, <3>6
      <3> QED BY <3>7, <3>8
    <2> QED BY <2>1 DEF NoStrayProfile
  <1>18. StampIsLogged'
    <2>1. CASE call.op = "bulk"
      <3>1. device'.synced = r.n /\ \E row \in syncLogs'[r.n] : row \in BulkRows
        BY <1>10, <1>12, <2>1
      <3> QED BY <3>1 DEF StampIsLogged
    <2>2. CASE call.op = "token"
      BY <1>10, <2>2 DEF StampIsLogged
    <2>3. CASE call.op # "bulk" /\ call.op # "token"
      <3>1. device'.synced = device.synced
        BY <1>10, <2>3
      <3>2. device.synced # r.n
        BY <1>1 DEF OpenInv, r
      <3> QED BY <1>12, <3>1, <3>2 DEF IInv, StampIsLogged
    <2> QED BY <2>1, <2>2, <2>3
  <1>19. LoggedOnce'
    <2>1. \A row, other \in syncLogs'[r.n] : row = other
      BY <1>12
    <2>2. \A i \in Ids \ {r.n} : \A row, other \in syncLogs'[i] : row = other
      BY <1>12 DEF IInv, LoggedOnce
    <2> QED BY <2>1, <2>2 DEF LoggedOnce
  <1>20. LinkInv'
    <2>1. device.camera \in Ids \cup {Null} /\ device.printer \in Ids \cup {Null}
      BY Types DEF IInv
    <2> QED BY <1>1, <1>8, <1>9, <1>10, <2>1 DEF IInv, LinkInv
  <1>21. DeletedIsRefused'
    <2>1. ASSUME device'.deleted # Null, NEW i \in Ids, i > device'.deleted
          PROVE  /\ cameras'[i] = Null /\ printers'[i] = Null
                 /\ device'.synced # i
                 /\ \A row \in syncLogs'[i] : row.status = "failed" /\ ~row.tables
      <3>1. /\ cameras[i] = Null /\ printers[i] = Null
            /\ device.synced # i
            /\ \A row \in syncLogs[i] : row.status = "failed" /\ ~row.tables
        BY <1>10, <2>1 DEF IInv, DeletedIsRefused
      <3>2. device.deleted \in Nat /\ i # 0
        <4>1. device.deleted \in Nat
          BY <1>10, <2>1, Types, IdsAreNumbers DEF IInv
        <4> QED BY <1>10, <2>1, <4>1
      <3>3. CASE i = r.n
        <4>1. call.op = "token"
          BY <1>7, <1>10, <2>1, <3>3
        <4> QED BY <1>8, <1>9, <1>10, <1>11, <1>12, <3>1, <3>2, <3>3, <4>1
      <3>4. CASE i # r.n
        BY <1>8, <1>9, <1>10, <1>12, <3>1, <3>2, <3>4
      <3> QED BY <3>3, <3>4
    <2> QED BY <2>1 DEF DeletedIsRefused
  <1>22. FutureInv'
    <2>1. requests \in Nat /\ r.n <= requests /\ \A i \in Ids : i > requests => i # r.n
      BY <1>1, IdsAreNumbers DEF IInv, TypeOK
    <2> QED BY <1>1, <1>4, <1>8, <1>9, <1>10, <1>12, <2>1 DEF IInv, FutureInv
  <1>23. NumbersInv'
    BY <1>1, <1>5, <1>6 DEF IInv, NumbersInv, Active, r
  <1>24. ThreadInv(t)'
    <2>1. CASE call.op = "token"
      BY <1>5, <1>6, <2>1 DEF ThreadInv, Open, Active, LockInv
    <2>2. CASE call.op # "token"
      <3>1. AnswerInv(t)'
        BY <1>1, <1>5, <1>6, <1>7, <1>10, <1>12, <2>2 DEF AnswerInv
      <3> QED BY <1>1, <1>4, <1>5, <1>6, <2>2, <3>1 DEF ThreadInv, Open, Active, LockInv
    <2> QED BY <2>1, <2>2
  <1>25. ASSUME NEW u \in Threads \ {t}
         PROVE  ThreadInv(u)'
    <2>1. req[u] \in Handlers /\ requests \in Nat
      BY Types, IdsAreNumbers DEF IInv, TypeOK
    <2>2. req'[u] = [req[u] EXCEPT !.alone = req'[u].alone]
      BY <1>6, <2>1 DEF Handlers
    <2>3. Active(u) => req[u].n # r.n /\ req[u].n \in Ids \ {0}
      <3>1. Active(u) => req[u].n # r.n /\ req[u].n \in 1 .. requests
        BY <1>1 DEF IInv, NumbersInv, ThreadInv, r
      <3> QED BY <2>1, <3>1 DEF Handlers
    <2>4. Active(u) => /\ cameras[req[u].n] = Null => cameras'[req[u].n] = Null
                       /\ printers[req[u].n] = Null => printers'[req[u].n] = Null
      BY <1>8, <1>9, <2>3
    <2>5. Undisturbed(u)
      BY <1>1, <1>4, <1>8, <1>9, <1>10, <1>12, <2>1, <2>2, <2>3, <2>4 DEF Undisturbed
    <2> QED BY <2>5, OthersKeep DEF IInv
  <1>26. \A u \in Threads : PlugInv(u)'
    <2>1. ASSUME NEW u \in Threads, PlugInv(u), PlugInv(t), (Open(u) /\ req[u].call.op = "plug" /\ ~crossed)'
          PROVE  PlugInv(u)'
      <3>1. u # t /\ req'[u] = req[u] /\ Open(u) /\ req[u].call.op = "plug" /\ ~crossed
        BY <1>4, <1>5, <1>6, <2>1 DEF Open
      <3>2. call.op # "plug"
        BY <1>1, <2>1, <3>1 DEF PlugInv, r, call
      <3>3. device'.camera = device.camera /\ device'.printer = device.printer
        BY <1>10, <1>11, <3>2
      <3> QED BY <1>5, <1>6, <2>1, <3>1, <3>3 DEF PlugInv, Open
    <2> QED BY <2>1 DEF IInv, PlugInv
  <1> QED BY <1>14, <1>15, <1>17, <1>18, <1>19, <1>20, <1>21, <1>22, <1>23, <1>24, <1>25, <1>26
          DEF IInv

(***************************************************************************)
(* The theorems.                                                           *)
(***************************************************************************)
LEMMA InitIInv ==
  ASSUME Init
  PROVE  IInv
  <1> USE IdsAreNumbers, IdleType, NullAssumption
  <1>1. PICK camera \in AdminCameras :
          /\ device = [connectivity |-> "disconnect", health |-> Null,
                       camera |-> IF camera = Null THEN Null ELSE 0,
                       printer |-> Null, synced |-> Null, deleted |-> Null]
          /\ cameras = [i \in Ids |-> IF i = 0 THEN camera ELSE Null]
    BY DEF Init
  <1>2. camera \in CameraRows \cup {Null}
    BY CamerasAssumption
  <1>3. /\ device \in DeviceRows /\ device.connectivity = "disconnect"
        /\ device.printer = Null /\ device.synced = Null /\ device.deleted = Null
        /\ device.camera = IF camera = Null THEN Null ELSE 0
    BY <1>1 DEF DeviceRows
  <1>4. /\ printers = [i \in Ids |-> Null] /\ syncLogs = [i \in Ids |-> {}]
        /\ req = [t \in Threads |-> Idle] /\ requests = 0 /\ crossed = FALSE /\ lost = FALSE
    BY DEF Init
  <1>5. TypeOK
    BY <1>1, <1>2, <1>3, <1>4 DEF TypeOK
  <1>6. OnlineIsPassing /\ StampIsLogged /\ LoggedOnce /\ DeletedIsRefused
    BY <1>3, <1>4 DEF OnlineIsPassing, StampIsLogged, LoggedOnce, DeletedIsRefused
  <1>7. NoStrayProfile /\ LinkInv /\ FutureInv
    BY <1>1, <1>3, <1>4 DEF NoStrayProfile, LinkInv, FutureInv
  <1>8. NumbersInv /\ \A t \in Threads : ThreadInv(t) /\ PlugInv(t)
    BY <1>4 DEF NumbersInv, ThreadInv, PlugInv, LockInv, Open, Active
  <1> QED BY <1>5, <1>6, <1>7, <1>8 DEF IInv

LEMMA StutterKeeps ==
  ASSUME IInv, UNCHANGED vars
  PROVE  IInv'
  <1>1. ASSUME NEW t \in Threads
        PROVE  ThreadInv(t)' /\ PlugInv(t)'
    <2>1. ThreadInv(t) /\ PlugInv(t)
      BY DEF IInv
    <2>2. AnswerInv(t) => AnswerInv(t)'
      BY DEF AnswerInv, vars
    <2>3. OpenInv(t) => OpenInv(t)'
      BY DEF OpenInv, vars
    <2> QED BY <2>1, <2>2, <2>3 DEF ThreadInv, PlugInv, LockInv, Active, Open, vars
  <1>2. (\A t \in Threads : ThreadInv(t) /\ PlugInv(t))'
    BY <1>1
  <1> QED BY <1>2 DEF IInv, vars, TypeOK, OnlineIsPassing, EndsOnline, NoStrayProfile,
                      StampIsLogged, LoggedOnce, DeletedIsRefused, LinkInv, FutureInv,
                      NumbersInv, Active

LEMMA NextKeeps ==
  ASSUME IInv, [Next]_vars
  PROVE  IInv'
  <1>1. CASE \E t \in Threads : Step(t)
    BY <1>1, LockKeeps, RefuseKeeps, CommitKeeps, LoadAgainKeeps, NoteKeeps DEF Step
  <1>2. CASE \E t \in Threads : Crash(t)
    BY <1>2, CrashKeeps
  <1>3. CASE \E t \in Threads : \E call \in Calls : Begin(t, call)
    BY <1>3, BeginKeeps
  <1>4. CASE AdminDeletes
    BY <1>4, AdminDeletesKeeps
  <1>5. CASE UNCHANGED vars
    BY <1>5, StutterKeeps
  <1> QED BY <1>1, <1>2, <1>3, <1>4, <1>5 DEF Next

\* The inductive invariant holds in every reachable state.
THEOREM Inductive == Spec => []IInv
  <1>1. Init => IInv
    BY InitIInv
  <1>2. IInv /\ [Next]_vars => IInv'
    BY NextKeeps
  <1> QED BY <1>1, <1>2, PTL DEF Spec

\* All state has its type.
THEOREM TypeCorrect == Spec => []TypeOK
  <1>1. IInv => TypeOK
    BY DEF IInv
  <1> QED BY <1>1, Inductive, PTL

\* "online" is there only while bookkeeping that ends it is under way or lost.
THEOREM OnlinePasses == Spec => []OnlineIsPassing
  <1>1. IInv => OnlineIsPassing
    BY DEF IInv
  <1> QED BY <1>1, Inductive, PTL

\* Plug reports that do not cross leave no profile without a device.
THEOREM ProfilesAreLinked == Spec => []NoStrayProfile
  <1>1. IInv => NoStrayProfile
    BY DEF IInv
  <1> QED BY <1>1, Inductive, PTL

\* The time of the last sync is that of a GET that was answered or of a push that
\* was committed, whatever became of its items, and the log has the row.
THEOREM StampsAreLogged == Spec => []StampIsLogged
  <1>1. IInv => StampIsLogged
    BY DEF IInv
  <1> QED BY <1>1, Inductive, PTL

\* The endpoint and the middleware never both log one request.
THEOREM OneLogEach == Spec => []LoggedOnce
  <1>1. IInv => LoggedOnce
    BY DEF IInv
  <1> QED BY <1>1, Inductive, PTL

\* A deleted device gets and leaves nothing.
THEOREM DeletedStaysOut == Spec => []DeletedIsRefused
  <1>1. IInv => DeletedIsRefused
    BY DEF IInv
  <1> QED BY <1>1, Inductive, PTL

\* Whoever holds a lock of the last kind waits for nobody, and whoever holds one
\* of an earlier kind waits at most for a later one.
LEMMA OrderMakesProgress ==
  ASSUME IInv
  PROVE  NoLockCycle
  <1> DEFINE Busy(t) == req[t].pc \in {"open", "noting"}
             Goes(t) == req[t].todo = {} \/ \E table \in Tables : CanLock(t, table)
  <1>1. SUFFICES ASSUME NEW t \in Threads, Busy(t), \A u \in Threads : Busy(u) => ~Goes(u)
                 PROVE  FALSE
    BY DEF NoLockCycle
  <1>2. ASSUME NEW u \in Threads
        PROVE  /\ req[u].todo \subseteq Tables /\ req[u].held \subseteq Tables /\ LockInv(u)
               /\ req[u].held # {} => Busy(u)
               /\ req[u].pc \in {"idle", "open", "answered", "noting"}
    BY Types DEF IInv, ThreadInv, Handlers
  <1>3. ASSUME NEW u \in Threads, Busy(u)
        PROVE  "device" \notin req[u].held
    BY <1>1, <1>2, <1>3 DEF LockInv, Earlier, Tables
  <1>4. ASSUME NEW u \in Threads, Busy(u)
        PROVE  req[u].todo # {} /\ req[u].todo # {"device"}
    BY <1>1, <1>2, <1>3, <1>4 DEF CanLock, Earlier, Tables
  <1>5. ASSUME NEW u \in Threads, Busy(u)
        PROVE  "printer" \notin req[u].held
    BY <1>2, <1>4, <1>5 DEF LockInv, Earlier, Tables
  <1>6. ASSUME NEW u \in Threads, Busy(u)
        PROVE  "camera" \in req[u].todo
    <2>1. SUFFICES ASSUME "camera" \notin req[u].todo PROVE FALSE
      OBVIOUS
    <2>2. "printer" \in req[u].todo /\ Earlier("printer") \cap req[u].todo = {}
      BY <1>2, <1>4, <1>6, <2>1 DEF Earlier, Tables
    <2>3. CanLock(u, "printer")
      BY <1>2, <1>5, <2>2 DEF CanLock
    <2> QED BY <1>1, <1>6, <2>3 DEF Tables
  <1>7. \A u \in Threads : "camera" \notin req[u].held
    BY <1>2, <1>6 DEF LockInv, Earlier
  <1>8. CanLock(t, "camera")
    BY <1>1, <1>6, <1>7 DEF CanLock, Earlier
  <1> QED BY <1>1, <1>8 DEF Tables

\* The order of the locks admits no cycle.
THEOREM NoDeadlock == Spec => []NoLockCycle
  <1>1. IInv => NoLockCycle
    BY OrderMakesProgress
  <1> QED BY <1>1, Inductive, PTL

(***************************************************************************)
(* A request that overlaps no other: AloneInv, and what it gives.          *)
(***************************************************************************)
\* The columns that the facts about a commit above leave out.
LEMMA DeviceHealth ==
  ASSUME NEW call \in AllCalls, NEW n \in Ids, NEW seen \in DeviceRows, NEW row \in DeviceRows
  PROVE  Device(call, n, seen, row).health =
           IF Reports(call) /\ Differs(call.health, seen.health) THEN call.health ELSE row.health
  BY DEF Device, DeviceRows

LEMMA NotedHealth ==
  ASSUME NEW r \in Handlers, NEW row \in DeviceRows
  PROVE  Noted(r, row).health = row.health
  BY DEF Noted, DeviceRows

LEMMA CameraFields ==
  ASSUME NEW call, NEW camera, NEW row \in CameraRows
  PROVE  /\ Camera(call, camera, row).name =
              IF PlugsCamera(call) /\ Differs(call.camera, camera.name)
                THEN call.camera ELSE row.name
         /\ Camera(call, camera, row).battery =
              IF Reports(call) /\ Differs(call.battery, camera.battery)
                THEN call.battery ELSE row.battery
  BY DEF Camera, CameraRows

\* Whoever overlaps no other is the one that steps.
LEMMA OnlyOneAlone ==
  ASSUME NEW t \in Threads, Active(t), \A u \in Threads : AloneInv(u),
         \A u \in Threads \ {t} : req'[u] = req[u], AloneInv(t)'
  PROVE  \A u \in Threads : AloneInv(u)'
  <1>1. ASSUME NEW u \in Threads \ {t}
        PROVE  ~req'[u].alone
    BY <1>1 DEF AloneInv
  <1> QED BY <1>1 DEF AloneInv

LEMMA StaysAlone ==
  ASSUME NEW t \in Threads, AloneInv(t), \A u \in Threads \ {t} : req'[u] = req[u],
         req'[t].alone, req'[t].alone = req[t].alone
  PROVE  \A u \in Threads \ {t} : ~Active(u)'
  <1>1. \A u \in Threads \ {t} : ~Active(u)
    BY DEF AloneInv
  <1> QED BY <1>1 DEF Active

LEMMA LockStaysExact ==
  ASSUME ExactInv, NEW t \in Threads, NEW table \in Tables, Lock(t, table)
  PROVE  \A u \in Threads : AloneInv(u)'
  <1>1. req[t] \in Handlers /\ req \in [Threads -> Handlers]
    BY DEF ExactInv, IInv, TypeOK
  <1>2. /\ req' = [req EXCEPT ![t] = [req[t] EXCEPT !.todo = @ \ {table}, !.held = @ \cup {table}]]
        /\ UNCHANGED <<device, cameras, printers>>
    BY DEF Lock
  <1>3. /\ \A u \in Threads \ {t} : req'[u] = req[u]
        /\ req'[t].pc = req[t].pc /\ req'[t].call = req[t].call /\ req'[t].ok = req[t].ok
        /\ req'[t].seen = req[t].seen /\ req'[t].camera = req[t].camera
        /\ req'[t].printer = req[t].printer /\ req'[t].alone = req[t].alone
    BY <1>1, <1>2 DEF Handlers
  <1>4. Active(t)
    BY <1>1 DEF ExactInv, IInv, ThreadInv, Active, Lock, CanLock
  <1>5. AloneInv(t)'
    BY <1>2, <1>3 DEF ExactInv, AloneInv, Shown, Active
  <1> QED BY <1>3, <1>4, <1>5, OnlyOneAlone DEF ExactInv

LEMMA RefuseStaysExact ==
  ASSUME ExactInv, NEW t \in Threads, Refuse(t)
  PROVE  \A u \in Threads : AloneInv(u)'
  <1>1. req[t] \in Handlers /\ req \in [Threads -> Handlers] /\ Active(t)
    BY DEF ExactInv, IInv, TypeOK, Refuse, Open, Active
  <1>2. /\ \A u \in Threads \ {t} : req'[u] = req[u]
        /\ req'[t] = Answered(req[t], FALSE)
    BY <1>1 DEF Refuse
  <1>3. req'[t].pc = "answered" /\ req'[t].ok = FALSE /\ req'[t].alone = req[t].alone
    BY <1>2 DEF Answered, Idle
  <1>4. req'[t].alone => \A u \in Threads \ {t} : ~Active(u)'
    BY <1>2, <1>3, StaysAlone DEF ExactInv
  <1>5. AloneInv(t)'
    BY <1>3, <1>4 DEF AloneInv
  <1> QED BY <1>1, <1>2, <1>5, OnlyOneAlone DEF ExactInv

LEMMA LoadAgainStaysExact ==
  ASSUME ExactInv, NEW t \in Threads, LoadAgain(t)
  PROVE  \A u \in Threads : AloneInv(u)'
  <1> DEFINE todo == IF Delivers(req[t]) \/ device.connectivity # Outcome(req[t])
                       THEN {"device"} ELSE {}
  <1>1. req[t] \in Handlers /\ req \in [Threads -> Handlers] /\ Active(t)
    BY DEF ExactInv, IInv, TypeOK, LoadAgain, Active
  <1>2. /\ req' = [req EXCEPT ![t] = [req[t] EXCEPT !.pc = "noting", !.seen = device, !.todo = todo]]
        /\ req[t].pc = "answered" /\ UNCHANGED <<device, cameras, printers>>
    BY DEF LoadAgain
  <1> HIDE DEF todo
  <1>3. /\ \A u \in Threads \ {t} : req'[u] = req[u]
        /\ req'[t].pc = "noting" /\ req'[t].call = req[t].call /\ req'[t].ok = req[t].ok
        /\ req'[t].seen = device /\ req'[t].alone = req[t].alone
    BY <1>1, <1>2 DEF Handlers
  <1>4. AloneInv(t)'
    BY <1>2, <1>3 DEF ExactInv, AloneInv, Shown, Active
  <1> QED BY <1>1, <1>3, <1>4, OnlyOneAlone DEF ExactInv

\* A request that ends is alone no more.
LEMMA EndStaysExact ==
  ASSUME ExactInv, NEW t \in Threads, Active(t), req' = [req EXCEPT ![t] = Idle]
  PROVE  \A u \in Threads : AloneInv(u)'
  <1>1. req'[t] = Idle /\ \A u \in Threads \ {t} : req'[u] = req[u]
    BY DEF ExactInv, IInv, TypeOK
  <1>2. AloneInv(t)'
    BY <1>1 DEF AloneInv, Idle
  <1> QED BY <1>1, <1>2, OnlyOneAlone DEF ExactInv

LEMMA BeginStaysExact ==
  ASSUME ExactInv, NEW t \in Threads, NEW call \in Calls, Begin(t, call)
  PROVE  \A u \in Threads : AloneInv(u)'
  <1> DEFINE camera == IF device.camera = Null THEN Null ELSE cameras[device.camera]
             printer == IF device.printer = Null THEN Null ELSE printers[device.printer]
             todo == Flushes(call, device, camera, printer)
             alone == \A v \in Threads : ~Active(v)
             r == [Idle EXCEPT !.pc = "open", !.call = call, !.n = requests + 1,
                     !.seen = device, !.camera = camera, !.printer = printer,
                     !.todo = todo, !.alone = alone]
  <1>0. UNCHANGED <<device, cameras, printers>>
    BY DEF Begin
  <1>1. req' = [u \in Threads |-> IF u = t THEN r ELSE [req[u] EXCEPT !.alone = FALSE]]
    BY DEF Begin
  <1>2. /\ r.pc = "open" /\ r.seen = device /\ r.alone = alone
        /\ device.camera # Null => r.camera = cameras[device.camera]
        /\ device.printer # Null => r.printer = printers[device.printer]
    BY DEF Idle
  <1> HIDE DEF r
  <1>3. \A u \in Threads \ {t} : /\ req'[u].alone = FALSE /\ req'[u].pc = req[u].pc
    <2>1. ASSUME NEW u \in Threads \ {t}
          PROVE  req'[u].alone = FALSE /\ req'[u].pc = req[u].pc
      <3>1. req[u] \in Handlers /\ req'[u] = [req[u] EXCEPT !.alone = FALSE]
        BY <1>1, <2>1 DEF ExactInv, IInv, TypeOK
      <3> QED BY <3>1 DEF Handlers
    <2> QED BY <2>1
  <1>4. device = [device EXCEPT !.deleted = device.deleted]
    BY DEF ExactInv, IInv, TypeOK, DeviceRows
  <1>5. AloneInv(t)'
    <2>1. req'[t] = r
      BY <1>1
    <2>2. r.alone => \A u \in Threads \ {t} : ~Active(u)'
      BY <1>2, <1>3 DEF Active
    <2> QED BY <1>0, <1>2, <1>4, <2>1, <2>2 DEF AloneInv
  <1> QED BY <1>3, <1>5 DEF AloneInv

LEMMA AdminDeletesStaysExact ==
  ASSUME ExactInv, AdminDeletes
  PROVE  \A u \in Threads : AloneInv(u)'
  <1>1. /\ device \in DeviceRows /\ device' = [device EXCEPT !.deleted = requests]
        /\ UNCHANGED <<cameras, printers, req>>
    BY DEF AdminDeletes, ExactInv, IInv, TypeOK
  <1>2. /\ device'.deleted = requests /\ device'.health = device.health
        /\ device'.camera = device.camera /\ device'.printer = device.printer
        /\ device'.connectivity = device.connectivity
    BY <1>1 DEF DeviceRows
  <1>3. ASSUME NEW u \in Threads, req[u].alone, req[u].pc = "open"
        PROVE  device' = [req[u].seen EXCEPT !.deleted = device'.deleted]
    <2>1. req[u].seen \in DeviceRows
      BY <1>3 DEF ExactInv, IInv, ThreadInv, Open, OpenInv
    <2>2. device = [req[u].seen EXCEPT !.deleted = device.deleted]
      BY <1>3 DEF ExactInv, AloneInv
    <2> QED BY <1>1, <1>2, <2>1, <2>2 DEF DeviceRows
  <1> QED BY <1>1, <1>2, <1>3 DEF ExactInv, AloneInv, Shown, Active

\* What a commit writes when the rows are still those that were loaded.
LEMMA CommitShows ==
  ASSUME ExactInv, NEW t \in Threads, Commit(t), req[t].alone, NEW call, call = req[t].call
  PROVE  Shown(call)'
  <1> DEFINE r == req[t]
             seen == r.seen
  <1>1. /\ r \in Handlers /\ device \in DeviceRows /\ ~Refused(call, seen)
        /\ call \in AllCalls /\ seen \in DeviceRows /\ r.n \in Ids /\ OpenInv(t)
    <2>1. r \in Handlers /\ device \in DeviceRows /\ Open(t) /\ ~Refused(call, seen)
      BY DEF ExactInv, IInv, TypeOK, Commit
    <2>2. Active(t) /\ OpenInv(t) /\ call \in Calls
      BY <2>1 DEF ExactInv, IInv, ThreadInv, Open, Active
    <2> QED BY <2>1, <2>2, CallsAssumption DEF Handlers, OpenInv
  <1>2. /\ device.camera = seen.camera /\ device.printer = seen.printer
        /\ device.health = seen.health
        /\ seen.camera # Null => r.camera = cameras[seen.camera]
        /\ seen.printer # Null => r.printer = printers[seen.printer]
    <2>1. /\ device = [seen EXCEPT !.deleted = device.deleted]
          /\ seen.camera # Null => r.camera = cameras[seen.camera]
          /\ seen.printer # Null => r.printer = printers[seen.printer]
      BY DEF ExactInv, AloneInv, Commit, Open
    <2>2. seen.camera = [seen EXCEPT !.deleted = device.deleted].camera
          /\ seen.printer = [seen EXCEPT !.deleted = device.deleted].printer
          /\ seen.health = [seen EXCEPT !.deleted = device.deleted].health
      BY <1>1 DEF DeviceRows
    <2> HIDE DEF seen, r
    <2> QED BY <2>1, <2>2
  <1>3. /\ device' = Device(call, r.n, seen, device)
        /\ cameras' = [i \in Ids |->
             IF PlugsCamera(call) /\ seen.camera = Null /\ i = r.n
               THEN [name |-> call.camera, battery |-> Null]
             ELSE IF seen.camera # Null /\ i = seen.camera
               THEN Camera(call, r.camera, cameras[i]) ELSE cameras[i]]
        /\ printers' = [i \in Ids |->
             IF PlugsPrinter(call) /\ seen.printer = Null /\ i = r.n THEN call.printer
             ELSE IF seen.printer # Null /\ i = seen.printer
               THEN Printer(call, r.printer, printers[i]) ELSE printers[i]]
    BY DEF Commit
  <1>4. /\ device'.camera = IF PlugsCamera(call) /\ seen.camera = Null THEN r.n ELSE seen.camera
        /\ device'.printer = IF PlugsPrinter(call) /\ seen.printer = Null THEN r.n ELSE seen.printer
        /\ Reports(call) /\ call.health # Null => device'.health = call.health
    <2>1. Device(call, r.n, seen, device).health =
            IF Reports(call) /\ Differs(call.health, seen.health) THEN call.health ELSE device.health
      BY <1>1, DeviceHealth
    <2> HIDE DEF r, seen
    <2> QED BY <1>1, <1>2, <1>3, <2>1, DeviceFields DEF Differs
  <1>5. /\ Reports(call) => ~PlugsCamera(call)
        /\ Reports(call) /\ call.battery # Null => seen.camera # Null
    BY <1>1 DEF Reports, PlugsCamera, Refused, Barred, CameraMissing
  <1>6. ASSUME seen.camera # Null
        PROVE  /\ seen.camera \in Ids /\ cameras[seen.camera] \in CameraRows
               /\ cameras'[seen.camera] =
                    Camera(call, cameras[seen.camera], cameras[seen.camera])
    <2>1. seen.camera \in Ids /\ r.camera \in CameraRows /\ r.camera = cameras[seen.camera]
      BY <1>1, <1>2, <1>6 DEF OpenInv, DeviceRows
    <2> HIDE DEF r, seen
    <2> QED BY <1>3, <1>6, <2>1
  <1>7. Reports(call) /\ call.battery # Null => cameras'[device'.camera].battery = call.battery
    <2> HIDE DEF r, seen
    <2> QED BY <1>4, <1>5, <1>6, CameraFields DEF Differs
  <1>8. PlugsCamera(call) => cameras'[device'.camera].name = call.camera
    <2> HIDE DEF r, seen
    <2>1. CASE PlugsCamera(call) /\ seen.camera = Null
      <3>1. cameras'[r.n] = [name |-> call.camera, battery |-> Null]
        BY <1>1, <1>3, <2>1
      <3> QED BY <1>4, <2>1, <3>1
    <2>2. CASE PlugsCamera(call) /\ seen.camera # Null
      <3>1. call.camera # Null
        BY <2>2 DEF PlugsCamera
      <3> QED BY <1>4, <1>6, <2>2, <3>1, CameraFields DEF Differs
    <2> QED BY <2>1, <2>2
  <1>9. PlugsPrinter(call) => printers'[device'.printer] = call.printer
    <2>1. seen.printer # Null => seen.printer \in Ids
      BY <1>1 DEF DeviceRows
    <2> HIDE DEF r, seen
    <2> QED BY <1>1, <1>2, <1>3, <1>4, <2>1 DEF Printer, PlugsPrinter, Differs
  <1> QED BY <1>4, <1>7, <1>8, <1>9 DEF Shown

LEMMA CommitStaysExact ==
  ASSUME ExactInv, NEW t \in Threads, Commit(t)
  PROVE  \A u \in Threads : AloneInv(u)'
  <1>1. req[t] \in Handlers /\ req \in [Threads -> Handlers] /\ Active(t)
    BY DEF ExactInv, IInv, TypeOK, Commit, Open, Active
  <1>2. CASE req[t].call.op = "token"
    BY <1>1, <1>2, EndStaysExact DEF Commit
  <1>3. CASE req[t].call.op # "token"
    <2>1. /\ \A u \in Threads \ {t} : req'[u] = req[u]
          /\ req'[t] = Answered(req[t], TRUE)
      BY <1>1, <1>3 DEF Commit
    <2>2. /\ req'[t].pc = "answered" /\ req'[t].call = req[t].call
          /\ req'[t].alone = req[t].alone
      BY <2>1 DEF Answered, Idle
    <2>3. req[t].alone => \A call : call = req[t].call => Shown(call)'
      BY CommitShows
    <2>4. req[t].alone => Shown(req[t].call)'
      BY <2>2, <2>3 DEF Shown
    <2>5. req'[t].alone => \A u \in Threads \ {t} : ~Active(u)'
      BY <2>1, <2>2, StaysAlone DEF ExactInv
    <2>6. AloneInv(t)'
      BY <2>2, <2>4, <2>5 DEF AloneInv
    <2> QED BY <1>1, <2>1, <2>6, OnlyOneAlone DEF ExactInv
  <1> QED BY <1>2, <1>3

LEMMA NextStaysExact ==
  ASSUME ExactInv, [Next]_vars
  PROVE  ExactInv'
  <1>1. SUFFICES \A u \in Threads : AloneInv(u)'
    BY NextKeeps DEF ExactInv
  <1>2. CASE \E t \in Threads : Step(t) \/ Crash(t)
    <2>1. \A t \in Threads :
            Note(t) \/ Crash(t) => Active(t) /\ req' = [req EXCEPT ![t] = Idle]
      BY DEF Note, Crash, Active
    <2>2. \A t \in Threads : Note(t) \/ Crash(t) => \A u \in Threads : AloneInv(u)'
      BY <2>1, EndStaysExact
    <2> QED BY <1>2, <2>2, LockStaysExact, RefuseStaysExact, CommitStaysExact,
               LoadAgainStaysExact DEF Step
  <1>3. CASE \E t \in Threads : \E call \in Calls : Begin(t, call)
    BY <1>3, BeginStaysExact
  <1>4. CASE AdminDeletes
    BY <1>4, AdminDeletesStaysExact
  <1>5. CASE UNCHANGED vars
    BY <1>5 DEF ExactInv, vars, AloneInv, Shown, Active
  <1> QED BY <1>2, <1>3, <1>4, <1>5 DEF Next

\* A request that overlaps no other finds the rows as it loaded them.
THEOREM ExactInductive == Spec => []ExactInv
  <1>1. Init => ExactInv
    <2>1. Init => req = [t \in Threads |-> Idle]
      BY DEF Init
    <2>2. Idle.alone = FALSE
      BY DEF Idle
    <2> QED BY <2>1, <2>2, InitIInv DEF ExactInv, AloneInv
  <1>2. ExactInv /\ [Next]_vars => ExactInv'
    BY NextStaysExact
  <1> QED BY <1>1, <1>2, PTL DEF Spec

\* The bookkeeping changes the state word and the time of the last sync only.
LEMMA NoteShows ==
  ASSUME ExactInv, NEW t \in Threads, Note(t), req[t].alone
  PROVE  ShowsWhatItSaid(req[t])
  <1>1. /\ req[t] \in Handlers /\ device \in DeviceRows /\ req[t].pc = "noting"
        /\ device' = Noted(req[t], device) /\ UNCHANGED <<cameras, printers>>
    BY DEF ExactInv, IInv, TypeOK, Note
  <1>2. /\ req[t].ok => Shown(req[t].call)
        /\ req[t].seen.connectivity = device.connectivity
    BY <1>1 DEF ExactInv, AloneInv
  <1>3. /\ device'.camera = device.camera /\ device'.printer = device.printer
        /\ device'.health = device.health
        /\ device'.synced = IF Delivers(req[t]) THEN req[t].n ELSE device.synced
        /\ device'.connectivity =
             IF Outcome(req[t]) # req[t].seen.connectivity THEN Outcome(req[t])
                                                          ELSE device.connectivity
    BY <1>1, NotedFields, NotedHealth
  <1> QED BY <1>1, <1>2, <1>3 DEF ShowsWhatItSaid, Shown

\* When a request that overlapped no other is noted, the rows show what it
\* reported and how it was answered, whatever was refused or crashed before.
THEOREM AloneReportsExact == Spec => AloneIsExact
  <1>1. ExactInv /\ [Next]_vars =>
          [\A t \in Threads : Note(t) /\ req[t].alone => ShowsWhatItSaid(req[t])]_vars
    BY NoteShows
  <1> QED BY <1>1, ExactInductive, PTL DEF Spec, AloneIsExact
=============================================================================
