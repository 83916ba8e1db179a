--------------------------- MODULE ConnectionPool ---------------------------
(***************************************************************************)
(* The database connections that the requests of one process share.  Every *)
(* Session takes its connection at its first statement, gives it back at   *)
(* commit, rollback and close, and takes one again when it is used after a *)
(* commit.  The Session of get_db is closed once the answer has been sent; *)
(* the bookkeeping of the middleware runs before that, in a Session of its *)
(* own, so a request may hold two connections and wait for the second with *)
(* the first in hand.                                                      *)
(*                                                                         *)
(* Threads of the pool that runs the handlers are not modelled: a request  *)
(* that waits for a connection blocks one, which can only make it wait     *)
(* longer.  Row locks are in the modules of the handlers.                  *)
(***************************************************************************)
EXTENDS Naturals, FiniteSets

CONSTANTS
  Requests,   \* requests that are open at one time
  PoolLimit   \* pool_size + max_overflow of the engine

ASSUME RequestsAssumption == IsFiniteSet(Requests)
ASSUME LimitAssumption == PoolLimit \in Nat \ {0}

VARIABLES
  kind,   \* what a request does
  pc,     \* where it is
  held    \* the connections in use: who has it, for which Session

vars == <<kind, pc, held>>

\* A GET, or a write, or send_whatsapp_message, or authorize_device; a handler
\* that only forwards to another service; the two token endpoints.
Kinds == {"read", "write", "message", "authorize", "forward", "token"}

UsesDb(k)   == k \in {"read", "write", "message", "authorize"}
CallsOut(k) == k \in {"message", "authorize", "forward", "token"}
Commits(k)  == k \in {"write", "authorize"}

\* The middleware keeps books of every answer to a known client; a token endpoint
\* keeps its own, of its successes; authorize_device has no client yet.
BooksSuccess(k) == k # "authorize"
BooksError(k)   == k \notin {"authorize", "token"}

Full == Cardinality(held) >= PoolLimit

Init ==
  /\ kind = [r \in Requests |-> "read"]
  /\ pc   = [r \in Requests |-> "idle"]
  /\ held = {}

Goto(r, place) == pc' = [pc EXCEPT ![r] = place]
Release(r)     == held' = held \ {<<r, "request">>}

-----------------------------------------------------------------------------
\* A request arrives; a handler that asks another service first has nothing of
\* the database yet.
Arrive(r, k) ==
  /\ pc[r] = "idle"
  /\ kind' = [kind EXCEPT ![r] = k]
  /\ Goto(r, IF UsesDb(k) THEN "connect" ELSE "outside")
  /\ UNCHANGED held

\* It is refused before its handler runs: a body that does not validate.
Reject(r, k) ==
  /\ pc[r] = "idle"
  /\ BooksError(k)
  /\ kind' = [kind EXCEPT ![r] = k]
  /\ Goto(r, "record")
  /\ UNCHANGED held

\* The first statement of a Session, and the first one after its commit: the
\* answer reads the row again.
Connect(r) ==
  /\ pc[r] \in {"connect", "refresh"}
  /\ ~Full
  /\ held' = held \cup {<<r, "request">>}
  /\ Goto(r, CASE pc[r] = "connect" -> "work"
               [] pc[r] = "refresh" -> IF BooksSuccess(kind[r]) THEN "record" ELSE "send")
  /\ UNCHANGED kind

\* Mutant: a Session waits for its connection as long as it takes.
PatientConnect(r) ==
  /\ pc[r] \in {"connect", "refresh"}
  /\ Full
  /\ UNCHANGED vars

\* No connection came free in time.  authorize_device answers 503, the others do
\* not catch it; an exception passes the middleware by.
PoolTimeout(r) ==
  /\ pc[r] \in {"connect", "refresh"}
  /\ Full
  /\ Goto(r, "failed")
  /\ UNCHANGED <<kind, held>>

\* The handler has what it read and keeps its transaction.
Read(r) ==
  /\ pc[r] = "work"
  /\ ~Commits(kind[r]) /\ ~CallsOut(kind[r])
  /\ Goto(r, "record")
  /\ UNCHANGED <<kind, held>>

\* It calls the SSO or WAHA with its transaction open.
CallOut(r) ==
  /\ pc[r] = "work"
  /\ CallsOut(kind[r])
  /\ Goto(r, "outside")
  /\ UNCHANGED <<kind, held>>

\* The other service has answered, or there is none to ask: commit.
Commit(r) ==
  /\ Commits(kind[r])
  /\ pc[r] = IF CallsOut(kind[r]) THEN "outside" ELSE "work"
  /\ Release(r)
  /\ Goto(r, "refresh")
  /\ UNCHANGED kind

OutsideAnswers(r) ==
  /\ pc[r] = "outside"
  /\ ~Commits(kind[r])
  /\ Goto(r, "record")
  /\ UNCHANGED <<kind, held>>

\* An HTTPException of the handler, at the latest when the other service fails or
\* does not answer in time: the Session is closed before the error is sent.
Refuse(r) ==
  /\ pc[r] \in {"work", "outside"}
  /\ Release(r)
  /\ Goto(r, IF BooksError(kind[r]) THEN "record" ELSE "send")
  /\ UNCHANGED kind

\* Mutant: get_db does not close its Session when the handler raises.
LeakyBreak(r) ==
  /\ pc[r] \in {"work", "outside"}
  /\ Goto(r, "failed")
  /\ UNCHANGED <<kind, held>>

\* Any other exception: likewise, without books.
Break(r) ==
  /\ pc[r] \in {"work", "outside"}
  /\ Release(r)
  /\ Goto(r, "failed")
  /\ UNCHANGED kind

-----------------------------------------------------------------------------
\* Mutant: the bookkeeping has a connection that the pool does not count.
UncountedRecord(r) ==
  /\ pc[r] = "record"
  /\ held' = held \cup {<<r, "books">>}
  /\ Goto(r, "recording")
  /\ UNCHANGED kind

\* The bookkeeping takes a second connection, or none in time, and goes on.
Record(r) ==
  /\ pc[r] = "record"
  /\ ~Full
  /\ held' = held \cup {<<r, "books">>}
  /\ Goto(r, "recording")
  /\ UNCHANGED kind

\* Mutant: the bookkeeping waits for its connection as long as it takes.
RecordWaits(r) ==
  /\ pc[r] = "record"
  /\ Full
  /\ UNCHANGED vars

RecordTimeout(r) ==
  /\ pc[r] = "record"
  /\ Full
  /\ Goto(r, "send")
  /\ UNCHANGED <<kind, held>>

\* Mutant: the Session of the bookkeeping is not closed.
RecordedOpen(r) ==
  /\ pc[r] = "recording"
  /\ Goto(r, "send")
  /\ UNCHANGED <<kind, held>>

Recorded(r) ==
  /\ pc[r] = "recording"
  /\ held' = held \ {<<r, "books">>}
  /\ Goto(r, "send")
  /\ UNCHANGED kind

\* The answer is sent, then the Session of get_db is closed.
Send(r) ==
  /\ pc[r] \in {"send", "failed"}
  /\ Release(r)
  /\ Goto(r, "idle")
  /\ UNCHANGED kind

-----------------------------------------------------------------------------
Progress(r) ==
  \/ Connect(r) \/ PoolTimeout(r) \/ Read(r) \/ CallOut(r) \/ Commit(r)
  \/ OutsideAnswers(r) \/ Refuse(r) \/ Break(r)
  \/ Record(r) \/ RecordTimeout(r) \/ Recorded(r) \/ Send(r)

Next ==
  \E r \in Requests :
    Progress(r) \/ (\E k \in Kinds : Arrive(r, k) \/ Reject(r, k))

Spec == Init /\ [][Next]_vars

\* Threads go on, the calls to other services have timeouts, and so has a wait
\* for the pool: whether it is full or not, one of the two ends it.
FairSpec == Spec /\ \A r \in Requests : WF_vars(Progress(r))

-----------------------------------------------------------------------------
(***************************************************************************)
(* Properties.                                                             *)
(***************************************************************************)
Places == {"idle", "connect", "work", "outside", "refresh", "record", "recording", "send",
           "failed"}

Waiting(r) == pc[r] \in {"connect", "refresh", "record"}

\* Types; the pool is never overdrawn.
TypeOK ==
  /\ kind \in [Requests -> Kinds]
  /\ pc \in [Requests -> Places]
  /\ held \subseteq Requests \X {"request", "books"}
  /\ Cardinality(held) <= PoolLimit

\* On every path, refused, failed or answered, a connection is given back: a
\* request that is over, or that has still to be served its first one, has none,
\* and the bookkeeping has its own only while it writes.
ConnectionsReturned ==
  \A r \in Requests :
    /\ pc[r] \in {"idle", "connect", "refresh", "failed"} => <<r, "request">> \notin held
    /\ <<r, "books">> \in held => pc[r] = "recording"

\* A full pool whose holders all wait for another connection is possible, as more
\* requests may be open than there are connections; but only their bookkeeping
\* waits with a connection in hand, so it takes as many answers that are made and
\* not yet sent as the pool has connections, one each, and never a handler.
CircleOfBooksOnly ==
  (Full /\ \A c \in held : Waiting(c[1])) =>
    Cardinality({r \in Requests : pc[r] = "record" /\ <<r, "request">> \in held}) = PoolLimit

\* The inductive invariant.
IInv == TypeOK /\ ConnectionsReturned

\* A full pool has a connection to give again, whoever has them: handlers that ask
\* a slow service with their transaction open, or requests that each wait for a
\* second one in their bookkeeping.
FullPoolDrains == Full ~> ~Full

\* Every request is answered, though others may be served every connection that
\* comes free while it waits.
EveryRequestEnds == \A r \in Requests : pc[r] # "idle" ~> pc[r] = "idle"

=============================================================================
