------------------------ MODULE ConnectionPoolProofs ------------------------
(***************************************************************************)
(* Proofs about ConnectionPool: connections are given back on every path,  *)
(* and only bookkeeping waits with a connection in hand.                   *)
(***************************************************************************)
EXTENDS ConnectionPool, FiniteSetTheorems, TLAPS

\* Only finitely many connections are in use.
LEMMA HeldFinite ==
  ASSUME TypeOK
  PROVE  IsFiniteSet(held) /\ Cardinality(held) \in Nat
  <1>1. IsFiniteSet({"request", "books"})
    <2>1. IsFiniteSet({"request"})
      BY FS_Singleton
    <2>2. IsFiniteSet({"request"} \cup {"books"})
      BY <2>1, FS_AddElement
    <2>3. {"request", "books"} = {"request"} \cup {"books"}
      OBVIOUS
    <2> QED BY <2>2, <2>3
  <1>2. IsFiniteSet(Requests \X {"request", "books"})
    BY <1>1, RequestsAssumption, FS_Product
  <1>3. IsFiniteSet(held)
    BY <1>2, FS_Subset DEF TypeOK
  <1> QED BY <1>3, FS_CardinalityType

\* One element more or less.
LEMMA OneElement ==
  ASSUME NEW S, IsFiniteSet(S), NEW c
  PROVE  /\ Cardinality(S) \in Nat
         /\ Cardinality(S \cup {c}) \in Nat /\ Cardinality(S \cup {c}) <= Cardinality(S) + 1
         /\ Cardinality(S \ {c}) \in Nat /\ Cardinality(S \ {c}) <= Cardinality(S)
  <1>1. Cardinality(S) \in Nat /\ IsFiniteSet(S \cup {c})
    BY FS_CardinalityType, FS_AddElement
  <1>2. Cardinality(S \cup {c}) = IF c \in S THEN Cardinality(S) ELSE Cardinality(S) + 1
    BY FS_AddElement
  <1>3. S \ {c} \in SUBSET S
    OBVIOUS
  <1>4. IsFiniteSet(S \ {c}) /\ Cardinality(S \ {c}) <= Cardinality(S)
    BY <1>3, FS_Subset
  <1>5. Cardinality(S \ {c}) \in Nat
    BY <1>4, FS_CardinalityType
  <1> QED BY <1>1, <1>2, <1>4, <1>5

\* A connection is taken only while there is one, and giving one back frees it.
LEMMA HeldBounded ==
  ASSUME TypeOK, NEW r \in Requests, NEW x \in {"request", "books"},
         \/ ~Full /\ held' = held \cup {<<r, x>>}
         \/ held' = held \ {<<r, x>>}
         \/ held' = held
  PROVE  held' \subseteq Requests \X {"request", "books"} /\ Cardinality(held') <= PoolLimit
  <1> DEFINE c == <<r, x>>
  <1>1. held' \subseteq Requests \X {"request", "books"}
    BY DEF TypeOK
  <1>2. /\ IsFiniteSet(held) /\ Cardinality(held) <= PoolLimit
        /\ \/ ~Full /\ held' = held \cup {c}
           \/ held' = held \ {c}
           \/ held' = held
    BY HeldFinite DEF TypeOK
  <1> HIDE DEF c
  <1>3. /\ Cardinality(held) \in Nat
        /\ Cardinality(held \cup {c}) \in Nat
        /\ Cardinality(held \cup {c}) <= Cardinality(held) + 1
        /\ Cardinality(held \ {c}) \in Nat /\ Cardinality(held \ {c}) <= Cardinality(held)
    BY <1>2, OneElement
  <1>4. Cardinality(held') <= PoolLimit
    BY <1>2, <1>3, LimitAssumption DEF Full
  <1> QED BY <1>1, <1>4

\* Each step of a request moves it alone, and at most one connection.
LEMMA TypeStep ==
  ASSUME TypeOK, [Next]_vars
  PROVE  TypeOK'
  <1>1. ASSUME NEW r \in Requests, Progress(r)
        PROVE  TypeOK'
    <2>1. kind' = kind /\ pc' \in [Requests -> Places]
      BY <1>1
         DEF TypeOK, Progress, Connect, PoolTimeout, Read, CallOut, Commit, OutsideAnswers, Refuse,
             Break, Record, RecordTimeout, Recorded, Send, Goto, Places
    <2>2. PICK x \in {"request", "books"} :
            \/ ~Full /\ held' = held \cup {<<r, x>>}
            \/ held' = held \ {<<r, x>>}
            \/ held' = held
      BY <1>1
         DEF Progress, Connect, PoolTimeout, Read, CallOut, Commit, OutsideAnswers, Refuse,
             Break, Record, RecordTimeout, Recorded, Send, Release
    <2>3. held' \subseteq Requests \X {"request", "books"} /\ Cardinality(held') <= PoolLimit
      BY <2>2, HeldBounded
    <2> QED BY <2>1, <2>3 DEF TypeOK
  <1>2. ASSUME NEW r \in Requests, NEW k \in Kinds, Arrive(r, k) \/ Reject(r, k)
        PROVE  TypeOK'
    BY <1>2 DEF TypeOK, Arrive, Reject, Goto, Places
  <1>3. CASE UNCHANGED vars
    BY <1>3 DEF TypeOK, vars
  <1> QED BY <1>1, <1>2, <1>3 DEF Next

\* No path keeps a connection that it should have given back.
LEMMA ReturnedStep ==
  ASSUME TypeOK, ConnectionsReturned, [Next]_vars
  PROVE  ConnectionsReturned'
  <1>1. ASSUME NEW r \in Requests, Progress(r)
        PROVE  ConnectionsReturned'
    <2> SUFFICES ASSUME NEW q \in Requests
                 PROVE  /\ pc'[q] \in {"idle", "connect", "refresh", "failed"} =>
                             <<q, "request">> \notin held'
                        /\ <<q, "books">> \in held' => pc'[q] = "recording"
      BY DEF ConnectionsReturned
    <2>1. CASE q # r
      <3>1. pc'[q] = pc[q]
        BY <1>1, <2>1
           DEF TypeOK, Progress, Connect, PoolTimeout, Read, CallOut, Commit, OutsideAnswers,
               Refuse, Break, Record, RecordTimeout, Recorded, Send, Goto
      <3>2. \A x : <<q, x>> \in held' <=> <<q, x>> \in held
        BY <1>1, <2>1
           DEF Progress, Connect, PoolTimeout, Read, CallOut, Commit, OutsideAnswers,
               Refuse, Break, Record, RecordTimeout, Recorded, Send, Release
      <3> QED BY <3>1, <3>2 DEF ConnectionsReturned
    <2>2. CASE q = r
      BY <1>1, <2>2
         DEF TypeOK, ConnectionsReturned, Progress, Connect, PoolTimeout, Read, CallOut, Commit,
             OutsideAnswers, Refuse, Break, Record, RecordTimeout, Recorded, Send, Goto, Release
    <2> QED BY <2>1, <2>2
  <1>2. ASSUME NEW r \in Requests, NEW k \in Kinds, Arrive(r, k) \/ Reject(r, k)
        PROVE  ConnectionsReturned'
    BY <1>2 DEF TypeOK, ConnectionsReturned, Arrive, Reject, Goto
  <1>3. CASE UNCHANGED vars
    BY <1>3 DEF ConnectionsReturned, vars
  <1> QED BY <1>1, <1>2, <1>3 DEF Next

-----------------------------------------------------------------------------
(***************************************************************************)
(* The theorems.                                                           *)
(***************************************************************************)

\* The pool is never overdrawn and every path gives its connections back, for
\* any number of requests and connections.
THEOREM PoolInductive == Spec => []IInv
  <1>1. Init => IInv
    <2>1. Cardinality({}) <= PoolLimit
      BY FS_EmptySet, LimitAssumption
    <2> QED BY <2>1 DEF Init, IInv, TypeOK, ConnectionsReturned, Kinds, Places
  <1>2. IInv /\ [Next]_vars => IInv'
    BY TypeStep, ReturnedStep DEF IInv
  <1> QED BY <1>1, <1>2, PTL DEF Spec

\* As the two parts of it.
THEOREM PoolTypeCorrect == Spec => []TypeOK
  <1>1. IInv => TypeOK
    BY DEF IInv
  <1> QED BY <1>1, PoolInductive, PTL

\* A request that is over holds no connection, whatever went wrong in it.
THEOREM AllReturned == Spec => []ConnectionsReturned
  <1>1. IInv => ConnectionsReturned
    BY DEF IInv
  <1> QED BY <1>1, PoolInductive, PTL

\* Whatever the number of requests and connections, a full pool of waiting holders
\* consists of bookkeeping: the pairs in held are then the requests that wait for
\* their second connection, each with its first.
THEOREM OnlyBooksCircle == Spec => []CircleOfBooksOnly
  <1>1. IInv => CircleOfBooksOnly
    <2> DEFINE booked == {r \in Requests : pc[r] = "record" /\ <<r, "request">> \in held}
    <2> SUFFICES ASSUME IInv, Full, \A c \in held : Waiting(c[1])
                 PROVE  Cardinality(booked) = PoolLimit
      BY DEF CircleOfBooksOnly
    <2>1. held \subseteq Requests \X {"request", "books"} /\ IsFiniteSet(held)
          /\ Cardinality(held) \in Nat /\ Cardinality(held) <= PoolLimit
      BY HeldFinite DEF IInv, TypeOK
    <2>2. Cardinality(held) = PoolLimit
      BY <2>1, LimitAssumption DEF Full
    <2>3. ASSUME NEW c \in held
          PROVE  c = <<c[1], "request">> /\ c[1] \in booked
      <3>1. /\ c[1] \in Requests /\ c = <<c[1], c[2]>> /\ c[2] \in {"request", "books"}
            /\ pc[c[1]] \in {"connect", "refresh", "record"}
        BY <2>1 DEF Waiting
      <3>2. c[2] # "books"
        BY <3>1 DEF IInv, ConnectionsReturned
      <3>3. pc[c[1]] \notin {"connect", "refresh"}
        BY <3>1, <3>2 DEF IInv, ConnectionsReturned
      <3> QED BY <3>1, <3>2, <3>3
    <2> DEFINE first == [r \in booked |-> <<r, "request">>]
    <2>4. first \in [booked -> held] /\ \A r, q \in booked : first[r] = first[q] => r = q
      OBVIOUS
    <2>5. \A c \in held : \E r \in booked : first[r] = c
      BY <2>3
    <2> HIDE DEF booked, first
    <2>6. first \in Bijection(booked, held)
      BY <2>4, <2>5 DEF Bijection, Injection, Surjection, IsInjective
    <2>7. IsFiniteSet(booked)
      BY RequestsAssumption, FS_Subset DEF booked
    <2>8. Cardinality(held) = Cardinality(booked)
      BY <2>6, <2>7, FS_Bijection DEF ExistsBijection
    <2> QED BY <2>2, <2>8
  <1> QED BY <1>1, PoolInductive, PTL
=============================================================================
