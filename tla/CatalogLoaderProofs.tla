------------------------ MODULE CatalogLoaderProofs ------------------------
(***************************************************************************)
(* Theorems about the queries and the catalog updates of a connection, for *)
(* any number of queries, batches, responses, resets and updates.          *)
(***************************************************************************)
EXTENDS CatalogLoader, FiniteSetTheorems, SequenceTheorems, TLAPS

-----------------------------------------------------------------------------
(***************************************************************************)
(* Sequences without duplicates, and what taking an element out does.      *)
(***************************************************************************)
Distinct(s) == \A i, j \in DOMAIN s : s[i] = s[j] => i = j

LEMMA RemovedAt ==
  ASSUME NEW S, NEW s \in Seq(S), NEW i \in 1..Len(s)
  PROVE  /\ RemoveAt(s, i) \in Seq(S)
         /\ Len(RemoveAt(s, i)) = Len(s) - 1
         /\ \A j \in 1..(Len(s) - 1) : RemoveAt(s, i)[j] = IF j < i THEN s[j] ELSE s[j + 1]
<1>1. Len(s) \in Nat /\ \A j \in 1..Len(s) : s[j] \in S
  BY LenProperties
<1>2. PICK a : a = SubSeq(s, 1, i - 1)
  OBVIOUS
<1>3. PICK b : b = SubSeq(s, i + 1, Len(s))
  OBVIOUS
<1>4. a \in Seq(S) /\ Len(a) = i - 1 /\ \A j \in 1..(i - 1) : a[j] = s[j]
  BY <1>1, <1>2, SubSeqProperties
<1>5. b \in Seq(S) /\ Len(b) = Len(s) - i /\ \A j \in 1..(Len(s) - i) : b[j] = s[i + j]
  BY <1>1, <1>3, SubSeqProperties
<1>6. /\ a \o b \in Seq(S)
      /\ Len(a \o b) = Len(a) + Len(b)
      /\ \A j \in 1..(Len(a) + Len(b)) : (a \o b)[j] = IF j <= Len(a) THEN a[j] ELSE b[j - Len(a)]
  BY <1>4, <1>5, ConcatProperties
<1>7. RemoveAt(s, i) = a \o b
  BY <1>2, <1>3 DEF RemoveAt
<1>8. ASSUME NEW j \in 1..(Len(s) - 1)
      PROVE  RemoveAt(s, i)[j] = IF j < i THEN s[j] ELSE s[j + 1]
  <2>1. CASE j < i
    BY <1>1, <1>4, <1>5, <1>6, <1>7, <2>1
  <2>2. CASE ~(j < i)
    <3>1. PICK k : k = j - Len(a)
      OBVIOUS
    <3>2. k \in 1..(Len(s) - i) /\ i + k = j + 1
      BY <1>1, <1>4, <2>2, <3>1
    <3>3. j \in 1..(Len(a) + Len(b)) /\ ~(j <= Len(a))
      BY <1>1, <1>4, <1>5, <2>2
    <3>4. (a \o b)[j] = b[k]
      BY <1>6, <3>1, <3>3
    <3>5. b[k] = s[j + 1]
      BY <1>5, <3>2
    <3> QED
      BY <1>7, <2>2, <3>4, <3>5
  <2> QED
    BY <2>1, <2>2
<1> QED
  BY <1>1, <1>4, <1>5, <1>6, <1>7, <1>8

LEMMA RemoveFirstDistinct ==
  ASSUME NEW S, NEW s \in Seq(S), Distinct(s), NEW v, v \in ToSet(s)
  PROVE  LET r == removePrimitiveFromArray(s, v) IN
         /\ r \in Seq(S) /\ Len(r) = Len(s) - 1 /\ Distinct(r)
         /\ ToSet(r) = ToSet(s) \ {v}
<1>1. PICK i \in 1..Len(s) : v = s[i]
  BY DEF ToSet
<1>2. removePrimitiveFromArray(s, v) = RemoveAt(s, i)
  <2>1. {j \in 1..Len(s) : s[j] = v} = {i}
    BY <1>1 DEF Distinct
  <2>2. Min({i}) = i
    BY DEF Min
  <2>3. removePrimitiveFromArray(s, v) =
          RemoveAt(s, IF {j \in 1..Len(s) : s[j] = v} # {} THEN Min({j \in 1..Len(s) : s[j] = v}) ELSE 0)
    BY <1>1 DEF removePrimitiveFromArray, Contains, RemoveFirst, SelectInSeq
  <2> QED
    BY <2>1, <2>2, <2>3
<1>3. PICK r : r = RemoveAt(s, i)
  OBVIOUS
<1>4. /\ r \in Seq(S) /\ Len(r) = Len(s) - 1
      /\ \A j \in 1..(Len(s) - 1) : r[j] = IF j < i THEN s[j] ELSE s[j + 1]
  BY <1>3, RemovedAt
<1>5. Len(s) \in Nat /\ DOMAIN s = 1..Len(s) /\ DOMAIN r = 1..(Len(s) - 1)
  BY <1>4, LenProperties
<1>6. Distinct(r)
  <2> SUFFICES ASSUME NEW j \in DOMAIN r, NEW k \in DOMAIN r, r[j] = r[k] PROVE j = k
    BY DEF Distinct
  <2>1. PICK m, n : m = (IF j < i THEN j ELSE j + 1) /\ n = (IF k < i THEN k ELSE k + 1)
    OBVIOUS
  <2>2. m \in DOMAIN s /\ n \in DOMAIN s /\ s[m] = s[n]
    BY <1>4, <1>5, <2>1
  <2>3. m = n
    BY <2>2 DEF Distinct
  <2> QED
    BY <1>5, <2>1, <2>3
<1>7. ASSUME NEW x PROVE x \in ToSet(r) <=> x \in ToSet(s) /\ x # v
  <2>1. ASSUME x \in ToSet(r) PROVE x \in ToSet(s) /\ x # v
    <3>1. PICK j \in DOMAIN r : x = r[j]
      BY <2>1 DEF ToSet
    <3>2. PICK m : m = IF j < i THEN j ELSE j + 1
      OBVIOUS
    <3>3. m \in DOMAIN s /\ m # i /\ x = s[m]
      BY <1>4, <1>5, <3>1, <3>2
    <3> QED
      BY <1>1, <1>5, <3>3 DEF ToSet, Distinct
  <2>2. ASSUME x \in ToSet(s), x # v PROVE x \in ToSet(r)
    <3>1. PICK j \in 1..Len(s) : x = s[j]
      BY <1>5, <2>2 DEF ToSet
    <3>2. PICK m : m = IF j < i THEN j ELSE j - 1
      OBVIOUS
    <3>3. j # i
      BY <1>1, <2>2, <3>1
    <3>4. m \in DOMAIN r /\ r[m] = s[j]
      BY <1>4, <1>5, <3>2, <3>3
    <3> QED
      BY <3>1, <3>4 DEF ToSet
  <2> QED
    BY <2>1, <2>2
<1> QED
  BY <1>2, <1>3, <1>4, <1>6, <1>7

\* Growing one by one end.
LEMMA AppendDistinct ==
  ASSUME NEW S, NEW s \in Seq(S), Distinct(s), NEW v \in S, v \notin ToSet(s)
  PROVE  /\ Append(s, v) \in Seq(S) /\ Len(Append(s, v)) = Len(s) + 1
         /\ Distinct(Append(s, v))
         /\ ToSet(Append(s, v)) = ToSet(s) \cup {v}
<1>1. PICK t : t = Append(s, v)
  OBVIOUS
<1>2. /\ t \in Seq(S) /\ Len(t) = Len(s) + 1
      /\ \A i \in 1..Len(s) : t[i] = s[i]
      /\ t[Len(s) + 1] = v
  BY <1>1, AppendProperties
<1>3. Len(s) \in Nat /\ DOMAIN s = 1..Len(s) /\ DOMAIN t = 1..(Len(s) + 1)
  BY <1>2, LenProperties
<1>4. \A i \in DOMAIN t : (i \in DOMAIN s /\ t[i] = s[i]) \/ (i = Len(s) + 1 /\ t[i] = v)
  BY <1>2, <1>3
<1>5. \A i \in DOMAIN s : s[i] # v
  BY DEF ToSet
<1>6. Distinct(t)
  BY <1>4, <1>5 DEF Distinct
<1>7. ToSet(t) = ToSet(s) \cup {v}
  BY <1>2, <1>3, <1>4 DEF ToSet
<1> QED
  BY <1>1, <1>2, <1>6, <1>7

\* An element of a sequence without duplicates stands in one place.
LEMMA DistinctCount ==
  ASSUME NEW S, NEW s \in Seq(S), Distinct(s), NEW v, v \in ToSet(s)
  PROVE  Cardinality({i \in DOMAIN s : s[i] = v}) = 1
<1>1. PICK i \in DOMAIN s : s[i] = v
  BY DEF ToSet
<1>2. {j \in DOMAIN s : s[j] = v} = {i}
  BY <1>1 DEF Distinct
<1> QED
  BY <1>2, FS_Singleton

-----------------------------------------------------------------------------
(***************************************************************************)
(* Maps.                                                                   *)
(***************************************************************************)
LEMMA PutMap ==
  ASSUME NEW map, NEW key, NEW value
  PROVE  /\ DOMAIN Put(map, key, value) = DOMAIN map \cup {key}
         /\ Put(map, key, value)[key] = value
         /\ \A k \in DOMAIN map \ {key} : Put(map, key, value)[k] = map[k]
         /\ Put(map, key, value) \in [DOMAIN map \cup {key} -> {value} \cup {map[k] : k \in DOMAIN map}]
BY DEF Put

LEMMA DeleteMap ==
  ASSUME NEW map, NEW key
  PROVE  /\ DOMAIN Delete(map, key) = DOMAIN map \ {key}
         /\ \A k \in DOMAIN map \ {key} : Delete(map, key)[k] = map[k]
         /\ Delete(map, key) \in [DOMAIN map \ {key} -> {map[k] : k \in DOMAIN map}]
BY DEF Delete, Restrict

Maps(ids, values) == UNION {[some -> values] : some \in SUBSET ids}

LEMMA MapTypes ==
  ASSUME NEW ids, NEW values, NEW map \in Maps(ids, values), NEW key
  PROVE  /\ DOMAIN map \subseteq ids /\ \A k \in DOMAIN map : map[k] \in values
         /\ Delete(map, key) \in Maps(ids, values)
         /\ key \in ids => \A value \in values : Put(map, key, value) \in Maps(ids, values)
         /\ \A value \in values : [map EXCEPT ![key] = value] \in Maps(ids, values)
<1>1. PICK some \in SUBSET ids : map \in [some -> values]
  BY DEF Maps
<1>2. Delete(map, key) \in [some \ {key} -> values]
  BY <1>1 DEF Delete, Restrict
<1>3. \A value \in values : Put(map, key, value) \in [some \cup {key} -> values]
  BY <1>1 DEF Put
<1>4. \A value \in values : [map EXCEPT ![key] = value] \in [some -> values]
  BY <1>1
<1> QED
  BY <1>1, <1>2, <1>3, <1>4 DEF Maps

LEMMA NoQueriesMap == \A ids, values : NoQueries \in Maps(ids, values) /\ DOMAIN NoQueries = {}
<1>1. NoQueries \in [{} -> {}] /\ \A values : NoQueries \in [{} -> values]
  BY DEF NoQueries
<1> QED
  BY <1>1 DEF Maps, NoQueries

-----------------------------------------------------------------------------
(***************************************************************************)
(* The connection state and what the reducers do to it.                    *)
(***************************************************************************)
QueryState ==
  [status : QueryExecutionStatus, progressUpdates : Nat,
   resultBatches : Tables \ {NoTable}, resultTable : Tables]

ConnectionState ==
  [connectionHealth : {"NOT_STARTED", "ONLINE"}, channel : BOOLEAN,
   metrics : [successfulQueries : Nat, failedQueries : Nat],
   catalog : {0} \cup Updates,
   catalogUpdates : [tasksRunning : Maps(Updates, UpdateTasks),
                     tasksFinished : Maps(Updates, UpdateTasks),
                     lastFullRefresh : {0} \cup Updates],
   snapshot : Nat,
   queriesActive : Maps(Queries, QueryState), queriesActiveOrdered : Seq(Queries),
   queriesFinished : Maps(Queries, QueryState), queriesFinishedOrdered : Seq(Queries)]

\* The parts of a connection that an action about a query leaves alone, and
\* those that all other actions but RESET leave alone.
SameConnection(s, t) ==
  /\ t.connectionHealth = s.connectionHealth /\ t.channel = s.channel
  /\ t.catalog = s.catalog /\ t.catalogUpdates = s.catalogUpdates
SameQueries(s, t) ==
  /\ t.snapshot = s.snapshot
  /\ t.queriesActive = s.queriesActive
  /\ t.queriesActiveOrdered = s.queriesActiveOrdered
  /\ t.queriesFinished = s.queriesFinished
  /\ t.queriesFinishedOrdered = s.queriesFinishedOrdered

\* An active query is replaced.
Replaces(s, t, q, e) ==
  /\ t \in ConnectionState
  /\ SameConnection(s, t)
  /\ t.snapshot = s.snapshot
  /\ t.queriesActive = [s.queriesActive EXCEPT ![q] = e]
  /\ t.queriesActiveOrdered = s.queriesActiveOrdered
  /\ t.queriesFinished = s.queriesFinished
  /\ t.queriesFinishedOrdered = s.queriesFinishedOrdered

LEMMA ReplaceQuery ==
  ASSUME NEW s \in ConnectionState, NEW q, NEW e \in QueryState
  PROVE  Replaces(s, [s EXCEPT !.queriesActive = [s.queriesActive EXCEPT ![q] = e]], q, e)
<1>1. PICK map : map = [s.queriesActive EXCEPT ![q] = e]
  OBVIOUS
<1>2. map \in Maps(Queries, QueryState)
  BY <1>1, MapTypes DEF ConnectionState
<1>3. PICK t : t = [s EXCEPT !.queriesActive = map]
  OBVIOUS
<1>4. t \in ConnectionState
  BY <1>2, <1>3 DEF ConnectionState
<1>5. SameConnection(s, t) /\ t.snapshot = s.snapshot /\ t.queriesActive = map
      /\ t.queriesActiveOrdered = s.queriesActiveOrdered
      /\ t.queriesFinished = s.queriesFinished
      /\ t.queriesFinishedOrdered = s.queriesFinishedOrdered
  BY <1>3 DEF ConnectionState, SameConnection
<1> QED
  BY <1>1, <1>3, <1>4, <1>5 DEF Replaces

LEMMA ActiveQuery ==
  ASSUME NEW s \in ConnectionState, NEW q
  PROVE  /\ q \in DOMAIN s.queriesActive => q \in Queries /\ s.queriesActive[q] \in QueryState
         /\ q \in DOMAIN s.queriesFinished => q \in Queries /\ s.queriesFinished[q] \in QueryState
BY MapTypes DEF ConnectionState

LEMMA SetStatusReplaces ==
  ASSUME NEW s \in ConnectionState, NEW q, Active(s, q), NEW status \in QueryExecutionStatus
  PROVE  Replaces(s, SetStatus(s, q, status), q, [s.queriesActive[q] EXCEPT !.status = status])
<1>1. PICK e : e = [s.queriesActive[q] EXCEPT !.status = status]
  OBVIOUS
<1>2. e \in QueryState
  BY <1>1, ActiveQuery DEF Active, QueryState
<1>3. SetStatus(s, q, status) = [s EXCEPT !.queriesActive = [s.queriesActive EXCEPT ![q] = e]]
  BY <1>1 DEF SetStatus, Active, ConnectionState
<1> QED
  BY <1>1, <1>2, <1>3, ReplaceQuery

LEMMA ProgressReplaces ==
  ASSUME NEW s \in ConnectionState, NEW q, Active(s, q)
  PROVE  Replaces(s, QueryProgressUpdated(s, q), q,
                  [s.queriesActive[q] EXCEPT !.progressUpdates = @ + 1])
<1>1. PICK e : e = [s.queriesActive[q] EXCEPT !.progressUpdates = @ + 1]
  OBVIOUS
<1>2. e \in QueryState
  BY <1>1, ActiveQuery DEF Active, QueryState
<1>3. QueryProgressUpdated(s, q) = [s EXCEPT !.queriesActive = [s.queriesActive EXCEPT ![q] = e]]
  BY <1>1 DEF QueryProgressUpdated, Active, ConnectionState
<1> QED
  BY <1>1, <1>2, <1>3, ReplaceQuery

LEMMA BatchReplaces ==
  ASSUME NEW s \in ConnectionState, NEW q, Active(s, q), NEW batch,
         Append(s.queriesActive[q].resultBatches, batch) \in Tables \ {NoTable}
  PROVE  Replaces(s, QueryReceivedBatch(s, q, batch), q,
                  [s.queriesActive[q] EXCEPT !.resultBatches = Append(@, batch),
                                             !.status = "RECEIVED_FIRST_BATCH"])
<1>1. PICK e : e = [s.queriesActive[q] EXCEPT !.resultBatches = Append(@, batch),
                                             !.status = "RECEIVED_FIRST_BATCH"]
  OBVIOUS
<1>2. e \in QueryState
  BY <1>1, ActiveQuery DEF Active, QueryState, QueryExecutionStatus
<1>3. QueryReceivedBatch(s, q, batch) = [s EXCEPT !.queriesActive = [s.queriesActive EXCEPT ![q] = e]]
  BY <1>1 DEF QueryReceivedBatch, Active, ConnectionState
<1> QED
  BY <1>1, <1>2, <1>3, ReplaceQuery

LEMMA AllBatchesReplaces ==
  ASSUME NEW s \in ConnectionState, NEW q, Active(s, q), NEW table \in Tables
  PROVE  Replaces(s, QueryReceivedAllBatches(s, q, table), q,
                  [s.queriesActive[q] EXCEPT !.resultTable = table,
                                             !.status = "RECEIVED_ALL_BATCHES"])
<1>1. PICK e : e = [s.queriesActive[q] EXCEPT !.resultTable = table,
                                             !.status = "RECEIVED_ALL_BATCHES"]
  OBVIOUS
<1>2. e \in QueryState
  BY <1>1, ActiveQuery DEF Active, QueryState, QueryExecutionStatus
<1>3. QueryReceivedAllBatches(s, q, table) =
        [s EXCEPT !.queriesActive = [s.queriesActive EXCEPT ![q] = e]]
  BY <1>1 DEF QueryReceivedAllBatches, Active, ConnectionState
<1> QED
  BY <1>1, <1>2, <1>3, ReplaceQuery

\* An active query is moved to the finished ones.
Finishes(s, t, q, e) ==
  /\ t \in ConnectionState
  /\ SameConnection(s, t)
  /\ t.snapshot = s.snapshot + 1
  /\ t.queriesActive = Delete(s.queriesActive, q)
  /\ t.queriesActiveOrdered = removePrimitiveFromArray(s.queriesActiveOrdered, q)
  /\ t.queriesFinished = Put(s.queriesFinished, q, e)
  /\ t.queriesFinishedOrdered = Append(s.queriesFinishedOrdered, q)

LEMMA FinishQueryFinishes ==
  ASSUME NEW s \in ConnectionState, NEW q, Active(s, q),
         removePrimitiveFromArray(s.queriesActiveOrdered, q) \in Seq(Queries)
  PROVE  /\ Finishes(s, QuerySucceeded(s, q), q, [s.queriesActive[q] EXCEPT !.status = "SUCCEEDED"])
         /\ Finishes(s, QueryFailed(s, q), q, [s.queriesActive[q] EXCEPT !.status = "FAILED"])
<1>1. q \in Queries /\ s.queriesActive[q] \in QueryState
  BY ActiveQuery DEF Active
<1>2. ASSUME NEW status \in {"SUCCEEDED", "FAILED"},
             NEW m \in [successfulQueries : Nat, failedQueries : Nat]
      PROVE  Finishes(s, [FinishQuery(s, q, status) EXCEPT !.metrics = m], q,
                      [s.queriesActive[q] EXCEPT !.status = status])
  <2>1. PICK e : e = [s.queriesActive[q] EXCEPT !.status = status]
    OBVIOUS
  <2>2. e \in QueryState
    BY <1>1, <2>1 DEF QueryState, QueryExecutionStatus
  <2>3. PICK active, order, finished, finishedOrder :
          /\ active = Delete(s.queriesActive, q)
          /\ order = removePrimitiveFromArray(s.queriesActiveOrdered, q)
          /\ finished = Put(s.queriesFinished, q, e)
          /\ finishedOrder = Append(s.queriesFinishedOrdered, q)
    OBVIOUS
  <2>4. active \in Maps(Queries, QueryState) /\ finished \in Maps(Queries, QueryState)
    BY <1>1, <2>2, <2>3, MapTypes DEF ConnectionState
  <2>5. order \in Seq(Queries) /\ finishedOrder \in Seq(Queries)
    BY <1>1, <2>3, AppendProperties DEF ConnectionState
  <2>6. PICK t : t = [FinishQuery(s, q, status) EXCEPT !.metrics = m]
    OBVIOUS
  <2>7. t = [s EXCEPT !.queriesActive = active, !.queriesActiveOrdered = order,
                      !.queriesFinished = finished, !.queriesFinishedOrdered = finishedOrder,
                      !.snapshot = s.snapshot + 1, !.metrics = m]
    BY <2>1, <2>3, <2>6 DEF FinishQuery, ConnectionState
  <2>8. t \in ConnectionState
    <3>1. PICK a : a = [s EXCEPT !.queriesActive = active, !.queriesActiveOrdered = order]
      OBVIOUS
    <3>2. a \in ConnectionState
      BY ONLY s \in ConnectionState, <2>4, <2>5, <3>1 DEF ConnectionState
    <3>3. PICK b : b = [a EXCEPT !.queriesFinished = finished, !.queriesFinishedOrdered = finishedOrder]
      OBVIOUS
    <3>4. b \in ConnectionState
      BY ONLY <3>2, <2>4, <2>5, <3>3 DEF ConnectionState
    <3>5. s.snapshot + 1 \in Nat
      BY DEF ConnectionState
    <3>6. PICK n : n = s.snapshot + 1
      OBVIOUS
    <3>7. [b EXCEPT !.snapshot = n, !.metrics = m] \in ConnectionState
      BY ONLY <3>4, <3>5, <3>6, m \in [successfulQueries : Nat, failedQueries : Nat]
         DEF ConnectionState
    <3>8. t = [b EXCEPT !.snapshot = n, !.metrics = m]
      BY ONLY s \in ConnectionState, <2>7, <3>1, <3>3, <3>6 DEF ConnectionState
    <3> QED
      BY <3>7, <3>8
  <2>9. /\ SameConnection(s, t) /\ t.snapshot = s.snapshot + 1
        /\ t.queriesActive = active /\ t.queriesActiveOrdered = order
        /\ t.queriesFinished = finished /\ t.queriesFinishedOrdered = finishedOrder
    BY <2>7 DEF ConnectionState, SameConnection
  <2> QED
    BY <2>1, <2>3, <2>6, <2>8, <2>9 DEF Finishes
<1>3. PICK m : m = s.metrics
  OBVIOUS
<1>4. /\ m \in [successfulQueries : Nat, failedQueries : Nat]
      /\ \A status : FinishQuery(s, q, status).metrics = m
  BY <1>3 DEF ConnectionState, FinishQuery
<1>5. /\ [m EXCEPT !.successfulQueries = mergeQueryMetrics(@)]
           \in [successfulQueries : Nat, failedQueries : Nat]
      /\ [m EXCEPT !.failedQueries = mergeQueryMetrics(@)]
           \in [successfulQueries : Nat, failedQueries : Nat]
  BY <1>4 DEF mergeQueryMetrics
<1>6. /\ QuerySucceeded(s, q) = [FinishQuery(s, q, "SUCCEEDED") EXCEPT
           !.metrics = [m EXCEPT !.successfulQueries = mergeQueryMetrics(@)]]
      /\ QueryFailed(s, q) = [FinishQuery(s, q, "FAILED") EXCEPT
           !.metrics = [m EXCEPT !.failedQueries = mergeQueryMetrics(@)]]
  BY <1>3, <1>4 DEF QuerySucceeded, QueryFailed, FinishQuery, ConnectionState
<1> QED
  BY <1>2, <1>5, <1>6

\* One replacement after another, and an end after a replacement.
LEMMA ReplacesReplaces ==
  ASSUME NEW s \in ConnectionState, NEW t, NEW w, NEW q, NEW a, NEW b,
         Replaces(s, t, q, a), Replaces(t, w, q, b)
  PROVE  Replaces(s, w, q, b)
BY DEF Replaces, SameConnection

LEMMA ReplacesFinishes ==
  ASSUME NEW s \in ConnectionState, NEW t, NEW w, NEW q, NEW a, NEW b,
         Replaces(s, t, q, a), Finishes(t, w, q, b)
  PROVE  Finishes(s, w, q, b)
<1>1. Delete([s.queriesActive EXCEPT ![q] = a], q) = Delete(s.queriesActive, q)
  BY DEF Delete, Restrict
<1> QED
  BY <1>1 DEF Replaces, Finishes, SameConnection

\* A query is made active.
Executes(s, t, q) ==
  /\ t \in ConnectionState
  /\ SameConnection(s, t)
  /\ t.snapshot = s.snapshot + 1
  /\ t.queriesActive = Put(s.queriesActive, q, QueryExecutionState("SENDING"))
  /\ t.queriesActiveOrdered = Append(s.queriesActiveOrdered, q)
  /\ t.queriesFinished = s.queriesFinished
  /\ t.queriesFinishedOrdered = s.queriesFinishedOrdered

LEMMA NoTableIsNoResult == <<>> \in Tables \ {NoTable} /\ NoTable \in Tables
<1>1. <<>> \in [1..0 -> Batches]
  OBVIOUS
<1>2. 0 \in 0..MaxBatches
  BY QueryAssumption
<1>3. <<>> # NoTable
  BY DEF NoTable
<1> QED
  BY <1>1, <1>2, <1>3 DEF Tables

LEMMA ExecutedExecutes ==
  ASSUME NEW s \in ConnectionState, NEW q \in Queries
  PROVE  Executes(s, Executed(s, q), q)
<1>1. PICK e, x : e = QueryExecutionState("REQUESTED") /\ x = QueryExecutionState("SENDING")
  OBVIOUS
<1>2. e \in QueryState /\ x \in QueryState /\ [e EXCEPT !.status = "SENDING"] = x
  BY <1>1, NoTableIsNoResult DEF QueryExecutionState, QueryState, QueryExecutionStatus
<1>3. PICK map, order : map = Put(s.queriesActive, q, e) /\ order = Append(s.queriesActiveOrdered, q)
  OBVIOUS
<1>4. map \in Maps(Queries, QueryState) /\ order \in Seq(Queries) /\ s.snapshot + 1 \in Nat
  BY <1>2, <1>3, MapTypes, AppendProperties DEF ConnectionState
<1>5. PICK t : t = ExecuteQuery(s, q)
  OBVIOUS
<1>6. PICK n : n = s.snapshot + 1
  OBVIOUS
<1>7. t = [s EXCEPT !.queriesActive = map, !.queriesActiveOrdered = order, !.snapshot = n]
  BY <1>1, <1>3, <1>5, <1>6 DEF ExecuteQuery, ConnectionState
<1>8. t \in ConnectionState
  BY ONLY s \in ConnectionState, <1>4, <1>6, <1>7 DEF ConnectionState
<1>9. /\ SameConnection(s, t) /\ t.snapshot = n
      /\ t.queriesActive = map /\ t.queriesActiveOrdered = order
      /\ t.queriesFinished = s.queriesFinished
      /\ t.queriesFinishedOrdered = s.queriesFinishedOrdered
  BY ONLY s \in ConnectionState, <1>7 DEF ConnectionState, SameConnection
<1>10. q \in DOMAIN map /\ map[q] = e
  BY <1>3 DEF Put
<1>11. Replaces(t, SetStatus(t, q, "SENDING"), q, x)
  BY <1>2, <1>8, <1>9, <1>10, SetStatusReplaces DEF Active, QueryExecutionStatus
<1>12. [map EXCEPT ![q] = x] = Put(s.queriesActive, q, x)
  BY <1>3 DEF Put
<1>13. Executed(s, q) = SetStatus(t, q, "SENDING")
  BY <1>5 DEF Executed, QuerySending
<1>14. PICK w : w = Executed(s, q)
  OBVIOUS
<1>15. Replaces(t, w, q, x)
  BY <1>11, <1>13, <1>14
<1>16. Executes(s, w, q)
  BY <1>1, <1>3, <1>6, <1>9, <1>12, <1>15 DEF Replaces, Executes, SameConnection
<1> QED
  BY <1>14, <1>16

LEMMA ResetConnectionState ==
  ASSUME NEW s \in ConnectionState
  PROVE  /\ Reset(s) \in ConnectionState
         /\ Reset(s).queriesActive = NoQueries /\ Reset(s).queriesFinished = NoQueries
         /\ Reset(s).queriesActiveOrdered = s.queriesActiveOrdered
         /\ Reset(s).queriesFinishedOrdered = s.queriesFinishedOrdered
         /\ Reset(s).snapshot = s.snapshot
         /\ Reset(s).catalogUpdates = NoUpdates
<1>1. PICK c : c = IF connector \in {"HYPER_GRPC", "SALESFORCE_DATA_CLOUD"} THEN FALSE ELSE s.channel
  OBVIOUS
<1>2. PICK m, none, u : m = createConnectionMetrics /\ none = NoQueries /\ u = NoUpdates
  OBVIOUS
<1>3. /\ c \in BOOLEAN
      /\ m \in [successfulQueries : Nat, failedQueries : Nat]
      /\ none \in Maps(Queries, QueryState)
      /\ u \in [tasksRunning : Maps(Updates, UpdateTasks), tasksFinished : Maps(Updates, UpdateTasks),
                lastFullRefresh : {0} \cup Updates]
  BY <1>1, <1>2, NoQueriesMap DEF ConnectionState, createConnectionMetrics, NoUpdates
<1>4. PICK t : t = Reset(s)
  OBVIOUS
<1>5. PICK a : a = [s EXCEPT !.connectionHealth = "NOT_STARTED", !.channel = c, !.metrics = m]
  OBVIOUS
<1>6. a \in ConnectionState
  BY ONLY s \in ConnectionState, <1>3, <1>5 DEF ConnectionState
<1>7. t = [a EXCEPT !.catalog = 0, !.catalogUpdates = u, !.queriesActive = none,
                    !.queriesFinished = none]
  BY <1>1, <1>2, <1>4, <1>5 DEF Reset, ConnectionState
<1>8. t \in ConnectionState
  BY ONLY <1>3, <1>6, <1>7 DEF ConnectionState
<1>9. /\ t.queriesActive = none /\ t.queriesFinished = none
      /\ t.queriesActiveOrdered = s.queriesActiveOrdered
      /\ t.queriesFinishedOrdered = s.queriesFinishedOrdered
      /\ t.snapshot = s.snapshot /\ t.catalogUpdates = u
  BY ONLY s \in ConnectionState, <1>5, <1>6, <1>7 DEF ConnectionState
<1> QED
  BY <1>2, <1>4, <1>8, <1>9

-----------------------------------------------------------------------------
(***************************************************************************)
(* The inductive invariant.  It is stated in parts that are operators of   *)
(* the values they speak about: c is the connector, n the next query id,   *)
(* r the number of resets, s the connection state, e = exec[q] and         *)
(* v = server[q].                                                          *)
(***************************************************************************)
Numbers(n) == [i \in 1..n |-> i]
Live(e) == e.state \in {"sending", "streaming", "drained", "analyzing"}
Ended(e) == e.state \in {"done", "failed"}

\* An executor and what the server has sent it.
ExecutorOK(c, n, r, e, v, q) ==
  /\ e.issued <= r
  /\ e.state = "none" <=> n <= q
  /\ e.state \in {"none", "sending"} => v = NoResponse
  /\ e.state # "failed" => e.batches = Numbers(v.sent)
  /\ c = "TRINO" /\ v.state \in TrinoRuns => v.responses < MaxFetches

\* What the connection says about an active and about a finished query.
ActiveOK(a, e, v) ==
  /\ a.status \in StatusOf(e.state)
  /\ a.resultBatches = e.batches
  /\ a.progressUpdates <= v.responses
  /\ e.state = "analyzing" => a.resultTable = e.batches
FinishedOK(a, e, v) ==
  /\ a.status \in StatusOf(e.state)
  /\ a.progressUpdates <= v.responses
  /\ e.state = "done" => a.resultTable = e.batches /\ a.resultBatches = e.batches

\* The maps of the connection against the executor of a query.
MapsOK(s, r, e, v, q) ==
  /\ q \in DOMAIN s.queriesActive <=> Live(e) /\ e.issued = r
  /\ q \in DOMAIN s.queriesFinished <=> Ended(e) /\ e.issued = r
  /\ q \in DOMAIN s.queriesActive => ActiveOK(s.queriesActive[q], e, v)
  /\ q \in DOMAIN s.queriesFinished => FinishedOK(s.queriesFinished[q], e, v)

\* The ordered ids and the snapshot: each execution appends one id, each end
\* moves one, and both count the snapshot up.
OrderOK(s, n) ==
  /\ Distinct(s.queriesActiveOrdered) /\ Distinct(s.queriesFinishedOrdered)
  /\ ToSet(s.queriesActiveOrdered) \cap ToSet(s.queriesFinishedOrdered) = {}
  /\ ToSet(s.queriesActiveOrdered) \cup ToSet(s.queriesFinishedOrdered) \subseteq 1..(n - 1)
  /\ DOMAIN s.queriesActive \subseteq ToSet(s.queriesActiveOrdered)
  /\ DOMAIN s.queriesFinished \subseteq ToSet(s.queriesFinishedOrdered)
  /\ Len(s.queriesActiveOrdered) + Len(s.queriesFinishedOrdered) = n - 1
  /\ s.snapshot = 1 + Len(s.queriesActiveOrdered) + 2 * Len(s.queriesFinishedOrdered)

Executors ==
  [state : ExecutionStates, analyze : BOOLEAN, hasChannel : BOOLEAN, issued : 0..MaxResets,
   schema : BOOLEAN, batches : Tables \ {NoTable}]
Servers ==
  [state : TrinoRuns \cup TrinoEnds \cup {"none"}, sent : 0..MaxBatches,
   responses : 0..MaxFetches]

QueriesOK ==
  /\ connector \in Connectors
  /\ conn \in ConnectionState
  /\ NEXT_QUERY_ID \in 1..(MaxQueries + 1)
  /\ resets \in 0..MaxResets
  /\ exec \in [Queries -> Executors]
  /\ server \in [Queries -> Servers]
  /\ OrderOK(conn, NEXT_QUERY_ID)
  /\ \A q \in Queries : ExecutorOK(connector, NEXT_QUERY_ID, resets, exec[q], server[q], q)
  /\ \A q \in Queries : MapsOK(conn, resets, exec[q], server[q], q)

\* The updates of a connection against what each update awaits.
Awaits(e) == e.state \in {"querying", "requesting"}
TasksOK(s, n, r, upd) ==
  /\ \A u \in Updates : upd[u].issued <= r
  /\ \A u \in Updates : upd[u].state = "none" <=> n <= u
  /\ \A u \in Updates : u \in DOMAIN s.catalogUpdates.tasksRunning <=> Awaits(upd[u]) /\ upd[u].issued = r
  /\ \A u, w \in DOMAIN s.catalogUpdates.tasksRunning : u = w
  /\ s.catalogUpdates.lastFullRefresh # 0 =>
       s.catalogUpdates.lastFullRefresh \in
         DOMAIN s.catalogUpdates.tasksRunning \cup DOMAIN s.catalogUpdates.tasksFinished

UpdatesOK ==
  /\ NEXT_CATALOG_UPDATE_ID \in Nat \ {0}
  /\ update \in [Updates -> [state : {"none", "querying", "requesting", "succeeded", "failed"},
                             query : {0} \cup Queries, issued : 0..MaxResets]]
  /\ queue \in {"empty", "auto", "forced"}
  /\ queueChanged \in BOOLEAN
  /\ TasksOK(conn, NEXT_CATALOG_UPDATE_ID, resets, update)

LoaderInv == QueriesOK /\ UpdatesOK

-----------------------------------------------------------------------------
(***************************************************************************)
(* What a change of the connection leaves alone.                           *)
(***************************************************************************)
SameAt(s, t, p) ==
  /\ p \in DOMAIN t.queriesActive <=> p \in DOMAIN s.queriesActive
  /\ p \in DOMAIN s.queriesActive => t.queriesActive[p] = s.queriesActive[p]
  /\ p \in DOMAIN t.queriesFinished <=> p \in DOMAIN s.queriesFinished
  /\ p \in DOMAIN s.queriesFinished => t.queriesFinished[p] = s.queriesFinished[p]

LEMMA MapsKept ==
  ASSUME NEW s, NEW t, NEW r, NEW e, NEW v, NEW p, MapsOK(s, r, e, v, p), SameAt(s, t, p)
  PROVE  MapsOK(t, r, e, v, p)
BY DEF MapsOK, SameAt

LEMMA OthersKept ==
  ASSUME NEW s \in ConnectionState, NEW t, NEW q, NEW a, NEW p, p # q,
         Replaces(s, t, q, a) \/ Finishes(s, t, q, a) \/ Executes(s, t, q)
  PROVE  SameAt(s, t, p)
<1>1. CASE Replaces(s, t, q, a)
  BY <1>1 DEF Replaces, SameAt
<1>2. CASE Finishes(s, t, q, a)
  BY <1>2 DEF Finishes, SameAt, Put, Delete, Restrict
<1>3. CASE Executes(s, t, q)
  BY <1>3 DEF Executes, SameAt, Put
<1> QED
  BY <1>1, <1>2, <1>3

LEMMA OrderReplaces ==
  ASSUME NEW s, NEW t, NEW n, NEW q, NEW a, OrderOK(s, n), Replaces(s, t, q, a)
  PROVE  OrderOK(t, n)
BY DEF OrderOK, Replaces

LEMMA OrderFinishes ==
  ASSUME NEW s \in ConnectionState, NEW t, NEW n \in Nat, NEW q, NEW a, OrderOK(s, n),
         q \in DOMAIN s.queriesActive, Finishes(s, t, q, a)
  PROVE  OrderOK(t, n)
<1>1. /\ s.queriesActiveOrdered \in Seq(Queries) /\ s.queriesFinishedOrdered \in Seq(Queries)
      /\ q \in ToSet(s.queriesActiveOrdered) /\ q \notin ToSet(s.queriesFinishedOrdered)
      /\ q \in Queries
  BY ActiveQuery DEF OrderOK, ConnectionState
<1>2. PICK order, finished :
        /\ order = removePrimitiveFromArray(s.queriesActiveOrdered, q)
        /\ finished = Append(s.queriesFinishedOrdered, q)
  OBVIOUS
<1>3. /\ Len(order) = Len(s.queriesActiveOrdered) - 1 /\ Distinct(order)
      /\ ToSet(order) = ToSet(s.queriesActiveOrdered) \ {q}
  BY <1>1, <1>2, RemoveFirstDistinct DEF OrderOK
<1>4. /\ Len(finished) = Len(s.queriesFinishedOrdered) + 1 /\ Distinct(finished)
      /\ ToSet(finished) = ToSet(s.queriesFinishedOrdered) \cup {q}
  BY <1>1, <1>2, AppendDistinct DEF OrderOK
<1>5. /\ t.queriesActiveOrdered = order /\ t.queriesFinishedOrdered = finished
      /\ t.snapshot = s.snapshot + 1
      /\ DOMAIN t.queriesActive = DOMAIN s.queriesActive \ {q}
      /\ DOMAIN t.queriesFinished = DOMAIN s.queriesFinished \cup {q}
  BY <1>2 DEF Finishes, Put, Delete, Restrict
<1>6. Len(s.queriesActiveOrdered) \in Nat /\ Len(s.queriesFinishedOrdered) \in Nat
  BY <1>1, LenProperties
<1>7. /\ ToSet(order) \cap ToSet(finished) = {}
      /\ ToSet(order) \cup ToSet(finished) \subseteq 1..(n - 1)
      /\ DOMAIN t.queriesActive \subseteq ToSet(order)
      /\ DOMAIN t.queriesFinished \subseteq ToSet(finished)
  BY <1>1, <1>3, <1>4, <1>5 DEF OrderOK
<1>8. /\ Len(order) + Len(finished) = n - 1
      /\ t.snapshot = 1 + Len(order) + 2 * Len(finished)
  <2>1. PICK x, y, z, w : /\ x = Len(s.queriesActiveOrdered) /\ y = Len(s.queriesFinishedOrdered)
                          /\ z = Len(order) /\ w = Len(finished)
    OBVIOUS
  <2>2. /\ x \in Nat /\ y \in Nat /\ z = x - 1 /\ w = y + 1
        /\ x + y = n - 1 /\ t.snapshot = (1 + x + 2 * y) + 1
    BY <1>3, <1>4, <1>5, <1>6, <2>1 DEF OrderOK
  <2>3. z + w = n - 1 /\ t.snapshot = 1 + z + 2 * w
    BY ONLY <2>2, n \in Nat
  <2> QED
    BY <2>1, <2>3
<1> QED
  BY <1>3, <1>4, <1>5, <1>7, <1>8 DEF OrderOK

LEMMA OrderExecutes ==
  ASSUME NEW s \in ConnectionState, NEW t, NEW n \in Queries, OrderOK(s, n), Executes(s, t, n)
  PROVE  OrderOK(t, n + 1)
<1>1. /\ s.queriesActiveOrdered \in Seq(Queries) /\ s.queriesFinishedOrdered \in Seq(Queries)
      /\ n \notin ToSet(s.queriesActiveOrdered) /\ n \notin ToSet(s.queriesFinishedOrdered)
  BY DEF OrderOK, ConnectionState, Queries
<1>2. PICK order : order = Append(s.queriesActiveOrdered, n)
  OBVIOUS
<1>3. /\ Len(order) = Len(s.queriesActiveOrdered) + 1 /\ Distinct(order)
      /\ ToSet(order) = ToSet(s.queriesActiveOrdered) \cup {n}
  BY <1>1, <1>2, AppendDistinct DEF OrderOK
<1>4. /\ t.queriesActiveOrdered = order
      /\ t.queriesFinishedOrdered = s.queriesFinishedOrdered
      /\ t.snapshot = s.snapshot + 1
      /\ DOMAIN t.queriesActive = DOMAIN s.queriesActive \cup {n}
      /\ t.queriesFinished = s.queriesFinished
  BY <1>2 DEF Executes, Put
<1>5. Len(s.queriesActiveOrdered) \in Nat /\ Len(s.queriesFinishedOrdered) \in Nat /\ n \in Nat \ {0}
  BY <1>1, LenProperties DEF Queries
<1>6. ToSet(s.queriesActiveOrdered) \cup ToSet(s.queriesFinishedOrdered) \cup {n} \subseteq 1..((n + 1) - 1)
  BY <1>5 DEF OrderOK
<1>7. /\ ToSet(order) \cap ToSet(s.queriesFinishedOrdered) = {}
      /\ ToSet(order) \cup ToSet(s.queriesFinishedOrdered) \subseteq 1..((n + 1) - 1)
      /\ DOMAIN t.queriesActive \subseteq ToSet(order)
  BY <1>1, <1>3, <1>4, <1>6 DEF OrderOK
<1>8. /\ Len(order) + Len(s.queriesFinishedOrdered) = (n + 1) - 1
      /\ t.snapshot = 1 + Len(order) + 2 * Len(s.queriesFinishedOrdered)
  <2>1. PICK x, y, z : /\ x = Len(s.queriesActiveOrdered) /\ y = Len(s.queriesFinishedOrdered)
                       /\ z = Len(order)
    OBVIOUS
  <2>2. /\ x \in Nat /\ y \in Nat /\ z = x + 1
        /\ x + y = n - 1 /\ t.snapshot = (1 + x + 2 * y) + 1
    BY <1>3, <1>4, <1>5, <2>1 DEF OrderOK
  <2>3. z + y = (n + 1) - 1 /\ t.snapshot = 1 + z + 2 * y
    BY ONLY <2>2, <1>5
  <2> QED
    BY <2>1, <2>3
<1> QED
  BY <1>3, <1>4, <1>7, <1>8 DEF OrderOK

-----------------------------------------------------------------------------
(***************************************************************************)
(* The steps of one query: its executor gets e and its server gets v.      *)
(***************************************************************************)
StepOf(q, e, v) ==
  /\ exec' = [exec EXCEPT ![q] = e]
  /\ server' = [server EXCEPT ![q] = v]
  /\ UNCHANGED <<connector, NEXT_QUERY_ID, resets>>

\* Such steps have nothing to do with the updates, and make the query list
\* compute its rows again when they change them.
Tame(s, t) ==
  /\ t.catalogUpdates = s.catalogUpdates
  /\ computeViewModel(t) # computeViewModel(s) => updateViewModel(s, t)

LEMMA TameSteps ==
  ASSUME NEW s \in ConnectionState, NEW t, NEW q, NEW a,
         \/ t = s
         \/ Replaces(s, t, q, a)
         \/ Finishes(s, t, q, a)
         \/ Executes(s, t, q)
  PROVE  Tame(s, t)
<1>1. s.snapshot + 1 # s.snapshot
  BY DEF ConnectionState
<1>2. CASE t = s
  BY <1>2 DEF Tame
<1>3. CASE Replaces(s, t, q, a)
  BY <1>3 DEF Tame, Replaces, SameConnection, computeViewModel
<1>4. CASE Finishes(s, t, q, a) \/ Executes(s, t, q)
  BY <1>1, <1>4 DEF Tame, Finishes, Executes, SameConnection, updateViewModel
<1> QED
  BY <1>2, <1>3, <1>4

LEMMA StepKeeps ==
  ASSUME QueriesOK, NEW q \in Queries, NEW e \in Executors, NEW v \in Servers,
         StepOf(q, e, v),
         ExecutorOK(connector, NEXT_QUERY_ID, resets, e, v, q),
         conn' \in ConnectionState,
         OrderOK(conn', NEXT_QUERY_ID),
         \A p \in Queries \ {q} : SameAt(conn, conn', p),
         MapsOK(conn', resets, e, v, q)
  PROVE  QueriesOK'
<1>1. exec' \in [Queries -> Executors] /\ server' \in [Queries -> Servers]
  BY DEF StepOf, QueriesOK
<1>2. /\ exec'[q] = e /\ server'[q] = v
      /\ \A p \in Queries \ {q} : exec'[p] = exec[p] /\ server'[p] = server[p]
  BY DEF StepOf, QueriesOK
<1>3. connector' = connector /\ NEXT_QUERY_ID' = NEXT_QUERY_ID /\ resets' = resets
  BY DEF StepOf
<1>4. ASSUME NEW p \in Queries
      PROVE  ExecutorOK(connector', NEXT_QUERY_ID', resets', exec'[p], server'[p], p)
  BY <1>2, <1>3 DEF QueriesOK
<1>5. ASSUME NEW p \in Queries
      PROVE  MapsOK(conn', resets', exec'[p], server'[p], p)
  <2>1. CASE p = q
    BY <1>2, <1>3, <2>1
  <2>2. CASE p # q
    BY <1>2, <1>3, <2>2, MapsKept DEF QueriesOK
  <2> QED
    BY <2>1, <2>2
<1> QED
  BY <1>1, <1>3, <1>4, <1>5 DEF QueriesOK

\* The query is from before a RESET: its actions are ignored.
LEMMA IgnoredStep ==
  ASSUME QueriesOK, NEW q \in Queries, NEW e \in Executors, NEW v \in Servers,
         StepOf(q, e, v),
         ExecutorOK(connector, NEXT_QUERY_ID, resets, e, v, q),
         Live(exec[q]), ~Active(conn, q), e.issued = exec[q].issued,
         conn' = conn
  PROVE  QueriesOK' /\ Tame(conn, conn')
<1>1. MapsOK(conn, resets, exec[q], server[q], q)
  BY DEF QueriesOK
<1>2. exec[q].issued # resets
  BY <1>1 DEF MapsOK, Active
<1>3. q \notin DOMAIN conn.queriesActive /\ q \notin DOMAIN conn.queriesFinished
  BY <1>1, <1>2 DEF MapsOK
<1>4. MapsOK(conn, resets, e, v, q)
  BY <1>2, <1>3 DEF MapsOK
<1>5. \A p \in Queries \ {q} : SameAt(conn, conn, p)
  BY DEF SameAt
<1> QED
  BY <1>4, <1>5, StepKeeps, TameSteps DEF QueriesOK

\* The query goes on.
LEMMA AdvancingStep ==
  ASSUME QueriesOK, NEW q \in Queries, NEW e \in Executors, NEW v \in Servers,
         StepOf(q, e, v),
         ExecutorOK(connector, NEXT_QUERY_ID, resets, e, v, q),
         Live(e), e.issued = exec[q].issued, Active(conn, q),
         NEW a, Replaces(conn, conn', q, a), ActiveOK(a, e, v)
  PROVE  QueriesOK' /\ Tame(conn, conn')
<1>1. MapsOK(conn, resets, exec[q], server[q], q) /\ conn \in ConnectionState
  BY DEF QueriesOK
<1>2. q \in DOMAIN conn.queriesActive /\ exec[q].issued = resets
      /\ q \notin DOMAIN conn.queriesFinished
  BY <1>1 DEF MapsOK, Active, Live, Ended
<1>3. /\ DOMAIN conn'.queriesActive = DOMAIN conn.queriesActive
      /\ conn'.queriesActive[q] = a
      /\ conn'.queriesFinished = conn.queriesFinished
  BY <1>2 DEF Replaces
<1>4. ~Ended(e)
  BY DEF Live, Ended
<1>5. MapsOK(conn', resets, e, v, q)
  BY <1>2, <1>3, <1>4 DEF MapsOK
<1>6. \A p \in Queries \ {q} : SameAt(conn, conn', p)
  BY <1>1, OthersKept
<1>7. OrderOK(conn', NEXT_QUERY_ID) /\ conn' \in ConnectionState
  BY <1>1, OrderReplaces DEF QueriesOK, Replaces
<1>8. Tame(conn, conn')
  BY <1>1, TameSteps
<1> QED
  BY <1>5, <1>6, <1>7, <1>8, StepKeeps

\* The query ends.
LEMMA EndingStep ==
  ASSUME QueriesOK, NEW q \in Queries, NEW e \in Executors, NEW v \in Servers,
         StepOf(q, e, v),
         ExecutorOK(connector, NEXT_QUERY_ID, resets, e, v, q),
         Ended(e), e.issued = exec[q].issued, Active(conn, q),
         NEW a, Finishes(conn, conn', q, a), FinishedOK(a, e, v)
  PROVE  QueriesOK' /\ Tame(conn, conn')
<1>1. /\ MapsOK(conn, resets, exec[q], server[q], q) /\ conn \in ConnectionState
      /\ OrderOK(conn, NEXT_QUERY_ID) /\ NEXT_QUERY_ID \in Nat
  BY QueryAssumption DEF QueriesOK
<1>2. q \in DOMAIN conn.queriesActive /\ exec[q].issued = resets
  BY <1>1 DEF MapsOK, Active
<1>3. /\ q \notin DOMAIN conn'.queriesActive
      /\ q \in DOMAIN conn'.queriesFinished /\ conn'.queriesFinished[q] = a
  BY DEF Finishes, Put, Delete, Restrict
<1>4. ~Live(e)
  BY DEF Live, Ended
<1>5. MapsOK(conn', resets, e, v, q)
  BY <1>2, <1>3, <1>4 DEF MapsOK
<1>6. \A p \in Queries \ {q} : SameAt(conn, conn', p)
  BY <1>1, OthersKept
<1>7. OrderOK(conn', NEXT_QUERY_ID)
  BY <1>1, <1>2, OrderFinishes
<1>8. conn' \in ConnectionState
  BY DEF Finishes
<1>9. Tame(conn, conn')
  BY <1>1, TameSteps
<1> QED
  BY <1>5, <1>6, <1>7, <1>8, <1>9, StepKeeps

\* Steps that are not about the queries.
LEMMA SameQueriesKeep ==
  ASSUME QueriesOK, conn' \in ConnectionState, SameQueries(conn, conn'),
         UNCHANGED <<connector, NEXT_QUERY_ID, exec, server, resets>>
  PROVE  QueriesOK'
<1>1. OrderOK(conn', NEXT_QUERY_ID)
  BY DEF QueriesOK, OrderOK, SameQueries
<1>2. \A q \in Queries : MapsOK(conn', resets, exec[q], server[q], q)
  BY DEF QueriesOK, MapsOK, SameQueries
<1> QED
  BY <1>1, <1>2 DEF QueriesOK

-----------------------------------------------------------------------------
(***************************************************************************)
(* The batches of a stream.                                                *)
(***************************************************************************)
LEMMA NumbersTable ==
  ASSUME NEW n \in 0..MaxBatches
  PROVE  /\ Numbers(n) \in Tables \ {NoTable}
         /\ Append(Numbers(n), n + 1) = Numbers(n + 1)
<1>1. MaxBatches \in Nat
  BY QueryAssumption
<1>2. Numbers(n) \in [1..n -> Batches]
  BY <1>1 DEF Numbers, Batches
<1>3. Numbers(n) # NoTable
  <2>1. ASSUME Numbers(n) = NoTable PROVE FALSE
    <3>1. DOMAIN NoTable = {1} /\ NoTable[1] = 0
      BY DEF NoTable
    <3>2. 1 \in DOMAIN Numbers(n)
      BY <2>1, <3>1
    <3>3. Numbers(n)[1] = 1
      BY <3>2 DEF Numbers
    <3> QED
      BY <2>1, <3>1, <3>3
  <2> QED
    BY <2>1
<1>4. Append(Numbers(n), n + 1) = Numbers(n + 1)
  <2>1. Numbers(n) \in Seq(Nat) /\ Len(Numbers(n)) = n
    BY <1>1 DEF Numbers
  <2>2. PICK a : a = Append(Numbers(n), n + 1)
    OBVIOUS
  <2>3. /\ a \in Seq(Nat) /\ Len(a) = n + 1 /\ a[n + 1] = n + 1
        /\ \A i \in 1..n : a[i] = Numbers(n)[i]
    BY <1>1, <2>1, <2>2, AppendProperties
  <2>4. a \in [1..(n + 1) -> Nat]
    BY <2>3, LenProperties
  <2>5. \A i \in 1..(n + 1) : a[i] = i
    BY <1>1, <2>3 DEF Numbers
  <2>6. a = Numbers(n + 1)
    BY <2>4, <2>5 DEF Numbers
  <2> QED
    BY <2>2, <2>6
<1> QED
  BY <1>2, <1>3, <1>4 DEF Tables

-----------------------------------------------------------------------------
(***************************************************************************)
(* The steps of a query.                                                   *)
(***************************************************************************)

\* What is known of a query whose executor awaits something.
LEMMA LiveQuery ==
  ASSUME QueriesOK, NEW q \in Queries, Live(exec[q])
  PROVE  /\ exec[q] \in Executors /\ server[q] \in Servers /\ conn \in ConnectionState
         /\ ExecutorOK(connector, NEXT_QUERY_ID, resets, exec[q], server[q], q)
         /\ exec[q].issued <= resets
         /\ ~(NEXT_QUERY_ID <= q)
         /\ exec[q].batches = Numbers(server[q].sent)
         /\ Active(conn, q) =>
              /\ ActiveOK(conn.queriesActive[q], exec[q], server[q])
              /\ conn.queriesActive[q] \in QueryState
BY ActiveQuery DEF QueriesOK, ExecutorOK, MapsOK, Live, Active

LEMMA Ending ==
  ASSUME QueriesOK, NEW q, NEW s, NEW a, Replaces(conn, s, q, a) \/ s = conn, Active(s, q)
  PROVE  /\ Finishes(s, QuerySucceeded(s, q), q, [s.queriesActive[q] EXCEPT !.status = "SUCCEEDED"])
         /\ Finishes(s, QueryFailed(s, q), q, [s.queriesActive[q] EXCEPT !.status = "FAILED"])
<1>1. s \in ConnectionState /\ OrderOK(s, NEXT_QUERY_ID)
  BY OrderReplaces DEF QueriesOK, Replaces
<1>2. s.queriesActiveOrdered \in Seq(Queries) /\ q \in ToSet(s.queriesActiveOrdered)
  BY <1>1 DEF ConnectionState, OrderOK, Active
<1>3. removePrimitiveFromArray(s.queriesActiveOrdered, q) \in Seq(Queries)
  BY <1>1, <1>2, RemoveFirstDistinct DEF OrderOK
<1> QED
  BY <1>1, <1>3, FinishQueryFinishes

\* A query fails after the server has sent v.
LEMMA FailKeeps ==
  ASSUME QueriesOK, NEW q \in Queries, Live(exec[q]), Fail(q),
         NEW v \in Servers, server' = [server EXCEPT ![q] = v],
         server[q].responses <= v.responses,
         connector = "TRINO" /\ v.state \in TrinoRuns => v.responses < MaxFetches
  PROVE  QueriesOK' /\ Tame(conn, conn')
<1>1. PICK e : e = [exec[q] EXCEPT !.state = "failed"]
  OBVIOUS
<1>2. e \in Executors /\ e.state = "failed" /\ e.issued = exec[q].issued
  BY <1>1, LiveQuery DEF Executors, ExecutionStates
<1>3. StepOf(q, e, v)
  BY <1>1, LiveQuery DEF Fail, StepOf, QueriesOK
<1>4. ExecutorOK(connector, NEXT_QUERY_ID, resets, e, v, q)
  BY <1>2, LiveQuery DEF ExecutorOK
<1>5. CASE ~Active(conn, q)
  <2>1. conn' = conn
    BY <1>5 DEF Fail, QueryFailed
  <2> QED
    BY <1>2, <1>3, <1>4, <1>5, <2>1, IgnoredStep
<1>6. CASE Active(conn, q)
  <2>1. PICK a : a = [conn.queriesActive[q] EXCEPT !.status = "FAILED"]
    OBVIOUS
  <2>2. Finishes(conn, conn', q, a)
    BY <1>6, <2>1, Ending DEF Fail
  <2>3. /\ a.status = "FAILED" /\ a.progressUpdates = conn.queriesActive[q].progressUpdates
        /\ a.progressUpdates \in Nat
    BY <1>6, <2>1, LiveQuery DEF QueryState
  <2>4. a.progressUpdates <= v.responses
    <3>1. conn.queriesActive[q].progressUpdates <= server[q].responses
      BY <1>6, LiveQuery DEF ActiveOK
    <3>2. server[q].responses \in Nat /\ v.responses \in Nat
      BY LiveQuery DEF Servers
    <3> QED
      BY <2>3, <3>1, <3>2
  <2>5. FinishedOK(a, e, v)
    BY <1>2, <2>3, <2>4 DEF FinishedOK, StatusOf
  <2>6. Ended(e)
    BY <1>2 DEF Ended
  <2> QED
    BY <1>2, <1>3, <1>4, <1>6, <2>2, <2>5, <2>6, EndingStep
<1> QED
  BY <1>5, <1>6

LEMMA FailKeepsServer ==
  ASSUME QueriesOK, NEW q \in Queries, Live(exec[q]), Fail(q), UNCHANGED server
  PROVE  QueriesOK' /\ Tame(conn, conn')
<1>1. server' = [server EXCEPT ![q] = server[q]] /\ server[q] \in Servers
  BY DEF QueriesOK
<1>2. server[q].responses <= server[q].responses
  BY <1>1 DEF Servers
<1>3. connector = "TRINO" /\ server[q].state \in TrinoRuns => server[q].responses < MaxFetches
  BY LiveQuery DEF ExecutorOK
<1> QED
  BY <1>1, <1>2, <1>3, FailKeeps

LEMMA StartStreamKeeps ==
  ASSUME QueriesOK, NEW q \in Queries, StartStream(q)
  PROVE  QueriesOK' /\ Tame(conn, conn')
<1>1. Live(exec[q]) /\ exec[q].state = "sending"
  BY DEF StartStream, Live
<1>2. PICK first \in FirstStates : server' = [server EXCEPT ![q].state = first]
  BY DEF StartStream
<1>3. PICK e, v : e = [exec[q] EXCEPT !.state = "streaming"] /\ v = [server[q] EXCEPT !.state = first]
  OBVIOUS
<1>4. /\ e \in Executors /\ e.state = "streaming" /\ e.issued = exec[q].issued
      /\ e.batches = exec[q].batches
  BY <1>1, <1>3, LiveQuery DEF Executors, ExecutionStates
<1>5. server[q] = NoResponse
  BY <1>1, LiveQuery DEF ExecutorOK
<1>6. v \in Servers /\ v.sent = server[q].sent /\ v.responses = 0
  BY <1>1, <1>3, <1>5, LiveQuery DEF Servers, FirstStates, TrinoRuns, TrinoEnds, NoResponse
<1>7. StepOf(q, e, v)
  BY <1>2, <1>3 DEF StartStream, StepOf, QueriesOK
<1>8. ExecutorOK(connector, NEXT_QUERY_ID, resets, e, v, q)
  <2>1. 0 < MaxFetches
    BY QueryAssumption
  <2> QED
    BY <1>1, <1>4, <1>6, <2>1, LiveQuery DEF ExecutorOK
<1>9. CASE ~Active(conn, q)
  <2>1. conn' = conn
    BY <1>9 DEF StartStream, QueryRunning, SetStatus
  <2> QED
    BY <1>1, <1>4, <1>6, <1>7, <1>8, <1>9, <2>1, IgnoredStep
<1>10. CASE Active(conn, q)
  <2>1. PICK a : a = [conn.queriesActive[q] EXCEPT !.status = "RUNNING"]
    OBVIOUS
  <2>2. Replaces(conn, conn', q, a)
    BY <1>1, <1>10, <2>1, LiveQuery, SetStatusReplaces DEF StartStream, QueryRunning, QueryExecutionStatus
  <2>3. /\ a.status = "RUNNING" /\ a.resultBatches = conn.queriesActive[q].resultBatches
        /\ a.progressUpdates = conn.queriesActive[q].progressUpdates
    BY <1>1, <1>10, <2>1, LiveQuery DEF QueryState
  <2>4. ActiveOK(a, e, v)
    BY <1>1, <1>4, <1>5, <1>6, <1>10, <2>3, LiveQuery DEF ActiveOK, StatusOf, NoResponse
  <2>5. Live(e)
    BY <1>4 DEF Live
  <2> QED
    BY <1>4, <1>6, <1>7, <1>8, <1>10, <2>2, <2>4, <2>5, AdvancingStep
<1> QED
  BY <1>9, <1>10

LEMMA ReplacesItself ==
  ASSUME NEW s \in ConnectionState, NEW q, Active(s, q)
  PROVE  Replaces(s, s, q, s.queriesActive[q])
<1>1. [s.queriesActive EXCEPT ![q] = s.queriesActive[q]] = s.queriesActive
  BY DEF ConnectionState, Maps
<1> QED
  BY <1>1 DEF Replaces, SameConnection

\* A response of Trino counts as progress, a batch of the others does not.
LEMMA Progressed ==
  ASSUME QueriesOK, NEW q \in Queries, Live(exec[q]), Active(conn, q), NEW n,
         NEW s, \/ s = conn /\ n = server[q].responses
                \/ s = QueryProgressUpdated(conn, q) /\ n = server[q].responses + 1
  PROVE  \E b \in QueryState :
           /\ Replaces(conn, s, q, b)
           /\ b.status = conn.queriesActive[q].status
           /\ b.resultBatches = exec[q].batches
           /\ b.resultTable = conn.queriesActive[q].resultTable
           /\ b.progressUpdates <= n
<1>1. PICK a : a = conn.queriesActive[q]
  OBVIOUS
<1>2. /\ a \in QueryState /\ a.resultBatches = exec[q].batches
      /\ a.progressUpdates <= server[q].responses
  BY <1>1, LiveQuery DEF ActiveOK
<1>3. conn \in ConnectionState /\ server[q].responses \in Nat
  BY LiveQuery DEF Servers
<1>4. CASE s = conn /\ n = server[q].responses
  BY <1>1, <1>2, <1>3, <1>4, ReplacesItself
<1>5. CASE s = QueryProgressUpdated(conn, q) /\ n = server[q].responses + 1
  <2>1. PICK b : b = [a EXCEPT !.progressUpdates = @ + 1]
    OBVIOUS
  <2>2. /\ b \in QueryState /\ b.status = a.status /\ b.resultBatches = a.resultBatches
        /\ b.resultTable = a.resultTable /\ b.progressUpdates = a.progressUpdates + 1
    BY <1>2, <2>1 DEF QueryState
  <2>3. b.progressUpdates <= n
    BY <1>2, <1>3, <1>5, <2>2 DEF QueryState
  <2>4. Replaces(conn, s, q, b)
    BY <1>1, <1>3, <1>5, <2>1, ProgressReplaces
  <2> QED
    BY <1>1, <1>2, <2>2, <2>3, <2>4
<1> QED
  BY <1>4, <1>5

LEMMA ReceiveKeeps ==
  ASSUME QueriesOK, NEW q \in Queries, Streaming(q),
         NEW v \in Servers, server' = [server EXCEPT ![q] = v],
         v.sent = server[q].sent + 1,
         NEW s, \/ s = conn /\ v.responses = server[q].responses
                \/ s = QueryProgressUpdated(conn, q) /\ v.responses = server[q].responses + 1,
         connector = "TRINO" /\ v.state \in TrinoRuns => v.responses < MaxFetches,
         ReceiveBatch(s, q, server[q].sent + 1),
         UNCHANGED <<connector, NEXT_QUERY_ID, resets>>
  PROVE  QueriesOK' /\ Tame(conn, conn')
<1>1. Live(exec[q]) /\ exec[q].state = "streaming"
  BY DEF Streaming, Live
<1>2. PICK n : n = server[q].sent
  OBVIOUS
<1>3. /\ n \in 0..MaxBatches /\ n + 1 \in 0..MaxBatches /\ v.sent = n + 1
      /\ exec[q].batches = Numbers(n)
  BY <1>1, <1>2, LiveQuery DEF Servers
<1>4. /\ Append(Numbers(n), n + 1) = Numbers(n + 1)
      /\ Numbers(n + 1) \in Tables \ {NoTable}
  BY <1>3, NumbersTable
<1>5. PICK e : e = [exec[q] EXCEPT !.batches = Numbers(n + 1), !.schema = TRUE]
  OBVIOUS
<1>6. /\ e \in Executors /\ e.state = "streaming" /\ e.issued = exec[q].issued
      /\ e.batches = Numbers(v.sent)
  BY <1>1, <1>3, <1>4, <1>5, LiveQuery DEF Executors
<1>7. StepOf(q, e, v)
  <2>1. exec' = [exec EXCEPT ![q] = e]
    BY <1>1, <1>2, <1>3, <1>4, <1>5, LiveQuery DEF ReceiveBatch, QueriesOK, Executors
  <2> QED
    BY <2>1 DEF StepOf
<1>8. ExecutorOK(connector, NEXT_QUERY_ID, resets, e, v, q)
  BY <1>1, <1>6, LiveQuery DEF ExecutorOK
<1>9. conn' = QueryReceivedBatch(s, q, n + 1)
  BY <1>2 DEF ReceiveBatch
<1>10. CASE ~Active(conn, q)
  <2>1. s = conn
    BY <1>10 DEF QueryProgressUpdated
  <2>2. conn' = conn
    BY <1>9, <1>10, <2>1 DEF QueryReceivedBatch
  <2> QED
    BY <1>1, <1>6, <1>7, <1>8, <1>10, <2>2, IgnoredStep
<1>11. CASE Active(conn, q)
  <2>1. PICK b \in QueryState : /\ Replaces(conn, s, q, b)
                                /\ b.resultBatches = exec[q].batches
                                /\ b.progressUpdates <= v.responses
    BY <1>1, <1>11, Progressed
  <2>2. /\ conn \in ConnectionState /\ s \in ConnectionState
        /\ Active(s, q) /\ s.queriesActive[q] = b
    BY <1>1, <1>11, <2>1, LiveQuery DEF Replaces, Active
  <2>3. Append(b.resultBatches, n + 1) = Numbers(n + 1)
    BY <1>3, <1>4, <2>1
  <2>4. PICK a : a = [b EXCEPT !.resultBatches = Append(@, n + 1), !.status = "RECEIVED_FIRST_BATCH"]
    OBVIOUS
  <2>5. Replaces(s, conn', q, a)
    BY <1>4, <1>9, <2>2, <2>3, <2>4, BatchReplaces
  <2>6. Replaces(conn, conn', q, a)
    BY <2>1, <2>2, <2>5, ReplacesReplaces
  <2>7. /\ a.status = "RECEIVED_FIRST_BATCH" /\ a.resultBatches = e.batches
        /\ a.progressUpdates = b.progressUpdates
    BY <1>3, <1>6, <2>3, <2>4 DEF QueryState
  <2>8. ActiveOK(a, e, v) /\ Live(e)
    BY <1>6, <2>1, <2>7 DEF ActiveOK, StatusOf, Live
  <2> QED
    BY <1>6, <1>7, <1>8, <1>11, <2>6, <2>8, AdvancingStep
<1> QED
  BY <1>10, <1>11

LEMMA TrinoLoopFacts ==
  ASSUME QueriesOK, NEW q \in Queries, TrinoLoops(q), NEW next \in NextStates(q)
  PROVE  /\ Live(exec[q]) /\ Streaming(q) /\ connector = "TRINO"
         /\ server[q] \in Servers
         /\ next \in TrinoRuns \cup TrinoEnds \cup {"none"}
         /\ server[q].responses + 1 \in 0..MaxFetches
         /\ next \in TrinoRuns => server[q].responses + 1 < MaxFetches
<1>1. Live(exec[q]) /\ Streaming(q) /\ connector = "TRINO" /\ server[q].state \in TrinoRuns
  BY DEF TrinoLoops, Streaming, Live
<1>2. server[q] \in Servers /\ server[q].responses < MaxFetches
  BY <1>1, LiveQuery DEF ExecutorOK
<1>3. server[q].responses + 1 \in 0..MaxFetches
  BY <1>2, QueryAssumption DEF Servers
<1>4. /\ next \in TrinoRuns \cup TrinoEnds
      /\ next \in TrinoRuns => server[q].responses + 1 < MaxFetches
  BY DEF NextStates, TrinoRuns, TrinoEnds
<1> QED
  BY <1>1, <1>2, <1>3, <1>4

LEMMA TrinoFetchesRowsKeeps ==
  ASSUME QueriesOK, NEW q \in Queries, TrinoFetchesRows(q)
  PROVE  QueriesOK' /\ Tame(conn, conn')
<1>1. PICK next \in NextStates(q), columns \in BOOLEAN :
        /\ server' = [server EXCEPT ![q] = [state |-> next, sent |-> @.sent + 1,
                                            responses |-> @.responses + 1]]
        /\ IF exec[q].schema \/ columns
           THEN /\ ReceiveBatch(QueryProgressUpdated(conn, q), q, server[q].sent + 1)
                /\ UNCHANGED <<connector, NEXT_QUERY_ID, resets>>
           ELSE Fail(q)
  BY DEF TrinoFetchesRows
<1>2. TrinoLoops(q) /\ server[q].sent < MaxBatches
  BY DEF TrinoFetchesRows
<1>3. PICK v : v = [state |-> next, sent |-> server[q].sent + 1,
                    responses |-> server[q].responses + 1]
  OBVIOUS
<1>4. /\ v \in Servers /\ v.state = next /\ v.sent = server[q].sent + 1
      /\ v.responses = server[q].responses + 1
  BY <1>2, <1>3, TrinoLoopFacts, QueryAssumption DEF Servers
<1>5. server' = [server EXCEPT ![q] = v]
  BY <1>1, <1>3 DEF QueriesOK
<1>6. connector = "TRINO" /\ v.state \in TrinoRuns => v.responses < MaxFetches
  BY <1>2, <1>4, TrinoLoopFacts
<1>7. CASE exec[q].schema \/ columns
  BY <1>1, <1>2, <1>4, <1>5, <1>6, <1>7, TrinoLoopFacts, ReceiveKeeps
<1>8. CASE ~(exec[q].schema \/ columns)
  <2>1. Fail(q)
    BY <1>1, <1>8
  <2>2. server[q].responses <= v.responses
    BY <1>2, <1>4, TrinoLoopFacts DEF Servers
  <2> QED
    BY <1>2, <1>4, <1>5, <1>6, <2>1, <2>2, TrinoLoopFacts, FailKeeps
<1> QED
  BY <1>7, <1>8

LEMMA TrinoFetchesNoRowsKeeps ==
  ASSUME QueriesOK, NEW q \in Queries, TrinoFetchesNoRows(q)
  PROVE  QueriesOK' /\ Tame(conn, conn')
<1>1. PICK next \in NextStates(q) :
        server' = [server EXCEPT ![q].state = next, ![q].responses = @ + 1]
  BY DEF TrinoFetchesNoRows
<1>2. TrinoLoops(q) /\ conn' = QueryProgressUpdated(conn, q)
  BY DEF TrinoFetchesNoRows
<1>3. PICK v : v = [server[q] EXCEPT !.state = next, !.responses = @ + 1]
  OBVIOUS
<1>4. /\ v \in Servers /\ v.state = next /\ v.sent = server[q].sent
      /\ v.responses = server[q].responses + 1
  BY <1>2, <1>3, TrinoLoopFacts DEF Servers
<1>5. StepOf(q, exec[q], v)
  BY <1>1, <1>3 DEF TrinoFetchesNoRows, StepOf, QueriesOK
<1>6. Live(exec[q]) /\ exec[q] \in Executors /\ exec[q].state = "streaming"
  BY <1>2, LiveQuery DEF TrinoLoops, Streaming, Live
<1>7. ExecutorOK(connector, NEXT_QUERY_ID, resets, exec[q], v, q)
  BY <1>2, <1>4, <1>6, TrinoLoopFacts, LiveQuery DEF ExecutorOK
<1>8. CASE ~Active(conn, q)
  <2>1. conn' = conn
    BY <1>2, <1>8 DEF QueryProgressUpdated
  <2> QED
    BY <1>4, <1>5, <1>6, <1>7, <1>8, <2>1, IgnoredStep
<1>9. CASE Active(conn, q)
  <2>1. PICK b \in QueryState : /\ Replaces(conn, conn', q, b)
                                /\ b.status = conn.queriesActive[q].status
                                /\ b.resultBatches = exec[q].batches
                                /\ b.resultTable = conn.queriesActive[q].resultTable
                                /\ b.progressUpdates <= v.responses
    BY <1>2, <1>4, <1>6, <1>9, Progressed
  <2>2. ActiveOK(b, exec[q], v)
    BY <1>6, <1>9, <2>1, LiveQuery DEF ActiveOK
  <2> QED
    BY <1>4, <1>5, <1>6, <1>7, <1>9, <2>1, <2>2, AdvancingStep
<1> QED
  BY <1>8, <1>9

LEMMA TrinoFetchFailsKeeps ==
  ASSUME QueriesOK, NEW q \in Queries, TrinoFetchFails(q) \/ HyperStreamFails(q)
  PROVE  QueriesOK' /\ Tame(conn, conn')
<1>1. /\ Live(exec[q]) /\ Fail(q)
      /\ server' = [server EXCEPT ![q].state = "FAILED"]
  BY DEF TrinoFetchFails, HyperStreamFails, TrinoLoops, Streaming, Live
<1>2. PICK v : v = [server[q] EXCEPT !.state = "FAILED"]
  OBVIOUS
<1>3. /\ v \in Servers /\ v.state = "FAILED"
      /\ server[q].responses <= v.responses
  BY <1>1, <1>2, LiveQuery DEF Servers, TrinoEnds
<1>4. server' = [server EXCEPT ![q] = v]
  BY <1>1, <1>2 DEF QueriesOK
<1>5. v.state \notin TrinoRuns
  BY <1>3 DEF TrinoRuns
<1> QED
  BY <1>1, <1>3, <1>4, <1>5, FailKeeps

LEMMA ReceivesBatchKeeps ==
  ASSUME QueriesOK, NEW q \in Queries, ReceivesBatch(q)
  PROVE  QueriesOK' /\ Tame(conn, conn')
<1>1. PICK v : v = [server[q] EXCEPT !.sent = @ + 1]
  OBVIOUS
<1>2. Live(exec[q]) /\ Streaming(q) /\ connector # "TRINO" /\ server[q].sent < MaxBatches
  BY DEF ReceivesBatch, Streaming, Live
<1>3. v \in Servers /\ v.sent = server[q].sent + 1 /\ v.responses = server[q].responses
  BY <1>1, <1>2, LiveQuery, QueryAssumption DEF Servers
<1>4. server' = [server EXCEPT ![q] = v]
  BY <1>1 DEF ReceivesBatch, QueriesOK
<1> QED
  BY <1>2, <1>3, <1>4, ReceiveKeeps DEF ReceivesBatch

\* The executor goes from one state to another and the server sends nothing.
LEMMA StateChange ==
  ASSUME QueriesOK, NEW q \in Queries, Live(exec[q]), NEW state \in {"drained", "analyzing", "done", "failed"},
         exec' = [exec EXCEPT ![q].state = state],
         UNCHANGED <<connector, NEXT_QUERY_ID, server, resets>>
  PROVE  \E e \in Executors :
           /\ e.state = state /\ e.issued = exec[q].issued /\ e.batches = exec[q].batches
           /\ StepOf(q, e, server[q])
           /\ ExecutorOK(connector, NEXT_QUERY_ID, resets, e, server[q], q)
<1>1. PICK e : e = [exec[q] EXCEPT !.state = state]
  OBVIOUS
<1>2. e \in Executors /\ e.state = state /\ e.issued = exec[q].issued /\ e.batches = exec[q].batches
  BY <1>1, LiveQuery DEF Executors, ExecutionStates
<1>3. StepOf(q, e, server[q])
  BY <1>1 DEF StepOf, QueriesOK
<1>4. ExecutorOK(connector, NEXT_QUERY_ID, resets, e, server[q], q)
  BY <1>2, LiveQuery DEF ExecutorOK
<1> QED
  BY <1>2, <1>3, <1>4

LEMMA HyperStreamDrainsKeeps ==
  ASSUME QueriesOK, NEW q \in Queries, HyperStreamDrains(q)
  PROVE  QueriesOK' /\ Tame(conn, conn')
<1>1. Live(exec[q]) /\ exec[q].state = "streaming"
  BY DEF HyperStreamDrains, Streaming, Live
<1>2. PICK e \in Executors :
        /\ e.state = "drained" /\ e.issued = exec[q].issued /\ e.batches = exec[q].batches
        /\ StepOf(q, e, server[q])
        /\ ExecutorOK(connector, NEXT_QUERY_ID, resets, e, server[q], q)
  BY <1>1, StateChange DEF HyperStreamDrains
<1>3. server[q] \in Servers /\ conn \in ConnectionState /\ conn' = conn
  BY <1>1, LiveQuery DEF HyperStreamDrains
<1>4. CASE ~Active(conn, q)
  BY <1>1, <1>2, <1>3, <1>4, IgnoredStep
<1>5. CASE Active(conn, q)
  <2>1. PICK a : a = conn.queriesActive[q]
    OBVIOUS
  <2>2. a \in QueryState /\ ActiveOK(a, exec[q], server[q])
    BY <1>1, <1>5, <2>1, LiveQuery
  <2>3. Replaces(conn, conn', q, a)
    BY <1>3, <1>5, <2>1, ReplacesItself
  <2>4. ActiveOK(a, e, server[q]) /\ Live(e)
    BY <1>1, <1>2, <2>2 DEF ActiveOK, StatusOf, Live
  <2> QED
    BY <1>2, <1>3, <1>5, <2>3, <2>4, AdvancingStep
<1> QED
  BY <1>4, <1>5

LEMMA StreamEndsKeeps ==
  ASSUME QueriesOK, NEW q \in Queries, StreamEnds(q)
  PROVE  QueriesOK' /\ Tame(conn, conn')
<1>1. Live(exec[q])
  BY DEF StreamEnds, Streaming, Live
<1>2. PICK s : s = QueryReceivedAllBatches(conn, q, exec[q].batches)
  OBVIOUS
<1>3. PICK state \in {"analyzing", "done"} :
        /\ exec' = [exec EXCEPT ![q].state = state]
        /\ state = "analyzing" => conn' = QueryProcessingResults(s, q)
        /\ state = "done" => conn' = QuerySucceeded(s, q)
  BY <1>2 DEF StreamEnds
<1>4. PICK e \in Executors :
        /\ e.state = state /\ e.issued = exec[q].issued /\ e.batches = exec[q].batches
        /\ StepOf(q, e, server[q])
        /\ ExecutorOK(connector, NEXT_QUERY_ID, resets, e, server[q], q)
  BY <1>1, <1>3, StateChange DEF StreamEnds
<1>5. server[q] \in Servers /\ conn \in ConnectionState /\ exec[q].batches \in Tables
  BY <1>1, LiveQuery DEF Executors
<1>6. CASE ~Active(conn, q)
  <2>1. s = conn
    BY <1>2, <1>6 DEF QueryReceivedAllBatches
  <2>2. conn' = conn
    BY <1>3, <1>6, <2>1 DEF QueryProcessingResults, SetStatus, QuerySucceeded
  <2> QED
    BY <1>1, <1>4, <1>5, <1>6, <2>2, IgnoredStep
<1>7. CASE Active(conn, q)
  <2>1. PICK a : a = conn.queriesActive[q]
    OBVIOUS
  <2>2. a \in QueryState /\ ActiveOK(a, exec[q], server[q])
    BY <1>1, <1>7, <2>1, LiveQuery
  <2>3. PICK b : b = [a EXCEPT !.resultTable = exec[q].batches, !.status = "RECEIVED_ALL_BATCHES"]
    OBVIOUS
  <2>4. /\ b \in QueryState /\ b.resultTable = e.batches /\ b.resultBatches = e.batches
        /\ b.progressUpdates <= server[q].responses
    BY <1>4, <1>5, <2>2, <2>3 DEF QueryState, QueryExecutionStatus, ActiveOK
  <2>5. Replaces(conn, s, q, b)
    BY <1>2, <1>5, <1>7, <2>1, <2>3, AllBatchesReplaces
  <2>6. s \in ConnectionState /\ Active(s, q) /\ s.queriesActive[q] = b
    BY <1>7, <2>5 DEF Replaces, Active
  <2>7. CASE state = "analyzing"
    <3>1. PICK c : c = [b EXCEPT !.status = "PROCESSING_RESULTS"]
      OBVIOUS
    <3>2. Replaces(s, conn', q, c)
      BY <1>3, <2>6, <2>7, <3>1, SetStatusReplaces DEF QueryProcessingResults, QueryExecutionStatus
    <3>3. Replaces(conn, conn', q, c)
      BY <1>5, <2>5, <3>2, ReplacesReplaces
    <3>4. /\ c.status = "PROCESSING_RESULTS" /\ c.resultTable = b.resultTable
          /\ c.resultBatches = b.resultBatches /\ c.progressUpdates = b.progressUpdates
      BY <2>4, <3>1 DEF QueryState
    <3>5. ActiveOK(c, e, server[q]) /\ Live(e)
      BY <1>4, <2>4, <2>7, <3>4 DEF ActiveOK, StatusOf, Live
    <3> QED
      BY <1>4, <1>5, <1>7, <3>3, <3>5, AdvancingStep
  <2>8. CASE state = "done"
    <3>1. PICK c : c = [b EXCEPT !.status = "SUCCEEDED"]
      OBVIOUS
    <3>2. Finishes(s, conn', q, c)
      BY <1>3, <2>5, <2>6, <2>8, <3>1, Ending
    <3>3. Finishes(conn, conn', q, c)
      BY <1>5, <2>5, <3>2, ReplacesFinishes
    <3>4. /\ c.status = "SUCCEEDED" /\ c.resultTable = b.resultTable
          /\ c.resultBatches = b.resultBatches /\ c.progressUpdates = b.progressUpdates
      BY <2>4, <3>1 DEF QueryState
    <3>5. FinishedOK(c, e, server[q]) /\ Ended(e)
      BY <1>4, <2>4, <2>8, <3>4 DEF FinishedOK, StatusOf, Ended
    <3> QED
      BY <1>4, <1>5, <1>7, <3>3, <3>5, EndingStep
  <2> QED
    BY <1>3, <2>7, <2>8
<1> QED
  BY <1>6, <1>7

LEMMA AnalyzedKeeps ==
  ASSUME QueriesOK, NEW q \in Queries, Analyzed(q)
  PROVE  QueriesOK' /\ Tame(conn, conn')
<1>1. Live(exec[q]) /\ exec[q].state = "analyzing"
  BY DEF Analyzed, Live
<1>2. PICK e \in Executors :
        /\ e.state = "done" /\ e.issued = exec[q].issued /\ e.batches = exec[q].batches
        /\ StepOf(q, e, server[q])
        /\ ExecutorOK(connector, NEXT_QUERY_ID, resets, e, server[q], q)
  BY <1>1, StateChange DEF Analyzed
<1>3. server[q] \in Servers /\ conn \in ConnectionState
  BY <1>1, LiveQuery
<1>4. PICK s : s = QueryProcessedResults(conn, q)
  OBVIOUS
<1>5. conn' = QuerySucceeded(s, q)
  BY <1>4 DEF Analyzed
<1>6. CASE ~Active(conn, q)
  <2>1. conn' = conn
    BY <1>4, <1>5, <1>6 DEF QueryProcessedResults, SetStatus, QuerySucceeded
  <2> QED
    BY <1>1, <1>2, <1>3, <1>6, <2>1, IgnoredStep
<1>7. CASE Active(conn, q)
  <2>1. PICK a : a = conn.queriesActive[q]
    OBVIOUS
  <2>2. a \in QueryState /\ ActiveOK(a, exec[q], server[q])
    BY <1>1, <1>7, <2>1, LiveQuery
  <2>3. PICK b : b = [a EXCEPT !.status = "PROCESSED_RESULTS"]
    OBVIOUS
  <2>4. /\ b \in QueryState /\ b.resultTable = e.batches /\ b.resultBatches = e.batches
        /\ b.progressUpdates <= server[q].responses
    BY <1>1, <1>2, <2>2, <2>3 DEF QueryState, QueryExecutionStatus, ActiveOK
  <2>5. Replaces(conn, s, q, b)
    BY <1>3, <1>4, <1>7, <2>1, <2>3, SetStatusReplaces DEF QueryProcessedResults, QueryExecutionStatus
  <2>6. s \in ConnectionState /\ Active(s, q) /\ s.queriesActive[q] = b
    BY <1>7, <2>5 DEF Replaces, Active
  <2>7. PICK c : c = [b EXCEPT !.status = "SUCCEEDED"]
    OBVIOUS
  <2>8. Finishes(s, conn', q, c)
    BY <1>5, <2>5, <2>6, <2>7, Ending
  <2>9. Finishes(conn, conn', q, c)
    BY <1>3, <2>5, <2>8, ReplacesFinishes
  <2>10. /\ c.status = "SUCCEEDED" /\ c.resultTable = b.resultTable
         /\ c.resultBatches = b.resultBatches /\ c.progressUpdates = b.progressUpdates
    BY <2>4, <2>7 DEF QueryState
  <2>11. FinishedOK(c, e, server[q]) /\ Ended(e)
    BY <1>2, <2>4, <2>10 DEF FinishedOK, StatusOf, Ended
  <2> QED
    BY <1>2, <1>3, <1>7, <2>9, <2>11, EndingStep
<1> QED
  BY <1>6, <1>7

LEMMA StreamStepKeeps ==
  ASSUME QueriesOK, NEW q \in Queries, StreamStep(q)
  PROVE  QueriesOK' /\ Tame(conn, conn')
<1>1. CASE StartFails(q)
  BY <1>1, FailKeepsServer DEF StartFails, Live
<1>2. CASE StartStream(q)
  BY <1>2, StartStreamKeeps
<1>3. CASE TrinoFetchesRows(q)
  BY <1>3, TrinoFetchesRowsKeeps
<1>4. CASE TrinoFetchesNoRows(q)
  BY <1>4, TrinoFetchesNoRowsKeeps
<1>5. CASE TrinoFetchFails(q) \/ HyperStreamFails(q)
  BY <1>5, TrinoFetchFailsKeeps
<1>6. CASE ReceivesBatch(q)
  BY <1>6, ReceivesBatchKeeps
<1>7. CASE StreamEnds(q)
  BY <1>7, StreamEndsKeeps
<1>8. CASE HyperStreamDrains(q)
  BY <1>8, HyperStreamDrainsKeeps
<1> QED
  BY <1>1, <1>2, <1>3, <1>4, <1>5, <1>6, <1>7, <1>8 DEF StreamStep

LEMMA AnalysisStepKeeps ==
  ASSUME QueriesOK, NEW q \in Queries, AnalysisStep(q)
  PROVE  QueriesOK' /\ Tame(conn, conn')
<1>1. CASE Analyzed(q)
  BY <1>1, AnalyzedKeeps
<1>2. CASE AnalysisFails(q)
  BY <1>2, FailKeepsServer DEF AnalysisFails, Live
<1> QED
  BY <1>1, <1>2 DEF AnalysisStep

-----------------------------------------------------------------------------
(***************************************************************************)
(* A query is executed, by the editor or by an update that changes its own *)
(* part of the connection before and after.                                *)
(***************************************************************************)
LEMMA ExecutionKeeps ==
  ASSUME QueriesOK, CanExecute, NEW analyze \in BOOLEAN, execute(analyze),
         NEW s \in ConnectionState, SameQueries(conn, s),
         NEW t, Executes(s, t, NEXT_QUERY_ID), SameQueries(t, conn'), conn' \in ConnectionState,
         UNCHANGED <<connector, server, resets>>
  PROVE  QueriesOK'
<1>1. PICK n : n = NEXT_QUERY_ID
  OBVIOUS
<1>2. n \in Queries /\ n \in Nat /\ n + 1 \in 1..(MaxQueries + 1) /\ MaxQueries \in Nat
  BY <1>1, QueryAssumption DEF CanExecute, QueriesOK, Queries
<1>3. PICK e : e = Execution(conn, analyze)
  OBVIOUS
<1>4. e = [state |-> "sending", analyze |-> analyze, hasChannel |-> conn.channel,
           issued |-> resets, schema |-> FALSE, batches |-> <<>>]
  BY <1>3 DEF Execution, NoExecution
<1>5. conn.channel \in BOOLEAN /\ resets \in 0..MaxResets
  BY DEF QueriesOK, ConnectionState
<1>6. e \in Executors
  BY <1>4, <1>5, NoTableIsNoResult DEF Executors, ExecutionStates
<1>7. exec' = [exec EXCEPT ![n] = e] /\ NEXT_QUERY_ID' = n + 1
  BY <1>1, <1>3 DEF execute
<1>8. exec' \in [Queries -> Executors]
  BY <1>6, <1>7 DEF QueriesOK
<1>9. /\ OrderOK(conn, n)
      /\ ExecutorOK(connector, n, resets, exec[n], server[n], n)
      /\ MapsOK(conn, resets, exec[n], server[n], n)
  BY <1>1, <1>2 DEF QueriesOK
<1>10. OrderOK(conn', n + 1)
  <2>1. OrderOK(s, n)
    BY <1>9 DEF OrderOK, SameQueries
  <2>2. OrderOK(t, n + 1)
    BY <1>1, <1>2, <2>1, OrderExecutes
  <2> QED
    BY <2>2 DEF OrderOK, SameQueries
<1>11. exec[n].state = "none" /\ server[n] = NoResponse /\ exec[n].batches = Numbers(0)
  BY <1>2, <1>9 DEF ExecutorOK, NoResponse
<1>12. ASSUME NEW p \in Queries
       PROVE  ExecutorOK(connector, n + 1, resets, exec'[p], server[p], p)
  <2>1. CASE p = n
    <3>1. exec'[p] = e /\ <<>> = Numbers(server[p].sent)
      BY <1>2, <1>7, <1>11, <2>1 DEF QueriesOK, Numbers, NoResponse
    <3>2. server[p] = NoResponse /\ ~(n + 1 <= p) /\ resets <= resets
      BY <1>2, <1>5, <1>11, <2>1
    <3> QED
      BY <1>4, <3>1, <3>2 DEF ExecutorOK, NoResponse, TrinoRuns
  <2>2. CASE p # n
    <3>1. exec'[p] = exec[p] /\ (n <= p <=> n + 1 <= p)
      BY <1>2, <1>7, <2>2 DEF QueriesOK, Queries
    <3>2. ExecutorOK(connector, n, resets, exec[p], server[p], p)
      BY <1>1 DEF QueriesOK
    <3> QED
      BY <3>1, <3>2 DEF ExecutorOK
  <2> QED
    BY <2>1, <2>2
<1>13. ASSUME NEW p \in Queries
       PROVE  MapsOK(conn', resets, exec'[p], server[p], p)
  <2>1. CASE p = n
    <3>1. exec'[p] = e /\ server[p] = NoResponse
      BY <1>2, <1>7, <1>11, <2>1 DEF QueriesOK
    <3>2. p \in DOMAIN conn'.queriesActive
          /\ conn'.queriesActive[p] = QueryExecutionState("SENDING")
      BY <1>1, <2>1 DEF SameQueries, Executes, Put
    <3>3. p \notin DOMAIN conn.queriesFinished
      BY <1>9, <1>11, <2>1 DEF MapsOK, Ended
    <3>4. p \notin DOMAIN conn'.queriesFinished
      BY <3>3 DEF SameQueries, Executes
    <3>5. ActiveOK(QueryExecutionState("SENDING"), e, NoResponse)
      BY <1>4 DEF ActiveOK, QueryExecutionState, NoResponse, StatusOf
    <3>6. Live(e) /\ ~Ended(e) /\ e.issued = resets
      BY <1>4 DEF Live, Ended
    <3> QED
      BY <3>1, <3>2, <3>4, <3>5, <3>6 DEF MapsOK
  <2>2. CASE p # n
    <3>1. SameAt(s, t, p)
      BY <1>1, <2>2, OthersKept
    <3>2. SameAt(conn, conn', p)
      BY <3>1 DEF SameAt, SameQueries
    <3>3. exec'[p] = exec[p]
      BY <1>7, <2>2 DEF QueriesOK
    <3>4. MapsOK(conn, resets, exec[p], server[p], p)
      BY DEF QueriesOK
    <3> QED
      BY <3>2, <3>3, <3>4, MapsKept
  <2> QED
    BY <2>1, <2>2
<1> QED
  BY <1>2, <1>7, <1>8, <1>10, <1>12, <1>13 DEF QueriesOK

LEMMA ExecuteEditorQueryKeeps ==
  ASSUME QueriesOK, ExecuteEditorQuery
  PROVE  QueriesOK' /\ Tame(conn, conn')
<1>1. conn \in ConnectionState /\ NEXT_QUERY_ID \in Queries
  BY QueryAssumption DEF QueriesOK, ExecuteEditorQuery, CanExecute, Queries
<1>2. Executes(conn, conn', NEXT_QUERY_ID)
  BY <1>1, ExecutedExecutes DEF ExecuteEditorQuery
<1>3. SameQueries(conn, conn) /\ SameQueries(conn', conn') /\ conn' \in ConnectionState
  BY <1>2 DEF SameQueries, Executes
<1>4. Tame(conn, conn')
  BY <1>1, <1>2, TameSteps
<1> QED
  BY <1>1, <1>2, <1>3, <1>4, ExecutionKeeps DEF ExecuteEditorQuery

LEMMA ResetKeeps ==
  ASSUME QueriesOK, ResetConnection
  PROVE  QueriesOK'
<1>1. conn \in ConnectionState /\ conn' = Reset(conn) /\ resets' = resets + 1
      /\ resets + 1 \in 0..MaxResets /\ resets \in Nat
  BY QueryAssumption DEF QueriesOK, ResetConnection
<1>2. UNCHANGED <<connector, NEXT_QUERY_ID, exec, server>>
  BY DEF ResetConnection
<1>3. /\ conn' \in ConnectionState
      /\ conn'.queriesActive = NoQueries /\ conn'.queriesFinished = NoQueries
      /\ conn'.queriesActiveOrdered = conn.queriesActiveOrdered
      /\ conn'.queriesFinishedOrdered = conn.queriesFinishedOrdered
      /\ conn'.snapshot = conn.snapshot
  BY <1>1, ResetConnectionState
<1>4. DOMAIN NoQueries = {}
  BY DEF NoQueries
<1>5. OrderOK(conn', NEXT_QUERY_ID)
  BY <1>3, <1>4 DEF QueriesOK, OrderOK
<1>6. ASSUME NEW q \in Queries
      PROVE  /\ ExecutorOK(connector, NEXT_QUERY_ID, resets + 1, exec[q], server[q], q)
             /\ MapsOK(conn', resets + 1, exec[q], server[q], q)
  <2>1. ExecutorOK(connector, NEXT_QUERY_ID, resets, exec[q], server[q], q)
        /\ exec[q].issued \in Nat
    BY DEF QueriesOK, Executors
  <2>2. exec[q].issued <= resets + 1 /\ exec[q].issued # resets + 1
    BY <1>1, <2>1 DEF ExecutorOK
  <2> QED
    BY <1>3, <1>4, <2>1, <2>2 DEF ExecutorOK, MapsOK
<1> QED
  BY <1>1, <1>2, <1>3, <1>5, <1>6 DEF QueriesOK

-----------------------------------------------------------------------------
(***************************************************************************)
(* What the reducers of catalog actions do.                                *)
(***************************************************************************)
CatalogUpdates ==
  [tasksRunning : Maps(Updates, UpdateTasks), tasksFinished : Maps(Updates, UpdateTasks),
   lastFullRefresh : {0} \cup Updates]

LEMMA SetUpdates ==
  ASSUME NEW s \in ConnectionState, NEW updates \in CatalogUpdates
  PROVE  /\ [s EXCEPT !.catalogUpdates = updates] \in ConnectionState
         /\ [s EXCEPT !.catalogUpdates = updates].catalogUpdates = updates
         /\ SameQueries(s, [s EXCEPT !.catalogUpdates = updates])
BY DEF ConnectionState, CatalogUpdates, SameQueries

LEMMA UpdateCatalogFacts ==
  ASSUME NEW s \in ConnectionState, NEW u \in Updates
  PROVE  LET t == UpdateCatalog(s, u) IN
         /\ t \in ConnectionState /\ SameQueries(s, t)
         /\ DOMAIN t.catalogUpdates.tasksRunning = DOMAIN s.catalogUpdates.tasksRunning \cup {u}
         /\ t.catalogUpdates.tasksRunning[u].queries = <<>>
         /\ t.catalogUpdates.tasksFinished = s.catalogUpdates.tasksFinished
         /\ t.catalogUpdates.lastFullRefresh = u
<1>1. PICK task : task = [status |-> "STARTED", queries |-> <<>>]
  OBVIOUS
<1>2. task \in UpdateTasks
  BY <1>1 DEF UpdateTasks, CatalogUpdateTaskStatus
<1>3. PICK running : running = Put(s.catalogUpdates.tasksRunning, u, task)
  OBVIOUS
<1>4. /\ running \in Maps(Updates, UpdateTasks)
      /\ DOMAIN running = DOMAIN s.catalogUpdates.tasksRunning \cup {u} /\ running[u] = task
  <2>1. s.catalogUpdates.tasksRunning \in Maps(Updates, UpdateTasks)
    BY DEF ConnectionState
  <2>2. running \in Maps(Updates, UpdateTasks)
    BY <1>2, <1>3, <2>1, MapTypes
  <2> QED
    BY <1>3, <2>2 DEF Put
<1>5. PICK updates : updates = [tasksRunning |-> running,
                                tasksFinished |-> s.catalogUpdates.tasksFinished,
                                lastFullRefresh |-> u]
  OBVIOUS
<1>6. updates \in CatalogUpdates
  BY <1>4, <1>5 DEF CatalogUpdates, ConnectionState
<1>7. UpdateCatalog(s, u) = [s EXCEPT !.catalogUpdates = updates]
  <2>1. [s.catalogUpdates EXCEPT !.tasksRunning = running, !.lastFullRefresh = u] = updates
    <3>1. PICK c : c = s.catalogUpdates
      OBVIOUS
    <3>2. c \in CatalogUpdates
      BY <3>1 DEF ConnectionState, CatalogUpdates
    <3>3. PICK d : d = [c EXCEPT !.tasksRunning = running]
      OBVIOUS
    <3>4. d = [tasksRunning |-> running, tasksFinished |-> c.tasksFinished,
               lastFullRefresh |-> c.lastFullRefresh]
      BY ONLY <3>2, <3>3 DEF CatalogUpdates
    <3>5. [d EXCEPT !.lastFullRefresh = u] = updates
      BY ONLY <1>5, <3>1, <3>4
    <3>6. [c EXCEPT !.tasksRunning = running, !.lastFullRefresh = u]
            = [d EXCEPT !.lastFullRefresh = u]
      BY ONLY <3>3
    <3> QED
      BY <3>1, <3>5, <3>6
  <2>2. UpdateCatalog(s, u) =
          [s EXCEPT !.catalogUpdates =
            [s.catalogUpdates EXCEPT !.tasksRunning = running, !.lastFullRefresh = u]]
    BY <1>1, <1>3 DEF UpdateCatalog, ConnectionState
  <2> QED
    BY <2>1, <2>2
<1>8. PICK t : t = UpdateCatalog(s, u)
  OBVIOUS
<1>9. t \in ConnectionState /\ t.catalogUpdates = updates /\ SameQueries(s, t)
  BY <1>6, <1>7, <1>8, SetUpdates
<1> QED
  BY <1>1, <1>4, <1>5, <1>8, <1>9

LEMMA RegisterQueryFacts ==
  ASSUME NEW s \in ConnectionState, NEW u, NEW q \in Queries,
         Running(s, u) => s.catalogUpdates.tasksRunning[u].queries = <<>>
  PROVE  LET t == CatalogUpdateRegisterQuery(s, u, q) IN
         /\ t \in ConnectionState /\ SameQueries(s, t)
         /\ DOMAIN t.catalogUpdates.tasksRunning = DOMAIN s.catalogUpdates.tasksRunning
         /\ t.catalogUpdates.tasksFinished = s.catalogUpdates.tasksFinished
         /\ t.catalogUpdates.lastFullRefresh = s.catalogUpdates.lastFullRefresh
<1>1. CASE ~Running(s, u)
  BY <1>1 DEF CatalogUpdateRegisterQuery, SameQueries
<1>2. CASE Running(s, u)
  <2>1. PICK tasks : tasks = s.catalogUpdates.tasksRunning
    OBVIOUS
  <2>2. tasks \in Maps(Updates, UpdateTasks) /\ u \in DOMAIN tasks /\ tasks[u] \in UpdateTasks
        /\ tasks[u].queries = <<>>
    BY <1>2, <2>1, MapTypes DEF ConnectionState, Running
  <2>3. PICK task : task = [tasks[u] EXCEPT !.queries = <<q>>]
    OBVIOUS
  <2>4. task \in UpdateTasks
    BY <2>2, <2>3 DEF UpdateTasks
  <2>5. PICK running : running = [tasks EXCEPT ![u] = task]
    OBVIOUS
  <2>6. running \in Maps(Updates, UpdateTasks) /\ DOMAIN running = DOMAIN tasks
    BY <2>2, <2>4, <2>5, MapTypes
  <2>7. PICK updates : updates = [tasksRunning |-> running,
                                  tasksFinished |-> s.catalogUpdates.tasksFinished,
                                  lastFullRefresh |-> s.catalogUpdates.lastFullRefresh]
    OBVIOUS
  <2>8. updates \in CatalogUpdates
    BY <2>6, <2>7 DEF CatalogUpdates, ConnectionState
  <2>9. Append(tasks[u].queries, q) = <<q>>
    BY <2>2
  <2>10. CatalogUpdateRegisterQuery(s, u, q) = [s EXCEPT !.catalogUpdates = updates]
    <3>1. running = [tasks EXCEPT ![u].queries = Append(@, q)]
      BY <2>2, <2>3, <2>5, <2>9
    <3>2. [s.catalogUpdates EXCEPT !.tasksRunning = running] = updates
      BY <2>7 DEF ConnectionState
    <3>3. CatalogUpdateRegisterQuery(s, u, q)
            = [s EXCEPT !.catalogUpdates = [s.catalogUpdates EXCEPT !.tasksRunning = running]]
      BY <1>2, <2>1, <3>1 DEF CatalogUpdateRegisterQuery, ConnectionState
    <3> QED
      BY <3>2, <3>3
  <2>11. PICK t : t = CatalogUpdateRegisterQuery(s, u, q)
    OBVIOUS
  <2>12. t \in ConnectionState /\ t.catalogUpdates = updates /\ SameQueries(s, t)
    BY <2>8, <2>10, <2>11, SetUpdates
  <2> QED
    BY <2>1, <2>6, <2>7, <2>11, <2>12
<1> QED
  BY <1>1, <1>2

LEMMA FinishUpdateFacts ==
  ASSUME NEW s \in ConnectionState, NEW u \in Updates, NEW status \in {"SUCCEEDED", "FAILED"}
  PROVE  LET t == FinishUpdate(s, u, status) IN
         /\ t \in ConnectionState /\ SameQueries(s, t)
         /\ DOMAIN t.catalogUpdates.tasksRunning = DOMAIN s.catalogUpdates.tasksRunning \ {u}
         /\ IF Running(s, u)
            THEN u \in DOMAIN t.catalogUpdates.tasksFinished /\ t.catalogUpdates.lastFullRefresh = u
            ELSE t.catalogUpdates = s.catalogUpdates
<1>1. CASE ~Running(s, u)
  BY <1>1 DEF FinishUpdate, SameQueries, Running
<1>2. CASE Running(s, u)
  <2>1. PICK tasks, ended : tasks = s.catalogUpdates.tasksRunning /\ ended = s.catalogUpdates.tasksFinished
    OBVIOUS
  <2>2. /\ tasks \in Maps(Updates, UpdateTasks) /\ ended \in Maps(Updates, UpdateTasks)
        /\ u \in DOMAIN tasks /\ tasks[u] \in UpdateTasks
    BY <1>2, <2>1, MapTypes DEF ConnectionState, Running
  <2>3. PICK task : task = [tasks[u] EXCEPT !.status = status]
    OBVIOUS
  <2>4. task \in UpdateTasks
    BY <2>2, <2>3 DEF UpdateTasks, CatalogUpdateTaskStatus
  <2>5. PICK running, finished : running = Delete(tasks, u) /\ finished = Put(ended, u, task)
    OBVIOUS
  <2>6. /\ running \in Maps(Updates, UpdateTasks) /\ finished \in Maps(Updates, UpdateTasks)
        /\ DOMAIN running = DOMAIN tasks \ {u} /\ u \in DOMAIN finished
    <3>1. running \in Maps(Updates, UpdateTasks) /\ finished \in Maps(Updates, UpdateTasks)
      BY <2>2, <2>4, <2>5, MapTypes
    <3> QED
      BY <2>5, <3>1 DEF Put, Delete, Restrict
  <2>7. PICK updates : updates = [tasksRunning |-> running, tasksFinished |-> finished,
                                  lastFullRefresh |-> u]
    OBVIOUS
  <2>8. updates \in CatalogUpdates
    BY <2>6, <2>7 DEF CatalogUpdates
  <2>9. FinishUpdate(s, u, status) = [s EXCEPT !.catalogUpdates = updates]
    BY <1>2, <2>1, <2>3, <2>5, <2>7 DEF FinishUpdate, ConnectionState
  <2>10. PICK t : t = FinishUpdate(s, u, status)
    OBVIOUS
  <2>11. t \in ConnectionState /\ t.catalogUpdates = updates /\ SameQueries(s, t)
    BY <2>8, <2>9, <2>10, SetUpdates
  <2> QED
    BY <1>2, <2>1, <2>6, <2>7, <2>10, <2>11
<1> QED
  BY <1>1, <1>2

-----------------------------------------------------------------------------
(***************************************************************************)
(* The steps of the updates.                                               *)
(***************************************************************************)
AwaitedUpdates ==
  [state : {"none", "querying", "requesting", "succeeded", "failed"},
   query : {0} \cup Queries, issued : 0..MaxResets]

\* An update starts when none of the connection runs.
LEMMA UpdateStarts ==
  ASSUME UpdatesOK, resets \in 0..MaxResets, NEW u \in Updates, u = NEXT_CATALOG_UPDATE_ID,
         DOMAIN conn.catalogUpdates.tasksRunning = {},
         NEW state \in {"querying", "requesting"}, NEW query \in {0} \cup Queries,
         StartUpdate(u, state, query),
         DOMAIN conn'.catalogUpdates.tasksRunning = {u},
         conn'.catalogUpdates.lastFullRefresh = u,
         resets' = resets, queue' = "empty", queueChanged' = FALSE
  PROVE  UpdatesOK'
<1>1. PICK e : e = [state |-> state, query |-> query, issued |-> resets]
  OBVIOUS
<1>2. e \in AwaitedUpdates /\ e.state = state /\ e.issued = resets
  BY <1>1 DEF AwaitedUpdates
<1>3. update \in [Updates -> AwaitedUpdates] /\ update' = [update EXCEPT ![u] = e]
  BY <1>1 DEF UpdatesOK, StartUpdate, AwaitedUpdates
<1>4. update' \in [Updates -> AwaitedUpdates] /\ update'[u] = e
      /\ \A w \in Updates \ {u} : update'[w] = update[w]
  BY <1>2, <1>3
<1>5. u \in Nat /\ NEXT_CATALOG_UPDATE_ID' = u + 1 /\ u + 1 \in Nat \ {0}
  BY DEF Updates, StartUpdate
<1>6. ASSUME NEW w \in Updates
      PROVE  /\ update'[w].issued <= resets
             /\ update'[w].state = "none" <=> u + 1 <= w
             /\ w \in {u} <=> Awaits(update'[w]) /\ update'[w].issued = resets
  <2>1. CASE w = u
    BY <1>2, <1>4, <1>5, <2>1 DEF Awaits
  <2>2. CASE w # u
    <3>1. /\ update[w].issued <= resets
          /\ update[w].state = "none" <=> u <= w
          /\ ~(Awaits(update[w]) /\ update[w].issued = resets)
      BY DEF UpdatesOK, TasksOK
    <3>2. u <= w <=> u + 1 <= w
      BY <1>5, <2>2 DEF Updates
    <3> QED
      BY <1>4, <2>2, <3>1, <3>2
  <2> QED
    BY <2>1, <2>2
<1>7. TasksOK(conn', u + 1, resets, update')
  BY <1>6 DEF TasksOK
<1> QED
  BY <1>4, <1>5, <1>7 DEF UpdatesOK, AwaitedUpdates

\* An update ends.
LEMMA UpdateEnds ==
  ASSUME UpdatesOK, NEW u \in Updates, Awaits(update[u]),
         NEW state \in {"succeeded", "failed"},
         update' = [update EXCEPT ![u].state = state],
         NEW s, s.catalogUpdates = conn.catalogUpdates,
         DOMAIN conn'.catalogUpdates.tasksRunning = DOMAIN s.catalogUpdates.tasksRunning \ {u},
         IF Running(s, u)
         THEN u \in DOMAIN conn'.catalogUpdates.tasksFinished /\ conn'.catalogUpdates.lastFullRefresh = u
         ELSE conn'.catalogUpdates = s.catalogUpdates,
         UNCHANGED <<resets, NEXT_CATALOG_UPDATE_ID, queue, queueChanged>>
  PROVE  UpdatesOK'
<1>1. PICK e : e = [update[u] EXCEPT !.state = state]
  OBVIOUS
<1>2. update \in [Updates -> AwaitedUpdates]
  BY DEF UpdatesOK, AwaitedUpdates
<1>3. e \in AwaitedUpdates /\ e.state = state /\ e.issued = update[u].issued
  BY <1>1, <1>2 DEF AwaitedUpdates
<1>4. update' = [update EXCEPT ![u] = e]
  BY <1>1, <1>2
<1>5. update' \in [Updates -> AwaitedUpdates] /\ update'[u] = e
      /\ \A w \in Updates \ {u} : update'[w] = update[w]
  BY <1>2, <1>3, <1>4
<1>6. ASSUME NEW w \in Updates
      PROVE  /\ update'[w].issued <= resets
             /\ update'[w].state = "none" <=> NEXT_CATALOG_UPDATE_ID <= w
             /\ w \in DOMAIN conn'.catalogUpdates.tasksRunning
                  <=> Awaits(update'[w]) /\ update'[w].issued = resets
  BY <1>3, <1>5 DEF UpdatesOK, TasksOK, Awaits
<1>7. \A w, x \in DOMAIN conn'.catalogUpdates.tasksRunning : w = x
  BY DEF UpdatesOK, TasksOK
<1>8. conn'.catalogUpdates.lastFullRefresh # 0 =>
        conn'.catalogUpdates.lastFullRefresh \in
          DOMAIN conn'.catalogUpdates.tasksRunning \cup DOMAIN conn'.catalogUpdates.tasksFinished
  BY DEF UpdatesOK, TasksOK
<1>9. TasksOK(conn', NEXT_CATALOG_UPDATE_ID, resets, update')
  BY <1>6, <1>7, <1>8 DEF TasksOK
<1> QED
  BY <1>5, <1>9 DEF UpdatesOK, AwaitedUpdates

LEMMA UpdatesKept ==
  ASSUME UpdatesOK, conn'.catalogUpdates = conn.catalogUpdates, UNCHANGED <<loaderVars, resets>>
  PROVE  UpdatesOK'
BY DEF UpdatesOK, TasksOK, loaderVars

LEMMA UpdateStepKeeps ==
  ASSUME LoaderInv, NEW u \in Updates, UpdateStep(u)
  PROVE  LoaderInv' /\ SameQueries(conn, conn')
<1>1. conn \in ConnectionState
  BY DEF LoaderInv, QueriesOK
<1>2. Awaits(update[u])
  BY DEF UpdateStep, QueryUpdateSucceeds, QueryUpdateFails, ApiUpdateSucceeds, ApiUpdateFails, Awaits
<1>3. UNCHANGED <<connector, NEXT_QUERY_ID, exec, server, resets,
                  NEXT_CATALOG_UPDATE_ID, queue, queueChanged>>
  BY DEF UpdateStep, QueryUpdateSucceeds, QueryUpdateFails, ApiUpdateSucceeds, ApiUpdateFails,
         Fails, Succeeds
<1>4. ASSUME NEW s, s = conn \/ s = [conn EXCEPT !.catalog = u],
             NEW status \in {"SUCCEEDED", "FAILED"}, conn' = FinishUpdate(s, u, status),
             NEW state \in {"succeeded", "failed"}, update' = [update EXCEPT ![u].state = state]
      PROVE  LoaderInv' /\ SameQueries(conn, conn')
  <2>1. s \in ConnectionState /\ s.catalogUpdates = conn.catalogUpdates /\ SameQueries(conn, s)
    BY <1>1, <1>4 DEF ConnectionState, SameQueries
  <2>2. /\ conn' \in ConnectionState /\ SameQueries(s, conn')
        /\ DOMAIN conn'.catalogUpdates.tasksRunning = DOMAIN s.catalogUpdates.tasksRunning \ {u}
        /\ IF Running(s, u)
           THEN u \in DOMAIN conn'.catalogUpdates.tasksFinished /\ conn'.catalogUpdates.lastFullRefresh = u
           ELSE conn'.catalogUpdates = s.catalogUpdates
    BY <1>4, <2>1, FinishUpdateFacts
  <2>3. SameQueries(conn, conn')
    BY <2>1, <2>2 DEF SameQueries
  <2>4. QueriesOK'
    BY <1>3, <2>2, <2>3, SameQueriesKeep DEF LoaderInv
  <2>5. UpdatesOK'
    BY <1>2, <1>3, <1>4, <2>1, <2>2, UpdateEnds DEF LoaderInv
  <2> QED
    BY <2>3, <2>4, <2>5 DEF LoaderInv
<1>5. CASE Fails(u)
  BY <1>4, <1>5 DEF Fails, CatalogUpdateFailed
<1>6. CASE Succeeds(u, u)
  BY <1>4, <1>6 DEF Succeeds, CatalogUpdateSucceeded
<1> QED
  BY <1>5, <1>6
  DEF UpdateStep, QueryUpdateSucceeds, QueryUpdateFails, ApiUpdateSucceeds, ApiUpdateFails

-----------------------------------------------------------------------------
(***************************************************************************)
(* The queue.                                                              *)
(***************************************************************************)
LEMMA QueryUpdateKeeps ==
  ASSUME LoaderInv, NEW u \in Updates, u = NEXT_CATALOG_UPDATE_ID,
         DOMAIN conn.catalogUpdates.tasksRunning = {},
         QueryUpdate(u), queue' = "empty", queueChanged' = FALSE
  PROVE  LoaderInv' /\ (computeViewModel(conn') # computeViewModel(conn) => updateViewModel(conn, conn'))
<1>1. PICK q : q = NEXT_QUERY_ID
  OBVIOUS
<1>2. conn \in ConnectionState /\ q \in Queries
  BY <1>1, QueryAssumption DEF LoaderInv, QueriesOK, QueryUpdate, CanExecute, Queries
<1>3. PICK s : s = UpdateCatalog(conn, u)
  OBVIOUS
<1>4. /\ s \in ConnectionState /\ SameQueries(conn, s)
      /\ DOMAIN s.catalogUpdates.tasksRunning = {u}
      /\ s.catalogUpdates.tasksRunning[u].queries = <<>>
      /\ s.catalogUpdates.lastFullRefresh = u
  BY <1>2, <1>3, UpdateCatalogFacts
<1>5. PICK t : t = Executed(s, q)
  OBVIOUS
<1>6. Executes(s, t, q)
  BY <1>2, <1>4, <1>5, ExecutedExecutes
<1>7. t \in ConnectionState /\ t.catalogUpdates = s.catalogUpdates
  BY <1>6 DEF Executes, SameConnection
<1>8. /\ conn' \in ConnectionState /\ SameQueries(t, conn')
      /\ DOMAIN conn'.catalogUpdates.tasksRunning = {u}
      /\ conn'.catalogUpdates.lastFullRefresh = u
  <2>1. CASE conn' = t
    BY <1>4, <1>7, <2>1 DEF SameQueries
  <2>2. CASE conn' = CatalogUpdateRegisterQuery(t, u, q)
    BY <1>2, <1>4, <1>7, <2>2, RegisterQueryFacts
  <2> QED
    BY <1>1, <1>3, <1>5, <2>1, <2>2 DEF QueryUpdate
<1>9. execute(FALSE) /\ CanExecute /\ StartUpdate(u, "querying", q)
      /\ UNCHANGED <<connector, server, resets>>
  BY <1>1 DEF QueryUpdate
<1>10. QueriesOK'
  BY <1>1, <1>4, <1>6, <1>8, <1>9, ExecutionKeeps DEF LoaderInv
<1>11. UpdatesOK'
  <2>1. resets \in 0..MaxResets /\ resets' = resets
    BY <1>9 DEF LoaderInv, QueriesOK
  <2> QED
    BY <1>2, <1>8, <1>9, <2>1, UpdateStarts DEF LoaderInv
<1>12. updateViewModel(conn, conn')
  <2>1. conn.snapshot + 1 # conn.snapshot
    BY <1>2 DEF ConnectionState
  <2>2. conn'.snapshot = conn.snapshot + 1
    BY <1>4, <1>6, <1>8 DEF SameQueries, Executes
  <2> QED
    BY <2>1, <2>2 DEF updateViewModel
<1> QED
  BY <1>10, <1>11, <1>12 DEF LoaderInv

LEMMA ApiUpdateKeeps ==
  ASSUME LoaderInv, NEW u \in Updates, u = NEXT_CATALOG_UPDATE_ID,
         DOMAIN conn.catalogUpdates.tasksRunning = {},
         ApiUpdate(u), queue' = "empty", queueChanged' = FALSE
  PROVE  LoaderInv' /\ (computeViewModel(conn') # computeViewModel(conn) => updateViewModel(conn, conn'))
<1>1. conn \in ConnectionState /\ resets \in 0..MaxResets
  BY DEF LoaderInv, QueriesOK
<1>2. UNCHANGED <<connector, NEXT_QUERY_ID, exec, server, resets>>
  BY DEF ApiUpdate
<1>3. /\ conn' \in ConnectionState /\ SameQueries(conn, conn')
      /\ DOMAIN conn'.catalogUpdates.tasksRunning = {u}
      /\ conn'.catalogUpdates.lastFullRefresh = u
  BY <1>1, UpdateCatalogFacts DEF ApiUpdate
<1>4. QueriesOK'
  BY <1>2, <1>3, SameQueriesKeep DEF LoaderInv
<1>5. UpdatesOK'
  BY <1>1, <1>2, <1>3, UpdateStarts DEF LoaderInv, ApiUpdate
<1>6. computeViewModel(conn') = computeViewModel(conn)
  BY <1>3 DEF SameQueries, computeViewModel
<1> QED
  BY <1>4, <1>5, <1>6 DEF LoaderInv

LEMMA QueueEffectKeeps ==
  ASSUME LoaderInv, QueueEffect
  PROVE  LoaderInv' /\ (computeViewModel(conn') # computeViewModel(conn) => updateViewModel(conn, conn'))
<1>1. CASE UNCHANGED <<queryVars, NEXT_CATALOG_UPDATE_ID, update, queue>>
  <2>1. conn' = conn /\ UNCHANGED <<connector, NEXT_QUERY_ID, exec, server, resets>>
    BY <1>1 DEF queryVars
  <2>2. QueriesOK'
    BY <2>1, SameQueriesKeep DEF LoaderInv, QueriesOK, SameQueries
  <2>3. UpdatesOK'
    BY <1>1, <2>1 DEF LoaderInv, UpdatesOK, TasksOK, QueueEffect
  <2> QED
    BY <2>1, <2>2, <2>3 DEF LoaderInv
<1>2. CASE /\ queue # "empty" /\ ~SkipsRequest
           /\ NEXT_CATALOG_UPDATE_ID \in Updates
           /\ QueryUpdate(NEXT_CATALOG_UPDATE_ID) \/ ApiUpdate(NEXT_CATALOG_UPDATE_ID)
           /\ queue' = "empty"
  <2>1. PICK u \in Updates : u = NEXT_CATALOG_UPDATE_ID
    BY <1>2
  <2>2. DOMAIN conn.catalogUpdates.tasksRunning = {} /\ queueChanged' = FALSE
    BY <1>2 DEF SkipsRequest, QueueEffect
  <2> QED
    BY <1>2, <2>1, <2>2, QueryUpdateKeeps, ApiUpdateKeeps
<1> QED
  BY <1>1, <1>2 DEF QueueEffect

-----------------------------------------------------------------------------
(***************************************************************************)
(* The theorems.                                                           *)
(***************************************************************************)
LEMMA LoaderInit ==
  ASSUME Init
  PROVE  LoaderInv
<1>1. PICK c \in Connectors : Initialize(c)
  BY DEF Init, InitQueries
<1>2. PICK online \in BOOLEAN : conn = createConnectionState(online)
  BY <1>1 DEF Initialize
<1>3. /\ connector \in Connectors /\ NEXT_QUERY_ID = 1 /\ resets = 0
      /\ exec = [q \in Queries |-> NoExecution] /\ server = [q \in Queries |-> NoResponse]
      /\ NEXT_CATALOG_UPDATE_ID = 1 /\ update = [u \in Updates |-> NoUpdate]
      /\ queue = "empty" /\ queueChanged = FALSE
  BY <1>1 DEF Initialize, Init
<1>4. MaxQueries \in Nat /\ MaxResets \in Nat /\ MaxFetches \in Nat /\ MaxBatches \in Nat
  BY QueryAssumption
<1>5. /\ conn.queriesActive = NoQueries /\ conn.queriesFinished = NoQueries
      /\ conn.queriesActiveOrdered = <<>> /\ conn.queriesFinishedOrdered = <<>>
      /\ conn.snapshot = 1 /\ conn.catalogUpdates = NoUpdates
  BY <1>2 DEF createConnectionState
<1>6. DOMAIN NoQueries = {}
  BY DEF NoQueries
<1>7. conn \in ConnectionState
  <2>1. PICK none, m, updates : none = NoQueries /\ m = createConnectionMetrics /\ updates = NoUpdates
    OBVIOUS
  <2>2. /\ none \in Maps(Queries, QueryState)
        /\ m \in [successfulQueries : Nat, failedQueries : Nat]
        /\ updates \in CatalogUpdates
    BY <2>1, NoQueriesMap DEF createConnectionMetrics, NoUpdates, CatalogUpdates
  <2>3. conn = [connectionHealth |-> IF online THEN "ONLINE" ELSE "NOT_STARTED",
                channel |-> online, metrics |-> m, catalog |-> 0, catalogUpdates |-> updates,
                snapshot |-> 1, queriesActive |-> none, queriesActiveOrdered |-> <<>>,
                queriesFinished |-> none, queriesFinishedOrdered |-> <<>>]
    BY <1>2, <2>1 DEF createConnectionState
  <2>4. <<>> \in Seq(Queries)
    OBVIOUS
  <2> QED
    BY ONLY <2>2, <2>3, <2>4, online \in BOOLEAN DEF ConnectionState, CatalogUpdates
<1>8. OrderOK(conn, 1)
  BY <1>5, <1>6 DEF OrderOK, Distinct, ToSet
<1>9. NoExecution \in Executors /\ NoResponse \in Servers
  BY <1>4, NoTableIsNoResult DEF NoExecution, NoResponse, Executors, Servers, ExecutionStates
<1>10. ASSUME NEW q \in Queries
       PROVE  /\ ExecutorOK(connector, 1, 0, NoExecution, NoResponse, q)
              /\ MapsOK(conn, 0, NoExecution, NoResponse, q)
  <2>1. 1 <= q /\ 0 <= 0
    BY DEF Queries
  <2>2. <<>> = Numbers(0)
    BY DEF Numbers
  <2>3. ExecutorOK(connector, 1, 0, NoExecution, NoResponse, q)
    BY <2>1, <2>2 DEF ExecutorOK, NoExecution, NoResponse, TrinoRuns
  <2>4. MapsOK(conn, 0, NoExecution, NoResponse, q)
    BY <1>5, <1>6 DEF MapsOK, NoExecution, Live, Ended
  <2> QED
    BY <2>3, <2>4
<1>11. QueriesOK
  BY <1>3, <1>4, <1>7, <1>8, <1>9, <1>10 DEF QueriesOK
<1>12. TasksOK(conn, 1, 0, update)
  <2>1. /\ conn.catalogUpdates.tasksRunning = NoQueries
        /\ conn.catalogUpdates.lastFullRefresh = 0
    BY <1>5 DEF NoUpdates
  <2>2. \A u \in Updates : update[u] = NoUpdate /\ 1 <= u
    BY <1>3 DEF Updates
  <2> QED
    BY <1>6, <2>1, <2>2 DEF TasksOK, NoUpdate, Awaits
<1>13. UpdatesOK
  <2>1. NoUpdate \in AwaitedUpdates
    BY <1>4 DEF NoUpdate, AwaitedUpdates
  <2>2. update \in [Updates -> AwaitedUpdates]
    BY <1>3, <2>1
  <2> QED
    <3>1. TasksOK(conn, NEXT_CATALOG_UPDATE_ID, resets, update)
      BY ONLY <1>3, <1>12
    <3>2. NEXT_CATALOG_UPDATE_ID \in Nat \ {0}
      BY ONLY <1>3
    <3>3. queueChanged \in BOOLEAN
      BY ONLY <1>3, Zenon
    <3>4. queue \in {"empty", "auto", "forced"}
      BY ONLY <1>3
    <3> QED
      BY ONLY <2>2, <3>1, <3>2, <3>3, <3>4 DEF UpdatesOK, AwaitedUpdates
<1> QED
  BY <1>11, <1>13 DEF LoaderInv

LEMMA LoaderNext ==
  ASSUME LoaderInv, [Next]_vars
  PROVE  LoaderInv' /\ (computeViewModel(conn') # computeViewModel(conn) => updateViewModel(conn, conn'))
<1>1. CASE UNCHANGED vars
  <2>1. UNCHANGED <<connector, conn, NEXT_QUERY_ID, exec, server, resets>> /\ UNCHANGED loaderVars
    BY <1>1 DEF vars, queryVars
  <2>2. QueriesOK'
    BY <2>1, SameQueriesKeep DEF LoaderInv, QueriesOK, SameQueries
  <2>3. UpdatesOK'
    BY <2>1, UpdatesKept DEF LoaderInv
  <2> QED
    BY <2>1, <2>2, <2>3 DEF LoaderInv
<1>2. ASSUME NEW q \in Queries, StreamStep(q) \/ AnalysisStep(q), UNCHANGED loaderVars
      PROVE  LoaderInv' /\ (computeViewModel(conn') # computeViewModel(conn) => updateViewModel(conn, conn'))
  <2>1. QueriesOK' /\ Tame(conn, conn')
    BY <1>2, StreamStepKeeps, AnalysisStepKeeps DEF LoaderInv
  <2>2. resets' = resets
    BY <1>2 DEF StreamStep, StartStream, StartFails, TrinoFetchesRows, TrinoFetchesNoRows,
                TrinoFetchFails, ReceivesBatch, HyperStreamFails, HyperStreamDrains,
                StreamEnds, AnalysisStep, Analyzed, AnalysisFails, Fail
  <2>3. UpdatesOK'
    BY <1>2, <2>1, <2>2, UpdatesKept DEF LoaderInv, Tame
  <2> QED
    BY <2>1, <2>3 DEF LoaderInv, Tame
<1>3. CASE ExecuteEditorQuery /\ UNCHANGED loaderVars
  <2>1. QueriesOK' /\ Tame(conn, conn')
    BY <1>3, ExecuteEditorQueryKeeps DEF LoaderInv
  <2>2. UpdatesOK'
    BY <1>3, <2>1, UpdatesKept DEF LoaderInv, Tame, ExecuteEditorQuery
  <2> QED
    BY <2>1, <2>2 DEF LoaderInv, Tame
<1>4. CASE Connect /\ UNCHANGED loaderVars
  <2>1. conn \in ConnectionState /\ UNCHANGED <<connector, NEXT_QUERY_ID, exec, server, resets>>
    BY <1>4 DEF LoaderInv, QueriesOK, Connect
  <2>2. /\ conn' \in ConnectionState /\ SameQueries(conn, conn')
        /\ conn'.catalogUpdates = conn.catalogUpdates
    BY <1>4, <2>1 DEF Connect, ConnectionState, SameQueries
  <2>3. QueriesOK'
    BY <2>1, <2>2, SameQueriesKeep DEF LoaderInv
  <2>4. UpdatesOK'
    BY <1>4, <2>1, <2>2, UpdatesKept DEF LoaderInv
  <2>5. computeViewModel(conn') = computeViewModel(conn)
    BY <2>2 DEF SameQueries, computeViewModel
  <2> QED
    BY <2>3, <2>4, <2>5 DEF LoaderInv
<1>5. CASE ResetConnection /\ UNCHANGED loaderVars
  <2>1. /\ conn \in ConnectionState /\ conn' = Reset(conn) /\ resets' = resets + 1
        /\ resets + 1 \in 0..MaxResets /\ resets \in Nat
    BY <1>5, QueryAssumption DEF LoaderInv, QueriesOK, ResetConnection
  <2>2. /\ conn'.catalogUpdates = NoUpdates
        /\ conn'.queriesActiveOrdered = conn.queriesActiveOrdered
        /\ conn'.queriesFinishedOrdered = conn.queriesFinishedOrdered
    BY <2>1, ResetConnectionState
  <2>3. QueriesOK'
    BY <1>5, ResetKeeps DEF LoaderInv
  <2>4. ASSUME NEW u \in Updates
        PROVE  update[u].issued <= resets + 1 /\ update[u].issued # resets + 1
    BY <2>1 DEF LoaderInv, UpdatesOK, TasksOK
  <2>5. TasksOK(conn', NEXT_CATALOG_UPDATE_ID, resets + 1, update)
    <3>1. DOMAIN conn'.catalogUpdates.tasksRunning = {} /\ conn'.catalogUpdates.lastFullRefresh = 0
      BY <2>2 DEF NoUpdates, NoQueries
    <3> QED
      BY <2>4, <3>1 DEF TasksOK, LoaderInv, UpdatesOK
  <2>6. UpdatesOK'
    BY <1>5, <2>1, <2>5 DEF LoaderInv, UpdatesOK, loaderVars
  <2>7. computeViewModel(conn') = computeViewModel(conn)
    BY <2>2 DEF computeViewModel
  <2> QED
    BY <2>3, <2>6, <2>7 DEF LoaderInv
<1>6. CASE RefreshCatalog \/ refreshCatalogOnce
  <2>1. /\ conn' = conn /\ UNCHANGED <<connector, NEXT_QUERY_ID, exec, server, resets>>
        /\ queue' \in {"forced", "auto"} /\ queueChanged' = TRUE
        /\ UNCHANGED <<NEXT_CATALOG_UPDATE_ID, update>>
    BY <1>6 DEF RefreshCatalog, refreshCatalogOnce, Enqueue, queryVars
  <2>2. QueriesOK'
    BY <2>1, SameQueriesKeep DEF LoaderInv, QueriesOK, SameQueries
  <2>3. UpdatesOK'
    BY <2>1 DEF LoaderInv, UpdatesOK, TasksOK
  <2> QED
    BY <2>1, <2>2, <2>3 DEF LoaderInv
<1>7. CASE QueueEffect
  BY <1>7, QueueEffectKeeps
<1>8. ASSUME NEW u \in Updates, UpdateStep(u)
      PROVE  LoaderInv' /\ (computeViewModel(conn') # computeViewModel(conn) => updateViewModel(conn, conn'))
  <2>1. LoaderInv' /\ SameQueries(conn, conn')
    BY <1>8, UpdateStepKeeps
  <2>2. computeViewModel(conn') = computeViewModel(conn)
    BY <2>1 DEF SameQueries, computeViewModel
  <2> QED
    BY <2>1, <2>2
<1> QED
  BY <1>1, <1>2, <1>3, <1>4, <1>5, <1>6, <1>7, <1>8 DEF Next, QueryStep

LEMMA LoaderInvariant == Spec => []LoaderInv
<1>1. Init => LoaderInv
  BY LoaderInit
<1>2. LoaderInv /\ [Next]_vars => LoaderInv'
  BY LoaderNext
<1> QED
  BY <1>1, <1>2, PTL DEF Spec

\* The types of the values, and the bounds of the counters: no query reports
\* more progress than the server sent responses, and the snapshot counts the
\* executions and ends of queries.
THEOREM LoaderTypes == Spec => []TypeOK
<1>1. ASSUME LoaderInv PROVE TypeOK
  <2>1. MaxQueries \in Nat /\ MaxFetches \in Nat
    BY QueryAssumption
  <2>2. conn \in ConnectionState /\ OrderOK(conn, NEXT_QUERY_ID) /\ NEXT_QUERY_ID \in 1..(MaxQueries + 1)
    BY <1>1 DEF LoaderInv, QueriesOK
  <2>3. conn.snapshot \in 1..(2 * MaxQueries + 1)
    <3>1. PICK x, y, n : /\ x = Len(conn.queriesActiveOrdered) /\ y = Len(conn.queriesFinishedOrdered)
                         /\ n = NEXT_QUERY_ID
      OBVIOUS
    <3>2. x \in Nat /\ y \in Nat
      BY <2>2, <3>1, LenProperties DEF ConnectionState
    <3>3. x + y = n - 1 /\ conn.snapshot = 1 + x + 2 * y /\ n \in 1..(MaxQueries + 1)
      BY <2>2, <3>1 DEF OrderOK
    <3> QED
      BY ONLY <2>1, <3>2, <3>3
  <2>4. ASSUME NEW q \in DOMAIN conn.queriesActive
        PROVE  q \in Queries /\ conn.queriesActive[q] \in QueryStates
    <3>1. q \in Queries /\ conn.queriesActive[q] \in QueryState
      BY <2>2, ActiveQuery
    <3>2. server[q] \in Servers /\ conn.queriesActive[q].progressUpdates <= server[q].responses
      BY <1>1, <3>1 DEF LoaderInv, QueriesOK, MapsOK, ActiveOK
    <3> QED
      BY <2>1, <3>1, <3>2 DEF QueryState, QueryStates, Servers
  <2>5. ASSUME NEW q \in DOMAIN conn.queriesFinished
        PROVE  q \in Queries /\ conn.queriesFinished[q] \in QueryStates
    <3>1. q \in Queries /\ conn.queriesFinished[q] \in QueryState
      BY <2>2, ActiveQuery
    <3>2. server[q] \in Servers /\ conn.queriesFinished[q].progressUpdates <= server[q].responses
      BY <1>1, <3>1 DEF LoaderInv, QueriesOK, MapsOK, FinishedOK
    <3> QED
      BY <2>1, <3>1, <3>2 DEF QueryState, QueryStates, Servers
  <2>6. \A map \in {conn.catalogUpdates.tasksRunning, conn.catalogUpdates.tasksFinished} :
          /\ DOMAIN map \subseteq Updates
          /\ \A u \in DOMAIN map : map[u] \in UpdateTasks
    BY <2>2, MapTypes DEF ConnectionState
  <2> QED
    BY <1>1, <2>2, <2>3, <2>4, <2>5, <2>6
    DEF TypeOK, LoaderInv, QueriesOK, UpdatesOK, ConnectionState, Executors, Servers
<1> QED
  BY <1>1, LoaderInvariant, PTL

\* The list shows a query of the connection exactly once, as active or as
\* finished: the ordered ids, from which RESET removes nothing, never hold an
\* id twice.
THEOREM ListedOnce == Spec => []QueriesAreListed
<1>1. ASSUME LoaderInv PROVE QueriesAreListed
  <2>1. conn \in ConnectionState /\ OrderOK(conn, NEXT_QUERY_ID)
    BY <1>1 DEF LoaderInv, QueriesOK
  <2>2. conn.queriesActiveOrdered \in Seq(Queries) /\ conn.queriesFinishedOrdered \in Seq(Queries)
    BY <2>1 DEF ConnectionState
  <2>3. Listed(DOMAIN conn.queriesActive, conn.queriesActiveOrdered)
    BY <2>1, <2>2, DistinctCount DEF Listed, OrderOK
  <2>4. Listed(DOMAIN conn.queriesFinished, conn.queriesFinishedOrdered)
    BY <2>1, <2>2, DistinctCount DEF Listed, OrderOK
  <2>5. /\ DOMAIN conn.queriesActive \cap DOMAIN conn.queriesFinished = {}
        /\ ToSet(conn.queriesActiveOrdered) \cap ToSet(conn.queriesFinishedOrdered) = {}
    BY <2>1 DEF OrderOK
  <2> QED
    BY <2>3, <2>4, <2>5 DEF QueriesAreListed
<1> QED
  BY <1>1, LoaderInvariant, PTL

\* The state of a query in the connection is that of its executor, and the
\* executors of the time before a RESET bring no query back.
THEOREM ExecutorsMatch == Spec => []ExecutorsMatchStates
<1>1. ASSUME LoaderInv PROVE ExecutorsMatchStates
  <2>1. ASSUME NEW q \in Queries
        PROVE  IF exec[q].state # "none" /\ exec[q].issued = resets
               THEN LET map == IF exec[q].state \in {"done", "failed"}
                               THEN conn.queriesFinished ELSE conn.queriesActive
                    IN q \in DOMAIN map /\ map[q].status \in StatusOf(exec[q].state)
               ELSE q \notin DOMAIN conn.queriesActive \cup DOMAIN conn.queriesFinished
    <3>1. MapsOK(conn, resets, exec[q], server[q], q) /\ exec[q].state \in ExecutionStates
      BY <1>1 DEF LoaderInv, QueriesOK, Executors
    <3> QED
      BY <3>1 DEF MapsOK, ActiveOK, FinishedOK, Live, Ended, ExecutionStates
  <2> QED
    BY <2>1 DEF ExecutorsMatchStates
<1> QED
  BY <1>1, LoaderInvariant, PTL

\* A query that succeeded has all batches of the server, once and in order.
THEOREM CompleteResults == Spec => []ResultsAreComplete
<1>1. ASSUME LoaderInv PROVE ResultsAreComplete
  <2>1. ASSUME NEW q \in DOMAIN conn.queriesFinished,
               conn.queriesFinished[q].status = "SUCCEEDED"
        PROVE  /\ conn.queriesFinished[q].resultTable = [i \in 1..server[q].sent |-> i]
               /\ conn.queriesFinished[q].resultBatches = conn.queriesFinished[q].resultTable
    <3>1. q \in Queries
      BY <1>1, ActiveQuery DEF LoaderInv, QueriesOK
    <3>2. /\ Ended(exec[q]) /\ FinishedOK(conn.queriesFinished[q], exec[q], server[q])
          /\ exec[q].state # "failed" => exec[q].batches = Numbers(server[q].sent)
      BY <1>1, <3>1 DEF LoaderInv, QueriesOK, MapsOK, ExecutorOK
    <3>3. exec[q].state = "done"
      BY <2>1, <3>2 DEF Ended, FinishedOK, StatusOf
    <3> QED
      BY <3>2, <3>3 DEF FinishedOK, Numbers
  <2> QED
    BY <2>1 DEF ResultsAreComplete
<1> QED
  BY <1>1, LoaderInvariant, PTL

\* The connection runs one update at a time and knows it by what it does.
THEOREM OneUpdate == Spec => []OneUpdateAtATime
<1>1. ASSUME LoaderInv PROVE OneUpdateAtATime
  <2>1. TasksOK(conn, NEXT_CATALOG_UPDATE_ID, resets, update)
    BY <1>1 DEF LoaderInv, UpdatesOK
  <2>2. PICK running : running = DOMAIN conn.catalogUpdates.tasksRunning
    OBVIOUS
  <2>3. running \subseteq Updates
    <3>1. conn \in ConnectionState
      BY <1>1 DEF LoaderInv, QueriesOK
    <3> QED
      BY <2>2, <3>1, MapTypes DEF ConnectionState
  <2>4. Cardinality(running) <= 1
    <3>1. CASE running = {}
      BY <3>1, FS_EmptySet
    <3>2. CASE running # {}
      <4>1. PICK u : u \in running
        BY <3>2
      <4>2. running = {u}
        BY <2>1, <2>2, <4>1 DEF TasksOK
      <4>3. Cardinality(running) = 1
        BY <4>2, FS_Singleton
      <4> QED
        BY <4>3
    <3> QED
      BY <3>1, <3>2
  <2> QED
    BY <2>1, <2>2, <2>4 DEF OneUpdateAtATime, TasksOK, Awaits
<1> QED
  BY <1>1, LoaderInvariant, PTL

\* Whatever changes the rows of the query list also changes the snapshot that
\* the list looks at.
THEOREM ListUpdates == Spec => ListIsUpdated
<1>1. LoaderInv /\ [Next]_vars =>
        [computeViewModel(conn') # computeViewModel(conn) => updateViewModel(conn, conn')]_queryVars
  BY LoaderNext
<1> QED
  BY <1>1, LoaderInvariant, PTL DEF Spec, ListIsUpdated
=============================================================================
