-------------------------- MODULE AnalysisRunsProofs --------------------------
(***************************************************************************)
(* What TLAPS proves of AnalysisRuns for any number of requests, queries   *)
(* and analyses, whatever is retained.                                     *)
(***************************************************************************)
EXTENDS AnalysisRuns, FiniteSetTheorems, TLAPS

Statuses == {"none", "PENDING", "PARSING", "READY", "FAILED", "EXPIRED", "pruned"}

Shape ==
  /\ request \in [Requesters -> {"idle", "checked"}]
  /\ queued \in Nat /\ stuck \in Nat /\ worker \in Runs \cup {0}
  /\ run \in [Runs -> Statuses] /\ completed \in Runs \cup {0}
  /\ held \subseteq Runs /\ reachable \in BOOLEAN
  /\ session \in [net : Runs \cup {0}, snap : Runs \cup {0}]
  /\ query \in [Askers -> [at : {"idle", "network", "snapshot", "answer", "exists", "list"},
                           of : Runs \cup {0}]]
  /\ misled \in BOOLEAN /\ overlapped \in BOOLEAN /\ crossed \in BOOLEAN
  /\ faulted \in BOOLEAN

\* Rows are made in order; the one the worker is at is the newest there is, and
\* is not finished.
Newest ==
  /\ worker # 0 =>
       /\ run[worker] \in {"PENDING", "PARSING"}
       /\ \A m \in Runs : m > worker => run[m] = "none"
  /\ \A n, m \in Runs : run[n] = "none" /\ m > n => run[m] = "none"
  /\ ~faulted => reachable

\* A query is about a row that was finished when it began.
Asked(a) ==
  query[a].at # "idle" =>
    query[a].of \in Runs /\ run[query[a].of] \notin {"none", "PENDING", "PARSING"}

\* Where no other query runs, the session is set to what a query has set it to.
Own(a) ==
  ~crossed =>
    /\ query[a].at # "idle" => \A b \in Askers : query[b].at # "idle" => a = b
    /\ query[a].at \in {"snapshot", "answer"} => session.net = query[a].of
    /\ query[a].at = "answer" => session.snap = query[a].of
    /\ query[a].at = "list" /\ ~faulted => session.net = query[a].of

QueriesInv == \A a \in Askers : Asked(a) /\ Own(a)

IInv == Shape /\ Newest /\ QueriesInv /\ ResultsAreKept /\ AnswersAreItsOwn /\ ExpiredMeansLost

\* The order of creation starts at 1.
LEMMA Numbers == Runs \subseteq Nat /\ 0 \notin Runs
BY AnalysisAssumption DEF Runs

\* Jobs that are active are counted.
LEMMA ActiveCounts ==
  ASSUME Shape
  PROVE  ~Active <=> queued + stuck + (IF worker = 0 THEN 0 ELSE 1) = 0
BY DEF Shape, Active

\* A step that changes no row, no snapshot and no setting of the session leaves
\* what is said of the queries.
LEMMA QueriesStay ==
  ASSUME QueriesInv, UNCHANGED <<session, query, misled, crossed>>, faulted => faulted',
         \A n \in Runs : run[n] \notin {"none", "PENDING", "PARSING"} =>
           run'[n] \notin {"none", "PENDING", "PARSING"}
  PROVE  QueriesInv'
BY DEF QueriesInv, Asked, Own

-----------------------------------------------------------------------------
(* Jobs and rows.                                                          *)

\* A request that finds nothing active
LEMMA CheckKeeps == ASSUME IInv, NEW r \in Requesters, Check(r) PROVE IInv'
<1>1. UNCHANGED <<queued, stuck, worker, run, completed, held, reachable, overlapped, faulted,
                  session, query, misled, crossed>>
      /\ request' = [request EXCEPT ![r] = "checked"]
  BY DEF Check, Unqueried
<1>2. Shape'  BY <1>1 DEF IInv, Shape
<1>3. QueriesInv'  BY <1>1, QueriesStay DEF IInv
<1> QED
  BY <1>1, <1>2, <1>3 DEF IInv, Newest, ResultsAreKept, AnswersAreItsOwn, ExpiredMeansLost

\* A job that is inserted while another is active overlaps it.
LEMMA InsertKeeps == ASSUME IInv, NEW r \in Requesters, Insert(r) PROVE IInv'
<1>1. UNCHANGED <<stuck, worker, run, completed, held, reachable, faulted,
                  session, query, misled, crossed>>
      /\ request' = [request EXCEPT ![r] = "idle"]
  BY DEF Insert, Unqueried
<1>2. /\ overlapped' \in BOOLEAN
      /\ \/ queued' = queued + 1 /\ (~overlapped' => ~Active /\ ~overlapped)
         \/ UNCHANGED <<queued, overlapped>>
  <2>1. overlapped \in BOOLEAN  BY DEF IInv, Shape
  <2> QED  BY <2>1, Zenon DEF Insert, Active
<1>3. Shape'  BY <1>1, <1>2 DEF IInv, Shape
<1>4. QueriesInv'  BY <1>1, QueriesStay DEF IInv
<1>5. ~overlapped' => queued' + stuck' + (IF worker' = 0 THEN 0 ELSE 1) <= 1
  <2>1. CASE queued' = queued + 1 /\ (~overlapped' => ~Active /\ ~overlapped)
    BY <1>1, <2>1, ActiveCounts DEF IInv, Shape
  <2>2. CASE UNCHANGED <<queued, overlapped>>
    BY <1>1, <2>2 DEF IInv, ResultsAreKept
  <2> QED  BY <1>2, <2>1, <2>2
<1>6. ResultsAreKept'  BY <1>1, <1>5 DEF IInv, ResultsAreKept
<1> QED
  BY <1>1, <1>3, <1>4, <1>6 DEF IInv, Newest, AnswersAreItsOwn, ExpiredMeansLost

\* The worker takes the next row there is.
LEMMA TakeKeeps == ASSUME IInv, Take PROVE IInv'
<1>1. worker = 0 /\ queued > 0 /\ queued' = queued - 1
      /\ UNCHANGED <<request, stuck, completed, held, reachable, overlapped, faulted,
                     session, query, misled, crossed>>
  BY DEF Take, Unqueried
<1>2. PICK n \in Runs :
        /\ run[n] = "none" /\ \A m \in 1..(n - 1) : run[m] # "none"
        /\ worker' = n /\ run' = [run EXCEPT ![n] = "PENDING"]
  BY DEF Take
<1>3. n \in Nat /\ n # 0 /\ \A m \in Runs : m < n => run[m] # "none"
  BY <1>2, AnalysisAssumption DEF Runs
<1>4. run'[n] = "PENDING" /\ \A m \in Runs \ {n} : run'[m] = run[m]
  BY <1>2 DEF IInv, Shape
<1>5. Shape'
  <2>1. run' \in [Runs -> Statuses]  BY <1>2 DEF IInv, Shape, Statuses
  <2>2. queued' \in Nat  BY <1>1 DEF IInv, Shape
  <2> QED  BY <1>1, <1>2, <2>1, <2>2 DEF IInv, Shape
<1>6. Newest'  BY <1>1, <1>2, <1>3, <1>4, Numbers DEF IInv, Newest
<1>7. QueriesInv'  BY <1>1, <1>2, <1>4, QueriesStay DEF IInv
<1>8. ResultsAreKept'
  <2>1. completed # 0 => completed # n /\ completed \in Runs
    BY <1>2 DEF IInv, Shape, ResultsAreKept
  <2>2. completed' # 0 => run'[completed'] \in {"READY", "EXPIRED"}
    BY <1>1, <1>4, <2>1 DEF IInv, ResultsAreKept
  <2>3. ~overlapped' => queued' + stuck' + (IF worker' = 0 THEN 0 ELSE 1) <= 1
    BY <1>1, <1>2, <1>3 DEF IInv, Shape, ResultsAreKept
  <2>4. ~faulted' => \A m \in Runs \ {worker'} : run'[m] \notin {"PENDING", "PARSING"}
    <3>1. \A m \in Runs : m # worker  BY <1>1, Numbers
    <3> QED  BY <1>1, <1>2, <1>4, <3>1 DEF IInv, ResultsAreKept
  <2> QED  BY <2>2, <2>3, <2>4 DEF ResultsAreKept
<1>9. ExpiredMeansLost'  BY <1>1, <1>4 DEF IInv, ExpiredMeansLost
<1> QED  BY <1>1, <1>5, <1>6, <1>7, <1>8, <1>9 DEF IInv, AnswersAreItsOwn

\* The row is committed as being parsed.
LEMMA ParseKeeps == ASSUME IInv, Parse PROVE IInv'
<1>1. worker # 0 /\ run[worker] = "PENDING" /\ run' = [run EXCEPT ![worker] = "PARSING"]
      /\ UNCHANGED <<request, queued, stuck, worker, completed, held, reachable, overlapped,
                     faulted, session, query, misled, crossed>>
  BY DEF Parse, Unqueried
<1>2. worker \in Runs  BY <1>1 DEF IInv, Shape
<1>3. run'[worker] = "PARSING" /\ \A m \in Runs \ {worker} : run'[m] = run[m]
  BY <1>1 DEF IInv, Shape
<1>4. Shape'
  <2>1. run' \in [Runs -> Statuses]  BY <1>1 DEF IInv, Shape, Statuses
  <2> QED  BY <1>1, <2>1 DEF IInv, Shape
<1>5. Newest'  BY <1>1, <1>2, <1>3, Numbers DEF IInv, Newest
<1>6. QueriesInv'  BY <1>1, <1>3, QueriesStay DEF IInv
<1>7. ResultsAreKept'
  <2>1. completed # 0 => completed # worker /\ completed \in Runs
    BY <1>1 DEF IInv, Shape, ResultsAreKept
  <2> QED  BY <1>1, <1>2, <1>3, <2>1 DEF IInv, ResultsAreKept
<1>8. ExpiredMeansLost'  BY <1>1, <1>3 DEF IInv, ExpiredMeansLost
<1> QED  BY <1>1, <1>4, <1>5, <1>6, <1>7, <1>8 DEF IInv, AnswersAreItsOwn

\* The newest row is never pruned, and a row that is, was there.
LEMMA NewestStays ==
  ASSUME NEW rows \in [Runs -> Statuses], NEW n \in Runs, rows[n] \notin {"none", "pruned"},
         \A m \in Runs : m > n => rows[m] = "none"
  PROVE  /\ Pruned(rows) \in [Runs -> Statuses] /\ Pruned(rows)[n] = rows[n]
         /\ \A m \in Runs : \/ Pruned(rows)[m] = rows[m]
                            \/ rows[m] # "none" /\ Pruned(rows)[m] = "pruned"
<1> DEFINE after(k) == {m \in k..MaxRuns : rows[m] \notin {"none", "pruned"}}
<1>1. after(n) = {n}  BY AnalysisAssumption DEF Runs
<1>2. Cardinality(after(n)) = 1  BY <1>1, FS_Singleton
<1>3. ~(Cardinality(after(n)) > Retained)  BY <1>2, AnalysisAssumption
<1> HIDE DEF after
<1>4. Pruned(rows) = [k \in Runs |-> IF rows[k] \notin {"none", "pruned"}
                                        /\ Cardinality(after(k)) > Retained
                                     THEN "pruned" ELSE rows[k]]
  BY DEF Pruned, after
<1>5. ASSUME NEW k \in Runs
      PROVE  Pruned(rows)[k] = rows[k] \/ (rows[k] # "none" /\ Pruned(rows)[k] = "pruned")
  BY <1>4
<1>6. Pruned(rows)[n] = rows[n]  BY <1>3, <1>4
<1>7. Pruned(rows) \in [Runs -> Statuses]
  <2>1. ASSUME NEW k \in Runs
        PROVE  (IF rows[k] \notin {"none", "pruned"} /\ Cardinality(after(k)) > Retained
                THEN "pruned" ELSE rows[k]) \in Statuses
    BY DEF Statuses
  <2> QED  BY <1>4, <2>1
<1> QED  BY <1>5, <1>6, <1>7

\* An analysis completes: its row is the newest, so it stays.
LEMMA CompleteKeeps == ASSUME IInv, Complete PROVE IInv'
<1> DEFINE rows == [run EXCEPT ![worker] = "READY"]
<1>1. worker # 0 /\ held' = held \cup {worker} /\ run' = Pruned(rows)
      /\ completed' = worker /\ worker' = 0
      /\ UNCHANGED <<request, queued, stuck, reachable, overlapped, faulted,
                     session, query, misled, crossed>>
  BY DEF Complete, Unqueried
<1>2. worker \in Runs /\ worker \in Nat  BY <1>1, Numbers DEF IInv, Shape
<1>3. /\ rows \in [Runs -> Statuses] /\ rows[worker] = "READY"
      /\ \A m \in Runs \ {worker} : rows[m] = run[m]
  BY <1>2 DEF IInv, Shape, Statuses
<1>4. \A m \in Runs : m > worker => rows[m] = "none"
  BY <1>1, <1>2, <1>3 DEF IInv, Newest
<1> HIDE DEF rows
<1>5. /\ run' \in [Runs -> Statuses] /\ run'[worker] = "READY"
      /\ \A m \in Runs \ {worker} : run'[m] = run[m] \/ (run[m] # "none" /\ run'[m] = "pruned")
  BY <1>1, <1>2, <1>3, <1>4, NewestStays
<1>6. Shape'  BY <1>1, <1>2, <1>5 DEF IInv, Shape
<1>7. Newest'
  <2>1. run[worker] # "none"  BY <1>1 DEF IInv, Newest
  <2> QED  BY <1>1, <1>2, <1>5, <2>1, Numbers DEF IInv, Newest
<1>8. QueriesInv'  BY <1>1, <1>5, QueriesStay DEF IInv
<1>9. ResultsAreKept'
  <2>1. ~overlapped => queued + stuck <= 1
    BY <1>1 DEF IInv, Shape, ResultsAreKept
  <2>2. ~faulted => \A n \in Runs : run'[n] \notin {"PENDING", "PARSING"}
    BY <1>5 DEF IInv, ResultsAreKept
  <2> QED  BY <1>1, <1>2, <1>5, <2>1, <2>2 DEF IInv, Shape, ResultsAreKept
<1>10. ExpiredMeansLost'  BY <1>1, <1>5 DEF IInv, ExpiredMeansLost
<1> QED  BY <1>1, <1>6, <1>7, <1>8, <1>9, <1>10 DEF IInv, AnswersAreItsOwn

\* An analysis fails for a reason that is known.
LEMMA FailKeeps == ASSUME IInv, Fail PROVE IInv'
<1>1. worker # 0 /\ run[worker] = "PARSING" /\ held' \in {held, held \cup {worker}}
      /\ run' = [run EXCEPT ![worker] = "FAILED"] /\ worker' = 0
      /\ UNCHANGED <<request, queued, stuck, completed, reachable, overlapped, faulted,
                     session, query, misled, crossed>>
  BY DEF Fail, Unqueried
<1>2. worker \in Runs  BY <1>1 DEF IInv, Shape
<1>3. run'[worker] = "FAILED" /\ \A m \in Runs \ {worker} : run'[m] = run[m]
  BY <1>1 DEF IInv, Shape
<1>4. Shape'
  <2>1. run' \in [Runs -> Statuses]  BY <1>1 DEF IInv, Shape, Statuses
  <2> QED  BY <1>1, <1>2, <2>1 DEF IInv, Shape
<1>5. Newest'  BY <1>1, <1>2, <1>3, Numbers DEF IInv, Newest
<1>6. QueriesInv'  BY <1>1, <1>3, QueriesStay DEF IInv
<1>7. ResultsAreKept'
  <2>1. completed # 0 => completed # worker /\ completed \in Runs
    BY <1>1 DEF IInv, Shape, ResultsAreKept
  <2>2. ~overlapped => queued + stuck <= 1
    BY <1>1 DEF IInv, Shape, ResultsAreKept
  <2>3. ~faulted => \A n \in Runs : run'[n] \notin {"PENDING", "PARSING"}
    BY <1>3 DEF IInv, ResultsAreKept
  <2> QED  BY <1>1, <1>3, <2>1, <2>2, <2>3 DEF IInv, Shape, ResultsAreKept
<1>8. ExpiredMeansLost'  BY <1>1, <1>3 DEF IInv, ExpiredMeansLost
<1> QED  BY <1>1, <1>4, <1>5, <1>6, <1>7, <1>8 DEF IInv, AnswersAreItsOwn

\* A run that breaks off leaves its row as it is.
LEMMA BreakOffKeeps == ASSUME IInv, BreakOff PROVE IInv'
<1>1. worker # 0 /\ worker' = 0 /\ faulted' = TRUE /\ stuck' \in {stuck, stuck + 1}
      /\ UNCHANGED <<request, queued, run, completed, held, reachable, overlapped,
                     session, query, misled, crossed>>
  BY DEF BreakOff, Unqueried
<1>2. Shape'  BY <1>1 DEF IInv, Shape
<1>3. Newest'  BY <1>1 DEF IInv, Newest
<1>4. QueriesInv'  BY <1>1, QueriesStay DEF IInv
<1>5. ResultsAreKept'
  <2>1. ~overlapped => queued + stuck + 1 <= 1  BY <1>1 DEF IInv, ResultsAreKept
  <2>2. queued \in Nat /\ stuck \in Nat /\ (stuck' = stuck \/ stuck' = stuck + 1)
    BY <1>1 DEF IInv, Shape
  <2>3. ~overlapped => queued + stuck' <= 1  BY <2>1, <2>2
  <2>4. queued + stuck' + 0 = queued + stuck'  BY <2>2
  <2> QED  BY <1>1, <2>3, <2>4 DEF IInv, ResultsAreKept
<1> QED  BY <1>1, <1>2, <1>3, <1>4, <1>5 DEF IInv, AnswersAreItsOwn, ExpiredMeansLost

\* Batfish loses a snapshot.
LEMMA LoseKeeps == ASSUME IInv, NEW n \in Runs, Lose(n) PROVE IInv'
<1>1. held' = held \ {n}
      /\ UNCHANGED <<request, queued, stuck, worker, run, completed, reachable, overlapped,
                     faulted, session, query, misled, crossed>>
  BY DEF Lose, Unqueried
<1>2. Shape'  BY <1>1 DEF IInv, Shape
<1>3. QueriesInv'  BY <1>1, QueriesStay DEF IInv
<1> QED
  BY <1>1, <1>2, <1>3 DEF IInv, Newest, ResultsAreKept, AnswersAreItsOwn, ExpiredMeansLost

\* Batfish goes out of reach, or comes back.
LEMMA OutageKeeps == ASSUME IInv, Outage PROVE IInv'
<1>1. reachable' \in BOOLEAN /\ faulted' = TRUE
      /\ UNCHANGED <<request, queued, stuck, worker, run, completed, held, overlapped,
                     session, query, misled, crossed>>
  BY DEF Outage, Unqueried
<1>2. Shape'  BY <1>1 DEF IInv, Shape
<1>3. QueriesInv'  BY <1>1, QueriesStay DEF IInv
<1> QED
  BY <1>1, <1>2, <1>3 DEF IInv, Newest, ResultsAreKept, AnswersAreItsOwn, ExpiredMeansLost

-----------------------------------------------------------------------------
(* Queries.                                                                *)

\* A query that begins crosses those that have not ended.
LEMMA AskKeeps == ASSUME IInv, NEW a \in Askers, NEW n \in Runs, Ask(a, n) PROVE IInv'
<1>1. query[a].at = "idle" /\ run[n] \in {"READY", "FAILED", "EXPIRED"}
      /\ query' = [query EXCEPT ![a] = [at |-> "network", of |-> n]]
      /\ UNCHANGED <<request, queued, stuck, worker, run, completed, held, reachable, overlapped,
                     faulted, session, misled>>
  BY DEF Ask, Unparsed
<1>2. /\ crossed' \in BOOLEAN /\ (crossed => crossed')
      /\ ~crossed' => \A b \in Askers \ {a} : query[b].at = "idle"
  <2>1. crossed \in BOOLEAN  BY DEF IInv, Shape
  <2> QED  BY <2>1, Zenon DEF Ask
<1>3. Shape'  BY <1>1, <1>2 DEF IInv, Shape
<1>4. /\ query'[a] = [at |-> "network", of |-> n]
      /\ \A b \in Askers \ {a} : query'[b] = query[b]
  BY <1>1 DEF IInv, Shape
<1>5. QueriesInv'
  <2>1. ASSUME NEW b \in Askers PROVE Asked(b)'
    BY <1>1, <1>4 DEF IInv, QueriesInv, Asked
  <2>2. ASSUME NEW b \in Askers PROVE Own(b)'
    BY <1>1, <1>2, <1>4 DEF IInv, QueriesInv, Own
  <2> QED  BY <2>1, <2>2 DEF QueriesInv
<1> QED
  BY <1>1, <1>2, <1>3, <1>5 DEF IInv, Newest, ResultsAreKept, AnswersAreItsOwn, ExpiredMeansLost

\* A query that goes on leaves what is said of the others: unless queries
\* crossed, there are none.
LEMMA OthersStay ==
  ASSUME IInv, NEW a \in Askers, query[a].at # "idle", UNCHANGED <<crossed, faulted>>,
         \A b \in Askers \ {a} : query'[b] = query[b],
         \A n \in Runs : run[n] \notin {"none", "PENDING", "PARSING"} =>
           run'[n] \notin {"none", "PENDING", "PARSING"},
         query'[a].of = query[a].of, Own(a)'
  PROVE  QueriesInv'
<1>1. ASSUME NEW b \in Askers \ {a} PROVE Own(b)'
  <2>1. crossed \/ query[b].at = "idle"  BY DEF IInv, QueriesInv, Own
  <2> QED  BY <2>1 DEF Own
<1>2. ASSUME NEW b \in Askers PROVE Asked(b)'  BY DEF IInv, QueriesInv, Asked
<1> QED  BY <1>1, <1>2 DEF QueriesInv

\* A query that goes on without an answer changes no more than the session.
LEMMA QueryStep ==
  ASSUME IInv, NEW a \in Askers,
         NEW step \in {"network", "snapshot", "answer", "exists"},
         NEW to \in {"snapshot", "answer", "exists", "list"},
         On(a, step, to), Unparsed, UNCHANGED <<run, misled, crossed>>,
         session' \in [net : Runs \cup {0}, snap : Runs \cup {0}],
         to \in {"snapshot", "answer"} => session'.net = query[a].of,
         to = "answer" => session'.snap = query[a].of,
         to = "list" /\ ~faulted => session'.net = query[a].of
  PROVE  IInv'
<1>1. query[a].at = step /\ query' = [query EXCEPT ![a].at = to]  BY DEF On
<1>2. /\ query'[a].at = to /\ query'[a].of = query[a].of
      /\ \A b \in Askers \ {a} : query'[b] = query[b]
  BY <1>1 DEF IInv, Shape
<1>3. UNCHANGED <<request, queued, stuck, worker, completed, held, reachable, overlapped, faulted>>
  BY DEF Unparsed
<1>4. Shape'  BY <1>1, <1>3 DEF IInv, Shape
<1>5. Own(a)'
  <2>1. ~crossed => \A b \in Askers : query'[b].at # "idle" => a = b
    BY <1>1, <1>2 DEF IInv, QueriesInv, Own
  <2> QED  BY <1>2, <1>3, <2>1 DEF Own
<1>6. QueriesInv'  BY <1>1, <1>2, <1>3, <1>5, OthersStay
<1> QED
  BY <1>3, <1>4, <1>6 DEF IInv, Newest, ResultsAreKept, AnswersAreItsOwn, ExpiredMeansLost

\* The session is set to the network, or Batfish is out of reach.
LEMMA SetNetworkKeeps == ASSUME IInv, NEW a \in Askers, SetNetwork(a) PROVE IInv'
<1>1. Unparsed /\ UNCHANGED <<run, misled, crossed>>  BY DEF SetNetwork
<1>2. query[a].of \in Runs /\ session \in [net : Runs \cup {0}, snap : Runs \cup {0}]
  BY DEF SetNetwork, On, IInv, Shape, QueriesInv, Asked
<1>3. CASE reachable
  <2>1. On(a, "network", "snapshot") /\ session' = [session EXCEPT !.net = query[a].of]
    BY <1>3 DEF SetNetwork
  <2> QED  BY <1>1, <1>2, <2>1, QueryStep
<1>4. CASE ~reachable
  <2>1. On(a, "network", "exists") /\ session' = session  BY <1>4 DEF SetNetwork
  <2> QED  BY <1>1, <1>2, <2>1, QueryStep
<1> QED  BY <1>3, <1>4

\* And to the snapshot, in the network it was set to.
LEMMA SetSnapshotKeeps == ASSUME IInv, NEW a \in Askers, SetSnapshot(a) PROVE IInv'
<1> DEFINE found == reachable /\ query[a].of \in held /\ session.net = query[a].of
<1>1. Unparsed /\ UNCHANGED <<run, misled, crossed>>  BY DEF SetSnapshot
<1>2. query[a].of \in Runs /\ session \in [net : Runs \cup {0}, snap : Runs \cup {0}]
  BY DEF SetSnapshot, On, IInv, Shape, QueriesInv, Asked
<1>3. CASE found
  <2>1. On(a, "snapshot", "answer") /\ session' = [session EXCEPT !.snap = query[a].of]
    BY <1>3 DEF SetSnapshot
  <2>2. session'.net = query[a].of /\ session'.snap = query[a].of
    BY <1>2, <1>3, <2>1
  <2> QED  BY <1>1, <1>2, <2>1, <2>2, QueryStep
<1>4. CASE ~found
  <2>1. On(a, "snapshot", "exists") /\ session' = session  BY <1>4 DEF SetSnapshot
  <2> QED  BY <1>1, <1>2, <2>1, QueryStep
<1> QED  BY <1>3, <1>4

\* The question is put to what the session is set to, which is the query's own
\* unless queries crossed.
LEMMA AnswerKeeps == ASSUME IInv, NEW a \in Askers, Answer(a) PROVE IInv'
<1>1. query[a].at = "answer" /\ Unparsed /\ UNCHANGED <<run, session, crossed>>
  BY DEF Answer, On
<1>2. CASE On(a, "answer", "idle") /\ misled' = (misled \/ session.snap # query[a].of)
  <2>1. /\ query'[a].at = "idle" /\ query'[a].of = query[a].of
        /\ \A b \in Askers \ {a} : query'[b] = query[b]
    BY <1>2 DEF On, IInv, Shape
  <2>2. UNCHANGED <<request, queued, stuck, worker, completed, held, reachable, overlapped, faulted>>
    BY <1>1 DEF Unparsed
  <2>3. misled' \in BOOLEAN /\ (misled' => misled \/ session.snap # query[a].of)
    <3>1. misled \in BOOLEAN  BY DEF IInv, Shape
    <3> QED  BY <1>2, <3>1, Zenon
  <2>4. AnswersAreItsOwn'
    <3>1. ~crossed => session.snap = query[a].of  BY <1>1 DEF IInv, QueriesInv, Own
    <3> QED  BY <1>1, <2>3, <3>1 DEF IInv, AnswersAreItsOwn
  <2>5. Shape'
    <3>1. query' \in [Askers -> [at : {"idle", "network", "snapshot", "answer", "exists", "list"},
                                 of : Runs \cup {0}]]
      BY <1>2 DEF On, IInv, Shape
    <3> QED  BY <1>1, <2>2, <2>3, <3>1 DEF IInv, Shape
  <2>6. QueriesInv'
    <3>1. Own(a)'  BY <2>1 DEF Own
    <3> QED  BY <1>1, <2>1, <2>2, <3>1, OthersStay
  <2> QED  BY <1>1, <2>2, <2>4, <2>5, <2>6 DEF IInv, Newest, ResultsAreKept, ExpiredMeansLost
<1>3. CASE On(a, "answer", "exists") /\ misled' = misled
  <2>1. session \in [net : Runs \cup {0}, snap : Runs \cup {0}]  BY DEF IInv, Shape
  <2> QED  BY <1>1, <1>3, <2>1, QueryStep
<1> QED  BY <1>2, <1>3 DEF Answer

\* Whether the snapshot is still there is looked up in its network.
LEMMA LookKeeps == ASSUME IInv, NEW a \in Askers, Look(a) PROVE IInv'
<1>1. On(a, "exists", "list") /\ Unparsed /\ UNCHANGED <<run, misled, crossed>>
      /\ session' = IF reachable THEN [session EXCEPT !.net = query[a].of] ELSE session
  BY DEF Look
<1>2. query[a].of \in Runs /\ session \in [net : Runs \cup {0}, snap : Runs \cup {0}]
  BY <1>1 DEF On, IInv, Shape, QueriesInv, Asked
<1>3. ~faulted => session'.net = query[a].of
  BY <1>1, <1>2 DEF IInv, Newest
<1>4. session' \in [net : Runs \cup {0}, snap : Runs \cup {0}]  BY <1>1, <1>2
<1> QED  BY <1>1, <1>3, <1>4, QueryStep

\* A snapshot that is not found there counts as expired.
LEMMA ConcludeKeeps == ASSUME IInv, NEW a \in Askers, Conclude(a) PROVE IInv'
<1> DEFINE n == query[a].of
<1>1. On(a, "list", "idle") /\ UNCHANGED <<request, queued, stuck, worker, completed, held,
        reachable, overlapped, faulted, session, misled, crossed>>
      /\ run' = IF Exists(a) \/ ~Existing(n) THEN run ELSE [run EXCEPT ![n] = "EXPIRED"]
  BY DEF Conclude, Unparsed
<1>2. /\ query[a].at = "list" /\ query'[a].at = "idle" /\ query'[a].of = n
      /\ \A b \in Askers \ {a} : query'[b] = query[b]
      /\ query' \in [Askers -> [at : {"idle", "network", "snapshot", "answer", "exists", "list"},
                                of : Runs \cup {0}]]
  BY <1>1 DEF On, IInv, Shape
<1>3. n \in Runs /\ run[n] \notin {"none", "PENDING", "PARSING"}
  BY <1>2 DEF IInv, QueriesInv, Asked
<1>4. \/ run' = run
      \/ ~Exists(a) /\ run' = [run EXCEPT ![n] = "EXPIRED"]
  BY <1>1
<1> HIDE DEF n
<1>5. CASE run' = run
  <2>1. Shape'  BY <1>1, <1>2, <1>5 DEF IInv, Shape
  <2>2. Own(a)'  BY <1>2 DEF Own
  <2>3. QueriesInv'  BY <1>1, <1>2, <1>5, <2>2, OthersStay DEF n
  <2> QED
    BY <1>1, <1>5, <2>1, <2>3 DEF IInv, Newest, ResultsAreKept, AnswersAreItsOwn, ExpiredMeansLost
<1>6. CASE ~Exists(a) /\ run' = [run EXCEPT ![n] = "EXPIRED"]
  <2>1. run'[n] = "EXPIRED" /\ \A m \in Runs \ {n} : run'[m] = run[m]
    BY <1>3, <1>6 DEF IInv, Shape
  <2>2. Shape'
    <3>1. run' \in [Runs -> Statuses]  BY <1>6 DEF IInv, Shape, Statuses
    <3> QED  BY <1>1, <1>2, <3>1 DEF IInv, Shape
  <2>3. Newest'
    <3>1. worker # 0 => worker # n  BY <1>3 DEF IInv, Newest
    <3>2. \A m \in Runs : run'[m] = "none" <=> run[m] = "none"  BY <1>3, <2>1
    <3>3. worker # 0 => worker \in Runs  BY DEF IInv, Shape
    <3> QED  BY <1>1, <2>1, <3>1, <3>2, <3>3 DEF IInv, Newest
  <2>4. QueriesInv'
    <3>1. Own(a)'  BY <1>2 DEF Own
    <3> QED  BY <1>1, <1>2, <1>3, <2>1, <3>1, OthersStay DEF n
  <2>5. ResultsAreKept'
    <3>1. completed # 0 => completed \in Runs  BY DEF IInv, Shape
    <3> QED  BY <1>1, <2>1, <3>1 DEF IInv, ResultsAreKept
  <2>6. ExpiredMeansLost'
    <3>1. ~faulted /\ ~crossed => n \notin held
      <4>1. ~faulted => reachable  BY DEF IInv, Newest
      <4>2. ~faulted /\ ~crossed => session.net = n  BY <1>2 DEF IInv, QueriesInv, Own, n
      <4> QED  BY <1>6, <4>1, <4>2 DEF Exists, n
    <3> QED  BY <1>1, <2>1, <3>1 DEF IInv, ExpiredMeansLost
  <2> QED  BY <1>1, <2>2, <2>3, <2>4, <2>5, <2>6 DEF IInv, AnswersAreItsOwn
<1> QED  BY <1>4, <1>5, <1>6

-----------------------------------------------------------------------------
(* The specification keeps the invariant, and what follows from it.        *)

\* Nothing has been analysed.
LEMMA InitHolds == ASSUME AnalysisInit PROVE IInv
<1>1. Shape  BY DEF AnalysisInit, Shape, Statuses
<1>2. Newest  BY DEF AnalysisInit, Newest
<1>3. QueriesInv  BY DEF AnalysisInit, QueriesInv, Asked, Own
<1>4. ResultsAreKept  BY DEF AnalysisInit, ResultsAreKept
<1>5. AnswersAreItsOwn /\ ExpiredMeansLost
  BY DEF AnalysisInit, AnswersAreItsOwn, ExpiredMeansLost
<1> QED  BY <1>1, <1>2, <1>3, <1>4, <1>5 DEF IInv

\* The invariant holds of every reachable state.
THEOREM InvariantHolds == AnalysisSpec => []IInv
<1>1. IInv /\ [AnalysisNext]_analysisVars => IInv'
  <2> SUFFICES ASSUME IInv, [AnalysisNext]_analysisVars PROVE IInv'  OBVIOUS
  <2>1. CASE UNCHANGED analysisVars
    <3>1. Shape'  BY <2>1 DEF IInv, Shape, analysisVars
    <3>2. QueriesInv'  BY <2>1, QueriesStay DEF IInv, analysisVars
    <3> QED
      BY <2>1, <3>1, <3>2 DEF IInv, Newest, ResultsAreKept, AnswersAreItsOwn, ExpiredMeansLost,
                              analysisVars
  <2>2. CASE AnalysisNext
    <3>1. ASSUME NEW a \in Askers, SetNetwork(a) \/ SetSnapshot(a) \/ Answer(a) \/ Look(a) \/ Conclude(a)
          PROVE  IInv'
      BY <3>1, SetNetworkKeeps, SetSnapshotKeeps, AnswerKeeps, LookKeeps, ConcludeKeeps
    <3>2. ASSUME NEW n \in Runs, Lose(n) \/ \E a \in Askers : Ask(a, n) PROVE IInv'
      BY <3>2, LoseKeeps, AskKeeps
    <3> QED
      BY <2>2, <3>1, <3>2, CheckKeeps, InsertKeeps, TakeKeeps, ParseKeeps, CompleteKeeps, FailKeeps,
         BreakOffKeeps, OutageKeeps DEF AnalysisNext
  <2> QED  BY <2>1, <2>2
<1> QED  BY <1>1, InitHolds, PTL DEF AnalysisSpec

\* Unless requests overlapped one analysis is active; the one that completed
\* last is kept; only a run that broke off leaves a row unfinished.
THEOREM ResultsKept == AnalysisSpec => []ResultsAreKept
<1>1. IInv => ResultsAreKept  BY DEF IInv
<1> QED  BY <1>1, InvariantHolds, PTL

\* A query that no other crosses is answered from its own snapshot.
THEOREM AnswersOwn == AnalysisSpec => []AnswersAreItsOwn
<1>1. IInv => AnswersAreItsOwn  BY DEF IInv
<1> QED  BY <1>1, InvariantHolds, PTL

\* A snapshot that counts as expired is lost, unless Batfish was out of reach
\* or queries crossed.
THEOREM ExpiredLost == AnalysisSpec => []ExpiredMeansLost
<1>1. IInv => ExpiredMeansLost  BY DEF IInv
<1> QED  BY <1>1, InvariantHolds, PTL
=============================================================================
