----------------------------- MODULE AnalysisRuns -----------------------------
(***************************************************************************)
(* The analyses of the network's configurations: requests for one, of      *)
(* which one at a time is meant to be active, the worker that parses them  *)
(* with Batfish, the rows that are kept, and the queries about one, which  *)
(* share a session whose current snapshot is a setting of it.              *)
(***************************************************************************)
EXTENDS Naturals, FiniteSets

CONSTANTS
  Requesters,   \* requests for an analysis that may run at the same time
  Askers,       \* queries that may
  MaxRuns,      \* analyses altogether (bound of the model)
  Retained      \* analysis_retained_snapshots

ASSUME AnalysisAssumption == MaxRuns \in Nat /\ Retained \in Nat \ {0}

VARIABLES
  request,    \* where a request for an analysis stands
  queued,     \* jobs that wait for the worker
  stuck,      \* jobs of a worker that died: started for ever
  worker,     \* the run the worker is at, 0 for none
  run,        \* the status of a row, by its order of creation
  completed,  \* the run that completed last, 0 for none
  held,       \* the snapshots Batfish holds
  reachable,  \* Batfish can be reached
  session,    \* the network and the snapshot the shared session is set to
  query,      \* where a query stands, and the run it is about
  misled,     \* a query was answered from another snapshot than its own
  overlapped, \* a job was inserted although another one was active
  crossed,    \* two queries ran at once
  faulted     \* Batfish could not be reached, or the worker's run broke off

analysisVars == <<request, queued, stuck, worker, run, completed, held, reachable, session,
                  query, misled, overlapped, crossed, faulted>>

Runs == 1..MaxRuns
AnalysisInit ==
  /\ request = [r \in Requesters |-> "idle"]
  /\ queued = 0 /\ stuck = 0 /\ worker = 0
  /\ run = [n \in Runs |-> "none"] /\ completed = 0
  /\ held = {} /\ reachable = TRUE /\ session = [net |-> 0, snap |-> 0]
  /\ query = [a \in Askers |-> [at |-> "idle", of |-> 0]]
  /\ misled = FALSE /\ overlapped = FALSE /\ crossed = FALSE /\ faulted = FALSE

Unqueried == UNCHANGED <<session, query, misled, crossed>>

-----------------------------------------------------------------------------
(* Jobs and rows                                                           *)

Active == queued + stuck > 0 \/ worker # 0
Existing(n) == run[n] \notin {"none", "pruned"}

\* has_active, and the insert of the job after it: not under one lock.
Check(r) ==
  /\ request[r] = "idle" /\ ~Active
  /\ request' = [request EXCEPT ![r] = "checked"]
  /\ UNCHANGED <<queued, stuck, worker, run, completed, held, reachable, overlapped, faulted>>
  /\ Unqueried
\* Where the queue cannot be reached the job is failed at once.
Insert(r) ==
  /\ request[r] = "checked"
  /\ request' = [request EXCEPT ![r] = "idle"]
  /\ \/ queued' = queued + 1 /\ overlapped' = (overlapped \/ Active)
     \/ UNCHANGED <<queued, overlapped>>
  /\ UNCHANGED <<stuck, worker, run, completed, held, reachable, faulted>>
  /\ Unqueried

\* The worker takes a job; its row is created, then committed as being parsed.
Take ==
  /\ worker = 0 /\ queued > 0
  /\ \E n \in Runs :
       /\ run[n] = "none" /\ \A m \in 1..(n - 1) : run[m] # "none"
       /\ worker' = n /\ run' = [run EXCEPT ![n] = "PENDING"]
  /\ queued' = queued - 1
  /\ UNCHANGED <<request, stuck, completed, held, reachable, overlapped, faulted>>
  /\ Unqueried
Parse ==
  /\ worker # 0 /\ run[worker] = "PENDING"
  /\ run' = [run EXCEPT ![worker] = "PARSING"]
  /\ UNCHANGED <<request, queued, stuck, worker, completed, held, reachable, overlapped,
                 faulted>>
  /\ Unqueried

\* Mutated form: the oldest rows are the ones that stay.
Pruned_Oldest(rows) ==
  [n \in Runs |-> IF rows[n] \notin {"none", "pruned"}
                     /\ Cardinality({m \in 1..n : rows[m] \notin {"none", "pruned"}}) > Retained
                  THEN "pruned" ELSE rows[n]]

\* All but the newest rows are deleted, whatever their status.
Pruned(rows) ==
  [n \in Runs |-> IF rows[n] \notin {"none", "pruned"}
                     /\ Cardinality({m \in n..MaxRuns : rows[m] \notin {"none", "pruned"}})
                          > Retained
                  THEN "pruned" ELSE rows[n]]

\* Batfish holds the snapshot, its findings are stored, and old rows go.
Complete ==
  /\ worker # 0 /\ run[worker] = "PARSING" /\ reachable
  /\ held' = held \cup {worker}
  /\ run' = Pruned([run EXCEPT ![worker] = "READY"])
  /\ completed' = worker /\ worker' = 0
  /\ UNCHANGED <<request, queued, stuck, reachable, overlapped, faulted>>
  /\ Unqueried

\* A known error: no configuration, too many devices, Batfish out of reach; it
\* may have been told of the snapshot before.
Fail ==
  /\ worker # 0 /\ run[worker] = "PARSING"
  /\ held' \in {held, held \cup {worker}}
  /\ run' = [run EXCEPT ![worker] = "FAILED"] /\ worker' = 0
  /\ UNCHANGED <<request, queued, stuck, completed, reachable, overlapped, faulted>>
  /\ Unqueried

\* Any other exception, the job's timeout too, fails the job and leaves its row;
\* a worker that dies leaves the job as well.
BreakOff ==
  /\ worker # 0 /\ worker' = 0 /\ faulted' = TRUE
  /\ stuck' \in {stuck, stuck + 1}
  /\ UNCHANGED <<request, queued, run, completed, held, reachable, overlapped>>
  /\ Unqueried

\* Batfish loses a snapshot, or cannot be reached for a while.
Lose(n) ==
  /\ n \in held /\ held' = held \ {n}
  /\ UNCHANGED <<request, queued, stuck, worker, run, completed, reachable, overlapped, faulted>>
  /\ Unqueried
Outage ==
  /\ reachable' = ~reachable /\ faulted' = TRUE
  /\ UNCHANGED <<request, queued, stuck, worker, run, completed, held, overlapped>>
  /\ Unqueried

-----------------------------------------------------------------------------
(* Queries                                                                 *)

Unparsed == UNCHANGED <<request, queued, stuck, worker, completed, held, reachable, overlapped,
                        faulted>>
On(a, step, to) == /\ query[a].at = step /\ query' = [query EXCEPT ![a].at = to]

\* Mutated form: a session that is set is not set again.
Ask_Directly(a, n) ==
  /\ query[a].at = "idle" /\ run[n] \in {"READY", "FAILED", "EXPIRED"}
  /\ query' = [query EXCEPT ![a] =
                 [at |-> IF session.snap = 0 THEN "network" ELSE "answer", of |-> n]]
  /\ crossed' = (crossed \/ \E b \in Askers \ {a} : query[b].at # "idle")
  /\ UNCHANGED <<run, session, misled>> /\ Unparsed

\* A path or a filter check of a row that has members
Ask(a, n) ==
  /\ query[a].at = "idle" /\ run[n] \in {"READY", "FAILED", "EXPIRED"}
  /\ query' = [query EXCEPT ![a] = [at |-> "network", of |-> n]]
  /\ crossed' = (crossed \/ \E b \in Askers \ {a} : query[b].at # "idle")
  /\ UNCHANGED <<run, session, misled>> /\ Unparsed

\* The session is set to the network, which is made if it is not there.
SetNetwork(a) ==
  /\ IF reachable
     THEN On(a, "network", "snapshot") /\ session' = [session EXCEPT !.net = query[a].of]
     ELSE On(a, "network", "exists") /\ UNCHANGED session
  /\ UNCHANGED <<run, misled, crossed>> /\ Unparsed

\* And to the snapshot, which has the name of its network.
SetSnapshot(a) ==
  LET found == reachable /\ query[a].of \in held /\ session.net = query[a].of
  IN  /\ On(a, "snapshot", IF found THEN "answer" ELSE "exists")
      /\ session' = IF found THEN [session EXCEPT !.snap = query[a].of] ELSE session
      /\ UNCHANGED <<run, misled, crossed>> /\ Unparsed

\* The question is put to what the session is set to by then, and may fail for
\* its own reasons; an answer is audited, a failure looked into.
Answer(a) ==
  LET able == reachable /\ session.snap \in held /\ session.net = session.snap
  IN  /\ \/ able /\ On(a, "answer", "idle")
            /\ misled' = (misled \/ session.snap # query[a].of)
         \/ On(a, "answer", "exists") /\ UNCHANGED misled
      /\ UNCHANGED <<run, session, crossed>> /\ Unparsed

\* Mutated form: whatever fails, the snapshot counts as lost.
Exists_Never(a) == FALSE

\* What snapshot_exists finds in the network the session is set to
Exists(a) == reachable /\ session.net = query[a].of /\ query[a].of \in held

\* snapshot_exists sets the network again and lists its snapshots; whatever
\* fails there counts as "no".
Look(a) ==
  /\ On(a, "exists", "list")
  /\ session' = IF reachable THEN [session EXCEPT !.net = query[a].of] ELSE session
  /\ UNCHANGED <<run, misled, crossed>> /\ Unparsed
Conclude(a) ==
  /\ On(a, "list", "idle")
  /\ run' = IF Exists(a) \/ ~Existing(query[a].of) THEN run
            ELSE [run EXCEPT ![query[a].of] = "EXPIRED"]
  /\ UNCHANGED <<session, misled, crossed>> /\ Unparsed

AnalysisNext ==
  \/ \E r \in Requesters : Check(r) \/ Insert(r)
  \/ Take \/ Parse \/ Complete \/ Fail \/ BreakOff \/ Outage
  \/ \E n \in Runs : Lose(n) \/ \E a \in Askers : Ask(a, n)
  \/ \E a \in Askers : SetNetwork(a) \/ SetSnapshot(a) \/ Answer(a) \/ Look(a) \/ Conclude(a)

AnalysisSpec == AnalysisInit /\ [][AnalysisNext]_analysisVars

-----------------------------------------------------------------------------
(* Properties                                                              *)

\* One analysis is active at a time unless two requests passed the check
\* together; the result of the one that completed last is never pruned; and a
\* row is left unfinished only where a run broke off.
ResultsAreKept ==
  /\ ~overlapped => queued + stuck + (IF worker = 0 THEN 0 ELSE 1) <= 1
  /\ completed # 0 => run[completed] \in {"READY", "EXPIRED"}
  /\ ~faulted => \A n \in Runs \ {worker} : run[n] \notin {"PENDING", "PARSING"}

\* A query is answered from the snapshot it is about, unless queries crossed.
AnswersAreItsOwn == misled => crossed

\* A snapshot counts as expired only if Batfish has lost it, unless Batfish
\* could not be reached or queries crossed.
ExpiredMeansLost ==
  ~faulted /\ ~crossed => \A n \in Runs : run[n] = "EXPIRED" => n \notin held
=============================================================================
