-------------------------------- MODULE Jobs --------------------------------
(***************************************************************************)
(* Background jobs: the row JobService.enqueue writes, the RQ list in      *)
(* Redis that names it, the API thread that called enqueue and the worker  *)
(* processes that run execute_job.                                         *)
(*                                                                         *)
(* A row and a list entry are written by different systems, so every       *)
(* commit and every Redis call is a step of its own.  What the job does    *)
(* between StartJob and its end is left to the module that EXTENDS this    *)
(* one.                                                                    *)
(***************************************************************************)
EXTENDS Naturals, Sequences

CONSTANTS
  Calls,      \* calls of JobService.enqueue; a call creates at most one job
  Workers,    \* RQ worker processes (deploy/compose.yml starts one)
  NoJob       \* what an idle worker holds

ASSUME NoJobIsNotACall == NoJob \notin Calls

VARIABLES
  job,        \* the state column of each row, "absent" before it is inserted
  rq,         \* the RQ list, oldest first
  call,       \* how far the API thread of each call has come
  worker      \* what each worker is doing: [pc, job]

jobsVars == <<job, rq, call, worker>>

JobState  == {"absent", "queued", "started", "succeeded", "failed"}
CallState == {"idle", "committed", "undelivered", "answered", "refused", "dead"}
WorkerState == [pc: {"idle"}, job: {NoJob}]
               \cup [pc: {"claimed", "running"}, job: Calls]

\* _TERMINAL_STATES; no code assigns "cancelled".
Terminal == {"succeeded", "failed"}

\* The states has_active counts.
Active == {"queued", "started"}

Idle == [pc |-> "idle", job |-> NoJob]

JobsTypeOK ==
  /\ job \in [Calls -> JobState]
  /\ rq \in Seq(Calls)
  /\ call \in [Calls -> CallState]
  /\ worker \in [Workers -> WorkerState]

JobsInit ==
  /\ job = [c \in Calls |-> "absent"]
  /\ rq = <<>>
  /\ call = [c \in Calls |-> "idle"]
  /\ worker = [w \in Workers |-> Idle]

-----------------------------------------------------------------------------
(* The API thread inside JobService.enqueue.                               *)

\* add the row and its event, commit
AddJob(c) ==
  /\ call[c] = "idle"
  /\ call' = [call EXCEPT ![c] = "committed"]
  /\ job' = [job EXCEPT ![c] = "queued"]
  /\ UNCHANGED <<rq, worker>>

\* Mutated form: a failed push is swallowed and the caller is answered.
Deliver_Swallowed(c) ==
  /\ call[c] = "committed"
  /\ call' = [call EXCEPT ![c] = "answered"]
  /\ rq' \in {rq, Append(rq, c)}
  /\ UNCHANGED <<job, worker>>

\* queue.enqueue returned, set_rq_id is committed and the caller is answered.
\* The client library resends a command whose reply was lost, so one call may
\* leave two entries.
Deliver(c) ==
  /\ call[c] = "committed"
  /\ call' = [call EXCEPT ![c] = "answered"]
  /\ rq' \in {Append(rq, c), Append(Append(rq, c), c)}
  /\ UNCHANGED <<job, worker>>

\* queue.enqueue raised: Redis was not reached, or only its reply was lost
Undeliver(c) ==
  /\ call[c] = "committed"
  /\ call' = [call EXCEPT ![c] = "undelivered"]
  /\ rq' \in {rq, Append(rq, c)}
  /\ UNCHANGED <<job, worker>>

\* Mutated form: the caller is refused and the row stays queued.
RefuseCall_KeepsRow(c) ==
  /\ call[c] = "undelivered"
  /\ call' = [call EXCEPT ![c] = "refused"]
  /\ UNCHANGED <<job, rq, worker>>

\* fail the row, commit, answer 503.  The row is locked but not read again:
\* the session keeps its own copy over a commit (expire_on_commit=False), and
\* that copy still says "queued", so fail's terminal guard never fires here.
RefuseCall(c) ==
  /\ call[c] = "undelivered"
  /\ call' = [call EXCEPT ![c] = "refused"]
  /\ job' = [job EXCEPT ![c] = "failed"]
  /\ UNCHANGED <<rq, worker>>

\* the API process dies between two of the steps above
CallerCrash(c) ==
  /\ call[c] \in {"committed", "undelivered"}
  /\ call' = [call EXCEPT ![c] = "dead"]
  /\ UNCHANGED <<job, rq, worker>>

-----------------------------------------------------------------------------
(* A worker.                                                               *)

Claim(w) ==
  /\ worker[w].pc = "idle"
  /\ rq # <<>>
  /\ worker' = [worker EXCEPT ![w] = [pc |-> "claimed", job |-> Head(rq)]]
  /\ rq' = Tail(rq)
  /\ UNCHANGED <<job, call>>

\* first transaction of execute_job: lock the row, start it, commit
StartJob(w) ==
  /\ worker[w].pc = "claimed"
  /\ job[worker[w].job] = "queued"
  /\ job' = [job EXCEPT ![worker[w].job] = "started"]
  /\ worker' = [worker EXCEPT ![w].pc = "running"]
  /\ UNCHANGED <<rq, call>>

\* start raises ConflictError outside the try: the entry is dropped
RefuseStart(w) ==
  /\ worker[w].pc = "claimed"
  /\ job[worker[w].job] # "queued"
  /\ worker' = [worker EXCEPT ![w] = Idle]
  /\ UNCHANGED <<job, rq, call>>

\* Mutated form: the worker goes idle without dropping its job.
EndJob_KeepsJob(w, outcome) ==
  /\ worker[w].pc = "running"
  /\ job' = [job EXCEPT ![worker[w].job] = IF @ \in Terminal THEN @ ELSE outcome]
  /\ worker' = [worker EXCEPT ![w].pc = "idle"]
  /\ UNCHANGED <<rq, call>>

\* The last transaction.  succeed raises on a terminal row and the handler's
\* fail then leaves that row alone, so either way a terminal row stays.
EndJob(w, outcome) ==
  /\ worker[w].pc = "running"
  /\ job' = [job EXCEPT ![worker[w].job] = IF @ \in Terminal THEN @ ELSE outcome]
  /\ worker' = [worker EXCEPT ![w] = Idle]
  /\ UNCHANGED <<rq, call>>

\* the process dies; the container restarts it and nothing repairs the row
WorkerCrash(w) ==
  /\ worker[w].pc # "idle"
  /\ worker' = [worker EXCEPT ![w] = Idle]
  /\ UNCHANGED <<job, rq, call>>
=============================================================================
