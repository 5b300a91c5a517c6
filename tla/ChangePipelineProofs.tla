------------------------ MODULE ChangePipelineProofs ------------------------
(***************************************************************************)
(* What TLAPS proves of ChangePipeline for any number of calls, workers,   *)
(* plans, devices, values, drifts and crashes.                             *)
(***************************************************************************)
EXTENDS ChangePipeline, TLAPS

-----------------------------------------------------------------------------
(* The inductive invariant.                                                *)

\* A plan that is past its preview's first step has a device and two values.
PlansAreDrawn ==
  \A p \in Plans : status[p] # "none" =>
    target[p] \in Devices /\ previous[p] \in DeviceValue /\ desired[p] \in Values

\* A request holds a plan that was in the database when it was read.
RequestsHoldStoredPlans ==
  \A r \in Calls : request[r].pc # "idle" => status[PlanOf(r)] \notin {"none", "previewing"}

\* The endpoint and JobService.enqueue move together: a row exists exactly
\* when the request has passed the lock.
RowsBelongToRequests ==
  \A r \in Calls :
    /\ call[r] = "idle" <=> request[r].pc # "enqueued"
    /\ call[r] = "idle" <=> job[r] = "absent"

EntriesHaveRows == \A i \in 1..Len(rq) : request[rq[i]].pc = "enqueued"

WorkersHoldEntries ==
  \A w \in Workers :
    /\ worker[w].pc # "idle" => request[worker[w].job].pc = "enqueued"
    /\ stage[w] # "none" => worker[w].pc = "running"

\* What a worker's stage says of the plan it works on.
Progress(w) ==
  LET p == PlanAt(w)
  IN  /\ stage[w] \in InFlight => status[p] = "applying"
      /\ stage[w] \in {"confirmed", "connected"} => pushed[p] = 0
      /\ stage[w] \in {"sent", "verified", "captured"} => pushed[p] = 1
      /\ stage[w] \in InFlight \ {"undone", "stranded"} => undone[p] = 0
      /\ stage[w] = "undone" => undone[p] = 1
      /\ stage[w] \in {"verified", "captured"} => seen[p] = desired[p]
      /\ stage[w] = "done" => status[p] \in Settled

UnconfirmedPlansAreUntouched ==
  \A p \in Plans :
    status[p] \in {"none", "previewing", "draft"} => pushed[p] = 0 /\ undone[p] = 0

IInv ==
  /\ TypeOK
  /\ PlansAreDrawn
  /\ RequestsHoldStoredPlans
  /\ RowsBelongToRequests
  /\ EntriesHaveRows
  /\ WorkersHoldEntries
  /\ \A w \in Workers : Progress(w)
  /\ UnconfirmedPlansAreUntouched
  /\ OneWorkerPerPlan
  /\ AppliedIsVerified
  /\ SucceededJobIsSettled
  /\ StrandedPlanIsReported

-----------------------------------------------------------------------------
(* Whose plan a request or a worker holds.                                 *)

LEMMA JobOfWorker ==
  ASSUME IInv, NEW w \in Workers, worker[w].pc # "idle"
  PROVE  /\ worker[w].pc \in {"claimed", "running"}
         /\ worker[w].job \in Calls
         /\ request[worker[w].job].pc = "enqueued"
BY DEF IInv, TypeOK, JobsTypeOK, WorkerState, WorkersHoldEntries

LEMMA PlanOfRequest ==
  ASSUME IInv, NEW r \in Calls, request[r].pc # "idle"
  PROVE  /\ PlanOf(r) \in Plans
         /\ status[PlanOf(r)] \in PlanStatus \ {"none", "previewing"}
         /\ target[PlanOf(r)] \in Devices
         /\ previous[PlanOf(r)] \in DeviceValue
         /\ desired[PlanOf(r)] \in Values
BY DEF IInv, TypeOK, RequestState, RequestsHoldStoredPlans, PlansAreDrawn, PlanOf

LEMMA PlanOfWorker ==
  ASSUME IInv, NEW w \in Workers, worker[w].pc # "idle"
  PROVE  /\ PlanAt(w) \in Plans
         /\ status[PlanAt(w)] \in PlanStatus \ {"none", "previewing"}
         /\ target[PlanAt(w)] \in Devices
         /\ previous[PlanAt(w)] \in DeviceValue
         /\ desired[PlanAt(w)] \in Values
BY JobOfWorker, PlanOfRequest DEF PlanAt

LEMMA PlanOfRow ==
  ASSUME IInv, NEW r \in Calls, job[r] # "absent"
  PROVE  request[r].pc = "enqueued"
BY DEF IInv, RowsBelongToRequests

-----------------------------------------------------------------------------
(* Preview: only one plan that is not stored yet changes.                  *)

LEMMA PreviewFrame ==
  ASSUME IInv, NEW p \in Plans,
         UNCHANGED <<jobsVars, config, request, stage, faults, histVars>>,
         status[p] \in {"none", "previewing"},
         status'[p] \in {"none", "previewing", "draft"},
         \A q \in Plans \ {p} : /\ status'[q] = status[q]
                                /\ target'[q] = target[q]
                                /\ desired'[q] = desired[q],
         TypeOK', PlansAreDrawn'
  PROVE  IInv'
<1> USE DEF jobsVars, histVars
<1>1. \A r \in Calls : PlanOf(r)' = PlanOf(r)
  BY DEF PlanOf
<1>2. \A w \in Workers : PlanAt(w)' = PlanAt(w)
  BY DEF PlanAt, PlanOf
<1>3. \A w \in Workers : worker[w].pc # "idle" => PlanAt(w) \in Plans \ {p}
  BY PlanOfWorker
<1>4. \A r \in Calls : request[r].pc # "idle" => PlanOf(r) \in Plans \ {p}
  BY PlanOfRequest
<1>5. RequestsHoldStoredPlans'
  BY <1>1, <1>4 DEF IInv, RequestsHoldStoredPlans
<1>6. RowsBelongToRequests' /\ EntriesHaveRows' /\ WorkersHoldEntries'
  BY DEF IInv, RowsBelongToRequests, EntriesHaveRows, WorkersHoldEntries
<1>7. ASSUME NEW w \in Workers PROVE Progress(w)'
  <2>1. CASE stage[w] = "none"
    BY <2>1 DEF Progress, InFlight, Stage
  <2>2. CASE stage[w] # "none"
    BY <1>2, <1>3, <2>2 DEF IInv, Progress, WorkersHoldEntries
  <2> QED BY <2>1, <2>2
<1>8. UnconfirmedPlansAreUntouched' /\ AppliedIsVerified'
  BY DEF IInv, UnconfirmedPlansAreUntouched, AppliedIsVerified
<1>9. OneWorkerPerPlan'
  BY <1>2 DEF IInv, OneWorkerPerPlan
<1>10. SucceededJobIsSettled'
  BY <1>1, <1>4, PlanOfRow DEF IInv, SucceededJobIsSettled
<1>11. StrandedPlanIsReported'
  <2>1. \A q \in Plans : Working(q)' = Working(q)
    BY <1>2 DEF Working
  <2> QED BY <1>1, <1>2, <2>1 DEF IInv, StrandedPlanIsReported
<1> QED BY <1>5, <1>6, <1>7, <1>8, <1>9, <1>10, <1>11 DEF IInv

LEMMA PreviewInv ==
  ASSUME IInv, NEW p \in Plans,
         \/ \E d \in Devices, v \in Values : PreviewRead(p, d, v)
         \/ PreviewStore(p)
         \/ PreviewFail(p)
  PROVE  IInv'
<1> USE DEF jobsVars, histVars
<1>1. CASE \E d \in Devices, v \in Values : PreviewRead(p, d, v)
  <2>1. TypeOK' /\ PlansAreDrawn'
    BY <1>1 DEF PreviewRead, IInv, TypeOK, JobsTypeOK, PlanStatus, DeviceValue, PlansAreDrawn
  <2> QED BY <1>1, <2>1, PreviewFrame DEF PreviewRead, IInv, TypeOK
<1>2. CASE PreviewStore(p)
  <2>1. TypeOK' /\ PlansAreDrawn'
    BY <1>2 DEF PreviewStore, IInv, TypeOK, JobsTypeOK, PlanStatus, PlansAreDrawn
  <2> QED BY <1>2, <2>1, PreviewFrame DEF PreviewStore, IInv, TypeOK
<1>3. CASE PreviewFail(p)
  <2>1. TypeOK' /\ PlansAreDrawn'
    BY <1>3 DEF PreviewFail, IInv, TypeOK, JobsTypeOK, PlanStatus, PlansAreDrawn
  <2> QED BY <1>3, <2>1, PreviewFrame DEF PreviewFail, IInv, TypeOK
<1> QED BY <1>1, <1>2, <1>3

-----------------------------------------------------------------------------
(* The endpoint and JobService.enqueue: plans and workers do not move, and  *)
(* a request that holds a plan keeps it.                                    *)

LEMMA RequestFrame ==
  ASSUME IInv, UNCHANGED <<planVars, config, worker, stage, faults, histVars>>,
         \A r \in Calls : request[r].pc # "idle" => PlanOf(r)' = PlanOf(r),
         \A r \in Calls : request[r].pc = "enqueued" => request'[r].pc = "enqueued",
         \A r \in Calls : job[r] = "failed" => job'[r] = "failed",
         \A r \in Calls : job'[r] = "succeeded" => job[r] = "succeeded",
         TypeOK', RequestsHoldStoredPlans', RowsBelongToRequests', EntriesHaveRows'
  PROVE  IInv'
<1> USE DEF planVars, histVars
<1>1. ASSUME NEW w \in Workers, stage[w] # "none" PROVE PlanAt(w)' = PlanAt(w)
  BY <1>1, JobOfWorker DEF PlanAt, IInv, WorkersHoldEntries
<1>2. PlansAreDrawn'
  BY DEF IInv, PlansAreDrawn
<1>3. WorkersHoldEntries'
  BY JobOfWorker DEF IInv, WorkersHoldEntries
<1>4. ASSUME NEW w \in Workers PROVE Progress(w)'
  <2>1. CASE stage[w] = "none"
    BY <2>1 DEF Progress, InFlight, Stage
  <2>2. CASE stage[w] # "none"
    BY <1>1, <2>2 DEF IInv, Progress
  <2> QED BY <2>1, <2>2
<1>5. UnconfirmedPlansAreUntouched' /\ AppliedIsVerified'
  BY DEF IInv, UnconfirmedPlansAreUntouched, AppliedIsVerified
<1>6. OneWorkerPerPlan'
  BY <1>1 DEF IInv, OneWorkerPerPlan, InFlight
<1>7. SucceededJobIsSettled'
  BY PlanOfRow DEF IInv, SucceededJobIsSettled
<1>8. StrandedPlanIsReported'
  <2>1. \A p \in Plans : Working(p)' = Working(p)
    BY <1>1 DEF Working, InFlight
  <2>2. ASSUME NEW r \in Calls, NEW p \in Plans, PlanOf(r) = p, job[r] = "failed"
        PROVE  PlanOf(r)' = p /\ job'[r] = "failed"
    BY <2>2, PlanOfRow
  <2>3. ASSUME NEW w \in Workers, NEW p \in Plans, stage[w] = "raised", PlanAt(w) = p
        PROVE  stage'[w] = "raised" /\ PlanAt(w)' = p
    BY <2>3, <1>1
  <2> QED BY <2>1, <2>2, <2>3 DEF IInv, StrandedPlanIsReported
<1> QED BY <1>2, <1>3, <1>4, <1>5, <1>6, <1>7, <1>8 DEF IInv

LEMMA RequestInv ==
  ASSUME IInv, NEW r \in Calls,
         (\E p \in Plans : ReadPlan(r, p)) \/ CheckLock(r) \/ EnqueueApply(r)
  PROVE  IInv'
<1> USE DEF jobsVars, planVars, histVars
<1>1. CASE \E p \in Plans : ReadPlan(r, p)
  <2> PICK p \in Plans : ReadPlan(r, p)
    BY <1>1
  <2>1. TypeOK'
    BY DEF ReadPlan, IInv, TypeOK, JobsTypeOK, RequestState
  <2>2. /\ request'[r].pc \in {"read", "rejected"}
        /\ PlanOf(r)' = p
        /\ \A s \in Calls \ {r} : request'[s] = request[s]
    BY DEF ReadPlan, IInv, TypeOK, PlanOf
  <2>3. RequestsHoldStoredPlans' /\ RowsBelongToRequests'
    BY <2>2 DEF ReadPlan, IInv, RequestsHoldStoredPlans, RowsBelongToRequests, PlanOf
  <2>4. EntriesHaveRows'
    BY <2>2 DEF ReadPlan, IInv, EntriesHaveRows, TypeOK, JobsTypeOK
  <2> QED BY <2>1, <2>2, <2>3, <2>4, RequestFrame DEF ReadPlan, PlanOf
<1>2. CASE CheckLock(r)
  <2>1. TypeOK'
    <3>1. PlanOf(r) \in Plans
      BY <1>2, PlanOfRequest DEF CheckLock
    <3>2. request' \in [Calls -> RequestState]
      BY <1>2, <3>1 DEF CheckLock, IInv, TypeOK, RequestState, PlanOf
    <3> QED BY <1>2, <3>2 DEF CheckLock, IInv, TypeOK, JobsTypeOK
  <2>2. /\ request'[r].pc \in {"unlocked", "rejected"}
        /\ PlanOf(r)' = PlanOf(r)
        /\ \A s \in Calls \ {r} : request'[s] = request[s]
    BY <1>2 DEF CheckLock, IInv, TypeOK, RequestState, PlanOf
  <2>3. RequestsHoldStoredPlans' /\ RowsBelongToRequests'
    BY <1>2, <2>2 DEF CheckLock, IInv, RequestsHoldStoredPlans, RowsBelongToRequests, PlanOf
  <2>4. EntriesHaveRows'
    BY <1>2, <2>2 DEF CheckLock, IInv, EntriesHaveRows, TypeOK, JobsTypeOK
  <2> QED BY <1>2, <2>1, <2>2, <2>3, <2>4, RequestFrame DEF CheckLock, PlanOf
<1>3. CASE EnqueueApply(r)
  <2>1. TypeOK'
    <3>1. PlanOf(r) \in Plans
      BY <1>3, PlanOfRequest DEF EnqueueApply
    <3>2. request' \in [Calls -> RequestState]
      BY <1>3, <3>1 DEF EnqueueApply, IInv, TypeOK, RequestState, PlanOf
    <3>3. job' \in [Calls -> JobState] /\ call' \in [Calls -> CallState]
      BY <1>3 DEF EnqueueApply, AddJob, IInv, TypeOK, JobsTypeOK, CallState, JobState
    <3> QED BY <1>3, <3>2, <3>3 DEF EnqueueApply, AddJob, IInv, TypeOK, JobsTypeOK
  <2>2. /\ request'[r].pc = "enqueued"
        /\ PlanOf(r)' = PlanOf(r)
        /\ \A s \in Calls \ {r} : request'[s] = request[s]
    BY <1>3 DEF EnqueueApply, IInv, TypeOK, RequestState, PlanOf
  <2>3. /\ job'[r] = "queued" /\ call'[r] = "committed"
        /\ job[r] = "absent"
        /\ \A s \in Calls \ {r} : job'[s] = job[s] /\ call'[s] = call[s]
    BY <1>3 DEF EnqueueApply, AddJob, IInv, TypeOK, JobsTypeOK, RowsBelongToRequests
  <2>4. RequestsHoldStoredPlans' /\ RowsBelongToRequests'
    BY <1>3, <2>2, <2>3 DEF EnqueueApply, IInv, RequestsHoldStoredPlans, RowsBelongToRequests, PlanOf
  <2>5. EntriesHaveRows'
    BY <1>3, <2>2 DEF EnqueueApply, AddJob, IInv, EntriesHaveRows, TypeOK, JobsTypeOK
  <2> QED BY <1>3, <2>1, <2>2, <2>3, <2>4, <2>5, RequestFrame DEF EnqueueApply, AddJob, PlanOf
<1> QED BY <1>1, <1>2, <1>3

LEMMA DispatchInv ==
  ASSUME IInv, NEW r \in Calls, Dispatch(r)
  PROVE  IInv'
<1> USE DEF Dispatch, planVars, histVars
<1>1. /\ UNCHANGED <<planVars, config, request, stage, faults, histVars, worker>>
      /\ call[r] # "idle" /\ call'[r] \in CallState \ {"idle"}
      /\ \A s \in Calls \ {r} : call'[s] = call[s]
      /\ job'[r] \in {job[r], "failed"}
      /\ \A s \in Calls \ {r} : job'[s] = job[s]
  BY DEF Deliver, Undeliver, RefuseCall, IInv, TypeOK, JobsTypeOK, CallState
<1>2. job' \in [Calls -> JobState] /\ call' \in [Calls -> CallState]
  BY DEF Deliver, Undeliver, RefuseCall, IInv, TypeOK, JobsTypeOK, CallState, JobState
<1>3. request[r].pc = "enqueued"
  BY <1>1 DEF IInv, RowsBelongToRequests
<1>4. rq' \in {rq, Append(rq, r), Append(Append(rq, r), r)}
  BY DEF Deliver, Undeliver, RefuseCall
<1>5. rq \in Seq(Calls)
  BY DEF IInv, TypeOK, JobsTypeOK
<1>6. rq' \in Seq(Calls)
  BY <1>4, <1>5
<1>7. TypeOK'
  BY <1>1, <1>2, <1>6 DEF IInv, TypeOK, JobsTypeOK
<1>8. RequestsHoldStoredPlans'
  BY <1>1 DEF IInv, RequestsHoldStoredPlans, PlanOf
<1>9. RowsBelongToRequests'
  BY <1>1, <1>2, <1>3 DEF IInv, RowsBelongToRequests, JobState
<1>10. EntriesHaveRows'
  <2>1. ASSUME NEW i \in 1..Len(rq')
        PROVE  \/ i \in 1..Len(rq) /\ rq'[i] = rq[i]
               \/ rq'[i] = r
    BY <1>4, <1>5
  <2> QED BY <1>1, <1>3, <2>1 DEF IInv, EntriesHaveRows
<1> QED BY <1>1, <1>7, <1>8, <1>9, <1>10, RequestFrame DEF PlanOf

-----------------------------------------------------------------------------
(* A worker between two jobs: no stage is entered and none moves on.       *)

LEMMA ClaimInv ==
  ASSUME IInv, NEW w \in Workers, ClaimApply(w)
  PROVE  IInv'
<1> DEFINE Kept == /\ TypeOK' /\ WorkersHoldEntries' /\ EntriesHaveRows' /\ RowsBelongToRequests'
                   /\ SucceededJobIsSettled'
                   /\ \A r \in Calls : job[r] = "failed" => job'[r] = "failed"
<1> USE DEF ClaimApply, planVars, histVars
<1>1. worker[w].pc \in {"idle", "claimed"} /\ stage[w] = "none"
  BY DEF Claim, RefuseStart, StartJob, IInv, WorkersHoldEntries
<1>2. ASSUME NEW v \in Workers \ {w} PROVE worker'[v] = worker[v]
  BY DEF Claim, RefuseStart, StartJob, IInv, TypeOK, JobsTypeOK
<1>3. /\ \A r \in Calls : PlanOf(r)' = PlanOf(r)
      /\ \A v \in Workers : stage[v] # "none" => PlanAt(v)' = PlanAt(v)
  BY <1>1, <1>2 DEF PlanOf, PlanAt
<1>4. rq # <<>> => /\ Head(rq) \in Calls /\ Tail(rq) \in Seq(Calls)
                   /\ Head(rq) = rq[1] /\ 1 \in 1..Len(rq)
                   /\ Len(Tail(rq)) = Len(rq) - 1
                   /\ \A i \in 1..Len(Tail(rq)) : Tail(rq)[i] = rq[i + 1]
  BY DEF IInv, TypeOK, JobsTypeOK
<1>5. ASSUME Claim(w) PROVE Kept
  <2> USE DEF Claim
  <2>1. worker' \in [Workers -> WorkerState] /\ rq' \in Seq(Calls)
    BY <1>4, <1>5 DEF IInv, TypeOK, JobsTypeOK, WorkerState
  <2>2. TypeOK'
    BY <1>5, <2>1 DEF IInv, TypeOK, JobsTypeOK
  <2>3. WorkersHoldEntries'
    BY <1>2, <1>4, <1>5, <1>1 DEF IInv, TypeOK, JobsTypeOK, EntriesHaveRows, WorkersHoldEntries
  <2>4. EntriesHaveRows'
    <3>1. rq \in Seq(Calls) /\ Len(rq) \in Nat
      BY DEF IInv, TypeOK, JobsTypeOK
    <3> QED BY <1>4, <1>5, <3>1 DEF IInv, EntriesHaveRows
  <2>5. RowsBelongToRequests' /\ SucceededJobIsSettled'
    BY <1>3, <1>5 DEF IInv, RowsBelongToRequests, SucceededJobIsSettled
  <2>6. \A r \in Calls : job[r] = "failed" => job'[r] = "failed"
    BY <1>5
  <2> QED BY <2>2, <2>3, <2>4, <2>5, <2>6
<1>6. ASSUME RefuseStart(w) PROVE Kept
  <2> USE DEF RefuseStart
  <2>1. worker' \in [Workers -> WorkerState]
    BY <1>6 DEF IInv, TypeOK, JobsTypeOK, WorkerState, Idle
  <2>2. TypeOK'
    BY <1>6, <2>1 DEF IInv, TypeOK, JobsTypeOK
  <2>3. WorkersHoldEntries'
    BY <1>1, <1>2, <1>6 DEF IInv, TypeOK, JobsTypeOK, WorkersHoldEntries, Idle
  <2>4. EntriesHaveRows' /\ RowsBelongToRequests' /\ SucceededJobIsSettled'
    BY <1>3, <1>6 DEF IInv, RowsBelongToRequests, SucceededJobIsSettled, EntriesHaveRows
  <2> QED BY <1>6, <2>2, <2>3, <2>4
<1>7. ASSUME StartJob(w) PROVE Kept
  <2> USE DEF StartJob
  <2>1. worker[w].job \in Calls /\ request[worker[w].job].pc = "enqueued"
    BY <1>7, JobOfWorker
  <2>2. job' \in [Calls -> JobState] /\ worker' \in [Workers -> WorkerState]
    <3>1. job' \in [Calls -> JobState]  BY <1>7 DEF IInv, TypeOK, JobsTypeOK, JobState
    <3>2. [worker[w] EXCEPT !.pc = "running"] \in WorkerState
      BY <1>7, <2>1 DEF IInv, TypeOK, JobsTypeOK, WorkerState
    <3> QED  BY <1>7, <3>1, <3>2 DEF IInv, TypeOK, JobsTypeOK
  <2>3. TypeOK'
    BY <1>7, <2>2 DEF IInv, TypeOK, JobsTypeOK
  <2>4. WorkersHoldEntries'
    BY <1>1, <1>2, <1>7, <2>1 DEF IInv, TypeOK, JobsTypeOK, WorkersHoldEntries
  <2>5. EntriesHaveRows' /\ RowsBelongToRequests' /\ SucceededJobIsSettled'
    BY <1>3, <1>7, <2>1 DEF IInv, TypeOK, JobsTypeOK, RowsBelongToRequests,
       SucceededJobIsSettled, EntriesHaveRows
  <2>6. \A r \in Calls : job[r] = "failed" => job'[r] = "failed"
    BY <1>7 DEF IInv, TypeOK, JobsTypeOK
  <2> QED BY <2>3, <2>4, <2>5, <2>6
<1>8. Kept
  BY <1>5, <1>6, <1>7
<1>9. ASSUME NEW v \in Workers PROVE Progress(v)'
  <2>1. CASE stage[v] = "none"
    BY <2>1 DEF Progress, InFlight, Stage
  <2>2. CASE stage[v] # "none"
    BY <1>3, <2>2 DEF IInv, Progress
  <2> QED BY <2>1, <2>2
<1>10. PlansAreDrawn' /\ UnconfirmedPlansAreUntouched' /\ AppliedIsVerified'
  BY DEF IInv, PlansAreDrawn, UnconfirmedPlansAreUntouched, AppliedIsVerified
<1>11. RequestsHoldStoredPlans'
  BY DEF IInv, RequestsHoldStoredPlans, PlanOf
<1>12. OneWorkerPerPlan'
  BY <1>3 DEF IInv, OneWorkerPerPlan, InFlight
<1>13. StrandedPlanIsReported'
  <2>1. \A p \in Plans : Working(p)' = Working(p)
    BY <1>3 DEF Working, InFlight
  <2> QED BY <1>3, <1>8, <2>1 DEF IInv, StrandedPlanIsReported
<1> QED BY <1>8, <1>9, <1>10, <1>11, <1>12, <1>13 DEF IInv

-----------------------------------------------------------------------------
(* ChangeService.apply: one worker's stage and its plan.                   *)

LEMMA ApplyFrame ==
  ASSUME IInv, NEW w \in Workers, worker[w].pc = "running",
         UNCHANGED <<jobsVars, target, previous, desired, request, faults>>,
         \A v \in Workers \ {w} : stage'[v] = stage[v],
         stage'[w] # "none",
         \A p \in Plans \ {PlanAt(w)} : /\ status'[p] = status[p]
                                        /\ pushed'[p] = pushed[p]
                                        /\ undone'[p] = undone[p]
                                        /\ seen'[p] = seen[p],
         status'[PlanAt(w)] \in PlanStatus \ {"none", "previewing"},
         status[PlanAt(w)] \in Settled => status'[PlanAt(w)] = status[PlanAt(w)],
         \* no other worker is on this plan while this one is or becomes one
         \/ stage[w] \in InFlight
         \/ status[PlanAt(w)] # "applying"
         \/ stage'[w] \notin InFlight /\ UNCHANGED <<status, histVars>>,
         status[PlanAt(w)] \in Settled => UNCHANGED histVars,
         TypeOK', Progress(w)',
         status'[PlanAt(w)] = "draft" => UNCHANGED histVars /\ status[PlanAt(w)] = "draft",
         status'[PlanAt(w)] = "applied" /\ status[PlanAt(w)] # "applied" =>
           /\ seen'[PlanAt(w)] = desired[PlanAt(w)]
           /\ pushed'[PlanAt(w)] = 1 /\ undone'[PlanAt(w)] = 0,
         status'[PlanAt(w)] = "applying" => stage'[w] \in InFlight \cup {"raised"}
  PROVE  IInv'
<1> DEFINE p == PlanAt(w)
<1> USE DEF jobsVars, histVars
<1>1. /\ \A r \in Calls : PlanOf(r)' = PlanOf(r)
      /\ \A v \in Workers : PlanAt(v)' = PlanAt(v)
  BY DEF PlanOf, PlanAt
<1>2. p \in Plans /\ status[p] \notin {"none", "previewing"}
  BY PlanOfWorker
<1>3. PlansAreDrawn'
  BY <1>2 DEF IInv, PlansAreDrawn
<1>4. RequestsHoldStoredPlans'
  BY <1>1, PlanOfRequest DEF IInv, RequestsHoldStoredPlans
<1>5. RowsBelongToRequests' /\ EntriesHaveRows' /\ WorkersHoldEntries'
  BY DEF IInv, RowsBelongToRequests, EntriesHaveRows, WorkersHoldEntries
<1>6. ASSUME NEW v \in Workers \ {w}, PlanAt(v) = p, stage[v] \in InFlight
      PROVE  stage'[w] \notin InFlight /\ UNCHANGED <<status, histVars>>
  <2>1. status[p] = "applying"
    BY <1>6 DEF IInv, Progress
  <2>2. stage[w] \notin InFlight
    BY <1>6 DEF IInv, OneWorkerPerPlan
  <2> QED BY <2>1, <2>2
<1>7. ASSUME NEW v \in Workers PROVE Progress(v)'
  <2>1. CASE v = w
    BY <2>1
  <2>2. CASE v # w /\ stage[v] = "none"
    BY <2>2 DEF Progress, InFlight, Stage
  <2>3. CASE v # w /\ stage[v] # "none" /\ PlanAt(v) # p
    <3>1. PlanAt(v) \in Plans \ {p}
      BY <2>3, PlanOfWorker DEF IInv, WorkersHoldEntries
    <3> QED BY <1>1, <2>3, <3>1 DEF IInv, Progress
  <2>4. CASE v # w /\ stage[v] \in InFlight /\ PlanAt(v) = p
    BY <1>1, <1>6, <2>4 DEF IInv, Progress
  <2>5. CASE v # w /\ stage[v] \in {"raised", "done"} /\ PlanAt(v) = p
    BY <1>1, <2>5 DEF IInv, Progress, InFlight, Stage
  <2>6. stage[v] \in Stage
    BY DEF IInv, TypeOK
  <2> QED BY <2>1, <2>2, <2>3, <2>4, <2>5, <2>6 DEF InFlight
<1>8. UnconfirmedPlansAreUntouched'
  <2>1. ASSUME NEW q \in Plans, status'[q] \in {"none", "previewing", "draft"}
        PROVE  pushed'[q] = 0 /\ undone'[q] = 0
    BY <1>2, <2>1 DEF IInv, UnconfirmedPlansAreUntouched
  <2> QED BY <2>1 DEF UnconfirmedPlansAreUntouched
<1>9. AppliedIsVerified'
  <2>1. ASSUME NEW q \in Plans, status'[q] = "applied"
        PROVE  seen'[q] = desired[q] /\ pushed'[q] = 1 /\ undone'[q] = 0
    BY <1>2, <2>1 DEF IInv, AppliedIsVerified, Settled
  <2> QED BY <2>1 DEF AppliedIsVerified
<1>10. OneWorkerPerPlan'
  <2>1. ASSUME NEW u \in Workers, NEW v \in Workers, stage'[u] \in InFlight,
               stage'[v] \in InFlight, PlanAt(u) = PlanAt(v)
        PROVE  u = v
    BY <1>6, <2>1 DEF IInv, OneWorkerPerPlan
  <2> QED BY <1>1, <2>1 DEF OneWorkerPerPlan
<1>11. SucceededJobIsSettled'
  <2>1. ASSUME NEW r \in Calls, job[r] = "succeeded" PROVE status'[PlanOf(r)] \in Settled
    BY <2>1, PlanOfRow, PlanOfRequest DEF IInv, SucceededJobIsSettled
  <2> QED BY <1>1, <2>1 DEF SucceededJobIsSettled
<1>12. StrandedPlanIsReported'
  <2>1. SUFFICES ASSUME NEW q \in Plans, status'[q] = "applying", Working(q)' = {}
                 PROVE  \/ faults'.crashes > 0
                        \/ \E r \in Calls : PlanOf(r) = q /\ job[r] = "failed"
                        \/ \E v \in Workers : stage'[v] = "raised" /\ PlanAt(v) = q
    BY <1>1 DEF StrandedPlanIsReported
  <2>2. CASE q = p
    <3>1. stage'[w] \notin InFlight
      BY <1>1, <2>1, <2>2 DEF Working
    <3> QED BY <2>1, <2>2, <3>1
  <2>3. CASE q # p
    <3>1. status[q] = "applying" /\ Working(q) = {}
      BY <1>1, <2>1, <2>3 DEF Working
    <3>2. ASSUME NEW v \in Workers, stage[v] = "raised", PlanAt(v) = q
          PROVE  stage'[v] = "raised"
      BY <2>3, <3>2
    <3> QED BY <3>1, <3>2 DEF IInv, StrandedPlanIsReported
  <2> QED BY <2>2, <2>3
<1> QED BY <1>3, <1>4, <1>5, <1>7, <1>8, <1>9, <1>10, <1>11, <1>12 DEF IInv

\* A worker with a stage is running its job, and Progress speaks of its plan.
LEMMA WorkerOnPlan ==
  ASSUME IInv, NEW w \in Workers, stage[w] # "none"
  PROVE  /\ worker[w].pc = "running"
         /\ PlanAt(w) \in Plans
         /\ target[PlanAt(w)] \in Devices
         /\ previous[PlanAt(w)] \in DeviceValue
         /\ desired[PlanAt(w)] \in Values
         /\ Progress(w)
BY PlanOfWorker DEF IInv, WorkersHoldEntries

\* Steps that leave the plan's status alone and change its device at most.
LEMMA InFlightFrame ==
  ASSUME IInv, NEW w \in Workers, stage[w] \in InFlight, stage'[w] \in Stage,
         stage'[w] \in InFlight \cup {"raised"},
         UNCHANGED <<jobsVars, planVars, request, faults>>,
         stage' = [stage EXCEPT ![w] = stage'[w]],
         config' \in [Devices -> DeviceValue],
         pushed' \in [Plans -> Nat], undone' \in [Plans -> Nat],
         seen' \in [Plans -> DeviceValue \cup {NoValue}],
         \A p \in Plans \ {PlanAt(w)} : /\ pushed'[p] = pushed[p]
                                        /\ undone'[p] = undone[p]
                                        /\ seen'[p] = seen[p],
         Progress(w)'
  PROVE  IInv'
<1>1. worker[w].pc = "running" /\ PlanAt(w) \in Plans /\ status[PlanAt(w)] = "applying"
  BY WorkerOnPlan DEF InFlight, Progress
<1>2. TypeOK'
  BY DEF IInv, TypeOK, JobsTypeOK, jobsVars, planVars
<1>3. stage'[w] # "none" /\ \A v \in Workers \ {w} : stage'[v] = stage[v]
  BY DEF InFlight, IInv, TypeOK
<1> QED BY <1>1, <1>2, <1>3, ApplyFrame DEF planVars, PlanStatus, Settled

LEMMA BeginApplyInv ==
  ASSUME IInv, NEW w \in Workers, BeginApply(w)
  PROVE  IInv'
<1> DEFINE p == PlanAt(w)
<1>1. p \in Plans /\ status[p] \in PlanStatus \ {"none", "previewing"}
  BY PlanOfWorker DEF BeginApply
<1>2. /\ stage[w] = "none" /\ stage'[w] \in {"confirmed", "raised"}
      /\ stage' = [stage EXCEPT ![w] = stage'[w]]
      /\ \A v \in Workers \ {w} : stage'[v] = stage[v]
  BY DEF BeginApply, Advance, IInv, TypeOK
<1>3. /\ \A q \in Plans \ {p} : status'[q] = status[q]
      /\ \/ status[p] = "draft" /\ status'[p] = "applying"
         \/ UNCHANGED status /\ stage'[w] = "raised"
  BY <1>1 DEF BeginApply, Advance, IInv, TypeOK
<1>4. TypeOK'
  <2>1. status' \in [Plans -> PlanStatus] /\ stage' \in [Workers -> Stage]
    BY <1>2 DEF BeginApply, Advance, IInv, TypeOK, PlanStatus, Stage
  <2> QED BY <2>1 DEF BeginApply, IInv, TypeOK, JobsTypeOK, jobsVars, histVars
<1>5. Progress(w)'
  <2>1. PlanAt(w)' = p /\ UNCHANGED histVars
    BY DEF BeginApply, PlanAt, PlanOf, jobsVars
  <2>2. status[p] = "draft" => pushed[p] = 0 /\ undone[p] = 0
    BY <1>1 DEF IInv, UnconfirmedPlansAreUntouched
  <2>3. CASE stage'[w] = "raised"
    BY <2>3 DEF Progress, InFlight, Stage
  <2>4. CASE stage'[w] = "confirmed"
    <3>1. status[p] = "draft" /\ status'[p] = "applying" /\ pushed'[p] = 0 /\ undone'[p] = 0
      BY <1>3, <2>1, <2>2, <2>4 DEF histVars
    <3> QED BY <2>1, <2>4, <3>1 DEF Progress, InFlight, Stage
  <2> QED BY <1>2, <2>3, <2>4
<1>6. worker[w].pc = "running" /\ UNCHANGED histVars
      /\ UNCHANGED <<jobsVars, target, previous, desired, request, faults>>
  BY DEF BeginApply
<1>7. "applying" \in PlanStatus /\ "applying" \notin Settled /\ "draft" \notin Settled
      /\ "raised" \notin InFlight
  BY DEF PlanStatus, Settled, InFlight
<1> QED BY <1>1, <1>2, <1>3, <1>4, <1>5, <1>6, <1>7, ApplyFrame DEF InFlight, Stage, histVars

LEMMA ConnectInv ==
  ASSUME IInv, NEW w \in Workers, Connect(w) \/ CaptureAfter(w)
  PROVE  IInv'
<1>1. /\ stage[w] \in {"confirmed", "verified"}
      /\ stage' = [stage EXCEPT ![w] = stage'[w]]
      /\ \/ stage[w] = "confirmed" /\ stage'[w] \in {"connected", "undo"}
         \/ stage[w] = "verified" /\ stage'[w] \in {"captured", "raised"}
      /\ UNCHANGED <<jobsVars, planVars, config, request, faults, histVars>>
  BY DEF Connect, CaptureAfter, Advance, IInv, TypeOK
<1>2. PlanAt(w)' = PlanAt(w)
  BY <1>1 DEF PlanAt, PlanOf, jobsVars
<1>3. Progress(w)'
  BY <1>1, <1>2, WorkerOnPlan DEF Progress, InFlight, Stage, planVars, histVars
<1> QED BY <1>1, <1>3, InFlightFrame DEF InFlight, Stage, IInv, TypeOK, histVars

LEMMA SendCommandsInv ==
  ASSUME IInv, NEW w \in Workers, SendCommands(w)
  PROVE  IInv'
<1> DEFINE p == PlanAt(w)
<1>1. /\ stage[w] = "connected" /\ stage'[w] \in {"sent", "undo"}
      /\ stage' = [stage EXCEPT ![w] = stage'[w]]
      /\ UNCHANGED <<jobsVars, planVars, request, faults, undone, seen>>
      /\ pushed' = [pushed EXCEPT ![p] = @ + 1]
  BY DEF SendCommands, Advance, IInv, TypeOK
<1>2. p \in Plans /\ target[p] \in Devices /\ desired[p] \in Values /\ Progress(w)
  BY <1>1, WorkerOnPlan
<1>3. config' \in [Devices -> DeviceValue]
  BY <1>2 DEF SendCommands, IInv, TypeOK, DeviceValue
<1>4. /\ pushed' \in [Plans -> Nat] /\ pushed'[p] = pushed[p] + 1
      /\ \A q \in Plans \ {p} : pushed'[q] = pushed[q]
  BY <1>1, <1>2 DEF IInv, TypeOK
<1>5. PlanAt(w)' = p
  BY <1>1 DEF PlanAt, PlanOf, jobsVars
<1>6. Progress(w)'
  BY <1>1, <1>2, <1>4, <1>5 DEF Progress, InFlight, Stage, planVars
<1> QED BY <1>1, <1>3, <1>4, <1>6, InFlightFrame DEF InFlight, Stage, IInv, TypeOK

LEMMA PostCheckInv ==
  ASSUME IInv, NEW w \in Workers, PostCheck(w)
  PROVE  IInv'
<1> DEFINE p == PlanAt(w)
<1>1. /\ stage[w] = "sent"
      /\ stage' = [stage EXCEPT ![w] = stage'[w]]
      /\ UNCHANGED <<jobsVars, planVars, config, request, faults, pushed, undone>>
  BY DEF PostCheck, Advance, IInv, TypeOK
<1>2. p \in Plans /\ target[p] \in Devices /\ Progress(w)
  BY <1>1, WorkerOnPlan
<1>3. /\ seen' \in [Plans -> DeviceValue \cup {NoValue}]
      /\ \A q \in Plans \ {p} : seen'[q] = seen[q]
      /\ \/ stage'[w] = "verified" /\ seen'[p] = desired[p]
         \/ stage'[w] = "undo"
  BY <1>2 DEF PostCheck, Advance, IInv, TypeOK
<1>4. PlanAt(w)' = p
  BY <1>1 DEF PlanAt, PlanOf, jobsVars
<1>5. Progress(w)'
  BY <1>1, <1>2, <1>3, <1>4 DEF Progress, InFlight, Stage, planVars
<1> QED BY <1>1, <1>3, <1>5, InFlightFrame DEF InFlight, Stage, IInv, TypeOK

LEMMA RollbackInv ==
  ASSUME IInv, NEW w \in Workers, Rollback(w)
  PROVE  IInv'
<1> DEFINE p == PlanAt(w)
<1>1. /\ stage[w] = "undo"
      /\ stage' = [stage EXCEPT ![w] = stage'[w]]
      /\ UNCHANGED <<jobsVars, planVars, request, faults, pushed, seen>>
  BY DEF Rollback, Advance, IInv, TypeOK
<1>2. p \in Plans /\ target[p] \in Devices /\ previous[p] \in DeviceValue /\ Progress(w)
  BY <1>1, WorkerOnPlan
<1>3. config' \in [Devices -> DeviceValue]
  BY <1>2 DEF Rollback, IInv, TypeOK, DeviceValue
<1>4. /\ undone' \in [Plans -> Nat]
      /\ \A q \in Plans \ {p} : undone'[q] = undone[q]
      /\ \/ stage'[w] = "undone" /\ undone'[p] = undone[p] + 1
         \/ stage'[w] = "stranded"
  BY <1>2 DEF Rollback, Advance, IInv, TypeOK
<1>5. PlanAt(w)' = p
  BY <1>1 DEF PlanAt, PlanOf, jobsVars
<1>6. Progress(w)'
  BY <1>1, <1>2, <1>4, <1>5 DEF Progress, InFlight, Stage, planVars
<1> QED BY <1>1, <1>3, <1>4, <1>6, InFlightFrame DEF InFlight, Stage, IInv, TypeOK

LEMMA SettleInv ==
  ASSUME IInv, NEW w \in Workers, Settle(w)
  PROVE  IInv'
<1> DEFINE p == PlanAt(w)
<1>1. DOMAIN Outcome = {"captured", "undone", "stranded"}
  BY DEF Outcome
<1>2. /\ stage[w] \in {"captured", "undone", "stranded"} /\ stage'[w] \in {"done", "raised"}
      /\ stage' = [stage EXCEPT ![w] = stage'[w]]
      /\ \A v \in Workers \ {w} : stage'[v] = stage[v]
      /\ UNCHANGED <<jobsVars, target, previous, desired, config, request, faults, histVars>>
  BY <1>1 DEF Settle, Advance, IInv, TypeOK
<1>3. p \in Plans /\ Progress(w) /\ worker[w].pc = "running"
  BY <1>2, WorkerOnPlan
<1>4. /\ status[p] = "applying"
      /\ status'[p] \in Settled \/ (status'[p] = "applying" /\ stage'[w] = "raised")
      /\ status'[p] = "applied" => stage[w] = "captured"
      /\ \A q \in Plans \ {p} : status'[q] = status[q]
      /\ status' \in [Plans -> PlanStatus]
  <2>1. status[p] = "applying" /\ status \in [Plans -> PlanStatus]
    BY <1>2, <1>3 DEF Progress, InFlight, Stage, IInv, TypeOK
  <2>2. CASE UNCHANGED status /\ stage'[w] = "raised"
    BY <2>1, <2>2
  <2>3. CASE status' = [status EXCEPT ![p] = Outcome[stage[w]]]
    <3>1. /\ Outcome[stage[w]] \in Settled
          /\ Outcome[stage[w]] = "applied" => stage[w] = "captured"
      BY <1>2 DEF Outcome, Settled
    <3> QED BY <1>3, <2>1, <2>3, <3>1 DEF PlanStatus, Settled
  <2>4. Advance(w, stage[w], "raised") => stage'[w] = "raised"
    BY DEF Advance, IInv, TypeOK
  <2> QED BY <2>2, <2>3, <2>4 DEF Settle
<1>5. PlanAt(w)' = p
  BY <1>2 DEF PlanAt, PlanOf, jobsVars
<1>6. Progress(w)'
  BY <1>2, <1>4, <1>5 DEF Progress, InFlight, Stage
<1>7. TypeOK'
  BY <1>2, <1>4 DEF IInv, TypeOK, JobsTypeOK, Stage, jobsVars, histVars
<1>8. stage[w] \in InFlight
  BY <1>2 DEF InFlight, Stage
<1>9. Settled \subseteq PlanStatus \ {"none", "previewing", "draft", "applying"}
  BY DEF Settled, PlanStatus
<1>10. stage[w] = "captured" => seen[p] = desired[p] /\ pushed[p] = 1 /\ undone[p] = 0
  BY <1>3, <1>8 DEF Progress
<1> QED BY <1>2, <1>3, <1>4, <1>6, <1>7, <1>8, <1>9, <1>10, ApplyFrame DEF histVars

-----------------------------------------------------------------------------
(* A worker lets go of its job, ended or crashed; and the environment.     *)

LEMMA ReleaseFrame ==
  ASSUME IInv, NEW w \in Workers, worker[w].pc # "idle",
         worker' = [worker EXCEPT ![w] = Idle],
         stage' = [stage EXCEPT ![w] = "none"],
         UNCHANGED <<rq, call, planVars, config, request, histVars>>,
         TypeOK', RowsBelongToRequests',
         \A r \in Calls : job'[r] = "succeeded" => status[PlanOf(r)] \in Settled,
         \A r \in Calls : job[r] = "failed" => job'[r] = "failed",
         stage[w] \in InFlight \cup {"raised"} =>
           \/ faults'.crashes > 0
           \/ job'[worker[w].job] = "failed"
           \/ status[PlanAt(w)] # "applying",
         faults.crashes > 0 => faults'.crashes > 0
  PROVE  IInv'
<1> USE DEF planVars, histVars
<1>1. /\ worker'[w] = Idle /\ stage'[w] = "none"
      /\ \A v \in Workers \ {w} : worker'[v] = worker[v] /\ stage'[v] = stage[v]
  BY DEF IInv, TypeOK, JobsTypeOK
<1>2. /\ \A r \in Calls : PlanOf(r)' = PlanOf(r)
      /\ \A v \in Workers \ {w} : PlanAt(v)' = PlanAt(v)
  BY <1>1 DEF PlanOf, PlanAt
<1>3. PlansAreDrawn' /\ EntriesHaveRows'
  BY DEF IInv, PlansAreDrawn, EntriesHaveRows
<1>4. RequestsHoldStoredPlans'
  BY <1>2 DEF IInv, RequestsHoldStoredPlans
<1>5. WorkersHoldEntries'
  BY <1>1 DEF IInv, WorkersHoldEntries, Idle
<1>6. ASSUME NEW v \in Workers PROVE Progress(v)'
  <2>1. CASE v = w
    BY <1>1, <2>1 DEF Progress, InFlight, Stage
  <2>2. CASE v # w
    BY <1>1, <1>2, <2>2 DEF IInv, Progress
  <2> QED BY <2>1, <2>2
<1>7. UnconfirmedPlansAreUntouched' /\ AppliedIsVerified'
  BY DEF IInv, UnconfirmedPlansAreUntouched, AppliedIsVerified
<1>8. OneWorkerPerPlan'
  BY <1>1, <1>2 DEF IInv, OneWorkerPerPlan, InFlight
<1>9. SucceededJobIsSettled'
  BY <1>2 DEF SucceededJobIsSettled
<1>10. StrandedPlanIsReported'
  <2>1. SUFFICES ASSUME NEW p \in Plans, status[p] = "applying", Working(p)' = {}
                 PROVE  \/ faults'.crashes > 0
                        \/ \E r \in Calls : PlanOf(r) = p /\ job'[r] = "failed"
                        \/ \E v \in Workers : stage'[v] = "raised" /\ PlanAt(v)' = p
    BY <1>2 DEF StrandedPlanIsReported
  <2>2. CASE PlanAt(w) = p /\ stage[w] \in InFlight \cup {"raised"}
    BY <2>1, <2>2, JobOfWorker DEF PlanAt
  <2>3. CASE ~ (PlanAt(w) = p /\ stage[w] \in InFlight \cup {"raised"})
    <3>1. Working(p) = {}
      BY <1>1, <1>2, <2>1, <2>3 DEF Working
    <3>2. ASSUME NEW v \in Workers, stage[v] = "raised", PlanAt(v) = p
          PROVE  stage'[v] = "raised" /\ PlanAt(v)' = p
      BY <1>1, <1>2, <2>3, <3>2
    <3> QED BY <2>1, <3>1, <3>2 DEF IInv, StrandedPlanIsReported
  <2> QED BY <2>2, <2>3
<1> QED BY <1>2, <1>3, <1>4, <1>5, <1>6, <1>7, <1>8, <1>9, <1>10 DEF IInv

LEMMA FinishApplyInv ==
  ASSUME IInv, NEW w \in Workers, FinishApply(w)
  PROVE  IInv'
<1> DEFINE c == worker[w].job
<1>1. PICK outcome \in {"succeeded", "failed"} :
        /\ EndJob(w, outcome)
        /\ stage[w] \in {"raised", "done"}
        /\ outcome = "succeeded" => stage[w] = "done"
  BY DEF FinishApply
<1>2. /\ worker[w].pc = "running" /\ worker' = [worker EXCEPT ![w] = Idle]
      /\ UNCHANGED <<rq, call, planVars, config, request, faults, histVars>>
      /\ stage' = [stage EXCEPT ![w] = "none"]
  BY <1>1 DEF EndJob, FinishApply
<1>3. c \in Calls /\ request[c].pc = "enqueued" /\ job[c] # "absent"
  BY <1>2, JobOfWorker DEF IInv, RowsBelongToRequests
<1>4. /\ job' \in [Calls -> JobState]
      /\ job'[c] = IF job[c] \in Terminal THEN job[c] ELSE outcome
      /\ \A r \in Calls \ {c} : job'[r] = job[r]
  BY <1>1, <1>3 DEF EndJob, IInv, TypeOK, JobsTypeOK, JobState
<1>5. TypeOK'
  <2>1. worker' \in [Workers -> WorkerState]
    BY <1>2 DEF IInv, TypeOK, JobsTypeOK, WorkerState, Idle
  <2> QED BY <1>2, <1>4, <2>1 DEF IInv, TypeOK, JobsTypeOK, Stage, planVars, histVars
<1>6. RowsBelongToRequests'
  BY <1>1, <1>2, <1>3, <1>4 DEF IInv, RowsBelongToRequests
<1>7. ASSUME NEW r \in Calls, job'[r] = "succeeded" PROVE status[PlanOf(r)] \in Settled
  <2>1. CASE job[r] = "succeeded"
    BY <2>1 DEF IInv, SucceededJobIsSettled
  <2>2. CASE job[r] # "succeeded"
    <3>1. r = c /\ stage[w] = "done"
      BY <1>1, <1>4, <1>7, <2>2 DEF Terminal
    <3> QED BY <1>2, <3>1 DEF IInv, Progress, PlanAt
  <2> QED BY <2>1, <2>2
<1>8. job[c] = "succeeded" => status[PlanAt(w)] \in Settled
  BY <1>3 DEF IInv, SucceededJobIsSettled, PlanAt
<1>9. stage[w] = "raised" => job'[c] = "failed" \/ status[PlanAt(w)] # "applying"
  BY <1>1, <1>3, <1>4, <1>8 DEF Terminal, Settled
<1>10. \A r \in Calls : job[r] = "failed" => job'[r] = "failed"
  BY <1>3, <1>4 DEF Terminal
<1>11. stage[w] \notin InFlight
  BY <1>1 DEF InFlight
<1> QED BY <1>2, <1>5, <1>6, <1>7, <1>9, <1>10, <1>11, ReleaseFrame

LEMMA CrashInv ==
  ASSUME IInv, Crash
  PROVE  IInv'
<1> USE DEF Crash
<1>1. /\ faults' \in [drift: 0..MaxDrift, crashes: 0..MaxCrashes] /\ faults'.crashes > 0
      /\ UNCHANGED <<job, rq, planVars, config, request, histVars>>
  BY PipelineAssumption DEF CallerCrash, WorkerCrash, IInv, TypeOK
<1>2. CASE \E r \in Calls : CallerCrash(r) /\ UNCHANGED stage
  <2> PICK r \in Calls : CallerCrash(r) /\ UNCHANGED stage
    BY <1>2
  <2>1. /\ call' \in [Calls -> CallState] /\ UNCHANGED worker
        /\ call[r] # "idle" /\ call'[r] = "dead"
        /\ \A s \in Calls \ {r} : call'[s] = call[s]
    BY DEF CallerCrash, IInv, TypeOK, JobsTypeOK, CallState
  <2>2. TypeOK'
    BY <1>1, <2>1 DEF IInv, TypeOK, JobsTypeOK, planVars, histVars
  <2>3. RowsBelongToRequests'
    BY <1>1, <2>1 DEF IInv, RowsBelongToRequests
  <2>4. /\ \A s \in Calls : PlanOf(s)' = PlanOf(s)
        /\ \A w \in Workers : PlanAt(w)' = PlanAt(w)
    BY <1>1, <2>1 DEF PlanOf, PlanAt
  <2>5. \A w \in Workers : Progress(w)'
    BY <1>1, <2>4 DEF IInv, Progress, planVars, histVars
  <2>6. PlansAreDrawn' /\ EntriesHaveRows' /\ WorkersHoldEntries'
    BY <1>1, <2>1 DEF IInv, PlansAreDrawn, EntriesHaveRows, WorkersHoldEntries, planVars
  <2>7. RequestsHoldStoredPlans' /\ OneWorkerPerPlan' /\ SucceededJobIsSettled'
    BY <1>1, <2>4 DEF IInv, RequestsHoldStoredPlans, OneWorkerPerPlan, SucceededJobIsSettled,
       planVars
  <2>8. UnconfirmedPlansAreUntouched' /\ AppliedIsVerified'
    BY <1>1 DEF IInv, UnconfirmedPlansAreUntouched, AppliedIsVerified, planVars, histVars
  <2>9. StrandedPlanIsReported'
    BY <1>1 DEF StrandedPlanIsReported
  <2> QED BY <2>2, <2>3, <2>5, <2>6, <2>7, <2>8, <2>9 DEF IInv
<1>3. CASE \E w \in Workers : WorkerCrash(w) /\ stage' = [stage EXCEPT ![w] = "none"]
  <2> PICK w \in Workers : WorkerCrash(w) /\ stage' = [stage EXCEPT ![w] = "none"]
    BY <1>3
  <2>1. /\ worker[w].pc # "idle" /\ worker' = [worker EXCEPT ![w] = Idle]
        /\ UNCHANGED call
    BY DEF WorkerCrash
  <2>2. TypeOK'
    <3>1. worker' \in [Workers -> WorkerState] /\ stage' \in [Workers -> Stage]
      BY <2>1 DEF IInv, TypeOK, JobsTypeOK, WorkerState, Idle, Stage
    <3> QED BY <1>1, <2>1, <3>1 DEF IInv, TypeOK, JobsTypeOK, planVars, histVars
  <2>3. RowsBelongToRequests'
    BY <1>1, <2>1 DEF IInv, RowsBelongToRequests
  <2>4. \A r \in Calls : job'[r] = "succeeded" => status[PlanOf(r)] \in Settled
    BY <1>1 DEF IInv, SucceededJobIsSettled
  <2> QED BY <1>1, <2>1, <2>2, <2>3, <2>4, ReleaseFrame
<1> QED BY <1>2, <1>3

LEMMA DriftInv ==
  ASSUME IInv, NEW d \in Devices, NEW v \in Values, Drift(d, v)
  PROVE  IInv'
<1> USE DEF Drift, jobsVars, planVars, histVars
<1>1. TypeOK'
  <2>1. /\ faults' \in [drift: 0..MaxDrift, crashes: 0..MaxCrashes]
        /\ config' \in [Devices -> DeviceValue]
    BY PipelineAssumption DEF IInv, TypeOK, DeviceValue
  <2> QED BY <2>1 DEF IInv, TypeOK, JobsTypeOK
<1>2. /\ \A r \in Calls : PlanOf(r)' = PlanOf(r)
      /\ \A w \in Workers : PlanAt(w)' = PlanAt(w)
      /\ faults'.crashes = faults.crashes
  BY DEF PlanOf, PlanAt, IInv, TypeOK
<1>3. \A w \in Workers : Progress(w)'
  BY <1>2 DEF IInv, Progress
<1>4. /\ PlansAreDrawn' /\ RowsBelongToRequests' /\ EntriesHaveRows' /\ WorkersHoldEntries'
      /\ UnconfirmedPlansAreUntouched' /\ AppliedIsVerified'
  BY DEF IInv, PlansAreDrawn, RowsBelongToRequests, EntriesHaveRows, WorkersHoldEntries,
     UnconfirmedPlansAreUntouched, AppliedIsVerified
<1>5. RequestsHoldStoredPlans' /\ OneWorkerPerPlan' /\ SucceededJobIsSettled'
  BY <1>2 DEF IInv, RequestsHoldStoredPlans, OneWorkerPerPlan, SucceededJobIsSettled
<1>6. StrandedPlanIsReported'
  <2>1. \A p \in Plans : Working(p)' = Working(p)
    BY <1>2 DEF Working
  <2> QED BY <1>2, <2>1 DEF IInv, StrandedPlanIsReported
<1> QED BY <1>1, <1>3, <1>4, <1>5, <1>6 DEF IInv

-----------------------------------------------------------------------------
(* The invariant of every execution.                                       *)

LEMMA InvInit == Init => IInv
<1> SUFFICES ASSUME Init PROVE IInv
  OBVIOUS
<1> USE DEF Init, JobsInit
<1>1. TypeOK
  BY PipelineAssumption DEF TypeOK, JobsTypeOK, JobState, CallState, WorkerState, Idle,
     PlanStatus, DeviceValue, RequestState, Stage
<1>2. PlansAreDrawn /\ RequestsHoldStoredPlans /\ RowsBelongToRequests /\ EntriesHaveRows
  BY DEF PlansAreDrawn, RequestsHoldStoredPlans, RowsBelongToRequests, EntriesHaveRows
<1>3. WorkersHoldEntries /\ \A w \in Workers : Progress(w)
  BY DEF WorkersHoldEntries, Progress, Idle, InFlight, Stage
<1>4. UnconfirmedPlansAreUntouched /\ OneWorkerPerPlan /\ AppliedIsVerified
  BY DEF UnconfirmedPlansAreUntouched, OneWorkerPerPlan, AppliedIsVerified, InFlight, Stage
<1>5. SucceededJobIsSettled /\ StrandedPlanIsReported
  BY DEF SucceededJobIsSettled, StrandedPlanIsReported
<1> QED BY <1>1, <1>2, <1>3, <1>4, <1>5 DEF IInv

LEMMA InvStutter == IInv /\ UNCHANGED vars => IInv'
<1> SUFFICES ASSUME IInv, UNCHANGED vars PROVE IInv'
  OBVIOUS
<1> USE DEF vars, jobsVars, planVars, histVars
<1>1. /\ \A r \in Calls : PlanOf(r)' = PlanOf(r)
      /\ \A w \in Workers : PlanAt(w)' = PlanAt(w)
  BY DEF PlanOf, PlanAt
<1>2. TypeOK' /\ PlansAreDrawn' /\ RowsBelongToRequests' /\ EntriesHaveRows'
  BY DEF IInv, TypeOK, JobsTypeOK, PlansAreDrawn, RowsBelongToRequests, EntriesHaveRows
<1>3. RequestsHoldStoredPlans' /\ WorkersHoldEntries' /\ \A w \in Workers : Progress(w)'
  BY <1>1 DEF IInv, RequestsHoldStoredPlans, WorkersHoldEntries, Progress
<1>4. UnconfirmedPlansAreUntouched' /\ OneWorkerPerPlan' /\ AppliedIsVerified'
  BY <1>1 DEF IInv, UnconfirmedPlansAreUntouched, OneWorkerPerPlan, AppliedIsVerified
<1>5. SucceededJobIsSettled'
  BY <1>1 DEF IInv, SucceededJobIsSettled
<1>6. StrandedPlanIsReported'
  <2>1. \A p \in Plans : Working(p)' = Working(p)
    BY <1>1 DEF Working
  <2> QED BY <1>1, <2>1 DEF IInv, StrandedPlanIsReported
<1> QED BY <1>2, <1>3, <1>4, <1>5, <1>6 DEF IInv

LEMMA InvNext == IInv /\ [Next]_vars => IInv'
<1> SUFFICES ASSUME IInv, [Next]_vars PROVE IInv'
  OBVIOUS
<1>1. CASE \E p \in Plans, d \in Devices, v \in Values : PreviewRead(p, d, v)
  BY <1>1, PreviewInv
<1>2. CASE \E p \in Plans : PreviewStore(p) \/ PreviewFail(p)
  BY <1>2, PreviewInv
<1>3. CASE \E r \in Calls, p \in Plans : ReadPlan(r, p)
  BY <1>3, RequestInv
<1>4. CASE \E r \in Calls : CheckLock(r) \/ EnqueueApply(r) \/ Dispatch(r)
  BY <1>4, RequestInv, DispatchInv
<1>5. ASSUME NEW w \in Workers, WorkerStep(w) PROVE IInv'
  BY <1>5, ClaimInv, BeginApplyInv, ConnectInv, SendCommandsInv, PostCheckInv, RollbackInv,
     SettleInv, FinishApplyInv DEF WorkerStep
<1>6. CASE \E d \in Devices, v \in Values : Drift(d, v)
  BY <1>6, DriftInv
<1>7. CASE Crash
  BY <1>7, CrashInv
<1>8. CASE UNCHANGED vars
  BY <1>8, InvStutter
<1> QED BY <1>1, <1>2, <1>3, <1>4, <1>5, <1>6, <1>7, <1>8 DEF Next

\* The inductive invariant: what every step of the endpoint, the queue, a
\* worker or the environment preserves.
THEOREM Invariance == Spec => []IInv
BY InvInit, InvNext, PTL DEF Spec

\* Every row, queue entry, plan and device keeps a value its code can hold.
THEOREM TypeCorrectness == Spec => []TypeOK
<1>1. IInv => TypeOK
  BY DEF IInv
<1> QED BY <1>1, Invariance, PTL

\* The plan row's lock and the DRAFT check of ChangeService.apply keep every
\* second worker off a plan, however many entries, clicks or workers there are.
THEOREM MutualExclusion == Spec => []OneWorkerPerPlan
<1>1. IInv => OneWorkerPerPlan
  BY DEF IInv
<1> QED BY <1>1, Invariance, PTL

\* A plan shown as applied was sent once, never undone, and the post-check of
\* its own apply read the desired value.
THEOREM AppliedPlansAreVerified == Spec => []AppliedIsVerified
<1>1. IInv => AppliedIsVerified
  BY DEF IInv
<1> QED BY <1>1, Invariance, PTL

\* A job row that says succeeded stands beside a settled plan.
THEOREM SucceededJobsAreSettled == Spec => []SucceededJobIsSettled
<1>1. IInv => SucceededJobIsSettled
  BY DEF IInv
<1> QED BY <1>1, Invariance, PTL

\* A plan nobody works on any more and that is still APPLYING belongs to a
\* crash or to a job that reports failure.
THEOREM StrandedPlansAreReported == Spec => []StrandedPlanIsReported
<1>1. IInv => StrandedPlanIsReported
  BY DEF IInv
<1> QED BY <1>1, Invariance, PTL

-----------------------------------------------------------------------------
(* Only SendCommands and Rollback touch a device in the program's name.     *)

\* A device changes, drift apart, only while a worker is on a plan of that
\* device that is stored as APPLYING.
THEOREM OnlyConfirmedPlansReachDevices == Spec => OnlyConfirmedPlansConfigure
<1> DEFINE Confirmed ==
      \A d \in Devices :
        config'[d] # config[d] /\ faults' = faults =>
          \E p \in Plans : target[p] = d /\ status[p] = "applying" /\ Working(p) # {}
<1>1. ASSUME IInv, Next PROVE Confirmed
  <2>1. SUFFICES ASSUME NEW d \in Devices, config'[d] # config[d], faults' = faults
                 PROVE  \E p \in Plans :
                          target[p] = d /\ status[p] = "applying" /\ Working(p) # {}
    OBVIOUS
  <2>2. ASSUME NEW w \in Workers, SendCommands(w) \/ Rollback(w)
        PROVE  \E p \in Plans :
                 target[p] = d /\ status[p] = "applying" /\ Working(p) # {}
    <3>1. stage[w] \in {"connected", "undo"}
      BY <2>2 DEF SendCommands, Rollback, Advance
    <3>2. PlanAt(w) \in Plans /\ target[PlanAt(w)] \in Devices
          /\ stage[w] \in InFlight /\ status[PlanAt(w)] = "applying"
      BY <1>1, <3>1, WorkerOnPlan DEF Progress, InFlight, Stage
    <3>3. target[PlanAt(w)] = d
      BY <1>1, <2>1, <2>2, <3>2 DEF SendCommands, Rollback, IInv, TypeOK
    <3>4. w \in Working(PlanAt(w))
      BY <3>2 DEF Working
    <3> QED BY <3>2, <3>3, <3>4
  <2>3. CASE UNCHANGED config
    BY <2>1, <2>3
  <2>4. CASE Crash \/ \E e \in Devices, v \in Values : Drift(e, v)
    <3>1. faults' # faults
      BY <1>1, <2>4 DEF Crash, Drift, IInv, TypeOK
    <3> QED BY <2>1, <3>1
  <2>5. ASSUME NEW w \in Workers, WorkerStep(w)
        PROVE  UNCHANGED config \/ SendCommands(w) \/ Rollback(w)
    BY <2>5 DEF WorkerStep, ClaimApply, BeginApply, Connect, PostCheck, CaptureAfter, Settle,
       FinishApply
  <2>6. CASE \/ \E p \in Plans, e \in Devices, v \in Values : PreviewRead(p, e, v)
             \/ \E p \in Plans : PreviewStore(p) \/ PreviewFail(p)
             \/ \E r \in Calls, p \in Plans : ReadPlan(r, p)
             \/ \E r \in Calls : CheckLock(r) \/ EnqueueApply(r) \/ Dispatch(r)
    <3>1. UNCHANGED config
      BY <2>6 DEF PreviewRead, PreviewStore, PreviewFail, ReadPlan, CheckLock, EnqueueApply,
         Dispatch
    <3> QED BY <2>3, <3>1
  <2> QED BY <1>1, <2>2, <2>3, <2>4, <2>5, <2>6 DEF Next
<1>2. IInv /\ [Next]_vars => [Confirmed]_vars
  BY <1>1
<1>3. Spec => [][Confirmed]_vars
  BY <1>2, Invariance, PTL DEF Spec
<1> QED BY <1>3 DEF OnlyConfirmedPlansConfigure

-----------------------------------------------------------------------------
(* The refinement of ChangePlanLifecycle.                                  *)

abstractVars == <<StoredStatus, pushed, undone>>

\* A step that leaves every status and counter alone is a stutter.
LEMMA LifecycleStutter ==
  ASSUME UNCHANGED <<status, pushed, undone>>
  PROVE  UNCHANGED abstractVars
BY DEF abstractVars, StoredStatus

\* One status changes, among the stored ones: the same move in the abstract.
LEMMA LifecycleMove ==
  ASSUME IInv, NEW p \in Plans, NEW to \in PlanStatus \ {"none", "previewing"},
         status' = [status EXCEPT ![p] = to]
  PROVE  /\ StoredStatus' = [StoredStatus EXCEPT ![p] = to]
         /\ StoredStatus[p] = IF status[p] = "previewing" THEN "none" ELSE status[p]
<1>1. status \in [Plans -> PlanStatus]
  BY DEF IInv, TypeOK
<1> QED BY <1>1 DEF StoredStatus

LEMMA PreviewRefines ==
  ASSUME IInv, NEW p \in Plans,
         \/ \E d \in Devices, v \in Values : PreviewRead(p, d, v)
         \/ PreviewStore(p)
         \/ PreviewFail(p)
  PROVE  Lifecycle!Store(p) \/ UNCHANGED abstractVars
<1>1. CASE (\E d \in Devices, v \in Values : PreviewRead(p, d, v)) \/ PreviewFail(p)
  <2>1. /\ status[p] \in {"none", "previewing"} /\ status'[p] \in {"none", "previewing"}
        /\ \A q \in Plans \ {p} : status'[q] = status[q]
        /\ UNCHANGED <<pushed, undone>>
    BY <1>1 DEF PreviewRead, PreviewFail, histVars, IInv, TypeOK
  <2>2. StoredStatus' = StoredStatus
    BY <2>1 DEF StoredStatus
  <2> QED BY <2>1, <2>2 DEF abstractVars
<1>2. CASE PreviewStore(p)
  <2>1. status' = [status EXCEPT ![p] = "draft"] /\ status[p] = "previewing"
        /\ UNCHANGED <<pushed, undone>>
    BY <1>2 DEF PreviewStore, histVars
  <2>2. StoredStatus' = [StoredStatus EXCEPT ![p] = "draft"] /\ StoredStatus[p] = "none"
    BY <2>1, LifecycleMove DEF PlanStatus
  <2> QED BY <2>1, <2>2 DEF Lifecycle!Store, Lifecycle!Move
<1> QED BY <1>1, <1>2

LEMMA WorkerStepRefines ==
  ASSUME IInv, NEW w \in Workers, WorkerStep(w)
  PROVE  (\E p \in Plans : \/ Lifecycle!Confirm(p) \/ Lifecycle!Push(p)
                           \/ Lifecycle!Undo(p) \/ Lifecycle!Settle(p))
         \/ UNCHANGED abstractVars
<1> DEFINE p == PlanAt(w)
<1> USE DEF histVars, planVars
<1>1. CASE ClaimApply(w) \/ Connect(w) \/ PostCheck(w) \/ CaptureAfter(w) \/ FinishApply(w)
  BY <1>1, LifecycleStutter DEF ClaimApply, Connect, PostCheck, CaptureAfter, FinishApply
<1>2. CASE BeginApply(w)
  <2>1. p \in Plans
    BY <1>2, PlanOfWorker DEF BeginApply
  <2>2. CASE UNCHANGED status
    BY <1>2, <2>2, LifecycleStutter DEF BeginApply
  <2>3. CASE status[p] = "draft" /\ status' = [status EXCEPT ![p] = "applying"]
    <3>1. status' = [status EXCEPT ![p] = "applying"] /\ UNCHANGED <<pushed, undone>>
      BY <1>2, <2>3 DEF BeginApply
    <3>2. StoredStatus' = [StoredStatus EXCEPT ![p] = "applying"] /\ StoredStatus[p] = "draft"
      BY <2>1, <2>3, <3>1, LifecycleMove DEF PlanStatus
    <3>3. Lifecycle!Confirm(p)
      BY <3>1, <3>2 DEF Lifecycle!Confirm, Lifecycle!Move
    <3> QED BY <2>1, <3>3
  <2> QED BY <1>2, <2>2, <2>3 DEF BeginApply
<1>3. ASSUME stage[w] \in InFlight
      PROVE  p \in Plans /\ Progress(w) /\ status[p] = "applying" /\ StoredStatus[p] = "applying"
  BY <1>3, WorkerOnPlan DEF Progress, InFlight, StoredStatus
<1>4. CASE SendCommands(w)
  <2>1. stage[w] = "connected" /\ UNCHANGED <<status, undone>>
        /\ pushed' = [pushed EXCEPT ![p] = @ + 1]
    BY <1>4 DEF SendCommands, Advance
  <2>2. p \in Plans /\ StoredStatus[p] = "applying" /\ pushed[p] = 0 /\ undone[p] = 0
    BY <1>3, <2>1 DEF Progress, InFlight, Stage
  <2>3. Lifecycle!Push(p)
    BY <2>1, <2>2 DEF Lifecycle!Push, StoredStatus, IInv, TypeOK
  <2> QED BY <2>2, <2>3
<1>5. CASE Rollback(w)
  <2>1. stage[w] = "undo" /\ UNCHANGED <<status, pushed>>
        /\ (UNCHANGED undone \/ undone' = [undone EXCEPT ![p] = @ + 1])
    BY <1>5 DEF Rollback, Advance
  <2>2. p \in Plans /\ StoredStatus[p] = "applying" /\ undone[p] = 0
    BY <1>3, <2>1 DEF Progress, InFlight, Stage
  <2>3. CASE UNCHANGED undone
    BY <2>1, <2>3, LifecycleStutter
  <2>4. CASE undone' = [undone EXCEPT ![p] = @ + 1]
    <3>1. Lifecycle!Undo(p)
      BY <2>1, <2>2, <2>4 DEF Lifecycle!Undo, StoredStatus, IInv, TypeOK
    <3> QED BY <2>2, <3>1
  <2> QED BY <2>1, <2>3, <2>4
<1>6. CASE Settle(w)
  <2>0. CASE UNCHANGED status
    BY <1>6, <2>0, LifecycleStutter DEF Settle
  <2> SUFFICES ASSUME ~UNCHANGED status PROVE \E q \in Plans : Lifecycle!Settle(q)
    BY <2>0
  <2>1. /\ stage[w] \in {"captured", "undone", "stranded"}
        /\ status' = [status EXCEPT ![p] = Outcome[stage[w]]]
        /\ UNCHANGED <<pushed, undone>>
    BY <1>6 DEF Settle, Outcome
  <2>2. p \in Plans /\ Progress(w) /\ StoredStatus[p] = "applying" /\ status[p] = "applying"
    BY <1>3, <2>1 DEF InFlight, Stage
  <2>3. Outcome[stage[w]] \in PlanStatus \ {"none", "previewing"}
    BY <2>1 DEF Outcome, PlanStatus
  <2>4. StoredStatus' = [StoredStatus EXCEPT ![p] = Outcome[stage[w]]]
    BY <2>1, <2>2, <2>3, LifecycleMove
  <2>5. \/ Outcome[stage[w]] = "applied" /\ pushed[p] = 1 /\ undone[p] = 0
        \/ Outcome[stage[w]] = "rolled_back" /\ undone[p] = 1
        \/ Outcome[stage[w]] = "rollback_failed"
    BY <2>1, <2>2 DEF Outcome, Progress, InFlight, Stage
  <2>6. Lifecycle!Settle(p)
    BY <2>1, <2>2, <2>4, <2>5 DEF Lifecycle!Settle, Lifecycle!Move
  <2> QED BY <2>2, <2>6
<1> QED BY <1>1, <1>2, <1>4, <1>5, <1>6 DEF WorkerStep

\* The pipeline keeps the promise of ChangePlanLifecycle: a plan is confirmed
\* once, sent at most once, undone at most once, and settled for good.
THEOREM PipelineImplementsLifecycle == Spec => ImplementsLifecycle
<1>1. Init => Lifecycle!Init
  BY DEF Init, Lifecycle!Init, StoredStatus
<1>2. ASSUME IInv, [Next]_vars PROVE [Lifecycle!Next]_abstractVars
  <2>1. CASE (\E r \in Calls, p \in Plans : ReadPlan(r, p))
             \/ (\E r \in Calls : CheckLock(r) \/ EnqueueApply(r) \/ Dispatch(r))
             \/ (\E d \in Devices, v \in Values : Drift(d, v))
             \/ Crash
    BY <2>1, LifecycleStutter DEF ReadPlan, CheckLock, EnqueueApply, Dispatch, Drift, Crash,
       planVars, histVars
  <2>2. CASE (\E p \in Plans, d \in Devices, v \in Values : PreviewRead(p, d, v))
             \/ (\E p \in Plans : PreviewStore(p) \/ PreviewFail(p))
    BY <1>2, <2>2, PreviewRefines DEF Lifecycle!Next
  <2>3. CASE \E w \in Workers : WorkerStep(w)
    BY <1>2, <2>3, WorkerStepRefines DEF Lifecycle!Next
  <2>4. CASE UNCHANGED vars
    BY <2>4, LifecycleStutter DEF vars, planVars, histVars
  <2> QED BY <1>2, <2>1, <2>2, <2>3, <2>4 DEF Next
<1>3. IInv /\ [Next]_vars => [Lifecycle!Next]_Lifecycle!lifecycleVars
  BY <1>2 DEF Lifecycle!lifecycleVars, abstractVars
<1> QED BY <1>1, <1>3, Invariance, PTL DEF Spec, ImplementsLifecycle, Lifecycle!Spec
=============================================================================
