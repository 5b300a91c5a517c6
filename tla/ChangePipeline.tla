--------------------------- MODULE ChangePipeline ---------------------------
(***************************************************************************)
(* Structured configuration changes, from the preview to the settled plan: *)
(* ChangeService.preview, the /apply endpoint with its per-device lock,    *)
(* and ChangeService.apply on a worker, with the device whose              *)
(* configuration they read and write.  Jobs supplies the rows, the queue,  *)
(* the API threads and the workers.                                        *)
(*                                                                         *)
(* A device's configuration is one value: what one plan's step touches.    *)
(* Torn is what a batch leaves that stopped halfway.                       *)
(***************************************************************************)
EXTENDS Jobs

CONSTANTS
  Plans, Devices, Values,
  Torn, NoValue, NoDevice, NoPlan,
  MaxDrift,     \* bound on changes made to devices behind the application
  MaxCrashes    \* bound on API and worker crashes

ASSUME PipelineAssumption ==
  /\ Torn \notin Values /\ NoValue \notin Values /\ Torn # NoValue
  /\ NoDevice \notin Devices
  /\ NoPlan \notin Plans
  /\ MaxDrift \in Nat /\ MaxCrashes \in Nat

VARIABLES
  status,     \* plan -> its status; "none" and "previewing" are not yet stored
  target,     \* plan -> its device
  previous,   \* plan -> the value preview read, which the inverse restores
  desired,    \* plan -> the value the rendered commands set
  config,     \* device -> the value it holds
  request,    \* /apply call -> [pc, plan]
  stage,      \* worker -> where ChangeService.apply stands
  faults,     \* [drift, crashes]: how often each has happened
  pushed,     \* history: plan -> times its commands reached its device
  undone,     \* history: plan -> times its inverse did
  seen        \* history: plan -> the value its last post-check read

planVars == <<status, target, previous, desired>>
histVars == <<pushed, undone, seen>>
vars == <<jobsVars, planVars, config, request, stage, faults, histVars>>

PlanStatus == {"none", "previewing", "draft", "applying", "applied",
               "rolled_back", "rollback_failed"}
Settled    == {"applied", "rolled_back", "rollback_failed"}
DeviceValue == Values \cup {Torn}
RequestState == [pc: {"idle"}, plan: {NoPlan}]
                \cup [pc: {"read", "unlocked", "enqueued", "rejected"}, plan: Plans]
Stage == {"none", "confirmed", "connected", "sent", "verified", "captured",
          "undo", "undone", "stranded", "raised", "done"}

TypeOK ==
  /\ JobsTypeOK
  /\ status \in [Plans -> PlanStatus]
  /\ target \in [Plans -> Devices \cup {NoDevice}]
  /\ previous \in [Plans -> DeviceValue \cup {NoValue}]
  /\ desired \in [Plans -> Values \cup {NoValue}]
  /\ config \in [Devices -> DeviceValue]
  /\ request \in [Calls -> RequestState]
  /\ stage \in [Workers -> Stage]
  /\ faults \in [drift: 0..MaxDrift, crashes: 0..MaxCrashes]
  /\ pushed \in [Plans -> Nat]
  /\ undone \in [Plans -> Nat]
  /\ seen \in [Plans -> DeviceValue \cup {NoValue}]

Init ==
  /\ JobsInit
  /\ status = [p \in Plans |-> "none"]
  /\ target = [p \in Plans |-> NoDevice]
  /\ previous = [p \in Plans |-> NoValue]
  /\ desired = [p \in Plans |-> NoValue]
  /\ config \in [Devices -> Values]
  /\ request = [r \in Calls |-> [pc |-> "idle", plan |-> NoPlan]]
  /\ stage = [w \in Workers |-> "none"]
  /\ faults = [drift |-> 0, crashes |-> 0]
  /\ pushed = [p \in Plans |-> 0]
  /\ undone = [p \in Plans |-> 0]
  /\ seen = [p \in Plans |-> NoValue]

-----------------------------------------------------------------------------
(* ChangeService.preview                                                   *)

\* read the device under a permit, validate, render the commands and inverse
PreviewRead(p, d, v) ==
  /\ status[p] = "none"
  /\ status' = [status EXCEPT ![p] = "previewing"]
  /\ target' = [target EXCEPT ![p] = d]
  /\ previous' = [previous EXCEPT ![p] = config[d]]
  /\ desired' = [desired EXCEPT ![p] = v]
  /\ UNCHANGED <<jobsVars, config, request, stage, faults, histVars>>

\* capture the pre-change snapshot, store the plan and its step, commit
PreviewStore(p) ==
  /\ status[p] = "previewing"
  /\ status' = [status EXCEPT ![p] = "draft"]
  /\ UNCHANGED <<jobsVars, target, previous, desired, config, request, stage,
                 faults, histVars>>

\* the snapshot failed: nothing of the plan is stored
PreviewFail(p) ==
  /\ status[p] = "previewing"
  /\ status' = [status EXCEPT ![p] = "none"]
  /\ target' = [target EXCEPT ![p] = NoDevice]
  /\ previous' = [previous EXCEPT ![p] = NoValue]
  /\ desired' = [desired EXCEPT ![p] = NoValue]
  /\ UNCHANGED <<jobsVars, config, request, stage, faults, histVars>>

-----------------------------------------------------------------------------
(* POST /api/change-plans/{id}/apply                                       *)

PlanOf(r) == request[r].plan

\* Load the plan.  The DRAFT check is made on this copy.
ReadPlan(r, p) ==
  /\ request[r].pc = "idle"
  /\ status[p] \notin {"none", "previewing"}
  /\ request' = [request EXCEPT
       ![r] = [pc |-> IF status[p] = "draft" THEN "read" ELSE "rejected", plan |-> p]]
  /\ UNCHANGED <<jobsVars, planVars, config, stage, faults, histVars>>

\* has_active(APPLY_CHANGE, device_id=d)
ActiveOn(d) == {r \in Calls : job[r] \in Active /\ target[PlanOf(r)] = d}

CheckLock(r) ==
  /\ request[r].pc = "read"
  /\ request' = [request EXCEPT
       ![r].pc = IF ActiveOn(target[PlanOf(r)]) = {} THEN "unlocked" ELSE "rejected"]
  /\ UNCHANGED <<jobsVars, planVars, config, stage, faults, histVars>>

\* JobService.enqueue up to its first commit
EnqueueApply(r) ==
  /\ request[r].pc = "unlocked"
  /\ AddJob(r)
  /\ request' = [request EXCEPT ![r].pc = "enqueued"]
  /\ UNCHANGED <<planVars, config, stage, faults, histVars>>

\* the rest of JobService.enqueue
Dispatch(r) ==
  /\ Deliver(r) \/ Undeliver(r) \/ RefuseCall(r)
  /\ UNCHANGED <<planVars, config, request, stage, faults, histVars>>

-----------------------------------------------------------------------------
(* ChangeService.apply on a worker                                         *)

PlanAt(w) == PlanOf(worker[w].job)

Advance(w, from, to) ==
  /\ stage[w] = from
  /\ stage' = [stage EXCEPT ![w] = to]

ClaimApply(w) ==
  /\ Claim(w) \/ RefuseStart(w) \/ StartJob(w)
  /\ UNCHANGED <<planVars, config, request, stage, faults, histVars>>

\* Mutated form: apply without the DRAFT check.
BeginApply_NoCheck(w) ==
  /\ worker[w].pc = "running"
  /\ Advance(w, "none", "confirmed")
  /\ status' = [status EXCEPT ![PlanAt(w)] = "applying"]
  /\ UNCHANGED <<jobsVars, target, previous, desired, config, request, faults, histVars>>

\* Mutated form: APPLYING is not stored before the device is touched.
BeginApply_NoStatus(w) ==
  /\ worker[w].pc = "running"
  /\ status[PlanAt(w)] = "draft"
  /\ Advance(w, "none", "confirmed")
  /\ UNCHANGED <<jobsVars, planVars, config, request, faults, histVars>>

\* Lock the plan row, refuse unless DRAFT, mark it APPLYING, commit; then look
\* up the device, its driver and the step.  The try has not begun yet: what
\* fails here leaves apply, before the commit with the plan in DRAFT and after
\* it with the plan APPLYING.
BeginApply(w) ==
  /\ worker[w].pc = "running"
  /\ \/ /\ status[PlanAt(w)] = "draft"
        /\ \E to \in {"confirmed", "raised"} : Advance(w, "none", to)
        /\ status' = [status EXCEPT ![PlanAt(w)] = "applying"]
     \/ /\ Advance(w, "none", "raised")
        /\ UNCHANGED status
  /\ UNCHANGED <<jobsVars, target, previous, desired, config, request, faults, histVars>>

\* The gate admits the connection and the device answers, or not.  Every
\* exception from here to the post-check ends in _attempt_rollback.
Connect(w) ==
  /\ \E to \in {"connected", "undo"} : Advance(w, "confirmed", to)
  /\ UNCHANGED <<jobsVars, planVars, config, request, faults, histVars>>

\* The device takes the batch, acknowledges it without effect, or stops it:
\* stop_on_failed leaves what came before, a lost session may leave all of it.
SendCommands(w) ==
  LET p == PlanAt(w)
      d == target[p]
  IN  /\ \/ /\ Advance(w, "connected", "sent")
            /\ \E v \in {config[d], desired[p]} : config' = [config EXCEPT ![d] = v]
         \/ /\ Advance(w, "connected", "undo")
            /\ \E v \in {config[d], Torn, desired[p]} : config' = [config EXCEPT ![d] = v]
      /\ pushed' = [pushed EXCEPT ![p] = @ + 1]
      /\ UNCHANGED <<jobsVars, planVars, request, faults, undone, seen>>

\* Mutated form: the device's acknowledgement is taken for the post-check.
PostCheck_Skipped(w) ==
  /\ Advance(w, "sent", "verified")
  /\ seen' = [seen EXCEPT ![PlanAt(w)] = config[target[PlanAt(w)]]]
  /\ UNCHANGED <<jobsVars, planVars, config, request, faults, pushed, undone>>

\* Mutated form: a failed post-check sends the commands again.
PostCheck_Resend(w) ==
  /\ \E to \in {"verified", "connected"} : Advance(w, "sent", to)
  /\ seen' = [seen EXCEPT ![PlanAt(w)] = config[target[PlanAt(w)]]]
  /\ UNCHANGED <<jobsVars, planVars, config, request, faults, pushed, undone>>

\* Read back, leave the connection (which speaks to the gate again) and judge
\* the post-check.
PostCheck(w) ==
  LET p == PlanAt(w)
      d == target[p]
  IN  /\ \/ /\ Advance(w, "sent", "verified")
            /\ config[d] = desired[p]
            /\ seen' = [seen EXCEPT ![p] = config[d]]
         \/ /\ Advance(w, "sent", "undo")
            /\ config[d] # desired[p]
            /\ seen' = [seen EXCEPT ![p] = config[d]]
         \/ /\ Advance(w, "sent", "undo")
            /\ UNCHANGED seen
      /\ UNCHANGED <<jobsVars, planVars, config, request, faults, pushed, undone>>

\* Mutated form: the snapshot's failure is swallowed and apply returns.
CaptureAfter_Swallowed(w) ==
  /\ \E to \in {"captured", "done"} : Advance(w, "verified", to)
  /\ UNCHANGED <<jobsVars, planVars, config, request, faults, histVars>>

\* The post-change snapshot is taken after the try: a refusal here leaves
\* apply by the exception and nothing settles the plan.
CaptureAfter(w) ==
  /\ \E to \in {"captured", "raised"} : Advance(w, "verified", to)
  /\ UNCHANGED <<jobsVars, planVars, config, request, faults, histVars>>

\* _attempt_rollback: a second admission, then the inverse commands
Rollback(w) ==
  LET p == PlanAt(w)
      d == target[p]
  IN  /\ \/ /\ Advance(w, "undo", "stranded")
            /\ UNCHANGED <<config, undone>>
         \/ /\ Advance(w, "undo", "undone")
            /\ \E v \in {config[d], previous[p]} : config' = [config EXCEPT ![d] = v]
            /\ undone' = [undone EXCEPT ![p] = @ + 1]
         \/ /\ Advance(w, "undo", "stranded")
            /\ \E v \in {config[d], Torn, previous[p]} : config' = [config EXCEPT ![d] = v]
            /\ undone' = [undone EXCEPT ![p] = @ + 1]
      /\ UNCHANGED <<jobsVars, planVars, request, faults, pushed, seen>>

Outcome == [captured |-> "applied", undone |-> "rolled_back", stranded |-> "rollback_failed"]

\* Commit the plan's final status, or fail to: no handler is left that would
\* try again.  (FinishApply may fail the job after "done", which is also the
\* commit that took effect and raised.)
Settle(w) ==
  /\ stage[w] \in DOMAIN Outcome
  /\ \/ /\ Advance(w, stage[w], "done")
        /\ status' = [status EXCEPT ![PlanAt(w)] = Outcome[stage[w]]]
     \/ /\ Advance(w, stage[w], "raised")
        /\ UNCHANGED status
  /\ UNCHANGED <<jobsVars, target, previous, desired, config, request, faults, histVars>>

\* Mutated form: the job is marked succeeded whatever apply did.
FinishApply_AlwaysSucceeds(w) ==
  /\ EndJob(w, "succeeded") /\ stage[w] \in {"raised", "done"}
  /\ stage' = [stage EXCEPT ![w] = "none"]
  /\ UNCHANGED <<planVars, config, request, faults, histVars>>

\* The job's last transaction: apply raised, or it returned and the success
\* is recorded, or recording the success failed and the failure is.
FinishApply(w) ==
  /\ \/ EndJob(w, "failed") /\ stage[w] \in {"raised", "done"}
     \/ EndJob(w, "succeeded") /\ stage[w] = "done"
  /\ stage' = [stage EXCEPT ![w] = "none"]
  /\ UNCHANGED <<planVars, config, request, faults, histVars>>

-----------------------------------------------------------------------------
(* The environment                                                         *)

Crash ==
  /\ faults.crashes < MaxCrashes
  /\ faults' = [faults EXCEPT !.crashes = @ + 1]
  /\ \/ \E r \in Calls : CallerCrash(r) /\ UNCHANGED stage
     \/ \E w \in Workers : WorkerCrash(w) /\ stage' = [stage EXCEPT ![w] = "none"]
  /\ UNCHANGED <<planVars, config, request, histVars>>

\* another operator, or the device itself, changes the configuration
Drift(d, v) ==
  /\ faults.drift < MaxDrift
  /\ config[d] # v
  /\ faults' = [faults EXCEPT !.drift = @ + 1]
  /\ config' = [config EXCEPT ![d] = v]
  /\ UNCHANGED <<jobsVars, planVars, request, stage, histVars>>

WorkerStep(w) ==
  \/ ClaimApply(w) \/ BeginApply(w) \/ Connect(w) \/ SendCommands(w)
  \/ PostCheck(w) \/ CaptureAfter(w) \/ Rollback(w) \/ Settle(w) \/ FinishApply(w)

Next ==
  \/ \E p \in Plans, d \in Devices, v \in Values : PreviewRead(p, d, v)
  \/ \E p \in Plans : PreviewStore(p) \/ PreviewFail(p)
  \/ \E r \in Calls, p \in Plans : ReadPlan(r, p)
  \/ \E r \in Calls : CheckLock(r) \/ EnqueueApply(r) \/ Dispatch(r)
  \/ \E w \in Workers : WorkerStep(w)
  \/ \E d \in Devices, v \in Values : Drift(d, v)
  \/ Crash

Spec == Init /\ [][Next]_vars
-----------------------------------------------------------------------------
(* Properties                                                              *)

InFlight == Stage \ {"none", "raised", "done"}
Working(p) == {w \in Workers : stage[w] \in InFlight /\ PlanAt(w) = p}

\* Two clicks, a re-sent queue entry or a second worker may all run one plan's
\* job at once; the row lock and the DRAFT check let one of them through.
OneWorkerPerPlan ==
  \A w1, w2 \in Workers :
    stage[w1] \in InFlight /\ stage[w2] \in InFlight /\ PlanAt(w1) = PlanAt(w2) => w1 = w2

\* A plan is shown as applied only when the post-check of this very apply read
\* the desired value from the device and its inverse never followed.
AppliedIsVerified ==
  \A p \in Plans :
    status[p] = "applied" => seen[p] = desired[p] /\ pushed[p] = 1 /\ undone[p] = 0

\* A job that reports success has left its plan settled: no screen can show a
\* finished job beside a plan that is still moving or was never started.
SucceededJobIsSettled ==
  \A r \in Calls : job[r] = "succeeded" => status[PlanOf(r)] \in Settled

\* A plan left APPLYING with nobody working on it is never silent: a process
\* crashed, or the job that ran the plan says it failed.
StrandedPlanIsReported ==
  \A p \in Plans :
    status[p] = "applying" /\ Working(p) = {} =>
      \/ faults.crashes > 0
      \/ \E r \in Calls : PlanOf(r) = p /\ job[r] = "failed"
      \/ \E w \in Workers : stage[w] = "raised" /\ PlanAt(w) = p

\* The application changes a device only in the name of a plan that was
\* confirmed and is still APPLYING on that device.
OnlyConfirmedPlansConfigure ==
  [][\A d \in Devices :
       config'[d] # config[d] /\ faults' = faults =>
         \E p \in Plans : target[p] = d /\ status[p] = "applying" /\ Working(p) # {}]_vars

\* What is stored of a plan: "previewing" lives in the API thread alone.
StoredStatus == [p \in Plans |-> IF status[p] = "previewing" THEN "none" ELSE status[p]]

Lifecycle == INSTANCE ChangePlanLifecycle WITH status <- StoredStatus

\* The pipeline implements the promise of ChangePlanLifecycle: sent at most
\* once, undone at most once, settled for good.
ImplementsLifecycle == Lifecycle!Spec

\* Threads and workers run on while their process lives; users, devices
\* and crashes owe nothing.
Fairness ==
  /\ \A r \in Calls : WF_vars(Dispatch(r))
  /\ \A w \in Workers : WF_vars(WorkerStep(w))

FairSpec == Spec /\ Fairness

\* Every job row that holds the device lock lets go of it, unless a crash
\* orphaned it: has_active does not refuse a device's changes for ever.
LockIsReleased ==
  \A r \in Calls : job[r] \in Active ~> job[r] \in Terminal \/ faults.crashes > 0

\* An apply answered with 202 is never forgotten: its plan leaves DRAFT, or its
\* job says that it failed.
AcceptedApplyRuns ==
  \A r \in Calls :
    call[r] = "answered" ~>
      \/ faults.crashes > 0
      \/ job[r] = "failed"
      \/ \E p \in Plans : PlanOf(r) = p /\ status[p] # "draft"

-----------------------------------------------------------------------------
(* What the repository's documents and comments say and the code does not  *)
(* do; README.md quotes them.                                              *)

\* "Another APPLY_CHANGE job is active for this device": 409.
DeviceLockIsExclusive ==
  \A r1, r2 \in Calls :
    /\ job[r1] \in Active /\ job[r2] \in Active
    /\ target[PlanOf(r1)] = target[PlanOf(r2)]
    => r1 = r2

\* "It must still end the plan: leaving it APPLYING means the operator's
\* window polls a status that will never arrive."  Stated here of a plan whose
\* change reached the device and passed its post-check.
ApplyingPlanSettles ==
  \A p \in Plans :
    status[p] = "applying" /\ seen[p] = desired[p] ~> status[p] \in Settled

\* "Apply fails before any command reaches the device": no rollback attempted.
NothingSentNothingUndone == \A p \in Plans : undone[p] > 0 => pushed[p] > 0

\* fail and succeed leave a row in one of _TERMINAL_STATES alone.
TerminalJobIsFrozen ==
  [][\A r \in Calls : job[r] \in Terminal => job'[r] = job[r]]_vars
=============================================================================
