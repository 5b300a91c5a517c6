--------------------------- MODULE TerminalSession ---------------------------
(***************************************************************************)
(* The terminal endpoint: a websocket that asks for Direct Mode, is        *)
(* admitted by the connection gate, opens a shell on a device, relays both *)
(* directions, and cleans up after itself however it ended: a failure, a   *)
(* limit, a client that went away, a task that was cancelled.              *)
(*                                                                         *)
(* Every await of the endpoint is a step boundary here, and a cancellation *)
(* may arrive at each of them.  Work given to a thread goes on when the    *)
(* task that waits for it is cancelled.  The gate is what ConnectionGate   *)
(* promises: a bounded number of terminal permits, each with a ttl.        *)
(***************************************************************************)
EXTENDS SSHPolicy, SSHFailures

CONSTANTS
  Terminals,
  MaxTerminals,   \* terminal permits the gate gives out
  MaxCancels      \* cancellations of one endpoint task (bound of the model)

ASSUME TerminalAssumption ==
  MaxTerminals \in Nat \ {0} /\ MaxCancels \in Nat /\ IsFiniteSet(Terminals)

VARIABLES
  await,          \* the await the endpoint task stands at
  thread,      \* what a thread does with the gate on behalf of the socket
  permit,      \* the permit of s: none, or given back; live; or run out
  mine,        \* mine[s]: the endpoint has it in its variable
  console,     \* the device's console transport, once it is read
  shell,       \* shell[s]: there is a connection to the device
  relaying,    \* relaying[s]: the relays are running
  opened,      \* the terminal was reported open
  login,       \* what the device said of the credential
  report,      \* what the gate was told of it
  detached,    \* a cancellation hit: cleanup is awaited without a shield
  cancels,     \* how often the task was cancelled
  gateDown     \* the gate failed to answer this socket

taskVars == <<thread, permit, mine, detached, cancels, gateDown>>
sessionVars == <<console, relaying, shell, opened, login, report>>
terminalVars == <<await, sessionVars, taskVars>>

-----------------------------------------------------------------------------
Before  == {"closed", "asked", "deciding", "acquiring", "rollback"}
Opening == {"admitted", "parameters", "connecting", "starting", "reporting"}
Ending  == {"failing", "erring"}
Cleanup == {"unrelaying", "unshelling", "auditing", "noting", "hanging up", "releasing"}
Logins  == {"unknown", "accepted", "rejected"}

Transports == {"ssh", "telnet"}
Devices == [mode : Modes, transport : Transports, lab : BOOLEAN]
Deployments == [terminal : BOOLEAN, telnet : BOOLEAN, ssh : Switches]
DirectAcks == [group1 : BOOLEAN, veryOld : BOOLEAN, telnet : BOOLEAN]

\* A shell that could not be started is undone before anything else happens;
\* the endpoint goes on with what made it fail.
Undo == {"undo pty", "undo error", "undo cancel"}

TerminalTypeOK ==
  /\ await \in [Terminals -> Before \cup Opening \cup Undo \cup {"open", "relaying"}
                        \cup Ending \cup Cleanup \cup {"done"}]
  /\ thread \in [Terminals -> {"none", "acquire", "granted", "refused", "release"}]
  /\ permit \in [Terminals -> {"none", "live", "expired"}] /\ mine \in [Terminals -> BOOLEAN]
  /\ console \in [Terminals -> Transports] /\ relaying \in [Terminals -> BOOLEAN]
  /\ shell \in [Terminals -> BOOLEAN] /\ opened \in [Terminals -> BOOLEAN]
  /\ login \in [Terminals -> Logins]
  /\ report \in [Terminals -> {"none", "succeeded", "failed"}]
  /\ detached \in [Terminals -> BOOLEAN] /\ gateDown \in [Terminals -> BOOLEAN]
  /\ cancels \in [Terminals -> 0..MaxCancels]

TerminalInit ==
  /\ await = [s \in Terminals |-> "closed"]
  /\ thread = [s \in Terminals |-> "none"]
  /\ permit = [s \in Terminals |-> "none"]
  /\ mine = [s \in Terminals |-> FALSE]
  /\ console = [s \in Terminals |-> "ssh"]
  /\ shell = [s \in Terminals |-> FALSE]
  /\ relaying = [s \in Terminals |-> FALSE]
  /\ opened = [s \in Terminals |-> FALSE]
  /\ login = [s \in Terminals |-> "unknown"]
  /\ report = [s \in Terminals |-> "none"]
  /\ detached = [s \in Terminals |-> FALSE]
  /\ cancels = [s \in Terminals |-> 0]
  /\ gateDown = [s \in Terminals |-> FALSE]

At(s, from) == await[s] = from
Goto(s, to) == await' = [await EXCEPT ![s] = to]

\* Mutated form: a shell is closed only after it was relayed.
CleanupOf_Relayed(s) == IF relaying[s] THEN "unrelaying" ELSE "auditing"

\* The first thing the cleanup has to wait for
CleanupOf(s) ==
  IF relaying[s] THEN "unrelaying" ELSE IF shell[s] THEN "unshelling" ELSE "auditing"

-----------------------------------------------------------------------------
(* Admission                                                               *)

\* The session cookie and the origin are good; otherwise the socket is closed
\* before it is accepted.
Accept(s) ==
  /\ At(s, "closed") /\ Goto(s, "asked")
  /\ UNCHANGED <<sessionVars, taskVars>>

\* The acknowledgement of Direct Mode arrives, or it does not come in time or
\* is not one; or the client is gone.
Acknowledge(s) ==
  /\ At(s, "asked")
  /\ \E to \in {"deciding", "erring", CleanupOf(s)} : Goto(s, to)
  /\ UNCHANGED <<sessionVars, taskVars>>

\* What the deployment allows of a device and of what the client acknowledged
Decision(device, deployed, ack) ==
  CASE ~deployed.terminal -> "terminal_disabled_by_policy"
    [] deployed.terminal /\ device.transport = "telnet" /\ ~deployed.telnet
         -> "telnet_disabled_by_policy"
    [] deployed.terminal /\ device.transport = "telnet" /\ deployed.telnet /\ ~device.lab
         -> "telnet_requires_lab_device"
    [] deployed.terminal /\ device.transport = "telnet" /\ deployed.telnet /\ device.lab
       /\ ~ack.telnet -> "telnet_direct_mode_required"
    [] OTHER -> TerminalDenial(device.mode, deployed.ssh, ack)

\* The consoles that some deployment opens
Admissible ==
  {device.transport : device \in {d \in Devices :
     \E deployed \in Deployments, ack \in DirectAcks : Decision(d, deployed, ack) = "ok"}}

\* The device is read and the policy asked.  A refusal, an unknown device or
\* a malformed identifier fails before the gate is.
Decide(s) ==
  /\ At(s, "deciding")
  /\ \/ Goto(s, "erring") /\ UNCHANGED <<console, thread>>
     \/ /\ Goto(s, "acquiring")
        /\ \E transport \in Admissible : console' = [console EXCEPT ![s] = transport]
        /\ thread' = [thread EXCEPT ![s] = "acquire"]
  /\ UNCHANGED <<relaying, shell, opened, login, report, permit, mine, detached, cancels, gateDown>>

\* What the gate counts
Counted == Cardinality({t \in Terminals : permit[t] = "live"})

\* The thread in which gate.acquire runs.  The answer of Redis may be lost
\* after the permit was counted.
AcquireRuns(s) ==
  /\ thread[s] = "acquire"
  /\ \/ /\ Counted < MaxTerminals
        /\ thread' = [thread EXCEPT ![s] = "granted"]
        /\ permit' = [permit EXCEPT ![s] = "live"]
        /\ UNCHANGED gateDown
     \/ /\ Counted < MaxTerminals
        /\ thread' = [thread EXCEPT ![s] = "refused"]
        /\ permit' = [permit EXCEPT ![s] = "live"]
        /\ gateDown' = [gateDown EXCEPT ![s] = TRUE]
     \/ /\ thread' = [thread EXCEPT ![s] = "refused"]
        /\ UNCHANGED <<permit, gateDown>>
  /\ UNCHANGED <<await, sessionVars, mine, detached, cancels>>

\* The endpoint takes up the answer.
Acquired(s) ==
  /\ At(s, "acquiring") /\ thread[s] \in {"granted", "refused"}
  /\ Goto(s, IF thread[s] = "granted" THEN "admitted" ELSE "erring")
  /\ mine' = [mine EXCEPT ![s] = thread[s] = "granted"]
  /\ thread' = [thread EXCEPT ![s] = "none"]
  /\ UNCHANGED <<sessionVars, permit, detached, cancels, gateDown>>

\* Mutated form: what a cancelled acquire came to is taken up only if it is a
\* refusal.
Rollback_Refused(s) ==
  /\ At(s, "rollback") /\ thread[s] \in {"refused", "none"}
  /\ thread' = [thread EXCEPT ![s] = "none"]
  /\ Goto(s, "auditing")
  /\ UNCHANGED <<sessionVars, permit, mine, detached, cancels, gateDown>>

\* Mutated form: a refusal is waited for as if it were a permit.
Rollback_Granted(s) ==
  /\ At(s, "rollback") /\ thread[s] = "granted"
  /\ thread' = [thread EXCEPT ![s] = "none"]
  /\ permit' = [permit EXCEPT ![s] = "none"]
  /\ Goto(s, "auditing")
  /\ UNCHANGED <<sessionVars, mine, detached, cancels, gateDown>>

\* Mutated form: a cancelled acquire is not undone.
Rollback_Forget(s) ==
  /\ At(s, "rollback") /\ thread[s] \in {"granted", "refused"}
  /\ thread' = [thread EXCEPT ![s] = "none"]
  /\ Goto(s, "auditing")
  /\ UNCHANGED <<sessionVars, permit, mine, detached, cancels, gateDown>>

\* A cancelled acquire is waited for and its permit given back by a thread,
\* however often the task is cancelled again.
Rollback(s) ==
  /\ At(s, "rollback")
  /\ \/ /\ thread[s] = "granted"
        /\ thread' = [thread EXCEPT ![s] = "release"]
        /\ UNCHANGED await
     \/ /\ thread[s] \in {"refused", "none"}
        /\ thread' = [thread EXCEPT ![s] = "none"]
        /\ Goto(s, "auditing")
  /\ UNCHANGED <<sessionVars, permit, mine, detached, cancels, gateDown>>

\* The thread in which gate.release runs; without Redis only the ttl helps.
ReleaseRuns(s) ==
  /\ thread[s] = "release"
  /\ thread' = [thread EXCEPT ![s] = "none"]
  /\ \/ permit' = [permit EXCEPT ![s] = "none"] /\ UNCHANGED gateDown
     \/ gateDown' = [gateDown EXCEPT ![s] = TRUE] /\ UNCHANGED permit
  /\ UNCHANGED <<await, sessionVars, mine, detached, cancels>>

-----------------------------------------------------------------------------
(* Opening the shell                                                       *)

\* The client is told; a telnet console needs no parameters.
Announce(s) ==
  /\ At(s, "admitted")
  /\ \E to \in {IF console[s] = "telnet" THEN "connecting" ELSE "parameters",
                 "erring", CleanupOf(s)} : Goto(s, to)
  /\ UNCHANGED <<sessionVars, taskVars>>

\* Host key and credential are read for an SSH connection.
ReadParameters(s) ==
  /\ At(s, "parameters")
  /\ \E to \in {"connecting", "erring"} : Goto(s, to)
  /\ UNCHANGED <<sessionVars, taskVars>>

\* Telnet has a console as soon as it is connected; the operator logs in by
\* hand.  SSH authenticates first.
Reached(s) ==
  /\ IF console[s] = "telnet" THEN Goto(s, "reporting") /\ UNCHANGED login
     ELSE Goto(s, "starting") /\ login' = [login EXCEPT ![s] = "accepted"]
  /\ shell' = [shell EXCEPT ![s] = TRUE]

\* A failure with something to tell the gate goes there first.
Unreached(s) ==
  /\ \E exc \in IF console[s] = "telnet" THEN TelnetExceptions ELSE SSHExceptions :
       /\ Goto(s, IF ReportOf(PhaseOf(ConnectionFailure(exc))) = "none" THEN "erring"
                  ELSE "failing")
       /\ login' = [login EXCEPT ![s] = IF exc = "permission denied" THEN "rejected" ELSE @]
  /\ UNCHANGED shell

Connect(s) ==
  /\ At(s, "connecting")
  /\ \/ Reached(s)
     \/ Unreached(s)
  /\ UNCHANGED <<console, relaying, opened, report, taskVars>>

\* create_process
StartShell(s) ==
  /\ At(s, "starting")
  /\ \E to \in {"reporting", "undo pty", "undo error"} : Goto(s, to)
  /\ UNCHANGED <<sessionVars, taskVars>>

\* The connection of a shell that did not start is closed; no cancellation
\* cuts that short.
UndoShell(s) ==
  /\ await[s] \in Undo
  /\ shell' = [shell EXCEPT ![s] = FALSE]
  /\ Goto(s, CASE await[s] = "undo pty"    -> "failing"
               [] await[s] = "undo error"  -> "erring"
               [] await[s] = "undo cancel" -> "auditing")
  /\ UNCHANGED <<console, relaying, opened, login, report, taskVars>>

\* gate.authentication_succeeded, then the event that the terminal is open.
\* The gate or the database may fail.
ReportSuccess(s) ==
  /\ At(s, "reporting")
  /\ \/ /\ report' = [report EXCEPT ![s] = "succeeded"]
        /\ \/ Goto(s, "open") /\ opened' = [opened EXCEPT ![s] = TRUE]
           \/ Goto(s, "erring") /\ UNCHANGED opened
        /\ UNCHANGED gateDown
     \/ /\ Goto(s, "erring") /\ gateDown' = [gateDown EXCEPT ![s] = TRUE]
        /\ UNCHANGED <<report, opened>>
  /\ UNCHANGED <<console, relaying, shell, login, thread, permit, mine, detached, cancels>>

Connected(s) ==
  /\ At(s, "open")
  /\ \/ Goto(s, "relaying") /\ relaying' = [relaying EXCEPT ![s] = TRUE]
     \/ \E to \in {"erring", CleanupOf(s)} : Goto(s, to) /\ UNCHANGED relaying
  /\ UNCHANGED <<console, shell, opened, login, report, taskVars>>

\* The first of the two relays ends: the device closed the session, the client
\* left, or a limit or a fault ends it.  The other one goes on until cleanup.
RelayEnds(s) ==
  /\ At(s, "relaying")
  /\ \E to \in {"erring", CleanupOf(s)} : Goto(s, to)
  /\ UNCHANGED <<sessionVars, taskVars>>

-----------------------------------------------------------------------------
(* Failures and cleanup                                                    *)

\* Only two kinds of failures have something to tell: a refused login and a
\* shell that was refused after it.
FailedPhase(s) == IF login[s] = "rejected" THEN "authentication" ELSE "pty_creation"

\* Mutated form: the phase of the failure is not looked at.
TellGate_AnyPhase(s) ==
  /\ At(s, "failing") /\ Goto(s, "erring")
  /\ report' = [report EXCEPT ![s] = "failed"]
  /\ UNCHANGED <<console, relaying, shell, opened, login, taskVars>>

\* What a failure says of the credential: the authentication phase failed, or
\* it was passed and the shell was refused.
TellGate(s) ==
  /\ At(s, "failing") /\ Goto(s, "erring")
  /\ \/ /\ report' = [report EXCEPT ![s] = ReportOf(FailedPhase(s))]
        /\ UNCHANGED gateDown
     \/ gateDown' = [gateDown EXCEPT ![s] = TRUE] /\ UNCHANGED report
  /\ UNCHANGED <<console, relaying, shell, opened, login, thread, permit, mine, detached, cancels>>

SendError(s) ==
  /\ At(s, "erring") /\ Goto(s, CleanupOf(s))
  /\ UNCHANGED <<sessionVars, taskVars>>

\* The relays are cancelled and waited for.
StopRelays(s) ==
  /\ At(s, "unrelaying") /\ Goto(s, "unshelling")
  /\ relaying' = [relaying EXCEPT ![s] = FALSE]
  /\ UNCHANGED <<console, shell, opened, login, report, taskVars>>

CloseShell(s) ==
  /\ At(s, "unshelling") /\ Goto(s, "auditing")
  /\ shell' = [shell EXCEPT ![s] = FALSE]
  /\ UNCHANGED <<console, relaying, opened, login, report, taskVars>>

\* The audit record and the event that the terminal is closed; their failures
\* are swallowed.
Record(s) ==
  /\ \/ At(s, "auditing") /\ Goto(s, IF opened[s] THEN "noting" ELSE "hanging up")
     \/ At(s, "noting") /\ Goto(s, "hanging up")
  /\ UNCHANGED <<sessionVars, taskVars>>

\* The websocket is closed, then the permit is given back.
HangUp(s) ==
  /\ At(s, "hanging up")
  /\ IF mine[s] THEN Goto(s, "releasing") /\ thread' = [thread EXCEPT ![s] = "release"]
     ELSE Goto(s, "done") /\ UNCHANGED thread
  /\ UNCHANGED <<sessionVars, permit, mine, detached, cancels, gateDown>>

Released(s) ==
  /\ At(s, "releasing") /\ thread[s] = "none" /\ Goto(s, "done")
  /\ mine' = [mine EXCEPT ![s] = FALSE]
  /\ UNCHANGED <<sessionVars, thread, permit, detached, cancels, gateDown>>

-----------------------------------------------------------------------------
(* Cancellation                                                            *)

\* While the endpoint works: it goes to its cleanup, by way of what it has to
\* undo first.  A report in a thread may be made all the same.
CancelWork(s) ==
  /\ await[s] \notin {"closed", "done", "rollback"} \cup Undo \cup Cleanup
  /\ Goto(s, CASE await[s] = "acquiring" -> "rollback"
               [] await[s] = "starting"  -> "undo cancel"
               [] OTHER               -> CleanupOf(s))
  /\ \/ UNCHANGED report
     \/ /\ await[s] = "reporting"
        /\ report' = [report EXCEPT ![s] = "succeeded"]
     \/ /\ await[s] = "failing"
        /\ report' = [report EXCEPT ![s] = ReportOf(FailedPhase(s))]
  /\ UNCHANGED <<shell, detached, thread>>

\* While it waits for an acquire or a close that nothing may cut short.
CancelIgnored(s) ==
  /\ await[s] \in {"rollback"} \cup Undo
  /\ UNCHANGED <<await, shell, report, detached, thread>>

\* The first one during cleanup only ends the shield.
CancelShielded(s) ==
  /\ await[s] \in Cleanup /\ ~detached[s]
  /\ detached' = [detached EXCEPT ![s] = TRUE]
  /\ UNCHANGED <<await, shell, report, thread>>

\* The next one hits the step of the cleanup that is running.  Waiting for the
\* relays and closing the websocket do not survive it; what comes after them
\* is not done.  A thread that has not begun to release does not begin.
CancelCleanup(s) ==
  /\ await[s] \in Cleanup /\ detached[s]
  /\ Goto(s, CASE await[s] \in {"unrelaying", "hanging up"} -> "done"
               [] await[s] = "unshelling" -> "auditing"
               [] await[s] = "auditing"   -> IF opened[s] THEN "noting" ELSE "hanging up"
               [] await[s] = "noting"     -> "hanging up"
               [] await[s] = "releasing"  -> "done")
  /\ shell' = [shell EXCEPT ![s] = @ /\ await[s] # "unshelling"]
  /\ \/ UNCHANGED thread
     \/ await[s] = "releasing" /\ thread' = [thread EXCEPT ![s] = "none"]
  /\ UNCHANGED <<report, detached>>

Cancel(s) ==
  /\ cancels[s] < MaxCancels
  /\ cancels' = [cancels EXCEPT ![s] = @ + 1]
  /\ \/ CancelWork(s)
     \/ CancelIgnored(s)
     \/ CancelShielded(s)
     \/ CancelCleanup(s)
  /\ UNCHANGED <<console, relaying, opened, login, permit, mine, gateDown>>

-----------------------------------------------------------------------------
\* A permit ends with its ttl, wherever its endpoint stands: settings make the
\* ttl as long as connecting, the pty and the session may take together, and
\* count none of the other awaits in.
Expire(s) ==
  /\ permit[s] = "live" /\ permit' = [permit EXCEPT ![s] = "expired"]
  /\ UNCHANGED <<await, sessionVars, thread, mine, detached, cancels, gateDown>>

\* The endpoint task
Work(s) ==
  \/ Acknowledge(s) \/ Decide(s) \/ Acquired(s) \/ Rollback(s)
  \/ Announce(s) \/ ReadParameters(s) \/ Connect(s) \/ StartShell(s)
  \/ UndoShell(s) \/ ReportSuccess(s) \/ Connected(s) \/ RelayEnds(s)
  \/ TellGate(s) \/ SendError(s)
  \/ StopRelays(s) \/ CloseShell(s) \/ Record(s) \/ HangUp(s) \/ Released(s)

Threads(s) == AcquireRuns(s) \/ ReleaseRuns(s)

TerminalNext ==
  \E s \in Terminals : Accept(s) \/ Work(s) \/ Threads(s) \/ Cancel(s) \/ Expire(s)

TerminalSpec == TerminalInit /\ [][TerminalNext]_terminalVars

\* Every await of the endpoint ends, and a thread's call returns: the
\* acknowledgement, the connection, the pty, the session and the closing have
\* timeouts; that Redis, the database and the sends end is an assumption.  A ttl
\* runs out: this is asked of it only once the endpoint is done.
TerminalFairness ==
  \A s \in Terminals : /\ WF_terminalVars(Work(s)) /\ WF_terminalVars(Threads(s))
                       /\ WF_terminalVars(Expire(s) /\ At(s, "done"))

-----------------------------------------------------------------------------
(* Properties                                                              *)

\* Nobody gives the permit of a shell back while the shell is there: whatever is
\* cancelled, and while a connection is being opened or closed, the gate counts
\* it until its ttl runs out.  The exception is a shell whose cleanup a second
\* cancellation cut short.
ShellsAreCounted ==
  \A s \in Terminals : shell[s] /\ await[s] # "done" => permit[s] # "none"

\* A session leaves no permit and no shell behind unless the gate could not be
\* reached or its cleanup was cancelled and then cancelled again: also when a
\* cancellation came while a thread was still acquiring the permit.
OneCancelLeavesNothing ==
  \A s \in Terminals :
    await[s] = "done" /\ (cancels[s] <= 1 \/ ~detached[s]) /\ thread[s] = "none" /\ ~gateDown[s]
      => permit[s] # "live" /\ ~shell[s]

\* A rejected credential never counts as a success and an accepted one never
\* as a failure, and a rejection is only left out if the gate did not answer
\* or the session was cancelled.
LoginsAreReported ==
  \A s \in Terminals :
    /\ login[s] = "rejected" => report[s] # "succeeded"
    /\ login[s] = "accepted" => report[s] # "failed"
    /\ await[s] = "done" /\ login[s] = "rejected" /\ ~gateDown[s] /\ cancels[s] = 0
         => report[s] = "failed"

\* A permit a session took is free again at some time, even if the cleanup was
\* cut short or the gate did not answer.  No endpoint that goes on leaves it to
\* the ttl.
PermitsComeBack == \A s \in Terminals : permit[s] = "live" ~> permit[s] # "live"

\* Every accepted socket ends, whatever is cancelled.
SessionsEnd == \A s \in Terminals : await[s] = "asked" ~> await[s] = "done"
=============================================================================
