----------------------- MODULE TerminalSessionProofs -----------------------
(***************************************************************************)
(* What TLAPS proves of TerminalSession for any number of sockets, of      *)
(* permits and of cancellations.                                           *)
(***************************************************************************)
EXTENDS TerminalSession, TLAPS

-----------------------------------------------------------------------------
(* The inductive invariant: what holds of one socket at each of its awaits. *)

Working == Opening \cup Undo \cup {"open", "relaying", "failing"}

\* Who answers for a permit: nobody yet, a thread that took it or is giving it
\* back, the endpoint's variable, or nobody but the ttl.
Custody(s) ==
  /\ await[s] \in Before => ~mine[s]
  /\ thread[s] \in {"acquire", "granted", "refused"} => await[s] \in {"acquiring", "rollback"}
  /\ thread[s] = "release" => await[s] \in {"rollback", "releasing", "done"}
  /\ thread[s] = "granted" => permit[s] # "none"
  /\ await[s] \in Working \cup {"releasing"} => mine[s]
  /\ mine[s] /\ await[s] \notin {"releasing", "done"} => permit[s] # "none" /\ thread[s] = "none"
  /\ permit[s] = "live" /\ ~mine[s] => thread[s] \in {"granted", "release"} \/ gateDown[s]
  /\ await[s] = "releasing" /\ thread[s] = "none" /\ permit[s] = "live" => gateDown[s]
  /\ detached[s] => cancels[s] >= 1
  /\ await[s] = "done" /\ mine[s] => detached[s] /\ cancels[s] >= 2

\* Where there may be a shell, and relays.
Shells(s) ==
  /\ shell[s] => mine[s]
  /\ shell[s] => await[s] \in {"starting", "reporting", "open", "relaying", "erring",
                            "unrelaying", "unshelling", "done"} \cup Undo
  /\ relaying[s] => await[s] \in {"relaying", "erring", "unrelaying", "done"}
  /\ await[s] = "done" /\ shell[s] => detached[s] /\ cancels[s] >= 2

\* What is known of the credential, and what of it was told.
Told(s) ==
  /\ await[s] \in Before \cup {"admitted", "parameters", "connecting"} => login[s] = "unknown"
  /\ await[s] \in Before \cup Opening \cup Undo \cup {"failing"} => report[s] = "none"
  /\ await[s] \in {"starting", "reporting", "open", "relaying"} \cup Undo => login[s] # "rejected"
  /\ login[s] = "rejected" => report[s] # "succeeded"
  /\ login[s] = "accepted" => report[s] # "failed"
  /\ login[s] = "rejected" /\ await[s] # "failing" /\ ~gateDown[s] /\ cancels[s] = 0
       => report[s] = "failed"

SocketInv(s) == Custody(s) /\ Shells(s) /\ Told(s)

IInv == TerminalTypeOK /\ \A s \in Terminals : SocketInv(s)

\* A step of one socket leaves what the others hold alone.
OthersStay(s) ==
  \A t \in Terminals \ {s} :
    /\ await'[t] = await[t] /\ thread'[t] = thread[t] /\ permit'[t] = permit[t] /\ mine'[t] = mine[t]
    /\ shell'[t] = shell[t] /\ relaying'[t] = relaying[t] /\ login'[t] = login[t]
    /\ report'[t] = report[t] /\ detached'[t] = detached[t] /\ cancels'[t] = cancels[t]
    /\ gateDown'[t] = gateDown[t]

-----------------------------------------------------------------------------
(* Lemmas about the operators.                                             *)

\* Of the failures of a connection, a refused password is the one that is
\* reported, as a failure; a telnet console has none.
LEMMA PasswordIsReported ==
  /\ ReportOf(PhaseOf(ConnectionFailure("permission denied"))) = "failed"
  /\ "permission denied" \in SSHExceptions
  /\ "permission denied" \notin TelnetExceptions
BY DEF ReportOf, PhaseOf, ConnectionFailure, SSHExceptions, TelnetExceptions

\* A console is one of the two transports.
LEMMA ConsolesAreTransports == Admissible \subseteq Transports
BY DEF Admissible, Devices

\* A refused login is reported as a failure, any other as a success.
LEMMA ReportsAreKnown ==
  \A s \in Terminals :
    ReportOf(FailedPhase(s)) = IF login[s] = "rejected" THEN "failed" ELSE "succeeded"
BY DEF ReportOf, FailedPhase

-----------------------------------------------------------------------------
(* Every action keeps the invariant of its socket and leaves the others.   *)

\* The socket is accepted: nothing is held yet.
LEMMA AcceptKeeps ==
  ASSUME TerminalTypeOK, NEW s \in Terminals, SocketInv(s), Accept(s)
  PROVE  TerminalTypeOK' /\ SocketInv(s)' /\ OthersStay(s)
<1> USE DEF At, Goto, Before, Opening, Undo, Ending, Cleanup, Working, sessionVars, taskVars
<1>1. TerminalTypeOK'  BY DEF TerminalTypeOK, Accept
<1>2. Custody(s)'  BY DEF TerminalTypeOK, SocketInv, Custody, Shells, Accept
<1>3. Shells(s)'  BY DEF TerminalTypeOK, SocketInv, Custody, Shells, Accept
<1>4. Told(s)'  BY DEF TerminalTypeOK, SocketInv, Custody, Told, Accept
<1>5. OthersStay(s)  BY DEF TerminalTypeOK, OthersStay, Accept
<1> QED  BY <1>1, <1>2, <1>3, <1>4, <1>5 DEF SocketInv

\* The acknowledgement, or what came in its place.
LEMMA AcknowledgeKeeps ==
  ASSUME TerminalTypeOK, NEW s \in Terminals, SocketInv(s), Acknowledge(s)
  PROVE  TerminalTypeOK' /\ SocketInv(s)' /\ OthersStay(s)
<1> USE DEF At, Goto, Before, Opening, Undo, Ending, Cleanup, Working, sessionVars, taskVars
<1>1. TerminalTypeOK'
  <2>1. PICK to \in {"deciding", "erring", "unrelaying", "unshelling", "auditing"} :
          await' = [await EXCEPT ![s] = to]
    BY DEF Acknowledge, CleanupOf
  <2> QED  BY <2>1 DEF TerminalTypeOK, Acknowledge
<1>2. Custody(s)'  BY DEF TerminalTypeOK, SocketInv, Custody, Shells, Acknowledge, CleanupOf
<1>3. Shells(s)'  BY DEF TerminalTypeOK, SocketInv, Custody, Shells, Acknowledge, CleanupOf
<1>4. Told(s)'  BY DEF TerminalTypeOK, SocketInv, Custody, Told, Acknowledge, CleanupOf
<1>5. OthersStay(s)  BY DEF TerminalTypeOK, OthersStay, Acknowledge, CleanupOf
<1> QED  BY <1>1, <1>2, <1>3, <1>4, <1>5 DEF SocketInv

\* A decision hands the admission to a thread, or fails before it.
LEMMA DecideKeeps ==
  ASSUME TerminalTypeOK, NEW s \in Terminals, SocketInv(s), Decide(s)
  PROVE  TerminalTypeOK' /\ SocketInv(s)' /\ OthersStay(s)
<1> USE DEF At, Goto, Before, Opening, Undo, Ending, Cleanup, Working, sessionVars, taskVars
<1>1. TerminalTypeOK'
  <2>1. CASE Goto(s, "erring") /\ UNCHANGED <<console, thread>>
    BY <2>1 DEF TerminalTypeOK, Decide
  <2>2. CASE /\ Goto(s, "acquiring")
             /\ \E transport \in Admissible : console' = [console EXCEPT ![s] = transport]
             /\ thread' = [thread EXCEPT ![s] = "acquire"]
    <3>1. PICK transport \in Transports : console' = [console EXCEPT ![s] = transport]
      BY <2>2, ConsolesAreTransports
    <3> QED  BY <2>2, <3>1 DEF TerminalTypeOK, Decide
  <2> QED  BY <2>1, <2>2 DEF Decide
<1>0. /\ await[s] = "deciding" /\ ~mine[s]
      /\ UNCHANGED <<permit, mine, detached, cancels, gateDown>>
      /\ \/ await'[s] = "erring" /\ thread' = thread
         \/ await'[s] = "acquiring" /\ thread'[s] = "acquire"
  BY DEF TerminalTypeOK, SocketInv, Custody, Decide
<1>2. Custody(s)'
  <2>1. CASE await'[s] = "erring" /\ thread' = thread  BY <1>0, <2>1 DEF SocketInv, Custody
  <2>2. CASE await'[s] = "acquiring" /\ thread'[s] = "acquire"
    BY <1>0, <2>2 DEF SocketInv, Custody
  <2> QED  BY <1>0, <2>1, <2>2
<1>3. Shells(s)'  BY DEF TerminalTypeOK, SocketInv, Custody, Shells, Decide
<1>4. Told(s)'  BY DEF TerminalTypeOK, SocketInv, Custody, Told, Decide
<1>5. OthersStay(s)  BY DEF TerminalTypeOK, OthersStay, Decide
<1> QED  BY <1>1, <1>2, <1>3, <1>4, <1>5 DEF SocketInv

\* The thread counts a permit, and says so unless the answer is lost.
LEMMA AcquireRunsKeeps ==
  ASSUME TerminalTypeOK, NEW s \in Terminals, SocketInv(s), AcquireRuns(s)
  PROVE  TerminalTypeOK' /\ SocketInv(s)' /\ OthersStay(s)
<1> USE DEF At, Goto, Before, Opening, Undo, Ending, Cleanup, Working, sessionVars, taskVars
<1>1. TerminalTypeOK'  BY DEF TerminalTypeOK, AcquireRuns
<1>0. /\ thread[s] = "acquire" /\ UNCHANGED <<await, mine, detached, cancels>>
      /\ \/ thread'[s] = "granted" /\ permit'[s] = "live" /\ UNCHANGED gateDown
         \/ thread'[s] = "refused" /\ gateDown'[s]
         \/ thread'[s] = "refused" /\ UNCHANGED <<permit, gateDown>>
  BY DEF TerminalTypeOK, AcquireRuns
<1>2. Custody(s)'
  <2>1. await[s] \in {"acquiring", "rollback"} /\ ~mine[s]  BY <1>0 DEF SocketInv, Custody
  <2>2. CASE thread'[s] = "granted" /\ permit'[s] = "live" /\ UNCHANGED gateDown
    BY <1>0, <2>1, <2>2 DEF SocketInv, Custody
  <2>3. CASE thread'[s] = "refused" /\ gateDown'[s]
    BY <1>0, <2>1, <2>3 DEF SocketInv, Custody
  <2>4. CASE thread'[s] = "refused" /\ UNCHANGED <<permit, gateDown>>
    BY <1>0, <2>1, <2>4 DEF SocketInv, Custody
  <2> QED  BY <1>0, <2>2, <2>3, <2>4
<1>3. Shells(s)'  BY DEF TerminalTypeOK, SocketInv, Custody, Shells, AcquireRuns
<1>4. Told(s)'  BY DEF TerminalTypeOK, SocketInv, Custody, Told, AcquireRuns
<1>5. OthersStay(s)
  <2>1. \A t \in Terminals \ {s} :
          thread'[t] = thread[t] /\ permit'[t] = permit[t] /\ gateDown'[t] = gateDown[t]
    BY DEF TerminalTypeOK, AcquireRuns
  <2> QED  BY <2>1 DEF OthersStay, AcquireRuns
<1> QED  BY <1>1, <1>2, <1>3, <1>4, <1>5 DEF SocketInv

\* What the thread says is taken up: the permit is the endpoint's.
LEMMA AcquiredKeeps ==
  ASSUME TerminalTypeOK, NEW s \in Terminals, SocketInv(s), Acquired(s)
  PROVE  TerminalTypeOK' /\ SocketInv(s)' /\ OthersStay(s)
<1> USE DEF At, Goto, Before, Opening, Undo, Ending, Cleanup, Working, sessionVars, taskVars
<1>1. TerminalTypeOK'  BY DEF TerminalTypeOK, Acquired
<1>2. Custody(s)'  BY DEF TerminalTypeOK, SocketInv, Custody, Shells, Acquired
<1>3. Shells(s)'  BY DEF TerminalTypeOK, SocketInv, Custody, Shells, Acquired
<1>4. Told(s)'  BY DEF TerminalTypeOK, SocketInv, Custody, Told, Acquired
<1>5. OthersStay(s)  BY DEF TerminalTypeOK, OthersStay, Acquired
<1> QED  BY <1>1, <1>2, <1>3, <1>4, <1>5 DEF SocketInv

\* A permit that was granted to a cancelled acquire is given back.
LEMMA RollbackKeeps ==
  ASSUME TerminalTypeOK, NEW s \in Terminals, SocketInv(s), Rollback(s)
  PROVE  TerminalTypeOK' /\ SocketInv(s)' /\ OthersStay(s)
<1> USE DEF At, Goto, Before, Opening, Undo, Ending, Cleanup, Working, sessionVars, taskVars
<1>1. TerminalTypeOK'  BY DEF TerminalTypeOK, Rollback
<1>0. ~mine[s] /\ mine' = mine /\ permit' = permit /\ gateDown' = gateDown
      /\ detached' = detached /\ cancels' = cancels
  BY DEF SocketInv, Custody, Rollback
<1>2. Custody(s)'
  <2>1. CASE thread[s] = "granted"
    <3>1. thread'[s] = "release" /\ await'[s] = "rollback"  BY <2>1 DEF TerminalTypeOK, Rollback
    <3> QED  BY <1>0, <3>1, <2>1 DEF TerminalTypeOK, SocketInv, Custody
  <2>2. CASE thread[s] \in {"refused", "none"}
    <3>1. thread'[s] = "none" /\ await'[s] = "auditing"  BY <2>2 DEF TerminalTypeOK, Rollback
    <3> QED  BY <1>0, <3>1, <2>2 DEF TerminalTypeOK, SocketInv, Custody
  <2> QED  BY <2>1, <2>2 DEF Rollback
<1>3. Shells(s)'  BY DEF TerminalTypeOK, SocketInv, Custody, Shells, Rollback
<1>4. Told(s)'  BY DEF TerminalTypeOK, SocketInv, Custody, Told, Rollback
<1>5. OthersStay(s)  BY DEF TerminalTypeOK, OthersStay, Rollback
<1> QED  BY <1>1, <1>2, <1>3, <1>4, <1>5 DEF SocketInv

\* A release frees the permit or the gate is down.
LEMMA ReleaseRunsKeeps ==
  ASSUME TerminalTypeOK, NEW s \in Terminals, SocketInv(s), ReleaseRuns(s)
  PROVE  TerminalTypeOK' /\ SocketInv(s)' /\ OthersStay(s)
<1> USE DEF At, Goto, Before, Opening, Undo, Ending, Cleanup, Working, sessionVars, taskVars
<1>1. TerminalTypeOK'  BY DEF TerminalTypeOK, ReleaseRuns
<1>2. Custody(s)'  BY DEF TerminalTypeOK, SocketInv, Custody, Shells, ReleaseRuns
<1>3. Shells(s)'  BY DEF TerminalTypeOK, SocketInv, Custody, Shells, ReleaseRuns
<1>4. Told(s)'  BY DEF TerminalTypeOK, SocketInv, Custody, Told, ReleaseRuns
<1>5. OthersStay(s)  BY DEF TerminalTypeOK, OthersStay, ReleaseRuns
<1> QED  BY <1>1, <1>2, <1>3, <1>4, <1>5 DEF SocketInv

\* The client is told, or is gone.
LEMMA AnnounceKeeps ==
  ASSUME TerminalTypeOK, NEW s \in Terminals, SocketInv(s), Announce(s)
  PROVE  TerminalTypeOK' /\ SocketInv(s)' /\ OthersStay(s)
<1> USE DEF At, Goto, Before, Opening, Undo, Ending, Cleanup, Working, sessionVars, taskVars
<1>1. TerminalTypeOK'
  <2>1. PICK to \in {"connecting", "parameters", "erring", "unrelaying", "unshelling", "auditing"} :
          await' = [await EXCEPT ![s] = to]
    BY DEF Announce, CleanupOf
  <2> QED  BY <2>1 DEF TerminalTypeOK, Announce
<1>2. Custody(s)'  BY DEF TerminalTypeOK, SocketInv, Custody, Shells, Announce, CleanupOf
<1>3. Shells(s)'  BY DEF TerminalTypeOK, SocketInv, Custody, Shells, Announce, CleanupOf
<1>4. Told(s)'  BY DEF TerminalTypeOK, SocketInv, Custody, Told, Announce, CleanupOf
<1>5. OthersStay(s)  BY DEF TerminalTypeOK, OthersStay, Announce, CleanupOf
<1> QED  BY <1>1, <1>2, <1>3, <1>4, <1>5 DEF SocketInv

\* Parameters are read, or not.
LEMMA ReadParametersKeeps ==
  ASSUME TerminalTypeOK, NEW s \in Terminals, SocketInv(s), ReadParameters(s)
  PROVE  TerminalTypeOK' /\ SocketInv(s)' /\ OthersStay(s)
<1> USE DEF At, Goto, Before, Opening, Undo, Ending, Cleanup, Working, sessionVars, taskVars
<1>1. TerminalTypeOK'
  <2>1. PICK to \in {"connecting", "erring"} : await' = [await EXCEPT ![s] = to]
    BY DEF ReadParameters
  <2> QED  BY <2>1 DEF TerminalTypeOK, ReadParameters
<1>2. Custody(s)'  BY DEF TerminalTypeOK, SocketInv, Custody, Shells, ReadParameters
<1>3. Shells(s)'  BY DEF TerminalTypeOK, SocketInv, Custody, Shells, ReadParameters
<1>4. Told(s)'  BY DEF TerminalTypeOK, SocketInv, Custody, Told, ReadParameters
<1>5. OthersStay(s)  BY DEF TerminalTypeOK, OthersStay, ReadParameters
<1> QED  BY <1>1, <1>2, <1>3, <1>4, <1>5 DEF SocketInv

\* A connection is there with a login, or a failure tells whether the password was refused.
LEMMA ConnectKeeps ==
  ASSUME TerminalTypeOK, NEW s \in Terminals, SocketInv(s), Connect(s)
  PROVE  TerminalTypeOK' /\ SocketInv(s)' /\ OthersStay(s)
<1> USE DEF At, Goto, Before, Opening, Undo, Ending, Cleanup, Working, sessionVars, taskVars
<1>1. CASE Reached(s)
  <2>1. TerminalTypeOK'  BY <1>1 DEF TerminalTypeOK, Logins, Connect, Reached
  <2>0. /\ await[s] = "connecting" /\ await'[s] \in {"reporting", "starting"}
        /\ UNCHANGED <<relaying, taskVars>> /\ mine[s]
    BY <1>1 DEF TerminalTypeOK, SocketInv, Custody, Connect, Reached
  <2>2. Custody(s)' /\ Shells(s)'
    <3>1. Custody(s)'  BY <2>0 DEF SocketInv, Custody
    <3>2. Shells(s)'  BY <2>0 DEF SocketInv, Shells
    <3> QED  BY <3>1, <3>2
  <2>3. Told(s)'  BY <1>1 DEF TerminalTypeOK, SocketInv, Told, Connect, Reached
  <2>4. OthersStay(s)  BY <1>1 DEF TerminalTypeOK, OthersStay, Connect, Reached
  <2> QED  BY <2>1, <2>2, <2>3, <2>4 DEF SocketInv
<1>2. CASE Unreached(s)
  <2>1. PICK exc \in IF console[s] = "telnet" THEN TelnetExceptions ELSE SSHExceptions :
          /\ await' = [await EXCEPT ![s] = IF ReportOf(PhaseOf(ConnectionFailure(exc))) = "none"
                                     THEN "erring" ELSE "failing"]
          /\ login' = [login EXCEPT ![s] = IF exc = "permission denied" THEN "rejected" ELSE @]
    BY <1>2 DEF Unreached
  <2>2. /\ await'[s] \in {"erring", "failing"} /\ \A t \in Terminals \ {s} : await'[t] = await[t]
        /\ login'[s] \in {login[s], "rejected"} /\ \A t \in Terminals \ {s} : login'[t] = login[t]
    BY <2>1 DEF TerminalTypeOK
  <2>3. login'[s] = "rejected" => await'[s] = "failing"
    <3>1. login[s] = "unknown"  BY DEF SocketInv, Told, Connect
    <3>2. CASE exc = "permission denied"
      <4>1. ReportOf(PhaseOf(ConnectionFailure(exc))) = "failed"  BY <3>2, PasswordIsReported
      <4> QED  BY <2>1, <4>1 DEF TerminalTypeOK
    <3>3. CASE exc # "permission denied"  BY <2>1, <3>1, <3>3 DEF TerminalTypeOK
    <3> QED  BY <3>2, <3>3
  <2>4. UNCHANGED <<console, relaying, opened, report, shell, taskVars>>
    BY <1>2 DEF Connect, Unreached
  <2>5. TerminalTypeOK'  BY <2>1, <2>4 DEF TerminalTypeOK, Logins
  <2>6. Custody(s)' /\ Shells(s)'
    BY <2>2, <2>4 DEF TerminalTypeOK, SocketInv, Custody, Shells, Connect
  <2>7. Told(s)'  BY <2>2, <2>3, <2>4 DEF SocketInv, Told, Connect
  <2>8. OthersStay(s)  BY <2>2, <2>4 DEF OthersStay
  <2> QED  BY <2>5, <2>6, <2>7, <2>8 DEF SocketInv
<1> QED  BY <1>1, <1>2 DEF Connect

\* The shell starts, or its connection has to be closed.
LEMMA StartShellKeeps ==
  ASSUME TerminalTypeOK, NEW s \in Terminals, SocketInv(s), StartShell(s)
  PROVE  TerminalTypeOK' /\ SocketInv(s)' /\ OthersStay(s)
<1> USE DEF At, Goto, Before, Opening, Undo, Ending, Cleanup, Working, sessionVars, taskVars
<1>1. TerminalTypeOK'
  <2>1. PICK to \in {"reporting", "undo pty", "undo error"} : await' = [await EXCEPT ![s] = to]
    BY DEF StartShell
  <2> QED  BY <2>1 DEF TerminalTypeOK, StartShell
<1>2. Custody(s)'  BY DEF TerminalTypeOK, SocketInv, Custody, Shells, StartShell
<1>3. Shells(s)'  BY DEF TerminalTypeOK, SocketInv, Custody, Shells, StartShell
<1>4. Told(s)'  BY DEF TerminalTypeOK, SocketInv, Custody, Told, StartShell
<1>5. OthersStay(s)  BY DEF TerminalTypeOK, OthersStay, StartShell
<1> QED  BY <1>1, <1>2, <1>3, <1>4, <1>5 DEF SocketInv

\* The connection of a shell that did not start is closed.
LEMMA UndoShellKeeps ==
  ASSUME TerminalTypeOK, NEW s \in Terminals, SocketInv(s), UndoShell(s)
  PROVE  TerminalTypeOK' /\ SocketInv(s)' /\ OthersStay(s)
<1> USE DEF At, Goto, Before, Opening, Undo, Ending, Cleanup, Working, sessionVars, taskVars
<1>1. TerminalTypeOK'  BY DEF TerminalTypeOK, UndoShell
<1>2. Custody(s)'  BY DEF TerminalTypeOK, SocketInv, Custody, Shells, UndoShell
<1>3. Shells(s)'  BY DEF TerminalTypeOK, SocketInv, Custody, Shells, UndoShell
<1>4. Told(s)'  BY DEF TerminalTypeOK, SocketInv, Custody, Told, UndoShell
<1>5. OthersStay(s)  BY DEF TerminalTypeOK, OthersStay, UndoShell
<1> QED  BY <1>1, <1>2, <1>3, <1>4, <1>5 DEF SocketInv

\* The gate is told of a login that was accepted.
LEMMA ReportSuccessKeeps ==
  ASSUME TerminalTypeOK, NEW s \in Terminals, SocketInv(s), ReportSuccess(s)
  PROVE  TerminalTypeOK' /\ SocketInv(s)' /\ OthersStay(s)
<1> USE DEF At, Goto, Before, Opening, Undo, Ending, Cleanup, Working, sessionVars, taskVars
<1>1. TerminalTypeOK'  BY DEF TerminalTypeOK, ReportSuccess
<1>2. Custody(s)'  BY DEF TerminalTypeOK, SocketInv, Custody, Shells, ReportSuccess
<1>3. Shells(s)'  BY DEF TerminalTypeOK, SocketInv, Custody, Shells, ReportSuccess
<1>4. Told(s)'
  <2>1. /\ await[s] = "reporting" /\ await'[s] \in {"open", "erring"} /\ UNCHANGED <<login, cancels>>
        /\ report'[s] = "succeeded" \/ UNCHANGED report
    <3>1. /\ await[s] = "reporting" /\ UNCHANGED <<login, cancels>>
          /\ Goto(s, "open") \/ Goto(s, "erring")
          /\ report' = [report EXCEPT ![s] = "succeeded"] \/ UNCHANGED report
      BY DEF ReportSuccess
    <3> QED  BY <3>1 DEF TerminalTypeOK
  <2> QED  BY <2>1 DEF SocketInv, Told
<1>5. OthersStay(s)
  <2>1. \A t \in Terminals \ {s} :
          await'[t] = await[t] /\ report'[t] = report[t] /\ gateDown'[t] = gateDown[t]
    BY DEF TerminalTypeOK, ReportSuccess
  <2> QED  BY <2>1 DEF OthersStay, ReportSuccess
<1> QED  BY <1>1, <1>2, <1>3, <1>4, <1>5 DEF SocketInv

\* The relays start, or the client is gone.
LEMMA ConnectedKeeps ==
  ASSUME TerminalTypeOK, NEW s \in Terminals, SocketInv(s), Connected(s)
  PROVE  TerminalTypeOK' /\ SocketInv(s)' /\ OthersStay(s)
<1> USE DEF At, Goto, Before, Opening, Undo, Ending, Cleanup, Working, sessionVars, taskVars
<1>0. PICK to \in {"relaying", "erring", "unrelaying", "unshelling", "auditing"} :
        await' = [await EXCEPT ![s] = to]
  BY DEF Connected, CleanupOf
<1>1. TerminalTypeOK'
  <2>1. relaying' \in [Terminals -> BOOLEAN]  BY DEF TerminalTypeOK, Connected
  <2> QED  BY <1>0, <2>1 DEF TerminalTypeOK, Connected
<1>2. Custody(s)'  BY DEF TerminalTypeOK, SocketInv, Custody, Shells, Connected, CleanupOf
<1>3. Shells(s)'  BY DEF TerminalTypeOK, SocketInv, Custody, Shells, Connected, CleanupOf
<1>4. Told(s)'
  <2>1. /\ await[s] = "open" /\ UNCHANGED <<login, report, gateDown, cancels>>
        /\ await'[s] \in {"relaying", "erring", "unrelaying", "unshelling", "auditing"}
    BY <1>0 DEF TerminalTypeOK, Connected
  <2> QED  BY <2>1 DEF SocketInv, Told
<1>5. OthersStay(s)  BY DEF TerminalTypeOK, OthersStay, Connected, CleanupOf
<1> QED  BY <1>1, <1>2, <1>3, <1>4, <1>5 DEF SocketInv

\* One of the relays ends.
LEMMA RelayEndsKeeps ==
  ASSUME TerminalTypeOK, NEW s \in Terminals, SocketInv(s), RelayEnds(s)
  PROVE  TerminalTypeOK' /\ SocketInv(s)' /\ OthersStay(s)
<1> USE DEF At, Goto, Before, Opening, Undo, Ending, Cleanup, Working, sessionVars, taskVars
<1>1. TerminalTypeOK'
  <2>1. PICK to \in {"erring", "unrelaying", "unshelling", "auditing"} :
          await' = [await EXCEPT ![s] = to]
    BY DEF RelayEnds, CleanupOf
  <2> QED  BY <2>1 DEF TerminalTypeOK, RelayEnds
<1>2. Custody(s)'  BY DEF TerminalTypeOK, SocketInv, Custody, Shells, RelayEnds, CleanupOf
<1>3. Shells(s)'  BY DEF TerminalTypeOK, SocketInv, Custody, Shells, RelayEnds, CleanupOf
<1>4. Told(s)'  BY DEF TerminalTypeOK, SocketInv, Custody, Told, RelayEnds, CleanupOf
<1>5. OthersStay(s)  BY DEF TerminalTypeOK, OthersStay, RelayEnds, CleanupOf
<1> QED  BY <1>1, <1>2, <1>3, <1>4, <1>5 DEF SocketInv

\* The gate is told what the failure says of the credential.
LEMMA TellGateKeeps ==
  ASSUME TerminalTypeOK, NEW s \in Terminals, SocketInv(s), TellGate(s)
  PROVE  TerminalTypeOK' /\ SocketInv(s)' /\ OthersStay(s)
<1> USE DEF At, Goto, Before, Opening, Undo, Ending, Cleanup, Working, sessionVars, taskVars
<1>1. TerminalTypeOK'
  <2>1. ReportOf(FailedPhase(s)) \in {"none", "succeeded", "failed"}  BY ReportsAreKnown
  <2>2. report' \in [Terminals -> {"none", "succeeded", "failed"}]
    BY <2>1 DEF TerminalTypeOK, TellGate
  <2>3. gateDown' \in [Terminals -> BOOLEAN]  BY DEF TerminalTypeOK, TellGate
  <2> QED  BY <2>2, <2>3 DEF TerminalTypeOK, TellGate
<1>2. Custody(s)'  BY ReportsAreKnown DEF TerminalTypeOK, SocketInv, Custody, Shells, TellGate, FailedPhase
<1>3. Shells(s)'  BY ReportsAreKnown DEF TerminalTypeOK, SocketInv, Custody, Shells, TellGate, FailedPhase
<1>4. Told(s)'  BY ReportsAreKnown DEF TerminalTypeOK, SocketInv, Custody, Told, TellGate, FailedPhase
<1>5. OthersStay(s)  BY ReportsAreKnown DEF TerminalTypeOK, OthersStay, TellGate, FailedPhase
<1> QED  BY <1>1, <1>2, <1>3, <1>4, <1>5 DEF SocketInv

\* The client is told of the failure.
LEMMA SendErrorKeeps ==
  ASSUME TerminalTypeOK, NEW s \in Terminals, SocketInv(s), SendError(s)
  PROVE  TerminalTypeOK' /\ SocketInv(s)' /\ OthersStay(s)
<1> USE DEF At, Goto, Before, Opening, Undo, Ending, Cleanup, Working, sessionVars, taskVars
<1>1. TerminalTypeOK'  BY DEF TerminalTypeOK, SendError, CleanupOf
<1>2. Custody(s)'  BY DEF TerminalTypeOK, SocketInv, Custody, Shells, SendError, CleanupOf
<1>3. Shells(s)'  BY DEF TerminalTypeOK, SocketInv, Custody, Shells, SendError, CleanupOf
<1>4. Told(s)'  BY DEF TerminalTypeOK, SocketInv, Custody, Told, SendError, CleanupOf
<1>5. OthersStay(s)  BY DEF TerminalTypeOK, OthersStay, SendError, CleanupOf
<1> QED  BY <1>1, <1>2, <1>3, <1>4, <1>5 DEF SocketInv

\* The relays are stopped.
LEMMA StopRelaysKeeps ==
  ASSUME TerminalTypeOK, NEW s \in Terminals, SocketInv(s), StopRelays(s)
  PROVE  TerminalTypeOK' /\ SocketInv(s)' /\ OthersStay(s)
<1> USE DEF At, Goto, Before, Opening, Undo, Ending, Cleanup, Working, sessionVars, taskVars
<1>1. TerminalTypeOK'  BY DEF TerminalTypeOK, StopRelays
<1>2. Custody(s)'  BY DEF TerminalTypeOK, SocketInv, Custody, Shells, StopRelays
<1>3. Shells(s)'  BY DEF TerminalTypeOK, SocketInv, Custody, Shells, StopRelays
<1>4. Told(s)'  BY DEF TerminalTypeOK, SocketInv, Custody, Told, StopRelays
<1>5. OthersStay(s)  BY DEF TerminalTypeOK, OthersStay, StopRelays
<1> QED  BY <1>1, <1>2, <1>3, <1>4, <1>5 DEF SocketInv

\* The shell is closed.
LEMMA CloseShellKeeps ==
  ASSUME TerminalTypeOK, NEW s \in Terminals, SocketInv(s), CloseShell(s)
  PROVE  TerminalTypeOK' /\ SocketInv(s)' /\ OthersStay(s)
<1> USE DEF At, Goto, Before, Opening, Undo, Ending, Cleanup, Working, sessionVars, taskVars
<1>1. TerminalTypeOK'  BY DEF TerminalTypeOK, CloseShell
<1>2. Custody(s)'  BY DEF TerminalTypeOK, SocketInv, Custody, Shells, CloseShell
<1>3. Shells(s)'  BY DEF TerminalTypeOK, SocketInv, Custody, Shells, CloseShell
<1>4. Told(s)'  BY DEF TerminalTypeOK, SocketInv, Custody, Told, CloseShell
<1>5. OthersStay(s)  BY DEF TerminalTypeOK, OthersStay, CloseShell
<1> QED  BY <1>1, <1>2, <1>3, <1>4, <1>5 DEF SocketInv

\* What happened is recorded.
LEMMA RecordKeeps ==
  ASSUME TerminalTypeOK, NEW s \in Terminals, SocketInv(s), Record(s)
  PROVE  TerminalTypeOK' /\ SocketInv(s)' /\ OthersStay(s)
<1> USE DEF At, Goto, Before, Opening, Undo, Ending, Cleanup, Working, sessionVars, taskVars
<1>1. TerminalTypeOK'  BY DEF TerminalTypeOK, Record
<1>0. /\ await[s] \in {"auditing", "noting"} /\ await'[s] \in {"noting", "hanging up"}
      /\ UNCHANGED <<sessionVars, taskVars>>
  BY DEF TerminalTypeOK, Record
<1>2. Custody(s)'  BY <1>0 DEF SocketInv, Custody
<1>3. Shells(s)'  BY <1>0 DEF SocketInv, Shells
<1>4. Told(s)'  BY <1>0 DEF SocketInv, Told
<1>5. OthersStay(s)  BY DEF TerminalTypeOK, OthersStay, Record
<1> QED  BY <1>1, <1>2, <1>3, <1>4, <1>5 DEF SocketInv

\* The socket is closed; a permit that is still held is given to a thread to release.
LEMMA HangUpKeeps ==
  ASSUME TerminalTypeOK, NEW s \in Terminals, SocketInv(s), HangUp(s)
  PROVE  TerminalTypeOK' /\ SocketInv(s)' /\ OthersStay(s)
<1> USE DEF At, Goto, Before, Opening, Undo, Ending, Cleanup, Working, sessionVars, taskVars
<1>1. TerminalTypeOK'  BY DEF TerminalTypeOK, HangUp
<1>2. Custody(s)'
  <2>1. /\ await[s] = "hanging up" /\ UNCHANGED <<permit, mine, detached, cancels, gateDown>>
        /\ \/ mine[s] /\ await'[s] = "releasing" /\ thread'[s] = "release"
           \/ ~mine[s] /\ await'[s] = "done" /\ thread' = thread
    BY DEF TerminalTypeOK, HangUp
  <2>2. CASE mine[s] /\ await'[s] = "releasing" /\ thread'[s] = "release"
    BY <2>1, <2>2 DEF SocketInv, Custody
  <2>3. CASE ~mine[s] /\ await'[s] = "done" /\ thread' = thread
    BY <2>1, <2>3 DEF SocketInv, Custody
  <2> QED  BY <2>1, <2>2, <2>3
<1>3. Shells(s)'  BY DEF TerminalTypeOK, SocketInv, Custody, Shells, HangUp
<1>4. Told(s)'
  <2>1. /\ await[s] = "hanging up" /\ await'[s] \in {"releasing", "done"}
        /\ UNCHANGED <<login, report, gateDown, cancels>>
    BY DEF TerminalTypeOK, HangUp
  <2> QED  BY <2>1 DEF SocketInv, Told
<1>5. OthersStay(s)  BY DEF TerminalTypeOK, OthersStay, HangUp
<1> QED  BY <1>1, <1>2, <1>3, <1>4, <1>5 DEF SocketInv

\* The release was waited for.
LEMMA ReleasedKeeps ==
  ASSUME TerminalTypeOK, NEW s \in Terminals, SocketInv(s), Released(s)
  PROVE  TerminalTypeOK' /\ SocketInv(s)' /\ OthersStay(s)
<1> USE DEF At, Goto, Before, Opening, Undo, Ending, Cleanup, Working, sessionVars, taskVars
<1>1. TerminalTypeOK'  BY DEF TerminalTypeOK, Released
<1>2. Custody(s)'  BY DEF TerminalTypeOK, SocketInv, Custody, Shells, Released
<1>3. Shells(s)'  BY DEF TerminalTypeOK, SocketInv, Custody, Shells, Released
<1>4. Told(s)'  BY DEF TerminalTypeOK, SocketInv, Custody, Told, Released
<1>5. OthersStay(s)  BY DEF TerminalTypeOK, OthersStay, Released
<1> QED  BY <1>1, <1>2, <1>3, <1>4, <1>5 DEF SocketInv

\* A permit runs out, wherever its endpoint stands.
LEMMA ExpireKeeps ==
  ASSUME TerminalTypeOK, NEW s \in Terminals, SocketInv(s), Expire(s)
  PROVE  TerminalTypeOK' /\ SocketInv(s)' /\ OthersStay(s)
<1> USE DEF At, Goto, Before, Opening, Undo, Ending, Cleanup, Working, sessionVars, taskVars
<1>1. TerminalTypeOK'  BY DEF TerminalTypeOK, Expire
<1>2. Custody(s)'  BY DEF TerminalTypeOK, SocketInv, Custody, Shells, Expire
<1>3. Shells(s)'  BY DEF TerminalTypeOK, SocketInv, Custody, Shells, Expire
<1>4. Told(s)'  BY DEF TerminalTypeOK, SocketInv, Custody, Told, Expire
<1>5. OthersStay(s)  BY DEF TerminalTypeOK, OthersStay, Expire
<1> QED  BY <1>1, <1>2, <1>3, <1>4, <1>5 DEF SocketInv

\* A cancellation is counted, and the count stays in its bound.
LEMMA CancelCounts ==
  ASSUME TerminalTypeOK, NEW s \in Terminals, Cancel(s)
  PROVE  /\ cancels[s] \in Nat /\ cancels'[s] \in Nat
         /\ cancels'[s] # 0 /\ cancels'[s] >= 1 /\ (cancels[s] >= 1 => cancels'[s] >= 2)
         /\ cancels' \in [Terminals -> 0..MaxCancels]
         /\ \A t \in Terminals \ {s} : cancels'[t] = cancels[t]
<1>1. cancels \in [Terminals -> 0..MaxCancels]  BY DEF TerminalTypeOK
<1>2. MaxCancels \in Nat  BY TerminalAssumption
<1>3. cancels[s] \in Nat /\ cancels[s] < MaxCancels  BY <1>1, <1>2 DEF Cancel
<1>4. cancels' = [cancels EXCEPT ![s] = cancels[s] + 1]  BY DEF Cancel
<1>5. cancels'[s] = cancels[s] + 1  BY <1>1, <1>4
<1>6. \A t \in Terminals \ {s} : cancels'[t] = cancels[t]  BY <1>1, <1>4
<1>7. cancels[s] + 1 \in 0..MaxCancels  BY <1>2, <1>3
<1>8. cancels' \in [Terminals -> 0..MaxCancels]  BY <1>1, <1>4, <1>7
<1> QED  BY <1>3, <1>5, <1>6, <1>8

\* A cancellation while the endpoint works sends it to its cleanup by way of
\* what it has to undo.
LEMMA CancelWorkKeeps ==
  ASSUME TerminalTypeOK, NEW s \in Terminals, SocketInv(s), Cancel(s), CancelWork(s)
  PROVE  TerminalTypeOK' /\ SocketInv(s)' /\ OthersStay(s)
<1> USE DEF Before, Opening, Undo, Ending, Cleanup, Working
<1>1. cancels[s] < MaxCancels /\ cancels' = [cancels EXCEPT ![s] = @ + 1]
      /\ UNCHANGED <<console, relaying, opened, login, permit, mine, gateDown, shell, detached, thread>>
  BY DEF Cancel, CancelWork
<1>2. /\ await[s] \notin {"closed", "done", "rollback"} \cup Undo \cup Cleanup
      /\ await' = [await EXCEPT ![s] = CASE await[s] = "acquiring" -> "rollback"
                                   [] await[s] = "starting"  -> "undo cancel"
                                   [] OTHER               -> CleanupOf(s)]
  BY DEF CancelWork, Goto
<1>3. /\ await'[s] \in {"rollback", "undo cancel", "unrelaying", "unshelling", "auditing"}
      /\ await'[s] = "rollback" => await[s] = "acquiring"
      /\ await'[s] = "undo cancel" => await[s] = "starting"
      /\ await[s] = "acquiring" => await'[s] = "rollback"
      /\ await'[s] = "unshelling" => ~relaying[s]
      /\ await'[s] = "auditing" => ~relaying[s] /\ ~shell[s]
      /\ \A t \in Terminals \ {s} : await'[t] = await[t]
  BY <1>2 DEF TerminalTypeOK, CleanupOf
<1>4. \/ report' = report
      \/ await[s] = "reporting" /\ report' = [report EXCEPT ![s] = "succeeded"]
      \/ await[s] = "failing" /\ report' = [report EXCEPT ![s] =
           IF login[s] = "rejected" THEN "failed" ELSE "succeeded"]
  BY ReportsAreKnown DEF CancelWork
<1>5. /\ cancels[s] \in Nat /\ cancels'[s] \in Nat
      /\ cancels'[s] # 0 /\ cancels'[s] >= 1 /\ (cancels[s] >= 1 => cancels'[s] >= 2)
      /\ \A t \in Terminals \ {s} : cancels'[t] = cancels[t]
  BY CancelCounts
<1>6. TerminalTypeOK'
  <2>1. await' \in [Terminals -> Before \cup Opening \cup Undo \cup {"open", "relaying"}
                              \cup Ending \cup Cleanup \cup {"done"}]
    BY <1>2, <1>3 DEF TerminalTypeOK
  <2>2. cancels' \in [Terminals -> 0..MaxCancels]  BY CancelCounts
  <2>3. report' \in [Terminals -> {"none", "succeeded", "failed"}]  BY <1>4 DEF TerminalTypeOK
  <2> QED  BY <1>1, <2>1, <2>2, <2>3 DEF TerminalTypeOK
<1>7. Custody(s)'  BY <1>1, <1>2, <1>3, <1>5 DEF SocketInv, Custody
<1>8. Shells(s)'  BY <1>1, <1>2, <1>3, <1>5 DEF SocketInv, Shells
<1>9. Told(s)'
  <2>1. login'[s] = login[s]  BY <1>1
  <2>2. CASE report'[s] = report[s]  BY <1>2, <1>3, <1>5, <2>1, <2>2 DEF SocketInv, Told
  <2>3. CASE await[s] = "reporting" /\ report'[s] = "succeeded"
    BY <1>3, <1>5, <2>1, <2>3 DEF SocketInv, Told
  <2>4. CASE /\ await[s] = "failing"
             /\ report'[s] = IF login[s] = "rejected" THEN "failed" ELSE "succeeded"
    BY <1>3, <1>5, <2>1, <2>4 DEF SocketInv, Told
  <2> QED  BY <1>4, <2>2, <2>3, <2>4 DEF TerminalTypeOK
<1>10. OthersStay(s)  BY <1>1, <1>3, <1>4, <1>5 DEF TerminalTypeOK, OthersStay
<1> QED  BY <1>6, <1>7, <1>8, <1>9, <1>10 DEF SocketInv

\* A cancellation that is ignored, or that only ends the shield.
LEMMA CancelSoftlyKeeps ==
  ASSUME TerminalTypeOK, NEW s \in Terminals, SocketInv(s), Cancel(s), CancelIgnored(s) \/ CancelShielded(s)
  PROVE  TerminalTypeOK' /\ SocketInv(s)' /\ OthersStay(s)
<1> USE DEF Before, Opening, Undo, Ending, Cleanup, Working
<1>1. cancels[s] < MaxCancels /\ cancels' = [cancels EXCEPT ![s] = @ + 1]
      /\ UNCHANGED <<console, relaying, opened, login, permit, mine, gateDown, await, shell, report, thread>>
  BY DEF Cancel, CancelIgnored, CancelShielded
<1>2. detached' = detached \/ (await[s] \in Cleanup /\ detached' = [detached EXCEPT ![s] = TRUE])
  BY DEF CancelIgnored, CancelShielded
<1>3. /\ cancels[s] \in Nat /\ cancels'[s] \in Nat
      /\ cancels'[s] # 0 /\ cancels'[s] >= 1 /\ (cancels[s] >= 1 => cancels'[s] >= 2)
      /\ \A t \in Terminals \ {s} : cancels'[t] = cancels[t]
  BY CancelCounts
<1>4. await[s] \in {"rollback"} \cup Undo \cup Cleanup
  BY DEF CancelIgnored, CancelShielded
<1>5. TerminalTypeOK'
  <2>1. cancels' \in [Terminals -> 0..MaxCancels]  BY CancelCounts
  <2>2. detached' \in [Terminals -> BOOLEAN]  BY <1>2 DEF TerminalTypeOK
  <2> QED  BY <1>1, <2>1, <2>2 DEF TerminalTypeOK
<1>6. Custody(s)'  BY <1>1, <1>2, <1>3, <1>4 DEF TerminalTypeOK, SocketInv, Custody
<1>7. Shells(s)'  BY <1>1, <1>2, <1>3, <1>4 DEF TerminalTypeOK, SocketInv, Shells
<1>8. Told(s)'
  <2>1. await'[s] = await[s] /\ login'[s] = login[s] /\ report'[s] = report[s]  BY <1>1
  <2> QED  BY <2>1, <1>3 DEF SocketInv, Told
<1>9. OthersStay(s)  BY <1>1, <1>2, <1>3 DEF TerminalTypeOK, OthersStay
<1> QED  BY <1>5, <1>6, <1>7, <1>8, <1>9 DEF SocketInv

\* A cancellation that hits a step of the cleanup finds the shield gone: it is
\* at least the second one.
LEMMA CancelCleanupKeeps ==
  ASSUME TerminalTypeOK, NEW s \in Terminals, SocketInv(s), Cancel(s), CancelCleanup(s)
  PROVE  TerminalTypeOK' /\ SocketInv(s)' /\ OthersStay(s)
<1> USE DEF Before, Opening, Undo, Ending, Cleanup, Working
<1>1. cancels[s] < MaxCancels /\ cancels' = [cancels EXCEPT ![s] = @ + 1]
      /\ UNCHANGED <<console, relaying, opened, login, permit, mine, gateDown, report, detached>>
  BY DEF Cancel, CancelCleanup
<1>2. /\ await[s] \in Cleanup /\ detached[s]
      /\ await' = [await EXCEPT ![s] =
                  CASE await[s] \in {"unrelaying", "hanging up"} -> "done"
                    [] await[s] = "unshelling" -> "auditing"
                    [] await[s] = "auditing"   -> IF opened[s] THEN "noting" ELSE "hanging up"
                    [] await[s] = "noting"     -> "hanging up"
                    [] await[s] = "releasing"  -> "done"]
      /\ shell' = [shell EXCEPT ![s] = @ /\ await[s] # "unshelling"]
      /\ \/ thread' = thread
         \/ await[s] = "releasing" /\ thread' = [thread EXCEPT ![s] = "none"]
  BY DEF CancelCleanup, Goto
<1>3. /\ await'[s] \in {"done", "auditing", "noting", "hanging up"}
      /\ (await'[s] = "done" <=> await[s] \in {"unrelaying", "hanging up", "releasing"})
      /\ \A t \in Terminals \ {s} : await'[t] = await[t]
  BY <1>2 DEF TerminalTypeOK
<1>4. /\ cancels[s] \in Nat /\ cancels'[s] \in Nat
      /\ cancels'[s] # 0 /\ cancels'[s] >= 1 /\ (cancels[s] >= 1 => cancels'[s] >= 2)
      /\ \A t \in Terminals \ {s} : cancels'[t] = cancels[t]
  BY CancelCounts
<1>5. /\ shell'[s] = (shell[s] /\ await[s] # "unshelling")
      /\ \A t \in Terminals \ {s} : shell'[t] = shell[t]
  BY <1>2 DEF TerminalTypeOK
<1>6. TerminalTypeOK'
  <2>1. await' \in [Terminals -> Before \cup Opening \cup Undo \cup {"open", "relaying"}
                              \cup Ending \cup Cleanup \cup {"done"}]
    BY <1>2, <1>3 DEF TerminalTypeOK
  <2>2. cancels' \in [Terminals -> 0..MaxCancels]  BY CancelCounts
  <2>3. shell' \in [Terminals -> BOOLEAN]  BY <1>2 DEF TerminalTypeOK
  <2>4. thread' \in [Terminals -> {"none", "acquire", "granted", "refused", "release"}]
    BY <1>2 DEF TerminalTypeOK
  <2> QED  BY <1>1, <2>1, <2>2, <2>3, <2>4 DEF TerminalTypeOK
<1>7. Custody(s)'
  <2>1. cancels[s] >= 1  BY <1>2 DEF SocketInv, Custody
  <2>2. /\ thread'[s] \in {thread[s], "none"}
        /\ thread'[s] # thread[s] => await[s] = "releasing"
    BY <1>2 DEF TerminalTypeOK
  <2>3. mine'[s] = mine[s] /\ permit'[s] = permit[s] /\ gateDown'[s] = gateDown[s]
        /\ detached'[s] = detached[s] /\ detached[s]
    BY <1>1, <1>2
  <2>4. await[s] \in Cleanup  BY <1>2
  <2>5. /\ thread[s] \in {"none", "release"}
        /\ thread[s] = "release" => await[s] = "releasing"
    BY <2>4 DEF TerminalTypeOK, SocketInv, Custody
  <2>6. CASE await[s] = "releasing"
    <3>1. await'[s] = "done"  BY <1>3, <2>6
    <3> QED  BY <3>1, <1>4, <2>1, <2>2, <2>3, <2>5 DEF SocketInv, Custody
  <2>7. CASE await[s] # "releasing"
    <3>1. thread[s] = "none" /\ thread'[s] = "none"  BY <2>2, <2>5, <2>7
    <3>2. mine[s] => permit[s] # "none"  BY <2>4, <2>7 DEF SocketInv, Custody
    <3>3. permit[s] = "live" /\ ~mine[s] => gateDown[s]  BY <3>1 DEF SocketInv, Custody
    <3> QED  BY <1>3, <1>4, <2>1, <2>3, <3>1, <3>2, <3>3 DEF Custody
  <2> QED  BY <2>6, <2>7
<1>8. Shells(s)'
  <2>1. cancels[s] >= 1  BY <1>2 DEF SocketInv, Custody
  <2>2. CASE ~shell'[s]  BY <1>1, <1>2, <1>3, <2>2 DEF SocketInv, Shells
  <2>3. CASE shell'[s]  BY <1>1, <1>2, <1>3, <1>4, <1>5, <2>1, <2>3 DEF SocketInv, Shells
  <2> QED  BY <2>2, <2>3
<1>9. Told(s)'
  <2>1. login'[s] = login[s] /\ report'[s] = report[s]  BY <1>1
  <2> QED  BY <2>1, <1>3, <1>4 DEF SocketInv, Told
<1>10. OthersStay(s)  BY <1>1, <1>2, <1>3, <1>4, <1>5 DEF TerminalTypeOK, OthersStay
<1> QED  BY <1>6, <1>7, <1>8, <1>9, <1>10 DEF SocketInv

-----------------------------------------------------------------------------
(* The invariant.                                                          *)

\* Nothing is held at first.
LEMMA InitHolds == ASSUME TerminalInit PROVE IInv
<1>1. TerminalTypeOK
  BY TerminalAssumption DEF TerminalInit, TerminalTypeOK, Before, Logins, Transports
<1>2. ASSUME NEW s \in Terminals PROVE SocketInv(s)
  BY DEF TerminalInit, SocketInv, Custody, Shells, Told, Before, Opening, Undo, Working
<1> QED  BY <1>1, <1>2 DEF IInv

\* Whatever a socket does keeps the invariant of it.
LEMMA ActionKeeps ==
  ASSUME TerminalTypeOK, NEW s \in Terminals, SocketInv(s),
         Accept(s) \/ Work(s) \/ Threads(s) \/ Cancel(s) \/ Expire(s)
  PROVE  TerminalTypeOK' /\ SocketInv(s)' /\ OthersStay(s)
<1>1. CASE Accept(s)  BY <1>1, AcceptKeeps
<1>2. CASE Work(s)
  BY <1>2, AcknowledgeKeeps, DecideKeeps, AcquiredKeeps, RollbackKeeps, AnnounceKeeps,
     ReadParametersKeeps, ConnectKeeps, StartShellKeeps, UndoShellKeeps, ReportSuccessKeeps,
     ConnectedKeeps, RelayEndsKeeps, TellGateKeeps, SendErrorKeeps, StopRelaysKeeps,
     CloseShellKeeps, RecordKeeps, HangUpKeeps, ReleasedKeeps DEF Work
<1>3. CASE Threads(s)  BY <1>3, AcquireRunsKeeps, ReleaseRunsKeeps DEF Threads
<1>4. CASE Cancel(s)
  <2>1. CancelWork(s) \/ CancelIgnored(s) \/ CancelShielded(s) \/ CancelCleanup(s)
    BY <1>4 DEF Cancel
  <2> QED  BY <1>4, <2>1, CancelWorkKeeps, CancelSoftlyKeeps, CancelCleanupKeeps
<1>5. CASE Expire(s)  BY <1>5, ExpireKeeps
<1> QED  BY <1>1, <1>2, <1>3, <1>4, <1>5

\* Every step keeps the invariant of every socket.
LEMMA StepHolds == ASSUME IInv, [TerminalNext]_terminalVars PROVE IInv'
<1>1. CASE UNCHANGED terminalVars
  <2>1. TerminalTypeOK'  BY <1>1 DEF IInv, TerminalTypeOK, terminalVars, sessionVars, taskVars
  <2>2. ASSUME NEW t \in Terminals PROVE SocketInv(t)'
    BY <1>1 DEF IInv, SocketInv, Custody, Shells, Told, terminalVars, sessionVars, taskVars
  <2> QED  BY <2>1, <2>2 DEF IInv
<1>2. CASE TerminalNext
  <2>1. PICK s \in Terminals : Accept(s) \/ Work(s) \/ Threads(s) \/ Cancel(s) \/ Expire(s)
    BY <1>2 DEF TerminalNext
  <2>2. TerminalTypeOK' /\ SocketInv(s)' /\ OthersStay(s)
    BY <2>1, ActionKeeps DEF IInv
  <2>3. ASSUME NEW t \in Terminals, t # s PROVE SocketInv(t)'
    BY <2>2, <2>3 DEF IInv, OthersStay, SocketInv, Custody, Shells, Told
  <2> QED  BY <2>2, <2>3 DEF IInv
<1> QED  BY <1>1, <1>2

\* The invariant holds of every reachable state.
THEOREM InvariantHolds == TerminalSpec => []IInv
<1> QED  BY InitHolds, StepHolds, PTL DEF TerminalSpec

-----------------------------------------------------------------------------
(* What follows from it.                                                   *)

\* Every variable keeps its type.
THEOREM TypesHold == TerminalSpec => []TerminalTypeOK
<1>1. IInv => TerminalTypeOK  BY DEF IInv
<1> QED  BY <1>1, InvariantHolds, PTL

\* Nobody gives back the permit of a shell while the shell is there, until its
\* endpoint is done (cleanup of api/terminal.py); its ttl may run out before.
THEOREM ShellsCounted == TerminalSpec => []ShellsAreCounted
<1>1. IInv => ShellsAreCounted
  BY DEF IInv, SocketInv, Custody, Shells, ShellsAreCounted, Undo
<1> QED  BY <1>1, InvariantHolds, PTL

\* One cancellation, wherever it comes, leaves no permit and no shell behind.
THEOREM OneCancelIsCleanedUp == TerminalSpec => []OneCancelLeavesNothing
<1>1. IInv => OneCancelLeavesNothing
  <2> SUFFICES ASSUME IInv, NEW s \in Terminals, await[s] = "done",
                      cancels[s] <= 1 \/ ~detached[s], thread[s] = "none", ~gateDown[s]
               PROVE  permit[s] # "live" /\ ~shell[s]
    BY DEF OneCancelLeavesNothing
  <2>1. cancels[s] \in Nat  BY TerminalAssumption DEF IInv, TerminalTypeOK
  <2>2. ~mine[s] /\ ~shell[s]  BY <2>1 DEF IInv, SocketInv, Custody, Shells
  <2> QED  BY <2>2 DEF IInv, SocketInv, Custody
<1> QED  BY <1>1, InvariantHolds, PTL

\* What the gate is told of a credential is what the device said of it.
THEOREM LoginsReported == TerminalSpec => []LoginsAreReported
<1>1. IInv => LoginsAreReported
  BY DEF IInv, SocketInv, Told, LoginsAreReported
<1> QED  BY <1>1, InvariantHolds, PTL
=============================================================================
