--------------------------- MODULE ConnectionGate ---------------------------
(***************************************************************************)
(* RedisConnectionGate and its callers (admitted_connection, the terminal  *)
(* endpoint): who may hold a connection to a device, how often one may be  *)
(* opened, and for how long failed authentications close an endpoint.      *)
(*                                                                         *)
(* An operation that decides on what it reads is an optimistic             *)
(* transaction: WATCH the keys, read the time and the counts, then EXEC,   *)
(* which does nothing if a watched key was written in between.  Reading    *)
(* and EXEC are two steps here.  A connection that fails while it watches  *)
(* is reported by the client library as a watched key that changed, so a   *)
(* transaction begins again when EXEC or its reply was lost, under the     *)
(* same identifier and beside what it may have written already.            *)
(*                                                                         *)
(* Time is relative: a stored score is the age of its entry in ticks, and  *)
(* Tick adds one to all of them.                                           *)
(***************************************************************************)
EXTENDS Naturals, FiniteSets, SequencesExt

CONSTANTS
  Clients,          \* connection attempts; a lost permit keeps its client
  Targets,          \* endpoint digests: address, port and profile
  Devices, NoDevice,
  Requests,         \* the requests that are made, a subset of Request
  NoRequest,
  MaxConnections, MaxPerDevice, MaxTerminals, MaxTerminalsPerDevice,
  TestRate, TerminalRate, RateWindow,
  FailureLimit, FailureWindow, Cooldown,
  Ttl,              \* connection_permit_ttl_seconds
  Attempts          \* _TRANSACTION_ATTEMPTS

\* acquire refuses a terminal without a device before it reads anything.
Request == [op: {"test"}, target: Targets, device: Devices \cup {NoDevice}]
           \cup [op: {"structured", "terminal"}, target: Targets, device: Devices]

\* Settings bounds every limit from below.
ASSUME GateAssumption ==
  /\ NoDevice \notin Devices /\ NoRequest \notin Requests
  /\ Requests \subseteq Request
  /\ \A n \in {MaxConnections, MaxPerDevice, MaxTerminals, MaxTerminalsPerDevice,
               TestRate, TerminalRate, RateWindow, FailureLimit, FailureWindow,
               Cooldown, Ttl, Attempts} : n \in Nat \ {0}

ASSUME ClientsAreFinite == IsFiniteSet(Clients)

VARIABLES
  pc,          \* where each client stands
  req,         \* its request
  age,         \* ticks since its acquire read the time, counted up to Old
  lag,         \* ticks since its authentication_failed read the time, up to
               \* FailureWindow
  tries,       \* how often its open transaction has been begun
  trips,       \* whether that failure will start the cooldown
  dirty,       \* whether its open transaction has to begin again
  kept,        \* age of what that transaction has written already, Old if none
  rate,        \* rate key -> ages of the admissions of the last RateWindow
  failures,    \* target -> ages of the failures of the last FailureWindow
  cooldown     \* target -> ticks the cooldown key has left, 0 without one

clientVars == <<pc, req, age, lag, tries, trips, dirty, kept>>
vars == <<clientVars, rate, failures, cooldown>>

-----------------------------------------------------------------------------
(* Keys.                                                                   *)

ActiveKeys(r) ==
  {<<"global">>}
  \cup (IF r.device = NoDevice THEN {} ELSE {<<"device", r.device>>})
  \cup (IF r.op = "terminal" THEN {<<"terminals">>, <<"terminals", r.device>>} ELSE {})

RateKeys(r) ==
  CASE r.op = "test"       -> {<<"tests", r.target>>}
    [] r.op = "terminal"   -> {<<"opens", r.device>>}
    [] r.op = "structured" -> {}

AllActiveKeys == UNION {ActiveKeys(r) : r \in Requests}
AllRateKeys   == UNION {RateKeys(r) : r \in Requests}

Limit(k) ==
  CASE k[1] = "global"                    -> MaxConnections
    [] k[1] = "device"                    -> MaxPerDevice
    [] k[1] = "terminals" /\ Len(k) = 1   -> MaxTerminals
    [] k[1] = "terminals" /\ Len(k) = 2   -> MaxTerminalsPerDevice

RateLimit(k) == IF k[1] = "tests" THEN TestRate ELSE TerminalRate

\* The clients that hold a permit; "lost" is a permit nobody will release.
Holding == {"open", "failing", "closing", "lost"}

\* Mutated form: an entry has no expiry.
Live_Forever(c) == TRUE

\* A permit may expire while its connection is still used.
Live(c) == age[c] < Ttl

\* The permits that count: also that of an acquire that does not know of it.
Permitted(c) ==
  \/ pc[c] \in Holding /\ Live(c)
  \/ pc[c] = "admitting" /\ kept[c] < Ttl

Active(k) == {c \in Clients : Permitted(c) /\ k \in ActiveKeys(req[c])}

\* Open transactions: every acquire watches the global key and the cooldown
\* key of its target, every authentication_failed both keys of its target.
Acquiring == {c \in Clients : pc[c] = "admitting"}
AcquiringOn(t) == {c \in Acquiring : req[c].target = t}
FailingOn(t) == {c \in Clients : pc[c] = "failing" /\ req[c].target = t}

\* c's step writes a key that the transactions of S watch, and ends c's own.
Touched(S, c) == [d \in Clients |-> d # c /\ (dirty[d] \/ d \in S)]

-----------------------------------------------------------------------------
Ages(window) == Seq(0..window - 1)

\* An entry that is as old as the window when it is written is never counted.
Dated(ages, a, window) == IF a < window THEN Append(ages, a) ELSE ages

\* ZADD of an identifier that is in the window already, at this age, moves it.
Redated(ages, from, a, window) == Dated(RemoveFirst(ages, from), a, window)

\* Beyond this age neither a permit nor an admission nor a failure counts.
Old == Max({Ttl, RateWindow, FailureWindow})

TypeOK ==
  /\ pc \in [Clients -> {"idle", "admitting"} \cup Holding]
  /\ req \in [Clients -> Requests \cup {NoRequest}]
  /\ \A c \in Clients : req[c] = NoRequest <=> pc[c] = "idle"
  /\ age \in [Clients -> 0..Old]
  /\ lag \in [Clients -> 0..FailureWindow]
  /\ tries \in [Clients -> 0..Attempts]
  /\ trips \in [Clients -> BOOLEAN]
  /\ dirty \in [Clients -> BOOLEAN]
  /\ kept \in [Clients -> 0..Old]
  /\ \A c \in Clients : pc[c] \notin {"admitting", "failing"} => kept[c] = Old
  /\ rate \in [AllRateKeys -> Ages(RateWindow)]
  /\ failures \in [Targets -> Ages(FailureWindow)]
  /\ cooldown \in [Targets -> 0..Cooldown]

Init ==
  /\ pc = [c \in Clients |-> "idle"]
  /\ req = [c \in Clients |-> NoRequest]
  /\ age = [c \in Clients |-> 0]
  /\ lag = [c \in Clients |-> 0]
  /\ tries = [c \in Clients |-> 0]
  /\ trips = [c \in Clients |-> FALSE]
  /\ dirty = [c \in Clients |-> FALSE]
  /\ kept = [c \in Clients |-> Old]
  /\ rate = [k \in AllRateKeys |-> <<>>]
  /\ failures = [t \in Targets |-> <<>>]
  /\ cooldown = [t \in Targets |-> 0]

-----------------------------------------------------------------------------
(* acquire                                                                 *)

\* Mutated form: the cooldown key is not looked at.
Admissible_NoCooldown(r) ==
  /\ \A k \in RateKeys(r) : Len(rate[k]) < RateLimit(k)
  /\ \A k \in ActiveKeys(r) : Cardinality(Active(k)) < Limit(k)

\* no cooldown, fewer admissions than the rate allows, fewer live permits than
\* each limit that counts this one
Admissible(r) ==
  /\ cooldown[r.target] = 0
  /\ \A k \in RateKeys(r) : Len(rate[k]) < RateLimit(k)
  /\ \A k \in ActiveKeys(r) : Cardinality(Active(k)) < Limit(k)

\* WATCH, read the time, check
AcquireRead(c, r) ==
  /\ pc[c] = "idle"
  /\ Admissible(r)
  /\ pc' = [pc EXCEPT ![c] = "admitting"]
  /\ req' = [req EXCEPT ![c] = r]
  /\ tries' = [tries EXCEPT ![c] = 1]
  /\ UNCHANGED <<age, lag, trips, dirty, kept, rate, failures, cooldown>>

\* WatchError: a watched key changed or the connection failed.  The next
\* attempt reads again; it counts what this very acquire may have written.
AcquireAgain(c) ==
  /\ pc[c] = "admitting"
  /\ tries[c] < Attempts
  /\ Admissible(req[c])
  /\ age' = [age EXCEPT ![c] = 0]
  /\ tries' = [tries EXCEPT ![c] = @ + 1]
  /\ dirty' = [dirty EXCEPT ![c] = FALSE]
  /\ UNCHANGED <<pc, req, lag, trips, kept, rate, failures, cooldown>>

\* What EXEC writes, and whether the caller learns of it.
Admit(c) ==
  /\ rate' = [k \in AllRateKeys |->
                IF k \in RateKeys(req[c]) THEN Redated(rate[k], kept[c], age[c], RateWindow)
                ELSE rate[k]]
  /\ \/ /\ pc' = [pc EXCEPT ![c] = "open"]
        /\ kept' = [kept EXCEPT ![c] = Old]
        /\ tries' = [tries EXCEPT ![c] = 0]
        /\ dirty' = Touched(Acquiring, c)
     \/ /\ kept' = [kept EXCEPT ![c] = age[c]]
        /\ dirty' = [Touched(Acquiring, c) EXCEPT ![c] = TRUE]
        /\ UNCHANGED <<pc, tries>>
  /\ UNCHANGED <<req, age, lag, trips, failures, cooldown>>

\* Mutated form: EXEC goes through whatever happened to the watched keys.
AcquireExec_NoWatch(c) == pc[c] = "admitting" /\ Admit(c)

AcquireExec(c) == pc[c] = "admitting" /\ ~dirty[c] /\ Admit(c)

\* the client is back where it began
Leave(c) ==
  /\ pc' = [pc EXCEPT ![c] = "idle"]
  /\ req' = [req EXCEPT ![c] = NoRequest]
  /\ age' = [age EXCEPT ![c] = 0]

\* The next attempt is refused, the attempts are used up, Redis does not
\* answer or the process dies.  A permit that was written and not answered is
\* nobody's: the caller was refused.
AcquireAbort(c) ==
  /\ pc[c] = "admitting"
  /\ \/ /\ kept[c] >= Ttl
        /\ Leave(c)
     \/ /\ kept[c] < Ttl
        /\ pc' = [pc EXCEPT ![c] = "lost"]
        /\ age' = [age EXCEPT ![c] = kept[c]]
        /\ UNCHANGED req
  /\ kept' = [kept EXCEPT ![c] = Old]
  /\ tries' = [tries EXCEPT ![c] = 0]
  /\ dirty' = Touched({}, c)
  /\ UNCHANGED <<lag, trips, rate, failures, cooldown>>

-----------------------------------------------------------------------------
(* The connection: what the caller tells the gate of its authentication.   *)

\* The authentication is settled: what is left of the connection, if anything,
\* tells the gate nothing more before its permit is released.
ToClosing(c) ==
  /\ pc' = [pc EXCEPT ![c] = "closing"]
  /\ lag' = [lag EXCEPT ![c] = 0]
  /\ tries' = [tries EXCEPT ![c] = 0]
  /\ trips' = [trips EXCEPT ![c] = FALSE]
  /\ UNCHANGED <<req, age, rate>>

\* authentication_failed: WATCH, read the time, count the failures, this one
\* too if it was recorded and the reply was lost
FailRead(c) ==
  /\ pc[c] \in {"open", "failing"}
  /\ tries[c] < Attempts
  /\ pc' = [pc EXCEPT ![c] = "failing"]
  /\ lag' = [lag EXCEPT ![c] = 0]
  /\ tries' = [tries EXCEPT ![c] = @ + 1]
  /\ trips' = [trips EXCEPT ![c] = Len(failures[req[c].target]) + 1 >= FailureLimit]
  /\ dirty' = [dirty EXCEPT ![c] = FALSE]
  /\ UNCHANGED <<req, age, kept, rate, failures, cooldown>>

RecordFailure(c) ==
  LET t == req[c].target
      touched == Touched(FailingOn(t) \cup (IF trips[c] THEN AcquiringOn(t) ELSE {}), c)
  IN  /\ failures' = [failures EXCEPT ![t] = Redated(@, kept[c], lag[c], FailureWindow)]
      /\ cooldown' = [cooldown EXCEPT ![t] = IF trips[c] THEN Cooldown ELSE @]
      /\ \/ /\ ToClosing(c)
            /\ kept' = [kept EXCEPT ![c] = Old]
            /\ dirty' = touched
         \/ /\ kept' = [kept EXCEPT ![c] = lag[c]]
            /\ dirty' = [touched EXCEPT ![c] = TRUE]
            /\ UNCHANGED <<pc, req, age, lag, tries, trips, rate>>

\* Mutated form: two failures that were counted together both go through.
FailExec_NoWatch(c) == pc[c] = "failing" /\ RecordFailure(c)

FailExec(c) == pc[c] = "failing" /\ ~dirty[c] /\ RecordFailure(c)

\* the attempts are used up or Redis does not answer; the permit is released
\* all the same
FailAbort(c) ==
  /\ pc[c] = "failing"
  /\ ToClosing(c)
  /\ kept' = [kept EXCEPT ![c] = Old]
  /\ dirty' = Touched({}, c)
  /\ UNCHANGED <<failures, cooldown>>

\* authentication_succeeded deletes the failures, not the cooldown.  The key
\* may be there with failures that no longer count.
Succeed(c) ==
  LET t == req[c].target
  IN  /\ pc[c] = "open"
      /\ failures' = [failures EXCEPT ![t] = <<>>]
      /\ \/ dirty' = Touched(FailingOn(t), c)
         \/ failures[t] = <<>> /\ dirty' = Touched({}, c)
      /\ kept' = [d \in Clients |-> IF d \in FailingOn(t) THEN Old ELSE kept[d]]
      /\ ToClosing(c)
      /\ UNCHANGED cooldown

\* the connection ended before it could authenticate, or the gate did not
\* answer
EndUnreported(c) ==
  /\ pc[c] = "open"
  /\ ToClosing(c)
  /\ UNCHANGED <<dirty, kept, failures, cooldown>>

\* an expired permit is not found and nothing is written
Release(c) ==
  /\ pc[c] = "closing"
  /\ Leave(c)
  /\ dirty' = Touched(IF Live(c) THEN Acquiring ELSE {}, c)
  /\ UNCHANGED <<lag, tries, trips, kept, rate, failures, cooldown>>

\* the process died, or release found no Redis: only the ttl ends the permit
Lose(c) ==
  /\ pc[c] \in {"open", "failing", "closing"}
  /\ pc' = [pc EXCEPT ![c] = "lost"]
  /\ lag' = [lag EXCEPT ![c] = 0]
  /\ tries' = [tries EXCEPT ![c] = 0]
  /\ trips' = [trips EXCEPT ![c] = FALSE]
  /\ kept' = [kept EXCEPT ![c] = Old]
  /\ dirty' = Touched({}, c)
  /\ UNCHANGED <<req, age, rate, failures, cooldown>>

-----------------------------------------------------------------------------
(* Time passes whatever the clients are doing: neither a transaction nor a *)
(* connection has a bound that the gate knows of.                          *)

\* Mutated form: what the window has left behind is not removed.
Older_NoTrim(ages, window) == [i \in DOMAIN ages |-> ages[i] + 1]

\* Redis keeps the entries by their score, the oldest first: what a window
\* leaves behind is removed from the front.
Older(ages, window) ==
  LET young == {i \in DOMAIN ages : ages[i] + 1 < window}
      older == [i \in DOMAIN ages |-> ages[i] + 1]
  IN  IF young = {} THEN << >>
      ELSE SubSeq(older, CHOOSE i \in young : \A j \in young : i <= j, Len(ages))

Forgotten == {c \in Clients : pc[c] = "lost" /\ ~Live(c)}

Tick ==
  /\ pc' = [c \in Clients |-> IF c \in Forgotten THEN "idle" ELSE pc[c]]
  /\ req' = [c \in Clients |-> IF c \in Forgotten THEN NoRequest ELSE req[c]]
  /\ age' = [c \in Clients |->
               IF pc[c] = "idle" \/ c \in Forgotten THEN 0
               ELSE IF age[c] < Old THEN age[c] + 1 ELSE Old]
  /\ lag' = [c \in Clients |->
               IF pc[c] = "failing" /\ lag[c] < FailureWindow THEN lag[c] + 1 ELSE lag[c]]
  /\ kept' = [c \in Clients |-> IF kept[c] < Old THEN kept[c] + 1 ELSE Old]
  /\ rate' = [k \in AllRateKeys |-> Older(rate[k], RateWindow)]
  /\ failures' = [t \in Targets |-> Older(failures[t], FailureWindow)]
  /\ cooldown' = [t \in Targets |-> IF cooldown[t] = 0 THEN 0 ELSE cooldown[t] - 1]
  /\ UNCHANGED <<tries, trips, dirty>>

-----------------------------------------------------------------------------
(* What a client that has called the gate does next, of its own accord.     *)

Progress(c) ==
  \/ AcquireExec(c)
  \/ AcquireAgain(c)
  \/ AcquireAbort(c)
  \/ FailRead(c)
  \/ FailExec(c)
  \/ FailAbort(c)
  \/ Succeed(c)
  \/ EndUnreported(c)
  \/ Release(c)

Next ==
  \/ \E c \in Clients, r \in Requests : AcquireRead(c, r)
  \/ \E c \in Clients : Progress(c)
  \/ \E c \in Clients : Lose(c)
  \/ Tick

Spec == Init /\ [][Next]_vars

\* Time passes.  No caller has to do anything: each may stop for ever between
\* any two of its steps.
Fairness == WF_vars(Tick)

FairSpec == Spec /\ Fairness

-----------------------------------------------------------------------------
(* Properties                                                              *)

\* No limit on live permits (all, of one device, of terminals, of terminals of
\* one device) is exceeded, whatever callers interleave between reading the counts and
\* EXEC, die, or expire.
LimitsHold == \A k \in AllActiveKeys : Cardinality(Active(k)) <= Limit(k)

\* No window of RateWindow ticks holds more admissions than the rate allows,
\* although each is dated by the clock its caller read before EXEC.
RatesHold == \A k \in AllRateKeys : Len(rate[k]) <= RateLimit(k)

\* Enough failures within the window close the endpoint: while the last of
\* them is younger than the cooldown, the cooldown key is there.  Callers that
\* counted the same failures must not both believe they are below the limit.
CooldownFollowsFailures ==
  \A t \in Targets :
    /\ Len(failures[t]) >= FailureLimit
    /\ failures[t][Len(failures[t])] < Cooldown
    => cooldown[t] > 0

\* Nobody is admitted to a closed endpoint, not even a caller that saw it open
\* before the failure that closed it was recorded, and whether or not the caller
\* learns of its permit.
NoAdmissionInCooldown ==
  [][\A c \in Clients :
       pc[c] = "admitting" /\ (pc'[c] = "open" \/ kept'[c] < kept[c])
         => cooldown[req[c].target] = 0]_vars

\* A full gate opens again, even if every holder of a permit died with it.
GateReopens ==
  Cardinality(Active(<<"global">>)) = MaxConnections
    ~> Cardinality(Active(<<"global">>)) < MaxConnections

\* A closed endpoint opens again: nobody admitted before it was closed can
\* prolong the cooldown for ever.
CooldownEnds == \A t \in Targets : cooldown[t] > 0 ~> cooldown[t] = 0
=============================================================================
