------------------------ MODULE ConnectionGateProofs ------------------------
(***************************************************************************)
(* What TLAPS proves of ConnectionGate for any number of clients, devices  *)
(* and endpoints, and for any limits.                                      *)
(***************************************************************************)
EXTENDS ConnectionGate, SequenceLemmas

-----------------------------------------------------------------------------
(* The inductive invariant.                                                *)

\* The part of TypeOK that the limits rest on.
Shape ==
  /\ pc \in [Clients -> {"idle", "admitting"} \cup Holding]
  /\ req \in [Clients -> Requests \cup {NoRequest}]
  /\ \A c \in Clients : pc[c] # "idle" => req[c] \in Requests
  /\ age \in [Clients -> 0..Old]
  /\ lag \in [Clients -> 0..FailureWindow]
  /\ dirty \in [Clients -> BOOLEAN]
  /\ kept \in [Clients -> 0..Old]
  /\ \A c \in Clients : pc[c] \notin {"admitting", "failing"} => kept[c] = Old
  /\ cooldown \in [Targets -> 0..Cooldown]

\* What a transaction read still holds while no key it watches was written.
FreshReadsHold ==
  \A c \in Clients : pc[c] = "admitting" /\ ~dirty[c] =>
    /\ cooldown[req[c].target] = 0
    /\ \A k \in ActiveKeys(req[c]) : Cardinality(Active(k)) < Limit(k)

IInv == Shape /\ FreshReadsHold /\ LimitsHold

-----------------------------------------------------------------------------
(* Lemmas.                                                                 *)

\* The age at which counting stops is a number of ticks, and late enough.
LEMMA OldIsNat == Old \in Nat /\ Ttl <= Old /\ RateWindow <= Old /\ FailureWindow <= Old
<1> DEFINE a == Ttl
           b == RateWindow
           d == FailureWindow
<1>1. a \in Nat /\ b \in Nat /\ d \in Nat  BY GateAssumption
<1>2. Old = CHOOSE x \in {a, b, d} : \A y \in {a, b, d} : x >= y  BY DEF Old, Max
<1> HIDE DEF a, b, d
<1>3. \E x \in {a, b, d} : \A y \in {a, b, d} : x >= y
  <2>1. CASE a >= b /\ a >= d  BY <1>1, <2>1
  <2>2. CASE b >= a /\ b >= d  BY <1>1, <2>2
  <2>3. CASE d >= a /\ d >= b  BY <1>1, <2>3
  <2> QED  BY <1>1, <2>1, <2>2, <2>3
<1>4. Old \in {a, b, d} /\ \A y \in {a, b, d} : Old >= y  BY <1>2, <1>3
<1>5. Old \in Nat /\ a <= Old /\ b <= Old /\ d <= Old  BY <1>1, <1>4
<1> QED  BY <1>5 DEF a, b, d

\* The permits of a key can be counted.
LEMMA ActiveIsFinite ==
  \A k : IsFiniteSet(Active(k)) /\ Cardinality(Active(k)) \in Nat
<1>1. \A k : Active(k) \subseteq Clients  BY DEF Active
<1> QED  BY <1>1, ClientsAreFinite, FS_Subset, FS_CardinalityType

\* The same of the next state.
LEMMA ActiveStaysFinite ==
  \A k : IsFiniteSet(Active(k)') /\ Cardinality(Active(k)') \in Nat
<1>1. \A k : Active(k)' \subseteq Clients  BY DEF Active
<1> QED  BY <1>1, ClientsAreFinite, FS_Subset, FS_CardinalityType

\* Every key that counts permits has a positive limit.
LEMMA LimitsArePositive == \A r \in Requests : \A k \in ActiveKeys(r) : Limit(k) \in Nat \ {0}
<1> SUFFICES ASSUME NEW r \in Requests, NEW k \in ActiveKeys(r)
             PROVE  Limit(k) \in Nat \ {0}
  OBVIOUS
<1>1. /\ MaxConnections \in Nat \ {0} /\ MaxPerDevice \in Nat \ {0}
      /\ MaxTerminals \in Nat \ {0} /\ MaxTerminalsPerDevice \in Nat \ {0}
  BY GateAssumption
<1>2. \/ k = <<"global">>
      \/ k = <<"device", r.device>>
      \/ k = <<"terminals">>
      \/ k = <<"terminals", r.device>>
  BY DEF ActiveKeys
<1>3. CASE k = <<"global">>               BY <1>1, <1>3 DEF Limit
<1>4. CASE k = <<"device", r.device>>     BY <1>1, <1>4 DEF Limit
<1>5. CASE k = <<"terminals">>            BY <1>1, <1>5 DEF Limit
<1>6. CASE k = <<"terminals", r.device>>  BY <1>1, <1>6 DEF Limit
<1> QED  BY <1>2, <1>3, <1>4, <1>5, <1>6

\* A step that admits nobody, dirties or keeps what is being read, and closes no
\* endpoint under an open transaction preserves the invariant.
LEMMA QuietStep ==
  ASSUME IInv, Shape',
         \A d \in Clients : Permitted(d)' => Permitted(d) /\ req'[d] = req[d],
         \A d \in Clients : pc'[d] = "admitting" /\ ~dirty'[d] =>
           /\ pc[d] = "admitting" /\ ~dirty[d] /\ req'[d] = req[d]
           /\ cooldown'[req[d].target] = 0
  PROVE  IInv'
<1>1. ASSUME NEW k PROVE Cardinality(Active(k)') <= Cardinality(Active(k))
  <2>1. Active(k)' \subseteq Active(k)  BY DEF Active, ActiveKeys
  <2> QED  BY <2>1, ActiveIsFinite, FS_Subset
<1>2. FreshReadsHold'
  <2> SUFFICES ASSUME NEW c \in Clients, pc'[c] = "admitting", ~dirty'[c]
               PROVE  /\ cooldown'[req'[c].target] = 0
                      /\ \A k \in ActiveKeys(req'[c]) : Cardinality(Active(k)') < Limit(k)
    BY DEF FreshReadsHold, ActiveKeys, Limit
  <2>1. /\ pc[c] = "admitting" /\ ~dirty[c] /\ req'[c] = req[c]
        /\ cooldown'[req[c].target] = 0
    OBVIOUS
  <2>2. req[c] \in Requests  BY <2>1 DEF IInv, Shape
  <2>3. ASSUME NEW k \in ActiveKeys(req[c]) PROVE Cardinality(Active(k)') < Limit(k)
    <3>1. Cardinality(Active(k)) < Limit(k)  BY <2>1 DEF IInv, FreshReadsHold
    <3>2. Limit(k) \in Nat  BY <2>2, LimitsArePositive
    <3> QED  BY <3>1, <3>2, <1>1, ActiveIsFinite, ActiveStaysFinite
  <2> QED  BY <2>1, <2>3
<1>3. LimitsHold'
  <2> SUFFICES ASSUME NEW k \in AllActiveKeys
               PROVE  Cardinality(Active(k)') <= Limit(k)
    BY DEF LimitsHold, AllActiveKeys, ActiveKeys, Limit
  <2>1. Cardinality(Active(k)) <= Limit(k)  BY DEF IInv, LimitsHold
  <2>2. Limit(k) \in Nat  BY LimitsArePositive DEF AllActiveKeys
  <2> QED  BY <2>1, <2>2, <1>1, ActiveIsFinite, ActiveStaysFinite
<1> QED  BY <1>2, <1>3 DEF IInv

\* Every request names an endpoint.
LEMMA RequestsNameTargets == \A r \in Requests : r.target \in Targets
BY GateAssumption DEF Request

-----------------------------------------------------------------------------
(* The steps that admit.                                                   *)

\* Reading: the counts are compared now, so they hold now.
LEMMA AcquireReadPreserves ==
  ASSUME IInv, NEW c \in Clients, NEW r \in Requests, AcquireRead(c, r)
  PROVE  IInv'
<1>1. Shape'  BY DEF IInv, Shape, AcquireRead
<1>2. ASSUME NEW k PROVE Active(k)' = Active(k)
  <2>1. \A d \in Clients : Permitted(d)' <=> Permitted(d)
    BY OldIsNat, GateAssumption DEF Permitted, Live, AcquireRead, Holding, IInv, Shape
  <2>2. \A d \in Clients : Permitted(d) => req'[d] = req[d]
    BY DEF Permitted, AcquireRead, Holding, IInv, Shape
  <2> QED  BY <2>1, <2>2 DEF Active, ActiveKeys
<1>3. FreshReadsHold'
  <2> SUFFICES ASSUME NEW d \in Clients, pc'[d] = "admitting", ~dirty'[d]
               PROVE  /\ cooldown'[req'[d].target] = 0
                      /\ \A k \in ActiveKeys(req'[d]) : Cardinality(Active(k)') < Limit(k)
    BY DEF FreshReadsHold, ActiveKeys, Limit
  <2>1. CASE d = c
    BY <2>1, <1>2 DEF AcquireRead, Admissible, IInv, Shape
  <2>2. CASE d # c
    BY <2>2, <1>2 DEF AcquireRead, IInv, Shape, FreshReadsHold
  <2> QED  BY <2>1, <2>2
<1>4. LimitsHold'
  BY <1>2 DEF IInv, LimitsHold, AllActiveKeys, ActiveKeys, Limit
<1> QED  BY <1>1, <1>3, <1>4 DEF IInv

\* Reading again: what this very acquire may have written is counted too.
LEMMA AcquireAgainPreserves ==
  ASSUME IInv, NEW c \in Clients, AcquireAgain(c)
  PROVE  IInv'
<1>1. Shape'  BY OldIsNat, GateAssumption DEF IInv, Shape, AcquireAgain
<1>2. ASSUME NEW k PROVE Active(k)' = Active(k)
  <2>1. \A d \in Clients : Permitted(d)' <=> Permitted(d)
    BY DEF Permitted, Live, AcquireAgain, Holding, IInv, Shape
  <2> QED  BY <2>1 DEF Active, ActiveKeys, AcquireAgain
<1>3. FreshReadsHold'
  <2> SUFFICES ASSUME NEW d \in Clients, pc'[d] = "admitting", ~dirty'[d]
               PROVE  /\ cooldown'[req'[d].target] = 0
                      /\ \A k \in ActiveKeys(req'[d]) : Cardinality(Active(k)') < Limit(k)
    BY DEF FreshReadsHold, ActiveKeys, Limit
  <2>1. CASE d = c
    BY <2>1, <1>2 DEF AcquireAgain, Admissible
  <2>2. CASE d # c
    BY <2>2, <1>2 DEF AcquireAgain, IInv, Shape, FreshReadsHold
  <2> QED  BY <2>1, <2>2
<1>4. LimitsHold'
  BY <1>2 DEF IInv, LimitsHold, AllActiveKeys, ActiveKeys, Limit
<1> QED  BY <1>1, <1>3, <1>4 DEF IInv

\* EXEC, answered or not: the counts grow by one at most and every other open acquire is dirty.
LEMMA AcquireExecPreserves ==
  ASSUME IInv, NEW c \in Clients, AcquireExec(c)
  PROVE  IInv'
<1>1. Shape'
  <2>1. dirty' \in [Clients -> BOOLEAN]
    BY DEF IInv, Shape, AcquireExec, Admit, Touched
  <2>2. pc[c] = "admitting" /\ age[c] \in 0..Old /\ Old \in 0..Old
    BY OldIsNat DEF IInv, Shape, AcquireExec
  <2>3. \/ pc' = [pc EXCEPT ![c] = "open"] /\ kept' = [kept EXCEPT ![c] = Old]
        \/ pc' = pc /\ kept' = [kept EXCEPT ![c] = age[c]]
    BY DEF AcquireExec, Admit
  <2>4. UNCHANGED <<req, age, lag, cooldown>>  BY DEF AcquireExec, Admit
  <2> QED  BY <2>1, <2>2, <2>3, <2>4 DEF IInv, Shape, Holding
<1>2. FreshReadsHold'
  <2>1. ASSUME NEW d \in Clients, pc'[d] = "admitting" PROVE dirty'[d]
    BY <2>1 DEF AcquireExec, Admit, Touched, Acquiring, IInv, Shape
  <2> QED  BY <2>1 DEF FreshReadsHold
<1> DEFINE Others == \A d \in Clients \ {c} : Permitted(d)' <=> Permitted(d)
<1>4. Others /\ req' = req
  BY DEF AcquireExec, Admit, Permitted, Live, Holding, IInv, Shape
<1> HIDE DEF Others
<1>3. LimitsHold'
  <2> SUFFICES ASSUME NEW k \in AllActiveKeys
               PROVE  Cardinality(Active(k)') <= Limit(k)
    BY DEF LimitsHold, AllActiveKeys, ActiveKeys, Limit
  <2>1. Limit(k) \in Nat  BY LimitsArePositive DEF AllActiveKeys
  <2>2. CASE k \in ActiveKeys(req[c])
    <3>1. Cardinality(Active(k)) < Limit(k)
      BY <2>2 DEF IInv, FreshReadsHold, AcquireExec
    <3>2. Active(k)' \subseteq Active(k) \cup {c}
      BY <1>4 DEF Others, Active, ActiveKeys
    <3>3. /\ IsFiniteSet(Active(k) \cup {c})
          /\ Cardinality(Active(k) \cup {c}) \in Nat
          /\ Cardinality(Active(k) \cup {c}) <= Cardinality(Active(k)) + 1
      <4>1. IsFiniteSet(Active(k)) /\ Cardinality(Active(k)) \in Nat  BY ActiveIsFinite
      <4>2. IsFiniteSet(Active(k) \cup {c})  BY <4>1, FS_AddElement
      <4>3. Cardinality(Active(k) \cup {c}) \in {Cardinality(Active(k)), Cardinality(Active(k)) + 1}
        <5>1. CASE c \in Active(k)
          <6>1. Active(k) \cup {c} = Active(k)  BY <5>1
          <6> QED  BY <6>1
        <5>2. CASE c \notin Active(k)  BY <4>1, <5>2, FS_AddElement
        <5> QED  BY <5>1, <5>2
      <4> QED  BY <4>1, <4>2, <4>3
    <3>4. Cardinality(Active(k)') <= Cardinality(Active(k) \cup {c})
      BY <3>2, <3>3, FS_Subset
    <3> QED  BY <3>1, <3>3, <3>4, <2>1, ActiveIsFinite, ActiveStaysFinite
  <2>3. CASE k \notin ActiveKeys(req[c])
    <3>1. Active(k)' = Active(k)
      BY <2>3, <1>4 DEF Others, Active, ActiveKeys
    <3> QED  BY <3>1 DEF IInv, LimitsHold
  <2> QED  BY <2>2, <2>3
<1> QED  BY <1>1, <1>2, <1>3 DEF IInv

-----------------------------------------------------------------------------
(* The steps that admit nobody.                                            *)

\* What the acquire has written and was not told of becomes nobody's permit.
LEMMA AcquireAbortPreserves ==
  ASSUME IInv, NEW c \in Clients, AcquireAbort(c)  PROVE  IInv'
<1>1. Shape'
  <2>1. CASE kept[c] >= Ttl
    BY <2>1, OldIsNat, GateAssumption DEF IInv, Shape, AcquireAbort, Leave, Touched
  <2>2. CASE kept[c] < Ttl
    BY <2>2, OldIsNat DEF IInv, Shape, AcquireAbort, Leave, Touched, Holding
  <2> QED  BY <2>1, <2>2, OldIsNat, GateAssumption DEF IInv, Shape
<1>2. \A d \in Clients : Permitted(d)' => Permitted(d) /\ req'[d] = req[d]
  BY DEF IInv, Shape, AcquireAbort, Leave, Permitted, Live, Holding
<1>3. \A d \in Clients : pc'[d] = "admitting" /\ ~dirty'[d] =>
        pc[d] = "admitting" /\ ~dirty[d] /\ req'[d] = req[d] /\ cooldown' = cooldown
  BY DEF IInv, Shape, AcquireAbort, Leave, Touched
<1> QED
  BY <1>1, <1>2, <1>3, QuietStep DEF IInv, FreshReadsHold

LEMMA FailReadPreserves ==
  ASSUME IInv, NEW c \in Clients, FailRead(c)  PROVE  IInv'
<1>1. Shape'
  <2>1. /\ pc[c] \in {"open", "failing"} /\ pc' = [pc EXCEPT ![c] = "failing"]
        /\ lag' = [lag EXCEPT ![c] = 0] /\ dirty' = [dirty EXCEPT ![c] = FALSE]
        /\ UNCHANGED <<req, age, kept, cooldown>>
    BY DEF FailRead
  <2>2. pc' \in [Clients -> {"idle", "admitting"} \cup Holding]
    BY <2>1 DEF IInv, Shape, Holding
  <2>3. \A d \in Clients : pc'[d] # "idle" => req'[d] \in Requests
    BY <2>1 DEF IInv, Shape
  <2>4. lag' \in [Clients -> 0..FailureWindow]
    <3>1. 0 \in 0..FailureWindow  BY GateAssumption
    <3> QED  BY <2>1, <3>1 DEF IInv, Shape
  <2>5. dirty' \in [Clients -> BOOLEAN]  BY <2>1 DEF IInv, Shape
  <2>6. \A d \in Clients : pc'[d] \notin {"admitting", "failing"} => kept'[d] = Old
    BY <2>1 DEF IInv, Shape
  <2> QED  BY <2>1, <2>2, <2>3, <2>4, <2>5, <2>6 DEF IInv, Shape
<1>2. \A d \in Clients : Permitted(d)' => Permitted(d) /\ req'[d] = req[d]
  BY DEF IInv, Shape, FailRead, Permitted, Live, Holding
<1>3. \A d \in Clients : pc'[d] = "admitting" /\ ~dirty'[d] =>
        pc[d] = "admitting" /\ ~dirty[d] /\ req'[d] = req[d] /\ cooldown' = cooldown
  BY DEF IInv, Shape, FailRead, Holding
<1> QED
  BY <1>1, <1>2, <1>3, QuietStep DEF IInv, FreshReadsHold

\* The one step that closes an endpoint dirties every acquire that read it open.
LEMMA FailExecPreserves ==
  ASSUME IInv, NEW c \in Clients, FailExec(c)  PROVE  IInv'
<1> DEFINE t == req[c].target
<1>1. t \in Targets /\ Cooldown \in Nat
  BY RequestsNameTargets, GateAssumption DEF FailExec, IInv, Shape
<1>2. Shape'
  <2>1. dirty' \in [Clients -> BOOLEAN]
    BY DEF IInv, Shape, FailExec, RecordFailure, Touched
  <2>2. /\ pc[c] = "failing" /\ lag[c] \in 0..Old /\ lag[c] \in 0..FailureWindow
    BY OldIsNat, GateAssumption DEF FailExec, IInv, Shape
  <2>3. /\ UNCHANGED <<req, age>>
        /\ cooldown' = [cooldown EXCEPT ![t] = IF trips[c] THEN Cooldown ELSE @]
    BY DEF FailExec, RecordFailure, ToClosing
  <2>4. \/ /\ pc' = [pc EXCEPT ![c] = "closing"] /\ kept' = [kept EXCEPT ![c] = Old]
           /\ lag' = [lag EXCEPT ![c] = 0]
        \/ /\ pc' = pc /\ kept' = [kept EXCEPT ![c] = lag[c]]
           /\ lag' = lag
    BY DEF FailExec, RecordFailure, ToClosing
  <2> QED
    BY <1>1, <2>1, <2>2, <2>3, <2>4, OldIsNat, GateAssumption DEF IInv, Shape, Holding
<1>3. ASSUME NEW d \in Clients, pc'[d] = "admitting", ~dirty'[d]
      PROVE  /\ pc[d] = "admitting" /\ ~dirty[d] /\ req'[d] = req[d]
             /\ cooldown'[req[d].target] = 0
  <2>1. /\ pc[d] = "admitting" /\ ~dirty[d] /\ req'[d] = req[d]
        /\ trips[c] => req[d].target # t
    BY <1>3 DEF FailExec, RecordFailure, ToClosing, Touched, AcquiringOn, Acquiring, IInv, Shape
  <2>2. cooldown[req[d].target] = 0  BY <2>1 DEF IInv, FreshReadsHold
  <2>3. req[d].target \in Targets
    BY <2>1, RequestsNameTargets DEF IInv, Shape
  <2> QED
    BY <2>1, <2>2, <2>3, <1>1 DEF FailExec, RecordFailure, IInv, Shape
<1>4. \A d \in Clients : Permitted(d)' => Permitted(d) /\ req'[d] = req[d]
  BY DEF FailExec, RecordFailure, ToClosing, Permitted, Live, Holding, IInv, Shape
<1> QED  BY <1>2, <1>3, <1>4, QuietStep

LEMMA FailAbortPreserves ==
  ASSUME IInv, NEW c \in Clients, FailAbort(c)  PROVE  IInv'
<1>1. Shape'  BY OldIsNat, GateAssumption DEF IInv, Shape, FailAbort, ToClosing, Touched, Holding
<1>2. \A d \in Clients : Permitted(d)' => Permitted(d) /\ req'[d] = req[d]
  BY DEF IInv, Shape, FailAbort, ToClosing, Touched, Permitted, Live, Holding
<1>3. \A d \in Clients : pc'[d] = "admitting" /\ ~dirty'[d] =>
        pc[d] = "admitting" /\ ~dirty[d] /\ req'[d] = req[d] /\ cooldown' = cooldown
  BY DEF IInv, Shape, FailAbort, ToClosing, Touched, Holding
<1> QED
  BY <1>1, <1>2, <1>3, QuietStep DEF IInv, FreshReadsHold

LEMMA SucceedPreserves ==
  ASSUME IInv, NEW c \in Clients, Succeed(c)  PROVE  IInv'
<1>1. Shape'
  <2>1. kept' \in [Clients -> 0..Old]
    BY OldIsNat DEF IInv, Shape, Succeed
  <2>2. \A d \in Clients : kept'[d] = kept[d] \/ kept'[d] = Old
    BY DEF IInv, Shape, Succeed
  <2>3. \A d \in Clients : pc'[d] \notin {"admitting", "failing"} => kept'[d] = Old
    BY <2>2 DEF IInv, Shape, Succeed, ToClosing
  <2>4. dirty' \in [Clients -> BOOLEAN]  BY DEF IInv, Shape, Succeed, Touched
  <2>5. lag' \in [Clients -> 0..FailureWindow]
    BY GateAssumption DEF IInv, Shape, Succeed, ToClosing
  <2> QED  BY <2>1, <2>3, <2>4, <2>5 DEF IInv, Shape, Succeed, ToClosing, Holding
<1>2. \A d \in Clients : Permitted(d)' => Permitted(d) /\ req'[d] = req[d]
  <2>1. \A d \in Clients : pc[d] = "admitting" => kept'[d] = kept[d]
    BY DEF IInv, Shape, Succeed, FailingOn
  <2> QED  BY <2>1 DEF IInv, Shape, Succeed, ToClosing, Permitted, Live, Holding
<1>3. \A d \in Clients : pc'[d] = "admitting" /\ ~dirty'[d] =>
        pc[d] = "admitting" /\ ~dirty[d] /\ req'[d] = req[d] /\ cooldown' = cooldown
  BY DEF IInv, Shape, Succeed, ToClosing, Touched, Holding
<1> QED
  BY <1>1, <1>2, <1>3, QuietStep DEF IInv, FreshReadsHold

LEMMA EndUnreportedPreserves ==
  ASSUME IInv, NEW c \in Clients, EndUnreported(c)  PROVE  IInv'
<1>1. Shape'  BY OldIsNat, GateAssumption DEF IInv, Shape, EndUnreported, ToClosing, Holding
<1>2. \A d \in Clients : Permitted(d)' => Permitted(d) /\ req'[d] = req[d]
  BY DEF IInv, Shape, EndUnreported, ToClosing, Permitted, Live, Holding
<1>3. \A d \in Clients : pc'[d] = "admitting" /\ ~dirty'[d] =>
        pc[d] = "admitting" /\ ~dirty[d] /\ req'[d] = req[d] /\ cooldown' = cooldown
  BY DEF IInv, Shape, EndUnreported, ToClosing, Holding
<1> QED
  BY <1>1, <1>2, <1>3, QuietStep DEF IInv, FreshReadsHold

LEMMA ReleasePreserves ==
  ASSUME IInv, NEW c \in Clients, Release(c)  PROVE  IInv'
<1>1. Shape'  BY OldIsNat, GateAssumption DEF IInv, Shape, Release, Leave, Touched, Holding
<1>2. \A d \in Clients : Permitted(d)' => Permitted(d) /\ req'[d] = req[d]
  BY DEF IInv, Shape, Release, Leave, Touched, Permitted, Live, Holding
<1>3. \A d \in Clients : pc'[d] = "admitting" /\ ~dirty'[d] =>
        pc[d] = "admitting" /\ ~dirty[d] /\ req'[d] = req[d] /\ cooldown' = cooldown
  BY DEF IInv, Shape, Release, Leave, Touched, Holding
<1> QED
  BY <1>1, <1>2, <1>3, QuietStep DEF IInv, FreshReadsHold

LEMMA LosePreserves ==
  ASSUME IInv, NEW c \in Clients, Lose(c)  PROVE  IInv'
<1>1. Shape'  BY OldIsNat, GateAssumption DEF IInv, Shape, Lose, Touched, Holding
<1>2. \A d \in Clients : Permitted(d)' => Permitted(d) /\ req'[d] = req[d]
  BY DEF IInv, Shape, Lose, Touched, Permitted, Live, Holding
<1>3. \A d \in Clients : pc'[d] = "admitting" /\ ~dirty'[d] =>
        pc[d] = "admitting" /\ ~dirty[d] /\ req'[d] = req[d] /\ cooldown' = cooldown
  BY DEF IInv, Shape, Lose, Touched, Holding
<1> QED
  BY <1>1, <1>2, <1>3, QuietStep DEF IInv, FreshReadsHold

\* Time only ends permits and cooldowns.
LEMMA TickPreserves ==
  ASSUME IInv, Tick  PROVE  IInv'
<1>1. Cooldown \in Nat /\ Old \in Nat  BY GateAssumption, OldIsNat
<1>2. Shape'
  <2>1. cooldown' \in [Targets -> 0..Cooldown]
    <3>1. \A t \in Targets : cooldown[t] \in 0..Cooldown  BY DEF IInv, Shape
    <3>2. \A t \in Targets :
            (IF cooldown[t] = 0 THEN 0 ELSE cooldown[t] - 1) \in 0..Cooldown
      BY <1>1, <3>1
    <3> QED  BY <3>2 DEF Tick
  <2>2. age' \in [Clients -> 0..Old]
    BY <1>1 DEF IInv, Shape, Tick
  <2>3. kept' \in [Clients -> 0..Old]
    BY <1>1 DEF IInv, Shape, Tick
  <2>5. lag' \in [Clients -> 0..FailureWindow]
    <3>1. FailureWindow \in Nat  BY GateAssumption
    <3> QED  BY <3>1 DEF IInv, Shape, Tick
  <2>6. /\ pc' \in [Clients -> {"idle", "admitting"} \cup Holding]
        /\ req' \in [Clients -> Requests \cup {NoRequest}]
        /\ \A c \in Clients : pc'[c] # "idle" => req'[c] \in Requests
    BY DEF IInv, Shape, Tick, Holding
  <2>7. dirty' \in [Clients -> BOOLEAN]  BY DEF IInv, Shape, Tick
  <2>4. \A c \in Clients : pc'[c] \notin {"admitting", "failing"} => kept'[c] = Old
    BY <1>1 DEF IInv, Shape, Tick, Forgotten
  <2> QED  BY <2>1, <2>2, <2>3, <2>4, <2>5, <2>6, <2>7 DEF Shape
<1>3. ASSUME NEW d \in Clients, pc'[d] = "admitting", ~dirty'[d]
      PROVE  /\ pc[d] = "admitting" /\ ~dirty[d] /\ req'[d] = req[d]
             /\ cooldown'[req[d].target] = 0
  <2>1. pc[d] = "admitting" /\ ~dirty[d] /\ req'[d] = req[d]
    BY <1>3 DEF Tick, Forgotten, IInv, Shape
  <2>2. cooldown[req[d].target] = 0  BY <2>1 DEF IInv, FreshReadsHold
  <2>3. req[d].target \in Targets
    BY <2>1, RequestsNameTargets DEF IInv, Shape
  <2> QED  BY <2>1, <2>2, <2>3 DEF Tick
<1>4. \A d \in Clients : Permitted(d)' => Permitted(d) /\ req'[d] = req[d]
  <2> SUFFICES ASSUME NEW d \in Clients, Permitted(d)'
               PROVE  Permitted(d) /\ req'[d] = req[d]
    OBVIOUS
  <2>1. d \notin Forgotten /\ pc'[d] = pc[d] /\ req'[d] = req[d]
    BY DEF Tick, Forgotten, Permitted, Holding, IInv, Shape
  <2>2. /\ age[d] \in 0..Old /\ (pc[d] # "idle" => age'[d] >= age[d])
        /\ kept[d] \in 0..Old /\ kept'[d] >= kept[d] /\ Ttl \in Nat
        /\ age'[d] \in Nat /\ kept'[d] \in Nat
    BY <1>1, <2>1, GateAssumption DEF Tick, IInv, Shape
  <2> QED  BY <1>1, <2>1, <2>2 DEF Permitted, Live, Holding
<1> QED  BY <1>2, <1>3, <1>4, QuietStep

-----------------------------------------------------------------------------
(* The theorems.                                                           *)

\* The invariant is inductive: acquire, authentication_failed, release, the
\* loss of a process and the passing of time all preserve it.
THEOREM Invariance == Spec => []IInv
<1>1. Init => IInv
  <2> SUFFICES ASSUME Init PROVE IInv  OBVIOUS
  <2>1. Shape  BY GateAssumption, OldIsNat DEF Init, Shape
  <2>2. FreshReadsHold  BY DEF Init, FreshReadsHold
  <2>3. LimitsHold
    <3>1. \A k : Active(k) = {}  BY DEF Init, Active, Permitted, Holding
    <3> QED  BY <3>1, FS_EmptySet, LimitsArePositive DEF LimitsHold, AllActiveKeys
  <2> QED  BY <2>1, <2>2, <2>3 DEF IInv
<1>2. IInv /\ [Next]_vars => IInv'
  <2> SUFFICES ASSUME IInv, [Next]_vars PROVE IInv'  OBVIOUS
  <2>1. CASE \E c \in Clients, r \in Requests : AcquireRead(c, r)
    BY <2>1, AcquireReadPreserves
  <2>2. CASE \E c \in Clients : Progress(c)
    <3> PICK c \in Clients : Progress(c)  BY <2>2
    <3>1. CASE AcquireExec(c)    BY <3>1, AcquireExecPreserves
    <3>2. CASE AcquireAbort(c)   BY <3>2, AcquireAbortPreserves
    <3>3. CASE FailRead(c)       BY <3>3, FailReadPreserves
    <3>4. CASE FailExec(c)       BY <3>4, FailExecPreserves
    <3>5. CASE FailAbort(c)      BY <3>5, FailAbortPreserves
    <3>6. CASE Succeed(c)        BY <3>6, SucceedPreserves
    <3>7. CASE EndUnreported(c)  BY <3>7, EndUnreportedPreserves
    <3>8. CASE Release(c)        BY <3>8, ReleasePreserves
    <3>9. CASE AcquireAgain(c)   BY <3>9, AcquireAgainPreserves
    <3> QED
      BY <3>1, <3>2, <3>3, <3>4, <3>5, <3>6, <3>7, <3>8, <3>9 DEF Progress
  <2>3. CASE \E c \in Clients : Lose(c)  BY <2>3, LosePreserves
  <2>4. CASE Tick                        BY <2>4, TickPreserves
  <2>5. CASE UNCHANGED vars
    <3>1. Shape'  BY <2>5 DEF IInv, Shape, vars, clientVars
    <3>2. \A d \in Clients : Permitted(d)' => Permitted(d) /\ req'[d] = req[d]
      BY <2>5 DEF Permitted, Live, vars, clientVars
    <3> QED
      BY <3>1, <3>2, <2>5, QuietStep DEF IInv, FreshReadsHold, vars, clientVars
  <2> QED  BY <2>1, <2>2, <2>3, <2>4, <2>5 DEF Next
<1> QED  BY <1>1, <1>2, PTL DEF Spec

\* Whatever the limits and however many callers race, no limit on live permits
\* is exceeded: acquire's WATCH and EXEC are enough.
THEOREM LimitsAlwaysHold == Spec => []LimitsHold
BY Invariance, PTL DEF IInv

\* A caller is admitted only while its endpoint has no cooldown, even one that
\* read before the failure that closed the endpoint.
THEOREM ClosedEndpointsAdmitNobody == Spec => NoAdmissionInCooldown
<1> DEFINE Admitted(c) == pc'[c] = "open" \/ kept'[c] < kept[c]
           Step == \A c \in Clients : pc[c] = "admitting" /\ Admitted(c)
                                    => cooldown[req[c].target] = 0
<1>1. IInv /\ [Next]_vars => [Step]_vars
  <2> SUFFICES ASSUME IInv, Next PROVE Step  OBVIOUS
  <2> SUFFICES ASSUME NEW c \in Clients, pc[c] = "admitting", Admitted(c)
               PROVE  cooldown[req[c].target] = 0
    OBVIOUS
  <2>0. kept \in [Clients -> 0..Old] /\ Old \in Nat  BY OldIsNat DEF IInv, Shape
  <2>2. ~(pc'[c] = "admitting" /\ kept'[c] = kept[c])  BY <2>0
  <2>1. AcquireExec(c)
    <3>1. ASSUME NEW d \in Clients, Progress(d) PROVE d = c /\ AcquireExec(c)
      <4>1. CASE AcquireExec(d)
        <5>1. d = c  BY <4>1, <2>0 DEF AcquireExec, Admit, IInv, Shape
        <5> QED  BY <4>1, <5>1
      <4>2. ~AcquireAgain(d)  BY <2>0 DEF AcquireAgain
      <4>3. ~AcquireAbort(d)
        BY <2>0 DEF AcquireAbort, Leave, IInv, Shape
      <4>4. ~FailRead(d)
        <5>1. FailRead(d) => pc'[c] = "admitting" /\ kept'[c] = kept[c]
          BY DEF FailRead, IInv, Shape
        <5> QED  BY <5>1, <2>2
      <4>7. ~FailAbort(d)  BY <2>0 DEF FailAbort, ToClosing, IInv, Shape
      <4>8. ~EndUnreported(d)  BY <2>0 DEF EndUnreported, ToClosing, IInv, Shape
      <4>5. ~FailExec(d)
        BY <2>0 DEF FailExec, RecordFailure, ToClosing, IInv, Shape
      <4>6. ~Succeed(d)
        <5>1. Succeed(d) => pc'[c] = "admitting" /\ kept'[c] = kept[c]
          BY DEF Succeed, FailingOn, ToClosing, IInv, Shape
        <5> QED  BY <5>1, <2>2
      <4>9. ~Release(d)  BY <2>0 DEF Release, Leave, IInv, Shape
      <4> QED
        BY <3>1, <4>1, <4>2, <4>3, <4>4, <4>5, <4>6, <4>7, <4>8, <4>9 DEF Progress
    <3>2. \A d \in Clients, r \in Requests : ~AcquireRead(d, r)
      BY <2>0 DEF AcquireRead, IInv, Shape
    <3>3. \A d \in Clients : ~Lose(d)  BY <2>0 DEF Lose, IInv, Shape
    <3>4. ~Tick  BY <2>0 DEF Tick, Forgotten, IInv, Shape
    <3> QED  BY <3>1, <3>2, <3>3, <3>4 DEF Next
  <2> QED  BY <2>1 DEF AcquireExec, IInv, FreshReadsHold
<1> QED  BY <1>1, Invariance, PTL DEF Spec, NoAdmissionInCooldown

-----------------------------------------------------------------------------
(* Windows: the second inductive invariant.                                *)

\* The oldest entry comes first.
Aged(ages) == \A i, j \in DOMAIN ages : i <= j => ages[j] <= ages[i]

\* No time has passed for an attempt that has not begun.
AttemptsBeginNow == \A c \in Clients : pc[c] = "idle" => age[c] = 0

\* Transactions are dated in the order in which they are executed.
WindowsAreSorted ==
  /\ \A k \in AllRateKeys : Aged(rate[k])
  /\ \A t \in Targets : Aged(failures[t])

\* An acquire that may still go through is admitted by the rate, and is dated
\* after everybody that was.
FreshAdmissions ==
  \A c \in Clients : pc[c] = "admitting" /\ ~dirty[c] =>
    \A k \in RateKeys(req[c]) : /\ Len(rate[k]) < RateLimit(k)
                                /\ \A i \in DOMAIN rate[k] : age[c] <= rate[k][i]

\* A failure that may still be recorded knows whether it starts the cooldown.
FreshFailures ==
  \A c \in Clients : pc[c] = "failing" /\ ~dirty[c] =>
    /\ Len(failures[req[c].target]) + 1 >= FailureLimit => trips[c]
    /\ \A i \in DOMAIN failures[req[c].target] : lag[c] <= failures[req[c].target][i]

\* The cooldown lasts as long as it should after the failure that came last.
CooldownsLast ==
  \A t \in Targets :
    Len(failures[t]) >= FailureLimit =>
      cooldown[t] + failures[t][Len(failures[t])] >= Cooldown

WInv ==
  /\ TypeOK
  /\ AttemptsBeginNow
  /\ WindowsAreSorted
  /\ FreshAdmissions
  /\ RatesHold
  /\ FreshFailures
  /\ CooldownsLast

-----------------------------------------------------------------------------
(* Lemmas about a window.                                                  *)

\* The bounds are numbers.
LEMMA BoundsAreNumbers ==
  /\ RateWindow \in Nat \ {0} /\ FailureWindow \in Nat \ {0} /\ FailureLimit \in Nat \ {0}
  /\ Cooldown \in Nat \ {0} /\ Attempts \in Nat \ {0} /\ Old \in Nat
  /\ Ttl \in Nat \ {0} /\ Ttl <= Old /\ RateWindow <= Old /\ FailureWindow <= Old
  /\ \A k : RateLimit(k) \in Nat
BY GateAssumption, OldIsNat DEF RateLimit

\* The windows of a request are windows of the gate, its endpoint one of the
\* endpoints.
LEMMA RequestsAreKnown ==
  ASSUME NEW r \in Requests
  PROVE  r.target \in Targets /\ RateKeys(r) \subseteq AllRateKeys /\ r # NoRequest
BY RequestsNameTargets, GateAssumption DEF AllRateKeys

\* A tick removes the front of a window and makes the rest a tick older.
LEMMA OlderIsTheRest ==
  ASSUME NEW w \in Nat, NEW ages \in Seq(0..w - 1), Aged(ages)
  PROVE  /\ Older(ages, w) \in Seq(0..w - 1) /\ Aged(Older(ages, w))
         /\ Len(Older(ages, w)) <= Len(ages)
         /\ \E n \in 0..Len(ages) :
              /\ Len(Older(ages, w)) = Len(ages) - n
              /\ \A i \in 1..Len(Older(ages, w)) : Older(ages, w)[i] = ages[i + n] + 1
<1> DEFINE young == {i \in DOMAIN ages : ages[i] + 1 < w}
           older == [i \in DOMAIN ages |-> ages[i] + 1]
           f == CHOOSE i \in young : \A j \in young : i <= j
           O == Older(ages, w)
<1>1. /\ Len(ages) \in Nat /\ DOMAIN ages = 1..Len(ages)
      /\ \A i \in 1..Len(ages) : ages[i] \in 0..w - 1
  OBVIOUS
<1>2. O = IF young = {} THEN << >> ELSE SubSeq(older, f, Len(ages))  BY DEF Older
<1>3. CASE young = {}
  <2>1. O = << >> /\ Len(O) = 0  BY <1>2, <1>3
  <2>2. O \in Seq(0..w - 1) /\ Aged(O)  BY <2>1 DEF Aged
  <2> HIDE DEF O
  <2>3. \E n \in 0..Len(ages) :
          /\ Len(O) = Len(ages) - n
          /\ \A i \in 1..Len(O) : O[i] = ages[i + n] + 1
    <3>1. Len(ages) \in 0..Len(ages) /\ Len(O) = Len(ages) - Len(ages)  BY <1>1, <2>1
    <3>2. \A i \in 1..Len(O) : O[i] = ages[i + Len(ages)] + 1  BY <2>1
    <3> QED  BY <3>1, <3>2
  <2>4. Len(O) <= Len(ages)  BY <1>1, <2>1
  <2> QED  BY <2>2, <2>3, <2>4 DEF O
<1>4. CASE young # {}
  <2>1. f \in young /\ \A j \in young : f <= j
    <3>1. young \subseteq Nat  BY <1>1
    <3>2. \E i \in young : \A j \in young : i <= j  BY <3>1, <1>4, LeastNatural
    <3> QED  BY <3>2
  <2>2. f \in 1..Len(ages) /\ ages[f] + 1 < w  BY <2>1, <1>1
  <2> HIDE DEF f
  <2>3. \A i \in f..Len(ages) : older[i] = ages[i] + 1 /\ older[i] \in 0..w - 1
    <3>1. \A i \in f..Len(ages) : i \in 1..Len(ages) /\ ages[i] <= ages[f] /\ ages[i] \in 0..w - 1
      <4> SUFFICES ASSUME NEW i \in f..Len(ages)
                   PROVE  i \in 1..Len(ages) /\ ages[i] <= ages[f] /\ ages[i] \in 0..w - 1
        OBVIOUS
      <4>1. i \in 1..Len(ages) /\ f <= i  BY <1>1, <2>2
      <4>2. ages[i] <= ages[f]  BY <1>1, <2>2, <4>1 DEF Aged
      <4> QED  BY <4>1, <4>2, <1>1
    <3> QED  BY <1>1, <2>2, <3>1
  <2>4. /\ O \in Seq(0..w - 1) /\ Len(O) = Len(ages) - f + 1
        /\ \A i \in 1..Len(ages) - f + 1 : O[i] = older[f + i - 1]
    <3> HIDE DEF older
    <3>1. f \in Int /\ Len(ages) \in Int /\ f <= Len(ages)  BY <1>1, <2>2
    <3>2. /\ SubSeq(older, f, Len(ages)) \in Seq(0..w - 1)
          /\ Len(SubSeq(older, f, Len(ages))) = Len(ages) - f + 1
          /\ \A i \in 1..Len(ages) - f + 1 : SubSeq(older, f, Len(ages))[i] = older[f + i - 1]
      BY <2>3, <3>1, SubSeqProperties
    <3> QED  BY <3>2, <1>2, <1>4
  <2> DEFINE n == f - 1
  <2> HIDE DEF O, older
  <2>5. n \in 0..Len(ages) /\ Len(O) = Len(ages) - n /\ Len(O) <= Len(ages)  BY <2>2, <2>4, <1>1
  <2>6. \A i \in 1..Len(O) : O[i] = ages[i + n] + 1
    <3> SUFFICES ASSUME NEW i \in 1..Len(O) PROVE O[i] = ages[i + n] + 1  OBVIOUS
    <3>1. /\ i \in 1..Len(ages) - f + 1 /\ f + i - 1 = i + n
          /\ f + i - 1 \in f..Len(ages)
      BY <2>2, <2>4, <1>1
    <3>2. O[i] = older[f + i - 1]  BY <3>1, <2>4
    <3>3. older[f + i - 1] = ages[f + i - 1] + 1  BY <3>1, <2>3
    <3> QED  BY <3>1, <3>2, <3>3
  <2>7. Aged(O)
    <3> SUFFICES ASSUME NEW i \in 1..Len(O), NEW j \in 1..Len(O), i <= j PROVE O[j] <= O[i]
      <4>1. DOMAIN O = 1..Len(O)  BY <2>4
      <4> QED  BY <4>1 DEF Aged
    <3> HIDE DEF n
    <3>1. i + n \in 1..Len(ages) /\ j + n \in 1..Len(ages) /\ i + n <= j + n
      BY <2>5, <1>1
    <3>2. ages[j + n] <= ages[i + n] /\ ages[j + n] \in Int /\ ages[i + n] \in Int
      BY <3>1, <1>1 DEF Aged
    <3> QED  BY <3>2, <2>6
  <2> QED  BY <2>4, <2>5, <2>6, <2>7 DEF O
<1> QED  BY <1>3, <1>4

\* What is left when an entry is taken out of a window was there before.
LEMMA RemovingKeepsOrder ==
  ASSUME NEW w \in Nat, NEW ages \in Seq(0..w - 1), Aged(ages), NEW e
  PROVE  /\ RemoveFirst(ages, e) \in Seq(0..w - 1) /\ Aged(RemoveFirst(ages, e))
         /\ Len(RemoveFirst(ages, e)) <= Len(ages)
         /\ \A i \in DOMAIN RemoveFirst(ages, e) :
              \E j \in DOMAIN ages : RemoveFirst(ages, e)[i] = ages[j]
<1> DEFINE found == {i \in 1..Len(ages) : ages[i] = e}
           f == CHOOSE i \in found : \A j \in found : i <= j
           L == SubSeq(ages, 1, f - 1)
           T == SubSeq(ages, f + 1, Len(ages))
           R == RemoveFirst(ages, e)
<1>1. Len(ages) \in Nat /\ DOMAIN ages = 1..Len(ages)  OBVIOUS
<1>2. CASE found = {}
  <2>1. R = ages  BY <1>2 DEF RemoveFirst
  <2> QED  BY <1>1, <2>1
<1>3. CASE found # {}
  <2>1. R = L \o T  BY <1>3 DEF RemoveFirst, RemoveAt, SelectInSeq, Min
  <2>2. f \in 1..Len(ages)
    <3>1. found \subseteq Nat  BY <1>1
    <3>2. \E i \in found : \A j \in found : i <= j  BY <3>1, <1>3, LeastNatural
    <3>3. f \in found  BY <3>2
    <3> QED  BY <3>3
  <2> HIDE DEF f
  <2>3. /\ L \in Seq(0..w - 1) /\ Len(L) = f - 1
        /\ \A n \in 1..f - 1 : L[n] = ages[n]
    <3>1. 1 \in 1..Len(ages) + 1 /\ f - 1 \in 0..Len(ages)  BY <1>1, <2>2
    <3>2. /\ L \in Seq(0..w - 1) /\ Len(L) = (IF 1 <= f - 1 THEN f - 1 - 1 + 1 ELSE 0)
          /\ \A n \in 1..Len(L) : L[n] = ages[n + 1 - 1]
      BY <3>1, WindowOf
    <3>3. Len(L) = f - 1  BY <2>2, <3>2
    <3> HIDE DEF L
    <3>4. \A n \in 1..f - 1 : n + 1 - 1 = n  OBVIOUS
    <3> QED  BY <3>2, <3>3, <3>4
  <2>4. /\ T \in Seq(0..w - 1) /\ Len(T) = Len(ages) - f
        /\ \A n \in 1..Len(ages) - f : T[n] = ages[n + f]
    <3>1. f + 1 \in 1..Len(ages) + 1 /\ Len(ages) \in 0..Len(ages)  BY <1>1, <2>2
    <3>2. /\ T \in Seq(0..w - 1)
          /\ Len(T) = (IF f + 1 <= Len(ages) THEN Len(ages) - (f + 1) + 1 ELSE 0)
          /\ \A n \in 1..Len(T) : T[n] = ages[n + (f + 1) - 1]
      BY <3>1, WindowOf
    <3>3. Len(T) = Len(ages) - f
      <4>1. CASE f = Len(ages)  BY <4>1, <1>1, <2>2, <3>2
      <4>2. CASE f # Len(ages)
        <5>1. f \in Int /\ Len(ages) \in Int /\ f <= Len(ages)  BY <1>1, <2>2
        <5>2. \A x, y \in Int : x <= y /\ x # y => x + 1 <= y /\ y - (x + 1) + 1 = y - x
          OBVIOUS
        <5>3. f + 1 <= Len(ages) /\ Len(ages) - (f + 1) + 1 = Len(ages) - f
          BY <4>2, <5>1, <5>2
        <5> QED  BY <5>3, <3>2
      <4> QED  BY <4>1, <4>2
    <3> HIDE DEF T
    <3>4. \A n \in 1..Len(ages) - f : n + (f + 1) - 1 = n + f  BY <1>1, <2>2
    <3> QED  BY <3>2, <3>3, <3>4
  <2> HIDE DEF L, T
  <2> DEFINE at(i) == IF i < f THEN i ELSE i + 1
  <2>5. /\ R \in Seq(0..w - 1) /\ Len(R) = Len(ages) - 1
        /\ \A i \in 1..Len(ages) - 1 : at(i) \in 1..Len(ages) /\ R[i] = ages[at(i)]
    <3>1. /\ L \o T \in Seq(0..w - 1) /\ Len(L \o T) = Len(L) + Len(T)
          /\ \A i \in 1..Len(L) + Len(T) :
               (L \o T)[i] = IF i <= Len(L) THEN L[i] ELSE T[i - Len(L)]
      BY <2>3, <2>4, ConcatProperties
    <3>2. Len(L) + Len(T) = Len(ages) - 1  BY <1>1, <2>2, <2>3, <2>4
    <3>3. ASSUME NEW i \in 1..Len(ages) - 1
          PROVE  at(i) \in 1..Len(ages) /\ (L \o T)[i] = ages[at(i)]
      <4>1. CASE i < f
        <5>1. i <= Len(L) /\ i \in 1..f - 1 /\ i \in 1..Len(ages)  BY <4>1, <1>1, <2>2, <2>3
        <5> QED  BY <4>1, <5>1, <3>1, <3>2, <2>3
      <4>2. CASE ~(i < f)
        <5>1. /\ ~(i <= Len(L)) /\ i - Len(L) \in 1..Len(ages) - f
              /\ (i - Len(L)) + f = i + 1 /\ i + 1 \in 1..Len(ages)
          BY <4>2, <1>1, <2>2, <2>3
        <5>2. T[i - Len(L)] = ages[i + 1]  BY <5>1, <2>4
        <5> QED  BY <4>2, <5>1, <5>2, <3>1, <3>2
      <4> QED  BY <4>1, <4>2
    <3> HIDE DEF at, R
    <3> QED  BY <2>1, <3>1, <3>2, <3>3
  <2>6. DOMAIN R = 1..Len(ages) - 1  BY <2>5
  <2> HIDE DEF R
  <2>7. Aged(R)
    <3> SUFFICES ASSUME NEW i \in 1..Len(ages) - 1, NEW j \in 1..Len(ages) - 1, i <= j
                 PROVE  R[j] <= R[i]
      BY <2>6 DEF Aged
    <3>1. at(i) \in DOMAIN ages /\ at(j) \in DOMAIN ages  BY <1>1, <2>5
    <3>2. at(i) <= at(j)  BY <1>1, <2>2
    <3>3. R[i] = ages[at(i)] /\ R[j] = ages[at(j)]  BY <2>5
    <3> HIDE DEF at
    <3> QED  BY <3>1, <3>2, <3>3 DEF Aged
  <2>8. Len(R) <= Len(ages)  BY <1>1, <2>5
  <2>9. \A i \in DOMAIN R : \E j \in DOMAIN ages : R[i] = ages[j]
    <3> HIDE DEF at
    <3> QED  BY <1>1, <2>5, <2>6
  <2> QED  BY <2>5, <2>7, <2>8, <2>9 DEF R
<1> QED  BY <1>2, <1>3

\* What is dated after everything in a window goes to its end.
LEMMA DatedComesLast ==
  ASSUME NEW w \in Nat, NEW ages \in Seq(0..w - 1), Aged(ages), NEW a \in Nat,
         \A i \in DOMAIN ages : a <= ages[i]
  PROVE  /\ Dated(ages, a, w) \in Seq(0..w - 1) /\ Aged(Dated(ages, a, w))
         /\ \/ a < w /\ Len(Dated(ages, a, w)) = Len(ages) + 1
               /\ Dated(ages, a, w)[Len(ages) + 1] = a
            \/ a >= w /\ Dated(ages, a, w) = ages
<1> DEFINE D == Append(ages, a)
<1>1. CASE a < w
  <2>1. a \in 0..w - 1  BY <1>1
  <2>2. /\ D \in Seq(0..w - 1) /\ Len(D) = Len(ages) + 1
        /\ \A i \in 1..Len(ages) : D[i] = ages[i]
        /\ D[Len(ages) + 1] = a
    BY <2>1, AppendProperties
  <2> HIDE DEF D
  <2>3. Aged(D)
    <3> SUFFICES ASSUME NEW i \in 1..Len(ages) + 1, NEW j \in 1..Len(ages) + 1, i <= j
                 PROVE  D[j] <= D[i]
      <4>1. DOMAIN D = 1..Len(ages) + 1  BY <2>2
      <4> QED  BY <4>1 DEF Aged
    <3>1. CASE j = Len(ages) + 1
      <4>1. CASE i = j  BY <4>1, <3>1, <2>2
      <4>2. CASE i # j
        <5>1. i \in 1..Len(ages) /\ i \in DOMAIN ages  BY <4>2, <3>1
        <5> QED  BY <5>1, <3>1, <2>2
      <4> QED  BY <4>1, <4>2
    <3>2. CASE j # Len(ages) + 1
      <4>1. i \in DOMAIN ages /\ j \in DOMAIN ages /\ i \in 1..Len(ages) /\ j \in 1..Len(ages)
        BY <3>2
      <4> QED  BY <4>1, <2>2 DEF Aged
    <3> QED  BY <3>1, <3>2
  <2>4. Dated(ages, a, w) = D  BY <1>1 DEF Dated, D
  <2> QED  BY <1>1, <2>2, <2>3, <2>4
<1>2. CASE ~(a < w)
  <2>1. Dated(ages, a, w) = ages /\ a >= w  BY <1>2 DEF Dated
  <2> QED  BY <2>1
<1> QED  BY <1>1, <1>2

\* So does an entry that is taken out first.
LEMMA RedatedComesLast ==
  ASSUME NEW w \in Nat, NEW ages \in Seq(0..w - 1), Aged(ages), NEW e, NEW a \in Nat,
         \A i \in DOMAIN ages : a <= ages[i]
  PROVE  /\ Redated(ages, e, a, w) \in Seq(0..w - 1) /\ Aged(Redated(ages, e, a, w))
         /\ Len(Redated(ages, e, a, w)) <= Len(ages) + 1
<1> DEFINE R == RemoveFirst(ages, e)
<1>1. /\ R \in Seq(0..w - 1) /\ Aged(R) /\ Len(R) <= Len(ages)
      /\ \A i \in DOMAIN R : \E j \in DOMAIN ages : R[i] = ages[j]
  BY RemovingKeepsOrder
<1>2. Redated(ages, e, a, w) = Dated(R, a, w)  BY DEF Redated
<1> HIDE DEF R
<1>3. \A i \in DOMAIN R : a <= R[i]  BY <1>1
<1> DEFINE D == Dated(R, a, w)
<1>4. /\ D \in Seq(0..w - 1) /\ Aged(D)
      /\ Len(D) = Len(R) + 1 \/ D = R
  BY <1>1, <1>3, DatedComesLast
<1> HIDE DEF D
<1>5. Len(R) \in Nat /\ Len(ages) \in Nat  BY <1>1
<1>6. Len(D) <= Len(ages) + 1  BY <1>1, <1>4, <1>5
<1> QED  BY <1>2, <1>4, <1>5, <1>6 DEF D, R

-----------------------------------------------------------------------------
(* The steps that leave the windows alone.                                 *)

\* A step that writes no window and no cooldown, and after which nothing is
\* open that was not, preserves the invariant.
LEMMA QuietWindows ==
  ASSUME WInv, TypeOK', AttemptsBeginNow', UNCHANGED <<rate, failures, cooldown>>,
         \A d \in Clients : pc'[d] = "admitting" /\ ~dirty'[d] =>
           pc[d] = "admitting" /\ ~dirty[d] /\ req'[d] = req[d] /\ age'[d] = age[d],
         \A d \in Clients : pc'[d] = "failing" /\ ~dirty'[d] =>
           /\ pc[d] = "failing" /\ ~dirty[d] /\ req'[d] = req[d]
           /\ trips'[d] = trips[d] /\ lag'[d] = lag[d]
  PROVE  WInv'
<1>1. WindowsAreSorted' /\ RatesHold' /\ CooldownsLast'
  BY DEF WInv, WindowsAreSorted, RatesHold, CooldownsLast, AllRateKeys, RateKeys, RateLimit
<1>2. FreshAdmissions'
  BY DEF WInv, FreshAdmissions, RateKeys, RateLimit
<1>3. FreshFailures'
  BY DEF WInv, FreshFailures
<1> QED  BY <1>1, <1>2, <1>3 DEF WInv

LEMMA AcquireAbortKeepsWindows ==
  ASSUME WInv, NEW c \in Clients, AcquireAbort(c)  PROVE  WInv'
<1>1. TypeOK'
  <2>1. /\ tries' \in [Clients -> 0..Attempts] /\ dirty' \in [Clients -> BOOLEAN]
        /\ kept' \in [Clients -> 0..Old]
        /\ UNCHANGED <<lag, trips, rate, failures, cooldown>>
    BY BoundsAreNumbers DEF WInv, TypeOK, AcquireAbort, Touched
  <2>2. CASE kept[c] >= Ttl
    <3>1. Leave(c)  BY <2>2, BoundsAreNumbers DEF AcquireAbort, WInv, TypeOK
    <3>2. /\ pc' \in [Clients -> {"idle", "admitting"} \cup Holding]
          /\ req' \in [Clients -> Requests \cup {NoRequest}]
          /\ \A d \in Clients : req'[d] = NoRequest <=> pc'[d] = "idle"
          /\ age' \in [Clients -> 0..Old]
      BY <3>1, BoundsAreNumbers DEF WInv, TypeOK, Leave
    <3>3. \A d \in Clients : pc'[d] \notin {"admitting", "failing"} => kept'[d] = Old
      BY <3>1 DEF WInv, TypeOK, Leave, AcquireAbort
    <3> QED  BY <2>1, <3>2, <3>3 DEF WInv, TypeOK, AllRateKeys, RateKeys
  <2>3. CASE kept[c] < Ttl
    <3>1. /\ pc[c] = "admitting" /\ pc' = [pc EXCEPT ![c] = "lost"]
          /\ age' = [age EXCEPT ![c] = kept[c]] /\ req' = req
          /\ kept' = [kept EXCEPT ![c] = Old]
      BY <2>3, BoundsAreNumbers DEF AcquireAbort, WInv, TypeOK
    <3>2. /\ pc' \in [Clients -> {"idle", "admitting"} \cup Holding]
          /\ \A d \in Clients : req'[d] = NoRequest <=> pc'[d] = "idle"
          /\ age' \in [Clients -> 0..Old]
          /\ \A d \in Clients : pc'[d] \notin {"admitting", "failing"} => kept'[d] = Old
      BY <3>1 DEF WInv, TypeOK, Holding
    <3> QED  BY <2>1, <3>1, <3>2 DEF WInv, TypeOK, AllRateKeys, RateKeys
  <2> QED  BY <2>2, <2>3, BoundsAreNumbers DEF WInv, TypeOK
<1>2. AttemptsBeginNow'  BY DEF WInv, TypeOK, AttemptsBeginNow, AcquireAbort, Leave
<1>3. /\ UNCHANGED <<rate, failures, cooldown, lag, trips>> /\ dirty' = Touched({}, c)
      /\ \A d \in Clients \ {c} : pc'[d] = pc[d] /\ req'[d] = req[d] /\ age'[d] = age[d]
      /\ pc'[c] \in {"idle", "lost"}
  BY DEF WInv, TypeOK, AcquireAbort, Leave
<1> QED
  BY <1>1, <1>2, <1>3, QuietWindows DEF WInv, TypeOK, Touched

LEMMA FailAbortKeepsWindows ==
  ASSUME WInv, NEW c \in Clients, FailAbort(c)  PROVE  WInv'
<1>1. TypeOK'
  BY BoundsAreNumbers DEF WInv, TypeOK, FailAbort, ToClosing, Touched, Holding
<1>2. AttemptsBeginNow'  BY DEF WInv, TypeOK, AttemptsBeginNow, FailAbort, ToClosing
<1> QED
  BY <1>1, <1>2, QuietWindows DEF WInv, TypeOK, FailAbort, ToClosing, Touched

LEMMA EndUnreportedKeepsWindows ==
  ASSUME WInv, NEW c \in Clients, EndUnreported(c)  PROVE  WInv'
<1>1. TypeOK'
  BY BoundsAreNumbers DEF WInv, TypeOK, EndUnreported, ToClosing, Holding
<1>2. AttemptsBeginNow'  BY DEF WInv, TypeOK, AttemptsBeginNow, EndUnreported, ToClosing
<1> QED
  BY <1>1, <1>2, QuietWindows DEF WInv, TypeOK, EndUnreported, ToClosing

LEMMA ReleaseKeepsWindows ==
  ASSUME WInv, NEW c \in Clients, Release(c)  PROVE  WInv'
<1>1. TypeOK'
  BY BoundsAreNumbers, GateAssumption DEF WInv, TypeOK, Release, Leave, Touched
<1>2. AttemptsBeginNow'  BY DEF WInv, TypeOK, AttemptsBeginNow, Release, Leave
<1> QED
  BY <1>1, <1>2, QuietWindows DEF WInv, TypeOK, Release, Leave, Touched

LEMMA LoseKeepsWindows ==
  ASSUME WInv, NEW c \in Clients, Lose(c)  PROVE  WInv'
<1>1. TypeOK'
  BY BoundsAreNumbers DEF WInv, TypeOK, Lose, Touched, Holding
<1>2. AttemptsBeginNow'  BY DEF WInv, TypeOK, AttemptsBeginNow, Lose
<1> QED
  BY <1>1, <1>2, QuietWindows DEF WInv, TypeOK, Lose, Touched

\* What an acquire reads is compared now, and it is dated now.
LEMMA AcquireReadKeepsWindows ==
  ASSUME WInv, NEW c \in Clients, NEW r \in Requests, AcquireRead(c, r)
  PROVE  WInv'
<1>1. r # NoRequest /\ RateKeys(r) \subseteq AllRateKeys  BY RequestsAreKnown
<1>2. TypeOK' /\ AttemptsBeginNow'
  BY <1>1, BoundsAreNumbers DEF WInv, TypeOK, AttemptsBeginNow, AcquireRead
<1>3. WindowsAreSorted' /\ RatesHold' /\ CooldownsLast'
  BY DEF WInv, WindowsAreSorted, RatesHold, CooldownsLast, AllRateKeys, RateKeys, RateLimit,
         AcquireRead
<1>4. FreshAdmissions'
  <2> SUFFICES ASSUME NEW d \in Clients, pc'[d] = "admitting", ~dirty'[d],
                      NEW k \in RateKeys(req'[d])
               PROVE  /\ Len(rate[k]) < RateLimit(k)
                      /\ \A i \in DOMAIN rate[k] : age[d] <= rate[k][i]
    BY DEF FreshAdmissions, RateKeys, RateLimit, AcquireRead
  <2>1. CASE d = c
    <3>1. req'[c] = r /\ age[c] = 0 /\ k \in AllRateKeys
      BY <1>1, <2>1 DEF WInv, TypeOK, AttemptsBeginNow, AcquireRead
    <3>2. rate[k] \in Seq(0..RateWindow - 1)  BY <3>1 DEF WInv, TypeOK, Ages
    <3>3. \A i \in DOMAIN rate[k] : 0 <= rate[k][i]  BY <3>2, BoundsAreNumbers
    <3> QED  BY <2>1, <3>1, <3>3 DEF AcquireRead, Admissible
  <2>2. CASE d # c
    <3>1. pc[d] = "admitting" /\ ~dirty[d] /\ req'[d] = req[d]
      BY <2>2 DEF WInv, TypeOK, AcquireRead
    <3> QED  BY <3>1 DEF WInv, FreshAdmissions
  <2> QED  BY <2>1, <2>2
<1>5. FreshFailures'
  BY DEF WInv, TypeOK, FreshFailures, AcquireRead
<1> QED  BY <1>2, <1>3, <1>4, <1>5 DEF WInv

\* So is what it reads again.
LEMMA AcquireAgainKeepsWindows ==
  ASSUME WInv, NEW c \in Clients, AcquireAgain(c)
  PROVE  WInv'
<1>1. req[c] \in Requests /\ RateKeys(req[c]) \subseteq AllRateKeys
  BY RequestsAreKnown DEF WInv, TypeOK, AcquireAgain
<1>2. TypeOK' /\ AttemptsBeginNow'
  BY BoundsAreNumbers DEF WInv, TypeOK, AttemptsBeginNow, AcquireAgain
<1>3. WindowsAreSorted' /\ RatesHold' /\ CooldownsLast'
  BY DEF WInv, WindowsAreSorted, RatesHold, CooldownsLast, AllRateKeys, RateKeys, RateLimit,
         AcquireAgain
<1>4. FreshAdmissions'
  <2> SUFFICES ASSUME NEW d \in Clients, pc[d] = "admitting", ~dirty'[d],
                      NEW k \in RateKeys(req[d])
               PROVE  /\ Len(rate[k]) < RateLimit(k)
                      /\ \A i \in DOMAIN rate[k] : age'[d] <= rate[k][i]
    BY DEF FreshAdmissions, RateKeys, RateLimit, AcquireAgain
  <2>1. CASE d = c
    <3>1. age'[c] = 0 /\ k \in AllRateKeys
      BY <1>1, <2>1 DEF WInv, TypeOK, AcquireAgain
    <3>2. rate[k] \in Seq(0..RateWindow - 1)  BY <3>1 DEF WInv, TypeOK, Ages
    <3>3. \A i \in DOMAIN rate[k] : 0 <= rate[k][i]  BY <3>2, BoundsAreNumbers
    <3> QED  BY <2>1, <3>1, <3>3 DEF AcquireAgain, Admissible
  <2>2. CASE d # c
    BY <2>2 DEF WInv, TypeOK, AcquireAgain, FreshAdmissions
  <2> QED  BY <2>1, <2>2
<1>5. FreshFailures'
  BY DEF WInv, TypeOK, FreshFailures, AcquireAgain
<1> QED  BY <1>2, <1>3, <1>4, <1>5 DEF WInv

\* What a failure counts is counted now, and it is dated now.
LEMMA FailReadKeepsWindows ==
  ASSUME WInv, NEW c \in Clients, FailRead(c)  PROVE  WInv'
<1> DEFINE t == req[c].target
<1>1. t \in Targets /\ failures[t] \in Seq(0..FailureWindow - 1)
  <2>1. req[c] \in Requests  BY DEF WInv, TypeOK, FailRead
  <2>2. t \in Targets  BY <2>1, RequestsAreKnown
  <2> QED  BY <2>2 DEF WInv, TypeOK, Ages
<1>2. \A i \in DOMAIN failures[t] : 0 <= failures[t][i]
  BY <1>1, BoundsAreNumbers
<1> HIDE DEF t
<1>3. TypeOK'
  <2>1. tries' \in [Clients -> 0..Attempts]
    BY BoundsAreNumbers DEF WInv, TypeOK, FailRead
  <2>2. trips' \in [Clients -> BOOLEAN]  BY DEF WInv, TypeOK, FailRead
  <2> QED  BY <2>1, <2>2, BoundsAreNumbers DEF WInv, TypeOK, FailRead, Holding
<1>4. WindowsAreSorted' /\ RatesHold' /\ CooldownsLast'
  BY DEF WInv, WindowsAreSorted, RatesHold, CooldownsLast, AllRateKeys, RateKeys, RateLimit,
         FailRead
<1>5. FreshAdmissions'
  <2> SUFFICES ASSUME NEW d \in Clients, pc'[d] = "admitting", ~dirty'[d]
               PROVE  pc[d] = "admitting" /\ ~dirty[d]
    BY DEF WInv, FreshAdmissions, RateKeys, RateLimit, FailRead
  <2> QED  BY DEF WInv, TypeOK, FailRead
<1>6. FreshFailures'
  <2> SUFFICES ASSUME NEW d \in Clients, pc'[d] = "failing", ~dirty'[d]
               PROVE  /\ Len(failures[req[d].target]) + 1 >= FailureLimit => trips'[d]
                      /\ \A i \in DOMAIN failures[req[d].target] :
                           lag'[d] <= failures[req[d].target][i]
    BY DEF FreshFailures, FailRead
  <2>1. CASE d = c
    <3>1. lag'[c] = 0 /\ trips'[c] = (Len(failures[t]) + 1 >= FailureLimit)
      BY DEF WInv, TypeOK, FailRead, t
    <3> QED  BY <2>1, <3>1, <1>2 DEF t
  <2>2. CASE d # c
    BY <2>2 DEF WInv, TypeOK, FreshFailures, FailRead
  <2> QED  BY <2>1, <2>2
<1>7. AttemptsBeginNow'  BY DEF WInv, TypeOK, AttemptsBeginNow, FailRead
<1> QED  BY <1>3, <1>4, <1>5, <1>6, <1>7 DEF WInv

-----------------------------------------------------------------------------
(* The steps that write a window, and time.                                *)

\* EXEC of an acquire: the rate had room, and every other open acquire is dirty.
LEMMA AcquireExecKeepsWindows ==
  ASSUME WInv, NEW c \in Clients, AcquireExec(c)  PROVE  WInv'
<1>1. /\ pc[c] = "admitting" /\ ~dirty[c] /\ req[c] \in Requests
      /\ age[c] \in Nat /\ RateKeys(req[c]) \subseteq AllRateKeys
  BY BoundsAreNumbers, RequestsAreKnown DEF WInv, TypeOK, AcquireExec
<1>2. /\ pc' \in [Clients -> {"idle", "admitting"} \cup Holding]
      /\ pc'[c] \in {"open", "admitting"}
      /\ \A d \in Clients \ {c} : pc'[d] = pc[d]
      /\ UNCHANGED <<req, age, lag, trips, failures, cooldown>>
  BY DEF WInv, TypeOK, AcquireExec, Admit, Holding
<1>3. /\ dirty' \in [Clients -> BOOLEAN]
      /\ \A d \in Clients : ~dirty'[d] =>
           IF d = c THEN pc'[d] = "open" ELSE pc[d] # "admitting" /\ ~dirty[d]
  BY DEF WInv, TypeOK, AcquireExec, Admit, Touched, Acquiring
<1>11. /\ tries' \in [Clients -> 0..Attempts] /\ kept' \in [Clients -> 0..Old]
       /\ \A d \in Clients : pc'[d] \notin {"admitting", "failing"} => kept'[d] = Old
  <2>1. age[c] \in 0..Old /\ Old \in 0..Old /\ 0 \in 0..Attempts
    BY BoundsAreNumbers DEF WInv, TypeOK
  <2>2. \/ /\ pc' = [pc EXCEPT ![c] = "open"] /\ kept' = [kept EXCEPT ![c] = Old]
           /\ tries' = [tries EXCEPT ![c] = 0]
        \/ pc' = pc /\ kept' = [kept EXCEPT ![c] = age[c]] /\ tries' = tries
    BY DEF AcquireExec, Admit
  <2> QED  BY <1>1, <2>1, <2>2 DEF WInv, TypeOK
<1>4. \A k \in AllRateKeys :
        rate'[k] = IF k \in RateKeys(req[c]) THEN Redated(rate[k], kept[c], age[c], RateWindow)
                   ELSE rate[k]
  BY DEF AcquireExec, Admit
<1>5. ASSUME NEW k \in AllRateKeys
      PROVE  /\ rate'[k] \in Seq(0..RateWindow - 1) /\ Aged(rate'[k])
             /\ Len(rate'[k]) <= RateLimit(k)
  <2>1. /\ rate[k] \in Seq(0..RateWindow - 1) /\ Aged(rate[k])
        /\ Len(rate[k]) <= RateLimit(k)
    BY DEF WInv, TypeOK, Ages, WindowsAreSorted, RatesHold
  <2>2. CASE k \in RateKeys(req[c])
    <3>1. Len(rate[k]) < RateLimit(k) /\ \A i \in DOMAIN rate[k] : age[c] <= rate[k][i]
      BY <1>1, <2>2 DEF WInv, FreshAdmissions
    <3>2. /\ rate'[k] \in Seq(0..RateWindow - 1) /\ Aged(rate'[k])
          /\ Len(rate'[k]) <= Len(rate[k]) + 1
      BY <1>1, <1>4, <2>1, <2>2, <3>1, BoundsAreNumbers, RedatedComesLast
    <3>3. Len(rate[k]) \in Nat /\ Len(rate'[k]) \in Nat /\ RateLimit(k) \in Nat
      BY <2>1, <3>2, BoundsAreNumbers
    <3> QED  BY <3>1, <3>2, <3>3
  <2>3. CASE k \notin RateKeys(req[c])  BY <1>4, <2>1, <2>3
  <2> QED  BY <2>2, <2>3
<1>6. TypeOK'
  <2>1. rate' \in [AllRateKeys -> Ages(RateWindow)]
    <3>1. rate' = [k \in AllRateKeys |-> rate'[k]]  BY DEF AcquireExec, Admit
    <3> QED  BY <3>1, <1>5 DEF Ages
  <2>2. \A d \in Clients : req'[d] = NoRequest <=> pc'[d] = "idle"
    BY <1>1, <1>2, GateAssumption DEF WInv, TypeOK
  <2> QED
    BY <1>2, <1>3, <1>11, <2>1, <2>2 DEF WInv, TypeOK, Holding, Ages, AllRateKeys, RateKeys
<1>7. AttemptsBeginNow'  BY <1>2 DEF WInv, AttemptsBeginNow
<1>8. WindowsAreSorted' /\ RatesHold' /\ CooldownsLast'
  <2>1. WindowsAreSorted'
    BY <1>2, <1>5 DEF WInv, WindowsAreSorted, AllRateKeys, RateKeys
  <2>2. RatesHold'  BY <1>5 DEF RatesHold, AllRateKeys, RateKeys, RateLimit
  <2>3. CooldownsLast'  BY <1>2 DEF WInv, CooldownsLast
  <2> QED  BY <2>1, <2>2, <2>3
<1>9. FreshAdmissions'  BY <1>2, <1>3 DEF FreshAdmissions
<1>10. FreshFailures'  BY <1>2, <1>3 DEF WInv, FreshFailures
<1> QED  BY <1>6, <1>7, <1>8, <1>9, <1>10 DEF WInv

\* A success empties the window of its endpoint; whoever counted the failures
\* that were in it is dirty.
LEMMA SucceedKeepsWindows ==
  ASSUME WInv, NEW c \in Clients, Succeed(c)  PROVE  WInv'
<1> DEFINE t == req[c].target
<1>1. req[c] \in Requests /\ t \in Targets
  BY RequestsAreKnown DEF WInv, TypeOK, Succeed
<1>2. /\ pc[c] = "open" /\ pc' = [pc EXCEPT ![c] = "closing"]
      /\ lag' = [lag EXCEPT ![c] = 0] /\ tries' = [tries EXCEPT ![c] = 0]
      /\ trips' = [trips EXCEPT ![c] = FALSE] /\ failures' = [failures EXCEPT ![t] = << >>]
      /\ kept' = [d \in Clients |-> IF d \in FailingOn(t) THEN Old ELSE kept[d]]
      /\ UNCHANGED <<req, age, rate, cooldown>>
  BY DEF Succeed, ToClosing
<1>3. dirty' = Touched(FailingOn(t), c) \/ (failures[t] = << >> /\ dirty' = Touched({}, c))
  BY DEF Succeed
<1>4. dirty' \in [Clients -> BOOLEAN] /\ \A d \in Clients : ~dirty'[d] => d = c \/ ~dirty[d]
  BY <1>3 DEF WInv, TypeOK, Touched
<1>5. \A d \in Clients \ {c} : ~dirty'[d] /\ pc[d] = "failing" /\ req[d].target = t
        => failures[t] = << >>
  BY <1>3 DEF Touched, FailingOn
<1> HIDE DEF t
<1>6. failures'[t] = << >> /\ \A u \in Targets \ {t} : failures'[u] = failures[u]
  BY <1>1, <1>2 DEF WInv, TypeOK
<1>7. TypeOK'
  <2>1. failures' \in [Targets -> Ages(FailureWindow)]
    BY <1>1, <1>2 DEF WInv, TypeOK, Ages
  <2>2. /\ pc' \in [Clients -> {"idle", "admitting"} \cup Holding]
        /\ \A d \in Clients : req'[d] = NoRequest <=> pc'[d] = "idle"
    BY <1>2 DEF WInv, TypeOK, Holding
  <2>3. /\ lag' \in [Clients -> 0..FailureWindow] /\ tries' \in [Clients -> 0..Attempts]
        /\ trips' \in [Clients -> BOOLEAN]
    BY <1>2, BoundsAreNumbers DEF WInv, TypeOK
  <2>4. /\ kept' \in [Clients -> 0..Old]
        /\ \A d \in Clients : pc'[d] \notin {"admitting", "failing"} => kept'[d] = Old
    <3>1. \A d \in Clients : kept'[d] = kept[d] \/ kept'[d] = Old  BY <1>2
    <3>2. kept' \in [Clients -> 0..Old]
      BY <1>2, <3>1, BoundsAreNumbers DEF WInv, TypeOK
    <3> QED  BY <1>2, <3>1, <3>2 DEF WInv, TypeOK
  <2> QED  BY <2>1, <2>2, <2>3, <2>4, <1>2, <1>4 DEF WInv, TypeOK, AllRateKeys, RateKeys
<1>8. AttemptsBeginNow'  BY <1>2 DEF WInv, TypeOK, AttemptsBeginNow
<1>9. WindowsAreSorted'
  <2>1. Aged(<< >>)  BY DEF Aged
  <2> QED  BY <1>2, <1>6, <2>1 DEF WInv, WindowsAreSorted, AllRateKeys, RateKeys
<1>10. RatesHold'  BY <1>2 DEF WInv, RatesHold, AllRateKeys, RateKeys, RateLimit
<1>11. CooldownsLast'
  <2>1. ~(Len(<< >>) >= FailureLimit)  BY BoundsAreNumbers
  <2> QED  BY <1>2, <1>6, <2>1 DEF WInv, CooldownsLast
<1>12. FreshAdmissions'
  <2> SUFFICES ASSUME NEW d \in Clients, pc'[d] = "admitting", ~dirty'[d]
               PROVE  pc[d] = "admitting" /\ ~dirty[d]
    BY <1>2 DEF WInv, FreshAdmissions, RateKeys, RateLimit
  <2> QED  BY <1>2, <1>4 DEF WInv, TypeOK
<1>13. FreshFailures'
  <2> SUFFICES ASSUME NEW d \in Clients, pc'[d] = "failing", ~dirty'[d]
               PROVE  LET u == req[d].target
                      IN  /\ Len(failures'[u]) + 1 >= FailureLimit => trips'[d]
                          /\ \A i \in DOMAIN failures'[u] : lag'[d] <= failures'[u][i]
    BY <1>2 DEF FreshFailures
  <2>1. /\ d # c /\ pc[d] = "failing" /\ ~dirty[d]
        /\ trips'[d] = trips[d] /\ lag'[d] = lag[d] /\ req[d].target \in Targets
    BY <1>2, <1>4, RequestsAreKnown DEF WInv, TypeOK
  <2>2. failures'[req[d].target] = failures[req[d].target]
    BY <1>5, <1>6, <2>1
  <2> QED  BY <2>1, <2>2 DEF WInv, FreshFailures
<1> QED  BY <1>7, <1>8, <1>9, <1>10, <1>11, <1>12, <1>13 DEF WInv

\* EXEC of a failure, answered or not: it is dated last, and starts the cooldown
\* if it has to.
LEMMA FailExecKeepsWindows ==
  ASSUME WInv, NEW c \in Clients, FailExec(c)  PROVE  WInv'
<1> DEFINE t == req[c].target
<1>1. /\ pc[c] = "failing" /\ ~dirty[c] /\ req[c] \in Requests /\ t \in Targets
      /\ lag[c] \in Nat /\ failures[t] \in Seq(0..FailureWindow - 1)
      /\ Aged(failures[t]) /\ cooldown[t] \in 0..Cooldown
  <2>1. pc[c] = "failing" /\ ~dirty[c] /\ req[c] \in Requests /\ lag[c] \in Nat
    BY BoundsAreNumbers DEF WInv, TypeOK, FailExec
  <2>2. t \in Targets  BY <2>1, RequestsAreKnown
  <2> QED  BY <2>1, <2>2 DEF WInv, TypeOK, Ages, WindowsAreSorted
<1>2. /\ Len(failures[t]) + 1 >= FailureLimit => trips[c]
      /\ \A i \in DOMAIN failures[t] : lag[c] <= failures[t][i]
  BY <1>1 DEF WInv, FreshFailures
<1>3. /\ failures' = [failures EXCEPT ![t] = Redated(@, kept[c], lag[c], FailureWindow)]
      /\ cooldown' = [cooldown EXCEPT ![t] = IF trips[c] THEN Cooldown ELSE @]
      /\ UNCHANGED <<req, age, rate>>
      /\ \/ /\ pc' = [pc EXCEPT ![c] = "closing"]
            /\ lag' = [lag EXCEPT ![c] = 0] /\ tries' = [tries EXCEPT ![c] = 0]
            /\ trips' = [trips EXCEPT ![c] = FALSE] /\ kept' = [kept EXCEPT ![c] = Old]
         \/ UNCHANGED <<pc, lag, tries, trips>> /\ kept' = [kept EXCEPT ![c] = lag[c]]
  BY DEF FailExec, RecordFailure, ToClosing
<1>4. /\ dirty' \in [Clients -> BOOLEAN]
      /\ \A d \in Clients \ {c} : ~dirty'[d] =>
           ~dirty[d] /\ ~(pc[d] = "failing" /\ req[d].target = t)
      /\ ~dirty'[c] => pc'[c] = "closing"
  BY DEF WInv, TypeOK, FailExec, RecordFailure, ToClosing, Touched, FailingOn
<1> DEFINE F == Redated(failures[t], kept[c], lag[c], FailureWindow)
<1>5. F \in Seq(0..FailureWindow - 1) /\ Aged(F) /\ Len(F) <= Len(failures[t]) + 1
  BY <1>1, <1>2, BoundsAreNumbers, RedatedComesLast
<1>6. failures'[t] = F /\ \A u \in Targets \ {t} : failures'[u] = failures[u]
  BY <1>1, <1>3 DEF WInv, TypeOK
<1>7. /\ cooldown'[t] = IF trips[c] THEN Cooldown ELSE cooldown[t]
      /\ \A u \in Targets \ {t} : cooldown'[u] = cooldown[u]
  BY <1>1, <1>3 DEF WInv, TypeOK
<1> HIDE DEF t, F
<1>8. TypeOK'
  <2>1. failures' \in [Targets -> Ages(FailureWindow)]
    <3>1. failures' = [failures EXCEPT ![t] = F]  BY <1>3 DEF F
    <3> QED  BY <3>1, <1>5 DEF WInv, TypeOK, Ages
  <2>2. cooldown' \in [Targets -> 0..Cooldown]
    <3>1. (IF trips[c] THEN Cooldown ELSE cooldown[t]) \in 0..Cooldown
      BY <1>1, BoundsAreNumbers DEF t
    <3>2. cooldown' = [cooldown EXCEPT ![t] = IF trips[c] THEN Cooldown ELSE cooldown[t]]
      BY <1>3 DEF t
    <3> QED  BY <3>1, <3>2 DEF WInv, TypeOK
  <2>3. /\ pc' \in [Clients -> {"idle", "admitting"} \cup Holding]
        /\ \A d \in Clients : req'[d] = NoRequest <=> pc'[d] = "idle"
    BY <1>1, <1>3 DEF WInv, TypeOK, Holding
  <2>4. /\ lag' \in [Clients -> 0..FailureWindow] /\ tries' \in [Clients -> 0..Attempts]
        /\ trips' \in [Clients -> BOOLEAN]
    <3>1. 0 \in 0..FailureWindow /\ 0 \in 0..Attempts  BY BoundsAreNumbers
    <3>2. \/ lag' = lag \/ lag' = [lag EXCEPT ![c] = 0]  BY <1>3
    <3>3. \/ tries' = tries \/ tries' = [tries EXCEPT ![c] = 0]  BY <1>3
    <3>4. \/ trips' = trips \/ trips' = [trips EXCEPT ![c] = FALSE]  BY <1>3
    <3> QED  BY <3>1, <3>2, <3>3, <3>4 DEF WInv, TypeOK
  <2>5. /\ kept' \in [Clients -> 0..Old]
        /\ \A d \in Clients : pc'[d] \notin {"admitting", "failing"} => kept'[d] = Old
    <3>1. lag[c] \in 0..Old /\ Old \in 0..Old  BY BoundsAreNumbers DEF WInv, TypeOK
    <3> QED  BY <1>1, <1>3, <3>1 DEF WInv, TypeOK
  <2> QED  BY <2>1, <2>2, <2>3, <2>4, <2>5, <1>3, <1>4 DEF WInv, TypeOK, AllRateKeys, RateKeys
<1>9. AttemptsBeginNow'  BY <1>3 DEF WInv, TypeOK, AttemptsBeginNow
<1>10. WindowsAreSorted' /\ RatesHold'
  BY <1>3, <1>5, <1>6 DEF WInv, WindowsAreSorted, RatesHold, AllRateKeys, RateKeys, RateLimit
<1>11. CooldownsLast'
  <2> SUFFICES ASSUME NEW u \in Targets, Len(failures'[u]) >= FailureLimit
               PROVE  cooldown'[u] + failures'[u][Len(failures'[u])] >= Cooldown
    BY DEF CooldownsLast
  <2>1. CASE u = t
    <3>1. Len(F) \in Nat /\ Len(F) <= Len(failures[t]) + 1 /\ Len(failures[t]) \in Nat
      BY <1>1, <1>5
    <3>2. trips[c]  BY <1>2, <1>6, <2>1, <3>1, BoundsAreNumbers
    <3>3. Len(F) \in 1..Len(F) /\ F[Len(F)] \in Nat
      BY <1>5, <1>6, <2>1, <3>1, BoundsAreNumbers
    <3> QED  BY <1>6, <1>7, <2>1, <3>2, <3>3, BoundsAreNumbers
  <2>2. CASE u # t  BY <1>6, <1>7, <2>2 DEF WInv, CooldownsLast
  <2> QED  BY <2>1, <2>2
<1>12. FreshAdmissions'
  <2> SUFFICES ASSUME NEW d \in Clients, pc'[d] = "admitting", ~dirty'[d]
               PROVE  pc[d] = "admitting" /\ ~dirty[d]
    BY <1>3 DEF WInv, FreshAdmissions, RateKeys, RateLimit
  <2>1. d # c /\ pc[d] = "admitting"  BY <1>1, <1>3 DEF WInv, TypeOK
  <2> QED  BY <2>1, <1>4
<1>13. FreshFailures'
  <2> SUFFICES ASSUME NEW d \in Clients, pc'[d] = "failing", ~dirty'[d]
               PROVE  LET u == req[d].target
                      IN  /\ Len(failures'[u]) + 1 >= FailureLimit => trips'[d]
                          /\ \A i \in DOMAIN failures'[u] : lag'[d] <= failures'[u][i]
    BY <1>3 DEF FreshFailures
  <2>1. /\ d # c /\ pc[d] = "failing" /\ trips'[d] = trips[d] /\ lag'[d] = lag[d]
        /\ req[d].target \in Targets
    <3>1. d # c  BY <1>4
    <3> QED  BY <3>1, <1>3, RequestsAreKnown DEF WInv, TypeOK
  <2>2. ~dirty[d] /\ failures'[req[d].target] = failures[req[d].target]
    BY <1>4, <1>6, <2>1
  <2> QED  BY <2>1, <2>2 DEF WInv, FreshFailures
<1> QED  BY <1>8, <1>9, <1>10, <1>11, <1>12, <1>13 DEF WInv

\* Time: every window loses its front, and what is open and what it is dated by
\* grow older together.
LEMMA TickKeepsWindows ==
  ASSUME WInv, Tick  PROVE  WInv'
<1>1. /\ \A d \in Clients : d \notin Forgotten => pc'[d] = pc[d] /\ req'[d] = req[d]
      /\ \A d \in Clients : d \in Forgotten => pc'[d] = "idle" /\ req'[d] = NoRequest /\ age'[d] = 0
      /\ \A d \in Clients : pc[d] = "idle" => age'[d] = 0
      /\ \A d \in Clients : age'[d] \in 0..Old /\ age'[d] <= age[d] + 1
      /\ \A d \in Clients : lag'[d] \in 0..FailureWindow /\ lag'[d] <= lag[d] + 1
  <2>1. \A d \in Clients : age[d] \in 0..Old /\ lag[d] \in 0..FailureWindow
    BY DEF WInv, TypeOK
  <2> QED  BY <2>1, BoundsAreNumbers DEF Tick, Forgotten
<1>2. /\ UNCHANGED <<tries, trips, dirty>>
      /\ \A d \in Clients : d \in Forgotten => pc[d] = "lost"
  BY DEF Tick, Forgotten
<1>3. \A k \in AllRateKeys : rate'[k] = Older(rate[k], RateWindow)  BY DEF Tick
<1>4. \A t \in Targets : /\ failures'[t] = Older(failures[t], FailureWindow)
                         /\ cooldown'[t] = IF cooldown[t] = 0 THEN 0 ELSE cooldown[t] - 1
  BY DEF Tick
<1>5. ASSUME NEW k \in AllRateKeys
      PROVE  /\ rate[k] \in Seq(0..RateWindow - 1)
             /\ rate'[k] \in Seq(0..RateWindow - 1) /\ Aged(rate'[k])
             /\ Len(rate'[k]) <= Len(rate[k])
             /\ \E n \in 0..Len(rate[k]) :
                  /\ Len(rate'[k]) = Len(rate[k]) - n
                  /\ \A i \in 1..Len(rate'[k]) : rate'[k][i] = rate[k][i + n] + 1
  <2>1. rate[k] \in Seq(0..RateWindow - 1) /\ Aged(rate[k])
    BY DEF WInv, TypeOK, Ages, WindowsAreSorted
  <2>2. RateWindow \in Nat  BY BoundsAreNumbers
  <2> DEFINE O == Older(rate[k], RateWindow)
  <2>3. /\ O \in Seq(0..RateWindow - 1) /\ Aged(O) /\ Len(O) <= Len(rate[k])
        /\ \E n \in 0..Len(rate[k]) :
             /\ Len(O) = Len(rate[k]) - n
             /\ \A i \in 1..Len(O) : O[i] = rate[k][i + n] + 1
    BY <2>1, <2>2, OlderIsTheRest
  <2>4. rate'[k] = O  BY <1>3
  <2> HIDE DEF O
  <2> QED  BY <2>1, <2>3, <2>4
<1>6. ASSUME NEW t \in Targets
      PROVE  /\ failures[t] \in Seq(0..FailureWindow - 1)
             /\ failures'[t] \in Seq(0..FailureWindow - 1) /\ Aged(failures'[t])
             /\ Len(failures'[t]) <= Len(failures[t])
             /\ \E n \in 0..Len(failures[t]) :
                  /\ Len(failures'[t]) = Len(failures[t]) - n
                  /\ \A i \in 1..Len(failures'[t]) : failures'[t][i] = failures[t][i + n] + 1
  <2>1. failures[t] \in Seq(0..FailureWindow - 1) /\ Aged(failures[t])
    BY DEF WInv, TypeOK, Ages, WindowsAreSorted
  <2>2. FailureWindow \in Nat  BY BoundsAreNumbers
  <2> DEFINE O == Older(failures[t], FailureWindow)
  <2>3. /\ O \in Seq(0..FailureWindow - 1) /\ Aged(O) /\ Len(O) <= Len(failures[t])
        /\ \E n \in 0..Len(failures[t]) :
             /\ Len(O) = Len(failures[t]) - n
             /\ \A i \in 1..Len(O) : O[i] = failures[t][i + n] + 1
    BY <2>1, <2>2, OlderIsTheRest
  <2>4. failures'[t] = O  BY <1>4
  <2> HIDE DEF O
  <2> QED  BY <2>1, <2>3, <2>4
<1>7. TypeOK'
  <2>1. pc' \in [Clients -> {"idle", "admitting"} \cup Holding]
    BY DEF WInv, TypeOK, Tick
  <2>2. req' \in [Clients -> Requests \cup {NoRequest}]  BY DEF WInv, TypeOK, Tick
  <2>3. \A d \in Clients : req'[d] = NoRequest <=> pc'[d] = "idle"
    BY <1>1 DEF WInv, TypeOK
  <2>4. age' \in [Clients -> 0..Old] /\ lag' \in [Clients -> 0..FailureWindow]
    <3>1. DOMAIN age' = Clients /\ DOMAIN lag' = Clients
          /\ age' = [d \in Clients |-> age'[d]] /\ lag' = [d \in Clients |-> lag'[d]]
      BY DEF Tick
    <3> QED  BY <1>1, <3>1
  <2>5. rate' \in [AllRateKeys -> Ages(RateWindow)]
    <3>1. rate' = [k \in AllRateKeys |-> rate'[k]]  BY DEF Tick
    <3> QED  BY <3>1, <1>5 DEF Ages
  <2>6. failures' \in [Targets -> Ages(FailureWindow)]
    <3>1. failures' = [t \in Targets |-> failures'[t]]  BY DEF Tick
    <3> QED  BY <3>1, <1>6 DEF Ages
  <2>7. cooldown' \in [Targets -> 0..Cooldown]
    <3>1. cooldown' = [t \in Targets |-> cooldown'[t]]  BY DEF Tick
    <3>2. \A t \in Targets : cooldown[t] \in 0..Cooldown  BY DEF WInv, TypeOK
    <3>3. \A t \in Targets : cooldown'[t] \in 0..Cooldown  BY <1>4, <3>2, BoundsAreNumbers
    <3> QED  BY <3>1, <3>3
  <2>8. kept' \in [Clients -> 0..Old]
    <3>1. \A d \in Clients : kept[d] \in 0..Old  BY DEF WInv, TypeOK
    <3>2. \A d \in Clients : (IF kept[d] < Old THEN kept[d] + 1 ELSE Old) \in 0..Old
      BY <3>1, BoundsAreNumbers
    <3> QED  BY <3>2 DEF Tick
  <2>9. \A d \in Clients : pc'[d] \notin {"admitting", "failing"} => kept'[d] = Old
    <3>1. \A d \in Clients : kept[d] = Old => kept'[d] = Old
      BY BoundsAreNumbers DEF Tick
    <3>2. \A d \in Clients : pc'[d] \notin {"admitting", "failing"}
                             => pc[d] \notin {"admitting", "failing"}
      BY <1>1, <1>2
    <3> QED  BY <3>1, <3>2 DEF WInv, TypeOK
  <2> QED
    BY <2>1, <2>2, <2>3, <2>4, <2>5, <2>6, <2>7, <2>8, <2>9, <1>2
    DEF WInv, TypeOK, AllRateKeys, RateKeys
<1>8. AttemptsBeginNow'
  <2>1. \A d \in Clients : pc'[d] = "idle" => d \in Forgotten \/ pc[d] = "idle"  BY <1>1
  <2> QED  BY <1>1, <2>1 DEF AttemptsBeginNow
<1>9. WindowsAreSorted'
  BY <1>5, <1>6 DEF WindowsAreSorted, AllRateKeys, RateKeys
<1>10. RatesHold'
  <2> SUFFICES ASSUME NEW k \in AllRateKeys PROVE Len(rate'[k]) <= RateLimit(k)
    BY DEF RatesHold, AllRateKeys, RateKeys, RateLimit
  <2>1. Len(rate[k]) <= RateLimit(k)  BY DEF WInv, RatesHold
  <2>2. Len(rate[k]) \in Nat /\ Len(rate'[k]) \in Nat  BY <1>5
  <2> QED  BY <2>1, <2>2, <1>5, BoundsAreNumbers
<1>11. CooldownsLast'
  <2> SUFFICES ASSUME NEW t \in Targets, Len(failures'[t]) >= FailureLimit
               PROVE  cooldown'[t] + failures'[t][Len(failures'[t])] >= Cooldown
    BY DEF CooldownsLast
  <2>1. PICK n \in 0..Len(failures[t]) :
          /\ Len(failures'[t]) = Len(failures[t]) - n
          /\ \A i \in 1..Len(failures'[t]) : failures'[t][i] = failures[t][i + n] + 1
    BY <1>6
  <2>2. Len(failures[t]) \in Nat /\ Len(failures'[t]) \in Nat /\ FailureLimit \in Nat \ {0}
    <3>1. failures[t] \in Seq(0..FailureWindow - 1) /\ failures'[t] \in Seq(0..FailureWindow - 1)
      BY <1>6
    <3> QED  BY <3>1, BoundsAreNumbers
  <2> DEFINE m == Len(failures[t])
             o == Len(failures'[t])
  <2>3. o \in 1..o /\ o + n = m /\ m \in 1..m /\ m >= FailureLimit
    BY <2>1, <2>2
  <2>4. failures'[t][o] = failures[t][o + n] + 1
    <3> HIDE DEF o
    <3> QED  BY <2>1, <2>3 DEF o
  <2>5. cooldown[t] + failures[t][m] >= Cooldown  BY <2>3 DEF WInv, CooldownsLast
  <2>6. failures[t][m] \in Nat
    <3>1. failures[t] \in Seq(0..FailureWindow - 1)  BY <1>6
    <3> QED  BY <3>1, <2>3, BoundsAreNumbers
  <2>7. cooldown[t] \in Nat /\ Cooldown \in Nat  BY BoundsAreNumbers DEF WInv, TypeOK
  <2>8. cooldown'[t] \in Nat /\ cooldown'[t] + 1 >= cooldown[t]  BY <2>7, <1>4
  <2> HIDE DEF m, o
  <2>9. failures'[t][o] = failures[t][m] + 1  BY <2>3, <2>4
  <2>10. cooldown'[t] + failures'[t][o] >= Cooldown
    BY <2>5, <2>6, <2>7, <2>8, <2>9
  <2> QED  BY <2>10 DEF o
<1>12. FreshAdmissions'
  <2> SUFFICES ASSUME NEW d \in Clients, pc'[d] = "admitting", ~dirty'[d],
                      NEW k \in RateKeys(req'[d])
               PROVE  /\ Len(rate'[k]) < RateLimit(k)
                      /\ \A i \in DOMAIN rate'[k] : age'[d] <= rate'[k][i]
    BY DEF FreshAdmissions, RateKeys, RateLimit
  <2>1. pc[d] = "admitting" /\ ~dirty[d] /\ req'[d] = req[d]  BY <1>1, <1>2
  <2>2. k \in AllRateKeys
    BY <2>1, RequestsAreKnown DEF WInv, TypeOK
  <2>3. Len(rate[k]) < RateLimit(k) /\ \A i \in DOMAIN rate[k] : age[d] <= rate[k][i]
    BY <2>1 DEF WInv, FreshAdmissions
  <2>4. Len(rate[k]) \in Nat /\ Len(rate'[k]) \in Nat /\ RateLimit(k) \in Nat
    <3>1. rate[k] \in Seq(0..RateWindow - 1) /\ rate'[k] \in Seq(0..RateWindow - 1)
      BY <1>5, <2>2
    <3> QED  BY <3>1, BoundsAreNumbers
  <2>5. ASSUME NEW i \in DOMAIN rate'[k] PROVE age'[d] <= rate'[k][i]
    <3>1. PICK n \in 0..Len(rate[k]) :
            /\ Len(rate'[k]) = Len(rate[k]) - n
            /\ \A j \in 1..Len(rate'[k]) : rate'[k][j] = rate[k][j + n] + 1
      BY <1>5, <2>2
    <3>2. i \in 1..Len(rate'[k]) /\ DOMAIN rate[k] = 1..Len(rate[k])  BY <1>5, <2>2
    <3>3. i + n \in DOMAIN rate[k]  BY <2>4, <3>1, <3>2
    <3>4. rate'[k][i] = rate[k][i + n] + 1 /\ age[d] <= rate[k][i + n]
      BY <2>3, <3>1, <3>2, <3>3
    <3>5. rate[k][i + n] \in Nat
      <4>1. rate[k] \in Seq(0..RateWindow - 1)  BY <1>5, <2>2
      <4> QED  BY <4>1, <3>3, BoundsAreNumbers
    <3>6. age[d] \in Nat /\ age'[d] \in Nat /\ age'[d] <= age[d] + 1
      BY <1>1, BoundsAreNumbers DEF WInv, TypeOK
    <3> QED  BY <3>4, <3>5, <3>6
  <2> QED  BY <1>5, <2>2, <2>3, <2>4, <2>5
<1>13. FreshFailures'
  <2> SUFFICES ASSUME NEW d \in Clients, pc'[d] = "failing", ~dirty'[d]
               PROVE  LET t == req'[d].target
                      IN  /\ Len(failures'[t]) + 1 >= FailureLimit => trips'[d]
                          /\ \A i \in DOMAIN failures'[t] : lag'[d] <= failures'[t][i]
    BY DEF FreshFailures
  <2> DEFINE t == req[d].target
  <2>1. /\ pc[d] = "failing" /\ ~dirty[d] /\ req'[d] = req[d] /\ trips'[d] = trips[d]
        /\ t \in Targets
    <3>1. pc[d] = "failing" /\ ~dirty[d] /\ req'[d] = req[d] /\ trips'[d] = trips[d]
      BY <1>1, <1>2
    <3> QED  BY <3>1, RequestsAreKnown DEF WInv, TypeOK
  <2>2. /\ Len(failures[t]) + 1 >= FailureLimit => trips[d]
        /\ \A i \in DOMAIN failures[t] : lag[d] <= failures[t][i]
    BY <2>1 DEF WInv, FreshFailures
  <2> HIDE DEF t
  <2>3. Len(failures[t]) \in Nat /\ Len(failures'[t]) \in Nat /\ FailureLimit \in Nat
        /\ Len(failures'[t]) <= Len(failures[t])
    <3>1. failures[t] \in Seq(0..FailureWindow - 1) /\ failures'[t] \in Seq(0..FailureWindow - 1)
      BY <1>6, <2>1
    <3>2. Len(failures'[t]) <= Len(failures[t])  BY <1>6, <2>1
    <3> QED  BY <3>1, <3>2, BoundsAreNumbers
  <2>4. ASSUME NEW i \in DOMAIN failures'[t] PROVE lag'[d] <= failures'[t][i]
    <3>1. PICK n \in 0..Len(failures[t]) :
            /\ Len(failures'[t]) = Len(failures[t]) - n
            /\ \A j \in 1..Len(failures'[t]) : failures'[t][j] = failures[t][j + n] + 1
      BY <1>6, <2>1
    <3>2. i \in 1..Len(failures'[t]) /\ DOMAIN failures[t] = 1..Len(failures[t])
      BY <1>6, <2>1
    <3>3. i + n \in DOMAIN failures[t]  BY <2>3, <3>1, <3>2
    <3>4. failures'[t][i] = failures[t][i + n] + 1 /\ lag[d] <= failures[t][i + n]
      BY <2>2, <3>1, <3>2, <3>3
    <3>5. failures[t][i + n] \in Nat
      <4>1. failures[t] \in Seq(0..FailureWindow - 1)  BY <1>6, <2>1
      <4> QED  BY <4>1, <3>3, BoundsAreNumbers
    <3>6. lag[d] \in Nat /\ lag'[d] \in Nat /\ lag'[d] <= lag[d] + 1
      BY <1>1, BoundsAreNumbers DEF WInv, TypeOK
    <3> QED  BY <3>4, <3>5, <3>6
  <2>5. Len(failures'[t]) + 1 >= FailureLimit => trips'[d]  BY <2>1, <2>2, <2>3
  <2> QED  BY <2>1, <2>4, <2>5 DEF t
<1> QED  BY <1>7, <1>8, <1>9, <1>10, <1>11, <1>12, <1>13 DEF WInv

-----------------------------------------------------------------------------
(* The theorems about windows.                                             *)

\* The invariant of the windows is inductive too.
THEOREM WindowsInvariance == Spec => []WInv
<1>1. Init => WInv
  <2> SUFFICES ASSUME Init PROVE WInv  OBVIOUS
  <2>1. Aged(<< >>) /\ << >> \in Seq(0..RateWindow - 1) /\ << >> \in Seq(0..FailureWindow - 1)
        /\ Len(<< >>) = 0
    BY DEF Aged
  <2>2. TypeOK /\ AttemptsBeginNow
    BY <2>1, BoundsAreNumbers DEF Init, TypeOK, AttemptsBeginNow, Ages
  <2>3. WindowsAreSorted /\ RatesHold /\ CooldownsLast
    BY <2>1, BoundsAreNumbers DEF Init, WindowsAreSorted, RatesHold, CooldownsLast
  <2>4. FreshAdmissions /\ FreshFailures  BY DEF Init, FreshAdmissions, FreshFailures
  <2> QED  BY <2>2, <2>3, <2>4 DEF WInv
<1>2. WInv /\ [Next]_vars => WInv'
  <2> SUFFICES ASSUME WInv, [Next]_vars PROVE WInv'  OBVIOUS
  <2>1. CASE \E c \in Clients, r \in Requests : AcquireRead(c, r)
    BY <2>1, AcquireReadKeepsWindows
  <2>2. CASE \E c \in Clients : Progress(c)
    <3> PICK c \in Clients : Progress(c)  BY <2>2
    <3>1. CASE AcquireExec(c)    BY <3>1, AcquireExecKeepsWindows
    <3>2. CASE AcquireAbort(c)   BY <3>2, AcquireAbortKeepsWindows
    <3>3. CASE FailRead(c)       BY <3>3, FailReadKeepsWindows
    <3>4. CASE FailExec(c)       BY <3>4, FailExecKeepsWindows
    <3>5. CASE FailAbort(c)      BY <3>5, FailAbortKeepsWindows
    <3>6. CASE Succeed(c)        BY <3>6, SucceedKeepsWindows
    <3>7. CASE EndUnreported(c)  BY <3>7, EndUnreportedKeepsWindows
    <3>8. CASE Release(c)        BY <3>8, ReleaseKeepsWindows
    <3>9. CASE AcquireAgain(c)   BY <3>9, AcquireAgainKeepsWindows
    <3> QED
      BY <3>1, <3>2, <3>3, <3>4, <3>5, <3>6, <3>7, <3>8, <3>9 DEF Progress
  <2>3. CASE \E c \in Clients : Lose(c)  BY <2>3, LoseKeepsWindows
  <2>4. CASE Tick                        BY <2>4, TickKeepsWindows
  <2>5. CASE UNCHANGED vars
    <3>1. TypeOK' /\ AttemptsBeginNow'
      BY <2>5 DEF WInv, TypeOK, AttemptsBeginNow, vars, clientVars, AllRateKeys, RateKeys
    <3> QED  BY <3>1, <2>5, QuietWindows DEF vars, clientVars
  <2> QED  BY <2>1, <2>2, <2>3, <2>4, <2>5 DEF Next
<1> QED  BY <1>1, <1>2, PTL DEF Spec

\* The gate's state keeps its type: windows hold ages below their bound, every
\* request belongs to an attempt, and no transaction is begun too often.
THEOREM TypeCorrect == Spec => []TypeOK
BY WindowsInvariance, PTL DEF WInv

\* No window holds more admissions than the rate allows, whatever callers race
\* between reading the clock and EXEC.
THEOREM RatesAlwaysHold == Spec => []RatesHold
BY WindowsInvariance, PTL DEF WInv

\* As many failures as the limit within their window close the endpoint for the
\* whole cooldown, also if their callers counted at the same time.
THEOREM FailuresCloseEndpoints == Spec => []CooldownFollowsFailures
<1>1. WInv => CooldownFollowsFailures
  <2> SUFFICES ASSUME WInv, NEW t \in Targets, Len(failures[t]) >= FailureLimit,
                      failures[t][Len(failures[t])] < Cooldown
               PROVE  cooldown[t] > 0
    BY DEF CooldownFollowsFailures
  <2>1. cooldown[t] + failures[t][Len(failures[t])] >= Cooldown
    BY DEF WInv, CooldownsLast
  <2>2. failures[t] \in Seq(0..FailureWindow - 1) /\ cooldown[t] \in Nat /\ Cooldown \in Nat
    BY BoundsAreNumbers DEF WInv, TypeOK, Ages
  <2>3. Len(failures[t]) \in 1..Len(failures[t])  BY <2>2, BoundsAreNumbers
  <2>4. failures[t][Len(failures[t])] \in Nat  BY <2>2, <2>3, BoundsAreNumbers
  <2> QED  BY <2>1, <2>2, <2>4
<1> QED  BY <1>1, WindowsInvariance, PTL
=============================================================================
