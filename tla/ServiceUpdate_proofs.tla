------------------------ MODULE ServiceUpdate_proofs ------------------------
(***************************************************************************)
(* The guards of UpdateService, proved for any number of processes,        *)
(* services, tasks, failures and pushes and for all durations.             *)
(***************************************************************************)
EXTENDS ServiceUpdate, TLAPS

(* What a call holds on to between its steps, and what the ages say of each *)
(* other.                                                                   *)

(* The recorded bump is never older than the acknowledged one, except       *)
(* between the answer of the manager and the entry in lastForceUpdate.      *)
RecordFollowsAck ==
    \A i \in Instances, s \in Services :
        (pc[i] = "record" /\ svc[i] = s)
            \/ lastForceUpdate[i][s] <= ackAge[i][s]

(* A call that got past the guards had its backoff behind it. *)
AllowedIsPastBackoff ==
    \A i \in Instances :
        pc[i] = "update" => ackAge[i][svc[i]] = MinForceUpdateInterval

(* What a call read of the rollout is still true while its version is. *)
AllowedIsCurrent ==
    \A i \in Instances :
        pc[i] = "update" /\ fresh[i] /\ ~blind[i] => ~OnItsWay(svc[i])

(* A pending rollout is as old as the bump that asked for it. *)
PendingIsRecent ==
    \A i \in Instances, s \in Services :
        owner[s] = i /\ phase[s] = "pending" =>
            ackAge[i][s] + left[s] <= StartDelay

IInv ==
    /\ TypeOK
    /\ RecordFollowsAck
    /\ AllowedIsPastBackoff
    /\ AllowedIsCurrent
    /\ PendingIsRecent

-----------------------------------------------------------------------------
(* Type correctness: every handler and every step of the manager keeps      *)
(* timers within their saturation bounds and phases within UpdateStatus.    *)
LEMMA TypeInit == Init => TypeOK
BY ConstantsAssumption DEF Init, TypeOK, Phases

(* A write to the service object only marks versions as read or out of date. *)
LEMMA TouchType ==
  ASSUME NEW s, Touch(s)
  PROVE  fresh' \in [Instances -> BOOLEAN]
BY DEF Touch

(* A fault stays within the budget. *)
LEMMA FaultType ==
  ASSUME faults \in 0 .. MaxFaults, Fault
  PROVE  faults' \in 0 .. MaxFaults
BY ConstantsAssumption DEF Fault

(* No step of a process, of the manager or of time leaves TypeOK. *)
LEMMA TypeStep == TypeOK /\ [Next]_vars => TypeOK'
<1> SUFFICES ASSUME TypeOK, [Next]_vars PROVE TypeOK'
  OBVIOUS
<1> USE ConstantsAssumption DEF TypeOK, Phases
<1>1. ASSUME NEW i \in Instances, ProcessStep(i) PROVE TypeOK'
  <2>1. CASE Tick(i)
    BY <2>1 DEF Tick, swarmVars, histVars
  <2>2. ASSUME NEW s \in Services, InspectService(i, s) PROVE TypeOK'
    BY <2>2 DEF InspectService, Take, swarmVars, histVars
  <2>3. CASE DeferBackoff(i)
    BY <2>3 DEF DeferBackoff, Finished, swarmVars, histVars
  <2>4. CASE DeferInFlight(i)
    BY <2>4 DEF DeferInFlight, Finished, swarmVars, histVars
  <2>5. CASE ForceUpdateAllowed(i)
    BY <2>5 DEF ForceUpdateAllowed, swarmVars, histVars
  <2>6. CASE BumpAccepted(i)
    BY <2>6 DEF BumpAccepted, AcceptSpec, Touch
  <2>7. CASE BumpRejected(i)
    BY <2>7 DEF BumpRejected, Finished, Fault, swarmVars, histVars
  <2>8. CASE RecordForceUpdate(i)
    BY <2>8 DEF RecordForceUpdate, Finished, swarmVars, histVars
  <2> QED
    BY <1>1, <2>1, <2>2, <2>3, <2>4, <2>5, <2>6, <2>7, <2>8 DEF ProcessStep
<1>2. ASSUME NEW i \in Instances, FaultStep(i) PROVE TypeOK'
  <2>1. ASSUME NEW s \in Services, SkipTask(i, s) PROVE TypeOK'
    BY <2>1 DEF SkipTask, Take, Fault, swarmVars, histVars
  <2>2. CASE StatusUnreadable(i)
    BY <2>2 DEF StatusUnreadable, Fault, swarmVars, histVars
  <2>3. CASE BumpResponseLost(i)
    BY <2>3, FaultType, TouchType DEF BumpResponseLost, AcceptSpec, Finished
  <2>4. CASE Restart(i)
    BY <2>4 DEF Restart, Finished, Fault, swarmVars
  <2> QED
    BY <1>2, <2>1, <2>2, <2>3, <2>4 DEF FaultStep
<1>3. ASSUME NEW s \in Services, SwarmStep(s) PROVE TypeOK'
  <2>1. CASE StartRollout(s)
    <3>1. RolloutTime \in Nat /\ Stuck \in Nat
      BY DEF Stuck
    <3>2. left' \in [Services -> Nat]
      BY <2>1, <3>1 DEF StartRollout
    <3>3. faults' \in 0 .. MaxFaults
      BY <2>1, FaultType DEF StartRollout
    <3> QED
      BY <2>1, <3>2, <3>3, TouchType DEF StartRollout, histVars
  <2>2. CASE FinishRollout(s)
    BY <2>2 DEF FinishRollout, Touch, histVars
  <2> QED
    BY <1>3, <2>1, <2>2 DEF SwarmStep
<1>4. ASSUME NEW s \in Services, Disturbance(s) PROVE TypeOK'
  <2>1. CASE FailRollout(s)
    <3>1. phase' \in [Services -> Phases]
      BY <2>1 DEF FailRollout
    <3>2. left' \in [Services -> Nat]
      BY <2>1 DEF FailRollout
    <3> QED
      BY <2>1, <3>1, <3>2, FaultType, TouchType DEF FailRollout, histVars
  <2>2. CASE Push(s)
    BY <2>2 DEF Push, procVars, histVars
  <2>3. CASE OperatorUpdate(s)
    BY <2>3, FaultType, TouchType DEF OperatorUpdate, AcceptSpec
  <2> QED
    BY <1>4, <2>1, <2>2, <2>3 DEF Disturbance
<1>5. CASE TimePasses
  <2>1. left' \in [Services -> Nat]
    <3> SUFFICES ASSUME NEW s \in Services,
                        ~(phase[s] = "settled" \/ Stalled(s))
                 PROVE  left[s] - 1 \in Nat
      BY <1>5 DEF TimePasses
    <3>1. ~Due(s)
      BY <1>5 DEF TimePasses
    <3> QED
      BY <3>1 DEF Due
  <2>2. age' \in [Services -> 0 .. MaxRolloutWait]
    BY <1>5 DEF TimePasses, Least
  <2>3. /\ lastForceUpdate' \in
               [Instances -> [Services -> 0 .. MinForceUpdateInterval]]
        /\ ackAge' \in
               [Instances -> [Services -> 0 .. MinForceUpdateInterval]]
    BY <1>5 DEF TimePasses, Least
  <2> QED
    BY <1>5, <2>1, <2>2, <2>3 DEF TimePasses
<1>6. CASE UNCHANGED vars
  BY <1>6 DEF vars, procVars, swarmVars, histVars
<1> QED
  BY <1>1, <1>2, <1>3, <1>4, <1>5, <1>6 DEF Next

(* Every reachable state of every instance has the type TypeOK says. *)
THEOREM TypeCorrect == Spec => []TypeOK
BY TypeInit, TypeStep, PTL DEF Spec

-----------------------------------------------------------------------------
(* What the steps other than those of a call leave alone. *)
LEMMA SwarmFrame ==
  ASSUME NEW s \in Services, SwarmStep(s) \/ Disturbance(s)
  PROVE  UNCHANGED <<pc, svc, todo, blind, lastForceUpdate, ackAge>>
BY DEF SwarmStep, Disturbance, StartRollout, FinishRollout, FailRollout, Push,
       OperatorUpdate, procVars, histVars

(* The steps of a call that ends or goes on without touching the service. *)
LocalStep(i) ==
    \/ Tick(i)
    \/ \E s \in Services : InspectService(i, s) \/ SkipTask(i, s)
    \/ DeferBackoff(i)
    \/ DeferInFlight(i)
    \/ ForceUpdateAllowed(i)
    \/ StatusUnreadable(i)
    \/ BumpRejected(i)

(* A local step of a call writes neither the service nor the backoff map. *)
LEMMA LocalFrame ==
  ASSUME NEW i \in Instances, LocalStep(i)
  PROVE  UNCHANGED <<lastForceUpdate, swarmVars, histVars>>
BY DEF LocalStep, Tick, InspectService, SkipTask, DeferBackoff, DeferInFlight,
       ForceUpdateAllowed, StatusUnreadable, BumpRejected

(* A local step of one call leaves the calls of the other processes alone. *)
LEMMA LocalOthers ==
  ASSUME TypeOK, NEW i \in Instances, LocalStep(i), NEW j \in Instances, j # i
  PROVE  /\ pc'[j] = pc[j] /\ svc'[j] = svc[j]
         /\ fresh'[j] = fresh[j] /\ blind'[j] = blind[j]
BY DEF LocalStep, Tick, InspectService, SkipTask, DeferBackoff, DeferInFlight,
       ForceUpdateAllowed, StatusUnreadable, BumpRejected, Finished, TypeOK

(* Where a local step takes its own call. *)
LEMMA LocalOwn ==
  ASSUME TypeOK, NEW i \in Instances, LocalStep(i)
  PROVE  /\ pc'[i] # "record"
         /\ pc[i] # "record"
         /\ pc'[i] = "update" =>
               /\ svc' = svc
               /\ ~BackingOff(i, svc[i])
               /\ ~blind'[i] => ~RolloutYoung(svc[i])
BY DEF LocalStep, Tick, InspectService, SkipTask, DeferBackoff, DeferInFlight,
       ForceUpdateAllowed, StatusUnreadable, BumpRejected, Finished, Take,
       TypeOK

(* The cases every step proof below distinguishes. *)
LEMMA NextCases ==
  ASSUME [Next]_vars
  PROVE  \/ \E i \in Instances : LocalStep(i)
         \/ \E i \in Instances : BumpAccepted(i)
         \/ \E i \in Instances : BumpResponseLost(i)
         \/ \E i \in Instances : RecordForceUpdate(i)
         \/ \E i \in Instances : Restart(i)
         \/ \E s \in Services : SwarmStep(s) \/ Disturbance(s)
         \/ TimePasses
         \/ UNCHANGED vars
BY DEF Next, ProcessStep, FaultStep, LocalStep

-----------------------------------------------------------------------------
(* The record of a bump is made after the manager's answer, so what          *)
(* lastForceUpdate says is never older than the answer.                      *)
LEMMA RecordStep ==
  ASSUME TypeOK, RecordFollowsAck, [Next]_vars
  PROVE  RecordFollowsAck'
<1> SUFFICES ASSUME NEW j \in Instances, NEW t \in Services,
                    ~(pc'[j] = "record" /\ svc'[j] = t)
             PROVE  lastForceUpdate'[j][t] <= ackAge'[j][t]
  BY DEF RecordFollowsAck
<1> USE ConstantsAssumption
<1>1. ASSUME NEW i \in Instances, LocalStep(i)
      PROVE  lastForceUpdate'[j][t] <= ackAge'[j][t]
  <2>1. UNCHANGED <<lastForceUpdate, ackAge>>
    BY <1>1, LocalFrame DEF histVars
  <2>2. ~(pc[j] = "record" /\ svc[j] = t)
    BY <1>1, LocalOthers, LocalOwn
  <2> QED
    BY <2>1, <2>2 DEF RecordFollowsAck
<1>2. ASSUME NEW i \in Instances, BumpAccepted(i)
      PROVE  lastForceUpdate'[j][t] <= ackAge'[j][t]
  <2>1. ~(i = j /\ svc[i] = t) /\ ~(pc[j] = "record" /\ svc[j] = t)
    BY <1>2 DEF BumpAccepted, TypeOK
  <2>2. ackAge'[j][t] = ackAge[j][t] /\ lastForceUpdate' = lastForceUpdate
    BY <1>2, <2>1 DEF BumpAccepted, TypeOK
  <2> QED
    BY <2>1, <2>2 DEF RecordFollowsAck
<1>3. ASSUME NEW i \in Instances, BumpResponseLost(i)
      PROVE  lastForceUpdate'[j][t] <= ackAge'[j][t]
  BY <1>3 DEF BumpResponseLost, Finished, RecordFollowsAck, TypeOK
<1>4. ASSUME NEW i \in Instances, RecordForceUpdate(i)
      PROVE  lastForceUpdate'[j][t] <= ackAge'[j][t]
  <2>1. ackAge' = ackAge /\ ackAge[j][t] \in Nat
    BY <1>4 DEF RecordForceUpdate, histVars, TypeOK
  <2>2. CASE i = j /\ svc[i] = t
    BY <1>4, <2>1, <2>2 DEF RecordForceUpdate, TypeOK
  <2>3. CASE ~(i = j /\ svc[i] = t)
    <3>1. lastForceUpdate'[j][t] = lastForceUpdate[j][t]
      BY <1>4, <2>3 DEF RecordForceUpdate, TypeOK
    <3>2. ~(pc[j] = "record" /\ svc[j] = t)
      BY <1>4, <2>3 DEF RecordForceUpdate, Finished, TypeOK
    <3> QED
      BY <2>1, <3>1, <3>2 DEF RecordFollowsAck
  <2> QED
    BY <2>2, <2>3
<1>5. ASSUME NEW i \in Instances, Restart(i)
      PROVE  lastForceUpdate'[j][t] <= ackAge'[j][t]
  <2>1. CASE i = j
    BY <1>5, <2>1 DEF Restart, TypeOK
  <2>2. CASE i # j
    BY <1>5, <2>2 DEF Restart, Finished, RecordFollowsAck, TypeOK
  <2> QED
    BY <2>1, <2>2
<1>6. ASSUME NEW s \in Services, SwarmStep(s) \/ Disturbance(s)
      PROVE  lastForceUpdate'[j][t] <= ackAge'[j][t]
  BY <1>6, SwarmFrame DEF RecordFollowsAck
<1>7. CASE TimePasses
  <2>1. /\ lastForceUpdate[j][t] \in Nat
        /\ ackAge[j][t] \in Nat
        /\ lastForceUpdate[j][t] <= ackAge[j][t]
    BY <1>7 DEF TimePasses, RecordFollowsAck, TypeOK
  <2> QED
    BY <1>7, <2>1 DEF TimePasses, Least
<1>8. CASE UNCHANGED vars
  BY <1>8 DEF vars, procVars, histVars, RecordFollowsAck
<1> QED
  BY <1>1, <1>2, <1>3, <1>4, <1>5, <1>6, <1>7, <1>8, NextCases

(* A call gets to ServiceUpdate only with its backoff elapsed, and the ages  *)
(* only grow until the bump itself resets them.                              *)
LEMMA PastBackoffStep ==
  ASSUME TypeOK, RecordFollowsAck, AllowedIsPastBackoff, [Next]_vars
  PROVE  AllowedIsPastBackoff'
<1> SUFFICES ASSUME NEW j \in Instances, pc'[j] = "update"
             PROVE  ackAge'[j][svc'[j]] = MinForceUpdateInterval
  BY DEF AllowedIsPastBackoff
<1> USE ConstantsAssumption
<1>1. ASSUME NEW i \in Instances, LocalStep(i)
      PROVE  ackAge'[j][svc'[j]] = MinForceUpdateInterval
  <2>1. UNCHANGED ackAge
    BY <1>1, LocalFrame DEF histVars
  <2>2. CASE i = j
    <3>1. /\ svc'[j] = svc[j] /\ svc[j] \in Services
          /\ ~BackingOff(j, svc[j]) /\ pc[j] # "record"
      BY <1>1, <2>2, LocalOwn DEF TypeOK
    <3>2. /\ lastForceUpdate[j][svc[j]] <= ackAge[j][svc[j]]
          /\ lastForceUpdate[j][svc[j]] \in 0 .. MinForceUpdateInterval
          /\ ackAge[j][svc[j]] \in 0 .. MinForceUpdateInterval
      BY <3>1 DEF RecordFollowsAck, TypeOK
    <3> QED
      BY <2>1, <3>1, <3>2 DEF BackingOff
  <2>3. CASE i # j
    BY <1>1, <2>1, <2>3, LocalOthers DEF AllowedIsPastBackoff
  <2> QED
    BY <2>2, <2>3
<1>2. ASSUME NEW i \in Instances, BumpAccepted(i)
      PROVE  ackAge'[j][svc'[j]] = MinForceUpdateInterval
  <2>1. i # j /\ pc[j] = "update" /\ svc' = svc
    BY <1>2 DEF BumpAccepted, TypeOK
  <2> QED
    BY <1>2, <2>1 DEF BumpAccepted, AllowedIsPastBackoff, TypeOK
<1>3. ASSUME NEW i \in Instances,
             BumpResponseLost(i) \/ RecordForceUpdate(i)
      PROVE  ackAge'[j][svc'[j]] = MinForceUpdateInterval
  BY <1>3 DEF BumpResponseLost, RecordForceUpdate, Finished, histVars,
              AllowedIsPastBackoff, TypeOK
<1>4. ASSUME NEW i \in Instances, Restart(i)
      PROVE  ackAge'[j][svc'[j]] = MinForceUpdateInterval
  BY <1>4 DEF Restart, Finished, AllowedIsPastBackoff, TypeOK
<1>5. ASSUME NEW s \in Services, SwarmStep(s) \/ Disturbance(s)
      PROVE  ackAge'[j][svc'[j]] = MinForceUpdateInterval
  BY <1>5, SwarmFrame DEF AllowedIsPastBackoff
<1>6. CASE TimePasses
  <2>1. pc[j] = "update" /\ svc' = svc /\ svc[j] \in Services
    BY <1>6 DEF TimePasses, TypeOK
  <2>2. ackAge[j][svc[j]] = MinForceUpdateInterval
    BY <2>1 DEF AllowedIsPastBackoff
  <2> QED
    BY <1>6, <2>1, <2>2 DEF TimePasses, Least
<1>7. CASE UNCHANGED vars
  BY <1>7 DEF vars, procVars, histVars, AllowedIsPastBackoff
<1> QED
  BY <1>1, <1>2, <1>3, <1>4, <1>5, <1>6, <1>7, NextCases

(* What the guard saw of the rollout stays true as long as the version it    *)
(* was read with is current: a step that could make it false moves it.       *)
LEMMA CurrentStep ==
  ASSUME TypeOK, AllowedIsCurrent, [Next]_vars
  PROVE  AllowedIsCurrent'
<1> SUFFICES ASSUME NEW j \in Instances,
                    pc'[j] = "update", fresh'[j], ~blind'[j]
             PROVE  ~OnItsWay(svc[j])' /\ svc'[j] = svc[j]
  BY DEF AllowedIsCurrent, OnItsWay, Rolling
<1> USE ConstantsAssumption
<1>1. ASSUME NEW i \in Instances, LocalStep(i)
      PROVE  ~OnItsWay(svc[j])' /\ svc'[j] = svc[j]
  <2>1. phase' = phase /\ age' = age
    BY <1>1, LocalFrame DEF swarmVars
  <2>2. svc'[j] = svc[j] /\ ~OnItsWay(svc[j])
    <3>1. CASE i = j
      BY <1>1, <3>1, LocalOwn
         DEF RolloutYoung, InFlight, OnItsWay, Rolling
    <3>2. CASE i # j
      BY <1>1, <3>2, LocalOthers DEF AllowedIsCurrent
    <3> QED
      BY <3>1, <3>2
  <2> QED
    BY <2>1, <2>2 DEF OnItsWay, Rolling
<1>2. ASSUME NEW i \in Instances, BumpAccepted(i) \/ BumpResponseLost(i)
      PROVE  ~OnItsWay(svc[j])' /\ svc'[j] = svc[j]
  <2>1. svc' = svc /\ svc[i] # svc[j] /\ fresh[j] /\ ~blind[j]
    BY <1>2 DEF BumpAccepted, BumpResponseLost, AcceptSpec, Touch
  <2>2. pc[j] = "update" /\ i # j
    BY <1>2, <2>1
       DEF BumpAccepted, BumpResponseLost, Finished, TypeOK
  <2>3. phase'[svc[j]] = phase[svc[j]] /\ age' = age
    BY <1>2, <2>1 DEF BumpAccepted, BumpResponseLost, AcceptSpec, TypeOK
  <2> QED
    BY <2>1, <2>2, <2>3 DEF AllowedIsCurrent, OnItsWay, Rolling
<1>3. ASSUME NEW i \in Instances, RecordForceUpdate(i) \/ Restart(i)
      PROVE  ~OnItsWay(svc[j])' /\ svc'[j] = svc[j]
  <2>1. pc[j] = "update" /\ UNCHANGED <<svc, fresh, blind, phase, age>>
    BY <1>3 DEF RecordForceUpdate, Restart, Finished, swarmVars, TypeOK
  <2> QED
    BY <2>1 DEF AllowedIsCurrent, OnItsWay, Rolling
<1>4. ASSUME NEW s \in Services, SwarmStep(s) \/ Disturbance(s)
      PROVE  ~OnItsWay(svc[j])' /\ svc'[j] = svc[j]
  <2>1. UNCHANGED <<pc, svc, blind>>
    BY <1>4, SwarmFrame
  <2>2. fresh[j] /\ phase'[svc[j]] = phase[svc[j]] /\ age'[svc[j]] = age[svc[j]]
    <3>1. CASE Push(s)
      BY <3>1 DEF Push, procVars
    <3>2. CASE OperatorUpdate(s)
      BY <2>1, <3>2 DEF OperatorUpdate, AcceptSpec, Touch, TypeOK
    <3>3. CASE FailRollout(s)
      <4>1. fresh[j] /\ svc[j] # s
        BY <3>3 DEF FailRollout, Touch
      <4> QED
        BY <3>3, <4>1 DEF FailRollout, TypeOK
    <3>4. CASE StartRollout(s)
      BY <3>4 DEF StartRollout, Touch, TypeOK
    <3>5. CASE FinishRollout(s)
      BY <3>5 DEF FinishRollout, Touch, TypeOK
    <3> QED
      BY <1>4, <3>1, <3>2, <3>3, <3>4, <3>5 DEF SwarmStep, Disturbance
  <2> QED
    BY <2>1, <2>2 DEF AllowedIsCurrent, OnItsWay, Rolling
<1>5. CASE TimePasses
  <2>1. /\ UNCHANGED <<pc, svc, fresh, blind, phase>>
        /\ svc[j] \in Services
        /\ age'[svc[j]] = Least(age[svc[j]] + 1, MaxRolloutWait)
    BY <1>5 DEF TimePasses, TypeOK
  <2>2. ~OnItsWay(svc[j])
    BY <2>1 DEF AllowedIsCurrent
  <2>3. age[svc[j]] \in 0 .. MaxRolloutWait
    BY <2>1 DEF TypeOK
  <2> QED
    BY <2>1, <2>2, <2>3 DEF OnItsWay, Rolling, Least
<1>6. CASE UNCHANGED vars
  BY <1>6 DEF vars, procVars, swarmVars, AllowedIsCurrent, OnItsWay, Rolling
<1> QED
  BY <1>1, <1>2, <1>3, <1>4, <1>5, <1>6, NextCases

(* The wait for a rollout to start and the age of the bump that asked for    *)
(* it add up to StartDelay at most.                                          *)
LEMMA PendingStep ==
  ASSUME TypeOK, PendingIsRecent, [Next]_vars
  PROVE  PendingIsRecent'
<1> SUFFICES ASSUME NEW j \in Instances, NEW t \in Services,
                    owner'[t] = j, phase'[t] = "pending"
             PROVE  ackAge'[j][t] + left'[t] <= StartDelay
  BY DEF PendingIsRecent
<1> USE ConstantsAssumption
<1>1. ASSUME NEW i \in Instances, LocalStep(i)
      PROVE  ackAge'[j][t] + left'[t] <= StartDelay
  BY <1>1, LocalFrame DEF swarmVars, histVars, PendingIsRecent
<1>2. ASSUME NEW i \in Instances, BumpAccepted(i)
      PROVE  ackAge'[j][t] + left'[t] <= StartDelay
  <2>1. CASE svc[i] = t
    <3>1. i = j
      BY <1>2, <2>1 DEF BumpAccepted, AcceptSpec, TypeOK
    <3> QED
      BY <1>2, <2>1, <3>1 DEF BumpAccepted, AcceptSpec, TypeOK
  <2>2. CASE svc[i] # t
    BY <1>2, <2>2 DEF BumpAccepted, AcceptSpec, PendingIsRecent, TypeOK
  <2> QED
    BY <2>1, <2>2
<1>3. ASSUME NEW i \in Instances, BumpResponseLost(i)
      PROVE  ackAge'[j][t] + left'[t] <= StartDelay
  BY <1>3 DEF BumpResponseLost, AcceptSpec, PendingIsRecent, TypeOK
<1>4. ASSUME NEW i \in Instances, RecordForceUpdate(i)
      PROVE  ackAge'[j][t] + left'[t] <= StartDelay
  BY <1>4 DEF RecordForceUpdate, swarmVars, histVars, PendingIsRecent
<1>5. ASSUME NEW i \in Instances, Restart(i)
      PROVE  ackAge'[j][t] + left'[t] <= StartDelay
  <2>1. owner[t] = j /\ i # j
    BY <1>5 DEF Restart
  <2> QED
    BY <1>5, <2>1 DEF Restart, swarmVars, PendingIsRecent, TypeOK
<1>6. ASSUME NEW s \in Services, SwarmStep(s) \/ Disturbance(s)
      PROVE  ackAge'[j][t] + left'[t] <= StartDelay
  <2>1. ackAge' = ackAge
    BY <1>6, SwarmFrame
  <2>2. owner[t] = j /\ phase[t] = "pending" /\ left'[t] = left[t]
    <3>1. CASE Push(s)
      BY <3>1 DEF Push, histVars
    <3>2. CASE OperatorUpdate(s)
      BY <3>2 DEF OperatorUpdate, AcceptSpec, TypeOK
    <3>3. CASE FailRollout(s)
      BY <3>3 DEF FailRollout, histVars, TypeOK
    <3>4. CASE StartRollout(s)
      BY <3>4 DEF StartRollout, histVars, TypeOK
    <3>5. CASE FinishRollout(s)
      BY <3>5 DEF FinishRollout, histVars, TypeOK
    <3> QED
      BY <1>6, <3>1, <3>2, <3>3, <3>4, <3>5 DEF SwarmStep, Disturbance
  <2> QED
    BY <2>1, <2>2 DEF PendingIsRecent
<1>7. CASE TimePasses
  <2>1. /\ owner[t] = j /\ phase[t] = "pending"
        /\ left'[t] = left[t] - 1
        /\ ackAge'[j][t] = Least(ackAge[j][t] + 1, MinForceUpdateInterval)
    BY <1>7 DEF TimePasses, Stalled, TypeOK
  <2>2. left[t] \in Nat /\ ackAge[j][t] \in 0 .. MinForceUpdateInterval
    BY DEF TypeOK
  <2>3. ackAge[j][t] + left[t] <= StartDelay
    BY <2>1 DEF PendingIsRecent
  <2> QED
    BY <2>1, <2>2, <2>3 DEF Least
<1>8. CASE UNCHANGED vars
  BY <1>8 DEF vars, swarmVars, histVars, PendingIsRecent
<1> QED
  BY <1>1, <1>2, <1>3, <1>4, <1>5, <1>6, <1>7, <1>8, NextCases

-----------------------------------------------------------------------------
(* The strengthened invariant holds in every reachable state: what the       *)
(* guards of docker.go:781-810 established still holds when the update goes  *)
(* out.                                                                      *)
THEOREM Inductive == Spec => []IInv
<1>1. Init => IInv
  BY TypeInit, ConstantsAssumption
     DEF Init, IInv, RecordFollowsAck, AllowedIsPastBackoff, AllowedIsCurrent,
         PendingIsRecent, TypeOK
<1>2. IInv /\ [Next]_vars => IInv'
  BY TypeStep, RecordStep, PastBackoffStep, CurrentStep, PendingStep DEF IInv
<1> QED
  BY <1>1, <1>2, PTL DEF Spec

(* A bump goes out only when the process's previous acknowledged one of the  *)
(* service is MinForceUpdateInterval old (docker.go:782-790).                *)
THEOREM BackoffHolds == Spec => BackoffRespected
<1>1. IInv /\ [Next]_vars =>
        [\A i \in Instances :
            Bumps(i) => ackAge[i][svc[i]] = MinForceUpdateInterval]_vars
  BY DEF IInv, AllowedIsPastBackoff, Bumps, BumpAccepted, BumpResponseLost
<1> QED
  BY <1>1, Inductive, PTL DEF Spec, BackoffRespected

(* A bump never supersedes a rollout that is visibly young, whatever happens *)
(* between the status read and the update (docker.go:759, 796-807).          *)
THEOREM NoSupersedeHolds == Spec => NoSupersede
<1>1. IInv /\ [Next]_vars =>
        [\A i \in Instances :
            Bumps(i) /\ ~blind[i] => ~OnItsWay(svc[i])]_vars
  BY DEF IInv, AllowedIsCurrent, Bumps, BumpAccepted, BumpResponseLost
<1> QED
  BY <1>1, Inductive, PTL DEF Spec, NoSupersede

(* Backoff and in-flight guard together protect a process's own rollout from *)
(* the moment the manager accepted it (docker.go:717-731).                   *)
THEOREM OwnRolloutHolds == Spec => OwnRolloutUndisturbed
<1>1. IInv /\ [Next]_vars =>
        [StartDelay < MinForceUpdateInterval =>
           \A i \in Instances :
              Bumps(i) /\ ~blind[i] /\ owner[svc[i]] = i =>
                 phase[svc[i]] # "pending" /\ ~OnItsWay(svc[i])]_vars
  <2> SUFFICES ASSUME IInv, StartDelay < MinForceUpdateInterval,
                      NEW i \in Instances,
                      Bumps(i), ~blind[i], owner[svc[i]] = i
               PROVE  phase[svc[i]] # "pending" /\ ~OnItsWay(svc[i])
    OBVIOUS
  <2>1. pc[i] = "update" /\ fresh[i]
    BY DEF Bumps, BumpAccepted, BumpResponseLost
  <2>2. ~OnItsWay(svc[i])
    BY <2>1 DEF IInv, AllowedIsCurrent
  <2>3. /\ svc[i] \in Services
        /\ left[svc[i]] \in Nat
        /\ ackAge[i][svc[i]] = MinForceUpdateInterval
    BY <2>1 DEF IInv, AllowedIsPastBackoff, TypeOK
  <2>4. phase[svc[i]] # "pending"
    BY <2>3, ConstantsAssumption DEF IInv, PendingIsRecent
  <2> QED
    BY <2>2, <2>4
<1> QED
  BY <1>1, Inductive, PTL DEF Spec, OwnRolloutUndisturbed

=============================================================================
