--------------------------- MODULE ServiceUpdate ---------------------------
(***************************************************************************)
(* The forced update of a swarm service: UpdateService and its guards in   *)
(* src/pkg/docker/docker.go, called by the reconciler once per stale task  *)
(* container in every tick, against the swarm manager that owns the        *)
(* service.                                                                *)
(*                                                                         *)
(* Several dockenciler processes may watch the same service: each sees the *)
(* task containers of its own manager node.  The swarm manager is external *)
(* and modelled from what the code reads and writes: a spec change clears  *)
(* UpdateStatus until the orchestrator starts the rollout, every write to  *)
(* the service object moves its version, and ServiceUpdate is refused      *)
(* unless the version it carries is the current one.                       *)
(*                                                                         *)
(* Time is kept as ages that saturate at the largest value a guard can     *)
(* tell apart, so that behaviours are infinite while the state space is    *)
(* finite.  A TimePasses step is one unit.                                 *)
(***************************************************************************)
EXTENDS Integers

CONSTANTS
    Instances,                \* the dockenciler processes
    NoOne,                    \* not an instance
    Services,                 \* the swarm services they watch
    Replicas,                 \* bound: task containers of a service per node
    MinForceUpdateInterval,   \* force_update_min_interval, 0 when disabled
    MaxRolloutWait,           \* max_rollout_wait, 0 when disabled
    StartDelay,               \* external: longest wait before a rollout starts
    RolloutTime,              \* external: Delay + Monitor, the time it needs
    MaxPushes,                \* bound: new images pushed behind a tag
    MaxFaults                 \* bound: failures, restarts, operator updates

ASSUME ConstantsAssumption ==
    /\ NoOne \notin Instances
    /\ Replicas \in Nat \ {0}
    /\ MinForceUpdateInterval \in Nat
    /\ MaxRolloutWait \in Nat
    /\ StartDelay \in Nat
    /\ RolloutTime \in Nat
    /\ MaxPushes \in Nat
    /\ MaxFaults \in Nat

VARIABLES
    (* the processes *)
    pc,               \* pc[i]: where instance i is in UpdateService
    svc,              \* svc[i]: the serviceID argument of the call
    todo,             \* todo[i][s]: stale task containers left in this tick
    fresh,            \* fresh[i]: the version read by the call is still current
    blind,            \* blind[i]: the update status could not be read
    lastForceUpdate,  \* time since the recorded bump; saturated when none is
    (* the swarm manager *)
    phase,            \* what UpdateStatus and the orchestrator say of a service
    left,             \* time until the current phase of a rollout must end
    age,              \* time since UpdateStatus.StartedAt
    stale,            \* a task runs an image its tag has moved past
    carries,          \* every task of the rollout starts after the last push
    (* history: what the properties are about, read by no action *)
    ackAge,           \* time since the last acknowledged bump of this process
    owner,            \* whose acknowledged bump the current rollout is
    (* budgets *)
    pushes, faults

procVars  == <<pc, svc, todo, fresh, blind, lastForceUpdate>>
swarmVars == <<phase, left, age, stale, carries>>
histVars  == <<ackAge, owner>>
vars == <<procVars, swarmVars, histVars, pushes, faults>>

Phases == {"settled", "pending", "updating", "rollback_started"}

Least(a, b) == IF a < b THEN a ELSE b

TypeOK ==
    /\ pc \in [Instances -> {"idle", "guard", "update", "record"}]
    /\ svc \in [Instances -> Services]
    /\ todo \in [Instances -> [Services -> 0 .. Replicas]]
    /\ fresh \in [Instances -> BOOLEAN]
    /\ blind \in [Instances -> BOOLEAN]
    /\ lastForceUpdate \in
           [Instances -> [Services -> 0 .. MinForceUpdateInterval]]
    /\ phase \in [Services -> Phases]
    /\ left \in [Services -> Nat]
    /\ age \in [Services -> 0 .. MaxRolloutWait]
    /\ stale \in [Services -> BOOLEAN]
    /\ carries \in [Services -> BOOLEAN]
    /\ ackAge \in [Instances -> [Services -> 0 .. MinForceUpdateInterval]]
    /\ owner \in [Services -> Instances \cup {NoOne}]
    /\ pushes \in 0 .. MaxPushes
    /\ faults \in 0 .. MaxFaults

Init ==
    /\ pc = [i \in Instances |-> "idle"]
    /\ svc \in [Instances -> Services]
    /\ todo = [i \in Instances |-> [s \in Services |-> 0]]
    /\ fresh = [i \in Instances |-> FALSE]
    /\ blind = [i \in Instances |-> FALSE]
    /\ lastForceUpdate =
           [i \in Instances |-> [s \in Services |-> MinForceUpdateInterval]]
    /\ phase = [s \in Services |-> "settled"]
    /\ left = [s \in Services |-> 0]
    /\ age = [s \in Services |-> 0]
    /\ stale = [s \in Services |-> FALSE]
    /\ carries = [s \in Services |-> FALSE]
    /\ ackAge = lastForceUpdate
    /\ owner = [s \in Services |-> NoOne]
    /\ pushes = 0
    /\ faults = 0

-----------------------------------------------------------------------------
(***************************************************************************)
(* The swarm manager (external).                                           *)
(***************************************************************************)

(* A version read before this write is out of date. *)
Touch(s) == fresh' = [i \in Instances |-> fresh[i] /\ svc[i] # s]

Fault == faults < MaxFaults /\ faults' = faults + 1

(* The manager takes a new spec: UpdateStatus is gone until the rollout     *)
(* of that spec starts.                                                     *)
AcceptSpec(s, who) ==
    /\ phase' = [phase EXCEPT ![s] = "pending"]
    /\ left' = [left EXCEPT ![s] = StartDelay]
    /\ owner' = [owner EXCEPT ![s] = who]
    /\ Touch(s)
    /\ UNCHANGED <<age, stale, carries>>

(* What is left of a rollout that makes no progress. *)
Stuck == RolloutTime + 1

Stalled(s) == phase[s] = "updating" /\ left[s] = Stuck

StartRollout(s) ==
    /\ phase[s] = "pending"
    /\ phase' = [phase EXCEPT ![s] = "updating"]
    /\ age' = [age EXCEPT ![s] = 0]
    /\ carries' = [carries EXCEPT ![s] = TRUE]
    /\ \/ /\ left' = [left EXCEPT ![s] = RolloutTime]
          /\ UNCHANGED faults
       \/ /\ left' = [left EXCEPT ![s] = Stuck]
          /\ Fault
    /\ Touch(s)
    /\ UNCHANGED <<pc, svc, todo, blind, lastForceUpdate, stale, histVars,
                   pushes>>

Rolling(s) == phase[s] \in {"updating", "rollback_started"}

(* Tasks pull the tag when they start; those started before a push, and     *)
(* those of a rollback, may or may not run what the tag now names.          *)
FinishRollout(s) ==
    /\ Rolling(s)
    /\ left[s] = 0
    /\ phase' = [phase EXCEPT ![s] = "settled"]
    /\ \E still \in BOOLEAN :
          /\ still => stale[s] /\ ~(phase[s] = "updating" /\ carries[s])
          /\ stale' = [stale EXCEPT ![s] = still]
    /\ Touch(s)
    /\ UNCHANGED <<pc, svc, todo, blind, lastForceUpdate, left, age, carries,
                   histVars, pushes, faults>>

(* update_config.failure_action: pause, or roll back and keep StartedAt. *)
FailRollout(s) ==
    /\ Fault
    /\ phase[s] = "updating"
    /\ \/ /\ phase' = [phase EXCEPT ![s] = "settled"]
          /\ UNCHANGED left
       \/ /\ phase' = [phase EXCEPT ![s] = "rollback_started"]
          /\ left' = [left EXCEPT ![s] = RolloutTime]
    /\ Touch(s)
    /\ UNCHANGED <<pc, svc, todo, blind, lastForceUpdate, age, stale, carries,
                   histVars, pushes>>

Push(s) ==
    /\ pushes < MaxPushes
    /\ pushes' = pushes + 1
    /\ stale' = [stale EXCEPT ![s] = TRUE]
    /\ carries' = [carries EXCEPT ![s] = FALSE]
    /\ UNCHANGED <<procVars, phase, left, age, histVars, faults>>

(* `docker service update` by somebody else. *)
OperatorUpdate(s) ==
    /\ Fault
    /\ AcceptSpec(s, NoOne)
    /\ UNCHANGED <<pc, svc, todo, blind, lastForceUpdate, ackAge, pushes>>

-----------------------------------------------------------------------------
(***************************************************************************)
(* A dockenciler process.                                                  *)
(***************************************************************************)

Finished(i) == pc' = [pc EXCEPT ![i] = "idle"]

Tick(i) ==
    /\ pc[i] = "idle"
    /\ \A s \in Services : todo[i][s] = 0
    /\ todo' = [todo EXCEPT ![i] =
                   [s \in Services |-> IF stale[s] THEN Replicas ELSE 0]]
    /\ UNCHANGED <<pc, svc, fresh, blind, lastForceUpdate, swarmVars, histVars,
                   pushes, faults>>

(* Mutant: the loop does not stop at the end of the list. *)
TakeUnbounded(i, s) ==
    /\ pc[i] = "idle"
    /\ todo' = [todo EXCEPT ![i][s] = @ - 1]

Take(i, s) ==
    /\ pc[i] = "idle"
    /\ todo[i][s] > 0
    /\ todo' = [todo EXCEPT ![i][s] = @ - 1]

(* The service as it is now, with the version a later update must match. *)
InspectService(i, s) ==
    /\ Take(i, s)
    /\ pc' = [pc EXCEPT ![i] = "guard"]
    /\ svc' = [svc EXCEPT ![i] = s]
    /\ fresh' = [fresh EXCEPT ![i] = TRUE]
    /\ blind' = [blind EXCEPT ![i] = FALSE]
    /\ UNCHANGED <<lastForceUpdate, swarmVars, histVars, pushes, faults>>

(* A step of the container's pipeline before the guards fails. *)
SkipTask(i, s) ==
    /\ Fault
    /\ Take(i, s)
    /\ UNCHANGED <<pc, svc, fresh, blind, lastForceUpdate, swarmVars, histVars,
                   pushes>>

(* Mutant: the interval is compared with the wrong bound. *)
BackingOffOffByOne(i, s) == lastForceUpdate[i][s] < MinForceUpdateInterval - 1

BackingOff(i, s) == lastForceUpdate[i][s] < MinForceUpdateInterval

(* Mutant: only a forward rollout counts as in flight. *)
InFlightForwardOnly(s) == phase[s] = "updating"

InFlight(s) == phase[s] \in {"updating", "rollback_started"}

(* Mutants: a rollout in flight is never superseded; always. *)
RolloutYoungForEver(s) == InFlight(s)
RolloutYoungNever(s) == FALSE

(* Never true when MaxRolloutWait is 0: the guard is then disabled. *)
RolloutYoung(s) == InFlight(s) /\ age[s] < MaxRolloutWait

DeferBackoff(i) ==
    /\ pc[i] = "guard"
    /\ BackingOff(i, svc[i])
    /\ Finished(i)
    /\ UNCHANGED <<svc, todo, fresh, blind, lastForceUpdate, swarmVars,
                   histVars, pushes, faults>>

DeferInFlight(i) ==
    /\ pc[i] = "guard"
    /\ ~BackingOff(i, svc[i])
    /\ RolloutYoung(svc[i])
    /\ Finished(i)
    /\ UNCHANGED <<svc, todo, fresh, blind, lastForceUpdate, swarmVars,
                   histVars, pushes, faults>>

ForceUpdateAllowed(i) ==
    /\ pc[i] = "guard"
    /\ ~BackingOff(i, svc[i])
    /\ ~RolloutYoung(svc[i])
    /\ pc' = [pc EXCEPT ![i] = "update"]
    /\ UNCHANGED <<svc, todo, fresh, blind, lastForceUpdate, swarmVars,
                   histVars, pushes, faults>>

(* "Not knowing the rollout state is not a reason to skip the update." *)
StatusUnreadable(i) ==
    /\ Fault
    /\ pc[i] = "guard"
    /\ ~BackingOff(i, svc[i])
    /\ MaxRolloutWait > 0
    /\ pc' = [pc EXCEPT ![i] = "update"]
    /\ blind' = [blind EXCEPT ![i] = TRUE]
    /\ UNCHANGED <<svc, todo, fresh, lastForceUpdate, swarmVars, histVars,
                   pushes>>

(* ForceUpdate++ is accepted and the response arrives. *)
BumpAccepted(i) ==
    /\ pc[i] = "update"
    /\ fresh[i]
    /\ AcceptSpec(svc[i], i)
    /\ pc' = [pc EXCEPT ![i] = "record"]
    /\ ackAge' = [ackAge EXCEPT ![i][svc[i]] = 0]
    /\ UNCHANGED <<svc, todo, blind, lastForceUpdate, pushes, faults>>

(* ... or the manager took it, but the caller sees an error. *)
BumpResponseLost(i) ==
    /\ Fault
    /\ pc[i] = "update"
    /\ fresh[i]
    /\ AcceptSpec(svc[i], NoOne)
    /\ Finished(i)
    /\ UNCHANGED <<svc, todo, blind, lastForceUpdate, ackAge, pushes>>

(* "update out of sequence", or the request never got there. *)
BumpRejected(i) ==
    /\ pc[i] = "update"
    /\ \/ ~fresh[i] /\ UNCHANGED faults
       \/ Fault
    /\ Finished(i)
    /\ UNCHANGED <<svc, todo, fresh, blind, lastForceUpdate, swarmVars,
                   histVars, pushes>>

(* Mutant: the bump is not recorded. *)
RecordForceUpdateForgotten(i) ==
    /\ pc[i] = "record"
    /\ Finished(i)
    /\ UNCHANGED <<svc, todo, fresh, blind, lastForceUpdate, swarmVars,
                   histVars, pushes, faults>>

RecordForceUpdate(i) ==
    /\ pc[i] = "record"
    /\ lastForceUpdate' = [lastForceUpdate EXCEPT ![i][svc[i]] = 0]
    /\ Finished(i)
    /\ UNCHANGED <<svc, todo, fresh, blind, swarmVars, histVars, pushes,
                   faults>>

(* lastForceUpdate lives in memory only. *)
Restart(i) ==
    /\ Fault
    /\ Finished(i)
    /\ todo' = [todo EXCEPT ![i] = [s \in Services |-> 0]]
    /\ lastForceUpdate' = [lastForceUpdate EXCEPT ![i] =
                              [s \in Services |-> MinForceUpdateInterval]]
    /\ ackAge' = [ackAge EXCEPT ![i] =
                     [s \in Services |-> MinForceUpdateInterval]]
    /\ owner' = [s \in Services |-> IF owner[s] = i THEN NoOne ELSE owner[s]]
    /\ UNCHANGED <<svc, fresh, blind, swarmVars, pushes>>

-----------------------------------------------------------------------------

(* Time waits for a phase that is due; a stuck rollout is never due. *)
Due(s) == phase[s] # "settled" /\ left[s] = 0

TimePasses ==
    /\ \A s \in Services : ~Due(s)
    /\ left' = [s \in Services |->
                   IF phase[s] = "settled" \/ Stalled(s)
                   THEN left[s] ELSE left[s] - 1]
    /\ age' = [s \in Services |-> Least(age[s] + 1, MaxRolloutWait)]
    /\ lastForceUpdate' = [i \in Instances |-> [s \in Services |->
           Least(lastForceUpdate[i][s] + 1, MinForceUpdateInterval)]]
    /\ ackAge' = [i \in Instances |-> [s \in Services |->
           Least(ackAge[i][s] + 1, MinForceUpdateInterval)]]
    /\ UNCHANGED <<pc, svc, todo, fresh, blind, phase, stale, carries, owner,
                   pushes, faults>>

ProcessStep(i) ==
    \/ Tick(i)
    \/ \E s \in Services : InspectService(i, s)
    \/ DeferBackoff(i)
    \/ DeferInFlight(i)
    \/ ForceUpdateAllowed(i)
    \/ BumpAccepted(i)
    \/ BumpRejected(i)
    \/ RecordForceUpdate(i)

FaultStep(i) ==
    \/ \E s \in Services : SkipTask(i, s)
    \/ StatusUnreadable(i)
    \/ BumpResponseLost(i)
    \/ Restart(i)

SwarmStep(s) == StartRollout(s) \/ FinishRollout(s)

Disturbance(s) == FailRollout(s) \/ Push(s) \/ OperatorUpdate(s)

Next ==
    \/ \E i \in Instances : ProcessStep(i) \/ FaultStep(i)
    \/ \E s \in Services : SwarmStep(s) \/ Disturbance(s)
    \/ TimePasses

Spec == Init /\ [][Next]_vars

(***************************************************************************)
(* The main loop ticks for ever and every daemon call returns (a failed    *)
(* one counts as a return); the orchestrator works on what is pending; time *)
(* passes.  Nothing is assumed of faults, pushes or operators.             *)
(***************************************************************************)
FairSpec ==
    /\ Spec
    /\ \A i \in Instances : WF_vars(ProcessStep(i))
    /\ \A s \in Services : WF_vars(SwarmStep(s))
    /\ WF_vars(TimePasses)

-----------------------------------------------------------------------------
(***************************************************************************)
(* Properties.                                                             *)
(***************************************************************************)

(* The step is a ForceUpdate bump by i that the manager took. *)
Bumps(i) == BumpAccepted(i) \/ BumpResponseLost(i)

(* Superseding the service's rollout now would restart it for nothing. *)
OnItsWay(s) == Rolling(s) /\ age[s] < MaxRolloutWait

(* Two bumps of a service by one process are MinForceUpdateInterval apart   *)
(* once the first was acknowledged, however many stale tasks of it are      *)
(* listed in one tick and wherever time passes in between (docker.go:782).  *)
BackoffRespected ==
    [][\A i \in Instances :
          Bumps(i) => ackAge[i][svc[i]] = MinForceUpdateInterval]_vars

(* A bump never restarts a rollout or rollback that UpdateStatus shows to   *)
(* be running for less than MaxRolloutWait, although the status is read     *)
(* before the update is sent and may change in between: the version check   *)
(* of the manager closes that window (docker.go:759, 796, 805).             *)
NoSupersede ==
    [][\A i \in Instances :
          Bumps(i) /\ ~blind[i] => ~OnItsWay(svc[i])]_vars

(* The two guards together: a process does not restart the rollout its own  *)
(* acknowledged bump asked for, neither before its status is visible        *)
(* (backoff) nor while it is young (in-flight guard), provided the backoff  *)
(* outlasts the time the manager takes to show it (docker.go:717-731).      *)
OwnRolloutUndisturbed ==
    [][StartDelay < MinForceUpdateInterval =>
         \A i \in Instances :
            Bumps(i) /\ ~blind[i] /\ owner[svc[i]] = i =>
               phase[svc[i]] # "pending" /\ ~OnItsWay(svc[i])]_vars

(* Every service gets onto the image its tag names: neither starved by      *)
(* bumps that restart its rollout nor wedged behind a stuck one.            *)
Converges == \A s \in Services : stale[s] ~> ~stale[s]

=============================================================================
