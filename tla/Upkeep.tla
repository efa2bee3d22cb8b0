------------------------------- MODULE Upkeep -------------------------------
(***************************************************************************)
(* What a tick promises to the containers of a daemon, with the registry,  *)
(* the tags and the single calls left out: every container that was         *)
(* running gets one turn and one report, unless the tick is abandoned.  In   *)
(* its turn it is left as it is, handed to its service, or replaced, which   *)
(* ends with it running or with its loss reported; an image that a container *)
(* was created from never goes.  Implemented by module Reconciler.           *)
(***************************************************************************)
EXTENDS Naturals

CONSTANTS
    Containers,
    Images,
    Managed,            \* another process, the swarm manager, replaces these
    Foreign,            \* not this instance's to replace
    DryRun,
    CleanupOldImages

VARIABLES
    state,       \* running, exited, created (never started) or absent
    runs,        \* the image a container was created from
    store,       \* the images on the daemon
    due,         \* containers that have not had their turn
    turn,        \* the container whose turn it is, or was last
    stage,       \* of the tick, and of the turn
    report,      \* how the turn ended
    troubles     \* failing calls, crashes and prunes

world == <<state, runs, store>>
vars == <<world, due, turn, stage, report, troubles>>

Init ==
    /\ state = [c \in Containers |-> "running"]
    /\ runs \in [Containers -> Images]
    /\ store \in SUBSET Images
    /\ \A c \in Containers : runs[c] \in store
    /\ due = {}
    /\ turn \in Containers
    /\ stage = "idle"
    /\ report = "none"
    /\ troubles = 0

InUse(x) == \E c \in Containers : state[c] # "absent" /\ runs[c] = x

(* Whatever a step does, a call of it may have failed. *)
Perhaps == troubles' \in {troubles, troubles + 1}

-----------------------------------------------------------------------------
(* The tick. *)

List ==
    /\ stage = "idle"
    /\ due' = {c \in Containers : state[c] = "running"}
    /\ stage' = "counted"
    /\ Perhaps
    /\ UNCHANGED <<world, turn, report>>

TakeTurn(c) ==
    /\ stage = "counted"
    /\ c \in due
    /\ due' = due \ {c}
    /\ turn' = c
    /\ stage' = "open"
    /\ report' = "none"
    /\ UNCHANGED <<world, troubles>>

(* An end with containers that are due is a trouble, and only that is. *)
Close ==
    /\ stage' = "idle"
    /\ due' = {}
    /\ turn' \in Containers
    /\ report' = "none"
    /\ UNCHANGED world

EndTick == stage = "counted" /\ due = {} /\ Close /\ UNCHANGED troubles

Abandon == Close /\ troubles' = troubles + 1

-----------------------------------------------------------------------------
(* A turn. *)

Become(s) == stage' = s /\ UNCHANGED <<due, turn, report>>

Say(o) ==
    /\ stage' = "counted"
    /\ report' = o
    /\ Perhaps
    /\ UNCHANGED <<world, due, turn>>

Pull(x) ==
    /\ stage = "open"
    /\ store' = store \cup {x}
    /\ UNCHANGED <<state, runs, due, turn, stage, report, troubles>>

Leave(o) ==
    /\ stage = "open"
    /\ o = "dry run" => DryRun
    /\ Say(o)

Delegate ==
    /\ stage = "open"
    /\ ~DryRun
    /\ turn \in Managed
    /\ Become("done")
    /\ UNCHANGED <<world, troubles>>

Remove ==
    /\ stage = "open"
    /\ ~DryRun
    /\ turn \notin Managed \cup Foreign
    /\ state[turn] # "absent"
    /\ state' = [state EXCEPT ![turn] = "absent"]
    /\ Become("removed")
    /\ UNCHANGED <<runs, store, troubles>>

Create(x) ==
    /\ stage = "removed"
    /\ x \in store
    /\ state' = [state EXCEPT ![turn] = "created"]
    /\ runs' = [runs EXCEPT ![turn] = x]
    /\ Become("created")
    /\ UNCHANGED <<store, troubles>>

Start ==
    /\ stage = "created"
    /\ state' = [state EXCEPT ![turn] = "running"]
    /\ Become("done")
    /\ UNCHANGED <<runs, store, troubles>>

ReportLoss == stage \in {"removed", "created"} /\ Say("failed")

Report == stage = "done" /\ Say("updated")

(* After a replacement, of an image that nothing is created from. *)
Clean(x) ==
    /\ stage = "done"
    /\ CleanupOldImages
    /\ turn \notin Managed
    /\ ~InUse(x)
    /\ store' = store \ {x}
    /\ UNCHANGED <<state, runs, due, turn, stage, report, troubles>>

-----------------------------------------------------------------------------
(* The others: a failing call without consequences, prune, operator, swarm. *)

Hiccup ==
    /\ troubles' = troubles + 1
    /\ UNCHANGED <<world, due, turn, stage, report>>

Prune(x) ==
    /\ ~InUse(x)
    /\ store' = store \ {x}
    /\ troubles' = troubles + 1
    /\ UNCHANGED <<state, runs, due, turn, stage, report>>

TakeAway(c) ==
    /\ state[c] = "running"
    /\ \E s \in {"exited", "absent"} : state' = [state EXCEPT ![c] = s]
    /\ UNCHANGED <<runs, store, due, turn, stage, report, troubles>>

TaskReplaced(c, x) ==
    /\ c \in Managed
    /\ state[c] = "running"
    /\ runs' = [runs EXCEPT ![c] = x]
    /\ store' = store \cup {x}
    /\ UNCHANGED <<state, due, turn, stage, report, troubles>>

Next ==
    \/ List \/ EndTick \/ Abandon
    \/ Delegate \/ Remove \/ Start \/ ReportLoss \/ Report
    \/ \E o \in {"skipped", "up to date", "dry run", "failed"} : Leave(o)
    \/ \E x \in Images : Pull(x) \/ Create(x) \/ Clean(x) \/ Prune(x)
    \/ \E c \in Containers : TakeTurn(c) \/ TakeAway(c)
    \/ \E c \in Containers, x \in Images : TaskReplaced(c, x)
    \/ Hiccup

Spec == Init /\ [][Next]_vars

=============================================================================
