------------------------- MODULE CompositeNotifier -------------------------
(***************************************************************************)
(* The asynchronous notifier (src/pkg/notifier/notifier.go:41-110): a       *)
(* bounded queue filled by callers of Notify, one worker that starts a      *)
(* goroutine per registered notifier for every notification, and Close.     *)
(* The registered notifiers (Slack, mail, ...) are external: a goroutine    *)
(* ends when its notifier returns, which may be never, since their HTTP     *)
(* clients have no timeout; its error is ignored.                           *)
(***************************************************************************)
EXTENDS Naturals, Sequences

CONSTANTS
    Callers,     \* goroutines calling Notify, each with a context
    Notifiers,   \* the registered notifiers
    Cap,         \* capacity of the channel
    MaxCalls,    \* bound: how often each caller calls Notify
    None

(* A notification is known by its caller and its number there. *)
Notifications == UNION {{c} \X (1 .. MaxCalls[c]) : c \in Callers}

ASSUME NotifierAssumption ==
    /\ Cap \in Nat \ {0}
    /\ MaxCalls \in [Callers -> Nat]
    /\ None \notin Notifications

VARIABLES
    calls,       \* how often each caller has called Notify
    inSelect,    \* callers inside the select of Notify
    cancelled,   \* callers whose context is cancelled
    queue,       \* the channel
    closing,     \* cn.ctx is cancelled
    closed,      \* Close has returned
    worker,      \* select, dispatch or stopped (done is closed)
    held,        \* the notification the worker took from the channel
    sending,     \* running goroutines
    returned,    \* goroutines whose notifier returned
    accepted,    \* history: notifications for which Notify returned nil
    dispatched,  \* history: notifications in the order they were dispatched
    dropped      \* history: notifications skipped for their context

callVars == <<calls, inSelect, accepted>>
workVars == <<worker, held, sending, dispatched, dropped>>
vars == <<callVars, cancelled, queue, closing, closed, workVars, returned>>

Items(s) == {s[i] : i \in DOMAIN s}

TypeOK ==
    /\ calls \in [Callers -> Nat] /\ \A c \in Callers : calls[c] <= MaxCalls[c]
    /\ inSelect \subseteq Callers
    /\ cancelled \subseteq Callers
    /\ queue \in Seq(Notifications) /\ Len(queue) <= Cap
    /\ closing \in BOOLEAN
    /\ closed \in BOOLEAN
    /\ worker \in {"select", "dispatch", "stopped"}
    /\ held \in Notifications \cup {None}
    /\ sending \subseteq Notifications \X Notifiers
    /\ returned \subseteq Notifications \X Notifiers
    /\ accepted \subseteq Notifications
    /\ dispatched \in Seq(Notifications)
    /\ dropped \subseteq Notifications

Init ==
    /\ calls = [c \in Callers |-> 0]
    /\ inSelect = {} /\ cancelled = {}
    /\ queue = <<>>
    /\ closing = FALSE /\ closed = FALSE
    /\ worker = "select" /\ held = None
    /\ sending = {} /\ returned = {}
    /\ accepted = {} /\ dispatched = <<>> /\ dropped = {}

-----------------------------------------------------------------------------
(* Notify.  When several cases of its select are ready, any may be chosen. *)

Current(c) == <<c, calls[c]>>

Notify(c) ==
    /\ c \notin inSelect
    /\ calls[c] < MaxCalls[c]
    /\ calls' = [calls EXCEPT ![c] = @ + 1]
    /\ inSelect' = inSelect \cup {c}
    /\ UNCHANGED <<accepted, cancelled, queue, closing, closed, workVars,
                   returned>>

(* Mutant: the channel would have no capacity. *)
EnqueueUnbounded(c) ==
    /\ c \in inSelect
    /\ queue' = Append(queue, Current(c))
    /\ accepted' = accepted \cup {Current(c)}
    /\ inSelect' = inSelect \ {c}
    /\ UNCHANGED <<calls, cancelled, closing, closed, workVars, returned>>

(* The channel stays open for ever, so this case can be chosen after Close. *)
Enqueue(c) ==
    /\ c \in inSelect
    /\ Len(queue) < Cap
    /\ queue' = Append(queue, Current(c))
    /\ accepted' = accepted \cup {Current(c)}
    /\ inSelect' = inSelect \ {c}
    /\ UNCHANGED <<calls, cancelled, closing, closed, workVars, returned>>

(* Either context is done: Notify returns its error. *)
Refuse(c) ==
    /\ c \in inSelect
    /\ c \in cancelled \/ closing
    /\ inSelect' = inSelect \ {c}
    /\ UNCHANGED <<calls, accepted, cancelled, queue, closing, closed, workVars,
                   returned>>

CancelContext(c) ==
    /\ c \notin cancelled
    /\ cancelled' = cancelled \cup {c}
    /\ UNCHANGED <<callVars, queue, closing, closed, workVars, returned>>

-----------------------------------------------------------------------------
(* The worker. *)

WorkerStops ==
    /\ worker = "select"
    /\ closing
    /\ worker' = "stopped"
    /\ UNCHANGED <<callVars, cancelled, queue, closing, closed, held, sending,
                   dispatched, dropped, returned>>

TakeFrom(q, item, rest) ==
    /\ worker = "select"
    /\ q # <<>>
    /\ held' = item
    /\ queue' = rest
    /\ worker' = "dispatch"
    /\ UNCHANGED <<callVars, cancelled, closing, closed, sending, dispatched,
                   dropped, returned>>

(* Mutant: the newest notification would be taken first. *)
TakeNewest ==
    TakeFrom(queue, queue[Len(queue)], SubSeq(queue, 1, Len(queue) - 1))

(* Mutant: the notification would stay in the queue. *)
TakeAndKeep == TakeFrom(queue, Head(queue), queue)

Take == TakeFrom(queue, Head(queue), Tail(queue))

(* Mutant: the loop would not go on to the next after a skip. *)
DropAndDispatch ==
    /\ worker = "dispatch"
    /\ held[1] \in cancelled
    /\ dropped' = dropped \cup {held}
    /\ sending' = sending \cup ({held} \X Notifiers)
    /\ dispatched' = Append(dispatched, held)
    /\ held' = None
    /\ worker' = "select"
    /\ UNCHANGED <<callVars, cancelled, queue, closing, closed, returned>>

(* The context of the call is looked at once more, after the wait. *)
Drop ==
    /\ worker = "dispatch"
    /\ held[1] \in cancelled
    /\ dropped' = dropped \cup {held}
    /\ held' = None
    /\ worker' = "select"
    /\ UNCHANGED <<callVars, cancelled, queue, closing, closed, sending,
                   dispatched, returned>>

(* Mutant: the worker would wait for the notifiers of the previous one. *)
DispatchInTurn ==
    /\ worker = "dispatch"
    /\ held[1] \notin cancelled
    /\ sending = {}
    /\ sending' = {held} \X Notifiers
    /\ dispatched' = Append(dispatched, held)
    /\ held' = None
    /\ worker' = "select"
    /\ UNCHANGED <<callVars, cancelled, queue, closing, closed, dropped, returned>>

(* Mutant: the context would not be looked at after the wait. *)
DispatchUnlooked ==
    /\ worker = "dispatch"
    /\ sending' = sending \cup ({held} \X Notifiers)
    /\ dispatched' = Append(dispatched, held)
    /\ held' = None
    /\ worker' = "select"
    /\ UNCHANGED <<callVars, cancelled, queue, closing, closed, dropped, returned>>

Dispatch ==
    /\ worker = "dispatch"
    /\ held[1] \notin cancelled
    /\ sending' = sending \cup ({held} \X Notifiers)
    /\ dispatched' = Append(dispatched, held)
    /\ held' = None
    /\ worker' = "select"
    /\ UNCHANGED <<callVars, cancelled, queue, closing, closed, dropped, returned>>

NotifierReturns(m, n) ==
    /\ <<m, n>> \in sending
    /\ sending' = sending \ {<<m, n>>}
    /\ returned' = returned \cup {<<m, n>>}
    /\ UNCHANGED <<callVars, cancelled, queue, closing, closed, worker, held,
                   dispatched, dropped>>

-----------------------------------------------------------------------------
(* Close. *)

Close ==
    /\ ~closing
    /\ closing' = TRUE
    /\ UNCHANGED <<callVars, cancelled, queue, closed, workVars, returned>>

CloseReturns ==
    /\ closing /\ ~closed
    /\ worker = "stopped"
    /\ closed' = TRUE
    /\ UNCHANGED <<callVars, cancelled, queue, closing, workVars, returned>>

-----------------------------------------------------------------------------

Worker == WorkerStops \/ Take \/ Drop \/ Dispatch

Next ==
    \/ \E c \in Callers : Notify(c) \/ Enqueue(c) \/ Refuse(c) \/ CancelContext(c)
    \/ Worker
    \/ \E m \in Notifications, n \in Notifiers : NotifierReturns(m, n)
    \/ Close \/ CloseReturns

Spec == Init /\ [][Next]_vars

(* The worker and the callers are scheduled; a channel serves its waiting   *)
(* senders in turn and a select chooses among its ready cases at random, so *)
(* that a case ready again and again is chosen.  Nothing is assumed of the  *)
(* registered notifiers.                                                    *)
FairSpec ==
    /\ Spec
    /\ WF_vars(Worker) /\ SF_vars(WorkerStops)
    /\ \A c \in Callers : WF_vars(Enqueue(c) \/ Refuse(c)) /\ SF_vars(Enqueue(c))
    /\ WF_vars(CloseReturns)

-----------------------------------------------------------------------------
(***************************************************************************)
(* Properties.                                                             *)
(***************************************************************************)

(* A notification for which Notify returned nil is in exactly one place: in *)
(* the channel, there once, in the worker's hands, dispatched, or skipped   *)
(* because its context had been cancelled (notifier.go:72, 88-101).         *)
AcceptedAccountedFor ==
    /\ accepted = Items(queue) \cup ({held} \ {None})
                     \cup Items(dispatched) \cup dropped
    /\ \A i, j \in DOMAIN queue : queue[i] = queue[j] => i = j
    /\ Items(queue) \cap ({held} \cup Items(dispatched) \cup dropped) = {}
    /\ held \notin Items(dispatched) \cup dropped
    /\ Items(dispatched) \cap dropped = {}

(* A registered notifier is never called twice for a notification           *)
(* (notifier.go:97-101).                                                    *)
AtMostOnce ==
    /\ sending \cap returned = {}
    /\ \A i, j \in DOMAIN dispatched : dispatched[i] = dispatched[j] => i = j

(* The notifications of a caller are dispatched in the order of its calls,  *)
(* whatever the interleaving with other callers (notifier.go:72, 88).       *)
DispatchedInOrder ==
    \A i, j \in DOMAIN dispatched :
        dispatched[i][1] = dispatched[j][1] /\ i < j
            => dispatched[i][2] < dispatched[j][2]

(* The channel and the worker's hand form one line: whatever the callers,   *)
(* the worker and Close do at once, notifications leave it one by one in the *)
(* order in which they were accepted, across all callers, each delivered or, *)
(* if its context is cancelled by then, skipped (notifier.go:70-101).        *)
Pending == (IF held = None THEN <<>> ELSE <<held>>) \o queue

Box == INSTANCE Outbox WITH
    pending <- Pending,
    delivered <- dispatched,
    withdrawn <- {m \in Notifications : m[1] \in cancelled}

ImplementsOutbox == Box!Spec

(* Notify returns although the registered notifiers may never do: a slow    *)
(* webhook does not hold up the reconcile loop                              *)
(* (docs/notifications.md:214, notifier.go:97).                             *)
NotifyReturns == \A c \in Callers : c \in inSelect ~> c \notin inSelect

(* Close returns, however many notifications are queued and whatever the    *)
(* registered notifiers do (notifier.go:107-110).                           *)
CloseTerminates == closing ~> closed

(* What was accepted is dispatched, unless its context is cancelled or the  *)
(* notifier is closed (notifier.go:88-101).                                 *)
AcceptedDispatched ==
    \A m \in Notifications :
        m \in accepted ~> m \in Items(dispatched) \/ m[1] \in cancelled \/ closing

(* "waits for all queued notifications to be processed" (notifier.go:106).  *)
CloseFlushes == closed => queue = <<>>

=============================================================================
