------------------------------- MODULE Outbox -------------------------------
(***************************************************************************)
(* What the asynchronous notifier promises to its callers, with the channel *)
(* and the worker left out: one line in which every accepted notification   *)
(* waits exactly once.  The one in front is delivered unless its context is *)
(* cancelled by then, and nothing else ever leaves the line.  Implemented   *)
(* by module CompositeNotifier.                                             *)
(***************************************************************************)
EXTENDS Sequences

CONSTANT Notifications

VARIABLES
    accepted,
    pending,
    delivered,
    withdrawn    \* notifications whose context is cancelled

vars == <<accepted, pending, delivered, withdrawn>>

Init ==
    /\ accepted = {} /\ withdrawn = {}
    /\ pending = <<>> /\ delivered = <<>>

Accept(m) ==
    /\ m \notin accepted
    /\ accepted' = accepted \cup {m}
    /\ pending' = Append(pending, m)
    /\ UNCHANGED <<delivered, withdrawn>>

Deliver ==
    /\ pending # <<>>
    /\ Head(pending) \notin withdrawn
    /\ delivered' = Append(delivered, Head(pending))
    /\ pending' = Tail(pending)
    /\ UNCHANGED <<accepted, withdrawn>>

Skip ==
    /\ pending # <<>>
    /\ Head(pending) \in withdrawn
    /\ pending' = Tail(pending)
    /\ UNCHANGED <<accepted, delivered, withdrawn>>

Withdraw ==
    /\ withdrawn \subseteq withdrawn'
    /\ UNCHANGED <<accepted, pending, delivered>>

Next == (\E m \in Notifications : Accept(m)) \/ Deliver \/ Skip \/ Withdraw

Spec == Init /\ [][Next]_vars

=============================================================================
