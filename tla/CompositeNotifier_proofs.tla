----------------------- MODULE CompositeNotifier_proofs -----------------------
(***************************************************************************)
(* What the notifier does with what it accepted, proved for any number of  *)
(* callers, calls and registered notifiers and for any capacity.           *)
(***************************************************************************)
EXTENDS CompositeNotifier, TLAPS

(* Of the notifications of one caller, those in S were sent before those in T. *)
Earlier(S, T) == \A m \in S, n \in T : m[1] = n[1] => m[2] < n[2]

Ascending(s) ==
    \A i, j \in DOMAIN s : s[i][1] = s[j][1] /\ i < j => s[i][2] < s[j][2]

InHand == {held} \ {None}
Done == Items(dispatched) \cup dropped

(* The worker holds a notification while it decides about it. *)
HoldsWhenDispatching == held # None <=> worker = "dispatch"

(* What is under way in the order of the calls: settled, in hand, queued. *)
InOrder ==
    /\ Ascending(dispatched)
    /\ Ascending(queue)
    /\ Earlier(Done, InHand)
    /\ Earlier(Done \cup InHand, Items(queue))

Accounted ==
    /\ accepted = Items(queue) \cup InHand \cup Done
    /\ Items(dispatched) \cap dropped = {}

(* The current call of a caller has not been accepted yet. *)
CallsAreNew ==
    /\ \A c \in inSelect : calls[c] > 0
    /\ \A m \in accepted :
          /\ m[2] <= calls[m[1]]
          /\ m[1] \in inSelect => m[2] < calls[m[1]]

(* Goroutines are those of dispatched notifications, and end once. *)
SentOnce ==
    /\ sending \cup returned \subseteq Items(dispatched) \X Notifiers
    /\ sending \cap returned = {}

IInv ==
    /\ TypeOK
    /\ HoldsWhenDispatching
    /\ Accounted
    /\ InOrder
    /\ CallsAreNew
    /\ SentOnce

-----------------------------------------------------------------------------
(* A notification is a caller and the number of one of its calls. *)
LEMMA NotificationParts ==
  ASSUME NEW m \in Notifications
  PROVE  m[1] \in Callers /\ m[2] \in 1 .. MaxCalls[m[1]] /\ m[2] \in Nat
         /\ m = <<m[1], m[2]>>
BY NotifierAssumption DEF Notifications

(* What appending does to the items and to their order. *)
LEMMA AppendItems ==
  ASSUME NEW S, NEW s \in Seq(S), NEW x \in S
  PROVE  /\ Append(s, x) \in Seq(S)
         /\ Items(Append(s, x)) = Items(s) \cup {x}
         /\ Ascending(s) /\ Earlier(Items(s), {x}) /\ x[2] \in Nat
                => Ascending(Append(s, x))
<1> DEFINE t == Append(s, x)
<1>1. /\ t \in Seq(S)
      /\ DOMAIN t = 1 .. Len(s) + 1
      /\ \A i \in 1 .. Len(s) : t[i] = s[i]
      /\ t[Len(s) + 1] = x
      /\ DOMAIN s = 1 .. Len(s)
      /\ Len(s) \in Nat
  OBVIOUS
<1>2. Items(t) = Items(s) \cup {x}
  <2>1. \A y \in Items(t) : y \in Items(s) \cup {x}
    BY <1>1 DEF Items
  <2>2. \A y \in Items(s) : y \in Items(t)
    BY <1>1 DEF Items
  <2>3. x \in Items(t)
    BY <1>1 DEF Items
  <2> QED BY <2>1, <2>2, <2>3
<1>3. ASSUME Ascending(s), Earlier(Items(s), {x})
      PROVE  Ascending(t)
  <2> SUFFICES ASSUME NEW i \in DOMAIN t, NEW j \in DOMAIN t,
                      t[i][1] = t[j][1], i < j
               PROVE  t[i][2] < t[j][2]
    BY DEF Ascending
  <2>1. CASE j \in 1 .. Len(s)
    BY <1>1, <1>3, <2>1 DEF Ascending
  <2>2. CASE j = Len(s) + 1
    BY <1>1, <1>3, <2>2 DEF Earlier, Items
  <2> QED BY <1>1, <2>1, <2>2
<1> QED BY <1>1, <1>2, <1>3

(* What taking the head does to them. *)
LEMMA TailItems ==
  ASSUME NEW S, NEW s \in Seq(S), s # <<>>
  PROVE  /\ Head(s) \in S /\ Tail(s) \in Seq(S)
         /\ Len(Tail(s)) = Len(s) - 1
         /\ Items(s) = {Head(s)} \cup Items(Tail(s))
         /\ Ascending(s) => Ascending(Tail(s))
                            /\ Earlier({Head(s)}, Items(Tail(s)))
<1> DEFINE t == Tail(s)
<1>1. /\ t \in Seq(S)
      /\ Head(s) = s[1] /\ Head(s) \in S
      /\ Len(s) \in Nat /\ Len(s) > 0
      /\ Len(t) = Len(s) - 1
      /\ DOMAIN t = 1 .. Len(s) - 1
      /\ DOMAIN s = 1 .. Len(s)
      /\ \A i \in 1 .. Len(s) - 1 : t[i] = s[i + 1]
  OBVIOUS
<1>2. Items(s) = {Head(s)} \cup Items(t)
  <2>1. \A y \in Items(t) : y \in Items(s)
    BY <1>1 DEF Items
  <2>2. Head(s) \in Items(s)
    BY <1>1 DEF Items
  <2>3. ASSUME NEW i \in DOMAIN s PROVE s[i] \in {Head(s)} \cup Items(t)
    <3>1. CASE i = 1
      BY <1>1, <3>1
    <3>2. CASE i # 1
      <4>1. i - 1 \in DOMAIN t /\ t[i - 1] = s[i]
        BY <1>1, <3>2
      <4> QED BY <4>1 DEF Items
    <3> QED BY <3>1, <3>2
  <2> QED BY <2>1, <2>2, <2>3 DEF Items
<1>3. ASSUME Ascending(s)
      PROVE  Ascending(t) /\ Earlier({Head(s)}, Items(t))
  <2>1. ASSUME NEW i \in DOMAIN t, NEW j \in DOMAIN t,
               t[i][1] = t[j][1], i < j
        PROVE  t[i][2] < t[j][2]
    <3>1. i + 1 \in DOMAIN s /\ j + 1 \in DOMAIN s /\ i + 1 < j + 1
      BY <1>1, <2>1
    <3> QED BY <1>1, <1>3, <2>1, <3>1 DEF Ascending
  <2>2. ASSUME NEW j \in DOMAIN t, Head(s)[1] = t[j][1]
        PROVE  Head(s)[2] < t[j][2]
    <3>1. 1 \in DOMAIN s /\ j + 1 \in DOMAIN s /\ 1 < j + 1
      BY <1>1
    <3> QED BY <1>1, <1>3, <2>2, <3>1 DEF Ascending
  <2> QED BY <2>1, <2>2 DEF Ascending, Earlier, Items
<1> QED BY <1>1, <1>2, <1>3

-----------------------------------------------------------------------------
(* Nothing is under way at first. *)
LEMMA InitInv == Init => IInv
<1> SUFFICES ASSUME Init PROVE IInv
  OBVIOUS
<1>1. Items(<<>>) = {}
  BY DEF Items
<1>2. TypeOK
  <2>1. \A c \in Callers : MaxCalls[c] \in Nat
    BY NotifierAssumption
  <2>2. calls \in [Callers -> Nat] /\ \A c \in Callers : calls[c] <= MaxCalls[c]
    BY <2>1 DEF Init
  <2>3. <<>> \in Seq(Notifications) /\ Len(<<>>) = 0 /\ 0 <= Cap
    BY NotifierAssumption
  <2>4. closing \in BOOLEAN /\ closed \in BOOLEAN
    BY DEF Init
  <2> QED BY <2>2, <2>3, <2>4 DEF Init, TypeOK
<1>3. InHand = {} /\ Done = {}
  BY <1>1 DEF Init, InHand, Done
<1>4. InOrder
  BY <1>1, <1>3 DEF Init, InOrder, Ascending, Earlier
<1> QED BY <1>1, <1>2, <1>3, <1>4 DEF Init, IInv, HoldsWhenDispatching,
           Accounted, CallsAreNew, SentOnce

(* A call of Notify begins, or returns an error: nothing under way moves. *)
LEMMA CallStep ==
  ASSUME IInv, NEW c \in Callers, Notify(c) \/ Refuse(c)
  PROVE  IInv'
<1> USE DEF IInv
<1>1. UNCHANGED <<accepted, cancelled, queue, closing, closed, workVars, returned>>
  BY DEF Notify, Refuse
<1>2. UNCHANGED <<Items(queue), Items(dispatched), InHand, Done>>
  BY <1>1 DEF workVars, InHand, Done, Items
<1>3. TypeOK'
  <2>1. /\ calls' \in [Callers -> Nat]
        /\ \A d \in Callers : calls'[d] <= MaxCalls[d]
        /\ inSelect' \subseteq Callers
    <3>1. \A d \in Callers : MaxCalls[d] \in Nat /\ calls[d] \in Nat
      BY NotifierAssumption DEF TypeOK
    <3>2. CASE Notify(c)
      BY <3>1, <3>2 DEF Notify, TypeOK
    <3>3. CASE Refuse(c)
      BY <3>3 DEF Refuse, TypeOK
    <3> QED BY <3>2, <3>3
  <2> QED BY <1>1, <2>1 DEF TypeOK, workVars
<1>4. HoldsWhenDispatching' /\ Accounted' /\ InOrder' /\ SentOnce'
  BY <1>1, <1>2 DEF HoldsWhenDispatching, Accounted, InOrder, Ascending,
     Earlier, SentOnce, workVars
<1>5. CallsAreNew'
  <2>1. \A m \in accepted : m[1] \in Callers /\ m[2] \in Nat
    BY NotificationParts DEF TypeOK
  <2>2. \A d \in Callers : calls[d] \in Nat
    BY DEF TypeOK
  <2>3. CASE Notify(c)
    BY <2>1, <2>2, <2>3 DEF Notify, CallsAreNew, TypeOK
  <2>4. CASE Refuse(c)
    BY <2>1, <2>2, <2>4 DEF Refuse, CallsAreNew
  <2> QED BY <2>3, <2>4
<1> QED BY <1>3, <1>4, <1>5

(* An accepted notification goes behind everything its caller sent before. *)
LEMMA EnqueueStep ==
  ASSUME IInv, NEW c \in Callers, Enqueue(c)
  PROVE  IInv'
<1> USE DEF IInv
<1> DEFINE x == Current(c)
<1>1. /\ c \in inSelect /\ Len(queue) < Cap
      /\ queue' = Append(queue, x)
      /\ accepted' = accepted \cup {x}
      /\ inSelect' = inSelect \ {c}
      /\ UNCHANGED <<calls, cancelled, closing, closed, workVars, returned>>
  BY DEF Enqueue
<1>2. calls[c] \in Nat /\ calls[c] \in 1 .. MaxCalls[c]
  BY <1>1, NotifierAssumption DEF TypeOK, CallsAreNew
<1>3. x \in Notifications /\ x[1] = c /\ x[2] = calls[c]
  BY <1>2 DEF Notifications, Current
<1>4. Earlier(accepted, {x})
  BY <1>1, <1>3 DEF CallsAreNew, Earlier
<1>5. Items(queue) \subseteq accepted /\ Done \cup InHand \subseteq accepted
  BY DEF Accounted
<1>6. queue \in Seq(Notifications) /\ Ascending(queue)
      /\ Earlier(Items(queue), {x}) /\ x[2] \in Nat
  BY <1>2, <1>3, <1>4, <1>5 DEF TypeOK, InOrder, Earlier
<1>7. /\ queue' \in Seq(Notifications)
      /\ Items(queue') = Items(queue) \cup {x}
      /\ Ascending(queue')
  BY <1>1, <1>3, <1>6, AppendItems
<1>8. UNCHANGED <<Items(dispatched), InHand, Done>>
  BY <1>1 DEF workVars, InHand, Done, Items
<1>9. Items(queue)' = Items(queue')
  BY DEF Items
<1>10. TypeOK'
  <2>1. Len(queue') = Len(queue) + 1
    BY <1>1, <1>6
  <2>2. Len(queue') <= Cap
    BY <1>1, <1>6, <2>1, NotifierAssumption
  <2> QED BY <1>1, <1>3, <1>7, <2>2 DEF TypeOK, workVars
<1>11. Accounted'
  <2>1. accepted' = Items(queue)' \cup InHand' \cup Done'
    BY <1>1, <1>7, <1>8, <1>9 DEF Accounted
  <2>2. Items(dispatched)' \cap dropped' = {}
    BY <1>1, <1>8 DEF Accounted, workVars
  <2> QED BY <2>1, <2>2 DEF Accounted
<1>12. InOrder'
  <2>1. Earlier(Done \cup InHand, Items(queue) \cup {x})
    BY <1>4, <1>5 DEF InOrder, Earlier
  <2>2. Ascending(dispatched)' /\ Earlier(Done, InHand)' /\ Ascending(queue)'
    BY <1>1, <1>7, <1>8 DEF InOrder, Earlier, Ascending, workVars
  <2>3. Earlier(Done \cup InHand, Items(queue))'
    BY <1>7, <1>8, <1>9, <2>1 DEF Earlier
  <2> QED BY <2>2, <2>3 DEF InOrder
<1>13. HoldsWhenDispatching' /\ SentOnce'
  BY <1>1, <1>8 DEF HoldsWhenDispatching, SentOnce, workVars
<1>14. CallsAreNew'
  <2>1. \A m \in accepted : m[1] \in Callers
    BY NotificationParts DEF TypeOK
  <2> QED BY <1>1, <1>2, <1>3, <2>1 DEF CallsAreNew
<1> QED BY <1>10, <1>11, <1>12, <1>13, <1>14

(* The head of the channel goes into the worker's hand. *)
LEMMA TakeStep ==
  ASSUME IInv, Take
  PROVE  IInv'
<1> USE DEF IInv
<1>1. /\ worker = "select" /\ queue # <<>>
      /\ held' = Head(queue) /\ queue' = Tail(queue) /\ worker' = "dispatch"
      /\ UNCHANGED <<calls, inSelect, accepted, cancelled, closing, closed,
                     sending, dispatched, dropped, returned>>
  BY DEF Take, TakeFrom, callVars
<1>2. /\ Head(queue) \in Notifications /\ Tail(queue) \in Seq(Notifications)
      /\ Len(Tail(queue)) = Len(queue) - 1
      /\ Items(queue) = {Head(queue)} \cup Items(Tail(queue))
      /\ Ascending(Tail(queue))
      /\ Earlier({Head(queue)}, Items(Tail(queue)))
  BY <1>1, TailItems DEF TypeOK, InOrder
<1>3. held = None /\ InHand = {}
  BY <1>1 DEF HoldsWhenDispatching, InHand
<1>4. InHand' = {Head(queue)} /\ Head(queue) # None
  BY <1>1, <1>2, NotifierAssumption DEF InHand
<1>5. Done' = Done /\ Items(dispatched)' = Items(dispatched)
      /\ Items(queue)' = Items(Tail(queue))
  BY <1>1 DEF Done, Items
<1>6. TypeOK'
  <2>1. Len(queue') <= Cap
    BY <1>1, <1>2, NotifierAssumption DEF TypeOK
  <2> QED BY <1>1, <1>2, <2>1 DEF TypeOK
<1>7. HoldsWhenDispatching'
  BY <1>1, <1>4 DEF HoldsWhenDispatching
<1>8. Accounted'
  BY <1>1, <1>2, <1>3, <1>4, <1>5 DEF Accounted
<1>9. InOrder'
  <2>1. Ascending(dispatched)' /\ Ascending(queue)'
    BY <1>1, <1>2 DEF InOrder, Ascending
  <2>2. Earlier(Done, {Head(queue)}) /\ Earlier(Done, Items(Tail(queue)))
    BY <1>2 DEF InOrder, Earlier
  <2>3. Earlier(Done, InHand)'
    BY <1>4, <1>5, <2>2 DEF Earlier
  <2>4. Earlier(Done \cup InHand, Items(queue))'
    BY <1>2, <1>4, <1>5, <2>2 DEF Earlier
  <2> QED BY <2>1, <2>3, <2>4 DEF InOrder
<1>10. CallsAreNew' /\ SentOnce'
  BY <1>1, <1>5 DEF CallsAreNew, SentOnce
<1> QED BY <1>6, <1>7, <1>8, <1>9, <1>10

(* What was in hand is settled: skipped, or behind what was dispatched. *)
LEMMA SettleStep ==
  ASSUME IInv, Drop \/ Dispatch
  PROVE  IInv'
<1> USE DEF IInv
<1>1. /\ worker = "dispatch" /\ held' = None /\ worker' = "select"
      /\ UNCHANGED <<calls, inSelect, accepted, cancelled, queue, closing, closed,
                     returned>>
  BY DEF Drop, Dispatch, callVars
<1>2. held \in Notifications /\ held # None
  BY <1>1 DEF TypeOK, HoldsWhenDispatching
<1>3. InHand = {held} /\ InHand' = {} /\ Items(queue)' = Items(queue)
  BY <1>1, <1>2 DEF InHand, Items
<1>4. held \notin Done
  BY <1>2, <1>3, NotificationParts DEF InOrder, Earlier
<1>5. Done' = Done \cup {held} /\ Ascending(dispatched') /\ TypeOK'
      /\ SentOnce' /\ (Items(dispatched) \cap dropped = {})'
  <2>1. CASE Drop
    <3>1. /\ dropped' = dropped \cup {held}
          /\ UNCHANGED <<dispatched, sending>>
      BY <2>1 DEF Drop
    <3>2. Items(dispatched)' = Items(dispatched)
      BY <3>1 DEF Items
    <3>3. (Items(dispatched) \cap dropped = {})'
      BY <1>4, <3>1, <3>2 DEF Accounted, Done
    <3> QED BY <1>1, <1>2, <3>1, <3>2, <3>3
            DEF TypeOK, Done, InOrder, Ascending, SentOnce
  <2>2. CASE Dispatch
    <3>1. /\ dispatched' = Append(dispatched, held)
          /\ sending' = sending \cup ({held} \X Notifiers)
          /\ dropped' = dropped
      BY <2>2 DEF Dispatch
    <3>2. held[2] \in Nat /\ Earlier(Items(dispatched), {held})
      BY <1>2, <1>3, NotificationParts DEF InOrder, Done, Earlier
    <3>3. /\ dispatched' \in Seq(Notifications)
          /\ Items(dispatched') = Items(dispatched) \cup {held}
          /\ Ascending(dispatched')
      BY <1>2, <3>1, <3>2, AppendItems DEF TypeOK, InOrder
    <3>4. Items(dispatched)' = Items(dispatched) \cup {held}
      BY <3>3 DEF Items
    <3>5. held \notin Items(dispatched)
      BY <3>2 DEF Earlier
    <3>6. SentOnce'
      BY <1>1, <3>1, <3>4, <3>5 DEF SentOnce
    <3>7. TypeOK'
      BY <1>1, <1>2, <3>1, <3>3 DEF TypeOK
    <3>8. (Items(dispatched) \cap dropped = {})'
      BY <1>4, <3>1, <3>4 DEF Accounted, Done
    <3> QED BY <3>1, <3>3, <3>4, <3>6, <3>7, <3>8 DEF Done
  <2> QED BY <2>1, <2>2
<1>6. HoldsWhenDispatching' /\ CallsAreNew'
  BY <1>1 DEF HoldsWhenDispatching, CallsAreNew
<1>7. Accounted'
  <2>1. accepted' = Items(queue)' \cup InHand' \cup Done'
    BY <1>1, <1>3, <1>5 DEF Accounted
  <2> QED BY <1>5, <2>1 DEF Accounted
<1>8. InOrder'
  <2>1. Ascending(queue)' /\ Ascending(dispatched)'
    BY <1>1, <1>5 DEF InOrder, Ascending
  <2>2. Earlier(Done, InHand)' /\ Earlier(Done \cup InHand, Items(queue))'
    BY <1>3, <1>5 DEF InOrder, Earlier
  <2> QED BY <2>1, <2>2 DEF InOrder
<1> QED BY <1>5, <1>6, <1>7, <1>8

(* A goroutine ends. *)
LEMMA ReturnStep ==
  ASSUME IInv, NEW m \in Notifications, NEW n \in Notifiers, NotifierReturns(m, n)
  PROVE  IInv'
<1> USE DEF IInv
<1>1. /\ <<m, n>> \in sending
      /\ sending' = sending \ {<<m, n>>}
      /\ returned' = returned \cup {<<m, n>>}
      /\ UNCHANGED <<calls, inSelect, accepted, cancelled, queue, closing, closed,
                     worker, held, dispatched, dropped>>
  BY DEF NotifierReturns, callVars
<1>2. UNCHANGED <<Items(queue), Items(dispatched), InHand, Done>>
  BY <1>1 DEF InHand, Done, Items
<1>3. TypeOK'
  BY <1>1 DEF TypeOK
<1>4. SentOnce'
  BY <1>1, <1>2 DEF SentOnce
<1>5. HoldsWhenDispatching' /\ Accounted' /\ InOrder' /\ CallsAreNew'
  BY <1>1, <1>2 DEF HoldsWhenDispatching, Accounted, InOrder, Ascending,
     Earlier, CallsAreNew
<1> QED BY <1>3, <1>4, <1>5

(* A context is cancelled, Close is called or returns, the worker stops:    *)
(* what is under way stays where it is, if for ever.                        *)
LEMMA ShutdownStep ==
  ASSUME IInv,
         \/ \E c \in Callers : CancelContext(c)
         \/ Close \/ CloseReturns \/ WorkerStops \/ UNCHANGED vars
  PROVE  IInv'
<1> USE DEF IInv
<1>1. /\ UNCHANGED <<calls, inSelect, accepted, queue, held, sending, dispatched,
                     dropped, returned>>
      /\ worker' = worker \/ (worker = "select" /\ worker' = "stopped")
      /\ cancelled' \subseteq Callers
      /\ closing' \in BOOLEAN /\ closed' \in BOOLEAN
  BY DEF CancelContext, Close, CloseReturns, WorkerStops, vars, callVars, workVars,
     TypeOK
<1>2. UNCHANGED <<Items(queue), Items(dispatched), InHand, Done>>
  BY <1>1 DEF InHand, Done, Items
<1>3. TypeOK'
  BY <1>1 DEF TypeOK
<1>4. HoldsWhenDispatching'
  BY <1>1 DEF HoldsWhenDispatching
<1>5. Accounted' /\ InOrder' /\ CallsAreNew' /\ SentOnce'
  BY <1>1, <1>2 DEF Accounted, InOrder, Ascending, Earlier, CallsAreNew, SentOnce
<1> QED BY <1>3, <1>4, <1>5

-----------------------------------------------------------------------------
(* Every notification under way is where the queue, the worker and Close    *)
(* (notifier.go:70-110) can have put it, in the order of the calls.         *)
THEOREM Inductive == Spec => []IInv
<1>1. IInv /\ [Next]_vars => IInv'
  <2> SUFFICES ASSUME IInv, [Next]_vars PROVE IInv'
    OBVIOUS
  <2>1. ASSUME NEW c \in Callers, Notify(c) \/ Refuse(c) PROVE IInv'
    BY <2>1, CallStep
  <2>2. ASSUME NEW c \in Callers, Enqueue(c) PROVE IInv'
    BY <2>2, EnqueueStep
  <2>3. ASSUME Take PROVE IInv'
    BY <2>3, TakeStep
  <2>4. ASSUME Drop \/ Dispatch PROVE IInv'
    BY <2>4, SettleStep
  <2>5. ASSUME NEW m \in Notifications, NEW n \in Notifiers, NotifierReturns(m, n)
        PROVE  IInv'
    BY <2>5, ReturnStep
  <2>6. ASSUME \/ \E c \in Callers : CancelContext(c)
               \/ Close \/ CloseReturns \/ WorkerStops \/ UNCHANGED vars
        PROVE  IInv'
    BY <2>6, ShutdownStep
  <2> QED BY <2>1, <2>2, <2>3, <2>4, <2>5, <2>6 DEF Next, Worker
<1> QED BY InitInv, <1>1, PTL DEF Spec

(* Every reachable state has the type TypeOK says; in particular the channel *)
(* never holds more than its capacity (notifier.go:61).                      *)
THEOREM TypeCorrect == Spec => []TypeOK
BY Inductive, PTL DEF IInv

(* What Notify accepted is in exactly one place, and once in the channel     *)
(* (notifier.go:72, 88-101).                                                 *)
THEOREM Accounting == Spec => []AcceptedAccountedFor
<1>1. IInv => AcceptedAccountedFor
  <2> SUFFICES ASSUME IInv PROVE AcceptedAccountedFor
    OBVIOUS
  <2>1. accepted = Items(queue) \cup InHand \cup Done
    BY DEF IInv, Accounted
  <2>2. \A m \in Items(queue) :
           m \in Notifications /\ m[2] \in Nat /\ m # None
    BY NotificationParts, NotifierAssumption DEF IInv, TypeOK, Items
  <2>3. \A m \in Items(queue) : m \notin Done \cup InHand
    BY <2>2 DEF IInv, InOrder, Earlier
  <2>4. held \notin Done
    <3>1. CASE held = None
      BY <3>1, NotifierAssumption DEF IInv, TypeOK, Done, Items
    <3>2. CASE held # None
      <4>1. held \in InHand /\ held[2] \in Nat
        BY <3>2, NotificationParts DEF IInv, TypeOK, InHand
      <4> QED BY <4>1 DEF IInv, InOrder, Earlier
    <3> QED BY <3>1, <3>2
  <2>5. ASSUME NEW i \in DOMAIN queue, NEW j \in DOMAIN queue, queue[i] = queue[j]
        PROVE  i = j
    <3>1. i \in Nat /\ j \in Nat /\ queue[i][2] \in Nat
      BY NotificationParts DEF IInv, TypeOK
    <3> QED BY <2>5, <3>1 DEF IInv, InOrder, Ascending
  <2>6. Items(queue) \cap ({held} \cup Done) = {}
    BY <2>2, <2>3 DEF InHand
  <2> QED BY <2>1, <2>4, <2>5, <2>6
          DEF AcceptedAccountedFor, InHand, Done, IInv, Accounted
<1> QED BY Inductive, <1>1, PTL

(* No registered notifier is called twice for a notification                 *)
(* (notifier.go:97-101).                                                     *)
THEOREM OnceEach == Spec => []AtMostOnce
<1>1. IInv => AtMostOnce
  <2> SUFFICES ASSUME IInv, NEW i \in DOMAIN dispatched,
                      NEW j \in DOMAIN dispatched,
                      dispatched[i] = dispatched[j]
               PROVE  i = j
    BY DEF IInv, SentOnce, AtMostOnce
  <2>1. i \in Nat /\ j \in Nat /\ dispatched[i] \in Notifications
    BY DEF IInv, TypeOK
  <2>2. dispatched[i][2] \in Nat
    BY <2>1, NotificationParts
  <2> QED BY <2>1, <2>2 DEF IInv, InOrder, Ascending
<1> QED BY Inductive, <1>1, PTL

(* The calls of a caller are dispatched in their order (notifier.go:72, 88). *)
THEOREM FirstInFirstOut == Spec => []DispatchedInOrder
<1>1. IInv => DispatchedInOrder
  BY DEF IInv, InOrder, Ascending, DispatchedInOrder
<1> QED BY Inductive, <1>1, PTL

-----------------------------------------------------------------------------
(* The line of the Outbox: appending to the queue appends to the line, and  *)
(* what is in hand is its front.                                            *)
LEMMA LineAppends ==
  ASSUME NEW S, NEW h \in S, NEW q \in Seq(S), NEW x \in S
  PROVE  /\ <<h>> \o Append(q, x) = Append(<<h>> \o q, x)
         /\ <<>> \o Append(q, x) = Append(<<>> \o q, x)
<1>1. Append(q, x) \in Seq(S) /\ Len(Append(q, x)) = Len(q) + 1
  OBVIOUS
<1>2. <<>> \o Append(q, x) = Append(q, x) /\ <<>> \o q = q
  OBVIOUS
<1>3. <<h>> \o Append(q, x) = Append(<<h>> \o q, x)
  OBVIOUS
<1> QED BY <1>2, <1>3

LEMMA LineFront ==
  ASSUME NEW S, NEW h \in S, NEW q \in Seq(S)
  PROVE  /\ <<h>> \o q # <<>>
         /\ Head(<<h>> \o q) = h
         /\ Tail(<<h>> \o q) = q
         /\ <<>> \o q = q
         /\ q # <<>> => <<Head(q)>> \o Tail(q) = q
<1>1. /\ <<h>> \o q \in Seq(S)
      /\ Len(<<h>> \o q) = Len(q) + 1
      /\ Head(<<h>> \o q) = h
      /\ Len(q) \in Nat
  OBVIOUS
<1>2. <<h>> \o q # <<>>
  BY <1>1
<1>3. Tail(<<h>> \o q) = q
  OBVIOUS
<1>4. <<>> \o q = q
  OBVIOUS
<1>5. q # <<>> => <<Head(q)>> \o Tail(q) = q
  OBVIOUS
<1> QED BY <1>1, <1>2, <1>3, <1>4, <1>5

(* A call that is being accepted has not been accepted before. *)
LEMMA AcceptRefines ==
  ASSUME IInv, NEW c \in Callers, Enqueue(c)
  PROVE  Box!Next
<1> USE DEF IInv
<1> DEFINE x == Current(c)
<1>1. /\ c \in inSelect
      /\ queue' = Append(queue, x)
      /\ accepted' = accepted \cup {x}
      /\ UNCHANGED <<calls, cancelled, held, dispatched>>
  BY DEF Enqueue, workVars
<1>2. calls[c] \in Nat /\ calls[c] \in 1 .. MaxCalls[c]
  BY <1>1, NotifierAssumption DEF TypeOK, CallsAreNew
<1>3. x \in Notifications /\ x[1] = c /\ x[2] = calls[c]
  BY <1>2 DEF Notifications, Current
<1>4. x \notin accepted
  BY <1>1, <1>2, <1>3 DEF CallsAreNew
<1>5. Pending' = Append(Pending, x)
  <2>1. CASE held = None
    BY <1>1, <1>3, <2>1, LineAppends DEF Pending, TypeOK
  <2>2. CASE held # None
    BY <1>1, <1>3, <2>2, LineAppends DEF Pending, TypeOK
  <2> QED BY <2>1, <2>2
<1>6. Box!Accept(x)
  BY <1>1, <1>4, <1>5 DEF Box!Accept
<1> QED BY <1>3, <1>6 DEF Box!Next

(* Taking the head of the channel leaves the line as it is. *)
LEMMA TakeStutters ==
  ASSUME IInv, Take
  PROVE  UNCHANGED Box!vars
<1> USE DEF IInv
<1>1. /\ worker = "select" /\ queue # <<>>
      /\ held' = Head(queue) /\ queue' = Tail(queue)
      /\ UNCHANGED <<accepted, cancelled, dispatched>>
  BY DEF Take, TakeFrom, callVars
<1>2. queue \in Seq(Notifications) /\ Head(queue) \in Notifications
  BY <1>1, TailItems DEF TypeOK
<1>3. held = None /\ held' # None
  BY <1>1, <1>2, NotifierAssumption DEF HoldsWhenDispatching
<1>4. Pending' = <<Head(queue)>> \o Tail(queue) /\ Pending = <<>> \o queue
  BY <1>1, <1>3 DEF Pending
<1>5. Pending' = Pending
  BY <1>1, <1>2, <1>4, LineFront
<1> QED BY <1>1, <1>5 DEF Box!vars

(* Settling what is in hand takes the front off the line. *)
LEMMA SettleRefines ==
  ASSUME IInv, Drop \/ Dispatch
  PROVE  Box!Next
<1> USE DEF IInv
<1>1. /\ worker = "dispatch" /\ held' = None
      /\ UNCHANGED <<accepted, cancelled, queue>>
  BY DEF Drop, Dispatch, callVars
<1>2. held \in Notifications /\ held # None /\ queue \in Seq(Notifications)
  BY <1>1 DEF TypeOK, HoldsWhenDispatching
<1>3. Pending = <<held>> \o queue /\ Pending' = <<>> \o queue
  BY <1>1, <1>2 DEF Pending
<1>4. Pending # <<>> /\ Head(Pending) = held /\ Pending' = Tail(Pending)
  BY <1>2, <1>3, LineFront
<1>5. CASE Drop
  <2>1. Box!Skip
    BY <1>1, <1>2, <1>4, <1>5 DEF Drop, Box!Skip
  <2> QED BY <2>1 DEF Box!Next
<1>6. CASE Dispatch
  <2>1. Box!Deliver
    BY <1>1, <1>2, <1>4, <1>6 DEF Dispatch, Box!Deliver
  <2> QED BY <2>1 DEF Box!Next
<1> QED BY <1>5, <1>6

(* The other steps leave the line alone, or cancel a context. *)
LEMMA OtherRefines ==
  ASSUME IInv,
         \/ \E c \in Callers : Notify(c) \/ Refuse(c) \/ CancelContext(c)
         \/ \E m \in Notifications, n \in Notifiers : NotifierReturns(m, n)
         \/ Close \/ CloseReturns \/ WorkerStops \/ UNCHANGED vars
  PROVE  [Box!Next]_(Box!vars)
<1>1. /\ UNCHANGED <<accepted, queue, held, dispatched>>
      /\ cancelled \subseteq cancelled'
  BY DEF Notify, Refuse, CancelContext, NotifierReturns, Close, CloseReturns,
     WorkerStops, vars, callVars, workVars
<1>2. Pending' = Pending
  BY <1>1 DEF Pending
<1>3. Box!Withdraw
  BY <1>1, <1>2 DEF Box!Withdraw
<1> QED BY <1>3 DEF Box!Next

(* Callers, channel, worker and Close implement one line of notifications,   *)
(* for any callers, calls and capacity (notifier.go:70-110).                 *)
THEOREM Refines == Spec => ImplementsOutbox
<1>1. Init => Box!Init
  <2> SUFFICES ASSUME Init PROVE Box!Init
    OBVIOUS
  <2>1. Pending = <<>> /\ {m \in Notifications : m[1] \in cancelled} = {}
    BY DEF Init, Pending
  <2> QED BY <2>1 DEF Init, Box!Init
<1>2. IInv /\ [Next]_vars => [Box!Next]_(Box!vars)
  <2> SUFFICES ASSUME IInv, [Next]_vars PROVE [Box!Next]_(Box!vars)
    OBVIOUS
  <2>1. ASSUME NEW c \in Callers, Enqueue(c) PROVE Box!Next
    BY <2>1, AcceptRefines
  <2>2. ASSUME Take PROVE UNCHANGED Box!vars
    BY <2>2, TakeStutters
  <2>3. ASSUME Drop \/ Dispatch PROVE Box!Next
    BY <2>3, SettleRefines
  <2>4. ASSUME \/ \E c \in Callers : Notify(c) \/ Refuse(c) \/ CancelContext(c)
               \/ \E m \in Notifications, n \in Notifiers : NotifierReturns(m, n)
               \/ Close \/ CloseReturns \/ WorkerStops \/ UNCHANGED vars
        PROVE  [Box!Next]_(Box!vars)
    BY <2>4, OtherRefines
  <2> QED BY <2>1, <2>2, <2>3, <2>4 DEF Next, Worker
<1> QED BY <1>1, <1>2, Inductive, PTL DEF Spec, ImplementsOutbox, Box!Spec

=============================================================================
