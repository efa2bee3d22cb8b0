-------------------------- MODULE TokenCache_proofs --------------------------
(***************************************************************************)
(* Proofs about TokenCache, for any callers, repositories, kinds of          *)
(* provider, margins, timeouts and lifetimes.                                *)
(***************************************************************************)
EXTENDS TokenCache, TLAPS

(* The actions that happen to a caller. *)
CallerStep(p) ==
    \/ \E k \in Repositories : Begin(p, k)
    \/ CheckHit(p) \/ CheckMiss(p) \/ Lock(p)
    \/ RecheckHit(p) \/ RecheckMiss(p)
    \/ Issue(p) \/ IssueAgain(p) \/ FetchFails(p) \/ Store(p)
    \/ InvalidateCache(p)

(* Next is a step of one caller or the passing of time. *)
LEMMA NextCases ==
    ASSUME Next
    PROVE  Pass \/ \E p \in Callers : CallerStep(p)
  BY DEF Next, Scheduled, CallerStep

-----------------------------------------------------------------------------
(* Type correctness. *)

LEMMA NoCallTyped == NoCall \in Call
  BY TokenCacheAssumption DEF NoCall, Call, Maybe

(* A returning call leaves well-typed calls and answers behind. *)
LEMMA ReturnTyped ==
    ASSUME TypeOK, NEW p \in Callers, NEW tok \in Maybe, Return(p, tok)
    PROVE  call' \in [Callers -> Call] /\ answer' \in [Callers -> Maybe]
  BY NoCallTyped DEF TypeOK, Return

LEMMA ReceivedTyped ==
    ASSUME TypeOK, NEW tok \in Token, tok.dies >= tok.from
    PROVE  Received(tok) \in Token
  BY DEF TypeOK, Received, Token

(* Replies are tokens that were not issued in the future. *)
Issued(tok) == tok \in Token /\ tok.from <= now /\ tok.from <= tok.dies

RepliesIssued ==
    /\ \A p \in Callers : At(p, "reply") => Issued(call[p].reply)
    /\ latest # NoToken => Issued(latest)

LEMMA InitTyped == Init => TypeOK /\ RepliesIssued
  BY NoCallTyped, TokenCacheAssumption
  DEF Init, TypeOK, RepliesIssued, Maybe, At, NoCall

LEMMA IssueTyped ==
    ASSUME TypeOK, RepliesIssued, NEW p \in Callers, Issue(p)
    PROVE  TypeOK' /\ RepliesIssued'
<1>1. PICK life \in Lifetimes :
          /\ Deliver(p, [serial |-> issued + 1, from |-> now,
                         dies |-> now + life, expiry |-> now + life])
          /\ latest' = [serial |-> issued + 1, from |-> now,
                        dies |-> now + life, expiry |-> now + life]
  BY DEF Issue
<1>2. life \in Nat /\ issued \in Nat /\ now \in Nat
  BY TokenCacheAssumption DEF TypeOK
<1>3. latest' \in Token /\ latest'.from = now /\ latest'.dies = now + life
  BY <1>1, <1>2 DEF Token
<1>4. call' = [call EXCEPT ![p].at = "reply", ![p].reply = latest']
  BY <1>1 DEF Deliver
<1>5. call' \in [Callers -> Call]
  BY <1>3, <1>4 DEF TypeOK, Call, Maybe
<1>6. TypeOK'
  BY <1>3, <1>5, TokenCacheAssumption DEF TypeOK, Issue, fixed, Maybe
<1>7. Issued(latest)'
  BY <1>2, <1>3 DEF Issued, Issue
<1>8. ASSUME NEW q \in Callers, At(q, "reply")' PROVE Issued(call[q].reply)'
  <2>1. CASE q = p
    BY <1>4, <1>7, <2>1 DEF TypeOK, Call, Issued
  <2>2. CASE q # p
    BY <1>4, <1>8, <2>2 DEF TypeOK, Call, Issued, RepliesIssued, At, Issue
  <2> QED BY <2>1, <2>2
<1> QED BY <1>6, <1>7, <1>8 DEF RepliesIssued

LEMMA StepTyped ==
    ASSUME TypeOK, RepliesIssued, [Next]_vars
    PROVE  TypeOK' /\ RepliesIssued'
<1> USE DEF RepliesIssued, Issued, At
<1>1. ASSUME Pass PROVE TypeOK' /\ RepliesIssued'
  BY <1>1, TokenCacheAssumption DEF Pass, TypeOK, fixed, Token
<1>2. ASSUME NEW p \in Callers, CallerStep(p) PROVE TypeOK' /\ RepliesIssued'
  <2>1. ASSUME NEW k \in Repositories, Begin(p, k)
        PROVE  TypeOK' /\ RepliesIssued'
    BY <2>1, NoCallTyped DEF Begin, TypeOK, fixed, Call, NoCall, Maybe
  <2>2. ASSUME CheckHit(p) PROVE TypeOK' /\ RepliesIssued'
    <3>1. Remembered(p) \in Maybe
      BY DEF TypeOK, Remembered, Call
    <3>2. call' \in [Callers -> Call] /\ answer' \in [Callers -> Maybe]
      BY <2>2, <3>1, ReturnTyped DEF CheckHit
    <3> QED BY <2>2, <3>2 DEF CheckHit, Return, TypeOK, fixed, NoCall
  <2>3. ASSUME CheckMiss(p) PROVE TypeOK' /\ RepliesIssued'
    BY <2>3 DEF CheckMiss, GoTo, TypeOK, fixed, Call
  <2>4. ASSUME Lock(p) PROVE TypeOK' /\ RepliesIssued'
    BY <2>4 DEF Lock, GoTo, TypeOK, fixed, Call
  <2>5. ASSUME RecheckHit(p) PROVE TypeOK' /\ RepliesIssued'
    <3>1. Remembered(p) \in Maybe
      BY DEF TypeOK, Remembered, Call
    <3>2. call' \in [Callers -> Call] /\ answer' \in [Callers -> Maybe]
      BY <2>5, <3>1, ReturnTyped DEF RecheckHit
    <3> QED BY <2>5, <3>2 DEF RecheckHit, Return, TypeOK, fixed, NoCall
  <2>6. ASSUME RecheckMiss(p) PROVE TypeOK' /\ RepliesIssued'
    BY <2>6 DEF RecheckMiss, Send, TypeOK, fixed, Call
  <2>7. ASSUME Issue(p) PROVE TypeOK' /\ RepliesIssued'
    BY <2>7, IssueTyped
  <2>8. ASSUME IssueAgain(p) PROVE TypeOK' /\ RepliesIssued'
    BY <2>8 DEF IssueAgain, Deliver, TypeOK, fixed, Call
  <2>9. ASSUME FetchFails(p) PROVE TypeOK' /\ RepliesIssued'
    <3>1. call' \in [Callers -> Call] /\ answer' \in [Callers -> Maybe]
      BY <2>9, ReturnTyped DEF FetchFails, Maybe
    <3> QED BY <2>9, <3>1 DEF FetchFails, Return, TypeOK, fixed, NoCall
  <2>10. ASSUME Store(p) PROVE TypeOK' /\ RepliesIssued'
    <3>1. Received(call[p].reply) \in Token
      BY <2>10, ReceivedTyped DEF Store, Token, TypeOK
    <3>2. call' \in [Callers -> Call] /\ answer' \in [Callers -> Maybe]
      BY <2>10, <3>1, ReturnTyped DEF Store, Maybe
    <3>3. cache' \in [Repositories -> Maybe]
      BY <2>10, <3>1 DEF Store, TypeOK, Maybe, Call
    <3> QED BY <2>10, <3>2, <3>3 DEF Store, Return, TypeOK, fixed, NoCall
  <2>11. ASSUME InvalidateCache(p) PROVE TypeOK' /\ RepliesIssued'
    BY <2>11 DEF InvalidateCache, Clear, TypeOK, fixed, Maybe
  <2> QED BY <1>2, <2>1, <2>2, <2>3, <2>4, <2>5, <2>6, <2>7, <2>8, <2>9,
             <2>10, <2>11 DEF CallerStep
<1>3. CASE UNCHANGED vars
  BY <1>3 DEF vars, TypeOK, fixed
<1> QED BY <1>1, <1>2, <1>3, NextCases

(* Every reachable state is well typed. *)
THEOREM TypeCorrect == Spec => []TypeOK
<1>1. Spec => [](TypeOK /\ RepliesIssued)
  BY InitTyped, StepTyped, PTL DEF Spec
<1> QED BY <1>1, PTL

-----------------------------------------------------------------------------
(***************************************************************************)
(* What a caller has established by its second check holds until it stores   *)
(* its token: nobody else can have stored one for the key.                   *)
(***************************************************************************)

Holding(p) == call[p].at \in {"recheck", "fetch", "reply"}

(* The lock is held by whoever is past it. *)
LockHeld == \A p \in Callers : Holding(p) => lock = p

FetchNeeded == \A p \in Callers : Fetching(p) => ~Usable(Remembered(p))

(* For Hub and GHCR, how late a noted expiry may be. *)
InTime ==
    \A p \in Callers : kind = "bearer" /\ Fetching(p) =>
        /\ call[p].sent <= now /\ now <= call[p].sent + Timeout
        /\ At(p, "reply") => call[p].sent <= call[p].reply.from

Noted(tok) == tok.expiry = tok.dies

RepliesNoted ==
    /\ \A p \in Callers : At(p, "reply") => Noted(call[p].reply)
    /\ latest # NoToken => Noted(latest)

ExpiryInTime ==
    \A k \in Repositories :
        cache[k] # NoToken => cache[k].expiry <= cache[k].dies + Timeout

(* With serialised calls, nothing older than the invalidation is left. *)
OnlyActive == \A p \in Callers : ~At(p, "idle") => p \in active

NothingVoid ==
    /\ void <= issued
    /\ \A p \in Callers : call[p].seen <= void
    /\ Serialised =>
          /\ \A k \in Repositories :
                cache[k] # NoToken => void < cache[k].serial
          /\ \A p \in Callers : At(p, "reply") => void < call[p].reply.serial

IInv ==
    /\ TypeOK /\ RepliesIssued
    /\ LockHeld /\ FetchNeeded
    /\ InTime /\ RepliesNoted /\ ExpiryInTime
    /\ OnlyActive /\ NothingVoid

LEMMA InitInv == Init => IInv
  BY InitTyped, TokenCacheAssumption
  DEF Init, IInv, LockHeld, FetchNeeded, InTime, RepliesNoted, ExpiryInTime,
      OnlyActive, NothingVoid, Holding, Fetching, At, NoCall

(* A caller's step leaves the others, the kind and the clock alone. *)
LEMMA CallerFrame ==
    ASSUME TypeOK, NEW p \in Callers, CallerStep(p)
    PROVE  /\ \A q \in Callers : q # p => call'[q] = call[q]
           /\ call' \in [Callers -> Call]
           /\ kind' = kind /\ active' = active /\ now' = now
<1>1. ASSUME NEW k \in Repositories, Begin(p, k)
      PROVE  /\ \A q \in Callers : q # p => call'[q] = call[q]
             /\ call' \in [Callers -> Call]
  BY <1>1, NoCallTyped DEF Begin, TypeOK, Call, NoCall
<1>2. ASSUME NEW tok, Return(p, tok)
      PROVE  /\ \A q \in Callers : q # p => call'[q] = call[q]
             /\ call' \in [Callers -> Call]
  BY <1>2, NoCallTyped DEF Return, TypeOK
<1>3. ASSUME Issue(p)
      PROVE  /\ \A q \in Callers : q # p => call'[q] = call[q]
             /\ call' \in [Callers -> Call]
  <2>1. PICK life \in Lifetimes :
            Deliver(p, [serial |-> issued + 1, from |-> now,
                        dies |-> now + life, expiry |-> now + life])
    BY <1>3 DEF Issue
  <2> DEFINE tok == [serial |-> issued + 1, from |-> now, dies |-> now + life,
                     expiry |-> now + life]
  <2>2. tok \in Token
    BY TokenCacheAssumption DEF TypeOK, Token
  <2>3. call' = [call EXCEPT ![p].at = "reply", ![p].reply = tok]
    BY <2>1 DEF Deliver
  <2> HIDE DEF tok
  <2>4. [call[p] EXCEPT !.at = "reply", !.reply = tok] \in Call
    BY <2>2 DEF TypeOK, Call, Maybe
  <2> QED BY <2>3, <2>4 DEF TypeOK
<1>4. ASSUME \/ CheckMiss(p) \/ Lock(p) \/ RecheckMiss(p) \/ IssueAgain(p)
             \/ InvalidateCache(p)
      PROVE  /\ \A q \in Callers : q # p => call'[q] = call[q]
             /\ call' \in [Callers -> Call]
  BY <1>4 DEF CheckMiss, Lock, RecheckMiss, IssueAgain, InvalidateCache, Clear,
              GoTo, Send, Deliver, TypeOK, Call
<1>5. kind' = kind /\ active' = active /\ now' = now
  BY DEF CallerStep, Begin, CheckHit, CheckMiss, Lock, RecheckHit, RecheckMiss,
         Send, Issue, IssueAgain, FetchFails, Store, InvalidateCache, Clear, fixed
<1> QED
  BY <1>1, <1>2, <1>3, <1>4, <1>5
  DEF CallerStep, CheckHit, RecheckHit, FetchFails, Store

(* Where a call goes on to. *)
LEMMA CallerMoves ==
    ASSUME TypeOK, NEW p \in Callers, CallerStep(p)
    PROVE  \/ \E k \in Repositories : Begin(p, k) /\ call'[p].at = "check"
           \/ (CheckHit(p) \/ RecheckHit(p) \/ FetchFails(p) \/ Store(p))
              /\ call'[p] = NoCall
           \/ CheckMiss(p) /\ call'[p].at = "lock"
           \/ Lock(p) /\ call'[p].at = "recheck"
           \/ RecheckMiss(p) /\ call'[p].at = "fetch"
           \/ (Issue(p) \/ IssueAgain(p)) /\ call'[p].at = "reply"
           \/ InvalidateCache(p) /\ call' = call
<1>1. ASSUME NEW k \in Repositories, Begin(p, k) PROVE call'[p].at = "check"
  BY <1>1 DEF Begin, TypeOK, Call, NoCall
<1>2. ASSUME NEW tok, Return(p, tok) PROVE call'[p] = NoCall
  BY <1>2 DEF Return, TypeOK
<1>3. ASSUME CheckMiss(p) PROVE call'[p].at = "lock"
  BY <1>3 DEF CheckMiss, GoTo, TypeOK, Call
<1>4. ASSUME Lock(p) PROVE call'[p].at = "recheck"
  BY <1>4 DEF Lock, GoTo, TypeOK, Call
<1>5. ASSUME RecheckMiss(p) PROVE call'[p].at = "fetch"
  BY <1>5 DEF RecheckMiss, Send, TypeOK, Call
<1>6. ASSUME NEW tok, Deliver(p, tok) PROVE call'[p].at = "reply"
  BY <1>6 DEF Deliver, TypeOK, Call
<1>7. Issue(p) => call'[p].at = "reply"
  BY <1>6 DEF Issue
<1>8. IssueAgain(p) => call'[p].at = "reply"
  BY <1>6 DEF IssueAgain
<1>9. InvalidateCache(p) => call' = call
  BY DEF InvalidateCache, Clear
<1> QED
  BY <1>1, <1>2, <1>3, <1>4, <1>5, <1>7, <1>8, <1>9
  DEF CallerStep, CheckHit, RecheckHit, FetchFails, Store

LEMMA StepLock ==
    ASSUME IInv, [Next]_vars
    PROVE  LockHeld' /\ OnlyActive'
<1> USE DEF LockHeld, OnlyActive, Holding, At
<1>1. CASE Pass
  BY <1>1 DEF Pass, IInv, fixed
<1>2. ASSUME NEW p \in Callers, CallerStep(p) PROVE LockHeld' /\ OnlyActive'
  <2> USE DEF IInv, NoCall
  <2>1. /\ \A q \in Callers : q # p => call'[q] = call[q]
        /\ active' = active
    BY <1>2, CallerFrame
  <2>2. CASE \E k \in Repositories : Begin(p, k) /\ call'[p].at = "check"
    BY <2>1, <2>2 DEF Begin
  <2>3. CASE CheckHit(p) /\ call'[p] = NoCall
    BY <2>1, <2>3 DEF CheckHit
  <2>4. CASE RecheckHit(p) /\ call'[p] = NoCall
    BY <2>1, <2>4 DEF RecheckHit
  <2>5. CASE FetchFails(p) /\ call'[p] = NoCall
    BY <2>1, <2>5 DEF FetchFails, Fetching
  <2>6. CASE Store(p) /\ call'[p] = NoCall
    BY <2>1, <2>6 DEF Store
  <2>7. CASE CheckMiss(p) /\ call'[p].at = "lock"
    BY <2>1, <2>7 DEF CheckMiss
  <2>8. CASE Lock(p) /\ call'[p].at = "recheck"
    BY <2>1, <2>8, TokenCacheAssumption DEF Lock
  <2>9. CASE RecheckMiss(p) /\ call'[p].at = "fetch"
    BY <2>1, <2>9 DEF RecheckMiss, Send
  <2>10. CASE (Issue(p) \/ IssueAgain(p)) /\ call'[p].at = "reply"
    BY <2>1, <2>10 DEF Issue, IssueAgain
  <2>11. CASE InvalidateCache(p) /\ call' = call
    BY <2>1, <2>11 DEF InvalidateCache, Clear
  <2> QED BY <1>2, <2>2, <2>3, <2>4, <2>5, <2>6, <2>7, <2>8, <2>9, <2>10, <2>11,
             CallerMoves
<1>3. CASE UNCHANGED vars
  BY <1>3 DEF vars, IInv, fixed
<1> QED BY <1>1, <1>2, <1>3, NextCases

(* Nobody else is at the cache while a caller holds the lock, and what is    *)
(* usable only becomes less.                                                *)
LEMMA StepFetch ==
    ASSUME IInv, [Next]_vars
    PROVE  FetchNeeded'
<1> USE DEF FetchNeeded, Fetching, Remembered
<1>1. CASE Pass
  <2>1. now \in Nat /\ now' = now + 1 /\ cache' = cache /\ call' = call
    BY <1>1, TokenCacheAssumption DEF Pass, IInv, TypeOK
  <2>2. ASSUME NEW tok \in Maybe, ~Usable(tok) PROVE ~Usable(tok)'
    BY <2>1, <2>2, TokenCacheAssumption DEF Usable, Maybe, Token
  <2>3. \A p \in Callers : cache[call[p].key] \in Maybe
    BY DEF IInv, TypeOK, Call
  <2> QED BY <2>1, <2>2, <2>3 DEF IInv, Usable
<1>2. ASSUME NEW p \in Callers, CallerStep(p) PROVE FetchNeeded'
  <2> USE DEF IInv, NoCall, Usable
  <2>1. /\ \A q \in Callers : q # p => call'[q] = call[q]
        /\ call' \in [Callers -> Call] /\ now' = now
    BY <1>2, CallerFrame
  <2>2. CASE \E k \in Repositories : Begin(p, k) /\ call'[p].at = "check"
    BY <2>1, <2>2 DEF Begin
  <2>3. CASE (CheckHit(p) \/ RecheckHit(p) \/ FetchFails(p)) /\ call'[p] = NoCall
    BY <2>1, <2>3 DEF CheckHit, RecheckHit, FetchFails
  <2>4. CASE Store(p) /\ call'[p] = NoCall
    <3>1. \A q \in Callers : q # p => call[q].at \notin {"fetch", "reply"}
      BY <2>4 DEF LockHeld, Holding, Store, At
    <3> QED BY <2>1, <2>4, <3>1
  <2>5. CASE CheckMiss(p) /\ call'[p].at = "lock"
    BY <2>1, <2>5 DEF CheckMiss
  <2>6. CASE Lock(p) /\ call'[p].at = "recheck"
    BY <2>1, <2>6 DEF Lock
  <2>7. CASE RecheckMiss(p) /\ call'[p].at = "fetch"
    <3>1. call'[p].key = call[p].key
      BY <2>7 DEF RecheckMiss, Send, TypeOK, Call
    <3> QED BY <2>1, <2>7, <3>1 DEF RecheckMiss, Send
  <2>8. CASE (Issue(p) \/ IssueAgain(p)) /\ call'[p].at = "reply"
    <3>1. call'[p].key = call[p].key
      BY <2>8 DEF Issue, IssueAgain, Deliver, TypeOK, Call
    <3> QED BY <2>1, <2>8, <3>1 DEF Issue, IssueAgain, At
  <2>9. CASE InvalidateCache(p) /\ call' = call
    BY <2>1, <2>9 DEF InvalidateCache, Clear, TypeOK, Call
  <2> QED BY <1>2, <2>2, <2>3, <2>4, <2>5, <2>6, <2>7, <2>8, <2>9, CallerMoves
<1>3. CASE UNCHANGED vars
  BY <1>3 DEF vars, IInv, Usable
<1> QED BY <1>1, <1>2, <1>3, NextCases

(* What Issue puts on its way. *)
LEMMA IssuedReply ==
    ASSUME TypeOK, NEW p \in Callers, Issue(p)
    PROVE  /\ latest' = call'[p].reply
           /\ call'[p].reply.serial = issued + 1
           /\ call'[p].reply.from = now
           /\ Noted(call'[p].reply)
           /\ call'[p].sent = call[p].sent /\ call'[p].seen = call[p].seen
<1>1. PICK life \in Lifetimes :
          /\ latest' = [serial |-> issued + 1, from |-> now,
                        dies |-> now + life, expiry |-> now + life]
          /\ call' = [call EXCEPT ![p].at = "reply", ![p].reply = latest']
  BY DEF Issue, Deliver
<1> QED BY <1>1 DEF TypeOK, Call, Noted

LEMMA StepTime ==
    ASSUME IInv, [Next]_vars
    PROVE  InTime' /\ RepliesNoted'
<1> USE DEF InTime, RepliesNoted, Fetching, At
<1>1. CASE Pass
  <2>1. now \in Nat /\ now' = now + 1 /\ call' = call /\ kind' = kind
        /\ latest' = latest
    BY <1>1 DEF Pass, IInv, TypeOK, fixed
  <2>2. \A p \in Callers : kind = "bearer" /\ Fetching(p) =>
            call[p].sent \in Nat /\ now < call[p].sent + Timeout
    BY <1>1 DEF Pass, IInv, TypeOK, Call
  <2> QED BY <2>1, <2>2, TokenCacheAssumption DEF IInv, Noted
<1>2. ASSUME NEW p \in Callers, CallerStep(p) PROVE InTime' /\ RepliesNoted'
  <2> USE DEF IInv, NoCall
  <2>1. /\ \A q \in Callers : q # p => call'[q] = call[q]
        /\ kind' = kind /\ now' = now
    BY <1>2, CallerFrame
  <2>2. CASE \E k \in Repositories : Begin(p, k) /\ call'[p].at = "check"
    BY <2>1, <2>2 DEF Begin, Noted
  <2>3. CASE (CheckHit(p) \/ RecheckHit(p) \/ FetchFails(p) \/ Store(p))
             /\ call'[p] = NoCall
    BY <2>1, <2>3 DEF CheckHit, RecheckHit, FetchFails, Store, Noted
  <2>4. CASE CheckMiss(p) /\ call'[p].at = "lock"
    BY <2>1, <2>4 DEF CheckMiss, Noted
  <2>5. CASE Lock(p) /\ call'[p].at = "recheck"
    BY <2>1, <2>5 DEF Lock, Noted
  <2>6. CASE RecheckMiss(p) /\ call'[p].at = "fetch"
    <3>1. /\ call'[p].sent = now /\ now <= now /\ now <= now + Timeout
          /\ latest' = latest
      BY <2>6, TokenCacheAssumption DEF RecheckMiss, Send, TypeOK, Call
    <3> QED BY <2>1, <2>6, <3>1 DEF Noted
  <2>7. CASE Issue(p) /\ call'[p].at = "reply"
    BY <2>1, <2>7, IssuedReply DEF Issue, Noted
  <2>8. CASE IssueAgain(p) /\ call'[p].at = "reply"
    <3>1. call'[p].reply = latest /\ latest' = latest
      BY <2>8 DEF IssueAgain, Deliver, TypeOK, Call
    <3> QED BY <2>1, <2>8, <3>1 DEF IssueAgain, Noted
  <2>9. CASE InvalidateCache(p) /\ call' = call
    BY <2>1, <2>9 DEF InvalidateCache, Clear, Noted
  <2> QED BY <1>2, <2>2, <2>3, <2>4, <2>5, <2>6, <2>7, <2>8, <2>9, CallerMoves
<1>3. CASE UNCHANGED vars
  BY <1>3 DEF vars, IInv, fixed, Noted
<1> QED BY <1>1, <1>2, <1>3, NextCases

(* The receipt of an answer is at most Timeout after its issue. *)
LEMMA ReceivedInTime ==
    ASSUME IInv, NEW p \in Callers, Store(p)
    PROVE  /\ Received(call[p].reply) \in Token
           /\ Received(call[p].reply).dies = call[p].reply.dies
           /\ Received(call[p].reply).serial = call[p].reply.serial
           /\ Received(call[p].reply).expiry <= call[p].reply.dies + Timeout
<1> DEFINE tok == call[p].reply
<1>1. /\ tok \in Token /\ tok.from <= tok.dies /\ tok.expiry = tok.dies
      /\ now \in Nat /\ At(p, "reply")
  BY DEF IInv, RepliesIssued, Issued, RepliesNoted, Noted, Store, TypeOK
<1>2. Received(tok) \in Token
  BY <1>1, ReceivedTyped DEF IInv
<1>3. CASE kind = "bearer"
  <2>1. now <= call[p].sent + Timeout /\ call[p].sent <= tok.from
        /\ call[p].sent \in Nat
    BY <1>1, <1>3 DEF IInv, InTime, Fetching, At, TypeOK, Call
  <2>2. Received(tok) = [tok EXCEPT !.expiry = now + (tok.dies - tok.from)]
    BY <1>3 DEF Received
  <2> QED BY <1>1, <1>2, <2>1, <2>2, TokenCacheAssumption DEF Token
<1>4. CASE kind # "bearer"
  BY <1>1, <1>4, TokenCacheAssumption DEF Received, Token
<1> QED BY <1>2, <1>3, <1>4

LEMMA StepExpiry ==
    ASSUME IInv, [Next]_vars
    PROVE  ExpiryInTime'
<1> USE DEF ExpiryInTime
<1>1. CASE Pass
  BY <1>1 DEF Pass, IInv
<1>2. ASSUME NEW p \in Callers, CallerStep(p) PROVE ExpiryInTime'
  <2>1. CASE Store(p)
    BY <2>1, ReceivedInTime DEF Store, IInv, TypeOK
  <2>2. CASE InvalidateCache(p)
    BY <2>2 DEF InvalidateCache, Clear
  <2>3. CASE cache' = cache
    BY <2>3 DEF IInv
  <2> QED
    BY <1>2, <2>1, <2>2, <2>3
    DEF CallerStep, Begin, CheckHit, CheckMiss, Lock, RecheckHit, RecheckMiss,
        Send, Issue, IssueAgain, FetchFails
<1>3. CASE UNCHANGED vars
  BY <1>3 DEF vars, IInv
<1> QED BY <1>1, <1>2, <1>3, NextCases

(* Serialised calls: the cache is cleared while no token is on its way. *)
LEMMA StepVoid ==
    ASSUME IInv, [Next]_vars
    PROVE  NothingVoid'
<1> USE DEF NothingVoid, Serialised, At
<1>1. CASE Pass
  BY <1>1 DEF Pass, IInv, fixed
<1>2. ASSUME NEW p \in Callers, CallerStep(p) PROVE NothingVoid'
  <2> USE DEF IInv
  <2>1. /\ \A q \in Callers : q # p => call'[q] = call[q]
        /\ kind' = kind /\ active' = active
        /\ issued \in Nat /\ void \in Nat
    BY <1>2, CallerFrame, TokenCacheAssumption DEF TypeOK
  <2>2. CASE \E k \in Repositories : Begin(p, k) /\ call'[p].at = "check"
    <3>1. call'[p].seen = void
      BY <2>2 DEF Begin, TypeOK, Call, NoCall
    <3> QED BY <2>1, <2>2, <3>1 DEF Begin
  <2>3. CASE (CheckHit(p) \/ RecheckHit(p) \/ FetchFails(p)) /\ call'[p] = NoCall
    BY <2>1, <2>3 DEF CheckHit, RecheckHit, FetchFails, NoCall
  <2>4. CASE Store(p) /\ call'[p] = NoCall
    <3>1. Received(call[p].reply).serial = call[p].reply.serial
      BY <2>4, ReceivedInTime
    <3> QED BY <2>1, <2>4, <3>1 DEF Store, NoCall, TypeOK
  <2>5. CASE \/ CheckMiss(p) /\ call'[p].at = "lock"
             \/ Lock(p) /\ call'[p].at = "recheck"
             \/ RecheckMiss(p) /\ call'[p].at = "fetch"
    <3>1. call'[p].seen = call[p].seen
      BY <2>5 DEF CheckMiss, Lock, RecheckMiss, GoTo, Send, TypeOK, Call
    <3> QED BY <2>1, <2>5, <3>1 DEF CheckMiss, Lock, RecheckMiss, Send
  <2>6. CASE Issue(p) /\ call'[p].at = "reply"
    BY <2>1, <2>6, IssuedReply DEF Issue
  <2>7. CASE IssueAgain(p) /\ call'[p].at = "reply"
    <3>1. call'[p].seen = call[p].seen
      BY <2>7 DEF IssueAgain, Deliver, TypeOK, Call
    <3> QED BY <2>1, <2>7, <3>1 DEF IssueAgain
  <2>8. CASE InvalidateCache(p) /\ call' = call
    <3>1. ASSUME Serialised, NEW q \in Callers PROVE ~At(q, "reply")
      <4>1. CASE kind = "ecr"
        BY <2>8, <4>1, TokenCacheAssumption
        DEF InvalidateCache, CacheFree, LockHeld, Holding
      <4>2. CASE \A p1, p2 \in active : p1 = p2
        BY <2>8, <4>2 DEF InvalidateCache, Clear, OnlyActive
      <4> QED BY <3>1, <4>1, <4>2
    <3>2. \A q \in Callers : call[q].seen \in Nat
      BY TokenCacheAssumption DEF TypeOK, Call
    <3> QED BY <2>1, <2>8, <3>1, <3>2 DEF InvalidateCache, Clear
  <2> QED BY <1>2, <2>2, <2>3, <2>4, <2>5, <2>6, <2>7, <2>8, CallerMoves
<1>3. CASE UNCHANGED vars
  BY <1>3 DEF vars, IInv, fixed
<1> QED BY <1>1, <1>2, <1>3, NextCases

LEMMA StepInv == IInv /\ [Next]_vars => IInv'
  BY StepTyped, StepLock, StepFetch, StepTime, StepExpiry, StepVoid DEF IInv

(* The inductive invariant holds always. *)
THEOREM Inductive == Spec => []IInv
  BY InitInv, StepInv, PTL DEF Spec

-----------------------------------------------------------------------------
(* The safety properties. *)

(* How a call is answered with a token. *)
LEMMA AnsweredBy ==
    ASSUME TypeOK, NEW p \in Callers, Answered(p), Next
    PROVE  \/ /\ CheckHit(p) \/ RecheckHit(p)
              /\ Usable(Remembered(p)) /\ answer'[p] = Remembered(p)
           \/ Store(p) /\ answer'[p] = Received(call[p].reply)
<1>1. ~Pass
  BY DEF Pass, Answered
<1>2. ASSUME NEW q \in Callers, CallerStep(q), q # p PROVE FALSE
  BY <1>2, CallerFrame DEF Answered
<1>3. CallerStep(p)
  BY <1>1, <1>2, NextCases
<1>4. CheckHit(p) \/ RecheckHit(p) \/ FetchFails(p) \/ Store(p)
  BY <1>3, CallerMoves DEF Answered, InvalidateCache, Clear
<1>5. ASSUME NEW tok, Return(p, tok) PROVE answer'[p] = tok
  BY <1>5 DEF Return, TypeOK
<1>6. ~FetchFails(p)
  BY <1>5 DEF FetchFails, Answered
<1> QED BY <1>4, <1>5, <1>6 DEF CheckHit, RecheckHit, Store

(* A token handed out again is alive, whatever the delays of the network     *)
(* (HandedOutAlive).                                                         *)
THEOREM AliveHolds == Spec => HandedOutAlive
<1>1. ASSUME IInv, Next, NEW p \in Callers, Answered(p), ~At(p, "reply")
      PROVE  now + Margin < answer'[p].dies + Timeout
  <2>1. /\ Usable(Remembered(p)) /\ answer'[p] = Remembered(p)
    BY <1>1, AnsweredBy DEF IInv, Store
  <2>2. Remembered(p) \in Token /\ now \in Nat
    BY <1>1, <2>1 DEF IInv, TypeOK, Remembered, Call, Usable, Maybe
  <2>3. Remembered(p).expiry <= Remembered(p).dies + Timeout
    BY <1>1, <2>2, NoTokenAssumption
    DEF IInv, ExpiryInTime, Remembered, TypeOK, Call
  <2> QED BY <2>1, <2>2, <2>3, TokenCacheAssumption DEF Usable, Token
<1>2. IInv /\ [Next]_vars =>
        [\A p \in Callers : Answered(p) /\ ~At(p, "reply") =>
            now + Margin < answer'[p].dies + Timeout]_vars
  BY <1>1
<1> QED BY <1>2, Inductive, PTL DEF Spec, HandedOutAlive

(* No fetch while a usable token is in the cache (NoNeedlessFetch). *)
THEOREM NeededHolds == Spec => NoNeedlessFetch
<1>1. IInv /\ [Next]_vars =>
        [\A p \in Callers :
            Issue(p) \/ IssueAgain(p) => ~Usable(Remembered(p))]_vars
  BY DEF IInv, FetchNeeded, Fetching, Issue, IssueAgain, At
<1> QED BY <1>1, Inductive, PTL DEF Spec, NoNeedlessFetch

(* What was invalidated is not handed out any more (InvalidatedStaysSo). *)
THEOREM InvalidatedHolds == Spec => InvalidatedStaysSo
<1>1. ASSUME IInv, Next, NEW p \in Callers, Serialised, Answered(p)
      PROVE  answer'[p].serial > call[p].seen
  <2>1. call[p].seen <= void /\ call[p].seen \in Nat /\ void \in Nat
    BY TokenCacheAssumption, <1>1 DEF IInv, NothingVoid, TypeOK, Call
  <2>2. CASE Usable(Remembered(p)) /\ answer'[p] = Remembered(p)
    <3>1. Remembered(p) \in Token /\ Remembered(p) # NoToken
      BY <1>1, <2>2 DEF IInv, TypeOK, Remembered, Call, Usable, Maybe
    <3>2. void < Remembered(p).serial
      BY <1>1, <3>1 DEF IInv, NothingVoid, Remembered, TypeOK, Call
    <3> QED BY <2>1, <2>2, <3>1, <3>2 DEF Token
  <2>3. CASE Store(p) /\ answer'[p] = Received(call[p].reply)
    <3>1. /\ Received(call[p].reply).serial = call[p].reply.serial
          /\ call[p].reply \in Token
      BY <1>1, <2>3, ReceivedInTime DEF IInv, RepliesIssued, Issued, Store
    <3>2. void < call[p].reply.serial
      BY <1>1, <2>3 DEF IInv, NothingVoid, Store
    <3> QED BY <2>1, <2>3, <3>1, <3>2 DEF Token
  <2> QED BY <1>1, <2>2, <2>3, AnsweredBy DEF IInv
<1>2. IInv /\ [Next]_vars =>
        [\A p \in Callers :
            Serialised /\ Answered(p) => answer'[p].serial > call[p].seen]_vars
  BY <1>1
<1> QED BY <1>2, Inductive, PTL DEF Spec, InvalidatedStaysSo

-----------------------------------------------------------------------------
(***************************************************************************)
(* Refinement.  A call takes effect at its first check, at its second one,   *)
(* at its store, or when its fetch fails; at the last two the cache has      *)
(* nothing usable, as the service demands (FetchNeeded).                     *)
(***************************************************************************)

LEMMA InitRefines == Init => Service!Init
  BY DEF Init, Service!Init, At, NoCall

(* The end of a call, seen from the service. *)
Wants == [q \in Callers |-> IF At(q, "idle") THEN NoKey ELSE call[q].key]

LEMMA ReturnRefines ==
    ASSUME TypeOK, NEW p \in Callers, NEW tok \in Maybe, Return(p, tok)
    PROVE  /\ Wants' = [Wants EXCEPT ![p] = NoKey]
           /\ answer' = [answer EXCEPT ![p] = tok]
  BY DEF TypeOK, Return, Wants, At, NoCall

(* A step that ends nothing is invisible to the service. *)
LEMMA InnerStutters ==
    ASSUME TypeOK, NEW p \in Callers,
           ~At(p, "idle"),
           CheckMiss(p) \/ Lock(p) \/ RecheckMiss(p) \/ Issue(p) \/ IssueAgain(p)
    PROVE  UNCHANGED Service!vars
<1>1. CallerStep(p)
  BY DEF CallerStep
<1>2. UNCHANGED <<now, cache, answer>>
  BY DEF CheckMiss, Lock, RecheckMiss, Send, GoTo, Issue, IssueAgain
<1>3. call'[p].at # "idle"
  BY DEF CheckMiss, Lock, RecheckMiss, GoTo, Send, Issue, IssueAgain, Deliver,
     TypeOK, Call
<1>4. call'[p].key = call[p].key
  BY DEF CheckMiss, Lock, RecheckMiss, GoTo, Send, Issue, IssueAgain, Deliver,
     TypeOK, Call
<1>5. \A q \in Callers : q # p => call'[q] = call[q]
  BY <1>1, CallerFrame
<1>6. \A q \in Callers :
        (IF call'[q].at = "idle" THEN NoKey ELSE call'[q].key)
          = (IF call[q].at = "idle" THEN NoKey ELSE call[q].key)
  BY <1>3, <1>4, <1>5 DEF At
<1> QED BY <1>2, <1>6 DEF Service!vars, At

LEMMA StepRefines ==
    ASSUME IInv, [Next]_vars
    PROVE  [Service!Next]_(Service!vars)
<1> USE DEF IInv
<1>1. CASE Pass
  <2>1. Service!Pass
    BY <1>1 DEF Pass, Service!Pass, At
  <2> QED BY <2>1 DEF Service!Next
<1>2. ASSUME NEW p \in Callers, CallerStep(p)
      PROVE  [Service!Next]_(Service!vars)
  <2>1. /\ Remembered(p) \in Maybe
        /\ call[p].key \in Repositories /\ call[p].key # NoKey
        /\ ~At(p, "idle") => Wants[p] = call[p].key
    BY TokenCacheAssumption DEF TypeOK, Remembered, Call, Wants
  <2>2. ASSUME NEW k \in Repositories, Begin(p, k)
        PROVE  Service!Next
    <3>1. call' = [call EXCEPT ![p] = [NoCall EXCEPT !.at = "check", !.key = k,
                                                     !.seen = void]]
      BY <2>2 DEF Begin
    <3>2. call'[p].at = "check" /\ call'[p].key = k
      BY <3>1 DEF TypeOK, NoCall
    <3>3. \A q \in Callers : q # p => call'[q] = call[q]
      BY <3>1 DEF TypeOK
    <3>4. Wants' = [Wants EXCEPT ![p] = k]
      BY <3>2, <3>3 DEF At, Wants
    <3>5. Service!Ask(p, k)
      BY <2>2, <3>4 DEF Begin, Service!Ask, At, Wants
    <3> QED BY <3>5 DEF Service!Next
  <2>3. ASSUME CheckHit(p) \/ RecheckHit(p) PROVE Service!Next
    <3>1. /\ ~At(p, "idle") /\ Usable(Remembered(p))
          /\ Return(p, Remembered(p)) /\ now' = now /\ cache' = cache
      BY <2>3 DEF CheckHit, RecheckHit, At
    <3>2. /\ Wants' = [Wants EXCEPT ![p] = NoKey]
          /\ answer' = [answer EXCEPT ![p] = Remembered(p)]
      BY <2>1, <3>1, ReturnRefines
    <3>3. Service!Reuse(p)
      BY <2>1, <3>1, <3>2 DEF Service!Reuse, Service!Answer,
         Service!Good, Usable, Remembered, Wants
    <3> QED BY <3>3 DEF Service!Next
  <2>4. ASSUME FetchFails(p) PROVE Service!Next
    <3>1. /\ ~At(p, "idle") /\ ~Usable(Remembered(p))
          /\ Return(p, NoToken) /\ now' = now /\ cache' = cache
      BY <2>4 DEF FetchFails, Fetching, FetchNeeded, At
    <3>2. /\ Wants' = [Wants EXCEPT ![p] = NoKey]
          /\ answer' = [answer EXCEPT ![p] = NoToken]
      BY <3>1, ReturnRefines DEF Maybe
    <3>3. Service!Fail(p)
      BY <2>1, <3>1, <3>2 DEF Service!Fail, Service!Answer,
         Service!Good, Usable, Remembered, Wants
    <3> QED BY <3>3 DEF Service!Next
  <2>5. ASSUME Store(p) PROVE Service!Next
    <3> DEFINE tok == Received(call[p].reply)
    <3>1. tok \in Token /\ tok # NoToken
      BY <2>5, ReceivedInTime, NoTokenAssumption
    <3>2. /\ ~At(p, "idle") /\ ~Usable(Remembered(p))
          /\ Return(p, tok) /\ now' = now
          /\ cache' = [cache EXCEPT ![call[p].key] = tok]
      BY <2>5 DEF Store, Fetching, FetchNeeded, At
    <3>3. /\ Wants' = [Wants EXCEPT ![p] = NoKey]
          /\ answer' = [answer EXCEPT ![p] = tok]
      BY <3>1, <3>2, ReturnRefines DEF Maybe
    <3>4. answer'[p] = tok
      BY <3>2 DEF Return, TypeOK
    <3>5. Service!Replace(p)
      BY <2>1, <3>1, <3>2, <3>3, <3>4
      DEF Service!Replace, Service!Answer,
         Service!Good, Usable, Remembered, Wants
    <3> QED BY <3>5 DEF Service!Next
  <2>6. ASSUME InvalidateCache(p) PROVE Service!Next
    <3>1. Service!Forget
      BY <2>6 DEF InvalidateCache, Clear, Service!Forget, At
    <3> QED BY <3>1 DEF Service!Next
  <2>7. ASSUME \/ CheckMiss(p) \/ Lock(p) \/ RecheckMiss(p) \/ Issue(p)
               \/ IssueAgain(p)
        PROVE  UNCHANGED Service!vars
    BY <2>7, InnerStutters
    DEF CheckMiss, Lock, RecheckMiss, Issue, IssueAgain, At
  <2> QED BY <1>2, <2>2, <2>3, <2>4, <2>5, <2>6, <2>7 DEF CallerStep
<1>3. CASE UNCHANGED vars
  BY <1>3 DEF vars, Service!vars, At
<1> QED BY <1>1, <1>2, <1>3, NextCases

(* The caches implement the abstract token service, for any number of        *)
(* callers and repositories (ImplementsService).                             *)
THEOREM Refines == Spec => ImplementsService
<1>1. Init => Service!Init
  BY InitRefines
<1>2. IInv /\ [Next]_vars => [Service!Next]_(Service!vars)
  BY StepRefines
<1> QED BY <1>1, <1>2, Inductive, PTL DEF Spec, ImplementsService, Service!Spec

=============================================================================
