----------------------------- MODULE TokenCache -----------------------------
(***************************************************************************)
(* The token caches of the registry providers under concurrent callers      *)
(* (src/pkg/registry): check, take the lock, check again, fetch, store.      *)
(*   bearer   Docker Hub and GHCR: a token per repository; the cache has a   *)
(*            lock of its own, another one for all repositories is held over *)
(*            the fetch; the expiry counts from the receipt of the answer    *)
(*   ecr      one token; the cache's own lock is held over the fetch, which  *)
(*            shuts out readers and InvalidateCache; the answer says when    *)
(*            the token expires                                              *)
(*   gcr      as ecr, but the token source under the cache hands out its     *)
(*            last token again as long as that lives                         *)
(* The token endpoints and Google's token source are external.               *)
(***************************************************************************)
EXTENDS Naturals

CONSTANTS
    Callers,       \* goroutines
    Repositories,
    Account,       \* the only key of an ECR or GCR cache
    Kinds,
    NoToken,
    NoCaller,
    NoKey,
    Margin,        \* left to a token that is handed out again
    Timeout,       \* of the HTTP client of Hub and GHCR
    Lifetimes,     \* what an endpoint may answer
    MaxTime,       \* bound
    MaxIssued      \* bound: tokens issued

ASSUME TokenCacheAssumption ==
    /\ Account \in Repositories
    /\ Kinds \subseteq {"bearer", "ecr", "gcr"}
    /\ NoCaller \notin Callers
    /\ NoKey \notin Repositories
    /\ {Margin, Timeout, MaxTime, MaxIssued} \subseteq Nat
    /\ Lifetimes \subseteq Nat

(* When a token was issued and dies, and the expiry the provider notes. *)
Token == [serial : Nat, from : Nat, dies : Nat, expiry : Nat]

ASSUME NoTokenAssumption == NoToken \notin Token

VARIABLES
    kind,      \* of the provider, for good
    active,    \* the goroutines there are, for good
    now,
    cache,     \* what is remembered for each key
    lock,      \* the lock held over a fetch
    call,      \* where each caller is, for which key, when it sent its
               \* request, and the token on its way to it
    answer,    \* what its last call returned
    issued,    \* tokens issued
    latest,    \* the token Google's source keeps
    (* history, read by no action *)
    void       \* tokens issued when the cache was last invalidated;
               \* call[p].seen is the same when the call began

fixed == <<kind, active>>
vars == <<fixed, now, cache, lock, call, answer, issued, latest, void>>

Maybe == Token \cup {NoToken}

Call == [at : {"idle", "check", "lock", "recheck", "fetch", "reply"},
         key : Repositories,
         sent : 0 .. MaxTime,
         reply : Maybe,
         seen : 0 .. MaxIssued]

TypeOK ==
    /\ kind \in Kinds
    /\ active \subseteq Callers
    /\ now \in 0 .. MaxTime
    /\ cache \in [Repositories -> Maybe]
    /\ lock \in Callers \cup {NoCaller}
    /\ call \in [Callers -> Call]
    /\ answer \in [Callers -> Maybe]
    /\ issued \in 0 .. MaxIssued
    /\ latest \in Maybe
    /\ void \in 0 .. MaxIssued

NoCall == [at |-> "idle", key |-> Account, sent |-> 0, reply |-> NoToken,
           seen |-> 0]

Init ==
    /\ kind \in Kinds
    /\ active \in SUBSET Callers \ {{}}
    /\ now = 0
    /\ cache = [k \in Repositories |-> NoToken]
    /\ lock = NoCaller
    /\ call = [p \in Callers |-> NoCall]
    /\ answer = [p \in Callers |-> NoToken]
    /\ issued = 0
    /\ latest = NoToken
    /\ void = 0

-----------------------------------------------------------------------------

Keys == IF kind = "bearer" THEN Repositories ELSE {Account}

(* The lock of the cache itself is free. *)
CacheFree == kind # "bearer" => lock = NoCaller

(* Mutant: a token would be used to its last moment. *)
UsableWithoutMargin(tok) == tok # NoToken /\ now < tok.expiry

Usable(tok) == tok # NoToken /\ now + Margin < tok.expiry

At(p, where) == call[p].at = where

GoTo(p, where) == call' = [call EXCEPT ![p].at = where] /\ UNCHANGED answer

(* Mutant: one token would serve all repositories. *)
RememberedForAll(p) == cache[Account]

Remembered(p) == cache[call[p].key]

Return(p, tok) ==
    /\ call' = [call EXCEPT ![p] = NoCall]
    /\ answer' = [answer EXCEPT ![p] = tok]

(* token, GetAuth. *)
Begin(p, k) ==
    /\ p \in active
    /\ At(p, "idle")
    /\ k \in Keys
    /\ call' = [call EXCEPT ![p] = [NoCall EXCEPT !.at = "check", !.key = k,
                                                  !.seen = void]]
    /\ answer' = [answer EXCEPT ![p] = NoToken]
    /\ UNCHANGED <<fixed, now, cache, lock, issued, latest, void>>

CheckHit(p) ==
    /\ At(p, "check")
    /\ CacheFree
    /\ Usable(Remembered(p))
    /\ Return(p, Remembered(p))
    /\ UNCHANGED <<fixed, now, cache, lock, issued, latest, void>>

CheckMiss(p) ==
    /\ At(p, "check")
    /\ CacheFree
    /\ ~Usable(Remembered(p))
    /\ GoTo(p, "lock")
    /\ UNCHANGED <<fixed, now, cache, lock, issued, latest, void>>

Lock(p) ==
    /\ At(p, "lock")
    /\ lock = NoCaller
    /\ lock' = p
    /\ GoTo(p, "recheck")
    /\ UNCHANGED <<fixed, now, cache, issued, latest, void>>

(* Another caller has fetched the token meanwhile. *)
RecheckHit(p) ==
    /\ At(p, "recheck")
    /\ Usable(Remembered(p))
    /\ Return(p, Remembered(p))
    /\ lock' = NoCaller
    /\ UNCHANGED <<fixed, now, cache, issued, latest, void>>

Send(p) ==
    /\ call' = [call EXCEPT ![p].at = "fetch", ![p].sent = now]
    /\ UNCHANGED <<fixed, now, cache, lock, answer, issued, latest, void>>

(* Mutant: there would be no second check. *)
FetchUnchecked(p) == At(p, "recheck") /\ Send(p)

RecheckMiss(p) ==
    /\ At(p, "recheck")
    /\ ~Usable(Remembered(p))
    /\ Send(p)

(* The token is on its way. *)
Deliver(p, tok) ==
    call' = [call EXCEPT ![p].at = "reply", ![p].reply = tok]

Issue(p) ==
    /\ At(p, "fetch")
    /\ issued < MaxIssued
    /\ \E life \in Lifetimes :
          LET tok == [serial |-> issued + 1, from |-> now,
                      dies |-> now + life, expiry |-> now + life]
          IN  Deliver(p, tok) /\ latest' = tok
    /\ issued' = issued + 1
    /\ UNCHANGED <<fixed, now, cache, lock, answer, void>>

IssueAgain(p) ==
    /\ At(p, "fetch")
    /\ kind = "gcr"
    /\ latest # NoToken /\ now < latest.dies
    /\ Deliver(p, latest)
    /\ UNCHANGED <<fixed, now, cache, lock, answer, issued, latest, void>>

Fetching(p) == call[p].at \in {"fetch", "reply"}

(* Mutant: an error would leave the lock taken. *)
FetchFailsLocked(p) ==
    /\ Fetching(p)
    /\ Return(p, NoToken)
    /\ UNCHANGED <<fixed, now, cache, lock, issued, latest, void>>

(* No answer in time, a status, an empty token: the call fails. *)
FetchFails(p) ==
    /\ Fetching(p)
    /\ Return(p, NoToken)
    /\ lock' = NoCaller
    /\ UNCHANGED <<fixed, now, cache, issued, latest, void>>

(* Hub and GHCR count expires_in from the receipt.  ECR says when the token *)
(* expires (were it not to, which it never does, 12 hours would count).     *)
Received(tok) ==
    IF kind = "bearer"
    THEN [tok EXCEPT !.expiry = now + (tok.dies - tok.from)] ELSE tok

Store(p) ==
    /\ At(p, "reply")
    /\ cache' = [cache EXCEPT ![call[p].key] = Received(call[p].reply)]
    /\ Return(p, Received(call[p].reply))
    /\ lock' = NoCaller
    /\ UNCHANGED <<fixed, now, issued, latest, void>>

(* Mutant: the map would be dropped and not made anew by the next store. *)
ClearMap(p) ==
    /\ p \in active
    /\ At(p, "idle")
    /\ cache' = [k \in {} |-> NoToken]
    /\ void' = issued
    /\ UNCHANGED <<fixed, now, lock, call, answer, issued, latest>>

Clear(p) ==
    /\ p \in active
    /\ At(p, "idle")
    /\ cache' = [k \in Repositories |-> NoToken]
    /\ void' = issued
    /\ UNCHANGED <<fixed, now, lock, call, answer, issued, latest>>

(* Mutant: ECR's cache would be cleared without its lock. *)
ClearUnlocked(p) == Clear(p)

InvalidateCache(p) == CacheFree /\ Clear(p)

(* A request under way ends before the timeout of its client passes. *)
Pass ==
    /\ now < MaxTime
    /\ kind = "bearer" =>
          \A p \in Callers : Fetching(p) => now < call[p].sent + Timeout
    /\ now' = now + 1
    /\ UNCHANGED <<fixed, cache, lock, call, answer, issued, latest, void>>

-----------------------------------------------------------------------------

Scheduled(p) ==
    CheckHit(p) \/ CheckMiss(p) \/ RecheckHit(p) \/ RecheckMiss(p) \/ Store(p)

Next ==
    \/ \E p \in Callers :
          \/ \E k \in Repositories : Begin(p, k)
          \/ Scheduled(p) \/ Lock(p)
          \/ Issue(p) \/ IssueAgain(p) \/ FetchFails(p)
          \/ InvalidateCache(p)
    \/ Pass

Spec == Init /\ [][Next]_vars

(* Goroutines run; a mutex does not starve a goroutine that waits for it     *)
(* (nor does the cache's own lock, which CheckHit and CheckMiss take); a     *)
(* request is answered or fails.                                            *)
FairSpec ==
    /\ Spec
    /\ \A p \in Callers :
          /\ WF_vars(RecheckHit(p) \/ RecheckMiss(p) \/ Store(p))
          /\ WF_vars(Issue(p) \/ IssueAgain(p) \/ FetchFails(p))
          /\ SF_vars(CheckHit(p) \/ CheckMiss(p))
          /\ SF_vars(Lock(p))

-----------------------------------------------------------------------------
(***************************************************************************)
(* Properties.                                                             *)
(***************************************************************************)

Answered(p) ==
    call[p].at # "idle" /\ call'[p].at = "idle" /\ answer'[p] # NoToken

(* A token that is handed out again has more than the margin, less the time  *)
(* its own answer may have taken, left to it: the expiry that is noted may   *)
(* be late by that time (dockerhub.go:242, 307; ecr.go:89; gcr.go:164).       *)
HandedOutAlive ==
    [][\A p \in Callers :
          Answered(p) /\ ~At(p, "reply") =>
              now + Margin < answer'[p].dies + Timeout]_vars

(* The endpoint is not asked while a token that would do is in the cache:    *)
(* concurrent callers share one fetch ("token should be fetched once",       *)
(* dockerhub_test.go:553, ecr_test.go:526, docs/providers/dockerhub.md:129).  *)
NoNeedlessFetch ==
    [][\A p \in Callers :
          Issue(p) \/ IssueAgain(p) => ~Usable(Remembered(p))]_vars

(* After InvalidateCache no call is answered with a token issued before it.  *)
(* The lock that ECR holds over the fetch sees to that; Hub and GHCR store a *)
(* token whose fetch was under way, so there it needs a single goroutine,    *)
(* which is how the reconcile loop uses them (ecr.go:70, ghcr.go:92, 282).    *)
Serialised == kind = "ecr" \/ (kind = "bearer" /\ \A p, q \in active : p = q)

InvalidatedStaysSo ==
    [][\A p \in Callers :
          Serialised /\ Answered(p) => answer'[p].serial > call[p].seen]_vars

(* Every call returns, however many wait for the same lock and whatever the  *)
(* endpoint does (dockerhub.go:254, ecr.go:99).                             *)
CallsReturn == \A p \in Callers : ~At(p, "idle") ~> At(p, "idle")

(* The locks make every call look atomic. *)
Service == INSTANCE TokenService
    WITH Keys <- Repositories,
         remembered <- cache,
         wants <- [p \in Callers |->
                      IF At(p, "idle") THEN NoKey ELSE call[p].key]

(* Every provider's cache is an abstract token service (dockerhub.go:240-316, *)
(* ghcr.go:203-286, ecr.go:87-148, gcr.go:159-182).                           *)
ImplementsService == Service!Spec

=============================================================================
