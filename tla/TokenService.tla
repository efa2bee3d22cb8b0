---------------------------- MODULE TokenService ----------------------------
(***************************************************************************)
(* What the token caches of the registry providers promise to concurrent    *)
(* callers: every call takes effect at one moment, as if there were no       *)
(* locks.  It is answered with the token remembered for its key while that   *)
(* is more than Margin away from its expiry, and only otherwise with another *)
(* one, which is remembered.  Invalidation forgets everything at once.       *)
(* Implemented by module TokenCache.                                         *)
(***************************************************************************)
EXTENDS Naturals

CONSTANTS Callers, Keys, NoKey, NoToken, Margin

VARIABLES
    now,
    remembered,
    wants,      \* what each caller waits for, NoKey outside a call
    answer      \* what its last call returned

vars == <<now, remembered, wants, answer>>

Good(tok) == tok # NoToken /\ now + Margin < tok.expiry

Init ==
    /\ now = 0
    /\ remembered = [k \in Keys |-> NoToken]
    /\ wants = [p \in Callers |-> NoKey]
    /\ answer = [p \in Callers |-> NoToken]

Ask(p, k) ==
    /\ wants[p] = NoKey
    /\ wants' = [wants EXCEPT ![p] = k]
    /\ answer' = [answer EXCEPT ![p] = NoToken]
    /\ UNCHANGED <<now, remembered>>

Answer(p, tok) ==
    /\ wants' = [wants EXCEPT ![p] = NoKey]
    /\ answer' = [answer EXCEPT ![p] = tok]
    /\ UNCHANGED now

Reuse(p) ==
    /\ wants[p] # NoKey
    /\ Good(remembered[wants[p]])
    /\ Answer(p, remembered[wants[p]])
    /\ UNCHANGED remembered

Replace(p) ==
    /\ wants[p] # NoKey
    /\ ~Good(remembered[wants[p]])
    /\ answer'[p] # NoToken
    /\ Answer(p, answer'[p])
    /\ remembered' = [remembered EXCEPT ![wants[p]] = answer'[p]]

Fail(p) ==
    /\ wants[p] # NoKey
    /\ ~Good(remembered[wants[p]])
    /\ Answer(p, NoToken)
    /\ UNCHANGED remembered

Forget ==
    /\ remembered' = [k \in Keys |-> NoToken]
    /\ UNCHANGED <<now, wants, answer>>

Pass ==
    /\ now' = now + 1
    /\ UNCHANGED <<remembered, wants, answer>>

Next ==
    \/ \E p \in Callers :
          (\E k \in Keys : Ask(p, k)) \/ Reuse(p) \/ Replace(p) \/ Fail(p)
    \/ Forget \/ Pass

Spec == Init /\ [][Next]_vars

=============================================================================
