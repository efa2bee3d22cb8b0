------------------------- MODULE RegistryFlow_proofs -------------------------
(***************************************************************************)
(* Proofs about RegistryFlow, for any images, routers, criteria and tags:    *)
(* the credentials first, then the lookups. What the router and the providers *)
(* make of a reference is proved in References_proofs.                       *)
(***************************************************************************)
EXTENDS RegistryFlow, References_proofs, FiniteSetTheorems, TLAPS

(* The steps of a lookup and of the world that leave credentials alone, but  *)
(* for a token that is fetched or forgotten.                                 *)
LookupStep ==
    \/ Unsupported \/ Invalid \/ DescribeImages \/ HeadManifest \/ HeadFails
    \/ \E p \in Providers :
          CriteriaDigest(p) \/ HeadTarget(p) \/ ListTags(p) \/ LookupFails(p)
    \/ Compare

LEMMA NextCases ==
    ASSUME Next
    PROVE  \/ \E img \in Images : Begin(img)
           \/ RegistryAuth \/ RegistryLogin \/ PullSucceeds \/ PullRefused
           \/ LookupStep \/ CallFailed
           \/ Push \/ SourceExpires
           \/ \E p \in {"ecr", "gcr"} : Revoke(p) \/ Expire(p)
  BY DEF Next, Proceed, World, LookupStep

(* A lookup goes on, or is the end of the turn; only a comparison leads to a *)
(* login, never for a retry.                                                  *)
Looked ==
    /\ fixed' = fixed /\ session' = session /\ revoked' \in {revoked, FALSE}
    /\ \/ step' = "idle" /\ flow' = "update"
       \/ /\ step' \in {"listed", "compare"}
          /\ step \in {"lookup", "listed"}
          /\ image' = image /\ flow' = flow /\ revoked' = revoked
       \/ /\ step = "compare" /\ step' = "auth"
          /\ image' = image /\ flow' = flow /\ revoked' = revoked

LEMMA LookupKeeps ==
    ASSUME LookupStep
    PROVE  Looked
<1> USE DEF Looked, GoTo, Finish, LooksUp
<1>1. ASSUME Unsupported \/ Invalid \/ HeadFails PROVE Looked
  BY <1>1 DEF Unsupported, Invalid, HeadFails, fixed, tokens, memory
<1>2. ASSUME DescribeImages PROVE Looked
  BY <1>2 DEF DescribeImages, Answered
<1>3. ASSUME HeadManifest PROVE Looked
  BY <1>3 DEF HeadManifest, Answered
<1>4. ASSUME NEW p \in Providers, CriteriaDigest(p) \/ HeadTarget(p) PROVE Looked
  BY <1>4 DEF CriteriaDigest, HeadTarget, Answered
<1>5. ASSUME NEW p \in Providers, ListTags(p) PROVE Looked
  BY <1>5 DEF ListTags
<1>6. ASSUME NEW p \in Providers, LookupFails(p) PROVE Looked
  BY <1>6 DEF LookupFails
<1>7. ASSUME Compare PROVE Looked
  BY <1>7 DEF Compare, lookup
<1> QED
  BY <1>1, <1>2, <1>3, <1>4, <1>5, <1>6, <1>7 DEF LookupStep

(* The end of a turn, whatever ends it. *)
LEMMA CallFailedKeeps ==
    ASSUME CallFailed
    PROVE  /\ step' = "idle" /\ flow' = "update" /\ revoked' = FALSE
           /\ UNCHANGED <<fixed, memory, tokens, session>>
  BY DEF CallFailed, Finish, fixed, memory, tokens

(* What the Docker client keeps, as a record. *)
Session(p, host, tok) == [provider |-> p, host |-> host, token |-> tok]

IsSession ==
    session = Session(session.provider, session.host, session.token)

LEMMA GetAuthGives ==
    ASSUME NEW p, GetAuth(p)
    PROVE  IsSession' /\ session'.provider = p
  BY DEF GetAuth, HubAuth, GhcrAuth, EcrAuth, GcrAuth, IsSession, Session

LEMMA RevokeKeeps ==
    ASSUME IsSession, NEW p, Revoke(p)
    PROVE  /\ IsSession' /\ session'.provider = session.provider
           /\ session'.host = session.host
           /\ session.provider # p => session' = session
<1> DEFINE dead(tok) == IF tok = "good" THEN "revoked" ELSE tok
<1>1. session' = IF session.provider = p
                 THEN [session EXCEPT !.token = dead(@)] ELSE session
  BY DEF Revoke
<1>2. [session EXCEPT !.token = dead(@)]
          = Session(session.provider, session.host, dead(session.token))
  BY DEF IsSession, Session
<1> HIDE DEF dead
<1>3. CASE session.provider = p
  BY <1>1, <1>2, <1>3 DEF IsSession, Session
<1>4. CASE session.provider # p
  BY <1>1, <1>4 DEF IsSession, Session
<1> QED BY <1>3, <1>4

-----------------------------------------------------------------------------
(***************************************************************************)
(* A retry: the cache was emptied after the refusal, so what it holds by now *)
(* was fetched since.                                                         *)
(***************************************************************************)

TokensTyped ==
    /\ cache \in [{"ecr", "gcr"} -> Token \ {"config"}]
    /\ source \in Token \ {"config"}

RetryInv ==
    /\ TokensTyped /\ IsSession
    /\ flow = "retry" => step \in {"auth", "login", "pull"}
    /\ flow = "retry" /\ ~revoked =>
        /\ cache["ecr"] # "revoked"
        /\ step \in {"login", "pull"} /\ session.provider = "ecr"
               => session.token # "revoked"

LEMMA InitRetryInv == Init => RetryInv
  BY DEF Init, RetryInv, TokensTyped, Token, IsSession, Session

LEMMA TakesTyped ==
    ASSUME TokensTyped, NEW p \in {"ecr", "gcr"}, NEW tok \in Token,
           TakeToken(p, tok)
    PROVE  TokensTyped'
  BY DEF TokensTyped, TakeToken, Token

(* What a lookup does to the tokens. *)
LEMMA LookupTyped ==
    ASSUME TokensTyped, LookupStep
    PROVE  TokensTyped'
<1>1. CASE UNCHANGED tokens
  BY <1>1 DEF TokensTyped, tokens
<1>2. CASE \E tok \in Token : TakeToken("gcr", tok)
  BY <1>2, TakesTyped
<1>3. ASSUME NEW p, Authorized(p) PROVE TokensTyped'
  BY <1>1, <1>2, <1>3 DEF Authorized, Token
<1>4. ASSUME Unsupported \/ Invalid \/ DescribeImages \/ HeadFails \/ Compare
      PROVE  TokensTyped'
  BY <1>1, <1>4 DEF Unsupported, Invalid, DescribeImages, HeadFails, Compare
<1>5. ASSUME HeadManifest PROVE TokensTyped'
  BY <1>3, <1>5 DEF HeadManifest
<1>6. ASSUME NEW p \in Providers, CriteriaDigest(p) PROVE TokensTyped'
  BY <1>1, <1>6 DEF CriteriaDigest
<1>7. ASSUME NEW p \in Providers, HeadTarget(p) \/ ListTags(p) PROVE TokensTyped'
  BY <1>3, <1>7 DEF HeadTarget, ListTags
<1>8. ASSUME NEW p \in Providers, LookupFails(p) PROVE TokensTyped'
  BY <1>1, <1>2, <1>8 DEF LookupFails
<1> QED
  BY <1>4, <1>5, <1>6, <1>7, <1>8 DEF LookupStep

(* Logging in takes the token out of the cache, or puts it there. *)
LEMMA GetAuthKeeps ==
    ASSUME RetryInv, NEW p, GetAuth(p)
    PROVE  /\ TokensTyped'
           /\ flow = "retry" /\ ~revoked =>
                  /\ cache'["ecr"] # "revoked"
                  /\ p = "ecr" => session'.token # "revoked"
<1> TokensTyped
  BY DEF RetryInv
<1>1. CASE p = "hub" \/ p = "ghcr"
  BY <1>1 DEF GetAuth, HubAuth, GhcrAuth, tokens, TokensTyped, RetryInv
<1>2. CASE p \in {"ecr", "gcr"}
  <2>1. PICK tok \in Token : /\ TakeToken(p, tok)
                             /\ session'.provider = p /\ session'.token = tok
    BY <1>2 DEF GetAuth, EcrAuth, GcrAuth
  <2>2. TokensTyped'
    BY <1>2, <2>1, TakesTyped
  <2>3. p = "ecr" => cache'["ecr"] = tok /\ tok \in {cache["ecr"], "good"}
    BY <2>1 DEF TakeToken, TokensTyped
  <2>4. p = "gcr" => cache'["ecr"] = cache["ecr"]
    BY <2>1 DEF TakeToken, TokensTyped
  <2> QED BY <1>2, <2>1, <2>2, <2>3, <2>4 DEF RetryInv
<1> QED
  BY <1>1, <1>2 DEF GetAuth

LEMMA StepRetryInv ==
    ASSUME RetryInv, [Next]_vars
    PROVE  RetryInv'
<1> TokensTyped
  BY DEF RetryInv
<1>0. session' = session => IsSession'
  BY DEF RetryInv, IsSession
<1>1. ASSUME NEW img \in Images, Begin(img) PROVE RetryInv'
  BY <1>0, <1>1 DEF Begin, RetryInv, TokensTyped, tokens
<1>2. ASSUME RegistryAuth PROVE RetryInv'
  <2>1. ASSUME NEW p, GetAuth(p), step' = "login", UNCHANGED <<flow, revoked>>
        PROVE  RetryInv'
    BY <2>1, GetAuthKeeps, GetAuthGives DEF RetryInv
  <2>2. CASE Finish("failed") /\ UNCHANGED <<tokens, session>>
    BY <1>0, <2>2 DEF Finish, RetryInv, TokensTyped, tokens
  <2> QED BY <1>2, <2>1, <2>2 DEF RegistryAuth, GoTo, lookup
<1>3. ASSUME RegistryLogin \/ PullSucceeds PROVE RetryInv'
  BY <1>0, <1>3
  DEF RegistryLogin, PullSucceeds, GoTo, Finish, RetryInv, TokensTyped, tokens,
      lookup
<1>4. ASSUME PullRefused PROVE RetryInv'
  BY <1>0, <1>4
  DEF PullRefused, InvalidateCache, GoTo, Finish, RetryInv, TokensTyped, Token,
      tokens, memory, lookup
<1>5. ASSUME LookupStep PROVE RetryInv'
  BY <1>0, <1>5, LookupTyped, LookupKeeps DEF Looked, RetryInv
<1>6. ASSUME CallFailed PROVE RetryInv'
  BY <1>0, <1>6, CallFailedKeeps DEF RetryInv, TokensTyped, tokens
<1>7. ASSUME Push \/ SourceExpires PROVE RetryInv'
  BY <1>0, <1>7 DEF Push, SourceExpires, RetryInv, TokensTyped, Token, tokens, turn
<1>8. ASSUME NEW p \in {"ecr", "gcr"}, Revoke(p) PROVE RetryInv'
  <2> DEFINE dead(tok) == IF tok = "good" THEN "revoked" ELSE tok
  <2>1. /\ cache' = [cache EXCEPT ![p] = dead(@)]
        /\ source' = IF p = "gcr" THEN dead(source) ELSE source
        /\ session' = IF session.provider = p
                      THEN [session EXCEPT !.token = dead(@)] ELSE session
        /\ revoked' = (revoked \/ (flow = "retry" /\ p = "ecr"))
        /\ UNCHANGED <<step, flow>>
    BY <1>8 DEF Revoke
  <2>2. TokensTyped'
    BY <2>1 DEF TokensTyped, Token
  <2> IsSession' /\ session'.provider = session.provider
    BY <1>8, RevokeKeeps DEF RetryInv
  <2>3. CASE p = "ecr"
    BY <2>1, <2>2, <2>3 DEF RetryInv
  <2>4. CASE p = "gcr"
    <3>1. cache'["ecr"] = cache["ecr"]
      BY <2>1, <2>4 DEF TokensTyped
    <3>2. session.provider = "ecr" => session' = session
      BY <1>8, <2>4, RevokeKeeps DEF RetryInv
    <3>3. flow' = flow /\ step' = step /\ (revoked => revoked')
      BY <2>1, <2>4 DEF Revoke
    <3> QED BY <2>2, <3>1, <3>2, <3>3 DEF RetryInv
  <2> QED BY <2>3, <2>4
<1>9. ASSUME NEW p \in {"ecr", "gcr"}, Expire(p) PROVE RetryInv'
  BY <1>0, <1>9 DEF Expire, RetryInv, TokensTyped, Token, turn
<1>10. CASE UNCHANGED vars
  BY <1>0, <1>10 DEF vars, turn, tokens, RetryInv, TokensTyped
<1> QED
  BY <1>1, <1>2, <1>3, <1>4, <1>5, <1>6, <1>7, <1>8, <1>9, <1>10, NextCases

(* A retry presents a token that was fetched after the refusal, at ECR.      *)
(* (InvalidateCache and GetAuth, reconciler.go:258-288, ecr.go:85-140.)      *)
THEOREM RetryHolds == Spec => []RetryHasNewToken
<1>1. Spec => []RetryInv
  BY InitRetryInv, StepRetryInv, PTL DEF Spec
<1>2. RetryInv => RetryHasNewToken
  BY DEF RetryInv, RetryHasNewToken
<1> QED BY <1>1, <1>2, PTL

-----------------------------------------------------------------------------
(***************************************************************************)
(* Behind a router: the credentials are those of the provider the image's    *)
(* host leads to, from the login to the pull.                                *)
(***************************************************************************)

RoutedInv ==
    /\ IsSession
    /\ built \subseteq Providers
    /\ step # "idle" => image \in Images
    /\ multi /\ step \in {"login", "pull"}
           => session.provider \in Route(Hosts[image], built)

(* The router chooses the providers that are responsible for the image. *)
LEMMA RoutedIsOwn ==
    ASSUME built \subseteq Providers, NEW img \in Images, ~BareLocalhost(img),
           NEW p \in built
    PROVE  p \in Route(Hosts[img], built) <=> Own(p, img)
<1>1. Hosts[img] = img.host
  BY FlowAssumption, RouterReadsHosts DEF Hosts, FlowAssumption
<1>2. CASE p = "hub"
  BY <1>1, <1>2 DEF Route, Own, HubPrefixes, HubHosts
<1>3. CASE p = "ghcr"
  BY <1>1, <1>3 DEF Route, Own
<1>4. CASE p = "ecr"
  BY <1>1, <1>4 DEF Route, Own
<1>5. CASE p = "gcr"
  BY <1>1, <1>5 DEF Route, Own
<1> QED
  BY <1>2, <1>3, <1>4, <1>5 DEF Providers

LEMMA StepRoutedInv ==
    ASSUME RoutedInv, [Next]_vars
    PROVE  RoutedInv'
<1> USE DEF RoutedInv
<1>0. session' = session => IsSession'
  BY DEF IsSession
<1>1. ASSUME NEW img \in Images, Begin(img) PROVE RoutedInv'
  BY <1>0, <1>1 DEF Begin, fixed
<1>2. ASSUME RegistryAuth PROVE RoutedInv'
  <2>1. ASSUME NEW p \in Responsible, GetAuth(p), GoTo("login"), UNCHANGED fixed
        PROVE  RoutedInv'
    <3>1. IsSession' /\ session'.provider = p
      BY <2>1, GetAuthGives
    <3>2. UNCHANGED <<multi, built, image>>
      BY <2>1 DEF GoTo, fixed
    <3>3. step = "auth" /\ step' = "login"
      BY <1>2, <2>1 DEF RegistryAuth, GoTo
    <3>4. multi => p \in Route(Hosts[image], built)
      BY <2>1 DEF Responsible
    <3> QED BY <2>1, <3>1, <3>2, <3>3, <3>4 DEF fixed
  <2>2. CASE Finish("failed") /\ UNCHANGED <<fixed, session>>
    BY <1>0, <2>2 DEF Finish, fixed
  <2> QED BY <1>2, <2>1, <2>2 DEF RegistryAuth
<1>3. ASSUME RegistryLogin \/ PullSucceeds \/ PullRefused PROVE RoutedInv'
  BY <1>0, <1>3 DEF RegistryLogin, PullSucceeds, PullRefused, GoTo, Finish, fixed
<1>4. ASSUME LookupStep PROVE RoutedInv'
  BY <1>0, <1>4, LookupKeeps DEF Looked, fixed
<1>5. ASSUME CallFailed PROVE RoutedInv'
  BY <1>0, <1>5, CallFailedKeeps DEF fixed
<1>6. ASSUME Push \/ SourceExpires PROVE RoutedInv'
  BY <1>0, <1>6 DEF Push, SourceExpires, fixed, turn
<1>7. ASSUME NEW p \in {"ecr", "gcr"}, Revoke(p) PROVE RoutedInv'
  <2>1. IsSession' /\ session'.provider = session.provider
    BY <1>7, RevokeKeeps
  <2> QED BY <1>7, <2>1 DEF Revoke, fixed
<1>8. ASSUME NEW p \in {"ecr", "gcr"}, Expire(p) PROVE RoutedInv'
  BY <1>0, <1>8 DEF Expire, fixed, turn
<1>9. CASE UNCHANGED vars
  BY <1>0, <1>9 DEF vars, turn, fixed
<1> QED
  BY <1>1, <1>2, <1>3, <1>4, <1>5, <1>6, <1>7, <1>8, <1>9, NextCases

LEMMA RoutedAlways == Spec => []RoutedInv
<1>1. Init => RoutedInv
  BY FlowAssumption DEF Init, RoutedInv, FlowAssumption, IsSession, Session
<1> QED BY <1>1, StepRoutedInv, PTL DEF Spec

(* Behind a router no kind of registry is ever sent the credentials of       *)
(* another provider, in any sequence of turns, heals and retries.            *)
(* (registryAuth, Router.GetAuthFor, lastAuthConfig.)                         *)
THEOREM OwnCredentialsHold == Spec => []PullHasOwnCredentials
<1>1. RoutedInv => PullHasOwnCredentials
  BY RoutedIsOwn DEF RoutedInv, PullHasOwnCredentials, Route
<1> QED BY <1>1, RoutedAlways, PTL

-----------------------------------------------------------------------------
(***************************************************************************)
(* The first login of an update: between the lookup, which leaves the host   *)
(* behind at the GCR provider, and GetAuth, which finds it there, no lookup   *)
(* of another image and no InvalidateCache takes place.                      *)
(***************************************************************************)

(* What a provider's credentials are for, once it has looked the image up. *)
LoginHost(p, img) ==
    CASE p = "hub" -> <<"registry-1.docker.io">>
      [] p = "ghcr" -> <<"ghcr.io">>
      [] p = "ecr" -> <<Account>>
      [] p = "gcr" -> IF Readings["gcr"][img].host = <<>> THEN <<"gcr.io">>
                      ELSE Readings["gcr"][img].host

BuiltForOne == built \subseteq Providers /\ (multi \/ \E p \in Providers : built = {p})

HostRemembered ==
    flow = "update" /\ step \in {"listed", "compare", "auth"}
        /\ "gcr" \in Responsible
    => gcrHost = Readings["gcr"][image].host

HostPresented ==
    flow = "update" /\ step = "login"
    => /\ session.provider \in Providers
       /\ session.host = LoginHost(session.provider, image)

HostInv ==
    /\ IsSession /\ BuiltForOne
    /\ HostRemembered
    /\ HostPresented

(* An image is the business of one provider. *)
LEMMA OneResponsible ==
    ASSUME BuiltForOne, NEW p \in Responsible, NEW q \in Responsible
    PROVE  p = q
<1>1. CASE ~multi
  BY <1>1 DEF BuiltForOne, Responsible
<1>2. CASE multi
  <2> DEFINE host == Hosts[image]
  <2>1. p \in Route(host, built) /\ q \in Route(host, built)
    BY <1>2 DEF Responsible
  <2> HIDE DEF host
  <2>2. p \in Providers /\ q \in Providers
    BY <2>1 DEF BuiltForOne, Route
  <2>3. /\ "hub" \in Route(host, built) => host \in HubPrefixes \cup {<<>>}
        /\ "ghcr" \in Route(host, built) => host = <<"ghcr.io">>
        /\ "ecr" \in Route(host, built) => DkrEcr(host)
        /\ "gcr" \in Route(host, built) => GcrHost(host)
    BY DEF Route
  <2>4. /\ host \in HubPrefixes \cup {<<>>, <<"ghcr.io">>} => ~DkrEcr(host) /\ ~GcrHost(host)
        /\ ~(DkrEcr(host) /\ GcrHost(host))
        /\ <<"ghcr.io">> \notin HubPrefixes \cup {<<>>}
    <3>1. host \in HubPrefixes \cup {<<>>, <<"ghcr.io">>} => ~DkrEcr(host)
      BY HostsAssumption DEF HubPrefixes, DkrEcr
    <3>2. host \in HubPrefixes \cup {<<>>, <<"ghcr.io">>} => ~GcrHost(host)
      BY HostsAssumption DEF HubPrefixes, GcrHost
    <3>3. ~(DkrEcr(host) /\ GcrHost(host))
      BY HostsAssumption DEF DkrEcr, GcrHost
    <3>4. <<"ghcr.io">> \notin HubPrefixes \cup {<<>>}
      BY DEF HubPrefixes
    <3> QED BY <3>1, <3>2, <3>3, <3>4
  <2> QED BY <2>1, <2>2, <2>3, <2>4 DEF Providers
<1> QED BY <1>1, <1>2

LEMMA SameResponsible ==
    ASSUME UNCHANGED <<built, multi, image>>
    PROVE  Responsible' = Responsible
  BY DEF Responsible

(* After a lookup the GCR provider, if it is its turn, has the image's host. *)
LEMMA LookupRemembers ==
    ASSUME HostInv, LookupStep
    PROVE  HostRemembered' /\ HostPresented'
<1> USE DEF HostRemembered, HostPresented
<1>1. step' # "login"
  BY LookupKeeps DEF Looked
<1>2. CASE step' = "idle"
  BY <1>2
<1>3. ASSUME NEW p \in Providers, NEW how, LooksUp(p, how), image' = image
      PROVE  HostRemembered'
  <2>1. UNCHANGED <<built, multi, image>> /\ p \in Responsible
    BY <1>3 DEF LooksUp, fixed
  <2>2. "gcr" \in Responsible => p = "gcr"
    BY <2>1, OneResponsible DEF HostInv
  <2>3. "gcr" \in Responsible => gcrHost' = Readings["gcr"][image].host
    BY <1>3, <2>2 DEF LooksUp, RememberHost
  <2> QED BY <2>1, <2>3, SameResponsible
<1>4. CASE DescribeImages
  BY <1>1, <1>3, <1>4 DEF DescribeImages, Answered, GoTo, Providers
<1>5. ASSUME NEW p \in Providers, CriteriaDigest(p) \/ HeadTarget(p)
      PROVE  HostRemembered'
  BY <1>3, <1>5 DEF CriteriaDigest, HeadTarget, Answered, GoTo
<1>6. ASSUME NEW p \in Providers, ListTags(p) PROVE HostRemembered'
  BY <1>3, <1>6 DEF ListTags, GoTo
<1>7. CASE HeadManifest
  <2>1. UNCHANGED <<built, multi, image, flow, gcrHost>> /\ step = "listed"
    BY <1>7 DEF HeadManifest, Answered, GoTo, fixed
  <2> QED BY <1>1, <2>1, SameResponsible DEF HostInv
<1>8. CASE Compare /\ step' = "auth"
  <2>1. UNCHANGED <<built, multi, image, flow, gcrHost>> /\ step = "compare"
    BY <1>8 DEF Compare, Finish, GoTo, fixed, memory
  <2> QED BY <1>1, <2>1, SameResponsible DEF HostInv
<1>9. CASE Unsupported \/ Invalid \/ HeadFails
           \/ \E p \in Providers : LookupFails(p)
  <2>1. step' = "idle"
    BY <1>9 DEF Unsupported, Invalid, HeadFails, LookupFails, Finish
  <2> QED BY <2>1, <1>2
<1>10. CASE Compare /\ step' # "auth"
  BY <1>10, <1>2 DEF Compare, Finish, GoTo
<1> QED
  BY <1>1, <1>4, <1>5, <1>6, <1>7, <1>8, <1>9, <1>10 DEF LookupStep

LEMMA StepHostInv ==
    ASSUME HostInv, [Next]_vars
    PROVE  HostInv'
<1> USE DEF HostInv
<1>0. /\ session' = session => IsSession'
      /\ UNCHANGED <<built, multi>> => BuiltForOne'
  BY DEF IsSession, BuiltForOne
<1>1. ASSUME NEW img \in Images, Begin(img) PROVE HostInv'
  BY <1>0, <1>1 DEF Begin, HostRemembered, HostPresented, fixed
<1>2. ASSUME RegistryAuth PROVE HostInv'
  <2>1. ASSUME NEW p \in Responsible, GetAuth(p), GoTo("login"),
               UNCHANGED <<fixed, flow>>
        PROVE  HostInv'
    <3>1. IsSession' /\ session'.provider = p /\ BuiltForOne'
      BY <1>0, <2>1, GetAuthGives DEF fixed
    <3>2. step = "auth" /\ step' = "login" /\ image' = image
      BY <1>2, <2>1 DEF RegistryAuth, GoTo
    <3>3. flow = "update" => p \in Providers /\ session'.host = LoginHost(p, image)
      BY <2>1, <3>2 DEF HostRemembered, GetAuth, HubAuth, GhcrAuth, EcrAuth, GcrAuth,
         LoginHost, Providers
    <3> QED BY <2>1, <3>1, <3>2, <3>3 DEF HostRemembered, HostPresented
  <2>2. CASE Finish("failed") /\ UNCHANGED <<fixed, session>>
    BY <1>0, <2>2 DEF Finish, HostRemembered, HostPresented, fixed
  <2> QED BY <1>2, <2>1, <2>2 DEF RegistryAuth
<1>3. ASSUME RegistryLogin \/ PullSucceeds \/ PullRefused PROVE HostInv'
  BY <1>0, <1>3 DEF RegistryLogin, PullSucceeds, PullRefused, GoTo, Finish,
     HostRemembered, HostPresented, fixed
<1>4. ASSUME LookupStep PROVE HostInv'
  BY <1>0, <1>4, LookupKeeps, LookupRemembers DEF Looked, fixed
<1>5. ASSUME CallFailed PROVE HostInv'
  BY <1>0, <1>5, CallFailedKeeps DEF HostRemembered, HostPresented, fixed
<1>6. ASSUME IsSession', session'.provider = session.provider,
             session'.host = session.host,
             UNCHANGED <<built, multi, step, flow, image, gcrHost>>
      PROVE  HostInv'
  BY <1>0, <1>6, SameResponsible DEF HostRemembered, HostPresented
<1>7. ASSUME Push \/ SourceExpires PROVE HostInv'
  BY <1>0, <1>6, <1>7 DEF Push, SourceExpires, fixed, turn, memory
<1>8. ASSUME NEW p \in {"ecr", "gcr"}, Revoke(p) PROVE HostInv'
  <2>1. /\ IsSession' /\ session'.provider = session.provider
        /\ session'.host = session.host
    BY <1>8, RevokeKeeps
  <2> QED BY <1>6, <1>8, <2>1 DEF Revoke, fixed, memory
<1>9. ASSUME NEW p \in {"ecr", "gcr"}, Expire(p) PROVE HostInv'
  BY <1>0, <1>6, <1>9 DEF Expire, fixed, turn, memory
<1>10. CASE UNCHANGED vars
  BY <1>0, <1>6, <1>10 DEF vars, turn, fixed, memory
<1> QED
  BY <1>1, <1>2, <1>3, <1>4, <1>5, <1>7, <1>8, <1>9, <1>10, NextCases

LEMMA HostAlways == Spec => []HostInv
<1>1. Init => HostInv
  BY FlowAssumption
  DEF Init, HostInv, FlowAssumption, IsSession, Session, BuiltForOne,
      HostRemembered, HostPresented
<1> QED BY <1>1, StepHostInv, PTL DEF Spec

(* At Hub, GHCR and GCR the first login of an update is at the image's own   *)
(* host, although GetAuth is not told the image, with a router or without.   *)
(* (GCRProvider.cachedHost, gcr.go:145.)                                      *)
THEOREM FirstLoginHolds == Spec => []FirstLoginAtOwnHost
<1>1. Spec => []HostInv
  BY HostAlways
<1>2. ASSUME HostInv, step # "idle" => image \in Images
      PROVE  FirstLoginAtOwnHost
  <2> SUFFICES ASSUME step = "login", flow = "update",
                      Own(session.provider, image), session.provider # "ecr"
               PROVE  session.host = HostOf(image)
    BY DEF FirstLoginAtOwnHost
  <2>1. session.host = LoginHost(session.provider, image) /\ image \in Images
    BY <1>2 DEF HostInv, HostPresented
  <2>2. CASE session.provider = "hub"
    BY <2>1, <2>2 DEF LoginHost, Own, HostOf
  <2>3. CASE session.provider = "ghcr"
    BY <2>1, <2>3 DEF LoginHost, Own, HostOf, HubHosts
  <2>4. CASE session.provider = "gcr"
    <3>1. Readings["gcr"][image].host = image.host
      <4>1. Readings["gcr"][image] = GcrParseFullRef(Text(image))
        BY <2>1 DEF Readings, ParseRef, Providers
      <4>2. WellFormed(image) /\ Own("gcr", image)
        BY <2>1, <2>4, FlowAssumption DEF FlowAssumption
      <4> QED BY <4>1, <4>2, GcrReads
    <3>2. image.host \notin HubHosts /\ image.host # <<>>
      BY <2>4, HostsAssumption DEF Own, GcrHost, HubHosts
    <3> QED BY <2>1, <2>4, <3>1, <3>2 DEF LoginHost, HostOf
  <2>5. session.provider \in {"hub", "ghcr", "gcr"}
    BY <1>2 DEF HostInv, HostPresented, Providers
  <2> QED BY <2>2, <2>3, <2>4, <2>5
<1>3. Spec => []RoutedInv
  BY RoutedAlways
<1>4. RoutedInv => (step # "idle" => image \in Images)
  BY DEF RoutedInv
<1> QED BY <1>1, <1>2, <1>3, <1>4, PTL

-----------------------------------------------------------------------------
(***************************************************************************)
(* Lookups: from the request on, what was asked was read from the image, by  *)
(* the provider that is responsible for it; what was found lies within the   *)
(* tags that were listed.                                                     *)
(***************************************************************************)

(* The latest request is that of a provider responsible for the image. *)
Asked ==
    \E p \in Responsible :
        /\ Readings[p][image].verdict = "read"
        /\ asked = Request(p, Readings[p][image])

(* The container was examined, or what is pulled was missing. *)
Examined ==
    \/ step \in {"listed", "compare"}
    \/ step \in {"auth", "login", "pull"} /\ flow # "heal"

AskedInv ==
    /\ step = "idle" => asked = None
    /\ asked # None \/ Examined => Asked

ControlTyped ==
    /\ step \in {"idle", "auth", "login", "pull", "lookup", "listed", "compare"}
    /\ flow \in {"heal", "update", "retry"}
    /\ image \in Images \cup {None}
    /\ outcome \in {"none", "skipped", "failed", "uptodate", "updated"}
    /\ revoked \in BOOLEAN
    /\ step # "idle" => outcome = "none"
    /\ flow = "heal" => step \in {"auth", "login", "pull"}

FoundTyped ==
    /\ history \in Seq(Tags) /\ Len(history) <= MaxPushes
    /\ seen \in 0 .. Len(history)
    /\ answer \in 0 .. Len(history)
    /\ answer # 0 => step \in {"compare", "auth", "login", "pull"} /\ flow # "heal"
    /\ step = "listed" => {i \in Matching(history) : i <= seen} # {}

KeptTyped ==
    /\ built \subseteq Providers /\ multi \in BOOLEAN /\ criteria \in Criteria
    /\ last \subseteq built /\ Cardinality(last) <= 1
    /\ session.provider \in built \cup {None} /\ session.token \in Token

LookupInv ==
    RetryInv /\ RoutedInv /\ AskedInv /\ ControlTyped /\ FoundTyped /\ KeptTyped

LEMMA InitLookupInv == Init => LookupInv
<1> SUFFICES ASSUME Init PROVE LookupInv
  OBVIOUS
<1>1. RetryInv
  BY InitRetryInv
<1>2. RoutedInv
  BY FlowAssumption DEF Init, RoutedInv, FlowAssumption, IsSession, Session
<1>3. AskedInv /\ ControlTyped
  BY DEF Init, AskedInv, Examined, ControlTyped
<1>4. FoundTyped
  BY FlowAssumption DEF Init, FoundTyped, FlowAssumption
<1>5. KeptTyped
  <2>1. built \subseteq Providers /\ multi \in BOOLEAN
    BY FlowAssumption DEF Init, FlowAssumption
  <2>2. last \subseteq built /\ Cardinality(last) <= 1
    BY FS_EmptySet DEF Init
  <2> QED BY <2>1, <2>2 DEF Init, KeptTyped, Token
<1> QED BY <1>1, <1>2, <1>3, <1>4, <1>5 DEF LookupInv

(* A step that ends the turn, or begins one. *)
LEMMA FinishKeeps ==
    ASSUME LookupInv, UNCHANGED fixed,
           NEW how \in {"skipped", "failed", "uptodate", "updated"}, Finish(how)
    PROVE  AskedInv' /\ ControlTyped' /\ FoundTyped'
<1>1. AskedInv' /\ ControlTyped'
  BY DEF Finish, AskedInv, Examined, ControlTyped
<1>2. FoundTyped'
  BY FlowAssumption DEF Finish, FoundTyped, FlowAssumption
<1> QED BY <1>1, <1>2

LEMMA SameAsked ==
    ASSUME UNCHANGED <<fixed, image, asked>>
    PROVE  Asked' = Asked
<1>1. UNCHANGED <<built, multi, criteria, image, asked>>
  BY DEF fixed
<1>2. Responsible' = Responsible
  BY <1>1, SameResponsible
<1>3. \A p, read : Request(p, read)' = Request(p, read)
  BY <1>1 DEF Request, TargetOf, DockerHubTarget, GhcrTarget, GcrTarget, EcrTarget
<1> QED BY <1>1, <1>2, <1>3 DEF Asked

(* A request was sent: it is that of a provider responsible for the image. *)
LEMMA LooksUpAsks ==
    ASSUME NEW p, NEW how, LooksUp(p, how), image' = image
    PROVE  Asked' /\ p \in built
<1>1. UNCHANGED <<built, multi, criteria, image>>
  BY DEF LooksUp, fixed
<1>2. Responsible' = Responsible
  BY <1>1, SameResponsible
<1>3. Request(p, Readings[p][image])' = Request(p, Readings[p][image])
  BY <1>1 DEF Request, TargetOf, DockerHubTarget, GhcrTarget, GcrTarget, EcrTarget
<1>4. /\ p \in Responsible /\ Readings[p][image].verdict = "read"
      /\ asked' = Request(p, Readings[p][image])
  BY DEF LooksUp
<1>5. p \in built
  BY <1>4 DEF Responsible, Route
<1> QED BY <1>1, <1>2, <1>3, <1>4, <1>5 DEF Asked

LEMMA HistoriesAre ==
    ASSUME NEW h \in Histories
    PROVE  h \in Seq(Tags) /\ Len(h) \in 1 .. MaxPushes
<1>1. PICK n \in 1 .. MaxPushes : h \in [1 .. n -> Tags]
  BY DEF Histories
<1>2. n \in Nat
  BY FlowAssumption DEF FlowAssumption
<1> QED BY <1>1, <1>2

LEMMA MatchingIs ==
    ASSUME NEW h \in Seq(Tags), Matching(h) # {}
    PROVE  /\ Max(Matching(h)) \in Matching(h)
           /\ Matching(h) \subseteq 1 .. Len(h)
           /\ \A i \in Matching(h) : i <= Max(Matching(h))
<1> DEFINE n == Len(h)  S == Matching(h)
<1>1. n \in Nat /\ S \in SUBSET (0 .. n) /\ S # {} /\ S \subseteq 1 .. n
  BY DEF Matching
<1> HIDE DEF n, S
<1>2. Max(S) \in S /\ \A i \in S : i <= Max(S)
  BY <1>1, MaxIs
<1> QED BY <1>1, <1>2 DEF n, S

(* The tags that were there when they were listed. *)
LEMMA ListedIs ==
    ASSUME NEW h \in Seq(Tags), NEW n \in 0 .. Len(h)
    PROVE  LET listed == SubSeq(h, 1, n)
           IN  /\ listed \in Seq(Tags)
               /\ Matching(listed) = {i \in Matching(h) : i <= n}
               /\ \A i \in Matching(listed) : listed[i] = h[i]
<1> DEFINE listed == SubSeq(h, 1, n)
<1>1. /\ listed \in Seq(Tags) /\ Len(listed) = n
      /\ \A i \in 1 .. n : listed[i] = h[i]
  BY SubSeqProperties
<1> HIDE DEF listed
<1> QED BY <1>1 DEF Matching, listed

(* The chosen match is the one whose name comes last. *)
LEMMA GreatestIs ==
    ASSUME NEW h \in Seq(Tags), Matching(h) # {}
    PROVE  \E g \in DOMAIN TagOrder :
              /\ Greatest(h) = TagOrder[g]
              /\ \E i \in Matching(h) : h[i] = TagOrder[g]
              /\ \A i \in Matching(h), n \in DOMAIN TagOrder :
                    h[i] = TagOrder[n] => n <= g
<1> DEFINE S == {n \in DOMAIN TagOrder : \E i \in Matching(h) : h[i] = TagOrder[n]}
           size == Len(TagOrder)
<1>1. TagOrder \in Seq(Tags)
  BY FlowAssumption DEF FlowAssumption, Tags
<1>2. size \in Nat /\ S \in SUBSET (0 .. size)
  BY <1>1
<1>3. S # {}
  <2>1. PICK i \in Matching(h) : TRUE
    OBVIOUS
  <2>2. h[i] \in Tags
    BY DEF Matching
  <2>3. PICK n \in DOMAIN TagOrder : TagOrder[n] = h[i]
    BY <2>2 DEF Tags, Range
  <2> QED BY <2>3
<1>4. Greatest(h) = TagOrder[Max(S)]
  BY DEF Greatest
<1> HIDE DEF S, size
<1>5. Max(S) \in S /\ \A n \in S : n <= Max(S)
  BY <1>2, <1>3, MaxIs
<1> QED BY <1>4, <1>5 DEF S

(* What HeadManifest is answered: the latest push of the greatest match. *)
LEMMA HeadManifestFinds ==
    ASSUME LookupInv, HeadManifest
    PROVE  \E g \in DOMAIN TagOrder :
              /\ answer' \in DOMAIN history /\ history[answer'] = TagOrder[g]
              /\ \A i \in DOMAIN history : history[i] = TagOrder[g] => i <= answer'
              /\ \A i \in Matching(history), n \in DOMAIN TagOrder :
                    i <= seen /\ history[i] = TagOrder[n] => n <= g
<1> DEFINE listed == SubSeq(history, 1, seen)
           tag == Greatest(listed)
           S == {i \in DOMAIN history : history[i] = tag}
           size == Len(history)
<1>1. /\ history \in Seq(Tags) /\ seen \in 0 .. Len(history)
      /\ {i \in Matching(history) : i <= seen} # {}
  BY DEF LookupInv, FoundTyped, HeadManifest
<1>2. /\ listed \in Seq(Tags)
      /\ Matching(listed) = {i \in Matching(history) : i <= seen}
      /\ \A i \in Matching(listed) : listed[i] = history[i]
  BY <1>1, ListedIs
<1>3. answer' = Max(S)
  BY DEF HeadManifest
<1> HIDE DEF listed
<1>4. PICK g \in DOMAIN TagOrder :
          /\ tag = TagOrder[g]
          /\ \E i \in Matching(listed) : listed[i] = TagOrder[g]
          /\ \A i \in Matching(listed), n \in DOMAIN TagOrder :
                listed[i] = TagOrder[n] => n <= g
  BY <1>1, <1>2, GreatestIs
<1> HIDE DEF tag
<1>5. size \in Nat /\ S \in SUBSET (0 .. size) /\ S # {}
  BY <1>1, <1>2, <1>4 DEF Matching
<1> HIDE DEF S, size
<1>6. Max(S) \in S /\ \A i \in S : i <= Max(S)
  BY <1>5, MaxIs
<1> HIDE DEF Max
<1>7. \A i \in Matching(history), n \in DOMAIN TagOrder :
          i <= seen /\ history[i] = TagOrder[n] => n <= g
  BY <1>2, <1>4
<1>8. answer' \in S /\ \A i \in S : i <= answer'
  BY <1>3, <1>6
<1> QED BY <1>4, <1>7, <1>8 DEF S

(* Credentials are those of a provider that was built. *)
LEMMA GetAuthTyped ==
    ASSUME LookupInv, NEW p \in Responsible, GetAuth(p)
    PROVE  session'.provider \in built /\ session'.token \in Token
<1>1. p \in built
  BY DEF Responsible, Route
<1>2. session'.token \in Token
  BY DEF GetAuth, HubAuth, GhcrAuth, EcrAuth, GcrAuth, Configured, Token
<1> QED BY <1>1, <1>2, GetAuthGives

LEMMA StepKeptTyped ==
    ASSUME LookupInv, [Next]_vars
    PROVE  KeptTyped'
<1> KeptTyped
  BY DEF LookupInv
<1> USE DEF KeptTyped
<1>0. /\ UNCHANGED <<built, multi, criteria>>
      /\ UNCHANGED last => last' \subseteq built' /\ Cardinality(last') <= 1
      /\ UNCHANGED session =>
             session'.provider \in built' \cup {None} /\ session'.token \in Token
      /\ last' = {} => last' \subseteq built' /\ Cardinality(last') <= 1
  <2>1. UNCHANGED fixed
    <3>1. LookupStep => UNCHANGED fixed
      BY LookupKeeps DEF Looked
    <3>2. CallFailed => UNCHANGED fixed
      BY CallFailedKeeps
    <3>3. ASSUME NEW img \in Images, Begin(img) PROVE UNCHANGED fixed
      BY <3>3 DEF Begin
    <3>4. RegistryAuth \/ RegistryLogin \/ PullSucceeds \/ PullRefused
              => UNCHANGED fixed
      BY DEF RegistryAuth, RegistryLogin, PullSucceeds, PullRefused
    <3>5. Push \/ SourceExpires => UNCHANGED fixed
      BY DEF Push, SourceExpires
    <3>6. ASSUME NEW p, Revoke(p) \/ Expire(p) PROVE UNCHANGED fixed
      BY <3>6 DEF Revoke, Expire
    <3>7. UNCHANGED vars => UNCHANGED fixed
      BY DEF vars
    <3> QED BY <3>1, <3>2, <3>3, <3>4, <3>5, <3>6, <3>7, NextCases
  <2>2. UNCHANGED <<built, multi, criteria>>
    BY <2>1 DEF fixed
  <2>3. last' = {} => Cardinality(last') <= 1
    BY FS_EmptySet
  <2> QED BY <2>2, <2>3
<1>1. CASE UNCHANGED <<last, session>>
  BY <1>0, <1>1
<1>2. ASSUME NEW img \in Images, Begin(img) PROVE KeptTyped'
  BY <1>1, <1>2 DEF Begin, memory
<1>3. CASE RegistryAuth
  <2>1. UNCHANGED last
    BY <1>3 DEF RegistryAuth, memory
  <2>2. CASE \E p \in Responsible : GetAuth(p)
    BY <1>0, <2>1, <2>2, GetAuthTyped
  <2> QED BY <1>1, <1>3, <2>1, <2>2 DEF RegistryAuth
<1>4. CASE RegistryLogin \/ PullSucceeds \/ CallFailed
  BY <1>1, <1>4 DEF RegistryLogin, PullSucceeds, CallFailed, memory
<1>5. CASE PullRefused
  <2>1. UNCHANGED session /\ (UNCHANGED last \/ last' = {})
    BY <1>5 DEF PullRefused, InvalidateCache, memory
  <2> QED BY <1>0, <2>1
<1>6. ASSUME NEW p, Answered(p), p \in built, UNCHANGED session
      PROVE  KeptTyped'
  <2>1. UNCHANGED last \/ last' = {p}
    BY <1>6 DEF Answered
  <2>2. Cardinality({p}) = 1
    BY FS_Singleton
  <2> HIDE DEF Token
  <2> QED BY <1>0, <1>6, <2>1, <2>2
<1>7. CASE LookupStep
  <2>1. UNCHANGED session
    BY <1>7, LookupKeeps DEF Looked
  <2>2. CASE Unsupported \/ Invalid \/ HeadFails \/ Compare
    BY <1>1, <2>2 DEF Unsupported, Invalid, HeadFails, Compare, memory
  <2>3. ASSUME NEW p, NEW how, LooksUp(p, how), Answered(p) PROVE KeptTyped'
    BY <1>6, <2>1, <2>3, LooksUpAsks DEF Answered, GoTo
  <2>4. CASE DescribeImages
    BY <2>3, <2>4 DEF DescribeImages
  <2>5. ASSUME NEW p \in Providers, CriteriaDigest(p) \/ HeadTarget(p)
        PROVE  KeptTyped'
    BY <2>3, <2>5 DEF CriteriaDigest, HeadTarget
  <2>6. ASSUME NEW p \in Providers, ListTags(p) \/ LookupFails(p)
        PROVE  KeptTyped'
    BY <1>1, <2>1, <2>6 DEF ListTags, LookupFails
  <2>7. CASE HeadManifest
    <3>1. PICK p \in Responsible : asked = Request(p, Readings[p][image])
      BY <2>7 DEF HeadManifest, LookupInv, AskedInv, Examined, Asked
    <3>2. asked.provider = p /\ p \in built
      BY <3>1 DEF Request, Responsible, Route
    <3> QED BY <1>6, <2>1, <2>7, <3>2 DEF HeadManifest
  <2> QED
    BY <1>7, <2>2, <2>4, <2>5, <2>6, <2>7 DEF LookupStep
<1>8. CASE Push \/ SourceExpires
  BY <1>1, <1>8 DEF Push, SourceExpires, memory
<1>9. ASSUME NEW p \in {"ecr", "gcr"}, Revoke(p) PROVE KeptTyped'
  <2>1. UNCHANGED last
    BY <1>9 DEF Revoke, memory
  <2>2. session'.provider = session.provider
    BY <1>9, RevokeKeeps DEF LookupInv, RetryInv
  <2>3. session'.token \in Token
    <3> DEFINE dead(tok) == IF tok = "good" THEN "revoked" ELSE tok
    <3>1. session' = IF session.provider = p
                     THEN [session EXCEPT !.token = dead(@)] ELSE session
      BY <1>9 DEF Revoke
    <3>2. IsSession
      BY DEF LookupInv, RetryInv
    <3>3. [session EXCEPT !.token = dead(@)].token = dead(session.token)
      BY <3>2 DEF IsSession, Session
    <3>4. dead(session.token) \in Token
      BY DEF Token
    <3> HIDE DEF dead
    <3> QED BY <3>1, <3>3, <3>4
  <2> QED BY <1>0, <2>1, <2>2, <2>3
<1>10. ASSUME NEW p, Expire(p) PROVE KeptTyped'
  BY <1>1, <1>10 DEF Expire, memory
<1>11. CASE UNCHANGED vars
  BY <1>1, <1>11 DEF vars, memory
<1> QED
  BY <1>2, <1>3, <1>4, <1>5, <1>7, <1>8, <1>9, <1>10, <1>11, NextCases

(* A step of a turn that sends no request: nothing is asked or found, and     *)
(* what is reached from the comparison on was examined before.                *)
LEMMA GoOnKeeps ==
    ASSUME LookupInv, UNCHANGED <<fixed, image, outcome, lookup>>,
           step # "idle", step' \in {"auth", "login", "pull", "lookup"},
           flow' \in {"heal", "update", "retry"},
           Examined' => Examined,
           answer # 0 => flow' # "heal",
           step' = "lookup" => flow' = "update" /\ answer = 0
    PROVE  AskedInv' /\ ControlTyped' /\ FoundTyped'
<1> UNCHANGED <<asked, history, answer, seen, revoked>>
  BY DEF lookup
<1>1. Asked' = Asked
  BY SameAsked
<1>2. AskedInv'
  BY <1>1 DEF LookupInv, AskedInv
<1>3. ControlTyped'
  BY DEF LookupInv, ControlTyped
<1>4. FoundTyped'
  BY DEF LookupInv, FoundTyped
<1> QED BY <1>2, <1>3, <1>4

(* A request was answered, or its tags listed. *)
LEMMA RequestKeeps ==
    ASSUME LookupInv, NEW p, NEW how, LooksUp(p, how), UNCHANGED <<image, outcome, flow>>,
           step' \in {"listed", "compare"},
           history' \in Seq(Tags) /\ Len(history') <= MaxPushes,
           seen' \in 0 .. Len(history'), answer' \in 0 .. Len(history'),
           step' = "listed" =>
               answer' = 0 /\ {i \in Matching(history') : i <= seen'} # {}
    PROVE  AskedInv' /\ ControlTyped' /\ FoundTyped'
<1>1. Asked' /\ step = "lookup" /\ UNCHANGED <<criteria, revoked>>
  BY LooksUpAsks DEF LooksUp, fixed
<1>2. AskedInv'
  BY <1>1 DEF AskedInv
<1>3. ControlTyped'
  BY <1>1 DEF LookupInv, ControlTyped
<1>4. step' = "listed" => {i \in Matching(history)' : i <= seen'} # {}
  BY <1>1 DEF Matching
<1>5. step' = "compare" => flow' # "heal"
  BY <1>1 DEF LookupInv, ControlTyped
<1>6. FoundTyped'
  BY <1>4, <1>5 DEF FoundTyped
<1> QED BY <1>2, <1>3, <1>6

LEMMA StepLookupInv ==
    ASSUME LookupInv, [Next]_vars
    PROVE  LookupInv'
<1> DEFINE Rest == AskedInv' /\ ControlTyped' /\ FoundTyped'
<1> SUFFICES Rest
  BY StepRetryInv, StepRoutedInv, StepKeptTyped DEF LookupInv
<1> USE DEF GoTo
<1>1. ASSUME NEW img \in Images, Begin(img) PROVE Rest
  <2>1. /\ UNCHANGED <<asked, history, answer, seen, revoked, criteria>>
        /\ asked = None /\ answer = 0 /\ step' \in {"lookup", "auth"}
        /\ step' = "auth" => flow' = "heal"
    BY <1>1 DEF Begin, lookup, fixed, LookupInv, AskedInv, FoundTyped
  <2>2. AskedInv' /\ FoundTyped'
    BY <2>1 DEF LookupInv, AskedInv, Examined, FoundTyped
  <2>3. ControlTyped'
    BY <1>1, <2>1 DEF Begin, LookupInv, ControlTyped
  <2> QED BY <2>2, <2>3
<1>2. CASE \E how \in {"skipped", "failed", "uptodate", "updated"} :
              Finish(how) /\ UNCHANGED fixed
  <2>1. PICK how \in {"skipped", "failed", "uptodate", "updated"} :
            Finish(how) /\ UNCHANGED fixed
    BY <1>2
  <2> QED BY <2>1, FinishKeeps
<1>3. CASE RegistryAuth
  <2>1. CASE Finish("failed")
    BY <1>2, <1>3, <2>1 DEF RegistryAuth
  <2>2. CASE GoTo("login") /\ UNCHANGED <<flow, lookup>>
    <3>1. Examined' => Examined
      BY <1>3, <2>2 DEF RegistryAuth, Examined
    <3>2. flow \in {"heal", "update", "retry"}
          /\ (flow = "heal" => answer = 0)
      BY DEF LookupInv, ControlTyped, FoundTyped
    <3> QED BY <1>3, <2>2, <3>1, <3>2, GoOnKeeps DEF RegistryAuth
  <2> QED BY <1>3, <2>1, <2>2 DEF RegistryAuth
<1>4. CASE RegistryLogin \/ PullSucceeds \/ PullRefused \/ Compare
  <2>1. CASE \E how \in {"failed", "updated", "uptodate"} : Finish(how)
    BY <1>2, <1>4, <2>1 DEF RegistryLogin, PullSucceeds, PullRefused, Compare
  <2>2. CASE ~\E how \in {"failed", "updated", "uptodate"} : Finish(how)
    <3>1. /\ UNCHANGED <<fixed, image, outcome, lookup>>
          /\ \/ /\ step = "login" /\ step' = "pull" /\ flow' = flow
             \/ /\ step = "pull" /\ step' = "lookup"
                /\ flow = "heal" /\ flow' = "update"
             \/ /\ step = "pull" /\ step' = "auth"
                /\ flow = "update" /\ flow' = "retry"
             \/ /\ step = "compare" /\ step' = "auth" /\ flow' = flow
      <4>1. CASE RegistryLogin
        BY <2>2, <4>1 DEF RegistryLogin
      <4>2. CASE PullSucceeds
        BY <2>2, <4>2 DEF PullSucceeds
      <4>3. CASE PullRefused
        BY <2>2, <4>3 DEF PullRefused
      <4>4. CASE Compare
        BY <2>2, <4>4 DEF Compare
      <4> QED BY <1>4, <4>1, <4>2, <4>3, <4>4
    <3>2. Examined' => Examined
      BY <3>1 DEF Examined
    <3>3. flow \in {"heal", "update", "retry"}
          /\ (flow = "heal" => answer = 0)
      BY DEF LookupInv, ControlTyped, FoundTyped
    <3> QED BY <3>1, <3>2, <3>3, GoOnKeeps
  <2> QED BY <2>1, <2>2
<1>5. CASE Unsupported \/ Invalid \/ HeadFails \/ CallFailed
           \/ \E p \in Providers : LookupFails(p)
  BY <1>2, <1>5 DEF Unsupported, Invalid, HeadFails, CallFailed, LookupFails
<1>6. CASE DescribeImages
  <2>1. PICK h \in Histories : /\ Matching(h) # {} /\ history' = h
                               /\ seen' = Len(h) /\ answer' = Max(Matching(h))
    BY <1>6 DEF DescribeImages
  <2>2. h \in Seq(Tags) /\ Len(h) <= MaxPushes /\ Len(h) \in Nat
    BY HistoriesAre
  <2>3. answer' \in 0 .. Len(history')
    BY <2>1, <2>2, MatchingIs
  <2>4. LooksUp("ecr", "list") /\ UNCHANGED <<image, outcome, flow>> /\ step' = "compare"
    BY <1>6 DEF DescribeImages, Answered
  <2> QED BY <2>1, <2>2, <2>3, <2>4, RequestKeeps
<1>7. ASSUME NEW p \in Providers, CriteriaDigest(p) \/ HeadTarget(p) PROVE Rest
  <2>1. PICK how : LooksUp(p, how)
    BY <1>7 DEF CriteriaDigest, HeadTarget
  <2>2. UNCHANGED <<image, outcome, flow, history, seen, answer>> /\ step' = "compare"
    BY <1>7 DEF CriteriaDigest, HeadTarget, Answered
  <2> QED BY <2>1, <2>2, RequestKeeps DEF LookupInv, FoundTyped
<1>8. ASSUME NEW p \in Providers, ListTags(p) PROVE Rest
  <2>1. PICK h \in Histories : Matching(h) # {} /\ history' = h /\ seen' = Len(h)
    BY <1>8 DEF ListTags
  <2>2. h \in Seq(Tags) /\ Len(h) <= MaxPushes /\ Len(h) \in Nat
    BY HistoriesAre
  <2>3. /\ LooksUp(p, "list") /\ UNCHANGED <<image, outcome, flow, answer>>
        /\ step' = "listed" /\ step = "lookup"
    BY <1>8 DEF ListTags, LooksUp
  <2>4. answer' = 0
    BY <2>3 DEF LookupInv, FoundTyped
  <2>5. {i \in Matching(history') : i <= seen'} # {}
    BY <2>1, <2>2 DEF Matching
  <2> QED BY <2>1, <2>2, <2>3, <2>4, <2>5, RequestKeeps
<1>9. CASE HeadManifest
  <2>1. /\ step = "listed" /\ step' = "compare"
        /\ UNCHANGED <<fixed, image, asked, outcome, flow, history, seen, revoked>>
    BY <1>9 DEF HeadManifest, Answered
  <2>2. Asked /\ Asked'
    BY <2>1, SameAsked DEF LookupInv, AskedInv, Examined
  <2>3. AskedInv' /\ ControlTyped'
    BY <2>1, <2>2 DEF LookupInv, AskedInv, ControlTyped
  <2>4. answer' \in 1 .. Len(history)
    BY <1>9, HeadManifestFinds DEF LookupInv, FoundTyped
  <2>5. FoundTyped'
    BY <2>1, <2>4 DEF LookupInv, FoundTyped, ControlTyped, Matching, fixed
  <2> QED BY <2>3, <2>5
<1>10. CASE Push
  <2>1. PICK tag \in Tags : history' = Append(history, tag)
    BY <1>10 DEF Push
  <2>2. /\ step = "listed" /\ Len(history) < MaxPushes
        /\ UNCHANGED <<fixed, step, flow, image, asked, answer, seen, revoked, outcome>>
    BY <1>10 DEF Push
  <2>3. AskedInv' /\ ControlTyped'
    BY <2>2, SameAsked DEF LookupInv, AskedInv, Examined, ControlTyped
  <2>4. history \in Seq(Tags) /\ seen \in 0 .. Len(history) /\ answer = 0
        /\ {i \in Matching(history) : i <= seen} # {}
    BY <2>2 DEF LookupInv, FoundTyped
  <2>5. PICK i \in Matching(history) : i <= seen
    BY <2>4
  <2>6. i \in Matching(history)' /\ i <= seen'
    BY <2>1, <2>2, <2>4, <2>5 DEF Matching, fixed
  <2>7. history' \in Seq(Tags) /\ Len(history') = Len(history) + 1
    BY <2>1, <2>4
  <2>8. FoundTyped'
    BY <2>2, <2>4, <2>6, <2>7, FlowAssumption DEF FoundTyped, FlowAssumption
  <2> QED BY <2>3, <2>8
<1>11. ASSUME UNCHANGED <<fixed, step, flow, image, asked, history, answer, seen,
                          outcome>>,
              revoked' \in BOOLEAN
       PROVE  Rest
  <2>1. UNCHANGED criteria
    BY <1>11 DEF fixed
  <2> QED BY <1>11, <2>1, SameAsked
          DEF LookupInv, AskedInv, Examined, ControlTyped, FoundTyped, Matching
<1>12. CASE SourceExpires \/ (\E p \in {"ecr", "gcr"} : Expire(p)) \/ UNCHANGED vars
  <2>1. UNCHANGED <<fixed, step, turn, outcome>>
    BY <1>12 DEF SourceExpires, Expire, vars
  <2> QED BY <1>11, <2>1 DEF turn, LookupInv, ControlTyped
<1>13. ASSUME NEW p \in {"ecr", "gcr"}, Revoke(p) PROVE Rest
  BY <1>11, <1>13 DEF Revoke, LookupInv, ControlTyped
<1> QED
  BY <1>1, <1>3, <1>4, <1>5, <1>6, <1>7, <1>8, <1>9, <1>10, <1>12, <1>13, NextCases
  DEF LookupStep

(* Every variable stays within what the code can make it: in particular the   *)
(* answer lies within the pushes, a router remembers one provider that was    *)
(* built, and the Docker client keeps credentials of such a one only.         *)
THEOREM TypeCorrect == Spec => []TypeOK
<1>1. Spec => []LookupInv
  BY InitLookupInv, StepLookupInv, PTL DEF Spec
<1>2. LookupInv => TypeOK
  <2> SUFFICES ASSUME LookupInv PROVE TypeOK
    OBVIOUS
  <2>1. {answer, seen} \subseteq 0 .. MaxPushes
    BY FlowAssumption DEF LookupInv, FoundTyped, FlowAssumption
  <2> QED BY <2>1 DEF LookupInv, RetryInv, TokensTyped, ControlTyped, FoundTyped,
          KeptTyped, TypeOK
<1> QED BY <1>1, <1>2, PTL

-----------------------------------------------------------------------------
(***************************************************************************)
(* The match a lookup finds: what a second request finds was pushed under     *)
(* the same name as the chosen match, or later.                               *)
(***************************************************************************)

(* The pushes NotOlder is about. *)
Listed == {i \in Matching(history) : i <= seen}

LEMMA HeadManifestNotOlder ==
    ASSUME LookupInv, HeadManifest
    PROVE  NotOlder'
<1>1. /\ UNCHANGED <<history, seen, criteria>>
      /\ history \in Seq(Tags) /\ Listed # {}
  BY DEF HeadManifest, Answered, LookupInv, FoundTyped, Listed, fixed
<1>2. PICK g \in DOMAIN TagOrder :
          /\ answer' \in DOMAIN history /\ history[answer'] = TagOrder[g]
          /\ \A i \in DOMAIN history : history[i] = TagOrder[g] => i <= answer'
          /\ \A i \in Matching(history), n \in DOMAIN TagOrder :
                i <= seen /\ history[i] = TagOrder[n] => n <= g
  BY HeadManifestFinds
<1> DEFINE size == Len(history)  k == Max(Listed)
<1>3. k \in Listed
  <2>1. size \in Nat /\ Listed \in SUBSET (0 .. size)
    BY <1>1 DEF Listed, Matching
  <2> HIDE DEF size
  <2> QED BY <1>1, <2>1, MaxIs
<1> HIDE DEF k
<1>4. ASSUME InOrder(history) PROVE k <= answer'
  <2> SUFFICES ASSUME answer' < k PROVE FALSE
    BY <1>1, <1>2, <1>3 DEF Listed, Matching
  <2>1. k \in DOMAIN history /\ k \in Matching(history) /\ k <= seen
    BY <1>3 DEF Listed, Matching
  <2>2. PICK m, n \in DOMAIN TagOrder :
            m <= n /\ TagOrder[m] = history[answer'] /\ TagOrder[n] = history[k]
    BY <1>2, <1>4, <2>1 DEF InOrder
  <2>3. m = g
    BY <1>2, <2>2, FlowAssumption DEF FlowAssumption
  <2>4. n <= g /\ n \in Nat /\ g \in Nat
    BY <1>2, <2>1, <2>2, FlowAssumption DEF FlowAssumption
  <2>5. n = g
    BY <2>2, <2>3, <2>4
  <2>6. k <= answer'
    BY <1>2, <2>1, <2>2, <2>5
  <2> QED BY <1>1, <1>2, <2>1, <2>6
<1>5. {i \in Matching(history) : i <= seen}' = Listed
  BY <1>1 DEF Listed, Matching
<1>6. InOrder(history)' = InOrder(history)
  BY <1>1 DEF InOrder
<1>7. k \in Nat /\ answer' \in Nat
  BY <1>1, <1>2, <1>3 DEF Listed, Matching
<1>8. InOrder(history) => answer' >= k
  BY <1>4, <1>7
<1> QED BY <1>5, <1>6, <1>8 DEF NotOlder, k

LEMMA DescribeImagesNotOlder ==
    ASSUME LookupInv, DescribeImages
    PROVE  NotOlder'
<1>1. UNCHANGED criteria
  BY DEF DescribeImages, LooksUp, fixed
<1>2. PICK h \in Histories : /\ Matching(h) # {} /\ history' = h
                             /\ seen' = Len(h) /\ answer' = Max(Matching(h))
  BY DEF DescribeImages
<1>3. h \in Seq(Tags)
  BY HistoriesAre
<1>4. {i \in Matching(history) : i <= seen}' = Matching(h)
  BY <1>1, <1>2, <1>3 DEF Matching
<1>5. Max(Matching(h)) \in Matching(h)
  BY <1>2, <1>3, MatchingIs
<1> DEFINE k == Max(Matching(h))
<1>6. k \in Nat /\ answer' = k
  BY <1>2, <1>3, <1>5 DEF Matching
<1> HIDE DEF k
<1>7. answer' >= k
  BY <1>6
<1> QED BY <1>4, <1>7 DEF NotOlder, k

(* An answer stays what it is until the turn ends. *)
LEMMA StepNotOlder ==
    ASSUME LookupInv, NotOlder, [Next]_vars
    PROVE  NotOlder'
<1>1. CASE answer' = 0
  BY <1>1 DEF NotOlder
<1>2. ASSUME UNCHANGED <<criteria, history, answer, seen>> PROVE NotOlder'
  BY <1>2 DEF NotOlder, Matching, InOrder
<1>3. ASSUME UNCHANGED <<fixed, lookup>> PROVE NotOlder'
  BY <1>2, <1>3 DEF fixed, lookup
<1>4. ASSUME NEW how, Finish(how) PROVE NotOlder'
  BY <1>1, <1>4 DEF Finish
<1>5. CASE (\E img \in Images : Begin(img)) \/ CallFailed
  BY <1>3, <1>4, <1>5 DEF Begin, CallFailed
<1>6. CASE RegistryAuth \/ RegistryLogin \/ PullSucceeds \/ PullRefused
  BY <1>3, <1>4, <1>6 DEF RegistryAuth, RegistryLogin, PullSucceeds, PullRefused
<1>7. CASE LookupStep
  <2>1. CASE Unsupported \/ Invalid \/ HeadFails \/ Compare
             \/ \E p \in Providers : LookupFails(p)
    BY <1>3, <1>4, <2>1
    DEF Unsupported, Invalid, HeadFails, Compare, LookupFails
  <2>2. CASE \E p \in Providers : CriteriaDigest(p) \/ HeadTarget(p)
    BY <1>2, <2>2 DEF CriteriaDigest, HeadTarget, LooksUp, fixed
  <2>3. CASE \E p \in Providers : ListTags(p)
    BY <1>1, <2>3 DEF ListTags, LooksUp, LookupInv, FoundTyped
  <2> QED
    BY <1>7, <2>1, <2>2, <2>3, HeadManifestNotOlder, DescribeImagesNotOlder
    DEF LookupStep
<1>8. CASE Push
  BY <1>1, <1>8 DEF Push, LookupInv, FoundTyped
<1>9. CASE SourceExpires \/ \E p \in {"ecr", "gcr"} : Revoke(p) \/ Expire(p)
  BY <1>2, <1>9 DEF SourceExpires, Revoke, Expire, fixed, turn
<1>10. CASE UNCHANGED vars
  BY <1>2, <1>10 DEF vars, fixed, turn
<1> QED BY <1>5, <1>6, <1>7, <1>8, <1>9, <1>10, NextCases

(* With tags pushed in the order of their names, a regular expression finds   *)
(* no older match than the newest one listed, with any number of tags and of  *)
(* pushes between the listing and the second request. The names have to be    *)
(* different: the order of the names is the order of the releases.            *)
(* (getLatestDigestByRegex, and GetLatestDigest of ecr.go) *)
THEOREM NotOlderHolds == Spec => []NotOlder
<1>1. Init => NotOlder
  BY DEF Init, NotOlder
<1>2. Spec => [](LookupInv /\ NotOlder)
  BY <1>1, InitLookupInv, StepLookupInv, StepNotOlder, PTL DEF Spec
<1> QED BY <1>2, PTL

-----------------------------------------------------------------------------
(***************************************************************************)
(* What the providers read, in the flow: the theorems about the parsers in   *)
(* References_proofs, carried to the latest request and to the outcome.       *)
(***************************************************************************)

(* A lookup asks for what the daemon would pull, of any well-formed image     *)
(* and at every provider, but for the misreadings that Misread names.         *)
(* (parseImageRef, parseGHCRRef, parseFullRef, parseECRRef.)                  *)
THEOREM AsksForTheImageHolds == Spec => []AsksForTheImage
<1>1. Spec => []LookupInv
  BY InitLookupInv, StepLookupInv, PTL DEF Spec
<1>2. ASSUME LookupInv PROVE AsksForTheImage
  <2> SUFFICES ASSUME asked # None, Own(asked.provider, image),
                      ~Misread(asked.provider, image)
               PROVE  /\ asked.host = HostOf(image) /\ asked.path = PathOf(image)
                      /\ criteria = [version |-> <<>>, regex |-> {}, digest |-> <<>>]
                            => asked.ref = RefOf(image)
    BY DEF AsksForTheImage
  <2>1. PICK p \in Responsible : /\ Readings[p][image].verdict = "read"
                                 /\ asked = Request(p, Readings[p][image])
    BY <1>2 DEF LookupInv, AskedInv, Asked
  <2>2. p \in Providers /\ image \in Images /\ WellFormed(image)
    <3>1. p \in Providers
      BY <1>2 DEF LookupInv, RoutedInv, Responsible, Route
    <3>2. image \in Images
      BY <1>2 DEF LookupInv, RoutedInv, AskedInv
    <3> QED BY <3>1, <3>2, FlowAssumption DEF FlowAssumption
  <2>3. asked.provider = p
    BY <2>1 DEF Request
  <2> DEFINE read == Readings[p][image]
  <2>4. read = ParseRef(p, Text(image))
    BY <2>2 DEF Readings
  <2>5. read = Reading(HostOf(image), PathOf(image), RefOf(image))
    <3>1. read = IF p = "ghcr" /\ Len(image.path) = 1 THEN Verdict("invalid")
                 ELSE Reading(HostOf(image), PathOf(image), RefOf(image))
      BY <2>2, <2>3, <2>4, ProvidersRead
    <3>2. Verdict("invalid").verdict # "read"
      BY DEF Verdict
    <3> QED BY <2>1, <3>1, <3>2
  <2>6. /\ asked.host = read.host /\ asked.path = read.path
        /\ asked.ref = TargetOf(p, read).ref
    BY <2>1 DEF Request
  <2> HIDE DEF read
  <2>7. criteria = [version |-> <<>>, regex |-> {}, digest |-> <<>>]
            => TargetOf(p, read).ref = read.ref
    BY <2>2 DEF TargetOf, DockerHubTarget, GhcrTarget, GcrTarget, EcrTarget, Target,
       Providers
  <2> QED BY <2>5, <2>6, <2>7 DEF Reading
<1> QED BY <1>1, <1>2, PTL

(* An examined image is the business of a provider here, where providers       *)
(* examine none but their own.                                                *)
LEMMA ExaminedIsOwn ==
    ASSUME LookupInv, image \in Images, ~BareLocalhost(image),
           multi \/ built \subseteq {"hub", "ghcr"}, Asked
    PROVE  Owned
<1>1. PICK p \in Responsible : Readings[p][image].verdict = "read"
  BY DEF Asked
<1>2. p \in built /\ built \subseteq Providers /\ WellFormed(image)
  BY <1>1, FlowAssumption DEF LookupInv, RoutedInv, Responsible, Route, FlowAssumption
<1>3. CASE multi
  BY <1>2, <1>3, RoutedIsOwn DEF Responsible, Owned
<1>4. CASE ~multi
  <2>1. Readings[p][image] = ParseRef(p, Text(image)) /\ p \in {"hub", "ghcr"}
    BY <1>2, <1>4 DEF Readings
  <2> QED BY <1>1, <1>2, <2>1, ProvidersLeave DEF Owned
<1> QED BY <1>3, <1>4

(* An image that is left to nobody is nobody's business here. *)
LEMMA UnsupportedIsForeign ==
    ASSUME LookupInv, BuiltForOne, image \in Images, ~BareLocalhost(image), Unsupported
    PROVE  ~Owned
<1> SUFFICES ASSUME NEW q \in built, Own(q, image) PROVE FALSE
  BY DEF Owned
<1>1. built \subseteq Providers /\ WellFormed(image)
  BY FlowAssumption DEF LookupInv, RoutedInv, FlowAssumption
<1>2. q \in Responsible
  BY <1>1, RoutedIsOwn DEF Responsible
<1>3. PICK p \in Responsible : Readings[p][image].verdict = "unsupported"
  BY <1>2 DEF Unsupported
<1>4. p = q
  BY <1>2, <1>3, OneResponsible
<1>5. Readings[q][image] = ParseRef(q, Text(image)) /\ q \in Providers
  BY <1>1 DEF Readings
<1> QED BY <1>1, <1>3, <1>4, <1>5, ProvidersLeave

(* The outcome changes when a turn ends, by what ends it. *)
LEMMA OutcomeOf ==
    ASSUME LookupInv, [Next]_vars, step # "idle",
           outcome' \in {"skipped", "uptodate", "updated"}
    PROVE  \/ Unsupported /\ outcome' = "skipped"
           \/ Examined /\ outcome' \in {"uptodate", "updated"}
<1>1. outcome = "none"
  BY DEF LookupInv, ControlTyped
<1> USE DEF GoTo, Finish
<1>2. CASE (\E img \in Images : Begin(img)) \/ CallFailed
  BY <1>2 DEF Begin, CallFailed
<1>3. CASE RegistryAuth \/ RegistryLogin \/ PullRefused
  BY <1>1, <1>3 DEF RegistryAuth, RegistryLogin, PullRefused
<1>4. CASE PullSucceeds
  BY <1>1, <1>4 DEF PullSucceeds, Examined
<1>5. CASE LookupStep
  <2>1. CASE Unsupported \/ Invalid \/ HeadFails
    BY <2>1 DEF Unsupported, Invalid, HeadFails
  <2>2. CASE Compare
    BY <1>1, <2>2 DEF Compare, Examined
  <2>3. CASE DescribeImages \/ HeadManifest
    BY <1>1, <2>3 DEF DescribeImages, HeadManifest, Answered
  <2>4. CASE \E p \in Providers :
                 CriteriaDigest(p) \/ HeadTarget(p) \/ ListTags(p) \/ LookupFails(p)
    BY <1>1, <2>4 DEF CriteriaDigest, HeadTarget, ListTags, LookupFails, Answered
  <2> QED BY <1>5, <2>1, <2>2, <2>3, <2>4 DEF LookupStep
<1>6. CASE UNCHANGED outcome
  BY <1>1, <1>6
<1>7. CASE Push \/ SourceExpires \/ \E p \in {"ecr", "gcr"} : Revoke(p) \/ Expire(p)
  BY <1>6, <1>7 DEF Push, SourceExpires, Revoke, Expire
<1>8. CASE UNCHANGED vars
  BY <1>6, <1>8 DEF vars
<1> QED BY <1>2, <1>3, <1>4, <1>5, <1>7, <1>8, NextCases

(* No instance ever skips an image it is responsible for, and a router, Hub    *)
(* and GHCR examine and update no other, for any images and any providers     *)
(* behind the router. (ErrUnsupportedImage, Router.route, router.go.)         *)
THEOREM SkipsForeignOnlyHolds == Spec => SkipsForeignOnly
<1> DEFINE Skips ==
        step # "idle" /\ ~BareLocalhost(image) =>
            /\ outcome' = "skipped" => ~Owned
            /\ (multi \/ built \subseteq {"hub", "ghcr"})
                    /\ outcome' \in {"uptodate", "updated"} => Owned
<1>1. LookupInv /\ HostInv /\ [Next]_vars => [Skips]_vars
  <2> SUFFICES ASSUME LookupInv, HostInv, [Next]_vars,
                      step # "idle", ~BareLocalhost(image),
                      outcome' \in {"skipped", "uptodate", "updated"}
               PROVE  Skips
    OBVIOUS
  <2>1. image \in Images
    BY DEF LookupInv, RoutedInv
  <2>2. CASE Unsupported /\ outcome' = "skipped"
    BY <2>1, <2>2, UnsupportedIsForeign DEF HostInv
  <2>3. CASE Examined /\ outcome' \in {"uptodate", "updated"}
    BY <2>1, <2>3, ExaminedIsOwn DEF LookupInv, AskedInv
  <2> QED BY <2>2, <2>3, OutcomeOf
<1>2. Spec => []LookupInv
  BY InitLookupInv, StepLookupInv, PTL DEF Spec
<1>3. Spec => []HostInv
  BY HostAlways
<1> QED BY <1>1, <1>2, <1>3, PTL DEF Spec, SkipsForeignOnly

=============================================================================
