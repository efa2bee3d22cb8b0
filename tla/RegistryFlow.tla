---------------------------- MODULE RegistryFlow ----------------------------
(***************************************************************************)
(* What the reconcile loop does with a registry for one container after      *)
(* another (src/pkg/reconciler/reconciler.go:165-289): pull an image that is *)
(* missing, look the latest digest up, log in, pull, and once more after a   *)
(* refusal. Composed of the providers' lookups and credentials, the router   *)
(* and the credentials the Docker client keeps (src/pkg/registry, docker.go).*)
(*                                                                         *)
(* Hub and GHCR log in with credentials of the configuration and remember no *)
(* host but their own; ECR and GCR with a token they cache. The bearer       *)
(* tokens of lookups at Hub and GHCR are the subject of TokenCache.          *)
(***************************************************************************)
EXTENDS References, FiniteSets, FiniteSetsExt

CONSTANTS
    Images,      \* of the containers, as records (References)
    TagOrder,    \* the tags, in the order of their names
    Routers,     \* sets of providers that are built for a router
    Criteria,    \* records [version, regex, digest], <<>> or {} when unset
    Anonymous,   \* of Hub and GHCR, the providers without credentials
    MaxPushes,   \* bound: pushes to the repository a lookup is about
    None

VARIABLES
    built,       \* the providers main has built, for good
    multi,       \* they are behind a router, for good
    criteria,    \* for good
    step,        \* of the loop
    flow,        \* what a login and pull is for
    image,       \* of the container being processed
    asked,       \* the latest request of its lookup
    history,     \* tags pushed to the repository, while a lookup lists
    answer,      \* push of which a lookup has returned the digest, 0 for none
    outcome,     \* of the latest container
    gcrHost,     \* cachedHost of the GCR provider
    last,        \* the router's provider of the latest lookup
    cache,       \* the tokens ECR and GCR remember
    source,      \* the token Google's source remembers
    session,     \* lastAuthConfig of the Docker client
    (* history, read by no action *)
    seen,        \* Len(history) when the tags were listed
    revoked      \* an ECR token was revoked since this turn's retry began

fixed == <<built, multi, criteria>>
turn == <<flow, image, asked, history, answer, seen, revoked>>
lookup == <<asked, history, answer, seen, revoked>>
tokens == <<cache, source>>
memory == <<gcrHost, last>>
vars == <<fixed, step, turn, outcome, memory, tokens, session>>

Tags == Range(TagOrder)

ASSUME FlowAssumption ==
    /\ Anonymous \subseteq {"hub", "ghcr"}
    /\ \A b \in Routers : {"hub", "ghcr"} \subseteq b /\ b \subseteq Providers
    /\ MaxPushes \in Nat
    /\ \A img \in Images : WellFormed(img)
    /\ TagOrder \in Seq(Range(TagOrder))
    /\ \A m, n \in DOMAIN TagOrder : TagOrder[m] = TagOrder[n] => m = n
    /\ None \notin Images

Token == {"none", "config", "good", "revoked"}

TypeOK ==
    /\ built \subseteq Providers
    /\ multi \in BOOLEAN
    /\ criteria \in Criteria
    /\ step \in {"idle", "auth", "login", "pull", "lookup", "listed", "compare"}
    /\ flow \in {"heal", "update", "retry"}
    /\ image \in Images \cup {None}
    /\ history \in Seq(Tags) /\ Len(history) <= MaxPushes
    /\ {answer, seen} \subseteq 0 .. MaxPushes
    /\ outcome \in {"none", "skipped", "failed", "uptodate", "updated"}
    /\ last \subseteq built /\ Cardinality(last) <= 1
    /\ cache \in [{"ecr", "gcr"} -> Token \ {"config"}]
    /\ source \in Token \ {"config"}
    /\ session.provider \in built \cup {None} /\ session.token \in Token
    /\ revoked \in BOOLEAN

Init ==
    /\ \/ multi = TRUE /\ built \in Routers
       \/ multi = FALSE /\ \E p \in Providers : built = {p}
    /\ criteria \in Criteria
    /\ step = "idle"
    /\ flow = "update"
    /\ image = None
    /\ asked = None
    /\ history = <<>>
    /\ answer = 0
    /\ seen = 0
    /\ outcome = "none"
    /\ gcrHost = <<>>
    /\ last = {}
    /\ cache = [p \in {"ecr", "gcr"} |-> "none"]
    /\ source = "none"
    /\ session = [provider |-> None, host |-> <<>>, token |-> "none"]
    /\ revoked = FALSE

-----------------------------------------------------------------------------
(* The loop *)

GoTo(where) == step' = where /\ UNCHANGED <<image, outcome>>

(* The next container; what was local to this one is gone. *)
Finish(how) ==
    /\ step' = "idle"
    /\ outcome' = how
    /\ asked' = None
    /\ history' = <<>>
    /\ answer' = 0
    /\ seen' = 0
    /\ flow' = "update"
    /\ image' = None
    /\ revoked' = FALSE

(* GetImageDigest finds the image or finds it missing. *)
Begin(img) ==
    /\ step = "idle"
    /\ image' = img
    /\ outcome' = "none"
    /\ \/ step' = "lookup" /\ flow' = "update"
       \/ step' = "auth" /\ flow' = "heal"
    /\ UNCHANGED <<fixed, lookup, memory, tokens, session>>

(* Any call that fails is the end of the container's turn. *)
CallFailed ==
    /\ step # "idle"
    /\ Finish("failed")
    /\ UNCHANGED <<fixed, memory, tokens, session>>

-----------------------------------------------------------------------------
(* Credentials *)

(* What every provider, and a router, makes of the images. *)
Readings == [p \in Providers |-> [img \in Images |-> ParseRef(p, Text(img))]]
Hosts == [img \in Images |-> RegistryHost(Text(img))]

Responsible == IF multi THEN Route(Hosts[image], built) ELSE built

(* A token from the cache or, with the cache empty, a new one; Google's      *)
(* source returns the one it has.                                            *)
TakeToken(p, tok) ==
    LET fetched == IF p = "gcr" /\ source # "none" THEN source ELSE "good"
    IN  /\ tok = IF cache[p] # "none" THEN cache[p] ELSE fetched
        /\ cache' = [cache EXCEPT ![p] = tok]
        /\ source' = IF p = "gcr" /\ cache[p] = "none" THEN tok ELSE source

(* What a provider's GetAuth returns, with the token it has taken. *)
Configured(p) == IF p \in Anonymous THEN "none" ELSE "config"

HubAuth ==
    [provider |-> "hub", host |-> <<"registry-1.docker.io">>,
     token |-> Configured("hub")]
GhcrAuth ==
    [provider |-> "ghcr", host |-> <<"ghcr.io">>, token |-> Configured("ghcr")]
EcrAuth(tok) == [provider |-> "ecr", host |-> <<Account>>, token |-> tok]
GcrAuth(tok) ==
    [provider |-> "gcr", host |-> IF gcrHost = <<>> THEN <<"gcr.io">> ELSE gcrHost,
     token |-> tok]

(* Authenticate stores the credentials before the daemon tries them out. *)
GetAuth(p) ==
    \/ p = "hub" /\ session' = HubAuth /\ UNCHANGED tokens
    \/ p = "ghcr" /\ session' = GhcrAuth /\ UNCHANGED tokens
    \/ p = "ecr" /\ \E tok \in Token : TakeToken(p, tok) /\ session' = EcrAuth(tok)
    \/ p = "gcr" /\ \E tok \in Token : TakeToken(p, tok) /\ session' = GcrAuth(tok)

(* Mutant: the router would be asked without the image. *)
RegistryAuthLegacy ==
    /\ step = "auth"
    /\ \/ /\ \E p \in IF multi THEN last ELSE built : GetAuth(p)
          /\ GoTo("login")
          /\ UNCHANGED <<flow, lookup>>
       \/ /\ multi /\ last = {}
          /\ Finish("failed")
          /\ UNCHANGED <<tokens, session>>
    /\ UNCHANGED <<fixed, memory>>

RegistryAuth ==
    /\ step = "auth"
    /\ \/ /\ \E p \in Responsible : GetAuth(p)
          /\ GoTo("login")
          /\ UNCHANGED <<flow, lookup>>
       \/ /\ Responsible = {}
          /\ Finish("failed")
          /\ UNCHANGED <<tokens, session>>
    /\ UNCHANGED <<fixed, memory>>

(* The daemon tries the credentials out; without any there is no login. *)
RegistryLogin ==
    /\ step = "login"
    /\ IF session.token = "revoked" THEN Finish("failed")
       ELSE GoTo("pull") /\ UNCHANGED <<flow, lookup>>
    /\ UNCHANGED <<fixed, memory, tokens, session>>

PullSucceeds ==
    /\ step = "pull"
    /\ session.token # "revoked"
    /\ IF flow = "heal"
       THEN GoTo("lookup") /\ flow' = "update" /\ UNCHANGED lookup
       ELSE Finish("updated")
    /\ UNCHANGED <<fixed, memory, tokens, session>>

(* Mutant: the ECR provider would keep its token. *)
InvalidateCacheButEcr ==
    /\ cache' = [cache EXCEPT !["gcr"] = "none"]
    /\ gcrHost' = <<>>
    /\ last' = {}
    /\ UNCHANGED source

InvalidateCache ==
    /\ cache' = [p \in {"ecr", "gcr"} |-> "none"]
    /\ gcrHost' = <<>>
    /\ last' = {}
    /\ UNCHANGED source

(* Mutant: every refusal would be followed by another attempt. *)
PullRefusedForEver ==
    /\ step = "pull"
    /\ IF flow # "heal"
       THEN /\ InvalidateCache
            /\ GoTo("auth") /\ flow' = "retry" /\ UNCHANGED lookup
       ELSE Finish("failed") /\ UNCHANGED <<memory, tokens>>
    /\ UNCHANGED <<fixed, session>>

(* The registry refuses: the token was revoked after the login, or may not   *)
(* read this repository.                                                     *)
PullRefused ==
    /\ step = "pull"
    /\ IF flow = "update"
       THEN /\ InvalidateCache
            /\ GoTo("auth") /\ flow' = "retry" /\ UNCHANGED lookup
       ELSE Finish("failed") /\ UNCHANGED <<memory, tokens>>
    /\ UNCHANGED <<fixed, session>>

-----------------------------------------------------------------------------
(* Lookups *)

Unsupported ==
    /\ step = "lookup"
    /\ \/ Responsible = {}
       \/ \E p \in Responsible : Readings[p][image].verdict = "unsupported"
    /\ Finish("skipped")
    /\ UNCHANGED <<fixed, memory, tokens, session>>

Invalid ==
    /\ step = "lookup"
    /\ \E p \in Responsible : Readings[p][image].verdict = "invalid"
    /\ Finish("failed")
    /\ UNCHANGED <<fixed, memory, tokens, session>>

(* What is asked of the registry, by the criteria in the order in which the  *)
(* provider looks at them: nothing, a tag's digest, the list of tags.        *)
Target(how, ref) == [how |-> how, ref |-> ref]

DockerHubTarget(read) ==
    CASE criteria.digest # <<>> -> Target("nothing", criteria.digest)
      [] criteria.digest = <<>> /\ criteria.version # <<>> ->
            Target("digest", criteria.version)
      [] criteria.digest = <<>> /\ criteria.version = <<>>
            /\ criteria.regex # {} -> Target("list", <<>>)
      [] OTHER -> Target("digest", read.ref)

GhcrTarget(read) == DockerHubTarget(read)

GcrTarget(read) ==
    CASE criteria.version # <<>> -> Target("digest", criteria.version)
      [] criteria.version = <<>> /\ criteria.regex # {} -> Target("list", <<>>)
      [] criteria.version = <<>> /\ criteria.regex = {} /\ criteria.digest # <<>> ->
            Target("nothing", criteria.digest)
      [] OTHER -> Target("digest", read.ref)

(* ECR asks whether the digest is there. *)
EcrTarget(read) ==
    IF GcrTarget(read).how = "nothing" THEN Target("digest", criteria.digest)
    ELSE GcrTarget(read)

TargetOf(p, read) ==
    CASE p = "hub" -> DockerHubTarget(read)
      [] p = "ghcr" -> GhcrTarget(read)
      [] p = "gcr" -> GcrTarget(read)
      [] p = "ecr" -> EcrTarget(read)

Request(p, read) ==
    [provider |-> p, host |-> read.host, path |-> read.path,
     ref |-> TargetOf(p, read).ref]

(* Mutant: the GCR provider would not take note of the host. *)
RememberHostNever(p, host) == UNCHANGED gcrHost

RememberHost(p, host) == gcrHost' = IF p = "gcr" THEN host ELSE gcrHost

(* A request the registry answers: GCR's carry its token. *)
Authorized(p) ==
    IF p = "gcr" THEN TakeToken(p, "good") ELSE UNCHANGED tokens

(* Mutant: the router would keep every provider it has asked. *)
AnsweredAll(p) ==
    /\ GoTo("compare")
    /\ last' = IF multi THEN last \cup {p} ELSE last
    /\ UNCHANGED flow

(* The router takes note of the provider when its answer is there. *)
Answered(p) ==
    /\ GoTo("compare")
    /\ last' = IF multi THEN {p} ELSE last
    /\ UNCHANGED flow

(* GetLatestDigest of a provider that reads the reference. *)
LooksUp(p, how) ==
    LET read == Readings[p][image]
    IN  /\ step = "lookup"
        /\ p \in Responsible
        /\ read.verdict = "read"
        /\ TargetOf(p, read).how = how
        /\ RememberHost(p, read.host)
        /\ asked' = Request(p, read)
        /\ UNCHANGED <<fixed, session, revoked>>

(* The digest of the criteria is returned as it is. *)
CriteriaDigest(p) ==
    /\ LooksUp(p, "nothing")
    /\ Answered(p)
    /\ UNCHANGED <<history, answer, seen, tokens>>

(* headManifest, or DescribeImages for one tag or digest. *)
HeadTarget(p) ==
    /\ LooksUp(p, "digest")
    /\ Authorized(p)
    /\ Answered(p)
    /\ UNCHANGED <<history, answer, seen>>

Matching(h) == {i \in DOMAIN h : h[i] \in criteria.regex}

Histories == UNION {[1 .. n -> Tags] : n \in 1 .. MaxPushes}

(* ECR describes all images and takes the newest that has a match. *)
DescribeImages ==
    /\ LooksUp("ecr", "list")
    /\ Answered("ecr")
    /\ \E h \in Histories :
          /\ Matching(h) # {}
          /\ history' = h
          /\ seen' = Len(h)
          /\ answer' = Max(Matching(h))
    /\ UNCHANGED tokens

(* The others list the tags, *)
ListTags(p) ==
    /\ p # "ecr"
    /\ LooksUp(p, "list")
    /\ Authorized(p)
    /\ \E h \in Histories :
          /\ Matching(h) # {}
          /\ history' = h
          /\ seen' = Len(h)
    /\ GoTo("listed")
    /\ UNCHANGED <<flow, answer, last>>

(* Mutant: the tags would be taken in ascending order. *)
GreatestAscending(h) ==
    TagOrder[Min({n \in DOMAIN TagOrder : \E i \in Matching(h) : h[i] = TagOrder[n]})]

(* take the match whose name comes last, *)
Greatest(h) ==
    TagOrder[Max({n \in DOMAIN TagOrder : \E i \in Matching(h) : h[i] = TagOrder[n]})]

(* and ask for its digest, as of then. *)
HeadManifest ==
    LET tag == Greatest(SubSeq(history, 1, seen))
    IN  /\ step = "listed"
        /\ Authorized(asked.provider)
        /\ answer' = Max({i \in DOMAIN history : history[i] = tag})
        /\ Answered(asked.provider)
        /\ UNCHANGED <<fixed, asked, history, seen, revoked, gcrHost, session>>

(* A request is refused, or what it asks for is not there; GCR's token may   *)
(* have been fetched for it, and the host is remembered all the same.        *)
LookupFails(p) ==
    LET read == Readings[p][image]
    IN  /\ step = "lookup"
        /\ p \in Responsible
        /\ read.verdict = "read"
        /\ TargetOf(p, read).how # "nothing"
        /\ RememberHost(p, read.host)
        /\ \/ p = "gcr" /\ \E tok \in Token : TakeToken(p, tok)
           \/ UNCHANGED tokens
        /\ Finish("failed")
        /\ UNCHANGED <<fixed, last, session>>

HeadFails ==
    /\ step = "listed"
    /\ Finish("failed")
    /\ UNCHANGED <<fixed, memory, tokens, session>>

(* The digests are equal, or the image has to be updated. *)
Compare ==
    /\ step = "compare"
    /\ \/ Finish("uptodate")
       \/ GoTo("auth") /\ UNCHANGED <<flow, lookup>>
    /\ UNCHANGED <<fixed, memory, tokens, session>>

-----------------------------------------------------------------------------
(* The world *)

(* Somebody pushes to the repository between the listing and the request.    *)
Push ==
    /\ step = "listed"
    /\ Len(history) < MaxPushes
    /\ \E tag \in Tags : history' = Append(history, tag)
    /\ UNCHANGED <<fixed, step, flow, image, asked, answer, seen, revoked,
                   outcome, memory, tokens, session>>

(* The tokens a registry has issued are revoked, wherever they are kept.     *)
Revoke(p) ==
    LET dead(tok) == IF tok = "good" THEN "revoked" ELSE tok
    IN  /\ cache' = [cache EXCEPT ![p] = dead(@)]
        /\ source' = IF p = "gcr" THEN dead(source) ELSE source
        /\ session' = IF session.provider = p
                      THEN [session EXCEPT !.token = dead(@)] ELSE session
        /\ <<cache, source, session>>' # <<cache, source, session>>
        /\ revoked' = (revoked \/ (flow = "retry" /\ p = "ecr"))
        /\ UNCHANGED <<fixed, step, flow, image, asked, history, answer, seen, outcome,
                       memory>>

(* A cached token comes within the margin of its expiry; Google's source     *)
(* holds on to its token for longer.                                          *)
Expire(p) ==
    /\ cache[p] # "none"
    /\ cache' = [cache EXCEPT ![p] = "none"]
    /\ UNCHANGED <<fixed, step, turn, outcome, memory, source, session>>

SourceExpires ==
    /\ cache["gcr"] = "none"
    /\ source # "none"
    /\ source' = "none"
    /\ UNCHANGED <<fixed, step, turn, outcome, memory, cache, session>>

-----------------------------------------------------------------------------

Proceed ==
    \/ RegistryAuth \/ RegistryLogin \/ PullSucceeds \/ PullRefused
    \/ Unsupported \/ Invalid \/ DescribeImages \/ HeadManifest \/ HeadFails
    \/ \E p \in Providers :
          CriteriaDigest(p) \/ HeadTarget(p) \/ ListTags(p) \/ LookupFails(p)
    \/ Compare \/ CallFailed

World == Push \/ SourceExpires \/ \E p \in {"ecr", "gcr"} : Revoke(p) \/ Expire(p)

Next == (\E img \in Images : Begin(img)) \/ Proceed \/ World

Spec == Init /\ [][Next]_vars

(* Every call returns (the daemon's have no timeout: this is assumed).       *)
FairSpec == Spec /\ WF_vars(Proceed)

-----------------------------------------------------------------------------
(* Properties *)

(* What a provider built here is responsible for. *)
Owned == \E p \in built : Own(p, image)

(* A lookup asks the registry, the repository and, without criteria, the tag  *)
(* or digest that the daemon makes of the same reference when it pulls: what  *)
(* is compared is what would be run. (The four parsers.)                      *)
AsksForTheImage ==
    asked # None /\ Own(asked.provider, image) /\ ~Misread(asked.provider, image) =>
        /\ asked.host = HostOf(image)
        /\ asked.path = PathOf(image)
        /\ criteria = [version |-> <<>>, regex |-> {}, digest |-> <<>>] =>
               asked.ref = RefOf(image)

(* Images of other registries are skipped, and only those: an instance never  *)
(* leaves an image of a kind of registry it has a provider for to nobody, and *)
(* the router, Hub and GHCR examine no other. (ErrUnsupportedImage, route.)   *)
SkipsForeignOnly ==
    [][step # "idle" /\ ~BareLocalhost(image) =>
        /\ outcome' = "skipped" => ~Owned
        /\ (multi \/ built \subseteq {"hub", "ghcr"})
                /\ outcome' \in {"uptodate", "updated"} => Owned]_vars

(* Behind a router every pull, also of an image that was missing and after a  *)
(* refusal, presents credentials of the provider for the image's kind of      *)
(* registry (at ECR, those of the own account), whatever was looked up or     *)
(* logged in to before. (registryAuth, Router.route, lastAuthConfig.)         *)
PullHasOwnCredentials ==
    multi /\ step = "pull" /\ ~BareLocalhost(image) => Own(session.provider, image)

(* At Hub, GHCR and GCR the login before the first pull of an update goes to  *)
(* the image's host, though GetAuth is not told the image. ECR is exempt: it  *)
(* always gives the host of the own account. (cachedHost of GCR, GetAuth.)    *)
FirstLoginAtOwnHost ==
    step = "login" /\ flow = "update" /\ Own(session.provider, image) =>
        session.host = HostOf(image) \/ session.provider = "ecr"

(* A retry presents a token that was fetched after the refusal, at ECR: it is *)
(* a revoked one only if it was revoked since. (InvalidateCache, GetAuth.)    *)
RetryHasNewToken ==
    flow = "retry" /\ session.provider = "ecr" /\ step \in {"login", "pull"}
        /\ session.token = "revoked" => revoked

InOrder(h) ==
    \A i, j \in DOMAIN h : i < j =>
        \E m, n \in DOMAIN TagOrder :
            m <= n /\ TagOrder[m] = h[i] /\ TagOrder[n] = h[j]

(* With tags pushed in the order of their names, a regular expression finds,  *)
(* at every provider, a match no older than the newest one when the lookup    *)
(* listed the tags, although the digest is asked for in a second request.     *)
NotOlder ==
    answer # 0 /\ InOrder(history) =>
        answer >= Max({i \in Matching(history) : i <= seen})

(* The turn of every container ends: a refusal is followed by one retry.      *)
TurnEnds == step # "idle" ~> step = "idle"

=============================================================================
