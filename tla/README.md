# Verification of dockenciler

Dockenciler watches the containers of a Docker daemon, asks the registry what
their image tags name now, and recreates a container, or rolls a swarm service,
when its image has moved on.  This directory holds TLA+ models of the parts of
it that are hard to test, the TLC runs over them, and machine-checked proofs.

    tlc -config ServiceUpdate_guards.cfg MCServiceUpdate.tla
    tlapm ServiceUpdate_proofs.tla

## Inventory

| Component | Source | State | Operations | Modelled in |
|---|---|---|---|---|
| Reconcile loop | `pkg/reconciler/reconciler.go` | none between ticks; within one: the list, the current container, digests, counters | `Reconcile`, `pullWithAuth`, `cleanupSupersededImages` | `Reconciler`, `Upkeep` |
| Docker client | `pkg/docker/docker.go` | last registry credentials, `lastForceUpdate` | list, inspect, pull, recreate, remove image, image digest, swarm and service queries | `Reconciler` (local part), `ServiceUpdate` |
| Service update guards | `pkg/docker/docker.go:706-832` | `lastForceUpdate`, the manager's `UpdateStatus` and version | `UpdateService`, `checkForceUpdateAllowed`, `GetServiceUpdateState` | `ServiceUpdate` |
| Main loop | `cmd/dockenciler/main.go` | ticker, cancellation, the providers it built | initial tick, ticks until a signal | fairness and `Crash` of `Reconciler`; `Routers` of `RegistryFlow` |
| Composite notifier | `pkg/notifier/notifier.go:40-110` | channel of 100, two contexts, `done` | `Notify`, worker, `Close` | `CompositeNotifier`, `Outbox` |
| Concrete notifiers, templates | `pkg/notifier/notifier.go:112-`, `template.go` | none | one request each | external to `CompositeNotifier` |
| Registry providers | `pkg/registry/{dockerhub,ghcr,ecr,gcr}.go` | token and credential caches, last host | `GetLatestDigest`, `GetAuth`, `InvalidateCache` | `TokenCache`, `TokenService` (caches), `References` (parsing), `RegistryFlow` (lookups, credentials) |
| Router | `pkg/registry/router.go` | provider of the last lookup | the same, by host | `References` (`Route`), `RegistryFlow` |
| Instance metadata | `pkg/registry/imds.go` | none | two HTTP requests | no |
| Configuration, logging | `pkg/config` | none after start-up | read, defaults | no |

**Interaction.**  The main loop calls `Reconcile` on start-up and then per
ticker interval, one at a time.  For every listed container the loop calls, in
order: the daemon (local digest), the registry (latest digest), the registry
(credentials), the daemon (login, pull, inspect, swarm mode), and then either
`UpdateService` or `RecreateContainer`; it hands a notification to the queue
and cleans up images.  The daemon, the registry, other dockenciler processes on
other manager nodes, and operators act between any two of these calls: the
calls are the atomic steps of the models.  The worker of the notifier is the
only goroutine beside the loop; it starts one goroutine per notification and
registered notifier.

**What is hard.**  State read by one call and relied on by a later one (rollout
state, tag, container state, images in use); removal before creation; one bump
per stale task of the same service; retries by the next tick of what the
manager already took; a queue at its limit; shutdown; and errors whose meaning
is lost (a wrapped refusal, a failed swarm query).  `PROJECT.json` lists each
hazard at its line with the properties that cover it.

**What makes each component correct.**
The guards: bumps are spaced, never restart a rollout that is on its way, and
never stop a service from arriving.  The tick: what is counted as updated runs
what the lookup selected, a loss is reported, an image in use stays, protected
containers stay, and a container whose tag moved is brought along.  The
notifier: accepted notifications leave one line, once and in order, without
ever holding up the loop.  The caches: a token that is handed out has time
left, is fetched once, and is not used after an invalidation.  The registry
turns: what is looked up is what the daemon would pull, every pull presents the
credentials of its own registry, a retry presents a new token, and a foreign
image is skipped, never a container's own.

## Modules

### ServiceUpdate

State: per process, the program counter of a call to `UpdateService`, its
service, the stale tasks left in the tick, whether the version it read is still
the manager's, whether the status was unreadable, and `lastForceUpdate`; per
service, the phase of `UpdateStatus`, the time left to it and since `StartedAt`,
and whether tasks are stale.

| Action | Code |
|---|---|
| `Tick`, `SkipTask`, `Finished` | one tick lists the stale tasks; an error or a deferral goes on to the next (reconciler.go:131, 328-341) |
| `InspectService` | docker.go:707 |
| `DeferBackoff`, `DeferInFlight`, `ForceUpdateAllowed`, `StatusUnreadable` | docker.go:781-810 |
| `BumpAccepted`, `BumpResponseLost`, `BumpRejected` | docker.go:734-762, with the three outcomes of a call that changes the manager |
| `RecordForceUpdate` | docker.go:764-771, a step of its own because time may pass between answer and entry |
| `Restart` | the map of docker.go:182 is gone |

External: `StartRollout`, `FinishRollout`, `FailRollout` (pause or roll back),
`Push`, `OperatorUpdate`.  The manager refuses an update whose version is not
the current one, and every write to the service object, the orchestrator's own
included, moves the version.

Time is a set of ages that saturate where no guard can tell larger values
apart, so a duration of 0 disables its guard exactly as in the code.
Abstracted: `ContainerSpec == nil`, updates without `Force` (no caller uses
them), a nil `StartedAt` (its age would be that of the zero time: the guard
does not hold), and clock differences between the process and the manager.

### Reconciler

State: tags of the registry, tags and images of the daemon, containers with the
image they were created from, the local variables of `Reconcile`, and the call
that comes next.  There is one action per call (table in the `map` of
`PROJECT.json`); a failing call is `CallFails`, for the calls whose error ends
the turn of the container, or an outcome of the call's own action.  `Crash` is
the end of the process or the cancellation of its context, which makes every
later call of the tick fail.  The processing order is left open, as the daemon's
listing order is.

Containers that carry the instance label or are excluded are not in
`Containers`: their turn has no effect but a count.  Credentials are abstracted to their
effect, a pull that fails once or for good.  `MultiPlatform` separates local
IDs and registry digests of an image, `PinStripped` is what ecr.go:286 does to
a pinned reference, `CriteriaTag` the tag selected by `criteria.version` or
`criteria.regex`.

The history variables `named` (what the selected tag named since the lookup)
and `lost` (the image of a removed container that is not yet replaced) are read
by no action.

`Upkeep` is what a tick promises to the containers, with registry, tags and
single calls left out: each listed container has one turn and one report, unless
a call fails and the tick is abandoned; in its turn it is left as it is, handed to
its service, or removed, created and started, an end short of that being reported
as a failure; nothing is removed in a dry run, for a foreign container or for a
task; images go only when no container was created from them.  `Reconciler`
implements it (`ImplementsUpkeep`): `Stage` groups the calls, what a container
runs, what is listed and how it was counted are read as they are.  Pulls are
allowed at any point of a turn, in a dry run too, as the code does
(reconciler.go:173), although docs/troubleshooting.md:223 says otherwise.

`Reconciler_multiplatform.cfg` is the same module with an image store on which
the two digests of an image differ.

### CompositeNotifier

State: the channel, callers inside the select of `Notify`, the two contexts,
the worker and what it holds, the running goroutines.  Every case of a select
that is ready may be chosen, hence `Enqueue` after `Close`.  The registered
notifiers are external and may never return: `newNotifier` gives them HTTP
clients without a timeout (main.go:263).  `main` never calls `Close`; its
callers' context is the one a signal cancels, so that `CancelContext` followed
by `Drop` is what happens to the channel at the end of the program.

`Outbox` is what the notifier promises with channel and worker left out: one
line, entered once per accepted notification and left from the front, delivered
or, if its context is cancelled by then, skipped.  `CompositeNotifier`
implements it (`ImplementsOutbox`): the line is what the worker holds followed
by the channel.  Its order is one across all callers, where
`DispatchedInOrder` speaks of the calls of each.

### TokenCache and TokenService

One module for the three kinds of cache, which differ in locks and expiry:
Hub and GHCR (a token per repository, a lock of the map and another over every
fetch, `expires_in` counted from the receipt), ECR (one token, one lock over
all), and GCR (as ECR, over a token source that hands its last token out
again).

| Action | Code |
|---|---|
| `Begin`, `CheckHit`, `CheckMiss` | first look (dockerhub.go:240, ghcr.go:203, ecr.go:87, gcr.go:159) |
| `Lock`, `RecheckHit`, `RecheckMiss` | second look with the fetch's lock held |
| `Issue`, `IssueAgain`, `FetchFails` | external: the endpoint, Google's source; every early return of the fetch |
| `Store` | the answer is remembered with its expiry, and returned |
| `InvalidateCache` | of the provider |
| `Pass` | time; a request of Hub and GHCR ends before its client's timeout |

The reconcile loop is one goroutine; that the caches serve several is what the
tests (`dockerhub_test.go:553`, `ecr_test.go:526`) and docs/providers promise.
`active` chooses how many there are.  GCR is exempt from `InvalidatedStaysSo`:
the source under the cache keeps its token, so `InvalidateCache` need not lead
to a new one, contrary to docs/providers/gcr.md:141-147.  Left out: ECR's
fallback of 12 hours for an answer without an expiry.

`TokenService` is the abstract specification: every call takes effect at one
moment.  `ImplementsService` says that `TokenCache` implements it, for every
kind.

### References

The four parsers, the router's `registryHost` and its choice of a provider, as
operators over a reference given as the sequence of its names and separators (a
digest is one name: no code looks into it).  Next to them, `HostOf`, `PathOf`
and `RefOf` say what the daemon makes of the same reference when it pulls; that
is the definition `AsksForTheImage` compares the parsers with.  `WellFormed`
says which references there are, for any set `Names` of hosts, parts of paths,
tags and digests; `FlowAssumption` wants the images of `RegistryFlow` to be such,
which TLC evaluates for those of `registry_turns`.

### RegistryFlow

The part of a container's turn that has to do with registries, for one
container after another: pull an image that is missing, look up, log in, pull,
and once more after a refusal (reconciler.go:165-289), composed with the router
or a single provider, the tokens of ECR and GCR, GCR's remembered host and the
credentials the Docker client stores (docker.go:844-866).

| Action | Code |
|---|---|
| `Begin` | `GetImageDigest` finds the image or finds it missing (reconciler.go:165) |
| `RegistryAuth`, `RegistryLogin` | `registryAuth`, `Authenticate`, the daemon's login |
| `PullSucceeds`, `PullRefused` | the pull, and `InvalidateCache` before the one retry (reconciler.go:258) |
| `Unsupported`, `Invalid`, `CriteriaDigest`, `HeadTarget`, `ListTags`, `HeadManifest`, `DescribeImages` | `GetLatestDigest`, by provider and criteria |
| `LookupFails`, `HeadFails`, `CallFailed` | its errors, and those of any other call |
| `Compare` | equal, or to be updated |
| `Push`, `Revoke`, `Expire`, `SourceExpires` | external |

ECR and GCR tokens are `good`, `revoked` or absent; their expiry and locks are
the subject of `TokenCache`, as are the bearer tokens of lookups at Hub and
GHCR.  Those two log in with credentials of the configuration and remember no
host but their own.  Dry runs and the reasons for skipping a container before
the lookup are in `Reconciler` or left out.

`Misread` lists the references on which the parsers and the daemon disagree,
which the properties exempt: a host `localhost` without a port is a Hub
namespace to the code; at Hub, GHCR and GCR a tag before a digest stays in the
path; ECR keeps the last name of a nested path (docs/providers/ecr.md:107 gives
`team/service`) and drops a digest.  Two more came out of the proof that there
are no others: an image of one name at `registry-1.docker.io` is taken for a
library image (dockerhub.go:490), which the daemon does at `docker.io` only, and
an image of another ECR account is looked up in the own one (ecr.go:159 names
no registry).  And where an ECR
reference has a port but no tag, the parser takes the port for one (the last
colon, ecr.go:286).  The router looks for `.dkr.ecr.` anywhere in the host, so an
ECR host with a port is ECR's (`DkrEcr`, router.go:59), while a GCR host with a
port has none of the suffixes and is nobody's (`GcrHost`, router.go:64).
ECR and GCR, when configured alone, also
examine images of other hosts, so `SkipsForeignOnly` speaks of routers, Hub and
GHCR in its second half.

## Runs

| Run | Bounds | Shows |
|---|---|---|
| `service_guards` | 2 processes, 1 service of 2 local tasks, interval 2, wait 2, start 1, rollout 1, 2 pushes, 2 faults | `BackoffRespected`, `NoSupersede`, `OwnRolloutUndisturbed` |
| `service_converges` | 2 processes, 1 task, wait 3, rollout 2, 2 pushes, 2 faults | `Converges`: neither starved nor wedged |
| `tick` | a plain, a pinned, a managed and a foreign container of one tag, 2 images, 1 push, 1 fault, 1 user action | what is counted, lost, kept, protected, the refinement of `Upkeep`, and `Converges` |
| `notifier_queue` | capacity 2, callers of 4 and 1 calls, 1 notifier | accounting, order, at most once, the refinement of `Outbox`; `Notify` and `Close` return |
| `token_cache` | up to 2 callers, 2 repositories, margin 1, timeout 1, lifetimes 1 and 3, time 3, 2 tokens | time left, one fetch, invalidation, calls return, the refinement of `TokenService`, for each kind |
| `registry_turns` | 9 images, 2 routers and each provider alone, 3 criteria, 2 tags, 3 pushes | parsing, routing, credentials, retry, choice of tags, `TurnEnds` |

Two processes are enough to have one act between the read and the write of the
other; two tasks to have one bump follow another in the same tick; durations of
one and two units to have an age below, at and above each limit.  In a tick two
plain containers are represented by the plain one and the pinned one, whose
images and tag are shared; two images give every tag a past and a present.  A
fault may fail any one call, crash the process or prune an image.  Five calls
are the fewest that find a channel of two full behind a dispatch that hangs and
a worker that holds one more.  Two callers meet at every lock; a lifetime of 1
is dead on arrival under a margin of 1 and one of 3 is not; the second token is
the one fetched after an invalidation.  The nine images are one or two of each
registry, with each optional part present and absent, a registry of nobody and
the misread forms; three criteria are none, a regular expression, and all at
once, which shows the precedence; three pushes put one between the listing of
two and the request.  No turn keeps anything that the number of turns could
bound: the run explores all sequences of turns.  The identities of processes are symmetric in
`service_guards`, which checks no liveness.

Six runs show where the program differs from what it says of itself:

| Run | Statement | What happens |
|---|---|---|
| `tick_refusal` | "attempting service update" (reconciler.go:351) | the refusal is wrapped (docker.go:417), the comparison `==` never holds |
| `tick_shared_image` | "a failed recreation never costs you the image you were running" (docs/operations.md:69-70) | the next container's cleanup removes it |
| `tick_stopped` | "respects `docker stop` / `docker rm` intent" (reconciler.go:157) | stopped during the tick, removed by force and started again |
| `tick_criteria` | "specific version numbers, or custom regular expressions" (README.md:8) | the container's own tag is pulled and counted as the update |
| `tick_multiplatform` | "Digest-pinned references … never trigger updates" (docs/operations.md:54-55) | on an image store whose local IDs are not registry digests, a pinned container is replaced in every tick (reconciler.go:217; the comment at 402-404 knows of the two kinds) |
| `notifier_flush` | "waits for all queued notifications to be processed" (notifier.go:106) | the worker returns with a full channel |

Differences seen while modelling that no run shows: docs/configuration.md:122-123
has images of other registries "skipped via ErrUnsupportedImage, not failed",
but one that is missing locally is pulled before the lookup
(reconciler.go:173-180) and counted as failed when that pull fails; the criteria
take precedence in different orders (Hub and GHCR: digest, version, expression;
GCR and ECR: version, expression, digest); tags and described images are read
from one page (against docs/providers/dockerhub.md:68 and ecr.md:118); a login
with a revoked token fails without `InvalidateCache`, which only a refused pull
of an update calls; a non-positive interval makes `time.NewTicker` panic.

`Reconciler`, `ServiceUpdate`, `TokenCache` and `RegistryFlow` deadlock nowhere
(there is always a next call); the configurations of `CompositeNotifier` turn
the deadlock check off, since nothing is left to do once the calls are made and
the notifier is closed.

## Fairness

`ServiceUpdate`: weak fairness of each process (the main loop ticks for ever
and every call returns, if with an error), of the orchestrator and of time; none
for faults, pushes, operators or the failure of a rollout.  A stuck rollout
stays stuck until it is superseded.
`Reconciler`: weak fairness of the tick as a whole.  That every call returns is
an assumption: the code sets no timeout on daemon calls.
`CompositeNotifier`: the worker and `CloseReturns` are scheduled; a select
chooses at random and a channel serves its senders in turn, so a case ready
again and again is taken (strong fairness of `WorkerStops` and `Enqueue`).
Nothing is assumed of the registered notifiers.
`TokenCache`: goroutines run, and a request is answered or fails (the clients
have timeouts).  Strong fairness of `Lock` and of the first look stands for
Go's mutexes, which hand themselves over to a waiter that starves.  Nobody has
to call, to invalidate, or to let time pass.
`RegistryFlow`: weak fairness of the turn as a whole, under the assumption
about daemon calls above; none for containers to begin or for the world.

## Proofs

`ServiceUpdate_proofs` proves, for any set of processes and services and all
durations and bounds, from `ConstantsAssumption` alone:

- `TypeCorrect`: `TypeOK` always;
- `BackoffHolds`, `NoSupersedeHolds`, `OwnRolloutHolds`: the three action
  properties of `service_guards`.

None of the three follows from `TypeOK`.  A bump is sent several steps after
the guards were evaluated, so the inductive invariant `IInv` says what a call
that is about to send still knows: its backoff is over (`AllowedIsPastBackoff`;
ages only grow and only its own process resets them), and as long as the
version it read is current the rollout is not young (`AllowedIsCurrent`: what
could make it so, the start of a rollout, writes the object).
`RecordFollowsAck` relates `lastForceUpdate` to the time of the answer: the
entry is made later, and until then the process is in no other call.
`PendingIsRecent` adds the waiting time of a rollout and the age of the bump
that asked for it up to at most `StartDelay`, which is why a backoff longer than
`StartDelay` covers the time in which `UpdateStatus` shows nothing.  The step
lemmas split on the actions through `NextCases`; the actions of a call share a
frame (`LocalFrame`, `LocalOthers`, `LocalOwn`).

`CompositeNotifier_proofs` proves, from `NotifierAssumption`, `TypeCorrect` and
the three safety properties of `notifier_queue` (`Accounting`, `OnceEach`,
`FirstInFirstOut`) for any callers, calls, capacity and registered notifiers.
Its invariant orders everything under way: of one caller, what is settled
(dispatched or skipped) was sent before what the worker holds, and that before
what is queued (`InOrder`), because the call being accepted is the latest of
its caller (`CallsAreNew`).  From the order follows that nothing is queued
twice and that what is held is not yet settled; that dispatched and skipped are
apart follows from what each step settles being new to both.  `AppendItems` and
`TailItems` say what the two operations on the channel do to items and order.
`Refines` proves the refinement of `Outbox` from the same invariant: a call that
is accepted is new, taking stutters, settling takes the front off the line.

`TokenCache_proofs` proves, for any callers, repositories, lifetimes, margin and
timeout, `TypeCorrect`, `AliveHolds`, `NeededHolds`, `InvalidatedHolds` and
`Refines` (`ImplementsService`).  The invariant: whoever is past the lock holds
it, so no other caller stores, and what the holder found unusable stays so
(`FetchNeeded`); a remembered expiry is late by at most `Timeout`; with a single
caller, or ECR's lock, everything remembered or on its way was issued since the
last invalidation the call saw.

`Reconciler_proofs` proves, for any containers, tags and images, `TypeCorrect`,
`ImageKeptHolds` and `LossReportedHolds` from `ReconcilerAssumption`, and two
more under a named condition of the store: `ProtectedHolds` if pinned references
compare as themselves (`PinsCompare`: no pinned containers, or no criteria, no
stripped pins and no image with two kinds of digest), `CountedHolds` if moreover
no criteria select another tag.  The violation runs show that the conditions are
needed.  Most steps leave alone what an invariant speaks of; a lemma on these
quiet steps is proved once, and each of the five invariants (`ImageInv`,
`LossInv`, `PlainInv`, `CountInv`, `TurnInv`) then treats the few that do not.
`LossReported` is about the process that removed the container: a crash between
removal and creation is in the hazards, and nothing in the code can report it.

`Refines` (`ImplementsUpkeep`) needs no condition of the store.  Its invariant
`TurnInv` says what the lookup and the refusal of `RecreateContainer` have
settled by each call (no dry run and no foreign container past the lookup, no
task past the refusal, cleanup only after a replacement) and takes from
`ImageInv` that a tag names an image that is there.  A quiet step ends the turn,
hands it to the service or is not seen; each other step is an action of `Upkeep`.
The run has no dry run in it: that part is shown by the proof alone.

`References_proofs` proves, for any names, hosts and references, from
`HostsAssumption`: `RouterReadsHosts` (the router finds the daemon's host),
`ProvidersRead` (each parser finds the daemon's host, path and reference of its
own images, `Misread` apart) and `ProvidersLeave` (no parser disowns an image of
its own; Hub and GHCR read no other).  The parsers cut a text at the first or
last occurrence of a separator, so the argument is about `s = a \o <<x>> \o b`:
if `x` is not in `a`, the first `x` parts `s` into `a` and `b` (`CutFirst`), if it
is not in `b`, the last does (`CutFinal`).  `TextIs` and `PartsAre` write a
reference as such a sequence and say which separators its parts are free of;
`Candidate` and `CandidateIsHost` are the router's and Hub's question whether
what precedes the first slash is a host.  First and last occurrences and maxima
are CHOOSE in the community modules; `LeastExists`, from the well-foundedness of
the naturals, gives them (`MinIs`, `MaxIs`).

`RegistryFlow_proofs` proves the type invariant, every safety invariant and the
action property of `registry_turns`, from `HostsAssumption` and
`FlowAssumption`, for any well-formed images, tags, routers and criteria:

- `RetryHolds`, of ECR: a refusal empties the cache, and only a revocation since
  then can spoil what the retry fetches (`RetryInv`); Google's token source keeps
  its own token and may return it again;
- `OwnCredentialsHold`: credentials are taken for the image at hand, and the
  turn does not change it between login and pull (`RoutedInv`); that the router
  chose the right provider is `RouterReadsHosts`;
- `FirstLoginHolds` follows GCR's remembered host from the lookup to the login:
  only one provider is responsible for an image (`OneResponsible`), so no other
  lookup comes between, and an invalidation makes the login one of a retry
  (`HostInv`);
- `TypeCorrect`, from `LookupInv`: what is asked stays the request of a provider
  responsible for the image from the lookup to the last pull (`AskedInv`), what
  is found lies within the pushes (`FoundTyped`);
- `NotOlderHolds`: the request for the digest finds the latest push of the
  greatest listed name (`HeadManifestFinds`); a newer listed match would bear the
  same name, as the order of pushes is that of names, and be found instead;
- `AsksForTheImageHolds` and `SkipsForeignOnlyHolds` carry `ProvidersRead` and
  `ProvidersLeave` through `AskedInv` to the request and the outcome.

Model-checked only: all liveness (`Converges` of two modules, `NotifyReturns`,
`CloseTerminates`, `AcceptedDispatched`, `CallsReturn`, `TurnEnds`), since fairness
and ENABLED are out of the prover's reach, and the six statements that fail.

## Plan

Done, in this order: the guards, the tick, the notifier, the caches, the
references, the registry turns, and the proofs above.  Left:

1. `Reconciler` composed with `RegistryFlow` and with `ServiceUpdate` in place of
   their outcomes.
2. `MainLoop`: ticker, signals and dry runs (a dry run pulls a missing image and
   so moves the local tag, reconciler.go:173).

## Not modelled

The concrete notifiers and templates, instance metadata, configuration and
logging are requests or formatting without state.  The copying of a container's
configuration (docker.go:232-343, 442-692, 914-1096) is data the properties do
not tell apart; the calls around it are modelled.  That the copy carries the
defaults of the previous image along is in the hazards of `PROJECT.json`.
ECR's `GetImageVersion` is called by nothing.  Reading the Docker CLI's
configuration (dockerhub.go) happens once at start-up.
