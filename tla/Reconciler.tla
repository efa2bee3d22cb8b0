----------------------------- MODULE Reconciler -----------------------------
(***************************************************************************)
(* One tick of the reconcile loop (src/pkg/reconciler/reconciler.go) over  *)
(* the containers of one Docker daemon, one action per daemon or registry  *)
(* call, so that pushes, operators, prunes and the end of the process fall *)
(* between any two of them.  The local part of RecreateContainer,          *)
(* PullImage, GetImageDigest and RemoveImage (src/pkg/docker/docker.go) is *)
(* modelled call by call; UpdateService by its three outcomes (module      *)
(* ServiceUpdate has its inside).                                          *)
(*                                                                         *)
(* Containers are the labelled ones that are neither the process's own nor *)
(* excluded: for those the loop does nothing but count (lines 132-155).    *)
(* The daemon and the registry are external: an image store, the image     *)
(* each local tag names, containers with the image they were created from, *)
(* and the image each registry tag names.                                  *)
(***************************************************************************)
EXTENDS Naturals, FiniteSets

CONSTANTS
    Containers,      \* by name: a replacement keeps the name
    Tags,            \* repository:tag
    Images,
    NoImage,         \* "" or not found
    Ref,             \* Ref[c]: the tag of the container's image reference
    Foreign,         \* hosted by a registry the provider does not serve
    Managed,         \* task containers of swarm services
    Pinned,          \* created from repository@digest; Ref is its latest tag
    PinStripped,     \* the provider looks up the tag of a pinned reference
    CriteriaTag,     \* the tag criteria.version or .regex selects, or NoTag
    NoTag,
    MultiPlatform,   \* images whose registry digest is not their local ID
    DryRun,
    CleanupOldImages,
    MaxPushes,       \* bound: tags moved in the registry
    MaxFaults,       \* bound: failing calls, crashes and prunes
    MaxUserActions   \* bound: docker stop and docker rm

ASSUME ReconcilerAssumption ==
    /\ Containers # {}
    /\ Foreign \cup Managed \cup Pinned \subseteq Containers
    /\ NoImage \notin Images
    /\ NoTag \notin Tags
    /\ Ref \in [Containers -> Tags]
    /\ CriteriaTag \in Tags \cup {NoTag}
    /\ MultiPlatform \subseteq Images
    /\ {DryRun, CleanupOldImages, PinStripped} \subseteq BOOLEAN
    /\ {MaxPushes, MaxFaults, MaxUserActions} \subseteq Nat

VARIABLES
    (* the registry and the daemon *)
    regTag,      \* the image a registry tag names
    localTag,    \* the image a local tag names
    store,       \* the images on the daemon
    state,       \* running, exited, created (never started) or absent
    img,         \* the image a container was created from
    pinned,      \* containers whose reference carries a digest
    pin,         \* the image that digest names, where there is one
    (* the process *)
    pc,          \* the call that comes next
    todo,        \* listed containers still to be looked at
    cur,         \* the container being looked at
    imageID,     \* container.ImageID as listed
    image,       \* container.Image as listed: tag, pinned or raw (an ID)
    digest,      \* currentDigest: what the reference resolved to
    latest,      \* the image whose digest GetLatestDigest returned
    fallback,    \* in the service update of the swarm fallback
    drop,        \* superseded images still to be removed
    outcome,     \* how cur was counted
    (* history: what the properties are about, read by no action *)
    named,       \* what the selected tag named since the lookup
    lost,        \* the image of a container removed and not yet replaced
    (* budgets *)
    pushes, faults, userActions

daemonVars  == <<localTag, store, state, img, pinned, pin>>
procVars    == <<todo, cur, imageID, image, digest, latest, fallback, drop>>
histVars    == <<named, lost>>
budgetVars  == <<pushes, faults, userActions>>
vars == <<regTag, daemonVars, pc, procVars, outcome, histVars, budgetVars>>

Maybe == Images \cup {NoImage}

Calls == {"list", "next", "digest", "heal", "digest again", "lookup", "pull",
          "retry", "inspect", "swarm", "service", "recreate", "pull again",
          "remove", "create", "start", "notify", "resolve", "clean"}

Outcomes == {"none", "skipped", "up to date", "dry run", "updated", "failed"}

TypeOK ==
    /\ regTag \in [Tags -> Images]
    /\ localTag \in [Tags -> Maybe]
    /\ store \subseteq Images
    /\ state \in [Containers -> {"running", "exited", "created", "absent"}]
    /\ img \in [Containers -> Images]
    /\ pinned \subseteq Pinned
    /\ pin \in [Containers -> Images]
    /\ pc \in Calls
    /\ todo \subseteq Containers
    /\ cur \in Containers
    /\ imageID \in [Containers -> Maybe]
    /\ image \in [Containers -> {"tag", "pinned", "raw"}]
    /\ digest \in Maybe
    /\ latest \in Maybe
    /\ fallback \in BOOLEAN
    /\ drop \subseteq Images
    /\ outcome \in Outcomes
    /\ named \subseteq Images
    /\ lost \in [Containers -> Maybe]
    /\ pushes \in 0 .. MaxPushes
    /\ faults \in 0 .. MaxFaults
    /\ userActions \in 0 .. MaxUserActions

(* The value of cur before the loop has begun: any will do. *)
NotYet == CHOOSE c \in Containers : TRUE

(* Every container runs the image its tag names, here and in the registry. *)
Init ==
    /\ regTag \in [Tags -> Images]
    /\ localTag = regTag
    /\ store = {regTag[t] : t \in Tags}
    /\ state = [c \in Containers |-> "running"]
    /\ img = [c \in Containers |-> regTag[Ref[c]]]
    /\ pinned = Pinned
    /\ pin = img
    /\ pc = "list"
    /\ todo = {}
    /\ cur = NotYet
    /\ imageID = [c \in Containers |-> NoImage]
    /\ image = [c \in Containers |-> "tag"]
    /\ digest = NoImage
    /\ latest = NoImage
    /\ fallback = FALSE
    /\ drop = {}
    /\ outcome = "none"
    /\ named = {}
    /\ lost = [c \in Containers |-> NoImage]
    /\ pushes = 0 /\ faults = 0 /\ userActions = 0

-----------------------------------------------------------------------------
(***************************************************************************)
(* The daemon and the registry.                                            *)
(***************************************************************************)

Fault == faults < MaxFaults /\ faults' = faults + 1

InUse(x) == \E c \in Containers : state[c] # "absent" /\ img[c] = x

TagsOf(x) == {t \in Tags : localTag[t] = x}

Untag(x) ==
    /\ store' = store \ {x}
    /\ localTag' = [t \in Tags |-> IF localTag[t] = x THEN NoImage
                                   ELSE localTag[t]]

(* The tag the configured criteria select for a container, and the image    *)
(* the provider finds there.  A digest in the reference is looked up as     *)
(* such unless the provider strips it.                                      *)
SelectedTag(c) == IF CriteriaTag # NoTag THEN CriteriaTag ELSE Ref[c]

Selected(c) ==
    IF CriteriaTag = NoTag /\ image[c] = "pinned" /\ ~PinStripped
    THEN pin[c] ELSE regTag[SelectedTag(c)]

Push(t, x) ==
    /\ pushes < MaxPushes
    /\ pushes' = pushes + 1
    /\ x # regTag[t]
    /\ regTag' = [regTag EXCEPT ![t] = x]
    /\ named' = IF named # {} /\ t = SelectedTag(cur)
                THEN named \cup {x} ELSE named
    /\ UNCHANGED <<daemonVars, pc, procVars, outcome, lost, faults,
                   userActions>>

(* docker image prune -a: anything no container was created from. *)
Prune(x) ==
    /\ Fault
    /\ x \in store /\ ~InUse(x)
    /\ Untag(x)
    /\ UNCHANGED <<regTag, state, img, pinned, pin, pc, procVars, outcome, histVars,
                   pushes, userActions>>

(* docker stop, docker rm -f. *)
UserTakesAway(c) ==
    /\ userActions < MaxUserActions
    /\ userActions' = userActions + 1
    /\ state[c] = "running"
    /\ \E s \in {"exited", "absent"} : state' = [state EXCEPT ![c] = s]
    /\ UNCHANGED <<regTag, localTag, store, img, pinned, pin, pc, procVars, outcome,
                   histVars, pushes, faults>>

(* The swarm manager replaces a task by one that runs what the tag names. *)
TaskReplaced(c) ==
    /\ c \in Managed
    /\ state[c] = "running"
    /\ img[c] # regTag[Ref[c]]
    /\ img' = [img EXCEPT ![c] = regTag[Ref[c]]]
    /\ localTag' = [localTag EXCEPT ![Ref[c]] = regTag[Ref[c]]]
    /\ store' = store \cup {regTag[Ref[c]]}
    /\ UNCHANGED <<regTag, state, pinned, pin, pc, procVars, outcome, histVars,
                   budgetVars>>

-----------------------------------------------------------------------------
(***************************************************************************)
(* The tick.  A daemon or registry call that fails is a Fault; what the     *)
(* code does then depends on the call.                                     *)
(***************************************************************************)

(* `continue`: the container is counted and the loop goes on. *)
Count(o) == outcome' = o /\ pc' = "next"

ProcUnchanged == UNCHANGED <<regTag, daemonVars, procVars, histVars, pushes,
                             userActions>>

(* The next call, and nothing else changes. *)
Goto(call) ==
    /\ pc' = call
    /\ ProcUnchanged
    /\ UNCHANGED <<outcome, faults>>

CountAs(o) ==
    /\ Count(o)
    /\ ProcUnchanged
    /\ UNCHANGED faults

(* A call fails and so does the container. *)
CallFails(calls) ==
    /\ Fault
    /\ pc \in calls
    /\ Count("failed")
    /\ ProcUnchanged

Running == {c \in Containers : state[c] = "running"}

(* Each container is listed with what it runs, unless its inspection fails: *)
(* then the image ID is unknown and a reference whose tag has moved on is   *)
(* reported as a raw ID.                                                     *)
ListContainers ==
    /\ pc = "list"
    /\ todo' = Running
    /\ \E uninspected \in SUBSET Running :
          /\ \/ uninspected = {} /\ UNCHANGED faults
             \/ uninspected # {} /\ Fault
          /\ imageID' = [c \in Containers |->
                            IF c \in Running \ uninspected
                            THEN img[c] ELSE NoImage]
          /\ image' = [c \in Containers |->
                          IF c \in pinned THEN "pinned"
                          ELSE IF c \in uninspected
                                  /\ localTag[Ref[c]] # img[c]
                               THEN "raw" ELSE "tag"]
    /\ pc' = "next"
    /\ UNCHANGED <<regTag, daemonVars, cur, digest, latest, fallback, drop,
                   outcome, histVars, pushes, userActions>>

ListFails ==
    /\ pc = "list"
    /\ Fault
    /\ UNCHANGED <<regTag, daemonVars, pc, procVars, outcome, histVars, pushes,
                   userActions>>

NextContainer(c) ==
    /\ pc = "next"
    /\ c \in todo
    /\ todo' = todo \ {c}
    /\ cur' = c
    /\ digest' = NoImage
    /\ latest' = NoImage
    /\ fallback' = FALSE
    /\ named' = {}
    /\ outcome' = "none"
    /\ pc' = "digest"
    /\ UNCHANGED <<regTag, daemonVars, imageID, image, drop, lost, budgetVars>>

(* What Reconcile keeps in local variables is gone. *)
Forget ==
    /\ pc' = "list"
    /\ todo' = {}
    /\ cur' = NotYet
    /\ imageID' = [c \in Containers |-> NoImage]
    /\ image' = [c \in Containers |-> "tag"]
    /\ digest' = NoImage
    /\ latest' = NoImage
    /\ fallback' = FALSE
    /\ drop' = {}
    /\ outcome' = "none"
    /\ named' = {}
    /\ lost' = [c \in Containers |-> NoImage]
    /\ UNCHANGED <<regTag, daemonVars, pushes, userActions>>

EndOfTick == pc = "next" /\ todo = {} /\ Forget /\ UNCHANGED faults

(* Killed, or its context cancelled: every later call of the tick fails. *)
Crash == Fault /\ Forget

(* Mutant: the lookup would drop the pin and find what the tag names. *)
ResolvedWithoutPin ==
    IF image[cur] = "raw" THEN NoImage ELSE localTag[Ref[cur]]

(* What the daemon finds for container.Image. *)
Resolved ==
    CASE image[cur] = "tag" -> localTag[Ref[cur]]
      [] image[cur] = "pinned" /\ pin[cur] \in store -> pin[cur]
      [] image[cur] = "raw" /\ img[cur] \in store -> img[cur]
      [] OTHER -> NoImage

GetImageDigest ==
    /\ pc \in {"digest", "digest again"}
    /\ Resolved # NoImage
    /\ digest' = Resolved
    /\ pc' = "lookup"
    /\ UNCHANGED <<regTag, daemonVars, todo, cur, imageID, image, latest,
                   fallback, drop, outcome, histVars, budgetVars>>

ImageMissing ==
    /\ Resolved = NoImage
    /\ \/ pc = "digest" /\ Goto("heal")
       \/ pc = "digest again" /\ CountAs("failed")

(* A pull is complete once its progress stream is drained. *)
Pulled(x) == store' = store \cup {x}

(* Mutant: the stream would be discarded, which aborts the pull. *)
PullDiscarded(t) == UNCHANGED <<store, localTag>>

PulledTag(t) ==
    /\ Pulled(regTag[t])
    /\ localTag' = [localTag EXCEPT ![t] = regTag[t]]

(* pullWithAuth takes the reference as it is, pin included. *)
HealPull ==
    /\ pc = "heal"
    /\ image[cur] # "raw"
    /\ IF image[cur] = "pinned"
       THEN Pulled(pin[cur]) /\ UNCHANGED localTag
       ELSE PulledTag(Ref[cur])
    /\ pc' = "digest again"
    /\ UNCHANGED <<regTag, state, img, pinned, pin, procVars, outcome, histVars,
                   budgetVars>>

(* A raw ID cannot be pulled, and a router has no credentials for a          *)
(* registry it does not serve.                                              *)
HealRefused ==
    /\ pc = "heal"
    /\ cur \in Foreign \/ image[cur] = "raw"
    /\ CountAs("failed")

(* A registry digest equals a local ID only for the same image, and only    *)
(* when the two are the same kind of digest.                                *)
SameDigest(localID, x) == localID = x /\ x \notin MultiPlatform

(* Mutant: the running image would not be looked at. *)
UpToDateByTagOnly(x) == SameDigest(digest, x)

UpToDate(x) ==
    /\ SameDigest(digest, x)
    /\ imageID[cur] = NoImage \/ imageID[cur] = digest

GetLatestDigest ==
    /\ pc = "lookup"
    /\ cur \notin Foreign /\ image[cur] # "raw"
    /\ latest' = Selected(cur)
    /\ named' = {Selected(cur)}
    /\ IF UpToDate(Selected(cur)) THEN Count("up to date")
       ELSE IF DryRun THEN Count("dry run")
       ELSE pc' = "pull" /\ UNCHANGED outcome
    /\ UNCHANGED <<regTag, daemonVars, todo, cur, imageID, image, digest,
                   fallback, drop, lost, budgetVars>>

(* ErrUnsupportedImage is another instance's job; a raw ID is no repository, *)
(* which some providers report as unsupported and some as an error.         *)
LookupRefused ==
    /\ pc = "lookup"
    /\ \/ cur \in Foreign /\ CountAs("skipped")
       \/ image[cur] = "raw" /\ \E o \in {"skipped", "failed"} : CountAs(o)

(* GetAuth, Authenticate and PullImage of the reference without its pin; an *)
(* authorization error invalidates the cached credentials and is retried    *)
(* once.                                                                    *)
PullImage ==
    /\ pc \in {"pull", "retry"}
    /\ PulledTag(Ref[cur])
    /\ pc' = "inspect"
    /\ UNCHANGED <<regTag, state, img, pinned, pin, procVars, outcome, histVars,
                   budgetVars>>

PullUnauthorized ==
    /\ Fault
    /\ pc = "pull"
    /\ pc' = "retry"
    /\ ProcUnchanged
    /\ UNCHANGED outcome

InspectContainer ==
    /\ pc = "inspect"
    /\ IF state[cur] = "absent" THEN CountAs("failed") ELSE Goto("swarm")

(* An error of the daemon counts as "not in swarm mode". *)
IsSwarmMode ==
    /\ pc = "swarm"
    /\ \/ Goto(IF Managed = {} THEN "recreate" ELSE "service")
       \/ Fault /\ pc' = "recreate" /\ ProcUnchanged /\ UNCHANGED outcome

NoServiceID == cur \notin Managed \/ state[cur] = "absent"

(* No service, or the lookup or the update of it failed. *)
ServiceFails ==
    /\ pc = "service"
    /\ \/ NoServiceID /\ UNCHANGED faults
       \/ Fault
    /\ IF fallback THEN Count("failed")
       ELSE pc' = "recreate" /\ UNCHANGED outcome
    /\ ProcUnchanged

UpdateService ==
    /\ pc = "service"
    /\ ~NoServiceID
    /\ \/ Goto("notify")
       \/ CountAs("skipped")                  \* in flight or backing off

-----------------------------------------------------------------------------
(***************************************************************************)
(* RecreateContainer.                                                      *)
(***************************************************************************)

ErrContainerManagedBySwarm == <<"managed">>
Wrapped(err) == <<"service name", err>>       \* fmt.Errorf("%w: ...")

(* Mutant: the wrapped error would satisfy the caller's test. *)
IsManagedErrorUnwrapped(err) == err = Wrapped(ErrContainerManagedBySwarm)

IsManagedError(err) == err = ErrContainerManagedBySwarm

(* Mutant: a swarm task would be recreated like any other container. *)
RecreateAnyway ==
    /\ pc = "recreate"
    /\ IF state[cur] = "absent" THEN CountAs("failed") ELSE Goto("pull again")

InspectForRecreate ==
    /\ pc = "recreate"
    /\ ~(cur \in Managed /\ state[cur] # "absent")
    /\ IF state[cur] = "absent" THEN CountAs("failed") ELSE Goto("pull again")

(* The refusal, and the branch of the caller that is to update the service. *)
RecreateRefused ==
    /\ pc = "recreate"
    /\ cur \in Managed /\ state[cur] # "absent"
    /\ IF IsManagedError(Wrapped(ErrContainerManagedBySwarm))
       THEN /\ pc' = "service"
            /\ fallback' = TRUE
            /\ UNCHANGED <<regTag, daemonVars, todo, cur, imageID, image, digest,
                           latest, drop, outcome, histVars, budgetVars>>
       ELSE CountAs("failed")

PullAgain ==
    /\ pc = "pull again"
    /\ PulledTag(Ref[cur])
    /\ pc' = "remove"
    /\ UNCHANGED <<regTag, state, img, pinned, pin, procVars, outcome, histVars,
                   budgetVars>>

(* Stop and remove, whatever state the container is in by now. *)
ContainerRemove ==
    /\ pc = "remove"
    /\ state[cur] # "absent"
    /\ state' = [state EXCEPT ![cur] = "absent"]
    /\ lost' = [lost EXCEPT ![cur] = img[cur]]
    /\ pc' = "create"
    /\ UNCHANGED <<regTag, localTag, store, img, pinned, pin, procVars, outcome, named,
                   budgetVars>>

AlreadyRemoved ==
    /\ pc = "remove"
    /\ state[cur] = "absent"
    /\ CountAs("failed")

(* The new container's reference is the tag: a pin is gone. *)
ContainerCreate ==
    /\ pc = "create"
    /\ localTag[Ref[cur]] # NoImage
    /\ state' = [state EXCEPT ![cur] = "created"]
    /\ img' = [img EXCEPT ![cur] = localTag[Ref[cur]]]
    /\ pinned' = pinned \ {cur}
    /\ pc' = "start"
    /\ UNCHANGED <<regTag, localTag, store, pin, procVars, outcome, histVars,
                   budgetVars>>

(* Mutant: the failed creation would go unnoticed. *)
CreateErrorIgnored ==
    /\ pc = "create"
    /\ localTag[Ref[cur]] = NoImage
    /\ CountAs("updated")

(* The image was pruned after the pull. *)
NoSuchImage ==
    /\ pc = "create"
    /\ localTag[Ref[cur]] = NoImage
    /\ CountAs("failed")

ContainerStart ==
    /\ pc = "start"
    /\ state' = [state EXCEPT ![cur] = "running"]
    /\ lost' = [lost EXCEPT ![cur] = NoImage]
    /\ pc' = "notify"
    /\ UNCHANGED <<regTag, localTag, store, img, pinned, pin, procVars, outcome, named,
                   budgetVars>>

-----------------------------------------------------------------------------
(***************************************************************************)
(* After the update.                                                       *)
(***************************************************************************)

(* Only an in-place replacement is cleaned up after. *)
RecreatedLocally == cur \notin Managed

Notify ==
    /\ pc = "notify"
    /\ IF RecreatedLocally /\ CleanupOldImages
       THEN Goto("resolve") ELSE CountAs("updated")

(* Mutant: an unknown image ID would be passed on. *)
CandidatesWithEmpty == {imageID[cur], digest}

(* The candidates are what the container ran and what its tag named before  *)
(* the pull; the registry digest is kept, and what the reference resolves   *)
(* to now, if that can be found out.                                        *)
Candidates == {imageID[cur], digest} \ {NoImage}

Kept == {x \in {latest} : x \notin MultiPlatform}

(* The lookup is by container.Image, which may still carry the pin. *)
ResolveKept ==
    /\ pc = "resolve"
    /\ \/ drop' = Candidates \ (Kept \cup {Resolved})
          /\ UNCHANGED faults
       \/ drop' = Candidates \ Kept /\ Fault
    /\ pc' = "clean"
    /\ UNCHANGED <<regTag, daemonVars, todo, cur, imageID, image, digest, latest,
                   fallback, outcome, histVars, pushes, userActions>>

(* Mutant: the daemon is told to remove the image by force. *)
RemoveImageByForce(x) ==
    /\ pc = "clean"
    /\ x \in drop
    /\ drop' = drop \ {x}
    /\ Untag(x)
    /\ UNCHANGED <<regTag, state, img, pinned, pin, pc, todo, cur, imageID,
                   image, digest, latest, fallback, outcome, histVars,
                   budgetVars>>

(* Without force the daemon refuses while a container uses the image or     *)
(* several tags name it; a refusal or an error is logged and that is all.   *)
RemoveImage(x) ==
    /\ pc = "clean"
    /\ x \in drop
    /\ drop' = drop \ {x}
    /\ IF InUse(x) \/ Cardinality(TagsOf(x)) > 1
       THEN UNCHANGED <<store, localTag>>
       ELSE Untag(x)
    /\ UNCHANGED <<regTag, state, img, pinned, pin, pc, todo, cur, imageID,
                   image, digest, latest, fallback, outcome, histVars,
                   budgetVars>>

RemoveImageFails(x) ==
    /\ Fault
    /\ pc = "clean"
    /\ x \in drop
    /\ drop' = drop \ {x}
    /\ UNCHANGED <<regTag, daemonVars, pc, todo, cur, imageID, image, digest,
                   latest, fallback, outcome, histVars, pushes, userActions>>

CleanupDone ==
    /\ pc = "clean"
    /\ drop = {}
    /\ CountAs("updated")

-----------------------------------------------------------------------------

Tick ==
    \/ ListContainers
    \/ \E c \in Containers : NextContainer(c)
    \/ EndOfTick
    \/ GetImageDigest \/ ImageMissing \/ HealPull \/ HealRefused
    \/ GetLatestDigest \/ LookupRefused
    \/ PullImage \/ InspectContainer
    \/ IsSwarmMode \/ UpdateService \/ ServiceFails
    \/ InspectForRecreate \/ RecreateRefused \/ PullAgain
    \/ ContainerRemove \/ AlreadyRemoved
    \/ ContainerCreate \/ NoSuchImage \/ ContainerStart
    \/ Notify \/ ResolveKept
    \/ \E x \in Images : RemoveImage(x)
    \/ CleanupDone

(* The calls whose error is the container's error. *)
FatalCalls == {"digest", "digest again", "heal", "lookup", "pull", "retry",
               "inspect", "recreate", "pull again", "remove", "create",
               "start"}

Trouble ==
    \/ CallFails(FatalCalls)
    \/ ListFails
    \/ PullUnauthorized
    \/ \E x \in Images : RemoveImageFails(x)
    \/ Crash

Environment ==
    \/ \E t \in Tags, x \in Images : Push(t, x)
    \/ \E x \in Images : Prune(x)
    \/ \E c \in Containers : UserTakesAway(c) \/ TaskReplaced(c)

Next == Tick \/ Trouble \/ Environment

Spec == Init /\ [][Next]_vars

(* The main loop calls Reconcile for ever and every call returns. *)
FairSpec == Spec /\ WF_vars(Tick)

-----------------------------------------------------------------------------
(***************************************************************************)
(* Properties.                                                             *)
(***************************************************************************)

(* A container counted as updated in place, or as up to date after it was   *)
(* inspected, runs an image its selected tag has named since the lookup,    *)
(* although the tag may move and images may be pruned between the lookup,   *)
(* the pulls and the creation (reconciler.go:217, 253, 417).                *)
CountedRunsSelected ==
    cur \notin Managed
    /\ \/ outcome = "updated"
       \/ outcome = "up to date" /\ imageID[cur] # NoImage
    => img[cur] \in named

(* A container the tick removed is either being created or started at this  *)
(* moment, or counted as failed: the loss is in the summary, never behind   *)
(* an "updated" (docker.go:436-702, reconciler.go:373-375). A crash ends    *)
(* the tick and its account: nothing remembers the removal after a restart. *)
LossReported ==
    lost[cur] # NoImage => pc \in {"create", "start"} \/ outcome = "failed"

(* Cleanup never takes the image of a container that exists, of whatever    *)
(* tag, reconciled or not (docker.go:883-886).                              *)
ContainerImageKept ==
    \A c \in Containers : state[c] # "absent" => img[c] \in store

(* Removal is for plain, unpinned containers: never for those of another    *)
(* registry, for swarm tasks, nor for a pinned reference, whose image may   *)
(* have been pruned and pulled again in between (reconciler.go:196,         *)
(* docker.go:416, operations.md:55).                                        *)
ProtectedNeverRemoved ==
    \A c \in Foreign \cup Managed \cup pinned :
        lost[c] = NoImage

(* Seen from the containers, the calls of a tick are the turns, replacements *)
(* and reports of Upkeep, whatever happens between two of them: nothing is   *)
(* removed in a dry run or for a foreign container or a task, a removal ends *)
(* with the container running or its loss reported, every listed container   *)
(* has its turn unless a call fails, and no image goes that a container was  *)
(* created from (reconciler.go:112-440, docker.go:436-702, 883-886).          *)
Stage ==
    CASE pc = "list"   -> "idle"
      [] pc = "next"   -> "counted"
      [] pc = "create" -> "removed"
      [] pc = "start"  -> "created"
      [] pc \in {"notify", "resolve", "clean"} -> "done"
      [] OTHER         -> "open"

Promise == INSTANCE Upkeep WITH
    runs <- img, due <- todo, turn <- cur, stage <- Stage,
    report <- outcome, troubles <- faults

ImplementsUpkeep == Promise!Spec

(* The running container of a moved tag is brought onto the image the tag   *)
(* names, or it stops running.                                              *)
Behind(c) == state[c] = "running" /\ img[c] # regTag[Ref[c]]

Converges ==
    \A c \in Containers \ (Foreign \cup Managed \cup Pinned) :
        Behind(c) ~> ~Behind(c)

(* "a failed recreation never costs you the image you were running"         *)
(* (docs/operations.md:69-70): the image of a container that was removed    *)
(* and not replaced is not cleaned up.                                      *)
FailedRecreateKeepsImage ==
    [][\A x \in Images, c \in Containers :
          RemoveImage(x) /\ x \in store \ store' => lost[c] # x]_vars

(* "respects `docker stop` / `docker rm` intent" (reconciler.go:157): a      *)
(* container that its operator stopped is not started again.                *)
StoppedStaysStopped ==
    \A c \in Containers :
        [](state[c] = "exited" => [](state[c] # "running"))

(* "Digest-pinned references (`repo@sha256:...`) resolve to themselves and   *)
(* therefore never trigger updates" (docs/operations.md:54-55).  Violated    *)
(* for an image whose local ID is not its registry digest: "the registry     *)
(* digest is a different kind of digest for multi-platform images"           *)
(* (reconciler.go:402-404).                                                  *)
PinnedNeverUpdated == [][image[cur] = "pinned" => pc' # "pull"]_vars

(* "attempting service update": a refusal to recreate a swarm task leads to *)
(* an update of its service (reconciler.go:349-353).                        *)
RefusalTriesService == [][RecreateRefused => pc' = "service"]_vars

=============================================================================
