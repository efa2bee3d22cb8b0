-------------------------- MODULE Reconciler_proofs --------------------------
(***************************************************************************)
(* Proofs about Reconciler, for any containers, tags and images, with or    *)
(* without dry run, cleanup, criteria, swarm tasks and pins, and any bounds. *)
(***************************************************************************)
EXTENDS Reconciler, TLAPS

(* Steps that change nothing but what comes next, how the container is      *)
(* counted and the number of faults.                                        *)
Quiet ==
    \/ ListFails
    \/ ImageMissing \/ HealRefused \/ LookupRefused \/ PullUnauthorized
    \/ InspectContainer \/ IsSwarmMode \/ UpdateService \/ ServiceFails
    \/ InspectForRecreate \/ RecreateRefused \/ AlreadyRemoved \/ NoSuchImage
    \/ Notify \/ CleanupDone
    \/ CallFails(FatalCalls)

(* The calls that lead from one to another in a quiet step. *)
Leads ==
    {<<"digest", "heal">>, <<"pull", "retry">>, <<"inspect", "swarm">>,
     <<"swarm", "recreate">>, <<"swarm", "service">>, <<"service", "recreate">>,
     <<"service", "notify">>, <<"recreate", "pull again">>, <<"notify", "resolve">>}

Forgotten == EndOfTick \/ Crash

LEMMA NextCases ==
    ASSUME Next
    PROVE  \/ Quiet
           \/ Forgotten
           \/ ListContainers
           \/ \E c \in Containers :
                 NextContainer(c) \/ UserTakesAway(c) \/ TaskReplaced(c)
           \/ GetImageDigest \/ HealPull \/ GetLatestDigest
           \/ PullImage \/ PullAgain
           \/ ContainerRemove \/ ContainerCreate \/ ContainerStart
           \/ ResolveKept
           \/ \E x \in Images : RemoveImage(x) \/ RemoveImageFails(x) \/ Prune(x)
           \/ \E t \in Tags, x \in Images : Push(t, x)
  BY DEF Next, Tick, Trouble, Environment, Quiet, Forgotten

(* The wrapped error is not the error it wraps. *)
LEMMA WrappedIsAnother == ~IsManagedError(Wrapped(ErrContainerManagedBySwarm))
  BY DEF IsManagedError, Wrapped, ErrContainerManagedBySwarm

LEMMA QuietKeeps ==
    ASSUME Quiet
    PROVE  ProcUnchanged
  BY WrappedIsAnother
  DEF Quiet, ListFails, ImageMissing, HealRefused, LookupRefused,
      PullUnauthorized, InspectContainer, IsSwarmMode, UpdateService,
      ServiceFails, InspectForRecreate, RecreateRefused, AlreadyRemoved,
      NoSuchImage, Notify, CleanupDone, CallFails, Goto, CountAs, ProcUnchanged

(* What a quiet step leaves behind: the container is counted, or a call is   *)
(* next that follows the latest one.                                         *)
Counted ==
    /\ pc \notin {"list", "next"}
    /\ pc' = "next"
    /\ \/ outcome' \in {"failed", "skipped"}
       \/ outcome' = "updated" /\ pc \in {"notify", "clean"}
    /\ pc \in {"create", "start"} => outcome' = "failed"
    /\ pc \in {"notify", "resolve", "clean"} => outcome' = "updated"

Followed ==
    /\ \/ Counted
       \/ pc = "list" /\ pc' = pc /\ outcome' = outcome
       \/ <<pc, pc'>> \in Leads /\ outcome' = outcome
    /\ pc' \in {"resolve", "pull again"} => cur \notin Managed
    /\ pc' = "resolve" => CleanupOldImages
    /\ pc' = "notify" => cur \in Managed /\ faults' = faults
    /\ faults' = faults \/ Fault

LEMMA QuietLeads ==
    ASSUME Quiet
    PROVE  Followed
<1> USE DEF Followed, Counted, Leads, Goto, CountAs, Count
<1>1. ASSUME ListFails PROVE Followed
  BY <1>1 DEF ListFails
<1>2. ASSUME ImageMissing PROVE Followed
  BY <1>2 DEF ImageMissing
<1>3. ASSUME HealRefused \/ LookupRefused \/ PullUnauthorized PROVE Followed
  BY <1>3 DEF HealRefused, LookupRefused, PullUnauthorized
<1>4. ASSUME InspectContainer \/ IsSwarmMode PROVE Followed
  BY <1>4 DEF InspectContainer, IsSwarmMode
<1>5. ASSUME UpdateService \/ ServiceFails PROVE Followed
  BY <1>5 DEF UpdateService, ServiceFails, NoServiceID
<1>6. ASSUME InspectForRecreate PROVE Followed
  BY <1>6 DEF InspectForRecreate
<1>7. ASSUME RecreateRefused PROVE Followed
  BY <1>7, WrappedIsAnother DEF RecreateRefused
<1>8. ASSUME AlreadyRemoved \/ NoSuchImage PROVE Followed
  BY <1>8 DEF AlreadyRemoved, NoSuchImage
<1>9. ASSUME Notify \/ CleanupDone PROVE Followed
  BY <1>9 DEF Notify, CleanupDone, RecreatedLocally
<1>10. ASSUME CallFails(FatalCalls) PROVE Followed
  BY <1>10 DEF CallFails, FatalCalls
<1> QED
  BY <1>1, <1>2, <1>3, <1>4, <1>5, <1>6, <1>7, <1>8, <1>9, <1>10 DEF Quiet

-----------------------------------------------------------------------------
(* Type correctness. *)

LEMMA ConstantsTyped ==
    /\ MaxPushes \in Nat /\ MaxFaults \in Nat /\ MaxUserActions \in Nat
    /\ Ref \in [Containers -> Tags]
    /\ CriteriaTag \in Tags \cup {NoTag}
    /\ NoImage \notin Images
    /\ NotYet \in Containers
  BY ReconcilerAssumption DEF ReconcilerAssumption, NotYet

LEMMA ResolvedTyped == TypeOK => Resolved \in Maybe
  BY ConstantsTyped DEF TypeOK, Resolved, Maybe

LEMMA SelectedTyped == TypeOK => Selected(cur) \in Images
  BY ConstantsTyped DEF TypeOK, Selected, SelectedTag

(* TypeOK in four parts. *)
DaemonTyped ==
    /\ regTag \in [Tags -> Images]
    /\ localTag \in [Tags -> Maybe]
    /\ store \subseteq Images
    /\ state \in [Containers -> {"running", "exited", "created", "absent"}]
    /\ img \in [Containers -> Images]
    /\ pinned \subseteq Pinned
    /\ pin \in [Containers -> Images]

ProcTyped ==
    /\ todo \subseteq Containers
    /\ cur \in Containers
    /\ imageID \in [Containers -> Maybe]
    /\ image \in [Containers -> {"tag", "pinned", "raw"}]
    /\ digest \in Maybe
    /\ latest \in Maybe
    /\ fallback \in BOOLEAN
    /\ drop \subseteq Images
    /\ named \subseteq Images
    /\ lost \in [Containers -> Maybe]

ControlTyped == pc \in Calls /\ outcome \in Outcomes

BudgetTyped ==
    /\ pushes \in 0 .. MaxPushes
    /\ faults \in 0 .. MaxFaults
    /\ userActions \in 0 .. MaxUserActions

LEMMA TypeParts ==
    TypeOK <=> DaemonTyped /\ ProcTyped /\ ControlTyped /\ BudgetTyped
  BY DEF TypeOK, DaemonTyped, ProcTyped, ControlTyped, BudgetTyped

LEMMA InitTyped == Init => TypeOK
<1> SUFFICES ASSUME Init
             PROVE  DaemonTyped /\ ProcTyped /\ ControlTyped /\ BudgetTyped
  BY TypeParts
<1> USE ConstantsTyped DEF Init
<1>1. DaemonTyped
  BY DEF DaemonTyped, Maybe
<1>2. ProcTyped
  BY DEF ProcTyped, Maybe
<1>3. ControlTyped
  BY DEF ControlTyped, Calls, Outcomes
<1>4. BudgetTyped
  BY DEF BudgetTyped
<1> QED
  BY <1>1, <1>2, <1>3, <1>4

LEMMA StepDaemonTyped ==
    ASSUME TypeOK, Next
    PROVE  DaemonTyped'
<1> DaemonTyped
  BY TypeParts
<1> USE ConstantsTyped DEF DaemonTyped, daemonVars, Maybe
<1>1. ASSUME Quiet PROVE DaemonTyped'
  BY <1>1, QuietKeeps DEF ProcUnchanged
<1>2. ASSUME Forgotten \/ ListContainers PROVE DaemonTyped'
  BY <1>2 DEF Forgotten, EndOfTick, Crash, Forget, ListContainers
<1>3. ASSUME NEW c \in Containers, NextContainer(c) PROVE DaemonTyped'
  BY <1>3 DEF NextContainer
<1>4. ASSUME NEW c \in Containers, UserTakesAway(c) PROVE DaemonTyped'
  <2>1. PICK s \in {"exited", "absent"} : state' = [state EXCEPT ![c] = s]
    BY <1>4 DEF UserTakesAway
  <2> QED BY <1>4, <2>1 DEF UserTakesAway
<1>5. ASSUME NEW c \in Containers, TaskReplaced(c) PROVE DaemonTyped'
  <2>1. Ref[c] \in Tags /\ regTag[Ref[c]] \in Images
    OBVIOUS
  <2> QED BY <1>5, <2>1 DEF TaskReplaced
<1>6. ASSUME GetImageDigest \/ GetLatestDigest \/ ResolveKept PROVE DaemonTyped'
  BY <1>6 DEF GetImageDigest, GetLatestDigest, ResolveKept
<1>7. cur \in Containers /\ Ref[cur] \in Tags /\ regTag[Ref[cur]] \in Images
  BY TypeParts DEF ProcTyped
<1>8. ASSUME HealPull \/ PullImage \/ PullAgain PROVE DaemonTyped'
  <2>1. CASE UNCHANGED localTag /\ Pulled(pin[cur])
    BY <1>7, <1>8, <2>1 DEF HealPull, PullImage, PullAgain, Pulled
  <2>2. CASE PulledTag(Ref[cur])
    BY <1>7, <1>8, <2>2 DEF HealPull, PullImage, PullAgain, PulledTag, Pulled
  <2> QED BY <1>8, <2>1, <2>2 DEF HealPull, PullImage, PullAgain
<1>9. ASSUME ContainerRemove \/ ContainerStart PROVE DaemonTyped'
  BY <1>7, <1>9 DEF ContainerRemove, ContainerStart
<1>10. ASSUME ContainerCreate PROVE DaemonTyped'
  BY <1>7, <1>10 DEF ContainerCreate
<1>11. ASSUME NEW x \in Images, RemoveImageFails(x) PROVE DaemonTyped'
  BY <1>11 DEF RemoveImageFails
<1>12. ASSUME NEW x \in Images, RemoveImage(x) \/ Prune(x) PROVE DaemonTyped'
  <2>1. CASE UNCHANGED <<store, localTag>>
    BY <1>12, <2>1 DEF RemoveImage, Prune
  <2>2. CASE Untag(x)
    BY <1>12, <2>2 DEF RemoveImage, Prune, Untag
  <2> QED BY <1>12, <2>1, <2>2 DEF RemoveImage, Prune
<1>13. ASSUME NEW t \in Tags, NEW x \in Images, Push(t, x) PROVE DaemonTyped'
  BY <1>13 DEF Push
<1> QED
  BY <1>1, <1>2, <1>3, <1>4, <1>5, <1>6, <1>8, <1>9, <1>10, <1>11, <1>12, <1>13,
     NextCases

LEMMA StepProcTyped ==
    ASSUME TypeOK, Next
    PROVE  ProcTyped'
<1> ProcTyped /\ DaemonTyped
  BY TypeParts
<1> USE ConstantsTyped DEF ProcTyped, procVars, histVars, Maybe
<1>1. ASSUME Quiet PROVE ProcTyped'
  BY <1>1, QuietKeeps DEF ProcUnchanged
<1>2. ASSUME Forgotten PROVE ProcTyped'
  BY <1>2 DEF Forgotten, EndOfTick, Crash, Forget
<1>3. ASSUME ListContainers PROVE ProcTyped'
  <2>1. imageID' \in [Containers -> Maybe]
    BY <1>3 DEF ListContainers, DaemonTyped
  <2>2. image' \in [Containers -> {"tag", "pinned", "raw"}]
    BY <1>3 DEF ListContainers
  <2>3. todo' \subseteq Containers
    BY <1>3 DEF ListContainers, Running
  <2> QED BY <1>3, <2>1, <2>2, <2>3 DEF ListContainers
<1>4. ASSUME NEW c \in Containers, NextContainer(c) PROVE ProcTyped'
  BY <1>4 DEF NextContainer
<1>5. ASSUME NEW c \in Containers, UserTakesAway(c) \/ TaskReplaced(c)
      PROVE  ProcTyped'
  BY <1>5 DEF UserTakesAway, TaskReplaced
<1>6. ASSUME GetImageDigest PROVE ProcTyped'
  BY <1>6, ResolvedTyped DEF GetImageDigest
<1>7. ASSUME GetLatestDigest PROVE ProcTyped'
  BY <1>7, SelectedTyped DEF GetLatestDigest
<1>8. ASSUME HealPull \/ PullImage \/ PullAgain \/ ContainerCreate PROVE ProcTyped'
  BY <1>8 DEF HealPull, PullImage, PullAgain, ContainerCreate
<1>9. ASSUME ContainerRemove \/ ContainerStart PROVE ProcTyped'
  BY <1>9 DEF ContainerRemove, ContainerStart, DaemonTyped
<1>10. ASSUME ResolveKept PROVE ProcTyped'
  <2>1. Candidates \subseteq Images
    BY DEF Candidates
  <2>2. drop' \subseteq Candidates
    BY <1>10 DEF ResolveKept
  <2> QED BY <1>10, <2>1, <2>2 DEF ResolveKept
<1>11. ASSUME NEW x \in Images, RemoveImage(x) \/ RemoveImageFails(x) \/ Prune(x)
       PROVE  ProcTyped'
  BY <1>11 DEF RemoveImage, RemoveImageFails, Prune
<1>12. ASSUME NEW t \in Tags, NEW x \in Images, Push(t, x) PROVE ProcTyped'
  BY <1>12 DEF Push
<1> QED
  BY <1>1, <1>2, <1>3, <1>4, <1>5, <1>6, <1>7, <1>8, <1>9, <1>10, <1>11, <1>12,
     NextCases

LEMMA StepControlTyped ==
    ASSUME TypeOK, Next
    PROVE  ControlTyped'
<1> ControlTyped
  BY TypeParts
<1> USE DEF ControlTyped, Calls, Outcomes
<1>1. ASSUME Quiet PROVE ControlTyped'
  BY <1>1, QuietLeads DEF Followed, Counted, Leads
<1>2. ASSUME Forgotten \/ ListContainers PROVE ControlTyped'
  BY <1>2 DEF Forgotten, EndOfTick, Crash, Forget, ListContainers
<1>3. ASSUME NEW c \in Containers,
             NextContainer(c) \/ UserTakesAway(c) \/ TaskReplaced(c)
      PROVE  ControlTyped'
  BY <1>3 DEF NextContainer, UserTakesAway, TaskReplaced
<1>4. ASSUME GetImageDigest \/ HealPull \/ GetLatestDigest PROVE ControlTyped'
  BY <1>4 DEF GetImageDigest, HealPull, GetLatestDigest, Count
<1>5. ASSUME PullImage \/ PullAgain PROVE ControlTyped'
  BY <1>5 DEF PullImage, PullAgain
<1>6. ASSUME ContainerRemove \/ ContainerCreate \/ ContainerStart \/ ResolveKept
      PROVE  ControlTyped'
  BY <1>6 DEF ContainerRemove, ContainerCreate, ContainerStart, ResolveKept
<1>7. ASSUME NEW x \in Images, RemoveImage(x) \/ RemoveImageFails(x) \/ Prune(x)
       PROVE  ControlTyped'
  BY <1>7 DEF RemoveImage, RemoveImageFails, Prune
<1>8. ASSUME NEW t \in Tags, NEW x \in Images, Push(t, x) PROVE ControlTyped'
  BY <1>8 DEF Push
<1> QED
  BY <1>1, <1>2, <1>3, <1>4, <1>5, <1>6, <1>7, <1>8, NextCases

(* What a step may spend. *)
Spends ==
    /\ \/ pushes' = pushes
       \/ pushes < MaxPushes /\ pushes' = pushes + 1
    /\ \/ faults' = faults
       \/ faults < MaxFaults /\ faults' = faults + 1
    /\ \/ userActions' = userActions
       \/ userActions < MaxUserActions /\ userActions' = userActions + 1

LEMMA StepSpends ==
    ASSUME Next
    PROVE  Spends
<1> USE DEF Spends, Fault, budgetVars
<1>1. ASSUME Quiet PROVE Spends
  BY <1>1, QuietKeeps, QuietLeads DEF ProcUnchanged, Followed
<1>2. ASSUME Forgotten \/ ListContainers PROVE Spends
  BY <1>2 DEF Forgotten, EndOfTick, Crash, Forget, ListContainers
<1>3. ASSUME NEW c \in Containers,
             NextContainer(c) \/ UserTakesAway(c) \/ TaskReplaced(c)
      PROVE  Spends
  BY <1>3 DEF NextContainer, UserTakesAway, TaskReplaced
<1>4. ASSUME GetImageDigest \/ HealPull \/ GetLatestDigest PROVE Spends
  BY <1>4 DEF GetImageDigest, HealPull, GetLatestDigest
<1>5. ASSUME PullImage \/ PullAgain PROVE Spends
  BY <1>5 DEF PullImage, PullAgain
<1>6. ASSUME ContainerRemove \/ ContainerCreate \/ ContainerStart \/ ResolveKept
      PROVE  Spends
  BY <1>6 DEF ContainerRemove, ContainerCreate, ContainerStart, ResolveKept
<1>7. ASSUME NEW x \in Images, RemoveImage(x) \/ RemoveImageFails(x) \/ Prune(x)
       PROVE  Spends
  BY <1>7 DEF RemoveImage, RemoveImageFails, Prune
<1>8. ASSUME NEW t \in Tags, NEW x \in Images, Push(t, x) PROVE Spends
  BY <1>8 DEF Push
<1> QED
  BY <1>1, <1>2, <1>3, <1>4, <1>5, <1>6, <1>7, <1>8, NextCases

LEMMA StepTyped ==
    ASSUME TypeOK, [Next]_vars
    PROVE  TypeOK'
<1>1. ASSUME Next PROVE BudgetTyped'
  BY <1>1, StepSpends, TypeParts, ConstantsTyped DEF Spends, BudgetTyped
<1>2. CASE Next
  BY <1>1, <1>2, StepDaemonTyped, StepProcTyped, StepControlTyped, TypeParts
  DEF TypeOK, DaemonTyped, ProcTyped, ControlTyped, BudgetTyped
<1>3. CASE UNCHANGED vars
  BY <1>3 DEF vars, TypeOK, daemonVars, procVars, histVars, budgetVars
<1> QED
  BY <1>2, <1>3

(* Every reachable state is well typed. *)
THEOREM TypeCorrect == Spec => []TypeOK
  BY InitTyped, StepTyped, PTL DEF Spec

-----------------------------------------------------------------------------
(***************************************************************************)
(* The image of a container stays on the daemon: what a container can be     *)
(* created from is what a local tag names, and no tag names an image that is *)
(* not there.                                                                *)
(***************************************************************************)

TagsStored == \A t \in Tags : localTag[t] # NoImage => localTag[t] \in store

(* The container about to be started is the one just created. *)
CreatedAtStart == pc = "start" => state[cur] = "created"

ImageInv == TypeOK /\ TagsStored /\ CreatedAtStart /\ ContainerImageKept

LEMMA InitImageInv == Init => ImageInv
<1> SUFFICES ASSUME Init PROVE ImageInv
  OBVIOUS
<1>1. TypeOK
  BY InitTyped
<1> QED
  BY <1>1, ConstantsTyped
  DEF Init, ImageInv, TagsStored, CreatedAtStart, ContainerImageKept

LEMMA StepImageInv ==
    ASSUME ImageInv, [Next]_vars
    PROVE  ImageInv'
<1> DEFINE Kept3 == TagsStored /\ CreatedAtStart /\ ContainerImageKept
<1> Kept3 /\ DaemonTyped /\ ProcTyped
  BY TypeParts DEF ImageInv
<1> TypeOK'
  BY StepTyped DEF ImageInv
<1> SUFFICES Kept3'
  BY DEF ImageInv
<1> USE ConstantsTyped
    DEF TagsStored, CreatedAtStart, ContainerImageKept, daemonVars, procVars
<1>0. cur \in Containers /\ Ref[cur] \in Tags /\ regTag[Ref[cur]] \in Images
  BY DEF ProcTyped, DaemonTyped
<1>1. ASSUME Quiet PROVE Kept3'
  BY <1>1, QuietKeeps, QuietLeads DEF ProcUnchanged, Followed, Counted, Leads
<1>2. ASSUME Forgotten \/ ListContainers PROVE Kept3'
  BY <1>2 DEF Forgotten, EndOfTick, Crash, Forget, ListContainers
<1>3. ASSUME NEW c \in Containers, NextContainer(c) PROVE Kept3'
  BY <1>3 DEF NextContainer
<1>4. ASSUME NEW c \in Containers, UserTakesAway(c) PROVE Kept3'
  <2>1. PICK s \in {"exited", "absent"} : state' = [state EXCEPT ![c] = s]
    BY <1>4 DEF UserTakesAway
  <2> QED BY <1>4, <2>1 DEF UserTakesAway, DaemonTyped
<1>5. ASSUME NEW c \in Containers, TaskReplaced(c) PROVE Kept3'
  <2>1. Ref[c] \in Tags /\ regTag[Ref[c]] \in Images
    BY DEF DaemonTyped
  <2> QED BY <1>5, <2>1 DEF TaskReplaced, DaemonTyped
<1>6. ASSUME GetImageDigest \/ GetLatestDigest \/ ResolveKept PROVE Kept3'
  BY <1>6 DEF GetImageDigest, GetLatestDigest, ResolveKept, Count
<1>7. ASSUME HealPull \/ PullImage \/ PullAgain PROVE Kept3'
  <2>1. CASE UNCHANGED localTag /\ Pulled(pin[cur])
    BY <1>7, <2>1 DEF HealPull, PullImage, PullAgain, Pulled
  <2>2. CASE PulledTag(Ref[cur])
    BY <1>0, <1>7, <2>2
    DEF HealPull, PullImage, PullAgain, PulledTag, Pulled, DaemonTyped
  <2> QED BY <1>7, <2>1, <2>2 DEF HealPull, PullImage, PullAgain
<1>8. ASSUME ContainerRemove \/ ContainerStart PROVE Kept3'
  BY <1>0, <1>8 DEF ContainerRemove, ContainerStart, DaemonTyped
<1>9. ASSUME ContainerCreate PROVE Kept3'
  BY <1>0, <1>9 DEF ContainerCreate, DaemonTyped
<1>10. ASSUME NEW x \in Images, RemoveImageFails(x) PROVE Kept3'
  BY <1>10 DEF RemoveImageFails
<1>11. ASSUME NEW x \in Images, RemoveImage(x) \/ Prune(x) PROVE Kept3'
  <2>1. CASE UNCHANGED <<store, localTag>>
    BY <1>11, <2>1 DEF RemoveImage, Prune
  <2>2. CASE Untag(x) /\ ~InUse(x)
    BY <1>11, <2>2 DEF RemoveImage, Prune, Untag, InUse, DaemonTyped
  <2> QED BY <1>11, <2>1, <2>2 DEF RemoveImage, Prune
<1>12. ASSUME NEW t \in Tags, NEW x \in Images, Push(t, x) PROVE Kept3'
  BY <1>12 DEF Push
<1>13. CASE UNCHANGED vars
  BY <1>13 DEF vars
<1> QED
  BY <1>1, <1>2, <1>3, <1>4, <1>5, <1>6, <1>7, <1>8, <1>9, <1>10, <1>11, <1>12,
     <1>13, NextCases

(* The image of a container that exists is never removed, neither by the     *)
(* cleanup after an update nor by a prune. (RemoveImage, docker.go:883-886.) *)
THEOREM ImageKeptHolds == Spec => []ContainerImageKept
<1>1. Spec => []ImageInv
  BY InitImageInv, StepImageInv, PTL DEF Spec
<1>2. ImageInv => ContainerImageKept
  BY DEF ImageInv
<1> QED BY <1>1, <1>2, PTL

-----------------------------------------------------------------------------
(***************************************************************************)
(* A loss is reported: only the container being looked at is removed, it is  *)
(* no longer on the list, and every way out of its removal but the start of  *)
(* the replacement counts it as failed.                                      *)
(***************************************************************************)

TakenOffList == pc \notin {"list", "next"} => cur \notin todo

LossCounted ==
    \A c \in Containers : lost[c] # NoImage =>
        /\ c \notin todo
        /\ pc # "list"
        /\ c = cur => \/ pc \in {"create", "start"}
                      \/ pc = "next" /\ outcome = "failed"

LossInv == TypeOK /\ TakenOffList /\ LossCounted

LEMMA InitLossInv == Init => LossInv
<1> SUFFICES ASSUME Init PROVE LossInv
  OBVIOUS
<1>1. TypeOK
  BY InitTyped
<1> QED
  BY <1>1 DEF Init, LossInv, TakenOffList, LossCounted

LEMMA StepLossInv ==
    ASSUME LossInv, [Next]_vars
    PROVE  LossInv'
<1> DEFINE Reported == TakenOffList /\ LossCounted
<1> Reported /\ DaemonTyped /\ ProcTyped
  BY TypeParts DEF LossInv
<1> TypeOK'
  BY StepTyped DEF LossInv
<1> SUFFICES Reported'
  BY DEF LossInv
<1> USE DEF TakenOffList, LossCounted, procVars, histVars
<1>0. cur \in Containers
  BY DEF ProcTyped
<1>1. ASSUME Quiet PROVE Reported'
  BY <1>1, QuietKeeps, QuietLeads DEF ProcUnchanged, Followed, Counted, Leads
<1>2. ASSUME Forgotten PROVE Reported'
  BY <1>2 DEF Forgotten, EndOfTick, Crash, Forget
<1>3. ASSUME ListContainers PROVE Reported'
  BY <1>3 DEF ListContainers
<1>4. ASSUME NEW c \in Containers, NextContainer(c) PROVE Reported'
  BY <1>4 DEF NextContainer, ProcTyped
<1>5. ASSUME NEW c \in Containers, UserTakesAway(c) \/ TaskReplaced(c)
      PROVE  Reported'
  BY <1>5 DEF UserTakesAway, TaskReplaced
<1>6. ASSUME GetImageDigest \/ GetLatestDigest \/ ResolveKept PROVE Reported'
  BY <1>0, <1>6 DEF GetImageDigest, GetLatestDigest, ResolveKept, Count
<1>7. ASSUME HealPull \/ PullImage \/ PullAgain PROVE Reported'
  BY <1>0, <1>7 DEF HealPull, PullImage, PullAgain
<1>8. ASSUME ContainerRemove \/ ContainerCreate \/ ContainerStart PROVE Reported'
  BY <1>0, <1>8
  DEF ContainerRemove, ContainerCreate, ContainerStart, DaemonTyped, ProcTyped
<1>9. ASSUME NEW x \in Images, RemoveImage(x) \/ RemoveImageFails(x) \/ Prune(x)
      PROVE  Reported'
  BY <1>9 DEF RemoveImage, RemoveImageFails, Prune
<1>10. ASSUME NEW t \in Tags, NEW x \in Images, Push(t, x) PROVE Reported'
  BY <1>10 DEF Push
<1>11. CASE UNCHANGED vars
  BY <1>11 DEF vars
<1> QED
  BY <1>1, <1>2, <1>3, <1>4, <1>5, <1>6, <1>7, <1>8, <1>9, <1>10, <1>11, NextCases

(* A container the tick has removed and not replaced is being replaced or    *)
(* counted as failed. (RecreateContainer, reconciler.go:373-375.)            *)
THEOREM LossReportedHolds == Spec => []LossReported
<1>1. Spec => []LossInv
  BY InitLossInv, StepLossInv, PTL DEF Spec
<1>2. LossInv => LossReported
  BY TypeParts DEF LossInv, LossCounted, LossReported, ProcTyped
<1> QED BY <1>1, <1>2, PTL

-----------------------------------------------------------------------------
(***************************************************************************)
(* Only plain containers are removed.  A pinned one is up to date by itself, *)
(* provided the provider looks its digest up and the daemon reports the same *)
(* kind of digest; a task gets past the examination but not past the refusal *)
(* of RecreateContainer.                                                     *)
(***************************************************************************)

PinsCompare ==
    \/ Pinned = {}
    \/ CriteriaTag = NoTag /\ ~PinStripped /\ MultiPlatform = {}

Examined == {"pull", "retry", "inspect", "swarm", "service", "recreate",
             "pull again", "remove", "create", "start", "notify", "resolve",
             "clean"}

Replacing == {"pull again", "remove", "create", "start"}

(* Listed, and still to be looked at or being looked at. *)
AtHand(c) == c \in todo \/ (c = cur /\ pc \notin {"list", "next"})

PinsListed ==
    \A c \in Containers : AtHand(c) => (image[c] = "pinned" <=> c \in pinned)

PinsRun == \A c \in pinned \ Managed : pin[c] = img[c]

(* What was listed is what runs, up to the replacement. *)
RunsListed ==
    \A c \in Containers \ Managed :
        AtHand(c) /\ (c = cur => pc \notin Examined) /\ imageID[c] # NoImage
            => imageID[c] = img[c]

PinResolved == pc = "lookup" /\ image[cur] = "pinned" => digest = pin[cur]

OnlyPlain ==
    /\ pc \in Examined => cur \notin Foreign /\ cur \notin pinned \ Managed
    /\ pc \in Replacing => cur \notin Managed

PlainInv ==
    /\ TypeOK
    /\ TakenOffList
    /\ PinsListed /\ PinsRun /\ RunsListed /\ PinResolved
    /\ OnlyPlain
    /\ ProtectedNeverRemoved

LEMMA InitPlainInv == Init => PlainInv
<1> SUFFICES ASSUME Init PROVE PlainInv
  OBVIOUS
<1>1. TypeOK
  BY InitTyped
<1>2. ProtectedNeverRemoved
  BY ReconcilerAssumption DEF Init, ProtectedNeverRemoved
<1>3. PinsRun
  BY DEF Init, PinsRun
<1> QED
  BY <1>1, <1>2, <1>3
  DEF Init, PlainInv, TakenOffList, PinsListed, RunsListed, PinResolved,
      OnlyPlain, AtHand, Examined, Replacing

(* A pinned container that is no task is up to date whenever it is looked up. *)
LEMMA PinnedUpToDate ==
    ASSUME PlainInv, PinsCompare, GetLatestDigest, cur \in pinned \ Managed
    PROVE  UpToDate(Selected(cur))
<1> cur \in Containers /\ pinned \subseteq Pinned
  BY DEF PlainInv, TypeOK
<1>1. CriteriaTag = NoTag /\ ~PinStripped /\ MultiPlatform = {}
  BY DEF PinsCompare
<1>2. AtHand(cur) /\ pc = "lookup"
  BY DEF AtHand, GetLatestDigest
<1>3. image[cur] = "pinned"
  BY <1>2 DEF PlainInv, PinsListed
<1>4. Selected(cur) = pin[cur] /\ digest = pin[cur]
  BY <1>1, <1>2, <1>3 DEF Selected, PlainInv, PinResolved
<1>5. imageID[cur] = NoImage \/ imageID[cur] = pin[cur]
  BY <1>2 DEF PlainInv, PinsRun, RunsListed, Examined
<1> QED
  BY <1>1, <1>4, <1>5 DEF UpToDate, SameDigest

LEMMA StepPlainInv ==
    ASSUME PinsCompare, PlainInv, [Next]_vars
    PROVE  PlainInv'
<1> DEFINE Pins == PinsListed /\ PinsRun /\ RunsListed /\ PinResolved
<1> DEFINE Plain == TakenOffList /\ Pins /\ OnlyPlain /\ ProtectedNeverRemoved
<1> Plain /\ DaemonTyped /\ ProcTyped
  BY TypeParts DEF PlainInv
<1> TypeOK'
  BY StepTyped DEF PlainInv
<1> SUFFICES Plain'
  BY DEF PlainInv
<1> USE DEF TakenOffList, PinsListed, PinsRun, RunsListed, PinResolved, OnlyPlain,
            AtHand, Examined, Replacing, ProtectedNeverRemoved,
            daemonVars, procVars, histVars
<1>0. cur \in Containers /\ Foreign \cup Managed \cup pinned \subseteq Containers
  BY ReconcilerAssumption DEF ProcTyped, DaemonTyped
<1>1. ASSUME Quiet PROVE Plain'
  <2>1. ASSUME pc' = "recreate" PROVE pc \in Examined
    BY <1>1, <2>1, QuietLeads DEF Followed, Counted, Leads
  <2> QED BY <1>1, QuietKeeps, QuietLeads
          DEF ProcUnchanged, Followed, Counted, Leads
<1>2. ASSUME Forgotten PROVE Plain'
  BY <1>0, <1>2 DEF Forgotten, EndOfTick, Crash, Forget
<1>3. ASSUME ListContainers PROVE Plain'
  BY <1>3 DEF ListContainers, DaemonTyped
<1>4. ASSUME NEW c \in Containers, NextContainer(c) PROVE Plain'
  BY <1>4 DEF NextContainer, ProcTyped
<1>5. ASSUME NEW c \in Containers, UserTakesAway(c) PROVE Plain'
  BY <1>5 DEF UserTakesAway
<1>6. ASSUME NEW c \in Containers, TaskReplaced(c) PROVE Plain'
  <2>1. \A d \in Containers \ Managed : img'[d] = img[d]
    BY <1>6 DEF TaskReplaced, DaemonTyped
  <2>2. UNCHANGED <<pc, procVars, pinned, pin, lost>>
    BY <1>6 DEF TaskReplaced
  <2>3. PinsRun' /\ RunsListed'
    BY <1>0, <2>1, <2>2
  <2> QED BY <2>2, <2>3
<1>7. ASSUME GetImageDigest PROVE Plain'
  <2>1. image[cur] = "pinned" => Resolved \in {pin[cur], NoImage}
    BY DEF Resolved
  <2> QED BY <1>0, <1>7, <2>1 DEF GetImageDigest
<1>8. ASSUME GetLatestDigest PROVE Plain'
  <2>1. cur \in pinned \ Managed => pc' = "next"
    BY <1>8, PinnedUpToDate DEF PlainInv, GetLatestDigest, Count
  <2> QED BY <1>0, <1>8, <2>1 DEF GetLatestDigest, Count
<1>9. ASSUME HealPull \/ PullImage \/ PullAgain PROVE Plain'
  BY <1>0, <1>9 DEF HealPull, PullImage, PullAgain
<1>10. ASSUME ContainerRemove PROVE Plain'
  BY <1>0, <1>10 DEF ContainerRemove, ProcTyped
<1>11. ASSUME ContainerCreate PROVE Plain'
  <2>1. pinned' = pinned
    BY <1>0, <1>11 DEF ContainerCreate
  <2> QED BY <1>0, <1>11, <2>1 DEF ContainerCreate, DaemonTyped
<1>12. ASSUME ContainerStart PROVE Plain'
  BY <1>0, <1>12 DEF ContainerStart, ProcTyped
<1>13. ASSUME ResolveKept PROVE Plain'
  BY <1>13 DEF ResolveKept
<1>14. ASSUME NEW x \in Images, RemoveImage(x) \/ RemoveImageFails(x) \/ Prune(x)
       PROVE  Plain'
  BY <1>14 DEF RemoveImage, RemoveImageFails, Prune
<1>15. ASSUME NEW t \in Tags, NEW x \in Images, Push(t, x) PROVE Plain'
  BY <1>15 DEF Push
<1>16. CASE UNCHANGED vars
  BY <1>16 DEF vars
<1> QED
  BY <1>1, <1>2, <1>3, <1>4, <1>5, <1>6, <1>7, <1>8, <1>9, <1>10, <1>11, <1>12,
     <1>13, <1>14, <1>15, <1>16, NextCases

(* Containers of another registry, tasks of a service and pinned containers  *)
(* are never removed, if digests of pins compare. (reconciler.go:196, 217,   *)
(* docker.go:416.)                                                           *)
THEOREM ProtectedHolds ==
    ASSUME PinsCompare
    PROVE  Spec => []ProtectedNeverRemoved
<1>1. Spec => []PlainInv
  <2>1. PlainInv /\ [Next]_vars => PlainInv'
    BY StepPlainInv
  <2> QED BY InitPlainInv, <2>1, PTL DEF Spec
<1>2. PlainInv => ProtectedNeverRemoved
  BY DEF PlainInv
<1> QED BY <1>1, <1>2, PTL

-----------------------------------------------------------------------------
(***************************************************************************)
(* What is counted: from the lookup on, `named` holds whatever the tag of    *)
(* the container names or has named; what is pulled, here or by anybody       *)
(* else, is of it, and so is what the replacement is created from.           *)
(***************************************************************************)

(* An outcome is there between two containers only. *)
OutcomeLast == pc # "next" => outcome = "none"

TagNamed == pc \in Examined /\ cur \notin Managed => regTag[Ref[cur]] \in named

LocalNamed ==
    pc \in {"remove", "create"} => localTag[Ref[cur]] \in named \cup {NoImage}

ReplacementNamed ==
    pc \in {"start", "notify", "resolve", "clean"} /\ cur \notin Managed
        => img[cur] \in named

CountInv ==
    /\ PlainInv
    /\ OutcomeLast /\ TagNamed /\ LocalNamed /\ ReplacementNamed
    /\ CountedRunsSelected

LEMMA InitCountInv == Init => CountInv
  BY InitPlainInv
  DEF Init, CountInv, OutcomeLast, TagNamed, LocalNamed, ReplacementNamed,
      CountedRunsSelected, Examined

LEMMA StepCountInv ==
    ASSUME PinsCompare, CriteriaTag = NoTag, CountInv, [Next]_vars
    PROVE  CountInv'
<1> DEFINE Known == OutcomeLast /\ TagNamed /\ LocalNamed
<1> DEFINE Runs == ReplacementNamed /\ CountedRunsSelected
<1> Known /\ Runs /\ PlainInv /\ DaemonTyped /\ ProcTyped
  BY TypeParts DEF CountInv, PlainInv
<1> PlainInv'
  BY StepPlainInv
<1> SUFFICES Known' /\ Runs'
  BY DEF CountInv
<1> USE DEF OutcomeLast, TagNamed, LocalNamed, ReplacementNamed,
            CountedRunsSelected, Examined, daemonVars, procVars, histVars
<1>0. cur \in Containers /\ Ref[cur] \in Tags /\ SelectedTag(cur) = Ref[cur]
  BY ConstantsTyped DEF ProcTyped, SelectedTag
<1>1. ASSUME Quiet PROVE Known' /\ Runs'
  <2>1. UNCHANGED <<regTag, localTag, img, cur, imageID, named>>
    BY <1>1, QuietKeeps DEF ProcUnchanged
  <2>2. Followed
    BY <1>1, QuietLeads
  <2>3. CASE Counted
    BY <2>1, <2>2, <2>3 DEF Counted
  <2>4. CASE pc' = pc /\ outcome' = outcome
    BY <2>1, <2>4
  <2>5. CASE <<pc, pc'>> \in Leads /\ outcome' = outcome
    BY <2>1, <2>2, <2>5 DEF Followed, Counted, Leads
  <2> QED BY <2>2, <2>3, <2>4, <2>5 DEF Followed
<1>2. ASSUME Forgotten PROVE Known' /\ Runs'
  BY <1>2 DEF Forgotten, EndOfTick, Crash, Forget
<1>3. ASSUME ListContainers PROVE Known' /\ Runs'
  BY <1>3 DEF ListContainers
<1>4. ASSUME NEW c \in Containers, NextContainer(c) PROVE Known' /\ Runs'
  BY <1>4 DEF NextContainer
<1>5. ASSUME NEW c \in Containers, UserTakesAway(c) PROVE Known' /\ Runs'
  BY <1>5 DEF UserTakesAway
<1>6. ASSUME NEW c \in Containers, TaskReplaced(c) PROVE Known' /\ Runs'
  <2>1. UNCHANGED <<pc, procVars, outcome, histVars, regTag>>
    BY <1>6 DEF TaskReplaced
  <2>2. cur \notin Managed => img'[cur] = img[cur]
    BY <1>0, <1>6 DEF TaskReplaced, DaemonTyped
  <2>3. localTag'[Ref[cur]] \in {localTag[Ref[cur]], regTag[Ref[cur]]}
    BY <1>0, <1>6, ConstantsTyped DEF TaskReplaced, DaemonTyped
  <2>4. pc \in {"remove", "create"} => regTag[Ref[cur]] \in named
    BY DEF PlainInv, OnlyPlain, Replacing
  <2> QED BY <2>1, <2>2, <2>3, <2>4
<1>7. ASSUME GetImageDigest PROVE Known' /\ Runs'
  BY <1>7 DEF GetImageDigest
<1>8. ASSUME GetLatestDigest PROVE Known' /\ Runs'
  <2>1. pc = "lookup" /\ AtHand(cur)
    BY <1>8 DEF GetLatestDigest, AtHand
  <2>2. ASSUME pc' = "pull", cur \notin Managed
        PROVE  Selected(cur) = regTag[Ref[cur]]
    <3>1. cur \notin pinned
      BY <1>8, <2>2 DEF PlainInv, OnlyPlain, GetLatestDigest
    <3> QED BY <1>0, <2>1, <3>1 DEF PlainInv, PinsListed, Selected
  <2>3. ASSUME outcome' = "up to date", cur \notin Managed, imageID[cur] # NoImage
        PROVE  Selected(cur) = img[cur]
    <3>1. imageID[cur] = img[cur]
      BY <1>0, <2>1, <2>3 DEF PlainInv, RunsListed
    <3>2. UpToDate(Selected(cur))
      BY <1>8, <2>1, <2>3 DEF GetLatestDigest, Count
    <3> QED BY <2>3, <3>1, <3>2 DEF UpToDate, SameDigest
  <2> QED BY <1>8, <2>1, <2>2, <2>3 DEF GetLatestDigest, Count
<1>9. ASSUME HealPull \/ PullImage PROVE Known' /\ Runs'
  BY <1>9 DEF HealPull, PullImage
<1>10. ASSUME PullAgain PROVE Known' /\ Runs'
  <2>1. localTag'[Ref[cur]] = regTag[Ref[cur]]
    BY <1>0, <1>10 DEF PullAgain, PulledTag, DaemonTyped
  <2>2. regTag[Ref[cur]] \in named
    BY <1>10 DEF PullAgain, PlainInv, OnlyPlain, Replacing
  <2> QED BY <1>10, <2>1, <2>2 DEF PullAgain
<1>11. ASSUME ContainerRemove PROVE Known' /\ Runs'
  BY <1>11 DEF ContainerRemove
<1>12. ASSUME ContainerCreate PROVE Known' /\ Runs'
  BY <1>0, <1>12 DEF ContainerCreate, DaemonTyped
<1>13. ASSUME ContainerStart \/ ResolveKept PROVE Known' /\ Runs'
  BY <1>13 DEF ContainerStart, ResolveKept
<1>14. ASSUME NEW x \in Images, RemoveImageFails(x) PROVE Known' /\ Runs'
  BY <1>14 DEF RemoveImageFails
<1>15. ASSUME NEW x \in Images, RemoveImage(x) \/ Prune(x) PROVE Known' /\ Runs'
  <2>1. UNCHANGED <<regTag, img, pc, cur, imageID, named, outcome>>
    BY <1>15 DEF RemoveImage, Prune
  <2>2. localTag'[Ref[cur]] \in {localTag[Ref[cur]], NoImage}
    BY <1>0, <1>15 DEF RemoveImage, Prune, Untag
  <2> QED BY <2>1, <2>2
<1>16. ASSUME NEW t \in Tags, NEW x \in Images, Push(t, x) PROVE Known' /\ Runs'
  <2>1. UNCHANGED <<localTag, img, pc, cur, imageID, outcome>>
    BY <1>16 DEF Push
  <2>2. named \subseteq named'
    BY <1>16 DEF Push
  <2>3. regTag[Ref[cur]] \in named => regTag'[Ref[cur]] \in named'
    BY <1>0, <1>16 DEF Push, DaemonTyped
  <2> QED BY <2>1, <2>2, <2>3
<1>17. CASE UNCHANGED vars
  BY <1>17 DEF vars
<1> QED
  BY <1>1, <1>2, <1>3, <1>4, <1>5, <1>6, <1>7, <1>8, <1>9, <1>10, <1>11, <1>12,
     <1>13, <1>14, <1>15, <1>16, <1>17, NextCases

(* What is counted as updated in place, or as up to date after it was        *)
(* inspected, runs an image its tag has named since the lookup: without      *)
(* criteria, and with digests of pins that compare. (reconciler.go:217, 253, *)
(* 417.)                                                                     *)
THEOREM CountedHolds ==
    ASSUME PinsCompare, CriteriaTag = NoTag
    PROVE  Spec => []CountedRunsSelected
<1>1. Spec => []CountInv
  <2>1. CountInv /\ [Next]_vars => CountInv'
    BY StepCountInv
  <2> QED BY InitCountInv, <2>1, PTL DEF Spec
<1>2. CountInv => CountedRunsSelected
  BY DEF CountInv
<1> QED BY <1>1, <1>2, PTL

-----------------------------------------------------------------------------
(***************************************************************************)
(* The tick implements Upkeep.  What a turn may do was settled by the lookup *)
(* and, for a task, by the refusal of RecreateContainer.                     *)
(***************************************************************************)

TurnSettled ==
    /\ pc \in Examined => cur \notin Foreign /\ ~DryRun
    /\ pc \in Replacing => cur \notin Managed
    /\ pc \in {"resolve", "clean"} => CleanupOldImages /\ cur \notin Managed

TurnInv == ImageInv /\ TurnSettled

LEMMA InitTurnInv == Init => TurnInv
  BY InitImageInv DEF Init, TurnInv, TurnSettled, Examined, Replacing

LEMMA StepTurnInv ==
    ASSUME TurnInv, [Next]_vars
    PROVE  TurnInv'
<1> ImageInv'
  BY StepImageInv DEF TurnInv
<1> TurnSettled
  BY DEF TurnInv
<1> SUFFICES TurnSettled'
  BY DEF TurnInv
<1> USE DEF TurnSettled, Examined, Replacing, procVars
<1>1. ASSUME Quiet PROVE TurnSettled'
  <2>1. cur' = cur
    BY <1>1, QuietKeeps DEF ProcUnchanged
  <2> QED BY <1>1, <2>1, QuietLeads DEF Followed, Counted, Leads
<1>2. ASSUME Forgotten \/ ListContainers PROVE TurnSettled'
  BY <1>2 DEF Forgotten, EndOfTick, Crash, Forget, ListContainers
<1>3. ASSUME NEW c \in Containers,
             NextContainer(c) \/ UserTakesAway(c) \/ TaskReplaced(c)
      PROVE  TurnSettled'
  BY <1>3 DEF NextContainer, UserTakesAway, TaskReplaced
<1>4. ASSUME GetImageDigest \/ GetLatestDigest \/ ResolveKept PROVE TurnSettled'
  BY <1>4 DEF GetImageDigest, GetLatestDigest, ResolveKept, Count
<1>5. ASSUME HealPull \/ PullImage \/ PullAgain PROVE TurnSettled'
  BY <1>5 DEF HealPull, PullImage, PullAgain
<1>6. ASSUME ContainerRemove \/ ContainerCreate \/ ContainerStart
      PROVE  TurnSettled'
  BY <1>6 DEF ContainerRemove, ContainerCreate, ContainerStart
<1>7. ASSUME NEW x \in Images, RemoveImage(x) \/ RemoveImageFails(x) \/ Prune(x)
      PROVE  TurnSettled'
  BY <1>7 DEF RemoveImage, RemoveImageFails, Prune
<1>8. ASSUME NEW t \in Tags, NEW x \in Images, Push(t, x) PROVE TurnSettled'
  BY <1>8 DEF Push
<1>9. CASE UNCHANGED vars
  BY <1>9 DEF vars
<1> QED
  BY <1>1, <1>2, <1>3, <1>4, <1>5, <1>6, <1>7, <1>8, <1>9, NextCases

LEMMA InitRefines == Init => Promise!Init
<1> SUFFICES ASSUME Init PROVE Promise!Init
  OBVIOUS
<1>1. DaemonTyped /\ cur \in Containers
  BY InitTyped, TypeParts DEF ProcTyped
<1>2. img \in [Containers -> Images] /\ store \in SUBSET Images
  BY <1>1 DEF DaemonTyped
<1>3. \A c \in Containers : img[c] \in store
  BY ConstantsTyped DEF Init
<1> QED
  BY <1>1, <1>2, <1>3 DEF Init, Promise!Init, Stage

(* A quiet step ends the turn, hands it to the service, or is not seen.      *)
LEMMA QuietRefines ==
    ASSUME TurnInv, Quiet
    PROVE  [Promise!Next]_(Promise!vars)
<1> pc \in Calls /\ Followed
  BY QuietLeads DEF TurnInv, ImageInv, TypeOK
<1>1. /\ UNCHANGED <<state, img, store, todo, cur>>
      /\ faults' \in {faults, faults + 1}
  BY QuietKeeps DEF ProcUnchanged, daemonVars, procVars, Followed, Fault
<1>2. CASE Counted
  <2>1. Promise!Say(outcome')
    BY <1>1, <1>2 DEF Counted, Promise!Say, Promise!Perhaps, Promise!world, Stage
  <2>2. CASE pc \in {"create", "start"}
    <3>1. Promise!ReportLoss
      BY <1>2, <2>1, <2>2 DEF Counted, Promise!ReportLoss, Stage
    <3> QED BY <3>1 DEF Promise!Next
  <2>3. CASE pc \in {"notify", "resolve", "clean"}
    <3>1. Promise!Report
      BY <1>2, <2>1, <2>3 DEF Counted, Promise!Report, Stage
    <3> QED BY <3>1 DEF Promise!Next
  <2>4. CASE pc \notin {"create", "start", "notify", "resolve", "clean"}
    <3>1. outcome' \in {"skipped", "failed"}
      BY <1>2, <2>4 DEF Counted
    <3>2. Promise!Leave(outcome')
      BY <1>2, <2>1, <2>4, <3>1 DEF Counted, Promise!Leave, Stage
    <3> QED BY <3>1, <3>2 DEF Promise!Next
  <2> QED BY <2>2, <2>3, <2>4
<1>3. ASSUME Stage' = Stage, outcome' = outcome
      PROVE  [Promise!Next]_(Promise!vars)
  <2>1. Promise!Hiccup \/ UNCHANGED Promise!vars
    BY <1>1, <1>3 DEF Promise!Hiccup, Promise!vars, Promise!world
  <2> QED BY <2>1 DEF Promise!Next
<1>4. CASE pc = "list" /\ pc' = pc /\ outcome' = outcome
  BY <1>3, <1>4 DEF Stage
<1>5. CASE <<pc, pc'>> = <<"service", "notify">> /\ outcome' = outcome
  <2>1. cur \in Managed /\ ~DryRun /\ faults' = faults
    BY <1>5 DEF Followed, TurnInv, TurnSettled, Examined
  <2>2. Promise!Delegate
    BY <1>1, <1>5, <2>1
    DEF Promise!Delegate, Promise!Become, Promise!world, Stage
  <2> QED BY <2>2 DEF Promise!Next
<1>6. CASE /\ <<pc, pc'>> \in Leads \ {<<"service", "notify">>}
           /\ outcome' = outcome
  <2>1. Stage' = Stage
    BY <1>6 DEF Leads, Stage
  <2> QED BY <1>3, <1>6, <2>1
<1> QED
  BY <1>2, <1>4, <1>5, <1>6 DEF Followed

(* The steps of the tick itself that are not quiet. *)
LEMMA TickRefines ==
    ASSUME TurnInv,
           \/ Forgotten \/ ListContainers
           \/ \E c \in Containers : NextContainer(c)
           \/ GetImageDigest \/ HealPull \/ GetLatestDigest
           \/ PullImage \/ PullAgain
           \/ ContainerRemove \/ ContainerCreate \/ ContainerStart
           \/ ResolveKept
           \/ \E x \in Images : RemoveImage(x) \/ RemoveImageFails(x)
    PROVE  [Promise!Next]_(Promise!vars)
<1> USE DEF Promise!world, daemonVars, procVars, histVars, budgetVars, Stage
<1>0. /\ DaemonTyped /\ ProcTyped /\ pc \in Calls
      /\ Ref[cur] \in Tags /\ regTag[Ref[cur]] \in Images
  BY ConstantsTyped, TypeParts
  DEF TurnInv, ImageInv, DaemonTyped, ProcTyped, ControlTyped
<1>1. ASSUME EndOfTick PROVE Promise!Next
  <2>1. Promise!EndTick
    BY <1>1, ConstantsTyped DEF EndOfTick, Forget, Promise!EndTick, Promise!Close
  <2> QED BY <2>1 DEF Promise!Next
<1>2. ASSUME Crash PROVE Promise!Next
  <2>1. Promise!Abandon
    BY <1>2, ConstantsTyped DEF Crash, Forget, Fault, Promise!Abandon, Promise!Close
  <2> QED BY <2>1 DEF Promise!Next
<1>3. ASSUME ListContainers PROVE Promise!Next
  <2>1. Promise!List
    BY <1>3 DEF ListContainers, Running, Fault, Promise!List, Promise!Perhaps
  <2> QED BY <2>1 DEF Promise!Next
<1>4. ASSUME NEW c \in Containers, NextContainer(c) PROVE Promise!Next
  <2>1. Promise!TakeTurn(c)
    BY <1>4 DEF NextContainer, Promise!TakeTurn
  <2> QED BY <2>1 DEF Promise!Next
<1>5. ASSUME GetImageDigest PROVE UNCHANGED Promise!vars
  BY <1>5 DEF GetImageDigest, Promise!vars
<1>6. ASSUME HealPull \/ PullImage \/ PullAgain PROVE Promise!Next
  <2>1. PICK x \in Images : store' = store \cup {x}
    BY <1>0, <1>6
    DEF HealPull, PullImage, PullAgain, PulledTag, Pulled, DaemonTyped, ProcTyped
  <2>2. Promise!Pull(x)
    BY <1>6, <2>1 DEF HealPull, PullImage, PullAgain, Promise!Pull
  <2> QED BY <2>2 DEF Promise!Next
<1>7. ASSUME GetLatestDigest PROVE [Promise!Next]_(Promise!vars)
  <2>1. CASE pc' = "pull" /\ outcome' = outcome
    BY <1>7, <2>1 DEF GetLatestDigest, Promise!vars
  <2>2. CASE Count("up to date")
    <3>1. Promise!Leave("up to date")
      BY <1>7, <2>2
      DEF GetLatestDigest, Count, Promise!Leave, Promise!Say, Promise!Perhaps
    <3> QED BY <3>1 DEF Promise!Next
  <2>3. CASE DryRun /\ Count("dry run")
    <3>1. Promise!Leave("dry run")
      BY <1>7, <2>3
      DEF GetLatestDigest, Count, Promise!Leave, Promise!Say, Promise!Perhaps
    <3> QED BY <3>1 DEF Promise!Next
  <2> QED BY <1>7, <2>1, <2>2, <2>3 DEF GetLatestDigest
<1>8. ASSUME ContainerRemove PROVE Promise!Next
  <2>1. cur \notin Managed \cup Foreign /\ ~DryRun
    BY <1>8 DEF ContainerRemove, TurnInv, TurnSettled, Examined, Replacing
  <2>2. Promise!Remove
    BY <1>8, <2>1 DEF ContainerRemove, Promise!Remove, Promise!Become
  <2> QED BY <2>2 DEF Promise!Next
<1>9. ASSUME ContainerCreate PROVE Promise!Next
  <2>1. localTag[Ref[cur]] \in store \cap Images
    BY <1>0, <1>9 DEF ContainerCreate, TurnInv, ImageInv, TagsStored, DaemonTyped
  <2>2. Promise!Create(localTag[Ref[cur]])
    BY <1>9, <2>1 DEF ContainerCreate, Promise!Create, Promise!Become
  <2> QED BY <2>1, <2>2 DEF Promise!Next
<1>10. ASSUME ContainerStart PROVE Promise!Next
  <2>1. Promise!Start
    BY <1>10 DEF ContainerStart, Promise!Start, Promise!Become
  <2> QED BY <2>1 DEF Promise!Next
<1>11. ASSUME ResolveKept PROVE [Promise!Next]_(Promise!vars)
  <2>1. Promise!Hiccup \/ UNCHANGED Promise!vars
    BY <1>11 DEF ResolveKept, Fault, Promise!Hiccup, Promise!vars
  <2> QED BY <2>1 DEF Promise!Next
<1>12. ASSUME NEW x \in Images, RemoveImage(x)
       PROVE  [Promise!Next]_(Promise!vars)
  <2>1. CASE UNCHANGED <<store, localTag>>
    BY <1>12, <2>1 DEF RemoveImage, Promise!vars
  <2>2. CASE Untag(x) /\ ~InUse(x)
    <3>1. Promise!Clean(x)
      BY <1>12, <2>2
      DEF RemoveImage, Untag, InUse, Promise!Clean, Promise!InUse,
          TurnInv, TurnSettled
    <3> QED BY <3>1 DEF Promise!Next
  <2> QED BY <1>12, <2>1, <2>2 DEF RemoveImage
<1>13. ASSUME NEW x \in Images, RemoveImageFails(x) PROVE Promise!Next
  <2>1. Promise!Hiccup
    BY <1>13 DEF RemoveImageFails, Fault, Promise!Hiccup
  <2> QED BY <2>1 DEF Promise!Next
<1> QED
  BY <1>1, <1>2, <1>3, <1>4, <1>5, <1>6, <1>7, <1>8, <1>9, <1>10, <1>11, <1>12,
     <1>13 DEF Forgotten

LEMMA OthersRefine ==
    ASSUME TurnInv,
           \/ \E c \in Containers : UserTakesAway(c) \/ TaskReplaced(c)
           \/ \E x \in Images : Prune(x)
           \/ \E t \in Tags, x \in Images : Push(t, x)
    PROVE  [Promise!Next]_(Promise!vars)
<1> USE DEF Promise!world, daemonVars, procVars, histVars, budgetVars
<1>1. ASSUME NEW c \in Containers, UserTakesAway(c) PROVE Promise!Next
  <2>1. Promise!TakeAway(c)
    BY <1>1 DEF UserTakesAway, Promise!TakeAway, Stage
  <2> QED BY <2>1 DEF Promise!Next
<1>2. ASSUME NEW c \in Containers, TaskReplaced(c) PROVE Promise!Next
  <2>1. regTag[Ref[c]] \in Images
    BY ConstantsTyped, TypeParts DEF TurnInv, ImageInv, DaemonTyped
  <2>2. Promise!TaskReplaced(c, regTag[Ref[c]])
    BY <1>2 DEF TaskReplaced, Promise!TaskReplaced, Stage
  <2> QED BY <2>1, <2>2 DEF Promise!Next
<1>3. ASSUME NEW x \in Images, Prune(x) PROVE Promise!Next
  <2>1. Promise!Prune(x)
    BY <1>3 DEF Prune, Fault, Untag, InUse, Promise!Prune, Promise!InUse, Stage
  <2> QED BY <2>1 DEF Promise!Next
<1>4. ASSUME NEW t \in Tags, NEW x \in Images, Push(t, x)
      PROVE  UNCHANGED Promise!vars
  BY <1>4 DEF Push, Promise!vars, Stage
<1> QED
  BY <1>1, <1>2, <1>3, <1>4

(* The calls of a tick are turns, replacements and reports of Upkeep.        *)
(* (reconciler.go:112-440, docker.go:436-702, 883-886.)                      *)
THEOREM Refines == Spec => ImplementsUpkeep
<1>1. TurnInv /\ [Next]_vars => TurnInv'
  BY StepTurnInv
<1>2. TurnInv /\ [Next]_vars => [Promise!Next]_(Promise!vars)
  <2>1. ASSUME UNCHANGED vars PROVE UNCHANGED Promise!vars
    BY <2>1 DEF vars, daemonVars, procVars, histVars, budgetVars, Promise!vars,
                Promise!world, Stage
  <2> QED BY <2>1, NextCases, QuietRefines, TickRefines, OthersRefine
<1> QED
  BY <1>1, <1>2, InitTurnInv, InitRefines, PTL
  DEF Spec, ImplementsUpkeep, Promise!Spec

=============================================================================
