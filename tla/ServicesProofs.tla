--------------------------- MODULE ServicesProofs ---------------------------
(***************************************************************************)
(* Proofs about the services around the gateway: what a deployment leaves  *)
(* running (Deployment), what the store of road graphs keeps               *)
(* (RoadGraphStore), how many calls bad credentials cost (ApiRequests),    *)
(* what the anonymous demo answers (DemoLimits) and that a route is the    *)
(* fastest (RoadSearch).  The modules share no state; each has an          *)
(* inductive invariant of its own.  At the end all the smaller components, *)
(* with the client and the website, beside each other (MCServices).        *)
(***************************************************************************)
EXTENDS MCServices, ArcGisClientProofs, SiteProofs, RateWindowsProofs,
        SequenceTheorems, WellFoundedInduction

---------------------------------------------------------------------------
(* Deployment. *)

DeploySteps == {"idle", "judge", "release", "configure", "functions", "siteKey", "up", "restart"}
Released == {"release", "configure", "functions", "siteKey", "up", "restart"}

CommitTypes ==
    /\ main \in Commits /\ passing \in [Commits -> SUBSET Workflows]
    /\ deployStep \in DeploySteps
    /\ sha \in 0..main /\ (deployStep # "idle" => sha \in Commits)
    /\ deployed \in 0..main
    /\ restarting \subseteq {"api", "web"}

\* A commit is judged by what its workflows say at the time, and stays tested.
JobIsTested ==
    /\ \A c \in Commits : Passed(c) => c \in tested
    /\ deployStep \in Released => sha \in tested

\* A deployment runs only for a commit that is not deployed, and main only grows.
JobIsNeeded == deployStep # "idle" => deployed < main

\* What the steps so far have left behind: the functions, the one active key, the
\* services that were restarted.
JobIsDone ==
    /\ deployStep \in {"siteKey", "up", "restart"} => functions = sha
    /\ deployStep \in {"up", "restart"} => siteRows.stored \ siteRows.revoked = {convexKey}
    /\ deployStep = "restart" /\ "api" \notin restarting => api = [commit |-> sha, key |-> jobKey]
    /\ deployStep = "restart" /\ "web" \notin restarting => web = [commit |-> sha, key |-> jobKey]

\* The host's key reaches Convex and the services at two times, with nothing between
\* them unless it was rotated.
JobHasHostKey ==
    ~rotated =>
        /\ deployStep \in {"functions", "siteKey", "up", "restart"} => convexKey = hostKey
        /\ deployStep = "restart" => jobKey = hostKey

DeployInv ==
    /\ CommitTypes /\ JobIsTested /\ JobIsNeeded /\ JobIsDone /\ JobHasHostKey
    /\ OnlyTestedRuns /\ DeployedIsRunning

LEMMA DeployInitially == DeployInit => DeployInv
<1> SUFFICES ASSUME DeployInit PROVE DeployInv
  OBVIOUS
<1> USE DeploymentAssumption DEF DeployInit, Commits, NoCommit
<1>1. CommitTypes
  BY DEF CommitTypes, DeploySteps
<1>2. JobIsTested
  BY DEF JobIsTested, Passed, Released
<1>3. JobIsNeeded /\ JobIsDone /\ JobHasHostKey
  BY DEF JobIsNeeded, JobIsDone, JobHasHostKey
<1>4. OnlyTestedRuns /\ DeployedIsRunning
  BY DEF OnlyTestedRuns, DeployedIsRunning
<1> QED
  BY <1>1, <1>2, <1>3, <1>4 DEF DeployInv

\* Every step keeps the types, the order of the commits and the need for a deployment.
LEMMA StepCommits ==
  ASSUME CommitTypes, JobIsNeeded, [DeployNext]_deployVars
  PROVE  CommitTypes' /\ JobIsNeeded'
<1> USE DeploymentAssumption
    DEF CommitTypes, JobIsNeeded, Commits, NoCommit, DeploySteps, Passes, hosts, job, running, keyStore
<1>1. CASE Poll \/ Judge
  <2>1. CASE Poll
    <3>1. deployed < main
      BY <2>1 DEF Poll
    <3> QED
      BY <2>1, <3>1 DEF Poll
  <2>2. CASE Judge /\ Passed(sha)
    BY <2>2 DEF Judge
  <2>3. CASE Judge /\ ~Passed(sha)
    BY <2>3 DEF Judge
  <2> QED
    BY <1>1, <2>1, <2>2, <2>3
<1>2. CASE Release \/ Configure \/ PushFunctions \/ upsertSiteKey \/ Up
  BY <1>2 DEF Release, Configure, PushFunctions, upsertSiteKey, Up
<1>3. ASSUME NEW service \in {"api", "web"}, Restart(service)
      PROVE  CommitTypes' /\ JobIsNeeded'
  BY <1>3 DEF Restart
<1>4. CASE Record
  BY <1>4 DEF Record
<1>5. CASE upsertKeyRefuses \/ Abort
  BY <1>5 DEF upsertKeyRefuses, Abort, GivesUp
<1>6. CASE PushCommit
  BY <1>6 DEF PushCommit
<1>7. ASSUME NEW k \in SiteKeys, RotateHostKey(k)
      PROVE  CommitTypes' /\ JobIsNeeded'
  BY <1>7 DEF RotateHostKey
<1>8. ASSUME NEW c \in Commits, NEW w \in Workflows, WorkflowRun(c, w)
      PROVE  CommitTypes' /\ JobIsNeeded'
  BY <1>8 DEF WorkflowRun
<1>9. CASE UNCHANGED deployVars
  BY <1>9 DEF deployVars
<1> QED
  BY <1>1, <1>2, <1>3, <1>4, <1>5, <1>6, <1>7, <1>8, <1>9 DEF DeployNext, DeployRuns

\* Every step keeps tested what a deployment releases and what runs.
LEMMA StepTested ==
  ASSUME CommitTypes, JobIsTested, JobIsDone, OnlyTestedRuns, [DeployNext]_deployVars
  PROVE  JobIsTested' /\ OnlyTestedRuns'
<1> USE DEF CommitTypes, JobIsTested, OnlyTestedRuns, Released, Passed, Passes, hosts, job, running, keyStore
<1>1. CASE Poll
  BY <1>1 DEF Poll
<1>2. CASE Judge
  BY <1>2 DEF Judge
<1>3. CASE Release \/ Configure \/ PushFunctions \/ upsertSiteKey \/ Up
  BY <1>3 DEF Release, Configure, PushFunctions, upsertSiteKey, Up
<1>4. ASSUME NEW service \in {"api", "web"}, Restart(service)
      PROVE  JobIsTested' /\ OnlyTestedRuns'
  BY <1>4 DEF Restart
<1>5. CASE Record
  BY <1>5 DEF Record
<1>6. CASE upsertKeyRefuses \/ Abort
  BY <1>6 DEF upsertKeyRefuses, Abort, GivesUp
<1>7. CASE PushCommit
  BY <1>7 DEF PushCommit
<1>8. ASSUME NEW k \in SiteKeys, RotateHostKey(k)
      PROVE  JobIsTested' /\ OnlyTestedRuns'
  BY <1>8 DEF RotateHostKey
<1>9. ASSUME NEW c \in Commits, NEW w \in Workflows, WorkflowRun(c, w)
      PROVE  JobIsTested' /\ OnlyTestedRuns'
  <2>1. tested \subseteq tested' /\ (passing'[c] = Workflows => c \in tested')
    BY <1>9 DEF WorkflowRun
  <2>2. \A o \in Commits \ {c} : passing'[o] = passing[o]
    BY <1>9 DEF WorkflowRun
  <2> QED
    BY <1>9, <2>1, <2>2 DEF WorkflowRun
<1>10. CASE UNCHANGED deployVars
  BY <1>10 DEF deployVars
<1> QED
  BY <1>1, <1>2, <1>3, <1>4, <1>5, <1>6, <1>7, <1>8, <1>9, <1>10 DEF DeployNext, DeployRuns

\* Every step keeps what the deployment has done and the keys it has read.
LEMMA StepDone ==
  ASSUME CommitTypes, JobIsDone, JobHasHostKey, [DeployNext]_deployVars
  PROVE  JobIsDone' /\ JobHasHostKey'
<1> USE DEF CommitTypes, DeploySteps, JobIsDone, JobHasHostKey, Passes, hosts, job, running, keyStore
<1>1. CASE Poll \/ Judge \/ Release \/ Configure \/ PushFunctions
  BY <1>1 DEF Poll, Judge, Release, Configure, PushFunctions
<1>2. CASE upsertSiteKey
  BY <1>2 DEF upsertSiteKey
<1>3. CASE Up
  BY <1>3 DEF Up
<1>4. ASSUME NEW service \in {"api", "web"}, Restart(service)
      PROVE  JobIsDone' /\ JobHasHostKey'
  BY <1>4 DEF Restart
<1>5. CASE Record
  BY <1>5 DEF Record
<1>6. CASE upsertKeyRefuses \/ Abort
  BY <1>6 DEF upsertKeyRefuses, Abort, GivesUp
<1>7. CASE PushCommit
  BY <1>7 DEF PushCommit
<1>8. ASSUME NEW k \in SiteKeys, RotateHostKey(k)
      PROVE  JobIsDone' /\ JobHasHostKey'
  BY <1>8 DEF RotateHostKey
<1>9. ASSUME NEW c \in Commits, NEW w \in Workflows, WorkflowRun(c, w)
      PROVE  JobIsDone' /\ JobHasHostKey'
  BY <1>9 DEF WorkflowRun
<1>10. CASE UNCHANGED deployVars
  BY <1>10 DEF deployVars
<1> QED
  BY <1>1, <1>2, <1>3, <1>4, <1>5, <1>6, <1>7, <1>8, <1>9, <1>10 DEF DeployNext, DeployRuns

\* Every step keeps running what counts as deployed: only Record makes a commit count, and
\* none runs while the newest commit counts.
LEMMA StepDeployed ==
  ASSUME DeployInv, [DeployNext]_deployVars
  PROVE  DeployedIsRunning'
<1> USE DEF DeployInv, CommitTypes, JobIsNeeded, DeployedIsRunning, Passes, hosts, job, running, keyStore
<1>1. CASE deployStep # "idle" /\ ~Record
  <2>1. CASE Judge \/ upsertKeyRefuses \/ Abort
    BY <1>1, <2>1 DEF Judge, upsertKeyRefuses, Abort, GivesUp
  <2>2. CASE Poll \/ Release \/ Configure \/ PushFunctions \/ upsertSiteKey \/ Up
    BY <1>1, <2>2 DEF Poll, Release, Configure, PushFunctions, upsertSiteKey, Up
  <2>3. CASE \E service \in {"api", "web"} : Restart(service)
    BY <1>1, <2>3 DEF Restart
  <2>4. CASE PushCommit \/ \E k \in SiteKeys : RotateHostKey(k)
    BY <1>1, <2>4 DEF PushCommit, RotateHostKey
  <2>5. CASE \E c \in Commits, w \in Workflows : WorkflowRun(c, w)
    BY <1>1, <2>5 DEF WorkflowRun
  <2>6. CASE UNCHANGED deployVars
    BY <1>1, <2>6 DEF deployVars
  <2> QED
    BY <1>1, <2>1, <2>2, <2>3, <2>4, <2>5, <2>6 DEF DeployNext, DeployRuns
<1>2. CASE Record
  BY <1>2 DEF Record, JobIsDone, JobHasHostKey
<1>3. CASE deployStep = "idle"
  <2>1. CASE Poll
    BY <1>3, <2>1 DEF Poll
  <2>2. CASE PushCommit
    BY <1>3, <2>2 DEF PushCommit, Commits
  <2>3. CASE \E k \in SiteKeys : RotateHostKey(k)
    BY <1>3, <2>3 DEF RotateHostKey
  <2>4. CASE \E c \in Commits, w \in Workflows : WorkflowRun(c, w)
    BY <1>3, <2>4 DEF WorkflowRun
  <2>5. CASE UNCHANGED deployVars
    BY <1>3, <2>5 DEF deployVars
  <2> QED
    BY <1>3, <2>1, <2>2, <2>3, <2>4, <2>5
    DEF DeployNext, DeployRuns, Judge, Release, Configure, PushFunctions, upsertSiteKey,
        upsertKeyRefuses, Up, Restart, Record, Abort
<1> QED
  BY <1>1, <1>2, <1>3

LEMMA DeployInvariance == DeploySpec => []DeployInv
<1>1. DeployInv /\ [DeployNext]_deployVars => DeployInv'
  BY StepCommits, StepTested, StepDone, StepDeployed DEF DeployInv
<1> QED
  BY DeployInitially, <1>1, PTL DEF DeploySpec

\* Whatever is pushed, run again, or interrupted, the functions, the api and the web only
\* ever run commits all of whose workflows passed (deploy.py).
THEOREM OnlyTestedRunsHolds == DeploySpec => []OnlyTestedRuns
<1>1. DeployInv => OnlyTestedRuns
  BY DEF DeployInv
<1> QED
  BY DeployInvariance, <1>1, PTL

\* When deployed-sha is the newest commit, everything runs it, and, unless the host's key
\* changed since, api and web present the one active site key (deploy.py, platform.ts).
THEOREM DeployedIsRunningHolds == DeploySpec => []DeployedIsRunning
<1>1. DeployInv => DeployedIsRunning
  BY DEF DeployInv
<1> QED
  BY DeployInvariance, <1>1, PTL

\* The types of the keys and of what runs; the site key is registered from a key of the host.
DeployTypes ==
    /\ hostKey \in SiteKeys /\ convexKey \in SiteKeys \cup {NoKey} /\ jobKey \in SiteKeys \cup {NoKey}
    /\ siteRows \in [stored : SUBSET SiteKeys, revoked : SUBSET SiteKeys]
    /\ siteRows.revoked \subseteq siteRows.stored
    /\ functions \in Commits \cup {NoCommit}
    /\ api \in [commit : Commits \cup {NoCommit}, key : SiteKeys \cup {NoKey}]
    /\ web \in [commit : Commits \cup {NoCommit}, key : SiteKeys \cup {NoKey}]
    /\ restarting # {} => deployStep = "restart"
    /\ tested \subseteq Commits /\ rotated \in BOOLEAN
    /\ deployStep \in {"functions", "siteKey"} => convexKey \in SiteKeys

LEMMA DeployTypesInitially == DeployInit => DeployTypes
<1> SUFFICES ASSUME DeployInit PROVE DeployTypes
  OBVIOUS
<1>1. rotated \in BOOLEAN
  BY DEF DeployInit
<1>2. /\ siteRows \in [stored : SUBSET SiteKeys, revoked : SUBSET SiteKeys]
      /\ siteRows.revoked \subseteq siteRows.stored
  BY DEF DeployInit
<1>3. /\ api \in [commit : Commits \cup {NoCommit}, key : SiteKeys \cup {NoKey}]
      /\ web \in [commit : Commits \cup {NoCommit}, key : SiteKeys \cup {NoKey}]
  BY DEF DeployInit
<1> QED
  BY <1>1, <1>2, <1>3, DeploymentAssumption DEF DeployInit, DeployTypes

LEMMA DeployTypesStep ==
  ASSUME CommitTypes, DeployTypes, [DeployNext]_deployVars
  PROVE  DeployTypes'
<1> USE DeploymentAssumption DEF CommitTypes, DeployTypes, Passes, hosts, job, running, keyStore
<1>1. CASE Poll
  BY <1>1 DEF Poll
<1>2. CASE Judge
  <2>1. CASE Passed(sha)
    BY <1>2, <2>1 DEF Judge
  <2>2. CASE ~Passed(sha)
    BY <1>2, <2>2 DEF Judge
  <2> QED
    BY <2>1, <2>2
<1>3. CASE Release \/ Configure \/ PushFunctions
  BY <1>3 DEF Release, Configure, PushFunctions, DeploySteps
<1>4. CASE upsertSiteKey
  BY <1>4 DEF upsertSiteKey
<1>5. CASE Up
  BY <1>5 DEF Up
<1>6. ASSUME NEW service \in {"api", "web"}, Restart(service)
      PROVE  DeployTypes'
  BY <1>6 DEF Restart
<1>7. CASE Record
  BY <1>7 DEF Record
<1>8. CASE upsertKeyRefuses \/ Abort
  BY <1>8 DEF upsertKeyRefuses, Abort, GivesUp
<1>9. CASE PushCommit
  BY <1>9 DEF PushCommit
<1>10. ASSUME NEW k \in SiteKeys, RotateHostKey(k)
      PROVE  DeployTypes'
  BY <1>10 DEF RotateHostKey
<1>11. ASSUME NEW c \in Commits, NEW w \in Workflows, WorkflowRun(c, w)
      PROVE  DeployTypes'
  <2>1. tested' \subseteq Commits
    BY <1>11 DEF WorkflowRun
  <2> QED
    BY <1>11, <2>1 DEF WorkflowRun
<1>12. CASE UNCHANGED deployVars
  BY <1>12 DEF deployVars
<1> QED
  BY <1>1, <1>2, <1>3, <1>4, <1>5, <1>6, <1>7, <1>8, <1>9, <1>10, <1>11, <1>12 DEF DeployNext, DeployRuns

LEMMA DeployIsTyped == DeployInv /\ DeployTypes => DeployTypeOK
<1> SUFFICES ASSUME DeployInv, DeployTypes PROVE DeployTypeOK
  OBVIOUS
<1>1. sha \in Commits \cup {NoCommit} /\ deployed \in Commits \cup {NoCommit} /\ main \in Commits
  BY DeploymentAssumption DEF DeployInv, CommitTypes, Commits, NoCommit
<1> QED
  BY <1>1 DEF DeployInv, CommitTypes, DeployTypes, DeployTypeOK

\* Every step of a deployment, and its end at any of them, keeps the types: site keys that the
\* host had, revoked keys that are stored, and services to restart only while it restarts them
\* (deploy.py, platform.ts).
THEOREM DeploymentTypes == DeploySpec => []DeployTypeOK
<1>1. DeployInv /\ DeployTypes /\ [DeployNext]_deployVars => DeployTypes'
  BY DeployTypesStep DEF DeployInv
<1> QED
  BY DeployInvariance, DeployTypesInitially, <1>1, DeployIsTyped, PTL DEF DeploySpec

---------------------------------------------------------------------------
(* The road graph. *)

LoadUnderWay == loadStep \in {"page", "build"}

StoreTypes ==
    /\ added \in Nat /\ layer \subseteq 1..added
    /\ loadStep \in {"locked", "count", "page", "build"}
    /\ rows \subseteq 1..added /\ lastOid \in Nat

\* The count saw few enough rows, and rows that came later have higher OBJECTIDs.
CountIsKept ==
    LoadUnderWay =>
        /\ mark \in 0..added /\ counted \subseteq 1..mark /\ Cardinality(counted) <= Cap
        /\ always \subseteq counted /\ always \subseteq layer
        /\ layer \subseteq counted \cup (mark + 1)..added
        /\ rows \subseteq counted \cup (mark + 1)..added

\* Before a load nothing is there; during it everything up to last_oid is; after it,
\* everything.
PagesAreComplete ==
    /\ loadStep \in {"locked", "count"} => rows = {} /\ lastOid = NoOid
    /\ loadStep = "page" => /\ Cardinality(rows) < Cap
                            /\ \A o \in always : o <= lastOid => o \in rows
                            /\ \A o \in rows : o <= lastOid
    /\ loadStep = "build" => always \subseteq rows

StoreInv == StoreTypes /\ CountIsKept /\ PagesAreComplete

---------------------------------------------------------------------------
(* Sets of OBJECTIDs. *)

LEMMA OidsAreFinite ==
  ASSUME NEW n \in Nat, NEW S \in SUBSET (1..n)
  PROVE  IsFiniteSet(S) /\ Cardinality(S) \in Nat
<1>1. IsFiniteSet(1..n)
  BY FS_Interval
<1>2. IsFiniteSet(S)
  BY <1>1, FS_Subset
<1> QED
  BY <1>2, FS_CardinalityType

LEMMA Smallest ==
  ASSUME NEW n \in Nat, NEW S \in SUBSET (1..n), S # {}
  PROVE  \E m \in S : \A o \in S : m <= o
<1> DEFINE Below(m) == {o \in S : o <= m}
           T == {Below(m) : m \in S}
<1>1. T \subseteq FiniteSubsetsOf(S) /\ T # {}
  BY OidsAreFinite DEF FiniteSubsetsOf
<1>2. PICK X \in T : \A Y \in T : <<Y, X>> \notin StrictSubsetOrdering(S)
  BY <1>1, FS_StrictSubsetOrderingWellFounded, WFMin
<1>3. PICK m \in S : X = Below(m)
  OBVIOUS
<1>4. ASSUME NEW o \in S, o < m
      PROVE  FALSE
  <2>1. Below(o) \in T
    OBVIOUS
  <2>2. ASSUME NEW k \in Below(o)
        PROVE  k \in Below(m)
    <3>1. k \in S /\ k <= o /\ S \subseteq Nat
      OBVIOUS
    <3>2. k <= m
      BY <1>4, <3>1
    <3> QED
      BY <3>1, <3>2
  <2>3. m \in Below(m) /\ m \notin Below(o)
    BY <1>4
  <2> QED
    BY <1>1, <1>2, <1>3, <2>1, <2>2, <2>3 DEF StrictSubsetOrdering, FiniteSubsetsOf
<1> QED
  BY <1>4

LEMMA Largest ==
  ASSUME NEW n \in Nat, NEW S \in SUBSET (1..n), S # {}
  PROVE  Max(S) \in S /\ \A o \in S : o <= Max(S)
<1> DEFINE R == {n + 1 - o : o \in S}
<1>1. R \in SUBSET (1..n) /\ R # {}
  <2>1. \A o \in S : n + 1 - o \in 1..n
    OBVIOUS
  <2> QED
    BY <2>1
<1>2. PICK r \in R : \A o \in R : r <= o
  BY <1>1, Smallest
<1>3. PICK m \in S : r = n + 1 - m
  OBVIOUS
<1>4. \A o \in S : m >= o
  BY <1>2, <1>3
<1> QED
  BY <1>3, <1>4 DEF Max

---------------------------------------------------------------------------
(* A page holds the next rows without a gap, and as many as were asked for if there
   are more. *)

LEMMA PageFacts ==
  ASSUME StoreTypes, NEW size \in Nat \ {0}
  PROVE  /\ Page(size) \subseteq layer
         /\ \A o \in Page(size) : o > lastOid
         /\ \A o \in Page(size), k \in layer : lastOid < k /\ k <= o => k \in Page(size)
         /\ HasMore(Page(size)) => Cardinality(Page(size)) >= size
<1> DEFINE Upto(o) == {k \in layer : lastOid < k /\ k <= o}
<1> USE DEF StoreTypes
<1>1. \A o : Upto(o) \in SUBSET (1..added)
  OBVIOUS
<1>2. Page(size) = {o \in layer : o > lastOid /\ Cardinality(Upto(o)) <= size}
  BY DEF Page
<1>3. ASSUME NEW o \in Page(size), NEW k \in layer, lastOid < k, k <= o
      PROVE  k \in Page(size)
  <2>1. ASSUME NEW j \in Upto(k)
        PROVE  j \in Upto(o)
    <3>1. j \in layer /\ k \in layer /\ o \in layer /\ lastOid < j /\ j <= k
      BY <1>2, <2>1
    <3>2. layer \subseteq Nat
      OBVIOUS
    <3>3. j <= o
      BY <1>3, <3>1, <3>2
    <3> QED
      BY <3>1, <3>3
  <2>2. Upto(k) \subseteq Upto(o)
    BY <2>1
  <2>3. IsFiniteSet(Upto(o)) /\ Cardinality(Upto(k)) \in Nat /\ Cardinality(Upto(o)) \in Nat
    BY <1>1, OidsAreFinite
  <2>4. Cardinality(Upto(k)) <= Cardinality(Upto(o))
    BY <2>2, <2>3, FS_Subset
  <2> QED
    BY <1>2, <1>3, <2>3, <2>4
<1>4. ASSUME HasMore(Page(size))
      PROVE  Cardinality(Page(size)) >= size
  <2> DEFINE D == {o \in layer : o > lastOid /\ o \notin Page(size)}
  <2>1. D \in SUBSET (1..added) /\ D # {}
    BY <1>4 DEF HasMore
  <2>2. PICK m \in D : \A o \in D : m <= o
    BY <2>1, Smallest
  <2>3. m \in layer /\ m > lastOid /\ m \notin Page(size) /\ m \in Nat
    BY <2>1
  <2>4. Cardinality(Upto(m)) \in Nat /\ IsFiniteSet(Upto(m))
    BY <1>1, OidsAreFinite
  <2>5. m \in Upto(m) /\ Cardinality(Upto(m)) > size
    BY <1>2, <2>3, <2>4
  <2>8. Cardinality(Upto(m) \ {m}) = Cardinality(Upto(m)) - 1
    BY <2>4, <2>5, FS_RemoveElement
  <2>9. ASSUME NEW k \in Upto(m), k # m
        PROVE  k \in Page(size)
    <3>1. k \in layer /\ k \in Nat /\ k > lastOid /\ k < m
      BY <2>3, <2>9
    <3> QED
      BY <2>2, <3>1
  <2>6. Page(size) \in SUBSET (1..added)
    BY <1>2
  <2>7. Cardinality(Upto(m) \ {m}) <= Cardinality(Page(size)) /\ Cardinality(Page(size)) \in Nat
    <3>1. Upto(m) \ {m} \subseteq Page(size)
      BY <2>9
    <3> QED
      BY <2>6, <3>1, OidsAreFinite, FS_Subset
  <2> QED
    BY <2>4, <2>5, <2>7, <2>8
<1> QED
  BY <1>2, <1>3, <1>4

\* What one page adds: nothing is missing up to the new last_oid, and if the query ends
\* there nothing is missing at all.
LEMMA FetchStep ==
  ASSUME StoreInv, FetchPage
  PROVE  StoreInv'
<1> USE StoreAssumption DEF StoreInv, StoreTypes, LoadUnderWay
<1>1. PICK a \in PageAnswers :
        LET all == rows \cup a.page IN
          /\ rows' = {oid \in all : Cardinality({o \in all : o <= oid}) <= Cap}
          /\ lastOid' = IF a.page = {} THEN lastOid ELSE Max(a.page)
          /\ loadStep' = IF \/ a.page = {}
                            \/ ~a.exceeded /\ Cardinality(a.page) < PageSize
                            \/ Cardinality(all) >= Cap
                         THEN "build" ELSE "page"
  BY DEF FetchPage
<1>2. loadStep = "page" /\ UNCHANGED <<layer, added, counted, mark, always>>
  BY DEF FetchPage, layerVars
<1> DEFINE all == rows \cup a.page
<1>3. Cardinality(rows) \in Nat /\ Cardinality(rows) < Cap
  BY <1>2, OidsAreFinite DEF PagesAreComplete
<1>4. PICK size \in Nat \ {0} :
        /\ a.page = Page(size)
        /\ a.exceeded = HasMore(a.page) \/ size = PageSize
  BY <1>3 DEF PageAnswers, Asked, Lesser, Cap
<1>5. /\ a.page \subseteq layer
      /\ \A o \in a.page : o > lastOid
      /\ \A o \in a.page, k \in layer : lastOid < k /\ k <= o => k \in a.page
      /\ HasMore(a.page) => Cardinality(a.page) >= size
  BY <1>4, PageFacts
<1>6. all \in SUBSET (1..added) /\ a.page \in SUBSET (1..added) /\ all \subseteq counted \cup (mark + 1)..added
  BY <1>2, <1>5 DEF CountIsKept
<1>7. a.page # {} => Max(a.page) \in a.page /\ \A o \in a.page : o <= Max(a.page)
  BY <1>6, Largest
<1>8. /\ lastOid' \in Nat /\ lastOid <= lastOid'
      /\ \A o \in all : o <= lastOid'
  BY <1>1, <1>2, <1>5, <1>6, <1>7 DEF PagesAreComplete
<1>9. \A o \in always : o <= lastOid' => o \in all
  BY <1>1, <1>2, <1>5, <1>6, <1>7 DEF PagesAreComplete, CountIsKept
<1>10. Cardinality(all) \in Nat /\ IsFiniteSet(all)
  BY <1>6, OidsAreFinite
<1>11. StoreTypes' /\ CountIsKept'
  BY <1>1, <1>2, <1>6, <1>8 DEF CountIsKept
<1>12. CASE loadStep' = "page"
  <2>1. Cardinality(all) < Cap
    BY <1>1, <1>10, <1>12 DEF Cap
  <2>2. ASSUME NEW o \in all
        PROVE  Cardinality({k \in all : k <= o}) <= Cap
    <3> HIDE DEF all
    <3>1. {k \in all : k <= o} \subseteq all
      OBVIOUS
    <3>2. IsFiniteSet({k \in all : k <= o})
          /\ Cardinality({k \in all : k <= o}) <= Cardinality(all)
      BY <1>10, <3>1, FS_Subset
    <3>3. Cardinality({k \in all : k <= o}) \in Nat
      BY <3>2, FS_CardinalityType
    <3> QED
      BY <1>10, <2>1, <3>2, <3>3 DEF Cap
  <2>4. rows' = all
    BY <1>1, <2>2
  <2> QED
    BY <1>2, <1>8, <1>9, <1>11, <1>12, <2>1, <2>4 DEF PagesAreComplete, Cap
<1>13. CASE loadStep' = "build"
  <2>1. always \subseteq all
    <3>1. CASE a.page = {}
      <4>1. ~HasMore(a.page)
        BY <1>4, <1>5, <3>1, FS_EmptySet
      <4> QED
        BY <1>2, <1>5, <3>1, <4>1 DEF HasMore, PagesAreComplete, CountIsKept
    <3>2. CASE ~a.exceeded /\ Cardinality(a.page) < PageSize
      <4>1. Cardinality(a.page) \in Nat
        BY <1>6, OidsAreFinite
      <4>2. ~HasMore(a.page)
        BY <1>4, <1>5, <3>2, <4>1
      <4> QED
        BY <1>2, <1>5, <4>2 DEF HasMore, PagesAreComplete, CountIsKept
    <3>3. CASE Cardinality(all) >= Cap
      <4> SUFFICES ASSUME NEW o \in always, o \notin all
                   PROVE  FALSE
        OBVIOUS
      <4>1. o \in counted /\ o <= mark /\ o > lastOid' /\ counted \in SUBSET (1..mark) /\ mark \in Nat
        BY <1>2, <1>8, <1>9 DEF CountIsKept
      <4>2. all \subseteq counted \ {o}
        BY <1>6, <1>8, <4>1
      <4>3. IsFiniteSet(counted) /\ Cardinality(counted) \in Nat /\ Cardinality(counted) <= Cap
        BY <1>2, <4>1, OidsAreFinite DEF CountIsKept
      <4>4. IsFiniteSet(counted \ {o}) /\ Cardinality(counted \ {o}) = Cardinality(counted) - 1
        BY <4>1, <4>3, FS_RemoveElement
      <4>5. Cardinality(all) <= Cardinality(counted \ {o})
        BY <4>2, <4>4, FS_Subset
      <4> QED
        BY <1>10, <3>3, <4>3, <4>4, <4>5 DEF Cap
    <3> QED
      BY <1>1, <1>13, <3>1, <3>2, <3>3
  <2>2. ASSUME NEW o \in always
        PROVE  o \in rows'
    <3>1. o \in counted /\ counted \in SUBSET (1..mark) /\ mark \in Nat /\ Cardinality(counted) <= Cap
      BY <1>2 DEF CountIsKept
    <3>2. {k \in all : k <= o} \subseteq counted
      BY <1>6, <3>1
    <3>3. Cardinality({k \in all : k <= o}) <= Cardinality(counted)
          /\ Cardinality({k \in all : k <= o}) \in Nat /\ Cardinality(counted) \in Nat
      BY <3>1, <3>2, OidsAreFinite, FS_Subset, FS_CardinalityType
    <3>4. Cardinality({k \in all : k <= o}) <= Cap
      BY <3>1, <3>3 DEF Cap
    <3> QED
      BY <1>1, <2>1, <3>4
  <2> QED
    BY <1>2, <1>11, <1>13, <2>2 DEF PagesAreComplete
<1> QED
  BY <1>1, <1>12, <1>13

---------------------------------------------------------------------------
(* The other steps. *)

LEMMA StoreInitially == StoreInit => StoreInv
  BY DEF StoreInit, StoreInv, StoreTypes, CountIsKept, PagesAreComplete, LoadUnderWay, NoOid

\* The lock passes on, and with it goes what was loaded.
LEMMA PassOnStep ==
  ASSUME StoreInv, PassOn, UNCHANGED layerVars
  PROVE  StoreInv'
  BY DEF PassOn, layerVars, StoreInv, StoreTypes, CountIsKept, PagesAreComplete, LoadUnderWay, NoOid

\* Steps that neither touch the layer nor the load.
LEMMA OtherStep ==
  ASSUME StoreInv, UNCHANGED <<layerVars, loadVars, loadStep>>
  PROVE  StoreInv'
  BY DEF layerVars, loadVars, StoreInv, StoreTypes, CountIsKept, PagesAreComplete, LoadUnderWay

LEMMA AddStep ==
  ASSUME StoreInv, AddRow
  PROVE  StoreInv'
  BY DEF AddRow, loadVars, StoreInv, StoreTypes, CountIsKept, PagesAreComplete, LoadUnderWay

LEMMA DeleteStep ==
  ASSUME StoreInv, NEW oid \in layer, DeleteRow(oid)
  PROVE  StoreInv'
  BY DEF DeleteRow, StoreInv, StoreTypes, CountIsKept, PagesAreComplete, LoadUnderWay

LEMMA CountStep ==
  ASSUME StoreInv, CountRows
  PROVE  StoreInv'
<1>1. CASE Cardinality(layer) > MaxFeatures
  BY <1>1, PassOnStep DEF CountRows, FailLoad
<1>2. CASE ~(Cardinality(layer) > MaxFeatures)
  <2>1. /\ loadStep' = "page" /\ counted' = layer /\ mark' = added /\ always' = layer
        /\ UNCHANGED <<layer, added, rows, lastOid>> /\ loadStep = "count"
    BY <1>2 DEF CountRows, layerVars
  <2>2. rows' = {} /\ Cardinality(rows') = 0 /\ lastOid' = 0
    BY <2>1, FS_EmptySet DEF StoreInv, PagesAreComplete, NoOid
  <2>3. Cardinality(layer) <= Cap
    <3>1. Cardinality(layer) \in Nat
      BY OidsAreFinite DEF StoreInv, StoreTypes
    <3> QED
      BY <1>2, <3>1, StoreAssumption DEF Cap
  <2> QED
    BY <2>1, <2>2, <2>3, StoreAssumption
    DEF StoreInv, StoreTypes, CountIsKept, PagesAreComplete, LoadUnderWay, Cap, NoOid
<1> QED
  BY <1>1, <1>2

LEMMA StoreStep ==
  ASSUME StoreInv, [StoreNext]_storeVars
  PROVE  StoreInv'
<1>1. CASE AddRow \/ \E oid \in layer : DeleteRow(oid)
  BY <1>1, AddStep, DeleteStep
<1>2. CASE LayerOutage
  BY <1>2 DEF LayerOutage, loadVars, StoreInv, StoreTypes, CountIsKept, PagesAreComplete, LoadUnderWay
<1>3. CASE Grow
  BY <1>3, OtherStep DEF Grow
<1>4. CASE GotLock
  <2>1. CASE Head(loaders) # Refresh /\ graph
    BY <1>4, <2>1, PassOnStep DEF GotLock
  <2>2. CASE ~(Head(loaders) # Refresh /\ graph)
    BY <1>4, <2>2 DEF GotLock, layerVars, loadVars, StoreInv, StoreTypes, CountIsKept, PagesAreComplete, LoadUnderWay
  <2> QED
    BY <2>1, <2>2
<1>5. CASE CountRows
  BY <1>5, CountStep
<1>6. CASE LoadFails
  BY <1>6, PassOnStep DEF LoadFails, FailLoad
<1>7. CASE FetchPage
  BY <1>7, FetchStep
<1>8. CASE BuildGraph
  BY <1>8, PassOnStep DEF BuildGraph
<1>9. ASSUME NEW r \in Requests, GetGraph(r) \/ AnswerRoute(r)
      PROVE  StoreInv'
  BY <1>9, OtherStep DEF GetGraph, AnswerRoute
<1>10. ASSUME NEW r \in Requests, CancelRoute(r)
       PROVE  StoreInv'
  <2>1. CASE PassOn
    BY <1>10, <2>1, PassOnStep DEF CancelRoute
  <2>2. CASE ~PassOn
    BY <1>10, <2>2, OtherStep DEF CancelRoute
  <2> QED
    BY <2>1, <2>2
<1>11. CASE UNCHANGED storeVars
  BY <1>11, OtherStep DEF storeVars
<1> QED
  BY <1>1, <1>2, <1>3, <1>4, <1>5, <1>6, <1>7, <1>8, <1>9, <1>10, <1>11 DEF StoreNext, Load

\* However the layer is edited between the pages of a query, the graph is built from every
\* road that was there throughout and from none that was never there (query_all, _rebuild).
THEOREM RoadsAreKeptHolds == StoreSpec => []RoadsAreKept
<1>1. StoreInv => RoadsAreKept
  BY DEF StoreInv, CountIsKept, PagesAreComplete, LoadUnderWay, RoadsAreKept
<1> QED
  BY StoreInitially, StoreStep, <1>1, PTL DEF StoreSpec

---------------------------------------------------------------------------
(* The line for the lock of the road graph, and the types of the store. *)

\* Everybody in line stands there once, the load has a holder, and the requests in line
\* are those that wait for the graph.
LoadersKept ==
    /\ loaders \in Seq(Loaders) /\ IsInjective(loaders)
    /\ loadStep # "locked" => loaders # <<>>
    /\ using \in [Requests -> {Free, Waits, Searches}]
    /\ \A r \in Requests : using[r] = Waits <=> Waiting(r)

StoreBounds ==
    /\ added <= MaxOid /\ online \in BOOLEAN /\ graph \in BOOLEAN
    /\ age \in 0..GraphTtl + 1
    /\ Cardinality(rows) <= MaxFeatures

\* Who is in a line without its first, with one more, and without one of them.
LEMMA FirstLeaves ==
  ASSUME NEW S, NEW s \in Seq(S), IsInjective(s), s # <<>>
  PROVE  /\ Tail(s) \in Seq(S) /\ IsInjective(Tail(s)) /\ Head(s) \in S
         /\ \E i \in DOMAIN s : s[i] = Head(s)
         /\ \A w : (\E i \in DOMAIN Tail(s) : Tail(s)[i] = w) <=> w # Head(s) /\ \E i \in DOMAIN s : s[i] = w
<1> DEFINE t == Tail(s)
           n == Len(s)
<1>1. n \in Nat /\ n >= 1 /\ DOMAIN s = 1..n /\ Head(s) = s[1]
  OBVIOUS
<1>2. t \in Seq(S) /\ DOMAIN t = 1..n - 1 /\ \A i \in 1..n - 1 : t[i] = s[i + 1]
  OBVIOUS
<1>3. \A i, j \in 1..n : s[i] = s[j] => i = j
  BY <1>1 DEF IsInjective
<1> HIDE DEF t, n
<1>4. IsInjective(t)
  <2> SUFFICES ASSUME NEW i \in 1..n - 1, NEW j \in 1..n - 1, t[i] = t[j] PROVE i = j
    BY <1>2 DEF IsInjective
  <2>1. i + 1 \in 1..n /\ j + 1 \in 1..n /\ s[i + 1] = s[j + 1]
    BY <1>1, <1>2
  <2> QED
    BY <1>3, <2>1
<1>5. ASSUME NEW i \in 1..n - 1
      PROVE  t[i] # Head(s) /\ \E j \in 1..n : s[j] = t[i]
  <2>1. i + 1 \in 1..n /\ 1 \in 1..n /\ i + 1 # 1 /\ t[i] = s[i + 1]
    BY <1>1, <1>2
  <2> QED
    BY <1>1, <1>3, <2>1
<1>6. ASSUME NEW i \in 1..n, s[i] # Head(s)
      PROVE  \E j \in 1..n - 1 : t[j] = s[i]
  <2>1. i # 1
    BY <1>1, <1>6
  <2>2. i - 1 \in 1..n - 1 /\ (i - 1) + 1 = i
    BY <1>1, <2>1
  <2> QED
    BY <1>2, <2>2
<1>7. ASSUME NEW w
      PROVE  (\E i \in DOMAIN t : t[i] = w) <=> w # Head(s) /\ \E i \in DOMAIN s : s[i] = w
  <2>1. ASSUME NEW i \in DOMAIN t, t[i] = w
        PROVE  w # Head(s) /\ \E j \in DOMAIN s : s[j] = w
    BY <1>1, <1>2, <1>5, <2>1
  <2>2. ASSUME NEW i \in DOMAIN s, s[i] = w, w # Head(s)
        PROVE  \E j \in DOMAIN t : t[j] = w
    BY <1>1, <1>2, <1>6, <2>2
  <2> QED
    BY <2>1, <2>2
<1>8. Head(s) \in S /\ \E i \in DOMAIN s : s[i] = Head(s)
  BY <1>1
<1> QED
  BY <1>2, <1>4, <1>7, <1>8 DEF t

LEMMA OneJoins ==
  ASSUME NEW S, NEW s \in Seq(S), IsInjective(s), NEW e \in S, ~ \E i \in DOMAIN s : s[i] = e
  PROVE  /\ Append(s, e) \in Seq(S) /\ IsInjective(Append(s, e)) /\ Append(s, e) # <<>>
         /\ \A w : (\E i \in DOMAIN Append(s, e) : Append(s, e)[i] = w)
                      <=> w = e \/ \E i \in DOMAIN s : s[i] = w
<1> DEFINE t == Append(s, e)
           n == Len(s)
<1>1. n \in Nat /\ DOMAIN s = 1..n
  OBVIOUS
<1>2. /\ t \in Seq(S) /\ DOMAIN t = 1..n + 1 /\ t[n + 1] = e /\ \A i \in 1..n : t[i] = s[i]
      /\ Len(t) = n + 1
  OBVIOUS
<1>3. \A i, j \in 1..n : s[i] = s[j] => i = j
  BY <1>1 DEF IsInjective
<1> HIDE DEF t, n
<1>4. IsInjective(t)
  BY <1>1, <1>2, <1>3 DEF IsInjective
<1>5. t # <<>>
  BY <1>1, <1>2
<1>6. ASSUME NEW w
      PROVE  (\E i \in DOMAIN t : t[i] = w) <=> w = e \/ \E i \in DOMAIN s : s[i] = w
  BY <1>1, <1>2
<1> QED
  BY <1>2, <1>4, <1>5, <1>6 DEF t

LEMMA OneLeaves ==
  ASSUME NEW S, NEW s \in Seq(S), IsInjective(s), NEW k \in DOMAIN s
  PROVE  /\ RemoveAt(s, k) \in Seq(S) /\ IsInjective(RemoveAt(s, k))
         /\ k # 1 => RemoveAt(s, k) # <<>>
         /\ \A w : (\E i \in DOMAIN RemoveAt(s, k) : RemoveAt(s, k)[i] = w)
                      <=> w # s[k] /\ \E i \in DOMAIN s : s[i] = w
<1> DEFINE t == RemoveAt(s, k)
           n == Len(s)
<1>1. n \in Nat /\ DOMAIN s = 1..n /\ k \in 1..n
  OBVIOUS
<1>2. t \in Seq(S) /\ DOMAIN t = 1..n - 1 /\ \A i \in 1..n - 1 : t[i] = s[IF i < k THEN i ELSE i + 1]
  BY RemovedAt
<1>3. \A i, j \in 1..n : s[i] = s[j] => i = j
  BY <1>1 DEF IsInjective
<1> HIDE DEF t, n
<1>4. IsInjective(t)
  <2> SUFFICES ASSUME NEW i \in 1..n - 1, NEW j \in 1..n - 1, t[i] = t[j] PROVE i = j
    BY <1>2 DEF IsInjective
  <2>1. (IF i < k THEN i ELSE i + 1) = (IF j < k THEN j ELSE j + 1)
    BY <1>1, <1>2, <1>3
  <2> QED
    BY <1>1, <2>1
<1>5. k # 1 => t # <<>>
  <2>1. k # 1 => 1 \in DOMAIN t
    BY <1>1, <1>2
  <2> QED
    BY <2>1
<1>6. ASSUME NEW i \in 1..n - 1
      PROVE  t[i] # s[k] /\ \E j \in 1..n : s[j] = t[i]
  <2>1. PICK j \in 1..n : j = (IF i < k THEN i ELSE i + 1) /\ j # k
    BY <1>1
  <2> QED
    BY <1>1, <1>2, <1>3, <2>1
<1>7. ASSUME NEW i \in 1..n, s[i] # s[k]
      PROVE  \E j \in 1..n - 1 : t[j] = s[i]
  <2>1. i # k
    BY <1>7
  <2>2. PICK j \in 1..n - 1 : j = IF i < k THEN i ELSE i - 1
    BY <1>1, <2>1
  <2>3. i = IF j < k THEN j ELSE j + 1
    BY <1>1, <2>1, <2>2
  <2> QED
    BY <1>2, <2>3
<1> QED
  BY <1>1, <1>2, <1>4, <1>5, <1>6, <1>7 DEF t

\* The holder gives up the lock and does not wait any more.
LEMMA HandOver ==
  ASSUME LoadersKept, loaders # <<>>, PassOn, using' \in [Requests -> {Free, Waits, Searches}],
         \A r \in Requests : using'[r] = using[r] \/ r = Head(loaders),
         Head(loaders) \in Requests => using'[Head(loaders)] # Waits
  PROVE  LoadersKept'
<1>1. /\ loaders' \in Seq(Loaders) /\ IsInjective(loaders') /\ loadStep' = "locked"
      /\ \A w : (\E i \in DOMAIN loaders' : loaders'[i] = w)
                  <=> w # Head(loaders) /\ \E i \in DOMAIN loaders : loaders[i] = w
  <2>1. loaders \in Seq(Loaders) /\ IsInjective(loaders) /\ loaders' = Tail(loaders) /\ loadStep' = "locked"
    BY DEF LoadersKept, PassOn
  <2> QED
    BY <2>1, FirstLeaves, ZenonT(30)
<1>2. ASSUME NEW r \in Requests
      PROVE  using'[r] = Waits <=> \E i \in DOMAIN loaders' : loaders'[i] = r
  BY <1>1 DEF LoadersKept, Waiting
<1> QED
  BY <1>1, <1>2 DEF LoadersKept, Waiting

LEMMA LoadersStay ==
  ASSUME LoadersKept, UNCHANGED <<loaders, using>>, loadStep' # "locked" => loadStep # "locked"
  PROVE  LoadersKept'
  BY DEF LoadersKept, Waiting

LEMMA FailLoadStep ==
  ASSUME LoadersKept, loaders # <<>>, FailLoad
  PROVE  LoadersKept'
<1>1. PassOn /\ using' = [w \in Requests |-> IF w = Head(loaders) THEN Free ELSE using[w]]
  BY DEF FailLoad
<1>2. \A r \in Requests : using'[r] = using[r] \/ r = Head(loaders)
  BY <1>1 DEF LoadersKept
<1>3. Head(loaders) \in Requests => using'[Head(loaders)] # Waits
  BY <1>1 DEF Free, Waits
<1>4. using' \in [Requests -> {Free, Waits, Searches}]
  BY <1>1 DEF LoadersKept
<1> QED
  BY <1>1, <1>2, <1>3, <1>4, HandOver

LEMMA LoadersStep ==
  ASSUME LoadersKept, [StoreNext]_storeVars
  PROVE  LoadersKept'
<1>1. CASE AddRow \/ (\E oid \in layer : DeleteRow(oid)) \/ LayerOutage \/ Grow \/ UNCHANGED storeVars
  <2>1. UNCHANGED <<loaders, using, loadStep>>
    BY <1>1 DEF AddRow, DeleteRow, LayerOutage, Grow, storeVars
  <2> QED
    BY <2>1, LoadersStay
<1>2. CASE GotLock
  <2>1. CASE Head(loaders) # Refresh /\ graph
    <3>1. PassOn /\ using' = [using EXCEPT ![Head(loaders)] = Searches] /\ loaders # <<>>
      BY <1>2, <2>1 DEF GotLock
    <3>2. using' \in [Requests -> {Free, Waits, Searches}]
      BY <3>1 DEF LoadersKept
    <3>3. \A r \in Requests : using'[r] = using[r] \/ r = Head(loaders)
      BY <3>1 DEF LoadersKept
    <3>4. Head(loaders) \in Requests => using'[Head(loaders)] # Waits
      BY <3>1 DEF LoadersKept, Searches, Waits
    <3> QED
      BY <3>1, <3>2, <3>3, <3>4, HandOver
  <2>2. CASE ~(Head(loaders) # Refresh /\ graph)
    BY <1>2, <2>2 DEF GotLock, LoadersKept, Waiting
  <2> QED
    BY <2>1, <2>2
<1>3. CASE CountRows
  <2>1. CASE Cardinality(layer) > MaxFeatures
    <3>1. FailLoad /\ loaders # <<>>
      BY <1>3, <2>1 DEF CountRows, LoadersKept
    <3> QED
      BY <3>1, FailLoadStep
  <2>2. CASE ~(Cardinality(layer) > MaxFeatures)
    BY <1>3, <2>2, LoadersStay DEF CountRows
  <2> QED
    BY <2>1, <2>2
<1>4. CASE LoadFails
  <2>1. FailLoad /\ loaders # <<>>
    BY <1>4 DEF LoadFails, LoadersKept
  <2> QED
    BY <2>1, FailLoadStep
<1>5. CASE FetchPage
  BY <1>5, LoadersStay DEF FetchPage
<1>6. CASE BuildGraph
  <2>1. PassOn /\ using' = [w \in Requests |-> IF w = Head(loaders) THEN Searches ELSE using[w]]
    BY <1>6 DEF BuildGraph
  <2>2. loaders # <<>>
    BY <1>6 DEF BuildGraph, LoadersKept
  <2>3. \A r \in Requests : using'[r] = using[r] \/ r = Head(loaders)
    BY <2>1 DEF LoadersKept
  <2>4. Head(loaders) \in Requests => using'[Head(loaders)] # Waits
    BY <2>1 DEF Searches, Waits
  <2>5. using' \in [Requests -> {Free, Waits, Searches}]
    BY <2>1 DEF LoadersKept
  <2> QED
    BY <2>1, <2>2, <2>3, <2>4, <2>5, HandOver
<1>7. ASSUME NEW r \in Requests, GetGraph(r)
      PROVE  LoadersKept'
  <2>1. using[r] = Free /\ UNCHANGED loadStep /\ ~Waiting(r)
    BY <1>7 DEF GetGraph, LoadersKept, Free, Waits
  <2>2. CASE ~graph
    <3>1. loaders' = Append(loaders, r) /\ using' = [using EXCEPT ![r] = Waits]
      BY <1>7, <2>2 DEF GetGraph
    <3>2. /\ loaders' \in Seq(Loaders) /\ IsInjective(loaders') /\ loaders' # <<>>
          /\ \A w : (\E i \in DOMAIN loaders' : loaders'[i] = w)
                      <=> w = r \/ \E i \in DOMAIN loaders : loaders[i] = w
      BY <2>1, <3>1, OneJoins DEF LoadersKept, Loaders, Waiting
    <3>3. using' \in [Requests -> {Free, Waits, Searches}]
      BY <3>1 DEF LoadersKept
    <3>4. \A w \in Requests : using'[w] = Waits <=> \E i \in DOMAIN loaders' : loaders'[i] = w
      BY <3>1, <3>2 DEF LoadersKept, Waiting
    <3> QED
      BY <2>1, <3>2, <3>3, <3>4 DEF LoadersKept, Waiting
  <2>3. CASE graph
    <3>1. /\ using' = [using EXCEPT ![r] = Searches]
          /\ loaders' = IF StaleGraph /\ ~Waiting(Refresh) THEN Append(loaders, Refresh) ELSE loaders
      BY <1>7, <2>3 DEF GetGraph
    <3>2. /\ loaders' \in Seq(Loaders) /\ IsInjective(loaders')
          /\ loaders # <<>> => loaders' # <<>>
          /\ \A w \in Requests : (\E i \in DOMAIN loaders' : loaders'[i] = w)
                      <=> \E i \in DOMAIN loaders : loaders[i] = w
      <4>1. CASE UNCHANGED loaders
        BY <4>1 DEF LoadersKept
      <4>2. CASE loaders' = Append(loaders, Refresh) /\ ~Waiting(Refresh)
        <5>1. /\ loaders' \in Seq(Loaders) /\ IsInjective(loaders') /\ loaders' # <<>>
              /\ \A w : (\E i \in DOMAIN loaders' : loaders'[i] = w)
                      <=> w = Refresh \/ \E i \in DOMAIN loaders : loaders[i] = w
          BY <4>2, OneJoins DEF LoadersKept, Loaders, Waiting
        <5> QED
          BY <5>1, RefreshAssumption
      <4> QED
        BY <3>1, <4>1, <4>2
    <3>3. using' \in [Requests -> {Free, Waits, Searches}]
      BY <3>1 DEF LoadersKept
    <3>4. \A w \in Requests : using'[w] = Waits <=> using[w] = Waits
      BY <2>1, <3>1 DEF LoadersKept, Free, Waits, Searches
    <3>5. \A w \in Requests : using'[w] = Waits <=> \E i \in DOMAIN loaders' : loaders'[i] = w
      BY <3>2, <3>4 DEF LoadersKept, Waiting
    <3> QED
      BY <2>1, <3>2, <3>3, <3>5 DEF LoadersKept, Waiting
  <2> QED
    BY <2>2, <2>3
<1>8. ASSUME NEW r \in Requests, AnswerRoute(r)
      PROVE  LoadersKept'
  BY <1>8 DEF AnswerRoute, LoadersKept, Waiting, Free, Waits, Searches
<1>9. ASSUME NEW r \in Requests, CancelRoute(r)
      PROVE  LoadersKept'
  <2>1. using' = [using EXCEPT ![r] = Free]
    BY <1>9 DEF CancelRoute
  <2>2. /\ using' \in [Requests -> {Free, Waits, Searches}] /\ using'[r] = Free
        /\ \A w \in Requests : using'[w] = using[w] \/ w = r
    BY <2>1 DEF LoadersKept
  <2>3. CASE ~Waiting(r) /\ UNCHANGED <<loaders, loadStep>>
    BY <2>2, <2>3 DEF LoadersKept, Waiting, Free, Waits
  <2>4. ASSUME NEW i \in DOMAIN loaders, loaders[i] = r, i = 1, PassOn
        PROVE  LoadersKept'
    <3>1. loaders # <<>> /\ Head(loaders) = r
      BY <2>4 DEF LoadersKept
    <3> QED
      BY <2>2, <2>4, <3>1, HandOver DEF Free, Waits
  <2>5. ASSUME NEW i \in DOMAIN loaders, loaders[i] = r, i # 1,
               loaders' = RemoveAt(loaders, i), UNCHANGED loadStep
        PROVE  LoadersKept'
    <3>1. /\ loaders' \in Seq(Loaders) /\ IsInjective(loaders') /\ loaders' # <<>>
          /\ \A w : (\E j \in DOMAIN loaders' : loaders'[j] = w)
                      <=> w # r /\ \E j \in DOMAIN loaders : loaders[j] = w
      <4>1. loaders \in Seq(Loaders) /\ IsInjective(loaders)
        BY DEF LoadersKept
      <4> QED
        <5>1. /\ RemoveAt(loaders, i) \in Seq(Loaders) /\ IsInjective(RemoveAt(loaders, i))
              /\ i # 1 => RemoveAt(loaders, i) # <<>>
              /\ \A w : (\E j \in DOMAIN RemoveAt(loaders, i) : RemoveAt(loaders, i)[j] = w)
                      <=> w # loaders[i] /\ \E j \in DOMAIN loaders : loaders[j] = w
          BY <4>1, OneLeaves
        <5> QED
          BY <2>5, <5>1, Zenon
    <3>2. \A w \in Requests : using'[w] = Waits <=> \E j \in DOMAIN loaders' : loaders'[j] = w
      BY <2>2, <3>1 DEF LoadersKept, Waiting, Free, Waits
    <3> QED
      BY <2>2, <3>1, <3>2 DEF LoadersKept, Waiting
  <2> QED
    BY <1>9, <2>3, <2>4, <2>5 DEF CancelRoute
<1> QED
  BY <1>1, <1>2, <1>3, <1>4, <1>5, <1>6, <1>7, <1>8, <1>9 DEF StoreNext, Load

\* A page that is cut to the limit fits it: its highest row has few enough below.
LEMMA PageFits ==
  ASSUME StoreInv, FetchPage
  PROVE  Cardinality(rows') <= Cap
<1>1. PICK all \in SUBSET (1..added) : rows' = {oid \in all : Cardinality({o \in all : o <= oid}) <= Cap}
  <2>1. PICK a \in PageAnswers :
          rows' = {oid \in rows \cup a.page : Cardinality({o \in rows \cup a.page : o <= oid}) <= Cap}
    BY DEF FetchPage
  <2>2. a.page \subseteq layer
    <3>1. \A size : Page(size) \subseteq layer
      BY DEF Page
    <3>2. \E size : a.page = Page(size)
      BY DEF PageAnswers
    <3> QED
      BY <3>1, <3>2
  <2> QED
    BY <2>1, <2>2 DEF StoreInv, StoreTypes
<1>2. StoreInv'
  BY FetchStep
<1>3. rows' \in SUBSET (1..added') /\ added' \in Nat
  BY <1>2 DEF StoreInv, StoreTypes
<1>4. CASE rows' = {}
  BY <1>4, FS_EmptySet, StoreAssumption DEF Cap
<1>5. CASE rows' # {}
  <2>1. PICK m : m \in rows' /\ \A o \in rows' : o <= m
    BY <1>3, <1>5, Largest
  <2> DEFINE below == {o \in all : o <= m}
  <2>2. rows' \subseteq below /\ Cardinality(below) <= Cap
    BY <1>1, <2>1
  <2>3. below \in SUBSET (1..added) /\ added \in Nat
    BY DEF StoreInv, StoreTypes
  <2>4. IsFiniteSet(below) /\ Cardinality(below) \in Nat
    BY <2>3, OidsAreFinite
  <2>5. Cardinality(rows') <= Cardinality(below) /\ Cardinality(rows') \in Nat
    BY <1>3, <2>2, <2>4, FS_Subset, FS_CardinalityType
  <2> QED
    BY <2>2, <2>4, <2>5, StoreAssumption DEF Cap
<1> QED
  BY <1>4, <1>5

LEMMA BoundsStep ==
  ASSUME StoreInv, StoreBounds, [StoreNext]_storeVars
  PROVE  StoreBounds'
<1> USE StoreAssumption DEF StoreBounds
<1>1. CASE AddRow
  BY <1>1 DEF AddRow, loadVars, StoreInv, StoreTypes
<1>2. CASE (\E oid \in layer : DeleteRow(oid)) \/ LayerOutage
  BY <1>2 DEF DeleteRow, LayerOutage, loadVars
<1>3. ASSUME PassOn PROVE Cardinality(rows') <= MaxFeatures
  BY <1>3, FS_EmptySet DEF PassOn
<1>4. ASSUME FailLoad PROVE StoreBounds'
  BY <1>3, <1>4 DEF FailLoad, layerVars
<1>5. CASE GotLock
  BY <1>3, <1>5 DEF GotLock, layerVars, loadVars
<1>6. CASE CountRows
  BY <1>4, <1>6 DEF CountRows, layerVars
<1>7. CASE LoadFails
  BY <1>4, <1>7 DEF LoadFails
<1>8. CASE FetchPage
  <2>1. Cardinality(rows') <= MaxFeatures
    BY <1>8, PageFits DEF Cap
  <2> QED
    BY <1>8, <2>1 DEF FetchPage, layerVars
<1>9. CASE BuildGraph
  BY <1>3, <1>9 DEF BuildGraph, layerVars
<1>10. CASE Grow
  BY <1>10 DEF Grow, layerVars, loadVars
<1>11. ASSUME NEW r \in Requests, GetGraph(r) \/ AnswerRoute(r)
       PROVE  StoreBounds'
  BY <1>11 DEF GetGraph, AnswerRoute, layerVars, loadVars
<1>12. ASSUME NEW r \in Requests, CancelRoute(r)
       PROVE  StoreBounds'
  BY <1>3, <1>12 DEF CancelRoute, layerVars, loadVars
<1>13. CASE UNCHANGED storeVars
  BY <1>13 DEF storeVars, layerVars, loadVars
<1> QED
  BY <1>1, <1>2, <1>5, <1>6, <1>7, <1>8, <1>9, <1>10, <1>11, <1>12, <1>13 DEF StoreNext, Load

LEMMA StoreKeptInitially == StoreInit => LoadersKept /\ StoreBounds
<1> SUFFICES ASSUME StoreInit PROVE LoadersKept /\ StoreBounds
  OBVIOUS
<1>1. loaders \in Seq(Loaders) /\ IsInjective(loaders) /\ \A w : ~Waiting(w)
  BY DEF StoreInit, IsInjective, Waiting
<1>2. LoadersKept
  BY <1>1 DEF StoreInit, LoadersKept, Free, Waits
<1>3. online \in BOOLEAN /\ graph \in BOOLEAN
  BY DEF StoreInit
<1> QED
  BY <1>2, <1>3, StoreAssumption, FS_EmptySet DEF StoreInit, StoreBounds

LEMMA StoreIsTyped == StoreInv /\ LoadersKept /\ StoreBounds => StoreTypeOK
  BY DEF StoreInv, StoreTypes, LoadersKept, StoreBounds, StoreTypeOK

\* Whatever loads, fails, is cancelled or edited: a load has a holder, those in line for the
\* lock stand there once and are just the requests that wait for the graph, and a load never
\* keeps more rows than the limit (_get_graph, _rebuild, query_all).
THEOREM RoadStoreTypes == StoreSpec => []StoreTypeOK
<1>1. StoreInv /\ LoadersKept /\ StoreBounds /\ [StoreNext]_storeVars => (StoreInv /\ LoadersKept /\ StoreBounds)'
  BY StoreStep, LoadersStep, BoundsStep
<1> QED
  BY StoreInitially, StoreKeptInitially, <1>1, StoreIsTyped, PTL DEF StoreSpec

---------------------------------------------------------------------------
(* The failure limiter, which is asked before the await and told after it. *)

Stages == {"free", "authorizing", "describing", "serving", "demo", "queued", "exploring", "probing"}

\* Requests whose credential is with Convex: they passed the limiter and may still fail.
AskingSet == {"authorizing", "describing"}
InFlight == {c \in Calls : stage[c] \in AskingSet}

LimiterTypes == stage \in [Calls -> Stages] /\ misses \in 0..FailureLimit /\ refusedCalls \in Nat

\* Below the limit every refused call is counted.  At the limit the refused calls and
\* those that may still be refused leave out the request that reached it.
CallsAreCounted ==
    /\ misses < FailureLimit => refusedCalls <= misses
    /\ misses = FailureLimit => refusedCalls + Cardinality(InFlight) < FailureLimit + Cardinality(Calls)

LimiterInv == LimiterTypes /\ CallsAreCounted

LEMMA InFlightIsFinite ==
  /\ IsFiniteSet(InFlight) /\ Cardinality(InFlight) \in Nat /\ Cardinality(Calls) \in Nat
  /\ Cardinality(InFlight) <= Cardinality(Calls)
  BY RequestsAssumption, FS_Subset, FS_CardinalityType DEF InFlight

\* A set of requests without one of them is smaller than all.
LEMMA OneLess ==
  ASSUME NEW S \in SUBSET Calls, NEW c \in Calls, c \notin S
  PROVE  IsFiniteSet(S) /\ Cardinality(S) \in Nat /\ Cardinality(S) < Cardinality(Calls)
<1>1. S \subseteq Calls \ {c}
  OBVIOUS
<1>2. IsFiniteSet(Calls \ {c}) /\ Cardinality(Calls \ {c}) = Cardinality(Calls) - 1
  BY RequestsAssumption, FS_RemoveElement
<1>3. IsFiniteSet(S) /\ Cardinality(S) <= Cardinality(Calls \ {c})
  BY <1>1, <1>2, FS_Subset
<1> QED
  BY <1>2, <1>3, FS_CardinalityType, RequestsAssumption

\* A request whose credential was with Convex has its answer: one less is in flight.
LEMMA AnswerLeaves ==
  ASSUME LimiterTypes, NEW c \in Calls, NEW from \in AskingSet, NEW to \in Stages \ AskingSet,
         Moves(c, from, to)
  PROVE  /\ stage' \in [Calls -> Stages]
         /\ Cardinality(InFlight') = Cardinality(InFlight) - 1
<1>1. stage' \in [Calls -> Stages]
  BY DEF LimiterTypes, Moves
<1>2. InFlight' = InFlight \ {c} /\ c \in InFlight
  BY DEF LimiterTypes, Moves, InFlight
<1>3. IsFiniteSet(InFlight)
  BY InFlightIsFinite
<1> QED
  BY <1>1, <1>2, <1>3, FS_RemoveElement

\* A request that moves outside Convex changes nothing that is in flight there.
LEMMA MovesOutside ==
  ASSUME LimiterTypes, NEW c \in Calls, NEW from \in Stages \ AskingSet, NEW to \in Stages \ AskingSet,
         Moves(c, from, to)
  PROVE  stage' \in [Calls -> Stages] /\ InFlight' = InFlight
  BY DEF LimiterTypes, Moves, InFlight

\* The steps that have nothing to do with the limiter.
LEMMA OtherCallSteps ==
  ASSUME LimiterInv, UNCHANGED <<misses, refusedCalls>>, stage' \in [Calls -> Stages], InFlight' = InFlight
  PROVE  LimiterInv'
  BY DEF LimiterInv, LimiterTypes, CallsAreCounted

LEMMA LimiterInitially == ApiInit => LimiterInv
  BY RequestsAssumption DEF ApiInit, LimiterInv, LimiterTypes, CallsAreCounted, Stages

\* An answer of Convex that refuses: counted below the limit, foreseen at it.
LEMMA RefusedCallStep ==
  ASSUME LimiterInv, NEW c \in Calls, NEW from \in AskingSet, RefusedAs(c, from)
  PROVE  LimiterInv'
<1> USE RequestsAssumption, InFlightIsFinite DEF LimiterInv, LimiterTypes
<1>1. Moves(c, from, "free") /\ RecordFailure /\ refusedCalls' = refusedCalls + 1
  BY DEF RefusedAs, Responds
<1>2. stage' \in [Calls -> Stages] /\ Cardinality(InFlight') = Cardinality(InFlight) - 1
  BY <1>1, AnswerLeaves DEF Stages, AskingSet
<1>3. misses' \in 0..FailureLimit /\ refusedCalls' \in Nat
  BY <1>1 DEF RecordFailure
<1>4. CallsAreCounted'
  <2>1. CASE misses < FailureLimit
    BY <1>1, <1>2, <2>1 DEF CallsAreCounted, RecordFailure
  <2>2. CASE misses = FailureLimit
    BY <1>1, <1>2, <2>2 DEF CallsAreCounted, RecordFailure
  <2> QED
    BY <2>1, <2>2
<1> QED
  BY <1>2, <1>3, <1>4

\* An answer that does not refuse.
LEMMA OtherAnswer ==
  ASSUME LimiterInv, NEW c \in Calls, NEW from \in AskingSet, NEW to \in Stages \ AskingSet,
         Moves(c, from, to), UNCHANGED <<misses, refusedCalls>>
  PROVE  LimiterInv'
<1>1. stage' \in [Calls -> Stages] /\ Cardinality(InFlight') = Cardinality(InFlight) - 1
  BY AnswerLeaves DEF LimiterInv
<1> QED
  BY <1>1, InFlightIsFinite, RequestsAssumption DEF LimiterInv, LimiterTypes, CallsAreCounted

\* A credential that fails without Convex is counted by a request that is not in flight.
LEMMA KnownBadStep ==
  ASSUME LimiterInv, NEW c \in Calls, KnownBad(c)
  PROVE  LimiterInv'
<1> USE RequestsAssumption DEF LimiterInv, LimiterTypes
<1>1. Moves(c, "free", "free") /\ misses < FailureLimit /\ RecordFailure /\ UNCHANGED refusedCalls
  BY DEF KnownBad, Responds, Blocked
<1>2. stage' \in [Calls -> Stages] /\ InFlight' = InFlight
  BY <1>1, MovesOutside DEF Stages, AskingSet
<1>3. c \notin InFlight
  BY <1>1 DEF Moves, InFlight, AskingSet
<1>4. Cardinality(InFlight) \in Nat /\ Cardinality(Calls) \in Nat /\ Cardinality(InFlight) < Cardinality(Calls)
  BY <1>3, OneLess, InFlightIsFinite DEF InFlight
<1> QED
  BY <1>1, <1>2, <1>4 DEF RecordFailure, CallsAreCounted

\* A request asks Convex only below the limit, where the calls in flight do not matter.
LEMMA AskStep ==
  ASSUME LimiterInv, NEW c \in Calls, AskConvex(c) \/ AskDescription(c)
  PROVE  LimiterInv'
<1>1. misses < FailureLimit /\ UNCHANGED <<misses, refusedCalls>>
  BY RequestsAssumption DEF LimiterInv, LimiterTypes, AskConvex, AskDescription, Blocked, authState
<1>2. stage' \in [Calls -> Stages]
  BY DEF LimiterInv, LimiterTypes, AskConvex, AskDescription, Moves, Stages
<1> QED
  BY <1>1, <1>2 DEF LimiterInv, LimiterTypes, CallsAreCounted

\* The steps of a request that do not involve Convex.
LEMMA OutsideConvexStep ==
  ASSUME LimiterInv, NEW c \in Calls,
         \/ RequestLimits(c) \/ BodySizeLimit(c) \/ Unauthenticated(c) \/ geocode(c) \/ route(c)
         \/ SiteKeyCached(c)
         \/ AskDemo(c) \/ DemoDeclined(c) \/ DemoAllowed(c) \/ DemoSlot(c) \/ DemoBusy(c) \/ DemoEnds(c)
         \/ AskReady(c) \/ ReadyCached(c) \/ ReadyRun(c) \/ ReadyDone(c)
  PROVE  LimiterInv'
<1>1. UNCHANGED <<misses, refusedCalls>>
  <2> USE DEF authState
  <2>1. CASE RequestLimits(c) \/ BodySizeLimit(c) \/ Unauthenticated(c) \/ geocode(c) \/ route(c)
    BY <2>1 DEF RequestLimits, BodySizeLimit, Unauthenticated, geocode, route
  <2>2. CASE SiteKeyCached(c) \/ AskDemo(c) \/ DemoDeclined(c) \/ DemoAllowed(c)
    BY <2>2 DEF SiteKeyCached, AskDemo, DemoDeclined, DemoAllowed
  <2>3. CASE DemoSlot(c) \/ DemoBusy(c) \/ DemoEnds(c)
    BY <2>3 DEF DemoSlot, DemoBusy, DemoEnds
  <2>4. CASE AskReady(c) \/ ReadyCached(c) \/ ReadyRun(c) \/ ReadyDone(c)
    BY <2>4 DEF AskReady, ReadyCached, ReadyRun, ReadyDone
  <2> QED
    BY <2>1, <2>2, <2>3, <2>4
<1>2. \/ UNCHANGED stage
      \/ \E from, to \in Stages \ AskingSet : Moves(c, from, to)
  <2> USE DEF Responds, Stages, AskingSet
  <2>1. CASE RequestLimits(c) \/ BodySizeLimit(c) \/ Unauthenticated(c) \/ geocode(c) \/ route(c)
    BY <2>1 DEF RequestLimits, BodySizeLimit, Unauthenticated, geocode, route
  <2>2. CASE SiteKeyCached(c)
    BY <2>2 DEF SiteKeyCached, WithDescription
  <2>3. CASE AskDemo(c) \/ DemoDeclined(c) \/ DemoAllowed(c)
    BY <2>3 DEF AskDemo, DemoDeclined, DemoAllowed
  <2>4. CASE DemoSlot(c) \/ DemoBusy(c) \/ DemoEnds(c)
    BY <2>4 DEF DemoSlot, DemoBusy, DemoEnds
  <2>5. CASE AskReady(c) \/ ReadyCached(c) \/ ReadyRun(c) \/ ReadyDone(c)
    BY <2>5 DEF AskReady, ReadyCached, ReadyRun, ReadyDone
  <2> QED
    BY <2>1, <2>2, <2>3, <2>4, <2>5
<1>3. stage' \in [Calls -> Stages] /\ InFlight' = InFlight
  BY <1>2, MovesOutside DEF LimiterInv, LimiterTypes, InFlight
<1> QED
  BY <1>1, <1>3, OtherCallSteps

LEMMA LimiterStep ==
  ASSUME LimiterInv, [ApiNext]_apiVars
  PROVE  LimiterInv'
<1>1. CASE Unremember \/ DemoExpires \/ Second
  <2>1. UNCHANGED <<misses, refusedCalls, stage>>
    BY <1>1 DEF Unremember, DemoExpires, Second, authState
  <2> QED
    BY <2>1, OtherCallSteps DEF LimiterInv, LimiterTypes, InFlight
<1>2. CASE NextMinute
  BY <1>2, RequestsAssumption DEF NextMinute, LimiterInv, LimiterTypes, CallsAreCounted
<1>3. ASSUME NEW c \in Calls, Refusal(c)
      PROVE  LimiterInv'
  BY <1>3, RefusedCallStep DEF Refusal, AskingSet
<1>4. ASSUME NEW c \in Calls, Declined(c) \/ Authorized(c) \/ Described(c)
      PROVE  LimiterInv'
  <2>1. UNCHANGED <<misses, refusedCalls>>
    BY <1>4 DEF Declined, Authorized, Described, authState
  <2>2. \E from \in AskingSet, to \in Stages \ AskingSet : Moves(c, from, to)
    BY <1>4 DEF Declined, Authorized, Described, WithDescription, Responds, Stages, AskingSet
  <2> QED
    BY <2>1, <2>2, OtherAnswer
<1>5. ASSUME NEW c \in Calls, KnownBad(c)
      PROVE  LimiterInv'
  BY <1>5, KnownBadStep
<1>6. ASSUME NEW c \in Calls, AskConvex(c) \/ AskDescription(c)
      PROVE  LimiterInv'
  BY <1>6, AskStep
<1>7. CASE UNCHANGED apiVars
  <2>1. UNCHANGED <<misses, refusedCalls, stage>>
    BY <1>7 DEF apiVars, authState
  <2> QED
    BY <2>1, OtherCallSteps DEF LimiterInv, LimiterTypes, InFlight
<1> QED
  BY <1>1, <1>2, <1>3, <1>4, <1>5, <1>6, <1>7, OutsideConvexStep DEF ApiNext

\* Whatever requests interleave at their awaits, bad credentials of one address cost Convex
\* less than the limit and all the requests that may be in flight (FailureLimiter,
\* require_api_key).
THEOREM FailedCallsBoundedHolds == ApiSpec => []FailedCallsBounded
<1>1. LimiterInv => FailedCallsBounded
  BY InFlightIsFinite, RequestsAssumption DEF LimiterInv, LimiterTypes, CallsAreCounted, FailedCallsBounded
<1> QED
  BY LimiterInitially, LimiterStep, <1>1, PTL DEF ApiSpec

Exploring == {c \in Calls : stage[c] = "exploring"}

\* Every slot of the demo is free or held by a request that explores; the holder of the
\* readiness lock is probing.
ApiKept ==
    /\ stage \in [Calls -> Stages]
    /\ knownBad \in BOOLEAN /\ keyAge \in 0..KeyTtl + 1 /\ siteHits \in 0..SiteLimit
    /\ misses \in 0..FailureLimit /\ refusedCalls \in Nat
    /\ demoCached \in BOOLEAN /\ demoFree \in Nat
    /\ demoFree + Cardinality(Exploring) = DemoSlots
    /\ readyAge \in 0..ReadyCache + 1
    /\ prober \in Calls \cup {Nobody} /\ (prober # Nobody => stage[prober] = "probing")

LEMMA ApiIsTyped == ApiKept <=> ApiTypeOK
  BY DEF ApiKept, ApiTypeOK, Stages, Exploring

LEMMA ApiInitially == ApiInit => ApiKept
<1> SUFFICES ASSUME ApiInit PROVE ApiKept
  OBVIOUS
<1>1. Exploring = {}
  BY DEF ApiInit, Exploring
<1>2. Cardinality(Exploring) = 0
  BY <1>1, FS_EmptySet
<1> QED
  <2>1. knownBad \in BOOLEAN /\ demoCached \in BOOLEAN
    BY DEF ApiInit
  <2>2. stage \in [Calls -> Stages]
    BY DEF ApiInit, Stages
  <2>3. /\ keyAge \in 0..KeyTtl + 1 /\ siteHits \in 0..SiteLimit /\ misses \in 0..FailureLimit
        /\ refusedCalls \in Nat /\ readyAge \in 0..ReadyCache + 1
    BY RequestsAssumption DEF ApiInit
  <2>4. demoFree \in Nat /\ demoFree + 0 = DemoSlots
    BY RequestsAssumption DEF ApiInit
  <2> QED
    BY <1>2, <2>1, <2>2, <2>3, <2>4 DEF ApiInit, ApiKept

\* A request that moves takes a slot, gives one back, or leaves them alone.
LEMMA SlotsMove ==
  ASSUME ApiKept, NEW c \in Calls, NEW from \in Stages, NEW to \in Stages, Moves(c, from, to)
  PROVE  /\ stage' \in [Calls -> Stages] /\ Cardinality(Exploring) \in Nat
         /\ from # "exploring" /\ to # "exploring" => Exploring' = Exploring
         /\ from # "exploring" /\ to = "exploring" => Cardinality(Exploring') = Cardinality(Exploring) + 1
         /\ from = "exploring" /\ to # "exploring" => Cardinality(Exploring') = Cardinality(Exploring) - 1
         /\ \A d \in Calls \ {c} : stage'[d] = stage[d]
<1>1. stage' = [stage EXCEPT ![c] = to] /\ stage[c] = from /\ stage \in [Calls -> Stages]
  BY DEF Moves, ApiKept
<1>2. IsFiniteSet(Exploring)
  BY RequestsAssumption, FS_Subset DEF Exploring
<1>3. from # "exploring" /\ to # "exploring" => Exploring' = Exploring
  BY <1>1 DEF Exploring
<1>4. from # "exploring" /\ to = "exploring" => Exploring' = Exploring \cup {c} /\ c \notin Exploring
  BY <1>1 DEF Exploring
<1>5. from = "exploring" /\ to # "exploring" => Exploring' = Exploring \ {c} /\ c \in Exploring
  BY <1>1 DEF Exploring
<1>6. stage' \in [Calls -> Stages] /\ \A d \in Calls \ {c} : stage'[d] = stage[d]
  BY <1>1
<1> QED
  BY <1>2, <1>3, <1>4, <1>5, <1>6, FS_AddElement, FS_RemoveElement, FS_CardinalityType

\* A step that leaves the slots and the lock alone.
LEMMA QuietCall ==
  ASSUME ApiKept, NEW c \in Calls,
         NEW from \in Stages \ {"exploring", "probing"}, NEW to \in Stages \ {"exploring"},
         Moves(c, from, to), UNCHANGED <<demoState, readyState>>,
         knownBad' \in BOOLEAN, keyAge' \in 0..KeyTtl + 1, siteHits' \in 0..SiteLimit,
         misses' \in 0..FailureLimit, refusedCalls' \in Nat
  PROVE  ApiKept'
<1>1. stage' \in [Calls -> Stages] /\ Exploring' = Exploring /\ \A d \in Calls \ {c} : stage'[d] = stage[d]
  BY SlotsMove
<1>2. prober # Nobody => prober # c /\ stage'[prober] = "probing"
  BY <1>1 DEF ApiKept, Moves
<1> QED
  BY <1>1, <1>2 DEF ApiKept, demoState, readyState

LEMMA ApiStep ==
  ASSUME ApiKept, [ApiNext]_apiVars
  PROVE  ApiKept'
<1> USE RequestsAssumption
<1> DEFINE Limits ==
      /\ knownBad' \in BOOLEAN /\ keyAge' \in 0..KeyTtl + 1 /\ siteHits' \in 0..SiteLimit
      /\ misses' \in 0..FailureLimit /\ refusedCalls' \in Nat
<1>1. UNCHANGED authState => Limits
  BY DEF authState, ApiKept
<1>2. RecordFailure => misses' \in 0..FailureLimit
  BY DEF RecordFailure, ApiKept
<1>3. ASSUME NEW c \in Calls,
             \/ RequestLimits(c) \/ BodySizeLimit(c) \/ Unauthenticated(c) \/ AskConvex(c)
             \/ Declined(c) \/ Authorized(c) \/ geocode(c) \/ route(c) \/ AskDescription(c)
             \/ AskDemo(c) \/ DemoDeclined(c) \/ DemoAllowed(c) \/ DemoBusy(c) \/ AskReady(c)
      PROVE  ApiKept'
  <2>1. UNCHANGED <<authState, demoState, readyState>>
    <3>1. CASE RequestLimits(c) \/ BodySizeLimit(c) \/ Unauthenticated(c) \/ AskConvex(c)
      BY <3>1 DEF RequestLimits, BodySizeLimit, Unauthenticated, AskConvex
    <3>2. CASE Declined(c) \/ Authorized(c) \/ geocode(c) \/ route(c) \/ AskDescription(c)
      BY <3>2 DEF Declined, Authorized, geocode, route, AskDescription
    <3>3. CASE AskDemo(c) \/ DemoDeclined(c) \/ DemoAllowed(c) \/ DemoBusy(c) \/ AskReady(c)
      BY <3>3 DEF AskDemo, DemoDeclined, DemoAllowed, DemoBusy, AskReady
    <3> QED
      BY <1>3, <3>1, <3>2, <3>3
  <2>2. \E from \in Stages \ {"exploring", "probing"}, to \in Stages \ {"exploring"} : Moves(c, from, to)
    <3> USE DEF Responds, Stages
    <3>1. CASE RequestLimits(c) \/ BodySizeLimit(c) \/ Unauthenticated(c) \/ AskConvex(c)
      BY <3>1 DEF RequestLimits, BodySizeLimit, Unauthenticated, AskConvex
    <3>2. CASE Declined(c) \/ Authorized(c) \/ geocode(c) \/ route(c) \/ AskDescription(c)
      BY <3>2 DEF Declined, Authorized, geocode, route, AskDescription
    <3>3. CASE AskDemo(c) \/ DemoDeclined(c) \/ DemoAllowed(c) \/ DemoBusy(c) \/ AskReady(c)
      BY <3>3 DEF AskDemo, DemoDeclined, DemoAllowed, DemoBusy, AskReady
    <3> QED
      BY <1>3, <3>1, <3>2, <3>3
  <2>3. Limits
    BY <1>1, <2>1
  <2> QED
    BY <2>1, <2>2, <2>3, QuietCall
<1>4. ASSUME NEW c \in Calls, KnownBad(c)
      PROVE  ApiKept'
  <2>1. Moves(c, "free", "free") /\ UNCHANGED <<demoState, readyState>>
    BY <1>4 DEF KnownBad, Responds
  <2>2. Limits
    BY <1>2, <1>4 DEF KnownBad, ApiKept
  <2> QED
    BY <2>1, <2>2, QuietCall DEF Stages
<1>5. ASSUME NEW c \in Calls, Refusal(c)
      PROVE  ApiKept'
  <2>1. PICK from \in {"authorizing", "describing"} : RefusedAs(c, from)
    BY <1>5 DEF Refusal
  <2>2. Moves(c, from, "free") /\ UNCHANGED <<demoState, readyState>>
    BY <2>1 DEF RefusedAs, Responds
  <2>3. Limits
    BY <1>2, <2>1 DEF RefusedAs, ApiKept
  <2> QED
    BY <2>2, <2>3, QuietCall DEF Stages
<1>6. ASSUME NEW c \in Calls, SiteKeyCached(c) \/ Described(c)
      PROVE  ApiKept'
  <2>1. PICK from \in {"free", "describing"} : WithDescription(c, from)
    BY <1>6 DEF SiteKeyCached, Described
  <2>2. /\ UNCHANGED <<misses, knownBad, refusedCalls, demoState, readyState>>
        /\ keyAge' \in {0, keyAge}
    BY <1>6 DEF SiteKeyCached, Described
  <2>3. siteHits' \in 0..SiteLimit
    BY <2>1 DEF WithDescription, ApiKept
  <2>4. Limits
    BY <2>2, <2>3 DEF ApiKept
  <2>5. \E to \in {"free", "serving"} : Moves(c, from, to)
    BY <2>1 DEF WithDescription, Responds
  <2> QED
    BY <2>2, <2>4, <2>5, QuietCall DEF Stages
<1>7. ASSUME NEW c \in Calls, DemoSlot(c) \/ DemoEnds(c)
      PROVE  ApiKept'
  <2>1. CASE DemoSlot(c)
    <3>1. Moves(c, "queued", "exploring") /\ demoFree > 0 /\ demoFree' = demoFree - 1
      BY <2>1 DEF DemoSlot
    <3>2. /\ stage' \in [Calls -> Stages] /\ Cardinality(Exploring) \in Nat
          /\ Cardinality(Exploring') = Cardinality(Exploring) + 1
          /\ \A d \in Calls \ {c} : stage'[d] = stage[d]
      BY <3>1, SlotsMove DEF Stages
    <3>3. demoFree' \in Nat /\ demoFree' + Cardinality(Exploring') = DemoSlots
      BY <3>1, <3>2 DEF ApiKept
    <3>4. prober # Nobody => prober # c /\ stage'[prober] = "probing"
      BY <3>1, <3>2 DEF ApiKept, Moves
    <3> QED
      BY <2>1, <3>2, <3>3, <3>4 DEF DemoSlot, ApiKept, authState, readyState
  <2>2. CASE DemoEnds(c)
    <3>1. Moves(c, "exploring", "free") /\ demoFree' = demoFree + 1 /\ demoCached' \in BOOLEAN
      BY <2>2 DEF DemoEnds, Responds, ApiKept
    <3>2. /\ stage' \in [Calls -> Stages] /\ Cardinality(Exploring) \in Nat
          /\ Cardinality(Exploring') = Cardinality(Exploring) - 1
          /\ \A d \in Calls \ {c} : stage'[d] = stage[d]
      BY <3>1, SlotsMove DEF Stages
    <3>3. demoFree' \in Nat /\ demoFree' + Cardinality(Exploring') = DemoSlots
      BY <3>1, <3>2 DEF ApiKept
    <3>4. prober # Nobody => prober # c /\ stage'[prober] = "probing"
      BY <3>1, <3>2 DEF ApiKept, Moves
    <3> QED
      BY <2>2, <3>1, <3>2, <3>3, <3>4 DEF DemoEnds, ApiKept, authState, readyState
  <2> QED
    BY <1>7, <2>1, <2>2
<1>8. ASSUME NEW c \in Calls, ReadyCached(c) \/ ReadyDone(c)
      PROVE  ApiKept'
  <2>1. Moves(c, "probing", "free") /\ prober' = Nobody /\ UNCHANGED <<readyAge, authState, demoState>>
    BY <1>8 DEF ReadyCached, ReadyDone, Responds, readyState
  <2>2. stage' \in [Calls -> Stages] /\ Exploring' = Exploring
    BY <2>1, SlotsMove DEF Stages
  <2> QED
    BY <2>1, <2>2 DEF ApiKept, authState, demoState
<1>9. ASSUME NEW c \in Calls, ReadyRun(c)
      PROVE  ApiKept'
  <2>1. stage[c] = "probing" /\ prober' = c /\ readyAge' = 0 /\ UNCHANGED <<stage, authState, demoState>>
    BY <1>9 DEF ReadyRun
  <2>2. Exploring' = Exploring
    BY <2>1 DEF Exploring
  <2> QED
    BY <2>1, <2>2 DEF ApiKept, authState, demoState
<1>10. CASE Unremember \/ NextMinute \/ DemoExpires \/ Second \/ UNCHANGED apiVars
  <2>1. UNCHANGED <<stage, demoFree, prober>>
    BY <1>10 DEF Unremember, NextMinute, DemoExpires, Second, apiVars, demoState, readyState
  <2>2. Exploring' = Exploring
    BY <2>1 DEF Exploring
  <2>3. Limits
    <3>1. CASE UNCHANGED authState
      BY <1>1, <3>1
    <3>2. CASE Unremember
      BY <3>2 DEF Unremember, ApiKept
    <3>3. CASE NextMinute
      <4>1. keyAge' \in 0..KeyTtl + 1
        BY <3>3 DEF NextMinute, ApiKept
      <4> QED
        BY <3>3, <4>1 DEF NextMinute, ApiKept
    <3> QED
      BY <1>10, <3>1, <3>2, <3>3 DEF DemoExpires, Second, apiVars
  <2>4. demoCached' \in BOOLEAN
    BY <1>10 DEF Unremember, NextMinute, DemoExpires, Second, apiVars, demoState, ApiKept
  <2>5. readyAge' \in 0..ReadyCache + 1
    BY <1>10 DEF Unremember, NextMinute, DemoExpires, Second, apiVars, readyState, ApiKept
  <2> QED
    BY <2>1, <2>2, <2>3, <2>4, <2>5 DEF ApiKept
<1> QED
  BY <1>3, <1>4, <1>5, <1>6, <1>7, <1>8, <1>9, <1>10 DEF ApiNext

\* At any await: the semaphore of the demo counts what its holders leave of the slots, so that
\* none is lost or given back twice, and whoever holds readiness_lock is a probe (demo_semaphore,
\* readiness).
THEOREM ApiTypes == ApiSpec => []ApiTypeOK
  BY ApiInitially, ApiStep, ApiIsTyped, PTL DEF ApiSpec

---------------------------------------------------------------------------
(* The demo limits.  What is answered is at most what the rows that are kept *)
(* have counted; an hour's row may be pruned while the hour lasts, and each  *)
(* time the visitor has been answered a whole allowance at most.             *)

MinuteRow(v) == <<<<"ip-minute", v>>, minute>>
AllVisitorsRow == <<<<"global-minute">>, minute>>

MinuteIsCounted ==
    \A v \in Visitors : minuteUnits[v] <= Count(demoWindows, MinuteRow(v)) /\ minuteUnits[v] <= MinuteLimit

AllAreCounted ==
    /\ IsFiniteSet(Units(minuteUnits, Visitors))
    /\ Total(minuteUnits, Visitors) <= Count(demoWindows, AllVisitorsRow)
    /\ Total(minuteUnits, Visitors) <= GlobalMinuteLimit

HourIsCounted ==
    \A v \in Visitors : /\ hourUnits[v] <= HourLimit * restarts[v] + Count(demoWindows, HourRow(v))
                        /\ hourUnits[v] <= HourLimit * restarts[v] + HourLimit

DemoInv == DemoTypeOK /\ MinuteIsCounted /\ AllAreCounted /\ HourIsCounted

LEMMA OneAllowanceMore ==
    ASSUME NEW r \in Nat
    PROVE  /\ HourLimit * r \in Nat
           /\ HourLimit * (r + 1) = HourLimit * r + HourLimit
           /\ HourLimit * (1 + r) = HourLimit * r + HourLimit
  BY DemoAssumption

LEMMA DemoInitially == DemoInit => DemoInv
<1> SUFFICES ASSUME DemoInit PROVE DemoInv
  OBVIOUS
<1>1. DemoTypeOK /\ \A row : Count(demoWindows, row) = 0
  BY DEF DemoInit, DemoTypeOK, EmptyTable, Count
<1>2. \A v \in Visitors : Count(minuteUnits, v) = 0
  BY DEF DemoInit, Count
<1>3. IsFiniteSet(Units(minuteUnits, Visitors)) /\ Total(minuteUnits, Visitors) = 0
  BY <1>2, NoUnits
<1>4. MinuteIsCounted /\ AllAreCounted
  BY <1>1, <1>3, DemoAssumption DEF DemoInit, MinuteIsCounted, AllAreCounted
<1>5. HourIsCounted
  <2>1. HourLimit * 0 = 0 /\ HourLimit \in Nat
    BY DemoAssumption
  <2> QED BY <1>1, <2>1 DEF DemoInit, HourIsCounted
<1> QED BY <1>1, <1>4, <1>5 DEF DemoInv

\* A request counts in the rows of its visitor, admitted or not.
LEMMA HitsCount ==
    ASSUME DemoTypeOK, NEW v \in Visitors, NEW e \in DemoEndpoints, HitAll(v, e)
    PROVE  /\ CostOf[e] \in Nat /\ IsTable(demoWindows')
           /\ \A row : /\ Count(demoWindows, row) \in Nat /\ Count(demoWindows', row) \in Nat
                       /\ Count(demoWindows', row) >= Count(demoWindows, row)
           /\ Count(demoWindows', MinuteRow(v)) = Count(demoWindows, MinuteRow(v)) + CostOf[e]
           /\ Count(demoWindows', AllVisitorsRow) = Count(demoWindows, AllVisitorsRow) + CostOf[e]
           /\ Count(demoWindows', HourRow(v)) = Count(demoWindows, HourRow(v)) + CostOf[e]
<1> DEFINE hits == RowsOf(MinuteLimits(v, e), minute) \cup RowsOf(HourLimits(v), hour)
<1>1. IsTable(demoWindows) /\ CostOf[e] \in Nat
  BY DemoAssumption DEF DemoTypeOK, IsTable
<1>2. demoWindows' = AddTo(demoWindows, hits, CostOf[e])
  BY DEF HitAll
<1>3. \A row : /\ Count(demoWindows, row) \in Nat
               /\ Count(demoWindows', row) = Count(demoWindows, row) + (IF row \in hits THEN CostOf[e] ELSE 0)
  BY <1>1, <1>2, CountAddTo, CountIsNat
<1>4. MinuteRow(v) \in hits /\ AllVisitorsRow \in hits /\ HourRow(v) \in hits
  BY DEF MinuteRow, AllVisitorsRow, HourRow, RowsOf, MinuteLimits, HourLimits
<1> HIDE DEF hits
<1>5. IsTable(demoWindows')
  BY <1>1, <1>2, AddToIsTable
<1> QED BY <1>1, <1>3, <1>4, <1>5

LEMMA RowsStay ==
    ASSUME UNCHANGED demoNow
    PROVE  /\ \A v \in Visitors : MinuteRow(v)' = MinuteRow(v) /\ HourRow(v)' = HourRow(v)
           /\ AllVisitorsRow' = AllVisitorsRow
  BY DEF MinuteRow, HourRow, AllVisitorsRow, minute, hour

LEMMA RefusedKeepsDemo ==
    ASSUME DemoInv, NEW v \in Visitors, NEW e \in DemoEndpoints, DemoRateLimited(v, e)
    PROVE  DemoInv'
<1>1. DemoTypeOK /\ HitAll(v, e) /\ UNCHANGED <<demoNow, minuteUnits, hourUnits, restarts>>
  BY DEF DemoInv, DemoRateLimited, demoHistory
<1>2. /\ IsTable(demoWindows')
      /\ \A row : /\ Count(demoWindows, row) \in Nat /\ Count(demoWindows', row) \in Nat
                  /\ Count(demoWindows', row) >= Count(demoWindows, row)
  BY <1>1, HitsCount
<1>3. DemoTypeOK'
  <2>1. demoArrived' \in Nat
    BY <1>1 DEF DemoTypeOK, HitAll
  <2> QED BY <1>1, <1>2, <2>1 DEF DemoTypeOK, IsTable
<1>4. MinuteIsCounted'
  BY <1>1, <1>2, RowsStay DEF DemoInv, DemoTypeOK, MinuteIsCounted
<1>5. AllAreCounted'
  BY <1>1, <1>2, RowsStay, TotalIsNat DEF DemoInv, AllAreCounted
<1>6. HourIsCounted'
  <2>1. ASSUME NEW w \in Visitors
        PROVE  /\ hourUnits'[w] <= HourLimit * restarts'[w] + Count(demoWindows', HourRow(w)')
               /\ hourUnits'[w] <= HourLimit * restarts'[w] + HourLimit
    <3>1. /\ hourUnits[w] <= HourLimit * restarts[w] + Count(demoWindows, HourRow(w))
          /\ hourUnits[w] <= HourLimit * restarts[w] + HourLimit
          /\ hourUnits[w] \in Nat /\ restarts[w] \in Nat
      BY DEF DemoInv, HourIsCounted, DemoTypeOK
    <3>2. HourLimit * restarts[w] \in Nat
      BY <3>1, OneAllowanceMore
    <3>3. Count(demoWindows', HourRow(w)') >= Count(demoWindows, HourRow(w))
      BY <1>1, <1>2, RowsStay
    <3> QED BY <1>1, <1>2, <3>1, <3>2, <3>3
  <2> QED BY <2>1 DEF HourIsCounted
<1> QED BY <1>3, <1>4, <1>5, <1>6 DEF DemoInv

LEMMA AnsweredKeepsDemo ==
    ASSUME DemoInv, NEW v \in Visitors, NEW e \in DemoEndpoints, DemoOk(v, e)
    PROVE  DemoInv'
<1> DEFINE cost == CostOf[e]
<1>1. /\ DemoTypeOK /\ HitAll(v, e) /\ UNCHANGED <<demoNow, restarts>>
      /\ minuteUnits' = [minuteUnits EXCEPT ![v] = @ + cost]
      /\ hourUnits' = [hourUnits EXCEPT ![v] = @ + cost]
  BY DEF DemoInv, DemoOk
<1>2. /\ cost \in Nat /\ IsTable(demoWindows')
      /\ \A row : /\ Count(demoWindows, row) \in Nat /\ Count(demoWindows', row) \in Nat
                  /\ Count(demoWindows', row) >= Count(demoWindows, row)
      /\ Count(demoWindows', MinuteRow(v)) = Count(demoWindows, MinuteRow(v)) + cost
      /\ Count(demoWindows', AllVisitorsRow) = Count(demoWindows, AllVisitorsRow) + cost
      /\ Count(demoWindows', HourRow(v)) = Count(demoWindows, HourRow(v)) + cost
  BY <1>1, HitsCount
<1>3. /\ minuteUnits \in [Visitors -> Nat] /\ hourUnits \in [Visitors -> Nat] /\ restarts \in [Visitors -> Nat]
      /\ MinuteLimit \in Nat /\ GlobalMinuteLimit \in Nat /\ HourLimit \in Nat
  BY <1>1, DemoAssumption DEF DemoTypeOK
<1>4. /\ Count(demoWindows, MinuteRow(v)) + cost <= MinuteLimit
      /\ Count(demoWindows, AllVisitorsRow) + cost <= GlobalMinuteLimit
      /\ Count(demoWindows, HourRow(v)) + cost <= HourLimit
  <2>1. \A h \in MinuteLimits(v, e) : Count(demoWindows, <<h.bucket, minute>>) + cost <= h.limit
    BY DEF DemoOk, WithinDemoLimits, WithinLimits
  <2>2. \A h \in HourLimits(v) : Count(demoWindows, <<h.bucket, hour>>) + cost <= h.limit
    BY DEF DemoOk, WithinDemoLimits, WithinLimits
  <2> HIDE DEF cost
  <2> QED BY <2>1, <2>2 DEF MinuteLimits, HourLimits, MinuteRow, AllVisitorsRow, HourRow
<1> HIDE DEF cost
<1>5. DemoTypeOK'
  <2>1. demoArrived' \in Nat
    BY <1>1 DEF DemoTypeOK, HitAll
  <2>2. minuteUnits' \in [Visitors -> Nat] /\ hourUnits' \in [Visitors -> Nat]
    BY <1>1, <1>2, <1>3
  <2> QED BY <1>1, <1>2, <2>1, <2>2 DEF DemoTypeOK, IsTable
<1>6. MinuteIsCounted'
  <2>1. ASSUME NEW w \in Visitors
        PROVE  minuteUnits'[w] <= Count(demoWindows', MinuteRow(w)) /\ minuteUnits'[w] <= MinuteLimit
    <3>1. minuteUnits[w] <= Count(demoWindows, MinuteRow(w)) /\ minuteUnits[w] <= MinuteLimit
      BY DEF DemoInv, MinuteIsCounted
    <3> QED BY <1>1, <1>2, <1>3, <1>4, <3>1
  <2> QED BY <1>1, <2>1, RowsStay DEF MinuteIsCounted
<1>7. AllAreCounted'
  <2>1. IsFiniteSet(Units(minuteUnits, Visitors)) /\ Total(minuteUnits, Visitors) <= Count(demoWindows, AllVisitorsRow)
    BY DEF DemoInv, AllAreCounted
  <2>2. /\ \A w \in Visitors \ {v} : Count(minuteUnits', w) = Count(minuteUnits, w)
        /\ Count(minuteUnits', v) = Count(minuteUnits, v) + cost /\ Count(minuteUnits, v) \in Nat
    BY <1>1, <1>2, <1>3 DEF Count
  <2>3. /\ IsFiniteSet(Units(minuteUnits', Visitors))
        /\ Total(minuteUnits', Visitors) = Total(minuteUnits, Visitors) + cost
    BY <1>2, <2>1, <2>2, MoreUnits
  <2>4. Total(minuteUnits, Visitors) \in Nat
    BY <2>1, TotalIsNat
  <2>5. /\ Total(minuteUnits', Visitors) <= Count(demoWindows', AllVisitorsRow)
        /\ Total(minuteUnits', Visitors) <= GlobalMinuteLimit
    BY <1>2, <1>3, <1>4, <2>1, <2>3, <2>4
  <2> QED BY <1>1, <2>3, <2>5, RowsStay DEF AllAreCounted
<1>8. HourIsCounted'
  <2>1. ASSUME NEW w \in Visitors
        PROVE  /\ hourUnits'[w] <= HourLimit * restarts'[w] + Count(demoWindows', HourRow(w))
               /\ hourUnits'[w] <= HourLimit * restarts'[w] + HourLimit
    <3>1. /\ hourUnits[w] <= HourLimit * restarts[w] + Count(demoWindows, HourRow(w))
          /\ hourUnits[w] <= HourLimit * restarts[w] + HourLimit
      BY DEF DemoInv, HourIsCounted
    <3>2. /\ hourUnits[w] \in Nat /\ HourLimit * restarts[w] \in Nat /\ restarts'[w] = restarts[w]
          /\ hourUnits'[w] = hourUnits[w] + (IF w = v THEN cost ELSE 0)
      BY <1>1, <1>2, <1>3, OneAllowanceMore
    <3> DEFINE before == HourLimit * restarts[w]
    <3> HIDE DEF before
    <3>3. CASE w = v
      BY <1>2, <1>3, <1>4, <3>1, <3>2, <3>3 DEF before
    <3>4. CASE w # v
      BY <1>2, <1>3, <3>1, <3>2, <3>4 DEF before
    <3> QED BY <3>3, <3>4
  <2> QED BY <1>1, <2>1, RowsStay DEF HourIsCounted
<1> QED BY <1>5, <1>6, <1>7, <1>8 DEF DemoInv

\* A pruning leaves the minute's rows; a visitor whose hour row it deletes begins again.
LEMMA PruneKeepsDemo ==
    ASSUME DemoInv, prune
    PROVE  DemoInv'
<1>1. PICK batch \in Batches(ExpiredWindows, 2, BATCH) :
         /\ demoWindows' = Without(demoWindows, batch)
         /\ restarts' = [v \in Visitors |-> restarts[v] + (IF HourRow(v) \in batch THEN 1 ELSE 0)]
  BY DEF prune
<1>2. /\ DemoTypeOK /\ UNCHANGED <<demoNow, demoArrived, minuteUnits, hourUnits>>
      /\ demoNow \in Nat /\ RateRetention \in Nat /\ HourLimit \in Nat
  BY DemoAssumption DEF DemoInv, DemoTypeOK, prune
<1>3. IsTable(demoWindows) /\ IsTable(demoWindows')
  BY <1>1, <1>2, WithoutIsTable DEF DemoTypeOK, IsTable
<1>4. \A row : /\ Count(demoWindows', row) = IF row \in batch THEN 0 ELSE Count(demoWindows, row)
               /\ Count(demoWindows, row) \in Nat
  BY <1>1, <1>3, CountWithout, CountIsNat
<1>5. \A bucket : <<bucket, minute>> \notin batch
  <2>1. \A row \in batch : row[2] < demoNow - RateRetention
    BY <1>1, BatchIsExpired DEF ExpiredWindows
  <2>2. \A bucket : <<bucket, minute>>[2] = demoNow
    BY DEF minute
  <2>3. ~(demoNow < demoNow - RateRetention)
    BY <1>2
  <2> QED BY <2>1, <2>2, <2>3
<1>6. DemoTypeOK'
  <2>1. restarts' \in [Visitors -> Nat]
    <3>1. \A v \in Visitors : restarts[v] + (IF HourRow(v) \in batch THEN 1 ELSE 0) \in Nat
      BY <1>2 DEF DemoTypeOK
    <3> QED BY <1>1, <3>1
  <2> QED BY <1>2, <1>3, <2>1 DEF DemoTypeOK, IsTable
<1>7. MinuteIsCounted' /\ AllAreCounted'
  <2>1. \A v \in Visitors : Count(demoWindows', MinuteRow(v)) = Count(demoWindows, MinuteRow(v))
    BY <1>4, <1>5 DEF MinuteRow
  <2>2. Count(demoWindows', AllVisitorsRow) = Count(demoWindows, AllVisitorsRow)
    BY <1>4, <1>5 DEF AllVisitorsRow
  <2> QED BY <1>2, <2>1, <2>2, RowsStay DEF DemoInv, MinuteIsCounted, AllAreCounted
<1>8. HourIsCounted'
  <2>1. ASSUME NEW v \in Visitors
        PROVE  /\ hourUnits[v] <= HourLimit * restarts'[v] + Count(demoWindows', HourRow(v))
               /\ hourUnits[v] <= HourLimit * restarts'[v] + HourLimit
    <3>1. /\ hourUnits[v] <= HourLimit * restarts[v] + Count(demoWindows, HourRow(v))
          /\ hourUnits[v] <= HourLimit * restarts[v] + HourLimit
      BY DEF DemoInv, HourIsCounted
    <3>2. /\ hourUnits[v] \in Nat /\ restarts[v] \in Nat
          /\ restarts'[v] = restarts[v] + (IF HourRow(v) \in batch THEN 1 ELSE 0)
      BY <1>1, <1>2 DEF DemoTypeOK
    <3>3. CASE HourRow(v) \in batch
      <4>1. HourLimit * restarts'[v] = HourLimit * restarts[v] + HourLimit /\ HourLimit * restarts[v] \in Nat
        BY <3>2, <3>3, OneAllowanceMore
      <4>2. Count(demoWindows', HourRow(v)) = 0
        BY <1>4, <3>3
      <4> QED BY <1>2, <3>1, <3>2, <4>1, <4>2
    <3>4. CASE HourRow(v) \notin batch
      <4>1. restarts'[v] = restarts[v]
        BY <3>2, <3>4
      <4>2. Count(demoWindows', HourRow(v)) = Count(demoWindows, HourRow(v))
        BY <1>4, <3>4
      <4> QED BY <3>1, <4>1, <4>2
    <3> QED BY <3>3, <3>4
  <2> QED BY <1>2, <2>1, RowsStay DEF HourIsCounted
<1> QED BY <1>6, <1>7, <1>8 DEF DemoInv

LEMMA TickKeepsDemo ==
    ASSUME DemoInv, DemoTick
    PROVE  DemoInv'
<1>1. /\ DemoTypeOK /\ demoNow' = demoNow + 1 /\ UNCHANGED <<demoWindows, demoArrived>>
      /\ minuteUnits' = [v \in Visitors |-> 0]
  BY DEF DemoInv, DemoTick
<1>2. DemoTypeOK'
  <2>1. hourUnits' \in [Visitors -> Nat] /\ restarts' \in [Visitors -> Nat]
    BY <1>1 DEF DemoTick, DemoTypeOK
  <2> QED BY <1>1, <2>1 DEF DemoTypeOK
<1>3. \A row : Count(demoWindows, row) \in Nat /\ Count(demoWindows', row) = Count(demoWindows, row)
  BY <1>1, CountIsNat DEF DemoTypeOK, IsTable
<1>4. MinuteIsCounted' /\ AllAreCounted'
  <2>1. \A v \in Visitors : Count(minuteUnits', v) = 0
    BY <1>1 DEF Count
  <2>2. IsFiniteSet(Units(minuteUnits', Visitors)) /\ Total(minuteUnits', Visitors) = 0
    BY <2>1, NoUnits
  <2> QED BY <1>1, <1>3, <2>2, DemoAssumption DEF MinuteIsCounted, AllAreCounted
<1>5. HourIsCounted'
  <2>1. CASE WindowStart(demoNow + 1, HourLength) = hour
    <3>1. UNCHANGED <<hourUnits, restarts>> /\ \A v \in Visitors : HourRow(v)' = HourRow(v)
      BY <1>1, <2>1 DEF DemoTick, HourRow, hour
    <3> QED BY <1>1, <3>1 DEF DemoInv, HourIsCounted
  <2>2. CASE WindowStart(demoNow + 1, HourLength) # hour
    <3>1. hourUnits' = [v \in Visitors |-> 0] /\ restarts' = [v \in Visitors |-> 0]
      BY <2>2 DEF DemoTick
    <3>2. HourLimit * 0 = 0 /\ HourLimit \in Nat
      BY DemoAssumption
    <3> QED BY <1>3, <3>1, <3>2 DEF HourIsCounted
  <2> QED BY <2>1, <2>2
<1> QED BY <1>2, <1>4, <1>5 DEF DemoInv

LEMMA DemoStep == DemoInv /\ [DemoNext]_demoVars => DemoInv'
<1> SUFFICES ASSUME DemoInv, [DemoNext]_demoVars PROVE DemoInv'
  OBVIOUS
<1>1. CASE UNCHANGED demoVars
  <2>1. UNCHANGED <<demoNow, demoWindows, demoArrived, minuteUnits, hourUnits, restarts>>
    BY <1>1 DEF demoVars, demoHistory
  <2> QED BY <2>1, RowsStay DEF DemoInv, DemoTypeOK, MinuteIsCounted, AllAreCounted, HourIsCounted
<1>2. CASE authorizeDemo
  BY <1>2, RefusedKeepsDemo, AnsweredKeepsDemo DEF authorizeDemo
<1> QED BY <1>1, <1>2, PruneKeepsDemo, TickKeepsDemo DEF DemoNext

\* For any visitors, limits and pruning: a minute's answers stay within the limits, of one
\* visitor and of all; an hour's within one allowance for each time its row was pruned.
THEOREM DemoCeilingsHold == DemoSpec => []DemoCeilings
<1>1. DemoInv => DemoCeilings
  <2> SUFFICES ASSUME DemoInv PROVE DemoCeilings
    OBVIOUS
  <2>1. MinuteCeiling
    BY DEF DemoInv, MinuteIsCounted, AllAreCounted, MinuteCeiling
  <2>2. HourCeilingPerRestart
    BY OneAllowanceMore DEF DemoInv, HourIsCounted, DemoTypeOK, HourCeilingPerRestart
  <2> QED BY <2>1, <2>2 DEF DemoCeilings
<1> QED BY <1>1, DemoInitially, DemoStep, PTL DEF DemoSpec
---------------------------------------------------------------------------
(* RoadSearch: the fastest route. *)

\* The stages with a search that was not given up.
SearchUnderWay == {"search", "walk", "found", "no_path"}

QuestionOK ==
    /\ road \in [Links -> Kinds]
    /\ \A s \in {origin, destination} :
          s.link \in Links /\ Usable(s.link) /\ s.at \in 0..Length(s.link)

DirectTime == Span(FromU(origin), FromU(destination))

\* A node is closed when its best time is known and no longer waits in the heap.
ClosedNode(n) == gScore[n] < Inf /\ Entry(n, gScore[n]) \notin heap

HeapIsKnown == \A e \in heap : e = Entry(e[3], e[2]) /\ gScore[e[3]] <= e[2]

FromTheStart == \A n \in Nodes : gScore[n] <= Starts[n]

\* What a closed node leads to is known, and so is the route that ends there.
ClosedIsRelaxed ==
    \A n \in Nodes : ClosedNode(n) =>
        /\ \A m \in Nodes : gScore[m] <= gScore[n] + ArcCost(n, m)
        /\ bestTotal <= gScore[n] + Goal(n)

\* Nothing that waits is ahead of a closed node, which is why a closed one is final.
ClosedIsFirst ==
    \A n \in Nodes, e \in heap : ClosedNode(n) => gScore[n] + Heuristic(n) <= e[1]

\* The walk back follows closed nodes whose times add up.
PreviousIsClosed ==
    \A n \in Nodes : gScore[n] < Inf =>
        /\ previous[n] = NoNode => gScore[n] = Starts[n]
        /\ \A m \in Nodes :
              previous[n] = m => ClosedNode(m) /\ gScore[n] = gScore[m] + ArcCost(m, n)

\* A traveller along the k distinct nodes of w is at the i-th at time t[i].
IsTrip(k, w, t) ==
    /\ \A i, j \in 1..k : i # j => w[i] # w[j]
    /\ t[1] = Starts[w[1]]
    /\ \A i \in 2..k : t[i] = t[i - 1] + ArcCost(w[i - 1], w[i])

\* A time that is known is that of a trip, none of whose nodes is known to be later.
IsTripTo(n, k, w, t) ==
    /\ IsTrip(k, w, t) /\ w[k] = n /\ t[k] = gScore[n]
    /\ \A i \in 1..k : gScore[w[i]] <= t[i] /\ t[i] <= t[k]

KnownIsReachable ==
    \A n \in Nodes : gScore[n] < Inf =>
        \E k \in Nat \ {0} : \E w \in [1..k -> Nodes], t \in [1..k -> Nat] : IsTripTo(n, k, w, t)

BestIsKnown ==
    /\ IsDirect => bestTotal <= DirectTime
    /\ bestGoal = NoNode => bestTotal = Inf /\ ~IsDirect
    /\ bestGoal = Direct => IsDirect /\ bestTotal = DirectTime
    /\ \A n \in Nodes : bestGoal = n => ClosedNode(n) /\ bestTotal = gScore[n] + Goal(n)

\* The part of the invariant about what the search has found out.
SearchKnows ==
    /\ QuestionOK /\ HeapIsKnown /\ FromTheStart /\ ClosedIsRelaxed /\ ClosedIsFirst
    /\ PreviousIsClosed /\ KnownIsReachable /\ BestIsKnown

StoppedIsBest == \A e \in heap : bestTotal <= e[1]

WalkAddsUp ==
    /\ status = "walk" =>
          bestGoal \in Nodes /\ spot \in Nodes /\ gScore[spot] < Inf /\ walked + gScore[spot] = bestTotal
    /\ status = "found" => bestGoal # NoNode /\ walked = bestTotal
    /\ status = "no_path" => bestGoal = NoNode

SearchInv ==
    /\ SearchTypeOK
    /\ status \in SearchUnderWay \cup {"idle", "search_limit"}
    /\ status = "idle" => previous = [n \in Nodes |-> NoNode] /\ expansions = 0
    /\ status = "search" => expansions <= MaxExpansions
    /\ status \in SearchUnderWay => SearchKnows
    /\ status \in SearchUnderWay \ {"search"} => StoppedIsBest
    /\ WalkAddsUp

\* Every set of naturals with an element has a least one.
LEMMA NaturalsHaveLeast ==
    ASSUME NEW S \in SUBSET Nat, S # {} PROVE \E least \in S : \A other \in S : least <= other
<1>1. PICK least \in S : \A other \in S : ~(<<other, least>> \in OpToRel(<, Nat))
  BY NatLessThanWellFounded, WFMin
<1>2. ASSUME NEW other \in S PROVE least <= other
  <2>1. least \in Nat /\ other \in Nat /\ <<other, least>> \in Nat \X Nat
    OBVIOUS
  <2>2. ~(other < least)
    BY <1>1, <2>1 DEF OpToRel
  <2> QED
    BY <2>1, <2>2
<1> QED
  BY <1>2

\* Min of a set of naturals is its least element.
LEMMA MinIsLeast ==
    ASSUME NEW S \in SUBSET Nat, S # {} PROVE Min(S) \in S /\ \A other \in S : Min(S) <= other
BY NaturalsHaveLeast DEF Min

\* Multiplying by a positive pace never shortens.
LEMMA PaceStretches ==
    ASSUME NEW i \in Nat, NEW j \in Nat, NEW f \in Nat, i <= j, f > 0
    PROVE  /\ i * f \in Nat /\ j * f \in Nat /\ i <= i * f
           /\ j * f - i * f \in Nat /\ j - i <= j * f - i * f
<1>1. PICK d \in Nat : j = i + d
  BY SMT
<1>2. d <= d * f /\ i <= i * f /\ d * f \in Nat /\ i * f \in Nat
  BY SMT
<1>3. j * f = i * f + d * f
  BY <1>1, SMT
<1> QED
  BY <1>1, <1>2, <1>3

\* Distances on the line.
LEMMA SpanIsDistance ==
    ASSUME NEW i \in Int, NEW j \in Int, NEW k \in Int
    PROVE  Span(i, j) \in Nat /\ Span(i, j) = Span(j, i) /\ Span(i, k) <= Span(i, j) + Span(j, k)
BY DEF Span

LEMMA LinkTypes ==
    ASSUME NEW l \in Links
    PROVE  /\ U(l) \in Nodes /\ V(l) \in Nodes /\ Position[U(l)] \in Int /\ Position[V(l)] \in Int
           /\ Length(l) \in Nat
<1>1. U(l) \in Nodes /\ V(l) \in Nodes
  BY SearchAssumption DEF U, V
<1>2. Position[U(l)] \in Int /\ Position[V(l)] \in Int
  BY <1>1, SearchAssumption
<1> QED
  BY <1>1, <1>2, SpanIsDistance DEF Length

LEMMA CostTypes ==
    ASSUME QuestionOK, NEW l \in Links
    PROVE  /\ road[l].pace \in Nat /\ Cost(l) \in 0..Inf
           /\ Usable(l) => Length(l) <= Cost(l)
<1>1. road[l] \in Kinds /\ road[l].pace \in Nat
  BY SearchAssumption DEF QuestionOK
<1>2. Length(l) * road[l].pace <= Inf /\ Length(l) \in Nat
  BY <1>1, LinkTypes, SearchAssumption
<1>3. Length(l) * road[l].pace \in Nat
  BY <1>1, <1>2, SMT
<1>4. Usable(l) => Length(l) <= Length(l) * road[l].pace
  BY <1>1, <1>2, SMT DEF Usable
<1> QED
  BY <1>1, <1>2, <1>3, <1>4, SearchAssumption DEF Cost

\* A snap lies on its link, between the times from and to its ends.
LEMMA SnapTypes ==
    ASSUME QuestionOK, NEW s \in {origin, destination}
    PROVE  /\ Place(s) \in Int
           /\ FromU(s) \in 0..Inf /\ ToV(s) \in 0..Inf
           /\ Span(Position[U(s.link)], Place(s)) <= FromU(s)
           /\ Span(Position[V(s.link)], Place(s)) <= ToV(s)
<1> DEFINE l == s.link
<1>1. l \in Links /\ Usable(l) /\ s.at \in Nat /\ s.at <= Length(l)
  BY LinkTypes DEF QuestionOK
<1>2. road[l].pace \in Nat /\ road[l].pace > 0 /\ Cost(l) \in 0..Inf /\ Length(l) \in Nat
  BY <1>1, CostTypes, LinkTypes DEF Usable
<1>3. /\ FromU(s) \in Nat /\ s.at <= FromU(s) /\ ToV(s) \in Nat /\ Length(l) - s.at <= ToV(s)
  BY <1>1, <1>2, PaceStretches DEF FromU, ToV, Cost
<1>4. FromU(s) <= Cost(l) /\ ToV(s) <= Cost(l)
  BY <1>1, <1>2, <1>3 DEF ToV
<1>5. /\ Place(s) \in Int
      /\ Span(Position[U(l)], Place(s)) = s.at /\ Span(Position[V(l)], Place(s)) = Length(l) - s.at
  <2>1. Position[U(l)] \in Int /\ Position[V(l)] \in Int
    BY <1>1, LinkTypes
  <2> QED
    BY <2>1, <1>1 DEF Place, Span, Length
<1> QED
  BY <1>2, <1>3, <1>4, <1>5, SearchAssumption

LEMMA NodeTypes ==
    ASSUME QuestionOK, NEW n \in Nodes
    PROVE  /\ Heuristic(n) \in Nat /\ Starts[n] \in 0..Inf /\ Goal(n) \in 0..Inf
           /\ Goal(n) < Inf => Heuristic(n) <= Goal(n)
<1>1. Position[n] \in Int /\ Inf \in Nat
  BY SearchAssumption
<1>o. FromU(origin) \in 0..Inf /\ ToV(origin) \in 0..Inf
  BY SnapTypes
<1>d. /\ FromU(destination) \in 0..Inf /\ ToV(destination) \in 0..Inf
      /\ Span(Position[U(destination.link)], Place(destination)) <= FromU(destination)
      /\ Span(Position[V(destination.link)], Place(destination)) <= ToV(destination)
  BY SnapTypes
<1>2. Heuristic(n) \in Nat
  BY <1>1, SnapTypes, SpanIsDistance DEF Heuristic
<1>s. Starts[n] = FromU(origin) \/ Starts[n] = ToV(origin) \/ Starts[n] = Inf
  BY Zenon DEF Starts
<1>g. \/ n = U(destination.link) /\ Goal(n) = FromU(destination)
      \/ n = V(destination.link) /\ Goal(n) = ToV(destination)
      \/ Goal(n) = Inf
  BY Zenon DEF Goal
<1>3. Starts[n] \in 0..Inf
  BY <1>1, <1>o, <1>s
<1>4. Goal(n) \in 0..Inf
  BY <1>1, <1>d, <1>g
<1>5. Goal(n) < Inf => Heuristic(n) <= Goal(n)
  BY <1>1, <1>d, <1>g DEF Heuristic
<1> QED
  BY <1>2, <1>3, <1>4, <1>5

\* The cost of the way between two nodes: that of a link that may be travelled, or Inf.
LEMMA ArcTypes ==
    ASSUME QuestionOK, NEW n \in Nodes, NEW m \in Nodes
    PROVE  /\ ArcCost(n, m) \in 0..Inf
           /\ ArcCost(n, m) < Inf => Heuristic(n) <= ArcCost(n, m) + Heuristic(m)
<1> DEFINE arcs == {Cost(l) : l \in {k \in Links : Leads(k, n, m)}}
           costs == {Inf} \cup arcs
<1>1. costs \in SUBSET (0..Inf) /\ costs # {}
  BY CostTypes, SearchAssumption
<1>2. costs \in SUBSET Nat
  BY <1>1
<1>3. ArcCost(n, m) = Min(costs)
  BY DEF ArcCost
<1>4. ArcCost(n, m) \in costs
  BY <1>1, <1>2, <1>3, MinIsLeast
<1>5. ASSUME ArcCost(n, m) < Inf PROVE Heuristic(n) <= ArcCost(n, m) + Heuristic(m)
  <2>1. PICK l \in Links : Leads(l, n, m) /\ ArcCost(n, m) = Cost(l)
    BY <1>4, <1>5, SearchAssumption
  <2>2. Length(l) <= ArcCost(n, m)
    BY <2>1, CostTypes DEF Leads
  <2>3. Length(l) = Span(Position[n], Position[m])
    BY <2>1, LinkTypes, SpanIsDistance DEF Leads, Length
  <2>4. Position[n] \in Int /\ Position[m] \in Int /\ Place(destination) \in Int
    BY SearchAssumption, SnapTypes
  <2>5. Heuristic(n) <= Length(l) + Heuristic(m)
    BY <2>3, <2>4, SpanIsDistance DEF Heuristic
  <2>6. /\ Length(l) \in Nat /\ Heuristic(n) \in Nat /\ Heuristic(m) \in Nat
        /\ ArcCost(n, m) \in Nat
    BY <1>2, <1>4, NodeTypes, LinkTypes
  <2> QED
    BY <2>2, <2>5, <2>6
<1> QED
  BY <1>1, <1>4, <1>5

\* While the question stays, so does every cost.
LEMMA CostsStay ==
    ASSUME UNCHANGED question
    PROVE  /\ QuestionOK' <=> QuestionOK
           /\ Starts' = Starts /\ (IsDirect' <=> IsDirect) /\ DirectTime' = DirectTime
           /\ \A n : Heuristic(n)' = Heuristic(n) /\ Goal(n)' = Goal(n)
           /\ \A n, m : ArcCost(n, m)' = ArcCost(n, m)
           /\ \A n, g : Entry(n, g)' = Entry(n, g)
<1>1. mode' = mode /\ road' = road /\ origin' = origin /\ destination' = destination
  BY DEF question
<1>2. /\ FromU(origin)' = FromU(origin) /\ ToV(origin)' = ToV(origin)
      /\ FromU(destination)' = FromU(destination) /\ ToV(destination)' = ToV(destination)
      /\ Place(destination)' = Place(destination)
  BY <1>1 DEF FromU, ToV, Cost, Place
<1>3. \A l : /\ CanTraverse(l, TRUE)' <=> CanTraverse(l, TRUE)
             /\ CanTraverse(l, FALSE)' <=> CanTraverse(l, FALSE)
  BY <1>1, Zenon DEF CanTraverse
<1>4. QuestionOK' <=> QuestionOK
  BY <1>1 DEF QuestionOK, Usable
<1>5. Starts' = Starts
  BY <1>1, <1>2, <1>3, Zenon DEF Starts
<1>6. (IsDirect' <=> IsDirect) /\ DirectTime' = DirectTime
  BY <1>1, <1>2, Zenon DEF IsDirect, DirectTime, CanTraverse
<1>7. \A n : Heuristic(n)' = Heuristic(n)
  BY <1>2, Zenon DEF Heuristic
<1>8. \A n : Goal(n)' = Goal(n)
  BY <1>1, <1>2, <1>3, Zenon DEF Goal
<1>9. ASSUME NEW n, NEW m PROVE ArcCost(n, m)' = ArcCost(n, m)
  BY <1>1, <1>3, Zenon DEF ArcCost, Leads, Cost, Usable
<1>10. \A n, g : Entry(n, g)' = Entry(n, g)
  BY <1>7, Zenon DEF Entry
<1> QED
  BY <1>4, <1>5, <1>6, <1>7, <1>8, <1>9, <1>10

CostsTyped ==
    /\ DirectTime \in 0..Inf
    /\ \A n \in Nodes :
          /\ Heuristic(n) \in Nat /\ Starts[n] \in 0..Inf /\ Goal(n) \in 0..Inf
          /\ Goal(n) < Inf => Heuristic(n) <= Goal(n)
    /\ \A n, m \in Nodes :
          /\ ArcCost(n, m) \in 0..Inf
          /\ ArcCost(n, m) < Inf => Heuristic(n) <= ArcCost(n, m) + Heuristic(m)

LEMMA CostsAreTyped == (QuestionOK => CostsTyped) /\ (QuestionOK' => CostsTyped')
<1>1. ASSUME QuestionOK PROVE CostsTyped
  <2>1. FromU(origin) \in 0..Inf /\ FromU(destination) \in 0..Inf
    BY <1>1, SnapTypes
  <2>2. DirectTime \in 0..Inf
    BY <2>1, SearchAssumption DEF DirectTime, Span
  <2> QED
    BY <1>1, <2>2, NodeTypes, ArcTypes DEF CostsTyped
<1>2. QuestionOK => CostsTyped
  BY <1>1
<1>3. QuestionOK' => CostsTyped'
  BY <1>2, PTL
<1> QED
  BY <1>2, <1>3

LEMMA ConstantTypes ==
    /\ Inf \in Nat /\ MaxExpansions \in Nat
    /\ NoNode \notin Nodes /\ Direct \notin Nodes /\ NoNode # Direct
BY SearchAssumption DEF NoNode, Direct

LEMMA SearchInitially == SearchInit => SearchInv
<1> SUFFICES ASSUME SearchInit PROVE SearchInv
  OBVIOUS
<1>1. SearchTypeOK
  BY ConstantTypes DEF SearchInit, SearchTypeOK, NoSnap
<1>2. status = "idle" /\ previous = [n \in Nodes |-> NoNode] /\ expansions = 0
  BY DEF SearchInit
<1> QED
  BY <1>1, <1>2 DEF SearchInv, SearchUnderWay, WalkAddsUp

\* At the beginning no node is closed, and every known time is that of a start.
LEMMA BeginStep == ASSUME SearchInv, Begin PROVE SearchInv'
<1>1. QuestionOK'
  <2>1. PICK component :
            /\ origin' \in {s \in [link : SnapLinks, at : Offsets] : IsSnap(s, component)'}
            /\ destination' \in {s \in [link : Links, at : Offsets] : IsSnap(s, component)'}
    BY DEF Begin
  <2>2. /\ origin'.link \in Links /\ road'[origin'.link].pace > 0
        /\ origin'.at \in 0..Length(origin'.link)
        /\ destination'.link \in Links /\ road'[destination'.link].pace > 0
        /\ destination'.at \in 0..Length(destination'.link)
    BY <2>1, SearchAssumption DEF IsSnap, Usable
  <2>3. road' \in [Links -> Kinds]
    BY DEF Begin
  <2> QED
    BY <2>2, <2>3 DEF QuestionOK, Usable
<1>2. CostsTyped'
  BY <1>1, CostsAreTyped
<1>3. /\ status = "idle" /\ status' = "search" /\ gScore' = Starts'
      /\ heap' = {Entry(n, Starts[n])' : n \in {m \in Nodes : Starts[m]' < Inf}}
      /\ previous' = previous /\ expansions' = expansions /\ walked' = walked
      /\ bestTotal' = (IF IsDirect' THEN DirectTime' ELSE Inf)
      /\ bestGoal' = (IF IsDirect' THEN Direct ELSE NoNode)
  BY DEF Begin, DirectTime
<1>4. previous = [n \in Nodes |-> NoNode] /\ expansions = 0 /\ SearchTypeOK
  BY <1>3 DEF SearchInv
<1>5. /\ \A n \in Nodes : Starts'[n] \in 0..Inf /\ Heuristic(n)' \in Nat
      /\ DirectTime' \in 0..Inf /\ Inf \in Nat
  BY <1>2, ConstantTypes DEF CostsTyped
<1>6. Starts' \in [Nodes -> 0..Inf]
  BY <1>5 DEF Starts
<1>7. \A e \in heap' : \E n \in Nodes : e = <<Starts'[n] + Heuristic(n)', Starts'[n], n>>
  BY <1>3 DEF Entry
<1>8. heap' \subseteq Nat \X (0..Inf) \X Nodes
  BY <1>5, <1>7
<1>9. SearchTypeOK'
  <2>1. {origin'.link, destination'.link} \subseteq Links
    BY <1>1 DEF QuestionOK
  <2>2. bestTotal' \in 0..Inf /\ bestGoal' \in Nodes \cup {NoNode, Direct}
    BY <1>3, <1>5
  <2> QED
    BY <1>3, <1>4, <1>6, <1>8, <2>1, <2>2, ConstantTypes DEF SearchTypeOK
<1>10. \A n \in Nodes : ~ClosedNode(n)'
  BY <1>3, Zenon DEF ClosedNode
<1>11. HeapIsKnown'
  BY <1>3, <1>5, <1>7 DEF HeapIsKnown, Entry
<1>12. FromTheStart' /\ ClosedIsRelaxed' /\ ClosedIsFirst'
  BY <1>3, <1>5, <1>10 DEF FromTheStart, ClosedIsRelaxed, ClosedIsFirst
<1>13. PreviousIsClosed'
  BY <1>3, <1>4, ConstantTypes DEF PreviousIsClosed
<1>14. KnownIsReachable'
  <2> SUFFICES ASSUME NEW n \in Nodes
               PROVE  \E k \in Nat \ {0} :
                        \E w \in [1..k -> Nodes], t \in [1..k -> Nat] : IsTripTo(n, k, w, t)'
    BY Zenon DEF KnownIsReachable
  <2>0. [i \in 1..1 |-> n] \in [1..1 -> Nodes] /\ [i \in 1..1 |-> n][1] = n
    OBVIOUS
  <2>1. PICK w \in [1..1 -> Nodes] : w[1] = n
    BY <2>0, Zenon
  <2>s. PICK start \in Nat : start = Starts'[n]
    BY <1>5
  <2>t. [i \in 1..1 |-> start] \in [1..1 -> Nat] /\ [i \in 1..1 |-> start][1] = start
    OBVIOUS
  <2>2. PICK t \in [1..1 -> Nat] : t[1] = Starts'[n]
    BY <2>s, <2>t, Zenon
  <2>3. IsTrip(1, w, t)'
    BY <2>1, <2>2 DEF IsTrip
  <2>4. IsTripTo(n, 1, w, t)'
    BY <1>3, <1>5, <2>1, <2>2, <2>3 DEF IsTripTo
  <2>5. 1 \in Nat \ {0}
    OBVIOUS
  <2> QED
    BY <2>4, <2>5, Zenon
<1>15. BestIsKnown'
  BY <1>3, <1>5, ConstantTypes DEF BestIsKnown
<1> QED
  BY <1>1, <1>3, <1>4, <1>9, <1>11, <1>12, <1>13, <1>14, <1>15, ConstantTypes
  DEF SearchInv, SearchUnderWay, SearchKnows, WalkAddsUp

LEMMA TripsStay ==
    ASSUME UNCHANGED question, NEW k, NEW w, NEW t
    PROVE  IsTrip(k, w, t)' <=> IsTrip(k, w, t)
<1>1. \A i : ArcCost(w[i - 1], w[i])' = ArcCost(w[i - 1], w[i])
  BY CostsStay
<1>2. Starts' = Starts
  BY CostsStay
<1> QED
  BY <1>1, <1>2, Zenon DEF IsTrip

\* What is known stays while the times, the heap and the best route do.
LEMMA KnowledgeStays ==
    ASSUME SearchKnows, UNCHANGED <<question, gScore, previous, heap, bestTotal, bestGoal>>
    PROVE  SearchKnows'
<1>1. \A n : ClosedNode(n)' <=> ClosedNode(n)
  BY CostsStay, Zenon DEF ClosedNode
<1>2. QuestionOK' /\ HeapIsKnown' /\ FromTheStart'
  BY CostsStay, Zenon DEF SearchKnows, HeapIsKnown, FromTheStart
<1>3. ClosedIsRelaxed' /\ ClosedIsFirst'
  BY <1>1, CostsStay, Zenon DEF SearchKnows, ClosedIsRelaxed, ClosedIsFirst
<1>6. PreviousIsClosed'
  BY <1>1, CostsStay DEF SearchKnows, PreviousIsClosed
<1>4. KnownIsReachable'
  <2>1. \A n, k, w, t : IsTripTo(n, k, w, t) => IsTripTo(n, k, w, t)'
    BY TripsStay, Zenon DEF IsTripTo
  <2> QED
    BY <2>1, Zenon DEF SearchKnows, KnownIsReachable
<1>5. BestIsKnown'
  BY <1>1, CostsStay, Zenon DEF SearchKnows, BestIsKnown
<1> QED
  BY <1>2, <1>3, <1>4, <1>5, <1>6 DEF SearchKnows

\* A heap that holds something has a top.
LEMMA HeapHasTop ==
    ASSUME SearchTypeOK, heap # {} PROVE \E e \in heap : IsTop(e)
<1>1. heap \subseteq Nat \X Nat \X Nat
  <2>1. 0..Inf \subseteq Nat /\ Nodes \subseteq Nat
    BY SearchAssumption
  <2> QED
    BY <2>1 DEF SearchTypeOK
<1> DEFINE firsts == {e[1] : e \in heap}
<1>2. PICK i \in firsts : \A o \in firsts : i <= o
  <2>1. firsts \in SUBSET Nat /\ firsts # {}
    BY <1>1
  <2> QED
    BY <2>1, NaturalsHaveLeast
<1> DEFINE seconds == {e[2] : e \in {d \in heap : d[1] = i}}
<1>3. PICK j \in seconds : \A o \in seconds : j <= o
  <2>1. seconds \in SUBSET Nat /\ seconds # {}
    BY <1>1, <1>2
  <2> QED
    BY <2>1, NaturalsHaveLeast
<1> DEFINE thirds == {e[3] : e \in {d \in heap : d[1] = i /\ d[2] = j}}
<1>4. PICK n \in thirds : \A o \in thirds : n <= o
  <2>1. thirds \in SUBSET Nat /\ thirds # {}
    BY <1>1, <1>3
  <2> QED
    BY <2>1, NaturalsHaveLeast
<1>5. PICK e \in heap : e[1] = i /\ e[2] = j /\ e[3] = n
  BY <1>4
<1>6. ASSUME NEW o \in heap PROVE Before(e, o)
  <2>1. /\ e[1] \in Nat /\ e[2] \in Nat /\ e[3] \in Nat
        /\ o[1] \in Nat /\ o[2] \in Nat /\ o[3] \in Nat
    BY <1>1
  <2>2. e[1] <= o[1]
    BY <1>2, <1>5
  <2>3. o[1] = i => e[2] <= o[2]
    BY <1>3, <1>5
  <2>4. o[1] = i /\ o[2] = j => e[3] <= o[3]
    BY <1>4, <1>5
  <2> QED
    BY <2>1, <2>2, <2>3, <2>4, <1>5 DEF Before
<1> QED
  BY <1>5, <1>6 DEF IsTop

LEMMA HeapTypes ==
    ASSUME SearchTypeOK, NEW e \in heap
    PROVE  /\ e[1] \in Nat /\ e[2] \in 0..Inf /\ e[3] \in Nodes /\ gScore[e[3]] \in 0..Inf
           /\ e = <<e[1], e[2], e[3]>>
BY DEF SearchTypeOK

\* An entry that was superseded closes no node when it goes.
LEMMA DiscardStep == ASSUME SearchInv, NEW e \in heap, Discard(e) PROVE SearchInv'
<1>1. /\ status = "search" /\ SearchTypeOK /\ SearchKnows /\ e[2] > gScore[e[3]]
      /\ heap' = heap \ {e} /\ UNCHANGED question
      /\ gScore' = gScore /\ previous' = previous /\ expansions' = expansions
      /\ bestTotal' = bestTotal /\ bestGoal' = bestGoal /\ status' = status
      /\ spot' = spot /\ walked' = walked
  BY DEF Discard, SearchInv, SearchUnderWay
<1>2. \A n \in Nodes : ClosedNode(n)' <=> ClosedNode(n)
  <2> SUFFICES ASSUME NEW n \in Nodes PROVE ClosedNode(n)' <=> ClosedNode(n)
    OBVIOUS
  <2>1. Entry(n, gScore[n]) # e
    BY <1>1, HeapTypes DEF Entry
  <2>2. (Entry(n, gScore[n]) \in heap') <=> (Entry(n, gScore[n]) \in heap)
    BY <1>1, <2>1
  <2>3. Entry(n, gScore[n])' = Entry(n, gScore[n])
    BY <1>1, CostsStay, Zenon
  <2> QED
    BY <1>1, <2>2, <2>3, Zenon DEF ClosedNode
<1>3. QuestionOK' /\ HeapIsKnown' /\ FromTheStart'
  <2>1. QuestionOK' /\ FromTheStart'
    BY <1>1, CostsStay, Zenon DEF SearchKnows, FromTheStart
  <2>2. HeapIsKnown'
    <3> SUFFICES ASSUME NEW o \in heap'
                 PROVE  o = Entry(o[3], o[2])' /\ gScore'[o[3]] <= o[2]
      BY Zenon DEF HeapIsKnown
    <3>1. o \in heap
      BY <1>1
    <3> QED
      BY <1>1, <3>1, CostsStay, Zenon DEF SearchKnows, HeapIsKnown
  <2> QED
    BY <2>1, <2>2
<1>4. ClosedIsRelaxed'
  BY <1>1, <1>2, CostsStay, Zenon DEF SearchKnows, ClosedIsRelaxed
<1>5. ClosedIsFirst'
  BY <1>1, <1>2, CostsStay DEF SearchKnows, ClosedIsFirst
<1>6. PreviousIsClosed'
  BY <1>1, <1>2, CostsStay DEF SearchKnows, PreviousIsClosed
<1>7. KnownIsReachable'
  <2>1. \A n, k, w, t : IsTripTo(n, k, w, t) => IsTripTo(n, k, w, t)'
    BY <1>1, TripsStay, Zenon DEF IsTripTo
  <2> QED
    BY <1>1, <2>1, Zenon DEF SearchKnows, KnownIsReachable
<1>8. BestIsKnown'
  BY <1>1, <1>2, CostsStay, Zenon DEF SearchKnows, BestIsKnown
<1>9. SearchTypeOK'
  <2>1. origin' = origin /\ destination' = destination
    BY <1>1 DEF question
  <2> QED
    BY <1>1, <2>1 DEF SearchTypeOK
<1> QED
  BY <1>1, <1>3, <1>4, <1>5, <1>6, <1>7, <1>8, <1>9
  DEF SearchInv, SearchKnows, SearchUnderWay, WalkAddsUp

\* What is left in the heap cannot beat the best route.
LEMMA StopStep == ASSUME SearchInv, Stop PROVE SearchInv'
<1>1. /\ status = "search" /\ SearchTypeOK /\ SearchKnows
      /\ UNCHANGED <<question, gScore, previous, heap, expansions, bestTotal, bestGoal>>
  BY DEF Stop, SearchInv, SearchUnderWay
<1>2. SearchKnows'
  BY <1>1, KnowledgeStays
<1>3. StoppedIsBest'
  <2> SUFFICES ASSUME NEW o \in heap PROVE bestTotal <= o[1]
    BY <1>1, Zenon DEF StoppedIsBest
  <2>1. PICK e \in heap : IsTop(e)
    BY <1>1, HeapHasTop
  <2>2. bestTotal <= e[1]
    <3>1. e[1] >= bestTotal
      BY <2>1 DEF Stop
    <3> QED
      BY <1>1, <3>1, HeapTypes DEF SearchTypeOK
  <2>3. e[1] <= o[1]
    BY <1>1, <2>1, HeapTypes DEF IsTop, Before
  <2> QED
    BY <1>1, <2>2, <2>3, HeapTypes DEF SearchTypeOK
<1>4. /\ bestTotal \in 0..Inf /\ bestGoal \in Nodes \cup {NoNode, Direct}
      /\ QuestionOK /\ CostsTyped /\ BestIsKnown
  BY <1>1, CostsAreTyped DEF SearchTypeOK, SearchKnows
<1>5. WalkAddsUp' /\ status' \in {"walk", "found", "no_path"} /\ walked' \in 0..Inf
  <2>1. CASE bestGoal = NoNode
    BY <2>1, <1>1, <1>4, ConstantTypes DEF Stop, WalkAddsUp
  <2>2. CASE bestGoal = Direct
    BY <2>2, <1>1, <1>4, ConstantTypes DEF Stop, WalkAddsUp
  <2>3. CASE bestGoal \in Nodes
    <3>1. status' = "walk" /\ spot' = bestGoal /\ walked' = Goal(bestGoal)
      BY <2>3, ConstantTypes DEF Stop
    <3>2. /\ gScore[bestGoal] < Inf /\ bestTotal = gScore[bestGoal] + Goal(bestGoal)
          /\ gScore[bestGoal] \in 0..Inf /\ Goal(bestGoal) \in 0..Inf
      BY <2>3, <1>1, <1>4 DEF BestIsKnown, ClosedNode, SearchTypeOK, CostsTyped
    <3> QED
      BY <2>3, <3>1, <3>2, <1>1, ConstantTypes DEF WalkAddsUp
  <2> QED
    BY <2>1, <2>2, <2>3, <1>4
<1>6. SearchTypeOK'
  <2>1. origin' = origin /\ destination' = destination
    BY <1>1 DEF question
  <2> QED
    BY <1>1, <1>5, <2>1 DEF SearchTypeOK
<1> QED
  BY <1>2, <1>3, <1>5, <1>6 DEF SearchInv, SearchUnderWay

\* A step back along a closed node: its time and the rest still add up to the best.
LEMMA WalkStep == ASSUME SearchInv, Walk PROVE SearchInv'
<1>1. /\ status = "walk" /\ SearchTypeOK /\ SearchKnows /\ StoppedIsBest /\ WalkAddsUp
      /\ UNCHANGED <<question, gScore, previous, heap, expansions, bestTotal, bestGoal>>
  BY DEF Walk, SearchInv, SearchUnderWay
<1>2. SearchKnows' /\ StoppedIsBest'
  BY <1>1, KnowledgeStays DEF StoppedIsBest
<1>3. /\ bestGoal \in Nodes /\ spot \in Nodes /\ gScore[spot] \in 0..Inf /\ gScore[spot] < Inf
      /\ walked + gScore[spot] = bestTotal /\ walked \in 0..Inf /\ bestTotal \in 0..Inf
      /\ PreviousIsClosed /\ CostsTyped
  BY <1>1, CostsAreTyped DEF WalkAddsUp, SearchTypeOK, SearchKnows
<1>4. WalkAddsUp' /\ status' \in {"walk", "found"} /\ walked' \in 0..Inf
  <2>1. CASE previous[spot] = NoNode
    <3>1. gScore[spot] = Starts[spot]
      BY <1>3, <2>1, ConstantTypes DEF PreviousIsClosed
    <3>2. status' = "found" /\ walked' = walked + Starts[spot]
      BY <2>1 DEF Walk
    <3> QED
      BY <1>1, <1>3, <3>1, <3>2, ConstantTypes DEF WalkAddsUp
  <2>2. CASE previous[spot] # NoNode
    <3> DEFINE m == previous[spot]
    <3>1. /\ m \in Nodes /\ gScore[m] < Inf /\ gScore[spot] = gScore[m] + ArcCost(m, spot)
      <4>1. m \in Nodes
        BY <1>1, <1>3, <2>2 DEF SearchTypeOK
      <4> QED
        BY <1>3, <4>1 DEF PreviousIsClosed, ClosedNode
    <3>2. gScore[m] \in 0..Inf /\ ArcCost(m, spot) \in 0..Inf
      BY <1>1, <1>3, <3>1 DEF SearchTypeOK, CostsTyped
    <3>3. status' = "walk" /\ spot' = m /\ walked' = walked + ArcCost(m, spot)
      BY <1>1, <2>2 DEF Walk
    <3> QED
      BY <1>1, <1>3, <3>1, <3>2, <3>3, ConstantTypes DEF WalkAddsUp
  <2> QED
    BY <2>1, <2>2
<1>5. SearchTypeOK'
  <2>1. origin' = origin /\ destination' = destination
    BY <1>1 DEF question
  <2> QED
    BY <1>1, <1>4, <2>1 DEF SearchTypeOK
<1> QED
  BY <1>2, <1>4, <1>5 DEF SearchInv, SearchUnderWay

\* The step that expands the node of the heap's top closes it and reopens none.
LEMMA ExpandStep ==
    ASSUME SearchInv, NEW e \in heap, Expand(e), expansions + 1 <= MaxExpansions
    PROVE  SearchInv'
<1> DEFINE n == e[3]
           arc(m) == e[2] + ArcCost(n, m)
           better == {m \in Nodes : arc(m) < gScore[m]}
<1>1. /\ status = "search" /\ SearchTypeOK /\ SearchKnows /\ WalkAddsUp /\ expansions \in Nat
      /\ QuestionOK /\ CostsTyped /\ Inf \in Nat
  BY CostsAreTyped, ConstantTypes DEF SearchInv, SearchUnderWay, Expand, SearchKnows, SearchTypeOK
<1>2. /\ IsTop(e) /\ e[2] <= gScore[n] /\ UNCHANGED question
      /\ IF e[2] + Goal(n) < bestTotal
         THEN bestTotal' = e[2] + Goal(n) /\ bestGoal' = n
         ELSE UNCHANGED <<bestTotal, bestGoal>>
      /\ expansions' = expansions + 1 /\ status' = status /\ spot' = spot /\ walked' = walked
      /\ gScore' = [m \in Nodes |-> IF m \in better THEN arc(m) ELSE gScore[m]]
      /\ previous' = [m \in Nodes |-> IF m \in better THEN n ELSE previous[m]]
      /\ heap' = (heap \ {e}) \cup {Entry(m, arc(m)) : m \in better}
  <2>1. ~(expansions + 1 > MaxExpansions)
    BY <1>1, ConstantTypes
  <2> QED
    BY <2>1, Zenon DEF Expand
<1>3. /\ n \in Nodes /\ e[2] = gScore[n] /\ e[2] \in 0..Inf
      /\ e = Entry(n, gScore[n]) /\ e[1] = gScore[n] + Heuristic(n)
  BY <1>1, <1>2, HeapTypes DEF SearchKnows, HeapIsKnown, Entry
<1>4. \A m \in Nodes : /\ gScore[m] \in 0..Inf /\ ArcCost(n, m) \in 0..Inf /\ arc(m) \in Nat
                       /\ Heuristic(m) \in Nat /\ Goal(m) \in 0..Inf
  BY <1>1, <1>3 DEF SearchTypeOK, CostsTyped
<1>5. \A m \in Nodes : gScore'[m] = (IF m \in better THEN arc(m) ELSE gScore[m])
  BY <1>2
<1>6. \A m \in Nodes : gScore'[m] \in 0..Inf /\ gScore'[m] <= gScore[m] /\ gScore'[m] <= arc(m)
  <2> SUFFICES ASSUME NEW m \in Nodes
               PROVE  gScore'[m] \in 0..Inf /\ gScore'[m] <= gScore[m] /\ gScore'[m] <= arc(m)
    OBVIOUS
  <2>1. m \in better <=> arc(m) < gScore[m]
    OBVIOUS
  <2> QED
    BY <2>1, <1>1, <1>4, <1>5
<1>a. \A m \in Nodes : gScore[m] \in Nat /\ gScore'[m] \in Nat /\ gScore'[m] <= gScore[m]
  <2>1. 0..Inf \subseteq Nat
    BY <1>1
  <2> QED
    BY <2>1, <1>4, <1>6, Zenon
<1>7. n \notin better /\ gScore'[n] = gScore[n]
  BY <1>3, <1>4, <1>5
<1>8. \A m \in better : ArcCost(n, m) < Inf
  BY <1>1, <1>3, <1>4
<1>9. \A m \in better : ~ClosedNode(m)
  <2> SUFFICES ASSUME NEW m \in better, ClosedNode(m) PROVE FALSE
    OBVIOUS
  <2>1. gScore[m] + Heuristic(m) <= gScore[n] + Heuristic(n)
    BY <1>1, <1>3 DEF SearchKnows, ClosedIsFirst
  <2>2. Heuristic(n) <= ArcCost(n, m) + Heuristic(m)
    BY <1>1, <1>3, <1>8 DEF CostsTyped
  <2> QED
    BY <2>1, <2>2, <1>3, <1>4
<1> HIDE DEF better
\* The heap afterwards: what was in it beside e, and the improved nodes.
<1>10. \A o \in heap' : (o \in heap /\ o # e) \/ (\E m \in better : o = Entry(m, arc(m)))
  BY <1>2
<1>11. \A m \in better : m \in Nodes /\ arc(m) < gScore[m] /\ Entry(m, arc(m)) \in heap'
  BY <1>2 DEF better
<1>12. \A m \in Nodes : ClosedNode(m)' <=> m = n \/ (ClosedNode(m) /\ m \notin better)
  <2> SUFFICES ASSUME NEW m \in Nodes PROVE ClosedNode(m)' <=> m = n \/ (ClosedNode(m) /\ m \notin better)
    OBVIOUS
  <2>1. ClosedNode(m)' <=> gScore'[m] < Inf /\ Entry(m, gScore'[m]) \notin heap'
    BY <1>2, CostsStay, Zenon DEF ClosedNode
  <2>2. CASE m = n
    <3>1. Entry(n, gScore'[n]) = e
      BY <1>3, <1>7
    <3>2. \A o \in better : Entry(o, arc(o)) # e
      BY <1>3, <1>7 DEF Entry
    <3>3. e \notin heap'
      BY <1>10, <3>2
    <3>4. gScore[n] < Inf
      <4>1. e[1] < bestTotal /\ bestTotal \in 0..Inf
        BY <1>1 DEF Expand, SearchTypeOK
      <4> QED
        BY <4>1, <1>1, <1>3, <1>4
    <3> QED
      BY <2>1, <2>2, <3>1, <3>3, <3>4, <1>7
  <2>3. CASE m \in better
    BY <2>1, <2>3, <1>5, <1>7, <1>11
  <2>4. CASE m # n /\ m \notin better
    <3>1. gScore'[m] = gScore[m]
      BY <2>4, <1>5
    <3>2. Entry(m, gScore[m]) # e
      BY <2>4, <1>3 DEF Entry
    <3>3. \A o \in better : Entry(o, arc(o)) # Entry(m, gScore[m])
      BY <2>4 DEF Entry
    <3>4. (Entry(m, gScore[m]) \in heap') <=> (Entry(m, gScore[m]) \in heap)
      BY <1>2, <1>10, <3>2, <3>3
    <3> QED
      BY <2>1, <2>4, <3>1, <3>4 DEF ClosedNode
  <2> QED
    BY <2>2, <2>3, <2>4
<1>13. \A m \in Nodes : ClosedNode(m)' => gScore'[m] = gScore[m]
  BY <1>5, <1>7, <1>12
<1>14. \A m \in Nodes : ClosedNode(m) => ClosedNode(m)'
  BY <1>9, <1>12
<1>15. bestTotal' \in 0..Inf /\ bestTotal' <= bestTotal /\ bestTotal' <= gScore[n] + Goal(n)
  <2>1. bestTotal \in 0..Inf
    BY <1>1 DEF SearchTypeOK
  <2> QED
    BY <2>1, <1>1, <1>2, <1>3, <1>4
<1>16. HeapIsKnown'
  <2> SUFFICES ASSUME NEW o \in heap' PROVE o = Entry(o[3], o[2]) /\ gScore'[o[3]] <= o[2]
    <3>1. \A o : Entry(o[3], o[2])' = Entry(o[3], o[2])
      BY <1>2, CostsStay
    <3> QED
      BY <3>1, Zenon DEF HeapIsKnown
  <2>1. CASE o \in heap
    <3>1. o = Entry(o[3], o[2]) /\ gScore[o[3]] <= o[2] /\ o[3] \in Nodes /\ o[2] \in Nat
      BY <2>1, <1>1, HeapTypes DEF SearchKnows, HeapIsKnown
    <3> QED
      BY <3>1, <1>4, <1>6
  <2>2. ASSUME NEW m \in better, o = Entry(m, arc(m))
        PROVE  o = Entry(o[3], o[2]) /\ gScore'[o[3]] <= o[2]
    BY <2>2, <1>6, <1>11 DEF Entry
  <2> QED
    BY <2>1, <2>2, <1>10
<1>17. FromTheStart'
  <2>1. \A m \in Nodes : gScore[m] <= Starts[m] /\ Starts[m] \in 0..Inf
    BY <1>1 DEF SearchKnows, FromTheStart, CostsTyped
  <2>2. \A m \in Nodes : gScore'[m] <= Starts[m]
    BY <2>1, <1>4, <1>6
  <2> QED
    BY <2>2, <1>2, CostsStay, Zenon DEF FromTheStart
<1>18. ClosedIsRelaxed'
  <2> SUFFICES ASSUME NEW m \in Nodes, ClosedNode(m)'
               PROVE  /\ \A o \in Nodes : gScore'[o] <= gScore'[m] + ArcCost(m, o)
                      /\ bestTotal' <= gScore'[m] + Goal(m)
    BY <1>2, CostsStay, Zenon DEF ClosedIsRelaxed
  <2>1. CASE m = n
    BY <2>1, <1>3, <1>6, <1>7, <1>15
  <2>2. CASE m # n
    <3>1. ClosedNode(m) /\ gScore'[m] = gScore[m]
      BY <2>2, <1>12, <1>13
    <3>2. /\ \A o \in Nodes : gScore[o] <= gScore[m] + ArcCost(m, o) /\ ArcCost(m, o) \in 0..Inf
          /\ bestTotal <= gScore[m] + Goal(m) /\ bestTotal \in 0..Inf
      BY <3>1, <1>1 DEF SearchKnows, ClosedIsRelaxed, CostsTyped, SearchTypeOK
    <3> QED
      BY <3>1, <3>2, <1>4, <1>6, <1>15
  <2> QED
    BY <2>1, <2>2
<1>19. ClosedIsFirst'
  <2> SUFFICES ASSUME NEW m \in Nodes, NEW o \in heap', ClosedNode(m)'
               PROVE  gScore'[m] + Heuristic(m) <= o[1]
    BY <1>2, CostsStay, Zenon DEF ClosedIsFirst
  <2>1. gScore'[m] = gScore[m] /\ gScore[m] \in Nat /\ Heuristic(m) \in Nat /\ Heuristic(n) \in Nat
    BY <1>3, <1>4, <1>13
  <2>2. gScore[m] + Heuristic(m) <= e[1]
    BY <1>1, <1>3, <1>12, <2>1 DEF SearchKnows, ClosedIsFirst
  <2>3. CASE o \in heap
    <3>1. e[1] <= o[1] /\ e[1] \in Nat /\ o[1] \in Nat
      BY <2>3, <1>1, <1>2, HeapTypes DEF IsTop, Before
    <3> QED
      BY <2>1, <2>2, <3>1
  <2>4. ASSUME NEW b \in better, o = Entry(b, arc(b)) PROVE gScore'[m] + Heuristic(m) <= o[1]
    <3>1. Heuristic(n) <= ArcCost(n, b) + Heuristic(b)
      BY <1>1, <1>3, <1>8, <1>11 DEF CostsTyped
    <3>2. o[1] = gScore[n] + ArcCost(n, b) + Heuristic(b)
      BY <2>4, <1>3 DEF Entry
    <3>3. ArcCost(n, b) \in Nat /\ Heuristic(b) \in Nat /\ gScore[n] \in Nat
      BY <1>3, <1>4, <1>11
    <3> QED
      BY <2>1, <2>2, <3>1, <3>2, <3>3, <1>3
  <2> QED
    BY <2>3, <2>4, <1>10
<1>20. PreviousIsClosed'
  <2> SUFFICES ASSUME NEW m \in Nodes, gScore'[m] < Inf
               PROVE  /\ previous'[m] = NoNode => gScore'[m] = Starts[m]
                      /\ \A k \in Nodes : previous'[m] = k =>
                            ClosedNode(k)' /\ gScore'[m] = gScore'[k] + ArcCost(k, m)
    <3>1. Starts' = Starts /\ \A k, j : ArcCost(k, j)' = ArcCost(k, j)
      BY <1>2, CostsStay
    <3> QED
      BY <3>1, CostsStay DEF PreviousIsClosed
  <2>1. CASE m \in better
    <3>1. previous'[m] = n /\ ClosedNode(n)' /\ gScore'[m] = gScore'[n] + ArcCost(n, m)
      BY <2>1, <1>2, <1>3, <1>5, <1>7, <1>12
    <3> QED
      BY <3>1, <1>3, ConstantTypes
  <2>2. CASE m \notin better
    <3>1. previous'[m] = previous[m] /\ gScore'[m] = gScore[m]
      BY <2>2, <1>2, <1>5
    <3>2. /\ previous[m] = NoNode => gScore[m] = Starts[m]
          /\ \A k \in Nodes : previous[m] = k =>
                ClosedNode(k) /\ gScore[m] = gScore[k] + ArcCost(k, m)
      BY <3>1, <1>1 DEF SearchKnows, PreviousIsClosed
    <3> QED
      BY <3>1, <3>2, <1>13, <1>14
  <2> QED
    BY <2>1, <2>2
<1>21. KnownIsReachable'
  <2> SUFFICES ASSUME NEW m \in Nodes, gScore'[m] < Inf
               PROVE  \E k \in Nat \ {0} :
                         \E w \in [1..k -> Nodes], t \in [1..k -> Nat] : IsTripTo(m, k, w, t)'
    BY Zenon DEF KnownIsReachable
  <2>1. CASE m \notin better
    <3>1. gScore[m] = gScore'[m]
      BY <2>1, <1>5
    <3>k. PICK k \in Nat \ {0} : \E w \in [1..k -> Nodes], t \in [1..k -> Nat] : IsTripTo(m, k, w, t)
      BY <1>1, <3>1 DEF SearchKnows, KnownIsReachable
    <3>2. PICK w \in [1..k -> Nodes], t \in [1..k -> Nat] : IsTripTo(m, k, w, t)
      BY <3>k
    <3>3. IsTrip(k, w, t)' /\ w[k] = m /\ t[k] = gScore'[m]
      BY <1>2, <3>1, <3>2, TripsStay DEF IsTripTo
    <3>4. \A i \in 1..k : gScore'[w[i]] <= t[i] /\ t[i] <= t[k]
      <4> SUFFICES ASSUME NEW i \in 1..k PROVE gScore'[w[i]] <= t[i] /\ t[i] <= t[k]
        OBVIOUS
      <4>1. w[i] \in Nodes /\ t[i] \in Nat /\ gScore[w[i]] <= t[i] /\ t[i] <= t[k]
        BY <3>2 DEF IsTripTo
      <4>2. /\ gScore[w[i]] \in Nat /\ gScore'[w[i]] \in Nat
            /\ gScore'[w[i]] <= gScore[w[i]]
        BY <4>1, <1>a
      <4> QED
        BY <4>1, <4>2
    <3> QED
      BY <3>3, <3>4, Zenon DEF IsTripTo
  \* The trip to n goes on to m, which is not on it: no node of the trip is known to be later.
  <2>2. CASE m \in better
    <3>1. gScore[n] < Inf
      BY <1>3, <1>4, <1>11, <2>2, <1>1
    <3>k. PICK k \in Nat \ {0} : \E w \in [1..k -> Nodes], t \in [1..k -> Nat] : IsTripTo(n, k, w, t)
      BY <1>1, <1>3, <3>1 DEF SearchKnows, KnownIsReachable
    <3>2. PICK w \in [1..k -> Nodes], t \in [1..k -> Nat] : IsTripTo(n, k, w, t)
      BY <3>k
    <3>3. /\ \A i, j \in 1..k : i # j => w[i] # w[j]
          /\ t[1] = Starts[w[1]]
          /\ \A i \in 2..k : t[i] = t[i - 1] + ArcCost(w[i - 1], w[i])
          /\ w[k] = n /\ t[k] = gScore[n]
          /\ \A i \in 1..k : gScore[w[i]] <= t[i] /\ t[i] <= t[k]
      BY <3>2, Zenon DEF IsTripTo, IsTrip
    <3>4. arc(m) \in Nat /\ arc(m) = gScore[n] + ArcCost(n, m) /\ ArcCost(n, m) \in Nat
      BY <1>3, <1>4
    <3>5. PICK longer \in [1..(k + 1) -> Nodes] :
              longer[k + 1] = m /\ \A i \in 1..k : longer[i] = w[i]
      <4> DEFINE x == [i \in 1..(k + 1) |-> IF i = k + 1 THEN m ELSE w[i]]
      <4>1. x \in [1..(k + 1) -> Nodes] /\ x[k + 1] = m /\ \A i \in 1..k : x[i] = w[i]
        OBVIOUS
      <4> QED
        BY <4>1
    <3>6. PICK later \in [1..(k + 1) -> Nat] :
              later[k + 1] = arc(m) /\ \A i \in 1..k : later[i] = t[i]
      <4> DEFINE x == [i \in 1..(k + 1) |-> IF i = k + 1 THEN arc(m) ELSE t[i]]
      <4>1. x \in [1..(k + 1) -> Nat] /\ x[k + 1] = arc(m) /\ \A i \in 1..k : x[i] = t[i]
        BY <3>4
      <4> QED
        BY <4>1
    <3>7. \A i \in 1..k : w[i] # m
      <4> SUFFICES ASSUME NEW i \in 1..k, w[i] = m PROVE FALSE
        OBVIOUS
      <4>1. gScore[m] <= t[i] /\ t[i] <= gScore[n] /\ t[i] \in Nat
        BY <3>3
      <4>2. arc(m) < gScore[m]
        BY <2>2, <1>11
      <4>3. gScore[n] \in Nat /\ gScore[m] \in Nat
        BY <1>3, <1>a
      <4> QED
        BY <4>1, <4>2, <4>3, <3>4
    <3>8. \A i, j \in 1..(k + 1) : i # j => longer[i] # longer[j]
      <4> SUFFICES ASSUME NEW i \in 1..(k + 1), NEW j \in 1..(k + 1), i < j
                   PROVE  longer[i] # longer[j]
        OBVIOUS
      <4>1. i \in 1..k /\ (j \in 1..k \/ j = k + 1)
        OBVIOUS
      <4>2. CASE j \in 1..k
        <5>1. longer[i] = w[i] /\ longer[j] = w[j] /\ w[i] # w[j]
          BY <4>1, <4>2, <3>3, <3>5
        <5> QED
          BY <5>1
      <4>3. CASE j = k + 1
        BY <4>1, <4>3, <3>5, <3>7
      <4> QED
        BY <4>1, <4>2, <4>3
    <3>9. later[1] = Starts[longer[1]]
      BY <3>3, <3>5, <3>6
    <3>10. ASSUME NEW i \in 2..(k + 1)
           PROVE  later[i] = later[i - 1] + ArcCost(longer[i - 1], longer[i])
      <4>1. CASE i \in 2..k
        <5>1. i - 1 \in 1..k /\ i \in 1..k
          BY <4>1
        <5> QED
          BY <4>1, <5>1, <3>3, <3>5, <3>6
      <4>2. CASE i = k + 1
        <5>1. i - 1 = k /\ k \in 1..k
          BY <4>2
        <5> QED
          BY <4>2, <5>1, <3>3, <3>4, <3>5, <3>6
      <4> QED
        BY <4>1, <4>2
    <3>11. IsTrip(k + 1, longer, later)'
      <4>1. IsTrip(k + 1, longer, later)
        BY <3>8, <3>9, <3>10 DEF IsTrip
      <4> QED
        BY <4>1, <1>2, TripsStay
    <3>12. longer[k + 1] = m /\ later[k + 1] = gScore'[m]
      BY <2>2, <3>5, <3>6, <1>5
    <3>13. ASSUME NEW i \in 1..(k + 1)
           PROVE  gScore'[longer[i]] <= later[i] /\ later[i] <= later[k + 1]
      <4>1. CASE i \in 1..k
        <5>1. /\ longer[i] \in Nodes /\ longer[i] = w[i] /\ later[i] = t[i]
              /\ gScore[w[i]] <= t[i] /\ t[i] <= gScore[n] /\ t[i] \in Nat
          BY <4>1, <3>3, <3>5, <3>6
        <5>2. /\ gScore'[longer[i]] \in Nat /\ gScore[w[i]] \in Nat /\ gScore[n] \in Nat
              /\ gScore'[longer[i]] <= gScore[w[i]]
          BY <5>1, <1>3, <1>a
        <5>3. gScore[n] <= arc(m)
          BY <5>2, <3>4
        <5>4. later[k + 1] = arc(m)
          BY <3>6
        <5>5. gScore'[longer[i]] <= t[i]
          BY <5>1, <5>2
        <5>6. t[i] <= arc(m)
          <6>1. t[i] \in Nat /\ gScore[n] \in Nat /\ arc(m) \in Nat
            BY <5>1, <5>2, <3>4
          <6>2. t[i] <= gScore[n] /\ gScore[n] <= arc(m)
            BY <5>1, <5>3
          <6> HIDE DEF arc
          <6> QED
            BY <6>1, <6>2
        <5> QED
          BY <5>1, <5>4, <5>5, <5>6
      <4>2. CASE i = k + 1
        BY <4>2, <3>5, <3>6, <3>12, <1>6
      <4> QED
        BY <4>1, <4>2
    <3>14. IsTripTo(m, k + 1, longer, later)'
      BY <3>11, <3>12, <3>13 DEF IsTripTo
    <3>15. k + 1 \in Nat \ {0}
      OBVIOUS
    <3> QED
      BY <3>14, <3>15, Zenon
  <2> QED
    BY <2>1, <2>2
<1>22. BestIsKnown'
  <2>1. /\ BestIsKnown /\ bestTotal \in 0..Inf /\ bestGoal \in Nodes \cup {NoNode, Direct}
        /\ DirectTime \in 0..Inf
    BY <1>1 DEF SearchKnows, SearchTypeOK, CostsTyped
  <2>2. IsDirect => bestTotal' <= DirectTime
    BY <2>1, <1>15 DEF BestIsKnown
  <2>3. CASE bestTotal' = bestTotal /\ bestGoal' = bestGoal
    <3>1. \A m \in Nodes : bestGoal = m => ClosedNode(m)' /\ bestTotal = gScore'[m] + Goal(m)
      BY <2>1, <1>13, <1>14 DEF BestIsKnown
    <3> QED
      BY <2>1, <2>2, <2>3, <3>1, <1>2, CostsStay DEF BestIsKnown
  <2>4. CASE bestTotal' = e[2] + Goal(n) /\ bestGoal' = n
    <3>1. ClosedNode(n)' /\ bestTotal' = gScore'[n] + Goal(n)
      BY <2>4, <1>3, <1>7, <1>12
    <3> QED
      BY <2>2, <2>4, <3>1, <1>2, <1>3, CostsStay, ConstantTypes DEF BestIsKnown
  <2> QED
    BY <2>3, <2>4, <1>2
<1>23. SearchTypeOK'
  <2>1. origin' = origin /\ destination' = destination
    BY <1>2 DEF question
  <2>2. gScore' \in [Nodes -> 0..Inf] /\ previous' \in [Nodes -> Nodes \cup {NoNode}]
    BY <1>1, <1>2, <1>3, <1>6 DEF SearchTypeOK
  <2>3. heap' \subseteq Nat \X (0..Inf) \X Nodes
    <3> SUFFICES ASSUME NEW o \in heap' PROVE o \in Nat \X (0..Inf) \X Nodes
      OBVIOUS
    <3>1. CASE o \in heap
      BY <3>1, <1>1 DEF SearchTypeOK
    <3>2. ASSUME NEW m \in better, o = Entry(m, arc(m)) PROVE o \in Nat \X (0..Inf) \X Nodes
      <4>1. m \in Nodes /\ arc(m) \in 0..Inf /\ arc(m) + Heuristic(m) \in Nat
        BY <1>4, <1>5, <1>6, <1>11
      <4> QED
        BY <3>2, <4>1 DEF Entry
    <3> QED
      BY <3>1, <3>2, <1>10
  <2>4. expansions' \in 0..MaxExpansions + 1
    BY <1>1, <1>2, ConstantTypes
  <2>5. bestGoal' \in Nodes \cup {NoNode, Direct}
    BY <1>1, <1>2, <1>3 DEF SearchTypeOK
  <2> QED
    BY <2>1, <2>2, <2>3, <2>4, <2>5, <1>1, <1>2, <1>15 DEF SearchTypeOK
<1>24. QuestionOK'
  BY <1>1, <1>2, CostsStay
<1>25. SearchKnows'
  BY <1>16, <1>17, <1>18, <1>19, <1>20, <1>21, <1>22, <1>24 DEF SearchKnows
<1> QED
  BY <1>1, <1>2, <1>23, <1>25 DEF SearchInv, SearchUnderWay, WalkAddsUp

\* A search that is given up keeps its types and promises nothing.
LEMMA GiveUpStep ==
    ASSUME SearchInv, NEW e \in heap, Expand(e), ~(expansions + 1 <= MaxExpansions)
    PROVE  SearchInv'
<1>1. /\ status = "search" /\ SearchTypeOK /\ expansions \in Nat /\ expansions <= MaxExpansions
      /\ CostsTyped
  BY CostsAreTyped, ConstantTypes DEF SearchInv, SearchUnderWay, Expand, SearchKnows, SearchTypeOK
<1>2. /\ status' = "search_limit" /\ UNCHANGED question
      /\ UNCHANGED <<gScore, previous, heap, spot, walked>> /\ expansions' = expansions + 1
      /\ \/ e[2] + Goal(e[3]) < bestTotal /\ bestTotal' = e[2] + Goal(e[3]) /\ bestGoal' = e[3]
         \/ bestTotal' = bestTotal /\ bestGoal' = bestGoal
  <2>1. expansions + 1 > MaxExpansions
    BY <1>1, ConstantTypes
  <2> QED
    BY <2>1, Zenon DEF Expand
<1>3. e[2] \in 0..Inf /\ e[3] \in Nodes /\ Goal(e[3]) \in 0..Inf
  BY <1>1, HeapTypes DEF CostsTyped
<1>4. bestTotal' \in 0..Inf /\ bestGoal' \in Nodes \cup {NoNode, Direct}
  BY <1>1, <1>2, <1>3, ConstantTypes DEF SearchTypeOK
<1>5. SearchTypeOK'
  <2>1. origin' = origin /\ destination' = destination
    BY <1>2 DEF question
  <2>2. expansions' \in 0..MaxExpansions + 1
    BY <1>1, <1>2, ConstantTypes
  <2> QED
    BY <1>1, <1>2, <1>4, <2>1, <2>2 DEF SearchTypeOK
<1> QED
  BY <1>2, <1>5 DEF SearchInv, SearchUnderWay, WalkAddsUp

LEMMA SearchStep == SearchInv /\ [SearchNext]_searchVars => SearchInv'
<1> SUFFICES ASSUME SearchInv, [SearchNext]_searchVars PROVE SearchInv'
  OBVIOUS
<1>1. CASE Begin
  BY <1>1, BeginStep
<1>2. ASSUME NEW e \in heap, Discard(e) PROVE SearchInv'
  BY <1>2, DiscardStep
<1>3. ASSUME NEW e \in heap, Expand(e) PROVE SearchInv'
  BY <1>3, ExpandStep, GiveUpStep
<1>4. CASE Stop
  BY <1>4, StopStep
<1>5. CASE Walk
  BY <1>5, WalkStep
<1>6. CASE UNCHANGED searchVars
  <2>1. /\ UNCHANGED <<question, gScore, previous, heap, bestTotal, bestGoal>>
        /\ UNCHANGED <<origin, destination, expansions, status, spot, walked>>
    BY <1>6 DEF searchVars, question
  <2>2. SearchKnows => SearchKnows'
    BY <2>1, KnowledgeStays
  <2> QED
    BY <2>1, <2>2 DEF SearchInv, SearchTypeOK, StoppedIsBest, WalkAddsUp
<1> QED
  BY <1>1, <1>2, <1>3, <1>4, <1>5, <1>6 DEF SearchNext

THEOREM SearchInvariant == SearchSpec => []SearchInv
BY SearchInitially, SearchStep, PTL DEF SearchSpec

---------------------------------------------------------------------------
(* The times along a trail, which a recursive function defines. *)

\* The times along w up to its j-th node.
IsTimes(j, w, t) ==
    t[1] = Starts[w[1]] /\ \A i \in 2..j : t[i] = t[i - 1] + ArcCost(w[i - 1], w[i])

LEMMA LengthOfTrail ==
    ASSUME NEW k \in Nat, NEW w \in [1..k -> Nodes] PROVE Len(w) = k
<1>1. w \in Seq(Nodes)
  BY SeqDef
<1> QED
  BY <1>1, LenProperties

LEMMA TimesAreUnique ==
    ASSUME NEW k \in Nat, NEW w, NEW t, NEW x, IsTimes(k, w, t), IsTimes(k, w, x)
    PROVE  \A i \in 1..k : t[i] = x[i]
<1> DEFINE bad == {i \in 1..k : t[i] # x[i]}
<1> SUFFICES ASSUME bad # {} PROVE FALSE
  OBVIOUS
<1>1. PICK i \in bad : \A j \in bad : i <= j
  <2>1. bad \in SUBSET Nat
    OBVIOUS
  <2> HIDE DEF bad
  <2> QED
    BY <2>1, NaturalsHaveLeast
<1>2. i \in 1..k /\ t[i] # x[i]
  OBVIOUS
<1>3. i # 1
  BY <1>2 DEF IsTimes
<1>4. i - 1 \in 1..k /\ i \in 2..k /\ ~(i <= i - 1)
  BY <1>2, <1>3
<1>5. t[i - 1] = x[i - 1]
  BY <1>1, <1>4
<1> QED
  BY <1>2, <1>4, <1>5 DEF IsTimes

LEMMA TimesExist ==
    ASSUME QuestionOK, NEW k \in Nat \ {0}, NEW w \in [1..k -> Nodes]
    PROVE  \E t \in [1..k -> Nat] : IsTimes(k, w, t)
<1> DEFINE bad == {j \in 1..k : ~\E t \in [1..j -> Nat] : IsTimes(j, w, t)}
<1> SUFFICES ASSUME bad # {} PROVE FALSE
  OBVIOUS
<1>1. PICK j \in bad : \A i \in bad : j <= i
  <2>1. bad \in SUBSET Nat
    OBVIOUS
  <2> HIDE DEF bad
  <2> QED
    BY <2>1, NaturalsHaveLeast
<1>2. j \in 1..k /\ ~\E t \in [1..j -> Nat] : IsTimes(j, w, t)
  OBVIOUS
<1>3. Starts[w[1]] \in Nat
  <2>1. w[1] \in Nodes
    OBVIOUS
  <2> QED
    BY <2>1, NodeTypes, ConstantTypes
<1>4. CASE j = 1
  <2>1. [i \in 1..1 |-> Starts[w[1]]] \in [1..1 -> Nat]
    BY <1>3
  <2>2. IsTimes(1, w, [i \in 1..1 |-> Starts[w[1]]])
    BY DEF IsTimes
  <2> QED
    BY <1>2, <1>4, <2>1, <2>2
<1>5. CASE j # 1
  <2>1. j - 1 \in 1..k /\ ~(j <= j - 1) /\ w[j - 1] \in Nodes /\ w[j] \in Nodes
    BY <1>2, <1>5
  <2>2. PICK t \in [1..(j - 1) -> Nat] : IsTimes(j - 1, w, t)
    BY <1>1, <2>1
  <2>3. t[j - 1] + ArcCost(w[j - 1], w[j]) \in Nat
    <3>1. t[j - 1] \in Nat
      BY <2>1
    <3>2. ArcCost(w[j - 1], w[j]) \in Nat
      BY <2>1, ArcTypes, ConstantTypes
    <3> QED
      BY <3>1, <3>2
  <2>4. PICK sum \in Nat : sum = t[j - 1] + ArcCost(w[j - 1], w[j])
    BY <2>3
  <2> DEFINE longer == [i \in 1..j |-> IF i = j THEN sum ELSE t[i]]
  <2>5. longer \in [1..j -> Nat]
    BY <2>1
  <2>6. longer[j] = sum /\ \A i \in 1..(j - 1) : longer[i] = t[i]
    BY <2>1, <1>2
  <2> HIDE DEF longer
  <2>7. longer[1] = Starts[w[1]]
    BY <2>1, <2>2, <2>6 DEF IsTimes
  <2>8. ASSUME NEW i \in 2..j PROVE longer[i] = longer[i - 1] + ArcCost(w[i - 1], w[i])
    <3>1. CASE i = j
      BY <3>1, <2>1, <2>4, <2>6
    <3>2. CASE i # j
      <4>1. i \in 2..(j - 1) /\ i \in 1..(j - 1) /\ i - 1 \in 1..(j - 1)
        BY <2>1, <3>2
      <4> QED
        BY <4>1, <2>2, <2>6 DEF IsTimes
    <3> QED
      BY <3>1, <3>2
  <2> QED
    BY <1>2, <2>5, <2>7, <2>8 DEF IsTimes
<1> QED
  BY <1>4, <1>5

\* What TimesAlong is for a trail of k nodes.
LEMMA TimesAlongTrail ==
    ASSUME QuestionOK, NEW k \in Nat \ {0}, NEW w \in [1..k -> Nodes]
    PROVE  IsTimes(k, w, TimesAlong(w)) /\ \A i \in 1..k : TimesAlong(w)[i] \in Nat
<1>1. Len(w) = k
  BY LengthOfTrail
<1> DEFINE OneOn(t) == [i \in 1..k |-> IF i = 1 THEN Starts[w[1]] ELSE t[i - 1] + ArcCost(w[i - 1], w[i])]
<1>2. TimesAlong(w) = CHOOSE t : t = OneOn(t)
  BY <1>1 DEF TimesAlong
<1>3. PICK t \in [1..k -> Nat] : IsTimes(k, w, t)
  BY TimesExist
<1>4. t = OneOn(t)
  <2>1. \A i \in 1..k : t[i] = OneOn(t)[i]
    BY <1>3 DEF IsTimes
  <2> QED
    BY <2>1
<1>5. TimesAlong(w) = OneOn(TimesAlong(w))
  BY <1>2, <1>4
<1>6. IsTimes(k, w, TimesAlong(w))
  BY <1>5 DEF IsTimes
<1>7. \A i \in 1..k : TimesAlong(w)[i] = t[i]
  BY <1>3, <1>6, TimesAreUnique
<1> QED
  BY <1>6, <1>7

---------------------------------------------------------------------------
(* What a search that stopped has found. *)

\* Nothing beats the best route: a faster trail would have a first node that is not closed,
\* and that node would wait in the heap ahead of the best route.
LEMMA NoTrailIsFaster ==
    ASSUME SearchInv, status \in {"walk", "found", "no_path"},
           NEW k \in Nat \ {0}, NEW w \in [1..k -> Nodes]
    PROVE  TrailTime(w) \in Nat /\ bestTotal <= TrailTime(w)
<1> DEFINE t == TimesAlong(w)
           total == TrailTime(w)
<1>1. /\ SearchTypeOK /\ QuestionOK /\ CostsTyped /\ FromTheStart /\ ClosedIsRelaxed /\ StoppedIsBest
      /\ Inf \in Nat
  BY CostsAreTyped, ConstantTypes DEF SearchInv, SearchUnderWay, SearchKnows
<1>2. IsTimes(k, w, t) /\ \A i \in 1..k : t[i] \in Nat
  BY <1>1, TimesAlongTrail
<1>3. total = t[k] + Goal(w[k])
  BY LengthOfTrail DEF TrailTime
<1> HIDE DEF t, total
<1>4. \A i \in 1..k : /\ w[i] \in Nodes /\ t[i] \in Nat /\ gScore[w[i]] \in Nat
                      /\ Heuristic(w[i]) \in Nat /\ Goal(w[i]) \in Nat
  <2>1. \A n \in Nodes : gScore[n] \in Nat /\ Heuristic(n) \in Nat /\ Goal(n) \in Nat
    <3>1. 0..Inf \subseteq Nat
      BY <1>1
    <3>2. \A n \in Nodes : gScore[n] \in 0..Inf /\ Heuristic(n) \in Nat /\ Goal(n) \in 0..Inf
      BY <1>1 DEF SearchTypeOK, CostsTyped
    <3> QED
      BY <3>1, <3>2, Zenon
  <2> QED
    BY <2>1, <1>2
<1>5. ASSUME NEW i \in 1..k, NEW j \in 1..k, j = i + 1
      PROVE  t[j] = t[i] + ArcCost(w[i], w[j]) /\ ArcCost(w[i], w[j]) \in Nat
  <2>1. j \in 2..k /\ j - 1 = i
    BY <1>5
  <2>2. ArcCost(w[i], w[j]) \in Nat
    BY <1>1, <1>4 DEF CostsTyped
  <2> QED
    BY <2>1, <2>2, <1>2 DEF IsTimes
<1>6. 1 \in 1..k /\ k \in 1..k /\ Inf \in Nat /\ bestTotal \in Nat /\ bestTotal <= Inf /\ total \in Nat
  BY <1>1, <1>3, <1>4 DEF SearchTypeOK
<1> SUFFICES ASSUME total < bestTotal PROVE FALSE
  BY <1>6 DEF total
\* From every node of the trail the straight line to the destination fits into what is left.
<1>7. \A i \in 1..k : t[i] + Heuristic(w[i]) <= total
  <2> DEFINE bad == {d \in 0..(k - 1) : ~(t[k - d] + Heuristic(w[k - d]) <= total)}
  <2>1. bad = {}
    <3> SUFFICES ASSUME bad # {} PROVE FALSE
      OBVIOUS
    <3>1. PICK d \in bad : \A c \in bad : d <= c
      <4>1. bad \in SUBSET Nat
        OBVIOUS
      <4> HIDE DEF bad
      <4> QED
        BY <4>1, NaturalsHaveLeast
    <3>2. d \in 0..(k - 1) /\ k - d \in 1..k /\ ~(t[k - d] + Heuristic(w[k - d]) <= total)
      OBVIOUS
    <3>3. d # 0
      <4>1. Goal(w[k]) < Inf
        <5>1. t[k] \in Nat /\ Goal(w[k]) \in Nat
          BY <1>4, <1>6
        <5> QED
          BY <5>1, <1>3, <1>6
      <4>2. Heuristic(w[k]) <= Goal(w[k])
        BY <4>1, <1>1, <1>4, <1>6 DEF CostsTyped
      <4> QED
        BY <4>2, <3>2, <1>3, <1>4, <1>6
    <3> DEFINE i == k - d
               j == k - d + 1
    <3>4. i \in 1..k /\ j \in 1..k /\ j = i + 1 /\ d - 1 \in 0..(k - 1) /\ j = k - (d - 1)
      BY <3>2, <3>3
    <3>5. t[j] + Heuristic(w[j]) <= total
      BY <3>1, <3>4
    <3> HIDE DEF i, j
    <3>6. t[j] = t[i] + ArcCost(w[i], w[j]) /\ ArcCost(w[i], w[j]) \in Nat
      BY <3>4, <1>5
    <3>7. ArcCost(w[i], w[j]) < Inf
      <4>1. t[i] \in Nat /\ t[j] \in Nat /\ Heuristic(w[j]) \in Nat
        BY <3>4, <1>4
      <4> QED
        BY <4>1, <3>5, <3>6, <1>6
    <3>8. Heuristic(w[i]) <= ArcCost(w[i], w[j]) + Heuristic(w[j])
      BY <3>4, <3>7, <1>1, <1>4 DEF CostsTyped
    <3>9. ~(t[i] + Heuristic(w[i]) <= total)
      BY <3>2 DEF i
    <3>10. /\ t[i] \in Nat /\ t[j] \in Nat /\ Heuristic(w[i]) \in Nat
           /\ Heuristic(w[j]) \in Nat
      BY <3>4, <1>4
    <3> QED
      BY <3>5, <3>6, <3>8, <3>9, <3>10, <1>6
  <2> SUFFICES ASSUME NEW i \in 1..k PROVE t[i] + Heuristic(w[i]) <= total
    OBVIOUS
  <2>2. k - i \in 0..(k - 1) /\ k - (k - i) = i
    OBVIOUS
  <2> QED
    BY <2>1, <2>2
\* A node whose time is known by then is closed.
<1>8. ASSUME NEW i \in 1..k, gScore[w[i]] <= t[i] PROVE ClosedNode(w[i])
  <2>1. gScore[w[i]] + Heuristic(w[i]) <= total /\ gScore[w[i]] < Inf
    BY <1>4, <1>6, <1>7, <1>8
  <2>2. ASSUME Entry(w[i], gScore[w[i]]) \in heap PROVE FALSE
    <3>1. bestTotal <= gScore[w[i]] + Heuristic(w[i])
      BY <2>2, <1>1 DEF StoppedIsBest, Entry
    <3> QED
      BY <3>1, <2>1, <1>4, <1>6
  <2> QED
    BY <2>1, <2>2 DEF ClosedNode
<1>9. \A i \in 1..k : gScore[w[i]] <= t[i]
  <2> DEFINE bad == {i \in 1..k : ~(gScore[w[i]] <= t[i])}
  <2> SUFFICES ASSUME bad # {} PROVE FALSE
    OBVIOUS
  <2>1. PICK j \in bad : \A c \in bad : j <= c
    <3>1. bad \in SUBSET Nat
      OBVIOUS
    <3> HIDE DEF bad
    <3> QED
      BY <3>1, NaturalsHaveLeast
  <2>2. j \in 1..k /\ ~(gScore[w[j]] <= t[j])
    OBVIOUS
  <2>3. j # 1
    <3>1. gScore[w[1]] <= t[1]
      BY <1>1, <1>2, <1>4, <1>6 DEF FromTheStart, IsTimes
    <3> QED
      BY <3>1, <2>2
  <2> DEFINE i == j - 1
  <2>4. i \in 1..k /\ j = i + 1 /\ ~(j <= i)
    BY <2>2, <2>3
  <2>5. gScore[w[i]] <= t[i]
    BY <2>1, <2>4
  <2> HIDE DEF i, bad
  <2>6. gScore[w[j]] <= gScore[w[i]] + ArcCost(w[i], w[j])
    <3>1. ClosedNode(w[i])
      BY <2>4, <2>5, <1>8
    <3>2. w[i] \in Nodes /\ w[j] \in Nodes
      BY <2>2, <2>4
    <3> QED
      BY <3>1, <3>2, <1>1 DEF ClosedIsRelaxed
  <2>7. t[j] = t[i] + ArcCost(w[i], w[j]) /\ ArcCost(w[i], w[j]) \in Nat
    BY <2>2, <2>4, <1>5
  <2> QED
    BY <2>2, <2>4, <2>5, <2>6, <2>7, <1>4
<1>10. bestTotal <= gScore[w[k]] + Goal(w[k])
  BY <1>1, <1>4, <1>6, <1>8, <1>9 DEF ClosedIsRelaxed
<1> QED
  BY <1>3, <1>4, <1>6, <1>9, <1>10

\* A node whose time is known ends a trail that takes this time.
LEMMA KnownTimeOfTrail ==
    ASSUME SearchInv, status \in SearchUnderWay, NEW n \in Nodes, gScore[n] < Inf
    PROVE  \E w \in Trails : TrailTime(w) = gScore[n] + Goal(n)
<1>1. QuestionOK /\ KnownIsReachable
  BY DEF SearchInv, SearchKnows
<1>2. PICK k \in Nat \ {0} : \E w \in [1..k -> Nodes], t \in [1..k -> Nat] : IsTripTo(n, k, w, t)
  BY <1>1 DEF KnownIsReachable
<1>3. PICK w \in [1..k -> Nodes], t \in [1..k -> Nat] : IsTripTo(n, k, w, t)
  BY <1>2
<1>4. /\ \A i, j \in 1..k : i # j => w[i] # w[j]
      /\ IsTimes(k, w, t) /\ w[k] = n /\ t[k] = gScore[n]
  BY <1>3 DEF IsTripTo, IsTrip, IsTimes
<1>5. k \in 1..Cardinality(Nodes)
  <2>1. IsFiniteSet(Nodes)
    BY SearchAssumption
  <2>2. w \in Injection(1..k, Nodes)
    BY <1>4 DEF Injection, IsInjective
  <2>3. Cardinality(1..k) <= Cardinality(Nodes)
    BY <2>1, <2>2, FS_Injection
  <2>4. Cardinality(1..k) = k
    BY FS_Interval
  <2>5. Cardinality(Nodes) \in Nat
    BY <2>1, FS_CardinalityType
  <2> QED
    BY <2>3, <2>4, <2>5
<1>6. w \in Trails
  BY <1>4, <1>5 DEF Trails
<1>7. TimesAlong(w)[k] = gScore[n]
  <2>1. IsTimes(k, w, TimesAlong(w))
    BY <1>1, TimesAlongTrail
  <2>2. k \in 1..k /\ k \in Nat
    OBVIOUS
  <2> QED
    BY <2>1, <2>2, <1>4, TimesAreUnique
<1>8. TrailTime(w) = gScore[n] + Goal(n)
  BY <1>4, <1>7, LengthOfTrail DEF TrailTime
<1> QED
  BY <1>6, <1>8

\* The best total of a search that stopped is the optimum of the reference definition.
LEMMA BestIsOptimum ==
    ASSUME SearchInv, status \in {"walk", "found", "no_path"} PROVE bestTotal = Optimum
<1> DEFINE straight == IF IsDirect THEN DirectTime ELSE Inf
           times == {TrailTime(w) : w \in Trails} \cup {straight}
<1>1. /\ SearchTypeOK /\ CostsTyped /\ BestIsKnown /\ Inf \in Nat /\ DirectTime \in Nat
      /\ bestTotal \in Nat /\ bestTotal <= Inf /\ bestGoal \in Nodes \cup {NoNode, Direct}
  BY CostsAreTyped, ConstantTypes DEF SearchInv, SearchUnderWay, SearchKnows, SearchTypeOK, CostsTyped
<1>2. Optimum = Min(times)
  BY DEF Optimum, DirectTime
<1>3. \A w \in Trails : TrailTime(w) \in Nat /\ bestTotal <= TrailTime(w)
  <2> SUFFICES ASSUME NEW w \in Trails PROVE TrailTime(w) \in Nat /\ bestTotal <= TrailTime(w)
    OBVIOUS
  <2>1. PICK k \in 1..Cardinality(Nodes) : w \in [1..k -> Nodes]
    BY DEF Trails
  <2>2. k \in Nat \ {0}
    OBVIOUS
  <2> QED
    BY <2>1, <2>2, NoTrailIsFaster
<1>4. straight \in Nat /\ bestTotal <= straight
  BY <1>1 DEF BestIsKnown
<1>5. times \in SUBSET Nat /\ times # {} /\ \A x \in times : bestTotal <= x
  BY <1>3, <1>4
<1>6. bestTotal \in times
  <2>1. CASE bestGoal = NoNode \/ bestGoal = Direct
    BY <2>1, <1>1 DEF BestIsKnown
  <2>2. CASE bestGoal \in Nodes
    <3>1. gScore[bestGoal] < Inf /\ bestTotal = gScore[bestGoal] + Goal(bestGoal)
      BY <2>2, <1>1 DEF BestIsKnown, ClosedNode
    <3> QED
      BY <2>2, <3>1, KnownTimeOfTrail DEF SearchUnderWay
  <2> QED
    BY <2>1, <2>2, <1>1
<1> HIDE DEF times
<1>7. Min(times) \in times /\ \A x \in times : Min(times) <= x
  BY <1>5, MinIsLeast
<1>8. Min(times) \in Nat /\ bestTotal <= Min(times) /\ Min(times) <= bestTotal
  BY <1>5, <1>6, <1>7
<1> QED
  BY <1>1, <1>2, <1>8

LEMMA FastestIsFound == SearchInv => RouteIsFastest
<1> SUFFICES ASSUME SearchInv PROVE RouteIsFastest
  OBVIOUS
<1>1. status = "found" => bestTotal = Optimum /\ walked = bestTotal
  BY BestIsOptimum DEF SearchInv, WalkAddsUp
<1>2. ASSUME status = "no_path" PROVE Optimum >= Inf
  <2>1. bestTotal = Inf
    BY <1>2 DEF SearchInv, SearchUnderWay, SearchKnows, WalkAddsUp, BestIsKnown
  <2> QED
    BY <1>2, <2>1, BestIsOptimum, ConstantTypes
<1> QED
  BY <1>1, <1>2 DEF RouteIsFastest

\* For every finite graph, every kind of its links and every request: the route that the
\* search returns is the fastest along distinct nodes, it reports that there is none only if
\* there is none that takes less than Inf, and the walk back takes the time it reports
\* (RoadGraph.shortest_path).
THEOREM RouteIsFastestHolds == SearchSpec => []RouteIsFastest
  BY FastestIsFound, SearchInvariant, PTL

\* Types of the search's variables.
THEOREM SearchTypes == SearchSpec => []SearchTypeOK
<1>1. SearchInv => SearchTypeOK
  BY DEF SearchInv
<1> QED
  BY <1>1, SearchInvariant, PTL

---------------------------------------------------------------------------
(* All of the components, one of them in focus.  Each takes its own steps, *)
(* or rests: what was proved of a component holds beside the others.       *)

allVars == <<focus, clientVars, searchVars, storeVars, apiVars, deployVars, sessionVars, demoVars,
             mapVars, searchBoxVars, playgroundVars, keysPageVars, billingVars, signInVars,
             dashboardVars, chartVars, requestFormVars, recorderVars>>

LEMMA ServicesStart ==
  ServicesInit => /\ ClientInit /\ SearchInit /\ StoreInit /\ ApiInit /\ DeployInit /\ SessionsInit
                  /\ DemoInit /\ MapInit /\ BoxInit /\ PlaygroundInit /\ PageInit /\ BillingInit
                  /\ SignInInit /\ DashboardInit /\ ChartInit /\ RequestFormInit
  BY DEF ServicesInit

LEMMA ServicesSteps ==
  [ServicesNext]_allVars =>
      /\ [ClientNext]_clientVars /\ [SearchNext]_searchVars /\ [StoreNext]_storeVars
      /\ [ApiNext]_apiVars /\ [DeployNext]_deployVars /\ [SessionsNext]_sessionVars
      /\ [DemoNext]_demoVars /\ [MapNext]_mapVars /\ [BoxNext]_searchBoxVars
      /\ [PlaygroundNext]_playgroundVars /\ [KeysPageNext]_keysPageVars
      /\ [BillingNext]_billingVars /\ [SignInNext]_signInVars
      /\ [DashboardNext]_dashboardVars /\ [ChartNext]_chartVars
      /\ [RequestFormNext]_requestFormVars
<1> SUFFICES ASSUME [ServicesNext]_allVars
             PROVE  /\ [ClientNext]_clientVars /\ [SearchNext]_searchVars /\ [StoreNext]_storeVars
                    /\ [ApiNext]_apiVars /\ [DeployNext]_deployVars /\ [SessionsNext]_sessionVars
                    /\ [DemoNext]_demoVars /\ [MapNext]_mapVars /\ [BoxNext]_searchBoxVars
                    /\ [PlaygroundNext]_playgroundVars /\ [KeysPageNext]_keysPageVars
                    /\ [BillingNext]_billingVars /\ [SignInNext]_signInVars
                    /\ [DashboardNext]_dashboardVars /\ [ChartNext]_chartVars
                    /\ [RequestFormNext]_requestFormVars
  OBVIOUS
<1>1. CASE UNCHANGED allVars
  BY <1>1 DEF allVars
<1>2. CASE ServicesNext
  <2>1. /\ focus = "client" => ClientNext
        /\ focus = "search" => SearchNext
        /\ focus = "roads" => StoreNext
        /\ focus = "api" => ApiNext
        /\ focus = "deploy" => DeployNext
        /\ focus = "sessions" => SessionsNext
        /\ focus = "demo" => DemoNext
        /\ focus = "map" => MapNext
    BY <1>2 DEF ServicesNext
  <2>2. /\ focus = "box" => BoxNext
        /\ focus = "playground" => PlaygroundNext
        /\ focus = "keys" => KeysPageNext
        /\ focus = "billing" => BillingNext
        /\ focus = "signin" => SignInNext
        /\ focus = "dashboard" => DashboardNext
        /\ focus = "chart" => ChartNext
        /\ focus = "form" => RequestFormNext
    BY <1>2 DEF ServicesNext
  <2>3. Rest
    BY <1>2 DEF ServicesNext
  <2> QED
    BY <2>1, <2>2, <2>3 DEF Rest
<1> QED
  BY <1>1, <1>2

\* The invariants of all the components.
ServicesInv ==
    /\ ClientInv /\ SearchInv /\ StoreInv /\ LoadersKept /\ StoreBounds /\ ApiKept /\ LimiterInv
    /\ DeployInv /\ DeployTypes /\ SessionsInv /\ DemoInv /\ MapInv /\ BoxInv /\ PlaygroundInv
    /\ KeysPageInv /\ BillingTypeOK /\ SignInTypeOK /\ DashboardInv /\ ChartInv /\ ChartTypeOK
    /\ RequestFormTypeOK

LEMMA DeployStep == DeployInv /\ DeployTypes /\ [DeployNext]_deployVars => DeployInv' /\ DeployTypes'
  BY StepCommits, StepTested, StepDone, StepDeployed, DeployTypesStep DEF DeployInv

LEMMA SessionsKept == SessionsInv /\ [SessionsNext]_sessionVars => SessionsInv'
  BY SessionsTypesStep, SessionsStep DEF SessionsInv

LEMMA ServicesInitially == ServicesInit => ServicesInv
  BY ServicesStart, ClientInitially, SearchInitially, StoreInitially, StoreKeptInitially, ApiInitially,
     LimiterInitially, DeployInitially, DeployTypesInitially, SessionsInitially, DemoInitially,
     MapInitially, BoxInitially, PlaygroundInitially, KeysPageInitially, BillingInitially,
     SignInInitially, DashboardInitially, ChartInitially, RequestFormInitially
  DEF ServicesInv

LEMMA ServicesStep == ServicesInv /\ [ServicesNext]_allVars => ServicesInv'
<1> SUFFICES ASSUME ServicesInv, [ServicesNext]_allVars PROVE ServicesInv'
  OBVIOUS
<1>1. ClientInv' /\ SearchInv' /\ StoreInv' /\ LoadersKept' /\ StoreBounds'
  BY ServicesSteps, ClientStep, SearchStep, StoreStep, LoadersStep, BoundsStep DEF ServicesInv
<1>2. ApiKept' /\ LimiterInv' /\ DeployInv' /\ DeployTypes' /\ SessionsInv' /\ DemoInv'
  BY ServicesSteps, ApiStep, LimiterStep, DeployStep, SessionsKept, DemoStep DEF ServicesInv
<1>3. MapInv' /\ BoxInv' /\ PlaygroundInv' /\ KeysPageInv'
  BY ServicesSteps, MapStep, BoxStep, PlaygroundStep, KeysPageStep DEF ServicesInv
<1>4. BillingTypeOK' /\ SignInTypeOK' /\ DashboardInv' /\ ChartInv' /\ ChartTypeOK' /\ RequestFormTypeOK'
  BY ServicesSteps, BillingStep, SignInStep, DashboardStep, ChartStep, ChartTypesStep, RequestFormStep
  DEF ServicesInv
<1> QED
  BY <1>1, <1>2, <1>3, <1>4 DEF ServicesInv

LEMMA ServicesInvariance == ServicesSpec => []ServicesInv
  BY ServicesInitially, ServicesStep, PTL DEF ServicesSpec, allVars

LEMMA ServicesAreTyped == ServicesInv => ServicesTypeOK
<1> SUFFICES ASSUME ServicesInv PROVE ServicesTypeOK
  OBVIOUS
<1>1. ClientTypeOK /\ StoreTypeOK /\ ApiTypeOK /\ DeployTypeOK
  BY ClientParts, StoreIsTyped, ApiIsTyped, DeployIsTyped DEF ServicesInv, ClientInv
<1>2. SearchTypeOK
  BY DEF ServicesInv, SearchInv
<1>3. SessionsTypeOK /\ DemoTypeOK /\ MapTypeOK
  BY DEF ServicesInv, SessionsInv, DemoInv, MapInv
<1>4. BoxTypeOK /\ PlaygroundTypeOK /\ KeysPageTypeOK /\ DashboardTypeOK
  BY DEF ServicesInv, BoxInv, PlaygroundInv, KeysPageInv, DashboardInv
<1> QED
  BY <1>1, <1>2, <1>3, <1>4 DEF ServicesTypeOK, ServicesInv

\* Whichever component takes a step, the variables of all have their types, with what the type
\* invariants say beyond that: a semaphore counts what its holders leave, a lock's line holds
\* who waits for it, a load has a holder, what is in flight was made.
THEOREM ServicesTypesHold == ServicesSpec => []ServicesTypeOK
  BY ServicesInvariance, ServicesAreTyped, PTL

\* Beside each other the components keep what each promises: bounded calls and spaced probes of
\* ArcGisClient, fastest routes on complete graphs, bounded costs of bad credentials, tested
\* and complete deployments, no old sessions, the ceilings of the demo, current answers, and
\* secrets that stay on display.
THEOREM ServicesAreSafe ==
  ServicesSpec => /\ [](CallsAreBounded /\ RouteIsFastest /\ RoadsAreKept /\ FailedCallsBounded)
                  /\ [](OnlyTestedRuns /\ DeployedIsRunning /\ OldSessionsEnd /\ DemoCeilings)
                  /\ []AnswersAreCurrent
                  /\ ProbesAreSpaced /\ OneRenewalPerToken /\ FailingServiceIsSpared /\ SecretsAreShown
<1>1. ServicesSpec => Spec
  <2>1. ServicesInit => Init
    BY DEF ServicesInit, ClientInit
  <2>2. [ServicesNext]_allVars => [Next]_vars
    BY ServicesSteps, ClientStepsAreSteps
  <2> QED
    BY <2>1, <2>2, PTL DEF ServicesSpec, Spec, allVars
<1>2. ServicesSpec => MapSpec /\ BoxSpec /\ PlaygroundSpec /\ DashboardSpec /\ ChartSpec /\ KeysPageSpec
  BY ServicesStart, ServicesSteps, PTL
  DEF ServicesSpec, allVars, MapSpec, BoxSpec, PlaygroundSpec, DashboardSpec, ChartSpec, KeysPageSpec
<1>3. ServicesSpec => ApiSpec /\ SessionsSpec /\ DemoSpec
  BY ServicesStart, ServicesSteps, PTL DEF ServicesSpec, allVars, ApiSpec, SessionsSpec, DemoSpec
<1>4. ServicesInv => RouteIsFastest /\ RoadsAreKept /\ OnlyTestedRuns /\ DeployedIsRunning
  <2>1. ServicesInv => RouteIsFastest
    BY FastestIsFound DEF ServicesInv
  <2>2. ServicesInv => RoadsAreKept
    BY DEF ServicesInv, StoreInv, CountIsKept, PagesAreComplete, LoadUnderWay, RoadsAreKept
  <2>3. ServicesInv => OnlyTestedRuns /\ DeployedIsRunning
    BY DEF ServicesInv, DeployInv
  <2> QED
    BY <2>1, <2>2, <2>3
<1>5. ServicesInv => ClientInv
  BY DEF ServicesInv
<1>6. ServicesSpec => OneRenewalPerToken /\ FailingServiceIsSpared
  BY <1>5, ServicesInvariance, RenewalIsDue, FailureIsRemembered, PTL
  DEF OneRenewalPerToken, FailingServiceIsSpared
<1> QED
  BY <1>1, <1>2, <1>3, <1>4, <1>6, ServicesInvariance, CallsAreBoundedHolds, ProbesAreSpacedHolds,
     FailedCallsBoundedHolds, OldSessionsEndHolds, DemoCeilingsHold, AnswersAreCurrentHolds,
     SecretsAreShownHolds, PTL
=============================================================================
