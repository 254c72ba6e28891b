------------------------------ MODULE Deployment ------------------------------
(***************************************************************************)
(* The deployment of the main branch: the timer's deploy.py, the job that  *)
(* configures Convex, pushes its functions and registers the site key, and *)
(* the restart of api and web.  A step may fail and the host may die       *)
(* between any two; the timer then starts again from the beginning.        *)
(***************************************************************************)
EXTENDS Integers

CONSTANTS
    MaxCommits, \* bound: commits ever pushed to main
    Workflows,  \* those whose runs are judged: CI and Security
    SiteKeys,   \* values SITE_API_KEY may have in production.env
    FirstKey    \* the one it has first

ASSUME DeploymentAssumption ==
    MaxCommits \in Nat \ {0} /\ FirstKey \in SiteKeys /\ Workflows # {}

VARIABLES
    main, passing, \* the newest commit, and the workflows whose latest run passed, for each
    hostKey,       \* SITE_API_KEY in production.env
    deployStep,    \* where deploy.py is; it holds deploy.lock unless "idle"
    sha, jobKey,   \* the commit it deploys, and the key `up` has read
    functions,     \* the commit whose functions Convex runs
    convexKey,     \* SITE_API_KEY in Convex's environment
    siteRows,      \* the system account's apiKeys: which are stored, and which of them are revoked
    api, web,      \* running containers: their commit and key
    restarting,    \* the containers still to be recreated by this `up`
    deployed,      \* deployed-sha
    tested,        \* history: commits whose workflows have all passed at one time
    rotated        \* history: the host's key changed since the last deployment began

running == <<functions, api, web>>
keyStore == <<convexKey, siteRows>>
hosts == <<main, passing, hostKey, tested, rotated>>
job == <<deployStep, sha, jobKey, restarting>>
deployVars == <<hosts, job, running, keyStore, deployed>>

Commits == 1..MaxCommits
NoCommit == 0
NoKey == "none"

DeployInit ==
    /\ main = 1 /\ passing = [c \in Commits |-> {}]
    /\ hostKey = FirstKey
    /\ deployStep = "idle" /\ sha = NoCommit /\ jobKey = NoKey /\ restarting = {}
    /\ functions = NoCommit /\ convexKey = NoKey
    /\ siteRows = [stored |-> {}, revoked |-> {}]
    /\ api = [commit |-> NoCommit, key |-> NoKey] /\ web = api
    /\ deployed = NoCommit
    /\ tested = {} /\ rotated = FALSE

---------------------------------------------------------------------------
(* Around the deployment. *)

PushCommit ==
    /\ main < MaxCommits /\ main' = main + 1
    /\ UNCHANGED <<passing, hostKey, tested, rotated, job, running, keyStore, deployed>>

Passed(c) == passing[c] = Workflows

\* A workflow starts, passes, fails, or is run again.
WorkflowRun(c, w) ==
    /\ c <= main
    /\ passing' = [passing EXCEPT ![c] = IF w \in @ THEN @ \ {w} ELSE @ \cup {w}]
    /\ tested' = IF Passed(c)' THEN tested \cup {c} ELSE tested
    /\ UNCHANGED <<main, hostKey, rotated, job, running, keyStore, deployed>>

RotateHostKey(k) ==
    /\ k # hostKey /\ hostKey' = k /\ rotated' = TRUE
    /\ UNCHANGED <<main, passing, tested, job, running, keyStore, deployed>>

---------------------------------------------------------------------------
(* deploy.py. *)

Passes(from, to) == deployStep = from /\ deployStep' = to

\* The timer: a deployment that still runs keeps the lock, and the next one returns.
Poll ==
    /\ main # deployed
    /\ Passes("idle", "judge") /\ sha' = main
    /\ UNCHANGED <<jobKey, restarting, hosts, running, keyStore, deployed>>

\* The latest run of each workflow for this commit.
Judge ==
    /\ deployStep = "judge"
    /\ IF Passed(sha)
       THEN Passes("judge", "release") /\ rotated' = FALSE /\ UNCHANGED sha
       ELSE Passes("judge", "idle") /\ sha' = NoCommit /\ UNCHANGED rotated
    /\ UNCHANGED <<main, passing, hostKey, tested, jobKey, restarting, running, keyStore, deployed>>

\* Mutant: releases what main is now.
ReleaseNewest ==
    /\ Passes("release", "configure") /\ sha' = main
    /\ UNCHANGED <<jobKey, restarting, hosts, running, keyStore, deployed>>

\* fetch, archive, extract, build, start convex-backend: the running release is untouched.
Release ==
    /\ Passes("release", "configure") /\ UNCHANGED sha
    /\ UNCHANGED <<jobKey, restarting, hosts, running, keyStore, deployed>>

\* convex-deploy starts with the host's key and sets Convex's environment.
Configure ==
    /\ Passes("configure", "functions")
    /\ convexKey' = hostKey
    /\ UNCHANGED <<sha, jobKey, restarting, hosts, running, siteRows, deployed>>

PushFunctions ==
    /\ Passes("functions", "siteKey") /\ functions' = sha
    /\ UNCHANGED <<sha, jobKey, restarting, hosts, api, web, keyStore, deployed>>

\* ensureSiteKey: a revoked secret is refused for good, and the deployment ends.
KeyRefused(k) == k \in siteRows.revoked

\* Mutant: the previous site key stays active.
upsertSiteKeyAdds ==
    /\ ~KeyRefused(convexKey) /\ Passes("siteKey", "up")
    /\ siteRows' = [siteRows EXCEPT !.stored = @ \cup {convexKey}]
    /\ UNCHANGED <<sha, jobKey, restarting, hosts, running, convexKey, deployed>>

upsertSiteKey ==
    /\ ~KeyRefused(convexKey) /\ Passes("siteKey", "up")
    /\ siteRows' = [stored |-> siteRows.stored \cup {convexKey},
                    revoked |-> siteRows.stored \ {convexKey}]
    /\ UNCHANGED <<sha, jobKey, restarting, hosts, running, convexKey, deployed>>

\* Mutant: the commit is recorded before the services run it.
UpRecorded ==
    /\ Passes("up", "restart") /\ jobKey' = hostKey /\ restarting' = {"api", "web"}
    /\ deployed' = sha
    /\ UNCHANGED <<sha, hosts, running, keyStore>>

\* `up` reads production.env again.
Up ==
    /\ Passes("up", "restart") /\ jobKey' = hostKey /\ restarting' = {"api", "web"}
    /\ UNCHANGED <<sha, hosts, running, keyStore, deployed>>

Restart(service) ==
    /\ deployStep = "restart" /\ service \in restarting
    /\ restarting' = restarting \ {service}
    /\ IF service = "api"
       THEN api' = [commit |-> sha, key |-> jobKey] /\ UNCHANGED web
       ELSE web' = [commit |-> sha, key |-> jobKey] /\ UNCHANGED api
    /\ UNCHANGED <<deployStep, sha, jobKey, hosts, functions, keyStore, deployed>>

\* Both are the three addresses answer, and deployed-sha is replaced.
Record ==
    /\ restarting = {} /\ Passes("restart", "idle")
    /\ deployed' = sha /\ sha' = NoCommit /\ jobKey' = NoKey
    /\ UNCHANGED <<restarting, hosts, running, keyStore>>

GivesUp ==
    /\ deployStep' = "idle" /\ restarting' = {} /\ sha' = NoCommit /\ jobKey' = NoKey
    /\ UNCHANGED <<hosts, running, keyStore, deployed>>

upsertKeyRefuses == deployStep = "siteKey" /\ KeyRefused(convexKey) /\ GivesUp

\* A step fails or times out, or the host dies: the lock is released.
Abort == deployStep # "idle" /\ GivesUp

DeployRuns ==
    \/ Poll \/ Judge \/ Release \/ Configure \/ PushFunctions \/ upsertSiteKey \/ upsertKeyRefuses
    \/ Up \/ (\E service \in {"api", "web"} : Restart(service)) \/ Record

DeployNext ==
    \/ DeployRuns \/ Abort \/ PushCommit
    \/ \E k \in SiteKeys : RotateHostKey(k)
    \/ \E c \in Commits, w \in Workflows : WorkflowRun(c, w)

\* The timer fires every minute, and a deployment that is not aborted goes on.
DeployFairness == WF_deployVars(DeployRuns)

DeploySpec == DeployInit /\ [][DeployNext]_deployVars /\ DeployFairness

---------------------------------------------------------------------------
(* Properties. *)

DeployTypeOK ==
    /\ main \in Commits /\ sha \in Commits \cup {NoCommit} /\ deployed \in Commits \cup {NoCommit}
    /\ passing \in [Commits -> SUBSET Workflows]
    /\ hostKey \in SiteKeys /\ {convexKey, jobKey} \subseteq SiteKeys \cup {NoKey}
    /\ siteRows.stored \subseteq SiteKeys /\ siteRows.revoked \subseteq siteRows.stored
    /\ functions \in Commits \cup {NoCommit}
    /\ {api, web} \subseteq [commit : Commits \cup {NoCommit}, key : SiteKeys \cup {NoKey}]
    /\ restarting \subseteq {"api", "web"} /\ (restarting # {} => deployStep = "restart")
    /\ tested \subseteq Commits /\ rotated \in BOOLEAN

\* Nothing ever runs that did not pass all its workflows, whatever is pushed, run again or
\* dies during a deployment.
OnlyTestedRuns == {functions, api.commit, web.commit} \subseteq tested \cup {NoCommit}

\* A commit that counts as deployed runs everywhere, and, unless the host's key was changed
\* since the deployment began, api and web present the one site key that is active.
DeployedIsRunning ==
    deployed = main /\ deployStep = "idle" =>
        /\ functions = deployed /\ api.commit = deployed /\ web.commit = deployed
        /\ ~rotated => api.key = web.key /\ siteRows.stored \ siteRows.revoked = {web.key}

\* A tested commit is running in the end, after any number of failed or interrupted
\* deployments, if they do not fail for ever, unless the host has a key that was revoked.
DeploymentConverges ==
    <>[](Passed(main) /\ ~KeyRefused(hostKey)) /\ <>[][~Abort]_deployVars => <>[](web.commit = main)
=============================================================================
