-------------------------------- MODULE Deploy --------------------------------
(***************************************************************************)
(* How a build gets onto the host: CI pushes it and runs update.sh over    *)
(* ssh, the webhook server or an administrator runs deploy-from-registry   *)
(* .sh.  Nothing keeps two of them apart.                                  *)
(*                                                                         *)
(* Abstractions.  Builds are numbered in the order of their commits, and   *)
(* build b brings the migrations of all builds up to b.  An image is the   *)
(* build it was made of.  The registry has one content under two names: a  *)
(* script pulls by one of them, docker-compose knows the public one only.  *)
(* .env.production names neither image nor tag.  A command of a script     *)
(* takes effect as a whole; that it fails after it took effect is a        *)
(* failure of the next.  Hosts, logins with the quiet pull before one, and *)
(* waiting are left out.                                                   *)
(***************************************************************************)
EXTENDS Naturals

CONSTANTS
  Job,        \* scripts that run at one time
  Latest,     \* the tag latest
  Version,    \* the other tags: of a commit, or any that someone thought of
  Vpc,        \* what USE_VPC may be
  MaxBuild,   \* bound: builds
  MaxCheck    \* MAX_RETRIES of the health check

ASSUME DeployConstants ==
  /\ MaxBuild \in Nat \ {0} /\ MaxCheck \in Nat \ {0}
  /\ Job # {} /\ Latest \notin Version /\ Vpc \subseteq BOOLEAN

Build == 1..MaxBuild
Tag == Version \cup {Latest}

VARIABLES
  there, here,      \* the build that each tag names in the registry, and as the image of
                    \* docker-compose on the host; 0 for none
  schema,           \* the build up to which migrations are applied
  app,              \* the build the container runs
  pc, script, tag,  \* where each script stands; which it is, what it was asked for
  checks,           \* its failed health checks
  want,             \* history: the build a script's tag named when it pulled it, 0 if
                    \* docker-compose was not told of it
  moved, crossed    \* history: scripts since whose migration another's pull moved the tag
                    \* they start; since whose pull it did, or another build was started

jobVars  == <<pc, script, tag, checks>>
hostVars == <<here, schema, app>>
pastVars == <<want, moved, crossed>>
vars == <<there, hostVars, jobVars, pastVars>>

Init ==
  /\ there = [t \in Tag |-> IF t = Latest THEN 1 ELSE 0]
  /\ here = there
  /\ schema = 1 /\ app = 1
  /\ pc = [j \in Job |-> "idle"]
  /\ script = [j \in Job |-> "update"]
  /\ tag = [j \in Job |-> Latest]
  /\ checks = [j \in Job |-> 0]
  /\ want = [j \in Job |-> 0]
  /\ moved = {} /\ crossed = {}

-----------------------------------------------------------------------------
(***************************************************************************)
(* The workflow, and what starts a script                                  *)
(***************************************************************************)

\* A build gets latest and a tag: that of its commit, or any when the workflow is started
\* by hand.  Runs of the workflow end in any order, and one may be repeated.
Push(b, t) ==
  /\ there' = [x \in Tag |-> IF x \in {t, Latest} THEN b ELSE there[x]]
  /\ UNCHANGED <<hostVars, jobVars, pastVars>>

Begin(j, s, t) ==
  /\ pc[j] = "idle"
  /\ pc' = [pc EXCEPT ![j] = "pull"]
  /\ script' = [script EXCEPT ![j] = s]
  /\ tag' = [tag EXCEPT ![j] = t]
  /\ UNCHANGED <<there, hostVars, checks, pastVars>>

\* Requests to the webhook server; named: tag and image are both given.
Request ==
  [method : {"OPTIONS", "GET", "POST"}, path : BOOLEAN, token : BOOLEAN,
   body : {"broken", "failed", "success"}, named : BOOLEAN, tag : Tag]

Answer(r) ==
  IF r.method = "OPTIONS" THEN "preflight"
  ELSE IF r.method # "POST" THEN "not_allowed"
  ELSE IF ~r.path THEN "not_found"
  ELSE IF ~r.token THEN "unauthorized"
  ELSE IF r.body = "broken" THEN "bad_request"
  ELSE IF r.body = "failed" THEN "skipped"
  ELSE IF ~r.named THEN "bad_request"
  ELSE "triggered"

\* The request is answered before the script starts.
Webhook(j, r) == Answer(r) = "triggered" /\ Begin(j, "webhook", r.tag)

ByHand(j, t) == Begin(j, "hand", t)
Update(j, t) == Begin(j, "update", t)

(***************************************************************************)
(* The scripts                                                             *)
(***************************************************************************)

\* The tags that docker-compose puts for DOCKER_IMAGE_TAG: the webhook server sets it for
\* the whole script, update.sh exports it before the start only.
MigrateTagUnset(j) == Latest           \* faulty: the webhook server does not set it
MigrateTag(j) == IF script[j] = "webhook" THEN tag[j] ELSE Latest
StartTagUnset(j) == IF script[j] = "update" THEN tag[j] ELSE Latest   \* faulty: neither here
StartTag(j) == IF script[j] = "hand" THEN Latest ELSE tag[j]

\* docker-compose runs a container of build b, the image of tag t: one that is not on the
\* host it pulls, or builds of whatever is checked out there.
Runs(t, b) ==
  /\ here[t] \in {0, b}
  /\ here' = [here EXCEPT ![t] = b]

\* Scripts at one of the steps S under which the tag they start is moved.
Touched(S) == {i \in Job : pc[i] \in S /\ here'[StartTag(i)] # here[StartTag(i)]}

\* A script exits, with 0 or 1, and is forgotten.
End(j) ==
  /\ pc' = [pc EXCEPT ![j] = "idle"]
  /\ script' = [script EXCEPT ![j] = "update"] /\ tag' = [tag EXCEPT ![j] = Latest]
  /\ checks' = [checks EXCEPT ![j] = 0] /\ want' = [want EXCEPT ![j] = 0]
  /\ moved' = moved \ {j} /\ crossed' = crossed \ {j}

\* docker-compose is not told what the script pulled: a tag it was given by hand, or a name
\* of the image that is not the public one.
Untold(j, v) == v \/ (script[j] = "hand" /\ tag[j] # Latest)

\* USE_VPC may give the image a name of its own.
Pull(j) ==
  /\ pc[j] = "pull"
  /\ there[tag[j]] # 0
  /\ \E v \in Vpc :
       /\ here' = IF v THEN here ELSE [here EXCEPT ![tag[j]] = there[tag[j]]]
       /\ want' = [want EXCEPT ![j] = IF Untold(j, v) THEN 0 ELSE there[tag[j]]]
  /\ moved' = moved \cup Touched({"start"})
  /\ crossed' = crossed \cup {i \in Touched({"migrate", "start"}) : want[i] # 0}
  /\ pc' = [pc EXCEPT ![j] = "migrate"]
  /\ UNCHANGED <<there, schema, app, script, tag, checks>>

\* A tag that is not in the registry makes the script fail.
PullMissing(j) ==
  /\ pc[j] = "pull"
  /\ there[tag[j]] = 0
  /\ End(j)
  /\ UNCHANGED <<there, hostVars>>

\* prisma migrate deploy applies what the database lacks, under a lock of its own.
Migrate(j) ==
  /\ pc[j] = "migrate"
  /\ \E b \in Build : /\ Runs(MigrateTag(j), b)
                      /\ schema' = IF b > schema THEN b ELSE schema
  /\ pc' = [pc EXCEPT ![j] = "start"]
  /\ UNCHANGED <<there, app, script, tag, checks, pastVars>>

\* What a script was asked for is not read after its start, and forgotten here.
Start(j) ==
  /\ pc[j] = "start"
  /\ \E b \in Build : Runs(StartTag(j), b) /\ app' = b
  /\ crossed' = crossed \cup {i \in Job : pc[i] = "check" /\ want[i] # 0 /\ app' # app}
  /\ pc' = [pc EXCEPT ![j] = "check"]
  /\ moved' = moved \ {j}
  /\ script' = [script EXCEPT ![j] = "update"] /\ tag' = [tag EXCEPT ![j] = Latest]
  /\ UNCHANGED <<there, schema, checks, want>>

\* The loop of the health check; the app crashes and comes up (restart: unless-stopped)
\* when it likes.
CheckedAgain(j) ==
  checks' = [checks EXCEPT ![j] = @ + 1] /\ UNCHANGED <<pc, script, tag, pastVars>>
CheckForever(j) ==                     \* faulty: the last retry sets RETRY_COUNT back
  /\ pc[j] = "check"
  /\ \/ End(j)
     \/ checks[j] + 1 < MaxCheck /\ CheckedAgain(j)
     \/ /\ checks[j] + 1 = MaxCheck
        /\ checks' = [checks EXCEPT ![j] = 0] /\ UNCHANGED <<pc, script, tag, pastVars>>
  /\ UNCHANGED <<there, hostVars>>
CheckPast(j) ==                        \* faulty: the last retry is never noticed
  /\ pc[j] = "check"
  /\ End(j) \/ CheckedAgain(j)
  /\ UNCHANGED <<there, hostVars>>
CheckStartsOver(j) ==                  \* faulty: after the last retry it pulls again
  /\ pc[j] = "check"
  /\ \/ End(j)
     \/ checks[j] + 1 < MaxCheck /\ CheckedAgain(j)
     \/ /\ checks[j] + 1 = MaxCheck
        /\ pc' = [pc EXCEPT ![j] = "pull"] /\ checks' = [checks EXCEPT ![j] = 0]
        /\ UNCHANGED <<script, tag, pastVars>>
  /\ UNCHANGED <<there, hostVars>>
Check(j) ==
  /\ pc[j] = "check"
  /\ End(j) \/ (checks[j] + 1 < MaxCheck /\ CheckedAgain(j))
  /\ UNCHANGED <<there, hostVars>>

\* A command fails (set -e), or whoever ran the script goes and takes it along.
Fail(j) ==
  /\ pc[j] # "idle"
  /\ End(j)
  /\ UNCHANGED <<there, hostVars>>

Running(j) == Pull(j) \/ PullMissing(j) \/ Migrate(j) \/ Start(j) \/ Check(j)

Next ==
  \/ \E b \in Build, t \in Tag : Push(b, t)
  \/ \E j \in Job :
       \/ \E r \in Request : Webhook(j, r)
       \/ \E t \in Tag : ByHand(j, t) \/ Update(j, t)
       \/ Running(j) \/ Fail(j)

Spec == Init /\ [][Next]_vars

\* Docker and the shell go on with a script that runs: a command works or fails.
FairSpec == Spec /\ \A j \in Job : WF_vars(Running(j))

-----------------------------------------------------------------------------
(***************************************************************************)
(* Properties                                                              *)
(***************************************************************************)

\* Every variable keeps the shape the code gives it.
TypeOK ==
  /\ there \in [Tag -> 0..MaxBuild] /\ here \in [Tag -> 0..MaxBuild]
  /\ there[Latest] # 0 /\ here[Latest] # 0
  /\ schema \in Build /\ app \in Build
  /\ pc \in [Job -> {"idle", "pull", "migrate", "start", "check"}]
  /\ script \in [Job -> {"webhook", "hand", "update"}]
  /\ tag \in [Job -> Tag] /\ want \in [Job -> 0..MaxBuild]
  /\ checks \in [Job -> 0..(MaxCheck - 1)]
  /\ moved \in SUBSET Job /\ crossed \in SUBSET Job

\* The build that runs has its migrations applied (scripts/update.sh:6-9: pull, migrate,
\* then start; md/CI-CD: migrated before it is deployed, so that the data is consistent).
AppMigrated == app <= schema

Starts(j) == pc[j] = "start" /\ pc'[j] = "check"

\* A script starts no build whose migrations are missing, whatever runs beside it, but for
\* update.sh with a tag of its own (update.sh:150, 155), or when the tag it starts was moved
\* under it (webhook-server.js:31).
StartsMigrated ==
  [][\A j \in Job :
       Starts(j) /\ ~(script[j] = "update" /\ tag[j] # Latest) /\ j \notin moved
       => app' <= schema]_vars

\* A script's health check sees the build that its tag named when it pulled, unless
\* docker-compose was not told of it - a tag given by hand (deploy-from-registry.sh:102,
\* 107), the name of the image with USE_VPC (deploy-from-registry.sh:42, update.sh:98,
\* docker-compose.prod.yml:90) - or another script crossed this one: moved the tag before
\* it started the app, or started another build after.
ChecksItsOwn ==
  \A j \in Job : pc[j] = "check" /\ want[j] # 0 /\ j \notin crossed => app = want[j]

\* The commands a script has before it at most.
Effort(j) ==
  CASE pc[j] = "idle"    -> 0
    [] pc[j] = "check"   -> MaxCheck - checks[j]
    [] pc[j] = "start"   -> MaxCheck + 1
    [] pc[j] = "migrate" -> MaxCheck + 2
    [] pc[j] = "pull"    -> MaxCheck + 3

\* A script that runs has a command before it, each that it does leaves it fewer, and
\* nothing that happens beside it - another script, a push, the app going down - leaves
\* it more (deploy-from-registry.sh:115-128): it never starts over or checks without end.
ScriptsAdvance ==
  [][\A j \in Job : pc[j] # "idle" =>
       /\ Effort(j) > 0
       /\ Effort(j)' <= Effort(j)
       /\ Running(j) => Effort(j)' < Effort(j)]_vars

\* A script comes to its end, whether the app comes up or not (deploy-from-registry.sh:118).
ScriptsEnd == \A j \in Job : pc[j] # "idle" ~> pc[j] = "idle"
=============================================================================
