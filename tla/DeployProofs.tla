----------------------------- MODULE DeployProofs -----------------------------
(***************************************************************************)
(* Theorems about Deploy, for any number of scripts, builds and checks.    *)
(* What a tag names on the host changes when it is pulled there, and the   *)
(* scripts it matters to are then in moved or crossed.  Until then a       *)
(* script that migrated starts what it migrated for, and a script that     *)
(* pulled what docker-compose knows starts what it pulled.                 *)
(***************************************************************************)
EXTENDS Deploy, TLAPS

Bounds == MaxBuild \in Nat \ {0} /\ MaxCheck \in Nat \ {0}

LEMMA Builds ==
  ASSUME Bounds
  PROVE  /\ 1 \in Build /\ Build \subseteq Nat /\ Build \subseteq 0..MaxBuild
         /\ 0 \notin Build /\ 0 \in 0..MaxBuild /\ 0..MaxBuild \subseteq Nat
         /\ \A b \in 0..MaxBuild : b # 0 => b \in Build
BY DEF Build, Bounds

\* The tags that docker-compose is given are tags.
LEMMA ComposeTags ==
  ASSUME TypeOK, NEW j \in Job
  PROVE  MigrateTag(j) \in Tag /\ StartTag(j) \in Tag
BY DEF TypeOK, Tag, MigrateTag, StartTag

\* What docker-compose runs is what the tag names then; tags that named a build keep it.
LEMMA RunsNamed ==
  ASSUME TypeOK, Bounds, NEW t \in Tag, NEW b \in Build, Runs(t, b)
  PROVE  /\ here' \in [Tag -> 0..MaxBuild] /\ here'[t] = b /\ b # 0
         /\ \A x \in Tag : here[x] # 0 => here'[x] = here[x]
<1>1. b \in 0..MaxBuild /\ b # 0  BY Builds
<1>. QED  BY <1>1 DEF Runs, TypeOK

LEMMA EndKeepsType ==
  ASSUME TypeOK, Bounds, NEW j \in Job, End(j), UNCHANGED <<there, hostVars>>
  PROVE  TypeOK'
<1>1. 0 \in 0..MaxBuild /\ Latest \in Tag /\ 0 \in 0..(MaxCheck - 1)
  BY Builds DEF Tag, Bounds
<1>. QED  BY <1>1 DEF TypeOK, End, hostVars

\* A script starts only with a tag that is one.
LEMMA BeginTypes ==
  ASSUME NEW j \in Job,
         \/ \E r \in Request : Webhook(j, r)
         \/ \E t \in Tag : ByHand(j, t) \/ Update(j, t)
  PROVE  \E s \in {"webhook", "hand", "update"}, t \in Tag : Begin(j, s, t)
<1>1. CASE \E r \in Request : Webhook(j, r)
  <2>1. PICK r \in Request : Webhook(j, r)  BY <1>1
  <2>2. r.tag \in Tag  BY DEF Request
  <2>. QED  BY <2>1, <2>2 DEF Webhook
<1>2. CASE \E t \in Tag : ByHand(j, t) \/ Update(j, t)
  BY <1>2 DEF ByHand, Update
<1>. QED  BY <1>1, <1>2

LEMMA TypeInductive ==
  ASSUME TypeOK, Bounds, [Next]_vars
  PROVE  TypeOK'
<1>. USE DEF hostVars, jobVars, pastVars
<1>1. CASE UNCHANGED vars
  BY <1>1 DEF vars, TypeOK
<1>0. Latest \in Tag  BY DEF Tag
<1>2. ASSUME NEW b \in Build, NEW t \in Tag, Push(b, t) PROVE TypeOK'
  <2>1. b \in 0..MaxBuild /\ b # 0  BY Builds
  <2>2. there' \in [Tag -> 0..MaxBuild] /\ there'[Latest] # 0
    BY <1>0, <1>2, <2>1 DEF Push, TypeOK
  <2>. QED  BY <1>2, <2>2 DEF Push, TypeOK
<1>3. ASSUME NEW j \in Job, NEW s \in {"webhook", "hand", "update"}, NEW t \in Tag,
             Begin(j, s, t)
      PROVE  TypeOK'
  BY <1>3 DEF Begin, TypeOK
<1>4. ASSUME NEW j \in Job, Pull(j) PROVE TypeOK'
  <2>1. tag[j] \in Tag /\ there[tag[j]] \in 0..MaxBuild /\ there[tag[j]] # 0
    BY <1>4 DEF Pull, TypeOK
  <2>2. want' \in [Job -> 0..MaxBuild]  BY <1>4, <2>1, Builds DEF Pull, TypeOK
  <2>3. here' \in [Tag -> 0..MaxBuild] /\ here'[Latest] # 0
    BY <1>0, <1>4, <2>1 DEF Pull, TypeOK
  <2>4. moved' \in SUBSET Job /\ crossed' \in SUBSET Job  BY <1>4 DEF Pull, TypeOK, Touched
  <2>5. pc' \in [Job -> {"idle", "pull", "migrate", "start", "check"}]
    BY <1>4 DEF Pull, TypeOK
  <2>. QED  BY <1>4, <2>2, <2>3, <2>4, <2>5 DEF Pull, TypeOK
<1>5. ASSUME NEW j \in Job, PullMissing(j) PROVE TypeOK'
  BY <1>5, EndKeepsType DEF PullMissing
<1>6. ASSUME NEW j \in Job, Migrate(j) PROVE TypeOK'
  <2>1. PICK b \in Build : Runs(MigrateTag(j), b) /\ schema' = IF b > schema THEN b ELSE schema
    BY <1>6 DEF Migrate
  <2>2. here' \in [Tag -> 0..MaxBuild] /\ here'[Latest] # 0
    BY <1>0, <2>1, RunsNamed, ComposeTags DEF TypeOK
  <2>3. schema' \in Build  BY <2>1 DEF TypeOK
  <2>. QED  BY <1>6, <2>2, <2>3 DEF Migrate, TypeOK
<1>7. ASSUME NEW j \in Job, Start(j) PROVE TypeOK'
  <2>1. PICK b \in Build : Runs(StartTag(j), b) /\ app' = b  BY <1>7 DEF Start
  <2>2. here' \in [Tag -> 0..MaxBuild] /\ here'[Latest] # 0
    BY <1>0, <2>1, RunsNamed, ComposeTags DEF TypeOK
  <2>3. crossed' \in SUBSET Job /\ moved' \in SUBSET Job  BY <1>7 DEF Start, TypeOK
  <2>4. /\ script' \in [Job -> {"webhook", "hand", "update"}] /\ tag' \in [Job -> Tag]
        /\ pc' \in [Job -> {"idle", "pull", "migrate", "start", "check"}]
    BY <1>0, <1>7 DEF Start, TypeOK
  <2>. QED  BY <1>7, <2>1, <2>2, <2>3, <2>4 DEF Start, TypeOK
<1>8. ASSUME NEW j \in Job, Check(j) PROVE TypeOK'
  <2>1. CASE End(j)
    BY <1>8, <2>1, EndKeepsType DEF Check
  <2>2. CASE ~End(j)
    <3>1. /\ checks' = [checks EXCEPT ![j] = @ + 1]
          /\ UNCHANGED <<there, hostVars, pc, script, tag, pastVars>>
          /\ checks[j] + 1 < MaxCheck
      BY <1>8, <2>2 DEF Check, CheckedAgain
    <3>2. checks[j] \in 0..(MaxCheck - 1)  BY DEF TypeOK
    <3>3. checks[j] + 1 \in 0..(MaxCheck - 1)  BY <3>1, <3>2 DEF Bounds
    <3>4. checks' \in [Job -> 0..(MaxCheck - 1)]  BY <3>1, <3>3 DEF TypeOK
    <3>. QED  BY <3>1, <3>4 DEF TypeOK
  <2>. QED  BY <2>1, <2>2
<1>9. ASSUME NEW j \in Job, Fail(j) PROVE TypeOK'
  BY <1>9, EndKeepsType DEF Fail
<1>. QED
  BY <1>1, <1>2, <1>3, <1>4, <1>5, <1>6, <1>7, <1>8, <1>9, BeginTypes DEF Next, Running

\* Every variable of Deploy keeps its shape.
THEOREM TypeCorrect == Spec => []TypeOK
<1>1. Bounds  BY DeployConstants DEF Bounds
<1>2. ASSUME Bounds, Init PROVE TypeOK
  <2>1. /\ 1 \in Build /\ 1 \in 0..MaxBuild /\ 0 \in 0..MaxBuild
        /\ Latest \in Tag /\ 0 \in 0..(MaxCheck - 1)
    BY <1>2, Builds DEF Tag, Bounds
  <2>. QED  BY <1>2, <2>1 DEF Init, TypeOK
<1>. QED  BY <1>1, <1>2, TypeInductive, PTL DEF Spec

-----------------------------------------------------------------------------
(***************************************************************************)
(* What a script started and what it migrated for                          *)
(***************************************************************************)

\* A script that migrates and starts with one tag.
Trusted(j) == ~(script[j] = "update" /\ tag[j] # Latest)

\* What a script at its start is about to run has its migrations applied.
ReadyMigrated ==
  \A j \in Job : pc[j] = "start" /\ Trusted(j) /\ j \notin moved
                 => here[StartTag(j)] # 0 /\ here[StartTag(j)] <= schema

\* What a script pulled, the tag it starts still names on the host.
PulledNamed ==
  \A j \in Job : pc[j] \in {"migrate", "start"} /\ want[j] # 0 /\ j \notin crossed
                 => here[StartTag(j)] = want[j]

\* Migrations are applied with the tag of the start.
LEMMA OneTag == ASSUME NEW j \in Job, TypeOK, Trusted(j) PROVE MigrateTag(j) = StartTag(j)
BY DEF TypeOK, Trusted, MigrateTag, StartTag

LEMMA SchemaGrows ==
  ASSUME TypeOK, TypeOK', Bounds, [Next]_vars
  PROVE  schema <= schema'
<1>. USE DEF hostVars, jobVars, pastVars
<1>1. schema \in Nat /\ schema' \in Nat  BY Builds DEF TypeOK
<1>2. ASSUME NEW j \in Job, Migrate(j) PROVE schema <= schema'
  <2>1. PICK b \in Build : schema' = IF b > schema THEN b ELSE schema  BY <1>2 DEF Migrate
  <2>2. b \in Nat  BY Builds
  <2>. QED  BY <1>1, <2>1, <2>2
<1>3. CASE \E j \in Job : Migrate(j)
  BY <1>2, <1>3
<1>4. CASE ~ \E j \in Job : Migrate(j)
  <2>1. schema' = schema
    BY <1>4 DEF Next, vars, Push, Webhook, ByHand, Update, Begin, Running, Pull, PullMissing,
                Start, Check, Fail
  <2>. QED  BY <1>1, <2>1
<1>. QED  BY <1>3, <1>4

\* The build that script j is about to start is the same after a step.
SameBuild(j) == here[StartTag(j)] # 0 => here'[StartTag(j)] = here[StartTag(j)]

\* A step that is not of script j leaves where j stands, and the build it is to start
\* unless it counts j among those it moved or crossed.
LEMMA Beside ==
  ASSUME TypeOK, Bounds, NEW j \in Job, [Next]_vars,
         ~(Pull(j) \/ PullMissing(j) \/ Migrate(j) \/ Start(j) \/ Check(j) \/ Fail(j)),
         ~(\E s, t : Begin(j, s, t))
  PROVE  /\ pc'[j] = pc[j] /\ script'[j] = script[j] /\ tag'[j] = tag[j] /\ want'[j] = want[j]
         /\ j \in moved => j \in moved'
         /\ j \in crossed => j \in crossed'
         /\ pc[j] = "start" /\ j \notin moved' => SameBuild(j)
         /\ pc[j] \in {"migrate", "start"} /\ want[j] # 0 /\ j \notin crossed' => SameBuild(j)
         /\ pc[j] = "check" /\ want[j] # 0 /\ j \notin crossed' => app' = app
<1>. DEFINE Kept == /\ pc'[j] = pc[j] /\ script'[j] = script[j] /\ tag'[j] = tag[j]
                    /\ want'[j] = want[j]
                    /\ j \in moved => j \in moved'
                    /\ j \in crossed => j \in crossed'
            Goal == /\ Kept
                    /\ pc[j] = "start" /\ j \notin moved' => SameBuild(j)
                    /\ pc[j] \in {"migrate", "start"} /\ want[j] # 0 /\ j \notin crossed'
                       => SameBuild(j)
                    /\ pc[j] = "check" /\ want[j] # 0 /\ j \notin crossed' => app' = app
<1>. USE DEF TypeOK, hostVars, jobVars, pastVars
<1>0. ASSUME UNCHANGED here PROVE SameBuild(j)  BY <1>0 DEF SameBuild
<1>1. ASSUME UNCHANGED vars PROVE Goal  BY <1>0, <1>1 DEF vars
<1>2. ASSUME NEW b \in Build, NEW t \in Tag, Push(b, t) PROVE Goal  BY <1>0, <1>2 DEF Push
<1>4. ASSUME NEW i \in Job, i # j, NEW s, NEW t, Begin(i, s, t) PROVE Goal
  BY <1>0, <1>4 DEF Begin
<1>5. ASSUME NEW i \in Job, i # j, Pull(i) PROVE Goal
  <2>1. pc'[j] = pc[j] /\ script'[j] = script[j] /\ tag'[j] = tag[j] /\ want'[j] = want[j]
    BY <1>5 DEF Pull
  <2>2. app' = app  BY <1>5 DEF Pull
  <2>3. moved \subseteq moved' /\ crossed \subseteq crossed'  BY <1>5 DEF Pull
  <2>4. pc[j] = "start" /\ j \notin moved' => SameBuild(j)
    BY <1>5 DEF Pull, Touched, SameBuild
  <2>5. pc[j] \in {"migrate", "start"} /\ want[j] # 0 /\ j \notin crossed' => SameBuild(j)
    BY <1>5 DEF Pull, Touched, SameBuild
  <2>. QED  BY <2>1, <2>2, <2>3, <2>4, <2>5
<1>6. ASSUME NEW i \in Job, i # j, Migrate(i) PROVE Goal
  <2>1. PICK b \in Build : Runs(MigrateTag(i), b)  BY <1>6 DEF Migrate
  <2>2. SameBuild(j)  BY <2>1, RunsNamed, ComposeTags DEF SameBuild
  <2>. QED  BY <1>6, <2>2 DEF Migrate
<1>7. ASSUME NEW i \in Job, i # j, Start(i) PROVE Goal
  <2>1. PICK b \in Build : Runs(StartTag(i), b)  BY <1>7 DEF Start
  <2>2. SameBuild(j)  BY <2>1, RunsNamed, ComposeTags DEF SameBuild
  <2>3. /\ pc'[j] = pc[j] /\ script'[j] = script[j] /\ tag'[j] = tag[j] /\ want'[j] = want[j]
        /\ moved' = moved \ {i}
        /\ crossed' = crossed \cup {x \in Job : pc[x] = "check" /\ want[x] # 0 /\ app' # app}
    BY <1>7 DEF Start
  <2>. QED  BY <1>7, <2>2, <2>3
<1>8. ASSUME NEW i \in Job, i # j, End(i), UNCHANGED hostVars PROVE Goal
  BY <1>0, <1>8 DEF End
<1>9. ASSUME NEW i \in Job, i # j, Check(i) PROVE Goal
  <2>1. CASE End(i)  BY <1>8, <1>9, <2>1 DEF Check
  <2>2. CASE ~End(i)  BY <1>0, <1>9, <2>2 DEF Check, CheckedAgain
  <2>. QED  BY <2>1, <2>2
<1>10. ASSUME NEW i \in Job, i # j, PullMissing(i) \/ Fail(i) PROVE Goal
  BY <1>8, <1>10 DEF PullMissing, Fail
<1>. HIDE DEF Goal
<1>11. Goal
  <2>1. CASE \E b \in Build, t \in Tag : Push(b, t)  BY <1>2, <2>1
  <2>2. CASE \E i \in Job :
               \/ \E r \in Request : Webhook(i, r)
               \/ \E t \in Tag : ByHand(i, t) \/ Update(i, t)
    <3>1. PICK i \in Job : \E s, t : Begin(i, s, t)  BY <2>2 DEF Webhook, ByHand, Update
    <3>2. PICK s, t : Begin(i, s, t)  BY <3>1
    <3>3. i # j  BY <3>2
    <3>. QED  BY <1>4, <3>2, <3>3
  <2>3. CASE \E i \in Job : Running(i) \/ Fail(i)
    <3>1. PICK i \in Job : Running(i) \/ Fail(i)  BY <2>3
    <3>2. i # j  BY <3>1 DEF Running
    <3>. QED  BY <1>5, <1>6, <1>7, <1>9, <1>10, <3>1, <3>2 DEF Running
  <2>4. CASE UNCHANGED vars  BY <1>1, <2>4
  <2>5. Next <=> \/ \E b \in Build, t \in Tag : Push(b, t)
                 \/ \E i \in Job :
                      \/ \E r \in Request : Webhook(i, r)
                      \/ \E t \in Tag : ByHand(i, t) \/ Update(i, t)
                 \/ \E i \in Job : Running(i) \/ Fail(i)
    BY DEF Next
  <2>. QED  BY <2>1, <2>2, <2>3, <2>4, <2>5
<1>. QED  BY <1>11 DEF Goal

LEMMA ReadyInductive ==
  ASSUME TypeOK, TypeOK', Bounds, ReadyMigrated, [Next]_vars
  PROVE  ReadyMigrated'
<1>. USE DEF hostVars, jobVars, pastVars
<1>1. SUFFICES ASSUME NEW j \in Job, pc'[j] = "start", Trusted(j)', j \notin moved'
               PROVE  here'[StartTag(j)'] # 0 /\ here'[StartTag(j)'] <= schema'
  BY DEF ReadyMigrated
<1>2. schema <= schema' /\ schema \in Nat /\ schema' \in Nat
  BY SchemaGrows, Builds DEF TypeOK
<1>3. CASE Migrate(j)
  <2>1. Trusted(j) /\ StartTag(j)' = StartTag(j)
    BY <1>1, <1>3 DEF Migrate, Trusted, StartTag
  <2>2. MigrateTag(j) = StartTag(j)  BY <2>1, OneTag
  <2>3. PICK b \in Build : Runs(StartTag(j), b) /\ schema' = IF b > schema THEN b ELSE schema
    BY <1>3, <2>2 DEF Migrate
  <2>4. here'[StartTag(j)] = b /\ b # 0  BY <2>3, RunsNamed, ComposeTags
  <2>5. b \in Nat  BY Builds
  <2>6. b <= schema'  BY <1>2, <2>3, <2>5
  <2>. QED  BY <2>1, <2>4, <2>6
<1>4. CASE ~Migrate(j)
  <2>1. ~(Pull(j) \/ PullMissing(j) \/ Start(j) \/ Fail(j) \/ \E s, t : Begin(j, s, t))
    BY <1>1 DEF Pull, PullMissing, Start, Fail, End, Begin, TypeOK
  <2>2. ~Check(j)  BY <1>1 DEF Check, CheckedAgain, End, TypeOK
  <2>3. /\ pc[j] = "start" /\ script'[j] = script[j] /\ tag'[j] = tag[j]
        /\ j \notin moved /\ SameBuild(j)
    BY <1>1, <1>4, <2>1, <2>2, Beside
  <2>4. Trusted(j) /\ StartTag(j)' = StartTag(j)  BY <1>1, <2>3 DEF Trusted, StartTag
  <2>5. here[StartTag(j)] # 0 /\ here[StartTag(j)] <= schema
    BY <2>3, <2>4 DEF ReadyMigrated
  <2>6. here'[StartTag(j)] = here[StartTag(j)]  BY <2>3, <2>5 DEF SameBuild
  <2>7. here[StartTag(j)] \in Nat  BY ComposeTags, Builds DEF TypeOK
  <2>. QED  BY <1>2, <2>4, <2>5, <2>6, <2>7
<1>. QED  BY <1>3, <1>4

\* A script starts no build whose migrations are missing, but for the named exceptions.
THEOREM StartsAreMigrated == Spec => StartsMigrated
<1>1. Bounds  BY DeployConstants DEF Bounds
<1>2. Init => ReadyMigrated  BY DEF Init, ReadyMigrated
<1>3. Spec => []ReadyMigrated
  BY <1>1, <1>2, ReadyInductive, TypeCorrect, PTL DEF Spec
<1>4. ASSUME TypeOK, Bounds, ReadyMigrated, [Next]_vars, NEW j \in Job,
             Starts(j), ~(script[j] = "update" /\ tag[j] # Latest), j \notin moved
      PROVE  app' <= schema
  <2>1. here[StartTag(j)] # 0 /\ here[StartTag(j)] <= schema
    BY <1>4 DEF ReadyMigrated, Starts, Trusted
  <2>2. ~(Pull(j) \/ PullMissing(j) \/ Migrate(j) \/ Fail(j) \/ \E s, t : Begin(j, s, t))
    BY <1>4 DEF Starts, Pull, PullMissing, Migrate, Fail, End, Begin, TypeOK
  <2>3. ~Check(j)  BY <1>4 DEF Starts, Check
  <2>4. Start(j)
    BY <1>4, <2>2, <2>3, Beside DEF Starts
  <2>5. app' = here[StartTag(j)]  BY <2>1, <2>4 DEF Start, Runs
  <2>. QED  BY <2>1, <2>5
<1>5. Bounds /\ TypeOK /\ ReadyMigrated /\ [Next]_vars
      => [\A j \in Job :
           Starts(j) /\ ~(script[j] = "update" /\ tag[j] # Latest) /\ j \notin moved
           => app' <= schema]_vars
  BY <1>4
<1>. QED  BY <1>1, <1>3, <1>5, TypeCorrect, PTL DEF Spec, StartsMigrated

-----------------------------------------------------------------------------
(***************************************************************************)
(* What a script checks and what it pulled                                 *)
(***************************************************************************)

LEMMA PulledInductive ==
  ASSUME TypeOK, TypeOK', Bounds, PulledNamed, ChecksItsOwn, [Next]_vars
  PROVE  PulledNamed' /\ ChecksItsOwn'
<1>. USE DEF hostVars, jobVars, pastVars
<1>. DEFINE Own(j) == pc[j] = "check" /\ want[j] # 0 /\ j \notin crossed => app = want[j]
            Names(j) == pc[j] \in {"migrate", "start"} /\ want[j] # 0 /\ j \notin crossed
                        => here[StartTag(j)] = want[j]
<1>1. SUFFICES ASSUME NEW j \in Job PROVE Names(j)' /\ Own(j)'
  BY DEF PulledNamed, ChecksItsOwn
<1>2. Names(j) /\ Own(j)  BY DEF PulledNamed, ChecksItsOwn
<1>3. CASE Pull(j)
  <2>1. pc'[j] = "migrate" /\ script'[j] = script[j] /\ tag'[j] = tag[j] /\ tag[j] \in Tag
    BY <1>3 DEF Pull, TypeOK
  <2>2. PICK v \in Vpc :
          /\ here' = IF v THEN here ELSE [here EXCEPT ![tag[j]] = there[tag[j]]]
          /\ want' = [want EXCEPT ![j] = IF Untold(j, v) THEN 0 ELSE there[tag[j]]]
    BY <1>3 DEF Pull
  <2>3. CASE Untold(j, v)
    <3>1. want'[j] = 0  BY <2>2, <2>3 DEF TypeOK
    <3>. QED  BY <3>1
  <2>4. CASE ~Untold(j, v)
    <3>1. want'[j] = there[tag[j]] /\ here'[tag[j]] = there[tag[j]]
      BY <2>1, <2>2, <2>4 DEF Untold, TypeOK
    <3>2. StartTag(j)' = tag[j]  BY <2>1, <2>4 DEF StartTag, Untold
    <3>. QED  BY <2>1, <3>1, <3>2
  <2>. QED  BY <2>3, <2>4
<1>4. CASE Migrate(j)
  <2>1. /\ pc[j] = "migrate" /\ pc'[j] = "start" /\ StartTag(j)' = StartTag(j)
        /\ UNCHANGED <<want, crossed>>
    BY <1>4 DEF Migrate, TypeOK, StartTag
  <2>2. PICK b \in Build : Runs(MigrateTag(j), b)  BY <1>4 DEF Migrate
  <2>3. here[StartTag(j)] # 0 => here'[StartTag(j)] = here[StartTag(j)]
    BY <2>2, RunsNamed, ComposeTags
  <2>. QED  BY <1>2, <2>1, <2>3
<1>5. CASE Start(j)
  <2>1. pc[j] = "start" /\ pc'[j] = "check" /\ want' = want /\ crossed \subseteq crossed'
    BY <1>5 DEF Start, TypeOK
  <2>2. here[StartTag(j)] # 0 => app' = here[StartTag(j)]  BY <1>5 DEF Start, Runs
  <2>. QED  BY <1>2, <2>1, <2>2
<1>6. CASE PullMissing(j) \/ Fail(j) \/ \E s, t : Begin(j, s, t)
  <2>1. pc'[j] \in {"idle", "pull"}
    BY <1>6 DEF PullMissing, Fail, End, Begin, TypeOK
  <2>. QED  BY <2>1
<1>7. CASE Check(j)
  <2>1. CASE End(j)
    BY <2>1 DEF End, TypeOK
  <2>2. CASE ~End(j)
    <3>1. UNCHANGED <<pc, script, tag, want, crossed, here, app>>
      BY <1>7, <2>2 DEF Check, CheckedAgain
    <3>. QED  BY <1>2, <3>1 DEF StartTag
  <2>. QED  BY <2>1, <2>2
<1>8. CASE ~(Pull(j) \/ PullMissing(j) \/ Migrate(j) \/ Start(j) \/ Check(j) \/ Fail(j))
           /\ ~(\E s, t : Begin(j, s, t))
  <2>1. /\ pc'[j] = pc[j] /\ script'[j] = script[j] /\ tag'[j] = tag[j] /\ want'[j] = want[j]
        /\ j \in crossed => j \in crossed'
        /\ pc[j] \in {"migrate", "start"} /\ want[j] # 0 /\ j \notin crossed' => SameBuild(j)
        /\ pc[j] = "check" /\ want[j] # 0 /\ j \notin crossed' => app' = app
    BY <1>8, Beside
  <2>2. StartTag(j)' = StartTag(j)  BY <2>1 DEF StartTag
  <2>3. Names(j)'  BY <1>2, <2>1, <2>2 DEF SameBuild
  <2>4. Own(j)'  BY <1>2, <2>1
  <2>. QED  BY <2>3, <2>4
<1>. QED  BY <1>3, <1>4, <1>5, <1>6, <1>7, <1>8

\* A script's health check sees the build that its tag named when it pulled, unless
\* docker-compose was not told of it (a tag given by hand, USE_VPC) or another script crossed
\* it.
THEOREM ChecksSeeTheirOwn == Spec => []ChecksItsOwn
<1>1. Bounds  BY DeployConstants DEF Bounds
<1>2. Init => PulledNamed /\ ChecksItsOwn  BY DEF Init, PulledNamed, ChecksItsOwn
<1>. QED  BY <1>1, <1>2, PulledInductive, TypeCorrect, PTL DEF Spec

-----------------------------------------------------------------------------
(***************************************************************************)
(* Order among the scripts                                                 *)
(***************************************************************************)

\* Whoever is about to start the app migrates and starts with one tag, which was not
\* moved on the host since it migrated.
Orderly == \A j \in Job : pc[j] = "start" => Trusted(j) /\ j \notin moved

LEMMA AppKept == ASSUME [Next]_vars, ~\E j \in Job : Start(j) PROVE app' = app
BY DEF Next, vars, hostVars, Push, Webhook, ByHand, Update, Begin, Running, Pull, PullMissing,
       Migrate, Check, Fail

\* What the documentation says of a deployment, that its migrations are applied before the
\* build runs (src/notes), holds of every state as long as the starts are orderly: the run
\* deploy_update disproves it by update.sh with a tag of its own (update.sh:150, 155), and
\* that and a tag moved in between are all that can.
THEOREM RunsMigratedWhenOrderly == Spec /\ []Orderly => []AppMigrated
<1>1. Bounds  BY DeployConstants DEF Bounds
<1>2. Init => ReadyMigrated /\ AppMigrated  BY DEF Init, ReadyMigrated, AppMigrated
<1>3. Spec => []ReadyMigrated
  BY <1>1, <1>2, ReadyInductive, TypeCorrect, PTL DEF Spec
<1>4. ASSUME Bounds, TypeOK, TypeOK', ReadyMigrated, AppMigrated, Orderly, [Next]_vars
      PROVE  AppMigrated'
  <2>1. schema <= schema' /\ schema \in Nat /\ schema' \in Nat /\ app \in Nat
    BY <1>4, SchemaGrows, Builds DEF TypeOK
  <2>2. ASSUME NEW j \in Job, Start(j) PROVE AppMigrated'
    <3>1. here[StartTag(j)] # 0 /\ here[StartTag(j)] <= schema
      BY <1>4, <2>2 DEF Orderly, ReadyMigrated, Start
    <3>2. app' = here[StartTag(j)] /\ schema' = schema
      BY <2>2, <3>1 DEF Start, Runs
    <3>. QED  BY <3>1, <3>2 DEF AppMigrated
  <2>3. CASE ~\E j \in Job : Start(j)
    BY <1>4, <2>1, <2>3, AppKept DEF AppMigrated
  <2>. QED  BY <2>2, <2>3
<1>. QED  BY <1>1, <1>2, <1>3, <1>4, TypeCorrect, PTL DEF Spec

\* Scripts do not overlap: at most one is under way.
ScriptsApart == \A i, j \in Job : pc[i] # "idle" /\ pc[j] # "idle" => i = j

\* A script counts others among those it disturbs only while they are under way.
LEMMA NoneDisturbed ==
  ASSUME [Next]_vars, ScriptsApart, moved = {}, crossed = {}
  PROVE  moved' = {} /\ crossed' = {}
<1>1. ASSUME NEW j \in Job, Pull(j) PROVE moved' = {} /\ crossed' = {}
  <2>1. \A i \in Job : pc[i] \notin {"migrate", "start"}  BY <1>1 DEF Pull, ScriptsApart
  <2>2. Touched({"start"}) = {} /\ Touched({"migrate", "start"}) = {}  BY <2>1 DEF Touched
  <2>. QED  BY <1>1, <2>2 DEF Pull
<1>2. ASSUME NEW j \in Job, Start(j) PROVE moved' = {} /\ crossed' = {}
  <2>1. \A i \in Job : pc[i] # "check"  BY <1>2 DEF Start, ScriptsApart
  <2>. QED  BY <1>2, <2>1 DEF Start
<1>3. CASE ~\E j \in Job : Pull(j) \/ Start(j)
  BY <1>3 DEF Next, vars, pastVars, Push, Webhook, ByHand, Update, Begin, Running, PullMissing,
              Migrate, Check, CheckedAgain, Fail, End
<1>. QED  BY <1>1, <1>2, <1>3

\* When scripts do not overlap, a script always checks the build its tag named when it
\* pulled (deploy-from-registry.sh:107-121), unless docker-compose was not told of it: it
\* was run by hand with a tag, or with USE_VPC.  All other exceptions of ChecksItsOwn are
\* another script's doing.
THEOREM ApartScriptsCheckTheirOwn ==
  Spec /\ []ScriptsApart => [](\A j \in Job : pc[j] = "check" /\ want[j] # 0 => app = want[j])
<1>. DEFINE Still == moved = {} /\ crossed = {}
            Own == \A j \in Job : pc[j] = "check" /\ want[j] # 0 => app = want[j]
<1>1. Init => Still  BY DEF Init
<1>2. Still /\ ScriptsApart /\ [Next]_vars => Still'  BY NoneDisturbed
<1>3. Still /\ ChecksItsOwn => Own  BY DEF ChecksItsOwn
<1>. HIDE DEF Still, Own
<1>4. Spec /\ []ScriptsApart => []Own
  BY <1>1, <1>2, <1>3, ChecksSeeTheirOwn, PTL DEF Spec
<1>. QED  BY <1>4 DEF Own

-----------------------------------------------------------------------------
(***************************************************************************)
(* The way of a script to its end                                          *)
(***************************************************************************)

LEMMA EffortLeft ==
  ASSUME TypeOK, Bounds, NEW j \in Job
  PROVE  /\ Effort(j) \in Nat
         /\ pc[j] # "idle" => Effort(j) > 0
         /\ pc[j] = "idle" => Effort(j) = 0
<1>1. pc[j] \in {"idle", "pull", "migrate", "start", "check"} /\ checks[j] \in 0..(MaxCheck - 1)
  BY DEF TypeOK
<1>2. MaxCheck \in Nat \ {0} /\ checks[j] \in Nat /\ checks[j] < MaxCheck
  BY <1>1 DEF Bounds
<1>. QED  BY <1>1, <1>2 DEF Effort

\* A script that ends has nothing before it.
LEMMA EndsEffort ==
  ASSUME TypeOK, TypeOK', Bounds, NEW j \in Job, End(j), pc[j] # "idle"
  PROVE  Effort(j)' < Effort(j)
<1>1. pc'[j] = "idle"  BY DEF End, TypeOK
<1>2. Effort(j)' = 0  BY <1>1 DEF Effort
<1>. QED  BY <1>2, EffortLeft

\* Each command leaves a script fewer.
LEMMA RunningAdvances ==
  ASSUME TypeOK, TypeOK', Bounds, NEW j \in Job, Running(j) \/ Fail(j)
  PROVE  Effort(j)' < Effort(j)
<1>0. MaxCheck \in Nat  BY DEF Bounds
<1>1. CASE Pull(j)
  <2>1. pc[j] = "pull" /\ pc'[j] = "migrate"  BY <1>1 DEF Pull, TypeOK
  <2>. QED  BY <1>0, <2>1 DEF Effort
<1>2. CASE Migrate(j)
  <2>1. pc[j] = "migrate" /\ pc'[j] = "start"  BY <1>2 DEF Migrate, TypeOK
  <2>. QED  BY <1>0, <2>1 DEF Effort
<1>3. CASE Start(j)
  <2>1. pc[j] = "start" /\ pc'[j] = "check" /\ checks'[j] = checks[j] /\ checks[j] \in Nat
    BY <1>3 DEF Start, TypeOK
  <2>. QED  BY <1>0, <2>1 DEF Effort
<1>4. CASE PullMissing(j) \/ Fail(j)
  BY <1>4, EndsEffort DEF PullMissing, Fail
<1>5. CASE Check(j)
  <2>1. CASE End(j)  BY <1>5, <2>1, EndsEffort DEF Check
  <2>2. CASE ~End(j)
    <3>1. /\ pc[j] = "check" /\ pc'[j] = "check"
          /\ checks[j] \in Nat /\ checks'[j] = checks[j] + 1
      BY <1>5, <2>2 DEF Check, CheckedAgain, TypeOK
    <3>. QED  BY <1>0, <3>1 DEF Effort
  <2>. QED  BY <2>1, <2>2
<1>. QED  BY <1>1, <1>2, <1>3, <1>4, <1>5 DEF Running

\* Only a script itself raises its count of failed checks.
LEMMA ChecksBeside ==
  ASSUME TypeOK, NEW j \in Job, [Next]_vars, ~(Running(j) \/ Fail(j))
  PROVE  checks'[j] = checks[j]
<1>. USE DEF TypeOK, jobVars
<1>1. ASSUME NEW i \in Job, i # j, Running(i) \/ Fail(i) PROVE checks'[j] = checks[j]
  BY <1>1 DEF Running, Fail, Pull, PullMissing, Migrate, Start, Check, CheckedAgain, End
<1>2. CASE ~\E i \in Job : Running(i) \/ Fail(i)
  BY <1>2 DEF Next, vars, Push, Webhook, ByHand, Update, Begin
<1>. QED  BY <1>1, <1>2

\* Every script comes closer to its end with every command, whatever runs beside it; with
\* the commands' coming back, which the fairness of ScriptsEnd assumes, it ends after at
\* most MaxCheck + 3 of them.
THEOREM ScriptsComeCloser == Spec => ScriptsAdvance
<1>1. Bounds  BY DeployConstants DEF Bounds
<1>. DEFINE Closer(j) == pc[j] # "idle" =>
              /\ Effort(j) > 0
              /\ Effort(j)' <= Effort(j)
              /\ Running(j) => Effort(j)' < Effort(j)
<1>2. ASSUME Bounds, TypeOK, TypeOK', [Next]_vars, NEW j \in Job, pc[j] # "idle"
      PROVE  Closer(j)
  <2>1. Effort(j) \in Nat /\ Effort(j)' \in Nat /\ Effort(j) > 0
    <3>1. /\ pc'[j] \in {"idle", "pull", "migrate", "start", "check"}
          /\ checks'[j] \in Nat /\ checks'[j] < MaxCheck /\ MaxCheck \in Nat
      BY <1>2 DEF TypeOK, Bounds
    <3>2. Effort(j)' \in Nat  BY <3>1 DEF Effort
    <3>. QED  BY <1>2, <3>2, EffortLeft
  <2>2. CASE Running(j) \/ Fail(j)
    <3>1. Effort(j)' < Effort(j)  BY <1>2, <2>2, RunningAdvances
    <3>. QED  BY <2>1, <3>1
  <2>3. CASE ~(Running(j) \/ Fail(j))
    <3>1. ~(\E s, t : Begin(j, s, t))  BY <1>2 DEF Begin
    <3>2. pc'[j] = pc[j]  BY <1>2, <2>3, <3>1, Beside DEF Running
    <3>3. checks'[j] = checks[j]  BY <1>2, <2>3, ChecksBeside
    <3>4. Effort(j)' = Effort(j)  BY <3>2, <3>3 DEF Effort
    <3>. QED  BY <2>1, <2>3, <3>4
  <2>. QED  BY <2>2, <2>3
<1>. DEFINE All == \A j \in Job : Closer(j)
<1>3. Bounds /\ TypeOK /\ TypeOK' /\ [Next]_vars => [All]_vars
  BY <1>2
<1>4. All <=> \A j \in Job : pc[j] # "idle" =>
                /\ Effort(j) > 0
                /\ Effort(j)' <= Effort(j)
                /\ Running(j) => Effort(j)' < Effort(j)
  OBVIOUS
<1>. HIDE DEF All
<1>5. Spec => [][All]_vars
  BY <1>1, <1>3, TypeCorrect, PTL DEF Spec
<1>. QED  BY <1>5 DEF All, ScriptsAdvance

=============================================================================
