---------------------------- MODULE BackendProofs ----------------------------
(***************************************************************************)
(* Proofs about what the backend keeps, for every number of readers, jobs,  *)
(* attempts, callers, processes, keys, visitors and tokens: the caches of   *)
(* what a router answered, the speed test, the scripts that configure it    *)
(* and its backups; and who has access, the vault's key and the first       *)
(* accounts, as processes boot beside each other and die, and the browser   *)
(* sessions.                                                               *)
(*                                                                         *)
(* A behaviour of Services is one of one part, so a step of it is a step of *)
(* each part or leaves the part alone (PartSteps), and each part has an     *)
(* inductive invariant of its own.                                         *)
(***************************************************************************)
EXTENDS Services, FiniteSetTheorems, SequenceTheorems, TLAPS

\* A step of the system is one of the part, or leaves it alone.
LEMMA PartSteps ==
    /\ Init => /\ part \in Parts
               /\ ConfigInit /\ CachesInit /\ SpeedInit /\ BackupsInit /\ BootInit /\ SessionsInit
               /\ ProvidersInit /\ KnowledgeInit /\ ChatInit /\ CollectionInit /\ PromptsInit
    /\ [Next]_vars => /\ part' = part
                      /\ [ConfigNext]_configVars /\ [CachesNext]_cacheVars
                      /\ [SpeedNext]_speedVars /\ [BackupsNext]_backupVars
                      /\ [BootNext]_bootVars /\ [SessionsNext]_sessionVars
                      /\ [ProvidersNext]_providerVars /\ [KnowledgeNext]_knowledgeVars
                      /\ [ChatNext]_chatVars /\ [Collect]_collectionVars /\ [PromptsNext]_promptVars
BY DEF Init, Next, vars

-----------------------------------------------------------------------------
(* The caches.                                                             *)

\* What a reader got is current, unless something has changed since: whoever
\* changes it marks the readers that have read (Overtaken).
ReadsAreCurrent ==
    \A t \in Readers :
        reader[t].at = "stores" /\ ~ reader[t].late =>
            \/ reader[t].read = Blank
            \/ /\ reader[t].read.of = active
               /\ cache = "tools" \/ reader[t].read.version = content[active]

\* No packages change under the tools' cache, and a version is that of as many
\* jobs as have taken effect.
CachesInv ==
    /\ CachesTypeOK
    /\ ReadsAreCurrent
    /\ cache = "tools" => packageJob.at = "idle"
    /\ \A r \in Routers :
          /\ content[r] <= packageJobs
          /\ packageJob.at \in {"asks", "runs"} => content[r] < packageJobs
    /\ "tools" \in uncleared => uncleared = Caches
    /\ CachesAreCurrent

LEMMA CachesBounds ==
    /\ MaxSwitches \in Nat /\ MaxPackageJobs \in Nat
    /\ Blank \in Reads /\ 0 \in Versions
BY RouterCachesAssumption DEF Reads, Versions

LEMMA CachesInitInv == CachesInit => CachesInv
<1> SUFFICES ASSUME CachesInit PROVE CachesInv
  OBVIOUS
<1>1. content \in [Routers -> Versions]
  BY CachesBounds DEF CachesInit
<1>2. IdleReader \in [at : {"idle", "asks", "stores"}, read : Reads, late : BOOLEAN]
  BY CachesBounds DEF IdleReader
<1>3. reader \in [Readers -> [at : {"idle", "asks", "stores"}, read : Reads, late : BOOLEAN]]
  BY <1>2 DEF CachesInit
<1>4. packageJob \in [at : {"idle", "asks", "runs", "clears"}, of : Routers \cup {NoRouter}]
  BY DEF CachesInit, NoPackageJob
<1>5. switches \in 0..MaxSwitches /\ packageJobs \in Versions
  BY CachesBounds DEF CachesInit
<1>6. cache \in Caches /\ uncleared \subseteq Caches /\ entry = Empty /\ framed \in BOOLEAN
      /\ active \in Routers \cup {NoRouter}
  BY DEF CachesInit
<1>7. CachesTypeOK
  BY <1>1, <1>3, <1>4, <1>5, <1>6 DEF CachesTypeOK
<1>8. ReadsAreCurrent /\ CachesAreCurrent
  BY DEF CachesInit, ReadsAreCurrent, CachesAreCurrent, IdleReader, Empty
<1>9. /\ \A r \in Routers : content[r] <= packageJobs
      /\ packageJob.at = "idle"
  BY DEF CachesInit, NoPackageJob
<1> QED BY <1>7, <1>8, <1>9 DEF CachesInit, CachesInv

\* What a reader does touches nothing but the reader and, at last, the entry.
LEMMA ReadersKeepCaches ==
    ASSUME CachesInv, NEW t \in Readers, LookUp(t) \/ Ask(t) \/ Store(t)
    PROVE  CachesInv'
<1>1. CASE LookUp(t)
  <2>1. /\ reader' = [reader EXCEPT ![t].at = "asks"]
        /\ UNCHANGED <<cache, active, framed, content, entry, packageJob, uncleared, switches,
                       packageJobs>>
    BY <1>1 DEF LookUp
  <2>2. CachesTypeOK' /\ ReadsAreCurrent'
    BY <2>1 DEF CachesInv, CachesTypeOK, ReadsAreCurrent
  <2> QED BY <2>1, <2>2 DEF CachesInv, CachesAreCurrent, Current
<1>2. CASE Ask(t)
  <2>1. UNCHANGED <<cache, active, framed, content, entry, packageJob, uncleared, switches,
                    packageJobs>>
    BY <1>2 DEF Ask
  <2>2. \A read \in Obtainable :
            /\ read \in Reads
            /\ \/ read = Blank
               \/ read.of = active /\ (cache = "tools" \/ read.version = content[active])
    BY RouterCachesAssumption
       DEF Obtainable, Read, Blank, Reads, CachesInv, CachesTypeOK, Versions, NoRouter
  <2>3. CachesTypeOK' /\ ReadsAreCurrent'
    <3>1. CASE \E read \in Obtainable :
                  reader' = [reader EXCEPT ![t] = [at |-> "stores", read |-> read, late |-> FALSE]]
      BY <2>1, <2>2, <3>1 DEF CachesInv, CachesTypeOK, ReadsAreCurrent
    <3>2. CASE reader' = [reader EXCEPT ![t] = IdleReader]
      BY <2>1, <3>2 DEF CachesInv, CachesTypeOK, ReadsAreCurrent, IdleReader, Reads
    <3> QED BY <1>2, <3>1, <3>2 DEF Ask
  <2> QED BY <2>1, <2>3 DEF CachesInv, CachesAreCurrent, Current
<1>3. CASE Store(t)
  <2>1. /\ reader[t].at = "stores" /\ entry' = Stored(t)
        /\ reader' = [reader EXCEPT ![t] = IdleReader]
        /\ UNCHANGED <<cache, active, framed, content, packageJob, uncleared, switches, packageJobs>>
    BY <1>3 DEF Store
  <2>2. /\ reader[t].read \in Reads /\ reader[t].late \in BOOLEAN
        /\ IdleReader \in [at : {"idle", "asks", "stores"}, read : Reads, late : BOOLEAN]
        /\ IdleReader.at = "idle"
    BY DEF CachesInv, CachesTypeOK, IdleReader, Reads
  <2>3. CachesTypeOK' /\ ReadsAreCurrent'
    BY <2>1, <2>2 DEF CachesInv, CachesTypeOK, ReadsAreCurrent, Stored, Entry
  <2>4. CachesAreCurrent'
    BY <2>1, <2>2 DEF CachesInv, ReadsAreCurrent, CachesAreCurrent, Current, Stored, Entry, Empty
  <2> QED BY <2>1, <2>3, <2>4 DEF CachesInv
<1> QED BY <1>1, <1>2, <1>3

LEMMA ExpireKeepsCaches ==
    ASSUME CachesInv, Expire PROVE CachesInv'
<1>1. entry' = [entry EXCEPT !.fresh = FALSE] /\ entry.fresh
      /\ UNCHANGED <<cache, active, framed, content, reader, packageJob, uncleared, switches,
                     packageJobs>>
  BY DEF Expire
<1>2. entry \in [is : {"entry"}, read : Reads, fresh : BOOLEAN, late : BOOLEAN]
  BY <1>1 DEF CachesInv, CachesTypeOK, Empty
<1>3. CachesTypeOK' /\ ~ entry'.fresh
  BY <1>1, <1>2 DEF CachesInv, CachesTypeOK
<1> QED BY <1>1, <1>3 DEF CachesInv, ReadsAreCurrent, CachesAreCurrent

\* A change of connection marks who has read, and has every cache to clear.
LEMMA ConnectionKeepsCaches ==
    ASSUME CachesInv,
           (\E r \in Routers \cup {NoRouter} : Repoint(r)) \/ Clear \/ FrameArrives
    PROVE  CachesInv'
<1>1. ASSUME NEW r \in Routers \cup {NoRouter}, Repoint(r) PROVE CachesInv'
  <2>1. /\ active' = r /\ framed' = FALSE /\ uncleared' = Caches /\ reader' = Overtaken
        /\ switches' = switches + 1 /\ switches < MaxSwitches
        /\ UNCHANGED <<cache, content, entry, packageJob, packageJobs>>
    BY <1>1 DEF Repoint
  <2>2. \A t \in Readers : reader'[t].at = "stores" => reader'[t].late
    BY <2>1 DEF Overtaken, CachesInv, CachesTypeOK
  <2>3. reader' \in [Readers -> [at : {"idle", "asks", "stores"}, read : Reads, late : BOOLEAN]]
    BY <2>1 DEF Overtaken, CachesInv, CachesTypeOK
  <2>4. switches' \in 0..MaxSwitches
    BY <2>1, CachesBounds DEF CachesInv, CachesTypeOK
  <2>5. CachesTypeOK'
    BY <2>1, <2>3, <2>4 DEF CachesInv, CachesTypeOK
  <2> QED BY <2>1, <2>2, <2>5 DEF CachesInv, CachesTypeOK, ReadsAreCurrent, CachesAreCurrent
<1>2. ASSUME Clear PROVE CachesInv'
  <2>1. UNCHANGED <<cache, active, framed, content, reader, packageJob, switches, packageJobs>>
    BY <1>2 DEF Clear
  <2>2. CachesTypeOK'
    BY <1>2 DEF Clear, CachesInv, CachesTypeOK, Caches, Managed, Invalidated
  <2>3. CachesAreCurrent'
    BY <1>2 DEF Clear, CachesInv, CachesTypeOK, CachesAreCurrent, Current, Caches, Managed,
                Invalidated, Empty
  <2> QED BY <1>2, <2>1, <2>2, <2>3 DEF CachesInv, ReadsAreCurrent, Clear, Managed
<1>3. ASSUME FrameArrives PROVE CachesInv'
  BY <1>3 DEF FrameArrives, CachesInv, CachesTypeOK, ReadsAreCurrent, CachesAreCurrent, Current
<1> QED BY <1>1, <1>2, <1>3

\* A package job that takes effect marks who has read; then it clears the cache,
\* or leaves an entry that is marked.
LEMMA PackagesKeepCaches ==
    ASSUME CachesInv,
           \/ BeginPackageJob \/ OpenPackageJob \/ ClearAfterPackageJob
           \/ \E effect, ok \in BOOLEAN : RunPackageJob(effect, ok)
    PROVE  CachesInv'
<1>1. ASSUME BeginPackageJob PROVE CachesInv'
  <2>1. packageJob' \in [at : {"idle", "asks", "runs", "clears"}, of : Routers \cup {NoRouter}]
    BY <1>1 DEF BeginPackageJob
  <2>2. packageJobs' \in Versions
    BY <1>1, CachesBounds DEF BeginPackageJob, CachesInv, CachesTypeOK, Versions
  <2>3. CachesTypeOK' /\ cache' # "tools" /\ packageJob.at # "clears"
    BY <1>1, <2>1, <2>2 DEF BeginPackageJob, CachesInv, CachesTypeOK, Managed
  <2>4. \A r \in Routers : content'[r] < packageJobs' /\ content'[r] <= packageJobs'
    <3>1. \A r \in Routers : content[r] <= packageJobs /\ content[r] \in 0..MaxPackageJobs
      BY DEF CachesInv, CachesTypeOK, Versions
    <3>2. packageJobs \in 0..MaxPackageJobs /\ packageJobs' = packageJobs + 1 /\ content' = content
      BY <1>1 DEF BeginPackageJob, CachesInv, CachesTypeOK, Versions
    <3> QED BY <3>1, <3>2, CachesBounds
  <2> QED BY <1>1, <2>3, <2>4 DEF BeginPackageJob, CachesInv, ReadsAreCurrent, CachesAreCurrent, Current
<1>2. ASSUME OpenPackageJob PROVE CachesInv'
  <2>1. packageJob' \in [at : {"idle", "asks", "runs", "clears"}, of : Routers \cup {NoRouter}]
    BY <1>2 DEF OpenPackageJob, NoPackageJob, CachesInv, CachesTypeOK
  <2>2. CachesTypeOK' /\ cache' # "tools" /\ packageJob.at # "clears"
    BY <1>2, <2>1 DEF OpenPackageJob, CachesInv, CachesTypeOK
  <2> QED BY <1>2, <2>2 DEF OpenPackageJob, CachesInv, ReadsAreCurrent, CachesAreCurrent, Current
<1>3. ASSUME ClearAfterPackageJob PROVE CachesInv'
  <2>1. packageJob' \in [at : {"idle", "asks", "runs", "clears"}, of : Routers \cup {NoRouter}]
    BY <1>3 DEF ClearAfterPackageJob, NoPackageJob
  <2>2. CachesTypeOK' /\ ~ entry'.fresh /\ cache' # "tools" /\ packageJob'.at = "idle"
    BY <1>3, <2>1 DEF ClearAfterPackageJob, CachesInv, CachesTypeOK, Empty, NoPackageJob
  <2> QED BY <1>3, <2>2 DEF ClearAfterPackageJob, CachesInv, ReadsAreCurrent, CachesAreCurrent
<1>4. ASSUME NEW effect \in BOOLEAN, NEW ok \in BOOLEAN, RunPackageJob(effect, ok) PROVE CachesInv'
  <2>1. /\ packageJob.at = "runs"
        /\ UNCHANGED <<cache, active, framed, uncleared, switches, packageJobs>>
    BY <1>4 DEF RunPackageJob
  <2>2. cache # "tools" /\ uncleared' = uncleared
    BY <2>1 DEF CachesInv
  <2>3. packageJob' \in [at : {"idle", "asks", "runs", "clears"}, of : Routers \cup {NoRouter}]
    BY <1>4 DEF RunPackageJob, NoPackageJob, CachesInv, CachesTypeOK
  <2>4. CASE ~ effect
    BY <1>4, <2>1, <2>2, <2>3, <2>4 DEF RunPackageJob, CachesInv, CachesTypeOK, ReadsAreCurrent,
       CachesAreCurrent, Current
  <2>5. CASE effect
    <3>1. reader' = Overtaken
      BY <1>4, <2>5 DEF RunPackageJob
    <3>2. /\ \A t \in Readers : reader'[t].at = "stores" => reader'[t].late
          /\ reader' \in [Readers -> [at : {"idle", "asks", "stores"}, read : Reads, late : BOOLEAN]]
      BY <3>1 DEF Overtaken, CachesInv, CachesTypeOK
    <3>3. /\ entry' \in {Empty} \cup [is : {"entry"}, read : Reads, fresh : BOOLEAN, late : BOOLEAN]
          /\ entry'.fresh /\ ~ entry'.late => packageJob'.at = "clears"
      <4>1. CASE ok
        BY <1>4, <2>5, <4>1 DEF RunPackageJob, CachesInv, CachesTypeOK, Clears
      <4>2. CASE ~ ok
        <5>1. entry' = [entry EXCEPT !.late = (entry # Empty)]
          BY <1>4, <2>5, <4>2 DEF RunPackageJob
        <5>2. CASE entry = Empty
          BY <5>1, <5>2 DEF Empty
        <5>3. CASE entry # Empty
          BY <5>1, <5>3 DEF CachesInv, CachesTypeOK
        <5> QED BY <5>2, <5>3
      <4> QED BY <4>1, <4>2
    <3>4. /\ content' \in [Routers -> Versions]
          /\ \A r \in Routers : content'[r] <= packageJobs /\ packageJob'.at \notin {"asks", "runs"}
      <4>1. content' = [content EXCEPT ![packageJob.of] = @ + 1]
        BY <1>4, <2>5 DEF RunPackageJob
      <4>2. \A r \in Routers : content[r] \in 0..MaxPackageJobs /\ content[r] < packageJobs
        BY <2>1 DEF CachesInv, CachesTypeOK, Versions
      <4>3. packageJobs \in 0..MaxPackageJobs /\ content \in [Routers -> Versions]
        BY DEF CachesInv, CachesTypeOK, Versions
      <4>4. \A r \in Routers : content'[r] \in 0..MaxPackageJobs /\ content'[r] <= packageJobs
        BY <4>1, <4>2, <4>3, CachesBounds
      <4>5. packageJob'.at \notin {"asks", "runs"}
        BY <1>4, <2>1 DEF RunPackageJob, NoPackageJob, CachesInv, CachesTypeOK
      <4> QED BY <4>1, <4>3, <4>4, <4>5 DEF Versions
    <3>5. CachesTypeOK'
      BY <2>1, <2>3, <3>2, <3>3, <3>4 DEF CachesInv, CachesTypeOK
    <3> QED BY <2>1, <2>2, <3>2, <3>3, <3>4, <3>5 DEF CachesInv, ReadsAreCurrent, CachesAreCurrent
  <2> QED BY <2>4, <2>5
<1> QED BY <1>1, <1>2, <1>3, <1>4

LEMMA CachesStep == CachesInv /\ [CachesNext]_cacheVars => CachesInv'
<1> SUFFICES ASSUME CachesInv, [CachesNext]_cacheVars PROVE CachesInv'
  OBVIOUS
<1>1. CASE UNCHANGED cacheVars
  BY <1>1 DEF cacheVars, CachesInv, CachesTypeOK, ReadsAreCurrent, CachesAreCurrent, Current
<1>2. CASE CachesNext
  BY <1>2, ReadersKeepCaches, ExpireKeepsCaches, ConnectionKeepsCaches, PackagesKeepCaches
     DEF CachesNext
<1> QED BY <1>1, <1>2
-----------------------------------------------------------------------------
(* The speed test.                                                         *)

Measurements == [of : 0..MaxResults, measured : SUBSET Transfers, complete : BOOLEAN]

Works(p) == tester[p].at \in {"measuring", "measured", "lost"}

SpeedTypes ==
    /\ targets \subseteq Transfers /\ busy \in BOOLEAN /\ overtaken \in BOOLEAN
    /\ latest \in Measurements /\ results \in 0..MaxResults
    /\ tester \in [Testers -> [at : {"idle", "measuring", "measured", "lost", "storing"},
                               result : Measurements]]

\* As long as no run has begun before an earlier one stored its result, only one
\* caller is in the service, and what it has measured is the newest result.
OneAtATime ==
    ~ overtaken =>
        /\ \A p, q \in Testers : tester[p].at # "idle" /\ tester[q].at # "idle" => p = q
        /\ \A p \in Testers : tester[p].at \in {"measured", "storing"} => tester[p].result.of = results
        /\ \/ latest.of = results
           \/ \E p \in Testers : tester[p].at \in {"measured", "storing"}

SpeedInv ==
    /\ SpeedTypes
    /\ busy <=> \E p \in Testers : Works(p)
    /\ \A p, q \in Testers : Works(p) /\ Works(q) => p = q
    /\ OneAtATime
    /\ latest.complete => targets = Transfers
    /\ \A p \in Testers : tester[p].result.complete => targets = Transfers

LEMMA NoSpeedResult ==
    NoResult \in Measurements /\ ~ NoResult.complete /\ NoResult.of = 0
BY SpeedTestAssumption DEF NoResult, Measurements

LEMMA SpeedResults ==
    ASSUME results \in 0..MaxResults, results < MaxResults, NEW measured \in SUBSET targets,
           targets \subseteq Transfers
    PROVE  /\ Result(measured) \in Measurements /\ Result(measured).of = results + 1
           /\ Result(measured).complete => targets = Transfers
<1>1. MaxResults \in Nat
  BY SpeedTestAssumption
<1>2. measured \in SUBSET Transfers /\ results + 1 \in 0..MaxResults
  BY <1>1
<1>3. (measured = Transfers) \in BOOLEAN
  OBVIOUS
<1>4. Result(measured) \in Measurements
  BY <1>2, <1>3, Zenon DEF Measurements, Result
<1>5. Result(measured).of = results + 1 /\ Result(measured).complete = (measured = Transfers)
  BY Zenon DEF Result
<1> QED BY <1>4, <1>5

LEMMA SpeedInitInv == SpeedInit => SpeedInv
<1> SUFFICES ASSUME SpeedInit PROVE SpeedInv
  OBVIOUS
<1>1. results \in 0..MaxResults
  BY SpeedTestAssumption DEF SpeedInit
<1>2. tester \in [Testers -> [at : {"idle", "measuring", "measured", "lost", "storing"},
                              result : Measurements]]
  BY NoSpeedResult DEF SpeedInit, Idle, Calls
<1>3. SpeedTypes
  BY <1>1, <1>2, NoSpeedResult DEF SpeedInit, SpeedTypes
<1>4. \A p \in Testers : tester[p].at = "idle" /\ ~ tester[p].result.complete
  BY NoSpeedResult DEF SpeedInit, Idle, Calls
<1> QED BY <1>3, <1>4, NoSpeedResult DEF SpeedInit, SpeedInv, OneAtATime, Works

LEMMA SpeedStep == SpeedInv /\ [SpeedNext]_speedVars => SpeedInv'
<1> SUFFICES ASSUME SpeedInv, [SpeedNext]_speedVars PROVE SpeedInv'
  OBVIOUS
<1> USE DEF SpeedInv, SpeedTypes
<1>1. ASSUME NEW p \in Testers, Run(p) PROVE SpeedInv'
  <2>1. /\ tester' = [tester EXCEPT ![p] = [at |-> "measuring", result |-> NoResult]]
        /\ tester[p].at = "idle" /\ busy' = TRUE /\ ~ busy
        /\ overtaken' = (overtaken \/ \E q \in Testers : tester[q].at = "storing")
        /\ UNCHANGED <<targets, latest, results>>
    BY <1>1 DEF Run, Idle, Calls, MayRun
  <2>2. SpeedTypes'
    BY <2>1, NoSpeedResult
  <2>3. /\ tester'[p].at = "measuring" /\ tester'[p].result = NoResult
        /\ \A q \in Testers : q # p => tester'[q] = tester[q] /\ ~ Works(q)
    BY <2>1 DEF Works
  <2>4. ~ overtaken' => \A q \in Testers : q # p => tester[q].at = "idle"
    BY <2>1, <2>3 DEF Works
  <2>5. OneAtATime'
    BY <2>1, <2>3, <2>4 DEF OneAtATime
  <2> QED BY <2>1, <2>2, <2>3, <2>5, NoSpeedResult DEF Works
<1>2. ASSUME NEW p \in Testers, Measure(p) PROVE SpeedInv'
  <2>1. tester[p].at = "measuring" /\ results < MaxResults
        /\ UNCHANGED <<targets, busy, latest, overtaken>>
    BY <1>2 DEF Measure
  <2>2. \/ /\ \E measured \in SUBSET targets :
                tester' = [tester EXCEPT ![p] = [at |-> "measured", result |-> Result(measured)]]
           /\ results' = results + 1
        \/ /\ tester' = [tester EXCEPT ![p] = [at |-> "lost", result |-> NoResult]]
           /\ results' = results
    BY <1>2, Zenon DEF Measure, Calls
  <2>3. CASE /\ \E measured \in SUBSET targets :
                  tester' = [tester EXCEPT ![p] = [at |-> "measured", result |-> Result(measured)]]
             /\ results' = results + 1
    <3>1. PICK measured \in SUBSET targets :
                  tester' = [tester EXCEPT ![p] = [at |-> "measured", result |-> Result(measured)]]
      BY <2>3
    <3>2. /\ Result(measured) \in Measurements /\ Result(measured).of = results + 1
          /\ Result(measured).complete => targets = Transfers
      BY <2>1, SpeedResults
    <3>3. SpeedTypes'
      BY <2>1, <2>3, <3>1, <3>2, SpeedTestAssumption
    <3>4. /\ tester'[p].at = "measured" /\ tester'[p].result = Result(measured)
          /\ \A q \in Testers : q # p => tester'[q] = tester[q]
      BY <3>1
    <3>5. OneAtATime'
      BY <2>1, <2>3, <3>2, <3>4 DEF OneAtATime
    <3> QED BY <2>1, <3>2, <3>3, <3>4, <3>5 DEF Works
  <2>4. CASE /\ tester' = [tester EXCEPT ![p] = [at |-> "lost", result |-> NoResult]]
             /\ results' = results
    <3>1. SpeedTypes'
      BY <2>1, <2>4, NoSpeedResult
    <3>2. /\ tester'[p].at = "lost" /\ tester'[p].result = NoResult
          /\ \A q \in Testers : q # p => tester'[q] = tester[q]
      BY <2>4
    <3>3. OneAtATime'
      BY <2>1, <2>4, <3>2 DEF OneAtATime
    <3> QED BY <2>1, <3>1, <3>2, <3>3, NoSpeedResult DEF Works
  <2> QED BY <2>2, <2>3, <2>4
<1>3. ASSUME NEW p \in Testers, Complete(p) PROVE SpeedInv'
  <2>1. /\ tester[p].at \in {"measured", "lost"} /\ busy' = FALSE
        /\ UNCHANGED <<targets, latest, results, overtaken>>
    BY <1>3 DEF Complete
  <2>2. \/ /\ tester[p].at = "measured"
           /\ tester' = [tester EXCEPT ![p] = [at |-> "storing", result |-> tester[p].result]]
        \/ /\ tester[p].at = "lost"
           /\ tester' = [tester EXCEPT ![p] = [at |-> "idle", result |-> NoResult]]
    BY <1>3 DEF Complete, Calls, Idle
  <2>3. SpeedTypes'
    <3>1. tester[p].result \in Measurements /\ NoResult \in Measurements
      BY NoSpeedResult
    <3>2. tester' \in [Testers -> [at : {"idle", "measuring", "measured", "lost", "storing"},
                                   result : Measurements]]
      BY <2>2, <3>1
    <3> QED BY <2>1, <3>2
  <2>4. /\ \A q \in Testers : q # p => tester'[q] = tester[q] /\ ~ Works(q)
        /\ \/ /\ tester[p].at = "measured" /\ tester'[p].at = "storing"
              /\ tester'[p].result = tester[p].result
           \/ tester[p].at = "lost" /\ tester'[p].at = "idle" /\ tester'[p].result = NoResult
    BY <2>1, <2>2 DEF Works
  <2>5. OneAtATime'
    BY <2>1, <2>4 DEF OneAtATime
  <2> QED BY <2>1, <2>3, <2>4, <2>5, NoSpeedResult DEF Works
<1>4. ASSUME NEW p \in Testers, StoreResult(p) PROVE SpeedInv'
  <2>1. /\ tester[p].at = "storing" /\ latest' = tester[p].result
        /\ tester' = [tester EXCEPT ![p] = [at |-> "idle", result |-> NoResult]]
        /\ UNCHANGED <<targets, busy, results, overtaken>>
    BY <1>4 DEF StoreResult, Idle, Calls
  <2>2. SpeedTypes'
    BY <2>1, NoSpeedResult
  <2>3. /\ tester'[p].at = "idle" /\ tester'[p].result = NoResult
        /\ \A q \in Testers : q # p => tester'[q] = tester[q]
    BY <2>1
  <2>4. OneAtATime'
    BY <2>1, <2>3 DEF OneAtATime
  <2> QED BY <2>1, <2>2, <2>3, <2>4, NoSpeedResult DEF Works
<1>5. CASE MomentPasses
  BY <1>5 DEF MomentPasses, OneAtATime, Works
<1>6. CASE UNCHANGED speedVars
  BY <1>6 DEF speedVars, OneAtATime, Works
<1> QED BY <1>1, <1>2, <1>3, <1>4, <1>5, <1>6 DEF SpeedNext

LEMMA SpeedInvHolds == SpeedInv => LatestIsNewest
BY DEF SpeedInv, SpeedTypes, OneAtATime, LatestIsNewest, Works

-----------------------------------------------------------------------------
(* What is kept of answers.                                                *)

\* The tools, the package inventory and the lists of packages are never told of
\* another router than the active one, nor from before a package job, but in the
\* moments named there (RouterContextCache, invalidate_caches, _pkg_mutate); the
\* speed test runs one test at a time, and keeps its newest result.
THEOREM AnswersAreCurrent == Spec => []KeptAnswersAreCurrent
<1>1. Init => CachesInv /\ SpeedInv
  BY PartSteps, CachesInitInv, SpeedInitInv
<1>2. CachesInv /\ SpeedInv /\ [Next]_vars => (CachesInv /\ SpeedInv)'
  BY PartSteps, CachesStep, SpeedStep
<1>3. CachesInv /\ SpeedInv => KeptAnswersAreCurrent
  BY SpeedInvHolds DEF CachesInv, KeptAnswersAreCurrent
<1> QED BY <1>1, <1>2, <1>3, PTL DEF Spec
-----------------------------------------------------------------------------
(* The configuration: jobs and their scripts.                              *)

Places == {"none", "stage", "commit", "reload"}
Options == {"absent", "0", "1", "no section"}
NoChange == [is |-> "none"]
JobRecords ==
    [change : Changes \cup {NoChange}, attempt : Attempts, open : BOOLEAN, alone : BOOLEAN,
     had : 0..MaxAdded]

ConfigTypes ==
    /\ target \in Targets
    /\ staged \in Packages /\ committed \in Packages
    /\ job \in [Jobs -> JobRecords]
    /\ script \in [Jobs -> [Attempts -> Places]]
    /\ cut \in BOOLEAN /\ unloaded \in BOOLEAN

\* An open job waits for its last script, which is at work; a script has a change
\* to make, and only one that stages something commits.
Scripts ==
    \A j \in Jobs :
        /\ job[j].open => /\ Alive(j, job[j].attempt)
                          /\ \A k \in Attempts : k > job[j].attempt => ~ Alive(j, k)
        /\ \A k \in Attempts :
              /\ Alive(j, k) => job[j].change \in Changes
              /\ script[j][k] \in {"stage", "commit"} => job[j].change.is # "reload"

ScriptsInv == ConfigTypes /\ Scripts

\* What a step of script k of job j does to the scripts and the job: the script
\* is at `to`, and the job goes on, is at its next attempt, or has ended.
Advances(j, k, to) ==
    /\ UNCHANGED target
    /\ job' \in [Jobs -> JobRecords] /\ script' \in [Jobs -> [Attempts -> Places]]
    /\ \A i \in Jobs : i # j => job'[i] = job[i] /\ script'[i] = script[i]
    /\ script'[j][k] = to
    /\ \/ /\ job'[j] = job[j]
          /\ \A m \in Attempts : m # k => script'[j][m] = script[j][m]
          /\ job[j].open /\ job[j].attempt = k => to # "none"
       \/ /\ job[j].open /\ job[j].attempt = k /\ k + 1 \in Attempts
          /\ job'[j] = [job[j] EXCEPT !.attempt = k + 1]
          /\ script'[j][k + 1] = First(job[j].change)
          /\ \A m \in Attempts : m \notin {k, k + 1} => script'[j][m] = script[j][m]
       \/ /\ ~ job'[j].open
          /\ (\E m \in Attempts : script'[j][m] # "none") => job'[j].change = job[j].change
          /\ \A m \in Attempts : m # k => script'[j][m] = script[j][m]

LEMMA ConfigBounds ==
    /\ RetryCount \in Nat /\ MaxAdded \in Nat /\ 0 \in Attempts
BY RouterConfigAssumption DEF Attempts

\* What a change is.
LEMMA ChangesAre ==
    ASSUME target \in Targets, NEW change \in Changes
    PROVE  /\ change.is \in {"set", "unset", "reload", "add", "edit", "delete", "clear"}
           /\ change.value \in {"absent", "0", "1"}
           /\ change.is = "unset" => change.value = "absent"
<1> USE DEF Change
<1>1. \A c \in Sets({"0", "1"}) \cup Sets({"1"}) \cup Deletes \cup Reloads :
        /\ c.is \in {"set", "unset", "reload", "add", "edit", "delete", "clear"}
        /\ c.value \in {"absent", "0", "1"}
        /\ c.is = "unset" => c.value = "absent"
  BY DEF Sets, Deletes, Reloads
<1>2. \A c \in {Change("add", "absent", TRUE), Change("edit", "absent", TRUE),
                Change("delete", "absent", TRUE), Change("clear", "absent", TRUE),
                Change("set", "0", FALSE), Change("unset", "absent", FALSE)} :
        /\ c.is \in {"set", "unset", "reload", "add", "edit", "delete", "clear"}
        /\ c.value \in {"absent", "0", "1"}
        /\ c.is = "unset" => c.value = "absent"
  OBVIOUS
<1>3. \/ change \in Sets({"0", "1"}) \cup Sets({"1"}) \cup Deletes \cup Reloads
      \/ change \in {Change("add", "absent", TRUE), Change("edit", "absent", TRUE),
                     Change("delete", "absent", TRUE), Change("clear", "absent", TRUE),
                     Change("set", "0", FALSE), Change("unset", "absent", FALSE)}
  BY DEF Changes, ChangesTo, Targets, FirewallChanges, SsidChanges, RadioChanges, VpnChanges,
         NetworkChanges, SystemChanges, DhcpServerChanges, DnsChanges, HostChanges
<1> QED BY <1>1, <1>2, <1>3

\* What a change makes of a package.
LEMMA ResultsAre ==
    ASSUME target \in Targets, NEW change \in Changes, change.is # "reload", NEW package \in Packages,
           NEW result \in Results(change, package), result.added <= MaxAdded
    PROVE  /\ result \in Packages
           /\ change.is \in {"set", "unset"} => result.option = change.value
           /\ change.is = "delete" => result.option = "no section"
           /\ change.is = "clear" => result.added = 0
           /\ IF change.is = "add" THEN result.added = package.added + 1
              ELSE result.added <= package.added
<1>0. /\ change.is \in {"set", "unset", "reload", "add", "edit", "delete", "clear"}
      /\ change.value \in {"absent", "0", "1"}
      /\ change.is = "unset" => change.value = "absent"
      /\ MaxAdded \in Nat
  BY ChangesAre, ConfigBounds
<1>1. package \in [option : Options, added : 0..MaxAdded]
  BY DEF Packages, Options
<1>2. CASE change.is = "add"
  <2>1. result = [package EXCEPT !.added = package.added + 1]
    BY <1>2 DEF Results
  <2>2. result.added = package.added + 1 /\ result.option = package.option
    BY <1>1, <2>1
  <2>3. result.added \in 0..MaxAdded
    BY <1>0, <1>1, <2>2
  <2> QED BY <1>1, <1>2, <2>1, <2>2, <2>3 DEF Packages, Options
<1>3. CASE change.is = "clear"
  <2>1. result = [package EXCEPT !.added = 0]
    BY <1>3 DEF Results
  <2>2. result.added = 0 /\ result.option = package.option
    BY <1>1, <2>1
  <2>3. 0 \in 0..MaxAdded /\ 0 <= package.added
    BY <1>0, <1>1
  <2> QED BY <1>1, <1>3, <2>1, <2>2, <2>3 DEF Packages, Options
<1>4. CASE change.is \in {"set", "unset", "edit", "delete"}
  <2>1. package.option # "no section"
    BY <1>4 DEF Results
  <2>2. \/ change.is = "set" /\ result = [package EXCEPT !.option = change.value]
        \/ change.is = "edit" /\ result = package
        \/ change.is = "delete" /\ result = [package EXCEPT !.option = "no section"]
        \/ change.is = "unset" /\ result = [package EXCEPT !.option = "absent"]
    <3>1. CASE change.is = "set"
      BY <2>1, <3>1 DEF Results
    <3>2. CASE change.is = "edit"
      BY <2>1, <3>2 DEF Results
    <3>3. CASE change.is = "delete"
      BY <2>1, <3>3 DEF Results
    <3>4. CASE change.is = "unset"
      BY <2>1, <3>4 DEF Results
    <3> QED BY <1>4, <3>1, <3>2, <3>3, <3>4
  <2>3. result.added = package.added /\ result \in Packages
    BY <1>0, <1>1, <2>2 DEF Packages, Options
  <2>4. package.added <= package.added
    BY <1>0, <1>1
  <2> QED BY <1>0, <1>1, <1>4, <2>2, <2>3, <2>4
<1> QED BY <1>0, <1>2, <1>3, <1>4
LEMMA NoJobIs ==
    /\ NoJob \in JobRecords /\ ~ NoJob.open
    /\ \A change \in Changes \cup {NoChange} :
          /\ Closed(change) \in JobRecords /\ ~ Closed(change).open
          /\ Closed(change).change = change
BY ConfigBounds DEF NoJob, Closed, JobRecords, NoChange

\* An end of a script that closes the job leaves its change for the scripts that
\* are still at work.
LEMMA RestAdvances ==
    ASSUME ScriptsInv, NEW j \in Jobs, NEW k \in Attempts, NEW scripts,
           NEW to \in Places, UNCHANGED target,
           scripts = [script EXCEPT ![j][k] = to],
           script' = scripts, Rest(j, scripts)
    PROVE  Advances(j, k, to)
<1>1. /\ script \in [Jobs -> [Attempts -> Places]] /\ job \in [Jobs -> JobRecords]
      /\ job[j].change \in Changes \cup {NoChange}
  BY DEF ScriptsInv, ConfigTypes, JobRecords
<1>2. /\ script' \in [Jobs -> [Attempts -> Places]] /\ script'[j][k] = to
      /\ \A i \in Jobs : i # j => script'[i] = script[i]
      /\ \A m \in Attempts : m # k => script'[j][m] = script[j][m]
  BY <1>1
<1>3. CASE \A m \in Attempts : scripts[j][m] = "none"
  <2>1. job' = [job EXCEPT ![j] = NoJob]
    BY <1>3 DEF Rest
  <2>2. /\ job' \in [Jobs -> JobRecords] /\ ~ job'[j].open
        /\ \A i \in Jobs : i # j => job'[i] = job[i]
    BY <1>1, <2>1, NoJobIs
  <2> QED BY <1>2, <1>3, <2>2 DEF Advances
<1>4. CASE ~ \A m \in Attempts : scripts[j][m] = "none"
  <2>1. job' = [job EXCEPT ![j] = Closed(job[j].change)]
    BY <1>4 DEF Rest
  <2>2. /\ job' \in [Jobs -> JobRecords] /\ ~ job'[j].open /\ job'[j].change = job[j].change
        /\ \A i \in Jobs : i # j => job'[i] = job[i]
    BY <1>1, <2>1, NoJobIs
  <2> QED BY <1>2, <1>4, <2>2 DEF Advances
<1> QED BY <1>3, <1>4

\* The last script loses its session, where it is or at its end.
LEMMA LossAdvances ==
    ASSUME ScriptsInv, NEW j \in Jobs, job[j].open, NEW to \in Places, UNCHANGED target,
           LosesSession(j, [script EXCEPT ![j][job[j].attempt] = to])
    PROVE  Advances(j, job[j].attempt, to)
<1> DEFINE k == job[j].attempt
           scripts == [script EXCEPT ![j][k] = to]
<1>1. /\ script \in [Jobs -> [Attempts -> Places]] /\ job \in [Jobs -> JobRecords]
      /\ k \in Attempts /\ First(job[j].change) \in Places
  BY DEF ScriptsInv, ConfigTypes, JobRecords, First, Places
<1>2. CASE Answers(j, FALSE, scripts)
  BY <1>1, <1>2, RestAdvances DEF Answers
<1>3. CASE /\ k < RetryCount
           /\ job' = [job EXCEPT ![j].attempt = k + 1]
           /\ script' = [scripts EXCEPT ![j][k + 1] = First(job[j].change)]
  <2>1. k + 1 \in Attempts /\ k + 1 # k
    BY <1>1, <1>3, ConfigBounds DEF Attempts
  <2>2. scripts \in [Jobs -> [Attempts -> Places]]
    BY <1>1
  <2>3. /\ script' \in [Jobs -> [Attempts -> Places]]
        /\ script'[j][k] = to /\ script'[j][k + 1] = First(job[j].change)
        /\ \A i \in Jobs : i # j => script'[i] = script[i]
        /\ \A m \in Attempts : m \notin {k, k + 1} => script'[j][m] = script[j][m]
    BY <1>1, <1>3, <2>1, <2>2
  <2>4. /\ job' = [job EXCEPT ![j] = [job[j] EXCEPT !.attempt = k + 1]]
        /\ [job[j] EXCEPT !.attempt = k + 1] \in JobRecords
    BY <1>1, <1>3, <2>1 DEF JobRecords
  <2>5. /\ job' \in [Jobs -> JobRecords] /\ job'[j] = [job[j] EXCEPT !.attempt = k + 1]
        /\ \A i \in Jobs : i # j => job'[i] = job[i]
    BY <1>1, <2>4
  <2> QED BY <2>1, <2>3, <2>5 DEF Advances
<1> QED BY <1>2, <1>3 DEF LosesSession

LEMMA ScriptsAdvance ==
    ASSUME ScriptsInv, NEW j \in Jobs, NEW k \in Attempts, UNCHANGED target
    PROVE  /\ \A ok \in BOOLEAN : ScriptEnds(j, k, ok) => Advances(j, k, "none")
           /\ Detached(j, [script EXCEPT ![j][k] = "none"]) /\ ~ Attached(j, k)
                => Advances(j, k, "none")
           /\ \A at \in {"commit", "reload"} : GoesOn(j, k, at) => Advances(j, k, at)
           /\ Lose(j) => Advances(j, job[j].attempt, script[j][job[j].attempt])
<1> DEFINE scripts == [script EXCEPT ![j][k] = "none"]
<1>1. /\ script \in [Jobs -> [Attempts -> Places]] /\ job \in [Jobs -> JobRecords]
  BY DEF ScriptsInv, ConfigTypes
<1>2. Detached(j, scripts) /\ ~ Attached(j, k) => Advances(j, k, "none")
  <2>1. CASE job[j].open /\ Detached(j, scripts) /\ ~ Attached(j, k)
    <3>1. job' = job /\ script' = scripts /\ job[j].attempt # k
      BY <2>1 DEF Detached, Attached
    <3> QED BY <1>1, <3>1 DEF Advances, Places
  <2>2. CASE ~ job[j].open /\ Detached(j, scripts)
    BY <2>2, RestAdvances DEF Detached, Places
  <2> QED BY <2>1, <2>2
<1>3. ASSUME NEW ok \in BOOLEAN, ScriptEnds(j, k, ok) PROVE Advances(j, k, "none")
  <2>1. CASE Attached(j, k) /\ Answers(j, ok \/ AlwaysOk, scripts)
    BY <2>1, RestAdvances DEF Answers, Places
  <2>2. CASE Attached(j, k) /\ LosesSession(j, scripts)
    <3>1. job[j].open /\ job[j].attempt = k
      BY <2>2 DEF Attached
    <3> QED BY <2>2, <3>1, LossAdvances DEF Places
  <2> QED BY <1>2, <1>3, <2>1, <2>2 DEF ScriptEnds
<1>4. ASSUME NEW at \in {"commit", "reload"}, GoesOn(j, k, at) PROVE Advances(j, k, at)
  BY <1>1, <1>4 DEF GoesOn, Advances, Places
<1>5. ASSUME Lose(j) PROVE Advances(j, job[j].attempt, script[j][job[j].attempt])
  <2>1. job[j].open /\ LosesSession(j, script) /\ job[j].attempt \in Attempts
    BY <1>1, <1>5 DEF Lose, JobRecords
  <2>2. script = [script EXCEPT ![j][job[j].attempt] = script[j][job[j].attempt]]
        /\ script[j][job[j].attempt] \in Places
    BY <1>1, <2>1
  <2> QED BY <2>1, <2>2, LossAdvances
<1> QED BY <1>2, <1>3, <1>4, <1>5
\* The other scripts stay where they are, with the change they make.
LEMMA OthersStay ==
    ASSUME ScriptsInv, NEW j \in Jobs, NEW k \in Attempts, NEW to, Advances(j, k, to),
           NEW i \in Jobs, NEW m \in Attempts, Alive(i, m), i # j \/ m # k
    PROVE  script'[i][m] = script[i][m] /\ job'[i].change = job[i].change
<1>1. CASE i # j
  BY <1>1 DEF Advances
<1>2. CASE i = j
  <2>1. job[j] \in JobRecords
    BY DEF ScriptsInv, ConfigTypes
  <2>2. CASE job'[j] = job[j] /\ \A n \in Attempts : n # k => script'[j][n] = script[j][n]
    BY <1>2, <2>2
  <2>3. CASE /\ job[j].open /\ job[j].attempt = k /\ k + 1 \in Attempts
             /\ job'[j] = [job[j] EXCEPT !.attempt = k + 1]
             /\ \A n \in Attempts : n \notin {k, k + 1} => script'[j][n] = script[j][n]
    <3>1. ~ Alive(j, k + 1)
      BY <2>3, ConfigBounds DEF ScriptsInv, Scripts, Attempts
    <3>2. job'[j].change = job[j].change
      BY <2>1, <2>3 DEF JobRecords
    <3> QED BY <1>2, <2>3, <3>1, <3>2
  <2>4. CASE /\ ~ job'[j].open
             /\ (\E n \in Attempts : script'[j][n] # "none") => job'[j].change = job[j].change
             /\ \A n \in Attempts : n # k => script'[j][n] = script[j][n]
    BY <1>2, <2>4 DEF Alive
  <2> QED BY <2>2, <2>3, <2>4 DEF Advances
<1> QED BY <1>1, <1>2

\* A job that is still open makes the same change, and only its next attempt's
\* script is new.
LEMMA OpenGoesOn ==
    ASSUME ScriptsInv, NEW j \in Jobs, NEW k \in Attempts, NEW to, Advances(j, k, to),
           job'[j].open
    PROVE  /\ job[j].open /\ job'[j].change = job[j].change /\ job'[j].had = job[j].had
           /\ job'[j].alone = job[j].alone
           /\ job[j].attempt \in Attempts /\ job'[j].attempt \in Attempts
           /\ \/ /\ job'[j].attempt = job[j].attempt
                 /\ \A m \in Attempts : m # k => script'[j][m] = script[j][m]
                 /\ job[j].attempt = k => to # "none"
              \/ /\ job'[j].attempt = job[j].attempt + 1 /\ job[j].attempt = k
                 /\ script'[j][k + 1] = First(job[j].change) /\ ~ Alive(j, k + 1)
                 /\ \A m \in Attempts : m \notin {k, k + 1} => script'[j][m] = script[j][m]
<1>1. job[j] \in JobRecords
  BY DEF ScriptsInv, ConfigTypes
<1>2. CASE /\ job'[j] = job[j]
           /\ \A m \in Attempts : m # k => script'[j][m] = script[j][m]
           /\ job[j].open /\ job[j].attempt = k => to # "none"
  BY <1>1, <1>2 DEF JobRecords
<1>3. CASE /\ job[j].open /\ job[j].attempt = k /\ k + 1 \in Attempts
           /\ job'[j] = [job[j] EXCEPT !.attempt = k + 1]
           /\ script'[j][k + 1] = First(job[j].change)
           /\ \A m \in Attempts : m \notin {k, k + 1} => script'[j][m] = script[j][m]
  <2>1. ~ Alive(j, k + 1)
    BY <1>3, ConfigBounds DEF ScriptsInv, Scripts, Attempts
  <2> QED BY <1>1, <1>3, <2>1 DEF JobRecords
<1> QED BY <1>2, <1>3 DEF Advances

LEMMA ScriptsKept ==
    ASSUME ScriptsInv, NEW j \in Jobs, NEW k \in Attempts, NEW to \in Places, Advances(j, k, to),
           Alive(j, k), to \in {"stage", "commit"} => script[j][k] \in {"stage", "commit"}
    PROVE  Scripts'
<1>1. ASSUME NEW i \in Jobs, i # j
      PROVE  /\ job'[i].open => /\ script'[i][job'[i].attempt] # "none"
                                /\ \A m \in Attempts : m > job'[i].attempt => script'[i][m] = "none"
             /\ \A m \in Attempts :
                  /\ script'[i][m] # "none" => job'[i].change \in Changes
                  /\ script'[i][m] \in {"stage", "commit"} => job'[i].change.is # "reload"
  BY <1>1 DEF Advances, ScriptsInv, Scripts, Alive
<1>2. ASSUME job'[j].open
      PROVE  /\ script'[j][job'[j].attempt] # "none"
             /\ \A m \in Attempts : m > job'[j].attempt => script'[j][m] = "none"
  <2>1. /\ job[j].open /\ job[j].attempt \in Attempts /\ job'[j].attempt \in Attempts
        /\ script[j][job[j].attempt] # "none"
        /\ \A m \in Attempts : m > job[j].attempt => script[j][m] = "none"
    BY <1>2, OpenGoesOn DEF ScriptsInv, Scripts, Alive
  <2>2. script'[j][k] = to /\ k <= job[j].attempt /\ First(job[j].change) # "none"
    BY <2>1, ConfigBounds DEF Advances, Alive, First, Attempts
  <2>3. CASE /\ job'[j].attempt = job[j].attempt
             /\ \A m \in Attempts : m # k => script'[j][m] = script[j][m]
             /\ job[j].attempt = k => to # "none"
    BY <2>1, <2>2, <2>3, ConfigBounds DEF Attempts
  <2>4. CASE /\ job'[j].attempt = job[j].attempt + 1 /\ job[j].attempt = k
             /\ script'[j][k + 1] = First(job[j].change)
             /\ \A m \in Attempts : m \notin {k, k + 1} => script'[j][m] = script[j][m]
    BY <2>1, <2>2, <2>4, ConfigBounds DEF Attempts
  <2> QED BY <1>2, <2>3, <2>4, OpenGoesOn
<1>3. ASSUME NEW m \in Attempts, script'[j][m] # "none"
      PROVE  /\ job'[j].change = job[j].change
             /\ \/ script'[j][m] = First(job[j].change)
                \/ script'[j][m] = script[j][m]
                \/ m = k /\ script'[j][m] = to
  <2>1. job[j] \in JobRecords
    BY DEF ScriptsInv, ConfigTypes
  <2> QED BY <1>3, <2>1 DEF Advances, JobRecords
<1>4. job[j].change \in Changes
  BY DEF ScriptsInv, Scripts
<1>5. ASSUME NEW m \in Attempts
      PROVE  /\ script'[j][m] # "none" => job'[j].change \in Changes
             /\ script'[j][m] \in {"stage", "commit"} => job'[j].change.is # "reload"
  BY <1>3, <1>4, <1>5 DEF ScriptsInv, Scripts, First
<1>6. Changes' = Changes
  BY DEF Advances, Changes
<1> QED BY <1>1, <1>2, <1>5, <1>6 DEF Scripts, Alive

\* What every step of a script, or of a job that loses its session, does.
ScriptStep(j, k, to) ==
    /\ Alive(j, k) /\ to \in Places /\ Advances(j, k, to)
    /\ to = "stage" => script[j][k] = "stage"
    /\ to = "commit" => script[j][k] \in {"stage", "commit"}

LEMMA StepsAdvance ==
    ASSUME ScriptsInv, NEW j \in Jobs, NEW k \in Attempts
    PROVE  /\ Stage(j, k) => \/ ScriptStep(j, k, "commit") /\ staged' \in Results(job[j].change, staged)
                                /\ staged'.added <= MaxAdded
                             \/ ScriptStep(j, k, "none") /\ UNCHANGED staged
           /\ Commit(j, k) => \/ ScriptStep(j, k, "reload") /\ job[j].change.reloads
                              \/ ScriptStep(j, k, "none") /\ ~ job[j].change.reloads
           /\ ReloadService(j, k) \/ CommandFails(j, k) \/ Stop(j, k) => ScriptStep(j, k, "none")
           /\ Lose(j) => ScriptStep(j, job[j].attempt, script[j][job[j].attempt])
<1>1. Stage(j, k) => \/ ScriptStep(j, k, "commit") /\ staged' \in Results(job[j].change, staged)
                        /\ staged'.added <= MaxAdded
                     \/ ScriptStep(j, k, "none") /\ UNCHANGED staged
  BY ScriptsAdvance DEF Stage, ScriptStep, Alive, Places
<1>2. Commit(j, k) => \/ ScriptStep(j, k, "reload") /\ job[j].change.reloads
                      \/ ScriptStep(j, k, "none") /\ ~ job[j].change.reloads
  BY ScriptsAdvance DEF Commit, ScriptStep, Alive, Places, AfterCommit
<1>3. ReloadService(j, k) \/ CommandFails(j, k) \/ Stop(j, k) => ScriptStep(j, k, "none")
  BY ScriptsAdvance DEF ReloadService, CommandFails, Stop, ScriptStep, Alive, Places
<1>4. Lose(j) => ScriptStep(j, job[j].attempt, script[j][job[j].attempt])
  <2> SUFFICES ASSUME Lose(j) PROVE ScriptStep(j, job[j].attempt, script[j][job[j].attempt])
    OBVIOUS
  <2>1. job[j].open /\ UNCHANGED target
    BY DEF Lose
  <2>2. job[j].attempt \in Attempts /\ script \in [Jobs -> [Attempts -> Places]]
    BY DEF ScriptsInv, ConfigTypes, JobRecords
  <2> QED BY <2>1, <2>2, ScriptsAdvance DEF ScriptStep, ScriptsInv, Scripts
<1> QED BY <1>1, <1>2, <1>3, <1>4
\* A job begins when no script of it is at work, and marks the other jobs.
LEMMA BeginIs ==
    ASSUME ScriptsInv, NEW j \in Jobs, NEW change \in Changes, Begin(j, change)
    PROVE  /\ \A k \in Attempts : ~ Alive(j, k)
           /\ job'[j].open /\ job'[j].change = change /\ job'[j].attempt = 0
           /\ job'[j].had = staged.added /\ (job'[j].alone <=> ~ Busy)
           /\ \A i \in Jobs : i # j =>
                 /\ job'[i].open = job[i].open /\ job'[i].change = job[i].change /\ ~ job'[i].alone
                 /\ script'[i] = script[i]
           /\ script'[j][0] = First(change)
           /\ \A k \in Attempts : k # 0 => script'[j][k] = "none"
           /\ ScriptsInv'
<1>1. /\ script \in [Jobs -> [Attempts -> Places]] /\ job \in [Jobs -> JobRecords]
      /\ staged.added \in 0..MaxAdded /\ 0 \in Attempts /\ First(change) \in Places
  BY ConfigBounds DEF ScriptsInv, ConfigTypes, Packages, First, Places
<1>2. /\ \A k \in Attempts : ~ Alive(j, k)
      /\ job' = [i \in Jobs |->
           IF i = j THEN [change |-> change, attempt |-> 0, open |-> TRUE,
                          alone |-> ~ Busy, had |-> staged.added]
           ELSE [job[i] EXCEPT !.alone = FALSE]]
      /\ script' = [script EXCEPT ![j][0] = First(change)]
      /\ UNCHANGED <<target, staged, committed, cut, unloaded>>
  BY DEF Begin
<1>3. /\ job'[j] = [change |-> change, attempt |-> 0, open |-> TRUE, alone |-> ~ Busy,
                    had |-> staged.added]
      /\ \A i \in Jobs : i # j => job'[i] = [job[i] EXCEPT !.alone = FALSE]
  BY <1>2
<1>4. /\ script' \in [Jobs -> [Attempts -> Places]]
      /\ \A i \in Jobs : i # j => script'[i] = script[i]
      /\ script'[j][0] = First(change)
      /\ \A k \in Attempts : k # 0 => script'[j][k] = "none"
  BY <1>1, <1>2 DEF Alive
<1>5. Changes' = Changes /\ JobRecords' = JobRecords
  BY <1>2 DEF Changes, JobRecords
<1>6. job'[j] \in JobRecords
  <2>1. (~ Busy) \in BOOLEAN
    OBVIOUS
  <2>2. /\ change \in Changes \cup {NoChange} /\ TRUE \in BOOLEAN
        /\ 0 \in Attempts /\ staged.added \in 0..MaxAdded
    BY <1>1
  <2>3. [change |-> change, attempt |-> 0, open |-> TRUE, alone |-> ~ Busy, had |-> staged.added]
          \in JobRecords
    BY <2>1, <2>2, Zenon DEF JobRecords
  <2> QED BY <1>3, <2>3, Zenon
<1>7. ASSUME NEW i \in Jobs, i # j
      PROVE  /\ job'[i] \in JobRecords /\ job'[i].open = job[i].open
             /\ job'[i].attempt = job[i].attempt /\ job'[i].change = job[i].change
             /\ ~ job'[i].alone
  <2>1. job[i] \in JobRecords /\ job'[i] = [job[i] EXCEPT !.alone = FALSE]
    BY <1>1, <1>3, <1>7
  <2>2. job'[i] \in JobRecords
    BY <2>1 DEF JobRecords
  <2> QED BY <2>1, <2>2 DEF JobRecords
<1>8. job' \in [Jobs -> JobRecords]
  BY <1>2, <1>6, <1>7
<1>9. ConfigTypes'
  BY <1>2, <1>4, <1>5, <1>8 DEF ScriptsInv, ConfigTypes
<1>10. /\ job'[j].open /\ job'[j].attempt = 0 /\ job'[j].change = change
       /\ \A i \in Jobs : i # j => /\ job'[i].open = job[i].open
                                   /\ job'[i].attempt = job[i].attempt
                                   /\ job'[i].change = job[i].change
  BY <1>3, <1>7
<1>11. Scripts'
  <2>1. \A k \in Attempts : k > 0 => k # 0
    BY ConfigBounds DEF Attempts
  <2>2. First(change) # "none" /\ (First(change) = "stage" => change.is # "reload")
        /\ First(change) # "commit"
    BY DEF First
  <2>3. ASSUME NEW i \in Jobs, i # j
        PROVE  /\ job'[i].open => /\ script'[i][job'[i].attempt] # "none"
                                  /\ \A m \in Attempts : m > job'[i].attempt => script'[i][m] = "none"
               /\ \A m \in Attempts :
                    /\ script'[i][m] # "none" => job'[i].change \in Changes
                    /\ script'[i][m] \in {"stage", "commit"} => job'[i].change.is # "reload"
    BY <2>3, <1>4, <1>10 DEF ScriptsInv, Scripts, Alive
  <2> QED BY <1>4, <1>5, <1>10, <2>1, <2>2, <2>3 DEF Scripts, Alive
<1>12. job'[j].had = staged.added /\ (job'[j].alone <=> ~ Busy)
  <2>1. job'[j].had = staged.added
    BY <1>3, SMT
  <2>2. job'[j].alone = (~ Busy)
    <3>1. ASSUME NEW b \in BOOLEAN,
                 job'[j] = [change |-> change, attempt |-> 0, open |-> TRUE, alone |-> b,
                            had |-> staged.added]
          PROVE  job'[j].alone = b
      BY <3>1
    <3>2. (~ Busy) \in BOOLEAN
      OBVIOUS
    <3> QED BY <1>3, <3>1, <3>2, Zenon
  <2> QED BY <2>1, <2>2
<1> QED BY <1>2, <1>4, <1>7, <1>9, <1>10, <1>11, <1>12 DEF ScriptsInv

LEMMA ScriptsInitInv == ConfigInit => ScriptsInv
<1> SUFFICES ASSUME ConfigInit PROVE ScriptsInv
  OBVIOUS
<1>1. job \in [Jobs -> JobRecords] /\ \A j \in Jobs : ~ job[j].open
  BY NoJobIs DEF ConfigInit
<1>2. /\ script \in [Jobs -> [Attempts -> Places]]
      /\ \A j \in Jobs, k \in Attempts : script[j][k] = "none"
  BY DEF ConfigInit, Places
<1>3. staged \in Packages /\ committed = staged
  <2>1. 0 \in 0..MaxAdded
    BY ConfigBounds
  <2>2. PICK option \in {"absent", "1"} : staged = [option |-> option, added |-> 0]
    BY DEF ConfigInit
  <2>3. staged \in Packages
    BY <2>1, <2>2 DEF Packages
  <2> QED BY <2>3 DEF ConfigInit
<1>4. ConfigTypes
  BY <1>1, <1>2, <1>3 DEF ConfigInit, ConfigTypes
<1> QED BY <1>1, <1>2, <1>4 DEF ScriptsInv, Scripts, Alive

\* What the scripts of a job may do to the package.
ScriptActions(j, k) ==
    Stage(j, k) \/ Commit(j, k) \/ ReloadService(j, k) \/ CommandFails(j, k) \/ Stop(j, k)

LEMMA ScriptsStep == ScriptsInv /\ [ConfigNext]_configVars => ScriptsInv'
<1> SUFFICES ASSUME ScriptsInv, [ConfigNext]_configVars PROVE ScriptsInv'
  OBVIOUS
<1>1. ASSUME NEW j \in Jobs, NEW k \in Attempts, NEW to, ScriptStep(j, k, to),
             staged' \in Packages, committed' \in Packages, cut' \in BOOLEAN, unloaded' \in BOOLEAN
      PROVE  ScriptsInv'
  <2>1. Scripts'
    BY <1>1, ScriptsKept DEF ScriptStep
  <2>2. JobRecords' = JobRecords /\ target' = target
    BY <1>1 DEF ScriptStep, Advances, JobRecords, Changes
  <2> QED BY <1>1, <2>1, <2>2 DEF ScriptStep, Advances, ScriptsInv, ConfigTypes
<1>2. ASSUME NEW j \in Jobs, NEW k \in Attempts, Stage(j, k) PROVE ScriptsInv'
  <2>1. UNCHANGED <<committed, cut, unloaded>> /\ script[j][k] = "stage"
    BY <1>2 DEF Stage
  <2>2. job[j].change \in Changes /\ job[j].change.is # "reload"
    BY <2>1 DEF ScriptsInv, Scripts, Alive
  <2>3. staged' \in Packages
    BY <1>2, <2>2, StepsAdvance, ResultsAre DEF ScriptsInv, ConfigTypes
  <2> QED BY <1>1, <1>2, <2>1, <2>3, StepsAdvance DEF ScriptsInv, ConfigTypes
<1>3. ASSUME NEW j \in Jobs, NEW k \in Attempts, Commit(j, k) PROVE ScriptsInv'
  <2>1. /\ UNCHANGED <<staged, cut>> /\ committed' = staged
        /\ unloaded' = (unloaded \/ ~ job[j].change.reloads)
    BY <1>3 DEF Commit
  <2>2. unloaded' \in BOOLEAN
    BY <2>1, Zenon
  <2> QED BY <1>1, <1>3, <2>1, <2>2, StepsAdvance DEF ScriptsInv, ConfigTypes
<1>4. ASSUME NEW j \in Jobs, NEW k \in Attempts,
             ReloadService(j, k) \/ CommandFails(j, k) \/ Stop(j, k)
      PROVE  ScriptsInv'
  <2>1. UNCHANGED <<staged, committed>>
    BY <1>4 DEF ReloadService, CommandFails, Stop
  <2>2. cut' \in BOOLEAN /\ unloaded' \in BOOLEAN
    BY <1>4, Zenon DEF ReloadService, CommandFails, Stop, ScriptsInv, ConfigTypes
  <2> QED BY <1>1, <1>4, <2>1, <2>2, StepsAdvance DEF ScriptsInv, ConfigTypes
<1>5. ASSUME NEW j \in Jobs, Lose(j) PROVE ScriptsInv'
  <2>1. UNCHANGED <<staged, committed, cut, unloaded>> /\ job[j].open
    BY <1>5 DEF Lose
  <2>2. job[j].attempt \in Attempts
    BY DEF ScriptsInv, ConfigTypes, JobRecords
  <2> QED BY <1>1, <1>5, <2>1, <2>2, StepsAdvance DEF ScriptsInv, ConfigTypes
<1>6. ASSUME NEW j \in Jobs, CannotOpen(j) PROVE ScriptsInv'
  BY <1>6 DEF CannotOpen, ScriptsInv, ConfigTypes, Scripts, JobRecords, Changes, Alive
<1>7. CASE UNCHANGED configVars
  BY <1>7 DEF configVars, ScriptsInv, ConfigTypes, Scripts, JobRecords, Changes, Alive
<1> QED BY <1>2, <1>3, <1>4, <1>5, <1>6, <1>7, BeginIs DEF ConfigNext
-----------------------------------------------------------------------------
(* A router on which no script is at work is settled.                       *)

Commits(j, k) == script[j][k] = "commit"
Loads(j, k) == script[j][k] = "reload" /\ job[j].change.is # "reload"

\* What is staged is committed, and what is committed is loaded, by a script that
\* has yet to do so, unless a script was cut short or a change reloads nothing.
Settled ==
    /\ ~ cut /\ staged # committed => \E j \in Jobs, k \in Attempts : Commits(j, k)
    /\ ~ cut /\ ~ unloaded /\ applied # committed =>
          \E j \in Jobs, k \in Attempts : Commits(j, k) \/ Loads(j, k)

\* A step that stages, commits and loads nothing, and that is not the end of a
\* script that would have.
LEMMA IdleStepsSettle ==
    ASSUME ScriptsInv, Settled, NEW j \in Jobs, NEW k \in Attempts, NEW to,
           ScriptStep(j, k, to), UNCHANGED <<staged, committed, applied, unloaded>>,
           ~ cut' => ~ cut,
           (Commits(j, k) \/ Loads(j, k)) /\ ~ cut' => to = script[j][k]
    PROVE  Settled'
<1>1. /\ Advances(j, k, to) /\ script'[j][k] = to /\ Alive(j, k)
  BY DEF ScriptStep, Advances
<1>2. ASSUME NEW i \in Jobs, NEW m \in Attempts, Commits(i, m) \/ Loads(i, m),
             (i = j /\ m = k) => to = script[j][k]
      PROVE  Commits(i, m)' = Commits(i, m) /\ Loads(i, m)' = Loads(i, m)
  <2>1. Alive(i, m)
    BY <1>2 DEF Commits, Loads, Alive
  <2>2. CASE i # j \/ m # k
    BY <1>1, <2>1, <2>2, OthersStay DEF Commits, Loads
  <2>3. CASE i = j /\ m = k
    <3>1. script'[j][k] = script[j][k]
      BY <1>1, <1>2, <2>3
    <3>2. job'[j].change = job[j].change
      <4>1. job[j] \in JobRecords
        BY DEF ScriptsInv, ConfigTypes
      <4> QED BY <1>1, <3>1, <4>1 DEF Advances, Alive, JobRecords
    <3> QED BY <2>3, <3>1, <3>2 DEF Commits, Loads
  <2> QED BY <2>2, <2>3
<1>3. ~ cut' /\ staged' # committed' => \E i \in Jobs, m \in Attempts : Commits(i, m)'
  <2> SUFFICES ASSUME ~ cut', staged # committed PROVE \E i \in Jobs, m \in Attempts : Commits(i, m)'
    OBVIOUS
  <2>1. PICK i \in Jobs, m \in Attempts : Commits(i, m)
    BY DEF Settled
  <2> QED BY <1>2, <2>1
<1>4. ASSUME ~ cut', ~ unloaded, applied # committed
      PROVE  \E i \in Jobs, m \in Attempts : Commits(i, m)' \/ Loads(i, m)'
  <2>1. PICK i \in Jobs, m \in Attempts : Commits(i, m) \/ Loads(i, m)
    BY <1>4 DEF Settled
  <2> QED BY <1>2, <1>4, <2>1
<1> QED BY <1>3, <1>4 DEF Settled

LEMMA SettledStep == ScriptsInv /\ Settled /\ [ConfigNext]_configVars => Settled'
<1> SUFFICES ASSUME ScriptsInv, Settled, [ConfigNext]_configVars PROVE Settled'
  OBVIOUS
<1>1. ASSUME NEW j \in Jobs, NEW k \in Attempts, Stage(j, k) PROVE Settled'
  <2>1. UNCHANGED <<committed, applied, cut, unloaded>> /\ script[j][k] = "stage"
    BY <1>1 DEF Stage
  <2>2. CASE ScriptStep(j, k, "commit")
    BY <2>2 DEF ScriptStep, Advances, Settled, Commits
  <2>3. CASE ScriptStep(j, k, "none") /\ UNCHANGED staged
    BY <2>1, <2>3, IdleStepsSettle DEF Commits, Loads
  <2> QED BY <1>1, <2>2, <2>3, StepsAdvance
<1>2. ASSUME NEW j \in Jobs, NEW k \in Attempts, Commit(j, k) PROVE Settled'
  <2>1. /\ script[j][k] = "commit" /\ committed' = staged /\ staged' = staged
        /\ unloaded' = (unloaded \/ ~ job[j].change.reloads)
    BY <1>2 DEF Commit
  <2>2. CASE ScriptStep(j, k, "reload") /\ job[j].change.reloads
    <3>1. script'[j][k] = "reload" /\ job'[j].change = job[j].change
      <4>1. job[j] \in JobRecords
        BY DEF ScriptsInv, ConfigTypes
      <4> QED BY <2>2, <4>1 DEF ScriptStep, Advances, JobRecords
    <3>2. job[j].change.is # "reload"
      BY <2>1 DEF ScriptsInv, Scripts
    <3> QED BY <2>1, <3>1, <3>2 DEF Settled, Loads
  <2>3. CASE ~ job[j].change.reloads
    BY <2>1, <2>3 DEF Settled
  <2> QED BY <1>2, <2>2, <2>3, StepsAdvance
<1>3. ASSUME NEW j \in Jobs, NEW k \in Attempts, ReloadService(j, k) PROVE Settled'
  <2>1. /\ script[j][k] = "reload" /\ applied' \in {staged, committed}
        /\ UNCHANGED <<staged, committed>>
        /\ cut' = (cut /\ ~ (staged = committed /\ applied' = committed))
        /\ unloaded' = (unloaded /\ ~ (staged = committed /\ applied' = committed))
    BY <1>3, Zenon DEF ReloadService
  <2>2. CASE staged = committed /\ applied' = committed
    BY <2>1, <2>2 DEF Settled
  <2>3. CASE ~ (staged = committed /\ applied' = committed)
    <3>1. staged # committed /\ (~ cut' => ~ cut)
      BY <2>1, <2>3 DEF ScriptsInv, ConfigTypes
    <3>2. /\ ScriptStep(j, k, "none") /\ ~ Commits(j, k)
      BY <1>3, <2>1, StepsAdvance DEF Commits
    <3>3. ASSUME ~ cut' PROVE \E i \in Jobs, m \in Attempts : Commits(i, m)'
      <4>1. PICK i \in Jobs, m \in Attempts : Commits(i, m)
        BY <3>1, <3>3 DEF Settled
      <4>2. i # j \/ m # k
        BY <3>2, <4>1
      <4> QED BY <3>2, <4>1, <4>2, OthersStay DEF ScriptStep, Commits, Alive
    <3> QED BY <3>3 DEF Settled
  <2> QED BY <2>2, <2>3
<1>4. ASSUME NEW j \in Jobs, NEW k \in Attempts, CommandFails(j, k) \/ Stop(j, k) PROVE Settled'
  <2>1. /\ UNCHANGED <<staged, committed, applied, unloaded>>
        /\ cut' = (cut \/ LeavesWork(j, script[j][k]))
    BY <1>4 DEF CommandFails, Stop
  <2>2. ~ cut' => ~ cut /\ ~ Commits(j, k) /\ ~ Loads(j, k)
    BY <2>1 DEF LeavesWork, Commits, Loads
  <2> QED BY <1>4, <2>1, <2>2, StepsAdvance, IdleStepsSettle
<1>5. ASSUME NEW j \in Jobs, Lose(j) PROVE Settled'
  <2>1. UNCHANGED <<staged, committed, applied, cut, unloaded>>
    BY <1>5 DEF Lose
  <2>2. job[j].attempt \in Attempts
    BY DEF ScriptsInv, ConfigTypes, JobRecords
  <2> QED BY <1>5, <2>1, <2>2, StepsAdvance, IdleStepsSettle
<1>6. ASSUME NEW j \in Jobs, NEW change \in Changes, Begin(j, change) PROVE Settled'
  <2>1. UNCHANGED <<staged, committed, applied, cut, unloaded>>
    BY <1>6 DEF Begin
  <2>2. ASSUME NEW i \in Jobs, NEW m \in Attempts, Alive(i, m)
        PROVE  i # j /\ script'[i] = script[i] /\ job'[i].change = job[i].change
    BY <1>6, <2>2, BeginIs
  <2> QED BY <2>1, <2>2 DEF Settled, Commits, Loads, Alive
<1>7. ASSUME NEW j \in Jobs, CannotOpen(j) PROVE Settled'
  BY <1>7 DEF CannotOpen, Settled, Commits, Loads
<1>8. CASE UNCHANGED configVars
  BY <1>8 DEF configVars, Settled, Commits, Loads
<1> QED BY <1>1, <1>2, <1>3, <1>4, <1>5, <1>6, <1>7, <1>8 DEF ConfigNext

\* Nothing is left staged, and the service runs with what is committed, once no
\* script is at work, whatever scripts of several jobs and attempts did to the
\* package at once (_run_config_job, SSHClient.run).
THEOREM QuietIsSettled == Spec => []QuietRouterIsSettled
<1>1. Init => ScriptsInv /\ Settled
  BY PartSteps, ScriptsInitInv DEF ConfigInit, Settled
<1>2. ScriptsInv /\ Settled /\ [Next]_vars => (ScriptsInv /\ Settled)'
  BY PartSteps, ScriptsStep, SettledStep
<1>3. Settled => QuietRouterIsSettled
  BY DEF Settled, QuietRouterIsSettled, Busy, Alive, Commits, Loads
<1> QED BY <1>1, <1>2, <1>3, PTL DEF Spec
-----------------------------------------------------------------------------
(* What a job reports as done is in force.                                  *)

\* The scripts of an open job that may have staged its change.
Staged(j) == {k \in 0..job[j].attempt : script[j][k] # "stage"}

\* A package in which a change is made; see InForce.
MadeBy(change, old, attempt, package) ==
    /\ change.is \in {"set", "unset"} => package.option = change.value
    /\ change.is = "delete" => package.option = "no section"
    /\ change.is = "add" => package.added \in old + 1 .. old + 1 + attempt
    /\ change.is = "clear" => package.added = 0

Made(j, package) == MadeBy(job[j].change, job[j].had, job[j].attempt, package)

\* While an open job is alone, its scripts past staging have staged its change,
\* and those past the commit have committed it; an entry was added by one script
\* at least, and by each at most once.
AloneInForce ==
    \A j \in Jobs : job[j].open /\ job[j].alone =>
        /\ \A i \in Jobs : i # j => \A k \in Attempts : ~ Alive(i, k)
        /\ job[j].change.is = "add" =>
              /\ job[j].had <= staged.added
              /\ staged.added <= job[j].had + Cardinality(Staged(j))
        /\ \A k \in Attempts :
              /\ script[j][k] \in {"commit", "reload"} /\ job[j].change.is # "reload"
                    => Made(j, staged)
              /\ script[j][k] = "reload" => Made(j, committed)

LEMMA StagedIsFinite ==
    ASSUME NEW j \in Jobs, job[j].attempt \in Attempts
    PROVE  /\ IsFiniteSet(Staged(j)) /\ Cardinality(Staged(j)) \in Nat
           /\ Cardinality(Staged(j)) <= job[j].attempt + 1
<1>1. job[j].attempt \in Nat
  BY ConfigBounds DEF Attempts
<1>2. IsFiniteSet(0..job[j].attempt) /\ Cardinality(0..job[j].attempt) = job[j].attempt + 1
  BY <1>1, FS_Interval
<1>3. Staged(j) \in SUBSET (0..job[j].attempt)
  BY DEF Staged
<1>4. IsFiniteSet(Staged(j)) /\ Cardinality(Staged(j)) <= job[j].attempt + 1
  BY <1>2, <1>3, FS_Subset
<1> QED BY <1>4, FS_CardinalityType

LEMMA StagedGrows ==
    ASSUME ScriptsInv, NEW j \in Jobs, NEW k \in Attempts, NEW to, ScriptStep(j, k, to),
           job'[j].open
    PROVE  /\ Cardinality(Staged(j)) \in Nat /\ Cardinality(Staged(j)') \in Nat
           /\ Cardinality(Staged(j)) <= Cardinality(Staged(j)')
           /\ script[j][k] = "stage" /\ to # "stage" =>
                 Cardinality(Staged(j)) + 1 <= Cardinality(Staged(j)')
<1>1. /\ job[j].open /\ job[j].attempt \in Attempts /\ job'[j].attempt \in Attempts
      /\ job[j].attempt <= job'[j].attempt
  BY OpenGoesOn, ConfigBounds DEF ScriptStep, Attempts
<1>2. /\ script'[j][k] = to /\ (to = "stage" => script[j][k] = "stage") /\ k \in 0..job[j].attempt
      /\ \A m \in 0..job[j].attempt : m # k => script'[j][m] = script[j][m]
  <2>1. k \in 0..job[j].attempt
    BY <1>1, ConfigBounds DEF ScriptStep, ScriptsInv, Scripts, Attempts
  <2>2. \A m \in 0..job[j].attempt : m \in Attempts /\ m # job[j].attempt + 1
    BY <1>1, ConfigBounds DEF Attempts
  <2>3. \A m \in 0..job[j].attempt : m # k => script'[j][m] = script[j][m]
    BY <2>2, OpenGoesOn DEF ScriptStep
  <2>4. to = "stage" => script[j][k] = "stage"
    BY DEF ScriptStep
  <2> QED BY <2>1, <2>3, <2>4 DEF ScriptStep, Advances
<1>3. /\ IsFiniteSet(Staged(j)) /\ Cardinality(Staged(j)) \in Nat
      /\ IsFiniteSet(Staged(j)') /\ Cardinality(Staged(j)') \in Nat
  <2>1. IsFiniteSet(0..job'[j].attempt)
    <3>1. job'[j].attempt \in Int
      BY <1>1, ConfigBounds DEF Attempts
    <3> QED BY <3>1, FS_Interval
  <2>2. Staged(j)' \in SUBSET (0..job'[j].attempt)
    BY DEF Staged
  <2>3. IsFiniteSet(Staged(j)')
    BY <2>1, <2>2, FS_Subset
  <2> QED BY <1>1, <2>3, StagedIsFinite, FS_CardinalityType
<1>4. Staged(j) \subseteq Staged(j)'
  BY <1>1, <1>2, ConfigBounds DEF Staged, Attempts
<1>5. Cardinality(Staged(j)) <= Cardinality(Staged(j)')
  BY <1>3, <1>4, FS_Subset
<1>6. ASSUME script[j][k] = "stage", to # "stage"
      PROVE  Cardinality(Staged(j)) + 1 <= Cardinality(Staged(j)')
  <2>1. k \notin Staged(j) /\ k \in Staged(j)'
    BY <1>1, <1>2, <1>6, ConfigBounds DEF Staged, Attempts
  <2>2. Staged(j) \cup {k} \in SUBSET (Staged(j)')
    BY <1>4, <2>1
  <2>3. Cardinality(Staged(j) \cup {k}) = Cardinality(Staged(j)) + 1
    BY <1>3, <2>1, FS_AddElement
  <2>4. Cardinality(Staged(j) \cup {k}) <= Cardinality(Staged(j)')
    BY <1>3, <2>2, FS_Subset
  <2> QED BY <2>3, <2>4
<1> QED BY <1>3, <1>5, <1>6
LEMMA MadeIsInForce ==
    ASSUME NEW j \in Jobs, NEW package, Made(j, package) PROVE InForce(j, package)
<1>1. CASE job[j].change.is \in {"set", "unset"}
  BY <1>1 DEF Made, MadeBy, InForce
<1>2. CASE job[j].change.is = "delete"
  BY <1>2 DEF Made, MadeBy, InForce
<1>3. CASE job[j].change.is = "add"
  BY <1>3 DEF Made, MadeBy, InForce
<1>4. CASE job[j].change.is = "clear"
  BY <1>4 DEF Made, MadeBy, InForce
<1>5. CASE job[j].change.is \notin {"set", "unset", "delete", "add", "clear"}
  BY <1>5 DEF InForce
<1> QED BY <1>1, <1>2, <1>3, <1>4, <1>5

LEMMA MadeLater ==
    ASSUME NEW change, NEW old \in Nat, NEW a \in Nat, NEW b \in Nat, a <= b, NEW package,
           MadeBy(change, old, a, package)
    PROVE  MadeBy(change, old, b, package)
<1>1. package.added \in old + 1 .. old + 1 + a => package.added \in old + 1 .. old + 1 + b
  OBVIOUS
<1> QED BY <1>1 DEF MadeBy

LEMMA AddedIsNat ==
    ASSUME NEW package \in Packages PROVE package.added \in Nat
<1>1. package.added \in 0..MaxAdded
  BY DEF Packages
<1> QED BY <1>1, ConfigBounds

LEMMA ResultsAreMade ==
    ASSUME target \in Targets, NEW change \in Changes, change.is # "reload",
           NEW package \in Packages, NEW result \in Results(change, package),
           result.added <= MaxAdded,
           NEW old \in Nat, NEW a \in Nat,
           change.is = "add" => old <= package.added /\ result.added <= old + 1 + a
    PROVE  MadeBy(change, old, a, result)
<1>1. /\ result \in Packages
      /\ change.is \in {"set", "unset"} => result.option = change.value
      /\ change.is = "delete" => result.option = "no section"
      /\ change.is = "clear" => result.added = 0
      /\ change.is = "add" => result.added = package.added + 1
  BY ResultsAre
<1>2. package.added \in Nat /\ result.added \in Nat
  BY <1>1, AddedIsNat
<1>3. change.is = "add" => result.added \in old + 1 .. old + 1 + a
  BY <1>1, <1>2
<1> QED BY <1>1, <1>3 DEF MadeBy

\* A step of a script keeps what an open job that is alone has made: staging,
\* committing, and everything else.
LEMMA AloneScripts ==
    ASSUME ScriptsInv, AloneInForce, NEW j \in Jobs, NEW k \in Attempts, NEW to,
           ScriptStep(j, k, to),
           \/ UNCHANGED staged /\ (to = "commit" => script[j][k] = "commit")
           \/ /\ script[j][k] = "stage" /\ to = "commit"
              /\ staged' \in Results(job[j].change, staged) /\ staged'.added <= MaxAdded,
           \/ UNCHANGED committed /\ (to = "reload" => script[j][k] = "reload")
           \/ script[j][k] = "commit" /\ committed' = staged
    PROVE  AloneInForce'
<1>1. /\ staged \in Packages /\ target \in Targets /\ job[j] \in JobRecords
      /\ script'[j][k] = to /\ Alive(j, k) /\ job[j].change \in Changes
  BY DEF ScriptsInv, ConfigTypes, ScriptStep, Advances, Scripts
<1> SUFFICES ASSUME NEW i \in Jobs, job'[i].open, job'[i].alone
             PROVE  /\ \A h \in Jobs : h # i => \A m \in Attempts : script'[h][m] = "none"
                    /\ job'[i].change.is = "add" =>
                         /\ job'[i].had <= staged'.added
                         /\ staged'.added <= job'[i].had + Cardinality(Staged(i)')
                    /\ \A m \in Attempts :
                         /\ script'[i][m] \in {"commit", "reload"} /\ job'[i].change.is # "reload"
                              => Made(i, staged)'
                         /\ script'[i][m] = "reload" => Made(i, committed)'
  BY DEF AloneInForce, Alive
<1>2. i = j
  <2>1. ASSUME i # j PROVE FALSE
    <3>1. job[i].open /\ job[i].alone
      BY <2>1 DEF ScriptStep, Advances
    <3> QED BY <1>1, <2>1, <3>1 DEF AloneInForce
  <2> QED BY <2>1
<1>3. Advances(j, k, to) /\ job'[j].open
  BY <1>2 DEF ScriptStep
<1>4. /\ job[j].open /\ job[j].alone
      /\ job'[j].change = job[j].change /\ job'[j].had = job[j].had
      /\ job[j].attempt \in Nat /\ job'[j].attempt \in Nat /\ job[j].attempt <= job'[j].attempt
      /\ job[j].had \in Nat
  BY <1>1, <1>2, <1>3, OpenGoesOn, ConfigBounds DEF Attempts, JobRecords
<1>5. \A m \in Attempts : m # k => \/ script'[j][m] = script[j][m]
                                   \/ script'[j][m] = First(job[j].change)
  BY <1>3, OpenGoesOn
<1>6. /\ Cardinality(Staged(j)) \in Nat /\ Cardinality(Staged(j)') \in Nat
      /\ Cardinality(Staged(j)) <= Cardinality(Staged(j)')
      /\ script[j][k] = "stage" /\ to # "stage" =>
            Cardinality(Staged(j)) + 1 <= Cardinality(Staged(j)')
      /\ Cardinality(Staged(j)') <= job'[j].attempt + 1
  <2>1. job'[j].attempt \in Attempts
    BY <1>3, OpenGoesOn
  <2>2. Cardinality(Staged(j)') <= job'[j].attempt + 1
    <3>1. IsFiniteSet(0..job'[j].attempt) /\ Cardinality(0..job'[j].attempt) = job'[j].attempt + 1
      <4>1. job'[j].attempt \in Int /\ 0 <= job'[j].attempt /\ 0 \in Int
        BY <1>4
      <4>2. IsFiniteSet(0..job'[j].attempt) /\ Cardinality(0..job'[j].attempt) = job'[j].attempt - 0 + 1
        BY <4>1, FS_Interval
      <4> QED BY <4>1, <4>2
    <3>2. Staged(j)' \in SUBSET (0..job'[j].attempt)
      BY DEF Staged
    <3> QED BY <3>1, <3>2, FS_Subset
  <2> QED BY <1>3, <2>2, StagedGrows
<1>7. /\ \A h \in Jobs : h # j => \A m \in Attempts : script[h][m] = "none"
      /\ job[j].change.is = "add" =>
           /\ job[j].had <= staged.added
           /\ staged.added <= job[j].had + Cardinality(Staged(j))
      /\ \A m \in Attempts :
           /\ script[j][m] \in {"commit", "reload"} /\ job[j].change.is # "reload" => Made(j, staged)
           /\ script[j][m] = "reload" => Made(j, committed)
  BY <1>4 DEF AloneInForce, Alive
<1>8. \A h \in Jobs : h # j => \A m \in Attempts : script'[h][m] = "none"
  BY <1>3, <1>7 DEF Advances
<1>9. script[j][k] \in {"stage", "commit"} => job[j].change.is # "reload"
  BY DEF ScriptsInv, Scripts
<1>10. ASSUME job[j].change.is = "add"
       PROVE  /\ job[j].had <= staged'.added
              /\ staged'.added <= job[j].had + Cardinality(Staged(j)')
  <2>1. staged.added \in Nat
    BY <1>1, AddedIsNat
  <2>2. CASE UNCHANGED staged
    BY <1>4, <1>6, <1>7, <1>10, <2>1, <2>2
  <2>3. CASE /\ script[j][k] = "stage" /\ to = "commit"
             /\ staged' \in Results(job[j].change, staged) /\ staged'.added <= MaxAdded
    <3>1. staged'.added = staged.added + 1
      BY <1>1, <1>10, <2>3, ResultsAre
    <3> QED BY <1>4, <1>6, <1>7, <1>10, <2>1, <2>3, <3>1
  <2> QED BY <2>2, <2>3
<1>11. ASSUME NEW p, Made(j, p)
       PROVE  MadeBy(job'[j].change, job'[j].had, job'[j].attempt, p)
  BY <1>4, <1>11, MadeLater DEF Made
<1>12. ASSUME NEW m \in Attempts, script'[j][m] \in {"commit", "reload"}, job[j].change.is # "reload"
       PROVE  Made(j, staged)'
  <2>1. CASE UNCHANGED staged /\ (to = "commit" => script[j][k] = "commit")
    <3>1. First(job[j].change) = "stage"
      BY <1>12 DEF First
    <3>2. Made(j, staged)
      <4>1. CASE m # k
        BY <1>5, <1>7, <1>12, <3>1, <4>1
      <4>2. CASE m = k
        BY <1>1, <1>7, <1>12, <2>1, <4>2
      <4> QED BY <4>1, <4>2
    <3> QED BY <1>11, <2>1, <3>2 DEF Made
  <2>2. CASE /\ script[j][k] = "stage" /\ to = "commit"
             /\ staged' \in Results(job[j].change, staged) /\ staged'.added <= MaxAdded
    <3>1. staged' \in Packages
      BY <1>1, <1>12, <2>2, ResultsAre
    <3>2. job[j].change.is = "add" =>
            /\ job[j].had <= staged.added
            /\ staged'.added <= job[j].had + 1 + job'[j].attempt
      <4>1. staged'.added \in Nat
        BY <3>1, AddedIsNat
      <4> QED BY <1>4, <1>6, <1>7, <1>10, <4>1
    <3>3. MadeBy(job[j].change, job[j].had, job'[j].attempt, staged')
      BY <1>1, <1>4, <1>12, <2>2, <3>2, ResultsAreMade
    <3> QED BY <1>4, <3>3 DEF Made
  <2> QED BY <2>1, <2>2
<1>13. ASSUME NEW m \in Attempts, script'[j][m] = "reload" PROVE Made(j, committed)'
  <2>1. CASE job[j].change.is = "reload"
    BY <1>4, <2>1 DEF Made, MadeBy
  <2>2. CASE job[j].change.is # "reload" /\ script[j][k] = "commit" /\ committed' = staged
    <3>1. Made(j, staged)
      BY <1>7, <2>2
    <3> QED BY <1>11, <2>2, <3>1 DEF Made
  <2>3. CASE /\ job[j].change.is # "reload" 
             /\ UNCHANGED committed /\ (to = "reload" => script[j][k] = "reload")
    <3>1. First(job[j].change) = "stage"
      BY <2>3 DEF First
    <3>2. Made(j, committed)
      BY <1>1, <1>5, <1>7, <1>13, <2>3, <3>1
    <3> QED BY <1>11, <2>3, <3>2 DEF Made
  <2> QED BY <2>1, <2>2, <2>3
<1> QED BY <1>2, <1>4, <1>8, <1>10, <1>12, <1>13
LEMMA AloneStep == ScriptsInv /\ AloneInForce /\ [ConfigNext]_configVars => AloneInForce'
<1> SUFFICES ASSUME ScriptsInv, AloneInForce, [ConfigNext]_configVars PROVE AloneInForce'
  OBVIOUS
<1>1. ASSUME NEW j \in Jobs, NEW k \in Attempts, Stage(j, k) PROVE AloneInForce'
  <2>1. UNCHANGED committed /\ script[j][k] = "stage"
    BY <1>1 DEF Stage
  <2>2. \/ ScriptStep(j, k, "commit") /\ staged' \in Results(job[j].change, staged)
           /\ staged'.added <= MaxAdded
        \/ ScriptStep(j, k, "none") /\ UNCHANGED staged
    BY <1>1, StepsAdvance
  <2> QED BY <2>1, <2>2, AloneScripts
<1>2. ASSUME NEW j \in Jobs, NEW k \in Attempts, Commit(j, k) PROVE AloneInForce'
  <2>1. UNCHANGED staged /\ script[j][k] = "commit" /\ committed' = staged
    BY <1>2 DEF Commit
  <2>2. ScriptStep(j, k, "reload") \/ ScriptStep(j, k, "none")
    BY <1>2, StepsAdvance
  <2> QED BY <2>1, <2>2, AloneScripts
<1>3. ASSUME NEW j \in Jobs, NEW k \in Attempts,
             ReloadService(j, k) \/ CommandFails(j, k) \/ Stop(j, k)
      PROVE  AloneInForce'
  <2>1. UNCHANGED <<staged, committed>>
    BY <1>3 DEF ReloadService, CommandFails, Stop
  <2>2. ScriptStep(j, k, "none")
    BY <1>3, StepsAdvance
  <2> QED BY <2>1, <2>2, AloneScripts
<1>4. ASSUME NEW j \in Jobs, Lose(j) PROVE AloneInForce'
  <2>1. UNCHANGED <<staged, committed>>
    BY <1>4 DEF Lose
  <2>2. job[j].attempt \in Attempts
    BY DEF ScriptsInv, ConfigTypes, JobRecords
  <2>3. ScriptStep(j, job[j].attempt, script[j][job[j].attempt])
    BY <1>4, <2>2, StepsAdvance
  <2> QED BY <2>1, <2>2, <2>3, AloneScripts
<1>5. ASSUME NEW j \in Jobs, NEW change \in Changes, Begin(j, change) PROVE AloneInForce'
  <2>1. UNCHANGED <<staged, committed>>
    BY <1>5 DEF Begin
  <2>2. \A i \in Jobs : i # j => ~ job'[i].alone
    BY <1>5, BeginIs
  <2>3. /\ job'[j].change = change /\ job'[j].had = staged.added /\ job'[j].attempt = 0
        /\ job'[j].alone <=> ~ Busy
        /\ \A i \in Jobs : i # j => script'[i] = script[i]
        /\ script'[j][0] = First(change)
        /\ \A k \in Attempts : k # 0 => script'[j][k] = "none"
    BY <1>5, BeginIs
  <2>4. Cardinality(Staged(j)') \in Nat
    <3>1. IsFiniteSet(0..0)
      <4>1. 0 \in Int
        OBVIOUS
      <4> QED BY <4>1, FS_Interval
    <3>2. Staged(j)' \in SUBSET (0..0)
      BY <2>3 DEF Staged
    <3> QED BY <3>1, <3>2, FS_Subset, FS_CardinalityType
  <2>5. staged.added \in Nat
    BY AddedIsNat DEF ScriptsInv, ConfigTypes
  <2>6. /\ staged'.added <= staged.added + Cardinality(Staged(j)') /\ staged.added <= staged'.added
    BY <2>1, <2>4, <2>5
  <2>7. \A k \in Attempts : script'[j][k] \notin {"commit", "reload"} \/ change.is = "reload"
    BY <2>3 DEF First
  <2>8. change.is = "reload" => Made(j, staged)' /\ Made(j, committed)'
    BY <2>3 DEF Made, MadeBy
  <2>9. job'[j].alone => \A i \in Jobs : i # j => \A k \in Attempts : script'[i][k] = "none"
    BY <2>3 DEF Busy, Alive
  <2> QED BY <2>2, <2>3, <2>6, <2>7, <2>8, <2>9 DEF AloneInForce, Alive
<1>6. ASSUME NEW j \in Jobs, CannotOpen(j) PROVE AloneInForce'
  BY <1>6 DEF CannotOpen, AloneInForce, Staged, Made, Alive
<1>7. CASE UNCHANGED configVars
  BY <1>7 DEF configVars, AloneInForce, Staged, Made, Alive
<1> QED BY <1>1, <1>2, <1>3, <1>4, <1>5, <1>6, <1>7 DEF ConfigNext

\* Only the script of the last attempt closes its job with success, at its end.
LEMMA ClosesWithSuccess ==
    ASSUME ScriptsInv, NEW j \in Jobs, NEW i \in Jobs, NEW k \in Attempts,
           job[j].open, ~ job'[j].open, answer'.ok, ~ AlwaysOk
    PROVE  /\ \A change \in Changes : ~ Begin(i, change)
           /\ ~ CannotOpen(i) /\ ~ Lose(i)
           /\ ~ Stage(i, k) /\ ~ CommandFails(i, k) /\ ~ Stop(i, k)
           /\ Commit(i, k) => i = j /\ ~ job[j].change.reloads
           /\ ReloadService(i, k) => i = j
<1> USE DEF ScriptsInv, ConfigTypes
<1>1. \A change \in Changes : ~ Begin(i, change)
  BY BeginIs
<1>2. ~ CannotOpen(i)
  BY DEF CannotOpen
<1>3. ASSUME NEW to, Advances(i, k, to) PROVE i = j
  BY <1>3 DEF Advances
<1>4. ASSUME NEW scripts, Answers(i, FALSE, scripts) PROVE FALSE
  BY <1>4 DEF Answers
<1>5. ASSUME NEW scripts, LosesSession(j, scripts) PROVE FALSE
  <2>1. job' = [job EXCEPT ![j].attempt = job[j].attempt + 1]
    BY <1>5, <1>4 DEF LosesSession, Answers
  <2> QED BY <2>1 DEF JobRecords
<1>6. ASSUME NEW scripts, Detached(j, scripts) PROVE FALSE
  BY <1>6 DEF Detached
<1>7. ASSUME ScriptEnds(j, k, FALSE) PROVE FALSE
  BY <1>7, <1>5, <1>6 DEF ScriptEnds, Answers
<1>8. ~ Lose(i)
  <2> SUFFICES ASSUME Lose(i) PROVE FALSE
    OBVIOUS
  <2>1. job[i].attempt \in Attempts
    BY DEF JobRecords
  <2>2. Advances(i, job[i].attempt, script[i][job[i].attempt])
    BY <2>1, ScriptsAdvance DEF Lose
  <2>3. i = j
    BY <2>2 DEF Advances
  <2> QED BY <2>3, <1>5 DEF Lose
<1>9. ASSUME Stage(i, k) PROVE FALSE
  <2>1. i = j
    BY <1>3, <1>9, StepsAdvance DEF ScriptStep
  <2>2. CASE GoesOn(j, k, "commit")
    BY <2>2 DEF GoesOn
  <2> QED BY <1>7, <1>9, <2>1, <2>2 DEF Stage
<1>10. ASSUME CommandFails(i, k) PROVE FALSE
  <2>1. i = j
    BY <1>3, <1>10, StepsAdvance DEF ScriptStep
  <2> QED BY <1>7, <1>10, <2>1 DEF CommandFails
<1>11. ASSUME Stop(i, k) PROVE FALSE
  <2>1. i = j
    BY <1>3, <1>11, StepsAdvance DEF ScriptStep
  <2> QED BY <1>6, <1>11, <2>1 DEF Stop
<1>12. ASSUME Commit(i, k) PROVE i = j /\ ~ job[j].change.reloads
  <2>1. i = j
    BY <1>3, <1>12, StepsAdvance DEF ScriptStep
  <2>2. ~ GoesOn(j, k, "reload")
    BY DEF GoesOn
  <2> QED BY <1>12, <2>1, <2>2 DEF Commit, AfterCommit
<1>13. ReloadService(i, k) => i = j
  BY <1>3, StepsAdvance DEF ScriptStep
<1> QED BY <1>1, <1>2, <1>8, <1>9, <1>10, <1>11, <1>12, <1>13

\* A job whose script reported success, while no other job's script was on the
\* router, has its change committed, and in force if it reloads, however many of
\* its own attempts interleaved (SSHClient.run, the scripts of
\* RouterManagementService).
THEOREM SuccessIsInForce == Spec => OkIsInForce
<1>1. Init => ScriptsInv /\ AloneInForce
  BY PartSteps, ScriptsInitInv, NoJobIs DEF ConfigInit, AloneInForce
<1>2. ScriptsInv /\ AloneInForce /\ [Next]_vars => (ScriptsInv /\ AloneInForce)'
  BY PartSteps, ScriptsStep, AloneStep
<1>3. ASSUME ScriptsInv, AloneInForce, [ConfigNext]_configVars, NEW j \in Jobs,
             job[j].open, ~ job'[j].open, answer'.ok, job[j].alone, ~ AlwaysOk
      PROVE  InForce(j, committed') /\ (job[j].change.reloads => InForce(j, applied'))
  <2>1. ~ UNCHANGED configVars
    BY <1>3 DEF configVars
  <2>2. PICK k \in Attempts :
           \/ Commit(j, k) /\ ~ job[j].change.reloads
           \/ ReloadService(j, k)
    <3>1. 0 \in Attempts
      BY ConfigBounds
    <3> QED BY <1>3, <2>1, <3>1, ClosesWithSuccess DEF ConfigNext
  <2>3. CASE Commit(j, k) /\ ~ job[j].change.reloads
    <3>1. script[j][k] = "commit" /\ committed' = staged
      BY <2>3 DEF Commit
    <3>2. job[j].change.is # "reload"
      BY <1>3, <3>1 DEF ScriptsInv, Scripts
    <3>3. Made(j, staged)
      BY <1>3, <3>1, <3>2 DEF AloneInForce
    <3> QED BY <2>3, <3>1, <3>3, MadeIsInForce
  <2>4. CASE ReloadService(j, k)
    <3>1. /\ script[j][k] = "reload" /\ committed' = committed /\ applied' \in {staged, committed}
      BY <2>4 DEF ReloadService
    <3>2. Made(j, committed)
      BY <1>3, <3>1 DEF AloneInForce
    <3>3. Made(j, staged)
      <4>1. CASE job[j].change.is = "reload"
        BY <4>1 DEF Made, MadeBy
      <4>2. CASE job[j].change.is # "reload"
        BY <1>3, <3>1, <4>2 DEF AloneInForce
      <4> QED BY <4>1, <4>2
    <3> QED BY <3>1, <3>2, <3>3, MadeIsInForce
  <2> QED BY <2>2, <2>3, <2>4
<1>4. ScriptsInv /\ AloneInForce /\ [Next]_vars
        => [\A j \in Jobs :
              (job[j].open /\ ~ job'[j].open /\ answer'.ok /\ job[j].alone /\ ~ AlwaysOk) =>
                 /\ InForce(j, committed')
                 /\ job[j].change.reloads => InForce(j, applied')]_configVars
  BY <1>3, PartSteps
<1> QED BY <1>1, <1>2, <1>4, PTL DEF Spec, OkIsInForce
-----------------------------------------------------------------------------
(* Backups: the lines of an archive, and what is dumped of them.            *)

Line(r, c, i) == <<c, IF r /\ i = LastBlock THEN i - 1 ELSE i>>
Lines(r, c, n) == [i \in 1..n |-> Line(r, c, i)]

\* The second of two lines that are alike is not dumped.
Dumped(r, c, n) == Lines(r, c, IF r /\ n = LastBlock THEN n - 1 ELSE n)

LEMMA BlocksAreLines ==
    /\ \A c, i : Block(c, i) = Line(repeats, c, i)
    /\ \A c : Archive(c) = Lines(repeats, c, LastBlock)
BY DEF Archive, Block, Line, Lines

LEMMA LastBlockIs == LastBlock \in Nat /\ LastBlock > 1
BY BackupsAssumption

LEMMA LinesAre ==
    ASSUME NEW r \in BOOLEAN, NEW c \in Nat, NEW n \in Nat
    PROVE  /\ Lines(r, c, n) \in Seq(Nat \X Nat) /\ Len(Lines(r, c, n)) = n
           /\ DOMAIN Lines(r, c, n) = 1..n
           /\ \A i \in 1..n : Lines(r, c, n)[i] = Line(r, c, i)
<1>1. \A i \in 1..n : Line(r, c, i) \in Nat \X Nat
  BY DEF Line
<1>2. Lines(r, c, n) \in [1..n -> Nat \X Nat]
  BY <1>1 DEF Lines
<1>3. Lines(r, c, n) \in Seq(Nat \X Nat)
  BY <1>2
<1>4. DOMAIN Lines(r, c, n) = 1..n
  BY DEF Lines
<1>5. Len(Lines(r, c, n)) = n
  BY <1>3, <1>4, LenProperties
<1> QED BY <1>3, <1>4, <1>5 DEF Lines

LEMMA NoLines ==
    ASSUME NEW r \in BOOLEAN, NEW c \in Nat PROVE Lines(r, c, 0) = <<>>
<1>1. 0 \in Nat
  OBVIOUS
<1>2. Lines(r, c, 0) \in Seq(Nat \X Nat) /\ Len(Lines(r, c, 0)) = 0
  BY <1>1, LinesAre
<1> QED BY <1>2, EmptySeq

LEMMA LinesAppended ==
    ASSUME NEW r \in BOOLEAN, NEW c \in Nat, NEW n \in Nat
    PROVE  Append(Lines(r, c, n), Line(r, c, n + 1)) = Lines(r, c, n + 1)
<1> DEFINE s == Lines(r, c, n)
           t == Lines(r, c, n + 1)
           u == Append(s, Line(r, c, n + 1))
<1>1. /\ s \in Seq(Nat \X Nat) /\ Len(s) = n /\ \A i \in 1..n : s[i] = Line(r, c, i)
      /\ t \in Seq(Nat \X Nat) /\ Len(t) = n + 1 /\ \A i \in 1..(n + 1) : t[i] = Line(r, c, i)
  <2>1. n + 1 \in Nat
    OBVIOUS
  <2>2. /\ t \in Seq(Nat \X Nat) /\ Len(t) = n + 1
        /\ \A i \in 1..(n + 1) : t[i] = Line(r, c, i)
    BY <2>1, LinesAre, Zenon
  <2>3. s \in Seq(Nat \X Nat) /\ Len(s) = n /\ \A i \in 1..n : s[i] = Line(r, c, i)
    <3>1. n \in Nat /\ r \in BOOLEAN /\ c \in Nat
      OBVIOUS
    <3> QED BY <3>1, LinesAre
  <2> QED BY <2>2, <2>3
<1>2. Line(r, c, n + 1) \in Nat \X Nat
  BY DEF Line
<1>3. /\ u \in Seq(Nat \X Nat) /\ Len(u) = n + 1
      /\ \A i \in 1..n : u[i] = s[i]
      /\ u[n + 1] = Line(r, c, n + 1)
  <2> DEFINE e == Line(r, c, n + 1)
  <2>1. s \in Seq(Nat \X Nat) /\ Len(s) = n /\ e \in Nat \X Nat
    BY <1>1, <1>2
  <2> HIDE DEF s, e
  <2>2. /\ Append(s, e) \in Seq(Nat \X Nat) /\ Len(Append(s, e)) = n + 1
        /\ \A i \in 1..n : Append(s, e)[i] = s[i]
        /\ Append(s, e)[n + 1] = e
    BY <2>1, AppendProperties
  <2> QED BY <2>2, Zenon DEF e
<1>4. u[n + 1] = Line(r, c, n + 1)
  BY <1>3
<1>5. \A i \in 1..(n + 1) : i \in 1..n \/ i = n + 1
  OBVIOUS
<1>6. \A i \in 1..(n + 1) : u[i] = t[i]
  BY <1>1, <1>3, <1>4, <1>5
<1> HIDE DEF s, t, u
<1>7. u = t
  BY <1>1, <1>3, <1>6, SeqEqual
<1> QED BY <1>7 DEF s, t, u

LEMMA LinesWritten ==
    ASSUME NEW r \in BOOLEAN, NEW c \in Nat, NEW n \in Nat
    PROVE  Written(Lines(r, c, n), n + 1, Line(r, c, n + 1)) = Lines(r, c, n + 1)
<1> DEFINE s == Lines(r, c, n)
<1>1. Len(s) = n /\ DOMAIN s = 1..n /\ \A i \in 1..n : s[i] = Line(r, c, i)
  <2>1. n \in Nat /\ r \in BOOLEAN /\ c \in Nat
    OBVIOUS
  <2> QED BY <2>1, LinesAre
<1>2. (IF n + 1 > Len(s) THEN n + 1 ELSE Len(s)) = n + 1
  BY <1>1
<1>3. \A k \in 1..(n + 1) :
         (IF k = n + 1 THEN Line(r, c, n + 1)
          ELSE IF k \in DOMAIN s THEN s[k] ELSE <<0, 0>>) = Line(r, c, k)
  BY <1>1
<1> HIDE DEF s
<1>4. Written(s, n + 1, Line(r, c, n + 1)) = Lines(r, c, n + 1)
  BY <1>2, <1>3 DEF Written, Lines
<1> QED BY <1>4 DEF s

LEMMA LinesCut ==
    ASSUME NEW r \in BOOLEAN, NEW c \in Nat
    PROVE  SubSeq(Lines(r, c, LastBlock), 1, LastBlock - 1) = Lines(r, c, LastBlock - 1)
<1> DEFINE s == Lines(r, c, LastBlock)
           n == LastBlock - 1
           t == Lines(r, c, n)
           u == SubSeq(s, 1, n)
<1>1. LastBlock \in Nat /\ n \in Nat /\ LastBlock = n + 1
  BY LastBlockIs
<1>2. s \in Seq(Nat \X Nat) /\ Len(s) = n + 1 /\ \A i \in 1..(n + 1) : s[i] = Line(r, c, i)
  BY <1>1, LinesAre
<1>3. t \in Seq(Nat \X Nat) /\ Len(t) = n /\ \A i \in 1..n : t[i] = Line(r, c, i)
  BY <1>1, LinesAre
<1> HIDE DEF s, t, n
<1>4. u \in Seq(Nat \X Nat) /\ Len(u) = n /\ \A i \in 1..n : u[i] = s[i]
  <2>1. 1 \in 1..(Len(s) + 1) /\ n \in 0..Len(s) /\ 1 \in Int /\ n \in Int
    BY <1>1, <1>2
  <2> QED BY <1>1, <1>2, <2>1, SubSeqProperties
<1>5. \A i \in 1..n : i \in 1..(n + 1)
  BY <1>1
<1> HIDE DEF u
<1>6. u = t
  BY <1>2, <1>3, <1>4, <1>5, SeqEqual
<1> QED BY <1>6 DEF s, t, u, n

\* What the next line adds to a dump.
LEMMA DumpedNext ==
    ASSUME NEW r \in BOOLEAN, NEW c \in Nat, NEW n \in Nat, n < LastBlock
    PROVE  LET blocks == Lines(r, c, LastBlock)
               same == n + 1 > 1 /\ blocks[n + 1] = blocks[n]
           IN  /\ n + 1 \in DOMAIN blocks
               /\ Dumped(r, c, n + 1) = IF same THEN Dumped(r, c, n)
                                             ELSE Append(Dumped(r, c, n), blocks[n + 1])
<1> DEFINE blocks == Lines(r, c, LastBlock)
           same == n + 1 > 1 /\ blocks[n + 1] = blocks[n]
<1>1. /\ LastBlock \in Nat /\ LastBlock > 1 /\ n + 1 \in 1..LastBlock
      /\ n # 0 => n \in 1..LastBlock
  BY LastBlockIs
<1>2. /\ DOMAIN blocks = 1..LastBlock
      /\ blocks[n + 1] = Line(r, c, n + 1)
      /\ n # 0 => blocks[n] = Line(r, c, n)
  <2>1. /\ DOMAIN blocks = 1..LastBlock
        /\ \A i \in 1..LastBlock : blocks[i] = Line(r, c, i)
    <3>1. LastBlock \in Nat /\ r \in BOOLEAN /\ c \in Nat
      BY <1>1
    <3> QED BY <3>1, LinesAre
  <2> QED BY <1>1, <2>1
<1>3. Dumped(r, c, n) = Lines(r, c, n)
  BY <1>1 DEF Dumped
<1>4. CASE r /\ n + 1 = LastBlock
  <2>1. Line(r, c, n + 1) = <<c, n>> /\ Line(r, c, n) = <<c, n>>
    BY <1>1, <1>4 DEF Line
  <2>2. same
    <3>1. n # 0 /\ n + 1 > 1
      BY <1>1, <1>4
    <3> QED BY <1>2, <2>1, <3>1
  <2>3. Dumped(r, c, n + 1) = Lines(r, c, n)
    BY <1>1, <1>4 DEF Dumped
  <2> QED BY <1>1, <1>2, <1>3, <2>2, <2>3
<1>5. CASE ~ (r /\ n + 1 = LastBlock)
  <2>1. Line(r, c, n + 1) = <<c, n + 1>> /\ Line(r, c, n) = <<c, n>>
    BY <1>1, <1>5 DEF Line
  <2>2. ~ same
    BY <1>1, <1>2, <2>1
  <2>3. Dumped(r, c, n + 1) = Lines(r, c, n + 1)
    BY <1>5 DEF Dumped
  <2> QED BY <1>1, <1>2, <1>3, <2>2, <2>3, LinesAppended
<1> QED BY <1>4, <1>5
-----------------------------------------------------------------------------
(* Backups: what the script of a job has done by itself.                    *)

Dumps == Seq(Nat \X Nat)
OnRouters ==
    [at : {"idle", "create", "write", "count", "open", "dump", "remove", "ended", "failed"},
     file : Makers \cup {NoPath}, config : Nat, offset : Nat, count : Int, dump : Dumps]

BackupsTypes ==
    /\ repeats \in BOOLEAN /\ routerConfig \in Nat
    /\ path \in Makers \cup {NoPath} /\ disturbed \subseteq Makers
    /\ archive \in [Makers -> Dumps]
    /\ onRouter \in [Makers -> OnRouters]
    /\ backup \in [Makers -> [is : {"pending", "succeeded", "failed"}, data : Dumps]]
    /\ \A j \in Makers : onRouter[j].at \in {"write", "dump"} => onRouter[j].file \in Makers

\* What has been done by script s, which nobody disturbed: the archive at its
\* path is its own, as far as it has written it, and so is what it dumped.
ScriptUndisturbed(s) ==
    /\ s.at \in {"create", "write", "count", "open"} => s.dump = <<>>
    /\ s.at = "create" => s.offset = 0
    /\ s.at = "write" => /\ path = s.file /\ s.offset < LastBlock
                         /\ archive[path] = Lines(repeats, s.config, s.offset)
    /\ s.at \in {"count", "open"} /\ path # NoPath =>
          archive[path] = Lines(repeats, s.config, LastBlock)
    /\ s.at = "open" /\ path # NoPath => s.count = LastBlock
    /\ s.at = "dump" => /\ archive[s.file] = Lines(repeats, s.config, LastBlock)
                        /\ s.offset <= LastBlock
                        /\ s.dump = Dumped(repeats, s.config, s.offset)
    /\ s.at \in {"remove", "ended"} => s.dump = Dumped(repeats, s.config, LastBlock)
    /\ s.at \in {"dump", "remove", "ended"} => s.count = LastBlock

\* A script that nobody disturbed works alone; a job that succeeded has what its
\* script dumped.
BackupsInv ==
    /\ BackupsTypes
    /\ \A j \in Makers \ disturbed :
          /\ ScriptUndisturbed(onRouter[j])
          /\ Working(j) => \A k \in Makers : k # j => ~ Working(k)
    /\ \A j \in Makers : backup[j].is = "succeeded" =>
          onRouter[j].at = "ended" /\ onRouter[j].dump # <<>> /\ backup[j].data = onRouter[j].dump

LEMMA UnstartedIs ==
    /\ <<>> \in Dumps /\ Unstarted \in OnRouters /\ Unstarted.at = "idle"
    /\ Pending \in [is : {"pending", "succeeded", "failed"}, data : Dumps]
    /\ \A c \in Nat : LET s == [Unstarted EXCEPT !.at = "create", !.config = c]
                      IN  s \in OnRouters /\ s.at = "create" /\ s.dump = <<>> /\ s.offset = 0
<1>1. <<>> \in Dumps
  BY EmptySeq DEF Dumps
<1>2. NoCount \in Int /\ 0 \in Nat /\ NoPath \in Makers \cup {NoPath}
  BY DEF NoCount
<1>3. /\ Unstarted \in OnRouters /\ Unstarted.at = "idle" /\ Unstarted.dump = <<>>
      /\ Unstarted.offset = 0
  BY <1>1, <1>2 DEF Unstarted, OnRouters
<1>4. Pending \in [is : {"pending", "succeeded", "failed"}, data : Dumps]
  BY <1>1 DEF Pending
<1>5. ASSUME NEW c \in Nat
      PROVE  LET s == [Unstarted EXCEPT !.at = "create", !.config = c]
             IN  s \in OnRouters /\ s.at = "create" /\ s.dump = <<>> /\ s.offset = 0
  BY <1>3 DEF OnRouters
<1> QED BY <1>1, <1>3, <1>4, <1>5

LEMMA BackupsInitInv == BackupsInit => BackupsInv
<1> SUFFICES ASSUME BackupsInit PROVE BackupsInv
  OBVIOUS
<1>1. \A j \in Makers : onRouter[j].at = "idle" /\ backup[j].is = "pending"
  BY UnstartedIs DEF BackupsInit, Pending
<1>2. BackupsTypes
  BY <1>1, UnstartedIs DEF BackupsInit, BackupsTypes
<1> QED BY <1>1, <1>2 DEF BackupsInit, BackupsInv, ScriptUndisturbed, Working

\* What the others do leaves a script alone that nobody disturbs: they are at
\* rest while it works.
LEMMA OthersLeaveBackup ==
    ASSUME BackupsInv, NEW j \in Makers, j \notin disturbed, onRouter'[j] = onRouter[j],
           ~ Working(j) \/ UNCHANGED <<path, archive>>, UNCHANGED repeats
    PROVE  ScriptUndisturbed(onRouter[j])'
<1>1. ScriptUndisturbed(onRouter[j])
  BY DEF BackupsInv
<1>2. CASE UNCHANGED <<path, archive>>
  BY <1>1, <1>2 DEF ScriptUndisturbed
<1>3. CASE ~ Working(j)
  <2>1. onRouter[j].at \in {"idle", "ended", "failed"}
    BY <1>3 DEF Working
  <2> QED BY <1>1, <2>1 DEF ScriptUndisturbed
<1> QED BY <1>2, <1>3

\* A step of j's own script, once what it makes of the script is known.
LEMMA OwnStepOfBackup ==
    ASSUME BackupsInv, NEW j \in Makers, NEW s \in OnRouters, Working(j),
           onRouter' = [onRouter EXCEPT ![j] = s],
           UNCHANGED <<repeats, routerConfig, backup, disturbed>>,
           path' \in Makers \cup {NoPath}, archive' \in [Makers -> Dumps],
           s.at \in {"write", "dump"} => s.file \in Makers,
           j \notin disturbed => ScriptUndisturbed(onRouter[j])'
    PROVE  BackupsInv'
<1>1. /\ onRouter' \in [Makers -> OnRouters] /\ onRouter'[j] = s
      /\ \A k \in Makers : k # j => onRouter'[k] = onRouter[k]
  BY DEF BackupsInv, BackupsTypes
<1>2. BackupsTypes'
  BY <1>1 DEF BackupsInv, BackupsTypes
<1>3. \A k \in Makers : backup'[k].is = "succeeded" => k # j
  BY DEF BackupsInv, Working
<1>4. ASSUME NEW k \in Makers, k \notin disturbed', k # j
      PROVE  ScriptUndisturbed(onRouter[k])' /\ ~ Working(k)'
  <2>1. ~ Working(k)
    BY <1>4 DEF BackupsInv
  <2> QED BY <1>1, <1>4, <2>1, OthersLeaveBackup DEF Working
<1>5. j \notin disturbed => \A k \in Makers : k # j => ~ Working(k)'
  BY <1>1 DEF BackupsInv, Working
<1> QED BY <1>1, <1>2, <1>3, <1>4, <1>5 DEF BackupsInv
LEMMA StartKeepsBackups ==
    ASSUME BackupsInv, NEW j \in Makers, StartBackup(j) PROVE BackupsInv'
<1> DEFINE s == [Unstarted EXCEPT !.at = "create", !.config = routerConfig]
<1>1. /\ onRouter[j].at = "idle" /\ onRouter' = [onRouter EXCEPT ![j] = s]
      /\ disturbed' = disturbed \cup
            (IF \E k \in Makers : Working(k) THEN {j} \cup {k \in Makers : Working(k)} ELSE {})
      /\ UNCHANGED <<repeats, routerConfig, path, archive, backup>>
  BY DEF StartBackup
<1>2. s \in OnRouters /\ s.at = "create" /\ s.dump = <<>> /\ s.offset = 0
  BY UnstartedIs DEF BackupsInv, BackupsTypes
<1> HIDE DEF s
<1>3. /\ onRouter' \in [Makers -> OnRouters] /\ onRouter'[j] = s
      /\ \A k \in Makers : k # j => onRouter'[k] = onRouter[k]
  BY <1>1, <1>2 DEF BackupsInv, BackupsTypes
<1>4. BackupsTypes'
  BY <1>1, <1>2, <1>3 DEF BackupsInv, BackupsTypes
<1>5. ASSUME NEW k \in Makers, k \notin disturbed', k # j
      PROVE  ScriptUndisturbed(onRouter[k])' /\ ~ Working(k)'
  <2>1. ~ Working(k)
    BY <1>1, <1>5
  <2>2. ScriptUndisturbed(onRouter[k])'
    BY <1>1, <1>3, <1>5, <2>1, OthersLeaveBackup
  <2> QED BY <1>3, <1>5, <2>1, <2>2 DEF Working
<1>6. ASSUME j \notin disturbed'
      PROVE  ScriptUndisturbed(onRouter[j])' /\ \A k \in Makers : k # j => ~ Working(k)'
  <2>1. \A k \in Makers : ~ Working(k)
    BY <1>1, <1>6
  <2> QED BY <1>2, <1>3, <2>1 DEF ScriptUndisturbed, Working
<1>7. \A k \in Makers : backup'[k].is = "succeeded" => k # j
  BY <1>1 DEF BackupsInv
<1> QED BY <1>1, <1>3, <1>4, <1>5, <1>6, <1>7 DEF BackupsInv

LEMMA CreateKeepsBackups ==
    ASSUME BackupsInv, NEW j \in Makers, CreateArchive(j) PROVE BackupsInv'
<1> DEFINE f == IF path = NoPath THEN j ELSE path
           s == [onRouter[j] EXCEPT !.at = "write", !.file = f]
<1>1. /\ onRouter[j].at = "create" /\ path' = f /\ archive' = [archive EXCEPT ![f] = <<>>]
      /\ onRouter[j] \in OnRouters /\ archive \in [Makers -> Dumps] /\ f \in Makers
      /\ UNCHANGED <<repeats, routerConfig, backup, disturbed>>
  BY DEF CreateArchive, BackupsInv, BackupsTypes
<1>2. onRouter' = [onRouter EXCEPT ![j] = s]
  BY DEF CreateArchive
<1>3. /\ s \in OnRouters /\ s.at = "write" /\ s.file = f /\ s.config = onRouter[j].config
      /\ s.offset = onRouter[j].offset /\ s.dump = onRouter[j].dump
  BY <1>1 DEF OnRouters
<1>4. archive' \in [Makers -> Dumps] /\ archive'[f] = <<>>
  BY <1>1, UnstartedIs
<1> HIDE DEF s, f
<1>5. ASSUME j \notin disturbed PROVE ScriptUndisturbed(onRouter[j])'
  <2>1. onRouter[j].offset = 0 /\ onRouter[j].dump = <<>> /\ onRouter[j].config \in Nat
    BY <1>1, <1>5 DEF BackupsInv, ScriptUndisturbed, OnRouters
  <2>2. Lines(repeats, onRouter[j].config, 0) = <<>>
    BY <2>1, NoLines DEF BackupsInv, BackupsTypes
  <2>3. 0 < LastBlock
    BY LastBlockIs
  <2>4. onRouter'[j] = s
    BY <1>2 DEF BackupsInv, BackupsTypes
  <2> QED BY <1>1, <1>3, <1>4, <2>1, <2>2, <2>3, <2>4 DEF ScriptUndisturbed
<1> QED BY <1>1, <1>2, <1>3, <1>4, <1>5, OwnStepOfBackup DEF Working

LEMMA WriteKeepsBackups ==
    ASSUME BackupsInv, NEW j \in Makers, WriteBlock(j) PROVE BackupsInv'
<1> DEFINE i == onRouter[j].offset + 1
           f == onRouter[j].file
           c == onRouter[j].config
           next == IF i = LastBlock THEN "count" ELSE "write"
           s == [onRouter[j] EXCEPT !.offset = i, !.at = next]
<1>1. /\ onRouter[j].at = "write" /\ onRouter[j] \in OnRouters
      /\ archive \in [Makers -> Dumps] /\ f \in Makers /\ c \in Nat /\ onRouter[j].offset \in Nat
      /\ i \in Nat /\ i >= 1
      /\ archive' = [archive EXCEPT ![f] = Written(archive[f], i, Block(c, i))]
      /\ repeats \in BOOLEAN
      /\ UNCHANGED <<repeats, routerConfig, path, backup, disturbed>>
  BY DEF WriteBlock, BackupsInv, BackupsTypes, OnRouters
<1>2. onRouter' = [onRouter EXCEPT ![j] = s]
  BY DEF WriteBlock
<1>3. /\ s \in OnRouters /\ s.at = next /\ s.file = f /\ s.config = c
      /\ s.offset = i /\ s.dump = onRouter[j].dump
  <2>1. next \in {"count", "write"}
    OBVIOUS
  <2> HIDE DEF next
  <2> QED BY <1>1, <2>1 DEF OnRouters
<1>4. archive' \in [Makers -> Dumps] /\ archive'[f] = Written(archive[f], i, Block(c, i))
  <2>1. Block(c, i) \in Nat \X Nat
    BY <1>1 DEF Block
  <2>2. ASSUME NEW blocks \in Dumps, NEW b \in Nat \X Nat PROVE Written(blocks, i, b) \in Dumps
    <3> DEFINE n == IF i > Len(blocks) THEN i ELSE Len(blocks)
    <3>1. Len(blocks) \in Nat /\ DOMAIN blocks = 1..Len(blocks)
          /\ \A k \in DOMAIN blocks : blocks[k] \in Nat \X Nat
      BY <2>2 DEF Dumps
    <3>2. n \in Nat
      BY <1>1, <3>1
    <3>3. Written(blocks, i, b) \in [1..n -> Nat \X Nat]
      BY <2>2, <3>1 DEF Written
    <3> HIDE DEF n
    <3> QED BY <3>2, <3>3 DEF Dumps
  <2> QED BY <1>1, <2>1, <2>2
<1> HIDE DEF s
<1>5. ASSUME j \notin disturbed PROVE ScriptUndisturbed(onRouter[j])'
  <2>1. /\ path = f /\ onRouter[j].offset < LastBlock /\ onRouter[j].dump = <<>>
        /\ archive[f] = Lines(repeats, c, onRouter[j].offset)
    BY <1>1, <1>5 DEF BackupsInv, ScriptUndisturbed
  <2>2. archive'[f] = Lines(repeats, c, i)
    <3>1. Block(c, i) = Line(repeats, c, i)
      BY BlocksAreLines
    <3>2. Written(Lines(repeats, c, onRouter[j].offset), i, Line(repeats, c, i)) = Lines(repeats, c, i)
      BY <1>1, LinesWritten
    <3> QED BY <1>4, <2>1, <3>1, <3>2
  <2>3. next = "write" => i < LastBlock
    BY <1>1, <2>1, LastBlockIs
  <2>4. next = "count" => i = LastBlock
    OBVIOUS
  <2>5. next \in {"write", "count"}
    OBVIOUS
  <2>6. onRouter'[j] = s
    BY <1>2 DEF BackupsInv, BackupsTypes
  <2> HIDE DEF next
  <2> QED BY <1>1, <1>3, <2>1, <2>2, <2>3, <2>4, <2>5, <2>6 DEF ScriptUndisturbed
<1> QED BY <1>1, <1>2, <1>3, <1>4, <1>5, OwnStepOfBackup DEF Working, BackupsInv, BackupsTypes
\* The script ends before its time, or counts, opens or removes the archive.
LEMMA OtherOwnSteps ==
    ASSUME BackupsInv, NEW j \in Makers,
           ArchiveFails(j) \/ CountBytes(j) \/ OpenDump(j) \/ RemoveArchive(j) \/ ScriptDies(j)
    PROVE  BackupsInv'
<1>1. /\ onRouter[j] \in OnRouters /\ archive \in [Makers -> Dumps] /\ repeats \in BOOLEAN
      /\ path \in Makers \cup {NoPath} /\ onRouter \in [Makers -> OnRouters]
  BY DEF BackupsInv, BackupsTypes
<1>2. CASE ArchiveFails(j)
  <2> DEFINE s == [onRouter[j] EXCEPT !.at = "failed"]
  <2>1. /\ Working(j) /\ onRouter' = [onRouter EXCEPT ![j] = s] /\ path' \in {path, NoPath}
        /\ UNCHANGED <<repeats, routerConfig, archive, backup, disturbed>>
    BY <1>2 DEF ArchiveFails, AfterFailure, Working
  <2>2. s \in OnRouters /\ s.at = "failed"
    BY <1>1 DEF OnRouters
  <2> HIDE DEF s
  <2>3. onRouter'[j] = s
    BY <1>1, <2>1
  <2>4. ScriptUndisturbed(onRouter[j])'
    BY <2>2, <2>3 DEF ScriptUndisturbed
  <2> QED BY <1>1, <2>1, <2>2, <2>4, OwnStepOfBackup
<1>3. CASE CountBytes(j)
  <2> DEFINE n == IF path = NoPath THEN NoCount ELSE Len(archive[path])
             s == [onRouter[j] EXCEPT !.at = "open", !.count = n]
  <2>1. /\ Working(j) /\ onRouter[j].at = "count" /\ onRouter' = [onRouter EXCEPT ![j] = s]
        /\ UNCHANGED <<repeats, routerConfig, path, archive, backup, disturbed>>
    BY <1>3 DEF CountBytes, Working
  <2>2. n \in Int
    <3>1. CASE path = NoPath
      BY <3>1 DEF NoCount
    <3>2. CASE path # NoPath
      <4>1. archive[path] \in Seq(Nat \X Nat)
        BY <1>1, <3>2 DEF Dumps
      <4> QED BY <3>2, <4>1, LenProperties
    <3> QED BY <3>1, <3>2
  <2>3. path # NoPath => n = Len(archive[path])
    OBVIOUS
  <2> HIDE DEF n
  <2>4. /\ s \in OnRouters /\ s.at = "open" /\ s.count = n /\ s.dump = onRouter[j].dump
        /\ s.config = onRouter[j].config
    BY <1>1, <2>2 DEF OnRouters
  <2> HIDE DEF s
  <2>5. onRouter'[j] = s
    BY <1>1, <2>1
  <2>6. ASSUME j \notin disturbed PROVE ScriptUndisturbed(onRouter[j])'
    <3>1. /\ onRouter[j].dump = <<>> /\ onRouter[j].config \in Nat
          /\ path # NoPath => archive[path] = Lines(repeats, onRouter[j].config, LastBlock)
      BY <1>1, <2>1, <2>6 DEF BackupsInv, ScriptUndisturbed, OnRouters
    <3>2. Len(Lines(repeats, onRouter[j].config, LastBlock)) = LastBlock
      <4>1. LastBlock \in Nat /\ repeats \in BOOLEAN /\ onRouter[j].config \in Nat
        BY <1>1, <3>1, LastBlockIs
      <4>2. \A r \in BOOLEAN, c, m \in Nat : Len(Lines(r, c, m)) = m
        BY LinesAre
      <4> QED BY <4>1, <4>2
    <3> QED BY <2>1, <2>3, <2>4, <2>5, <3>1, <3>2 DEF ScriptUndisturbed
  <2> QED BY <1>1, <2>1, <2>4, <2>6, OwnStepOfBackup
<1>4. CASE OpenDump(j)
  <2> DEFINE next == IF path = NoPath THEN "failed" ELSE "dump"
             s == [onRouter[j] EXCEPT !.at = next, !.file = path, !.offset = 0]
  <2>1. /\ Working(j) /\ onRouter[j].at = "open" /\ onRouter' = [onRouter EXCEPT ![j] = s]
        /\ UNCHANGED <<repeats, routerConfig, path, archive, backup, disturbed>>
    BY <1>4 DEF OpenDump, Working
  <2>2. next \in {"failed", "dump"} /\ (next = "dump" => path # NoPath)
    OBVIOUS
  <2> HIDE DEF next
  <2>3. /\ s \in OnRouters /\ s.at = next /\ s.file = path /\ s.offset = 0
        /\ s.dump = onRouter[j].dump /\ s.config = onRouter[j].config
        /\ s.count = onRouter[j].count
    BY <1>1, <2>2 DEF OnRouters
  <2> HIDE DEF s
  <2>4. onRouter'[j] = s
    BY <1>1, <2>1
  <2>5. ASSUME j \notin disturbed PROVE ScriptUndisturbed(onRouter[j])'
    <3>1. /\ onRouter[j].dump = <<>> /\ onRouter[j].config \in Nat
          /\ path # NoPath => /\ archive[path] = Lines(repeats, onRouter[j].config, LastBlock)
                              /\ onRouter[j].count = LastBlock
      BY <1>1, <2>1, <2>5 DEF BackupsInv, ScriptUndisturbed, OnRouters
    <3>2. Dumped(repeats, onRouter[j].config, 0) = <<>>
      BY <1>1, <3>1, LastBlockIs, NoLines DEF Dumped
    <3>3. 0 <= LastBlock
      BY LastBlockIs
    <3> QED BY <2>1, <2>2, <2>3, <2>4, <3>1, <3>2, <3>3 DEF ScriptUndisturbed
  <2> QED BY <1>1, <2>1, <2>2, <2>3, <2>5, OwnStepOfBackup
<1>5. CASE RemoveArchive(j)
  <2> DEFINE s == [onRouter[j] EXCEPT !.at = "ended"]
  <2>1. /\ Working(j) /\ onRouter[j].at = "remove" /\ onRouter' = [onRouter EXCEPT ![j] = s]
        /\ path' = NoPath /\ UNCHANGED <<repeats, routerConfig, archive, backup, disturbed>>
    BY <1>5 DEF RemoveArchive, Working
  <2>2. /\ s \in OnRouters /\ s.at = "ended" /\ s.dump = onRouter[j].dump
        /\ s.config = onRouter[j].config /\ s.count = onRouter[j].count
    BY <1>1 DEF OnRouters
  <2> HIDE DEF s
  <2>3. onRouter'[j] = s
    BY <1>1, <2>1
  <2>4. j \notin disturbed => ScriptUndisturbed(onRouter[j])'
    BY <2>1, <2>2, <2>3 DEF ScriptUndisturbed, BackupsInv
  <2> QED BY <1>1, <2>1, <2>2, <2>4, OwnStepOfBackup
<1>6. CASE ScriptDies(j)
  <2> DEFINE s == [onRouter[j] EXCEPT !.at = "failed"]
  <2>1. /\ Working(j) /\ onRouter' = [onRouter EXCEPT ![j] = s]
        /\ UNCHANGED <<repeats, routerConfig, path, archive, backup, disturbed>>
    BY <1>6 DEF ScriptDies
  <2>2. s \in OnRouters /\ s.at = "failed"
    BY <1>1 DEF OnRouters
  <2> HIDE DEF s
  <2>3. onRouter'[j] = s
    BY <1>1, <2>1
  <2>4. ScriptUndisturbed(onRouter[j])'
    BY <2>2, <2>3 DEF ScriptUndisturbed
  <2> QED BY <1>1, <2>1, <2>2, <2>4, OwnStepOfBackup
<1> QED BY <1>2, <1>3, <1>4, <1>5, <1>6

LEMMA DumpKeepsBackups ==
    ASSUME BackupsInv, NEW j \in Makers, DumpBlock(j) PROVE BackupsInv'
<1> DEFINE i == onRouter[j].offset + 1
           blocks == archive[onRouter[j].file]
           same == i > 1 /\ blocks[i] = blocks[i - 1]
           dumped == IF same THEN onRouter[j].dump ELSE Append(onRouter[j].dump, blocks[i])
           s == [onRouter[j] EXCEPT !.offset = i, !.dump = dumped]
           t == [onRouter[j] EXCEPT !.at = "remove"]
<1>1. /\ onRouter[j] \in OnRouters /\ archive \in [Makers -> Dumps] /\ repeats \in BOOLEAN
      /\ onRouter \in [Makers -> OnRouters] /\ path \in Makers \cup {NoPath}
      /\ onRouter[j].at = "dump" /\ Working(j) /\ onRouter[j].file \in Makers
      /\ blocks \in Dumps /\ onRouter[j].offset \in Nat /\ i \in Nat /\ onRouter[j].config \in Nat
      /\ onRouter[j].dump \in Dumps
      /\ UNCHANGED <<repeats, routerConfig, path, archive, backup, disturbed>>
  BY DEF DumpBlock, BackupsInv, BackupsTypes, OnRouters, Working
<1>2. \/ i \in DOMAIN blocks /\ onRouter' = [onRouter EXCEPT ![j] = s]
      \/ i \notin DOMAIN blocks /\ onRouter' = [onRouter EXCEPT ![j] = t]
  BY DEF DumpBlock
<1>3. ASSUME j \notin disturbed
      PROVE  /\ blocks = Lines(repeats, onRouter[j].config, LastBlock)
             /\ onRouter[j].offset <= LastBlock
             /\ onRouter[j].dump = Dumped(repeats, onRouter[j].config, onRouter[j].offset)
             /\ onRouter[j].count = LastBlock
             /\ DOMAIN blocks = 1..LastBlock
  <2>1. /\ blocks = Lines(repeats, onRouter[j].config, LastBlock)
        /\ onRouter[j].offset <= LastBlock
        /\ onRouter[j].dump = Dumped(repeats, onRouter[j].config, onRouter[j].offset)
        /\ onRouter[j].count = LastBlock
    BY <1>1, <1>3 DEF BackupsInv, ScriptUndisturbed
  <2>2. LastBlock \in Nat
    BY LastBlockIs
  <2>3. DOMAIN Lines(repeats, onRouter[j].config, LastBlock) = 1..LastBlock
    BY DEF Lines
  <2> QED BY <2>1, <2>3
<1>4. CASE i \in DOMAIN blocks /\ onRouter' = [onRouter EXCEPT ![j] = s]
  <2>1. dumped \in Dumps
    <3>1. blocks[i] \in Nat \X Nat
      BY <1>1, <1>4 DEF Dumps
    <3>2. Append(onRouter[j].dump, blocks[i]) \in Dumps
      BY <1>1, <3>1, AppendProperties DEF Dumps
    <3> QED BY <1>1, <3>2
  <2>2. ASSUME j \notin disturbed
        PROVE  dumped = Dumped(repeats, onRouter[j].config, i) /\ i <= LastBlock
    <3>1. onRouter[j].offset < LastBlock /\ i <= LastBlock
      BY <1>1, <1>3, <1>4, <2>2, LastBlockIs
    <3>2. i - 1 = onRouter[j].offset
      BY <1>1
    <3> QED BY <1>1, <1>3, <2>2, <3>1, <3>2, DumpedNext
  <2> HIDE DEF dumped
  <2>3. /\ s \in OnRouters /\ s.at = "dump" /\ s.offset = i /\ s.dump = dumped
        /\ s.file = onRouter[j].file /\ s.config = onRouter[j].config /\ s.count = onRouter[j].count
    BY <1>1, <2>1 DEF OnRouters
  <2>4. onRouter'[j] = s
    BY <1>1, <1>4
  <2> HIDE DEF s
  <2>5. j \notin disturbed => ScriptUndisturbed(onRouter[j])'
    BY <1>1, <1>3, <2>2, <2>3, <2>4 DEF ScriptUndisturbed
  <2> QED BY <1>1, <1>4, <2>3, <2>5, OwnStepOfBackup
<1>5. CASE i \notin DOMAIN blocks /\ onRouter' = [onRouter EXCEPT ![j] = t]
  <2>1. j \notin disturbed => onRouter[j].offset = LastBlock
    BY <1>1, <1>3, <1>5, LastBlockIs
  <2>2. /\ t \in OnRouters /\ t.at = "remove" /\ t.dump = onRouter[j].dump
        /\ t.config = onRouter[j].config /\ t.count = onRouter[j].count
    BY <1>1 DEF OnRouters
  <2>3. onRouter'[j] = t
    BY <1>1, <1>5
  <2> HIDE DEF t
  <2>4. j \notin disturbed => ScriptUndisturbed(onRouter[j])'
    BY <1>1, <1>3, <2>1, <2>2, <2>3 DEF ScriptUndisturbed
  <2> QED BY <1>1, <1>5, <2>2, <2>4, OwnStepOfBackup
<1> QED BY <1>2, <1>4, <1>5

\* What becomes of the job leaves the router alone.
LEMMA JobsKeepBackups ==
    ASSUME BackupsInv,
           \/ \E j \in Makers : Finish(j) \/ GiveUp(j)
           \/ Reconfigure \/ UNCHANGED backupVars
    PROVE  BackupsInv'
<1>1. ASSUME UNCHANGED <<repeats, path, archive, onRouter, disturbed>>
      PROVE  \A j \in Makers \ disturbed' :
                /\ ScriptUndisturbed(onRouter[j])'
                /\ Working(j)' => \A k \in Makers : k # j => ~ Working(k)'
  BY <1>1 DEF BackupsInv, ScriptUndisturbed, Working
<1>2. ASSUME NEW j \in Makers, Finish(j) \/ GiveUp(j) PROVE BackupsInv'
  <2>1. UNCHANGED <<repeats, routerConfig, path, archive, onRouter, disturbed>>
    BY <1>2 DEF Finish, GiveUp
  <2>2. \/ /\ backup' = [backup EXCEPT ![j] = BackupOf(j)]
           /\ BackupOf(j).is \in {"succeeded", "failed"} /\ BackupOf(j).data = onRouter[j].dump
           /\ BackupOf(j) \in [is : {"pending", "succeeded", "failed"}, data : Dumps]
           /\ BackupOf(j).is = "succeeded" => onRouter[j].at = "ended" /\ onRouter[j].dump # <<>>
        \/ /\ backup' = [backup EXCEPT ![j] = [Pending EXCEPT !.is = "failed"]]
           /\ [Pending EXCEPT !.is = "failed"] \in [is : {"pending", "succeeded", "failed"}, data : Dumps]
           /\ [Pending EXCEPT !.is = "failed"].is = "failed"
    <3>1. CASE Finish(j)
      <4>1. onRouter[j].dump \in Dumps
        BY DEF BackupsInv, BackupsTypes, OnRouters
      <4> QED BY <3>1, <4>1 DEF Finish, BackupOf
    <3>2. CASE GiveUp(j)
      BY <3>2, UnstartedIs DEF GiveUp, Pending
    <3> QED BY <1>2, <3>1, <3>2
  <2>3. BackupsTypes'
    BY <2>1, <2>2 DEF BackupsInv, BackupsTypes
  <2>4. \A k \in Makers : backup'[k].is = "succeeded" =>
          onRouter[k].at = "ended" /\ onRouter[k].dump # <<>> /\ backup'[k].data = onRouter[k].dump
    BY <2>2 DEF BackupsInv, BackupsTypes
  <2> QED BY <1>1, <2>1, <2>3, <2>4 DEF BackupsInv
<1>3. CASE Reconfigure
  <2>1. /\ routerConfig' = routerConfig + 1
        /\ UNCHANGED <<repeats, path, archive, onRouter, backup, disturbed>>
    BY <1>3 DEF Reconfigure
  <2>2. BackupsTypes'
    BY <2>1 DEF BackupsInv, BackupsTypes
  <2> QED BY <1>1, <2>1, <2>2 DEF BackupsInv
<1>4. CASE UNCHANGED backupVars
  BY <1>1, <1>4 DEF backupVars, BackupsInv, BackupsTypes
<1> QED BY <1>2, <1>3, <1>4

LEMMA BackupsStep == BackupsInv /\ [BackupsNext]_backupVars => BackupsInv'
BY StartKeepsBackups, CreateKeepsBackups, WriteKeepsBackups, OtherOwnSteps, DumpKeepsBackups,
   JobsKeepBackups
   DEF BackupsNext

\* A backup whose script ran alone is the whole archive of the configuration the
\* router had when it began, but for a line that is like the one before, whatever
\* earlier attempts left at the path (_BACKUP_CMD, build_backup).
THEOREM AloneBackupsAreWhole == Spec => []BackupsAreWhole
<1>1. Init => BackupsInv
  BY PartSteps, BackupsInitInv
<1>2. BackupsInv /\ [Next]_vars => BackupsInv'
  BY PartSteps, BackupsStep
<1>3. BackupsInv => BackupsAreWhole
  <2> SUFFICES ASSUME BackupsInv, NEW j \in Makers, backup[j].is = "succeeded"
               PROVE  /\ backup[j].data # <<>>
                      /\ j \notin disturbed =>
                           /\ onRouter[j].count = LastBlock
                           /\ backup[j].data =
                                IF repeats THEN SubSeq(Archive(onRouter[j].config), 1, LastBlock - 1)
                                ELSE Archive(onRouter[j].config)
    BY DEF BackupsAreWhole
  <2>1. onRouter[j].at = "ended" /\ onRouter[j].dump # <<>> /\ backup[j].data = onRouter[j].dump
    BY DEF BackupsInv
  <2>2. onRouter[j].config \in Nat /\ repeats \in BOOLEAN
    BY DEF BackupsInv, BackupsTypes, OnRouters
  <2>3. /\ Archive(onRouter[j].config) = Lines(repeats, onRouter[j].config, LastBlock)
        /\ Dumped(repeats, onRouter[j].config, LastBlock) =
             Lines(repeats, onRouter[j].config, IF repeats THEN LastBlock - 1 ELSE LastBlock)
    BY BlocksAreLines DEF Dumped
  <2>4. SubSeq(Lines(repeats, onRouter[j].config, LastBlock), 1, LastBlock - 1)
          = Lines(repeats, onRouter[j].config, LastBlock - 1)
    BY <2>2, LinesCut
  <2>5. j \notin disturbed => /\ onRouter[j].count = LastBlock
                              /\ onRouter[j].dump = Dumped(repeats, onRouter[j].config, LastBlock)
    BY <2>1 DEF BackupsInv, ScriptUndisturbed
  <2> QED BY <2>1, <2>3, <2>4, <2>5
<1> QED BY <1>1, <1>2, <1>3, PTL DEF Spec

-----------------------------------------------------------------------------
(* The vault's key.                                                        *)

Stages == {"off", "seed", "admin", "readonly", "key", "check", "create", "write", "reread",
           "migrate", "providers", "up", "setup"}
BootProcess == [key : VaultKeys \cup {NoKey}, at : Stages]
Files == {NoFile, EmptyFile, TornFile} \cup {KeyFile(key) : key \in VaultKeys}
Credentials == {NoCredential, Plain} \cup {Encrypted(key) : key \in VaultKeys}

\* A process that makes a key, and one that has the key in effect.
Making == {"create", "write", "reread"}
Past == {"migrate", "providers", "up", "setup"}

ReadsRouter(key) == credential["router"].is = "encrypted" => credential["router"].key = key

\* A key that is configured is the only one there is.
ExplicitInv ==
    settings.vault = "explicit" =>
        /\ keyFile = NoFile
        /\ \A s \in Secrets : credential[s].is = "encrypted" => credential[s].key = Configured
        /\ \A p \in Processes : /\ process[p].at \notin {"check"} \cup Making
                                /\ process[p].at \in Past => process[p].key = Configured

\* Otherwise it is that of the file, which one process only writes.
FileInv ==
    /\ settings.vault # "explicit" =>
          \A p \in Processes : process[p].at \in Past => keyFile = KeyFile(process[p].key)
    /\ \A p \in Processes : process[p].at = "write" => keyFile = EmptyFile
    /\ \A p, q \in Processes : process[p].at = "write" /\ process[q].at = "write" => p = q
    /\ \A p \in Processes : process[p].at \in Past \cup Making => process[p].key \in VaultKeys

\* The router's credential can be read with the file's key, or when there is none
\* yet with the one that SECRET_KEY is about to give; no key is generated while it
\* is encrypted.
RouterInv ==
    /\ ~ replaced /\ keyFile.is = "whole" => ReadsRouter(keyFile.key)
    /\ settings.vault = "derived" =>
          /\ ~ replaced /\ keyFile.is # "whole" => ReadsRouter(Configured)
          /\ \A p \in Processes : /\ process[p].at # "check"
                                  /\ process[p].at \in Making => process[p].key = Configured
    /\ settings.vault = "generated" /\ keyFile.is # "whole" =>
          \A p \in Processes : process[p].at \in Making => credential["router"].is # "encrypted"

\* Who came up has read the providers' keys.
ProviderInv ==
    \A p \in Processes : process[p].at \in {"up", "setup"} => Readable(p, "provider")

KeysInv == ExplicitInv /\ FileInv /\ RouterInv /\ ProviderInv

\* Files and credentials are told apart by what they are.
LEMMA FilesAre ==
    /\ NoFile.is = "absent" /\ EmptyFile.is = "empty" /\ TornFile.is = "torn"
    /\ NoFile # EmptyFile
    /\ \A key : KeyFile(key).is = "whole" /\ KeyFile(key).key = key
    /\ NoCredential.is = "none" /\ Plain.is = "plain"
    /\ \A key : Encrypted(key).is = "encrypted" /\ Encrypted(key).key = key
    /\ \A f \in Files : f.is = "whole" => f.key \in VaultKeys /\ f = KeyFile(f.key)
    /\ \A c \in Credentials : /\ c.is = "encrypted" => c.key \in VaultKeys
                              /\ c = Plain \/ c.is # "plain"
BY DEF NoFile, EmptyFile, TornFile, KeyFile, NoCredential, Plain, Encrypted, Files, Credentials

LEMMA GoesTo ==
  ASSUME NEW p \in Processes, NEW at \in Stages, NEW key \in VaultKeys \cup {NoKey},
         process \in [Processes -> BootProcess], Goes(p, at, key)
  PROVE  /\ process' \in [Processes -> BootProcess]
         /\ process'[p].at = at /\ process'[p].key = key
         /\ \A q \in Processes : q # p => process'[q] = process[q]
<1>1. At(at, key) \in BootProcess /\ At(at, key).at = at /\ At(at, key).key = key
  BY DEF At, BootProcess
<1>2. process' = [process EXCEPT ![p] = At(at, key)]
  BY DEF Goes
<1> QED BY <1>1, <1>2

LEMMA OffIs == Off = At("off", NoKey) /\ Off.at = "off"
BY DEF Off, At

LEMMA BootInitInv == BootInit => BootTypeOK /\ KeysInv
<1> SUFFICES ASSUME BootInit PROVE BootTypeOK /\ KeysInv
  OBVIOUS
<1>1. /\ settings \in Settings /\ users = {} /\ process = [p \in Processes |-> Off]
      /\ died = FALSE /\ replaced = FALSE
  BY DEF BootInit
<1>2. process \in [Processes -> BootProcess] /\ \A p \in Processes : process[p].at = "off"
  BY <1>1 DEF BootProcess, Stages, Off
<1>3. \A router \in Credentials : OfRouter(router) \in [Secrets -> Credentials]
        /\ OfRouter(router)["router"] = router /\ OfRouter(router)["provider"] = NoCredential
  BY DEF OfRouter, Secrets, Credentials
<1>4. /\ keyFile \in Files /\ credential \in [Secrets -> Credentials]
      /\ credential["provider"] = NoCredential
      /\ \/ keyFile = NoFile /\ credential["router"].is # "encrypted"
         \/ \E key \in VaultKeys :
              /\ keyFile = IF settings.vault = "explicit" THEN NoFile ELSE KeyFile(key)
              /\ settings.vault = "explicit" => key = Configured
              /\ credential["router"] = Encrypted(key)
  <2>1. CASE keyFile = NoFile /\ \E router \in {NoCredential, Plain} : credential = OfRouter(router)
    <3>1. NoCredential \in Credentials /\ Plain \in Credentials /\ NoFile \in Files
      BY DEF Credentials, Files
    <3> QED BY <2>1, <3>1, <1>3, FilesAre
  <2>2. CASE \E key \in (IF settings.vault = "generated" THEN {} ELSE {Configured})
                        \cup (IF settings.vault = "explicit" THEN {} ELSE Keys) :
               /\ keyFile = IF settings.vault = "explicit" THEN NoFile ELSE KeyFile(key)
               /\ credential = OfRouter(Encrypted(key))
    <3>1. PICK key \in (IF settings.vault = "generated" THEN {} ELSE {Configured})
                        \cup (IF settings.vault = "explicit" THEN {} ELSE Keys) :
               /\ keyFile = IF settings.vault = "explicit" THEN NoFile ELSE KeyFile(key)
               /\ credential = OfRouter(Encrypted(key))
      BY <2>2
    <3>2. key \in VaultKeys /\ (settings.vault = "explicit" => key = Configured)
      BY <3>1 DEF VaultKeys
    <3>3. Encrypted(key) \in Credentials /\ KeyFile(key) \in Files /\ NoFile \in Files
      BY <3>2 DEF Credentials, Files
    <3> QED BY <3>1, <3>2, <3>3, <1>3
  <2> QED BY <2>1, <2>2 DEF BootInit
<1>5. BootTypeOK
  BY <1>1, <1>2, <1>4 DEF BootTypeOK, Files, Credentials, BootProcess, Stages
<1>6. \A s \in Secrets : credential[s].is = "encrypted" => s = "router"
  BY <1>4, FilesAre DEF Secrets
<1>7. ExplicitInv
  BY <1>2, <1>4, <1>6, FilesAre DEF ExplicitInv, Past, Making
<1>8. FileInv /\ ProviderInv
  BY <1>2 DEF FileInv, ProviderInv, Past, Making
<1>9. RouterInv
  BY <1>2, <1>4, FilesAre DEF RouterInv, ReadsRouter, Past, Making, Settings
<1> QED BY <1>5, <1>7, <1>8, <1>9 DEF KeysInv

\* A process that moves on, or ends, keeps all this if its new place does.
LEMMA MoveKeepsKeys ==
  ASSUME BootTypeOK, KeysInv, NEW p \in Processes, NEW at \in Stages,
         NEW key \in VaultKeys \cup {NoKey}, Goes(p, at, key),
         UNCHANGED <<settings, keyFile, credential, replaced>>,
         settings.vault = "explicit" =>
             at \notin {"check"} \cup Making /\ (at \in Past => key = Configured),
         settings.vault # "explicit" /\ at \in Past => keyFile = KeyFile(key),
         at # "write",
         at \in Past \cup Making => key \in VaultKeys,
         settings.vault = "derived" => at # "check" /\ (at \in Making => key = Configured),
         settings.vault = "generated" /\ keyFile.is # "whole" /\ at \in Making =>
             credential["router"].is # "encrypted",
         at \in {"up", "setup"} =>
             (credential["provider"].is = "encrypted" => credential["provider"].key = key)
  PROVE  KeysInv'
<1>1. /\ process' \in [Processes -> BootProcess]
      /\ process'[p].at = at /\ process'[p].key = key
      /\ \A q \in Processes : q # p => process'[q] = process[q]
  BY GoesTo DEF BootTypeOK, BootProcess, Stages
<1>2. ExplicitInv'
  BY <1>1 DEF KeysInv, ExplicitInv
<1>3. FileInv'
  BY <1>1 DEF KeysInv, FileInv
<1>4. RouterInv'
  BY <1>1 DEF KeysInv, RouterInv, ReadsRouter
<1>5. ProviderInv'
  BY <1>1 DEF KeysInv, ProviderInv, Readable
<1> QED BY <1>2, <1>3, <1>4, <1>5 DEF KeysInv

\* To where no key is in hand.
LEMMA MoveWithoutKey ==
  ASSUME BootTypeOK, KeysInv, NEW p \in Processes, NEW at \in Stages \ (Past \cup Making \cup {"check"}),
         NEW key \in VaultKeys \cup {NoKey}, Goes(p, at, key),
         UNCHANGED <<settings, keyFile, credential, replaced>>
  PROVE  KeysInv'
<1>1. at \in Stages /\ at \notin Past /\ at \notin Making /\ at # "write" /\ at \notin {"up", "setup"}
      /\ at \notin {"check"} \cup Making
  BY DEF Past, Making
<1> QED BY <1>1, MoveKeepsKeys, Zenon

LEMMA AccountsKeepKeys ==
  ASSUME BootTypeOK, KeysInv, NEW p \in Processes,
         Boot(p) \/ CheckUsers(p) \/ SeedAdmin(p) \/ SeedReadonly(p) \/ AskSetup(p) \/ InsertAdmin(p)
  PROVE  KeysInv'
<1>1. process[p] \in BootProcess /\ NoKey \in VaultKeys \cup {NoKey}
  BY DEF BootTypeOK, BootProcess, Stages
<1>2. process[p].key \in VaultKeys \cup {NoKey}
  BY <1>1 DEF BootProcess
<1>3. CASE \E at \in {"seed", "admin", "readonly", "key"} :
             Goes(p, at, NoKey) /\ UNCHANGED <<settings, keyFile, credential, replaced>>
  <2>1. PICK at \in {"seed", "admin", "readonly", "key"} :
             Goes(p, at, NoKey) /\ UNCHANGED <<settings, keyFile, credential, replaced>>
    BY <1>3
  <2>2. at \in Stages \ (Past \cup Making \cup {"check"})
    BY DEF Stages, Past, Making
  <2> QED BY <1>1, <2>1, <2>2, MoveWithoutKey, Zenon
<1>4. ASSUME NEW at \in {"up", "setup"}, process[p].at \in {"up", "setup"},
             Goes(p, at, process[p].key), UNCHANGED <<settings, keyFile, credential, replaced>>
      PROVE  KeysInv'
  <2>1. /\ at \in Stages /\ at \in Past /\ at \notin Making /\ at \notin {"check"} \cup Making
        /\ at # "write" /\ process[p].at \in Past
    BY <1>4 DEF Stages, Past, Making
  <2>2. settings.vault = "explicit" => process[p].key = Configured
    BY <2>1 DEF KeysInv, ExplicitInv
  <2>3. /\ settings.vault # "explicit" => keyFile = KeyFile(process[p].key)
        /\ process[p].key \in VaultKeys
    BY <2>1 DEF KeysInv, FileInv
  <2>4. credential["provider"].is = "encrypted" => credential["provider"].key = process[p].key
    BY <1>4 DEF KeysInv, ProviderInv, Readable
  <2> QED BY <1>2, <1>4, <2>1, <2>2, <2>3, <2>4, MoveKeepsKeys, Zenon
<1>5. CASE Boot(p) \/ CheckUsers(p) \/ SeedAdmin(p) \/ SeedReadonly(p)
  BY <1>3, <1>5 DEF Boot, CheckUsers, SeedAdmin, SeedReadonly
<1>6. CASE AskSetup(p) \/ InsertAdmin(p)
  BY <1>4, <1>6 DEF AskSetup, InsertAdmin
<1> QED BY <1>5, <1>6

LEMMA ReadKeyKeepsKeys ==
  ASSUME BootTypeOK, KeysInv, NEW p \in Processes, ReadKey(p)
  PROVE  KeysInv'
<1>1. /\ UNCHANGED <<settings, keyFile, credential, replaced>>
      /\ NoKey \in VaultKeys \cup {NoKey} /\ Configured \in VaultKeys
      /\ settings.vault \in {"explicit", "derived", "generated"}
      /\ "off" \in Stages \ (Past \cup Making \cup {"check"})
      /\ "migrate" \in Stages /\ "create" \in Stages /\ "check" \in Stages
  BY DEF ReadKey, VaultKeys, BootTypeOK, Settings, Stages, Past, Making
<1>2. CASE settings.vault = "explicit"
  <2>1. Goes(p, "migrate", Configured) /\ keyFile = NoFile
    BY <1>2 DEF ReadKey, KeysInv, ExplicitInv
  <2> QED BY <1>1, <1>2, <2>1, MoveKeepsKeys DEF Past, Making
<1>3. CASE settings.vault # "explicit" /\ keyFile.is = "whole"
  <2>1. Goes(p, "migrate", keyFile.key)
    BY <1>3 DEF ReadKey
  <2>2. keyFile \in Files
    BY DEF BootTypeOK, Files
  <2>3. keyFile.key \in VaultKeys /\ keyFile = KeyFile(keyFile.key)
    BY <1>3, <2>2, FilesAre
  <2> QED BY <1>1, <1>3, <2>1, <2>3, MoveKeepsKeys DEF Past, Making
<1>4. CASE settings.vault # "explicit" /\ keyFile.is = "torn"
  <2>1. Goes(p, "off", NoKey)
    BY <1>4, OffIs DEF ReadKey, Goes
  <2> QED BY <1>1, <2>1, MoveWithoutKey
<1>5. CASE settings.vault = "derived" /\ keyFile.is \notin {"whole", "torn"}
  <2>1. Goes(p, "create", Configured)
    BY <1>5 DEF ReadKey
  <2> QED BY <1>1, <1>5, <2>1, MoveKeepsKeys DEF Past, Making
<1>6. CASE settings.vault = "generated" /\ keyFile.is \notin {"whole", "torn"}
  <2>1. Goes(p, "check", NoKey)
    BY <1>6 DEF ReadKey
  <2> QED BY <1>1, <1>6, <2>1, MoveKeepsKeys DEF Past, Making
<1> QED BY <1>1, <1>2, <1>3, <1>4, <1>5, <1>6

LEMMA GenerateKeepsKeys ==
  ASSUME BootTypeOK, KeysInv, NEW p \in Processes, Generate(p)
  PROVE  KeysInv'
<1>1. /\ process[p].at = "check" /\ settings.vault = "generated"
      /\ UNCHANGED <<settings, keyFile, credential, replaced>>
      /\ NoKey \in VaultKeys \cup {NoKey}
  BY DEF Generate, KeysInv, ExplicitInv, RouterInv, BootTypeOK, Settings
<1>2. CASE Locked
  <2>1. Goes(p, "off", NoKey) /\ "off" \in Stages \ (Past \cup Making \cup {"check"})
    BY <1>2, OffIs DEF Generate, Goes, Stages, Past, Making
  <2> QED BY <1>1, <2>1, MoveWithoutKey
<1>3. CASE ~ Locked
  <2>1. PICK key \in Keys \ InUse : Goes(p, "create", key)
    BY <1>3 DEF Generate
  <2> QED BY <1>1, <1>3, <2>1, MoveKeepsKeys DEF Locked, VaultKeys, Stages, Past, Making
<1> QED BY <1>2, <1>3

\* Who creates the file is the only one to write it, as it was not there.
LEMMA CreateKeepsKeys ==
  ASSUME BootTypeOK, KeysInv, NEW p \in Processes, CreateFile(p)
  PROVE  KeysInv'
<1>1. /\ process[p].at = "create" /\ settings.vault # "explicit"
      /\ UNCHANGED <<settings, credential, replaced>>
      /\ process[p].key \in VaultKeys
      /\ settings.vault = "derived" => process[p].key = Configured
  BY DEF CreateFile, KeysInv, ExplicitInv, FileInv, RouterInv, Making
<1>2. CASE keyFile = NoFile
  <2>1. keyFile' = EmptyFile /\ Goes(p, "write", process[p].key)
    BY <1>2 DEF CreateFile
  <2>2. /\ process' \in [Processes -> BootProcess]
        /\ process'[p].at = "write" /\ process'[p].key = process[p].key
        /\ \A q \in Processes : q # p => process'[q] = process[q]
    BY <1>1, <2>1, GoesTo DEF BootTypeOK, BootProcess, Stages
  <2>3. \A q \in Processes : process[q].at \notin Past /\ process[q].at # "write"
    BY <1>1, <1>2, FilesAre DEF KeysInv, FileInv
  <2>4. ExplicitInv'
    BY <1>1 DEF ExplicitInv
  <2>5. FileInv'
    BY <1>1, <2>1, <2>2, <2>3 DEF KeysInv, FileInv, Past, Making
  <2>6. RouterInv'
    BY <1>1, <1>2, <2>1, <2>2, FilesAre DEF KeysInv, RouterInv, ReadsRouter, Making
  <2>7. ProviderInv'
    BY <1>1, <2>2, <2>3 DEF ProviderInv, Past
  <2> QED BY <2>4, <2>5, <2>6, <2>7 DEF KeysInv
<1>3. CASE keyFile # NoFile
  <2>1. keyFile' = keyFile /\ Goes(p, "reread", process[p].key)
    BY <1>3 DEF CreateFile
  <2>2. settings.vault = "generated" /\ keyFile.is # "whole" => credential["router"].is # "encrypted"
    BY <1>1 DEF KeysInv, RouterInv, Making
  <2> QED BY <1>1, <2>1, <2>2, MoveKeepsKeys DEF Stages, Past, Making
<1> QED BY <1>2, <1>3

\* While the file is being written nobody has a key of it.
LEMMA WriteKeepsKeys ==
  ASSUME BootTypeOK, KeysInv, NEW p \in Processes, WriteFile(p)
  PROVE  KeysInv'
<1>1. /\ process[p].at = "write" /\ settings.vault # "explicit" /\ keyFile = EmptyFile
      /\ UNCHANGED <<settings, credential, replaced>>
      /\ process[p].key \in VaultKeys
      /\ settings.vault = "derived" => process[p].key = Configured
      /\ settings.vault = "generated" => credential["router"].is # "encrypted"
      /\ settings.vault \in {"derived", "generated"}
  BY FilesAre DEF WriteFile, KeysInv, ExplicitInv, FileInv, RouterInv, Making, BootTypeOK, Settings
<1>2. keyFile' = KeyFile(process[p].key) /\ Goes(p, "migrate", process[p].key)
  BY DEF WriteFile
<1>3. /\ process' \in [Processes -> BootProcess]
      /\ process'[p].at = "migrate" /\ process'[p].key = process[p].key
      /\ \A q \in Processes : q # p => process'[q] = process[q]
  BY <1>1, <1>2, GoesTo DEF BootTypeOK, BootProcess, Stages
<1>4. \A q \in Processes : process[q].at \notin Past /\ (process[q].at = "write" => q = p)
  BY <1>1, FilesAre DEF KeysInv, FileInv
<1>5. ExplicitInv'
  BY <1>1 DEF ExplicitInv
<1>6. FileInv'
  BY <1>1, <1>2, <1>3, <1>4 DEF KeysInv, FileInv, Past, Making
<1>7. RouterInv'
  BY <1>1, <1>2, <1>3, FilesAre DEF KeysInv, RouterInv, ReadsRouter, Making
<1>8. ProviderInv'
  BY <1>1, <1>3, <1>4 DEF ProviderInv, Past
<1> QED BY <1>5, <1>6, <1>7, <1>8 DEF KeysInv

LEMMA RereadKeepsKeys ==
  ASSUME BootTypeOK, KeysInv, NEW p \in Processes, Reread(p)
  PROVE  KeysInv'
<1>1. /\ process[p].at = "reread" /\ settings.vault # "explicit"
      /\ UNCHANGED <<settings, keyFile, credential, replaced>>
      /\ NoKey \in VaultKeys \cup {NoKey}
  BY DEF Reread, KeysInv, ExplicitInv, Making
<1>2. CASE NoKeyYet
  <2>1. Goes(p, "off", NoKey) /\ "off" \in Stages \ (Past \cup Making \cup {"check"})
    BY <1>2, OffIs DEF Reread, Goes, Stages, Past, Making
  <2> QED BY <1>1, <2>1, MoveWithoutKey
<1>3. CASE ~ NoKeyYet
  <2>1. Goes(p, "migrate", keyFile.key) /\ keyFile.is = "whole" /\ keyFile \in Files
    BY <1>3 DEF Reread, NoKeyYet, InEffect, BootTypeOK, Files
  <2>2. keyFile.key \in VaultKeys /\ keyFile = KeyFile(keyFile.key)
    BY <2>1, FilesAre
  <2> QED BY <1>1, <2>1, <2>2, MoveKeepsKeys DEF Stages, Past, Making
<1> QED BY <1>2, <1>3

LEMMA LoadKeepsKeys ==
  ASSUME BootTypeOK, KeysInv, NEW p \in Processes, LoadProviders(p)
  PROVE  KeysInv'
<1>1. /\ process[p].at = "providers"
      /\ UNCHANGED <<settings, keyFile, credential, replaced>>
      /\ NoKey \in VaultKeys \cup {NoKey}
  BY DEF LoadProviders
<1>2. CASE ~ Readable(p, "provider")
  <2>1. Goes(p, "off", NoKey) /\ "off" \in Stages \ (Past \cup Making \cup {"check"})
    BY <1>2, OffIs DEF LoadProviders, Goes, Stages, Past, Making
  <2> QED BY <1>1, <2>1, MoveWithoutKey
<1>3. CASE Readable(p, "provider")
  <2>1. Goes(p, "up", process[p].key)
    BY <1>3 DEF LoadProviders
  <2>2. /\ settings.vault = "explicit" => process[p].key = Configured
        /\ settings.vault # "explicit" => keyFile = KeyFile(process[p].key)
        /\ process[p].key \in VaultKeys
    BY <1>1 DEF KeysInv, ExplicitInv, FileInv, Past
  <2> QED BY <1>1, <1>3, <2>1, <2>2, MoveKeepsKeys DEF Stages, Past, Making, Readable
<1> QED BY <1>2, <1>3

\* What a process encrypts, those that serve can read: they have the same key.
LEMMA EncryptKeepsKeys ==
  ASSUME BootTypeOK, KeysInv, NEW p \in Processes, process[p].at \in Past,
         NEW s \in Secrets, NEW new \in Credentials,
         new.is = "encrypted" => new.key = process[p].key,
         credential' = [credential EXCEPT ![s] = new],
         UNCHANGED <<settings, keyFile, replaced>>,
         process' \in [Processes -> BootProcess],
         \A q \in Processes : /\ process'[q].key = process[q].key
                              /\ \/ process'[q].at = process[q].at
                                 \/ process[q].at = "migrate" /\ process'[q].at = "providers"
  PROVE  KeysInv'
<1>1. /\ credential'[s] = new
      /\ \A r \in Secrets : r # s => credential'[r] = credential[r]
      /\ "router" \in Secrets /\ "provider" \in Secrets
  BY DEF BootTypeOK, Secrets
<1>2. ExplicitInv'
  BY <1>1 DEF KeysInv, ExplicitInv, Past, Making
<1>3. FileInv'
  BY DEF KeysInv, FileInv, Past, Making
<1>4. CASE settings.vault = "explicit"
  <2>1. RouterInv'
    BY <1>4, FilesAre DEF KeysInv, ExplicitInv, RouterInv
  <2>2. ProviderInv'
    BY <1>1, <1>2, <1>4 DEF ProviderInv, ExplicitInv, Readable, Past
  <2> QED BY <1>2, <1>3, <2>1, <2>2 DEF KeysInv
<1>5. CASE settings.vault # "explicit"
  <2>1. keyFile = KeyFile(process[p].key)
    BY <1>5 DEF KeysInv, FileInv
  <2>2. \A q \in Processes : process[q].at \in Past => process[q].key = process[p].key
    BY <1>5, <2>1, FilesAre DEF KeysInv, FileInv
  <2>3. RouterInv'
    BY <1>1, <2>1, FilesAre DEF KeysInv, RouterInv, ReadsRouter, Making
  <2>4. ProviderInv'
    BY <1>1, <2>2 DEF KeysInv, ProviderInv, Readable, Past
  <2> QED BY <1>2, <1>3, <2>3, <2>4 DEF KeysInv
<1> QED BY <1>4, <1>5

LEMMA MigrateKeepsKeys ==
  ASSUME BootTypeOK, KeysInv, NEW p \in Processes, Migrate(p)
  PROVE  KeysInv'
<1>1. /\ process[p].at = "migrate" /\ process[p].at \in Past
      /\ UNCHANGED <<settings, keyFile, replaced>>
      /\ Goes(p, "providers", process[p].key)
      /\ "router" \in Secrets /\ "providers" \in Stages
  BY DEF Migrate, Past, Secrets, Stages
<1>2. process[p].key \in VaultKeys
  BY <1>1 DEF KeysInv, FileInv
<1>3. /\ process' \in [Processes -> BootProcess]
      /\ process'[p].at = "providers" /\ process'[p].key = process[p].key
      /\ \A q \in Processes : q # p => process'[q] = process[q]
  BY <1>1, <1>2, GoesTo DEF BootTypeOK, BootProcess, Stages
<1>4. \A q \in Processes : /\ process'[q].key = process[q].key
                           /\ \/ process'[q].at = process[q].at
                              \/ process[q].at = "migrate" /\ process'[q].at = "providers"
  BY <1>1, <1>3
<1>5. credential["router"] \in Credentials /\ credential \in [Secrets -> Credentials]
  BY <1>1 DEF BootTypeOK, Credentials
<1>6. CASE credential["router"] = Plain
  <2>1. credential' = [credential EXCEPT !["router"] = Encrypted(process[p].key)]
    BY <1>6 DEF Migrate
  <2>2. Encrypted(process[p].key) \in Credentials /\ Encrypted(process[p].key).key = process[p].key
    BY <1>2, FilesAre DEF Credentials
  <2> QED BY <1>1, <1>3, <1>4, <2>1, <2>2, EncryptKeepsKeys, Zenon
<1>7. CASE credential["router"] # Plain
  <2>1. credential' = credential
    BY <1>5, <1>7 DEF Migrate
  <2>2. ExplicitInv' /\ FileInv'
    BY <1>1, <1>4, <2>1 DEF KeysInv, ExplicitInv, FileInv, Past, Making
  <2>3. RouterInv' /\ ProviderInv'
    BY <1>1, <1>4, <2>1 DEF KeysInv, RouterInv, ReadsRouter, ProviderInv, Readable, Past, Making
  <2> QED BY <2>2, <2>3 DEF KeysInv
<1> QED BY <1>6, <1>7

LEMMA SaveKeepsKeys ==
  ASSUME BootTypeOK, KeysInv, NEW p \in Processes, NEW s \in Secrets, SaveCredential(p, s)
  PROVE  KeysInv'
<1>1. /\ process[p].at \in Past
      /\ UNCHANGED <<settings, keyFile, replaced, process>>
      /\ process \in [Processes -> BootProcess]
  BY DEF SaveCredential, Past, BootTypeOK, BootProcess, Stages
<1>2. process[p].key \in VaultKeys
  BY <1>1 DEF KeysInv, FileInv
<1>3. PICK new \in {Encrypted(process[p].key), NoCredential} :
             credential' = [credential EXCEPT ![s] = new]
  BY DEF SaveCredential
<1>4. new \in Credentials /\ (new.is = "encrypted" => new.key = process[p].key)
  BY <1>2, <1>3, FilesAre DEF Credentials
<1>5. process' \in [Processes -> BootProcess] /\ \A q \in Processes : process'[q] = process[q]
  BY <1>1
<1> QED BY <1>1, <1>3, <1>4, <1>5, EncryptKeepsKeys

\* A process that dies while it writes leaves a file that holds no key.
LEMMA DieKeepsKeys ==
  ASSUME BootTypeOK, KeysInv, NEW p \in Processes, Die(p)
  PROVE  KeysInv'
<1>1. /\ Goes(p, "off", NoKey) /\ UNCHANGED <<settings, credential, replaced>>
      /\ \/ keyFile' = keyFile
         \/ process[p].at = "write" /\ keyFile' = TornFile
      /\ "off" \in Stages \ (Past \cup Making \cup {"check"}) /\ NoKey \in VaultKeys \cup {NoKey}
  BY OffIs DEF Die, Goes, Stages, Past, Making
<1>2. CASE keyFile' = keyFile
  BY <1>1, <1>2, MoveWithoutKey
<1>3. CASE process[p].at = "write" /\ keyFile' = TornFile
  <2>1. /\ keyFile = EmptyFile /\ settings.vault # "explicit"
        /\ \A q \in Processes : process[q].at = "write" => q = p
    BY <1>3 DEF KeysInv, ExplicitInv, FileInv, Making
  <2>2. \A q \in Processes : process[q].at \notin Past
    BY <2>1, FilesAre DEF KeysInv, FileInv
  <2>3. /\ process' \in [Processes -> BootProcess] /\ process'[p].at = "off"
        /\ \A q \in Processes : q # p => process'[q] = process[q]
    BY <1>1, GoesTo DEF BootTypeOK, BootProcess, Stages
  <2>4. ExplicitInv'
    BY <1>1, <2>1 DEF ExplicitInv
  <2>5. FileInv'
    BY <1>1, <2>1, <2>2, <2>3 DEF KeysInv, FileInv, Past, Making
  <2>6. RouterInv'
    BY <1>1, <1>3, <2>1, <2>3, FilesAre DEF KeysInv, RouterInv, ReadsRouter, Making
  <2>7. ProviderInv'
    BY <1>1, <2>2, <2>3 DEF ProviderInv, Past
  <2> QED BY <2>4, <2>5, <2>6, <2>7 DEF KeysInv
<1> QED BY <1>1, <1>2, <1>3

\* A lost file takes its key along: with SECRET_KEY set, it was the same key,
\* or the credential cannot be read any more (replaced).
LEMMA LoseKeepsKeys ==
  ASSUME BootTypeOK, KeysInv, LoseFile
  PROVE  KeysInv'
<1>1. /\ UNCHANGED <<settings, credential, process>> /\ keyFile # NoFile /\ keyFile' = NoFile
      /\ \A p \in Processes : process[p].at = "off"
      /\ replaced' = (replaced \/ (settings.vault = "derived" /\ keyFile.key \in Keys))
      /\ keyFile \in Files
  BY OffIs DEF LoseFile, BootTypeOK, Files
<1>2. ExplicitInv'
  BY <1>1 DEF KeysInv, ExplicitInv
<1>3. FileInv' /\ ProviderInv'
  BY <1>1 DEF FileInv, ProviderInv, Past, Making
<1>4. settings.vault = "derived" /\ ~ replaced' => ReadsRouter(Configured)
  BY <1>1, FilesAre DEF KeysInv, RouterInv, VaultKeys
<1>5. RouterInv'
  BY <1>1, <1>4, FilesAre DEF RouterInv, ReadsRouter, Making
<1> QED BY <1>2, <1>3, <1>5 DEF KeysInv

-----------------------------------------------------------------------------
(* The first accounts.                                                     *)

EnvAdmin == User("admin", "environment")
EnvReadonly == User("readonly", "environment")
Rows == [role : {"admin", "readonly"}, by : By]

\* Someone is between the two accounts of the environment.
Between == \E p \in Processes : process[p].at = "readonly"

\* The readonly account comes after the administrator of the environment, and
\* where the environment has one, the setup page never inserts another.
AccountsInv ==
    /\ \A u, v \in users : u.role = "admin" /\ v.role = "admin" => u = v
    /\ \A u \in users : u.role = "readonly" => u = EnvReadonly
    /\ EnvReadonly \in users \/ Between => EnvAdmin \in users
    /\ settings.admin =>
          /\ \A u \in users : u.role = "admin" => u = EnvAdmin
          /\ \A p \in Processes : /\ process[p].at \notin {"off", "seed", "admin"} => HasAdmin
                                  /\ process[p].at # "setup"
    /\ settings.admin /\ settings.readonly /\ ~ died /\ EnvAdmin \in users =>
          EnvReadonly \in users \/ Between

LEMMA RowsAre ==
    /\ \A by : User("admin", by).role = "admin" /\ User("readonly", by).role = "readonly"
    /\ \A by \in By : {User("admin", by), User("readonly", by)} \subseteq Rows
    /\ "environment" \in By /\ Processes \subseteq By
    /\ EnvAdmin # EnvReadonly
BY DEF User, EnvAdmin, EnvReadonly, Rows, By

\* Who is there is one administrator at least.
LEMMA SomeoneIsAdmin ==
  ASSUME BootTypeOK, AccountsInv, users # {}
  PROVE  HasAdmin
<1>1. PICK u \in users : u \in Rows
  BY DEF BootTypeOK, Rows
<1>2. CASE u.role = "admin"
  BY <1>2 DEF HasAdmin
<1>3. CASE u.role # "admin"
  <2>1. u.role = "readonly"
    BY <1>1, <1>3 DEF Rows
  <2>2. EnvAdmin \in users
    BY <2>1 DEF AccountsInv
  <2> QED BY <2>2, RowsAre DEF HasAdmin, EnvAdmin
<1> QED BY <1>2, <1>3

LEMMA BootTypes ==
  ASSUME BootTypeOK, KeysInv, [BootNext]_bootVars
  PROVE  BootTypeOK'
<1> DEFINE Ks == VaultKeys \cup {NoKey}
<1>1. /\ settings \in Settings /\ users \subseteq Rows /\ keyFile \in Files
      /\ credential \in [Secrets -> Credentials] /\ process \in [Processes -> BootProcess]
      /\ died \in BOOLEAN /\ replaced \in BOOLEAN
  BY DEF BootTypeOK, Rows, Files, Credentials, BootProcess, Stages
<1> SUFFICES /\ settings' \in Settings /\ users' \subseteq Rows /\ keyFile' \in Files
             /\ credential' \in [Secrets -> Credentials] /\ process' \in [Processes -> BootProcess]
             /\ died' \in BOOLEAN /\ replaced' \in BOOLEAN
  BY DEF BootTypeOK, Rows, Files, Credentials, BootProcess, Stages
<1>2. /\ \A p \in Processes : process[p].key \in Ks
      /\ NoKey \in Ks /\ Configured \in Ks /\ keyFile.key \in Ks
      /\ \A key \in Keys : key \in Ks
  BY <1>1, FilesAre DEF VaultKeys, BootProcess, Files, NoFile, EmptyFile, TornFile
<1>3. ASSUME NEW p \in Processes, NEW at \in Stages, NEW key \in Ks, Goes(p, at, key)
      PROVE  process' \in [Processes -> BootProcess]
  BY <1>1, <1>3, GoesTo
<1>4. /\ {NoFile, EmptyFile, TornFile} \subseteq Files
      /\ \A key \in VaultKeys : KeyFile(key) \in Files /\ Encrypted(key) \in Credentials
      /\ NoCredential \in Credentials
  BY DEF Files, Credentials
<1>5. /\ {"off", "seed", "admin", "readonly", "key", "check", "create"} \subseteq Stages
      /\ {"write", "reread", "migrate", "providers", "up", "setup"} \subseteq Stages
  BY DEF Stages
<1>6. \A p \in Processes : process[p].at \in {"write", "migrate", "up"} => process[p].key \in VaultKeys
  BY DEF KeysInv, FileInv, Past, Making
<1> HIDE DEF Ks
<1>7. ASSUME NEW p \in Processes,
             Boot(p) \/ CheckUsers(p) \/ SeedAdmin(p) \/ SeedReadonly(p) \/ AskSetup(p) \/ InsertAdmin(p)
      PROVE  /\ UNCHANGED <<settings, keyFile, credential, died, replaced>>
             /\ users' \subseteq Rows /\ process' \in [Processes -> BootProcess]
  <2>1. UNCHANGED <<settings, keyFile, credential, died, replaced>> /\ users' \subseteq Rows
    BY <1>1, <1>7, RowsAre DEF Boot, CheckUsers, SeedAdmin, SeedReadonly, AskSetup, InsertAdmin
  <2>2. \E at \in Stages, key \in Ks : Goes(p, at, key)
    BY <1>2, <1>5, <1>7 DEF Boot, CheckUsers, SeedAdmin, SeedReadonly, AskSetup, InsertAdmin
  <2> QED BY <1>3, <2>1, <2>2
<1>8. ASSUME NEW p \in Processes, ReadKey(p) \/ Generate(p) \/ Reread(p) \/ LoadProviders(p)
      PROVE  /\ UNCHANGED <<settings, users, keyFile, credential, died, replaced>>
             /\ process' \in [Processes -> BootProcess]
  <2>1. UNCHANGED <<settings, users, keyFile, credential, died, replaced>>
    BY <1>8 DEF ReadKey, Generate, Reread, LoadProviders
  <2>2. \E at \in Stages, key \in Ks : Goes(p, at, key)
    <3>1. Goes(p, "off", NoKey) <=> process' = [process EXCEPT ![p] = Off]
      BY OffIs DEF Goes
    <3>2. CASE ReadKey(p)
      BY <1>2, <1>5, <3>1, <3>2 DEF ReadKey
    <3>3. CASE Generate(p)
      BY <1>2, <1>5, <3>1, <3>3 DEF Generate
    <3>4. CASE Reread(p)
      BY <1>2, <1>5, <3>1, <3>4 DEF Reread, InEffect
    <3>5. CASE LoadProviders(p)
      BY <1>2, <1>5, <3>1, <3>5 DEF LoadProviders
    <3> QED BY <1>8, <3>2, <3>3, <3>4, <3>5
  <2> QED BY <1>3, <2>1, <2>2
<1>9. ASSUME NEW p \in Processes, CreateFile(p) \/ WriteFile(p)
      PROVE  /\ UNCHANGED <<settings, users, credential, died, replaced>>
             /\ keyFile' \in Files /\ process' \in [Processes -> BootProcess]
  <2>1. \E at \in Stages, key \in Ks : Goes(p, at, key)
    BY <1>2, <1>5, <1>9 DEF CreateFile, WriteFile
  <2>2. UNCHANGED <<settings, users, credential, died, replaced>> /\ keyFile' \in Files
    BY <1>1, <1>4, <1>6, <1>9 DEF CreateFile, WriteFile
  <2> QED BY <1>3, <2>1, <2>2
<1>10. ASSUME NEW p \in Processes, Migrate(p)
       PROVE  /\ UNCHANGED <<settings, users, keyFile, died, replaced>>
              /\ credential' \in [Secrets -> Credentials] /\ process' \in [Processes -> BootProcess]
  <2>1. \E at \in Stages, key \in Ks : Goes(p, at, key)
    BY <1>2, <1>5, <1>10 DEF Migrate
  <2>2. credential' \in [Secrets -> Credentials]
    BY <1>1, <1>4, <1>6, <1>10 DEF Migrate, Secrets
  <2> QED BY <1>3, <1>10, <2>1, <2>2 DEF Migrate
<1>11. ASSUME NEW p \in Processes, NEW s \in Secrets, SaveCredential(p, s)
       PROVE  /\ UNCHANGED <<settings, users, keyFile, process, died, replaced>>
              /\ credential' \in [Secrets -> Credentials]
  BY <1>1, <1>4, <1>6, <1>11 DEF SaveCredential
<1>12. ASSUME NEW p \in Processes, Die(p)
       PROVE  /\ UNCHANGED <<settings, users, credential, replaced>>
              /\ keyFile' \in Files /\ process' \in [Processes -> BootProcess] /\ died' \in BOOLEAN
  <2>1. Goes(p, "off", NoKey)
    BY <1>12, OffIs DEF Die, Goes
  <2>2. keyFile' \in Files
    BY <1>1, <1>4, <1>12 DEF Die
  <2> QED BY <1>1, <1>2, <1>3, <1>5, <1>12, <2>1, <2>2 DEF Die
<1>13. CASE LoseFile
  BY <1>1, <1>4, <1>13 DEF LoseFile
<1>14. CASE UNCHANGED bootVars
  BY <1>1, <1>14 DEF bootVars
<1> QED BY <1>1, <1>7, <1>8, <1>9, <1>10, <1>11, <1>12, <1>13, <1>14 DEF BootNext

LEMMA AccountsInitInv == BootInit => AccountsInv
<1> SUFFICES ASSUME BootInit PROVE AccountsInv
  OBVIOUS
<1>1. users = {} /\ \A p \in Processes : process[p].at = "off"
  BY DEF BootInit, Off
<1> QED BY <1>1 DEF AccountsInv, Between

\* A step that leaves the accounts alone may move a process to where there is an
\* administrator, if the settings have one.
LEMMA MoveKeepsAccounts ==
  ASSUME BootTypeOK, AccountsInv, NEW p \in Processes, NEW at \in Stages,
         NEW key \in VaultKeys \cup {NoKey}, Goes(p, at, key), UNCHANGED <<settings, users>>,
         process[p].at # "readonly" \/ died', died => died',
         at # "readonly", settings.admin => at # "setup",
         settings.admin /\ at \notin {"off", "seed", "admin"} => HasAdmin
  PROVE  AccountsInv'
<1>1. /\ process' \in [Processes -> BootProcess] /\ process'[p].at = at
      /\ \A q \in Processes : q # p => process'[q] = process[q]
  BY GoesTo DEF BootTypeOK, BootProcess, Stages
<1>2. /\ Between' => Between
      /\ Between => Between' \/ died'
  BY <1>1 DEF Between
<1>3. HasAdmin' = HasAdmin
  BY DEF HasAdmin
<1> QED BY <1>1, <1>2, <1>3 DEF AccountsInv

LEMMA SeedKeepsAccounts ==
  ASSUME BootTypeOK, AccountsInv, NEW p \in Processes, SeedAdmin(p)
  PROVE  AccountsInv'
<1>1. /\ process[p].at = "admin" /\ UNCHANGED <<settings, died>>
      /\ "readonly" \in Stages /\ "key" \in Stages /\ NoKey \in VaultKeys \cup {NoKey}
  BY DEF SeedAdmin, Stages
<1>2. CASE HasAdmin
  BY <1>1, <1>2, MoveKeepsAccounts DEF SeedAdmin
<1>3. CASE ~ HasAdmin
  <2>1. /\ users = {} /\ users' = {EnvAdmin}
    BY <1>3, SomeoneIsAdmin DEF SeedAdmin, EnvAdmin
  <2>2. Goes(p, IF settings.readonly THEN "readonly" ELSE "key", NoKey)
    BY <1>3 DEF SeedAdmin
  <2>3. /\ process' \in [Processes -> BootProcess]
        /\ process'[p].at = IF settings.readonly THEN "readonly" ELSE "key"
        /\ \A q \in Processes : q # p => process'[q] = process[q]
    BY <1>1, <2>2, GoesTo DEF BootTypeOK, BootProcess, Stages
  <2>4. HasAdmin'
    BY <2>1, RowsAre DEF HasAdmin, EnvAdmin
  <2>5. settings.readonly => Between'
    BY <2>3 DEF Between
  <2>6. EnvAdmin.role = "admin"
    BY RowsAre DEF EnvAdmin
  <2>7. settings.admin => \A q \in Processes : process'[q].at # "setup"
    BY <1>1, <2>3 DEF AccountsInv
  <2> QED BY <1>1, <2>1, <2>4, <2>5, <2>6, <2>7 DEF AccountsInv
<1> QED BY <1>2, <1>3

LEMMA ReadonlyKeepsAccounts ==
  ASSUME BootTypeOK, AccountsInv, NEW p \in Processes, SeedReadonly(p)
  PROVE  AccountsInv'
<1>1. /\ process[p].at = "readonly" /\ UNCHANGED <<settings, died>>
      /\ users' = users \cup {EnvReadonly} /\ Goes(p, "key", NoKey)
      /\ "key" \in Stages /\ NoKey \in VaultKeys \cup {NoKey}
  BY DEF SeedReadonly, Stages, EnvReadonly
<1>2. EnvAdmin \in users
  BY <1>1 DEF AccountsInv, Between
<1>3. /\ process' \in [Processes -> BootProcess] /\ process'[p].at = "key"
      /\ \A q \in Processes : q # p => process'[q] = process[q]
  BY <1>1, GoesTo DEF BootTypeOK, BootProcess, Stages
<1>4. HasAdmin' /\ EnvReadonly.role = "readonly"
  BY <1>1, <1>2, RowsAre DEF HasAdmin, EnvAdmin, EnvReadonly
<1> QED BY <1>1, <1>2, <1>3, <1>4 DEF AccountsInv

\* The setup page inserts only while there is nobody, and nobody is between the
\* accounts then.
LEMMA SetupKeepsAccounts ==
  ASSUME BootTypeOK, AccountsInv, NEW p \in Processes, InsertAdmin(p)
  PROVE  AccountsInv'
<1>1. /\ process[p].at = "setup" /\ ~ settings.admin /\ UNCHANGED <<settings, died>>
      /\ Goes(p, "up", process[p].key) /\ process[p].key \in VaultKeys \cup {NoKey}
      /\ "up" \in Stages
  BY DEF InsertAdmin, AccountsInv, Stages, BootTypeOK
<1>2. /\ process' \in [Processes -> BootProcess] /\ process'[p].at = "up"
      /\ \A q \in Processes : q # p => process'[q] = process[q]
  BY <1>1, GoesTo DEF BootTypeOK, BootProcess, Stages
<1>3. Between' => Between
  BY <1>2 DEF Between
<1>4. CASE users = {}
  <2>1. users' = {User("admin", p)} /\ User("admin", p).role = "admin"
    BY <1>4, RowsAre DEF InsertAdmin, MayInsert
  <2>2. ~ Between /\ EnvReadonly \notin users'
    BY <1>4, <2>1, RowsAre DEF AccountsInv, EnvReadonly
  <2> QED BY <1>1, <1>3, <2>1, <2>2 DEF AccountsInv
<1>5. CASE users # {}
  BY <1>1, <1>3, <1>5 DEF InsertAdmin, MayInsert, AccountsInv
<1> QED BY <1>4, <1>5

LEMMA AccountsStep ==
  ASSUME BootTypeOK, AccountsInv, [BootNext]_bootVars
  PROVE  AccountsInv'
<1>1. /\ \A p \in Processes : process[p].key \in VaultKeys \cup {NoKey}
      /\ NoKey \in VaultKeys \cup {NoKey} /\ Configured \in VaultKeys \cup {NoKey}
      /\ keyFile.key \in VaultKeys \cup {NoKey}
      /\ \A key \in Keys : key \in VaultKeys \cup {NoKey}
  BY FilesAre DEF BootTypeOK, VaultKeys, NoFile, EmptyFile, TornFile, KeyFile
<1>2. users # {} => HasAdmin
  BY SomeoneIsAdmin
<1>3. /\ {"off", "seed", "admin", "readonly", "key", "check", "create"} \subseteq Stages
      /\ {"write", "reread", "migrate", "providers", "up", "setup"} \subseteq Stages
  BY DEF Stages
<1>4. CASE \E p \in Processes : Boot(p)
  BY <1>1, <1>3, <1>4, MoveKeepsAccounts, OffIs DEF Boot
<1>5. CASE \E p \in Processes : CheckUsers(p)
  BY <1>1, <1>2, <1>3, <1>5, MoveKeepsAccounts DEF CheckUsers
<1>6. CASE \E p \in Processes : AskSetup(p)
  <2>1. PICK p \in Processes : AskSetup(p)
    BY <1>6
  <2>2. ~ HasAdmin
    BY <2>1 DEF AskSetup, HasAdmin
  <2>3. ~ settings.admin
    BY <2>1, <2>2 DEF AskSetup, AccountsInv
  <2> QED BY <1>1, <1>3, <2>1, <2>3, MoveKeepsAccounts DEF AskSetup
\* A step past the accounts, on to the next place or out.
<1>7. ASSUME NEW p \in Processes,
             NEW at \in Stages \ {"readonly", "setup", "seed", "admin"},
             NEW key \in VaultKeys \cup {NoKey},
             Goes(p, at, key), UNCHANGED <<settings, users, died>>,
             process[p].at \notin {"off", "seed", "admin", "readonly"}
      PROVE  AccountsInv'
  <2>1. settings.admin => HasAdmin
    BY <1>7 DEF AccountsInv
  <2>2. at \in Stages /\ at # "readonly" /\ at # "setup" /\ process[p].at # "readonly"
    BY <1>7
  <2> QED BY <1>7, <2>1, <2>2, MoveKeepsAccounts
<1>9. CASE \E p \in Processes : ReadKey(p) \/ Generate(p) \/ Reread(p) \/ LoadProviders(p)
  <2>1. PICK p \in Processes : ReadKey(p) \/ Generate(p) \/ Reread(p) \/ LoadProviders(p)
    BY <1>9
  <2>2. /\ UNCHANGED <<settings, users, died>>
        /\ process[p].at \notin {"off", "seed", "admin", "readonly"}
    BY <2>1 DEF ReadKey, Generate, Reread, LoadProviders
  <2>3. Goes(p, "off", NoKey) <=> process' = [process EXCEPT ![p] = Off]
    BY OffIs DEF Goes
  <2>4. \E at \in Stages \ {"readonly", "setup", "seed", "admin"}, key \in VaultKeys \cup {NoKey} :
           Goes(p, at, key)
    <3>1. CASE ReadKey(p)
      BY <1>1, <1>3, <2>3, <3>1 DEF ReadKey
    <3>2. CASE Generate(p)
      BY <1>1, <1>3, <2>3, <3>2 DEF Generate
    <3>3. CASE Reread(p)
      BY <1>1, <1>3, <2>3, <3>3 DEF Reread, InEffect
    <3>4. CASE LoadProviders(p)
      BY <1>1, <1>3, <2>3, <3>4 DEF LoadProviders
    <3> QED BY <2>1, <3>1, <3>2, <3>3, <3>4
  <2> QED BY <1>7, <2>2, <2>4
<1>10. CASE \E p \in Processes : CreateFile(p) \/ WriteFile(p) \/ Migrate(p)
  <2>1. PICK p \in Processes : CreateFile(p) \/ WriteFile(p) \/ Migrate(p)
    BY <1>10
  <2>2. /\ UNCHANGED <<settings, users, died>>
        /\ process[p].at \notin {"off", "seed", "admin", "readonly"}
        /\ \E at \in {"write", "reread", "migrate", "providers"} : Goes(p, at, process[p].key)
    BY <2>1 DEF CreateFile, WriteFile, Migrate
  <2> QED BY <1>1, <1>3, <1>7, <2>2
<1>11. CASE \E p \in Processes : Die(p)
  <2>1. PICK p \in Processes : Die(p)
    BY <1>11
  <2>2. Goes(p, "off", NoKey)
    BY <2>1, OffIs DEF Die, Goes
  <2> QED BY <1>1, <1>3, <2>1, <2>2, MoveKeepsAccounts DEF Die
<1>12. CASE (\E p \in Processes, s \in Secrets : SaveCredential(p, s)) \/ LoseFile \/ UNCHANGED bootVars
  <2>1. UNCHANGED <<settings, users, process, died>>
    BY <1>12 DEF SaveCredential, LoseFile, bootVars
  <2>2. HasAdmin' = HasAdmin /\ Between' = Between
    BY <2>1 DEF HasAdmin, Between
  <2> QED BY <2>1, <2>2 DEF AccountsInv
<1> QED BY <1>4, <1>5, <1>6, <1>9, <1>10, <1>11, <1>12, SeedKeepsAccounts, ReadonlyKeepsAccounts,
           SetupKeepsAccounts DEF BootNext

BootInv == BootTypeOK /\ KeysInv /\ AccountsInv

LEMMA BootStep == BootInv /\ [BootNext]_bootVars => BootInv'
<1> SUFFICES ASSUME BootInv, [BootNext]_bootVars PROVE BootInv'
  OBVIOUS
<1>1. BootTypeOK' /\ AccountsInv'
  BY BootTypes, AccountsStep DEF BootInv
<1>2. UNCHANGED bootVars => KeysInv'
  BY DEF BootInv, bootVars, KeysInv, ExplicitInv, FileInv, RouterInv, ReadsRouter, ProviderInv, Readable
<1>3. BootNext => KeysInv'
  BY AccountsKeepKeys, ReadKeyKeepsKeys, GenerateKeepsKeys, CreateKeepsKeys, WriteKeepsKeys,
     RereadKeepsKeys, MigrateKeepsKeys, LoadKeepsKeys, SaveKeepsKeys, DieKeepsKeys, LoseKeepsKeys
     DEF BootInv, BootNext
<1> QED BY <1>1, <1>2, <1>3 DEF BootInv

LEMMA AccessFollows == BootInv => BootKeepsAccess
<1> SUFFICES ASSUME BootInv PROVE BootKeepsAccess
  OBVIOUS
<1>1. CredentialIsReadable
  <2> SUFFICES ASSUME ~ replaced, NEW p \in Processes, NEW s \in Secrets,
                      process[p].at \in {"up", "setup"}
               PROVE  Readable(p, s)
    BY DEF CredentialIsReadable
  <2>1. process[p].at \in Past
    BY DEF Past
  <2>2. CASE settings.vault = "explicit"
    BY <2>1, <2>2 DEF BootInv, KeysInv, ExplicitInv, Readable
  <2>3. CASE settings.vault # "explicit" /\ s = "router"
    <3>1. keyFile = KeyFile(process[p].key)
      BY <2>1, <2>3 DEF BootInv, KeysInv, FileInv
    <3> QED BY <2>3, <3>1, FilesAre DEF BootInv, KeysInv, RouterInv, ReadsRouter, Readable
  <2>4. CASE s = "provider"
    BY <2>4 DEF BootInv, KeysInv, ProviderInv
  <2> QED BY <2>2, <2>3, <2>4 DEF Secrets
<1>2. ASSUME settings.admin, settings.readonly, users # {}, ~ died, ~ Between
      PROVE  users = {EnvAdmin, EnvReadonly}
  <2>1. HasAdmin
    BY <1>2, SomeoneIsAdmin DEF BootInv
  <2>2. EnvAdmin \in users
    BY <1>2, <2>1 DEF BootInv, AccountsInv, HasAdmin
  <2>3. EnvReadonly \in users
    BY <1>2, <2>2 DEF BootInv, AccountsInv
  <2>4. \A u \in users : u.role \in {"admin", "readonly"}
    BY DEF BootInv, BootTypeOK
  <2>5. \A u \in users : u = EnvAdmin \/ u = EnvReadonly
    BY <1>2, <2>4 DEF BootInv, AccountsInv
  <2> QED BY <2>2, <2>3, <2>5
<1>3. AccountsAreSeeded
  BY <1>2 DEF AccountsAreSeeded, BootInv, AccountsInv, Between, EnvAdmin, EnvReadonly
<1> QED BY <1>1, <1>3 DEF BootKeepsAccess

-----------------------------------------------------------------------------
(* Sessions.                                                               *)

Codes == {0, 200, 401, 403, 409}
SessionRecords == [role : Roles, until : Lifetime..(LastTime + Lifetime)]
Presentable == SessionTokens \cup {OperatorKey[role] : role \in Roles} \cup {"no token"}
Visits == [at : {"away", "handled", "open", "answered"}, endpoint : Endpoints, token : Presentable,
           role : Roles \cup {"nobody"}, code : Codes, late : BOOLEAN, type : {"session", "static"}]

SessionsTypes ==
    /\ accounts \subseteq Roles /\ now \in 0..LastTime /\ ended \subseteq SessionTokens
    /\ sessions \in [SessionTokens -> SessionRecords \cup {NoSession}]
    /\ issued \in [SessionTokens -> SessionRecords \cup {NoSession}]
    /\ visit \in [Visitors -> Visits]

\* A session the store does not have is over, and was handed out if it was ended.
StoreInv ==
    /\ \A t \in SessionTokens : sessions[t] # NoSession => t \notin ended /\ sessions[t] = issued[t]
    /\ \A t \in SessionTokens : sessions[t] = NoSession => t \in ended \/ Expired(issued[t])
    /\ \A t \in ended : issued[t] # NoSession

\* Whoever is admitted with a session has one that was handed out; a socket that
\* stays open is no answer yet.
HonestThen(v, handed, gone, time) ==
    LET isSession == v.token \in SessionTokens IN
    /\ v.at = "handled" => v.code = 200
    /\ v.code = 200 =>
        /\ ~ v.late /\ Needs[v.endpoint] \subseteq Scopes(v.role)
        /\ isSession => handed[v.token] # NoSession /\ v.role = handed[v.token].role
        /\ isSession /\ v.at = "answered" /\ v.endpoint = "session" =>
             v.type = "session" \/ v.token \in gone \/ handed[v.token].until <= time
        /\ v.endpoint = "query" => isSession
    /\ v.code = 401 /\ isSession /\ v.endpoint \notin Upgrades => v.late

Honest == \A c \in Visitors : HonestThen(visit[c], issued, ended, now)

SessionsInv == SessionsTypes /\ StoreInv /\ Honest

LEMMA SessionsFollow == SessionsInv => SessionsAreHonest
BY DEF SessionsInv, StoreInv, Honest, HonestThen, SessionsAreHonest, Expired

LEMMA ClockFacts == Lifetime \in Nat /\ LastTime \in Nat /\ "no token" \notin SessionTokens
BY SessionsAssumption, Zenon

LEMMA ClockIs == Lifetime \in Nat /\ LastTime \in Nat
BY ClockFacts, Zenon

LEMMA AwayIs == Away \in Visits /\ Away.at = "away" /\ Away.code \notin {200, 401}
<1>1. Away \in Visits
  BY DEF Away, Visits, Endpoints, Needs, Presentable, Codes
<1>2. Away.at = "away" /\ Away.code \notin {200, 401}
  BY DEF Away
<1> QED BY <1>1, <1>2, Zenon

LEMMA AwayIsHonest == \A handed, gone, time : HonestThen(Away, handed, gone, time)
BY DEF Away, HonestThen

LEMMA NoSessionIs ==
    NoSession.role = "nobody" /\ NoSession.until = 0 /\ NoSession \notin SessionRecords
BY DEF NoSession, SessionRecords, Roles

LEMMA SessionsInitInv == SessionsInit => SessionsInv
<1> SUFFICES ASSUME SessionsInit PROVE SessionsInv
  OBVIOUS
<1>1. /\ sessions = [t \in SessionTokens |-> NoSession] /\ issued = sessions
      /\ ended = {} /\ now = 0
      /\ visit = [c \in Visitors |-> Away]
  BY Zenon DEF SessionsInit
<1>2. accounts \subseteq Roles
  BY Zenon DEF SessionsInit
<1>3. /\ ended \subseteq SessionTokens
      /\ sessions \in [SessionTokens -> SessionRecords \cup {NoSession}]
      /\ issued \in [SessionTokens -> SessionRecords \cup {NoSession}]
  BY <1>1
<1>4. now \in 0..LastTime
  BY <1>1, ClockIs
<1>5. visit \in [Visitors -> Visits]
  BY <1>1, AwayIs, Zenon
<1>6. SessionsTypes
  BY <1>2, <1>3, <1>4, <1>5, Zenon DEF SessionsTypes
<1>7. StoreInv
  BY <1>1, NoSessionIs DEF StoreInv, Expired
<1>8. Honest
  BY <1>1, AwayIsHonest, Zenon DEF Honest
<1> QED BY <1>6, <1>7, <1>8 DEF SessionsInv

\* Answers are forgotten when something else happens, and what is under way stays
\* honest, as no token is handed out twice.
LEMMA UnderIsHonest ==
  ASSUME SessionsInv, \A t \in SessionTokens : issued[t] # NoSession => issued'[t] = issued[t],
         NEW c \in Visitors
  PROVE  Under[c] \in Visits /\ HonestThen(Under[c], issued', ended', now')
<1>1. visit[c] \in Visits /\ HonestThen(visit[c], issued, ended, now)
  BY DEF SessionsInv, SessionsTypes, Honest
<1>2. CASE Free(c)
  BY <1>2, AwayIs, AwayIsHonest, Zenon DEF Under
<1>3. CASE ~ Free(c)
  <2>1. Under[c] = visit[c] /\ visit[c].at # "answered"
    BY <1>3, Zenon DEF Under, Free
  <2>2. HonestThen(visit[c], issued', ended', now')
    BY <1>1, <2>1 DEF HonestThen
  <2> QED BY <1>1, <2>1, <2>2
<1> QED BY <1>2, <1>3

LEMMA VisitsStep ==
  ASSUME SessionsInv, \A t \in SessionTokens : issued[t] # NoSession => issued'[t] = issued[t],
         NEW c \in Visitors, NEW w \in Visits, HonestThen(w, issued', ended', now'),
         visit' = [Under EXCEPT ![c] = w]
  PROVE  visit' \in [Visitors -> Visits] /\ Honest'
<1>1. \A d \in Visitors : Under[d] \in Visits /\ HonestThen(Under[d], issued', ended', now')
  BY UnderIsHonest
<1>2. Under = [d \in Visitors |-> Under[d]]
  BY Zenon DEF Under
<1>3. \A d \in Visitors : visit'[d] = IF d = c THEN w ELSE Under[d]
  BY <1>2
<1>4. visit' \in [Visitors -> Visits]
  BY <1>1, <1>2
<1>5. \A d \in Visitors : HonestThen(visit'[d], issued', ended', now')
  BY <1>1, <1>3
<1> QED BY <1>4, <1>5 DEF Honest

LEMMA UnderStep ==
  ASSUME SessionsInv, \A t \in SessionTokens : issued[t] # NoSession => issued'[t] = issued[t],
         visit' = Under
  PROVE  visit' \in [Visitors -> Visits] /\ Honest'
<1>1. \A d \in Visitors : Under[d] \in Visits /\ HonestThen(Under[d], issued', ended', now')
  BY UnderIsHonest
<1>2. Under = [d \in Visitors |-> Under[d]]
  BY Zenon DEF Under
<1>3. Under \in [Visitors -> Visits]
  BY <1>1, <1>2
<1> QED BY <1>1, <1>3 DEF Honest

\* A visit that is answered is still a visit, and the same.
CodeAnswer(v, code) == [v EXCEPT !.at = "answered", !.code = code]
TypeAnswer(v, type) == [v EXCEPT !.at = "answered", !.type = type]
PlainAnswer(v) == [v EXCEPT !.at = "answered"]

AnswersTo(w, v) ==
    /\ w \in Visits /\ w.at = "answered" /\ w.endpoint = v.endpoint /\ w.token = v.token
    /\ w.role = v.role /\ w.late = v.late

LEMMA AnswersAre ==
  ASSUME NEW v \in Visits
  PROVE  /\ \A code \in Codes : /\ AnswersTo(CodeAnswer(v, code), v)
                                /\ CodeAnswer(v, code).code = code
         /\ \A type \in {"session", "static"} :
              /\ AnswersTo(TypeAnswer(v, type), v)
              /\ TypeAnswer(v, type).code = v.code /\ TypeAnswer(v, type).type = type
         /\ AnswersTo(PlainAnswer(v), v) /\ PlainAnswer(v).code = v.code
<1>1. ASSUME NEW code \in Codes
      PROVE  AnswersTo(CodeAnswer(v, code), v) /\ CodeAnswer(v, code).code = code
  BY DEF Visits, AnswersTo, CodeAnswer
<1>2. ASSUME NEW type \in {"session", "static"}
      PROVE  /\ AnswersTo(TypeAnswer(v, type), v)
             /\ TypeAnswer(v, type).code = v.code /\ TypeAnswer(v, type).type = type
  BY DEF Visits, AnswersTo, TypeAnswer
<1>3. AnswersTo(PlainAnswer(v), v) /\ PlainAnswer(v).code = v.code
  BY DEF Visits, AnswersTo, PlainAnswer
<1> QED BY <1>1, <1>2, <1>3, Zenon

LEMMA CodeAnswers ==
  \A v \in Visits, code \in Codes : AnswersTo(CodeAnswer(v, code), v) /\ CodeAnswer(v, code).code = code
<1> SUFFICES ASSUME NEW v \in Visits, NEW code \in Codes
             PROVE  AnswersTo(CodeAnswer(v, code), v) /\ CodeAnswer(v, code).code = code
  OBVIOUS
<1> QED BY DEF Visits, AnswersTo, CodeAnswer

LEMMA FieldsAre ==
  ASSUME NEW f \in [Visitors -> Visits], NEW c \in Visitors, NEW code, NEW type
  PROVE  /\ [f EXCEPT ![c].at = "answered", ![c].code = code] = [f EXCEPT ![c] = CodeAnswer(f[c], code)]
         /\ [f EXCEPT ![c].at = "answered", ![c].type = type] = [f EXCEPT ![c] = TypeAnswer(f[c], type)]
         /\ [f EXCEPT ![c].at = "answered"] = [f EXCEPT ![c] = PlainAnswer(f[c])]
<1>1. [f EXCEPT ![c].at = "answered", ![c].code = code] = [f EXCEPT ![c] = CodeAnswer(f[c], code)]
  BY DEF CodeAnswer
<1>2. [f EXCEPT ![c].at = "answered", ![c].type = type] = [f EXCEPT ![c] = TypeAnswer(f[c], type)]
  BY DEF TypeAnswer
<1>3. [f EXCEPT ![c].at = "answered"] = [f EXCEPT ![c] = PlainAnswer(f[c])]
  BY DEF PlainAnswer
<1> QED BY <1>1, <1>2, <1>3

LEMMA CodeFields ==
  \A f \in [Visitors -> Visits], c \in Visitors, code \in Codes :
      [f EXCEPT ![c].at = "answered", ![c].code = code] = [f EXCEPT ![c] = CodeAnswer(f[c], code)]
BY DEF CodeAnswer

LEMMA VisitIs ==
  ASSUME NEW at \in {"away", "handled", "open", "answered"}, NEW endpoint \in Endpoints,
         NEW token \in Presentable, NEW role \in Roles \cup {"nobody"}, NEW code \in Codes,
         NEW late \in BOOLEAN, NEW type \in {"session", "static"}
  PROVE  [at |-> at, endpoint |-> endpoint, token |-> token, role |-> role, code |-> code,
          late |-> late, type |-> type] \in Visits
BY DEF Visits

\* What is swept was over.
LEMMA SweptIs ==
  ASSUME SessionsInv, NEW t \in SessionTokens
  PROVE  /\ Swept[t] \in SessionRecords \cup {NoSession}
         /\ Swept[t] # NoSession => Swept[t] = sessions[t] /\ Swept[t] = issued[t] /\ t \notin ended
                                    /\ ~ Expired(issued[t])
         /\ Swept[t] = NoSession => t \in ended \/ Expired(issued[t])
<1>1. /\ sessions[t] \in SessionRecords \cup {NoSession}
      /\ sessions[t] # NoSession => t \notin ended /\ sessions[t] = issued[t]
      /\ sessions[t] = NoSession => t \in ended \/ Expired(issued[t])
  BY DEF SessionsInv, SessionsTypes, StoreInv
<1>2. Swept[t] = IF Expired(sessions[t]) THEN NoSession ELSE sessions[t]
  BY DEF Swept
<1> QED BY <1>1, <1>2

\* A store that is swept holds what it should.
LEMMA SweepKeepsStore ==
  ASSUME SessionsInv, sessions' = sessions \/ sessions' = Swept, UNCHANGED <<issued, ended, now>>
  PROVE  StoreInv' /\ sessions' \in [SessionTokens -> SessionRecords \cup {NoSession}]
<1>1. CASE sessions' = sessions
  BY <1>1 DEF SessionsInv, SessionsTypes, StoreInv, Expired
<1>2. CASE sessions' = Swept
  <2>1. Swept \in [SessionTokens -> SessionRecords \cup {NoSession}]
    BY SweptIs DEF Swept
  <2>2. \A t \in SessionTokens : /\ Swept[t] # NoSession => t \notin ended /\ Swept[t] = issued[t]
                                 /\ Swept[t] = NoSession => t \in ended \/ Expired(issued[t])
    BY SweptIs
  <2> QED BY <1>2, <2>1, <2>2 DEF SessionsInv, StoreInv, Expired
<1> QED BY <1>1, <1>2

\* A token that is handed out is new, and its session lasts.
LEMMA CreateKeepsStore ==
  ASSUME SessionsInv, NEW role \in Roles, CreateSession(role), UNCHANGED <<ended, now>>
  PROVE  /\ StoreInv'
         /\ sessions' \in [SessionTokens -> SessionRecords \cup {NoSession}]
         /\ issued' \in [SessionTokens -> SessionRecords \cup {NoSession}]
         /\ \A t \in SessionTokens : issued[t] # NoSession => issued'[t] = issued[t]
<1>1. now \in Nat /\ now <= LastTime
  BY ClockIs DEF SessionsInv, SessionsTypes
<1>2. now + Lifetime \in Lifetime..(LastTime + Lifetime)
  BY <1>1, ClockIs
<1> DEFINE record == [role |-> role, until |-> now + Lifetime]
<1>3. record \in SessionRecords
  BY <1>2 DEF SessionRecords
<1>4. record # NoSession
  BY <1>3, NoSessionIs
<1> HIDE DEF record
<1>5. PICK t \in SessionTokens : /\ issued[t] = NoSession
                                 /\ issued' = [issued EXCEPT ![t] = record]
                                 /\ sessions' = [Swept EXCEPT ![t] = record]
  BY DEF CreateSession, record
<1>6. /\ issued \in [SessionTokens -> SessionRecords \cup {NoSession}] /\ t \notin ended
      /\ ended \subseteq SessionTokens
  BY <1>5 DEF SessionsInv, SessionsTypes, StoreInv
<1>7. Swept \in [SessionTokens -> SessionRecords \cup {NoSession}]
  BY SweptIs DEF Swept
<1>8. /\ sessions'[t] = record /\ issued'[t] = record
      /\ \A s \in SessionTokens : s # t => sessions'[s] = Swept[s] /\ issued'[s] = issued[s]
  BY <1>5, <1>6, <1>7
<1>9. \A s \in SessionTokens : /\ Swept[s] # NoSession => s \notin ended /\ Swept[s] = issued[s]
                               /\ Swept[s] = NoSession => s \in ended \/ Expired(issued[s])
  BY SweptIs
<1>10. StoreInv'
  <2>1. \A s \in SessionTokens : sessions'[s] # NoSession => s \notin ended /\ sessions'[s] = issued'[s]
    BY <1>6, <1>8, <1>9
  <2>2. \A s \in SessionTokens : sessions'[s] = NoSession => s \in ended \/ issued'[s].until <= now
    BY <1>4, <1>8, <1>9 DEF Expired
  <2>3. \A s \in ended : issued'[s] # NoSession
    BY <1>4, <1>6, <1>8 DEF SessionsInv, StoreInv
  <2> QED BY <2>1, <2>2, <2>3 DEF StoreInv, Expired
<1> QED BY <1>3, <1>5, <1>6, <1>7, <1>8, <1>10

LEMMA GetKeepsSessions ==
  ASSUME SessionsInv, NEW c \in Visitors,
         (\E role \in Roles : Login(c, role)) \/ LoginFails(c) \/ SetupAdmin(c)
  PROVE  SessionsInv'
<1>1. /\ accounts \subseteq Roles /\ now \in 0..LastTime /\ ended \subseteq SessionTokens
      /\ "admin" \in Roles /\ UNCHANGED <<ended, now>> /\ accounts' \subseteq Roles
  BY DEF SessionsInv, SessionsTypes, Login, LoginFails, SetupAdmin, Roles
<1>2. CASE \E role \in Roles : CreateSession(role) /\ visit' = Under
  BY <1>1, <1>2, CreateKeepsStore, UnderStep DEF SessionsInv, SessionsTypes
<1>3. CASE \E code \in {401, 409} : Free(c) /\ visit' = Replied(c, code) /\ UNCHANGED <<sessions, issued>>
  <2>0. PICK code \in Codes : /\ code \in {401, 409}
                             /\ Free(c) /\ visit' = Replied(c, code) /\ UNCHANGED <<sessions, issued>>
    BY <1>3 DEF Codes
  <2>1. Free(c) /\ visit' = Replied(c, code) /\ UNCHANGED <<sessions, issued>>
    BY <2>0
  <2>2. Under = [d \in Visitors |-> Under[d]] /\ Under[c] = Away
    BY <2>1, Zenon DEF Under
  <2> DEFINE w == CodeAnswer(Away, code)
  <2>3. Under \in [Visitors -> Visits]
    BY <1>1, <2>1, <2>2, UnderIsHonest
  <2>4. visit' = [Under EXCEPT ![c] = w]
    <3>1. [Under EXCEPT ![c].at = "answered", ![c].code = code] = [Under EXCEPT ![c] = CodeAnswer(Under[c], code)]
      BY <2>3, CodeFields, Zenon
    <3>2. visit' = [Under EXCEPT ![c].at = "answered", ![c].code = code]
      BY <2>1, Zenon DEF Replied
    <3> QED BY <2>2, <3>1, <3>2, Zenon
  <2>5. Away \in Visits
    BY AwayIs
  <2>6. w \in Visits /\ w.at = "answered" /\ w.code = code /\ w.token = Away.token
    <3>1. AnswersTo(w, Away) /\ w.code = code
      BY <2>5, CodeAnswers, Zenon
    <3> QED BY <3>1, Zenon DEF AnswersTo
  <2> HIDE DEF w
  <2>7. w.token \notin SessionTokens
    <3>1. Away.token = "no token"
      BY DEF Away
    <3>2. Away.token \notin SessionTokens
      BY <3>1, ClockFacts, Zenon
    <3> QED BY <2>6, <3>2
  <2>8. HonestThen(w, issued', ended', now')
    BY <2>0, <2>6, <2>7 DEF HonestThen
  <2>9. visit' \in [Visitors -> Visits] /\ Honest'
    BY <2>1, <2>4, <2>6, <2>8, VisitsStep
  <2>10. StoreInv' /\ sessions' \in [SessionTokens -> SessionRecords \cup {NoSession}]
    BY <1>1, <2>1, SweepKeepsStore
  <2> QED BY <1>1, <2>1, <2>9, <2>10 DEF SessionsInv, SessionsTypes
<1>4. CASE SetupAdmin(c)
  BY <1>1, <1>2, <1>3, <1>4 DEF SetupAdmin
<1> QED BY <1>2, <1>3, <1>4 DEF Login, LoginFails

\* Whoever is admitted by a session has the role with which it was handed out,
\* and who is turned away had none, or one that is over.
LEMMA PrincipalIs ==
  ASSUME SessionsInv, NEW token \in Presentable, NEW endpoint \in Endpoints
  PROVE  /\ Principal(token, endpoint) \in Roles \cup {"nobody"}
         /\ token \in SessionTokens =>
              /\ Principal(token, endpoint) # "nobody" =>
                   /\ issued[token] # NoSession /\ token \notin ended /\ ~ Expired(issued[token])
                   /\ Principal(token, endpoint) = issued[token].role
              /\ Principal(token, endpoint) = "nobody" => token \in ended \/ Expired(issued[token])
         /\ endpoint = "query" /\ Principal(token, endpoint) # "nobody" => token \in SessionTokens
<1>1. CASE token \in SessionTokens
  <2>1. Principal(token, endpoint) = Swept[token].role
    BY <1>1 DEF Principal
  <2>2. CASE Swept[token] = NoSession
    BY <1>1, <2>1, <2>2, SweptIs, NoSessionIs
  <2>3. CASE Swept[token] # NoSession
    <3>1. Swept[token].role \in Roles /\ "nobody" \notin Roles
      BY <1>1, <2>3, SweptIs DEF SessionRecords, Roles
    <3> QED BY <1>1, <2>1, <2>3, <3>1, SweptIs
  <2> QED BY <2>2, <2>3
<1>2. CASE token \notin SessionTokens
  <2>1. \/ Principal(token, endpoint) = "nobody"
        \/ /\ endpoint # "query" /\ \E role \in Roles : OperatorKey[role] = token
           /\ Principal(token, endpoint) = CHOOSE role \in Roles : OperatorKey[role] = token
    BY <1>2 DEF Principal
  <2>2. (\E role \in Roles : OperatorKey[role] = token) =>
           (CHOOSE role \in Roles : OperatorKey[role] = token) \in Roles
    OBVIOUS
  <2> QED BY <1>2, <2>1, <2>2
<1> QED BY <1>1, <1>2

LEMMA AuthenticateKeepsSessions ==
  ASSUME SessionsInv, NEW c \in Visitors, NEW token \in Presented, NEW endpoint \in Endpoints,
         Authenticate(c, token, endpoint)
  PROVE  SessionsInv'
<1> DEFINE role == Principal(token, endpoint)
           admitted == role # "nobody" /\ Needs[endpoint] \subseteq Scopes(role)
           code == IF admitted THEN 200
                   ELSE IF role = "nobody" \/ endpoint \in Upgrades THEN 401 ELSE 403
           at == IF ~ admitted THEN "answered"
                 ELSE IF endpoint \in Upgrades THEN "open"
                 ELSE IF endpoint \in {"session", "logout"} THEN "handled" ELSE "answered"
           late == token \in SessionTokens /\ (token \in ended \/ Expired(issued[token]))
           w == [at |-> at, endpoint |-> endpoint, token |-> token, role |-> role,
                 code |-> code, type |-> "static", late |-> late]
<1>1. /\ visit' = [Under EXCEPT ![c] = w] /\ UNCHANGED <<accounts, issued, ended, now>>
      /\ sessions' = sessions \/ sessions' = Swept
  BY DEF Authenticate
<1>2. token \in Presentable
  BY DEF Presented, Presentable
<1>3. /\ role \in Roles \cup {"nobody"}
      /\ token \in SessionTokens =>
           /\ role # "nobody" =>
                /\ issued[token] # NoSession /\ token \notin ended /\ ~ Expired(issued[token])
                /\ role = issued[token].role
           /\ role = "nobody" => token \in ended \/ Expired(issued[token])
      /\ endpoint = "query" /\ role # "nobody" => token \in SessionTokens
  BY <1>2, PrincipalIs, Zenon
<1> HIDE DEF role
<1>4. /\ at \in {"away", "handled", "open", "answered"} /\ code \in Codes /\ late \in BOOLEAN
      /\ admitted \in BOOLEAN
  BY DEF Codes
<1>5. /\ code = 200 <=> admitted
      /\ code = 401 /\ endpoint \notin Upgrades => role = "nobody"
      /\ at = "handled" => admitted
      /\ at = "answered" /\ admitted => endpoint # "session"
  OBVIOUS
<1>6. /\ admitted => role # "nobody" /\ Needs[endpoint] \subseteq Scopes(role)
      /\ admitted => ~ late
      /\ role = "nobody" /\ token \in SessionTokens => late
  BY <1>3
<1> HIDE DEF at, code, late, admitted
<1>7. w \in Visits
  BY <1>2, <1>3, <1>4, VisitIs
<1>8. /\ w.at = at /\ w.endpoint = endpoint /\ w.token = token /\ w.role = role /\ w.code = code
      /\ w.late = late
  BY Zenon
<1> HIDE DEF w
<1>9. HonestThen(w, issued, ended, now)
  <2>1. w.at = "handled" => w.code = 200
    BY <1>5, <1>8
  <2>2. ASSUME w.code = 200
        PROVE  /\ ~ w.late /\ Needs[w.endpoint] \subseteq Scopes(w.role)
               /\ w.token \in SessionTokens =>
                    issued[w.token] # NoSession /\ w.role = issued[w.token].role
               /\ ~ (w.at = "answered" /\ w.endpoint = "session")
               /\ w.endpoint = "query" => w.token \in SessionTokens
    <3>1. admitted
      BY <1>5, <1>8, <2>2
    <3>2. role # "nobody" /\ Needs[endpoint] \subseteq Scopes(role) /\ ~ late
      BY <1>6, <3>1
    <3>3. ~ w.late /\ Needs[w.endpoint] \subseteq Scopes(w.role)
      BY <1>8, <3>2, Zenon
    <3>4. w.token \in SessionTokens => issued[w.token] # NoSession /\ w.role = issued[w.token].role
      BY <1>3, <1>8, <3>2, Zenon
    <3>5. ~ (w.at = "answered" /\ w.endpoint = "session")
      BY <1>5, <1>8, <3>1, Zenon
    <3>6. w.endpoint = "query" => w.token \in SessionTokens
      BY <1>3, <1>8, <3>2, Zenon
    <3> QED BY <3>3, <3>4, <3>5, <3>6
  <2>3. w.code = 401 /\ w.token \in SessionTokens /\ w.endpoint \notin Upgrades => w.late
    BY <1>5, <1>6, <1>8, Zenon
  <2> QED BY <2>1, <2>2, <2>3, Zenon DEF HonestThen
<1>10. visit' \in [Visitors -> Visits] /\ Honest'
  BY <1>1, <1>7, <1>9, VisitsStep
<1>11. StoreInv' /\ sessions' \in [SessionTokens -> SessionRecords \cup {NoSession}]
  BY <1>1, SweepKeepsStore
<1> QED BY <1>1, <1>10, <1>11 DEF SessionsInv, SessionsTypes

LEMMA InfoKeepsSessions ==
  ASSUME SessionsInv, NEW c \in Visitors, SessionInfo(c)
  PROVE  SessionsInv'
<1> DEFINE token == visit[c].token
           found == token \in SessionTokens /\ Swept[token] # NoSession
           type == IF found THEN "session" ELSE "static"
           w == TypeAnswer(visit[c], type)
<1>1. /\ visit' = [Under EXCEPT ![c].at = "answered", ![c].type = type]
      /\ UNCHANGED <<accounts, issued, ended, now>> /\ sessions' = Swept
      /\ visit[c].at = "handled" /\ visit[c].endpoint = "session"
  BY DEF SessionInfo
<1>2. visit[c] \in Visits /\ HonestThen(visit[c], issued, ended, now)
  BY DEF SessionsInv, SessionsTypes, Honest
<1>3. Under = [d \in Visitors |-> Under[d]] /\ Under[c] = visit[c]
  BY <1>1, Zenon DEF Under, Free
<1>4. Under \in [Visitors -> Visits]
  BY <1>1, <1>3, UnderIsHonest
<1>5. type \in {"session", "static"}
  OBVIOUS
<1>6. token \in SessionTokens => type = "session" \/ token \in ended \/ issued[token].until <= now
  <2>1. token \in SessionTokens /\ Swept[token] = NoSession => token \in ended \/ Expired(issued[token])
    BY SweptIs
  <2> QED BY <2>1 DEF Expired
<1> HIDE DEF type
<1>7. visit' = [Under EXCEPT ![c] = w]
  <2>1. visit' = [Under EXCEPT ![c] = TypeAnswer(Under[c], type)]
    BY <1>1, <1>4, FieldsAre, Zenon
  <2> QED BY <1>3, <2>1
<1>8. /\ w \in Visits
      /\ w.at = "answered" /\ w.endpoint = visit[c].endpoint /\ w.token = visit[c].token
      /\ w.role = visit[c].role /\ w.code = visit[c].code /\ w.late = visit[c].late /\ w.type = type
  BY <1>2, <1>5, AnswersAre, Zenon DEF AnswersTo
<1> HIDE DEF w
<1>9. HonestThen(w, issued, ended, now)
  BY <1>1, <1>2, <1>6, <1>8 DEF HonestThen
<1>10. visit' \in [Visitors -> Visits] /\ Honest'
  BY <1>1, <1>7, <1>8, <1>9, VisitsStep
<1>11. StoreInv' /\ sessions' \in [SessionTokens -> SessionRecords \cup {NoSession}]
  BY <1>1, SweepKeepsStore
<1> QED BY <1>1, <1>10, <1>11 DEF SessionsInv, SessionsTypes

LEMMA LogoutKeepsSessions ==
  ASSUME SessionsInv, NEW c \in Visitors, Logout(c)
  PROVE  SessionsInv'
<1> DEFINE token == visit[c].token
           w == PlainAnswer(visit[c])
<1>1. /\ visit' = [Under EXCEPT ![c].at = "answered"]
      /\ UNCHANGED <<accounts, issued, now>>
      /\ sessions' = Revoke(token) /\ ended' = ended \cup ({token} \cap SessionTokens)
      /\ visit[c].at = "handled" /\ visit[c].endpoint = "logout"
  BY DEF Logout
<1>2. visit[c] \in Visits /\ HonestThen(visit[c], issued, ended, now)
  BY DEF SessionsInv, SessionsTypes, Honest
<1>3. Under = [d \in Visitors |-> Under[d]] /\ Under[c] = visit[c]
  BY <1>1, Zenon DEF Under, Free
<1>4. \A t \in SessionTokens : issued[t] # NoSession => issued'[t] = issued[t]
  BY <1>1
<1>5. Under \in [Visitors -> Visits]
  BY <1>3, <1>4, UnderIsHonest
<1>6. visit' = [Under EXCEPT ![c] = w]
  <2>1. visit' = [Under EXCEPT ![c] = PlainAnswer(Under[c])]
    BY <1>1, <1>5, FieldsAre, Zenon
  <2> QED BY <1>3, <2>1
<1>7. /\ w \in Visits
      /\ w.at = "answered" /\ w.endpoint = visit[c].endpoint /\ w.token = visit[c].token
      /\ w.role = visit[c].role /\ w.code = visit[c].code /\ w.late = visit[c].late
  BY <1>2, AnswersAre, Zenon DEF AnswersTo
<1> HIDE DEF w
<1>8. HonestThen(w, issued', ended', now')
  BY <1>1, <1>2, <1>7 DEF HonestThen
<1>9. visit' \in [Visitors -> Visits] /\ Honest'
  BY <1>4, <1>6, <1>7, <1>8, VisitsStep
<1>10. token \in SessionTokens => issued[token] # NoSession
  BY <1>1, <1>2 DEF HonestThen
<1> HIDE DEF token
<1>11. /\ sessions \in [SessionTokens -> SessionRecords \cup {NoSession}]
       /\ ended \subseteq SessionTokens /\ StoreInv
  BY DEF SessionsInv, SessionsTypes
<1>12. sessions' \in [SessionTokens -> SessionRecords \cup {NoSession}]
  BY <1>1, <1>11 DEF Revoke
<1>13. \A t \in SessionTokens : sessions'[t] = IF t = token THEN NoSession ELSE sessions[t]
  BY <1>1 DEF Revoke
<1>14. StoreInv'
  BY <1>1, <1>10, <1>11, <1>13 DEF StoreInv, Expired
<1>15. ended' \subseteq SessionTokens
  BY <1>1, <1>11
<1> QED BY <1>1, <1>9, <1>12, <1>14, <1>15 DEF SessionsInv, SessionsTypes

\* A socket that closes, time that passes, and a process that starts again, whose
\* memory has no session.
LEMMA RestKeepsSessions ==
  ASSUME SessionsInv,
         (\E c \in Visitors : SocketCloses(c)) \/ TimePasses \/ RestartSessions \/ UNCHANGED sessionVars
  PROVE  SessionsInv'
<1>1. CASE \E c \in Visitors : SocketCloses(c)
  <2>1. PICK c \in Visitors : SocketCloses(c)
    BY <1>1
  <2>2. visit' = [Under EXCEPT ![c] = Away] /\ UNCHANGED <<accounts, sessions, issued, ended, now>>
    BY <2>1 DEF SocketCloses
  <2>3. visit' \in [Visitors -> Visits] /\ Honest'
    <3>1. Away \in Visits /\ HonestThen(Away, issued', ended', now')
      BY AwayIs, AwayIsHonest, Zenon
    <3> QED BY <2>2, <3>1, VisitsStep
  <2> QED BY <2>2, <2>3 DEF SessionsInv, SessionsTypes, StoreInv, Expired
<1>2. CASE TimePasses
  <2>1. /\ now < LastTime /\ now' = now + 1 /\ visit' = Under
        /\ UNCHANGED <<accounts, sessions, issued, ended>>
    BY <1>2 DEF TimePasses
  <2>2. visit' \in [Visitors -> Visits] /\ Honest'
    BY <2>1, UnderStep
  <2>3. now \in 0..LastTime /\ now' \in 0..LastTime
    BY <2>1, ClockIs DEF SessionsInv, SessionsTypes
  <2>4. \A t \in SessionTokens : issued[t].until <= now => issued[t].until <= now + 1
    <3> SUFFICES ASSUME NEW t \in SessionTokens, issued[t].until <= now
                 PROVE  issued[t].until <= now + 1
      OBVIOUS
    <3>1. issued[t] \in SessionRecords \cup {NoSession}
      BY DEF SessionsInv, SessionsTypes
    <3>2. issued[t].until \in Int
      BY <3>1, NoSessionIs, ClockIs DEF SessionRecords
    <3> QED BY <2>3, <3>2
  <2>5. StoreInv'
    BY <2>1, <2>4 DEF SessionsInv, StoreInv, Expired
  <2> QED BY <2>1, <2>2, <2>3, <2>5 DEF SessionsInv, SessionsTypes
<1>3. CASE RestartSessions
  <2>1. /\ sessions' = [t \in SessionTokens |-> NoSession]
        /\ ended' = {t \in SessionTokens : issued[t] # NoSession}
        /\ visit' = [c \in Visitors |-> Away]
        /\ UNCHANGED <<accounts, issued, now>>
    BY <1>3 DEF RestartSessions
  <2>2. visit' \in [Visitors -> Visits] /\ Honest'
    <3>1. Away \in Visits /\ HonestThen(Away, issued', ended', now')
      BY AwayIs, AwayIsHonest, Zenon
    <3> QED BY <2>1, <3>1, Zenon DEF Honest
  <2>3. now \in Nat
    BY ClockIs DEF SessionsInv, SessionsTypes
  <2>4. \A t \in SessionTokens : t \in ended' \/ issued[t].until <= now
    BY <2>1, <2>3, NoSessionIs
  <2>5. StoreInv'
    BY <2>1, <2>4 DEF StoreInv, Expired
  <2>6. /\ sessions' \in [SessionTokens -> SessionRecords \cup {NoSession}]
        /\ ended' \subseteq SessionTokens
    BY <2>1
  <2> QED BY <2>1, <2>2, <2>5, <2>6 DEF SessionsInv, SessionsTypes
<1>4. CASE UNCHANGED sessionVars
  BY <1>4 DEF sessionVars, SessionsInv, SessionsTypes, StoreInv, Expired, Honest
<1> QED BY <1>1, <1>2, <1>3, <1>4

LEMMA SessionsStep == SessionsInv /\ [SessionsNext]_sessionVars => SessionsInv'
BY GetKeepsSessions, AuthenticateKeepsSessions, InfoKeepsSessions, LogoutKeepsSessions,
   RestKeepsSessions DEF SessionsNext

-----------------------------------------------------------------------------
\* Nobody loses access and nobody is taken for someone else. However processes
\* boot beside each other, die and boot again, those that serve read what is
\* encrypted, and the accounts are those of one boot (ensure_credential_vault,
\* bootstrap_env_credentials); however requests overlap, a session is good for
\* whom it was handed out to, until it is over (SessionStore, require_read,
\* logout, session_info).
THEOREM AccessIsAlwaysKept == Spec => []AccessIsKept
<1>1. Init => BootInv /\ SessionsInv
  BY PartSteps, BootInitInv, AccountsInitInv, SessionsInitInv DEF BootInv
<1>2. (BootInv /\ SessionsInv) /\ [Next]_vars => (BootInv /\ SessionsInv)'
  BY PartSteps, BootStep, SessionsStep
<1>3. BootInv /\ SessionsInv => AccessIsKept
  BY AccessFollows, SessionsFollow DEF AccessIsKept
<1> QED BY <1>1, <1>2, <1>3, PTL DEF Spec

-----------------------------------------------------------------------------
(* The types of the configuration's jobs.                                   *)

Ended == {NoJob} \cup {Closed(change) : change \in Changes}
Opened == [change : Changes, attempt : Attempts, open : {TRUE}, alone : BOOLEAN, had : 0..MaxAdded]
AnswerTypes == [ok : BOOLEAN, status : {"none", "succeeded", "failed"}]

\* A job that has ended is forgotten, or its change is kept while a script of it
\* goes on.
ConfigRest ==
    /\ \A j \in Jobs : job[j] \in Ended \cup Opened
    /\ applied \in Packages
    /\ answer \in AnswerTypes
    /\ begun \in 0..MaxJobs

LEMMA RestIs == ScriptsInv /\ ConfigRest => ConfigTypeOK
BY DEF ScriptsInv, ConfigTypes, ConfigRest, ConfigTypeOK, Ended, Opened, AnswerTypes, Places

LEMMA StatusesAre ==
    ASSUME target \in Targets, NEW ok, NEW change
    PROVE  Statuses(ok, change) \subseteq {"succeeded", "failed"}
<1> DEFINE shown == Shown(ok)
<1>1. shown \in {"succeeded", "failed"}
  BY DEF Shown
<1> HIDE DEF shown
<1>2. \/ Statuses(ok, change) = {shown} \cup (IF change.is = "set" THEN {"succeeded"} ELSE {})
      \/ Statuses(ok, change) = {shown}
      \/ Statuses(ok, change) = {"succeeded"}
      \/ Statuses(ok, change) = (IF change \in DhcpServerChanges THEN {"succeeded"} ELSE {})
                                 \cup (IF change \in DnsChanges THEN {"failed"} ELSE {})
  BY DEF Targets, Statuses, FirewallJob, WirelessJob, FirewallToggleJob, WirelessToggleJob, VpnToggleJob,
         NetworkJob, SystemJob, DhcpJob, DnsJob, shown
<1> QED BY <1>1, <1>2

LEMMA AnswersKeepTypes ==
    ASSUME ScriptsInv, ConfigRest, NEW j \in Jobs, job[j].change \in Changes, NEW scripts
    PROVE  /\ Rest(j, scripts) => \A i \in Jobs : job'[i] \in Ended \cup Opened
           /\ \A ok \in BOOLEAN : Answers(j, ok, scripts) =>
                 answer' \in AnswerTypes /\ \A i \in Jobs : job'[i] \in Ended \cup Opened
           /\ job[j].open => (LosesSession(j, scripts) =>
                 answer' \in AnswerTypes /\ \A i \in Jobs : job'[i] \in Ended \cup Opened)
           /\ Detached(j, scripts) =>
                 answer' \in AnswerTypes /\ \A i \in Jobs : job'[i] \in Ended \cup Opened
<1>1. job \in [Jobs -> JobRecords] /\ \A i \in Jobs : job[i] \in Ended \cup Opened
  BY DEF ScriptsInv, ConfigTypes, ConfigRest
<1>2. ASSUME Rest(j, scripts) PROVE \A i \in Jobs : job'[i] \in Ended \cup Opened
  <2>1. NoJob \in Ended /\ Closed(job[j].change) \in Ended
    BY DEF Ended
  <2>2. \/ job' = [job EXCEPT ![j] = NoJob]
        \/ job' = [job EXCEPT ![j] = Closed(job[j].change)]
    BY <1>2 DEF Rest
  <2> QED BY <1>1, <2>1, <2>2
<1>3. ASSUME NEW ok \in BOOLEAN, Answers(j, ok, scripts)
      PROVE  answer' \in AnswerTypes /\ \A i \in Jobs : job'[i] \in Ended \cup Opened
  <2>1. answer' \in [ok : {ok}, status : Statuses(ok, job[j].change)]
    BY <1>3 DEF Answers
  <2>2. answer' \in AnswerTypes
    BY <2>1, StatusesAre DEF AnswerTypes, ScriptsInv, ConfigTypes
  <2> QED BY <1>2, <1>3, <2>2 DEF Answers
<1>4. NoAnswer \in AnswerTypes
  BY DEF NoAnswer, AnswerTypes
<1>5. ASSUME job[j].open, LosesSession(j, scripts)
      PROVE  answer' \in AnswerTypes /\ \A i \in Jobs : job'[i] \in Ended \cup Opened
  <2>1. CASE /\ job[j].attempt < RetryCount
             /\ job' = [job EXCEPT ![j].attempt = job[j].attempt + 1]
             /\ answer' = NoAnswer
    <3>1. job[j] \in Opened
      BY <1>1, <1>5 DEF Ended, NoJob, Closed
    <3>2. job[j].attempt + 1 \in Attempts
      <4>1. job[j].attempt \in 0..RetryCount
        BY <3>1 DEF Opened, Attempts
      <4> QED BY <2>1, <4>1, ConfigBounds DEF Attempts
    <3>3. [job[j] EXCEPT !.attempt = job[j].attempt + 1] \in Opened
      BY <3>1, <3>2 DEF Opened
    <3>4. job' = [job EXCEPT ![j] = [job[j] EXCEPT !.attempt = job[j].attempt + 1]]
      BY <2>1
    <3> QED BY <1>1, <1>4, <2>1, <3>3, <3>4
  <2>2. CASE Answers(j, FALSE, scripts)
    BY <1>3, <2>2
  <2> QED BY <1>5, <2>1, <2>2 DEF LosesSession
<1>6. ASSUME Detached(j, scripts)
      PROVE  answer' \in AnswerTypes /\ \A i \in Jobs : job'[i] \in Ended \cup Opened
  <2>1. answer' \in AnswerTypes
    BY <1>4, <1>6 DEF Detached
  <2>2. CASE job[j].open
    BY <1>1, <1>6, <2>1, <2>2 DEF Detached
  <2>3. CASE ~ job[j].open
    BY <1>2, <1>6, <2>1, <2>3 DEF Detached
  <2> QED BY <2>2, <2>3
<1> QED BY <1>2, <1>3, <1>5, <1>6

LEMMA ScriptKeepsTypes ==
    ASSUME ScriptsInv, ConfigRest, NEW j \in Jobs, NEW k \in Attempts,
           ScriptActions(j, k) \/ Lose(j)
    PROVE  ConfigRest'
<1>1. job[j].change \in Changes
  <2>1. CASE ScriptActions(j, k)
    <3>1. Alive(j, k)
      BY <2>1 DEF ScriptActions, Stage, Commit, ReloadService, CommandFails, Stop, Alive
    <3> QED BY <3>1 DEF ScriptsInv, Scripts
  <2>2. CASE Lose(j)
    <3>1. job[j].open /\ job[j].attempt \in Attempts
      BY <2>2 DEF Lose, ScriptsInv, ConfigTypes, JobRecords
    <3> QED BY <3>1 DEF ScriptsInv, Scripts
  <2> QED BY <2>1, <2>2
<1>2. /\ UNCHANGED <<target, begun>> /\ applied' \in Packages
  BY DEF ScriptActions, Stage, Commit, ReloadService, CommandFails, Stop, Lose, ConfigRest, ScriptsInv,
         ConfigTypes
<1>3. ASSUME NEW ok \in BOOLEAN, ScriptEnds(j, k, ok)
      PROVE  answer' \in AnswerTypes /\ \A i \in Jobs : job'[i] \in Ended \cup Opened
  <2>1. (ok \/ AlwaysOk) \in BOOLEAN
    OBVIOUS
  <2> QED BY <1>1, <1>3, <2>1, AnswersKeepTypes DEF ScriptEnds, Attached
<1>4. ASSUME NEW at, GoesOn(j, k, at)
      PROVE  answer' \in AnswerTypes /\ \A i \in Jobs : job'[i] \in Ended \cup Opened
  BY <1>4 DEF GoesOn, NoAnswer, AnswerTypes, ConfigRest
<1>5. \/ \E ok \in BOOLEAN : ScriptEnds(j, k, ok)
      \/ \E at \in {"commit", "reload"} : GoesOn(j, k, at)
      \/ \E scripts : Detached(j, scripts)
      \/ job[j].open /\ \E scripts : LosesSession(j, scripts)
  BY DEF ScriptActions, Stage, Commit, ReloadService, CommandFails, Stop, Lose
<1>6. answer' \in AnswerTypes /\ \A i \in Jobs : job'[i] \in Ended \cup Opened
  <2>1. CASE \E scripts : Detached(j, scripts)
    BY <1>1, <2>1, AnswersKeepTypes
  <2>2. CASE job[j].open /\ \E scripts : LosesSession(j, scripts)
    BY <1>1, <2>2, AnswersKeepTypes
  <2> QED BY <1>3, <1>4, <1>5, <2>1, <2>2
<1>7. Ended' = Ended /\ Opened' = Opened
  BY <1>2 DEF Ended, Opened, Changes
<1> QED BY <1>2, <1>6, <1>7 DEF ConfigRest

LEMMA ConfigRestStep == ScriptsInv /\ ConfigRest /\ [ConfigNext]_configVars => ConfigRest'
<1> SUFFICES ASSUME ScriptsInv, ConfigRest, [ConfigNext]_configVars PROVE ConfigRest'
  OBVIOUS
<1>1. ASSUME NEW j \in Jobs, NEW change \in Changes, Begin(j, change) PROVE ConfigRest'
  <2>1. /\ job' = [i \in Jobs |->
               IF i = j THEN [change |-> change, attempt |-> 0, open |-> TRUE,
                              alone |-> ~ Busy, had |-> staged.added]
               ELSE [job[i] EXCEPT !.alone = FALSE]]
        /\ begun' = begun + 1 /\ begun < MaxJobs /\ answer' = NoAnswer /\ UNCHANGED <<target, applied>>
    BY <1>1 DEF Begin
  <2>2. staged.added \in 0..MaxAdded /\ 0 \in Attempts /\ (~ Busy) \in BOOLEAN
    BY ConfigBounds DEF ScriptsInv, ConfigTypes, Packages
  <2>3. [change |-> change, attempt |-> 0, open |-> TRUE, alone |-> ~ Busy, had |-> staged.added] \in Opened
    BY <2>2, Zenon DEF Opened
  <2>4. ASSUME NEW i \in Jobs PROVE [job[i] EXCEPT !.alone = FALSE] \in Ended \cup Opened
    <3>1. CASE job[i] \in Opened
      BY <3>1 DEF Opened
    <3>2. CASE job[i] \in Ended
      <4>1. PICK c : job[i] = Closed(c)
        BY <3>2 DEF Ended, NoJob
      <4>2. ASSUME NEW S, NEW r \in [change : S, attempt : {0}, open : {FALSE}, alone : {FALSE}, had : {0}]
            PROVE  [r EXCEPT !.alone = FALSE] = r
        OBVIOUS
      <4>3. job[i] \in [change : {c}, attempt : {0}, open : {FALSE}, alone : {FALSE}, had : {0}]
        BY <4>1 DEF Closed
      <4>4. [job[i] EXCEPT !.alone = FALSE] = job[i]
        BY <4>2, <4>3, Zenon
      <4> QED BY <3>2, <4>4
    <3> QED BY <3>1, <3>2 DEF ConfigRest
  <2>5. \A i \in Jobs : job'[i] \in Ended \cup Opened
    BY <2>1, <2>3, <2>4
  <2>6. Ended' = Ended /\ Opened' = Opened
    BY <2>1 DEF Ended, Opened, Changes
  <2>7. answer' \in AnswerTypes
    BY <2>1 DEF NoAnswer, AnswerTypes
  <2>8. begun' \in 0..MaxJobs /\ applied' \in Packages
    BY <2>1, RouterConfigAssumption DEF ConfigRest
  <2> QED BY <2>5, <2>6, <2>7, <2>8 DEF ConfigRest
<1>2. ASSUME NEW j \in Jobs, CannotOpen(j) PROVE ConfigRest'
  BY <1>2 DEF CannotOpen, ConfigRest, AnswerTypes, Ended, Opened, Changes
<1>3. CASE UNCHANGED configVars
  BY <1>3 DEF configVars, ConfigRest, Ended, Opened, Changes
<1>4. 0 \in Attempts
  BY ConfigBounds
<1> QED BY <1>1, <1>2, <1>3, <1>4, ScriptKeepsTypes DEF ConfigNext, ScriptActions

LEMMA ConfigRestInit == ConfigInit => ConfigRest
<1> SUFFICES ASSUME ConfigInit PROVE ConfigRest
  OBVIOUS
<1>1. applied \in Packages
  BY ScriptsInitInv DEF ConfigInit, ScriptsInv, ConfigTypes
<1>2. 0 \in 0..MaxJobs
  BY RouterConfigAssumption
<1> QED BY <1>1, <1>2 DEF ConfigInit, ConfigRest, Ended, NoAnswer, AnswerTypes

-----------------------------------------------------------------------------
(* How long archives and dumps are.                                         *)

\* A script dumps a line of what it reads at most once, and writes no block
\* after the last.
ScriptLength(s) ==
    /\ s.at \in {"idle", "create", "write", "count", "open"} => s.dump = <<>>
    /\ s.at \in {"idle", "create"} => s.offset = 0
    /\ s.at = "write" => s.offset < LastBlock
    /\ s.at = "dump" => Len(s.dump) <= s.offset
    /\ Len(s.dump) <= LastBlock

BackupSizes ==
    /\ routerConfig \in 1..MaxConfigs
    /\ \A j \in Makers : Len(archive[j]) <= LastBlock /\ ScriptLength(onRouter[j])

LEMMA SizesAre == BackupsInv /\ BackupSizes => BackupsTypeOK
<1> SUFFICES ASSUME BackupsInv, BackupSizes PROVE BackupsTypeOK
  OBVIOUS
<1>1. \A j \in Makers : onRouter[j] \in OnRouters /\ backup[j].is \in {"pending", "succeeded", "failed"}
  BY DEF BackupsInv, BackupsTypes
<1> QED BY <1>1 DEF BackupsInv, BackupsTypes, BackupSizes, BackupsTypeOK, ScriptLength, OnRouters

LEMMA NothingDumped == Len(<<>>) = 0 /\ 0 <= LastBlock /\ 0 < LastBlock /\ LastBlock \in Nat
BY LastBlockIs

LEMMA BackupSizesInit == BackupsInit => BackupSizes
<1> SUFFICES ASSUME BackupsInit PROVE BackupSizes
  OBVIOUS
<1>1. \A j \in Makers : archive[j] = <<>> /\ onRouter[j] = Unstarted
  BY DEF BackupsInit
<1>2. ScriptLength(Unstarted)
  BY NothingDumped DEF Unstarted, ScriptLength
<1>3. routerConfig \in 1..MaxConfigs
  BY BackupsAssumption DEF BackupsInit
<1> QED BY <1>1, <1>2, <1>3, NothingDumped DEF BackupSizes

\* A step of one script that makes it s, and writes at most one archive.
LEMMA SizesStay ==
    ASSUME BackupsInv, BackupSizes, NEW j \in Makers, NEW s, onRouter' = [onRouter EXCEPT ![j] = s],
           ScriptLength(s), UNCHANGED routerConfig,
           \A f \in Makers : Len(archive'[f]) <= LastBlock
    PROVE  BackupSizes'
<1>1. onRouter \in [Makers -> OnRouters]
  BY DEF BackupsInv, BackupsTypes
<1>2. \A k \in Makers : onRouter'[k] = s \/ onRouter'[k] = onRouter[k]
  BY <1>1
<1> QED BY <1>2 DEF BackupSizes, ScriptLength

LEMMA BackupSizesStep == BackupsInv /\ BackupSizes /\ [BackupsNext]_backupVars => BackupSizes'
<1> SUFFICES ASSUME BackupsInv, BackupSizes, [BackupsNext]_backupVars PROVE BackupSizes'
  OBVIOUS
<1>1. \A f \in Makers : Len(archive[f]) <= LastBlock /\ archive[f] \in Dumps
  BY DEF BackupSizes, BackupsInv, BackupsTypes
<1>2. \A k \in Makers : onRouter[k] \in OnRouters /\ ScriptLength(onRouter[k])
  BY DEF BackupSizes, BackupsInv, BackupsTypes
<1>3. ASSUME NEW j \in Makers, StartBackup(j) PROVE BackupSizes'
  <2> DEFINE s == [Unstarted EXCEPT !.at = "create", !.config = routerConfig]
  <2>1. onRouter' = [onRouter EXCEPT ![j] = s] /\ UNCHANGED <<routerConfig, archive>>
    BY <1>3 DEF StartBackup
  <2>2. s.at = "create" /\ s.dump = <<>> /\ s.offset = 0
    BY UnstartedIs DEF BackupsInv, BackupsTypes
  <2>3. ScriptLength(s)
    BY <2>2, NothingDumped DEF ScriptLength
  <2> QED BY <1>1, <2>1, <2>3, SizesStay
<1>4. ASSUME NEW j \in Makers, CreateArchive(j) PROVE BackupSizes'
  <2> DEFINE into == IF path = NoPath THEN j ELSE path
             s == [onRouter[j] EXCEPT !.at = "write", !.file = into]
  <2>1. /\ onRouter[j].at = "create" /\ onRouter' = [onRouter EXCEPT ![j] = s]
        /\ archive' = [archive EXCEPT ![into] = <<>>] /\ UNCHANGED routerConfig
    BY <1>4 DEF CreateArchive
  <2>2. s.at = "write" /\ s.dump = <<>> /\ s.offset = 0
    BY <1>2, <2>1 DEF ScriptLength, OnRouters
  <2>3. ScriptLength(s)
    BY <2>2, NothingDumped DEF ScriptLength
  <2>4. archive \in [Makers -> Dumps]
    BY DEF BackupsInv, BackupsTypes
  <2>5. \A f \in Makers : archive'[f] = <<>> \/ archive'[f] = archive[f]
    BY <2>1, <2>4
  <2>6. \A f \in Makers : Len(archive'[f]) <= LastBlock
    BY <1>1, <2>5, NothingDumped
  <2> QED BY <2>1, <2>3, <2>6, SizesStay
<1>5. ASSUME NEW j \in Makers, WriteBlock(j) PROVE BackupSizes'
  <2> DEFINE i == onRouter[j].offset + 1
             b == Block(onRouter[j].config, i)
             f == onRouter[j].file
             next == IF i = LastBlock THEN "count" ELSE "write"
             s == [onRouter[j] EXCEPT !.offset = i, !.at = next]
  <2>1. /\ onRouter[j].at = "write" /\ onRouter' = [onRouter EXCEPT ![j] = s]
        /\ archive' = [archive EXCEPT ![f] = Written(archive[f], i, b)] /\ UNCHANGED routerConfig
    BY <1>5 DEF WriteBlock
  <2>2. onRouter[j].offset \in Nat /\ i <= LastBlock /\ i \in Nat /\ onRouter[j].dump = <<>>
        /\ f \in Makers
    BY <1>2, <2>1, LastBlockIs DEF ScriptLength, OnRouters, BackupsInv, BackupsTypes
  <2>3. next \in {"count", "write"} /\ (next = "write" => i < LastBlock)
    BY <2>2, LastBlockIs
  <2>4. s.at = next /\ s.dump = <<>> /\ s.offset = i
    BY <1>2, <2>2 DEF OnRouters
  <2>5. ScriptLength(s)
    BY <2>3, <2>4, NothingDumped DEF ScriptLength
  <2>6. b \in Nat \X Nat
    BY <1>2, <2>2 DEF Block, OnRouters
  <2> HIDE DEF b
  <2>7. ASSUME NEW blocks \in Dumps, Len(blocks) <= LastBlock PROVE Len(Written(blocks, i, b)) <= LastBlock
    <3> DEFINE n == IF i > Len(blocks) THEN i ELSE Len(blocks)
    <3>1. Len(blocks) \in Nat /\ DOMAIN blocks = 1..Len(blocks)
          /\ \A k \in DOMAIN blocks : blocks[k] \in Nat \X Nat
      BY <2>7 DEF Dumps
    <3>2. n \in Nat /\ n <= LastBlock
      BY <2>2, <2>7, <3>1
    <3>3. Written(blocks, i, b) \in [1..n -> Nat \X Nat]
      BY <2>6, <3>1 DEF Written
    <3> HIDE DEF n
    <3>4. Written(blocks, i, b) \in Seq(Nat \X Nat) /\ DOMAIN Written(blocks, i, b) = 1..n
      BY <3>2, <3>3
    <3>5. Len(Written(blocks, i, b)) = n
      BY <3>2, <3>4, LenProperties
    <3> QED BY <3>2, <3>5
  <2> HIDE DEF s
  <2>8. \A g \in Makers : archive'[g] = archive[g] \/ archive'[g] = Written(archive[f], i, b)
    BY <2>1, <2>2 DEF BackupsInv, BackupsTypes
  <2>9. \A g \in Makers : Len(archive'[g]) <= LastBlock
    BY <1>1, <2>2, <2>7, <2>8
  <2> QED BY <2>1, <2>5, <2>9, SizesStay
<1>6. ASSUME NEW j \in Makers, DumpBlock(j) PROVE BackupSizes'
  <2> DEFINE i == onRouter[j].offset + 1
             blocks == archive[onRouter[j].file]
             same == i > 1 /\ blocks[i] = blocks[i - 1]
             dumped == IF same THEN onRouter[j].dump ELSE Append(onRouter[j].dump, blocks[i])
             s == [onRouter[j] EXCEPT !.offset = i, !.dump = dumped]
             t == [onRouter[j] EXCEPT !.at = "remove"]
  <2>1. /\ onRouter[j].at = "dump" /\ UNCHANGED <<routerConfig, archive>>
        /\ \/ i \in DOMAIN blocks /\ onRouter' = [onRouter EXCEPT ![j] = s]
           \/ i \notin DOMAIN blocks /\ onRouter' = [onRouter EXCEPT ![j] = t]
    BY <1>6 DEF DumpBlock
  <2>2. /\ onRouter[j] \in OnRouters /\ onRouter[j].offset \in Nat /\ onRouter[j].dump \in Dumps
        /\ onRouter[j].file \in Makers /\ Len(onRouter[j].dump) <= onRouter[j].offset
        /\ Len(onRouter[j].dump) <= LastBlock /\ blocks \in Dumps /\ Len(blocks) <= LastBlock
    BY <1>1, <1>2, <2>1 DEF ScriptLength, OnRouters, BackupsInv, BackupsTypes
  <2>3. CASE i \in DOMAIN blocks /\ onRouter' = [onRouter EXCEPT ![j] = s]
    <3>1. i <= LastBlock /\ blocks[i] \in Nat \X Nat
      BY <2>2, <2>3, LastBlockIs DEF Dumps
    <3>2. Append(onRouter[j].dump, blocks[i]) \in Dumps
          /\ Len(Append(onRouter[j].dump, blocks[i])) = Len(onRouter[j].dump) + 1
      BY <2>2, <3>1, AppendProperties DEF Dumps
    <3>3. Len(onRouter[j].dump) \in Nat
      BY <2>2, LenProperties DEF Dumps
    <3>4. Len(dumped) <= i
      BY <2>2, <3>2, <3>3
    <3>5. Len(dumped) \in Nat
      BY <3>2, <3>3
    <3> HIDE DEF dumped
    <3>6. s.at = "dump" /\ s.dump = dumped /\ s.offset = i
      BY <2>1, <2>2 DEF OnRouters
    <3>7. ScriptLength(s)
      BY <2>2, <3>1, <3>4, <3>5, <3>6, LastBlockIs DEF ScriptLength
    <3> HIDE DEF s
    <3> QED BY <1>1, <2>1, <2>3, <3>7, SizesStay
  <2>4. CASE i \notin DOMAIN blocks /\ onRouter' = [onRouter EXCEPT ![j] = t]
    <3>1. t.at = "remove" /\ t.dump = onRouter[j].dump
      BY <2>2 DEF OnRouters
    <3>2. ScriptLength(t)
      BY <2>2, <3>1 DEF ScriptLength
    <3> HIDE DEF t
    <3> QED BY <1>1, <2>1, <2>4, <3>2, SizesStay
  <2> QED BY <2>1, <2>3, <2>4
<1>7. ASSUME NEW j \in Makers, ArchiveFails(j) \/ RemoveArchive(j) \/ ScriptDies(j) PROVE BackupSizes'
  <2>1. PICK at \in {"failed", "ended"} : onRouter' = [onRouter EXCEPT ![j] = [onRouter[j] EXCEPT !.at = at]]
    BY <1>7 DEF ArchiveFails, AfterFailure, RemoveArchive, ScriptDies
  <2>2. UNCHANGED <<routerConfig, archive>>
    BY <1>7 DEF ArchiveFails, RemoveArchive, ScriptDies
  <2> DEFINE s == [onRouter[j] EXCEPT !.at = at]
  <2>3. s.at = at /\ s.dump = onRouter[j].dump
    BY <1>2 DEF OnRouters
  <2>4. ScriptLength(s)
    BY <1>2, <2>3 DEF ScriptLength
  <2> HIDE DEF s
  <2>5. onRouter' = [onRouter EXCEPT ![j] = s]
    BY <2>1 DEF s
  <2> QED BY <1>1, <2>2, <2>4, <2>5, SizesStay
<1>8. ASSUME NEW j \in Makers, CountBytes(j) PROVE BackupSizes'
  <2> DEFINE n == IF path = NoPath THEN NoCount ELSE Len(archive[path])
             s == [onRouter[j] EXCEPT !.at = "open", !.count = n]
  <2>1. /\ onRouter[j].at = "count" /\ onRouter' = [onRouter EXCEPT ![j] = s]
        /\ UNCHANGED <<routerConfig, archive>>
    BY <1>8 DEF CountBytes
  <2> HIDE DEF n
  <2>2. s.at = "open" /\ s.dump = onRouter[j].dump
    BY <1>2 DEF OnRouters
  <2>3. ScriptLength(s)
    BY <1>2, <2>1, <2>2 DEF ScriptLength
  <2> HIDE DEF s
  <2> QED BY <1>1, <2>1, <2>3, SizesStay
<1>9. ASSUME NEW j \in Makers, OpenDump(j) PROVE BackupSizes'
  <2> DEFINE next == IF path = NoPath THEN "failed" ELSE "dump"
             s == [onRouter[j] EXCEPT !.at = next, !.file = path, !.offset = 0]
  <2>1. /\ onRouter[j].at = "open" /\ onRouter' = [onRouter EXCEPT ![j] = s]
        /\ UNCHANGED <<routerConfig, archive>>
    BY <1>9 DEF OpenDump
  <2>2. next \in {"failed", "dump"}
    OBVIOUS
  <2> HIDE DEF next
  <2>3. s.at = next /\ s.dump = <<>> /\ s.offset = 0
    BY <1>2, <2>1 DEF OnRouters, ScriptLength
  <2>4. ScriptLength(s)
    BY <2>2, <2>3, NothingDumped DEF ScriptLength
  <2> HIDE DEF s
  <2> QED BY <1>1, <2>1, <2>4, SizesStay
<1>10. ASSUME NEW j \in Makers, Finish(j) \/ GiveUp(j) PROVE BackupSizes'
  BY <1>10 DEF Finish, GiveUp, BackupSizes, ScriptLength
<1>11. CASE Reconfigure
  <2>1. routerConfig' \in 1..MaxConfigs /\ UNCHANGED <<archive, onRouter>>
    BY <1>11, BackupsAssumption DEF Reconfigure, BackupSizes
  <2> QED BY <2>1 DEF BackupSizes, ScriptLength
<1>12. CASE UNCHANGED backupVars
  BY <1>12 DEF backupVars, BackupSizes, ScriptLength
<1> QED BY <1>3, <1>4, <1>5, <1>6, <1>7, <1>8, <1>9, <1>10, <1>11, <1>12 DEF BackupsNext

-----------------------------------------------------------------------------
(* The times of the speed test.                                             *)

SpeedTimes == moment \in 0..LastMoment /\ completed \in Never..LastMoment

LEMMA SpeedTypesAre == SpeedInv /\ SpeedTimes => SpeedTypeOK
<1> SUFFICES ASSUME SpeedInv, SpeedTimes PROVE SpeedTypeOK
  OBVIOUS
<1>1. \A r \in {latest} \cup {tester[p].result : p \in Testers} : r \in Measurements
  BY DEF SpeedInv, SpeedTypes
<1>2. \A r \in Measurements : r.of \in 0..MaxResults /\ r.measured \subseteq Transfers /\ r.complete \in BOOLEAN
  BY DEF Measurements
<1>3. \A p \in Testers : tester[p].at \in {"idle", "measuring", "measured", "lost", "storing"}
  BY DEF SpeedInv, SpeedTypes
<1>4. /\ targets \subseteq Transfers /\ busy \in BOOLEAN /\ overtaken \in BOOLEAN /\ results \in 0..MaxResults
  BY DEF SpeedInv, SpeedTypes
<1>5. \A r \in {latest} \cup {tester[p].result : p \in Testers} :
        r.of \in 0..MaxResults /\ r.measured \subseteq Transfers /\ r.complete \in BOOLEAN
  BY <1>1, <1>2
<1> QED BY <1>3, <1>4, <1>5 DEF SpeedTypeOK, SpeedTimes

LEMMA SpeedTimesKept ==
    /\ SpeedInit => SpeedTimes
    /\ SpeedTimes /\ [SpeedNext]_speedVars => SpeedTimes'
<1>1. SpeedInit => SpeedTimes
  BY SpeedTestAssumption DEF SpeedInit, SpeedTimes, Never
<1>2. ASSUME SpeedTimes, [SpeedNext]_speedVars PROVE SpeedTimes'
  <2>1. \/ UNCHANGED <<moment, completed>>
        \/ moment < LastMoment /\ moment' = moment + 1 /\ UNCHANGED completed
        \/ completed' = moment /\ UNCHANGED moment
    BY <1>2 DEF SpeedNext, Run, Measure, Complete, StoreResult, MomentPasses, speedVars
  <2> QED BY <1>2, <2>1, SpeedTestAssumption DEF SpeedTimes, Never
<1> QED BY <1>1, <1>2

LEMMA SessionTypesAre == SessionsInv => SessionsTypeOK
BY DEF SessionsInv, SessionsTypes, SessionsTypeOK, SessionRecords, Visits, Codes
=============================================================================
