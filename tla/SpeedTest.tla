------------------------------- MODULE SpeedTest -------------------------------
(***************************************************************************)
(* The speed test: one run at a time, a pause after each, and the latest    *)
(* result kept.  Runs are threads; a run takes its turn under the lock,     *)
(* measures without it, gives its turn back under it, and stores its result *)
(* under it once more, when the next run may have begun.                    *)
(***************************************************************************)
EXTENDS Integers, FiniteSets

CONSTANTS
    Testers,    \* callers of the service
    Samples,    \* connections made to measure latency
    Cooldown,   \* time between two runs
    LastMoment, \* bound: where the clock stops
    MaxResults  \* bound: results measured

ASSUME SpeedTestAssumption == {Samples, Cooldown, LastMoment, MaxResults} \subseteq Nat

VARIABLES
    targets,    \* the transfers for which an address is configured
    busy,       \* _running
    completed,  \* _last_completed_at, or Never
    latest,     \* _latest, or NoResult
    tester,     \* tester[p]: where its call is, and its result
    moment,     \* the time
    results,    \* results measured so far
    overtaken   \* history: a run began before an earlier one stored its result

speedVars == <<targets, busy, completed, latest, tester, moment, results, overtaken>>

Transfers == {"download", "upload"}
Never == -1
NoResult == [of |-> 0, measured |-> {}, complete |-> FALSE]
Calls(at, result) == [at |-> at, result |-> result]
Idle == Calls("idle", NoResult)

SpeedTypeOK ==
    /\ targets \subseteq Transfers /\ busy \in BOOLEAN /\ overtaken \in BOOLEAN
    /\ moment \in 0..LastMoment /\ completed \in Never..LastMoment /\ results \in 0..MaxResults
    /\ \A r \in {latest} \cup {tester[p].result : p \in Testers} :
        r.of \in 0..MaxResults /\ r.measured \subseteq Transfers /\ r.complete \in BOOLEAN
    /\ \A p \in Testers : tester[p].at \in {"idle", "measuring", "measured", "lost", "storing"}

-----------------------------------------------------------------------------
(* Measuring.                                                              *)

\* The third connection that fails ends it; without one that succeeds there is
\* nothing to report.
LatencyMeasured(samples) ==
    LET failed == {i \in DOMAIN samples : ~ samples[i]}
    IN  Cardinality(failed) < 3 /\ failed # DOMAIN samples

\* A download of less than a kilobyte counts as failed, and so does a transfer
\* that raises; one that takes too long or brings enough is cut short and counts.
DownloadMeasured(outcome) == outcome \in {"cut short", "enough", "ended"}
UploadMeasured(outcome) == outcome = "ended"

\* What a transfer that fails, or is not configured, leaves is a limitation.
Result(measured) ==
    [of |-> results + 1, measured |-> measured, complete |-> measured = Transfers]

-----------------------------------------------------------------------------

MutantMayRun == completed = Never \/ moment - completed >= Cooldown
MayRun == ~ busy /\ (completed = Never \/ moment - completed >= Cooldown)

\* Who may not run is told so (409 or 429), and nothing changes.
Run(p) ==
    /\ tester[p] = Idle /\ results < MaxResults
    /\ MayRun
    /\ busy' = TRUE
    /\ tester' = [tester EXCEPT ![p] = Calls("measuring", NoResult)]
    /\ overtaken' = (overtaken \/ \E q \in Testers : tester[q].at = "storing")
    /\ UNCHANGED <<targets, completed, latest, moment, results>>

Measure(p) ==
    /\ tester[p].at = "measuring" /\ results < MaxResults
    /\ \E samples \in [1..Samples -> BOOLEAN],
          download \in {"raised", "short", "cut short", "enough", "ended"}, upload \in {"raised", "ended"} :
        LET measured == {t \in targets : IF t = "download" THEN DownloadMeasured(download)
                                         ELSE UploadMeasured(upload)}
        IN  IF LatencyMeasured(samples)
              THEN /\ tester' = [tester EXCEPT ![p] = Calls("measured", Result(measured))]
                   /\ results' = results + 1
              ELSE tester' = [tester EXCEPT ![p] = Calls("lost", NoResult)] /\ UNCHANGED results
    /\ UNCHANGED <<targets, busy, completed, latest, moment, overtaken>>

\* Its turn is over, and the pause begins, whether or not there is a result.
Complete(p) ==
    /\ tester[p].at \in {"measured", "lost"}
    /\ busy' = FALSE /\ completed' = moment
    /\ tester' = [tester EXCEPT ![p] = IF @.at = "measured" THEN Calls("storing", @.result) ELSE Idle]
    /\ UNCHANGED <<targets, latest, moment, results, overtaken>>

StoreResult(p) ==
    /\ tester[p].at = "storing"
    /\ latest' = tester[p].result
    /\ tester' = [tester EXCEPT ![p] = Idle]
    /\ UNCHANGED <<targets, busy, completed, moment, results, overtaken>>

MomentPasses ==
    /\ moment < LastMoment
    /\ moment' = moment + 1
    /\ UNCHANGED <<targets, busy, completed, latest, tester, results, overtaken>>

SpeedInit ==
    /\ targets \in SUBSET Transfers
    /\ busy = FALSE /\ completed = Never /\ latest = NoResult
    /\ tester = [p \in Testers |-> Idle]
    /\ moment = 0 /\ results = 0 /\ overtaken = FALSE

SpeedNext ==
    \/ \E p \in Testers : Run(p) \/ Measure(p) \/ Complete(p) \/ StoreResult(p)
    \/ MomentPasses

-----------------------------------------------------------------------------
(* Properties.                                                             *)

\* No two runs measure at once, nor does one that failed leave the service busy
\* for ever ("at most one test runs at a time"); and what latest() gives is the
\* newest result there is, unless its run has still to store it.  A run held up
\* for longer than the pause after it gave its turn back may store its result
\* over that of the next one, which is left aside.
LatestIsNewest ==
    /\ busy <=> \E p \in Testers : tester[p].at \in {"measuring", "measured", "lost"}
    /\ \A p, q \in Testers : {tester[p].at, tester[q].at} \subseteq {"measuring", "measured", "lost"} => p = q
    /\ latest.of = results \/ overtaken
       \/ \E p \in Testers : tester[p].at \in {"measured", "storing"} /\ tester[p].result.of = results
    /\ latest.complete => targets = Transfers
=============================================================================
