----------------------------- MODULE RouterConfig -----------------------------
(***************************************************************************)
(* What the configuration jobs of RouterManagementService do on the router. *)
(*                                                                         *)
(* A job is one shell script sent over SSH: it stages a change with uci,    *)
(* commits the package and reloads the service, and stops at the first      *)
(* command that fails.  SSHClient.run sends the script again when the       *)
(* session is lost, and the script of the lost session may go on, so one    *)
(* job can have several scripts at work on the router, which interleave     *)
(* with each other and with those of other jobs.  uci keeps what is staged  *)
(* per package, whoever staged it, and a commit writes all of it.           *)
(*                                                                         *)
(* The jobs are about one section of one package, `target`; of the section  *)
(* the option that enables or disables it is kept, and of the package how   *)
(* many entries (static leases, upstream servers) were added to it.         *)
(***************************************************************************)
EXTENDS Integers

CONSTANTS
    Jobs,           \* jobs of the store, each of which may be asked for again
    RetryCount,     \* SSHConfig.retry_count
    MaxAdded,       \* bound: no script adds an entry when there are that many
    MaxJobs         \* bound: jobs ever begun

ASSUME RouterConfigAssumption == {RetryCount, MaxAdded, MaxJobs} \subseteq Nat

VARIABLES
    target,         \* the section the jobs are about
    staged,         \* the package as uci shows it, what is staged included
    committed,      \* the package as /etc/config holds it
    applied,        \* the package as the service runs with it
    job,            \* job[j]: the change j makes and its current attempt, and
                    \* of its past: has no other job's script been beside its
                    \* own, and what had been added when it began
    script,         \* script[j][k]: where the script of attempt k stands
    answer,         \* the result and the status of a job that has just ended
    begun,          \* jobs begun so far
    cut,            \* history: a script has stopped short of its end
    unloaded        \* history: a change was committed that nothing reloads

configVars == <<target, staged, committed, applied, job, script, answer, begun,
                cut, unloaded>>

Targets ==
    {"firewall", "ssid", "radio", "openvpn", "network", "system", "dnsmasq", "host"}

Packages == [option : {"absent", "0", "1", "no section"}, added : 0..MaxAdded]

\* A change: what it stages, and whether it reloads the service.
Change(is, value, reloads) == [is |-> is, value |-> value, reloads |-> reloads]

Sets(values) == {Change("set", v, TRUE) : v \in values}
Deletes == {Change("unset", "absent", TRUE)}
Reloads == {Change("reload", "absent", TRUE)}

\* A zone, rule or forwarding is switched by its option, the firewall as a whole
\* (defaults) by unsetting it.
FirewallChanges == Sets({"0", "1"}) \cup Deletes \cup Reloads
SsidChanges == Sets({"0", "1"}) \cup Reloads
RadioChanges == Sets({"1"}) \cup Deletes \cup Reloads
VpnChanges == Sets({"0", "1"})
NetworkChanges == Sets({"1"}) \cup Deletes
SystemChanges == Sets({"0", "1"}) \cup Deletes
DhcpServerChanges == Sets({"0", "1"}) \cup Reloads
HostChanges ==
    {Change("add", "absent", TRUE), Change("edit", "absent", TRUE),
     Change("delete", "absent", TRUE),
     Change("set", "0", FALSE), Change("unset", "absent", FALSE)}
DnsChanges ==
    Sets({"0", "1"}) \cup {Change("add", "absent", TRUE), Change("clear", "absent", TRUE)}

ChangesTo ==
    [firewall |-> FirewallChanges, ssid |-> SsidChanges, radio |-> RadioChanges,
     openvpn |-> VpnChanges, network |-> NetworkChanges, system |-> SystemChanges,
     dnsmasq |-> DhcpServerChanges \cup DnsChanges, host |-> HostChanges]
Changes == ChangesTo[target]

\* The script's exit status is not that of its commands.
AlwaysOk == target = "system"

Closed(change) ==
    [change |-> change, attempt |-> 0, open |-> FALSE, alone |-> FALSE, had |-> 0]
NoJob == Closed([is |-> "none"])
NoAnswer == [ok |-> FALSE, status |-> "none"]
Attempts == 0..RetryCount
Alive(j, k) == script[j][k] # "none"
Busy == \E j \in Jobs, k \in Attempts : Alive(j, k)

ConfigTypeOK ==
    /\ target \in Targets
    /\ {staged, committed, applied} \subseteq Packages
    /\ \A j \in Jobs : \/ job[j] \in {NoJob} \cup {Closed(change) : change \in Changes}
                       \/ job[j] \in [change : Changes, attempt : Attempts, open : {TRUE},
                                    alone : BOOLEAN, had : 0..MaxAdded]
    /\ script \in [Jobs -> [Attempts -> {"none", "stage", "commit", "reload"}]]
    /\ answer \in [ok : BOOLEAN, status : {"none", "succeeded", "failed"}]
    /\ begun \in 0..MaxJobs
    /\ cut \in BOOLEAN /\ unloaded \in BOOLEAN

-----------------------------------------------------------------------------
(* A job and its attempts.                                                 *)

First(change) == IF change.is = "reload" THEN "reload" ELSE "stage"

Begin(j, change) ==
    /\ ~ job[j].open /\ begun < MaxJobs
    /\ \A k \in Attempts : ~ Alive(j, k)
    /\ job' = [i \in Jobs |->
           IF i = j THEN [change |-> change, attempt |-> 0, open |-> TRUE,
                          alone |-> ~ Busy, had |-> staged.added]
           ELSE [job[i] EXCEPT !.alone = FALSE]]
    /\ script' = [script EXCEPT ![j][0] = First(change)]
    /\ begun' = begun + 1
    /\ answer' = NoAnswer
    /\ UNCHANGED <<target, staged, committed, applied, cut, unloaded>>

\* No session can be opened: the job function raises before it sends anything.
CannotOpen(j) ==
    /\ ~ job[j].open
    /\ answer' = [ok |-> FALSE, status |-> "failed"]
    /\ UNCHANGED <<target, staged, committed, applied, job, script, begun, cut, unloaded>>

\* The status each job function makes of a script's result.
Shown(ok) == IF ok THEN "succeeded" ELSE "failed"
FirewallJob(ok) == Shown(ok)
WirelessJob(ok) == Shown(ok)
\* These take every result that is not an exception for a success.
FirewallToggleJob(ok) == "succeeded"
WirelessToggleJob(ok) == "succeeded"
VpnToggleJob(ok) == "succeeded"
NetworkJob(ok) == "succeeded"
SystemJob(ok) == "succeeded"
DhcpJob(ok) == "succeeded"
\* The helpers take the result apart as a pair, which it is not, and raise.
DnsJob(ok) == "failed"

Statuses(ok, change) ==
    CASE target = "firewall" -> {FirewallJob(ok)}
             \cup (IF change.is = "set" THEN {FirewallToggleJob(ok)} ELSE {})
      [] target = "ssid" -> {WirelessJob(ok)}
             \cup (IF change.is = "set" THEN {WirelessToggleJob(ok)} ELSE {})
      [] target = "radio" -> {WirelessJob(ok)}
      [] target = "openvpn" -> {VpnToggleJob(ok)}
      [] target = "network" -> {NetworkJob(ok)}
      [] target = "system" -> {SystemJob(ok)}
      [] target = "host" -> {DhcpJob(ok)}
      [] target = "dnsmasq" ->
             (IF change \in DhcpServerChanges THEN {DhcpJob(ok)} ELSE {})
             \cup (IF change \in DnsChanges THEN {DnsJob(ok)} ELSE {})

\* The change of a job that has ended matters while a script of it goes on.
\* `scripts` is where the scripts are as the step leaves them.
Rest(j, scripts) ==
    job' = [job EXCEPT ![j] = IF \A k \in Attempts : scripts[j][k] = "none" THEN NoJob
                              ELSE Closed(job[j].change)]

Answers(j, ok, scripts) ==
    /\ answer' \in [ok : {ok}, status : Statuses(ok, job[j].change)]
    /\ script' = scripts
    /\ Rest(j, scripts)

\* The session is lost: SSHClient.run begins the next attempt, or gives up.
LosesSession(j, scripts) ==
    LET k == job[j].attempt IN
    \/ /\ k < RetryCount
       /\ job' = [job EXCEPT ![j].attempt = k + 1]
       /\ script' = [scripts EXCEPT ![j][k + 1] = First(job[j].change)]
       /\ answer' = NoAnswer
    \/ k = RetryCount /\ Answers(j, FALSE, scripts)

Attached(j, k) == job[j].open /\ job[j].attempt = k

\* A script ends that nobody waits for.
Detached(j, scripts) ==
    /\ answer' = NoAnswer
    /\ script' = scripts
    /\ IF job[j].open THEN UNCHANGED job ELSE Rest(j, scripts)

\* A script ends, and if its session is still there, so does its job, unless
\* the answer is lost on its way.
ScriptEnds(j, k, ok) ==
    LET scripts == [script EXCEPT ![j][k] = "none"] IN
    \/ Attached(j, k) /\ Answers(j, ok \/ AlwaysOk, scripts)
    \/ Attached(j, k) /\ LosesSession(j, scripts)
    \/ ~ Attached(j, k) /\ Detached(j, scripts)

GoesOn(j, k, at) ==
    /\ script' = [script EXCEPT ![j][k] = at]
    /\ answer' = NoAnswer
    /\ UNCHANGED job

Lose(j) ==
    /\ job[j].open
    /\ LosesSession(j, script)
    /\ UNCHANGED <<target, staged, committed, applied, begun, cut, unloaded>>

-----------------------------------------------------------------------------
(* The commands of a script.                                               *)

\* What a change makes of a package, if it can.
MutantResults(change, package) ==
    IF change.is = "set" /\ package.option # "no section"
    THEN {[package EXCEPT !.option = change.value]} ELSE {package}
Results(change, package) ==
    CASE change.is = "add" -> {[package EXCEPT !.added = @ + 1]}
      [] change.is = "clear" -> {[package EXCEPT !.added = 0]}
      [] OTHER ->
           IF package.option = "no section" THEN {}
           ELSE CASE change.is = "set" -> {[package EXCEPT !.option = change.value]}
                  [] change.is = "edit" -> {package}
                  [] change.is = "delete" -> {[package EXCEPT !.option = "no section"]}
                  [] change.is = "unset" ->
                       {[package EXCEPT !.option = "absent"]} \ {package}

\* What a script still has to do when it is stopped at one of its commands.
LeavesWork(j, at) == at = "commit" \/ (at = "reload" /\ job[j].change.is # "reload")

Stage(j, k) ==
    LET results == Results(job[j].change, staged) IN
    /\ script[j][k] = "stage"
    /\ \/ /\ staged' \in results /\ staged'.added <= MaxAdded
          /\ GoesOn(j, k, "commit")
       \/ results = {} /\ ScriptEnds(j, k, FALSE) /\ UNCHANGED staged
    /\ UNCHANGED <<target, committed, applied, begun, cut, unloaded>>

MutantAfterCommit(change) == "none"
AfterCommit(change) == IF change.reloads THEN "reload" ELSE "none"

Commit(j, k) ==
    LET next == AfterCommit(job[j].change) IN
    /\ script[j][k] = "commit"
    /\ committed' = staged
    /\ unloaded' = (unloaded \/ ~ job[j].change.reloads)
    /\ \/ next = "reload" /\ GoesOn(j, k, next)
       \/ next = "none" /\ ScriptEnds(j, k, TRUE)
    /\ UNCHANGED <<target, staged, applied, begun, cut>>

\* The service reads its package, with what is staged or without.
ReloadService(j, k) ==
    /\ script[j][k] = "reload"
    /\ applied' \in {staged, committed}
    /\ LET settled == staged = committed /\ applied' = committed IN
          /\ cut' = (cut /\ ~ settled)
          /\ unloaded' = (unloaded /\ ~ settled)
    /\ ScriptEnds(j, k, TRUE)
    /\ UNCHANGED <<target, staged, committed, begun>>

\* A commit fails for want of space, a reload for an error in the package.
CommandFails(j, k) ==
    /\ script[j][k] \in {"commit", "reload"}
    /\ cut' = (cut \/ LeavesWork(j, script[j][k]))
    /\ ScriptEnds(j, k, FALSE)
    /\ UNCHANGED <<target, staged, committed, applied, begun, unloaded>>

\* A script does not outlive its session for ever, or at all.
Stop(j, k) ==
    /\ Alive(j, k) /\ ~ Attached(j, k)
    /\ Detached(j, [script EXCEPT ![j][k] = "none"])
    /\ cut' = (cut \/ LeavesWork(j, script[j][k]))
    /\ UNCHANGED <<target, staged, committed, applied, begun, unloaded>>

-----------------------------------------------------------------------------

ConfigInit ==
    /\ target \in Targets
    /\ \E option \in {"absent", "1"} : staged = [option |-> option, added |-> 0]
    /\ committed = staged /\ applied = staged
    /\ job = [j \in Jobs |-> NoJob]
    /\ script = [j \in Jobs |-> [k \in Attempts |-> "none"]]
    /\ answer = NoAnswer
    /\ begun = 0
    /\ cut = FALSE /\ unloaded = FALSE

ConfigNext ==
    \/ \E j \in Jobs : (\E change \in Changes : Begin(j, change)) \/ CannotOpen(j) \/ Lose(j)
    \/ \E j \in Jobs, k \in Attempts :
          Stage(j, k) \/ Commit(j, k) \/ ReloadService(j, k) \/ CommandFails(j, k) \/ Stop(j, k)

-----------------------------------------------------------------------------
(* Properties.                                                             *)

\* When no script is at work, nothing is left staged and the service runs with
\* what is committed, however the scripts of several jobs and attempts
\* interleaved: unless one of them was stopped short of its end, or it was a
\* host toggle, which reloads nothing (dhcp_toggle_host).
QuietRouterIsSettled ==
    (~ Busy /\ ~ cut) => staged = committed /\ (unloaded \/ applied = committed)

InForce(j, package) ==
    LET change == job[j].change
        old == job[j].had
    IN
    CASE change.is \in {"set", "unset"} -> package.option = change.value
      [] change.is = "delete" -> package.option = "no section"
      [] change.is = "add" -> package.added \in old + 1 .. old + 1 + job[j].attempt
      [] change.is = "clear" -> package.added = 0
      [] OTHER -> TRUE

\* A job whose script reported success while no other job's script was on the
\* router has its change committed, and in force if it reloads, however often
\* the script was sent; an entry is added once, or once more for every lost
\* session (dhcp_add_host, dns_add_server).  system_set_config reports success
\* whatever its commands do.
OkIsInForce ==
    [][\A j \in Jobs :
          (job[j].open /\ ~ job'[j].open /\ answer'.ok /\ job[j].alone /\ ~ AlwaysOk) =>
              /\ InForce(j, committed')
              /\ job[j].change.reloads => InForce(j, applied')
      ]_configVars

\* A job whose script reported success is reported as succeeded (run_dns_job:
\* "Execute a DNS change inside a tracked job").
SuccessIsReported == answer.ok => answer.status = "succeeded"
=============================================================================
