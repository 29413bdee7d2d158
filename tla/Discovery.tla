----------------------------- MODULE Discovery -----------------------------
(***************************************************************************)
(* Discovery runs: the request that creates one, handle_discovery and its  *)
(* retries, and what discover_mdns and discover_lan make of the answers.   *)
(*                                                                         *)
(* External are the network's answers. Of a network count its addresses    *)
(* and, in the order of network.hosts(), those a host may have.            *)
(***************************************************************************)
EXTENDS AtLeastOnceQueue, Settings, SequencesExt

CONSTANTS
    Runs,            \* DiscoveryRun rows
    Networks,        \* what an administrator may type as CIDR
    ProbeAnswers,    \* what a host may answer to the probes: a set of services
    WsdAnswers,      \* what may answer the WS-Discovery probe
    MdnsAnswers      \* what may be announced while discover_mdns listens

Range1(f) == {f[x] : x \in DOMAIN f}

\* One worker, as docker/supervisord.conf starts it; the hosts of a network lie in it;
\* answers are sequences, and what mDNS announces are printers and scanners.
ASSUME DiscoveryAssumption ==
    /\ \A v, w \in Workers : v = w
    /\ \A n \in Networks : n.hosts \in Seq(n.addresses)
    /\ \A wsd \in WsdAnswers : wsd \in Seq(Range1(wsd))
    /\ \A announced \in MdnsAnswers :
        /\ announced \in Seq(Range1(announced))
        /\ \A x \in Range1(announced) : x.type \in {"printer", "scanner"}

VARIABLES
    run,             \* the DiscoveryRun rows
    runOf,           \* run_id of each task
    starting,        \* requests between the row and the task
    pc,              \* handle_discovery: where it is
    heard,           \* history: what the last discovery to complete had found
    dropped          \* history: runs whose request died before the task

discoveryVars == <<run, runOf, starting, pc, heard, dropped>>
vars == <<queueVars, settingsVars, discoveryVars>>

NoNetwork == [addresses |-> {}, hosts |-> <<>>]
NoRun == [state |-> "absent", kind |-> "mdns", network |-> NoNetwork, results |-> {},
          error |-> FALSE]
Live(t) == phase[t] \in {"waiting", "executing"}

-----------------------------------------------------------------------------
(* The rules of discovery.py.                                              *)

\* validate_private_cidr: a network address (no host bits), IPv4, within a private range,
\* /24 or smaller.
ValidCidr(n) == n.aligned /\ n.version = 4 /\ n.private /\ n.prefix >= 24

Result(host, type, protocol, port, txt) ==
    [address |-> host, type |-> type, protocol |-> protocol, uri |-> <<port, host>>, txt |-> txt]

\* _probe_host: the IPP port, eSCL without and with TLS, and HPLIP.
Probed(host, services) ==
    LET found(service, type, protocol) ==
            IF service \in services THEN <<Result(host, type, protocol, service, 0)>> ELSE <<>>
    IN  found("ipp", "printer", "ipp") \o found("escl", "scanner", "airscan-escl")
        \o found("escls", "scanner", "airscan-escl") \o found("hpaio", "scanner", "hpaio")

WsdScanner(host) == Result(host, "scanner", "airscan-wsd", "wsd", 0)

\* Fault: the address of the service is not looked at again.
TrustsMetadata(n, answers) ==
    FlattenSeq([i \in DOMAIN answers |->
        IF answers[i].at \in n.addresses THEN <<WsdScanner(answers[i].hosted)>> ELSE <<>>])

\* _discover_wsd_scanners: both the address that matched the probe and the one its
\* metadata names must lie in the network. (Equal URIs are equal results; whatever is
\* malformed, oversized, no scanner or does not answer in time is no answer.)
WsdScanners(n, answers) ==
    FlattenSeq([i \in DOMAIN answers |->
        IF answers[i].at \in n.addresses /\ answers[i].hosted \in n.addresses
        THEN <<WsdScanner(answers[i].hosted)>> ELSE <<>>])

Priority(protocol) ==
    CASE protocol = "airscan-escl" -> 0 [] protocol = "airscan-wsd" -> 1
      [] protocol = "hpaio" -> 2 [] OTHER -> 99

\* Fault: the comparison is the wrong way round.
PrefersLast(new, old) == Priority(new.protocol) >= Priority(old.protocol)

\* Whether a scanner takes the place of the one selected before.
Preferred(new, old) == Priority(new.protocol) < Priority(old.protocol)

\* selected[key] = result.
Put(selected, key, x) == [k \in DOMAIN selected \cup {key} |-> IF k = key THEN x ELSE selected[k]]

\* The loop of _deduplicate_results: printers by URI, the last one counts; scanners by
\* address, the best driver counts.
TakeBest(selected, x) ==
    LET key == IF x.type = "scanner" THEN <<"scanner", x.address>> ELSE <<x.type, x.uri>>
    IN  IF x.type = "scanner" /\ key \in DOMAIN selected /\ ~ Preferred(x, selected[key])
        THEN selected ELSE Put(selected, key, x)

Deduplicated(results) == Range1(FoldLeft(TakeBest, <<>>, results))

\* The loop of discover_mdns: by type and URI, the last announcement counts. (_Listener
\* hears an update as one more announcement, and what cannot be resolved or is withdrawn
\* not at all.)
TakeLast(unique, x) == Put(unique, <<x.type, x.uri>>, x)

LastAnnounced(results) == Range1(FoldLeft(TakeLast, <<>>, results))

\* discover_lan gathers the probes of all hosts, then the WSD scanners.
Gathered(n, answers, wsd) ==
    FlattenSeq([i \in DOMAIN n.hosts |-> Probed(n.hosts[i], answers[n.hosts[i]])])
    \o WsdScanners(n, wsd)

-----------------------------------------------------------------------------
(* The view discovery and the handler.                                     *)

Save(r, changes) == run' = [run EXCEPT ![r] = changes]

\* A run is created with a valid form ...
CreateRun(r, kind, n) ==
    /\ run[r] = NoRun
    /\ kind = "lan" => ValidCidr(n)
    /\ Save(r, [NoRun EXCEPT !.state = "pending", !.kind = kind, !.network = n])
    /\ starting' = starting \cup {r}
    /\ UNCHANGED <<queueVars, settingsVars, runOf, pc, heard, dropped>>

\* ... and its task is enqueued, with the retry limit as it is read now.
EnqueueRun(r) ==
    /\ r \in starting
    /\ starting' = starting \ {r}
    /\ \E t \in Tasks :
        /\ phase[t] = "absent" /\ \A u \in 1..(t - 1) : phase[u] # "absent"
        /\ Submit(t)
        /\ limit'[t] = RetryLimit
        /\ runOf' = [runOf EXCEPT ![t] = {r}]
    /\ UNCHANGED <<settingsVars, run, pc, heard, dropped>>

\* The process dies in between.
RequestDies(r) ==
    /\ r \in starting
    /\ starting' = starting \ {r}
    /\ dropped' = dropped \cup {r}
    /\ UNCHANGED <<queueVars, settingsVars, run, runOf, pc, heard>>

StartTask(t) ==
    /\ \E w \in Workers : Start(w, t)
    /\ pc' = "begin"
    /\ UNCHANGED <<settingsVars, run, runOf, starting, heard, dropped>>

Running(t, r, at) == phase[t] = "executing" /\ runOf[t] = {r} /\ pc = at

\* The run is loaded and saved as RUNNING; results and error of an earlier attempt stay.
RunStarts(t, r) ==
    /\ Running(t, r, "begin")
    /\ Save(r, [run[r] EXCEPT !.state = "running"])
    /\ pc' = "discovering"
    /\ UNCHANGED <<queueVars, settingsVars, runOf, starting, heard, dropped>>

\* The results and COMPLETE are saved; the error of an earlier attempt stays.
Completes(t, r, gathered, results) ==
    /\ Running(t, r, "discovering")
    /\ heard' = [heard EXCEPT ![r] = gathered]
    /\ Save(r, [run[r] EXCEPT !.state = "complete", !.results = results])
    /\ pc' = "return"
    /\ UNCHANGED <<queueVars, settingsVars, runOf, starting, dropped>>

DiscoverMdns(t, r, announced) ==
    /\ run[r].kind = "mdns"
    /\ Completes(t, r, announced, LastAnnounced(announced))

DiscoverLan(t, r, answers, wsd) ==
    /\ run[r].kind = "lan"
    /\ LET gathered == Gathered(run[r].network, answers, wsd) IN
        Completes(t, r, gathered, Deduplicated(gathered))

\* Fault: a failed run is reported to the task only.
FailsQuietly(t, r) ==
    /\ Running(t, r, "discovering")
    /\ pc' = "raise"
    /\ UNCHANGED <<queueVars, settingsVars, run, runOf, starting, heard, dropped>>

\* Fault: the run takes the name of the task's state.
FailsAsTask(t, r) ==
    /\ Running(t, r, "discovering")
    /\ Save(r, [run[r] EXCEPT !.state = "retry", !.error = TRUE])
    /\ pc' = "raise"
    /\ UNCHANGED <<queueVars, settingsVars, runOf, starting, heard, dropped>>

\* Anything raises, one host's malformed HTTP answer among it: FAILED and the error are
\* saved, with the results the row had.
DiscoveryFails(t, r) ==
    /\ Running(t, r, "discovering")
    /\ Save(r, [run[r] EXCEPT !.state = "failed", !.error = TRUE])
    /\ pc' = "raise"
    /\ UNCHANGED <<queueVars, settingsVars, runOf, starting, heard, dropped>>

\* process_one after the handler.
EndTask(t) ==
    /\ \/ pc = "return" /\ Succeed(t)
       \/ pc = "raise" /\ Fail(t)
    /\ pc' = "idle"
    /\ UNCHANGED <<settingsVars, run, runOf, starting, heard, dropped>>

\* The worker dies (bound: once for each task, in its first execution).
WorkerDies(t) ==
    /\ tries[t] = 1
    /\ Lose(t)
    /\ pc' = "idle"
    /\ UNCHANGED <<settingsVars, run, runOf, starting, heard, dropped>>

-----------------------------------------------------------------------------
Init ==
    /\ QueueInit
    /\ SettingsInit
    /\ run = [r \in Runs |-> NoRun]
    /\ runOf = [t \in Tasks |-> {}]
    /\ starting = {}
    /\ pc = "idle"
    /\ heard = [r \in Runs |-> <<>>]
    /\ dropped = {}

HandlerStep(t) ==
    \/ \E r \in Runs :
        \/ RunStarts(t, r) \/ DiscoveryFails(t, r)
        \/ \E announced \in MdnsAnswers : DiscoverMdns(t, r, announced)
        \/ \E answers \in [Range1(run[r].network.hosts) -> ProbeAnswers], wsd \in WsdAnswers :
            DiscoverLan(t, r, answers, wsd)
    \/ EndTask(t)

Next ==
    \/ SettingsNext /\ UNCHANGED <<queueVars, discoveryVars>>
    \/ \E r \in Runs :
        \/ \E n \in Networks : CreateRun(r, "lan", n)
        \/ CreateRun(r, "mdns", NoNetwork) \/ EnqueueRun(r) \/ RequestDies(r)
    \/ \E t \in Tasks : StartTask(t) \/ HandlerStep(t) \/ WorkerDies(t)

Spec == Init /\ [][Next]_vars

\* The worker's loop goes on and handlers end (listening and every probe have time-outs);
\* a request that created its run goes on or dies.
FairSpec ==
    /\ Spec
    /\ WF_vars(\E t \in Tasks : StartTask(t))
    /\ WF_vars(\E t \in Tasks : HandlerStep(t))
    /\ \A r \in Runs : WF_vars(EnqueueRun(r) \/ RequestDies(r))
-----------------------------------------------------------------------------
\* Type invariant: the run rows hold values of their kinds.
TypeOK ==
    /\ \A r \in Runs :
        /\ run[r].state \in {"absent", "pending", "running", "complete", "failed"}
        /\ run[r].kind \in {"mdns", "lan"}
        /\ run[r].network \in Networks \cup {NoNetwork}
        /\ \A x \in run[r].results : x.type \in {"printer", "scanner"}
        /\ run[r].error \in BOOLEAN
    /\ runOf \in [Tasks -> SUBSET Runs]
    /\ starting \cup dropped \subseteq Runs
    /\ pc \in {"idle", "begin", "discovering", "return", "raise"}
    /\ stored \in [Keys -> Int \cup {NoRow, NoNumber}]

\* A run that shows as pending or running is going to be run, through failures, retries
\* and deaths of the worker, unless its request died before the task.
RunHasTask ==
    \A r \in Runs : run[r].state \in {"pending", "running"} =>
        \/ r \in starting \cup dropped
        \/ \E t \in Tasks : runOf[t] = {r} /\ Live(t)

\* Of a LAN scan every scanner found is offered once by address, with the best driver it
\* was found with, and every printer once by URI; of mDNS each service is offered once,
\* as it was announced last. (Without folds: this is the definition they are checked by.)
BestOf(kind, gathered, offered) ==
    /\ offered \subseteq Range1(gathered)
    /\ \A x \in Range1(gathered) : Cardinality({y \in offered :
           IF kind = "lan" /\ x.type = "scanner"
           THEN y.type = "scanner" /\ y.address = x.address
                /\ Priority(y.protocol) <= Priority(x.protocol)
           ELSE y.type = x.type /\ y.uri = x.uri
                /\ \A i \in DOMAIN gathered :
                       gathered[i].type = x.type /\ gathered[i].uri = x.uri /\ gathered[i] # y
                       => \E j \in (i + 1)..Len(gathered) : gathered[j] = y}) = 1

BestIsOffered == \A r \in Runs : BestOf(run[r].kind, heard[r], run[r].results)

\* A LAN scan offers nothing outside the network it was asked for, whatever answers.
ResultsInNetwork ==
    \A r \in Runs : run[r].kind = "lan" =>
        \A x \in run[r].results : x.address \in run[r].network.addresses

\* Whatever is stored, a task is given between one and ten attempts.
LimitsAreSane == \A t \in Tasks : phase[t] # "absent" => limit[t] \in 1..10

\* Every run comes to an end, complete or failed.
RunEnds ==
    \A r \in Runs : run[r].state \in {"pending", "running"} ~>
        run[r].state \in {"complete", "failed"} \/ r \in dropped
=============================================================================
