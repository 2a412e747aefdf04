----------------------------- MODULE Pipelined -----------------------------
(***************************************************************************)
(* The policy part of PipelinedRpcServicer (magma/pipelined/rpc_servicer.py)*)
(* and the concurrency it runs under.                                      *)
(*                                                                         *)
(* gRPC handler threads run the public RPC methods.  A method checks the   *)
(* capability of its app, for setup requests asks each controller group's *)
(* check_setup_request_epoch on the handler thread, then posts a callback  *)
(* to the single event loop with loop.call_soon_threadsafe and, except for *)
(* DeactivateFlows, blocks on fut.result().  The loop runs the posted      *)
(* callbacks one at a time in posting order; a callback is one step.       *)
(*                                                                         *)
(* The rule controllers (enforcement_stats, enforcer, gy) are external:    *)
(* each is abstracted to the set of rules it has installed per session key*)
(* (subscriber, address family), and a call reports SUCCESS exactly for    *)
(* the rules it installs.  Which rules fail is a free choice.              *)
(***************************************************************************)
EXTENDS Naturals, Sequences, FiniteSets, SequencesExt

CONSTANTS
  Threads,          \* gRPC handler threads
  Subscribers,      \* IMSIs
  StaticRules,      \* rule ids passed in request.rule_ids
  DynamicRules,     \* ids of rules passed in request.dynamic_rules
  AllRules,         \* model value: the session-wide version of update_version(imsi, ip)
  Epochs,           \* epochs a setup request may carry
  EnabledApps,      \* apps service_manager.is_app_enabled reports enabled
  SetupType,        \* service_config['setup_type']
  ActivateRequests, \* ActivateFlowsRequests callers may send
  DeactivateRequests,
  SetupRequests,    \* SetupPolicyFlows / SetupDefaultControllers requests
  RestartOutcomes,  \* which controllers' handle_restart may succeed together
  MaxCalls          \* bound: RPCs issued per thread

Fams    == {"V4", "V6"}
Origins == {"GX", "GY"}
Rules   == StaticRules \cup DynamicRules
Keys    == Subscribers \X Fams
Groups  == {"gy", "enforcer", "enforcement_stats", "inout"}

ASSUME StaticRules \cap DynamicRules = {}
ASSUME AllRules \notin Rules
ASSUME Epochs \subseteq Nat \ {0}
ASSUME EnabledApps \subseteq {"enforcement", "enforcement_stats"}
ASSUME SetupType \in {"LTE", "CWF"}
ASSUME MaxCalls \in Nat \ {0}
ASSUME RestartOutcomes \subseteq [{"enforcer", "gy", "enforcement_stats"} -> BOOLEAN]

StatsEnabled == "enforcement_stats" \in EnabledApps

(* Fault: gy is listed twice, so a setup fences itself at its second check.*)
SetupGroupsGyTwice(kind) ==
  IF kind = "policy" THEN <<"gy", "enforcer", "gy">>
                     ELSE <<"inout">>

(* Controller groups whose epoch a setup RPC checks, in the code's order.  *)
SetupGroups(kind) ==
  IF kind = "policy" THEN <<"gy", "enforcer", "enforcement_stats">>
                     ELSE <<"inout">>

(* Future results other than an ActivateFlowsResult.                      *)
NoResult   == [code |-> "none"]
SetupOk    == [code |-> "SUCCESS"]
UsageStats == [code |-> "USAGE"]
SetupFailed == [code |-> "FAILURE"]

VARIABLES
  pc,         \* per thread: "idle", "epoch", "post" or "wait"
  req,        \* per thread: the request of its current RPC
  epochIdx,   \* per thread: index into SetupGroups of the next epoch check
  calls,      \* per thread: RPCs issued so far
  fut,        \* per thread: the Future's result, NoResult until set
  queue,      \* callbacks posted to the event loop, in posting order
  lastEpoch,  \* per controller group: last accepted setup epoch
  stats,      \* per key: rules installed by enforcement_stats
  enf,        \* per key: rules installed by the enforcer app (Gx)
  gy,         \* per key: rules installed by the gy app
  version,    \* per key: session_rule_version_mapper counters
  prefixes,   \* subscribers whose IPv6 prefix was saved
  tunnels,    \* subscribers whose tunnel pair was saved
  reported,   \* <<counter, imsi, rule>> install-failure metrics incremented
  restarts    \* history: the setup callbacks the loop ran, in order

vars == <<pc, req, epochIdx, calls, fut, queue, lastEpoch, stats, enf, gy,
          version, prefixes, tunnels, reported, restarts>>
threadVars == <<pc, req, epochIdx, calls>>
ctrlVars   == <<stats, enf, gy, version, prefixes, tunnels, reported>>

-----------------------------------------------------------------------------
(* Rule results and the pure helpers at the end of rpc_servicer.py.        *)

(* A controller's per-rule results for the rules R it was asked to install.*)
(* fam is not a field of RuleModResult; it records which address family's *)
(* sub-operation produced the entry and is read only by properties.        *)
RuleResults(R, fail, f) ==
  SetToSeq({[rule_id |-> r, result |-> IF r \in fail THEN "FAILURE" ELSE "SUCCESS",
             fam |-> f] : r \in R})

EmptyResult == [static |-> <<>>, dynamic |-> <<>>]

(* activate_rules of a controller: results for static and dynamic rules.   *)
ActivateRules(staticIds, dynRules, fail, f) ==
  [static |-> RuleResults(staticIds, fail, f),
   dynamic |-> RuleResults(dynRules, fail, f)]

IsFailure(x) == x.result = "FAILURE"

RetrieveFailedResults(res) ==
  [static |-> SelectSeq(res.static, IsFailure),
   dynamic |-> SelectSeq(res.dynamic, IsFailure)]

FailedIds(results) == {results[i].rule_id : i \in DOMAIN results}

(* Fault: the static rule ids are passed on unfiltered.                   *)
FilterFailedStaticRuleIdsUnfiltered(r, failed) == r.static

FilterFailedStaticRuleIds(r, failed) == r.static \ FailedIds(failed)

FilterFailedDynamicRules(r, failed) == r.dynamic \ FailedIds(failed)

(* The rules a controller installed in one call: those it reports SUCCESS. *)
Succeeded(res) ==
  {x \in ToSet(res.static) \cup ToSet(res.dynamic) : x.result = "SUCCESS"}

SucceededIds(res) == {x.rule_id : x \in Succeeded(res)}

-----------------------------------------------------------------------------
(* One address family of an activation: _install_flows_gx / _install_flows_gy. *)

ActivateRulesInEnforcementStats(r, sFail, f) ==
  IF StatsEnabled THEN ActivateRules(r.static, r.dynamic, sFail, f)
                  ELSE EmptyResult

(* Fault: the enforcement_stats failures are not added to the answer.    *)
InstallFlowsNoStatsFailures(r, f, sFail, dFail) ==
  LET statsRes  == ActivateRulesInEnforcementStats(r, sFail, f)
      failed    == RetrieveFailedResults(statsRes)
      downRes   == ActivateRules(FilterFailedStaticRuleIds(r, failed.static),
                                 FilterFailedDynamicRules(r, failed.dynamic), dFail, f)
  IN [statsRes |-> statsRes, downRes |-> downRes, ret |-> downRes]

(* statsRes: enforcement_stats' results; downRes: the enforcer's (Gx) or   *)
(* gy's (Gy) results for the rules that did not fail in enforcement_stats; *)
(* ret: downRes extended with the enforcement_stats failures.              *)
InstallFlows(r, f, sFail, dFail) ==
  LET statsRes  == ActivateRulesInEnforcementStats(r, sFail, f)
      failed    == RetrieveFailedResults(statsRes)
      staticIds == FilterFailedStaticRuleIds(r, failed.static)
      dynRules  == FilterFailedDynamicRules(r, failed.dynamic)
      downRes   == ActivateRules(staticIds, dynRules, dFail, f)
  IN [statsRes |-> statsRes, downRes |-> downRes,
      ret |-> [static |-> downRes.static \o failed.static,
               dynamic |-> downRes.dynamic \o failed.dynamic]]

(* Fault: the IPv6 slice is processed and reported first.                 *)
ActivationFamsV6First(r) ==
  (IF r.v6 THEN <<"V6">> ELSE <<>>)
  \o (IF SetupType = "CWF" \/ r.v4 THEN <<"V4">> ELSE <<>>)

(* The families _activate_flows / _deactivate_flows process, in order.     *)
ActivationFams(r) ==
  (IF SetupType = "CWF" \/ r.v4 THEN <<"V4">> ELSE <<>>)
  \o (IF r.v6 THEN <<"V6">> ELSE <<>>)

(* update_version for the rule ids R (or {AllRules}) of every key in K.    *)
UpdateVersion(ver, K, R) ==
  [k \in DOMAIN ver |->
     IF k \in K THEN [x \in DOMAIN ver[k] |-> IF x \in R THEN ver[k][x] + 1
                                                       ELSE ver[k][x]]
                ELSE ver[k]]

FamKeys(r) == {<<r.sid, f>> : f \in ToSet(ActivationFams(r))}

(* Gx and Gy deactivate_rules: the named rules, or all if none are named.  *)
DeactivateRules(installed, K, ids) ==
  [k \in Keys |-> IF k \notin K THEN installed[k]
                  ELSE IF ids = {} THEN {} ELSE installed[k] \ ids]

(* handle_restart of a controller with the requests of one origin.         *)
SnapshotRules(snap, origin) ==
  [k \in Keys |-> {e.rule : e \in {e \in snap : e.origin = origin
                                               /\ <<e.sid, e.fam>> = k}}]

(* Fault: a restart adds the snapshot's rules to the installed ones.      *)
RestartedMerged(installed, snap, origin, ok) ==
  IF ok THEN [k \in Keys |-> installed[k] \cup SnapshotRules(snap, origin)[k]]
        ELSE installed

(* A controller's handle_restart: a successful one replaces its rules by   *)
(* the snapshot's; a failed one, an external outcome, leaves them.         *)
Restarted(installed, snap, origin, ok) ==
  IF ok THEN SnapshotRules(snap, origin) ELSE installed

-----------------------------------------------------------------------------
Init ==
  /\ pc        = [t \in Threads |-> "idle"]
  /\ req       = [t \in Threads |-> [rpc |-> "none"]]
  /\ epochIdx  = [t \in Threads |-> 1]
  /\ calls     = [t \in Threads |-> 0]
  /\ fut       = [t \in Threads |-> NoResult]
  /\ queue     = <<>>
  /\ lastEpoch = [g \in Groups |-> 0]
  /\ stats     = [k \in Keys |-> {}]
  /\ enf       = [k \in Keys |-> {}]
  /\ gy        = [k \in Keys |-> {}]
  /\ version   = [k \in Keys |-> [x \in Rules \cup {AllRules} |-> 0]]
  /\ prefixes  = {}
  /\ tunnels   = {}
  /\ reported  = {}
  /\ restarts  = <<>>

-----------------------------------------------------------------------------
(* gRPC handler threads.                                                   *)

StartCall(t) ==
  /\ pc[t] = "idle"
  /\ calls[t] < MaxCalls
  /\ calls' = [calls EXCEPT ![t] = @ + 1]

(* loop.call_soon_threadsafe(fn, ...) followed by fut.result().            *)
PostAndWait(t, r) ==
  /\ queue' = Append(queue, [fn |-> r.rpc, thread |-> t, req |-> r])
  /\ pc' = [pc EXCEPT ![t] = "wait"]
  /\ req' = [req EXCEPT ![t] = r]

(* ActivateFlows: capability check, post _activate_flows, block.           *)
ActivateFlows(t, r) ==
  /\ StartCall(t)
  /\ "enforcement" \in EnabledApps
  /\ PostAndWait(t, r)
  /\ UNCHANGED <<epochIdx, fut, lastEpoch, ctrlVars, restarts>>

(* DeactivateFlows: capability check, post _deactivate_flows, return at    *)
(* once without waiting for the loop.                                      *)
DeactivateFlows(t, r) ==
  /\ StartCall(t)
  /\ "enforcement" \in EnabledApps
  /\ queue' = Append(queue, [fn |-> r.rpc, thread |-> t, req |-> r])
  /\ UNCHANGED <<pc, req, epochIdx, fut, lastEpoch, ctrlVars, restarts>>

(* GetPolicyUsage: capability check, post get_policy_usage, block.         *)
GetPolicyUsage(t) ==
  /\ StartCall(t)
  /\ StatsEnabled
  /\ PostAndWait(t, [rpc |-> "usage"])
  /\ UNCHANGED <<epochIdx, fut, lastEpoch, ctrlVars, restarts>>

(* An RPC whose app is disabled returns UNAVAILABLE before touching state. *)
Unavailable(t) ==
  /\ StartCall(t)
  /\ \/ "enforcement" \notin EnabledApps
     \/ ~StatsEnabled
  /\ UNCHANGED <<pc, req, epochIdx, fut, queue, lastEpoch, ctrlVars, restarts>>

(* SetupPolicyFlows (after its capability check) and                      *)
(* SetupDefaultControllers: start the epoch checks on the handler thread.  *)
SetupFlows(t, s) ==
  /\ StartCall(t)
  /\ s.kind = "policy" => "enforcement" \in EnabledApps
  /\ pc' = [pc EXCEPT ![t] = "epoch"]
  /\ req' = [req EXCEPT ![t] = s]
  /\ epochIdx' = [epochIdx EXCEPT ![t] = 1]
  /\ UNCHANGED <<fut, queue, lastEpoch, ctrlVars, restarts>>

CheckedGroup(t) == SetupGroups(req[t].kind)[epochIdx[t]]

(* Fault: the group records the epoch after the one it accepted.          *)
EpochAcceptedRecordsNext(t) ==
  /\ pc[t] = "epoch"
  /\ req[t].epoch > lastEpoch[CheckedGroup(t)]
  /\ lastEpoch' = [lastEpoch EXCEPT ![CheckedGroup(t)] = req[t].epoch + 1]
  /\ IF epochIdx[t] = Len(SetupGroups(req[t].kind))
       THEN pc' = [pc EXCEPT ![t] = "post"] /\ UNCHANGED epochIdx
       ELSE epochIdx' = [epochIdx EXCEPT ![t] = @ + 1] /\ UNCHANGED pc
  /\ UNCHANGED <<req, calls, fut, queue, ctrlVars, restarts>>

(* Fault: an epoch equal to the last accepted one is accepted again.       *)
EpochAcceptedNotStrict(t) ==
  /\ pc[t] = "epoch"
  /\ req[t].epoch >= lastEpoch[CheckedGroup(t)]
  /\ lastEpoch' = [lastEpoch EXCEPT ![CheckedGroup(t)] = req[t].epoch]
  /\ IF epochIdx[t] = Len(SetupGroups(req[t].kind))
       THEN pc' = [pc EXCEPT ![t] = "post"] /\ UNCHANGED epochIdx
       ELSE epochIdx' = [epochIdx EXCEPT ![t] = @ + 1] /\ UNCHANGED pc
  /\ UNCHANGED <<req, calls, fut, queue, ctrlVars, restarts>>

(* check_setup_request_epoch of one group accepts a strictly newer epoch   *)
(* and records it; the next group is checked, or the callback is posted.   *)
EpochAccepted(t) ==
  /\ pc[t] = "epoch"
  /\ req[t].epoch > lastEpoch[CheckedGroup(t)]
  /\ lastEpoch' = [lastEpoch EXCEPT ![CheckedGroup(t)] = req[t].epoch]
  /\ IF epochIdx[t] = Len(SetupGroups(req[t].kind))
       THEN pc' = [pc EXCEPT ![t] = "post"] /\ UNCHANGED epochIdx
       ELSE epochIdx' = [epochIdx EXCEPT ![t] = @ + 1] /\ UNCHANGED pc
  /\ UNCHANGED <<req, calls, fut, queue, ctrlVars, restarts>>

(* A stale epoch: return SetupFlowsResult(result=ret) at once.             *)
EpochFenced(t) ==
  /\ pc[t] = "epoch"
  /\ req[t].epoch <= lastEpoch[CheckedGroup(t)]
  /\ pc' = [pc EXCEPT ![t] = "idle"]
  /\ UNCHANGED <<req, epochIdx, calls, fut, queue, lastEpoch, ctrlVars, restarts>>

PostSetup(t) ==
  /\ pc[t] = "post"
  /\ PostAndWait(t, req[t])
  /\ UNCHANGED <<epochIdx, calls, fut, lastEpoch, ctrlVars, restarts>>

(* fut.result() returns once the loop has set the result.                  *)
ReturnResult(t) ==
  /\ pc[t] = "wait"
  /\ fut[t] # NoResult
  /\ pc' = [pc EXCEPT ![t] = "idle"]
  /\ fut' = [fut EXCEPT ![t] = NoResult]
  /\ UNCHANGED <<req, epochIdx, calls, queue, lastEpoch, ctrlVars, restarts>>

-----------------------------------------------------------------------------
(* The event loop: runs the head callback of the queue to completion.      *)

Work == Head(queue)

(* _report_enforcement_failures / _report_enforcement_stats_failures: the  *)
(* counter is incremented for every rule a result does not report SUCCESS. *)
ReportFailures(counter, sid, res) ==
  {<<counter, sid, x.rule_id>> : x \in {y \in ToSet(res.static) \cup ToSet(res.dynamic) : IsFailure(y)}}

(* _update_ipv6_prefix_store and _update_tunnel_map_store: the prefix of  *)
(* an IPv6 address and the tunnel pair are saved for the subscriber.       *)
UpdateIpv6PrefixStore(r) == IF r.v6 THEN prefixes \cup {r.sid} ELSE prefixes

UpdateTunnelMapStore(r) == IF r.tunnels THEN tunnels \cup {r.sid} ELSE tunnels

(* Rules each key gains in one controller from the per-family results.     *)
(* resBy: a controller's results per family.                             *)
Installed(ctrl, K, resBy) ==
  [k \in Keys |-> IF k \in K THEN ctrl[k] \cup SucceededIds(resBy[k[2]]) ELSE ctrl[k]]

(* Fault: Gx results go to gy and Gy results to the enforcer.             *)
InstallInDownstreamSwapped(r, K, resBy) ==
  IF r.origin = "GY" THEN enf' = Installed(enf, K, resBy) /\ UNCHANGED gy
                     ELSE gy' = Installed(gy, K, resBy) /\ UNCHANGED enf

(* Gx requests go to the enforcer, Gy requests to gy.                      *)
InstallInDownstream(r, K, resBy) ==
  IF r.origin = "GX" THEN enf' = Installed(enf, K, resBy) /\ UNCHANGED gy
                     ELSE gy' = Installed(gy, K, resBy) /\ UNCHANGED enf

(* _activate_flows: for each family _install_flows_gx / _install_flows_gy  *)
(* (update_version, enforcement_stats, filtering, enforcer or gy, merge),  *)
(* the IPv6 prefix save, the results concatenated in family order, the     *)
(* tunnel save, then fut.set_result.  sFail/dFail: the rules that          *)
(* enforcement_stats and the downstream app fail, per family.              *)
LoopActivateFlows ==
  /\ queue # <<>>
  /\ Work.fn = "activate"
  /\ LET r    == Work.req
         fams == ActivationFams(r)
         K    == FamKeys(r)
         R    == r.static \cup r.dynamic
     IN \E sFail, dFail \in [ToSet(fams) -> SUBSET R] :
        LET out(f) == InstallFlows(r, f, sFail[f], dFail[f])
            statsRes == [f \in ToSet(fams) |-> out(f).statsRes]
            downRes  == [f \in ToSet(fams) |-> out(f).downRes]
            ret == [static  |-> FlattenSeq([i \in DOMAIN fams |-> out(fams[i]).ret.static]),
                    dynamic |-> FlattenSeq([i \in DOMAIN fams |-> out(fams[i]).ret.dynamic])]
            report(c, resBy) == UNION {ReportFailures(c, r.sid, resBy[f]) : f \in ToSet(fams)}
        IN /\ version' = UpdateVersion(version, K, R)
           /\ stats' = Installed(stats, K, statsRes)
           /\ InstallInDownstream(r, K, downRes)
           /\ reported' = reported \cup report("enforcement_stats", statsRes)
                \cup (IF r.origin = "GX" THEN report("enforcement", downRes) ELSE {})
           /\ prefixes' = UpdateIpv6PrefixStore(r)
           /\ tunnels' = UpdateTunnelMapStore(r)
           /\ fut' = [fut EXCEPT ![Work.thread] = ret]
  /\ queue' = Tail(queue)
  /\ UNCHANGED <<threadVars, lastEpoch, restarts>>

(* _deactivate_flows: per family, Gx bumps the named rules' versions or    *)
(* the session version and has the enforcer remove the named (or all)      *)
(* rules; Gy bumps only named rules and has gy remove them (or all).       *)
(* An IPv6 address also saves its prefix.                                  *)
LoopDeactivateFlows ==
  /\ queue # <<>>
  /\ Work.fn = "deactivate"
  /\ LET r == Work.req
         K == FamKeys(r)
     IN /\ IF r.origin = "GX"
             THEN /\ version' = UpdateVersion(version, K,
                                  IF r.rules # {} THEN r.rules ELSE {AllRules})
                  /\ enf' = DeactivateRules(enf, K, r.rules)
                  /\ UNCHANGED gy
             ELSE /\ version' = UpdateVersion(version, K, r.rules)
                  /\ gy' = DeactivateRules(gy, K, r.rules)
                  /\ UNCHANGED enf
        /\ prefixes' = UpdateIpv6PrefixStore(r)
  /\ queue' = Tail(queue)
  /\ UNCHANGED <<threadVars, fut, lastEpoch, stats, tunnels, reported, restarts>>

(* Fault: enforcement_stats restarts with the Gy requests.                *)
LoopSetupPolicyFlowsStatsFromGy ==
  /\ queue # <<>>
  /\ Work.fn = "setup"
  /\ Work.req.kind = "policy"
  /\ \E ok \in RestartOutcomes :
       /\ enf'   = Restarted(enf, Work.req.snap, "GX", ok.enforcer)
       /\ gy'    = Restarted(gy, Work.req.snap, "GY", ok.gy)
       /\ stats' = Restarted(stats, Work.req.snap, "GY", ok.enforcement_stats)
       /\ fut' = [fut EXCEPT ![Work.thread] = IF ok.enforcer THEN SetupOk ELSE SetupFailed]
  /\ restarts' = Append(restarts, [kind |-> "policy", epoch |-> Work.req.epoch])
  /\ queue' = Tail(queue)
  /\ UNCHANGED <<threadVars, lastEpoch, version, prefixes, tunnels, reported>>

(* _setup_flows: the enforcer and enforcement_stats restart with the Gx    *)
(* requests, gy with the Gy requests; the enforcer's result is returned    *)
(* and the other two results are dropped (the TODO of line 147).           *)
LoopSetupPolicyFlows ==
  /\ queue # <<>>
  /\ Work.fn = "setup"
  /\ Work.req.kind = "policy"
  /\ \E ok \in RestartOutcomes :
       /\ enf'   = Restarted(enf, Work.req.snap, "GX", ok.enforcer)
       /\ gy'    = Restarted(gy, Work.req.snap, "GY", ok.gy)
       /\ stats' = Restarted(stats, Work.req.snap, "GX", ok.enforcement_stats)
       /\ fut' = [fut EXCEPT ![Work.thread] = IF ok.enforcer THEN SetupOk ELSE SetupFailed]
  /\ restarts' = Append(restarts, [kind |-> "policy", epoch |-> Work.req.epoch])
  /\ queue' = Tail(queue)
  /\ UNCHANGED <<threadVars, lastEpoch, version, prefixes, tunnels, reported>>

(* Fault: the callback never sets the Future.                             *)
LoopSetupDefaultControllersNoResult ==
  /\ queue # <<>>
  /\ Work.fn = "setup"
  /\ Work.req.kind = "default"
  /\ restarts' = Append(restarts, [kind |-> "default", epoch |-> Work.req.epoch])
  /\ queue' = Tail(queue)
  /\ UNCHANGED <<threadVars, fut, lastEpoch, ctrlVars>>

(* _setup_default_controllers: inout handle_restart(None).                 *)
LoopSetupDefaultControllers ==
  /\ queue # <<>>
  /\ Work.fn = "setup"
  /\ Work.req.kind = "default"
  /\ restarts' = Append(restarts, [kind |-> "default", epoch |-> Work.req.epoch])
  /\ fut' = [fut EXCEPT ![Work.thread] = SetupOk]
  /\ queue' = Tail(queue)
  /\ UNCHANGED <<threadVars, lastEpoch, ctrlVars>>

(* enforcement_stats.get_policy_usage(fut): reads only.                    *)
LoopGetPolicyUsage ==
  /\ queue # <<>>
  /\ Work.fn = "usage"
  /\ fut' = [fut EXCEPT ![Work.thread] = UsageStats]
  /\ queue' = Tail(queue)
  /\ UNCHANGED <<threadVars, lastEpoch, ctrlVars, restarts>>

LoopStep ==
  \/ LoopActivateFlows
  \/ LoopDeactivateFlows
  \/ LoopSetupPolicyFlows
  \/ LoopSetupDefaultControllers
  \/ LoopGetPolicyUsage

-----------------------------------------------------------------------------
(* A thread's own steps once its RPC has started.                          *)
ThreadStep(t) ==
  \/ EpochAccepted(t)
  \/ EpochFenced(t)
  \/ PostSetup(t)
  \/ ReturnResult(t)

(* Callers issue a new RPC.                                                *)
Call(t) ==
  \/ \E r \in ActivateRequests : ActivateFlows(t, r)
  \/ \E r \in DeactivateRequests : DeactivateFlows(t, r)
  \/ \E s \in SetupRequests : SetupFlows(t, s)
  \/ GetPolicyUsage(t)
  \/ Unavailable(t)

Next ==
  \/ \E t \in Threads : Call(t) \/ ThreadStep(t)
  \/ LoopStep

(* The loop drains its queue and a started handler runs on; callers are   *)
(* free never to call.                                                     *)
Fairness ==
  /\ WF_vars(LoopStep)
  /\ \A t \in Threads : WF_vars(ThreadStep(t))

Spec == Init /\ [][Next]_vars /\ Fairness

-----------------------------------------------------------------------------
(* Properties.                                                             *)

ResultRecords == [rule_id : Rules, result : {"SUCCESS", "FAILURE"}, fam : Fams]
Results == [static : Seq(ResultRecords), dynamic : Seq(ResultRecords)]
Codes == {NoResult, SetupOk, SetupFailed, UsageStats}

(* The loop has just set thread t's Future to an ActivateFlowsResult.      *)
ActivationAnswered(t) ==
  fut[t] = NoResult /\ fut'[t] \notin Codes /\ req[t].rpc = "activate"

TypeOK ==
  /\ pc \in [Threads -> {"idle", "epoch", "post", "wait"}]
  /\ calls \in [Threads -> 0..MaxCalls]
  /\ \A t \in Threads : fut[t] \in Codes \/ fut[t] \in Results
  /\ lastEpoch \in [Groups -> {0} \cup Epochs]
  /\ stats \in [Keys -> SUBSET Rules]
  /\ enf \in [Keys -> SUBSET Rules]
  /\ gy \in [Keys -> SUBSET Rules]
  /\ version \in [Keys -> [Rules \cup {AllRules} -> Nat]]
  /\ prefixes \subseteq Subscribers /\ tunnels \subseteq Subscribers

(* Entries of one activation result for rule x and family f.               *)
Count(seq, x, f) == Cardinality({i \in DOMAIN seq : seq[i].rule_id = x /\ seq[i].fam = f})

(* ActivateFlows' answer (set by _activate_flows, before fut.result()      *)
(* returns) reports every requested rule exactly once for each address     *)
(* family processed, static ids in static_rule_results and dynamic ones in *)
(* dynamic_rule_results, and the IPv4 slice before the IPv6 slice: rules   *)
(* failed by enforcement_stats are neither lost nor also reported by the   *)
(* enforcer or gy.                                                         *)
OutcomeCoversRequest ==
  \A t \in Threads :
    (fut[t] \notin Codes /\ req[t].rpc = "activate") =>
      LET ret == fut[t]  r == req[t]  fams == ToSet(ActivationFams(r)) IN
      /\ \A f \in Fams, x \in StaticRules :
           Count(ret.static, x, f) = IF f \in fams /\ x \in r.static THEN 1 ELSE 0
      /\ \A f \in Fams, x \in DynamicRules :
           Count(ret.dynamic, x, f) = IF f \in fams /\ x \in r.dynamic THEN 1 ELSE 0
      /\ \A l \in {ret.static, ret.dynamic} : \A i, j \in DOMAIN l :
           (l[i].fam = "V6" /\ l[j].fam = "V4") => j < i

(* The _install_flows_gx docstring: a rule ActivateFlows reports SUCCESS   *)
(* is installed in both enforcement_stats (when enabled) and the enforcer  *)
(* (gy for a Gy request) when the answer is produced.                      *)
SuccessMeansInstalledInBoth ==
  [][\A t \in Threads :
       ActivationAnswered(t) =>
         \A x \in Succeeded(fut'[t]) :
           LET k == <<req[t].sid, x.fam>> IN
           /\ StatsEnabled => x.rule_id \in stats'[k]
           /\ x.rule_id \in (IF req[t].origin = "GX" THEN enf' ELSE gy')[k]
    ]_vars

(* Stats-first installation: whenever enforcement_stats is enabled, every  *)
(* rule the enforcer has installed for a key is also installed in          *)
(* enforcement_stats, across activations, deactivations and restarts.      *)
EnforcedImpliesAccounted ==
  StatsEnabled => \A k \in Keys : enf[k] \subseteq stats[k]

(* The same for gy: _install_flows_gy's docstring promises the Gy rules    *)
(* are installed in enforcement_stats as well.                             *)
BilledImpliesAccounted ==
  StatsEnabled => \A k \in Keys : gy[k] \subseteq stats[k]

SameKind(i, j) == restarts[i].kind = restarts[j].kind

(* Epoch fencing (spec 8.3, 8.7): no setup epoch is run twice by the loop. *)
SetupEpochAppliedOnce ==
  \A i, j \in DOMAIN restarts :
    (i < j /\ SameKind(i, j)) => restarts[i].epoch # restarts[j].epoch

(* Epoch fencing: the loop never runs a setup older than one it already   *)
(* ran, so a stale snapshot never replaces a newer one.                    *)
SetupEpochsApplyInOrder ==
  \A i, j \in DOMAIN restarts :
    (i < j /\ SameKind(i, j)) => restarts[i].epoch < restarts[j].epoch

(* Spec 4.4: a deactivation is visible to the version ledger: every rule   *)
(* _deactivate_flows removes from the enforcer or gy has its version, or   *)
(* the session version, bumped in the same callback.                       *)
DeactivationFencesRules ==
  [][(queue # <<>> /\ Work.fn = "deactivate") =>
       \A k \in Keys, x \in Rules :
         (x \in (enf[k] \ enf'[k]) \cup (gy[k] \ gy'[k])) =>
           \/ version'[k][x] > version[k][x]
           \/ version'[k][AllRules] > version[k][AllRules]
    ]_vars

(* Spec section 2 and 4.5: a setup's answer aggregates the controllers'    *)
(* restarts, so SetupPolicyFlows answers SUCCESS only when enforcer, gy   *)
(* and enforcement_stats all hold the snapshot it carried.                *)
SetupSuccessMeansRestored ==
  [][\A t \in Threads :
       (fut[t] = NoResult /\ fut'[t] = SetupOk /\ req[t].rpc = "setup"
        /\ req[t].kind = "policy") =>
         /\ enf' = SnapshotRules(req[t].snap, "GX")
         /\ gy' = SnapshotRules(req[t].snap, "GY")
         /\ stats' = SnapshotRules(req[t].snap, "GX")
    ]_vars

(* Spec 4.1 and 8.3: an epoch a controller group has accepted is not lost *)
(* although the three checks of a setup are separate steps and a later     *)
(* one may fence it: the loop eventually restarts the controllers with     *)
(* that epoch or a newer one.                                              *)
AcceptedEpochApplied ==
  \A g \in Groups, e \in Epochs :
    lastEpoch[g] = e ~>
      \E i \in DOMAIN restarts :
        /\ restarts[i].kind = IF g = "inout" THEN "default" ELSE "policy"
        /\ restarts[i].epoch >= e

(* Every RPC that blocks on fut.result() eventually returns: the loop      *)
(* sets every posted Future.                                               *)
EveryCallReturns ==
  \A t \in Threads : pc[t] # "idle" ~> pc[t] = "idle"

=============================================================================
