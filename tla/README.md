# TLA+ model of pipelined's RPC servicer

This directory models `src/lte/gateway/python/magma/pipelined/rpc_servicer.py`,
the gRPC front end of magma's pipelined. It checks the servicer with TLC.
The servicer turns policy requests (setup, activate, deactivate, usage) into
calls on several flow controllers. It runs them on one event loop.

## 1. Inventory

### Components and their state

| Component | Code | State it keeps | Operations |
|---|---|---|---|
| gRPC handler threads | the public RPC methods, lines 97–649 | the request in flight; a `Future` to block on | `SetupDefaultControllers`, `SetupPolicyFlows`, `ActivateFlows`, `DeactivateFlows`, `GetPolicyUsage`, `SetupUEMacFlows`, `AddUEMacFlow`, `DeleteUEMacFlow`, `SetupQuotaFlows`, `UpdateSubscriberQuotaState`, `UpdateIPFIXFlow`, `CreateFlow`, `RemoveFlow`, `UpdateFlowStats`, `GetAllTableAssignments` |
| Event loop (the single writer) | `self._loop.call_soon_threadsafe` | a FIFO queue of callbacks | runs one callback at a time: `_setup_default_controllers`, `_setup_flows`, `_activate_flows`, `_deactivate_flows`, `_setup_ue_mac`, `_add_ue_mac_flow`, `_setup_quota`, and controller methods posted directly |
| Epoch guard | `check_setup_request_epoch` of each controller; external | the last accepted epoch of each controller group | accept-and-record, or fence |
| Version ledger | `session_rule_version_mapper`; external | a counter per (imsi, ip, rule) | `update_version(imsi, ip, rule_id=None)` |
| Rule controllers | `enforcement_stats`, `enforcer_app`, `gy_app`; external | the flows installed per session | `activate_rules`, `deactivate_rules`, `deactivate_default_flow`, `handle_restart`, `get_policy_usage` |
| Stores | `interface_to_prefix_mapper`, `tunnel_id_mapper` | IPv6 prefixes; tunnel id pairs | `save_prefix`, `save_tunnels` |
| Metrics | `ENFORCEMENT_STATS_RULE_INSTALL_FAIL`, `ENFORCEMENT_RULE_INSTALL_FAIL` | failure counters | `.inc()` from `_report_*_failures` |
| Payload log | `grpc_msg_queue` (line 54) | the last ~100 payloads | `_log_grpc_payload` |
| UE MAC / quota / IPFIX / DPI / learn apps | external | their flows | posted directly by the RPCs |

### How the components interact

- A handler thread first checks the capability of its app. If the app is
  disabled it answers `UNAVAILABLE`.
- For setup RPCs, the handler thread calls each group's
  `check_setup_request_epoch` in order: gy, then the enforcer, then
  enforcement_stats. It does this on its own thread, not on the loop. The
  first check that fences the request returns at once.
- The handler then posts a callback with `call_soon_threadsafe`. Every RPC
  except `DeactivateFlows` (and the DPI, quota and IPFIX ones) then blocks on
  `fut.result()`. There is no timeout.
- The loop runs the callbacks in posting order, one at a time. Each callback
  makes the controller calls for its request.
- `_activate_flows` processes IPv4 (always on CWF), then IPv6. For each
  family `_install_flows_gx`/`_gy` does these steps in order:
  1. bump the version of every requested rule;
  2. install the rules in enforcement_stats;
  3. drop the rules that stats failed;
  4. install the remaining rules in the enforcer (Gx) or gy (Gy);
  5. append the stats failures to the answer.
- `_setup_flows` restarts the enforcer with the Gx requests, gy with the Gy
  requests, and enforcement_stats with the Gx requests.

### What is hard

- **Concurrency.** Handler threads run at the same time. The epoch check and
  the post are separate steps on the handler thread. Only the loop
  serializes anything.
- **Partial failure.** Any rule may fail in any controller. A rule that fails
  in stats must not reach the enforcer, but must still be reported. The
  three epoch checks of one setup may partly succeed.
- **Restart.** `SetupPolicyFlows` replaces the state of all three
  controllers at once. It must agree with what incremental activation
  maintains.
- **Ordering.** Stats must come before enforcement. IPv4 results come before
  IPv6 ones. Fire-and-forget deactivation is ordered against later requests.
- **Blocking.** A callback that never sets its `Future` hangs the calling
  thread forever.

### What makes each component correct

- **Orchestration.**
  - Every requested rule is reported once per family.
  - A rule reported SUCCESS is installed in both stats and the downstream
    app.
  - An enforcer rule always has its stats entry; so does a gy rule.
  - Failures are counted in the metrics.
- **Epoch guard.**
  - An epoch is applied at most once.
  - Setups are applied in epoch order.
  - An accepted epoch is eventually applied.
- **Version ledger.** Every install and every removal bumps a version.
- **Event loop.** Every blocking RPC eventually returns.

## 2. Plan

1. **`Pipelined`** (done in this sitting). This is the policy RPCs: handler
   threads, epoch guard, loop, activation, deactivation, setup, usage and
   the controllers' abstraction. It is the core of the system.
2. **Controller exceptions.** A callback may raise, for example when
   the enforcer gets static and dynamic rules together (line 315). Then the
   `Future` is never set. Spec 5 accepts that the caller then blocks, so
   this is left out. Restart failures are modelled (third sitting): the
   constant `RestartOutcomes` says which controllers' `handle_restart` may
   fail together.
3. **Epoch liveness** (done, third sitting). `AcceptedEpochApplied`: an
   epoch a group accepted is followed by a restart with it or a newer one.
4. **`PipelinedAbstract`** (done, fourth sitting). Each policy RPC is one
   atomic step on the controllers; `MCPipelined` maps `Pipelined` onto it
   and the activation run checks `PolicyContract`. Setup is in the contract
   without epoch fencing, which stays with the detailed module's
   properties, because the stale setup finding shows the detailed spec
   applies an epoch a fencing contract would refuse.
5. **`UEMac`** (done, second sitting). `SetupUEMacFlows`,
   `SetupQuotaFlows`, `AddUEMacFlow`, `DeleteUEMacFlow` and the IPFIX, DPI
   and quota fire-and-forget RPCs, with their own loop; a refinement of the
   atomic `UEMacAbstract` and a linearizability check. Sharing one loop with
   `Pipelined` is left out: the two groups of RPCs touch disjoint apps, so
   the shared queue only interleaves them.
6. **`PayloadLog`** (done, second sitting). `grpc_msg_queue`: concurrent
   put, qsize and get against the bound of 100, scaled down.
7. **`RuleResults`**. The filter and merge helpers will be checked as
   operators against a reference definition over all short rule lists,
   including duplicate ids.

## 3. The modules

### `Pipelined.tla`

Constants:

| Constant | Meaning |
|---|---|
| `Threads` | the handler threads |
| `Subscribers` | the IMSIs |
| `StaticRules`, `DynamicRules` | rule ids in `request.rule_ids` and ids of `request.dynamic_rules` |
| `AllRules` | the session-wide version |
| `Epochs` | the epochs a setup may carry |
| `EnabledApps` | the apps `is_app_enabled` reports enabled |
| `SetupType` | LTE or CWF |
| `ActivateRequests`, `DeactivateRequests`, `SetupRequests` | the requests callers may send |
| `MaxCalls` | the bound on RPCs issued per thread |

How the variables correspond to the code:

| Variable | Code |
|---|---|
| `pc`, `req`, `epochIdx` | where a handler thread is: checking epochs (`epoch`), about to post (`post`), or blocked in `fut.result()` (`wait`) |
| `fut` | each thread's `Future` |
| `queue` | the loop's pending callbacks |
| `lastEpoch` | each group's last accepted epoch |
| `stats`, `enf`, `gy` | the rules each controller has installed, per (imsi, address family) |
| `version` | `session_rule_version_mapper` |
| `prefixes`, `tunnels` | the two stores |
| `reported` | metric counters incremented |
| `restarts` | history of setup callbacks run, used by properties only |

Actions:

- **Handler thread.** `ActivateFlows`, `DeactivateFlows`, `GetPolicyUsage`,
  `Unavailable` (any capability refusal) and `SetupFlows` (both setup RPCs)
  start an RPC. Then come `EpochAccepted`/`EpochFenced` (one
  `check_setup_request_epoch`), `PostSetup` and `ReturnResult`
  (`fut.result()` returns).
- **Loop.** `LoopActivateFlows`, `LoopDeactivateFlows`,
  `LoopSetupPolicyFlows`, `LoopSetupDefaultControllers` and
  `LoopGetPolicyUsage`. Each runs the whole callback: every controller call,
  version bump, store save and metric, then `fut.set_result`.
- **Result helpers.** `RetrieveFailedResults`, `FilterFailedStaticRuleIds`,
  `FilterFailedDynamicRules` and `InstallFlows` are the module-level helpers
  and `_install_flows_*`.

Abstractions:

- A controller installs exactly the rules it reports SUCCESS. Which rules
  fail is chosen freely per call and per family.
- `handle_restart` replaces a controller's rules with the snapshot of its
  origin (spec 4.5) and succeeds.
- Request rule lists are sets, so duplicate ids are not modelled.
- Each result entry carries a ghost `fam` field. It is not in
  `RuleModResult`, and only properties read it.
- Conversions of addresses are modelled by the family they yield.

Mutants are defined just before the definition they replace, each marked
"Fault:".

### `PipelinedAbstract.tla`

The contract of the policy RPCs. Its variables are the three controllers'
rules per key and, per thread, the answer of the activation it awaits, as a
set of `<<rule, family, result>>`. `Activate` chooses, per family, the rules
`S` enforcement_stats installs and a subset `D` of them the downstream
controller installs, and answers SUCCESS exactly for `D`. `Deactivate`
removes the named rules, or all, from the origin's controller. `Restart`
replaces each controller's rules by its part of the snapshot unless its
restart fails. `Return` is the caller reading its answer.

The refinement mapping (`Contract` in `MCPipelined`) is the identity on the
controllers; a thread's answer is the set form of the
`ActivateFlowsResult` its Future holds (`AnswerSet`). The linearization
point of an RPC is the loop running its callback. Two limits:

- Refinement allows stuttering, so a deactivation that removes nothing
  is not caught by the contract; `DeactivationFencesRules` and
  `EnforcedImpliesAccounted` look at deactivations instead.
- enforcement_stats is restored from the Gx part of a snapshot, as the
  code does; that Gy rules then lack stats is the `gy_restart_unaccounted`
  finding.

### `MCPipelined.tla`

This module fixes the model values. There is one subscriber, one static rule
`s1` and one dynamic rule `d1`. Requests come from small families:

- activations of either origin, IPv4 / dual stack / no address, with `s1`
  alone or together with `d1`;
- deactivations naming `s1` or nothing;
- setup snapshots over a Gx and a Gy entry for `s1`;
- restart outcomes: `AlwaysRestored` for the passing runs, and
  `AnyRestartOutcome` (each of enforcer, gy and enforcement_stats may fail)
  for `RestartFailure.cfg`. `LoopSetupPolicyFlows` picks one outcome per
  callback; `Restarted` replaces a controller's rules only on success, and
  the Future gets the enforcer's result.

### `UEMacApps.tla`, `UEMac.tla`

`UEMacApps` holds what the detailed and the atomic specification share: the
six apps (`ue_mac`, `check_quota`, `vlan_learn`, `tunnel_learn`, `ipfix`,
`dpi`), the deployment's `EnabledApps`, the request records and `Effect`,
one controller add or remove on a set of items. An app is abstracted to the
set of subscribers, MACs, `<<subscriber, MAC>>` pairs or DPI matches it has
flows for.

`UEMac` keeps, per handler thread, `pc`, `req`, `todo` (the delete callbacks
still to post), `calls`, `ret` and `fut`; and globally the loop's `queue`,
`lastEpoch` of the `ue_mac` and `check_quota` groups, and `ctrl`, the apps.

| Action | Code |
|---|---|
| `Unavailable` | the `is_app_enabled` check each handler except `UpdateIPFIXFlow` starts with |
| `InvalidMac` | `len(request.mac_addr) != 17` (lines 531, 558) |
| `FireAndForget` | `UpdateIPFIXFlow`, `CreateFlow`, `RemoveFlow`, `UpdateFlowStats`, `UpdateSubscriberQuotaState`: post (`PostedCallbacks`) and answer at once |
| `SetupEpochCheck`, `PostSetup` | `SetupUEMacFlows` / `SetupQuotaFlows`: epoch check on the handler thread, then the post |
| `AddUEMacFlow` | the post of `_add_ue_mac_flow` |
| `DeleteUEMacFlow`, `PostDeleteCallback` | the five `call_soon_threadsafe` calls of lines 563–583, one step each (`DeleteCallbacks`) |
| `ReturnResult` | `fut.result()` |
| `LoopAppCall`, `LoopSetupUEMac`, `LoopAddUEMacFlow`, `LoopSetupQuota` | the loop running one callback |
| `Learn` | traffic teaching `vlan_learn` and `tunnel_learn` (environment) |

### `UEMacAbstract.tla`, `MCUEMac.tla`, `UEMacHistory.tla`

`UEMacAbstract` states what spec sections 5–7 promise: each RPC is one
atomic step that is refused (`UNAVAILABLE`, `INVALID_ARGUMENT`,
`OUTDATED_EPOCH`) before touching an app, or applied whole (`Applied`).

`MCUEMac` fixes the model values and gives the refinement mapping
`Atomic == INSTANCE UEMacAbstract WITH ...`. An RPC takes effect where its
handler starts it: the abstract apps are the concrete ones after the loop
has run every queued callback and every callback a handler still has to
post (`FoldLeft(Run, ctrl, Pending)`). The answer of a handler that has
posted is the one it will return. This mapping is sound for one handler
thread. With two, the linearization point is not fixed, so
`UEMacHistory` records the RPCs issued and their real-time order and states
`Linearizable`: once all is quiet, the apps equal some order of the RPCs,
consistent with real time, run one at a time.

### `PayloadLog.tla`, `MCPayloadLog.tla`

Per thread `pc` and `calls`; `log` is `grpc_msg_queue` and `sent` the history
of puts. `LogPayload` is the put (an empty request returns at once),
`CheckSize` the `qsize() > 100` test, `DropOldest` the `get()`. Each is one
step because `queue.Queue` locks each call, not the three together.
`GetAllTableAssignments` changes no state beyond this put.
`LogKeepsCapacity` bounds the over-trim of the check-then-get race:
handlers that all saw more than 100 entries all get, so the log can fall
below the last 100 payloads, by at most one per other handler thread (with
two threads and capacity 2, TLC reaches a log of 1 entry after 3 puts).

## 4. Runs

| Run | cfg | Expect | What it shows |
|---|---|---|---|
| activation | `MCPipelined.cfg` | pass | One caller makes 2 RPCs of any kind, with free per-rule failures. `OutcomeCoversRequest`: every requested rule is answered exactly once per family, IPv4 first. `SuccessMeansInstalledInBoth`: a SUCCESS is installed in stats and downstream. `EnforcedImpliesAccounted`: every enforcer rule has its stats entry, through activation, deactivation and restart. `PolicyContract`: the RPCs refine `PipelinedAbstract`. |
| setup_fencing | `SetupFencing.cfg` | pass | Two threads make 2 setup / default-setup / usage RPCs each, with epochs {1,2}. No epoch is applied twice. `EveryCallReturns` holds. `AcceptedEpochApplied`: a partly accepted setup (gy records the epoch, a later group fences it) never strands an epoch; a newer setup is applied. |
| stats_disabled | `StatsDisabled.cfg` | pass | The deployment without enforcement_stats. Answers are still complete and ordered; stats RPCs are refused. |
| stale_setup_applied | `StaleSetup.cfg` | violation | `SetupEpochsApplyInOrder`: epoch 1 and 2 pass their checks; 2 posts first; the loop applies 2 then 1. |
| gy_restart_unaccounted | `GyRestart.cfg` | violation | `BilledImpliesAccounted`: a restart with a Gy request leaves gy with a rule stats lacks. |
| gy_wildcard_unfenced | `GyWildcard.cfg` | violation | `DeactivationFencesRules`: a Gy deactivation with no ids removes rules without a version bump. |
| restart_failure_unreported | `RestartFailure.cfg` | violation | `SetupSuccessMeansRestored` with any restart outcome: gy's `handle_restart` fails and the setup still answers SUCCESS. |
| uemac_atomic | `UEMacAtomic.cfg` | pass | One thread, all apps, 3 RPCs of any kind: the handlers and callbacks refine `UEMacAbstract` (`AtomicRPCs`). |
| uemac_concurrent | `UEMacConcurrent.cfg` | pass | Two threads, `ue_mac` and `check_quota`, 2 RPCs each: `EveryCallReturns` for the blocking RPCs. |
| ipfix_ungated | `IpfixUngated.cfg` | violation | `AtomicRPCs` with IPFIX and DPI disabled: `UpdateIPFIXFlow` answers OK, the abstract spec UNAVAILABLE. |
| uemac_linearizable | `UEMacLinearizable.cfg` | violation | `Linearizable`: t1's `DeleteUEMacFlow` interleaves with t2's quota and IPFIX updates. |
| payload_log | `PayloadLog.cfg` | pass | Two threads, 3 RPCs each, capacity 2: `LogBounded` (at most one extra entry per trimming handler) and `LogKeepsCapacity` (the log keeps at least min(puts, capacity) minus one per other thread; mutant: trim at `>= 100`). |

### Findings

The violation runs are real disagreements between the code and what the
spec or the code's own docstrings say:

1. **Stale setup applied last.** The setup epoch is fenced on the handler
   thread, not on the loop. A stale snapshot can therefore be applied after
   a newer one (line 131). This contradicts spec 8.3 and 5.
2. **Gy rules lose accounting on restart.** `_setup_flows` restarts
   enforcement_stats with Gx requests only (line 149). After a restart, Gy
   rules have no stats entries. This contradicts `_install_flows_gy`'s
   docstring.
3. **Gy wildcard deactivation is not fenced.** It bumps no version
   (line 391). This contradicts spec 4.4 and 8.4.
4. **Restart failures are not reported.** `_setup_flows` returns the
   enforcer's restart result and drops gy's and enforcement_stats' (the TODO
   at line 147). When gy's restart fails, SetupPolicyFlows answers SUCCESS
   while gy keeps its old rules; spec 2 and 4.5 say the setup's outcome
   aggregates the controllers' results.
5. **UpdateIPFIXFlow is not gated.** With IPFIX disabled it does nothing and
   answers OK (line 423), where spec 6 and every other handler answer
   UNAVAILABLE.
6. **DeleteUEMacFlow is not atomic.** Its five callbacks are posted one by
   one (line 563). Another thread's `UpdateSubscriberQuotaState` and
   `UpdateIPFIXFlow` for the same subscriber get between them, and the apps
   end with the quota entry kept and the IPFIX entry removed: no serial
   order gives that. Spec 5 says controller calls of two requests never
   interleave.

### Bounds, and why they are enough

- **Sequential-call runs.** The loop runs callbacks one at a time. So the
  controller state seen by the activation properties depends only on the
  order of callbacks, and one caller issuing RPCs back to back produces
  every order. With `MaxCalls = 2`, the activation run covers every pair:
  - activate then restart, or restart then activate;
  - activate then deactivate;
  - dual stack with any failure pattern in each family;
  - stats failure with downstream success.

  The 3-call version has several million states, so it is left for a
  targeted run.
- **Epoch race.** It needs exactly two threads, two epochs and one setup
  each. `SetupFencing` gives each thread two RPCs, so a thread's second
  setup can meet a recorded epoch.

- **UE MAC runs.** One subscriber, one valid and one 16-character MAC, one
  DPI match, epochs {1,2}. The atomic run has one thread and 3 calls, so
  every pair of RPCs on the same subscriber meets. The linearizability
  counterexample needs three RPCs over two threads; 2 calls per thread
  cover it. The concurrent run keeps one snapshot per setup kind and two
  apps to stay within minutes.
- **Payload log.** A capacity of 2 with two threads keeps the real
  regime (more slots than threads); 6 puts overflow it three times.

### Fairness and deadlock

- `WF` on the loop step: the loop drains its queue. `WF` on each thread's own
  steps after its RPC starts: epoch checks, posting and returning from
  `fut.result()` need nothing but CPU.
- Issuing RPCs is not fair, because callers may stop. `UEMac` has the same
  fairness: `WF` on the loop and on each thread's posting and returning
  steps. `PayloadLog` checks only safety and has none.
- The server may sit idle with no callers, so the runs set
  `CHECK_DEADLOCK FALSE`. A thread stuck in `fut.result()` is caught by
  `EveryCallReturns` instead.

## 5. Not modelled, and why

- **Controller internals.** Controllers are external.
  Their flow programming is out of scope (spec 1). Controller exceptions
  hang the caller, which spec 5 accepts.
- **Default drop flows.** `deactivate_default_flow` at line 383 removes the
  stats default flow. No code in this file creates default flows, and no
  property reads them. The call happens inside one callback, before the
  enforcer's removal, so no other actor sees the order. The flag is not part
  of the modelled requests.
- **Duplicate ids in one request's rule list**, and **ids shared between the
  static and dynamic lists.**
- **A failed restart's partial effect.** A failed `handle_restart` is
  modelled as leaving the controller's rules as they were; what a real
  controller leaves behind is its own business.
- **Gy install-failure metrics.** Gy failures are never counted in a metric
  (the TODO at line 334). The variable `reported` models the metrics the
  code does increment; no run checks the gap, which the code itself marks.
- **Payload formatting, logging and gRPC status details.**
