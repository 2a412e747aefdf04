------------------------------- MODULE UEMac -------------------------------
(***************************************************************************)
(* The UE MAC, check-quota, IPFIX and DPI RPCs of PipelinedRpcServicer     *)
(* (magma/pipelined/rpc_servicer.py, lines 414-631).                        *)
(*                                                                         *)
(* As in module Pipelined, handler threads check the app's capability and  *)
(* post callbacks to the single event loop with call_soon_threadsafe; the  *)
(* setup and AddUEMacFlow RPCs block on fut.result(), the others return at *)
(* once.  DeleteUEMacFlow posts up to five callbacks, one                  *)
(* call_soon_threadsafe after the other, to five different apps.           *)
(***************************************************************************)
EXTENDS UEMacApps

CONSTANT MaxCalls  \* bound: RPCs issued per thread

ASSUME MaxCalls \in Nat \ {0}

VARIABLES
  pc,        \* per thread: "idle", "post", "wait" or "delete"
  req,       \* per thread: the request of its current RPC
  todo,      \* per thread: callbacks DeleteUEMacFlow has still to post
  calls,     \* per thread: RPCs issued so far
  ret,       \* per thread: the answer its last RPC returned
  fut,       \* per thread: the Future's result, NoResult until set
  queue,     \* callbacks posted to the event loop, in posting order
  lastEpoch, \* per setup group: last epoch check_setup_request_epoch accepted
  ctrl       \* per app: the items it has flows for

vars == <<pc, req, todo, calls, ret, fut, queue, lastEpoch, ctrl>>

-----------------------------------------------------------------------------
(* Fault: the IPFIX sample flow is not deleted.                           *)
DeleteCallbacksNoIpfix(r) ==
  SelectSeq(<<AppCall("ue_mac", FALSE, <<r.sid, r.mac>>),
              AppCall("check_quota", FALSE, r.sid),
              AppCall("vlan_learn", FALSE, r.sid),
              AppCall("tunnel_learn", FALSE, r.mac)>>,
            LAMBDA cb : cb.app = "ue_mac" \/ Enabled(cb.app))

(* The callbacks DeleteUEMacFlow posts, in order, for the enabled apps.    *)
DeleteCallbacks(r) ==
  SelectSeq(<<AppCall("ue_mac", FALSE, <<r.sid, r.mac>>),
              AppCall("check_quota", FALSE, r.sid),
              AppCall("vlan_learn", FALSE, r.sid),
              AppCall("tunnel_learn", FALSE, r.mac),
              AppCall("ipfix", FALSE, r.sid)>>,
            LAMBDA cb : cb.app = "ue_mac" \/ Enabled(cb.app))

(* The callback a fire-and-forget RPC posts, if any.                       *)
PostedCallbacks(r) ==
  CASE r.rpc = "update_ipfix" ->
         IF Enabled("ipfix") THEN <<AppCall("ipfix", TRUE, r.sid)>> ELSE <<>>
    [] r.rpc = "create_flow"  -> <<AppCall("dpi", TRUE, r.match)>>
    [] r.rpc = "remove_flow"  -> <<AppCall("dpi", FALSE, r.match)>>
    [] r.rpc = "update_quota" -> <<AppCall("check_quota", r.valid, r.sid)>>
    [] OTHER                  -> <<>>

-----------------------------------------------------------------------------
Init ==
  /\ pc        = [t \in Threads |-> "idle"]
  /\ req       = [t \in Threads |-> [rpc |-> "none"]]
  /\ todo      = [t \in Threads |-> <<>>]
  /\ calls     = [t \in Threads |-> 0]
  /\ ret       = [t \in Threads |-> NoResult]
  /\ fut       = [t \in Threads |-> NoResult]
  /\ queue     = <<>>
  /\ lastEpoch = [g \in {"ue_mac", "check_quota"} |-> 0]
  /\ ctrl      = [a \in Apps |-> {}]

(* A handler thread starts RPC r.                                          *)
StartCall(t, r) ==
  /\ pc[t] = "idle"
  /\ calls[t] < MaxCalls
  /\ calls' = [calls EXCEPT ![t] = @ + 1]
  /\ req' = [req EXCEPT ![t] = r]

(* The RPC's app is disabled: UNAVAILABLE.  UpdateIPFIXFlow has no such    *)
(* check.                                                                  *)
Unavailable(t, r) ==
  /\ StartCall(t, r)
  /\ r.rpc # "update_ipfix"
  /\ ~Enabled(AppOf(r))
  /\ ret' = [ret EXCEPT ![t] = UNAVAILABLE]
  /\ UNCHANGED <<pc, todo, fut, queue, lastEpoch, ctrl>>

(* AddUEMacFlow / DeleteUEMacFlow: a MAC that is not 17 characters long.   *)
InvalidMac(t, r) ==
  /\ StartCall(t, r)
  /\ r.rpc \in {"add_ue_mac", "delete_ue_mac"}
  /\ Enabled("ue_mac")
  /\ MacLen[r.mac] # 17
  /\ ret' = [ret EXCEPT ![t] = INVALID]
  /\ UNCHANGED <<pc, todo, fut, queue, lastEpoch, ctrl>>

(* UpdateIPFIXFlow, CreateFlow, RemoveFlow, UpdateFlowStats and           *)
(* UpdateSubscriberQuotaState: post the app method, if any, and return a   *)
(* FlowResponse without waiting.                                           *)
FireAndForget(t, r) ==
  /\ StartCall(t, r)
  /\ r.rpc \in {"update_ipfix", "create_flow", "remove_flow",
                "update_flow_stats", "update_quota"}
  /\ r.rpc # "update_ipfix" => Enabled(AppOf(r))
  /\ queue' = queue \o PostedCallbacks(r)
  /\ ret' = [ret EXCEPT ![t] = OK]
  /\ UNCHANGED <<pc, todo, fut, lastEpoch, ctrl>>

(* Fault: the group records the epoch after the one it accepted.          *)
SetupEpochCheckRecordsNext(t, r) ==
  LET g == SetupGroup[r.rpc] IN
  /\ StartCall(t, r)
  /\ r.rpc \in {"setup_ue_mac", "setup_quota"}
  /\ Enabled(g)
  /\ IF r.epoch > lastEpoch[g]
       THEN /\ lastEpoch' = [lastEpoch EXCEPT ![g] = r.epoch + 1]
            /\ pc' = [pc EXCEPT ![t] = "post"]
            /\ UNCHANGED ret
       ELSE /\ ret' = [ret EXCEPT ![t] = OUTDATED]
            /\ UNCHANGED <<pc, lastEpoch>>
  /\ UNCHANGED <<todo, fut, queue, ctrl>>

(* SetupUEMacFlows / SetupQuotaFlows: the app's check_setup_request_epoch  *)
(* on the handler thread; a stale epoch is answered at once.               *)
SetupEpochCheck(t, r) ==
  LET g == SetupGroup[r.rpc] IN
  /\ StartCall(t, r)
  /\ r.rpc \in {"setup_ue_mac", "setup_quota"}
  /\ Enabled(g)
  /\ IF r.epoch > lastEpoch[g]
       THEN /\ lastEpoch' = [lastEpoch EXCEPT ![g] = r.epoch]
            /\ pc' = [pc EXCEPT ![t] = "post"]
            /\ UNCHANGED ret
       ELSE /\ ret' = [ret EXCEPT ![t] = OUTDATED]
            /\ UNCHANGED <<pc, lastEpoch>>
  /\ UNCHANGED <<todo, fut, queue, ctrl>>

(* call_soon_threadsafe(self._setup_ue_mac / self._setup_quota, request,   *)
(* fut) followed by fut.result().                                          *)
PostSetup(t) ==
  /\ pc[t] = "post"
  /\ queue' = Append(queue, [fn |-> req[t].rpc, thread |-> t, req |-> req[t]])
  /\ pc' = [pc EXCEPT ![t] = "wait"]
  /\ UNCHANGED <<req, todo, calls, ret, fut, lastEpoch, ctrl>>

(* AddUEMacFlow: post _add_ue_mac_flow and block on fut.result().          *)
AddUEMacFlow(t, r) ==
  /\ StartCall(t, r)
  /\ r.rpc = "add_ue_mac"
  /\ Enabled("ue_mac")
  /\ MacLen[r.mac] = 17
  /\ queue' = Append(queue, [fn |-> "add_ue_mac", thread |-> t, req |-> r])
  /\ pc' = [pc EXCEPT ![t] = "wait"]
  /\ UNCHANGED <<todo, ret, fut, lastEpoch, ctrl>>

(* One call_soon_threadsafe of DeleteUEMacFlow: the next callback of cbs  *)
(* is posted; after the last one the handler returns a FlowResponse.       *)
PostDeleteCallbacks(t, cbs) ==
  /\ queue' = Append(queue, Head(cbs))
  /\ todo' = [todo EXCEPT ![t] = Tail(cbs)]
  /\ IF Len(cbs) = 1
       THEN pc' = [pc EXCEPT ![t] = "idle"] /\ ret' = [ret EXCEPT ![t] = OK]
       ELSE pc' = [pc EXCEPT ![t] = "delete"] /\ UNCHANGED ret

(* DeleteUEMacFlow: the checks, then ue_mac.delete_ue_mac_flow is posted.  *)
DeleteUEMacFlow(t, r) ==
  /\ StartCall(t, r)
  /\ r.rpc = "delete_ue_mac"
  /\ Enabled("ue_mac")
  /\ MacLen[r.mac] = 17
  /\ PostDeleteCallbacks(t, DeleteCallbacks(r))
  /\ UNCHANGED <<fut, lastEpoch, ctrl>>

(* The handler posts the next callback for an enabled app.                 *)
PostDeleteCallback(t) ==
  /\ pc[t] = "delete"
  /\ PostDeleteCallbacks(t, todo[t])
  /\ UNCHANGED <<req, calls, fut, lastEpoch, ctrl>>

(* fut.result() returns the result the loop set.                           *)
ReturnResult(t) ==
  /\ pc[t] = "wait"
  /\ fut[t] # NoResult
  /\ pc' = [pc EXCEPT ![t] = "idle"]
  /\ ret' = [ret EXCEPT ![t] = fut[t]]
  /\ fut' = [fut EXCEPT ![t] = NoResult]
  /\ UNCHANGED <<req, todo, calls, queue, lastEpoch, ctrl>>

-----------------------------------------------------------------------------
(* The event loop runs the head callback to completion.                    *)

Work == Head(queue)

(* A posted app method (ipfix, dpi, check_quota, the DeleteUEMacFlow       *)
(* callbacks).                                                             *)
LoopAppCall ==
  /\ queue # <<>>
  /\ Work.fn = "app"
  /\ ctrl' = Effect(ctrl, Work)
  /\ queue' = Tail(queue)
  /\ UNCHANGED <<pc, req, todo, calls, ret, fut, lastEpoch>>

(* _setup_ue_mac: ue_mac.handle_restart(requests), then, with IPFIX        *)
(* enabled, ipfix.add_ue_sample_flow for every request.                    *)
SetupUEMac(c, r) ==
  [c EXCEPT !["ue_mac"] = r.snap,
            !["ipfix"] = IF Enabled("ipfix") THEN @ \cup {e[1] : e \in r.snap}
                                             ELSE @]

LoopSetupUEMac ==
  /\ queue # <<>>
  /\ Work.fn = "setup_ue_mac"
  /\ ctrl' = SetupUEMac(ctrl, Work.req)
  /\ fut' = [fut EXCEPT ![Work.thread] = SUCCESS]
  /\ queue' = Tail(queue)
  /\ UNCHANGED <<pc, req, todo, calls, ret, lastEpoch>>

(* _add_ue_mac_flow: ue_mac.add_ue_mac_flow(imsi, mac).                    *)
AddUEMac(c, r) == Effect(c, AppCall("ue_mac", TRUE, <<r.sid, r.mac>>))

(* Fault: the callback never sets the Future.                             *)
LoopAddUEMacFlowNoResult ==
  /\ queue # <<>>
  /\ Work.fn = "add_ue_mac"
  /\ ctrl' = AddUEMac(ctrl, Work.req)
  /\ queue' = Tail(queue)
  /\ UNCHANGED <<pc, req, todo, calls, ret, fut, lastEpoch>>

LoopAddUEMacFlow ==
  /\ queue # <<>>
  /\ Work.fn = "add_ue_mac"
  /\ ctrl' = AddUEMac(ctrl, Work.req)
  /\ fut' = [fut EXCEPT ![Work.thread] = OK]
  /\ queue' = Tail(queue)
  /\ UNCHANGED <<pc, req, todo, calls, ret, lastEpoch>>

(* _setup_quota: check_quota.handle_restart(requests).                    *)
SetupQuota(c, r) == [c EXCEPT !["check_quota"] = r.snap]

LoopSetupQuota ==
  /\ queue # <<>>
  /\ Work.fn = "setup_quota"
  /\ ctrl' = SetupQuota(ctrl, Work.req)
  /\ fut' = [fut EXCEPT ![Work.thread] = SUCCESS]
  /\ queue' = Tail(queue)
  /\ UNCHANGED <<pc, req, todo, calls, ret, lastEpoch>>

(* The dataplane: vlan_learn and tunnel_learn learn a subscriber and its   *)
(* MAC from its traffic once ue_mac has the association.                   *)
Learn ==
  /\ \E e \in ctrl["ue_mac"] :
       /\ Enabled("vlan_learn") /\ Enabled("tunnel_learn")
       /\ e[1] \notin ctrl["vlan_learn"] \/ e[2] \notin ctrl["tunnel_learn"]
       /\ ctrl' = [ctrl EXCEPT !["vlan_learn"] = @ \cup {e[1]},
                               !["tunnel_learn"] = @ \cup {e[2]}]
  /\ UNCHANGED <<pc, req, todo, calls, ret, fut, queue, lastEpoch>>

LoopStep == LoopAppCall \/ LoopSetupUEMac \/ LoopAddUEMacFlow \/ LoopSetupQuota

ThreadStep(t) == PostSetup(t) \/ PostDeleteCallback(t) \/ ReturnResult(t)

Call(t) ==
  \E r \in Requests :
    \/ Unavailable(t, r)
    \/ InvalidMac(t, r)
    \/ FireAndForget(t, r)
    \/ SetupEpochCheck(t, r)
    \/ AddUEMacFlow(t, r)
    \/ DeleteUEMacFlow(t, r)

Next ==
  \/ \E t \in Threads : Call(t) \/ ThreadStep(t)
  \/ LoopStep
  \/ Learn

(* The loop drains its queue and a started handler runs on; callers and    *)
(* the dataplane are free never to act.                                    *)
Fairness ==
  /\ WF_vars(LoopStep)
  /\ \A t \in Threads : WF_vars(ThreadStep(t))

Spec == Init /\ [][Next]_vars /\ Fairness

-----------------------------------------------------------------------------
(* Properties.                                                             *)

Callbacks == [fn : {"app"}, app : Apps, add : BOOLEAN, item : Items]

TypeOK ==
  /\ pc \in [Threads -> {"idle", "post", "wait", "delete"}]
  /\ req \in [Threads -> Requests \cup {[rpc |-> "none"]}]
  /\ todo \in [Threads -> Seq(Callbacks)]
  /\ calls \in [Threads -> 0..MaxCalls]
  /\ ret \in [Threads -> {OK, UNAVAILABLE, INVALID, SUCCESS, OUTDATED, NoResult}]
  /\ fut \in [Threads -> {OK, SUCCESS, NoResult}]
  /\ lastEpoch \in [{"ue_mac", "check_quota"} -> {0} \cup Epochs]
  /\ ctrl \in [Apps -> SUBSET Items]

(* Every RPC that blocks on fut.result() eventually returns, and           *)
(* DeleteUEMacFlow eventually posts all its callbacks and returns.         *)
EveryCallReturns ==
  \A t \in Threads : pc[t] # "idle" ~> pc[t] = "idle"

=============================================================================
