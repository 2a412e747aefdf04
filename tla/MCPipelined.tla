---------------------------- MODULE MCPipelined ----------------------------
(* Instantiates Pipelined for TLC: one subscriber, one static and one      *)
(* dynamic rule, and request sets built from them.                         *)
EXTENDS Pipelined

CONSTANTS t1, t2, imsi1, s1, d1, ALL

MCThreads      == {t1, t2}
MCOneThread    == {t1}
MCSubscribers  == {imsi1}
MCStaticRules  == {s1}
MCDynamicRules == {d1}
MCEpochs       == {1, 2}

(* Addressing of a request: IPv4 only, dual stack, or none at all.         *)
Addressing == {<<TRUE, FALSE>>, <<TRUE, TRUE>>, <<FALSE, FALSE>>}

(* ActivateFlowsRequests with the given addressing: either origin, the     *)
(* static rule alone or with the dynamic one; tunnel ids on dual stack.    *)
Activations(addr) ==
  {[rpc |-> "activate", sid |-> imsi1, origin |-> o, v4 |-> a[1], v6 |-> a[2],
    static |-> {s1}, dynamic |-> dyn, tunnels |-> a[1] /\ a[2]] :
     o \in Origins, a \in addr, dyn \in {{}, {d1}}}

(* DeactivateFlowsRequests naming s1 or no rule at all.                    *)
Deactivations(addr) ==
  {[rpc |-> "deactivate", sid |-> imsi1, origin |-> o, v4 |-> a[1], v6 |-> a[2],
    rules |-> ids] : o \in Origins, a \in addr, ids \in {{}, {s1}}}

MCActivateRequests   == Activations(Addressing)
MCActivateV4         == Activations({<<TRUE, FALSE>>})
MCDeactivateRequests == Deactivations({<<TRUE, FALSE>>, <<TRUE, TRUE>>})
MCDeactivateV4       == Deactivations({<<TRUE, FALSE>>})
MCNoRequests         == {}

(* Setup snapshots: sets of a Gx and a Gy entry for s1 on imsi1's IPv4.    *)
SnapshotEntries ==
  {[origin |-> o, sid |-> imsi1, fam |-> "V4", rule |-> s1] : o \in Origins}

MCPolicySetups ==
  [rpc : {"setup"}, kind : {"policy"}, epoch : Epochs, snap : SUBSET SnapshotEntries]

MCFullPolicySetups ==
  [rpc : {"setup"}, kind : {"policy"}, epoch : Epochs, snap : {SnapshotEntries}]

MCSetupRequests ==
  MCFullPolicySetups
  \cup [rpc : {"setup"}, kind : {"default"}, epoch : Epochs, snap : {{}}]

(* handle_restart outcomes: every controller restores its snapshot, or any *)
(* one of them may fail.                                                   *)
AlwaysRestored == {[c \in {"enforcer", "gy", "enforcement_stats"} |-> TRUE]}
AnyRestartOutcome == [{"enforcer", "gy", "enforcement_stats"} -> BOOLEAN]

-----------------------------------------------------------------------------
(* Refinement mapping onto PipelinedAbstract.  An RPC takes effect when    *)
(* the loop runs its callback; the controllers map to themselves and a     *)
(* thread's answer is the activation result its Future holds.             *)
AnswerSet(v) ==
  IF v \in Codes THEN {}
  ELSE {<<x.rule_id, x.fam, x.result>> : x \in ToSet(v.static) \cup ToSet(v.dynamic)}

Contract == INSTANCE PipelinedAbstract WITH answer <- [t \in Threads |-> AnswerSet(fut[t])]

(* The policy RPCs implement the atomic contract: every change to the      *)
(* controllers is a whole activation, deactivation or restart, each        *)
(* downstream rule is one enforcement_stats installed in the same call,    *)
(* and an activation answers SUCCESS for exactly the downstream rules.     *)
PolicyContract == Contract!ASpec
=============================================================================

