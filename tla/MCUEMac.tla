------------------------------ MODULE MCUEMac ------------------------------
(***************************************************************************)
(* Instantiates UEMac for TLC and maps it onto UEMacAbstract.              *)
(***************************************************************************)
EXTENDS UEMac, SequencesExt

CONSTANTS t1, t2, imsi1, mac1, macShort, match1

MCThreads     == {t1, t2}
MCOneThread   == {t1}
MCSubscribers == {imsi1}
MCMacs        == {mac1, macShort}
MCMacLen      == [m \in MCMacs |-> IF m = mac1 THEN 17 ELSE 16]
MCMatches     == {match1}
MCEpochs      == {1, 2}
MCMacSnapshots   == {{}, {<<imsi1, mac1>>}}
MCQuotaSnapshots == {{}, {imsi1}}
NoSnapshots   == {}
OneMacSnapshot   == {{<<imsi1, mac1>>}}
OneQuotaSnapshot == {{imsi1}}
AllApps       == Apps
NoIpfixNoDpi  == Apps \ {"ipfix", "dpi"}
NoLearning    == Apps \ {"vlan_learn", "tunnel_learn"}
MacAndQuota   == {"ue_mac", "check_quota"}

-----------------------------------------------------------------------------
(* Refinement mapping.  An RPC takes effect, in the abstract, when its     *)
(* handler starts it: the apps are those once the loop has run every      *)
(* posted callback and every callback a handler has still to post.       *)

(* Running one callback on the apps, as the loop does.                     *)
Run(c, cb) ==
  CASE cb.fn = "app"          -> Effect(c, cb)
    [] cb.fn = "setup_ue_mac" -> SetupUEMac(c, cb.req)
    [] cb.fn = "add_ue_mac"   -> AddUEMac(c, cb.req)
    [] cb.fn = "setup_quota"  -> SetupQuota(c, cb.req)

(* The callbacks handler t has still to post.                              *)
Unposted(t) ==
  CASE pc[t] = "post"   -> <<[fn |-> req[t].rpc, thread |-> t, req |-> req[t]]>>
    [] pc[t] = "delete" -> todo[t]
    [] OTHER            -> <<>>

Pending ==
  LET ts == SetToSeq(Threads) IN
  queue \o FlattenSeq([i \in DOMAIN ts |-> Unposted(ts[i])])

(* A handler that has posted its request has, in the abstract, answered.   *)
AnswerOf(t) ==
  CASE pc[t] \in {"post", "wait"} ->
         IF req[t].rpc = "add_ue_mac" THEN OK ELSE SUCCESS
    [] pc[t] = "delete" -> OK
    [] OTHER -> ret[t]

Atomic == INSTANCE UEMacAbstract
            WITH ctrl <- FoldLeft(Run, ctrl, Pending),
                 lastEpoch <- lastEpoch,
                 req <- req,
                 ret <- [t \in Threads |-> AnswerOf(t)]

(* The RPCs implement the atomic specification: whatever the handlers and  *)
(* the loop interleave, the apps and the answers go through a sequence of  *)
(* whole RPCs, each gated and validated as the spec requires.              *)
AtomicRPCs == Atomic!ASpec

=============================================================================
