--------------------------- MODULE UEMacAbstract ---------------------------
(***************************************************************************)
(* What the UE MAC, check-quota, IPFIX and DPI RPCs promise their callers  *)
(* (spec sections 5 to 7): every RPC takes effect on the apps in a single  *)
(* atomic step, as if the apps were called under one lock.  An RPC whose   *)
(* app is disabled is answered UNAVAILABLE and a malformed MAC             *)
(* INVALID_ARGUMENT, before any app is touched; a setup whose epoch is not *)
(* newer than the group's last accepted one is answered OUTDATED_EPOCH     *)
(* without a change.  Learning by vlan_learn and tunnel_learn is traffic,  *)
(* not an RPC, and may add entries at any time.                            *)
(***************************************************************************)
EXTENDS UEMacApps

VARIABLES
  ctrl,      \* per app: the items it has flows for
  lastEpoch, \* per setup group: last accepted epoch
  req,       \* per thread: its last RPC's request
  ret        \* per thread: the answer its last RPC returned

avars == <<ctrl, lastEpoch, req, ret>>

(* The items an app holds for subscriber r.sid and MAC r.mac.              *)
ItemsOf(app, r) ==
  CASE app = "ue_mac"       -> {<<r.sid, r.mac>>}
    [] app = "tunnel_learn" -> {r.mac}
    [] app = "dpi"          -> {}
    [] OTHER                -> {r.sid}

(* The effect of request r on the apps, and its answer, once it is        *)
(* accepted.                                                               *)
Applied(r) ==
  CASE r.rpc = "update_ipfix" ->
         [ctrl EXCEPT !["ipfix"] = @ \cup {r.sid}]
    [] r.rpc = "create_flow" -> [ctrl EXCEPT !["dpi"] = @ \cup {r.match}]
    [] r.rpc = "remove_flow" -> [ctrl EXCEPT !["dpi"] = @ \ {r.match}]
    [] r.rpc = "update_quota" ->
         [ctrl EXCEPT !["check_quota"] = IF r.valid THEN @ \cup {r.sid}
                                                     ELSE @ \ {r.sid}]
    [] r.rpc = "add_ue_mac" -> [ctrl EXCEPT !["ue_mac"] = @ \cup {<<r.sid, r.mac>>}]
    [] r.rpc = "delete_ue_mac" ->
         [a \in Apps |-> IF Enabled(a) THEN ctrl[a] \ ItemsOf(a, r) ELSE ctrl[a]]
    [] r.rpc = "setup_ue_mac" ->
         [ctrl EXCEPT !["ue_mac"] = r.snap,
                      !["ipfix"] = IF Enabled("ipfix")
                                     THEN @ \cup {e[1] : e \in r.snap} ELSE @]
    [] r.rpc = "setup_quota" -> [ctrl EXCEPT !["check_quota"] = r.snap]
    [] OTHER -> ctrl

Answer(r) == IF r.rpc \in {"setup_ue_mac", "setup_quota"} THEN SUCCESS ELSE OK

AInit ==
  /\ ctrl = [a \in Apps |-> {}]
  /\ lastEpoch = [g \in {"ue_mac", "check_quota"} |-> 0]
  /\ req = [t \in Threads |-> [rpc |-> "none"]]
  /\ ret = [t \in Threads |-> NoResult]

(* Thread t's RPC r, checked and applied in one step.                      *)
Rpc(t, r) ==
  /\ req' = [req EXCEPT ![t] = r]
  /\ \/ /\ ~Enabled(AppOf(r))
        /\ ret' = [ret EXCEPT ![t] = UNAVAILABLE]
        /\ UNCHANGED <<ctrl, lastEpoch>>
     \/ /\ Enabled(AppOf(r))
        /\ r.rpc \in {"add_ue_mac", "delete_ue_mac"}
        /\ MacLen[r.mac] # 17
        /\ ret' = [ret EXCEPT ![t] = INVALID]
        /\ UNCHANGED <<ctrl, lastEpoch>>
     \/ /\ Enabled(AppOf(r))
        /\ r.rpc \in {"setup_ue_mac", "setup_quota"}
        /\ r.epoch <= lastEpoch[SetupGroup[r.rpc]]
        /\ ret' = [ret EXCEPT ![t] = OUTDATED]
        /\ UNCHANGED <<ctrl, lastEpoch>>
     \/ /\ Enabled(AppOf(r))
        /\ r.rpc \in {"add_ue_mac", "delete_ue_mac"} => MacLen[r.mac] = 17
        /\ r.rpc \in {"setup_ue_mac", "setup_quota"} =>
             r.epoch > lastEpoch[SetupGroup[r.rpc]]
        /\ ctrl' = Applied(r)
        /\ lastEpoch' = IF r.rpc \in {"setup_ue_mac", "setup_quota"}
                          THEN [lastEpoch EXCEPT ![SetupGroup[r.rpc]] = r.epoch]
                          ELSE lastEpoch
        /\ ret' = [ret EXCEPT ![t] = Answer(r)]

(* Traffic teaches vlan_learn and tunnel_learn subscribers and MACs.      *)
ALearn ==
  /\ Enabled("vlan_learn") /\ Enabled("tunnel_learn")
  /\ \E S \in SUBSET Subscribers, M \in SUBSET Macs :
       ctrl' = [ctrl EXCEPT !["vlan_learn"] = @ \cup S, !["tunnel_learn"] = @ \cup M]
  /\ UNCHANGED <<lastEpoch, req, ret>>

ANext == (\E t \in Threads, r \in Requests : Rpc(t, r)) \/ ALearn

ASpec == AInit /\ [][ANext]_avars

=============================================================================
