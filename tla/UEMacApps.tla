----------------------------- MODULE UEMacApps -----------------------------
(***************************************************************************)
(* Constants and requests shared by the UE MAC, check-quota, IPFIX and DPI *)
(* RPCs (module UEMac) and the atomic specification they should implement *)
(* (module UEMacAbstract).                                                 *)
(*                                                                         *)
(* The apps are external: each is abstracted to the set of items it has    *)
(* flows for (ue_mac: <<imsi, mac>> pairs; check_quota, vlan_learn, ipfix: *)
(* imsis; tunnel_learn: MACs; dpi: flow matches).  An app method adds or   *)
(* removes one item.                                                       *)
(***************************************************************************)
EXTENDS Naturals, Sequences, FiniteSets

CONSTANTS
  Threads,        \* gRPC handler threads
  Subscribers,    \* IMSIs
  Macs,           \* MAC address strings callers send
  MacLen,         \* [Macs -> Nat]: len(mac_addr)
  Matches,        \* DPI flow matches
  Epochs,         \* epochs a setup request may carry
  EnabledApps,    \* apps service_manager.is_app_enabled reports enabled
  MacSnapshots,   \* SetupUEMacRequest.requests callers may send
  QuotaSnapshots  \* SetupQuotaRequest.requests callers may send

Apps == {"ue_mac", "check_quota", "vlan_learn", "tunnel_learn", "ipfix", "dpi"}
Items == (Subscribers \X Macs) \cup Subscribers \cup Macs \cup Matches
SetupGroup == [setup_ue_mac |-> "ue_mac", setup_quota |-> "check_quota"]

ASSUME EnabledApps \subseteq Apps
ASSUME MacLen \in [Macs -> Nat]
ASSUME Epochs \subseteq Nat \ {0}
ASSUME MacSnapshots \subseteq SUBSET (Subscribers \X Macs)
ASSUME QuotaSnapshots \subseteq SUBSET Subscribers

Enabled(app) == app \in EnabledApps

(* Answers: the gRPC status set on the context, a FlowResponse, or a      *)
(* SetupFlowsResult's result code.                                         *)
OK          == "OK"
UNAVAILABLE == "UNAVAILABLE"
INVALID     == "INVALID_ARGUMENT"
SUCCESS     == "SUCCESS"
OUTDATED    == "OUTDATED_EPOCH"
NoResult    == "none"

(* The requests callers may send, one set per RPC.                         *)
Requests ==
  [rpc : {"update_ipfix"}, sid : Subscribers]
  \cup [rpc : {"create_flow", "remove_flow"}, match : Matches]
  \cup [rpc : {"update_flow_stats"}]
  \cup [rpc : {"setup_ue_mac"}, epoch : Epochs, snap : MacSnapshots]
  \cup [rpc : {"add_ue_mac", "delete_ue_mac"}, sid : Subscribers, mac : Macs]
  \cup [rpc : {"setup_quota"}, epoch : Epochs, snap : QuotaSnapshots]
  \cup [rpc : {"update_quota"}, sid : Subscribers, valid : BOOLEAN]

(* The app each RPC checks with is_app_enabled.                            *)
AppOf(r) ==
  CASE r.rpc \in {"update_ipfix"}                          -> "ipfix"
    [] r.rpc \in {"create_flow", "remove_flow", "update_flow_stats"} -> "dpi"
    [] r.rpc \in {"setup_ue_mac", "add_ue_mac", "delete_ue_mac"} -> "ue_mac"
    [] r.rpc \in {"setup_quota", "update_quota"}            -> "check_quota"

(* The apps.  A callback that is an app method: add or remove one item.    *)
AppCall(app, add, x) == [fn |-> "app", app |-> app, add |-> add, item |-> x]

Effect(c, cb) ==
  [c EXCEPT ![cb.app] = IF cb.add THEN @ \cup {cb.item} ELSE @ \ {cb.item}]

=============================================================================
