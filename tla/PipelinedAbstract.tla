-------------------------- MODULE PipelinedAbstract --------------------------
(***************************************************************************)
(* What the policy RPCs promise about the controllers, each RPC one atomic *)
(* step (spec sections 2, 4.3 to 4.5 and the _install_flows_gx docstring): *)
(*                                                                         *)
(*  - ActivateFlows installs, per address family, some rules S in          *)
(*    enforcement_stats and a subset D of S in the request's downstream    *)
(*    controller (the enforcer for Gx, gy for Gy), and answers SUCCESS     *)
(*    exactly for the rules of D; with enforcement_stats disabled nothing  *)
(*    filters the downstream rules.                                        *)
(*  - DeactivateFlows removes the named rules, or all, from the            *)
(*    downstream controller of its origin.                                 *)
(*  - SetupPolicyFlows replaces each controller's rules by the snapshot's  *)
(*    Gx (enforcer, enforcement_stats) or Gy (gy) part, unless that        *)
(*    controller's restart fails.                                          *)
(* Which rules the controllers fail is theirs to choose.  Epoch fencing    *)
(* and the version ledger are left to the detailed module's properties.    *)
(***************************************************************************)
EXTENDS FiniteSets

CONSTANTS
  Threads, Subscribers, StaticRules, DynamicRules, EnabledApps, SetupType,
  ActivateRequests, DeactivateRequests, SetupRequests, RestartOutcomes

VARIABLES
  stats,   \* per key: rules installed in enforcement_stats
  enf,     \* per key: rules installed in the enforcer
  gy,      \* per key: rules installed in gy
  answer   \* per thread: <<rule, family, result>> of the activation it awaits

avars == <<stats, enf, gy, answer>>

AKeys == Subscribers \X {"V4", "V6"}

(* The address families a request touches: IPv4 always on CWF.           *)
FamsOf(r) ==
  (IF SetupType = "CWF" \/ r.v4 THEN {"V4"} ELSE {}) \cup (IF r.v6 THEN {"V6"} ELSE {})

KeysOf(r) == {<<r.sid, f>> : f \in FamsOf(r)}

(* ctrl with the rules add[f] added to r's key of family f.                *)
AddPerFam(ctrl, r, add) ==
  [k \in AKeys |-> IF k \in KeysOf(r) THEN ctrl[k] \cup add[k[2]] ELSE ctrl[k]]

Removed(ctrl, r) ==
  [k \in AKeys |-> IF k \notin KeysOf(r) THEN ctrl[k]
                   ELSE IF r.rules = {} THEN {} ELSE ctrl[k] \ r.rules]

FromSnapshot(ctrl, snap, origin, ok) ==
  IF ok THEN [k \in AKeys |-> {e.rule : e \in {e \in snap : e.origin = origin
                                                         /\ <<e.sid, e.fam>> = k}}]
        ELSE ctrl

AInit ==
  /\ stats = [k \in AKeys |-> {}]
  /\ enf = [k \in AKeys |-> {}]
  /\ gy = [k \in AKeys |-> {}]
  /\ answer = [t \in Threads |-> {}]

Activate(t, r) ==
  LET R == r.static \cup r.dynamic IN
  \E S, D \in [FamsOf(r) -> SUBSET R] :
    /\ \A f \in FamsOf(r) : D[f] \subseteq S[f]
    /\ IF "enforcement_stats" \in EnabledApps
         THEN stats' = AddPerFam(stats, r, S)
         ELSE (\A f \in FamsOf(r) : S[f] = R) /\ UNCHANGED stats
    /\ IF r.origin = "GX" THEN enf' = AddPerFam(enf, r, D) /\ UNCHANGED gy
                          ELSE gy' = AddPerFam(gy, r, D) /\ UNCHANGED enf
    /\ answer' = [answer EXCEPT ![t] =
                   {<<x, f, IF x \in D[f] THEN "SUCCESS" ELSE "FAILURE">> :
                      x \in R, f \in FamsOf(r)}]

Deactivate(r) ==
  /\ IF r.origin = "GX" THEN enf' = Removed(enf, r) /\ UNCHANGED gy
                        ELSE gy' = Removed(gy, r) /\ UNCHANGED enf
  /\ UNCHANGED <<stats, answer>>

Restart(s) ==
  /\ s.kind = "policy"
  /\ \E ok \in RestartOutcomes :
       /\ enf' = FromSnapshot(enf, s.snap, "GX", ok.enforcer)
       /\ gy' = FromSnapshot(gy, s.snap, "GY", ok.gy)
       /\ stats' = FromSnapshot(stats, s.snap, "GX", ok.enforcement_stats)
  /\ UNCHANGED answer

(* The caller has read its answer.                                         *)
Return(t) ==
  /\ answer' = [answer EXCEPT ![t] = {}]
  /\ UNCHANGED <<stats, enf, gy>>

ANext ==
  \/ \E t \in Threads, r \in ActivateRequests : Activate(t, r)
  \/ \E r \in DeactivateRequests : Deactivate(r)
  \/ \E s \in SetupRequests : Restart(s)
  \/ \E t \in Threads : Return(t)

ASpec == AInit /\ [][ANext]_avars

=============================================================================
