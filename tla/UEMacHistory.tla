---------------------------- MODULE UEMacHistory ----------------------------
(***************************************************************************)
(* UEMac with a history of the RPCs issued, to state that the RPCs are     *)
(* linearizable: whenever the handlers and the loop are idle, the apps     *)
(* hold what running the issued RPCs one at a time, in some order, gives.  *)
(* The order must put an RPC after every blocking RPC that returned before *)
(* it was called, and after every earlier RPC of the same thread; a        *)
(* fire-and-forget RPC of another thread may take effect after it returned.*)
(* Setups are left to module Pipelined's fencing properties and the       *)
(* dataplane's learning is not an RPC, so neither is ordered here.         *)
(***************************************************************************)
EXTENDS UEMac, SequencesExt

VARIABLES
  ops,  \* the RPCs issued, in call order: [t |-> thread, r |-> request]
  prec  \* <<i, j>>: RPC i must take effect before RPC j

hvars == <<vars, ops, prec>>

Blocking(r) == r.rpc \in {"setup_ue_mac", "setup_quota", "add_ue_mac"}

(* RPC i has returned: its thread has called again or is idle.             *)
Returned(i) ==
  \/ \E j \in DOMAIN ops : j > i /\ ops[j].t = ops[i].t
  \/ pc[ops[i].t] = "idle"

HInit == Init /\ ops = <<>> /\ prec = {}

(* A step of UEMac; a thread that starts an RPC adds it to the history.   *)
HNext ==
  /\ Next
  /\ IF \E t \in Threads : calls'[t] > calls[t]
       THEN LET t == CHOOSE t \in Threads : calls'[t] > calls[t] IN
            /\ ops' = Append(ops, [t |-> t, r |-> req'[t]])
            /\ prec' = prec \cup {<<i, Len(ops) + 1>> :
                         i \in {i \in DOMAIN ops :
                                  Returned(i) /\ (Blocking(ops[i].r) \/ ops[i].t = t)}}
       ELSE UNCHANGED <<ops, prec>>

HSpec == HInit /\ [][HNext]_hvars

-----------------------------------------------------------------------------
(* The effect of one RPC on the apps when run alone, as UEMacAbstract      *)
(* states it.                                                              *)
AbstractAt(c) == INSTANCE UEMacAbstract WITH ctrl <- c

Accepted(r) ==
  /\ Enabled(AppOf(r))
  /\ r.rpc \in {"add_ue_mac", "delete_ue_mac"} => MacLen[r.mac] = 17

RunAlone(c, o) == IF Accepted(o.r) THEN AbstractAt(c)!Applied(o.r) ELSE c

(* The orders of the issued RPCs that respect prec.                        *)
Orders ==
  {s \in SetToSeqs(DOMAIN ops) :
     \A a, b \in DOMAIN s : <<s[a], s[b]>> \in prec => a < b}

Quiescent == queue = <<>> /\ \A t \in Threads : pc[t] = "idle"

(* Spec section 5: two requests never interleave their calls to the apps, *)
(* so once everything posted has run, the apps are as if the RPCs ran one *)
(* at a time.  DeleteUEMacFlow's five separate call_soon_threadsafe calls  *)
(* are what this is about.                                                 *)
Linearizable ==
  Quiescent =>
    \E s \in Orders :
      ctrl = FoldLeft(RunAlone, [a \in Apps |-> {}], [i \in DOMAIN s |-> ops[s[i]]])

=============================================================================
