----------------------------- MODULE PayloadLog -----------------------------
(***************************************************************************)
(* _log_grpc_payload (magma/pipelined/rpc_servicer.py, lines 653-669), the  *)
(* first call of every RPC handler, GetAllTableAssignments included.       *)
(*                                                                         *)
(* The handler formats the request and puts it on the module-level         *)
(* grpc_msg_queue; if qsize() is then above 100 it gets, and so drops, the *)
(* oldest entry.  queue.Queue makes put, qsize and get atomic one by one,  *)
(* but concurrent handler threads interleave between them.  A payload is   *)
(* abstracted to <<thread, call number>>; the formatting and the optional  *)
(* logging.info of it change no state.                                     *)
(***************************************************************************)
EXTENDS Naturals, Sequences, FiniteSets, SequencesExt

CONSTANTS
  Threads,   \* gRPC handler threads
  Capacity,  \* the 100 of grpc_msg_queue.qsize() > 100
  MaxCalls   \* bound: RPCs issued per thread

ASSUME Capacity \in Nat \ {0}
ASSUME MaxCalls \in Nat \ {0}
(* The real pool of handler threads is far smaller than 100; keeping at    *)
(* least as many slots as threads keeps the scaled model in that regime.  *)
ASSUME Capacity >= Cardinality(Threads)

VARIABLES
  pc,     \* per thread: "idle", "size" (put done) or "get" (qsize() > 100 seen)
  calls,  \* per thread: RPCs issued so far
  log,    \* grpc_msg_queue, oldest entry first
  sent    \* history: every payload put, in put order

vars == <<pc, calls, log, sent>>

Init ==
  /\ pc = [t \in Threads |-> "idle"]
  /\ calls = [t \in Threads |-> 0]
  /\ log = <<>>
  /\ sent = <<>>

(* Fault: the handler never trims the queue after its put.                *)
LogPayloadNoTrim(t) ==
  /\ pc[t] = "idle"
  /\ calls[t] < MaxCalls
  /\ calls' = [calls EXCEPT ![t] = @ + 1]
  /\ \/ UNCHANGED <<pc, log, sent>>
     \/ /\ log' = Append(log, <<t, calls'[t]>>)
        /\ sent' = Append(sent, <<t, calls'[t]>>)
        /\ UNCHANGED pc

(* An RPC starts: an empty request returns at once (if not grpc_request),  *)
(* any other is formatted and put on the queue.                            *)
LogPayload(t) ==
  /\ pc[t] = "idle"
  /\ calls[t] < MaxCalls
  /\ calls' = [calls EXCEPT ![t] = @ + 1]
  /\ \/ UNCHANGED <<pc, log, sent>>
     \/ /\ log' = Append(log, <<t, calls'[t]>>)
        /\ sent' = Append(sent, <<t, calls'[t]>>)
        /\ pc' = [pc EXCEPT ![t] = "size"]

(* Fault: the queue is trimmed once it holds 100 entries.                 *)
CheckSizeAtCapacity(t) ==
  /\ pc[t] = "size"
  /\ pc' = [pc EXCEPT ![t] = IF Len(log) >= Capacity THEN "get" ELSE "idle"]
  /\ UNCHANGED <<calls, log, sent>>

(* grpc_msg_queue.qsize() > 100.                                           *)
CheckSize(t) ==
  /\ pc[t] = "size"
  /\ pc' = [pc EXCEPT ![t] = IF Len(log) > Capacity THEN "get" ELSE "idle"]
  /\ UNCHANGED <<calls, log, sent>>

(* grpc_msg_queue.get(): removes the oldest entry (it would block on an    *)
(* empty queue).                                                           *)
DropOldest(t) ==
  /\ pc[t] = "get"
  /\ log # <<>>
  /\ log' = Tail(log)
  /\ pc' = [pc EXCEPT ![t] = "idle"]
  /\ UNCHANGED <<calls, sent>>

Next == \E t \in Threads : LogPayload(t) \/ CheckSize(t) \/ DropOldest(t)

Spec == Init /\ [][Next]_vars

-----------------------------------------------------------------------------
(* Properties.                                                             *)

TypeOK ==
  /\ pc \in [Threads -> {"idle", "size", "get"}]
  /\ calls \in [Threads -> 0..MaxCalls]
  /\ log \in Seq(Threads \X (1..MaxCalls))
  /\ Len(log) <= Len(sent)

Trimming == {t \in Threads : pc[t] # "idle"}

(* The queue holds at most 100 entries beyond one per handler that has put *)
(* but not yet trimmed; in particular at most 100 once no handler is       *)
(* between its put and its qsize()/get().                                  *)
LogBounded == Len(log) <= Capacity + Cardinality(Trimming)

(* The check-then-get race over-trims by at most one payload per other   *)
(* handler: handlers that all saw qsize() > 100 all get, so the queue may  *)
(* fall below the last 100 payloads, but never by more than one fewer      *)
(* than the number of handler threads.                                     *)
LogKeepsCapacity ==
  Len(log) >= (IF Len(sent) < Capacity THEN Len(sent) ELSE Capacity)
              - (Cardinality(Threads) - 1)

=============================================================================
