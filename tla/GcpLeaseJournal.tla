-------------------------- MODULE GcpLeaseJournal ---------------------------
(***************************************************************************)
(* deployment/gcp_lifecycle.py: the lease record of one guarded execution  *)
(* and the rules by which its hash-chained journal takes the next event.   *)
(* The chain is the authority and the snapshot only a copy of one of its   *)
(* events, so a journal is here the last record of the chain and whether   *)
(* the last event was a delete intent; bindings that never change, codes   *)
(* and times are left out.                                                 *)
(***************************************************************************)
EXTENDS Integers

CONSTANTS
  MaxAttempts,  \* plan.cleanup_policy.max_cleanup_attempts
  MaxCalls      \* bound on the delete operations one lease can collect

ASSUME AttemptsAssumption == MaxAttempts \in 1..3
ASSUME CallsAssumption == MaxCalls \in Nat /\ MaxCalls >= MaxAttempts

(* The operation a record names: none, the insert, or the k-th delete.     *)
NoOp == -1
InsertOp == 0
Deletes == 1..MaxCalls
Operations == {InsertOp} \cup Deletes

States == {"PREPARED", "ARM_CONSUMED", "CREATE_SUBMITTED", "OWNED",
           "CLEANUP_PENDING", "CLEANUP_CONFIRMED", "ORPHANED", "BLOCKED"}
Terminal == {"DONE", "ERROR"}
Statuses == {"NONE", "PENDING", "TIMEOUT", "UNKNOWN"} \cup Terminal

(* arm_consumed, provider_mutation_attempted, provider_mutation_ambiguous  *)
(* and orphaned; cleanup_confirmed and provider_operation_terminal always  *)
(* follow from the state and the status.                                   *)
Flags == {"armed", "attempted", "ambiguous", "orphaned"}

Record == [state : States, op : Operations \cup {NoOp}, status : Statuses,
           deletes : 0..MaxAttempts, flags : SUBSET Flags]

Initial == [state |-> "PREPARED", op |-> NoOp, status |-> "NONE",
            deletes |-> 0, flags |-> {}]

(* GcpLeaseRecord.validate_state *)
Valid(r) ==
  /\ r.deletes <= MaxAttempts
  /\ r.state = "CLEANUP_CONFIRMED" =>
       /\ r.flags \cap {"ambiguous", "orphaned"} = {}
       /\ r.op # NoOp => r.status \in Terminal
  /\ "attempted" \in r.flags => "armed" \in r.flags
  /\ r.op = NoOp => r.status \in {"NONE", "UNKNOWN"}
  /\ r.op # NoOp => r.status # "NONE"
  /\ r.status = "UNKNOWN" => "ambiguous" \in r.flags

Allowed(state) ==
  CASE state = "PREPARED" -> {"PREPARED", "ARM_CONSUMED", "CLEANUP_CONFIRMED"}
    [] state = "ARM_CONSUMED" ->
         {"ARM_CONSUMED", "CREATE_SUBMITTED", "CLEANUP_PENDING", "CLEANUP_CONFIRMED"}
    [] state = "CREATE_SUBMITTED" ->
         {"CREATE_SUBMITTED", "OWNED", "CLEANUP_PENDING", "ORPHANED", "BLOCKED"}
    [] state = "OWNED" -> {"OWNED", "CLEANUP_PENDING"}
    [] state = "CLEANUP_PENDING" ->
         {"CLEANUP_PENDING", "CLEANUP_CONFIRMED", "ORPHANED", "BLOCKED"}
    [] state = "ORPHANED" ->
         {"ORPHANED", "CLEANUP_PENDING", "CLEANUP_CONFIRMED", "BLOCKED"}
    [] state = "BLOCKED" -> {"BLOCKED", "CLEANUP_PENDING", "ORPHANED"}
    [] OTHER -> {"CLEANUP_CONFIRMED"}

SameOperation(prev, r) == r.op = prev.op /\ r.status = prev.status

(* _is_prepared_delete_intent: the event that spends one delete attempt.   *)
IsDeleteIntent(prev, r) ==
  /\ r.deletes = prev.deletes + 1
  /\ prev.state = "CLEANUP_PENDING" /\ r.state = "CLEANUP_PENDING"
  /\ \/ prev.op # NoOp /\ prev.status \in Terminal
     \/ prev.op = NoOp /\ prev.status = "UNKNOWN" /\ "ambiguous" \in prev.flags
  /\ SameOperation(prev, r)
  /\ "ambiguous" \in r.flags /\ "orphaned" \notin r.flags

(* _is_bound_delete_operation: the event that names the delete operation   *)
(* the provider returned; it may only follow the intent directly.          *)
IsDeleteHandle(prevEvent, prev, r) ==
  /\ prevEvent = "intent"
  /\ r.state = "CLEANUP_PENDING"
  /\ r.op \in Deletes /\ r.op # prev.op /\ r.status = "PENDING"
  /\ r.deletes = prev.deletes
  /\ "ambiguous" \in r.flags /\ "orphaned" \notin r.flags

(* _validate_delete_transition *)
DeleteAllowed(prev, r) ==
  \/ IsDeleteIntent(prev, r)
  \/ /\ r.deletes = prev.deletes
     /\ ~(/\ prev.status \in Terminal
          /\ "ambiguous" \in r.flags \ prev.flags
          /\ SameOperation(prev, r)
          /\ r.state = "CLEANUP_PENDING")

(* GcpLeaseJournal.update, and _validate_chain_transitions on every read.  *)
Accepts(prevEvent, prev, r) ==
  /\ Valid(r)
  /\ r.state \in Allowed(prev.state)
  /\ DeleteAllowed(prev, r)
  /\ prev.flags \cap {"armed", "attempted"} \subseteq r.flags
  /\ "orphaned" \in prev.flags \ r.flags => r.state = "CLEANUP_CONFIRMED"
  /\ \/ IsDeleteHandle(prevEvent, prev, r)
     \/ /\ prev.op # NoOp => r.op = prev.op
        /\ prev.status \in Terminal => r.status \in Terminal
  /\ prev.status \in Terminal /\ r.op = prev.op => r.status = prev.status
  /\ prev.op = InsertOp /\ r.op \in Deletes => prev.status \in Terminal
=============================================================================
