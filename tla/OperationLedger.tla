--------------------------- MODULE OperationLedger ---------------------------
(***************************************************************************)
(* What the companion promises for a mutating operation id, whatever is    *)
(* lost, retried, timed out or restarted in between (docs/adr/0048):       *)
(*   - the mutation is executed at most once;                              *)
(*   - the phone is given at most one final answer;                        *)
(*   - "ok" is only said of an executed mutation, "refused" only of one    *)
(*     that has not been executed and never will be;                       *)
(*   - "unknown" promises nothing about the mutation.                      *)
(***************************************************************************)
EXTENDS Integers

CONSTANT Mutation

VARIABLES
    done,     \* how often each mutation was executed
    final     \* the final answer the phone was given, "none" before

ledger == <<done, final>>

Init ==
    /\ done = [o \in Mutation |-> 0]
    /\ final = [o \in Mutation |-> "none"]

Execute(o) ==
    /\ done[o] = 0
    /\ final[o] # "refused"
    /\ done' = [done EXCEPT ![o] = 1]
    /\ UNCHANGED final

Tell(o, answer) ==
    /\ final[o] = "none"
    /\ answer = "ok" => done[o] = 1
    /\ answer = "refused" => done[o] = 0
    /\ final' = [final EXCEPT ![o] = answer]
    /\ UNCHANGED done

Next == \E o \in Mutation :
            Execute(o) \/ \E answer \in {"ok", "refused", "unknown"} : Tell(o, answer)

Spec == Init /\ [][Next]_ledger
=============================================================================
