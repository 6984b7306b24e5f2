---------------------------- MODULE MCAgentRuns ----------------------------
(***************************************************************************)
(* Small instances of AgentRuns: one session, the cards all of run r1 and  *)
(* interchangeable. OneProcessForTwo keeps a run beside r1 to the first    *)
(* process, the time before any card and no cancel of its own.             *)
(* OneProcessForMany follows a run that was stopped on several cards at    *)
(* once through the first process only, to whatever end it comes there.    *)
(***************************************************************************)
EXTENDS AgentRuns, TLC

CONSTANTS s1, r1, r2, c1, c2

AllOfS1 == [r \in Run |-> s1]
AllOfR1 == [c \in Card |-> r1]

OneProcessForTwo ==
    \/ spawned <= 1 /\ asked = {} /\ task[Cancel(r2)] = "idle"
    \/ \A q \in Request : q.id = r2 => task[q] = "idle"

OneProcessForMany == bundled = {} \/ spawned <= 1

Symmetry == Permutations(Card)
=============================================================================
