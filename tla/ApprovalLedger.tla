--------------------------- MODULE ApprovalLedger ---------------------------
(***************************************************************************)
(* What the desktop app promises about the cards it shows: a card is       *)
(* answered or expires, an answer may be taken back only while no engine   *)
(* has acted on it, and an engine acts on an answer at most once.          *)
(***************************************************************************)
EXTENDS Naturals

CONSTANT Card

VARIABLES card,     \* the status of each card
          applied   \* how often an engine acted on its answer

vars == <<card, applied>>

Init == card = [c \in Card |-> "none"] /\ applied = [c \in Card |-> 0]

Set(c, status) == card' = [card EXCEPT ![c] = status]

Ask(c)      == card[c] = "none" /\ Set(c, "pending") /\ UNCHANGED applied
Answer(c)   == card[c] = "pending" /\ Set(c, "resolved") /\ UNCHANGED applied
TakeBack(c) == /\ card[c] = "resolved" /\ applied[c] = 0
               /\ Set(c, "pending") /\ UNCHANGED applied
Apply(c)    == /\ card[c] = "resolved" /\ applied[c] = 0
               /\ applied' = [applied EXCEPT ![c] = 1] /\ UNCHANGED card

\* Cancelling a run expires all its pending cards together.
Expire == \E C \in SUBSET {c \in Card : card[c] = "pending"} :
             /\ card' = [c \in Card |-> IF c \in C THEN "expired" ELSE card[c]]
             /\ UNCHANGED applied

Next == Expire \/ \E c \in Card : Ask(c) \/ Answer(c) \/ TakeBack(c) \/ Apply(c)

Spec == Init /\ [][Next]_vars
=============================================================================
