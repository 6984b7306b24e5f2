-------------------------- MODULE MCTranscription ---------------------------
(* Small recordings: a microphone with two turns and its fallback. A later  *)
(* detection may find fewer turns, at other places, and a turn of the        *)
(* system audio; or the other way round.                                     *)
EXTENDS Transcription

CONSTANTS t1, t2, f, g

MCSourceOf == [x \in Span |-> IF x = g THEN 2 ELSE 1]
Turns   == [x \in {t1, t2, f} |-> IF x = t2 THEN 1 ELSE 0]
Shifted == [x \in {t2, f, g} |-> IF x = g THEN 1 ELSE 0]
MCPlans == {Turns, Shifted}
=============================================================================
