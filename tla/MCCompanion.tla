----------------------------- MODULE MCCompanion -----------------------------
(* Small instances of Companion: which body each operation carries. *)
EXTENDS Companion, TLC

CONSTANTS o1, o2, o3

WithRevoke        == o1 :> "window" @@ o2 :> "desktop" @@ o3 :> "revoke"
WindowDesktopRead == o1 :> "window" @@ o2 :> "desktop" @@ o3 :> "read"
OneWindow         == o1 :> "window"
=============================================================================
