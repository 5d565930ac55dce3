--------------------------- MODULE MCProjectSync ---------------------------
(* Small instances of ProjectSync for TLC.                                 *)
EXTENDS ProjectSync, TLC

CONSTANTS t1, t2, b1, b2

(* Two people, or one person on two machines: one tab each.                *)
MCOwnBrowsers == (t1 :> b1) @@ (t2 :> b2)

=============================================================================
