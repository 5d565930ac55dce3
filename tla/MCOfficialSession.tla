------------------------- MODULE MCOfficialSession -------------------------
EXTENDS OfficialSession, TLC
CONSTANTS t1, t2, c1, c2, c3
TwoAndOne == (c1 :> t1) @@ (c2 :> t1) @@ (c3 :> t2)
=============================================================================
