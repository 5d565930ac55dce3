--------------------------- MODULE MCAssetLibrary ---------------------------
(* Two tabs of one browser, an asset of the older version and a new one.   *)
EXTENDS AssetLibrary, TLC

Interchangeable == Permutations(Tabs)
=============================================================================
