---------------------------- MODULE MCGeoTileCache ----------------------------
(***************************************************************************)
(* Two caches, the second with fewer frames, over one process pool that    *)
(* cannot hold both at their ceilings.                                     *)
(***************************************************************************)
EXTENDS GeoTileCache, TLC

CONSTANTS c1, c2, v1, v2, r1, r2, x1, l1

MCCaches == {c1, c2}
MCViews == {v1, v2}
MCKeys == {r1, r2, x1}
MCRasterKeys == {r1, r2}
MCCameras == {{r1}, {r2, x1}}
MCMaxEpoch == (c1 :> 3) @@ (c2 :> 1)
MCSymmetry == Permutations(MCViews)
=============================================================================
