---------------------------- MODULE MCLayerStore ----------------------------
(* Small instances of LayerStore: two images over the layers a, b on a,    *)
(* c on b and, where there is room for it, d on a.                         *)
EXTENDS LayerStoreRefinement, TLC

CONSTANTS a, b, c, d, t1, t2, ia, ib, ic, id, l1, l2, f1, f2

MCParent == [x \in Layer |-> IF x = a THEN None ELSE IF x = c THEN b ELSE a]
MCAnc == [x \in Layer |-> IF x = a THEN {a} ELSE IF x = c THEN {a, b, c} ELSE {a, x}]
MCImportVol == [x \in Layer |-> (a :> ia @@ b :> ib @@ c :> ic @@ d :> id)[x]]
MCLoadVol == [t \in Tag |-> IF t = t1 THEN l1 ELSE l2]
MCFetchVol == [t \in Tag |-> IF t = t1 THEN f1 ELSE f2]
=============================================================================
