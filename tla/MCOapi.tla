--------------------------------- MODULE MCOapi ---------------------------------
(***************************************************************************)
(* Oapi for TLC: the endpoint e1 runs beside nCore, e2 elsewhere,         *)
(* and two of three requests share a conversation.                         *)
(***************************************************************************)
EXTENDS Oapi, TLC

CONSTANTS r1, r2, r3, c1, c2, e1, e2

ThreeRequests == {r1, r2, r3}
TwoConvs      == {c1, c2}
ConvsOf       == r1 :> c1 @@ r2 :> c1 @@ r3 :> c2
TwoEps        == {e1, e2}
OneLocal      == {e1}
=============================================================================
