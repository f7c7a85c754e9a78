----------------------------- MODULE MCAiTeams -----------------------------
(* Bounds for checking AiTeams; see teams_*.cfg and the README. *)
EXTENDS AiTeams, TLC

CONSTANTS t1, t2, n1, n2, n3

(* Two tasks that may run side by side, and a third that waits for the      *)
(* second and belongs to the role of the first.                             *)
ThreeTeam  == n1 :> t1 @@ n2 :> t1 @@ n3 :> t1
ThreeDeps  == n1 :> {} @@ n2 :> {} @@ n3 :> {n2}
ThreeRoles == n1 :> "r1" @@ n2 :> "r2" @@ n3 :> "r1"

(* Two board runs: one task each. *)
PairTeam == n1 :> t1 @@ n2 :> t2
PairDeps == n1 :> {} @@ n2 :> {}
PairRole == n1 :> "r1" @@ n2 :> "r1"
=============================================================================
