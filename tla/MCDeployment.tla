---------------------------- MODULE MCDeployment ----------------------------
(***************************************************************************)
(* Deployment for TLC: two daemons share the path, one after the other or  *)
(* at once.  No definition tells the daemons apart.                        *)
(***************************************************************************)
EXTENDS Deployment, TLC

(* An empty piece, one that is a field name, and one with a control        *)
(* character, which is written \u0007.                                     *)
ThreePieces == <<"", "text", "bell">>
TheControl == {"bell"}
ReadByCli == [t \in TheControl |-> "u0007"]
ReadByUmad == [t \in TheControl |-> "?"]
AnyDaemon == Permutations(Daemons)
=============================================================================
