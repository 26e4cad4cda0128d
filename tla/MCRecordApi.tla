------------------------------ MODULE MCRecordApi -------------------------------
(* An instance of RecordApi: two clients, one object that can be deleted,  *)
(* two records of it, two names, two stages, and besides the creations two *)
(* commits to one record, or one where there are two records.              *)
EXTENDS RecordApi, TLC

CONSTANTS o1, r1, r2

Of == r1 :> o1 @@ r2 :> o1
Symmetry == Permutations(Client) \cup Permutations(Rec)

MCNext == /\ ApiNext
          /\ (\A r \in Rec : state'[r] # "absent") => writes' <= 1
MCSpec == ApiInit /\ [][MCNext]_apiVars
=================================================================================
