--------------------------------- MODULE MCKeys ---------------------------------
(* Three parts of a data folder that share no state, explored one at a     *)
(* time instead of as a product: the custody of its master key, the sealed *)
(* store, and a sealed log.                                                *)
EXTENDS KeyCustody, SealedStore, SealedLog, TLC

CONSTANT g1
VARIABLE part

(* Two columns, of two rows and of one.                                    *)
Rows == <<2, 1>>
Symmetry == Permutations(NewKey) \cup Permutations(CoreKey)

Broken == {<<i, r>> \in Item \X {1, 2} : r \in Row(i) /\ val[i][r] = "broken"}

(* Each part starts from all of its initial states, the store from those   *)
(* with one broken value at most, and from one of each other part's.       *)
MCInit ==
  /\ Init /\ StoreInit /\ LogInit /\ part \in {"custody", "store", "log"}
  /\ part # "custody" => {keychain, file, legacy} = {NoKey} /\ reach = "rw"
  /\ Cardinality(Broken) <= 1
  /\ part # "store" => coreKey = g1 /\ \A i \in Item : val[i] = [r \in Row(i) |-> "none"]
MCNext ==
  /\ UNCHANGED part
  /\ \/ part = "custody" /\ Next /\ UNCHANGED <<storeVars, logVars>>
     \/ part = "store" /\ StoreNext /\ UNCHANGED <<vars, logVars>>
     \/ part = "log" /\ LogNext /\ UNCHANGED <<vars, storeVars>>
MCSpec == MCInit /\ [][MCNext]_<<vars, storeVars, logVars, part>>
=================================================================================
