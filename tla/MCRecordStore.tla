---------------------------- MODULE MCRecordStore ------------------------------
(***************************************************************************)
(* Instances of RecordStore: a person that points at companies through the *)
(* relation field; the companies carry the unique field.                   *)
(***************************************************************************)
EXTENDS RecordStore, TLC

CONSTANTS p1, c1, c2, person, company, k1

(* One person, two companies: links, merges of their targets.              *)
LinkRecordId == {p1, c1, c2}
TwoRecordId == {c1, c2}

ObjectOfId == [r \in RecordId |-> IF r = p1 THEN person ELSE company]
ListObjectOf == [l \in List |-> company]

(* Records of one object are interchangeable.                              *)
PairSymmetry == Permutations({c1, c2})
================================================================================
