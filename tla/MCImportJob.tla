------------------------------ MODULE MCImportJob ------------------------------
(***************************************************************************)
(* An instance of ImportJob: two requests in flight, a file of three rows. *)
(***************************************************************************)
EXTENDS ImportJob, TLC

CONSTANTS k1, k2, blank, v1, s1

(* The second row repeats the key of the first with another extra cell, so *)
(* one file can create twins, or update one record and create another.     *)
FileKeys == [r \in 1..3 |-> IF r = 3 THEN k2 ELSE k1]
FileExtra == [r \in 1..3 |-> IF r = 1 THEN blank ELSE v1]
UserContent == [u \in UserRecord |-> [key |-> k1, extra |-> blank]]

(* What a user types over a record: the key two rows of the file carry.    *)
OneTyped == {[key |-> k1, extra |-> v1]}

Ask(match, strategy, fresh) ==
  [map |-> [key |-> TRUE, extra |-> s1, match |-> match, strategy |-> strategy],
   fresh |-> fresh]
(* A new field with a usable rule, two rules for the field there is, and a *)
(* rule no column feeds.                                                   *)
FourRequests ==
  {Ask(TRUE, "fill_blanks", TRUE), Ask(TRUE, "update", FALSE),
   Ask(TRUE, "create_always", FALSE),
   [map |-> [key |-> FALSE, extra |-> s1, match |-> TRUE, strategy |-> "skip"],
    fresh |-> TRUE]}

ClientSymmetry == Permutations(Client)
================================================================================
