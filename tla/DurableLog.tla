------------------------------- MODULE DurableLog -------------------------------
(***************************************************************************)
(* What a sealed log promises (the docs of sealed_log.rs): a sequence that *)
(* only grows at its end, that loses no more than what was not synced, and *)
(* that reads the same under every later key; and one file of the records  *)
(* it held when it was compacted.  Nothing is promised of a log whose      *)
(* writer goes on after an append that failed.                             *)
(***************************************************************************)
EXTENDS Naturals, Sequences

CONSTANTS Record,   \* the records, numbered in the order they are handed over
          Nothing

VARIABLES contents,   \* the records a reader gets, by number
          stable,     \* how many of them no loss of power can take
          published,  \* Nothing, or the records of the compacted file
          void        \* is nothing promised any more

logView == <<contents, stable, published, void>>

Init == contents = <<>> /\ stable = 0 /\ published = Nothing /\ void = FALSE

(* A record later than all of the log's.                                   *)
Extend(r) ==
  /\ \A i \in DOMAIN contents : contents[i] < r
  /\ contents' = Append(contents, r)
  /\ UNCHANGED <<stable, published>>
MakeStable ==
  stable' = Len(contents) /\ UNCHANGED <<contents, published>>
LoseTail(n) ==
  /\ contents' = SubSeq(contents, 1, n) /\ UNCHANGED <<stable, published>>
Publish ==
  /\ published = Nothing /\ published' = contents
  /\ UNCHANGED <<contents, stable>>

Next ==
  \/ void'
  \/ /\ UNCHANGED void
     /\ \/ \E r \in Record : Extend(r)
        \/ MakeStable
        \/ \E n \in stable..Len(contents) : LoseTail(n)
        \/ Publish
Spec == Init /\ [][Next]_logView
=================================================================================
