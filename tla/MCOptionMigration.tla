--------------------------- MODULE MCOptionMigration ---------------------------
(***************************************************************************)
(* An instance of OptionMigration: three options, two of which a body may  *)
(* drop, one may rename and one may add under an old or a new label.       *)
(***************************************************************************)
EXTENDS OptionMigration, TLC

CONSTANTS r1, r2, oa, ob, oc, od, la, lb, lc, ld

ThreeOptions == oa :> la @@ ob :> lb @@ oc :> lc
DerivedIds == la :> oa @@ lb :> ob @@ lc :> oc @@ ld :> od

Body(kept, added, asked) == [kept |-> kept, added |-> added, asked |-> asked]
Nothing == [o \in {} |-> Clear]

Bodies == {
  (* drop b without a plan *)
  Body(oa :> la @@ oc :> lc, {}, Nothing),
  (* drop b for a, by id *)
  Body(oa :> la @@ oc :> lc, {}, ob :> oa),
  (* drop b and c: clear one, move the other, by label *)
  Body(oa :> la, {}, ob :> Clear @@ oc :> la),
  (* drop b for an option this request adds *)
  Body(oa :> la @@ oc :> lc, {ld}, ob :> ld),
  (* drop b, and add its label again: it gets the id back *)
  Body(oa :> la @@ oc :> lc, {lb}, ob :> lb),
  (* drop b and c, give a the label of c, and move b to that label *)
  Body(oa :> lc, {}, ob :> lc),
  (* give a a new label and move b to it *)
  Body(oa :> ld @@ oc :> lc, {}, ob :> ld),
  (* all three, as a form that was read before would send them *)
  Body(ThreeOptions, {}, Nothing) }
================================================================================
