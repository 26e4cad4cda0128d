---------------------------- MODULE DueAnnouncement ----------------------------
(***************************************************************************)
(* What task.due promises (events.rs): at most one event per task, however *)
(* many processes sweep and whenever they stop.  A task waits until it is  *)
(* claimed; a claim ends in one announcement or in none, and is never made *)
(* again.                                                                  *)
(***************************************************************************)
EXTENDS Naturals

CONSTANT Task

VARIABLES stage,   \* where each task is on its way to the announcement
          told     \* how many task.due events it has had

Stage == {"waiting", "claimed", "announced", "lost"}

Init ==
  /\ stage = [t \in Task |-> "waiting"]
  /\ told = [t \in Task |-> 0]

Move(S, from, to) ==
  /\ S # {}
  /\ \A t \in S : stage[t] \in from
  /\ stage' = [t \in Task |-> IF t \in S THEN to ELSE stage[t]]

Claim(S) == Move(S, {"waiting"}, "claimed") /\ UNCHANGED told
Announce(t) ==
  /\ Move({t}, {"claimed"}, "announced")
  /\ told' = [told EXCEPT ![t] = @ + 1]
Lose(S) == Move(S, {"waiting", "claimed"}, "lost") /\ UNCHANGED told

Next ==
  \/ \E S \in SUBSET Task : Claim(S) \/ Lose(S)
  \/ \E t \in Task : Announce(t)

Spec == Init /\ [][Next]_<<stage, told>>
================================================================================
