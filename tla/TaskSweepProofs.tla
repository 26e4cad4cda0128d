---------------------------- MODULE TaskSweepProofs ----------------------------
(***************************************************************************)
(* The sweep announces each task at most once, for any number of processes,*)
(* tasks, batch size and stops: TaskSweep implements DueAnnouncement.      *)
(*                                                                         *)
(* OneClaimant is the whole inductive invariant: a claim takes tasks       *)
(* without the stamp, so no other process holds them and none was told;    *)
(* nothing takes the stamp off again; and the queue is the only way to an  *)
(* announcement.                                                           *)
(***************************************************************************)
EXTENDS TaskSweep, TLAPS

IInv == TypeOK /\ OneClaimant

--------------------------------------------------------------------------------
LEMMA InitIInv == Init => IInv
BY SweepConstants DEF Init, IInv, TypeOK, OneClaimant, Waiting, Time, Due

(* Steps that leave the stamps, the queues and the announcements alone.    *)
LEMMA OneClaimantUnchanged ==
  ASSUME OneClaimant, UNCHANGED <<claimed, queue, told>>
  PROVE  OneClaimant'
BY DEF OneClaimant, Waiting

LEMMA TypeStep == TypeOK /\ [Next]_vars => TypeOK'
<1>. SUFFICES ASSUME TypeOK, [Next]_vars PROVE TypeOK'
  OBVIOUS
<1>. USE SweepConstants DEF TypeOK, taskVars
<1>1. ASSUME NEW p \in Process, NEW S \in SUBSET Task, Claim(p, S) PROVE TypeOK'
  BY <1>1 DEF Claim
<1>2. ASSUME NEW p \in Process, NEW t \in Task, Announce(p, t) PROVE TypeOK'
  BY <1>2 DEF Announce
<1>3. ASSUME NEW p \in Process, NEW d \in Due, NEW done \in BOOLEAN, WriteEdit(p, d, done)
      PROVE  TypeOK'
  BY <1>3 DEF WriteEdit, WriteColumns
<1>4. ASSUME NEW p \in Process, Stop(p) PROVE TypeOK'
  BY <1>4 DEF Stop
<1>5. ASSUME NEW p \in Process, Start(p) PROVE TypeOK'
  BY <1>5 DEF Start
<1>6. ASSUME NEW p \in Process, NEW t \in Task, NEW d \in Due, CreateTask(p, t, d)
      PROVE  TypeOK'
  BY <1>6 DEF CreateTask
<1>7. ASSUME NEW p \in Process, NEW t \in Task, NEW done \in BOOLEAN,
             CompleteTask(p, t, done)
      PROVE  TypeOK'
  BY <1>7 DEF CompleteTask
<1>8. ASSUME NEW p \in Process, NEW t \in Task, DeleteTask(p, t) PROVE TypeOK'
  BY <1>8 DEF DeleteTask
<1>9. ASSUME NEW p \in Process, NEW t \in Task, ReadForEdit(p, t) PROVE TypeOK'
  BY <1>9 DEF ReadForEdit
<1>10. CASE Tick
  BY <1>10 DEF Tick, Time, Due
<1>11. CASE UNCHANGED vars
  BY <1>11 DEF vars
<1>. QED
  BY <1>1, <1>2, <1>3, <1>4, <1>5, <1>6, <1>7, <1>8, <1>9, <1>10, <1>11
     DEF Next, Sweep, FinishEdit

LEMMA ClaimantStep == IInv /\ [Next]_vars => OneClaimant'
<1>. SUFFICES ASSUME IInv, [Next]_vars PROVE OneClaimant'
  OBVIOUS
<1>. USE DEF IInv, TypeOK, taskVars
<1>1. ASSUME NEW p \in Process, NEW S \in SUBSET Task, Claim(p, S) PROVE OneClaimant'
  <2>1. /\ claimed' = claimed \cup S /\ told' = told
        /\ queue' = [queue EXCEPT ![p] = IF S \cap Unreadable = {} THEN S ELSE {}]
        /\ S \cap claimed = {}
    BY <1>1 DEF Claim, FirstDue, Claimable
  <2>2. \A t \in S : told[t] = 0 /\ ~Waiting(t)
    BY <2>1 DEF OneClaimant
  <2>3. \A q \in Process \ {p} : queue'[q] = queue[q]
    BY <2>1
  <2>4. queue'[p] \subseteq S
    BY <2>1
  <2>5. \A q, r \in Process : q # r => queue'[q] \cap queue'[r] = {}
    BY <2>2, <2>3, <2>4 DEF OneClaimant, Waiting
  <2>6. \A t \in Task : Waiting(t)' => told'[t] = 0 /\ t \in claimed'
    BY <2>1, <2>2, <2>3, <2>4 DEF OneClaimant, Waiting
  <2>. QED
    BY <2>1, <2>5, <2>6 DEF OneClaimant
<1>2. ASSUME NEW p \in Process, NEW t \in Task, Announce(p, t) PROVE OneClaimant'
  <2>1. /\ t \in queue[p] /\ claimed' = claimed
        /\ queue' = [queue EXCEPT ![p] = @ \ {t}]
        /\ told' = [told EXCEPT ![t] = @ + 1] \/ told' = told
    BY <1>2 DEF Announce
  <2>2. told[t] = 0 /\ t \in claimed
    BY <2>1 DEF OneClaimant, Waiting
  <2>3. \A q \in Process : queue'[q] \subseteq queue[q] /\ t \notin queue'[q]
    BY <2>1 DEF OneClaimant
  <2>4. \A q, r \in Process : q # r => queue'[q] \cap queue'[r] = {}
    BY <2>3 DEF OneClaimant
  <2>5. \A u \in Task : Waiting(u)' => told'[u] = 0 /\ u \in claimed'
    BY <2>1, <2>3 DEF OneClaimant, Waiting
  <2>6. \A u \in Task : told'[u] <= 1 /\ (told'[u] = 1 => u \in claimed')
    BY <2>1, <2>2 DEF OneClaimant
  <2>. QED
    BY <2>4, <2>5, <2>6 DEF OneClaimant
<1>3. ASSUME NEW p \in Process, Stop(p) PROVE OneClaimant'
  <2>1. /\ queue' = [queue EXCEPT ![p] = {}]
        /\ claimed' = claimed /\ told' = told
    BY <1>3 DEF Stop
  <2>2. \A q \in Process : queue'[q] \subseteq queue[q]
    BY <2>1
  <2>. QED
    BY <2>1, <2>2 DEF OneClaimant, Waiting
<1>4. CASE UNCHANGED <<claimed, queue, told>>
  BY <1>4, OneClaimantUnchanged
<1>5. ASSUME NEW p \in Process, \/ FinishEdit(p) \/ Start(p)
             \/ \E t \in Task :
                  \/ \E d \in Due : CreateTask(p, t, d)
                  \/ \E completed \in BOOLEAN : CompleteTask(p, t, completed)
                  \/ DeleteTask(p, t) \/ ReadForEdit(p, t)
      PROVE  UNCHANGED <<claimed, queue, told>>
  BY <1>5 DEF FinishEdit, WriteEdit, WriteColumns, Start, CreateTask, CompleteTask,
              DeleteTask, ReadForEdit
<1>6. Tick \/ UNCHANGED vars => UNCHANGED <<claimed, queue, told>>
  BY DEF Tick, vars
<1>. QED
  BY <1>1, <1>2, <1>3, <1>4, <1>5, <1>6 DEF Next, Sweep

LEMMA Inductive == Spec => []IInv
<1>1. IInv /\ [Next]_vars => IInv'
  BY TypeStep, ClaimantStep DEF IInv
<1>. QED
  BY <1>1, InitIInv, PTL DEF Spec

(* Every variable of the sweep keeps its type.                             *)
THEOREM TypeCorrect == Spec => []TypeOK
<1>1. IInv => TypeOK
  BY DEF IInv
<1>. QED
  BY <1>1, Inductive, PTL

(* No two processes hold one task and no task is announced twice           *)
(* (store/activities.rs: "two sweeps cannot both claim the same task").    *)
THEOREM NeverAnnouncedTwice == Spec => []OneClaimant
<1>1. IInv => OneClaimant
  BY DEF IInv
<1>. QED
  BY <1>1, Inductive, PTL

--------------------------------------------------------------------------------
(* A step that changes no stamp, queue or count changes no stage.          *)
LEMMA StageUnchanged ==
  ASSUME UNCHANGED <<claimed, queue, told>>
  PROVE  [t \in Task |-> Stage(t)]' = [t \in Task |-> Stage(t)]
BY DEF Stage, Waiting

(* The claim and its announcement implement DueAnnouncement: every step    *)
(* claims, announces or loses tasks there, or stutters.                    *)
THEOREM SweepImplementsDueAnnouncement == Spec => ImplementsDueAnnouncement
<1>. DEFINE stage == [t \in Task |-> Stage(t)]
<1>1. Init => DueTasks!Init
  BY DEF Init, DueTasks!Init, Stage, Waiting
<1>2. IInv /\ [Next]_vars => [DueTasks!Next]_<<stage, told>>
  <2>. SUFFICES ASSUME IInv, [Next]_vars
                PROVE  DueTasks!Next \/ UNCHANGED <<stage, told>>
    OBVIOUS
  <2>. USE DEF IInv, TypeOK, taskVars
  <2>1. ASSUME NEW p \in Process, NEW S \in SUBSET Task, Claim(p, S)
        PROVE  DueTasks!Claim(S) \/ DueTasks!Lose(S)
    <3>1. /\ claimed' = claimed \cup S /\ told' = told /\ S # {}
          /\ queue' = [queue EXCEPT ![p] = IF S \cap Unreadable = {} THEN S ELSE {}]
          /\ S \cap claimed = {} /\ queue[p] = {}
      BY <2>1 DEF Claim, FirstDue, Claimable
    <3>2. \A t \in S : Stage(t) = "waiting"
      BY <3>1 DEF OneClaimant, Stage
    <3>3. \A q \in Process \ {p} : queue'[q] = queue[q]
      BY <3>1
    <3>4. \A t \in Task \ S : Stage(t)' = Stage(t)
      BY <3>1, <3>3 DEF Stage, Waiting
    <3>5. \A t \in S : told'[t] = 0 /\ t \in claimed'
      BY <3>1 DEF OneClaimant
    <3>6. CASE S \cap Unreadable = {}
      <4>1. \A t \in S : Stage(t)' = "claimed"
        BY <3>1, <3>5, <3>6 DEF Stage, Waiting
      <4>. QED
        BY <3>1, <3>2, <3>4, <4>1 DEF DueTasks!Claim, DueTasks!Move
    <3>7. CASE S \cap Unreadable # {}
      <4>1. \A t \in S : ~Waiting(t)'
        BY <3>1, <3>3, <3>7 DEF OneClaimant, Waiting
      <4>2. \A t \in S : Stage(t)' = "lost"
        BY <3>5, <4>1 DEF Stage
      <4>. QED
        BY <3>1, <3>2, <3>4, <4>2 DEF DueTasks!Lose, DueTasks!Move
    <3>. QED
      BY <3>6, <3>7
  <2>2. ASSUME NEW p \in Process, NEW t \in Task, Announce(p, t)
        PROVE  DueTasks!Announce(t) \/ DueTasks!Lose({t})
    <3>1. /\ t \in queue[p] /\ claimed' = claimed
          /\ queue' = [queue EXCEPT ![p] = @ \ {t}]
      BY <2>2 DEF Announce
    <3>2. told[t] = 0 /\ t \in claimed /\ Stage(t) = "claimed"
      BY <3>1 DEF OneClaimant, Waiting, Stage
    <3>3. ~Waiting(t)'
      BY <3>1 DEF OneClaimant, Waiting
    <3>4. \A u \in Task \ {t} : Waiting(u)' <=> Waiting(u)
      BY <3>1 DEF Waiting
    <3>5. CASE told' = [told EXCEPT ![t] = @ + 1]
      <4>1. Stage(t)' = "announced"
        BY <3>2, <3>5 DEF Stage
      <4>2. \A u \in Task \ {t} : Stage(u)' = Stage(u)
        BY <3>1, <3>4, <3>5 DEF Stage
      <4>. QED
        BY <3>2, <3>5, <4>1, <4>2 DEF DueTasks!Announce, DueTasks!Move
    <3>6. CASE told' = told
      <4>1. Stage(t)' = "lost"
        BY <3>1, <3>2, <3>3, <3>6 DEF Stage
      <4>2. \A u \in Task \ {t} : Stage(u)' = Stage(u)
        BY <3>1, <3>4, <3>6 DEF Stage
      <4>. QED
        BY <3>2, <3>6, <4>1, <4>2 DEF DueTasks!Lose, DueTasks!Move
    <3>. QED
      BY <2>2, <3>5, <3>6 DEF Announce
  <2>3. ASSUME NEW p \in Process, Stop(p)
        PROVE  DueTasks!Lose(queue[p]) \/ UNCHANGED <<stage, told>>
    <3>1. /\ queue' = [queue EXCEPT ![p] = {}]
          /\ claimed' = claimed /\ told' = told
      BY <2>3 DEF Stop
    <3>2. \A t \in queue[p] : t \in Task /\ Stage(t) = "claimed" /\ ~Waiting(t)'
      BY <3>1 DEF OneClaimant, Waiting, Stage
    <3>3. \A t \in queue[p] : Stage(t)' = "lost"
      BY <3>1, <3>2 DEF OneClaimant, Waiting, Stage
    <3>4. \A t \in Task \ queue[p] : Waiting(t)' <=> Waiting(t)
      BY <3>1 DEF Waiting
    <3>5. \A t \in Task \ queue[p] : Stage(t)' = Stage(t)
      BY <3>1, <3>4 DEF Stage
    <3>6. CASE queue[p] = {}
      BY <3>1, <3>5, <3>6
    <3>7. CASE queue[p] # {}
      BY <3>1, <3>2, <3>3, <3>5, <3>7 DEF DueTasks!Lose, DueTasks!Move
    <3>. QED
      BY <3>6, <3>7
  <2>4. ASSUME NEW p \in Process, \/ FinishEdit(p) \/ Start(p)
               \/ \E t \in Task :
                    \/ \E d \in Due : CreateTask(p, t, d)
                    \/ \E completed \in BOOLEAN : CompleteTask(p, t, completed)
                    \/ DeleteTask(p, t) \/ ReadForEdit(p, t)
        PROVE  UNCHANGED <<stage, told>>
    <3>1. UNCHANGED <<claimed, queue, told>>
      BY <2>4 DEF FinishEdit, WriteEdit, WriteColumns, Start, CreateTask,
                  CompleteTask, DeleteTask, ReadForEdit
    <3>. QED
      BY <3>1, StageUnchanged
  <2>5. CASE Tick \/ UNCHANGED vars
    <3>1. UNCHANGED <<claimed, queue, told>>
      BY <2>5 DEF Tick, vars
    <3>. QED
      BY <3>1, StageUnchanged
  <2>6. \A p \in Process : queue[p] \in SUBSET Task
    OBVIOUS
  <2>. QED
    BY <2>1, <2>2, <2>3, <2>4, <2>5, <2>6 DEF Next, Sweep, DueTasks!Next
<1>. QED
  BY <1>1, <1>2, Inductive, PTL DEF Spec, ImplementsDueAnnouncement, DueTasks!Spec
================================================================================
