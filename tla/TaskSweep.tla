------------------------------- MODULE TaskSweep -------------------------------
(***************************************************************************)
(* The due-task sweep: Harbor processes that share one data dir claim      *)
(* overdue tasks and raise task.due for each, while users edit, complete,  *)
(* reopen and delete tasks through either process.                         *)
(*                                                                         *)
(* A process runs one store call at a time (its connection mutex), but the *)
(* other process has a connection of its own: what one call does in two    *)
(* statements outside a transaction is two steps here.  The announcing     *)
(* loop holds no lock.                                                     *)
(***************************************************************************)
EXTENDS Naturals, FiniteSets

CONSTANTS Process,     \* Harbor processes on the data dir
          Task,        \* every task id ever minted
          MaxTime,     \* bound on the clock
          NoDue,       \* a task without a due date
          Batch,       \* TASK_SWEEP_BATCH
          Unreadable,  \* tasks whose sealed title the present key does not open
          MaxStops,    \* bound on how often a process stops
          CoreMayFail, \* may an emit fail (Core down, timeout, refusal)
          NoEdit

Time == 0..MaxTime
Due == Time \cup {NoDue}

ASSUME SweepConstants ==
  /\ MaxTime \in Nat
  /\ NoDue \notin Nat
  /\ Batch \in Nat \ {0}
  /\ Unreadable \subseteq Task
  /\ MaxStops \in Nat
  /\ CoreMayFail \in BOOLEAN
  /\ NoEdit \notin Task

VARIABLES now,
          row,      \* row[t]: "free", "open", "done" (completed_at set), "gone"
          due,      \* due[t]: due_at
          claimed,  \* tasks whose due_notified_at was ever stamped
          up,       \* processes that are running
          queue,    \* queue[p]: claimed tasks p has still to announce
          edit,     \* edit[p]: the task p's update_activity has read, if any
          stops,
          told      \* task.due events Core has received for each task

vars == <<now, row, due, claimed, up, queue, edit, stops, told>>
taskVars == <<row, due, claimed>>

TypeOK ==
  /\ now \in Time
  /\ row \in [Task -> {"free", "open", "done", "gone"}]
  /\ due \in [Task -> Due]
  /\ claimed \subseteq Task
  /\ up \subseteq Process
  /\ queue \in [Process -> SUBSET Task]
  /\ edit \in [Process -> Task \cup {NoEdit}]
  /\ stops \in 0..MaxStops
  /\ told \in [Task -> Nat]

Init ==
  /\ now = 0
  /\ row = [t \in Task |-> "free"]
  /\ due = [t \in Task |-> NoDue]
  /\ claimed = {}
  /\ up = Process
  /\ queue = [p \in Process |-> {}]
  /\ edit = [p \in Process |-> NoEdit]
  /\ stops = 0
  /\ told = [t \in Task |-> 0]

(***************************************************************************)
(* The sweep                                                               *)
(***************************************************************************)
Overdue(t) == row[t] = "open" /\ due[t] # NoDue /\ due[t] <= now

(* Mutant: the selection forgets due_notified_at IS NULL.                  *)
EveryOverdue == {t \in Task : Overdue(t)}
Claimable == {t \in Task : Overdue(t) /\ t \notin claimed}

(* ORDER BY due_at ASC LIMIT batch.                                        *)
FirstDue(S) ==
  /\ S \subseteq Claimable
  /\ Cardinality(S) <= Batch
  /\ S # Claimable => Cardinality(S) = Batch
  /\ \A t \in S, o \in Claimable \ S : due[t] <= due[o]

MayCall(p) == p \in up /\ edit[p] = NoEdit

(* Mutant: an unreadable row rolls the stamps back, and heads the next     *)
(* batch again.                                                            *)
ClaimRollingBack(p, S) ==
  /\ MayCall(p)
  /\ queue[p] = {}
  /\ S # {}
  /\ FirstDue(S)
  /\ S \cap Unreadable = {}
  /\ claimed' = claimed \cup S
  /\ queue' = [queue EXCEPT ![p] = S]
  /\ UNCHANGED <<now, row, due, up, edit, stops, told>>

(* claim_due_tasks: one UPDATE ... RETURNING selects, stamps and hands     *)
(* back.  The loop claims again only when it has announced the last batch. *)
(* A claimed row that does not open fails the whole call after the stamps  *)
(* are written, and nothing of the batch is announced.                     *)
Claim(p, S) ==
  /\ MayCall(p)
  /\ queue[p] = {}
  /\ S # {}
  /\ FirstDue(S)
  /\ claimed' = claimed \cup S
  /\ queue' = [queue EXCEPT ![p] = IF S \cap Unreadable = {} THEN S ELSE {}]
  /\ UNCHANGED <<now, row, due, up, edit, stops, told>>

(* task_due for one task of the batch; the emit is best-effort.            *)
Announce(p, t) ==
  /\ p \in up
  /\ t \in queue[p]
  /\ queue' = [queue EXCEPT ![p] = @ \ {t}]
  /\ \/ told' = [told EXCEPT ![t] = @ + 1]
     \/ CoreMayFail /\ UNCHANGED told
  /\ UNCHANGED <<now, taskVars, up, edit, stops>>

(* The process stops, by crash, by the supervisor or by sweeper.abort().   *)
Stop(p) ==
  /\ p \in up
  /\ stops < MaxStops
  /\ up' = up \ {p}
  /\ queue' = [queue EXCEPT ![p] = {}]
  /\ edit' = [edit EXCEPT ![p] = NoEdit]
  /\ stops' = stops + 1
  /\ UNCHANGED <<now, taskVars, told>>

Start(p) ==
  /\ p \notin up
  /\ up' = up \cup {p}
  /\ UNCHANGED <<now, taskVars, queue, edit, stops, told>>

(***************************************************************************)
(* What users do to tasks                                                  *)
(***************************************************************************)
CreateTask(p, t, d) ==
  /\ MayCall(p)
  /\ row[t] = "free"
  /\ row' = [row EXCEPT ![t] = "open"]
  /\ due' = [due EXCEPT ![t] = d]
  /\ UNCHANGED <<now, claimed, up, queue, edit, stops, told>>

Present(t) == row[t] \in {"open", "done"}

(* complete_task: one UPDATE.                                              *)
CompleteTask(p, t, completed) ==
  /\ MayCall(p)
  /\ Present(t)
  /\ row' = [row EXCEPT ![t] = IF completed THEN "done" ELSE "open"]
  /\ UNCHANGED <<now, due, claimed, up, queue, edit, stops, told>>

DeleteTask(p, t) ==
  /\ MayCall(p)
  /\ Present(t)
  /\ row' = [row EXCEPT ![t] = "gone"]
  /\ UNCHANGED <<now, due, claimed, up, queue, edit, stops, told>>

(* update_activity reads the row, then writes back every column it may     *)
(* edit.  A column is the request's, or the copy's where the request names *)
(* none: what another process wrote in between can be undone, so any value *)
(* may be written.  A row that does not open cannot be edited.             *)
ReadForEdit(p, t) ==
  /\ MayCall(p)
  /\ Present(t)
  /\ t \notin Unreadable
  /\ edit' = [edit EXCEPT ![p] = t]
  /\ UNCHANGED <<now, taskVars, up, queue, stops, told>>

(* A row the other process deleted meanwhile matches nothing.              *)
WriteColumns(p, d, done) ==
  LET t == edit[p]
  IN /\ p \in up
     /\ t # NoEdit
     /\ IF Present(t)
          THEN /\ row' = [row EXCEPT ![t] = IF done THEN "done" ELSE "open"]
               /\ due' = [due EXCEPT ![t] = d]
          ELSE UNCHANGED <<row, due>>
     /\ edit' = [edit EXCEPT ![p] = NoEdit]
     /\ UNCHANGED <<now, up, queue, stops, told>>

(* Mutant: an edit that writes due_notified_at back with the other columns.*)
WriteEditWithStamp(p, d, done) ==
  /\ WriteColumns(p, d, done)
  /\ claimed' = claimed \ {edit[p]}

(* due_notified_at is not among the columns.                               *)
WriteEdit(p, d, done) ==
  /\ WriteColumns(p, d, done)
  /\ UNCHANGED claimed

Tick ==
  /\ now < MaxTime
  /\ now' = now + 1
  /\ UNCHANGED <<taskVars, up, queue, edit, stops, told>>

Sweep(p) == (\E S \in SUBSET Task : Claim(p, S)) \/ (\E t \in Task : Announce(p, t))
FinishEdit(p) == \E d \in Due, done \in BOOLEAN : WriteEdit(p, d, done)

Next ==
  \/ \E p \in Process :
       \/ Sweep(p) \/ FinishEdit(p) \/ Stop(p) \/ Start(p)
       \/ \E t \in Task :
            \/ \E d \in Due : CreateTask(p, t, d)
            \/ \E completed \in BOOLEAN : CompleteTask(p, t, completed)
            \/ DeleteTask(p, t) \/ ReadForEdit(p, t)
  \/ Tick

Spec == Init /\ [][Next]_vars

(* The sweep loop runs for the life of the process and the connection      *)
(* mutex serves its waiters in order (a tokio mutex is FIFO), so requests  *)
(* that keep coming do not hold the claim off for ever; a store call       *)
(* returns; and Core's supervisor starts a process that stopped.           *)
Fairness ==
  \A p \in Process : SF_vars(Sweep(p)) /\ WF_vars(FinishEdit(p)) /\ WF_vars(Start(p))
FairSpec == Spec /\ Fairness

--------------------------------------------------------------------------------
(***************************************************************************)
(* Properties                                                              *)
(***************************************************************************)
Waiting(t) == \E p \in Process : t \in queue[p]

(* A task is announced at most once, whichever processes sweep, stop and   *)
(* restart and however the task is edited meanwhile: the claim and its     *)
(* announcement implement DueAnnouncement.                                 *)
Stage(t) ==
  CASE told[t] > 0 -> "announced"
    [] told[t] = 0 /\ Waiting(t) -> "claimed"
    [] told[t] = 0 /\ ~Waiting(t) /\ t \in claimed -> "lost"
    [] OTHER -> "waiting"
DueTasks == INSTANCE DueAnnouncement WITH stage <- [t \in Task |-> Stage(t)]
ImplementsDueAnnouncement == DueTasks!Spec

(* No task waits in two processes, none waits that was announced, and none *)
(* waits or was announced without the stamp a later sweep looks for.       *)
OneClaimant ==
  /\ \A p, q \in Process : p # q => queue[p] \cap queue[q] = {}
  /\ \A t \in Task : Waiting(t) => told[t] = 0 /\ t \in claimed
  /\ \A t \in Task : told[t] <= 1 /\ (told[t] = 1 => t \in claimed)

(* A task that stays open and overdue is claimed, whatever is ahead of it  *)
(* in the backlog, a task whose text does not open included, and whichever *)
(* processes stop on the way.                                              *)
BacklogDrains ==
  \A t \in Task : t \in Claimable ~> t \notin Claimable

(* A task that was claimed and stays open is announced, so that with       *)
(* OneClaimant every task that comes due is announced exactly once.        *)
AnnouncedExactlyOnce ==
  \A t \in Task : t \in claimed /\ row[t] = "open" ~> told[t] = 1 \/ row[t] # "open"
================================================================================
