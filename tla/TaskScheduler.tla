--------------------------- MODULE TaskScheduler ----------------------------
(***************************************************************************)
(* The queue every background operation of the client goes through:        *)
(* class TaskScheduler (src/src/taskscheduler.cpp) and the deletion policy *)
(* of a TaskGroup (src/src/tasks/group/taskgroup.cpp).                     *)
(*                                                                         *)
(* The members are the fields queue (m_tasks), running (m_running_task)    *)
(* and later (what the singleShot(0) timers will schedule again) of a      *)
(* record that may hold more.  Run(s) is what run() of the task that was   *)
(* just made the running one does before it returns.                       *)
(***************************************************************************)
EXTENDS Integers, Sequences, FiniteSets

CONSTANTS
    NoTask,       \* m_running_task == nullptr
    PolicyOf(_),  \* Task::deletePolicy, by the name of the task
    Run(_)        \* Task::run

-----------------------------------------------------------------------------
\* TaskGroup::deletePolicy(): `policies' has the policy of every subtask that
\* is not complete.
GroupPolicy(policies) ==
    IF "NonDeletable" \in policies THEN "NonDeletable"
    ELSE IF policies \subseteq {"Reschedulable"} THEN "Reschedulable"
    ELSE IF "Reschedulable" \notin policies THEN "Deletable"
    ELSE "NonDeletable"

Policy(task) ==
    IF task.name # "Group" THEN PolicyOf(task.name)
    ELSE GroupPolicy({PolicyOf(name) : name \in task.subtasks})

MaybeRunTask(s) ==
    IF s.running # NoTask \/ s.queue = <<>> THEN s
    ELSE Run([s EXCEPT !.running = Head(s.queue), !.queue = Tail(@)])

ScheduleTask(s, task) == MaybeRunTask([s EXCEPT !.queue = Append(@, task)])

\* Mutant: the next task is not started.
TaskCompletedIdles(s, task) ==
    IF s.running = task THEN [s EXCEPT !.running = NoTask] ELSE s

\* taskCompleted(): the signal of a task that was deleted is disconnected.
TaskCompleted(s, task) ==
    IF s.running = task THEN MaybeRunTask([s EXCEPT !.running = NoTask]) ELSE s

\* The tasks with one of the policies, in their order.
Kept(tasks, policies) ==
    LET kept[i \in 0..Len(tasks)] ==
            IF i = 0 THEN <<>>
            ELSE IF Policy(tasks[i]) \in policies THEN Append(kept[i - 1], tasks[i])
            ELSE kept[i - 1]
    IN  kept[Len(tasks)]

\* deleteTasks(): deletable tasks go, the running one included; reschedulable
\* ones come back from a timer.
DeleteTasks(s) ==
    MaybeRunTask(
        [s EXCEPT !.queue = Kept(@, {"NonDeletable"}),
                  !.later = @ \o Kept(s.queue, {"Reschedulable"}),
                  !.running = IF @ # NoTask /\ Policy(@) = "Deletable"
                              THEN NoTask ELSE @])

\* The timer of a reschedulable task.
RescheduleTask(s) ==
    ScheduleTask([s EXCEPT !.later = Tail(@)], Head(s.later))

=============================================================================
