-------------------------- MODULE MozillaVPNProofs --------------------------
(***************************************************************************)
(* Proofs about MozillaVPN: its types, the service of the queue of tasks,  *)
(* the removals of devices, and what the client may do to its token and    *)
(* its views.                                                              *)
(*                                                                         *)
(* Every method maps a record of members to another.  Three relations say  *)
(* what a method may do, from the strongest to the weakest, and each       *)
(* method has one lemma that puts it under one of them: Schedules (only    *)
(* tasks change), Keeps (also members no view depends on) and Handles      *)
(* (everything a handler of the event loop may do).  An action is then a   *)
(* composition of methods, and its proof a composition of their lemmas.    *)
(***************************************************************************)
EXTENDS MozillaVPN, FiniteSetTheorems, WellFoundedInduction, TLAPS

\* Types.
PublicKeys == Keys \cup {NoKey}
Users == {"none", "active", "needed", "forgotten"}
AnyTask == [name : TaskNames, key : PublicKeys \cup Others, subtasks : SUBSET Subtasks,
            quiet : SUBSET Subtasks, token : BOOLEAN, last : ControllerStates,
            posted : BOOLEAN]

\* A task that waits in the queue, and what runs.
Waiting == {t \in AnyTask : t.name # "None" /\ ~t.posted}
Running == {t \in AnyTask : /\ t.name = "None" => t = NoTask
                            /\ t.posted => t.name \in ControllerActions}

Devices == [json : Accounts, own : PublicKeys, others : SUBSET Others,
            removed : SUBSET Others]

Members == [state : AppStates, user : Users, keys : PublicKeys, devices : Devices,
            servers : BOOLEAN, serverData : BOOLEAN, purchase : BOOLEAN,
            queue : Seq(Waiting), running : Running, later : Seq(Waiting),
            controller : ControllerStates, initialize : BOOLEAN, updateNext : BOOLEAN,
            controllerInitialized : BOOLEAN, waiting : {"no", "granted", "refused"},
            saved : Settings, onboarded : BOOLEAN]

Served(a) == a.queue # <<>> => a.running # NoTask

Sound(a) == a \in Members /\ Served(a)

\* What the scheduler leaves alone.
SameApp(a, r) ==
    /\ r.state = a.state /\ r.user = a.user /\ r.keys = a.keys /\ r.devices = a.devices
    /\ r.servers = a.servers /\ r.serverData = a.serverData /\ r.purchase = a.purchase
    /\ r.initialize = a.initialize /\ r.updateNext = a.updateNext
    /\ r.controllerInitialized = a.controllerInitialized
    /\ r.saved = a.saved /\ r.onboarded = a.onboarded

\* A task of that name for that key waits or runs.
Pending(a, name, key) ==
    \E task \in Range(a.queue) \cup {a.running} : task.name = name /\ task.key = key

-----------------------------------------------------------------------------
\* Sequences.

\* Induction on the naturals, for a set instead of a predicate.
LEMMA SetInduction ==
    ASSUME NEW S, 0 \in S, \A n \in Nat : n \in S => n + 1 \in S
    PROVE  Nat \subseteq S
<1> DEFINE T == Nat \ S
           R == {ss \in Nat \X Nat : ss[1] < ss[2]}
<1> SUFFICES ASSUME T # {} PROVE FALSE
  OBVIOUS
<1>1. IsWellFoundedOn(R, Nat)
  BY NatLessThanWellFounded DEF OpToRel
<1>2. PICK x \in T : \A y \in T : ~(<<y, x>> \in R)
  <2>1. T \subseteq Nat
    OBVIOUS
  <2> HIDE DEF T, R
  <2>. QED  BY <2>1, <1>1, WFMin
<1>3. \A y \in T : ~(y < x)
  BY <1>2
<1>4. x - 1 \in Nat
  OBVIOUS
<1>5. x - 1 \in S
  BY <1>3, <1>4
<1>. QED  BY <1>4, <1>5

LEMMA RangeAppend ==
    ASSUME NEW S, NEW s \in Seq(S), NEW x \in S
    PROVE  /\ Append(s, x) \in Seq(S) /\ Append(s, x) # <<>>
           /\ Range(Append(s, x)) = Range(s) \cup {x}
<1> DEFINE t == Append(s, x)
           n == Len(s)
<1>1. n \in Nat /\ t \in Seq(S) /\ Len(t) = n + 1
  OBVIOUS
<1>2. \A i \in 1..n : t[i] = s[i]
  OBVIOUS
<1>3. t[n + 1] = x
  OBVIOUS
<1>4. DOMAIN t = 1..(n + 1) /\ DOMAIN s = 1..n
  OBVIOUS
<1> HIDE DEF t, n
<1>5. 1..(n + 1) = (1..n) \cup {n + 1}
  BY <1>1
<1>6. Range(t) = Range(s) \cup {x}
  BY <1>2, <1>3, <1>4, <1>5 DEF Range
<1>7. t # <<>>
  BY <1>1
<1>. QED  BY <1>1, <1>6, <1>7 DEF t

\* What deleteTasks() keeps of a queue: the tasks with the policies, and no others.
LEMMA KeptFacts ==
    ASSUME NEW S, NEW tasks \in Seq(S), NEW policies
    PROVE  /\ Kept(tasks, policies) \in Seq(S)
           /\ Range(Kept(tasks, policies)) = {t \in Range(tasks) : Policy(t) \in policies}
<1> DEFINE n == Len(tasks)
           Body(f, i) == IF i = 0 THEN <<>>
                         ELSE IF Policy(tasks[i]) \in policies THEN Append(f[i - 1], tasks[i])
                         ELSE f[i - 1]
           Defines(f, k) == f = [i \in 0..k |-> Body(f, i)]
           F == CHOOSE f : Defines(f, n)
           E == {k \in Nat : \E f : Defines(f, k)}
<1>0. n \in Nat
  OBVIOUS
<1>1. E = Nat
  <2>1. Defines([i \in 0..0 |-> <<>>], 0)
    OBVIOUS
  <2>2. 0 \in E
    BY <2>1
  <2>3. ASSUME NEW k \in Nat, NEW f, Defines(f, k)
        PROVE  k + 1 \in E
    <3> DEFINE g == [i \in 0..(k + 1) |-> IF i = k + 1 THEN Body(f, k + 1) ELSE f[i]]
    <3>1. f = [i \in 0..k |-> Body(f, i)]
      BY <2>3
    <3>2. \A i \in 0..k : f[i] = Body(f, i) /\ g[i] = f[i]
      <4>1. \A i \in 0..k : g[i] = f[i]
        OBVIOUS
      <4> HIDE DEF Body, g
      <4>2. \A i \in 0..k : f[i] = Body(f, i)
        BY <3>1
      <4>. QED  BY <4>1, <4>2
    <3>3. \A i \in 0..(k + 1) : g[i] = Body(g, i)
      <4> SUFFICES ASSUME NEW i \in 0..(k + 1) PROVE g[i] = Body(g, i)
        OBVIOUS
      <4>1. i # 0 => g[i - 1] = f[i - 1]
        OBVIOUS
      <4>2. g[i] = Body(f, i)
        <5>1. CASE i = k + 1
          BY <5>1
        <5>2. CASE i # k + 1
          <6>1. i \in 0..k
            BY <5>2
          <6> HIDE DEF Body, g
          <6>. QED  BY <3>2, <6>1
        <5>. QED  BY <5>1, <5>2
      <4>. QED  BY <4>1, <4>2
    <3>4. Defines(g, k + 1)
      BY <3>3
    <3>5. k + 1 \in Nat
      OBVIOUS
    <3> HIDE DEF Defines, g
    <3>. QED  BY <3>4, <3>5
  <2>4. \A k \in Nat : k \in E => k + 1 \in E
    BY <2>3
  <2> HIDE DEF E
  <2>5. Nat \subseteq E
    BY <2>2, <2>4, SetInduction
  <2>. QED  BY <2>5 DEF E
<1>2. Defines(F, n)
  <2>1. \E f : Defines(f, n)
    BY <1>0, <1>1
  <2> HIDE DEF Defines
  <2>. QED  BY <2>1
<1>3. Kept(tasks, policies) = F[n]
  BY DEF Kept
<1> HIDE DEF F
<1>4. F = [i \in 0..n |-> Body(F, i)]
  BY <1>2
<1>5. \A i \in 0..n : F[i] = Body(F, i)
  BY <1>4
<1> DEFINE Chosen(i) == {t \in S : \E j \in 1..i : tasks[j] = t /\ Policy(t) \in policies}
           G == {i \in Nat : i <= n => F[i] \in Seq(S) /\ Range(F[i]) = Chosen(i)}
<1>6. 0 \in G
  <2>1. F[0] = <<>>
    BY <1>0, <1>5
  <2>2. Range(<<>>) = {} /\ <<>> \in Seq(S)
    BY DEF Range
  <2>3. Chosen(0) = {}
    OBVIOUS
  <2>. QED  BY <2>1, <2>2, <2>3
<1>7. ASSUME NEW i \in Nat, i \in G PROVE i + 1 \in G
  <2> SUFFICES ASSUME i + 1 <= n
               PROVE  F[i + 1] \in Seq(S) /\ Range(F[i + 1]) = Chosen(i + 1)
    OBVIOUS
  <2>1. F[i] \in Seq(S) /\ Range(F[i]) = Chosen(i)
    BY <1>7, <1>0
  <2>2. F[i + 1] = Body(F, i + 1) /\ (i + 1) - 1 = i /\ i + 1 # 0
    BY <1>5, <1>0
  <2>3. tasks[i + 1] \in S
    BY <1>0
  <2>4. CASE Policy(tasks[i + 1]) \in policies
    <3>1. F[i + 1] = Append(F[i], tasks[i + 1])
      BY <2>2, <2>4
    <3>2. F[i + 1] \in Seq(S) /\ Range(F[i + 1]) = Range(F[i]) \cup {tasks[i + 1]}
      BY <3>1, <2>1, <2>3, RangeAppend
    <3>3. Chosen(i + 1) = Chosen(i) \cup {tasks[i + 1]}
      BY <2>3, <2>4
    <3>. QED  BY <3>2, <3>3, <2>1
  <2>5. CASE Policy(tasks[i + 1]) \notin policies
    <3>1. F[i + 1] = F[i]
      BY <2>2, <2>5
    <3>2. Chosen(i + 1) = Chosen(i)
      BY <2>3, <2>5
    <3>. QED  BY <3>1, <3>2, <2>1
  <2>. QED  BY <2>4, <2>5
<1>8. n \in G
  <2> HIDE DEF G
  <2>1. Nat \subseteq G
    BY <1>6, <1>7, SetInduction
  <2>. QED  BY <2>1, <1>0
<1>9. F[n] \in Seq(S) /\ Range(F[n]) = Chosen(n)
  BY <1>8, <1>0
<1>10. Chosen(n) = {t \in Range(tasks) : Policy(t) \in policies}
  BY <1>0 DEF Range
<1>. QED  BY <1>3, <1>9, <1>10

-----------------------------------------------------------------------------
\* TaskScheduler.

LEMMA NoTaskFields ==
    NoTask \in Running /\ NoTask.name = "None" /\ NoTask \notin Waiting
BY DEF NoTask, Task, Running, Waiting, AnyTask, TaskNames, ControllerStates, PublicKeys,
       ControllerActions

LEMMA WaitingIsRunning ==
    ASSUME NEW t \in Waiting
    PROVE  t \in Running /\ t # NoTask
BY NoTaskFields DEF Waiting, Running

LEMMA RunControllerActionFrame ==
    ASSUME NEW a \in Members, a.running \in Waiting, a.running.name \in ControllerActions
    PROVE  LET r == RunControllerAction(a)
           IN  /\ r \in Members /\ SameApp(a, r)
               /\ r.queue = a.queue /\ r.later = a.later
               /\ r.running.name = a.running.name /\ r.running.key = a.running.key
<1> DEFINE ran == [a EXCEPT !.running.last = a.controller]
<1>1. /\ ran \in Members /\ SameApp(a, ran) /\ ran.queue = a.queue /\ ran.later = a.later
      /\ ran.running \in Waiting
      /\ ran.running.name = a.running.name /\ ran.running.key = a.running.key
  BY WaitingIsRunning DEF Members, SameApp, Waiting, Running, AnyTask
<1> HIDE DEF ran
<1>2. ASSUME NEW w \in {"no", "granted", "refused"}
      PROVE  LET r == [ran EXCEPT !.waiting = w]
             IN  /\ r \in Members /\ SameApp(ran, r)
                 /\ r.queue = ran.queue /\ r.later = ran.later /\ r.running = ran.running
  BY <1>1 DEF Members, SameApp
<1>3. ASSUME NEW c \in ControllerStates
      PROVE  LET r == [ran EXCEPT !.controller = c, !.running.posted = TRUE]
             IN  /\ r \in Members /\ SameApp(ran, r)
                 /\ r.queue = ran.queue /\ r.later = ran.later
                 /\ r.running.name = ran.running.name /\ r.running.key = ran.running.key
  BY <1>1 DEF Members, SameApp, Waiting, Running, AnyTask, ControllerActions
<1>4. SameApp(ran, RunControllerAction(a)) => SameApp(a, RunControllerAction(a))
  BY <1>1 DEF SameApp
<1>. QED  BY <1>1, <1>2, <1>3, <1>4 DEF RunControllerAction, ran, ControllerStates

LEMMA RunTaskFrame ==
    ASSUME NEW a \in Members, a.running \in Waiting
    PROVE  LET r == RunTask(a)
           IN  /\ r \in Members /\ SameApp(a, r)
               /\ r.queue = a.queue /\ r.later = a.later
               /\ r.running.name = a.running.name /\ r.running.key = a.running.key
<1>1. CASE a.running.name \in ControllerActions
  BY <1>1, RunControllerActionFrame DEF RunTask
<1>2. CASE a.running.name \notin ControllerActions
  BY <1>2 DEF RunTask, Members, SameApp, Waiting, Running, AnyTask, Settings
<1>. QED  BY <1>1, <1>2

LEMMA RangeTail ==
    ASSUME NEW S, NEW s \in Seq(S), s # <<>>
    PROVE  /\ Head(s) \in S /\ Tail(s) \in Seq(S)
           /\ Range(s) = {Head(s)} \cup Range(Tail(s))
<1> DEFINE n == Len(s)
           t == Tail(s)
<1>1. n \in Nat /\ n # 0 /\ t \in Seq(S) /\ Len(t) = n - 1 /\ Head(s) = s[1] /\ Head(s) \in S
  OBVIOUS
<1>2. \A i \in 1..(n - 1) : t[i] = s[i + 1]
  OBVIOUS
<1>3. DOMAIN t = 1..(n - 1) /\ DOMAIN s = 1..n
  OBVIOUS
<1> HIDE DEF n, t
<1>4. ASSUME NEW x \in Range(s), x # s[1]
      PROVE  x \in Range(t)
  <2>1. PICK i \in 1..n : x = s[i]
    BY <1>3 DEF Range
  <2>2. i - 1 \in 1..(n - 1) /\ (i - 1) + 1 = i
    BY <1>1, <1>4, <2>1
  <2>3. t[i - 1] = x
    BY <1>2, <2>1, <2>2
  <2>. QED  BY <1>3, <2>2, <2>3 DEF Range
<1>5. \A i \in 1..(n - 1) : i + 1 \in 1..n
  BY <1>1
<1>6. Range(t) \subseteq Range(s)
  BY <1>2, <1>3, <1>5 DEF Range
<1>7. s[1] \in Range(s)
  BY <1>1, <1>3 DEF Range
<1>8. Range(s) = {s[1]} \cup Range(t)
  BY <1>4, <1>6, <1>7
<1>. QED  BY <1>1, <1>8 DEF t

\* The relation of a queue to the one maybeRunTask() leaves: the same tasks, and
\* none of them waits for nothing.
LEMMA MaybeRunTaskFacts ==
    ASSUME NEW a \in Members
    PROVE  LET r == MaybeRunTask(a)
           IN  /\ Sound(r) /\ SameApp(a, r) /\ r.later = a.later
               /\ \A name, key : name # "None" =>
                     (Pending(r, name, key) <=> Pending(a, name, key))
               /\ a.running # NoTask => r = a
<1>1. CASE a.running # NoTask \/ a.queue = <<>>
  <2>1. MaybeRunTask(a) = a
    BY <1>1 DEF MaybeRunTask
  <2>2. Served(a)
    BY <1>1 DEF Served
  <2>. QED  BY <2>1, <2>2 DEF Sound, SameApp
<1>2. CASE a.running = NoTask /\ a.queue # <<>>
  <2> DEFINE b == [a EXCEPT !.running = Head(a.queue), !.queue = Tail(@)]
             r == RunTask(b)
  <2>1. a.queue \in Seq(Waiting)
    BY DEF Members
  <2>2. /\ Head(a.queue) \in Waiting /\ Tail(a.queue) \in Seq(Waiting)
        /\ Range(a.queue) = {Head(a.queue)} \cup Range(Tail(a.queue))
    BY <1>2, <2>1, RangeTail
  <2>3. Head(a.queue) \in Running
    BY <2>2, WaitingIsRunning
  <2>4. /\ b \in Members /\ SameApp(a, b) /\ b.running = Head(a.queue)
        /\ b.queue = Tail(a.queue) /\ b.later = a.later
    BY <2>2, <2>3 DEF Members, SameApp
  <2>5. MaybeRunTask(a) = r
    BY <1>2 DEF MaybeRunTask
  <2> HIDE DEF b
  <2>6. /\ r \in Members /\ SameApp(b, r) /\ r.queue = b.queue /\ r.later = b.later
        /\ r.running.name = b.running.name /\ r.running.key = b.running.key
    BY <2>2, <2>4, RunTaskFrame
  <2> HIDE DEF r
  <2>7. SameApp(a, r)
    BY <2>4, <2>6 DEF SameApp
  <2>8. r.running # NoTask
    BY <2>2, <2>4, <2>6, NoTaskFields DEF Waiting
  <2>9. \A name, key : name # "None" => (Pending(r, name, key) <=> Pending(a, name, key))
    BY <1>2, <2>2, <2>4, <2>6, NoTaskFields DEF Pending
  <2>. QED  BY <1>2, <2>4, <2>5, <2>6, <2>7, <2>8, <2>9 DEF Sound, Served
<1>. QED  BY <1>1, <1>2

\* scheduleTask()
LEMMA ScheduleTaskFacts ==
    ASSUME NEW a \in Members, NEW t \in Waiting
    PROVE  LET r == ScheduleTask(a, t)
           IN  /\ Sound(r) /\ SameApp(a, r) /\ r.later = a.later
               /\ \A name, key : name # "None" =>
                     (Pending(r, name, key) <=>
                         \/ Pending(a, name, key)
                         \/ t.name = name /\ t.key = key)
               /\ a.running # NoTask => r.running = a.running
<1> DEFINE b == [a EXCEPT !.queue = Append(@, t)]
<1>1. a.queue \in Seq(Waiting)
  BY DEF Members
<1>2. Append(a.queue, t) \in Seq(Waiting) /\ Range(Append(a.queue, t)) = Range(a.queue) \cup {t}
  BY <1>1, RangeAppend
<1>3. /\ b \in Members /\ SameApp(a, b) /\ b.later = a.later /\ b.running = a.running
      /\ b.queue = Append(a.queue, t)
  BY <1>2 DEF Members, SameApp
<1>4. ScheduleTask(a, t) = MaybeRunTask(b)
  BY DEF ScheduleTask
<1> HIDE DEF b
<1>5. \A name, key : Pending(b, name, key) <=> Pending(a, name, key)
                                               \/ (t.name = name /\ t.key = key)
  BY <1>2, <1>3 DEF Pending
<1> DEFINE r == MaybeRunTask(b)
<1>6. /\ Sound(r) /\ SameApp(b, r) /\ r.later = b.later
      /\ \A name, key : name # "None" => (Pending(r, name, key) <=> Pending(b, name, key))
      /\ b.running # NoTask => r = b
  BY <1>3, MaybeRunTaskFacts
<1> HIDE DEF r
<1>7. SameApp(a, r)
  BY <1>3, <1>6 DEF SameApp
<1>. QED  BY <1>3, <1>4, <1>5, <1>6, <1>7 DEF r

\* taskCompleted(): what waits is started.
LEMMA TaskCompletedFacts ==
    ASSUME NEW a, Sound(a), NEW t
    PROVE  LET r == TaskCompleted(a, t)
           IN  /\ Sound(r) /\ SameApp(a, r) /\ r.later = a.later
               /\ \A name, key : name # "None" /\ Pending(r, name, key) => Pending(a, name, key)
               /\ \A name, key : /\ name # "None" /\ Pending(a, name, key)
                                 /\ ~(t.name = name /\ t.key = key)
                                 => Pending(r, name, key)
<1>1. CASE a.running # t
  BY <1>1 DEF TaskCompleted, SameApp
<1>2. CASE a.running = t
  <2> DEFINE b == [a EXCEPT !.running = NoTask]
             r == MaybeRunTask(b)
  <2>1. /\ b \in Members /\ SameApp(a, b) /\ b.later = a.later /\ b.queue = a.queue
        /\ b.running = NoTask
    BY NoTaskFields DEF Sound, Members, SameApp
  <2>2. TaskCompleted(a, t) = r
    BY <1>2 DEF TaskCompleted
  <2> HIDE DEF b
  <2>3. /\ Sound(r) /\ SameApp(b, r) /\ r.later = b.later
        /\ \A name, key : name # "None" => (Pending(r, name, key) <=> Pending(b, name, key))
    BY <2>1, MaybeRunTaskFacts
  <2> HIDE DEF r
  <2>4. SameApp(a, r)
    BY <2>1, <2>3 DEF SameApp
  <2>5. \A name, key : name # "None" /\ Pending(b, name, key) => Pending(a, name, key)
    BY <2>1, NoTaskFields DEF Pending
  <2>6. \A name, key : Pending(a, name, key) /\ ~(t.name = name /\ t.key = key)
                       => Pending(b, name, key)
    BY <1>2, <2>1 DEF Pending
  <2>. QED  BY <2>1, <2>2, <2>3, <2>4, <2>5, <2>6
<1>. QED  BY <1>1, <1>2

\* deleteTasks(): the removals of devices go on, the functions of the App do not.
LEMMA DeleteTasksFacts ==
    ASSUME NEW a \in Members
    PROVE  LET r == DeleteTasks(a)
           IN  /\ Sound(r) /\ SameApp(a, r)
               /\ \A key : Pending(a, "RemoveDevice", key) => Pending(r, "RemoveDevice", key)
               /\ \A key : ~Pending(r, "MaybeStateMain", key)
               /\ a.running.name \in {"AddDevice", "RemoveDevice"} => r.running = a.running
<1> DEFINE q == Kept(a.queue, {"NonDeletable"})
           l == Kept(a.queue, {"Reschedulable"})
           run == IF a.running # NoTask /\ Policy(a.running) = "Deletable" THEN NoTask
                  ELSE a.running
           b == [a EXCEPT !.queue = q, !.later = @ \o l, !.running = run]
           r == MaybeRunTask(b)
<1>1. a.queue \in Seq(Waiting) /\ a.later \in Seq(Waiting) /\ a.running \in Running
  BY DEF Members
<1>2. /\ q \in Seq(Waiting)
      /\ Range(q) = {t \in Range(a.queue) : Policy(t) \in {"NonDeletable"}}
  BY <1>1, KeptFacts
<1>3. l \in Seq(Waiting)
  BY <1>1, KeptFacts
<1>4. run \in Running
  BY <1>1, NoTaskFields
<1>5. DeleteTasks(a) = r
  BY DEF DeleteTasks
<1>6. Policy(NoTask) = "Deletable"
  BY NoTaskFields DEF Policy, PolicyOf, ControllerActions
<1>7. run = IF Policy(a.running) = "Deletable" THEN NoTask ELSE a.running
  BY <1>6
<1> HIDE DEF q, l, run
<1>8. a.later \o l \in Seq(Waiting)
  BY <1>1, <1>3
<1>9. b \in Members /\ SameApp(a, b) /\ b.queue = q /\ b.running = run
  BY <1>2, <1>4, <1>8 DEF Members, SameApp
<1> HIDE DEF b
<1>10. /\ Sound(r) /\ SameApp(b, r)
       /\ \A name, key : name # "None" => (Pending(r, name, key) <=> Pending(b, name, key))
       /\ b.running # NoTask => r = b
  BY <1>9, MaybeRunTaskFacts
<1> HIDE DEF r
<1>11. SameApp(a, r)
  BY <1>9, <1>10 DEF SameApp
<1>12. \A t : t.name = "RemoveDevice" => Policy(t) = "NonDeletable"
  BY DEF Policy, PolicyOf
<1>13. \A t : t.name = "MaybeStateMain" => Policy(t) = "Deletable"
  BY DEF Policy, PolicyOf, ControllerActions
<1>14. ASSUME NEW key, Pending(a, "RemoveDevice", key)
       PROVE  Pending(b, "RemoveDevice", key)
  BY <1>2, <1>7, <1>9, <1>12, <1>14 DEF Pending
<1>15. ASSUME NEW key, Pending(b, "MaybeStateMain", key)
       PROVE  FALSE
  BY <1>2, <1>7, <1>9, <1>13, <1>15, NoTaskFields DEF Pending
<1>16. a.running.name \in {"AddDevice", "RemoveDevice"} => r.running = a.running
  <2>1. a.running.name \in {"AddDevice", "RemoveDevice"} => Policy(a.running) = "NonDeletable"
    BY DEF Policy, PolicyOf
  <2>. QED  BY <1>7, <1>9, <1>10, <2>1, NoTaskFields
<1>. QED  BY <1>5, <1>10, <1>11, <1>14, <1>15, <1>16

\* The timer of a reschedulable task.
LEMMA RescheduleTaskFacts ==
    ASSUME NEW a \in Members, a.later # <<>>
    PROVE  LET r == RescheduleTask(a)
           IN  /\ Sound(r) /\ SameApp(a, r)
               /\ \A key : Pending(a, "RemoveDevice", key) => Pending(r, "RemoveDevice", key)
<1> DEFINE b == [a EXCEPT !.later = Tail(@)]
           t == Head(a.later)
<1>1. a.later \in Seq(Waiting)
  BY DEF Members
<1>2. t \in Waiting /\ Tail(a.later) \in Seq(Waiting)
  BY <1>1, RangeTail
<1>3. b \in Members /\ SameApp(a, b) /\ b.queue = a.queue /\ b.running = a.running
  BY <1>2 DEF Members, SameApp
<1>4. RescheduleTask(a) = ScheduleTask(b, t)
  BY DEF RescheduleTask
<1> HIDE DEF b, t
<1> DEFINE r == ScheduleTask(b, t)
<1>5. /\ Sound(r) /\ SameApp(b, r)
      /\ \A key : Pending(b, "RemoveDevice", key) => Pending(r, "RemoveDevice", key)
  BY <1>2, <1>3, ScheduleTaskFacts
<1> HIDE DEF r
<1>6. SameApp(a, r)
  BY <1>3, <1>5 DEF SameApp
<1>7. \A key : Pending(a, "RemoveDevice", key) => Pending(b, "RemoveDevice", key)
  BY <1>3 DEF Pending
<1>. QED  BY <1>4, <1>5, <1>6, <1>7 DEF r

-----------------------------------------------------------------------------
\* The methods of MozillaVPN.

\* No function of an earlier login waits or runs.
Quiet(a) == \A key : ~Pending(a, "MaybeStateMain", key)

RemovalsGoOn(a, r) ==
    \A key : Pending(a, "RemoveDevice", key) => Pending(r, "RemoveDevice", key)

\* What a method does that only schedules tasks.
Schedules(a, r) ==
    /\ Sound(r) /\ SameApp(a, r) /\ RemovalsGoOn(a, r)
    /\ Quiet(a) => Quiet(r)

LEMMA SchedulesTransitive ==
    ASSUME NEW a, NEW b, NEW c, Schedules(a, b), Schedules(b, c)
    PROVE  Schedules(a, c)
BY DEF Schedules, SameApp, RemovalsGoOn

LEMMA TasksWait ==
    /\ \A name \in TaskNames \ {"None"} :
          Task(name) \in Waiting /\ Task(name).name = name
    /\ \A key \in PublicKeys \cup Others :
          /\ RemoveDeviceTask(key) \in Waiting /\ RemoveDeviceTask(key).key = key
          /\ RemoveDeviceTask(key).name = "RemoveDevice"
    /\ \A subtasks \in SUBSET Subtasks, quiet \in SUBSET Subtasks :
          /\ GroupTask(subtasks, quiet) \in Waiting
          /\ GroupTask(subtasks, quiet).name = "Group"
    /\ QuietTask("Account") \in Waiting /\ QuietTask("Account").name = "Account"
<1>1. \A name \in TaskNames \ {"None"} : Task(name) \in Waiting /\ Task(name).name = name
  BY DEF Task, Waiting, AnyTask, PublicKeys, ControllerStates
<1>2. "RemoveDevice" \in TaskNames \ {"None"} /\ "Group" \in TaskNames \ {"None"}
      /\ "Account" \in TaskNames \ {"None"}
  BY DEF TaskNames, Subtasks
<1>3. ASSUME NEW key \in PublicKeys \cup Others
      PROVE  /\ RemoveDeviceTask(key) \in Waiting /\ RemoveDeviceTask(key).key = key
             /\ RemoveDeviceTask(key).name = "RemoveDevice"
  BY <1>1, <1>2 DEF RemoveDeviceTask, Waiting, AnyTask
<1>4. ASSUME NEW subtasks \in SUBSET Subtasks, NEW quiet \in SUBSET Subtasks
      PROVE  /\ GroupTask(subtasks, quiet) \in Waiting
             /\ GroupTask(subtasks, quiet).name = "Group"
  <2> DEFINE t == Task("Group")
  <2>1. t \in Waiting /\ t.name = "Group"
    BY <1>1, <1>2
  <2> HIDE DEF t
  <2>2. LET g == [t EXCEPT !.subtasks = subtasks, !.quiet = quiet]
        IN  g \in Waiting /\ g.name = "Group"
    BY <2>1 DEF Waiting, AnyTask
  <2>. QED  BY <2>2 DEF GroupTask, t
<1>5. QuietTask("Account") \in Waiting /\ QuietTask("Account").name = "Account"
  BY <1>1, <1>2 DEF QuietTask, Waiting, AnyTask, Subtasks
<1>. QED  BY <1>1, <1>3, <1>4, <1>5

LEMMA ScheduleTaskSchedules ==
    ASSUME NEW a \in Members, NEW t \in Waiting, t.name # "MaybeStateMain"
    PROVE  Schedules(a, ScheduleTask(a, t))
BY ScheduleTaskFacts DEF Schedules, RemovalsGoOn, Quiet

LEMMA ScheduleNamed ==
    ASSUME NEW a \in Members, NEW name \in TaskNames \ {"None", "MaybeStateMain"}
    PROVE  Schedules(a, ScheduleTask(a, Task(name)))
<1>1. Task(name) \in Waiting /\ Task(name).name = name
  BY TasksWait
<1>. QED  BY <1>1, ScheduleTaskSchedules

\* deleteTasks(), with no function left.
LEMMA DeleteTasksSchedules ==
    ASSUME NEW a \in Members
    PROVE  Schedules(a, DeleteTasks(a)) /\ Quiet(DeleteTasks(a))
BY DeleteTasksFacts DEF Schedules, RemovalsGoOn, Quiet

\* App::setState(): a change of the state, then the scheduler.  Any state but the
\* two views of the VPN leaves everything else alone.
LEMMA SetStateFacts ==
    ASSUME NEW a, Sound(a), NEW state \in AppStates
    PROVE  LET r == SetState(a, state)
           IN  /\ Sound(r) /\ RemovalsGoOn(a, r) /\ (Quiet(a) => Quiet(r))
               /\ r.state = state /\ r.user = a.user /\ r.keys = a.keys
               /\ r.devices = a.devices /\ r.servers = a.servers /\ r.saved = a.saved
<1> DEFINE b == [a EXCEPT !.state = state]
           c == [b EXCEPT !.initialize = TRUE]
           d == ScheduleTask(b, Task("Deactivate"))
<1>1. /\ b \in Members /\ b.state = state /\ b.user = a.user /\ b.keys = a.keys
      /\ b.devices = a.devices /\ b.servers = a.servers /\ b.saved = a.saved
      /\ b.queue = a.queue /\ b.running = a.running
  BY DEF Sound, Members
<1>2. \A name, key : Pending(b, name, key) <=> Pending(a, name, key)
  BY <1>1 DEF Pending
<1> HIDE DEF b
<1>3. /\ c \in Members /\ c.state = state /\ c.user = a.user /\ c.keys = a.keys
      /\ c.devices = a.devices /\ c.servers = a.servers /\ c.saved = a.saved
      /\ c.queue = a.queue /\ c.running = a.running
  BY <1>1 DEF Members
<1>4. Schedules(b, d)
  BY <1>1, ScheduleNamed DEF TaskNames, ControllerActions
<1> HIDE DEF c, d
<1>5. CASE state \in {"Main", "Onboarding"}
  <2>1. SetState(a, state) = c
    BY <1>5 DEF SetState, b, c
  <2>2. \A name, key : Pending(c, name, key) <=> Pending(a, name, key)
    BY <1>3 DEF Pending
  <2>. QED  BY <1>3, <2>1, <2>2 DEF Sound, Served, RemovalsGoOn, Quiet
<1>6. CASE state \notin {"Main", "Onboarding"}
  <2>1. SetState(a, state) = d
    BY <1>6 DEF SetState, b, d
  <2>. QED  BY <1>1, <1>2, <1>4, <2>1 DEF Schedules, SameApp, RemovalsGoOn, Quiet
<1>. QED  BY <1>5, <1>6

\* deactivate()
LEMMA DeactivateVpnSchedules ==
    ASSUME NEW a \in Members
    PROVE  Schedules(a, DeactivateVpn(a)) /\ Quiet(DeactivateVpn(a))
<1> DEFINE b == DeleteTasks(a)
<1>1. Schedules(a, b) /\ Quiet(b)
  BY DeleteTasksSchedules
<1> HIDE DEF b
<1>2. Schedules(b, ScheduleTask(b, Task("Deactivate")))
  BY <1>1, ScheduleNamed DEF Schedules, Sound, TaskNames, ControllerActions
<1>3. Schedules(a, ScheduleTask(b, Task("Deactivate")))
  BY <1>1, <1>2, SchedulesTransitive
<1>. QED  BY <1>1, <1>2, <1>3 DEF DeactivateVpn, b, Schedules

\* reset(): the settings are gone, and so are the functions.
LEMMA ResetFacts ==
    ASSUME NEW a \in Members, NEW force \in BOOLEAN
    PROVE  LET r == Reset(a, force)
           IN  /\ Sound(r) /\ RemovalsGoOn(a, r) /\ Quiet(r)
               /\ r.state = (IF force THEN "Initialize" ELSE a.state)
               /\ r.devices = a.devices /\ r.user = a.user /\ r.servers = a.servers
               /\ r.saved = NoSettings /\ r.keys = NoKey
<1> DEFINE b == DeactivateVpn(a)
           c == [b EXCEPT !.saved = NoSettings, !.keys = NoKey,
                          !.serverData = FALSE, !.purchase = FALSE]
           d == SetState(c, "Initialize")
<1>1. Schedules(a, b) /\ Quiet(b)
  BY DeactivateVpnSchedules
<1>2. NoSettings \in Settings /\ NoKey \in PublicKeys
  BY DEF NoSettings, Settings, Accounts, NoAccount, PublicKeys
<1> HIDE DEF b
<1>3. /\ c \in Members /\ c.queue = b.queue /\ c.running = b.running /\ c.state = b.state
      /\ c.devices = b.devices /\ c.user = b.user /\ c.servers = b.servers
      /\ c.saved = NoSettings /\ c.keys = NoKey
  BY <1>1, <1>2 DEF Schedules, Sound, Members
<1> HIDE DEF c
<1>4. Sound(c) /\ RemovalsGoOn(a, c) /\ Quiet(c)
  BY <1>1, <1>3 DEF Schedules, Sound, Served, RemovalsGoOn, Quiet, Pending
<1>5. /\ Sound(d) /\ RemovalsGoOn(c, d) /\ Quiet(d) /\ d.state = "Initialize"
      /\ d.devices = c.devices /\ d.user = c.user /\ d.servers = c.servers
      /\ d.saved = c.saved /\ d.keys = c.keys
  BY <1>4, SetStateFacts DEF AppStates
<1>6. RemovalsGoOn(a, d)
  BY <1>4, <1>5 DEF RemovalsGoOn
<1> HIDE DEF d
<1>7. Reset(a, force) = IF force THEN d ELSE c
  BY DEF Reset, b, c, d
<1>. QED  BY <1>1, <1>3, <1>4, <1>5, <1>6, <1>7 DEF Schedules, SameApp

\* What an error does: nothing, or a reset to the first view.
LEMMA ErrorFacts ==
    ASSUME NEW a, Sound(a), NEW r, r = a \/ r = Reset(a, TRUE)
    PROVE  /\ Sound(r) /\ RemovalsGoOn(a, r) /\ (Quiet(a) => Quiet(r))
           /\ r.devices = a.devices /\ r.user = a.user /\ r.servers = a.servers
           /\ r.state \in {a.state, "Initialize"}
           /\ r.state # "Initialize" => r = a
           /\ a.saved.token /\ ~r.saved.token => Quiet(r)
<1>1. CASE r = a
  BY <1>1 DEF RemovalsGoOn
<1>2. CASE r = Reset(a, TRUE)
  BY <1>2, ResetFacts DEF Sound, RemovalsGoOn
<1>. QED  BY <1>1, <1>2

LEMMA ErrorCases ==
    /\ \A a : ReportError(a) = a \/ ReportError(a) = Reset(a, TRUE)
    /\ \A a, error, propagate :
          \/ ReportNetworkError(a, error, propagate) = a
          \/ ReportNetworkError(a, error, propagate) = Reset(a, TRUE)
    /\ \A a : a.state = "Authenticating" => ReportError(a) = Reset(a, TRUE)
BY DEF ReportError, ReportNetworkError, ErrorHandled

LEMMA ScheduleRefreshSchedules ==
    ASSUME NEW a \in Members
    PROVE  /\ Schedules(a, ScheduleRefreshDataTasks(a))
           /\ Schedules(a, AddCurrentDeviceAndRefreshData(a))
<1> DEFINE g == GroupTask(RefreshTasks, {})
           b == ScheduleTask(a, Task("AddDevice"))
<1>1. g \in Waiting /\ g.name = "Group"
  <2>1. RefreshTasks \in SUBSET Subtasks /\ {} \in SUBSET Subtasks
    BY DEF RefreshTasks, Subtasks
  <2>. QED  BY <2>1, TasksWait
<1> HIDE DEF g
<1>2. \A c \in Members : Schedules(c, ScheduleTask(c, g))
  BY <1>1, ScheduleTaskSchedules
<1>3. Schedules(a, b)
  BY ScheduleNamed DEF TaskNames
<1> HIDE DEF b
<1>4. Schedules(a, ScheduleTask(b, g))
  BY <1>2, <1>3, SchedulesTransitive DEF Schedules, Sound
<1>5. /\ ScheduleRefreshDataTasks(a) = ScheduleTask(a, g)
      /\ AddCurrentDeviceAndRefreshData(a) = ScheduleTask(b, g)
  BY DEF ScheduleRefreshDataTasks, AddCurrentDeviceAndRefreshData, b, g
<1>. QED  BY <1>2, <1>4, <1>5

LEMMA SchedulesReflexive ==
    ASSUME NEW a, Sound(a)
    PROVE  Schedules(a, a)
BY DEF Schedules, SameApp, RemovalsGoOn

LEMMA MaybeRegenerateSchedules ==
    ASSUME NEW a, Sound(a)
    PROVE  Schedules(a, MaybeRegenerateDeviceKey(a))
<1> DEFINE b == AddCurrentDeviceAndRefreshData(a)
<1>1. Schedules(a, b)
  BY ScheduleRefreshSchedules DEF Sound
<1> HIDE DEF b
<1>2. Schedules(b, ScheduleTask(b, Task("CheckKey")))
  BY <1>1, ScheduleNamed DEF Schedules, Sound, TaskNames, Functions
<1>3. Schedules(a, ScheduleTask(b, Task("CheckKey")))
  BY <1>1, <1>2, SchedulesTransitive
<1>. QED  BY <1>3, SchedulesReflexive DEF MaybeRegenerateDeviceKey, b

Ready(a) == a.user = "active" /\ a.servers /\ HasCurrentDevice(a)

\* maybeStateMain() removes the settings and leaves the tasks.
Wipes(a) ==
    /\ a.user # "needed" /\ HasCurrentDevice(a) /\ ~ModelsInitialized(a)
    /\ a.state # "Authenticating"

LEMMA SameModelsReady ==
    ASSUME NEW a, NEW r, r.user = a.user, r.servers = a.servers, r.keys = a.keys,
           r.devices = a.devices
    PROVE  Ready(r) <=> Ready(a)
BY DEF Ready, HasCurrentDevice

\* The end of maybeStateMain() for want of a model.
LEMMA WipeFacts ==
    ASSUME NEW a, Sound(a)
    PROVE  LET r == SetState(ReportError([a EXCEPT !.saved = NoSettings]), "Initialize")
           IN  /\ Sound(r) /\ RemovalsGoOn(a, r) /\ (Quiet(a) => Quiet(r))
               /\ r.devices = a.devices /\ r.user = a.user /\ r.servers = a.servers
               /\ r.state = "Initialize"
               /\ a.state = "Authenticating" => Quiet(r)
<1> DEFINE b == [a EXCEPT !.saved = NoSettings]
           c == ReportError(b)
           d == SetState(c, "Initialize")
<1>1. NoSettings \in Settings
  BY DEF NoSettings, Settings, Accounts, NoAccount
<1>2. /\ b \in Members /\ b.queue = a.queue /\ b.running = a.running
      /\ b.devices = a.devices /\ b.user = a.user /\ b.servers = a.servers
      /\ b.state = a.state
  BY <1>1 DEF Sound, Members
<1> HIDE DEF b
<1>3. Sound(b) /\ (\A name, key : Pending(b, name, key) <=> Pending(a, name, key))
  BY <1>2 DEF Sound, Served, Pending
<1>4. c = b \/ c = Reset(b, TRUE)
  BY ErrorCases
<1>5. a.state = "Authenticating" => c = Reset(b, TRUE)
  BY <1>2, ErrorCases
<1> HIDE DEF c
<1>6. /\ Sound(c) /\ RemovalsGoOn(b, c) /\ (Quiet(b) => Quiet(c))
      /\ c.devices = b.devices /\ c.user = b.user /\ c.servers = b.servers
  BY <1>3, <1>4, ErrorFacts
<1>7. a.state = "Authenticating" => Quiet(c)
  BY <1>2, <1>5, ResetFacts
<1>8. /\ Sound(d) /\ RemovalsGoOn(c, d) /\ (Quiet(c) => Quiet(d)) /\ d.state = "Initialize"
      /\ d.devices = c.devices /\ d.user = c.user /\ d.servers = c.servers
  BY <1>6, SetStateFacts DEF AppStates
<1> HIDE DEF d
<1>9. RemovalsGoOn(a, d) /\ (Quiet(a) => Quiet(d))
  BY <1>3, <1>6, <1>8 DEF RemovalsGoOn, Quiet
<1>. QED  BY <1>2, <1>6, <1>7, <1>8, <1>9 DEF b, c, d

\* maybeStateMain(): the main view is entered with all the models; what it does to
\* the token and to the functions in the queue.
LEMMA MaybeStateMainFacts ==
    ASSUME NEW a, Sound(a)
    PROVE  LET r == MaybeStateMain(a)
           IN  /\ Sound(r) /\ RemovalsGoOn(a, r) /\ (Quiet(a) => Quiet(r))
               /\ r.devices = a.devices /\ r.user = a.user /\ r.servers = a.servers
               /\ r.state = "Main" => Ready(r)
               /\ a.saved.token => TokenOK(r)
               /\ a.saved.token /\ ~r.saved.token =>
                     HasCurrentDevice(a) /\ (Quiet(r) \/ Wipes(a))
<1> DEFINE ready == MaybeRegenerateDeviceKey(a)
           wiped == SetState(ReportError([a EXCEPT !.saved = NoSettings]), "Initialize")
           main == SetState([ready EXCEPT !.onboarded = TRUE], "Main")
           Facts(r) == /\ Sound(r) /\ RemovalsGoOn(a, r) /\ (Quiet(a) => Quiet(r))
                       /\ r.devices = a.devices /\ r.user = a.user /\ r.servers = a.servers
                       /\ r.state = "Main" => Ready(r)
                       /\ a.saved.token => TokenOK(r)
                       /\ a.saved.token /\ ~r.saved.token =>
                             HasCurrentDevice(a) /\ (Quiet(r) \/ Wipes(a))
<1>1. ASSUME NEW state \in {"SubscriptionNeeded", "DeviceLimit", "Onboarding"}
      PROVE  Facts(SetState(a, state))
  <2>1. state \in AppStates /\ state # "Main"
    BY DEF AppStates
  <2>. QED  BY <2>1, SetStateFacts DEF TokenOK
<1>2. ASSUME a.user # "needed", HasCurrentDevice(a), ~ModelsInitialized(a)
      PROVE  Facts(wiped)
  <2>1. /\ Sound(wiped) /\ RemovalsGoOn(a, wiped) /\ (Quiet(a) => Quiet(wiped))
        /\ wiped.devices = a.devices /\ wiped.user = a.user /\ wiped.servers = a.servers
        /\ wiped.state = "Initialize"
        /\ a.state = "Authenticating" => Quiet(wiped)
    BY WipeFacts
  <2> HIDE DEF wiped
  <2>2. TokenOK(wiped)
    BY <2>1 DEF TokenOK, SignedIn
  <2>. QED  BY <1>2, <2>1, <2>2 DEF Wipes
<1>3. Schedules(a, ready)
  BY MaybeRegenerateSchedules
<1> HIDE DEF ready
<1>4. ASSUME a.user # "needed", ModelsInitialized(a)
      PROVE  Ready(a)
  BY <1>4 DEF Ready, ModelsInitialized, Sound, Members, Users
<1>5. ASSUME a.state = "UpdateRequired"
      PROVE  Facts(ready)
  BY <1>3, <1>5 DEF Schedules, SameApp, TokenOK, SignedIn
<1>6. ASSUME a.user # "needed", ModelsInitialized(a)
      PROVE  Facts(main)
  <2> DEFINE b == [ready EXCEPT !.onboarded = TRUE]
  <2>1. /\ b \in Members /\ b.queue = ready.queue /\ b.running = ready.running
        /\ b.devices = ready.devices /\ b.user = ready.user /\ b.servers = ready.servers
        /\ b.keys = ready.keys /\ b.saved = ready.saved
    BY <1>3 DEF Schedules, Sound, Members
  <2> HIDE DEF b
  <2>2. Sound(b) /\ (\A name, key : Pending(b, name, key) <=> Pending(ready, name, key))
    BY <1>3, <2>1 DEF Schedules, Sound, Served, Pending
  <2>3. main = SetState(b, "Main")
    BY DEF b
  <2> HIDE DEF main
  <2>4. /\ Sound(main) /\ RemovalsGoOn(b, main) /\ (Quiet(b) => Quiet(main))
        /\ main.state = "Main" /\ main.user = b.user /\ main.keys = b.keys
        /\ main.devices = b.devices /\ main.servers = b.servers /\ main.saved = b.saved
    BY <2>2, <2>3, SetStateFacts DEF AppStates
  <2>5. RemovalsGoOn(a, main) /\ (Quiet(a) => Quiet(main))
    BY <1>3, <2>2, <2>4 DEF Schedules, RemovalsGoOn, Quiet
  <2>6. /\ main.user = a.user /\ main.keys = a.keys /\ main.devices = a.devices
        /\ main.servers = a.servers /\ main.saved = a.saved
    BY <1>3, <2>1, <2>4 DEF Schedules, SameApp
  <2>7. Ready(main)
    BY <1>4, <1>6, <2>6, SameModelsReady
  <2>. QED  BY <2>4, <2>5, <2>6, <2>7 DEF TokenOK
<1>7. \/ MaybeStateMain(a) \in {SetState(a, state) :
                                  state \in {"SubscriptionNeeded", "DeviceLimit", "Onboarding"}}
      \/ /\ MaybeStateMain(a) = wiped
         /\ a.user # "needed" /\ HasCurrentDevice(a) /\ ~ModelsInitialized(a)
      \/ MaybeStateMain(a) = ready /\ a.state = "UpdateRequired"
      \/ MaybeStateMain(a) = main /\ a.user # "needed" /\ ModelsInitialized(a)
  BY DEF MaybeStateMain, ready
<1> HIDE DEF wiped, main
<1>8. Facts(MaybeStateMain(a))
  <2> HIDE DEF Facts
  <2>. QED  BY <1>1, <1>2, <1>5, <1>6, <1>7
<1>. QED  BY <1>8

\* A method that leaves alone what the views depend on.
Keeps(a, r) ==
    /\ Sound(r) /\ RemovalsGoOn(a, r) /\ (Quiet(a) => Quiet(r))
    /\ r.state = a.state /\ r.user = a.user /\ r.keys = a.keys /\ r.devices = a.devices
    /\ r.servers = a.servers /\ r.saved = a.saved

\* What every handler does: no removal is forgotten, the main view is entered with
\* its models and a signed-in view with a token, and with the token go the functions.
Handles(a, r) ==
    /\ Sound(r) /\ RemovalsGoOn(a, r)
    /\ r.devices.removed \subseteq a.devices.removed
    /\ r.state = "Main" => a.state = "Main" \/ Ready(r)
    /\ TokenOK(a) => TokenOK(r)
    /\ a.saved.token /\ ~r.saved.token => Quiet(r)

LEMMA SchedulesKeeps ==
    ASSUME NEW a, NEW r, Schedules(a, r)
    PROVE  Keeps(a, r)
BY DEF Schedules, SameApp, Keeps

LEMMA KeepsHandles ==
    ASSUME NEW a, NEW r, Keeps(a, r)
    PROVE  Handles(a, r)
BY DEF Keeps, Handles, TokenOK

LEMMA HandlesReflexive ==
    ASSUME NEW a, Sound(a)
    PROVE  Handles(a, a)
BY DEF Handles, RemovalsGoOn

LEMMA HandlesKeeps ==
    ASSUME NEW a, NEW b, NEW r, Handles(a, b), Keeps(b, r)
    PROVE  Handles(a, r)
<1>1. Ready(r) <=> Ready(b)
  BY SameModelsReady DEF Keeps
<1>2. RemovalsGoOn(a, r)
  BY DEF Handles, Keeps, RemovalsGoOn
<1>3. r.state = b.state /\ r.saved = b.saved /\ r.devices = b.devices
      /\ (Quiet(b) => Quiet(r)) /\ Sound(r)
  BY DEF Keeps
<1>. QED  BY <1>1, <1>2, <1>3 DEF Handles, TokenOK

LEMMA ReportHandles ==
    ASSUME NEW a, Sound(a)
    PROVE  /\ Handles(a, ReportError(a))
           /\ \A error, propagate : Handles(a, ReportNetworkError(a, error, propagate))
<1>1. ASSUME NEW r, r = a \/ r = Reset(a, TRUE)
      PROVE  Handles(a, r)
  <2>1. /\ Sound(r) /\ RemovalsGoOn(a, r) /\ r.devices = a.devices
        /\ r.state # "Initialize" => r = a
        /\ a.saved.token /\ ~r.saved.token => Quiet(r)
    BY <1>1, ErrorFacts
  <2>. QED  BY <2>1 DEF Handles, TokenOK, SignedIn
<1>. QED  BY <1>1, ErrorCases

\* DeviceModel::fromJson()
LEMMA DevicesFromJsonFacts ==
    ASSUME NEW devices \in Devices, NEW json \in Accounts
    PROVE  /\ DevicesFromJson(devices, json) \in Devices
           /\ DevicesFromJson(devices, json).removed \subseteq devices.removed
           /\ DevicesFromJson(devices, json).json = json
BY DEF DevicesFromJson, Devices, Accounts, PublicKeys

LEMMA UserFromJsonFacts ==
    ASSUME NEW json \in Accounts
    PROVE  UserFromJson(json) \in Users \cap {"active", "needed"}
BY DEF UserFromJson, Users

\* The models and the settings take what the server says of the account.
LEMMA KnownFacts ==
    ASSUME NEW a, Sound(a), NEW json \in Accounts
    PROVE  LET known == [a EXCEPT !.user = UserFromJson(json),
                                  !.devices = DevicesFromJson(@, json)]
               saved == [known EXCEPT !.saved.user = known.user,
                                      !.saved.devices = known.devices.json]
               token == [known EXCEPT !.saved.user = known.user,
                                      !.saved.devices = known.devices.json,
                                      !.saved.token = TRUE]
           IN  /\ Sound(saved) /\ Sound(token) /\ token.saved.token
               /\ \A name, key : /\ Pending(saved, name, key) <=> Pending(a, name, key)
                                 /\ Pending(token, name, key) <=> Pending(a, name, key)
               /\ saved.state = a.state /\ token.state = a.state
               /\ saved.devices.removed \subseteq a.devices.removed
               /\ token.devices.removed \subseteq a.devices.removed
               /\ saved.saved.token = a.saved.token
<1> DEFINE u == UserFromJson(json)
           d == DevicesFromJson(a.devices, json)
           known == [a EXCEPT !.user = u, !.devices = d]
           saved == [known EXCEPT !.saved.user = known.user,
                                  !.saved.devices = known.devices.json]
           token == [known EXCEPT !.saved.user = known.user,
                                  !.saved.devices = known.devices.json,
                                  !.saved.token = TRUE]
<1>1. u \in Users \cap {"active", "needed"} /\ d \in Devices /\ d.removed \subseteq a.devices.removed
      /\ d.json \in Accounts
  BY UserFromJsonFacts, DevicesFromJsonFacts DEF Sound, Members
<1>2. known = [a EXCEPT !.user = UserFromJson(json), !.devices = DevicesFromJson(@, json)]
  OBVIOUS
<1> HIDE DEF u, d
<1>3. /\ known \in Members /\ known.user = u /\ known.devices = d /\ known.queue = a.queue
      /\ known.running = a.running /\ known.state = a.state /\ known.saved = a.saved
  BY <1>1 DEF Sound, Members
<1> HIDE DEF known
<1>4. /\ saved \in Members /\ saved.devices = d /\ saved.queue = a.queue
      /\ saved.running = a.running /\ saved.state = a.state
      /\ saved.saved.token = a.saved.token
  BY <1>1, <1>3 DEF Members, Settings, Users
<1>5. /\ token \in Members /\ token.devices = d /\ token.queue = a.queue
      /\ token.running = a.running /\ token.state = a.state
      /\ token.saved.token
  BY <1>1, <1>3 DEF Members, Settings, Users
<1> HIDE DEF saved, token
<1>6. Sound(saved) /\ Sound(token)
  BY <1>4, <1>5 DEF Sound, Served
<1>7. \A name, key : /\ Pending(saved, name, key) <=> Pending(a, name, key)
                     /\ Pending(token, name, key) <=> Pending(a, name, key)
  BY <1>4, <1>5 DEF Pending
<1>. QED  BY <1>1, <1>2, <1>4, <1>5, <1>6, <1>7 DEF saved, token

\* accountChecked()
LEMMA AccountCheckedHandles ==
    ASSUME NEW a, Sound(a), NEW json \in Accounts
    PROVE  Handles(a, AccountChecked(a, json))
<1> DEFINE known == [a EXCEPT !.user = UserFromJson(json),
                              !.devices = DevicesFromJson(@, json)]
           saved == [known EXCEPT !.saved.user = known.user,
                                  !.saved.devices = known.devices.json]
           r == MaybeStateMain(saved)
<1>1. /\ Sound(saved) /\ saved.state = a.state /\ saved.saved.token = a.saved.token
      /\ saved.devices.removed \subseteq a.devices.removed
      /\ \A name, key : Pending(saved, name, key) <=> Pending(a, name, key)
  BY KnownFacts
<1>2. AccountChecked(a, json) = IF a.state = "Main" /\ saved.user = "needed" THEN r ELSE saved
  BY DEF AccountChecked
<1> HIDE DEF saved
<1>3. Handles(a, saved)
  BY <1>1 DEF Handles, RemovalsGoOn, TokenOK
<1>4. ASSUME a.state = "Main", saved.user = "needed"
      PROVE  Handles(a, r)
  <2>1. /\ Sound(r) /\ RemovalsGoOn(saved, r) /\ r.devices = saved.devices
        /\ r.state = "Main" => Ready(r)
        /\ saved.saved.token => TokenOK(r)
        /\ saved.saved.token /\ ~r.saved.token => Quiet(r) \/ Wipes(saved)
    BY <1>1, MaybeStateMainFacts
  <2> HIDE DEF r
  <2>2. ~Wipes(saved)
    BY <1>4 DEF Wipes
  <2>3. TokenOK(a) => a.saved.token
    BY <1>4 DEF TokenOK, SignedIn
  <2>. QED  BY <1>1, <2>1, <2>2, <2>3 DEF Handles, RemovalsGoOn
<1>. QED  BY <1>2, <1>3, <1>4

\* completeActivation(), with a token: the functions it schedules have one.
LEMMA CompleteActivationFacts ==
    ASSUME NEW a, Sound(a), a.saved.token
    PROVE  LET r == CompleteActivation(a)
           IN  /\ Sound(r) /\ RemovalsGoOn(a, r) /\ r.devices = a.devices
               /\ r.saved.token
               /\ r.state = "Main" => a.state = "Main" \/ Ready(r)
<1> DEFINE own == a.devices.own
           removed == own # NoKey /\ own # a.keys
           removing == IF removed THEN ScheduleTask(a, RemoveDeviceTask(own)) ELSE a
           fetching == IF own # NoKey /\ ~removed THEN ScheduleRefreshDataTasks(a)
                       ELSE AddCurrentDeviceAndRefreshData(removing)
           s == ScheduleTask(fetching, Task("MaybeStateMain"))
           m == MaybeStateMain(a)
<1>1. own \in PublicKeys
  BY DEF Sound, Members, Devices
<1>2. Schedules(a, removing)
  <2>1. RemoveDeviceTask(own) \in Waiting /\ RemoveDeviceTask(own).name = "RemoveDevice"
    BY <1>1, TasksWait
  <2>. QED  BY <2>1, ScheduleTaskSchedules, SchedulesReflexive DEF Sound
<1>3. CompleteActivation(a) = IF own = NoKey /\ ActiveDevices(a) >= MaxDevices THEN m ELSE s
  BY DEF CompleteActivation
<1> HIDE DEF removing
<1>4. Schedules(a, AddCurrentDeviceAndRefreshData(removing))
  BY <1>2, ScheduleRefreshSchedules, SchedulesTransitive DEF Schedules, Sound
<1>5. Schedules(a, fetching)
  BY <1>4, ScheduleRefreshSchedules DEF Sound
<1> HIDE DEF fetching
<1>6. /\ Sound(s) /\ SameApp(fetching, s) /\ RemovalsGoOn(fetching, s)
  <2>1. Task("MaybeStateMain") \in Waiting
    BY TasksWait DEF TaskNames, Functions
  <2>. QED  BY <1>5, <2>1, ScheduleTaskFacts DEF Schedules, Sound, RemovalsGoOn
<1> HIDE DEF s
<1>7. /\ Sound(s) /\ RemovalsGoOn(a, s) /\ s.devices = a.devices /\ s.saved.token
      /\ s.state = a.state
  BY <1>5, <1>6 DEF Schedules, SameApp, RemovalsGoOn
<1>8. ASSUME own = NoKey
      PROVE  /\ Sound(m) /\ RemovalsGoOn(a, m) /\ m.devices = a.devices
             /\ m.saved.token /\ (m.state = "Main" => Ready(m))
  <2>1. ~HasCurrentDevice(a)
    BY <1>8 DEF HasCurrentDevice
  <2>. QED  BY <2>1, MaybeStateMainFacts
<1> HIDE DEF m
<1>. QED  BY <1>3, <1>7, <1>8

\* completeAuthentication()
LEMMA CompleteAuthenticationHandles ==
    ASSUME NEW a, Sound(a), NEW json \in Accounts
    PROVE  Handles(a, CompleteAuthentication(a, json))
<1> DEFINE known == [a EXCEPT !.user = UserFromJson(json),
                              !.devices = DevicesFromJson(@, json)]
           saved == [known EXCEPT !.saved.user = known.user,
                                  !.saved.devices = known.devices.json,
                                  !.saved.token = TRUE]
           b == [saved EXCEPT !.purchase = FALSE]
           m == MaybeStateMain(saved)
           c == CompleteActivation(b)
<1>1. /\ Sound(saved) /\ saved.state = a.state /\ saved.saved.token
      /\ saved.devices.removed \subseteq a.devices.removed
      /\ \A name, key : Pending(saved, name, key) <=> Pending(a, name, key)
  BY KnownFacts
<1>2. CompleteAuthentication(a, json) = IF saved.user = "needed" THEN m ELSE c
  BY DEF CompleteAuthentication
<1> HIDE DEF saved
<1>3. ASSUME saved.user = "needed"
      PROVE  Handles(a, m)
  <2>1. /\ Sound(m) /\ RemovalsGoOn(saved, m) /\ m.devices = saved.devices
        /\ m.state = "Main" => Ready(m)
        /\ saved.saved.token => TokenOK(m)
        /\ saved.saved.token /\ ~m.saved.token => Quiet(m) \/ Wipes(saved)
    BY <1>1, MaybeStateMainFacts
  <2>2. ~Wipes(saved)
    BY <1>3 DEF Wipes
  <2> HIDE DEF m
  <2>. QED  BY <1>1, <2>1, <2>2 DEF Handles, RemovalsGoOn
<1>4. /\ b \in Members /\ b.queue = saved.queue /\ b.running = saved.running
      /\ b.state = saved.state /\ b.saved = saved.saved /\ b.devices = saved.devices
  BY <1>1 DEF Sound, Members
<1> HIDE DEF b
<1>5. Sound(b) /\ (\A name, key : Pending(b, name, key) <=> Pending(a, name, key))
  BY <1>1, <1>4 DEF Sound, Served, Pending
<1>6. /\ Sound(c) /\ RemovalsGoOn(b, c) /\ c.devices = b.devices /\ c.saved.token
      /\ c.state = "Main" => b.state = "Main" \/ Ready(c)
  BY <1>1, <1>4, <1>5, CompleteActivationFacts
<1> HIDE DEF c
<1>7. Handles(a, c)
  BY <1>1, <1>4, <1>5, <1>6 DEF Handles, RemovalsGoOn, TokenOK
<1>. QED  BY <1>2, <1>3, <1>7

\* A change of members that no task, view or removal depends on.
LEMMA MemberHandles ==
    ASSUME NEW a, Sound(a), NEW r \in Members, r.queue = a.queue, r.running = a.running,
           r.devices.removed \subseteq a.devices.removed, r.state = a.state,
           r.saved.token = a.saved.token
    PROVE  Handles(a, r)
<1>1. \A name, key : Pending(r, name, key) <=> Pending(a, name, key)
  BY DEF Pending
<1>. QED  BY <1>1 DEF Handles, Sound, Served, RemovalsGoOn, TokenOK

\* A description that does not parse.
LEMMA MalformedHandles ==
    ASSUME NEW a, Sound(a), NEW json \in Accounts, NEW r \in Malformed(a, json)
    PROVE  /\ Handles(a, r)
           /\ r.state = a.state /\ r.saved = a.saved
<1>1. ASSUME r = [a EXCEPT !.user = UserForgotten(@)]
      PROVE  /\ r \in Members /\ r.queue = a.queue /\ r.running = a.running
             /\ r.devices.removed \subseteq a.devices.removed
             /\ r.state = a.state /\ r.saved = a.saved
  <2>1. UserForgotten(a.user) \in Users
    BY DEF UserForgotten, Users
  <2>. QED  BY <1>1, <2>1 DEF Sound, Members
<1>2. ASSUME NEW read,
             r = [a EXCEPT !.user = UserFromJson(json),
                           !.devices = BrokenDevices(@, json, read)]
      PROVE  /\ r \in Members /\ r.queue = a.queue /\ r.running = a.running
             /\ r.devices.removed \subseteq a.devices.removed
             /\ r.state = a.state /\ r.saved = a.saved
  <2> DEFINE u == UserFromJson(json)
             d == BrokenDevices(a.devices, json, read)
  <2>1. u \in Users
    BY UserFromJsonFacts
  <2>2. NoAccount \in Accounts
    BY DEF NoAccount, Accounts
  <2>3. d \in Devices /\ d.removed \subseteq a.devices.removed
    BY <2>2 DEF BrokenDevices, Devices, Accounts, PublicKeys, Sound, Members
  <2>4. r = [a EXCEPT !.user = u, !.devices = d]
    BY <1>2
  <2> HIDE DEF u, d
  <2>. QED  BY <2>1, <2>3, <2>4 DEF Sound, Members
<1>3. /\ r \in Members /\ r.queue = a.queue /\ r.running = a.running
      /\ r.devices.removed \subseteq a.devices.removed
      /\ r.state = a.state /\ r.saved = a.saved
  BY <1>1, <1>2 DEF Malformed
<1>. QED  BY <1>3, MemberHandles

LEMMA ServersFetchedHandles ==
    ASSUME NEW a, Sound(a)
    PROVE  Handles(a, ServersFetched(a))
<1> DEFINE r == ServersFetched(a)
<1>1. /\ r \in Members /\ r.queue = a.queue /\ r.running = a.running
      /\ r.devices = a.devices /\ r.state = a.state /\ r.saved.token = a.saved.token
  BY DEF ServersFetched, Sound, Members, Settings
<1> HIDE DEF r
<1>2. Handles(a, r)
  BY <1>1, MemberHandles
<1>. QED  BY <1>2 DEF r

LEMMA DeviceAddedHandles ==
    ASSUME NEW a, Sound(a), NEW key \in Keys
    PROVE  Handles(a, DeviceAdded(a, key))
<1> DEFINE r == DeviceAdded(a, key)
<1>1. /\ r \in Members /\ r.queue = a.queue /\ r.running = a.running
      /\ r.devices = a.devices /\ r.state = a.state /\ r.saved.token = a.saved.token
  BY DEF DeviceAdded, Sound, Members, Settings, PublicKeys
<1> HIDE DEF r
<1>2. Handles(a, r)
  BY <1>1, MemberHandles
<1>. QED  BY <1>2 DEF r

\* removeDevice(): a task of its own follows in the view of the limit.
LEMMA RemoveDeviceHandles ==
    ASSUME NEW a, Sound(a), NEW key
    PROVE  Handles(a, RemoveDevice(a, key))
<1> DEFINE gone == [a EXCEPT !.devices.removed = @ \ {key},
                             !.devices.others = @ \ {key},
                             !.devices.own = IF @ = key THEN NoKey ELSE @]
           b == AddCurrentDeviceAndRefreshData(gone)
           c == ScheduleTask(b, Task("RecoverFromLimit"))
<1>1. /\ gone \in Members /\ gone.queue = a.queue /\ gone.running = a.running
      /\ gone.devices.removed \subseteq a.devices.removed /\ gone.state = a.state
      /\ gone.saved = a.saved
  BY DEF Sound, Members, Devices, PublicKeys
<1>2. RemoveDevice(a, key) = IF a.state # "DeviceLimit" THEN gone ELSE c
  BY DEF RemoveDevice
<1> HIDE DEF gone
<1>3. Handles(a, gone)
  BY <1>1, MemberHandles
<1>4. Schedules(gone, b)
  BY <1>1, ScheduleRefreshSchedules
<1> HIDE DEF b
<1>5. Schedules(b, c)
  BY <1>4, ScheduleNamed DEF Schedules, Sound, TaskNames, Functions
<1> HIDE DEF c
<1>6. Handles(a, c)
  BY <1>3, <1>4, <1>5, SchedulesTransitive, SchedulesKeeps, HandlesKeeps
<1>. QED  BY <1>2, <1>3, <1>6

\* stopDeviceRemovalFromPublicKey(): the device is hidden no longer.
LEMMA StopDeviceRemovalFacts ==
    ASSUME NEW a, Sound(a), NEW key \in PublicKeys \cup Others
    PROVE  /\ Handles(a, StopDeviceRemoval(a, key))
           /\ key \notin StopDeviceRemoval(a, key).devices.removed
           /\ StopDeviceRemoval(a, key).state = a.state
           /\ StopDeviceRemoval(a, key).saved = a.saved
           /\ StopDeviceRemoval(a, key).user = a.user
           /\ StopDeviceRemoval(a, key).servers = a.servers
           /\ HasCurrentDevice(StopDeviceRemoval(a, key)) <=> HasCurrentDevice(a)
<1> DEFINE r == [a EXCEPT !.devices.removed = @ \ {key}, !.devices.others = @ \cup {key}]
<1>1. CASE key \notin a.devices.removed
  BY <1>1, HandlesReflexive DEF StopDeviceRemoval
<1>2. CASE key \in a.devices.removed
  <2>1. key \in Others
    BY <1>2 DEF Sound, Members, Devices
  <2>2. /\ r \in Members /\ r.queue = a.queue /\ r.running = a.running
        /\ r.devices.removed = a.devices.removed \ {key} /\ r.state = a.state
        /\ r.saved = a.saved /\ r.user = a.user /\ r.servers = a.servers
        /\ r.keys = a.keys /\ r.devices.own = a.devices.own
    BY <2>1 DEF Sound, Members, Devices
  <2>3. StopDeviceRemoval(a, key) = r
    BY <1>2 DEF StopDeviceRemoval
  <2> HIDE DEF r
  <2>4. Handles(a, r)
    BY <2>2, MemberHandles
  <2>. QED  BY <2>2, <2>3, <2>4 DEF HasCurrentDevice
<1>. QED  BY <1>1, <1>2

LEMMA SetStateHandles ==
    ASSUME NEW a, Sound(a), NEW state \in AppStates \ {"Main"},
           state \in SignedIn => a.saved.token
    PROVE  Handles(a, SetState(a, state))
<1> DEFINE r == SetState(a, state)
<1>1. /\ Sound(r) /\ RemovalsGoOn(a, r) /\ r.state = state /\ r.devices = a.devices
      /\ r.saved = a.saved
  BY SetStateFacts
<1> HIDE DEF r
<1>2. Handles(a, r)
  BY <1>1 DEF Handles, TokenOK
<1>. QED  BY <1>2 DEF r

\* A method that starts with a Keeps.
LEMMA KeepsThenHandles ==
    ASSUME NEW a, NEW b, NEW r, Keeps(a, b), Handles(b, r)
    PROVE  Handles(a, r)
BY DEF Keeps, Handles, RemovalsGoOn, TokenOK

\* heartbeatCompleted(): the way back to the views is for clients with a token.
LEMMA HeartbeatCompletedHandles ==
    ASSUME NEW a, Sound(a), NEW success \in BOOLEAN
    PROVE  Handles(a, HeartbeatCompleted(a, success))
<1> DEFINE b == DeleteTasks(a)
           m == MaybeStateMain(a)
<1>1. Handles(a, SetState(b, "HeartbeatFailure"))
  <2>1. Keeps(a, b)
    BY DeleteTasksSchedules, SchedulesKeeps DEF Sound
  <2> HIDE DEF b
  <2>2. Handles(b, SetState(b, "HeartbeatFailure"))
    BY <2>1, SetStateHandles DEF Keeps, AppStates, SignedIn
  <2>. QED  BY <2>1, <2>2, KeepsThenHandles
<1>2. Handles(a, a) /\ Handles(a, SetState(a, "Initialize"))
  BY HandlesReflexive, SetStateHandles DEF AppStates, SignedIn
<1>3. ASSUME ModelsInitialized(a), UserAuthenticated(a)
      PROVE  Handles(a, m)
  <2>1. /\ Sound(m) /\ RemovalsGoOn(a, m) /\ m.devices = a.devices
        /\ m.state = "Main" => Ready(m)
        /\ a.saved.token => TokenOK(m)
        /\ a.saved.token /\ ~m.saved.token => Quiet(m) \/ Wipes(a)
    BY MaybeStateMainFacts
  <2> HIDE DEF m
  <2>2. ~Wipes(a) /\ a.saved.token
    BY <1>3 DEF Wipes, UserAuthenticated
  <2>. QED  BY <2>1, <2>2 DEF Handles
<1>. QED  BY <1>1, <1>2, <1>3 DEF HeartbeatCompleted

\* activate()
LEMMA ActivateVpnSchedules ==
    ASSUME NEW a \in Members
    PROVE  Schedules(a, ActivateVpn(a))
<1> DEFINE b == DeleteTasks(a)
           c == MaybeRegenerateDeviceKey(b)
           d == ScheduleTask(c, Task("Activate"))
<1>1. Schedules(a, b)
  BY DeleteTasksSchedules
<1> HIDE DEF b
<1>2. Schedules(b, c)
  BY <1>1, MaybeRegenerateSchedules DEF Schedules
<1> HIDE DEF c
<1>3. Schedules(c, d)
  BY <1>2, ScheduleNamed DEF Schedules, Sound, TaskNames, ControllerActions
<1> HIDE DEF d
<1>4. Schedules(a, d)
  BY <1>1, <1>2, <1>3, SchedulesTransitive
<1>. QED  BY <1>4 DEF ActivateVpn, b, c, d

\* Two members with the same queue, and the same task running.
LEMMA SamePending ==
    ASSUME NEW a, NEW b, b.queue = a.queue, b.running.name = a.running.name,
           b.running.key = a.running.key
    PROVE  \A name, key : Pending(b, name, key) <=> Pending(a, name, key)
<1>1. \A x, name, key : Pending(x, name, key) <=>
          \/ \E t \in Range(x.queue) : t.name = name /\ t.key = key
          \/ x.running.name = name /\ x.running.key = key
  BY DEF Pending
<1>. QED  BY <1>1

\* controllerStateChanged()
LEMMA ControllerStateChangedKeeps ==
    ASSUME NEW a, Sound(a), NEW controller \in ControllerStates
    PROVE  Keeps(a, ControllerStateChanged(a, controller))
<1> DEFINE p == a.running.posted \/ a.running.name \in ControllerActions
           b == [a EXCEPT !.controller = controller, !.controllerInitialized = TRUE,
                          !.running.posted = p]
           c == ActivateVpn(b)
<1>1. a.running \in Running
  BY DEF Sound, Members
<1>2. LET t == [a.running EXCEPT !.posted = p]
      IN  /\ t \in Running /\ t.name = a.running.name /\ t.key = a.running.key
          /\ t = NoTask <=> a.running = NoTask
  <2> DEFINE t == [a.running EXCEPT !.posted = p]
  <2>1. CASE a.running.name = "None"
    <3>1. a.running = NoTask
      BY <1>1, <2>1 DEF Running
    <3>2. a.running.posted = FALSE /\ a.running.name \notin ControllerActions
      BY <2>1, <3>1 DEF NoTask, Task, ControllerActions
    <3>3. p = FALSE
      BY <3>2
    <3> HIDE DEF p
    <3>4. t = a.running
      BY <1>1, <3>2, <3>3 DEF Running, AnyTask
    <3>. QED  BY <1>1, <3>1, <3>4
  <2>2. CASE a.running.name # "None"
    <3>1. p \in BOOLEAN /\ (p => a.running.name \in ControllerActions)
      BY <1>1 DEF Running, AnyTask
    <3> HIDE DEF p
    <3>2. t \in AnyTask /\ t.name = a.running.name /\ t.key = a.running.key /\ t.posted = p
      BY <1>1, <3>1 DEF Running, AnyTask
    <3> HIDE DEF t
    <3>3. t # NoTask /\ a.running # NoTask
      BY <2>2, <3>2, NoTaskFields
    <3>4. t \in Running
      BY <2>2, <3>1, <3>2 DEF Running
    <3>. QED  BY <3>2, <3>3, <3>4 DEF t
  <2>. QED  BY <2>1, <2>2
<1> HIDE DEF p
<1>3. /\ b \in Members /\ b.queue = a.queue /\ b.state = a.state /\ b.user = a.user
      /\ b.keys = a.keys /\ b.devices = a.devices /\ b.servers = a.servers
      /\ b.saved = a.saved /\ b.running = [a.running EXCEPT !.posted = p]
  BY <1>2 DEF Sound, Members
<1>. /\ b.running.name = a.running.name /\ b.running.key = a.running.key
     /\ b.running = NoTask <=> a.running = NoTask
  BY <1>2, <1>3
<1>4. ControllerStateChanged(a, controller) =
         IF ~a.controllerInitialized /\ StartAtBoot THEN c ELSE b
  BY DEF ControllerStateChanged, p
<1> HIDE DEF b
<1>5. Sound(b) /\ (\A name, key : Pending(b, name, key) <=> Pending(a, name, key))
  <2>1. Sound(b)
    BY <1>3 DEF Sound, Served
  <2>2. \A name, key : Pending(b, name, key) <=> Pending(a, name, key)
    BY <1>3, SamePending
  <2>. QED  BY <2>1, <2>2
<1>6. Keeps(a, b)
  BY <1>3, <1>5 DEF Keeps, RemovalsGoOn, Quiet
<1>7. Schedules(b, c)
  BY <1>3, ActivateVpnSchedules
<1> HIDE DEF c
<1>8. Keeps(a, c)
  BY <1>6, <1>7 DEF Keeps, Schedules, SameApp, RemovalsGoOn
<1>. QED  BY <1>4, <1>6, <1>8

-----------------------------------------------------------------------------
\* start-up

LEMMA ConstructedFacts ==
    ASSUME NEW saved \in Settings, NEW onboarded \in BOOLEAN
    PROVE  LET a == Constructed(saved, onboarded)
           IN  /\ a \in Members /\ Quiet(a) /\ a.saved = saved /\ a.state = "Initialize"
               /\ a.devices = NoDevices
<1> DEFINE a == Constructed(saved, onboarded)
<1>1. NoDevices \in Devices
  BY DEF NoDevices, Devices, NoAccount, Accounts, PublicKeys
<1>2. NoTask \in Running /\ <<>> \in Seq(Waiting) /\ NoKey \in PublicKeys
  BY NoTaskFields DEF PublicKeys
<1>3. a \in Members
  BY <1>1, <1>2 DEF Constructed, Members, AppStates, Users, ControllerStates
<1>4. a.queue = <<>> /\ a.running = NoTask /\ a.saved = saved /\ a.state = "Initialize"
      /\ a.devices = NoDevices
  BY DEF Constructed
<1> HIDE DEF a
<1>5. Quiet(a)
  <2>1. Range(a.queue) = {}
    BY <1>4 DEF Range
  <2>. QED  BY <1>4, <2>1, NoTaskFields DEF Quiet, Pending
<1>. QED  BY <1>3, <1>4, <1>5 DEF a

\* initialize(): a signed-in view only with a token, the main view with its models,
\* and no function without a token.
LEMMA InitializedFacts ==
    ASSUME NEW saved \in Settings, NEW onboarded \in BOOLEAN
    PROVE  LET r == Initialized(Constructed(saved, onboarded))
           IN  /\ Sound(r) /\ r.devices.removed = {}
               /\ r.state = "Main" => Ready(r)
               /\ TokenOK(r)
               /\ saved.token /\ ~r.saved.token => Quiet(r)
<1> DEFINE a == Constructed(saved, onboarded)
           g == GroupTask({"AddonIndex"}, {})
           started == ScheduleTask(a, g)
           user == [started EXCEPT !.user = saved.user]
           keys == [user EXCEPT !.keys = saved.keys]
           servers == [keys EXCEPT !.servers = saved.servers]
           d == DevicesFromJson(NoDevices, saved.devices)
           devices == [servers EXCEPT !.devices = d]
           chosen == [devices EXCEPT !.serverData = TRUE, !.saved.serverData = TRUE]
           forget(b) == [b EXCEPT !.saved = NoSettings]
           needed == ScheduleTask(SetState(user, "Authenticating"), Task("MaybeStateMain"))
           main == MaybeStateMain(ScheduleRefreshDataTasks(chosen))
           Facts(r) == /\ Sound(r) /\ r.devices.removed = {}
                       /\ r.state = "Main" => Ready(r)
                       /\ TokenOK(r)
                       /\ saved.token /\ ~r.saved.token => Quiet(r)
           Like(r) == /\ r \in Members /\ r.queue = started.queue
                      /\ r.running = started.running
                      /\ r.state = "Initialize" /\ r.devices.removed = {}
<1>1. /\ a \in Members /\ Quiet(a) /\ a.saved = saved /\ a.state = "Initialize"
      /\ a.devices = NoDevices
  BY ConstructedFacts
<1>2. Initialized(a) = IF ~saved.token \/ saved.user = "none" THEN started
                       ELSE IF saved.user = "needed" THEN needed
                       ELSE IF saved.keys = NoKey THEN forget(user)
                       ELSE IF ~saved.servers THEN forget(keys)
                       ELSE IF ~saved.devices.known THEN forget(servers)
                       ELSE IF ~ModelsInitialized(devices) THEN forget(devices)
                       ELSE main
  BY <1>1 DEF Initialized
<1> HIDE DEF a
<1>3. g \in Waiting /\ g.name = "Group"
  BY TasksWait DEF Subtasks
<1> HIDE DEF g
<1>4. Schedules(a, started) /\ Quiet(started)
  <2>1. Schedules(a, started)
    BY <1>1, <1>3, ScheduleTaskSchedules
  <2>. QED  BY <1>1, <2>1 DEF Schedules
<1> HIDE DEF started
<1>5. /\ started \in Members /\ Served(started) /\ started.saved = saved
      /\ started.state = "Initialize" /\ started.devices.removed = {}
  BY <1>1, <1>4 DEF Schedules, Sound, SameApp, NoDevices
<1>6. /\ saved.user \in Users /\ saved.keys \in PublicKeys /\ saved.servers \in BOOLEAN
      /\ saved.devices \in Accounts /\ saved.token \in BOOLEAN
  BY DEF Settings, Users, PublicKeys
<1>7. d \in Devices /\ d.removed = {}
  <2>1. NoDevices \in Devices /\ NoDevices.removed = {}
    BY DEF NoDevices, Devices, NoAccount, Accounts, PublicKeys
  <2>. QED  BY <1>6, <2>1, DevicesFromJsonFacts
<1>8. Like(user) /\ user.saved = saved
  BY <1>5, <1>6 DEF Members
<1> HIDE DEF d, user
<1>9. Like(keys) /\ keys.saved = saved
  BY <1>6, <1>8 DEF Members
<1> HIDE DEF keys
<1>10. Like(servers) /\ servers.saved = saved
  BY <1>6, <1>9 DEF Members
<1> HIDE DEF servers
<1>11. Like(devices) /\ devices.saved = saved
  BY <1>7, <1>10 DEF Members
<1> HIDE DEF devices
<1>12. Like(chosen) /\ chosen.saved.token = saved.token
  BY <1>11 DEF Members, Settings
<1> HIDE DEF chosen
<1>13. ASSUME NEW r, Like(r) PROVE Sound(r) /\ Quiet(r)
  BY <1>4, <1>5, <1>13 DEF Sound, Served, Quiet, Pending
<1>14. ASSUME NEW b, Like(b) PROVE Facts(forget(b))
  <2>1. NoSettings \in Settings
    BY DEF NoSettings, Settings, Accounts, NoAccount
  <2>2. Like(forget(b))
    BY <1>14, <2>1 DEF Members
  <2> HIDE DEF forget, Like
  <2>3. Sound(forget(b)) /\ Quiet(forget(b))
    BY <1>13, <2>2
  <2>. QED  BY <2>2, <2>3 DEF TokenOK, SignedIn, Like
<1>15. ASSUME ~saved.token \/ saved.user = "none" PROVE Facts(started)
  BY <1>4, <1>5, <1>15 DEF TokenOK, SignedIn, Sound
<1>16. ASSUME saved.token PROVE Facts(needed)
  <2> DEFINE b == SetState(user, "Authenticating")
             t == Task("MaybeStateMain")
  <2>1. Sound(user)
    BY <1>8, <1>13
  <2>2. /\ Sound(b) /\ b.state = "Authenticating" /\ b.devices = user.devices
        /\ b.saved = user.saved
    BY <2>1, SetStateFacts DEF AppStates
  <2>3. t \in Waiting
    BY TasksWait DEF TaskNames, Functions
  <2> HIDE DEF b, t
  <2>4. Sound(needed) /\ SameApp(b, needed)
    BY <2>2, <2>3, ScheduleTaskFacts DEF Sound, b, t
  <2> HIDE DEF needed
  <2>. QED  BY <1>8, <1>16, <2>2, <2>4 DEF SameApp, TokenOK, SignedIn
<1>17. ASSUME saved.token PROVE Facts(main)
  <2> DEFINE b == ScheduleRefreshDataTasks(chosen)
  <2>1. Sound(chosen) /\ Quiet(chosen)
    BY <1>12, <1>13
  <2>2. Schedules(chosen, b)
    BY <2>1, ScheduleRefreshSchedules DEF Sound
  <2> HIDE DEF b
  <2>3. Sound(b) /\ Quiet(b) /\ b.devices.removed = {} /\ b.saved.token
    BY <1>12, <1>17, <2>1, <2>2 DEF Schedules, SameApp
  <2>4. main = MaybeStateMain(b)
    BY DEF b
  <2> HIDE DEF main
  <2>5. /\ Sound(main) /\ (Quiet(b) => Quiet(main)) /\ main.devices = b.devices
        /\ main.state = "Main" => Ready(main)
        /\ b.saved.token => TokenOK(main)
    BY <2>3, <2>4, MaybeStateMainFacts
  <2>. QED  BY <2>3, <2>5
<1> HIDE DEF needed, main
<1>18. Facts(Initialized(a))
  <2> HIDE DEF Facts, forget, Like
  <2>. QED  BY <1>2, <1>6, <1>8, <1>9, <1>10, <1>11, <1>14, <1>15, <1>16, <1>17
<1>. QED  BY <1>18 DEF a

-----------------------------------------------------------------------------
\* The ends of tasks.

\* completed() of the task that runs.
LEMMA TaskCompletedSchedules ==
    ASSUME NEW a, Sound(a), NEW t, t.name # "RemoveDevice"
    PROVE  Schedules(a, TaskCompleted(a, t))
<1> DEFINE r == TaskCompleted(a, t)
<1>1. /\ Sound(r) /\ SameApp(a, r)
      /\ \A name, key : name # "None" /\ Pending(r, name, key) => Pending(a, name, key)
      /\ \A name, key : /\ name # "None" /\ Pending(a, name, key)
                        /\ ~(t.name = name /\ t.key = key)
                        => Pending(r, name, key)
  BY TaskCompletedFacts
<1> HIDE DEF r
<1>2. RemovalsGoOn(a, r)
  BY <1>1 DEF RemovalsGoOn
<1>3. Quiet(a) => Quiet(r)
  BY <1>1 DEF Quiet
<1>4. Schedules(a, r)
  BY <1>1, <1>2, <1>3 DEF Schedules
<1>. QED  BY <1>4 DEF r

\* A group that goes on with the subtasks left.
LEMMA SubtaskFacts ==
    ASSUME NEW a, Sound(a), NEW left \in SUBSET a.running.subtasks, left # {}
    PROVE  Schedules(a, [a EXCEPT !.running.subtasks = left])
<1> DEFINE t == [a.running EXCEPT !.subtasks = left]
           r == [a EXCEPT !.running.subtasks = left]
<1>1. a.running \in Running /\ a \in Members
  BY DEF Sound, Members
<1>2. a.running \in AnyTask /\ left \in SUBSET Subtasks
  BY <1>1 DEF Running, AnyTask
<1>3. a.running.name # "None"
  <2>1. NoTask.subtasks = {}
    BY DEF NoTask, Task
  <2>. QED  BY <1>1, <2>1 DEF Running
<1>4. /\ t \in AnyTask /\ t.name = a.running.name /\ t.key = a.running.key
      /\ t.posted = a.running.posted
  BY <1>2 DEF AnyTask
<1>5. r.running = t
  BY <1>1 DEF Members
<1> HIDE DEF t
<1>6. t \in Running /\ t # NoTask
  BY <1>1, <1>3, <1>4, NoTaskFields DEF Running
<1>7. r \in Members /\ SameApp(a, r) /\ r.queue = a.queue
  BY <1>1, <1>5, <1>6 DEF Members, SameApp, t
<1> HIDE DEF r
<1>8. \A name, key : Pending(r, name, key) <=> Pending(a, name, key)
  BY <1>4, <1>5, <1>7, SamePending
<1>9. Schedules(a, r)
  BY <1>5, <1>6, <1>7, <1>8 DEF Schedules, Sound, Served, RemovalsGoOn, Quiet
<1>. QED  BY <1>9 DEF r

\* The end of a task or of a subtask after its handler.
LEMMA DoneHandles ==
    ASSUME Sound(vpn), NEW a, Handles(vpn, a), NEW name,
           vpn.running.name # "RemoveDevice"
    PROVE  Handles(vpn, Done(a, name))
<1> DEFINE left == vpn.running.subtasks \ {name}
           t == TaskCompleted(a, a.running)
           g == [a EXCEPT !.running.subtasks = left]
<1>0. Sound(a)
  BY DEF Handles
<1>1. ASSUME a.running = vpn.running PROVE Schedules(a, t)
  BY <1>0, <1>1, TaskCompletedSchedules
<1>2. ASSUME a.running = vpn.running, left # {} PROVE Schedules(a, g)
  <2>1. left \in SUBSET a.running.subtasks
    BY <1>2
  <2> HIDE DEF left
  <2>. QED  BY <1>0, <1>2, <2>1, SubtaskFacts
<1>3. Done(a, name) = IF a.running # vpn.running THEN a ELSE IF left = {} THEN t ELSE g
  BY DEF Done
<1> HIDE DEF t, g
<1>. QED  BY <1>1, <1>2, <1>3, SchedulesKeeps, HandlesKeeps

LEMMA DoneReflexive ==
    ASSUME Sound(vpn), NEW name, vpn.running.name # "RemoveDevice"
    PROVE  Handles(vpn, Done(vpn, name))
BY HandlesReflexive, DoneHandles

\* A running task, or subtask, that does not remove a device.
LEMMA DoingNoRemoval ==
    ASSUME NEW name, Doing(name), name # "RemoveDevice"
    PROVE  vpn.running.name # "RemoveDevice"
BY DEF Doing

\* The devices that the list hides are being removed.
Tracked(a) == \A key \in a.devices.removed : Pending(a, "RemoveDevice", key)

\* A step: what the theorems need of it.
Moves(a, r) ==
    /\ Sound(r)
    /\ Tracked(a) => Tracked(r)
    /\ r.state = "Main" => a.state = "Main" \/ Ready(r)
    /\ TokenOK(a) => TokenOK(r)
    /\ a.saved.token /\ ~r.saved.token => Quiet(r)

LEMMA HandlesMoves ==
    ASSUME NEW a, NEW r, Handles(a, r)
    PROVE  Moves(a, r)
BY DEF Handles, Moves, Tracked, RemovalsGoOn

\* The end of the removal of a device, with the destructor of its task.
LEMMA RemovalEnds ==
    ASSUME Sound(vpn), vpn.running.name = "RemoveDevice", NEW a, Handles(vpn, a)
    PROVE  Moves(vpn, StopDeviceRemoval(Done(a, "RemoveDevice"), vpn.running.key))
<1> DEFINE key == vpn.running.key
           left == vpn.running.subtasks \ {"RemoveDevice"}
           t == TaskCompleted(a, a.running)
           g == [a EXCEPT !.running.subtasks = left]
           d == Done(a, "RemoveDevice")
           r == StopDeviceRemoval(d, key)
           Ends(x) == /\ Sound(x) /\ SameApp(a, x) /\ (Quiet(a) => Quiet(x))
                      /\ \A k : k # key /\ Pending(a, "RemoveDevice", k)
                                => Pending(x, "RemoveDevice", k)
<1>0. Sound(a)
  BY DEF Handles
<1>1. Ends(a)
  BY <1>0 DEF SameApp
<1>2. ASSUME a.running = vpn.running PROVE Ends(t)
  <2>1. /\ Sound(t) /\ SameApp(a, t)
        /\ \A n, k : n # "None" /\ Pending(t, n, k) => Pending(a, n, k)
        /\ \A n, k : /\ n # "None" /\ Pending(a, n, k)
                     /\ ~(a.running.name = n /\ a.running.key = k)
                     => Pending(t, n, k)
    BY <1>0, TaskCompletedFacts
  <2> HIDE DEF t
  <2>. QED  BY <1>2, <2>1 DEF Quiet
<1>3. ASSUME a.running = vpn.running, left # {} PROVE Ends(g)
  <2>1. left \in SUBSET a.running.subtasks
    BY <1>3
  <2> HIDE DEF left
  <2>2. Schedules(a, g)
    BY <1>0, <1>3, <2>1, SubtaskFacts
  <2> HIDE DEF g
  <2>. QED  BY <2>2 DEF Schedules, RemovalsGoOn
<1>4. d = IF a.running # vpn.running THEN a ELSE IF left = {} THEN t ELSE g
  BY DEF Done
<1> HIDE DEF t, g, d
<1>5. Ends(d)
  <2> HIDE DEF Ends
  <2>. QED  BY <1>1, <1>2, <1>3, <1>4
<1>6. key \in PublicKeys \cup Others
  BY DEF Sound, Members, Running, AnyTask
<1> HIDE DEF key
<1>7. /\ Handles(d, r) /\ key \notin r.devices.removed /\ r.state = d.state
      /\ r.saved = d.saved /\ r.user = d.user /\ r.servers = d.servers
      /\ HasCurrentDevice(r) <=> HasCurrentDevice(d)
  BY <1>5, <1>6, StopDeviceRemovalFacts
<1> HIDE DEF r
<1>8. Tracked(vpn) => Tracked(r)
  <2>1. ASSUME Tracked(vpn), NEW k \in r.devices.removed
        PROVE  Pending(r, "RemoveDevice", k)
    <3>1. k # key /\ k \in d.devices.removed
      BY <1>7, <2>1 DEF Handles
    <3>2. k \in vpn.devices.removed
      BY <1>5, <3>1 DEF SameApp, Handles
    <3>3. Pending(a, "RemoveDevice", k)
      BY <2>1, <3>2 DEF Tracked, Handles, RemovalsGoOn
    <3>4. Pending(d, "RemoveDevice", k)
      BY <1>5, <3>1, <3>3
    <3>. QED  BY <1>7, <3>4 DEF Handles, RemovalsGoOn
  <2>. QED  BY <2>1 DEF Tracked
<1>9. Ready(a) <=> Ready(r)
  <2>1. Ready(d) <=> Ready(a)
    BY <1>5, SameModelsReady DEF SameApp
  <2>. QED  BY <1>7, <2>1 DEF Ready
<1>10. a.saved = r.saved /\ a.state = r.state /\ Sound(r)
  BY <1>5, <1>7 DEF SameApp, Handles
<1>11. Quiet(a) => Quiet(r)
  <2>1. \A x : Pending(d, "MaybeStateMain", x) <=> Pending(r, "MaybeStateMain", x)
    <3>1. r.queue = d.queue /\ r.running = d.running
      BY <1>5, <1>6 DEF r, StopDeviceRemoval, Sound, Members
    <3>. QED  BY <3>1 DEF Pending
  <2>. QED  BY <1>5, <2>1 DEF Quiet
<1>12. Moves(vpn, r)
  BY <1>8, <1>9, <1>10, <1>11 DEF Moves, Handles, TokenOK
<1>. QED  BY <1>12 DEF r, d, key

-----------------------------------------------------------------------------
\* The Controller and the server.

LEMMA StartActivationHandles ==
    ASSUME NEW a, Sound(a), NEW b, Handles(b, a)
    PROVE  Handles(b, StartActivation(a))
<1> DEFINE c == [a EXCEPT !.waiting = "no"]
           s == IF a.servers /\ HasCurrentDevice(a) THEN "Connecting" ELSE "Idle"
           r == ControllerStateChanged(c, s)
<1>1. /\ c \in Members /\ c.queue = a.queue /\ c.running = a.running /\ c.state = a.state
      /\ c.user = a.user /\ c.keys = a.keys /\ c.devices = a.devices
      /\ c.servers = a.servers /\ c.saved = a.saved
  BY DEF Sound, Members
<1>2. s \in ControllerStates
  BY DEF ControllerStates
<1> HIDE DEF c, s
<1>3. Keeps(a, c)
  <2>1. Sound(c)
    BY <1>1 DEF Sound, Served
  <2>2. \A name, key : Pending(c, name, key) <=> Pending(a, name, key)
    BY <1>1 DEF Pending
  <2>. QED  BY <1>1, <2>1, <2>2 DEF Keeps, RemovalsGoOn, Quiet
<1>4. Keeps(c, r)
  BY <1>2, <1>3, ControllerStateChangedKeeps DEF Keeps
<1> HIDE DEF r
<1>5. Handles(b, r)
  BY <1>3, <1>4, HandlesKeeps
<1>. QED  BY <1>5 DEF StartActivation, c, s, r

\* A member changes that no task and no view looks at.
LEMMA UpdateNextKeeps ==
    ASSUME NEW a, Sound(a), NEW next \in BOOLEAN
    PROVE  Keeps(a, [a EXCEPT !.updateNext = next])
<1> DEFINE c == [a EXCEPT !.updateNext = next]
<1>1. /\ c \in Members /\ c.queue = a.queue /\ c.running = a.running /\ c.state = a.state
      /\ c.user = a.user /\ c.keys = a.keys /\ c.devices = a.devices
      /\ c.servers = a.servers /\ c.saved = a.saved
  BY DEF Sound, Members
<1> HIDE DEF c
<1>2. Sound(c)
  BY <1>1 DEF Sound, Served
<1>3. \A name, key : Pending(c, name, key) <=> Pending(a, name, key)
  BY <1>1 DEF Pending
<1>4. Keeps(a, c)
  BY <1>1, <1>2, <1>3 DEF Keeps, RemovalsGoOn, Quiet
<1>. QED  BY <1>4 DEF c

LEMMA ReachOffHandles ==
    ASSUME NEW a, Sound(a)
    PROVE  Handles(a, ReachOff(a))
<1> DEFINE b == [a EXCEPT !.updateNext = FALSE]
           c == IF a.updateNext THEN SetState(b, "UpdateRequired") ELSE a
           r == ControllerStateChanged(c, "Off")
<1>1. Keeps(a, b)
  BY UpdateNextKeeps
<1> HIDE DEF b
<1>2. Handles(b, SetState(b, "UpdateRequired"))
  BY <1>1, SetStateHandles DEF Keeps, AppStates, SignedIn
<1>3. Handles(a, c)
  BY <1>1, <1>2, KeepsThenHandles, HandlesReflexive
<1> HIDE DEF c
<1>4. Keeps(c, r)
  BY <1>3, ControllerStateChangedKeeps DEF Handles, ControllerStates
<1> HIDE DEF r
<1>5. Handles(a, r)
  BY <1>3, <1>4, HandlesKeeps
<1>. QED  BY <1>5 DEF ReachOff, b, c, r

\* There is a key left to make.
LEMMA FreshKeyIsKey == FreshKey \in Keys
<1> DEFINE S == {guardian.own, vpn.keys, vpn.devices.own}
<1>1. \E key \in Keys : key \notin S
  <2> SUFFICES ASSUME Keys \subseteq S PROVE FALSE
    OBVIOUS
  <2>2. \A T, x : IsFiniteSet(T) /\ Cardinality(T) \in Nat =>
                  /\ IsFiniteSet(T \cup {x})
                  /\ Cardinality(T \cup {x}) \in Nat
                  /\ Cardinality(T \cup {x}) <= Cardinality(T) + 1
    <3> SUFFICES ASSUME NEW T, NEW x, IsFiniteSet(T), Cardinality(T) \in Nat
                 PROVE  /\ IsFiniteSet(T \cup {x})
                        /\ Cardinality(T \cup {x}) \in Nat
                        /\ Cardinality(T \cup {x}) <= Cardinality(T) + 1
      OBVIOUS
    <3>1. IsFiniteSet(T \cup {x})
      BY FS_AddElement
    <3>2. Cardinality(T \cup {x}) \in {Cardinality(T), Cardinality(T) + 1}
      <4>1. CASE x \in T
        <5>1. T \cup {x} = T
          BY <4>1
        <5>. QED  BY <5>1
      <4>2. CASE x \notin T
        BY <4>2, FS_AddElement
      <4>. QED  BY <4>1, <4>2
    <3>. QED  BY <3>1, <3>2
  <2>3. IsFiniteSet({guardian.own} \cup {vpn.keys} \cup {vpn.devices.own})
        /\ Cardinality({guardian.own} \cup {vpn.keys} \cup {vpn.devices.own}) \in 0..3
    <3> DEFINE A == {guardian.own}
               B == A \cup {vpn.keys}
               C == B \cup {vpn.devices.own}
    <3>1. IsFiniteSet(A) /\ Cardinality(A) \in Nat /\ Cardinality(A) <= 1
      <4>1. IsFiniteSet(A) /\ Cardinality(A) = 1
        BY FS_Singleton
      <4> HIDE DEF A
      <4>. QED  BY <4>1
    <3> HIDE DEF A
    <3>2. IsFiniteSet(B) /\ Cardinality(B) \in Nat /\ Cardinality(B) <= 2
      <4>1. IsFiniteSet(B) /\ Cardinality(B) \in Nat /\ Cardinality(B) <= Cardinality(A) + 1
        BY <3>1, <2>2
      <4>. QED  BY <3>1, <4>1
    <3> HIDE DEF B
    <3>3. IsFiniteSet(C) /\ Cardinality(C) \in Nat /\ Cardinality(C) <= 3
      <4>1. IsFiniteSet(C) /\ Cardinality(C) \in Nat /\ Cardinality(C) <= Cardinality(B) + 1
        BY <3>2, <2>2
      <4> HIDE DEF C
      <4>. QED  BY <3>2, <4>1
    <3>. QED  BY <3>3 DEF A, B, C
  <2>4. S = {guardian.own} \cup {vpn.keys} \cup {vpn.devices.own}
    OBVIOUS
  <2>5. IsFiniteSet(S) /\ Cardinality(S) \in 0..3
    BY <2>3, <2>4
  <2> HIDE DEF S
  <2>6. Cardinality(Keys) \in Nat /\ Cardinality(Keys) <= Cardinality(S)
    BY <2>5, FS_Subset, FS_CardinalityType
  <2>. QED  BY <2>5, <2>6, AppAssumption
<1>. QED  BY <1>1 DEF FreshKey

\* The account the server keeps.
LEMMA GuardianFacts ==
    ASSUME guardian \in Accounts, NEW key
    PROVE  /\ Registered(FreshKey) => guardian' \in Accounts
           /\ Unregistered(key) => guardian' \in Accounts
<1>1. ASSUME Registered(FreshKey) PROVE guardian' \in Accounts
  BY <1>1, FreshKeyIsKey DEF Registered, Accounts
<1>2. ASSUME Unregistered(key) PROVE guardian' \in Accounts
  BY <1>2 DEF Unregistered, Accounts
<1>. QED  BY <1>1, <1>2

-----------------------------------------------------------------------------
\* The steps.

\* The inductive invariant.  The types and the service of the queue hold together:
\* the one needs that no task in the queue is NoTask.  Tracked is RemovalsTracked.
Inv == Sound(vpn) /\ Tracked(vpn) /\ guardian \in Accounts

\* What a step keeps and what it may do.
Step ==
    /\ Sound(vpn') /\ Tracked(vpn') /\ guardian' \in Accounts
    /\ vpn'.state = "Main" => vpn.state = "Main" \/ Ready(vpn')
    /\ TokenOK(vpn) /\ ~TokenOK(vpn') => vpn.running.name = "MaybeStateMain" /\ ~vpn.saved.token
    /\ vpn.saved.token /\ ~vpn'.saved.token => SettingsWiped \/ Quiet(vpn')

LEMMA MovesStep ==
    ASSUME Inv, Moves(vpn, vpn'), guardian' \in Accounts
    PROVE  Step
BY DEF Inv, Moves, Step

LEMMA HandlesStep ==
    ASSUME Inv, Handles(vpn, vpn'), guardian' \in Accounts
    PROVE  Step
BY HandlesMoves, MovesStep

LEMMA KeepsStep ==
    ASSUME Inv, Keeps(vpn, vpn'), guardian' = guardian
    PROVE  Step
BY KeepsHandles, HandlesStep DEF Inv

LEMMA SchedulesStep ==
    ASSUME Inv, Schedules(vpn, vpn'), guardian' = guardian
    PROVE  Step
BY SchedulesKeeps, KeepsStep

LEMMA SchedulesNamed ==
    ASSUME NEW a, NEW b, Schedules(a, b), NEW name \in TaskNames \ {"None", "MaybeStateMain"}
    PROVE  Schedules(a, ScheduleTask(b, Task(name)))
<1>1. b \in Members
  BY DEF Schedules, Sound
<1>2. Schedules(b, ScheduleTask(b, Task(name)))
  BY <1>1, ScheduleNamed
<1>. QED  BY <1>2, SchedulesTransitive

LEMMA HandlesNamed ==
    ASSUME NEW a, NEW b, Handles(a, b), NEW name \in TaskNames \ {"None", "MaybeStateMain"}
    PROVE  Handles(a, ScheduleTask(b, Task(name)))
<1>1. b \in Members
  BY DEF Handles, Sound
<1>2. Schedules(b, ScheduleTask(b, Task(name)))
  BY <1>1, ScheduleNamed
<1>. QED  BY <1>2, SchedulesKeeps, HandlesKeeps

\* The commands that only schedule tasks.
LEMMA SchedulingSteps ==
    ASSUME Inv, Activate \/ Deactivate \/ SilentSwitch \/ TriggerHeartbeat \/ RefreshDevices
                \/ PeriodicOperations \/ RegenerateKey
    PROVE  Step
<1>0. Sound(vpn) /\ vpn \in Members
  BY DEF Inv, Sound
<1>1. Schedules(vpn, vpn)
  BY <1>0, SchedulesReflexive
<1>2. ASSUME Activate PROVE Step
  BY <1>0, <1>2, ActivateVpnSchedules, SchedulesStep DEF Activate, Command
<1>3. ASSUME Deactivate PROVE Step
  BY <1>0, <1>3, DeactivateVpnSchedules, SchedulesStep DEF Deactivate, Command
<1>4. ASSUME SilentSwitch PROVE Step
  <2>1. Schedules(vpn, DeleteTasks(vpn))
    BY <1>0, DeleteTasksSchedules
  <2>2. Schedules(vpn, ScheduleTask(DeleteTasks(vpn), Task("SilentSwitch")))
    BY <2>1, SchedulesNamed DEF TaskNames, ControllerActions
  <2>. QED  BY <1>4, <2>2, SchedulesStep DEF SilentSwitch, Command
<1>5. ASSUME TriggerHeartbeat PROVE Step
  <2>1. Schedules(vpn, ScheduleTask(vpn, Task("Heartbeat")))
    BY <1>1, SchedulesNamed DEF TaskNames, Subtasks
  <2>. QED  BY <1>5, <2>1, SchedulesStep DEF TriggerHeartbeat, Command
<1>6. ASSUME RefreshDevices PROVE Step
  <2>1. Schedules(vpn, ScheduleTask(vpn, QuietTask("Account")))
    BY <1>0, TasksWait, ScheduleTaskSchedules
  <2>. QED  BY <1>6, <2>1, SchedulesStep DEF RefreshDevices, Command
<1>7. ASSUME PeriodicOperations PROVE Step
  <2> DEFINE g == GroupTask(PeriodicTasks, {"Account", "Servers"})
  <2>1. PeriodicTasks \in SUBSET Subtasks /\ {"Account", "Servers"} \in SUBSET Subtasks
    BY DEF PeriodicTasks, RefreshTasks, Subtasks
  <2>2. g \in Waiting /\ g.name = "Group"
    BY <2>1, TasksWait
  <2> HIDE DEF g
  <2>3. Schedules(vpn, ScheduleTask(vpn, g))
    BY <1>0, <2>2, ScheduleTaskSchedules
  <2>. QED  BY <1>7, <2>3, SchedulesStep DEF PeriodicOperations, Command, g
<1>8. ASSUME RegenerateKey PROVE Step
  <2>1. Schedules(vpn, ScheduleTask(vpn, Task("AddDevice")))
    BY <1>1, SchedulesNamed DEF TaskNames
  <2>2. Schedules(vpn, ScheduleTask(ScheduleTask(vpn, Task("AddDevice")), Task("Account")))
    BY <2>1, SchedulesNamed DEF TaskNames, Subtasks
  <2>. QED  BY <1>8, <2>2, SchedulesStep DEF RegenerateKey, Command
<1>. QED  BY <1>2, <1>3, <1>4, <1>5, <1>6, <1>7, <1>8

LEMMA AuthenticateStep ==
    ASSUME Inv, Authenticate
    PROVE  Step
<1> DEFINE a == SetState(vpn, "Authenticating")
           b == ScheduleTask(a, Task("Heartbeat"))
           c == ScheduleTask(b, Task("Authenticate"))
<1>1. Handles(vpn, a)
  BY SetStateHandles DEF Inv, AppStates, SignedIn
<1> HIDE DEF a
<1>2. Handles(vpn, b)
  BY <1>1, HandlesNamed DEF TaskNames, Subtasks
<1> HIDE DEF b
<1>3. Handles(vpn, c)
  BY <1>2, HandlesNamed DEF TaskNames
<1> HIDE DEF c
<1>4. vpn' = c /\ guardian' = guardian
  BY DEF Authenticate, Command, a, b, c
<1>. QED  BY <1>3, <1>4, HandlesStep DEF Inv

LEMMA SubscriptionSteps ==
    ASSUME Inv, Subscribe \/ CancelSubscription
    PROVE  Step
<1>0. Sound(vpn)
  BY DEF Inv
<1>1. ASSUME NEW a, Sound(a), NEW p \in BOOLEAN
      PROVE  Keeps(a, [a EXCEPT !.purchase = p])
  <2> DEFINE c == [a EXCEPT !.purchase = p]
  <2>1. /\ c \in Members /\ c.queue = a.queue /\ c.running = a.running /\ c.state = a.state
        /\ c.user = a.user /\ c.keys = a.keys /\ c.devices = a.devices
        /\ c.servers = a.servers /\ c.saved = a.saved
    BY <1>1 DEF Sound, Members
  <2> HIDE DEF c
  <2>2. Sound(c)
    BY <1>1, <2>1 DEF Sound, Served
  <2>3. \A name, key : Pending(c, name, key) <=> Pending(a, name, key)
    BY <2>1 DEF Pending
  <2>4. Keeps(a, c)
    BY <2>1, <2>2, <2>3 DEF Keeps, RemovalsGoOn, Quiet
  <2>. QED  BY <2>4 DEF c
<1>3. ASSUME Subscribe PROVE Step
  <2> DEFINE a == SetState(vpn, "SubscriptionInProgress")
             b == [a EXCEPT !.purchase = TRUE]
             c == ScheduleTask(b, Task("Authenticate"))
  <2>1. /\ Sound(a) /\ RemovalsGoOn(vpn, a) /\ (Quiet(vpn) => Quiet(a))
        /\ a.state = "SubscriptionInProgress" /\ a.devices = vpn.devices
        /\ a.saved = vpn.saved
    BY <1>0, SetStateFacts DEF AppStates
  <2>2. TokenOK(vpn) => vpn.saved.token
    BY <1>3 DEF TokenOK, Subscribe, SignedIn
  <2>3. Handles(vpn, a)
    BY <2>1, <2>2 DEF Handles, TokenOK
  <2> HIDE DEF a
  <2>4. Keeps(a, b)
    BY <1>1, <2>1
  <2> HIDE DEF b
  <2>5. Handles(vpn, b)
    BY <2>3, <2>4, HandlesKeeps
  <2>6. Handles(vpn, c)
    BY <2>5, HandlesNamed DEF TaskNames
  <2> HIDE DEF c
  <2>7. (vpn' = a \/ vpn' = c) /\ guardian' = guardian
    BY <1>3 DEF Subscribe, Command, a, b, c
  <2>. QED  BY <2>3, <2>6, <2>7, HandlesStep DEF Inv
<1>4. ASSUME CancelSubscription PROVE Step
  <2> DEFINE a == [vpn EXCEPT !.purchase = FALSE]
             b == DeleteTasks(a)
             c == SetState(b, "SubscriptionNeeded")
             d == ScheduleTask(c, Task("RetrySubscription"))
  <2>1. Keeps(vpn, a)
    BY <1>0, <1>1
  <2> HIDE DEF a
  <2>2. Schedules(a, b)
    BY <2>1, DeleteTasksSchedules DEF Keeps, Sound
  <2> HIDE DEF b
  <2>3. Handles(vpn, b)
    BY <1>0, <2>1, <2>2, SchedulesKeeps, HandlesReflexive, HandlesKeeps
  <2>4. b.saved = vpn.saved /\ b.devices = vpn.devices /\ Sound(b)
    BY <2>1, <2>2 DEF Keeps, Schedules, SameApp
  <2>5. /\ Sound(c) /\ RemovalsGoOn(b, c) /\ (Quiet(b) => Quiet(c))
        /\ c.state = "SubscriptionNeeded" /\ c.devices = b.devices /\ c.saved = b.saved
    BY <2>4, SetStateFacts DEF AppStates
  <2>6. TokenOK(vpn) => vpn.saved.token
    BY <1>4 DEF TokenOK, CancelSubscription, SignedIn
  <2> HIDE DEF c
  <2>7. Handles(vpn, c)
    BY <2>3, <2>4, <2>5, <2>6 DEF Handles, TokenOK, RemovalsGoOn
  <2>8. Handles(vpn, d)
    BY <2>7, HandlesNamed DEF TaskNames, Functions
  <2> HIDE DEF d
  <2>9. vpn' = d /\ guardian' = guardian
    BY <1>4 DEF CancelSubscription, Command, a, b, c, d
  <2>. QED  BY <2>8, <2>9, HandlesStep DEF Inv
<1>. QED  BY <1>3, <1>4

LEMMA CancelAuthenticationStep ==
    ASSUME Inv, CancelAuthentication
    PROVE  Step
<1> DEFINE r == Reset(vpn, TRUE)
<1>1. /\ Sound(r) /\ RemovalsGoOn(vpn, r) /\ Quiet(r) /\ r.state = "Initialize"
      /\ r.devices = vpn.devices
  BY ResetFacts DEF Inv, Sound
<1> HIDE DEF r
<1>2. Handles(vpn, r)
  BY <1>1 DEF Handles, TokenOK, SignedIn
<1>3. vpn' = r /\ guardian' = guardian
  BY DEF CancelAuthentication, Command, r
<1>. QED  BY <1>2, <1>3, HandlesStep DEF Inv

\* logout(): the removal of the device survives the reset that follows it.
LEMMA LogoutStep ==
    ASSUME Inv, Logout
    PROVE  Step
<1> DEFINE a == DeactivateVpn(vpn)
           off == DeleteTasks(a)
           removing == IF HasCurrentDevice(vpn)
                       THEN ScheduleTask(off, RemoveDeviceTask(vpn.keys)) ELSE off
           force == vpn.state # "UpdateRequired"
           r == Reset(removing, force)
<1>0. vpn \in Members
  BY DEF Inv, Sound
<1>1. Schedules(vpn, a)
  BY <1>0, DeactivateVpnSchedules
<1> HIDE DEF a
<1>2. Schedules(vpn, off)
  <2>1. Schedules(a, off)
    BY <1>1, DeleteTasksSchedules DEF Schedules, Sound
  <2> HIDE DEF off
  <2>. QED  BY <1>1, <2>1, SchedulesTransitive
<1> HIDE DEF off
<1>3. Schedules(vpn, removing)
  <2>1. vpn.keys \in PublicKeys \cup Others
    BY <1>0 DEF Members
  <2>2. RemoveDeviceTask(vpn.keys) \in Waiting
        /\ RemoveDeviceTask(vpn.keys).name = "RemoveDevice"
    BY <2>1, TasksWait
  <2>3. Schedules(off, ScheduleTask(off, RemoveDeviceTask(vpn.keys)))
    BY <1>2, <2>2, ScheduleTaskSchedules DEF Schedules, Sound
  <2>4. Schedules(vpn, ScheduleTask(off, RemoveDeviceTask(vpn.keys)))
    BY <1>2, <2>3, SchedulesTransitive
  <2>. QED  BY <1>2, <2>4
<1> HIDE DEF removing
<1>4. /\ Sound(r) /\ RemovalsGoOn(removing, r) /\ Quiet(r)
      /\ r.state = (IF force THEN "Initialize" ELSE removing.state)
      /\ r.devices = removing.devices
  <2>1. force \in BOOLEAN /\ removing \in Members
    BY <1>3 DEF Schedules, Sound
  <2> HIDE DEF force
  <2>. QED  BY <2>1, ResetFacts
<1> HIDE DEF r
<1>5. Handles(vpn, r)
  <2>1. r.state \in {"Initialize", "UpdateRequired"}
    BY <1>3, <1>4 DEF Schedules, SameApp
  <2>2. RemovalsGoOn(vpn, r) /\ r.devices = vpn.devices
    BY <1>3, <1>4 DEF Schedules, SameApp, RemovalsGoOn
  <2>. QED  BY <1>4, <2>1, <2>2 DEF Handles, TokenOK, SignedIn
<1>6. vpn' = r /\ guardian' = guardian
  BY DEF Logout, Command, a, off, removing, r
<1>. QED  BY <1>5, <1>6, HandlesStep DEF Inv

\* removeDeviceFromPublicKey(): the device is hidden and its task scheduled at once.
LEMMA RemoveOtherStep ==
    ASSUME Inv, NEW key \in Others, RemoveOther(key)
    PROVE  Step
<1> DEFINE t == RemoveDeviceTask(key)
           a == ScheduleTask(vpn, t)
           r == [a EXCEPT !.devices.others = @ \ {key}, !.devices.removed = @ \cup {key}]
<1>0. Sound(vpn) /\ Tracked(vpn) /\ vpn \in Members
  BY DEF Inv, Sound
<1>1. t \in Waiting /\ t.key = key /\ t.name = "RemoveDevice"
  BY TasksWait
<1> HIDE DEF t
<1>2. Schedules(vpn, a) /\ Pending(a, "RemoveDevice", key)
  <2>1. Schedules(vpn, a)
    BY <1>0, <1>1, ScheduleTaskSchedules
  <2>2. Pending(a, "RemoveDevice", key)
    BY <1>0, <1>1, ScheduleTaskFacts
  <2>. QED  BY <2>1, <2>2
<1>3. (vpn' = a \/ vpn' = r) /\ guardian' = guardian
  BY DEF RemoveOther, Command, t
<1> HIDE DEF a
<1>4. CASE vpn' = a
  BY <1>2, <1>3, <1>4, SchedulesStep
<1>5. CASE vpn' = r
  <2>1. a \in Members
    BY <1>2 DEF Schedules, Sound
  <2>2. /\ r \in Members /\ r.queue = a.queue /\ r.running = a.running /\ r.state = a.state
        /\ r.saved = a.saved /\ r.devices.removed = a.devices.removed \cup {key}
    BY <2>1 DEF Members, Devices
  <2> HIDE DEF r
  <2>3. Sound(r)
    BY <1>2, <2>2 DEF Schedules, Sound, Served
  <2>4. \A name, k : Pending(r, name, k) <=> Pending(a, name, k)
    BY <2>2 DEF Pending
  <2>5. Tracked(r)
    <3>1. ASSUME NEW k \in vpn.devices.removed PROVE Pending(a, "RemoveDevice", k)
      BY <1>0, <1>2 DEF Tracked, Schedules, RemovalsGoOn
    <3>2. a.devices = vpn.devices
      BY <1>2 DEF Schedules, SameApp
    <3>. QED  BY <1>2, <2>2, <2>4, <3>1, <3>2 DEF Tracked
  <2>6. r.state = vpn.state /\ r.saved = vpn.saved
    BY <1>2, <2>2 DEF Schedules, SameApp
  <2>. QED  BY <1>3, <1>5, <2>3, <2>5, <2>6 DEF Step, TokenOK, Inv
<1>. QED  BY <1>3, <1>4, <1>5

\* onboardingCompleted()
LEMMA OnboardingCompletedStep ==
    ASSUME Inv, OnboardingCompleted
    PROVE  Step
<1> DEFINE a == [vpn EXCEPT !.onboarded = TRUE]
           r == MaybeStateMain(a)
<1>0. Sound(vpn) /\ Tracked(vpn) /\ vpn \in Members
  BY DEF Inv, Sound
<1>1. /\ a \in Members /\ a.queue = vpn.queue /\ a.running = vpn.running
      /\ a.state = vpn.state /\ a.saved = vpn.saved /\ a.devices = vpn.devices
      /\ a.user = vpn.user /\ a.servers = vpn.servers /\ a.keys = vpn.keys
  BY <1>0 DEF Members
<1>2. vpn' = r /\ guardian' = guardian /\ vpn.state = "Onboarding"
  BY DEF OnboardingCompleted, Command
<1> HIDE DEF a
<1>3. Sound(a) /\ (\A name, key : Pending(a, name, key) <=> Pending(vpn, name, key))
  BY <1>0, <1>1 DEF Sound, Served, Pending
<1>4. /\ Sound(r) /\ RemovalsGoOn(a, r) /\ r.devices = a.devices
      /\ r.state = "Main" => Ready(r)
      /\ a.saved.token => TokenOK(r)
      /\ a.saved.token /\ ~r.saved.token =>
            HasCurrentDevice(a) /\ (Quiet(r) \/ Wipes(a))
  BY <1>3, MaybeStateMainFacts
<1> HIDE DEF r
<1>5. Wipes(a) => SettingsWiped
  BY <1>1, <1>2 DEF Wipes, SettingsWiped, HasCurrentDevice, ModelsInitialized
<1>6. TokenOK(vpn) => TokenOK(r)
  BY <1>1, <1>2, <1>4 DEF TokenOK, SignedIn
<1>7. Tracked(r)
  BY <1>0, <1>1, <1>3, <1>4 DEF Tracked, RemovalsGoOn
<1>. QED  BY <1>1, <1>2, <1>4, <1>5, <1>6, <1>7 DEF Step, Inv

LEMMA UpdateRequiredStep ==
    ASSUME Inv, UpdateRequired
    PROVE  Step
<1> DEFINE a == [vpn EXCEPT !.updateNext = TRUE]
           b == SetState(vpn, "UpdateRequired")
           c == ControllerStateChanged(a, "Disconnecting")
<1>0. Sound(vpn)
  BY DEF Inv
<1>1. Keeps(vpn, a)
  BY <1>0, UpdateNextKeeps
<1>2. (vpn' = a \/ vpn' = b \/ vpn' = c) /\ guardian' = guardian
  BY DEF UpdateRequired, Command
<1> HIDE DEF a
<1>3. Handles(vpn, b)
  BY <1>0, SetStateHandles DEF AppStates, SignedIn
<1>4. Handles(vpn, a)
  BY <1>1, KeepsHandles
<1>5. Keeps(a, c)
  BY <1>1, ControllerStateChangedKeeps DEF Keeps, ControllerStates
<1> HIDE DEF b, c
<1>6. Handles(vpn, c)
  BY <1>4, <1>5, HandlesKeeps
<1>. QED  BY <1>2, <1>3, <1>4, <1>6, HandlesStep DEF Inv

LEMMA AccountChangesStep ==
    ASSUME Inv, AccountChanges
    PROVE  Step
<1>1. guardian' \in Accounts
  BY DEF Inv, AccountChanges, Accounts
<1>2. vpn' = vpn
  BY DEF AccountChanges
<1>. QED  BY <1>1, <1>2 DEF Inv, Step

\* A restart forgets the tasks together with the removals they were for.
LEMMA RestartStep ==
    ASSUME Inv, Restart
    PROVE  Step
<1> DEFINE r == Initialized(Constructed(vpn.saved, vpn.onboarded))
<1>1. vpn.saved \in Settings /\ vpn.onboarded \in BOOLEAN
  BY DEF Inv, Sound, Members
<1>2. /\ Sound(r) /\ r.devices.removed = {}
      /\ r.state = "Main" => Ready(r)
      /\ TokenOK(r)
      /\ vpn.saved.token /\ ~r.saved.token => Quiet(r)
  BY <1>1, InitializedFacts
<1>3. vpn' = r /\ guardian' = guardian
  BY DEF Restart
<1> HIDE DEF r
<1>. QED  BY <1>2, <1>3 DEF Step, Inv, Tracked

\* TaskFunction::run(): only the functions can remove the settings and leave tasks,
\* and only the one of a login can show an account without a token.
LEMMA RunFunctionStep ==
    ASSUME Inv, RunFunction
    PROVE  Step
<1> DEFINE name == vpn.running.name
           m == MaybeStateMain(vpn)
           e == ReportError(vpn)
           c == SetState(e, "Initialize")
           Ran(x) == /\ Sound(x) /\ RemovalsGoOn(vpn, x) /\ x.devices = vpn.devices
                     /\ x.state = "Main" => vpn.state = "Main" \/ Ready(x)
                     /\ TokenOK(vpn) /\ ~TokenOK(x) =>
                           name = "MaybeStateMain" /\ ~vpn.saved.token
                     /\ vpn.saved.token /\ ~x.saved.token => SettingsWiped \/ Quiet(x)
<1>0. Sound(vpn) /\ Tracked(vpn)
  BY DEF Inv
<1>1. name \in Functions
  BY DEF RunFunction
<1>2. ASSUME \/ name = "MaybeStateMain"
             \/ vpn.state \in {"DeviceLimit", "SubscriptionNeeded"}
      PROVE  Ran(m)
  <2>1. /\ Sound(m) /\ RemovalsGoOn(vpn, m) /\ m.devices = vpn.devices
        /\ m.state = "Main" => Ready(m)
        /\ vpn.saved.token => TokenOK(m)
        /\ vpn.saved.token /\ ~m.saved.token =>
              HasCurrentDevice(vpn) /\ (Quiet(m) \/ Wipes(vpn))
    BY <1>0, MaybeStateMainFacts
  <2> HIDE DEF m
  <2>2. Wipes(vpn) => SettingsWiped
    BY <1>1 DEF Wipes, SettingsWiped
  <2>3. TokenOK(vpn) /\ ~vpn.saved.token => name = "MaybeStateMain"
    BY <1>2 DEF TokenOK, SignedIn
  <2>. QED  BY <2>1, <2>2, <2>3
<1>3. Ran(c)
  <2>1. Handles(vpn, e) /\ (e = vpn \/ e = Reset(vpn, TRUE))
    BY <1>0, ReportHandles, ErrorCases
  <2> HIDE DEF e
  <2>2. e.devices = vpn.devices
    BY <1>0, <2>1, ErrorFacts
  <2>3. /\ Sound(c) /\ RemovalsGoOn(e, c) /\ (Quiet(e) => Quiet(c)) /\ c.state = "Initialize"
        /\ c.devices = e.devices /\ c.saved = e.saved
    BY <2>1, SetStateFacts DEF Handles, AppStates
  <2> HIDE DEF c
  <2>4. TokenOK(c)
    BY <2>3 DEF TokenOK, SignedIn
  <2>. QED  BY <2>1, <2>2, <2>3, <2>4 DEF Handles, RemovalsGoOn
<1>4. Ran(vpn)
  BY <1>0 DEF RemovalsGoOn
<1>5. PICK x : Ran(x) /\ vpn' = TaskCompleted(x, vpn.running)
  <2> HIDE DEF Ran, m, c
  <2>1. CASE name = "MaybeStateMain" \/ name = "RecoverFromLimit"
    BY <1>2, <1>4, <2>1 DEF RunFunction, m
  <2>2. CASE name = "RetrySubscription"
    BY <1>2, <1>4, <2>2 DEF RunFunction, m
  <2>3. CASE name = "CheckKey"
    BY <1>3, <1>4, <2>3 DEF RunFunction, c
  <2>4. CASE name = "LoadCompleted"
    BY <1>4, <2>4 DEF RunFunction
  <2>. QED  BY <1>1, <2>1, <2>2, <2>3, <2>4 DEF Functions
<1>6. Schedules(x, vpn')
  BY <1>1, <1>5, TaskCompletedSchedules DEF Functions
<1>7. Ready(x) <=> Ready(vpn')
  BY <1>6, SameModelsReady DEF Schedules, SameApp
<1>8. /\ Sound(vpn') /\ vpn'.state = x.state /\ vpn'.saved = x.saved
      /\ vpn'.devices = x.devices /\ (Quiet(x) => Quiet(vpn'))
      /\ RemovalsGoOn(x, vpn')
  BY <1>6 DEF Schedules, SameApp
<1>9. Tracked(vpn')
  BY <1>0, <1>5, <1>8 DEF Tracked, RemovalsGoOn
<1>10. guardian' = guardian
  BY DEF RunFunction
<1>. QED  BY <1>5, <1>7, <1>8, <1>9, <1>10 DEF Step, Inv, TokenOK

LEMMA RescheduleStep ==
    ASSUME Inv, Reschedule
    PROVE  Step
<1>1. /\ Sound(vpn') /\ SameApp(vpn, vpn')
      /\ \A key : Pending(vpn, "RemoveDevice", key) => Pending(vpn', "RemoveDevice", key)
      /\ guardian' = guardian
  BY RescheduleTaskFacts DEF Inv, Sound, Reschedule
<1>. QED  BY <1>1 DEF Inv, Step, Tracked, SameApp, TokenOK

\* The replies to the requests of the tasks.
LEMMA FetchSteps ==
    ASSUME Inv,
           \/ \E name \in RefreshTasks : Fetched(name)
           \/ MalformedAccount
           \/ \E name \in RefreshTasks, error \in Errors : FetchFails(name, error)
           \/ \E success \in BOOLEAN : HeartbeatReply(success)
    PROVE  Step
<1>0. Sound(vpn) /\ guardian \in Accounts
  BY DEF Inv
<1>1. ASSUME NEW name \in RefreshTasks, Fetched(name)
      PROVE  Step
  <2>1. vpn.running.name # "RemoveDevice"
    BY <1>1, DoingNoRemoval DEF Fetched, RefreshTasks
  <2>2. PICK a \in {AccountChecked(vpn, guardian), ServersFetched(vpn), vpn} :
            vpn' = Done(a, name)
    BY <1>1 DEF Fetched, RefreshTasks
  <2>3. Handles(vpn, a)
    BY <1>0, AccountCheckedHandles, ServersFetchedHandles, HandlesReflexive
  <2>4. Handles(vpn, vpn')
    BY <1>0, <2>1, <2>2, <2>3, DoneHandles
  <2>5. guardian' = guardian
    BY <1>1 DEF Fetched
  <2>. QED  BY <1>0, <2>4, <2>5, HandlesStep
<1>2. ASSUME NEW name \in RefreshTasks, NEW error \in Errors, FetchFails(name, error)
      PROVE  Step
  <2>1. vpn.running.name # "RemoveDevice"
    BY <1>2, DoingNoRemoval DEF FetchFails, RefreshTasks
  <2>2. PICK a \in {vpn, ReportNetworkError(vpn, error, name \notin vpn.running.quiet)} :
            vpn' = Done(a, name)
    BY <1>2 DEF FetchFails
  <2>3. Handles(vpn, a)
    BY <1>0, ReportHandles, HandlesReflexive
  <2>4. Handles(vpn, vpn')
    BY <1>0, <2>1, <2>2, <2>3, DoneHandles
  <2>5. guardian' = guardian
    BY <1>2 DEF FetchFails
  <2>. QED  BY <1>0, <2>4, <2>5, HandlesStep
<1>3. ASSUME NEW success \in BOOLEAN, HeartbeatReply(success)
      PROVE  Step
  <2>1. vpn.running.name # "RemoveDevice"
    BY <1>3, DoingNoRemoval DEF HeartbeatReply
  <2>2. Handles(vpn, HeartbeatCompleted(vpn, success))
    BY <1>0, HeartbeatCompletedHandles
  <2>3. Handles(vpn, Done(HeartbeatCompleted(vpn, success), "Heartbeat"))
    BY <1>0, <2>1, <2>2, DoneHandles
  <2>4. vpn' = Done(HeartbeatCompleted(vpn, success), "Heartbeat") /\ guardian' = guardian
    BY <1>3 DEF HeartbeatReply
  <2>. QED  BY <1>0, <2>3, <2>4, HandlesStep
<1>4. ASSUME MalformedAccount
      PROVE  Step
  <2>1. vpn.running.name # "RemoveDevice"
    BY <1>4, DoingNoRemoval DEF MalformedAccount
  <2>2. PICK a \in Malformed(vpn, guardian) : vpn' = Done(a, "Account")
    BY <1>4 DEF MalformedAccount
  <2>3. Handles(vpn, a)
    BY <1>0, <2>2, MalformedHandles
  <2>4. Handles(vpn, vpn')
    BY <1>0, <2>1, <2>2, <2>3, DoneHandles
  <2>5. guardian' = guardian
    BY <1>4 DEF MalformedAccount
  <2>. QED  BY <1>0, <2>4, <2>5, HandlesStep
<1>. QED  BY <1>1, <1>2, <1>3, <1>4

LEMMA AddonSteps ==
    ASSUME Inv, AddonIndexReply \/ NewAddonListed \/ AddonReply
    PROVE  Step
<1>0. Sound(vpn) /\ guardian \in Accounts
  BY DEF Inv
<1>1. ASSUME AddonIndexReply \/ AddonReply PROVE Step
  <2>1. vpn.running.name # "RemoveDevice"
    BY <1>1, DoingNoRemoval DEF AddonIndexReply, AddonReply
  <2>2. vpn' \in {Done(vpn, "AddonIndex"), Done(vpn, "Addon")} /\ guardian' = guardian
    BY <1>1 DEF AddonIndexReply, AddonReply
  <2>3. Handles(vpn, vpn')
    BY <1>0, <2>1, <2>2, DoneReflexive
  <2>. QED  BY <1>0, <2>2, <2>3, HandlesStep
<1>2. ASSUME NewAddonListed PROVE Step
  <2> DEFINE a == ScheduleTask(vpn, Task("Addon"))
             b == ScheduleTask(a, Task("LoadCompleted"))
  <2>1. vpn.running.name # "RemoveDevice"
    BY <1>2, DoingNoRemoval DEF NewAddonListed
  <2>2. Handles(vpn, a)
    BY <1>0, HandlesReflexive, HandlesNamed DEF TaskNames
  <2> HIDE DEF a
  <2>3. Handles(vpn, b)
    BY <2>2, HandlesNamed DEF TaskNames, Functions
  <2> HIDE DEF b
  <2>4. Handles(vpn, Done(b, "AddonIndex"))
    BY <1>0, <2>1, <2>3, DoneHandles
  <2>5. vpn' = Done(b, "AddonIndex") /\ guardian' = guardian
    BY <1>2 DEF NewAddonListed, Command, a, b
  <2>. QED  BY <1>0, <2>4, <2>5, HandlesStep
<1>. QED  BY <1>1, <1>2

LEMMA DeviceSteps ==
    ASSUME Inv,
           \/ AddDeviceSucceeds \/ RemoveDeviceSucceeds
           \/ \E error \in Errors : AddDeviceFails(error) \/ RemoveDeviceFails(error)
    PROVE  Step
<1>0. Sound(vpn) /\ guardian \in Accounts
  BY DEF Inv
<1>1. ASSUME AddDeviceSucceeds PROVE Step
  <2>1. Handles(vpn, DeviceAdded(vpn, FreshKey))
    BY <1>0, FreshKeyIsKey, DeviceAddedHandles
  <2>2. Handles(vpn, Done(DeviceAdded(vpn, FreshKey), "AddDevice"))
    BY <1>0, <1>1, <2>1, DoneHandles DEF AddDeviceSucceeds
  <2>3. vpn' = Done(DeviceAdded(vpn, FreshKey), "AddDevice") /\ guardian' \in Accounts
    BY <1>0, <1>1, GuardianFacts DEF AddDeviceSucceeds
  <2>. QED  BY <2>2, <2>3, HandlesStep
<1>2. ASSUME NEW error \in Errors, AddDeviceFails(error) PROVE Step
  <2> DEFINE a == ReportNetworkError(vpn, error, TRUE)
  <2>1. Handles(vpn, a)
    BY <1>0, ReportHandles
  <2>2. vpn' = Done(a, "AddDevice") /\ guardian' \in Accounts
    BY <1>0, <1>2, GuardianFacts DEF AddDeviceFails
  <2> HIDE DEF a
  <2>3. Handles(vpn, Done(a, "AddDevice"))
    BY <1>0, <1>2, <2>1, DoneHandles DEF AddDeviceFails
  <2>. QED  BY <2>2, <2>3, HandlesStep
<1>3. ASSUME RemoveDeviceSucceeds PROVE Step
  <2> DEFINE a == RemoveDevice(vpn, vpn.running.key)
  <2>1. Handles(vpn, a)
    BY <1>0, RemoveDeviceHandles
  <2>2. /\ vpn' = StopDeviceRemoval(Done(a, "RemoveDevice"), vpn.running.key)
        /\ guardian' \in Accounts /\ vpn.running.name = "RemoveDevice"
    BY <1>0, <1>3, GuardianFacts DEF RemoveDeviceSucceeds
  <2> HIDE DEF a
  <2>3. Moves(vpn, vpn')
    BY <1>0, <2>1, <2>2, RemovalEnds
  <2>. QED  BY <2>2, <2>3, MovesStep
<1>4. ASSUME NEW error \in Errors, RemoveDeviceFails(error) PROVE Step
  <2> DEFINE a == ReportNetworkError(vpn, error, TRUE)
  <2>1. Handles(vpn, a)
    BY <1>0, ReportHandles
  <2>2. /\ vpn' = StopDeviceRemoval(Done(a, "RemoveDevice"), vpn.running.key)
        /\ guardian' \in Accounts /\ vpn.running.name = "RemoveDevice"
    BY <1>0, <1>4, GuardianFacts DEF RemoveDeviceFails
  <2> HIDE DEF a
  <2>3. Moves(vpn, vpn')
    BY <1>0, <2>1, <2>2, RemovalEnds
  <2>. QED  BY <2>2, <2>3, MovesStep
<1>. QED  BY <1>1, <1>2, <1>3, <1>4

LEMMA AuthenticationSteps ==
    ASSUME Inv, AuthenticationSucceeds \/ AuthenticationFails
    PROVE  Step
<1>0. Sound(vpn) /\ guardian \in Accounts
  BY DEF Inv
<1>1. /\ guardian' = guardian /\ vpn.running.name # "RemoveDevice"
  BY DEF AuthenticationSucceeds, AuthenticationFails
<1>2. ASSUME NEW a, Handles(vpn, a), vpn' = a \/ vpn' = Done(a, "Authenticate")
      PROVE  Step
  BY <1>0, <1>1, <1>2, DoneHandles, HandlesStep
<1>3. Handles(vpn, CompleteAuthentication(vpn, guardian))
  BY <1>0, CompleteAuthenticationHandles
<1>4. Handles(vpn, ReportError(vpn))
      /\ (\A error : Handles(vpn, ReportNetworkError(vpn, error, TRUE)))
  BY <1>0, ReportHandles
<1>5. ASSUME NEW u \in Malformed(vpn, guardian)
      PROVE  Handles(vpn, ReportError(u))
  <2> DEFINE e == ReportError(u)
  <2>1. Handles(vpn, u) /\ u.state = vpn.state /\ u.saved = vpn.saved
    BY <1>0, MalformedHandles
  <2>2. Handles(u, e)
    BY <2>1, ReportHandles DEF Handles
  <2> HIDE DEF e
  <2>3. Handles(vpn, e)
    BY <2>1, <2>2 DEF Handles, RemovalsGoOn, TokenOK
  <2>. QED  BY <2>3 DEF e
<1>6. CASE AuthenticationSucceeds
  BY <1>2, <1>3, <1>6 DEF AuthenticationSucceeds
<1>7. CASE AuthenticationFails
  <2>1. \/ vpn' = Done(ReportError(vpn), "Authenticate")
        \/ \E error \in Errors : vpn' = ReportNetworkError(vpn, error, TRUE)
        \/ vpn' = ReportError(vpn)
        \/ \E u \in Malformed(vpn, guardian) : vpn' = Done(ReportError(u), "Authenticate")
    BY <1>7 DEF AuthenticationFails
  <2>. QED  BY <1>2, <1>4, <1>5, <2>1
<1>. QED  BY <1>6, <1>7

\* TaskControllerAction
LEMMA ControllerActionSteps ==
    ASSUME Inv, TaskCheckStatus \/ TaskStateChanged
    PROVE  Step
<1> DEFINE r == vpn.running
           t == TaskCompleted(vpn, r)
           l == [vpn EXCEPT !.running.last = vpn.controller]
           p == [vpn EXCEPT !.running.posted = FALSE]
<1>0. Sound(vpn) /\ vpn \in Members /\ r \in Running /\ r \in AnyTask
      /\ vpn.controller \in ControllerStates
  BY DEF Inv, Sound, Members, Running
<1>1. r.name \in ControllerActions
  BY <1>0 DEF TaskCheckStatus, TaskStateChanged, Running
<1>2. r.name \notin {"None", "RemoveDevice"}
  BY <1>1 DEF ControllerActions
<1>3. Schedules(vpn, t)
  BY <1>0, <1>2, TaskCompletedSchedules
<1>4. ASSUME NEW q, q \in AnyTask, q.name = r.name, q.key = r.key,
             NEW x \in Members, x.running = q, x.queue = vpn.queue, SameApp(vpn, x)
      PROVE  Schedules(vpn, x)
  <2>1. q # NoTask
    BY <1>2, <1>4, NoTaskFields
  <2>2. Sound(x)
    BY <1>4, <2>1 DEF Sound, Served
  <2>3. \A name, key : Pending(x, name, key) <=> Pending(vpn, name, key)
    BY <1>4, SamePending
  <2>. QED  BY <1>4, <2>2, <2>3 DEF Schedules, RemovalsGoOn, Quiet
<1>5. Schedules(vpn, l)
  <2> DEFINE q == [r EXCEPT !.last = vpn.controller]
  <2>1. /\ q \in AnyTask /\ q.name = r.name /\ q.key = r.key /\ q.posted = r.posted
    BY <1>0 DEF AnyTask
  <2>2. q \in Running
    BY <1>1, <1>2, <2>1 DEF Running
  <2>3. l \in Members /\ l.running = q /\ l.queue = vpn.queue /\ SameApp(vpn, l)
    BY <1>0, <2>2 DEF Members, SameApp
  <2> HIDE DEF q, l
  <2>. QED  BY <1>4, <2>1, <2>3
<1>6. Schedules(vpn, p)
  <2> DEFINE q == [r EXCEPT !.posted = FALSE]
  <2>1. /\ q \in AnyTask /\ q.name = r.name /\ q.key = r.key
    BY <1>0 DEF AnyTask
  <2>2. q \in Running
    BY <1>1, <1>2, <2>1 DEF Running
  <2>3. p \in Members /\ p.running = q /\ p.queue = vpn.queue /\ SameApp(vpn, p)
    BY <1>0, <2>2 DEF Members, SameApp
  <2> HIDE DEF q, p
  <2>. QED  BY <1>4, <2>1, <2>3
<1>7. vpn' \in {t, l, p} /\ guardian' = guardian
  BY DEF TaskCheckStatus, TaskStateChanged
<1> HIDE DEF t, l, p
<1>. QED  BY <1>3, <1>5, <1>6, <1>7, SchedulesStep

\* The account request of an activation, and the states the Controller reports.
LEMMA ControllerSteps ==
    ASSUME Inv,
           \/ ActivationGranted \/ ActivationMisread
           \/ \E error \in Errors : ActivationUnchecked(error)
           \/ ControllerInitialized \/ ControllerMoves
    PROVE  Step
<1>0. Sound(vpn) /\ guardian \in Accounts
  BY DEF Inv
<1>1. ASSUME ActivationGranted \/ ActivationMisread PROVE Step
  <2>0. \A a \in {AccountChecked(vpn, guardian)} \cup Malformed(vpn, guardian) :
            Handles(vpn, a)
    BY <1>0, AccountCheckedHandles, MalformedHandles
  <2>1. PICK a : Handles(vpn, a) /\ vpn' = StartActivation(a) /\ guardian' = guardian
    BY <1>1, <2>0 DEF ActivationGranted, ActivationMisread
  <2>2. vpn' = StartActivation(a) /\ guardian' = guardian
    BY <2>1
  <2>3. Handles(vpn, vpn')
    BY <2>1, <2>2, StartActivationHandles DEF Handles
  <2>. QED  BY <1>0, <2>2, <2>3, HandlesStep
<1>2. ASSUME NEW error \in Errors, ActivationUnchecked(error) PROVE Step
  <2> DEFINE a == ReportNetworkError(vpn, error, FALSE)
             b == [a EXCEPT !.waiting = "no"]
  <2>1. Handles(vpn, a)
    BY <1>0, ReportHandles
  <2>2. (vpn' = StartActivation(a) \/ vpn' = b) /\ guardian' = guardian
    BY <1>2 DEF ActivationUnchecked
  <2> HIDE DEF a
  <2>3. Handles(vpn, StartActivation(a))
    BY <2>1, StartActivationHandles DEF Handles
  <2>4. /\ b \in Members /\ b.queue = a.queue /\ b.running = a.running /\ b.state = a.state
        /\ b.user = a.user /\ b.keys = a.keys /\ b.devices = a.devices
        /\ b.servers = a.servers /\ b.saved = a.saved
    BY <2>1 DEF Handles, Sound, Members
  <2> HIDE DEF b
  <2>5. Keeps(a, b)
    <3>1. Sound(b)
      BY <2>1, <2>4 DEF Handles, Sound, Served
    <3>2. \A name, key : Pending(b, name, key) <=> Pending(a, name, key)
      BY <2>4 DEF Pending
    <3>. QED  BY <2>4, <3>1, <3>2 DEF Keeps, RemovalsGoOn, Quiet
  <2>6. Handles(vpn, b)
    BY <2>1, <2>5, HandlesKeeps
  <2>. QED  BY <1>0, <2>2, <2>3, <2>6, HandlesStep
<1>3. ASSUME ControllerInitialized \/ ControllerMoves PROVE Step
  <2>1. /\ guardian' = guardian
        /\ \/ vpn' = ReachOff(vpn)
           \/ \E s \in {"On", "Disconnecting"} : vpn' = ControllerStateChanged(vpn, s)
    BY <1>3 DEF ControllerInitialized, ControllerMoves
  <2>2. Handles(vpn, ReachOff(vpn))
    BY <1>0, ReachOffHandles
  <2>3. ASSUME NEW s \in {"On", "Disconnecting"}
        PROVE  Handles(vpn, ControllerStateChanged(vpn, s))
    BY <1>0, ControllerStateChangedKeeps, KeepsHandles DEF ControllerStates
  <2>. QED  BY <1>0, <2>1, <2>2, <2>3, HandlesStep
<1>. QED  BY <1>1, <1>2, <1>3

LEMMA NextStep ==
    ASSUME Inv, Next
    PROVE  Step
BY SchedulingSteps, AuthenticateStep, SubscriptionSteps, CancelAuthenticationStep,
   LogoutStep, RemoveOtherStep, OnboardingCompletedStep, UpdateRequiredStep,
   AccountChangesStep, RestartStep, RunFunctionStep, RescheduleStep, FetchSteps,
   AddonSteps, DeviceSteps, AuthenticationSteps, ControllerActionSteps, ControllerSteps
   DEF Next

LEMMA InitInv ==
    ASSUME Init
    PROVE  Inv
<1>1. guardian \in Accounts
  <2>1. SomeKey \in Keys
    BY FreshKeyIsKey DEF SomeKey
  <2>2. SomeOther \in Others
    BY AppAssumption DEF SomeOther
  <2>. QED  BY <2>1, <2>2 DEF Init, Registrations, Accounts
<1>2. NoSettings \in Settings
  BY DEF NoSettings, Settings, Accounts, NoAccount
<1>3. \A keyVersion \in BOOLEAN :
         SettingsOf([guardian EXCEPT !.active = TRUE], keyVersion) \in Settings
  BY <1>1 DEF SettingsOf, Settings, Accounts
<1>4. PICK saved \in Settings, onboarded \in BOOLEAN :
         vpn = Initialized(Constructed(saved, onboarded))
  BY <1>2, <1>3 DEF Init
<1>5. Sound(vpn) /\ vpn.devices.removed = {}
  BY <1>4, InitializedFacts
<1>. QED  BY <1>1, <1>5 DEF Inv, Tracked

LEMMA StepOrStutter ==
    ASSUME Inv, [Next]_vars
    PROVE  Step
<1>1. CASE Next
  BY <1>1, NextStep
<1>2. CASE UNCHANGED vars
  BY <1>2 DEF vars, Inv, Step
<1>. QED  BY <1>1, <1>2

LEMMA StepInv ==
    ASSUME Step
    PROVE  Inv'
BY DEF Step, Inv

-----------------------------------------------------------------------------
\* The theorems.

\* The invariant is kept by every command, reply, timer, failure, crash and restart.
THEOREM Invariance == Spec => []Inv
<1>1. Init => Inv
  BY InitInv
<1>2. Inv /\ [Next]_vars => Inv'
  BY StepOrStutter, StepInv
<1>. QED  BY <1>1, <1>2, PTL DEF Spec

\* Whatever replies, settings and tasks leave in the members of the application has
\* its type, for every set of keys and devices and every number of commands and
\* failures (the members of src/src/mozillavpn.cpp and src/src/models).
THEOREM TypeCorrect == Spec => []TypeOK
<1>1. Inv => TypeOK
  <2> SUFFICES ASSUME Inv PROVE TypeOK
    OBVIOUS
  <2>1. /\ vpn \in Members /\ guardian \in Accounts
    BY DEF Inv, Sound
  <2>2. /\ vpn.queue \in Seq(Waiting) /\ vpn.later \in Seq(Waiting) /\ vpn.running \in Running
    BY <2>1 DEF Members
  <2>3. \A s \in Seq(Waiting) : Range(s) \subseteq Waiting
    BY DEF Range
  <2>4. \A t \in AnyTask : IsTask(t)
    BY DEF AnyTask, IsTask, PublicKeys
  <2>5. \A task \in Range(vpn.queue) \cup Range(vpn.later) \cup {vpn.running} : IsTask(task)
    BY <2>2, <2>3, <2>4 DEF Waiting, Running
  <2>6. /\ vpn.state \in AppStates /\ vpn.user \in {"none", "active", "needed", "forgotten"}
        /\ vpn.controller \in ControllerStates
        /\ vpn.waiting \in {"no", "granted", "refused"} /\ vpn.saved \in Settings
    BY <2>1 DEF Members, Users
  <2>. QED  BY <2>1, <2>5, <2>6 DEF TypeOK
<1>. QED  BY <1>1, Invariance, PTL

\* TaskScheduler always has a task running while tasks wait, whatever completes,
\* deletes and reschedules them (src/src/taskscheduler.cpp, maybeRunTask()).
THEOREM QueueServed == Spec => []QueueAlwaysServed
<1>1. Inv => QueueAlwaysServed
  BY DEF Inv, Sound, Served, QueueAlwaysServed
<1>. QED  BY <1>1, Invariance, PTL

\* A device is hidden from the list only while a task removes it: a deletion of the
\* tasks spares that one, its end shows the device again, and a restart forgets both
\* (src/src/models/devicemodel.cpp, src/src/tasks/removedevice).
THEOREM RemovalsAreTracked == Spec => []RemovalsTracked
<1>1. Inv => RemovalsTracked
  BY DEF Inv, Tracked, Pending, RemovalsTracked
<1>. QED  BY <1>1, Invariance, PTL

\* MozillaVPN::maybeStateMain() is the only way into the main view, and shows it with
\* an active subscription, servers and a registered key.
THEOREM MainEnteredReady == Spec => MainIsReady
<1>1. Inv /\ [Next]_vars =>
         [vpn'.state = "Main" /\ vpn.state # "Main" =>
            vpn'.user = "active" /\ vpn'.servers /\ HasCurrentDevice(vpn')]_vars
  BY StepOrStutter DEF Step, Ready
<1>. QED  BY <1>1, Invariance, PTL DEF Spec, MainIsReady

\* A signed-out client stays signed out: every way the token is taken away but one,
\* reset() above all, deletes the functions that wait or run, and only such a function
\* shows an account without a token (MozillaVPN::reset(), logout(), errorHandled(),
\* maybeStateMain()).
THEOREM SignOutIsFinal == Spec => SignedOutStays
<1>1. Quiet(vpn') => \A task \in Range(vpn'.queue) \cup {vpn'.running} :
                        task.name # "MaybeStateMain"
  BY DEF Quiet, Pending
<1>2. Step => ShownByToken /\ FunctionsGo
  BY <1>1 DEF Step, ShownByToken, FunctionsGo
<1>3. Inv /\ [Next]_vars => [ShownByToken /\ FunctionsGo]_vars
  BY <1>2, StepOrStutter
<1>. QED  BY <1>3, Invariance, PTL DEF Spec, SignedOutStays
=============================================================================
