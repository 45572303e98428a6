----------------------------- MODULE Schedulers -----------------------------
(***************************************************************************)
(* The two schedulers of enlil-platform: the work-stealing run queues of   *)
(* threading/scheduler.rs and BareMetalScheduler of threading/mod.rs.      *)
(***************************************************************************)
(***************************************************************************)
(* The work-stealing scheduler of enlil-platform (threading/scheduler.rs): *)
(* one run queue per CPU, four priority lanes each under its own lock, and *)
(* an atomic length kept beside them.                                      *)
(*                                                                         *)
(* A step is one access to shared memory: a lane operation under the       *)
(* lane's lock, or one atomic read or update of a length.                  *)
(***************************************************************************)
EXTENDS Naturals, Sequences, FiniteSetsExt

CONSTANTS
  NumCpus,
  Priorities,  \* the priorities tasks are submitted with, within 0..3
  MaxTasks,    \* bound: tasks submitted
  Word         \* usize wraps at Word (2^64 in the code)

\* What the constants must satisfy.
RunQueuesAssumption ==
  /\ NumCpus \in Nat \ {0} /\ MaxTasks \in Nat
  /\ Priorities \subseteq 0..3
  /\ Word \in Nat /\ Word > MaxTasks + 1

Cpus  == 0 .. NumCpus - 1
Lanes == 0..3

VARIABLES
  queues,       \* per CPU, the four lanes of RunQueue.queues
  len,          \* per CPU, RunQueue.len
  next_task_id,
  pc,           \* what the thread of each CPU is in the middle of
  handed        \* history: tasks returned by pop and try_steal

vars == <<queues, len, next_task_id, pc, handed>>

Idle == [op |-> "idle"]

Init ==
  /\ queues = [c \in Cpus |-> [l \in Lanes |-> <<>>]]
  /\ len = [c \in Cpus |-> 0]
  /\ next_task_id = 0
  /\ pc = [c \in Cpus |-> Idle]
  /\ handed = {}

Queued(c) == UNION {Range(queues[c][l]) : l \in Lanes}

\* The back of a lane, and what pop_back leaves.
Back(q) == q[Len(q)]
AllButBack(q) == SubSeq(q, 1, Len(q) - 1)

Go(p, next) == pc' = [pc EXCEPT ![p] = next]

-----------------------------------------------------------------------------
(* submit and submit_to *)

\* least_loaded_cpu reads the lengths one after the other; the first smallest
\* one wins.
submit(p, prio) ==
  /\ pc[p] = Idle /\ next_task_id < MaxTasks
  /\ Go(p, [op |-> "scan", prio |-> prio, i |-> 1, best |-> 0, best_len |-> len[0]])
  /\ UNCHANGED <<queues, len, next_task_id, handed>>

least_loaded_cpu(p) ==
  LET s == pc[p] IN
  /\ s.op = "scan" /\ s.i < NumCpus
  /\ Go(p, IF len[s.i] < s.best_len
           THEN [s EXCEPT !.i = @ + 1, !.best = s.i, !.best_len = len[s.i]]
           ELSE [s EXCEPT !.i = @ + 1])
  /\ UNCHANGED <<queues, len, next_task_id, handed>>

\* The id is taken from the counter before the task is queued.
new_task(p, cpu, prio) ==
  /\ next_task_id < MaxTasks
  /\ next_task_id' = next_task_id + 1
  /\ Go(p, [op |-> "push", cpu |-> cpu, task |-> [id |-> next_task_id, prio |-> prio]])
  /\ UNCHANGED <<queues, len, handed>>

submit_to(p, cpu, prio) == pc[p] = Idle /\ new_task(p, cpu % NumCpus, prio)

submit_scanned(p) ==
  /\ pc[p].op = "scan" /\ pc[p].i = NumCpus
  /\ new_task(p, pc[p].best, pc[p].prio)

\* Mutant: a push replaces the lane.
push_overwrites(p) ==
  LET s == pc[p] IN
  /\ s.op = "push"
  /\ queues' = [queues EXCEPT ![s.cpu][s.task.prio] = <<s.task>>]
  /\ Go(p, [s EXCEPT !.op = "pushed"])
  /\ UNCHANGED <<len, next_task_id, handed>>

push(p) ==
  LET s == pc[p] IN
  /\ s.op = "push"
  /\ queues' = [queues EXCEPT ![s.cpu][s.task.prio] = Append(@, s.task)]
  /\ Go(p, [s EXCEPT !.op = "pushed"])
  /\ UNCHANGED <<len, next_task_id, handed>>

push_counted(p) ==
  LET s == pc[p] IN
  /\ s.op = "pushed"
  /\ len' = [len EXCEPT ![s.cpu] = (@ + 1) % Word]
  /\ Go(p, Idle)
  /\ UNCHANGED <<queues, next_task_id, handed>>

-----------------------------------------------------------------------------
(* pop and steal; `seen` is the history of what was queued at the start *)

pop_begins(p) ==
  /\ pc[p] = Idle
  /\ Go(p, [op |-> "pop", cpu |-> p, lane |-> 0, seen |-> Queued(p)])
  /\ UNCHANGED <<queues, len, next_task_id, handed>>

\* Mutant: lanes are searched from the least urgent up.
pop_upwards(p) ==
  LET s == pc[p]
      l == 3 - s.lane
      q == queues[s.cpu][l]
  IN
  /\ s.op = "pop" /\ s.lane \in Lanes
  /\ IF q = <<>>
     THEN Go(p, [s EXCEPT !.lane = @ + 1]) /\ UNCHANGED queues
     ELSE /\ queues' = [queues EXCEPT ![s.cpu][l] = Tail(@)]
          /\ Go(p, [op |-> "took", cpu |-> s.cpu, task |-> Head(q)])
  /\ UNCHANGED <<len, next_task_id, handed>>

\* One lane of pop, most urgent first, from the front.
pop(p) ==
  LET s == pc[p]
      q == queues[s.cpu][s.lane]
  IN
  /\ s.op = "pop" /\ s.lane \in Lanes
  /\ IF q = <<>>
     THEN Go(p, [s EXCEPT !.lane = @ + 1]) /\ UNCHANGED queues
     ELSE /\ queues' = [queues EXCEPT ![s.cpu][s.lane] = Tail(@)]
          /\ Go(p, [op |-> "took", cpu |-> s.cpu, task |-> Head(q)])
  /\ UNCHANGED <<len, next_task_id, handed>>

pop_none(p) ==
  /\ pc[p].op = "pop" /\ pc[p].lane \notin Lanes
  /\ Go(p, Idle)
  /\ UNCHANGED <<queues, len, next_task_id, handed>>

\* try_steal first reads the length of every other queue in turn.
try_steal(p) ==
  /\ pc[p] = Idle
  /\ Go(p, [op |-> "look", i |-> 0, candidates |-> {}])
  /\ UNCHANGED <<queues, len, next_task_id, handed>>

look(p) ==
  LET s == pc[p] IN
  /\ s.op = "look" /\ s.i < NumCpus
  /\ Go(p, IF s.i # p /\ len[s.i] > 1
           THEN [s EXCEPT !.i = @ + 1, !.candidates = @ \cup {<<s.i, len[s.i]>>}]
           ELSE [s EXCEPT !.i = @ + 1])
  /\ UNCHANGED <<queues, len, next_task_id, handed>>

\* The busiest candidate; of equal loads the first CPU (a stable sort).
Busiest(candidates) ==
  {a \in candidates :
     \A b \in candidates : b[2] < a[2] \/ (b[2] = a[2] /\ a[1] <= b[1])}

steal_from(p, candidates) ==
  \/ candidates = {} /\ Go(p, Idle)
  \/ \E a \in Busiest(candidates) :
       Go(p, [op |-> "steal", cpu |-> a[1], rest |-> candidates \ {a},
              lane |-> 3, seen |-> Queued(a[1])])

steal_begins(p) ==
  /\ pc[p].op = "look" /\ pc[p].i = NumCpus
  /\ steal_from(p, pc[p].candidates)
  /\ UNCHANGED <<queues, len, next_task_id, handed>>

\* One lane of steal, least urgent first, from the back.
steal(p) ==
  LET s == pc[p]
      q == queues[s.cpu][s.lane]
  IN
  /\ s.op = "steal"
  /\ \/ /\ q # <<>>
        /\ queues' = [queues EXCEPT ![s.cpu][s.lane] = AllButBack(@)]
        /\ Go(p, [op |-> "took", cpu |-> s.cpu, task |-> Back(q)])
     \/ /\ q = <<>> /\ s.lane > 0
        /\ Go(p, [s EXCEPT !.lane = @ - 1])
        /\ UNCHANGED queues
     \/ /\ q = <<>> /\ s.lane = 0
        /\ steal_from(p, s.rest)
        /\ UNCHANGED queues
  /\ UNCHANGED <<len, next_task_id, handed>>

\* Mutant: a steal forgets to count the task out.
took_uncounted(p) ==
  LET s == pc[p] IN
  /\ s.op = "took"
  /\ len' = IF s.cpu = p THEN [len EXCEPT ![p] = (@ + Word - 1) % Word] ELSE len
  /\ handed' = handed \cup {s.task}
  /\ Go(p, Idle)
  /\ UNCHANGED <<queues, next_task_id>>

\* The end of pop and of steal: the length follows, and the caller has the task.
took(p) ==
  LET s == pc[p] IN
  /\ s.op = "took"
  /\ len' = [len EXCEPT ![s.cpu] = (@ + Word - 1) % Word]
  /\ handed' = handed \cup {s.task}
  /\ Go(p, Idle)
  /\ UNCHANGED <<queues, next_task_id>>

Next ==
  \E p \in Cpus :
    \/ \E prio \in Priorities :
         submit(p, prio) \/ \E cpu \in 0..NumCpus : submit_to(p, cpu, prio)
    \/ least_loaded_cpu(p) \/ submit_scanned(p) \/ push(p) \/ push_counted(p)
    \/ pop_begins(p) \/ pop(p) \/ pop_none(p)
    \/ try_steal(p) \/ look(p) \/ steal_begins(p) \/ steal(p) \/ took(p)

Spec == Init /\ [][Next]_vars

-----------------------------------------------------------------------------
(* Properties *)

At(op) == {p \in Cpus : pc[p].op = op}
On(op, c) == {p \in At(op) : pc[p].cpu = c}

Task == [id : Nat, prio : Lanes]

\* What a thread in the middle of an operation remembers.
Scanning ==
  [op : {"scan"}, prio : Priorities, i : 1..NumCpus, best : Cpus, best_len : Nat]
Pushing  == [op : {"push", "pushed"}, cpu : Cpus, task : Task]
Popping  == [op : {"pop"}, cpu : Cpus, lane : 0..4, seen : SUBSET Task]
Looking  == [op : {"look"}, i : 0..NumCpus, candidates : SUBSET (Cpus \X Nat)]
Stealing ==
  [op : {"steal"}, cpu : Cpus, rest : SUBSET (Cpus \X Nat), lane : Lanes,
   seen : SUBSET Task]
Taking   == [op : {"took"}, cpu : Cpus, task : Task]

Threads ==
  {Idle} \cup Scanning \cup Pushing \cup Popping \cup Looking \cup Stealing \cup Taking

Typed ==
  /\ queues \in [Cpus -> [Lanes -> Seq(Task)]]
  /\ len \in [Cpus -> 0 .. Word - 1]
  /\ next_task_id \in 0..MaxTasks
  /\ pc \in [Cpus -> Threads]
  /\ handed \subseteq Task

\* The threads with a task in their hands: before it is in a lane, or after.
Holding == At("push") \cup At("took")

\* Two entries of the lanes, or two hands, or two tasks returned, are never of
\* one id, and no id is in two of the three.
Apart ==
  /\ \A c \in Cpus, l \in Lanes : \A i \in DOMAIN queues[c][l] :
       \A d \in Cpus, m \in Lanes : \A j \in DOMAIN queues[d][m] :
         queues[c][l][i].id = queues[d][m][j].id => c = d /\ l = m /\ i = j
  /\ \A p, q \in Holding : pc[p].task.id = pc[q].task.id => p = q
  /\ \A t, u \in handed : t.id = u.id => t = u
  /\ \A p \in Holding, t \in handed : pc[p].task.id # t.id
  /\ \A c \in Cpus : \A t \in Queued(c) :
       /\ \A p \in Holding : pc[p].task.id # t.id
       /\ \A u \in handed : u.id # t.id

\* The ids given out are the ids of the tasks that are somewhere.
AllSomewhere ==
  0 .. next_task_id - 1
    = {t.id : t \in handed \cup {pc[p].task : p \in Holding}
                    \cup UNION {Queued(c) : c \in Cpus}}

\* Types, and every task submitted is in exactly one place: about to be pushed,
\* in one lane of one queue and there only once, in the hands of a thread that
\* has yet to count it out, or returned to a caller (push, pop, steal).
TypeOK ==
  /\ Typed /\ Apart /\ AllSomewhere
  /\ \A c \in Cpus, l \in Lanes : \A t \in Range(queues[c][l]) : t.prio = l

\* A length differs from the number of queued tasks only by the updates still
\* on their way, so a quiet scheduler's lengths are exact (RunQueue.len).
LenAccounts ==
  \A c \in Cpus :
    (len[c] + Cardinality(On("pushed", c))) % Word
      = (Cardinality(Queued(c)) + Cardinality(On("took", c))) % Word

\* What of the tasks a search saw at its start is still queued.
Searched(p) == pc[p].seen \cap Queued(pc[p].cpu)

\* A step of p out of a search.
Respects(p) ==
  /\ pc[p].op = "pop" /\ pc'[p].op = "took" =>
       \A t \in Searched(p) : t.prio >= pc'[p].task.prio
  /\ pc[p].op = "steal" /\ pc'[p].op = "took" =>
       \A t \in Searched(p) : t.prio <= pc'[p].task.prio
  /\ pc[p].op = "pop" /\ pc'[p].op = "idle" => Searched(p) = {}
  /\ pc[p].op = "steal" /\ pc'[p].op \in {"idle", "steal"}
       /\ pc[p].lane = 0 /\ pc'[p] # pc[p] => Searched(p) = {}

\* pop hands out no task less urgent than one that was queued all along, and
\* steal none more urgent; neither comes back empty-handed past such a task
\* (RunQueue::pop, RunQueue::steal).
PriorityRespected == [][\A p \in Cpus : Respects(p)]_vars

-----------------------------------------------------------------------------
(***************************************************************************)
(* BareMetalScheduler of enlil-platform (threading/mod.rs): one RunQueue   *)
(* per CPU under a lock, submission by affinity, and run_one, which takes  *)
(* a task from the CPU's own queue or steals one and runs it.              *)
(*                                                                         *)
(* run_one runs the task inside the scope of the queue's guard, so `lock`  *)
(* records who holds which queue while a task body runs; every other use   *)
(* of a queue takes and releases its lock within one step.                 *)
(***************************************************************************)
CONSTANTS
  Tasks, NoTask, \* tasks; NoTask = a body that submits nothing
  Outer,         \* the tasks submitted from outside a task body
  Prio,          \* [Tasks -> 0..3]
  Affinity,      \* [Tasks -> [kind : {"any", "pinned", "set"}, cpus : Seq(Nat)]]
  Spawns         \* [Tasks -> Tasks \cup {NoTask}]: what a body submits

NoCpu == NumCpus

\* What the constants must satisfy.
TaskSchedulerAssumption ==
  /\ NumCpus \in Nat \ {0} /\ Outer \subseteq Tasks /\ NoTask \notin Tasks
  /\ Prio \in [Tasks -> Lanes] /\ Spawns \in [Tasks -> Tasks \cup {NoTask}]
  /\ Affinity \in [Tasks -> [kind : {"any", "pinned", "set"}, cpus : Seq(Nat)]]
  /\ \A t \in Tasks : Affinity[t].kind = "pinned" => Len(Affinity[t].cpus) = 1

VARIABLES
  Bms_queues, \* per CPU, the lanes of its RunQueue
  lock,   \* per queue, the CPU whose task body runs under its lock, or NoCpu
  run,    \* per CPU, where it is in run_one
  sub,    \* per CPU, where it is in submit
  fate,   \* history, per task: "new", "submitted", "queued", "rejected", "ran"
  ran_on  \* history, per task, the CPU that ran it

Bms_vars == <<Bms_queues, lock, run, sub, fate, ran_on>>

BmsIdle == [at |-> "idle"]

BmsInit ==
  /\ Bms_queues = [c \in Cpus |-> [l \in Lanes |-> <<>>]]
  /\ lock = [c \in Cpus |-> NoCpu]
  /\ run = [c \in Cpus |-> BmsIdle]
  /\ sub = [c \in Cpus |-> BmsIdle]
  /\ fate = [t \in Tasks |-> "new"]
  /\ ran_on = [t \in Tasks |-> NoCpu]

Free(c) == lock[c] = NoCpu
Len4(c) == Len(Bms_queues[c][0]) + Len(Bms_queues[c][1]) + Len(Bms_queues[c][2])
             + Len(Bms_queues[c][3])
NonEmpty(c) == {l \in Lanes : Bms_queues[c][l] # <<>>}

-----------------------------------------------------------------------------
(* submit *)

\* The CPUs a task may be placed on, in the order they are looked at.
Listed(t) ==
  IF Affinity[t].kind = "any" THEN [i \in 1..NumCpus |-> i - 1] ELSE Affinity[t].cpus

Scan(t, cpus) ==
  [at |-> "scan", task |-> t, rest |-> cpus, best |-> NoCpu, best_len |-> 0]

\* Mutant: a pinned task is placed by comparing lengths too.
submit_pinned_scans(p, t) ==
  /\ fate[t] = "new" /\ sub[p] = BmsIdle
  /\ fate' = [fate EXCEPT ![t] = "submitted"]
  /\ sub' = [sub EXCEPT ![p] = Scan(t, [i \in 1..NumCpus |-> i - 1])]
  /\ UNCHANGED <<Bms_queues, lock, ran_on>>

Bms_submit(p, t) ==
  LET pinned == Affinity[t].kind = "pinned"
      cpu    == Head(Listed(t))
  IN
  /\ fate[t] = "new" /\ sub[p] = BmsIdle
  /\ \/ /\ ~pinned
        /\ fate' = [fate EXCEPT ![t] = "submitted"]
        /\ sub' = [sub EXCEPT ![p] = Scan(t, Listed(t))]
     \/ /\ pinned /\ cpu < NumCpus
        /\ fate' = [fate EXCEPT ![t] = "submitted"]
        /\ sub' = [sub EXCEPT ![p] = [at |-> "push", task |-> t, target |-> cpu]]
     \/ /\ pinned /\ cpu >= NumCpus
        /\ fate' = [fate EXCEPT ![t] = "rejected"]
        /\ UNCHANGED sub
  /\ UNCHANGED <<Bms_queues, lock, ran_on>>

submit_outside(p, t) == run[p] = BmsIdle /\ t \in Outer /\ Bms_submit(p, t) /\ UNCHANGED run

\* One length of the search for the least loaded CPU: a CPU that does not exist
\* is passed over, and of equal ones the first wins.
submit_scan(p) ==
  LET s == sub[p]
      c == Head(s.rest)
      better == c < NumCpus /\ (s.best = NoCpu \/ Len4(c) < s.best_len)
  IN
  /\ s.at = "scan" /\ s.rest # <<>> /\ (c < NumCpus => Free(c))
  /\ sub' = [sub EXCEPT ![p] =
       [s EXCEPT !.rest = Tail(@), !.best = IF better THEN c ELSE @,
                 !.best_len = IF better THEN Len4(c) ELSE @]]
  /\ UNCHANGED <<Bms_queues, lock, run, fate, ran_on>>

\* The end of the search: no CPU of the set exists, or there is a target.
submit_chosen(p) ==
  LET s == sub[p] IN
  /\ s.at = "scan" /\ s.rest = <<>>
  /\ \/ /\ s.best = NoCpu
        /\ fate' = [fate EXCEPT ![s.task] = "rejected"]
        /\ sub' = [sub EXCEPT ![p] = BmsIdle]
     \/ /\ s.best # NoCpu
        /\ sub' = [sub EXCEPT ![p] =
             [at |-> "push", task |-> s.task, target |-> s.best]]
        /\ UNCHANGED fate
  /\ UNCHANGED <<Bms_queues, lock, run, ran_on>>

\* Mutant: a push replaces the lane.
submit_push_overwrites(p) ==
  LET s == sub[p] IN
  /\ s.at = "push" /\ Free(s.target)
  /\ Bms_queues' = [Bms_queues EXCEPT ![s.target][Prio[s.task]] = <<s.task>>]
  /\ fate' = [fate EXCEPT ![s.task] = "queued"]
  /\ sub' = [sub EXCEPT ![p] = BmsIdle]
  /\ UNCHANGED <<lock, run, ran_on>>

submit_push(p) ==
  LET s == sub[p] IN
  /\ s.at = "push" /\ Free(s.target)
  /\ Bms_queues' = [Bms_queues EXCEPT ![s.target][Prio[s.task]] = Append(@, s.task)]
  /\ fate' = [fate EXCEPT ![s.task] = "queued"]
  /\ sub' = [sub EXCEPT ![p] = BmsIdle]
  /\ UNCHANGED <<lock, run, ran_on>>

-----------------------------------------------------------------------------
(* run_one *)

\* The task starts with the lock of the queue it came from still held.
Start(p, c, t) ==
  /\ lock' = [lock EXCEPT ![c] = p]
  /\ run' = [run EXCEPT ![p] = [at |-> "body", task |-> t, queue |-> c]]
  /\ fate' = [fate EXCEPT ![t] = "ran"]
  /\ ran_on' = [ran_on EXCEPT ![t] = p]

run_one(p) ==
  /\ run[p] = BmsIdle /\ sub[p] = BmsIdle
  /\ run' = [run EXCEPT ![p] = [at |-> "local"]]
  /\ UNCHANGED <<Bms_queues, lock, sub, fate, ran_on>>

\* RunQueue::pop: the front of the most urgent lane.
run_local(p) ==
  /\ run[p].at = "local" /\ Free(p)
  /\ \/ /\ NonEmpty(p) # {}
        /\ LET l == Min(NonEmpty(p)) IN
           /\ Bms_queues' = [Bms_queues EXCEPT ![p][l] = Tail(@)]
           /\ Start(p, p, Head(Bms_queues[p][l]))
     \/ /\ NonEmpty(p) = {}
        /\ run' = [run EXCEPT ![p] = [at |-> "scan", i |-> 0, victim |-> NoCpu, victim_len |-> 0]]
        /\ UNCHANGED <<Bms_queues, lock, fate, ran_on>>
  /\ UNCHANGED sub

\* The fullest neighbour, one queue at a time.
find_victim(p) ==
  LET s == run[p] IN
  /\ s.at = "scan" /\ s.i < NumCpus /\ (s.i # p => Free(s.i))
  /\ run' = [run EXCEPT ![p] =
       IF s.i # p /\ Len4(s.i) > s.victim_len
       THEN [s EXCEPT !.i = @ + 1, !.victim = s.i, !.victim_len = Len4(s.i)]
       ELSE [s EXCEPT !.i = @ + 1]]
  /\ UNCHANGED <<Bms_queues, lock, sub, fate, ran_on>>

\* RunQueue::steal: the back of the least urgent lane.
run_stolen(p) ==
  LET s == run[p] IN
  /\ s.at = "scan" /\ s.i = NumCpus
  /\ \/ /\ s.victim # NoCpu /\ Free(s.victim) /\ NonEmpty(s.victim) # {}
        /\ LET l == Max(NonEmpty(s.victim)) IN
           /\ Bms_queues' = [Bms_queues EXCEPT ![s.victim][l] = AllButBack(@)]
           /\ Start(p, s.victim, Back(Bms_queues[s.victim][l]))
     \/ /\ s.victim # NoCpu => Free(s.victim) /\ NonEmpty(s.victim) = {}
        /\ run' = [run EXCEPT ![p] = BmsIdle]
        /\ UNCHANGED <<Bms_queues, lock, fate, ran_on>>
  /\ UNCHANGED sub

\* The body submits its task, if it has one; the queue is still locked.
body_submits(p) ==
  /\ run[p].at = "body" /\ Spawns[run[p].task] # NoTask
  /\ Bms_submit(p, Spawns[run[p].task])
  /\ run' = [run EXCEPT ![p].at = "returning"]

\* Mutant: the guard is forgotten.
run_returns_locked(p) ==
  /\ \/ run[p].at = "body" /\ Spawns[run[p].task] = NoTask
     \/ run[p].at = "returning" /\ sub[p] = BmsIdle
  /\ run' = [run EXCEPT ![p] = BmsIdle]
  /\ UNCHANGED <<Bms_queues, lock, sub, fate, ran_on>>

\* The body is over and the guard is dropped.
run_returns(p) ==
  /\ \/ run[p].at = "body" /\ Spawns[run[p].task] = NoTask
     \/ run[p].at = "returning" /\ sub[p] = BmsIdle
  /\ lock' = [lock EXCEPT ![run[p].queue] = NoCpu]
  /\ run' = [run EXCEPT ![p] = BmsIdle]
  /\ UNCHANGED <<Bms_queues, sub, fate, ran_on>>

Step(p) ==
  \/ submit_scan(p) \/ submit_chosen(p) \/ submit_push(p)
  \/ run_one(p) \/ run_local(p) \/ find_victim(p) \/ run_stolen(p)
  \/ body_submits(p) \/ run_returns(p)

BmsNext == \E p \in Cpus : Step(p) \/ \E t \in Tasks : submit_outside(p, t)

BmsSpec == BmsInit /\ [][BmsNext]_Bms_vars

\* Every CPU keeps calling run_one, and a CPU that can go on does.
LiveSpec == BmsSpec /\ \A p \in Cpus : WF_Bms_vars(Step(p))

-----------------------------------------------------------------------------
(* Properties *)

\* Types, and the locks held are exactly those of the Bms_queues whose tasks run.
BmsTypeOK ==
  /\ \A c \in Cpus, l \in Lanes :
       /\ IsInjective(Bms_queues[c][l])
       /\ \A t \in Range(Bms_queues[c][l]) : fate[t] = "queued" /\ Prio[t] = l
  /\ \A c \in Cpus : lock[c] = NoCpu \/ lock[c] \in Cpus
  /\ \A p, c \in Cpus :
       lock[c] = p <=> run[p].at \in {"body", "returning"} /\ run[p].queue = c

\* A task accepted by submit is in exactly one place of one lane until some CPU
\* runs it, and nowhere before or after, so it runs at most once and is not lost
\* (push, pop, steal).
NoTaskLost ==
  \A t \in Tasks :
    IF fate[t] = "queued"
    THEN \E c \in Cpus, l \in Lanes : \E i \in DOMAIN Bms_queues[c][l] :
           \A d \in Cpus, m \in Lanes : \A j \in DOMAIN Bms_queues[d][m] :
             Bms_queues[d][m][j] = t <=> d = c /\ m = l /\ j = i
    ELSE \A c \in Cpus, l \in Lanes : t \notin Range(Bms_queues[c][l])

Placeable(t) == \E i \in DOMAIN Listed(t) : Listed(t)[i] < NumCpus

\* Every task submitted is run in the end, or refused if its affinity names no
\* CPU there is: again and again, none is waiting (submit, run_one).
AllRun ==
  []<>(\A t \in Tasks :
         fate[t] \in {"new", IF Placeable(t) THEN "ran" ELSE "rejected"})

\* run_one returns once its task body has ended (run_one).
RunOneReturns == \A p \in Cpus : (run[p].at = "body") ~> (run[p] = BmsIdle)

=============================================================================
