-------------------------- MODULE RunQueueProofs ---------------------------
(***************************************************************************)
(* The run queues of Schedulers hand out tasks by priority, and their      *)
(* lengths account for what is queued, up to the pushes and takes under    *)
(* way, for any number of CPUs and any word length.                        *)
(***************************************************************************)
EXTENDS SchedulersProofs, FiniteSetTheorems

-----------------------------------------------------------------------------
(* What they hand out respects the priorities, whatever the other CPUs do during *)
(* a search                                                                      *)

\* What a thread knows in the middle of a search: every task it saw is older
\* than the ones on their way in, and what is left of them is in lanes ahead.
Known(p) ==
  \A t \in pc[p].seen :
    t.id < next_task_id /\ \A q \in At("push") : pc[q].task.id # t.id

SearchAt(p) ==
  /\ pc[p].op \in {"pop", "steal"} => Known(p)
  /\ pc[p].op = "pop" => \A t \in Searched(p) : t.prio >= pc[p].lane
  /\ pc[p].op = "steal" => \A t \in Searched(p) : t.prio <= pc[p].lane

SearchInv == \A p \in Cpus : SearchAt(p)

\* What no step does: queue a task that was not on its way in, or bring one in
\* under an old id.
Orderly ==
  /\ next_task_id' \in Int /\ next_task_id' >= next_task_id
  /\ \A c \in Cpus : \A u \in Queued(c)' :
       u \in Queued(c) \/ \E r \in At("push") : u = pc[r].task
  /\ \A r \in At("push")' :
       \/ r \in At("push") /\ pc'[r] = pc[r]
       \/ pc'[r].task.id = next_task_id

LEMMA QueuedIds ==
  ASSUME RunQueuesAssumption, Typed, Placed, NEW c \in Cpus, NEW t \in Queued(c)
  PROVE  /\ t.id < next_task_id /\ t.id \in Nat /\ t.prio \in Lanes
         /\ \A q \in At("push") : pc[q].task.id # t.id
<1>1. t \in Task /\ next_task_id \in Int
  BY QueuedTasks DEF Typed, RunQueuesAssumption
<1>2. Somewhere(t.id)
  BY DEF Somewhere
<1>3. t.id \in 0 .. next_task_id - 1
  BY <1>2, AllSomewhereIff DEF Placed
<1>4. \A q \in At("push") : pc[q].task.id # t.id
  BY DEF Placed, Apart, Holding
<1> QED
  BY <1>1, <1>3, <1>4 DEF Task

LEMMA QuietOrderly ==
  ASSUME RunQueuesAssumption, Typed, NEW p \in Cpus, Quiet(p)
  PROVE  Orderly
<1>1. next_task_id' = next_task_id /\ next_task_id \in Int /\ \A c : Queued(c)' = Queued(c)
  BY DEF Quiet, Queued, Typed, RunQueuesAssumption
<1>2. \A r \in At("push")' : r \in At("push") /\ pc'[r] = pc[r]
  BY DEF Quiet, At
<1> QED
  BY <1>1, <1>2 DEF Orderly

LEMMA EnterOrderly ==
  ASSUME RunQueuesAssumption, Typed, NEW p \in Cpus, Enter(p)
  PROVE  Orderly
<1>1. /\ next_task_id' = next_task_id + 1 /\ next_task_id \in Int
      /\ \A c : Queued(c)' = Queued(c)
  BY DEF Enter, Queued, Typed, RunQueuesAssumption
<1>2. \A r \in At("push")' :
        (r \in At("push") /\ pc'[r] = pc[r]) \/ pc'[r].task.id = next_task_id
  BY DEF Enter, At
<1> QED
  BY <1>1, <1>2 DEF Orderly

LEMMA PushOrderly ==
  ASSUME RunQueuesAssumption, Typed, NEW p \in Cpus, push(p)
  PROVE  Orderly
<1>0. pc[p] \in Pushing /\ pc[p].op = "push" /\ p \in At("push")
  BY ThreadAt DEF Typed, push, At
<1>1. PICK d \in Cpus, t \in Task : d = pc[p].cpu /\ t = pc[p].task /\ t.prio \in Lanes
  BY <1>0 DEF Pushing, Task
<1>2. /\ pc'[p].op = "pushed" /\ \A q \in Cpus \ {p} : pc'[q] = pc[q]
      /\ Put(d, t.prio, t) /\ next_task_id' = next_task_id /\ next_task_id \in Int
  BY <1>0, <1>1 DEF push, Put, Go, Typed, Pushing, RunQueuesAssumption
<1>3. Queued(d)' = Queued(d) \cup {t} /\ \A c \in Cpus \ {d} : Queued(c)' = Queued(c)
  BY <1>1, <1>2, PutQueued
<1>4. \A r \in At("push")' : r \in At("push") /\ pc'[r] = pc[r]
  BY <1>2 DEF At
<1> QED
  BY <1>0, <1>1, <1>2, <1>3, <1>4 DEF Orderly

LEMMA TakeOrderly ==
  ASSUME RunQueuesAssumption, Typed, Placed, NEW p \in Cpus, NEW d \in Cpus,
         NEW l \in Lanes, NEW k \in DOMAIN queues[d][l], Take(p, d, l, k)
  PROVE  Orderly
<1>1. \A c \in Cpus : Queued(c)' \subseteq Queued(c)
  BY CutQueued DEF Take, Placed
<1>2. next_task_id' = next_task_id /\ next_task_id \in Int
  BY DEF Take, Typed, RunQueuesAssumption
<1>3. \A r \in At("push")' : r \in At("push") /\ pc'[r] = pc[r]
  BY DEF Take, At
<1> QED
  BY <1>1, <1>2, <1>3 DEF Orderly

LEMMA TookOrderly ==
  ASSUME RunQueuesAssumption, Typed, NEW p \in Cpus, took(p)
  PROVE  Orderly
<1>1. next_task_id' = next_task_id /\ next_task_id \in Int /\ \A c : Queued(c)' = Queued(c)
  BY DEF took, Queued, Typed, RunQueuesAssumption
<1>2. pc'[p].op = "idle" /\ \A q \in Cpus \ {p} : pc'[q] = pc[q]
  BY DEF took, Go, Typed, Idle
<1>3. \A r \in At("push")' : r \in At("push") /\ pc'[r] = pc[r]
  BY <1>2 DEF At
<1> QED
  BY <1>1, <1>3 DEF Orderly

\* A thread that stays where it is keeps what it knows.
LEMMA SearchKept ==
  ASSUME Typed, SearchInv, Orderly, NEW q \in Cpus, pc'[q].op \in {"pop", "steal"},
         pc[q].op = pc'[q].op, pc[q].seen = pc'[q].seen, pc[q].cpu = pc'[q].cpu
  PROVE  Known(q)' /\ Searched(q)' \subseteq Searched(q)
<1>0. pc[q] \in Popping \/ pc[q] \in Stealing
  BY ThreadAt DEF Typed
<1>1. pc[q].cpu \in Cpus /\ pc[q].seen \subseteq Task /\ Known(q)
  BY <1>0 DEF Popping, Stealing, SearchInv, SearchAt
<1>2. ASSUME NEW t \in pc[q].seen
      PROVE  t.id < next_task_id' /\ \A r \in At("push")' : pc'[r].task.id # t.id
  <2>1. t.id \in Int /\ t.id < next_task_id /\ \A r \in At("push") : pc[r].task.id # t.id
    BY <1>1 DEF Known, Task
  <2>2. next_task_id \in Int /\ next_task_id' \in Int /\ next_task_id' >= next_task_id
    BY DEF Orderly, Typed
  <2>3. t.id < next_task_id' /\ t.id # next_task_id
    BY <2>1, <2>2
  <2> QED
    BY <2>1, <2>3 DEF Orderly
<1>3. Known(q)'
  BY <1>2 DEF Known
<1>4. ASSUME NEW u \in Searched(q)' PROVE u \in Searched(q)
  <2>1. u \in pc[q].seen /\ u \in Queued(pc[q].cpu)'
    BY <1>4 DEF Searched, Queued
  <2> QED
    BY <1>1, <2>1 DEF Searched, Known, Orderly, Queued
<1> QED
  BY <1>3, <1>4

\* It is enough to look at the thread that moves.
LEMMA SearchMover ==
  ASSUME Typed, SearchInv, Orderly, NEW p \in Cpus,
         \A q \in Cpus \ {p} : pc'[q] = pc[q], SearchAt(p)', Respects(p)
  PROVE  SearchInv' /\ \A q \in Cpus : Respects(q)
<1>1. ASSUME NEW q \in Cpus, q # p PROVE SearchAt(q)' /\ Respects(q)
  <2>1. pc'[q] = pc[q]
    BY ZenonT(30), <1>1
  <2>2. pc'[q].op \in {"pop", "steal"} => Known(q)' /\ Searched(q)' \subseteq Searched(q)
    BY ZenonT(30), <2>1, SearchKept
  <2>3. SearchAt(q)
    BY ZenonT(30) DEF SearchInv
  <2> QED
    BY <2>1, <2>2, <2>3 DEF SearchAt, Respects
<1> QED
  BY ZenonT(30), <1>1 DEF SearchInv

\* Steps of threads that are not searching, before or after.
LEMMA SearchElsewhere ==
  ASSUME Typed, SearchInv, Orderly, NEW p \in Cpus,
         \A q \in Cpus \ {p} : pc'[q] = pc[q],
         pc[p].op \notin {"pop", "steal"}, pc'[p].op \notin {"pop", "steal"}
  PROVE  SearchInv' /\ \A q \in Cpus : Respects(q)
BY ZenonT(30), SearchMover DEF SearchAt, Respects

\* A search begins.
LEMMA SearchBegins ==
  ASSUME RunQueuesAssumption, Typed, Placed, NEW p \in Cpus, Quiet(p), NEW c \in Cpus,
         pc'[p].cpu = c, pc'[p].seen = Queued(c),
         \/ pc'[p].op = "pop" /\ pc'[p].lane = 0
         \/ pc'[p].op = "steal" /\ pc'[p].lane = 3
  PROVE  SearchAt(p)'
<1>1. next_task_id' = next_task_id /\ \A d : Queued(d)' = Queued(d)
  BY DEF Quiet, Queued
<1>2. \A r \in At("push")' : r \in At("push") /\ pc'[r] = pc[r]
  BY DEF Quiet, At
<1>3. Known(p)'
  BY <1>1, <1>2, QueuedIds DEF Known
<1>4. Searched(p)' \subseteq Queued(c)
  BY <1>1 DEF Searched
<1>5. \A t \in Queued(c) : t.prio \in 0..3
  BY QueuedIds DEF Lanes
<1>6. \A t \in Searched(p)' : t.prio >= 0 /\ t.prio <= 3
  BY <1>4, <1>5
<1> QED
  BY <1>3, <1>6 DEF SearchAt

\* An empty lane: no task of its priority is queued.
LEMMA LaneEmpty ==
  ASSUME Typed, Placed, NEW c \in Cpus, NEW l \in Lanes, queues[c][l] = <<>>
  PROVE  \A t \in Queued(c) : t.prio # l
<1> SUFFICES ASSUME NEW t \in Queued(c), t.prio = l PROVE FALSE
  OBVIOUS
<1>1. PICK m \in Lanes : \E i \in DOMAIN queues[c][m] : t = queues[c][m][i]
  BY InQueued
<1>2. t.prio = m
  BY <1>1 DEF Placed, Range
<1> QED
  BY <1>1, <1>2

LEMMA PopSearch ==
  ASSUME RunQueuesAssumption, Typed, Placed, SearchInv, NEW p \in Cpus,
         pop_begins(p) \/ pop(p) \/ pop_none(p)
  PROVE  SearchInv' /\ \A q \in Cpus : Respects(q)
<1>0. pc[p] \in Threads /\ SearchAt(p)
  BY ZenonT(30) DEF Typed, SearchInv
<1>1. CASE pop_begins(p)
  <2>1. Plain(p)
    BY ZenonT(30), <1>1, PopSteps
  <2>2. /\ pc'[p].op = "pop" /\ pc'[p].lane = 0 /\ pc'[p].cpu = p /\ pc'[p].seen = Queued(p)
        /\ pc[p].op = "idle"
    BY <1>1 DEF pop_begins, Go, Typed, Idle
  <2>3. SearchAt(p)'
    BY ZenonT(30), <2>1, <2>2, SearchBegins DEF Plain
  <2> QED
    BY ZenonT(30), <2>1, <2>2, <2>3, QuietOrderly, SearchMover DEF Plain, Quiet, Respects
<1>2. CASE pop_none(p)
  <2>1. Plain(p)
    BY <1>2, PopSteps
  <2>2. pc'[p].op = "idle" /\ pc[p].op = "pop" /\ pc[p] \in Popping /\ pc[p].lane \notin Lanes
    BY <1>0, <1>2, ThreadAt DEF pop_none, Go, Typed, Idle
  <2>3. pc[p].lane = 4 /\ pc[p].cpu \in Cpus
    BY <2>2 DEF Popping, Lanes
  <2>4. Searched(p) = {}
    <3>1. \A t \in Searched(p) : t.prio \in 0..3 /\ t.prio >= 4
      BY ZenonT(30), <1>0, <2>2, <2>3, QueuedIds DEF Searched, SearchAt, Lanes
    <3> QED
      BY <3>1
  <2>5. SearchAt(p)' /\ Respects(p)
    BY <2>2, <2>4 DEF SearchAt, Respects
  <2> QED
    BY <2>1, <2>5, QuietOrderly, SearchMover DEF Plain, Quiet
<1>3. CASE pop(p)
  <2> DEFINE c == pc[p].cpu
             l == pc[p].lane
  <2>1. pc[p] \in Popping /\ pc[p].op = "pop" /\ l \in Lanes
    BY ZenonT(30), <1>0, <1>3, ThreadAt DEF pop
  <2>2. c \in Cpus
    BY ZenonT(30), <2>1 DEF Popping
  <2>3. CASE queues[c][l] = <<>>
    <3>1. /\ pc' = [pc EXCEPT ![p] = [pc[p] EXCEPT !.lane = l + 1]]
          /\ UNCHANGED <<queues, next_task_id, handed>>
      BY <1>3, <2>3 DEF pop, Go
    <3>2. /\ pc'[p].op = "pop" /\ pc'[p].cpu = c /\ pc'[p].seen = pc[p].seen
          /\ pc'[p].lane = l + 1
      BY <2>1, <3>1 DEF Typed, Popping
    <3>3. \A q \in Cpus \ {p} : pc'[q] = pc[q]
      BY <3>1 DEF Typed
    <3>4. Quiet(p)
      BY <2>1, <3>1, <3>2, <3>3 DEF Quiet
    <3>5. Orderly
      BY <3>4, QuietOrderly
    <3>6. Known(p)' /\ Searched(p)' \subseteq Searched(p)
      BY <2>1, <3>2, <3>5, SearchKept
    <3>7. \A t \in Searched(p) : t.prio >= l + 1
      <4>1. \A t \in Searched(p) : t.prio # l /\ t.prio >= l /\ t.prio \in Lanes
        BY ZenonT(30), <1>0, <2>1, <2>2, <2>3, LaneEmpty, QueuedIds DEF Searched, SearchAt
      <4> QED
        BY <2>1, <4>1 DEF Lanes
    <3>8. SearchAt(p)' /\ Respects(p)
      BY SMTT(30), <2>1, <3>2, <3>6, <3>7 DEF SearchAt, Respects
    <3> QED
      BY <3>3, <3>5, <3>8, SearchMover
  <2>4. CASE queues[c][l] # <<>>
    <3>1. pc'[p].op = "took" /\ pc'[p].task = Head(queues[c][l])
      BY SMTT(30), <1>3, <2>4 DEF pop, Go, Typed
    <3>2. /\ queues[c][l] \in Seq(Task) /\ 1 \in DOMAIN queues[c][l]
          /\ Head(queues[c][l]) = queues[c][l][1]
      BY SMTT(20), <2>1, <2>2, <2>4, LaneType, EmptySeq, HeadTailProperties
    <3>3. pc'[p].task.prio = l
      BY SMTT(20), <2>1, <2>2, <3>1, <3>2 DEF Placed, Range
    <3>4. PICK d \in Cpus, m \in Lanes : \E k \in DOMAIN queues[d][m] : Take(p, d, m, k)
      BY ZenonT(30), <1>3, <3>1, PopSteps DEF Plain, Quiet
    <3>5. Orderly
      BY SMTT(20), <3>4, TakeOrderly
    <3>6. SearchAt(p)' /\ Respects(p)
      BY ZenonT(20), <1>0, <2>1, <3>1, <3>3 DEF SearchAt, Respects
    <3> QED
      BY ZenonT(30), <3>4, <3>5, <3>6, SearchMover DEF Take
  <2> QED
    BY ZenonT(30), <2>3, <2>4
<1> QED
  BY <1>1, <1>2, <1>3

\* Where steal_from sends a thread, as a search.
LEMMA StealBegins ==
  ASSUME RunQueuesAssumption, Typed, Placed, NEW p \in Cpus, Quiet(p),
         NEW candidates \in SUBSET (Cpus \X Nat), steal_from(p, candidates)
  PROVE  SearchAt(p)'
<1>1. CASE Go(p, Idle)
  BY SMTT(30), <1>1 DEF Go, Typed, Idle, SearchAt
<1>2. CASE \E s \in Stealing : /\ Go(p, s) /\ s \in Threads /\ s.op = "steal" /\ s.lane = 3
                               /\ s.seen = Queued(s.cpu)
  <2>1. PICK s \in Stealing : /\ Go(p, s) /\ s \in Threads /\ s.op = "steal" /\ s.lane = 3
                              /\ s.seen = Queued(s.cpu)
    BY <1>2
  <2>2. PICK c \in Cpus : c = s.cpu
    BY DEF Stealing
  <2>3. /\ pc'[p].op = "steal" /\ pc'[p].lane = 3 /\ pc'[p].cpu = c
        /\ pc'[p].seen = Queued(c)
    BY <2>1, <2>2 DEF Go, Typed
  <2> QED
    BY <2>3, SearchBegins
<1> QED
  BY SMTT(30), <1>1, <1>2, StealFrom

LEMMA StealSearch ==
  ASSUME RunQueuesAssumption, Typed, Placed, SearchInv, NEW p \in Cpus,
         steal_begins(p) \/ steal(p)
  PROVE  SearchInv' /\ \A q \in Cpus : Respects(q)
<1>0. pc[p] \in Threads /\ SearchAt(p)
  BY DEF Typed, SearchInv
<1>1. CASE steal_begins(p)
  <2>1. Plain(p)
    BY <1>1, LookSteps
  <2>2. pc[p] \in Looking /\ pc[p].op = "look"
    BY <1>0, <1>1, ThreadAt DEF steal_begins
  <2>3. pc[p].candidates \in SUBSET (Cpus \X Nat)
    BY SMTT(30), <2>2 DEF Looking
  <2>4. SearchAt(p)'
    BY ZenonT(30), <1>1, <2>1, <2>3, StealBegins DEF steal_begins, Plain
  <2>5. Respects(p)
    BY <2>2 DEF Respects
  <2> QED
    BY ZenonT(30), <2>1, <2>4, <2>5, QuietOrderly, SearchMover DEF Plain, Quiet
<1>2. CASE steal(p)
  <2> DEFINE c == pc[p].cpu
             l == pc[p].lane
  <2>1. pc[p] \in Stealing /\ pc[p].op = "steal"
    BY ZenonT(30), <1>0, <1>2, ThreadAt DEF steal
  <2>2. c \in Cpus /\ l \in Lanes /\ pc[p].rest \in SUBSET (Cpus \X Nat)
    BY <2>1 DEF Stealing
  <2>3. CASE queues[c][l] = <<>> /\ l > 0
    <3>1. /\ pc' = [pc EXCEPT ![p] = [pc[p] EXCEPT !.lane = l - 1]]
          /\ UNCHANGED <<queues, next_task_id, handed>>
      BY <1>2, <2>2, <2>3 DEF steal, Go, Lanes
    <3>2. /\ pc'[p].op = "steal" /\ pc'[p].cpu = c /\ pc'[p].seen = pc[p].seen
          /\ pc'[p].lane = l - 1
      BY <2>1, <3>1 DEF Typed, Stealing
    <3>3. \A q \in Cpus \ {p} : pc'[q] = pc[q]
      BY <3>1 DEF Typed
    <3>4. Quiet(p)
      BY <2>1, <3>1, <3>2, <3>3 DEF Quiet
    <3>5. Orderly
      BY <3>4, QuietOrderly
    <3>6. Known(p)' /\ Searched(p)' \subseteq Searched(p)
      BY <2>1, <3>2, <3>5, SearchKept
    <3>7. \A t \in Searched(p) : t.prio <= l - 1
      <4>1. \A t \in Searched(p) : t.prio # l /\ t.prio <= l /\ t.prio \in Lanes
        BY ZenonT(30), <1>0, <2>1, <2>2, <2>3, LaneEmpty, QueuedIds DEF Searched, SearchAt
      <4> QED
        BY SMTT(30), <2>2, <4>1 DEF Lanes
    <3>8. SearchAt(p)' /\ Respects(p)
      BY SMTT(30), <2>1, <2>3, <3>2, <3>6, <3>7 DEF SearchAt, Respects
    <3> QED
      BY ZenonT(30), <3>3, <3>5, <3>8, SearchMover
  <2>4. CASE queues[c][l] = <<>> /\ l = 0
    <3>1. steal_from(p, pc[p].rest) /\ UNCHANGED <<queues, next_task_id, handed>>
      BY <1>2, <2>4 DEF steal
    <3>2. PICK s \in Threads : Go(p, s) /\ s.op \in {"idle", "steal"}
      BY <2>2, <3>1, StealFrom DEF Idle, Threads
    <3>3. /\ pc'[p].op \in {"idle", "steal"} /\ \A q \in Cpus \ {p} : pc'[q] = pc[q]
      BY <3>2, GoChanges
    <3>4. Quiet(p)
      BY <2>1, <3>1, <3>3 DEF Quiet
    <3>5. SearchAt(p)'
      BY <2>2, <3>1, <3>4, StealBegins
    <3>6. Searched(p) = {}
      <4>1. \A t \in Searched(p) : t.prio # l /\ t.prio <= l /\ t.prio \in Lanes
        BY ZenonT(30), <1>0, <2>1, <2>2, <2>4, LaneEmpty, QueuedIds DEF Searched, SearchAt
      <4> QED
        BY <2>4, <4>1 DEF Lanes
    <3>7. Respects(p)
      BY ZenonT(30), <2>1, <3>3, <3>6 DEF Respects
    <3> QED
      BY ZenonT(30), <3>3, <3>4, <3>5, <3>7, QuietOrderly, SearchMover
  <2>5. CASE queues[c][l] # <<>>
    <3>1. pc'[p].op = "took" /\ pc'[p].task = Back(queues[c][l])
      BY SMTT(30), <1>2, <2>5 DEF steal, Go, Typed
    <3>2. /\ Len(queues[c][l]) \in DOMAIN queues[c][l]
          /\ Back(queues[c][l]) = queues[c][l][Len(queues[c][l])]
      BY SMTT(20), <2>2, <2>5, LaneType, EmptySeq DEF Back
    <3>3. pc'[p].task.prio = l
      <4>1. \A i \in DOMAIN queues[c][l] : queues[c][l][i].prio = l
        BY ZenonT(30), <2>2 DEF Placed, Range
      <4> QED
        BY ZenonT(20), <3>1, <3>2, <4>1
    <3>4. PICK d \in Cpus, m \in Lanes : \E k \in DOMAIN queues[d][m] : Take(p, d, m, k)
      BY <1>2, <3>1, StealStep DEF Plain, Quiet
    <3>5. Orderly
      BY ZenonT(30), <3>4, TakeOrderly
    <3>6. SearchAt(p)' /\ Respects(p)
      BY ZenonT(30), <1>0, <2>1, <3>1, <3>3 DEF SearchAt, Respects
    <3> QED
      BY ZenonT(30), <3>4, <3>5, <3>6, SearchMover DEF Take
  <2> QED
    BY SMTT(20), <2>2, <2>3, <2>4, <2>5 DEF Lanes
<1> QED
  BY <1>1, <1>2

\* The steps that have nothing to do with a search.
LEMMA OtherSearch ==
  ASSUME RunQueuesAssumption, Typed, Placed, SearchInv, NEW p \in Cpus,
         \/ \E prio \in Priorities :
              submit(p, prio) \/ \E cpu \in 0..NumCpus : submit_to(p, cpu, prio)
         \/ least_loaded_cpu(p) \/ submit_scanned(p) \/ push(p) \/ push_counted(p)
         \/ try_steal(p) \/ look(p) \/ took(p)
  PROVE  SearchInv' /\ \A q \in Cpus : Respects(q)
<1>0. pc[p] \in Threads
  BY ZenonT(30) DEF Typed
<1>1. ASSUME NEW prio \in Priorities, submit(p, prio)
      PROVE  SearchInv' /\ \A q \in Cpus : Respects(q)
  <2>1. pc[p].op = "idle" /\ pc'[p].op = "scan"
    BY SMTT(30), <1>1 DEF submit, Go, Typed, Idle
  <2>2. Quiet(p)
    BY ZenonT(30), <1>1, SubmitSteps DEF Plain
  <2> QED
    BY ZenonT(30), <2>1, <2>2, QuietOrderly, SearchElsewhere DEF Quiet
<1>2. CASE Enter(p) /\ pc[p].op \in {"idle", "scan"}
  BY ZenonT(30), <1>2, EnterOrderly, SearchElsewhere DEF Enter
<1>3. CASE least_loaded_cpu(p)
  <2>1. pc[p].op = "scan" /\ pc[p] \in Scanning
    BY <1>0, <1>3, ThreadAt DEF least_loaded_cpu
  <2>2. pc'[p].op = "scan"
    BY ZenonT(30), <1>3, <2>1 DEF least_loaded_cpu, Go, Typed, Scanning
  <2>3. Quiet(p)
    BY ZenonT(30), <1>3, SubmitSteps DEF Plain
  <2> QED
    BY ZenonT(30), <2>1, <2>2, <2>3, QuietOrderly, SearchElsewhere DEF Quiet
<1>4. CASE push(p)
  <2>1. pc[p].op = "push" /\ pc[p] \in Pushing
    BY ZenonT(30), <1>0, <1>4, ThreadAt DEF push
  <2>2. pc'[p].op = "pushed" /\ \A q \in Cpus \ {p} : pc'[q] = pc[q]
    BY ZenonT(30), <1>4, <2>1 DEF push, Go, Typed, Pushing
  <2> QED
    BY SMTT(20), <1>4, <2>1, <2>2, PushOrderly, SearchElsewhere
<1>5. CASE push_counted(p)
  <2>1. pc[p].op = "pushed" /\ pc'[p].op = "idle"
    BY <1>5 DEF push_counted, Go, Typed, Idle
  <2>2. Quiet(p)
    BY ZenonT(30), <1>5, PushSteps
  <2> QED
    BY ZenonT(30), <2>1, <2>2, QuietOrderly, SearchElsewhere DEF Quiet
<1>6. CASE try_steal(p)
  <2>1. pc[p].op = "idle" /\ pc'[p].op = "look"
    BY SMTT(30), <1>6 DEF try_steal, Go, Typed, Idle
  <2>2. Quiet(p)
    BY ZenonT(30), <1>6, LookSteps DEF Plain
  <2> QED
    BY ZenonT(30), <2>1, <2>2, QuietOrderly, SearchElsewhere DEF Quiet
<1>7. CASE look(p)
  <2>1. pc[p].op = "look" /\ pc[p] \in Looking
    BY <1>0, <1>7, ThreadAt DEF look
  <2>2. pc'[p].op = "look"
    BY ZenonT(30), <1>7, <2>1 DEF look, Go, Typed, Looking
  <2>3. Quiet(p)
    BY ZenonT(30), <1>7, LookSteps DEF Plain
  <2> QED
    BY ZenonT(30), <2>1, <2>2, <2>3, QuietOrderly, SearchElsewhere DEF Quiet
<1>8. CASE took(p)
  <2>1. /\ pc[p].op = "took" /\ pc'[p].op = "idle"
        /\ \A q \in Cpus \ {p} : pc'[q] = pc[q]
    BY ZenonT(30), <1>8 DEF took, Go, Typed, Idle
  <2> QED
    BY ZenonT(20), <1>8, <2>1, TookOrderly, SearchElsewhere
<1>9. ASSUME NEW prio \in Priorities, NEW cpu \in 0..NumCpus, submit_to(p, cpu, prio)
      PROVE  Enter(p) /\ pc[p].op \in {"idle", "scan"}
  <2>1. Enter(p)
    BY ZenonT(30), <1>9, SubmitSteps
  <2>2. pc[p].op = "idle"
    BY <1>9 DEF submit_to, Idle
  <2> QED
    BY ZenonT(30), <2>1, <2>2
<1>10. CASE submit_scanned(p)
  <2>1. Enter(p)
    BY ZenonT(30), <1>10, SubmitSteps
  <2>2. pc[p].op = "scan"
    BY <1>10 DEF submit_scanned
  <2> QED
    BY <1>2, <2>1, <2>2
<1> QED
  BY ZenonT(30), <1>1, <1>2, <1>3, <1>4, <1>5, <1>6, <1>7, <1>8, <1>9, <1>10

LEMMA SearchStep ==
  ASSUME RunQueuesAssumption, Typed, Placed, SearchInv, Next
  PROVE  SearchInv' /\ \A q \in Cpus : Respects(q)
BY PopSearch, StealSearch, OtherSearch DEF Next

\* pop takes the most urgent of the tasks that were there when it began, steal
\* the least urgent, and neither gives up while one of them is left, however the
\* other CPUs push, pop and steal between their looks at the lanes.
THEOREM PrioritiesRespected ==
  ASSUME RunQueuesAssumption
  PROVE  Spec => PriorityRespected
<1> DEFINE Inv == Typed /\ Placed /\ SearchInv
<1>1. Init => Inv
  <2>1. Init => SearchInv
    BY DEF Init, SearchInv, SearchAt, Idle
  <2> QED
    BY ZenonT(30), <2>1, TypeInit
<1>2. Inv /\ [Next]_vars => Inv'
  <2>1. ASSUME Inv, UNCHANGED vars PROVE SearchInv'
    BY <2>1 DEF vars, SearchInv, SearchAt, Known, Searched, Queued, At
  <2> QED
    BY ZenonT(30), <2>1, TypeStep, SearchStep
<1>3. Inv /\ [Next]_vars => [\A p \in Cpus : Respects(p)]_vars
  BY SearchStep
<1> QED
  BY <1>1, <1>2, <1>3, PTL DEF Spec, PriorityRespected

-----------------------------------------------------------------------------
(* The lengths *)

\* Numbers that differ by a multiple of W are the same modulo W.
LEMMA ModShift ==
  ASSUME NEW W \in Nat \ {0}, NEW x \in Int, NEW y \in Int, NEW k \in Int, x = y + k * W
  PROVE  x % W = y % W
<1>1. PICK b \in Int, r \in 0 .. W - 1 : y = b * W + r /\ r = y % W
  <2>1. y = (y \div W) * W + (y % W) /\ y \div W \in Int /\ y % W \in 0 .. W - 1
    OBVIOUS
  <2> QED
    BY <2>1
<1>2. PICK m \in Int : x = m * W + r
  <2>1. x = (b + k) * W + r
    BY <1>1
  <2> QED
    BY <2>1
<1>3. (m * W + r) % W = r
  OBVIOUS
<1> QED
  BY ZenonT(30), <1>1, <1>2, <1>3

\* A number and what is left of it differ by a multiple of W.
LEMMA ModLeft ==
  ASSUME NEW W \in Nat \ {0}, NEW x \in Int
  PROVE  \E k \in Int : x % W = x + k * W /\ x % W \in Int
<1> DEFINE k == 0 - (x \div W)
<1>1. x = (x \div W) * W + (x % W) /\ x \div W \in Int /\ x % W \in Int
  OBVIOUS
<1>2. x % W = x + k * W /\ k \in Int
  BY <1>1
<1> HIDE DEF k
<1> QED
  BY ZenonT(20), <1>1, <1>2

\* The account of CPU c, before the words are cut off.
Accounted(c) ==
  \E k \in Int :
    len[c] + Cardinality(On("pushed", c))
      = Cardinality(Queued(c)) + Cardinality(On("took", c)) + k * Word

LenInv == \A c \in Cpus : IsFiniteSet(Queued(c)) /\ Accounted(c)

LEMMA OnFinite ==
  ASSUME RunQueuesAssumption, NEW op, NEW c
  PROVE  IsFiniteSet(On(op, c)) /\ Cardinality(On(op, c)) \in Nat
<1>1. NumCpus - 1 \in Int
  BY DEF RunQueuesAssumption
<1>2. IsFiniteSet(Cpus)
  BY <1>1, FS_Interval DEF Cpus
<1>3. On(op, c) \in SUBSET Cpus
  BY DEF On, At
<1> QED
  BY <1>2, <1>3, FS_Subset, FS_CardinalityType

LEMMA AccountNumbers ==
  ASSUME RunQueuesAssumption, Typed, LenInv, NEW c \in Cpus
  PROVE  /\ len[c] \in Int /\ Word \in Nat \ {0} /\ Word \in Int
         /\ Cardinality(On("pushed", c)) \in Nat /\ Cardinality(On("took", c)) \in Nat
         /\ Cardinality(Queued(c)) \in Nat
<1>1. len[c] \in Int /\ Word \in Nat \ {0} /\ Word \in Int
  BY DEF Typed, RunQueuesAssumption
<1>2. Cardinality(Queued(c)) \in Nat
  BY FS_CardinalityType DEF LenInv
<1> QED
  BY <1>1, <1>2, OnFinite

\* Steps that touch no length, no lane and no thread about to count.
LEMMA SameLen ==
  ASSUME LenInv, UNCHANGED <<queues, len>>,
         \A c \in Cpus : On("pushed", c)' = On("pushed", c) /\ On("took", c)' = On("took", c)
  PROVE  LenInv'
<1>1. \A c \in Cpus : Queued(c)' = Queued(c)
  BY ZenonT(30) DEF Queued
<1> QED
  BY <1>1 DEF LenInv, Accounted

LEMMA PlainLen ==
  ASSUME LenInv, NEW p \in Cpus, Plain(p) \/ Enter(p)
  PROVE  LenInv'
<1>1. \A c \in Cpus : On("pushed", c)' = On("pushed", c) /\ On("took", c)' = On("took", c)
  BY DEF Plain, Enter, Quiet, On, At
<1> QED
  BY ZenonT(30), <1>1, SameLen DEF Plain, Enter, Quiet

LEMMA PushLen ==
  ASSUME RunQueuesAssumption, Typed, Placed, LenInv, NEW p \in Cpus, push(p)
  PROVE  LenInv'
<1>0. /\ pc[p] \in Pushing /\ pc[p].op = "push" /\ p \in Holding
      /\ pc[p].task.prio \in Lanes
  BY ThreadAt DEF Typed, push, Pushing, Task, Holding, At
<1>1. PICK d \in Cpus, t \in Task : d = pc[p].cpu /\ t = pc[p].task /\ t.prio \in Lanes
  BY <1>0 DEF Pushing
<1>2. /\ pc'[p].op = "pushed" /\ pc'[p].cpu = d
      /\ \A q \in Cpus \ {p} : pc'[q] = pc[q]
      /\ Put(d, t.prio, t) /\ len' = len
  BY ZenonT(30), <1>0, <1>1 DEF push, Put, Go, Typed, Pushing
<1>3. Queued(d)' = Queued(d) \cup {t} /\ \A c \in Cpus \ {d} : Queued(c)' = Queued(c)
  BY SMTT(30), <1>1, <1>2, PutQueued
<1>4. t \notin Queued(d)
  BY SMTT(30), <1>0, <1>1 DEF Placed, Apart
<1>5. /\ On("pushed", d)' = On("pushed", d) \cup {p} /\ p \notin On("pushed", d)
      /\ \A c \in Cpus \ {d} : On("pushed", c)' = On("pushed", c)
      /\ \A c \in Cpus : On("took", c)' = On("took", c)
  BY <1>0, <1>2 DEF On, At
<1>6. IsFiniteSet(Queued(d)) /\ Cardinality(Queued(d)) \in Nat
  BY <1>1, FS_CardinalityType DEF LenInv
<1>7. IsFiniteSet(Queued(d)') /\ Cardinality(Queued(d)') = Cardinality(Queued(d)) + 1
  BY SMTT(30), <1>3, <1>4, <1>6, FS_AddElement
<1>8. Cardinality(On("pushed", d)') = Cardinality(On("pushed", d)) + 1
  BY ZenonT(30), <1>5, OnFinite, FS_AddElement
<1>9. Accounted(d)'
  <2>1. PICK k \in Int : len[d] + Cardinality(On("pushed", d))
                           = Cardinality(Queued(d)) + Cardinality(On("took", d)) + k * Word
    BY DEF LenInv, Accounted
  <2>2. len[d] + (Cardinality(On("pushed", d)) + 1)
          = (Cardinality(Queued(d)) + 1) + Cardinality(On("took", d)) + k * Word
    <3>1. /\ len[d] \in Int /\ Cardinality(On("pushed", d)) \in Int
          /\ Cardinality(Queued(d)) \in Int /\ Cardinality(On("took", d)) \in Int
          /\ k * Word \in Int
      BY AccountNumbers
    <3> QED
      BY <2>1, <3>1
  <2> QED
    BY ZenonT(30), <1>2, <1>5, <1>7, <1>8, <2>2 DEF Accounted
<1>10. ASSUME NEW c \in Cpus, c # d PROVE Accounted(c)' /\ IsFiniteSet(Queued(c)')
  BY ZenonT(30), <1>2, <1>3, <1>5, <1>10 DEF LenInv, Accounted
<1> QED
  BY ZenonT(30), <1>7, <1>9, <1>10 DEF LenInv

LEMMA CountedLen ==
  ASSUME RunQueuesAssumption, Typed, LenInv, NEW p \in Cpus, push_counted(p)
  PROVE  LenInv'
<1>0. pc[p] \in Pushing /\ pc[p].op = "pushed"
  BY ThreadAt DEF Typed, push_counted
<1>1. PICK d \in Cpus : d = pc[p].cpu
  BY <1>0 DEF Pushing
<1>2. /\ pc'[p].op = "idle" /\ \A q \in Cpus \ {p} : pc'[q] = pc[q]
      /\ queues' = queues
      /\ len'[d] = (len[d] + 1) % Word /\ \A c \in Cpus \ {d} : len'[c] = len[c]
  BY <1>1 DEF push_counted, Go, Typed, Idle
<1>3. \A c : Queued(c)' = Queued(c)
  BY <1>2 DEF Queued
<1>4. /\ On("pushed", d)' = On("pushed", d) \ {p} /\ p \in On("pushed", d)
      /\ \A c \in Cpus \ {d} : On("pushed", c)' = On("pushed", c)
      /\ \A c \in Cpus : On("took", c)' = On("took", c)
  BY <1>0, <1>1, <1>2 DEF On, At
<1>5. Cardinality(On("pushed", d)') = Cardinality(On("pushed", d)) - 1
  BY SMTT(30), <1>4, OnFinite, FS_RemoveElement
<1>6. Accounted(d)'
  <2>1. PICK k \in Int : len[d] + Cardinality(On("pushed", d))
                           = Cardinality(Queued(d)) + Cardinality(On("took", d)) + k * Word
    BY DEF LenInv, Accounted
  <2>2. PICK j \in Int : len'[d] = len[d] + 1 + j * Word /\ len'[d] \in Int
    <3> DEFINE z == len[d] + 1
    <3>1. z \in Int
      BY AccountNumbers
    <3> HIDE DEF z
    <3>2. \E j \in Int : z % Word = z + j * Word /\ z % Word \in Int
      BY ZenonT(20), <3>1, AccountNumbers, ModLeft
    <3>3. len'[d] = z % Word
      BY <1>2 DEF z
    <3> QED
      BY <3>2, <3>3 DEF z
  <2> DEFINE i == k + j
  <2>3. i \in Int
    OBVIOUS
  <2>4. len'[d] + (Cardinality(On("pushed", d)) - 1)
          = Cardinality(Queued(d)) + Cardinality(On("took", d)) + i * Word
    BY <2>1, <2>2, AccountNumbers
  <2> HIDE DEF i
  <2> QED
    BY ZenonT(30), <1>3, <1>4, <1>5, <2>3, <2>4 DEF Accounted
<1>7. ASSUME NEW c \in Cpus, c # d PROVE Accounted(c)'
  BY ZenonT(30), <1>2, <1>3, <1>4, <1>7 DEF LenInv, Accounted
<1> QED
  BY ZenonT(30), <1>3, <1>6, <1>7 DEF LenInv

LEMMA TakeLen ==
  ASSUME RunQueuesAssumption, Typed, Placed, LenInv, NEW p \in Cpus, NEW d \in Cpus,
         NEW l \in Lanes, NEW k \in DOMAIN queues[d][l], Take(p, d, l, k)
  PROVE  LenInv'
<1>1. PICK t : t = queues[d][l][k]
  OBVIOUS
<1>2. Queued(d)' = Queued(d) \ {t} /\ \A c \in Cpus \ {d} : Queued(c)' = Queued(c)
  BY <1>1, CutQueued DEF Take, Placed
<1>3. t \in Queued(d)
  BY <1>1, InQueued
<1>4. /\ len' = len
      /\ On("took", d)' = On("took", d) \cup {p} /\ p \notin On("took", d)
      /\ \A c \in Cpus \ {d} : On("took", c)' = On("took", c)
      /\ \A c \in Cpus : On("pushed", c)' = On("pushed", c)
  BY DEF Take, On, At
<1>5. IsFiniteSet(Queued(d)) /\ Cardinality(Queued(d)) \in Nat
  BY FS_CardinalityType DEF LenInv
<1>6. IsFiniteSet(Queued(d)') /\ Cardinality(Queued(d)') = Cardinality(Queued(d)) - 1
  BY <1>2, <1>3, <1>5, FS_RemoveElement
<1>7. /\ Cardinality(On("took", d)') = Cardinality(On("took", d)) + 1
      /\ Cardinality(On("took", d)) \in Nat
  BY <1>4, OnFinite, FS_AddElement
<1>8. Cardinality(Queued(d)') + Cardinality(On("took", d)')
        = Cardinality(Queued(d)) + Cardinality(On("took", d))
  BY <1>5, <1>6, <1>7
<1>9. Accounted(d)'
  <2>1. PICK k1 \in Int : len[d] + Cardinality(On("pushed", d))
                           = Cardinality(Queued(d)) + Cardinality(On("took", d)) + k1 * Word
    BY DEF LenInv, Accounted
  <2> QED
    BY ZenonT(30), <1>4, <1>8, <2>1 DEF Accounted
<1>10. ASSUME NEW c \in Cpus, c # d PROVE Accounted(c)' /\ IsFiniteSet(Queued(c)')
  BY ZenonT(30), <1>2, <1>4, <1>10 DEF LenInv, Accounted
<1> QED
  BY <1>6, <1>9, <1>10 DEF LenInv

LEMMA TookLen ==
  ASSUME RunQueuesAssumption, Typed, LenInv, NEW p \in Cpus, took(p)
  PROVE  LenInv'
<1>0. pc[p] \in Taking /\ pc[p].op = "took"
  BY ThreadAt DEF Typed, took
<1>1. PICK d \in Cpus : d = pc[p].cpu
  BY <1>0 DEF Taking
<1>2. /\ pc'[p].op = "idle" /\ \A q \in Cpus \ {p} : pc'[q] = pc[q]
      /\ queues' = queues
      /\ len'[d] = (len[d] + Word - 1) % Word /\ \A c \in Cpus \ {d} : len'[c] = len[c]
  BY <1>1 DEF took, Go, Typed, Idle
<1>3. \A c : Queued(c)' = Queued(c)
  BY <1>2 DEF Queued
<1>4. /\ On("took", d)' = On("took", d) \ {p} /\ p \in On("took", d)
      /\ \A c \in Cpus \ {d} : On("took", c)' = On("took", c)
      /\ \A c \in Cpus : On("pushed", c)' = On("pushed", c)
  BY SMTT(30), <1>0, <1>1, <1>2 DEF On, At
<1>5. Cardinality(On("took", d)') = Cardinality(On("took", d)) - 1
  BY <1>4, OnFinite, FS_RemoveElement
<1>6. Accounted(d)'
  <2>1. PICK k \in Int : len[d] + Cardinality(On("pushed", d))
                           = Cardinality(Queued(d)) + Cardinality(On("took", d)) + k * Word
    BY DEF LenInv, Accounted
  <2>2. PICK j \in Int : len'[d] = len[d] + Word - 1 + j * Word /\ len'[d] \in Int
    <3> DEFINE z == len[d] + Word - 1
    <3>1. z \in Int
      BY SMTT(30), AccountNumbers
    <3> HIDE DEF z
    <3>2. \E j \in Int : z % Word = z + j * Word /\ z % Word \in Int
      BY ZenonT(20), <3>1, AccountNumbers, ModLeft
    <3>3. len'[d] = z % Word
      BY <1>2 DEF z
    <3> QED
      BY <3>2, <3>3 DEF z
  <2> DEFINE i == k + 1 + j
  <2>3. i \in Int
    OBVIOUS
  <2>4. len'[d] + Cardinality(On("pushed", d))
          = Cardinality(Queued(d)) + (Cardinality(On("took", d)) - 1) + i * Word
    <3>1. /\ len[d] \in Int /\ Cardinality(On("pushed", d)) \in Int
          /\ Cardinality(Queued(d)) \in Int /\ Cardinality(On("took", d)) \in Int
          /\ k * Word \in Int /\ j * Word \in Int /\ Word \in Int
      BY AccountNumbers
    <3>2. i * Word = k * Word + Word + j * Word
      BY <3>1
    <3> HIDE DEF i
    <3> QED
      BY SMTT(30), <2>1, <2>2, <3>1, <3>2
  <2> HIDE DEF i
  <2> QED
    BY ZenonT(30), <1>3, <1>4, <1>5, <2>3, <2>4 DEF Accounted
<1>7. ASSUME NEW c \in Cpus, c # d PROVE Accounted(c)'
  BY ZenonT(30), <1>2, <1>3, <1>4, <1>7 DEF LenInv, Accounted
<1> QED
  BY <1>3, <1>6, <1>7 DEF LenInv

LEMMA LenStep ==
  ASSUME RunQueuesAssumption, Typed, Placed, LenInv, [Next]_vars
  PROVE  LenInv'
<1>1. CASE UNCHANGED vars
  <2>1. \A c \in Cpus : On("pushed", c)' = On("pushed", c) /\ On("took", c)' = On("took", c)
    BY <1>1 DEF vars, On, At
  <2> QED
    BY <1>1, <2>1, SameLen DEF vars
<1>2. ASSUME NEW p \in Cpus, Plain(p) \/ Enter(p) PROVE LenInv'
  BY <1>2, PlainLen
<1>3. ASSUME NEW p \in Cpus,
             \E c \in Cpus, l \in Lanes : \E k \in DOMAIN queues[c][l] : Take(p, c, l, k)
      PROVE  LenInv'
  BY <1>3, TakeLen
<1>4. ASSUME NEW p \in Cpus, NEW prio \in Priorities,
             submit(p, prio) \/ \E cpu \in 0..NumCpus : submit_to(p, cpu, prio)
      PROVE  LenInv'
  BY <1>2, <1>4, SubmitSteps
<1>5. ASSUME NEW p \in Cpus, least_loaded_cpu(p) \/ submit_scanned(p)
      PROVE  LenInv'
  BY <1>2, <1>5, SubmitSteps
<1>6. ASSUME NEW p \in Cpus, push(p) \/ push_counted(p) PROVE LenInv'
  BY <1>6, PushLen, CountedLen
<1>7. ASSUME NEW p \in Cpus, pop_begins(p) \/ pop(p) \/ pop_none(p)
      PROVE  LenInv'
  BY <1>2, <1>3, <1>7, PopSteps
<1>8. ASSUME NEW p \in Cpus, try_steal(p) \/ look(p) \/ steal_begins(p)
      PROVE  LenInv'
  BY <1>2, <1>8, LookSteps
<1>9. ASSUME NEW p \in Cpus, steal(p) \/ took(p) PROVE LenInv'
  BY <1>2, <1>3, <1>9, StealStep, TookLen
<1> QED
  BY ZenonT(30), <1>1, <1>4, <1>5, <1>6, <1>7, <1>8, <1>9 DEF Next

\* A queue's length is off by exactly the pushes and pops that have moved their
\* task and not yet counted it, even where that wraps below zero (RunQueue.len).
THEOREM LengthsAccount ==
  ASSUME RunQueuesAssumption
  PROVE  Spec => []LenAccounts
<1> DEFINE Inv == Typed /\ Placed /\ LenInv
<1>1. Init => Inv
  <2> SUFFICES ASSUME Init PROVE LenInv
    BY TypeInit
  <2>1. \A c \in Cpus : Queued(c) = {} /\ On("pushed", c) = {} /\ On("took", c) = {}
    BY DEF Init, Queued, Range, On, At, Idle
  <2>2. \A c \in Cpus : len[c] = 0
    BY DEF Init
  <2> QED
    <3>1. Word \in Int /\ 0 + 0 = 0 + 0 + 0 * Word
      BY DEF RunQueuesAssumption
    <3> QED
      BY <2>1, <2>2, <3>1, FS_EmptySet DEF LenInv, Accounted
<1>2. Inv /\ [Next]_vars => Inv'
  BY TypeStep, LenStep
<1>3. Inv => LenAccounts
  <2> SUFFICES ASSUME Inv, NEW c \in Cpus
               PROVE  (len[c] + Cardinality(On("pushed", c))) % Word
                        = (Cardinality(Queued(c)) + Cardinality(On("took", c))) % Word
    BY DEF LenAccounts
  <2> DEFINE x == len[c] + Cardinality(On("pushed", c))
             y == Cardinality(Queued(c)) + Cardinality(On("took", c))
  <2>1. x \in Int /\ y \in Int /\ Word \in Nat \ {0}
    BY AccountNumbers
  <2>2. \E k \in Int : x = y + k * Word
    BY DEF LenInv, Accounted
  <2> HIDE DEF x, y
  <2>3. x % Word = y % Word
    BY ZenonT(20), <2>1, <2>2, ModShift
  <2> QED
    BY <2>3 DEF x, y
<1> QED
  BY <1>1, <1>2, <1>3, PTL DEF Spec

=============================================================================
