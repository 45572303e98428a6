-------------------------- MODULE SchedulersProofs --------------------------
(***************************************************************************)
(* Proofs about the run queues of Schedulers, for any number of CPUs and   *)
(* priorities: no task is lost, queued twice or handed out twice.          *)
(***************************************************************************)
EXTENDS Schedulers, Integers, SequenceTheorems, TLAPS

-----------------------------------------------------------------------------
(* The run queues: what the operators say *)

\* Where a thread is tells what it remembers.
LEMMA ThreadAt ==
  ASSUME NEW s \in Threads
  PROVE  /\ s.op = "scan" => s \in Scanning
         /\ s.op \in {"push", "pushed"} => s \in Pushing
         /\ s.op = "pop" => s \in Popping
         /\ s.op = "look" => s \in Looking
         /\ s.op = "steal" => s \in Stealing
         /\ s.op = "took" => s \in Taking
         /\ s.op = "idle" => s = Idle
BY DEF Threads, Idle, Scanning, Pushing, Popping, Looking, Stealing, Taking

\* A step of a thread changes what it remembers and nothing another does.
LEMMA GoChanges ==
  ASSUME Typed, NEW p \in Cpus, NEW next \in Threads, Go(p, next)
  PROVE  /\ pc' \in [Cpus -> Threads] /\ pc'[p] = next
         /\ \A q \in Cpus \ {p} : pc'[q] = pc[q]
BY DEF Typed, Go

LEMMA LaneType ==
  ASSUME Typed, NEW c \in Cpus, NEW l \in Lanes
  PROVE  /\ queues[c][l] \in Seq(Task)
         /\ Len(queues[c][l]) \in Nat
         /\ DOMAIN queues[c][l] = 1..Len(queues[c][l])
         /\ \A i \in DOMAIN queues[c][l] : queues[c][l][i] \in Task
<1>1. queues[c][l] \in Seq(Task)
  BY DEF Typed
<1> QED
  BY <1>1, LenProperties, ElementOfSeq

LEMMA InQueued ==
  ASSUME NEW c, NEW t
  PROVE  t \in Queued(c) <=>
           \E l \in Lanes : \E i \in DOMAIN queues[c][l] : t = queues[c][l][i]
BY DEF Queued, Range

LEMMA InQueuedNext ==
  ASSUME NEW c, NEW t
  PROVE  t \in Queued(c)' <=>
           \E l \in Lanes : \E i \in DOMAIN queues'[c][l] : t = queues'[c][l][i]
BY DEF Queued, Range

LEMMA QueuedTasks ==
  ASSUME Typed, NEW c \in Cpus
  PROVE  Queued(c) \subseteq Task
BY LaneType, InQueued

\* Every id given out is the id of a task somewhere.
Somewhere(i) ==
  \/ \E t \in handed : t.id = i
  \/ \E p \in Holding : pc[p].task.id = i
  \/ \E c \in Cpus : \E t \in Queued(c) : t.id = i

LEMMA AllSomewhereIff ==
  AllSomewhere <=> \A i : i \in 0 .. next_task_id - 1 <=> Somewhere(i)
BY DEF AllSomewhere, Somewhere

-----------------------------------------------------------------------------
(* What the steps do *)

\* Steps that neither move a task nor make one.
Quiet(p) ==
  /\ UNCHANGED <<queues, next_task_id, handed>>
  /\ pc[p].op \notin {"push", "took"} /\ pc'[p].op \notin {"push", "took"}
  /\ \A q \in Cpus \ {p} : pc'[q] = pc[q]

\* Quiet steps that have nothing to do with the lengths either.
Plain(p) ==
  /\ Quiet(p) /\ UNCHANGED len
  /\ pc[p].op # "pushed" /\ pc'[p].op # "pushed"

\* A task enters: a thread has it in its hands under a new id.
Enter(p) ==
  /\ UNCHANGED <<queues, len, handed>> /\ next_task_id' = next_task_id + 1
  /\ pc[p].op \notin {"push", "pushed", "took"} /\ pc'[p].op = "push"
  /\ pc'[p].task \in Task /\ pc'[p].task.id = next_task_id
  /\ \A q \in Cpus \ {p} : pc'[q] = pc[q]

\* The queues with task t appended to lane l of CPU c.
Put(c, l, t) == queues' = [queues EXCEPT ![c][l] = Append(@, t)]

\* The queues without the entry at position k of lane l of CPU c.
Cut(c, l, k) ==
  /\ queues' \in [Cpus -> [Lanes -> Seq(Task)]]
  /\ \A d \in Cpus, m \in Lanes : <<d, m>> # <<c, l>> => queues'[d][m] = queues[d][m]
  /\ Len(queues'[c][l]) = Len(queues[c][l]) - 1
  /\ \A i \in 1 .. Len(queues[c][l]) - 1 :
       queues'[c][l][i] = queues[c][l][IF i < k THEN i ELSE i + 1]

\* A thread takes the entry at position k of lane l of CPU c.
Take(p, c, l, k) ==
  /\ Cut(c, l, k) /\ k \in DOMAIN queues[c][l]
  /\ UNCHANGED <<len, next_task_id, handed>>
  /\ pc[p].op \notin {"push", "pushed", "took"} /\ pc'[p].op = "took"
  /\ pc'[p].cpu = c /\ pc'[p].task = queues[c][l][k]
  /\ \A q \in Cpus \ {p} : pc'[q] = pc[q]

\* The entries after a put: those before it and the new one.
LEMMA PutQueued ==
  ASSUME Typed, NEW c \in Cpus, NEW l \in Lanes, NEW t \in Task, Put(c, l, t)
  PROVE  /\ queues' \in [Cpus -> [Lanes -> Seq(Task)]]
         /\ \A d \in Cpus, m \in Lanes : <<d, m>> # <<c, l>> => queues'[d][m] = queues[d][m]
         /\ DOMAIN queues'[c][l] = 1 .. Len(queues[c][l]) + 1
         /\ \A i \in DOMAIN queues[c][l] : queues'[c][l][i] = queues[c][l][i]
         /\ queues'[c][l][Len(queues[c][l]) + 1] = t
         /\ Queued(c)' = Queued(c) \cup {t}
         /\ \A d \in Cpus \ {c} : Queued(d)' = Queued(d)
<1>1. /\ queues \in [Cpus -> [Lanes -> Seq(Task)]]
      /\ queues' = [queues EXCEPT ![c] = [queues[c] EXCEPT ![l] = Append(queues[c][l], t)]]
  BY DEF Typed, Put
<1>2. Append(queues[c][l], t) \in Seq(Task)
  BY LaneType, AppendProperties
<1>3. /\ queues' \in [Cpus -> [Lanes -> Seq(Task)]]
      /\ \A d \in Cpus, m \in Lanes : <<d, m>> # <<c, l>> => queues'[d][m] = queues[d][m]
      /\ queues'[c][l] = Append(queues[c][l], t)
  BY <1>1, <1>2
<1>4. /\ DOMAIN queues'[c][l] = 1 .. Len(queues[c][l]) + 1
      /\ \A i \in DOMAIN queues[c][l] : queues'[c][l][i] = queues[c][l][i]
      /\ queues'[c][l][Len(queues[c][l]) + 1] = t
  BY <1>2, <1>3, LaneType, AppendProperties, LenProperties
<1>5. Len(queues[c][l]) \in Nat /\ DOMAIN queues[c][l] = 1..Len(queues[c][l])
  BY LaneType
<1>6. \A d \in Cpus \ {c} : Queued(d)' = Queued(d)
  BY <1>3 DEF Queued
<1>7. ASSUME NEW u PROVE u \in Queued(c)' <=> u \in Queued(c) \cup {t}
  <2>1. ASSUME u \in Queued(c)' PROVE u \in Queued(c) \cup {t}
    <3>1. PICK m \in Lanes : \E i \in DOMAIN queues'[c][m] : u = queues'[c][m][i]
      BY <2>1, InQueuedNext
    <3>2. CASE m = l
      <4>1. PICK i \in 1 .. Len(queues[c][l]) + 1 : u = queues'[c][l][i]
        BY SMTT(30), <1>4, <3>1, <3>2
      <4>2. CASE i = Len(queues[c][l]) + 1
        BY <1>4, <4>1, <4>2
      <4>3. CASE i \in DOMAIN queues[c][l]
        BY <1>4, <4>1, <4>3, InQueued
      <4> QED
        BY <1>5, <4>1, <4>2, <4>3
    <3>3. CASE m # l
      BY ZenonT(20), <1>3, <3>1, <3>3, InQueued
    <3> QED
      BY <3>2, <3>3
  <2>2. u = t => u \in Queued(c)'
    BY <1>4, <1>5, InQueuedNext
  <2>3. ASSUME u \in Queued(c) PROVE u \in Queued(c)'
    <3>1. PICK m \in Lanes : \E i \in DOMAIN queues[c][m] : u = queues[c][m][i]
      BY <2>3, InQueued
    <3>2. \E i \in DOMAIN queues'[c][m] : u = queues'[c][m][i]
      <4>1. CASE m = l
        <5>1. PICK i \in 1 .. Len(queues[c][l]) : u = queues[c][l][i]
          BY <1>5, <3>1, <4>1
        <5>2. i \in DOMAIN queues'[c][l] /\ u = queues'[c][l][i]
          BY <1>4, <1>5, <5>1
        <5> QED
          BY <4>1, <5>2
      <4>2. CASE m # l
        BY <1>3, <3>1, <4>2
      <4> QED
        BY <4>1, <4>2
    <3> QED
      BY <3>2, InQueuedNext
  <2> QED
    BY <2>1, <2>2, <2>3
<1>8. Queued(c)' = Queued(c) \cup {t}
  BY <1>7
<1> QED
  BY ZenonT(30), <1>3, <1>4, <1>6, <1>8

\* The entries after a cut: those before it, each at its place, without one.
LEMMA CutQueued ==
  ASSUME Typed, Apart, NEW c \in Cpus, NEW l \in Lanes,
         NEW k \in DOMAIN queues[c][l], Cut(c, l, k)
  PROVE  /\ Queued(c)' = Queued(c) \ {queues[c][l][k]}
         /\ \A d \in Cpus \ {c} : Queued(d)' = Queued(d)
<1>1. /\ Len(queues[c][l]) \in Nat /\ DOMAIN queues[c][l] = 1..Len(queues[c][l])
      /\ k \in Nat /\ 1 <= k /\ k <= Len(queues[c][l])
  BY LaneType
<1>2. DOMAIN queues'[c][l] = 1 .. Len(queues[c][l]) - 1
  BY LenProperties DEF Cut
<1>3. \A m \in Lanes \ {l} : queues'[c][m] = queues[c][m]
  BY DEF Cut
<1>4. \A d \in Cpus \ {c} : Queued(d)' = Queued(d)
  <2> TAKE d \in Cpus \ {c}
  <2>1. \A m \in Lanes : queues'[d][m] = queues[d][m]
    BY DEF Cut
  <2> QED
    BY <2>1 DEF Queued
<1>5. ASSUME NEW u PROVE u \in Queued(c)' <=> u \in Queued(c) \ {queues[c][l][k]}
  <2>1. ASSUME u \in Queued(c)' PROVE u \in Queued(c) /\ u # queues[c][l][k]
    <3>0. PICK m \in Lanes : \E i \in DOMAIN queues'[c][m] : u = queues'[c][m][i]
      BY <2>1, InQueuedNext
    <3>1. PICK i \in DOMAIN queues'[c][m] : u = queues'[c][m][i]
      BY <3>0
    <3>2. PICK j \in DOMAIN queues[c][m] : u = queues[c][m][j] /\ <<m, j>> # <<l, k>>
      <4>1. CASE m = l
        <5>1. i \in 1 .. Len(queues[c][l]) - 1
          BY <1>2, <4>1
        <5>2. u = queues[c][l][IF i < k THEN i ELSE i + 1]
          BY ZenonT(30), <3>1, <4>1, <5>1 DEF Cut
        <5>3. /\ (IF i < k THEN i ELSE i + 1) \in DOMAIN queues[c][l]
              /\ (IF i < k THEN i ELSE i + 1) # k
          BY <1>1, <5>1
        <5> QED
          BY <4>1, <5>2, <5>3
      <4>2. CASE m # l
        BY <1>3, <3>1, <4>2
      <4> QED
        BY <4>1, <4>2
    <3>3. u \in Queued(c)
      BY <3>2, InQueued
    <3>4. u.id # queues[c][l][k].id
      BY <3>2 DEF Apart
    <3> QED
      BY <3>3, <3>4
  <2>2. ASSUME u \in Queued(c), u # queues[c][l][k] PROVE u \in Queued(c)'
    <3>0. PICK m \in Lanes : \E j \in DOMAIN queues[c][m] : u = queues[c][m][j]
      BY <2>2, InQueued
    <3>1. PICK j \in DOMAIN queues[c][m] : u = queues[c][m][j]
      BY <3>0
    <3>2. \E i \in DOMAIN queues'[c][m] : u = queues'[c][m][i]
      <4>1. CASE m = l
        <5> DEFINE i == IF j < k THEN j ELSE j - 1
        <5>1. j \in 1..Len(queues[c][l]) /\ j # k
          BY <1>1, <2>2, <3>1, <4>1
        <5>2. i \in 1 .. Len(queues[c][l]) - 1 /\ (IF i < k THEN i ELSE i + 1) = j
          BY <1>1, <5>1
        <5>3. queues'[c][l][i] = u
          BY ZenonT(20), <3>1, <4>1, <5>2 DEF Cut
        <5> QED
          BY <1>2, <4>1, <5>2, <5>3
      <4>2. CASE m # l
        BY <1>3, <3>1, <4>2
      <4> QED
        BY <4>1, <4>2
    <3> QED
      BY <3>2, InQueuedNext
  <2> QED
    BY <2>1, <2>2
<1> QED
  BY <1>4, <1>5

-----------------------------------------------------------------------------
(* Every task is in exactly one place *)

\* The part of TypeOK about where the tasks are.
Placed ==
  /\ Apart /\ AllSomewhere
  /\ \A c \in Cpus, l \in Lanes : \A t \in Range(queues[c][l]) : t.prio = l

LEMMA QuietPlaced ==
  ASSUME Typed, Placed, NEW p \in Cpus, Quiet(p)
  PROVE  Placed'
<1>1. Holding' = Holding /\ \A q \in Holding : pc'[q] = pc[q]
  BY DEF Quiet, Holding, At
<1>2. UNCHANGED <<queues, next_task_id, handed>> /\ \A c : Queued(c)' = Queued(c)
  BY DEF Quiet, Queued
<1>3. Apart'
  BY <1>1, <1>2 DEF Placed, Apart
<1>4. AllSomewhere'
  BY <1>1, <1>2 DEF Placed, AllSomewhere
<1> QED
  BY <1>2, <1>3, <1>4 DEF Placed

LEMMA EnterPlaced ==
  ASSUME Typed, Placed, NEW p \in Cpus, Enter(p)
  PROVE  Placed'
<1>1. /\ Holding' = Holding \cup {p} /\ p \notin Holding
      /\ \A q \in Holding : pc'[q] = pc[q]
  BY DEF Enter, Holding, At
<1>2. /\ UNCHANGED <<queues, handed>> /\ \A c : Queued(c)' = Queued(c)
      /\ pc'[p].task.id = next_task_id /\ next_task_id' = next_task_id + 1
      /\ next_task_id \in Nat
  BY DEF Enter, Queued, Typed
<1>3. \A i : Somewhere(i) => i \in 0 .. next_task_id - 1
  BY AllSomewhereIff DEF Placed
<1>4. ~Somewhere(next_task_id)
  BY SMTT(30), <1>2, <1>3
<1>5. Apart'
  BY <1>1, <1>2, <1>4 DEF Placed, Apart, Somewhere
<1>6. \A i : Somewhere(i)' <=> Somewhere(i) \/ i = next_task_id
  BY <1>1, <1>2 DEF Somewhere
<1>7. AllSomewhere'
  <2>1. \A i : i \in 0 .. next_task_id' - 1 <=> Somewhere(i)'
    BY <1>2, <1>6, AllSomewhereIff DEF Placed
  <2> QED
    BY <2>1 DEF AllSomewhere, Somewhere
<1> QED
  BY <1>2, <1>5, <1>7 DEF Placed

\* A thread's task goes into its lane.
LEMMA PushPlaced ==
  ASSUME Typed, Placed, NEW p \in Cpus, push(p)
  PROVE  Placed'
<1> DEFINE c == pc[p].cpu
           t == pc[p].task
           l == t.prio
<1>1. /\ pc[p] \in Pushing /\ pc[p].op = "push" /\ p \in Holding
      /\ c \in Cpus /\ t \in Task /\ l \in Lanes /\ t.id \in Nat
  BY ThreadAt DEF Typed, push, Pushing, Task, Holding, At
<1>2. /\ Put(c, l, t) /\ UNCHANGED <<next_task_id, handed>>
      /\ pc'[p].op = "pushed" /\ \A q \in Cpus \ {p} : pc'[q] = pc[q]
  BY <1>1 DEF push, Put, Go, Typed, Pushing
<1>3. Holding' = Holding \ {p} /\ \A q \in Holding' : pc'[q] = pc[q]
  BY SMTT(30), <1>2 DEF Holding, At
<1> HIDE DEF c, t, l
<1>4. /\ queues' \in [Cpus -> [Lanes -> Seq(Task)]]
      /\ \A d \in Cpus, m \in Lanes : <<d, m>> # <<c, l>> => queues'[d][m] = queues[d][m]
      /\ DOMAIN queues'[c][l] = 1 .. Len(queues[c][l]) + 1
      /\ \A i \in DOMAIN queues[c][l] : queues'[c][l][i] = queues[c][l][i]
      /\ queues'[c][l][Len(queues[c][l]) + 1] = t
  BY <1>1, <1>2, PutQueued
<1>5. \A d \in Cpus : \A u : u \in Queued(d)' <=> u \in Queued(d) \/ (d = c /\ u = t)
  BY <1>1, <1>2, PutQueued
<1>6. Len(queues[c][l]) \in Nat /\ DOMAIN queues[c][l] = 1..Len(queues[c][l])
  BY <1>1, LaneType
<1>7. \A d \in Cpus : \A u \in Queued(d) : u.id # t.id
  BY <1>1 DEF Placed, Apart, t
<1>8. ASSUME NEW d \in Cpus, NEW m \in Lanes, NEW i \in DOMAIN queues'[d][m]
      PROVE  \/ i \in DOMAIN queues[d][m] /\ queues'[d][m][i] = queues[d][m][i]
             \/ /\ d = c /\ m = l /\ i = Len(queues[c][l]) + 1
                /\ queues'[d][m][i] = t
  <2>1. CASE <<d, m>> = <<c, l>>
    BY SMTT(20), <1>4, <1>6, <2>1
  <2>2. CASE <<d, m>> # <<c, l>>
    BY <1>4, <2>2
  <2> QED
    BY <2>1, <2>2
<1>9. Apart'
  <2>1. ASSUME NEW d \in Cpus, NEW m \in Lanes, NEW i \in DOMAIN queues'[d][m],
               NEW e \in Cpus, NEW n \in Lanes, NEW j \in DOMAIN queues'[e][n],
               queues'[d][m][i].id = queues'[e][n][j].id
        PROVE  d = e /\ m = n /\ i = j
    <3>1. \A x \in DOMAIN queues[d][m] : queues[d][m][x] \in Queued(d)
      BY InQueued
    <3>2. \A x \in DOMAIN queues[e][n] : queues[e][n][x] \in Queued(e)
      BY InQueued
    <3>3. \/ i \in DOMAIN queues[d][m] /\ queues'[d][m][i] = queues[d][m][i]
          \/ d = c /\ m = l /\ i = Len(queues[c][l]) + 1 /\ queues'[d][m][i] = t
      BY <1>8
    <3>4. \/ j \in DOMAIN queues[e][n] /\ queues'[e][n][j] = queues[e][n][j]
          \/ e = c /\ n = l /\ j = Len(queues[c][l]) + 1 /\ queues'[e][n][j] = t
      BY <1>8
    <3>5. CASE i \in DOMAIN queues[d][m] /\ queues'[d][m][i] = queues[d][m][i]
               /\ j \in DOMAIN queues[e][n] /\ queues'[e][n][j] = queues[e][n][j]
      BY SMTT(30), <2>1, <3>5 DEF Placed, Apart
    <3> QED
      BY ZenonT(30), <1>7, <2>1, <3>1, <3>2, <3>3, <3>4, <3>5
  <2>2. \A q, r \in Holding' : pc'[q].task.id = pc'[r].task.id => q = r
    BY <1>3 DEF Placed, Apart
  <2>3. \A q \in Holding', u \in handed' : pc'[q].task.id # u.id
    BY <1>2, <1>3 DEF Placed, Apart
  <2>4. ASSUME NEW d \in Cpus, NEW u \in Queued(d)'
        PROVE  /\ \A q \in Holding' : pc'[q].task.id # u.id
               /\ \A v \in handed' : v.id # u.id
    <3>1. CASE u \in Queued(d)
      BY ZenonT(30), <1>2, <1>3, <3>1 DEF Placed, Apart
    <3>2. CASE u = t
      BY <1>1, <1>2, <1>3, <3>2 DEF Placed, Apart, t
    <3> QED
      BY <1>5, <3>1, <3>2
  <2> QED
    BY ZenonT(30), <1>2, <2>1, <2>2, <2>3, <2>4 DEF Placed, Apart
<1>10. AllSomewhere'
  <2>1. \A i : Somewhere(i)' <=> Somewhere(i)
    <3> TAKE i
    <3>1. ASSUME Somewhere(i) PROVE Somewhere(i)'
      <4>1. CASE \E q \in Holding : pc[q].task.id = i
        BY <1>1, <1>3, <1>5, <4>1 DEF Somewhere, t
      <4>2. CASE \E d \in Cpus : \E u \in Queued(d) : u.id = i
        BY <1>5, <4>2 DEF Somewhere
      <4> QED
        BY <1>2, <3>1, <4>1, <4>2 DEF Somewhere
    <3>2. ASSUME Somewhere(i)' PROVE Somewhere(i)
      <4>1. CASE \E q \in Holding' : pc'[q].task.id = i
        BY <1>3, <4>1 DEF Somewhere
      <4>2. CASE \E d \in Cpus : \E u \in Queued(d)' : u.id = i
        BY <1>1, <1>5, <4>2 DEF Somewhere, t
      <4> QED
        BY <1>2, <3>2, <4>1, <4>2 DEF Somewhere
    <3> QED
      BY <3>1, <3>2
  <2>2. \A i : i \in 0 .. next_task_id' - 1 <=> Somewhere(i)'
    BY SMTT(30), <1>2, <2>1, AllSomewhereIff DEF Placed
  <2> QED
    BY <2>2 DEF AllSomewhere, Somewhere
<1>11. ASSUME NEW d \in Cpus, NEW m \in Lanes, NEW i \in DOMAIN queues'[d][m]
       PROVE  queues'[d][m][i].prio = m
  <2>1. \A x \in DOMAIN queues[d][m] : queues[d][m][x].prio = m
    BY DEF Placed, Range
  <2> QED
    BY <1>8, <2>1 DEF l
<1> QED
  BY SMTT(30), <1>9, <1>10, <1>11 DEF Placed, Range

\* A task leaves its lane for the hands of a thread.
LEMMA TakePlaced ==
  ASSUME Typed, Placed, NEW p \in Cpus, NEW c \in Cpus, NEW l \in Lanes,
         NEW k \in DOMAIN queues[c][l], Take(p, c, l, k)
  PROVE  Placed'
<1> DEFINE t == queues[c][l][k]
           Old(d, m, i) == IF <<d, m>> = <<c, l>> /\ i >= k THEN i + 1 ELSE i
<1>1. /\ Len(queues[c][l]) \in Nat /\ DOMAIN queues[c][l] = 1..Len(queues[c][l])
      /\ k \in Nat /\ 1 <= k /\ k <= Len(queues[c][l])
  BY LaneType
<1>2. /\ \A d \in Cpus, m \in Lanes : <<d, m>> # <<c, l>> => queues'[d][m] = queues[d][m]
      /\ DOMAIN queues'[c][l] = 1 .. Len(queues[c][l]) - 1
      /\ \A i \in 1 .. Len(queues[c][l]) - 1 :
           queues'[c][l][i] = queues[c][l][IF i < k THEN i ELSE i + 1]
  BY SMTT(30), LenProperties DEF Take, Cut
<1>3. ASSUME NEW d \in Cpus, NEW m \in Lanes, NEW i \in DOMAIN queues'[d][m]
      PROVE  /\ i \in Nat
             /\ Old(d, m, i) \in DOMAIN queues[d][m]
             /\ queues'[d][m][i] = queues[d][m][Old(d, m, i)]
             /\ <<d, m>> = <<c, l>> => Old(d, m, i) # k
  <2>1. CASE d = c /\ m = l
    <3>1. i \in 1 .. Len(queues[c][l]) - 1
      BY <1>2, <2>1
    <3>2. CASE i < k
      <4>1. Old(d, m, i) = i /\ i # k /\ i \in 1 .. Len(queues[c][l])
        BY SMTT(30), <1>1, <3>1, <3>2
      <4> QED
        BY <1>1, <1>2, <2>1, <3>1, <3>2, <4>1
    <3>3. CASE ~ (i < k)
      <4>1. Old(d, m, i) = i + 1 /\ i + 1 # k /\ i + 1 \in 1 .. Len(queues[c][l])
        BY SMTT(30), <1>1, <2>1, <3>1, <3>3
      <4> QED
        BY SMTT(30), <1>1, <1>2, <2>1, <3>1, <3>3, <4>1
    <3> QED
      BY <3>2, <3>3
  <2>2. CASE <<d, m>> # <<c, l>>
    <3>1. queues'[d][m] = queues[d][m] /\ DOMAIN queues[d][m] = 1..Len(queues[d][m])
          /\ Len(queues[d][m]) \in Nat
      BY SMTT(30), <1>2, <2>2, LaneType
    <3> QED
      BY <2>2, <3>1
  <2> QED
    BY SMTT(30), <2>1, <2>2
<1>4. /\ Queued(c)' = Queued(c) \ {t}
      /\ \A d \in Cpus \ {c} : Queued(d)' = Queued(d)
  BY CutQueued DEF Take, Placed
<1>5. t \in Queued(c)
  BY SMTT(30), InQueued
<1>6. /\ UNCHANGED <<next_task_id, handed>> /\ Holding' = Holding \cup {p} /\ p \notin Holding
      /\ pc'[p].task = t /\ \A q \in Holding : pc'[q] = pc[q]
  BY ZenonT(30) DEF Take, Holding, At
<1>7. ASSUME NEW d \in Cpus, NEW u \in Queued(d), u # t PROVE u.id # t.id
  <2>1. PICK m \in Lanes : \E i \in DOMAIN queues[d][m] : u = queues[d][m][i]
    BY InQueued
  <2> QED
    BY <1>7, <2>1 DEF Placed, Apart
<1>8. ASSUME NEW d \in Cpus \ {c} PROVE t \notin Queued(d)
  <2>1. SUFFICES ASSUME t \in Queued(d) PROVE FALSE
    OBVIOUS
  <2>2. PICK m \in Lanes : \E i \in DOMAIN queues[d][m] : t = queues[d][m][i]
    BY <2>1, InQueued
  <2> QED
    BY <2>2 DEF Placed, Apart
<1>9. \A d \in Cpus : \A u : u \in Queued(d)' <=> u \in Queued(d) /\ u # t
  BY ZenonT(30), <1>4, <1>8
<1>10. Apart'
  <2>1. ASSUME NEW d \in Cpus, NEW m \in Lanes, NEW i \in DOMAIN queues'[d][m],
               NEW e \in Cpus, NEW n \in Lanes, NEW j \in DOMAIN queues'[e][n],
               queues'[d][m][i].id = queues'[e][n][j].id
        PROVE  d = e /\ m = n /\ i = j
    <3>1. /\ Old(d, m, i) \in DOMAIN queues[d][m]
          /\ queues'[d][m][i] = queues[d][m][Old(d, m, i)] /\ i \in Nat
      BY SMTT(30), <1>3
    <3>2. /\ Old(e, n, j) \in DOMAIN queues[e][n]
          /\ queues'[e][n][j] = queues[e][n][Old(e, n, j)] /\ j \in Nat
      BY ZenonT(30), <1>3
    <3> HIDE DEF Old
    <3>3. d = e /\ m = n /\ Old(d, m, i) = Old(e, n, j)
      BY SMTT(20), <2>1, <3>1, <3>2 DEF Placed, Apart
    <3> USE DEF Old
    <3> QED
      BY SMTT(30), <1>1, <3>1, <3>2, <3>3
  <2> HIDE DEF t
  <2>2. \A q, r \in Holding' : pc'[q].task.id = pc'[r].task.id => q = r
    BY SMTT(30), <1>5, <1>6 DEF Placed, Apart
  <2>3. \A q \in Holding', u \in handed' : pc'[q].task.id # u.id
    BY SMTT(20), <1>5, <1>6 DEF Placed, Apart
  <2>4. \A d \in Cpus : \A u \in Queued(d)' :
          /\ \A q \in Holding' : pc'[q].task.id # u.id
          /\ \A v \in handed' : v.id # u.id
    BY SMTT(30), <1>5, <1>6, <1>7, <1>9 DEF Placed, Apart
  <2> QED
    BY ZenonT(30), <1>6, <2>1, <2>2, <2>3, <2>4 DEF Placed, Apart
<1>11. AllSomewhere'
  <2> HIDE DEF t
  <2>1. \A i : Somewhere(i)' <=> Somewhere(i)
    <3> TAKE i
    <3>1. ASSUME Somewhere(i) PROVE Somewhere(i)'
      <4>1. CASE \E q \in Holding : pc[q].task.id = i
        BY <1>6, <4>1 DEF Somewhere
      <4>2. CASE \E d \in Cpus : \E u \in Queued(d) : u.id = i
        BY SMTT(30), <1>6, <1>9, <4>2 DEF Somewhere
      <4> QED
        BY <1>6, <3>1, <4>1, <4>2 DEF Somewhere
    <3>2. ASSUME Somewhere(i)' PROVE Somewhere(i)
      <4>1. CASE \E q \in Holding' : pc'[q].task.id = i
        BY <1>5, <1>6, <4>1 DEF Somewhere
      <4>2. CASE \E d \in Cpus : \E u \in Queued(d)' : u.id = i
        BY <1>9, <4>2 DEF Somewhere
      <4> QED
        BY SMTT(30), <1>6, <3>2, <4>1, <4>2 DEF Somewhere
    <3> QED
      BY <3>1, <3>2
  <2>2. \A i : i \in 0 .. next_task_id' - 1 <=> Somewhere(i)'
    BY <1>6, <2>1, AllSomewhereIff DEF Placed
  <2> QED
    BY <2>2 DEF AllSomewhere, Somewhere
<1>12. ASSUME NEW d \in Cpus, NEW m \in Lanes, NEW i \in DOMAIN queues'[d][m]
       PROVE  queues'[d][m][i].prio = m
  <2>1. \A x \in DOMAIN queues[d][m] : queues[d][m][x].prio = m
    BY DEF Placed, Range
  <2> QED
    BY <1>3, <2>1
<1> QED
  BY <1>10, <1>11, <1>12 DEF Placed, Range

\* A thread hands its task to the caller.
LEMMA TookPlaced ==
  ASSUME Typed, Placed, NEW p \in Cpus, took(p)
  PROVE  Placed'
<1>1. /\ p \in Holding /\ handed' = handed \cup {pc[p].task}
      /\ UNCHANGED <<queues, next_task_id>>
      /\ pc'[p].op = "idle" /\ \A q \in Cpus \ {p} : pc'[q] = pc[q]
  BY DEF took, Typed, Go, Idle, Holding, At
<1>2. Holding' = Holding \ {p} /\ \A q \in Holding' : pc'[q] = pc[q]
  BY SMTT(30), <1>1 DEF Holding, At
<1>3. \A d : Queued(d)' = Queued(d)
  BY ZenonT(30), <1>1 DEF Queued
<1>4. Apart'
  BY SMTT(30), <1>1, <1>2, <1>3 DEF Placed, Apart
<1>5. \A i : Somewhere(i)' <=> Somewhere(i)
  BY <1>1, <1>2, <1>3 DEF Somewhere
<1>6. \A i : i \in 0 .. next_task_id' - 1 <=> Somewhere(i)'
  BY <1>1, <1>5, AllSomewhereIff DEF Placed
<1>7. AllSomewhere'
  BY <1>6 DEF AllSomewhere, Somewhere
<1> QED
  BY <1>1, <1>4, <1>7 DEF Placed

-----------------------------------------------------------------------------
(* Every step of the run queues is of one of these kinds *)

\* submit, least_loaded_cpu, submit_to, submit_scanned
LEMMA SubmitSteps ==
  ASSUME RunQueuesAssumption, Typed, NEW p \in Cpus
  PROVE  /\ \A prio \in Priorities : submit(p, prio) => Typed' /\ Plain(p)
         /\ least_loaded_cpu(p) => Typed' /\ Plain(p)
         /\ \A prio \in Priorities, cpu \in 0..NumCpus :
              submit_to(p, cpu, prio) => Typed' /\ Enter(p)
         /\ submit_scanned(p) => Typed' /\ Enter(p)
<1>0. /\ NumCpus \in Nat /\ NumCpus > 0 /\ 0 \in Cpus /\ Cpus \subseteq Nat
      /\ \A c \in Cpus : len[c] \in Nat
      /\ Priorities \subseteq Lanes /\ pc[p] \in Threads
      /\ MaxTasks \in Nat
  BY SMTT(20) DEF RunQueuesAssumption, Cpus, Typed, Lanes
<1>1. ASSUME NEW prio \in Priorities, submit(p, prio) PROVE Typed' /\ Plain(p)
  <2> DEFINE s == [op |-> "scan", prio |-> prio, i |-> 1, best |-> 0, best_len |-> len[0]]
  <2>1. s \in Threads /\ s.op = "scan"
    BY <1>0 DEF Threads, Scanning
  <2>2. Go(p, s) /\ UNCHANGED <<queues, len, next_task_id, handed>> /\ pc[p].op = "idle"
    BY <1>1 DEF submit, Idle
  <2> HIDE DEF s
  <2> QED
    BY <2>1, <2>2, GoChanges DEF Typed, Plain, Quiet
<1>2. ASSUME least_loaded_cpu(p) PROVE Typed' /\ Plain(p)
  <2>1. pc[p] \in Scanning /\ pc[p].op = "scan" /\ pc[p].i < NumCpus
    BY <1>0, <1>2, ThreadAt DEF least_loaded_cpu
  <2>2. pc[p].i \in Cpus /\ pc[p].i + 1 \in 1..NumCpus
    BY <1>0, <2>1 DEF Scanning, Cpus
  <2>3. PICK s \in Scanning : Go(p, s)
    <3>1. [pc[p] EXCEPT !.i = @ + 1] \in Scanning
      BY <2>1, <2>2 DEF Scanning
    <3>2. [pc[p] EXCEPT !.i = @ + 1, !.best = pc[p].i, !.best_len = len[pc[p].i]] \in Scanning
      BY ZenonT(20), <1>0, <2>1, <2>2 DEF Scanning
    <3> QED
      BY <1>2, <3>1, <3>2 DEF least_loaded_cpu
  <2>4. s \in Threads /\ s.op = "scan"
    BY ZenonT(30), <2>3 DEF Threads, Scanning
  <2> QED
    BY <1>2, <2>1, <2>3, <2>4, GoChanges DEF Typed, Plain, Quiet, least_loaded_cpu
<1>3. ASSUME NEW cpu \in Cpus, NEW prio \in Priorities, new_task(p, cpu, prio),
             pc[p].op \in {"idle", "scan"}
      PROVE  Typed' /\ Enter(p)
  <2> DEFINE t == [id |-> next_task_id, prio |-> prio]
             s == [op |-> "push", cpu |-> cpu, task |-> t]
  <2>1. next_task_id \in Nat /\ next_task_id' = next_task_id + 1
        /\ next_task_id' \in 0..MaxTasks
    BY <1>0, <1>3 DEF Typed, new_task
  <2>2. t \in Task
    BY <1>0, <2>1 DEF Task
  <2>3. s \in Threads /\ s.op = "push" /\ s.task = t /\ t.id = next_task_id
    BY <2>2 DEF Threads, Pushing
  <2>4. Go(p, s) /\ UNCHANGED <<queues, len, handed>>
    BY <1>3 DEF new_task
  <2> HIDE DEF s, t
  <2> QED
    BY SMTT(30), <1>3, <2>1, <2>2, <2>3, <2>4, GoChanges DEF Typed, Enter
<1>4. ASSUME NEW prio \in Priorities, NEW cpu \in 0..NumCpus, submit_to(p, cpu, prio)
      PROVE  Typed' /\ Enter(p)
  <2>1. cpu % NumCpus \in Cpus
    BY <1>0 DEF Cpus
  <2> QED
    BY <1>3, <1>4, <2>1 DEF submit_to, Idle
<1>5. ASSUME submit_scanned(p) PROVE Typed' /\ Enter(p)
  <2>1. pc[p] \in Scanning
    BY <1>0, <1>5, ThreadAt DEF submit_scanned
  <2>2. pc[p].best \in Cpus /\ pc[p].prio \in Priorities
    BY <2>1 DEF Scanning
  <2> QED
    BY <1>3, <1>5, <2>2 DEF submit_scanned
<1> QED
  BY <1>1, <1>2, <1>4, <1>5

\* push, push_counted
LEMMA PushSteps ==
  ASSUME RunQueuesAssumption, Typed, NEW p \in Cpus
  PROVE  /\ push(p) => Typed'
         /\ push_counted(p) => Typed' /\ Quiet(p)
<1>0. pc[p] \in Threads /\ Word \in Nat /\ Word > 0
  BY SMTT(30) DEF RunQueuesAssumption, Typed
<1>1. ASSUME push(p) PROVE Typed'
  <2>1. pc[p] \in Pushing
    BY <1>0, <1>1, ThreadAt DEF push
  <2>2. pc[p].cpu \in Cpus /\ pc[p].task \in Task /\ pc[p].task.prio \in Lanes
    BY SMTT(20), <2>1 DEF Pushing, Task
  <2>3. queues' \in [Cpus -> [Lanes -> Seq(Task)]]
    BY ZenonT(20), <1>1, <2>2, PutQueued DEF push, Put
  <2>4. [pc[p] EXCEPT !.op = "pushed"] \in Threads
    BY SMTT(30), <2>1 DEF Pushing, Threads
  <2> QED
    BY ZenonT(30), <1>1, <2>3, <2>4, GoChanges DEF Typed, push
<1>2. ASSUME push_counted(p) PROVE Typed' /\ Quiet(p)
  <2>1. pc[p] \in Pushing
    BY SMTT(30), <1>0, <1>2, ThreadAt DEF push_counted
  <2>2. pc[p].cpu \in Cpus
    BY <2>1 DEF Pushing
  <2>3. (len[pc[p].cpu] + 1) % Word \in 0 .. Word - 1
    BY SMTT(30), <1>0, <2>2 DEF Typed
  <2>4. len' \in [Cpus -> 0 .. Word - 1]
    BY <1>2, <2>2, <2>3 DEF Typed, push_counted
  <2>5. Idle \in Threads /\ Idle.op = "idle"
    BY DEF Idle, Threads
  <2> QED
    BY ZenonT(30), <1>2, <2>4, <2>5, GoChanges DEF Typed, Quiet, push_counted
<1> QED
  BY <1>1, <1>2

\* pop_begins, pop, pop_none
LEMMA PopSteps ==
  ASSUME RunQueuesAssumption, Typed, NEW p \in Cpus
  PROVE  /\ pop_begins(p) => Typed' /\ Plain(p)
         /\ pop_none(p) => Typed' /\ Plain(p)
         /\ pop(p) =>
              /\ Typed'
              /\ \/ Plain(p)
                 \/ \E c \in Cpus, l \in Lanes :
                      \E k \in DOMAIN queues[c][l] : Take(p, c, l, k)
<1>0. pc[p] \in Threads
  BY SMTT(30) DEF Typed
<1>1. ASSUME pop_begins(p) PROVE Typed' /\ Plain(p)
  <2> DEFINE s == [op |-> "pop", cpu |-> p, lane |-> 0, seen |-> Queued(p)]
  <2>1. s \in Threads /\ s.op = "pop"
    BY SMTT(30), QueuedTasks DEF Threads, Popping
  <2>2. Go(p, s) /\ UNCHANGED <<queues, len, next_task_id, handed>> /\ pc[p].op = "idle"
    BY SMTT(30), <1>1 DEF pop_begins, Idle
  <2> HIDE DEF s
  <2> QED
    BY SMTT(30), <2>1, <2>2, GoChanges DEF Typed, Plain, Quiet
<1>2. ASSUME pop_none(p) PROVE Typed' /\ Plain(p)
  <2>1. Idle \in Threads /\ Idle.op = "idle"
    BY DEF Idle, Threads
  <2> QED
    BY ZenonT(30), <1>2, <2>1, GoChanges DEF Typed, Plain, Quiet, pop_none
<1>3. ASSUME pop(p)
      PROVE  /\ Typed'
             /\ \/ Plain(p)
                \/ \E c \in Cpus, l \in Lanes :
                     \E k \in DOMAIN queues[c][l] : Take(p, c, l, k)
  <2> DEFINE c == pc[p].cpu
             l == pc[p].lane
             q == queues[c][l]
  <2>1. pc[p] \in Popping /\ pc[p].op = "pop" /\ l \in Lanes
    BY <1>0, <1>3, ThreadAt DEF pop
  <2>2. c \in Cpus
    BY <2>1 DEF Popping
  <2>3. CASE q = <<>>
    <3>1. [pc[p] EXCEPT !.lane = @ + 1] \in Popping
      BY <2>1 DEF Popping, Lanes
    <3>2. [pc[p] EXCEPT !.lane = @ + 1] \in Threads /\ [pc[p] EXCEPT !.lane = @ + 1].op = "pop"
      BY <2>1, <3>1 DEF Threads, Popping
    <3>3. Go(p, [pc[p] EXCEPT !.lane = @ + 1]) /\ UNCHANGED <<queues, len, next_task_id, handed>>
      BY ZenonT(30), <1>3, <2>3 DEF pop
    <3> QED
      BY ZenonT(20), <2>1, <3>2, <3>3, GoChanges DEF Typed, Plain, Quiet
  <2>4. CASE q # <<>>
    <3> DEFINE s == [op |-> "took", cpu |-> c, task |-> Head(q)]
    <3>1. /\ q \in Seq(Task) /\ Len(q) \in Nat /\ DOMAIN q = 1..Len(q)
          /\ \A i \in DOMAIN q : q[i] \in Task
      BY ZenonT(30), <2>1, <2>2, LaneType
    <3>2. Go(p, s) /\ UNCHANGED <<len, next_task_id, handed>>
          /\ queues' = [queues EXCEPT ![c][l] = Tail(@)]
      BY <1>3, <2>4 DEF pop
    <3> HIDE DEF c, l, q
    <3>3. /\ Head(q) = q[1] /\ 1 \in DOMAIN q /\ q[1] \in Task
          /\ Tail(q) \in Seq(Task) /\ Len(Tail(q)) = Len(q) - 1
          /\ \A i \in 1 .. Len(q) - 1 : Tail(q)[i] = q[i + 1]
      BY SMTT(30), <2>4, <3>1, HeadTailProperties, EmptySeq
    <3>4. /\ queues' \in [Cpus -> [Lanes -> Seq(Task)]]
          /\ queues'[c][l] = Tail(q)
          /\ \A d \in Cpus, m \in Lanes : <<d, m>> # <<c, l>> => queues'[d][m] = queues[d][m]
      <4>1. /\ queues \in [Cpus -> [Lanes -> Seq(Task)]]
            /\ queues' = [queues EXCEPT ![c] = [queues[c] EXCEPT ![l] = Tail(queues[c][l])]]
        BY <3>2 DEF Typed
      <4>2. Tail(queues[c][l]) \in Seq(Task)
        BY <3>3 DEF q
      <4> QED
        BY ZenonT(30), <2>1, <2>2, <4>1, <4>2 DEF q
    <3>5. Cut(c, l, 1)
      <4>1. \A i \in 1 .. Len(q) - 1 : ~ (i < 1)
        BY SMTT(30), <3>1
      <4> QED
        BY <3>3, <3>4, <4>1 DEF Cut, q
    <3>6. s \in Threads /\ s.op = "took" /\ s.cpu = c /\ s.task = q[1]
      BY ZenonT(30), <2>2, <3>3 DEF Threads, Taking
    <3> HIDE DEF s
    <3>7. Take(p, c, l, 1) /\ 1 \in DOMAIN queues[c][l]
      BY ZenonT(30), <2>1, <3>2, <3>3, <3>5, <3>6, GoChanges DEF Take, q
    <3>8. Typed'
      BY ZenonT(30), <3>2, <3>4, <3>6, GoChanges DEF Typed
    <3> QED
      BY ZenonT(30), <2>1, <2>2, <3>7, <3>8
  <2> QED
    BY SMTT(30), <2>3, <2>4
<1> QED
  BY <1>1, <1>2, <1>3

\* Where steal_from sends a thread.
LEMMA StealFrom ==
  ASSUME Typed, NEW p \in Cpus, NEW candidates \in SUBSET (Cpus \X Nat),
         steal_from(p, candidates)
  PROVE  \/ candidates = {} /\ Go(p, Idle)
         \/ \E s \in Stealing :
              /\ Go(p, s) /\ s \in Threads /\ s.op = "steal" /\ s.lane = 3
              /\ s.seen = Queued(s.cpu)
<1>1. CASE candidates = {} /\ Go(p, Idle)
  BY ZenonT(30), <1>1
<1>2. ASSUME NEW a \in Busiest(candidates),
             Go(p, [op |-> "steal", cpu |-> a[1], rest |-> candidates \ {a},
                    lane |-> 3, seen |-> Queued(a[1])])
      PROVE  \E s \in Stealing :
               /\ Go(p, s) /\ s \in Threads /\ s.op = "steal" /\ s.lane = 3
               /\ s.seen = Queued(s.cpu)
  <2> DEFINE s == [op |-> "steal", cpu |-> a[1], rest |-> candidates \ {a},
                   lane |-> 3, seen |-> Queued(a[1])]
  <2>1. a[1] \in Cpus
    BY DEF Busiest
  <2>2. Queued(a[1]) \in SUBSET Task
    BY <2>1, QueuedTasks
  <2>3. candidates \ {a} \in SUBSET (Cpus \X Nat)
    OBVIOUS
  <2>4. s \in Stealing
    BY <2>1, <2>2, <2>3 DEF Stealing, Lanes
  <2>5. s \in Threads
    BY <2>4 DEF Threads
  <2>6. s.op = "steal" /\ s.lane = 3 /\ s.seen = Queued(s.cpu)
    OBVIOUS
  <2> QED
    BY <1>2, <2>4, <2>5, <2>6
<1> QED
  BY ZenonT(20), <1>1, <1>2 DEF steal_from

\* try_steal, look, steal_begins
LEMMA LookSteps ==
  ASSUME RunQueuesAssumption, Typed, NEW p \in Cpus
  PROVE  (try_steal(p) \/ look(p) \/ steal_begins(p)) => Typed' /\ Plain(p)
<1>0. /\ pc[p] \in Threads /\ NumCpus \in Nat /\ Cpus \subseteq Nat
      /\ \A c \in Cpus : len[c] \in Nat
      /\ Idle \in Threads /\ Idle.op = "idle"
  <2>1. NumCpus \in Nat /\ Cpus \subseteq Nat
    BY DEF RunQueuesAssumption, Cpus
  <2>2. pc[p] \in Threads /\ \A c \in Cpus : len[c] \in Nat
    BY SMTT(30) DEF RunQueuesAssumption, Typed
  <2> QED
    BY <2>1, <2>2 DEF Idle, Threads
<1>1. ASSUME try_steal(p) PROVE Typed' /\ Plain(p)
  <2> DEFINE s == [op |-> "look", i |-> 0, candidates |-> {}]
  <2>1. s \in Threads /\ s.op = "look"
    BY SMTT(30), <1>0 DEF Threads, Looking
  <2>2. Go(p, s) /\ UNCHANGED <<queues, len, next_task_id, handed>> /\ pc[p].op = "idle"
    BY <1>1 DEF try_steal, Idle
  <2> HIDE DEF s
  <2> QED
    BY ZenonT(30), <2>1, <2>2, GoChanges DEF Typed, Plain, Quiet
<1>2. ASSUME look(p) PROVE Typed' /\ Plain(p)
  <2>1. pc[p] \in Looking /\ pc[p].op = "look" /\ pc[p].i < NumCpus
    BY <1>0, <1>2, ThreadAt DEF look
  <2>2. pc[p].i \in Cpus /\ pc[p].i + 1 \in 0..NumCpus
    BY <1>0, <2>1 DEF Looking, Cpus
  <2>3. PICK s \in Looking : Go(p, s)
    <3>1. [pc[p] EXCEPT !.i = @ + 1] \in Looking
      BY <2>1, <2>2 DEF Looking
    <3>2. pc[p].candidates \cup {<<pc[p].i, len[pc[p].i]>>} \in SUBSET (Cpus \X Nat)
      BY <1>0, <2>1, <2>2 DEF Looking
    <3>3. [pc[p] EXCEPT !.i = @ + 1,
                        !.candidates = @ \cup {<<pc[p].i, len[pc[p].i]>>}] \in Looking
      BY ZenonT(20), <2>1, <2>2, <3>2 DEF Looking
    <3> QED
      BY <1>2, <3>1, <3>3 DEF look
  <2>4. s \in Threads /\ s.op = "look"
    BY ZenonT(30), <2>3 DEF Threads, Looking
  <2> QED
    BY <1>2, <2>1, <2>3, <2>4, GoChanges DEF Typed, Plain, Quiet, look
<1>3. ASSUME steal_begins(p) PROVE Typed' /\ Plain(p)
  <2>1. pc[p] \in Looking /\ pc[p].op = "look" /\ pc[p].candidates \in SUBSET (Cpus \X Nat)
    BY ZenonT(30), <1>0, <1>3, ThreadAt DEF steal_begins, Looking
  <2>2. PICK s \in Threads : Go(p, s) /\ s.op \in {"idle", "steal"}
    BY ZenonT(30), <1>0, <1>3, <2>1, StealFrom DEF steal_begins
  <2> QED
    BY ZenonT(30), <1>3, <2>1, <2>2, GoChanges DEF Typed, Plain, Quiet, steal_begins
<1> QED
  BY ZenonT(30), <1>1, <1>2, <1>3

\* One lane of a steal.
LEMMA StealStep ==
  ASSUME RunQueuesAssumption, Typed, NEW p \in Cpus, steal(p)
  PROVE  /\ Typed'
         /\ \/ Plain(p)
            \/ \E c \in Cpus, l \in Lanes :
                 \E k \in DOMAIN queues[c][l] : Take(p, c, l, k)
<1> DEFINE c == pc[p].cpu
           l == pc[p].lane
           q == queues[c][l]
<1>0. Idle \in Threads /\ Idle.op = "idle" /\ pc[p] \in Threads
  BY SMTT(30) DEF Idle, Threads, Typed
<1>1. pc[p] \in Stealing /\ pc[p].op = "steal"
  BY <1>0, ThreadAt DEF steal
<1>2. c \in Cpus /\ l \in Lanes /\ pc[p].rest \in SUBSET (Cpus \X Nat)
  BY SMTT(30), <1>1 DEF Stealing
<1>3. CASE q = <<>>
  <2>1. PICK s \in Threads : Go(p, s) /\ s.op \in {"idle", "steal"}
    <3>1. CASE l > 0
      <4>1. [pc[p] EXCEPT !.lane = @ - 1] \in Stealing
        BY <1>1, <1>2, <3>1 DEF Stealing, Lanes
      <4>2. /\ [pc[p] EXCEPT !.lane = @ - 1] \in Threads
            /\ [pc[p] EXCEPT !.lane = @ - 1].op = "steal"
        BY <1>1, <4>1 DEF Threads, Stealing
      <4>3. Go(p, [pc[p] EXCEPT !.lane = @ - 1])
        BY SMTT(30), <1>2, <1>3, <3>1 DEF steal, Lanes
      <4> QED
        BY ZenonT(20), <4>2, <4>3
    <3>2. CASE l = 0
      <4>1. steal_from(p, pc[p].rest)
        BY <1>3, <3>2 DEF steal
      <4> QED
        BY <1>0, <1>2, <4>1, StealFrom
    <3> QED
      BY <1>2, <3>1, <3>2 DEF Lanes
  <2>2. UNCHANGED <<queues, len, next_task_id, handed>>
    BY <1>3 DEF steal
  <2> QED
    BY SMTT(30), <1>1, <2>1, <2>2, GoChanges DEF Typed, Plain, Quiet
<1>4. CASE q # <<>>
  <2> DEFINE s == [op |-> "took", cpu |-> c, task |-> Back(q)]
  <2>1. /\ q \in Seq(Task) /\ Len(q) \in Nat /\ DOMAIN q = 1..Len(q)
        /\ \A i \in DOMAIN q : q[i] \in Task
    BY ZenonT(30), <1>2, LaneType
  <2>2. Go(p, s) /\ UNCHANGED <<len, next_task_id, handed>>
        /\ queues' = [queues EXCEPT ![c][l] = AllButBack(@)]
    BY <1>4 DEF steal
  <2> HIDE DEF c, l, q
  <2>3. Len(q) > 0
    BY SMTT(30), <1>4, <2>1, EmptySeq
  <2>4. /\ Back(q) = q[Len(q)] /\ Len(q) \in DOMAIN q /\ q[Len(q)] \in Task
        /\ AllButBack(q) \in Seq(Task) /\ Len(AllButBack(q)) = Len(q) - 1
        /\ \A i \in 1 .. Len(q) - 1 : AllButBack(q)[i] = q[i]
    BY SMTT(30), <2>1, <2>3, SubSeqProperties DEF AllButBack, Back
  <2>5. /\ queues' \in [Cpus -> [Lanes -> Seq(Task)]]
        /\ queues'[c][l] = AllButBack(q)
        /\ \A d \in Cpus, m \in Lanes : <<d, m>> # <<c, l>> => queues'[d][m] = queues[d][m]
    <3>1. /\ queues \in [Cpus -> [Lanes -> Seq(Task)]]
          /\ queues' = [queues EXCEPT ![c] = [queues[c] EXCEPT ![l] = AllButBack(queues[c][l])]]
      BY ZenonT(30), <2>2 DEF Typed
    <3>2. AllButBack(queues[c][l]) \in Seq(Task)
      BY ZenonT(30), <2>4 DEF q
    <3> QED
      BY ZenonT(30), <1>2, <3>1, <3>2 DEF q
  <2>6. Cut(c, l, Len(q))
    <3>1. \A i \in 1 .. Len(q) - 1 : i < Len(q)
      BY SMTT(30), <2>1
    <3> QED
      BY <2>4, <2>5, <3>1 DEF Cut, q
  <2>7. s \in Threads /\ s.op = "took" /\ s.cpu = c /\ s.task = q[Len(q)]
    BY ZenonT(30), <1>2, <2>4 DEF Threads, Taking
  <2> HIDE DEF s
  <2>8. Take(p, c, l, Len(q)) /\ Len(q) \in DOMAIN queues[c][l]
    BY ZenonT(30), <1>1, <2>2, <2>4, <2>6, <2>7, GoChanges DEF Take, q
  <2>9. Typed'
    BY ZenonT(30), <2>2, <2>5, <2>7, GoChanges DEF Typed
  <2> QED
    BY ZenonT(30), <1>2, <2>8, <2>9
<1> QED
  BY <1>3, <1>4

LEMMA TookTyped ==
  ASSUME RunQueuesAssumption, Typed, NEW p \in Cpus, took(p)
  PROVE  Typed'
<1>1. /\ Word \in Nat /\ Word > 0 /\ pc[p] \in Taking
      /\ Idle \in Threads
  BY ThreadAt DEF RunQueuesAssumption, Typed, took, Idle, Threads
<1>2. pc[p].cpu \in Cpus /\ pc[p].task \in Task
  BY <1>1 DEF Taking
<1>3. (len[pc[p].cpu] + Word - 1) % Word \in 0 .. Word - 1
  BY SMTT(30), <1>1, <1>2 DEF Typed
<1>4. len' \in [Cpus -> 0 .. Word - 1]
  BY ZenonT(30), <1>2, <1>3 DEF Typed, took
<1> QED
  BY ZenonT(30), <1>1, <1>2, <1>4, GoChanges DEF Typed, took

-----------------------------------------------------------------------------
(* Every task is in exactly one place *)

LEMMA TypeInit == RunQueuesAssumption /\ Init => Typed /\ Placed
<1> SUFFICES ASSUME RunQueuesAssumption, Init PROVE Typed /\ Placed
  OBVIOUS
<1>1. Typed
  BY DEF RunQueuesAssumption, Init, Typed, Threads, Cpus
<1>2. Holding = {} /\ \A c \in Cpus : Queued(c) = {}
  BY DEF Init, Holding, At, Idle, Queued, Range
<1>3. \A c \in Cpus, l \in Lanes : DOMAIN queues[c][l] = {}
  BY SMTT(30) DEF Init
<1>4. Apart
  BY SMTT(20), <1>2, <1>3 DEF Apart, Init
<1>5. AllSomewhere
  BY SMTT(30), <1>2, AllSomewhereIff DEF Somewhere, Init
<1> QED
  BY <1>1, <1>3, <1>4, <1>5 DEF Placed, Range

LEMMA TypeStep ==
  ASSUME RunQueuesAssumption, Typed, Placed, [Next]_vars
  PROVE  Typed' /\ Placed'
<1>1. ASSUME NEW p \in Cpus, Quiet(p) PROVE Placed'
  BY <1>1, QuietPlaced
<1>2. ASSUME NEW p \in Cpus, Enter(p) PROVE Placed'
  BY <1>2, EnterPlaced
<1>3. ASSUME NEW p \in Cpus,
             \E c \in Cpus, l \in Lanes : \E k \in DOMAIN queues[c][l] : Take(p, c, l, k)
      PROVE  Placed'
  BY <1>3, TakePlaced
<1>4. CASE UNCHANGED vars
  <2>1. UNCHANGED <<queues, len, next_task_id, pc, handed>>
    BY <1>4 DEF vars
  <2>2. Holding' = Holding /\ \A c : Queued(c)' = Queued(c)
    BY ZenonT(30), <2>1 DEF Holding, At, Queued
  <2>3. Apart'
    BY SMTT(30), <2>1, <2>2 DEF Placed, Apart
  <2>4. AllSomewhere'
    BY ZenonT(30), <2>1, <2>2 DEF Placed, AllSomewhere
  <2> QED
    BY <2>1, <2>3, <2>4 DEF Typed, Placed
<1>5. ASSUME NEW p \in Cpus, NEW prio \in Priorities,
             submit(p, prio) \/ \E cpu \in 0..NumCpus : submit_to(p, cpu, prio)
      PROVE  Typed' /\ Placed'
  BY ZenonT(30), <1>1, <1>2, <1>5, SubmitSteps DEF Plain
<1>6. ASSUME NEW p \in Cpus, least_loaded_cpu(p) \/ submit_scanned(p)
      PROVE  Typed' /\ Placed'
  BY <1>1, <1>2, <1>6, SubmitSteps DEF Plain
<1>7. ASSUME NEW p \in Cpus, push(p) \/ push_counted(p) PROVE Typed' /\ Placed'
  BY ZenonT(30), <1>1, <1>7, PushSteps, PushPlaced
<1>8. ASSUME NEW p \in Cpus, pop_begins(p) \/ pop(p) \/ pop_none(p)
      PROVE  Typed' /\ Placed'
  BY SMTT(30), <1>1, <1>3, <1>8, PopSteps DEF Plain
<1>9. ASSUME NEW p \in Cpus, try_steal(p) \/ look(p) \/ steal_begins(p)
      PROVE  Typed' /\ Placed'
  BY ZenonT(30), <1>1, <1>9, LookSteps DEF Plain
<1>10. ASSUME NEW p \in Cpus, steal(p) \/ took(p) PROVE Typed' /\ Placed'
  BY <1>1, <1>3, <1>10, StealStep, TookTyped, TookPlaced DEF Plain
<1> QED
  BY <1>4, <1>5, <1>6, <1>7, <1>8, <1>9, <1>10 DEF Next

\* Every task submitted to the work-stealing scheduler is in exactly one place,
\* whatever the interleaving of pushes, pops and steals (RunQueue::push, pop,
\* steal): none is lost, queued twice or handed to two callers.
THEOREM TypeCorrect ==
  ASSUME RunQueuesAssumption
  PROVE  Spec => []TypeOK
<1>1. Init => Typed /\ Placed
  BY TypeInit
<1>2. Typed /\ Placed /\ [Next]_vars => (Typed /\ Placed)'
  BY TypeStep
<1>3. Typed /\ Placed => TypeOK
  BY DEF Placed, TypeOK
<1> QED
  BY <1>1, <1>2, <1>3, PTL DEF Spec

=============================================================================
