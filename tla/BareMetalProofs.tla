-------------------------- MODULE BareMetalProofs ---------------------------
(***************************************************************************)
(* Proofs about BareMetalScheduler, for any number of CPUs and tasks, any  *)
(* affinities and any bodies.                                              *)
(***************************************************************************)
EXTENDS Schedulers, Integers, SequenceTheorems, TLAPS

-----------------------------------------------------------------------------
(* Lanes: functions from CPUs and priorities to sequences of tasks *)

LaneSets == [Cpus -> [Lanes -> Seq(Tasks)]]

\* Task t is an entry of the lanes q.
In(q, t) == \E c \in Cpus, l \in Lanes : \E i \in DOMAIN q[c][l] : q[c][l][i] = t

\* No task is an entry twice.
Once(q) ==
  \A c \in Cpus, l \in Lanes : \A i \in DOMAIN q[c][l] :
    \A d \in Cpus, m \in Lanes : \A j \in DOMAIN q[d][m] :
      q[c][l][i] = q[d][m][j] => c = d /\ l = m /\ i = j

\* w is sequence s without its entry at position k.
Without(w, s, k) ==
  /\ w \in Seq(Tasks) /\ Len(w) = Len(s) - 1
  /\ \A i \in 1 .. Len(s) - 1 : w[i] = s[IF i < k THEN i ELSE i + 1]

\* r is q with w for the lane of CPU c and priority l.
Put(r, q, c, l, w) ==
  /\ r \in LaneSets /\ r[c][l] = w
  /\ \A d \in Cpus, m \in Lanes : ~ (d = c /\ m = l) => r[d][m] = q[d][m]

\* r holds what q does and task t, in a lane of priority l.
Added(r, q, l, t) ==
  /\ r \in LaneSets /\ Once(r)
  /\ \A u : In(r, u) <=> In(q, u) \/ u = t
  /\ \A d \in Cpus, m \in Lanes : \A u \in Range(r[d][m]) :
       u \in Range(q[d][m]) \/ (u = t /\ m = l)

\* r holds what q does but task t.
Removed(r, q, t) ==
  /\ r \in LaneSets /\ Once(r)
  /\ \A u : In(r, u) <=> In(q, u) /\ u # t
  /\ \A d \in Cpus, m \in Lanes : Range(r[d][m]) \subseteq Range(q[d][m])

LEMMA LaneFacts ==
  ASSUME NEW q \in LaneSets, NEW c \in Cpus, NEW l \in Lanes
  PROVE  /\ q[c][l] \in Seq(Tasks) /\ Len(q[c][l]) \in Nat
         /\ DOMAIN q[c][l] = 1..Len(q[c][l])
         /\ \A i \in DOMAIN q[c][l] : q[c][l][i] \in Tasks
<1>1. q[c][l] \in Seq(Tasks)
  BY DEF LaneSets
<1> QED
  BY <1>1, LenProperties, ElementOfSeq

LEMMA PutAt ==
  ASSUME NEW q \in LaneSets, NEW c \in Cpus, NEW l \in Lanes, NEW w \in Seq(Tasks)
  PROVE  Put([q EXCEPT ![c][l] = w], q, c, l, w)
<1> DEFINE r == [q EXCEPT ![c] = [q[c] EXCEPT ![l] = w]]
<1>1. r \in LaneSets /\ r[c][l] = w
  BY DEF LaneSets
<1>2. \A d \in Cpus, m \in Lanes : ~ (d = c /\ m = l) => r[d][m] = q[d][m]
  BY DEF LaneSets
<1> QED
  BY <1>1, <1>2 DEF Put

LEMMA PutLane ==
  ASSUME NEW q \in LaneSets, Once(q), NEW c \in Cpus, NEW l \in Lanes, NEW t \in Tasks,
         ~In(q, t), NEW r, Put(r, q, c, l, Append(q[c][l], t))
  PROVE  Added(r, q, l, t)
<1>1. /\ Len(q[c][l]) \in Nat /\ DOMAIN q[c][l] = 1..Len(q[c][l])
      /\ q[c][l] \in Seq(Tasks)
  BY LaneFacts
<1>2. /\ Append(q[c][l], t) \in Seq(Tasks)
      /\ DOMAIN Append(q[c][l], t) = 1 .. Len(q[c][l]) + 1
      /\ \A i \in 1..Len(q[c][l]) : Append(q[c][l], t)[i] = q[c][l][i]
      /\ Append(q[c][l], t)[Len(q[c][l]) + 1] = t
  BY <1>1, AppendProperties, LenProperties
<1>3. /\ r \in LaneSets
      /\ \A d \in Cpus, m \in Lanes : ~ (d = c /\ m = l) => r[d][m] = q[d][m]
      /\ r[c][l] = Append(q[c][l], t)
  BY DEF Put
<1>4. ASSUME NEW d \in Cpus, NEW m \in Lanes, NEW i \in DOMAIN r[d][m]
      PROVE  \/ i \in DOMAIN q[d][m] /\ r[d][m][i] = q[d][m][i]
             \/ d = c /\ m = l /\ i = Len(q[c][l]) + 1 /\ r[d][m][i] = t
  <2>1. CASE d = c /\ m = l
    <3>1. i \in 1 .. Len(q[c][l]) + 1 /\ r[d][m] = Append(q[c][l], t)
      BY <1>2, <1>3, <2>1
    <3>2. i \in 1..Len(q[c][l]) \/ i = Len(q[c][l]) + 1
      BY <1>1, <3>1
    <3> QED
      BY <1>1, <1>2, <2>1, <3>1, <3>2
  <2>2. CASE ~ (d = c /\ m = l)
    BY <1>3, <2>2
  <2> QED
    BY <2>1, <2>2
<1>5. ASSUME NEW d \in Cpus, NEW m \in Lanes, NEW i \in DOMAIN q[d][m]
      PROVE  i \in DOMAIN r[d][m] /\ r[d][m][i] = q[d][m][i]
  <2>1. CASE d = c /\ m = l
    BY SMTT(30), <1>1, <1>2, <1>3, <2>1
  <2>2. CASE ~ (d = c /\ m = l)
    BY <1>3, <2>2
  <2> QED
    BY <2>1, <2>2
<1>6. Once(r)
  <2> SUFFICES ASSUME NEW d \in Cpus, NEW m \in Lanes, NEW i \in DOMAIN r[d][m],
                      NEW e \in Cpus, NEW n \in Lanes, NEW j \in DOMAIN r[e][n],
                      r[d][m][i] = r[e][n][j]
               PROVE  d = e /\ m = n /\ i = j
    BY DEF Once
  <2>1. \/ i \in DOMAIN q[d][m] /\ r[d][m][i] = q[d][m][i]
        \/ d = c /\ m = l /\ i = Len(q[c][l]) + 1 /\ r[d][m][i] = t
    BY <1>4
  <2>2. \/ j \in DOMAIN q[e][n] /\ r[e][n][j] = q[e][n][j]
        \/ e = c /\ n = l /\ j = Len(q[c][l]) + 1 /\ r[e][n][j] = t
    BY <1>4
  <2>3. i \in DOMAIN q[d][m] => q[d][m][i] # t
    BY DEF In
  <2>4. j \in DOMAIN q[e][n] => q[e][n][j] # t
    BY DEF In
  <2> QED
    BY <2>1, <2>2, <2>3, <2>4 DEF Once
<1>7. ASSUME NEW u PROVE In(r, u) <=> In(q, u) \/ u = t
  <2>1. In(r, u) => In(q, u) \/ u = t
    BY <1>4 DEF In
  <2>2. In(q, u) => In(r, u)
    BY <1>5 DEF In
  <2>3. In(r, t)
    <3>1. Len(q[c][l]) + 1 \in DOMAIN r[c][l] /\ r[c][l][Len(q[c][l]) + 1] = t
      BY <1>1, <1>2, <1>3
    <3> QED
      BY <3>1 DEF In
  <2> QED
    BY <2>1, <2>2, <2>3
<1>8. \A d \in Cpus, m \in Lanes : \A u \in Range(r[d][m]) :
        u \in Range(q[d][m]) \/ (u = t /\ m = l)
  BY <1>4 DEF Range
<1> QED
  BY <1>3, <1>6, <1>7, <1>8 DEF Added

LEMMA CutLane ==
  ASSUME NEW q \in LaneSets, Once(q), NEW c \in Cpus, NEW l \in Lanes,
         NEW k \in DOMAIN q[c][l], NEW w, Without(w, q[c][l], k),
         NEW r, Put(r, q, c, l, w)
  PROVE  Removed(r, q, q[c][l][k])
<1> DEFINE Old(d, m, i) == IF d = c /\ m = l /\ i >= k THEN i + 1 ELSE i
<1>1. /\ Len(q[c][l]) \in Nat /\ DOMAIN q[c][l] = 1..Len(q[c][l])
      /\ k \in Nat /\ 1 <= k /\ k <= Len(q[c][l])
  BY LaneFacts
<1>2. w \in Seq(Tasks) /\ DOMAIN w = 1 .. Len(q[c][l]) - 1
  BY LenProperties DEF Without
<1>3. /\ r \in LaneSets /\ r[c][l] = w
      /\ \A d \in Cpus, m \in Lanes : ~ (d = c /\ m = l) => r[d][m] = q[d][m]
  BY DEF Put
<1>4. ASSUME NEW d \in Cpus, NEW m \in Lanes, NEW i \in DOMAIN r[d][m]
      PROVE  /\ i \in Nat
             /\ Old(d, m, i) \in DOMAIN q[d][m]
             /\ r[d][m][i] = q[d][m][Old(d, m, i)]
             /\ d = c /\ m = l => Old(d, m, i) # k
  <2>1. CASE d = c /\ m = l
    <3>1. i \in 1 .. Len(q[c][l]) - 1
      BY <1>2, <1>3, <2>1
    <3>2. CASE i < k
      <4>1. Old(d, m, i) = i /\ i # k /\ i \in 1 .. Len(q[c][l])
        BY <1>1, <3>1, <3>2
      <4> QED
        BY SMTT(30), <1>1, <1>3, <2>1, <3>1, <3>2, <4>1 DEF Without
    <3>3. CASE ~ (i < k)
      <4>1. Old(d, m, i) = i + 1 /\ i + 1 # k /\ i + 1 \in 1 .. Len(q[c][l])
        BY <1>1, <2>1, <3>1, <3>3
      <4> QED
        BY SMTT(30), <1>1, <1>3, <2>1, <3>1, <3>3, <4>1 DEF Without
    <3> QED
      BY <3>2, <3>3
  <2>2. CASE ~ (d = c /\ m = l)
    <3>1. r[d][m] = q[d][m] /\ DOMAIN q[d][m] = 1..Len(q[d][m]) /\ Len(q[d][m]) \in Nat
      BY <1>3, <2>2, LaneFacts
    <3> QED
      BY <2>2, <3>1
  <2> QED
    BY <2>1, <2>2
<1>5. ASSUME NEW d \in Cpus, NEW m \in Lanes, NEW j \in DOMAIN q[d][m],
             ~ (d = c /\ m = l /\ j = k)
      PROVE  \E i \in DOMAIN r[d][m] : r[d][m][i] = q[d][m][j]
  <2>1. CASE d = c /\ m = l /\ j < k
    <3>1. j \in 1 .. Len(q[c][l]) - 1
      BY <1>1, <2>1
    <3>2. j \in DOMAIN r[d][m] /\ r[d][m][j] = q[d][m][j]
      BY <1>2, <1>3, <2>1, <3>1 DEF Without
    <3> QED
      BY <3>2
  <2>2. CASE d = c /\ m = l /\ ~ (j < k)
    <3>1. j - 1 \in 1 .. Len(q[c][l]) - 1 /\ ~ (j - 1 < k) /\ (j - 1) + 1 = j
      BY SMTT(30), <1>1, <1>5, <2>2
    <3>2. j - 1 \in DOMAIN r[d][m] /\ r[d][m][j - 1] = q[d][m][j]
      BY ZenonT(30), <1>2, <1>3, <2>2, <3>1 DEF Without
    <3> QED
      BY <3>2
  <2>3. CASE ~ (d = c /\ m = l)
    BY <1>3, <2>3
  <2> QED
    BY <2>1, <2>2, <2>3
<1>6. Once(r)
  <2> SUFFICES ASSUME NEW d \in Cpus, NEW m \in Lanes, NEW i \in DOMAIN r[d][m],
                      NEW e \in Cpus, NEW n \in Lanes, NEW j \in DOMAIN r[e][n],
                      r[d][m][i] = r[e][n][j]
               PROVE  d = e /\ m = n /\ i = j
    BY DEF Once
  <2>1. /\ Old(d, m, i) \in DOMAIN q[d][m] /\ r[d][m][i] = q[d][m][Old(d, m, i)]
        /\ i \in Nat
    BY <1>4
  <2>2. /\ Old(e, n, j) \in DOMAIN q[e][n] /\ r[e][n][j] = q[e][n][Old(e, n, j)]
        /\ j \in Nat
    BY <1>4
  <2> HIDE DEF Old
  <2>3. d = e /\ m = n /\ Old(d, m, i) = Old(e, n, j)
    <3>1. PICK x \in DOMAIN q[d][m], y \in DOMAIN q[e][n] :
            x = Old(d, m, i) /\ y = Old(e, n, j) /\ q[d][m][x] = q[e][n][y]
      BY ZenonT(30), <2>1, <2>2
    <3> QED
      BY <3>1 DEF Once
  <2> USE DEF Old
  <2> QED
    BY <1>1, <2>1, <2>2, <2>3
<1>7. ASSUME NEW u PROVE In(r, u) <=> In(q, u) /\ u # q[c][l][k]
  <2>1. ASSUME In(r, u) PROVE In(q, u) /\ u # q[c][l][k]
    <3>0. PICK d \in Cpus, m \in Lanes : \E i \in DOMAIN r[d][m] : r[d][m][i] = u
      BY <2>1 DEF In
    <3>1. PICK i \in DOMAIN r[d][m] : r[d][m][i] = u
      BY <3>0
    <3>2. PICK j \in DOMAIN q[d][m] : u = q[d][m][j] /\ (d = c /\ m = l => j # k)
      BY <1>4, <3>1
    <3> QED
      BY <3>2 DEF In, Once
  <2>2. ASSUME In(q, u), u # q[c][l][k] PROVE In(r, u)
    BY <1>5, <2>2 DEF In
  <2> QED
    BY <2>1, <2>2
<1>8. \A d \in Cpus, m \in Lanes : Range(r[d][m]) \subseteq Range(q[d][m])
  BY <1>4 DEF Range
<1> QED
  BY <1>3, <1>6, <1>7, <1>8 DEF Removed

\* The first and the last entry of a lane, taken off.
LEMMA Ends ==
  ASSUME NEW s \in Seq(Tasks), s # <<>>
  PROVE  /\ 1 \in DOMAIN s /\ Head(s) = s[1] /\ Without(Tail(s), s, 1)
         /\ Len(s) \in DOMAIN s /\ Back(s) = s[Len(s)]
         /\ Without(AllButBack(s), s, Len(s))
<1>1. Len(s) \in Nat /\ Len(s) > 0 /\ DOMAIN s = 1..Len(s)
  BY EmptySeq, LenProperties
<1>2. /\ Tail(s) \in Seq(Tasks) /\ Len(Tail(s)) = Len(s) - 1
      /\ \A i \in 1 .. Len(s) - 1 : Tail(s)[i] = s[i + 1]
  BY <1>1, HeadTailProperties
<1>3. Without(Tail(s), s, 1)
  <2>1. \A i \in 1 .. Len(s) - 1 : ~ (i < 1)
    BY <1>1
  <2> QED
    BY <1>2, <2>1 DEF Without
<1>4. /\ AllButBack(s) \in Seq(Tasks) /\ Len(AllButBack(s)) = Len(s) - 1
      /\ \A i \in 1 .. Len(s) - 1 : AllButBack(s)[i] = s[i]
  BY <1>1, SubSeqProperties DEF AllButBack
<1>5. Without(AllButBack(s), s, Len(s))
  <2>1. \A i \in 1 .. Len(s) - 1 : i < Len(s)
    BY <1>1
  <2> QED
    BY <1>4, <2>1 DEF Without
<1> QED
  BY <1>1, <1>3, <1>5 DEF Back

\* The most and the least urgent lane with something in it.
LEMMA UrgentLane ==
  ASSUME NEW c, NonEmpty(c) # {}
  PROVE  /\ Min(NonEmpty(c)) \in Lanes /\ Bms_queues[c][Min(NonEmpty(c))] # <<>>
         /\ Max(NonEmpty(c)) \in Lanes /\ Bms_queues[c][Max(NonEmpty(c))] # <<>>
<1> DEFINE S == NonEmpty(c)
<1>1. S \subseteq 0..3 /\ S # {} /\ \A l \in S : l \in Lanes /\ Bms_queues[c][l] # <<>>
  BY DEF NonEmpty, Lanes
<1> HIDE DEF S
<1>2. \E x \in S : \A y \in S : x <= y
  <2>1. CASE 0 \in S
    BY <1>1, <2>1
  <2>2. CASE 0 \notin S /\ 1 \in S
    BY <1>1, <2>2
  <2>3. CASE 0 \notin S /\ 1 \notin S /\ 2 \in S
    BY <1>1, <2>3
  <2>4. CASE 0 \notin S /\ 1 \notin S /\ 2 \notin S
    <3>1. \A x \in S : x = 3
      BY <1>1, <2>4
    <3>2. 3 \in S
      BY ZenonT(30), <1>1, <3>1
    <3>3. \A y \in S : 3 <= y
      BY <3>1
    <3> QED
      BY <3>2, <3>3
  <2> QED
    BY <2>1, <2>2, <2>3, <2>4
<1>3. \E x \in S : \A y \in S : x >= y
  <2>1. CASE 3 \in S
    BY <1>1, <2>1
  <2>2. CASE 3 \notin S /\ 2 \in S
    BY <1>1, <2>2
  <2>3. CASE 3 \notin S /\ 2 \notin S /\ 1 \in S
    BY <1>1, <2>3
  <2>4. CASE 3 \notin S /\ 2 \notin S /\ 1 \notin S
    <3>1. \A x \in S : x = 0
      BY <1>1, <2>4
    <3>2. 0 \in S
      BY ZenonT(30), <1>1, <3>1
    <3>3. \A y \in S : 0 >= y
      BY <3>1
    <3> QED
      BY <3>2, <3>3
  <2> QED
    BY <2>1, <2>2, <2>3, <2>4
<1>4. Min(S) \in S /\ Max(S) \in S
  BY <1>2, <1>3 DEF Min, Max
<1> QED
  BY <1>1, <1>4 DEF S

-----------------------------------------------------------------------------
(* The invariant *)

Fates == {"new", "submitted", "queued", "rejected", "ran"}
Submitting ==
  [at : {"scan"}, task : Tasks, rest : Seq(Nat), best : 0..NumCpus, best_len : Nat]
Placing == [at : {"push"}, task : Tasks, target : Cpus]
Seeking == [at : {"scan"}, i : 0..NumCpus, victim : 0..NumCpus, victim_len : Nat]
Running == [at : {"body", "returning"}, task : Tasks, queue : Cpus]
Subs == {BmsIdle} \cup Submitting \cup Placing
Runs == {BmsIdle, [at |-> "local"]} \cup Seeking \cup Running

BmsTyped ==
  /\ Bms_queues \in LaneSets
  /\ lock \in [Cpus -> 0..NumCpus]
  /\ fate \in [Tasks -> Fates]
  /\ sub \in [Cpus -> Subs]
  /\ run \in [Cpus -> Runs]

\* Every entry is of a task whose fate is to be queued, and there only once; a
\* submission under way holds a task of its own.
BmsPlaced ==
  /\ Once(Bms_queues)
  /\ \A t \in Tasks : fate[t] = "queued" <=> In(Bms_queues, t)
  /\ \A c \in Cpus, l \in Lanes : \A t \in Range(Bms_queues[c][l]) : Prio[t] = l
  /\ \A p \in Cpus : sub[p] # BmsIdle => fate[sub[p].task] = "submitted"
  /\ \A p, q \in Cpus :
       sub[p] # BmsIdle /\ sub[q] # BmsIdle /\ sub[p].task = sub[q].task => p = q

Locked ==
  \A p, c \in Cpus :
    lock[c] = p <=> run[p].at \in {"body", "returning"} /\ run[p].queue = c

BmsInv == BmsTyped /\ BmsPlaced /\ Locked

LEMMA CpuFacts ==
  ASSUME TaskSchedulerAssumption
  PROVE  /\ NumCpus \in Nat /\ NumCpus > 0 /\ NoCpu = NumCpus /\ NoCpu \notin Cpus
         /\ Cpus \subseteq 0..NumCpus /\ Cpus \subseteq Nat
         /\ \A c \in Nat : c < NumCpus => c \in Cpus
         /\ \A c \in 0..NumCpus : c # NoCpu => c \in Cpus
BY DEF TaskSchedulerAssumption, Cpus, NoCpu

\* Where a CPU is tells what it remembers.
LEMMA RunAt ==
  ASSUME NEW s \in Runs
  PROVE  /\ s.at = "scan" => s \in Seeking
         /\ s.at \in {"body", "returning"} => s \in Running
BY DEF Runs, BmsIdle, Seeking, Running

LEMMA SubAt ==
  ASSUME NEW s \in Subs
  PROVE  /\ s.at = "scan" => s \in Submitting
         /\ s.at = "push" => s \in Placing
         /\ s # BmsIdle => s.at \in {"scan", "push"} /\ s.task \in Tasks
         /\ s.at \in {"scan", "push"} => s # BmsIdle
BY DEF Subs, BmsIdle, Submitting, Placing

LEMMA ListedType ==
  ASSUME TaskSchedulerAssumption, NEW t \in Tasks
  PROVE  /\ Listed(t) \in Seq(Nat)
         /\ Affinity[t].kind = "pinned" => Head(Listed(t)) \in Nat
<1>1. /\ NumCpus \in Nat /\ Affinity[t].cpus \in Seq(Nat)
      /\ Affinity[t].kind = "pinned" => Len(Affinity[t].cpus) = 1
  BY DEF TaskSchedulerAssumption
<1>2. CASE Affinity[t].kind = "any"
  <2>1. [i \in 1..NumCpus |-> i - 1] \in [1..NumCpus -> Nat]
    BY <1>1
  <2>2. [i \in 1..NumCpus |-> i - 1] \in Seq(Nat)
    BY <1>1, <2>1, SeqDef
  <2> QED
    BY <1>2, <2>2 DEF Listed
<1>3. CASE Affinity[t].kind # "any"
  <2>1. Listed(t) = Affinity[t].cpus
    BY <1>3 DEF Listed
  <2>2. Affinity[t].kind = "pinned" => Head(Affinity[t].cpus) \in Nat
    BY <1>1, EmptySeq, HeadTailProperties
  <2> QED
    BY <1>1, <2>1, <2>2
<1> QED
  BY <1>2, <1>3

LEMMA Len4Nat ==
  ASSUME BmsTyped, NEW c \in Cpus
  PROVE  Len4(c) \in Nat
<1>1. \A l \in Lanes : Len(Bms_queues[c][l]) \in Nat
  BY LaneFacts DEF BmsTyped
<1>2. 0 \in Lanes /\ 1 \in Lanes /\ 2 \in Lanes /\ 3 \in Lanes
  BY DEF Lanes
<1>3. /\ Len(Bms_queues[c][0]) \in Nat /\ Len(Bms_queues[c][1]) \in Nat
      /\ Len(Bms_queues[c][2]) \in Nat /\ Len(Bms_queues[c][3]) \in Nat
  BY <1>1, <1>2
<1>4. \A i, j, k, l \in Nat : i + j + k + l \in Nat
  OBVIOUS
<1> QED
  BY ZenonT(30), <1>3, <1>4 DEF Len4

-----------------------------------------------------------------------------
(* Steps that move no task *)

\* The queues and the fates stay, and a submission keeps its task or ends.
Kept ==
  /\ UNCHANGED <<Bms_queues, fate>>
  /\ \A p \in Cpus :
       sub'[p] = BmsIdle \/ (sub[p] # BmsIdle /\ sub'[p].task = sub[p].task)

LEMMA KeptPlaced ==
  ASSUME BmsPlaced, Kept
  PROVE  BmsPlaced'
<1>1. Bms_queues' = Bms_queues /\ fate' = fate
  BY DEF Kept
<1>2. /\ Once(Bms_queues)' /\ \A t \in Tasks : fate'[t] = "queued" <=> In(Bms_queues, t)'
      /\ \A c \in Cpus, l \in Lanes : \A t \in Range(Bms_queues'[c][l]) : Prio[t] = l
  BY <1>1 DEF BmsPlaced
<1>3. /\ \A p \in Cpus : sub'[p] # BmsIdle => fate'[sub'[p].task] = "submitted"
      /\ \A p, q \in Cpus :
           sub'[p] # BmsIdle /\ sub'[q] # BmsIdle /\ sub'[p].task = sub'[q].task => p = q
  BY <1>1 DEF BmsPlaced, Kept
<1> QED
  BY <1>2, <1>3 DEF BmsPlaced

\* CPUs move without starting or ending a body.
LEMMA SameLocks ==
  ASSUME Locked, BmsTyped, lock' = lock,
         \A p \in Cpus : \/ run'[p] = run[p]
                         \/ /\ run[p].at \notin {"body", "returning"}
                            /\ run'[p].at \notin {"body", "returning"}
                         \/ /\ {run[p].at, run'[p].at} \subseteq {"body", "returning"}
                            /\ run'[p].queue = run[p].queue
  PROVE  Locked'
BY DEF Locked

LEMMA ScanStep ==
  ASSUME TaskSchedulerAssumption, BmsInv, NEW p \in Cpus, submit_scan(p)
  PROVE  BmsInv'
<1> DEFINE s == sub[p]
           c == Head(s.rest)
<1>1. s \in Submitting /\ s # BmsIdle
  BY SubAt DEF submit_scan, BmsInv, BmsTyped
<1>2. c \in Nat /\ Tail(s.rest) \in Seq(Nat)
  <2>1. s.rest \in Seq(Nat) /\ s.rest # <<>>
    BY SMTT(30), <1>1 DEF Submitting, submit_scan
  <2> QED
    BY <2>1, HeadTailProperties, EmptySeq
<1>3. PICK b \in 0..NumCpus, n \in Nat :
        sub' = [sub EXCEPT ![p] = [s EXCEPT !.rest = Tail(@), !.best = b, !.best_len = n]]
  <2>1. s.best \in 0..NumCpus /\ s.best_len \in Nat
    BY <1>1 DEF Submitting
  <2>2. c < NumCpus => c \in 0..NumCpus /\ Len4(c) \in Nat
    BY ZenonT(30), <1>2, CpuFacts, Len4Nat DEF BmsInv
  <2> QED
    BY ZenonT(30), <2>1, <2>2 DEF submit_scan
<1>4. [s EXCEPT !.rest = Tail(@), !.best = b, !.best_len = n] \in Submitting
  BY ZenonT(30), <1>1, <1>2 DEF Submitting
<1>5. sub'[p] \in Submitting /\ sub'[p].task = s.task /\ \A q \in Cpus \ {p} : sub'[q] = sub[q]
  BY <1>1, <1>3, <1>4 DEF BmsInv, BmsTyped, Submitting
<1>6. sub' \in [Cpus -> Subs]
  BY <1>3, <1>4 DEF BmsInv, BmsTyped, Subs
<1>7. UNCHANGED <<Bms_queues, lock, run, fate>>
  BY DEF submit_scan
<1>8. BmsTyped'
  BY <1>6, <1>7 DEF BmsInv, BmsTyped
<1>9. BmsPlaced'
  BY <1>1, <1>5, <1>7, KeptPlaced DEF Kept, BmsInv
<1>10. Locked'
  BY <1>7, SameLocks DEF BmsInv
<1> QED
  BY <1>8, <1>9, <1>10 DEF BmsInv

\* run_one, a local search that finds nothing, find_victim, a steal that finds
\* nothing, and the end of a body's submission.
LEMMA SeekStep ==
  ASSUME TaskSchedulerAssumption, BmsInv, NEW p \in Cpus, NEW s \in Runs,
         run[p].at \notin {"body", "returning"}, s.at \notin {"body", "returning"},
         run' = [run EXCEPT ![p] = s], UNCHANGED <<Bms_queues, lock, sub, fate>>
  PROVE  BmsInv'
<1>1. run' \in [Cpus -> Runs] /\ run'[p] = s /\ \A q \in Cpus \ {p} : run'[q] = run[q]
  BY DEF BmsInv, BmsTyped
<1>2. BmsTyped'
  BY <1>1 DEF BmsInv, BmsTyped
<1>3. BmsPlaced'
  BY KeptPlaced DEF Kept, BmsInv
<1>4. Locked'
  BY <1>1, SameLocks DEF BmsInv
<1> QED
  BY <1>2, <1>3, <1>4 DEF BmsInv

LEMMA ReturnStep ==
  ASSUME TaskSchedulerAssumption, BmsInv, NEW p \in Cpus, run_returns(p)
  PROVE  BmsInv'
<1>1. run[p] \in Running /\ run[p].at \in {"body", "returning"}
  BY RunAt DEF BmsInv, BmsTyped, run_returns
<1>2. PICK c \in Cpus : c = run[p].queue
  BY <1>1 DEF Running
<1>3. /\ lock' = [lock EXCEPT ![c] = NoCpu] /\ run' = [run EXCEPT ![p] = BmsIdle]
      /\ UNCHANGED <<Bms_queues, sub, fate>>
  BY <1>2 DEF run_returns
<1>4. /\ run' \in [Cpus -> Runs] /\ run'[p].at = "idle"
      /\ \A q \in Cpus \ {p} : run'[q] = run[q]
  BY <1>3 DEF BmsInv, BmsTyped, Runs, BmsIdle
<1>5. /\ lock' \in [Cpus -> 0..NumCpus] /\ lock'[c] = NoCpu
      /\ \A d \in Cpus \ {c} : lock'[d] = lock[d]
  BY <1>3, CpuFacts DEF BmsInv, BmsTyped
<1>6. BmsTyped'
  BY <1>3, <1>4, <1>5 DEF BmsInv, BmsTyped
<1>7. BmsPlaced'
  BY <1>3, KeptPlaced DEF Kept, BmsInv
<1>8. Locked'
  BY SMTT(30), <1>1, <1>2, <1>4, <1>5, CpuFacts DEF Locked, BmsInv
<1> QED
  BY <1>6, <1>7, <1>8 DEF BmsInv

-----------------------------------------------------------------------------
(* Steps that move a task *)

\* A task is accepted: its submission begins.
LEMMA AcceptStep ==
  ASSUME TaskSchedulerAssumption, BmsTyped, BmsPlaced, NEW p \in Cpus, NEW t \in Tasks,
         NEW s \in Subs, s # BmsIdle, s.task = t, fate[t] = "new", sub[p] = BmsIdle,
         fate' = [fate EXCEPT ![t] = "submitted"], sub' = [sub EXCEPT ![p] = s],
         UNCHANGED Bms_queues
  PROVE  BmsPlaced' /\ fate' \in [Tasks -> Fates] /\ sub' \in [Cpus -> Subs]
<1>1. /\ fate' \in [Tasks -> Fates] /\ fate'[t] = "submitted"
      /\ \A u \in Tasks \ {t} : fate'[u] = fate[u]
  BY DEF BmsTyped, Fates
<1>2. /\ sub' \in [Cpus -> Subs] /\ sub'[p] = s /\ \A q \in Cpus \ {p} : sub'[q] = sub[q]
  BY DEF BmsTyped
<1>3. \A q \in Cpus : sub[q] # BmsIdle => sub[q].task \in Tasks /\ sub[q].task # t
  BY SubAt DEF BmsTyped, BmsPlaced
<1>4. \A u \in Tasks : fate'[u] = "queued" <=> In(Bms_queues, u)
  BY <1>1 DEF BmsPlaced
<1>5. \A q \in Cpus : sub'[q] # BmsIdle => fate'[sub'[q].task] = "submitted"
  BY <1>1, <1>2, <1>3 DEF BmsPlaced
<1>6. \A q, r \in Cpus :
        sub'[q] # BmsIdle /\ sub'[r] # BmsIdle /\ sub'[q].task = sub'[r].task => q = r
  BY <1>2, <1>3 DEF BmsPlaced
<1> QED
  BY <1>1, <1>2, <1>4, <1>5, <1>6 DEF BmsPlaced

\* A task is refused, before or at the end of the search for a CPU.
LEMMA RefuseStep ==
  ASSUME TaskSchedulerAssumption, BmsTyped, BmsPlaced, NEW p \in Cpus, NEW t \in Tasks,
         \/ fate[t] = "new" /\ sub' = sub
         \/ /\ sub[p] # BmsIdle /\ sub[p].task = t /\ sub' = [sub EXCEPT ![p] = BmsIdle],
         fate' = [fate EXCEPT ![t] = "rejected"], UNCHANGED Bms_queues
  PROVE  BmsPlaced' /\ fate' \in [Tasks -> Fates] /\ sub' \in [Cpus -> Subs]
<1>1. /\ fate' \in [Tasks -> Fates] /\ fate'[t] = "rejected"
      /\ \A u \in Tasks \ {t} : fate'[u] = fate[u]
  BY DEF BmsTyped, Fates
<1>2. /\ sub' \in [Cpus -> Subs] /\ \A q \in Cpus : sub'[q] = BmsIdle \/ sub'[q] = sub[q]
  BY DEF BmsTyped, Subs
<1>3. fate[t] \in {"new", "submitted"}
  BY DEF BmsPlaced
<1>4. \A q \in Cpus : sub'[q] # BmsIdle => sub[q].task \in Tasks /\ sub[q].task # t
  <2> SUFFICES ASSUME NEW q \in Cpus, sub'[q] # BmsIdle
               PROVE  sub[q].task \in Tasks /\ sub[q].task # t
    OBVIOUS
  <2>1. sub[q] # BmsIdle /\ sub[q].task \in Tasks /\ fate[sub[q].task] = "submitted"
    BY <1>2, SubAt DEF BmsTyped, BmsPlaced
  <2>2. CASE fate[t] = "new"
    BY SMTT(30), <2>1, <2>2
  <2>3. CASE sub[p] # BmsIdle /\ sub[p].task = t /\ sub' = [sub EXCEPT ![p] = BmsIdle]
    BY SMTT(30), <2>1, <2>3 DEF BmsTyped, BmsPlaced
  <2> QED
    BY <2>2, <2>3
<1>5. \A u \in Tasks : fate'[u] = "queued" <=> In(Bms_queues, u)
  BY <1>1, <1>3 DEF BmsPlaced
<1>6. \A q \in Cpus : sub'[q] # BmsIdle => fate'[sub'[q].task] = "submitted"
  BY <1>1, <1>2, <1>4 DEF BmsPlaced
<1>7. \A q, r \in Cpus :
        sub'[q] # BmsIdle /\ sub'[r] # BmsIdle /\ sub'[q].task = sub'[r].task => q = r
  BY SMTT(30), <1>2 DEF BmsPlaced
<1> QED
  BY <1>1, <1>2, <1>5, <1>6, <1>7 DEF BmsPlaced

\* Bms_submit, from outside or from a body.
LEMMA SubmitStep ==
  ASSUME TaskSchedulerAssumption, BmsTyped, BmsPlaced, NEW p \in Cpus, NEW t \in Tasks,
         Bms_submit(p, t)
  PROVE  /\ BmsPlaced' /\ fate' \in [Tasks -> Fates] /\ sub' \in [Cpus -> Subs]
         /\ UNCHANGED <<Bms_queues, lock>>
<1> DEFINE pinned == Affinity[t].kind = "pinned"
           cpu == Head(Listed(t))
<1>1. /\ fate[t] = "new" /\ sub[p] = BmsIdle /\ UNCHANGED <<Bms_queues, lock>>
  BY DEF Bms_submit
<1>2. CASE /\ ~pinned /\ fate' = [fate EXCEPT ![t] = "submitted"]
           /\ sub' = [sub EXCEPT ![p] = Scan(t, Listed(t))]
  <2>1. Scan(t, Listed(t)) \in Submitting
    BY ListedType, CpuFacts DEF Scan, Submitting
  <2>2. Scan(t, Listed(t)) \in Subs /\ Scan(t, Listed(t)).task = t
        /\ Scan(t, Listed(t)) # BmsIdle
    BY <2>1, SubAt DEF Subs, Scan
  <2> QED
    BY ZenonT(30), <1>1, <1>2, <2>2, AcceptStep
<1>3. CASE /\ pinned /\ cpu < NumCpus /\ fate' = [fate EXCEPT ![t] = "submitted"]
           /\ sub' = [sub EXCEPT ![p] = [at |-> "push", task |-> t, target |-> cpu]]
  <2> DEFINE s == [at |-> "push", task |-> t, target |-> cpu]
  <2>1. cpu \in Cpus
    BY <1>3, ListedType, CpuFacts
  <2>2. s \in Placing
    BY <2>1 DEF Placing
  <2>3. s \in Subs /\ s.task = t /\ s # BmsIdle
    BY <2>2, SubAt DEF Subs
  <2> HIDE DEF s
  <2>4. sub' = [sub EXCEPT ![p] = s]
    BY <1>3 DEF s
  <2> QED
    BY ZenonT(30), <1>1, <1>3, <2>3, <2>4, AcceptStep
<1>4. CASE fate' = [fate EXCEPT ![t] = "rejected"] /\ UNCHANGED sub
  BY ZenonT(30), <1>1, <1>4, RefuseStep
<1> QED
  BY ZenonT(30), <1>2, <1>3, <1>4 DEF Bms_submit

LEMMA OutsideStep ==
  ASSUME TaskSchedulerAssumption, BmsInv, NEW p \in Cpus, NEW t \in Tasks,
         submit_outside(p, t)
  PROVE  BmsInv'
<1>1. /\ BmsPlaced' /\ fate' \in [Tasks -> Fates] /\ sub' \in [Cpus -> Subs]
      /\ UNCHANGED <<Bms_queues, lock, run>>
  BY SubmitStep DEF submit_outside, BmsInv
<1>2. BmsTyped'
  BY <1>1 DEF BmsInv, BmsTyped
<1>3. Locked'
  BY <1>1, SameLocks DEF BmsInv
<1> QED
  BY <1>1, <1>2, <1>3 DEF BmsInv

LEMMA BodyStep ==
  ASSUME TaskSchedulerAssumption, BmsInv, NEW p \in Cpus, body_submits(p)
  PROVE  BmsInv'
<1>1. run[p] \in Running /\ run[p].at = "body"
  BY RunAt DEF BmsInv, BmsTyped, body_submits
<1>2. Spawns[run[p].task] \in Tasks
  BY <1>1 DEF Running, body_submits, TaskSchedulerAssumption
<1>3. /\ BmsPlaced' /\ fate' \in [Tasks -> Fates] /\ sub' \in [Cpus -> Subs]
      /\ UNCHANGED <<Bms_queues, lock>>
  BY <1>2, SubmitStep DEF body_submits, BmsInv
<1>4. [run[p] EXCEPT !.at = "returning"] \in Running
  BY <1>1 DEF Running
<1>5. run' = [run EXCEPT ![p] = [run[p] EXCEPT !.at = "returning"]]
  BY DEF body_submits
<1>6. /\ run' \in [Cpus -> Runs] /\ run'[p].at = "returning"
      /\ run'[p].queue = run[p].queue /\ \A q \in Cpus \ {p} : run'[q] = run[q]
  BY <1>1, <1>4, <1>5 DEF BmsInv, BmsTyped, Runs, Running
<1>7. BmsTyped'
  BY <1>3, <1>6 DEF BmsInv, BmsTyped
<1>8. Locked'
  BY <1>1, <1>3, <1>6, SameLocks DEF BmsInv
<1> QED
  BY <1>3, <1>7, <1>8 DEF BmsInv

LEMMA ChosenStep ==
  ASSUME TaskSchedulerAssumption, BmsInv, NEW p \in Cpus, submit_chosen(p)
  PROVE  BmsInv'
<1>1. sub[p] \in Submitting /\ sub[p] # BmsIdle
  BY SubAt DEF submit_chosen, BmsInv, BmsTyped
<1>2. PICK t \in Tasks : t = sub[p].task
  BY <1>1 DEF Submitting
<1>3. UNCHANGED <<Bms_queues, lock, run>>
  BY DEF submit_chosen
<1>4. BmsPlaced' /\ fate' \in [Tasks -> Fates] /\ sub' \in [Cpus -> Subs]
  <2>1. CASE /\ sub[p].best = NoCpu /\ fate' = [fate EXCEPT ![sub[p].task] = "rejected"]
             /\ sub' = [sub EXCEPT ![p] = BmsIdle]
    BY ZenonT(30), <1>1, <1>2, <1>3, <2>1, RefuseStep DEF BmsInv
  <2>2. CASE /\ sub[p].best # NoCpu /\ UNCHANGED fate
             /\ sub' = [sub EXCEPT ![p] =
                  [at |-> "push", task |-> sub[p].task, target |-> sub[p].best]]
    <3> DEFINE s == [at |-> "push", task |-> sub[p].task, target |-> sub[p].best]
    <3>1. sub[p].best \in Cpus
      BY <1>1, <2>2, CpuFacts DEF Submitting
    <3>2. s \in Placing /\ s.task = sub[p].task
      BY <1>1, <3>1 DEF Placing, Submitting
    <3>3. s \in Subs
      BY <3>2 DEF Subs
    <3> HIDE DEF s
    <3>4. /\ sub' \in [Cpus -> Subs] /\ sub'[p].task = sub[p].task
          /\ \A q \in Cpus \ {p} : sub'[q] = sub[q]
      BY <2>2, <3>2, <3>3 DEF s, BmsInv, BmsTyped
    <3>5. Kept
      BY <1>1, <1>3, <2>2, <3>4 DEF Kept
    <3> QED
      BY SMTT(30), <2>2, <3>4, <3>5, KeptPlaced DEF BmsInv, BmsTyped
  <2> QED
    BY <2>1, <2>2 DEF submit_chosen
<1>5. BmsTyped'
  BY <1>3, <1>4 DEF BmsInv, BmsTyped
<1>6. Locked'
  BY <1>3, SameLocks DEF BmsInv
<1> QED
  BY <1>4, <1>5, <1>6 DEF BmsInv


LEMMA PushStep ==
  ASSUME TaskSchedulerAssumption, BmsInv, NEW p \in Cpus, submit_push(p)
  PROVE  BmsInv'
<1>1. sub[p] \in Placing /\ sub[p] # BmsIdle
  BY SubAt DEF submit_push, BmsInv, BmsTyped
<1>2. PICK t \in Tasks, c \in Cpus : t = sub[p].task /\ c = sub[p].target
  BY <1>1 DEF Placing
<1>3. PICK l \in Lanes : l = Prio[t]
  BY SMTT(30) DEF TaskSchedulerAssumption, Lanes
<1>4. /\ Bms_queues' = [Bms_queues EXCEPT ![c][l] = Append(@, t)]
      /\ fate' = [fate EXCEPT ![t] = "queued"] /\ sub' = [sub EXCEPT ![p] = BmsIdle]
      /\ UNCHANGED <<lock, run>>
  BY ZenonT(30), <1>2, <1>3 DEF submit_push
<1>5. fate[t] = "submitted" /\ ~In(Bms_queues, t)
  BY <1>1, <1>2 DEF BmsInv, BmsPlaced
<1>6. /\ Bms_queues' \in LaneSets /\ Once(Bms_queues')
      /\ \A u : In(Bms_queues', u) <=> In(Bms_queues, u) \/ u = t
      /\ \A d \in Cpus, m \in Lanes : \A u \in Range(Bms_queues'[d][m]) :
           u \in Range(Bms_queues[d][m]) \/ (u = t /\ m = l)
  <2>0. PICK q \in LaneSets : q = Bms_queues
    BY DEF BmsInv, BmsTyped
  <2>1. PICK r : q = Bms_queues /\ r = Bms_queues'
    BY <2>0
  <2>2. PICK w \in Seq(Tasks) : w = Append(q[c][l], t)
    BY ZenonT(30), LaneFacts, AppendProperties
  <2>3. Put(r, q, c, l, w)
    <3>1. r = [q EXCEPT ![c][l] = w]
      BY ZenonT(30), <1>4, <2>1, <2>2
    <3> QED
      BY ZenonT(30), <3>1, PutAt
  <2>4. Once(q) /\ ~In(q, t)
    BY <1>5, <2>1 DEF BmsInv, BmsPlaced
  <2>5. Added(r, q, l, t)
    BY <2>2, <2>3, <2>4, PutLane
  <2> QED
    BY <2>1, <2>5 DEF Added
<1>7. /\ fate' \in [Tasks -> Fates] /\ fate'[t] = "queued"
      /\ \A u \in Tasks \ {t} : fate'[u] = fate[u]
  BY <1>4 DEF BmsInv, BmsTyped, Fates
<1>8. /\ sub' \in [Cpus -> Subs] /\ sub'[p] = BmsIdle
      /\ \A q \in Cpus \ {p} : sub'[q] = sub[q]
  BY <1>4 DEF BmsInv, BmsTyped, Subs
<1>9. BmsTyped'
  BY SMTT(30), <1>4, <1>6, <1>7, <1>8 DEF BmsInv, BmsTyped
<1>10. \A u \in Tasks : fate'[u] = "queued" <=> In(Bms_queues', u)
  BY SMTT(30), <1>6, <1>7 DEF BmsInv, BmsPlaced
<1>11. \A d \in Cpus, m \in Lanes : \A u \in Range(Bms_queues'[d][m]) : Prio[u] = m
  BY SMTT(30), <1>3, <1>6 DEF BmsInv, BmsPlaced
<1>12. \A q \in Cpus : sub'[q] # BmsIdle => fate'[sub'[q].task] = "submitted"
  <2> SUFFICES ASSUME NEW q \in Cpus, sub'[q] # BmsIdle
               PROVE  fate'[sub'[q].task] = "submitted"
    OBVIOUS
  <2>1. q # p /\ sub'[q] = sub[q] /\ sub[q] # BmsIdle /\ sub[q].task \in Tasks
    BY SMTT(30), <1>8, SubAt DEF BmsInv, BmsTyped
  <2>2. sub[q].task # t
    BY SMTT(30), <1>1, <1>2, <2>1 DEF BmsInv, BmsPlaced
  <2> QED
    BY <1>7, <2>1, <2>2 DEF BmsInv, BmsPlaced
<1>13. \A q, r \in Cpus :
         sub'[q] # BmsIdle /\ sub'[r] # BmsIdle /\ sub'[q].task = sub'[r].task => q = r
  BY SMTT(30), <1>8 DEF BmsInv, BmsPlaced
<1>14. BmsPlaced'
  BY <1>6, <1>10, <1>11, <1>12, <1>13 DEF BmsPlaced
<1>15. Locked'
  BY <1>4, SameLocks DEF BmsInv
<1> QED
  BY ZenonT(30), <1>9, <1>14, <1>15 DEF BmsInv

\* A body starts with a task taken out of a lane whose lock was free.
LEMMA StartStep ==
  ASSUME TaskSchedulerAssumption, BmsInv, NEW p \in Cpus, NEW c \in Cpus, Free(c),
         run[p].at \notin {"body", "returning"}, NEW l \in Lanes,
         NEW k \in DOMAIN Bms_queues[c][l], NEW w, Without(w, Bms_queues[c][l], k),
         Bms_queues' = [Bms_queues EXCEPT ![c][l] = w],
         Start(p, c, Bms_queues[c][l][k]), UNCHANGED sub
  PROVE  BmsInv'
<1>1. Bms_queues \in LaneSets /\ Once(Bms_queues)
  BY DEF BmsInv, BmsTyped, BmsPlaced
<1>2. PICK t \in Tasks : t = Bms_queues[c][l][k]
  BY <1>1, LaneFacts
<1>3. In(Bms_queues, t) /\ fate[t] = "queued"
  BY <1>2 DEF In, BmsInv, BmsPlaced
<1>4. /\ Bms_queues' \in LaneSets /\ Once(Bms_queues')
      /\ \A u : In(Bms_queues', u) <=> In(Bms_queues, u) /\ u # t
      /\ \A d \in Cpus, m \in Lanes : Range(Bms_queues'[d][m]) \subseteq Range(Bms_queues[d][m])
  <2>0. PICK q \in LaneSets : q = Bms_queues
    BY <1>1
  <2>1. PICK r : q = Bms_queues /\ r = Bms_queues'
    BY <2>0
  <2>2. Once(q) /\ k \in DOMAIN q[c][l] /\ Without(w, q[c][l], k) /\ t = q[c][l][k]
    BY <1>1, <1>2, <2>1
  <2>3. Put(r, q, c, l, w)
    <3>1. r = [q EXCEPT ![c][l] = w] /\ w \in Seq(Tasks)
      BY SMTT(30), <2>1, <2>2 DEF Without
    <3> QED
      BY ZenonT(30), <3>1, PutAt
  <2>4. Removed(r, q, t)
    BY ZenonT(30), <2>2, <2>3, CutLane
  <2> QED
    BY ZenonT(30), <2>1, <2>4 DEF Removed
<1>5. /\ fate' \in [Tasks -> Fates] /\ fate'[t] = "ran"
      /\ \A u \in Tasks \ {t} : fate'[u] = fate[u]
  BY <1>2 DEF Start, BmsInv, BmsTyped, Fates
<1>6. [at |-> "body", task |-> t, queue |-> c] \in Running
  BY SMTT(30) DEF Running
<1>7. run' \in [Cpus -> Runs]
  BY SMTT(30), <1>2, <1>6 DEF Start, BmsInv, BmsTyped, Runs
<1>8. /\ run'[p].at = "body" /\ run'[p].queue = c
      /\ \A q \in Cpus \ {p} : run'[q] = run[q]
  BY SMTT(30) DEF Start, BmsInv, BmsTyped
<1>9. /\ lock' \in [Cpus -> 0..NumCpus] /\ lock'[c] = p
      /\ \A d \in Cpus \ {c} : lock'[d] = lock[d]
  BY SMTT(30), CpuFacts DEF Start, BmsInv, BmsTyped
<1>10. BmsTyped'
  BY <1>4, <1>5, <1>7, <1>9 DEF BmsInv, BmsTyped
<1>11. \A u \in Tasks : fate'[u] = "queued" <=> In(Bms_queues', u)
  BY ZenonT(30), <1>4, <1>5 DEF BmsInv, BmsPlaced
<1>12. \A d \in Cpus, m \in Lanes : \A u \in Range(Bms_queues'[d][m]) : Prio[u] = m
  BY SMTT(30), <1>4 DEF BmsInv, BmsPlaced
<1>13. \A q \in Cpus : sub'[q] # BmsIdle => fate'[sub'[q].task] = "submitted"
  <2> SUFFICES ASSUME NEW q \in Cpus, sub[q] # BmsIdle
               PROVE  fate'[sub[q].task] = "submitted"
    OBVIOUS
  <2>1. sub[q].task \in Tasks /\ fate[sub[q].task] = "submitted"
    BY SubAt DEF BmsInv, BmsTyped, BmsPlaced
  <2> QED
    BY SMTT(30), <1>3, <1>5, <2>1
<1>14. BmsPlaced'
  <2>1. \A q, r \in Cpus :
          sub'[q] # BmsIdle /\ sub'[r] # BmsIdle /\ sub'[q].task = sub'[r].task => q = r
    BY DEF BmsInv, BmsPlaced
  <2> QED
    BY ZenonT(30), <1>4, <1>11, <1>12, <1>13, <2>1 DEF BmsPlaced
<1>15. Locked'
  <2> SUFFICES ASSUME NEW q \in Cpus, NEW d \in Cpus
               PROVE  lock'[d] = q <=> run'[q].at \in {"body", "returning"} /\ run'[q].queue = d
    BY DEF Locked
  <2>1. lock[c] \notin Cpus
    BY SMTT(30), CpuFacts DEF Free
  <2>2. CASE d = c
    BY SMTT(30), <1>8, <1>9, <2>1, <2>2 DEF BmsInv, Locked
  <2>3. CASE d # c
    BY <1>8, <1>9, <2>3 DEF BmsInv, Locked
  <2> QED
    BY <2>2, <2>3
<1> QED
  BY <1>10, <1>14, <1>15 DEF BmsInv

\* The CPU's own queue: the head of its most urgent lane.
LEMMA LocalStep ==
  ASSUME TaskSchedulerAssumption, BmsInv, NEW p \in Cpus, run_local(p)
  PROVE  BmsInv'
<1>1. run[p].at \notin {"body", "returning"} /\ Free(p) /\ UNCHANGED sub
  BY DEF run_local
<1>2. CASE NonEmpty(p) # {}
  <2>1. PICK l \in Lanes : l = Min(NonEmpty(p)) /\ Bms_queues[p][l] # <<>>
    BY ZenonT(30), <1>2, UrgentLane
  <2>2. Bms_queues[p][l] \in Seq(Tasks)
    BY LaneFacts DEF BmsInv, BmsTyped
  <2>3. /\ 1 \in DOMAIN Bms_queues[p][l] /\ Head(Bms_queues[p][l]) = Bms_queues[p][l][1]
        /\ Without(Tail(Bms_queues[p][l]), Bms_queues[p][l], 1)
    BY ZenonT(30), <2>1, <2>2, Ends
  <2>4. /\ Bms_queues' = [Bms_queues EXCEPT ![p][l] = Tail(Bms_queues[p][l])]
        /\ Start(p, p, Head(Bms_queues[p][l]))
    BY <1>2, <2>1 DEF run_local
  <2> QED
    BY ZenonT(30), <1>1, <2>3, <2>4, StartStep
<1>3. CASE NonEmpty(p) = {}
  <2> DEFINE s == [at |-> "scan", i |-> 0, victim |-> NoCpu, victim_len |-> 0]
  <2>1. s \in Seeking
    BY CpuFacts DEF Seeking
  <2>2. s \in Runs /\ s.at \notin {"body", "returning"}
    BY <2>1 DEF Runs
  <2>3. run' = [run EXCEPT ![p] = s] /\ UNCHANGED <<Bms_queues, lock, sub, fate>>
    BY ZenonT(30), <1>3 DEF run_local
  <2> HIDE DEF s
  <2> QED
    BY ZenonT(30), <1>1, <2>2, <2>3, SeekStep
<1> QED
  BY SMTT(30), <1>2, <1>3

\* The fullest neighbour's queue: the back of its least urgent lane.
LEMMA StolenStep ==
  ASSUME TaskSchedulerAssumption, BmsInv, NEW p \in Cpus, run_stolen(p)
  PROVE  BmsInv'
<1>1. /\ run[p].at \notin {"body", "returning"} /\ UNCHANGED sub /\ run[p] \in Seeking
  BY RunAt DEF run_stolen, BmsInv, BmsTyped
<1>2. CASE run[p].victim # NoCpu /\ Free(run[p].victim) /\ NonEmpty(run[p].victim) # {}
  <2>1. PICK c \in Cpus : c = run[p].victim
    BY ZenonT(30), <1>1, <1>2, CpuFacts DEF Seeking
  <2>2. PICK l \in Lanes : l = Max(NonEmpty(c)) /\ Bms_queues[c][l] # <<>>
    BY ZenonT(30), <1>2, <2>1, UrgentLane
  <2>3. Bms_queues[c][l] \in Seq(Tasks)
    BY ZenonT(30), LaneFacts DEF BmsInv, BmsTyped
  <2>4. /\ Len(Bms_queues[c][l]) \in DOMAIN Bms_queues[c][l]
        /\ Back(Bms_queues[c][l]) = Bms_queues[c][l][Len(Bms_queues[c][l])]
        /\ Without(AllButBack(Bms_queues[c][l]), Bms_queues[c][l], Len(Bms_queues[c][l]))
    BY ZenonT(30), <2>2, <2>3, Ends
  <2>5. /\ Bms_queues' = [Bms_queues EXCEPT ![c][l] = AllButBack(Bms_queues[c][l])]
        /\ Start(p, c, Back(Bms_queues[c][l]))
    BY SMTT(30), <1>2, <2>1, <2>2 DEF run_stolen
  <2>6. Free(c)
    BY <1>2, <2>1
  <2> QED
    BY ZenonT(30), <1>1, <2>4, <2>5, <2>6, StartStep
<1>3. CASE run' = [run EXCEPT ![p] = BmsIdle] /\ UNCHANGED <<Bms_queues, lock, fate>>
  <2>1. BmsIdle \in Runs /\ BmsIdle.at \notin {"body", "returning"}
    BY DEF Runs, BmsIdle
  <2> QED
    BY ZenonT(30), <1>1, <1>3, <2>1, SeekStep
<1> QED
  BY ZenonT(30), <1>2, <1>3 DEF run_stolen


LEMMA VictimStep ==
  ASSUME TaskSchedulerAssumption, BmsInv, NEW p \in Cpus, find_victim(p)
  PROVE  BmsInv'
<1>1. run[p] \in Seeking /\ run[p].at = "scan" /\ run[p].i < NumCpus
  BY RunAt DEF find_victim, BmsInv, BmsTyped
<1>2. /\ NumCpus \in Nat /\ run[p].i \in Cpus /\ run[p].i \in Nat
  BY <1>1, CpuFacts DEF Seeking
<1>3. run[p].i + 1 \in 0..NumCpus /\ run[p].i \in 0..NumCpus /\ Len4(run[p].i) \in Nat
  BY <1>1, <1>2, Len4Nat DEF BmsInv
<1>4. /\ [run[p] EXCEPT !.i = @ + 1, !.victim = run[p].i, !.victim_len = Len4(run[p].i)]
           \in Seeking
      /\ [run[p] EXCEPT !.i = @ + 1] \in Seeking
  BY ZenonT(30), <1>1, <1>3 DEF Seeking
<1>5. PICK s \in Seeking : run' = [run EXCEPT ![p] = s]
  BY ZenonT(30), <1>4 DEF find_victim
<1>6. s \in Runs /\ s.at \notin {"body", "returning"}
  BY DEF Runs, Seeking
<1> QED
  BY ZenonT(30), <1>1, <1>5, <1>6, SeekStep DEF find_victim

LEMMA RunOneStep ==
  ASSUME TaskSchedulerAssumption, BmsInv, NEW p \in Cpus, run_one(p)
  PROVE  BmsInv'
<1> DEFINE s == [at |-> "local"]
<1>1. s \in Runs /\ s.at \notin {"body", "returning"}
  BY DEF Runs
<1>2. run[p].at \notin {"body", "returning"}
  BY DEF run_one, BmsIdle
<1>3. run' = [run EXCEPT ![p] = s] /\ UNCHANGED <<Bms_queues, lock, sub, fate>>
  BY DEF run_one
<1> HIDE DEF s
<1> QED
  BY ZenonT(30), <1>1, <1>2, <1>3, SeekStep

LEMMA BmsBegins ==
  ASSUME TaskSchedulerAssumption, BmsInit
  PROVE  BmsInv
<1>1. BmsTyped
  <2>1. <<>> \in Seq(Tasks)
    BY EmptySeq
  <2> QED
    BY <2>1, CpuFacts DEF BmsInit, BmsTyped, LaneSets, Fates, Subs, Runs
<1>2. \A c \in Cpus, l \in Lanes : DOMAIN Bms_queues[c][l] = {} /\ Range(Bms_queues[c][l]) = {}
  BY DEF BmsInit, Range
<1>3. BmsPlaced
  BY SMTT(30), <1>2 DEF BmsInit, BmsPlaced, Once, In
<1>4. Locked
  BY SMTT(30), CpuFacts DEF BmsInit, Locked, BmsIdle
<1> QED
  BY ZenonT(30), <1>1, <1>3, <1>4 DEF BmsInv

LEMMA BmsStutter ==
  ASSUME BmsInv, UNCHANGED Bms_vars
  PROVE  BmsInv'
<1>1. UNCHANGED <<Bms_queues, lock, run, sub, fate>>
  BY DEF Bms_vars
<1>2. BmsTyped' /\ Locked'
  BY ZenonT(60), <1>1 DEF BmsInv, BmsTyped, Locked
<1>3. BmsPlaced'
  BY SMTT(30), <1>1 DEF BmsInv, BmsPlaced
<1> QED
  BY <1>2, <1>3 DEF BmsInv

LEMMA BmsStep ==
  ASSUME TaskSchedulerAssumption, BmsInv, [BmsNext]_Bms_vars
  PROVE  BmsInv'
<1>1. ASSUME NEW p \in Cpus, NEW t \in Tasks, submit_outside(p, t)
      PROVE  BmsInv'
  BY <1>1, OutsideStep
<1>2. ASSUME NEW p \in Cpus, Step(p)
      PROVE  BmsInv'
  BY <1>2, ScanStep, ChosenStep, PushStep, RunOneStep, LocalStep, VictimStep, StolenStep,
     BodyStep, ReturnStep DEF Step
<1> QED
  BY <1>1, <1>2, BmsStutter DEF BmsNext

-----------------------------------------------------------------------------
(* Theorems *)

\* For any number of CPUs and any tasks, affinities and bodies: a lane holds each
\* of its tasks once, all of its priority and all still waiting; and a queue's
\* lock is held by exactly the CPU that runs a task out of it, from before the
\* body starts until it has returned (run_one keeps the guard of the queue's
\* mutex alive across the body).
THEOREM BareMetalTypes ==
  ASSUME TaskSchedulerAssumption
  PROVE  BmsSpec => []BmsTypeOK
<1>1. BmsInv => BmsTypeOK
  <2> SUFFICES ASSUME BmsInv
               PROVE  BmsTypeOK
    OBVIOUS
  <2>1. \A c \in Cpus, l \in Lanes : IsInjective(Bms_queues[c][l])
    BY DEF IsInjective, BmsInv, BmsPlaced, Once
  <2>2. \A c \in Cpus, l \in Lanes : \A t \in Range(Bms_queues[c][l]) :
          fate[t] = "queued" /\ Prio[t] = l
    <3> SUFFICES ASSUME NEW c \in Cpus, NEW l \in Lanes, NEW t \in Range(Bms_queues[c][l])
                 PROVE  fate[t] = "queued" /\ Prio[t] = l
      OBVIOUS
    <3>1. PICK i \in DOMAIN Bms_queues[c][l] : Bms_queues[c][l][i] = t
      BY ZenonT(30) DEF Range
    <3>2. t \in Tasks /\ In(Bms_queues, t)
      BY <3>1, LaneFacts DEF In, BmsInv, BmsTyped
    <3> QED
      BY ZenonT(30), <3>2 DEF BmsInv, BmsPlaced
  <2>3. \A c \in Cpus : lock[c] = NoCpu \/ lock[c] \in Cpus
    BY CpuFacts DEF BmsInv, BmsTyped
  <2>4. \A p, c \in Cpus :
          lock[c] = p <=> run[p].at \in {"body", "returning"} /\ run[p].queue = c
    BY DEF BmsInv, Locked
  <2> QED
    BY <2>1, <2>2, <2>3, <2>4 DEF BmsTypeOK
<1>2. BmsInit => BmsInv
  BY BmsBegins
<1>3. BmsInv /\ [BmsNext]_Bms_vars => BmsInv'
  BY ZenonT(30), BmsStep
<1> QED
  BY <1>1, <1>2, <1>3, PTL DEF BmsSpec

\* For any number of CPUs and any tasks, affinities and bodies: a task is waiting
\* exactly when it is in one place of the lanes of one CPU, so that no interleaving of submit,
\* pop and steal loses it, queues it twice or leaves it queued once it has run.
THEOREM BareMetalKeepsTasks ==
  ASSUME TaskSchedulerAssumption
  PROVE  BmsSpec => []NoTaskLost
<1>1. BmsInv => NoTaskLost
  <2> SUFFICES ASSUME BmsInv, NEW t \in Tasks
               PROVE  IF fate[t] = "queued"
                      THEN \E c \in Cpus, l \in Lanes : \E i \in DOMAIN Bms_queues[c][l] :
                             \A d \in Cpus, m \in Lanes : \A j \in DOMAIN Bms_queues[d][m] :
                               Bms_queues[d][m][j] = t <=> d = c /\ m = l /\ j = i
                      ELSE \A c \in Cpus, l \in Lanes : t \notin Range(Bms_queues[c][l])
    BY SMTT(30) DEF NoTaskLost
  <2>1. CASE fate[t] = "queued"
    <3>1. PICK c \in Cpus, l \in Lanes : \E i \in DOMAIN Bms_queues[c][l] : Bms_queues[c][l][i] = t
      BY <2>1 DEF In, BmsInv, BmsPlaced
    <3>2. PICK i \in DOMAIN Bms_queues[c][l] : Bms_queues[c][l][i] = t
      BY ZenonT(30), <3>1
    <3>3. \A d \in Cpus, m \in Lanes : \A j \in DOMAIN Bms_queues[d][m] :
            Bms_queues[d][m][j] = t <=> d = c /\ m = l /\ j = i
      BY SMTT(30), <3>2 DEF Once, BmsInv, BmsPlaced
    <3> QED
      BY ZenonT(30), <2>1, <3>3
  <2>2. CASE fate[t] # "queued"
    BY <2>2 DEF Range, In, BmsInv, BmsPlaced
  <2> QED
    BY SMTT(30), <2>1, <2>2
<1>2. BmsInit => BmsInv
  BY BmsBegins
<1>3. BmsInv /\ [BmsNext]_Bms_vars => BmsInv'
  BY BmsStep
<1> QED
  BY <1>1, <1>2, <1>3, PTL DEF BmsSpec

=============================================================================
