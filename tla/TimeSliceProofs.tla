--------------------------- MODULE TimeSliceProofs ---------------------------
(***************************************************************************)
(* Proofs about TimeSlice, for any set of vCPUs, any number of runs and    *)
(* switches and any length of the command channel.                         *)
(***************************************************************************)
EXTENDS TimeSlice, SequenceTheorems, TLAPS

LEMMA InitType == Init => TypeOK
<1> SUFFICES ASSUME Init PROVE TypeOK
  OBVIOUS
<1> USE TimeSliceAssumption
<1>1. SchedTypeOK
  BY DEF Init, SchedTypeOK, Copies, NoCopy
<1>2. LoopTypeOK
  BY ZenonT(30) DEF Init, LoopTypeOK, InRun
<1>3. WatchdogTypeOK
  BY DEF Init, WatchdogTypeOK, Disarmed
<1> QED BY <1>1, <1>2, <1>3 DEF TypeOK

\* Removing one entry of a queue keeps the others and shortens it by one.
LEMMA WithoutType ==
  ASSUME NEW S, NEW q \in Seq(S), NEW p \in 1..Len(q)
  PROVE  /\ Without(q, p) \in Seq(S)
         /\ Len(Without(q, p)) = Len(q) - 1
<1> DEFINE a == SubSeq(q, 1, p-1)
           b == SubSeq(q, p+1, Len(q))
<1>1. Len(q) \in Nat /\ p \in Nat
  BY LenProperties
<1>2. a \in Seq(S) /\ Len(a) = p - 1
  <2>1. \A i \in 1..(p-1) : q[i] \in S
     BY <1>1, ElementOfSeq
  <2> QED BY <1>1, <2>1, SubSeqProperties
<1>3. b \in Seq(S) /\ Len(b) = Len(q) - p
  BY <1>1, SubSeqProperties
<1>4. Without(q, p) = a \o b
  BY DEF Without
<1> HIDE DEF a, b
<1>5. a \o b \in Seq(S) /\ Len(a \o b) = Len(a) + Len(b)
  BY ZenonT(30), <1>2, <1>3, ConcatProperties
<1> QED BY <1>1, <1>2, <1>3, <1>4, <1>5

LEMMA SwitchSavingType ==
  ASSUME TypeOK, InRun, switch_saving
  PROVE  SchedTypeOK' /\ index' \in VCpus
<1> DEFINE n == (current + 1) % Len(run_queue)
           v == run_queue[n + 1]
           saved == [contexts EXCEPT ![run_queue[current + 1]] =
                                       [of |-> index, fresh |-> TRUE]]
<1>1. /\ run_queue \in Seq(VCpus) /\ run_queue # <<>> /\ Len(run_queue) \in Nat \ {0}
      /\ index \in VCpus
  BY LenProperties, EmptySeq DEF TypeOK, SchedTypeOK, LoopTypeOK
<1>2. n \in 0..(Len(run_queue) - 1)
  BY <1>1 DEF TypeOK, SchedTypeOK
<1>3. v \in VCpus
  BY <1>1, <1>2, ElementOfSeq
<1>4. saved \in [VCpus -> Copies]
  BY <1>1 DEF TypeOK, SchedTypeOK, Copies
<1>5. /\ current' = n /\ index' = v /\ UNCHANGED <<run_queue, removed>>
      /\ contexts' = [saved EXCEPT ![v] = NoCopy]
      /\ rewound' \in {rewound, rewound \cup {v}}
  BY DEF switch_saving
<1> HIDE DEF n, v, saved
<1>6. contexts' \in [VCpus -> Copies]
  BY <1>3, <1>4, <1>5 DEF Copies, NoCopy
<1>7. current' \in Nat /\ current' < Len(run_queue')
  BY <1>1, <1>2, <1>5
<1> QED
  BY <1>1, <1>3, <1>5, <1>6, <1>7 DEF TypeOK, SchedTypeOK

LEMMA SchedType == TypeOK /\ [Next]_vars => SchedTypeOK'
<1> SUFFICES ASSUME TypeOK, [Next]_vars PROVE SchedTypeOK'
  OBVIOUS
<1> USE DEF TypeOK
<1>1. CASE UNCHANGED sched
  BY <1>1 DEF sched, SchedTypeOK
<1>2. ASSUME NEW v \in VCpus, add_vcpu(v) PROVE SchedTypeOK'
  <2>1. run_queue' \in Seq(VCpus) /\ Len(run_queue') = Len(run_queue) + 1
    BY <1>2, AppendProperties DEF SchedTypeOK, add_vcpu
  <2>2. current' = current /\ current < Len(run_queue')
    BY <1>2, <2>1, LenProperties DEF SchedTypeOK, add_vcpu
  <2> QED
    BY <1>2, <2>1, <2>2 DEF SchedTypeOK, add_vcpu
<1>3. ASSUME NEW v \in VCpus, remove_vcpu(v) PROVE SchedTypeOK'
  <2>1. PICK p \in 1..Len(run_queue) :
          /\ run_queue' = Without(run_queue, p)
          /\ current' = LET cur  == IF current >= p THEN current - 1 ELSE current
                            last == IF Len(run_queue) > 1
                                    THEN Len(run_queue) - 2 ELSE 0
                        IN  IF cur < last THEN cur ELSE last
    BY <1>3 DEF remove_vcpu, FirstAt
  <2>2. run_queue' \in Seq(VCpus) /\ Len(run_queue') = Len(run_queue) - 1
    BY <2>1, WithoutType DEF SchedTypeOK
  <2>3. Len(run_queue) \in Nat /\ (Len(run_queue') = 0 => run_queue' = <<>>)
    BY <2>2, LenProperties, EmptySeq DEF SchedTypeOK
  <2>4. /\ current' \in Nat
        /\ IF run_queue' = <<>> THEN current' = 0 ELSE current' < Len(run_queue')
    BY <2>1, <2>2, <2>3 DEF SchedTypeOK
  <2> QED
    BY <1>3, <2>2, <2>4 DEF SchedTypeOK, remove_vcpu
<1>4. CASE enable_timeslice
  BY <1>4, TimeSliceAssumption DEF SchedTypeOK, enable_timeslice, Copies, NoCopy
<1>5. ASSUME NEW s \in BOOLEAN, run_vcpu_once_kicked(s) \/ run_vcpu_once_exits(s)
      PROVE  SchedTypeOK'
  <2>1. index \in VCpus
    BY <1>5 DEF LoopTypeOK, InRun, run_vcpu_once_kicked, run_vcpu_once_exits
  <2>2. contexts' \in [VCpus -> Copies]
    <3>1. Executed(index)
      BY <1>5 DEF run_vcpu_once_kicked, run_vcpu_once_exits
    <3>2. [of |-> index, fresh |-> FALSE] \in Copies
      BY <2>1 DEF Copies
    <3>3. \A u \in VCpus : contexts[u] \in Copies
      BY DEF SchedTypeOK
    <3> QED
      BY <3>1, <3>2, <3>3 DEF Executed
  <2> QED
    BY <1>5, <2>2 DEF SchedTypeOK, run_vcpu_once_kicked, run_vcpu_once_exits
<1>6. CASE switch_vcpu \/ restore_fails
  BY <1>6, SwitchSavingType DEF switch_vcpu, restore_fails, InRun
<1>7. ASSUME NEW b \in 0..MaxSwitches, start_run(b) PROVE SchedTypeOK'
  BY <1>7, <1>1 DEF start_run
<1> QED
  BY <1>1, <1>2, <1>3, <1>4, <1>5, <1>6, <1>7
     DEF Next, Owner, Errors, LoopStep, GuestExits, Watchdog, Clocks, vars, sched,
         drop_watchdog, run_vcpu_once_fails, save_fails,
         arm_clear, arm_send, take_read, take_clear, continue_quantum,
         disarm_send, disarm_clear, drop_backend, wd_receive, wd_fire, wd_park,
         wd_timeout, tsc_reaches_deadline, wall_clock_reaches_quantum

LEMMA LoopType == TypeOK /\ [Next]_vars => LoopTypeOK'
<1> SUFFICES ASSUME TypeOK, [Next]_vars PROVE LoopTypeOK'
  OBVIOUS
<1> USE TimeSliceAssumption DEF TypeOK, LoopTypeOK, InRun
<1>1. CASE UNCHANGED <<loop, run_queue>>
  BY <1>1 DEF loop
<1>2. CASE UNCHANGED loop /\ pc = "idle"
  BY <1>2 DEF loop
<1>3. ASSUME NEW b \in 0..MaxSwitches, start_run(b) PROVE LoopTypeOK'
  <2>1. run_queue[current + 1] \in VCpus
    BY <1>3, ElementOfSeq, LenProperties DEF start_run, SchedTypeOK
  <2>2. runs' \in Nat /\ runs' # 0 /\ switches' \in Nat /\ budget' \in Nat
    BY <1>3 DEF start_run
  <2>3. index' \in VCpus /\ run_queue' = run_queue /\ run_queue # <<>>
    BY <1>3, <2>1 DEF start_run, sched
  <2> QED
    BY ZenonT(30), <1>3, <2>2, <2>3 DEF start_run
<1>4. CASE drop_watchdog \/ drop_backend \/ run_vcpu_once_fails \/ save_fails
           \/ disarm_clear
  BY <1>4 DEF drop_watchdog, drop_backend, run_vcpu_once_fails, save_fails,
              disarm_clear, sched
<1>5. CASE arm_clear \/ arm_send \/ take_clear \/ continue_quantum \/ disarm_send
           \/ wall_clock_reaches_quantum
  BY ZenonT(30), <1>5 DEF arm_clear, arm_send, take_clear, continue_quantum, disarm_send,
              wall_clock_reaches_quantum, sched
<1>6. CASE take_read
  <2>1. kicked' \in BOOLEAN
    BY <1>6 DEF take_read
  <2>2. pc' \in {"clear", "decide"}
    BY <1>6 DEF take_read
  <2> QED
    BY <1>6, <2>1, <2>2 DEF take_read, sched
<1>7. ASSUME NEW s \in BOOLEAN, run_vcpu_once_kicked(s) \/ run_vcpu_once_exits(s)
      PROVE  LoopTypeOK'
  BY <1>7 DEF run_vcpu_once_kicked, run_vcpu_once_exits
<1>8. CASE switch_vcpu
  <2>1. index' \in VCpus /\ run_queue' = run_queue
    BY <1>8, SwitchSavingType DEF switch_vcpu, switch_saving
  <2> QED
    BY <1>8, <2>1 DEF switch_vcpu
<1>9. CASE restore_fails
  <2>1. index' \in VCpus
    BY <1>9, SwitchSavingType DEF restore_fails
  <2> QED
    BY <1>9, <2>1 DEF restore_fails
<1> QED
  BY <1>1, <1>2, <1>3, <1>4, <1>5, <1>6, <1>7, <1>8, <1>9
     DEF Next, Owner, Errors, LoopStep, GuestExits, Watchdog, Clocks, vars, sched,
         add_vcpu, remove_vcpu, enable_timeslice, wd_receive, wd_fire, wd_park,
         wd_timeout, tsc_reaches_deadline

LEMMA ReceiveType ==
  ASSUME TypeOK, wd_receive
  PROVE  WatchdogTypeOK'
<1> USE TimeSliceAssumption DEF TypeOK, WatchdogTypeOK
<1> DEFINE c == Head(chan)
<1>1. c \in Commands /\ chan' \in Seq(Commands)
  BY HeadTailProperties DEF wd_receive
<1>2. CASE c.op = "Arm" /\ install_arm(c)
  <2>1. c \in [op : {"Arm"}, vcpu : VCpus, prev : VCpus \cup {NoVcpu},
               due : BOOLEAN, run : Nat]
    BY <1>1, <1>2 DEF Commands
  <2>2. armed' = [vcpu |-> c.vcpu, due |-> c.due, run |-> c.run] /\ wpc' = "check"
    BY <1>2 DEF install_arm
  <2>3. byte' \in [VCpus -> Nat]
    BY <1>2, <2>1 DEF install_arm
  <2> HIDE DEF c
  <2> QED
    BY <1>1, <2>1, <2>2, <2>3
<1>3. CASE c.op = "Disarm" /\ armed' = Disarmed /\ wpc' = "check"
           /\ byte' = IF armed.vcpu = NoVcpu THEN byte
                      ELSE [byte EXCEPT ![armed.vcpu] = 0]
  BY <1>1, <1>3 DEF Disarmed
<1>4. CASE c.op = "Shutdown" /\ wpc' = "exited" /\ UNCHANGED <<byte, armed>>
  BY SMTT(30), <1>1, <1>4
<1> QED
  BY <1>2, <1>3, <1>4 DEF wd_receive

LEMMA WatchdogType == TypeOK /\ [Next]_vars => WatchdogTypeOK'
<1> SUFFICES ASSUME TypeOK, [Next]_vars PROVE WatchdogTypeOK'
  OBVIOUS
<1> USE TimeSliceAssumption DEF TypeOK, WatchdogTypeOK
<1>1. CASE UNCHANGED <<byte, chan, wd>>
  BY <1>1 DEF wd
<1>2. ASSUME NEW b \in 0..MaxSwitches, start_run(b) PROVE WatchdogTypeOK'
  BY <1>2 DEF start_run
<1>3. CASE drop_watchdog \/ disarm_send
  <2>1. [op |-> "Shutdown"] \in Commands /\ [op |-> "Disarm"] \in Commands
    BY DEF Commands
  <2>2. chan' \in Seq(Commands)
    <3>1. chan' = Append(chan, [op |-> "Shutdown"])
             \/ chan' = Append(chan, [op |-> "Disarm"])
      BY <1>3 DEF drop_watchdog, disarm_send
    <3>2. \A c \in Commands : Append(chan, c) \in Seq(Commands)
      BY AppendProperties
    <3> QED
      BY ZenonT(30), <2>1, <3>1, <3>2
  <2> QED
    BY <1>3, <2>2 DEF drop_watchdog, disarm_send, wd
<1>4. CASE arm_send
  <2>1. [op |-> "Arm", vcpu |-> index, prev |-> outgoing, due |-> FALSE,
         run |-> runs] \in Commands
    BY <1>4 DEF arm_send, Commands, LoopTypeOK, InRun
  <2>2. chan' \in Seq(Commands)
    BY <1>4, <2>1, AppendProperties DEF arm_send
  <2> QED
    BY <1>4, <2>2 DEF arm_send, wd
<1>5. CASE arm_clear \/ take_clear \/ disarm_clear
  BY <1>5 DEF arm_clear, take_clear, disarm_clear, wd
<1>6. CASE tsc_reaches_deadline
  <2>1. CASE armed' = [armed EXCEPT !.due = TRUE] /\ armed.vcpu # NoVcpu
             /\ UNCHANGED chan
    BY ZenonT(30), <1>6, <2>1 DEF tsc_reaches_deadline
  <2>2. CASE UNCHANGED armed /\ \E i \in FirstNotDue(chan) :
               chan' = [chan EXCEPT ![i] = [@ EXCEPT !.due = TRUE]]
    <3>1. PICK i \in 1..Len(chan) :
            chan[i].op = "Arm" /\ chan' = [chan EXCEPT ![i] = [@ EXCEPT !.due = TRUE]]
      BY ZenonT(30), <2>2 DEF FirstNotDue, NotDue
    <3>2. chan[i] \in Commands
      BY <3>1, ElementOfSeq
    <3>3. [chan[i] EXCEPT !.due = TRUE] \in Commands
      BY ZenonT(30), <3>1, <3>2 DEF Commands
    <3>4. chan' \in Seq(Commands)
      BY <3>1, <3>3, ExceptSeq
    <3> QED
      BY <1>6, <2>2, <3>4 DEF tsc_reaches_deadline
  <2> QED
    BY <1>6, <2>1, <2>2 DEF tsc_reaches_deadline
<1>7. CASE wd_receive
  BY <1>7, ReceiveType
<1>8. CASE wd_fire
  <2>1. armed.vcpu \in VCpus
    BY <1>8 DEF wd_fire
  <2> QED
    BY <1>8, <2>1 DEF wd_fire, Disarmed
<1>9. CASE wd_park \/ wd_timeout
  BY <1>9 DEF wd_park, wd_timeout
<1> QED
  BY <1>1, <1>2, <1>3, <1>4, <1>5, <1>6, <1>7, <1>8, <1>9
     DEF Next, Owner, Errors, LoopStep, GuestExits, Watchdog, Clocks, vars, wd,
         add_vcpu, remove_vcpu, enable_timeslice, run_vcpu_once_kicked,
         run_vcpu_once_exits, run_vcpu_once_fails, take_read, continue_quantum,
         switch_vcpu, save_fails, restore_fails, drop_backend,
         wall_clock_reaches_quantum

\* The type invariant of the run loop, its scheduler and the watchdog holds in
\* every reachable state, for any constants.
THEOREM TypeCorrect == Spec => []TypeOK
<1>1. TypeOK /\ [Next]_vars => TypeOK'
  BY SchedType, LoopType, WatchdogType DEF TypeOK
<1> QED
  BY InitType, <1>1, PTL DEF Spec

-----------------------------------------------------------------------------
(* No stranded kick.  NoStrandedKick alone is not inductive: a byte is set   *)
(* by the watchdog from what it has armed, which it took from the channel.   *)
(* The invariant therefore covers the armed quantum and every queued arm as  *)
(* well: each is for the running vCPU, or a later command clears its byte.   *)

\* No mark is of a later run than the current one.
RunBounds ==
  /\ \A v \in VCpus : byte[v] <= runs
  /\ armed.run <= runs
  /\ \A i \in 1..Len(chan) : chan[i].op = "Arm" => chan[i].run <= runs

ArmCovered ==
  InRun /\ armed.vcpu # NoVcpu /\ armed.run = runs
    => armed.vcpu = index \/ WillBeCleared(armed.vcpu)

ChanCovered ==
  InRun => \A i \in 1..Len(chan) :
    chan[i].op = "Arm" /\ chan[i].run = runs
      => \/ chan[i].vcpu = index
         \/ \E j \in (i + 1)..Len(chan) :
              chan[j].op = "Arm" /\ chan[j].prev = chan[i].vcpu
         \/ pc \in {"arm", "send"} /\ outgoing = chan[i].vcpu

KickInv == RunBounds /\ NoStrandedKick /\ ArmCovered /\ ChanCovered

LEMMA KickInit == Init => KickInv
BY DEF Init, KickInv, RunBounds, NoStrandedKick, ArmCovered, ChanCovered, InRun,
       Disarmed

\* Steps that leave the channel, the armed quantum and the running vCPU alone
\* and at most clear bytes.
LEMMA KickQuiet ==
  ASSUME TypeOK, KickInv,
         UNCHANGED <<chan, armed, runs, index, outgoing>>,
         byte' \in [VCpus -> Nat],
         \A v \in VCpus : byte'[v] \in {byte[v], 0},
         InRun' => InRun /\ (pc \in {"arm", "send"} => pc' \in {"arm", "send"})
  PROVE  KickInv'
<1> USE DEF TypeOK, KickInv
<1>1. RunBounds'
  <2>1. ASSUME NEW v \in VCpus PROVE byte'[v] <= runs
    <3>1. runs \in Nat /\ byte[v] <= runs
      BY DEF RunBounds, LoopTypeOK
    <3> QED
      BY <3>1
  <2> QED
    BY <2>1 DEF RunBounds
<1>2. \A v : InRun' /\ WillBeCleared(v) => WillBeCleared(v)'
  BY DEF WillBeCleared
<1>3. NoStrandedKick'
  BY <1>2 DEF NoStrandedKick, LoopTypeOK, WatchdogTypeOK, InRun
<1>4. ArmCovered'
  BY <1>2 DEF ArmCovered
<1>5. ChanCovered'
  BY DEF ChanCovered
<1> QED
  BY <1>1, <1>3, <1>4, <1>5

\* The facts about a channel with a command appended.
LEMMA ChanAppend ==
  ASSUME TypeOK, NEW c \in Commands, chan' = Append(chan, c)
  PROVE  /\ Len(chan) \in Nat /\ Len(chan') = Len(chan) + 1
         /\ \A i \in 1..Len(chan) : chan'[i] = chan[i]
         /\ chan'[Len(chan) + 1] = c
BY AppendProperties, LenProperties DEF TypeOK, WatchdogTypeOK

LEMMA KickSendOther ==
  ASSUME TypeOK, KickInv, disarm_send \/ drop_watchdog
  PROVE  KickInv'
<1> USE DEF TypeOK, KickInv
<1>1. PICK c \in Commands : chan' = Append(chan, c) /\ c.op # "Arm"
  BY DEF disarm_send, drop_watchdog, Commands
<1>2. /\ UNCHANGED <<byte, armed, runs, index, outgoing>>
      /\ InRun' => InRun /\ pc \notin {"arm", "send"}
  BY DEF disarm_send, drop_watchdog, wd, InRun
<1>3. /\ Len(chan) \in Nat /\ Len(chan') = Len(chan) + 1
      /\ \A i \in 1..Len(chan) : chan'[i] = chan[i]
      /\ chan'[Len(chan) + 1] = c
  BY <1>1, ChanAppend
<1>4. RunBounds'
  BY <1>1, <1>2, <1>3 DEF RunBounds
<1>5. \A v : InRun' /\ WillBeCleared(v) => WillBeCleared(v)'
  BY <1>2, <1>3 DEF WillBeCleared
<1>6. NoStrandedKick'
  BY <1>2, <1>5 DEF NoStrandedKick
<1>7. ArmCovered'
  BY <1>2, <1>5 DEF ArmCovered
<1>8. ChanCovered'
  <2> SUFFICES ASSUME InRun', NEW i \in 1..Len(chan'),
                      chan'[i].op = "Arm", chan'[i].run = runs'
               PROVE  \/ chan'[i].vcpu = index'
                      \/ \E j \in (i + 1)..Len(chan') :
                           chan'[j].op = "Arm" /\ chan'[j].prev = chan'[i].vcpu
    BY DEF ChanCovered
  <2>1. i \in 1..Len(chan)
    BY <1>1, <1>3
  <2>2. \/ chan[i].vcpu = index
        \/ \E j \in (i + 1)..Len(chan) :
             chan[j].op = "Arm" /\ chan[j].prev = chan[i].vcpu
    BY <1>2, <1>3, <2>1 DEF ChanCovered
  <2> QED
    BY <1>2, <1>3, <2>1, <2>2
<1> QED
  BY <1>4, <1>6, <1>7, <1>8

LEMMA KickArmSend ==
  ASSUME TypeOK, KickInv, arm_send
  PROVE  KickInv'
<1> USE DEF TypeOK, KickInv
<1> DEFINE c == [op |-> "Arm", vcpu |-> index, prev |-> outgoing, due |-> FALSE,
                 run |-> runs]
<1>1. c \in Commands /\ chan' = Append(chan, c)
  BY DEF arm_send, Commands, LoopTypeOK, InRun
<1>2. UNCHANGED <<byte, armed, runs, index, outgoing>> /\ pc = "send" /\ InRun
  BY DEF arm_send, wd, InRun
<1>3. /\ Len(chan) \in Nat /\ Len(chan') = Len(chan) + 1
      /\ \A i \in 1..Len(chan) : chan'[i] = chan[i]
      /\ chan'[Len(chan) + 1] = c
  BY <1>1, ChanAppend
<1>4. RunBounds'
  BY SMTT(30), <1>2, <1>3 DEF RunBounds, LoopTypeOK
<1>5. \A v : WillBeCleared(v) => WillBeCleared(v)'
  BY <1>2, <1>3 DEF WillBeCleared
<1>6. NoStrandedKick'
  BY <1>2, <1>5 DEF NoStrandedKick
<1>7. ArmCovered'
  BY <1>2, <1>5 DEF ArmCovered
<1>8. ChanCovered'
  <2> SUFFICES ASSUME NEW i \in 1..Len(chan'),
                      chan'[i].op = "Arm", chan'[i].run = runs'
               PROVE  \/ chan'[i].vcpu = index'
                      \/ \E j \in (i + 1)..Len(chan') :
                           chan'[j].op = "Arm" /\ chan'[j].prev = chan'[i].vcpu
    BY DEF ChanCovered
  <2>1. CASE i = Len(chan) + 1
    BY SMTT(30), <1>2, <1>3, <2>1
  <2>2. CASE i \in 1..Len(chan)
    <3>1. \/ chan[i].vcpu = index
          \/ \E j \in (i + 1)..Len(chan) :
               chan[j].op = "Arm" /\ chan[j].prev = chan[i].vcpu
          \/ outgoing = chan[i].vcpu
      BY <1>2, <1>3, <2>2 DEF ChanCovered
    <3> QED
      BY SMTT(30), <1>2, <1>3, <2>2, <3>1
  <2> QED
    BY <1>3, <2>1, <2>2
<1> QED
  BY <1>4, <1>6, <1>7, <1>8

LEMMA KickStart ==
  ASSUME TypeOK, KickInv, NEW b \in 0..MaxSwitches, start_run(b)
  PROVE  KickInv'
<1> USE DEF TypeOK, KickInv
<1>1. UNCHANGED <<byte, chan, armed>> /\ runs' = runs + 1 /\ runs \in Nat
  BY DEF start_run, LoopTypeOK
<1>2. \A v \in VCpus : byte[v] \in Nat /\ byte[v] <= runs
  BY DEF RunBounds, WatchdogTypeOK
<1>3. armed.run \in Nat /\ armed.run <= runs
  BY DEF RunBounds, WatchdogTypeOK
<1>4. \A i \in 1..Len(chan) :
        chan[i].op = "Arm" => chan[i].run \in Nat /\ chan[i].run <= runs
  <2> TAKE i \in 1..Len(chan)
  <2>1. chan[i] \in Commands
    BY ElementOfSeq DEF WatchdogTypeOK
  <2> QED
    BY <2>1 DEF RunBounds, Commands
<1>5. RunBounds'
  BY <1>1, <1>2, <1>3, <1>4 DEF RunBounds
<1>6. NoStrandedKick'
  BY <1>1, <1>2 DEF NoStrandedKick
<1>7. ArmCovered'
  BY <1>1, <1>3 DEF ArmCovered
<1>8. ChanCovered'
  BY <1>1, <1>4 DEF ChanCovered
<1> QED
  BY <1>5, <1>6, <1>7, <1>8

\* The vCPU that was running becomes outgoing, which the next arm will clear.
LEMMA KickSwitch ==
  ASSUME TypeOK, KickInv, switch_vcpu
  PROVE  KickInv'
<1> USE DEF TypeOK, KickInv
<1>1. /\ UNCHANGED <<byte, chan, armed, runs>> /\ outgoing' = index
      /\ pc = "decide" /\ pc' = "arm" /\ InRun
  BY DEF switch_vcpu, wd, InRun
<1>2. \A v : WillBeCleared(v) \/ v = index => WillBeCleared(v)'
  BY <1>1 DEF WillBeCleared
<1>3. RunBounds'
  BY <1>1 DEF RunBounds
<1>4. NoStrandedKick'
  BY <1>1, <1>2 DEF NoStrandedKick
<1>5. ArmCovered'
  BY <1>1, <1>2 DEF ArmCovered
<1>6. ChanCovered'
  BY SMTT(30), <1>1 DEF ChanCovered
<1> QED
  BY <1>3, <1>4, <1>5, <1>6

LEMMA KickRestoreFails ==
  ASSUME TypeOK, KickInv, restore_fails
  PROVE  KickInv'
<1>1. UNCHANGED <<byte, chan, armed, runs>> /\ ~InRun'
  BY DEF restore_fails, wd, InRun
<1> QED
  BY <1>1 DEF KickInv, RunBounds, NoStrandedKick, ArmCovered, ChanCovered

\* A deadline passing changes no command but for its due mark.
LEMMA ChanDue ==
  ASSUME TypeOK, tsc_reaches_deadline
  PROVE  /\ Len(chan') = Len(chan)
         /\ \A i \in 1..Len(chan) :
              /\ chan'[i].op = chan[i].op
              /\ chan[i].op = "Arm" => /\ chan'[i].vcpu = chan[i].vcpu
                                      /\ chan'[i].prev = chan[i].prev
                                      /\ chan'[i].run = chan[i].run
<1>1. CASE UNCHANGED chan
  BY <1>1
<1>2. CASE \E i \in FirstNotDue(chan) :
             chan' = [chan EXCEPT ![i] = [@ EXCEPT !.due = TRUE]]
  <2>1. PICK k \in 1..Len(chan) :
          chan[k].op = "Arm" /\ chan' = [chan EXCEPT ![k] = [@ EXCEPT !.due = TRUE]]
    BY ZenonT(30), <1>2 DEF FirstNotDue, NotDue
  <2> DEFINE e == [chan[k] EXCEPT !.due = TRUE]
  <2>2. chan \in Seq(Commands) /\ chan[k] \in Commands
    BY <2>1, ElementOfSeq DEF TypeOK, WatchdogTypeOK
  <2>3. chan[k] \in [op : {"Arm"}, vcpu : VCpus, prev : VCpus \cup {NoVcpu},
                     due : BOOLEAN, run : Nat]
    BY <2>1, <2>2 DEF Commands
  <2>4. /\ e \in Commands /\ e.op = chan[k].op /\ e.vcpu = chan[k].vcpu
        /\ e.prev = chan[k].prev /\ e.run = chan[k].run
    <3>1. /\ e.op = chan[k].op /\ e.vcpu = chan[k].vcpu
          /\ e.prev = chan[k].prev /\ e.run = chan[k].run
      BY <2>3
    <3>2. e \in [op : {"Arm"}, vcpu : VCpus, prev : VCpus \cup {NoVcpu},
                 due : BOOLEAN, run : Nat]
      BY ZenonT(30), <2>3
    <3> QED
      BY <3>1, <3>2 DEF Commands
  <2>5. chan' = [chan EXCEPT ![k] = e]
    BY <2>1
  <2> HIDE DEF e
  <2>6. /\ Len(chan') = Len(chan)
        /\ \A j \in 1..Len(chan) : chan'[j] = IF j = k THEN e ELSE chan[j]
    BY <2>2, <2>4, <2>5, ExceptSeq
  <2> QED
    BY <2>4, <2>6
<1> QED
  BY <1>1, <1>2 DEF tsc_reaches_deadline

LEMMA KickDeadline ==
  ASSUME TypeOK, KickInv, tsc_reaches_deadline
  PROVE  KickInv'
<1> USE DEF TypeOK, KickInv
<1>1. UNCHANGED <<byte, runs, index, outgoing, pc>>
  BY DEF tsc_reaches_deadline, loop
<1>2. armed'.vcpu = armed.vcpu /\ armed'.run = armed.run
  BY SMTT(30) DEF tsc_reaches_deadline, WatchdogTypeOK
<1>3. /\ Len(chan) \in Nat /\ Len(chan') = Len(chan)
      /\ \A i \in 1..Len(chan) :
           /\ chan'[i].op = chan[i].op
           /\ chan[i].op = "Arm" => /\ chan'[i].vcpu = chan[i].vcpu
                                   /\ chan'[i].prev = chan[i].prev
                                   /\ chan'[i].run = chan[i].run
  BY ChanDue, LenProperties DEF WatchdogTypeOK
<1>4. RunBounds'
  BY <1>1, <1>2, <1>3 DEF RunBounds
<1>5. \A v : WillBeCleared(v) => WillBeCleared(v)'
  BY <1>1, <1>3 DEF WillBeCleared
<1>6. NoStrandedKick'
  BY <1>1, <1>5 DEF NoStrandedKick, InRun
<1>7. ArmCovered'
  BY <1>1, <1>2, <1>5 DEF ArmCovered, InRun
<1>8. ChanCovered'
  <2> SUFFICES ASSUME InRun, NEW i \in 1..Len(chan),
                      chan[i].op = "Arm", chan[i].run = runs
               PROVE  \/ chan[i].vcpu = index
                      \/ \E j \in (i + 1)..Len(chan) :
                           chan'[j].op = "Arm" /\ chan'[j].prev = chan[i].vcpu
                      \/ pc \in {"arm", "send"} /\ outgoing = chan[i].vcpu
    BY <1>1, <1>3 DEF ChanCovered, InRun
  <2>1. ASSUME NEW j \in (i + 1)..Len(chan),
               chan[j].op = "Arm" /\ chan[j].prev = chan[i].vcpu
        PROVE  chan'[j].op = "Arm" /\ chan'[j].prev = chan[i].vcpu
    BY <1>3, <2>1
  <2> QED
    BY <2>1 DEF ChanCovered
<1> QED
  BY <1>4, <1>6, <1>7, <1>8

LEMMA KickFire ==
  ASSUME TypeOK, KickInv, wd_fire
  PROVE  KickInv'
<1> USE DEF TypeOK, KickInv
<1>1. UNCHANGED <<chan, runs, index, outgoing, pc>> /\ armed' = Disarmed
  BY DEF wd_fire, loop
<1>2. armed.vcpu \in VCpus /\ byte' = [byte EXCEPT ![armed.vcpu] = armed.run]
  BY DEF wd_fire, WatchdogTypeOK
<1>3. \A v \in VCpus : byte'[v] = IF v = armed.vcpu THEN armed.run ELSE byte[v]
  BY SMTT(30), <1>2 DEF WatchdogTypeOK
<1>4. RunBounds'
  BY <1>1, <1>3 DEF RunBounds, Disarmed, LoopTypeOK
<1>5. \A v : WillBeCleared(v)' <=> WillBeCleared(v)
  BY <1>1 DEF WillBeCleared
<1>6. NoStrandedKick'
  BY <1>1, <1>2, <1>3, <1>5, TimeSliceAssumption DEF NoStrandedKick, ArmCovered, InRun
<1>7. ArmCovered'
  BY <1>1 DEF ArmCovered, Disarmed
<1>8. ChanCovered'
  BY <1>1 DEF ChanCovered, InRun
<1> QED
  BY <1>4, <1>6, <1>7, <1>8

\* Receiving a command: only an Arm takes part in the covering, and it clears
\* the byte it stood for as it is installed.
LEMMA KickReceive ==
  ASSUME TypeOK, KickInv, wd_receive
  PROVE  KickInv'
<1> USE DEF TypeOK, KickInv
<1> DEFINE c == Head(chan)
<1>1. /\ chan \in Seq(Commands) /\ chan # <<>> /\ chan' = Tail(chan)
      /\ UNCHANGED <<runs, index, outgoing, pc>>
  BY DEF wd_receive, loop, WatchdogTypeOK
<1>2. /\ Len(chan) \in Nat /\ Len(chan) >= 1 /\ c = chan[1] /\ c \in Commands
      /\ Len(chan') = Len(chan) - 1
      /\ \A i \in 1..(Len(chan) - 1) : chan'[i] = chan[i + 1]
  BY <1>1, HeadTailProperties, LenProperties, EmptySeq
<1>3. \A v : InRun /\ WillBeCleared(v)
             => WillBeCleared(v)' \/ (c.op = "Arm" /\ c.prev = v)
  <2> SUFFICES ASSUME NEW v, NEW i \in 1..Len(chan),
                      chan[i].op = "Arm", chan[i].prev = v, i # 1
               PROVE  \E k \in 1..Len(chan') : chan'[k].op = "Arm" /\ chan'[k].prev = v
    BY <1>1, <1>2 DEF WillBeCleared
  <2>1. i - 1 \in 1..Len(chan') /\ chan'[i - 1] = chan[i]
    BY <1>2
  <2> QED
    BY <2>1
<1>4. ChanCovered'
  <2> SUFFICES ASSUME InRun, NEW i \in 1..Len(chan'),
                      chan'[i].op = "Arm", chan'[i].run = runs
               PROVE  \/ chan'[i].vcpu = index
                      \/ \E j \in (i + 1)..Len(chan') :
                           chan'[j].op = "Arm" /\ chan'[j].prev = chan'[i].vcpu
                      \/ pc \in {"arm", "send"} /\ outgoing = chan'[i].vcpu
    BY <1>1 DEF ChanCovered, InRun
  <2>1. i + 1 \in 1..Len(chan) /\ chan'[i] = chan[i + 1]
    BY <1>2
  <2>2. ASSUME NEW j \in (i + 2)..Len(chan),
               chan[j].op = "Arm" /\ chan[j].prev = chan[i + 1].vcpu
        PROVE  \E k \in (i + 1)..Len(chan') :
                 chan'[k].op = "Arm" /\ chan'[k].prev = chan'[i].vcpu
    <3>1. j - 1 \in (i + 1)..Len(chan') /\ chan'[j - 1] = chan[j]
      BY <1>2
    <3> QED
      BY <2>1, <2>2, <3>1
  <2>3. \/ chan[i + 1].vcpu = index
        \/ \E j \in (i + 1 + 1)..Len(chan) :
             chan[j].op = "Arm" /\ chan[j].prev = chan[i + 1].vcpu
        \/ pc \in {"arm", "send"} /\ outgoing = chan[i + 1].vcpu
    BY <2>1 DEF ChanCovered
  <2>4. i + 1 + 1 = i + 2
    BY <1>2
  <2> QED
    BY SMTT(30), <2>1, <2>2, <2>3, <2>4
<1>5. CASE c.op = "Arm" /\ install_arm(c)
  <2>1. c \in [op : {"Arm"}, vcpu : VCpus, prev : VCpus \cup {NoVcpu},
               due : BOOLEAN, run : Nat]
    BY <1>2, <1>5 DEF Commands
  <2>2. armed' = [vcpu |-> c.vcpu, due |-> c.due, run |-> c.run]
    BY SMTT(30), <1>5 DEF install_arm
  <2>3. \A v \in VCpus : byte'[v] = IF v = c.prev THEN 0 ELSE byte[v]
    BY <1>5, <2>1, TimeSliceAssumption DEF install_arm, WatchdogTypeOK
  <2>4. armed'.vcpu = chan[1].vcpu /\ armed'.run = chan[1].run /\ chan[1].op = "Arm"
    BY SMTT(30), <1>2, <1>5, <2>2
  <2> HIDE DEF c
  <2>5. RunBounds'
    BY SMTT(30), <1>1, <1>2, <2>3, <2>4 DEF RunBounds, LoopTypeOK
  <2>6. NoStrandedKick'
    BY <1>1, <1>3, <2>3 DEF NoStrandedKick, InRun, LoopTypeOK
  <2>7. ArmCovered'
    <3>1. PICK v : v = chan[1].vcpu
      OBVIOUS
    <3> SUFFICES ASSUME InRun, chan[1].run = runs
                 PROVE  v = index \/ WillBeCleared(v)'
      <4>1. ArmCovered' <=> (InRun' /\ v # NoVcpu /\ chan[1].run = runs'
                              => v = index' \/ WillBeCleared(v)')
        BY SMTT(30), <2>4, <3>1 DEF ArmCovered, WillBeCleared
      <4> QED
        BY <1>1, <4>1 DEF InRun
    <3>2. \/ v = index
          \/ \E j \in 2..Len(chan) : chan[j].op = "Arm" /\ chan[j].prev = v
          \/ pc \in {"arm", "send"} /\ outgoing = v
      BY <1>2, <2>4, <3>1 DEF ChanCovered
    <3>3. ASSUME NEW j \in 2..Len(chan), chan[j].op = "Arm" /\ chan[j].prev = v
          PROVE  WillBeCleared(v)'
      <4>1. j - 1 \in 1..Len(chan') /\ chan'[j - 1] = chan[j]
        BY <1>2
      <4> QED
        BY <3>3, <4>1 DEF WillBeCleared
    <3>4. ASSUME pc \in {"arm", "send"} /\ outgoing = v
          PROVE  WillBeCleared(v)'
      BY <3>4, <1>1 DEF WillBeCleared
    <3> QED
      BY <3>2, <3>3, <3>4
  <2> QED
    BY <1>4, <2>5, <2>6, <2>7
<1>6. CASE c.op # "Arm"
  <2>1. /\ armed' \in {armed, Disarmed}
        /\ \A v \in VCpus : byte'[v] \in {byte[v], 0}
    BY SMTT(30), <1>6 DEF wd_receive, WatchdogTypeOK
  <2>2. RunBounds'
    <3>1. \A v \in VCpus : byte'[v] <= runs
      <4> TAKE v \in VCpus
      <4>1. byte[v] <= runs /\ runs \in Nat
        BY DEF RunBounds, LoopTypeOK
      <4> QED
        BY <2>1, <4>1
    <3>2. armed'.run <= runs
      BY <2>1 DEF RunBounds, Disarmed, LoopTypeOK
    <3>3. \A i \in 1..Len(chan') : chan'[i].op = "Arm" => chan'[i].run <= runs
      BY SMTT(30), <1>2 DEF RunBounds
    <3> QED
      BY <1>1, <3>1, <3>2, <3>3 DEF RunBounds
  <2> HIDE DEF c
  <2>3. NoStrandedKick'
    BY <1>1, <1>3, <1>6, <2>1 DEF NoStrandedKick, InRun, LoopTypeOK
  <2>4. ArmCovered'
    <3>1. CASE armed' = armed
      BY <1>1, <1>3, <1>6, <3>1 DEF ArmCovered, InRun
    <3>2. CASE armed' = Disarmed
      BY <3>2 DEF ArmCovered, Disarmed
    <3> QED
      BY <2>1, <3>1, <3>2
  <2> QED
    BY <1>4, <2>2, <2>3, <2>4
<1> QED
  BY <1>5, <1>6 DEF wd_receive

\* During every run, no kick that the run's own arms caused is left on a vCPU
\* that no longer runs without a command on its way to clear it.
THEOREM KickNeverStranded == Spec => []NoStrandedKick
<1>1. TypeOK /\ KickInv /\ [Next]_vars => KickInv'
  <2> SUFFICES ASSUME TypeOK, KickInv, [Next]_vars PROVE KickInv'
    OBVIOUS
  <2>1. \A v \in VCpus : byte[v] \in Nat
    BY DEF TypeOK, WatchdogTypeOK
  <2>2. byte \in [VCpus -> Nat] /\ WatchdogTypeOK'
    BY WatchdogType DEF TypeOK, WatchdogTypeOK
  <2>3. ASSUME UNCHANGED <<byte, chan, armed, runs, index, outgoing>>,
               InRun' => InRun /\ (pc \in {"arm", "send"} => pc' \in {"arm", "send"})
        PROVE  KickInv'
    BY SMTT(30), <2>2, <2>3, KickQuiet
  <2>4. CASE \E v \in VCpus : add_vcpu(v) \/ remove_vcpu(v)
    BY SMTT(30), <2>3, <2>4 DEF add_vcpu, remove_vcpu, loop, wd, InRun
  <2>5. CASE enable_timeslice \/ UNCHANGED vars \/ wd_park \/ wd_timeout
    BY <2>3, <2>5 DEF enable_timeslice, vars, wd_park, wd_timeout, loop, wd, InRun
  <2>6. CASE \E b \in 0..MaxSwitches : start_run(b)
    BY <2>6, KickStart
  <2>7. CASE drop_watchdog \/ disarm_send
    BY <2>7, KickSendOther
  <2>8. CASE run_vcpu_once_fails \/ save_fails \/ drop_backend
    BY <2>3, <2>8 DEF run_vcpu_once_fails, save_fails, drop_backend, wd, InRun
  <2>9. CASE restore_fails
    BY <2>9, KickRestoreFails
  <2>10. CASE arm_clear \/ take_clear \/ disarm_clear
    <3>1. byte' = [byte EXCEPT ![index] = 0]
      BY <2>10 DEF arm_clear, take_clear, disarm_clear
    <3>2. \A v \in VCpus : byte'[v] \in {byte[v], 0}
      BY <2>2, <3>1
    <3>3. byte' \in [VCpus -> Nat]
      BY <2>2 DEF WatchdogTypeOK
    <3>4. /\ UNCHANGED <<chan, armed, runs, index, outgoing>>
          /\ InRun' => InRun /\ (pc \in {"arm", "send"} => pc' \in {"arm", "send"})
      BY <2>10 DEF arm_clear, take_clear, disarm_clear, wd, InRun
    <3> QED
      BY <3>2, <3>3, <3>4, KickQuiet
  <2>11. CASE arm_send
    BY <2>11, KickArmSend
  <2>12. CASE take_read \/ continue_quantum \/ wall_clock_reaches_quantum
    BY <2>3, <2>12 DEF take_read, continue_quantum, wall_clock_reaches_quantum, wd,
                       InRun
  <2>13. CASE \E s \in BOOLEAN : run_vcpu_once_kicked(s) \/ run_vcpu_once_exits(s)
    BY <2>3, <2>13 DEF run_vcpu_once_kicked, run_vcpu_once_exits, wd, InRun
  <2>14. CASE switch_vcpu
    BY <2>14, KickSwitch
  <2>15. CASE tsc_reaches_deadline
    BY <2>15, KickDeadline
  <2>16. CASE wd_fire
    BY <2>16, KickFire
  <2>17. CASE wd_receive
    BY <2>17, KickReceive
  <2> QED
    BY <2>4, <2>5, <2>6, <2>7, <2>8, <2>9, <2>10, <2>11, <2>12, <2>13, <2>14,
       <2>15, <2>16, <2>17
       DEF Next, Owner, Errors, LoopStep, GuestExits, Watchdog, Clocks
<1>2. KickInv => NoStrandedKick
  BY DEF KickInv
<1> QED
  BY <1>1, <1>2, KickInit, TypeCorrect, PTL DEF Spec
-----------------------------------------------------------------------------
(* Restoring only the latest state.  A copy grows stale when its vCPU runs   *)
(* while the scheduler holds it, so the invariant says where a stale copy    *)
(* can be: under the current vCPU, whose next save overwrites it, or under   *)
(* one the owner has removed.                                                *)

\* What the store may hold for v: nothing, or a copy of v itself.
OwnCopies(v) == {NoCopy, [of |-> v, fresh |-> TRUE], [of |-> v, fresh |-> FALSE]}

\* The vCPU the scheduler's position names.
Named(v) == run_queue # <<>> /\ v = run_queue[current + 1]

RunsNamed == InRun => Named(index)

StaleNamed(v) ==
  contexts[v] = [of |-> v, fresh |-> FALSE] => v \in removed \/ Named(v)

RestoreInv ==
  /\ RunsNamed
  /\ \A v \in VCpus : contexts[v] \in OwnCopies(v) /\ StaleNamed(v)
  /\ RestoresLatest

LEMMA RestoreInit == Init => RestoreInv
BY TimeSliceAssumption
   DEF Init, RestoreInv, RunsNamed, InRun, OwnCopies, StaleNamed, RestoresLatest,
       NoCopy

LEMMA RestoreFacts ==
  ASSUME RestoreInv
  PROVE  /\ RunsNamed /\ RestoresLatest
         /\ \A v \in VCpus : contexts[v] \in OwnCopies(v)
         /\ \A v \in VCpus : StaleNamed(v)
BY ZenonT(30) DEF RestoreInv

\* A copy is told from none by whose it is, and a fresh one from a stale one.
LEMMA CopiesDiffer ==
  ASSUME NEW v \in VCpus
  PROVE  /\ NoCopy # [of |-> v, fresh |-> FALSE]
         /\ [of |-> v, fresh |-> TRUE] # [of |-> v, fresh |-> FALSE]
         /\ \A c \in OwnCopies(v) : c.of \in {NoVcpu, v}
<1>1. NoCopy.of = NoVcpu /\ NoVcpu # v
  BY TimeSliceAssumption DEF NoCopy
<1>2. [of |-> v, fresh |-> FALSE].of = v
  OBVIOUS
<1>3. [of |-> v, fresh |-> TRUE].fresh # [of |-> v, fresh |-> FALSE].fresh
  OBVIOUS
<1>4. [of |-> v, fresh |-> TRUE].of = v
  OBVIOUS
<1> QED
  BY ZenonT(30), <1>1, <1>2, <1>3, <1>4 DEF OwnCopies

\* Steps that leave the scheduler and the running vCPU alone.
LEMMA RestoreQuiet ==
  ASSUME RestoreInv, UNCHANGED <<sched, index>>, InRun' => InRun
  PROVE  RestoreInv'
BY DEF RestoreInv, RunsNamed, InRun, OwnCopies, StaleNamed, RestoresLatest, Named,
       sched

\* remove_vcpu keeps the position on the vCPU it names unless that entry is the
\* one that goes.
LEMMA RemoveKeepsNamed ==
  ASSUME TypeOK, NEW v \in VCpus, remove_vcpu(v), NEW u \in VCpus, Named(u), u # v
  PROVE  Named(u)'
<1> USE DEF TypeOK, SchedTypeOK
<1>1. PICK p \in 1..Len(run_queue) :
        /\ run_queue[p] = v
        /\ run_queue' = Without(run_queue, p)
        /\ current' = LET cur  == IF current >= p THEN current - 1 ELSE current
                          last == IF Len(run_queue) > 1
                                  THEN Len(run_queue) - 2 ELSE 0
                      IN  IF cur < last THEN cur ELSE last
  BY DEF remove_vcpu, FirstAt
<1>2. /\ run_queue \in Seq(VCpus) /\ Len(run_queue) \in Nat /\ p \in Nat
      /\ current \in Nat /\ current < Len(run_queue) /\ current + 1 # p
  BY <1>1, LenProperties DEF Named
<1>3. /\ run_queue' \in Seq(VCpus) /\ Len(run_queue') = Len(run_queue) - 1
  BY <1>1, WithoutType
<1>4. current' = IF current >= p THEN current - 1 ELSE current
  BY <1>1, <1>2
<1>5. run_queue' # <<>>
  BY <1>2, <1>3, EmptySeq
<1>6. run_queue'[current' + 1] = run_queue[current + 1]
  <2> DEFINE a == SubSeq(run_queue, 1, p - 1)
             b == SubSeq(run_queue, p + 1, Len(run_queue))
  <2>1. /\ a \in Seq(VCpus) /\ Len(a) = p - 1
        /\ \A i \in 1..(p - 1) : a[i] = run_queue[i]
    <3>1. \A i \in 1..(p - 1) : run_queue[i] \in VCpus
      BY <1>2, ElementOfSeq
    <3> QED BY <1>2, <3>1, SubSeqProperties
  <2>2. /\ b \in Seq(VCpus) /\ Len(b) = Len(run_queue) - p
        /\ \A i \in 1..(Len(run_queue) - p) : b[i] = run_queue[p + i]
    <3>1. \A i \in (p + 1)..Len(run_queue) : run_queue[i] \in VCpus
      BY SMTT(30), <1>2, ElementOfSeq
    <3>2. /\ b \in Seq(VCpus) /\ Len(b) = Len(run_queue) - p
          /\ \A i \in 1..(Len(run_queue) - p) : b[i] = run_queue[p + 1 + i - 1]
      BY SMTT(30), <1>2, <3>1, SubSeqProperties
    <3> QED BY <1>2, <3>2
  <2>3. run_queue' = a \o b
    BY SMTT(30), <1>1 DEF Without
  <2> HIDE DEF a, b
  <2>4. \A i \in 1..(Len(a) + Len(b)) :
          (a \o b)[i] = IF i <= Len(a) THEN a[i] ELSE b[i - Len(a)]
    BY SMTT(30), <2>1, <2>2, ConcatProperties
  <2>5. CASE current >= p
    <3>1. /\ current \in 1..(Len(a) + Len(b)) /\ ~(current <= Len(a))
          /\ current - Len(a) = current + 1 - p
          /\ current + 1 - p \in 1..(Len(run_queue) - p) /\ current' + 1 = current
      BY SMTT(30), <1>2, <1>4, <2>1, <2>2, <2>5
    <3>2. (a \o b)[current] = b[current + 1 - p]
      BY SMTT(30), <2>4, <3>1
    <3>3. b[current + 1 - p] = run_queue[p + (current + 1 - p)]
      BY SMTT(30), <2>2, <3>1
    <3>4. p + (current + 1 - p) = current + 1
      BY <1>2
    <3> QED
      BY <2>3, <3>1, <3>2, <3>3, <3>4
  <2>6. CASE ~(current >= p)
    <3>1. /\ current + 1 \in 1..(Len(a) + Len(b)) /\ current + 1 <= Len(a)
          /\ current + 1 \in 1..(p - 1) /\ current' = current
      BY SMTT(30), <1>2, <1>4, <2>1, <2>2, <2>6
    <3>2. (a \o b)[current + 1] = a[current + 1]
      BY SMTT(30), <2>4, <3>1
    <3>3. a[current + 1] = run_queue[current + 1]
      BY SMTT(30), <2>1, <3>1
    <3> QED
      BY <2>3, <3>1, <3>2, <3>3
  <2> QED
    BY SMTT(30), <2>5, <2>6
<1> QED
  BY <1>5, <1>6 DEF Named

LEMMA RestoreOwner ==
  ASSUME TypeOK, RestoreInv, NEW v \in VCpus, add_vcpu(v) \/ remove_vcpu(v)
  PROVE  RestoreInv'
<1>1. UNCHANGED <<contexts, rewound, pc>> /\ ~InRun' /\ removed \subseteq removed'
  BY DEF add_vcpu, remove_vcpu, loop, InRun
<1>2. ASSUME NEW u \in VCpus, Named(u) PROVE u \in removed' \/ Named(u)'
  <2>1. CASE add_vcpu(v)
    <3>1. run_queue' = Append(run_queue, v) /\ current' = current
      BY <2>1 DEF add_vcpu
    <3>2. /\ run_queue \in Seq(VCpus) /\ current \in Nat
          /\ current < Len(run_queue) /\ Len(run_queue) \in Nat
      BY <1>2, LenProperties DEF TypeOK, SchedTypeOK, Named
    <3>3. run_queue' # <<>> /\ run_queue'[current + 1] = run_queue[current + 1]
      BY <3>1, <3>2, AppendProperties
    <3> QED
      BY ZenonT(30), <1>2, <3>1, <3>3 DEF Named
  <2>2. CASE remove_vcpu(v) /\ u # v
    BY ZenonT(30), <1>2, <2>2, RemoveKeepsNamed
  <2>3. CASE remove_vcpu(v) /\ u = v
    BY <2>3 DEF remove_vcpu
  <2> QED
    BY ZenonT(30), <2>1, <2>2, <2>3
<1>3. \A u \in VCpus : StaleNamed(u)'
  BY ZenonT(30), <1>1, <1>2, RestoreFacts DEF StaleNamed
<1>4. \A u \in VCpus : contexts'[u] \in OwnCopies(u)
  BY ZenonT(30), <1>1, RestoreFacts
<1>5. RunsNamed' /\ RestoresLatest'
  BY ZenonT(30), <1>1, RestoreFacts DEF RunsNamed, RestoresLatest
<1> QED
  BY ZenonT(30), <1>3, <1>4, <1>5 DEF RestoreInv, OwnCopies, NoCopy

LEMMA RestoreExecuted ==
  ASSUME TypeOK, RestoreInv, NEW s \in BOOLEAN,
         run_vcpu_once_kicked(s) \/ run_vcpu_once_exits(s)
  PROVE  RestoreInv'
<1>1. /\ InRun /\ Executed(index)
      /\ UNCHANGED <<run_queue, current, rewound, removed, index>>
  BY DEF run_vcpu_once_kicked, run_vcpu_once_exits, InRun
<1>2. index \in VCpus /\ NoVcpu \notin VCpus
  BY <1>1, TimeSliceAssumption DEF TypeOK, LoopTypeOK
<1>3. \A v \in VCpus : contexts'[v] = IF contexts[v].of = index
                                      THEN [of |-> index, fresh |-> FALSE]
                                      ELSE contexts[v]
  BY <1>1 DEF Executed
<1>4. \A v \in VCpus : Named(v)' <=> Named(v)
  BY ZenonT(30), <1>1 DEF Named
<1>5. ASSUME NEW v \in VCpus PROVE contexts'[v] \in OwnCopies(v) /\ StaleNamed(v)'
  <2>1. CASE contexts[v].of = index
    <3>1. contexts[v].of \in {NoVcpu, v}
      BY ZenonT(30), RestoreFacts, CopiesDiffer
    <3>2. v = index
      BY ZenonT(30), <1>2, <2>1, <3>1
    <3>3. contexts'[v] = [of |-> v, fresh |-> FALSE]
      BY ZenonT(30), <1>3, <2>1, <3>2
    <3>4. Named(v)'
      BY ZenonT(30), <1>1, <1>4, <3>2, RestoreFacts DEF RunsNamed
    <3> QED
      BY ZenonT(30), <3>3, <3>4 DEF OwnCopies, StaleNamed
  <2>2. CASE contexts[v].of # index
    <3>1. contexts'[v] = contexts[v] /\ removed' = removed
      BY ZenonT(30), <1>1, <1>3, <2>2
    <3> QED
      BY ZenonT(30), <1>4, <3>1, RestoreFacts DEF StaleNamed
  <2> QED
    BY ZenonT(30), <2>1, <2>2
<1>6. RunsNamed' /\ RestoresLatest'
  BY ZenonT(30), <1>1, <1>2, <1>4, RestoreFacts DEF RunsNamed, RestoresLatest
<1> QED
  BY ZenonT(30), <1>5, <1>6 DEF RestoreInv, OwnCopies, NoCopy

LEMMA RestoreSwitch ==
  ASSUME TypeOK, RestoreInv, InRun, switch_saving
  PROVE  RestoreInv'
<1> DEFINE n == (current + 1) % Len(run_queue)
           v == run_queue[n + 1]
           saved == [contexts EXCEPT ![run_queue[current + 1]] =
                                       [of |-> index, fresh |-> TRUE]]
<1>1. /\ run_queue \in Seq(VCpus) /\ run_queue # <<>> /\ Len(run_queue) \in Nat \ {0}
      /\ index \in VCpus /\ contexts \in [VCpus -> Copies]
  BY LenProperties, EmptySeq DEF TypeOK, SchedTypeOK, LoopTypeOK
<1>2. n \in 0..(Len(run_queue) - 1)
  BY <1>1 DEF TypeOK, SchedTypeOK
<1>3. v \in VCpus
  BY <1>1, <1>2, ElementOfSeq
<1>4. index = run_queue[current + 1]
  BY ZenonT(30), RestoreFacts DEF RunsNamed, Named
<1>5. \A u \in VCpus : saved[u] = IF u = index THEN [of |-> u, fresh |-> TRUE]
                                               ELSE contexts[u]
  BY ZenonT(30), <1>1, <1>4
<1>6. /\ current' = n /\ index' = v /\ UNCHANGED <<run_queue, removed>>
      /\ contexts' = [saved EXCEPT ![v] = NoCopy]
      /\ rewound' = IF saved[v] \in {NoCopy, [of |-> v, fresh |-> TRUE]}
                    THEN rewound ELSE rewound \cup {v}
  BY ZenonT(30) DEF switch_saving
<1>7. DOMAIN saved = VCpus
  BY <1>1
<1>8. Named(index)'
  BY ZenonT(30), <1>1, <1>6 DEF Named
<1> HIDE DEF n, v, saved
<1>9. \A u \in VCpus : contexts'[u] = IF u = v THEN NoCopy ELSE saved[u]
  BY ZenonT(30), <1>6, <1>7
<1>10. \A u \in VCpus : u # index /\ saved[u] = [of |-> u, fresh |-> FALSE]
                        => u \in removed
  BY ZenonT(30), <1>4, <1>5, RestoreFacts DEF StaleNamed, Named
<1>11. \A u \in VCpus : saved[u] \in OwnCopies(u)
  BY ZenonT(30), <1>5, RestoreFacts DEF OwnCopies
<1>12. \A u \in VCpus : saved[u] = [of |-> u, fresh |-> FALSE] => u # index
  BY ZenonT(30), <1>5, CopiesDiffer
<1>13. rewound' \subseteq removed
  <2>1. rewound \subseteq removed
    BY ZenonT(30), RestoreFacts DEF RestoresLatest
  <2>2. \/ saved[v] \in {NoCopy, [of |-> v, fresh |-> TRUE]}
        \/ saved[v] = [of |-> v, fresh |-> FALSE] /\ v # index
    BY ZenonT(30), <1>3, <1>11, <1>12 DEF OwnCopies
  <2> QED
    BY ZenonT(30), <1>3, <1>6, <1>10, <2>1, <2>2
<1>14. ASSUME NEW u \in VCpus PROVE contexts'[u] \in OwnCopies(u) /\ StaleNamed(u)'
  <2>1. CASE u = v
    <3>1. contexts'[u] = NoCopy
      BY ZenonT(30), <1>9, <2>1
    <3> QED
      BY ZenonT(30), <3>1, CopiesDiffer DEF OwnCopies, StaleNamed
  <2>2. CASE u # v
    <3>1. contexts'[u] = saved[u]
      BY ZenonT(30), <1>9, <2>2
    <3> QED
      BY ZenonT(30), <1>6, <1>10, <1>11, <1>12, <3>1 DEF StaleNamed
  <2> QED
    BY ZenonT(30), <2>1, <2>2
<1>15. RunsNamed' /\ RestoresLatest'
  BY ZenonT(30), <1>6, <1>8, <1>13 DEF RunsNamed, RestoresLatest
<1> QED
  BY ZenonT(30), <1>14, <1>15 DEF RestoreInv, OwnCopies, NoCopy

\* A vCPU the owner has never removed is only ever resumed from its own latest
\* state.
THEOREM OnlyLatestRestored == Spec => []RestoresLatest
<1>1. TypeOK /\ RestoreInv /\ [Next]_vars => RestoreInv'
  <2> SUFFICES ASSUME TypeOK, RestoreInv, [Next]_vars PROVE RestoreInv'
    OBVIOUS
  <2>1. CASE \E v \in VCpus : add_vcpu(v) \/ remove_vcpu(v)
    BY SMTT(30), <2>1, RestoreOwner
  <2>2. CASE enable_timeslice
    <3>1. /\ \A v \in VCpus : contexts'[v] = NoCopy
          /\ ~InRun' /\ UNCHANGED <<rewound, removed>>
      BY <2>2 DEF enable_timeslice, loop, InRun
    <3>2. \A v \in VCpus : NoCopy # [of |-> v, fresh |-> FALSE]
      BY SMTT(30), TimeSliceAssumption DEF NoCopy
    <3> QED
      BY <3>1, <3>2 DEF RestoreInv, RunsNamed, OwnCopies, StaleNamed, RestoresLatest
  <2>3. CASE \E b \in 0..MaxSwitches : start_run(b)
    <3>1. /\ UNCHANGED sched /\ run_queue # <<>>
          /\ index' = run_queue[current + 1]
      BY <2>3 DEF start_run
    <3> QED
      BY <3>1 DEF RestoreInv, RunsNamed, OwnCopies, StaleNamed, RestoresLatest,
                  Named, sched
  <2>4. CASE \E s \in BOOLEAN : run_vcpu_once_kicked(s) \/ run_vcpu_once_exits(s)
    BY <2>4, RestoreExecuted
  <2>5. CASE switch_vcpu \/ restore_fails
    BY SMTT(30), <2>5, RestoreSwitch DEF switch_vcpu, restore_fails, InRun
  <2>6. CASE drop_watchdog \/ run_vcpu_once_fails \/ save_fails \/ drop_backend
    BY SMTT(30), <2>6, RestoreQuiet
       DEF drop_watchdog, run_vcpu_once_fails, save_fails, drop_backend, InRun
  <2>7. CASE arm_clear \/ arm_send \/ take_read \/ take_clear
    BY SMTT(30), <2>7, RestoreQuiet DEF arm_clear, arm_send, take_read, take_clear, InRun
  <2>8. CASE continue_quantum \/ disarm_send \/ disarm_clear
    BY <2>8, RestoreQuiet DEF continue_quantum, disarm_send, disarm_clear, InRun
  <2>9. CASE Watchdog \/ Clocks \/ UNCHANGED vars
    BY <2>9, RestoreQuiet
       DEF Watchdog, Clocks, wd_receive, wd_fire, wd_park, wd_timeout,
           tsc_reaches_deadline, wall_clock_reaches_quantum, vars, loop, InRun
  <2> QED
    BY <2>1, <2>2, <2>3, <2>4, <2>5, <2>6, <2>7, <2>8, <2>9
       DEF Next, Owner, Errors, LoopStep, GuestExits
<1>2. RestoreInv => RestoresLatest
  BY DEF RestoreInv
<1> QED
  BY <1>1, <1>2, RestoreInit, TypeCorrect, PTL DEF Spec

-----------------------------------------------------------------------------
(* No store into unmapped memory: the pages go only once the watchdog thread *)
(* has been joined, and a thread that has exited stays so.                   *)

UnmapInv == pc = "unmapped" => wpc = "exited"

\* No step stores into a kvm_run page after the backend has unmapped it.
THEOREM NoStoreAfterUnmap == Spec => NoKickAfterUnmap
<1>1. Init => UnmapInv
  BY SMTT(30) DEF Init, UnmapInv
<1>2. UnmapInv /\ [Next]_vars
        => UnmapInv' /\ [pc = "unmapped" => UNCHANGED byte]_vars
  BY DEF UnmapInv, InRun, Next, Owner, Errors, LoopStep, GuestExits, Watchdog, Clocks,
         vars, loop, wd, add_vcpu, remove_vcpu, enable_timeslice, start_run,
         drop_watchdog, run_vcpu_once_fails, save_fails, restore_fails, arm_clear,
         arm_send, take_read, take_clear, continue_quantum, disarm_send, disarm_clear,
         switch_vcpu, drop_backend, run_vcpu_once_kicked, run_vcpu_once_exits,
         wd_receive, wd_fire, wd_park, wd_timeout, tsc_reaches_deadline,
         wall_clock_reaches_quantum
<1> QED
  BY <1>1, <1>2, PTL DEF Spec, NoKickAfterUnmap
=============================================================================
