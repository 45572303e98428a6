------------------------------ MODULE TimeSlice ------------------------------
(***************************************************************************)
(* The time-sliced KVM run loop of enlil-core: StealthRunLoop's            *)
(* run_timesliced (run_loop.rs), the round-robin TimeSliceScheduler it     *)
(* drives (vcpu.rs), and the preemption watchdog thread that kicks a vCPU  *)
(* out of KVM_RUN when its quantum's TSC deadline passes                   *)
(* (preempt_watchdog.rs).                                                  *)
(*                                                                         *)
(* Two threads share one byte per vCPU, kvm_run.immediate_exit, and a      *)
(* command channel from the run loop to the watchdog.  A vCPU's            *)
(* architectural state is abstracted to what tells copies apart: whose     *)
(* state a stored copy is, and whether it is still that vCPU's latest.     *)
(***************************************************************************)
EXTENDS Naturals, Sequences, FiniteSets

CONSTANTS
  VCpus,        \* backend vCPU indices
  NoVcpu,       \* Rust's None for an Option<ImmediateExitKicker>
  KvmFails,     \* whether the KVM ioctls of a run may return an error
  MaxQueue,     \* bound: entries the owner puts in the run queue
  MaxRuns,      \* bound: calls of run_timesliced
  MaxSwitches,  \* bound: largest max_switches the owner passes
  MaxPending    \* bound: commands in flight to the watchdog

ASSUME TimeSliceAssumption ==
  /\ NoVcpu \notin VCpus
  /\ KvmFails \in BOOLEAN
  /\ MaxQueue \in Nat /\ MaxRuns \in Nat /\ MaxSwitches \in Nat
  /\ MaxPending \in Nat \ {0}

VARIABLES
  run_queue, current, \* TimeSliceScheduler: queue and 0-based position
  contexts,           \* TimeSliceScheduler: the saved copy of every vCPU
  rewound,            \* history: vCPUs resumed from a copy other than their latest state
  removed,            \* history: vCPUs the owner has taken off the queue
  pc, index, outgoing,\* the run loop: where it is, running vCPU, one switched out
  kicked, stop,       \* locals of one loop iteration
  switches, budget,   \* locals of run_timesliced
  elapsed,            \* quantum_start.elapsed() >= quantum
  runs,               \* calls of run_timesliced so far
  byte,               \* kvm_run.immediate_exit of every vCPU: 0 is clear, and
                      \* a set byte names the run whose arm set it
  chan, armed, wpc    \* the watchdog: command channel, armed quantum, position

sched == <<run_queue, current, contexts, rewound, removed>>
loop  == <<pc, index, outgoing, kicked, stop, switches, budget, elapsed, runs>>
wd    == <<armed, wpc>>
vars  == <<sched, loop, byte, chan, wd>>

Commands ==
       [op : {"Arm"}, vcpu : VCpus, prev : VCpus \cup {NoVcpu}, due : BOOLEAN,
        run : Nat]
  \cup [op : {"Disarm", "Shutdown"}]

Disarmed == [vcpu |-> NoVcpu, due |-> FALSE, run |-> 0]

\* A saved KvmVcpuState: whose state it is, and whether it is still current.
Copies == [of : VCpus \cup {NoVcpu}, fresh : BOOLEAN]
NoCopy == [of |-> NoVcpu, fresh |-> FALSE]

\* Inside run_timesliced.
InRun == pc \in {"arm", "send", "kvm_run", "take", "clear", "decide", "disarm"}

Init ==
  /\ run_queue = <<>> /\ current = 0
  /\ contexts = [v \in VCpus |-> NoCopy] /\ rewound = {} /\ removed = {}
  /\ pc = "idle" /\ index = NoVcpu /\ outgoing = NoVcpu
  /\ kicked = FALSE /\ stop = FALSE
  /\ switches = 0 /\ budget = 0 /\ elapsed = FALSE /\ runs = 0
  /\ byte = [v \in VCpus |-> 0]
  /\ chan = <<>> /\ armed = Disarmed /\ wpc = "unspawned"

-----------------------------------------------------------------------------
(* The owner, between runs. *)

add_vcpu(v) ==
  /\ pc = "idle" /\ Len(run_queue) < MaxQueue
  /\ run_queue' = Append(run_queue, v)
  /\ UNCHANGED <<current, contexts, rewound, removed, loop, byte, chan, wd>>

\* enable_timeslice installs a new scheduler: no queue and no saved copies.
enable_timeslice ==
  /\ pc = "idle"
  /\ run_queue' = <<>> /\ current' = 0
  /\ contexts' = [v \in VCpus |-> NoCopy]
  /\ UNCHANGED <<rewound, removed, loop, byte, chan, wd>>

\* The 1-based position of the first entry of v, if there is one.
FirstAt(q, v) ==
  {p \in 1..Len(q) : q[p] = v /\ \A o \in 1..Len(q) : q[o] = v => p <= o}

\* The queue q without its entry at position p.
Without(q, p) == SubSeq(q, 1, p - 1) \o SubSeq(q, p + 1, Len(q))

\* remove_vcpu: the first entry of v goes; current keeps naming the same
\* vCPU when it can.  The saved context stays in the store.
remove_vcpu(v) ==
  /\ pc = "idle"
  /\ \E p \in FirstAt(run_queue, v) :
       LET cur  == IF current >= p THEN current - 1 ELSE current
           last == IF Len(run_queue) > 1 THEN Len(run_queue) - 2 ELSE 0
       IN  /\ run_queue' = Without(run_queue, p)
           /\ current' = IF cur < last THEN cur ELSE last
  /\ removed' = removed \cup {v}
  /\ UNCHANGED <<contexts, rewound, loop, byte, chan, wd>>

\* run_timesliced up to its first arm_quantum_watchdog; the first call spawns
\* the watchdog thread (ensure_preempt_watchdog).  The current vCPU is resumed
\* as it is: nothing is restored into it.
start_run(b) ==
  /\ pc = "idle" /\ runs < MaxRuns /\ run_queue # <<>>
  /\ runs' = runs + 1 /\ budget' = b /\ switches' = 0
  /\ index' = run_queue[current + 1] /\ outgoing' = NoVcpu
  /\ elapsed' = FALSE /\ kicked' = FALSE /\ stop' = FALSE
  /\ pc' = "arm"
  /\ wpc' = IF wpc = "unspawned" THEN "check" ELSE wpc
  /\ UNCHANGED <<sched, byte, chan, armed>>

-----------------------------------------------------------------------------
(* run_timesliced *)

\* arm_quantum_watchdog, first half: clear the incoming vCPU's byte.
arm_clear ==
  /\ pc = "arm"
  /\ byte' = [byte EXCEPT ![index] = 0]
  /\ pc' = "send"
  /\ UNCHANGED <<sched, index, outgoing, kicked, stop, switches, budget,
                 elapsed, runs, chan, wd>>

\* Mutant: the vCPU switched out is not passed to the watchdog.
arm_send_no_prev ==
  /\ pc = "send" /\ Len(chan) < MaxPending
  /\ chan' = Append(chan, [op |-> "Arm", vcpu |-> index, prev |-> NoVcpu,
                           due |-> FALSE, run |-> runs])
  /\ elapsed' = FALSE /\ pc' = "kvm_run"
  /\ UNCHANGED <<sched, index, outgoing, kicked, stop, switches, budget, runs,
                 byte, wd>>

\* arm_quantum_watchdog, second half: send the Arm; the wall-clock quantum
\* starts over.
arm_send ==
  /\ pc = "send" /\ Len(chan) < MaxPending
  /\ chan' = Append(chan, [op |-> "Arm", vcpu |-> index, prev |-> outgoing,
                           due |-> FALSE, run |-> runs])
  /\ elapsed' = FALSE /\ pc' = "kvm_run"
  /\ UNCHANGED <<sched, index, outgoing, kicked, stop, switches, budget, runs,
                 byte, wd>>

\* The guest ran, so a copy of it the scheduler still holds is out of date.
Executed(v) ==
  contexts' = [u \in VCpus |-> IF contexts[u].of = v
                               THEN [of |-> v, fresh |-> FALSE]
                               ELSE contexts[u]]

\* run_vcpu_once: KVM_RUN returns, because the byte is set or because the
\* guest exits by itself.  Either way a pending platform event (or, in the
\* second case, a halt) makes the step a stopping point.
run_vcpu_once_kicked(s) ==
  /\ pc = "kvm_run" /\ byte[index] # 0
  /\ stop' = s /\ pc' = "take"
  /\ Executed(index)
  /\ UNCHANGED <<run_queue, current, rewound, removed, index, outgoing, kicked,
                 switches, budget, elapsed, runs, byte, chan, wd>>

run_vcpu_once_exits(s) ==
  /\ pc = "kvm_run" /\ byte[index] = 0
  /\ stop' = s /\ pc' = "take"
  /\ Executed(index)
  /\ UNCHANGED <<run_queue, current, rewound, removed, index, outgoing, kicked,
                 switches, budget, elapsed, runs, byte, chan, wd>>

\* An error of KVM_RUN leaves run_timesliced through `?`: nothing is disarmed.
run_vcpu_once_fails ==
  /\ KvmFails /\ pc = "kvm_run"
  /\ pc' = "idle"
  /\ UNCHANGED <<sched, index, outgoing, kicked, stop, switches, budget,
                 elapsed, runs, byte, chan, wd>>

\* Mutant: the byte is cleared whether or not it was read as set.
take_read_always_clears ==
  /\ pc = "take"
  /\ kicked' = (byte[index] # 0) /\ pc' = "clear"
  /\ UNCHANGED <<sched, index, outgoing, stop, switches, budget, elapsed, runs,
                 byte, chan, wd>>

\* take_immediate_exit reads the byte and, when it is set, clears it: two
\* accesses with the watchdog free to store in between.
take_read ==
  /\ pc = "take"
  /\ kicked' = (byte[index] # 0)
  /\ pc' = IF byte[index] # 0 THEN "clear" ELSE "decide"
  /\ UNCHANGED <<sched, index, outgoing, stop, switches, budget, elapsed, runs,
                 byte, chan, wd>>

take_clear ==
  /\ pc = "clear"
  /\ byte' = [byte EXCEPT ![index] = 0]
  /\ pc' = "decide"
  /\ UNCHANGED <<sched, index, outgoing, kicked, stop, switches, budget,
                 elapsed, runs, chan, wd>>

QuantumOver == kicked \/ elapsed

\* Neither kicked nor elapsed: re-enter the same vCPU.
continue_quantum ==
  /\ pc = "decide" /\ ~stop /\ ~QuantumOver
  /\ pc' = "kvm_run"
  /\ UNCHANGED <<sched, index, outgoing, kicked, stop, switches, budget,
                 elapsed, runs, byte, chan, wd>>

\* disarm_quantum_watchdog, first half, on a stop or when the switches are
\* used up.
disarm_send ==
  /\ pc = "decide" /\ (stop \/ (QuantumOver /\ switches >= budget))
  /\ Len(chan) < MaxPending
  /\ chan' = Append(chan, [op |-> "Disarm"])
  /\ pc' = "disarm"
  /\ UNCHANGED <<sched, index, outgoing, kicked, stop, switches, budget,
                 elapsed, runs, byte, wd>>

\* disarm_quantum_watchdog, second half; run_timesliced returns.
disarm_clear ==
  /\ pc = "disarm"
  /\ byte' = [byte EXCEPT ![index] = 0]
  /\ pc' = "idle"
  /\ UNCHANGED <<sched, index, outgoing, kicked, stop, switches, budget,
                 elapsed, runs, chan, wd>>

\* Mutant: the scheduler advances before it stores the outgoing state.
switch_saving_late ==
  LET next  == (current + 1) % Len(run_queue)
      v     == run_queue[next + 1]
      saved == [contexts EXCEPT ![v] = [of |-> index, fresh |-> TRUE]]
  IN  /\ current' = next
      /\ index' = v
      /\ contexts' = [saved EXCEPT ![v] = NoCopy]
      /\ rewound' = IF saved[v] \in {NoCopy, [of |-> v, fresh |-> TRUE]}
                    THEN rewound ELSE rewound \cup {v}
      /\ UNCHANGED <<run_queue, removed>>

\* switch_saving: store the outgoing copy under the scheduler's current vCPU,
\* advance round robin, take the incoming copy out of the store.  Restoring a
\* copy other than v's latest state is recorded in rewound.
switch_saving ==
  LET next  == (current + 1) % Len(run_queue)
      v     == run_queue[next + 1]
      saved == [contexts EXCEPT ![run_queue[current + 1]] =
                                   [of |-> index, fresh |-> TRUE]]
  IN  /\ current' = next
      /\ index' = v
      /\ contexts' = [saved EXCEPT ![v] = NoCopy]
      /\ rewound' = IF saved[v] \in {NoCopy, [of |-> v, fresh |-> TRUE]}
                    THEN rewound ELSE rewound \cup {v}
      /\ UNCHANGED <<run_queue, removed>>

\* Quantum expired: save, switch and restore, then arm for the incoming vCPU.
switch_vcpu ==
  /\ pc = "decide" /\ ~stop /\ QuantumOver /\ switches < budget
  /\ switch_saving
  /\ outgoing' = index /\ switches' = switches + 1
  /\ pc' = "arm"
  /\ UNCHANGED <<kicked, stop, budget, elapsed, runs, byte, chan, wd>>

\* save_vcpu_state fails: `?` returns before the scheduler is touched.
save_fails ==
  /\ KvmFails /\ pc = "decide" /\ ~stop /\ QuantumOver /\ switches < budget
  /\ pc' = "idle"
  /\ UNCHANGED <<sched, index, outgoing, kicked, stop, switches, budget,
                 elapsed, runs, byte, chan, wd>>

\* restore_vcpu_state fails: `?` returns with the scheduler advanced and the
\* incoming copy taken out of the store.
restore_fails ==
  /\ KvmFails /\ pc = "decide" /\ ~stop /\ QuantumOver /\ switches < budget
  /\ switch_saving
  /\ pc' = "idle"
  /\ UNCHANGED <<outgoing, kicked, stop, switches, budget, elapsed, runs, byte,
                 chan, wd>>

\* Drop of the run loop: the watchdog field is dropped first, which sends
\* Shutdown and joins the thread; then the backend unmaps the kvm_run pages.
drop_watchdog ==
  /\ pc = "idle" /\ wpc # "unspawned" /\ Len(chan) < MaxPending
  /\ chan' = Append(chan, [op |-> "Shutdown"])
  /\ pc' = "join"
  /\ UNCHANGED <<sched, index, outgoing, kicked, stop, switches, budget,
                 elapsed, runs, byte, wd>>

\* Mutant: backend declared, and so dropped, before the watchdog.
drop_backend_no_join ==
  /\ pc = "join"
  /\ pc' = "unmapped"
  /\ UNCHANGED <<sched, index, outgoing, kicked, stop, switches, budget,
                 elapsed, runs, byte, chan, wd>>

drop_backend ==
  /\ pc = "join" /\ wpc = "exited"
  /\ pc' = "unmapped"
  /\ UNCHANGED <<sched, index, outgoing, kicked, stop, switches, budget,
                 elapsed, runs, byte, chan, wd>>

-----------------------------------------------------------------------------
(* The clocks.  Quanta all have the same length, so TSC deadlines pass in    *)
(* the order they were computed.  The wall clock that quantum_start reads    *)
(* is another clock, and the two agree only approximately.                   *)

NotDue(c) == c.op = "Arm" /\ ~c.due

FirstNotDue(q) ==
  {i \in 1..Len(q) : NotDue(q[i]) /\ \A j \in 1..Len(q) : NotDue(q[j]) => i <= j}

tsc_reaches_deadline ==
  /\ IF armed.vcpu # NoVcpu /\ ~armed.due
     THEN armed' = [armed EXCEPT !.due = TRUE] /\ UNCHANGED chan
     ELSE /\ \E i \in FirstNotDue(chan) :
               chan' = [chan EXCEPT ![i] = [@ EXCEPT !.due = TRUE]]
          /\ UNCHANGED armed
  /\ UNCHANGED <<sched, loop, byte, wpc>>

wall_clock_reaches_quantum ==
  /\ InRun /\ ~elapsed
  /\ elapsed' = TRUE
  /\ UNCHANGED <<sched, pc, index, outgoing, kicked, stop, switches, budget,
                 runs, byte, chan, wd>>

-----------------------------------------------------------------------------
(* watchdog_main *)

install_arm(c) ==
  /\ byte' = IF c.prev = NoVcpu THEN byte ELSE [byte EXCEPT ![c.prev] = 0]
  /\ armed' = [vcpu |-> c.vcpu, due |-> c.due, run |-> c.run]
  /\ wpc' = "check"

\* Mutant: during the wait, Shutdown only ends the wait.
wd_receive_armed_ignores_shutdown ==
  /\ \/ wpc = "check" /\ armed.vcpu = NoVcpu
     \/ wpc = "wait"
  /\ chan # <<>> /\ chan' = Tail(chan)
  /\ LET c == Head(chan)
     IN \/ c.op = "Arm" /\ install_arm(c)
        \/ /\ c.op = "Disarm"
           /\ byte' = IF armed.vcpu = NoVcpu THEN byte
                      ELSE [byte EXCEPT ![armed.vcpu] = 0]
           /\ armed' = Disarmed /\ wpc' = "check"
        \/ /\ c.op = "Shutdown" /\ UNCHANGED <<byte, armed>>
           /\ wpc' = IF wpc = "wait" THEN "check" ELSE "exited"
  /\ UNCHANGED <<sched, loop>>

\* One command, received with nothing armed (recv) or during the wait
\* (recv_timeout).  Only an armed watchdog clears a byte on Disarm.
wd_receive ==
  /\ \/ wpc = "check" /\ armed.vcpu = NoVcpu
     \/ wpc = "wait"
  /\ chan # <<>> /\ chan' = Tail(chan)
  /\ LET c == Head(chan)
     IN \/ c.op = "Arm" /\ install_arm(c)
        \/ /\ c.op = "Disarm"
           /\ byte' = IF armed.vcpu = NoVcpu THEN byte
                      ELSE [byte EXCEPT ![armed.vcpu] = 0]
           /\ armed' = Disarmed /\ wpc' = "check"
        \/ c.op = "Shutdown" /\ wpc' = "exited" /\ UNCHANGED <<byte, armed>>
  /\ UNCHANGED <<sched, loop>>

\* Mutant: the deadline that fired stays armed without its kicker.
wd_fire_stays_due ==
  /\ wpc = "check" /\ armed.due
  /\ byte' = [byte EXCEPT ![armed.vcpu] = armed.run]
  /\ armed' = [armed EXCEPT !.vcpu = NoVcpu]
  /\ UNCHANGED <<sched, loop, chan, wpc>>

\* rdtsc says the deadline has passed: kick.
wd_fire ==
  /\ wpc = "check" /\ armed.due
  /\ byte' = [byte EXCEPT ![armed.vcpu] = armed.run]
  /\ armed' = Disarmed
  /\ UNCHANGED <<sched, loop, chan, wpc>>

\* Not yet: park in recv_timeout.
wd_park ==
  /\ wpc = "check" /\ armed.vcpu # NoVcpu /\ ~armed.due
  /\ wpc' = "wait"
  /\ UNCHANGED <<sched, loop, byte, chan, armed>>

\* The timeout of recv_timeout: look at the TSC again.
wd_timeout ==
  /\ wpc = "wait" /\ armed.due
  /\ wpc' = "check"
  /\ UNCHANGED <<sched, loop, byte, chan, armed>>

-----------------------------------------------------------------------------

Owner ==
  \/ \E v \in VCpus : add_vcpu(v) \/ remove_vcpu(v)
  \/ \E b \in 0..MaxSwitches : start_run(b)
  \/ enable_timeslice \/ drop_watchdog

Errors == run_vcpu_once_fails \/ save_fails \/ restore_fails

\* What the run loop's thread does on its own account once it is in a run.
LoopStep ==
  \/ arm_clear \/ arm_send \/ take_read \/ take_clear
  \/ \E s \in BOOLEAN : run_vcpu_once_kicked(s)
  \/ continue_quantum \/ disarm_send \/ disarm_clear \/ switch_vcpu
  \/ drop_backend

GuestExits == \E s \in BOOLEAN : run_vcpu_once_exits(s)

Watchdog == wd_receive \/ wd_fire \/ wd_park \/ wd_timeout

Clocks == tsc_reaches_deadline \/ wall_clock_reaches_quantum

Next == Owner \/ Errors \/ LoopStep \/ GuestExits \/ Watchdog \/ Clocks

Spec == Init /\ [][Next]_vars

\* Both threads are scheduled and both clocks advance; nothing makes a guest
\* leave KVM_RUN by itself.
Fairness ==
  /\ WF_vars(LoopStep)
  /\ WF_vars(Watchdog)
  /\ WF_vars(tsc_reaches_deadline)
  /\ WF_vars(wall_clock_reaches_quantum)

FairSpec == Spec /\ Fairness

-----------------------------------------------------------------------------
(* Properties *)

\* Types of the scheduler's, the run loop's and the watchdog's state; current
\* is always the position of an entry (0 in an empty queue).
SchedTypeOK ==
  /\ run_queue \in Seq(VCpus)
  /\ current \in Nat
  /\ IF run_queue = <<>> THEN current = 0 ELSE current < Len(run_queue)
  /\ contexts \in [VCpus -> Copies] /\ rewound \cup removed \subseteq VCpus

LoopTypeOK ==
  /\ pc \in {"idle", "arm", "send", "kvm_run", "take", "clear", "decide",
             "disarm", "join", "unmapped"}
  /\ index \in VCpus \cup {NoVcpu} /\ outgoing \in VCpus \cup {NoVcpu}
  /\ (InRun => index \in VCpus /\ run_queue # <<>> /\ runs # 0)
  /\ kicked \in BOOLEAN /\ stop \in BOOLEAN /\ elapsed \in BOOLEAN
  /\ switches \in Nat /\ budget \in Nat /\ runs \in Nat

WatchdogTypeOK ==
  /\ byte \in [VCpus -> Nat]
  /\ chan \in Seq(Commands)
  /\ armed \in [vcpu : VCpus \cup {NoVcpu}, due : BOOLEAN, run : Nat]
  /\ (armed.vcpu = NoVcpu => ~armed.due)
  /\ wpc \in {"unspawned", "check", "wait", "exited"}

TypeOK == SchedTypeOK /\ LoopTypeOK /\ WatchdogTypeOK

\* During a run, a kick byte this run's watchdog arms have set is set on the
\* vCPU that is running, or a pending command of this run will clear it: "a
\* late fire for the old quantum can never strand a set byte on a vCPU that
\* is no longer running" (the Arm command of preempt_watchdog.rs).
WillBeCleared(v) ==
  \/ \E i \in 1..Len(chan) : chan[i].op = "Arm" /\ chan[i].prev = v
  \/ pc \in {"arm", "send"} /\ outgoing = v

NoStrandedKick ==
  InRun => \A v \in VCpus : byte[v] = runs => v = index \/ WillBeCleared(v)

\* A vCPU switched in is resumed from its own, latest saved state, or has none
\* to restore: no guest is ever rewound or given another vCPU's registers.  The
\* exception is a vCPU once removed, whose old copy remove_vcpu leaves in the
\* store (VcpuSwitch::restore, switch_saving, restore_vcpu_state).
RestoresLatest == rewound \subseteq removed

\* The watchdog never stores into a kvm_run page the backend has unmapped (the
\* declaration order of preempt_watchdog and backend in StealthRunLoop).
NoKickAfterUnmap == [][pc = "unmapped" => UNCHANGED byte]_vars

\* run_timesliced returns although no guest ever exits by itself: every quantum
\* ends by a kick or by the wall clock, and max_switches bounds the quanta.
RunTerminates == InRun ~> ~InRun

\* Dropping the run loop returns: the watchdog thread sees Shutdown whatever it
\* is doing, and join does not hang.
DropCompletes == (pc = "join") ~> (pc = "unmapped")

\* After a run that returned Ok, once the watchdog has nothing left to do, no
\* kick is pending: disarm_quantum_watchdog clears the byte "so a later run
\* starts with no pending kick".
NoKickLeftBehind ==
  pc = "idle" /\ chan = <<>> /\ armed = Disarmed
    => \A v \in VCpus : byte[v] = 0
=============================================================================
