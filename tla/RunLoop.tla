------------------------------- MODULE RunLoop -------------------------------
(* The boot processor's run loop of enlil-core (run_loop.rs), with the         *)
(* runtime around it (orchestrator.rs): the virtual machine is started, entered *)
(* once per iteration, and after every exit the loop drives the platform clocks, *)
(* reconciles the TSC-deadline timer with the copy KVM keeps of it, ticks the   *)
(* real-time clock and polls the platform for a sleep or a reset request.  The *)
(* runtime resumes a guest that suspended to RAM, and writes the firmware's     *)
(* variable store back when the run ends.                                       *)
EXTENDS Integers, FiniteSets

CONSTANTS
    FastPath,      \* KVM consumes the guest's deadline writes without an exit
    Uefi,          \* the guest was started through its firmware (run_uefi)
    MaxTsc,        \* the guest TSC is followed up to here
    MaxEntries,    \* max_entries of one run
    MaxResumes,    \* max_resumes of run_resuming_s3
    MaxBoots,      \* runs of the whole program
    Jumps          \* seconds of wall time between two iterations

VARIABLE r

SLP_TYP_S3 == 3
SLP_TYP_S4 == 4
SLP_TYP_S5 == 5

RTC_MAX_CATCHUP_SECONDS == 2

\* The wall clock is followed up to this second.
MaxWall == 4

(* The state of a program that runs one guest.  `want` is the guest's latest    *)
(* deadline that has neither fired nor been taken back, `written` the values it *)
(* has used, `fired` how often each one raised the interrupt; `asked` is the    *)
(* request the guest's last instruction made of the platform.                   *)
Stopped(boots, file) ==
    [phase |-> "off", outcome |-> "none", entries |-> 0, resumes |-> 0,
     mode |-> "real", at |-> "none", facs |-> "none",
     tsc |-> 0, kvm |-> 0, adopted |-> 0, reached |-> FALSE,
     lvt |-> "other", deadline |-> 0, want |-> 0, written |-> {}, fired |-> {},
     sleep |-> 0, reset_a |-> FALSE, reset_pci |-> FALSE, asked |-> "none",
     last |-> -1, wall |-> 0, ticks |-> 0, since |-> 0,
     flash |-> 0, file |-> file, boots |-> boots]

\* The variable store's file: a version of its contents, or one of these.
Absent == -1
Torn == -2

Init == r = Stopped(0, Absent)

----------------------------------------------------------------------------
(* The timer                                                                    *)

\* LocalApic::write_tsc_deadline_msr: ignored outside TSC-deadline mode.
write_tsc_deadline_msr(s, t) ==
    IF s.lvt = "deadline" THEN [s EXCEPT !.deadline = t] ELSE s

tsc_deadline_sync_action(kvm, adopted) ==
    CASE kvm # 0 /\ kvm # adopted -> "Adopt"
      [] kvm = 0 /\ adopted # 0   -> "MirrorDisarm"
      [] OTHER                    -> "None"

sync_tsc_deadline_from_kvm(s) ==
    LET action == tsc_deadline_sync_action(s.kvm, s.adopted)
    IN  CASE action = "Adopt" ->
               [write_tsc_deadline_msr(s, s.kvm) EXCEPT !.adopted = s.kvm]
          [] action = "MirrorDisarm" ->
               [write_tsc_deadline_msr(s, 0) EXCEPT !.adopted = 0]
          [] OTHER -> s

\* The LAPIC fires a deadline the guest TSC has reached, and disarms it.
check_lapic_tsc_deadlines(s) ==
    IF s.deadline # 0 /\ s.tsc >= s.deadline
    THEN [s EXCEPT !.deadline = 0, !.fired = @ \cup {s.deadline},
                   !.want = IF @ = s.deadline THEN 0 ELSE @]
    ELSE s

fire_leaves_kvm(s) ==
    LET synced == IF ~s.reached THEN sync_tsc_deadline_from_kvm(s) ELSE s
        checked == check_lapic_tsc_deadlines(synced)
    IN  [checked EXCEPT !.adopted = IF checked.deadline = 0 THEN 0 ELSE @]

fire_due_tsc_deadlines(s) ==
    LET synced == IF ~s.reached THEN sync_tsc_deadline_from_kvm(s) ELSE s
        checked == check_lapic_tsc_deadlines(synced)
    IN  IF synced.deadline # 0 /\ checked.deadline = 0 /\ synced.adopted # 0
        THEN [checked EXCEPT !.kvm = 0, !.adopted = 0]
        ELSE checked

\* The first call records the baseline; later ones tick once per elapsed second.
advance_rtc_from_wall_clock(s) ==
    LET elapsed == IF s.last = -1 \/ s.wall < s.last THEN 0 ELSE s.wall - s.last
        capped  == IF elapsed > RTC_MAX_CATCHUP_SECONDS
                   THEN RTC_MAX_CATCHUP_SECONDS ELSE elapsed
    IN  [s EXCEPT !.ticks = @ + capped, !.last = s.wall,
                  !.since = IF s.last = -1 THEN s.wall ELSE @]

----------------------------------------------------------------------------
(* One iteration                                                                *)

\* What the exit handler of each kind of exit does to the platform.
dispatch(s, exit) ==
    CASE exit = "sleep3" -> [s EXCEPT !.sleep = SLP_TYP_S3]
      [] exit = "sleep4" -> [s EXCEPT !.sleep = SLP_TYP_S4]
      [] exit = "sleep5" -> [s EXCEPT !.sleep = SLP_TYP_S5]
      [] exit = "port92" -> [s EXCEPT !.reset_a = TRUE]
      [] exit = "portcf9" -> [s EXCEPT !.reset_pci = TRUE]
      [] exit = "lvt_deadline" -> [s EXCEPT !.lvt = "deadline"]
      [] exit = "lvt_other" -> [s EXCEPT !.lvt = "other", !.deadline = 0, !.want = 0]
      [] OTHER -> s

\* A deadline write that exits: it proves the fast path is off for this machine.
wrmsr_deadline(s, t) ==
    [write_tsc_deadline_msr(s, t) EXCEPT !.reached = TRUE,
                                         !.want = IF s.lvt = "deadline" THEN t ELSE @,
                                         !.written = @ \cup {t}]

poll_platform_events(s) ==
    IF s.sleep # 0 THEN [event |-> "sleep", typ |-> s.sleep, rest |-> [s EXCEPT !.sleep = 0]]
    ELSE IF s.reset_a \/ s.reset_pci
    THEN [event |-> "reset", typ |-> 0,
          rest |-> [s EXCEPT !.reset_a = FALSE, !.reset_pci = FALSE]]
    ELSE [event |-> "none", typ |-> 0, rest |-> s]

\* The segments and the instruction pointer are set; CR0 and EFER are kept.
prepare_real_mode_vcpu(s, entry) == [s EXCEPT !.at = entry]
prepare_reset_vector_vcpu(s) == [s EXCEPT !.at = "vector"]
prepare_long_mode_vcpu(s, entry) == [s EXCEPT !.at = entry, !.mode = "long"]

stop(s, outcome) == [s EXCEPT !.phase = "ended", !.outcome = outcome]

\* The part of run_with_reset that follows the clocks.
handle(s, exit, event, typ) ==
    CASE event = "sleep" ->
           stop(s, IF typ \in {SLP_TYP_S3, SLP_TYP_S4}
                   THEN IF typ = SLP_TYP_S3 THEN "suspend3" ELSE "suspend4"
                   ELSE "shutdown")
      [] event = "reset" ->
           LET again == IF Uefi THEN prepare_reset_vector_vcpu(s)
                        ELSE prepare_real_mode_vcpu(s, "entry")
           IN  IF s.entries = MaxEntries THEN stop(again, "exhausted") ELSE again
      [] event = "none" /\ exit = "hlt" -> stop(s, "halted")
      [] OTHER -> IF s.entries = MaxEntries THEN stop(s, "exhausted") ELSE s

\* One iteration of run_with_reset, from the exit to the next entry.
iterate(s, exit) ==
    LET entered == [s EXCEPT !.entries = @ + 1, !.asked = exit]
        polled == poll_platform_events(entered)
        clocks == advance_rtc_from_wall_clock(fire_due_tsc_deadlines(polled.rest))
    IN  handle(clocks, exit, polled.event, polled.typ)

----------------------------------------------------------------------------
(* The guest                                                                    *)

Running == r.phase = "guest"

\* The guest TSC advances while the guest runs, and the wall clock with it.
Pass ==
    /\ Running
    /\ \/ /\ r.tsc < MaxTsc
          /\ r' = [r EXCEPT !.tsc = @ + 1]
       \/ \E j \in Jumps :
              /\ r.wall + j <= MaxWall
              /\ r.wall = r.last \/ r.last = -1
              /\ r' = [r EXCEPT !.wall = @ + j]

\* A deadline write that KVM's fast path consumes: only its own copy changes.
FastWrite ==
    /\ Running /\ FastPath /\ r.lvt = "deadline"
    /\ \E t \in (1 .. MaxTsc \ r.written) \cup {0} :
           r' = [r EXCEPT !.kvm = t, !.want = t, !.written = @ \cup ({t} \ {0})]

\* The guest's own work between two exits: it enters another mode, names the
\* vector to wake at, or writes a firmware variable.
Work ==
    /\ Running
    /\ \/ \E m \in {"protected", "long"} : m # r.mode /\ r' = [r EXCEPT !.mode = m, !.at = "running"]
       \/ \E f \in {"real", "extended"} : f # r.facs /\ ~Uefi /\ r' = [r EXCEPT !.facs = f]
       \/ Uefi /\ r.flash < 2 /\ r' = [r EXCEPT !.flash = @ + 1]

Exit ==
    /\ Running
    /\ \/ \E exit \in {"io", "hlt", "sleep3", "sleep4", "sleep5", "port92", "portcf9",
                       "lvt_deadline", "lvt_other"} :
              r' = iterate(dispatch(r, exit), exit)
       \/ /\ ~FastPath
          /\ \E t \in (1 .. MaxTsc \ r.written) \cup {0} :
                 r' = iterate([wrmsr_deadline(r, t) EXCEPT !.written = @ \ {0}], "wrmsr")

----------------------------------------------------------------------------
(* The runtime                                                                  *)

load_template(s) == 0

\* A variable store that is present is used as it is; a torn one is refused.
\* The template, version 0, is copied only where there is no store yet.
load_for_guest(s) == IF s.file = Absent THEN 0 ELSE s.file

\* The machine is built, and the boot processor prepared at its first entry.
Boot ==
    /\ r.phase = "off" /\ r.boots < MaxBoots
    /\ IF Uefi
       THEN LET file == load_for_guest(r)
            IN  /\ file # Torn
                /\ r' = prepare_reset_vector_vcpu(
                            [Stopped(r.boots + 1, file) EXCEPT !.phase = "guest",
                                                               !.flash = file])
       ELSE r' = prepare_real_mode_vcpu(
                     [Stopped(r.boots + 1, r.file) EXCEPT !.phase = "guest"], "entry")

\* resume_from_s3: the vector the guest left in the FACS selects the mode.
resume_from_s3(s) ==
    IF s.facs = "real" THEN prepare_real_mode_vcpu(s, "wake")
    ELSE prepare_long_mode_vcpu(s, "xwake")

\* run_resuming_s3: another run for every suspension to RAM, up to the bound.
Resume ==
    /\ r.phase = "ended" /\ ~Uefi /\ r.outcome = "suspend3"
    /\ r.resumes < MaxResumes
    /\ IF r.facs = "none"
       THEN r' = stop(r, "error")
       ELSE r' = resume_from_s3([r EXCEPT !.resumes = @ + 1, !.phase = "guest",
                                          !.outcome = "none", !.entries = 0])

\* The run is over.  A firmware guest's variables are written to their file.
persist_firmware_vars(s) == Stopped(s.boots, IF Uefi THEN s.flash ELSE s.file)

Finish ==
    /\ r.phase = "ended"
    /\ Uefi \/ r.outcome # "suspend3" \/ r.resumes >= MaxResumes
    /\ r' = persist_firmware_vars(r)

\* KVM_RUN or an exit handler fails: the error is returned and nothing is saved.
Fail == Running /\ r' = Stopped(r.boots, r.file)

\* The program dies while fs::write is replacing the file's contents.
CrashInPersist ==
    /\ Uefi /\ r.phase = "ended"
    /\ r' = Stopped(r.boots, Torn)

Next ==
    \/ Pass \/ FastWrite \/ Work \/ Exit
    \/ Boot \/ Resume \/ Finish \/ Fail \/ CrashInPersist

Spec == Init /\ [][Next]_r

----------------------------------------------------------------------------
(* Properties                                                                   *)

TypeOK ==
    /\ r.phase \in {"off", "guest", "ended"}
    /\ r.tsc \in 0 .. MaxTsc /\ r.kvm \in 0 .. MaxTsc /\ r.adopted \in 0 .. MaxTsc
    /\ r.deadline \in 0 .. MaxTsc /\ r.want \in 0 .. MaxTsc
    /\ r.entries \in 0 .. MaxEntries /\ r.resumes \in 0 .. MaxResumes
    /\ r.boots \in 0 .. MaxBoots

\* The emulated timer holds the guest's latest deadline, however the write reached
\* it: an armed deadline that the guest's TSC has reached has fired by the time the
\* guest is entered again, and KVM's copy never brings a fired one back.  Between
\* exits the fast path may have put a newer deadline in KVM's copy.
DeadlineKept ==
    Running =>
        /\ r.deadline # 0 => r.deadline \notin r.fired
        /\ ~FastPath => r.deadline = r.want
        /\ FastPath /\ r.kvm = r.adopted => r.deadline = r.want
        /\ r.want \notin r.fired \/ r.want = 0

\* No request of the guest is stranded: every sleep and reset latch is empty when
\* the guest is entered, and a run ends only with what the guest asked for last.
RequestsTaken ==
    /\ Running => r.sleep = 0 /\ ~r.reset_a /\ ~r.reset_pci
    /\ r.phase = "ended" =>
           \/ r.outcome = "exhausted" /\ r.entries = MaxEntries
           \/ r.outcome = "error" /\ r.facs = "none"
           \/ <<r.outcome, r.asked>> \in
                  {<<"suspend3", "sleep3">>, <<"suspend4", "sleep4">>,
                   <<"shutdown", "sleep5">>, <<"halted", "hlt">>}
    /\ Running /\ r.asked \in {"port92", "portcf9"} =>
           r.at \in {"running", "wake", "xwake", IF Uefi THEN "vector" ELSE "entry"}

\* The real-time clock has ticked every second of the wall clock up to the last
\* iteration, as long as no gap exceeds the catch-up bound.
RtcKeepsPace ==
    r.phase # "off" /\ r.last # -1 => r.ticks = r.last - r.since

\* A reset restarts the boot processor in real mode (kvm_backend.rs).
ResetsToRealMode == Running /\ r.at \in {"vector", "entry", "wake"} => r.mode = "real"

\* What the guest wrote to its variables in a run that ended is what its next
\* boot loads (action).
VarsSurvive ==
    /\ r.phase = "ended" /\ r'.phase = "off" /\ Uefi => r'.file \in {r.flash, Torn}
    /\ r.phase = "off" /\ r'.phase = "guest" /\ Uefi =>
           r'.flash = IF r.file = Absent THEN 0 ELSE r.file
=============================================================================
