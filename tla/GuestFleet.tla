----------------------------- MODULE GuestFleet -----------------------------
(***************************************************************************)
(* The bookkeeping the hypervisor keeps about its guests (enlil-core):      *)
(*                                                                         *)
(*   fleet    the hypervisor's list of guests, the memory and the console   *)
(*            each one is given, and the state of each virtual CPU          *)
(*            (vm.rs, vcpu.rs);                                             *)
(*   plan     which physical core each virtual CPU is bound to (vcpu.rs);   *)
(*   thread   a virtual CPU's thread pinning itself while its launcher      *)
(*            waits for the result (affinity.rs);                           *)
(*   out      where the bytes a guest writes to its console go (serial.rs); *)
(*   met      the usage counters of a guest and the task that samples them  *)
(*            (metrics.rs);                                                 *)
(*   host     the sampler of the host's own disks (metrics.rs).             *)
(***************************************************************************)
EXTENDS Integers, SequencesExt, FiniteSetsExt

CONSTANTS
    Configs,    \* guest configurations: [name, size, cpus]
    HOST_MEM,   \* host memory, in large pages, above the reserved part
    MaxVmOps,   \* vCPU operations in a behaviour
    Plans,      \* [policy, requested, available] the plan is computed for
    CPU_SET,    \* cores a CPU set can name (1024 in the code)
    Online,     \* cores the host has
    Cores,      \* cores a thread may be asked to run on
    Modes,      \* serial output modes
    MaxBytes,   \* bytes and flushes a console sees
    Samplers,   \* tasks that sample a guest's counters
    MaxWork,    \* cap of a usage counter
    Disks,      \* block devices the host may have
    MaxMoves    \* disk events in a behaviour

VARIABLES fleet, thread, out, met, host, plan

-----------------------------------------------------------------------------
(* Guests, their memory, their consoles, their virtual CPUs                 *)

SizeOf(regions, b) == regions[b].size

(* MemoryManager::check_overlap *)
Overlaps(regions, base, size) ==
    \E b \in DOMAIN regions : base < b + SizeOf(regions, b) /\ base + size > b

Hypervisor ==
    [vms |-> <<>>, regions |-> [b \in {} |-> 0], next |-> 0,
     serial |-> {}, stopped |-> {}, ops |-> 0]

(* MemoryManager::allocate, of a manager nothing is ever given back to:      *)
(* a bump of next_base. A region is filed under its base.                    *)
CanAllocate(f, c) ==
    /\ \A b \in DOMAIN f.regions : f.regions[b].name # c.name
    /\ f.next + c.size <= HOST_MEM
    /\ ~Overlaps(f.regions, f.next, c.size)

WithRegion(f, c) ==
    [f EXCEPT !.next = @ + c.size,
              !.regions = [b \in DOMAIN @ \cup {f.next} |->
                             IF b = f.next THEN [name |-> c.name, size |-> c.size]
                                           ELSE @[b]]]

(* SerialMultiplexer::add_guest: a second one under a name replaces the first *)
add_guest(f, name) == [f EXCEPT !.serial = @ \cup {name}]

VcpuManager(c) == [i \in DOMAIN c.cpus |-> "Created"]

(* Vm::new looks at the configuration only after its memory was allocated   *)
(* and its console registered                                               *)
VmAccepts(c) == c.cpus # <<>> /\ c.size > 0

NewVm(f, c) ==
    IF VmAccepts(c)
    THEN [f EXCEPT !.vms = Append(@, [name |-> c.name, size |-> c.size,
                                      base |-> f.next - c.size,
                                      vcpus |-> VcpuManager(c)])]
    ELSE f

add_vm ==
    \E c \in Configs :
        /\ CanAllocate(fleet, c)
        /\ fleet' = NewVm(add_guest(WithRegion(fleet, c), c.name), c)

SetVcpu(v, i, s) ==
    [fleet EXCEPT !.vms[v].vcpus[i] = s, !.ops = @ + 1,
                  !.stopped = IF s = "Stopped" THEN @ \cup {<<v, i>>} ELSE @]

Vcpus == {<<v, i>> \in (DOMAIN fleet.vms) \X (1..3) : i \in DOMAIN fleet.vms[v].vcpus}

start_vcpu ==
    \E p \in Vcpus :
        /\ fleet.ops < MaxVmOps
        /\ fleet.vms[p[1]].vcpus[p[2]] \in {"Created", "Paused"}
        /\ fleet' = SetVcpu(p[1], p[2], "Running")

pause_vcpu ==
    \E p \in Vcpus :
        /\ fleet.ops < MaxVmOps
        /\ fleet.vms[p[1]].vcpus[p[2]] = "Running"
        /\ fleet' = SetVcpu(p[1], p[2], "Paused")

stop_vcpu ==
    \E p \in Vcpus :
        /\ fleet.ops < MaxVmOps
        /\ fleet' = SetVcpu(p[1], p[2], "Stopped")

start_all ==
    \E v \in DOMAIN fleet.vms :
        /\ fleet.ops < MaxVmOps
        /\ fleet' = [fleet EXCEPT
             !.ops = @ + 1,
             !.vms[v].vcpus = [i \in DOMAIN @ |->
                IF @[i] \in {"Created", "Paused"} THEN "Running" ELSE @[i]]]

stop_all ==
    \E v \in DOMAIN fleet.vms :
        /\ fleet.ops < MaxVmOps
        /\ fleet' = [fleet EXCEPT
             !.ops = @ + 1,
             !.vms[v].vcpus = [i \in DOMAIN @ |-> "Stopped"],
             !.stopped = @ \cup {<<v, i>> : i \in DOMAIN fleet.vms[v].vcpus}]

FleetInit == fleet = Hypervisor
FleetNext == add_vm \/ start_vcpu \/ pause_vcpu \/ stop_vcpu \/ start_all \/ stop_all

(* However guests are added, the ones the hypervisor lists have different    *)
(* names, each has a console, and its memory is a region of its own: a       *)
(* configuration refused after its memory was taken (vm.rs:85) leaves its    *)
(* region behind but never takes one from a guest, not even an empty region  *)
(* that is filed under the base of the next guest. A stopped virtual CPU     *)
(* never runs again, whatever is started or paused afterwards                *)
(* (vcpu.rs:285-346).                                                        *)
FleetExact ==
    /\ \A v \in DOMAIN fleet.vms :
         LET vm == fleet.vms[v]
         IN /\ vm.name \in fleet.serial
            /\ vm.base \in DOMAIN fleet.regions
            /\ fleet.regions[vm.base] = [name |-> vm.name, size |-> vm.size]
    /\ \A v, w \in DOMAIN fleet.vms :
         v # w => /\ fleet.vms[v].name # fleet.vms[w].name
                  /\ \/ fleet.vms[v].base + fleet.vms[v].size <= fleet.vms[w].base
                     \/ fleet.vms[w].base + fleet.vms[w].size <= fleet.vms[v].base
    /\ \A b \in DOMAIN fleet.regions : b + SizeOf(fleet.regions, b) <= HOST_MEM
    /\ \A p \in fleet.stopped : fleet.vms[p[1]].vcpus[p[2]] = "Stopped"

-----------------------------------------------------------------------------
(* The scheduling plan                                                      *)

Pinned(core) == [kind |-> "Pinned", core |-> core]
Shared(core) == [kind |-> "Shared", core |-> core]

(* the i-th virtual CPU (from 0) takes the available cores in turn *)
RoundRobin(available, i) == available[(i % Len(available)) + 1]

dedicated(requested) ==
    [policy |-> "Dedicated", bindings |-> [i \in DOMAIN requested |-> Pinned(requested[i])]]

(* indexing an empty list of cores panics *)
time_slice(requested, available) ==
    IF available = <<>> /\ requested # <<>>
    THEN [policy |-> "panic", bindings |-> <<>>]
    ELSE [policy |-> "TimeSlice",
          bindings |-> [i \in DOMAIN requested |-> Shared(RoundRobin(available, i - 1))]]

auto(requested, available) ==
    IF \A i \in DOMAIN requested : requested[i] \in ToSet(available)
    THEN dedicated(requested)
    ELSE [policy |-> "TimeSlice",
          bindings |-> [i \in DOMAIN requested |->
                          Shared(IF available = <<>> THEN 0
                                 ELSE RoundRobin(available, i - 1))]]

resolve_scheduling(policy, requested, available) ==
    CASE policy = "Dedicated" -> dedicated(requested)
      [] policy = "TimeSlice" -> time_slice(requested, available)
      [] policy = "Auto" -> auto(requested, available)

PlanInit == plan = [asked |-> CHOOSE p \in Plans : TRUE, made |-> [policy |-> "None"]]
PlanNext ==
    \E p \in Plans :
        /\ plan.asked # p \/ plan.made.policy = "None"
        /\ plan' = [asked |-> p,
                    made |-> resolve_scheduling(p.policy, p.requested, p.available)]

Load(bindings, core) == Cardinality({i \in DOMAIN bindings : bindings[i].core = core})

(* Every virtual CPU is bound exactly once. A shared plan puts no virtual    *)
(* CPU on a core that is not available and spreads them so that no core      *)
(* carries two more than another (vcpu.rs:379, 418); an Auto plan is         *)
(* dedicated only when every core it asks for is available (vcpu.rs:393-396).*)
PlanExact ==
    LET a == plan.asked m == plan.made
    IN m.policy \notin {"None", "panic"} =>
        /\ DOMAIN m.bindings = DOMAIN a.requested
        /\ \A i \in DOMAIN m.bindings :
             m.bindings[i].kind = IF m.policy = "Dedicated" THEN "Pinned" ELSE "Shared"
        /\ m.policy = "Dedicated" =>
             \A i \in DOMAIN m.bindings : m.bindings[i].core = a.requested[i]
        /\ (a.policy = "Auto" /\ m.policy = "Dedicated") =>
             \A i \in DOMAIN m.bindings : m.bindings[i].core \in ToSet(a.available)
        /\ (m.policy = "TimeSlice" /\ a.available # <<>>) =>
             /\ \A i \in DOMAIN m.bindings : m.bindings[i].core \in ToSet(a.available)
             /\ \A c, d \in ToSet(a.available) : Load(m.bindings, c) <= Load(m.bindings, d) + 1

-----------------------------------------------------------------------------
(* A virtual CPU's thread                                                   *)

None == [kind |-> "None", mask |-> {}]
Failed == [kind |-> "Failed", mask |-> {}]

(* pin_linux: a core the set has no bit for is left out of the call, which   *)
(* the kernel refuses when no online core is left                            *)
pin_linux(mask) ==
    IF {c \in mask : c < CPU_SET} \cap Online = {} THEN Failed
    ELSE [kind |-> "Pinned", mask |-> mask]

pin_current_thread_to_mask(mask) == IF mask = {} THEN Failed ELSE pin_linux(mask)

(* what sched_getaffinity reads back of the affinity set *)
get_affinity(affinity) == [kind |-> "Pinned", mask |-> {c \in affinity : c < CPU_SET}]

ThreadInit ==
    \E c \in Cores :
        thread = [core |-> c, pc |-> "spawned", sent |-> None, affinity |-> Online,
                  launcher |-> "waiting", pin_result |-> None]

Pin ==
    /\ thread.pc = "spawned"
    /\ LET r == pin_current_thread_to_mask({thread.core})
       IN thread' = [thread EXCEPT
            !.pc = "pinned", !.sent = r,
            !.affinity = IF r.kind = "Pinned" THEN r.mask \cap Online ELSE @]

SendAndRun ==
    /\ thread.pc = "pinned"
    /\ thread' = [thread EXCEPT !.pc = "running"]

Launched ==
    /\ thread.launcher = "waiting"
    /\ thread.pc # "spawned"
    /\ thread' = [thread EXCEPT !.launcher = "launched", !.pin_result = thread.sent]

Exits ==
    /\ thread.pc = "running"
    /\ thread' = [thread EXCEPT !.pc = "done"]

ThreadNext == Pin \/ SendAndRun \/ Launched \/ Exits

(* Guest code runs on a thread only after the attempt to pin it, and the     *)
(* launcher hears the outcome of that attempt: told "Pinned", the thread's   *)
(* affinity is exactly the core asked for, told "Failed", it is what it was  *)
(* and the guest runs all the same (affinity.rs:266-288).                    *)
PinnedFirst ==
    /\ thread.pc \in {"running", "done"} => thread.sent # None
    /\ thread.pin_result.kind = "Pinned" =>
         get_affinity(thread.affinity).mask = {thread.core}
    /\ thread.pin_result.kind = "Failed" => thread.affinity = Online
    /\ thread.launcher = "launched" => thread.pin_result # None

-----------------------------------------------------------------------------
(* A console's output                                                       *)

SerialOutput(mode) ==
    [mode |-> mode, line |-> <<>>, file |-> FALSE, sink |-> <<>>,
     sent |-> <<>>, lines |-> 0, lost |-> {}]

(* a line leaves the line buffer: written, or lost with the file unopened *)
Written(o) == [o EXCEPT !.sink = Append(@, o.line), !.line = <<>>, !.lines = @ + 1]
Lost(o) == [o EXCEPT !.line = <<>>, !.lines = @ + 1, !.lost = @ \cup {o.lines + 1}]

(* write_byte of a mode that keeps lines; opens is whether the file can be   *)
(* created now                                                               *)
file_line(o, opens) ==
    IF o.file THEN Written(o)
    ELSE IF opens THEN [Written(o) EXCEPT !.file = TRUE]
    ELSE Lost(o)

write_line(o, byte, opens) ==
    IF byte # "nl" THEN [o EXCEPT !.line = Append(@, byte)]
    ELSE IF o.line = <<>> THEN o
    ELSE IF o.mode = "Stdout" THEN Written(o)
    ELSE file_line(o, opens)

write_byte(o, byte, opens) ==
    CASE o.mode = "Null" -> o
      [] o.mode \in {"Buffer", "Shared"} -> [o EXCEPT !.sink = Append(@, byte)]
      [] OTHER -> write_line(o, byte, opens)

(* flush does not open a file: a last line of a guest that never ended one   *)
(* is dropped                                                                *)
flush(o) ==
    IF o.line = <<>> THEN o
    ELSE IF o.mode = "Stdout" \/ o.file THEN Written(o) ELSE Lost(o)

OutInit == \E m \in Modes : out = SerialOutput(m)

WriteByte ==
    \E byte \in {"a", "b", "nl"}, opens \in BOOLEAN :
        /\ Len(out.sent) < MaxBytes
        /\ out' = [write_byte(out, byte, opens) EXCEPT !.sent = Append(@, byte)]

Flush ==
    /\ Len(out.sent) < MaxBytes
    /\ out' = [flush(out) EXCEPT !.sent = Append(@, "flush")]

OutNext == WriteByte \/ Flush

(* the lines of what was sent: its pieces between line ends and flushes, the *)
(* empty ones left out, the unfinished one last                              *)
Pieces(sent) ==
    LET ends == {0, Len(sent) + 1} \cup {i \in DOMAIN sent : sent[i] \in {"nl", "flush"}}
        piece(e) == SubSeq(sent, e + 1, Min({f \in ends : f > e}) - 1)
        starts == SetToSortSeq({e \in ends \ {Len(sent) + 1} :
                                  e + 1 \notin ends}, <)
    IN [i \in DOMAIN starts |-> piece(starts[i])]

Kept(lines, lost) ==
    LET idx == SetToSortSeq((DOMAIN lines) \ lost, <) IN [i \in DOMAIN idx |-> lines[idx[i]]]

(* A captured console holds every byte in order. A console that is printed   *)
(* or filed holds every non-empty line whole and in order, and what is       *)
(* buffered is the unfinished line; a file loses only lines that ended       *)
(* before it could first be opened (serial.rs:286-297, 324-329).             *)
OutputExact ==
    LET bytes == SelectSeq(out.sent, LAMBDA b : b # "flush")
        lines == Pieces(out.sent)
        held == IF out.line = <<>> THEN <<>> ELSE <<out.line>>
    IN CASE out.mode = "Null" -> out.sink = <<>>
         [] out.mode \in {"Buffer", "Shared"} -> out.sink = bytes
         [] OTHER ->
              /\ out.sink \o held = Kept(lines, out.lost)
              /\ out.mode = "Stdout" => out.lost = {}
              /\ out.lost = 1..Cardinality(out.lost)

-----------------------------------------------------------------------------
(* A guest's usage counters                                                 *)

GuestMetrics ==
    [work |-> 0, at |-> -1, prev |-> 0, now |-> 0, reported |-> 0, first |-> 0,
     loaded |-> [s \in Samplers |-> -1], asked |-> [s \in Samplers |-> 0]]

(* note_guest_exec, note_io_read and note_io_write: one atomic addition *)
note ==
    /\ met.work < MaxWork
    /\ met' = [met EXCEPT !.work = @ + 1]

Elapse ==
    /\ met.now < MaxWork
    /\ met' = [met EXCEPT !.now = @ + 1]

(* the counters are loaded before the mutex is taken *)
SampleLoads(s) ==
    /\ met.loaded[s] = -1
    /\ met' = [met EXCEPT !.loaded[s] = met.work, !.asked[s] = met.now]

(* under the mutex: the usage since the last sample, over the time since it; *)
(* the caller's time is the one it started with                              *)
SampleReports(s) ==
    /\ met.loaded[s] # -1
    /\ LET delta == Max({met.loaded[s] - met.prev, 0})
       IN met' = [met EXCEPT
            !.reported = IF met.at = -1 \/ met.asked[s] <= met.at THEN @ ELSE @ + delta,
            !.first = IF met.at = -1 \/ met.asked[s] <= met.at THEN @ + delta ELSE @,
            !.at = met.asked[s], !.prev = met.loaded[s], !.loaded[s] = -1]

MetInit == met = GuestMetrics
MetNext == note \/ Elapse \/ \E s \in Samplers : SampleLoads(s) \/ SampleReports(s)

(* With one task sampling a guest, its samples partition its work: what was  *)
(* reported, what fell in a window no rate is given for (the first sample    *)
(* and samples of one instant) and what the next sample will hold add up to  *)
(* the work done, and no work is counted twice although the counters are     *)
(* read before the lock is taken (metrics.rs:372-407).                       *)
SamplesExact ==
    /\ met.reported + met.first + (met.work - met.prev) = met.work
    /\ met.reported <= met.work

-----------------------------------------------------------------------------
(* The host's disks                                                         *)

Absent == -1

HostSampler ==
    [disk |-> [d \in Disks |-> 0], prev |-> [d \in Disks |-> Absent], seen |-> FALSE,
     moved |-> [d \in Disks |-> 0], stayed |-> Disks, rate |-> 0, truth |-> 0,
     least |-> 0, moves |-> 0]

Present(h) == {d \in Disks : h.disk[d] # Absent}

Move ==
    \E d \in Present(host) :
        /\ host.moves < MaxMoves
        /\ host' = [host EXCEPT !.disk[d] = @ + 1, !.moved[d] = @ + 1, !.moves = @ + 1]

Unplug ==
    \E d \in Present(host) :
        /\ host.moves < MaxMoves
        /\ host' = [host EXCEPT !.disk[d] = Absent, !.stayed = @ \ {d}, !.moves = @ + 1]

Plug ==
    \E d \in Disks \ Present(host) :
        /\ host.moves < MaxMoves
        /\ host' = [host EXCEPT !.disk[d] = 0, !.moves = @ + 1]

(* parse_diskstats finds the whole disks present; the deltas of those the    *)
(* last sample had too are added up, a counter that went back counting zero  *)
disk_delta(disk, prev) ==
    MapThenSumSet(LAMBDA d : Max({disk[d] - prev[d], 0}),
                  {d \in Disks : disk[d] # Absent /\ prev[d] # Absent})

sample_parts ==
    /\ host' = [host EXCEPT
         !.rate = IF host.seen THEN disk_delta(host.disk, host.prev) ELSE 0,
         !.truth = MapThenSumSet(LAMBDA d : host.moved[d], Disks),
         !.least = IF host.seen
                   THEN MapThenSumSet(LAMBDA d : host.moved[d],
                                      {d \in host.stayed : host.prev[d] # Absent})
                   ELSE 0,
         !.seen = TRUE, !.prev = host.disk,
         !.moved = [d \in Disks |-> 0], !.stayed = Present(host)]

HostInit == host = HostSampler
HostNext == Move \/ Unplug \/ Plug \/ sample_parts

(* The disk rate of the host's sample never holds traffic from outside its   *)
(* window, and holds all the traffic of the disks that were there at both    *)
(* ends of it, whatever was plugged, pulled or put back with its counters    *)
(* reset in between (metrics.rs:240-264).                                    *)
RatesExact == host.rate <= host.truth /\ host.rate >= host.least

=============================================================================
