------------------------------ MODULE Chipset -------------------------------
(* The interrupt controllers and the timers of the PC. *)
EXTENDS Naturals, FiniteSetsExt

(* The interrupt controllers: the 8259 pair, and the local APICs with the I/O APIC. *)
-----------------------------------------------------------------------------
(***************************************************************************)
(* The cascaded pair of 8259A interrupt controllers (interrupt/pic.rs):    *)
(* device lines, the guest's initialization and operation command words,   *)
(* and the CPU's interrupt acknowledge.  A register is the set of its one  *)
(* bits; a chip's state is one record, as in the code.                     *)
(***************************************************************************)
CONSTANTS
  Lines,    \* the ISA lines devices are attached to, within 0..15
  Masks,    \* bound: per chip, the values the guest writes to its mask register
  Modes     \* bound: per chip, what the guest uses: "init", "aeoi", "poll", "special"

Chips == {"master", "slave"}
Cascade == 2
Base == [master |-> 8, slave |-> 16]  \* the vector bases the guest programs

VARIABLE pic  \* the two chips

Chip(line) == IF line < 8 THEN "master" ELSE "slave"
None == 99

ResetChip ==
  [irr |-> {}, isr |-> {}, imr |-> {}, elcr |-> {}, line_level |-> {},
   vector_base |-> 0, init_step |-> "Ready", expect_icw4 |-> FALSE,
   single |-> FALSE, auto_eoi |-> FALSE,
   special_mask |-> FALSE, poll |-> FALSE]

PicInit == pic = [c \in Chips |-> ResetChip]

-----------------------------------------------------------------------------
(* One chip *)

\* Mutant: a level line that drops leaves its request behind.
set_line_latches(p, i, level) ==
  [p EXCEPT !.line_level = IF level THEN @ \cup {i} ELSE @ \ {i},
            !.irr = IF level THEN @ \cup {i} ELSE @]

\* A level line's request follows the line, an edge line's is latched.
set_line(p, i, level) ==
  [p EXCEPT !.line_level = IF level THEN @ \cup {i} ELSE @ \ {i},
            !.irr = IF level THEN @ \cup {i}
                    ELSE IF i \in p.elcr THEN @ \ {i} ELSE @]

write_icw1(p, icw4, sngl) ==
  [p EXCEPT !.expect_icw4 = icw4, !.single = sngl, !.imr = {}, !.isr = {},
            !.special_mask = FALSE, !.poll = FALSE,
            !.auto_eoi = FALSE, !.init_step = "Icw2"]

clear_highest_in_service(p) ==
  [p EXCEPT !.isr = IF @ = {} THEN {} ELSE @ \ {Min(@)}]

write_ocw2_specific(p, i) == [p EXCEPT !.isr = @ \ {i}]

\* What follows an initialization byte: ICW3 unless single, ICW4 if announced.
after_icw2(p) == IF ~p.single THEN "Icw3" ELSE IF p.expect_icw4 THEN "Icw4" ELSE "Ready"
after_icw3(p) == IF p.expect_icw4 THEN "Icw4" ELSE "Ready"

\* The data port: the next initialization byte, or the mask.
write_data(p, c, mask, aeoi) ==
  CASE p.init_step = "Icw2" -> [p EXCEPT !.vector_base = Base[c], !.init_step = after_icw2(p)]
    [] p.init_step = "Icw3" -> [p EXCEPT !.init_step = after_icw3(p)]
    [] p.init_step = "Icw4" -> [p EXCEPT !.auto_eoi = aeoi, !.init_step = "Ready"]
    [] p.init_step = "Ready" -> [p EXCEPT !.imr = mask]

\* The most urgent unmasked request above everything in service, or None.
resolve(p, irr) ==
  LET blocking == IF p.special_mask THEN p.isr \ p.imr ELSE p.isr
      open == {i \in irr \ p.imr : \A b \in blocking : i < b}
  IN IF open = {} THEN None ELSE Min(open)

\* A level line still asserted keeps its request.
in_service(p, i) ==
  [p EXCEPT !.irr = (@ \ {i}) \cup ({i} \cap p.elcr \cap p.line_level),
            !.isr = IF p.auto_eoi THEN @ ELSE @ \cup {i}]

chip_acknowledge(p) ==
  LET i == resolve(p, p.irr) IN IF i = None THEN p ELSE in_service(p, i)

\* Reading the command port acknowledges when a poll was ordered.
read_command(p) ==
  IF p.poll THEN chip_acknowledge([p EXCEPT !.poll = FALSE]) ELSE p

-----------------------------------------------------------------------------
(* The pair *)

\* The slave's output is the master's input 2.
master_irr(d) ==
  IF resolve(d.slave, d.slave.irr) # None
  THEN d.master.irr \cup {Cascade} ELSE d.master.irr \ {Cascade}

pending_vector(d) ==
  LET m == resolve(d.master, master_irr(d))
      s == resolve(d.slave, d.slave.irr)
  IN CASE m = None -> None
       [] m = Cascade -> IF s = None THEN None ELSE d.slave.vector_base + s
       [] OTHER -> d.master.vector_base + m

dual_acknowledge(d) ==
  IF resolve(d.master, master_irr(d)) = Cascade
  THEN [d EXCEPT !.master.isr = IF d.master.auto_eoi THEN @ ELSE @ \cup {Cascade},
                 !.slave = chip_acknowledge(@)]
  ELSE IF resolve(d.master, master_irr(d)) = None THEN d
  ELSE [d EXCEPT !.master = chip_acknowledge(@)]

-----------------------------------------------------------------------------
(* A device moves its line, the guest uses a port, the CPU acknowledges. *)

set_irq_level(l, level) ==
  pic' = [pic EXCEPT ![Chip(l)] = set_line(@, l % 8, level)]

\* IRQ 0, 1, 2, 8 and 13 are hardwired to edge.
write_elcr(c, val) ==
  pic' = [pic EXCEPT ![c].elcr = val \ (IF c = "master" THEN {0, 1, 2} ELSE {0, 5})]

\* ICW1, once per chip (a bound).
initialize(c, icw4, sngl) ==
  /\ "init" \in Modes[c] /\ pic[c].init_step = "Ready" /\ pic[c].vector_base = 0
  /\ pic' = [pic EXCEPT ![c] = write_icw1(@, icw4, sngl)]

end_of_interrupt(c) ==
  \/ pic' = [pic EXCEPT ![c] = clear_highest_in_service(@)]
  \/ \E i \in pic[c].isr : pic' = [pic EXCEPT ![c] = write_ocw2_specific(@, i)]

write_ocw3(c) ==
  \/ "poll" \in Modes[c] /\ pic' = [pic EXCEPT ![c].poll = TRUE]
  \/ "special" \in Modes[c] /\ \E b \in BOOLEAN : pic' = [pic EXCEPT ![c].special_mask = b]

write_port_data(c, mask, aeoi) ==
  /\ aeoi => "aeoi" \in Modes[c]
  /\ pic' = [pic EXCEPT ![c] = write_data(@, c, mask, aeoi)]

read_port_command(c) == pic' = [pic EXCEPT ![c] = read_command(@)]

acknowledge == pic' = dual_acknowledge(pic)

PicNext ==
  \/ \E l \in Lines, level \in BOOLEAN : set_irq_level(l, level)
  \/ \E c \in Chips :
       \/ \E val \in {{}, {l % 8 : l \in Lines}} : write_elcr(c, val)
       \/ \E sngl \in BOOLEAN : initialize(c, ~sngl, sngl)
       \/ end_of_interrupt(c) \/ write_ocw3(c) \/ read_port_command(c)
       \/ \E mask \in Masks[c], aeoi \in BOOLEAN : write_port_data(c, mask, aeoi)
  \/ acknowledge

-----------------------------------------------------------------------------
(* Properties *)

PicTypeOK ==
  \A c \in Chips :
    /\ pic[c].irr \cup pic[c].line_level \subseteq {l % 8 : l \in {x \in Lines : Chip(x) = c}}
    /\ pic[c].isr \subseteq {l % 8 : l \in {x \in Lines : Chip(x) = c}} \cup {Cascade}
    /\ pic[c].init_step \in {"Ready", "Icw2", "Icw3", "Icw4"}

\* A line in level mode asks for service while it is asserted, and never after
\* it has dropped, whatever was acknowledged in between (set_line, acknowledge).
\* Only reprogramming its mode can leave the two apart.
LevelFollowsLine ==
  \A c \in Chips : pic'[c].elcr = pic[c].elcr =>
    \A i \in pic[c].elcr :
      (i \in pic[c].irr <=> i \in pic[c].line_level)
        => (i \in pic'[c].irr <=> i \in pic'[c].line_level)

\* A newly served interrupt outranks everything in service on its chip, unless
\* special mask mode lifts the masked ones (resolve, "fully nested").
FullyNested ==
  \A c \in Chips : \A i \in pic'[c].isr \ pic[c].isr :
    \A j \in pic[c].isr : i < j \/ (pic[c].special_mask /\ j \in pic[c].imr)

\* The CPU is never given an interrupt of a chip below one it is serving for
\* that chip: while the cascade input is in service on the master, no interrupt
\* of lower priority is pending, from either chip (master_irr, acknowledge).
CascadeNested ==
  Cascade \in pic.master.isr /\ ~pic.master.special_mask =>
    pending_vector(pic) = None \/ resolve(pic.master, master_irr(pic)) < Cascade

-----------------------------------------------------------------------------
(***************************************************************************)
(* The local APICs, the I/O APIC and the controller that routes between    *)
(* them (interrupt/lapic.rs, ioapic.rs, controller.rs, Apic_line.rs): device    *)
(* lines, message-signalled and inter-processor interrupts, priorities,    *)
(* and the end-of-interrupt broadcast.  A register is a set of vectors.    *)
(***************************************************************************)
CONSTANTS
  Cpus,      \* APIC ids, one LAPIC each
  Pins,      \* I/O APIC inputs with a device attached
  Vectors,   \* vectors the guest uses
  Tprs,      \* task priorities the guest writes
  Ldr,       \* per LAPIC, the logical id it was given, as a set of bits 0..7
  Flat,      \* the destination format: flat model, or clusters
  Entries,   \* redirection entries the guest programs
  Messages,  \* the messages of MSIs and IPIs: [vector, lowest, dest]
  Toggled    \* bound: the LAPICs the guest disables again

Broadcast == 255
class(v) == v \div 16

VARIABLE ic

ResetLapic == [enabled |-> FALSE, tpr |-> 0, irr |-> {}, isr |-> {}]

ResetPin == [vector |-> 0, lowest |-> FALSE, dest |-> [logical |-> FALSE, id |-> 0],
             level |-> FALSE, masked |-> TRUE, remote_irr |-> FALSE]

\* held and missed are history: the inputs their device holds high, and those
\* whose request reached no LAPIC since the device raised them.
ApicInit ==
  ic = [lapics |-> [c \in Cpus |-> ResetLapic], pins |-> [p \in Pins |-> ResetPin],
        irq_level |-> {}, held |-> {}, missed |-> {}]

-----------------------------------------------------------------------------
(* One LAPIC *)

highest(reg) == IF reg = {} THEN 0 ELSE Max(reg)

compute_ppr(l) ==
  IF class(l.tpr) >= class(highest(l.isr)) THEN class(l.tpr) ELSE class(highest(l.isr))

\* Mutant: the processor priority ignores what is in service.
pending_tpr_only(l) ==
  IF l.enabled /\ l.irr # {} /\ class(Max(l.irr)) > class(l.tpr) THEN Max(l.irr) ELSE 0

\* The vector the CPU may take, 0 for none.
pending_interrupt(l) ==
  IF l.enabled /\ l.irr # {} /\ class(Max(l.irr)) > compute_ppr(l)
     /\ class(Max(l.irr)) > class(highest(l.isr))
  THEN Max(l.irr) ELSE 0

start_servicing(l, v) == [l EXCEPT !.irr = @ \ {v}, !.isr = @ \cup {v}]

accept_interrupt(l, v) ==
  IF l.enabled /\ v >= 16 THEN [l EXCEPT !.irr = @ \cup {v}] ELSE l

signal_eoi(l) == [l EXCEPT !.isr = @ \ {highest(@)}]

high(bits) == {b \in bits : b >= 4}

\* Whether a LAPIC is a member of a logical destination.
matches_logical(c, dest) ==
  IF Flat THEN Ldr[c] \cap dest # {}
  ELSE high(Ldr[c]) = high(dest) /\ {b \in Ldr[c] \cap dest : b < 4} # {}

-----------------------------------------------------------------------------
(* Routing *)

addressed(d, dest) ==
  {c \in Cpus : IF dest.logical THEN d.lapics[c].enabled /\ matches_logical(c, dest.id)
                ELSE dest.id \in {Broadcast, c}}

\* Among the enabled ones the first with the lowest task priority.
lowest_tpr(d, S) ==
  LET on == {c \in S : d.lapics[c].enabled}
      best == {c \in on : \A e \in on : d.lapics[c].tpr <= d.lapics[e].tpr}
  IN IF on = {} THEN {} ELSE {Min(best)}

recipients(d, S, m) == IF m.lowest THEN lowest_tpr(d, S) ELSE S

send(d, S, v) ==
  [d EXCEPT !.lapics = [c \in Cpus |-> IF c \in S THEN accept_interrupt(@[c], v) ELSE @[c]]]

deliver(d, m) == send(d, recipients(d, addressed(d, m.dest), m), m.vector)

reached(d, m) ==
  m.vector >= 16 /\ \E c \in recipients(d, addressed(d, m.dest), m) : d.lapics[c].enabled

\* A request of a level input; noted when nobody took it.
deliver_route(d, p) ==
  [deliver(d, d.pins[p]) EXCEPT
     !.missed = IF d.pins[p].level /\ ~reached(d, d.pins[p]) THEN @ \cup {p} ELSE @]

\* IoApic::set_irq and deliver_irq.
set_irq(d, p) ==
  LET e == d.pins[p]
  IN IF e.masked THEN [d EXCEPT !.missed = IF e.level THEN @ \cup {p} ELSE @]
     ELSE IF ~e.level THEN deliver_route(d, p)
     ELSE IF p \in d.irq_level THEN d
     ELSE deliver_route([d EXCEPT !.irq_level = @ \cup {p}, !.pins[p].remote_irr = TRUE], p)

clear_irq(d, p) == [d EXCEPT !.irq_level = @ \ {p}]

awaiting(d, v) == {p \in Pins : d.pins[p].level /\ d.pins[p].remote_irr /\ d.pins[p].vector = v}

again(d, v) == {p \in awaiting(d, v) : p \in d.irq_level /\ ~d.pins[p].masked}

\* Mutant: an input still asserted at the EOI is not delivered again.
eoi_forgets(d, v) ==
  [d EXCEPT !.pins = [p \in Pins |->
     [@[p] EXCEPT !.remote_irr = IF p \in awaiting(d, v) THEN FALSE ELSE @]]]

\* The EOI broadcast: inputs that waited for it are released, and delivered
\* again where the Apic_line is still asserted.
eoi_broadcast(d, v) ==
  LET released == [d EXCEPT
        !.pins = [p \in Pins |-> [@[p] EXCEPT !.remote_irr =
                    IF p \in awaiting(d, v) THEN p \in again(d, v) ELSE @]],
        !.missed = @ \cup {p \in awaiting(d, v) : p \in d.irq_level /\ d.pins[p].masked}]
  IN FoldSet(LAMBDA p, acc : deliver_route(acc, p), released, again(d, v))

-----------------------------------------------------------------------------
(* Steps *)

Apic_line(p, level) ==
  ic' = IF level THEN [set_irq(ic, p) EXCEPT !.held = @ \cup {p}]
        ELSE [clear_irq(ic, p) EXCEPT !.held = @ \ {p}, !.missed = @ \ {p}]

deliver_msi(m) == ic' = deliver(ic, m)

\* Writing the low half of the ICR sends it; by destination, or by shorthand.
send_ipi(source, m, shorthand) ==
  ic' = CASE shorthand = "none" -> deliver(ic, m)
          [] shorthand = "self" -> send(ic, {source}, m.vector)
          [] shorthand = "all" -> send(ic, recipients(ic, Cpus, m), m.vector)
          [] shorthand = "others" -> send(ic, recipients(ic, Cpus \ {source}, m), m.vector)

\* A whole redirection entry, while no interrupt of it is in flight (a bound:
\* guests mask and drain first); Remote IRR is read-only.
write_redirection(p, e) ==
  /\ ~ic.pins[p].remote_irr
  /\ ic' = [ic EXCEPT !.pins[p] = [e EXCEPT !.remote_irr = ic.pins[p].remote_irr],
                      !.missed = IF p \in ic.held THEN @ \cup {p} ELSE @]

write_mask(p, masked) == ic' = [ic EXCEPT !.pins[p].masked = masked]

write_svr(c, enable) ==
  /\ enable \/ c \in Toggled
  /\ ic' = [ic EXCEPT !.lapics[c].enabled = enable]

write_tpr(c, tpr) == ic' = [ic EXCEPT !.lapics[c].tpr = tpr]

\* A write of the EOI register, routed through the controller.
write_eoi(c) ==
  /\ ic.lapics[c].isr # {}
  /\ ic' = eoi_broadcast([ic EXCEPT !.lapics[c] = signal_eoi(@)], highest(ic.lapics[c].isr))

\* The run loop gives the vCPU its highest interrupt.
accept_highest_interrupt(c) ==
  /\ pending_interrupt(ic.lapics[c]) # 0
  /\ ic' = [ic EXCEPT !.lapics[c] = start_servicing(@, pending_interrupt(@))]

ApicNext ==
  \/ \E p \in Pins : \/ \E b \in BOOLEAN : Apic_line(p, b) \/ write_mask(p, b)
                     \/ \E e \in Entries : write_redirection(p, e)
  \/ \E m \in Messages : deliver_msi(m)
  \/ \E c \in Cpus :
       \/ \E m \in Messages, sh \in {"none", "self", "all", "others"} : send_ipi(c, m, sh)
       \/ \E b \in BOOLEAN : write_svr(c, b)
       \/ \E t \in Tprs : write_tpr(c, t)
       \/ write_eoi(c) \/ accept_highest_interrupt(c)

-----------------------------------------------------------------------------
(* Properties *)

ApicTypeOK ==
  /\ \A c \in Cpus : /\ ic.lapics[c].irr \cup ic.lapics[c].isr \subseteq Vectors
                     /\ ic.lapics[c].tpr \in Tprs
  /\ ic.irq_level \cup ic.missed \subseteq ic.held /\ ic.held \subseteq Pins

\* A held level Apic_line keeps interrupting until it drops (InterruptController::eoi:
\* "a held PCI INTx Apic_line keeps interrupting until the device deasserts it"): its
\* entry waits for an EOI of a vector some LAPIC has pending or in service.  The
\* exceptions are inputs whose request found the entry masked or no LAPIC.
HeldLineServed ==
  \A p \in ic.held \ ic.missed :
    ic.pins[p].level /\ ~ic.pins[p].masked =>
      /\ ic.pins[p].remote_irr
      /\ \E c \in Cpus : ic.pins[p].vector \in ic.lapics[c].irr \cup ic.lapics[c].isr

\* An interrupt is taken only when its class is above the task priority and
\* above everything the CPU has in service, so handlers nest by priority
\* whatever arrives in between (pending_interrupt).
PriorityNested ==
  \A c \in Cpus : \A v \in ic'.lapics[c].isr \ ic.lapics[c].isr :
    /\ class(v) > class(ic.lapics[c].tpr)
    /\ \A w \in ic.lapics[c].isr : class(v) > class(w)

-----------------------------------------------------------------------------
(* The clocks of the chipset: the local APIC's timer, the 8254, the HPET and the RTC. *)
-----------------------------------------------------------------------------
(***************************************************************************)
(* The timer of a local APIC (interrupt/lapic.rs): the divided bus-clock   *)
(* counter in one-shot and periodic mode, advanced in batches of clocks,   *)
(* and the TSC deadline.                                                   *)
(***************************************************************************)
CONSTANTS
  Counts,    \* initial counts the guest writes
  Divisors,  \* divide configurations the guest writes
  LapicBatches,   \* clocks the run loop may hand over at once
  MaxTsc     \* bound on the guest's time stamp counter

VARIABLE tm

LapicInit ==
  tm = [mode |-> "oneshot", masked |-> TRUE, initial |-> 0, current |-> 0,
        divisor |-> 2, residual |-> 0, tsc_deadline |-> 0, irr |-> FALSE, tsc |-> 0]

inject(t) == [t EXCEPT !.irr = @ \/ ~t.masked]

\* Mutant: clocks beyond an expiry are dropped.
expire_drops(t, ticks) ==
  inject([t EXCEPT !.current = IF t.mode = "periodic" THEN t.initial ELSE 0])

\* The count ran out; a periodic timer carries the clocks beyond.
expire(t, ticks) ==
  inject([t EXCEPT !.current = IF t.mode = "periodic"
                               THEN t.initial - ((ticks - t.current) % t.initial) ELSE 0])

timer_tick(t, clocks) ==
  LET total == t.residual + clocks
      ticks == total \div t.divisor
      divided == [t EXCEPT !.residual = total % t.divisor]
  IN IF t.initial = 0 \/ t.mode = "deadline" THEN t
     ELSE IF ticks = 0 THEN divided
     ELSE IF t.current <= ticks THEN expire(divided, ticks)
     ELSE [divided EXCEPT !.current = @ - ticks]

\* Changing the mode disarms the deadline.
write_lvt_timer(t, mode, masked) ==
  [t EXCEPT !.masked = masked, !.mode = mode,
            !.tsc_deadline = IF mode = t.mode THEN @ ELSE 0]

write_timer_init(t, n) ==
  IF t.mode = "deadline" THEN t
  ELSE [t EXCEPT !.initial = n, !.current = n, !.residual = 0]

write_timer_divide(t, n) == [t EXCEPT !.divisor = n, !.residual = 0]

write_tsc_deadline_msr(t, v) == IF t.mode = "deadline" THEN [t EXCEPT !.tsc_deadline = v] ELSE t

\* Fires once when the TSC reaches the deadline.
check_tsc_deadline(t) ==
  IF t.mode # "deadline" \/ t.tsc_deadline = 0 \/ t.tsc < t.tsc_deadline THEN t
  ELSE inject([t EXCEPT !.tsc_deadline = 0])

LapicNext ==
  \/ \E n \in LapicBatches : tm' = timer_tick(tm, n)
  \/ \E m \in {"oneshot", "periodic", "deadline"}, b \in BOOLEAN :
       tm' = write_lvt_timer(tm, m, b)
  \/ \E n \in Counts : tm' = write_timer_init(tm, n)
  \/ \E n \in Divisors : tm' = write_timer_divide(tm, n)
  \/ \E v \in 0..MaxTsc : tm' = write_tsc_deadline_msr(tm, v)
  \/ tm' = check_tsc_deadline(tm)
  \/ tm.tsc < MaxTsc /\ tm' = [tm EXCEPT !.tsc = @ + 1]
  \/ tm.irr /\ tm' = [tm EXCEPT !.irr = FALSE]   \* the vCPU takes the interrupt

\* A batch of clocks acts like the same clocks in smaller batches, whatever
\* the divisor, the residue and the number of expiries it spans (timer_tick:
\* "a large batch divides exactly like a sequence of small ones - the phase
\* never drifts").
BatchIndependent ==
  \A a, b \in LapicBatches : timer_tick(tm, a + b) = timer_tick(timer_tick(tm, a), b)

\* An armed deadline belongs to the deadline mode: none survives a change of
\* mode to fire later (write_register: "a stale deadline armed before the
\* switch could still fire").
NoStaleDeadline == tm.tsc_deadline # 0 => tm.mode = "deadline"

\* Type correctness: the count stays within one period.
LapicTypeOK == tm.current <= tm.initial /\ tm.residual < tm.divisor

-----------------------------------------------------------------------------
(***************************************************************************)
(* A channel of the 8254 timer (timer/pit.rs): the control word, the count *)
(* written and read in bytes, latches, and the counting modes.  Channel 0  *)
(* raises IRQ 0.  A byte has Radix values, so a count has Radix * Radix.   *)
(***************************************************************************)
CONSTANT Radix   \* values of a byte

PitWrap == Radix * Radix
Bytes == 0 .. Radix - 1

VARIABLE ch

\* latched says that a count is held; its value only answers reads.
\* fired, since, first and torn are history: whether the last step raised IRQ 0,
\* the clocks since the count was loaded or the IRQ before, whether none was
\* raised since the load, and whether half a count was written since.
PitInit ==
  ch = [count |-> 0, reload |-> 0, mode |-> "terminal", access |-> "lohi",
        latched |-> FALSE, status |-> FALSE, read_hi |-> FALSE, write_hi |-> FALSE,
        output |-> FALSE, enabled |-> FALSE,
        fired |-> FALSE, since |-> 0, first |-> TRUE, torn |-> FALSE]

sub(a, b) == (a + PitWrap - b) % PitWrap
Period(c) == IF c.reload = 0 THEN PitWrap ELSE c.reload

\* A reload of 0 counts as the full range.
load_count(c) ==
  [c EXCEPT !.count = c.reload, !.enabled = TRUE, !.output = FALSE,
            !.since = 0, !.first = TRUE, !.torn = FALSE]

with_lo(c, b) == [c EXCEPT !.reload = (@ \div Radix) * Radix + b]
with_hi(c, b) == [c EXCEPT !.reload = (@ % Radix) + b * Radix]

Pit_write_data(c, b) ==
  CASE c.access = "lo" -> load_count(with_lo(c, b))
    [] c.access = "hi" -> load_count(with_hi(c, b))
    [] c.access = "lohi" /\ c.write_hi -> load_count([with_hi(c, b) EXCEPT !.write_hi = FALSE])
    [] OTHER -> [with_lo(c, b) EXCEPT !.write_hi = TRUE, !.torn = TRUE]

\* A latched status is read first; a count's second byte releases the latch.
read_data(c) ==
  CASE c.status -> [c EXCEPT !.status = FALSE]
    [] ~c.status /\ c.access = "lohi" /\ c.read_hi -> [c EXCEPT !.read_hi = FALSE, !.latched = FALSE]
    [] ~c.status /\ c.access = "lohi" /\ ~c.read_hi -> [c EXCEPT !.read_hi = TRUE]
    [] OTHER -> c

write_command(c, access, mode) ==
  IF access = "latch" THEN [c EXCEPT !.latched = TRUE]
  ELSE [c EXCEPT !.access = access, !.mode = mode, !.read_hi = FALSE, !.write_hi = FALSE,
                 !.output = FALSE, !.enabled = FALSE]

\* Latches that are already held stay.
read_back(c, count, status) ==
  [c EXCEPT !.status = @ \/ status, !.latched = @ \/ count]

-----------------------------------------------------------------------------
(* One input clock; the result says whether the channel fired *)

Ticked(c, fired) == [c EXCEPT !.fired = fired]

terminal_tick(c) ==
  IF c.count = 0 THEN Ticked([c EXCEPT !.output = TRUE], FALSE)
  ELSE Ticked([c EXCEPT !.count = @ - 1, !.output = @ \/ c.count = 1], c.count = 1)

rate_tick(c) ==
  IF sub(c.count, 1) = 0 THEN Ticked([c EXCEPT !.count = c.reload, !.output = FALSE], TRUE)
  ELSE Ticked([c EXCEPT !.count = sub(@, 1), !.output = TRUE], FALSE)

square_tick(c) ==
  IF c.count = 0 THEN Ticked([c EXCEPT !.count = c.reload], FALSE)
  ELSE IF sub(c.count, 2) > 1 THEN Ticked([c EXCEPT !.count = sub(@, 2)], FALSE)
  ELSE Ticked([c EXCEPT !.output = ~@, !.count = c.reload], ~c.output)

other_tick(c) == Ticked([c EXCEPT !.count = IF @ > 0 THEN @ - 1 ELSE 0], FALSE)

channel_tick(c) ==
  CASE ~c.enabled -> Ticked(c, FALSE)
    [] c.enabled /\ c.mode = "terminal" -> terminal_tick(c)
    [] c.enabled /\ c.mode = "rate" -> rate_tick(c)
    [] c.enabled /\ c.mode = "square" -> square_tick(c)
    [] c.enabled /\ c.mode = "other" -> other_tick(c)

\* Counted for the properties: clocks since the last IRQ or load, up to the range.
Counted(old, new) ==
  [new EXCEPT !.since = IF ~old.enabled THEN 0 ELSE IF old.fired THEN 1
                        ELSE IF old.since < PitWrap + 1 THEN old.since + 1 ELSE @,
              !.first = old.first /\ ~old.fired]

Pit_tick == ch' = Counted(ch, channel_tick(ch))

\* The channel at the start of a step that is not a clock.
Now == [ch EXCEPT !.fired = FALSE, !.first = @ /\ ~ch.fired, !.since = IF ch.fired THEN 0 ELSE @]

PitNext ==
  \/ Pit_tick
  \/ \E b \in Bytes : ch' = Pit_write_data(Now, b)
  \/ ch' = read_data(Now)
  \/ \E a \in {"latch", "lo", "hi", "lohi"}, m \in {"terminal", "rate", "square", "other"} :
       ch' = write_command(Now, a, m)
  \/ \E count, status \in BOOLEAN : ch' = read_back(Now, count, status)

-----------------------------------------------------------------------------
(* Properties *)

PitTypeOK ==
  /\ ch.count \in 0 .. PitWrap - 1 /\ ch.reload \in 0 .. PitWrap - 1
  /\ ch.since \in 0 .. PitWrap + 1

\* The rate generator raises IRQ 0 exactly every period, counted from the load:
\* neither early nor late, at any reload including 0, which is the full range
\* (Pit_tick: "the period is exactly reload input clocks").
RatePeriod ==
  ch.enabled /\ ch.mode = "rate" /\ ~ch.torn =>
    /\ ch.since <= Period(ch)
    /\ ch.fired => ch.since = Period(ch)

\* A square wave of an even reload rises once per reload clocks, and first
\* after half of them (Pit_tick, SquareWave).
SquarePeriod ==
  ch.enabled /\ ch.mode = "square" /\ ~ch.torn /\ ch.reload > 0 /\ ch.reload % 2 = 0 =>
    /\ ch.since <= ch.reload
    /\ ch.fired => ch.since = IF ch.first THEN ch.reload \div 2 ELSE ch.reload

\* Terminal count raises IRQ 0 once per load, when the count has run out.
TerminalOnce ==
  ch.enabled /\ ch.mode = "terminal" /\ ch.fired /\ ~ch.torn =>
    ch.first /\ ch.since = ch.reload

-----------------------------------------------------------------------------
(***************************************************************************)
(* The HPET (timer/hpet.rs): the main counter and its comparators, one-shot*)
(* or periodic, advanced in batches of ticks.  Capabilities, routes and    *)
(* the split of a register into two dwords are left out.                   *)
(***************************************************************************)
CONSTANTS
  Timers,   \* comparators
  Values,   \* values the guest writes to the counter and the comparators
  HpetBatches,  \* ticks handed over at once
  HpetWrap      \* the counter's range

VARIABLE hp

\* armed and lagged are history: the timers whose comparator was set ahead of
\* the counter since, and those that a batch spanning more than their period,
\* or a wrap of the counter, has left behind.
HpetInit ==
  hp = [enabled |-> FALSE, counter |-> 0, status |-> {}, fired |-> {},
        timer |-> [t \in Timers |-> [on |-> FALSE, periodic |-> FALSE, level |-> FALSE,
                                     setacc |-> FALSE, comparator |-> 0, period |-> 0]],
        armed |-> {}, lagged |-> {}]

Quiet(h) == [h EXCEPT !.fired = {}]

write_config(h, b) == [h EXCEPT !.enabled = b]

write_status(h, S) == [h EXCEPT !.status = @ \ S]

\* Only while stopped.
write_counter(h, v) ==
  IF h.enabled THEN h ELSE [h EXCEPT !.counter = v, !.armed = {}]

write_timer_config(h, t, on, periodic, level, setacc) ==
  [h EXCEPT !.timer[t] = [@ EXCEPT !.on = on, !.periodic = periodic, !.level = level,
                                   !.setacc = setacc],
            !.armed = @ \ {t}]

\* In periodic mode a write sets the period, and the comparator only after the
\* guest asked for it (VAL_SET), which the write uses up.
write_comparator(h, t, v) ==
  LET old == h.timer[t]
      new == [old EXCEPT !.comparator = IF ~old.periodic \/ old.setacc THEN v ELSE @,
                         !.period = IF old.periodic THEN v ELSE @,
                         !.setacc = FALSE]
  IN [h EXCEPT !.timer[t] = new,
               !.armed = IF new.comparator > h.counter /\ new.on /\ new.period > 0
                         THEN @ \cup {t} ELSE @ \ {t},
               !.lagged = @ \ {t}]

\* The batch takes the counter to or past the comparator.
crosses(h, t, counter) ==
  /\ h.timer[t].on
  /\ h.counter < h.timer[t].comparator /\ counter >= h.timer[t].comparator

next_comparator(timer) == (timer.comparator + timer.period) % HpetWrap

Hpet_tick(h, n) ==
  LET counter == (h.counter + n) % HpetWrap
      hit == {t \in Timers : crosses(h, t, counter)}
      moved == {t \in hit : h.timer[t].periodic}
  IN IF ~h.enabled THEN Quiet(h)
     ELSE [h EXCEPT
            !.counter = counter,
            !.timer = [t \in Timers |-> IF t \in moved
                       THEN [@[t] EXCEPT !.comparator = next_comparator(h.timer[t])] ELSE @[t]],
            !.status = @ \cup {t \in hit : h.timer[t].level},
            !.fired = hit,
            !.armed = @ \ {t \in hit : ~h.timer[t].periodic},
            !.lagged = @ \cup {t \in Timers :
              \/ n > h.timer[t].period
              \/ counter < h.counter
              \/ t \in moved /\ h.timer[t].comparator + h.timer[t].period >= HpetWrap}]

HpetNext ==
  \/ \E n \in HpetBatches : hp' = Hpet_tick(hp, n)
  \/ \E b \in BOOLEAN : hp' = write_config(Quiet(hp), b)
  \/ \E S \in SUBSET Timers : hp' = write_status(Quiet(hp), S)
  \/ \E v \in Values : hp' = write_counter(Quiet(hp), v)
  \/ \E t \in Timers, on, periodic, level, setacc \in BOOLEAN :
       hp' = write_timer_config(Quiet(hp), t, on, periodic, level, setacc)
  \/ \E t \in Timers, v \in Values : hp' = write_comparator(Quiet(hp), t, v)

-----------------------------------------------------------------------------
(* Properties *)

HpetTypeOK ==
  /\ hp.counter \in 0 .. HpetWrap - 1 /\ hp.status \subseteq Timers
  /\ \A t \in Timers : hp.timer[t].comparator \in 0 .. HpetWrap - 1

\* An armed periodic timer always has its next Hpet_tick ahead of the counter, at
\* most a period away, so it neither stops nor fires twice - provided no batch
\* spans more than its period (Hpet_tick moves the comparator once per batch).
PeriodicAhead ==
  \A t \in hp.armed \ hp.lagged : hp.timer[t].periodic =>
    /\ hp.timer[t].comparator > hp.counter
    /\ t \in hp.fired => hp.timer[t].comparator <= hp.counter + hp.timer[t].period

-----------------------------------------------------------------------------
(***************************************************************************)
(* The MC146818 clock (timer/rtc.rs): the calendar and its one-second      *)
(* update, the alarm, periodic and update interrupts with their flags, and *)
(* the registers in binary or BCD, 12- or 24-hour form.                    *)
(***************************************************************************)
CONSTANTS
  Starts,    \* the moments the clock is set to: <<day since 1970, second of day>>
  Alarms,    \* alarm settings: <<second, minute, hour>> with Any for "don't care"
  MaxTicks   \* bound on the seconds that pass

Any == 255
Enables == {"PIE", "AIE", "UIE"}

VARIABLE rtc

\* The calendar of a day number, by the civil-from-days formula.
date(days) ==
  LET z == days + 719468
      era == z \div 146097
      doe == z - era * 146097
      yoe == (doe - (doe \div 1460) + (doe \div 36524) - (doe \div 146096)) \div 365
      doy == doe - (365 * yoe + (yoe \div 4) - (yoe \div 100))
      mp == (5 * doy + 2) \div 153
      month == IF mp < 10 THEN mp + 3 ELSE mp - 9
      y == yoe + era * 400
  IN [day |-> doy - ((153 * mp + 2) \div 5) + 1, month |-> month,
      year |-> IF month <= 2 THEN y + 1 ELSE y, weekday |-> ((days + 4) % 7) + 1]

from_unix(days, rem) ==
  LET d == date(days)
  IN [second |-> rem % 60, minute |-> (rem % 3600) \div 60, hour |-> rem \div 3600,
      weekday |-> d.weekday, day |-> d.day, month |-> d.month, year |-> d.year]

\* Mutant: every fourth year is a leap year.
days_in_month_julian(month, year) ==
  IF month = 2 THEN (IF year % 4 = 0 THEN 29 ELSE 28)
  ELSE IF month \in {4, 6, 9, 11} THEN 30 ELSE 31

days_in_month(month, year) ==
  IF month = 2 THEN (IF (year % 4 = 0 /\ year % 100 # 0) \/ year % 400 = 0 THEN 29 ELSE 28)
  ELSE IF month \in {4, 6, 9, 11} THEN 30 ELSE 31

next_month(t) ==
  IF t.month + 1 <= 12 THEN [t EXCEPT !.day = 1, !.month = @ + 1]
  ELSE [t EXCEPT !.day = 1, !.month = 1, !.year = @ + 1]

next_day(t) ==
  LET w == [t EXCEPT !.hour = 0, !.weekday = IF @ >= 7 THEN 1 ELSE @ + 1]
  IN IF t.day + 1 <= days_in_month(t.month, t.year) THEN [w EXCEPT !.day = @ + 1]
     ELSE next_month(w)

advance_one_second(t) ==
  IF t.second + 1 < 60 THEN [t EXCEPT !.second = @ + 1]
  ELSE IF t.minute + 1 < 60 THEN [t EXCEPT !.second = 0, !.minute = @ + 1]
  ELSE IF t.hour + 1 < 24 THEN [t EXCEPT !.second = 0, !.minute = 0, !.hour = @ + 1]
  ELSE next_day([t EXCEPT !.second = 0, !.minute = 0])

-----------------------------------------------------------------------------
(* Register forms *)

encode(v, binary) == IF binary THEN v ELSE (v \div 10) * 16 + (v % 10)
decode(v, binary) == IF binary THEN v ELSE (v \div 16) * 10 + (v % 16)

read_hours(hour, binary, h24) ==
  LET h == IF hour % 12 = 0 THEN 12 ELSE hour % 12
  IN IF h24 THEN encode(hour, binary)
     ELSE encode(h, binary) + (IF hour >= 12 THEN 128 ELSE 0)

write_hours(v, binary, h24) ==
  IF h24 THEN decode(v, binary)
  ELSE (decode(v % 128, binary) % 12) + (IF v >= 128 THEN 12 ELSE 0)

-----------------------------------------------------------------------------
(* State: the calendar, the enables of register B, its SET bit, the flags of
   register C, the interrupt line, the alarm; day and rem are history, the true
   time while the clock runs *)

RtcInit ==
  \E s \in Starts :
    rtc = [time |-> from_unix(s[1], s[2]), enables |-> {}, set |-> FALSE, rate |-> TRUE,
           flags |-> {}, line |-> FALSE, alarm |-> <<0, 0, 0>>,
           day |-> s[1], rem |-> s[2], ticks |-> 0]

matches(alarm, v) == alarm >= 192 \/ alarm = v

alarm_matches(t, alarm) ==
  matches(alarm[1], t.second) /\ matches(alarm[2], t.minute) /\ matches(alarm[3], t.hour)

\* Flags latch; the line follows the enabled ones.
raise(r, new) ==
  LET asserted == \/ "UF" \in new /\ "UIE" \in r.enables
                  \/ "AF" \in new /\ "AIE" \in r.enables
                  \/ "PF" \in new /\ "PIE" \in r.enables
  IN [r EXCEPT !.flags = @ \cup new \cup (IF asserted THEN {"IRQF"} ELSE {}),
               !.line = @ \/ asserted]

tick_second(r) ==
  LET t == advance_one_second(r.time)
      new == {"UF"} \cup (IF alarm_matches(t, r.alarm) THEN {"AF"} ELSE {})
  IN IF r.set THEN r ELSE raise([r EXCEPT !.time = t], new)

\* A second of real time; while the guest holds SET, the clock stands still.
second_passes ==
  /\ rtc.ticks < MaxTicks
  /\ rtc' = [tick_second(rtc) EXCEPT
       !.ticks = @ + 1,
       !.day = IF rtc.set \/ rtc.rem < 86399 THEN @ ELSE @ + 1,
       !.rem = IF rtc.set THEN @ ELSE (@ + 1) % 86400]

\* The periodic timer, off when its rate is 0.
tick_periodic(r) == IF r.rate THEN raise(r, {"PF"}) ELSE r

\* Reading register C clears the flags and lowers the line.
read_c(r) == [r EXCEPT !.flags = {}, !.line = FALSE]

RtcNext ==
  \/ second_passes
  \/ rtc' = tick_periodic(rtc)
  \/ rtc' = read_c(rtc)
  \/ \E e \in SUBSET Enables, b \in BOOLEAN : rtc' = [rtc EXCEPT !.enables = e, !.set = b]
  \/ \E b \in BOOLEAN : rtc' = [rtc EXCEPT !.rate = b]
  \/ \E a \in Alarms : rtc' = [rtc EXCEPT !.alarm = a]

-----------------------------------------------------------------------------
(* Properties *)

\* The second-by-second calendar is the one computed from the day number, over
\* month ends, leap days and centuries (advance_one_second against from_unix).
CalendarExact == rtc.time = from_unix(rtc.day, rtc.rem)

\* The line rises only for a flag whose interrupt is enabled, and for the alarm
\* only when the time matches it (tick_second, tick_periodic).
RisingLineHasCause ==
  ~rtc.line /\ rtc'.line =>
    \/ "UF" \in rtc'.flags /\ "UIE" \in rtc.enables
    \/ "AF" \in rtc'.flags /\ "AIE" \in rtc.enables /\ alarm_matches(rtc'.time, rtc.alarm)
    \/ "PF" \in rtc'.flags /\ "PIE" \in rtc.enables

\* What the guest reads from a time register it can write back without moving
\* the clock, in every combination of forms (read_hours, write_hours, encode).
ReadsWriteBack ==
  \A binary, h24 \in BOOLEAN :
    /\ write_hours(read_hours(rtc.time.hour, binary, h24), binary, h24) = rtc.time.hour
    /\ \A f \in {"second", "minute", "day", "month", "weekday"} :
         decode(encode(rtc.time[f], binary), binary) = rtc.time[f]

=============================================================================
