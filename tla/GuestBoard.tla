----------------------------- MODULE GuestBoard -----------------------------
(***************************************************************************)
(* The board of the guest the boot hypervisor runs (linux_guest.rs): its   *)
(* 8259 pair and 8254 (vdev.rs), local APIC and PIIX interrupt routing     *)
(* (platform.rs), I/O APIC (ioapic.rs), UART and disk lines, and the run   *)
(* loop that polls them, posts one virtual interrupt at a time, arms the   *)
(* host timer for the next device deadline and waits out a HLT.  Time is   *)
(* counted in ticks of the time-stamp counter and -1 stands for no time,   *)
(* no vector and no line.                                                  *)
(***************************************************************************)
EXTENDS Integers, FiniteSets

CONSTANTS
  Platform,  \* the firmware guest: local APIC, I/O APIC and PIRQ routing exist
  Ops,       \* the kinds of instruction the guest executes
  Counts,    \* timer counts the guest loads
  Pics,      \* the PICs it programs: a subset of {"m", "s"}
  Imrs,      \* masks the guest writes to the master PIC
  Redirs,    \* pins and trigger modes the guest programs: <<pin, level>>
  Disks,     \* the disks attached: a subset of {0, 1}
  MaxTime,   \* bound on time
  Cap        \* the run's own deadline

VARIABLE b

None == -1
Pins == {2, 4, 16, 19}
\* The vector the guest gives each I/O APIC pin and its APIC timer, by priority class.
PinVector == [p \in Pins |-> CASE p = 2 -> 48 [] p = 4 -> 64 [] p = 16 -> 80 [] p = 19 -> 81]
TimerVector == 96
Least(S) == IF S = {} THEN None ELSE CHOOSE x \in S : \A y \in S : x <= y
Greatest(S) == IF S = {} THEN None ELSE CHOOSE x \in S : \A y \in S : x >= y
Class(v) == v \div 16

-----------------------------------------------------------------------------
\* One 8259: request, in-service and mask registers, edge/level control, input levels.
Pic8259(base) ==
  [irr |-> {}, isr |-> {}, imr |-> 0 .. 7, base |-> base, init_step |-> 0, auto_eoi |-> FALSE,
   elcr |-> {}, level |-> {}]
set_irq(c, irq, high) ==
  IF high
  THEN [c EXCEPT !.level = @ \cup {irq},
                 !.irr = IF irq \in c.elcr \/ irq \notin c.level THEN @ \cup {irq} ELSE @]
  ELSE [c EXCEPT !.level = @ \ {irq}, !.irr = IF irq \in c.elcr THEN @ \ {irq} ELSE @]
pending(c) ==
  LET req == Least(c.irr \ c.imr)
  IN IF req # None /\ \E i \in c.isr : i <= req THEN None ELSE req
ack(c, irq) ==
  [c EXCEPT !.irr = IF irq \in c.elcr THEN @ ELSE @ \ {irq},
            !.isr = IF c.auto_eoi THEN @ ELSE @ \cup {irq}]
\* The commands the guest uses: ICW1 (four words, cascaded) and the end of interrupt.
write_cmd(c, icw1) ==
  IF icw1
  THEN [c EXCEPT !.irr = {}, !.isr = {}, !.imr = {}, !.level = {}, !.auto_eoi = FALSE, !.init_step = 2]
  ELSE [c EXCEPT !.isr = @ \ {Least(@)}]
write_data(c, v) ==
  CASE c.init_step = 2 -> [c EXCEPT !.base = v.base, !.init_step = 3]
    [] c.init_step = 3 -> [c EXCEPT !.init_step = 4]
    [] c.init_step = 4 -> [c EXCEPT !.auto_eoi = v.auto_eoi, !.init_step = 0]
    [] OTHER -> [c EXCEPT !.imr = v.imr]

\* The pair: the slave's request is the master's input 2.
cascade(p) == [p EXCEPT !.m = set_irq(@, 2, pending(p.s) # None)]
PicPair_set_irq(p, irq, high) ==
  cascade(IF irq < 8 THEN [p EXCEPT !.m = set_irq(@, irq, high)]
                     ELSE [p EXCEPT !.s = set_irq(@, irq - 8, high)])
\* The input that would be acknowledged, 0 to 15.
pending_irq(p) ==
  LET i == pending(p.m)
  IN CASE i # 2 -> i
       [] OTHER -> IF pending(p.s) = None THEN None ELSE 8 + pending(p.s)
PicPair_ack(p, irq) ==
  IF irq < 8 THEN [p EXCEPT !.m = ack(@, irq)]
  ELSE cascade([p EXCEPT !.m = ack(@, 2), !.s = ack(@, irq - 8)])
vector_of(p, irq) == IF irq < 8 THEN p.m.base + irq ELSE p.s.base + irq - 8

-----------------------------------------------------------------------------
\* Channel 0 of the 8254.  A count of two bytes takes two writes.
Pit8254 == [periodic |-> FALSE, reload |-> 1, lo_pending |-> FALSE, next_fire |-> None]
pit_write_control(t, periodic) == [t EXCEPT !.lo_pending = FALSE, !.periodic = periodic, !.next_fire = None]
pit_write_data(t, count, now) ==
  IF ~t.lo_pending THEN [t EXCEPT !.lo_pending = TRUE]
  ELSE [t EXCEPT !.lo_pending = FALSE, !.reload = count, !.next_fire = now + count]
\* The first deadline of a periodic timer after now: missed periods are not made up.
NextPeriod(due, period, now) == due + ((now - due) \div period + 1) * period
pit_poll(t, now) ==
  [t EXCEPT !.next_fire = IF t.periodic THEN NextPeriod(@, t.reload, now) ELSE None]
Due(next, now) == next # None /\ now >= next

Uart16550 == [thri |-> FALSE, out2 |-> FALSE, thre_int |-> FALSE]
uart_irq_line(u) == u.thri /\ u.thre_int /\ u.out2

-----------------------------------------------------------------------------
\* The local APIC.  `timer` is the timer's LVT.
Lapic ==
  [enabled |-> FALSE, irr |-> {}, isr |-> {}, timer |-> "masked", lint0_masked |-> TRUE,
   init |-> 0, timer_next |-> None, tpr |-> 0]
raise(l, v) == [l EXCEPT !.irr = @ \cup {v}]
extint_enabled(l) == ~l.enabled \/ ~l.lint0_masked
lapic_pending(l) ==
  LET v == Greatest(l.irr)
      ppr == Greatest({Class(s) : s \in l.isr} \cup {l.tpr})
  IN IF l.enabled /\ v # None /\ Class(v) > ppr THEN v ELSE None
lapic_ack(l, v) == [l EXCEPT !.irr = @ \ {v}, !.isr = @ \cup {v}]
lapic_poll(l, now) ==
  IF ~Due(l.timer_next, now) THEN l
  ELSE [l EXCEPT !.irr = IF l.timer = "masked" THEN @ ELSE @ \cup {TimerVector},
                 !.timer_next = IF l.timer = "periodic" THEN NextPeriod(@, l.init, now) ELSE None]
lapic_next_deadline(l) == IF l.timer = "masked" THEN None ELSE l.timer_next
lapic_write_init(l, count, now) ==
  [l EXCEPT !.init = count, !.timer_next = IF count = 0 THEN None ELSE now + count]

\* The I/O APIC.
IoApic == [p \in Pins |-> [masked |-> TRUE, level |-> FALSE, remote_irr |-> FALSE, line |-> FALSE, irr |-> FALSE]]
service(d, p) ==
  LET e == d.io[p]
  IN CASE e.masked -> d
       [] ~e.masked /\ e.level /\ e.line /\ ~e.remote_irr ->
            [d EXCEPT !.io[p].remote_irr = TRUE, !.lapic = raise(@, PinVector[p])]
       [] ~e.masked /\ ~e.level /\ e.irr ->
            [d EXCEPT !.io[p].irr = FALSE, !.lapic = raise(@, PinVector[p])]
       [] OTHER -> d
ioapic_set_irq(d, p, high) ==
  LET e == d.io[p]
  IN service([d EXCEPT !.io[p].line = high,
                       !.io[p].irr = CASE ~e.level -> @ \/ (high /\ ~e.line)
                                       [] OTHER -> @ /\ high], p)
ioapic_write_register(d, p, level, masked) ==
  service([d EXCEPT !.io[p].level = level, !.io[p].masked = masked,
                    !.io[p].remote_irr = @ /\ level], p)
\* eoi, for the one pin that has the vector.
ioapic_eoi(d, v) ==
  LET hit == {p \in Pins : PinVector[p] = v /\ d.io[p].level /\ d.io[p].remote_irr}
      Retire(p) == service([d EXCEPT !.io[p].remote_irr = FALSE], p)
  IN IF hit = {} THEN d ELSE Retire(Least(hit))
lapic_write_eoi(d) ==
  LET v == Greatest(d.lapic.isr)
  IN IF v = None THEN d ELSE ioapic_eoi([d EXCEPT !.lapic.isr = @ \ {v}], v)

-----------------------------------------------------------------------------
\* The bus.
set_gsi(d, p, high) == IF Platform THEN ioapic_set_irq(d, p, high) ELSE d
pic_line(d, irq, high) == [d EXCEPT !.pic = PicPair_set_irq(@, irq, high)]

Slot(w) == 3 + w
pirq_irq(d, w) == IF Platform THEN d.route[w] ELSE 10 + w
release_line(d, w, routed) ==
  IF d.disk_irq[w] # routed /\ d.disk_irq[w] # None THEN pic_line(d, d.disk_irq[w], FALSE) ELSE d
enter_line(d, w, routed, high) ==
  IF routed = None THEN [d EXCEPT !.disk_irq[w] = None]
  ELSE pic_line([d EXCEPT !.disk_irq[w] = routed], routed, high)
drive_disk_irq(d, w, high) ==
  set_gsi(enter_line(release_line(d, w, pirq_irq(d, w)), w, pirq_irq(d, w), high), 16 + (Slot(w) % 4), high)
refresh_disk_irqs(d) == drive_disk_irq(drive_disk_irq(d, 0, d.cause[0]), 1, d.cause[1])

pulse(d, irq, p) == set_gsi(set_gsi(pic_line(pic_line(d, irq, TRUE), irq, FALSE), p, TRUE), p, FALSE)
\* owed: a tick of the PIT the guest has not taken, from either controller.
poll_pit(d) ==
  IF ~Due(d.pit.next_fire, d.now) THEN d
  ELSE pulse([d EXCEPT !.pit = pit_poll(@, d.now), !.owed = [pic |-> TRUE, apic |-> Platform]], 0, 2)
poll_lapic(d) == IF Platform THEN [d EXCEPT !.lapic = lapic_poll(@, d.now)] ELSE d
poll_uart(d) == set_gsi(pic_line(d, 4, uart_irq_line(d.uart)), 4, uart_irq_line(d.uart))
poll_devices(d) == refresh_disk_irqs(poll_uart(poll_pit(poll_lapic(d))))

apic_pending(d) == IF Platform THEN lapic_pending(d.lapic) ELSE None
extint_open(d) == ~Platform \/ extint_enabled(d.lapic)
pending_vector(d) ==
  CASE apic_pending(d) # None -> apic_pending(d)
    [] extint_open(d) /\ pending_irq(d.pic) # None -> vector_of(d.pic, pending_irq(d.pic))
    [] OTHER -> None
next_deadline(d) ==
  Least({d.pit.next_fire, IF Platform THEN lapic_next_deadline(d.lapic) ELSE None} \ {None})

-----------------------------------------------------------------------------
\* The VMCB's INT_CONTROL: a pending vector, whether it came from the APIC (so V_TPR gates
\* it), the input it stands for, and V_TPR.  Posting one writes the whole field.
NoVirq == [vector |-> None, apic |-> FALSE, irq |-> None]
post(d, vector, apic, irq) ==
  [d EXCEPT !.virq = [vector |-> vector, apic |-> apic, irq |-> irq], !.vtpr = 0]
ack_source(d) ==
  CASE apic_pending(d) # None ->
         post([d EXCEPT !.lapic = lapic_ack(@, apic_pending(d))], apic_pending(d), TRUE, None)
    [] apic_pending(d) = None /\ extint_open(d) /\ pending_irq(d.pic) # None ->
         post([d EXCEPT !.pic = PicPair_ack(@, pending_irq(d.pic))],
              vector_of(d.pic, pending_irq(d.pic)), FALSE, pending_irq(d.pic))
    [] OTHER -> d
inject(d) == IF d.virq.vector # None THEN d ELSE ack_source(d)

\* Mutant: an armed timer is left alone when an earlier deadline appears.
arm_always_first(d) ==
  IF next_deadline(d) = None \/ d.armed # None THEN d
  ELSE [d EXCEPT !.armed = next_deadline(d), !.hw = next_deadline(d)]
\* The host's TSC-deadline timer, armed again whenever the next deadline changed.
arm(d) ==
  IF next_deadline(d) = None \/ d.armed = next_deadline(d) THEN d
  ELSE [d EXCEPT !.armed = next_deadline(d), !.hw = next_deadline(d)]

Init ==
  b = [now |-> 0, phase |-> "head", stop |-> "none",
       pic |-> [m |-> Pic8259(8), s |-> Pic8259(112)], pit |-> Pit8254, uart |-> Uart16550,
       lapic |-> Lapic, io |-> IoApic, cause |-> [w \in {0, 1} |-> FALSE],
       route |-> [w \in {0, 1} |-> None], disk_irq |-> [w \in {0, 1} |-> None],
       virq |-> NoVirq, vtpr |-> 0, cr8 |-> 0, if |-> FALSE,
       armed |-> None, hw |-> None, irq |-> FALSE, owed |-> [pic |-> FALSE, apic |-> FALSE]]

\* The head of the loop: poll, post, arm, enter.
Head == b.phase = "head" /\ b' = [arm(inject(poll_devices(b))) EXCEPT !.phase = "guest"]

\* Time passes; the host timer may expire.
Later(d, t) ==
  [d EXCEPT !.now = t, !.irq = @ \/ (d.hw # None /\ t >= d.hw),
            !.hw = IF d.hw # None /\ t >= d.hw THEN None ELSE @]

\* A physical interrupt ends guest execution; the loop forgets what it armed.
Intr == b.phase = "guest" /\ b.irq /\ b' = [b EXCEPT !.irq = FALSE, !.armed = None, !.phase = "head"]

\* A HLT: dead with interrupts off, else the host polls until something is pending.
Halted ==
  /\ b.phase = "guest" /\ ~b.irq /\ "hlt" \in Ops
  /\ b' = IF b.if THEN [b EXCEPT !.phase = "halted"]
          ELSE [b EXCEPT !.phase = "stopped", !.stop = "DeadHalt"]
wake_at(d) ==
  CASE d.virq.vector # None \/ pending_vector(d) # None -> [d EXCEPT !.phase = "head"]
    [] d.virq.vector = None /\ pending_vector(d) = None /\ d.now > Cap ->
         [d EXCEPT !.phase = "stopped", !.stop = "Timeout"]
    [] d.virq.vector = None /\ pending_vector(d) = None /\ d.now <= Cap /\ next_deadline(d) = None ->
         [d EXCEPT !.phase = "stopped", !.stop = "IdleHalt"]
    [] OTHER -> Later(d, next_deadline(d))
wait_for_wake == b.phase = "halted" /\ next_deadline(b) <= MaxTime /\ b' = wake_at(poll_devices(b))

-----------------------------------------------------------------------------
\* What the guest does between exits.
Running == b.phase = "guest" /\ ~b.irq
Tick == Running /\ b.now < MaxTime /\ b' = Later(b, b.now + 1)
Flag == Running /\ b' = [b EXCEPT !.if = ~@]
WriteCr8 == Running /\ "cr8" \in Ops /\ \E c \in {0, 6} : b' = [b EXCEPT !.cr8 = c, !.vtpr = c]
CanTake(d) == d.if /\ d.virq.vector # None /\ (d.virq.apic => Class(d.virq.vector) > d.vtpr)
Take ==
  /\ Running /\ CanTake(b)
  /\ b' = [b EXCEPT !.virq = NoVirq, !.if = FALSE,
                    !.owed.pic = @ /\ b.virq.irq # 0,
                    !.owed.apic = @ /\ b.virq.vector # PinVector[2]]

\* An access that exits is carried out and the loop starts again.
Exit(op, d) == Running /\ op \in Ops /\ b' = [d EXCEPT !.phase = "head"]
PicPort(d, x, c) == [d EXCEPT !.pic = cascade([@ EXCEPT ![x] = c])]
OutPicCommand ==
  \E x \in Pics :
     \/ Exit("icw1", PicPort([b EXCEPT !.owed.pic = IF x = "m" THEN b.virq.irq = 0 ELSE @],
                             x, write_cmd(b.pic[x], TRUE)))
     \/ Exit("eoi", PicPort(b, x, write_cmd(b.pic[x], FALSE)))
OutPicData ==
  \E x \in Pics : \E m \in (IF x = "m" THEN Imrs ELSE {{}}) : \E auto \in (IF b.pic[x].init_step = 4 THEN BOOLEAN ELSE {FALSE}) :
     Exit("imr", PicPort(b, x, write_data(b.pic[x],
                                          [base |-> IF x = "m" THEN 32 ELSE 40, auto_eoi |-> auto, imr |-> m])))
OutElcr == Exit("elcr", PicPort(b, "s", [b.pic.s EXCEPT !.elcr = {2, 3}]))
OutPit ==
  \/ \E periodic \in BOOLEAN : Exit("pit", [b EXCEPT !.pit = pit_write_control(@, periodic)])
  \/ \E c \in Counts : Exit("pit", [b EXCEPT !.pit = pit_write_data(@, c, b.now)])
OutUart ==
  \/ Exit("uart", [b EXCEPT !.uart.thre_int = TRUE])
  \/ \E on \in BOOLEAN :
       Exit("uart", [b EXCEPT !.uart.thri = on, !.uart.thre_int = @ \/ (on /\ ~b.uart.thri)])
  \/ Exit("uart", [b EXCEPT !.uart.out2 = TRUE])
  \/ Exit("uart", [b EXCEPT !.uart.thre_int = @ /\ ~b.uart.thri])
\* A disk register access: a request completes, or the guest clears the interrupt's cause.
DiskAccess ==
  \E w \in Disks, on \in BOOLEAN : Exit("disk", refresh_disk_irqs([b EXCEPT !.cause[w] = on]))
\* The two disks' inputs are kept on different interrupts.
OutPirqRoute ==
  \E w \in {0, 1} : \E r \in {None, 10 + w} : Exit("route", [b EXCEPT !.route[w] = r])
LapicWrite ==
  /\ Platform
  /\ \/ Exit("svr", [b EXCEPT !.lapic.enabled = TRUE])
     \/ \E m \in BOOLEAN : Exit("lint0", [b EXCEPT !.lapic.lint0_masked = m])
     \/ \E t \in {"masked", "oneshot", "periodic"} : Exit("lvt", [b EXCEPT !.lapic.timer = t])
     \/ \E c \in Counts \cup {0} : Exit("lvt", [b EXCEPT !.lapic = lapic_write_init(@, c, b.now)])
     \/ Exit("lapic_eoi", lapic_write_eoi(b))
     \/ \E t \in {0, 6} : Exit("tpr", [b EXCEPT !.lapic.tpr = t])
IoApicWrite ==
  /\ Platform
  /\ \E r \in Redirs, m \in BOOLEAN : Exit("redir", ioapic_write_register(b, r[1], r[2], m))
\* A reset or power-off request ends the run.
StopRequest == Running /\ "reset" \in Ops /\ b' = [b EXCEPT !.phase = "stopped", !.stop = "Reset"]

Guest ==
  \/ Tick \/ Flag \/ WriteCr8 \/ Take \/ OutPicCommand \/ OutPicData \/ OutElcr \/ OutPit \/ OutUart
  \/ DiskAccess \/ OutPirqRoute \/ LapicWrite \/ IoApicWrite \/ StopRequest
Next == Head \/ Intr \/ Halted \/ wait_for_wake \/ Guest
Spec == Init /\ [][Next]_b

-----------------------------------------------------------------------------
\* Whenever the guest runs and a device has a deadline, the host timer is armed for it or
\* for an earlier time, or has already expired: no guest code can run past a tick.
TimersCovered ==
  b.phase = "guest" /\ next_deadline(b) # None
    => b.irq \/ (b.hw # None /\ b.hw <= next_deadline(b))

\* A tick of the PIT is taken by the guest once from each controller: until then it is
\* latched, masked or not, or posted, through end-of-interrupts, masking, routing and HLT.
TicksKept ==
  /\ b.owed.pic => 0 \in b.pic.m.irr \/ b.virq.irq = 0
  /\ b.owed.apic => b.io[2].irr \/ PinVector[2] \in b.lapic.irr \/ b.virq.vector = PinVector[2]

\* While the guest runs, the line of every disk and of the UART is what its cause says, on
\* the PIC input it is routed to and on its I/O APIC pin.
SharedLine == b.disk_irq[0] = b.disk_irq[1]
LinesFollowCauses ==
  b.phase = "guest" =>
    /\ \A w \in {0, 1} : b.disk_irq[w] # None /\ ~SharedLine =>
         (b.disk_irq[w] - 8 \in b.pic.s.level) = b.cause[w]
    /\ (4 \in b.pic.m.level) = uart_irq_line(b.uart)
    /\ Platform => \A w \in {0, 1} : b.io[16 + (Slot(w) % 4)].line = b.cause[w]

\* A level-triggered I/O APIC input that is high and unmasked has been raised and is not
\* raised again until its end of interrupt, and one waiting for its end of interrupt is
\* pending or in service in the local APIC: it can neither storm nor hang.
LevelsServed ==
  \A p \in Pins :
     /\ b.io[p].level /\ b.io[p].line /\ ~b.io[p].masked => b.io[p].remote_irr
     /\ b.io[p].remote_irr => PinVector[p] \in b.lapic.irr \cup b.lapic.isr

\* A guest is given up as idle only when nothing is pending and no timer that could wake
\* it runs; it is never left waiting past a device deadline.
IdleIsFinal ==
  b.stop = "IdleHalt" =>
    /\ b.if /\ b.virq.vector = None /\ next_deadline(b) = None
    /\ ~(b.owed.pic /\ 0 \notin b.pic.m.imr /\ b.pic.m.isr = {} /\ extint_open(b))
    /\ ~(Platform /\ b.lapic.enabled /\ b.lapic.isr = {} /\ b.lapic.tpr = 0 /\ b.lapic.irr # {})

\* "A local-APIC interrupt carries its vector's priority class and honours the guest's task
\* priority (CR8 ...): the hardware holds it back while the priority is at or above that
\* class" (linux_guest.rs:2898-2901).
TprHonoured == Running /\ CanTake(b) /\ b.virq.apic => Class(b.virq.vector) > b.cr8

=============================================================================
