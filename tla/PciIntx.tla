------------------------------ MODULE PciIntx ------------------------------
(* The INTx wires of the standard PC (enlil-core device_bus.rs): the SMBus   *)
(* controller (00:1F.3, INTB#) and the xHCI controller (00:04.0, INTA#)      *)
(* drive their lines through the PIRQ router into the 8259s and the I/O      *)
(* APIC, whose level-triggered pin interrupts a CPU until it is served.      *)
EXTENDS Naturals

CONSTANTS
  Uses,      \* which devices the guest drives: a set of subsets of {"smbus", "xhci"}
  Routes     \* values the guest programs into the PIRQ routing registers

VARIABLE x

Slot == [smbus |-> 31, xhci |-> 4]
IntPin == [smbus |-> 2, xhci |-> 1]
Unrouted == 255

\* PirqRouter::pirq_line
pirq_line(slot, pin) == (slot + pin - 1) % 4

\* is_pci_routable_irq
Routable == (3 .. 7) \cup (9 .. 12) \cup {14, 15}

\* PirqRouter::isa_irq of the device's line: bit 7 disables, bits 3:0 select.
device_isa_irq(regs, d) ==
  LET r == regs[pirq_line(Slot[d], IntPin[d])]
  IN IF r < 128 /\ r % 16 \in Routable THEN r % 16 ELSE Unrouted

\* PirqRouter::device_gsi
device_gsi(d) == 16 + pirq_line(Slot[d], IntPin[d])

\* SmbusHost::interrupt_level and the controller's intx_level.
Level(s, d) == s[d].enable /\ s[d].status

\* PIRQ_DEFAULT_IRQS
Defaults == [l \in 0 .. 3 |-> <<11, 10, 5, 6>>[l + 1]]

\* standard_pc_complete_seeded, and a guest that has unmasked the GSIs as
\* level-triggered and set the routed IRQs level in the ELCR.
Init ==
  \E u \in Uses :
    x = [used |-> u, smbus |-> [enable |-> FALSE, status |-> FALSE],
         xhci |-> [enable |-> FALSE, status |-> FALSE],
         regs |-> Defaults, pic |-> {}, pin |-> {}, remote |-> {}, irr |-> {}, isr |-> {},
         stale |-> {}]

\* IoApic::set_irq and clear_irq on a level-triggered, unmasked pin.
apic_line(s, gsi, level) ==
  IF ~ level THEN [s EXCEPT !.pin = @ \ {gsi}]
  ELSE IF gsi \in s.pin THEN s
  ELSE [s EXCEPT !.pin = @ \cup {gsi}, !.remote = @ \cup {gsi}, !.irr = @ \cup {gsi}]

\* DualPic::set_irq_level on a line in level mode: the request follows it.
set_irq_level(s, irq, level) ==
  IF irq = Unrouted THEN s
  ELSE [s EXCEPT !.pic = IF level THEN @ \cup {irq} ELSE @ \ {irq}]

\* route_pci_intx: the routes are read now; the 8259 line, then the I/O APIC pin.
route_pci_intx(s, d, level) ==
  [apic_line(set_irq_level(s, device_isa_irq(s.regs, d), level), device_gsi(d), level)
     EXCEPT !.stale = @ \ {d}]

Synced(s, d) == route_pci_intx(s, d, Level(s, d))

\* SmbusHost::pio_write: HST_CNT with or without INTREN and START (which ends
\* in DEV_ERR at once), or the status bit cleared; the line is synced.
SmbusWrite ==
  /\ "smbus" \in x.used
  /\ \/ \E intren, start \in BOOLEAN :
          x' = Synced([x EXCEPT !.smbus = [enable |-> intren, status |-> @.status \/ start]], "smbus")
     \/ x' = Synced([x EXCEPT !.smbus.status = FALSE], "smbus")

\* XhciMmio::mmio_write to IMAN: IE is stored, IP is write-1-to-clear.
XhciWrite ==
  /\ "xhci" \in x.used
  /\ \E ie, clear \in BOOLEAN :
       x' = Synced([x EXCEPT !.xhci = [enable |-> ie, status |-> @.status /\ ~ clear]], "xhci")

\* connect_usb_device, attach_usb_device: the event may not fit the ring, and
\* then the line is left alone.
connect_usb_device ==
  /\ "xhci" \in x.used
  /\ \E posted \in BOOLEAN :
       x' = IF posted THEN Synced([x EXCEPT !.xhci.status = TRUE], "xhci") ELSE x

\* service_usb_dma: events or not, the line is driven to the level.
service_usb_dma ==
  /\ "xhci" \in x.used
  /\ \E posted \in BOOLEAN :
       x' = Synced([x EXCEPT !.xhci.status = @ \/ posted], "xhci")

\* The guest programs PIRQ[A-D]_ROUT in the LPC bridge: no line is driven.
Reroute ==
  \E d \in x.used, r \in Routes :
    LET l == pirq_line(Slot[d], IntPin[d])
    IN x' = [x EXCEPT !.regs[l] = r, !.stale = @ \cup {e \in x.used : pirq_line(Slot[e], IntPin[e]) = l}]

\* A CPU takes the interrupt, and ends it: InterruptController::eoi.
Take == \E g \in x.irr \ x.isr : x' = [x EXCEPT !.irr = @ \ {g}, !.isr = @ \cup {g}]
Eoi ==
  \E g \in x.isr :
    LET again == {g} \cap x.remote \cap x.pin
    IN x' = [x EXCEPT !.isr = @ \ {g}, !.remote = (@ \ {g}) \cup again, !.irr = @ \cup again]

Next ==
  SmbusWrite \/ XhciWrite \/ connect_usb_device \/ service_usb_dma \/ Reroute \/ Take \/ Eoi

Spec == Init /\ [][Next]_x

----------------------------------------------------------------------------
\* A device with its interrupt enabled and a cause to report has an interrupt
\* on its way to a CPU, or being served, after which the I/O APIC looks at the
\* pin again (route_pci_intx, IoApic::eoi).
Heard == \A d \in x.used : Level(x, d) => device_gsi(d) \in x.irr \cup x.isr

\* The 8259 line a device is routed to carries its level, from the first time
\* the device drives it after a change of route (route_pci_intx).
PicFollows ==
  \A d \in x.used \ x.stale :
    LET irq == device_isa_irq(x.regs, d)
    IN irq # Unrouted => (irq \in x.pic) = Level(x, d)
=============================================================================
