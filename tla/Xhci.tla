-------------------------------- MODULE Xhci --------------------------------
(* The emulated xHCI controller, and the rings it shares with drivers. *)
EXTENDS Integers, FiniteSets, SequencesExt

(***************************************************************************)
(* Device slots of the emulated xHCI controller (usb/controller.rs): the   *)
(* commands a guest's driver issues, root-hub hot plug from the host side, *)
(* the device models that move between ports and slots, and the transfers  *)
(* of each endpoint.  One port stands for one attached device's model; the *)
(* rings are guest-resident, as the VM's device bus builds the controller. *)
(***************************************************************************)
CONSTANTS
  SLOTS,      \* device slots 1 .. SLOTS
  PORTS,      \* root-hub ports 0 .. PORTS - 1
  DCIS,       \* device context indices beyond CONTROL_DCI
  TDS         \* what a driver puts on a control ring: Setup "in" or "out", "datain",
              \* "dataout", "status", and "normal", which does not belong there

VARIABLE hc

CONTROL_DCI == 1
None == -1
Slots == 1 .. SLOTS
Ports == 0 .. PORTS - 1
Dcis == DCIS \cup {CONTROL_DCI}

\* An endpoint's context (whether configured, and which ring of the driver's it names),
\* the internal ring, the saved guest cursor (the ring it walks), the published EP state.
NoEndpoint == [config |-> 0, ring |-> "none", cursor |-> 0, ctx |-> "Disabled"]

\* asked: control requests the device
\* saw since the last Setup stage; done: that request's Status stage succeeded; hcrst: the
\* driver reset the controller; homed: the device attached to the port has a model, and
\* its slot was not addressed to another port since.
Init ==
  hc = [connected |-> [p \in Ports |-> FALSE], parked |-> [p \in Ports |-> FALSE],
        slots |-> [s \in Slots |-> FALSE], slot_ports |-> [s \in Slots |-> None],
        models |-> [s \in Slots |-> None], ctx |-> [s \in Slots |-> "Disabled"],
        ep |-> [s \in Slots |-> [e \in Dcis |-> NoEndpoint]],
        stage |-> [s \in Slots |-> "none"], asked |-> [s \in Slots |-> 0],
        done |-> [s \in Slots |-> FALSE], homed |-> [p \in Ports |-> FALSE], hcrst |-> FALSE]

Map(d, s, F(_)) == [d EXCEPT !.ep[s] = [e \in Dcis |-> F(e)]]

-----------------------------------------------------------------------------
enable_slot(d) ==
  LET free == {s \in Slots : ~d.slots[s]}
  IN IF free = {} THEN d ELSE [d EXCEPT !.slots[CHOOSE s \in free : \A t \in free : s <= t] = TRUE]

\* The model returns to its port, so that a driver which rebinds finds it again.
disable_slot(d, s) ==
  IF ~d.slots[s] THEN d
  ELSE LET e == Map(d, s, LAMBDA i : NoEndpoint)
       IN [e EXCEPT !.slots[s] = FALSE, !.models[s] = None, !.slot_ports[s] = None,
                    !.parked = [p \in Ports |-> IF p = d.slot_ports[s] THEN d.models[s] # None ELSE @[p]],
                    !.stage[s] = "none", !.ctx[s] = "Disabled"]

\* Takes the model parked on the port, if one is there, and publishes EP0 as Running.
\* The driver keeps one EP0 ring per slot, so the saved cursor stays good.
address_device(d, s, p, bsr) ==
  IF ~d.slots[s] THEN d
  ELSE LET b == IF ~d.parked[p] THEN d
                ELSE [d EXCEPT !.parked[p] = FALSE, !.models[s] = p, !.slot_ports[s] = p,
                               !.homed = [q \in Ports |-> @[q] /\ q # d.models[s]]]
       IN [b EXCEPT !.ep[s][CONTROL_DCI] = [@ EXCEPT !.config = 1, !.ctx = "Running"],
                    !.ctx[s] = IF bsr THEN "Default" ELSE "Addressed"]

Dropped(d, s, e) == e > CONTROL_DCI /\ d.ep[s][e].config # 0

\* The deconfigure form leaves the guest cursors; adding the endpoint again drops them.
deconfigure(d, s) ==
  [Map(d, s, LAMBDA e : IF Dropped(d, s, e) THEN [NoEndpoint EXCEPT !.cursor = d.ep[s][e].cursor]
                        ELSE IF e > CONTROL_DCI THEN [d.ep[s][e] EXCEPT !.ring = "none"] ELSE d.ep[s][e])
   EXCEPT !.ctx[s] = "Addressed"]

\* Drops are applied before adds; an endpoint both dropped and added ends up added, and
\* its output context is then cleared by the drop.  g names the added ring.
configure_endpoint(d, s, add, drop, g) ==
  IF ~d.slots[s] THEN d
  ELSE [Map(d, s, LAMBDA e :
              IF e \in add THEN [config |-> g, ring |-> "ok", cursor |-> 0,
                                 ctx |-> IF e \in drop THEN "Disabled" ELSE "Running"]
              ELSE IF e \in drop THEN NoEndpoint ELSE d.ep[s][e])
        EXCEPT !.ctx[s] = "Configured"]

evaluate_context(d, s) ==
  IF ~d.slots[s] \/ d.ep[s][CONTROL_DCI].config = 0 THEN d
  ELSE [d EXCEPT !.ep[s][CONTROL_DCI].ctx = "Running"]

stop_endpoint(d, s, e) ==
  IF ~d.slots[s] THEN d ELSE [d EXCEPT !.ep[s][e].ctx = "Stopped"]

reset_endpoint(d, s, e) ==
  IF ~d.slots[s] \/ d.ep[s][e].ring = "none" THEN d
  ELSE [d EXCEPT !.ep[s][e].ring = "ok", !.ep[s][e].ctx = "Running"]

set_tr_dequeue_pointer(d, s, e, g) ==
  IF ~d.slots[s] \/ (d.ep[s][e].ring = "none" /\ d.ep[s][e].config = 0) THEN d
  ELSE [d EXCEPT !.ep[s][e] = [@ EXCEPT !.ring = IF @ = "none" THEN @ ELSE "ok",
                                        !.config = IF @ = 0 THEN 0 ELSE g, !.cursor = 0]]

reset_device(d, s) ==
  IF ~d.slots[s] THEN d
  ELSE [Map(d, s, LAMBDA e : IF e = CONTROL_DCI THEN d.ep[s][e]
                             ELSE IF Dropped(d, s, e) THEN NoEndpoint
                             ELSE [d.ep[s][e] EXCEPT !.ring = "none", !.cursor = 0])
        EXCEPT !.stage[s] = "none", !.ctx[s] = "Default"]

-----------------------------------------------------------------------------
\* Halting needs an internal ring; EP0 has none, so only its output context says Halted.
stall_endpoint(d, s, e) ==
  [d EXCEPT !.ep[s][e].ring = IF @ = "none" THEN @ ELSE "halted", !.ep[s][e].ctx = "Halted",
            !.stage[s] = IF e = CONTROL_DCI THEN "none" ELSE @]

\* A device that is not there answers Error.
Results(d, s) == IF d.models[s] = None THEN {"Error"} ELSE {"Data", "Ack", "Stall", "Error"}
ask(d, s) == IF d.models[s] = None THEN d ELSE [d EXCEPT !.asked[s] = @ + 1]

\* The device answers an IN request at its Data stage, and an OUT one at its Status stage.
control_data(d, s, dir_in, r) ==
  IF d.stage[s] # (IF dir_in THEN "in" ELSE "out") THEN [d EXCEPT !.stage[s] = "none"]
  ELSE IF ~dir_in THEN [d EXCEPT !.stage[s] = "collected"]
  ELSE LET a == ask([d EXCEPT !.stage[s] = "none"], s)
       IN CASE r = "Data" -> [a EXCEPT !.stage[s] = "responded"]
            [] r = "Stall" -> stall_endpoint(a, s, CONTROL_DCI)
            [] OTHER -> a

control_status(d, s, r) ==
  LET n == [d EXCEPT !.stage[s] = "none"]
  IN CASE d.stage[s] = "responded" -> [n EXCEPT !.done[s] = TRUE]
       [] d.stage[s] = "none" -> n
       [] OTHER -> LET a == ask(n, s)
                   IN CASE r \in {"Ack", "Data"} -> [a EXCEPT !.done[s] = TRUE]
                        [] r = "Stall" -> stall_endpoint(a, s, CONTROL_DCI)
                        [] OTHER -> a

control_td(d, s, td, r) ==
  CASE td \in {"in", "out"} -> [d EXCEPT !.stage[s] = td, !.asked[s] = 0, !.done[s] = FALSE]
    [] td = "datain" -> control_data(d, s, TRUE, r)
    [] td = "dataout" -> control_data(d, s, FALSE, r)
    [] td = "status" -> control_status(d, s, r)
    [] OTHER -> d

normal_td(d, s, e, r) == IF r = "Stall" THEN stall_endpoint(d, s, e) ELSE d

\* One TD of process_guest_transfer_ring: the cursor starts where the context points.
CanTransfer(d, s, e) == d.slots[s] /\ d.ep[s][e].ring # "halted" /\ d.ep[s][e].config # 0
walk(d, s, e) == [d EXCEPT !.ep[s][e].cursor = IF @ = 0 THEN d.ep[s][e].config ELSE @]

-----------------------------------------------------------------------------
\* attach_device takes the lowest free port; a full event queue makes it report failure
\* after the port was marked connected, so that no model is parked.
attach_device(d, posted) ==
  LET free == {p \in Ports : ~d.connected[p]}
      p == CHOOSE q \in free : \A t \in free : q <= t
  IN [d EXCEPT !.connected[p] = TRUE, !.parked[p] = IF posted THEN TRUE ELSE @, !.homed[p] = posted]

disconnect_device(d, p) ==
  LET bound == {s \in Slots : d.slot_ports[s] = p}
  IN [d EXCEPT !.connected[p] = FALSE, !.parked[p] = FALSE, !.homed[p] = FALSE,
               !.slot_ports = [s \in Slots |-> IF s \in bound THEN None ELSE @[s]],
               !.models = [s \in Slots |-> IF s \in bound THEN None ELSE @[s]]]

\* HCRST clears the operational registers, the ports among them, and nothing else; the
\* driver then brings fresh device contexts.
write_usbcmd_hcrst(d) ==
  [d EXCEPT !.connected = [p \in Ports |-> FALSE], !.hcrst = TRUE,
            !.ctx = [s \in Slots |-> "Disabled"],
            !.ep = [s \in Slots |-> [e \in Dcis |-> [@[s][e] EXCEPT !.ctx = "Disabled"]]]]

Other(g) == IF g = 1 THEN 2 ELSE 1
Command ==
  \/ hc' = enable_slot(hc)
  \/ \E s \in Slots :
       \/ hc' = disable_slot(hc, s)
       \/ \E p \in Ports, bsr \in BOOLEAN : hc' = address_device(hc, s, p, bsr)
       \/ hc.slots[s] /\ hc' = deconfigure(hc, s)
       \/ \E add \in SUBSET DCIS, drop \in SUBSET DCIS, g \in 1 .. 2 :
            hc' = configure_endpoint(hc, s, add, drop, g)
       \/ hc' = evaluate_context(hc, s)
       \/ \E e \in Dcis : hc' \in {stop_endpoint(hc, s, e), reset_endpoint(hc, s, e)}
       \/ \E e \in DCIS, g \in 1 .. 2 : hc' = set_tr_dequeue_pointer(hc, s, e, g)
       \/ hc' = reset_device(hc, s)

Transfer ==
  \E s \in Slots, e \in Dcis :
    /\ CanTransfer(hc, s, e)
    /\ \E r \in Results(hc, s) :
         LET w == walk(hc, s, e)
         IN \/ e = CONTROL_DCI /\ \E td \in TDS : hc' = control_td(w, s, td, r)
            \/ e # CONTROL_DCI /\ hc' = normal_td(w, s, e, r)

HotPlug ==
  \/ (\E p \in Ports : ~hc.connected[p]) /\ \E posted \in BOOLEAN : hc' = attach_device(hc, posted)
  \/ \E p \in Ports : hc.connected[p] /\ hc' = disconnect_device(hc, p)

Reset == hc' = write_usbcmd_hcrst(hc)

Next == Command \/ Transfer \/ HotPlug \/ Reset

-----------------------------------------------------------------------------
\* A device model has one home: parked on its port or bound to the one slot that knows
\* its port, never both, never two slots and never lost, and only a connected port has
\* one, whatever order commands and hot plug take (until a controller reset forgets the ports).
ModelsOneHome ==
  /\ \A s \in Slots : hc.models[s] = hc.slot_ports[s] /\ (hc.models[s] # None => hc.slots[s])
  /\ ~hc.hcrst => \A p \in Ports :
       LET bound == {s \in Slots : hc.slot_ports[s] = p}
       IN /\ Cardinality(bound) + (IF hc.parked[p] THEN 1 ELSE 0) <= 1
          /\ ~hc.connected[p] => bound = {} /\ ~hc.parked[p]
          /\ hc.homed[p] => hc.parked[p] \/ bound # {}

\* A slot that was disabled leaves nothing to the driver that enables it next: no
\* endpoint, ring position, half-done control transfer, device or published state.
DisabledSlotsClean ==
  \A s \in Slots : ~hc.slots[s] =>
    /\ hc.models[s] = None /\ hc.stage[s] = "none" /\ hc.ctx[s] = "Disabled"
    /\ \A e \in Dcis : hc.ep[s][e].config = 0 /\ hc.ep[s][e].ring = "none" /\ hc.ep[s][e].ctx = "Disabled"

\* The controller walks the ring the endpoint's context names, through stops, moves of
\* the dequeue pointer, and endpoints dropped and added again.
CursorFollowsContext ==
  \A s \in Slots, e \in Dcis :
    hc.slots[s] /\ hc.ep[s][e].config # 0 /\ hc.ep[s][e].cursor # 0
      => hc.ep[s][e].cursor = hc.ep[s][e].config

\* An endpoint the driver can see as Running is configured and not stuck halted.
RunningIsLive ==
  \A s \in Slots, e \in Dcis :
    hc.ep[s][e].ctx = "Running" => hc.ep[s][e].config # 0 /\ hc.ep[s][e].ring # "halted"

\* A control transfer is put to the device at most once, and one that completes was put
\* to it exactly once, wherever stalls, resets and replugging fall between its stages.
ControlOnce ==
  /\ \A s \in Slots : hc.asked[s] <= 1 /\ (hc.stage[s] \in {"in", "out", "collected"} => hc.asked[s] = 0)
  /\ \A s \in Slots : hc.stage[s] = "responded" \/ hc.done[s] => hc.asked[s] = 1

-----------------------------------------------------------------------------
(***************************************************************************)
(* The rings between a guest's xHCI driver and the emulated controller     *)
(* (usb/xhci/ring.rs, event.rs, doorbell.rs; usb/controller.rs): the       *)
(* command ring the controller walks with a cycle bit, its internal event  *)
(* queue, and the event ring in guest memory with its segment table.  The  *)
(* driver's side is external: it follows the ring protocol.                *)
(***************************************************************************)
CONSTANTS
  N,          \* TRBs of the command ring, the last one a Link back to the first
  Queue,      \* capacity of the internal event queue
  Segments,   \* sizes of the guest's event ring segments
  BURST,      \* COMMAND_BURST_LIMIT
  HN, HE,     \* TRBs of the host driver's command and transfer rings, and of its event ring
  POLLS,      \* polls before a wait of the host driver gives up
  MaxTrbs, Changes   \* bounds on what it submits and on the changes of a port

VARIABLES x, host

EventSlots == FoldLeft(+, 0, Segments)
\* A TRB is a Link, never written, a port change, or the command written at an index.
Link == -1
Zero == -2
Port == -3

\* cmd, ev: guest memory; issued: commands written and not executed; due: events
\* posted and not read by the driver; drv: the driver's enqueue index, cycle,
\* the index it knows the controller has passed, and its event reading place.
RingInit ==
  x = [cmd |-> [i \in 0 .. N - 1 |-> [c |-> FALSE, v |-> IF i = N - 1 THEN Link ELSE Zero]],
       ev |-> [i \in 0 .. EventSlots - 1 |-> [c |-> FALSE, v |-> Zero]],
       drv |-> [enq |-> 0, pcs |-> TRUE, room |-> 0, at |-> 0, ccs |-> TRUE],
       doorbell |-> FALSE, cursor |-> <<>>,
       queue |-> <<>>, seg |-> 1, idx |-> 0, cycle |-> TRUE, erdp |-> 0,
       issued |-> <<>>, due |-> <<>>]

-----------------------------------------------------------------------------
\* The driver writes a command and, at the end, hands over the Link TRB (external).
Write(d) ==
  LET e == d.drv.enq
      last == e + 1 = N - 1
      trb == [c |-> d.drv.pcs, v |-> e]
  IN [d EXCEPT !.cmd = [i \in DOMAIN @ |-> IF i = e THEN trb
                                           ELSE IF last /\ i = N - 1 THEN [@[i] EXCEPT !.c = d.drv.pcs] ELSE @[i]],
               !.drv.enq = IF last THEN 0 ELSE e + 1, !.drv.pcs = IF last THEN ~@ ELSE @,
               !.issued = Append(@, trb.v)]
CanWrite(d) == (d.drv.enq + 1) % (N - 1) # d.drv.room

\* Mutant: the Link TRB is followed without toggling the cycle state.
fetch_no_toggle(d) ==
  LET at(c) == d.cmd[c.deq]
      hop(c) == IF at(c).c = c.cycle /\ at(c).v = Link THEN [deq |-> 0, cycle |-> c.cycle] ELSE c
      c == hop(d.cursor)
  IN [c |-> c, v |-> IF at(c).c = c.cycle /\ at(c).v # Link THEN <<at(c).v>> ELSE <<>>]

\* GuestRingCursor::fetch: the next TRB the driver has handed over, if any; a Link with
\* Toggle Cycle is followed on the way (this ring has one, so one hop is enough).
fetch(d) ==
  LET at(c) == d.cmd[c.deq]
      hop(c) == IF at(c).c = c.cycle /\ at(c).v = Link THEN [deq |-> 0, cycle |-> ~c.cycle] ELSE c
      c == hop(d.cursor)
  IN [c |-> c, v |-> IF at(c).c = c.cycle /\ at(c).v # Link THEN <<at(c).v>> ELSE <<>>]

\* EventRing::post_event and post_event_trb: nothing is queued when full.
post_event(d, v) ==
  IF Len(d.queue) = Queue - 1 THEN d
  ELSE [d EXCEPT !.queue = Append(@, v), !.due = Append(@, v)]

\* One round of process_command_ring.
execute_next(d) ==
  LET f == fetch(d)
      e == [d EXCEPT !.cursor = f.c]
  IN IF f.v = <<>> THEN e
     ELSE post_event([e EXCEPT !.cursor.deq = @ + 1,
                               !.issued = SelectSeq(@, LAMBDA v : v # f.v[1])], f.v[1])

process_command_ring(d) ==
  FoldLeft(LAMBDA e, i : execute_next(e),
           [d EXCEPT !.cursor = IF @ = <<>> THEN [deq |-> 0, cycle |-> TRUE] ELSE @],
           [i \in 1 .. BURST |-> i])

-----------------------------------------------------------------------------
address_of(s, i) == FoldLeft(+, 0, SubSeq(Segments, 1, s - 1)) + i
position_after(s, i) ==
  IF i + 1 < Segments[s] THEN <<s, i + 1>>
  ELSE IF s + 1 <= Len(Segments) THEN <<s + 1, 0>> ELSE <<1, 0>>

\* GuestEventRing::write_event of the oldest queued event.
write_event(d) ==
  LET next == position_after(d.seg, d.idx)
  IN IF d.queue = <<>> \/ address_of(next[1], next[2]) = d.erdp THEN d
     ELSE [d EXCEPT !.ev[address_of(d.seg, d.idx)] = [c |-> d.cycle, v |-> Head(d.queue)],
                    !.cycle = IF next = <<1, 0>> THEN ~@ ELSE @,
                    !.seg = next[1], !.idx = next[2], !.queue = Tail(@)]

flush_to_guest(d) == FoldLeft(LAMBDA e, i : write_event(e), d, d.queue)

\* The run loop's service after an exit; nothing happens while the driver has the
\* controller stopped, and its doorbells stay latched.
service_doorbells(d) ==
  flush_to_guest(IF d.doorbell THEN process_command_ring([d EXCEPT !.doorbell = FALSE]) ELSE d)

\* The driver reads one event it owns, and learns how far the controller got (external).
Visible(d) == d.ev[d.drv.at].c = d.drv.ccs
Consume(d) ==
  LET v == d.ev[d.drv.at].v
      wrap == d.drv.at + 1 = EventSlots
  IN [d EXCEPT !.drv.at = (@ + 1) % EventSlots, !.drv.ccs = IF wrap THEN ~@ ELSE @,
               !.drv.room = IF v = Port THEN @ ELSE (v + 1) % (N - 1),
               !.due = Tail(@)]

Issue == CanWrite(x) /\ x' = Write(x)
\* DoorbellArray::write: the doorbell is latched until serviced.
Ring == x' = [x EXCEPT !.doorbell = TRUE]
Service == x' = service_doorbells(x)
\* connect_device / disconnect_device: a port status change event, flushed later.
RingHotPlug == x' = post_event(x, Port)
FlushEvents == x' = flush_to_guest(x)
Read == Visible(x) /\ x' = Consume(x)
WriteErdp == x' = [x EXCEPT !.erdp = x.drv.at]

RingNext == Issue \/ Ring \/ Service \/ RingHotPlug \/ FlushEvents \/ Read \/ WriteErdp

-----------------------------------------------------------------------------
\* The controller executes commands in the order the driver wrote them, each once, round
\* the Link TRB: what it would fetch next is the oldest command not executed, and nothing
\* when there is none.
CommandsInOrder ==
  LET d == [x EXCEPT !.cursor = IF @ = <<>> THEN [deq |-> 0, cycle |-> TRUE] ELSE @]
  IN fetch(d).v = SubSeq(x.issued, 1, IF x.issued = <<>> THEN 0 ELSE 1)

\* The driver reads events in the order they were posted, none twice and none overwritten
\* across segments and wraps: what it owns is the oldest unread event, and what it cannot
\* see is still queued.
EventsInOrder ==
  LET seen == Len(x.due) - Len(x.queue)
  IN /\ Visible(x) <=> seen > 0
     /\ seen > 0 => x.ev[x.drv.at].v = Head(x.due)
     /\ x.queue = SubSeq(x.due, seen + 1, Len(x.due))

-----------------------------------------------------------------------------
(***************************************************************************)
(* The boot hypervisor's own driver of a physical controller (enlil-boot's *)
(* xhci.rs): bring-up, the command ring, one endpoint's transfer ring, the *)
(* event ring and port events.  The controller is external: it follows the *)
(* xHCI ring protocol, executes in order, and answers when it likes.       *)
(***************************************************************************)
Regions == {"cmd", "evt", "erst", "dcbaa"}
Which == {"cmd", "xfer"}

\* A TRB: its type, the command or transfer it belongs to, its cycle bit.
Trb(type, td, cycle) == [type |-> type, td |-> td, cycle |-> cycle]
Zeroed == Trb("zero", 0, FALSE)
ProducerRing == [trbs |-> [i \in 0 .. HN - 1 |-> IF i = HN - 1 THEN Trb("link", 0, FALSE) ELSE Zeroed],
                 enqueue |-> 0, cycle |-> TRUE]

\* Reaching the Link TRB hands it over in the old cycle and starts again in the other.
round_link(r) ==
  IF r.enqueue # HN - 1 THEN r
  ELSE [r EXCEPT !.trbs[HN - 1].cycle = r.cycle, !.cycle = ~@, !.enqueue = 0]
enqueue_raw(r, type, td) ==
  [r EXCEPT !.trbs[r.enqueue] = Trb(type, td, r.cycle), !.enqueue = @ + 1]
enqueue_trb(r, type, td) == enqueue_raw(round_link(r), type, td)

\* Setup, data if there is any, and status, which alone interrupts; or one Normal TRB.
control_trbs(data) == IF data THEN <<"setup", "data", "status">> ELSE <<"setup", "status">>
Event_TRBs == {"command", "status", "normal"}

HostInit ==
  host = [stage |-> "reset", held |-> {}, err |-> "none",
          ring |-> [w \in Which |-> ProducerRing],
          evt |-> [trbs |-> [i \in 0 .. HE - 1 |-> [v |-> <<"zero">>, cycle |-> FALSE]], dequeue |-> 0, cycle |-> TRUE],
          sent |-> [w \in Which |-> <<>>], wait |-> [on |-> "none", td |-> 0, at |-> 0, polls |-> 0],
          wrong |-> [w \in Which |-> FALSE], unanswered |-> FALSE, late |-> FALSE, astray |-> FALSE, overrun |-> FALSE, read |-> 0, reused |-> FALSE, swallowed |-> FALSE, view |-> FALSE,
          hc |-> [run |-> FALSE, set |-> FALSE, erdp |-> 0, at |-> 0, pcs |-> TRUE,
                  deq |-> [w \in Which |-> 0], ccs |-> [w \in Which |-> TRUE], bell |-> {}, ran |-> [w \in Which |-> 0],
                  port |-> FALSE, change |-> FALSE, announce |-> FALSE, sent |-> 0]]

\* Op::reset, and the four DMA pages: an error drops the pages allocated so far.
start_reset(h, ok) == IF ok THEN [h EXCEPT !.stage = "alloc"] ELSE [h EXCEPT !.stage = "failed", !.err = "reset"]
alloc_pages(h, ok) ==
  IF ~ok THEN [h EXCEPT !.stage = "failed", !.err = "dma", !.held = {}]
  ELSE IF h.held = Regions THEN [h EXCEPT !.stage = "program"]
  ELSE [h EXCEPT !.held = @ \cup {CHOOSE r \in Regions \ @ : TRUE}]
\* The registers name the pages, the controller is told to run, and then polled.
start_program(h, page4k) ==
  IF ~page4k THEN [h EXCEPT !.stage = "failed", !.err = "page", !.held = {}]
  ELSE [h EXCEPT !.stage = "run", !.hc.set = TRUE]
start_run(h) ==
  IF h.hc.run THEN [h EXCEPT !.stage = "up"] ELSE [h EXCEPT !.stage = "failed", !.err = "halted", !.held = {}]

\* The TRBs of a command or a transfer, then the doorbell, then the wait.
Outstanding(h, w) == Len(h.sent[w]) - h.hc.ran[w]
submit(h, w, types) ==
  LET td == Len(h.sent[w]) + 1
      at(r) == (IF r.enqueue = HN - 1 THEN 0 ELSE r.enqueue)
      one == enqueue_trb(h.ring[w], types[1], td)
      two == IF Len(types) > 1 THEN enqueue_trb(one, types[2], td) ELSE one
      all == IF Len(types) > 2 THEN enqueue_trb(two, types[3], td) ELSE two
  IN [h EXCEPT !.ring[w] = all, !.sent[w] = @ \o [i \in DOMAIN types |-> td], !.hc.bell = @ \cup {w},
               !.overrun = @ \/ Outstanding(h, w) + Len(types) > HN - 1,
               !.reused = @ \/ (w = "cmd" /\ td - h.read > HN - 1),
               !.late = @ \/ (w = "xfer" /\ h.unanswered),
               !.wait = [on |-> w, td |-> td, at |-> at(h.ring[w]), polls |-> POLLS]]
submit_command(h) == submit(h, "cmd", <<"command">>)
control_transfer(h, data) == submit(h, "xfer", control_trbs(data))
bulk_transfer(h) == submit(h, "xfer", <<"normal">>)

\* ConsumerRing::try_dequeue, and the event ring's dequeue pointer written back.
Present(h) == h.evt.trbs[h.evt.dequeue].cycle = h.evt.cycle
try_dequeue(h) ==
  LET wrap == h.evt.dequeue + 1 = HE
      next == IF wrap THEN 0 ELSE h.evt.dequeue + 1
  IN [h EXCEPT !.evt.dequeue = next, !.evt.cycle = IF wrap THEN ~@ ELSE @, !.hc.erdp = next,
               !.read = @ + IF h.evt.trbs[h.evt.dequeue].v[1] = "cmd" THEN 1 ELSE 0]

\* A command completion is matched by its TRB's address, a transfer by slot and endpoint;
\* every other event goes to a callback that does nothing.
matches(h, v) ==
  \/ h.wait.on = "cmd" /\ v[1] = "cmd" /\ v[2] = h.wait.at
  \/ h.wait.on = "xfer" /\ v[1] = "xfer"
Idle == [on |-> "none", td |-> 0, at |-> 0, polls |-> 0]
wait_poll(h) ==
  LET v == h.evt.trbs[h.evt.dequeue].v
      e == IF Present(h) THEN try_dequeue(h) ELSE h
  IN IF Present(h) /\ matches(h, v)
     THEN [e EXCEPT !.wait = Idle, !.wrong[h.wait.on] = @ \/ v[3] # h.wait.td]
     ELSE [e EXCEPT !.wait = IF h.wait.polls = 1 THEN Idle ELSE [h.wait EXCEPT !.polls = @ - 1],
                    !.unanswered = @ \/ (h.wait.on = "xfer" /\ h.wait.polls = 1),
                    !.swallowed = @ \/ (Present(h) /\ v[1] = "port")]

\* Between commands the caller polls, and handles a port event: the port's state is read,
\* then its change bits are acknowledged.
handle_port_event(h) == [h EXCEPT !.view = h.hc.port, !.hc.change = FALSE]
poll_event(h) ==
  LET v == h.evt.trbs[h.evt.dequeue].v
  IN IF v[1] = "port" THEN handle_port_event(try_dequeue(h)) ELSE try_dequeue(h)

\* External: the controller starts, walks a ring whose doorbell rang, posts events while
\* the event ring has room, and announces a change of its port.
HcEvent(h, v) ==
  LET wrap == h.hc.at + 1 = HE
  IN [h EXCEPT !.evt.trbs[h.hc.at] = [v |-> v, cycle |-> h.hc.pcs], !.hc.at = IF wrap THEN 0 ELSE @ + 1,
               !.hc.pcs = IF wrap THEN ~@ ELSE @]
HcRoom(h) == (h.hc.at + 1) % HE # h.hc.erdp
HcExecute(h, w) ==
  LET d == h.hc.deq[w]
      t == h.ring[w].trbs[d]
      e == [h EXCEPT !.hc.deq[w] = d + 1, !.hc.ran[w] = @ + 1,
                        !.astray = @ \/ h.hc.ran[w] = Len(h.sent[w]) \/ h.sent[w][h.hc.ran[w] + 1] # t.td]
  IN IF t.cycle # h.hc.ccs[w] THEN [h EXCEPT !.hc.bell = @ \ {w}]
     ELSE IF t.type = "link" THEN [h EXCEPT !.hc.deq[w] = 0, !.hc.ccs[w] = ~@]
     ELSE IF t.type \in Event_TRBs THEN HcEvent(e, <<w, d, t.td>>) ELSE e

Spare(h) == Len(h.sent["cmd"]) + Len(h.sent["xfer"]) < MaxTrbs

HostNext ==
  \/ \E ok \in BOOLEAN :
       \/ host.stage = "reset" /\ host' = start_reset(host, ok)
       \/ host.stage = "alloc" /\ host' = alloc_pages(host, ok)
       \/ host.stage = "program" /\ host' = start_program(host, ok)
  \/ host.stage = "run" /\ host' = start_run(host)
  \/ /\ host.stage = "up" /\ host.wait.on = "none"
     /\ \/ Spare(host) /\ host' = submit_command(host)
        \/ \E data \in BOOLEAN : Spare(host) /\ host' = control_transfer(host, data)
        \/ Spare(host) /\ host' = bulk_transfer(host)
        \/ Present(host) /\ host' = poll_event(host)
  \/ host.wait.on # "none" /\ host' = wait_poll(host)
  \/ host.hc.set /\ ~host.hc.run /\ host' = [host EXCEPT !.hc.run = TRUE]
  \/ \E w \in host.hc.bell : HcRoom(host) /\ host' = HcExecute(host, w)
  \/ /\ host.stage = "up" /\ host.hc.sent < Changes
     /\ host' = [host EXCEPT !.hc.port = ~@, !.hc.announce = @ \/ ~host.hc.change, !.hc.change = TRUE, !.hc.sent = @ + 1]
  \/ host.hc.announce /\ HcRoom(host) /\ host' = HcEvent([host EXCEPT !.hc.announce = FALSE], <<"port">>)

-----------------------------------------------------------------------------
\* While the driver never has more TRBs outstanding than a ring holds, the controller
\* executes every TRB once, a transfer's one after the other, in the order of submission,
\* and has executed them all when it stops looking at the ring: the cycle bit and the Link\n\* TRB separate what is handed over from what is left of the
\* round before (ProducerRing::enqueue_raw, xhci.rs 838).
HostTrbsInOrder ==
  ~host.overrun => /\ ~host.astray
                   /\ \A w \in Which \ host.hc.bell : host.hc.ran[w] = Len(host.sent[w])

\* A command reported complete is the one submitted, however many timed out before it, as
\* long as its place in the ring is not one whose earlier completion is still unread; a transfer is reported by its own event unless an earlier one was still outstanding
\* when it was submitted (wait_command_completion 1705, wait_transfer 1853).
HostAnswersOwn ==
  /\ ~host.reused => ~host.wrong["cmd"]
  /\ ~host.late => ~host.wrong["xfer"]

\* What the caller knows of a port is its state, or the change is still on its way, unless
\* a wait dropped the event (handle_port_event 1945).
HostPortsKnown ==
  ~host.swallowed /\ ~host.hc.change => host.view = host.hc.port

\* Memory a started controller was given stays allocated, unless the driver gave up
\* waiting for it to start (Controller::start 1575).
HostMemoryHeld ==
  host.hc.run /\ host.err # "halted" => host.held = Regions

=============================================================================
