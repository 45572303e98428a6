------------------------------ MODULE UsbHost ------------------------------
(***************************************************************************)
(* The host's side of USB in enlil-devices/src/usb, next to the virtual    *)
(* controller of Xhci:                                                     *)
(*                                                                         *)
(*   trb    xhci/trb.rs, transfer.rs: the 16-byte blocks of the rings;     *)
(*   ctx    xhci/context.rs, types.rs: contexts in guest memory, and what  *)
(*          numbers stand for speeds, classes and endpoint types;          *)
(*   td     xhci/ring.rs, controller.rs: the controller's own rings and    *)
(*          the descriptors gathered from them;                            *)
(*   port   xhci/registers.rs: a root port's status register;              *)
(*   regs   controller.rs: which register an offset of the window names;   *)
(*   mon    sysfs.rs, xhci_scan.rs: what a scan tells the monitor;         *)
(*   iso    iso.rs: one isochronous transfer and the library that may      *)
(*          finish it late;                                                *)
(*   fwd    forwarder.rs: a real device's endpoints and interfaces.        *)
(***************************************************************************)
EXTENDS Integers, Sequences, FiniteSets, FiniteSetsExt, SequencesExt

CONSTANTS
    Slots, Dcis,        \* sample slot and endpoint numbers of commands and events
    Pointers,           \* sample addresses, as sets of bits
    Lengths,            \* sample lengths, as sets of bits
    Speeds,             \* speed numbers of attached devices
    RING_SIZE,          \* entries of one of the controller's own rings
    MaxBlocks,          \* blocks submitted to it
    Ports,              \* number of root ports of the register window
    Paths,              \* the places a device can be plugged in
    MAX_ADDRESS,        \* addresses the monitor can give out
    PacketSize,         \* bytes of an isochronous packet
    MaxData,            \* most bytes of an isochronous transfer
    Interfaces, Configs \* interfaces and configurations of a forwarded device

VARIABLES trb, ctx, td, port, regs, mon, iso, fwd

-----------------------------------------------------------------------------
(***************************************************************************)
(* Transfer request blocks.  A word is the set of its bits that are one,   *)
(* so that an "or" is a union and a shift moves the members.               *)
(***************************************************************************)
Bits(v, at) == {at + i : i \in {j \in 0..15 : (v \div (2 ^ j)) % 2 = 1}}
Field(word, at, width) == SumSet({2 ^ i : i \in {j \in 0..(width - 1) : (at + j) \in word}})
Flag(b, at) == IF b THEN {at} ELSE {}
Moved(word, at) == {i + at : i \in word}

Trb == [parameter : SUBSET (0..63), status : SUBSET (0..31), control : SUBSET (0..31)]
zeroed == [parameter |-> {}, status |-> {}, control |-> {}]

\* TrbType: the numbers of the types that exist.
TrbType == [Normal |-> 1, SetupStage |-> 2, DataStage |-> 3, StatusStage |-> 4, Isoch |-> 5,
            Link |-> 6, EventData |-> 7, NoOp |-> 8, EnableSlotCommand |-> 9,
            DisableSlotCommand |-> 10, AddressDeviceCommand |-> 11,
            ConfigureEndpointCommand |-> 12, EvaluateContextCommand |-> 13,
            ResetEndpointCommand |-> 14, StopEndpointCommand |-> 15,
            SetTrDequeuePointerCommand |-> 16, ResetDeviceCommand |-> 17, NoOpCommand |-> 23,
            TransferEvent |-> 32, CommandCompletionEvent |-> 33, PortStatusChangeEvent |-> 34,
            HostControllerEvent |-> 37, Unknown |-> 0]

\* TrbCompletionCode: likewise.
CompletionCode == [Success |-> 1, DataBufferError |-> 2, BabbleDetectedError |-> 3,
                   UsbTransactionError |-> 4, TrbError |-> 5, StallError |-> 6,
                   ResourceError |-> 7, BandwidthError |-> 8, NoSlotsAvailableError |-> 9,
                   ShortPacket |-> 13, RingUnderrun |-> 14, RingOverrun |-> 15,
                   ParameterError |-> 17, ContextStateError |-> 19, CommandRingStopped |-> 24,
                   CommandAborted |-> 25, Stopped |-> 26, Invalid |-> 0]

\* from_raw: every other number is Unknown, or Invalid.
type_from_raw(raw) == IF \E t \in DOMAIN TrbType : TrbType[t] = raw
                      THEN CHOOSE t \in DOMAIN TrbType : TrbType[t] = raw ELSE "Unknown"
code_from_raw(raw) == IF \E c \in DOMAIN CompletionCode : CompletionCode[c] = raw
                      THEN CHOOSE c \in DOMAIN CompletionCode : CompletionCode[c] = raw
                      ELSE "Invalid"

is_transfer(t) == TrbType[t] \in 1..8
is_command(t) == TrbType[t] \in 9..23
is_event(t) == TrbType[t] \in 32..37

\* A block of the given type and cycle bit, with nothing else in it yet.
new_trb(t, cycle) == [zeroed EXCEPT !.control = Bits(TrbType[t], 10) \cup Flag(cycle, 0)]
decoded_type(b) == type_from_raw(Field(b.control, 10, 6))

\* Every message has every field; the ones its kind does not carry are empty.
Msg(kind) == [kind |-> kind, slot |-> 0, dci |-> 0, ptr |-> {}, len |-> {}, flag |-> FALSE,
              code |-> "Invalid"]

\* CommandTrb::to_trb
command_to_trb(m, cycle) ==
    LET t == new_trb(m.kind, cycle)
        slot == Bits(m.slot, 24)
        both == slot \cup Bits(m.dci, 16)
    IN  CASE m.kind \in {"EnableSlotCommand", "NoOpCommand"} -> t
          [] m.kind \in {"DisableSlotCommand", "ResetDeviceCommand"} ->
               [t EXCEPT !.control = @ \cup slot]
          [] m.kind \in {"AddressDeviceCommand", "EvaluateContextCommand"} ->
               [t EXCEPT !.control = @ \cup slot, !.parameter = m.ptr]
          [] m.kind = "ConfigureEndpointCommand" ->
               [t EXCEPT !.control = @ \cup slot \cup Flag(m.flag, 9), !.parameter = m.ptr]
          [] m.kind \in {"ResetEndpointCommand", "StopEndpointCommand"} ->
               [t EXCEPT !.control = @ \cup both]
          [] m.kind = "SetTrDequeuePointerCommand" ->
               [t EXCEPT !.control = @ \cup both,
                         !.parameter = (m.ptr \ (0..3)) \cup Flag(m.flag, 0)]

\* CommandTrb::from_trb: a block of any other type is no command.
command_from_trb(b) ==
    LET kind == decoded_type(b)
        slot == [Msg(kind) EXCEPT !.slot = Field(b.control, 24, 8)]
        both == [slot EXCEPT !.dci = Field(b.control, 16, 5)]
    IN  CASE kind \in {"EnableSlotCommand", "NoOpCommand"} -> Msg(kind)
          [] kind \in {"DisableSlotCommand", "ResetDeviceCommand"} -> slot
          [] kind \in {"AddressDeviceCommand", "EvaluateContextCommand"} ->
               [slot EXCEPT !.ptr = b.parameter]
          [] kind = "ConfigureEndpointCommand" ->
               [slot EXCEPT !.ptr = b.parameter, !.flag = 9 \in b.control]
          [] kind \in {"ResetEndpointCommand", "StopEndpointCommand"} -> both
          [] kind = "SetTrDequeuePointerCommand" ->
               [both EXCEPT !.ptr = b.parameter \ (0..3), !.flag = 0 \in b.parameter]
          [] OTHER -> Msg("Unknown")

\* EventTrb::to_trb
event_to_trb(m, cycle) ==
    LET t == new_trb(m.kind, cycle)
        code == Bits(CompletionCode[m.code], 24)
    IN  CASE m.kind = "TransferEvent" ->
               [t EXCEPT !.parameter = m.ptr, !.status = (m.len \cap (0..23)) \cup code,
                         !.control = @ \cup Bits(m.slot, 24) \cup Bits(m.dci, 16)]
          [] m.kind = "CommandCompletionEvent" ->
               [t EXCEPT !.parameter = m.ptr, !.status = code,
                         !.control = @ \cup Bits(m.slot, 24)]
          [] m.kind = "PortStatusChangeEvent" -> [t EXCEPT !.parameter = Bits(m.slot, 24)]
          [] m.kind = "HostControllerEvent" -> [t EXCEPT !.status = code]

\* EventTrb::from_trb; the port of a port event is kept in the slot field here.
event_from_trb(b) ==
    LET kind == decoded_type(b)
        code == code_from_raw(Field(b.status, 24, 8))
        slot == Field(b.control, 24, 8)
    IN  CASE kind = "TransferEvent" ->
               [Msg(kind) EXCEPT !.ptr = b.parameter, !.code = code,
                                 !.len = b.status \cap (0..23), !.slot = slot,
                                 !.dci = Field(b.control, 16, 5)]
          [] kind = "CommandCompletionEvent" ->
               [Msg(kind) EXCEPT !.ptr = b.parameter, !.code = code, !.slot = slot]
          [] kind = "PortStatusChangeEvent" ->
               [Msg(kind) EXCEPT !.slot = Field(b.parameter, 24, 8)]
          [] kind = "HostControllerEvent" -> [Msg(kind) EXCEPT !.code = code]
          [] OTHER -> Msg("Unknown")

\* NormalTrb::to_trb; "flag" is its chain bit, "code" unused.
normal_to_trb(m, ioc, isp, cycle) ==
    [new_trb("Normal", cycle) EXCEPT
        !.parameter = m.ptr, !.status = m.len \cap (0..16),
        !.control = @ \cup Flag(ioc, 5) \cup Flag(isp, 2) \cup Flag(m.flag, 4)]

TrbInit == trb = [kind |-> "Unknown", slot |-> 0, dci |-> 0, ptr |-> {}, len |-> {}, flag |-> FALSE,
                  code |-> "Success", cycle |-> FALSE]
TrbNext ==
    /\ trb.kind = "Unknown"
    /\ trb' \in [kind : DOMAIN TrbType, slot : Slots, dci : Dcis, ptr : Pointers, len : Lengths,
                 flag : BOOLEAN, code : {"Success", "Stopped"}, cycle : BOOLEAN]

\* What a message keeps of the fields that its kind carries.
Carried(m) ==
    LET with == [f \in {"slot", "dci", "ptr", "len", "flag", "code"} |->
           CASE f = "slot" -> m.kind \notin {"EnableSlotCommand", "NoOpCommand", "HostControllerEvent"}
             [] f = "dci" -> m.kind \in {"ResetEndpointCommand", "StopEndpointCommand",
                                         "SetTrDequeuePointerCommand", "TransferEvent"}
             [] f = "ptr" -> m.kind \in {"AddressDeviceCommand", "ConfigureEndpointCommand",
                                         "EvaluateContextCommand", "SetTrDequeuePointerCommand",
                                         "TransferEvent", "CommandCompletionEvent"}
             [] f = "len" -> m.kind = "TransferEvent"
             [] f = "flag" -> m.kind \in {"ConfigureEndpointCommand", "SetTrDequeuePointerCommand"}
             [] f = "code" -> m.kind \in {"TransferEvent", "CommandCompletionEvent",
                                          "HostControllerEvent"}]
    IN  [kind |-> m.kind,
         slot |-> IF with["slot"] THEN m.slot ELSE 0,
         dci |-> IF with["dci"] THEN m.dci ELSE 0,
         ptr |-> IF ~with["ptr"] THEN {}
                 ELSE IF m.kind = "SetTrDequeuePointerCommand" THEN m.ptr \ (0..3) ELSE m.ptr,
         len |-> IF with["len"] THEN m.len \cap (0..23) ELSE {},
         flag |-> with["flag"] /\ m.flag,
         code |-> IF with["code"] THEN m.code ELSE "Invalid"]

\* The two ends of a ring agree: every command and every event survives the
\* trip through its sixteen bytes with all the fields its kind has, no field
\* reaches into another or into the cycle bit, a command is never taken for an
\* event or for a transfer, and numbers nobody assigned decode to Unknown
\* (CommandTrb and EventTrb, to_trb and from_trb).
BlocksExact ==
    LET cmd == command_to_trb(trb, trb.cycle)
        ev == event_to_trb(trb, trb.cycle)
    IN  /\ is_command(trb.kind) =>
             /\ cmd \in Trb /\ (0 \in cmd.control <=> trb.cycle)
             /\ command_from_trb(cmd) = Carried(trb)
             /\ event_from_trb(cmd).kind = "Unknown"
        /\ is_event(trb.kind) =>
             /\ ev \in Trb /\ (0 \in ev.control <=> trb.cycle)
             /\ event_from_trb(ev) = Carried(trb)
             /\ command_from_trb(ev).kind = "Unknown"
        /\ trb.kind # "Unknown" =>
             Cardinality({p \in 1..3 : <<is_transfer(trb.kind), is_command(trb.kind),
                                         is_event(trb.kind)>>[p]}) = 1
        /\ \A ioc, isp \in BOOLEAN :
             LET n == normal_to_trb(trb, ioc, isp, trb.cycle)
             IN  /\ decoded_type(n) = "Normal" /\ n.status = trb.len \cap (0..16)
                 /\ n.control \cap {0, 2, 4, 5} =
                      Flag(trb.cycle, 0) \cup Flag(isp, 2) \cup Flag(trb.flag, 4) \cup Flag(ioc, 5)

-----------------------------------------------------------------------------
(***************************************************************************)
(* Contexts and numbers.  A context entry is eight words.                  *)
(***************************************************************************)
CONTEXT_SIZE == 32
MAX_DCI == 31
input_context_entry_offset(dci) == CONTEXT_SIZE * (1 + dci)
device_context_entry_offset(dci) == CONTEXT_SIZE * dci

InputControlContext == [drop_flags : SUBSET (0..31), add_flags : SUBSET (0..31)]
adds(c, dci) == dci <= MAX_DCI /\ dci \in c.add_flags
drops(c, dci) == dci <= MAX_DCI /\ dci \in c.drop_flags

EndpointType == [IsochOut |-> 1, BulkOut |-> 2, InterruptOut |-> 3, Control |-> 4, IsochIn |-> 5,
                 BulkIn |-> 6, InterruptIn |-> 7]
endpoint_type_from_raw(raw) == {t \in DOMAIN EndpointType : EndpointType[t] = raw}
is_in(t) == t \in {"IsochIn", "BulkIn", "InterruptIn"}
dci_is_in(dci) == dci % 2 = 1
dci_endpoint_number(dci) == dci \div 2
valid_for_dci(t, dci) ==
    CASE dci = 0 -> FALSE
      [] dci = 1 -> t = "Control"
      [] OTHER -> dci <= MAX_DCI /\ t # "Control" /\ (is_in(t) <=> dci_is_in(dci))

SlotContext == [route_string : SUBSET (0..19), speed : 0..15, context_entries : 0..31,
                root_hub_port_number : 0..255, usb_device_address : 0..255, slot_state : 0..31]
slot_to_words(c) ==
    [w \in 0..7 |->
        CASE w = 0 -> (c.route_string \cap (0..19)) \cup Bits(c.speed % 16, 20)
                        \cup Bits(c.context_entries % 32, 27)
          [] w = 1 -> Bits(c.root_hub_port_number, 16)
          [] w = 3 -> Bits(c.usb_device_address, 0) \cup Bits(c.slot_state % 32, 27)
          [] OTHER -> {}]
slot_parse(d) ==
    [route_string |-> d[0] \cap (0..19), speed |-> Field(d[0], 20, 4),
     context_entries |-> Field(d[0], 27, 5), root_hub_port_number |-> Field(d[1], 16, 8),
     usb_device_address |-> Field(d[3], 0, 8), slot_state |-> Field(d[3], 27, 5)]

\* device_context_pointer: no context for slot 0 or where the guest wrote none;
\* the low six bits of what it wrote are dropped.
device_context_pointer(slot, stored) ==
    IF slot = 0 \/ stored \ (0..5) = {} THEN {} ELSE {stored \ (0..5)}

\* SetupPacket, its eight bytes.
SetupPacket == [request_type : 0..255, request : 0..255, value : 0..65535, index : 0..65535,
                length : 0..65535]
to_le_u64(p) == UNION {Bits(p.request_type, 0), Bits(p.request, 8), Bits(p.value, 16),
                       Bits(p.index, 32), Bits(p.length, 48)}
from_le_u64(raw) == [request_type |-> Field(raw, 0, 8), request |-> Field(raw, 8, 8),
                     value |-> Field(raw, 16, 16), index |-> Field(raw, 32, 16),
                     length |-> Field(raw, 48, 16)]
TransferType == [NoData |-> 0, OutData |-> 2, InData |-> 3]
transfer_type_from_raw(raw) == {t \in DOMAIN TransferType : TransferType[t] = raw}

\* TransferTrb: the blocks of a transfer ring, with every field of any of them.
Transfer(kind) == [kind |-> kind, packet |-> {}, tt |-> "NoData", buffer |-> {}, length |-> {},
                   dir_in |-> FALSE, chain |-> FALSE, ioc |-> FALSE, isp |-> FALSE]
transfer_to_trb(t, cycle) ==
    LET b == [new_trb(t.kind, cycle) EXCEPT !.control = @ \cup Flag(t.ioc, 5)]
        data == [b EXCEPT !.parameter = t.buffer, !.status = t.length \cap (0..16),
                          !.control = @ \cup Flag(t.chain, 4)]
    IN  CASE t.kind = "SetupStage" ->
               [b EXCEPT !.parameter = t.packet, !.status = Bits(8, 0),
                         !.control = @ \cup {6} \cup Bits(TransferType[t.tt], 16)]
          [] t.kind = "DataStage" -> [data EXCEPT !.control = @ \cup Flag(t.dir_in, 16)]
          [] t.kind = "StatusStage" -> [b EXCEPT !.control = @ \cup Flag(t.dir_in, 16)]
          [] t.kind = "Normal" -> [data EXCEPT !.control = @ \cup Flag(t.isp, 2)]
          [] t.kind = "NoOp" -> b
transfer_from_trb(b) ==
    LET kind == decoded_type(b)
        t == [Transfer(kind) EXCEPT !.ioc = 5 \in b.control]
        data == [t EXCEPT !.buffer = b.parameter, !.length = b.status \cap (0..16),
                          !.chain = 4 \in b.control]
        types == transfer_type_from_raw(Field(b.control, 16, 2))
    IN  CASE kind = "SetupStage" -> IF 6 \in b.control
                                    THEN {[t EXCEPT !.packet = b.parameter, !.tt = tt] : tt \in types}
                                    ELSE {}
          [] kind = "DataStage" -> {[data EXCEPT !.dir_in = 16 \in b.control]}
          [] kind = "StatusStage" -> {[t EXCEPT !.dir_in = 16 \in b.control]}
          [] kind = "Normal" -> {[data EXCEPT !.isp = 2 \in b.control]}
          [] kind = "NoOp" -> {t}
          [] OTHER -> {}
chains(t) == t.kind \in {"DataStage", "Normal"} /\ t.chain

\* types.rs and xhci_scan.rs: speeds and classes by number.
DeviceSpeed == {"Low", "Full", "High", "Super", "SuperPlus"}
xhci_speed_id(s) == CASE s = "Full" -> 1 [] s = "Low" -> 2 [] s = "High" -> 3 [] s = "Super" -> 4
                      [] s = "SuperPlus" -> 5
decode_port_speed(id) == CASE id = 1 -> {"Full"} [] id = 2 -> {"Low"} [] id = 3 -> {"High"}
                           [] id = 4 -> {"Super"} [] id = 5 -> {"SuperPlus"} [] OTHER -> {}
is_superspeed(s) == s \in {"Super", "SuperPlus"}
UsbDeviceClass == [PerInterface |-> 0, Audio |-> 1, Cdc |-> 2, Hid |-> 3, Physical |-> 5,
                   Image |-> 6, Printer |-> 7, MassStorage |-> 8, Hub |-> 9,
                   VendorSpecific |-> 255]
class_from_code(c) == LET named == {n \in DOMAIN UsbDeviceClass : UsbDeviceClass[n] = c}
                      IN  IF named = {} THEN <<"Other", c>> ELSE <<CHOOSE n \in named : TRUE, 0>>
class_code(k) == IF k[1] = "Other" THEN k[2] ELSE UsbDeviceClass[k[1]]

CtxInit == ctx = [slot |-> [route_string |-> {}, speed |-> 0, context_entries |-> 0,
                            root_hub_port_number |-> 0, usb_device_address |-> 0, slot_state |-> 0],
                  setup |-> [request_type |-> 0, request |-> 0, value |-> 0, index |-> 0, length |-> 0],
                  transfer |-> Transfer("NoOp"), dci |-> 0, n |-> 0, flags |-> {0, 31}, stored |-> {},
                  chosen |-> FALSE]
CtxNext ==
    /\ ~ctx.chosen
    /\ \/ \E v \in {0, 5, 31, 300}, route \in Pointers, dci \in 0..34, stored \in Pointers \cup {{0, 4}} :
            ctx' = [ctx EXCEPT !.chosen = TRUE, !.dci = dci, !.stored = stored, !.n = v % 256,
                               !.flags = {31, dci % 32},
                               !.slot = [route_string |-> route, speed |-> v, context_entries |-> v,
                                         root_hub_port_number |-> v % 256, slot_state |-> v,
                                         usb_device_address |-> (v + 1) % 256]]
       \/ \E a \in {0, 128, 255}, b \in {0, 257, 65535}, c \in {1, 32768} :
            ctx' = [ctx EXCEPT !.chosen = TRUE, !.setup = [request_type |-> a, request |-> 255 - a,
                                                           value |-> b, index |-> c, length |-> 65535 - b]]
       \/ \E k \in {"SetupStage", "DataStage", "StatusStage", "Normal", "NoOp"}, ptr \in Pointers,
            len \in Lengths, tt \in DOMAIN TransferType, f \in SUBSET {"in", "chain", "ioc", "isp"} :
            ctx' = [ctx EXCEPT !.chosen = TRUE,
                      !.transfer = [kind |-> k, packet |-> ptr, tt |-> tt, buffer |-> ptr, length |-> len,
                                    dir_in |-> "in" \in f, chain |-> "chain" \in f, ioc |-> "ioc" \in f,
                                    isp |-> "isp" \in f]]

\* What the two sides of a transfer ring and of a context in guest memory say to
\* each other is what they meant: blocks, request packets and slot contexts
\* survive their bytes with each field cut to its width and none reaching into
\* the next; entries of a context do not overlap and an input context's come
\* one entry later; an endpoint type that is accepted for an index has its
\* direction, and no index has both the control type and another; the scan's
\* numbers for a speed are the ones the virtual port writes.
ContextsExact ==
    LET s == ctx.slot
        t == ctx.transfer
        carries == [Transfer(t.kind) EXCEPT
                      !.ioc = t.ioc,
                      !.packet = IF t.kind = "SetupStage" THEN t.packet ELSE {},
                      !.tt = IF t.kind = "SetupStage" THEN t.tt ELSE "NoData",
                      !.buffer = IF t.kind \in {"DataStage", "Normal"} THEN t.buffer ELSE {},
                      !.length = IF t.kind \in {"DataStage", "Normal"} THEN t.length \cap (0..16) ELSE {},
                      !.dir_in = t.dir_in /\ t.kind \in {"DataStage", "StatusStage"},
                      !.chain = t.chain /\ t.kind \in {"DataStage", "Normal"},
                      !.isp = t.isp /\ t.kind = "Normal"]
    IN  /\ slot_parse(slot_to_words(s)) =
             [s EXCEPT !.route_string = @ \cap (0..19), !.speed = @ % 16, !.context_entries = @ % 32,
                       !.slot_state = @ % 32]
        /\ slot_parse(slot_to_words(s)) \in SlotContext
        /\ ctx.setup \in SetupPacket /\ from_le_u64(to_le_u64(ctx.setup)) = ctx.setup
        /\ transfer_from_trb(transfer_to_trb(t, TRUE)) = {carries}
        /\ command_from_trb(transfer_to_trb(t, TRUE)).kind = "Unknown"
        /\ chains(carries) => carries.kind \in {"DataStage", "Normal"}
        /\ \A d \in 0..MAX_DCI :
             /\ input_context_entry_offset(d) = device_context_entry_offset(d + 1)
             /\ device_context_entry_offset(d + 1) - device_context_entry_offset(d) = 4 * Cardinality(0..7)
        /\ LET c == [drop_flags |-> ctx.flags, add_flags |-> {ctx.dci % 32}]
           IN  c \in InputControlContext /\ (drops(c, ctx.dci) <=> ctx.dci <= MAX_DCI)
               /\ (adds(c, ctx.dci) <=> ctx.dci <= MAX_DCI)
        /\ \A k \in DOMAIN EndpointType :
             /\ endpoint_type_from_raw(EndpointType[k]) = {k}
             /\ valid_for_dci(k, ctx.dci) =>
                  /\ ctx.dci \in 1..MAX_DCI
                  /\ k # "Control" => (is_in(k) <=> dci_is_in(ctx.dci)) /\ dci_endpoint_number(ctx.dci) # 0
                  /\ k = "Control" <=> dci_endpoint_number(ctx.dci) = 0
        /\ \A p \in device_context_pointer(ctx.dci, ctx.stored) : p # {} /\ p \cap (0..5) = {}
        /\ \A v \in DeviceSpeed : decode_port_speed(xhci_speed_id(v)) = {v}
        /\ class_code(class_from_code(ctx.n)) = ctx.n

-----------------------------------------------------------------------------
(***************************************************************************)
(* The controller's own transfer ring, and descriptors made of blocks.     *)
(* A block is its number, its length and whether it chains to the next.    *)
(***************************************************************************)
TrbRing == [entries |-> [i \in 0..(RING_SIZE - 1) |-> [n |-> 0]], enq |-> 0, deq |-> 0, cycle |-> TRUE]
is_empty(r) == r.enq = r.deq
is_full(r) == (r.enq + 1) % RING_SIZE = r.deq
ring_len(r) == IF r.enq >= r.deq THEN r.enq - r.deq ELSE (RING_SIZE - r.deq) + r.enq

advance_enqueue(r) == IF r.enq + 1 >= RING_SIZE THEN [r EXCEPT !.enq = 0, !.cycle = ~@]
                      ELSE [r EXCEPT !.enq = @ + 1]
advance_dequeue(r) == [r EXCEPT !.deq = IF @ + 1 >= RING_SIZE THEN 0 ELSE @ + 1]
enqueue(r, b) == IF is_full(r) THEN r ELSE advance_enqueue([r EXCEPT !.entries[r.enq] = b])
dequeue(r) == advance_dequeue(r)

TdInit == td = [ring |-> TrbRing, halted |-> FALSE, taken |-> <<>>, done |-> <<>>, open |-> FALSE,
                split |-> FALSE, out |-> <<>>]

\* submit_transfer: a halted ring and a full one refuse; "open" is a chain the
\* driver has not finished.
submit_transfer(t, len, chain) ==
    LET b == [n |-> Len(t.taken) + 1, len |-> len, chain |-> chain]
    IN  IF t.halted \/ is_full(t.ring) THEN t
        ELSE [t EXCEPT !.ring = enqueue(@, b), !.taken = Append(@, b), !.open = chain]

\* gather_td: up to the first block that does not chain, or the end of the ring.
gather_td(r) ==
    LET count == CHOOSE k \in 1..ring_len(r) :
                   /\ \A j \in 1..(k - 1) : r.entries[(r.deq + j - 1) % RING_SIZE].chain
                   /\ k = ring_len(r) \/ ~r.entries[(r.deq + k - 1) % RING_SIZE].chain
        move[k \in 0..count] == IF k = 0 THEN r ELSE dequeue(move[k - 1])
    IN  [ring |-> move[count], td |-> [k \in 1..count |-> r.entries[(r.deq + k - 1) % RING_SIZE]]]

\* gather_buffers and scatter: the blocks' buffers in order, the last one cut to
\* what the device has returned.
scatter(blocks, bytes) ==
    LET before[k \in 0..Len(blocks)] == IF k = 0 THEN 0 ELSE before[k - 1] + blocks[k].len
    IN  [k \in 1..Len(blocks) |-> IF before[k - 1] >= bytes THEN 0
                                  ELSE IF bytes - before[k - 1] < blocks[k].len
                                       THEN bytes - before[k - 1] ELSE blocks[k].len]

\* execute_normal_td as seen from the ring: the device returns some bytes, or
\* stalls and the ring is halted.
execute_td(t, bytes, stalls) ==
    LET g == gather_td(t.ring)
    IN  [t EXCEPT !.ring = g.ring, !.done = Append(@, g.td), !.out = <<g.td, scatter(g.td, bytes), bytes>>,
                  !.halted = stalls]

\* drain_internal_transfer_ring: descriptor after descriptor until the ring is
\* empty or the stallth stalls.
drain_internal_transfer_ring(t, bytes, stall) ==
    LET drain[k \in 0..(RING_SIZE - 1)] ==
          IF k = 0 THEN t
          ELSE IF drain[k - 1].halted \/ is_empty(drain[k - 1].ring) THEN drain[k - 1]
               ELSE execute_td(drain[k - 1], bytes, k = stall)
        end == drain[RING_SIZE - 1]
    IN  [end EXCEPT !.split = @ \/ (t.open /\ is_empty(end.ring)), !.open = @ /\ ~is_empty(end.ring)]

TdNext ==
    \/ Len(td.taken) < MaxBlocks /\ \E len \in 1..2, c \in BOOLEAN : td' = submit_transfer(td, len, c)
    \/ \E bytes \in 0..4, stall \in 1..RING_SIZE : td' = drain_internal_transfer_ring(td, bytes, stall)
    \/ td.halted /\ td' = [td EXCEPT !.halted = FALSE]

\* Blocks leave a ring in the order they were accepted and none is lost or
\* repeated, however often the ring wraps; a descriptor is whole, a chain to
\* its last block, unless it was drained while the driver was still adding to
\* it; and what a device returns lands in the descriptor's buffers from the
\* first byte on, never past a buffer's end (gather_td, scatter).
TransfersWhole ==
    LET out == FoldLeft(LAMBDA a, d : a \o d, <<>>, td.done)
    IN  /\ out \o [k \in 1..ring_len(td.ring) |->
                     td.ring.entries[(td.ring.deq + k - 1) % RING_SIZE]] = td.taken
        /\ ring_len(td.ring) < RING_SIZE
        /\ ~td.split => \A d \in 1..Len(td.done) :
                          \A k \in 1..Len(td.done[d]) : td.done[d][k].chain <=> k < Len(td.done[d])
        /\ td.out # <<>> =>
             LET blocks == td.out[1]
                 put == td.out[2]
             IN  /\ \A k \in DOMAIN put : put[k] \in 0..blocks[k].len
                 /\ \A j, k \in DOMAIN put : j < k /\ put[k] > 0 => put[j] = blocks[j].len
                 /\ LET total == FoldLeft(LAMBDA a, n : a + n, 0, put)
                        room == FoldLeft(LAMBDA a, b : a + b.len, 0, blocks)
                    IN  total = IF td.out[3] < room THEN td.out[3] ELSE room

-----------------------------------------------------------------------------
(***************************************************************************)
(* A root port: the status register as the set of its bits.                *)
(***************************************************************************)
CCS == 0
PED == 1
PR == 4
PP == 9
LWS == 16
CSC == 17
PRC == 21
PLC == 22
PLS == 5..8
CHANGES == 17..23
WAKE == 25..27
SPEED == 10..13

PortInit == port = [portsc |-> {}, state |-> "Disconnected", speed |-> 0, attached |-> FALSE,
                    unseen |-> {}]

connect_device(p, speed) ==
    [p EXCEPT !.speed = speed, !.portsc = {CCS, PP, CSC} \cup Bits(speed, 10),
              !.state = "Disabled", !.attached = TRUE, !.unseen = {CSC}]

disconnect_device(p) ==
    [p EXCEPT !.speed = 0, !.portsc = {PP, CSC}, !.state = "Disconnected",
              !.attached = FALSE, !.unseen = {CSC}]

complete_reset(p) ==
    IF CCS \notin p.portsc THEN p
    ELSE [p EXCEPT !.portsc = {CCS, PED, PP, PRC} \cup Bits(p.speed, 10), !.state = "Enabled",
                   !.unseen = {PRC}]

\* write_portsc: change bits are cleared by a one, a one disables the port, then
\* a reset runs to its end at once, then the link state, the power and the wake bits.
write_portsc(p, v) ==
    LET cleared == [p EXCEPT !.portsc = @ \ (v \cap CHANGES), !.unseen = @ \ v]
        disabled == IF PED \in v
                    THEN [cleared EXCEPT !.portsc = @ \ {PED}, !.state = "Disabled"] ELSE cleared
        reset == IF PR \in v THEN complete_reset([disabled EXCEPT !.state = "Resetting"])
                 ELSE disabled
        resumed == v \cap PLS = {} /\ reset.portsc \cap PLS = {5, 6}
        linked == IF LWS \notin v THEN reset
                  ELSE [reset EXCEPT !.portsc = (@ \ PLS) \cup (v \cap PLS)
                                                \cup (IF resumed THEN {PLC} ELSE {}),
                                     !.unseen = @ \cup (IF resumed THEN {PLC} ELSE {})]
        powered == [linked EXCEPT !.portsc = (@ \ {PP}) \cup (v \cap {PP})]
    IN  [powered EXCEPT !.portsc = (@ \ WAKE) \cup (v \cap WAKE)]

PortNext ==
    \/ \E s \in Speeds : ~port.attached /\ port' = connect_device(port, s)
    \/ port.attached /\ port' = disconnect_device(port)
    \/ \E v \in SUBSET {PED, PR, 5, 6, PP, LWS, CSC, PRC, PLC, 25} : port' = write_portsc(port, v)

\* Whatever the guest writes and whenever the device comes and goes, a port is
\* enabled only while something is plugged into it, and then says so with its
\* speed; the register's own "enabled" and the controller's agree; and no
\* change of a device that came, went, was reset or resumed disappears before
\* the guest clears it, except by the next such change (write_portsc).
PortHonest ==
    /\ CCS \in port.portsc <=> port.attached
    /\ PED \in port.portsc => CCS \in port.portsc
    /\ PED \in port.portsc <=> port.state = "Enabled"
    /\ port.portsc \cap SPEED = (IF port.attached THEN Bits(port.speed, 10) ELSE {})
    /\ port.unseen \subseteq port.portsc
    /\ PR \notin port.portsc /\ LWS \notin port.portsc

-----------------------------------------------------------------------------
(***************************************************************************)
(* The register window.  Offsets are counted in words of four bytes.       *)
(***************************************************************************)
W(bytes) == bytes \div 4
CAPLENGTH == W(32)
RTSOFF == W(4096)
DBOFF == W(8192)
XECP == W(12288)
MSIX_TABLE == W(16384)
MSIX_PBA == W(20480)
\* The words of one interrupt vector's table entry, and of the pending bits.
in_msix_table(o) == o \in MSIX_TABLE..(MSIX_TABLE + 3)
in_msix_pba(o) == o \in MSIX_PBA..(MSIX_PBA + 1)

\* CapabilityRegisters::read_extended: the two protocols and the ports they have.
usb2_port_count == (Ports + 1) \div 2
read_extended(o) ==
    LET rel == o - XECP
    IN  CASE rel = 0 -> [cap |-> 2, next |-> 4, major |-> 2]
          [] rel = 2 -> [first |-> 1, count |-> usb2_port_count]
          [] rel = 4 -> [cap |-> 2, next |-> 0, major |-> 3]
          [] rel = 6 -> [first |-> usb2_port_count + 1, count |-> Ports - usb2_port_count]
          [] OTHER -> [cap |-> 0]

\* read_register and write_register: the part of the controller an offset names.
bank_read(o) ==
    CASE o < CAPLENGTH -> "capability"
      [] o >= CAPLENGTH /\ o < RTSOFF -> "operational"
      [] o >= RTSOFF /\ o < DBOFF -> "runtime"
      [] o >= DBOFF /\ in_msix_table(o) -> "msix_table"
      [] o >= DBOFF /\ in_msix_pba(o) -> "msix_pba"
      [] o >= XECP /\ ~in_msix_table(o) /\ ~in_msix_pba(o) -> "extended"
      [] OTHER -> "none"

bank_write(o) ==
    CASE o < CAPLENGTH -> "none"
      [] o >= CAPLENGTH /\ o < RTSOFF -> "operational"
      [] o >= RTSOFF /\ o < DBOFF -> "runtime"
      [] o >= DBOFF /\ in_msix_table(o) -> "msix_table"
      [] o >= DBOFF /\ in_msix_pba(o) -> "none"
      [] OTHER -> "doorbell"

\* write_operational and read, by the word within the bank; a port has four
\* words and only the first can be written.
OpWords == [usbcmd |-> 0, usbsts |-> 1, pagesize |-> 2, dnctrl |-> 5, crcr_lo |-> 6, crcr_hi |-> 7,
            dcbaap_lo |-> 12, dcbaap_hi |-> 13, config |-> 14]
PORT_BASE == W(1024)
op_register(rel) ==
    IF \E r \in DOMAIN OpWords : OpWords[r] = rel
    THEN CHOOSE r \in DOMAIN OpWords : OpWords[r] = rel
    ELSE IF rel >= PORT_BASE /\ (rel - PORT_BASE) \div 4 < Ports
         THEN <<"portsc", "portpmsc", "portli", "porthlpmc">>[((rel - PORT_BASE) % 4) + 1]
         ELSE "none"
op_writable(rel) == op_register(rel) \in {"usbcmd", "usbsts", "dnctrl", "crcr_lo", "crcr_hi",
                                          "dcbaap_lo", "dcbaap_hi", "config", "portsc"}

\* read_runtime and write_runtime.
RtWords == [mfindex |-> 0, iman |-> 8, imod |-> 9, erstsz |-> 10, erstba_lo |-> 12,
            erstba_hi |-> 13, erdp_lo |-> 14, erdp_hi |-> 15]
rt_register(rel) == IF \E r \in DOMAIN RtWords : RtWords[r] = rel
                    THEN CHOOSE r \in DOMAIN RtWords : RtWords[r] = rel ELSE "none"

\* A doorbell's number, and what ringing it means.
doorbell_index(o) == IF o - DBOFF > 255 THEN 255 ELSE o - DBOFF
decode_doorbell(index, target, stream) ==
    IF index = 0 THEN [to |-> "command", slot |-> 0, dci |-> 0]
    ELSE IF target = 0 THEN [to |-> "control", slot |-> index, dci |-> 1]
    ELSE [to |-> IF stream # 0 THEN "stream" ELSE "endpoint", slot |-> index, dci |-> target]

\* The offsets at the edges of every bank and of everything in it.
Edges == UNION {0..20, (RTSOFF - 1)..(RTSOFF + 20),
                (PORT_BASE + CAPLENGTH - 1)..(PORT_BASE + CAPLENGTH + (4 * Ports)),
                (DBOFF - 1)..(DBOFF + 40), (XECP - 1)..(XECP + 9),
                (MSIX_TABLE - 1)..(MSIX_TABLE + 5), (MSIX_PBA - 1)..(MSIX_PBA + 3)}

RegsInit == regs = [at |-> 0, target |-> 0, stream |-> 0]
RegsNext == regs.at = 0 /\ regs' \in [at : Edges, target : {0, 1, 3}, stream : {0, 1}]

\* Reading and writing agree about which register an offset is: whatever can be
\* written as an operational or runtime register, or as a vector of the
\* interrupt table, is read back from the same place, the capability, extended
\* and pending-bit words cannot be written, a doorbell write never lands on a
\* register, and only the first word after the doorbell base rings the command
\* ring.  The two protocol capabilities name every port once.
WindowExact ==
    LET o == regs.at
        bell == decode_doorbell(doorbell_index(o), regs.target, regs.stream)
    IN  /\ bank_write(o) \in {"operational", "runtime", "msix_table"} => bank_read(o) = bank_write(o)
        /\ bank_read(o) \in {"capability", "msix_pba"} => bank_write(o) = "none"
        /\ bank_write(o) = "doorbell" =>
             /\ bank_read(o) \in {"none", "extended"}
             /\ bank_read(o) = "extended" => doorbell_index(o) = 255
             /\ bell.to = "command" <=> o = DBOFF
             /\ bell.to # "command" => bell.slot = doorbell_index(o)
        /\ bank_read(o) = "operational" /\ op_writable(o - CAPLENGTH) =>
             op_register(o - CAPLENGTH) # "none"
        /\ bank_read(o) = "operational" /\ o - CAPLENGTH >= PORT_BASE /\ op_writable(o - CAPLENGTH) =>
             (o - CAPLENGTH - PORT_BASE) % 4 = 0
        /\ LET two == read_extended(XECP + 2)
               three == read_extended(XECP + read_extended(XECP).next + 2)
           IN  /\ two.first = 1 /\ three.first = two.first + two.count
               /\ two.count + three.count = Ports
               /\ read_extended(XECP + read_extended(XECP).next).next = 0

-----------------------------------------------------------------------------
(***************************************************************************)
(* The monitor and the two scans that feed it.  "bus" is what is plugged   *)
(* in, with a mark of which device it is; "known" is the monitor's table.  *)
(***************************************************************************)
Nothing == 0
MonInit == mon = [bus |-> [p \in Paths |-> Nothing], known |-> [p \in Paths |-> Nothing],
                  next |-> 1, plugged |-> 0, due |-> TRUE, seen |-> {}, last |-> "none"]

\* parse_device: the directory also lists interfaces, which have a colon in their
\* name, and a device whose identity cannot be read is passed over.
parse_port_path(entry) == IF entry.colon THEN {} ELSE {entry.path}
parse_device(entry) == IF entry.ids THEN parse_port_path(entry) ELSE {}

\* scan_devices: a directory that cannot be listed has nothing in it.
scan_devices(m, listed, going) ==
    LET entries == {[path |-> p, colon |-> c, ids |-> ~c /\ p \notin going] :
                      p \in {q \in Paths : m.bus[q] # Nothing}, c \in BOOLEAN}
    IN  IF listed THEN UNION {parse_device(e) : e \in entries} ELSE {}

\* allocate_address and report_connect, for each new path in the order of the scan;
\* report_disconnect gives no address back.
Room(m) == MAX_ADDRESS - m.next
Told(m, paths) == [m EXCEPT !.known = [p \in Paths |-> IF p \in paths THEN m.bus[p] ELSE m.known[p]],
                            !.next = @ + Cardinality(paths)]

\* sync_monitor and sync_xhci_monitor: new paths first, and an error ends the
\* sync before the paths that are gone are reported.
sync_monitor(m, scanned) ==
    LET new == {p \in scanned : m.known[p] = Nothing}
        told == Told(m, new)
    IN  IF Cardinality(new) > Room(m)
        THEN {[Told(m, some) EXCEPT !.last = "error", !.seen = scanned] : some \in kSubset(Room(m), new)}
        ELSE {[told EXCEPT !.known = [p \in Paths |-> IF p \in scanned THEN @[p] ELSE Nothing],
                           !.last = "ok", !.seen = scanned]}

\* poll and poll_xhci: only a sync that went through counts as one.
poll(m, scanned) ==
    IF ~m.due THEN {m}
    ELSE {IF s.last = "ok" THEN [s EXCEPT !.due = FALSE] ELSE s : s \in sync_monitor(m, scanned)}

MonNext ==
    \/ \E listed \in BOOLEAN, going \in {{}} \cup {{p} : p \in Paths} :
         mon' \in poll(mon, scan_devices(mon, listed, going))
    \/ ~mon.due /\ mon' = [mon EXCEPT !.due = TRUE, !.last = "none"]
    \/ \E p \in Paths :
         \/ /\ mon.bus[p] = Nothing /\ mon.plugged < MAX_ADDRESS
            /\ mon' = [mon EXCEPT !.bus[p] = mon.plugged + 1, !.plugged = @ + 1, !.last = "none"]
         \/ /\ mon.bus[p] # Nothing
            /\ mon' = [mon EXCEPT !.bus[p] = Nothing, !.last = "none"]

\* A scan that went through leaves the monitor with exactly the paths the scan
\* saw, whatever came and went between two scans; no address is given out
\* twice, so the monitor knows at most as many devices as addresses it gave;
\* a scan that failed has run out of addresses, which come back never, stays
\* due and forgets nobody; and what is known at a path was plugged in there
\* (sync_monitor, report_connect).
MonitorExact ==
    /\ mon.last = "ok" => {p \in Paths : mon.known[p] # Nothing} = mon.seen
    /\ mon.last = "error" => /\ mon.next = MAX_ADDRESS /\ mon.due
                             /\ \E p \in mon.seen : mon.known[p] = Nothing
    /\ mon.next <= MAX_ADDRESS
    /\ \A p, q \in Paths : p # q /\ mon.known[p] # Nothing => mon.known[p] # mon.known[q]
    /\ Cardinality({p \in Paths : mon.known[p] # Nothing}) < mon.next

-----------------------------------------------------------------------------
(***************************************************************************)
(* One isochronous transfer.  The library (external) holds the transfer,   *)
(* its buffer and its flag until the callback has run.                     *)
(***************************************************************************)
\* iso_packet_layout: how many packets, and the bytes of their buffer.
iso_packet_layout(len, size) ==
    IF size = 0 \/ len = 0 THEN <<>>
    ELSE LET packets == (len + size - 1) \div size IN <<packets, packets * size>>

IsoInit == \E out \in BOOLEAN, len \in 0..MaxData, size \in {0, PacketSize} :
             iso = [out |-> out, len |-> len, size |-> size, pc |-> "layout", packets |-> <<>>,
                    last |-> 0, held |-> FALSE, alive |-> FALSE, completed |-> FALSE,
                    status |-> "none", clean |-> TRUE, result |-> "none", bytes |-> 0]

Ended(i, result) == [i EXCEPT !.pc = "done", !.result = result, !.alive = FALSE]

\* iso_transfer_out and iso_transfer_in, up to the call of run_iso_transfer.
iso_begin(i) ==
    LET layout == iso_packet_layout(IF i.out THEN i.len ELSE IF i.len = 0 THEN 1 ELSE i.len, i.size)
        used == i.len - ((layout[1] - 1) * i.size)
    IN  IF i.out /\ i.len = 0 THEN Ended(i, "ack")
        ELSE IF layout = <<>> THEN Ended(i, "error")
        ELSE [i EXCEPT !.pc = "submit", !.alive = TRUE,
                       !.packets = [k \in 1..layout[1] |-> i.size],
                       !.last = IF i.out THEN used ELSE i.size]

\* run_iso_transfer: allocation and submission may fail.
run_iso_transfer(i, accepted) ==
    IF ~accepted THEN Ended(i, "error")
    ELSE [i EXCEPT !.pc = "pump", !.held = TRUE,
                   !.packets = [k \in DOMAIN @ |-> IF k = Len(i.packets) THEN i.last ELSE @[k]]]

\* pump_until_complete: the event loop may fail, the deadline may pass; then the
\* transfer is cancelled and reaped for a while.
PumpSteps ==
    \/ iso.completed /\ iso' = [iso EXCEPT !.pc = "count"]
    \/ ~iso.completed /\ iso' = [iso EXCEPT !.pc = "reap"]
    \/ iso' = [Ended(iso, "error") EXCEPT !.clean = ~iso.held]
reap(i) == [Ended(i, "error") EXCEPT !.clean = ~i.held]

\* The end of both calls: what completed is counted, an IN never past what was asked.
iso_end(i, moved) ==
    IF i.status # "completed" THEN Ended(i, "error")
    ELSE [Ended(i, IF i.out THEN "ack" ELSE "data") EXCEPT
            !.bytes = IF i.out \/ moved <= i.len THEN moved ELSE i.len]

PacketBytes(i) == LET sum[k \in 0..Len(i.packets)] == IF k = 0 THEN 0 ELSE sum[k - 1] + i.packets[k]
                  IN  sum[Len(i.packets)]

\* The library finishes or cancels the transfer: the callback sets the flag.
LibraryFinishes ==
    /\ iso.held
    /\ \E s \in {"completed", "cancelled", "failed"} :
         iso' = [iso EXCEPT !.held = FALSE, !.completed = TRUE, !.status = s]

IsoNext ==
    \/ iso.pc = "layout" /\ iso' = iso_begin(iso)
    \/ iso.pc = "submit" /\ \E ok \in BOOLEAN : iso' = run_iso_transfer(iso, ok)
    \/ iso.pc = "pump" /\ PumpSteps
    \/ iso.pc = "reap" /\ iso' = reap(iso)
    \/ iso.pc = "count" /\ \E n \in 0..PacketBytes(iso) : iso' = iso_end(iso, n)
    \/ LibraryFinishes

\* The packets of an OUT carry exactly the caller's bytes, none of the padding;
\* an IN never returns more than was asked; a result is never reported from a
\* transfer the library still works on, and its memory is released while the
\* library holds it only where the event loop failed or the cancelled transfer
\* was not reaped in time (pump_until_complete returns false in both).
IsoExact ==
    /\ iso.pc \in {"pump", "reap", "count"} =>
         IF iso.out THEN PacketBytes(iso) = iso.len ELSE PacketBytes(iso) >= iso.len
    /\ iso.result \in {"ack", "data"} => ~iso.held /\ iso.bytes <= iso.len
    /\ iso.clean => (iso.held => iso.alive)

-----------------------------------------------------------------------------
(***************************************************************************)
(* A forwarded device.  The kinds of the endpoints are read once, from the *)
(* configuration that is active when the device is opened.                 *)
(***************************************************************************)
\* The endpoint kind of an interface in a configuration (external).
KindIn(config, i) == IF (config + i) % 2 = 0 THEN "Bulk" ELSE "Isochronous"

FwdInit ==
  \E c \in Configs :
    fwd = [active |-> c, claimed |-> {}, kinds |-> <<>>, read |-> c, pc |-> "open", used |-> "none"]

\* from_handle: kinds, then every interface in turn; a refused claim fails the open
\* and the handle's end gives back what was claimed.
from_handle(f) == [f EXCEPT !.kinds = [i \in Interfaces |-> KindIn(f.active, i)],
                            !.read = f.active, !.pc = "claim"]
claim(f, i, ok) == IF ok THEN [f EXCEPT !.claimed = @ \cup {i}]
                   ELSE [f EXCEPT !.claimed = {}, !.pc = "failed"]
opened(f) == [f EXCEPT !.pc = "ready"]

\* set_configuration: the active one again is only acknowledged.
set_configuration(f, c, ok) == IF f.active = c \/ ~ok THEN f ELSE [f EXCEPT !.active = c]

\* control: an address is never forwarded, a configuration goes through the above.
control_to(f, request, c, ok) ==
    CASE request = "SET_ADDRESS" -> f
      [] request = "SET_CONFIGURATION" -> set_configuration(f, c, ok)
      [] OTHER -> f
transfer(f, i) == [f EXCEPT !.used = IF f.kinds[i] = KindIn(f.active, i) THEN "right" ELSE "stale"]

FwdNext ==
    \/ fwd.pc = "open" /\ fwd' = from_handle(fwd)
    \/ /\ fwd.pc = "claim"
       /\ \/ /\ fwd.claimed # Interfaces
             /\ \E ok \in BOOLEAN :
                  fwd' = claim(fwd, CHOOSE i \in Interfaces \ fwd.claimed :
                                      \A j \in Interfaces \ fwd.claimed : i <= j, ok)
          \/ fwd.claimed = Interfaces /\ fwd' = opened(fwd)
    \/ /\ fwd.pc = "ready"
       /\ \/ \E r \in {"SET_ADDRESS", "SET_CONFIGURATION", "other"}, c \in Configs, ok \in BOOLEAN :
               fwd' = control_to([fwd EXCEPT !.used = "none"], r, c, ok)
          \/ \E i \in Interfaces : fwd' = transfer(fwd, i)

\* A device is usable only with all its interfaces claimed and an open that
\* failed keeps none; transfers use the kind the endpoint has as long as the
\* guest never selects another configuration than the one the device was
\* opened in (from_handle reads the kinds once).
ForwarderExact ==
    /\ fwd.pc = "ready" => fwd.claimed = Interfaces
    /\ fwd.pc = "failed" => fwd.claimed = {}
    /\ fwd.used = "stale" => fwd.active # fwd.read
=============================================================================
