----------------------------- MODULE StandardPc -----------------------------
(* The chipset functions of the standard PC beside its timers and interrupt  *)
(* controllers: power management and reset ports (chipset.rs), the 8237 DMA  *)
(* controllers (dma.rs), the SMBus host (smbus.rs), the clocks advanced      *)
(* together (device_bus.rs, acpi_pm.rs), the virtual TPM (tpm.rs), the 8042  *)
(* controller (ps2/), the USB boot keyboard (hid.rs) and the serial port     *)
(* (serial.rs).  Each is a record in a variable of its own.  A register is   *)
(* the set of the positions of its ones.                                     *)
EXTENDS Integers, Sequences, SequencesExt, FiniteSets

CONSTANTS
    \* power management
    PmWrites,   \* guest writes [block, off, size, data] into PM1 and GPE0
    Gpes,       \* events raised by the host
    \* DMA
    B,          \* values of a byte
    Channels,   \* channels of a controller
    \* SMBus
    BLOCK_LEN,  \* bytes of the block buffer
    \* clocks, in units of time
    HPET_TICK, PIT_TICK,   \* one tick of each
    PmRate,     \* the PM timer: <<ticks, units>>
    Deltas,     \* time a guest entry takes
    MaxTotal,   \* bound: time in all
    \* TPM
    Pcrs,       \* PCR indices in play; "bad" ones are refused
    NvIndices,  \* NV indices
    Values,     \* blobs and digests
    MaxExtend,  \* bound: extensions of one PCR
    MaxRandom   \* bound: position in the random stream

VARIABLES pm, dma, smb, clk, tpm

Shift(bits, n) == {b - n : b \in {c \in bits : c >= n}}
Low16(bits) == bits \cap (0 .. 15)

-----------------------------------------------------------------------------
(* Power management and reset ports *)

NoSleep == 8
PWRBTN == 8
SCI_EN == 0
SLP_EN == 13
EN_MASK == {0, 5, 8, 9, 10}
STORED_MASK == {0, 1, 10, 11, 12}

\* SLP_TYP of a value written to the control register.
slp_typ(bits) ==
    (IF 10 \in bits THEN 1 ELSE 0) + (IF 11 \in bits THEN 2 ELSE 0) + (IF 12 \in bits THEN 4 ELSE 0)

\* SystemControlPortA::new, AcpiPm1Block::new, Gpe0Block::new; `owed` is the
\* sleep committed and not taken yet, `events` the bits the host has raised and
\* the guest has not cleared.
PmInit ==
    pm = [a20 |-> TRUE, reset |-> FALSE, status |-> {}, enable |-> {}, control |-> {},
          sleep |-> NoSleep, gpe_status |-> [i \in 0 .. 7 |-> {}],
          gpe_enable |-> [i \in 0 .. 7 |-> {}], owed |-> NoSleep, events |-> {}]

\* SystemControlPortA::pio_write: bit 0 latches a reset and is not stored.
PortA ==
    \E bits \in SUBSET {0, 1} :
        pm' = [pm EXCEPT !.reset = @ \/ 0 \in bits, !.a20 = 1 \in bits]

\* AcpiPm1Block::write_control
write_control(p, bits) ==
    [p EXCEPT !.sleep = IF SLP_EN \in bits THEN slp_typ(bits) ELSE @,
              !.control = bits \cap STORED_MASK,
              !.owed = IF SLP_EN \in bits THEN slp_typ(bits) ELSE @]

\* AcpiPm1Block::pio_write: a 32-bit access to the event block reaches the
\* enable register too; an access to any other byte does nothing.
pm1_write(p, w) ==
    CASE w.off = 0 /\ w.size = 4 ->
           [p EXCEPT !.status = @ \ Low16(w.data), !.enable = Shift(w.data, 16) \cap EN_MASK]
      [] w.off = 0 /\ w.size < 4 -> [p EXCEPT !.status = @ \ Low16(w.data)]
      [] w.off = 2 -> [p EXCEPT !.enable = w.data \cap EN_MASK]
      [] w.off = 4 -> write_control(p, Low16(w.data))
      [] OTHER -> p

\* AcpiPm1Block::pio_read
pm1_read(p, off) ==
    IF off < 4 THEN Shift(p.status \cup {b + 16 : b \in p.enable}, 8 * off)
    ELSE Shift(p.control, 8 * (off - 4))

ByteAt(data, i) == Shift(data, 8 * i) \cap (0 .. 7)

\* Gpe0Block::pio_write: byte by byte, clearing status and storing enable.
gpe_write(p, w) ==
    LET at(i) == i - w.off
        hit(i) == at(i) \in 0 .. (w.size - 1)
    IN [p EXCEPT
          !.gpe_status = [i \in 0 .. 7 |-> IF hit(i) THEN @[i] \ ByteAt(w.data, at(i)) ELSE @[i]],
          !.gpe_enable = [i \in 0 .. 7 |-> IF hit(i + 8) THEN ByteAt(w.data, at(i + 8)) ELSE @[i]]]

\* Gpe0Block::pio_read: up to four bytes of one half.
gpe_read(p, off) ==
    LET arr == IF off < 8 THEN p.gpe_status ELSE p.gpe_enable
        first == off % 8
    IN UNION {{b + 8 * i : b \in arr[first + i]} : i \in {j \in 0 .. 3 : first + j < 8}}

PmWrite ==
    \E w \in PmWrites :
        LET p == IF w.block = "pm1" THEN pm1_write(pm, w) ELSE gpe_write(pm, w)
            cleared == IF w.block = "pm1"
                       THEN IF w.off = 0 THEN {<<"pm1", b>> : b \in Low16(w.data)} ELSE {}
                       ELSE {<<"gpe", b + 8 * w.off>> : b \in w.data}
        IN pm' = [p EXCEPT !.events = @ \ cleared]

\* SmiCommandPort::pio_write: ACPI_ENABLE, ACPI_DISABLE, and the rest.
SmiCommand ==
    \E command \in {"enable", "disable", "other"} :
        pm' = [pm EXCEPT !.control = CASE command = "enable" -> @ \cup {SCI_EN}
                                       [] command = "disable" -> @ \ {SCI_EN}
                                       [] OTHER -> @]

\* press_power_button
PressPowerButton ==
    pm' = [pm EXCEPT !.status = @ \cup {PWRBTN}, !.events = @ \cup {<<"pm1", PWRBTN>>}]

\* Gpe0Block::raise_gpe: a number beyond the block is ignored.
RaiseGpe ==
    \E g \in Gpes :
        pm' = IF g \div 8 > 7 THEN pm
              ELSE [pm EXCEPT !.gpe_status[g \div 8] = @ \cup {g % 8},
                              !.events = @ \cup {<<"gpe", g>>}]

\* take_sleep and take_reset, when the run loop polls.
TakeSleep == pm.sleep # NoSleep /\ pm' = [pm EXCEPT !.sleep = NoSleep, !.owed = NoSleep]
TakeReset == pm.reset /\ pm' = [pm EXCEPT !.reset = FALSE]

PmNext ==
    \/ PortA \/ PmWrite \/ SmiCommand \/ PressPowerButton \/ RaiseGpe \/ TakeSleep \/ TakeReset

\* Through writes of any width and alignment, a raised event stays in the
\* status registers until its own bit is written with a one, and no event shows
\* that was not raised; what a guest reads at any offset is the bits from there
\* on; the sleep the run loop takes is the last the guest committed.
PowerHonest ==
    /\ pm.status = {b \in 0 .. 15 : <<"pm1", b>> \in pm.events}
    /\ \A i \in 0 .. 7 : pm.gpe_status[i] = {b \in 0 .. 7 : <<"gpe", 8 * i + b>> \in pm.events}
    /\ \A off \in 0 .. 1 :
         pm1_read(pm, off) \cap (0 .. (15 - 8 * off)) =
           {n - 8 * off : n \in {b \in (8 * off) .. 15 : <<"pm1", b>> \in pm.events}}
    /\ \A off \in 0 .. 7 :
         gpe_read(pm, off) =
           {n - 8 * off : n \in {g \in (8 * off) .. 63 : <<"gpe", g>> \in pm.events /\ g < 8 * off + 32}}
    /\ pm.sleep = pm.owed

-----------------------------------------------------------------------------
(* A DMA controller and its page registers, one of each width *)

ChannelRegs == 0 .. (2 * Cardinality(Channels) - 1)
Word == B * B
Unknown == Word

\* Dma8237::with_layout, DmaPageRegisters::new.  cur and base are indexed by
\* the register that reaches them: even for addresses, odd for counts.  `want`
\* is the word a guest has programmed, low byte then high from a cleared
\* flip-flop, and `half` how far it is.
DmaInit ==
    \E wide \in BOOLEAN :
        dma = [cur |-> [r \in ChannelRegs |-> 0], base |-> [r \in ChannelRegs |-> 0],
               mode |-> [c \in Channels |-> 0], command |-> 0, request |-> {}, mask |-> Channels,
               flip_flop |-> FALSE, page |-> [c \in Channels |-> 0], wide |-> wide,
               want |-> [r \in ChannelRegs |-> Unknown], half |-> <<"clear">>]

\* master_clear
master_clear(d) == [d EXCEPT !.command = 0, !.request = {}, !.mask = Channels, !.flip_flop = FALSE]

\* write_reg, registers 0 to 7.
write_word(d, reg, val) ==
    LET next == IF d.flip_flop THEN (val * B) + (d.cur[reg] % B) ELSE (d.cur[reg] \div B) * B + val
    IN [d EXCEPT !.cur[reg] = next, !.base[reg] = next, !.flip_flop = ~ @]

\* write_reg, registers 8 to 15, with the bits each decodes.
write_control_reg(d, reg, c, set) ==
    CASE reg = 8 -> [d EXCEPT !.command = 1]
      [] reg = 9 -> [d EXCEPT !.request = IF set THEN @ \cup {c} ELSE @ \ {c}]
      [] reg = 10 -> [d EXCEPT !.mask = IF set THEN @ \cup {c} ELSE @ \ {c}]
      [] reg = 11 -> [d EXCEPT !.mode[c] = 1]
      [] reg = 12 -> [d EXCEPT !.flip_flop = FALSE]
      [] reg = 13 -> master_clear(d)
      [] reg = 14 -> [d EXCEPT !.mask = {}]
      [] OTHER -> [d EXCEPT !.mask = IF set THEN {c} ELSE {}]

\* read_reg, registers 0 to 7: the byte the flip-flop selects.
read_byte(d, reg) == IF d.flip_flop THEN d.cur[reg] \div B ELSE d.cur[reg] % B

WriteWord ==
    \E reg \in ChannelRegs, val \in 0 .. (B - 1) :
        LET d == write_word(dma, reg, val)
            ends == dma.half # <<"clear">> /\ dma.half # <<"lost">> /\ dma.half[1] = reg
        IN dma' = [d EXCEPT
             !.want = [r \in ChannelRegs |->
                         IF r = reg THEN IF ends THEN val * B + dma.half[2] ELSE Unknown ELSE @[r]],
             !.half = IF dma.half = <<"clear">> THEN <<reg, val>> ELSE IF ends THEN <<"clear">> ELSE <<"lost">>]

WriteControlReg ==
    \E reg \in 8 .. 15, c \in Channels, set \in BOOLEAN :
        dma' = [write_control_reg(dma, reg, c, set) EXCEPT
                  !.half = IF reg \in {12, 13} THEN <<"clear">> ELSE @]

\* A read of a word moves the flip-flop under a half-written one.
ReadWord ==
    \E reg \in ChannelRegs :
        dma' = [dma EXCEPT !.flip_flop = ~ @, !.half = <<"lost">>]

\* DmaPageRegisters::pio_write
WritePage == \E c \in Channels, v \in 0 .. (B - 1) : dma' = [dma EXCEPT !.page[c] = v]

DmaNext == WriteWord \/ WriteControlReg \/ ReadWord \/ WritePage

\* transfer_address: a word address on the wide controller, whose page bit 0
\* is not used.
transfer_address(page, addr, wide) ==
    IF wide THEN (page - (page % 2)) * Word + addr * 2 ELSE page * Word + addr

\* transfer_byte_count
transfer_byte_count(count, wide) == (count + 1) * (IF wide THEN 2 ELSE 1)

\* A word written low byte first from a cleared flip-flop is what the channel
\* holds and reads back, whatever else was read and written around it; and the
\* transfer it describes starts in the channel's own page, on a word for the
\* wide controller, and is no longer than the page (Dma8237, transfer_address).
DmaPrograms ==
    /\ \A r \in ChannelRegs :
         dma.want[r] # Unknown => dma.cur[r] = dma.want[r] /\ dma.base[r] = dma.want[r]
    /\ dma.half = <<"clear">> =>
         \A r \in ChannelRegs : dma.want[r] # Unknown => read_byte(dma, r) = dma.want[r] % B
    /\ \A c \in Channels :
         LET a == transfer_address(dma.page[c], dma.cur[2 * c], dma.wide)
             unit == IF dma.wide THEN 2 ELSE 1
         IN /\ a < B * Word /\ a % unit = 0
            /\ a \div (unit * Word) = dma.page[c] \div unit
            /\ transfer_byte_count(dma.cur[2 * c + 1], dma.wide) \in unit .. (unit * Word)

-----------------------------------------------------------------------------
(* The SMBus host, shared by the operating system's driver and AML, which     *)
(* take turns by the in-use bit of the status register                        *)

Agents == {"driver", "aml"}

\* SmbusHost::new; `line` is the level last pushed into the wired sink, `wrote`
\* the bytes the owner has put into the block buffer since it reset the pointer.
SmbInit ==
    smb = [status |-> {}, in_use |-> FALSE, intren |-> FALSE, block |-> [i \in 0 .. (BLOCK_LEN - 1) |-> 0],
           index |-> 0, line |-> FALSE, owner |-> {}, wrote |-> <<>>, phase |-> "none"]

\* interrupt_level
interrupt_level(m) == m.intren /\ m.status # {}

\* pio_write: after the register is written the line follows.
Wrote(m) == [m EXCEPT !.line = interrupt_level(m)]

\* read_register HST_STS: the value, and then the semaphore is set.  An agent
\* that read it clear owns the controller.
ReadStatus ==
    \E a \in Agents \ smb.owner :
        smb' = [smb EXCEPT !.in_use = TRUE,
                           !.owner = IF smb.in_use THEN @ ELSE @ \cup {a},
                           !.phase = IF smb.in_use THEN @ ELSE "none"]

\* write_register HST_STS: write-1-to-clear, bit 6 releases.
WriteStatus ==
    \E a \in smb.owner, clear \in SUBSET {"dev_err", "failed"}, release \in BOOLEAN :
        smb' = Wrote([smb EXCEPT !.status = @ \ clear,
                                 !.in_use = @ /\ ~ release,
                                 !.owner = IF release THEN @ \ {a} ELSE @])

\* write_register HST_CNT: KILL wins over START; no slave answers, so a
\* started transaction is over with DEV_ERR.
WriteControl ==
    \E a \in smb.owner, intren, kill, start \in BOOLEAN :
        smb' = Wrote([smb EXCEPT !.intren = intren,
                                 !.status = IF kill THEN @ \cup {"failed"}
                                            ELSE IF start THEN @ \cup {"dev_err"} ELSE @])

\* read_register HST_CNT: the block pointer goes back to the start.
ReadControl ==
    \E a \in smb.owner :
        smb' = [smb EXCEPT !.index = 0, !.phase = IF @ = "none" THEN "write" ELSE "read",
                           !.wrote = IF smb.phase = "none" THEN <<>> ELSE @]

\* HOST_BLOCK_DB through the shared pointer.
WriteBlock ==
    \E a \in smb.owner, v \in 1 .. 2 :
        /\ smb.phase # "read" /\ Len(smb.wrote) < BLOCK_LEN
        /\ smb' = Wrote([smb EXCEPT !.block[smb.index % BLOCK_LEN] = v,
                                    !.index = (@ + 1) % BLOCK_LEN,
                                    !.wrote = IF smb.phase = "write" THEN Append(@, v) ELSE @])
ReadBlock ==
    \E a \in smb.owner :
        /\ smb.phase = "read"
        /\ smb' = [smb EXCEPT !.index = (@ + 1) % BLOCK_LEN]

SmbNext == ReadStatus \/ WriteStatus \/ WriteControl \/ ReadControl \/ WriteBlock \/ ReadBlock

\* Only one agent owns the controller; its line is the level of enable and
\* status at every moment; and bytes put into the block buffer from its start
\* come out in their order (SmbusHost).
SmbusShared ==
    /\ Cardinality(smb.owner) <= 1
    /\ smb.owner # {} => smb.in_use
    /\ smb.line = interrupt_level(smb)
    /\ smb.phase \in {"write", "read"} =>
         \A k \in 1 .. Len(smb.wrote) : smb.block[k - 1] = smb.wrote[k]

-----------------------------------------------------------------------------
(* The clocks a guest compares, advanced together *)

\* The clocks at zero, with the HPET enabled.
ClkInit == clk = [total |-> 0, calls |-> 0, acc |-> 0, pit |-> 0, hpet |-> 0, pm |-> 0, lapic |-> 0]

\* AcpiPmTimer::ns_to_ticks
ns_to_ticks(ns) == (ns * PmRate[1]) \div PmRate[2]

\* advance_clocks: the PIT keeps what is left of a tick, the others drop it.
advance_clocks(c, ns) ==
    [total |-> c.total + ns, calls |-> c.calls + 1,
     acc |-> (c.acc + ns) % PIT_TICK, pit |-> c.pit + (c.acc + ns) \div PIT_TICK,
     hpet |-> c.hpet + ns \div HPET_TICK, pm |-> c.pm + ns_to_ticks(ns), lapic |-> c.lapic + ns]

ClkNext == \E ns \in Deltas : clk.total + ns <= MaxTotal /\ clk' = advance_clocks(clk, ns)

\* The PIT and the local APIC timer have counted all the time that passed; the
\* HPET and the PM timer are never ahead, and fall behind by less than a tick
\* at each call (advance_clocks).
ClocksLag ==
    /\ clk.pit = clk.total \div PIT_TICK /\ clk.lapic = clk.total
    /\ clk.total \div HPET_TICK - clk.hpet \in 0 .. clk.calls
    /\ ns_to_ticks(clk.total) - clk.pm \in 0 .. clk.calls

-----------------------------------------------------------------------------
(* The virtual TPM: command buffer, PCR banks, NV storage and the state file  *)
(* that outlives the hypervisor.  A PCR is the sequence of values extended    *)
(* into it, the random generator its position in its stream.                  *)

NoBlob == "none"
Blank == [i \in NvIndices |-> NoBlob]
Virgin == [nv |-> Blank, rng |-> 0]

\* What a file holds: nothing that parses, or the durable state.
Malformed == [ok |-> FALSE, state |-> Virgin]

\* VirtualTpm::seeded
Fresh == [pcr |-> [p \in Pcrs |-> <<>>], started |-> FALSE, self_tested |-> FALSE,
          granted |-> TRUE, cmd |-> [code |-> "other", index |-> 0, value |-> NoBlob],
          rsp |-> "none", nv |-> Blank, rng |-> 0]

TpmInit == tpm = [dev |-> Fresh, file |-> Malformed, lagging |-> FALSE]

\* serialize_state: NV, seed and generator; the PCRs are left out.
serialize_state(d) == [nv |-> d.nv, rng |-> d.rng]

\* apply_state: all of a well-formed file or nothing of a malformed one.
apply_state(d, f) == IF f.ok THEN [d EXCEPT !.nv = f.state.nv, !.rng = f.state.rng] ELSE d

\* write_success_response, write_error_response and the answers with data: the
\* return code is what is kept of a response.
respond(d, rc) == [d EXCEPT !.rsp = rc]

handle_pcr_extend(d) ==
    LET c == d.cmd
    IN IF c.index \notin Pcrs THEN respond(d, "failure")
       ELSE respond([d EXCEPT !.pcr[c.index] = Append(@, c.value)], "success")

handle_pcr_read(d) ==
    IF d.cmd.index \notin Pcrs THEN respond(d, "failure")
    ELSE respond(d, "success")

handle_nv_write(d) == respond([d EXCEPT !.nv[d.cmd.index] = d.cmd.value], "success")

handle_nv_read(d) ==
    IF d.nv[d.cmd.index] = NoBlob THEN respond(d, "handle")
    ELSE respond(d, "success")

handle_get_random(d) == respond([d EXCEPT !.rng = @ + 1], "success")

\* process_command: an unknown command succeeds and does nothing.
process_command(d) ==
    CASE d.cmd.code = "startup"    -> respond([d EXCEPT !.started = TRUE], "success")
      [] d.cmd.code = "shutdown"   -> respond([d EXCEPT !.started = FALSE], "success")
      [] d.cmd.code = "self_test"  -> respond([d EXCEPT !.self_tested = TRUE], "success")
      [] d.cmd.code = "pcr_extend" -> handle_pcr_extend(d)
      [] d.cmd.code = "pcr_read"   -> handle_pcr_read(d)
      [] d.cmd.code = "nv_write"   -> handle_nv_write(d)
      [] d.cmd.code = "nv_read"    -> handle_nv_read(d)
      [] d.cmd.code = "get_random" -> handle_get_random(d)
      [] OTHER -> respond(d, "success")

\* The guest writes a command into the data buffer (write_register).
Put ==
    \E code \in {"startup", "pcr_extend", "pcr_read", "nv_write", "nv_read", "get_random"} :
    \E index \in (IF code \in {"nv_write", "nv_read"} THEN NvIndices ELSE Pcrs \cup {99}) :
    \E v \in (IF code \in {"nv_write", "pcr_extend"} THEN Values ELSE {NoBlob}) :
        tpm' = [tpm EXCEPT !.dev.cmd = [code |-> code, index |-> index, value |-> v]]

InBounds(d) ==
    /\ d.cmd.code = "pcr_extend" /\ d.cmd.index \in Pcrs => Len(d.pcr[d.cmd.index]) < MaxExtend
    /\ d.cmd.code = "get_random" => d.rng < MaxRandom

\* The guest starts it (CTRL_START).  Only NV_Write saves the durable state, and
\* save_state's own failure is not reported.
Start ==
    /\ InBounds(tpm.dev)
    /\ LET d == process_command(tpm.dev)
           s == serialize_state(d)
       IN \/ /\ d.cmd.code # "nv_write"
             /\ tpm' = [tpm EXCEPT !.dev = d]
          \/ /\ d.cmd.code = "nv_write"
             /\ \/ tpm' = [tpm EXCEPT !.dev = d, !.file = [ok |-> TRUE, state |-> s],
                                   !.lagging = FALSE]
                \/ tpm' = [tpm EXCEPT !.dev = d, !.lagging = TRUE]

\* write_register LOC_CTRL: request sets the grant, relinquish takes it away.
Locality == \E b \in BOOLEAN : tpm' = [tpm EXCEPT !.dev.granted = b]

\* The hypervisor stops and with_state_path makes the TPM anew from the file.
Restart == tpm' = [tpm EXCEPT !.dev = apply_state(Fresh, tpm.file), !.lagging = FALSE]

\* It stops inside save_state: fs::write has emptied the file it rewrites.
CrashInSave ==
    /\ tpm.dev.cmd.code = "nv_write"
    /\ tpm' = [tpm EXCEPT !.dev = apply_state(Fresh, Malformed), !.file = Malformed,
                          !.lagging = FALSE]

TpmNext == Put \/ Start \/ Locality \/ Restart \/ CrashInSave

----------------------------------------------------------------------------
\* PCRs only grow while the machine runs, and all of them are back at zero
\* after a restart: no command and no state file rolls one back or brings a
\* measurement over.
PcrsOnlyExtend ==
    \/ \A p \in Pcrs : IsPrefix(tpm.dev.pcr[p], tpm'.dev.pcr[p])
    \/ \A p \in Pcrs : tpm'.dev.pcr[p] = <<>>

\* The state file never lags the NV storage, except after a save that failed:
\* a restart at any other moment brings back every blob, and none from earlier.
NvSurvivesRestart ==
    ~ tpm.lagging => tpm.dev.nv = (IF tpm.file.ok THEN tpm.file.state.nv ELSE Blank)

\* The random stream never goes back to a position already handed out
\* (the reason serialize_state's comment gives for saving it).
RandomNeverRepeats == tpm'.dev.rng >= tpm.dev.rng

-----------------------------------------------------------------------------
(***************************************************************************)
(* The keyboard controller with its keyboard and mouse (ps2/mod.rs,        *)
(* keyboard.rs, mouse.rs): commands and their data bytes, the one output   *)
(* queue both devices answer through, the status bits and the interrupt    *)
(* lines.  A byte is a token that names its kind.                          *)
(***************************************************************************)
CONSTANTS
  MaxQueue,   \* bound on the output queue; the code has none
  KbdBytes,   \* commands the guest gives the keyboard
  MouseBytes  \* and the mouse

VARIABLE kb

\* The handshake that turns the mouse into one with a wheel may have happened.
KbcInit ==
  \E id \in {0, 3} :
  kb = [cfg |-> [kbd |-> TRUE, mouse |-> TRUE], full |-> FALSE, aux |-> FALSE,
        queue |-> <<>>, pending |-> "none", kbd_irq |-> FALSE, mouse_irq |-> FALSE,
        kbd_line |-> FALSE, mouse_line |-> FALSE,
        scanning |-> TRUE, kbd_await |-> "none",
        reporting |-> FALSE, mouse_id |-> id, mouse_await |-> "none"]

K(b) == <<b, FALSE>>
M(b) == <<b, TRUE>>

\* The status bits and the interrupts describe the byte at the front.
refresh_output_status(c) ==
  LET mouse == c.queue # <<>> /\ Head(c.queue)[2]
  IN [c EXCEPT !.full = c.queue # <<>>, !.aux = mouse,
               !.mouse_irq = mouse /\ c.cfg.mouse,
               !.kbd_irq = c.queue # <<>> /\ ~mouse /\ c.cfg.kbd]

\* Every access ends by driving the two lines.
sync_irqs(c) == [c EXCEPT !.kbd_line = c.kbd_irq, !.mouse_line = c.mouse_irq]

queue_output(c, bytes) == refresh_output_status([c EXCEPT !.queue = @ \o bytes])

read_data(c) == refresh_output_status([c EXCEPT !.queue = IF @ = <<>> THEN @ ELSE Tail(@)])

-----------------------------------------------------------------------------
(* The devices: the state they move to and the bytes they answer *)

kbd_answer(c, b) ==
  CASE c.kbd_await # "none" -> <<K("ack")>>
    [] b = "identify" -> <<K("ack"), K("id1"), K("id2")>>
    [] b = "reset" -> <<K("ack"), K("bat")>>
    [] b = "echo" -> <<K("echo")>>
    [] OTHER -> <<K("ack")>>

kbd_receive(c, b) ==
  CASE c.kbd_await # "none" -> [c EXCEPT !.kbd_await = "none"]
    [] c.kbd_await = "none" /\ b = "leds" -> [c EXCEPT !.kbd_await = b]
    [] c.kbd_await = "none" /\ b \in {"enable", "defaults", "reset"} -> [c EXCEPT !.scanning = TRUE]
    [] c.kbd_await = "none" /\ b = "disable" -> [c EXCEPT !.scanning = FALSE]
    [] OTHER -> c

packet(c) == IF c.mouse_id = 3 THEN <<M("b0"), M("dx"), M("dy"), M("dz")>>
             ELSE <<M("b0"), M("dx"), M("dy")>>

mouse_answer(c, b) ==
  CASE c.mouse_await # "none" -> <<M("ack")>>
    [] b = "reset" -> <<M("ack"), M("bat"), M("id0")>>
    [] b = "identify" -> <<M("ack"), M("id")>>
    [] b = "read" -> <<M("ack")>> \o packet(c)
    [] b = "status" -> <<M("ack"), M("status"), M("resolution"), M("rate")>>
    [] OTHER -> <<M("ack")>>

mouse_receive(c, b) ==
  CASE c.mouse_await # "none" -> [c EXCEPT !.mouse_await = "none"]
    [] c.mouse_await = "none" /\ b = "reset" ->
         [c EXCEPT !.mouse_id = 0, !.reporting = FALSE]
    [] c.mouse_await = "none" /\ b \in {"defaults", "disable"} -> [c EXCEPT !.reporting = FALSE]
    [] c.mouse_await = "none" /\ b = "enable" -> [c EXCEPT !.reporting = TRUE]
    [] c.mouse_await = "none" /\ b \in {"rate", "resolution"} -> [c EXCEPT !.mouse_await = b]
    [] OTHER -> c

-----------------------------------------------------------------------------
(* The ports and the host's input; each ends in sync_irqs *)

\* What a byte written to the data port means depends on the command before.
\* Configuration is stored without a look at what waits in the queue.
write_data(c, b) ==
  LET d == [c EXCEPT !.pending = "none"]
  IN CASE c.pending = "none" -> queue_output(kbd_receive(c, b), kbd_answer(c, b))
       [] c.pending = "mouse" -> queue_output(mouse_receive(d, b), mouse_answer(c, b))
       [] c.pending = "config" -> [d EXCEPT !.cfg = [kbd |-> b = "enable", mouse |-> b = "enable"]]
       [] c.pending = "output" -> d

write_command(c, cmd) ==
  IF cmd \in {"config", "mouse", "output"} THEN [c EXCEPT !.pending = cmd]
  ELSE queue_output(c, <<K(cmd)>>)

inject_key(c) == IF c.scanning THEN queue_output(c, <<K("key")>>) ELSE c

inject_mouse_wheel(c) == IF c.reporting THEN queue_output(c, packet(c)) ELSE c

DataBytes(c) ==
  CASE c.pending = "none" -> KbdBytes
    [] c.pending = "mouse" -> MouseBytes
    [] OTHER -> {"enable", "disable"}

Step(c) == kb' = sync_irqs(c) /\ Len(c.queue) <= MaxQueue

KbcNext ==
  \/ Step(read_data(kb))
  \/ \E b \in DataBytes(kb) : Step(write_data(kb, b))
  \/ \E cmd \in {"config", "mouse", "output", "self_test"} : Step(write_command(kb, cmd))
  \/ Step(inject_key(kb))
  \/ Step(inject_mouse_wheel(kb))

-----------------------------------------------------------------------------
(* Properties *)

\* The status register tells the guest the truth about the next byte: whether
\* there is one and which device it is from, and at most that device's line is
\* high (refresh_output_status); a guest that trusts it never gives a mouse byte
\* to the keyboard.
StatusMatchesFront ==
  /\ kb.full <=> kb.queue # <<>>
  /\ kb.aux <=> kb.queue # <<>> /\ Head(kb.queue)[2]
  /\ kb.kbd_line => kb.full /\ ~kb.aux
  /\ kb.mouse_line => kb.full /\ kb.aux

Follows(b, S) ==
  \A i \in 1 .. Len(kb.queue) :
    kb.queue[i] = b /\ i > 1 => kb.queue[i - 1] \in S

\* A device's answer is never torn: the bytes after its acknowledge and the
\* bytes of a movement packet stay adjacent, whatever the other device and the
\* host put in meanwhile (write_data, drain_keyboard, drain_mouse).
AnswersContiguous ==
  /\ Follows(K("bat"), {K("ack")}) /\ Follows(K("id2"), {K("id1")})
  /\ Follows(M("bat"), {M("ack")}) /\ Follows(M("id0"), {M("bat")})
  /\ Follows(M("dx"), {M("b0")}) /\ Follows(M("dy"), {M("dx")}) /\ Follows(M("dz"), {M("dy")})

-----------------------------------------------------------------------------
(***************************************************************************)
(* The emulated boot-protocol keyboard (usb/emulated.rs): every change of  *)
(* the keys held queues one report, the guest polls them from its          *)
(* interrupt endpoint, and SET_REPORT writes the LEDs.                     *)
(***************************************************************************)
CONSTANTS Keys, Rollover, MaxReports

VARIABLE hid

Report(d) == [modifiers |-> d.modifiers, held |-> d.held]

\* seen: what the guest knows after the last report it polled.
UsbInit ==
  hid = [held |-> <<>>, modifiers |-> FALSE, reports |-> <<>>, leds |-> 0,
        seen |-> [modifiers |-> FALSE, held |-> <<>>]]

queue_report(d) == [d EXCEPT !.reports = Append(@, Report(d))]

press_key(d, k) ==
  IF Contains(d.held, k) \/ Len(d.held) >= Rollover THEN d
  ELSE queue_report([d EXCEPT !.held = Append(@, k)])
release_key(d, k) ==
  IF ~Contains(d.held, k) THEN d
  ELSE queue_report([d EXCEPT !.held = SelectSeq(@, LAMBDA h : h # k)])
set_modifiers(d, m) ==
  IF d.modifiers = m THEN d ELSE queue_report([d EXCEPT !.modifiers = m])

\* Only SET_REPORT changes the device; the other requests answer from constants.
control(d, leds) == [d EXCEPT !.leds = leds]

\* An empty queue answers with no data, which tells the guest nothing.
transfer_in(d) ==
  IF d.reports = <<>> THEN d ELSE [d EXCEPT !.seen = Head(d.reports), !.reports = Tail(@)]

UsbNext ==
  \/ /\ Len(hid.reports) < MaxReports
     /\ \/ \E k \in Keys : hid' \in {press_key(hid, k), release_key(hid, k)}
        \/ \E m \in BOOLEAN : hid' = set_modifiers(hid, m)
  \/ \E leds \in 0 .. 1 : hid' = control(hid, leds)
  \/ hid' = transfer_in(hid)

-----------------------------------------------------------------------------
\* The guest never ends up with a stuck or a missing key: what the newest report says,
\* polled or still queued, is what is held, and each report differs from the one before.
GuestCatchesUp ==
  LET known == <<hid.seen>> \o hid.reports
  IN /\ Last(known) = Report(hid)
     /\ \A i \in 1 .. Len(known) - 1 : known[i] # known[i + 1]
     /\ Len(hid.held) <= Rollover

-----------------------------------------------------------------------------
(***************************************************************************)
(* The 16550 serial port (enlil-core serial.rs): the receive queue, the    *)
(* transmitter-empty condition, loopback, the FIFO control and the         *)
(* interrupt line, with the guest's register accesses and the host's input.*)
(***************************************************************************)
CONSTANTS
  RX_FIFO_CAPACITY,  \* receive queue length
  MaxBytes           \* bound on the bytes that arrive

VARIABLE ua

\* arrived, lost are history: bytes that reached the port, and how many of them
\* were dropped since the guest last read the line status.
ComInit ==
  ua = [rx_ie |-> FALSE, thr_ie |-> FALSE, dlab |-> FALSE, loop |-> FALSE, fifo |-> FALSE,
        overrun |-> FALSE, rx |-> <<>>, thr |-> FALSE, irq_level |-> FALSE,
        attached |-> FALSE, line |-> FALSE, arrived |-> 0, lost |-> FALSE]

compute_iir(u) ==
  IF u.rx_ie /\ u.rx # <<>> THEN "rx" ELSE IF u.thr_ie /\ u.thr THEN "thr" ELSE "none"

\* The line is driven when the level changes, once one is attached.
update_irq(u) ==
  LET level == compute_iir(u) # "none"
  IN [u EXCEPT !.irq_level = level,
               !.line = IF level # u.irq_level /\ u.attached THEN level ELSE @]

\* A line attached later learns of a condition already pending.
set_irq_line(u) == update_irq([u EXCEPT !.attached = TRUE, !.irq_level = FALSE])

receive(u) ==
  IF Len(u.rx) >= RX_FIFO_CAPACITY
  THEN [u EXCEPT !.overrun = TRUE, !.arrived = @ + 1, !.lost = TRUE]
  ELSE [u EXCEPT !.rx = Append(@, u.arrived), !.arrived = @ + 1]

inject_input(u) == update_irq(receive(u))

\* Reads of the data, interrupt-identification and line-status registers.
Com_read_data(u) ==
  update_irq(IF u.dlab \/ u.rx = <<>> THEN u ELSE [u EXCEPT !.rx = Tail(@)])

read_iir(u) == update_irq(IF compute_iir(u) = "thr" THEN [u EXCEPT !.thr = FALSE] ELSE u)

read_lsr(u) == update_irq([u EXCEPT !.overrun = FALSE, !.lost = FALSE])

\* Writing the data register transmits, or loops back; the register is at once
\* empty again.
Com_write_data(u) ==
  update_irq(IF u.dlab THEN u
             ELSE [(IF u.loop THEN receive(u) ELSE u) EXCEPT !.thr = TRUE])

\* Enabling the transmitter interrupt raises it: the register is empty.
write_ier(u, rx, thr) ==
  update_irq(IF u.dlab THEN u
             ELSE [u EXCEPT !.rx_ie = rx, !.thr_ie = thr,
                            !.thr = @ \/ (thr /\ ~u.thr_ie)])

write_fcr(u, fifo, clear) ==
  update_irq([u EXCEPT !.fifo = fifo, !.rx = IF clear THEN <<>> ELSE @])

write_lcr(u, dlab) == update_irq([u EXCEPT !.dlab = dlab])

write_mcr(u, loop) == update_irq([u EXCEPT !.loop = loop])

ComNext ==
  \/ ua.arrived < MaxBytes /\ ua' = inject_input(ua)
  \/ (ua.loop => ua.arrived < MaxBytes) /\ ua' = Com_write_data(ua)
  \/ ~ua.attached /\ ua' = set_irq_line(ua)
  \/ ua' = Com_read_data(ua) \/ ua' = read_iir(ua) \/ ua' = read_lsr(ua)
  \/ \E rx, thr \in BOOLEAN : ua' = write_ier(ua, rx, thr)
  \/ \E fifo, clear \in BOOLEAN : ua' = write_fcr(ua, fifo, clear)
  \/ \E b \in BOOLEAN : ua' = write_lcr(ua, b) \/ ua' = write_mcr(ua, b)

-----------------------------------------------------------------------------
(* Properties *)

\* The interrupt line, once attached, is high exactly while an enabled
\* condition holds, however accesses, input and attaching interleave: the guest
\* is never left with a byte to read and a line that is low (update_irq).
LineMatchesCondition == ua.attached => (ua.line <=> compute_iir(ua) # "none")

\* A guest that has just enabled the transmitter interrupt gets one at once, so
\* that its driver starts to send (write_ier: the classic start of a driver).
EnableKicks ==
  ~ua.thr_ie /\ ua'.thr_ie => compute_iir(ua') # "none"

\* No byte is lost in silence: the receive queue keeps what arrived in order,
\* and a drop shows in the line status until it is read (inject_input, Com_write_data).
LossIsReported ==
  /\ Len(ua.rx) <= RX_FIFO_CAPACITY
  /\ \A i \in 1 .. Len(ua.rx) - 1 : ua.rx[i] < ua.rx[i + 1]
  /\ ua.lost => ua.overrun

=============================================================================
