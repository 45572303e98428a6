----------------------------- MODULE MCChipset ------------------------------
(***************************************************************************)
(* The devices of the PC chipset and the board of the boot hypervisor's    *)
(* guest, with the AML tables that describe them; and the host's side of a *)
(* machine before and around them: its configuration, the boot loader, the *)
(* host's drivers and USB.  Each is a module with one record of state and  *)
(* they share none, so it is enough to let one of them, `part`, move in    *)
(* each behaviour; `st` is its state.                                      *)
(***************************************************************************)
EXTENDS Naturals, Sequences

VARIABLES part, st

Physical(id) == [logical |-> FALSE, id |-> id]
Logical(bits) == [logical |-> TRUE, id |-> bits]
Entry(v, lowest, dest, level) ==
  [vector |-> v, lowest |-> lowest, dest |-> dest, level |-> level,
   masked |-> FALSE, remote_irr |-> FALSE]

\* A line on each 8259; the slave is initialized, polled and put in automatic EOI, the
\* master in special mask mode.  Two CPUs and one I/O APIC input, which the guest programs
\* as a level interrupt for a CPU or for the less busy one, or as an edge one for all.
Chips == INSTANCE Chipset WITH
  Lines <- {5, 12}, Masks <- [master |-> {{}, {5}}, slave |-> {{}}],
  Modes <- [master |-> {"special", "poll"}, slave |-> {"init", "aeoi"}], pic <- st,
  Cpus <- {0, 1}, Pins <- {16}, Vectors <- {33, 49}, Tprs <- {0, 32},
  Ldr <- [c \in {0, 1} |-> {c}], Flat <- TRUE, Toggled <- {1},
  Entries <- {Entry(33, FALSE, Physical(0), TRUE), Entry(33, TRUE, Logical({0, 1}), TRUE),
              Entry(49, FALSE, Physical(255), FALSE)},
  Messages <- {[vector |-> 33, lowest |-> TRUE, dest |-> Logical({1})],
               [vector |-> 49, lowest |-> FALSE, dest |-> Physical(1)]},
  ic <- st,
\* The clock is set to the last second of 1999, of February in 2000, 2023, 2024 and 2100, of
\* April 2024, of a morning and of a first hour of the afternoon.
  Counts <- {0, 1, 3}, Divisors <- {1, 2}, LapicBatches <- {0, 1, 2, 5}, MaxTsc <- 2, tm <- st,
  Radix <- 3, ch <- st,
  Timers <- {0}, Values <- {0, 2, 3}, HpetBatches <- {1, 2, 4}, HpetWrap <- 8, hp <- st,
  Starts <- {<<d, 86399>> : d \in {10956, 11015, 19416, 19781, 47540, 19843}}
              \cup {<<19800, 43199>>, <<19800, 46799>>},
  Alarms <- {<<0, 0, 0>>, <<255, 255, 12>>}, MaxTicks <- 2, rtc <- st

\* The boot hypervisor's guest: PIT and master PIC; serial port, a disk and both PICs; disk
\* interrupts through PIRQ routes and I/O APIC; APIC timer with the PIT on an I/O APIC pin.
Legacy == INSTANCE GuestBoard WITH
  Platform <- FALSE, Ops <- {"icw1", "eoi", "imr", "pit", "hlt"}, Counts <- {1, 2}, Pics <- {"m"},
  Imrs <- {{}, {0}}, Redirs <- {}, Disks <- {}, MaxTime <- 2, Cap <- 1, b <- st
Serial == INSTANCE GuestBoard WITH
  Platform <- FALSE, Ops <- {"uart", "eoi", "imr", "disk", "elcr", "cr8", "reset"}, Counts <- {},
  Pics <- {"m", "s"}, Imrs <- {{}}, Redirs <- {}, Disks <- {0}, MaxTime <- 0, Cap <- 1, b <- st
Routed == INSTANCE GuestBoard WITH
  Platform <- TRUE, Ops <- {"svr", "tpr", "lint0", "lapic_eoi", "redir", "disk", "route", "eoi", "imr"},
  Counts <- {}, Pics <- {"s"}, Imrs <- {{}}, Redirs <- {<<19, TRUE>>, <<19, FALSE>>},
  Disks <- {0}, MaxTime <- 0, Cap <- 1, b <- st
Firmware == INSTANCE GuestBoard WITH
  Platform <- TRUE, Ops <- {"svr", "lvt", "lapic_eoi", "hlt", "redir", "pit"}, Counts <- {1},
  Pics <- {}, Imrs <- {}, Redirs <- {<<2, FALSE>>}, Disks <- {}, MaxTime <- 2, Cap <- 1, b <- st

\* AML streams nested up to one level too deep, around the length where the length field
\* grows; the tables of a guest with 0, 1, 10 or 17 processors, and lists of performance
\* states with a body of 62 bytes and of 4094.
Zeros(n) == [i \in 1..n |-> 0]
Word(k) == <<k % 256, (k \div 256) % 256, k \div 65536>> \o Zeros(5)
PState(mhz, mw, us, c) == <<Word(mhz), Word(mw), Word(us), Word(c), Word(c)>>
Turbo == PState(3600, 95000, 1, 36)
Nominal == PState(3000, 95000, 10, 30)
Slow == PState(3000, 95000, 70000, 30)
Lists == {<<PState(3600, 95000, 10, 36), PState(3000, 65000, 10, 30),
            PState(2400, 45000, 10, 24), PState(1200, 20000, 10, 12)>>, <<Turbo, Nominal, Slow>>,
          [i \in 1..16 |-> IF i <= 9 THEN Turbo ELSE IF i <= 15 THEN Nominal ELSE Slow]}
Platforms ==
  [vcpu_count : {0, 1, 17}, com1_port : {1016, 760}, com1_irq : {4}, has_hpet : BOOLEAN,
   has_rtc : {TRUE}, has_ps2 : BOOLEAN,
   hole : {<<<<0, 0, 0, 192>>, <<255, 255, 191, 254>>, <<0, 0, 192, 62>>>>},
   hole64 : {<<<<0, 0, 0, 0, 8, 0, 0, 0>>, <<255, 255, 255, 255, 135, 0, 0, 0>>,
               <<0, 0, 0, 0, 128, 0, 0, 0>>>>}]
Streams == INSTANCE Aml WITH
  Ints <- {<<9, 1, 0, 0, 1, 0, 0, 0>>}, Strings <- {51, 52}, MaxTerms <- 3, MaxOpen <- 3, MaxDamaged <- 2,
  Damages <- {255}, MAX_NESTING_DEPTH <- 2, Slots <- 0, Dsdts <- {}, Ssdts <- {}, Masks <- {}, Bytes <- {},
  ab <- st, tb <- st, lk <- st
Acpi == INSTANCE Aml WITH
  Ints <- {}, Strings <- {}, MaxTerms <- 0, MaxOpen <- 0, MaxDamaged <- 0, Damages <- {},
  MAX_NESTING_DEPTH <- 64, Slots <- 4, Dsdts <- Platforms,
  Ssdts <- [vcpu_count : {0, 1, 10}, pstates : Lists],
  Masks <- {{}, {5}, {10, 11}, {3, 15}, {2, 9}, {15}}, Bytes <- {0, 11, 128, 139, 255},
  ab <- st, tb <- st, lk <- st

\* Wide, narrow and misaligned accesses to the PM1 and GPE0 blocks; a DMA controller with
\* a channel of two-digit words; clocks with ticks of 3 and 2 units and a PM timer of 5 ticks in 7.
At(b, off, size, data) == [block |-> b, off |-> off, size |-> size, data |-> data]
Pc == INSTANCE StandardPc WITH
  PmWrites <- {At("pm1", 0, 4, {8, 24}), At("pm1", 0, 2, {8}), At("pm1", 0, 1, {}), At("pm1", 2, 2, {8, 15}),
               At("pm1", 4, 2, {13, 10, 12}), At("pm1", 4, 2, {0, 11}), At("pm1", 1, 1, {0}),
               At("gpe", 0, 1, {1}), At("gpe", 1, 2, {1, 8}), At("gpe", 6, 4, {0, 9, 17}), At("gpe", 8, 1, {1})},
  Gpes <- {1, 9, 17, 57, 64}, B <- 2, Channels <- {0}, BLOCK_LEN <- 2,
  HPET_TICK <- 3, PIT_TICK <- 2, PmRate <- <<5, 7>>, Deltas <- 1 .. 5, MaxTotal <- 12,
  Pcrs <- {}, NvIndices <- {}, Values <- {}, MaxExtend <- 0, MaxRandom <- 0,
  pm <- st, dma <- st, smb <- st, clk <- st, tpm <- st,
  MaxQueue <- 4, KbdBytes <- {"leds", "reset"}, MouseBytes <- {"reset", "enable"}, kb <- st,
  Keys <- {4, 5, 6}, Rollover <- 2, MaxReports <- 2, hid <- st,
  RX_FIFO_CAPACITY <- 2, MaxBytes <- 3, ua <- st

\* One device at a time drives the shared interrupt wire, and the guest reroutes it.
Wires == INSTANCE PciIntx WITH Uses <- {{"smbus"}, {"xhci"}}, Routes <- {11, 10, 128, 13}, x <- st

\* Two guests at most; hosts of one and three processors, with memory for one guest and two.
Host == INSTANCE Setup WITH
  Guests <- {"a", "b"}, MaxEdits <- 2, Cpus <- {1, 3}, Rams <- {7, 9}, Keys <- 4,
  conf <- st, wiz <- st, field <- st, list <- st

\* Configurations of four lines with a guest too many; one failing call of firmware; rings of
\* four descriptors; transfers that end in the middle of a page and one that is too long.
Loader == INSTANCE BootLoader WITH
  Ids <- {"a", "b", "c"}, BadId <- "bad", MaxLines <- 4, MaxFaults <- 1, MAX_BOOT_GUESTS <- 2,
  MAX_PCI_ROOT_BRIDGES <- 2, SECTOR <- 8, MIN_ENTRY_BYTES <- 2, toml <- st, ld <- st, gpt <- st,
  RING_ENTRIES <- 4, MaxFrames <- 6, PRD_PAGE <- 2, MAX_TRANSFER <- 3, BYTE <- 2, Lbas <- {1, 8},
  Lens <- {0, 1, 3, 4}, MaxCalls <- 2, nic <- st, ahci <- st

\* Fields at both ends of their widths; a ring of four that wraps; addresses that run out.
Usb == INSTANCE UsbHost WITH
  Slots <- {0, 255}, Dcis <- {1, 31}, Pointers <- {{}, {0, 4, 63}, {0, 1, 2, 3, 24}},
  Lengths <- {{}, {16, 17, 23, 24, 31}}, Speeds <- {1, 4}, RING_SIZE <- 4, MaxBlocks <- 4, Ports <- 3,
  Paths <- {1, 2}, MAX_ADDRESS <- 4, PacketSize <- 3, MaxData <- 7, Interfaces <- {0, 1}, Configs <- {1, 2},
  trb <- st, ctx <- st, td <- st, port <- st, regs <- st, mon <- st, iso <- st, fwd <- st

Init ==
  \/ part = "pic" /\ Chips!PicInit
  \/ part = "apic" /\ Chips!ApicInit
  \/ part = "timer" /\ Chips!LapicInit
  \/ part = "pit" /\ Chips!PitInit
  \/ part = "hpet" /\ Chips!HpetInit
  \/ part = "rtc" /\ Chips!RtcInit
  \/ part = "kbc" /\ Pc!KbcInit
  \/ part = "keyboard" /\ Pc!UsbInit
  \/ part = "com1" /\ Pc!ComInit
  \/ part = "firmware" /\ Firmware!Init
  \/ part = "routed" /\ Routed!Init
  \/ part = "serial" /\ Serial!Init
  \/ part = "legacy" /\ Legacy!Init
  \/ part = "aml" /\ Streams!BuilderInit
  \/ part = "acpi" /\ Acpi!TablesInit
  \/ part = "link" /\ Acpi!LinkInit
  \/ part = "power" /\ Pc!PmInit
  \/ part = "dma" /\ Pc!DmaInit
  \/ part = "smbus" /\ Pc!SmbInit
  \/ part = "clocks" /\ Pc!ClkInit
  \/ part = "intx" /\ Wires!Init
  \/ part = "config" /\ Host!ConfInit
  \/ part = "wizard" /\ Host!WizInit
  \/ part = "prompt" /\ Host!FieldInit
  \/ part = "choice" /\ Host!ListInit
  \/ part = "sections" /\ Loader!TomlInit
  \/ part = "loader" /\ Loader!LoaderInit
  \/ part = "partitions" /\ Loader!GptInit
  \/ part = "nic" /\ Loader!NicInit
  \/ part = "ahci" /\ Loader!AhciInit
  \/ part = "trb" /\ Usb!TrbInit
  \/ part = "contexts" /\ Usb!CtxInit
  \/ part = "transfers" /\ Usb!TdInit
  \/ part = "port" /\ Usb!PortInit
  \/ part = "registers" /\ Usb!RegsInit
  \/ part = "monitor" /\ Usb!MonInit
  \/ part = "iso" /\ Usb!IsoInit
  \/ part = "forwarder" /\ Usb!FwdInit

Next ==
  \/ part = "pic" /\ Chips!PicNext /\ UNCHANGED part
  \/ part = "apic" /\ Chips!ApicNext /\ UNCHANGED part
  \/ part = "timer" /\ Chips!LapicNext /\ UNCHANGED part
  \/ part = "pit" /\ Chips!PitNext /\ UNCHANGED part
  \/ part = "hpet" /\ Chips!HpetNext /\ UNCHANGED part
  \/ part = "rtc" /\ Chips!RtcNext /\ UNCHANGED part
  \/ part = "kbc" /\ Pc!KbcNext /\ UNCHANGED part
  \/ part = "keyboard" /\ Pc!UsbNext /\ UNCHANGED part
  \/ part = "com1" /\ Pc!ComNext /\ UNCHANGED part
  \/ part = "firmware" /\ Firmware!Next /\ UNCHANGED part
  \/ part = "routed" /\ Routed!Next /\ UNCHANGED part
  \/ part = "serial" /\ Serial!Next /\ UNCHANGED part
  \/ part = "legacy" /\ Legacy!Next /\ UNCHANGED part
  \/ part = "aml" /\ Streams!BuilderNext /\ UNCHANGED part
  \/ part = "acpi" /\ Acpi!TablesNext /\ UNCHANGED part
  \/ part = "link" /\ Acpi!LinkNext /\ UNCHANGED part
  \/ part = "power" /\ Pc!PmNext /\ UNCHANGED part
  \/ part = "dma" /\ Pc!DmaNext /\ UNCHANGED part
  \/ part = "smbus" /\ Pc!SmbNext /\ UNCHANGED part
  \/ part = "clocks" /\ Pc!ClkNext /\ UNCHANGED part
  \/ part = "intx" /\ Wires!Next /\ UNCHANGED part
  \/ part = "config" /\ Host!ConfNext /\ UNCHANGED part
  \/ part = "wizard" /\ Host!WizNext /\ UNCHANGED part
  \/ part = "prompt" /\ Host!FieldNext /\ UNCHANGED part
  \/ part = "choice" /\ Host!ListNext /\ UNCHANGED part
  \/ part = "sections" /\ Loader!TomlNext /\ UNCHANGED part
  \/ part = "loader" /\ Loader!LoaderNext /\ UNCHANGED part
  \/ part = "partitions" /\ Loader!GptNext /\ UNCHANGED part
  \/ part = "nic" /\ Loader!NicNext /\ UNCHANGED part
  \/ part = "ahci" /\ Loader!AhciNext /\ UNCHANGED part
  \/ part = "trb" /\ Usb!TrbNext /\ UNCHANGED part
  \/ part = "contexts" /\ Usb!CtxNext /\ UNCHANGED part
  \/ part = "transfers" /\ Usb!TdNext /\ UNCHANGED part
  \/ part = "port" /\ Usb!PortNext /\ UNCHANGED part
  \/ part = "registers" /\ Usb!RegsNext /\ UNCHANGED part
  \/ part = "monitor" /\ Usb!MonNext /\ UNCHANGED part
  \/ part = "iso" /\ Usb!IsoNext /\ UNCHANGED part
  \/ part = "forwarder" /\ Usb!FwdNext /\ UNCHANGED part

Spec == Init /\ [][Next]_<<part, st>>

\* Interrupts nest: what a chip or a local APIC serves next outranks what it is
\* serving, on both sides of the cascade (FullyNested, CascadeNested,
\* PriorityNested).
NestedService ==
  [][/\ part = "pic" => Chips!FullyNested /\ Chips!CascadeNested
     /\ part = "apic" => Chips!PriorityNested]_st

\* What waits for the guest is shown to it: a held level line keeps interrupting,
\* the serial line is high while a condition is pending, the keyboard controller's
\* status and interrupts describe the byte that is read next, a USB keyboard's
\* reports bring the guest to the keys held, a PCI device with a cause is heard, and
\* the SMBus host serves one agent at a time (HeldLineServed, LineMatchesCondition,
\* StatusMatchesFront, GuestCatchesUp, Heard, PicFollows, SmbusShared).
LinesServed ==
  /\ part = "apic" => Chips!HeldLineServed
  /\ part = "com1" => Pc!LineMatchesCondition
  /\ part = "kbc" => Pc!StatusMatchesFront
  /\ part = "keyboard" => Pc!GuestCatchesUp
  /\ part = "intx" => Wires!Heard /\ Wires!PicFollows
  /\ part = "smbus" => Pc!SmbusShared

\* Requests and lines change for a cause only: a level request follows its line,
\* the clock's line rises for an enabled flag, and enabling the transmitter
\* interrupt raises one (LevelFollowsLine, RisingLineHasCause,
\* EnableKicks).
LinesFollowCauses ==
  [][/\ part = "pic" => Chips!LevelFollowsLine
     /\ part = "rtc" => Chips!RisingLineHasCause
     /\ part = "com1" => Pc!EnableKicks]_st

\* Timers fire when they should: the local APIC's in any batches of clocks and
\* never for a deadline of another mode, the 8254 once per period or load, the
\* HPET with its next tick ahead; and clocks advanced together stay within a tick
\* per call (BatchIndependent, NoStaleDeadline, RatePeriod, SquarePeriod,
\* TerminalOnce, PeriodicAhead, ClocksLag).
TimersOnTime ==
  /\ part = "timer" => Chips!LapicTypeOK /\ Chips!BatchIndependent /\ Chips!NoStaleDeadline
  /\ part = "pit" => /\ Chips!PitTypeOK /\ Chips!RatePeriod
                     /\ Chips!SquarePeriod /\ Chips!TerminalOnce
  /\ part = "hpet" => Chips!HpetTypeOK /\ Chips!PeriodicAhead
  /\ part = "clocks" => Pc!ClocksLag

\* What a device keeps for the guest is kept whole: the calendar agrees with the
\* day number and is unchanged by writing back what was read, no answer or packet
\* is torn, no byte is lost unreported, power events and DMA words are what was
\* raised and written, and the AML that describes the devices is
\* read as it was meant (CalendarExact, ReadsWriteBack, AnswersContiguous,
\* LossIsReported, BuiltIsRead, WalkTotal, TablesRead, LinkFollows,
\* PowerHonest, DmaPrograms; the controllers' TypeOK).
DataIntact ==
  /\ part = "rtc" => Chips!CalendarExact /\ Chips!ReadsWriteBack
  /\ part = "kbc" => Pc!AnswersContiguous
  /\ part = "com1" => Pc!LossIsReported
  /\ part = "pic" => Chips!PicTypeOK
  /\ part = "apic" => Chips!ApicTypeOK
  /\ part = "aml" => Streams!BuiltIsRead /\ Streams!WalkTotal
  /\ part = "acpi" => Acpi!TablesRead
  /\ part = "link" => Acpi!LinkFollows
  /\ part = "power" => Pc!PowerHonest
  /\ part = "dma" => Pc!DmaPrograms

\* The boot hypervisor's guest misses no interrupt: the host timer is armed for its next
\* device deadline whenever it runs, a PIT tick stays latched until it is taken, lines show
\* their causes, a level input is neither lost nor stormed, and a guest is given up as idle
\* only when nothing can wake it.
BoardServed ==
  /\ part = "legacy" => Legacy!TimersCovered /\ Legacy!TicksKept /\ Legacy!IdleIsFinal
  /\ part = "serial" => Serial!LinesFollowCauses
  /\ part = "routed" => Routed!LinesFollowCauses /\ Routed!LevelsServed
  /\ part = "firmware" => Firmware!TimersCovered /\ Firmware!TicksKept /\ Firmware!IdleIsFinal

\* What stands around the guests is what was asked for and what is there: a configuration
\* that passes validation and one the wizard writes can be honoured, prompts return what was
\* typed, the loader hands over all it staged and nothing of what failed, the host's drivers
\* move each frame and sector once, and USB blocks, contexts, ports and transfers carry what
\* either side meant (ConfigExact, WizardExact, FieldExact, ListExact, SectionsRead,
\* HandoffWhole, PartitionsFound, RingsExact, SectorsExact, BlocksExact, ContextsExact,
\* TransfersWhole, PortHonest, WindowExact, MonitorExact, IsoExact, ForwarderExact).
HostExact ==
  /\ part = "config" => Host!ConfigExact
  /\ part = "wizard" => Host!WizardExact
  /\ part = "prompt" => Host!FieldExact
  /\ part = "choice" => Host!ListExact
  /\ part = "sections" => Loader!SectionsRead
  /\ part = "loader" => Loader!HandoffWhole
  /\ part = "partitions" => Loader!PartitionsFound
  /\ part = "nic" => Loader!RingsExact
  /\ part = "ahci" => Loader!SectorsExact
  /\ part = "trb" => Usb!BlocksExact
  /\ part = "contexts" => Usb!ContextsExact
  /\ part = "transfers" => Usb!TransfersWhole
  /\ part = "port" => Usb!PortHonest
  /\ part = "registers" => Usb!WindowExact
  /\ part = "monitor" => Usb!MonitorExact
  /\ part = "iso" => Usb!IsoExact
  /\ part = "forwarder" => Usb!ForwarderExact

=============================================================================
