------------------------------ MODULE MCDevices ------------------------------
(***************************************************************************)
(* Storage, network, TPM, PCI, sound, display, the bridge between guests   *)
(* with the management console, and the run loop that drives the machine,  *)
(* side by side.  In each behaviour one of them, `part`, moves and `st` is *)
(* its state.                                                              *)
(***************************************************************************)
EXTENDS Naturals, FiniteSets, TLC

VARIABLES part, st

\* Three sectors, one protected and one writable; a queue of two that wraps at 4.
Blk == INSTANCE GuestDisks WITH
  IO_QUEUES_MAX <- 0, SqSize <- {}, CqSize <- {}, AER_LIMIT <- 0, Commands <- {}, Cids <- {}, nvme <- st,
  Sectors <- 3, Ranges <- {[start |-> 0, end |-> 1, writable |-> FALSE],
                           [start |-> 1, end |-> 2, writable |-> TRUE]},
  QUEUE_MAX <- 2, W <- 4, ReadOnly <- FALSE, Sizes <- {1, 3},
  Requests <- {[kind |-> "out", sector |-> 0, n |-> 2, fault |-> "no"],
               [kind |-> "out", sector |-> 1, n |-> 1, fault |-> "no"],
               [kind |-> "in", sector |-> 1, n |-> 1, fault |-> "chain"]},
  blk <- st,
\* Two entries a table, four a refcount block, seven clusters over a backing file of three.
  TABLE <- 2, RBE <- 4, L1 <- 2, Size <- 7, Backing <- <<7, 7, 7>>,
  Writes <- {<<1, 1, 1>>, <<2, 3, 2>>, <<6, 2, 3>>}, Trims <- {<<1, 6>>}, MaxLen <- 13, img <- st

Command(op, qid, cqid, blocks) ==
  [op |-> op, qid |-> qid, cqid |-> cqid, cid |-> 0, lba |-> 0, blocks |-> blocks]

\* Two submission queues that share a completion queue of two entries.
NvmeShare == INSTANCE GuestDisks WITH
  TABLE <- 0, RBE <- 0, L1 <- 0, Size <- 0, Backing <- <<>>, Writes <- {}, Trims <- {}, MaxLen <- 0, img <- st,
  QUEUE_MAX <- 0, W <- 0, Sizes <- {}, Requests <- {}, blk <- st,
  Sectors <- 2, Ranges <- {[start |-> 0, end |-> 1, writable |-> TRUE]},
  IO_QUEUES_MAX <- 2, SqSize <- [q \in 0 .. 2 |-> 2], CqSize <- [q \in 0 .. 2 |-> 2],
  AER_LIMIT <- 1, ReadOnly <- FALSE, Cids <- {0, 1},
  Commands <- 0 :> {Command("create_cq", 1, 0, 2), Command("create_sq", 1, 1, 2),
                    Command("create_sq", 2, 1, 2), Command("delete_sq", 1, 0, 2)}
           @@ 1 :> {Command("write", 0, 0, 1)}
           @@ 2 :> {Command("read", 0, 0, 2)},
  nvme <- st

\* Queues created and deleted while commands are outstanding.
NvmeManage == INSTANCE GuestDisks WITH
  TABLE <- 0, RBE <- 0, L1 <- 0, Size <- 0, Backing <- <<>>, Writes <- {}, Trims <- {}, MaxLen <- 0, img <- st,
  QUEUE_MAX <- 0, W <- 0, Sizes <- {}, Requests <- {}, blk <- st,
  Sectors <- 2, Ranges <- {[start |-> 0, end |-> 1, writable |-> TRUE]},
  IO_QUEUES_MAX <- 1, SqSize <- (0 :> 3 @@ 1 :> 2), CqSize <- [q \in 0 .. 1 |-> 2],
  AER_LIMIT <- 1, ReadOnly <- FALSE, Cids <- {0, 1},
  Commands <- 0 :> {Command("create_cq", 1, 0, 2), Command("create_sq", 1, 1, 2),
                    Command("delete_sq", 1, 0, 2), Command("delete_cq", 1, 0, 2),
                    Command("aer", 0, 0, 2), Command("set_features", 2, 0, 2)}
           @@ 1 :> {Command("write_zeroes", 0, 0, 2)},
  nvme <- st

\* The boot hypervisor's driver, and the passthrough back end's with a queue of two.
DriverBoot == INSTANCE NvmeDriver WITH
  Variant <- "boot", IO_QUEUE_SIZE <- 3, CID_WRAP <- 4, MaxQid <- 2, Sectors <- 2,
  STAGING <- 1, Values <- {1}, MaxTimeouts <- 1, s <- st
DriverVfio == INSTANCE NvmeDriver WITH
  Variant <- "vfio", IO_QUEUE_SIZE <- 2, CID_WRAP <- 3, MaxQid <- 2, Sectors <- 2,
  STAGING <- 1, Values <- {1}, MaxTimeouts <- 1, s <- st

Chip == INSTANCE StandardPc WITH
  Pcrs <- {0}, NvIndices <- {1}, Values <- {"a", "b"}, MaxExtend <- 2, MaxRandom <- 1, PmWrites <- {}, Gpes <- {}, B <- 2, Channels <- {}, BLOCK_LEN <- 1, HPET_TICK <- 1, PIT_TICK <- 1,
  PmRate <- <<1, 1>>, Deltas <- {}, MaxTotal <- 0, pm <- st, dma <- st, smb <- st, clk <- st, tpm <- st,
  MaxQueue <- 0, KbdBytes <- {}, MouseBytes <- {}, kb <- st, Keys <- {}, Rollover <- 0, MaxReports <- 0,
  hid <- st, RX_FIFO_CAPACITY <- 0, MaxBytes <- 0, ua <- st

\* A machine whose deadline writes KVM consumes, and a firmware guest whose writes exit.
LoopFast == INSTANCE RunLoop WITH
  FastPath <- TRUE, Uefi <- FALSE, MaxTsc <- 2, MaxEntries <- 4, MaxResumes <- 1,
  MaxBoots <- 1, Jumps <- {}, r <- st
LoopUefi == INSTANCE RunLoop WITH
  FastPath <- FALSE, Uefi <- TRUE, MaxTsc <- 1, MaxEntries <- 3, MaxResumes <- 0,
  MaxBoots <- 2, Jumps <- {2}, r <- st

\* Writes of zeros and ones, in every width, over the registers of both functions.
Write(d, r, w, b) == [bdf |-> d, reg |-> r, width |-> w, byte |-> b]
Ones == 0 .. 7
GuestWrites ==
  {Write("xhci", r[1], r[2], b) : b \in {{}, Ones}, r \in {<<4, 4>>, <<16, 4>>, <<96, 4>>, <<112, 8>>}}
    \cup {Write("xhci", r[1], r[2], Ones) :
            r \in {<<0, 4>>, <<8, 2>>, <<80, 4>>, <<98, 1>>, <<114, 2>>, <<120, 4>>, <<144, 4>>}}
    \cup {Write("isa", 96, 1, {}), Write("isa", 98, 2, {0, 1, 3}), Write("none", 0, 4, {})}
Select(e, d, r) == [enable |-> e, bdf |-> d, reg |-> r]

\* Bridges that close cycles, share a bus behind them or lead nowhere, and storage behind them.
Function(m, b, s, c) == [multi |-> m, bridge |-> b, secondary |-> s, class |-> c]
Plain == {Function(FALSE, FALSE, 0, c) : c \in {"nvme", "other"}}
Bridges == {Function(m, TRUE, s, "other") : m \in BOOLEAN, s \in 0 .. 2}
Hierarchies ==
  {[f \in {g \in DOMAIN t : t[g].class # "absent"} |-> t[f]] :
     t \in {(<<0, 0, 0>> :> a) @@ (<<0, 0, 1>> :> b) @@ (<<0, 1, 0>> :> c) @@ (<<1, 0, 0>> :> d) @@ (<<2, 0, 1>> :> e)
               @@ (<<2, 0, 0>> :> f) :
               a \in Bridges, b \in {Function(FALSE, TRUE, 2, "other"), Function(FALSE, FALSE, 0, "network")},
               c \in {Function(FALSE, TRUE, 2, "other"), Function(FALSE, FALSE, 0, "xhci"), Function(FALSE, FALSE, 0, "absent")},
               d \in Bridges \cup Plain, e \in Plain,
               f \in {Function(TRUE, TRUE, 1, "other"), Function(FALSE, FALSE, 0, "ahci"), Function(TRUE, FALSE, 0, "absent")}}}

Bus == INSTANCE Pci WITH
  CfgWrites <- GuestWrites, cfg <- st,
  Selects <- {Select(TRUE, "xhci", 96), Select(TRUE, "isa", 96), Select(TRUE, "none", 0), Select(FALSE, "xhci", 4)},
  intr <- st,
  MaxAddr <- 5, Ranges <- (0 .. 5) \X (0 .. 5), bus <- st,
  LowBits <- 6, HighBits <- 3, bar <- st,
  Topologies <- Hierarchies, MAX_BUS <- 2, MAX_FOUND <- 2, walk <- st,
  Vfs <- 1 .. 3, Group <- (1 :> 1 @@ 2 :> 2 @@ 3 :> 2), Guests <- {"a", "b"}, Retries <- 2, vf <- st

\* Playback at the output rate and at half of it, with bytes of four values.
Sound == INSTANCE Audio WITH
  OUTPUT_RATE <- 2, PERIOD <- 2, Q <- 1, Rates <- {1, 2}, MAX_EVENTS <- 1, RX_CAP <- 1,
  MaxTicks <- 2, MaxFrames <- 3, Changes <- 2, snd <- st,
  B <- 4, pcm <- st, Nids <- {2, 3}, Inputs <- {0, 1}, hda <- st

Adapter(v, b, m, n) == [vendor |-> v, bus |-> b, mig |-> m, vfs |-> n]
Adapters ==
  {Adapter("intel", 0, FALSE, 2), Adapter("nvidia", 1, TRUE, 0), Adapter("nvidia", 1, FALSE, 2),
   Adapter("amd", 1, FALSE, 0), Adapter("amd", 0, FALSE, 0)}
RomImage(g, b, l) == [good |-> g, blocks |-> b, last |-> l]
RomImages == {RomImage(TRUE, 1, FALSE), RomImage(TRUE, 2, TRUE), RomImage(FALSE, 1, FALSE)}

\* Two resources in a budget of one, flushed while the compositor reads; two monitors and two
\* guests; a screen of six cells; a console of two short lines.
Screen == INSTANCE Display WITH
  MAX_DIMENSION <- 1, MAX_RESOURCE <- 1, BUDGET <- 1, MAX_FRAMES <- 2, Resources <- {1, 2},
  Colours <- {1}, Flushes <- 3, gpu <- st,
  Monitors <- {1, 2}, Guests <- {"a", "b"}, Chord <- {"ctrl", "k"}, QUEUE_CAP <- 2, Events <- 3, route <- st,
  Width <- 3, Height <- 2, Cells <- 0 .. 3, MaxZones <- 2, zone <- st,
  Cols <- 3, Rows <- 2, Bytes <- {"x", "y", "newline", "return", "tab", "backspace", "control"},
  MaxBytes <- 5, con <- st,
  Gpus <- {<<>>} \cup {<<a>> : a \in Adapters} \cup (Adapters \X Adapters),
  Strategies <- {"auto", "none", "passthrough", "sriov", "virtio", "mediated", "timesliced"}, pick <- st,
  Members <- 3, pass <- st,
  Roms <- {[images |-> i, size |-> z] : i \in {<<>>} \cup {<<a>> : a \in RomImages} \cup (RomImages \X RomImages),
                                        z \in 0 .. 4}, rom <- st

\* One resource of up to two by two pixels.
Pixels == INSTANCE Display WITH
  MAX_DIMENSION <- 2, MAX_RESOURCE <- 4, BUDGET <- 4, MAX_FRAMES <- 2, Resources <- {1},
  Colours <- {1}, Flushes <- 0, gpu <- st,
  Monitors <- {}, Guests <- {}, Chord <- {}, QUEUE_CAP <- 0, Events <- 0, route <- st,
  Width <- 1, Height <- 1, Cells <- {}, MaxZones <- 0, zone <- st,
  Cols <- 1, Rows <- 1, Bytes <- {}, MaxBytes <- 0, con <- st,
  Gpus <- {}, Strategies <- {}, pick <- st, Members <- 0, pass <- st, Roms <- {}, rom <- st

\* Two channels two deep; a byte has two values, so lengths reach the ends of their fields; a
\* minute is two ticks; three USB devices, one monitor and two guests at the console.
ClipPolicy(ts, max, r, w) == [types |-> ts, max_size |-> max, read_allowed |-> r, write_allowed |-> w]
Blobs == {<<>>, <<1>>, <<0, 1>>, <<1, 1, 1, 1>>}
Exchange == INSTANCE Bridge WITH
  CAPACITY <- 1, W <- 3, NetMacs <- {"m1"}, Dsts <- {"m1", "multicast"}, Modes <- {"nouni"},
  Offers <- {<<TRUE, TRUE, TRUE>>, <<FALSE, FALSE, TRUE>>}, MaxHeld <- 2, MaxArrivals <- 2,
  net <- st,
  SwitchMacs <- {"m1", "m2"}, MAX_FDB_ENTRIES <- 1, AGING <- 2, SWEEP <- 2, MaxPorts <- 3,
  MaxQueue <- 1, sw <- st,
  Channels <- 2, max_queue_depth <- 2, MaxSends <- 4, bus <- st,
  B <- 2, Clips <- [tag : 0 .. 4, data : Blobs],
  Drags <- [uris : {<<>>, <<<<>>>>, <<<<1>>, <<0, 1>>>>, <<<<1, 1, 1, 1>>>>}, mimes : {<<>>, <<<<1, 0>>>>},
            thumb : {<<>>, <<<<>>>>, <<<<1, 0>>>>}],
  Ops <- [tag : {0}, name : Blobs, data : Blobs] \cup [tag : {1, 3}, name : Blobs, data : {<<>>}]
         \cup [tag : {2}, name : {<<>>}, data : {<<>>}],
  Headers <- [src : {0, 2}, dst : {1}, channel : {0, 7}, seq : {0, 5, 200}, payload : Blobs], wire <- st,
  Messages <- {<<>>, <<3>>, <<1, 0, 0, 5>>, <<1, 0, 0, 0, 0>>}, MAX_FRAME <- 4, MaxFrames <- 2, mgmt <- st,
  Guests <- {"a", "b"}, Contents <- {[type |-> "text", size |-> 1], [type |-> "image", size |-> 2]},
  DefaultPolicy <- ClipPolicy({"text"}, 2, TRUE, TRUE),
  Policies <- {ClipPolicy({"text", "image"}, 2, FALSE, TRUE), ClipPolicy({"text", "image"}, 1, TRUE, TRUE),
               ClipPolicy({"text", "image"}, 2, TRUE, FALSE)},
  max_history <- 2, MaxWrites <- 4, hub <- st, Types <- {1, 2}, MaxDrags <- 3, drag <- st,
  Window <- 2, MaxTime <- 3, notes <- st,
  Limits <- {[threshold |-> 0, blocked |-> {"x"}, allowed |-> {}, max_per_minute |-> 1],
             [threshold |-> 1, blocked |-> {}, allowed |-> {"x"}, max_per_minute |-> 2]},
  Notes <- {[source |-> "a", urgency |-> 1, app |-> "x"], [source |-> "c", urgency |-> 0, app |-> "y"]},
  Spellings <- {<<"a", "1">>, <<" ", "A", "1", ":">>, <<"A">>, <<"a", ":", ":">>},
  Urls <- {<<"a", ":", "a">>, <<"A", "1", ":", "/">>, <<"a", "/", ":">>, <<"1", ":">>, <<"a">>}, url <- st,
  Devices <- <<1, 2, 3>>, Monitors <- <<7>>, GuestLists <- {<<"a", "b">>}, MaxKeys <- 3, MaxPlugs <- 1, con <- st

Init ==
  \/ part = "config" /\ Bus!CfgInit
  \/ part = "interrupt" /\ Bus!IntrInit
  \/ part = "bus" /\ Bus!BusInit
  \/ part = "sizing" /\ Bus!BarInit
  \/ part = "walk" /\ Bus!WalkInit
  \/ part = "sriov" /\ Bus!VfInit
  \/ part = "snd" /\ Sound!SndInit
  \/ part = "pcm" /\ Sound!PcmInit
  \/ part = "hda" /\ Sound!HdaInit
  \/ part = "gpu" /\ Screen!GpuInit
  \/ part = "pixels" /\ Pixels!GpuInit
  \/ part = "route" /\ Screen!RouteInit
  \/ part = "zone" /\ Screen!ZoneInit
  \/ part = "console" /\ Screen!ConInit
  \/ part = "pick" /\ Screen!PickInit
  \/ part = "group" /\ Screen!PassInit
  \/ part = "rom" /\ Screen!RomInit
  \/ part = "bridge" /\ Exchange!BusInit
  \/ part = "payload" /\ Exchange!WireInit
  \/ part = "frames" /\ Exchange!MgmtInit
  \/ part = "clipboard" /\ Exchange!HubInit
  \/ part = "drag" /\ Exchange!DragInit
  \/ part = "notes" /\ Exchange!NotesInit
  \/ part = "links" /\ Exchange!UrlInit
  \/ part = "operator" /\ Exchange!ConInit
  \/ part = "blk" /\ Blk!BlkInit
  \/ part = "share" /\ NvmeShare!NvmeInit
  \/ part = "manage" /\ NvmeManage!NvmeInit
  \/ part = "boot" /\ DriverBoot!Init
  \/ part = "vfio" /\ DriverVfio!Init
  \/ part = "qcow" /\ Blk!ImageInit
  \/ part = "net" /\ Exchange!NetInit
  \/ part = "switch" /\ Exchange!SwitchInit
  \/ part = "tpm" /\ Chip!TpmInit
  \/ part = "fast" /\ LoopFast!Init
  \/ part = "uefi" /\ LoopUefi!Init

Next ==
  /\ UNCHANGED part
  /\ \/ part = "config" /\ Bus!CfgNext
     \/ part = "interrupt" /\ Bus!IntrNext
     \/ part = "bus" /\ Bus!BusNext
     \/ part = "sizing" /\ Bus!BarNext
     \/ part = "walk" /\ Bus!WalkNext
     \/ part = "sriov" /\ Bus!VfNext
     \/ part = "snd" /\ Sound!SndNext
     \/ part = "pcm" /\ Sound!PcmNext
     \/ part = "hda" /\ Sound!HdaNext
     \/ part = "gpu" /\ Screen!GpuNext
     \/ part = "pixels" /\ Pixels!GpuNext
     \/ part = "route" /\ Screen!RouteNext
     \/ part = "zone" /\ Screen!ZoneNext
     \/ part = "console" /\ Screen!ConNext
     \/ part = "pick" /\ Screen!PickNext
     \/ part = "group" /\ Screen!PassNext
     \/ part = "rom" /\ Screen!RomNext
     \/ part = "bridge" /\ Exchange!BusNext
     \/ part = "payload" /\ Exchange!WireNext
     \/ part = "frames" /\ Exchange!MgmtNext
     \/ part = "clipboard" /\ Exchange!HubNext
     \/ part = "drag" /\ Exchange!DragNext
     \/ part = "notes" /\ Exchange!NotesNext
     \/ part = "links" /\ Exchange!UrlNext
     \/ part = "operator" /\ Exchange!ConNext
     \/ part = "blk" /\ Blk!BlkNext
     \/ part = "share" /\ NvmeShare!NvmeNext
     \/ part = "manage" /\ NvmeManage!NvmeNext
     \/ part = "boot" /\ DriverBoot!Next
     \/ part = "vfio" /\ DriverVfio!Next
     \/ part = "qcow" /\ Blk!ImageNext
     \/ part = "net" /\ Exchange!NetNext
     \/ part = "switch" /\ Exchange!SwitchNext
     \/ part = "tpm" /\ Chip!TpmNext
     \/ part = "fast" /\ LoopFast!Next
     \/ part = "uefi" /\ LoopUefi!Next

Spec == Init /\ [][Next]_<<part, st>>

-----------------------------------------------------------------------------
\* Work is done once and in order: every request of a driver is executed once and
\* reported once, in order, with an interrupt that stays up until it is seen; a driver
\* believes only its own completions; frames keep their order and their headers; the
\* run loop fires each deadline once and strands no sleep or reset request; a message-signalled
\* interrupt is sent once or pending; an access reaches the one device at its address; the
\* walk of the PCI hierarchy meets each function once; a sound stream plays its frames in
\* order through one mixer source; a codec answers for the widget asked; each monitor
\* shows the guest the routing says; messages between guests and frames to the console arrive
\* once and in order however they are cut up; a drag is dropped once; no guest is notified
\* more often than its policy allows; and every command of the operator is answered.
ServedOnceInOrder ==
  /\ part = "bridge" => Exchange!BusExact
  /\ part = "frames" => Exchange!FramesIntact
  /\ part = "drag" => Exchange!DropsFit
  /\ part = "notes" => Exchange!NotesLimited
  /\ part = "operator" => Exchange!ConsoleTrue
  /\ part = "snd" => Sound!SourcesOwned /\ Sound!PlayedInOrder
  /\ part = "hda" => Sound!CodecAnswers
  /\ part = "route" => Screen!RoutingConsistent
  /\ part = "pick" => Screen!TiersWarned
  /\ part = "interrupt" => Bus!InterruptNotLost
  /\ part = "bus" => Bus!OneDevicePerAddress
  /\ part = "walk" => Bus!WalkExact
  /\ part = "blk" => Blk!RequestsOnceInOrder /\ Blk!CompletionsAnnounced
  /\ part = "share" => NvmeShare!EachCommandOnce /\ NvmeShare!PhaseTells
                       /\ NvmeShare!NothingStranded /\ NvmeShare!IrqUntilRead
  /\ part = "manage" => NvmeManage!EachCommandOnce /\ NvmeManage!PhaseTells
                        /\ NvmeManage!NothingStranded /\ NvmeManage!IrqUntilRead
  /\ part = "boot" => DriverBoot!QueueOneCreated /\ DriverBoot!SuccessIsTrue /\ DriverBoot!BehindFailsSafe
  /\ part = "vfio" => DriverVfio!QueueOneCreated /\ DriverVfio!SuccessIsTrue /\ DriverVfio!BehindFailsSafe
  /\ part = "net" => Exchange!BuffersComeBackInOrder /\ Exchange!FramesInOrder /\ Exchange!HeadersAsNegotiated
  /\ part = "fast" => LoopFast!DeadlineKept /\ LoopFast!RequestsTaken
  /\ part = "uefi" => LoopUefi!DeadlineKept /\ LoopUefi!RequestsTaken /\ LoopUefi!RtcKeepsPace

\* Data stays where it was put: a protected sector is never written; the image reads back
\* what was written to it, shares no cluster and counts every reference; the TPM's
\* non-volatile areas survive a restart; the switch sends no frame back to its sender
\* and keeps no address behind a removed port; a configuration space goes on describing its
\* function, a probed BAR is put back, and a virtual function has one holder; samples keep
\* their values through decoding; the display device accounts for its memory, keeps the
\* frame on screen, tiles the screen exactly and sends a click to the zone seen there; a
\* GPU's group is held whole; what one guest encodes another decodes to the same, the
\* clipboard's history holds the newest entries, and a link goes by its scheme.
DataKept ==
  /\ part = "payload" => Exchange!PayloadsMeanTheSame
  /\ part = "clipboard" => Exchange!HistoryNewest
  /\ part = "links" => Exchange!LinksByScheme
  /\ part = "pcm" => Sound!SamplesMeanTheSame
  /\ part = "gpu" => Screen!GpuMemoryAccounted /\ Screen!CurrentFrameKept
  /\ part = "pixels" => Pixels!GpuMemoryAccounted
  /\ part = "zone" => Screen!TilingExact /\ Screen!SeenIsClicked /\ Screen!ZoneIdsUnique
  /\ part = "console" => Screen!ConsoleShowsText
  /\ part = "group" => Screen!GroupHeldWhole
  /\ part = "rom" => Screen!RomTiled
  /\ part = "config" => Bus!DescriptionKept
  /\ part = "sizing" => Bus!ProbedSafely
  /\ part = "sriov" => Bus!VfHeldOnce
  /\ part = "blk" => Blk!DiskMapHolds
  /\ part = "qcow" => Blk!ReadsBack /\ Blk!NothingShared /\ Blk!RefcountsExact
  /\ part = "tpm" => Chip!NvSurvivesRestart
  /\ part = "switch" => Exchange!NoReflection /\ Exchange!TablePointsAtPorts

\* No step does more than it may: an interrupted write leaves each cluster old or new; a
\* PCR only ever extends; a learned unicast frame goes to its port alone; the firmware's
\* variables pass unchanged from the end of a run to the next boot; one write sends one
\* message, a registered device stays where it is, and a virtual function is released
\* before it is given to another guest; a display command, a key of the switching chord
\* or a zone operation changes what it names and nothing else; and no new list moves the
\* operator's cursor off a row that is still there.
StepsBounded ==
  [][/\ part = "operator" => Exchange!CursorStays
     /\ part = "gpu" => Screen!GpuStep
     /\ part = "pixels" => Pixels!GpuStep
     /\ part = "route" => Screen!SwitchStep
     /\ part = "zone" => Screen!ZoneStep
     /\ part = "interrupt" => Bus!OneMessageAtATime
     /\ part = "bus" => Bus!BusOnlyGrows
     /\ part = "sriov" => Bus!VfReleasedFirst
     /\ part = "qcow" => Blk!OldOrNew
     /\ part = "tpm" => Chip!PcrsOnlyExtend
     /\ part = "switch" => Exchange!UnicastIsPrivate
     /\ part = "uefi" => LoopUefi!VarsSurvive]_<<part, st>>

=============================================================================
