----------------------------- MODULE GuestDisks -----------------------------
(***************************************************************************)
(* The disks the boot hypervisor gives its guests: their contents, the     *)
(* virtio block device and the NVMe controller, and the disk image core    *)
(* keeps a guest's disk in.                                                *)
(***************************************************************************)
(***************************************************************************)
(* What the boot hypervisor's disks are made of (blockdev.rs): a disk is a *)
(* function from sectors to values, and the map of ranges the guest may    *)
(* read or write that is laid over it.  0 stands for a sector of zeros.    *)
(***************************************************************************)
EXTENDS Integers, Sequences, FiniteSets, TLC

CONSTANTS
  Sectors,  \* number of sectors of the disk
  Ranges    \* the map: a set of [start, end, writable], end exclusive

\* Whole sectors inside the disk; the end is computed without wrapping.
check_span(lba, n) == lba + n <= Sectors

\* DiskConfig::clamped drops the empty ranges and those past the end of the disk.
clamped ==
  {r \in {[r EXCEPT !.end = IF @ > Sectors THEN Sectors ELSE @] : r \in Ranges} : r.start < r.end}
readable(lba) == \E r \in clamped : lba >= r.start /\ lba < r.end
writable(lba) == \E r \in clamped : r.writable /\ lba >= r.start /\ lba < r.end

\* DiskMap::read: unlisted sectors read as zeros.
read(disk, lba, n) == [i \in 1 .. n |-> IF readable(lba + i - 1) THEN disk[lba + i - 1] ELSE 0]

\* DiskMap::write: refused as a whole unless every sector may be written.
may_write(lba, n) == \A s \in lba .. lba + n - 1 : writable(s)
write(disk, lba, data) ==
  IF may_write(lba, Len(data))
  THEN [s \in DOMAIN disk |-> IF s \in lba .. lba + Len(data) - 1 THEN data[s - lba + 1] ELSE disk[s]]
  ELSE disk

\* Every disk starts with its sector numbers as contents, counted from 1.
Fresh == [s \in 0 .. Sectors - 1 |-> s + 1]

-----------------------------------------------------------------------------
\* A sector outside the writable ranges keeps what it held when the guest started.
ProtectedSectors(disk) == \A s \in 0 .. Sectors - 1 : ~writable(s) => disk[s] = s + 1

-----------------------------------------------------------------------------
(***************************************************************************)
(* The boot hypervisor's virtio-blk function (virtio_blk.rs): the common   *)
(* configuration registers, one split virtqueue over guest memory, and the *)
(* requests, against a driver that fills the queue, notifies, takes the    *)
(* interrupt and reaps.  Ring indices wrap at W, as u16 ones do at 2^16.   *)
(***************************************************************************)
CONSTANTS
  QUEUE_MAX,  \* largest queue size, a power of two
  W,          \* where ring indices wrap, a multiple of QUEUE_MAX
  ReadOnly,   \* the disk was attached read-only
  Sizes,      \* values the driver writes to queue_size
  Requests    \* what the driver may ask for

VARIABLE blk

NoQueue == [size |-> 0, enabled |-> FALSE, last_avail |-> 0, used_idx |-> 0, usedok |-> TRUE]

\* The driver's side of the queue: its avail ring and index, the used ring as the device
\* wrote it, how far the driver reaped, and how often each head was executed.
NoRings ==
  [avail |-> <<>>, avail_idx |-> 0, used |-> <<>>, used_idx |-> 0, seen |-> 0, awake |-> FALSE]

Blank == [kind |-> "none", sector |-> 0, n |-> 0, fault |-> "no", id |-> 0, runs |-> 0, status |-> "none"]

BlkInit ==
  blk = [status |-> {}, features |-> {}, sel |-> 0, isr |-> 0, busmaster |-> FALSE,
         q |-> NoQueue, g |-> NoRings, disk |-> Fresh]

Slots(d) == 0 .. d.q.size - 1

reset(d) ==
  [d EXCEPT !.status = {}, !.features = {}, !.sel = 0, !.isr = 0, !.q = NoQueue, !.g = NoRings]

\* FEATURES_OK is only kept for a subset of what is offered that includes VERSION_1.
write_status(d, val) ==
  IF val = {} THEN reset(d)
  ELSE LET ok == "unknown" \notin d.features /\ "version_1" \in d.features
       IN [d EXCEPT !.status = IF ok THEN val ELSE val \ {"FEATURES_OK"}]

\* Every write to the common registers ends by offering QUEUE_MAX while no size is set.
offer_size(d) ==
  IF d.q.size = 0 /\ ~d.q.enabled THEN [d EXCEPT !.q.size = QUEUE_MAX] ELSE d

\* One half of the feature bits at a time: VERSION_1 is in the upper one.
write_features(d, half, bits) ==
  [d EXCEPT !.features = {f \in @ : (f = "version_1") # (half = 1)} \cup bits]

write_queue_size(d, n) ==
  IF d.sel = 0 /\ ~d.q.enabled /\ n \in {1, 2, 4, 8} /\ n <= QUEUE_MAX
  THEN [d EXCEPT !.q.size = n] ELSE d

\* Enabling starts both indices at 0 (the driver has cleared its rings).
write_queue_enable(d, on) ==
  IF d.sel # 0 THEN d
  ELSE IF on /\ d.q.size # 0
  THEN [d EXCEPT !.q = [@ EXCEPT !.enabled = TRUE, !.last_avail = 0, !.used_idx = 0],
                 !.g = [NoRings EXCEPT !.avail = [s \in Slots(d) |-> Blank],
                                       !.used = [s \in Slots(d) |-> Blank]]]
  ELSE [d EXCEPT !.q.enabled = FALSE]

\* The used ring's address: in guest memory, or (ok = FALSE) not.
write_queue_used(d, ok) == IF d.sel = 0 THEN [d EXCEPT !.q.usedok = ok] ELSE d

\* handle_request and execute: the disk and the status byte (or "none") a request leaves.
\* A request says what is wrong with it: its chain, its length, a segment's direction, or
\* how many of its segments are in guest memory.
execute(disk, r) ==
  CASE r.fault = "chain" -> [disk |-> disk, status |-> "none"]
    [] r.kind = "in" ->
         [disk |-> disk, status |-> IF r.fault = "no" /\ check_span(r.sector, r.n) THEN "ok" ELSE "ioerr"]
    [] r.kind = "out" ->
         IF r.fault = "no" /\ ~ReadOnly /\ check_span(r.sector, r.n) /\ may_write(r.sector, r.n)
         THEN [disk |-> write(disk, r.sector, [i \in 1 .. r.n |-> 0]), status |-> "ok"]
         ELSE [disk |-> disk, status |-> "ioerr"]
    [] r.kind \in {"flush", "get_id"} -> [disk |-> disk, status |-> "ok"]
    [] OTHER -> [disk |-> disk, status |-> "unsupp"]

\* One request from the avail ring: executed, then reported in the used ring.
serve(d) ==
  LET slot == d.q.last_avail % d.q.size
      r == d.g.avail[slot]
      x == execute(d.disk, r)
      done == [r EXCEPT !.runs = IF @ = 2 THEN 2 ELSE @ + 1]
  IN [d EXCEPT
        !.disk = x.disk,
        !.g.avail[slot] = done,
        !.g.used[d.q.used_idx % d.q.size] =
           IF d.q.usedok THEN [done EXCEPT !.status = x.status] ELSE @]

\* process: from last_avail to the avail index read once, at most a queue's worth, until
\* a used element cannot be written; the index and the interrupt follow the last one.
RECURSIVE serve_from(_, _, _)
serve_from(d, avail_idx, done) ==
  IF d.q.last_avail = avail_idx \/ done >= d.q.size THEN [d |-> d, done |-> done]
  ELSE LET e == serve(d)
       IN IF ~d.q.usedok THEN [d |-> e, done |-> done]
          ELSE serve_from([e EXCEPT !.q.used_idx = (@ + 1) % W, !.q.last_avail = (@ + 1) % W],
                          avail_idx, done + 1)
process(d) ==
  IF ~d.q.enabled \/ "DRIVER_OK" \notin d.status \/ ~d.busmaster \/ d.q.size = 0 THEN d
  ELSE LET r == serve_from(d, d.g.avail_idx, 0)
       IN IF r.done = 0 THEN r.d ELSE [r.d EXCEPT !.g.used_idx = r.d.q.used_idx, !.isr = 1]

\* The interrupt status register is cleared by reading it.
read_isr(d) == [d EXCEPT !.isr = 0, !.g.awake = @ \/ d.isr = 1]

-----------------------------------------------------------------------------
\* The driver: it waits for FEATURES_OK before DRIVER_OK, sets its queue up before that,
\* gives bits of the status back only by a reset, and keeps at most a queue's worth of requests outstanding.
Outstanding(d) == (d.g.avail_idx - d.g.seen) % W

Submit(d, r) ==
  LET i == d.g.avail_idx % d.q.size
  IN [d EXCEPT !.g.avail[i] = [Blank EXCEPT !.kind = r.kind, !.sector = r.sector, !.n = r.n,
                                            !.fault = r.fault, !.id = d.g.avail_idx],
               !.g.avail_idx = (@ + 1) % W]

Drain(d) == [d EXCEPT !.g.seen = d.g.used_idx, !.g.awake = FALSE]

BlkNext ==
  \/ \E s \in {{}, {"FEATURES_OK"}, {"FEATURES_OK", "DRIVER_OK"}} :
        /\ s # {} => blk.status \subseteq s
        /\ "DRIVER_OK" \in s => "FEATURES_OK" \in blk.status
        /\ blk' = offer_size(write_status(blk, s))
  \/ /\ "DRIVER_OK" \notin blk.status
     /\ \/ \E half \in 0 .. 1, b \in {{}, {"unknown"}, {"version_1"}} :
              /\ b # {} => (b = {"version_1"}) = (half = 1)
              /\ blk' = offer_size(write_features(blk, half, b))
        \/ \E n \in Sizes : blk' = offer_size(write_queue_size(blk, n))
        \/ \E on \in BOOLEAN : blk' = offer_size(write_queue_enable(blk, on))
        \/ \E ok \in BOOLEAN : ~blk.q.enabled /\ blk' = offer_size(write_queue_used(blk, ok))
        \/ \E s \in 0 .. 1 : blk' = offer_size([blk EXCEPT !.sel = s])
  \/ \E on \in BOOLEAN : blk' = [blk EXCEPT !.busmaster = on]
  \/ /\ "DRIVER_OK" \in blk.status /\ blk.q.enabled /\ Outstanding(blk) < blk.q.size
     /\ \E r \in Requests : blk' = Submit(blk, r)
  \/ blk' = process(blk)
  \/ blk' = read_isr(blk)
  \/ blk.g.awake /\ blk' = Drain(blk)

-----------------------------------------------------------------------------
\* Every request is executed once and reported in the order it was made available, as
\* long as the used ring is in memory: what is between the driver's and the device's
\* used index are its oldest outstanding requests, and the rest have not been touched.
RequestsOnceInOrder ==
  (blk.q.enabled /\ blk.q.usedok) =>
     LET g == blk.g
         reported == (g.used_idx - g.seen) % W
     IN /\ g.used_idx = blk.q.used_idx /\ blk.q.last_avail = blk.q.used_idx
        /\ reported <= Outstanding(blk) /\ Outstanding(blk) <= blk.q.size
        /\ \A k \in 0 .. Outstanding(blk) - 1 :
              LET i == (g.seen + k) % W
                  slot == i % blk.q.size
              IN IF k < reported
                 THEN g.used[slot].id = i /\ g.used[slot].runs = 1
                 ELSE g.avail[slot].id = i /\ g.avail[slot].runs = 0

\* A completion the driver has not seen is announced: by the interrupt status, or by
\* a read of it after which the driver has not yet looked at the ring.
CompletionsAnnounced == blk.g.used_idx # blk.g.seen => blk.isr = 1 \/ blk.g.awake

\* A write is all or nothing: one reported as done is on the disk in full, and a sector
\* the map or a read-only disk protects never changes, whatever else its request spans.
DiskMapHolds ==
  /\ ProtectedSectors(blk.disk)
  /\ ReadOnly => blk.disk = Fresh
  /\ \A s \in DOMAIN blk.g.used :
        LET u == blk.g.used[s]
        IN u.kind = "out" /\ u.status = "ok" => \A i \in u.sector .. u.sector + u.n - 1 : blk.disk[i] = 0

-----------------------------------------------------------------------------
(***************************************************************************)
(* The boot hypervisor's emulated NVMe controller (nvme_dev.rs): enable    *)
(* and reset, creation and deletion of queues, doorbells, and the queues   *)
(* run over guest memory with completions marked by the phase bit, against *)
(* a driver that follows the queues' head and phase rules.                 *)
(***************************************************************************)
CONSTANTS
  IO_QUEUES_MAX,  \* largest I/O queue identifier
  SqSize, CqSize, \* entries of each queue, by identifier (0 is the admin queue)
  AER_LIMIT,      \* asynchronous event requests held open at once
  Commands,       \* I/O commands the driver issues
  Cids            \* command identifiers

VARIABLE nvme

Ids == 0 .. IO_QUEUES_MAX

NoSq == [live |-> FALSE, cqid |-> 0, head |-> 0, tail |-> 0]
NoCq == [live |-> FALSE, head |-> 0, tail |-> 0, phase |-> FALSE]
NoCqe == [cid |-> 0, sq |-> 0, status |-> "none", sqhead |-> 0, phase |-> FALSE]
NoCommand == [op |-> "none", qid |-> 0, cqid |-> 0, cid |-> 0, lba |-> 0, blocks |-> 0]

\* sq, cq: queue memory (a fetched command and all but the phase of a read completion are
\* forgotten); g: what the driver knows of each queue; owed: the commands it
\* issued and has no answer to.
NvmeBlank ==
  [en |-> FALSE, csts |-> "off", intm |-> FALSE, granted |-> 0, aer |-> {}, disk |-> Fresh,
   sqs |-> [i \in Ids |-> NoSq], cqs |-> [i \in Ids |-> NoCq],
   sq |-> [i \in Ids |-> [k \in 0 .. SqSize[i] - 1 |-> NoCommand]],
   cq |-> [i \in Ids |-> [k \in 0 .. CqSize[i] - 1 |-> NoCqe]],
   g |-> [sq |-> [i \in Ids |-> [known |-> FALSE, tail |-> 0, head |-> 0]],
          cq |-> [i \in Ids |-> [known |-> FALSE, head |-> 0, phase |-> TRUE]]],
   owed |-> {}]
NvmeInit == nvme = NvmeBlank

ready(d) == d.csts = "rdy"
irq_line(d) == ~d.intm /\ \E i \in Ids : d.cqs[i].live /\ d.cqs[i].head # d.cqs[i].tail

reset_queues(d) ==
  [d EXCEPT !.sqs = [i \in Ids |-> NoSq], !.cqs = [i \in Ids |-> NoCq], !.granted = 0, !.aer = {}]

\* write_cc: enabling with usable admin queues creates them, otherwise the controller
\* reports a fatal status; disabling resets every queue.
write_cc(d, enable, ok) ==
  LET e == [d EXCEPT !.en = enable]
  IN CASE enable /\ ~d.en /\ ok ->
            [e EXCEPT !.sqs = [[i \in Ids |-> NoSq] EXCEPT ![0].live = TRUE],
                      !.cqs = [[i \in Ids |-> NoCq] EXCEPT ![0] = [@ EXCEPT !.live = TRUE, !.phase = TRUE]],
                      !.csts = "rdy"]
       [] enable /\ ~d.en /\ ~ok -> [e EXCEPT !.csts = "fatal"]
       [] ~enable /\ d.en -> [reset_queues(e) EXCEPT !.csts = "off"]
       [] OTHER -> e

\* complete: the entry's status and phase are written last; the tail wraps with the phase.
complete(d, qid, cqid, cid, status) ==
  LET c == d.cqs[cqid]
      wrapped == c.tail + 1 = CqSize[cqid]
  IN [d EXCEPT !.cq[cqid][c.tail] = [cid |-> cid, sq |-> qid, status |-> status,
                                     sqhead |-> d.sqs[qid].head, phase |-> c.phase],
               !.cqs[cqid].tail = IF wrapped THEN 0 ELSE @ + 1,
               !.cqs[cqid].phase = IF wrapped THEN ~@ ELSE @]

create_cq(d, c) ==
  IF c.qid = 0 \/ c.qid > IO_QUEUES_MAX \/ d.cqs[c.qid].live THEN <<d, "invalid_qid">>
  ELSE <<[d EXCEPT !.cqs[c.qid] = [NoCq EXCEPT !.live = TRUE, !.phase = TRUE]], "ok">>
create_sq(d, c) ==
  IF c.qid = 0 \/ c.qid > IO_QUEUES_MAX \/ d.sqs[c.qid].live THEN <<d, "invalid_qid">>
  ELSE IF c.cqid = 0 \/ c.cqid > IO_QUEUES_MAX \/ ~d.cqs[c.cqid].live THEN <<d, "invalid_cq">>
  ELSE <<[d EXCEPT !.sqs[c.qid] = [NoSq EXCEPT !.live = TRUE, !.cqid = c.cqid]], "ok">>
delete_sq(d, c) ==
  IF c.qid = 0 \/ c.qid > IO_QUEUES_MAX \/ ~d.sqs[c.qid].live THEN <<d, "invalid_qid">>
  ELSE <<[d EXCEPT !.sqs[c.qid] = NoSq], "ok">>
delete_cq(d, c) ==
  IF c.qid = 0 \/ c.qid > IO_QUEUES_MAX \/ ~d.cqs[c.qid].live THEN <<d, "invalid_qid">>
  ELSE IF \E i \in Ids : d.sqs[i].live /\ d.sqs[i].cqid = c.qid THEN <<d, "invalid_delete">>
  ELSE <<[d EXCEPT !.cqs[c.qid] = NoCq], "ok">>

set_features(d, c) == <<[d EXCEPT !.granted = IF c.qid > IO_QUEUES_MAX - 1 THEN IO_QUEUES_MAX - 1 ELSE c.qid], "ok">>

\* The answer, and whether the command stays open without one.
admin(d, c) ==
  CASE c.op = "create_cq" -> create_cq(d, c)
    [] c.op = "create_sq" -> create_sq(d, c)
    [] c.op = "delete_sq" -> delete_sq(d, c)
    [] c.op = "delete_cq" -> delete_cq(d, c)
    [] c.op = "set_features" -> set_features(d, c)
    [] c.op = "aer" ->
         IF Cardinality(d.aer) >= AER_LIMIT THEN <<d, "abort_limit">>
         ELSE <<[d EXCEPT !.aer = @ \cup {c.cid}], "open">>
    [] OTHER -> <<d, "invalid_opcode">>

\* A transfer is refused before the backend is touched; a write reads all its data first.
transfer(d, c) ==
  CASE ~check_span(c.lba, c.blocks) -> <<d, "lba_out_of_range">>
    [] c.op = "read" -> <<d, "ok">>
    [] c.op = "write" /\ (ReadOnly \/ ~may_write(c.lba, c.blocks)) -> <<d, "write_denied">>
    [] OTHER -> <<[d EXCEPT !.disk = write(@, c.lba, [i \in 1 .. c.blocks |-> 9])], "ok">>

\* write_zeroes goes to the backend MAX_TRANSFER blocks at a time (here: one), and stops
\* at the first chunk refused with the earlier ones written.
RECURSIVE write_zeroes(_, _)
write_zeroes(d, c) ==
  CASE ~check_span(c.lba, c.blocks) -> <<d, "lba_out_of_range">>
    [] ReadOnly -> <<d, "write_denied">>
    [] c.blocks = 0 -> <<d, "ok">>
    [] ~may_write(c.lba, 1) -> <<d, "write_denied">>
    [] OTHER -> write_zeroes([d EXCEPT !.disk = write(@, c.lba, <<0>>)],
                             [c EXCEPT !.lba = @ + 1, !.blocks = @ - 1])

io(d, c) ==
  CASE c.op \in {"read", "write"} -> transfer(d, c)
    [] c.op = "write_zeroes" -> write_zeroes(d, c)
    [] c.op \in {"flush", "dataset"} -> <<d, "ok">>
    [] OTHER -> <<d, "invalid_opcode">>

\* step_queue: nothing to do without a queue, a command, or room for its completion.
can_step(d, qid) ==
  LET s == d.sqs[qid]
      c == d.cqs[s.cqid]
  IN s.live /\ s.head # s.tail /\ c.live /\ (c.tail + 1) % CqSize[s.cqid] # c.head
step_queue(d, qid) ==
  LET s == d.sqs[qid]
      c == d.sq[qid][s.head]
      e == [d EXCEPT !.sqs[qid].head = (@ + 1) % SqSize[qid], !.sq[qid][s.head] = NoCommand]
      r == IF qid = 0 THEN admin(e, c) ELSE io(e, c)
  IN IF r[2] = "open" THEN r[1] ELSE complete(r[1], qid, s.cqid, c.cid, r[2])

\* Every queue in turn as far as it goes, again until none moves.
RECURSIVE run_from(_, _, _)
run_from(d, qid, progressed) ==
  IF qid > IO_QUEUES_MAX
  THEN IF progressed THEN run_from(d, 0, FALSE) ELSE d
  ELSE IF can_step(d, qid) THEN run_from(step_queue(d, qid), qid, TRUE)
  ELSE run_from(d, qid + 1, progressed)
run_queues(d) == run_from(d, 0, FALSE)

\* Doorbells: ignored while not ready; an index outside the queue changes nothing.
sq_doorbell(d, qid, index) ==
  IF ~ready(d) THEN d
  ELSE run_queues(IF d.sqs[qid].live /\ index < SqSize[qid] THEN [d EXCEPT !.sqs[qid].tail = index] ELSE d)
cq_doorbell(d, qid, index) ==
  IF ~ready(d) THEN d
  ELSE run_queues(IF d.cqs[qid].live /\ index < CqSize[qid] THEN [d EXCEPT !.cqs[qid].head = index] ELSE d)

-----------------------------------------------------------------------------
\* The driver.  It enables the controller with fresh queue memory, issues a command
\* when the queue has a free entry by the last head it was told, clears a completion
\* queue's memory before creating it, and knows a queue once its creation is answered.
Forget(d) == [d EXCEPT !.sq = NvmeBlank.sq, !.cq = NvmeBlank.cq, !.g = NvmeBlank.g, !.owed = {}]
Enable(d, ok) ==
  write_cc([Forget(d) EXCEPT !.g.sq[0].known = ok, !.g.cq[0].known = ok], TRUE, ok)
Disable(d) == write_cc(Forget(d), FALSE, TRUE)

Room(d, qid) ==
  LET q == d.g.sq[qid] IN q.known /\ (q.tail + 1) % SqSize[qid] # q.head
Issue(d, qid, c) ==
  LET t == d.g.sq[qid].tail
      t1 == (t + 1) % SqSize[qid]
      e == [d EXCEPT !.sq[qid][t] = c, !.g.sq[qid].tail = t1, !.owed = @ \cup {<<qid, c>>},
                     !.cq = IF c.op = "create_cq" THEN [@ EXCEPT ![c.qid] = [k \in 0 .. CqSize[c.qid] - 1 |-> NoCqe]] ELSE @]
  IN sq_doorbell(e, qid, t1)

\* Deleting waits for a queue's answers and stops its use; creating names a queue it does
\* not have; one such change at a time.
Sensible(d, qid, c) ==
  /\ \A o \in d.owed : o[2].cid # c.cid /\ ~(o[2].op = "delete_sq" /\ o[2].qid = qid)
  /\ c.op \in {"create_cq", "create_sq", "delete_cq", "delete_sq"} =>
       \A o \in d.owed : o[2].op \notin {"create_cq", "create_sq", "delete_cq", "delete_sq"}
  /\ c.op = "create_cq" => ~d.g.cq[c.qid].known
  /\ c.op = "create_sq" => ~d.g.sq[c.qid].known
  /\ c.op = "delete_sq" => d.g.sq[c.qid].known /\ \A o \in d.owed : o[1] # c.qid
  /\ c.op = "delete_cq" => d.g.cq[c.qid].known

\* Unread(d, i): the driver finds a completion where it looks next, by the phase bit.
Unread(d, i) == d.g.cq[i].known /\ d.cq[i][d.g.cq[i].head].phase = d.g.cq[i].phase
Learn(d, o, ok) ==
  LET c == o[2]
  IN CASE ok /\ c.op = "create_cq" -> [d EXCEPT !.g.cq[c.qid].known = TRUE]
       [] ok /\ c.op = "create_sq" -> [d EXCEPT !.g.sq[c.qid].known = TRUE]
       [] ok /\ c.op = "delete_sq" -> [d EXCEPT !.g.sq[c.qid] = NvmeBlank.g.sq[c.qid]]
       [] ok /\ c.op = "delete_cq" -> [d EXCEPT !.g.cq[c.qid] = NvmeBlank.g.cq[c.qid],
                                                 !.cq[c.qid] = NvmeBlank.cq[c.qid]]
       [] OTHER -> d
Reap(d, i) ==
  LET h == d.g.cq[i].head
      x == d.cq[i][h]
      os == {o \in d.owed : o[1] = x.sq /\ o[2].cid = x.cid}
      h1 == (h + 1) % CqSize[i]
      e == [d EXCEPT !.cq[i][h] = [NoCqe EXCEPT !.phase = x.phase], !.owed = @ \ os, !.g.sq[x.sq].head = x.sqhead,
                     !.g.cq[i] = [@ EXCEPT !.head = h1, !.phase = IF h1 = 0 THEN ~@ ELSE @]]
  IN IF os = {} THEN e ELSE Learn(e, CHOOSE o \in os : TRUE, x.status = "ok")

NvmeNext ==
  \/ ~nvme.en /\ \E ok \in BOOLEAN : nvme' = Enable(nvme, ok)
  \/ nvme.en /\ nvme' = Disable(nvme)
  \/ \E m \in BOOLEAN : nvme' = [nvme EXCEPT !.intm = m]
  \/ \E cid \in Cids, qid \in Ids : \E c \in Commands[qid] :
       LET k == [c EXCEPT !.cid = cid]
       IN Room(nvme, qid) /\ Sensible(nvme, qid, k) /\ nvme' = Issue(nvme, qid, k)
  \/ \E i \in Ids : Unread(nvme, i) /\ nvme' = Reap(nvme, i)
  \/ \E i \in Ids : nvme.g.cq[i].known /\ nvme' = cq_doorbell(nvme, i, nvme.g.cq[i].head)

-----------------------------------------------------------------------------
\* The entries of completion queue i the driver has yet to read, by the device's count.
Shared(i) == nvme.g.cq[i].known /\ nvme.cqs[i].live
Posted(i) ==
  LET h == nvme.g.cq[i].head
  IN {(h + k) % CqSize[i] : k \in 0 .. ((nvme.cqs[i].tail - h) % CqSize[i]) - 1}
Queued(i) ==
  LET s == nvme.sqs[i]
  IN {(s.head + k) % SqSize[i] : k \in 0 .. ((s.tail - s.head) % SqSize[i]) - 1}

\* Every command issued is in exactly one place until the driver has its answer: in its
\* submission queue, open as an event request, or answered once in the completion queue
\* its queue reports to; and the queues hold nothing else.
EachCommandOnce ==
  ready(nvme) =>
    /\ \A o \in nvme.owed :
         Cardinality({k \in Queued(o[1]) : nvme.sq[o[1]][k].cid = o[2].cid})
         + (IF o[1] = 0 /\ o[2].cid \in nvme.aer THEN 1 ELSE 0)
         + Cardinality({p \in Ids \X (0 .. 3) : Shared(p[1]) /\ p[2] \in Posted(p[1])
                          /\ nvme.cq[p[1]][p[2]].sq = o[1] /\ nvme.cq[p[1]][p[2]].cid = o[2].cid}) = 1
    /\ \A i \in Ids, k \in 0 .. 3 :
         Shared(i) /\ k \in Posted(i) =>
            \E o \in nvme.owed : o[1] = nvme.cq[i][k].sq /\ o[2].cid = nvme.cq[i][k].cid

\* The phase bit tells the driver the truth: it finds a new completion exactly when the
\* device has posted one, round after round of every completion queue it knows.
PhaseTells ==
  \A i \in Ids : Shared(i) => (Unread(nvme, i) <=> Posted(i) # {})

\* No command is stranded: one that waits has no room for its completion, so reading
\* completions is all it takes; and a submission queue never outlives its completion
\* queue, nor any queue the controller being disabled.
NothingStranded ==
  /\ \A i \in Ids : nvme.sqs[i].live => nvme.cqs[nvme.sqs[i].cqid].live /\ ~can_step(nvme, i)
  /\ ~ready(nvme) => nvme.aer = {} /\ nvme.granted = 0 /\ \A i \in Ids : ~nvme.sqs[i].live /\ ~nvme.cqs[i].live

\* A completion the driver has not read keeps the interrupt line up unless it is masked.
IrqUntilRead ==
  (~nvme.intm /\ \E i \in Ids : Shared(i) /\ Unread(nvme, i)) => irq_line(nvme)

-----------------------------------------------------------------------------
(***************************************************************************)
(* The qcow2 disk image (storage/qcow.rs): reads through L1 and L2 to a    *)
(* host cluster, the zero flag or the backing image; writes that allocate  *)
(* L2 tables, data clusters, refcount blocks and a larger refcount table;  *)
(* and trim.  A call holds the file lock throughout, so what matters is    *)
(* the order of its file writes: `log` is the file after each of them, and *)
(* the process may stop after any and reopen the image.                    *)
(***************************************************************************)
CONSTANTS
  TABLE,        \* entries of a table cluster (L2 and refcount table)
  RBE,      \* refcounts in a refcount block
  L1,       \* entries of the L1 table (one cluster)
  Size,     \* virtual size in half clusters
  Backing,  \* the backing image, a sequence of half clusters, <<>> if there is none
  Writes,   \* <<offset, length, value>> in half clusters
  Trims,    \* <<offset, length>> in half clusters
  MaxLen    \* bound on the clusters of the file

VARIABLE img

\* The file: its clusters, the header's refcount table, and every table, block and data
\* cluster by number.  Cluster 0 is the header; a cluster nothing was written to is zero.
create ==
  [len |-> 4, rt |-> 2, rtc |-> 1, l1 |-> [k \in 0 .. L1 - 1 |-> 0],
   tables |-> 2 :> [k \in 0 .. TABLE - 1 |-> IF k = 0 THEN 3 ELSE 0],
   blocks |-> 3 :> [k \in 0 .. RBE - 1 |-> IF k < 4 THEN 1 ELSE 0],
   l2s |-> <<>>, data |-> <<>>]

\* from_file: the memory of an open image, read from the file.
from_file(f) == [rt |-> f.rt, rtc |-> f.rtc, l1 |-> f.l1]

\* want: what the guest last wrote, by half cluster; clean: no stop between two writes yet.
ImageInit ==
  img = [f |-> create, m |-> from_file(create), clean |-> TRUE,
       want |-> [h \in 0 .. Size - 1 |-> IF h < Len(Backing) THEN Backing[h + 1] ELSE 0]]

Write(t, f) == [t EXCEPT !.f = f, !.log = Append(@, f)]

rt_entries(m) == m.rtc * TABLE
L2(f, c) == IF c \in DOMAIN f.l2s THEN f.l2s[c] ELSE [k \in 0 .. TABLE - 1 |-> 0]
Data(f, c) == IF c \in DOMAIN f.data THEN f.data[c] ELSE <<0, 0>>
Block(f, c) == IF c \in DOMAIN f.blocks THEN f.blocks[c] ELSE [k \in 0 .. RBE - 1 |-> 0]
\* A table read past what was written there reads whatever follows; only fresh clusters
\* do, and they hold zeros or the next table cluster.
Slot(f, m, s) == IF s \in DOMAIN f.tables[m.rt] THEN f.tables[m.rt][s] ELSE 0

refcount_block_offset(f, m, c) ==
  IF c \div RBE >= rt_entries(m) THEN 0 ELSE Slot(f, m, c \div RBE)
read_refcount(f, m, c) ==
  LET b == refcount_block_offset(f, m, c) IN IF b = 0 THEN 0 ELSE Block(f, b)[c % RBE]
put_refcount(t, b, k, v) ==
  Write(t, [t.f EXCEPT !.blocks = (b :> [Block(t.f, b) EXCEPT ![k] = v]) @@ @])
write_refcount(t, c, v) == put_refcount(t, refcount_block_offset(t.f, t.m, c), c % RBE, v)
drop_refcount(t, c) ==
  LET rc == read_refcount(t.f, t.m, c) IN write_refcount(t, c, IF rc = 0 THEN 0 ELSE rc - 1)

\* An L2 entry: 0 for nothing, -1 for the zero flag, else a host cluster.
ZERO == -1
L2Of(m, g) == m.l1[g \div TABLE]
resolve_cluster(f, m, g) ==
  IF g \div TABLE >= L1 \/ L2Of(m, g) = 0 THEN 0 ELSE L2(f, L2Of(m, g))[g % TABLE]

backing_read(h) == IF h < Len(Backing) THEN Backing[h + 1] ELSE 0
read_half(f, m, h) ==
  LET c == resolve_cluster(f, m, h \div 2)
  IN CASE c = ZERO -> 0
       [] c = 0 -> backing_read(h)
       [] OTHER -> Data(f, c)[(h % 2) + 1]

-----------------------------------------------------------------------------
\* grow_refcount_table: the new table and the blocks for its own clusters in one arena at
\* the end, then memory, then the header's two fields, then the old table is freed.
\* Arena(c): how many blocks the arena needs, by the code's fixed point.
RECURSIVE ArenaBlocks(_, _, _)
ArenaBlocks(blk_start, first_slot, nb) ==
  LET needed == (blk_start + nb) \div RBE - first_slot + 1
  IN IF needed <= nb THEN nb ELSE ArenaBlocks(blk_start, first_slot, needed)

RECURSIVE free_old(_, _, _)
free_old(t, c, n) == IF n = 0 THEN t ELSE free_old(drop_refcount(t, c), c + 1, n - 1)

append_clusters(t, end) == Write(t, [t.f EXCEPT !.len = end])
append_table(t, c, table, end) == Write(t, [t.f EXCEPT !.len = end, !.tables = (c :> table) @@ @])
append_blocks(t, blocks, end) == Write(t, [t.f EXCEPT !.len = end, !.blocks = blocks @@ @])
use_table(t, c, n) == Write([t EXCEPT !.m.rt = c, !.m.rtc = n], [t.f EXCEPT !.rt = c])
set_table_clusters(t, n) == Write(t, [t.f EXCEPT !.rtc = n])

install_table(t, start, clusters, blk_start, nb) ==
  LET first_slot == rt_entries(t.m)
      arena_end == blk_start + nb
      table == [s \in 0 .. clusters * TABLE - 1 |->
                  CASE s < first_slot -> Slot(t.f, t.m, s)
                    [] s \in first_slot .. arena_end \div RBE -> blk_start + (s - first_slot)
                    [] OTHER -> 0]
      blocks == [c \in blk_start .. arena_end - 1 |->
                   [k \in 0 .. RBE - 1 |->
                      IF (first_slot + c - blk_start) * RBE + k \in start .. arena_end - 1 THEN 1 ELSE 0]]
  IN free_old(set_table_clusters(use_table(append_blocks(append_table(t, start, table, blk_start),
                                                         blocks, arena_end), start, clusters), clusters),
              t.m.rt, t.m.rtc)

grow_refcount_table(t, rt_index) ==
  LET clusters == (rt_index + 1 + TABLE - 1) \div TABLE
      blk_start == t.f.len + clusters
      nb == ArenaBlocks(blk_start, rt_entries(t.m), 1)
  IN IF clusters <= t.m.rtc THEN t
     ELSE IF (blk_start + nb) \div RBE >= clusters * TABLE THEN [t EXCEPT !.ok = FALSE]
     ELSE install_table(t, t.f.len, clusters, blk_start, nb)

\* allocate_refcount_block: a block at the end of the file that covers itself, put in the
\* table before its own count is written.
enter_block(t, slot, b) == Write(t, [t.f EXCEPT !.tables[t.m.rt][slot] = b])
append_block(t, c, slot) ==
  IF ~t.ok \/ refcount_block_offset(t.f, t.m, c) # 0 THEN t
  ELSE IF t.f.len \div RBE # slot THEN [append_clusters(t, t.f.len + 1) EXCEPT !.ok = FALSE]
  ELSE write_refcount(enter_block(append_clusters(t, t.f.len + 1), slot, t.f.len), t.f.len, 1)
allocate_refcount_block(t, c) ==
  append_block(IF c \div RBE >= rt_entries(t.m) THEN grow_refcount_table(t, c \div RBE) ELSE t,
               c, c \div RBE)

\* allocate_host_cluster: always a new cluster at the end of the file; `got` is its number.
RECURSIVE allocate_host_cluster(_)
allocate_host_cluster(t) ==
  IF ~t.ok THEN t
  ELSE IF refcount_block_offset(t.f, t.m, t.f.len) # 0
       THEN [write_refcount(append_clusters(t, t.f.len + 1), t.f.len, 1) EXCEPT !.got = t.f.len]
  ELSE allocate_host_cluster(allocate_refcount_block(t, t.f.len))

enter_l1(t, k) == IF ~t.ok THEN t ELSE [Write(t, [t.f EXCEPT !.l1[k] = t.got]) EXCEPT !.m.l1[k] = t.got]
allocate_l2_table(t, k) == enter_l1(allocate_host_cluster(t), k)

\* allocate_data_cluster: counted, filled from the backing image unless the entry was
\* zero-flagged, and only then entered in the L2 table.
set_l2(t, g, c) ==
  LET table == L2Of(t.m, g)
  IN Write(t, [t.f EXCEPT !.l2s = (table :> [L2(t.f, table) EXCEPT ![g % TABLE] = c]) @@ @])
copy_backing(t, g, old) ==
  IF old = 0 /\ Backing # <<>>
  THEN Write(t, [t.f EXCEPT !.data = (t.got :> <<backing_read(2 * g), backing_read(2 * g + 1)>>) @@ @])
  ELSE t
fill_and_enter(t, g, old) == IF ~t.ok THEN t ELSE set_l2(copy_backing(t, g, old), g, t.got)
allocate_in_table(t, g) ==
  IF ~t.ok THEN t ELSE fill_and_enter(allocate_host_cluster(t), g, L2(t.f, L2Of(t.m, g))[g % TABLE])
allocate_data_cluster(t, g) ==
  allocate_in_table(IF L2Of(t.m, g) = 0 THEN allocate_l2_table(t, g \div TABLE) ELSE t, g)

discard_keeps_entry(t, g) ==
  LET c == resolve_cluster(t.f, t.m, g)
  IN IF c \in {0, ZERO} THEN t ELSE drop_refcount(t, c)

\* discard_cluster: the count is dropped, then the entry is zero-flagged.
discard_cluster(t, g) ==
  LET c == resolve_cluster(t.f, t.m, g)
  IN IF c \in {0, ZERO} THEN t ELSE set_l2(drop_refcount(t, c), g, ZERO)

\* write_at: every cluster is resolved or allocated first; the data is written after.
RECURSIVE allocate_all(_, _)
allocate_all(t, gs) ==
  IF gs = {} \/ ~t.ok THEN t
  ELSE LET g == CHOOSE x \in gs : \A y \in gs : x <= y
       IN allocate_all(IF resolve_cluster(t.f, t.m, g) \in {0, ZERO} THEN allocate_data_cluster(t, g) ELSE t,
                       gs \ {g})
write_half(t, h, v) ==
  LET c == resolve_cluster(t.f, t.m, h \div 2)
  IN Write(t, [t.f EXCEPT !.data = (c :> [Data(t.f, c) EXCEPT ![(h % 2) + 1] = v]) @@ @])
RECURSIVE write_all(_, _, _, _)
write_all(t, h, n, v) == IF n = 0 THEN t ELSE write_all(write_half(t, h, v), h + 1, n - 1, v)
Clamp(h, n) == IF h + n > Size THEN Size - h ELSE n
Begin(d) == [f |-> d.f, m |-> d.m, ok |-> TRUE, got |-> 0, log |-> <<d.f>>]
write_at(d, h, n, v) ==
  LET a == allocate_all(Begin(d), {x \div 2 : x \in h .. h + n - 1})
  IN IF a.ok THEN write_all(a, h, n, v) ELSE a

\* trim: the clusters wholly inside the range.
RECURSIVE discard_all(_, _)
discard_all(t, gs) ==
  IF gs = {} THEN t
  ELSE LET g == CHOOSE x \in gs : \A y \in gs : x <= y IN discard_all(discard_cluster(t, g), gs \ {g})
Whole(h, n) == {g \in 0 .. Size \div 2 : 2 * g >= h /\ 2 * g + 2 <= h + n}
trim(d, h, n) == discard_all(Begin(d), Whole(h, n))

-----------------------------------------------------------------------------
\* A call that returned, or one cut off after some of its writes: the image is reopened.
\* `new` is what each half cluster is to hold.
Return(t, new) == img' = [img EXCEPT !.f = t.f, !.m = t.m, !.want = new]
Stop(t) ==
  \E k \in 1 .. Len(t.log) - 1 :
     LET f == t.log[k]
     IN img' = [img EXCEPT !.f = f, !.m = from_file(f), !.clean = FALSE,
                       !.want = [h \in 0 .. Size - 1 |-> read_half(f, from_file(f), h)]]

ImageNext ==
  \/ \E w \in Writes :
       LET n == Clamp(w[1], w[2])
           t == write_at(img, w[1], n, w[3])
       IN /\ w[1] < Size /\ t.f.len <= MaxLen
          /\ \/ t.ok /\ Return(t, [h \in 0 .. Size - 1 |-> IF h \in w[1] .. w[1] + n - 1 THEN w[3] ELSE img.want[h]])
             \/ ~t.ok /\ Return(t, img.want)
             \/ Stop(t)
  \/ \E r \in Trims :
       LET n == Clamp(r[1], r[2])
           t == trim(img, r[1], n)
       IN /\ \/ Return(t, [h \in 0 .. Size - 1 |->
                              IF h \div 2 \in Whole(r[1], n) /\ resolve_cluster(img.f, img.m, h \div 2) # 0
                              THEN 0 ELSE img.want[h]])
             \/ Stop(t)

-----------------------------------------------------------------------------
\* compute_expected_refcounts: how often the metadata refers to a cluster.
Mapped(f, m) ==
  {<<g, resolve_cluster(f, m, g)>> : g \in {x \in 0 .. L1 * TABLE - 1 : resolve_cluster(f, m, x) \notin {0, ZERO}}}
expected(f, m, c) ==
  (IF c \in {0, 1} \cup (m.rt .. m.rt + m.rtc - 1) THEN 1 ELSE 0)
  + Cardinality({k \in 0 .. L1 - 1 : m.l1[k] = c /\ c # 0})
  + Cardinality({x \in Mapped(f, m) : x[2] = c})
  + Cardinality({s \in 0 .. rt_entries(m) - 1 : Slot(f, m, s) = c /\ c # 0})

\* The guest reads what it last wrote, the backing image where it never did, and zeros
\* where it trimmed, through allocation, copy on write and growth of the refcount table;
\* and a write or trim cut short leaves every half cluster old or new.
ReadsBack == \A h \in 0 .. Size - 1 : read_half(img.f, img.m, h) = img.want[h]
OldOrNew ==
  \A h \in 0 .. Size - 1 :
     img'.want[h] \in {img.want[h]} \cup {w[3] : w \in {x \in Writes : h \in x[1] .. x[1] + x[2] - 1}}
                    \cup {0 : r \in {x \in Trims : h \div 2 \in Whole(x[1], Clamp(x[1], x[2]))}}

\* No cluster of the file serves two purposes, cut short or not: a data cluster belongs to
\* one guest cluster and is no table, block or header.
NothingShared == \A c \in 0 .. img.f.len : expected(img.f, img.m, c) <= 1

\* As long as no call was cut short every stored refcount is the number of references,
\* as check_consistency demands, and memory agrees with the file.
RefcountsExact ==
  /\ img.clean => \A c \in 0 .. img.f.len - 1 : read_refcount(img.f, img.m, c) = expected(img.f, img.m, c)
  /\ img.m = from_file(img.f)

=============================================================================
