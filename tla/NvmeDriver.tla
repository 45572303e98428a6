----------------------------- MODULE NvmeDriver -----------------------------
(***************************************************************************)
(* The two polled NVMe drivers: the boot hypervisor's (enlil-boot nvme.rs) *)
(* and the VFIO passthrough one (storage/nvme.rs) with its chunked         *)
(* read_at and write_at.  Initialisation, one command at a time through a  *)
(* shared staging buffer, completions found by phase and matched by        *)
(* command identifier, and time-outs after which the controller may still  *)
(* execute the command.  The controller is external: it fetches, executes  *)
(* and completes commands in order, at any later time.                     *)
(***************************************************************************)
EXTENDS Integers, Sequences

CONSTANTS
  Variant,        \* "boot" or "vfio"
  IO_QUEUE_SIZE,  \* entries of the I/O queues
  CID_WRAP,       \* where command identifiers wrap (2^16)
  MaxQid,         \* I/O queues the controller supports
  Sectors,        \* sectors of the namespace
  STAGING,        \* sectors of the staging buffer
  Values,         \* contents a caller writes
  MaxTimeouts     \* bound on time-outs

VARIABLE s

\* ring: submission entries the controller has not executed; cq: completion memory.
\* queue: the I/O queue the controller created (0: none) and its size; call: the read_at
\* or write_at in progress; result: what the last one returned.
Init ==
  s = [step |-> "reset", rdy |-> TRUE, queue |-> 0, qsize |-> 0,
       next_cid |-> 0, cq_head |-> 0, cq_phase |-> TRUE,
       ring |-> <<>>, cq_tail |-> 0, dev_phase |-> TRUE,
       cq |-> [i \in 0 .. IO_QUEUE_SIZE - 1 |-> [cid |-> 0, ok |-> TRUE, phase |-> FALSE]],
       disk |-> [l \in 0 .. Sectors - 1 |-> 0], staging |-> 0,
       call |-> [kind |-> "none", lba |-> 0, n |-> 0, done |-> 0, val |-> 0], wait |-> 0,
       out |-> <<>>, result |-> "none", timeouts |-> 0]

Idle(d) == d.call.kind = "none"

cdw10_boot == <<1, IO_QUEUE_SIZE - 1>>
cdw10_vfio == <<IO_QUEUE_SIZE - 1, 1>>
create_word == IF Variant = "boot" THEN cdw10_boot ELSE cdw10_vfio

\* init: disable a running controller, enable it, identify, create queue pair 1.  Every
\* wait may time out and every command may fail, which ends the initialisation.
init(d, ok) ==
  LET w == create_word
      accepted == w[1] \in 1 .. MaxQid
  IN CASE ~ok -> [d EXCEPT !.step = "failed"]
       [] d.step = "reset" -> [d EXCEPT !.step = "enable", !.rdy = FALSE, !.queue = 0]
       [] d.step = "enable" -> [d EXCEPT !.step = "identify", !.rdy = TRUE]
       [] d.step = "identify" -> [d EXCEPT !.step = "create_cq"]
       [] d.step = "create_cq" -> [d EXCEPT !.step = IF accepted THEN "create_sq" ELSE "failed"]
       [] d.step = "create_sq" -> [d EXCEPT !.step = "ready", !.queue = w[1], !.qsize = w[2] + 1]

\* submit: the next identifier, wrapping; the submission queue is not checked for room.
submit(d) ==
  LET lba == d.call.lba + d.call.done
      cmd == [cid |-> d.next_cid, kind |-> d.call.kind, lba |-> lba]
  IN [d EXCEPT !.next_cid = (@ + 1) % CID_WRAP, !.wait = d.next_cid,
               !.ring = IF d.queue = 1 THEN Append(@, cmd) ELSE @,
               !.staging = IF d.call.kind = "write" THEN d.call.val ELSE @]

\* The checks before a transfer: the boot driver refuses what is outside the namespace,
\* the passthrough backend shortens it.
check_lba(lba, n) == lba < Sectors /\ n <= Sectors - lba
clamp(lba, n) == IF n < Sectors - lba THEN n ELSE Sectors - lba
start(d, kind, lba, n, val) ==
  LET len == IF Variant = "boot" THEN n ELSE clamp(lba, n)
      go == CASE kind = "flush" -> TRUE
              [] Variant = "boot" -> n \in 1 .. STAGING /\ check_lba(lba, n)
              [] OTHER -> lba < Sectors /\ len # 0
  IN IF go THEN submit([d EXCEPT !.call = [kind |-> kind, lba |-> lba, n |-> len, done |-> 0, val |-> val],
                                 !.out = <<>>, !.result = "none"])
     ELSE [d EXCEPT !.result = "refused", !.out = <<>>]

Finish(d, r) ==
  [d EXCEPT !.call = [kind |-> "none", lba |-> 0, n |-> 0, done |-> 0, val |-> 0], !.result = r, !.wait = 0]

\* poll, io_cmd and the rest of the transfer: an entry with the expected phase is taken
\* and the head moved; a foreign identifier or a bad status fails the call; a chunk that
\* went well is copied out and the next one submitted.
poll(d) ==
  LET x == d.cq[d.cq_head]
      h == (d.cq_head + 1) % IO_QUEUE_SIZE
      e == [d EXCEPT !.cq_head = h, !.cq_phase = IF h = 0 THEN ~@ ELSE @]
      f == [e EXCEPT !.call.done = @ + 1, !.out = IF d.call.kind = "read" THEN Append(@, d.staging) ELSE @]
  IN IF x.cid # d.wait \/ ~x.ok THEN Finish(e, "error")
     ELSE IF f.call.done < f.call.n THEN submit(f)
     ELSE [Finish(f, "ok") EXCEPT !.call = [f.call EXCEPT !.kind = "none"], !.result = f.call.kind]

Completed(d) == d.cq[d.cq_head].phase = d.cq_phase
time_out(d) == [Finish(d, "error") EXCEPT !.timeouts = @ + 1]

\* The controller: the oldest command, with the staging buffer as it is now; the entry
\* is posted unless the completion queue is full.
Unread(d) == (d.cq_tail - d.cq_head) % IO_QUEUE_SIZE
controller(d, ok) ==
  LET c == Head(d.ring)
      t == (d.cq_tail + 1) % IO_QUEUE_SIZE
  IN [d EXCEPT !.ring = Tail(@),
               !.disk = IF ok /\ c.kind = "write" THEN [@ EXCEPT ![c.lba] = d.staging] ELSE @,
               !.staging = IF ok /\ c.kind = "read" THEN d.disk[c.lba] ELSE @,
               !.cq[d.cq_tail] = [cid |-> c.cid, ok |-> ok, phase |-> d.dev_phase],
               !.cq_tail = t, !.dev_phase = IF t = 0 THEN ~@ ELSE @]

Next ==
  \/ s.step \notin {"ready", "failed"} /\ \E ok \in BOOLEAN : s' = init(s, ok)
  \/ /\ s.step = "ready" /\ Idle(s)
     /\ \/ \E kind \in {"read", "flush"}, lba \in 0 .. Sectors, n \in 0 .. 2 :
              /\ kind = "flush" => lba = 0 /\ n = 1
              /\ s' = start(s, kind, lba, n, 0)
        \/ \E lba \in 0 .. Sectors, n \in 0 .. 2, v \in Values : s' = start(s, "write", lba, n, v)
  \/ ~Idle(s) /\ Completed(s) /\ s' = poll(s)
  \/ ~Idle(s) /\ ~Completed(s) /\ s.timeouts < MaxTimeouts /\ s' = time_out(s)
  \/ /\ s.ring # <<>> /\ Unread(s) < IO_QUEUE_SIZE - 1
     /\ \E ok \in BOOLEAN : s' = controller(s, ok)

Spec == Init /\ [][Next]_s

-----------------------------------------------------------------------------
\* The queue the driver uses is the one it had created: after an initialisation that
\* succeeded, I/O queue 1 exists with the driver's number of entries.
QueueOneCreated == s.step = "ready" => s.queue = 1 /\ s.qsize = IO_QUEUE_SIZE

\* Success is true: a read that returns holds what the disk holds there, and a write that
\* returns is on the disk, whatever timed out before and however late it was executed.
SuccessIsTrue ==
  /\ s.result = "read" => \A i \in 1 .. s.call.n : s.out[i] = s.disk[s.call.lba + i - 1]
  /\ s.result = "write" => \A i \in 1 .. s.call.n : s.disk[s.call.lba + i - 1] = s.call.val

\* After a time-out the driver is one completion behind for good: it fails every later
\* call rather than take an older command's completion for its own.
BehindFailsSafe ==
  s.timeouts > 0 => s.result \notin {"read", "write", "flush"}

=============================================================================
