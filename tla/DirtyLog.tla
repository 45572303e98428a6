------------------------------ MODULE DirtyLog ------------------------------
(***************************************************************************)
(* Dirty-page tracking of the SVM guest: NptDirtyLog of enlil-hal (npt.rs) *)
(* driven by the run loop of enlil-boot (svm.rs).  Logged pages start      *)
(* write-protected; a write fault records and opens the page, and the next *)
(* exit of another kind closes the recorded pages again.  A guest store    *)
(* touches one or two pages and is retried until none of them faults.      *)
(***************************************************************************)
EXTENDS Naturals, FiniteSets

CONSTANTS
  Logged,        \* huge pages covered by the log
  Spare,         \* pages outside it, not mapped at first
  NestedFrames   \* how many spare pages the host heap can still back

ASSUME DirtyLogAssumption ==
  /\ Logged \subseteq Nat /\ Spare \subseteq Nat /\ Logged \cap Spare = {}
  /\ NestedFrames \in Nat

VARIABLE log

NestedPages == Logged \cup Spare
Stores == {{p, q} : p, q \in NestedPages}

\* written, the pages stored to in this epoch, and faults, the exits the current
\* store has cost since it began or was interrupted, are history.
LogInit ==
  log = [leaf |-> [p \in NestedPages |-> IF p \in Logged THEN "ro" ELSE "absent"], bits |-> {},
         frames |-> NestedFrames, store |-> {}, stop |-> FALSE, written |-> {}, faults |-> 0]

set_leaves(d, ps, v) == [d EXCEPT !.leaf = [p \in NestedPages |-> IF p \in ps THEN v ELSE @[p]]]

reprotect_recorded(d) == set_leaves(d, d.bits, "ro")
end_epoch(d) == [reprotect_recorded(d) EXCEPT !.bits = {}, !.written = {}, !.faults = 0]

demand_map_npf(d, p) ==
  IF d.frames = 0 THEN [d EXCEPT !.stop = TRUE]
  ELSE reprotect_recorded([set_leaves(d, {p}, "rw") EXCEPT !.frames = @ - 1])

\* Mutant: the page is opened without being recorded.
grant_unrecorded(d, p) ==
  IF p \notin Logged THEN [d EXCEPT !.stop = TRUE] ELSE set_leaves(d, {p}, "rw")

record_and_grant(d, p) ==
  IF p \notin Logged THEN [d EXCEPT !.stop = TRUE]
  ELSE set_leaves([d EXCEPT !.bits = @ \cup {p}], {p}, "rw")

\* VMRUN with a store pending: it lands, or the lowest page it cannot write faults.
vmrun(d) ==
  LET closed == {p \in d.store : d.leaf[p] # "rw"}
      p == CHOOSE p \in closed : \A q \in closed : p <= q
      f == [d EXCEPT !.faults = @ + 1]
  IN IF closed = {} THEN [d EXCEPT !.written = @ \cup d.store, !.store = {}, !.faults = 0]
     ELSE IF d.leaf[p] = "absent" THEN demand_map_npf(f, p) ELSE record_and_grant(f, p)

\* Any other exit: the guest is stepped and the recorded pages closed.
other_exit(d) == [reprotect_recorded(d) EXCEPT !.faults = 0]

LogNext ==
  /\ ~log.stop
  /\ \/ log.store = {} /\ \E s \in Stores : log' = [log EXCEPT !.store = s]
     \/ log.store # {} /\ log' = vmrun(log)
     \/ log' = other_exit(log)
     \/ log' = end_epoch(log)

LogSpec == LogInit /\ [][LogNext]_log

-----------------------------------------------------------------------------
\* No write escapes: a logged page stored to in this epoch, possibly several faults,
\* interrupts and re-protections later, is in the bitmap the epoch's end hands out.
WritesRecorded == log.written \cap Logged \subseteq log.bits

\* A logged page is open only while it is recorded, so that the next store to a page
\* no longer recorded faults again.
OpenOnlyRecorded == \A p \in Logged : log.leaf[p] = "rw" => p \in log.bits

\* A store makes progress: between other exits it faults at most once per page, and
\* once more where mapping an absent page closed the other one again.
StoresProgress ==
  log.faults <= Cardinality(log.store) + (IF log.store \cap Spare # {} THEN 1 ELSE 0)

\* A guest's writes to logged pages are all in the dirty bitmap however faults, other
\* exits and epochs interleave, and a store that spans pages is not kept faulting
\* (NptDirtyLog with the run loop of svm.rs).
WritesTracked == WritesRecorded /\ OpenOnlyRecorded /\ StoresProgress

=============================================================================
