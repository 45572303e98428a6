---------------------------- MODULE AsyncRuntime ----------------------------
(***************************************************************************)
(* The async runtime of enlil-platform (async_rt): the single-threaded     *)
(* Executor, the Reactor's table of registrations, and the event loop over *)
(* them, run_with_interrupt_source on bare metal (interrupts.rs) or        *)
(* run_with_poller on Linux (epoll.rs).                                    *)
(*                                                                         *)
(* A task is a future that reads its sources and, finding nothing, arms    *)
(* its waker on each and returns Pending; it completes after Need reads.   *)
(* On bare metal an interrupt handler runs on the executor's own CPU,      *)
(* between any two of its steps while interrupts are enabled.              *)
(***************************************************************************)
EXTENDS Naturals, Sequences, FiniteSetsExt

CONSTANTS
  Futures, Tokens, \* the tasks, and the tokens of registered sources
  Sources,       \* [Futures -> Seq(Tokens)]: the registrations each task owns
  Need,          \* [Futures -> Nat]: events a task reads before it completes
  Backends,      \* the event loops considered: "interrupt", "epoll"
  Windows,       \* whether an interrupt may come while a spin lock is held
  MaxEvents,     \* bound: events a device raises
  NoFuture       \* no task

AsyncRuntimeAssumption ==
  /\ Backends \subseteq {"interrupt", "epoll"} /\ Windows \subseteq BOOLEAN
  /\ MaxEvents \in Nat /\ NoFuture \notin Futures /\ IsFiniteSet(Futures) /\ IsFiniteSet(Tokens)
  /\ Sources \in [Futures -> Seq(Tokens) \ {<<>>}] /\ Need \in [Futures -> Nat]
  /\ \A t \in Futures : IsInjective(Sources[t])
  /\ \A t, u \in Futures : t # u => Range(Sources[t]) \cap Range(Sources[u]) = {}
  /\ Tokens = UNION {Range(Sources[t]) : t \in Futures}

VARIABLES
  mode,        \* the event loop in use, and whether interrupts find locks held
  queue,       \* TaskQueue
  got, done,   \* per task: events read, and whether its future has returned
  raised, data,\* per source: events so far, and those unread
  irq,         \* per source: its interrupt is pending at the CPU
  sources,     \* the tokens registered with the reactor
  armed,       \* the tokens with a waker
  ready,       \* the tokens flagged ready
  ready_queue,
  exec,        \* where the executor's thread is
  held,        \* the spin lock it is inside, when interrupts may come there
  handler,     \* the interrupt handler on top of it
  repolled     \* history: a future that had returned was polled

reactor == <<sources, armed, ready, ready_queue>>
tasks == <<got, done, repolled>>
device == <<raised, data>>
rt_vars == <<mode, queue, got, done, raised, data, irq, sources, armed, ready, ready_queue,
             exec, held, handler, repolled>>

ExecAt(at) == [at |-> at, task |-> NoFuture, rest |-> <<>>]
Quiet == [at |-> "none", token |-> <<>>]

\* The orders a set can be gone through in.
Orders(S) ==
  {s \in UNION {[1..n -> S] : n \in 0..Cardinality(S)} : IsInjective(s) /\ Range(s) = S}

\* Every task has registered its sources and is spawned; device vectors are
\* claimed and the source is installed.
RtInit ==
  /\ mode \in [backend : Backends, window : Windows]
  /\ queue \in Orders(Futures)
  /\ got = [t \in Futures |-> 0] /\ done = [t \in Futures |-> FALSE]
  /\ raised = [k \in Tokens |-> 0] /\ data = [k \in Tokens |-> 0]
  /\ irq = [k \in Tokens |-> FALSE]
  /\ sources = Tokens /\ armed = {} /\ ready = {} /\ ready_queue = <<>>
  /\ exec = ExecAt("run") /\ held = "none" /\ handler = Quiet
  /\ repolled = FALSE

Owner(k) == CHOOSE t \in Futures : k \in Range(Sources[t])

-----------------------------------------------------------------------------
(* The device and the interrupt handler *)

\* A device has something to read and raises its line.
device_event(k) ==
  /\ raised[k] < MaxEvents
  /\ raised' = [raised EXCEPT ![k] = @ + 1]
  /\ data' = [data EXCEPT ![k] = @ + 1]
  /\ irq' = [irq EXCEPT ![k] = (mode.backend = "interrupt")]
  /\ UNCHANGED <<mode, queue, tasks, reactor, exec, held, handler>>

\* Interrupts are masked from poll's readiness check to its halt.
Unmasked == exec.at # "drain"

device_irq(k) ==
  /\ irq[k] /\ handler = Quiet /\ Unmasked
  /\ irq' = [irq EXCEPT ![k] = FALSE]
  /\ handler' = [at |-> "mark", token |-> k]
  /\ UNCHANGED <<mode, queue, tasks, device, reactor, exec, held>>

\* Mutant: the waker is cloned, not taken.
mark_ready_clones(k) ==
  IF k \in sources
  THEN /\ ready' = ready \cup {k}
       /\ ready_queue' = IF k \in ready THEN ready_queue ELSE Append(ready_queue, k)
       /\ UNCHANGED <<armed, sources>>
  ELSE UNCHANGED reactor

\* Reactor::mark_ready under its lock: whether a waker is to be fired.
mark_ready(k) ==
  IF k \in sources
  THEN /\ ready' = ready \cup {k}
       /\ ready_queue' = IF k \in ready THEN ready_queue ELSE Append(ready_queue, k)
       /\ armed' = armed \ {k}
       /\ UNCHANGED sources
  ELSE UNCHANGED reactor

Woken(k) == k \in sources \cap armed

handler_marks ==
  /\ handler.at = "mark" /\ held # "reactor"
  /\ mark_ready(handler.token)
  /\ handler' = IF Woken(handler.token) THEN [handler EXCEPT !.at = "wake"] ELSE Quiet
  /\ UNCHANGED <<mode, queue, tasks, device, irq, exec, held>>

\* The waker is fired after the reactor's lock is released: Task::wake.
handler_wakes ==
  /\ handler.at = "wake" /\ held # "queue"
  /\ queue' = Append(queue, Owner(handler.token))
  /\ handler' = Quiet
  /\ UNCHANGED <<mode, tasks, device, irq, reactor, exec, held>>

-----------------------------------------------------------------------------
(* The executor's thread *)

\* The spin lock the next step of the thread works under.  take_ready's is
\* taken with interrupts masked, so nothing can come in between.
LockOf(at) ==
  CASE at \in {"run", "rewake"} -> "queue"
    [] at \in {"arm", "deregister", "check"} -> "reactor"
    [] OTHER -> "none"

acquire ==
  /\ mode.window /\ handler = Quiet
  /\ held = "none" /\ LockOf(exec.at) # "none"
  /\ held' = LockOf(exec.at)
  /\ UNCHANGED <<mode, queue, tasks, device, irq, reactor, exec, handler>>

\* The thread is at `at` and not interrupted; leaving the step releases.
Here(at) ==
  /\ exec.at = at /\ handler = Quiet
  /\ mode.window => held = LockOf(at)
  /\ held' = "none"
  /\ UNCHANGED <<mode, handler>>

\* Executor::run: pop a task and poll it, until the queue is empty.
run_queued ==
  /\ Here("run")
  /\ IF queue = <<>>
     THEN exec' = ExecAt("check") /\ UNCHANGED <<queue, repolled>>
     ELSE /\ queue' = Tail(queue)
          /\ exec' = [ExecAt("read") EXCEPT !.task = Head(queue)]
          /\ repolled' = (repolled \/ done[Head(queue)])
  /\ UNCHANGED <<got, done, device, irq, reactor>>

\* The future reads a source that has something.
future_reads ==
  /\ Here("read") /\ ~done[exec.task]
  /\ \E k \in Range(Sources[exec.task]) :
       /\ data[k] > 0
       /\ data' = [data EXCEPT ![k] = @ - 1]
  /\ got' = [got EXCEPT ![exec.task] = @ + 1]
  /\ exec' = IF got'[exec.task] = Need[exec.task]
             THEN [exec EXCEPT !.at = "deregister", !.rest = Sources[exec.task]]
             ELSE exec
  /\ UNCHANGED <<queue, done, repolled, raised, irq, reactor>>

\* It finds nothing: arm every source, then Pending.
future_parks ==
  /\ Here("read") /\ ~done[exec.task]
  /\ \A k \in Range(Sources[exec.task]) : data[k] = 0
  /\ exec' = [exec EXCEPT !.at = "arm", !.rest = Sources[exec.task]]
  /\ UNCHANGED <<queue, tasks, device, irq, reactor>>

\* Mutant: a source already ready neither keeps the waker nor fires it.
set_waker_drops ==
  LET k == Head(exec.rest) IN
  /\ Here("arm")
  /\ armed' = IF k \in sources \ ready THEN armed \cup {k} ELSE armed
  /\ exec' = IF Len(exec.rest) = 1 THEN ExecAt("run") ELSE [exec EXCEPT !.rest = Tail(@)]
  /\ UNCHANGED <<queue, tasks, device, irq, sources, ready, ready_queue>>

\* Mutant: the waker is stored even if the source is ready.
set_waker_stores ==
  LET k == Head(exec.rest) IN
  /\ Here("arm")
  /\ armed' = armed \cup ({k} \cap sources)
  /\ exec' = IF Len(exec.rest) = 1 THEN ExecAt("run") ELSE [exec EXCEPT !.rest = Tail(@)]
  /\ UNCHANGED <<queue, tasks, device, irq, sources, ready, ready_queue>>

Armed(e) == IF Len(e.rest) = 1 THEN ExecAt("run") ELSE [e EXCEPT !.at = "arm", !.rest = Tail(@)]

\* Reactor::set_waker: a source already ready wakes at once.
set_waker ==
  LET k == Head(exec.rest)
      now == k \in sources \cap ready
  IN
  /\ Here("arm")
  /\ armed' = IF k \in sources /\ ~now THEN armed \cup {k} ELSE armed
  /\ exec' = IF now THEN [exec EXCEPT !.at = "rewake"] ELSE Armed(exec)
  /\ UNCHANGED <<queue, tasks, device, irq, sources, ready, ready_queue>>

set_waker_wakes ==
  /\ Here("rewake")
  /\ queue' = Append(queue, exec.task)
  /\ exec' = Armed(exec)
  /\ UNCHANGED <<tasks, device, irq, reactor>>

\* The future deregisters its sources and returns Ready.
deregister ==
  LET k == Head(exec.rest)
      last == Len(exec.rest) = 1
  IN
  /\ Here("deregister")
  /\ sources' = sources \ {k} /\ armed' = armed \ {k} /\ ready' = ready \ {k}
  /\ done' = IF last THEN [done EXCEPT ![exec.task] = TRUE] ELSE done
  /\ exec' = IF last THEN ExecAt("run") ELSE [exec EXCEPT !.rest = Tail(@)]
  /\ UNCHANGED <<queue, got, repolled, device, irq, ready_queue>>

\* The event loop ends when no source is registered, and else waits.
is_empty ==
  /\ Here("check")
  /\ exec' = ExecAt(IF sources = {} THEN "end"
                ELSE IF mode.backend = "interrupt" THEN "drain" ELSE "epoll")
  /\ UNCHANGED <<queue, tasks, device, irq, reactor>>

\* InterruptEventSource::poll: Reactor::take_ready with interrupts masked.
take_ready ==
  /\ Here("drain")
  /\ ready_queue' = <<>>
  /\ ready' = ready \ Range(ready_queue)
  /\ exec' = ExecAt(IF ready_queue = <<>> THEN "halt" ELSE "run")
  /\ UNCHANGED <<queue, tasks, device, irq, sources, armed>>

\* sti; hlt: the CPU sleeps until an interrupt is taken, and looks again.  A
\* handler that is done leaves its mark in ready_queue.
halt ==
  /\ Here("halt") /\ ready_queue # <<>>
  /\ exec' = ExecAt("drain")
  /\ UNCHANGED <<queue, tasks, device, irq, reactor>>

\* EpollPoller::poll: the tokens of all readable descriptors are marked, in the
\* order the kernel returns them.
epoll_wait ==
  LET readable == {k \in Tokens : data[k] > 0} IN
  /\ Here("epoll") /\ readable # {}
  /\ \E order \in Orders(readable) : exec' = [ExecAt("marking") EXCEPT !.rest = order]
  /\ UNCHANGED <<queue, tasks, device, irq, reactor>>

epoll_marks ==
  LET k == Head(exec.rest) IN
  /\ Here("marking")
  /\ mark_ready(k)
  /\ queue' = IF Woken(k) THEN Append(queue, Owner(k)) ELSE queue
  /\ exec' = IF Len(exec.rest) = 1 THEN ExecAt("run") ELSE [exec EXCEPT !.rest = Tail(@)]
  /\ UNCHANGED <<tasks, device, irq>>

Executor ==
  \/ acquire \/ run_queued \/ future_reads \/ future_parks
  \/ set_waker \/ set_waker_wakes \/ deregister
  \/ is_empty \/ take_ready \/ halt \/ epoll_wait \/ epoll_marks

Handler == handler_marks \/ handler_wakes

RtNext ==
  \/ Executor \/ Handler
  \/ \E k \in Tokens : device_event(k) \/ device_irq(k)

RtSpec == RtInit /\ [][RtNext]_rt_vars

-----------------------------------------------------------------------------
(* Properties *)

Ats == {"run", "read", "arm", "rewake", "deregister", "check", "drain", "halt",
        "epoll", "marking", "end"}

\* Types; only registered sources are armed or flagged, and the ready flags of
\* registered sources are those of the ready queue, without repetition
\* (Reactor).
RtTypeOK ==
  /\ exec.at \in Ats /\ exec.task \in Futures \cup {NoFuture}
  /\ armed \cup ready \subseteq sources
  /\ IsInjective(ready_queue) /\ ready = Range(ready_queue) \cap sources
  /\ \A t \in Futures : done[t] <=> got[t] = Need[t] /\ Range(Sources[t]) \cap sources = {}

Parked(t) ==
  /\ ~done[t] /\ t \notin Range(queue) /\ exec.task # t
  /\ ~(handler.at = "wake" /\ Owner(handler.token) = t)

\* A parked task is armed on all its sources, and a source with something to
\* read has its interrupt still to come or in progress; so no event is missed
\* between reading and arming, or between the last poll and the halt
\* (set_waker, InterruptEventSource::poll).
NoMissedEvent ==
  \A t \in Futures : Parked(t) =>
    \A k \in Range(Sources[t]) :
      /\ k \in armed
      /\ mode.backend = "interrupt" /\ data[k] > 0 => irq[k] \/ handler = [at |-> "mark", token |-> k]

\* The event loop ends, with every task complete, if no interrupt finds its
\* CPU inside a lock (run_with_interrupt_source, run_with_poller).
LoopReturns == mode.window \/ <>(exec.at = "end" /\ \A t \in Futures : done[t])

\* "If Ready, task is done — it just drops": a future that has returned is not
\* polled again (Executor::run).
NoPollAfterDone == ~repolled

=============================================================================
