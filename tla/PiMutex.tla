------------------------------- MODULE PiMutex -------------------------------
(***************************************************************************)
(* The priority-inheritance bookkeeping of enlil-platform's Mutex          *)
(* (sync/mod.rs over threading/scheduler.rs's PriorityInheritance).        *)
(*                                                                         *)
(* The raw inner lock grants itself to any thread that asks while it is    *)
(* free; the bookkeeping is kept in steps of its own before and after, each *)
(* under the leaf lock `pi`.  Priority 0 is the most urgent.               *)
(***************************************************************************)
EXTENDS Naturals, FiniteSets

CONSTANTS
  Threads,
  NoThread,      \* the inner lock is free
  Prio           \* [Threads -> 0..3], or Unregistered: current_task_priority

Levels       == 0..3
Normal       == 2
Unregistered == 4

ASSUME PiMutexAssumption ==
  /\ Prio \in [Threads -> Levels \cup {Unregistered}]
  /\ NoThread \notin Threads
  /\ IsFiniteSet(Threads)

VARIABLES
  owner,   \* who holds the raw inner lock
  base,    \* PriorityInheritance.base
  waiters, \* PriorityInheritance.waiters, a multiset of priorities
  at       \* where each thread is

vars == <<owner, base, waiters, at>>

Registered(t) == Prio[t] # Unregistered

Init ==
  /\ owner = NoThread
  /\ base = Normal
  /\ waiters = [p \in Levels |-> 0]
  /\ at = [t \in Threads |-> "out"]

-----------------------------------------------------------------------------
(* PriorityInheritance *)

add_waiter(p) == waiters' = [waiters EXCEPT ![p] = @ + 1]

\* One waiter of priority p goes, if there is one.
remove_waiter(p) == waiters' = [waiters EXCEPT ![p] = IF @ > 0 THEN @ - 1 ELSE 0]

\* The holder's priority, boosted to that of the most urgent waiter.
effective ==
  CHOOSE p \in {base} \cup {q \in Levels : waiters[q] > 0} :
    \A q \in {base} \cup {q \in Levels : waiters[q] > 0} : p <= q

-----------------------------------------------------------------------------
(* Mutex *)

Go(t, from, to) == at[t] = from /\ at' = [at EXCEPT ![t] = to]

\* lock's fast path, and try_lock: the raw lock is free and taken at once.
try_lock(t) ==
  /\ Go(t, "out", "acquired") /\ owner = NoThread
  /\ owner' = t
  /\ UNCHANGED <<base, waiters>>

\* lock's slow path: the raw lock was taken, so arm a waiter and block.
lock_contended(t) ==
  /\ Go(t, "out", "arming") /\ owner # NoThread
  /\ UNCHANGED <<owner, base, waiters>>

lock_arm(t) ==
  /\ Go(t, "arming", "blocked")
  /\ IF Registered(t) THEN add_waiter(Prio[t]) ELSE UNCHANGED waiters
  /\ UNCHANGED <<owner, base>>

lock_granted(t) ==
  /\ Go(t, "blocked", "granted") /\ owner = NoThread
  /\ owner' = t
  /\ UNCHANGED <<base, waiters>>

\* Mutant: an acquire forgets every waiter, not one of our priority.
note_acquired_clears(t) ==
  /\ at[t] \in {"acquired", "granted"}
  /\ at' = [at EXCEPT ![t] = "noted"]
  /\ waiters' = [p \in Levels |-> 0]
  /\ UNCHANGED <<owner, base>>

\* note_acquired, first half: drop a waiter of our priority, after the fast
\* path as well as after the slow one.
note_acquired(t) ==
  /\ at[t] \in {"acquired", "granted"}
  /\ at' = [at EXCEPT ![t] = "noted"]
  /\ IF Registered(t) THEN remove_waiter(Prio[t]) ELSE UNCHANGED waiters
  /\ UNCHANGED <<owner, base>>

\* Mutant: the base follows only threads that registered a priority.
refresh_holder_base_registered(t) ==
  /\ at[t] \in {"noted", "woken"}
  /\ at' = [at EXCEPT ![t] = "holding"]
  /\ base' = IF Registered(t) THEN Prio[t] ELSE base
  /\ UNCHANGED <<owner, waiters>>

\* note_acquired, second half, and the end of Condvar::wait.
refresh_holder_base(t) ==
  /\ at[t] \in {"noted", "woken"}
  /\ at' = [at EXCEPT ![t] = "holding"]
  /\ base' = IF Registered(t) THEN Prio[t] ELSE Normal
  /\ UNCHANGED <<owner, waiters>>

\* The guard is dropped: the raw lock opens, the bookkeeping is not touched.
unlock(t) ==
  /\ Go(t, "holding", "out")
  /\ owner' = NoThread
  /\ UNCHANGED <<base, waiters>>

\* Mutant: the raw lock is kept while waiting.
wait_keeps_lock(t) ==
  /\ Go(t, "holding", "waiting")
  /\ UNCHANGED <<owner, base, waiters>>

\* Condvar::wait (Linux): the raw lock is released while waiting and taken
\* again on a notification, without a waiter being armed.
wait(t) ==
  /\ Go(t, "holding", "waiting")
  /\ owner' = NoThread
  /\ UNCHANGED <<base, waiters>>

wait_returns(t) ==
  /\ Go(t, "waiting", "woken") /\ owner = NoThread
  /\ owner' = t
  /\ UNCHANGED <<base, waiters>>

Next ==
  \E t \in Threads :
    \/ try_lock(t) \/ lock_contended(t) \/ lock_arm(t) \/ lock_granted(t)
    \/ note_acquired(t) \/ refresh_holder_base(t) \/ unlock(t)
    \/ wait(t) \/ wait_returns(t)

Spec == Init /\ [][Next]_vars

-----------------------------------------------------------------------------
(* Properties *)

Places == {"out", "acquired", "arming", "blocked", "granted", "noted",
           "holding", "waiting", "woken"}
Inside == {"acquired", "granted", "noted", "holding", "woken"}

\* Types, and the inner lock's owner is exactly the thread inside.
TypeOK ==
  /\ owner \in Threads \cup {NoThread}
  /\ base \in Levels
  /\ waiters \in [Levels -> Nat]
  /\ at \in [Threads -> Places]
  /\ \A t \in Threads : at[t] \in Inside <=> owner = t

\* Armed waiters of priority p: registered threads in lock's slow path whose
\* note_acquired is still to come.
Armed(t, p) == at[t] \in {"blocked", "granted"} /\ Prio[t] = p

\* While a thread holds the lock and has recorded itself, it runs at its own
\* priority or at the more urgent one of a thread really blocked in lock: a
\* donation never outlives its donor (Mutex::effective_priority).
NoGhostDonor ==
  \A t \in Threads :
    at[t] = "holding" /\ effective # (IF Registered(t) THEN Prio[t] ELSE Normal)
      => \E u \in Threads : Armed(u, effective)

\* While a registered thread is blocked in lock, its priority is donated to the
\* lock holder, so the holder never runs below a thread it blocks (the doc of
\* Mutex: "its priority is donated to the lock holder").
NoInversion ==
  \A t, u \in Threads :
    at[t] = "holding" /\ at[u] = "blocked" /\ Registered(u)
      => effective <= Prio[u]
=============================================================================
