---------------------------- MODULE MCSchedulers ----------------------------
(***************************************************************************)
(* The work-stealing run queues and the bare-metal scheduler (Schedulers), *)
(* and the AsyncRuntime, side by side.  They share no state, so a          *)
(* behaviour of all is an interleaving of independent ones, and it is      *)
(* enough to let one of them, `part`, move in each behaviour.              *)
(***************************************************************************)
EXTENDS Schedulers, AsyncRuntime, TLC

CONSTANTS t1, t2, t3, t4, t5, a, b, k1, k2

VARIABLE part

\* A body that submits to the other CPU, one that submits to a CPU that does not
\* exist, and sets with such a CPU among others and alone.
Pinned(c) == [kind |-> "pinned", cpus |-> <<c>>]
Within(cpus) == [kind |-> "set", cpus |-> cpus]
MCPrio == t1 :> 2 @@ t2 :> 2 @@ t3 :> 2 @@ t4 :> 1 @@ t5 :> 0
MCAffinity ==
  t1 :> Pinned(0) @@ t2 :> Pinned(1) @@ t3 :> Within(<<5, 1, 0>>) @@ t4 :> Within(<<7>>)
    @@ t5 :> Pinned(7)
MCSpawns == t1 :> t2 @@ t2 :> NoTask @@ t3 :> t5 @@ t4 :> NoTask @@ t5 :> NoTask

\* Two tasks, one source each, on either event loop.
MCSources == a :> <<k1>> @@ b :> <<k2>>
MCNeed == a :> 1 @@ b :> 2

ASSUME RunQueuesAssumption /\ TaskSchedulerAssumption /\ AsyncRuntimeAssumption

all_vars == <<part, vars, Bms_vars, rt_vars>>

\* Where the runtime does not move it is given a window, a case LoopReturns is
\* not about.
MCInit ==
  /\ part \in {"run queues", "tasks", "async"}
  /\ Init /\ BmsInit /\ RtInit
  /\ part # "async" => mode = [backend |-> "epoll", window |-> TRUE] /\ queue = <<a, b>>

Bms(A) == part = "tasks" /\ A /\ UNCHANGED <<part, vars, rt_vars>>
Async(A) == part = "async" /\ A /\ UNCHANGED <<part, vars, Bms_vars>>

MCNext ==
  \/ part = "run queues" /\ Next /\ UNCHANGED <<part, Bms_vars, rt_vars>>
  \/ Bms(BmsNext)
  \/ Async(RtNext)

\* Every CPU keeps calling run_one, and a CPU that can go on does; the
\* executor's CPU keeps executing and takes its interrupts, and devices deliver.
MCSpec ==
  /\ MCInit /\ [][MCNext]_all_vars
  /\ \A p \in Cpus : WF_all_vars(Bms(Step(p)))
  /\ WF_all_vars(Async(Executor)) /\ WF_all_vars(Async(Handler))
  /\ \A k \in Tokens : WF_all_vars(Async(device_event(k))) /\ SF_all_vars(Async(device_irq(k)))

=============================================================================
