----------------------------- MODULE MCProtocols -----------------------------
(***************************************************************************)
(* The mutex's priority inheritance (PiMutex), dirty-page tracking         *)
(* (DirtyLog) and USB hot plug (UsbRouting), side by side.  They share no  *)
(* state, so it is enough to let one of them, `part`, move in each         *)
(* behaviour.                                                              *)
(***************************************************************************)
EXTENDS PiMutex, DirtyLog, UsbRouting, TLC

CONSTANTS t1, t2, t3, t4

VARIABLE part

\* Registered priorities all differ.
DistinctPrio ==
  (t1 :> 0) @@ (t2 :> 1) @@ (t3 :> 3) @@ (t4 :> Unregistered)

MCInit ==
  /\ part \in {"mutex", "dirty", "routing"}
  /\ Init /\ LogInit /\ UsbInit
  /\ part # "routing" => u.default_guest = NoHub

\* A stopped guest and a bus with nothing left to do rest; the mutex must not.
MCNext ==
  \/ part = "mutex" /\ Next /\ UNCHANGED <<part, log, u>>
  \/ part = "dirty" /\ LogNext /\ UNCHANGED <<part, vars, u>>
  \/ part = "routing" /\ UsbNext /\ UNCHANGED <<part, vars, log>>
  \/ part # "mutex" /\ UNCHANGED <<part, vars, log, u>>

MCSpec == MCInit /\ [][MCNext]_<<part, vars, log, u>>

=============================================================================
