---------------------------- MODULE SyncChannel -----------------------------
(***************************************************************************)
(* What the bounded channel of enlil-platform promises the threads that    *)
(* use it: every call takes effect in one step on a queue and on the set   *)
(* of handles that exist.  There is no lock, no condition variable, no     *)
(* counter of senders and no closed flag here; a call that cannot go on is *)
(* merely pending.  Module Channel implements this specification.          *)
(***************************************************************************)
EXTENDS Naturals, Sequences

CONSTANTS Senders, First, Capacity

VARIABLES
  queue,     \* values accepted and not yet received
  got,       \* values received, in order
  handles,   \* sender handles that exist
  receiver,  \* "idle", "waiting" in a recv, or "gone"
  pending,   \* handles with a send that waits for room
  calls,     \* sends made through each handle, numbering its values
  told       \* the receiver has been told that nothing more comes

vars == <<queue, got, handles, receiver, pending, calls, told>>

Init ==
  /\ queue = <<>> /\ got = <<>>
  /\ handles = {First} /\ receiver = "idle" /\ pending = {}
  /\ calls = [t \in Senders |-> 0]
  /\ told = FALSE

\* The two ends still exist.
Open == handles # {} /\ receiver # "gone"

Room == Len(queue) < Capacity

\* A call to send or try_send: the value is accepted; or the caller waits, on
\* an open channel without room; or the value is refused, because there is no
\* room or because one end is gone.
Call(t) ==
  /\ t \in handles \ pending
  /\ calls' = [calls EXCEPT ![t] = @ + 1]
  /\ \/ /\ Open /\ Room
        /\ queue' = Append(queue, <<t, calls[t] + 1>>)
        /\ UNCHANGED pending
     \/ /\ Open /\ ~Room
        /\ pending' = pending \cup {t}
        /\ UNCHANGED queue
     \/ /\ ~(Open /\ Room)
        /\ UNCHANGED <<queue, pending>>
  /\ UNCHANGED <<got, handles, receiver, told>>

\* A pending send ends with its value accepted, or because an end is gone.
Finish(t) ==
  /\ t \in pending
  /\ pending' = pending \ {t}
  /\ \/ Open /\ Room /\ queue' = Append(queue, <<t, calls[t]>>)
     \/ ~Open /\ UNCHANGED queue
  /\ UNCHANGED <<got, handles, receiver, calls, told>>

Clone(t, u) ==
  /\ t \in handles \ pending /\ u \notin handles
  /\ handles' = handles \cup {u}
  /\ UNCHANGED <<queue, got, receiver, pending, calls, told>>

Drop(t) ==
  /\ t \in handles \ pending
  /\ handles' = handles \ {t}
  /\ UNCHANGED <<queue, got, receiver, pending, calls, told>>

\* The oldest value goes to the receiver.
Take ==
  /\ receiver # "gone" /\ queue # <<>>
  /\ queue' = Tail(queue)
  /\ got' = Append(got, Head(queue))
  /\ receiver' = "idle"
  /\ UNCHANGED <<handles, pending, calls, told>>

\* The receiver waits only while something may still come.
Wait ==
  /\ receiver = "idle" /\ queue = <<>> /\ Open
  /\ receiver' = "waiting"
  /\ UNCHANGED <<queue, got, handles, pending, calls, told>>

\* Disconnection is reported only when every sender and every value is gone.
Disconnect ==
  /\ receiver # "gone" /\ queue = <<>> /\ handles = {}
  /\ receiver' = "idle" /\ told' = TRUE
  /\ UNCHANGED <<queue, got, handles, pending, calls>>

HangUp ==
  /\ receiver = "idle"
  /\ receiver' = "gone"
  /\ UNCHANGED <<queue, got, handles, pending, calls, told>>

Next ==
  \/ \E t \in Senders : Call(t) \/ Finish(t) \/ Drop(t) \/ \E u \in Senders : Clone(t, u)
  \/ Take \/ Wait \/ Disconnect \/ HangUp

Spec == Init /\ [][Next]_vars

=============================================================================
