------------------------------- MODULE Channel -------------------------------
(***************************************************************************)
(* The bounded multi-producer single-consumer channel of enlil-platform    *)
(* (sync/mod.rs), Linux build: a std Mutex around ChannelInner and two     *)
(* condition variables.                                                    *)
(*                                                                         *)
(* One step is one critical section: from taking the lock (on entry or     *)
(* after a wake-up) to releasing it, by returning or by waiting.  Where    *)
(* the code notifies after it has released the lock the notification is a  *)
(* step of its own.  A condition variable may also wake without a          *)
(* notification.                                                           *)
(***************************************************************************)
EXTENDS Naturals, Sequences, FiniteSets

CONSTANTS
  Senders,    \* names for Sender handles, one thread each
  First,      \* the handle channel() returns
  Capacity,
  MaxCalls    \* bound: sends a name starts

ASSUME ChannelAssumption ==
  /\ IsFiniteSet(Senders) /\ First \in Senders
  /\ Capacity \in Nat \ {0}
  /\ MaxCalls \in Nat

VARIABLES
  buffer,       \* ChannelInner.buffer
  closed,       \* ChannelInner.closed
  sender_count, \* ChannelInner.sender_count
  tx,           \* what the thread of each handle is doing
  rx,           \* what the receiver's thread is doing
  calls,        \* sends started under each name, numbering the values
  accepted,     \* history: the values pushed, in order
  received,     \* history: the values popped, in order
  disconnected  \* history: the receiver was told that nothing more comes

shared == <<buffer, closed, sender_count>>
history == <<accepted, received, disconnected>>
vars == <<buffer, closed, sender_count, tx, rx, calls, accepted, received,
          disconnected>>

\* tx: "none" no such handle; "blocked" waiting on not_full; "woken" returning
\* from that wait; "notify"/"closing" past the lock, about to notify not_empty.
TxStates == {"none", "idle", "blocked", "woken", "notify", "closing"}
\* rx: "waiting" on not_empty; "woken" returning from it; "closing" past the
\* lock in drop, about to notify not_full.
RxStates == {"idle", "waiting", "woken", "closing", "gone"}

In(state) == {t \in Senders : tx[t] = state}

Init ==
  /\ buffer = <<>> /\ closed = FALSE /\ sender_count = 1
  /\ tx = [t \in Senders |-> IF t = First THEN "idle" ELSE "none"]
  /\ rx = "idle"
  /\ calls = [t \in Senders |-> 0]
  /\ accepted = <<>> /\ received = <<>> /\ disconnected = FALSE

-----------------------------------------------------------------------------
(* The condition variables *)

\* not_empty.notify_*: only the receiver ever waits on it.
not_empty_notify == rx' = IF rx = "waiting" THEN "woken" ELSE rx

\* not_full.notify_one: one waiting sender, if there is one.
not_full_notify_one ==
  \/ In("blocked") = {} /\ UNCHANGED tx
  \/ \E t \in In("blocked") : tx' = [tx EXCEPT ![t] = "woken"]

not_full_notify_all ==
  tx' = [t \in Senders |-> IF tx[t] = "blocked" THEN "woken" ELSE tx[t]]

spurious_wakeup ==
  /\ \/ rx = "waiting" /\ rx' = "woken" /\ UNCHANGED tx
     \/ /\ \E t \in In("blocked") : tx' = [tx EXCEPT ![t] = "woken"]
        /\ UNCHANGED rx
  /\ UNCHANGED <<shared, calls, history>>

-----------------------------------------------------------------------------
(* Sender *)

push_back(v) ==
  /\ buffer' = Append(buffer, v)
  /\ accepted' = Append(accepted, v)

clone(t, u) ==
  /\ tx[t] = "idle" /\ tx[u] = "none"
  /\ sender_count' = sender_count + 1
  /\ tx' = [tx EXCEPT ![u] = "idle"]
  /\ UNCHANGED <<buffer, closed, rx, calls, history>>

\* Mutant: the capacity check is off by one.
send_loop_off_by_one(t, v) ==
  \/ /\ closed
     /\ tx' = [tx EXCEPT ![t] = "idle"]
     /\ UNCHANGED <<buffer, rx, accepted>>
  \/ /\ ~closed /\ Len(buffer) <= Capacity
     /\ push_back(v)
     /\ not_empty_notify
     /\ tx' = [tx EXCEPT ![t] = "idle"]
  \/ /\ ~closed /\ Len(buffer) > Capacity
     /\ tx' = [tx EXCEPT ![t] = "blocked"]
     /\ UNCHANGED <<buffer, rx, accepted>>

\* The loop of send, from taking the lock to returning or waiting.
send_loop(t, v) ==
  \/ /\ closed
     /\ tx' = [tx EXCEPT ![t] = "idle"]
     /\ UNCHANGED <<buffer, rx, accepted>>
  \/ /\ ~closed /\ Len(buffer) < Capacity
     /\ push_back(v)
     /\ not_empty_notify
     /\ tx' = [tx EXCEPT ![t] = "idle"]
  \/ /\ ~closed /\ Len(buffer) >= Capacity
     /\ tx' = [tx EXCEPT ![t] = "blocked"]
     /\ UNCHANGED <<buffer, rx, accepted>>

send(t) ==
  /\ tx[t] = "idle" /\ calls[t] < MaxCalls
  /\ calls' = [calls EXCEPT ![t] = @ + 1]
  /\ send_loop(t, <<t, calls[t] + 1>>)
  /\ UNCHANGED <<closed, sender_count, received, disconnected>>

send_resumes(t) ==
  /\ tx[t] = "woken"
  /\ send_loop(t, <<t, calls[t]>>)
  /\ UNCHANGED <<closed, sender_count, calls, received, disconnected>>

\* Closed and Full return at once; a push is followed by a notification after
\* the lock is released.
try_send(t) ==
  /\ tx[t] = "idle" /\ calls[t] < MaxCalls
  /\ calls' = [calls EXCEPT ![t] = @ + 1]
  /\ IF closed \/ Len(buffer) >= Capacity
     THEN UNCHANGED <<buffer, accepted, tx>>
     ELSE /\ push_back(<<t, calls[t] + 1>>)
          /\ tx' = [tx EXCEPT ![t] = "notify"]
  /\ UNCHANGED <<closed, sender_count, rx, received, disconnected>>

try_send_notifies(t) ==
  /\ tx[t] = "notify"
  /\ tx' = [tx EXCEPT ![t] = "idle"]
  /\ not_empty_notify
  /\ UNCHANGED <<shared, calls, history>>

\* Mutant: the last sender leaves without closing the channel.
drop_sender_open(t) ==
  /\ tx[t] = "idle"
  /\ sender_count' = sender_count - 1
  /\ tx' = [tx EXCEPT ![t] = "none"]
  /\ UNCHANGED <<buffer, closed, rx, calls, history>>

drop_sender(t) ==
  /\ tx[t] = "idle"
  /\ sender_count' = sender_count - 1
  /\ IF sender_count' = 0
     THEN closed' = TRUE /\ tx' = [tx EXCEPT ![t] = "closing"]
     ELSE UNCHANGED closed /\ tx' = [tx EXCEPT ![t] = "none"]
  /\ UNCHANGED <<buffer, rx, calls, history>>

\* Mutant: the last sender closes without waking the receiver.
drop_sender_silent(t) ==
  /\ tx[t] = "closing"
  /\ tx' = [tx EXCEPT ![t] = "none"]
  /\ UNCHANGED <<shared, rx, calls, history>>

drop_sender_notifies(t) ==
  /\ tx[t] = "closing"
  /\ tx' = [tx EXCEPT ![t] = "none"]
  /\ not_empty_notify
  /\ UNCHANGED <<shared, calls, history>>

-----------------------------------------------------------------------------
(* Receiver *)

\* Mutant: a pop wakes a sender only if the buffer was full.
pop_front_was_full ==
  /\ buffer # <<>>
  /\ buffer' = Tail(buffer)
  /\ received' = Append(received, Head(buffer))
  /\ IF Len(buffer) = Capacity THEN not_full_notify_one ELSE UNCHANGED tx

\* A value leaves the buffer, and one blocked sender is woken for its place.
pop_front ==
  /\ buffer # <<>>
  /\ buffer' = Tail(buffer)
  /\ received' = Append(received, Head(buffer))
  /\ not_full_notify_one

\* Mutant: a closed channel is reported before the buffer is looked at.
recv_loop_closed_first ==
  \/ /\ ~closed /\ pop_front
     /\ rx' = "idle" /\ UNCHANGED disconnected
  \/ /\ closed
     /\ rx' = "idle" /\ disconnected' = TRUE
     /\ UNCHANGED <<buffer, tx, received>>
  \/ /\ buffer = <<>> /\ ~closed
     /\ rx' = "waiting"
     /\ UNCHANGED <<buffer, tx, received, disconnected>>

\* The loop of recv, from taking the lock to returning or waiting.
recv_loop ==
  \/ /\ pop_front
     /\ rx' = "idle" /\ UNCHANGED disconnected
  \/ /\ buffer = <<>> /\ closed
     /\ rx' = "idle" /\ disconnected' = TRUE
     /\ UNCHANGED <<buffer, tx, received>>
  \/ /\ buffer = <<>> /\ ~closed
     /\ rx' = "waiting"
     /\ UNCHANGED <<buffer, tx, received, disconnected>>

recv ==
  /\ rx = "idle"
  /\ recv_loop
  /\ UNCHANGED <<closed, sender_count, calls, accepted>>

recv_resumes ==
  /\ rx = "woken"
  /\ recv_loop
  /\ UNCHANGED <<closed, sender_count, calls, accepted>>

try_recv ==
  /\ rx = "idle"
  /\ \/ pop_front /\ UNCHANGED disconnected
     \/ /\ buffer = <<>>
        /\ disconnected' = (disconnected \/ closed)
        /\ UNCHANGED <<buffer, tx, received>>
  /\ UNCHANGED <<closed, sender_count, rx, calls, accepted>>

drop_receiver ==
  /\ rx = "idle"
  /\ closed' = TRUE
  /\ rx' = "closing"
  /\ UNCHANGED <<buffer, sender_count, tx, calls, history>>

\* Mutant: one blocked sender is woken, not all of them.
drop_receiver_notifies_one ==
  /\ rx = "closing"
  /\ rx' = "gone"
  /\ not_full_notify_one
  /\ UNCHANGED <<shared, calls, history>>

drop_receiver_notifies ==
  /\ rx = "closing"
  /\ rx' = "gone"
  /\ not_full_notify_all
  /\ UNCHANGED <<shared, calls, history>>

-----------------------------------------------------------------------------

SenderStep(t) ==
  \/ \E u \in Senders : clone(t, u)
  \/ send(t) \/ send_resumes(t)
  \/ try_send(t) \/ try_send_notifies(t)
  \/ drop_sender(t) \/ drop_sender_notifies(t)

ReceiverStep ==
  \/ recv \/ recv_resumes \/ try_recv
  \/ drop_receiver \/ drop_receiver_notifies

Next == (\E t \in Senders : SenderStep(t)) \/ ReceiverStep \/ spurious_wakeup

Spec == Init /\ [][Next]_vars

\* A call that is not waiting runs on to its end; nobody has to make a call,
\* and no wake-up comes without a notification.
Fairness ==
  /\ \A t \in Senders :
       /\ WF_vars(send_resumes(t))
       /\ WF_vars(try_send_notifies(t))
       /\ WF_vars(drop_sender_notifies(t))
  /\ WF_vars(recv_resumes)
  /\ WF_vars(drop_receiver_notifies)

LiveSpec == Spec /\ Fairness

-----------------------------------------------------------------------------
(* Properties *)

Values == Senders \X Nat

\* Handles not being dropped.
Live == {t \in Senders : tx[t] \notin {"none", "closing"}}

DataOK ==
  /\ buffer \in Seq(Values) /\ Len(buffer) <= Capacity
  /\ closed \in BOOLEAN /\ disconnected \in BOOLEAN
  /\ tx \in [Senders -> TxStates] /\ rx \in RxStates
  /\ calls \in [Senders -> Nat]
  /\ accepted \in Seq(Values) /\ received \in Seq(Values)

\* Types; the buffer never outgrows the capacity it was made with, and the
\* counter is the number of live handles (ChannelInner).
TypeOK == DataOK /\ sender_count = Cardinality(Live)

\* Nothing accepted by send or try_send is lost, duplicated or reordered on its
\* way to the receiver, and once the receiver has been told that the channel is
\* disconnected nothing was, or ever will be, left for it (Receiver::recv).
NothingLost ==
  /\ accepted = received \o buffer
  /\ disconnected => accepted = received

\* Handles whose send waits for room, notified or not.
Pending == In("blocked") \cup In("woken")

\* The receiver as its owner sees it.
Receiver ==
  IF rx \in {"closing", "gone"} THEN "gone" ELSE IF rx = "idle" THEN "idle" ELSE "waiting"

Promise == INSTANCE SyncChannel WITH
  queue <- buffer, got <- received, handles <- Live, receiver <- Receiver,
  pending <- Pending, told <- disconnected

\* Every call acts in one step on a queue and two ends, whatever the lock, the
\* condition variables, the counter and the closed flag do in between: a send in
\* progress ends only with its value accepted, or after an end is gone; none is
\* refused while there is room and the receiver lives; the receiver waits only
\* while something may come, and hears of a disconnection only when no sender
\* lives (Sender and Receiver, refinement of SyncChannel).
ActsAtomically == Promise!Spec

\* No wake-up is lost.  While senders wait for room, every free place has a
\* woken sender on its way to it; while the receiver waits, there is nothing to
\* receive, or the notification is still to come.  On a closed channel only an
\* end still about to notify leaves anyone waiting (the two condition
\* variables, with notifications inside and outside the lock).
NoLostWakeup ==
  /\ In("blocked") # {} =>
       IF closed THEN rx = "closing"
       ELSE Capacity - Len(buffer) <= Cardinality(In("woken"))
  /\ rx = "waiting" =>
       \/ buffer = <<>> /\ ~closed
       \/ In("notify") \cup In("closing") # {}

\* Once the receiver is dropped, every send in progress returns (Receiver::drop).
SendReturnsOnClose ==
  \A t \in Senders : (closed /\ tx[t] \in {"blocked", "woken"}) ~> (tx[t] = "idle")

\* A recv in progress returns once there is a value or the channel is closed
\* (Sender::send, try_send and drop against Receiver::recv).
RecvReturns ==
  (rx \in {"waiting", "woken"} /\ (buffer # <<>> \/ closed)) ~> (rx = "idle")

=============================================================================
