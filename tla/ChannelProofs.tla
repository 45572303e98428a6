---------------------------- MODULE ChannelProofs ----------------------------
(***************************************************************************)
(* Channel keeps its promises for every finite set of senders, every       *)
(* capacity and every number of calls: no value and no wake-up is lost,    *)
(* and it implements SyncChannel, where every call acts in one step.       *)
(***************************************************************************)
EXTENDS Channel, TLAPS, FiniteSetTheorems, SequenceTheorems

USE ChannelAssumption

\* The flag says that one end is entirely gone.
ClosedMeansEndGone == closed <=> (sender_count = 0 \/ rx \in {"closing", "gone"})

\* The receiver hears of a disconnection only from a closed, empty channel.
DisconnectedFinal == disconnected => closed /\ buffer = <<>>

\* The invariant: what the receiver was told, and NoLostWakeup, hold because
\* the channel closes only when an end is gone, and the ends are counted right.
ChannelInv ==
  /\ TypeOK /\ NothingLost /\ DisconnectedFinal
  /\ ClosedMeansEndGone /\ NoLostWakeup

-----------------------------------------------------------------------------
(* The sets of threads in one state, and the live ones, are finite. *)

LEMMA InFinite ==
  \A st : /\ IsFiniteSet(In(st)) /\ Cardinality(In(st)) \in Nat
          /\ In(st) \subseteq Senders
<1> TAKE st
<1>1. In(st) \subseteq Senders
  BY DEF In
<1> QED BY <1>1, FS_Subset, FS_CardinalityType

LEMMA LiveFinite == IsFiniteSet(Live) /\ Cardinality(Live) \in Nat
<1>1. Live \subseteq Senders
  BY DEF Live
<1> QED BY <1>1, FS_Subset, FS_CardinalityType

\* A live handle means a positive count.
LEMMA LiveCounts ==
  ASSUME TypeOK, NEW t \in Senders, tx[t] \notin {"none", "closing"}
  PROVE  sender_count \in Nat /\ sender_count > 0
<1>1. t \in Live
  BY DEF Live
<1>2. Cardinality(Live) # 0
  BY <1>1, LiveFinite, FS_EmptySet
<1> QED BY <1>2, LiveFinite DEF TypeOK

\* Two live handles mean a count above one.
LEMMA TwoLive ==
  ASSUME TypeOK, NEW t \in Senders, NEW u \in Senders, t # u,
         tx[t] \notin {"none", "closing"}, tx[u] \notin {"none", "closing"}
  PROVE  sender_count > 1
<1>1. t \in Live /\ u \in Live
  BY DEF Live
<1>2. /\ IsFiniteSet(Live \ {t}) /\ Cardinality(Live \ {t}) = Cardinality(Live) - 1
  BY <1>1, LiveFinite, FS_RemoveElement
<1>3. u \in Live \ {t}
  BY <1>1
<1>4. Cardinality(Live \ {t}) # 0
  BY <1>2, <1>3, FS_EmptySet
<1>5. Cardinality(Live \ {t}) \in Nat
  BY <1>2, FS_CardinalityType
<1> QED BY <1>2, <1>4, <1>5, LiveFinite DEF TypeOK

-----------------------------------------------------------------------------
(* Types *)

\* One thread moves between live states: the count stays right.
LEMMA LiveKept ==
  ASSUME DataOK, NEW t \in Senders, NEW to \in TxStates \ {"none", "closing"},
         tx[t] \notin {"none", "closing"}, tx' = [tx EXCEPT ![t] = to]
  PROVE  Live' = Live
BY DEF Live, DataOK, TxStates

LEMMA WokenLive ==
  ASSUME DataOK, not_full_notify_one
  PROVE  Live' = Live /\ tx' \in [Senders -> TxStates]
<1>1. CASE UNCHANGED tx
  BY <1>1 DEF Live, DataOK
<1>2. CASE \E t \in In("blocked") : tx' = [tx EXCEPT ![t] = "woken"]
  <2>1. PICK t \in In("blocked") : tx' = [tx EXCEPT ![t] = "woken"]
    BY ZenonT(30), <1>2
  <2>2. t \in Senders /\ tx[t] = "blocked"
    BY DEF In
  <2>3. Live' = Live
    BY ZenonT(30), <2>1, <2>2, LiveKept DEF TxStates
  <2> QED BY <2>1, <2>2, <2>3 DEF DataOK, TxStates
<1> QED BY <1>1, <1>2 DEF not_full_notify_one

LEMMA PopTypes ==
  ASSUME TypeOK, pop_front
  PROVE  /\ buffer' \in Seq(Values) /\ Len(buffer') = Len(buffer) - 1
         /\ received' \in Seq(Values) /\ tx' \in [Senders -> TxStates]
         /\ Live' = Live
<1>1. /\ buffer \in Seq(Values) /\ buffer # <<>> /\ received \in Seq(Values)
      /\ buffer' = Tail(buffer) /\ received' = Append(received, Head(buffer))
  BY DEF TypeOK, DataOK, pop_front
<1>2. /\ Tail(buffer) \in Seq(Values) /\ Head(buffer) \in Values
      /\ Len(Tail(buffer)) = Len(buffer) - 1
  BY <1>1, HeadTailProperties
<1> QED BY <1>1, <1>2, WokenLive DEF TypeOK, pop_front

LEMMA PushTypes ==
  ASSUME DataOK, NEW v \in Values, push_back(v)
  PROVE  /\ buffer' \in Seq(Values) /\ Len(buffer') = Len(buffer) + 1
         /\ accepted' \in Seq(Values)
BY DEF push_back, DataOK

\* The loop of send, seen from the types.
LEMMA SendLoopTypes ==
  ASSUME TypeOK, NEW t \in Senders, NEW v \in Values,
         tx[t] \in {"idle", "woken"}, send_loop(t, v)
  PROVE  /\ buffer' \in Seq(Values) /\ Len(buffer') <= Capacity
         /\ tx' \in [Senders -> TxStates] /\ rx' \in RxStates
         /\ accepted' \in Seq(Values) /\ Live' = Live
<1>0. /\ buffer \in Seq(Values) /\ Len(buffer) <= Capacity /\ Len(buffer) \in Nat
      /\ accepted \in Seq(Values) /\ rx \in RxStates
      /\ tx \in [Senders -> TxStates] /\ tx[t] \notin {"none", "closing"}
  BY LenProperties DEF TypeOK, DataOK
<1>1. CASE UNCHANGED <<buffer, rx, accepted>>
  <2>1. PICK to \in {"idle", "blocked"} : tx' = [tx EXCEPT ![t] = to]
    BY <1>1 DEF send_loop
  <2>2. Live' = Live
    BY ZenonT(30), <1>0, <2>1, LiveKept DEF TypeOK, TxStates
  <2> QED BY <1>0, <1>1, <2>1, <2>2 DEF TxStates
<1>2. CASE /\ Len(buffer) < Capacity /\ push_back(v) /\ not_empty_notify
           /\ tx' = [tx EXCEPT ![t] = "idle"]
  <2>1. Live' = Live
    BY ZenonT(30), <1>0, <1>2, LiveKept DEF TypeOK, TxStates
  <2>2. rx' \in RxStates
    BY <1>0, <1>2 DEF not_empty_notify, RxStates
  <2>3. buffer' \in Seq(Values) /\ Len(buffer') = Len(buffer) + 1 /\ accepted' \in Seq(Values)
    BY <1>2, PushTypes DEF TypeOK
  <2>4. tx' \in [Senders -> TxStates]
    BY <1>0, <1>2 DEF TxStates
  <2> QED BY <1>0, <1>2, <2>1, <2>2, <2>3, <2>4
<1> QED BY <1>1, <1>2 DEF send_loop

\* A step that moves one thread between live states, or none, and touches
\* neither counter keeps TypeOK if it keeps the data well typed.
LEMMA TypeStep == TypeOK /\ [Next]_vars => TypeOK'
<1> SUFFICES ASSUME TypeOK, [Next]_vars PROVE TypeOK'
  OBVIOUS
<1>0. /\ DataOK /\ sender_count = Cardinality(Live)
      /\ buffer \in Seq(Values) /\ Len(buffer) <= Capacity /\ Len(buffer) \in Nat
      /\ accepted \in Seq(Values) /\ received \in Seq(Values) /\ rx \in RxStates
      /\ tx \in [Senders -> TxStates] /\ calls \in [Senders -> Nat]
      /\ closed \in BOOLEAN /\ disconnected \in BOOLEAN
  BY LenProperties DEF TypeOK, DataOK
<1>v. \A t \in Senders : <<t, calls[t]>> \in Values /\ <<t, calls[t] + 1>> \in Values
  BY <1>0 DEF Values
<1>n. not_empty_notify => rx' \in RxStates
  BY <1>0 DEF not_empty_notify, RxStates
<1>1. ASSUME NEW t \in Senders, NEW u \in Senders, clone(t, u) PROVE TypeOK'
  <2>1. u \notin Live /\ Live' = Live \cup {u}
    BY <1>0, <1>1 DEF clone, Live, TxStates
  <2>2. Cardinality(Live') = Cardinality(Live) + 1
    BY ZenonT(30), <2>1, LiveFinite, FS_AddElement
  <2> QED BY <1>0, <1>1, <2>2 DEF TypeOK, DataOK, clone, history, TxStates
<1>2. ASSUME NEW t \in Senders, send(t) PROVE TypeOK'
  <2>1. send_loop(t, <<t, calls[t] + 1>>) /\ tx[t] = "idle"
    BY <1>2 DEF send
  <2>2. PICK v \in Values : v = <<t, calls[t] + 1>>
    BY ZenonT(30), <1>v
  <2>3. send_loop(t, v)
    BY <2>1, <2>2
  <2>4. calls' \in [Senders -> Nat]
    BY <1>0, <1>2 DEF send
  <2> QED BY <1>0, <1>2, <2>1, <2>3, <2>4, SendLoopTypes DEF TypeOK, DataOK, send
<1>3. ASSUME NEW t \in Senders, send_resumes(t) PROVE TypeOK'
  <2>1. send_loop(t, <<t, calls[t]>>) /\ tx[t] = "woken"
    BY <1>3 DEF send_resumes
  <2>2. PICK v \in Values : v = <<t, calls[t]>>
    BY ZenonT(30), <1>v
  <2>3. send_loop(t, v)
    BY <2>1, <2>2
  <2> QED BY <1>0, <1>3, <2>1, <2>3, SendLoopTypes DEF TypeOK, DataOK, send_resumes
<1>4. ASSUME NEW t \in Senders, try_send(t) PROVE TypeOK'
  <2>0. calls' \in [Senders -> Nat]
    BY <1>0, <1>4 DEF try_send
  <2>1. CASE UNCHANGED <<buffer, accepted, tx>>
    BY <1>0, <1>4, <2>0, <2>1 DEF TypeOK, DataOK, Live, try_send
  <2>2. CASE ~UNCHANGED <<buffer, accepted, tx>>
    <3>1. /\ push_back(<<t, calls[t] + 1>>) /\ tx' = [tx EXCEPT ![t] = "notify"]
          /\ Len(buffer) < Capacity /\ tx[t] = "idle"
      BY <1>0, <1>4, <2>2 DEF try_send
    <3>2. Live' = Live
      BY ZenonT(30), <1>0, <3>1, LiveKept DEF TxStates
    <3>3. PICK v \in Values : v = <<t, calls[t] + 1>>
      BY ZenonT(30), <1>v
    <3>4. /\ buffer' \in Seq(Values) /\ Len(buffer') = Len(buffer) + 1
          /\ accepted' \in Seq(Values)
      BY <1>0, <3>1, <3>3, PushTypes
    <3>5. tx' \in [Senders -> TxStates]
      BY <1>0, <3>1 DEF TxStates
    <3> QED BY SMTT(30), <1>0, <1>4, <2>0, <3>1, <3>2, <3>4, <3>5 DEF TypeOK, DataOK, try_send
  <2> QED BY <2>1, <2>2
<1>5. ASSUME NEW t \in Senders, try_send_notifies(t) PROVE TypeOK'
  <2>1. Live' = Live
    BY ZenonT(30), <1>0, <1>5, LiveKept DEF try_send_notifies, TxStates
  <2> QED BY <1>0, <1>5, <1>n, <2>1 DEF TypeOK, DataOK, try_send_notifies, shared, history, TxStates
<1>6. ASSUME NEW t \in Senders, drop_sender(t) PROVE TypeOK'
  <2>1. t \in Live /\ Live' = Live \ {t}
    BY <1>0, <1>6 DEF drop_sender, Live, TxStates
  <2>2. Cardinality(Live') = Cardinality(Live) - 1
    BY ZenonT(30), <2>1, LiveFinite, FS_RemoveElement
  <2>3. closed' \in BOOLEAN /\ tx' \in [Senders -> TxStates]
    BY ZenonT(30), <1>0, <1>6 DEF drop_sender, TxStates
  <2> QED BY <1>0, <1>6, <2>2, <2>3 DEF TypeOK, DataOK, drop_sender, history
<1>7. ASSUME NEW t \in Senders, drop_sender_notifies(t) PROVE TypeOK'
  <2>1. Live' = Live
    BY <1>0, <1>7 DEF drop_sender_notifies, Live, TxStates
  <2> QED BY <1>0, <1>7, <1>n, <2>1 DEF TypeOK, DataOK, drop_sender_notifies, shared, history, TxStates
<1>8. ASSUME rx \in {"idle", "woken"}, recv_loop,
             UNCHANGED <<closed, sender_count, calls, accepted>>
      PROVE TypeOK'
  <2>1. CASE pop_front
    BY SMTT(30), <1>0, <1>8, <2>1, PopTypes DEF TypeOK, DataOK, recv_loop, RxStates
  <2>2. CASE ~pop_front
    BY ZenonT(30), <1>0, <1>8, <2>2 DEF TypeOK, DataOK, Live, recv_loop, RxStates
  <2> QED BY <2>1, <2>2
<1>9. CASE recv \/ recv_resumes
  BY <1>8, <1>9 DEF recv, recv_resumes
<1>10. CASE try_recv
  <2>1. CASE pop_front
    BY <1>0, <1>10, <2>1, PopTypes DEF TypeOK, DataOK, try_recv
  <2>2. CASE ~pop_front
    BY ZenonT(30), <1>0, <1>10, <2>2 DEF TypeOK, DataOK, Live, try_recv
  <2> QED BY <2>1, <2>2
<1>11. CASE drop_receiver
  BY <1>0, <1>11 DEF TypeOK, DataOK, Live, drop_receiver, history, RxStates
<1>12. CASE drop_receiver_notifies
  <2>1. Live' = Live /\ tx' \in [Senders -> TxStates]
    BY <1>0, <1>12 DEF drop_receiver_notifies, not_full_notify_all, Live, TxStates
  <2> QED BY <1>0, <1>12, <2>1 DEF TypeOK, DataOK, drop_receiver_notifies, shared, history, RxStates
<1>13. CASE spurious_wakeup
  <2>1. Live' = Live /\ tx' \in [Senders -> TxStates] /\ rx' \in RxStates
    <3>1. CASE UNCHANGED tx
      BY <1>0, <1>13, <3>1 DEF spurious_wakeup, Live, RxStates
    <3>2. CASE (\E t \in In("blocked") : tx' = [tx EXCEPT ![t] = "woken"]) /\ UNCHANGED rx
      BY ZenonT(30), <1>0, <3>2, WokenLive DEF not_full_notify_one
    <3> QED BY <1>13, <3>1, <3>2 DEF spurious_wakeup
  <2> QED BY <1>0, <1>13, <2>1 DEF TypeOK, DataOK, spurious_wakeup, shared, history
<1>14. CASE UNCHANGED vars
  BY <1>0, <1>14 DEF TypeOK, DataOK, Live, vars
<1> QED BY ZenonT(30), <1>1, <1>2, <1>3, <1>4, <1>5, <1>6, <1>7, <1>9, <1>10, <1>11, <1>12,
           <1>13, <1>14 DEF Next, SenderStep, ReceiverStep

-----------------------------------------------------------------------------
(* Nothing is lost *)

\* A push and a pop keep the order in which values were accepted.
LEMMA PushKeepsOrder ==
  ASSUME TypeOK, accepted = received \o buffer, NEW v \in Values, push_back(v),
         UNCHANGED received
  PROVE  (accepted = received \o buffer)'
<1>1. received \in Seq(Values) /\ buffer \in Seq(Values)
  BY DEF TypeOK, DataOK
<1>2. Append(received \o buffer, v) = received \o Append(buffer, v)
  <2>1. received \o buffer \in Seq(Values) /\ <<v>> \in Seq(Values)
    BY <1>1, ConcatProperties
  <2>2. /\ Append(received \o buffer, v) = (received \o buffer) \o <<v>>
        /\ Append(buffer, v) = buffer \o <<v>>
    BY <1>1, <2>1, AppendIsConcat
  <2> QED BY SMTT(30), <1>1, <2>1, <2>2, ConcatAssociative
<1> QED BY <1>2 DEF push_back

LEMMA PopKeepsOrder ==
  ASSUME TypeOK, accepted = received \o buffer, pop_front, UNCHANGED accepted
  PROVE  (accepted = received \o buffer)'
<1>1. received \in Seq(Values) /\ buffer \in Seq(Values) /\ buffer # <<>>
  BY DEF TypeOK, DataOK, pop_front
<1>2. received \o buffer = Append(received, Head(buffer)) \o Tail(buffer)
  BY SMTT(30), <1>1
<1> QED BY <1>2 DEF pop_front

\* NothingLost with what makes it inductive.
Kept == NothingLost /\ DisconnectedFinal

LEMMA KeptStep == TypeOK /\ Kept /\ [Next]_vars => Kept'
<1> SUFFICES ASSUME TypeOK, Kept, [Next]_vars PROVE Kept'
  OBVIOUS
<1>0. /\ accepted = received \o buffer
      /\ disconnected => closed /\ buffer = <<>> /\ accepted = received
      /\ received \in Seq(Values) /\ buffer \in Seq(Values)
  BY DEF Kept, NothingLost, DisconnectedFinal, TypeOK, DataOK
\* Nothing the property is about changes, but for a channel that closes.
<1>q. ASSUME UNCHANGED <<buffer, accepted, received, disconnected>>, closed => closed'
      PROVE  Kept'
  BY <1>0, <1>q DEF Kept, NothingLost, DisconnectedFinal
<1>v. \A t \in Senders : <<t, calls[t]>> \in Values /\ <<t, calls[t] + 1>> \in Values
  BY DEF TypeOK, DataOK, Values
<1>1. ASSUME NEW v \in Values, push_back(v), ~closed,
             UNCHANGED <<closed, received, disconnected>>
      PROVE  Kept'
  <2>1. (accepted = received \o buffer)'
    BY <1>0, <1>1, PushKeepsOrder
  <2> QED BY <1>0, <1>1, <2>1 DEF Kept, NothingLost, DisconnectedFinal
<1>2. ASSUME pop_front, UNCHANGED <<closed, accepted, disconnected>>
      PROVE  Kept'
  <2>1. (accepted = received \o buffer)'
    BY <1>0, <1>2, PopKeepsOrder
  <2>2. ~disconnected
    BY <1>0, <1>2 DEF pop_front
  <2> QED BY <1>2, <2>1, <2>2 DEF Kept, NothingLost, DisconnectedFinal
<1>3. ASSUME buffer = <<>>, disconnected' => disconnected \/ closed,
             UNCHANGED <<buffer, closed, accepted, received>>
      PROVE  Kept'
  <2>1. accepted = received
    BY <1>0, <1>3
  <2> QED BY <1>0, <1>3, <2>1 DEF Kept, NothingLost, DisconnectedFinal
<1>4. ASSUME NEW t \in Senders, NEW v \in Values, send_loop(t, v),
             UNCHANGED <<closed, received, disconnected>>
      PROVE  Kept'
  BY <1>1, <1>4, <1>q DEF send_loop
<1>5. ASSUME NEW t \in Senders, SenderStep(t) PROVE Kept'
  <2>1. CASE \E u \in Senders : clone(t, u)
    BY <1>q, <2>1 DEF clone, history
  <2>2. CASE send(t)
    BY ZenonT(30), <1>4, <1>v, <2>2 DEF send
  <2>3. CASE send_resumes(t)
    BY ZenonT(30), <1>4, <1>v, <2>3 DEF send_resumes
  <2>4. CASE try_send(t)
    BY ZenonT(30), <1>1, <1>q, <1>v, <2>4 DEF try_send
  <2>5. CASE try_send_notifies(t) \/ drop_sender_notifies(t)
    BY <1>q, <2>5 DEF try_send_notifies, drop_sender_notifies, shared, history
  <2>6. CASE drop_sender(t)
    BY <1>q, <2>6 DEF drop_sender, history
  <2> QED BY SMTT(30), <1>5, <2>1, <2>2, <2>3, <2>4, <2>5, <2>6 DEF SenderStep
<1>6. CASE recv \/ recv_resumes
  BY <1>2, <1>3, <1>6 DEF recv, recv_resumes, recv_loop
<1>7. CASE try_recv
  BY ZenonT(30), <1>2, <1>3, <1>7 DEF try_recv
<1>8. CASE drop_receiver \/ drop_receiver_notifies
  BY <1>q, <1>8 DEF drop_receiver, drop_receiver_notifies, shared, history
<1>9. CASE spurious_wakeup
  BY <1>q, <1>9 DEF spurious_wakeup, shared, history
<1>10. CASE UNCHANGED vars
  BY <1>q, <1>10 DEF vars
<1> QED BY <1>5, <1>6, <1>7, <1>8, <1>9, <1>10 DEF Next, ReceiverStep

-----------------------------------------------------------------------------
(* The channel closes when an end is gone *)

LEMMA ClosedStep ==
  TypeOK /\ ClosedMeansEndGone /\ [Next]_vars => ClosedMeansEndGone'
<1> SUFFICES ASSUME TypeOK, ClosedMeansEndGone, [Next]_vars PROVE ClosedMeansEndGone'
  OBVIOUS
<1>0. /\ closed <=> (sender_count = 0 \/ rx \in {"closing", "gone"})
      /\ closed \in BOOLEAN
  BY DEF ClosedMeansEndGone, TypeOK, DataOK
<1>q. ASSUME UNCHANGED <<closed, sender_count>>,
             rx' \in {"closing", "gone"} <=> rx \in {"closing", "gone"}
      PROVE  ClosedMeansEndGone'
  BY <1>0, <1>q DEF ClosedMeansEndGone
<1>n. not_empty_notify => (rx' \in {"closing", "gone"} <=> rx \in {"closing", "gone"})
  BY DEF not_empty_notify
<1>1. ASSUME NEW t \in Senders, SenderStep(t) PROVE ClosedMeansEndGone'
  <2>1. ASSUME NEW u \in Senders, clone(t, u) PROVE ClosedMeansEndGone'
    <3>1. sender_count \in Nat /\ sender_count > 0
      BY <2>1, LiveCounts DEF clone
    <3> QED BY <1>0, <2>1, <3>1 DEF clone, ClosedMeansEndGone
  <2>2. CASE send(t) \/ send_resumes(t)
    BY <1>q, <1>n, <2>2 DEF send, send_resumes, send_loop
  <2>3. CASE try_send(t) \/ try_send_notifies(t) \/ drop_sender_notifies(t)
    BY <1>q, <1>n, <2>3 DEF try_send, try_send_notifies, drop_sender_notifies, shared
  <2>4. CASE drop_sender(t)
    <3>1. sender_count \in Nat /\ sender_count > 0
      BY <2>4, LiveCounts DEF drop_sender
    <3> QED BY <1>0, <2>4, <3>1 DEF drop_sender, ClosedMeansEndGone
  <2> QED BY <1>1, <2>1, <2>2, <2>3, <2>4 DEF SenderStep
<1>2. CASE recv \/ recv_resumes \/ try_recv
  BY <1>q, <1>2 DEF recv, recv_resumes, try_recv, recv_loop
<1>3. CASE drop_receiver
  BY <1>3 DEF drop_receiver, ClosedMeansEndGone
<1>4. CASE drop_receiver_notifies \/ spurious_wakeup
  BY <1>q, <1>4 DEF drop_receiver_notifies, spurious_wakeup, shared
<1>5. CASE UNCHANGED vars
  BY <1>q, <1>5 DEF vars
<1> QED BY <1>1, <1>2, <1>3, <1>4, <1>5 DEF Next, ReceiverStep

-----------------------------------------------------------------------------
(* No wake-up is lost *)

SendersServed ==
  In("blocked") # {} =>
    IF closed THEN rx = "closing"
    ELSE Capacity - Len(buffer) <= Cardinality(In("woken"))

ReceiverServed ==
  rx = "waiting" =>
    \/ buffer = <<>> /\ ~closed
    \/ In("notify") \cup In("closing") # {}

\* One thread leaves a state, or enters it.
LEMMA Leaves ==
  ASSUME DataOK, NEW t \in Senders, NEW to \in TxStates, tx' = [tx EXCEPT ![t] = to],
         NEW st, tx[t] = st, to # st
  PROVE  In(st)' = In(st) \ {t} /\ t \in In(st)
BY DEF In, DataOK

LEMMA Enters ==
  ASSUME DataOK, NEW t \in Senders, NEW to \in TxStates, tx' = [tx EXCEPT ![t] = to],
         NEW st, tx[t] # st, to = st
  PROVE  In(st)' = In(st) \cup {t} /\ t \notin In(st)
BY DEF In, DataOK

LEMMA Bystands ==
  ASSUME DataOK, NEW t \in Senders, NEW to \in TxStates, tx' = [tx EXCEPT ![t] = to],
         NEW st, tx[t] # st, to # st
  PROVE  In(st)' = In(st)
BY DEF In, DataOK

\* not_full.notify_one wakes a sender unless none waits.
LEMMA NotifyOne ==
  ASSUME DataOK, not_full_notify_one
  PROVE  \/ In("blocked") = {} /\ In("blocked")' = {}
         \/ Cardinality(In("woken"))' = Cardinality(In("woken")) + 1
<1>1. CASE In("blocked") = {} /\ UNCHANGED tx
  BY <1>1 DEF In
<1>2. ASSUME NEW t \in In("blocked"), tx' = [tx EXCEPT ![t] = "woken"]
      PROVE  Cardinality(In("woken"))' = Cardinality(In("woken")) + 1
  <2>1. t \in Senders /\ tx[t] = "blocked"
    BY DEF In
  <2>2. In("woken")' = In("woken") \cup {t} /\ t \notin In("woken")
    BY ZenonT(30), <1>2, <2>1, Enters DEF TxStates
  <2> QED BY <2>2, InFinite, FS_AddElement
<1> QED BY <1>1, <1>2 DEF not_full_notify_one

LEMMA SendersServedStep ==
  TypeOK /\ ClosedMeansEndGone /\ SendersServed /\ [Next]_vars => SendersServed'
<1> SUFFICES ASSUME TypeOK, ClosedMeansEndGone, SendersServed, [Next]_vars
             PROVE  SendersServed'
  OBVIOUS
<1>0. /\ DataOK /\ Len(buffer) \in Nat /\ buffer \in Seq(Values)
      /\ Cardinality(In("woken")) \in Nat /\ IsFiniteSet(In("woken"))
  BY LenProperties, InFinite DEF TypeOK, DataOK
<1>f. Cardinality(In("woken"))' \in Nat
  <2>1. In("woken")' \subseteq Senders
    BY DEF In
  <2> QED BY <2>1, FS_Subset, FS_CardinalityType
\* Nobody starts to wait, no place is freed and the channel does not close.
<1>q. ASSUME In("blocked")' = In("blocked"), UNCHANGED closed, rx = "closing" => rx' = "closing",
             \/ closed
             \/ Len(buffer') - Len(buffer) >= Cardinality(In("woken")) - Cardinality(In("woken"))',
             Len(buffer') \in Nat
      PROVE  SendersServed'
  BY <1>0, <1>f, <1>q DEF SendersServed
<1>i. ASSUME UNCHANGED tx PROVE In("blocked")' = In("blocked") /\ In("woken")' = In("woken")
  BY <1>i DEF In
<1>n. not_empty_notify => (rx = "closing" => rx' = "closing")
  BY DEF not_empty_notify
\* One thread moves between states that are neither "blocked" nor "woken".
<1>m. ASSUME NEW t \in Senders, NEW to \in TxStates \ {"blocked", "woken"},
             tx[t] \notin {"blocked", "woken"}, tx' = [tx EXCEPT ![t] = to]
      PROVE  In("blocked")' = In("blocked") /\ In("woken")' = In("woken")
  BY ZenonT(30), <1>0, <1>m, Bystands
<1>l. ASSUME NEW t \in Senders, NEW to \in TxStates \ {"woken"},
             tx[t] \in {"idle", "woken"}, tx' = [tx EXCEPT ![t] = to]
      PROVE  Cardinality(In("woken"))' >= Cardinality(In("woken")) - 1
  <2>1. CASE tx[t] = "woken"
    <3>1. In("woken")' = In("woken") \ {t} /\ t \in In("woken")
      BY ZenonT(30), <1>0, <1>l, <2>1, Leaves
    <3>2. Cardinality(In("woken"))' = Cardinality(In("woken")) - 1
      BY <1>0, <3>1, FS_RemoveElement
    <3> QED BY <1>0, <3>2
  <2>2. CASE tx[t] = "idle"
    <3>1. In("woken")' = In("woken")
      BY ZenonT(30), <1>0, <1>l, <2>2, Bystands
    <3> QED BY <1>0, <3>1
  <2> QED BY <1>l, <2>1, <2>2
<1>1. ASSUME NEW t \in Senders, NEW v \in Values, tx[t] \in {"idle", "woken"},
             send_loop(t, v), UNCHANGED closed
      PROVE  SendersServed'
  <2>b. ASSUME tx' = [tx EXCEPT ![t] = "idle"] PROVE In("blocked")' = In("blocked")
    BY ZenonT(30), <1>0, <1>1, <2>b, Bystands DEF TxStates
  <2>1. CASE closed
    BY ZenonT(30), <1>0, <1>1, <1>q, <2>1, <2>b DEF send_loop
  <2>2. CASE push_back(v) /\ not_empty_notify /\ tx' = [tx EXCEPT ![t] = "idle"]
    <3>1. Len(buffer') = Len(buffer) + 1
      BY <1>0, <2>2, PushTypes
    <3>2. Cardinality(In("woken"))' >= Cardinality(In("woken")) - 1
      BY ZenonT(30), <1>1, <1>l, <2>2 DEF TxStates
    <3> QED BY SMTT(30), <1>0, <1>1, <1>f, <1>n, <1>q, <2>2, <2>b, <3>1, <3>2
  <2>3. CASE ~closed /\ Len(buffer) >= Capacity /\ UNCHANGED buffer
    BY <1>0, <1>1, <1>f, <2>3 DEF SendersServed
  <2> QED BY <1>1, <2>1, <2>2, <2>3 DEF send_loop
<1>v. \A t \in Senders : <<t, calls[t]>> \in Values /\ <<t, calls[t] + 1>> \in Values
  BY <1>0 DEF DataOK, Values
<1>2. ASSUME NEW t \in Senders, SenderStep(t) PROVE SendersServed'
  <2>1. ASSUME NEW u \in Senders, clone(t, u) PROVE SendersServed'
    <3>1. In("blocked")' = In("blocked") /\ In("woken")' = In("woken")
      BY ZenonT(30), <1>m, <2>1 DEF clone, TxStates
    <3> QED BY SMTT(30), <1>0, <1>q, <2>1, <3>1 DEF clone
  <2>2. CASE send(t) \/ send_resumes(t)
    BY <1>1, <1>v, <2>2 DEF send, send_resumes
  <2>3. CASE try_send(t)
    <3>1. CASE UNCHANGED <<buffer, tx>>
      BY <1>0, <1>i, <1>q, <2>3, <3>1 DEF try_send
    <3>2. CASE push_back(<<t, calls[t] + 1>>) /\ tx' = [tx EXCEPT ![t] = "notify"]
      <4>1. PICK v \in Values : v = <<t, calls[t] + 1>>
        BY ZenonT(30), <1>v
      <4>2. Len(buffer') = Len(buffer) + 1
        BY <1>0, <3>2, <4>1, PushTypes
      <4>3. In("blocked")' = In("blocked") /\ In("woken")' = In("woken")
        BY ZenonT(30), <1>m, <2>3, <3>2 DEF try_send, TxStates
      <4> QED BY SMTT(30), <1>0, <1>q, <2>3, <4>2, <4>3 DEF try_send
    <3> QED BY <2>3, <3>1, <3>2 DEF try_send
  <2>4. CASE try_send_notifies(t) \/ drop_sender_notifies(t)
    <3>1. In("blocked")' = In("blocked") /\ In("woken")' = In("woken")
      BY <1>m, <2>4 DEF try_send_notifies, drop_sender_notifies, TxStates
    <3> QED BY <1>0, <1>n, <1>q, <2>4, <3>1 DEF try_send_notifies, drop_sender_notifies, shared
  <2>5. CASE drop_sender(t)
    <3>1. In("blocked")' = In("blocked") /\ In("woken")' = In("woken")
      BY SMTT(30), <1>m, <2>5 DEF drop_sender, TxStates
    <3>2. CASE UNCHANGED closed
      BY SMTT(30), <1>0, <1>q, <2>5, <3>1, <3>2 DEF drop_sender
    <3>3. CASE sender_count' = 0
      <4>1. ASSUME NEW u \in In("blocked") PROVE FALSE
        <5>1. u \in Senders /\ tx[u] = "blocked" /\ tx[t] = "idle"
          BY <2>5 DEF In, drop_sender
        <5>2. sender_count > 1 /\ sender_count \in Nat
          BY <5>1, TwoLive, LiveCounts
        <5> QED BY <2>5, <3>3, <5>2 DEF drop_sender
      <4> QED BY <3>1, <4>1 DEF SendersServed
    <3> QED BY SMTT(30), <2>5, <3>2, <3>3 DEF drop_sender
  <2> QED BY <1>2, <2>1, <2>2, <2>3, <2>4, <2>5 DEF SenderStep
\* The receiver's calls: it is there, so on a closed channel nobody is blocked.
<1>3. ASSUME rx # "closing", pop_front, UNCHANGED closed PROVE SendersServed'
  <2>1. Len(buffer') = Len(buffer) - 1 /\ buffer' \in Seq(Values)
    BY <1>3, PopTypes
  <2>2. CASE closed \/ In("blocked") = {}
    <3>1. In("blocked") = {}
      BY <1>3, <2>2 DEF SendersServed
    <3>2. In("blocked")' = {}
      BY <1>3, <3>1 DEF pop_front, not_full_notify_one, In
    <3> QED BY <3>2 DEF SendersServed
  <2>3. CASE ~closed /\ In("blocked") # {}
    <3>1. Cardinality(In("woken"))' = Cardinality(In("woken")) + 1
      BY ZenonT(30), <1>0, <1>3, <2>3, NotifyOne DEF pop_front
    <3> QED BY SMTT(30), <1>0, <1>3, <2>1, <2>3, <3>1 DEF SendersServed
  <2> QED BY <2>2, <2>3
<1>4. ASSUME rx # "closing", UNCHANGED <<buffer, closed, tx>> PROVE SendersServed'
  BY SMTT(30), <1>0, <1>4, <1>i, <1>q
<1>5. CASE recv \/ recv_resumes \/ try_recv
  BY <1>3, <1>4, <1>5 DEF recv, recv_resumes, try_recv, recv_loop
<1>6. CASE drop_receiver
  BY <1>6 DEF drop_receiver, SendersServed
<1>7. CASE drop_receiver_notifies
  <2>1. In("blocked")' = {}
    BY <1>0, <1>7 DEF drop_receiver_notifies, not_full_notify_all, In
  <2> QED BY <2>1 DEF SendersServed
<1>8. CASE spurious_wakeup
  <2>1. CASE UNCHANGED tx
    BY SMTT(30), <1>0, <1>8, <1>i, <1>q, <2>1 DEF spurious_wakeup, shared
  <2>2. ASSUME NEW t \in In("blocked"), tx' = [tx EXCEPT ![t] = "woken"], UNCHANGED rx
        PROVE  SendersServed'
    <3>1. In("blocked") # {} /\ not_full_notify_one
      BY ZenonT(30), <2>2 DEF not_full_notify_one
    <3>2. Cardinality(In("woken"))' = Cardinality(In("woken")) + 1
      BY <1>0, <3>1, NotifyOne
    <3> QED BY SMTT(30), <1>0, <1>8, <2>2, <3>1, <3>2 DEF SendersServed, spurious_wakeup, shared
  <2> QED BY SMTT(30), <1>8, <2>1, <2>2 DEF spurious_wakeup
<1>9. CASE UNCHANGED vars
  BY <1>0, <1>9, <1>i, <1>q DEF vars
<1> QED BY <1>2, <1>5, <1>6, <1>7, <1>8, <1>9 DEF Next, ReceiverStep

LEMMA ReceiverServedStep ==
  TypeOK /\ ReceiverServed /\ [Next]_vars => ReceiverServed'
<1> SUFFICES ASSUME TypeOK, ReceiverServed, [Next]_vars PROVE ReceiverServed'
  OBVIOUS
<1>0. DataOK /\ tx \in [Senders -> TxStates]
  BY DEF TypeOK, DataOK
<1>r. rx' # "waiting" => ReceiverServed'
  BY DEF ReceiverServed
\* A step that only moves threads that owe no notification.
<1>q. ASSUME UNCHANGED <<buffer, closed, rx>>,
             \A t \in Senders : tx[t] \in {"notify", "closing"} => tx'[t] = tx[t]
      PROVE  ReceiverServed'
  BY <1>q DEF ReceiverServed, In
<1>1. ASSUME NEW t \in Senders, NEW v, tx[t] \in {"idle", "woken"},
             send_loop(t, v), UNCHANGED closed
      PROVE  ReceiverServed'
  <2>1. CASE not_empty_notify
    BY <1>r, <2>1 DEF not_empty_notify
  <2>2. CASE ~not_empty_notify
    BY ZenonT(30), <1>0, <1>1, <1>q, <2>2 DEF send_loop
  <2> QED BY <2>1, <2>2
<1>2. ASSUME NEW t \in Senders, SenderStep(t) PROVE ReceiverServed'
  <2>1. CASE \E u \in Senders : clone(t, u)
    BY <1>0, <1>q, <2>1 DEF clone
  <2>2. CASE send(t) \/ send_resumes(t)
    BY <1>1, <2>2 DEF send, send_resumes
  <2>3. CASE try_send(t)
    <3>1. CASE UNCHANGED <<buffer, tx>>
      BY <1>q, <2>3, <3>1 DEF try_send
    <3>2. CASE tx' = [tx EXCEPT ![t] = "notify"]
      <4>1. t \in In("notify")'
        BY <1>0, <3>2 DEF In
      <4> QED BY <4>1 DEF ReceiverServed
    <3> QED BY SMTT(30), <2>3, <3>1, <3>2 DEF try_send
  <2>4. CASE try_send_notifies(t) \/ drop_sender_notifies(t)
    BY <1>r, <2>4 DEF try_send_notifies, drop_sender_notifies, not_empty_notify
  <2>5. CASE drop_sender(t)
    <3>1. CASE tx' = [tx EXCEPT ![t] = "closing"]
      <4>1. t \in In("closing")'
        BY <1>0, <3>1 DEF In
      <4> QED BY <4>1 DEF ReceiverServed
    <3>2. CASE UNCHANGED closed /\ tx' = [tx EXCEPT ![t] = "none"]
      BY ZenonT(30), <1>0, <1>q, <2>5, <3>2 DEF drop_sender
    <3> QED BY <2>5, <3>1, <3>2 DEF drop_sender
  <2> QED BY ZenonT(30), <1>2, <2>1, <2>2, <2>3, <2>4, <2>5 DEF SenderStep
<1>3. CASE recv \/ recv_resumes
  BY <1>r, <1>3 DEF recv, recv_resumes, recv_loop, ReceiverServed
<1>4. CASE try_recv \/ drop_receiver \/ drop_receiver_notifies
  BY <1>r, <1>4 DEF try_recv, drop_receiver, drop_receiver_notifies
<1>5. CASE spurious_wakeup
  <2>1. CASE rx' = "woken"
    BY <1>r, <2>1
  <2>2. ASSUME NEW t \in In("blocked"), tx' = [tx EXCEPT ![t] = "woken"], UNCHANGED rx
        PROVE  ReceiverServed'
    BY <1>0, <1>5, <1>q, <2>2 DEF In, spurious_wakeup, shared
  <2> QED BY <1>5, <2>1, <2>2 DEF spurious_wakeup
<1>6. CASE UNCHANGED vars
  BY <1>6, <1>q DEF vars
<1> QED BY <1>2, <1>3, <1>4, <1>5, <1>6 DEF Next, ReceiverStep

-----------------------------------------------------------------------------
(* The theorems *)

LEMMA InitInv == Init => ChannelInv
<1> SUFFICES ASSUME Init PROVE ChannelInv
  OBVIOUS
<1>1. DataOK
  <2>1. <<>> \in Seq(Values) /\ Len(<<>>) = 0
    BY EmptySeq
  <2>2. tx \in [Senders -> TxStates] /\ rx \in RxStates /\ calls \in [Senders -> Nat]
    BY DEF Init, TxStates, RxStates
  <2>3. buffer \in Seq(Values) /\ Len(buffer) <= Capacity
    BY <2>1 DEF Init
  <2>4. accepted \in Seq(Values) /\ received \in Seq(Values)
    BY <2>1 DEF Init
  <2> QED BY ZenonT(30), <2>2, <2>3, <2>4 DEF Init, DataOK
<1>2. Live = {First} /\ In("blocked") = {}
  BY DEF Init, Live, In
<1>3. Cardinality({First}) = 1
  BY FS_Singleton
<1>4. NothingLost
  <2>1. <<>> \o <<>> = <<>>
    BY ConcatEmptySeq, EmptySeq
  <2> QED BY <2>1 DEF Init, NothingLost
<1> QED BY <1>1, <1>2, <1>3, <1>4 DEF Init, ChannelInv, TypeOK, DisconnectedFinal,
           ClosedMeansEndGone, NoLostWakeup

LEMMA StepInv == ChannelInv /\ [Next]_vars => ChannelInv'
<1>1. ChannelInv <=> /\ TypeOK /\ Kept /\ ClosedMeansEndGone
                     /\ SendersServed /\ ReceiverServed
  BY DEF ChannelInv, Kept, NoLostWakeup, SendersServed, ReceiverServed
<1>2. ChannelInv' <=> /\ TypeOK' /\ Kept' /\ ClosedMeansEndGone'
                      /\ SendersServed' /\ ReceiverServed'
  BY DEF ChannelInv, Kept, NoLostWakeup, SendersServed, ReceiverServed
<1> QED BY ZenonT(30), <1>1, <1>2, TypeStep, KeptStep, ClosedStep, SendersServedStep,
           ReceiverServedStep

LEMMA Invariant == Spec => []ChannelInv
BY InitInv, StepInv, PTL DEF Spec

\* For any senders and capacity the buffer stays within its capacity and the
\* count of handles is right (ChannelInner).
THEOREM TypeCorrect == Spec => []TypeOK
<1>1. ChannelInv => TypeOK
  BY DEF ChannelInv
<1> QED BY <1>1, Invariant, PTL

\* For any senders and capacity nothing accepted is lost, duplicated or
\* reordered, and a reported disconnection is final (recv, try_recv).
THEOREM NothingIsLost == Spec => []NothingLost
<1>1. ChannelInv => NothingLost
  BY DEF ChannelInv
<1> QED BY <1>1, Invariant, PTL

\* For any senders and capacity, one notification per push and per pop leaves
\* nobody waiting for what is already there (not_empty, not_full).
THEOREM NoWakeupIsLost == Spec => []NoLostWakeup
<1>1. ChannelInv => NoLostWakeup
  BY DEF ChannelInv
<1> QED BY <1>1, Invariant, PTL

-----------------------------------------------------------------------------
(* The channel implements SyncChannel *)

\* The flag is what tells a call whether both ends exist.
LEMMA OpenMeans ==
  ASSUME TypeOK, ClosedMeansEndGone
  PROVE  /\ Promise!Open <=> ~closed
         /\ Receiver # "gone" => (closed <=> Live = {})
<1>1. Live = {} <=> sender_count = 0
  BY LiveFinite, FS_EmptySet DEF TypeOK
<1>2. Receiver = "gone" <=> rx \in {"closing", "gone"}
  BY DEF Receiver
<1>3. closed \in BOOLEAN
  BY DEF TypeOK, DataOK
<1> QED BY <1>1, <1>2, <1>3 DEF ClosedMeansEndGone, Promise!Open

\* One thread moves: which handles there are, and which of them wait.
LEMMA HandlesMove ==
  ASSUME DataOK, NEW t \in Senders, NEW to \in TxStates, tx' = [tx EXCEPT ![t] = to]
  PROVE  /\ Live' = IF to \in {"none", "closing"} THEN Live \ {t} ELSE Live \cup {t}
         /\ Pending' = IF to \in {"blocked", "woken"} THEN Pending \cup {t} ELSE Pending \ {t}
<1>1. \A u \in Senders : tx'[u] = IF u = t THEN to ELSE tx[u]
  BY DEF DataOK
<1>2. Live' = IF to \in {"none", "closing"} THEN Live \ {t} ELSE Live \cup {t}
  BY <1>1 DEF Live
<1>3. Pending' = IF to \in {"blocked", "woken"} THEN Pending \cup {t} ELSE Pending \ {t}
  BY <1>1 DEF Pending, In
<1> QED BY <1>2, <1>3

\* What a thread's state says of its handle.
LEMMA HandleIs ==
  ASSUME NEW t \in Senders
  PROVE  /\ t \in Live <=> tx[t] \notin {"none", "closing"}
         /\ t \in Pending <=> tx[t] \in {"blocked", "woken"}
BY DEF Live, Pending, In

\* A caller comes to rest, waits for room, or lets its handle go.
LEMMA CallerRests ==
  ASSUME DataOK, NEW t \in Live, NEW to \in {"idle", "notify"}, tx' = [tx EXCEPT ![t] = to]
  PROVE  Live' = Live /\ Pending' = Pending \ {t}
<1>1. t \in Senders /\ to \in TxStates
  BY DEF Live, TxStates
<1>2. to \notin {"none", "closing"} /\ to \notin {"blocked", "woken"}
  OBVIOUS
<1>3. Live' = Live \cup {t} /\ Pending' = Pending \ {t}
  BY ZenonT(30), <1>1, <1>2, HandlesMove
<1>4. Live \cup {t} = Live
  OBVIOUS
<1> QED BY <1>3, <1>4

LEMMA CallerWaits ==
  ASSUME DataOK, NEW t \in Live, tx' = [tx EXCEPT ![t] = "blocked"]
  PROVE  Live' = Live /\ Pending' = Pending \cup {t}
<1>1. t \in Senders /\ "blocked" \in TxStates
  BY DEF Live, TxStates
<1>2. Live' = Live \cup {t} /\ Pending' = Pending \cup {t}
  BY ZenonT(30), <1>1, HandlesMove
<1>3. Live \cup {t} = Live
  OBVIOUS
<1> QED BY <1>2, <1>3

LEMMA CallerLeaves ==
  ASSUME DataOK, NEW t \in Senders \ Pending, NEW to \in {"none", "closing"},
         tx' = [tx EXCEPT ![t] = to]
  PROVE  Live' = Live \ {t} /\ Pending' = Pending
<1>1. t \in Senders /\ to \in TxStates /\ to \notin {"blocked", "woken"}
  BY DEF TxStates
<1>2. Live' = Live \ {t} /\ Pending' = Pending \ {t}
  BY ZenonT(30), <1>1, HandlesMove
<1>3. Pending \ {t} = Pending
  OBVIOUS
<1> QED BY <1>2, <1>3

\* A notification moves nobody, as far as a caller can tell.
LEMMA NotifyUnseen ==
  ASSUME DataOK
  PROVE  /\ not_full_notify_one => UNCHANGED <<Live, Pending>>
         /\ not_full_notify_all => UNCHANGED <<Live, Pending>>
         /\ not_empty_notify => UNCHANGED Receiver
<1>1. ASSUME NEW t \in In("blocked"), tx' = [tx EXCEPT ![t] = "woken"]
      PROVE  UNCHANGED <<Live, Pending>>
  <2>1. t \in Senders /\ tx[t] = "blocked"
    BY DEF In
  <2>2. t \in Live /\ t \in Pending
    BY <2>1, HandleIs
  <2>3. Live' = Live \cup {t} /\ Pending' = Pending \cup {t}
    BY ZenonT(30), <1>1, <2>1, HandlesMove DEF TxStates
  <2> QED BY <2>2, <2>3
<1>2. UNCHANGED tx => UNCHANGED <<Live, Pending>>
  BY DEF Live, Pending, In
<1>3. not_full_notify_one => UNCHANGED <<Live, Pending>>
  BY <1>1, <1>2 DEF not_full_notify_one
<1>4. ASSUME not_full_notify_all PROVE UNCHANGED <<Live, Pending>>
  <2>1. \A t \in Senders : tx'[t] = IF tx[t] = "blocked" THEN "woken" ELSE tx[t]
    BY <1>4 DEF not_full_notify_all
  <2> QED BY <2>1 DEF Live, Pending, In
<1>5. not_empty_notify => UNCHANGED Receiver
  BY DEF not_empty_notify, Receiver
<1> QED BY <1>3, <1>4, <1>5

\* What one pass through the loop of send may do: refuse v, accept it, or wait.
Outcome(t, v) ==
  /\ Live' = Live /\ Receiver' = Receiver
  /\ \/ /\ ~Promise!Open /\ buffer' = buffer
        /\ Pending' = Pending \ {t}
     \/ /\ Promise!Open /\ Promise!Room /\ buffer' = Append(buffer, v)
        /\ Pending' = Pending \ {t}
     \/ /\ Promise!Open /\ ~Promise!Room /\ buffer' = buffer
        /\ Pending' = Pending \cup {t}

LEMMA LoopSeen ==
  ASSUME TypeOK, ClosedMeansEndGone, NEW t \in Senders, NEW v,
         tx[t] \in {"idle", "woken"}, send_loop(t, v)
  PROVE  Outcome(t, v)
<1>1. DataOK /\ t \in Live /\ (Promise!Open <=> ~closed)
  BY HandleIs, OpenMeans DEF TypeOK
<1>2. Promise!Room <=> Len(buffer) < Capacity
  BY DEF Promise!Room
<1>3. Len(buffer) >= Capacity <=> ~(Len(buffer) < Capacity)
  BY <1>1 DEF DataOK
<1>4. rx' = rx => Receiver' = Receiver
  BY DEF Receiver
<1>5. ASSUME tx' = [tx EXCEPT ![t] = "idle"]
      PROVE  Live' = Live /\ Pending' = Pending \ {t}
  BY ZenonT(30), <1>1, <1>5, CallerRests
<1>6. ASSUME tx' = [tx EXCEPT ![t] = "blocked"]
      PROVE  Live' = Live /\ Pending' = Pending \cup {t}
  BY ZenonT(30), <1>1, <1>6, CallerWaits
<1>7. CASE /\ closed /\ tx' = [tx EXCEPT ![t] = "idle"]
           /\ UNCHANGED <<buffer, rx, accepted>>
  BY <1>1, <1>4, <1>5, <1>7 DEF Outcome
<1>8. CASE /\ ~closed /\ Len(buffer) < Capacity /\ push_back(v)
           /\ not_empty_notify /\ tx' = [tx EXCEPT ![t] = "idle"]
  <2>1. Receiver' = Receiver
    BY <1>1, <1>8, NotifyUnseen
  <2>2. buffer' = Append(buffer, v)
    BY <1>8 DEF push_back
  <2> QED BY <1>1, <1>2, <1>5, <1>8, <2>1, <2>2 DEF Outcome
<1>9. CASE /\ ~closed /\ Len(buffer) >= Capacity /\ tx' = [tx EXCEPT ![t] = "blocked"]
           /\ UNCHANGED <<buffer, rx, accepted>>
  BY <1>1, <1>2, <1>3, <1>4, <1>6, <1>9 DEF Outcome
<1> QED BY <1>7, <1>8, <1>9 DEF send_loop

\* A step of a sender's thread is a call, the end of one, a handle coming or
\* going, or nothing its caller can see.
LEMMA SenderSeen ==
  ASSUME TypeOK, ClosedMeansEndGone, NEW t \in Senders, SenderStep(t)
  PROVE  \/ Promise!Call(t) \/ Promise!Finish(t) \/ Promise!Drop(t)
         \/ \E u \in Senders : Promise!Clone(t, u)
         \/ UNCHANGED Promise!vars
<1>1. DataOK /\ (Promise!Open <=> ~closed)
  BY OpenMeans DEF TypeOK
<1>2. /\ t \in Live <=> tx[t] \notin {"none", "closing"}
      /\ t \in Pending <=> tx[t] \in {"blocked", "woken"}
  BY HandleIs
<1>3. rx' = rx => Receiver' = Receiver
  BY DEF Receiver
<1>4. not_empty_notify => Receiver' = Receiver
  BY <1>1, NotifyUnseen
<1>5. ASSUME NEW u \in Senders, clone(t, u) PROVE Promise!Clone(t, u)
  <2>1. u \notin Live /\ u \notin Pending /\ t \in Live \ Pending
    BY <1>2, <1>5, HandleIs DEF clone
  <2>2. Live' = Live \cup {u} /\ Pending' = Pending \ {u}
    BY ZenonT(30), <1>1, <1>5, HandlesMove DEF clone, TxStates
  <2>3. UNCHANGED <<buffer, received, Receiver, calls, disconnected>>
    BY <1>3, <1>5 DEF clone, history
  <2> QED BY <2>1, <2>2, <2>3 DEF Promise!Clone
<1>6. CASE send(t)
  <2>1. t \in Live \ Pending /\ tx[t] \in {"idle", "woken"}
    BY <1>2, <1>6 DEF send
  <2>2. /\ calls' = [calls EXCEPT ![t] = @ + 1]
        /\ UNCHANGED <<received, disconnected>>
        /\ send_loop(t, <<t, calls[t] + 1>>)
    BY <1>6 DEF send
  <2>v. PICK v : v = <<t, calls[t] + 1>>
    BY ZenonT(30)
  <2>l. send_loop(t, v)
    BY <2>2, <2>v
  <2>3. Outcome(t, v)
    BY SMTT(30), <2>1, <2>l, LoopSeen
  <2>4. Pending \ {t} = Pending
    BY <2>1
  <2> QED BY ZenonT(30), <2>1, <2>2, <2>3, <2>4, <2>v DEF Promise!Call, Outcome
<1>7. CASE send_resumes(t)
  <2>1. t \in Pending /\ tx[t] \in {"idle", "woken"}
    BY <1>2, <1>7 DEF send_resumes
  <2>2. UNCHANGED <<received, disconnected, calls>> /\ send_loop(t, <<t, calls[t]>>)
    BY <1>7 DEF send_resumes
  <2>v. PICK v : v = <<t, calls[t]>>
    BY ZenonT(30)
  <2>l. send_loop(t, v)
    BY <2>2, <2>v
  <2>3. Outcome(t, v)
    BY SMTT(30), <2>1, <2>l, LoopSeen
  <2>4. Pending \cup {t} = Pending
    BY <2>1
  <2> QED BY ZenonT(30), <2>1, <2>2, <2>3, <2>4, <2>v DEF Promise!Finish, Promise!vars, Outcome
<1>8. CASE try_send(t)
  <2>1. /\ t \in Live \ Pending /\ calls' = [calls EXCEPT ![t] = @ + 1]
        /\ UNCHANGED <<received, disconnected, Receiver>>
    BY <1>2, <1>3, <1>8 DEF try_send
  <2>2. CASE closed \/ Len(buffer) >= Capacity
    <3>1. UNCHANGED <<buffer, tx>>
      BY <1>8, <2>2 DEF try_send
    <3>2. UNCHANGED <<Live, Pending>>
      BY <3>1 DEF Live, Pending, In
    <3>3. ~(Promise!Open /\ Promise!Room)
      BY <1>1, <2>2 DEF Promise!Room, DataOK
    <3> QED BY <2>1, <3>1, <3>2, <3>3 DEF Promise!Call
  <2>3. CASE ~(closed \/ Len(buffer) >= Capacity)
    <3>1. /\ buffer' = Append(buffer, <<t, calls[t] + 1>>)
          /\ tx' = [tx EXCEPT ![t] = "notify"]
      BY <1>8, <2>3 DEF try_send, push_back
    <3>2. Live' = Live /\ Pending' = Pending \ {t}
      BY ZenonT(30), <1>1, <2>1, <3>1, CallerRests
    <3>3. Promise!Open /\ Promise!Room
      BY <1>1, <2>3 DEF Promise!Room, DataOK
    <3>4. Pending \ {t} = Pending
      BY <2>1
    <3> QED BY <2>1, <3>1, <3>2, <3>3, <3>4 DEF Promise!Call
  <2> QED BY <2>2, <2>3
<1>9. CASE drop_sender(t)
  <2>1. t \in Live \ Pending
    BY <1>2, <1>9 DEF drop_sender
  <2>2. tx' = [tx EXCEPT ![t] = "closing"] \/ tx' = [tx EXCEPT ![t] = "none"]
    BY <1>9 DEF drop_sender
  <2>3. Live' = Live \ {t} /\ Pending' = Pending
    BY SMTT(30), <1>1, <2>1, <2>2, CallerLeaves
  <2>4. UNCHANGED <<buffer, received, Receiver, calls, disconnected>>
    BY <1>3, <1>9 DEF drop_sender, history
  <2> QED BY <2>1, <2>3, <2>4 DEF Promise!Drop
<1>10. CASE try_send_notifies(t) \/ drop_sender_notifies(t)
  <2>1. UNCHANGED <<buffer, received, Receiver, calls, disconnected>>
    BY <1>4, <1>10 DEF try_send_notifies, drop_sender_notifies, shared, history
  <2>2. CASE try_send_notifies(t)
    <3>1. t \in Live \ Pending /\ tx' = [tx EXCEPT ![t] = "idle"]
      BY <1>2, <2>2 DEF try_send_notifies
    <3>2. Live' = Live /\ Pending' = Pending \ {t}
      BY ZenonT(30), <1>1, <3>1, CallerRests
    <3>3. Pending \ {t} = Pending
      BY <3>1
    <3> QED BY <2>1, <3>2, <3>3 DEF Promise!vars
  <2>3. CASE drop_sender_notifies(t)
    <3>1. t \notin Live /\ t \notin Pending /\ tx' = [tx EXCEPT ![t] = "none"]
      BY <1>2, <2>3 DEF drop_sender_notifies
    <3>2. Live' = Live \ {t} /\ Pending' = Pending
      BY ZenonT(30), <1>1, <3>1, CallerLeaves
    <3>3. Live \ {t} = Live
      BY <3>1
    <3> QED BY <2>1, <3>2, <3>3 DEF Promise!vars
  <2> QED BY <1>10, <2>2, <2>3
<1> QED BY <1>5, <1>6, <1>7, <1>8, <1>9, <1>10 DEF SenderStep

\* A step of the receiver's thread delivers a value, starts to wait, reports a
\* disconnection, hangs up, or does nothing its caller can see.
LEMMA ReceiverSeen ==
  ASSUME TypeOK, ClosedMeansEndGone, ReceiverStep
  PROVE  \/ Promise!Take \/ Promise!Wait \/ Promise!Disconnect \/ Promise!HangUp
         \/ UNCHANGED Promise!vars
<1>1. DataOK /\ (Promise!Open <=> ~closed) /\ (Receiver # "gone" => (closed <=> Live = {}))
  BY OpenMeans DEF TypeOK
<1>2. /\ Receiver = "gone" <=> rx \in {"closing", "gone"}
      /\ Receiver = "idle" <=> rx = "idle"
      /\ Receiver = "waiting" <=> rx \in {"waiting", "woken"}
  BY <1>1 DEF Receiver, DataOK, RxStates
<1>3. /\ Receiver' = "gone" <=> rx' \in {"closing", "gone"}
      /\ rx' = "idle" => Receiver' = "idle"
      /\ rx' = "waiting" => Receiver' = "waiting"
  BY DEF Receiver
<1>4. UNCHANGED tx => UNCHANGED <<Live, Pending>>
  BY DEF Live, Pending, In
<1>5. ASSUME pop_front, Receiver # "gone", Receiver' = "idle", UNCHANGED <<calls, disconnected>>
      PROVE  Promise!Take
  <2>1. UNCHANGED <<Live, Pending>>
    BY <1>1, <1>5, NotifyUnseen DEF pop_front
  <2> QED BY <1>5, <2>1 DEF pop_front, Promise!Take
<1>6. ASSUME buffer = <<>>, closed, Receiver # "gone", Receiver' = "idle",
             disconnected' = TRUE, UNCHANGED <<buffer, tx, received, calls>>
      PROVE  Promise!Disconnect
  BY <1>1, <1>4, <1>6 DEF Promise!Disconnect
<1>7. CASE recv \/ recv_resumes
  <2>1. Receiver # "gone" /\ recv_loop /\ UNCHANGED calls
    BY <1>2, <1>7 DEF recv, recv_resumes
  <2>2. CASE pop_front /\ rx' = "idle" /\ UNCHANGED disconnected
    BY <1>3, <1>5, <2>1, <2>2
  <2>3. CASE /\ buffer = <<>> /\ closed /\ rx' = "idle" /\ disconnected' = TRUE
             /\ UNCHANGED <<buffer, tx, received>>
    BY <1>3, <1>6, <2>1, <2>3
  <2>4. CASE /\ buffer = <<>> /\ ~closed /\ rx' = "waiting"
             /\ UNCHANGED <<buffer, tx, received, disconnected>>
    <3>1. Receiver' = "waiting" /\ UNCHANGED <<Live, Pending>> /\ Promise!Open
      BY <1>1, <1>3, <1>4, <2>4
    <3>2. CASE recv
      BY <1>2, <2>1, <2>4, <3>1, <3>2 DEF recv, Promise!Wait
    <3>3. CASE recv_resumes
      BY <1>2, <2>1, <2>4, <3>1, <3>3 DEF recv_resumes, Promise!vars
    <3> QED BY <1>7, <3>2, <3>3
  <2> QED BY ZenonT(30), <2>1, <2>2, <2>3, <2>4 DEF recv_loop
<1>8. CASE try_recv
  <2>1. Receiver = "idle" /\ Receiver' = "idle" /\ UNCHANGED calls
    BY <1>2, <1>3, <1>8 DEF try_recv
  <2>2. CASE pop_front /\ UNCHANGED disconnected
    BY <1>5, <2>1, <2>2
  <2>3. CASE /\ buffer = <<>> /\ disconnected' = (disconnected \/ closed)
             /\ UNCHANGED <<buffer, tx, received>>
    <3>1. CASE closed
      <4>1. disconnected' = TRUE
        BY ZenonT(30), <2>3, <3>1
      <4> QED BY ZenonT(30), <1>6, <2>1, <2>3, <3>1, <4>1
    <3>2. CASE ~closed
      <4>1. disconnected' = disconnected
        BY <1>1, <2>3, <3>2 DEF DataOK
      <4> QED BY <1>4, <2>1, <2>3, <4>1 DEF Promise!vars
    <3> QED BY <3>1, <3>2
  <2> QED BY <1>8, <2>2, <2>3 DEF try_recv
<1>9. CASE drop_receiver
  BY <1>2, <1>3, <1>4, <1>9 DEF drop_receiver, history, Promise!HangUp
<1>10. CASE drop_receiver_notifies
  <2>1. UNCHANGED <<Live, Pending>>
    BY <1>1, <1>10, NotifyUnseen DEF drop_receiver_notifies
  <2>2. UNCHANGED Receiver
    BY <1>2, <1>3, <1>10 DEF drop_receiver_notifies
  <2> QED BY <1>10, <2>1, <2>2 DEF drop_receiver_notifies, shared, history, Promise!vars
<1> QED BY <1>7, <1>8, <1>9, <1>10 DEF ReceiverStep

LEMMA InitSeen == Init => Promise!Init
<1> SUFFICES ASSUME Init PROVE Promise!Init
  OBVIOUS
<1>1. Live = {First} /\ Pending = {}
  BY DEF Init, Live, Pending, In
<1>2. Receiver = "idle"
  BY DEF Init, Receiver
<1> QED BY <1>1, <1>2 DEF Init, Promise!Init

LEMMA StepSeen == ChannelInv /\ [Next]_vars => [Promise!Next]_(Promise!vars)
<1> SUFFICES ASSUME TypeOK, ClosedMeansEndGone, [Next]_vars
             PROVE  Promise!Next \/ UNCHANGED Promise!vars
  BY DEF ChannelInv
<1>1. DataOK
  BY DEF TypeOK
<1>2. ASSUME NEW t \in Senders, SenderStep(t)
      PROVE  Promise!Next \/ UNCHANGED Promise!vars
  BY <1>2, SenderSeen DEF Promise!Next
<1>3. CASE ReceiverStep
  BY <1>3, ReceiverSeen DEF Promise!Next
<1>4. CASE spurious_wakeup
  <2>1. UNCHANGED <<buffer, received, calls, disconnected>>
    BY <1>4 DEF spurious_wakeup, shared, history
  <2>2. CASE rx = "waiting" /\ rx' = "woken" /\ UNCHANGED tx
    BY <2>1, <2>2 DEF Receiver, Live, Pending, In, Promise!vars
  <2>3. CASE (\E t \in In("blocked") : tx' = [tx EXCEPT ![t] = "woken"]) /\ UNCHANGED rx
    <3>1. UNCHANGED <<Live, Pending>>
      BY ZenonT(30), <1>1, <2>3, NotifyUnseen DEF not_full_notify_one
    <3> QED BY <2>1, <2>3, <3>1 DEF Receiver, Promise!vars
  <2> QED BY <1>4, <2>2, <2>3 DEF spurious_wakeup
<1>5. CASE UNCHANGED vars
  BY <1>5 DEF vars, Receiver, Live, Pending, In, Promise!vars
<1> QED BY <1>2, <1>3, <1>4, <1>5 DEF Next

\* For any senders and capacity the channel with its lock, its two condition
\* variables, its counter and its flag implements the channel in which every
\* call acts in one step (Sender, Receiver).
THEOREM ImplementsSyncChannel == Spec => ActsAtomically
<1>1. Init => Promise!Init
  BY InitSeen
<1>2. ChannelInv /\ [Next]_vars => [Promise!Next]_(Promise!vars)
  BY StepSeen
<1> QED BY <1>1, <1>2, Invariant, PTL DEF Spec, ActsAtomically, Promise!Spec

=============================================================================
