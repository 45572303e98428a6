------------------------- MODULE AsyncRuntimeProofs -------------------------
(***************************************************************************)
(* Proofs about the async runtime, for any tasks, any sources of theirs,   *)
(* either event loop, and interrupts at any step.                          *)
(***************************************************************************)
EXTENDS AsyncRuntime, SequenceTheorems, TLAPS

-----------------------------------------------------------------------------
(* Sequences *)

LEMMA Appended ==
  ASSUME NEW S, NEW q \in Seq(S), NEW x \in S
  PROVE  /\ Append(q, x) \in Seq(S) /\ Range(Append(q, x)) = Range(q) \cup {x}
         /\ IsInjective(q) /\ x \notin Range(q) => IsInjective(Append(q, x))
<1>1. /\ Append(q, x) \in Seq(S) /\ Len(q) \in Nat /\ DOMAIN q = 1..Len(q)
      /\ DOMAIN Append(q, x) = 1 .. Len(q) + 1
      /\ \A i \in 1..Len(q) : Append(q, x)[i] = q[i]
      /\ Append(q, x)[Len(q) + 1] = x
  BY AppendProperties, LenProperties
<1>2. \A i \in DOMAIN Append(q, x) : i \in DOMAIN q \/ i = Len(q) + 1
  BY <1>1
<1>3. DOMAIN q \subseteq DOMAIN Append(q, x) /\ Len(q) + 1 \in DOMAIN Append(q, x)
  BY <1>1
<1>4. Range(Append(q, x)) = Range(q) \cup {x}
  BY <1>1, <1>2, <1>3 DEF Range
<1>5. ASSUME IsInjective(q), x \notin Range(q)
      PROVE  IsInjective(Append(q, x))
  <2>1. \A i \in DOMAIN q : q[i] # x
    BY <1>5 DEF Range
  <2> QED
    BY <1>1, <1>2, <1>5, <2>1 DEF IsInjective
<1> QED
  BY <1>1, <1>4, <1>5

\* An order of S is a sequence of the elements of S.
LEMMA OrderFacts ==
  ASSUME NEW T, NEW S \in SUBSET T, NEW s \in Orders(S)
  PROVE  s \in Seq(T) /\ Range(s) = S
<1>1. PICK n \in 0..Cardinality(S) : s \in [1..n -> S]
  BY DEF Orders
<1>2. n \in Nat
  OBVIOUS
<1>3. s \in [1..n -> T]
  BY <1>1
<1> QED
  BY <1>2, <1>3, SeqDef DEF Orders

LEMMA Split ==
  ASSUME NEW S, NEW q \in Seq(S), q # <<>>
  PROVE  /\ Head(q) \in S /\ Tail(q) \in Seq(S)
         /\ Range(q) = {Head(q)} \cup Range(Tail(q))
         /\ IsInjective(q) => IsInjective(Tail(q)) /\ Head(q) \notin Range(Tail(q))
         /\ Len(q) = 1 => Tail(q) = <<>> /\ Range(Tail(q)) = {}
         /\ Len(q) # 1 => Tail(q) # <<>>
<1>1. /\ Len(q) \in Nat /\ Len(q) > 0 /\ DOMAIN q = 1..Len(q)
  BY EmptySeq, LenProperties
<1>2. /\ Head(q) \in S /\ Head(q) = q[1] /\ Tail(q) \in Seq(S) /\ Len(Tail(q)) = Len(q) - 1
      /\ DOMAIN Tail(q) = 1 .. Len(q) - 1
      /\ \A i \in 1 .. Len(q) - 1 : Tail(q)[i] = q[i + 1]
  BY <1>1, HeadTailProperties, LenProperties
<1>3. \A i \in DOMAIN q : i = 1 \/ (i - 1 \in DOMAIN Tail(q) /\ Tail(q)[i - 1] = q[i])
  BY <1>1, <1>2
<1>4. \A i \in DOMAIN Tail(q) : i + 1 \in DOMAIN q /\ i + 1 # 1 /\ Tail(q)[i] = q[i + 1]
  BY <1>1, <1>2
<1>5. 1 \in DOMAIN q
  BY <1>1
<1>6. Range(q) = {Head(q)} \cup Range(Tail(q))
  <2>1. \A i \in DOMAIN q : q[i] = Head(q) \/ q[i] \in Range(Tail(q))
    BY ZenonT(30), <1>2, <1>3 DEF Range
  <2>2. \A i \in DOMAIN Tail(q) : Tail(q)[i] \in Range(q)
    BY <1>4 DEF Range
  <2> QED
    BY ZenonT(30), <1>2, <1>5, <2>1, <2>2 DEF Range
<1>7. ASSUME IsInjective(q)
      PROVE  IsInjective(Tail(q)) /\ Head(q) \notin Range(Tail(q))
  <2>1. IsInjective(Tail(q))
    <3> SUFFICES ASSUME NEW i \in DOMAIN Tail(q), NEW j \in DOMAIN Tail(q), Tail(q)[i] = Tail(q)[j]
                 PROVE  i = j
      BY DEF IsInjective
    <3>1. i + 1 = j + 1
      BY <1>4, <1>7 DEF IsInjective
    <3> QED
      BY <1>2, <3>1
  <2>2. \A i \in DOMAIN Tail(q) : Tail(q)[i] # Head(q)
    BY <1>2, <1>4, <1>5, <1>7 DEF IsInjective
  <2> QED
    BY <2>1, <2>2 DEF Range
<1>8. Len(q) = 1 => Tail(q) = <<>> /\ Range(Tail(q)) = {}
  <2> SUFFICES ASSUME Len(q) = 1
               PROVE  Tail(q) = <<>> /\ Range(Tail(q)) = {}
    OBVIOUS
  <2>1. DOMAIN Tail(q) = {} /\ Len(Tail(q)) = 0
    BY <1>2
  <2>2. Tail(q) = <<>>
    BY <1>2, <2>1, EmptySeq
  <2> QED
    BY <2>1, <2>2 DEF Range
<1>9. Len(q) # 1 => Tail(q) # <<>>
  <2>1. Len(q) # 1 => Len(Tail(q)) # 0
    BY <1>1, <1>2
  <2> QED
    BY ZenonT(30), <2>1, EmptySeq
<1> QED
  BY <1>2, <1>6, <1>7, <1>8, <1>9

LEMMA Filled ==
  ASSUME NEW S, NEW q \in Seq(S)
  PROVE  Range(q) \subseteq S /\ (q # <<>> => Range(q) # {})
<1>1. \A i \in DOMAIN q : q[i] \in S
  BY ElementOfSeq, LenProperties
<1>2. q # <<>> => 1 \in DOMAIN q
  BY EmptySeq, LenProperties
<1> QED
  BY <1>1, <1>2 DEF Range

-----------------------------------------------------------------------------
(* The inductive invariant *)

Execs == [at : Ats, task : Futures \cup {NoFuture}, rest : Seq(Tokens)]
Marking == [at : {"mark", "wake"}, token : Tokens]

RtTyped ==
  /\ queue \in Seq(Futures) /\ got \in [Futures -> Nat] /\ done \in [Futures -> BOOLEAN]
  /\ data \in [Tokens -> Nat] /\ irq \in [Tokens -> BOOLEAN]
  /\ sources \subseteq Tokens /\ ready_queue \in Seq(Tokens)
  /\ exec \in Execs /\ handler \in {Quiet} \cup Marking
  /\ exec.task \in Futures <=> exec.at \in {"read", "arm", "rewake", "deregister"}

Flags ==
  /\ armed \cup ready \subseteq sources /\ armed \cap ready = {}
  /\ IsInjective(ready_queue) /\ ready = Range(ready_queue) \cap sources

\* The task is between its last read and its return.
Leaving(t) == exec.at = "deregister" /\ exec.task = t

\* A task has its sources registered until it leaves, and none when it is done.
Registered ==
  /\ \A t \in Futures : done[t] => got[t] = Need[t] /\ Range(Sources[t]) \cap sources = {}
  /\ \A t \in Futures : ~done[t] =>
       IF Leaving(t)
       THEN got[t] = Need[t] /\ Range(Sources[t]) \cap sources = Range(exec.rest)
       ELSE Range(Sources[t]) \subseteq sources
  /\ exec.at \in {"arm", "rewake", "deregister"} =>
       /\ ~done[exec.task] /\ exec.rest # <<>> /\ IsInjective(exec.rest)
       /\ Range(exec.rest) \subseteq Range(Sources[exec.task])

\* Someone will poll the task: it is queued, or the handler is about to queue it.
Called(t) == t \in Range(queue) \/ (handler.at = "wake" /\ Owner(handler.token) = t)

\* The sources the thread has still to arm.
ToArm == IF exec.at \in {"arm", "rewake"} THEN Range(exec.rest) ELSE {}

\* A task that nobody polls or will poll is armed on all its sources; one that
\* is arming them, on those it has passed.
Watched ==
  \A t \in Futures : ~done[t] =>
    \/ Called(t)
    \/ exec.task = t /\ exec.at \notin {"arm", "rewake"}
    \/ exec.task = t /\ exec.at \in {"arm", "rewake"} /\ Range(Sources[t]) \subseteq armed \cup ToArm
    \/ exec.task # t /\ Range(Sources[t]) \subseteq armed

\* An unread event of a source armed or about to be has left a trace.
Traced ==
  mode.backend = "interrupt" =>
    \A k \in armed \cup ToArm : data[k] > 0 =>
      irq[k] \/ handler = [at |-> "mark", token |-> k] \/ k \in ready

\* The poller has a token left while it marks.
Listing == exec.at = "marking" => exec.rest # <<>>

RtInv == RtTyped /\ Flags /\ Registered /\ Watched /\ Traced

LEMMA OwnerFacts ==
  ASSUME AsyncRuntimeAssumption, NEW k \in Tokens
  PROVE  /\ Owner(k) \in Futures /\ k \in Range(Sources[Owner(k)])
         /\ \A t \in Futures : k \in Range(Sources[t]) => t = Owner(k)
<1>1. \E t \in Futures : k \in Range(Sources[t])
  BY DEF AsyncRuntimeAssumption
<1>2. Owner(k) \in Futures /\ k \in Range(Sources[Owner(k)])
  BY <1>1 DEF Owner
<1> QED
  BY <1>2 DEF AsyncRuntimeAssumption

LEMMA SourceFacts ==
  ASSUME AsyncRuntimeAssumption, NEW t \in Futures
  PROVE  /\ Sources[t] \in Seq(Tokens) /\ Sources[t] # <<>> /\ IsInjective(Sources[t])
         /\ Range(Sources[t]) # {} /\ Range(Sources[t]) \subseteq Tokens
<1>1. Sources[t] \in Seq(Tokens) /\ Sources[t] # <<>> /\ IsInjective(Sources[t])
  BY DEF AsyncRuntimeAssumption
<1> QED
  BY <1>1, Filled

-----------------------------------------------------------------------------
(* Steps of the device and of the handler *)

LEMMA EventStep ==
  ASSUME AsyncRuntimeAssumption, RtInv, NEW k \in Tokens, device_event(k)
  PROVE  RtInv'
<1>1. /\ UNCHANGED <<mode, queue, got, done, sources, armed, ready, ready_queue, exec, handler>>
      /\ data' = [data EXCEPT ![k] = @ + 1]
      /\ irq' = [irq EXCEPT ![k] = (mode.backend = "interrupt")]
  BY DEF device_event, tasks, reactor
<1>2. /\ data' \in [Tokens -> Nat] /\ irq' \in [Tokens -> BOOLEAN]
      /\ irq'[k] = (mode.backend = "interrupt")
      /\ \A j \in Tokens \ {k} : data'[j] = data[j] /\ irq'[j] = irq[j]
  BY <1>1 DEF RtInv, RtTyped
<1>3. RtTyped'
  BY <1>1, <1>2 DEF RtInv, RtTyped
<1>4. Flags' /\ Registered' /\ Watched'
  BY <1>1 DEF RtInv, Flags, Registered, Leaving, Watched, Called, ToArm
<1>5. Traced'
  <2>1. armed \cup ToArm \subseteq Tokens
    BY Filled DEF RtInv, Flags, RtTyped, Execs, ToArm
  <2>2. ToArm' = ToArm
    BY <1>1 DEF ToArm
  <2> QED
    BY ZenonT(30), <1>1, <1>2, <2>1, <2>2 DEF RtInv, Traced
<1> QED
  BY <1>3, <1>4, <1>5 DEF RtInv

LEMMA IrqStep ==
  ASSUME AsyncRuntimeAssumption, RtInv, NEW k \in Tokens, device_irq(k)
  PROVE  RtInv'
<1>1. /\ UNCHANGED <<mode, queue, got, done, data, sources, armed, ready, ready_queue, exec>>
      /\ irq' = [irq EXCEPT ![k] = FALSE] /\ handler' = [at |-> "mark", token |-> k]
      /\ handler = Quiet
  BY DEF device_irq, tasks, reactor, device
<1>2. /\ irq' \in [Tokens -> BOOLEAN] /\ \A j \in Tokens \ {k} : irq'[j] = irq[j]
      /\ handler' \in Marking /\ handler'.at # "wake" /\ handler.at # "wake"
      /\ \A j : handler # [at |-> "mark", token |-> j]
  BY <1>1 DEF RtInv, RtTyped, Marking, Quiet
<1>3. RtTyped'
  BY <1>1, <1>2 DEF RtInv, RtTyped
<1>4. Flags' /\ Registered'
  BY <1>1 DEF RtInv, Flags, Registered, Leaving
<1>5. Watched'
  BY <1>1, <1>2 DEF RtInv, Watched, Called, ToArm
<1>6. Traced'
  <2>1. armed \cup ToArm \subseteq Tokens
    BY Filled DEF RtInv, Flags, RtTyped, Execs, ToArm
  <2>2. ToArm' = ToArm
    BY <1>1 DEF ToArm
  <2> QED
    BY <1>1, <1>2, <2>1, <2>2 DEF RtInv, Traced
<1> QED
  BY <1>3, <1>4, <1>5, <1>6 DEF RtInv

\* mark_ready flags a registered source, and takes its waker.
LEMMA MarkFacts ==
  ASSUME AsyncRuntimeAssumption, RtInv, NEW k \in Tokens, mark_ready(k)
  PROVE  /\ sources' = sources /\ armed' = armed \ {k}
         /\ ready \subseteq ready' /\ (k \in sources => k \in ready') /\ ready' \subseteq ready \cup {k}
         /\ ready_queue' \in Seq(Tokens)
         /\ Flags'
<1>1. /\ ready_queue \in Seq(Tokens) /\ IsInjective(ready_queue) /\ armed \subseteq sources
      /\ ready = Range(ready_queue) \cap sources /\ armed \cap ready = {} /\ ready \subseteq sources
  BY DEF RtInv, RtTyped, Flags
<1>2. CASE k \notin sources
  BY <1>1, <1>2 DEF mark_ready, reactor, Flags
<1>3. CASE k \in sources /\ k \in ready
  <2>1. UNCHANGED <<sources, ready_queue>> /\ ready' = ready /\ armed' = armed \ {k}
    BY <1>3 DEF mark_ready
  <2> QED
    BY <1>1, <1>3, <2>1 DEF Flags
<1>4. CASE k \in sources /\ k \notin ready
  <2>1. /\ UNCHANGED sources /\ ready_queue' = Append(ready_queue, k)
        /\ ready' = ready \cup {k} /\ armed' = armed \ {k}
    BY <1>4 DEF mark_ready
  <2>2. k \notin Range(ready_queue)
    BY <1>1, <1>4
  <2>3. /\ ready_queue' \in Seq(Tokens) /\ Range(ready_queue') = Range(ready_queue) \cup {k}
        /\ IsInjective(ready_queue')
    BY <1>1, <2>1, <2>2, Appended
  <2> QED
    BY <1>1, <1>4, <2>1, <2>3 DEF Flags
<1> QED
  BY <1>2, <1>3, <1>4

\* The sources a thread is still to arm are registered.
LEMMA ToArmFacts ==
  ASSUME AsyncRuntimeAssumption, RtInv
  PROVE  ToArm \subseteq sources /\ ToArm \subseteq Tokens /\ armed \subseteq Tokens
<1>1. CASE exec.at \in {"arm", "rewake"}
  <2>1. /\ exec.task \in Futures /\ ~done[exec.task] /\ ~Leaving(exec.task)
        /\ Range(exec.rest) \subseteq Range(Sources[exec.task])
    BY <1>1 DEF RtInv, RtTyped, Registered, Leaving
  <2> QED
    BY ZenonT(30), <1>1, <2>1 DEF RtInv, RtTyped, Flags, Registered, ToArm
<1>2. CASE exec.at \notin {"arm", "rewake"}
  BY <1>2 DEF ToArm, RtInv, RtTyped, Flags
<1> QED
  BY <1>1, <1>2

LEMMA MarkStep ==
  ASSUME AsyncRuntimeAssumption, RtInv, handler_marks
  PROVE  RtInv'
<1>1. handler \in Marking /\ handler.at = "mark"
  BY DEF RtInv, RtTyped, handler_marks, Quiet
<1>2. PICK k \in Tokens : k = handler.token
  BY <1>1 DEF Marking
<1>3. /\ UNCHANGED <<mode, queue, got, done, data, irq, exec>> /\ mark_ready(k)
      /\ handler' = IF Woken(k) THEN [handler EXCEPT !.at = "wake"] ELSE Quiet
  BY <1>2 DEF handler_marks, tasks, device
<1>4. /\ sources' = sources /\ armed' = armed \ {k}
      /\ ready \subseteq ready' /\ (k \in sources => k \in ready')
      /\ ready_queue' \in Seq(Tokens) /\ Flags'
  BY <1>3, MarkFacts
<1>5. /\ handler' \in {Quiet} \cup Marking
      /\ k \in armed => handler'.at = "wake" /\ handler'.token = k
  <2>1. [handler EXCEPT !.at = "wake"] \in Marking
    BY <1>1 DEF Marking
  <2>2. k \in armed => Woken(k)
    BY DEF Woken, RtInv, Flags
  <2>3. Woken(k) => handler'.at = "wake" /\ handler'.token = k
    BY <1>1, <1>2, <1>3 DEF Marking
  <2> QED
    BY <1>3, <2>1, <2>2, <2>3
<1>6. RtTyped'
  BY <1>3, <1>4, <1>5 DEF RtInv, RtTyped
<1>7. Registered'
  BY <1>3, <1>4 DEF RtInv, Registered, Leaving
<1>8. Watched'
  <2> SUFFICES ASSUME NEW t \in Futures, ~done[t], ~Called(t)'
               PROVE  \/ exec.task = t /\ exec.at \notin {"arm", "rewake"}
                      \/ /\ exec.task = t /\ exec.at \in {"arm", "rewake"}
                         /\ Range(Sources[t]) \subseteq armed' \cup ToArm
                      \/ exec.task # t /\ Range(Sources[t]) \subseteq armed'
    BY <1>3 DEF Watched, ToArm
  <2>1. ~Called(t)
    BY <1>1, <1>3 DEF Called
  <2>2. k \in Range(Sources[t]) => k \notin armed
    BY <1>5, OwnerFacts DEF Called
  <2> QED
    BY <1>4, <2>1, <2>2 DEF RtInv, Watched
<1>9. Traced'
  <2>1. ToArm' = ToArm
    BY <1>3 DEF ToArm
  <2>2. \A j : handler = [at |-> "mark", token |-> j] => j = k
    BY <1>2
  <2> QED
    BY <1>3, <1>4, <2>1, <2>2, ToArmFacts DEF RtInv, Traced, Flags
<1> QED
  BY <1>4, <1>6, <1>7, <1>8, <1>9 DEF RtInv

LEMMA WakeStep ==
  ASSUME AsyncRuntimeAssumption, RtInv, handler_wakes
  PROVE  RtInv'
<1>1. handler \in Marking /\ handler.at = "wake"
  BY DEF RtInv, RtTyped, handler_wakes, Quiet
<1>2. PICK t \in Futures : t = Owner(handler.token)
  BY <1>1, OwnerFacts DEF Marking
<1>3. /\ UNCHANGED <<mode, got, done, data, irq, sources, armed, ready, ready_queue, exec>>
      /\ queue' = Append(queue, t) /\ handler' = Quiet
  BY <1>2 DEF handler_wakes, tasks, device, reactor
<1>4. queue' \in Seq(Futures) /\ Range(queue') = Range(queue) \cup {t}
  BY <1>3, Appended DEF RtInv, RtTyped
<1>5. RtTyped'
  BY <1>3, <1>4 DEF RtInv, RtTyped
<1>6. Flags' /\ Registered'
  BY <1>3 DEF RtInv, Flags, Registered, Leaving
<1>7. \A u \in Futures : Called(u) => Called(u)'
  BY <1>2, <1>4 DEF Called
<1>8. Watched'
  BY <1>3, <1>7 DEF RtInv, Watched, ToArm
<1>9. Traced'
  BY <1>1, <1>3 DEF RtInv, Traced, ToArm
<1> QED
  BY <1>5, <1>6, <1>8, <1>9 DEF RtInv


-----------------------------------------------------------------------------
(* Steps of the executor's thread *)

LEMMA Same ==
  ASSUME RtInv, UNCHANGED <<mode, queue, got, done, data, irq, sources, armed, ready, ready_queue,
                            exec, handler>>
  PROVE  RtInv'
<1>1. RtTyped' /\ Flags' /\ Registered'
  BY DEF RtInv, RtTyped, Flags, Registered, Leaving
<1>2. Watched' /\ Traced'
  BY DEF RtInv, Watched, Called, Traced, ToArm
<1> QED
  BY <1>1, <1>2 DEF RtInv

Calm == {"run", "check", "drain", "halt", "epoll", "marking", "end"}

LEMMA AtFacts ==
  ASSUME AsyncRuntimeAssumption
  PROVE  \A at \in Calm, s \in Seq(Tokens) :
           /\ ExecAt(at) \in Execs /\ ExecAt(at).at = at /\ ExecAt(at).task = NoFuture
           /\ [ExecAt(at) EXCEPT !.rest = s] \in Execs
           /\ [ExecAt(at) EXCEPT !.rest = s].at = at /\ [ExecAt(at) EXCEPT !.rest = s].task = NoFuture
<1>1. <<>> \in Seq(Tokens)
  BY EmptySeq
<1> QED
  BY <1>1 DEF ExecAt, Execs, Ats, Calm

\* The thread goes on without a task.
LEMMA CalmStep ==
  ASSUME AsyncRuntimeAssumption, RtInv, exec.at \in Calm, exec' \in Execs, exec'.at \in Calm,
         exec'.task = NoFuture,
         UNCHANGED <<mode, queue, got, done, data, irq, sources, armed, ready, ready_queue, handler>>
  PROVE  RtInv'
<1>1. exec.task \notin Futures /\ NoFuture \notin Futures
  BY ZenonT(30) DEF RtInv, RtTyped, AsyncRuntimeAssumption, Calm
<1>2. RtTyped'
  BY <1>1 DEF RtInv, RtTyped, Calm
<1>3. Flags' /\ Registered'
  BY <1>1 DEF RtInv, Flags, Registered, Leaving, Calm
<1>4. Watched'
  BY <1>1 DEF RtInv, Watched, Called
<1>5. Traced'
  <2>1. ToArm = {} /\ ToArm' = {}
    BY DEF ToArm, Calm
  <2> QED
    BY <2>1 DEF RtInv, Traced
<1> QED
  BY <1>2, <1>3, <1>4, <1>5 DEF RtInv

LEMMA AcquireStep == ASSUME RtInv, acquire PROVE RtInv'
BY Same DEF acquire, tasks, device, reactor

LEMMA RunStep ==
  ASSUME AsyncRuntimeAssumption, RtInv, run_queued
  PROVE  RtInv'
<1>1. /\ UNCHANGED <<mode, got, done, data, irq, sources, armed, ready, ready_queue, handler>>
      /\ exec.at = "run"
  BY DEF run_queued, Here, reactor, device
<1>2. CASE queue = <<>>
  <2>1. exec' = ExecAt("check") /\ queue' = queue
    BY <1>2 DEF run_queued
  <2>2. exec' \in Execs /\ exec'.at \in Calm /\ exec'.task = NoFuture /\ exec.at \in Calm
    BY ZenonT(30), <1>1, <2>1, AtFacts, EmptySeq DEF Calm
  <2> QED
    BY <1>1, <2>1, <2>2, CalmStep
<1>3. CASE queue # <<>>
  <2>1. /\ queue' = Tail(queue) /\ exec' = [ExecAt("read") EXCEPT !.task = Head(queue)]
    BY <1>3 DEF run_queued
  <2>2. /\ Head(queue) \in Futures /\ queue' \in Seq(Futures)
        /\ Range(queue) = {Head(queue)} \cup Range(queue')
    BY <1>3, <2>1, Split DEF RtInv, RtTyped
  <2>3. /\ exec' \in Execs /\ exec'.at = "read" /\ exec'.task = Head(queue)
    BY ZenonT(30), <2>1, <2>2, EmptySeq DEF ExecAt, Execs, Ats
  <2>4. exec.task \notin Futures
    BY <1>1 DEF RtInv, RtTyped
  <2>5. RtTyped'
    BY <1>1, <2>2, <2>3 DEF RtInv, RtTyped
  <2>6. Flags' /\ Registered'
    BY <1>1, <2>3 DEF RtInv, Flags, Registered, Leaving
  <2>7. Watched'
    <3>1. \A t \in Futures : Called(t) => Called(t)' \/ t = Head(queue)
      BY <1>1, <2>2 DEF Called
    <3> QED
      BY <1>1, <2>3, <2>4, <3>1 DEF RtInv, Watched
  <2>8. Traced'
    <3>1. ToArm = {} /\ ToArm' = {}
      BY <1>1, <2>3 DEF ToArm
    <3> QED
      BY <1>1, <3>1 DEF RtInv, Traced
  <2> QED
    BY <2>5, <2>6, <2>7, <2>8 DEF RtInv
<1> QED
  BY <1>2, <1>3

LEMMA ReadStep ==
  ASSUME AsyncRuntimeAssumption, RtInv, future_reads
  PROVE  RtInv'
<1>1. /\ UNCHANGED <<mode, queue, done, irq, sources, armed, ready, ready_queue, handler>>
      /\ exec.at = "read" /\ ~done[exec.task]
  BY DEF future_reads, Here, reactor
<1>2. PICK t \in Futures : t = exec.task
  BY <1>1 DEF RtInv, RtTyped
<1>3. PICK k \in Range(Sources[t]) : data[k] > 0 /\ data' = [data EXCEPT ![k] = @ - 1]
  BY ZenonT(30), <1>2 DEF future_reads
<1>4. /\ data' \in [Tokens -> Nat] /\ \A j \in Tokens : data'[j] > 0 => data[j] > 0
  <2>1. k \in Tokens
    BY SourceFacts
  <2> QED
    BY <1>3, <2>1 DEF RtInv, RtTyped
<1>5. /\ got' \in [Futures -> Nat] /\ \A u \in Futures \ {t} : got'[u] = got[u]
  BY <1>2 DEF future_reads, RtInv, RtTyped
<1>6. /\ exec' \in Execs /\ exec'.task = t
      /\ \/ exec'.at = "read"
         \/ exec'.at = "deregister" /\ exec'.rest = Sources[t] /\ got'[t] = Need[t]
  <2>1. CASE got'[t] = Need[t]
    <3>1. exec' = [exec EXCEPT !.at = "deregister", !.rest = Sources[t]]
      BY <1>2, <2>1 DEF future_reads
    <3>2. exec' \in Execs /\ exec'.task = t /\ exec'.at = "deregister" /\ exec'.rest = Sources[t]
      BY ZenonT(30), <1>2, <3>1, SourceFacts DEF RtInv, RtTyped, Execs, Ats
    <3> QED
      BY <2>1, <3>2
  <2>2. CASE got'[t] # Need[t]
    <3>1. exec' = exec
      BY <1>2, <2>2 DEF future_reads
    <3> QED
      BY <1>1, <1>2, <3>1 DEF RtInv, RtTyped
  <2> QED
    BY <2>1, <2>2
<1>7. RtTyped'
  BY <1>1, <1>2, <1>4, <1>5, <1>6 DEF RtInv, RtTyped
<1>8. Flags'
  BY <1>1 DEF RtInv, Flags
<1>9. Registered'
  <2>1. /\ Range(Sources[t]) \subseteq sources /\ ~done[t]
        /\ \A u \in Futures : ~Leaving(u) /\ (Leaving(u)' => u = t)
    BY <1>1, <1>2, <1>6 DEF RtInv, Registered, Leaving
  <2>2. \A u \in Futures : done'[u] => got'[u] = Need[u] /\ Range(Sources[u]) \cap sources' = {}
    BY SMTT(30), <1>1, <1>5, <2>1 DEF RtInv, Registered
  <2>3. \A u \in Futures : ~done'[u] /\ ~Leaving(u)' => Range(Sources[u]) \subseteq sources'
    BY <1>1, <2>1 DEF RtInv, Registered
  <2>4. ASSUME exec'.at # "read"
        PROVE  /\ Leaving(t)' /\ got'[t] = Need[t] /\ Range(Sources[t]) \cap sources' = Range(exec'.rest)
               /\ ~done'[t] /\ exec'.rest # <<>> /\ IsInjective(exec'.rest)
               /\ Range(exec'.rest) \subseteq Range(Sources[t])
    BY <1>1, <1>6, <2>1, <2>4, SourceFacts DEF Leaving
  <2> QED
    BY ZenonT(30), <1>6, <2>1, <2>2, <2>3, <2>4 DEF Registered, Leaving
<1>10. Watched'
  <2>1. \A u \in Futures : Called(u)' = Called(u)
    BY <1>1 DEF Called
  <2> QED
    BY <1>1, <1>2, <1>6, <2>1 DEF RtInv, Watched
<1>11. Traced'
  <2>1. ToArm = {} /\ ToArm' = {} /\ armed \subseteq Tokens
    BY <1>1, <1>6, ToArmFacts DEF ToArm
  <2> QED
    BY <1>1, <1>4, <2>1 DEF RtInv, Traced
<1> QED
  BY <1>7, <1>8, <1>9, <1>10, <1>11 DEF RtInv

LEMMA ParkStep ==
  ASSUME AsyncRuntimeAssumption, RtInv, future_parks
  PROVE  RtInv'
<1>1. /\ UNCHANGED <<mode, queue, got, done, data, irq, sources, armed, ready, ready_queue, handler>>
      /\ exec.at = "read" /\ ~done[exec.task]
  BY DEF future_parks, Here, reactor, tasks, device
<1>2. PICK t \in Futures : t = exec.task
  BY <1>1 DEF RtInv, RtTyped
<1>3. \A k \in Range(Sources[t]) : data[k] = 0
  BY <1>2 DEF future_parks
<1>4. exec' \in Execs /\ exec'.at = "arm" /\ exec'.task = t /\ exec'.rest = Sources[t]
  <2>1. exec' = [exec EXCEPT !.at = "arm", !.rest = Sources[t]]
    BY <1>2 DEF future_parks
  <2> QED
    BY ZenonT(30), <1>2, <2>1, SourceFacts DEF RtInv, RtTyped, Execs, Ats
<1>5. RtTyped'
  BY <1>1, <1>4 DEF RtInv, RtTyped
<1>6. Flags'
  BY <1>1 DEF RtInv, Flags
<1>7. Registered'
  BY ZenonT(30), <1>1, <1>2, <1>4, SourceFacts DEF RtInv, Registered, Leaving
<1>8. Watched'
  <2>1. \A u \in Futures : Called(u)' = Called(u)
    BY <1>1 DEF Called
  <2>2. ToArm' = Range(Sources[t])
    BY <1>4 DEF ToArm
  <2> QED
    BY <1>1, <1>2, <1>4, <2>1, <2>2 DEF RtInv, Watched
<1>9. Traced'
  <2>1. ToArm' = Range(Sources[t])
    BY <1>4 DEF ToArm
  <2>2. \A k \in armed : data[k] > 0 /\ mode.backend = "interrupt" =>
          irq[k] \/ handler = [at |-> "mark", token |-> k] \/ k \in ready
    BY DEF RtInv, Traced
  <2>3. \A k \in Range(Sources[t]) : ~ (data[k] > 0)
    BY SMTT(30), <1>3
  <2> QED
    BY <1>1, <2>1, <2>2, <2>3 DEF Traced
<1> QED
  BY <1>5, <1>6, <1>7, <1>8, <1>9 DEF RtInv


\* What is left to arm after one source.
LEMMA ArmedFacts ==
  ASSUME AsyncRuntimeAssumption, RtInv, exec.at \in {"arm", "rewake"}
  PROVE  /\ exec.task \in Futures /\ ~done[exec.task] /\ ~Leaving(exec.task)
         /\ exec.rest \in Seq(Tokens) /\ exec.rest # <<>>
         /\ Head(exec.rest) \in Range(Sources[exec.task]) \cap sources
         /\ Armed(exec) \in Execs
         /\ \/ /\ Armed(exec).at = "run" /\ Armed(exec).task = NoFuture
               /\ Range(exec.rest) = {Head(exec.rest)}
            \/ /\ Armed(exec).at = "arm" /\ Armed(exec).task = exec.task
               /\ Armed(exec).rest # <<>> /\ IsInjective(Armed(exec).rest)
               /\ Range(exec.rest) = {Head(exec.rest)} \cup Range(Armed(exec).rest)
<1>1. /\ exec \in Execs /\ exec.task \in Futures /\ exec.rest \in Seq(Tokens)
      /\ exec.rest # <<>> /\ IsInjective(exec.rest) /\ ~done[exec.task] /\ ~Leaving(exec.task)
      /\ Range(exec.rest) \subseteq Range(Sources[exec.task])
      /\ Range(Sources[exec.task]) \subseteq sources
  BY ZenonT(30) DEF RtInv, RtTyped, Registered, Leaving, Execs
<1>2. /\ Tail(exec.rest) \in Seq(Tokens)
      /\ Range(exec.rest) = {Head(exec.rest)} \cup Range(Tail(exec.rest))
      /\ IsInjective(Tail(exec.rest))
      /\ Len(exec.rest) = 1 => Range(Tail(exec.rest)) = {}
      /\ Len(exec.rest) # 1 => Tail(exec.rest) # <<>>
  BY <1>1, Split
<1>3. CASE Len(exec.rest) = 1
  <2>1. Armed(exec) = ExecAt("run")
    BY <1>3 DEF Armed
  <2>2. ExecAt("run") \in Execs /\ ExecAt("run").at = "run" /\ ExecAt("run").task = NoFuture
    BY ZenonT(30), AtFacts, EmptySeq DEF Calm
  <2> QED
    BY <1>1, <1>2, <1>3, <2>1, <2>2
<1>4. CASE Len(exec.rest) # 1
  <2>1. Armed(exec) = [exec EXCEPT !.at = "arm", !.rest = Tail(exec.rest)]
    BY <1>1, <1>4 DEF Armed
  <2>2. /\ Armed(exec) \in Execs /\ Armed(exec).at = "arm" /\ Armed(exec).task = exec.task
        /\ Armed(exec).rest = Tail(exec.rest)
    BY ZenonT(30), <1>1, <1>2, <2>1 DEF Execs, Ats
  <2> QED
    BY <1>1, <1>2, <1>4, <2>2
<1> QED
  BY ZenonT(30), <1>3, <1>4

\* The thread passes the source k: it is armed, or its task has been called.
LEMMA PassStep ==
  ASSUME AsyncRuntimeAssumption, RtInv, exec.at \in {"arm", "rewake"}, exec' = Armed(exec),
         NEW k, k = Head(exec.rest),
         \/ armed' = armed \cup {k} /\ k \notin ready
         \/ armed' = armed /\ exec.task \in Range(queue'),
         queue' \in Seq(Futures), Range(queue) \subseteq Range(queue'),
         UNCHANGED <<mode, got, done, data, irq, sources, ready, ready_queue, handler>>
  PROVE  RtInv'
<1> DEFINE e == Armed(exec)
<1>1. /\ exec.task \in Futures /\ ~done[exec.task] /\ ~Leaving(exec.task)
      /\ k \in Range(Sources[exec.task]) /\ k \in sources /\ e \in Execs
  BY ZenonT(30), ArmedFacts
<1>2. \/ e.at = "run" /\ e.task = NoFuture /\ Range(exec.rest) = {k}
      \/ /\ e.at = "arm" /\ e.task = exec.task /\ e.rest # <<>> /\ IsInjective(e.rest)
         /\ Range(exec.rest) = {k} \cup Range(e.rest)
  BY ArmedFacts
<1> HIDE DEF e
<1>3. exec' = e /\ NoFuture \notin Futures
  BY DEF e, AsyncRuntimeAssumption
<1>4. RtTyped'
  BY ZenonT(30), <1>1, <1>2, <1>3 DEF RtInv, RtTyped
<1>5. Flags'
  BY ZenonT(30), <1>1 DEF RtInv, Flags
<1>6. Registered'
  <2>1. \A t \in Futures : Leaving(t)' = Leaving(t)
    BY <1>2, <1>3 DEF Leaving
  <2> QED
    BY ZenonT(30), <1>1, <1>2, <1>3, <2>1 DEF RtInv, Registered, Leaving
<1>7. ToArm = Range(exec.rest) /\ ToArm \subseteq {k} \cup ToArm' /\ ToArm' \subseteq ToArm
  BY <1>2, <1>3 DEF ToArm
<1>8. Watched'
  <2>1. \A t \in Futures : Called(t) => Called(t)'
    BY ZenonT(30) DEF Called
  <2>2. CASE armed' = armed \cup {k}
    BY SMTT(30), <1>2, <1>3, <1>7, <2>1, <2>2 DEF RtInv, Watched, ToArm
  <2>3. CASE armed' = armed /\ exec.task \in Range(queue')
    <3>1. \A t \in Futures : t = exec.task => Called(t)'
      BY <2>3 DEF Called
    <3> QED
      BY ZenonT(30), <1>2, <1>3, <2>1, <2>3, <3>1 DEF RtInv, Watched
  <2> QED
    BY <2>2, <2>3
<1>9. Traced'
  <2>1. armed' \cup ToArm' \subseteq armed \cup ToArm
    BY <1>2, <1>7
  <2> QED
    BY <2>1 DEF RtInv, Traced
<1> QED
  BY SMTT(30), <1>4, <1>5, <1>6, <1>8, <1>9 DEF RtInv

LEMMA SetStep ==
  ASSUME AsyncRuntimeAssumption, RtInv, set_waker
  PROVE  RtInv'
<1>1. /\ UNCHANGED <<mode, queue, got, done, data, irq, sources, ready, ready_queue, handler>>
      /\ exec.at = "arm"
  BY DEF set_waker, Here, tasks, device
<1>2. PICK k : k = Head(exec.rest)
  OBVIOUS
<1>3. k \in sources /\ queue \in Seq(Futures) /\ exec.task \in Futures
  BY <1>1, <1>2, ArmedFacts DEF RtInv, RtTyped
<1>4. CASE k \in ready
  <2>1. armed' = armed /\ exec' = [exec EXCEPT !.at = "rewake"]
    BY <1>2, <1>3, <1>4 DEF set_waker
  <2>2. exec' \in Execs /\ exec'.at = "rewake" /\ exec'.task = exec.task /\ exec'.rest = exec.rest
    BY ZenonT(30), <2>1 DEF RtInv, RtTyped, Execs, Ats
  <2>3. RtTyped' /\ Flags'
    BY ZenonT(30), <1>1, <1>3, <2>1, <2>2 DEF RtInv, RtTyped, Flags
  <2>4. Registered'
    BY <1>1, <2>2 DEF RtInv, Registered, Leaving
  <2>5. ToArm' = ToArm
    BY <1>1, <2>2 DEF ToArm
  <2>6. Watched'
    <3>1. \A t \in Futures : Called(t)' = Called(t)
      BY <1>1 DEF Called
    <3> QED
      BY <1>1, <2>1, <2>2, <2>5, <3>1 DEF RtInv, Watched
  <2>7. Traced'
    BY <1>1, <2>1, <2>5 DEF RtInv, Traced
  <2> QED
    BY <2>3, <2>4, <2>6, <2>7 DEF RtInv
<1>5. CASE k \notin ready
  <2>1. armed' = armed \cup {k} /\ exec' = Armed(exec)
    BY <1>2, <1>3, <1>5 DEF set_waker
  <2> QED
    BY <1>1, <1>2, <1>3, <1>5, <2>1, PassStep
<1> QED
  BY <1>4, <1>5

LEMMA RewakeStep ==
  ASSUME AsyncRuntimeAssumption, RtInv, set_waker_wakes
  PROVE  RtInv'
<1>1. /\ UNCHANGED <<mode, got, done, data, irq, sources, armed, ready, ready_queue, handler>>
      /\ exec.at = "rewake" /\ exec' = Armed(exec)
  BY ZenonT(30) DEF set_waker_wakes, Here, tasks, device, reactor
<1>2. PICK t \in Futures : t = exec.task
  BY <1>1, ArmedFacts
<1>3. queue' = Append(queue, t) /\ queue \in Seq(Futures)
  BY <1>2 DEF set_waker_wakes, RtInv, RtTyped
<1>4. queue' \in Seq(Futures) /\ Range(queue') = Range(queue) \cup {t}
  BY <1>3, Appended
<1>5. PICK k : k = Head(exec.rest)
  OBVIOUS
<1> QED
  BY <1>1, <1>2, <1>4, <1>5, PassStep

LEMMA DeregisterStep ==
  ASSUME AsyncRuntimeAssumption, RtInv, deregister
  PROVE  RtInv'
<1>1. /\ UNCHANGED <<mode, queue, got, data, irq, ready_queue, handler>>
      /\ exec.at = "deregister"
  BY DEF deregister, Here, device
<1>2. PICK t \in Futures : t = exec.task
  BY <1>1 DEF RtInv, RtTyped
<1>3. /\ ~done[t] /\ exec.rest # <<>> /\ IsInjective(exec.rest) /\ exec.rest \in Seq(Tokens)
      /\ Range(exec.rest) \subseteq Range(Sources[t]) /\ got[t] = Need[t]
      /\ Range(Sources[t]) \cap sources = Range(exec.rest)
  BY SMTT(30), <1>1, <1>2 DEF RtInv, RtTyped, Execs, Registered, Leaving
<1>4. PICK k \in Tokens : k = Head(exec.rest)
  BY <1>3, Split
<1>5. /\ sources' = sources \ {k} /\ armed' = armed \ {k} /\ ready' = ready \ {k}
  BY <1>4 DEF deregister
<1>6. /\ Tail(exec.rest) \in Seq(Tokens) /\ Range(exec.rest) = {k} \cup Range(Tail(exec.rest))
      /\ IsInjective(Tail(exec.rest)) /\ k \notin Range(Tail(exec.rest))
      /\ Len(exec.rest) = 1 => Range(Tail(exec.rest)) = {}
      /\ Len(exec.rest) # 1 => Tail(exec.rest) # <<>>
  BY <1>3, <1>4, Split
<1>7. \A u \in Futures \ {t} : k \notin Range(Sources[u])
  BY <1>3, <1>6 DEF AsyncRuntimeAssumption
<1>8. /\ exec' \in Execs /\ done' \in [Futures -> BOOLEAN]
      /\ \A u \in Futures \ {t} : done'[u] = done[u]
      /\ \/ /\ done'[t] /\ exec'.at = "run" /\ exec'.task = NoFuture
            /\ Range(Tail(exec.rest)) = {}
         \/ /\ ~done'[t] /\ exec'.at = "deregister" /\ exec'.task = t
            /\ exec'.rest = Tail(exec.rest) /\ Tail(exec.rest) # <<>>
  <2>1. CASE Len(exec.rest) = 1
    <3>1. done' = [done EXCEPT ![t] = TRUE] /\ exec' = ExecAt("run")
      BY <1>2, <2>1 DEF deregister
    <3>2. ExecAt("run") \in Execs /\ ExecAt("run").at = "run" /\ ExecAt("run").task = NoFuture
      BY ZenonT(30), AtFacts, EmptySeq DEF Calm
    <3> QED
      BY <1>6, <2>1, <3>1, <3>2 DEF RtInv, RtTyped
  <2>2. CASE Len(exec.rest) # 1
    <3>1. done' = done /\ exec' = [exec EXCEPT !.rest = Tail(exec.rest)]
      BY <2>2 DEF deregister
    <3>2. /\ exec' \in Execs /\ exec'.at = "deregister" /\ exec'.task = t
          /\ exec'.rest = Tail(exec.rest)
      BY ZenonT(30), <1>1, <1>2, <1>6, <3>1 DEF RtInv, RtTyped, Execs
    <3> QED
      BY ZenonT(30), <1>3, <1>6, <2>2, <3>1, <3>2 DEF RtInv, RtTyped
  <2> QED
    BY <2>1, <2>2
<1>9. NoFuture \notin Futures
  BY DEF AsyncRuntimeAssumption
<1>10. RtTyped'
  BY <1>1, <1>5, <1>8, <1>9 DEF RtInv, RtTyped
<1>11. Flags'
  BY ZenonT(30), <1>1, <1>5 DEF RtInv, Flags
<1>12. Registered'
  <2>1. Range(Sources[t]) \cap sources' = Range(Tail(exec.rest))
    BY <1>3, <1>5, <1>6
  <2>2. \A u \in Futures \ {t} : Range(Sources[u]) \cap sources' = Range(Sources[u]) \cap sources
    BY <1>5, <1>7
  <2>3. \A u \in Futures \ {t} : ~Leaving(u) /\ ~Leaving(u)'
    BY <1>2, <1>8, <1>9 DEF Leaving
  <2>4. \A u \in Futures : done'[u] => got'[u] = Need[u] /\ Range(Sources[u]) \cap sources' = {}
    <3> SUFFICES ASSUME NEW u \in Futures, done'[u]
                 PROVE  got'[u] = Need[u] /\ Range(Sources[u]) \cap sources' = {}
      OBVIOUS
    <3>1. CASE u = t
      BY SMTT(30), <1>1, <1>3, <1>8, <2>1, <3>1
    <3>2. CASE u # t
      BY ZenonT(30), <1>1, <1>8, <2>2, <3>2 DEF RtInv, Registered
    <3> QED
      BY <3>1, <3>2
  <2>5. \A u \in Futures \ {t} : ~done'[u] => Range(Sources[u]) \subseteq sources'
    <3>1. \A u \in Futures : ~done[u] /\ ~Leaving(u) => Range(Sources[u]) \subseteq sources
      BY DEF RtInv, Registered
    <3>2. \A u \in Futures \ {t} : done'[u] = done[u]
      BY <1>8
    <3> QED
      BY ZenonT(30), <2>2, <2>3, <3>1, <3>2
  <2>6. ASSUME ~done'[t]
        PROVE  /\ Leaving(t)' /\ got'[t] = Need[t] /\ Range(Sources[t]) \cap sources' = Range(exec'.rest)
               /\ exec'.rest # <<>> /\ IsInjective(exec'.rest)
               /\ Range(exec'.rest) \subseteq Range(Sources[t])
    BY ZenonT(30), <1>1, <1>3, <1>6, <1>8, <2>1, <2>6 DEF Leaving
  <2>7. exec'.at \in {"arm", "rewake", "deregister"} => exec'.task = t /\ ~done'[t]
    BY SMTT(30), <1>8
  <2> QED
    BY ZenonT(30), <2>3, <2>4, <2>5, <2>6, <2>7 DEF Registered
<1>13. Watched'
  <2>1. \A u \in Futures : Called(u)' = Called(u)
    BY <1>1 DEF Called
  <2>2. \A u \in Futures \ {t} : exec.task # u /\ exec'.task # u
    BY ZenonT(30), <1>2, <1>8, <1>9
  <2>3. ASSUME NEW u \in Futures \ {t}, ~done'[u], ~Called(u)'
        PROVE  exec'.task # u /\ Range(Sources[u]) \subseteq armed'
    BY <1>5, <1>7, <1>8, <2>1, <2>2, <2>3 DEF RtInv, Watched
  <2>4. ~done'[t] => exec'.task = t /\ exec'.at \notin {"arm", "rewake"}
    BY <1>8
  <2> QED
    BY <2>3, <2>4 DEF Watched
<1>14. Traced'
  <2>1. ToArm = {} /\ ToArm' = {}
    BY <1>1, <1>8 DEF ToArm
  <2> QED
    BY SMTT(30), <1>1, <1>5, <2>1 DEF RtInv, Traced
<1> QED
  BY <1>10, <1>11, <1>12, <1>13, <1>14 DEF RtInv


LEMMA TakeStep ==
  ASSUME AsyncRuntimeAssumption, RtInv, take_ready
  PROVE  RtInv'
<1>1. /\ UNCHANGED <<mode, queue, got, done, data, irq, sources, armed, handler>>
      /\ exec.at = "drain" /\ ready_queue' = <<>> /\ ready' = ready \ Range(ready_queue)
  BY DEF take_ready, Here, tasks, device
<1>2. exec' \in Execs /\ exec'.at \in Calm /\ exec'.task = NoFuture
  BY ZenonT(30), AtFacts, EmptySeq DEF take_ready, Calm
<1>3. /\ ready' = {} /\ ready_queue' \in Seq(Tokens) /\ Range(ready_queue') = {}
      /\ IsInjective(ready_queue')
  BY <1>1, EmptySeq DEF RtInv, Flags, Range, IsInjective
<1>4. exec.task \notin Futures /\ NoFuture \notin Futures
  BY <1>1 DEF RtInv, RtTyped, AsyncRuntimeAssumption
<1>5. RtTyped'
  BY <1>1, <1>2, <1>3, <1>4 DEF RtInv, RtTyped, Calm
<1>6. Flags'
  BY ZenonT(30), <1>1, <1>3 DEF RtInv, Flags
<1>7. Registered'
  BY ZenonT(30), <1>1, <1>2, <1>4 DEF RtInv, Registered, Leaving, Calm
<1>8. Watched'
  BY SMTT(30), <1>1, <1>2, <1>4 DEF RtInv, Watched, Called
<1>9. Traced'
  <2>1. ToArm = {} /\ ToArm' = {}
    BY <1>1, <1>2 DEF ToArm, Calm
  <2> QED
    BY <1>1, <2>1 DEF RtInv, Traced, Flags
<1> QED
  BY <1>5, <1>6, <1>7, <1>8, <1>9 DEF RtInv

LEMMA LoopStep ==
  ASSUME AsyncRuntimeAssumption, RtInv, is_empty \/ halt \/ epoll_wait
  PROVE  RtInv'
<1>1. /\ UNCHANGED <<mode, queue, got, done, data, irq, sources, armed, ready, ready_queue, handler>>
      /\ exec.at \in Calm
  BY DEF is_empty, halt, epoll_wait, Here, tasks, device, reactor, Calm
<1>2. exec' \in Execs /\ exec'.at \in Calm /\ exec'.task = NoFuture
  <2>1. CASE is_empty \/ halt
    <3>1. \E at \in Calm : exec' = ExecAt(at)
      BY <2>1 DEF is_empty, halt, Calm
    <3> QED
      BY ZenonT(30), <3>1, AtFacts, EmptySeq
  <2>2. CASE epoll_wait
    <3> DEFINE readable == {k \in Tokens : data[k] > 0}
    <3>1. PICK order \in Orders(readable) : exec' = [ExecAt("marking") EXCEPT !.rest = order]
      BY SMTT(30), <2>2 DEF epoll_wait
    <3>2. order \in Seq(Tokens)
      <4>1. readable \subseteq Tokens
        OBVIOUS
      <4> HIDE DEF readable
      <4> QED
        BY <4>1, OrderFacts
    <3> QED
      BY <3>1, <3>2, AtFacts DEF Calm
  <2> QED
    BY <2>1, <2>2
<1> QED
  BY <1>1, <1>2, CalmStep

LEMMA EpollStep ==
  ASSUME AsyncRuntimeAssumption, RtInv, exec.rest # <<>>, epoll_marks
  PROVE  RtInv'
<1>1. /\ UNCHANGED <<mode, got, done, data, irq, handler>> /\ exec.at = "marking"
  BY DEF epoll_marks, Here, tasks, device
<1>2. /\ exec.rest \in Seq(Tokens) /\ exec.task \notin Futures /\ exec.task \in Futures \cup {NoFuture}
      /\ NoFuture \notin Futures
  BY <1>1 DEF RtInv, RtTyped, Execs, AsyncRuntimeAssumption
<1>3. PICK k \in Tokens : k = Head(exec.rest)
  BY <1>2, Split
<1>4. /\ sources' = sources /\ armed' = armed \ {k}
      /\ ready \subseteq ready' /\ (k \in sources => k \in ready')
      /\ ready_queue' \in Seq(Tokens) /\ Flags'
  BY <1>3, MarkFacts DEF epoll_marks
<1>5. /\ queue' \in Seq(Futures) /\ Range(queue) \subseteq Range(queue')
      /\ k \in armed => Owner(k) \in Range(queue')
  <2>1. queue' = IF Woken(k) THEN Append(queue, Owner(k)) ELSE queue
    BY SMTT(30), <1>3 DEF epoll_marks
  <2>2. Owner(k) \in Futures /\ queue \in Seq(Futures)
    BY OwnerFacts DEF RtInv, RtTyped
  <2>3. k \in armed => Woken(k)
    BY DEF RtInv, Flags, Woken
  <2> QED
    BY <2>1, <2>2, <2>3, Appended
<1>6. exec' \in Execs /\ exec'.at \in Calm /\ exec'.task = NoFuture
  <2>1. CASE exec' = ExecAt("run")
    BY ZenonT(30), <2>1, AtFacts, EmptySeq DEF Calm
  <2>2. CASE exec' = [exec EXCEPT !.rest = Tail(exec.rest)]
    <3>1. Tail(exec.rest) \in Seq(Tokens)
      BY SMTT(30), <1>2, Split
    <3> QED
      BY ZenonT(30), <1>1, <1>2, <2>2, <3>1 DEF RtInv, RtTyped, Execs, Calm
  <2> QED
    BY <2>1, <2>2 DEF epoll_marks
<1>7. RtTyped'
  BY SMTT(30), <1>1, <1>2, <1>4, <1>5, <1>6 DEF RtInv, RtTyped, Calm
<1>8. Registered'
  BY ZenonT(30), <1>1, <1>2, <1>4, <1>6 DEF RtInv, Registered, Leaving, Calm
<1>9. Watched'
  <2> SUFFICES ASSUME NEW t \in Futures, ~done[t], ~Called(t)'
               PROVE  exec'.task # t /\ Range(Sources[t]) \subseteq armed'
    BY <1>1 DEF Watched
  <2>1. ~Called(t)
    BY SMTT(30), <1>1, <1>5 DEF Called
  <2>2. k \in Range(Sources[t]) => k \notin armed
    BY <1>5, OwnerFacts DEF Called
  <2> QED
    BY ZenonT(30), <1>2, <1>4, <1>6, <2>1, <2>2 DEF RtInv, Watched
<1>10. Traced'
  <2>1. ToArm = {} /\ ToArm' = {}
    BY <1>1, <1>6 DEF ToArm, Calm
  <2> QED
    BY <1>1, <1>4, <2>1 DEF RtInv, Traced
<1> QED
  BY <1>4, <1>7, <1>8, <1>9, <1>10 DEF RtInv

-----------------------------------------------------------------------------
(* Theorems *)

LEMMA RtBegins ==
  ASSUME AsyncRuntimeAssumption, RtInit
  PROVE  RtInv /\ Listing
<1>1. queue \in Seq(Futures) /\ Range(queue) = Futures
  BY OrderFacts DEF RtInit
<1>2. exec \in Execs /\ exec.at = "run" /\ exec.task = NoFuture /\ NoFuture \notin Futures
  BY ZenonT(30), AtFacts, EmptySeq DEF RtInit, Calm, AsyncRuntimeAssumption
<1>3. ready_queue \in Seq(Tokens) /\ Range(ready_queue) = {} /\ IsInjective(ready_queue)
  BY EmptySeq DEF RtInit, Range, IsInjective
<1>4. RtTyped
  BY <1>1, <1>2, <1>3 DEF RtInit, RtTyped
<1>5. Flags
  BY ZenonT(30), <1>3 DEF RtInit, Flags
<1>6. Registered
  BY SMTT(30), <1>2, SourceFacts DEF RtInit, Registered, Leaving
<1>7. Watched
  BY <1>1 DEF Watched, Called
<1>8. Traced
  <2>1. ToArm = {}
    BY <1>2 DEF ToArm
  <2> QED
    BY <2>1 DEF RtInit, Traced
<1>9. Listing
  BY <1>2 DEF Listing
<1> QED
  BY <1>4, <1>5, <1>6, <1>7, <1>8, <1>9 DEF RtInv


LEMMA ListingStep ==
  ASSUME AsyncRuntimeAssumption, RtInv, Listing, [RtNext]_rt_vars
  PROVE  Listing'
<1>1. CASE epoll_wait
  <2> DEFINE readable == {k \in Tokens : data[k] > 0}
  <2>1. readable # {}
    BY <1>1 DEF epoll_wait
  <2>2. PICK order \in Orders(readable) : exec' = [ExecAt("marking") EXCEPT !.rest = order]
    BY ZenonT(30), <1>1 DEF epoll_wait
  <2>3. order # <<>>
    <3>1. Range(<<>>) = {}
      BY DEF Range
    <3> QED
      BY ZenonT(30), <2>1, <2>2, <3>1, OrderFacts
  <2> QED
    BY <2>2, <2>3 DEF Listing, ExecAt
<1>2. CASE epoll_marks
  <2>1. exec.rest \in Seq(Tokens) /\ exec.rest # <<>>
    BY <1>2 DEF epoll_marks, Here, Listing, RtInv, RtTyped, Execs
  <2>2. CASE exec' = ExecAt("run")
    BY <2>2 DEF ExecAt, Listing
  <2>3. CASE Len(exec.rest) # 1 /\ exec' = [exec EXCEPT !.rest = Tail(exec.rest)]
    <3>1. Tail(exec.rest) # <<>>
      BY <2>1, <2>3, Split
    <3> QED
      BY <2>3, <3>1 DEF Listing, RtInv, RtTyped, Execs
  <2> QED
    BY <1>2, <2>2, <2>3 DEF epoll_marks
<1>3. CASE UNCHANGED exec
  BY <1>3 DEF Listing
<1>4. ASSUME exec'.at # "marking" PROVE Listing'
  BY <1>4 DEF Listing
<1>5. exec \in Execs
  BY DEF RtInv, RtTyped
<1>6. CASE run_queued
  <2>1. exec' = ExecAt("check") \/ exec' = [ExecAt("read") EXCEPT !.task = Head(queue)]
    BY <1>6 DEF run_queued
  <2> QED
    BY <1>4, <2>1 DEF ExecAt
<1>7. CASE future_reads \/ future_parks
  <2>1. exec.at = "read"
    BY <1>7 DEF future_reads, future_parks, Here
  <2>2. \/ exec' = exec \/ exec' = [exec EXCEPT !.at = "deregister", !.rest = Sources[exec.task]]
        \/ exec' = [exec EXCEPT !.at = "arm", !.rest = Sources[exec.task]]
    BY <1>7 DEF future_reads, future_parks
  <2> QED
    BY ZenonT(30), <1>4, <1>5, <2>1, <2>2 DEF Execs
<1>8. CASE is_empty \/ take_ready \/ halt
  <2>1. \E at \in Calm \ {"marking"} : exec' = ExecAt(at)
    BY <1>8 DEF is_empty, take_ready, halt, Calm
  <2> QED
    BY <1>4, <2>1 DEF ExecAt
<1>9. CASE set_waker \/ set_waker_wakes
  <2>1. exec' = [exec EXCEPT !.at = "rewake"] \/ exec' = Armed(exec)
    BY <1>9 DEF set_waker, set_waker_wakes
  <2>2. \/ exec' = [exec EXCEPT !.at = "rewake"] \/ exec' = ExecAt("run")
        \/ exec' = [exec EXCEPT !.at = "arm", !.rest = Tail(exec.rest)]
    BY <1>5, <2>1 DEF Armed, Execs
  <2>3. CASE exec' = ExecAt("run")
    BY <1>4, <2>3 DEF ExecAt
  <2>4. CASE exec' # ExecAt("run")
    BY ZenonT(30), <1>4, <1>5, <2>2, <2>4 DEF Execs
  <2> QED
    BY <2>3, <2>4
<1>10. CASE deregister
  <2>1. exec.at = "deregister"
    BY <1>10 DEF deregister, Here
  <2>2. exec' = ExecAt("run") \/ exec' = [exec EXCEPT !.rest = Tail(@)]
    BY <1>10 DEF deregister
  <2> QED
    BY <1>4, <1>5, <2>1, <2>2 DEF Execs, ExecAt
<1>11. CASE Executor
  BY <1>1, <1>2, <1>3, <1>6, <1>7, <1>8, <1>9, <1>10, <1>11 DEF Executor, acquire
<1>12. CASE Handler \/ \E k \in Tokens : device_event(k) \/ device_irq(k)
  BY <1>3, <1>12 DEF Handler, device_event, device_irq, handler_marks, handler_wakes
<1>13. CASE UNCHANGED rt_vars
  BY <1>3, <1>13 DEF rt_vars
<1> QED
  BY <1>11, <1>12, <1>13 DEF RtNext

LEMMA RtStep ==
  ASSUME AsyncRuntimeAssumption, RtInv, Listing, [RtNext]_rt_vars
  PROVE  RtInv'
<1>1. CASE Handler
  BY <1>1, MarkStep, WakeStep DEF Handler
<1>2. ASSUME NEW k \in Tokens, device_event(k) \/ device_irq(k)
      PROVE  RtInv'
  BY <1>2, EventStep, IrqStep
<1>3. CASE Executor
  <2>1. epoll_marks => RtInv'
    BY EpollStep DEF epoll_marks, Here, Listing
  <2> QED
    BY <1>3, <2>1, AcquireStep, RunStep, ReadStep, ParkStep, SetStep, RewakeStep, DeregisterStep,
       TakeStep, LoopStep DEF Executor
<1>4. CASE UNCHANGED rt_vars
  <2>1. UNCHANGED <<mode, queue, got, done, data, irq, sources, armed, ready, ready_queue,
                    exec, handler>>
    BY <1>4 DEF rt_vars
  <2> QED
    BY <2>1, Same
<1> QED
  BY <1>1, <1>2, <1>3, <1>4 DEF RtNext

\* For any tasks and sources, either event loop, and interrupts at any step: only
\* registered sources are armed or flagged, the flags are the entries of the ready
\* queue, each there once, and a task has returned exactly when it has read all
\* it needs and has no source registered (Reactor, Executor::run).
THEOREM RuntimeTypes ==
  ASSUME AsyncRuntimeAssumption
  PROVE  RtSpec => []RtTypeOK
<1>1. RtInv => RtTypeOK
  <2> SUFFICES ASSUME RtInv
               PROVE  RtTypeOK
    OBVIOUS
  <2>1. \A t \in Futures : done[t] <=> got[t] = Need[t] /\ Range(Sources[t]) \cap sources = {}
    <3> SUFFICES ASSUME NEW t \in Futures, ~done[t]
                 PROVE  Range(Sources[t]) \cap sources # {}
      BY DEF RtInv, Registered
    <3>1. Range(Sources[t]) # {}
      BY SourceFacts
    <3>2. CASE Leaving(t)
      <4>1. exec.rest # <<>> /\ Range(Sources[t]) \cap sources = Range(exec.rest)
        BY <3>2 DEF RtInv, Registered, Leaving
      <4>2. Range(exec.rest) # {}
        BY SMTT(30), <4>1, Filled DEF RtInv, RtTyped, Execs
      <4> QED
        BY <4>1, <4>2
    <3>3. CASE ~Leaving(t)
      BY <3>1, <3>3 DEF RtInv, Registered
    <3> QED
      BY SMTT(30), <3>2, <3>3
  <2>2. exec.at \in Ats /\ exec.task \in Futures \cup {NoFuture}
    BY DEF RtInv, RtTyped, Execs
  <2> QED
    BY <2>1, <2>2 DEF RtTypeOK, RtInv, Flags
<1>2. RtInit => RtInv /\ Listing
  BY RtBegins
<1>3. RtInv /\ Listing /\ [RtNext]_rt_vars => RtInv' /\ Listing'
  BY SMTT(30), RtStep, ListingStep
<1> QED
  BY <1>1, <1>2, <1>3, PTL DEF RtSpec

\* For any tasks and sources, either event loop, and interrupts at any step: a
\* task that nobody is about to poll is armed on every source it has, and an
\* event unread there has its interrupt still to come or in progress; so none is
\* missed between a task's read and its set_waker, nor between the last
\* take_ready and the halt.
THEOREM NoEventMissed ==
  ASSUME AsyncRuntimeAssumption
  PROVE  RtSpec => []NoMissedEvent
<1>1. RtInv => NoMissedEvent
  <2> SUFFICES ASSUME RtInv, NEW t \in Futures, Parked(t), NEW k \in Range(Sources[t])
               PROVE  /\ k \in armed
                      /\ mode.backend = "interrupt" /\ data[k] > 0 =>
                           irq[k] \/ handler = [at |-> "mark", token |-> k]
    BY DEF NoMissedEvent
  <2>1. ~done[t] /\ ~Called(t) /\ exec.task # t
    BY SMTT(30) DEF Parked, Called
  <2>2. k \in armed
    BY <2>1 DEF RtInv, Watched
  <2> QED
    BY <2>2 DEF RtInv, Traced, Flags
<1>2. RtInit => RtInv /\ Listing
  BY RtBegins
<1>3. RtInv /\ Listing /\ [RtNext]_rt_vars => RtInv' /\ Listing'
  BY RtStep, ListingStep
<1> QED
  BY <1>1, <1>2, <1>3, PTL DEF RtSpec


-----------------------------------------------------------------------------
(* Tasks with one source each *)

Lone == \A t \in Futures : Len(Sources[t]) = 1

Waking(t) == handler.at = "wake" /\ Owner(handler.token) = t
Watching(t) == Range(Sources[t]) \cap armed # {}

\* A task is in one place: in the queue, with the thread, with the handler, or
\* with the reactor; and in none once it has returned.
LoneInv ==
  /\ IsInjective(queue) /\ ~repolled
  /\ \A t \in Futures :
       /\ done[t] => t \notin Range(queue) /\ ~Waking(t) /\ exec.task # t
       /\ t \in Range(queue) => ~Waking(t) /\ exec.task # t /\ ~Watching(t)
       /\ Waking(t) => exec.task # t /\ ~Watching(t)
       /\ exec.task = t => ~Watching(t)
  /\ exec.at \in {"arm", "rewake", "deregister"} => Len(exec.rest) = 1

LEMMA LoneSource ==
  ASSUME AsyncRuntimeAssumption, Lone, NEW t \in Futures
  PROVE  /\ \A k \in Range(Sources[t]) : Range(Sources[t]) = {k}
         /\ \A q \in Seq(Tokens) : Len(q) = 1 => Range(q) = {Head(q)}
<1>1. \A q \in Seq(Tokens) : Len(q) = 1 => Range(q) = {Head(q)}
  <2> SUFFICES ASSUME NEW q \in Seq(Tokens), Len(q) = 1
               PROVE  Range(q) = {Head(q)}
    OBVIOUS
  <2>1. q # <<>>
    <3>1. Len(<<>>) # 1
      BY EmptySeq
    <3> QED
      BY ZenonT(30), <3>1
  <2>2. Range(q) = {Head(q)} \cup Range(Tail(q)) /\ Range(Tail(q)) = {}
    BY <2>1, Split
  <2> QED
    BY <2>2
<1>2. Sources[t] \in Seq(Tokens) /\ Len(Sources[t]) = 1
  BY SourceFacts DEF Lone
<1>3. Range(Sources[t]) = {Head(Sources[t])}
  BY ZenonT(30), <1>1, <1>2
<1> QED
  BY <1>1, <1>3

\* The thread keeps its task, and no waker is fired.
LEMMA LoneSame ==
  ASSUME RtInv, LoneInv, exec'.task = exec.task,
         exec'.at \in {"arm", "rewake", "deregister"} => Len(exec'.rest) = 1,
         UNCHANGED <<queue, done, repolled, armed, handler>>
  PROVE  LoneInv'
BY DEF LoneInv, Waking, Watching

LEMMA LoneQuiet ==
  ASSUME AsyncRuntimeAssumption, Lone, RtInv, LoneInv,
         \/ acquire \/ future_reads \/ future_parks \/ is_empty \/ take_ready \/ halt \/ epoll_wait
         \/ \E k \in Tokens : device_event(k)
  PROVE  LoneInv'
<1>1. exec \in Execs /\ NoFuture \notin Futures
  BY DEF RtInv, RtTyped, AsyncRuntimeAssumption
<1>2. UNCHANGED <<queue, done, repolled, armed, handler>>
  BY SMTT(30)
  DEF acquire, future_reads, future_parks, is_empty, take_ready, halt, epoll_wait, device_event,
         Here, tasks, reactor
<1>3. CASE acquire \/ \E k \in Tokens : device_event(k)
  <2>1. exec' = exec
    BY <1>3 DEF acquire, device_event
  <2> QED
    BY ZenonT(30), <1>2, <2>1, LoneSame DEF LoneInv
<1>4. CASE future_reads \/ future_parks
  <2>1. PICK t \in Futures : exec.at = "read" /\ t = exec.task
    BY <1>4 DEF future_reads, future_parks, Here, RtInv, RtTyped
  <2>2. \/ exec' = exec \/ exec' = [exec EXCEPT !.at = "deregister", !.rest = Sources[t]]
        \/ exec' = [exec EXCEPT !.at = "arm", !.rest = Sources[t]]
    BY <1>4, <2>1 DEF future_reads, future_parks
  <2>3. exec'.task = exec.task
    BY ZenonT(30), <1>1, <2>2 DEF Execs
  <2>4. exec'.at \in {"arm", "rewake", "deregister"} => Len(exec'.rest) = 1
    <3>1. Len(Sources[t]) = 1
      BY DEF Lone
    <3> QED
      BY ZenonT(30), <1>1, <2>1, <2>2, <3>1 DEF Execs
  <2> QED
    BY <1>2, <2>3, <2>4, LoneSame
<1>5. CASE is_empty \/ take_ready \/ halt \/ epoll_wait
  <2>1. exec.at \in Calm /\ exec.task = NoFuture
    BY <1>1, <1>5 DEF is_empty, take_ready, halt, epoll_wait, Here, Calm, Execs, RtInv, RtTyped
  <2>2. exec'.at \in Calm /\ exec'.task = NoFuture
    <3>1. CASE is_empty \/ take_ready \/ halt
      <4>1. \E at \in Calm : exec' = ExecAt(at)
        BY <3>1 DEF is_empty, take_ready, halt, Calm
      <4> QED
        BY <4>1 DEF ExecAt
    <3>2. CASE epoll_wait
      <4>1. \E order : exec' = [ExecAt("marking") EXCEPT !.rest = order]
        BY ZenonT(30), <3>2 DEF epoll_wait
      <4> QED
        BY <4>1 DEF ExecAt, Calm
    <3> QED
      BY <1>5, <3>1, <3>2
  <2>3. exec'.task = exec.task /\ exec'.at \notin {"arm", "rewake", "deregister"}
    BY ZenonT(30), <2>1, <2>2 DEF Calm
  <2> QED
    BY <1>2, <2>3, LoneSame
<1> QED
  BY <1>3, <1>4, <1>5

LEMMA LoneIrq ==
  ASSUME LoneInv, NEW k \in Tokens, device_irq(k)
  PROVE  LoneInv'
<1>1. /\ UNCHANGED <<queue, done, repolled, armed, exec>>
      /\ handler.at # "wake" /\ handler'.at # "wake"
  BY DEF device_irq, tasks, reactor, Quiet
<1> QED
  BY <1>1 DEF LoneInv, Waking, Watching

LEMMA LoneMark ==
  ASSUME AsyncRuntimeAssumption, Lone, RtInv, LoneInv, handler_marks
  PROVE  LoneInv'
<1>1. handler \in Marking /\ handler.at = "mark"
  BY DEF RtInv, RtTyped, handler_marks, Quiet
<1>2. PICK k \in Tokens : k = handler.token
  BY <1>1 DEF Marking
<1>3. /\ UNCHANGED <<queue, done, repolled, exec>> /\ mark_ready(k)
      /\ handler' = IF Woken(k) THEN [handler EXCEPT !.at = "wake"] ELSE Quiet
  BY <1>2 DEF handler_marks, tasks
<1>4. armed' = armed \ {k}
  BY <1>3, MarkFacts
<1>5. \A t \in Futures : ~Waking(t) /\ (Watching(t)' => Watching(t))
  BY <1>1, <1>4 DEF Waking, Watching
<1>6. ASSUME NEW t \in Futures, Waking(t)'
      PROVE  Watching(t) /\ ~Watching(t)' /\ ~done[t]
  <2>1. Woken(k) /\ t = Owner(k)
    BY <1>1, <1>2, <1>3, <1>6 DEF Waking, Quiet, Marking
  <2>2. k \in armed /\ k \in Range(Sources[t]) /\ k \in sources
    BY ZenonT(30), <2>1, OwnerFacts DEF Woken
  <2>3. t \notin Range(queue) /\ exec.task # t
    BY SMTT(30), <2>2 DEF LoneInv, Watching
  <2>4. ~done[t]
    BY <2>2 DEF RtInv, Registered
  <2>5. Watching(t)
    BY <2>2 DEF Watching
  <2>6. ~Watching(t)'
    <3>1. Range(Sources[t]) = {k}
      BY ZenonT(30), <2>2, LoneSource
    <3> QED
      BY <1>4, <3>1 DEF Watching
  <2> QED
    BY <2>4, <2>5, <2>6
<1> QED
  BY <1>3, <1>5, <1>6 DEF LoneInv

LEMMA LoneWake ==
  ASSUME AsyncRuntimeAssumption, RtInv, LoneInv, handler_wakes
  PROVE  LoneInv'
<1>1. handler \in Marking /\ handler.at = "wake"
  BY DEF RtInv, RtTyped, handler_wakes, Quiet
<1>2. PICK t \in Futures : t = Owner(handler.token)
  BY <1>1, OwnerFacts DEF Marking
<1>3. /\ UNCHANGED <<done, repolled, armed, exec>>
      /\ queue' = Append(queue, t) /\ handler' = Quiet
  BY SMTT(30), <1>2 DEF handler_wakes, tasks, reactor
<1>4. Waking(t) /\ (\A u \in Futures : Waking(u) => u = t) /\ (\A u \in Futures : ~Waking(u)')
  BY <1>1, <1>2, <1>3 DEF Waking, Quiet
<1>5. Range(queue') = Range(queue) \cup {t} /\ IsInjective(queue')
  <2>1. queue \in Seq(Futures) /\ IsInjective(queue) /\ t \notin Range(queue)
    BY <1>4 DEF RtInv, RtTyped, LoneInv
  <2> QED
    BY <1>3, <2>1, Appended
<1>6. \A u \in Futures : Watching(u)' = Watching(u)
  BY <1>3 DEF Watching
<1> QED
  BY ZenonT(30), <1>3, <1>4, <1>5, <1>6 DEF LoneInv

LEMMA LoneRun ==
  ASSUME AsyncRuntimeAssumption, RtInv, LoneInv, run_queued
  PROVE  LoneInv'
<1>1. /\ UNCHANGED <<done, armed, handler>> /\ exec.at = "run" /\ exec \in Execs
      /\ exec.task = NoFuture /\ NoFuture \notin Futures
  BY DEF run_queued, Here, reactor, RtInv, RtTyped, Execs, AsyncRuntimeAssumption
<1>2. CASE queue = <<>>
  <2>1. exec' = ExecAt("check") /\ UNCHANGED <<queue, repolled>>
    BY <1>2 DEF run_queued
  <2>2. exec'.task = exec.task /\ exec'.at \notin {"arm", "rewake", "deregister"}
    BY SMTT(30), <1>1, <2>1 DEF ExecAt
  <2> QED
    BY <1>1, <2>1, <2>2, LoneSame
<1>3. CASE queue # <<>>
  <2>1. PICK t \in Futures : t = Head(queue)
    BY <1>3, Split DEF RtInv, RtTyped
  <2>2. /\ queue' = Tail(queue) /\ exec' = [ExecAt("read") EXCEPT !.task = t]
        /\ repolled' = (repolled \/ done[t])
    BY <1>3, <2>1 DEF run_queued
  <2>3. /\ Range(queue) = {t} \cup Range(queue') /\ IsInjective(queue') /\ t \notin Range(queue')
    BY <1>3, <2>1, <2>2, Split DEF RtInv, RtTyped, LoneInv
  <2>4. exec'.at = "read" /\ exec'.task = t
    BY <2>2 DEF ExecAt
  <2>5. ~done[t] /\ ~Waking(t) /\ ~Watching(t) /\ ~repolled'
    BY ZenonT(30), <2>2, <2>3 DEF LoneInv
  <2>6. \A u \in Futures : Watching(u)' = Watching(u) /\ Waking(u)' = Waking(u)
    BY <1>1 DEF Watching, Waking
  <2> QED
    BY ZenonT(30), <1>1, <2>3, <2>4, <2>5, <2>6 DEF LoneInv
<1> QED
  BY <1>2, <1>3

\* The only source is armed, or its task is called at once.
LEMMA LonePass ==
  ASSUME AsyncRuntimeAssumption, Lone, RtInv, LoneInv, set_waker \/ set_waker_wakes
  PROVE  LoneInv'
<1>1. /\ UNCHANGED <<done, repolled, handler>> /\ exec.at \in {"arm", "rewake"}
      /\ exec \in Execs /\ NoFuture \notin Futures
  BY SMTT(30) DEF set_waker, set_waker_wakes, Here, tasks, RtInv, RtTyped, AsyncRuntimeAssumption
<1>2. PICK t \in Futures, k \in Range(Sources[exec.task]) : t = exec.task /\ k = Head(exec.rest)
  BY <1>1, ArmedFacts
<1>3. Range(Sources[t]) = {k}
  BY ZenonT(30), <1>2, LoneSource
<1>4. ~Watching(t) /\ ~Waking(t) /\ t \notin Range(queue) /\ ~done[t]
  BY <1>2 DEF LoneInv
<1>5. Armed(exec) = ExecAt("run")
  BY <1>1 DEF LoneInv, Armed
<1>6. \A u \in Futures : Waking(u)' = Waking(u)
  BY <1>1 DEF Waking
<1>7. \A u \in Futures \ {t} : k \notin Range(Sources[u])
  BY SMTT(30), <1>2 DEF AsyncRuntimeAssumption
<1>8. CASE set_waker /\ exec' = [exec EXCEPT !.at = "rewake"]
  <2>1. UNCHANGED <<queue, armed>>
    BY <1>1, <1>5, <1>8 DEF set_waker, ExecAt, Execs
  <2>2. exec'.task = exec.task /\ exec'.rest = exec.rest
    BY SMTT(30), <1>1, <1>8 DEF Execs
  <2> QED
    BY ZenonT(30), <1>1, <2>1, <2>2, LoneSame DEF LoneInv
<1>9. CASE set_waker /\ exec' = ExecAt("run")
  <2>1. queue' = queue /\ armed \subseteq armed' /\ armed' \subseteq armed \cup {k}
    BY SMTT(30), <1>2, <1>9 DEF set_waker
  <2>2. exec'.at = "run" /\ exec'.task = NoFuture
    BY <1>9 DEF ExecAt
  <2>3. \A u \in Futures \ {t} : Watching(u)' = Watching(u)
    BY SMTT(30), <1>7, <2>1 DEF Watching
  <2> QED
    BY ZenonT(30), <1>1, <1>2, <1>4, <1>6, <2>1, <2>2, <2>3 DEF LoneInv
<1>10. CASE set_waker_wakes
  <2>1. queue' = Append(queue, t) /\ armed' = armed /\ exec' = ExecAt("run")
    BY ZenonT(30), <1>2, <1>5, <1>10 DEF set_waker_wakes, reactor
  <2>2. Range(queue') = Range(queue) \cup {t} /\ IsInjective(queue')
    <3>1. queue \in Seq(Futures) /\ IsInjective(queue) /\ t \in Futures /\ t \notin Range(queue)
      BY <1>4 DEF RtInv, RtTyped, LoneInv
    <3> QED
      BY ZenonT(30), <2>1, <3>1, Appended
  <2>3. exec'.at = "run" /\ exec'.task = NoFuture
    BY ZenonT(30), <2>1 DEF ExecAt
  <2>4. \A u \in Futures : Watching(u)' = Watching(u)
    BY ZenonT(30), <2>1 DEF Watching
  <2> QED
    BY ZenonT(30), <1>1, <1>2, <1>4, <1>6, <2>2, <2>3, <2>4 DEF LoneInv
<1>11. set_waker => exec' = [exec EXCEPT !.at = "rewake"] \/ exec' = ExecAt("run")
  BY SMTT(30), <1>5 DEF set_waker
<1> QED
  BY <1>8, <1>9, <1>10, <1>11

LEMMA LoneLeave ==
  ASSUME AsyncRuntimeAssumption, Lone, RtInv, LoneInv, deregister
  PROVE  LoneInv'
<1>1. /\ UNCHANGED <<queue, repolled, handler>> /\ exec.at = "deregister" /\ NoFuture \notin Futures
  BY DEF deregister, Here, AsyncRuntimeAssumption
<1>2. PICK t \in Futures : t = exec.task
  BY <1>1 DEF RtInv, RtTyped
<1>3. /\ exec' = ExecAt("run") /\ done' = [done EXCEPT ![t] = TRUE] /\ armed' \subseteq armed
  BY SMTT(30), <1>1, <1>2 DEF deregister, LoneInv
<1>4. exec'.at = "run" /\ exec'.task = NoFuture
  BY <1>3 DEF ExecAt
<1>5. \A u \in Futures \ {t} : done'[u] = done[u]
  BY <1>3 DEF RtInv, RtTyped
<1>6. \A u \in Futures : (Watching(u)' => Watching(u)) /\ Waking(u)' = Waking(u)
  BY SMTT(30), <1>1, <1>3 DEF Watching, Waking
<1> QED
  BY ZenonT(30), <1>1, <1>2, <1>4, <1>5, <1>6 DEF LoneInv

LEMMA LoneEpoll ==
  ASSUME AsyncRuntimeAssumption, Lone, RtInv, LoneInv, exec.rest # <<>>, epoll_marks
  PROVE  LoneInv'
<1>1. /\ UNCHANGED <<done, repolled, handler>> /\ exec.at = "marking" /\ exec \in Execs
      /\ exec.task = NoFuture /\ NoFuture \notin Futures /\ handler = Quiet
  BY DEF epoll_marks, Here, tasks, RtInv, RtTyped, Execs, AsyncRuntimeAssumption
<1>2. PICK k \in Tokens : k = Head(exec.rest)
  BY <1>1, Split DEF Execs
<1>3. armed' = armed \ {k} /\ queue' = IF Woken(k) THEN Append(queue, Owner(k)) ELSE queue
  BY <1>2, MarkFacts DEF epoll_marks
<1>4. exec'.task = NoFuture /\ exec'.at \in {"run", "marking"}
  <2>1. exec' = ExecAt("run") \/ exec' = [exec EXCEPT !.rest = Tail(@)]
    BY SMTT(30) DEF epoll_marks
  <2> QED
    BY <1>1, <2>1 DEF ExecAt, Execs
<1>5. \A u \in Futures : ~Waking(u)' /\ ~Waking(u) /\ (Watching(u)' => Watching(u))
  BY SMTT(30), <1>1, <1>3 DEF Waking, Watching, Quiet
<1>6. CASE ~Woken(k)
  BY ZenonT(30), <1>1, <1>3, <1>4, <1>5, <1>6 DEF LoneInv
<1>7. CASE Woken(k)
  <2>1. PICK t \in Futures : t = Owner(k) /\ k \in Range(Sources[t])
    BY OwnerFacts
  <2>2. k \in armed /\ k \in sources /\ queue' = Append(queue, t)
    BY SMTT(30), <1>3, <1>7, <2>1 DEF Woken
  <2>3. t \notin Range(queue) /\ ~done[t]
    BY ZenonT(30), <2>1, <2>2 DEF LoneInv, Watching, RtInv, Registered
  <2>4. Range(queue') = Range(queue) \cup {t} /\ IsInjective(queue')
    BY ZenonT(30), <2>2, <2>3, Appended DEF RtInv, RtTyped, LoneInv
  <2>5. ~Watching(t)'
    <3>1. Range(Sources[t]) = {k}
      BY ZenonT(30), <2>1, LoneSource
    <3> QED
      BY ZenonT(30), <1>3, <3>1 DEF Watching
  <2> QED
    BY ZenonT(30), <1>1, <1>4, <1>5, <2>3, <2>4, <2>5 DEF LoneInv
<1> QED
  BY <1>6, <1>7

LEMMA LoneStep ==
  ASSUME AsyncRuntimeAssumption, Lone, RtInv, Listing, LoneInv, [RtNext]_rt_vars
  PROVE  LoneInv'
<1>1. CASE Handler
  BY <1>1, LoneMark, LoneWake DEF Handler
<1>2. ASSUME NEW k \in Tokens, device_event(k) \/ device_irq(k)
      PROVE  LoneInv'
  BY <1>2, LoneQuiet, LoneIrq
<1>3. CASE Executor
  <2>1. epoll_marks => LoneInv'
    BY SMTT(30), LoneEpoll DEF epoll_marks, Here, Listing
  <2> QED
    BY <1>3, <2>1, LoneQuiet, LoneRun, LonePass, LoneLeave DEF Executor
<1>4. CASE UNCHANGED rt_vars
  <2>1. UNCHANGED <<queue, done, repolled, armed, handler, exec>>
    BY <1>4 DEF rt_vars
  <2> QED
    BY ZenonT(30), <2>1, LoneSame DEF LoneInv
<1> QED
  BY <1>1, <1>2, <1>3, <1>4 DEF RtNext

\* For any number of tasks with one source each, either event loop, and
\* interrupts at any step: a future that has returned is never polled again, as
\* its task is in the queue, with the thread, with the handler or with the
\* reactor, and in one of them only (Executor::run, Reactor).  A task with two
\* sources can be woken by both before it is polled, and then the queue has it
\* twice.
THEOREM NeverPolledAgain ==
  ASSUME AsyncRuntimeAssumption, Lone
  PROVE  RtSpec => []NoPollAfterDone
<1>1. LoneInv => NoPollAfterDone
  BY DEF LoneInv, NoPollAfterDone
<1>2. RtInit => RtInv /\ Listing
  BY ZenonT(30), RtBegins
<1>3. RtInit => LoneInv
  <2> SUFFICES ASSUME RtInit
               PROVE  LoneInv
    OBVIOUS
  <2>1. /\ IsInjective(queue) /\ ~repolled /\ armed = {} /\ exec = ExecAt("run") /\ handler = Quiet
        /\ \A t \in Futures : ~done[t]
    BY ZenonT(30) DEF RtInit, Orders
  <2>2. exec.at = "run" /\ exec.task \notin Futures /\ handler.at # "wake"
    BY <2>1 DEF ExecAt, Quiet, AsyncRuntimeAssumption
  <2> QED
    BY <2>1, <2>2 DEF LoneInv, Waking, Watching
<1>4. RtInv /\ Listing /\ [RtNext]_rt_vars => RtInv' /\ Listing'
  BY RtStep, ListingStep
<1>5. RtInv /\ Listing /\ LoneInv /\ [RtNext]_rt_vars => LoneInv'
  BY LoneStep
<1> QED
  BY <1>1, <1>2, <1>3, <1>4, <1>5, PTL DEF RtSpec

=============================================================================
