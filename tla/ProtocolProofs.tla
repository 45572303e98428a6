--------------------------- MODULE ProtocolProofs ---------------------------
(***************************************************************************)
(* Proofs about UsbRouting, for any paths, guests, device kinds and        *)
(* numbers of ports; about DirtyLog, for any sets of logged and spare      *)
(* pages; and about PiMutex, for any finite set of threads.                *)
(***************************************************************************)
EXTENDS UsbPlacementProofs, DirtyLog, PiMutex, FiniteSetTheorems

-----------------------------------------------------------------------------
(* UsbRouting: the invariant *)

Queue(d) == d.events \o d.pending

\* An address announced and not yet served is known, is not placed, and comes once.
Fresh(q, K, F) ==
  /\ \A i \in Slots(q) : q[i].addr # 0 => q[i].addr \in K \ F
  /\ \A i, j \in Slots(q) : i # j /\ q[i].addr # 0 => q[i].addr # q[j].addr

IsFun(f) == f = [x \in DOMAIN f |-> f[x]]

BusTyped(d) ==
  /\ KindsTyped(d) /\ d.next_address \in Nat \ {0}
  /\ d.events \in Seq(Event) /\ d.pending \in Seq(Event)
  /\ IsFun(d.devices) /\ IsFun(d.by_port)
  /\ DOMAIN d.devices \subseteq Paths /\ DOMAIN d.by_port \subseteq Paths

UsbInv(d) ==
  /\ IsUsb(d) /\ BusTyped(d) /\ Agree(d)
  /\ Follows(Queue(d), d.by_port, d.devices)
  /\ Fresh(Queue(d), DOMAIN d.kind, DOMAIN d.placed)
  /\ \A a \in DOMAIN d.placed : \E p \in DOMAIN d.by_port : d.by_port[p] = a

LEMMA UsbInitial == UsbInit => UsbInv(u)
<1> SUFFICES ASSUME UsbInit PROVE UsbInv(u)
  OBVIOUS
<1>1. PICK g : u = [devices |-> <<>>, next_address |-> 1, pending |-> <<>>, events |-> <<>>,
         by_port |-> <<>>, rules |-> <<>>, next_id |-> 1, default_guest |-> g,
         assigned |-> <<>>, placed |-> <<>>, kind |-> <<>>, known |-> {},
         hub |-> [x \in Guests |-> [p \in Hub |-> Free]], moves |-> 0]
  BY DEF UsbInit
<1>2. /\ u.devices = <<>> /\ u.next_address = 1 /\ u.pending = <<>> /\ u.events = <<>>
      /\ u.by_port = <<>> /\ u.assigned = <<>> /\ u.placed = <<>> /\ u.kind = <<>>
      /\ u.hub = [x \in Guests |-> [p \in Hub |-> Free]]
  BY <1>1
<1>3. IsUsb(u)
  BY <1>1 DEF IsUsb, Fields
<1>4. DOMAIN <<>> = {} /\ IsFun(<<>>)
  BY DEF IsFun
<1>5. BusTyped(u)
  BY <1>2, <1>4 DEF BusTyped, KindsTyped
<1>6. HubTyped(u.hub) /\ \A s \in Spots : At(u.hub, s) = Free
  BY <1>2, Marks DEF HubTyped, Spots, At
<1>7. Agree(u)
  BY <1>2, <1>4, <1>6 DEF Agree, Fits, Clean
<1>8. Queue(u) = <<>> /\ Slots(<<>>) = {}
  BY <1>2 DEF Queue, Slots
<1>9. Follows(Queue(u), u.by_port, u.devices)
  BY <1>2, <1>4, <1>8 DEF Follows, LastShown, IdleSame, FirstNew, Alternate, GoneLast, SameAt
<1>10. Fresh(Queue(u), DOMAIN u.kind, DOMAIN u.placed)
  BY <1>8 DEF Fresh
<1> QED
  BY <1>2, <1>3, <1>4, <1>5, <1>7, <1>9, <1>10 DEF UsbInv

\* Steps that place, move and detach devices, or touch nothing the invariant is about.
LEMMA PlacingKeeps ==
  ASSUME NEW d, UsbInv(d), NEW e, IsUsb(e), Bus(e) = Bus(d), Agree(e),
         DOMAIN e.placed \subseteq DOMAIN d.placed
  PROVE  UsbInv(e)
<1>1. /\ e.devices = d.devices /\ e.next_address = d.next_address /\ e.pending = d.pending
      /\ e.events = d.events /\ e.by_port = d.by_port /\ e.kind = d.kind
  BY DEF Bus
<1>2. BusTyped(e)
  BY <1>1 DEF UsbInv, BusTyped, KindsTyped
<1>3. Queue(e) = Queue(d)
  BY <1>1 DEF Queue
<1>4. Follows(Queue(e), e.by_port, e.devices)
  BY <1>1, <1>3 DEF UsbInv
<1>5. Fresh(Queue(e), DOMAIN e.kind, DOMAIN e.placed)
  BY <1>1, <1>3 DEF UsbInv, Fresh
<1>6. \A a \in DOMAIN e.placed : \E p \in DOMAIN e.by_port : e.by_port[p] = a
  BY <1>1 DEF UsbInv
<1> QED
  BY <1>2, <1>4, <1>5, <1>6 DEF UsbInv

LEMMA QuietKeeps ==
  ASSUME NEW d, UsbInv(d), NEW e, IsUsb(e), Bus(e) = Bus(d),
         e.placed = d.placed, e.assigned = d.assigned, e.hub = d.hub
  PROVE  UsbInv(e)
<1>1. e.kind = d.kind
  BY DEF Bus
<1>2. Agree(e)
  BY <1>1 DEF UsbInv, Agree
<1> QED
  BY <1>2, PlacingKeeps

LEMMA RulesKeep ==
  ASSUME UsbInv(u), Rules
  PROVE  UsbInv(u')
<1>1. PICK x, y : u' = [u EXCEPT !.rules = x] \/ u' = [u EXCEPT !.next_id = y, !.rules = x]
  <2>1. CASE \E p \in Priorities, m \in Kinds \cup {"any"}, g \in Targets :
               u' = add_rule(u, p, m, g)
    BY ZenonT(30), <2>1 DEF add_rule
  <2>2. CASE \E i \in DOMAIN u.rules :
               u' \in {remove_rule(u, u.rules[i].id),
                      set_rule_enabled(u, u.rules[i].id, ~u.rules[i].enabled)}
    BY ZenonT(30), <2>2 DEF remove_rule, set_rule_enabled
  <2> QED
    BY ZenonT(30), <2>1, <2>2 DEF Rules
<1>2. /\ IsUsb(u') /\ Bus(u') = Bus(u)
      /\ u'.placed = u.placed /\ u'.assigned = u.assigned /\ u'.hub = u.hub
  BY ZenonT(30), <1>1 DEF UsbInv, IsUsb, Fields, Bus
<1> QED
  BY ZenonT(30), <1>2, QuietKeeps

LEMMA CommandKeeps ==
  ASSUME UsbRoutingAssumption, UsbInv(u), Command
  PROVE  UsbInv(u')
<1> DEFINE m == [u EXCEPT !.moves = @ + 1]
<1>1. PICK a \in DOMAIN u.placed :
        \/ \E g \in Targets, posted, again \in BOOLEAN : u' = reassign(m, a, g, posted, again)
        \/ u' = detach(m, a)
  BY DEF Command
<1>2. /\ IsUsb(m) /\ Bus(m) = Bus(u) /\ m.placed = u.placed /\ m.assigned = u.assigned
      /\ m.hub = u.hub
  BY DEF UsbInv, IsUsb, Fields, Bus
<1> HIDE DEF m
<1>3. UsbInv(m)
  BY <1>2, QuietKeeps
<1>4. IsUsb(m) /\ KindsTyped(m) /\ Agree(m) /\ a \in DOMAIN m.placed
  BY <1>2, <1>3 DEF UsbInv, BusTyped
<1>5. /\ IsUsb(u') /\ Bus(u') = Bus(m) /\ Agree(u')
      /\ DOMAIN u'.placed \subseteq DOMAIN m.placed
  BY <1>1, <1>4, MoveKeeps, DetachKeeps
<1> QED
  BY <1>3, <1>5, PlacingKeeps

LEMMA NotifyKeeps ==
  ASSUME UsbInv(u), Notify
  PROVE  UsbInv(u')
<1>1. u' = [u EXCEPT !.events = @ \o u.pending, !.pending = <<>>]
  BY DEF Notify, notify_listeners
<1>2. /\ IsUsb(u') /\ u'.events = u.events \o u.pending /\ u'.pending = <<>>
      /\ u'.devices = u.devices /\ u'.next_address = u.next_address /\ u'.by_port = u.by_port
      /\ u'.kind = u.kind /\ u'.placed = u.placed /\ u'.assigned = u.assigned /\ u'.hub = u.hub
  BY <1>1 DEF UsbInv, IsUsb, Fields
<1>3. u.events \in Seq(Event) /\ u.pending \in Seq(Event)
  BY DEF UsbInv, BusTyped
<1>4. Queue(u') = Queue(u) /\ u'.events \in Seq(Event) /\ u'.pending \in Seq(Event)
  BY <1>2, <1>3 DEF Queue
<1>5. BusTyped(u')
  BY <1>2, <1>4 DEF UsbInv, BusTyped, KindsTyped
<1>6. Agree(u')
  BY <1>2 DEF UsbInv, Agree
<1> QED
  BY <1>2, <1>4, <1>5, <1>6 DEF UsbInv

\* The announcements of f are those of d and then e.
Longer(f, d, e) ==
  /\ Queue(f) \in Seq(Event) /\ Queue(d) \in Seq(Event)
  /\ Len(Queue(f)) = Len(Queue(d)) + 1 /\ Queue(f)[Len(Queue(d)) + 1] = e
  /\ \A i \in Slots(Queue(d)) : Queue(f)[i] = Queue(d)[i]
  /\ f.pending \in Seq(Event)

LEMMA QueueGrows ==
  ASSUME NEW d, NEW f, NEW e \in Event, d.events \in Seq(Event), d.pending = <<>>,
         f.events = d.events, f.pending = <<e>>
  PROVE  Longer(f, d, e)
<1> DEFINE s == d.events
           r == s \o <<e>>
<1>1. Queue(d) = s /\ Queue(f) = r /\ <<e>> \in Seq(Event)
  BY DEF Queue
<1>2. /\ r \in Seq(Event) /\ Len(r) = Len(s) + 1 /\ r[Len(s) + 1] = e
      /\ \A i \in 1 .. Len(s) : r[i] = s[i]
  OBVIOUS
<1> QED
  BY <1>1, <1>2 DEF Slots, Longer

LEMMA FreshGrows ==
  ASSUME NEW q \in Seq(Event), NEW r \in Seq(Event), NEW e \in Event, NEW K, NEW L, NEW F,
         Fresh(q, K, F), Len(r) = Len(q) + 1, r[Len(q) + 1] = e, \A i \in Slots(q) : r[i] = q[i],
         K \subseteq L, e.addr # 0 => e.addr \in (L \ F) \ K
  PROVE  Fresh(r, L, F)
<1>1. /\ \A i \in Slots(r) : r[i] = e \/ (i \in Slots(q) /\ r[i] = q[i])
      /\ \A i, j \in Slots(r) : i # j => i \in Slots(q) \/ j \in Slots(q)
  BY DEF Slots
<1>2. \A i \in Slots(r) : r[i].addr # 0 => r[i].addr \in L \ F
  BY <1>1 DEF Fresh
<1>3. ASSUME NEW i \in Slots(r), NEW j \in Slots(r), i # j, r[i].addr # 0
      PROVE  r[i].addr # r[j].addr
  <2>1. CASE i \in Slots(q) /\ j \in Slots(q)
    BY <1>3, <2>1 DEF Fresh
  <2>2. CASE i \notin Slots(q)
    <3>1. r[i] = e /\ j \in Slots(q) /\ r[j] = q[j]
      BY <1>1, <1>3, <2>2
    <3> QED
      BY <1>3, <3>1 DEF Fresh
  <2>3. CASE j \notin Slots(q)
    <3>1. r[j] = e /\ i \in Slots(q) /\ r[i] = q[i]
      BY <1>1, <1>3, <2>3
    <3> QED
      BY <1>3, <3>1 DEF Fresh
  <2> QED
    BY <2>1, <2>2, <2>3
<1> QED
  BY <1>2, <1>3 DEF Fresh

LEMMA ConnectReported ==
  ASSUME UsbInv(u), u.pending = <<>>, NEW path \in Paths, path \notin DOMAIN u.devices,
         NEW k \in Kinds, u' = report_connect(u, path, k)
  PROVE  UsbInv(u')
<1> DEFINE a == u.next_address
           e == [path |-> path, addr |-> a]
<1>1. CASE u' = u
  BY <1>1
<1>2. CASE u' # u
  <2>1. u' = [u EXCEPT !.next_address = @ + 1, !.devices = put(@, path, a), !.kind = put(@, a, k),
                       !.pending = <<e>>]
    BY <1>2 DEF report_connect
  <2>2. /\ IsUsb(u') /\ u'.events = u.events /\ u'.pending = <<e>>
        /\ u'.devices = put(u.devices, path, a) /\ u'.next_address = a + 1
        /\ u'.by_port = u.by_port /\ u'.kind = put(u.kind, a, k) /\ u'.placed = u.placed
        /\ u'.assigned = u.assigned /\ u'.hub = u.hub
    BY <2>1 DEF UsbInv, IsUsb, Fields
  <2>3. a \in Nat /\ a # 0 /\ a \notin DOMAIN u.kind /\ e \in Event /\ u.events \in Seq(Event)
    BY DEF UsbInv, BusTyped, KindsTyped, Event
  <2>4. /\ DOMAIN u'.kind = DOMAIN u.kind \cup {a} /\ u'.kind[a] = k
        /\ \A b \in DOMAIN u.kind : b # a => u'.kind[b] = u.kind[b]
        /\ DOMAIN u'.devices = DOMAIN u.devices \cup {path} /\ u'.devices[path] = a
        /\ \A p \in DOMAIN u.devices : p # path => u'.devices[p] = u.devices[p]
        /\ IsFun(u'.devices)
    BY <2>2 DEF put, IsFun
  <2> HIDE DEF a
  <2>5. KindsTyped(u')
    BY <2>2, <2>3, <2>4 DEF UsbInv, BusTyped, KindsTyped, a
  <2>6. /\ Queue(u') \in Seq(Event) /\ Queue(u) \in Seq(Event)
        /\ Len(Queue(u')) = Len(Queue(u)) + 1 /\ Queue(u')[Len(Queue(u)) + 1] = e
        /\ \A i \in Slots(Queue(u)) : Queue(u')[i] = Queue(u)[i]
        /\ u'.pending \in Seq(Event)
    <3>1. e \in Event /\ u.events \in Seq(Event) /\ u'.events = u.events /\ u'.pending = <<e>>
      BY <2>2, <2>3
    <3> HIDE DEF e
    <3>2. Longer(u', u, e)
      BY <3>1, QueueGrows
    <3> QED
      BY <3>2 DEF Longer
  <2>7. BusTyped(u')
    BY <2>2, <2>3, <2>4, <2>5, <2>6 DEF UsbInv, BusTyped
  <2>8. Agree(u')
    <3>1. \A b \in DOMAIN u.kind : b \in DOMAIN u'.kind /\ u'.kind[b] = u.kind[b]
      BY <2>3, <2>4
    <3>2. Agree(u)
      BY DEF UsbInv
    <3> QED
      BY <2>2, <3>1, <3>2, AgreeKept
  <2>9. Follows(Queue(u'), u'.by_port, u'.devices)
    <3>1. Shows(u'.devices, e)
      BY <2>3, <2>4 DEF Shows
    <3>2. \A p \in Paths : p # e.path => SameAt(u'.devices, u.devices, p)
      BY <2>4 DEF SameAt
    <3>3. Follows(Queue(u), u.by_port, u.devices) /\ e.path \notin DOMAIN u.devices
      BY DEF UsbInv
    <3>4. e \in Event /\ u'.by_port = u.by_port
      BY <2>2, <2>3
    <3> HIDE DEF e
    <3>5. Follows(Queue(u'), u.by_port, u'.devices)
      BY <2>6, <3>1, <3>2, <3>3, <3>4, ReportFollows
    <3> QED
      BY <3>4, <3>5
  <2>10. Fresh(Queue(u'), DOMAIN u'.kind, DOMAIN u'.placed)
    <3>1. e.addr \in (DOMAIN u'.kind \ DOMAIN u.placed) \ DOMAIN u.kind
      BY <2>3, <2>4 DEF UsbInv, Agree
    <3>2. Fresh(Queue(u), DOMAIN u.kind, DOMAIN u.placed)
      BY DEF UsbInv
    <3> QED
      BY ZenonT(30), <2>2, <2>3, <2>4, <2>6, <3>1, <3>2, FreshGrows
  <2> QED
    BY <2>2, <2>7, <2>8, <2>9, <2>10 DEF UsbInv
<1> QED
  BY <1>1, <1>2

LEMMA DisconnectReported ==
  ASSUME UsbInv(u), u.pending = <<>>, NEW path \in Paths, u' = report_disconnect(u, path)
  PROVE  UsbInv(u')
<1> DEFINE e == [path |-> path, addr |-> 0]
<1>1. u' = [u EXCEPT !.devices = drop(@, path), !.pending = <<e>>]
  BY DEF report_disconnect
<1>2. /\ IsUsb(u') /\ u'.events = u.events /\ u'.pending = <<e>>
      /\ u'.devices = drop(u.devices, path) /\ u'.next_address = u.next_address
      /\ u'.by_port = u.by_port /\ u'.kind = u.kind /\ u'.placed = u.placed
      /\ u'.assigned = u.assigned /\ u'.hub = u.hub
  BY <1>1 DEF UsbInv, IsUsb, Fields
<1>3. e \in Event /\ u.events \in Seq(Event)
  BY DEF UsbInv, BusTyped, Event
<1>4. /\ DOMAIN u'.devices = DOMAIN u.devices \ {path} /\ IsFun(u'.devices)
      /\ \A p \in DOMAIN u.devices : p # path => u'.devices[p] = u.devices[p]
  BY <1>2 DEF drop, IsFun
<1>5. /\ Queue(u') \in Seq(Event) /\ Queue(u) \in Seq(Event)
      /\ Len(Queue(u')) = Len(Queue(u)) + 1 /\ Queue(u')[Len(Queue(u)) + 1] = e
      /\ \A i \in Slots(Queue(u)) : Queue(u')[i] = Queue(u)[i]
      /\ u'.pending \in Seq(Event)
  <2>1. e \in Event /\ u.events \in Seq(Event) /\ u'.events = u.events /\ u'.pending = <<e>>
    BY <1>2, <1>3
  <2> HIDE DEF e
  <2>2. Longer(u', u, e)
    BY <2>1, QueueGrows
  <2> QED
    BY <2>2 DEF Longer
<1>6. BusTyped(u')
  BY <1>2, <1>4, <1>5 DEF UsbInv, BusTyped, KindsTyped
<1>7. Agree(u')
  BY <1>2, AgreeKept DEF UsbInv
<1>8. Follows(Queue(u'), u'.by_port, u'.devices)
  <2>1. Shows(u'.devices, e)
    BY <1>4 DEF Shows
  <2>2. \A p \in Paths : p # e.path => SameAt(u'.devices, u.devices, p)
    BY <1>4 DEF SameAt
  <2>3. Follows(Queue(u), u.by_port, u.devices) /\ e.addr = 0
    BY DEF UsbInv
  <2>4. e \in Event /\ u'.by_port = u.by_port
    BY <1>2, <1>3
  <2> HIDE DEF e
  <2>5. Follows(Queue(u'), u.by_port, u'.devices)
    BY <1>5, <2>1, <2>2, <2>3, <2>4, ReportFollows
  <2> QED
    BY <2>4, <2>5
<1>9. Fresh(Queue(u'), DOMAIN u'.kind, DOMAIN u'.placed)
  <2>1. Fresh(Queue(u), DOMAIN u.kind, DOMAIN u.placed) /\ e.addr = 0
    BY DEF UsbInv
  <2> QED
    BY <1>2, <1>3, <1>5, <2>1, FreshGrows
<1> QED
  BY <1>2, <1>6, <1>7, <1>8, <1>9 DEF UsbInv

LEMMA TailConcat ==
  ASSUME NEW S, NEW s \in Seq(S), NEW t \in Seq(S), s # <<>>
  PROVE  /\ s \o t \in Seq(S) /\ Tail(s) \in Seq(S) /\ Tail(s) \o t \in Seq(S)
         /\ Len(s \o t) = Len(Tail(s) \o t) + 1 /\ (s \o t)[1] = Head(s)
         /\ \A i \in 1 .. Len(Tail(s) \o t) : (Tail(s) \o t)[i] = (s \o t)[i + 1]
<1>1. /\ Tail(s) \in Seq(S) /\ Len(s) \in Nat /\ Len(s) > 0 /\ Len(Tail(s)) = Len(s) - 1
      /\ Len(t) \in Nat /\ s[1] = Head(s)
  OBVIOUS
<1>2. \A i \in 1 .. Len(s) - 1 : Tail(s)[i] = s[i + 1]
  OBVIOUS
<1>3. s \o t \in Seq(S) /\ Len(s \o t) = Len(s) + Len(t)
  OBVIOUS
<1>4. \A i \in 1 .. Len(s) + Len(t) : (s \o t)[i] = IF i <= Len(s) THEN s[i] ELSE t[i - Len(s)]
  OBVIOUS
<1> DEFINE r == Tail(s)
<1> HIDE DEF r
<1>5. r \o t \in Seq(S) /\ Len(r \o t) = Len(r) + Len(t)
  BY <1>1 DEF r
<1>6. \A i \in 1 .. Len(r) + Len(t) : (r \o t)[i] = IF i <= Len(r) THEN r[i] ELSE t[i - Len(r)]
  <2>1. r \in Seq(S)
    BY <1>1 DEF r
  <2> QED
    BY <2>1
<1>7. Len(r) = Len(s) - 1 /\ \A i \in 1 .. Len(s) - 1 : r[i] = s[i + 1]
  BY <1>1, <1>2 DEF r
<1>8. ASSUME NEW i \in 1 .. Len(r \o t) PROVE (r \o t)[i] = (s \o t)[i + 1]
  <2>1. i \in 1 .. Len(r) + Len(t) /\ i + 1 \in 1 .. Len(s) + Len(t)
    BY <1>1, <1>5, <1>7
  <2>2. CASE i <= Len(s) - 1
    BY <1>1, <1>4, <1>6, <1>7, <2>1, <2>2
  <2>3. CASE ~ (i <= Len(s) - 1)
    <3>1. (r \o t)[i] = t[i - Len(r)] /\ (s \o t)[i + 1] = t[i + 1 - Len(s)]
      BY <1>1, <1>4, <1>6, <1>7, <2>1, <2>3
    <3>2. i - Len(r) = i + 1 - Len(s)
      BY <1>1, <1>7
    <3> QED
      BY <3>1, <3>2
  <2> QED
    BY ZenonT(30), <2>2, <2>3
<1>9. (s \o t)[1] = Head(s)
  BY <1>1, <1>4
<1> QED
  BY <1>1, <1>3, <1>5, <1>7, <1>8, <1>9 DEF r

\* The first announcement leaves the queue.
LEMMA QueueShrinks ==
  ASSUME NEW d, NEW f, d.events \in Seq(Event), d.pending \in Seq(Event), d.events # <<>>,
         f.events = Tail(d.events), f.pending = d.pending
  PROVE  /\ Queue(f) \in Seq(Event) /\ Queue(d) \in Seq(Event) /\ f.events \in Seq(Event)
         /\ Len(Queue(d)) = Len(Queue(f)) + 1 /\ Queue(d)[1] = Head(d.events)
         /\ \A i \in Slots(Queue(f)) : Queue(f)[i] = Queue(d)[i + 1]
<1> DEFINE s == d.events
           t == d.pending
<1>1. Queue(d) = s \o t /\ Queue(f) = Tail(s) \o t /\ f.events = Tail(s)
  BY DEF Queue
<1>2. s \in Seq(Event) /\ t \in Seq(Event) /\ s # <<>>
  OBVIOUS
<1>3. Head(s) = Head(d.events)
  OBVIOUS
<1> HIDE DEF s, t
<1>4. /\ s \o t \in Seq(Event) /\ Tail(s) \in Seq(Event) /\ Tail(s) \o t \in Seq(Event)
      /\ Len(s \o t) = Len(Tail(s) \o t) + 1 /\ (s \o t)[1] = Head(s)
      /\ \A i \in 1 .. Len(Tail(s) \o t) : (Tail(s) \o t)[i] = (s \o t)[i + 1]
  BY <1>2, TailConcat
<1> QED
  BY ZenonT(30), <1>1, <1>3, <1>4 DEF Slots

LEMMA FreshShrinks ==
  ASSUME NEW q \in Seq(Event), NEW r \in Seq(Event), NEW K, NEW F, NEW G,
         Fresh(q, K, F), Len(q) = Len(r) + 1, \A i \in Slots(r) : r[i] = q[i + 1],
         G \subseteq F \cup {q[1].addr}
  PROVE  Fresh(r, K, G)
<1>1. /\ 1 \in Slots(q)
      /\ \A i \in Slots(r) : i + 1 \in Slots(q) /\ i + 1 # 1 /\ r[i] = q[i + 1] /\ i \in Int
  BY DEF Slots
<1>2. ASSUME NEW i \in Slots(r), r[i].addr # 0 PROVE r[i].addr \in K \ G
  <2>1. i + 1 \in Slots(q) /\ q[i + 1].addr # 0 /\ i + 1 # 1 /\ r[i] = q[i + 1]
    BY <1>1, <1>2
  <2>2. q[i + 1].addr # q[1].addr /\ q[i + 1].addr \in K \ F
    BY <1>1, <2>1 DEF Fresh
  <2> QED
    BY <2>1, <2>2
<1>3. ASSUME NEW i \in Slots(r), NEW j \in Slots(r), i # j, r[i].addr # 0
      PROVE  r[i].addr # r[j].addr
  <2>1. i + 1 \in Slots(q) /\ j + 1 \in Slots(q) /\ i + 1 # j + 1
        /\ r[i] = q[i + 1] /\ r[j] = q[j + 1]
    BY <1>1, <1>3
  <2> QED
    BY <1>3, <2>1 DEF Fresh
<1> QED
  BY <1>2, <1>3 DEF Fresh

LEMMA ServiceKeeps ==
  ASSUME UsbRoutingAssumption, UsbInv(u), u.events # <<>>, NEW posted \in BOOLEAN,
         u' = service(u, posted)
  PROVE  UsbInv(u')
<1> DEFINE e == Head(u.events)
           b == [u EXCEPT !.events = Tail(@)]
<1>1. u.events \in Seq(Event) /\ u.pending \in Seq(Event) /\ e \in Event
  BY DEF UsbInv, BusTyped
<1>2. /\ IsUsb(b) /\ b.events = Tail(u.events) /\ b.pending = u.pending
      /\ b.devices = u.devices /\ b.next_address = u.next_address /\ b.by_port = u.by_port
      /\ b.kind = u.kind /\ b.placed = u.placed /\ b.assigned = u.assigned /\ b.hub = u.hub
      /\ b.known = u.known
  BY DEF UsbInv, IsUsb, Fields
<1>3. u' = IF e.addr # 0
           THEN attach_with_model([b EXCEPT !.by_port = put(@, e.path, e.addr),
                                            !.known = @ \cup {e.addr}], e.addr, posted)
           ELSE IF e.path \notin DOMAIN u.by_port THEN b
           ELSE detach([b EXCEPT !.by_port = drop(@, e.path),
                                 !.known = @ \ {u.by_port[e.path]}], u.by_port[e.path])
  BY DEF service
<1> HIDE DEF e, b
<1>4. /\ Queue(b) \in Seq(Event) /\ Queue(u) \in Seq(Event) /\ b.events \in Seq(Event)
      /\ Len(Queue(u)) = Len(Queue(b)) + 1 /\ Queue(u)[1] = e
      /\ \A i \in Slots(Queue(b)) : Queue(b)[i] = Queue(u)[i + 1]
  BY <1>1, <1>2, QueueShrinks DEF e
<1>5. /\ e.path \in Paths /\ e.addr \in Nat /\ 1 \in Slots(Queue(u))
      /\ Follows(Queue(u), u.by_port, u.devices)
      /\ Fresh(Queue(u), DOMAIN u.kind, DOMAIN u.placed)
  BY <1>1, <1>4 DEF Event, UsbInv, Slots
<1>6. KindsTyped(b) /\ Agree(b)
  BY <1>2 DEF UsbInv, BusTyped, KindsTyped, Agree
\* What is left to show once the event is applied to the dispatcher's view.
<1>7. ASSUME NEW f, IsUsb(f), Agree(f),
             f.events = b.events, f.pending = b.pending, f.devices = b.devices,
             f.next_address = b.next_address, f.kind = b.kind,
             IsFun(f.by_port), DOMAIN f.by_port \subseteq Paths, Shows(f.by_port, e),
             \A p \in Paths : p # e.path => SameAt(f.by_port, u.by_port, p),
             DOMAIN f.placed \subseteq DOMAIN u.placed \cup {e.addr},
             \A a \in DOMAIN f.placed : \E p \in DOMAIN f.by_port : f.by_port[p] = a
      PROVE  UsbInv(f)
  <2>1. Queue(f) = Queue(b)
    BY ZenonT(30), <1>7 DEF Queue
  <2>2. BusTyped(f)
    BY ZenonT(30), <1>2, <1>4, <1>7 DEF UsbInv, BusTyped, KindsTyped
  <2>3. Follows(Queue(f), f.by_port, f.devices)
    BY ZenonT(30), <1>2, <1>4, <1>5, <1>7, <2>1, ServeFollows
  <2>4. Fresh(Queue(f), DOMAIN f.kind, DOMAIN f.placed)
    BY ZenonT(30), <1>2, <1>4, <1>5, <1>7, <2>1, FreshShrinks
  <2> QED
    BY <1>7, <2>2, <2>3, <2>4 DEF UsbInv
<1>8. CASE e.addr # 0
  <2> DEFINE x == [b EXCEPT !.by_port = put(@, e.path, e.addr), !.known = @ \cup {e.addr}]
  <2>1. u' = attach_with_model(x, e.addr, posted)
    BY <1>3, <1>8
  <2>2. /\ IsUsb(x) /\ x.by_port = put(u.by_port, e.path, e.addr)
        /\ x.events = b.events /\ x.pending = b.pending /\ x.devices = b.devices
        /\ x.next_address = b.next_address /\ x.kind = b.kind /\ x.placed = u.placed
        /\ x.assigned = b.assigned /\ x.hub = b.hub
    BY <1>2 DEF IsUsb, Fields
  <2> HIDE DEF x
  <2>3. e.addr \in DOMAIN u.kind /\ e.addr \notin DOMAIN u.placed /\ e.path \notin DOMAIN u.by_port
    <3>1. e.addr \in DOMAIN u.kind /\ e.addr \notin DOMAIN u.placed
      BY <1>4, <1>5, <1>8 DEF Fresh
    <3>2. \A j \in Slots(Queue(u)) : ~ (j < 1)
      BY <1>4 DEF Slots
    <3> QED
      BY <1>4, <1>5, <1>8, <3>1, <3>2 DEF Follows, FirstNew
  <2>4. KindsTyped(x) /\ Agree(x)
    BY <1>2, <1>6, <2>2 DEF KindsTyped, Agree
  <2>5. /\ IsUsb(u') /\ Bus(u') = Bus(x) /\ Agree(u')
        /\ DOMAIN u'.placed \subseteq DOMAIN x.placed \cup {e.addr}
    BY <1>2, <2>1, <2>2, <2>3, <2>4, AttachKeeps
  <2>6. /\ u'.events = b.events /\ u'.pending = b.pending /\ u'.devices = b.devices
        /\ u'.next_address = b.next_address /\ u'.kind = b.kind
        /\ u'.by_port = put(u.by_port, e.path, e.addr)
    BY <2>2, <2>5 DEF Bus
  <2>7. /\ IsFun(u'.by_port) /\ DOMAIN u'.by_port = DOMAIN u.by_port \cup {e.path}
        /\ u'.by_port[e.path] = e.addr
        /\ \A p \in DOMAIN u.by_port : p # e.path => u'.by_port[p] = u.by_port[p]
    BY <2>6 DEF put, IsFun
  <2>8. /\ Shows(u'.by_port, e) /\ DOMAIN u'.by_port \subseteq Paths
        /\ \A p \in Paths : p # e.path => SameAt(u'.by_port, u.by_port, p)
    BY ZenonT(30), <1>5, <1>8, <2>7 DEF Shows, SameAt, UsbInv, BusTyped
  <2>9. \A a \in DOMAIN u'.placed : \E p \in DOMAIN u'.by_port : u'.by_port[p] = a
    <3>1. ASSUME NEW a \in DOMAIN u.placed PROVE \E p \in DOMAIN u'.by_port : u'.by_port[p] = a
      <4>1. PICK p \in DOMAIN u.by_port : u.by_port[p] = a
        BY DEF UsbInv
      <4> QED
        BY <2>3, <2>7, <4>1
    <3> QED
      BY <2>2, <2>5, <2>7, <3>1
  <2> QED
    BY <1>7, <2>2, <2>5, <2>6, <2>7, <2>8, <2>9
<1>9. CASE e.addr = 0 /\ e.path \notin DOMAIN u.by_port
  <2>1. u' = b
    BY <1>3, <1>9
  <2>2. IsFun(b.by_port) /\ DOMAIN b.by_port \subseteq Paths /\ Shows(b.by_port, e)
        /\ \A p \in Paths : SameAt(b.by_port, u.by_port, p)
    BY <1>2, <1>9 DEF UsbInv, BusTyped, Shows, SameAt
  <2>3. \A a \in DOMAIN b.placed : \E p \in DOMAIN b.by_port : b.by_port[p] = a
    BY ZenonT(30), <1>2 DEF UsbInv
  <2> QED
    BY <1>2, <1>6, <1>7, <2>1, <2>2, <2>3
<1>10. CASE e.addr = 0 /\ e.path \in DOMAIN u.by_port
  <2> DEFINE c == u.by_port[e.path]
             x == [b EXCEPT !.by_port = drop(@, e.path), !.known = @ \ {c}]
  <2>1. u' = detach(x, c)
    BY <1>3, <1>10
  <2>2. /\ IsUsb(x) /\ x.by_port = drop(u.by_port, e.path)
        /\ x.events = b.events /\ x.pending = b.pending /\ x.devices = b.devices
        /\ x.next_address = b.next_address /\ x.kind = b.kind /\ x.placed = u.placed
        /\ x.assigned = b.assigned /\ x.hub = b.hub
    BY <1>2 DEF IsUsb, Fields
  <2> HIDE DEF x, c
  <2>3. Agree(x)
    BY <1>2, <1>6, <2>2 DEF Agree
  <2>4. /\ IsUsb(u') /\ Bus(u') = Bus(x) /\ Agree(u')
        /\ DOMAIN u'.placed = DOMAIN x.placed \ {c}
    BY <2>1, <2>2, <2>3, DetachKeeps
  <2>5. /\ u'.events = b.events /\ u'.pending = b.pending /\ u'.devices = b.devices
        /\ u'.next_address = b.next_address /\ u'.kind = b.kind
        /\ u'.by_port = drop(u.by_port, e.path)
    BY <2>2, <2>4 DEF Bus
  <2>6. /\ IsFun(u'.by_port) /\ DOMAIN u'.by_port = DOMAIN u.by_port \ {e.path}
        /\ \A p \in DOMAIN u.by_port : p # e.path => u'.by_port[p] = u.by_port[p]
    BY <2>5 DEF drop, IsFun
  <2>7. /\ Shows(u'.by_port, e) /\ DOMAIN u'.by_port \subseteq Paths
        /\ \A p \in Paths : p # e.path => SameAt(u'.by_port, u.by_port, p)
    BY <1>10, <2>6 DEF Shows, SameAt, UsbInv, BusTyped
  <2>8. ASSUME NEW a \in DOMAIN u'.placed PROVE \E p \in DOMAIN u'.by_port : u'.by_port[p] = a
    <3>1. a \in DOMAIN u.placed /\ a # c
      BY <2>2, <2>4
    <3>2. PICK p \in DOMAIN u.by_port : u.by_port[p] = a
      BY <3>1 DEF UsbInv
    <3>3. p # e.path
      BY <3>1, <3>2 DEF c
    <3> QED
      BY <2>6, <3>2, <3>3
  <2>9. DOMAIN u'.placed \subseteq DOMAIN u.placed \cup {e.addr}
    BY <2>2, <2>4
  <2> QED
    BY <1>7, <2>4, <2>5, <2>6, <2>7, <2>8, <2>9
<1> QED
  BY <1>8, <1>9, <1>10

LEMMA UsbStep ==
  ASSUME UsbRoutingAssumption, UsbInv(u), [UsbNext]_u
  PROVE  UsbInv(u')
<1>1. CASE u' = u
  BY <1>1
<1>2. CASE Report
  BY <1>2, ConnectReported, DisconnectReported DEF Report
<1>3. CASE Service
  BY <1>3, ServiceKeeps DEF Service
<1> QED
  BY <1>1, <1>2, <1>3, NotifyKeeps, RulesKeep, CommandKeeps DEF UsbNext

\* Without a stuck port the placements are those of the ports.
LEMMA CleanMatches ==
  ASSUME UsbInv(u)
  PROVE  PlacementsMatchPorts
<1>1. HubTyped(u.hub) /\ Fits(u.placed) /\ (Dead(u.hub, u.placed) \/ Clean(u.hub, u.placed))
  BY DEF UsbInv, Agree
<1> SUFFICES ASSUME \A g \in Guests : Stuck \notin Range(u.hub[g]), NEW g \in Guests, NEW p \in Hub
             PROVE  {a \in DOMAIN u.placed : u.placed[a] = [guest |-> g, port |-> p]}
                      = IF u.hub[g][p] = Free THEN {} ELSE {u.hub[g][p]}
  BY DEF PlacementsMatchPorts
<1>2. \A s \in Spots : At(u.hub, s) # Stuck
  BY <1>1 DEF Spots, At, HubTyped, Range
<1>3. Clean(u.hub, u.placed)
  BY <1>1, <1>2 DEF Dead
<1> DEFINE s == [guest |-> g, port |-> p]
<1>4. s \in Spots /\ At(u.hub, s) = u.hub[g][p]
  BY DEF Spots, At
<1> HIDE DEF s
<1>5. \A a \in DOMAIN u.placed : u.placed[a] = s => At(u.hub, s) = a /\ a # Free
  BY <1>1, <1>2, <1>3, <1>4 DEF Clean, Fits
<1>6. At(u.hub, s) # Free => At(u.hub, s) \in DOMAIN u.placed /\ u.placed[At(u.hub, s)] = s
  BY <1>2, <1>3, <1>4 DEF Clean
<1> QED
  BY ZenonT(30), <1>4, <1>5, <1>6 DEF s

LEMMA QuietSame ==
  ASSUME UsbInv(u), u.pending = <<>>, u.events = <<>>
  PROVE  u.by_port = u.devices /\ DOMAIN u.placed \subseteq Range(u.devices)
<1>1. Queue(u) = <<>> /\ Slots(<<>>) = {}
  BY DEF Queue, Slots
<1>2. \A p \in Paths : SameAt(u.by_port, u.devices, p)
  BY <1>1 DEF UsbInv, Follows, IdleSame
<1>3. /\ DOMAIN u.by_port = DOMAIN u.devices
      /\ \A p \in DOMAIN u.devices : u.by_port[p] = u.devices[p]
  BY ZenonT(30), <1>2 DEF UsbInv, BusTyped, SameAt
<1>4. u.by_port = u.devices
  BY <1>3 DEF UsbInv, BusTyped, IsFun
<1> QED
  BY <1>4 DEF UsbInv, Range

\* A device is in one place: registry, routing table and root-hub ports agree on the
\* guest and port of every device through failed moves and late unplug notices, and when
\* all is quiet only what is plugged in is placed, for any paths, guests and ports
\* (registry.rs and usb_service.rs fed by monitor.rs and hotplug.rs).
THEOREM UsbDevicesInOnePlace == UsbSpec => []DevicesInOnePlace
<1> DEFINE I == UsbInv(u)
<1>1. UsbInit => I
  BY UsbInitial
<1>2. I /\ [UsbNext]_u => I'
  BY UsbStep, UsbRoutingAssumption
<1>3. I => DevicesInOnePlace
  <2>1. ASSUME UsbInv(u) PROVE AssignmentsAgree
    BY <2>1 DEF UsbInv, Agree, AssignmentsAgree
  <2>2. ASSUME UsbInv(u) PROVE QuietAgrees
    BY <2>2, QuietSame DEF QuietAgrees
  <2> QED
    BY <2>1, <2>2, CleanMatches DEF DevicesInOnePlace
<1> HIDE DEF I
<1> QED
  BY <1>1, <1>2, <1>3, PTL DEF UsbSpec

-----------------------------------------------------------------------------
(* DirtyLog: the writes are tracked *)

Leaves == {"ro", "rw", "absent"}

LogRecords ==
  [leaf : [NestedPages -> Leaves], bits : SUBSET Logged, frames : Nat,
   store : Stores \cup {{}}, stop : BOOLEAN, written : SUBSET NestedPages, faults : Nat]
LogTyped == log \in LogRecords

\* Only a logged page is write-protected, and only a spare one is absent.
Mapped ==
  /\ \A p \in Logged : log.leaf[p] # "absent"
  /\ \A p \in Spare : log.leaf[p] # "ro"

\* The faults the store {x, y} may still take: one for each closed page, and one more
\* for a logged page beside an absent one, which mapping that one closes again.
Closed(p) == IF log.leaf[p] = "rw" THEN 0 ELSE 1
Again(x, y) == IF log.leaf[x] = "absent" /\ y \in Logged THEN 1 ELSE 0
Due(x, y) == Closed(x) + (IF x = y THEN 0 ELSE Closed(y)) + Again(x, y) + Again(y, x)
Allowed(x, y) == (IF x = y THEN 1 ELSE 2) + (IF x \in Spare \/ y \in Spare THEN 1 ELSE 0)

\* The faults taken and the faults due stay within the bound.
Paid ==
  /\ log.store = {} => log.faults = 0
  /\ \A x, y \in NestedPages : log.store = {x, y} =>
       /\ log.faults <= Allowed(x, y)
       /\ ~log.stop => log.faults + Due(x, y) <= Allowed(x, y)

LogInv == LogTyped /\ Mapped /\ WritesRecorded /\ OpenOnlyRecorded /\ Paid

LEMMA LogTypes ==
  ASSUME LogTyped
  PROVE  /\ log.leaf \in [NestedPages -> Leaves] /\ log.bits \subseteq Logged
         /\ log.frames \in Nat /\ log.store \in Stores \cup {{}} /\ log.stop \in BOOLEAN
         /\ log.written \subseteq NestedPages /\ log.faults \in Nat
         /\ log = [leaf |-> log.leaf, bits |-> log.bits, frames |-> log.frames,
                   store |-> log.store, stop |-> log.stop, written |-> log.written,
                   faults |-> log.faults]
BY DEF LogTyped, LogRecords

\* One field changes within its type.
LEMMA FieldSet ==
  ASSUME NEW d \in LogRecords
  PROVE  /\ \A ps : \A v \in Leaves : set_leaves(d, ps, v) \in LogRecords
         /\ \A x \in SUBSET Logged : [d EXCEPT !.bits = x] \in LogRecords
         /\ \A x \in Nat : [d EXCEPT !.frames = x] \in LogRecords
         /\ \A x \in Stores \cup {{}} : [d EXCEPT !.store = x] \in LogRecords
         /\ \A x \in BOOLEAN : [d EXCEPT !.stop = x] \in LogRecords
         /\ \A x \in SUBSET NestedPages : [d EXCEPT !.written = x] \in LogRecords
         /\ \A x \in Nat : [d EXCEPT !.faults = x] \in LogRecords
<1>1. ASSUME NEW ps, NEW v \in Leaves PROVE set_leaves(d, ps, v) \in LogRecords
  BY DEF LogRecords, set_leaves
<1>2. ASSUME NEW x \in SUBSET Logged PROVE [d EXCEPT !.bits = x] \in LogRecords
  BY DEF LogRecords
<1>3. ASSUME NEW x \in Nat PROVE [d EXCEPT !.frames = x] \in LogRecords
  BY DEF LogRecords
<1>4. ASSUME NEW x \in Stores \cup {{}} PROVE [d EXCEPT !.store = x] \in LogRecords
  BY DEF LogRecords
<1>5. ASSUME NEW x \in BOOLEAN PROVE [d EXCEPT !.stop = x] \in LogRecords
  BY DEF LogRecords
<1>6. ASSUME NEW x \in SUBSET NestedPages PROVE [d EXCEPT !.written = x] \in LogRecords
  BY DEF LogRecords
<1>7. ASSUME NEW x \in Nat PROVE [d EXCEPT !.faults = x] \in LogRecords
  BY DEF LogRecords
<1> QED
  BY ZenonT(30), <1>1, <1>2, <1>3, <1>4, <1>5, <1>6, <1>7

\* What is due never exceeds what is allowed.
LEMMA DueAllowed ==
  ASSUME DirtyLogAssumption, LogTyped, Mapped, NEW x \in NestedPages, NEW y \in NestedPages
  PROVE  /\ Due(x, y) \in Nat /\ Allowed(x, y) \in Nat /\ Due(x, y) <= Allowed(x, y)
BY SMTT(30), LogTypes
   DEF DirtyLogAssumption, Mapped, Due, Allowed, Closed, Again, NestedPages, Leaves

LEMMA LogInitial == DirtyLogAssumption /\ LogInit => LogInv
<1> SUFFICES ASSUME DirtyLogAssumption, LogInit PROVE LogInv
  OBVIOUS
<1>1. LogTyped
  BY DEF LogInit, LogTyped, LogRecords, Leaves, DirtyLogAssumption
<1>2. Mapped /\ OpenOnlyRecorded
  BY DEF LogInit, Mapped, OpenOnlyRecorded, NestedPages, DirtyLogAssumption
<1>3. log.store = {} /\ log.faults = 0 /\ log.written = {}
  BY DEF LogInit
<1> QED
  BY <1>1, <1>2, <1>3 DEF LogInv, WritesRecorded, Paid

\* A store begins: nothing is mapped differently and no fault was taken yet.
LEMMA StoreBegins ==
  ASSUME DirtyLogAssumption, LogInv, log.store = {},
         NEW s \in Stores, log' = [log EXCEPT !.store = s]
  PROVE  LogInv'
<1>1. /\ log'.leaf = log.leaf /\ log'.bits = log.bits /\ log'.written = log.written
      /\ log'.faults = 0 /\ log'.store = s /\ log'.stop = log.stop
  BY LogTypes DEF LogInv, Paid
<1>2. LogTyped'
  BY DEF LogInv, LogTyped, LogRecords
<1>3. Mapped' /\ WritesRecorded' /\ OpenOnlyRecorded'
  BY <1>1 DEF LogInv, Mapped, WritesRecorded, OpenOnlyRecorded
<1>4. \A x, y \in NestedPages :
        Due(x, y)' \in Nat /\ Allowed(x, y) \in Nat /\ Due(x, y)' = Due(x, y)
        /\ Due(x, y) <= Allowed(x, y)
  BY <1>1, DueAllowed DEF LogInv, Due, Closed, Again
<1>5. s # {}
  BY DEF Stores
<1> QED
  BY <1>1, <1>2, <1>3, <1>4, <1>5 DEF LogInv, Paid, Allowed

\* An exit of another kind, or the end of the epoch: the recorded pages are closed.
LEMMA ExitCloses ==
  ASSUME DirtyLogAssumption, LogInv, log' = other_exit(log) \/ log' = end_epoch(log)
  PROVE  LogInv'
<1>1. /\ log'.leaf = [p \in NestedPages |-> IF p \in log.bits THEN "ro" ELSE log.leaf[p]]
      /\ log'.store = log.store /\ log'.stop = log.stop /\ log'.faults = 0
      /\ \/ log'.bits = log.bits /\ log'.written = log.written
         \/ log'.bits = {} /\ log'.written = {}
      /\ log'.frames = log.frames
  <2>1. CASE log' = other_exit(log)
    BY <2>1 DEF LogInv, LogTyped, LogRecords, other_exit, reprotect_recorded, set_leaves
  <2>2. CASE log' = end_epoch(log)
    BY <2>2 DEF LogInv, LogTyped, LogRecords, end_epoch, reprotect_recorded, set_leaves
  <2> QED
    BY <2>1, <2>2
<1>2. LogTyped'
  <2> DEFINE e == reprotect_recorded(log)
             b == [e EXCEPT !.bits = {}]
             w == [b EXCEPT !.written = {}]
  <2>1. e \in LogRecords
    BY FieldSet DEF LogInv, LogTyped, reprotect_recorded, Leaves
  <2>2. log' = [e EXCEPT !.faults = 0] \/ log' = [w EXCEPT !.faults = 0]
    BY DEF other_exit, end_epoch
  <2> HIDE DEF e
  <2>3. b \in LogRecords
    BY <2>1, FieldSet
  <2> HIDE DEF b
  <2>4. w \in LogRecords
    BY ZenonT(30), <2>3, FieldSet
  <2> HIDE DEF w
  <2> QED
    BY <2>1, <2>2, <2>4, FieldSet DEF LogTyped
<1>3. Mapped'
  BY <1>1, LogTypes DEF LogInv, Mapped, NestedPages, DirtyLogAssumption
<1>4. WritesRecorded'
  BY <1>1 DEF LogInv, WritesRecorded
<1>5. OpenOnlyRecorded'
  BY <1>1, LogTypes DEF LogInv, OpenOnlyRecorded, NestedPages
<1>6. \A x, y \in NestedPages : Due(x, y)' \in Nat /\ Due(x, y)' <= Allowed(x, y)
                               /\ Allowed(x, y) \in Nat
  <2>1. ASSUME NEW x \in NestedPages, NEW y \in NestedPages
        PROVE  Due(x, y)' \in Nat /\ Due(x, y)' <= Allowed(x, y) /\ Allowed(x, y) \in Nat
    BY SMTT(30), <1>2, <1>3 DEF LogTyped, DirtyLogAssumption, Mapped, Due, Allowed, Closed, Again,
       NestedPages, Leaves
  <2> QED
    BY <2>1
<1> QED
  BY <1>1, <1>2, <1>3, <1>4, <1>5, <1>6 DEF LogInv, Paid, Allowed

\* VMRUN with every page of the store open: it lands.
LEMMA StoreLands ==
  ASSUME DirtyLogAssumption, LogInv, \A p \in log.store : log.leaf[p] = "rw", log' = vmrun(log)
  PROVE  LogInv'
<1>1. {p \in log.store : log.leaf[p] # "rw"} = {}
  OBVIOUS
<1>2. log' = [log EXCEPT !.written = @ \cup log.store, !.store = {}, !.faults = 0]
  BY <1>1 DEF vmrun
<1>3. log.store \subseteq NestedPages
  BY LogTypes DEF LogInv, Stores
<1>4. LogTyped'
  <2> DEFINE w == [log EXCEPT !.written = @ \cup log.store]
             t == [w EXCEPT !.store = {}]
  <2>1. w \in LogRecords
    BY <1>3, LogTypes, FieldSet DEF LogInv, LogTyped
  <2>2. log' = [t EXCEPT !.faults = 0]
    BY <1>2
  <2> HIDE DEF w
  <2>3. t \in LogRecords
    BY <2>1, FieldSet
  <2> HIDE DEF t
  <2> QED
    BY <2>2, <2>3, FieldSet DEF LogTyped
<1>5. /\ log'.leaf = log.leaf /\ log'.bits = log.bits /\ log'.written = log.written \cup log.store
      /\ log'.faults = 0 /\ log'.store = {}
  BY <1>2 DEF LogInv, LogTyped, LogRecords
<1>6. Mapped' /\ OpenOnlyRecorded'
  BY <1>5 DEF LogInv, Mapped, OpenOnlyRecorded
<1>7. WritesRecorded'
  BY ZenonT(30), <1>5 DEF LogInv, WritesRecorded, OpenOnlyRecorded
<1>8. Paid'
  <2>1. \A x, y : log'.store # {x, y}
    BY <1>5
  <2> QED
    BY <2>1, <1>5 DEF Paid
<1> QED
  BY <1>4, <1>6, <1>7, <1>8 DEF LogInv

\* VMRUN of a store with a closed page: one of its closed pages faults.
LEMMA StoreFaults ==
  ASSUME DirtyLogAssumption, LogInv, NEW r \in log.store, log.leaf[r] # "rw", log' = vmrun(log)
  PROVE  \E p \in log.store :
           /\ log.leaf[p] # "rw"
           /\ log' = IF log.leaf[p] = "absent"
                     THEN demand_map_npf([log EXCEPT !.faults = @ + 1], p)
                     ELSE record_and_grant([log EXCEPT !.faults = @ + 1], p)
<1> DEFINE closed == {p \in log.store : log.leaf[p] # "rw"}
           low == CHOOSE p \in closed : \A q \in closed : p <= q
<1>1. PICK x \in NestedPages, y \in NestedPages : log.store = {x, y}
  BY LogTypes DEF LogInv, Stores
<1>2. x \in Nat /\ y \in Nat
  BY DEF NestedPages, DirtyLogAssumption
<1>3. closed # {} /\ closed \subseteq {x, y}
  BY <1>1
<1>4. \E p \in closed : \A q \in closed : p <= q
  BY <1>2, <1>3
<1>5. low \in closed
  BY <1>4
<1>6. log' = IF log.leaf[low] = "absent"
             THEN demand_map_npf([log EXCEPT !.faults = @ + 1], low)
             ELSE record_and_grant([log EXCEPT !.faults = @ + 1], low)
  BY <1>3 DEF vmrun
<1> HIDE DEF low
<1> QED
  BY <1>5, <1>6

\* A fault on a write-protected page: it is recorded and opened.
LEMMA GrantStep ==
  ASSUME DirtyLogAssumption, LogInv, ~log.stop, NEW p \in log.store, log.leaf[p] = "ro",
         log' = record_and_grant([log EXCEPT !.faults = @ + 1], p)
  PROVE  LogInv'
<1>1. p \in NestedPages /\ p \in Logged
  BY LogTypes DEF LogInv, Stores, Mapped, NestedPages
<1>2. /\ log'.leaf = [q \in NestedPages |-> IF q \in {p} THEN "rw" ELSE log.leaf[q]]
      /\ log'.bits = log.bits \cup {p} /\ log'.frames = log.frames /\ log'.store = log.store
      /\ log'.stop = log.stop /\ log'.written = log.written /\ log'.faults = log.faults + 1
  BY <1>1 DEF LogInv, LogTyped, LogRecords, record_and_grant, set_leaves
<1>3. LogTyped'
  <2> DEFINE f == [log EXCEPT !.faults = @ + 1]
             b == [f EXCEPT !.bits = @ \cup {p}]
  <2>1. f \in LogRecords /\ f.bits \subseteq Logged
    BY DEF LogInv, LogTyped, LogRecords
  <2>2. log' = set_leaves(b, {p}, "rw")
    BY <1>1 DEF record_and_grant
  <2> HIDE DEF f
  <2>3. b \in LogRecords
    BY ZenonT(30), <1>1, <2>1, FieldSet
  <2> HIDE DEF b
  <2> QED
    BY <2>2, <2>3, FieldSet DEF LogTyped, Leaves
<1>4. /\ \A q \in NestedPages : log'.leaf[q] = IF q = p THEN "rw" ELSE log.leaf[q]
      /\ \A q \in Logged : log'.leaf[q] = IF q = p THEN "rw" ELSE log.leaf[q]
      /\ \A q \in Spare : log'.leaf[q] = IF q = p THEN "rw" ELSE log.leaf[q]
  BY <1>2 DEF NestedPages
<1>5. Mapped'
  BY <1>4 DEF LogInv, Mapped
<1>6. WritesRecorded' /\ OpenOnlyRecorded'
  BY <1>2, <1>4 DEF LogInv, WritesRecorded, OpenOnlyRecorded
<1>7. ASSUME NEW x \in NestedPages, NEW y \in NestedPages, log.store = {x, y}
      PROVE  log'.faults + Due(x, y)' <= Allowed(x, y) /\ log'.faults <= Allowed(x, y)
  <2>1. log.faults + Due(x, y) <= Allowed(x, y) /\ log.faults \in Nat
    BY <1>7, LogTypes DEF LogInv, Paid
  <2>2. p = x \/ p = y
    BY <1>7
  <2>3. Due(x, y)' + 1 <= Due(x, y) /\ Due(x, y)' \in Nat /\ Due(x, y) \in Nat
    BY SMTT(30), <1>1, <1>4, <2>2 DEF Due, Closed, Again
  <2>4. Allowed(x, y) \in Nat
    BY DEF Allowed
  <2> QED
    BY <1>2, <2>1, <2>3, <2>4
<1>8. Paid'
  BY <1>2, <1>7 DEF Paid, Allowed
<1> QED
  BY <1>3, <1>5, <1>6, <1>8 DEF LogInv

\* A fault on an absent page the heap cannot back: the guest stops.
LEMMA StopStep ==
  ASSUME DirtyLogAssumption, LogInv, ~log.stop, NEW p \in log.store, log.leaf[p] # "rw",
         log' = [[log EXCEPT !.faults = @ + 1] EXCEPT !.stop = TRUE]
  PROVE  LogInv'
<1>1. /\ log'.leaf = log.leaf /\ log'.bits = log.bits /\ log'.store = log.store
      /\ log'.stop = TRUE /\ log'.written = log.written /\ log'.faults = log.faults + 1
  BY DEF LogInv, LogTyped, LogRecords
<1>2. LogTyped'
  <2> DEFINE f == [log EXCEPT !.faults = @ + 1]
  <2>1. f \in LogRecords
    BY DEF LogInv, LogTyped, LogRecords
  <2> HIDE DEF f
  <2>2. [f EXCEPT !.stop = TRUE] \in LogRecords
    BY ZenonT(30), <2>1, FieldSet
  <2> QED
    BY <2>2 DEF f, LogTyped
<1>3. Mapped' /\ WritesRecorded' /\ OpenOnlyRecorded'
  BY <1>1 DEF LogInv, Mapped, WritesRecorded, OpenOnlyRecorded
<1>4. ASSUME NEW x \in NestedPages, NEW y \in NestedPages, log.store = {x, y}
      PROVE  log'.faults <= Allowed(x, y)
  <2>1. log.faults + Due(x, y) <= Allowed(x, y) /\ log.faults \in Nat
    BY <1>4, LogTypes DEF LogInv, Paid
  <2>2. p = x \/ p = y
    BY <1>4
  <2>3. Due(x, y) \in Nat /\ Due(x, y) >= 1
    BY SMTT(30), <2>2 DEF Due, Closed, Again
  <2>4. Allowed(x, y) \in Nat
    BY DEF Allowed
  <2> QED
    BY <1>1, <2>1, <2>3, <2>4
<1>5. Paid'
  BY <1>1, <1>4 DEF Paid, Allowed
<1> QED
  BY <1>2, <1>3, <1>5 DEF LogInv

\* A fault on an absent page: it is mapped, and the recorded pages are closed.
LEMMA MapStep ==
  ASSUME DirtyLogAssumption, LogInv, ~log.stop, NEW p \in log.store, log.leaf[p] = "absent",
         log.frames # 0, log' = demand_map_npf([log EXCEPT !.faults = @ + 1], p)
  PROVE  LogInv'
<1>1. p \in NestedPages /\ p \in Spare /\ p \notin Logged /\ p \notin log.bits
  BY LogTypes DEF LogInv, Stores, Mapped, NestedPages, DirtyLogAssumption
<1> DEFINE f == [log EXCEPT !.faults = @ + 1]
           m == [set_leaves(f, {p}, "rw") EXCEPT !.frames = @ - 1]
<1>2. /\ f.leaf = log.leaf /\ f.frames = log.frames /\ log' = reprotect_recorded(m)
      /\ f \in LogRecords
      /\ f.bits = log.bits /\ f.faults = log.faults + 1 /\ f.store = log.store
      /\ f.stop = log.stop /\ f.written = log.written
  BY DEF LogInv, LogTyped, LogRecords, demand_map_npf
<1> HIDE DEF f
<1>3. /\ m \in LogRecords
      /\ m.leaf = [q \in NestedPages |-> IF q \in {p} THEN "rw" ELSE log.leaf[q]]
      /\ m.bits = log.bits /\ m.faults = log.faults + 1 /\ m.store = log.store
      /\ m.stop = log.stop /\ m.written = log.written
  <2> DEFINE l == set_leaves(f, {p}, "rw")
  <2>1. /\ l \in LogRecords /\ l.frames = log.frames /\ l.bits = log.bits
        /\ l.leaf = [q \in NestedPages |-> IF q \in {p} THEN "rw" ELSE log.leaf[q]]
        /\ l.faults = log.faults + 1 /\ l.store = log.store /\ l.stop = log.stop
        /\ l.written = log.written
    <3>1. l \in LogRecords
      BY <1>2, FieldSet DEF Leaves
    <3> QED
      BY <1>2, <3>1 DEF set_leaves, LogRecords
  <2>2. log.frames - 1 \in Nat
    BY LogTypes DEF LogInv
  <2> HIDE DEF l
  <2>3. m = [l EXCEPT !.frames = @ - 1]
    BY DEF l
  <2>4. m \in LogRecords
    BY ZenonT(30), <2>1, <2>2, <2>3, FieldSet
  <2> QED
    BY ZenonT(30), <2>1, <2>3, <2>4 DEF LogRecords
<1> HIDE DEF m
<1>4. /\ log'.leaf = [q \in NestedPages |-> IF q \in log.bits THEN "ro" ELSE m.leaf[q]]
      /\ log'.bits = log.bits /\ log'.store = log.store
      /\ log'.stop = log.stop /\ log'.written = log.written /\ log'.faults = log.faults + 1
  BY <1>2, <1>3 DEF reprotect_recorded, set_leaves, LogRecords
<1>5. LogTyped'
  BY <1>2, <1>3, FieldSet DEF LogTyped, reprotect_recorded, Leaves
<1>6. \A q \in NestedPages : log'.leaf[q] = IF q \in log.bits THEN "ro"
                                            ELSE IF q = p THEN "rw" ELSE log.leaf[q]
  BY <1>3, <1>4
<1>7. Mapped'
  BY <1>1, <1>6, LogTypes DEF LogInv, Mapped, NestedPages, DirtyLogAssumption
<1>8. WritesRecorded' /\ OpenOnlyRecorded'
  BY <1>1, <1>4, <1>6 DEF LogInv, WritesRecorded, OpenOnlyRecorded, NestedPages
<1>9. ASSUME NEW x \in NestedPages, NEW y \in NestedPages, log.store = {x, y}
      PROVE  log'.faults + Due(x, y)' <= Allowed(x, y) /\ log'.faults <= Allowed(x, y)
  <2>1. log.faults + Due(x, y) <= Allowed(x, y) /\ log.faults \in Nat
    BY <1>9, LogTypes DEF LogInv, Paid
  <2>2. p = x \/ p = y
    BY <1>9
  <2>3. \A q \in NestedPages : /\ Closed(q) \in {0, 1} /\ Closed(q)' \in {0, 1}
                               /\ Closed(p) = 1 /\ Closed(p)' = 0
                               /\ q \notin Logged => Closed(q)' <= Closed(q)
                               /\ Again(q, p) = 0 /\ Again(q, p)' = 0 /\ Again(p, q)' = 0
                               /\ Again(p, q) = IF q \in Logged THEN 1 ELSE 0
    BY SMTT(30), <1>1, <1>6, LogTypes DEF LogInv, Closed, Again
  <2>4. Due(x, y)' + 1 <= Due(x, y) /\ Due(x, y)' \in Nat /\ Due(x, y) \in Nat
    BY SMTT(30), <1>1, <2>2, <2>3 DEF Due
  <2>5. Allowed(x, y) \in Nat
    BY DEF Allowed
  <2> QED
    BY <1>4, <2>1, <2>4, <2>5
<1>10. Paid'
  BY <1>4, <1>9 DEF Paid, Allowed
<1> QED
  BY <1>5, <1>7, <1>8, <1>10 DEF LogInv

LEMMA LogStep == DirtyLogAssumption /\ LogInv /\ [LogNext]_log => LogInv'
<1> SUFFICES ASSUME DirtyLogAssumption, LogInv, [LogNext]_log PROVE LogInv'
  OBVIOUS
<1>1. CASE log' = log
  BY ZenonT(30), <1>1 DEF LogInv, LogTyped, Mapped, WritesRecorded, OpenOnlyRecorded, Paid,
     Due, Closed, Again
<1>2. CASE ~log.stop /\ log' = vmrun(log)
  <2>1. CASE \A p \in log.store : log.leaf[p] = "rw"
    BY <1>2, <2>1, StoreLands
  <2>2. CASE ~ \A p \in log.store : log.leaf[p] = "rw"
    <3>1. PICK p \in log.store :
            /\ log.leaf[p] # "rw"
            /\ log' = IF log.leaf[p] = "absent"
                      THEN demand_map_npf([log EXCEPT !.faults = @ + 1], p)
                      ELSE record_and_grant([log EXCEPT !.faults = @ + 1], p)
      BY <1>2, <2>2, StoreFaults
    <3>2. CASE log.leaf[p] = "absent" /\ log.frames = 0
      <4>1. [log EXCEPT !.faults = @ + 1].frames = 0
        BY <3>2 DEF LogInv, LogTyped, LogRecords
      <4>2. log' = [[log EXCEPT !.faults = @ + 1] EXCEPT !.stop = TRUE]
        BY <3>1, <3>2, <4>1 DEF demand_map_npf
      <4> QED
        BY <1>2, <3>1, <4>2, StopStep
    <3>3. CASE log.leaf[p] = "absent" /\ log.frames # 0
      BY <1>2, <3>1, <3>3, MapStep
    <3>4. CASE log.leaf[p] # "absent"
      <4>1. log.leaf[p] = "ro"
        BY <3>1, <3>4, LogTypes DEF LogInv, Stores, Leaves
      <4> QED
        BY <1>2, <3>1, <4>1, GrantStep
    <3> QED
      BY <3>2, <3>3, <3>4
  <2> QED
    BY <2>1, <2>2
<1>3. CASE LogNext
  BY <1>2, <1>3, StoreBegins, ExitCloses DEF LogNext
<1> QED
  BY <1>1, <1>3

LEMMA PairSize ==
  ASSUME NEW x, NEW y
  PROVE  Cardinality({x, y}) = IF x = y THEN 1 ELSE 2
<1>1. CASE x = y
  BY <1>1, FS_Singleton
<1>2. CASE x # y
  <2>1. {x, y} = {x} \cup {y} /\ y \notin {x}
    BY <1>2
  <2>2. IsFiniteSet({x}) /\ Cardinality({x}) = 1
    BY FS_Singleton
  <2>3. Cardinality({x} \cup {y}) = Cardinality({x}) + 1
    BY <2>1, <2>2, FS_AddElement
  <2> QED
    BY <1>2, <2>1, <2>2, <2>3
<1> QED
  BY <1>1, <1>2

\* What is within the bounds of the invariant makes progress.
LEMMA PaidProgress ==
  ASSUME DirtyLogAssumption, LogInv
  PROVE  StoresProgress
<1>1. CASE log.store = {}
  <2>1. log.faults = 0 /\ Cardinality(log.store) = 0
    BY <1>1, FS_EmptySet DEF LogInv, Paid
  <2> QED
    BY <2>1 DEF StoresProgress
<1>2. CASE log.store # {}
  <2>1. PICK x \in NestedPages, y \in NestedPages : log.store = {x, y}
    BY <1>2, LogTypes DEF LogInv, Stores
  <2>2. log.faults <= Allowed(x, y)
    BY <2>1 DEF LogInv, Paid
  <2>3. Cardinality(log.store) = IF x = y THEN 1 ELSE 2
    BY <2>1, PairSize
  <2>4. (log.store \cap Spare # {}) <=> (x \in Spare \/ y \in Spare)
    BY <2>1
  <2> QED
    BY <2>2, <2>3, <2>4 DEF StoresProgress, Allowed
<1> QED
  BY <1>1, <1>2

\* A guest's writes to logged pages are all in the dirty bitmap however faults, other
\* exits and epochs interleave, and a store that spans pages is not kept faulting, for
\* any set of logged and spare pages (NptDirtyLog with the run loop of svm.rs).
THEOREM DirtyWritesTracked == LogSpec => []WritesTracked
<1>1. LogInv => WritesTracked
  BY PaidProgress, DirtyLogAssumption DEF LogInv, WritesTracked
<1>2. LogInit => LogInv
  BY LogInitial, DirtyLogAssumption
<1>3. LogInv /\ [LogNext]_log => LogInv'
  BY LogStep, DirtyLogAssumption
<1> QED
  BY <1>1, <1>2, <1>3, PTL DEF LogSpec

-----------------------------------------------------------------------------
(* PiMutex *)

USE PiMutexAssumption DEF Levels, Normal, Unregistered

-----------------------------------------------------------------------------
(* PiMutex: type correctness *)

LEMMA TypeInit == Init => TypeOK
BY DEF Init, TypeOK, Places, Inside

LEMMA TypeStep == TypeOK /\ [Next]_vars => TypeOK'
<1> SUFFICES ASSUME TypeOK, [Next]_vars PROVE TypeOK'
  OBVIOUS
<1> USE DEF TypeOK, Places, Inside, Go, Registered, add_waiter, remove_waiter
<1>1. CASE UNCHANGED vars
  BY <1>1 DEF vars
<1>2. ASSUME NEW t \in Threads, try_lock(t) \/ lock_granted(t) \/ wait_returns(t)
      PROVE  TypeOK'
  BY <1>2 DEF try_lock, lock_granted, wait_returns
<1>3. ASSUME NEW t \in Threads, lock_contended(t) PROVE TypeOK'
  BY <1>3 DEF lock_contended
<1>4. ASSUME NEW t \in Threads, lock_arm(t) PROVE TypeOK'
  BY <1>4 DEF lock_arm
<1>5. ASSUME NEW t \in Threads, note_acquired(t) PROVE TypeOK'
  BY <1>5 DEF note_acquired
<1>6. ASSUME NEW t \in Threads, refresh_holder_base(t) PROVE TypeOK'
  BY <1>6 DEF refresh_holder_base
<1>7. ASSUME NEW t \in Threads, unlock(t) \/ wait(t) PROVE TypeOK'
  BY <1>7 DEF unlock, wait
<1> QED
  BY ZenonT(30), <1>1, <1>2, <1>3, <1>4, <1>5, <1>6, <1>7 DEF Next

\* The types hold, and the inner lock's owner is exactly the thread inside.
THEOREM TypeCorrect == Spec => []TypeOK
BY TypeInit, TypeStep, PTL DEF Spec

-----------------------------------------------------------------------------
(* PiMutex: effective *)

\* effective is the least of the base and the waiting priorities.
LEMMA EffectiveIsLeast ==
  ASSUME TypeOK
  PROVE  /\ effective \in Levels
         /\ effective <= base
         /\ \A q \in Levels : waiters[q] > 0 => effective <= q
         /\ effective = base \/ waiters[effective] > 0
<1> DEFINE S == {base} \cup {q \in Levels : waiters[q] > 0}
<1>1. S \subseteq Levels /\ base \in S
  BY DEF TypeOK
<1>2. \E p \in S : \A q \in S : p <= q
  <2>1. CASE 0 \in S
    BY <1>1, <2>1
  <2>2. CASE 0 \notin S /\ 1 \in S
    BY <1>1, <2>2
  <2>3. CASE 0 \notin S /\ 1 \notin S /\ 2 \in S
    BY <1>1, <2>3
  <2>4. CASE 0 \notin S /\ 1 \notin S /\ 2 \notin S
    BY <1>1, <2>4
  <2> QED
    BY <2>1, <2>2, <2>3, <2>4
<1>3. effective = CHOOSE p \in S : \A q \in S : p <= q
  BY DEF effective
<1>4. effective \in S /\ \A q \in S : effective <= q
  BY <1>2, <1>3
<1> QED
  BY <1>1, <1>4

-----------------------------------------------------------------------------
(* No ghost donor.  The multiset may hold fewer priorities than there are    *)
(* blocked threads, never more: that, and that the base is the holder's own  *)
(* priority, is inductive.                                                   *)

Own(t) == IF Registered(t) THEN Prio[t] ELSE Normal

BaseIsHolders == \A t \in Threads : at[t] = "holding" => base = Own(t)

Donors(p) == {t \in Threads : Armed(t, p)}

Counted == \A p \in Levels : waiters[p] <= Cardinality(Donors(p))

LEMMA DonorsFinite ==
  \A p : IsFiniteSet(Donors(p)) /\ Cardinality(Donors(p)) \in Nat
BY ZenonT(30), FS_Subset, FS_CardinalityType DEF Donors

LEMMA BaseStep == TypeOK /\ BaseIsHolders /\ [Next]_vars => BaseIsHolders'
<1> SUFFICES ASSUME TypeOK, BaseIsHolders, [Next]_vars PROVE BaseIsHolders'
  OBVIOUS
<1> USE DEF TypeOK, Places, Inside, Go, Own, BaseIsHolders, Registered
<1>1. CASE UNCHANGED vars
  BY ZenonT(30), <1>1 DEF vars
<1>2. ASSUME NEW t \in Threads,
             \/ try_lock(t) \/ lock_contended(t) \/ lock_arm(t) \/ lock_granted(t)
             \/ note_acquired(t) \/ unlock(t) \/ wait(t) \/ wait_returns(t)
      PROVE  BaseIsHolders'
  BY <1>2 DEF try_lock, lock_contended, lock_arm, lock_granted, note_acquired, unlock,
              wait, wait_returns
<1>3. ASSUME NEW t \in Threads, refresh_holder_base(t) PROVE BaseIsHolders'
  BY <1>3 DEF refresh_holder_base
<1> QED
  BY <1>1, <1>2, <1>3 DEF Next

LEMMA CountedStep == TypeOK /\ Counted /\ [Next]_vars => Counted'
<1> SUFFICES ASSUME TypeOK, Counted, [Next]_vars PROVE Counted'
  OBVIOUS
<1> USE DEF TypeOK, Places, Go, Registered
<1>1. ASSUME UNCHANGED waiters, \A p \in Levels : Donors(p)' = Donors(p)
      PROVE  Counted'
  BY <1>1 DEF Counted
<1>2. CASE UNCHANGED vars
  BY ZenonT(30), <1>1, <1>2 DEF vars, Donors, Armed
<1>3. ASSUME NEW t \in Threads,
             \/ try_lock(t) \/ lock_contended(t) \/ lock_granted(t) \/ unlock(t)
             \/ refresh_holder_base(t) \/ wait(t) \/ wait_returns(t)
      PROVE  Counted'
  BY <1>1, <1>3 DEF try_lock, lock_contended, lock_granted, unlock,
                    refresh_holder_base, wait, wait_returns, Donors, Armed
<1>4. ASSUME NEW t \in Threads, lock_arm(t) PROVE Counted'
  <2> SUFFICES ASSUME NEW p \in Levels
               PROVE  waiters'[p] <= Cardinality(Donors(p)')
    BY DEF Counted
  <2>1. waiters[p] \in Nat /\ waiters[p] <= Cardinality(Donors(p))
    BY DEF Counted
  <2>2. CASE Prio[t] = p
    <3>1. Donors(p)' = Donors(p) \cup {t} /\ t \notin Donors(p)
      BY <1>4, <2>2 DEF lock_arm, Donors, Armed
    <3>2. Cardinality(Donors(p)') = Cardinality(Donors(p)) + 1
      BY ZenonT(30), <3>1, DonorsFinite, FS_AddElement
    <3>3. waiters'[p] = waiters[p] + 1
      BY <1>4, <2>2 DEF lock_arm, add_waiter
    <3> QED
      BY <2>1, <3>2, <3>3, DonorsFinite
  <2>3. CASE Prio[t] # p
    <3>1. Donors(p)' = Donors(p) /\ waiters'[p] = waiters[p]
      BY ZenonT(30), <1>4, <2>3 DEF lock_arm, Donors, Armed, add_waiter
    <3> QED
      BY <2>1, <3>1
  <2> QED
    BY <2>2, <2>3
<1>5. ASSUME NEW t \in Threads, note_acquired(t) PROVE Counted'
  <2> SUFFICES ASSUME NEW p \in Levels
               PROVE  waiters'[p] <= Cardinality(Donors(p)')
    BY DEF Counted
  <2>1. waiters[p] \in Nat /\ waiters[p] <= Cardinality(Donors(p))
    BY DEF Counted
  <2>2. CASE Prio[t] = p
    <3>1. waiters'[p] = IF waiters[p] > 0 THEN waiters[p] - 1 ELSE 0
      BY <1>5, <2>2 DEF note_acquired, remove_waiter
    <3>2. Donors(p)' = Donors(p) \ {t}
      BY ZenonT(30), <1>5, <2>2 DEF note_acquired, Donors, Armed
    <3>3. Cardinality(Donors(p) \ {t}) \in Nat
           /\ Cardinality(Donors(p) \ {t}) >= Cardinality(Donors(p)) - 1
      <4>1. CASE t \in Donors(p)
        <5>1. /\ IsFiniteSet(Donors(p) \ {t})
              /\ Cardinality(Donors(p) \ {t}) = Cardinality(Donors(p)) - 1
          BY ZenonT(30), <4>1, DonorsFinite, FS_RemoveElement
        <5>2. Cardinality(Donors(p) \ {t}) \in Nat
          BY <5>1, FS_CardinalityType
        <5> QED
          BY <5>1, <5>2, DonorsFinite
      <4>2. CASE t \notin Donors(p)
        <5>1. Donors(p) \ {t} = Donors(p)
          BY ZenonT(30), <4>2
        <5> QED
          BY <5>1, DonorsFinite
      <4> QED
        BY ZenonT(30), <4>1, <4>2
    <3> QED
      BY <2>1, <3>1, <3>2, <3>3, DonorsFinite
  <2>3. CASE Prio[t] # p
    <3>1. Donors(p)' = Donors(p) /\ waiters'[p] = waiters[p]
      BY <1>5, <2>3 DEF note_acquired, Donors, Armed, remove_waiter
    <3> QED
      BY <2>1, <3>1
  <2> QED
    BY <2>2, <2>3
<1> QED
  BY ZenonT(30), <1>2, <1>3, <1>4, <1>5 DEF Next

\* A donation never outlives its donor: the holder runs at its own priority or
\* at that of a thread blocked in lock.
THEOREM NoGhostDonorHolds == Spec => []NoGhostDonor
<1>1. Init => BaseIsHolders /\ Counted
  <2> SUFFICES ASSUME Init PROVE BaseIsHolders /\ Counted
    OBVIOUS
  <2>1. BaseIsHolders
    BY DEF Init, BaseIsHolders
  <2>2. Counted
    BY DonorsFinite DEF Init, Counted
  <2> QED
    BY <2>1, <2>2
<1>2. TypeOK /\ BaseIsHolders /\ Counted => NoGhostDonor
  <2> SUFFICES ASSUME TypeOK, BaseIsHolders, Counted, NEW t \in Threads,
                      at[t] = "holding", effective # Own(t)
               PROVE  \E w \in Threads : Armed(w, effective)
    BY DEF NoGhostDonor, Own
  <2>1. effective \in Levels /\ waiters[effective] > 0
    BY EffectiveIsLeast DEF BaseIsHolders
  <2>2. Cardinality(Donors(effective)) > 0
    BY <2>1, DonorsFinite DEF Counted, TypeOK
  <2>3. Donors(effective) # {}
    BY <2>2, FS_EmptySet
  <2> QED
    BY <2>3 DEF Donors
<1> QED
  BY <1>1, <1>2, TypeCorrect, BaseStep, CountedStep, PTL DEF Spec

-----------------------------------------------------------------------------
(* No inversion, when no two threads registered the same priority: then the  *)
(* multiset is exactly the priorities of the blocked threads.                *)

DistinctPriorities ==
  \A t, w \in Threads : Registered(t) /\ Prio[t] = Prio[w] => t = w

Exact ==
  \A p \in Levels : waiters[p] = IF \E t \in Threads : Armed(t, p) THEN 1 ELSE 0

LEMMA ExactStep ==
  ASSUME DistinctPriorities
  PROVE  TypeOK /\ Exact /\ [Next]_vars => Exact'
<1> SUFFICES ASSUME TypeOK, Exact, [Next]_vars PROVE Exact'
  OBVIOUS
<1> USE DEF TypeOK, Places, Go, Registered
<1>1. ASSUME UNCHANGED waiters,
             \A t \in Threads : \A p \in Levels : Armed(t, p)' <=> Armed(t, p)
      PROVE  Exact'
  BY <1>1 DEF Exact
<1>2. CASE UNCHANGED vars
  BY ZenonT(30), <1>1, <1>2 DEF vars, Armed
<1>3. ASSUME NEW t \in Threads,
             \/ try_lock(t) \/ lock_contended(t) \/ lock_granted(t) \/ unlock(t)
             \/ refresh_holder_base(t) \/ wait(t) \/ wait_returns(t)
      PROVE  Exact'
  BY ZenonT(30), <1>1, <1>3 DEF try_lock, lock_contended, lock_granted, unlock,
                    refresh_holder_base, wait, wait_returns, Armed
<1>4. ASSUME NEW t \in Threads, lock_arm(t) \/ note_acquired(t) PROVE Exact'
  <2> SUFFICES ASSUME NEW p \in Levels
               PROVE  waiters'[p] = IF \E w \in Threads : Armed(w, p)' THEN 1 ELSE 0
    BY DEF Exact
  <2>1. waiters[p] = IF \E w \in Threads : Armed(w, p) THEN 1 ELSE 0
    BY DEF Exact
  <2>2. \A w \in Threads : w # t => (Armed(w, p)' <=> Armed(w, p))
    BY <1>4 DEF lock_arm, note_acquired, Armed
  <2>3. CASE Prio[t] # p
    <3>1. waiters'[p] = waiters[p] /\ ~Armed(t, p) /\ ~Armed(t, p)'
      BY ZenonT(30), <1>4, <2>3 DEF lock_arm, note_acquired, add_waiter, remove_waiter, Armed
    <3> QED
      BY ZenonT(30), <2>1, <2>2, <3>1
  <2>4. CASE Prio[t] = p
    <3>1. \A w \in Threads : w # t => ~Armed(w, p)
      BY <2>4 DEF DistinctPriorities, Armed
    <3>2. CASE lock_arm(t)
      <4>1. ~Armed(t, p) /\ Armed(t, p)' /\ waiters'[p] = waiters[p] + 1
        BY <2>4, <3>2 DEF lock_arm, add_waiter, Armed
      <4> QED
        BY <2>1, <2>2, <3>1, <4>1
    <3>3. CASE note_acquired(t)
      <4>1. ~Armed(t, p)' /\ waiters'[p] = IF waiters[p] > 0 THEN waiters[p] - 1 ELSE 0
        BY <2>4, <3>3 DEF note_acquired, remove_waiter, Armed
      <4> QED
        BY <2>1, <2>2, <3>1, <4>1
    <3> QED
      BY ZenonT(30), <1>4, <3>2, <3>3
  <2> QED
    BY <2>3, <2>4
<1> QED
  BY <1>2, <1>3, <1>4 DEF Next

\* With distinct registered priorities the holder never runs below a thread
\* that is blocked in lock.
THEOREM DistinctNoInversion == DistinctPriorities => (Spec => []NoInversion)
<1> SUFFICES ASSUME DistinctPriorities PROVE Spec => []NoInversion
  OBVIOUS
<1>1. Init => Exact
  BY DEF Init, Exact, Armed
<1>2. TypeOK /\ Exact /\ [Next]_vars => Exact'
  BY ExactStep
<1>3. TypeOK /\ Exact => NoInversion
  <2> SUFFICES ASSUME TypeOK, Exact, NEW w \in Threads,
                      at[w] = "blocked", Registered(w)
               PROVE  effective <= Prio[w]
    BY DEF NoInversion
  <2>1. Prio[w] \in Levels /\ Armed(w, Prio[w])
    BY DEF Registered, Armed
  <2>2. waiters[Prio[w]] = 1
    BY <2>1 DEF Exact
  <2> QED
    BY <2>1, <2>2, EffectiveIsLeast
<1> QED
  BY <1>1, <1>2, <1>3, TypeCorrect, PTL DEF Spec

=============================================================================
