------------------------ MODULE UsbPlacementProofs -------------------------
(***************************************************************************)
(* What the operations of UsbRouting keep true of the devices, their       *)
(* places and the announcements on their way, for any paths, guests,       *)
(* device kinds and numbers of ports.                                      *)
(***************************************************************************)
EXTENDS UsbRouting, WellFoundedInduction, TLAPS

-----------------------------------------------------------------------------
(* UsbRouting: functions and root-hub ports *)

LEMMA PutFacts ==
  ASSUME NEW f, NEW k, NEW v
  PROVE  /\ DOMAIN put(f, k, v) = DOMAIN f \cup {k}
         /\ put(f, k, v)[k] = v
         /\ \A i \in DOMAIN f : i # k => put(f, k, v)[i] = f[i]
BY DEF put

LEMMA DropFacts ==
  ASSUME NEW f, NEW k
  PROVE  /\ DOMAIN drop(f, k) = DOMAIN f \ {k}
         /\ \A i \in DOMAIN f : i # k => drop(f, k)[i] = f[i]
BY DEF drop

Spots == [guest : Guests, port : Hub]
At(h, s) == h[s.guest][s.port]
SetPort(h, s, v) == [h EXCEPT ![s.guest][s.port] = v]
HubTyped(h) == h \in [Guests -> [Hub -> Int]]

LEMMA SetPortFacts ==
  ASSUME NEW h, HubTyped(h), NEW s \in Spots, NEW v \in Int
  PROVE  /\ HubTyped(SetPort(h, s, v))
         /\ At(SetPort(h, s, v), s) = v
         /\ \A t \in Spots : t # s => At(SetPort(h, s, v), t) = At(h, t)
<1>1. HubTyped(SetPort(h, s, v)) /\ At(SetPort(h, s, v), s) = v
  BY DEF SetPort, HubTyped, Spots, At
<1>2. ASSUME NEW t \in Spots, t # s PROVE At(SetPort(h, s, v), t) = At(h, t)
  <2>1. t.guest # s.guest \/ t.port # s.port
    BY <1>2 DEF Spots
  <2> QED
    BY <2>1 DEF SetPort, HubTyped, Spots, At
<1> QED
  BY <1>1, <1>2

LEMMA Marks == Free \in Int /\ Stuck \in Int /\ Free # Stuck
BY DEF Free, Stuck

-----------------------------------------------------------------------------
(* UsbRouting: placements f against the ports h *)

Fits(f) == \A a \in DOMAIN f : f[a] \in Spots /\ a \in Int /\ a # Free /\ a # Stuck

\* Every placed device is on its port, or that port is stuck; no two share one; and a
\* port that is neither free nor stuck holds the device placed there.
Clean(h, f) ==
  /\ \A a \in DOMAIN f : At(h, f[a]) \in {a, Stuck}
  /\ \A a, b \in DOMAIN f : f[a] = f[b] => a = b
  /\ \A s \in Spots : At(h, s) \notin {Free, Stuck} =>
       At(h, s) \in DOMAIN f /\ f[At(h, s)] = s

\* A stuck port where no device is placed: no attach takes it and no detach frees it.
Dead(h, f) == \E s \in Spots : At(h, s) = Stuck /\ \A a \in DOMAIN f : f[a] # s

\* A device not placed is placed on a free port.
LEMMA PlaceKeeps ==
  ASSUME NEW h, HubTyped(h), NEW f, Fits(f), Dead(h, f) \/ Clean(h, f),
         NEW a \in Int, a # Free, a # Stuck, a \notin DOMAIN f, NEW s \in Spots, At(h, s) = Free
  PROVE  LET i == SetPort(h, s, a)
             r == put(f, a, s)
         IN HubTyped(i) /\ Fits(r) /\ (Dead(i, r) \/ Clean(i, r))
<1> DEFINE i == SetPort(h, s, a)
           r == put(f, a, s)
<1>1. /\ HubTyped(i) /\ At(i, s) = a /\ \A t \in Spots : t # s => At(i, t) = At(h, t)
  BY SetPortFacts
<1>2. /\ DOMAIN r = DOMAIN f \cup {a} /\ r[a] = s /\ \A b \in DOMAIN f : r[b] = f[b]
  <2>1. \A b \in DOMAIN f : b # a
    OBVIOUS
  <2> QED
    BY <2>1 DEF put
<1> HIDE DEF i, r
<1>3. Fits(r)
  BY <1>2 DEF Fits
<1>4. ASSUME Dead(h, f) PROVE Dead(i, r)
  <2>1. PICK t \in Spots : At(h, t) = Stuck /\ \A b \in DOMAIN f : f[b] # t
    BY <1>4 DEF Dead
  <2>2. At(i, t) = Stuck /\ \A b \in DOMAIN r : r[b] # t
    BY <1>1, <1>2, <2>1, Marks
  <2> QED
    BY <2>2 DEF Dead
<1>5. ASSUME Clean(h, f) PROVE Clean(i, r)
  <2>1. \A b \in DOMAIN f : f[b] # s /\ f[b] \in Spots
    BY <1>5, Marks DEF Clean, Fits
  <2>2. \A b \in DOMAIN r : At(i, r[b]) \in {b, Stuck}
    BY <1>1, <1>2, <1>5, <2>1 DEF Clean
  <2>3. \A b, c \in DOMAIN r : r[b] = r[c] => b = c
    BY <1>2, <1>5, <2>1 DEF Clean
  <2>4. \A t \in Spots : At(i, t) \notin {Free, Stuck} =>
          At(i, t) \in DOMAIN r /\ r[At(i, t)] = t
    BY <1>1, <1>2, <1>5 DEF Clean
  <2> QED
    BY ZenonT(30), <2>2, <2>3, <2>4 DEF Clean
<1> QED
  BY <1>1, <1>3, <1>4, <1>5 DEF i, r

\* An attach reports failure and leaves the port it took stuck.
LEMMA StickKeeps ==
  ASSUME NEW h, HubTyped(h), NEW f, Fits(f), Dead(h, f) \/ Clean(h, f),
         NEW s \in Spots, At(h, s) = Free
  PROVE  LET i == SetPort(h, s, Stuck) IN HubTyped(i) /\ Dead(i, f)
<1> DEFINE i == SetPort(h, s, Stuck)
<1>1. /\ HubTyped(i) /\ At(i, s) = Stuck /\ \A t \in Spots : t # s => At(i, t) = At(h, t)
  BY SetPortFacts, Marks
<1> HIDE DEF i
<1>2. ASSUME Dead(h, f) PROVE Dead(i, f)
  <2>1. PICK t \in Spots : At(h, t) = Stuck /\ \A b \in DOMAIN f : f[b] # t
    BY <1>2 DEF Dead
  <2>2. At(i, t) = Stuck
    BY <1>1, <2>1, Marks
  <2> QED
    BY <2>1, <2>2 DEF Dead
<1>3. ASSUME Clean(h, f) PROVE Dead(i, f)
  <2>1. \A b \in DOMAIN f : f[b] # s
    BY <1>3, Marks DEF Clean, Fits
  <2> QED
    BY ZenonT(30), <1>1, <2>1 DEF Dead
<1> QED
  BY <1>1, <1>2, <1>3 DEF i

\* A placed device is taken off its port.
LEMMA RemoveKeeps ==
  ASSUME NEW h, HubTyped(h), NEW f, Fits(f), Dead(h, f) \/ Clean(h, f), NEW a \in DOMAIN f
  PROVE  LET i == SetPort(h, f[a], Free)
             r == drop(f, a)
         IN /\ HubTyped(i) /\ Fits(r) /\ At(i, f[a]) = Free
            /\ Dead(h, f) => Dead(i, r)
            /\ Clean(h, f) => Clean(i, r)
<1> DEFINE i == SetPort(h, f[a], Free)
           r == drop(f, a)
<1>0. f[a] \in Spots
  BY DEF Fits
<1>1. /\ HubTyped(i) /\ At(i, f[a]) = Free
      /\ \A t \in Spots : t # f[a] => At(i, t) = At(h, t)
  BY <1>0, SetPortFacts, Marks
<1>2. /\ DOMAIN r = DOMAIN f \ {a} /\ \A b \in DOMAIN f : b # a => r[b] = f[b]
  BY ZenonT(30), DropFacts
<1> HIDE DEF i, r
<1>3. Fits(r)
  BY <1>2 DEF Fits
<1>4. ASSUME Dead(h, f) PROVE Dead(i, r)
  BY <1>1, <1>2, <1>4 DEF Dead
<1>5. ASSUME Clean(h, f) PROVE Clean(i, r)
  <2>1. \A b \in DOMAIN f : b # a => f[b] # f[a] /\ f[b] \in Spots
    BY <1>5 DEF Clean, Fits
  <2>2. \A b \in DOMAIN r : At(i, r[b]) \in {b, Stuck}
    BY <1>1, <1>2, <1>5, <2>1 DEF Clean
  <2>3. \A b, c \in DOMAIN r : r[b] = r[c] => b = c
    BY <1>2, <1>5 DEF Clean
  <2>4. ASSUME NEW t \in Spots, At(i, t) \notin {Free, Stuck}
        PROVE  At(i, t) \in DOMAIN r /\ r[At(i, t)] = t
    <3>1. t # f[a] /\ At(i, t) = At(h, t)
      BY <1>1, <2>4
    <3>2. At(h, t) \in DOMAIN f /\ f[At(h, t)] = t
      BY <1>5, <2>4, <3>1 DEF Clean
    <3> QED
      BY <1>2, <3>1, <3>2
  <2> QED
    BY ZenonT(30), <2>2, <2>3, <2>4 DEF Clean
<1> QED
  BY <1>1, <1>3, <1>4, <1>5 DEF i, r

-----------------------------------------------------------------------------
(* UsbRouting: the registry's operations *)

Fields == {"devices", "next_address", "pending", "events", "by_port", "rules", "next_id",
           "default_guest", "assigned", "placed", "kind", "known", "hub", "moves"}
IsUsb(d) == DOMAIN d = Fields

\* What placing, moving and detaching devices leaves alone.
Bus(d) == <<d.devices, d.next_address, d.pending, d.events, d.by_port, d.kind>>

PortsFor(g, k) == {[guest |-> g, port |-> <<k, i>>] : i \in 1 .. HubPorts}

LEMMA PortsForSpots ==
  ASSUME NEW g \in Guests, NEW k \in Kinds, NEW s \in PortsFor(g, k)
  PROVE  s \in Spots /\ s.guest = g /\ s.port # <<>> /\ s = [guest |-> g, port |-> s.port]
<1>1. PICK i \in 1 .. HubPorts : s = [guest |-> g, port |-> <<k, i>>]
  BY DEF PortsFor
<1>2. <<k, i>> \in Hub /\ <<k, i>> # <<>>
  BY DEF Hub
<1> QED
  BY <1>1, <1>2 DEF Spots

LEMMA LowestOf ==
  ASSUME NEW S, S \subseteq Nat, S # {}
  PROVE  (CHOOSE i \in S : \A j \in S : i <= j) \in S
<1> DEFINE R == {ss \in Nat \X Nat : ss[1] < ss[2]}
<1>1. IsWellFoundedOn(R, Nat)
  BY ZenonT(30), NatLessThanWellFounded DEF OpToRel
<1>2. PICK i \in S : \A j \in S : <<j, i>> \notin R
  <2> HIDE DEF R
  <2> QED
    BY ZenonT(30), <1>1, WFMin
<1>3. ASSUME NEW j \in S PROVE i <= j
  <2>1. <<j, i>> \in Nat \X Nat /\ <<j, i>>[1] = j /\ <<j, i>>[2] = i
    OBVIOUS
  <2>2. ~ (<<j, i>>[1] < <<j, i>>[2])
    BY ZenonT(30), <1>2, <2>1
  <2> QED
    BY <2>1, <2>2
<1> QED
  BY ZenonT(30), <1>3

\* connect_to_guest finds no free port, takes one, or leaves one stuck.
Connected(d, g, a, c) ==
  \/ /\ c.port = <<>> /\ c.d = d
     /\ g \in Guests => \A s \in PortsFor(g, d.kind[a]) : At(d.hub, s) # Free
  \/ /\ g \in Guests
     /\ \E s \in PortsFor(g, d.kind[a]), v \in {a, Stuck} :
          /\ At(d.hub, s) = Free
          /\ c.port = IF v = a THEN s.port ELSE <<>>
          /\ IsUsb(c.d) /\ Bus(c.d) = Bus(d)
          /\ c.d.placed = d.placed /\ c.d.assigned = d.assigned
          /\ c.d.hub = SetPort(d.hub, s, v)

LEMMA ConnectFacts ==
  ASSUME UsbRoutingAssumption, NEW d, IsUsb(d), HubTyped(d.hub), NEW a, a # Stuck,
         d.kind[a] \in Kinds, NEW g, NEW posted \in BOOLEAN
  PROVE  Connected(d, g, a, connect_to_guest(d, g, a, posted))
<1> DEFINE k == d.kind[a]
           free == IF g \notin Guests THEN {}
                   ELSE {i \in 1 .. HubPorts : d.hub[g][<<k, i>>] = Free}
           low == CHOOSE i \in free : \A j \in free : i <= j
           p == <<k, low>>
           c == connect_to_guest(d, g, a, posted)
<1>1. CASE free = {}
  <2>1. c.port = <<>> /\ c.d = d
    BY <1>1 DEF connect_to_guest
  <2>2. ASSUME g \in Guests, NEW s \in PortsFor(g, k) PROVE At(d.hub, s) # Free
    BY <1>1, <2>2 DEF PortsFor, At
  <2> HIDE DEF c
  <2>3. Connected(d, g, a, c)
    BY <2>1, <2>2 DEF Connected
  <2> QED
    BY <2>3 DEF c
<1>2. CASE free # {}
  <2>1. g \in Guests /\ low \in free
    <3>1. free \subseteq Nat
      OBVIOUS
    <3>2. g \in Guests
      BY ZenonT(30), <1>2
    <3> HIDE DEF free
    <3> QED
      BY ZenonT(30), <1>2, <3>1, <3>2, LowestOf
  <2>2. low \in 1 .. HubPorts /\ d.hub[g][p] = Free
    <3> HIDE DEF low
    <3> QED
      BY <2>1
  <2> DEFINE s == [guest |-> g, port |-> p]
  <2>3. s \in PortsFor(g, k) /\ At(d.hub, s) = Free
    BY ZenonT(30), <2>2 DEF PortsFor, At
  <2>4. c = IF posted THEN [d |-> [d EXCEPT !.hub[g][p] = a], port |-> p]
            ELSE [d |-> [d EXCEPT !.hub[g][p] = Stuck], port |-> <<>>]
    BY ZenonT(30), <1>2 DEF connect_to_guest
  <2> HIDE DEF p, c
  <2>5. ASSUME NEW v, NEW e, e = [d EXCEPT !.hub[g][p] = v]
        PROVE  /\ IsUsb(e) /\ Bus(e) = Bus(d)
               /\ e.placed = d.placed /\ e.assigned = d.assigned
               /\ e.hub = SetPort(d.hub, s, v)
    BY <2>5 DEF IsUsb, Fields, Bus, SetPort
  <2>6. CASE posted
    <3>1. c.port = s.port /\ c.d = [d EXCEPT !.hub[g][p] = a]
      BY ZenonT(30), <2>4, <2>6
    <3>2. Connected(d, g, a, c)
      BY ZenonT(30), <2>1, <2>3, <2>5, <3>1 DEF Connected
    <3> QED
      BY <3>2 DEF c
  <2>7. CASE ~posted
    <3>1. c.port = <<>> /\ c.d = [d EXCEPT !.hub[g][p] = Stuck]
      BY <2>4, <2>7
    <3>2. Connected(d, g, a, c)
      BY ZenonT(30), <2>1, <2>3, <2>5, <3>1 DEF Connected
    <3> QED
      BY <3>2 DEF c
  <2> QED
    BY <2>6, <2>7
<1> QED
  BY <1>1, <1>2

\* Placements, ports and assignments agree, unless a port is dead.
Agree(d) ==
  /\ HubTyped(d.hub) /\ Fits(d.placed) /\ (Dead(d.hub, d.placed) \/ Clean(d.hub, d.placed))
  /\ DOMAIN d.assigned = DOMAIN d.placed
  /\ \A a \in DOMAIN d.placed : /\ d.assigned[a] = d.placed[a].guest
                                /\ a \in DOMAIN d.kind
                                /\ d.placed[a] \in PortsFor(d.placed[a].guest, d.kind[a])

KindsTyped(d) ==
  \A a \in DOMAIN d.kind : a \in Nat /\ a # 0 /\ a < d.next_address /\ d.kind[a] \in Kinds

\* Learning of devices that have no place changes no place.
LEMMA AgreeKept ==
  ASSUME NEW d, NEW e, Agree(d), e.hub = d.hub, e.placed = d.placed, e.assigned = d.assigned,
         \A a \in DOMAIN d.kind : a \in DOMAIN e.kind /\ e.kind[a] = d.kind[a]
  PROVE  Agree(e)
BY ZenonT(30) DEF Agree

LEMMA Addresses ==
  ASSUME NEW d, KindsTyped(d), NEW a \in DOMAIN d.kind
  PROVE  a \in Int /\ a # Free /\ a # Stuck /\ d.kind[a] \in Kinds
BY DEF KindsTyped, Free, Stuck

LEMMA AttachKeeps ==
  ASSUME UsbRoutingAssumption, NEW d, IsUsb(d), KindsTyped(d), Agree(d),
         NEW a \in DOMAIN d.kind, a \notin DOMAIN d.placed, NEW posted \in BOOLEAN,
         NEW e, e = attach_with_model(d, a, posted)
  PROVE  /\ IsUsb(e) /\ Bus(e) = Bus(d) /\ Agree(e)
         /\ DOMAIN e.placed \subseteq DOMAIN d.placed \cup {a}
<1> DEFINE g == route(d, d.kind[a])
           c == connect_to_guest(d, g, a, posted)
<1>0. a \in Int /\ a # Free /\ a # Stuck /\ d.kind[a] \in Kinds
  BY Addresses
<1>1. e = IF g = None \/ c.port = <<>> THEN c.d
          ELSE [c.d EXCEPT !.assigned = put(@, a, g),
                           !.placed = put(@, a, [guest |-> g, port |-> c.port])]
  BY DEF attach_with_model
<1>2. None \notin Guests
  BY DEF None, UsbRoutingAssumption
<1>3. Connected(d, g, a, c)
  BY <1>0, ConnectFacts DEF Agree
<1> HIDE DEF g, c
<1>4. CASE c.port = <<>> /\ c.d = d
  BY <1>1, <1>4
<1>5. ASSUME g \in Guests, NEW s \in PortsFor(g, d.kind[a]), At(d.hub, s) = Free,
             IsUsb(c.d), Bus(c.d) = Bus(d), c.d.placed = d.placed, c.d.assigned = d.assigned,
             NEW v \in {a, Stuck}, c.port = (IF v = a THEN s.port ELSE <<>>),
             c.d.hub = SetPort(d.hub, s, v)
      PROVE  IsUsb(e) /\ Bus(e) = Bus(d) /\ Agree(e)
             /\ DOMAIN e.placed \subseteq DOMAIN d.placed \cup {a}
  <2>0. s \in Spots /\ s.guest = g /\ s.port # <<>> /\ s = [guest |-> g, port |-> s.port]
    BY <1>0, <1>5, PortsForSpots
  <2>00. c.d.kind = d.kind
    BY <1>5 DEF Bus
  <2>1. CASE v = Stuck
    <3>1. e = c.d
      BY <1>0, <1>1, <1>5, <2>1
    <3>2. HubTyped(e.hub) /\ Dead(e.hub, e.placed)
      BY <1>5, <2>0, <2>1, <3>1, StickKeeps DEF Agree
    <3>3. Agree(e)
      BY <1>5, <2>00, <3>1, <3>2 DEF Agree
    <3> QED
      BY <1>5, <3>1, <3>3
  <2>2. CASE v = a
    <3>1. e = [c.d EXCEPT !.assigned = put(@, a, g), !.placed = put(@, a, s)]
      BY ZenonT(30), <1>1, <1>2, <1>5, <2>0, <2>2
    <3>2. /\ IsUsb(e) /\ Bus(e) = Bus(d) /\ e.hub = SetPort(d.hub, s, a)
          /\ e.placed = put(d.placed, a, s) /\ e.assigned = put(d.assigned, a, g)
      BY <1>5, <2>2, <3>1 DEF IsUsb, Fields, Bus
    <3>3. /\ HubTyped(e.hub) /\ Fits(e.placed)
          /\ Dead(e.hub, e.placed) \/ Clean(e.hub, e.placed)
      BY <1>0, <1>5, <2>0, <3>2, PlaceKeeps DEF Agree
    <3>4. /\ DOMAIN e.placed = DOMAIN d.placed \cup {a}
          /\ DOMAIN e.assigned = DOMAIN d.assigned \cup {a}
          /\ e.placed[a] = s /\ e.assigned[a] = g
          /\ \A b \in DOMAIN d.placed : b # a => e.placed[b] = d.placed[b]
          /\ \A b \in DOMAIN d.assigned : b # a => e.assigned[b] = d.assigned[b]
      BY <3>2 DEF put
    <3>5. e.kind = d.kind
      BY <3>2 DEF Bus
    <3>6. Agree(e)
      BY <1>5, <2>0, <3>3, <3>4, <3>5 DEF Agree
    <3> QED
      BY <3>2, <3>4, <3>6
  <2> QED
    BY <2>1, <2>2
<1> QED
  BY <1>3, <1>4, <1>5 DEF Connected

LEMMA DetachKeeps ==
  ASSUME NEW d, IsUsb(d), Agree(d), NEW a, NEW e, e = detach(d, a)
  PROVE  IsUsb(e) /\ Bus(e) = Bus(d) /\ Agree(e) /\ DOMAIN e.placed = DOMAIN d.placed \ {a}
<1>1. CASE a \notin DOMAIN d.placed
  BY <1>1 DEF detach
<1>2. CASE a \in DOMAIN d.placed
  <2> DEFINE s == d.placed[a]
             f == disconnect_port(d, s)
  <2>1. /\ IsUsb(f) /\ Bus(f) = Bus(d) /\ f.hub = SetPort(d.hub, s, Free)
        /\ f.placed = d.placed /\ f.assigned = d.assigned
    BY DEF disconnect_port, IsUsb, Fields, Bus, SetPort
  <2>2. e = [f EXCEPT !.placed = drop(@, a), !.assigned = drop(@, a)]
    BY <1>2 DEF detach
  <2> HIDE DEF f
  <2>3. /\ IsUsb(e) /\ Bus(e) = Bus(d) /\ e.hub = SetPort(d.hub, s, Free)
        /\ e.placed = drop(d.placed, a) /\ e.assigned = drop(d.assigned, a)
    BY <2>1, <2>2 DEF IsUsb, Fields, Bus
  <2>4. /\ HubTyped(e.hub) /\ Fits(e.placed)
        /\ Dead(e.hub, e.placed) \/ Clean(e.hub, e.placed)
    BY <1>2, <2>3, RemoveKeeps DEF Agree
  <2>5. /\ DOMAIN e.placed = DOMAIN d.placed \ {a} /\ DOMAIN e.assigned = DOMAIN d.assigned \ {a}
        /\ \A b \in DOMAIN d.placed : b # a => e.placed[b] = d.placed[b]
        /\ \A b \in DOMAIN d.assigned : b # a => e.assigned[b] = d.assigned[b]
    BY <2>3 DEF drop
  <2>6. e.kind = d.kind
    BY <2>3 DEF Bus
  <2>7. Agree(e)
    BY <2>4, <2>5, <2>6 DEF Agree
  <2> QED
    BY <2>3, <2>5, <2>7
<1> QED
  BY <1>1, <1>2

\* A device lifted off its port for a move: its old port is free, or was left stuck.
Lifted(h, f, a) == SetPort(h, f[a], Free)
Blocked(h, f, a) == SetPort(Lifted(h, f, a), f[a], Stuck)

\* The move failed so far: a port is dead, or nothing but the old port changed.
Failing(h, f, a, i) ==
  /\ HubTyped(i)
  /\ Dead(i, f) \/ (Clean(h, f) /\ i \in {Lifted(h, f, a), Blocked(h, f, a)})

LEMMA LiftFacts ==
  ASSUME NEW h, HubTyped(h), NEW f, Fits(f), NEW a \in DOMAIN f
  PROVE  /\ f[a] \in Spots /\ HubTyped(Lifted(h, f, a)) /\ HubTyped(Blocked(h, f, a))
         /\ At(Lifted(h, f, a), f[a]) = Free /\ At(Blocked(h, f, a), f[a]) = Stuck
         /\ \A t \in Spots : t # f[a] => /\ At(Lifted(h, f, a), t) = At(h, t)
                                         /\ At(Blocked(h, f, a), t) = At(h, t)
<1>1. f[a] \in Spots
  BY DEF Fits
<1>2. /\ HubTyped(Lifted(h, f, a)) /\ At(Lifted(h, f, a), f[a]) = Free
      /\ \A t \in Spots : t # f[a] => At(Lifted(h, f, a), t) = At(h, t)
  BY <1>1, Marks, SetPortFacts DEF Lifted
<1>3. /\ HubTyped(Blocked(h, f, a)) /\ At(Blocked(h, f, a), f[a]) = Stuck
      /\ \A t \in Spots : t # f[a] => At(Blocked(h, f, a), t) = At(Lifted(h, f, a), t)
  BY <1>1, <1>2, Marks, SetPortFacts DEF Blocked
<1> QED
  BY <1>1, <1>2, <1>3

LEMMA LiftFails ==
  ASSUME NEW h, HubTyped(h), NEW f, Fits(f), NEW a \in DOMAIN f, Dead(h, f) \/ Clean(h, f)
  PROVE  Failing(h, f, a, Lifted(h, f, a))
<1>1. ASSUME Dead(h, f) PROVE Dead(Lifted(h, f, a), f)
  BY <1>1, LiftFacts DEF Dead
<1> QED
  BY <1>1, LiftFacts DEF Failing

LEMMA StickFails ==
  ASSUME NEW h, HubTyped(h), NEW f, Fits(f), NEW a \in DOMAIN f,
         NEW i, Failing(h, f, a, i), NEW s \in Spots, At(i, s) = Free
  PROVE  \/ Failing(h, f, a, SetPort(i, s, Stuck)) /\ At(SetPort(i, s, Stuck), f[a]) # Free
         \/ Dead(SetPort(i, s, Stuck), f)
<1> DEFINE j == SetPort(i, s, Stuck)
<1>1. HubTyped(j) /\ At(j, s) = Stuck /\ \A t \in Spots : t # s => At(j, t) = At(i, t)
  BY Marks, SetPortFacts DEF Failing
<1>2. ASSUME Dead(i, f) PROVE Dead(j, f)
  <2> HIDE DEF j
  <2> QED
    BY <1>1, <1>2, Marks DEF Dead
<1>3. ASSUME Clean(h, f), i = Lifted(h, f, a), s = f[a]
      PROVE  Failing(h, f, a, j) /\ At(j, f[a]) # Free
  BY <1>1, <1>3, Marks DEF Failing, Blocked
<1>4. ASSUME Clean(h, f), i \in {Lifted(h, f, a), Blocked(h, f, a)}, s # f[a]
      PROVE  Dead(j, f)
  <2>1. At(h, s) = Free
    BY <1>4, LiftFacts
  <2>2. \A b \in DOMAIN f : f[b] # s
    BY <1>4, <2>1, Marks DEF Clean, Fits
  <2> HIDE DEF j
  <2> QED
    BY <1>1, <2>2 DEF Dead
<1>5. i = Blocked(h, f, a) => s # f[a]
  BY LiftFacts, Marks
<1> HIDE DEF j
<1>6. \/ Failing(h, f, a, j) /\ At(j, f[a]) # Free
      \/ Dead(j, f)
  BY <1>2, <1>3, <1>4, <1>5 DEF Failing
<1> QED
  BY <1>6 DEF j

LEMMA FailKeeps ==
  ASSUME NEW h, HubTyped(h), NEW f, Fits(f), NEW a \in DOMAIN f,
         NEW i, Failing(h, f, a, i), At(i, f[a]) # Free
  PROVE  Dead(i, f) \/ Clean(i, f)
<1>1. CASE Dead(i, f)
  BY <1>1
<1>2. CASE Clean(h, f) /\ i = Blocked(h, f, a)
  <2>1. /\ f[a] \in Spots /\ At(i, f[a]) = Stuck
        /\ \A t \in Spots : t # f[a] => At(i, t) = At(h, t)
    BY <1>2, LiftFacts
  <2>2. \A b \in DOMAIN f : At(i, f[b]) \in {b, Stuck}
    BY <1>2, <2>1 DEF Clean, Fits
  <2>3. \A b, c \in DOMAIN f : f[b] = f[c] => b = c
    BY <1>2 DEF Clean
  <2>4. \A t \in Spots : At(i, t) \notin {Free, Stuck} =>
          At(i, t) \in DOMAIN f /\ f[At(i, t)] = t
    BY <1>2, <2>1 DEF Clean
  <2>5. Clean(i, f)
    BY ZenonT(30), <2>2, <2>3, <2>4 DEF Clean
  <2> QED
    BY <2>5
<1> QED
  BY <1>1, <1>2, LiftFacts DEF Failing

\* The move ends with the device on a free port of a guest.
LEMMA SettleKeeps ==
  ASSUME NEW d, KindsTyped(d), Agree(d), NEW a \in DOMAIN d.placed,
         NEW i, HubTyped(i),
         Dead(i, drop(d.placed, a)) \/ Clean(i, drop(d.placed, a)),
         NEW g \in Guests, NEW s \in PortsFor(g, d.kind[a]), At(i, s) = Free,
         NEW e, e.hub = SetPort(i, s, a), e.kind = d.kind, e.placed = [d.placed EXCEPT ![a] = s],
         DOMAIN e.assigned = DOMAIN d.assigned, e.assigned[a] = g,
         \A b \in DOMAIN d.assigned : b # a => e.assigned[b] = d.assigned[b]
  PROVE  Agree(e) /\ DOMAIN e.placed = DOMAIN d.placed
<1>1. a \in DOMAIN d.kind /\ Fits(d.placed) /\ DOMAIN d.assigned = DOMAIN d.placed
  BY DEF Agree
<1>2. a \in Int /\ a # Free /\ a # Stuck /\ d.kind[a] \in Kinds
  BY <1>1, Addresses
<1>3. s \in Spots /\ s.guest = g
  BY <1>2, PortsForSpots
<1>4. Fits(drop(d.placed, a)) /\ a \notin DOMAIN drop(d.placed, a)
  BY <1>1 DEF Fits, drop
<1>5. e.placed = put(drop(d.placed, a), a, s)
  BY ZenonT(30) DEF put, drop
<1>6. /\ HubTyped(e.hub) /\ Fits(e.placed)
      /\ Dead(e.hub, e.placed) \/ Clean(e.hub, e.placed)
  BY <1>2, <1>3, <1>4, <1>5, PlaceKeeps
<1>7. /\ DOMAIN e.placed = DOMAIN d.placed /\ e.placed[a] = s
      /\ \A b \in DOMAIN d.placed : b # a => e.placed[b] = d.placed[b]
  OBVIOUS
<1> QED
  BY <1>1, <1>3, <1>6, <1>7 DEF Agree

LEMMA MoveKeeps ==
  ASSUME UsbRoutingAssumption, NEW d, IsUsb(d), KindsTyped(d), Agree(d),
         NEW a \in DOMAIN d.placed, NEW g, NEW posted \in BOOLEAN, NEW again \in BOOLEAN,
         NEW e, e = reassign(d, a, g, posted, again)
  PROVE  IsUsb(e) /\ Bus(e) = Bus(d) /\ Agree(e) /\ DOMAIN e.placed = DOMAIN d.placed
<1> DEFINE old == d.placed[a]
           l == disconnect_port(d, old)
           c == connect_to_guest(l, g, a, posted)
           back == connect_to_guest(c.d, old.guest, a, again)
           k == d.kind[a]
           h == d.hub
           f == d.placed
<1>1. /\ a \in DOMAIN d.kind /\ Fits(f) /\ HubTyped(h) /\ DOMAIN d.assigned = DOMAIN f
      /\ old \in PortsFor(old.guest, k) /\ d.assigned[a] = old.guest
      /\ Dead(h, f) \/ Clean(h, f)
  BY DEF Agree
<1>2. a # Stuck /\ k \in Kinds /\ old \in Spots /\ old.guest \in Guests
  BY <1>1, Addresses DEF Fits, Spots
<1>3. /\ IsUsb(l) /\ Bus(l) = Bus(d) /\ l.hub = Lifted(h, f, a)
      /\ l.placed = f /\ l.assigned = d.assigned
  BY ZenonT(30) DEF disconnect_port, IsUsb, Fields, Bus, SetPort, Lifted
<1>4. l.kind = d.kind /\ HubTyped(l.hub)
  BY ZenonT(30), <1>1, <1>3, LiftFacts DEF Bus
<1>5. /\ Failing(h, f, a, l.hub) /\ Fits(drop(f, a))
      /\ Dead(l.hub, drop(f, a)) \/ Clean(l.hub, drop(f, a))
  BY ZenonT(30), <1>1, <1>3, LiftFails, RemoveKeeps DEF Lifted
<1>6. e = IF c.port # <<>>
          THEN [c.d EXCEPT !.placed[a] = [guest |-> g, port |-> c.port], !.assigned[a] = g]
          ELSE IF back.port # <<>>
          THEN [back.d EXCEPT !.placed[a] = [guest |-> old.guest, port |-> back.port]]
          ELSE back.d
  BY DEF reassign
<1> HIDE DEF l
<1>7. Connected(l, g, a, c) /\ l.kind[a] = k
  BY <1>2, <1>3, <1>4, ConnectFacts
<1> HIDE DEF c
<1>8. ASSUME IsUsb(c.d), HubTyped(c.d.hub), c.d.kind[a] = k
      PROVE  Connected(c.d, old.guest, a, back)
  BY <1>2, <1>8, ConnectFacts
<1> HIDE DEF back
<1>9. CASE c.port # <<>>
  <2>1. PICK s \in PortsFor(g, k) :
          /\ At(l.hub, s) = Free /\ c.port = s.port /\ g \in Guests
          /\ IsUsb(c.d) /\ Bus(c.d) = Bus(l)
          /\ c.d.placed = l.placed /\ c.d.assigned = l.assigned
          /\ c.d.hub = SetPort(l.hub, s, a)
    BY <1>7, <1>9 DEF Connected
  <2>2. s = [guest |-> g, port |-> s.port]
    BY <1>2, <2>1, PortsForSpots
  <2>3. e = [c.d EXCEPT !.placed[a] = s, !.assigned[a] = g]
    BY ZenonT(30), <1>6, <1>9, <2>1, <2>2
  <2>4. /\ IsUsb(e) /\ Bus(e) = Bus(d) /\ e.hub = SetPort(l.hub, s, a)
        /\ e.placed = [f EXCEPT ![a] = s] /\ e.assigned = [d.assigned EXCEPT ![a] = g]
    BY <1>3, <2>1, <2>3 DEF IsUsb, Fields, Bus
  <2>5. e.kind = d.kind
    BY <2>4 DEF Bus
  <2>6. /\ DOMAIN e.assigned = DOMAIN d.assigned /\ e.assigned[a] = g
        /\ \A b \in DOMAIN d.assigned : b # a => e.assigned[b] = d.assigned[b]
    BY <1>1, <2>4
  <2>7. Agree(e) /\ DOMAIN e.placed = DOMAIN d.placed
    <3>1. g \in Guests /\ s \in PortsFor(g, d.kind[a]) /\ At(l.hub, s) = Free
      BY <2>1
    <3>2. e.hub = SetPort(l.hub, s, a) /\ e.placed = [f EXCEPT ![a] = s]
      BY ZenonT(30), <2>4
    <3> QED
      BY <1>4, <1>5, <2>5, <2>6, <3>1, <3>2, SettleKeeps
  <2> QED
    BY <2>4, <2>7
<1>10. CASE c.port = <<>>
  <2>1. /\ IsUsb(c.d) /\ Bus(c.d) = Bus(d) /\ c.d.placed = f /\ c.d.assigned = d.assigned
        /\ HubTyped(c.d.hub) /\ Failing(h, f, a, c.d.hub)
        /\ Dead(c.d.hub, drop(f, a)) \/ Clean(c.d.hub, drop(f, a))
    <3>1. CASE c.d = l
      BY ZenonT(30), <1>3, <1>4, <1>5, <3>1
    <3>2. CASE c.d # l
      <4>1. PICK s \in PortsFor(g, k) :
              /\ At(l.hub, s) = Free /\ g \in Guests
              /\ IsUsb(c.d) /\ Bus(c.d) = Bus(l)
              /\ c.d.placed = l.placed /\ c.d.assigned = l.assigned
              /\ c.d.hub = SetPort(l.hub, s, Stuck)
        <5>1. \A s \in PortsFor(g, k) : g \in Guests => s.port # <<>>
          BY <1>2, PortsForSpots
        <5> QED
          BY <1>7, <1>10, <3>2, <5>1 DEF Connected
      <4>2. s \in Spots
        BY ZenonT(30), <1>2, <4>1, PortsForSpots
      <4>3. HubTyped(c.d.hub) /\ Dead(c.d.hub, drop(f, a))
        BY ZenonT(30), <1>4, <1>5, <4>1, <4>2, StickKeeps
      <4>4. Failing(h, f, a, c.d.hub)
        BY <1>1, <1>5, <4>1, <4>2, <4>3, StickFails DEF Failing
      <4> QED
        BY <1>3, <4>1, <4>3, <4>4
    <3> QED
      BY ZenonT(30), <3>1, <3>2
  <2>2. c.d.kind[a] = k
    BY <2>1 DEF Bus, k
  <2>3. CASE back.port # <<>>
    <3>1. PICK s \in PortsFor(old.guest, k) :
            /\ At(c.d.hub, s) = Free /\ back.port = s.port
            /\ IsUsb(back.d) /\ Bus(back.d) = Bus(c.d)
            /\ back.d.placed = c.d.placed /\ back.d.assigned = c.d.assigned
            /\ back.d.hub = SetPort(c.d.hub, s, a)
      BY <1>8, <2>1, <2>2, <2>3 DEF Connected
    <3>2. s = [guest |-> old.guest, port |-> s.port]
      BY <1>2, PortsForSpots
    <3>3. e = [back.d EXCEPT !.placed[a] = s]
      BY <1>6, <1>10, <2>3, <3>1, <3>2
    <3>4. /\ IsUsb(e) /\ Bus(e) = Bus(d) /\ e.hub = SetPort(c.d.hub, s, a)
          /\ e.placed = [f EXCEPT ![a] = s] /\ e.assigned = d.assigned
      BY <2>1, <3>1, <3>3 DEF IsUsb, Fields, Bus
    <3>5. e.kind = d.kind
      BY ZenonT(30), <3>4 DEF Bus
    <3>6. Agree(e) /\ DOMAIN e.placed = DOMAIN d.placed
      <4> DEFINE i == c.d.hub
      <4>1. /\ HubTyped(i) /\ (Dead(i, drop(f, a)) \/ Clean(i, drop(f, a)))
            /\ At(i, s) = Free /\ e.hub = SetPort(i, s, a)
        BY <2>1, <3>1, <3>4
      <4>2. old.guest \in Guests /\ s \in PortsFor(old.guest, d.kind[a])
        BY <1>2, <3>1
      <4>3. /\ DOMAIN e.assigned = DOMAIN d.assigned /\ e.assigned[a] = old.guest
            /\ \A b \in DOMAIN d.assigned : b # a => e.assigned[b] = d.assigned[b]
        BY <1>1, <3>4
      <4> HIDE DEF i, old
      <4> QED
        BY <3>4, <3>5, <4>1, <4>2, <4>3, SettleKeeps
    <3> QED
      BY ZenonT(30), <3>4, <3>6
  <2>4. CASE back.port = <<>>
    <3>1. e = back.d
      BY ZenonT(30), <1>6, <1>10, <2>4
    <3>2. /\ IsUsb(e) /\ Bus(e) = Bus(d) /\ e.placed = f /\ e.assigned = d.assigned
          /\ HubTyped(e.hub) /\ (Dead(e.hub, f) \/ Clean(e.hub, f))
      <4>1. CASE back.d = c.d /\ \A s \in PortsFor(old.guest, k) : At(c.d.hub, s) # Free
        <5>1. Dead(c.d.hub, f) \/ Clean(c.d.hub, f)
          BY ZenonT(30), <1>1, <2>1, <4>1, FailKeeps
        <5> QED
          BY ZenonT(30), <2>1, <3>1, <4>1, <5>1
      <4>2. CASE ~ (back.d = c.d /\ \A s \in PortsFor(old.guest, k) : At(c.d.hub, s) # Free)
        <5>1. PICK s \in PortsFor(old.guest, k) :
                /\ At(c.d.hub, s) = Free
                /\ IsUsb(back.d) /\ Bus(back.d) = Bus(c.d)
                /\ back.d.placed = c.d.placed /\ back.d.assigned = c.d.assigned
                /\ back.d.hub = SetPort(c.d.hub, s, Stuck)
          <6>1. \A s \in PortsFor(old.guest, k) : s.port # <<>>
            BY <1>2, PortsForSpots
          <6> QED
            BY ZenonT(30), <1>2, <1>8, <2>1, <2>2, <2>4, <4>2, <6>1 DEF Connected
        <5>2. s \in Spots
          BY ZenonT(30), <1>2, PortsForSpots
        <5>3. HubTyped(back.d.hub)
          BY <2>1, <5>1, <5>2, SetPortFacts, Marks
        <5>4. Dead(back.d.hub, f) \/ Clean(back.d.hub, f)
          <6>1. /\ Failing(h, f, a, c.d.hub) /\ At(c.d.hub, s) = Free
                /\ back.d.hub = SetPort(c.d.hub, s, Stuck)
            BY <2>1, <5>1
          <6> DEFINE i == c.d.hub
                     j == back.d.hub
          <6>2. Failing(h, f, a, i) /\ At(i, s) = Free /\ j = SetPort(i, s, Stuck)
            BY ZenonT(30), <6>1
          <6> HIDE DEF i, j
          <6>3. (Failing(h, f, a, j) /\ At(j, f[a]) # Free) \/ Dead(j, f)
            BY <1>1, <5>2, <6>2, StickFails
          <6>4. Dead(j, f) \/ Clean(j, f)
            BY <1>1, <6>3, FailKeeps
          <6> QED
            BY ZenonT(30), <6>4 DEF j
        <5> QED
          BY ZenonT(30), <2>1, <3>1, <5>1, <5>3, <5>4
      <4> QED
        BY ZenonT(30), <4>1, <4>2
    <3>3. e.kind = d.kind
      BY <3>2 DEF Bus
    <3>4. Agree(e)
      BY <1>1, <3>2, <3>3 DEF Agree
    <3> QED
      BY <3>2, <3>4
  <2> QED
    BY <2>3, <2>4
<1> QED
  BY <1>9, <1>10

-----------------------------------------------------------------------------
(* UsbRouting: announcements on their way from the monitor, whose table is D, to *)
(* the dispatcher, whose view of the ports is B                                   *)

Event == [path : Paths, addr : Nat]
Slots(q) == 1 .. Len(q)
Shows(D, e) ==
  IF e.addr = 0 THEN e.path \notin DOMAIN D ELSE e.path \in DOMAIN D /\ D[e.path] = e.addr
SameAt(B, D, p) == (p \in DOMAIN B <=> p \in DOMAIN D) /\ (p \in DOMAIN B => B[p] = D[p])

\* The last announcement for a path says what the monitor holds.
LastShown(q, D) ==
  \A i \in Slots(q) : (\A j \in Slots(q) : j > i => q[j].path # q[i].path) => Shows(D, q[i])
\* For a path without announcements both agree.
IdleSame(q, B, D) ==
  \A p \in Paths : (\A i \in Slots(q) : q[i].path # p) => SameAt(B, D, p)
\* A connection that is the first announcement for its path finds the path unused.
FirstNew(q, B) ==
  \A i \in Slots(q) : q[i].addr # 0 /\ (\A j \in Slots(q) : j < i => q[j].path # q[i].path) =>
    q[i].path \notin DOMAIN B
\* Between two connections of a path it is disconnected.
Alternate(q) ==
  \A i, j \in Slots(q) :
    i < j /\ q[i].path = q[j].path /\ q[i].addr # 0 /\ q[j].addr # 0 =>
      \E k \in Slots(q) : i < k /\ k < j /\ q[k].path = q[i].path /\ q[k].addr = 0
\* A connection the monitor no longer holds is followed by a disconnection.
GoneLast(q, D) ==
  \A i \in Slots(q) : q[i].addr # 0 /\ q[i].path \notin DOMAIN D =>
    \E k \in Slots(q) : i < k /\ q[k].path = q[i].path /\ q[k].addr = 0

Follows(q, B, D) ==
  LastShown(q, D) /\ IdleSame(q, B, D) /\ FirstNew(q, B) /\ Alternate(q) /\ GoneLast(q, D)

LEMMA ReportFollows ==
  ASSUME NEW q \in Seq(Event), NEW r \in Seq(Event), NEW B, NEW D, NEW E, NEW e \in Event,
         Follows(q, B, D), Len(r) = Len(q) + 1, r[Len(q) + 1] = e, \A i \in Slots(q) : r[i] = q[i],
         Shows(E, e), \A p \in Paths : p # e.path => SameAt(E, D, p),
         e.addr # 0 => e.path \notin DOMAIN D
  PROVE  Follows(r, B, E)
<1> DEFINE n == Len(q) + 1
<1>1. /\ Len(q) \in Nat /\ n \in Slots(r) /\ Slots(q) \subseteq Slots(r) /\ r[n] = e
      /\ \A i \in Slots(r) : i = n \/ i \in Slots(q)
      /\ \A i \in Slots(q) : i < n /\ i # n /\ r[i] = q[i] /\ q[i] \in Event
      /\ \A i, j \in Slots(r) : i < j => i \in Slots(q)
  BY DEF Slots
<1>2. \A i \in Slots(q) : q[i].path \in Paths
  BY <1>1 DEF Event
<1>3. LastShown(r, E)
  <2> SUFFICES ASSUME NEW i \in Slots(r), \A j \in Slots(r) : j > i => r[j].path # r[i].path
               PROVE  Shows(E, r[i])
    BY DEF LastShown
  <2>1. CASE i = n
    BY <1>1, <2>1
  <2>2. CASE i \in Slots(q)
    <3>1. r[i] = q[i] /\ q[i].path # e.path /\ q[i].path \in Paths
      BY <1>1, <1>2, <2>2
    <3>2. Shows(D, q[i])
      BY ZenonT(30), <1>1, <2>2, <3>1 DEF Follows, LastShown
    <3> QED
      BY <3>1, <3>2 DEF Shows, SameAt
  <2> QED
    BY <1>1, <2>1, <2>2
<1>4. IdleSame(r, B, E)
  <2> SUFFICES ASSUME NEW p \in Paths, \A i \in Slots(r) : r[i].path # p
               PROVE  SameAt(B, E, p)
    BY DEF IdleSame
  <2>1. p # e.path /\ \A i \in Slots(q) : q[i].path # p
    BY <1>1
  <2> QED
    BY <2>1 DEF Follows, IdleSame, SameAt
<1>5. FirstNew(r, B)
  <2> SUFFICES ASSUME NEW i \in Slots(r), r[i].addr # 0,
                      \A j \in Slots(r) : j < i => r[j].path # r[i].path
               PROVE  r[i].path \notin DOMAIN B
    BY DEF FirstNew
  <2>1. CASE i = n
    <3>1. \A j \in Slots(q) : q[j].path # e.path
      BY <1>1, <2>1
    <3>2. SameAt(B, D, e.path)
      BY ZenonT(30), <3>1 DEF Follows, IdleSame, Event
    <3> QED
      BY <1>1, <2>1, <3>2 DEF SameAt
  <2>2. CASE i \in Slots(q)
    BY <1>1, <2>2 DEF Follows, FirstNew
  <2> QED
    BY <1>1, <2>1, <2>2
<1>6. Alternate(r)
  <2> SUFFICES ASSUME NEW i \in Slots(r), NEW j \in Slots(r), i < j, r[i].path = r[j].path,
                      r[i].addr # 0, r[j].addr # 0
               PROVE  \E k \in Slots(r) : i < k /\ k < j /\ r[k].path = r[i].path /\ r[k].addr = 0
    BY DEF Alternate
  <2>0. i \in Slots(q)
    BY <1>1
  <2>1. CASE j = n
    <3>1. PICK k \in Slots(q) : i < k /\ q[k].path = q[i].path /\ q[k].addr = 0
      BY <1>1, <2>0, <2>1 DEF Follows, GoneLast
    <3> QED
      BY <1>1, <2>0, <2>1, <3>1
  <2>2. CASE j \in Slots(q)
    <3>1. PICK k \in Slots(q) : i < k /\ k < j /\ q[k].path = q[i].path /\ q[k].addr = 0
      BY <1>1, <2>0, <2>2 DEF Follows, Alternate
    <3> QED
      BY ZenonT(30), <1>1, <2>0, <3>1
  <2> QED
    BY <1>1, <2>1, <2>2
<1>7. GoneLast(r, E)
  <2> SUFFICES ASSUME NEW i \in Slots(r), r[i].addr # 0, r[i].path \notin DOMAIN E
               PROVE  \E k \in Slots(r) : i < k /\ r[k].path = r[i].path /\ r[k].addr = 0
    BY DEF GoneLast
  <2>1. i \in Slots(q) /\ r[i] = q[i] /\ q[i].path \in Paths
    BY <1>1, <1>2 DEF Shows
  <2>2. CASE q[i].path = e.path
    BY ZenonT(30), <1>1, <2>1, <2>2 DEF Shows
  <2>3. CASE q[i].path # e.path
    <3>1. PICK k \in Slots(q) : i < k /\ q[k].path = q[i].path /\ q[k].addr = 0
      BY <2>1, <2>3 DEF Follows, GoneLast, SameAt
    <3> QED
      BY ZenonT(30), <1>1, <2>1, <3>1
  <2> QED
    BY <2>2, <2>3
<1> QED
  BY ZenonT(30), <1>3, <1>4, <1>5, <1>6, <1>7 DEF Follows

LEMMA ServeFollows ==
  ASSUME NEW q \in Seq(Event), NEW r \in Seq(Event), NEW B, NEW C, NEW D,
         Follows(q, B, D), Len(q) = Len(r) + 1, \A i \in Slots(r) : r[i] = q[i + 1],
         Shows(C, q[1]), \A p \in Paths : p # q[1].path => SameAt(C, B, p)
  PROVE  Follows(r, C, D)
<1>1. /\ Len(r) \in Nat /\ 1 \in Slots(q) /\ q[1] \in Event
      /\ \A i \in Slots(r) : /\ i \in Int /\ i + 1 \in Slots(q) /\ 1 < i + 1
                             /\ r[i] = q[i + 1] /\ r[i] \in Event
      /\ \A j \in Slots(q) : j \in Int /\ (j = 1 \/ (j - 1 \in Slots(r) /\ r[j - 1] = q[j]))
  BY DEF Slots
<1>2. \A i \in Slots(r) : r[i].path \in Paths
  BY <1>1 DEF Event
<1>3. LastShown(r, D)
  <2> SUFFICES ASSUME NEW i \in Slots(r), \A j \in Slots(r) : j > i => r[j].path # r[i].path
               PROVE  Shows(D, r[i])
    BY DEF LastShown
  <2>1. ASSUME NEW j \in Slots(q), j > i + 1 PROVE q[j].path # q[i + 1].path
    <3>1. j - 1 \in Slots(r) /\ j - 1 > i /\ r[j - 1] = q[j]
      BY <1>1, <2>1
    <3> QED
      BY ZenonT(30), <1>1, <3>1
  <2> QED
    BY ZenonT(30), <1>1, <2>1 DEF Follows, LastShown
<1>4. IdleSame(r, C, D)
  <2> SUFFICES ASSUME NEW p \in Paths, \A i \in Slots(r) : r[i].path # p
               PROVE  SameAt(C, D, p)
    BY DEF IdleSame
  <2>1. \A j \in Slots(q) : j # 1 => q[j].path # p
    BY <1>1
  <2>2. CASE p = q[1].path
    <3>1. \A j \in Slots(q) : j > 1 => q[j].path # q[1].path
      BY <1>1, <2>1, <2>2
    <3>2. Shows(D, q[1])
      BY <1>1, <3>1 DEF Follows, LastShown
    <3> QED
      BY <2>2, <3>2 DEF Shows, SameAt
  <2>3. CASE p # q[1].path
    <3>1. SameAt(B, D, p)
      BY <2>1, <2>3 DEF Follows, IdleSame
    <3> QED
      BY <2>3, <3>1 DEF SameAt
  <2> QED
    BY <2>2, <2>3
<1>5. FirstNew(r, C)
  <2> SUFFICES ASSUME NEW i \in Slots(r), r[i].addr # 0,
                      \A j \in Slots(r) : j < i => r[j].path # r[i].path
               PROVE  r[i].path \notin DOMAIN C
    BY DEF FirstNew
  <2>1. ASSUME NEW j \in Slots(q), 1 < j, j < i + 1 PROVE q[j].path # r[i].path
    <3>1. j - 1 \in Slots(r) /\ j - 1 < i /\ r[j - 1] = q[j]
      BY <1>1, <2>1
    <3> QED
      BY <3>1
  <2>2. CASE r[i].path = q[1].path
    <3>1. q[1].addr = 0
      BY <1>1, <2>1, <2>2 DEF Follows, Alternate
    <3> QED
      BY ZenonT(30), <2>2, <3>1 DEF Shows
  <2>3. CASE r[i].path # q[1].path
    <3>1. q[i + 1].path \notin DOMAIN B
      <4>1. \A j \in Slots(q) : j < i + 1 => q[j].path # q[i + 1].path
        BY <1>1, <2>1, <2>3
      <4> QED
        BY <1>1, <4>1 DEF Follows, FirstNew
    <3> QED
      BY ZenonT(30), <1>1, <1>2, <2>3, <3>1 DEF SameAt
  <2> QED
    BY <2>2, <2>3
<1>6. Alternate(r)
  <2> SUFFICES ASSUME NEW i \in Slots(r), NEW j \in Slots(r), i < j, r[i].path = r[j].path,
                      r[i].addr # 0, r[j].addr # 0
               PROVE  \E k \in Slots(r) : i < k /\ k < j /\ r[k].path = r[i].path /\ r[k].addr = 0
    BY ZenonT(30) DEF Alternate
  <2>1. PICK k \in Slots(q) : i + 1 < k /\ k < j + 1 /\ q[k].path = q[i + 1].path /\ q[k].addr = 0
    <3>1. i + 1 \in Slots(q) /\ j + 1 \in Slots(q) /\ i + 1 < j + 1
          /\ r[i] = q[i + 1] /\ r[j] = q[j + 1]
      BY <1>1
    <3> QED
      BY <3>1 DEF Follows, Alternate
  <2>2. k - 1 \in Slots(r) /\ i < k - 1 /\ k - 1 < j /\ r[k - 1] = q[k]
    BY <1>1, <2>1
  <2>3. r[i] = q[i + 1]
    BY <1>1
  <2> QED
    BY <2>1, <2>2, <2>3
<1>7. GoneLast(r, D)
  <2> SUFFICES ASSUME NEW i \in Slots(r), r[i].addr # 0, r[i].path \notin DOMAIN D
               PROVE  \E k \in Slots(r) : i < k /\ r[k].path = r[i].path /\ r[k].addr = 0
    BY DEF GoneLast
  <2>1. PICK k \in Slots(q) : i + 1 < k /\ q[k].path = q[i + 1].path /\ q[k].addr = 0
    BY <1>1 DEF Follows, GoneLast
  <2>2. k - 1 \in Slots(r) /\ i < k - 1 /\ r[k - 1] = q[k]
    BY <1>1, <2>1
  <2> QED
    BY ZenonT(30), <1>1, <2>1, <2>2
<1> QED
  BY <1>3, <1>4, <1>5, <1>6, <1>7 DEF Follows

=============================================================================
