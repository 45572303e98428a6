----------------------------- MODULE UsbRouting -----------------------------
(***************************************************************************)
(* USB hot plug from the host's bus to a guest's root hub: the monitor     *)
(* that numbers devices and tells listeners (usb/monitor.rs), the queue    *)
(* and dispatcher (usb/hotplug.rs), the routing rules (usb/routing.rs),    *)
(* the registry that places devices on guest ports (usb/registry.rs) and   *)
(* the management service that moves them (enlil-core/usb_service.rs).     *)
(***************************************************************************)
EXTENDS Integers, Sequences, Functions

CONSTANTS
  Paths,          \* physical port paths
  Kinds,          \* device identities rules can match: "usb2" and "usb3" devices
  Guests,         \* guests with a registered controller
  NoHub,          \* a guest without one
  HubPorts,       \* root-hub ports for each speed
  ADDRESS_LIMIT,  \* addresses are 1 .. ADDRESS_LIMIT - 1
  Priorities,     \* of the rules added
  MaxRules, MaxMoves, MaxEvents   \* bounds: rules, commands, announcements waiting

ASSUME UsbRoutingAssumption ==
  /\ "none" \notin Guests /\ HubPorts \in Nat

VARIABLE u

None == "none"
Free == 0
Stuck == -1     \* a port marked connected by an attach that reported failure
Targets == Guests \cup {NoHub}
Hub == {<<k, i>> : k \in Kinds, i \in 1 .. HubPorts}

\* devices: the monitor's table; pending: a change recorded and not yet announced;
\* kind: what each address is; moves bounds the commands of the management client.
UsbInit ==
  \E guest \in Targets \cup {None} :
    u = [devices |-> <<>>, next_address |-> 1, pending |-> <<>>, events |-> <<>>,
         by_port |-> <<>>, rules |-> <<>>, next_id |-> 1, default_guest |-> guest,
         assigned |-> <<>>, placed |-> <<>>, kind |-> <<>>, known |-> {},
         hub |-> [g \in Guests |-> [p \in Hub |-> Free]], moves |-> 0]

put(f, k, v) == [i \in DOMAIN f \cup {k} |-> IF i = k THEN v ELSE f[i]]
drop(f, k) == [i \in DOMAIN f \ {k} |-> f[i]]

-----------------------------------------------------------------------------
\* An address is never used again; at the limit the connection is not reported at all.
report_connect(d, path, k) ==
  IF d.next_address >= ADDRESS_LIMIT THEN d
  ELSE LET a == d.next_address
       IN [d EXCEPT !.next_address = @ + 1, !.devices = put(@, path, a), !.kind = put(@, a, k),
                    !.pending = <<[path |-> path, addr |-> a]>>]
report_disconnect(d, path) ==
  [d EXCEPT !.devices = drop(@, path), !.pending = <<[path |-> path, addr |-> 0]>>]
notify_listeners(d) == [d EXCEPT !.events = @ \o d.pending, !.pending = <<>>]

-----------------------------------------------------------------------------
matches(r, k) == r.match \in {k, "any"}

\* partition_point: before the rules of the same priority, after the smaller numbers.
add_rule(d, prio, m, g) ==
  LET r == [id |-> d.next_id, priority |-> prio, match |-> m, target |-> g, enabled |-> TRUE]
      n == Len(SelectSeq(d.rules, LAMBDA q : q.priority < prio))
  IN [d EXCEPT !.next_id = @ + 1, !.rules = SubSeq(@, 1, n) \o <<r>> \o SubSeq(@, n + 1, Len(@))]
remove_rule(d, id) == [d EXCEPT !.rules = SelectSeq(@, LAMBDA r : r.id # id)]
set_rule_enabled(d, id, e) ==
  [d EXCEPT !.rules = [i \in DOMAIN @ |-> IF @[i].id = id THEN [@[i] EXCEPT !.enabled = e] ELSE @[i]]]

route(d, k) ==
  LET hits == SelectSeq(d.rules, LAMBDA r : r.enabled /\ matches(r, k))
  IN IF hits = <<>> THEN d.default_guest ELSE hits[1].target

-----------------------------------------------------------------------------
\* connect_to_guest, through XhciController::attach_device: the lowest free port of the
\* device's speed.  A full event queue fails the attach with the port left connected.
connect_to_guest(d, g, a, posted) ==
  LET k == d.kind[a]
      free == IF g \notin Guests THEN {} ELSE {i \in 1 .. HubPorts : d.hub[g][<<k, i>>] = Free}
      p == <<k, CHOOSE i \in free : \A j \in free : i <= j>>
  IN IF free = {} THEN [d |-> d, port |-> <<>>]
     ELSE IF posted THEN [d |-> [d EXCEPT !.hub[g][p] = a], port |-> p]
     ELSE [d |-> [d EXCEPT !.hub[g][p] = Stuck], port |-> <<>>]

disconnect_port(d, pl) == [d EXCEPT !.hub[pl.guest][pl.port] = Free]

attach_with_model(d, a, posted) ==
  LET g == route(d, d.kind[a])
      c == connect_to_guest(d, g, a, posted)
  IN IF g = None \/ c.port = <<>> THEN c.d
     ELSE [c.d EXCEPT !.assigned = put(@, a, g), !.placed = put(@, a, [guest |-> g, port |-> c.port])]

detach(d, a) ==
  IF a \notin DOMAIN d.placed THEN d
  ELSE [disconnect_port(d, d.placed[a]) EXCEPT !.placed = drop(@, a), !.assigned = drop(@, a)]

\* Mutant: a failed move leaves the device disconnected from its old guest.
reassign_no_restore(d, a, g, posted, again) ==
  LET old == d.placed[a]
      c == connect_to_guest(disconnect_port(d, old), g, a, posted)
  IN IF c.port # <<>>
     THEN [c.d EXCEPT !.placed[a] = [guest |-> g, port |-> c.port], !.assigned[a] = g]
     ELSE c.d

\* A move that fails puts the device back on a port of its old guest, if that works.
reassign(d, a, g, posted, again) ==
  LET old == d.placed[a]
      c == connect_to_guest(disconnect_port(d, old), g, a, posted)
      back == connect_to_guest(c.d, old.guest, a, again)
  IN IF c.port # <<>>
     THEN [c.d EXCEPT !.placed[a] = [guest |-> g, port |-> c.port], !.assigned[a] = g]
     ELSE IF back.port # <<>>
     THEN [back.d EXCEPT !.placed[a] = [guest |-> old.guest, port |-> back.port]]
     ELSE back.d

\* One event of HotplugDispatcher::service; the host tells the service of the device.
service(d, posted) ==
  LET e == Head(d.events)
      b == [d EXCEPT !.events = Tail(@)]
  IN IF e.addr # 0
     THEN attach_with_model([b EXCEPT !.by_port = put(@, e.path, e.addr), !.known = @ \cup {e.addr}],
                            e.addr, posted)
     ELSE IF e.path \notin DOMAIN d.by_port THEN b
     ELSE detach([b EXCEPT !.by_port = drop(@, e.path), !.known = @ \ {d.by_port[e.path]}],
                 d.by_port[e.path])

-----------------------------------------------------------------------------
\* The thread that polls the bus reports what changed since it last looked, one change
\* at a time; recording a change and announcing it take different locks.
Report ==
  /\ u.pending = <<>> /\ Len(u.events) < MaxEvents
  /\ \E path \in Paths :
       \/ path \notin DOMAIN u.devices /\ \E k \in Kinds : u' = report_connect(u, path, k)
       \/ path \in DOMAIN u.devices /\ u' = report_disconnect(u, path)
Notify == u.pending # <<>> /\ u' = notify_listeners(u)
Service == u.events # <<>> /\ \E posted \in BOOLEAN : u' = service(u, posted)
Rules ==
  \/ /\ u.next_id <= MaxRules
     /\ \E p \in Priorities, m \in Kinds \cup {"any"}, g \in Targets : u' = add_rule(u, p, m, g)
  \/ \E i \in DOMAIN u.rules :
       u' \in {remove_rule(u, u.rules[i].id), set_rule_enabled(u, u.rules[i].id, ~u.rules[i].enabled)}
\* UsbService::apply_usb_command: only a known device can be moved, only a placed one is.
Command ==
  /\ u.moves < MaxMoves
  /\ \E a \in DOMAIN u.placed, m \in {[u EXCEPT !.moves = @ + 1]} :
       \/ /\ a \in u.known
          /\ \E g \in Targets, posted, again \in BOOLEAN : u' = reassign(m, a, g, posted, again)
       \/ u' = detach(m, a)

UsbNext == Report \/ Notify \/ Service \/ Rules \/ Command

UsbSpec == UsbInit /\ [][UsbNext]_u

-----------------------------------------------------------------------------
\* Unless an attach failed on a full event queue, each placed device is on the port the
\* registry says, alone, and no port stays occupied for a device that is not placed,
\* through failed moves, detaches by command and unplugging in any order.
PlacementsMatchPorts ==
  (\A g \in Guests : Stuck \notin Range(u.hub[g])) =>
    \A g \in Guests, p \in Hub :
      LET here == {a \in DOMAIN u.placed : u.placed[a] = [guest |-> g, port |-> p]}
      IN here = IF u.hub[g][p] = Free THEN {} ELSE {u.hub[g][p]}

\* The routing table's assignments and the registry's placements name the same guest.
AssignmentsAgree ==
  /\ DOMAIN u.assigned = DOMAIN u.placed
  /\ \A a \in DOMAIN u.placed : u.assigned[a] = u.placed[a].guest

\* Once every change was announced and served, nothing is placed but what is plugged in:
\* the dispatcher's view of the ports is the monitor's.
QuietAgrees ==
  u.pending = <<>> /\ u.events = <<>> =>
    /\ u.by_port = u.devices
    /\ DOMAIN u.placed \subseteq Range(u.devices)

\* A device is in one place: registry, routing table and root-hub ports agree on the
\* guest and port of every device through failed moves and late unplug notices, and when
\* all is quiet only what is plugged in is placed (registry.rs and usb_service.rs fed by
\* monitor.rs and hotplug.rs).
DevicesInOnePlace == PlacementsMatchPorts /\ AssignmentsAgree /\ QuietAgrees

\* A device is routed by the enabled matching rule of the lowest priority number, the
\* latest added among equals, whatever rules were added, removed and disabled before.
BestRuleWins ==
  \A k \in Kinds :
    LET hits == {r \in Range(u.rules) : r.enabled /\ matches(r, k)}
        better(r, q) == r.priority < q.priority \/ (r.priority = q.priority /\ r.id > q.id)
    IN \/ hits = {} /\ route(u, k) = u.default_guest
       \/ \E r \in hits : r.target = route(u, k) /\ \A q \in hits \ {r} : better(r, q)

=============================================================================
