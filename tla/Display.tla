------------------------------ MODULE Display ------------------------------
(***************************************************************************)
(* What a guest draws and what a person sees: the virtio-gpu 2D device and *)
(* its frame queue (virtio_gpu.rs, display/mod.rs), the zones of the       *)
(* compositor with the input router (display/mod.rs), monitors, guests and *)
(* the KVM switch (display/routing.rs), the boot console (framebuffer.rs)  *)
(* and the choice and assignment of a physical GPU (gpu.rs).               *)
(*                                                                         *)
(* Sizes and offsets are counted in pixels (every accepted format has four *)
(* bytes per pixel).                                                       *)
(***************************************************************************)
EXTENDS Integers, Sequences, FiniteSets, SequencesExt

CONSTANTS
  MAX_DIMENSION, MAX_RESOURCE, BUDGET,   \* limits of the 2D device
  MAX_FRAMES,                            \* frames a VirtioGpuSource keeps
  Resources, Colours,                    \* resource ids, pixel values
  Flushes,                               \* bound on frames submitted
  Monitors, Guests, Chord, QUEUE_CAP,    \* monitors, guests, KVM hotkey
  Events,                                \* bound on queued routing events
  Width, Height, Cells, MaxZones,        \* the screen, tilings, zones
  Cols, Rows, Bytes, MaxBytes,           \* the boot console
  Gpus, Strategies, Members, Roms        \* GPUs to choose from, functions of a group, ROMs

VARIABLES gpu, route, zone, con, pick, pass, rom

Without(f, S) == [k \in DOMAIN f \ S |-> f[k]]
Set(f, k, v) == [j \in DOMAIN f \cup {k} |-> IF j = k THEN v ELSE f[j]]

----------------------------------------------------------------------------
(* virtio-gpu 2D.                                                          *)

Resource == 0     \* "no resource" in SET_SCANOUT and CURSOR_SET

(* reserve: the per-resource limit, then the device budget. *)
reserve(d, n) == n <= MAX_RESOURCE /\ d.used + n <= BUDGET

(* check_rect_in_resource *)
check_rect(x, y, w, h, r) == w # 0 /\ h # 0 /\ x + w <= r.w /\ y + h <= r.h

(* The response: op names the transfer answered last, if that was the last *)
(* command answered.                                                       *)
NoTransfer == [cmd |-> "other"]
Refuse(d) == [d EXCEPT !.op = NoTransfer, !.ok = FALSE]
Accept(d) == [d EXCEPT !.op = NoTransfer, !.ok = TRUE]

cmd_resource_create_2d(d, id, format, w, h) ==
  IF /\ format /\ id # 0 /\ id \notin DOMAIN d.res
     /\ w \in 1 .. MAX_DIMENSION /\ h \in 1 .. MAX_DIMENSION
     /\ reserve(d, w * h)
  THEN [Accept(d) EXCEPT
          !.used = d.used + w * h,
          !.res = Set(d.res, id, [w |-> w, h |-> h, bytes |-> w * h,
                                  back |-> <<>>, attached |-> FALSE])]
  ELSE Refuse(d)

cmd_resource_unref(d, id) ==
  IF id \notin DOMAIN d.res THEN Refuse(d)
  ELSE [Accept(d) EXCEPT
          !.used = d.used - d.res[id].bytes,
          !.res = Without(d.res, {id}),
          !.scan = IF d.scan.res = id
                   THEN [d.scan EXCEPT !.res = Resource, !.on = FALSE]
                   ELSE d.scan,
          !.event = TRUE]

cmd_set_scanout(d, id, scanout, w, h) ==
  IF \/ id # 0 /\ id \notin DOMAIN d.res
     \/ w \notin 1 .. MAX_DIMENSION \/ h \notin 1 .. MAX_DIMENSION
     \/ scanout # 0
  THEN Refuse(d)
  ELSE [Accept(d) EXCEPT
          !.scan = IF id = 0 THEN [d.scan EXCEPT !.res = 0, !.on = FALSE]
                   ELSE [res |-> id, on |-> TRUE, w |-> w, h |-> h],
          !.event = TRUE]

cmd_attach_backing(d, id) ==
  IF id \notin DOMAIN d.res THEN Refuse(d)
  ELSE IF d.res[id].attached THEN Accept(d)
  ELSE [Accept(d) EXCEPT
          !.res[id].back = [i \in 1 .. d.res[id].bytes |-> 0],
          !.res[id].attached = TRUE]

cmd_detach_backing(d, id) ==
  IF id \notin DOMAIN d.res THEN Refuse(d)
  ELSE [Accept(d) EXCEPT !.res[id].back = <<>>,
                             !.res[id].attached = FALSE]

(* The rows of a transfer go to the backing store one after the other; the *)
(* first row that would leave it ends the command with an error, after the *)
(* rows before it were copied.                                             *)
RowStart(t, r, row) == t.off + (t.y + row) * r.w + t.x
RowFits(t, r, row) == RowStart(t, r, row) + t.w <= Len(r.back)
InRow(t, r, row, i) ==
  i - 1 \in RowStart(t, r, row) .. RowStart(t, r, row) + t.w - 1

cmd_transfer_to_host_2d(d, t) ==
  IF \/ t.id \notin DOMAIN d.res
     \/ ~ d.res[t.id].attached
     \/ ~ check_rect(t.x, t.y, t.w, t.h, d.res[t.id])
  THEN Refuse(d)
  ELSE LET r == d.res[t.id] IN
       [d EXCEPT
          !.op = t,
          !.ok = \A row \in 0 .. t.h - 1 : RowFits(t, r, row),
          !.res[t.id].back =
             [i \in DOMAIN r.back |->
                IF \E row \in 0 .. t.h - 1 :
                      RowFits(t, r, row) /\ InRow(t, r, row, i)
                THEN t.colour ELSE r.back[i]]]

(* RESOURCE_FLUSH: submit_frame queues the pixels, dropping the oldest     *)
(* beyond MAX_FRAMES, and names the frame current in a second step, after  *)
(* the queue's lock was released.                                          *)
Trimmed(q) == IF Len(q) > MAX_FRAMES THEN Tail(q) ELSE q

cmd_resource_flush(d, id, x, y, w, h) ==
  IF \/ id \notin DOMAIN d.res \/ ~ d.res[id].attached
     \/ ~ check_rect(x, y, w, h, d.res[id])
  THEN Refuse(d)
  ELSE [Accept(d) EXCEPT
          !.frames = Trimmed(Append(d.frames, d.next)),
          !.submitting = d.next,
          !.next = d.next + 1]

submit_frame_current(d) == [d EXCEPT !.current = d.submitting,
                                     !.submitting = 0]

cmd_cursor_set(d, scanout, id) ==
  IF scanout # 0 THEN Refuse(d)
  ELSE [Accept(d) EXCEPT !.cursor = [res |-> id, visible |-> id # 0]]

cmd_cursor_move(d, scanout) ==
  IF scanout # 0 THEN Refuse(d) ELSE Accept(d)

write_config(d) == [d EXCEPT !.event = FALSE]

NoScan == [res |-> 0, on |-> FALSE, w |-> MAX_DIMENSION, h |-> MAX_DIMENSION]
NoCursor == [res |-> 0, visible |-> FALSE]

VirtioGpu2D_reset(d) ==
  [d EXCEPT !.res = <<>>, !.scan = NoScan, !.used = 0, !.event = FALSE,
            !.cursor = NoCursor, !.op = NoTransfer, !.ok = TRUE]

(* The compositor thread takes the current frame's name, then its pixels.  *)
(* VirtioGpuSource is called by composite_frame, which never reports a     *)
(* frame consumed.                                                         *)
current_frame(d) == [d EXCEPT !.reader = d.current]
get_frame_data(d) ==
  [d EXCEPT !.reader = 0, !.shown = IF d.reader \in Range(d.frames) THEN d.reader ELSE 0]

GpuInit ==
  gpu = [res |-> <<>>, scan |-> NoScan, used |-> 0, event |-> FALSE,
         cursor |-> NoCursor, op |-> NoTransfer,
         ok |-> TRUE, frames |-> <<>>, submitting |-> 0, current |-> 0,
         next |-> 1, reader |-> 0, shown |-> 0]

Sides == 0 .. MAX_DIMENSION + 1
Ids == Resources \cup {0}
Transfers(d) ==
  [cmd : {"transfer"}, id : DOMAIN d.res, off : 0 .. 1, x : 0 .. 1,
   y : 0 .. 1, w : 0 .. MAX_DIMENSION, h : 1 .. MAX_DIMENSION,
   colour : Colours]

(* The device takes no command while it is inside submit_frame.            *)
GpuCommand ==
  /\ gpu.submitting = 0
  /\ \/ \E id \in Ids, f \in BOOLEAN, w \in Sides, h \in 1 .. MAX_DIMENSION :
           gpu' = cmd_resource_create_2d(gpu, id, f, w, h)
     \/ \E id \in Ids : gpu' = cmd_resource_unref(gpu, id)
     \/ \E id \in Ids, s \in 0 .. 1, w \in Sides :
           gpu' = cmd_set_scanout(gpu, id, s, w, 1)
     \/ \E id \in Ids : gpu' = cmd_attach_backing(gpu, id)
     \/ \E id \in Ids : gpu' = cmd_detach_backing(gpu, id)
     \/ \E t \in Transfers(gpu) : gpu' = cmd_transfer_to_host_2d(gpu, t)
     \/ \E id \in Ids, x \in 0 .. 1, w \in 0 .. 1 :
           gpu.next <= Flushes /\ gpu' = cmd_resource_flush(gpu, id, x, 0, w, 1)
     \/ \E id \in Ids, s \in 0 .. 1 : gpu' = cmd_cursor_set(gpu, s, id)
     \/ \E s \in 0 .. 1 : gpu' = cmd_cursor_move(gpu, s)
     \/ gpu' = write_config(gpu)
     \/ gpu' = VirtioGpu2D_reset(gpu)

FrameNamed == gpu.submitting # 0 /\ gpu' = submit_frame_current(gpu)
CompositorLooks == gpu.reader = 0 /\ gpu.current # 0 /\ gpu' = current_frame(gpu)
CompositorCopies == gpu.reader # 0 /\ gpu' = get_frame_data(gpu)

GpuNext == GpuCommand \/ FrameNamed \/ CompositorLooks \/ CompositorCopies

(* The budget counts exactly the pixels of the resources that exist, a     *)
(* backing store has the size it was reserved with, and a scanout that is  *)
(* on shows a resource that exists.                                        *)
GpuMemoryAccounted ==
  /\ gpu.used = FoldFunction(LAMBDA r, n : r.bytes + n, 0, gpu.res)
  /\ gpu.used <= BUDGET
  /\ \A id \in DOMAIN gpu.res :
        gpu.res[id].attached => Len(gpu.res[id].back) = gpu.res[id].bytes
  /\ gpu.scan.on <=> gpu.scan.res # 0
  /\ gpu.scan.on => gpu.scan.res \in DOMAIN gpu.res

(* The pixels of the frame named current are still in the queue, whatever  *)
(* the guest flushes between the compositor's two reads.                   *)
CurrentFrameKept ==
  gpu.current # 0 => gpu.current \in Range(gpu.frames)

(* A refused command changes no resource, scanout or cursor; only a        *)
(* transfer refused for its offset may have copied its first rows.  A      *)
(* transfer at offset 0 changes the rectangle it names and nothing else,   *)
(* an accepted one stays inside the backing store, and the frame on screen *)
(* is never an older one than before.                                      *)
GpuStep ==
  /\ ~ gpu'.ok /\ gpu'.op = NoTransfer =>
        <<gpu.res, gpu.scan, gpu.cursor, gpu.used>>
          = <<gpu'.res, gpu'.scan, gpu'.cursor, gpu'.used>>
  /\ gpu'.op # NoTransfer /\ gpu'.ok /\ gpu'.op.off = 0
     => LET t == gpu'.op  r == gpu.res[t.id]  s == gpu'.res[t.id] IN
        \A px \in 0 .. r.w - 1, py \in 0 .. r.h - 1 :
           s.back[py * r.w + px + 1] =
             IF px \in t.x .. t.x + t.w - 1 /\ py \in t.y .. t.y + t.h - 1
             THEN t.colour ELSE r.back[py * r.w + px + 1]
  /\ gpu'.op # NoTransfer /\ gpu'.ok
     => LET t == gpu'.op  r == gpu.res[t.id] IN
        t.off + (t.y + t.h - 1) * r.w + t.x + t.w <= Len(r.back)
  /\ gpu'.current >= gpu.current

----------------------------------------------------------------------------
(* Monitors, guests and the KVM switch.                                    *)

NoGuest == "none"

RouteInit ==
  route = [mon |-> <<>>, asg |-> <<>>, order |-> <<>>, active |-> 0,
           pressed |-> {}, fired |-> FALSE, queued |-> <<>>, lost |-> FALSE,
           view |-> <<>>, sent |-> 0, since |-> TRUE]

(* queue_event: a full queue loses its oldest event. *)
queue_event(d, e) ==
  LET full == Len(d.queued) = QUEUE_CAP IN
  [d EXCEPT !.queued = Append(IF full THEN Tail(@) ELSE @, e),
            !.lost = @ \/ full, !.sent = @ + 1]
queue_events(d, es) == FoldLeft(queue_event, d, es)

handle_event(d, e) ==
  CASE e.kind = "plugged" ->
         queue_event([d EXCEPT !.mon = Set(d.mon, e.monitor,
                        [plugged |-> TRUE, mode |-> e.mode])],
                     [kind |-> "plugged", monitor |-> e.monitor,
                      guest |-> NoGuest])
    [] e.kind = "unplugged" ->
         LET held == e.monitor \in DOMAIN d.asg IN
         queue_event([d EXCEPT
                        !.mon = IF e.monitor \in DOMAIN d.mon
                                THEN [@ EXCEPT ![e.monitor].plugged = FALSE]
                                ELSE @,
                        !.asg = Without(d.asg, {e.monitor})],
                     [kind |-> "unplugged", monitor |-> e.monitor,
                      guest |-> IF held THEN d.asg[e.monitor] ELSE NoGuest])
    [] e.kind = "edid" ->
         IF e.monitor \notin DOMAIN d.mon THEN d
         ELSE LET n == [d EXCEPT !.mon[e.monitor] =
                          [plugged |-> TRUE, mode |-> e.mode]]
              IN IF d.mon[e.monitor].mode = e.mode \/ e.mode = 0 THEN n
                 ELSE queue_event(n, [kind |-> "mode", monitor |-> e.monitor,
                                      guest |-> NoGuest])

register_guest(d, g) ==
  IF g \in Range(d.order) THEN d ELSE [d EXCEPT !.order = Append(@, g)]

(* assign: a held monitor is released by its guest first. *)
assign(d, m, g) ==
  IF m \notin DOMAIN d.mon THEN d
  ELSE IF ~ d.mon[m].plugged THEN d
  ELSE LET k == register_guest(d, g)
           held == m \in DOMAIN d.asg
       IN IF held /\ d.asg[m] = g THEN k
          ELSE queue_events([k EXCEPT !.asg = Set(d.asg, m, g)],
                 (IF held THEN << [kind |-> "released", monitor |-> m,
                                   guest |-> d.asg[m]] >> ELSE <<>>)
                 \o << [kind |-> "assigned", monitor |-> m, guest |-> g] >>)

release(d, m) ==
  IF m \notin DOMAIN d.asg THEN d
  ELSE queue_event([d EXCEPT !.asg = Without(d.asg, {m})],
                   [kind |-> "released", monitor |-> m, guest |-> d.asg[m]])

(* active is an index into order, 0 for none. *)
unregister_guest(d, g) ==
  IF g \notin Range(d.order) THEN d
  ELSE LET pos == CHOOSE i \in DOMAIN d.order : d.order[i] = g
           rest == RemoveAt(d.order, pos)
       IN [d EXCEPT !.order = rest,
                    !.active = IF @ = pos
                               THEN IF pos <= Len(rest) THEN pos ELSE 0
                               ELSE IF @ > pos THEN @ - 1 ELSE @]

switch_next(d) ==
  IF d.order = <<>> THEN d
  ELSE [d EXCEPT !.active = IF @ = 0 THEN 1 ELSE (@ % Len(d.order)) + 1]

switch_to(d, g) ==
  IF g \notin Range(d.order) THEN d
  ELSE [d EXCEPT !.active = CHOOSE i \in DOMAIN d.order : d.order[i] = g]

key_down(d, c) ==
  LET p == d.pressed \cup {c} IN
  IF d.fired \/ ~ Chord \subseteq p THEN [d EXCEPT !.pressed = p]
  ELSE switch_next([d EXCEPT !.pressed = p, !.fired = TRUE, !.since = FALSE])

key_up(d, c) ==
  [d EXCEPT !.pressed = @ \ {c},
            !.fired = @ /\ c \notin Chord,
            !.since = @ \/ c \in Chord]

(* A listener that replays the events it drains. *)
Replay(view, e) ==
  CASE e.kind = "assigned" -> Set(view, e.monitor, e.guest)
    [] e.kind \in {"released", "unplugged"} -> Without(view, {e.monitor})
    [] OTHER -> view

drain_queued(d) ==
  [d EXCEPT !.view = FoldLeft(Replay, @, d.queued), !.queued = <<>>]

MonitorHappens ==
  /\ route.sent < Events
  /\ \E e \in [kind : {"plugged", "unplugged", "edid"}, monitor : Monitors,
               mode : 0 .. 1] : route' = handle_event(route, e)
OperatorAssigns ==
  /\ route.sent < Events
  /\ \E m \in Monitors, g \in Guests :
        route' = assign(route, m, g) \/ route' = release(route, m)
SwitchUsed ==
  \E g \in Guests : \/ route' = register_guest(route, g)
                    \/ route' = unregister_guest(route, g)
                    \/ route' = switch_to(route, g)
KeyMoves ==
  \E c \in Chord \cup {"other"} :
     route' = IF c \in route.pressed THEN key_up(route, c) ELSE key_down(route, c)
ListenerDrains == route.queued # <<>> /\ route' = drain_queued(route)

RouteNext == MonitorHappens \/ OperatorAssigns \/ SwitchUsed \/ KeyMoves
             \/ ListenerDrains

ActiveGuest(d) == IF d.active = 0 THEN NoGuest ELSE d.order[d.active]

(* Only a plugged monitor is assigned, the switch points at a registered   *)
(* guest, and a listener that replays every event ends with the            *)
(* assignments there are, unless the queue overflowed.                     *)
RoutingConsistent ==
  /\ \A m \in DOMAIN route.asg : m \in DOMAIN route.mon /\ route.mon[m].plugged
  /\ route.active \in 0 .. Len(route.order)
  /\ ~ route.lost => FoldLeft(Replay, route.view, route.queued) = route.asg

(* A guest loses the console only by a switch or by its own removal, and   *)
(* one press of the chord switches once: before the next switch a key of   *)
(* the chord was released.                                                 *)
SwitchStep ==
  /\ (ActiveGuest(route) # NoGuest /\ ActiveGuest(route) \in Range(route'.order)
        /\ route'.order # route.order)
       => ActiveGuest(route') = ActiveGuest(route)
  /\ (~ route.fired /\ route'.fired) => route.since

----------------------------------------------------------------------------
(* Zones: the layout engine's tilings, what the compositor draws and where *)
(* the router sends input.                                                 *)

Screen == (0 .. Width - 1) \X (0 .. Height - 1)

contains_point(z, p) ==
  /\ p[1] >= z.x /\ p[1] < z.x + z.w
  /\ p[2] >= z.y /\ p[2] < z.y + z.h

(* create_zone appends; every zone has z-index 0 and the sort is stable. *)
create_zone(d, x, y, w, h) ==
  [d EXCEPT !.zones = Append(@, [id |-> d.next, x |-> x, y |-> y, w |-> w,
                                 h |-> h, visible |-> TRUE]),
            !.next = @ + 1]
delete_zone(d, id) ==
  [d EXCEPT !.zones = SelectSeq(@, LAMBDA z : z.id # id)]
set_zone_visibility(d, id, v) ==
  [d EXCEPT !.zones = [i \in DOMAIN @ |->
                         IF @[i].id = id THEN [@[i] EXCEPT !.visible = v]
                         ELSE @[i]]]

(* Row-major cells; the last column and row take the remainder. *)
tile_cell(r, rows, cols, k, id) ==
  LET row == k \div cols    col == k % cols
      cw == r.w \div cols   ch == r.h \div rows
      x == r.x + col * cw   y == r.y + row * ch
  IN [id |-> id, x |-> x, y |-> y, visible |-> TRUE,
      w |-> IF col = cols - 1 THEN r.x + r.w - x ELSE cw,
      h |-> IF row = rows - 1 THEN r.y + r.h - y ELSE ch]
tile_region(d, r, rows, cols) ==
  IF rows = 0 \/ cols = 0 THEN d
  ELSE [d EXCEPT !.zones = @ \o [k \in 1 .. rows * cols |-> tile_cell(r, rows, cols, k - 1, d.next + k - 1)],
                 !.next = @ + rows * cols]
tile_monitors(d, plans) ==
  FoldLeft(LAMBDA e, p : tile_region(e, p.r, p.rows, p.cols),
           [d EXCEPT !.zones = <<>>], plans)
tile_grid(d, rows, cols) ==
  tile_monitors(d, << [r |-> [x |-> 0, y |-> 0, w |-> Width, h |-> Height],
                       rows |-> rows, cols |-> cols] >>)

find_zone_at(zones, p) ==
  LET hit == { i \in DOMAIN zones :
                 zones[i].visible /\ contains_point(zones[i], p) }
  IN IF hit = {} THEN 0 ELSE zones[CHOOSE i \in hit : \A j \in hit : j <= i].id

(* route_event: the pointer picks the zone under it, keys go to the focus, *)
(* a press moves the focus.                                                *)
route_event(d, e) ==
  LET m == IF e.kind = "move" THEN [d EXCEPT !.mouse = e.at] ELSE d
      target == IF e.kind = "key" THEN m.focus
                ELSE find_zone_at(m.zones, m.mouse)
  IN IF target = 0 THEN m
     ELSE [m EXCEPT !.last = [kind |-> e.kind, zone |-> target],
                    !.focus = IF e.kind = "down" THEN target ELSE @]

VisibleIds(zones) == { zones[i].id : i \in { j \in DOMAIN zones : zones[j].visible } }

cycle_focus(d, forward) ==
  LET ids == VisibleIds(d.zones)
      above == { i \in ids : i > d.focus }
      below == { i \in ids : i < d.focus }
      least(S) == CHOOSE i \in S : \A j \in S : i <= j
      most(S) == CHOOSE i \in S : \A j \in S : j <= i
  IN IF ids = {} THEN [d EXCEPT !.focus = 0]
     ELSE [d EXCEPT !.focus =
             IF d.focus \notin ids
             THEN IF forward THEN least(ids) ELSE most(ids)
             ELSE IF forward
                  THEN IF above = {} THEN least(ids) ELSE least(above)
                  ELSE IF below = {} THEN most(ids) ELSE most(below)]

(* composite_frame paints the visible zones that have a source in layout   *)
(* order; "full" says the source's frame covers its zone.  A source with a *)
(* short frame paints the pixels its data reaches.                         *)
Paints(z, source, p) ==
  /\ z.visible /\ contains_point(z, p)
  /\ LET i == (p[2] - z.y) * z.w + (p[1] - z.x) IN
     z.id \in DOMAIN source /\ i < source[z.id]
composite_frame(zones, source) ==
  [p \in Screen |->
     LET hit == { i \in DOMAIN zones : Paints(zones[i], source, p) } IN
     IF hit = {} THEN 0 ELSE zones[CHOOSE i \in hit : \A j \in hit : j <= i].id]

ZoneInit == zone = [zones |-> <<>>, next |-> 1, focus |-> 0, mouse |-> <<0, 0>>,
                    last |-> [kind |-> "none", zone |-> 0], tiled |-> {}]

Halves == { [x |-> 0, y |-> 0, w |-> Width \div 2, h |-> Height],
            [x |-> Width \div 2, y |-> 0, w |-> Width - Width \div 2,
             h |-> Height] }

Untiled(d) == [d EXCEPT !.tiled = {}]
Draw ==
  /\ Len(zone.zones) <= MaxZones
  /\ \/ \E x \in 0 .. Width - 1, w \in 1 .. 2 :
           Len(zone.zones) < MaxZones /\ zone.next <= MaxZones
           /\ zone' = Untiled(create_zone(zone, x, 0, w, Height))
     \/ \E i \in DOMAIN zone.zones : zone' = Untiled(delete_zone(zone, zone.zones[i].id))
     \/ \E i \in DOMAIN zone.zones, v \in BOOLEAN :
           zone' = Untiled(set_zone_visibility(zone, zone.zones[i].id, v))
Tile ==
  \/ \E rows, cols \in Cells :
        zone.next = 1 /\ zone' = [tile_grid(zone, rows, cols) EXCEPT
                          !.tiled = IF rows * cols = 0 THEN {} ELSE Screen]
  \/ \E a, b \in Halves, rows, cols \in Cells \ {0} :
        zone.next = 1 /\ a # b
        /\ zone' = [tile_monitors(zone,
                      << [r |-> a, rows |-> rows, cols |-> cols],
                         [r |-> b, rows |-> cols, cols |-> rows] >>)
                    EXCEPT !.tiled = Screen]
Input ==
  /\ Len(zone.zones) <= MaxZones
  /\ \/ \E p \in Screen : zone' = route_event(zone, [kind |-> "move", at |-> p])
     \/ \E k \in {"down", "up", "key"} : zone' = route_event(zone, [kind |-> k])
     \/ \E f \in BOOLEAN : zone' = cycle_focus(zone, f)

ZoneNext == Draw \/ Tile \/ Input

(* A tiling covers the screen: every pixel lies in exactly one of the      *)
(* zones, also when there are more cells than pixels.                      *)
TilingExact ==
  \A p \in zone.tiled :
     Cardinality({ i \in DOMAIN zone.zones : contains_point(zone.zones[i], p) }) = 1

(* A click goes to the zone that is seen: where every zone has a source    *)
(* that fills it, the zone the router finds under a pixel is the one whose *)
(* pixel composite_frame left there.                                       *)
SeenIsClicked ==
  LET full == [id \in { zone.zones[i].id : i \in DOMAIN zone.zones } |->
                 Width * Height]
      frame == composite_frame(zone.zones, full)
  IN \A p \in Screen : find_zone_at(zone.zones, p) = frame[p]

(* Zone ids are unique, so focus and sources name one zone. *)
ZoneIdsUnique ==
  \A i, j \in DOMAIN zone.zones :
     zone.zones[i].id = zone.zones[j].id => i = j

(* Keys go where the last press or cycle put the focus, presses where the  *)
(* pointer is; an event never reaches a hidden zone by pointer.            *)
ZoneStep ==
  (zone'.last # zone.last /\ zone'.last.kind # "key")
     => zone'.last.zone \in VisibleIds(zone.zones)

----------------------------------------------------------------------------
(* The boot console: cells of one glyph each, a cursor that saves what is  *)
(* under it.  A cell is <<glyph, underlined>>; the column Cols is the      *)
(* pending-wrap position, off the grid.                                    *)

Grid == (0 .. Cols - 1) \X (0 .. Rows - 1)
Blank == <<" ", FALSE>>

draw_cursor(d) ==
  IF ~ d.cursor \/ d.drawn THEN d
  ELSE LET at == <<d.cx, d.cy>> IN
       IF at \notin Grid THEN [d EXCEPT !.drawn = TRUE]
       ELSE [d EXCEPT !.drawn = TRUE, !.under = d.cell[at],
                      !.cell[at] = <<@[1], TRUE>>]
erase_cursor(d) ==
  IF ~ d.drawn THEN d
  ELSE LET at == <<d.cx, d.cy>> IN
       IF at \notin Grid THEN [d EXCEPT !.drawn = FALSE]
       ELSE [d EXCEPT !.drawn = FALSE, !.cell[at] = d.under]

scroll(d) ==
  [d EXCEPT !.cell = [p \in Grid |-> IF p[2] = Rows - 1 THEN Blank
                                     ELSE d.cell[<<p[1], p[2] + 1>>]]]
advance_line(d) ==
  IF d.cy + 1 >= Rows THEN scroll([d EXCEPT !.cx = 0])
  ELSE [d EXCEPT !.cx = 0, !.cy = @ + 1]
put_cell(d, b) ==
  LET e == IF d.cx >= Cols THEN advance_line(d) ELSE d IN
  [e EXCEPT !.cell[<<e.cx, e.cy>>] = <<b, FALSE>>, !.cx = @ + 1]
backspace(d) ==
  IF d.cx > 0 THEN [d EXCEPT !.cx = @ - 1,
                             !.cell[<<d.cx - 1, d.cy>>] = Blank]
  ELSE IF d.cy > 0 THEN [d EXCEPT !.cy = @ - 1, !.cx = Cols - 1,
                                  !.cell[<<Cols - 1, d.cy - 1>>] = Blank]
  ELSE d

(* A tab fills up to the next multiple of TabStop (8 in the code), never   *)
(* past the last column.                                                   *)
TabStop == 2
Least(a, b) == IF a < b THEN a ELSE b
tab(d) ==
  LET stop == Least(((d.cx \div TabStop) + 1) * TabStop, Cols) IN
  IF d.cx >= stop THEN d
  ELSE FoldLeft(LAMBDA e, k : put_cell(e, " "), d,
                [k \in 1 .. stop - d.cx |-> k])

Printed(d, b) ==
  CASE b = "newline" -> advance_line(d)
    [] b = "return" -> [d EXCEPT !.cx = 0]
    [] b = "tab" -> tab(d)
    [] b = "backspace" -> backspace(d)
    [] b = "control" -> d
    [] OTHER -> put_cell(d, b)
write_byte(d, b) == draw_cursor(Printed(erase_cursor(d), b))

console_clear(d) ==
  draw_cursor([d EXCEPT !.drawn = FALSE, !.cell = [p \in Grid |-> Blank],
                        !.cx = 0, !.cy = 0])
set_cursor_visible(d, v) ==
  IF d.cursor = v THEN d
  ELSE draw_cursor([erase_cursor(d) EXCEPT !.cursor = v])

TextConsole_new ==
  draw_cursor([cell |-> [p \in Grid |-> Blank], cx |-> 0, cy |-> 0,
               cursor |-> TRUE, drawn |-> FALSE, under |-> Blank])

(* What a terminal with a transparent cursor and no scrollback would show: *)
(* the same bytes on a sheet without an end, of which the last rows are    *)
(* seen.  The sheet is a set of <<column, line, glyph>>.                   *)
Sheet == [ink |-> {}, x |-> 0, y |-> 0, top |-> 0]
Down(s, y) == [s EXCEPT !.y = y, !.x = 0,
                        !.top = IF y - @ >= Rows THEN y - Rows + 1 ELSE @]
Ink(s, x, y, b) ==
  { i \in s.ink : <<i[1], i[2]>> # <<x, y>> }
    \cup (IF b = " " THEN {} ELSE {<<x, y, b>>})
Type(s, b) ==
  LET w == IF s.x = Cols THEN Down(s, s.y + 1) ELSE s IN
  [w EXCEPT !.ink = Ink(w, w.x, w.y, b), !.x = @ + 1]
OnSheet(s, b) ==
  CASE b = "newline" -> Down(s, s.y + 1)
    [] b = "return" -> [s EXCEPT !.x = 0]
    [] b = "tab" ->
         FoldLeft(LAMBDA t, k : IF t.x < Cols /\ (k = 1 \/ t.x % TabStop # 0)
                                THEN Type(t, " ") ELSE t,
                  s, [k \in 1 .. TabStop |-> k])
    [] b = "backspace" ->
         IF s.x > 0 THEN [s EXCEPT !.x = @ - 1, !.ink = Ink(s, s.x - 1, s.y, " ")]
         ELSE IF s.y > s.top
         THEN [s EXCEPT !.x = Cols - 1, !.y = @ - 1,
                        !.ink = Ink(s, Cols - 1, s.y - 1, " ")]
         ELSE s
    [] b = "control" -> s
    [] OTHER -> Type(s, b)

ConInit == con = [scr |-> TextConsole_new, sheet |-> Sheet, n |-> 0]
ConNext ==
  /\ con.n < MaxBytes
  /\ \/ \E b \in Bytes :
           con' = [scr |-> write_byte(con.scr, b),
                   sheet |-> OnSheet(con.sheet, b), n |-> con.n + 1]
     \/ con' = [scr |-> console_clear(con.scr), sheet |-> Sheet, n |-> con.n + 1]
     \/ \E v \in BOOLEAN :
           con' = [con EXCEPT !.scr = set_cursor_visible(@, v), !.n = @ + 1]

(* The screen shows the end of what was written and one cursor, at the     *)
(* place the next byte goes to: no scroll, wrap, tab or backspace leaves a *)
(* copy of the cursor behind or wipes what was under it.                   *)
ConsoleShowsText ==
  /\ \A p \in Grid :
        LET ink == { i \in con.sheet.ink :
                       <<i[1], i[2]>> = <<p[1], p[2] + con.sheet.top>> }
        IN con.scr.cell[p][1] = IF ink = {} THEN " " ELSE (CHOOSE i \in ink : TRUE)[3]
  /\ <<con.scr.cx, con.scr.cy>> = <<con.sheet.x, con.sheet.y - con.sheet.top>>
  /\ { p \in Grid : con.scr.cell[p][2] }
       = IF con.scr.cursor THEN {<<con.scr.cx, con.scr.cy>>} \cap Grid ELSE {}

----------------------------------------------------------------------------
(* Physical GPUs: the tier chosen, the IOMMU group assigned whole, the     *)
(* reset with its fallback, the option ROM.                                *)

implemented_in_1_0(tier) == tier \in {"passthrough", "virtio"}
supports_sr_iov_tier(g) == g.mig \/ g.vfs > 0
classify_kind(g) ==
  IF g.vendor \in {"intel", "amd"} /\ g.bus = 0 THEN "integrated" ELSE "discrete"

recommend_tier(g) ==
  IF supports_sr_iov_tier(g)
  THEN [tier |-> "sriov", warnings |-> {"later"}]
  ELSE [tier |-> "passthrough",
        warnings |->
          (IF g.vendor = "amd" /\ classify_kind(g) = "integrated"
           THEN {"reset"} ELSE {})
          \cup (IF classify_kind(g) = "integrated" THEN {"console"} ELSE {})]

no_gpu_fallback == [tier |-> "virtio", warnings |-> {}]

resolve_pinned(gs, tier) ==
  IF tier = "sriov" /\ \E i \in DOMAIN gs : ~ supports_sr_iov_tier(gs[i])
  THEN [ok |-> FALSE, recs |-> <<>>]
  ELSE [ok |-> TRUE,
        recs |-> [i \in DOMAIN gs |->
                    [tier |-> tier, warnings |-> recommend_tier(gs[i]).warnings]]]

resolve_strategy(gs, s) ==
  CASE s = "auto" ->
         [ok |-> TRUE, recs |-> IF gs = <<>> THEN << no_gpu_fallback >>
                                ELSE [i \in DOMAIN gs |-> recommend_tier(gs[i])]]
    [] s = "none" -> [ok |-> TRUE, recs |-> <<>>]
    [] s \in {"mediated", "timesliced"} -> [ok |-> FALSE, recs |-> <<>>]
    [] OTHER -> resolve_pinned(gs, s)

PickInit == \E gs \in Gpus, q \in Strategies :
  pick = [gpus |-> gs, strategy |-> q, done |-> FALSE, result |-> [ok |-> TRUE, recs |-> <<>>]]
PickNext == ~ pick.done
            /\ pick' = [pick EXCEPT !.done = TRUE,
                          !.result = resolve_strategy(pick.gpus, pick.strategy)]

(* Whatever the machine has and the operator asks: there is a plan for     *)
(* each GPU or an error for all, a tier that 1.0 cannot run is never       *)
(* planned without a warning, and SR-IOV only on a GPU that has it.        *)
TiersWarned ==
  pick.done /\ pick.result.ok =>
    /\ \A i \in DOMAIN pick.result.recs :
          implemented_in_1_0(pick.result.recs[i].tier)
            \/ pick.result.recs[i].warnings # {}
    /\ pick.strategy # "none" /\ pick.gpus # <<>> =>
          /\ Len(pick.result.recs) = Len(pick.gpus)
          /\ \A i \in DOMAIN pick.gpus :
                pick.result.recs[i].tier = "sriov" => supports_sr_iov_tier(pick.gpus[i])

(* GpuPassthrough::assign binds the functions of the group one by one and  *)
(* opens the group only after the last; a failure returns at once and      *)
(* leaves what was bound so far bound.                                     *)
Functions == 1 .. Members
assign_binds(d, f, ok) ==
  IF ok THEN [d EXCEPT !.driver[f] = "vfio", !.step = f + 1]
  ELSE [d EXCEPT !.driver[f] = "none", !.step = 0]
assign_opens(d, ok) ==
  [d EXCEPT !.step = 0, !.held = IF ok THEN Functions ELSE {}]

(* reset_gpu: each function by VFIO, by config-space FLR when that fails.  *)
reset_gpu(d, vfio, flr) ==
  [d EXCEPT !.reset = [f \in d.held |->
     IF f \in vfio THEN "vfio" ELSE IF f \in flr THEN "flr" ELSE "failed"]]

PassInit == pass = [driver |-> [f \in Functions |-> "host"], step |-> 0,
                    held |-> {}, reset |-> <<>>]
PassNext ==
  \/ pass.step = 0 /\ pass.held = {} /\ pass' = [pass EXCEPT !.step = 1]
  \/ pass.step \in Functions /\ \E ok \in BOOLEAN :
        pass' = assign_binds(pass, pass.step, ok)
  \/ pass.step = Members + 1 /\ \E ok \in BOOLEAN : pass' = assign_opens(pass, ok)
  \/ pass.held # {} /\ \E v, w \in SUBSET Functions : pass' = reset_gpu(pass, v, w)
  \/ pass.held # {} /\ pass' = [pass EXCEPT !.held = {}, !.reset = <<>>]
  \* external: the host's driver takes a function that has none
  \/ \E f \in Functions : pass.driver[f] = "none" /\ pass.step = 0
        /\ pass' = [pass EXCEPT !.driver[f] = "host"]

(* A guest holds the GPU with its whole IOMMU group or not at all: no      *)
(* function of the group is left to a host driver.                         *)
GroupHeldWhole ==
  pass.held # {} => pass.held = Functions
                    /\ \A f \in Functions : pass.driver[f] = "vfio"

(* parse_option_rom over images [good, blocks, last]: the chain stops at   *)
(* the image marked last and is refused when it runs out of the data.      *)
rom_offset(images, k) ==
  FoldLeft(LAMBDA n, i : n + i.blocks, 0, SubSeq(images, 1, k - 1))
parse_image(r) ==
  LET k == Len(r.found) + 1  at == rom_offset(r.images, k) IN
  IF \/ k > Len(r.images) \/ ~ r.images[k].good
     \/ r.images[k].blocks = 0 \/ at + r.images[k].blocks > r.size
  THEN [r EXCEPT !.state = "refused", !.found = <<>>]
  ELSE [r EXCEPT !.found = Append(@, [offset |-> at, len |-> r.images[k].blocks]),
                 !.state = IF r.images[k].last THEN "parsed" ELSE @]

RomInit == \E x \in Roms : rom = [images |-> x.images, size |-> x.size,
                                  found |-> <<>>, state |-> "parsing"]
RomNext == rom.state = "parsing" /\ rom' = parse_image(rom)

(* The images of an accepted ROM lie one after the other inside the data,  *)
(* and the last is the only one marked so.                                 *)
RomTiled ==
  /\ \A k \in DOMAIN rom.found :
        /\ rom.found[k].len > 0
        /\ rom.found[k].offset + rom.found[k].len <= rom.size
        /\ k > 1 => rom.found[k].offset = rom.found[k - 1].offset + rom.found[k - 1].len
        /\ k < Len(rom.found) => ~ rom.images[k].last
  /\ rom.state = "parsed" => rom.found # <<>> /\ rom.images[Len(rom.found)].last
=============================================================================
