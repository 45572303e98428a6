------------------------------- MODULE Bridge -------------------------------
(* What guests and the operator exchange: the inter-guest bridge, the        *)
(* management console, and the network with the switch between guests.       *)
EXTENDS Naturals, Sequences, FiniteSets, SequencesExt

-----------------------------------------------------------------------------
(***************************************************************************)
(* The bridge's queues (bridge/transport.rs) and a guest's agent           *)
(* (bridge-agent/lib.rs) whose client two of its threads share.            *)
(***************************************************************************)
CONSTANTS
  Channels,         \* how many of the eight channels are in use
  max_queue_depth,
  MaxSends          \* bound on the messages sent

VARIABLE bus

Threads == {"t1", "t2"}

\* "at" is the queue the receiver looks at next.
BusInit ==
  bus = [next_seq |-> 0, queue |-> [c \in 1 .. Channels |-> <<>>], sending |-> [t \in Threads |-> <<>>],
         at |-> 1, accepted |-> {}, received |-> <<>>, overlap |-> FALSE]

\* send_to takes its number first, and hands the message to the transport later.
send_to(b, t, c) ==
  [b EXCEPT !.next_seq = @ + 1, !.sending[t] = <<[channel |-> c, seq |-> b.next_seq]>>,
            !.overlap = @ \/ \E u \in Threads : b.sending[u] # <<>>]
transport_send(b, t) ==
  LET m == b.sending[t][1]
      full == Len(b.queue[m.channel]) >= max_queue_depth
  IN [b EXCEPT !.sending[t] = <<>>,
               !.queue[m.channel] = IF full THEN @ ELSE Append(@, m),
               !.accepted = IF full THEN @ ELSE @ \cup {m}]

\* recv takes the queues' locks one after the other, from the first channel on; drain and
\* run_loop call it again and again.
recv(b) ==
  IF b.queue[b.at] = <<>> THEN [b EXCEPT !.at = (@ % Channels) + 1]
  ELSE [b EXCEPT !.queue[b.at] = Tail(@), !.received = Append(@, Head(b.queue[b.at])), !.at = 1]

BusNext ==
  \/ \E t \in Threads, c \in 1 .. Channels :
       bus.sending[t] = <<>> /\ bus.next_seq < MaxSends /\ bus' = send_to(bus, t, c)
  \/ \E t \in Threads : bus.sending[t] # <<>> /\ bus' = transport_send(bus, t)
  \/ bus' = recv(bus)

\* No queue grows beyond its depth, whichever threads send; a message the transport
\* accepted is received once or still queued, and none other is;
\* a channel's messages arrive in the order of their numbers unless two sends overlapped
\* (AgentClient::send_to, lib.rs 95; LocalVirtioTransport::recv, transport.rs 309).
BusExact ==
  LET got == [c \in 1 .. Channels |-> SelectSeq(bus.received, LAMBDA m : m.channel = c) \o bus.queue[c]]
  IN /\ UNION {Range(got[c]) : c \in 1 .. Channels} = bus.accepted
     /\ \A c \in 1 .. Channels : Len(bus.queue[c]) <= max_queue_depth
     /\ \A c \in 1 .. Channels, i, j \in 1 .. MaxSends :
          i < j /\ j <= Len(got[c]) => /\ got[c][i] # got[c][j]
                                       /\ ~bus.overlap => got[c][i].seq < got[c][j].seq

-----------------------------------------------------------------------------
(***************************************************************************)
(* What the agents put into messages (bridge-agent/protocol.rs): clipboard *)
(* contents, drags and shared-file operations as bytes with counts and     *)
(* lengths in little-endian fields.  A byte holds B values.                *)
(***************************************************************************)
CONSTANTS
  B,                \* values of a byte
  Clips, Drags, Ops,
  Headers           \* what is sent

VARIABLE wire

\* A number in n bytes; too large a number is an error.
le(v, n) == [i \in 1 .. n |-> (v \div (B ^ (i - 1))) % B]
Number(bytes) == FoldRight(LAMBDA b, acc : b + B * acc, bytes, 0)
Fits(v, n) == v < B ^ n
Failed == [ok |-> FALSE, bytes |-> <<>>]
Sent(bytes) == [ok |-> TRUE, bytes |-> bytes]

\* The five kinds of clipboard content: a tag and the data.
encode_clipboard(content) == Sent(<<content.tag>> \o content.data)
decode_clipboard(p) ==
  IF p = <<>> \/ Head(p) > 4 THEN [ok |-> FALSE]
  ELSE [ok |-> TRUE, value |-> [tag |-> Head(p), data |-> Tail(p)]]

push_str_list(items) ==
  IF ~Fits(Len(items), 4) \/ \E i \in DOMAIN items : ~Fits(Len(items[i]), 2) THEN Failed
  ELSE Sent(FoldLeft(LAMBDA acc, s : acc \o le(Len(s), 2) \o s, le(Len(items), 4), items))
encode_drag_payload(d) ==
  LET uris == push_str_list(d.uris)
      mimes == push_str_list(d.mimes)
      thumb == IF d.thumb = <<>> THEN <<0>> ELSE <<1>> \o le(Len(d.thumb[1]), 4) \o d.thumb[1]
  IN IF ~uris.ok \/ ~mimes.ok \/ (d.thumb # <<>> /\ ~Fits(Len(d.thumb[1]), 4)) THEN Failed
     ELSE Sent(uris.bytes \o mimes.bytes \o thumb)
encode_sharedfs_op(o) ==
  IF ~Fits(Len(o.name), 2) \/ ~Fits(Len(o.data), 4) THEN Failed
  ELSE Sent(<<o.tag>> \o le(Len(o.name), 2) \o o.name \o le(Len(o.data), 4) \o o.data)

\* The cursor: taking beyond the end fails, and stays failed.
Cursor(buf) == [rest |-> buf, ok |-> TRUE, got |-> <<>>]
take(c, n) ==
  IF ~c.ok \/ n > Len(c.rest) THEN [c EXCEPT !.ok = FALSE]
  ELSE [c EXCEPT !.rest = SubSeq(@, n + 1, Len(@)), !.got = SubSeq(c.rest, 1, n)]
take_prefixed(c, width) == LET l == take(c, width) IN IF l.ok THEN take(l, Number(l.got)) ELSE l
RECURSIVE take_items(_, _, _)
take_items(c, n, acc) ==
  IF n = 0 \/ ~c.ok THEN [c EXCEPT !.got = acc]
  ELSE LET s == take_prefixed(c, 2) IN take_items(s, n - 1, Append(acc, s.got))
str_list(c) == LET l == take(c, 4) IN IF l.ok THEN take_items(l, Number(l.got), <<>>) ELSE l

decode_drag_payload(p) ==
  LET uris == str_list(Cursor(p))
      mimes == str_list(uris)
      flag == take(mimes, 1)
      thumb == IF flag.ok /\ flag.got = <<1>> THEN take_prefixed(flag, 4) ELSE flag
  IN IF ~thumb.ok \/ Head(flag.got) > 1 \/ thumb.rest # <<>> THEN [ok |-> FALSE]
     ELSE [ok |-> TRUE, value |-> [uris |-> uris.got, mimes |-> mimes.got,
                                   thumb |-> IF flag.got = <<1>> THEN <<thumb.got>> ELSE <<>>]]
decode_sharedfs_op(p) ==
  LET tag == take(Cursor(p), 1)
      name == take_prefixed(tag, 2)
      data == take_prefixed(name, 4)
      o == [tag |-> Head(tag.got), name |-> name.got, data |-> data.got]
  IN IF ~data.ok \/ data.rest # <<>> \/ Head(tag.got) > 3 THEN [ok |-> FALSE]
     ELSE IF (o.tag # 0 /\ o.data # <<>>) \/ (o.tag = 2 /\ o.name # <<>>) THEN [ok |-> FALSE]
     ELSE [ok |-> TRUE, value |-> o]

\* A bridge message: a header of 32 bytes and the payload; bytes after it are ignored.
to_bytes(m) ==
  Sent(le(m.src, 2) \o le(m.dst, 2) \o <<m.channel, 0>> \o le(Len(m.payload), 4) \o le(m.seq, 8)
       \o <<0>> \o [i \in 1 .. 13 |-> 0] \o m.payload)
from_bytes(buf) ==
  LET len == Number(SubSeq(buf, 7, 10))
  IN IF Len(buf) < 32 THEN [ok |-> FALSE]
     ELSE IF buf[5] > 7 \/ Len(buf) < 32 + len THEN [ok |-> FALSE]
     ELSE [ok |-> TRUE, value |-> [src |-> Number(SubSeq(buf, 1, 2)), dst |-> Number(SubSeq(buf, 3, 4)),
                                   channel |-> buf[5], seq |-> Number(SubSeq(buf, 11, 18)),
                                   payload |-> SubSeq(buf, 33, 32 + len)]]

encode(k, v) ==
  CASE k = "frame" -> to_bytes(v) [] k = "clip" -> encode_clipboard(v) [] k = "drag" -> encode_drag_payload(v) [] OTHER -> encode_sharedfs_op(v)
decode(k, p) ==
  CASE k = "frame" -> from_bytes(p) [] k = "clip" -> decode_clipboard(p) [] k = "drag" -> decode_drag_payload(p) [] OTHER -> decode_sharedfs_op(p)

Unsent(k, v) == [kind |-> k, v |-> v, e |-> Failed, stage |-> "new", d |-> [ok |-> FALSE]]
WireInit ==
  \/ \E v \in Headers : wire = Unsent("frame", v)
  \/ \E v \in Clips : wire = Unsent("clip", v)
  \/ \E v \in Drags : wire = Unsent("drag", v)
  \/ \E v \in Ops : wire = Unsent("op", v)

\* The bytes arrive whole, cut short, or with a byte more.
WireNext ==
  \/ wire.stage = "new" /\ wire' = [wire EXCEPT !.stage = "sent", !.e = encode(wire.kind, wire.v)]
  \/ /\ wire.stage = "sent" /\ wire.e.ok
     /\ \/ wire' = [wire EXCEPT !.stage = "whole", !.d = decode(wire.kind, wire.e.bytes)]
        \/ \E n \in 0 .. Len(wire.e.bytes) - 1 :
             wire' = [wire EXCEPT !.stage = "cut", !.d = decode(wire.kind, SubSeq(wire.e.bytes, 1, n))]
        \/ \E b \in 0 .. B - 1 :
             wire' = [wire EXCEPT !.stage = "long", !.d = decode(wire.kind, Append(wire.e.bytes, b))]

\* What was sent is what is read; a message, a drag or a file operation cut short is
\* refused, never read as another, and so is one with bytes left over, but for the message,
\* whose length says where it ends; and only a length that does not fit its field is
\* refused when it is written (protocol.rs 102 and 202, transport.rs 207).
PayloadsMeanTheSame ==
  /\ wire.stage = "whole" => wire.d.ok /\ wire.d.value = wire.v
  /\ wire.stage = "cut" /\ wire.kind # "clip" => ~wire.d.ok
  /\ wire.stage = "long" /\ wire.kind = "frame" => wire.d.ok /\ wire.d.value = wire.v
  /\ wire.stage = "long" /\ wire.kind \in {"drag", "op"} => ~wire.d.ok
  /\ wire.stage = "sent" /\ ~wire.e.ok =>
       \E s \in Range(IF wire.kind = "drag" THEN wire.v.uris \o wire.v.mimes ELSE <<wire.v.name>>) :
         Len(s) >= B * B

-----------------------------------------------------------------------------
(***************************************************************************)
(* The management connection (enlil-mgmt-proto): messages as a length and  *)
(* that many bytes, delivered by the stream in pieces of any size.         *)
(***************************************************************************)
CONSTANTS
  Messages,         \* the byte sequences a message is serialised to
  MAX_FRAME,        \* the decoder's limit on a frame (16 MiB)
  MaxFrames         \* bound on the messages sent

VARIABLE mgmt

MgmtInit == mgmt = [sent |-> <<>>, stream |-> <<>>, closed |-> FALSE, buf |-> <<>>, got |-> <<>>, end |-> "open"]

mgmt_encode(m) == le(Len(m), 4) \o m
mgmt_send(d, m) == [d EXCEPT !.sent = Append(@, m), !.stream = @ \o mgmt_encode(m)]

\* decode: nothing yet, a message, or a frame larger than the limit.
FrameLength(buf) == Number(SubSeq(buf, 1, 4))
Complete(buf) == Len(buf) >= 4 /\ Len(buf) >= 4 + FrameLength(buf)
TooLarge(buf) == Len(buf) >= 4 /\ FrameLength(buf) > MAX_FRAME
mgmt_decode(d) ==
  LET len == FrameLength(d.buf)
  IN IF TooLarge(d.buf) THEN [d EXCEPT !.end = "too large"]
     ELSE [d EXCEPT !.buf = SubSeq(@, 5 + len, Len(@)), !.got = Append(@, SubSeq(d.buf, 5, 4 + len))]

\* recv decodes what it has, and otherwise reads what the stream hands over.
recv_read(d, n) ==
  IF d.stream = <<>> THEN [d EXCEPT !.end = "disconnected"]
  ELSE [d EXCEPT !.buf = @ \o SubSeq(d.stream, 1, n), !.stream = SubSeq(@, n + 1, Len(@))]

MgmtNext ==
  \/ \E m \in Messages : ~mgmt.closed /\ Len(mgmt.sent) < MaxFrames /\ mgmt' = mgmt_send(mgmt, m)
  \/ \* The peer goes, with the last bytes it wrote or without some of them.
     \E n \in 0 .. Len(mgmt.stream) :
       ~mgmt.closed /\ mgmt' = [mgmt EXCEPT !.closed = TRUE, !.stream = SubSeq(@, 1, n)]
  \/ /\ mgmt.end = "open"
     /\ IF Complete(mgmt.buf) \/ TooLarge(mgmt.buf) THEN mgmt' = mgmt_decode(mgmt)
        ELSE /\ mgmt.stream # <<>> \/ mgmt.closed
             /\ \E n \in 1 .. Len(mgmt.stream) + (IF mgmt.stream = <<>> THEN 1 ELSE 0) : mgmt' = recv_read(mgmt, n)

\* However the stream cuts them up, what is received is what was sent, in order, and the
\* console only stops short of a message when that message is beyond the limit or the peer
\* went before all of it had arrived (FrameDecoder::decode, lib.rs 348).
FramesIntact ==
  LET n == Len(mgmt.got)
  IN /\ n <= Len(mgmt.sent) /\ mgmt.got = SubSeq(mgmt.sent, 1, n)
     /\ \A i \in 1 .. n : Len(mgmt.got[i]) <= MAX_FRAME
     /\ mgmt.end = "too large" => n < Len(mgmt.sent) /\ Len(mgmt.sent[n + 1]) > MAX_FRAME
     /\ mgmt.end = "disconnected" => mgmt.closed /\ ~Complete(mgmt.buf)

-----------------------------------------------------------------------------
(***************************************************************************)
(* The clipboard hub (bridge/clipboard.rs): a write takes the policy's     *)
(* lock, then the counter's, then the history's, and gives each back       *)
(* before it takes the next.                                               *)
(***************************************************************************)
CONSTANTS
  Guests,
  Contents,         \* clipboard contents, with "type" and "size"
  DefaultPolicy,
  Policies,         \* the default and others: "types", "max_size", "read_allowed" and "write_allowed"
  max_history,
  MaxWrites         \* bound on writes

VARIABLE hub

HubInit ==
  hub = [policy |-> [g \in Guests |-> DefaultPolicy], sequence |-> 0, history |-> <<>>, begun |-> 0,
         writing |-> [g \in Guests |-> [stage |-> "idle"]], answer |-> <<>>,
         changed |-> {}, overlap |-> FALSE]

allows(p, c) == c.size <= p.max_size /\ c.type \in p.types
hub_set_policy(h, g, p) == [h EXCEPT !.policy[g] = p, !.changed = @ \cup {g}]

write_checked(h, g, c) ==
  [h EXCEPT !.begun = @ + 1,
            !.writing[g] = IF h.policy[g].write_allowed /\ allows(h.policy[g], c)
                           THEN [stage |-> "checked", content |-> c] ELSE @]
write_numbered(h, g) ==
  [h EXCEPT !.sequence = @ + 1,
            !.writing[g] = [stage |-> "numbered",
                            entry |-> [content |-> h.writing[g].content, sequence |-> h.sequence, source |-> g]],
            !.overlap = @ \/ \E o \in Guests : h.writing[o].stage = "numbered"]
write_pushed(h, g) ==
  LET all == Append(h.history, h.writing[g].entry)
  IN [h EXCEPT !.history = IF Len(all) > max_history THEN Tail(all) ELSE all,
               !.writing[g] = [stage |-> "idle"]]
read(h, g) ==
  [h EXCEPT !.answer = IF h.policy[g].read_allowed /\ h.history # <<>>
                       THEN <<Last(h.history).content>> ELSE <<>>]

HubNext ==
  \E g \in Guests :
    \/ \E p \in Policies : hub.changed = {} /\ p # hub.policy[g] /\ hub' = hub_set_policy(hub, g, p)
    \/ /\ hub.writing[g].stage = "idle" /\ hub.begun < MaxWrites
       /\ \E c \in Contents : hub' = write_checked(hub, g, c)
    \/ hub.writing[g].stage = "checked" /\ hub' = write_numbered(hub, g)
    \/ hub.writing[g].stage = "numbered" /\ hub' = write_pushed(hub, g)
    \/ hub' = read(hub, g)

\* The history holds the newest entries, each numbered once and allowed by its guest's
\* policy unless that changed since, and in the order of their numbers with none missing
\* unless two writes overlapped (ClipboardHub::write, clipboard.rs 129).
HistoryNewest ==
  LET h == hub.history
  IN /\ Len(h) <= max_history
     /\ \A i, j \in DOMAIN h : i < j => h[i].sequence # h[j].sequence
     /\ \A i \in DOMAIN h : h[i].source \in hub.changed \/ allows(hub.policy[h[i].source], h[i].content)
     /\ ~hub.overlap =>
          LET inHand == Cardinality({g \in Guests : hub.writing[g].stage = "numbered"})
          IN \A i \in DOMAIN h : h[i].sequence = hub.sequence - inHand - Len(h) + i - 1

-----------------------------------------------------------------------------
(***************************************************************************)
(* Drags between guests (bridge/dragdrop.rs).                              *)
(***************************************************************************)
CONSTANTS
  Types,            \* MIME types
  MaxDrags          \* bound on drags and registrations

VARIABLE drag

DragInit == drag = [state |-> [at |-> "Idle"], caps |-> <<>>, starts |-> 0, drops |-> <<>>, registered |-> 0, hovered |-> {}]

register_guest(d, g, types) ==
  [d EXCEPT !.caps = [x \in DOMAIN @ \cup {g} |-> IF x = g THEN types ELSE @[x]],
            !.registered = @ + 1, !.hovered = @ \ {g}]
start_drag(d, g, types) ==
  IF d.state.at # "Idle" \/ g \notin DOMAIN d.caps THEN d
  ELSE [d EXCEPT !.state = [at |-> "Dragging", source |-> g, types |-> types], !.starts = @ + 1]
hover(d, g) ==
  IF d.state.at # "Dragging" \/ g \notin DOMAIN d.caps THEN d
  ELSE IF d.state.source = g \/ d.state.types \cap d.caps[g] = {} THEN d
  ELSE [d EXCEPT !.state = [at |-> "Hovering", source |-> d.state.source, target |-> g, types |-> d.state.types],
                 !.hovered = {g}]
drop(d) ==
  IF d.state.at # "Hovering" THEN d
  ELSE [d EXCEPT !.state = [at |-> "Dropped"],
                 !.drops = Append(@, [from |-> d.state.source, to |-> d.state.target, types |-> d.state.types,
                                      drag |-> d.starts])]
cancel(d) == [d EXCEPT !.state = [at |-> "Idle"]]

DragNext ==
  \/ \E g \in Guests, ts \in SUBSET Types : drag.registered < MaxDrags /\ drag' = register_guest(drag, g, ts)
  \/ \E g \in Guests, ts \in SUBSET Types : drag.starts < MaxDrags - 1 /\ drag' = start_drag(drag, g, ts)
  \/ \E g \in Guests : drag' = hover(drag, g)
  \/ drag' = drop(drag)
  \/ drag' = cancel(drag)

\* A drag is dropped at most once, on another guest than it came from; and a guest hovered
\* over takes one of the types offered unless it has registered anew since
\* (DragDropManager::hover and drop, dragdrop.rs 113 and 152).
DropsFit ==
  /\ \A i, j \in DOMAIN drag.drops : i < j => drag.drops[i].drag < drag.drops[j].drag
  /\ \A i \in DOMAIN drag.drops : drag.drops[i].from # drag.drops[i].to /\ drag.drops[i].types # {}
  /\ drag.state.at = "Hovering" /\ drag.state.target \in drag.hovered =>
       drag.state.types \cap drag.caps[drag.state.target] # {}

-----------------------------------------------------------------------------
(***************************************************************************)
(* Notifications (bridge/notification.rs), limited per guest and minute.   *)
(* A time stamp later than now does not count as recent.                   *)
(***************************************************************************)
CONSTANTS
  Window,           \* a minute
  Limits,           \* policies: "threshold", "blocked" apps, "allowed" apps, "max_per_minute"
  Notes,            \* notifications: "source", "urgency", "app"
  MaxTime

VARIABLE notes

NotesInit ==
  notes = [now |-> 0, policy |-> <<>>, history |-> [g \in Guests |-> <<>>], last |-> {}, limit |-> [g \in Guests |-> 0],
           changes |-> 0, stepped |-> FALSE]

note_policy(d, g, p) ==
  [d EXCEPT !.policy = [x \in DOMAIN @ \cup {g} |-> IF x = g THEN p ELSE @[x]], !.changes = @ + 1, !.last = {},
            !.limit[g] = IF p.max_per_minute > @ THEN p.max_per_minute ELSE @]
is_allowed(p, n) ==
  n.urgency >= p.threshold /\ n.app \notin p.blocked /\ (p.allowed = {} \/ n.app \in p.allowed)
Recent(h, now) == Cardinality({i \in DOMAIN h : h[i] <= now /\ now - h[i] < Window})
route(d, n) ==
  LET to == {g \in DOMAIN d.policy : /\ g # n.source /\ is_allowed(d.policy[g], n)
                                     /\ Recent(d.history[g], d.now) < d.policy[g].max_per_minute}
  IN [d EXCEPT !.history = [g \in Guests |-> IF g \in to THEN Append(@[g], d.now) ELSE @[g]],
               !.last = {[to |-> g, note |-> n] : g \in to}]

NotesNext ==
  \/ \E g \in Guests, p \in Limits : notes.changes < 2 /\ notes' = note_policy(notes, g, p)
  \/ \E n \in Notes : notes' = route(notes, n)
  \/ notes.now < MaxTime /\ notes' = [notes EXCEPT !.now = @ + 1]
  \/ notes.now > 0 /\ ~notes.stepped /\ notes' = [notes EXCEPT !.now = @ - 1, !.stepped = TRUE]

\* While the clock does not step back, no guest gets more in any minute than the largest
\* limit its policies allowed; no notification returns to the guest it came from or
\* reaches one whose policy blocks it (NotificationRouter::route, notification.rs 117).
NotesLimited ==
  /\ ~notes.stepped => \A g \in Guests, t \in 0 .. MaxTime :
       Cardinality({i \in DOMAIN notes.history[g] : notes.history[g][i] \in t .. t + Window - 1}) <= notes.limit[g]
  /\ \A e \in notes.last : /\ e.to # e.note.source /\ e.note.app \notin notes.policy[e.to].blocked
                           /\ e.note.urgency >= notes.policy[e.to].threshold

-----------------------------------------------------------------------------
(***************************************************************************)
(* Links (bridge/url_router.rs): the guest registered for a link's scheme. *)
(* Characters: lower and upper case letters, a digit, a blank, a colon and *)
(* another sign.                                                           *)
(***************************************************************************)
CONSTANTS
  Spellings,        \* how a scheme is named when its handler is registered
  Urls

VARIABLE url

Lower(c) == IF c = "A" THEN "a" ELSE c
to_ascii_lowercase(s) == [i \in DOMAIN s |-> Lower(s[i])]
trim(s) ==
  LET in == {i \in DOMAIN s : s[i] # " "}
  IN IF in = {} THEN <<>> ELSE SubSeq(s, CHOOSE i \in in : \A j \in in : i <= j, CHOOSE i \in in : \A j \in in : j <= i)
trim_end_colons(s) ==
  LET in == {i \in DOMAIN s : s[i] # ":"}
  IN IF in = {} THEN <<>> ELSE SubSeq(s, 1, CHOOSE i \in in : \A j \in in : j <= i)
normalize_scheme(s) == to_ascii_lowercase(trim_end_colons(trim(s)))

\* None when there is no colon or what precedes the first one is no scheme.
parse_scheme(u) ==
  LET colons == {i \in DOMAIN u : u[i] = ":"}
      token == SubSeq(u, 1, (CHOOSE i \in colons : \A j \in colons : i <= j) - 1)
  IN IF colons = {} THEN <<>>
     ELSE IF token = <<>> THEN <<>>
     ELSE IF token[1] \notin {"a", "A"} \/ \E i \in DOMAIN token : token[i] \notin {"a", "A", "1"} THEN <<>>
     ELSE to_ascii_lowercase(token)

UrlInit == url = [handlers |-> <<>>, default |-> "none", left |-> 2, asked |-> <<>>, answer |-> "none"]

url_register(d, s, g) ==
  [d EXCEPT !.handlers = [x \in DOMAIN @ \cup {normalize_scheme(s)} |-> IF x = normalize_scheme(s) THEN g ELSE @[x]]]
url_unregister(d, s) ==
  [d EXCEPT !.handlers = [x \in DOMAIN @ \ {normalize_scheme(s)} |-> @[x]]]
set_default_guest(d, g) == [d EXCEPT !.default = g]
resolve(d, u) ==
  LET s == parse_scheme(u)
  IN IF s = <<>> THEN "invalid" ELSE IF s \in DOMAIN d.handlers THEN d.handlers[s] ELSE d.default

UrlNext ==
  LET m == [url EXCEPT !.left = @ - 1, !.asked = <<>>, !.answer = "none"]
  IN \/ /\ url.left > 0
        /\ \/ \E s \in Spellings, g \in Guests : url' = url_register(m, s, g)
           \/ \E s \in Spellings : url' = url_unregister(m, s)
           \/ \E g \in Guests \cup {"none"} : url' = set_default_guest(m, g)
     \/ \E u \in Urls : url' = [url EXCEPT !.asked = u, !.answer = resolve(url, u)]

\* A link goes by its scheme in any case: two links that differ only in the case of their
\* letters go to the same guest, and a guest registered under any spelling of a scheme gets
\* every link of that scheme (UrlRouter::register and resolve, url_router.rs 69 and 102).
LinksByScheme ==
  /\ url.asked # <<>> => url.answer = resolve(url, to_ascii_lowercase(url.asked))
  /\ \A s \in DOMAIN url.handlers : s = to_ascii_lowercase(s) /\ (s # <<>> => Last(s) # ":")
  /\ url.asked # <<>> /\ url.answer # "invalid" =>
       \A s \in DOMAIN url.handlers : s = parse_scheme(url.asked) => url.answer = url.handlers[s]

-----------------------------------------------------------------------------
(***************************************************************************)
(* The operator's console (enlil-mgmt) and the service that answers it     *)
(* (enlil-core/usb_service.rs).  Guests and monitors are answered by a     *)
(* service outside this repository.  A row has a key and a holder, "none"  *)
(* for the hypervisor; messages in both directions keep their order.       *)
(***************************************************************************)
CONSTANTS
  Devices,          \* USB bus addresses, in order
  Monitors,
  GuestLists,       \* what the guests' list may be
  MaxKeys,          \* bound on keys pressed
  MaxPlugs          \* bound on devices coming and going

VARIABLE con

Tabs == <<"guests", "usb", "displays">>
TabNo(t) == CHOOSE i \in 1 .. 3 : Tabs[i] = t
Row(k, h) == [key |-> k, holder |-> h]

ConInit ==
  \E gl \in GuestLists :
    con = [tab |-> "guests", rows |-> [t \in Range(Tabs) |-> <<>>], selected |-> [t \in Range(Tabs) |-> 0],
           next_id |-> [t \in Range(Tabs) |-> 0], answered |-> [t \in Range(Tabs) |-> 0], quit |-> FALSE,
           up |-> <<[m |-> "guests"], [m |-> "usb"], [m |-> "displays"]>>, down |-> <<>>,
           guests |-> gl, placed |-> [d \in Range(Devices) |-> gl[1]], monitors |-> [m \in Range(Monitors) |-> "none"],
           keys |-> 0, plugs |-> 0, unlisted |-> FALSE, astray |-> FALSE]

\* A new list: the cursor stays on the row it was on, or within the list.
Anchored(c, t, list) ==
  LET old == c.rows[t]
      same == {i \in DOMAIN list : old # <<>> /\ list[i].key = old[c.selected[t] + 1].key}
      last == IF list = <<>> THEN 0 ELSE Len(list) - 1
  IN [c EXCEPT !.rows[t] = list,
               !.selected[t] = IF same # {} THEN (CHOOSE i \in same : TRUE) - 1 ELSE IF @ < last THEN @ ELSE last]
set_guests(c, list) == Anchored(c, "guests", list)
set_devices(c, list) == Anchored(c, "usb", list)
set_monitors(c, list) == Anchored(c, "displays", list)

select_next(c) ==
  LET n == Len(c.rows[c.tab]) IN IF n = 0 THEN c ELSE [c EXCEPT !.selected[c.tab] = (@ + 1) % n]
select_prev(c) ==
  LET n == Len(c.rows[c.tab]) IN IF n = 0 THEN c ELSE [c EXCEPT !.selected[c.tab] = (@ + n - 1) % n]

Selected(c) == c.rows[c.tab][c.selected[c.tab] + 1]

\* The next guest after the holder, not the holder itself; "none" if there is no other.
cycle_target(c) ==
  LET gs == [i \in DOMAIN c.rows["guests"] |-> c.rows["guests"][i].key]
      h == Selected(c).holder
      start == IF h \in Range(gs) THEN CHOOSE i \in DOMAIN gs : gs[i] = h ELSE 0
      others == {o \in 0 .. Len(gs) - 1 : gs[((start + o) % Len(gs)) + 1] # h}
  IN IF others = {} THEN "none"
     ELSE gs[((start + (CHOOSE o \in others : \A p \in others : o <= p)) % Len(gs)) + 1]

command(c, action, key, target) ==
  [c EXCEPT !.next_id[c.tab] = @ + 1,
            !.up = Append(@, [m |-> "command", tab |-> c.tab, id |-> c.next_id[c.tab], action |-> action,
                              key |-> key, target |-> target])]
reassign_action(c, target) ==
  IF target = "none" \/ Selected(c).holder = target THEN c ELSE command(c, "assign", Selected(c).key, target)
detach_action(c) ==
  IF Selected(c).holder = "none" THEN c ELSE command(c, "release", Selected(c).key, "none")
kvm_switch_action(c) ==
  IF Selected(c).holder = "none" THEN c ELSE command(c, "switch", Selected(c).key, Selected(c).holder)
\* Start, stop or reboot, as the guest's state allows; the row's holder is its state.
guest_action(c, action) ==
  LET state == Selected(c).holder
      sensible == CASE action = "start" -> state # "running" [] action = "stop" -> state # "stopped"
                    [] OTHER -> state = "running"
  IN IF sensible THEN command(c, action, Selected(c).key, "none") ELSE c

refresh_request(c) == [c EXCEPT !.up = Append(@, [m |-> c.tab])]
goto_tab(c, t) == refresh_request([c EXCEPT !.tab = t])
cycle_tab(c) == goto_tab(c, Tabs[(TabNo(c.tab) % 3) + 1])

on_tab_key(c, k) ==
  IF c.rows[c.tab] = <<>> THEN c
  ELSE CASE c.tab = "guests" /\ k \in {"start", "stop", "reboot"} -> guest_action(c, k)
         [] c.tab # "guests" /\ k = "c" -> reassign_action(c, cycle_target(c))
         [] c.tab # "guests" /\ k = "d" -> detach_action(c)
         [] c.tab = "displays" /\ k = "K" -> kvm_switch_action(c)
         [] OTHER -> c
on_key(c, k) ==
  CASE k = "q" -> [c EXCEPT !.quit = TRUE]
    [] k = "tab" -> cycle_tab(c)
    [] k = "j" -> select_next(c)
    [] k = "k" -> select_prev(c)
    [] k = "R" -> refresh_request(c)
    [] OTHER -> on_tab_key(c, k)
Keys == {"q", "tab", "j", "k", "R", "c", "d", "K", "start", "stop"}

on_server_message(c, m) ==
  CASE m.m = "guests" -> set_guests(c, m.list)
    [] m.m = "usb" -> set_devices(c, m.list)
    [] m.m = "displays" -> set_monitors(c, m.list)
    [] m.m = "answer" -> [c EXCEPT !.answered[m.tab] = @ + 1, !.astray = @ \/ m.id # c.answered[m.tab]]
    [] OTHER -> c

\* The USB service: known devices in the order of their addresses.
device_list(c) ==
  LET known == SelectSeq(Devices, LAMBDA d : d \in DOMAIN c.placed)
  IN [i \in DOMAIN known |-> Row(known[i], c.placed[known[i]])]
Reply(c, m) == [c EXCEPT !.down = Append(@, m)]
SendDevices(c) == [Reply(c, [m |-> "usb", list |-> device_list(c)]) EXCEPT !.unlisted = FALSE]
Answer(c, m, ok) == Reply(c, [m |-> "answer", tab |-> m.tab, id |-> m.id, ok |-> ok])

\* A device with the hypervisor cannot be moved, nor one whose target refuses it.
reassign(c, m, room) == m.key \in DOMAIN c.placed /\ c.placed[m.key] # "none" /\ room
service_detach(c, m) == m.key \in DOMAIN c.placed /\ c.placed[m.key] # "none"
apply_usb_command(c, m, room) ==
  LET ok == IF m.action = "assign" THEN reassign(c, m, room) ELSE service_detach(c, m)
  IN IF ok THEN SendDevices(Answer([c EXCEPT !.placed[m.key] = m.target], m, TRUE)) ELSE Answer(c, m, FALSE)

\* The service for guests and monitors.
OtherService(c, m, ok) ==
  CASE m.m = "guests" -> Reply(c, [m |-> "guests", list |-> [i \in DOMAIN c.guests |-> Row(c.guests[i], IF i = 1 THEN "running" ELSE "stopped")]])
    [] m.m = "displays" -> Reply(c, [m |-> "displays", list |-> [i \in DOMAIN Monitors |-> Row(Monitors[i], c.monitors[Monitors[i]])]])
    [] OTHER -> Answer([c EXCEPT !.monitors = IF ok /\ m.tab = "displays" /\ m.action # "switch"
                                              THEN [@ EXCEPT ![m.key] = m.target] ELSE @], m, ok)

handle_client_message(c, m, ok) ==
  CASE m.m = "usb" -> SendDevices(c)
    [] m.m = "command" /\ m.tab = "usb" -> apply_usb_command(c, m, ok)
    [] OTHER -> OtherService(c, m, ok)

attach_device(c, d, g) == [c EXCEPT !.placed = [x \in DOMAIN @ \cup {d} |-> IF x = d THEN g ELSE @[x]], !.unlisted = TRUE]
note_disconnect(c, d) == [c EXCEPT !.placed = [x \in DOMAIN @ \ {d} |-> @[x]], !.unlisted = TRUE]

ConNext ==
  \/ \E k \in Keys : /\ ~con.quit /\ con.keys < MaxKeys
                     /\ con' = on_key([con EXCEPT !.keys = @ + 1], k)
  \/ ~con.quit /\ con.down # <<>> /\ con' = on_server_message([con EXCEPT !.down = Tail(@)], Head(con.down))
  \/ \E ok \in BOOLEAN : con.up # <<>> /\ con' = handle_client_message([con EXCEPT !.up = Tail(@)], Head(con.up), ok)
  \/ /\ con.plugs < MaxPlugs
     /\ LET m == [con EXCEPT !.plugs = @ + 1]
        IN \E d \in Range(Devices) : \/ d \notin DOMAIN con.placed /\ con' = attach_device(m, d, con.guests[1])
                                     \/ d \in DOMAIN con.placed /\ con' = note_disconnect(m, d)

\* Every command is answered once, and in the order in which its tab sent them; the cursor
\* is on a row; and once all messages are through, the USB tab shows where every device is,
\* unless one came or went after the last list (apply_usb_command, usb_service.rs 151).
ConsoleTrue ==
  LET onTheWay(t) == Len(SelectSeq(con.down, LAMBDA m : m.m = "answer" /\ m.tab = t))
                       + Len(SelectSeq(con.up, LAMBDA m : m.m = "command" /\ m.tab = t))
  IN /\ ~con.astray
     /\ \A t \in Range(Tabs) : /\ con.answered[t] + onTheWay(t) = con.next_id[t]
                               /\ con.selected[t] < Len(con.rows[t]) \/ con.selected[t] = 0
     /\ con.up = <<>> /\ con.down = <<>> /\ ~con.unlisted => con.rows["usb"] = device_list(con)

\* No list moves the cursor to another device, monitor or guest while the one it is on is
\* still listed (UsbTabState::set_devices, usb_tab.rs 38; display_tab.rs 39; guest_tab.rs 53).
CursorStays ==
  \A t \in Range(Tabs) :
    con.rows[t] # con'.rows[t] /\ con.rows[t] # <<>> =>
      LET k == con.rows[t][con.selected[t] + 1].key
      IN (\E i \in DOMAIN con'.rows[t] : con'.rows[t][i].key = k) => con'.rows[t][con'.selected[t] + 1].key = k

-----------------------------------------------------------------------------
(* The virtio network device (enlil-devices net/device.rs) on its two        *)
(* virtqueues (net/virtqueue.rs) and its control queue (net/control.rs).  A  *)
(* frame is its destination and an arrival number; the host network, which   *)
(* delivers frames and takes them, is the backend trait (net/backend.rs).    *)
CONSTANTS
    CAPACITY,   \* Virtqueue.capacity: how many buffers a queue holds
    W,          \* descriptor indices wrap at W (u16 in the code)
    NetMacs,       \* unicast addresses in play
    Dsts,       \* destinations of arriving frames
    Modes,      \* receive modes the driver switches
    Offers,     \* feature sets the driver may negotiate: <<merge, csum, control>>
    MaxHeld,    \* bound: buffers of a queue outstanding, read or not
    MaxArrivals   \* bound: frames the network delivers; also names no frame

VARIABLE net

Queue == [available |-> <<>>, used |-> <<>>, next_index |-> 0, enabled |-> FALSE]

\* RxFilterMode, the two address tables, and the negotiated receive offload.
Control == [mode |-> {}, unicast |-> {}, multicast |-> FALSE, csum |-> FALSE]

HomeMac == CHOOSE m \in NetMacs : TRUE

NetInit ==
    net = [active |-> FALSE, ctrl_vq |-> TRUE, merge |-> FALSE, gcsum |-> TRUE,
           mac |-> HomeMac, tx |-> Queue, rx |-> Queue, rx_pending |-> <<>>,
           control |-> [Control EXCEPT !.csum = TRUE],
           wire |-> <<>>, arrived |-> 0, dropped |-> {}]

push_available(q, data) ==
    IF Len(q.available) >= CAPACITY THEN q
    ELSE [q EXCEPT !.available = Append(@, [index |-> q.next_index, data |-> data, frame |-> MaxArrivals]),
                   !.next_index = (@ + 1) % W]

\* One available buffer is consumed and handed back as used.
give_back(q, frame) ==
    [q EXCEPT !.available = Tail(@),
              !.used = Append(@, [Head(q.available) EXCEPT !.frame = frame])]

\* VirtioNetDevice::activate with the negotiated features.
activate(d, merge, gcsum, ctrl) ==
    [d EXCEPT !.active = TRUE, !.merge = merge, !.gcsum = gcsum, !.ctrl_vq = ctrl,
              !.control.csum = gcsum, !.tx.enabled = TRUE, !.rx.enabled = TRUE]

\* VirtioNetDevice::reset: the MAC address is the one thing kept.
reset(d) ==
    [d EXCEPT !.active = FALSE, !.merge = FALSE, !.gcsum = TRUE, !.ctrl_vq = TRUE,
              !.tx = Queue, !.rx = Queue, !.rx_pending = <<>>, !.control = Control,
              !.dropped = @ \cup {f.id : f \in Range(d.rx_pending)}]

\* process_control and its handlers; a refused command changes nothing.
process_control(d, cmd, arg) ==
    CASE ~ d.ctrl_vq -> d
      [] cmd = "on"  -> [d EXCEPT !.control.mode = @ \cup {arg}]
      [] cmd = "off" -> [d EXCEPT !.control.mode = @ \ {arg}]
      [] cmd = "mac" -> [d EXCEPT !.mac = arg]
      [] cmd = "table" -> [d EXCEPT !.control.unicast = arg[1], !.control.multicast = arg[2]]
      [] cmd = "offload" -> IF arg => d.gcsum THEN [d EXCEPT !.control.csum = arg] ELSE d

\* accepts_frame
accepts_frame(d, dst) ==
    LET c == d.control
    IN \/ "promisc" \in c.mode
       \/ dst = "broadcast" /\ "nobcast" \notin c.mode
       \/ dst = "multicast" /\ "nomulti" \notin c.mode
                            /\ ("allmulti" \in c.mode \/ c.multicast)
       \/ dst \in NetMacs /\ "nouni" \notin c.mode
                       /\ ("alluni" \in c.mode \/ dst = d.mac \/ dst \in c.unicast)

\* process_tx: every available descriptor goes back in turn.  One shorter than
\* the header, with a checksum field outside the frame, or refused by the
\* backend is counted as an error and goes back all the same.
process_tx(d) ==
    IF ~ d.tx.enabled THEN d
    ELSE [d EXCEPT !.tx = FoldLeft(LAMBDA q, n : give_back(q, MaxArrivals), @,
                                   [n \in 1..Len(d.tx.available) |-> n])]

\* rx_header().to_bytes: the header is made when the frame is received.
rx_header(d, f) == [id |-> f.id, dst |-> f.dst, merge |-> d.merge, valid |-> d.control.csum]

\* First half of process_rx: drain the backend through the filter.
receive(d) ==
    LET good == SelectSeq(d.wire, LAMBDA f : accepts_frame(d, f.dst))
    IN [d EXCEPT !.wire = <<>>,
                 !.rx_pending = @ \o [k \in 1..Len(good) |-> rx_header(d, good[k])],
                 !.dropped = @ \cup {f.id : f \in Range(d.wire) \ Range(good)}]

\* Second half: one pending frame into one buffer; a buffer too small for it
\* goes back and the frame is dropped.
deliver(d) ==
    IF d.rx_pending = <<>> \/ d.rx.available = <<>> THEN d
    ELSE LET f == Head(d.rx_pending)
             small == Head(d.rx.available).data = "small"
         IN [d EXCEPT !.rx_pending = Tail(@),
                      !.rx = give_back(@, IF small THEN MaxArrivals ELSE f.id),
                      !.dropped = IF small THEN @ \cup {f.id} ELSE @]

process_rx(d) ==
    IF ~ d.rx.enabled THEN d
    ELSE LET e == receive(d)
         IN FoldLeft(LAMBDA x, n : deliver(x), e, [n \in 1..Len(e.rx_pending) |-> n])

\* The network hands the backend a frame (external).
Arrive ==
    /\ net.arrived < MaxArrivals
    /\ \E dst \in Dsts :
         net' = [net EXCEPT !.arrived = @ + 1,
                            !.wire = Append(@, [id |-> net.arrived, dst |-> dst])]

\* The driver takes one completion of a queue (external); pop_used.
Collect(q) == net[q].used # <<>> /\ net' = [net EXCEPT ![q].used = Tail(@)]

\* The driver offers a buffer; push_available may refuse it.
Post(q, b) ==
    /\ Len(net[q].used) + Len(net[q].available) < MaxHeld
    /\ net' = [net EXCEPT ![q] = push_available(@, b)]

\* The driver only talks to a device it has started and that took its buffers.
Driver ==
    \/ /\ ~ net.active
       /\ \E o \in Offers : net' = activate(net, o[1], o[2], o[3])
    \/ /\ net.active
       /\ \/ Post("tx", "plain")
          \/ \E b \in {"big", "small"} : Post("rx", b)
          \/ \E a \in Modes :
               net' \in {process_control(net, "on", a), process_control(net, "off", a)}
          \/ \E m \in NetMacs : net' = process_control(net, "mac", m)
          \/ \E t \in {{}, NetMacs} : net' = process_control(net, "table", <<t, TRUE>>)
          \/ net' = process_control(net, "offload", ~ net.control.csum)
          \/ Collect("tx")
          \/ Collect("rx")

NetNext ==
    \/ Arrive
    \/ Driver
    \/ net.active /\ net' = reset(net)
    \/ net' = process_tx(net)
    \/ net' = process_rx(net)

----------------------------------------------------------------------------
Holds(q) == q.used \o q.available

\* Every buffer the driver posts is held by the device exactly once and comes
\* back in the order it was posted: the used ones followed by the available
\* ones are a run of consecutive indices ending at the next one to be given.
BuffersComeBackInOrder ==
    \A q \in {net.tx, net.rx} :
        LET h == Holds(q)
        IN \A k \in 1..Len(h) : (h[k].index + Len(h) - k + 1) % W = q.next_index

Delivered == SelectSeq(net.rx.used, LAMBDA b : b.frame # MaxArrivals)

\* Frames reach the driver in arrival order and none twice, whatever the filter
\* and the buffers do: what is delivered, what waits and what is on the wire
\* increase, and nothing counted as dropped is among them.
FramesInOrder ==
    LET ids == [k \in 1..Len(Delivered) |-> Delivered[k].frame]
               \o [k \in 1..Len(net.rx_pending) |-> net.rx_pending[k].id]
               \o [k \in 1..Len(net.wire) |-> net.wire[k].id]
    IN /\ \A a, b \in 1..Len(ids) : a < b => ids[a] < ids[b]
       /\ Range(ids) \cap net.dropped = {}

\* A waiting frame carries a header of the size this driver negotiated, and
\* claims a validated checksum only if it may: pending frames do not outlive
\* the negotiation they were received under.
HeadersAsNegotiated ==
    \A f \in Range(net.rx_pending) :
        f.merge = net.merge /\ (f.valid => net.gcsum)

-----------------------------------------------------------------------------
(* The learning switch between guests (enlil-devices net/switch.rs).  Time   *)
(* is a count of aging units; a frame carries its destination, its source    *)
(* and, for the properties, the port it came in on.                          *)
CONSTANTS
    SwitchMacs,             \* unicast addresses
    MAX_FDB_ENTRIES,  \* max_fdb_entries
    AGING,            \* aging_time, in ticks
    SWEEP,            \* process_frame ages the table every SWEEP frames (1000)
    MaxPorts,         \* bound: ports registered at a time
    MaxQueue          \* bound: frames waiting at a port

VARIABLE sw

Forgotten == [port |-> 0, age |-> AGING, live |-> FALSE]

SwitchInit ==
    sw = [ports |-> <<>>, queues |-> [p \in 0..(MaxPorts - 1) |-> <<>>],
          fdb |-> [m \in SwitchMacs |-> Forgotten], received |-> 0]

\* The id is the number of ports there are, not one never given before.
add_port(s) ==
    LET id == Len(s.ports)
    IN [s EXCEPT !.ports = Append(@, id), !.queues[id] = <<>>]

remove_port(s, p) ==
    [s EXCEPT !.ports = SelectSeq(@, LAMBDA x : x # p), !.queues[p] = <<>>,
              !.fdb = [m \in SwitchMacs |-> IF @[m].port = p THEN Forgotten ELSE @[m]]]

\* age_entries
age_entries(s) ==
    [s EXCEPT !.fdb = [m \in SwitchMacs |-> IF @[m].age < AGING THEN @[m] ELSE Forgotten]]

Size(s) == Cardinality({m \in SwitchMacs : s.fdb[m].live})

learn(s, mac, port) ==
    LET full(t) == Size(t) >= MAX_FDB_ENTRIES /\ ~ s.fdb[mac].live
        t == IF full(s) THEN age_entries(s) ELSE s
    IN IF mac \notin SwitchMacs \/ full(t) THEN (IF mac \in SwitchMacs THEN t ELSE s)
       ELSE [t EXCEPT !.fdb[mac] = [port |-> port, age |-> 0, live |-> TRUE]]

\* lookup: an entry past the aging time is not used even before it is swept.
Known(s, mac) == mac \in SwitchMacs /\ s.fdb[mac].live /\ s.fdb[mac].age < AGING

\* enqueue: a port that is gone swallows the frame.
enqueue(s, port, f) ==
    IF Contains(s.ports, port) THEN [s EXCEPT !.queues[port] = Append(@, f)] ELSE s

flood(s, f) == FoldLeft(LAMBDA t, p : IF p = f.from THEN t ELSE enqueue(t, p, f), s, s.ports)

\* process_frame, for a frame long enough to have a header.
process_frame(s, f) ==
    LET a == learn([s EXCEPT !.received = (@ + 1) % SWEEP], f.src, f.from)
        b == IF a.received = 0 THEN age_entries(a) ELSE a
    IN CASE ~ Known(b, f.dst) -> flood(b, f)
         [] Known(b, f.dst) /\ b.fdb[f.dst].port = f.from -> b
         [] OTHER -> enqueue(b, b.fdb[f.dst].port, f)

dequeue(s, p) == [s EXCEPT !.queues[p] = Tail(@)]

flush_fdb(s) == [s EXCEPT !.fdb = [m \in SwitchMacs |-> Forgotten]]

\* A frame is sent on a port that is registered.
Send ==
    \E p \in Range(sw.ports), src \in SwitchMacs, dst \in SwitchMacs \cup {"broadcast"} :
        /\ \A q \in Range(sw.ports) : Len(sw.queues[q]) < MaxQueue
        /\ sw' = process_frame(sw, [from |-> p, src |-> src, dst |-> dst])

Tick == sw' = [sw EXCEPT !.fdb = [m \in SwitchMacs |->
                  [@[m] EXCEPT !.age = IF @ < AGING THEN @ + 1 ELSE @]]]

SwitchNext ==
    \/ Len(sw.ports) < MaxPorts /\ sw' = add_port(sw)
    \/ \E p \in Range(sw.ports) : sw' = remove_port(sw, p)
    \/ Send
    \/ \E p \in Range(sw.ports) : sw.queues[p] # <<>> /\ sw' = dequeue(sw, p)
    \/ sw' = flush_fdb(sw)
    \/ Tick

----------------------------------------------------------------------------
\* No port is handed back a frame it sent, whatever was learned, forgotten or
\* removed since: neither flooding nor a stale entry reflects a frame.
NoReflection ==
    \A p \in DOMAIN sw.queues : \A f \in Range(sw.queues[p]) : f.from # p

\* The table stays within its limit and points only at ports that are there:
\* removing a port takes its addresses with it.
TablePointsAtPorts ==
    /\ Size(sw) <= MAX_FDB_ENTRIES
    /\ \A m \in SwitchMacs : sw.fdb[m].live => Contains(sw.ports, sw.fdb[m].port)

Grew(p) == Len(sw'.queues[p]) > Len(sw.queues[p])

\* A frame for an address that is known and fresh reaches at most the one port
\* it was learned on, and any other frame reaches every port but its own.
UnicastIsPrivate ==
    \A f \in {Last(sw'.queues[p]) : p \in {q \in DOMAIN sw.queues : Grew(q)}} :
        LET to == {p \in DOMAIN sw.queues : Grew(p)}
        IN IF Known(sw, f.dst) /\ f.src # f.dst /\ Known(sw', f.dst)
           THEN to = {sw.fdb[f.dst].port}
           ELSE to = Range(sw.ports) \ {f.from}

=============================================================================
