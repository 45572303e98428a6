-------------------------------- MODULE Setup --------------------------------
(***************************************************************************)
(* What stands before the hypervisor runs: the configuration file and its  *)
(* validation (enlil-config validate.rs, types.rs, mac.rs, and the USB     *)
(* routing enlil-core builds from it) and the first-run wizard             *)
(* (enlil-setup main.rs, tui.rs).  A text a user types is a record of what *)
(* trimming leaves of it and whether there was anything to trim.           *)
(***************************************************************************)
EXTENDS Integers, Sequences, FiniteSets, SequencesExt, FiniteSetsExt

CONSTANTS
  Guests,    \* identifiers of guests in a configuration file
  MaxEdits,  \* how far a configuration is from a valid one
  Cpus,      \* numbers of processors of the hosts the wizard meets
  Rams,      \* their memory, in units of 256 MB
  Keys       \* bound on the keys pressed in one prompt

VARIABLES
  conf,      \* a configuration file and the number of edits made to it
  wiz,       \* the wizard: its step, what it has handed out, the terminal
  field,     \* a text prompt: characters, cursor, error; and what was typed
  list       \* a list prompt

Text(t) == [t |-> t, pad |-> FALSE]
Padded(t) == [t |-> t, pad |-> TRUE]
trim(s) == s.t

-----------------------------------------------------------------------------
(* The configuration file *)

None == [some |-> FALSE]
Some(x) == [some |-> TRUE, is |-> x]

DiskConfig(p, ro) == [path |-> p, readonly |-> ro]
FirmwareConfig(c, v) == [code |-> c, vars |-> v]

GuestConfig(id, cpu) ==
  [name |-> Text(id), cpus |-> <<cpu>>, memory_mb |-> 64, scheduling |-> "Auto", disks |-> <<>>,
   output |-> "stdout", mac |-> None, firmware |-> None]

HypervisorConfig == [reserved_memory_mb |-> 512, total_memory_mb |-> 0, log_level |-> "info", management_port |-> 9100]

UsbConfig == [default_guest |-> None, routing |-> <<>>, vfio_fallback |-> None]
UsbRoutingRule(m, t) == [match_spec |-> m, target |-> t]
UsbVfioFallback(on, bdf, t) == [enabled |-> on, bdf |-> bdf, target_guest |-> t]

GpuConfig == [strategy |-> "unset", passthrough |-> None, timeslice |-> FALSE, mediated |-> FALSE]
GpuPassthroughConfig(d, t) == [device |-> d, target_guest |-> t]

\* Two guests on processors of their own, with nothing else said.
EnlilConfig ==
  [guest |-> [id \in Guests |-> GuestConfig(id, IF id = "a" THEN 0 ELSE 1)],
   hypervisor |-> HypervisorConfig, usb |-> UsbConfig, gpu |-> GpuConfig]

\* A match specification is its kind before the colon and the trimmed rest; a vendor and
\* product pair says of each half whether it is hexadecimal or a star.
parse_usb_match(m) ==
  CASE m.kind = "*" -> <<"Any">>
    [] m.kind \in {"port", "serial", "class"} -> IF m.arg = "" THEN <<"Err">> ELSE <<m.kind, m.arg>>
    [] m.kind = "id" -> IF m.vid # "hex" THEN <<"Err">>
                        ELSE IF m.arg = "*" THEN <<"VendorOnly">>
                        ELSE IF m.arg = "hex" THEN <<"VidPid">> ELSE <<"Err">>
    [] OTHER -> <<"Err">>

\* Four, two, two and one hexadecimal digits.
is_valid_bdf(b) == b = "0000:01:00.0"

\* Guests that claim processors for themselves, in the order the map is walked.
Claims(c, ord) ==
  FlattenSeq([i \in DOMAIN ord |->
    IF c.guest[ord[i]].scheduling \in {"Dedicated", "Auto"}
    THEN [k \in DOMAIN c.guest[ord[i]].cpus |-> <<c.guest[ord[i]].cpus[k], ord[i]>>]
    ELSE <<>>])

dedicated_owner(claims, cpu) == claims[Max({k \in DOMAIN claims : claims[k][1] = cpu})][2]

Errors(who, what, on) == {<<what, g>> : g \in {x \in who : on[x]}}

validate_cpu_isolation(c, ord) ==
  LET claims == Claims(c, ord)
      ids == DOMAIN c.guest
      dup(s) == \E i, j \in DOMAIN s : i < j /\ s[i] = s[j]
  IN Errors(ids, "no cpus", [g \in ids |-> c.guest[g].cpus = <<>>])
       \cup Errors(ids, "duplicate cpu", [g \in ids |-> dup(c.guest[g].cpus)])
       \cup {<<"already assigned", claims[k][2]>> :
               k \in {k \in DOMAIN claims : \E j \in 1 .. k - 1 : claims[j][1] = claims[k][1]}}
       \cup Errors(ids, "dedicated to another",
              [g \in ids |-> /\ c.guest[g].scheduling = "Timeslice"
                             /\ \E cpu \in ToSet(c.guest[g].cpus) :
                                  /\ \E k \in DOMAIN claims : claims[k][1] = cpu
                                  /\ dedicated_owner(claims, cpu) # g])

validate_usb_routing(c) ==
  {<<"default guest", "usb">> : x \in {y \in {c.usb.default_guest} : y.some /\ y.is \notin DOMAIN c.guest}}
    \cup {<<"match", "usb">> : x \in {r \in ToSet(c.usb.routing) : parse_usb_match(r.match_spec) = <<"Err">>}}
    \cup {<<"target", "usb">> : x \in {r \in ToSet(c.usb.routing) : r.target \notin DOMAIN c.guest}}

validate_usb_vfio_fallback(c) ==
  LET f == c.usb.vfio_fallback
  IN IF ~f.some THEN {}
     ELSE IF ~f.is.enabled THEN {}
     ELSE (IF ~is_valid_bdf(trim(f.is.bdf)) THEN {<<"bdf", "vfio">>} ELSE {})
            \cup (IF trim(f.is.target_guest) \notin DOMAIN c.guest THEN {<<"target", "vfio">>} ELSE {})

validate_gpu(c) ==
  LET g == c.gpu
  IN (IF g.strategy \in {"mediated", "time-sliced"} THEN {<<"strategy", "gpu">>} ELSE {})
       \cup (IF g.timeslice THEN {<<"timeslice", "gpu">>} ELSE {})
       \cup (IF g.mediated THEN {<<"mediated", "gpu">>} ELSE {})
       \cup (IF g.passthrough.some # (g.strategy = "passthrough") THEN {<<"block", "gpu">>}
             ELSE IF ~g.passthrough.some THEN {}
             ELSE (IF ~is_valid_bdf(trim(g.passthrough.is.device)) THEN {<<"device", "gpu">>} ELSE {})
                    \cup (IF trim(g.passthrough.is.target_guest) \notin DOMAIN c.guest THEN {<<"target", "gpu">>} ELSE {}))

\* An address is written in one of two notations; it is unicast or not, and its vendor is
\* one of ten that validation names, or not.
parse_mac(m) == IF m.sep \notin {":", "-"} THEN <<>> ELSE <<m.bytes>>
Multicast(bytes) == bytes = "group"
HYPERVISOR_OUIS == {"virtual"}

mac_rejection_reason(m) ==
  IF parse_mac(m) = <<>> THEN "malformed"
  ELSE IF Multicast(m.bytes) THEN "multicast"
  ELSE IF m.bytes \in HYPERVISOR_OUIS THEN "vendor" ELSE "none"

validate_guest_macs(c) ==
  LET has == {g \in DOMAIN c.guest : c.guest[g].mac.some}
      owners == {g \in has : parse_mac(c.guest[g].mac.is) # <<>>}
  IN {<<mac_rejection_reason(c.guest[g].mac.is), g>> :
        g \in {x \in has : mac_rejection_reason(c.guest[x].mac.is) # "none"}}
       \cup {<<"mac shared", g>> : g \in {x \in owners : \E y \in owners \ {x} :
               parse_mac(c.guest[y].mac.is) = parse_mac(c.guest[x].mac.is)}}

\* Mutant: names are compared with their blanks.
validate_guest_names_exact(c) ==
  LET ids == DOMAIN c.guest
  IN Errors(ids, "empty name", [g \in ids |-> trim(c.guest[g].name) = ""])
       \cup Errors(ids, "name shared", [g \in ids |-> \E h \in ids \ {g} : c.guest[h].name = c.guest[g].name])

validate_guest_names(c) ==
  LET ids == DOMAIN c.guest
      name(g) == trim(c.guest[g].name)
  IN Errors(ids, "empty name", [g \in ids |-> name(g) = ""])
       \cup Errors(ids, "name shared", [g \in ids |-> name(g) # "" /\ \E h \in ids \ {g} : name(h) = name(g)])

validate_guest_firmware(c) ==
  LET fw == {g \in DOMAIN c.guest : c.guest[g].firmware.some}
      of(g) == c.guest[g].firmware.is
  IN {<<"no code", g>> : g \in {x \in fw : of(x).code = ""}}
       \cup {<<"no vars", g>> : g \in {x \in fw : of(x).vars = ""}}
       \cup {<<"vars is code", g>> : g \in {x \in fw : of(x).code # "" /\ of(x).code = of(x).vars}}

\* The memory, in all and of each guest.
Total(c) == FoldSet(LAMBDA g, n : n + c.guest[g].memory_mb, 0, DOMAIN c.guest) + c.hypervisor.reserved_memory_mb

memory_errors(c) ==
  (IF Total(c) > 262144 THEN {<<"sanity limit", "memory">>} ELSE {})
    \cup (IF c.hypervisor.total_memory_mb > 0 /\ Total(c) > c.hypervisor.total_memory_mb THEN {<<"exceeds host", "memory">>} ELSE {})
    \cup Errors(DOMAIN c.guest, "memory", [g \in DOMAIN c.guest |-> c.guest[g].memory_mb < 64])

\* An image mounted at least twice and at least once to be written.
Mounts(c) == UNION {{<<g, i>> : i \in DOMAIN c.guest[g].disks} : g \in DOMAIN c.guest}
disk_errors(c) ==
  LET at(m) == c.guest[m[1]].disks[m[2]]
  IN {<<"shared disk", at(m).path>> : m \in {x \in Mounts(c) :
        \E y \in Mounts(c) \ {x} : at(y).path = at(x).path /\ ~(at(x).readonly /\ at(y).readonly)}}

validate_config(c, ord) ==
  UNION {validate_cpu_isolation(c, ord), validate_usb_routing(c), validate_usb_vfio_fallback(c), validate_gpu(c),
         memory_errors(c), validate_guest_names(c), validate_guest_macs(c), disk_errors(c), validate_guest_firmware(c),
         IF c.hypervisor.log_level \notin {"trace", "debug", "info", "warn", "error"} THEN {<<"log level", "hypervisor">>} ELSE {},
         Errors(DOMAIN c.guest, "serial output",
                [g \in DOMAIN c.guest |-> c.guest[g].output \notin {"stdout", "pty", "null", "file:x"}]),
         IF c.hypervisor.management_port = 0 THEN {<<"port", "hypervisor">>} ELSE {},
         IF c.guest = <<>> THEN {<<"no guests", "hypervisor">>} ELSE {}}

Orders(c) == {s \in [1 .. Cardinality(DOMAIN c.guest) -> DOMAIN c.guest] : \A i, j \in DOMAIN s : s[i] = s[j] => i = j}
load_config(c, ord) == validate_config(c, ord) = {}

\* The routing enlil-core builds: a class is one of the names it knows.
device_class_from_token(t) == IF t \in {"hid", "audio", "0x03"} THEN t ELSE "Err"
matcher_from_kind(k) == IF k[1] = "class" /\ device_class_from_token(k[2]) = "Err" THEN <<"Err">> ELSE k
vfio_fallback_policy_from_config(c) ==
  LET f == c.usb.vfio_fallback
  IN IF ~f.some THEN None ELSE IF f.is.enabled THEN Some([bdf |-> f.is.bdf, target_guest |-> f.is.target_guest]) ELSE None

Edited(c) == conf.edits < MaxEdits /\ conf' = [c |-> c, edits |-> conf.edits + 1]

EditGuest ==
  \E g \in DOMAIN conf.c.guest :
    \/ \E cpus \in {<<>>, <<0>>, <<1>>, <<0, 0>>, <<0, 1>>}, s \in {"Dedicated", "Timeslice", "Auto"} :
         Edited([conf.c EXCEPT !.guest[g].cpus = cpus, !.guest[g].scheduling = s])
    \/ \E mb \in {0, 63, 200, 262144} : Edited([conf.c EXCEPT !.guest[g].memory_mb = mb])
    \/ \E n \in {Text(""), Text("a"), Padded("a"), Padded("b")} : Edited([conf.c EXCEPT !.guest[g].name = n])
    \/ \E p \in {"x", "y"}, ro \in BOOLEAN : Edited([conf.c EXCEPT !.guest[g].disks = Append(@, DiskConfig(p, ro))])
    \/ \E o \in {"pty", "file:x", "file:", "tty"} : Edited([conf.c EXCEPT !.guest[g].output = o])
    \/ \E s \in {":", "-", "."}, b \in {"one", "two", "group", "virtual"} :
         Edited([conf.c EXCEPT !.guest[g].mac = Some([sep |-> s, bytes |-> b])])
    \/ \E k \in {"", "k"}, v \in {"", "k", "v"} : Edited([conf.c EXCEPT !.guest[g].firmware = Some(FirmwareConfig(k, v))])
    \/ Edited([conf.c EXCEPT !.guest = [h \in DOMAIN @ \ {g} |-> @[h]]])

EditRest ==
  \/ \E mb \in {639, 640, 1000} : Edited([conf.c EXCEPT !.hypervisor.total_memory_mb = mb])
  \/ Edited([conf.c EXCEPT !.hypervisor.log_level = "loud"])
  \/ Edited([conf.c EXCEPT !.hypervisor.management_port = 0])
  \/ \E g \in Guests \cup {"z"} : Edited([conf.c EXCEPT !.usb.default_guest = Some(g)])
  \/ \E m \in {[kind |-> "*"], [kind |-> "port", arg |-> ""], [kind |-> "class", arg |-> "hid"],
               [kind |-> "class", arg |-> "toaster"], [kind |-> "id", vid |-> "hex", arg |-> "*"],
               [kind |-> "id", vid |-> "hex", arg |-> "hex"], [kind |-> "id", vid |-> "bad", arg |-> "hex"],
               [kind |-> "id", vid |-> "hex", arg |-> "bad"], [kind |-> "none"]}, t \in {"a", "z"} :
       Edited([conf.c EXCEPT !.usb.routing = Append(@, UsbRoutingRule(m, t))])
  \/ \E on \in BOOLEAN, b \in {Text(""), Padded("0000:01:00.0"), Text("01:00.0")}, t \in {Padded("a"), Text("z")} :
       Edited([conf.c EXCEPT !.usb.vfio_fallback = Some(UsbVfioFallback(on, b, t))])
  \/ \E s \in {"auto", "passthrough", "mediated", "time-sliced"} : Edited([conf.c EXCEPT !.gpu.strategy = s])
  \/ \E d \in {Text("0000:01:00.0"), Text("")}, t \in {Text("a"), Padded("z")} :
       Edited([conf.c EXCEPT !.gpu.passthrough = Some(GpuPassthroughConfig(d, t))])
  \/ Edited([conf.c EXCEPT !.gpu.timeslice = TRUE])
  \/ Edited([conf.c EXCEPT !.gpu.mediated = TRUE])

ConfInit == conf = [c |-> EnlilConfig, edits |-> 0]
ConfNext == EditGuest \/ EditRest

\* A processor is one guest's, listed once, unless every guest that lists it takes turns.
Exclusive(c) ==
  /\ \A g \in DOMAIN c.guest : c.guest[g].cpus # <<>> /\ IsInjective(c.guest[g].cpus)
  /\ \A g, h \in DOMAIN c.guest : g # h /\ ToSet(c.guest[g].cpus) \cap ToSet(c.guest[h].cpus) # {}
       => c.guest[g].scheduling = "Timeslice" /\ c.guest[h].scheduling = "Timeslice"

\* Whatever order the map of guests is walked in, a configuration gets the same verdict, and
\* the processors are accepted exactly when no guest can take another's. An accepted one names
\* existing guests only, fits the host, keeps names and addresses apart and shares no image
\* someone writes; and its routing is built unless a device class is unknown to enlil-core
\* (validate.rs:323-455, usb_routing.rs:28-95).
ConfigExact ==
  LET c == conf.c
      accepted == load_config(c, CHOOSE o \in Orders(c) : TRUE)
  IN /\ \A o \in Orders(c) : load_config(c, o) = accepted /\ (validate_cpu_isolation(c, o) = {}) = Exclusive(c)
     /\ accepted =>
          /\ DOMAIN c.guest # {}
          /\ c.hypervisor.total_memory_mb > 0 =>
               c.hypervisor.total_memory_mb >= 512 + FoldSet(LAMBDA g, n : n + c.guest[g].memory_mb, 0, DOMAIN c.guest)
          /\ \A g, h \in DOMAIN c.guest : g # h =>
               /\ c.guest[g].name.t # c.guest[h].name.t
               /\ c.guest[g].mac.some /\ c.guest[h].mac.some => c.guest[g].mac.is.bytes # c.guest[h].mac.is.bytes
               /\ \A d \in ToSet(c.guest[g].disks), e \in ToSet(c.guest[h].disks) : d.path = e.path => d.readonly /\ e.readonly
          /\ c.usb.default_guest.some => c.usb.default_guest.is \in DOMAIN c.guest
          /\ \A r \in ToSet(c.usb.routing) :
               /\ r.target \in DOMAIN c.guest
               /\ matcher_from_kind(parse_usb_match(r.match_spec)) = <<"Err">> => r.match_spec = [kind |-> "class", arg |-> "toaster"]
          /\ vfio_fallback_policy_from_config(c).some => trim(vfio_fallback_policy_from_config(c).is.target_guest) \in DOMAIN c.guest
          /\ c.gpu.passthrough.some => c.gpu.strategy = "passthrough" /\ trim(c.gpu.passthrough.is.target_guest) \in DOMAIN c.guest

-----------------------------------------------------------------------------
(* The wizard *)

\* What the host's file systems say; a file or directory may be unreadable.
is_display_controller(class) == class \in {"0300", "0302"}
is_usb_controller(class) == class = "0c03"
detect_pci_devices(sys, kind) ==
  {<<sys.pci[d].ids, d>> : d \in {x \in DOMAIN sys.pci :
     IF kind = "display" THEN is_display_controller(sys.pci[x].class) ELSE is_usb_controller(sys.pci[x].class)}}
detect_nvme_drives(sys) == sys.nvme

detect_hardware_stub == [cpus |-> 16, ram |-> 256]
parse_meminfo_total_mb(sys) == sys.meminfo
count_cpus_from_cpuinfo(sys) == IF sys.cpuinfo > 0 THEN Some(sys.cpuinfo) ELSE None

detect_hardware_linux(sys) ==
  [cpus |-> IF count_cpus_from_cpuinfo(sys).some THEN count_cpus_from_cpuinfo(sys).is ELSE detect_hardware_stub.cpus,
   ram |-> IF parse_meminfo_total_mb(sys) # -1 THEN parse_meminfo_total_mb(sys) ELSE detect_hardware_stub.ram,
   gpus |-> detect_pci_devices(sys, "display"),
   storage |-> detect_nvme_drives(sys),
   usb |-> detect_pci_devices(sys, "usb")]

\* Two graphics cards of one model and a controller, or nothing that can be read.
Pci == [d \in {"00", "01", "02"} |-> [ids |-> "10de", class |-> IF d = "02" THEN "0c03" ELSE "0300"]]
Systems ==
  {[cpuinfo |-> n, meminfo |-> m, pci |-> p, nvme |-> {}] : n \in Cpus, m \in Rams, p \in {Pci, <<>>}}
    \cup {[cpuinfo |-> 0, meminfo |-> -1, pci |-> <<>>, nvme |-> {}]}

GuestDef(n, c, r, d) == [name |-> n, cpus |-> c, ram |-> r, devices |-> d]

\* 512 and 1024 MB.
MIN == 2
GIB == 4

Least(a, b) == IF a < b THEN a ELSE b
Most(a, b) == IF a > b THEN a ELSE b

\* The answer to a prompt for a number: a terminal asks until it is in range or the user
\* cancels; the scripted one answers with the default, and fails when that is refused.
parse_bounded_u64(v, min, max) == v >= min /\ v <= max
Numbers(w, p) ==
  IF w.mode = "dry" THEN {v \in {p.def} : parse_bounded_u64(v, p.min, p.max)} ELSE p.min .. p.max

\* The bounds and the default of the prompt the wizard has reached.
Prompt(w) ==
  LET left == w.count - Len(w.guests)
  IN CASE w.pc = "host_cpus" -> [def |-> Least(2, w.hw.cpus - 1), min |-> 1, max |-> w.hw.cpus - 1]
       [] w.pc = "host_ram" -> [def |-> Least(16, w.hw.ram - GIB), min |-> MIN, max |-> w.hw.ram - GIB]
       [] w.pc = "count" ->
            LET max == Most(Least(Least(w.cpus, 8), w.ram \div MIN), 1) IN [def |-> Least(max, 2), min |-> 1, max |-> max]
       [] w.pc = "cpus" -> [def |-> Most(w.cpus \div left, 1), min |-> 1, max |-> w.cpus - (left - 1)]
       [] w.pc = "ram" -> [def |-> Most(w.ram \div left, MIN), min |-> MIN, max |-> w.ram - MIN * (left - 1)]

validate_guest_name(n, taken) == n # <<>> /\ n \notin taken

\* TuiPrompter::new, and the end of main: the terminal is restored by the prompter's drop.
NewPrompter ==
  /\ wiz.pc = "main"
  /\ wiz' = IF wiz.mode = "pipe" THEN [wiz EXCEPT !.pc = "failed"]
            ELSE [wiz EXCEPT !.pc = "wizard", !.raw = wiz.mode = "tty"]

\* Raw mode is on when the alternate screen cannot be entered, and there is no prompter yet.
NewPrompterFails ==
  /\ wiz.pc = "main" /\ wiz.mode = "tty"
  /\ \E raw \in BOOLEAN : wiz' = [wiz EXCEPT !.pc = "failed", !.raw = raw, !.broken = raw]

Fail(w) == [w EXCEPT !.pc = "failed", !.raw = FALSE]

run_wizard ==
  /\ wiz.pc = "wizard"
  /\ wiz' = IF wiz.hw.cpus < 2 \/ wiz.hw.ram < 2 * GIB THEN Fail(wiz) ELSE [wiz EXCEPT !.pc = "host_cpus"]

Cancel ==
  /\ wiz.mode = "tty" /\ wiz.pc \notin {"main", "wizard", "write", "done", "failed"}
  /\ wiz' = Fail(wiz)

Answered(w, v) ==
  CASE w.pc = "host_cpus" -> [w EXCEPT !.pc = "host_ram", !.host_cpus = v, !.cpus = w.hw.cpus - v]
    [] w.pc = "host_ram" -> [w EXCEPT !.pc = "count", !.host_ram = v, !.ram = w.hw.ram - v]
    [] w.pc = "count" -> [w EXCEPT !.pc = "name", !.count = v]
    [] w.pc = "cpus" -> [w EXCEPT !.pc = "ram", !.cur.cpus = v]
    [] w.pc = "ram" -> [w EXCEPT !.pc = "devices", !.cur.ram = v]

AskNumber ==
  /\ wiz.pc \in {"host_cpus", "host_ram", "count", "cpus", "ram"}
  /\ IF Numbers(wiz, Prompt(wiz)) = {} /\ wiz.mode = "dry" THEN wiz' = Fail(wiz)
     ELSE \E v \in Numbers(wiz, Prompt(wiz)) : wiz' = Answered(wiz, v)

Names(w) == {w.guests[i].name : i \in DOMAIN w.guests}
AskName ==
  /\ wiz.pc = "name"
  /\ \E n \in IF wiz.mode = "dry" THEN {<<"guest", Len(wiz.guests) + 1>>} ELSE {<<"guest", Len(wiz.guests) + 1>>, <<"guest", 2>>, <<"guest", 9>>} :
       /\ validate_guest_name(n, Names(wiz))
       /\ wiz' = [wiz EXCEPT !.pc = "cpus", !.cur.name = n]

\* Only what no guest has is offered; nothing is asked when there is none.
assign_devices(w, devices) == IF w.mode = "dry" THEN {{}} ELSE SUBSET (devices \ w.assigned)

prompt_guest ==
  /\ wiz.pc = "devices"
  /\ \E g \in assign_devices(wiz, wiz.hw.gpus), s \in assign_devices(wiz, wiz.hw.storage), u \in assign_devices(wiz, wiz.hw.usb) :
       LET w == [wiz EXCEPT !.guests = Append(@, GuestDef(wiz.cur.name, wiz.cur.cpus, wiz.cur.ram, (g \cup s) \cup u)),
                            !.assigned = ((@ \cup g) \cup s) \cup u,
                            !.cpus = @ - wiz.cur.cpus, !.ram = @ - wiz.cur.ram]
       IN wiz' = [w EXCEPT !.pc = IF Len(w.guests) < w.count THEN "name" ELSE "accept"]

\* Esc at the review goes on to the question, where it cancels.
Accept ==
  /\ wiz.pc = "accept"
  /\ \E yes \in IF wiz.mode = "dry" THEN {TRUE} ELSE BOOLEAN :
       wiz' = IF ~yes THEN Fail(wiz) ELSE [wiz EXCEPT !.pc = IF wiz.mode = "dry" THEN "done" ELSE "write", !.raw = FALSE]

write_config ==
  /\ wiz.pc = "write"
  /\ \/ wiz' = [wiz EXCEPT !.pc = "done", !.file = "new"]
     \/ wiz' = [wiz EXCEPT !.pc = "failed"]

\* A person answers for the small hosts; a host that cannot be read is only tried dry.
WizInit ==
  \E s \in Systems, m \in {"dry", "tty", "pipe"} :
    /\ s.cpuinfo = 0 => m # "tty"
    /\ wiz = [pc |-> "main", mode |-> m, hw |-> detect_hardware_linux(s), host_cpus |-> 0, host_ram |-> 0, cpus |-> 0, ram |-> 0,
              count |-> 0, guests |-> <<>>, assigned |-> {}, cur |-> [name |-> <<>>, cpus |-> 0, ram |-> 0],
              raw |-> FALSE, broken |-> FALSE, file |-> "old"]

WizNext ==
  NewPrompter \/ NewPrompterFails \/ run_wizard \/ Cancel \/ AskNumber \/ AskName \/ prompt_guest \/ Accept \/ write_config

\* No prompt is asked whose bounds cross, or whose own default it refuses: whatever was taken,
\* the remaining guests can still have a processor and 512 MB each, and no subtraction goes
\* below zero. What host, guests and the rest hold is the machine, no device has two owners
\* and no two guests one name; the file changes only for a configuration that was accepted;
\* and the terminal is left as it was found (main.rs:595-744, 796-835).
WizardExact ==
  /\ wiz.pc \in {"host_cpus", "host_ram", "count", "cpus", "ram"} =>
       Prompt(wiz).min <= Prompt(wiz).def /\ Prompt(wiz).def <= Prompt(wiz).max
  /\ wiz.count > 0 =>
       /\ wiz.host_cpus + wiz.cpus + FoldSeq(LAMBDA g, n : n + g.cpus, 0, wiz.guests) = wiz.hw.cpus
       /\ wiz.host_ram + wiz.ram + FoldSeq(LAMBDA g, n : n + g.ram, 0, wiz.guests) = wiz.hw.ram
       /\ wiz.cpus >= wiz.count - Len(wiz.guests) /\ wiz.ram >= MIN * (wiz.count - Len(wiz.guests))
  /\ \A i, j \in DOMAIN wiz.guests : i # j =>
       wiz.guests[i].devices \cap wiz.guests[j].devices = {} /\ wiz.guests[i].name # wiz.guests[j].name
  /\ wiz.file = "new" => wiz.pc = "done" /\ wiz.mode = "tty" /\ Len(wiz.guests) = wiz.count
  /\ wiz.pc \in {"done", "failed", "write"} => wiz.raw = wiz.broken

-----------------------------------------------------------------------------
(* The terminal's prompts *)

Blank(c) == c = " "
Shown(chars) == \E i \in DOMAIN chars : ~Blank(chars[i])

\* What is typed beside the default in a name prompt: a letter, a refused sign, a blank.
with_default(d) == [chars |-> d, cursor |-> Len(d)]
value_or(f, d) == IF Shown(f.chars) THEN f.chars ELSE d
insert(f, c) == [chars |-> SubSeq(f.chars, 1, f.cursor) \o <<c>> \o SubSeq(f.chars, f.cursor + 1, Len(f.chars)), cursor |-> f.cursor + 1]
backspace(f) == IF f.cursor > 0 THEN [chars |-> RemoveAt(f.chars, f.cursor), cursor |-> f.cursor - 1] ELSE f
delete(f) == IF f.cursor < Len(f.chars) THEN [f EXCEPT !.chars = RemoveAt(@, f.cursor + 1)] ELSE f
move_left(f) == [f EXCEPT !.cursor = Most(@ - 1, 0)]
move_right(f) == [f EXCEPT !.cursor = Least(@ + 1, Len(f.chars))]
move_to_start(f) == [f EXCEPT !.cursor = 0]
move_to_end(f) == [f EXCEPT !.cursor = Len(f.chars)]

Default == <<"g">>
Valid(v) == Shown(v) /\ \A i \in DOMAIN v : v[i] # "!"

\* The text as a reader of the screen has it: what is left and what is right of the cursor.
Typed(l, r) == [left |-> l, right |-> r]

Key(f, err, t) ==
  /\ field.keys < Keys /\ field.result = "none"
  /\ field' = [field EXCEPT !.f = f, !.err = err, !.typed = t, !.keys = @ + 1]

Type == \E c \in {"x", "!", " "} :
  Key(insert(field.f, c), FALSE, Typed(Append(field.typed.left, c), field.typed.right))
Backspace == Key(backspace(field.f), FALSE,
  IF field.typed.left = <<>> THEN field.typed ELSE Typed(Front(field.typed.left), field.typed.right))
Delete == Key(delete(field.f), FALSE,
  IF field.typed.right = <<>> THEN field.typed ELSE Typed(field.typed.left, Tail(field.typed.right)))
Left == Key(move_left(field.f), field.err,
  IF field.typed.left = <<>> THEN field.typed ELSE Typed(Front(field.typed.left), <<Last(field.typed.left)>> \o field.typed.right))
Right == Key(move_right(field.f), field.err,
  IF field.typed.right = <<>> THEN field.typed ELSE Typed(Append(field.typed.left, Head(field.typed.right)), Tail(field.typed.right)))
Home == Key(move_to_start(field.f), field.err, Typed(<<>>, field.typed.left \o field.typed.right))
End == Key(move_to_end(field.f), field.err, Typed(field.typed.left \o field.typed.right, <<>>))

Enter ==
  /\ field.result = "none"
  /\ field' = IF Valid(value_or(field.f, Default)) THEN [field EXCEPT !.result = "ok", !.value = value_or(field.f, Default)]
              ELSE [field EXCEPT !.err = TRUE]

Escape ==
  /\ field.result = "none"
  /\ field' = [field EXCEPT !.result = "cancelled"]

FieldInit ==
  field = [f |-> with_default(Default), err |-> FALSE, typed |-> Typed(Default, <<>>), keys |-> 0, result |-> "none", value |-> <<>>]
FieldNext == Type \/ Backspace \/ Delete \/ Left \/ Right \/ Home \/ End \/ Enter \/ Escape

\* However a text is edited, the field holds what the reader sees, with the cursor where it is
\* drawn; an error stays on the screen only while the text it is about does; and what the
\* prompt returns was accepted and is the text shown, or the default for a blank one
\* (tui.rs:109-153, 320-393).
FieldExact ==
  /\ field.f = [chars |-> field.typed.left \o field.typed.right, cursor |-> Len(field.typed.left)]
  /\ field.err => ~Valid(value_or(field.f, Default))
  /\ field.result = "ok" => Valid(field.value) /\ field.value \in {field.typed.left \o field.typed.right, Default}

\* A list is drawn before each key is read, and drawing brings the selection back into it.
Options == 0 .. 2
Draw(l) == [l EXCEPT !.selected = Least(@, Max(Options))]
select_previous(l) == [l EXCEPT !.selected = Most(@ - 1, 0)]
select_next(l) == [l EXCEPT !.selected = @ + 1]

ListKey(l) == list.result = "none" /\ list.keys < Keys /\ list' = [l EXCEPT !.keys = @ + 1]
Up == ListKey(select_previous(Draw(list)))
Down == ListKey(select_next(Draw(list)))
Space ==
  LET l == Draw(list)
  IN ListKey(IF l.kind = "multi" THEN [l EXCEPT !.checked[l.selected] = ~@, !.toggles[l.selected] = @ + 1] ELSE l)

prompt_choice ==
  /\ list.kind = "one" /\ list.result = "none"
  /\ list' = [Draw(list) EXCEPT !.result = "ok", !.chosen = {Draw(list).selected}]

prompt_multi_choice ==
  /\ list.kind = "multi" /\ list.result = "none"
  /\ list' = [Draw(list) EXCEPT !.result = "ok", !.chosen = {o \in Options : list.checked[o]}]

prompt_confirm(default) == IF default THEN 0 ELSE 1

ListInit ==
  \E k \in {"one", "multi"} : \E d \in IF k = "one" THEN {prompt_confirm(TRUE), prompt_confirm(FALSE), 9} ELSE {0} :
    list = [kind |-> k, selected |-> Least(d, Max(Options)), checked |-> [o \in Options |-> FALSE], toggles |-> [o \in Options |-> 0],
            chosen |-> {}, result |-> "none", keys |-> 0]
ListNext == Up \/ Down \/ Space \/ prompt_choice \/ prompt_multi_choice

\* A choice is one of the options shown, and a set of choices is what was toggled an odd
\* number of times, although the keys move the selection past the ends (tui.rs:166-247).
ListExact ==
  /\ Draw(list).selected \in Options
  /\ list.chosen \subseteq Options
  /\ list.result = "ok" /\ list.kind = "multi" => list.chosen = {o \in Options : list.toggles[o] % 2 = 1}
  /\ list.result = "ok" /\ list.kind = "one" => Cardinality(list.chosen) = 1

=============================================================================
