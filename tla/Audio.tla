-------------------------------- MODULE Audio --------------------------------
(***************************************************************************)
(* Sound: the virtio sound device's control state machine, the mixer with  *)
(* its resampling sources and the engine that wires them (audio.rs); the   *)
(* decoding of sample formats; and the HD Audio controller with its codec  *)
(* (hda/).                                                                 *)
(***************************************************************************)
EXTENDS Integers, Sequences, FiniteSets, SequencesExt

CONSTANTS
  OUTPUT_RATE, PERIOD, Q,  \* output rate, frames a tick renders, bits of a resampling phase
  Rates,                   \* the rates a guest may ask for
  MAX_EVENTS, RX_CAP,
  MaxTicks, MaxFrames, Changes,  \* bounds on the history
  B,                       \* values of a byte in the decoding
  Nids, Inputs             \* widgets of the codec, and the settings written to them

VARIABLES snd, pcm, hda

-----------------------------------------------------------------------------
(***************************************************************************)
(* A mixer source.  A queued frame is its number in the stream; `heard` is *)
(* the last one rendered, `frames` how many were, `ordered` that none came *)
(* before its time, and `underruns` that the count of them is not zero.    *)
(***************************************************************************)
MixerSource(rate, pushed) ==
  [rate |-> rate, fifo |-> <<>>, muted |-> FALSE, phase |-> 0, consumed |-> 0, underruns |-> FALSE,
   pushed |-> pushed, first |-> pushed, dropped |-> FALSE, heard |-> 0, frames |-> 0, ordered |-> TRUE]

step_q(s) == (s.rate * 2^Q) \div OUTPUT_RATE

\* Two seconds are kept; the oldest frames give way.
push_samples(s, n) ==
  LET all == s.fifo \o [i \in 1 .. n |-> s.pushed + i]
      over == Len(all) - 2 * s.rate
  IN [s EXCEPT !.pushed = @ + n, !.fifo = IF over > 0 THEN SubSeq(all, over + 1, Len(all)) ELSE all,
               !.dropped = @ \/ over > 0]

\* One output frame: the frame at the phase, or silence when the phase is past what came.
render_frame(s) ==
  LET pos == s.phase \div 2^Q
      base == pos - s.consumed
      heard == s.fifo[base + 1]
  IN IF pos >= s.consumed + Len(s.fifo)
     THEN [s EXCEPT !.underruns = TRUE, !.phase = @ + step_q(s)]
     ELSE [s EXCEPT !.phase = @ + step_q(s), !.heard = heard, !.frames = @ + 1,
                    !.ordered = @ /\ heard >= s.heard]

\* What the interpolation can no longer reach is drained.
drained(s) ==
  LET final_pos == s.phase \div 2^Q
      n == IF final_pos - s.consumed < Len(s.fifo) THEN final_pos - s.consumed ELSE Len(s.fifo)
  IN IF final_pos > s.consumed
     THEN [s EXCEPT !.fifo = SubSeq(@, n + 1, Len(@)), !.consumed = @ + n] ELSE s
render_source(s) ==
  LET after[k \in 0 .. PERIOD] == IF k = 0 THEN s ELSE render_frame(after[k - 1])
  IN drained(after[PERIOD])

\* A muted source is skipped and its time stands still.
tick(m) == [i \in DOMAIN m |-> IF m[i].muted THEN m[i] ELSE render_source(m[i])]

-----------------------------------------------------------------------------
(***************************************************************************)
(* The device: stream 0 plays, stream 1 records.  `pushed` numbers the     *)
(* frames of the playback stream over all its mixer sources.               *)
(***************************************************************************)
Streams == {0, 1}
Unset == 0
add_source(e, rate) ==
  [e EXCEPT !.next = @ + 1,
            !.sources = [i \in DOMAIN @ \cup {e.next} |->
                           IF i = e.next THEN MixerSource(rate, e.pushed) ELSE @[i]]]
remove_source(e, id) == [e EXCEPT !.sources = [i \in DOMAIN @ \ {id} |-> @[i]]]

SndInit ==
  snd = [state |-> [s \in Streams |-> "idle"], rate |-> [s \in Streams |-> Unset],
         source |-> [s \in Streams |-> IF s = 0 THEN 1 ELSE Unset],
         sources |-> [i \in {1} |-> MixerSource(OUTPUT_RATE, 0)], next |-> 2,
         rx |-> 0, events |-> 0, pushed |-> 0, ticks |-> 0]

push_event(e) == [e EXCEPT !.events = IF @ >= MAX_EVENTS THEN @ ELSE @ + 1]

\* Parameters are checked and stored, and the stream gets a mixer source of its new rate.
params_ok(rate, bytes) == rate \in Rates /\ bytes.period # 0 /\ bytes.buffer >= bytes.period
pcm_set_params(e, s, rate) ==
  [e EXCEPT !.rate[s] = rate, !.state[s] = "configured", !.rx = IF s = 1 THEN 0 ELSE @]
retarget_source(e, s) ==
  LET freed == IF e.source[s] = Unset THEN e ELSE remove_source(e, e.source[s])
  IN [add_source(freed, e.rate[s]) EXCEPT !.source[s] = e.next]
control(e, s, rate, bytes) ==
  IF params_ok(rate, bytes) THEN retarget_source(pcm_set_params(e, s, rate), s) ELSE e

next_state(code, state) ==
  CASE code = "prepare" -> IF state = "idle" THEN "none" ELSE "prepared"
    [] code = "release" -> IF state = "idle" THEN "idle" ELSE "configured"
    [] code = "start" -> IF state \in {"prepared", "running", "paused"} THEN "running" ELSE "none"
    [] code = "stop" -> IF state \in {"idle", "configured"} THEN state ELSE "prepared"
    [] code = "pause" -> IF state = "running" THEN "paused" ELSE "none"
    [] code = "unpause" -> IF state = "paused" THEN "running" ELSE "none"
Codes == {"prepare", "release", "start", "stop", "pause", "unpause"}
pcm_state_control(e, code, s) ==
  LET next == next_state(code, e.state[s])
      moved == [e EXCEPT !.state[s] = next]
  IN IF next = "none" THEN e
     ELSE IF code \in {"start", "stop"} THEN push_event(moved) ELSE moved

\* A buffer of the guest goes through the stream's queue into its source at once.
submit_tx(e, s, n) ==
  IF s # 0 \/ e.rate[0] = Unset THEN e
  ELSE IF e.state[0] # "running" THEN push_event(e)
  ELSE [e EXCEPT !.sources[e.source[0]] = push_samples(@, n), !.pushed = @ + n]
push_capture(e, n) == [e EXCEPT !.rx = IF @ + n > RX_CAP THEN RX_CAP ELSE @ + n]
read_rx(e, n) == [e EXCEPT !.rx = IF @ < n THEN 0 ELSE @ - n]
set_mute(e, s, muted) ==
  IF e.source[s] = Unset THEN e ELSE [e EXCEPT !.sources[e.source[s]].muted = muted]
pop_event(e) == [e EXCEPT !.events = IF @ > 0 THEN @ - 1 ELSE 0]
Tick(e) == [e EXCEPT !.sources = tick(@), !.ticks = @ + 1]

SndNext ==
  \/ \E s \in Streams, r \in Rates \cup {0}, p \in {0, 1, 2} :
       snd.next < 2 + Changes /\ snd' = control(snd, s, r, [period |-> p, buffer |-> 1])
  \/ \E c \in Codes : snd' = pcm_state_control(snd, c, 0)
  \/ \E c \in {"prepare", "start", "release"} : snd' = pcm_state_control(snd, c, 1)
  \/ \E s \in Streams, n \in 1 .. 2 : snd.pushed + n <= MaxFrames /\ snd' = submit_tx(snd, s, n)
  \/ \E n \in 1 .. 2 : snd.next < 2 + Changes /\ (snd' = push_capture(snd, n) \/ snd' = read_rx(snd, n))
  \/ \E b \in BOOLEAN : snd' = set_mute(snd, 0, b)
  \/ snd' = pop_event(snd)
  \/ snd.ticks < MaxTicks /\ snd' = Tick(snd)

\* Each stream that has parameters has one mixer source, of its own rate, and no source is
\* left behind when parameters change; only a configured stream leaves idle.
SourcesOwned ==
  /\ {snd.source[s] : s \in Streams} \ {Unset} = DOMAIN snd.sources
  /\ snd.source[0] # snd.source[1]
  /\ \A s \in Streams : snd.rate[s] # Unset => snd.sources[snd.source[s]].rate = snd.rate[s]
  /\ \A s \in Streams : snd.state[s] # "idle" => snd.rate[s] # Unset

\* A source renders the guest's frames in order and no frame twice over; its position never
\* falls behind what it drained, the queue stays within two seconds, and a source at the
\* output rate that never starved or overflowed has rendered exactly the frames it was sent,
\* one for one (render_source, audio.rs 1532).
PlayedInOrder ==
  \A i \in DOMAIN snd.sources : LET s == snd.sources[i] IN
    /\ s.ordered
    /\ s.phase \div 2^Q >= s.consumed
    /\ Len(s.fifo) <= 2 * s.rate
    /\ s.rate = OUTPUT_RATE /\ ~s.underruns /\ ~s.dropped =>
         s.heard = IF s.frames = 0 THEN 0 ELSE s.first + s.frames

-----------------------------------------------------------------------------
(***************************************************************************)
(* Sample formats: a sample of 1 to 4 bytes, signed or biased, in either   *)
(* byte order, becomes a signed value of two bytes.                        *)
(***************************************************************************)
Unsigned(bytes) == FoldLeft(LAMBDA acc, b : acc * B + b, 0, bytes)
Signed(bytes) ==
  LET u == Unsigned(bytes) half == (B^Len(bytes)) \div 2
  IN IF u >= half THEN u - 2 * half ELSE u
BigEndian(f, bytes) == IF f.big THEN bytes ELSE Reverse(bytes)

\* Shifts keep the two bytes of most weight; a biased sample is centred after its shift.
decode_sample(f, bytes) ==
  LET ordered == BigEndian(f, bytes) n == Len(bytes) IN
  IF n = 1 THEN (IF f.biased THEN bytes[1] - (B \div 2) ELSE Signed(bytes)) * B
  ELSE IF f.biased THEN Unsigned(ordered) \div B^(n - 2) - (B^2) \div 2
  ELSE Signed(ordered) \div B^(n - 2)

\* Frames are whole or the buffer is refused.
decode_pcm_frames(f, channels, data) ==
  IF Len(data) % (f.bytes * channels) # 0 THEN [ok |-> FALSE, samples |-> <<>>]
  ELSE [ok |-> TRUE,
        samples |-> [i \in 1 .. Len(data) \div f.bytes |->
                       decode_sample(f, SubSeq(data, (i - 1) * f.bytes + 1, i * f.bytes))]]

Formats == [bytes : 1 .. 4, biased : BOOLEAN, big : BOOLEAN]
PcmInit ==
  \E f \in Formats, b \in [1 .. 4 -> 0 .. B - 1] :
    pcm = [format |-> f, channels |-> 1, data |-> b, done |-> FALSE, out |-> [ok |-> FALSE, samples |-> <<>>]]
PcmNext ==
  \E c \in 1 .. 2 :
    /\ ~pcm.done
    /\ pcm' = [pcm EXCEPT !.done = TRUE, !.channels = c, !.out = decode_pcm_frames(pcm.format, c, pcm.data)]

\* The value a sample stands for, as a fraction of full scale rounded down to two bytes.
Meant(f, bytes) ==
  LET n == Len(bytes)
      weight(i) == B^(IF f.big THEN n - i ELSE i - 1)
      u == FoldLeft(LAMBDA acc, i : acc + bytes[i] * weight(i), 0, [i \in 1 .. n |-> i])
      v == IF f.biased THEN u - (B^n) \div 2 ELSE IF u >= (B^n) \div 2 THEN u - B^n ELSE u
  IN (v * B^2) \div B^n
\* Every whole frame decodes to the values its samples stand for, within the range of the
\* output, and a buffer that ends inside a frame is refused (decode_sample, audio.rs 622).
SamplesMeanTheSame ==
  LET f == pcm.format n == 4 \div f.bytes IN
  pcm.done =>
    /\ pcm.out.ok <=> 4 % (f.bytes * pcm.channels) = 0
    /\ pcm.out.ok => Len(pcm.out.samples) = n
    /\ \A i \in DOMAIN pcm.out.samples :
         /\ pcm.out.samples[i] = Meant(f, SubSeq(pcm.data, (i - 1) * f.bytes + 1, i * f.bytes))
         /\ pcm.out.samples[i] \in -((B^2) \div 2) .. (B^2) \div 2 - 1

-----------------------------------------------------------------------------
(***************************************************************************)
(* HD Audio: the controller's reset, presence and immediate-command        *)
(* registers, the stream descriptors, and the codec's widgets.  `set` and  *)
(* `sd` are what the guest last gave each of them.                         *)
(***************************************************************************)
Settings == {"channel", "format", "pin", "power"}
HdaInit ==
  hda = [crst |-> FALSE, present |-> FALSE, left |-> FALSE, ic |-> <<"none">>, ir |-> 0, valid |-> FALSE, done |-> FALSE,
         widget |-> [n \in Nids |-> [x \in Settings |-> 0]],
         set |-> [n \in Nids |-> [x \in Settings |-> 0]],
         input |-> [i \in {0} |-> 0], output |-> [i \in {0} |-> 0], sd |-> [i \in 0 .. 1 |-> 0]]

\* A verb sets or gets one setting of one widget; a node that is not there answers zero.
process_verb(h, verb) ==
  CASE verb[1] = "set" /\ verb[2] \in Nids -> [h EXCEPT !.widget[verb[2]][verb[3]] = verb[4], !.ir = 0]
    [] verb[1] = "get" /\ verb[2] \in Nids -> [h EXCEPT !.ir = h.widget[verb[2]][verb[3]]]
    [] OTHER -> [h EXCEPT !.ir = 0]
execute_immediate_command(h) == [process_verb(h, h.ic) EXCEPT !.valid = TRUE, !.done = TRUE]

\* Leaving reset announces the codec.
write_gctl(h, crst) ==
  [h EXCEPT !.crst = crst, !.present = @ \/ (crst /\ ~h.crst), !.left = @ \/ (crst /\ ~h.crst)]
write_statests(h, clear) == [h EXCEPT !.present = @ /\ ~clear, !.left = @ /\ ~clear]
\* The input descriptors come first; an index past the output ones is ignored.
write_stream_descriptor(h, i, v) ==
  CASE i \in DOMAIN h.input -> [h EXCEPT !.input[i] = v]
    [] i - 1 \in DOMAIN h.output -> [h EXCEPT !.output[i - 1] = v]
    [] OTHER -> h
read_stream_descriptor(h, i) ==
  CASE i \in DOMAIN h.input -> h.input[i]
    [] i - 1 \in DOMAIN h.output -> h.output[i - 1]
    [] OTHER -> 0

Verbs == {<<"get", n, x>> : n \in Nids \cup {0}, x \in {"channel", "power"}}
           \cup {<<"set", n, x, v>> : n \in Nids \cup {0}, x \in {"channel", "power"}, v \in Inputs}
Asked(h) == IF h.ic[1] = "set" /\ h.ic[2] \in Nids THEN [h EXCEPT !.set[h.ic[2]][h.ic[3]] = h.ic[4]] ELSE h
HdaNext ==
  \/ \E b \in BOOLEAN : hda' = write_gctl(hda, b)
  \/ \E b \in BOOLEAN : hda' = write_statests(hda, b)
  \/ \E q \in Verbs : hda' = [hda EXCEPT !.ic = q, !.done = FALSE]
  \/ hda.ic # <<"none">> /\ hda' = Asked(execute_immediate_command(hda))
  \/ \E i \in 0 .. 2, v \in Inputs :
       hda' = [write_stream_descriptor(hda, i, v) EXCEPT !.sd = [k \in DOMAIN @ |-> IF k = i THEN v ELSE @[k]]]

\* Each widget keeps what the guest set on it and no other widget changes; a finished get
\* answers with that; and the codec's presence stays announced from the controller leaving
\* reset until the guest acknowledges it; stream descriptors are separate (process_verb, hda/codec.rs 187).
CodecAnswers ==
  /\ hda.widget = hda.set
  /\ hda.done => hda.valid
  /\ hda.done /\ hda.ic[1] = "get" =>
       hda.ir = IF hda.ic[2] \in Nids THEN hda.set[hda.ic[2]][hda.ic[3]] ELSE 0
  /\ hda.present <=> hda.left
  /\ \A i \in DOMAIN hda.sd : read_stream_descriptor(hda, i) = hda.sd[i]
==============================================================================
