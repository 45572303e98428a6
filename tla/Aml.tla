-------------------------------- MODULE Aml ---------------------------------
(***************************************************************************)
(* The AML of the guest's ACPI tables, byte by byte: the builder           *)
(* (acpi/aml.rs) and the tables made with it or by hand (acpi/dsdt.rs,     *)
(* acpi/ssdt.rs), and the strict walker that every table must satisfy      *)
(* (acpi/aml_validate.rs).  A byte is a number, a 64-bit integer the       *)
(* sequence of its eight bytes, a name any four legal characters.          *)
(***************************************************************************)
EXTENDS Integers, Sequences, SequencesExt, FiniteSetsExt, Bitwise

CONSTANTS
  Ints,       \* integers the builder is given, as eight bytes
  Strings,    \* lengths of the strings it is given
  MaxTerms,   \* bound: terms of one stream
  MaxOpen,    \* bound: blocks open at once
  MaxDamaged, \* bound: terms of a stream that is damaged
  Damages,    \* bytes that may replace one of a finished stream
  Slots,      \* PCI devices of the routing tables (32 in the code)
  Dsdts,      \* configurations of the DSDT
  Ssdts,      \* configurations of the SSDT: processors and performance states
  MAX_NESTING_DEPTH,
  Masks,      \* sets of IRQs the guest may ask of a link device
  Bytes       \* bytes the guest may write to its register itself

VARIABLES
  ab,     \* a builder: data, the positions of its open length fields, and what it stands for
  tb,     \* a table being made: its kind, its configuration, its bytes
  lk      \* a PCI link device: the routing register and what the guest last asked of it

---------------------------------------------------------------------------
\* Encoding (aml.rs).
RECURSIVE JoinOf(_, _, _)
JoinOf(seqs, lo, hi) ==
  IF lo > hi THEN <<>> ELSE IF lo = hi THEN seqs[lo]
  ELSE LET mid == (lo + hi) \div 2 IN JoinOf(seqs, lo, mid) \o JoinOf(seqs, mid + 1, hi)
Join(seqs) == JoinOf(seqs, 1, Len(seqs))
Zeros(n) == [i \in 1..n |-> 0]
Upto(v, n) == \A i \in n + 1..8 : v[i] = 0
Small(k) == <<k % 256, k \div 256>> \o Zeros(6)
Name(k) == <<95, 65 + k \div 26, 65 + (k % 26), 95>>

encode_integer_const(v) ==
  IF Upto(v, 1) THEN IF v[1] < 2 THEN <<v[1]>> ELSE <<10, v[1]>>
  ELSE IF Upto(v, 2) THEN <<11>> \o SubSeq(v, 1, 2)
  ELSE IF Upto(v, 4) THEN <<12>> \o SubSeq(v, 1, 4) ELSE <<14>> \o v

\* A `Return` has no 64-bit form: the upper half is dropped.
return_integer(v) == <<164>> \o encode_integer_const(SubSeq(v, 1, 4) \o Zeros(4))

Follow(n, k) == <<(n % 16) + 64 * k>> \o [i \in 1..k |-> (n \div (16 * 256^(i - 1))) % 256]
encode_pkg_length(n) ==
  IF n < 63 THEN <<n>>
  ELSE Follow(n, IF n < 4095 THEN 1 ELSE IF n < 1048575 THEN 2 ELSE 3)

Smallest(fits) == IF fits = {} THEN 4 ELSE Min(fits)
encode_self_pkg_length(content) ==
  encode_pkg_length(content + Smallest({k \in 1..4 : Len(encode_pkg_length(content + k)) = k}))

\* The length field of the block opened at `pos` is written over its four spare bytes, and
\* what follows moves up.
patch_pkg_length(data, pos) ==
  SubSeq(data, 1, pos) \o encode_self_pkg_length(Len(data) - pos - 4)
    \o SubSeq(data, pos + 5, Len(data))

scope_start(n) == <<<<16>>, n>>
device_start(n) == <<<<91, 130>>, n>>
method_start(n, argc, serialized) == <<<<20>>, n \o <<argc + IF serialized THEN 8 ELSE 0>>>>
if_name_start(n) == <<<<160>>, n>>
if_start(predicate) == <<<<160>>, predicate>>
Opened(s) == s[1] \o Zeros(4) \o s[2]
Block(s, body) == patch_pkg_length(Opened(s) \o body, Len(s[1]))

name_integer(n, v) == <<8>> \o n \o encode_integer_const(v)
name_string(n, len) == <<8>> \o n \o <<13>> \o [i \in 1..len |-> 80] \o <<0>>
return_name(n) == <<164>> \o n

Sized(op, body) == op \o encode_self_pkg_length(Len(body)) \o body
Package(elements) == Sized(<<18>>, <<Len(elements) % 256>> \o Join(elements))
encode_integer_package(vs) == Package([i \in 1..Len(vs) |-> encode_integer_const(vs[i])])
name_package(n, vs) == <<8>> \o n \o encode_integer_package(vs)
return_routing_table(entries) ==
  <<164>> \o Package([i \in 1..Len(entries) |-> encode_integer_package(entries[i])])

encode_name_path(segs) ==
  CASE Len(segs) = 1 -> segs[1]
    [] Len(segs) = 2 -> <<46>> \o segs[1] \o segs[2]
    [] OTHER -> <<47, Len(segs)>> \o Join(segs)
encode_named_prt_entry(e) ==
  Package(<<encode_integer_const(e[1]), encode_integer_const(e[2]),
            <<92>> \o encode_name_path(e[3]), encode_integer_const(Zeros(8))>>)
return_routing_table_via_links(entries) ==
  <<164>> \o Package([i \in 1..Len(entries) |-> encode_named_prt_entry(entries[i])])

operation_region(n, space, offset, length) ==
  <<91, 128>> \o n \o <<space>> \o encode_integer_const(offset) \o encode_integer_const(length)
\* A field element: a name, or none for reserved bits, and a width in bits.
field(region, elements) ==
  Sized(<<91, 129>>, region \o <<1>> \o
    Join([i \in 1..Len(elements) |->
      (IF elements[i][1] = <<>> THEN <<0>> ELSE elements[i][1]) \o encode_pkg_length(elements[i][2])]))

\* Statements of a method: an operation with its operands, the last one the target.
Lit(v) == [k |-> "int", v |-> v]
Reg(n) == [k |-> "name", v |-> n]
Arg0 == [k |-> "arg", v |-> 0]
Local0 == [k |-> "local", v |-> 0]
encode_operand(o) ==
  CASE o.k = "int" -> encode_integer_const(o.v)
    [] o.k = "name" -> o.v
    [] o.k = "arg" -> <<104 + o.v>>
    [] o.k = "local" -> <<96 + o.v>>
Opcode == [store |-> 112, subtract |-> 116, shift_left |-> 121, and_op |-> 123, or_op |-> 125,
           find_set_right_bit |-> 130]
Statement(op, operands) ==
  <<Opcode[op]>> \o Join([i \in 1..Len(operands) |-> encode_operand(operands[i])])
create_word_field(buffer, index, n) ==
  <<139>> \o encode_operand(buffer) \o encode_integer_const(Small(index)) \o n

---------------------------------------------------------------------------
\* Resource templates (aml.rs): the bytes of a descriptor, and the ranges it claims.
Le16(k) == <<k % 256, (k \div 256) % 256>>
io_port(base, length) == <<71, 1>> \o Le16(base) \o Le16(base) \o <<1, length>>
irq_flags(irqs, flags) ==
  LET mask == MapThenSumSet(LAMBDA i : 2^i, irqs \cap 0..15)
  IN  <<35>> \o Le16(mask) \o <<flags>>
memory32_fixed(base, length) == <<134, 9, 0, 1>> \o SubSeq(base, 1, 4) \o SubSeq(length, 1, 4)
word_space(type, flags, min, max) ==
  <<136, 13, 0, type, 12, flags>> \o Le16(0) \o Le16(min) \o Le16(max) \o Le16(0)
    \o Le16(max - min + 1)
dword_memory(base, max, length) ==
  <<135, 23, 0, 0, 12, 1>> \o Zeros(4) \o base \o max \o Zeros(4) \o length
qword_memory(base, max, length) ==
  <<138, 43, 0, 0, 12, 1>> \o Zeros(8) \o base \o max \o Zeros(8) \o length

name_resource_template(n, rt) ==
  LET body == rt \o <<121, 0>>
      size == encode_integer_const(Small(Len(body)))
  IN  <<8>> \o n \o Sized(<<17>>, size \o body)

---------------------------------------------------------------------------
\* The walker (aml_validate.rs).  A cursor: position, end of the block it is in, first error.
Walker(b) == [pos |-> 0, limit |-> Len(b), err |-> "none"]
fail(w, e) == [w EXCEPT !.err = e]
skip(w, n) ==
  IF w.err # "none" THEN w
  ELSE IF w.pos + n > w.limit THEN fail(w, "Truncated") ELSE [w EXCEPT !.pos = @ + n]
\* The byte under the cursor; 256 stands for a failed peek.
Peek(b, w) == IF w.err # "none" \/ w.pos >= w.limit THEN 256 ELSE b[w.pos + 1]
Ended(w) == IF w.err = "none" /\ w.pos >= w.limit THEN fail(w, "Truncated") ELSE w

is_lead_name_char(c) == c \in 65..90 \/ c = 95
is_name_char(c) == is_lead_name_char(c) \/ c \in 48..57
starts_name(c) == c \in {92, 94, 46, 47} \/ is_lead_name_char(c)

parse_name_seg(b, w) ==
  LET n == IF w.limit - w.pos < 4 THEN w.limit - w.pos ELSE 4
      bad == \E i \in 1..n : ~ IF i = 1 THEN is_lead_name_char(b[w.pos + i])
                               ELSE is_name_char(b[w.pos + i])
  IN  IF w.err # "none" THEN w ELSE IF bad THEN fail(w, "InvalidName") ELSE skip(w, 4)

RECURSIVE segments(_, _, _)
segments(b, w, n) == IF n = 0 THEN w ELSE segments(b, parse_name_seg(b, w), n - 1)

RECURSIVE parse_name_string(_, _)
MultiName(b, w, count) ==
  IF count = 0 THEN fail(skip(w, 1), "InvalidName") ELSE IF count = 256 THEN Ended(w)
  ELSE segments(b, skip(w, 1), count)
NameAt(b, w, c) ==
  CASE c \in {92, 94} -> parse_name_string(b, skip(w, 1))
    [] c = 46 -> segments(b, skip(w, 1), 2)
    [] c = 47 -> MultiName(b, skip(w, 1), Peek(b, skip(w, 1)))
    [] is_lead_name_char(c) -> parse_name_seg(b, w)
    [] c = 256 -> Ended(w)
    [] OTHER -> fail(w, "InvalidName")
parse_name_string(b, w) == NameAt(b, w, Peek(b, w))

skip_cstr(b, w) ==
  LET ends == {i \in w.pos + 1..w.limit : b[i] = 0}
  IN  IF w.err # "none" THEN w
      ELSE IF ends = {} THEN fail(w, "Truncated")
      ELSE [w EXCEPT !.pos = CHOOSE i \in ends : \A j \in ends : i <= j]

\* Bytes after the opcode of a constant.
Width(c) == CASE c \in {0, 1} -> 0 [] c = 10 -> 1 [] c = 11 -> 2 [] c = 12 -> 4 [] c = 14 -> 8
Constants == {0, 1, 10, 11, 12, 14}

TermArg(b, w, c) ==
  CASE c \in Constants -> skip(w, 1 + Width(c))
    [] c \in 96..110 -> skip(w, 1)
    [] c = 13 -> skip_cstr(b, skip(w, 1))
    [] starts_name(c) -> parse_name_string(b, w)
    [] c = 256 -> Ended(w)
    [] OTHER -> fail(w, "BadTermArg")
parse_term_arg(b, w) == TermArg(b, w, Peek(b, w))

\* The cursor after a length field at `w`, and the length it states.
PkgLengthAt(b, w, lead, after) ==
  IF after.err # "none" THEN [w |-> after, length |-> 0]
  ELSE [w |-> after,
        length |-> IF lead < 64 THEN lead
                   ELSE (lead % 16) + MapThenSumSet(LAMBDA i : b[w.pos + 1 + i] * 16 * 256^(i - 1),
                                                    1..(lead \div 64))]
parse_pkg_length(b, w) ==
  PkgLengthAt(b, w, Peek(b, w), IF Peek(b, w) = 256 THEN Ended(w) ELSE skip(w, 1 + Peek(b, w) \div 64))
BodyEnd(w, p) ==
  IF p.w.err # "none" THEN p.w
  ELSE IF w.pos + p.length > w.limit \/ w.pos + p.length < p.w.pos THEN fail(p.w, "PkgLengthOverrun")
  ELSE [p.w EXCEPT !.limit = w.pos + p.length]
pkg_body_end(b, w) == BodyEnd(w, parse_pkg_length(b, w))
\* What is parsed inside a block leaves the enclosing limit as it was.
Leave(w, outer) == [w EXCEPT !.limit = outer.limit]

\* The size a buffer declares: a constant, or anything else, which is not compared.
ConstAt(b, w, c, after) ==
  [w |-> after,
   value |-> IF after.err # "none" THEN <<>>
             ELSE IF Width(c) = 0 THEN Small(c)
             ELSE SubSeq(b, w.pos + 2, w.pos + 1 + Width(c)) \o Zeros(8 - Width(c))]
parse_const_arg(b, w) ==
  IF Peek(b, w) \notin Constants THEN [w |-> Ended(w), value |-> <<>>]
  ELSE ConstAt(b, w, Peek(b, w), skip(w, 1 + Width(Peek(b, w))))

BufferBody(w, in, size) ==
  IF size.w.err # "none" THEN Leave(size.w, w)
  ELSE IF size.value # <<>> /\ size.value # Small(in.limit - size.w.pos)
       THEN Leave(fail(size.w, "BufferSizeMismatch"), w)
  ELSE [w EXCEPT !.pos = in.limit]
BufferIn(b, w, in) == IF in.err # "none" THEN in ELSE BufferBody(w, in, parse_const_arg(b, in))
parse_buffer_op(b, w) == BufferIn(b, w, pkg_body_end(b, w))

\* An operation as a predicate: one operand for a search, two for the others, and the target.
Operands(c) == CASE c \in {116, 121, 123, 125} -> 3 [] c = 130 -> 2 [] OTHER -> 1
RECURSIVE term_args(_, _, _)
term_args(b, w, n) == IF n = 0 THEN w ELSE term_args(b, parse_term_arg(b, w), n - 1)
parse_predicate(b, w) ==
  term_args(b, IF Operands(Peek(b, w)) = 1 THEN w ELSE skip(w, 1), Operands(Peek(b, w)))

RECURSIVE parse_package_op(_, _, _)
RECURSIVE package_elements(_, _, _, _, _)
ElementAt(b, w, c, depth) ==
  CASE c = 17 -> parse_buffer_op(b, skip(w, 1))
    [] c = 18 -> parse_package_op(b, skip(w, 1), depth + 1)
    [] c \in Constants \cup {13} \/ starts_name(c) -> parse_term_arg(b, w)
    [] OTHER -> fail(w, "BadNameValue")
NextElement(b, after, depth, declared, seen) ==
  IF after.err # "none" THEN after
  ELSE IF seen > declared THEN fail(after, "PackageElementCountMismatch")
  ELSE package_elements(b, after, depth, declared, seen)
package_elements(b, w, depth, declared, seen) ==
  IF w.pos >= w.limit
  THEN IF seen = declared THEN w ELSE fail(w, "PackageElementCountMismatch")
  ELSE NextElement(b, ElementAt(b, w, Peek(b, w), depth), depth, declared, seen + 1)
PackageIn(b, w, in, depth) ==
  IF in.err # "none" THEN in
  ELSE IF in.pos >= in.limit THEN Leave(Ended(in), w)
  ELSE Leave(package_elements(b, skip(in, 1), depth, Peek(b, in), 0), w)
parse_package_op(b, w, depth) ==
  IF depth > MAX_NESTING_DEPTH THEN fail(w, "NestingTooDeep")
  ELSE PackageIn(b, w, pkg_body_end(b, w), depth)

DataAt(b, w, c, depth) ==
  CASE c = 17 -> parse_buffer_op(b, skip(w, 1))
    [] c = 18 -> parse_package_op(b, skip(w, 1), depth + 1)
    [] OTHER -> parse_term_arg(b, w)
parse_data_object(b, w, depth) == DataAt(b, w, Peek(b, w), depth)
starts_data_object(c) == c \in Constants \cup {13, 17, 18} \cup 96..110 \/ starts_name(c)

RECURSIVE parse_field_list(_, _)
FieldAt(b, w, c) ==
  CASE c = 0 -> parse_pkg_length(b, skip(w, 1)).w
    [] c = 1 -> skip(w, 3)
    [] c = 2 -> parse_name_string(b, skip(w, 1))
    [] c = 3 -> skip(w, 4)
    [] is_lead_name_char(c) -> parse_pkg_length(b, parse_name_seg(b, w)).w
    [] OTHER -> fail(w, "MalformedFieldList")
parse_field_list(b, w) ==
  IF w.err # "none" \/ w.pos >= w.limit THEN w ELSE parse_field_list(b, FieldAt(b, w, Peek(b, w)))

\* What stands between the length field of a block and its terms.
BlockHead(b, op, in) ==
  IF op = <<160>> THEN parse_predicate(b, in) ELSE IF op = <<161>> THEN in
  ELSE skip(parse_name_string(b, in), CASE op = <<20>> -> 1 [] op = <<91, 131>> -> 9 [] OTHER -> 0)
Blocks == {<<16>>, <<20>>, <<91, 130>>, <<91, 131>>, <<160>>, <<161>>}
OpAt(b, w) == IF Peek(b, w) = 91 THEN <<91, Peek(b, skip(w, 1))>> ELSE <<Peek(b, w)>>

RECURSIVE parse_term_list(_, _, _)
RECURSIVE parse_term_obj(_, _, _)
parse_term_list(b, w, depth) ==
  IF w.err # "none" THEN w
  ELSE IF depth > MAX_NESTING_DEPTH THEN fail(w, "NestingTooDeep")
  ELSE IF w.pos >= w.limit THEN w
  ELSE parse_term_list(b, parse_term_obj(b, w, depth), depth)

BlockIn(b, w, in, op, depth) ==
  IF in.err # "none" THEN in
  ELSE Leave(IF op = <<91, 129>> THEN parse_field_list(b, skip(parse_name_string(b, in), 1))
             ELSE parse_term_list(b, BlockHead(b, op, in), depth + 1), w)

\* A term that is no block; `w` stands after its opcode.
Args(c) == IF c \in {112, 130, 134, 139, 140} THEN 2 ELSE 3
PlainTerm(b, w, c, depth) ==
  CASE c = 8 -> parse_data_object(b, parse_name_string(b, w), depth)
    [] c = 17 -> parse_buffer_op(b, w)
    [] c = 18 -> parse_package_op(b, w, depth + 1)
    [] c \in {112, 130, 134, 116, 121, 123, 125} -> term_args(b, w, Args(c))
    [] c \in {139, 140} -> parse_name_string(b, term_args(b, w, 2))
    [] c = 164 -> IF starts_data_object(Peek(b, w)) THEN parse_data_object(b, w, depth) ELSE w
    [] OTHER -> fail(w, "UnknownOpcode")
ExtTerm(b, w, c) ==
  IF c = 128 THEN term_args(b, skip(parse_name_string(b, skip(w, 2)), 1), 2)
  ELSE IF c = 256 THEN Ended(skip(w, 1)) ELSE fail(skip(w, 2), "UnknownExtOpcode")
TermAt(b, w, op, depth) ==
  IF op \in Blocks \cup {<<91, 129>>}
  THEN BlockIn(b, skip(w, Len(op)), pkg_body_end(b, skip(w, Len(op))), op, depth)
  ELSE IF op[1] = 91 THEN ExtTerm(b, w, op[2])
  ELSE IF op[1] \in Constants \cup 96..110 \cup {13} \/ starts_name(op[1]) THEN parse_term_arg(b, w)
  ELSE PlainTerm(b, skip(w, 1), op[1], depth)
parse_term_obj(b, w, depth) == TermAt(b, w, OpAt(b, w), depth)

validate_aml(b) == parse_term_list(b, Walker(b), 0).err

---------------------------------------------------------------------------
\* A caller of the builder: terms and blocks in any order, the last block opened closed first,
\* a `Return` only inside one.
\* `depths` lists how deep each term was meant to be, `tops` the ends of the outermost ones.
BuilderInit == ab = [data |-> <<>>, open |-> <<>>, depths |-> <<>>, tops |-> {0}, nest |-> 0, whole |-> TRUE]

\* A term that is not a block, with how many packages it nests.
Leaves ==
  {<<name_integer(Name(0), v), 0>> : v \in Ints} \cup {<<return_integer(v), 0>> : v \in Ints}
  \cup {<<name_string(Name(1), n), 0>> : n \in Strings}
  \cup {<<name_package(Name(2), vs), 1>> : vs \in {<<>>} \cup {<<v, Small(0)>> : v \in Ints}}
  \cup {<<return_routing_table(<<<<v, Small(1), Small(0), Small(16)>>>>), 2>> : v \in Ints}
  \cup {<<return_routing_table_via_links(<<<<Small(1), Small(1), segs>>>>), 2>> :
          segs \in {<<Name(3)>>, <<Name(3), Name(4)>>}}
  \cup {<<name_resource_template(Name(6), io_port(96, 1) \o irq_flags({1, 12}, 1)), 0>>,
        <<operation_region(Name(7), 2, Small(96), Small(4)), 0>>,
        <<field(Name(7), <<<<Name(8), 8>>, <<<<>>, 70>>>>), 0>>,
        <<create_word_field(Arg0, 1, Name(9)), 0>>}
Heads == {scope_start(Name(10)), device_start(Name(11)), method_start(Name(12), 1, TRUE),
          if_name_start(Name(0)), if_start(Statement("and_op", <<Reg(Name(8)), Lit(Small(128)), Lit(Small(0))>>))}

Nested(d, n) == Max({d.nest, Len(d.open) + n})
Leaf(t) ==
  /\ ab.whole /\ Len(ab.depths) < MaxTerms /\ (t[1][1] = 164 => ab.open # <<>>)
  /\ ab' = [ab EXCEPT !.data = @ \o t[1], !.depths = Append(@, Len(ab.open)), !.nest = Nested(ab, t[2]),
                      !.tops = IF ab.open = <<>> THEN @ \cup {Len(ab.data) + Len(t[1])} ELSE @]
Open(h) ==
  /\ ab.whole /\ Len(ab.depths) < MaxTerms /\ Len(ab.open) < MaxOpen
  /\ ab' = [ab EXCEPT !.data = @ \o Opened(h), !.depths = Append(@, Len(ab.open)), !.nest = Nested(ab, 1),
                      !.open = Append(@, Len(ab.data) + Len(h[1]))]
Close ==
  /\ ab.whole /\ ab.open # <<>>
  /\ LET data == patch_pkg_length(ab.data, Last(ab.open))
         open == Front(ab.open)
     IN  ab' = [ab EXCEPT !.data = data, !.open = open,
                          !.tops = IF open = <<>> THEN @ \cup {Len(data)} ELSE @]
\* One byte of a finished stream is damaged before it is walked.
Damage(i, c) ==
  /\ ab.whole /\ ab.open = <<>> /\ Len(ab.depths) <= MaxDamaged /\ ab.data[i] # c
  /\ ab' = [ab EXCEPT !.data[i] = c, !.whole = FALSE]

BuilderNext ==
  \/ \E t \in Leaves : Leaf(t)
  \/ \E h \in Heads : Open(h)
  \/ Close
  \/ \E i \in 1..Len(ab.data), c \in Damages : Damage(i, c)

\* The depth of every term as an interpreter finds it, from the length fields alone.
RECURSIVE Depths(_, _, _)
InnerOf(b, w, op) == BlockHead(b, op, pkg_body_end(b, skip(w, Len(op))))
Depths(b, w, depth) ==
  IF w.pos >= w.limit THEN <<>>
  ELSE <<depth>>
         \o (IF OpAt(b, w) \in Blocks THEN Depths(b, InnerOf(b, w, OpAt(b, w)), depth + 1) ELSE <<>>)
         \o Depths(b, parse_term_obj(b, w, depth), depth)

\* What the builder makes the walker accepts, up to the nesting it allows, and reads with every
\* term at the depth the caller put it; cut anywhere but after an outermost term, the stream
\* is refused ("Structural fields our builder always gets right ... are cross-checked",
\* aml_validate.rs:22-25).
BuiltIsRead ==
  ab.whole /\ ab.open = <<>> =>
    /\ validate_aml(ab.data) = IF ab.nest > MAX_NESTING_DEPTH THEN "NestingTooDeep" ELSE "none"
    /\ ab.nest <= MAX_NESTING_DEPTH =>
         /\ Depths(ab.data, Walker(ab.data), 0) = ab.depths
         /\ \A n \in 0..Len(ab.data) :
              (validate_aml(SubSeq(ab.data, 1, n)) = "none") = (n \in ab.tops)

\* The walker is total: whatever byte is damaged it comes to an answer, and when it accepts it
\* has read exactly to the end with the limit of the outermost block restored
\* (aml_validate.rs:14-19, debug_assert 425).
WalkTotal ==
  ab.open = <<>> =>
    LET w == parse_term_list(ab.data, Walker(ab.data), 0)
    IN  /\ w.pos <= Len(ab.data)
        /\ w.err = "none" => w.pos = Len(ab.data) /\ w.limit = Len(ab.data)

---------------------------------------------------------------------------
\* The DSDT (dsdt.rs).  Names: 0-9 predefined objects, 10.. devices and fields.
HID == Name(0)
UID == Name(1)
CRS == Name(2)
STA == Name(3)
PIRx(i) == Name(20 + i)
LinkName(i) == Name(30 + i)
processor_name(i) == LET hex(d) == IF d < 10 THEN 48 + d ELSE 55 + d
                     IN  <<67, hex(i \div 16), hex(i % 16), 95>>

Claim(ports, irqs) == [ports |-> ports, irqs |-> irqs]
Template(c) ==
  Join([i \in 1..Len(c.ports) |-> io_port(c.ports[i][1], c.ports[i][2])])
    \o Join([i \in 1..Len(c.irqs) |-> irq_flags({c.irqs[i]}, 1)])
Present == Block(method_start(STA, 0, FALSE), return_integer(Small(15)))
IsaDevice(n, uid, c) ==
  Block(device_start(n), name_string(HID, 7)
    \o (IF uid = <<>> THEN <<>> ELSE name_integer(UID, uid))
    \o name_resource_template(CRS, Template(c)) \o Present)

\* The fixed devices of the ISA bridge with the ports and interrupts they claim.
Rtc == <<Name(40), <<>>, Claim(<<<<112, 2>>>>, <<8>>)>>
Ps2 == <<<<Name(41), <<>>, Claim(<<<<96, 1>>, <<100, 1>>>>, <<1>>)>>,
         <<Name(42), <<>>, Claim(<<>>, <<12>>)>>>>
Com1(c) == <<Name(43), Small(1), Claim(<<<<c.com1_port, 8>>>>, <<c.com1_irq>>)>>
Motherboard ==
  <<Name(44), Small(1),
    Claim(<<<<0, 16>>, <<32, 2>>, <<64, 4>>, <<97, 1>>, <<128, 16>>, <<146, 1>>, <<160, 2>>,
            <<192, 32>>, <<1232, 2>>>>, <<>>)>>
IsaDevices(c) ==
  (IF c.has_rtc THEN <<Rtc>> ELSE <<>>) \o (IF c.has_ps2 THEN Ps2 ELSE <<>>)
    \o <<Com1(c), Motherboard>>

\* The statements of a link device's methods; its register is PIRx(i), the mask IRQM.
IRQM == Name(9)
SetLocal == <<"find_set_right_bit", <<Reg(IRQM), Local0>>>>
link_srs(i) == <<SetLocal, <<"subtract", <<Local0, Lit(Small(1)), Local0>>>>,
                 <<"store", <<Local0, Reg(PIRx(i))>>>>>>
link_dis(i) == <<<<"or_op", <<Reg(PIRx(i)), Lit(Small(128)), Reg(PIRx(i))>>>>>>
link_crs(i) == <<<<"and_op", <<Reg(PIRx(i)), Lit(Small(15)), Local0>>>>,
                 <<"shift_left", <<Lit(Small(1)), Local0, Reg(IRQM)>>>>>>
link_sta(i) == <<"and_op", <<Reg(PIRx(i)), Lit(Small(128)), Lit(Small(0))>>>>
Code(statements) == Join([i \in 1..Len(statements) |-> Statement(statements[i][1], statements[i][2])])

ROUTABLE == {3, 4, 5, 6, 7, 9, 10, 11, 12, 14, 15}
build_pci_link_device(i) ==
  Block(device_start(LinkName(i)),
    name_string(HID, 7) \o name_integer(UID, Small(i + 1))
      \o name_resource_template(Name(4), irq_flags(ROUTABLE, 24))
      \o Block(method_start(STA, 0, FALSE),
           Block(if_start(Code(<<link_sta(i)>>)), return_integer(Small(9))) \o return_integer(Small(11)))
      \o Block(method_start(CRS, 0, TRUE),
           name_resource_template(Name(8), irq_flags({}, 24)) \o create_word_field(Reg(Name(8)), 1, IRQM)
             \o Code(link_crs(i)) \o return_name(Name(8)))
      \o Block(method_start(Name(5), 0, FALSE), Code(link_dis(i)))
      \o Block(method_start(Name(6), 1, TRUE), create_word_field(Arg0, 1, IRQM) \o Code(link_srs(i))))

build_isa_bridge(c) ==
  Block(device_start(Name(11)),
    name_integer(Name(7), <<0, 0, 31, 0>> \o Zeros(4))
      \o operation_region(Name(12), 2, Small(96), Small(4))
      \o field(Name(12), [i \in 1..4 |-> <<PIRx(i - 1), 8>>])
      \o Join([i \in 1..4 |-> build_pci_link_device(i - 1)])
      \o Join([i \in 1..Len(IsaDevices(c)) |->
           IsaDevice(IsaDevices(c)[i][1], IsaDevices(c)[i][2], IsaDevices(c)[i][3])]))

\* The interrupt routing of every slot and pin: fixed APIC inputs, or the links, by PICF.
pirq_line(slot, pin) == (slot + pin - 1) % 4
PrtAddress(slot) == <<255, 255, slot>> \o Zeros(5)
Pin(k) == <<(k - 1) \div 4, (k - 1) % 4>>
build_pci_routing_table ==
  LET n == 4 * Slots
      apic == [k \in 1..n |-> <<PrtAddress(Pin(k)[1]), Small(Pin(k)[2]), Small(0),
                                Small(16 + pirq_line(Pin(k)[1], Pin(k)[2] + 1))>>]
      pic == [k \in 1..n |-> <<PrtAddress(Pin(k)[1]), Small(Pin(k)[2]),
                               <<Name(13), Name(14), Name(11), LinkName(pirq_line(Pin(k)[1], Pin(k)[2] + 1))>>>>]
  IN  Block(method_start(Name(15), 0, FALSE),
        Block(if_name_start(Name(16)), return_routing_table(apic)) \o return_routing_table_via_links(pic))

Dword(v) == SubSeq(v, 1, 4)
build_pci_root(c) ==
  Block(device_start(Name(14)),
    name_string(HID, 7) \o name_string(Name(17), 7) \o name_integer(UID, Small(0))
      \o name_integer(Name(18), Small(0)) \o Present
      \o name_resource_template(CRS,
           word_space(2, 0, 0, 255) \o word_space(1, 3, 0, 3319) \o word_space(1, 3, 3328, 65535)
             \o dword_memory(Dword(c.hole[1]), Dword(c.hole[2]), Dword(c.hole[3]))
             \o qword_memory(c.hole64[1], c.hole64[2], c.hole64[3]))
      \o build_isa_bridge(c) \o build_pci_routing_table)
build_hpet ==
  Block(device_start(Name(19)),
    name_string(HID, 7) \o name_integer(UID, Small(0))
      \o name_resource_template(CRS, memory32_fixed(<<0, 0, 208, 254>>, Small(1024))) \o Present)
build_pic_method ==
  name_integer(Name(16), Small(0))
    \o Block(method_start(Name(26), 1, FALSE), Statement("store", <<Arg0, Reg(Name(16))>>))
build_system_bus(c) ==
  Block(scope_start(Name(13)), build_pci_root(c) \o IF c.has_hpet THEN build_hpet ELSE <<>>)
build_processors(n) ==
  Block(scope_start(Name(27)),
    Join([i \in 1..n |->
      Block(device_start(processor_name(i - 1)),
        name_string(HID, 8) \o name_integer(UID, Small(i - 1)) \o Present)]))
SLP_TYP == <<3, 4, 5>>
build_sleep_states ==
  Join([i \in 1..3 |->
    name_package(Name(27 + i), <<Small(SLP_TYP[i]), Small(SLP_TYP[i]), Small(0), Small(0)>>)])
dsdt_aml(c) ==
  build_pic_method \o build_system_bus(c) \o build_processors(c.vcpu_count) \o build_sleep_states

---------------------------------------------------------------------------
\* The SSDT (ssdt.rs), put together by hand: a length field is sized by the body alone.
TwoPass(op, body) ==
  op \o encode_pkg_length(Len(body) + Len(encode_pkg_length(Len(body)))) \o body
\* A performance state: frequency, power, latency, control, status.
PssBody(p) == <<6>> \o Join([i \in 1..6 |-> encode_integer_const(p[<<1, 2, 3, 3, 4, 5>>[i]])])
build_pss_entry(p) == TwoPass(<<18>>, PssBody(p))
PssList(ps) == <<Len(ps) % 256>> \o Join([i \in 1..Len(ps) |-> build_pss_entry(ps[i])])
build_pss_object(ps) == <<8>> \o Name(24) \o TwoPass(<<18>>, PssList(ps))

\* A sleep state: type, latency, power, register address, its width, its address space.
default_cstates ==
  <<<<1, 1, 1000, 0, 0, 127>>, <<2, 50, 500, 1044, 8, 1>>, <<3, 100, 250, 1045, 8, 1>>>>
build_gas(k) == <<k[6], k[5], 0, IF k[5] # 0 THEN 1 ELSE 0>> \o Small(k[4])
GasBody(k) ==
  LET resource == <<130, 12, 0>> \o build_gas(k) \o <<121, 0>>
  IN  encode_integer_const(Small(Len(resource))) \o resource
build_resource_buffer(k) == TwoPass(<<17>>, GasBody(k))
CstBody(k) ==
  <<4>> \o build_resource_buffer(k) \o Join([i \in 1..3 |-> encode_integer_const(Small(k[i]))])
build_cst_entry(k) == TwoPass(<<18>>, CstBody(k))
CstList(ks) ==
  <<(Len(ks) + 1) % 256>> \o encode_integer_const(Small(Len(ks)))
    \o Join([i \in 1..Len(ks) |-> build_cst_entry(ks[i])])
build_cst_object(ks) == <<8>> \o Name(25) \o TwoPass(<<18>>, CstList(ks))

CpuBody(c, i) == processor_name(i) \o build_pss_object(c.pstates) \o build_cst_object(default_cstates)
PrBody(c) == Name(27) \o Join([i \in 1..c.vcpu_count |-> TwoPass(<<16>>, CpuBody(c, i - 1))])
ssdt_aml(c) == TwoPass(<<16>>, PrBody(c))

---------------------------------------------------------------------------
\* A table around its AML: header, length, and the checksum byte that makes it sum to zero.
RECURSIVE SumOf(_, _, _)
SumOf(b, lo, hi) ==
  IF lo > hi THEN 0 ELSE IF lo = hi THEN b[lo]
  ELSE LET mid == (lo + hi) \div 2 IN (SumOf(b, lo, mid) + SumOf(b, mid + 1, hi)) % 256
HEADER_LEN == 36
Header(n) == <<68, 83, 68, 84>> \o SubSeq(Small(n), 1, 4) \o <<2, 0>> \o [i \in 1..26 |-> 32]
build(aml) ==
  LET t == Header(HEADER_LEN + Len(aml)) \o aml
  IN  [t EXCEPT ![10] = (256 - SumOf(t, 1, Len(t))) % 256]

validate_table_payload(t) ==
  IF Len(t) < HEADER_LEN THEN "Truncated"
  ELSE IF SubSeq(t, 5, 8) # SubSeq(Small(Len(t)), 1, 4) THEN "TableLengthMismatch"
  ELSE IF SumOf(t, 1, Len(t)) # 0 THEN "BadChecksum"
  ELSE validate_aml(SubSeq(t, HEADER_LEN + 1, Len(t)))

TablesInit ==
  tb \in [kind : {"dsdt"}, cfg : Dsdts, bytes : {<<>>}] \cup [kind : {"ssdt"}, cfg : Ssdts, bytes : {<<>>}]
BuildTable ==
  /\ tb.bytes = <<>>
  /\ tb' = [tb EXCEPT !.bytes = build(IF tb.kind = "dsdt" THEN dsdt_aml(tb.cfg) ELSE ssdt_aml(tb.cfg))]
\* A table handed to the guest short of its last bytes.
CutTable(n) ==
  /\ Len(tb.bytes) > n
  /\ tb' = [tb EXCEPT !.bytes = SubSeq(@, 1, Len(@) - n), !.kind = "cut"]
TablesNext == BuildTable \/ (tb.kind # "cut" /\ \E n \in 1..HEADER_LEN : CutTable(n))

\* The paths of the scopes and devices of a stream, in order.
RECURSIVE Objects(_, _, _)
NameOf(b, body) == SubSeq(b, body.pos + 1, body.pos + 4)
BlockObjects(b, op, body, path) ==
  IF op \in {<<16>>, <<91, 130>>}
  THEN <<Append(path, NameOf(b, body))>>
         \o Objects(b, BlockHead(b, op, body), Append(path, NameOf(b, body)))
  ELSE IF op \in Blocks THEN Objects(b, BlockHead(b, op, body), path) ELSE <<>>
Objects(b, w, path) ==
  IF w.pos >= w.limit THEN <<>>
  ELSE BlockObjects(b, OpAt(b, w), pkg_body_end(b, skip(w, Len(OpAt(b, w)))), path)
         \o Objects(b, parse_term_obj(b, w, 0), path)
ObjectsOf(t) == Objects(t, [Walker(t) EXCEPT !.pos = HEADER_LEN], <<>>)

Ports(c) == UNION {p[1]..p[1] + p[2] - 1 : p \in ToSet(c.ports)}
OffByOne == {62, 4093, 4094}
Bodies(c) ==
  {Len(PrBody(c))} \cup
    IF c.vcpu_count = 0 THEN {}
    ELSE {Len(PssBody(c.pstates[i])) : i \in 1..Len(c.pstates)} \cup {Len(CstBody(default_cstates[i])) : i \in 1..3}
         \cup {Len(PssList(c.pstates)), Len(CstList(default_cstates)), Len(CpuBody(c, 0))}

\* Every DSDT is accepted, declares each device once, declares every link device its routing
\* table names and every processor the SSDT of as many processors adds states to; its ISA
\* devices claim disjoint ports inside the host bridge's windows.  Every SSDT is accepted but
\* one with a body of 62, 4093 or 4094 bytes, where the hand-made length field is one byte
\* short (ssdt.rs:212-214 and alike).  A table that is cut is refused.
TablesRead ==
  tb.bytes # <<>> =>
    CASE tb.kind = "cut" -> validate_table_payload(tb.bytes) # "none"
      [] tb.kind = "dsdt" ->
           LET paths == ObjectsOf(tb.bytes)
               devices == IsaDevices(tb.cfg)
           IN  /\ validate_table_payload(tb.bytes) = "none"
               /\ IsInjective(paths)
               /\ \A i \in 0..3 : Contains(paths, <<Name(13), Name(14), Name(11), LinkName(i)>>)
               /\ \A i \in 1..tb.cfg.vcpu_count : Contains(paths, <<Name(27), processor_name(i - 1)>>)
               /\ \A i, j \in 1..Len(devices) : i # j => Ports(devices[i][3]) \cap Ports(devices[j][3]) = {}
               /\ \A i \in 1..Len(devices) : Ports(devices[i][3]) \subseteq 0..3319 \cup 3328..65535
      [] tb.kind = "ssdt" ->
           /\ (validate_table_payload(tb.bytes) = "none") = (Bodies(tb.cfg) \cap OffByOne = {})
           /\ Bodies(tb.cfg) \cap OffByOne = {} =>
                ObjectsOf(tb.bytes) = <<<<Name(27)>>>>
                  \o [i \in 1..tb.cfg.vcpu_count |-> <<Name(27), processor_name(i - 1)>>]

---------------------------------------------------------------------------
\* A link device's methods run by the guest on the bridge's routing register (dsdt.rs), and
\* the router that reads the same register (interrupt/pirq.rs).
Value(env, o) ==
  CASE o.k = "int" -> o.v[1] + 256 * o.v[2]
    [] o.k = "name" -> env[IF o.v = IRQM THEN "mask" ELSE "register"]
    [] o.k = "local" -> env.local
Put(env, o, v) ==
  CASE o.k = "int" -> env
    [] o.k = "name" -> IF o.v = IRQM THEN [env EXCEPT !.mask = v % 65536] ELSE [env EXCEPT !.register = v % 256]
    [] o.k = "local" -> [env EXCEPT !.local = v]
RightBit(v) == IF v = 0 THEN 0 ELSE 1 + CHOOSE i \in 0..15 : v % 2^i = 0 /\ v % 2^(i + 1) # 0
Compute(op, a) ==
  CASE op = "and_op" -> a[1] & a[2]
    [] op = "or_op" -> a[1] | a[2]
    [] op = "shift_left" -> a[1] * 2^a[2]
    [] op = "subtract" -> a[1] - a[2]
    [] op = "find_set_right_bit" -> RightBit(a[1])
    [] op = "store" -> a[1]
Run(env, s) ==
  Put(env, Last(s[2]), Compute(s[1], [i \in 1..Len(s[2]) - 1 |-> Value(env, s[2][i])]))
RunAll(env, code) == FoldLeft(Run, env, code)
Env(register, mask) == [register |-> register, mask |-> mask, local |-> 0]
MaskOf(irqs) == MapThenSumSet(LAMBDA i : 2^i, irqs)

isa_irq(register) ==
  IF register >= 128 \/ register % 16 \notin ROUTABLE THEN -1 ELSE register % 16

LinkInit == lk = [register |-> 128, asked |-> -1]
SetResources(irqs) ==
  lk' = [register |-> RunAll(Env(lk.register, MaskOf(irqs)), link_srs(0)).register,
         asked |-> IF irqs = {} THEN -1 ELSE Min(irqs)]
Disable == lk' = [register |-> RunAll(Env(lk.register, 0), link_dis(0)).register, asked |-> -1]
\* The guest may also write the register through configuration space.
Program(v) == lk' = [register |-> v, asked |-> IF v >= 128 THEN -1 ELSE v % 16]
LinkNext == (\E m \in Masks : SetResources(m)) \/ Disable \/ \E v \in Bytes : Program(v)

STA_DISABLED == 9
Status == IF Compute("and_op", <<lk.register, 128>>) # 0 THEN STA_DISABLED ELSE 11
Current == RunAll(Env(lk.register, 0), link_crs(0)).mask

\* Whatever order the guest disables, sets and programs a link in, its status, the interrupt
\* it reports and the interrupt the router drives are the one last asked for; a link that is
\* disabled drives none, and one set to no interrupt at all is disabled (dsdt.rs:203-209).
LinkFollows ==
  /\ isa_irq(lk.register) = IF lk.asked \in ROUTABLE THEN lk.asked ELSE -1
  /\ (Status = STA_DISABLED) = (lk.asked = -1)
  /\ lk.asked # -1 => Current = 2^lk.asked
=============================================================================
