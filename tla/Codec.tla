------------------------------- MODULE Codec -------------------------------
(***************************************************************************)
(* Bytecode modules as bytes: encode_module and decode_module of           *)
(* runtime/bytecode, on the modules of module Bytecode.  What those leave  *)
(* out is written with a fixed value and read back without being looked    *)
(* at: the types of parameters and results, the places in the source.      *)
(***************************************************************************)
EXTENDS Bytecode, SequencesExt

CONSTANT Spelling   \* texts |-> their UTF-8 bytes

ASSUME SpellingAssumption ==
  /\ \A t, u \in DOMAIN Spelling : Spelling[t] = Spelling[u] => t = u
  /\ \A t \in DOMAIN Spelling : Spelling[t] \in Seq(0..255)

\* Numbers as little-endian bytes; a larger one loses what is above.
U8(n) == <<n % 256>>
U16(n) == <<n % 256, (n \div 256) % 256>>
U32(n) == <<n % 256, (n \div 256) % 256, (n \div 65536) % 256, (n \div 16777216) % 256>>

Magic == <<84, 83, 86, 77>>   \* TSVM
Version == 1

\* The numbers of constant kinds, opcodes and type tags count from 0.
ConstantKinds == <<"number", "string", "boolean", "null", "undefined", "symbol">>
OpcodeNumbers ==
  <<"LoadConst", "BuildObject", "BuildArray", "LoadLocal", "StoreLocal", "LoadMember",
    "StoreMember", "Binary", "Call", "Branch", "Jump", "Return">>
NumberTag == 0
UnknownTag == 8
NumberIn(numbers, x) == CHOOSE n \in 0 .. Len(numbers) - 1 : numbers[n + 1] = x

WriteEach(Write(_), items) == FlattenSeq([k \in DOMAIN items |-> Write(items[k])])
Repeated(item, n) == [k \in 1..n |-> item]

WriteString(text) == U32(Len(Spelling[text])) \o Spelling[text]

WriteConstant(c) ==
  U8(NumberIn(ConstantKinds, c.kind))
    \o CASE c.kind \in {"number", "string", "symbol"} -> WriteString(c.text)
         [] c.kind = "boolean" -> U8(IF c.text = "true" THEN 1 ELSE 0)
         [] c.kind \in {"null", "undefined"} -> <<>>

WriteInstruction(i) ==
  U8(NumberIn(OpcodeNumbers, i.op)) \o U8(IF i.typed THEN NumberTag ELSE UnknownTag)
    \o U32(i.source) \o U32(Len(i.args)) \o WriteEach(U32, i.args)

WriteBlock(b) == U32(b.id) \o U32(Len(b.code)) \o WriteEach(WriteInstruction, b.code)

\* A place in the source, as six zeros.
WriteSource(place) == WriteEach(U32, Repeated(0, 6))

WriteException(e) == U32(e.start) \o U32(e.end) \o U32(e.handler)

WriteFunction(f) ==
  WriteString(f.name) \o U32(f.params) \o WriteEach(U8, Repeated(UnknownTag, f.params)) \o U8(UnknownTag)
    \o U32(Len(f.blocks)) \o WriteEach(WriteBlock, f.blocks)
    \o U32(Len(f.exceptions)) \o WriteEach(WriteException, f.exceptions)

\* encode_module of a module with the expected header.
EncodeModule(m) ==
  Magic \o U16(Version) \o U32(Len(m.constants)) \o U32(m.sources) \o U32(Len(m.functions))
    \o WriteEach(WriteConstant, m.constants)
    \o WriteEach(WriteSource, Repeated(0, m.sources))
    \o WriteEach(WriteFunction, m.functions)
-----------------------------------------------------------------------------
\* What reading from a place on gives: a value and the place after it, or
\* nothing.  A reader is a function from places to what it gives there.
Got(value, at) == [ok |-> TRUE, value |-> value, at |-> at]
Failed == [ok |-> FALSE]
Then(r, Next(_, _)) == IF r.ok THEN Next(r.value, r.at) ELSE Failed
Places(bytes) == 0 .. Len(bytes)

\* read_exact.
ReadExact(bytes, at, n) ==
  IF at + n <= Len(bytes) THEN Got(SubSeq(bytes, at + 1, at + n), at + n) ELSE Failed

ReadU8(bytes) == [at \in Places(bytes) |->
  Then(ReadExact(bytes, at, 1), LAMBDA b, next : Got(b[1], next))]

ReadU32(bytes) == [at \in Places(bytes) |->
  Then(ReadExact(bytes, at, 4), LAMBDA b, next :
    Got(b[1] + 256 * b[2] + 65536 * b[3] + 16777216 * b[4], next))]

\* A byte that stands for one of numbers.
ReadOneOf(numbers, bytes) == [at \in Places(bytes) |->
  Then(ReadU8(bytes)[at], LAMBDA n, next :
    IF n < Len(numbers) THEN Got(numbers[n + 1], next) ELSE Failed)]

\* n items one after the other.
ReadItems(read, n, at) ==
  LET first[k \in 0..n] ==
        IF k = 0 THEN Got(<<>>, at)
        ELSE Then(first[k - 1], LAMBDA items, next :
               Then(read[next], LAMBDA item, after : Got(Append(items, item), after)))
  IN  first[n]

\* Their number and then the items.
ReadCounted(read, bytes, at) ==
  Then(ReadU32(bytes)[at], LAMBDA n, next : ReadItems(read, n, next))

\* read_string: bytes that spell no text are not UTF-8.
ReadString(bytes) == [at \in Places(bytes) |->
  Then(ReadU32(bytes)[at], LAMBDA n, next :
    Then(ReadExact(bytes, next, n), LAMBDA b, after :
      IF \E t \in DOMAIN Spelling : Spelling[t] = b
        THEN Got(CHOOSE t \in DOMAIN Spelling : Spelling[t] = b, after)
        ELSE Failed))]

\* Takes a symbol for a string.
ReadConstantAsString(bytes) == [at \in Places(bytes) |->
  Then(ReadOneOf(ConstantKinds, bytes)[at], LAMBDA kind, next :
    CASE kind \in {"number", "string", "symbol"} ->
           Then(ReadString(bytes)[next], LAMBDA text, after :
             Got([kind |-> IF kind = "symbol" THEN "string" ELSE kind, text |-> text], after))
      [] kind = "boolean" ->
           Then(ReadU8(bytes)[next], LAMBDA n, after :
             Got([kind |-> kind, text |-> IF n # 0 THEN "true" ELSE "false"], after))
      [] kind \in {"null", "undefined"} -> Got([kind |-> kind, text |-> ""], next))]

ReadConstant(bytes) == [at \in Places(bytes) |->
  Then(ReadOneOf(ConstantKinds, bytes)[at], LAMBDA kind, next :
    CASE kind \in {"number", "string", "symbol"} ->
           Then(ReadString(bytes)[next], LAMBDA text, after :
             Got([kind |-> kind, text |-> text], after))
      [] kind = "boolean" ->
           Then(ReadU8(bytes)[next], LAMBDA n, after :
             Got([kind |-> kind, text |-> IF n # 0 THEN "true" ELSE "false"], after))
      [] kind \in {"null", "undefined"} -> Got([kind |-> kind, text |-> ""], next))]

\* read_type_tag, by whether the type is known.
ReadTypeTag(bytes) == ReadOneOf([t \in 1..9 |-> t # UnknownTag + 1], bytes)

ReadOpcode(bytes) == ReadOneOf(OpcodeNumbers, bytes)

ReadInstruction(bytes) == [at \in Places(bytes) |->
  Then(ReadOpcode(bytes)[at], LAMBDA op, a :
    Then(ReadTypeTag(bytes)[a], LAMBDA typed, b :
      Then(ReadU32(bytes)[b], LAMBDA source, c :
        Then(ReadCounted(ReadU32(bytes), bytes, c), LAMBDA args, d :
          Got([op |-> op, args |-> args, typed |-> typed, source |-> source], d)))))]

ReadBlock(bytes) == [at \in Places(bytes) |->
  Then(ReadU32(bytes)[at], LAMBDA id, a :
    Then(ReadCounted(ReadInstruction(bytes), bytes, a), LAMBDA code, b :
      Got([id |-> id, code |-> code], b)))]

ReadException(bytes) == [at \in Places(bytes) |->
  Then(ReadItems(ReadU32(bytes), 3, at), LAMBDA e, a :
    Got([start |-> e[1], end |-> e[2], handler |-> e[3]], a))]

ReadSource(bytes) == [at \in Places(bytes) |-> ReadItems(ReadU32(bytes), 6, at)]

ReadFunction(bytes) == [at \in Places(bytes) |->
  Then(ReadString(bytes)[at], LAMBDA name, a :
    Then(ReadCounted(ReadTypeTag(bytes), bytes, a), LAMBDA params, b :
      Then(ReadTypeTag(bytes)[b], LAMBDA returns, c :
        Then(ReadCounted(ReadBlock(bytes), bytes, c), LAMBDA blocks, d :
          Then(ReadCounted(ReadException(bytes), bytes, d), LAMBDA exceptions, e :
            Got([name |-> name, params |-> Len(params), blocks |-> blocks,
                 exceptions |-> exceptions], e))))))]

\* decode_module: another header, an end before the end or bytes after it are
\* errors.
DecodeModule(bytes) ==
  Then(ReadExact(bytes, 0, 6), LAMBDA header, a :
    Then(ReadItems(ReadU32(bytes), 3, a), LAMBDA counts, b :
      Then(ReadItems(ReadConstant(bytes), counts[1], b), LAMBDA constants, c :
        Then(ReadItems(ReadSource(bytes), counts[2], c), LAMBDA sources, d :
          Then(ReadItems(ReadFunction(bytes), counts[3], d), LAMBDA functions, e :
            IF header = Magic \o U16(Version) /\ e = Len(bytes)
              THEN Got([header |-> TRUE, constants |-> constants, functions |-> functions,
                        sources |-> Len(sources)], e)
              ELSE Failed)))))
-----------------------------------------------------------------------------
\* The modules that the types of the code allow, with lengths that do not lose
\* anything as u32: numbers are below 2^32, a boolean is true or false, null and
\* undefined are without a text.
IsU32(n) == n \in Nat /\ n \div 16777216 < 256

CountsFit(s) == IsU32(Len(s))

EncodableText(t) == t \in DOMAIN Spelling /\ CountsFit(Spelling[t])

EncodableConstant(c) ==
  /\ EncodableText(c.text)
  /\ c.kind = "boolean" => c.text \in {"true", "false"}
  /\ c.kind \in {"null", "undefined"} => c.text = ""

EncodableInstruction(i) ==
  IsU32(i.source) /\ CountsFit(i.args) /\ \A k \in DOMAIN i.args : IsU32(i.args[k])

EncodableBlock(b) ==
  IsU32(b.id) /\ CountsFit(b.code) /\ \A k \in DOMAIN b.code : EncodableInstruction(b.code[k])

EncodableFunction(f) ==
  /\ EncodableText(f.name) /\ IsU32(f.params)
  /\ CountsFit(f.blocks) /\ \A k \in DOMAIN f.blocks : EncodableBlock(f.blocks[k])
  /\ CountsFit(f.exceptions)
  /\ \A k \in DOMAIN f.exceptions :
       IsU32(f.exceptions[k].start) /\ IsU32(f.exceptions[k].end) /\ IsU32(f.exceptions[k].handler)

Encodable(m) ==
  /\ IsU32(m.sources)
  /\ CountsFit(m.constants) /\ \A k \in DOMAIN m.constants : EncodableConstant(m.constants[k])
  /\ CountsFit(m.functions) /\ \A k \in DOMAIN m.functions : EncodableFunction(m.functions[k])
=============================================================================
