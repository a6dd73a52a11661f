------------------------------ MODULE Loading ------------------------------
(***************************************************************************)
(* The modules the interpreter is handed, as the bytes they are kept and   *)
(* moved in: what decode_module gives back of what encode_module wrote.    *)
(***************************************************************************)
EXTENDS Interpreter, Codec

CONSTANT CutAnywhere   \* bound: the modules whose bytes are cut at every place

ASSUME LoadingAssumption == \A m \in Modules : Encodable(m)

\* A module with the expected header is what decoding its encoding gives, and no
\* bytes that are shorter or longer decode: every field is read in the order and
\* width it was written in, an end in the middle of any of them is noticed, and
\* counts and items agree, for every opcode and every kind of constant.  Every
\* module is cut before its last byte, those of CutAnywhere before any of them.
EncodingRoundTrips ==
  status = "loaded" /\ module.header =>
  LET bytes == EncodeModule(module)
      least == IF module \in CutAnywhere THEN 0 ELSE Len(bytes) - 1
  IN  /\ DecodeModule(bytes) = Got(module, Len(bytes))
      /\ \A n \in least .. Len(bytes) - 1 : ~DecodeModule(SubSeq(bytes, 1, n)).ok
      /\ ~DecodeModule(Append(bytes, 0)).ok
=============================================================================
