-------------------------- MODULE MCRendererBridge --------------------------
(***************************************************************************)
(* Two PageSession objects on two sequences, four addresses, and one       *)
(* source for each way a request can end.                                  *)
(***************************************************************************)
EXTENDS RendererBridge, TLC

MCSources == {"plain", "throws", "malformed", "crashes"}

MCPreparation ==
  ("plain" :> "ok") @@ ("throws" :> "ok")
    @@ ("malformed" :> "compile_error") @@ ("crashes" :> "panic")

MCExecution ==
  ("plain" :> "ok") @@ ("throws" :> "runtime_error")
    @@ ("malformed" :> "ok") @@ ("crashes" :> "ok")

\* Neither an address nor an object is distinguished from another.
Symmetry == Permutations(Addresses) \union Permutations(Objects)
=============================================================================
