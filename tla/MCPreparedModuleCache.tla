----------------------- MODULE MCPreparedModuleCache -----------------------
(* Three sources that prepare and one for each way preparation fails.      *)
EXTENDS PreparedModuleCache, TLC

CONSTANTS a, b, c, mistyped, unverifiable, panicking

MCSources == {a, b, c, mistyped, unverifiable, panicking}

MCPreparation ==
  (a :> "ok") @@ (b :> "ok") @@ (c :> "ok") @@ (mistyped :> "compile_error")
    @@ (unverifiable :> "verify_error") @@ (panicking :> "panic")
=============================================================================
