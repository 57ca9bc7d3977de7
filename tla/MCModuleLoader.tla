--------------------------- MODULE MCModuleLoader ---------------------------
(* A small instance of ModuleLoader for TLC: two shards, the diagnostics    *)
(* module, the trivia module and one that is not loaded at start-up.        *)
EXTENDS ModuleLoader

CONSTANTS shard1, shard2

MCFiles == {"diagnostics", "trivia", "presence"}
MCStartup == <<"diagnostics", "trivia">>
MCAttaches == [f \in MCFiles |->
    CASE f = "diagnostics" -> {"message"}
      [] f = "trivia" -> {"message", "other", "all_ready"}
      [] f = "presence" -> {"other"}]
=============================================================================
