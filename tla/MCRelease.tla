------------------------------ MODULE MCRelease ------------------------------
(***************************************************************************)
(* Instance of LiveEvidence for TLC: the fixed list of thirteen gates in   *)
(* groups of one or two, those whose evidence bears on each other.         *)
(***************************************************************************)
EXTENDS LiveEvidence

MCPolicies ==
    { {"local_source_tests", "rag_50000"},
      {"gate0_windows_host"},
      {"scheduler_recovery"},
      {"packaged_blackbox", "production_update_feed"},
      {"incompatible_su2_host", "live_auth_exact_models"},
      {"live_embeddings_shadow"},
      {"live_quality_12", "live_end_to_end"},
      {"live_quality_12", "clean_vm_installer"} }

MCDefects == {"none", "solver"}
=============================================================================
