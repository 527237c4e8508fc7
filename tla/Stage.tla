-------------------------------- MODULE Stage --------------------------------
(* The stages of one `generate-hashes` are modelled apart, each by a       *)
(* variable of its own. A stage that is not the one under study is Idle.   *)
CONSTANT Idle
==============================================================================
