----------------------------- MODULE MCMmSimCli ----------------------------
(* MmSimCli with inputs that are empty, good, malformed late or refused late. *)
EXTENDS MmSimCli, TLC

CliInputs ==
  {<<>>, <<"good", "good", "good">>, <<"good", "malformed", "good">>, <<"good", "good", "refused">>}
RunSymmetry == Permutations(Runs)
=============================================================================
