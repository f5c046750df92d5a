---------------------------- MODULE MCDeployment ----------------------------
(* Two HSMs of two deployments, with some of the permission strings.        *)
EXTENDS Deployment, TLC

String(r, w, c) == [read |-> r, write |-> w, transfer |-> c]
MCPermissions ==
  {String("R", "W", "C"), String("R", "-", "C"), String("-", "W", "-"), String("-", "-", "C")}
MCOwnerPins == {<<"A", "1">>, <<"a", "a">>}
MCSymmetry == Permutations(Hsms) \cup Permutations(Groups)
=============================================================================
