----------------------------- MODULE MCConnPool -----------------------------
(* Instances of ConnPool for TLC.                                          *)
EXTENDS ConnPool, TLC

\* Two parameters: a port and a user.  The two profiles differ in both.
EnvParams == <<0, 0>>
TwoProfiles == {<<0, 0>>, <<1, 1>>}

ConnSymmetry == Permutations(Conns)
==============================================================================
