---------------------------- MODULE MCCovariance ----------------------------
(* Three variables of two elements with different variances, a Jacobian    *)
(* whose transpose is another one, and pruning off, on and eager.          *)
EXTENDS CovarianceStore

Shear == <<<<1, 1>>, <<0, 1>>>>
Minus == <<<<-1, 0>>, <<0, -1>>>>

MCIds == 1..3
MCVariances == {<<1, 2>>}
MCJacobians == {<<Shear>>, <<Minus, Shear>>}
Config(enabled, maxAge, weak) == [enabled |-> enabled, maxAge |-> maxAge, weak |-> weak]
MCConfigs == {Config(FALSE, 100, 0), Config(TRUE, 1, 2)}
=============================================================================
