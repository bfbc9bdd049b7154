----------------------------- MODULE MCUncertain -----------------------------
(* Two measurements of each kind that the operations tell apart, one of    *)
(* them negative, and a constant.                                          *)
EXTENDS Uncertainty

M(model, shape, mean, var, third) == [model |-> model, shape |-> shape, mean |-> Whole(mean), var |-> Whole(var), third |-> Whole(third)]
MCMeasurables ==
  {M("gaussian", None, -2, 1, 0), M("gaussian", None, 3, 0, 0),
   M("unscented", None, -2, 1, 0), M("monte_carlo", "few", 2, 1, 0), M("monte_carlo", "many", 2, 1, 0),
   M("moments", "dimidiated", 2, 1, 1)}
MCModes == {"correlated", "uncorrelated"}
MCNamed == {3}
=============================================================================
