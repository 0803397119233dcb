------------------------------- MODULE MCRk817 -------------------------------
(* A battery of 1000 mAh and a few readings for every branch of the gauge.  *)
EXTENDS Rk817

SomePdata ==
  [design_capacity |-> 1000, design_qmax |-> 1100, design_max_voltage |-> 4150,
   sample_res |-> 20, bat_res |-> 135, pwroff_vol |-> 3400, zero_algorithm_vol |-> 3850,
   zero_reserve_dsoc |-> 10000, energy_mode |-> FALSE, max_soc_offset |-> 60,
   monitor_sec |-> 31, low_pwr_sleep |-> FALSE]

SomeTable == <<3400, 3600, 3700, 3850, 4000, 4200>>

\* Steps are in units of the converter: 418604 are 1 % of 1000 mAh.
R(v, c, s, st, rx) == [voltage |-> v, current |-> c, step |-> s, sts |-> st, relax |-> rx]
SomeReadings ==
  { R(3900, -200, -300000, "CHRG_OFF", 0),         \* light load
    R(3700, -900, -1300000, "CHRG_OFF", 3750),     \* heavy load, then at rest
    R(3375, -300, -400000, "CHRG_OFF", 3500),      \* nearly empty
    R(3900, 900, 1300000, "CC_OR_CV_CHRG", 0),     \* charging
    R(4180, 90, 50000, "CHARGE_FINISH", 0),        \* charged
    R(3300, -700, -400000, "CC_OR_CV_CHRG", 0) }   \* a charger too weak for the load

\* Switched on for the first time, half full, full but displayed as less, nearly empty.
S(q, soc, cap, con) ==
  [q |-> q, q_max |-> 46046000, soc_reg |-> soc, cap_reg |-> cap, fcc_reg |-> 1000,
   fg_init |-> FALSE, bat_con |-> con]
SomeStates ==
  { S(0, 0, 0, TRUE), S(20930000, 60000, 500, FALSE),
    S(41860000, 97000, 1000, FALSE), S(1200000, 2500, 28, FALSE) }
==============================================================================
