--------------------------------- MODULE Rk817 ---------------------------------
(***************************************************************************)
(* The fuel gauge of 20260302/rk817_battery.c: the charge it displays      *)
(* (dsoc), the charge it measures (rsoc), and what is saved in the PMIC    *)
(* for the next boot.                                                      *)
(*                                                                         *)
(* One record, rk, is struct rk817_battery_device with the PMIC's          *)
(* registers (Registers) that outlive it.  A function of the driver is an  *)
(* operator from the record, and from a reading r of the converters, to    *)
(* the record.  Charges are in 1/1000 %, fcc in mAh, remain_cap in uAh and *)
(* q in units of the converter, as in the code; a time that the code keeps *)
(* as a boot time in seconds is kept as the seconds since then.            *)
(*                                                                         *)
(* The machine may lose its power between two functions and inside one, at *)
(* each moment at which userspace has been told or a register written.     *)
(***************************************************************************)
EXTENDS Integers, Sequences, FiniteSets

CONSTANTS
  Pdata,       \* struct battery_platform_data, what parse_dt leaves there
  OcvTable,    \* pdata->ocv_table, ascending
  Chips,       \* RK809_ID and RK817_ID
  Readings,    \* what the converters and the charger may say at one time
  SavedStates, \* what the registers may hold when the machine is first switched on
  OffMinutes,  \* OFF_CNT, minutes switched off
  SleepSecs,   \* seconds asleep
  MaxSteps     \* bound: actions

\* What can be displayed.
FullSoc == 100 * 1000
Charges == 0..FullSoc

\* What parse_dt lets through and a battery's data sheet says (finish_algorithm divides by
\* 0 for fewer than 42 mAh), numbers from the PMIC, and a charge saved that was displayed.
ASSUME PdataAssumption ==
  /\ Pdata.design_capacity \in Nat /\ Pdata.design_capacity >= 42
  /\ Pdata.design_qmax \in Nat /\ Pdata.design_qmax >= 42
  /\ {Pdata.bat_res, Pdata.pwroff_vol, Pdata.zero_algorithm_vol, Pdata.max_soc_offset} \subseteq Int
  /\ Pdata.monitor_sec \in Nat
ASSUME TableAssumption ==
  /\ OcvTable \in Seq(Int) /\ Len(OcvTable) > 1
  /\ \A i \in 1..(Len(OcvTable) - 1) : OcvTable[i] < OcvTable[i + 1]
ASSUME ReadingsAssumption ==
  \A r \in Readings : {r.voltage, r.current, r.step, r.relax} \subseteq Int
ASSUME SavedAssumption ==
  \A s \in SavedStates : /\ {s.q, s.q_max, s.cap_reg, s.fcc_reg} \subseteq Int
                         /\ s.soc_reg \in Charges
ASSUME TimesAssumption == OffMinutes \subseteq Nat /\ SleepSecs \subseteq Nat /\ MaxSteps \in Nat

VARIABLES
  rk,       \* the driver's record and the PMIC's registers
  power,    \* "off", "run", "asleep", or "resumed" when resume_work is queued
  plugged,  \* a charger is connected
  delay,    \* seconds until the work runs
  last,     \* voltage_avg and current_avg, as they were read last
  shown,    \* history: the charge userspace was last told of
  before,   \* history: the one it was told of before, while power is cut as it is told
  cut,      \* history: where power was lost last (see Moments)
  steps     \* actions so far

rkVars == <<rk, power, plugged, delay, last, shown, before, cut, steps>>

Unset == -1
Abs(a) == IF a < 0 THEN -a ELSE a
AtLeast(a, b) == IF a < b THEN b ELSE a
AtMost(a, b) == IF a < b THEN a ELSE b

\* Division in C truncates.
Quot(a, b) == IF (a < 0) = (b < 0) THEN Abs(a) \div Abs(b) ELSE -(Abs(a) \div Abs(b))
DIV(x) == IF x = 0 THEN 1 ELSE x
Pct(soc) == Quot(soc, 1000)

------------------------------------------------------------------------------
(* Tables, conversions and registers *)

u16(n) == n % 65536

\* d is a u16, and wraps in a short table with wide steps.
interpolate(value) ==
  LET size == Len(OcvTable)
      i == Cardinality({k \in 1..size : OcvTable[k] <= value})
      part == 1000 \div (size - 1)
      d == IF i \in 1..(size - 1)
           THEN u16(u16((value - OcvTable[i]) * part) \div (OcvTable[i + 1] - OcvTable[i])
                    + (i - 1) * part)
           ELSE u16(i * ((1000 + size \div 2) \div size))
  IN  AtMost(d, 1000)

ab_div_c(a, b, c) == AtMost((a * b + c \div 2) \div c, 32767)

vol_to_soc(voltage) == ab_div_c(interpolate(voltage), 100, 1000)
vol_to_cap(b, voltage) == ab_div_c(interpolate(voltage), b.fcc, 1000)

\* The shunt's resistance scales what the coulomb counter counts.
res_div == IF Pdata.sample_res = 20 THEN 2 ELSE 1
CapacityToAdc(mah) == ((mah * res_div * 3600) \div 172) * 1000
AdcToMah(adc) == ((((adc \div 1000) * 172) \div 3600) \div res_div)
AdcToUah(adc) == (((adc \div 3600) * 172) \div res_div)

\* A negative counter has CAP_INVALID set and reads as nothing.
capacity_uah(b) == IF b.q < 0 THEN 0 ELSE AdcToUah(b.q)
capacity_mah(b) == IF b.q < 0 THEN 0 ELSE AdcToMah(b.q)
get_rsoc(b) == (capacity_uah(b) * 100) \div DIV(b.fcc)
get_qmax(b) == AdcToMah(b.q_max)

init_coulomb_cap(b, capacity) ==
  [b EXCEPT !.q = CapacityToAdc(capacity),
            !.rsoc = (capacity * 100000) \div b.fcc,
            !.remain_cap = capacity * 1000]

save_dsoc(b) == [b EXCEPT !.soc_reg = b.dsoc]

\* old_cap is 0 at first: a capacity of 0 is not written over an older one.
save_cap(b) ==
  LET capacity == AtLeast(AtMost(b.remain_cap \div 1000, b.qmax), 0)
  IN  IF capacity = b.old_cap THEN b
      ELSE [b EXCEPT !.cap_reg = capacity, !.old_cap = capacity]

save_data(b) == save_cap(save_dsoc(b))

get_fcc(b) ==
  LET fcc == IF b.fcc_reg < 500 THEN Pdata.design_capacity
             ELSE AtMost(b.fcc_reg, Pdata.design_qmax)
  IN  [b EXCEPT !.fcc = fcc, !.fcc_reg = fcc]

\* A charge status, which the RK817 reads and the RK809 makes up.
charge_status(b, r) ==
  IF b.chip = "RK809"
  THEN IF /\ r.voltage > Pdata.design_max_voltage
          /\ r.current > 0
          /\ r.current < 500 \/ Pct(b.rsoc) = 100
       THEN "CHARGE_FINISH"
       ELSE IF b.plugin_trigger THEN "CC_OR_CV_CHRG" ELSE "CHRG_OFF"
  ELSE IF r.sts = "CC_OR_CV_CHRG" /\ b.rsoc = 100 * 1000 THEN "CHARGE_FINISH" ELSE r.sts

finished(b, r) == charge_status(b, r) = "CHARGE_FINISH"

fake_finish_mode(b, r) ==
  b.rsoc = 100 /\ charge_status(b, r) = "CC_OR_CV_CHRG" /\ Abs(r.current) <= 100

------------------------------------------------------------------------------
(* The display in smooth mode: dsoc follows rsoc at 3/4 or 4/3 of its speed *)

calc_sm_linek(b, r) ==
  LET delta == Abs(b.dsoc - b.rsoc)
      slope == IF delta = 0 THEN 1000
               ELSE IF (b.dsoc < b.rsoc) = (r.current > 0)
               THEN (4000 * delta) \div (3 * delta)
               ELSE (3000 * delta) \div (4 * delta)
  IN  [b EXCEPT !.sm_linek = IF r.current > 0 THEN slope ELSE -slope,
                !.sm_remain_cap = b.remain_cap]

smooth_algo_prepare(b, r) == calc_sm_linek([b EXCEPT !.smooth_soc = b.dsoc], r)

\* Mutant: dsoc follows at once.
calc_smooth_dischrg_at_once(b) == [b EXCEPT !.dsoc = AtMost(b.dsoc, b.smooth_soc)]

calc_smooth_dischrg(b) ==
  IF Pct(b.smooth_soc) = Pct(b.dsoc) \/ b.smooth_soc > b.dsoc THEN b
  ELSE [b EXCEPT !.dsoc =
          AtLeast(0, IF b.smooth_soc + 1000 > b.dsoc THEN b.smooth_soc ELSE b.dsoc - 1000)]

calc_smooth_chrg(b) ==
  IF Pct(b.smooth_soc) = Pct(b.dsoc) THEN b ELSE [b EXCEPT !.dsoc = b.smooth_soc]

\* Mutant: the slope is kept when the current turns.
smooth_algorithm_keeps_slope(b, r) ==
  LET ydsoc == Quot(b.sm_linek * (Abs(b.remain_cap - b.sm_remain_cap) \div 10), DIV(b.fcc))
      moved == [b EXCEPT !.sm_remain_cap = b.remain_cap,
                         !.smooth_soc = AtLeast(0, b.smooth_soc + ydsoc)]
  IN  IF ydsoc < 0 THEN calc_smooth_dischrg(moved) ELSE calc_smooth_chrg(moved)

smooth_algorithm(b, r) ==
  LET switched == IF b.sm_linek * r.current <= 0 THEN calc_sm_linek(b, r) ELSE b
      read == [switched EXCEPT !.remain_cap = capacity_uah(b)]
      ydsoc == Quot(read.sm_linek * (Abs(read.remain_cap - read.sm_remain_cap) \div 10),
                    DIV(b.fcc))
      moved == [read EXCEPT !.sm_remain_cap = read.remain_cap,
                            !.smooth_soc = AtLeast(0, read.smooth_soc + ydsoc)]
      done == IF ydsoc < 0 THEN calc_smooth_dischrg(moved) ELSE calc_smooth_chrg(moved)
      behind == Pct(moved.smooth_soc) # Pct(b.dsoc) /\ moved.smooth_soc < b.dsoc
  IN  IF ydsoc = 0 THEN read
      ELSE IF ydsoc > 0 /\ behind THEN moved
      ELSE IF done.s2r THEN calc_sm_linek([done EXCEPT !.s2r = FALSE], r)
      ELSE done

------------------------------------------------------------------------------
(* The display in zero mode: dsoc reaches 0 when the voltage is too low *)

\* The slope for xsoc percent that can still be used.
zero_linek(b, r, xsoc) ==
  LET pct == Pct(b.dsoc)
      far == xsoc - pct
      load == Abs(r.current)
      gap == (IF load > 1400 THEN 3 ELSE IF load > 600 THEN 5 ELSE 10)
             + (IF xsoc <= 30 /\ b.dsoc >= Pdata.zero_reserve_dsoc THEN 5 ELSE 0)
      k == Quot(b.zero_dsoc + xsoc \div 2, DIV(xsoc))
  IN  IF pct <= 1 /\ xsoc > 0 THEN 400
      ELSE IF xsoc < 0 THEN 1000
      ELSE IF Pdata.energy_mode /\ far >= 3 /\ pct <= 10 /\ k < 300 THEN 300
      ELSE IF far >= gap \/ (far >= 5 /\ pct <= 10 /\ xsoc > 15)
      THEN IF xsoc <= 20 /\ pct >= Pdata.zero_reserve_dsoc THEN 1200
           ELSE IF far >= 2 * gap THEN 400
           ELSE IF far >= 3 + gap THEN 600 ELSE 800
      ELSE IF k > 1800 /\ pct > 70 THEN 1800
      ELSE IF k > 1000 /\ k < 1200 THEN 1200
      ELSE IF pct <= 15 /\ b.dsoc > 5 /\ k <= 1200 THEN IF far >= gap THEN 800 ELSE 1200
      ELSE IF k < 1000 /\ pct >= 5
      THEN IF far < gap THEN 1200 ELSE IF load > 500 THEN 900 ELSE 1000
      ELSE IF k < 1000 /\ pct <= 5 THEN IF far <= 3 THEN 1200 ELSE 800
      ELSE k

\* The voltage at rest, and the one the machine must be switched off at.
batocv(r) == r.voltage - Quot(r.current * Pdata.bat_res, 1000)
pwroff_vol(b, r) ==
  Pdata.pwroff_vol + (IF Abs(r.current) < 400 /\ Pct(b.dsoc) > 5 THEN 50 ELSE 0)

\* The percent between the two under this load.
usable_soc(b, r) ==
  vol_to_soc(batocv(r))
  - vol_to_soc(pwroff_vol(b, r) - Quot(r.current * (Pdata.bat_res + 50), 1000))

\* After 15 s with nothing usable a percent goes.
drop_one(b, xsoc) ==
  LET sec == IF xsoc >= 0 THEN Unset ELSE AtLeast(b.zero_drop_sec, 0)
      dsoc == AtLeast(b.dsoc - 1000, 0)
  IN  IF sec >= 15
      THEN [b EXCEPT !.zero_drop_sec = Unset, !.dsoc = dsoc, !.zero_dsoc = dsoc]
      ELSE [b EXCEPT !.zero_drop_sec = sec]

\* After 30 s at an extremely low voltage all of it.
drop_all(b, low) ==
  LET sec == IF low THEN AtLeast(b.shtd_drop_sec, 0) ELSE Unset
  IN  IF sec > 30 THEN [b EXCEPT !.shtd_drop_sec = Unset, !.dsoc = 0]
      ELSE [b EXCEPT !.shtd_drop_sec = sec]

calc_zero_linek(b, r) ==
  LET xsoc == usable_soc(b, r)
      d == [b EXCEPT !.zero_linek = zero_linek(b, r, xsoc),
                     !.zero_remain_cap = b.remain_cap,
                     !.zero_timeout_cnt = 0,
                     !.zero_batocv_to_cap = vol_to_cap(b, batocv(r))]
  IN  drop_all(drop_one(d, xsoc), r.voltage < pwroff_vol(b, r) - 70)

zero_algo_prepare(b, r) ==
  calc_zero_linek(
    IF Pct(b.zero_dsoc) = Pct(b.smooth_soc) THEN b
    ELSE [b EXCEPT !.zero_dsoc = b.smooth_soc], r)

calc_zero_algorithm(b) ==
  IF Pct(b.zero_dsoc) = Pct(b.dsoc) \/ b.zero_dsoc > b.dsoc THEN b
  ELSE [b EXCEPT !.dsoc = AtLeast(b.dsoc - 1000, b.zero_dsoc)]

zero_algorithm(b, r) ==
  LET delta == Quot(Quot(b.zero_linek * (b.zero_remain_cap - b.remain_cap), DIV(b.fcc)), 10)
      due == delta >= 10 \/ b.zero_timeout_cnt + 1 > 100 \/ b.zero_linek = 0
      one == IF due
             THEN calc_zero_linek(
                    calc_zero_algorithm([b EXCEPT !.zero_dsoc = b.zero_dsoc - delta]), r)
             ELSE [b EXCEPT !.zero_timeout_cnt = b.zero_timeout_cnt + 1]
  IN  IF one.rsoc < 1000 /\ one.zero_batocv_to_cap > one.fcc \div 100
      THEN calc_zero_linek(init_coulomb_cap(one, one.zero_batocv_to_cap), r)
      ELSE one

------------------------------------------------------------------------------
(* The display when charging is finished, and the choice of the mode *)

\* Mutant: 100 % is not forced, as before the lines added at 2935.
finish_algorithm_paced(b, r) ==
  LET plus == b.finish_sec \div 24
  IN  [init_coulomb_cap(b, b.fcc) EXCEPT !.dsoc = b.dsoc + plus * 1000,
                                         !.finish_sec = b.finish_sec % 24]

\* A percent for as long as one takes at 1 A, or at 1.5 A.
finish_percents(b) ==
  LET current == IF b.rsoc - b.dsoc > 20 THEN 1500 ELSE 1000
      socSec == ((b.fcc * 3600) \div 100) \div current
  IN  IF b.finish_sec > socSec
      THEN [b EXCEPT !.dsoc = b.dsoc + (b.finish_sec \div DIV(socSec)) * 1000,
                     !.finish_sec = b.finish_sec % socSec]
      ELSE b

finish_algorithm(b, r) ==
  LET full == IF b.remain_cap # b.fcc /\ finished(b, r) THEN init_coulomb_cap(b, b.fcc) ELSE b
      raised == finish_percents(full)
  IN  IF full.dsoc >= 100 * 1000 THEN full
      ELSE IF Pct(raised.rsoc) = 100 /\ raised.dsoc < 100 * 1000
      THEN save_dsoc([raised EXCEPT !.dsoc = 100 * 1000])
      ELSE raised

to_smooth(b, r) == [smooth_algo_prepare(b, r) EXCEPT !.work_mode = "SMOOTH"]
to_zero(b, r) == [zero_algo_prepare(b, r) EXCEPT !.work_mode = "ZERO"]
to_finish(b) == [b EXCEPT !.work_mode = "FINISH", !.finish_sec = 0]

display_smooth(b, r) ==
  LET ends(d) == finished(d, r) \/ fake_finish_mode(d, r)
      empties == r.current < 0 /\ r.voltage < Pdata.zero_algorithm_vol
      f == finish_algorithm(b, r)
      z == zero_algorithm(b, r)
      s == smooth_algorithm(b, r)
  IN  IF b.s2r /\ ~b.sleep_chrg_online
      THEN smooth_algo_prepare(zero_algo_prepare([b EXCEPT !.s2r = FALSE], r), r)
      ELSE IF b.work_mode = "FINISH"
      THEN IF ends(f) THEN f ELSE IF empties THEN to_zero(f, r) ELSE to_smooth(f, r)
      ELSE IF b.work_mode = "ZERO"
      THEN IF r.voltage >= Pdata.zero_algorithm_vol + 50 \/ r.current >= 0
           THEN to_smooth(z, r) ELSE IF ends(z) THEN to_finish(z) ELSE z
      ELSE IF empties THEN to_zero(s, r) ELSE IF ends(s) THEN to_finish(s) ELSE s

------------------------------------------------------------------------------
(* The work that runs every monitor_sec *)

\* Seconds pass for every base time that is set.
Pass(b, sec) ==
  LET on(t) == IF t = Unset THEN Unset ELSE t + sec
  IN  [b EXCEPT !.finish_sec = b.finish_sec + sec, !.low_sec = on(b.low_sec),
                !.zero_drop_sec = on(b.zero_drop_sec), !.shtd_drop_sec = on(b.shtd_drop_sec)]

update_info(b, r) ==
  LET read == [b EXCEPT !.rsoc = get_rsoc(b), !.remain_cap = capacity_uah(b)]
      topped == IF read.remain_cap \div 1000 > b.fcc
                THEN [init_coulomb_cap(read, b.fcc) EXCEPT !.sm_remain_cap = b.fcc * 1000]
                ELSE read
      charging == plugged
  IN  [topped EXCEPT !.finish_sec = IF finished(read, r) THEN b.finish_sec ELSE 0,
                     !.change = b.change \/ charging # b.is_charging,
                     !.is_charging = charging]

lowpwr_check(b, r) ==
  LET time == AtLeast(b.low_sec, 0)
  IN  IF r.current < 0 /\ r.voltage < Pdata.pwroff_vol
      THEN [b EXCEPT !.low_sec = time,
                     !.fake_offline = time > 60 \/ b.fake_offline,
                     !.dsoc = IF time > 60 /\ r.voltage <= Pdata.pwroff_vol - 50
                              THEN b.dsoc - 1000 ELSE b.dsoc]
      ELSE [b EXCEPT !.low_sec = Unset, !.fake_offline = FALSE]

Clamped(soc) == AtMost(AtLeast(soc, 0), 100 * 1000)

\* Mutant: the charge is not clamped.
power_supply_changed_unclamped(b) ==
  IF b.dsoc = b.old_soc /\ ~b.change THEN b ELSE [b EXCEPT !.change = FALSE, !.old_soc = b.dsoc]

\* Userspace is told when the charge is another one than it was last told of.
power_supply_changed(b) ==
  LET d == [b EXCEPT !.dsoc = Clamped(b.dsoc)]
  IN  IF d.dsoc = b.old_soc /\ ~b.change THEN d
      ELSE [d EXCEPT !.change = FALSE, !.old_soc = d.dsoc]

\* What the work displays, before userspace is told.
displayed(b, r) == display_smooth(lowpwr_check(update_info(b, r), r), r)

battery_work(b, r) == save_data(power_supply_changed(displayed(b, r)))

------------------------------------------------------------------------------
(* Probe *)

first_pwron(b, r) ==
  LET soc == vol_to_soc(r.voltage) * 1000
      d == [b EXCEPT !.bat_con = FALSE, !.rsoc = soc, !.dsoc = soc,
                     !.fcc = Pdata.design_capacity, !.fcc_reg = Pdata.design_capacity,
                     !.q_max = CapacityToAdc(Pdata.design_qmax)]
  IN  [d EXCEPT !.nac = vol_to_cap(d, r.voltage)]

\* ocv_soc is in percent where pre_soc is in 1/1000 %, as in the code.
not_first_pwron(b, r, off) ==
  LET d == get_fcc(b)
      nowCap == capacity_mah(d)
      ocvSoc == vol_to_soc(r.voltage)
      ocvCap == vol_to_cap(d, r.voltage)
      away(offset) == Abs(ocvSoc - d.soc_reg) >= offset
      e == [d EXCEPT !.remain_cap = d.cap_reg * 1000,
                     !.is_halt = Abs(nowCap - d.cap_reg) > d.fcc \div 10,
                     !.is_initialized = d.fg_init,
                     !.is_ocv_calib = ~d.fg_init /\ off >= 30,
                     !.fg_init = FALSE]
      keep == [e EXCEPT !.dsoc = d.soc_reg, !.nac = d.cap_reg]
      halted == init_coulomb_cap(e, nowCap)
  IN  IF e.is_halt THEN [halted EXCEPT !.dsoc = halted.rsoc, !.nac = nowCap]
      ELSE IF e.is_initialized THEN keep
      ELSE IF e.is_ocv_calib
      THEN [keep EXCEPT !.nac = ocvCap,
                        !.dsoc = IF away(Pdata.max_soc_offset) THEN ocvSoc ELSE d.soc_reg]
      ELSE IF off > 0 /\ away(80) THEN [keep EXCEPT !.nac = ocvCap, !.dsoc = ocvSoc,
                                                    !.is_force_calib = TRUE]
      ELSE keep

pwron(b, r, off) == IF b.bat_con THEN first_pwron(b, r) ELSE not_first_pwron(b, r, off)

\* Mutant: 100 % without a look at rsoc.
rsoc_init_always_full(b, r, off) ==
  LET d == pwron(b, r, off)
  IN  save_dsoc(IF d.is_initialized THEN [d EXCEPT !.dsoc = 100 * 1000] ELSE d)

\* The lines added at 1761.
filled(d) ==
  IF /\ d.is_initialized \/ d.is_ocv_calib
     /\ Pct(d.rsoc) = 100
     /\ d.dsoc < 100 * 1000
  THEN save_dsoc([d EXCEPT !.dsoc = 100 * 1000])
  ELSE d

rsoc_init(b, r, off) == filled(save_dsoc(pwron(b, r, off)))

init_dsoc_algorithm(b, r) ==
  LET d == [b EXCEPT !.dsoc = Clamped(b.dsoc)]
  IN  IF finished(d, r) THEN to_finish(d) ELSE to_smooth(d, r)

init_fg(b, r, off) ==
  LET d == rsoc_init(b, r, off)
      e == init_dsoc_algorithm(init_coulomb_cap(d, d.nac), r)
  IN  [e EXCEPT !.qmax = get_qmax(e)]

\* debug_info saves dsoc again, after it was clamped.
probe(b, r, off) == update_info(save_dsoc(init_fg(b, r, off)), r)

\* What the PMIC keeps when the machine is off; the rest of the record is zeroed.
Registers == {"chip", "q", "q_max", "soc_reg", "cap_reg", "fcc_reg", "fg_init", "bat_con"}

zeroed ==
  [dsoc |-> 0, rsoc |-> 0, remain_cap |-> 0, nac |-> 0, fcc |-> 0,
   qmax |-> Pdata.design_qmax, smooth_soc |-> 0, sm_linek |-> 0, sm_remain_cap |-> 0,
   zero_dsoc |-> 0, zero_linek |-> 0, zero_remain_cap |-> 0, zero_timeout_cnt |-> 0,
   zero_batocv_to_cap |-> 0, zero_drop_sec |-> Unset, shtd_drop_sec |-> Unset,
   low_sec |-> Unset, finish_sec |-> 0, fake_offline |-> FALSE, work_mode |-> "ZERO",
   s2r |-> FALSE, sleep_chrg_online |-> FALSE, sleep_dischrg_sec |-> 0, asleep_sec |-> 0,
   plugin_trigger |-> FALSE, is_charging |-> FALSE, change |-> FALSE,
   is_halt |-> FALSE, is_initialized |-> FALSE, is_ocv_calib |-> FALSE, is_force_calib |-> FALSE,
   old_soc |-> Unset, old_cap |-> 0]

Fresh(b) == [f \in Registers \cup DOMAIN zeroed |-> IF f \in Registers THEN b[f] ELSE zeroed[f]]

------------------------------------------------------------------------------
(* Sleep *)

\* The status of an RK809 is made up from what was measured before the suspend, l.
suspend(b, r, l) ==
  LET status == charge_status(b, [r EXCEPT !.voltage = l.voltage, !.current = l.current])
      online == r.current > 0 \/ status \in {"CC_OR_CV_CHRG", "CHARGE_FINISH"}
      d == save_data([b EXCEPT !.s2r = FALSE, !.sleep_chrg_online = online,
                               !.remain_cap = capacity_uah(b), !.rsoc = get_rsoc(b),
                               !.asleep_sec = 0])
      e == [d EXCEPT !.finish_sec = IF status = "CHARGE_FINISH" THEN d.finish_sec ELSE 0]
  IN  IF b.work_mode # "ZERO" \/ r.current < 0 THEN e
      ELSE IF status = "CHARGE_FINISH" THEN to_finish(e)
      ELSE to_smooth(e, r)

relax_vol_calib(b, r) ==
  LET cap == vol_to_cap(b, r.relax)
  IN  IF cap = b.remain_cap THEN b
      ELSE zero_algo_prepare(smooth_algo_prepare(init_coulomb_cap(b, cap), r), r)

\* Percents lost in the time asleep at the current the code takes for granted.
sleep_soc(b) ==
  LET below == b.dsoc <= b.rsoc
      current == IF below THEN IF Pdata.low_pwr_sleep THEN 1 ELSE 6
                          ELSE IF Pdata.low_pwr_sleep THEN 20 ELSE 40
      cap == (current * b.sleep_dischrg_sec) \div 3600
  IN  IF below THEN (cap * 100) \div DIV(b.fcc) ELSE cap \div DIV(b.fcc \div 100)

\* Mutant: 5 % is reserved whatever is displayed.
slept_dsoc_reserves(b, lost) == AtLeast(b.dsoc - lost * 1000, 5 * 1000)

\* dsoc after a sleep that took lost percents.
slept_dsoc(b, lost) ==
  LET tgt == b.dsoc - lost * 1000
      gap == b.dsoc - b.rsoc
  IN  IF b.dsoc <= b.rsoc
      THEN IF lost = 0 THEN b.dsoc
           ELSE IF Pct(b.dsoc) < 5 THEN b.dsoc - 1000
           ELSE IF Pct(tgt) < 5 THEN IF Pct(b.dsoc) = 5 THEN b.dsoc - 1000 ELSE 5 * 1000
           ELSE IF Pct(tgt) > 5 THEN tgt
           ELSE b.dsoc
      ELSE IF Pct(gap) <= lost THEN b.rsoc
      ELSE IF gap - 5000 > lost * 2000 THEN b.dsoc - lost * 2000
      ELSE tgt

sleep_dischrg(b, r) ==
  LET relaxed == r.relax >= r.voltage
      d == IF relaxed THEN relax_vol_calib(b, r) ELSE b
      lost == sleep_soc(d)
      soc == IF r.voltage <= Pdata.pwroff_vol - 70 THEN 0 ELSE slept_dsoc(d, lost)
      reserved == IF relaxed /\ lost # 0 /\ d.rsoc - soc < 5000 /\ soc < 40 * 1000
                  THEN soc - 1000 ELSE soc
  IN  [d EXCEPT !.dsoc = AtLeast(reserved, 0),
                !.sleep_dischrg_sec = IF lost = 0 THEN d.sleep_dischrg_sec ELSE 0]

\* What resume_work displays, and then saves.
slept(b, r) ==
  LET d == [b EXCEPT !.s2r = TRUE, !.remain_cap = capacity_uah(b), !.rsoc = get_rsoc(b),
                     !.sleep_dischrg_sec = IF b.sleep_chrg_online THEN b.sleep_dischrg_sec
                                           ELSE b.sleep_dischrg_sec + b.asleep_sec]
      step == IF r.voltage <= Pdata.pwroff_vol + 50 THEN 10 * 60 ELSE 60 * 60
  IN  IF ~b.sleep_chrg_online /\ d.sleep_dischrg_sec > step THEN sleep_dischrg(d, r) ELSE d

\* Mutant: what sleep took is not saved.
resume_work_unsaved(b, r) == slept(b, r)

resume_work(b, r) == save_data(slept(b, r))

------------------------------------------------------------------------------
(* What userspace reads *)

get_capacity(b) == Quot(b.dsoc + 500, 1000)

get_status(b) ==
  IF b.dsoc = 100 * 1000 THEN "FULL"
  ELSE IF IF b.chip = "RK809" THEN b.plugin_trigger ELSE plugged
  THEN "CHARGING" ELSE "DISCHARGING"

------------------------------------------------------------------------------
(* The machine *)

\* The counter goes on counting whatever the driver does.
Counted(b, r) == [b EXCEPT !.q = b.q + r.step]

\* A reading that can be taken now: the charger decides whether current flows in.
Now(r) == /\ (r.sts # "CHRG_OFF") = plugged
          /\ r.current > 0 => plugged

Stepping == steps < MaxSteps /\ steps' = steps + 1

Avg(r) == [voltage |-> r.voltage, current |-> r.current]

\* Without power only the registers are left; dsoc is kept as what was displayed last.
Lost(b) == [Fresh(b) EXCEPT !.dsoc = b.dsoc]

RkInit ==
  /\ \E chip \in Chips, s \in SavedStates :
       /\ rk = [Fresh([f \in Registers |-> IF f = "chip" THEN chip ELSE s[f]])
                  EXCEPT !.dsoc = s.soc_reg]
       /\ shown = s.soc_reg /\ before = s.soc_reg
  /\ power = "off"
  /\ plugged \in BOOLEAN
  /\ delay = 0
  /\ last = [voltage |-> 0, current |-> 0]
  /\ cut = "no"
  /\ steps = 0

\* What userspace is told, with nothing left to save.
Tell(soc) == shown' = soc /\ before' = soc

\* The driver is probed, after any time switched off and with or without U-Boot
\* having initialised the gauge.  Registering the power supply tells userspace; for
\* the RK809 the state of the plug is read.
Boot ==
  /\ Stepping
  /\ power = "off"
  /\ \E r \in Readings, off \in OffMinutes, uboot \in BOOLEAN :
       /\ Now(r)
       /\ LET b == Fresh(rk)
              d == probe([b EXCEPT !.fg_init = uboot], r, off)
          IN  rk' = [d EXCEPT !.plugin_trigger = d.chip = "RK809" /\ plugged]
       /\ last' = Avg(r)
  /\ Tell(rk'.dsoc)
  /\ cut' = "no"
  /\ power' = "run"
  /\ delay' = 5
  /\ UNCHANGED plugged

\* battery_work runs, and finds r.
WorkFinds(r) ==
  /\ power = "run"
  /\ Now(r)
  /\ rk' = battery_work(Counted(Pass(rk, delay), r), r)

Work ==
  /\ Stepping
  /\ \E r \in Readings : WorkFinds(r) /\ last' = Avg(r)
  /\ Tell(rk'.old_soc)
  /\ delay' = Pdata.monitor_sec
  /\ UNCHANGED <<power, plugged, cut>>

\* The charger is plugged in or out; on an RK809 the interrupts set plugin_trigger
\* and tell userspace, which reads the charge.
Plug ==
  /\ Stepping
  /\ plugged' = ~plugged
  /\ rk' = [rk EXCEPT !.plugin_trigger =
              power # "off" /\ rk.chip = "RK809" /\ plugged']
  /\ IF power # "off" /\ rk.chip = "RK809" THEN Tell(rk.dsoc) ELSE UNCHANGED <<shown, before>>
  /\ UNCHANGED <<power, delay, last, cut>>

\* Suspend may come before resume_work has run: it is on a freezable queue.
Suspend ==
  /\ Stepping
  /\ power \in {"run", "resumed"}
  /\ \E r \in Readings : /\ Now(r)
                         /\ rk' = suspend(rk, r, last)
                         /\ last' = [last EXCEPT !.current = r.current]
  /\ power' = "asleep"
  /\ UNCHANGED <<plugged, delay, shown, before, cut>>

Wake ==
  /\ Stepping
  /\ power = "asleep"
  /\ \E r \in Readings, sec \in SleepSecs :
       /\ Now(r)
       /\ rk' = [Pass(Counted(rk, r), sec) EXCEPT !.asleep_sec = rk.asleep_sec + sec]
  /\ power' = "resumed"
  /\ UNCHANGED <<plugged, delay, last, shown, before, cut>>

ResumeWork ==
  /\ Stepping
  /\ power = "resumed"
  /\ \E r \in Readings : Now(r) /\ rk' = resume_work(rk, r) /\ last' = Avg(r)
  /\ power' = "run"
  /\ delay' = 1
  /\ UNCHANGED <<plugged, shown, before, cut>>

\* Switched off, orderly or not, between two functions: shutdown does nothing.  The
\* counter may count on.
PowerOff ==
  /\ Stepping
  /\ power # "off"
  /\ \E r \in Readings : Now(r) /\ rk' = Lost(Counted(rk, r))
  /\ power' = "off"
  /\ UNCHANGED <<plugged, delay, last, shown, before, cut>>

------------------------------------------------------------------------------
(* The loss of power inside a function *)

\* The three registers while save_dsoc writes them, low byte first; what was saved
\* last is not written again.
Torn(old, new) ==
  IF old = new THEN {} ELSE {(new % w) + ((old \div w) * w) : w \in {256, 65536}}

\* And those of save_cap, high byte first.
TornCap(old, new) == {((new \div w) * w) + (old % w) : w \in {256, 65536}}

\* A moment in a function: the record, with soc in the charge's registers, and what
\* userspace was told.  When power is lost then, it is lost ("no") where what was
\* displayed last is saved, ("told") between telling userspace and the first write, or
\* ("writing") after the first write of a charge until it is written and told.
Moment(b, soc, told, where) ==
  [rk |-> [b EXCEPT !.soc_reg = soc], shown |-> told, cut |-> where]

\* The moments of save_data, where the registers hold old.
Saving(old, b, told) ==
  {Moment(b, soc, told, "writing") : soc \in Torn(old, b.dsoc)}
  \cup {Moment([b EXCEPT !.cap_reg = cap], b.dsoc, told, "no") :
          cap \in {b.cap_reg} \cup TornCap(b.cap_reg, save_data(b).cap_reg)}

\* The work, which makes d of b, may save 100 % (2940) before it tells, and something
\* else after.
WorkMoments(b, d) ==
  LET t == power_supply_changed(d)
      full == d.soc_reg # b.soc_reg
  IN  {Moment([b EXCEPT !.q = d.q], b.soc_reg, shown, "no")}
      \cup {Moment(d, soc, shown, "writing") :
              soc \in IF full THEN Torn(b.soc_reg, d.soc_reg) \cup {d.soc_reg} ELSE {}}
      \cup {Moment(t, d.soc_reg, t.old_soc, IF full THEN "writing" ELSE "told")}
      \cup Saving(d.soc_reg, t, t.old_soc)

ResumeMoments(b, d) ==
  {Moment([b EXCEPT !.q = d.q], b.soc_reg, shown, "no")} \cup Saving(b.soc_reg, d, shown)

SuspendMoments(b) == Saving(b.soc_reg, [b EXCEPT !.remain_cap = capacity_uah(b)], shown)

\* Probe saves d (1759), e (1768) and f (2369) before userspace is told; nothing is
\* changed while the registers hold what they held before.
BootMoments(b, d, e, f) ==
  LET Passes(old, new) == {old, new} \cup Torn(old, new)
      At(c, soc) == Moment([c EXCEPT !.dsoc = rk.dsoc], soc, shown,
                           IF soc = b.soc_reg THEN cut ELSE "writing")
  IN  {At(d, soc) : soc \in Passes(b.soc_reg, d.dsoc) \cup Passes(d.dsoc, e.dsoc)}
      \cup {At(f, soc) : soc \in Passes(e.dsoc, f.dsoc)}

\* Bound: a loss of power leaves a step for the boot that follows.
CutAt(moments) ==
  /\ steps' < MaxSteps
  /\ \E m \in moments : rk' = Lost(m.rk) /\ shown' = m.shown /\ cut' = m.cut
  /\ power' = "off"
  /\ UNCHANGED <<plugged, delay, last>>

BootCut ==
  /\ Stepping
  /\ power = "off"
  /\ \E r \in Readings, off \in OffMinutes, uboot \in BOOLEAN :
       LET b == [Fresh(rk) EXCEPT !.fg_init = uboot]
       IN  /\ Now(r)
           /\ CutAt(BootMoments(b, pwron(b, r, off), rsoc_init(b, r, off), probe(b, r, off)))
  /\ UNCHANGED before

WorkCut ==
  /\ Stepping
  /\ power = "run"
  /\ \E r \in Readings :
       LET b == Counted(Pass(rk, delay), r)
       IN  Now(r) /\ CutAt(WorkMoments(b, displayed(b, r)))
  /\ before' = shown

SuspendCut ==
  /\ Stepping
  /\ power \in {"run", "resumed"}
  /\ CutAt(SuspendMoments(rk))
  /\ before' = shown

ResumeWorkCut ==
  /\ Stepping
  /\ power = "resumed"
  /\ \E r \in Readings : Now(r) /\ CutAt(ResumeMoments(rk, slept(rk, r)))
  /\ before' = shown

PowerCut == BootCut \/ WorkCut \/ SuspendCut \/ ResumeWorkCut

RkNext == Boot \/ Work \/ Plug \/ Suspend \/ Wake \/ ResumeWork \/ PowerOff \/ PowerCut

RkSpec == RkInit /\ [][RkNext]_rkVars

------------------------------------------------------------------------------
(* Properties *)

\* Between the functions the charge is one that can be displayed.
RkTypeOK ==
  /\ power \in {"off", "run", "asleep", "resumed"}
  /\ plugged \in BOOLEAN
  /\ shown \in Charges /\ before \in Charges
  /\ cut \in {"no", "told", "writing"}
  /\ delay \in {0, 1, 5, Pdata.monitor_sec}
  /\ last \in [voltage : Int, current : Int]
  /\ steps \in 0..MaxSteps
  /\ rk.work_mode \in {"FINISH", "ZERO", "SMOOTH"}
  /\ power # "off" => rk.dsoc \in Charges /\ get_capacity(rk) \in 0..100

\* What is saved for the next boot is what is displayed, whichever function changed it
\* last, and stays so when power is lost between two functions, or inside one before it
\* tells userspace or writes the first of the registers, or after it wrote the last.
SavedIsDisplayed == power # "off" \/ cut = "no" => rk.soc_reg = rk.dsoc

\* What the next boot may display: no more than userspace was last told; when power was
\* lost after battery_work told it (3065) and before it began to save (3067), no more
\* than it had been told before; and anything when power was lost within a save.
Ceiling == IF cut = "no" THEN shown ELSE IF cut = "told" THEN before ELSE FullSoc

\* After a reboot nothing is displayed above the ceiling, unless the battery is new, or
\* the gauge finds that it was halted or calibrates with a voltage at rest: to be full is
\* no exception, as rsoc is not measured yet when the lines added at 1761 look at it.
RebootNeverRaises ==
  [][/\ rk'.dsoc > Ceiling
     /\ ~rk.bat_con
     /\ ~rk'.is_halt /\ ~rk'.is_ocv_calib /\ ~rk'.is_force_calib
     => ~Boot]_rkVars

\* While current flows out, the display does not rise, over every change of mode,
\* unless charging had just been finished and the counter is still full.
NoRiseOnDischarge ==
  [][rk'.dsoc > rk.dsoc /\ rk.work_mode # "FINISH"
     => \A r \in Readings : WorkFinds(r) => r.current >= 0]_rkVars

\* Unless the voltage is extremely low, which is 20 mV below pwroff_vol already for a
\* light load, one run of the work takes no more than 2 %: one by the algorithm of the
\* mode and one because nothing usable is left.
FallsSlowly ==
  [][rk'.dsoc < rk.dsoc - 2000
     => \A r \in Readings : WorkFinds(r) => r.voltage < Pdata.pwroff_vol - 20]_rkVars

\* Nothing gains charge asleep.
SleepNeverRaises == [][rk'.dsoc > rk.dsoc => ~ResumeWork]_rkVars

\* A run of the work that finds charging finished, and leaves it so, displays 100 %
\* whatever was displayed before, unless it only restarts the algorithms after a sleep.
\* Two slips of units make exceptions: charging may be taken for finished at 0.1 % (1463
\* compares rsoc, in 1/1000 %, with 100), and the counter is not set when remain_cap, in
\* uAh, is the number that fcc is in mAh (2901).
FullIsShown ==
  [][/\ rk.work_mode = "FINISH" /\ rk'.work_mode = "FINISH"
     /\ rk'.dsoc # FullSoc
     /\ rk'.rsoc # 100
     /\ rk'.remain_cap # rk'.fcc
     /\ \E r \in Readings : WorkFinds(r)
     => rk.s2r /\ ~rk.sleep_chrg_online]_rkVars
===============================================================================
