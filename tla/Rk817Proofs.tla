------------------------------ MODULE Rk817Proofs ------------------------------
(***************************************************************************)
(* What Rk817 displays and saves, for any battery, table, readings and     *)
(* times.                                                                  *)
(*                                                                         *)
(* SavedIsDisplayed first: no function loses a field of the record, the    *)
(* last that a step does to soc_reg and dsoc is to copy one to the other   *)
(* (SaveData), and what it does after that leaves both alone (Kept); where *)
(* power is lost inside a step, the registers are not written yet, or to   *)
(* the end, unless the moment says otherwise (Sound).                      *)
(*                                                                         *)
(* Then what may happen to the charge displayed.  Each function keeps a    *)
(* gauge's record (Gauge) and says how far dsoc can move: by a percent in  *)
(* the smooth algorithm (GaugeSmooth), by two in the zero algorithm        *)
(* (GaugeZero), up only in the finish algorithm (GaugeFinish), and by two  *)
(* in one run of the work whatever modes it goes through (GaugeWork).      *)
(* Probe goes on with the saved charge unless it calibrates (GaugeProbe),  *)
(* and sleep only takes (GaugeResume).  MachineInv adds that userspace     *)
(* was told of no less than what is displayed, and, for a machine that is  *)
(* off, that no more than the ceiling is saved (UnderCeiling).             *)
(***************************************************************************)
EXTENDS Rk817, FiniteSetTheorems, TLAPS

\* d has the fields of b.
Fields(b, d) == DOMAIN d = DOMAIN b

\* d has the fields of b, and the charge displayed and saved.
Kept(b, d) == /\ DOMAIN d = DOMAIN b
              /\ d.dsoc = b.dsoc
              /\ d.soc_reg = b.soc_reg

HasCharge(b) == {"dsoc", "soc_reg"} \subseteq DOMAIN b

------------------------------------------------------------------------------
(* The functions and the record's fields *)

LEMMA InitCoulombCap == ASSUME NEW b, NEW c PROVE Kept(b, init_coulomb_cap(b, c))
  BY DEF init_coulomb_cap, Kept

LEMMA SaveDsoc == ASSUME NEW b PROVE Fields(b, save_dsoc(b))
  BY DEF save_dsoc, Fields

LEMMA CalcSmLinek == ASSUME NEW b, NEW r PROVE Kept(b, calc_sm_linek(b, r))
  BY DEF calc_sm_linek, Kept

LEMMA SmoothAlgoPrepare == ASSUME NEW b, NEW r PROVE Kept(b, smooth_algo_prepare(b, r))
<1>1. Kept(b, [b EXCEPT !.smooth_soc = b.dsoc])
  BY DEF Kept
<1>2. QED
  BY <1>1, CalcSmLinek DEF smooth_algo_prepare, Kept

LEMMA CalcSmooth ==
  ASSUME NEW b PROVE Fields(b, calc_smooth_dischrg(b)) /\ Fields(b, calc_smooth_chrg(b))
  BY DEF calc_smooth_dischrg, calc_smooth_chrg, Fields

LEMMA SmoothAlgorithm == ASSUME NEW b, NEW r PROVE Fields(b, smooth_algorithm(b, r))
<1> DEFINE switched == IF b.sm_linek * r.current <= 0 THEN calc_sm_linek(b, r) ELSE b
           read == [switched EXCEPT !.remain_cap = capacity_uah(b)]
           ydsoc == Quot(read.sm_linek * (Abs(read.remain_cap - read.sm_remain_cap) \div 10),
                         DIV(b.fcc))
           moved == [read EXCEPT !.sm_remain_cap = read.remain_cap,
                                 !.smooth_soc = AtLeast(0, read.smooth_soc + ydsoc)]
           done == IF ydsoc < 0 THEN calc_smooth_dischrg(moved) ELSE calc_smooth_chrg(moved)
           turned == [done EXCEPT !.s2r = FALSE]
<1>1. Fields(b, switched)
  BY CalcSmLinek DEF Kept, Fields
<1>2. Fields(b, read)
  BY <1>1 DEF Fields
<1>3. Fields(b, moved)
  <2> HIDE DEF read, ydsoc
  <2>1. QED
    BY <1>2 DEF Fields
<1>4. Fields(b, done)
  <2> HIDE DEF moved, ydsoc
  <2>1. QED
    BY <1>3, CalcSmooth DEF Fields
<1>5. Fields(b, calc_sm_linek(turned, r))
  <2> HIDE DEF done
  <2>1. Fields(b, turned)
    BY <1>4 DEF Fields
  <2> HIDE DEF turned
  <2>2. QED
    BY <2>1, CalcSmLinek DEF Fields, Kept
<1>6. smooth_algorithm(b, r) \in {read, moved, calc_sm_linek(turned, r), done}
  BY Zenon DEF smooth_algorithm
<1>7. QED
  <2> HIDE DEF read, moved, done, turned
  <2>1. QED
    BY <1>2, <1>3, <1>4, <1>5, <1>6

LEMMA CalcZeroLinek == ASSUME NEW b, NEW r PROVE Fields(b, calc_zero_linek(b, r))
<1>1. ASSUME NEW c, NEW x PROVE Fields(c, drop_one(c, x)) /\ Fields(c, drop_all(c, x))
  BY DEF drop_one, drop_all, Fields
<1> DEFINE d == [b EXCEPT !.zero_linek = zero_linek(b, r, usable_soc(b, r)),
                          !.zero_remain_cap = b.remain_cap,
                          !.zero_timeout_cnt = 0,
                          !.zero_batocv_to_cap = vol_to_cap(b, batocv(r))]
           one == drop_one(d, usable_soc(b, r))
<1>2. Fields(b, d)
  BY DEF Fields
<1>3. Fields(b, one)
  <2> HIDE DEF d
  <2>1. QED
    BY <1>1, <1>2 DEF Fields
<1>4. calc_zero_linek(b, r) = drop_all(one, r.voltage < pwroff_vol(b, r) - 70)
  BY Zenon DEF calc_zero_linek
<1>5. QED
  <2> HIDE DEF one
  <2>1. QED
    BY <1>1, <1>3, <1>4 DEF Fields

LEMMA ZeroAlgoPrepare == ASSUME NEW b, NEW r PROVE Fields(b, zero_algo_prepare(b, r))
<1>1. Fields(b, [b EXCEPT !.zero_dsoc = b.smooth_soc]) /\ Fields(b, b)
  BY DEF Fields
<1>2. QED
  BY <1>1, CalcZeroLinek DEF zero_algo_prepare, Fields

LEMMA ZeroAlgorithm == ASSUME NEW b, NEW r PROVE Fields(b, zero_algorithm(b, r))
<1>1. ASSUME NEW c PROVE Fields(c, calc_zero_algorithm(c))
  BY DEF calc_zero_algorithm, Fields
<1> DEFINE delta == Quot(Quot(b.zero_linek * (b.zero_remain_cap - b.remain_cap), DIV(b.fcc)), 10)
           due == delta >= 10 \/ b.zero_timeout_cnt + 1 > 100 \/ b.zero_linek = 0
           spent == [b EXCEPT !.zero_dsoc = b.zero_dsoc - delta]
           waited == [b EXCEPT !.zero_timeout_cnt = b.zero_timeout_cnt + 1]
           worked == calc_zero_linek(calc_zero_algorithm(spent), r)
           one == IF due THEN worked ELSE waited
           calibrated == init_coulomb_cap(one, one.zero_batocv_to_cap)
<1>2. Fields(b, spent) /\ Fields(b, waited)
  BY DEF Fields
<1>3. Fields(b, one)
  <2> HIDE DEF spent, waited, due
  <2>1. QED
    BY <1>1, <1>2, CalcZeroLinek DEF Fields
<1>4. zero_algorithm(b, r) \in {calc_zero_linek(calibrated, r), one}
  BY Zenon DEF zero_algorithm
<1>5. QED
  <2> HIDE DEF one
  <2>1. QED
    BY <1>3, <1>4, InitCoulombCap, CalcZeroLinek DEF Fields, Kept

LEMMA FinishAlgorithm == ASSUME NEW b, NEW r PROVE Fields(b, finish_algorithm(b, r))
<1>1. ASSUME NEW c PROVE Fields(c, finish_percents(c))
  BY DEF finish_percents, Fields
<1> DEFINE full == IF b.remain_cap # b.fcc /\ finished(b, r) THEN init_coulomb_cap(b, b.fcc) ELSE b
           raised == finish_percents(full)
           hundred == [raised EXCEPT !.dsoc = 100 * 1000]
<1>2. Fields(b, full) /\ Fields(b, raised)
  BY <1>1, InitCoulombCap DEF Fields, Kept
<1>3. Fields(b, hundred)
  <2> HIDE DEF raised
  <2>1. QED
    BY <1>2 DEF Fields
<1>4. finish_algorithm(b, r) =
        IF full.dsoc >= 100 * 1000 THEN full
        ELSE IF Pct(raised.rsoc) = 100 /\ raised.dsoc < 100 * 1000 THEN save_dsoc(hundred)
        ELSE raised
  BY Zenon DEF finish_algorithm
<1>5. QED
  <2> HIDE DEF full, raised, hundred
  <2>1. QED
    BY <1>2, <1>3, <1>4, SaveDsoc DEF Fields

\* The changes of the mode.
LEMMA Modes ==
  ASSUME NEW b, NEW r
  PROVE  Kept(b, to_smooth(b, r)) /\ Fields(b, to_zero(b, r)) /\ Kept(b, to_finish(b))
<1>1. ASSUME NEW c, NEW m PROVE Kept(c, [c EXCEPT !.work_mode = m])
  BY DEF Kept
<1>2. Kept(b, to_finish(b))
  BY DEF to_finish, Kept
<1>3. QED
  BY <1>1, <1>2, SmoothAlgoPrepare, ZeroAlgoPrepare DEF to_smooth, to_zero, Kept, Fields

LEMMA DisplaySmooth == ASSUME NEW b, NEW r PROVE Fields(b, display_smooth(b, r))
<1> DEFINE woken == zero_algo_prepare([b EXCEPT !.s2r = FALSE], r)
           f == finish_algorithm(b, r)
           z == zero_algorithm(b, r)
           s == smooth_algorithm(b, r)
<1>1. Fields(b, smooth_algo_prepare(woken, r))
  <2>1. Fields(b, [b EXCEPT !.s2r = FALSE])
    BY DEF Fields
  <2>2. QED
    BY <2>1, SmoothAlgoPrepare, ZeroAlgoPrepare DEF Fields, Kept
<1>2. Fields(b, f) /\ Fields(b, z) /\ Fields(b, s)
  BY FinishAlgorithm, ZeroAlgorithm, SmoothAlgorithm
<1>3. display_smooth(b, r) \in
        {smooth_algo_prepare(woken, r), f, to_zero(f, r), to_smooth(f, r), to_smooth(z, r),
         to_finish(z), z, to_zero(s, r), to_finish(s), s}
  BY DEF display_smooth
<1>4. QED
  <2> HIDE DEF woken, f, z, s
  <2>1. QED
    BY <1>1, <1>2, <1>3, Modes DEF Fields, Kept

LEMMA UpdateInfo == ASSUME NEW b, NEW r PROVE Kept(b, update_info(b, r))
<1> DEFINE read == [b EXCEPT !.rsoc = get_rsoc(b), !.remain_cap = capacity_uah(b)]
           full == init_coulomb_cap(read, b.fcc)
           topped == IF read.remain_cap \div 1000 > b.fcc
                     THEN [full EXCEPT !.sm_remain_cap = b.fcc * 1000] ELSE read
<1>1. Kept(b, read)
  BY DEF Kept
<1>2. Kept(b, full)
  <2> HIDE DEF read
  <2>1. QED
    BY <1>1, InitCoulombCap DEF Kept
<1>3. Kept(b, topped)
  <2> HIDE DEF read, full
  <2>1. QED
    BY <1>1, <1>2 DEF Kept
<1>4. QED
  <2>1. update_info(b, r) =
          [topped EXCEPT !.finish_sec = IF finished(read, r) THEN b.finish_sec ELSE 0,
                         !.change = b.change \/ plugged # b.is_charging,
                         !.is_charging = plugged]
    BY Zenon DEF update_info
  <2> HIDE DEF read, topped
  <2>2. QED
    BY <1>3, <2>1 DEF Kept

LEMMA LowpwrCheck == ASSUME NEW b, NEW r PROVE Fields(b, lowpwr_check(b, r))
  BY DEF lowpwr_check, Fields

LEMMA PowerSupplyChanged == ASSUME NEW b PROVE Fields(b, power_supply_changed(b))
  BY DEF power_supply_changed, Fields

------------------------------------------------------------------------------
(* What a step ends with *)

\* save_data copies the displayed charge to the register.
LEMMA SaveData ==
  ASSUME NEW b, HasCharge(b)
  PROVE  Fields(b, save_data(b)) /\ save_data(b).soc_reg = save_data(b).dsoc
  BY DEF save_data, save_cap, save_dsoc, HasCharge, Fields

LEMMA Displayed == ASSUME NEW b, NEW r PROVE Fields(b, displayed(b, r))
  BY UpdateInfo, LowpwrCheck, DisplaySmooth DEF displayed, Fields, Kept

LEMMA BatteryWork ==
  ASSUME NEW b, NEW r, HasCharge(b)
  PROVE  Fields(b, battery_work(b, r)) /\ battery_work(b, r).soc_reg = battery_work(b, r).dsoc
<1> DEFINE told == power_supply_changed(displayed(b, r))
<1>1. Fields(b, told)
  BY Displayed, PowerSupplyChanged DEF Fields
<1>2. battery_work(b, r) = save_data(told)
  BY DEF battery_work
<1>3. QED
  <2> HIDE DEF told
  <2>1. QED
    BY <1>1, <1>2, SaveData DEF Fields, HasCharge

LEMMA PwronFields ==
  ASSUME NEW c, NEW r, NEW off
  PROVE  Fields(c, first_pwron(c, r)) /\ Fields(c, not_first_pwron(c, r, off))
<1>1. Fields(c, first_pwron(c, r))
  BY DEF first_pwron, Fields
<1>2. Fields(c, get_fcc(c))
  BY DEF get_fcc, Fields
<1>3. Fields(c, not_first_pwron(c, r, off))
  <2> DEFINE d == get_fcc(c)
             e == [d EXCEPT !.remain_cap = d.cap_reg * 1000,
                            !.is_halt = Abs(capacity_mah(d) - d.cap_reg) > d.fcc \div 10,
                            !.is_initialized = d.fg_init,
                            !.is_ocv_calib = ~d.fg_init /\ off >= 30,
                            !.fg_init = FALSE]
             ocvSoc == vol_to_soc(r.voltage)
             ocvCap == vol_to_cap(d, r.voltage)
             away(offset) == Abs(ocvSoc - d.soc_reg) >= offset
             keep == [e EXCEPT !.dsoc = d.soc_reg, !.nac = d.cap_reg]
             halted == init_coulomb_cap(e, capacity_mah(d))
             halt == [halted EXCEPT !.dsoc = halted.rsoc, !.nac = capacity_mah(d)]
             calib == [keep EXCEPT !.nac = ocvCap,
                                   !.dsoc = IF away(Pdata.max_soc_offset) THEN ocvSoc
                                            ELSE d.soc_reg]
             force == [keep EXCEPT !.nac = ocvCap, !.dsoc = ocvSoc, !.is_force_calib = TRUE]
  <2>1. Fields(c, e)
    <3> HIDE DEF d
    <3>1. Fields(d, e)
      BY DEF Fields
    <3> USE DEF d
    <3>2. QED
      <4> HIDE DEF e
      <4>1. QED
        BY <3>1, <1>2 DEF Fields
  <2>2. not_first_pwron(c, r, off) =
          IF e.is_halt THEN halt
          ELSE IF e.is_initialized THEN keep
          ELSE IF e.is_ocv_calib THEN calib
          ELSE IF off > 0 /\ away(80) THEN force ELSE keep
    BY Zenon DEF not_first_pwron
  <2> HIDE DEF e, d, ocvSoc, ocvCap, away
  <2>3. Fields(e, keep)
    BY DEF Fields
  <2>4. Fields(e, halt)
    <3>1. Fields(e, halted)
      BY InitCoulombCap DEF Kept, Fields
    <3> HIDE DEF halted
    <3>2. QED
      BY <3>1 DEF Fields
  <2> HIDE DEF keep, halt
  <2>5. Fields(keep, calib) /\ Fields(keep, force)
    BY DEF Fields
  <2> HIDE DEF calib, force
  <2>6. QED
    BY <2>1, <2>2, <2>3, <2>4, <2>5 DEF Fields
<1>4. QED
  BY <1>1, <1>3

LEMMA RsocInit ==
  ASSUME NEW b, NEW r, NEW off
  PROVE  Fields(b, rsoc_init(b, r, off))
<1>1. ASSUME NEW c PROVE Fields(c, save_dsoc([c EXCEPT !.dsoc = 100 * 1000]))
  BY DEF save_dsoc, Fields
<1>2. QED
  BY <1>1, PwronFields, SaveDsoc DEF rsoc_init, pwron, filled, Fields

LEMMA InitFg == ASSUME NEW b, NEW r, NEW off PROVE Fields(b, init_fg(b, r, off))
<1>1. ASSUME NEW c PROVE Fields(c, init_dsoc_algorithm(c, r))
  <2>1. Fields(c, [c EXCEPT !.dsoc = Clamped(c.dsoc)])
    BY DEF Fields
  <2>2. QED
    BY <2>1, Modes DEF init_dsoc_algorithm, Fields, Kept
<1> DEFINE d == rsoc_init(b, r, off)
           e == init_dsoc_algorithm(init_coulomb_cap(d, d.nac), r)
<1>2. Fields(b, e)
  BY <1>1, RsocInit, InitCoulombCap DEF Fields, Kept
<1>3. init_fg(b, r, off) = [e EXCEPT !.qmax = get_qmax(e)]
  BY Zenon DEF init_fg
<1>4. QED
  <2> HIDE DEF e
  <2>1. QED
    BY <1>2, <1>3 DEF Fields

\* Probe saves what it displays.
LEMMA Probe ==
  ASSUME NEW b, NEW r, NEW off, HasCharge(b)
  PROVE  Fields(b, probe(b, r, off)) /\ probe(b, r, off).soc_reg = probe(b, r, off).dsoc
<1> DEFINE d == init_fg(b, r, off)
<1>1. Fields(b, d)
  BY InitFg
<1>2. probe(b, r, off) = update_info(save_dsoc(d), r)
  BY DEF probe
<1> HIDE DEF d
<1>3. Fields(d, save_dsoc(d)) /\ save_dsoc(d).soc_reg = save_dsoc(d).dsoc
  BY <1>1 DEF save_dsoc, HasCharge, Fields
<1>4. QED
  BY <1>1, <1>2, <1>3, UpdateInfo DEF Fields, Kept

LEMMA SuspendSaves ==
  ASSUME NEW b, NEW r, NEW l, HasCharge(b)
  PROVE  Fields(b, suspend(b, r, l)) /\ suspend(b, r, l).soc_reg = suspend(b, r, l).dsoc
<1> DEFINE status == charge_status(b, [r EXCEPT !.voltage = l.voltage, !.current = l.current])
           online == r.current > 0 \/ status \in {"CC_OR_CV_CHRG", "CHARGE_FINISH"}
           read == [b EXCEPT !.s2r = FALSE, !.sleep_chrg_online = online,
                             !.remain_cap = capacity_uah(b), !.rsoc = get_rsoc(b),
                             !.asleep_sec = 0]
           d == save_data(read)
           e == [d EXCEPT !.finish_sec = IF status = "CHARGE_FINISH" THEN d.finish_sec ELSE 0]
<1>1. suspend(b, r, l) = IF b.work_mode # "ZERO" \/ r.current < 0 THEN e
                         ELSE IF status = "CHARGE_FINISH" THEN to_finish(e)
                         ELSE to_smooth(e, r)
  BY Zenon DEF suspend
<1>2. Fields(b, read)
  BY DEF Fields
<1>3. Fields(b, d) /\ d.soc_reg = d.dsoc
  <2> HIDE DEF read
  <2>1. QED
    BY <1>2, SaveData DEF Fields, HasCharge
<1>4. Kept(d, e)
  <2> HIDE DEF d
  <2>1. QED
    BY DEF Kept
<1>5. QED
  <2> HIDE DEF d, e
  <2>1. QED
    BY <1>1, <1>3, <1>4, Modes DEF Fields, Kept

LEMMA SleepDischrg == ASSUME NEW b, NEW r PROVE Fields(b, sleep_dischrg(b, r))
<1>1. ASSUME NEW c PROVE Fields(c, relax_vol_calib(c, r))
  BY InitCoulombCap, SmoothAlgoPrepare, ZeroAlgoPrepare DEF relax_vol_calib, Fields, Kept
<1> DEFINE relaxed == r.relax >= r.voltage
           d == IF relaxed THEN relax_vol_calib(b, r) ELSE b
           lost == sleep_soc(d)
           soc == IF r.voltage <= Pdata.pwroff_vol - 70 THEN 0 ELSE slept_dsoc(d, lost)
           reserved == IF relaxed /\ lost # 0 /\ d.rsoc - soc < 5000 /\ soc < 40 * 1000
                       THEN soc - 1000 ELSE soc
<1>2. Fields(b, d)
  BY <1>1 DEF Fields
<1>3. sleep_dischrg(b, r) =
        [d EXCEPT !.dsoc = AtLeast(reserved, 0),
                  !.sleep_dischrg_sec = IF lost = 0 THEN d.sleep_dischrg_sec ELSE 0]
  BY Zenon DEF sleep_dischrg
<1>4. QED
  <2> HIDE DEF d, lost, reserved
  <2>1. QED
    BY <1>2, <1>3 DEF Fields

LEMMA Slept == ASSUME NEW b, NEW r PROVE Fields(b, slept(b, r))
<1> DEFINE d == [b EXCEPT !.s2r = TRUE, !.remain_cap = capacity_uah(b), !.rsoc = get_rsoc(b),
                          !.sleep_dischrg_sec = IF b.sleep_chrg_online THEN b.sleep_dischrg_sec
                                                ELSE b.sleep_dischrg_sec + b.asleep_sec]
           step == IF r.voltage <= Pdata.pwroff_vol + 50 THEN 10 * 60 ELSE 60 * 60
<1>1. slept(b, r) = IF ~b.sleep_chrg_online /\ d.sleep_dischrg_sec > step
                    THEN sleep_dischrg(d, r) ELSE d
  BY Zenon DEF slept
<1>2. Fields(b, d)
  BY DEF Fields
<1>3. QED
  <2> HIDE DEF d, step
  <2>1. QED
    BY <1>1, <1>2, SleepDischrg DEF Fields

LEMMA ResumeWorkSaves ==
  ASSUME NEW b, NEW r, HasCharge(b)
  PROVE  Fields(b, resume_work(b, r)) /\ resume_work(b, r).soc_reg = resume_work(b, r).dsoc
  BY Slept, SaveData DEF resume_work, Fields, HasCharge

------------------------------------------------------------------------------
(* The loss of power inside a function *)

\* What was displayed last is what is saved, if the moment says so.
Sound(m) == m.cut = "no" => m.rk.soc_reg = m.rk.dsoc

LEMMA MomentCharge ==
  ASSUME NEW b, HasCharge(b), NEW soc, NEW told, NEW where
  PROVE  LET m == Moment(b, soc, told, where)
         IN  /\ m.rk.soc_reg = soc /\ m.rk.dsoc = b.dsoc
             /\ m.shown = told /\ m.cut = where
  BY DEF Moment, HasCharge

\* After the last of its three registers the charge is saved, whatever else is not yet.
LEMMA SavingSound ==
  ASSUME NEW old, NEW b, HasCharge(b), NEW told, NEW m \in Saving(old, b, told)
  PROVE  Sound(m)
<1>1. CASE m \in {Moment(b, soc, told, "writing") : soc \in Torn(old, b.dsoc)}
  BY <1>1 DEF Moment, Sound
<1>2. ASSUME NEW cap, m = Moment([b EXCEPT !.cap_reg = cap], b.dsoc, told, "no")
      PROVE  Sound(m)
  <2> DEFINE d == [b EXCEPT !.cap_reg = cap]
  <2>1. HasCharge(d) /\ d.dsoc = b.dsoc
    BY DEF HasCharge
  <2>2. m = Moment(d, b.dsoc, told, "no")
    BY <1>2
  <2> HIDE DEF d
  <2>3. QED
    BY <2>1, <2>2, MomentCharge DEF Sound
<1>3. QED
  BY <1>1, <1>2 DEF Saving

LEMMA WorkSound ==
  ASSUME NEW b, NEW r, HasCharge(b), b.soc_reg = b.dsoc, NEW m \in WorkMoments(b, displayed(b, r))
  PROVE  Sound(m)
<1> DEFINE d == displayed(b, r)
           t == power_supply_changed(d)
           c == [b EXCEPT !.q = d.q]
           full == d.soc_reg # b.soc_reg
<1>1. HasCharge(t)
  BY Displayed, PowerSupplyChanged DEF Fields, HasCharge
<1>2. HasCharge(c) /\ c.dsoc = b.dsoc
  BY DEF HasCharge
<1>3. \/ m = Moment(c, b.soc_reg, shown, "no")
      \/ \E soc : m = Moment(d, soc, shown, "writing")
      \/ m = Moment(t, d.soc_reg, t.old_soc, IF full THEN "writing" ELSE "told")
      \/ m \in Saving(d.soc_reg, t, t.old_soc)
  BY DEF WorkMoments
<1> HIDE DEF c, t, full
<1>4. QED
  <2>1. CASE m = Moment(c, b.soc_reg, shown, "no")
    BY <1>2, <2>1, MomentCharge DEF Sound
  <2>2. CASE \E soc : m = Moment(d, soc, shown, "writing")
    BY <2>2 DEF Sound, Moment
  <2>3. CASE m = Moment(t, d.soc_reg, t.old_soc, IF full THEN "writing" ELSE "told")
    BY <2>3 DEF Sound, Moment
  <2>4. QED
    BY <1>1, <1>3, <2>1, <2>2, <2>3, SavingSound

LEMMA ResumeSound ==
  ASSUME NEW b, NEW r, HasCharge(b), b.soc_reg = b.dsoc,
         NEW m \in ResumeMoments(b, slept(b, r))
  PROVE  Sound(m)
<1> DEFINE d == slept(b, r)
           c == [b EXCEPT !.q = d.q]
<1>1. HasCharge(d)
  BY Slept DEF Fields, HasCharge
<1>2. HasCharge(c) /\ c.dsoc = b.dsoc
  BY DEF HasCharge
<1>3. m = Moment(c, b.soc_reg, shown, "no") \/ m \in Saving(b.soc_reg, d, shown)
  BY DEF ResumeMoments
<1> HIDE DEF c, d
<1>4. QED
  BY <1>1, <1>2, <1>3, MomentCharge, SavingSound DEF Sound

LEMMA SuspendSound ==
  ASSUME NEW b, HasCharge(b), NEW m \in SuspendMoments(b)
  PROVE  Sound(m)
<1>1. HasCharge([b EXCEPT !.remain_cap = capacity_uah(b)])
  BY DEF HasCharge
<1>2. QED
  BY <1>1, SavingSound DEF SuspendMoments

\* While the registers hold what they held before probe, so they do what was displayed.
LEMMA BootSound ==
  ASSUME NEW b, NEW r, NEW off, HasCharge(b), cut = "no" => b.soc_reg = rk.dsoc,
         NEW m \in BootMoments(b, pwron(b, r, off), rsoc_init(b, r, off), probe(b, r, off))
  PROVE  Sound(m)
<1> DEFINE d == pwron(b, r, off)
           f == probe(b, r, off)
           Of(c, soc) == Moment([c EXCEPT !.dsoc = rk.dsoc], soc, shown,
                                IF soc = b.soc_reg THEN cut ELSE "writing")
<1>1. HasCharge(d) /\ HasCharge(f)
  BY PwronFields, Probe DEF pwron, Fields, HasCharge
<1>2. \E c \in {d, f} : \E soc : m = Of(c, soc)
  BY DEF BootMoments
<1>3. PICK c \in {d, f} : \E soc : m = Of(c, soc)
  BY <1>2
<1>4. PICK soc : m = Of(c, soc)
  BY <1>3
<1> DEFINE e == [c EXCEPT !.dsoc = rk.dsoc]
<1>5. HasCharge(c)
  BY <1>1, <1>3
<1>6. HasCharge(e) /\ e.dsoc = rk.dsoc
  BY <1>5 DEF HasCharge
<1>7. m = Moment(e, soc, shown, IF soc = b.soc_reg THEN cut ELSE "writing")
  BY <1>4
<1> HIDE DEF e
<1>8. QED
  BY <1>6, <1>7, MomentCharge DEF Sound

------------------------------------------------------------------------------
(* The machine *)

\* The record has its charge, and saved it unless the machine is off.
RkInv == HasCharge(rk) /\ SavedIsDisplayed

\* Time and the counter leave the charge alone.
LEMMA TimePasses ==
  ASSUME NEW b, NEW sec, NEW r
  PROVE  Kept(b, Pass(b, sec)) /\ Kept(b, Counted(b, r))
  BY DEF Pass, Counted, Kept

\* Without power the charge displayed last is remembered, and the one saved is kept.
LEMMA LostCharge ==
  ASSUME NEW b
  PROVE  HasCharge(Lost(b)) /\ Lost(b).dsoc = b.dsoc /\ Lost(b).soc_reg = b.soc_reg
<1> DEFINE d == Fresh(b)
<1>1. HasCharge(d) /\ d.soc_reg = b.soc_reg
  BY DEF Fresh, Registers, zeroed, HasCharge
<1>2. Lost(b) = [d EXCEPT !.dsoc = b.dsoc]
  BY DEF Lost
<1> HIDE DEF d
<1>3. QED
  BY <1>1, <1>2 DEF HasCharge

LEMMA RkInitInv == RkInit => RkInv
<1> SUFFICES ASSUME RkInit PROVE RkInv
  OBVIOUS
<1>1. PICK chip \in Chips, s \in SavedStates :
        rk = [Fresh([f \in Registers |-> IF f = "chip" THEN chip ELSE s[f]])
                EXCEPT !.dsoc = s.soc_reg]
  BY DEF RkInit
<1> DEFINE b == [f \in Registers |-> IF f = "chip" THEN chip ELSE s[f]]
           d == Fresh(b)
<1>2. HasCharge(d) /\ d.soc_reg = s.soc_reg
  BY DEF Fresh, Registers, zeroed, HasCharge
<1>3. rk = [d EXCEPT !.dsoc = s.soc_reg]
  BY <1>1
<1> HIDE DEF d
<1>4. QED
  BY <1>2, <1>3 DEF RkInv, SavedIsDisplayed, HasCharge

LEMMA RkStep == RkInv /\ [RkNext]_rkVars => RkInv'
<1> SUFFICES ASSUME RkInv, [RkNext]_rkVars PROVE RkInv'
  OBVIOUS
<1> DEFINE Saved(b) == HasCharge(b) /\ b.soc_reg = b.dsoc
<1>0. /\ HasCharge(rk)
      /\ Saved(rk') => RkInv'
      /\ power # "off" \/ cut = "no" => Saved(rk)
  BY DEF RkInv, SavedIsDisplayed
<1>1. CASE Boot
  <2>1. PICK r \in Readings, off \in OffMinutes, uboot \in BOOLEAN :
          LET d == probe([Fresh(rk) EXCEPT !.fg_init = uboot], r, off)
          IN  rk' = [d EXCEPT !.plugin_trigger = d.chip = "RK809" /\ plugged]
    BY <1>1 DEF Boot
  <2> DEFINE b == [Fresh(rk) EXCEPT !.fg_init = uboot]
             d == probe(b, r, off)
  <2>2. HasCharge(b)
    BY DEF Fresh, Registers, zeroed, HasCharge
  <2>3. Saved(d)
    <3> HIDE DEF b
    <3>1. QED
      BY <2>2, Probe DEF Fields, HasCharge
  <2>4. rk' = [d EXCEPT !.plugin_trigger = d.chip = "RK809" /\ plugged]
    BY <2>1
  <2> HIDE DEF d
  <2>5. Saved(rk')
    BY <2>3, <2>4 DEF HasCharge
  <2>6. QED
    BY <1>0, <2>5
<1>2. CASE Work
  <2>1. PICK r \in Readings :
          rk' = battery_work(Counted(Pass(rk, delay), r), r)
    BY <1>2 DEF Work, WorkFinds
  <2>2. HasCharge(Counted(Pass(rk, delay), r))
    BY <1>0, TimePasses DEF Kept, HasCharge
  <2>3. Saved(rk')
    BY <2>1, <2>2, BatteryWork DEF Fields, HasCharge
  <2>4. QED
    BY <1>0, <2>3
<1>3. CASE Plug
  <2>1. HasCharge(rk') /\ rk'.soc_reg = rk.soc_reg /\ rk'.dsoc = rk.dsoc
    BY <1>0, <1>3 DEF Plug, HasCharge
  <2>2. power' = power /\ cut' = cut
    BY <1>3 DEF Plug
  <2>3. QED
    BY <2>1, <2>2 DEF RkInv, SavedIsDisplayed
<1>4. CASE Suspend
  <2>1. Saved(rk')
    BY <1>0, <1>4, SuspendSaves DEF Suspend, Fields, HasCharge
  <2>2. QED
    BY <1>0, <2>1
<1>5. CASE Wake
  <2>1. PICK r \in Readings, sec \in SleepSecs :
          rk' = [Pass(Counted(rk, r), sec) EXCEPT !.asleep_sec = rk.asleep_sec + sec]
    BY <1>5 DEF Wake
  <2>2. Saved(rk)
    BY <1>0, <1>5 DEF Wake
  <2>3. Saved(Pass(Counted(rk, r), sec))
    BY <2>2, TimePasses DEF Kept, HasCharge
  <2>4. Saved(rk')
    BY <2>1, <2>3 DEF HasCharge
  <2>5. QED
    BY <1>0, <2>4
<1>6. CASE ResumeWork
  <2>1. Saved(rk')
    BY <1>0, <1>6, ResumeWorkSaves DEF ResumeWork, Fields, HasCharge
  <2>2. QED
    BY <1>0, <2>1
<1>7. CASE PowerOff
  <2>1. Saved(rk)
    BY <1>0, <1>7 DEF PowerOff
  <2>2. PICK r \in Readings : rk' = Lost(Counted(rk, r))
    BY <1>7 DEF PowerOff
  <2>3. Saved(rk')
    BY <2>1, <2>2, LostCharge, TimePasses DEF Kept
  <2>4. QED
    BY <1>0, <2>3
<1>b. ASSUME NEW moments, CutAt(moments), \A m \in moments : Sound(m)
      PROVE  RkInv'
  <2>1. PICK m \in moments : rk' = Lost(m.rk) /\ cut' = m.cut
    BY <1>b DEF CutAt
  <2>2. HasCharge(rk') /\ rk'.dsoc = m.rk.dsoc /\ rk'.soc_reg = m.rk.soc_reg /\ power' = "off"
    BY <1>b, <2>1, LostCharge DEF CutAt
  <2>3. QED
    BY <1>b, <2>1, <2>2 DEF RkInv, SavedIsDisplayed, Sound
<1>8. CASE BootCut
  <2>1. PICK r \in Readings, off \in OffMinutes, uboot \in BOOLEAN :
          LET b == [Fresh(rk) EXCEPT !.fg_init = uboot]
          IN  CutAt(BootMoments(b, pwron(b, r, off), rsoc_init(b, r, off), probe(b, r, off)))
    BY <1>8 DEF BootCut
  <2> DEFINE f == Fresh(rk)
             b == [f EXCEPT !.fg_init = uboot]
  <2>2. HasCharge(f) /\ f.soc_reg = rk.soc_reg
    BY DEF Fresh, Registers, zeroed, HasCharge
  <2> HIDE DEF f
  <2>3. HasCharge(b) /\ b.soc_reg = rk.soc_reg
    BY <2>2 DEF HasCharge
  <2>4. CutAt(BootMoments(b, pwron(b, r, off), rsoc_init(b, r, off), probe(b, r, off)))
    BY <2>1 DEF f
  <2> HIDE DEF b
  <2>5. cut = "no" => b.soc_reg = rk.dsoc
    BY <1>0, <2>3
  <2>6. QED
    BY <1>b, <2>3, <2>4, <2>5, BootSound
<1>9. CASE WorkCut
  <2>1. PICK r \in Readings :
        LET b == Counted(Pass(rk, delay), r)
        IN  CutAt(WorkMoments(b, displayed(b, r)))
    BY <1>9 DEF WorkCut
  <2> DEFINE b == Counted(Pass(rk, delay), r)
  <2>2. Saved(b)
    BY <1>0, <1>9, TimePasses DEF WorkCut, Kept, HasCharge
  <2> HIDE DEF b
  <2>3. QED
    BY <1>b, <2>1, <2>2, WorkSound DEF b
<1>10. CASE SuspendCut
  BY <1>0, <1>b, <1>10, SuspendSound DEF SuspendCut
<1>11. CASE ResumeWorkCut
  BY <1>0, <1>b, <1>11, ResumeSound DEF ResumeWorkCut
<1>12. CASE UNCHANGED rkVars
  BY <1>12 DEF rkVars, RkInv, HasCharge, SavedIsDisplayed
<1>13. QED
  BY <1>1, <1>2, <1>3, <1>4, <1>5, <1>6, <1>7, <1>8, <1>9, <1>10, <1>11, <1>12
  DEF RkNext, PowerCut

\* Between the functions of rk817_battery.c, and where power is lost in one before it tells
\* userspace or begins to write, or after it wrote, the register that the next probe reads
\* holds the charge that was displayed.
THEOREM RkSaved == RkSpec => []SavedIsDisplayed
<1>1. RkInv => SavedIsDisplayed
  BY DEF RkInv
<1>2. QED
  BY RkInitInv, RkStep, <1>1, PTL DEF RkSpec

------------------------------------------------------------------------------
(* Numbers *)

\* C's division of a number by a positive one, and its truncation.
LEMMA DivNumber ==
  ASSUME NEW a \in Int, NEW n \in Nat \ {0}
  PROVE  a \div n \in Int /\ (a >= 0 => a \div n >= 0)
  OBVIOUS

LEMMA QuotNumber ==
  ASSUME NEW a \in Int, NEW n \in Int, n # 0
  PROVE  /\ Quot(a, n) \in Int
         /\ n > 0 /\ a >= 0 => Quot(a, n) >= 0
         /\ n > 0 /\ a <= 0 => Quot(a, n) <= 0
<1>1. Abs(a) \in Nat /\ Abs(n) \in Nat \ {0} /\ (a = 0 => Abs(a) = 0)
  BY DEF Abs
<1>2. /\ Abs(a) \div Abs(n) \in Nat
      /\ a = 0 => Abs(a) \div Abs(n) = 0
  BY <1>1, DivNumber
<1> HIDE DEF Abs
<1>3. QED
  BY <1>1, <1>2 DEF Quot

\* What DIV guards a division with.
LEMMA DivNotZero == ASSUME NEW a \in Int PROVE DIV(a) \in Int /\ DIV(a) # 0 /\ (a >= 0 => DIV(a) > 0)
  BY DEF DIV

\* The larger and the smaller of two numbers.
LEMMA Bounds ==
  ASSUME NEW a \in Int, NEW b \in Int
  PROVE  /\ AtLeast(a, b) \in Int /\ AtMost(a, b) \in Int
         /\ AtLeast(a, b) >= a /\ AtLeast(a, b) >= b /\ AtLeast(a, b) \in {a, b}
         /\ AtMost(a, b) <= a /\ AtMost(a, b) <= b /\ AtMost(a, b) \in {a, b}
  BY DEF AtLeast, AtMost

\* The table is a sequence of ascending numbers.
LEMMA TableNumbers ==
  /\ OcvTable \in Seq(Int) /\ Len(OcvTable) \in Nat /\ Len(OcvTable) > 1
  /\ \A i \in 1..Len(OcvTable) : OcvTable[i] \in Int
  /\ \A i \in 1..(Len(OcvTable) - 1) : OcvTable[i] < OcvTable[i + 1]
<1>1. /\ OcvTable \in Seq(Int) /\ Len(OcvTable) > 1
      /\ \A i \in 1..(Len(OcvTable) - 1) : OcvTable[i] < OcvTable[i + 1]
  BY TableAssumption DEF TableAssumption
<1>2. QED
  BY <1>1

LEMMA U16Number == ASSUME NEW n \in Int PROVE u16(n) \in Int
  BY DEF u16

\* The lookups of the table give numbers, for any voltage.
LEMMA InterpolateNumber == ASSUME NEW value \in Int PROVE interpolate(value) \in Int
<1> DEFINE size == Len(OcvTable)
           i == Cardinality({k \in 1..size : OcvTable[k] <= value})
           part == 1000 \div (size - 1)
           a == (value - OcvTable[i]) * part
           n == OcvTable[i + 1] - OcvTable[i]
           between == u16(u16(a) \div n + (i - 1) * part)
           outside == u16(i * ((1000 + size \div 2) \div size))
<1>1. size \in Nat /\ size > 1
  BY TableNumbers
<1>2. i \in Nat
  <2>1. IsFiniteSet(1..size) /\ {k \in 1..size : OcvTable[k] <= value} \subseteq 1..size
    BY <1>1, FS_Interval
  <2>2. QED
    BY <2>1, FS_Subset, FS_CardinalityType
<1>3. part \in Int /\ (1000 + size \div 2) \div size \in Int
  <2>1. size - 1 \in Nat \ {0} /\ size \in Nat \ {0}
    BY <1>1
  <2>2. size \div 2 \in Int
    BY <1>1
  <2> HIDE DEF size
  <2>3. QED
    BY <2>1, <2>2, DivNumber
<1>4. i \in 1..(size - 1) => between \in Int
  <2>1. SUFFICES ASSUME i \in 1..(size - 1) PROVE between \in Int
    OBVIOUS
  <2>2. OcvTable[i] < OcvTable[i + 1]
    BY <2>1, TableNumbers
  <2>3. OcvTable[i] \in Int /\ OcvTable[i + 1] \in Int
    <3>1. i \in 1..size /\ i + 1 \in 1..size
      BY <1>1, <2>1
    <3>2. QED
      BY <3>1, TableNumbers
  <2> HIDE DEF i, part
  <2>4. n \in Nat \ {0} /\ a \in Int
    BY <1>2, <1>3, <2>2, <2>3
  <2> HIDE DEF n, a
  <2>5. u16(a) \div n \in Int
    BY <2>4, DivNumber, U16Number
  <2>6. QED
    BY <1>2, <1>3, <2>5, U16Number
<1>5. outside \in Int
  <2> HIDE DEF i, size
  <2>1. QED
    BY <1>2, <1>3, U16Number
<1>6. interpolate(value) = AtMost(IF i \in 1..(size - 1) THEN between ELSE outside, 1000)
  BY Zenon DEF interpolate
<1> HIDE DEF between, outside, i, size
<1>7. (IF i \in 1..(size - 1) THEN between ELSE outside) \in Int
  BY <1>4, <1>5
<1> DEFINE d == IF i \in 1..(size - 1) THEN between ELSE outside
<1>8. d \in Int /\ interpolate(value) = AtMost(d, 1000)
  BY <1>6, <1>7
<1> HIDE DEF d
<1>9. QED
  BY <1>8, Bounds

LEMMA VolNumber ==
  ASSUME NEW v \in Int
  PROVE  /\ vol_to_soc(v) \in Int
         /\ \A b : b.fcc \in Int => vol_to_cap(b, v) \in Int
<1>1. ASSUME NEW m \in Int, NEW n \in Int PROVE ab_div_c(m, n, 1000) \in Int
  <2>1. (m * n + 1000 \div 2) \div 1000 \in Int
    BY DivNumber
  <2>2. QED
    BY <2>1, Bounds DEF ab_div_c
<1>2. interpolate(v) \in Int
  BY InterpolateNumber
<1>3. vol_to_soc(v) \in Int
  BY <1>1, <1>2 DEF vol_to_soc
<1>4. ASSUME NEW b, b.fcc \in Int PROVE vol_to_cap(b, v) \in Int
  <2> DEFINE n == b.fcc
  <2>1. n \in Int /\ vol_to_cap(b, v) = ab_div_c(interpolate(v), n, 1000)
    BY <1>4 DEF vol_to_cap
  <2> HIDE DEF n
  <2>2. QED
    BY <1>1, <1>2, <2>1
<1>5. QED
  BY <1>3, <1>4

------------------------------------------------------------------------------
(* The record's numbers *)

Numbers ==
  {"q", "q_max", "soc_reg", "cap_reg", "fcc_reg", "dsoc", "rsoc", "remain_cap", "nac", "fcc",
   "qmax", "smooth_soc", "sm_linek", "sm_remain_cap", "zero_dsoc", "zero_linek",
   "zero_remain_cap", "zero_timeout_cnt", "zero_batocv_to_cap", "zero_drop_sec",
   "shtd_drop_sec", "low_sec", "finish_sec", "sleep_dischrg_sec", "asleep_sec", "old_soc",
   "old_cap"}
Work_modes == {"FINISH", "ZERO", "SMOOTH"}

Numeric(b) ==
  /\ {"s2r", "bat_con", "is_halt", "is_initialized", "is_ocv_calib", "is_force_calib", "work_mode"}
       \subseteq DOMAIN b
  /\ Numbers \subseteq DOMAIN b
  /\ \A f \in Numbers : b[f] \in Int
  /\ b.work_mode \in Work_modes
  /\ b.finish_sec >= 0 /\ b.sleep_dischrg_sec >= 0 /\ b.asleep_sec >= 0

\* The record of a driver that has been probed.
Gauge(b) == Numeric(b) /\ b.fcc >= 42

\* What is said of the battery, which the algorithms of the display leave alone.
SaidOf(b, d) ==
  /\ DOMAIN d = DOMAIN b
  /\ d.fcc = b.fcc
  /\ d.finish_sec = b.finish_sec
  /\ d.sleep_dischrg_sec = b.sleep_dischrg_sec /\ d.asleep_sec = b.asleep_sec
  /\ d.work_mode = b.work_mode

\* And the charge displayed, with the time at which a percent goes.
Steady(b, d) == /\ SaidOf(b, d) /\ d.dsoc = b.dsoc /\ d.zero_drop_sec = b.zero_drop_sec

Reading(r) == {r.voltage, r.current, r.step, r.relax} \subseteq Int

\* The numbers of the record, by name.
LEMMA NumbersAre ==
  ASSUME NEW b, Numeric(b)
  PROVE  /\ {b.q, b.q_max, b.soc_reg, b.cap_reg, b.fcc_reg, b.dsoc, b.rsoc} \subseteq Int
         /\ {b.remain_cap, b.nac, b.fcc, b.qmax, b.smooth_soc, b.sm_linek} \subseteq Int
         /\ {b.sm_remain_cap, b.zero_dsoc, b.zero_linek, b.zero_remain_cap} \subseteq Int
         /\ {b.zero_timeout_cnt, b.zero_batocv_to_cap, b.zero_drop_sec} \subseteq Int
         /\ {b.shtd_drop_sec, b.low_sec, b.finish_sec, b.sleep_dischrg_sec} \subseteq Int
         /\ {b.asleep_sec, b.old_soc, b.old_cap} \subseteq Int
  BY DEF Numeric, Numbers

\* A record with the numbers of a gauge's, and what is said of the battery, is a gauge's.
LEMMA StillGauge ==
  ASSUME NEW b, NEW d, Gauge(b), SaidOf(b, d), \A f \in Numbers : d[f] \in Int
  PROVE  Gauge(d)
  BY DEF Gauge, Numeric, SaidOf

\* And one number of it may be another one.
LEMMA SetNumeric ==
  ASSUME NEW b, Numeric(b), NEW n \in Int
  PROVE  /\ Numeric([b EXCEPT !.q = n]) /\ Numeric([b EXCEPT !.dsoc = n])
         /\ Numeric([b EXCEPT !.soc_reg = n]) /\ Numeric([b EXCEPT !.cap_reg = n])
         /\ Numeric([b EXCEPT !.remain_cap = n])
<1> DEFINE Set(d) == /\ DOMAIN d = DOMAIN b
                     /\ \A f \in Numbers : d[f] \in {b[f], n}
                     /\ d.work_mode = b.work_mode /\ d.finish_sec = b.finish_sec
                     /\ d.sleep_dischrg_sec = b.sleep_dischrg_sec
                     /\ d.asleep_sec = b.asleep_sec
<1>1. /\ Set([b EXCEPT !.q = n]) /\ Set([b EXCEPT !.dsoc = n])
      /\ Set([b EXCEPT !.soc_reg = n]) /\ Set([b EXCEPT !.cap_reg = n])
      /\ Set([b EXCEPT !.remain_cap = n])
  BY DEF Numeric, Numbers
<1>2. ASSUME NEW d, Set(d) PROVE Numeric(d)
  BY <1>2 DEF Numeric
<1> HIDE DEF Set
<1>3. QED
  BY <1>1, <1>2

\* The counter is set: the charge measured is another one, the one displayed is not.
LEMMA GaugeInit ==
  ASSUME NEW b, Gauge(b), NEW c \in Int
  PROVE  /\ Gauge(init_coulomb_cap(b, c)) /\ Steady(b, init_coulomb_cap(b, c))
         /\ init_coulomb_cap(b, c).rsoc = (c * 100000) \div b.fcc
<1> DEFINE adc == CapacityToAdc(c)
           soc == (c * 100000) \div b.fcc
           cap == c * 1000
<1>1. soc \in Int /\ cap \in Int
  <2> DEFINE n == b.fcc
  <2>1. n \in Nat \ {0}
    BY NumbersAre DEF Gauge
  <2> HIDE DEF n
  <2>2. (c * 100000) \div n \in Int
    BY <2>1, DivNumber
  <2>3. QED
    BY <2>2 DEF n
<1>2. adc \in Int
  <2>1. res_div \in Int
    BY DEF res_div
  <2>2. c * res_div * 3600 \in Int
    BY <2>1
  <2>3. QED
    BY <2>2, DivNumber DEF CapacityToAdc
<1> DEFINE d == [b EXCEPT !.q = adc, !.rsoc = soc, !.remain_cap = cap]
<1>3. d = init_coulomb_cap(b, c)
  BY DEF init_coulomb_cap
<1> HIDE DEF adc, soc, cap
<1>4. \A f \in Numbers : d[f] \in Int
  BY <1>1, <1>2 DEF Gauge, Numeric
<1>5. Steady(b, d) /\ d.rsoc = soc
  BY DEF Gauge, Numeric, Numbers, Steady, SaidOf
<1> HIDE DEF d
<1>6. QED
  BY <1>3, <1>4, <1>5, StillGauge DEF Steady, soc

\* What the counter reads as.
LEMMA CounterNumber ==
  ASSUME NEW b, Gauge(b)
  PROVE  capacity_uah(b) \in Int /\ capacity_mah(b) \in Int /\ get_rsoc(b) \in Int
         /\ get_qmax(b) \in Int
<1>1. b.q \in Int /\ b.q_max \in Int /\ DIV(b.fcc) \in Nat \ {0}
  BY NumbersAre DEF Gauge, DIV
<1>2. res_div \in Nat \ {0}
  BY DEF res_div
<1>3. ASSUME NEW a \in Int PROVE AdcToMah(a) \in Int /\ AdcToUah(a) \in Int
  <2>1. a \div 3600 \in Int /\ a \div 1000 \in Int
    OBVIOUS
  <2>2. ((a \div 1000) * 172) \div 3600 \in Int /\ (a \div 3600) * 172 \in Int
    BY <2>1
  <2>3. QED
    BY <1>2, <2>2, DivNumber DEF AdcToMah, AdcToUah
<1>4. capacity_uah(b) \in Int /\ capacity_mah(b) \in Int
  BY <1>1, <1>3 DEF capacity_uah, capacity_mah
<1>5. get_rsoc(b) \in Int
  <2> DEFINE n == DIV(b.fcc)
             a == capacity_uah(b) * 100
  <2>1. n \in Nat \ {0} /\ a \in Int
    BY <1>1, <1>4
  <2>2. get_rsoc(b) = a \div n
    BY DEF get_rsoc
  <2> HIDE DEF n, a
  <2>3. QED
    BY <2>1, <2>2, DivNumber
<1>6. QED
  BY <1>1, <1>3, <1>4, <1>5 DEF get_qmax

------------------------------------------------------------------------------
(* The smooth algorithm's numbers *)

\* A quotient of a number by a smaller one.
LEMMA OneAtLeast ==
  ASSUME NEW a \in Int, NEW n \in Nat \ {0}, a >= n PROVE a \div n \in Int /\ a \div n > 0
<1> DEFINE k == a \div n
<1>1. k \in Int /\ a - n * k \in 0..(n - 1)
  OBVIOUS
<1>2. k <= 0 => n * k <= 0
  BY <1>1
<1>3. n * k \in Int
  BY <1>1
<1> HIDE DEF k
<1>4. QED
  BY <1>1, <1>2, <1>3 DEF k

\* The slope has the sign of the current.
LEMMA GaugeLinek ==
  ASSUME NEW b, Gauge(b), NEW r, Reading(r)
  PROVE  LET d == calc_sm_linek(b, r)
         IN  /\ Gauge(d) /\ Steady(b, d)
             /\ r.current > 0 => d.sm_linek > 0
             /\ r.current <= 0 => d.sm_linek < 0
             /\ d.remain_cap = b.remain_cap
<1> DEFINE delta == Abs(b.dsoc - b.rsoc)
           slope == IF delta = 0 THEN 1000
                    ELSE IF (b.dsoc < b.rsoc) = (r.current > 0)
                    THEN (4000 * delta) \div (3 * delta)
                    ELSE (3000 * delta) \div (4 * delta)
           line == IF r.current > 0 THEN slope ELSE -slope
           d == [b EXCEPT !.sm_linek = line, !.sm_remain_cap = b.remain_cap]
<1>1. delta \in Nat
  BY NumbersAre DEF Gauge, Abs
<1>2. slope \in Int /\ slope > 0
  <2> HIDE DEF delta
  <2>1. delta # 0 => /\ 4000 * delta \in Int /\ 3 * delta \in Nat \ {0}
                     /\ 3000 * delta \in Int /\ 4 * delta \in Nat \ {0}
                     /\ 4000 * delta >= 3 * delta /\ 3000 * delta >= 4 * delta
    BY <1>1
  <2>2. delta # 0 => /\ (4000 * delta) \div (3 * delta) \in Int
                     /\ (4000 * delta) \div (3 * delta) > 0
                     /\ (3000 * delta) \div (4 * delta) \in Int
                     /\ (3000 * delta) \div (4 * delta) > 0
    BY <2>1, OneAtLeast
  <2>3. QED
    BY <2>2
<1>3. calc_sm_linek(b, r) = d
  BY DEF calc_sm_linek
<1> HIDE DEF slope
<1>4. line \in Int /\ (r.current > 0 => line > 0) /\ (r.current <= 0 => line < 0)
  BY <1>2 DEF Reading
<1> HIDE DEF line
<1>5. \A f \in Numbers : d[f] \in Int
  BY <1>4, NumbersAre DEF Gauge, Numeric
<1>6. Steady(b, d) /\ d.sm_linek = line /\ d.remain_cap = b.remain_cap
  BY DEF Gauge, Numeric, Numbers, Steady, SaidOf
<1> HIDE DEF d
<1>7. QED
  BY <1>3, <1>4, <1>5, <1>6, StillGauge DEF Steady

\* To restart the smooth algorithm displays nothing else.
LEMMA GaugeSmoothPrepare ==
  ASSUME NEW b, Gauge(b), NEW r, Reading(r)
  PROVE  LET d == smooth_algo_prepare(b, r) IN Gauge(d) /\ Steady(b, d)
<1> DEFINE d == [b EXCEPT !.smooth_soc = b.dsoc]
<1>1. \A f \in Numbers : d[f] \in Int
  BY NumbersAre DEF Gauge, Numeric
<1>2. Steady(b, d)
  BY DEF Gauge, Numeric, Numbers, Steady, SaidOf
<1>3. smooth_algo_prepare(b, r) = calc_sm_linek(d, r)
  BY DEF smooth_algo_prepare
<1> HIDE DEF d
<1>4. Gauge(d)
  BY <1>1, <1>2, StillGauge DEF Steady
<1>5. QED
  BY <1>2, <1>3, <1>4, GaugeLinek DEF Steady, SaidOf

\* A percent at most goes, or smooth_soc is shown.
LEMMA GaugeCalcSmooth ==
  ASSUME NEW b, Gauge(b)
  PROVE  /\ LET d == calc_smooth_dischrg(b)
            IN  /\ Gauge(d) /\ SaidOf(b, d) /\ d.zero_drop_sec = b.zero_drop_sec
                /\ d.dsoc >= b.dsoc - 1000 /\ d.dsoc <= AtLeast(0, b.dsoc)
         /\ LET d == calc_smooth_chrg(b)
            IN  /\ Gauge(d) /\ SaidOf(b, d) /\ d.zero_drop_sec = b.zero_drop_sec
                /\ d.dsoc = b.dsoc \/ (d.dsoc = b.smooth_soc /\ Pct(b.smooth_soc) # Pct(b.dsoc))
<1>1. ASSUME NEW v \in Int
      PROVE  LET d == [b EXCEPT !.dsoc = v]
             IN  Gauge(d) /\ SaidOf(b, d) /\ d.zero_drop_sec = b.zero_drop_sec /\ d.dsoc = v
  <2> DEFINE d == [b EXCEPT !.dsoc = v]
  <2>1. \A f \in Numbers : d[f] \in Int
    BY <1>1 DEF Gauge, Numeric
  <2>2. SaidOf(b, d) /\ d.zero_drop_sec = b.zero_drop_sec /\ d.dsoc = v
    BY DEF Gauge, Numeric, Numbers, SaidOf
  <2> HIDE DEF d
  <2>3. QED
    BY <2>1, <2>2, StillGauge DEF d
<1>2. b.dsoc \in Int /\ b.smooth_soc \in Int
  BY NumbersAre DEF Gauge
<1>3. SaidOf(b, b)
  BY DEF SaidOf
<1> DEFINE low == AtLeast(0, IF b.smooth_soc + 1000 > b.dsoc THEN b.smooth_soc ELSE b.dsoc - 1000)
<1>4. ~(b.smooth_soc > b.dsoc) =>
        low \in Int /\ low >= b.dsoc - 1000 /\ low <= AtLeast(0, b.dsoc)
  BY <1>2 DEF AtLeast
<1>5. calc_smooth_dischrg(b) = IF Pct(b.smooth_soc) = Pct(b.dsoc) \/ b.smooth_soc > b.dsoc THEN b
                               ELSE [b EXCEPT !.dsoc = low]
  BY DEF calc_smooth_dischrg
<1>6. b.dsoc >= b.dsoc - 1000 /\ b.dsoc <= AtLeast(0, b.dsoc)
  BY <1>2 DEF AtLeast
<1>7. calc_smooth_chrg(b) = IF Pct(b.smooth_soc) = Pct(b.dsoc) THEN b
                            ELSE [b EXCEPT !.dsoc = b.smooth_soc]
  BY DEF calc_smooth_chrg
<1>8. LET d == calc_smooth_chrg(b)
      IN  /\ Gauge(d) /\ SaidOf(b, d) /\ d.zero_drop_sec = b.zero_drop_sec
          /\ d.dsoc = b.dsoc \/ (d.dsoc = b.smooth_soc /\ Pct(b.smooth_soc) # Pct(b.dsoc))
  BY <1>1, <1>2, <1>3, <1>7
<1> HIDE DEF low
<1>9. LET d == calc_smooth_dischrg(b)
      IN  /\ Gauge(d) /\ SaidOf(b, d) /\ d.zero_drop_sec = b.zero_drop_sec
          /\ d.dsoc >= b.dsoc - 1000 /\ d.dsoc <= AtLeast(0, b.dsoc)
  BY <1>1, <1>3, <1>4, <1>5, <1>6
<1>10. QED
  BY <1>8, <1>9

\* d has lost a percent at most, and has not gained while current flowed out.
FollowsSlowly(b, d, r) ==
  /\ d.dsoc >= b.dsoc - 1000
  /\ r.current < 0 => d.dsoc <= AtLeast(0, b.dsoc)

\* The smooth algorithm takes a percent at most, and adds none while current flows out: the
\* slope has the sign of the current.
LEMMA GaugeSmooth ==
  ASSUME NEW b, Gauge(b), NEW r, Reading(r)
  PROVE  LET d == smooth_algorithm(b, r)
         IN  /\ Gauge(d) /\ SaidOf(b, d) /\ d.zero_drop_sec = b.zero_drop_sec
             /\ FollowsSlowly(b, d, r)
<1> DEFINE switched == IF b.sm_linek * r.current <= 0 THEN calc_sm_linek(b, r) ELSE b
           read == [switched EXCEPT !.remain_cap = capacity_uah(b)]
           far == Abs(read.remain_cap - read.sm_remain_cap) \div 10
           full == DIV(b.fcc)
           ydsoc == Quot(read.sm_linek * far, full)
           soc == AtLeast(0, read.smooth_soc + ydsoc)
           moved == [read EXCEPT !.sm_remain_cap = read.remain_cap, !.smooth_soc = soc]
           out == calc_smooth_dischrg(moved)
           in == calc_smooth_chrg(moved)
           done == IF ydsoc < 0 THEN out ELSE in
           behind == Pct(moved.smooth_soc) # Pct(b.dsoc) /\ moved.smooth_soc < b.dsoc
           turned == [done EXCEPT !.s2r = FALSE]
<1>1. /\ Gauge(switched) /\ Steady(b, switched)
      /\ r.current < 0 => switched.sm_linek < 0
  <2>1. Steady(b, b) /\ b.sm_linek \in Int /\ r.current \in Int
    BY NumbersAre DEF Steady, SaidOf, Gauge, Reading
  <2>2. ~(b.sm_linek * r.current <= 0) /\ r.current < 0 => b.sm_linek < 0
    BY <2>1
  <2>3. QED
    BY <2>1, <2>2, GaugeLinek
<1> HIDE DEF switched
<1>2. /\ Gauge(read) /\ Steady(b, read)
      /\ r.current < 0 => read.sm_linek < 0
  <2>1. \A f \in Numbers : read[f] \in Int
    BY <1>1, CounterNumber DEF Gauge, Numeric
  <2>2. Steady(switched, read) /\ read.sm_linek = switched.sm_linek
    BY <1>1 DEF Gauge, Numeric, Numbers, Steady, SaidOf
  <2> HIDE DEF read
  <2>3. QED
    BY <1>1, <2>1, <2>2, StillGauge DEF Steady, SaidOf
<1> HIDE DEF read
<1>3. ydsoc \in Int /\ (r.current < 0 => ydsoc <= 0) /\ full \in Nat \ {0}
  <2>1. far \in Nat /\ read.sm_linek \in Int /\ full \in Nat \ {0}
    <3>1. read.remain_cap \in Int /\ read.sm_remain_cap \in Int /\ b.fcc \in Int
      BY <1>2, NumbersAre DEF Gauge
    <3>2. Abs(read.remain_cap - read.sm_remain_cap) \in Nat
      BY <3>1 DEF Abs
    <3>3. QED
      BY <1>2, <3>1, <3>2, NumbersAre, DivNumber DEF Gauge, DIV
  <2> HIDE DEF far, full
  <2> DEFINE a == read.sm_linek * far
  <2>2. a \in Int /\ (r.current < 0 => a <= 0)
    BY <1>2, <2>1
  <2> HIDE DEF a
  <2>3. Quot(a, full) \in Int /\ (r.current < 0 => Quot(a, full) <= 0)
    BY <2>1, <2>2, QuotNumber
  <2>4. QED
    BY <2>1, <2>3 DEF a
<1> HIDE DEF ydsoc, full
<1>4. soc \in Int
  <2>1. read.smooth_soc + ydsoc \in Int
    BY <1>2, <1>3, NumbersAre DEF Gauge
  <2>2. QED
    BY <2>1 DEF AtLeast
<1> HIDE DEF soc
<1>5. Gauge(moved) /\ Steady(b, moved) /\ moved.smooth_soc = soc
  <2>1. \A f \in Numbers : moved[f] \in Int
    BY <1>2, <1>4, NumbersAre DEF Gauge, Numeric
  <2>2. Steady(read, moved) /\ moved.smooth_soc = soc
    BY <1>2 DEF Gauge, Numeric, Numbers, Steady, SaidOf
  <2> HIDE DEF moved
  <2>3. QED
    BY <1>2, <2>1, <2>2, StillGauge DEF Steady, SaidOf
<1> HIDE DEF moved
<1>6. b.dsoc \in Int /\ moved.dsoc = b.dsoc
  BY <1>5, NumbersAre DEF Gauge, Steady
<1>7. /\ Gauge(done) /\ SaidOf(b, done) /\ done.zero_drop_sec = b.zero_drop_sec
      /\ ~(ydsoc > 0 /\ behind) /\ ydsoc # 0 => FollowsSlowly(b, done, r)
  <2>0. /\ Gauge(out) /\ SaidOf(moved, out) /\ out.zero_drop_sec = moved.zero_drop_sec
        /\ out.dsoc >= moved.dsoc - 1000 /\ out.dsoc <= AtLeast(0, moved.dsoc)
        /\ Gauge(in) /\ SaidOf(moved, in) /\ in.zero_drop_sec = moved.zero_drop_sec
        /\ in.dsoc = moved.dsoc
           \/ (in.dsoc = moved.smooth_soc /\ Pct(moved.smooth_soc) # Pct(moved.dsoc))
    <3>1. /\ Gauge(out) /\ SaidOf(moved, out) /\ out.zero_drop_sec = moved.zero_drop_sec
          /\ out.dsoc >= moved.dsoc - 1000 /\ out.dsoc <= AtLeast(0, moved.dsoc)
      BY <1>5, GaugeCalcSmooth
    <3>2. Gauge(in)
      BY <1>5, GaugeCalcSmooth
    <3>3. SaidOf(moved, in) /\ in.zero_drop_sec = moved.zero_drop_sec
      BY <1>5, GaugeCalcSmooth
    <3>4. in.dsoc = moved.dsoc
           \/ (in.dsoc = moved.smooth_soc /\ Pct(moved.smooth_soc) # Pct(moved.dsoc))
      BY <1>5, GaugeCalcSmooth
    <3>5. QED
      BY <3>1, <3>2, <3>3, <3>4
  <2> HIDE DEF out, in
  <2>1. Gauge(done) /\ SaidOf(moved, done) /\ done.zero_drop_sec = moved.zero_drop_sec
    BY <2>0
  <2>2. CASE ydsoc < 0
    BY <1>5, <1>6, <2>0, <2>1, <2>2 DEF Steady, SaidOf, FollowsSlowly
  <2>3. CASE ~(ydsoc < 0)
    <3>1. done.dsoc = moved.dsoc
          \/ (done.dsoc = moved.smooth_soc /\ Pct(moved.smooth_soc) # Pct(moved.dsoc))
      BY <2>0, <2>3
    <3>2. ydsoc # 0 => ydsoc > 0 /\ ~(r.current < 0)
      BY <1>3, <2>3
    <3>3. done.dsoc >= b.dsoc \/ behind
      BY <1>5, <1>4, <1>6, <3>1
    <3> HIDE DEF done, behind
    <3>4. done.dsoc \in Int
      BY <2>1, NumbersAre DEF Gauge
    <3>5. QED
      BY <1>5, <1>6, <2>1, <3>2, <3>3, <3>4 DEF Steady, SaidOf, FollowsSlowly
  <2>4. QED
    BY <2>2, <2>3
<1> HIDE DEF done
<1>8. Gauge(turned) /\ SaidOf(done, turned) /\ turned.zero_drop_sec = done.zero_drop_sec
      /\ turned.dsoc = done.dsoc
  <2>1. \A f \in Numbers : turned[f] \in Int
    BY <1>7 DEF Gauge, Numeric, Numbers
  <2>2. SaidOf(done, turned) /\ turned.zero_drop_sec = done.zero_drop_sec
        /\ turned.dsoc = done.dsoc
    BY <1>7 DEF Gauge, Numeric, Numbers, SaidOf
  <2> HIDE DEF turned
  <2>3. QED
    BY <1>7, <2>1, <2>2, StillGauge
<1> HIDE DEF turned
<1>9. smooth_algorithm(b, r) = IF ydsoc = 0 THEN read
                               ELSE IF ydsoc > 0 /\ behind THEN moved
                               ELSE IF done.s2r THEN calc_sm_linek(turned, r)
                               ELSE done
  BY Zenon DEF smooth_algorithm, switched, read, ydsoc, full, soc, moved, out, in, done, behind, turned
<1>10. LET d == calc_sm_linek(turned, r) IN Gauge(d) /\ Steady(turned, d)
  BY <1>8, GaugeLinek
<1>11. ASSUME NEW d, d.dsoc = b.dsoc PROVE FollowsSlowly(b, d, r)
  BY <1>6, <1>11 DEF FollowsSlowly, AtLeast
<1> HIDE DEF behind
<1>12. QED
  BY <1>2, <1>5, <1>7, <1>8, <1>9, <1>10, <1>11 DEF Steady, SaidOf, FollowsSlowly

------------------------------------------------------------------------------
(* The zero algorithm's numbers *)

\* The voltage to switch off at, the usable percent under this load, and the slope.
LEMMA PwroffNumber ==
  ASSUME NEW b, Gauge(b), NEW r, Reading(r)
  PROVE  pwroff_vol(b, r) \in Int /\ pwroff_vol(b, r) <= Pdata.pwroff_vol + 50
  BY PdataAssumption DEF PdataAssumption, pwroff_vol

LEMMA UsableNumber ==
  ASSUME NEW b, Gauge(b), NEW r, Reading(r)
  PROVE  batocv(r) \in Int /\ usable_soc(b, r) \in Int
<1>1. r.current \in Int /\ r.voltage \in Int /\ Pdata.bat_res \in Int
  BY PdataAssumption DEF PdataAssumption, Reading
<1>2. Quot(r.current * Pdata.bat_res, 1000) \in Int
      /\ Quot(r.current * (Pdata.bat_res + 50), 1000) \in Int
  <2>1. r.current * Pdata.bat_res \in Int /\ r.current * (Pdata.bat_res + 50) \in Int
    BY <1>1
  <2>2. QED
    BY <2>1, QuotNumber
<1>3. batocv(r) \in Int
  BY <1>1, <1>2 DEF batocv
<1> DEFINE dead == pwroff_vol(b, r) - Quot(r.current * (Pdata.bat_res + 50), 1000)
<1>4. dead \in Int
  BY <1>2, PwroffNumber
<1>5. usable_soc(b, r) = vol_to_soc(batocv(r)) - vol_to_soc(dead)
  BY DEF usable_soc
<1> HIDE DEF dead
<1>6. QED
  BY <1>3, <1>4, <1>5, VolNumber

LEMMA SlopeNumber ==
  ASSUME NEW b, Gauge(b), NEW r, Reading(r), NEW xsoc \in Int
  PROVE  zero_linek(b, r, xsoc) \in Int
<1> DEFINE k == Quot(b.zero_dsoc + xsoc \div 2, DIV(xsoc))
<1>1. k \in Int
  <2>1. b.zero_dsoc + xsoc \div 2 \in Int /\ DIV(xsoc) \in Int /\ DIV(xsoc) # 0
    BY NumbersAre, DivNotZero DEF Gauge
  <2>2. QED
    BY <2>1, QuotNumber
<1>2. zero_linek(b, r, xsoc) \in {400, 1000, 300, 1200, 600, 800, 1800, 900, k}
  BY DEF zero_linek
<1> HIDE DEF k
<1>3. QED
  BY <1>1, <1>2

\* The voltage is not extremely low.
Enough(r) == r.voltage >= Pdata.pwroff_vol - 20

\* d has not gained, and lost a percent at most, when its time had come; it takes 15 s
\* until the next one goes.
DropsOne(b, d) ==
  /\ d.dsoc <= AtLeast(0, b.dsoc) /\ d.dsoc >= b.dsoc - 1000
  /\ b.zero_drop_sec < 15 => d.dsoc = b.dsoc
  /\ d.zero_drop_sec < 15

DropsSlowly(b, d, r) == /\ d.dsoc <= AtLeast(0, b.dsoc)
                        /\ Enough(r) => DropsOne(b, d)

\* A percent goes when its 15 s are over.
LEMMA GaugeDropOne ==
  ASSUME NEW b, Gauge(b), NEW xsoc \in Int
  PROVE  LET d == drop_one(b, xsoc)
         IN  Gauge(d) /\ SaidOf(b, d) /\ DropsOne(b, d)
<1> DEFINE sec == IF xsoc >= 0 THEN Unset ELSE AtLeast(b.zero_drop_sec, 0)
           dsoc == AtLeast(b.dsoc - 1000, 0)
           gone == [b EXCEPT !.zero_drop_sec = Unset, !.dsoc = dsoc, !.zero_dsoc = dsoc]
           waits == [b EXCEPT !.zero_drop_sec = sec]
<1>1. b.dsoc \in Int /\ b.zero_drop_sec \in Int
  BY NumbersAre DEF Gauge
<1>2. /\ sec \in Int /\ dsoc \in Int /\ Unset \in Int /\ Unset < 15
      /\ b.zero_drop_sec < 15 => sec < 15
      /\ dsoc <= AtLeast(0, b.dsoc) /\ dsoc >= b.dsoc - 1000 /\ b.dsoc <= AtLeast(0, b.dsoc)
  BY <1>1 DEF AtLeast, Unset
<1>3. drop_one(b, xsoc) = IF sec >= 15 THEN gone ELSE waits
  BY Zenon DEF drop_one
<1> HIDE DEF sec, dsoc
<1>4. /\ \A f \in Numbers : gone[f] \in Int /\ waits[f] \in Int
      /\ SaidOf(b, gone) /\ gone.dsoc = dsoc /\ gone.zero_drop_sec = Unset
      /\ SaidOf(b, waits) /\ waits.dsoc = b.dsoc /\ waits.zero_drop_sec = sec
  <2>1. \A f \in Numbers : gone[f] \in Int /\ waits[f] \in Int
    BY <1>2 DEF Gauge, Numeric
  <2>2. SaidOf(b, gone) /\ gone.dsoc = dsoc /\ gone.zero_drop_sec = Unset
    BY DEF Gauge, Numeric, Numbers, SaidOf
  <2>3. SaidOf(b, waits) /\ waits.dsoc = b.dsoc /\ waits.zero_drop_sec = sec
    BY DEF Gauge, Numeric, Numbers, SaidOf
  <2>4. QED
    BY <2>1, <2>2, <2>3
<1> HIDE DEF gone, waits
<1>5. Gauge(gone) /\ Gauge(waits)
  BY <1>4, StillGauge
<1>6. CASE sec >= 15
  <2>1. drop_one(b, xsoc) = gone
    BY <1>3, <1>6
  <2>2. QED
    BY <1>1, <1>2, <1>4, <1>5, <1>6, <2>1 DEF DropsOne
<1>7. CASE ~(sec >= 15)
  <2>1. drop_one(b, xsoc) = waits
    BY <1>3, <1>7
  <2>2. QED
    BY <1>1, <1>2, <1>4, <1>5, <1>7, <2>1 DEF DropsOne
<1>8. QED
  BY <1>6, <1>7

\* All of it goes, but at an extremely low voltage only.
LEMMA GaugeDropAll ==
  ASSUME NEW b, Gauge(b), NEW low \in BOOLEAN
  PROVE  LET d == drop_all(b, low)
         IN  /\ Gauge(d) /\ SaidOf(b, d) /\ d.zero_drop_sec = b.zero_drop_sec
             /\ d.dsoc = b.dsoc \/ (low /\ d.dsoc = 0)
<1> DEFINE sec == IF low THEN AtLeast(b.shtd_drop_sec, 0) ELSE Unset
           gone == [b EXCEPT !.shtd_drop_sec = Unset, !.dsoc = 0]
           waits == [b EXCEPT !.shtd_drop_sec = sec]
<1>1. b.shtd_drop_sec \in Int
  BY NumbersAre DEF Gauge
<1>2. sec \in Int /\ Unset \in Int /\ (~low => ~(sec > 30))
  BY <1>1 DEF AtLeast, Unset
<1>3. drop_all(b, low) = IF sec > 30 THEN gone ELSE waits
  BY Zenon DEF drop_all
<1> HIDE DEF sec
<1>4. /\ \A f \in Numbers : gone[f] \in Int
      /\ \A f \in Numbers : waits[f] \in Int
  <2>1. \A f \in Numbers : gone[f] \in {b[f], Unset, 0} /\ b[f] \in Int
    BY DEF Gauge, Numeric
  <2>2. \A f \in Numbers : waits[f] \in Int
    BY <1>2 DEF Gauge, Numeric
  <2> HIDE DEF gone, waits
  <2>3. QED
    BY <1>2, <2>1, <2>2
<1>5. SaidOf(b, gone) /\ gone.dsoc = 0 /\ gone.zero_drop_sec = b.zero_drop_sec
  BY DEF Gauge, Numeric, Numbers, SaidOf
<1>6. SaidOf(b, waits) /\ waits.dsoc = b.dsoc /\ waits.zero_drop_sec = b.zero_drop_sec
  BY DEF Gauge, Numeric, Numbers, SaidOf
<1> HIDE DEF gone, waits
<1>7. Gauge(gone) /\ Gauge(waits)
  BY <1>4, <1>5, <1>6, StillGauge
<1>8. QED
  BY <1>2, <1>3, <1>5, <1>6, <1>7

\* Both together, after any slope.
LEMMA GaugeZeroLinek ==
  ASSUME NEW b, Gauge(b), NEW r, Reading(r)
  PROVE  LET d == calc_zero_linek(b, r)
         IN  Gauge(d) /\ SaidOf(b, d) /\ DropsSlowly(b, d, r)
<1> DEFINE xsoc == usable_soc(b, r)
           line == zero_linek(b, r, xsoc)
           cap == vol_to_cap(b, batocv(r))
           c == [b EXCEPT !.zero_linek = line, !.zero_remain_cap = b.remain_cap,
                          !.zero_timeout_cnt = 0, !.zero_batocv_to_cap = cap]
           one == drop_one(c, xsoc)
           low == r.voltage < pwroff_vol(b, r) - 70
<1>1. xsoc \in Int /\ line \in Int /\ cap \in Int /\ b.remain_cap \in Int
  <2>1. xsoc \in Int /\ b.fcc \in Int /\ b.remain_cap \in Int /\ batocv(r) \in Int
    BY UsableNumber, NumbersAre DEF Gauge
  <2> HIDE DEF xsoc
  <2>2. QED
    BY <2>1, SlopeNumber, VolNumber
<1>2. calc_zero_linek(b, r) = drop_all(one, low)
  BY Zenon DEF calc_zero_linek
<1>3. low \in BOOLEAN /\ (Enough(r) => ~low)
  BY PwroffNumber, PdataAssumption DEF Enough, Reading, PdataAssumption
<1> HIDE DEF xsoc, line, cap, low
<1>4. Gauge(c) /\ SaidOf(b, c) /\ c.dsoc = b.dsoc /\ c.zero_drop_sec = b.zero_drop_sec
  <2>1. \A f \in Numbers : c[f] \in Int
    <3>1. ASSUME NEW f \in Numbers PROVE c[f] \in {b[f], line, b.remain_cap, 0, cap}
      BY DEF Gauge, Numeric
    <3>2. \A f \in Numbers : b[f] \in Int
      BY DEF Gauge, Numeric
    <3> HIDE DEF c
    <3>3. QED
      BY <1>1, <3>1, <3>2
  <2>2. SaidOf(b, c) /\ c.dsoc = b.dsoc /\ c.zero_drop_sec = b.zero_drop_sec
    BY DEF Gauge, Numeric, Numbers, SaidOf
  <2> HIDE DEF c
  <2>3. QED
    BY <2>1, <2>2, StillGauge
<1> HIDE DEF c
<1>5. Gauge(one) /\ SaidOf(b, one) /\ DropsOne(b, one)
  <2>1. Gauge(one) /\ SaidOf(c, one) /\ DropsOne(c, one)
    BY <1>1, <1>4, GaugeDropOne
  <2> HIDE DEF one
  <2>2. QED
    BY <1>4, <2>1 DEF SaidOf, DropsOne
<1> HIDE DEF one
<1> DEFINE d == drop_all(one, low)
<1>6. /\ Gauge(d) /\ SaidOf(one, d) /\ d.zero_drop_sec = one.zero_drop_sec
      /\ d.dsoc = one.dsoc \/ (low /\ d.dsoc = 0)
  BY <1>3, <1>5, GaugeDropAll
<1> HIDE DEF d
<1>7. 0 <= AtLeast(0, b.dsoc)
  BY NumbersAre DEF AtLeast, Gauge
<1>8. QED
  BY <1>2, <1>3, <1>5, <1>6, <1>7 DEF d, SaidOf, DropsSlowly, DropsOne

\* To restart the zero algorithm may take the percent whose time has come.
LEMMA GaugeZeroPrepare ==
  ASSUME NEW b, Gauge(b), NEW r, Reading(r)
  PROVE  LET d == zero_algo_prepare(b, r)
         IN  Gauge(d) /\ SaidOf(b, d) /\ DropsSlowly(b, d, r)
<1> DEFINE c == [b EXCEPT !.zero_dsoc = b.smooth_soc]
           d == IF Pct(b.zero_dsoc) = Pct(b.smooth_soc) THEN b ELSE c
<1>1. Gauge(c) /\ Steady(b, c)
  <2>1. \A f \in Numbers : c[f] \in {b[f], b.smooth_soc} /\ b[f] \in Int
    BY DEF Gauge, Numeric
  <2>2. Steady(b, c)
    BY DEF Gauge, Numeric, Numbers, Steady, SaidOf
  <2>3. b.smooth_soc \in Int
    BY NumbersAre DEF Gauge
  <2> HIDE DEF c
  <2>4. QED
    BY <2>1, <2>2, <2>3, StillGauge DEF Steady
<1> HIDE DEF c
<1>2. Gauge(d) /\ Steady(b, d)
  BY <1>1 DEF Steady, SaidOf
<1>3. zero_algo_prepare(b, r) = calc_zero_linek(d, r)
  BY Zenon DEF zero_algo_prepare, c
<1> HIDE DEF d
<1> DEFINE e == calc_zero_linek(d, r)
<1>4. Gauge(e) /\ SaidOf(d, e) /\ DropsSlowly(d, e, r)
  BY <1>2, GaugeZeroLinek
<1> HIDE DEF e
<1>5. QED
  BY <1>2, <1>3, <1>4 DEF e, Steady, SaidOf, DropsSlowly, DropsOne

\* The zero algorithm takes a percent at most.
LEMMA GaugeCalcZero ==
  ASSUME NEW b, Gauge(b)
  PROVE  LET d == calc_zero_algorithm(b)
         IN  /\ Gauge(d) /\ SaidOf(b, d) /\ d.zero_drop_sec = b.zero_drop_sec
             /\ d.dsoc <= b.dsoc /\ d.dsoc >= b.dsoc - 1000
<1> DEFINE soc == AtLeast(b.dsoc - 1000, b.zero_dsoc)
           d == [b EXCEPT !.dsoc = soc]
<1>1. b.dsoc \in Int /\ b.zero_dsoc \in Int
  BY NumbersAre DEF Gauge
<1>2. soc \in Int /\ soc >= b.dsoc - 1000 /\ (~(b.zero_dsoc > b.dsoc) => soc <= b.dsoc)
  BY <1>1 DEF AtLeast
<1>3. calc_zero_algorithm(b) =
        IF Pct(b.zero_dsoc) = Pct(b.dsoc) \/ b.zero_dsoc > b.dsoc THEN b ELSE d
  BY Zenon DEF calc_zero_algorithm
<1> HIDE DEF soc
<1>4. \A f \in Numbers : d[f] \in Int
  BY <1>2 DEF Gauge, Numeric
<1>5. SaidOf(b, d) /\ d.zero_drop_sec = b.zero_drop_sec /\ d.dsoc = soc
  BY DEF Gauge, Numeric, Numbers, SaidOf
<1> HIDE DEF d
<1>6. Gauge(d)
  BY <1>4, <1>5, StillGauge
<1>7. CASE Pct(b.zero_dsoc) = Pct(b.dsoc) \/ b.zero_dsoc > b.dsoc
  <2>1. calc_zero_algorithm(b) = b
    BY <1>3, <1>7
  <2>2. QED
    BY <1>1, <2>1 DEF SaidOf
<1>8. CASE ~(Pct(b.zero_dsoc) = Pct(b.dsoc) \/ b.zero_dsoc > b.dsoc)
  <2>1. calc_zero_algorithm(b) = d
    BY <1>3, <1>8
  <2>2. QED
    BY <1>1, <1>2, <1>5, <1>6, <1>8, <2>1
<1>9. QED
  BY <1>7, <1>8

\* d has not gained, and lost two percents at most.
FallsByTwo(b, d, r) == /\ d.dsoc <= AtLeast(0, b.dsoc)
                       /\ Enough(r) => d.dsoc >= b.dsoc - 2000

\* It may calibrate after that, and then drops none a second time: the time has just begun.
LEMMA GaugeZero ==
  ASSUME NEW b, Gauge(b), NEW r, Reading(r)
  PROVE  LET d == zero_algorithm(b, r)
         IN  Gauge(d) /\ SaidOf(b, d) /\ FallsByTwo(b, d, r)
<1> DEFINE used == b.zero_linek * (b.zero_remain_cap - b.remain_cap)
           full == DIV(b.fcc)
           delta == Quot(Quot(used, full), 10)
           due == delta >= 10 \/ b.zero_timeout_cnt + 1 > 100 \/ b.zero_linek = 0
           soc == b.zero_dsoc - delta
           n == b.zero_timeout_cnt + 1
           c == [b EXCEPT !.zero_dsoc = soc]
           paced == calc_zero_algorithm(c)
           calc == calc_zero_linek(paced, r)
           waits == [b EXCEPT !.zero_timeout_cnt = n]
           one == IF due THEN calc ELSE waits
           reset == init_coulomb_cap(one, one.zero_batocv_to_cap)
           again == calc_zero_linek(reset, r)
<1>1. soc \in Int /\ n \in Int /\ b.dsoc \in Int /\ b.zero_drop_sec \in Int
  <2>1. /\ b.zero_linek \in Int /\ b.zero_remain_cap \in Int /\ b.remain_cap \in Int
        /\ b.zero_timeout_cnt \in Int /\ b.zero_dsoc \in Int /\ b.fcc \in Int
        /\ b.dsoc \in Int /\ b.zero_drop_sec \in Int
    BY NumbersAre DEF Gauge
  <2>2. used \in Int /\ full \in Int /\ full # 0
    BY <2>1, DivNotZero
  <2> HIDE DEF used, full
  <2>3. Quot(used, full) \in Int
    BY <2>2, QuotNumber
  <2>4. delta \in Int
    BY <2>3, QuotNumber
  <2> HIDE DEF delta
  <2>5. QED
    BY <2>1, <2>4
<1>2. zero_algorithm(b, r) = IF one.rsoc < 1000 /\ one.zero_batocv_to_cap > one.fcc \div 100
                             THEN again ELSE one
  BY Zenon DEF zero_algorithm
<1> HIDE DEF soc, n, due
<1>3. Gauge(c) /\ Steady(b, c)
  <2>1. \A f \in Numbers : c[f] \in {b[f], soc} /\ b[f] \in Int
    BY DEF Gauge, Numeric
  <2>2. Steady(b, c)
    BY DEF Gauge, Numeric, Numbers, Steady, SaidOf
  <2> HIDE DEF c
  <2>3. QED
    BY <1>1, <2>1, <2>2, StillGauge DEF Steady
<1>4. Gauge(waits) /\ Steady(b, waits)
  <2>1. \A f \in Numbers : waits[f] \in {b[f], n} /\ b[f] \in Int
    BY DEF Gauge, Numeric
  <2>2. Steady(b, waits)
    BY DEF Gauge, Numeric, Numbers, Steady, SaidOf
  <2> HIDE DEF waits
  <2>3. QED
    BY <1>1, <2>1, <2>2, StillGauge DEF Steady
<1> HIDE DEF c, waits
<1>5. /\ Gauge(paced) /\ SaidOf(c, paced) /\ paced.zero_drop_sec = c.zero_drop_sec
      /\ paced.dsoc <= c.dsoc /\ paced.dsoc >= c.dsoc - 1000 /\ paced.dsoc \in Int
  <2>1. Gauge(paced) /\ SaidOf(c, paced) /\ paced.zero_drop_sec = c.zero_drop_sec
    BY <1>3, GaugeCalcZero
  <2>2. paced.dsoc <= c.dsoc /\ paced.dsoc >= c.dsoc - 1000
    BY <1>3, GaugeCalcZero
  <2> HIDE DEF paced
  <2>3. QED
    BY <2>1, <2>2, NumbersAre DEF Gauge
<1> HIDE DEF paced
<1>6. Gauge(calc) /\ SaidOf(paced, calc) /\ DropsSlowly(paced, calc, r)
  BY <1>5, GaugeZeroLinek
<1> HIDE DEF calc
<1>7. /\ Gauge(one) /\ SaidOf(b, one) /\ FallsByTwo(b, one, r)
      /\ Enough(r) => one.zero_drop_sec < 15 \/ one.dsoc = b.dsoc
      /\ one.dsoc \in Int
  <2>1. CASE due
    <3>1. one = calc
      BY <2>1
    <3> HIDE DEF one
    <3>2. SaidOf(b, one)
      BY <1>3, <1>5, <1>6, <3>1 DEF Steady, SaidOf
    <3>3. c.dsoc = b.dsoc /\ calc.dsoc \in Int
      BY <1>3, <1>6, NumbersAre DEF Gauge, Steady
    <3>4. calc.dsoc <= AtLeast(0, paced.dsoc) /\ AtLeast(0, paced.dsoc) <= AtLeast(0, b.dsoc)
      BY <1>1, <1>5, <1>6, <3>3 DEF DropsSlowly, AtLeast
    <3>5. FallsByTwo(b, one, r)
      <4>1. AtLeast(0, paced.dsoc) \in Int /\ AtLeast(0, b.dsoc) \in Int
        BY <1>1, <1>5 DEF AtLeast
      <4>2. QED
        BY <1>1, <1>5, <1>6, <3>1, <3>3, <3>4, <4>1 DEF FallsByTwo, DropsSlowly, DropsOne
    <3>6. QED
      BY <1>6, <3>1, <3>2, <3>3, <3>5 DEF DropsSlowly, DropsOne
  <2>2. CASE ~due
    <3>1. one = waits
      BY <2>2
    <3> HIDE DEF one
    <3>2. QED
      BY <1>1, <1>4, <3>1 DEF Steady, SaidOf, FallsByTwo, AtLeast
  <2>3. QED
    BY <2>1, <2>2
<1> HIDE DEF one
<1>8. Gauge(reset) /\ Steady(one, reset)
  <2>1. one.zero_batocv_to_cap \in Int
    BY <1>7, NumbersAre DEF Gauge
  <2> DEFINE cap == one.zero_batocv_to_cap
             d == init_coulomb_cap(one, cap)
  <2>2. cap \in Int
    BY <2>1
  <2> HIDE DEF cap
  <2>3. Gauge(d)
    BY <1>7, <2>2, GaugeInit
  <2>4. Steady(one, d)
    BY <1>7, <2>2, GaugeInit
  <2> HIDE DEF d
  <2>5. QED
    BY <2>3, <2>4 DEF cap, d
<1> HIDE DEF reset
<1>9. Gauge(again) /\ SaidOf(reset, again) /\ DropsSlowly(reset, again, r)
  BY <1>8, GaugeZeroLinek
<1> HIDE DEF again
<1>10. SaidOf(b, again) /\ FallsByTwo(b, again, r)
  <2>1. SaidOf(b, again)
    BY <1>7, <1>8, <1>9 DEF Steady, SaidOf
  <2>2. reset.dsoc = one.dsoc /\ reset.zero_drop_sec = one.zero_drop_sec /\ again.dsoc \in Int
    BY <1>8, <1>9, NumbersAre DEF Steady, Gauge
  <2>3. again.dsoc <= AtLeast(0, b.dsoc)
    BY <1>1, <1>7, <1>9, <2>2 DEF FallsByTwo, DropsSlowly, AtLeast
  <2>4. Enough(r) => again.dsoc >= b.dsoc - 2000
    BY <1>1, <1>7, <1>9, <2>2 DEF FallsByTwo, DropsSlowly, DropsOne
  <2>5. QED
    BY <2>1, <2>3, <2>4 DEF FallsByTwo
<1>11. QED
  BY <1>2, <1>7, <1>9, <1>10

------------------------------------------------------------------------------
(* Charging finished, and the choice of the mode *)

\* Percents are added for the time since charging finished.
LEMMA GaugeFinishPercents ==
  ASSUME NEW b, Gauge(b)
  PROVE  LET d == finish_percents(b) IN Gauge(d) /\ d.dsoc >= b.dsoc
<1> DEFINE current == IF b.rsoc - b.dsoc > 20 THEN 1500 ELSE 1000
           charge == (b.fcc * 3600) \div 100
           socSec == charge \div current
           percents == b.finish_sec \div DIV(socSec)
           soc == b.dsoc + percents * 1000
           rest == b.finish_sec % socSec
           d == [b EXCEPT !.dsoc = soc, !.finish_sec = rest]
<1>1. b.dsoc \in Int /\ b.finish_sec \in Int /\ b.fcc \in Int /\ b.finish_sec >= 0 /\ b.fcc >= 42
  BY NumbersAre DEF Gauge, Numeric
<1>2. socSec \in Nat \ {0}
  <2>1. charge \in Nat /\ charge >= 1500
    BY <1>1
  <2>2. current \in Nat \ {0} /\ current <= 1500
    OBVIOUS
  <2> HIDE DEF charge, current
  <2>3. QED
    BY <2>1, <2>2, OneAtLeast
<1>3. finish_percents(b) = IF b.finish_sec > socSec THEN d ELSE b
  BY Zenon DEF finish_percents
<1> HIDE DEF socSec
<1>4. percents \in Int /\ percents >= 0 /\ rest \in Int /\ rest >= 0
  <2> DEFINE n == DIV(socSec)
  <2>1. n \in Nat \ {0}
    BY <1>2 DEF DIV
  <2> HIDE DEF n
  <2>2. b.finish_sec \div n \in Int /\ b.finish_sec \div n >= 0
    BY <1>1, <2>1, DivNumber
  <2>3. b.finish_sec % socSec \in 0..(socSec - 1)
    BY <1>1, <1>2
  <2>4. QED
    BY <1>2, <2>2, <2>3 DEF n
<1> HIDE DEF percents, rest
<1>5. soc \in Int /\ soc >= b.dsoc
  BY <1>1, <1>4
<1> HIDE DEF soc
<1>6. /\ \A f \in Numbers : d[f] \in {b[f], soc, rest} /\ b[f] \in Int
      /\ DOMAIN d = DOMAIN b /\ d.dsoc = soc /\ d.finish_sec = rest /\ d.fcc = b.fcc
      /\ d.sleep_dischrg_sec = b.sleep_dischrg_sec /\ d.asleep_sec = b.asleep_sec
      /\ d.work_mode = b.work_mode
  <2>1. \A f \in Numbers : d[f] \in {b[f], soc, rest} /\ b[f] \in Int
    BY DEF Gauge, Numeric
  <2>2. /\ DOMAIN d = DOMAIN b /\ d.dsoc = soc /\ d.finish_sec = rest /\ d.fcc = b.fcc
        /\ d.sleep_dischrg_sec = b.sleep_dischrg_sec /\ d.asleep_sec = b.asleep_sec
        /\ d.work_mode = b.work_mode
    BY DEF Gauge, Numeric, Numbers
  <2>3. QED
    BY <2>1, <2>2
<1> HIDE DEF d
<1>7. Gauge(d)
  <2>1. \A f \in Numbers : d[f] \in Int
    BY <1>4, <1>5, <1>6
  <2>2. QED
    BY <1>4, <1>6, <2>1 DEF Gauge, Numeric
<1>8. QED
  BY <1>1, <1>3, <1>5, <1>6, <1>7

\* A charge is displayed.
LEMMA GaugeDisplay ==
  ASSUME NEW b, Gauge(b), NEW s \in Int
  PROVE  LET d == [b EXCEPT !.dsoc = s] IN Gauge(d) /\ SaidOf(b, d) /\ d.dsoc = s
<1> DEFINE d == [b EXCEPT !.dsoc = s]
<1>1. \A f \in Numbers : d[f] \in {b[f], s} /\ b[f] \in Int
  BY DEF Gauge, Numeric
<1>2. SaidOf(b, d) /\ d.dsoc = s
  BY DEF Gauge, Numeric, Numbers, SaidOf
<1> HIDE DEF d
<1>3. QED
  BY <1>1, <1>2, StillGauge DEF d

\* And saved.
LEMMA GaugeSave ==
  ASSUME NEW b, Gauge(b)
  PROVE  LET d == save_dsoc(b) IN Gauge(d) /\ Steady(b, d)
<1> DEFINE d == [b EXCEPT !.soc_reg = b.dsoc]
<1>1. \A f \in Numbers : d[f] \in {b[f], b.dsoc} /\ b[f] \in Int
  BY DEF Gauge, Numeric
<1>2. Steady(b, d)
  BY DEF Gauge, Numeric, Numbers, Steady, SaidOf
<1>3. b.dsoc \in Int /\ d = save_dsoc(b)
  BY NumbersAre DEF Gauge, save_dsoc
<1> HIDE DEF d
<1>4. QED
  BY <1>1, <1>2, <1>3, StillGauge DEF Steady

\* The finish algorithm takes nothing.
LEMMA GaugeFinish ==
  ASSUME NEW b, Gauge(b), NEW r, Reading(r)
  PROVE  LET d == finish_algorithm(b, r) IN Gauge(d) /\ d.dsoc >= b.dsoc
<1> DEFINE reset == init_coulomb_cap(b, b.fcc)
           full == IF b.remain_cap # b.fcc /\ finished(b, r) THEN reset ELSE b
           raised == finish_percents(full)
           top == [raised EXCEPT !.dsoc = 100 * 1000]
           saved == save_dsoc(top)
<1>1. Gauge(reset) /\ Steady(b, reset)
  <2> DEFINE c == b.fcc
             d == init_coulomb_cap(b, c)
  <2>1. c \in Int
    BY NumbersAre DEF Gauge
  <2> HIDE DEF c
  <2>2. Gauge(d)
    BY <2>1, GaugeInit
  <2>3. Steady(b, d)
    BY <2>1, GaugeInit
  <2> HIDE DEF d
  <2>4. QED
    BY <2>2, <2>3 DEF c, d
<1>2. finish_algorithm(b, r) =
        IF full.dsoc >= 100 * 1000 THEN full
        ELSE IF Pct(raised.rsoc) = 100 /\ raised.dsoc < 100 * 1000 THEN saved
        ELSE raised
  BY Zenon DEF finish_algorithm
<1> HIDE DEF reset
<1>3. Gauge(full) /\ full.dsoc = b.dsoc
  BY <1>1 DEF Steady
<1> HIDE DEF full
<1>4. Gauge(raised) /\ raised.dsoc >= b.dsoc
  BY <1>3, GaugeFinishPercents
<1> HIDE DEF raised
<1>5. Gauge(top) /\ top.dsoc = 100 * 1000
  BY <1>4, GaugeDisplay
<1> HIDE DEF top
<1>6. Gauge(saved) /\ saved.dsoc = top.dsoc
  BY <1>5, GaugeSave DEF Steady
<1> HIDE DEF saved
<1>7. b.dsoc \in Int /\ raised.dsoc \in Int
  BY <1>4, NumbersAre DEF Gauge
<1>8. QED
  BY <1>2, <1>3, <1>4, <1>5, <1>6, <1>7

\* The mode is another one.
LEMMA GaugeMode ==
  ASSUME NEW b, Gauge(b), NEW m \in Work_modes
  PROVE  LET d == [b EXCEPT !.work_mode = m]
         IN  Gauge(d) /\ d.dsoc = b.dsoc /\ d.zero_drop_sec = b.zero_drop_sec
<1> DEFINE d == [b EXCEPT !.work_mode = m]
<1>1. \A f \in Numbers : d[f] \in Int
  BY DEF Gauge, Numeric, Numbers
<1>2. /\ DOMAIN d = DOMAIN b /\ d.dsoc = b.dsoc /\ d.zero_drop_sec = b.zero_drop_sec
      /\ d.finish_sec = b.finish_sec /\ d.fcc = b.fcc /\ d.work_mode = m
      /\ d.sleep_dischrg_sec = b.sleep_dischrg_sec /\ d.asleep_sec = b.asleep_sec
  BY DEF Gauge, Numeric, Numbers
<1> HIDE DEF d
<1>3. Gauge(d)
  BY <1>1, <1>2 DEF Gauge, Numeric
<1>4. QED
  BY <1>2, <1>3 DEF d

\* The changes of the mode: only the one to the zero algorithm may take a percent.
LEMMA GaugeToFinish ==
  ASSUME NEW b, Gauge(b)
  PROVE  LET d == to_finish(b)
         IN  Gauge(d) /\ d.dsoc = b.dsoc /\ DOMAIN d = DOMAIN b /\ d.soc_reg = b.soc_reg
<1> DEFINE d == [b EXCEPT !.work_mode = "FINISH", !.finish_sec = 0]
<1>1. \A f \in Numbers : d[f] \in {b[f], 0} /\ b[f] \in Int
  BY DEF Gauge, Numeric, Numbers
<1>2. /\ DOMAIN d = DOMAIN b /\ d.dsoc = b.dsoc /\ d.soc_reg = b.soc_reg
      /\ d.finish_sec = 0 /\ d.fcc = b.fcc /\ d.work_mode = "FINISH"
      /\ d.sleep_dischrg_sec = b.sleep_dischrg_sec /\ d.asleep_sec = b.asleep_sec
  BY DEF Gauge, Numeric, Numbers
<1>3. d = to_finish(b)
  BY DEF to_finish
<1> HIDE DEF d
<1>4. Gauge(d)
  BY <1>1, <1>2 DEF Gauge, Numeric, Work_modes
<1>5. QED
  BY <1>2, <1>3, <1>4

LEMMA GaugeToSmooth ==
  ASSUME NEW b, Gauge(b), NEW r, Reading(r)
  PROVE  LET d == to_smooth(b, r) IN Gauge(d) /\ d.dsoc = b.dsoc
<1> DEFINE c == smooth_algo_prepare(b, r)
<1>1. Gauge(c) /\ c.dsoc = b.dsoc
  BY GaugeSmoothPrepare DEF Steady
<1>2. to_smooth(b, r) = [c EXCEPT !.work_mode = "SMOOTH"]
  BY DEF to_smooth
<1> HIDE DEF c
<1>3. "SMOOTH" \in Work_modes
  BY DEF Work_modes
<1>4. QED
  BY <1>1, <1>2, <1>3, GaugeMode

LEMMA GaugeToZero ==
  ASSUME NEW b, Gauge(b), NEW r, Reading(r)
  PROVE  LET d == to_zero(b, r) IN Gauge(d) /\ DropsSlowly(b, d, r)
<1> DEFINE c == zero_algo_prepare(b, r)
           d == [c EXCEPT !.work_mode = "ZERO"]
<1>1. Gauge(c) /\ DropsSlowly(b, c, r)
  BY GaugeZeroPrepare
<1>2. to_zero(b, r) = d
  BY DEF to_zero
<1> HIDE DEF c
<1>3. "ZERO" \in Work_modes
  BY DEF Work_modes
<1>4. Gauge(d) /\ d.dsoc = c.dsoc /\ d.zero_drop_sec = c.zero_drop_sec
  BY <1>1, <1>3, GaugeMode
<1> HIDE DEF d
<1>5. QED
  BY <1>1, <1>2, <1>4 DEF DropsSlowly, DropsOne

\* What one run of the work may do to the charge: while current flows out it does not rise,
\* unless charging had just been finished, and it falls by two percents at most.
Follows(b, d, r) ==
  /\ Enough(r) => d.dsoc >= b.dsoc - 2000
  /\ r.current < 0 /\ b.work_mode # "FINISH" => d.dsoc <= AtLeast(0, b.dsoc)

\* The modes together, with every change from one to another.
LEMMA GaugeDisplaySmooth ==
  ASSUME NEW b, Gauge(b), NEW r, Reading(r)
  PROVE  LET d == display_smooth(b, r) IN Gauge(d) /\ Follows(b, d, r)
<1> DEFINE ends(d) == finished(d, r) \/ fake_finish_mode(d, r)
           empties == r.current < 0 /\ r.voltage < Pdata.zero_algorithm_vol
           f == finish_algorithm(b, r)
           z == zero_algorithm(b, r)
           s == smooth_algorithm(b, r)
           woken == [b EXCEPT !.s2r = FALSE]
           zero == zero_algo_prepare(woken, r)
           both == smooth_algo_prepare(zero, r)
           zf == to_zero(f, r)
           sf == to_smooth(f, r)
           sz == to_smooth(z, r)
           fz == to_finish(z)
           zs == to_zero(s, r)
           fs == to_finish(s)
           d == display_smooth(b, r)
<1>1. d = IF b.s2r /\ ~b.sleep_chrg_online THEN both
          ELSE IF b.work_mode = "FINISH"
          THEN IF ends(f) THEN f ELSE IF empties THEN zf ELSE sf
          ELSE IF b.work_mode = "ZERO"
          THEN IF r.voltage >= Pdata.zero_algorithm_vol + 50 \/ r.current >= 0
               THEN sz ELSE IF ends(z) THEN fz ELSE z
          ELSE IF empties THEN zs ELSE IF ends(s) THEN fs ELSE s
  BY Zenon DEF display_smooth
<1>2. b.dsoc \in Int
  BY NumbersAre DEF Gauge
<1>3. Gauge(both) /\ DropsSlowly(b, both, r) /\ both.dsoc \in Int
  <2>1. Gauge(woken) /\ Steady(b, woken)
    <3>1. \A n \in Numbers : woken[n] \in Int
      BY DEF Gauge, Numeric, Numbers
    <3>2. Steady(b, woken)
      BY DEF Gauge, Numeric, Numbers, Steady, SaidOf
    <3> HIDE DEF woken
    <3>3. QED
      BY <3>1, <3>2, StillGauge DEF Steady
  <2> HIDE DEF woken
  <2>2. Gauge(zero) /\ DropsSlowly(woken, zero, r)
    BY <2>1, GaugeZeroPrepare
  <2> HIDE DEF zero
  <2>3. Gauge(both) /\ Steady(zero, both)
    BY <2>2, GaugeSmoothPrepare
  <2> HIDE DEF both
  <2>4. QED
    BY <2>1, <2>2, <2>3, NumbersAre DEF Steady, DropsSlowly, DropsOne, Gauge
<1>4. Gauge(f) /\ f.dsoc >= b.dsoc /\ f.dsoc \in Int
  <2>1. Gauge(f) /\ f.dsoc >= b.dsoc
    BY GaugeFinish
  <2> HIDE DEF f
  <2>2. QED
    BY <2>1, NumbersAre DEF Gauge
<1>5. Gauge(z) /\ FallsByTwo(b, z, r)
  BY GaugeZero
<1>6. Gauge(s) /\ FollowsSlowly(b, s, r) /\ s.dsoc \in Int
  <2>1. Gauge(s) /\ FollowsSlowly(b, s, r)
    BY GaugeSmooth
  <2> HIDE DEF s
  <2>2. QED
    BY <2>1, NumbersAre DEF Gauge
<1> HIDE DEF both, f, z, s, empties, d
<1>7. Gauge(zf) /\ DropsSlowly(f, zf, r)
  BY <1>4, GaugeToZero
<1>8. Gauge(sf) /\ sf.dsoc = f.dsoc
  BY <1>4, GaugeToSmooth
<1>9. Gauge(sz) /\ sz.dsoc = z.dsoc
  BY <1>5, GaugeToSmooth
<1>10. Gauge(fz) /\ fz.dsoc = z.dsoc
  BY <1>5, GaugeToFinish
<1>11. Gauge(zs) /\ DropsSlowly(s, zs, r)
  BY <1>6, GaugeToZero
<1>12. Gauge(fs) /\ fs.dsoc = s.dsoc
  BY <1>6, GaugeToFinish
<1> HIDE DEF zf, sf, sz, fz, zs, fs
<1>13. Follows(b, both, r)
  BY <1>2, <1>3 DEF DropsSlowly, DropsOne, Follows
<1>14. zf.dsoc \in Int /\ zs.dsoc \in Int
  BY <1>7, <1>11, NumbersAre DEF Gauge
<1>15. b.work_mode = "FINISH" => Follows(b, f, r) /\ Follows(b, sf, r) /\ Follows(b, zf, r)
  BY <1>2, <1>4, <1>7, <1>8, <1>14 DEF DropsSlowly, DropsOne, Follows
<1>16. Follows(b, z, r) /\ Follows(b, sz, r) /\ Follows(b, fz, r)
  BY <1>5, <1>9, <1>10 DEF FallsByTwo, Follows
<1>17. Follows(b, s, r) /\ Follows(b, fs, r)
  BY <1>2, <1>6, <1>12 DEF FollowsSlowly, Follows
<1>18. Follows(b, zs, r)
  <2>1. r.current < 0 => AtLeast(0, s.dsoc) <= AtLeast(0, b.dsoc)
    BY <1>2, <1>6 DEF FollowsSlowly, AtLeast
  <2>2. AtLeast(0, s.dsoc) \in Int /\ AtLeast(0, b.dsoc) \in Int
    BY <1>2, <1>6 DEF AtLeast
  <2>3. QED
    BY <1>2, <1>6, <1>11, <1>14, <2>1, <2>2 DEF DropsSlowly, DropsOne, FollowsSlowly, Follows
<1>19. d \in {both, f, zf, sf, sz, fz, z, zs, fs, s}
       /\ (d \in {f, zf, sf} => d \in {both, sz, fz, z, zs, fs, s} \/ b.work_mode = "FINISH")
  BY <1>1
<1>20. Gauge(d) /\ Follows(b, d, r)
  BY <1>3, <1>4, <1>5, <1>6, <1>7, <1>8, <1>9, <1>10, <1>11, <1>12, <1>13, <1>15, <1>16,
     <1>17, <1>18, <1>19
<1>21. QED
  BY <1>20 DEF d

------------------------------------------------------------------------------
(* The work *)

\* d is the record of a probed driver if b is, and the charge is the same.
Same(b, d) == d.dsoc = b.dsoc /\ d.work_mode = b.work_mode

\* As StillGauge, where the times may have changed.
LEMMA StillProbed ==
  ASSUME NEW b, NEW d, Gauge(b), DOMAIN d = DOMAIN b, \A f \in Numbers : d[f] \in Int,
         d.fcc = b.fcc, d.work_mode = b.work_mode,
         d.finish_sec >= 0, d.sleep_dischrg_sec >= 0, d.asleep_sec >= 0
  PROVE  Gauge(d)
  BY DEF Gauge, Numeric

\* Time passes.
LEMMA GaugePass ==
  ASSUME NEW b, Gauge(b), NEW sec \in Nat
  PROVE  LET d == Pass(b, sec) IN Gauge(d) /\ Same(b, d) /\ d.soc_reg = b.soc_reg
<1> DEFINE on(t) == IF t = Unset THEN Unset ELSE t + sec
           fin == b.finish_sec + sec
           low == on(b.low_sec)
           zero == on(b.zero_drop_sec)
           shtd == on(b.shtd_drop_sec)
           d == [b EXCEPT !.finish_sec = fin, !.low_sec = low,
                          !.zero_drop_sec = zero, !.shtd_drop_sec = shtd]
<1>1. Pass(b, sec) = d
  BY DEF Pass
<1>2. {fin, low, zero, shtd} \subseteq Int /\ fin >= 0
  BY NumbersAre DEF Unset, Gauge, Numeric
<1> HIDE DEF fin, low, zero, shtd
<1>3. \A f \in Numbers : d[f] \in {b[f], fin, low, zero, shtd} /\ b[f] \in Int
  BY DEF Gauge, Numeric
<1>4. /\ DOMAIN d = DOMAIN b /\ d.fcc = b.fcc /\ Same(b, d) /\ d.soc_reg = b.soc_reg
      /\ d.finish_sec = fin
      /\ d.sleep_dischrg_sec = b.sleep_dischrg_sec /\ d.asleep_sec = b.asleep_sec
  BY DEF Gauge, Numeric, Numbers, Same
<1> HIDE DEF d
<1>5. \A f \in Numbers : d[f] \in Int
  BY <1>2, <1>3
<1>6. d.sleep_dischrg_sec >= 0 /\ d.asleep_sec >= 0
  BY <1>4 DEF Gauge, Numeric
<1>7. Gauge(d)
  BY <1>2, <1>4, <1>5, <1>6, StillProbed DEF Same
<1>8. QED
  BY <1>1, <1>4, <1>7

\* The counter counts.
LEMMA GaugeCounted ==
  ASSUME NEW b, NEW r, Reading(r)
  PROVE  LET d == Counted(b, r)
         IN  /\ Gauge(b) => Gauge(d)
             /\ Same(b, d) /\ d.soc_reg = b.soc_reg
<1> DEFINE q == b.q + r.step
           d == [b EXCEPT !.q = q]
<1>1. Counted(b, r) = d
  BY DEF Counted
<1>2. Gauge(b) => q \in Int
  BY NumbersAre DEF Reading, Gauge
<1> HIDE DEF q
<1>3. Gauge(b) => \A f \in Numbers : d[f] \in {b[f], q} /\ b[f] \in Int
  BY DEF Gauge, Numeric
<1>4. Same(b, d) /\ d.soc_reg = b.soc_reg
  BY DEF Same
<1>5. Gauge(b) => Steady(b, d)
  BY DEF Gauge, Numeric, Numbers, Steady, SaidOf
<1> HIDE DEF d
<1>6. Gauge(b) => Gauge(d)
  BY <1>2, <1>3, <1>5, StillGauge DEF Steady
<1>7. QED
  BY <1>1, <1>4, <1>6

\* The charge is measured; a counter above fcc is set to fcc.
LEMMA GaugeUpdateInfo ==
  ASSUME NEW b, Gauge(b), NEW r
  PROVE  LET d == update_info(b, r) IN Gauge(d) /\ Same(b, d) /\ d.soc_reg = b.soc_reg
<1> DEFINE rsoc == get_rsoc(b)
           cap == capacity_uah(b)
           read == [b EXCEPT !.rsoc = rsoc, !.remain_cap = cap]
           reset == init_coulomb_cap(read, b.fcc)
           sm == b.fcc * 1000
           full == [reset EXCEPT !.sm_remain_cap = sm]
           topped == IF read.remain_cap \div 1000 > b.fcc THEN full ELSE read
           sec == IF finished(read, r) THEN b.finish_sec ELSE 0
           change == b.change \/ plugged # b.is_charging
           d == [topped EXCEPT !.finish_sec = sec, !.change = change, !.is_charging = plugged]
<1>1. update_info(b, r) = d
  BY Zenon DEF update_info
<1>2. rsoc \in Int /\ cap \in Int /\ b.fcc \in Int /\ sm \in Int
  BY CounterNumber, NumbersAre DEF Gauge
<1>3. sec \in Int /\ sec >= 0
  BY NumbersAre DEF Gauge, Numeric
<1> HIDE DEF rsoc, cap, sm, sec, change
<1>4. Gauge(read) /\ Steady(b, read) /\ read.soc_reg = b.soc_reg
  <2>1. \A f \in Numbers : read[f] \in {b[f], rsoc, cap} /\ b[f] \in Int
    BY DEF Gauge, Numeric
  <2>2. Steady(b, read) /\ read.soc_reg = b.soc_reg
    BY DEF Gauge, Numeric, Numbers, Steady, SaidOf
  <2> HIDE DEF read
  <2>3. QED
    BY <1>2, <2>1, <2>2, StillGauge DEF Steady
<1> HIDE DEF read
<1>5. Gauge(reset) /\ Steady(read, reset) /\ reset.soc_reg = read.soc_reg
  <2> DEFINE c == b.fcc
             e == init_coulomb_cap(read, c)
  <2>1. c \in Int
    BY <1>2
  <2>2. e.soc_reg = read.soc_reg
    BY InitCoulombCap DEF Kept
  <2> HIDE DEF c
  <2>3. Gauge(e)
    BY <1>4, <2>1, GaugeInit
  <2>4. Steady(read, e)
    BY <1>4, <2>1, GaugeInit
  <2> HIDE DEF e
  <2>5. QED
    BY <2>2, <2>3, <2>4 DEF c, e
<1> HIDE DEF reset
<1>6. Gauge(full) /\ Steady(reset, full) /\ full.soc_reg = reset.soc_reg
  <2>1. \A f \in Numbers : full[f] \in {reset[f], sm} /\ reset[f] \in Int
    BY <1>5 DEF Gauge, Numeric
  <2>2. Steady(reset, full) /\ full.soc_reg = reset.soc_reg
    BY <1>5 DEF Gauge, Numeric, Numbers, Steady, SaidOf
  <2> HIDE DEF full
  <2>3. QED
    BY <1>2, <1>5, <2>1, <2>2, StillGauge DEF Steady
<1> HIDE DEF full
<1>7. Gauge(topped) /\ Steady(b, topped) /\ topped.soc_reg = b.soc_reg
  BY <1>4, <1>5, <1>6 DEF Steady, SaidOf
<1> HIDE DEF topped
<1>8. \A f \in Numbers : d[f] \in {topped[f], sec} /\ topped[f] \in Int
  BY <1>7 DEF Gauge, Numeric, Numbers
<1>9. /\ DOMAIN d = DOMAIN topped /\ d.fcc = topped.fcc /\ Same(topped, d)
      /\ d.soc_reg = topped.soc_reg /\ d.finish_sec = sec
      /\ d.sleep_dischrg_sec = topped.sleep_dischrg_sec /\ d.asleep_sec = topped.asleep_sec
  BY <1>7 DEF Gauge, Numeric, Numbers, Same
<1> HIDE DEF d
<1>10. \A f \in Numbers : d[f] \in Int
  BY <1>3, <1>8
<1>11. d.sleep_dischrg_sec >= 0 /\ d.asleep_sec >= 0
  BY <1>7, <1>9 DEF Gauge, Numeric
<1>12. Gauge(d)
  BY <1>3, <1>7, <1>9, <1>10, <1>11, StillProbed DEF Same
<1>13. QED
  BY <1>1, <1>7, <1>9, <1>12 DEF Same, Steady, SaidOf

\* A percent is taken at a very low voltage only.
LEMMA GaugeLowpwr ==
  ASSUME NEW b, Gauge(b), NEW r, Reading(r)
  PROVE  LET d == lowpwr_check(b, r)
         IN  /\ Gauge(d) /\ d.work_mode = b.work_mode
             /\ d.dsoc <= b.dsoc /\ (Enough(r) => d.dsoc = b.dsoc)
<1> DEFINE time == AtLeast(b.low_sec, 0)
           soc == IF time > 60 /\ r.voltage <= Pdata.pwroff_vol - 50 THEN b.dsoc - 1000 ELSE b.dsoc
           off == time > 60 \/ b.fake_offline
           low == [b EXCEPT !.low_sec = time, !.fake_offline = off, !.dsoc = soc]
           not == [b EXCEPT !.low_sec = Unset, !.fake_offline = FALSE]
<1>1. lowpwr_check(b, r) = IF r.current < 0 /\ r.voltage < Pdata.pwroff_vol THEN low ELSE not
  BY Zenon DEF lowpwr_check
<1>2. b.dsoc \in Int /\ b.low_sec \in Int /\ r.voltage \in Int /\ Pdata.pwroff_vol \in Int
  BY NumbersAre, PdataAssumption DEF Gauge, Reading, PdataAssumption
<1>3. time \in Int /\ Unset \in Int
  BY <1>2 DEF AtLeast, Unset
<1> HIDE DEF time
<1>4. soc \in Int /\ soc <= b.dsoc /\ (Enough(r) => soc = b.dsoc)
  BY <1>2 DEF Enough
<1> HIDE DEF soc, off
<1>5. \A f \in Numbers : low[f] \in {b[f], time, soc} /\ b[f] \in Int
  BY DEF Gauge, Numeric, Numbers
<1>6. \A f \in Numbers : not[f] \in {b[f], Unset} /\ b[f] \in Int
  BY DEF Gauge, Numeric, Numbers
<1>7. SaidOf(b, low) /\ low.dsoc = soc
  BY DEF Gauge, Numeric, Numbers, SaidOf
<1>8. SaidOf(b, not) /\ not.dsoc = b.dsoc
  BY DEF Gauge, Numeric, Numbers, SaidOf
<1> HIDE DEF low, not
<1>9. Gauge(low)
  <2>1. \A f \in Numbers : low[f] \in Int
    BY <1>3, <1>4, <1>5
  <2>2. QED
    BY <1>7, <2>1, StillGauge
<1>10. Gauge(not)
  <2>1. \A f \in Numbers : not[f] \in Int
    BY <1>3, <1>6
  <2>2. QED
    BY <1>8, <2>1, StillGauge
<1>11. QED
  BY <1>1, <1>2, <1>4, <1>7, <1>8, <1>9, <1>10 DEF SaidOf

\* What clamping does to a charge.
LEMMA ClampedCharge ==
  ASSUME NEW s \in Int
  PROVE  /\ Clamped(s) \in Int /\ Clamped(s) \in Charges
         /\ s <= FullSoc => Clamped(s) = AtLeast(s, 0)
         /\ s > FullSoc => Clamped(s) = FullSoc
         /\ s \in Charges => Clamped(s) = s
<1>1. FullSoc \in Int /\ FullSoc > 0 /\ Clamped(s) = AtMost(AtLeast(s, 0), FullSoc)
  BY DEF FullSoc, Clamped
<1>2. /\ Clamped(s) \in Int /\ Clamped(s) >= 0 /\ Clamped(s) <= FullSoc
      /\ s <= FullSoc => Clamped(s) = AtLeast(s, 0)
      /\ s > FullSoc => Clamped(s) = FullSoc
  BY <1>1 DEF AtMost, AtLeast
<1>3. Clamped(s) \in Charges
  BY <1>1, <1>2 DEF Charges
<1>4. s \in Charges => s >= 0 /\ s <= FullSoc
  BY <1>1 DEF Charges
<1>5. s >= 0 => AtLeast(s, 0) = s
  BY DEF AtLeast
<1>6. QED
  BY <1>2, <1>3, <1>4, <1>5

\* What userspace is told is the charge of the record, and one that can be displayed.
LEMMA GaugeChanged ==
  ASSUME NEW b, Gauge(b)
  PROVE  LET d == power_supply_changed(b)
         IN  /\ Gauge(d) /\ d.work_mode = b.work_mode
             /\ d.dsoc = Clamped(b.dsoc) /\ d.old_soc = d.dsoc
<1> DEFINE soc == Clamped(b.dsoc)
           d == [b EXCEPT !.dsoc = soc]
           told == [d EXCEPT !.change = FALSE, !.old_soc = soc]
<1>1. soc \in Int
  BY NumbersAre, ClampedCharge DEF Gauge
<1> HIDE DEF soc
<1>2. Gauge(d) /\ SaidOf(b, d) /\ d.dsoc = soc
  BY <1>1, GaugeDisplay
<1>3. power_supply_changed(b) = IF d.dsoc = b.old_soc /\ ~b.change THEN d ELSE told
  BY <1>2, Zenon DEF power_supply_changed, soc
<1>4. d.old_soc = b.old_soc
  BY DEF Gauge, Numeric, Numbers
<1> HIDE DEF d
<1>5. \A f \in Numbers : told[f] \in {d[f], soc} /\ d[f] \in Int
  BY <1>2 DEF Gauge, Numeric, Numbers
<1>6. SaidOf(d, told) /\ told.dsoc = soc /\ told.old_soc = soc
  BY <1>2 DEF Gauge, Numeric, Numbers, SaidOf
<1> HIDE DEF told
<1>7. Gauge(told)
  BY <1>1, <1>2, <1>5, <1>6, StillGauge
<1>8. QED
  BY <1>2, <1>3, <1>4, <1>6, <1>7 DEF soc, SaidOf

\* save_data displays nothing else.
LEMMA GaugeSaveData ==
  ASSUME NEW b, Gauge(b)
  PROVE  LET d == save_data(b) IN Gauge(d) /\ Steady(b, d) /\ d.old_soc = b.old_soc
<1> DEFINE c == save_dsoc(b)
           capacity == AtLeast(AtMost(c.remain_cap \div 1000, c.qmax), 0)
           d == [c EXCEPT !.cap_reg = capacity, !.old_cap = capacity]
<1>1. Gauge(c) /\ Steady(b, c)
  BY GaugeSave
<1>2. c.old_soc = b.old_soc
  BY DEF save_dsoc
<1>3. save_data(b) = IF capacity = c.old_cap THEN c ELSE d
  BY Zenon DEF save_data, save_cap
<1> HIDE DEF c
<1>4. capacity \in Int
  <2> DEFINE n == c.remain_cap \div 1000
  <2>1. n \in Int /\ c.qmax \in Int
    BY <1>1, NumbersAre DEF Gauge
  <2> HIDE DEF n
  <2>2. AtMost(n, c.qmax) \in Int
    BY <2>1 DEF AtMost
  <2>3. QED
    BY <2>2 DEF AtLeast, n
<1> HIDE DEF capacity
<1>5. \A f \in Numbers : d[f] \in {c[f], capacity} /\ c[f] \in Int
  BY <1>1 DEF Gauge, Numeric
<1>6. Steady(c, d) /\ d.old_soc = c.old_soc
  BY <1>1 DEF Gauge, Numeric, Numbers, Steady, SaidOf
<1> HIDE DEF d
<1>7. Gauge(d)
  BY <1>1, <1>4, <1>5, <1>6, StillGauge DEF Steady
<1>8. QED
  BY <1>1, <1>2, <1>3, <1>6, <1>7 DEF Steady, SaidOf

\* What the work displays before userspace is told.
LEMMA GaugeDisplayed ==
  ASSUME NEW b, Gauge(b), NEW r, Reading(r) PROVE Gauge(displayed(b, r))
<1> DEFINE u == update_info(b, r)
           l == lowpwr_check(u, r)
<1>1. Gauge(u)
  BY GaugeUpdateInfo
<1> HIDE DEF u
<1>2. Gauge(l)
  BY <1>1, GaugeLowpwr
<1> HIDE DEF l
<1>3. Gauge(display_smooth(l, r))
  BY <1>2, GaugeDisplaySmooth
<1>4. QED
  BY <1>3 DEF displayed, l, u

\* One run of the work.
LEMMA GaugeWork ==
  ASSUME NEW b, Gauge(b), b.dsoc \in Charges, NEW r, Reading(r)
  PROVE  LET d == battery_work(b, r)
         IN  /\ Gauge(d) /\ d.dsoc \in Charges /\ d.old_soc = d.dsoc
             /\ Enough(r) => d.dsoc >= b.dsoc - 2000
             /\ r.current < 0 /\ b.work_mode # "FINISH" => d.dsoc <= b.dsoc
<1> DEFINE u == update_info(b, r)
           l == lowpwr_check(u, r)
           s == display_smooth(l, r)
           p == power_supply_changed(s)
           d == save_data(p)
<1>1. battery_work(b, r) = d
  BY DEF battery_work, displayed
<1>2. Gauge(u) /\ Same(b, u)
  BY GaugeUpdateInfo
<1> HIDE DEF u
<1>3. /\ Gauge(l) /\ l.work_mode = u.work_mode
      /\ l.dsoc <= u.dsoc /\ (Enough(r) => l.dsoc = u.dsoc)
  BY <1>2, GaugeLowpwr
<1> HIDE DEF l
<1>4. Gauge(s) /\ Follows(l, s, r)
  BY <1>3, GaugeDisplaySmooth
<1> HIDE DEF s
<1>5. /\ Gauge(p) /\ p.work_mode = s.work_mode
      /\ p.dsoc = Clamped(s.dsoc) /\ p.old_soc = p.dsoc
  BY <1>4, GaugeChanged
<1> HIDE DEF p
<1>6. Gauge(d) /\ Steady(p, d) /\ d.old_soc = p.old_soc
  BY <1>5, GaugeSaveData
<1> HIDE DEF d
<1>7. u.dsoc \in Int /\ l.dsoc \in Int /\ s.dsoc \in Int
  BY <1>2, <1>3, <1>4, NumbersAre DEF Gauge
<1>8. b.dsoc \in Int /\ b.dsoc >= 0 /\ b.dsoc <= FullSoc /\ FullSoc \in Int
  <2>1. FullSoc \in Int
    BY DEF FullSoc
  <2>2. QED
    BY <2>1 DEF Charges
<1>9. /\ d.dsoc = Clamped(s.dsoc) /\ d.old_soc = d.dsoc /\ Clamped(s.dsoc) \in Charges
      /\ Clamped(s.dsoc) \in Int
      /\ s.dsoc <= FullSoc => Clamped(s.dsoc) = AtLeast(s.dsoc, 0)
      /\ s.dsoc > FullSoc => Clamped(s.dsoc) = FullSoc
  BY <1>5, <1>6, <1>7, ClampedCharge DEF Steady
<1>10. Enough(r) => d.dsoc >= b.dsoc - 2000
  BY <1>2, <1>3, <1>4, <1>7, <1>8, <1>9 DEF Follows, Same, AtLeast
<1>11. r.current < 0 /\ b.work_mode # "FINISH" => d.dsoc <= b.dsoc
  BY <1>2, <1>3, <1>4, <1>7, <1>8, <1>9 DEF Follows, Same, AtLeast
<1>12. QED
  BY <1>1, <1>6, <1>9, <1>10, <1>11

------------------------------------------------------------------------------
(* Probe *)

\* What probe found out of the battery is the same.
Found(b, d) == /\ d.is_halt = b.is_halt /\ d.is_ocv_calib = b.is_ocv_calib
               /\ d.is_force_calib = b.is_force_calib

\* It was neither halted nor calibrated.
Trusted(d) == ~d.is_halt /\ ~d.is_ocv_calib /\ ~d.is_force_calib

\* A new battery.
LEMMA GaugeFirst ==
  ASSUME NEW b, Numeric(b), NEW r, Reading(r) PROVE Gauge(first_pwron(b, r))
<1> DEFINE soc == vol_to_soc(r.voltage) * 1000
           qmax == CapacityToAdc(Pdata.design_qmax)
           cc == Pdata.design_capacity
           d == [b EXCEPT !.bat_con = FALSE, !.rsoc = soc, !.dsoc = soc,
                          !.fcc = cc, !.fcc_reg = cc, !.q_max = qmax]
           cap == vol_to_cap(d, r.voltage)
           e == [d EXCEPT !.nac = cap]
<1>1. first_pwron(b, r) = e
  BY DEF first_pwron
<1>2. soc \in Int /\ cc \in Int /\ cc >= 42
  BY VolNumber, PdataAssumption DEF Reading, PdataAssumption
<1>3. qmax \in Int
  <2>1. res_div \in Int /\ Pdata.design_qmax \in Int
    BY PdataAssumption DEF res_div, PdataAssumption
  <2>2. Pdata.design_qmax * res_div * 3600 \in Int
    BY <2>1
  <2>3. QED
    BY <2>2, DivNumber DEF CapacityToAdc
<1> HIDE DEF soc, qmax, cc
<1>4. \A f \in Numbers : d[f] \in {b[f], soc, cc, qmax} /\ b[f] \in Int
  BY DEF Numeric, Numbers
<1>5. /\ DOMAIN d = DOMAIN b /\ d.fcc = cc /\ d.work_mode = b.work_mode
      /\ d.finish_sec = b.finish_sec
      /\ d.sleep_dischrg_sec = b.sleep_dischrg_sec /\ d.asleep_sec = b.asleep_sec
  BY DEF Numeric, Numbers
<1> HIDE DEF d
<1>6. Gauge(d)
  <2>1. \A f \in Numbers : d[f] \in Int
    BY <1>2, <1>3, <1>4
  <2>2. QED
    BY <1>2, <1>5, <2>1 DEF Gauge, Numeric
<1>7. cap \in Int
  <2>1. d.fcc \in Int /\ r.voltage \in Int
    BY <1>6, NumbersAre DEF Gauge, Reading
  <2>2. QED
    BY <2>1, VolNumber
<1> HIDE DEF cap
<1>8. \A f \in Numbers : e[f] \in {d[f], cap} /\ d[f] \in Int
  BY <1>6 DEF Gauge, Numeric
<1>9. SaidOf(d, e)
  BY <1>6 DEF Gauge, Numeric, Numbers, SaidOf
<1> HIDE DEF e
<1>10. QED
  BY <1>1, <1>6, <1>7, <1>8, <1>9, StillGauge

\* The capacity, which no register can make less than 42 mAh.
LEMMA GaugeFcc ==
  ASSUME NEW b, Numeric(b)
  PROVE  LET d == get_fcc(b)
         IN  /\ Gauge(d) /\ DOMAIN d = DOMAIN b
             /\ d.soc_reg = b.soc_reg /\ d.rsoc = b.rsoc /\ Found(b, d)
<1> DEFINE fcc == IF b.fcc_reg < 500 THEN Pdata.design_capacity
                  ELSE AtMost(b.fcc_reg, Pdata.design_qmax)
           d == [b EXCEPT !.fcc = fcc, !.fcc_reg = fcc]
<1>1. get_fcc(b) = d
  BY DEF get_fcc
<1>2. fcc \in Int /\ fcc >= 42
  <2>1. b.fcc_reg \in Int
    BY NumbersAre
  <2>2. QED
    BY <2>1, PdataAssumption DEF PdataAssumption, AtMost
<1> HIDE DEF fcc
<1>3. \A f \in Numbers : d[f] \in {b[f], fcc} /\ b[f] \in Int
  BY DEF Numeric, Numbers
<1>4. /\ DOMAIN d = DOMAIN b /\ d.fcc = fcc /\ d.work_mode = b.work_mode
      /\ d.finish_sec = b.finish_sec
      /\ d.sleep_dischrg_sec = b.sleep_dischrg_sec /\ d.asleep_sec = b.asleep_sec
      /\ d.soc_reg = b.soc_reg /\ d.rsoc = b.rsoc
  BY DEF Numeric, Numbers
<1>5. Found(b, d)
  BY DEF Found
<1> HIDE DEF d
<1>6. Gauge(d)
  <2>1. \A f \in Numbers : d[f] \in Int
    BY <1>2, <1>3
  <2>2. QED
    BY <1>2, <1>4, <2>1 DEF Gauge, Numeric
<1>7. QED
  BY <1>1, <1>4, <1>5, <1>6

\* A gauge that was neither halted nor calibrated goes on with the charge that was saved.
LEMMA GaugeNotFirst ==
  ASSUME NEW b, Numeric(b), NEW r, Reading(r), NEW off
  PROVE  LET d == not_first_pwron(b, r, off)
         IN  /\ Gauge(d)
             /\ Trusted(d) => d.dsoc = b.soc_reg /\ d.rsoc = b.rsoc
<1> DEFINE d == get_fcc(b)
           nowCap == capacity_mah(d)
           cap == d.cap_reg * 1000
           halt == Abs(nowCap - d.cap_reg) > d.fcc \div 10
           init == d.fg_init
           calib == ~d.fg_init /\ off >= 30
           e == [d EXCEPT !.remain_cap = cap, !.is_halt = halt, !.is_initialized = init,
                          !.is_ocv_calib = calib, !.fg_init = FALSE]
           ocvSoc == vol_to_soc(r.voltage)
           ocvCap == vol_to_cap(d, r.voltage)
           away(offset) == Abs(ocvSoc - d.soc_reg) >= offset
           keep == [e EXCEPT !.dsoc = d.soc_reg, !.nac = d.cap_reg]
           halted == init_coulomb_cap(e, nowCap)
           restarted == [halted EXCEPT !.dsoc = halted.rsoc, !.nac = nowCap]
           soc == IF away(Pdata.max_soc_offset) THEN ocvSoc ELSE d.soc_reg
           calibrated == [keep EXCEPT !.nac = ocvCap, !.dsoc = soc]
           forced == [keep EXCEPT !.nac = ocvCap, !.dsoc = ocvSoc, !.is_force_calib = TRUE]
<1>1. not_first_pwron(b, r, off) =
        IF e.is_halt THEN restarted
        ELSE IF e.is_initialized THEN keep
        ELSE IF e.is_ocv_calib THEN calibrated
        ELSE IF off > 0 /\ away(80) THEN forced ELSE keep
  BY Zenon DEF not_first_pwron
<1>2. Gauge(d) /\ d.soc_reg = b.soc_reg /\ d.rsoc = b.rsoc
  BY GaugeFcc
<1> HIDE DEF d
<1>3. nowCap \in Int /\ cap \in Int /\ d.soc_reg \in Int /\ d.cap_reg \in Int /\ d.fcc \in Int
  BY <1>2, CounterNumber, NumbersAre DEF Gauge
<1>4. ocvSoc \in Int /\ ocvCap \in Int
  <2>1. r.voltage \in Int
    BY DEF Reading
  <2>2. QED
    BY <1>3, <2>1, VolNumber
<1>5. soc \in Int
  BY <1>3, <1>4
<1> HIDE DEF nowCap, cap, halt, init, calib, ocvSoc, ocvCap, away, soc
<1>6. Gauge(e) /\ e.rsoc = d.rsoc
  <2>1. \A f \in Numbers : e[f] \in {d[f], cap} /\ d[f] \in Int
    BY <1>2 DEF Gauge, Numeric, Numbers
  <2>2. SaidOf(d, e) /\ e.rsoc = d.rsoc
    BY <1>2 DEF Gauge, Numeric, Numbers, SaidOf
  <2> HIDE DEF e
  <2>3. QED
    BY <1>2, <1>3, <2>1, <2>2, StillGauge
<1> HIDE DEF e
<1>7. Gauge(keep) /\ keep.dsoc = d.soc_reg /\ keep.rsoc = e.rsoc
  <2>1. \A f \in Numbers : keep[f] \in {e[f], d.soc_reg, d.cap_reg} /\ e[f] \in Int
    BY <1>6 DEF Gauge, Numeric, Numbers
  <2>2. SaidOf(e, keep) /\ keep.dsoc = d.soc_reg /\ keep.rsoc = e.rsoc
    BY <1>6 DEF Gauge, Numeric, Numbers, SaidOf
  <2> HIDE DEF keep
  <2>3. QED
    BY <1>3, <1>6, <2>1, <2>2, StillGauge
<1>8. Found(e, keep)
  BY DEF Found
<1>9. Gauge(halted) /\ Found(e, halted)
  <2>1. Gauge(halted)
    BY <1>3, <1>6, GaugeInit
  <2>2. Found(e, halted)
    BY DEF init_coulomb_cap, Found
  <2>3. QED
    BY <2>1, <2>2
<1> HIDE DEF halted
<1>10. Gauge(restarted)
  <2>1. \A f \in Numbers : restarted[f] \in {halted[f], halted.rsoc, nowCap} /\ halted[f] \in Int
    BY <1>9 DEF Gauge, Numeric, Numbers
  <2>2. SaidOf(halted, restarted)
    BY <1>9 DEF Gauge, Numeric, Numbers, SaidOf
  <2>3. halted.rsoc \in Int
    BY <1>9, NumbersAre DEF Gauge
  <2> HIDE DEF restarted
  <2>4. QED
    BY <1>3, <1>9, <2>1, <2>2, <2>3, StillGauge
<1>11. Found(halted, restarted)
  BY DEF Found
<1> HIDE DEF keep
<1>12. Gauge(calibrated)
  <2>1. \A f \in Numbers : calibrated[f] \in {keep[f], ocvCap, soc} /\ keep[f] \in Int
    BY <1>7 DEF Gauge, Numeric, Numbers
  <2>2. SaidOf(keep, calibrated)
    BY <1>7 DEF Gauge, Numeric, Numbers, SaidOf
  <2> HIDE DEF calibrated
  <2>3. QED
    BY <1>4, <1>5, <1>7, <2>1, <2>2, StillGauge
<1>13. Found(keep, calibrated)
  BY DEF Found
<1>14. Gauge(forced)
  <2>1. \A f \in Numbers : forced[f] \in {keep[f], ocvCap, ocvSoc} /\ keep[f] \in Int
    BY <1>7 DEF Gauge, Numeric, Numbers
  <2>2. SaidOf(keep, forced)
    BY <1>7 DEF Gauge, Numeric, Numbers, SaidOf
  <2> HIDE DEF forced
  <2>3. QED
    BY <1>4, <1>7, <2>1, <2>2, StillGauge
<1>15. forced.is_force_calib
  BY <1>7 DEF Gauge, Numeric
<1> HIDE DEF restarted, calibrated, forced
<1>16. CASE e.is_halt
  <2>1. restarted.is_halt
    BY <1>9, <1>11, <1>16 DEF Found
  <2>2. not_first_pwron(b, r, off) = restarted
    BY <1>1, <1>16
  <2>3. QED
    BY <1>10, <2>1, <2>2 DEF Trusted
<1>17. CASE ~e.is_halt
  <2>1. CASE not_first_pwron(b, r, off) = keep
    BY <1>2, <1>6, <1>7, <2>1
  <2>2. CASE not_first_pwron(b, r, off) = calibrated /\ e.is_ocv_calib
    <3>1. calibrated.is_ocv_calib
      BY <1>8, <1>13, <2>2 DEF Found
    <3>2. QED
      BY <1>12, <2>2, <3>1 DEF Trusted
  <2>3. CASE not_first_pwron(b, r, off) = forced
    BY <1>14, <1>15, <2>3 DEF Trusted
  <2>4. QED
    BY <1>1, <1>17, <2>1, <2>2, <2>3
<1>18. QED
  BY <1>16, <1>17

\* 100 % is forced for no trusted gauge: what it measures is 0 until it is calibrated.
LEMMA GaugeRsocInit ==
  ASSUME NEW b, Numeric(b), b.rsoc = 0, NEW r, Reading(r), NEW off
  PROVE  LET d == rsoc_init(b, r, off)
         IN  /\ Gauge(d)
             /\ ~b.bat_con /\ Trusted(d) => d.dsoc = b.soc_reg
<1> DEFINE first == first_pwron(b, r)
           next == not_first_pwron(b, r, off)
           c == IF b.bat_con THEN first ELSE next
           s == save_dsoc(c)
           top == [s EXCEPT !.dsoc = 100 * 1000]
           full == save_dsoc(top)
<1>1. rsoc_init(b, r, off) =
        IF /\ s.is_initialized \/ s.is_ocv_calib
           /\ Pct(s.rsoc) = 100
           /\ s.dsoc < 100 * 1000
        THEN full ELSE s
  BY Zenon DEF rsoc_init, filled, pwron
<1>2. Gauge(first)
  BY GaugeFirst
<1>3. Gauge(next)
  BY GaugeNotFirst
<1>4. Trusted(next) => next.dsoc = b.soc_reg /\ next.rsoc = 0
  BY GaugeNotFirst
<1> HIDE DEF first, next
<1>5. Gauge(c)
  BY <1>2, <1>3
<1>6. ~b.bat_con => c = next
  OBVIOUS
<1> HIDE DEF c
<1>7. Gauge(s) /\ Steady(c, s)
  BY <1>5, GaugeSave
<1>8. Found(c, s) /\ s.rsoc = c.rsoc
  BY DEF Found, save_dsoc
<1> HIDE DEF s
<1>9. Gauge(top)
  BY <1>7, GaugeDisplay
<1>10. Found(s, top)
  BY DEF Found
<1> HIDE DEF top
<1>11. Gauge(full)
  BY <1>9, GaugeSave
<1>12. Found(top, full)
  BY DEF Found, save_dsoc
<1> HIDE DEF full
<1>13. Pct(0) # 100
  BY DEF Pct, Quot, Abs
<1>14. ~b.bat_con /\ Trusted(s) => s.dsoc = b.soc_reg /\ Pct(s.rsoc) # 100
  BY <1>4, <1>6, <1>7, <1>8, <1>13 DEF Trusted, Found, Steady
<1>15. Trusted(full) => Trusted(s)
  BY <1>10, <1>12 DEF Trusted, Found
<1>16. CASE rsoc_init(b, r, off) = s
  BY <1>7, <1>14, <1>16
<1>17. CASE rsoc_init(b, r, off) = full /\ Pct(s.rsoc) = 100
  BY <1>11, <1>14, <1>15, <1>17
<1>18. QED
  BY <1>1, <1>16, <1>17

\* What probe found stays as it is until the end of probe.
LEMMA FoundModes ==
  ASSUME NEW b, NEW r PROVE Found(b, to_finish(b)) /\ Found(b, to_smooth(b, r))
<1>1. Found(b, to_finish(b))
  BY DEF Found, to_finish
<1> DEFINE c == [b EXCEPT !.smooth_soc = b.dsoc]
           d == calc_sm_linek(c, r)
<1>2. Found(b, c)
  BY DEF Found
<1> HIDE DEF c
<1>3. Found(c, d)
  BY DEF Found, calc_sm_linek
<1>4. to_smooth(b, r) = [d EXCEPT !.work_mode = "SMOOTH"]
  BY DEF to_smooth, smooth_algo_prepare, c
<1> HIDE DEF d
<1>5. QED
  BY <1>1, <1>2, <1>3, <1>4 DEF Found

\* The charge is clamped, and the mode chosen.
LEMMA GaugeInitDsoc ==
  ASSUME NEW b, Gauge(b), NEW r, Reading(r)
  PROVE  LET d == init_dsoc_algorithm(b, r)
         IN  Gauge(d) /\ d.dsoc = Clamped(b.dsoc) /\ Found(b, d)
<1> DEFINE soc == Clamped(b.dsoc)
           c == [b EXCEPT !.dsoc = soc]
<1>1. soc \in Int
  BY NumbersAre, ClampedCharge DEF Gauge
<1>2. init_dsoc_algorithm(b, r) = IF finished(c, r) THEN to_finish(c) ELSE to_smooth(c, r)
  BY DEF init_dsoc_algorithm
<1> HIDE DEF soc
<1>3. Gauge(c) /\ c.dsoc = soc
  BY <1>1, GaugeDisplay
<1>4. Found(b, c)
  BY DEF Found
<1> HIDE DEF c
<1>5. Gauge(to_finish(c)) /\ to_finish(c).dsoc = soc
  BY <1>3, GaugeToFinish
<1>6. Gauge(to_smooth(c, r)) /\ to_smooth(c, r).dsoc = soc
  BY <1>3, GaugeToSmooth
<1>7. Found(b, to_finish(c)) /\ Found(b, to_smooth(c, r))
  BY <1>4, FoundModes DEF Found
<1>8. QED
  BY <1>2, <1>5, <1>6, <1>7 DEF soc

\* update_info does not touch it either.
LEMMA FoundInfo == ASSUME NEW b, NEW r PROVE Found(b, update_info(b, r))
<1> DEFINE read == [b EXCEPT !.rsoc = get_rsoc(b), !.remain_cap = capacity_uah(b)]
           reset == init_coulomb_cap(read, b.fcc)
           full == [reset EXCEPT !.sm_remain_cap = b.fcc * 1000]
           topped == IF read.remain_cap \div 1000 > b.fcc THEN full ELSE read
           sec == IF finished(read, r) THEN b.finish_sec ELSE 0
           change == b.change \/ plugged # b.is_charging
           d == [topped EXCEPT !.finish_sec = sec, !.change = change, !.is_charging = plugged]
<1>1. update_info(b, r) = d
  BY Zenon DEF update_info
<1> HIDE DEF sec, change
<1>2. Found(b, read)
  BY DEF Found
<1> HIDE DEF read
<1>3. Found(read, reset)
  BY DEF Found, init_coulomb_cap
<1> HIDE DEF reset
<1>4. Found(reset, full)
  BY DEF Found
<1> HIDE DEF full
<1>5. Found(b, topped)
  BY <1>2, <1>3, <1>4 DEF Found
<1> HIDE DEF topped
<1>6. Found(topped, d)
  BY DEF Found
<1> HIDE DEF d
<1>7. QED
  BY <1>1, <1>5, <1>6 DEF Found

\* A charge that can be displayed is, and the saved one, clamped, if the gauge can be trusted.
LEMMA GaugeProbe ==
  ASSUME NEW b, Numeric(b), b.rsoc = 0, NEW r, Reading(r), NEW off
  PROVE  LET d == probe(b, r, off)
         IN  /\ Gauge(d) /\ d.dsoc \in Charges
             /\ ~b.bat_con /\ Trusted(d) => d.dsoc = Clamped(b.soc_reg)
<1> DEFINE c == rsoc_init(b, r, off)
           nac == c.nac
           s == init_coulomb_cap(c, nac)
           a == init_dsoc_algorithm(s, r)
           qmax == get_qmax(a)
           g == [a EXCEPT !.qmax = qmax]
           p == save_dsoc(g)
           d == update_info(p, r)
<1>1. probe(b, r, off) = d
  BY DEF probe, init_fg
<1>2. Gauge(c)
  BY GaugeRsocInit
<1>3. ~b.bat_con /\ Trusted(c) => c.dsoc = b.soc_reg
  BY GaugeRsocInit
<1> HIDE DEF c
<1>4. nac \in Int /\ c.dsoc \in Int
  BY <1>2, NumbersAre DEF Gauge
<1>5. Found(c, s)
  BY DEF Found, init_coulomb_cap
<1> HIDE DEF nac
<1>6. Gauge(s)
  BY <1>2, <1>4, GaugeInit
<1>7. Steady(c, s)
  BY <1>2, <1>4, GaugeInit
<1> HIDE DEF s
<1>8. Gauge(a) /\ a.dsoc = Clamped(s.dsoc) /\ Found(s, a)
  BY <1>6, GaugeInitDsoc
<1> HIDE DEF a
<1>9. qmax \in Int
  BY <1>8, CounterNumber
<1> HIDE DEF qmax
<1>10. Gauge(g) /\ g.dsoc = a.dsoc
  <2>1. \A f \in Numbers : g[f] \in {a[f], qmax} /\ a[f] \in Int
    BY <1>8 DEF Gauge, Numeric, Numbers
  <2>2. SaidOf(a, g) /\ g.dsoc = a.dsoc
    BY <1>8 DEF Gauge, Numeric, Numbers, SaidOf
  <2> HIDE DEF g
  <2>3. QED
    BY <1>8, <1>9, <2>1, <2>2, StillGauge
<1>11. Found(a, g)
  BY DEF Found
<1> HIDE DEF g
<1>12. Gauge(p) /\ Steady(g, p)
  BY <1>10, GaugeSave
<1>13. Found(g, p)
  BY DEF Found, save_dsoc
<1> HIDE DEF p
<1>14. Gauge(d) /\ Same(p, d)
  BY <1>12, GaugeUpdateInfo
<1>15. Found(p, d)
  BY FoundInfo
<1> HIDE DEF d
<1>16. d.dsoc = Clamped(c.dsoc) /\ Clamped(c.dsoc) \in Charges
  BY <1>4, <1>7, <1>8, <1>10, <1>12, <1>14, ClampedCharge DEF Steady, Same
<1>17. Trusted(d) => Trusted(c)
  BY <1>5, <1>8, <1>11, <1>13, <1>15 DEF Trusted, Found
<1>18. QED
  BY <1>1, <1>3, <1>14, <1>16, <1>17

------------------------------------------------------------------------------
(* Sleep *)

\* suspend displays nothing else, in any mode.
LEMMA GaugeSuspend ==
  ASSUME NEW b, Gauge(b), NEW r, Reading(r), NEW l
  PROVE  LET d == suspend(b, r, l) IN Gauge(d) /\ d.dsoc = b.dsoc
<1> DEFINE status == charge_status(b, [r EXCEPT !.voltage = l.voltage, !.current = l.current])
           online == r.current > 0 \/ status \in {"CC_OR_CV_CHRG", "CHARGE_FINISH"}
           cap == capacity_uah(b)
           rsoc == get_rsoc(b)
           read == [b EXCEPT !.s2r = FALSE, !.sleep_chrg_online = online,
                             !.remain_cap = cap, !.rsoc = rsoc, !.asleep_sec = 0]
           d == save_data(read)
           sec == IF status = "CHARGE_FINISH" THEN d.finish_sec ELSE 0
           e == [d EXCEPT !.finish_sec = sec]
<1>1. suspend(b, r, l) = IF b.work_mode # "ZERO" \/ r.current < 0 THEN e
                         ELSE IF status = "CHARGE_FINISH" THEN to_finish(e)
                         ELSE to_smooth(e, r)
  BY Zenon DEF suspend
<1>2. cap \in Int /\ rsoc \in Int
  BY CounterNumber
<1> HIDE DEF status, online, cap, rsoc
<1>3. Gauge(read) /\ read.dsoc = b.dsoc
  <2>1. \A f \in Numbers : read[f] \in {b[f], cap, rsoc, 0} /\ b[f] \in Int
    BY DEF Gauge, Numeric, Numbers
  <2>2. /\ DOMAIN read = DOMAIN b /\ read.fcc = b.fcc /\ read.work_mode = b.work_mode
        /\ read.finish_sec = b.finish_sec /\ read.asleep_sec = 0
        /\ read.sleep_dischrg_sec = b.sleep_dischrg_sec /\ read.dsoc = b.dsoc
    BY DEF Gauge, Numeric, Numbers
  <2> HIDE DEF read
  <2>3. \A f \in Numbers : read[f] \in Int
    BY <1>2, <2>1
  <2>4. b.finish_sec >= 0 /\ b.sleep_dischrg_sec >= 0
    BY DEF Gauge, Numeric
  <2>5. QED
    BY <2>2, <2>3, <2>4, StillProbed
<1> HIDE DEF read
<1>4. Gauge(d) /\ Steady(read, d)
  BY <1>3, GaugeSaveData
<1> HIDE DEF d
<1>5. sec \in Int /\ sec >= 0
  BY <1>4, NumbersAre DEF Gauge, Numeric
<1> HIDE DEF sec
<1>6. Gauge(e) /\ e.dsoc = d.dsoc
  <2>1. \A f \in Numbers : e[f] \in {d[f], sec} /\ d[f] \in Int
    BY <1>4 DEF Gauge, Numeric, Numbers
  <2>2. /\ DOMAIN e = DOMAIN d /\ e.fcc = d.fcc /\ e.work_mode = d.work_mode
        /\ e.finish_sec = sec /\ e.asleep_sec = d.asleep_sec
        /\ e.sleep_dischrg_sec = d.sleep_dischrg_sec /\ e.dsoc = d.dsoc
    BY <1>4 DEF Gauge, Numeric, Numbers
  <2> HIDE DEF e
  <2>3. \A f \in Numbers : e[f] \in Int
    BY <1>5, <2>1
  <2>4. d.asleep_sec >= 0 /\ d.sleep_dischrg_sec >= 0
    BY <1>4 DEF Gauge, Numeric
  <2>5. QED
    BY <1>4, <1>5, <2>2, <2>3, <2>4, StillProbed
<1> HIDE DEF e
<1>7. Gauge(to_finish(e)) /\ to_finish(e).dsoc = e.dsoc
  BY <1>6, GaugeToFinish
<1>8. Gauge(to_smooth(e, r)) /\ to_smooth(e, r).dsoc = e.dsoc
  BY <1>6, GaugeToSmooth
<1>9. QED
  BY <1>1, <1>3, <1>4, <1>6, <1>7, <1>8 DEF Steady

\* The calibration with a voltage at rest displays no more.
LEMMA GaugeRelax ==
  ASSUME NEW b, Gauge(b), NEW r, Reading(r)
  PROVE  LET d == relax_vol_calib(b, r) IN Gauge(d) /\ d.dsoc <= AtLeast(0, b.dsoc)
<1> DEFINE cap == vol_to_cap(b, r.relax)
           c == init_coulomb_cap(b, cap)
           s == smooth_algo_prepare(c, r)
           z == zero_algo_prepare(s, r)
<1>1. relax_vol_calib(b, r) = IF cap = b.remain_cap THEN b ELSE z
  BY Zenon DEF relax_vol_calib
<1>2. cap \in Int
  <2>1. r.relax \in Int /\ b.fcc \in Int
    BY NumbersAre DEF Reading, Gauge
  <2>2. QED
    BY <2>1, VolNumber
<1> HIDE DEF cap
<1>3. Gauge(c)
  BY <1>2, GaugeInit
<1>4. Steady(b, c)
  BY <1>2, GaugeInit
<1> HIDE DEF c
<1>5. Gauge(s) /\ Steady(c, s)
  BY <1>3, GaugeSmoothPrepare
<1> HIDE DEF s
<1>6. Gauge(z) /\ DropsSlowly(s, z, r)
  BY <1>5, GaugeZeroPrepare
<1> HIDE DEF z
<1>7. b.dsoc \in Int
  BY NumbersAre DEF Gauge
<1>8. b.dsoc <= AtLeast(0, b.dsoc)
  BY <1>7 DEF AtLeast
<1>9. QED
  BY <1>1, <1>4, <1>5, <1>6, <1>8 DEF Steady, DropsSlowly

\* The percents lost are no fewer than 0.
LEMMA SleptNumber ==
  ASSUME NEW b, Gauge(b) PROVE sleep_soc(b) \in Int /\ sleep_soc(b) >= 0
<1> DEFINE below == b.dsoc <= b.rsoc
           current == IF below THEN IF Pdata.low_pwr_sleep THEN 1 ELSE 6
                      ELSE IF Pdata.low_pwr_sleep THEN 20 ELSE 40
           used == current * b.sleep_dischrg_sec
           cap == used \div 3600
           full == DIV(b.fcc)
           percent == DIV(b.fcc \div 100)
           c == cap * 100
<1>1. sleep_soc(b) = IF below THEN c \div full ELSE cap \div percent
  BY Zenon DEF sleep_soc
<1>2. b.sleep_dischrg_sec \in Int /\ b.sleep_dischrg_sec >= 0 /\ b.fcc \in Int /\ b.fcc >= 42
  BY NumbersAre DEF Gauge, Numeric
<1>3. current \in Nat
  OBVIOUS
<1> HIDE DEF current
<1>4. used \in Int /\ used >= 0
  BY <1>2, <1>3
<1> HIDE DEF used
<1>5. cap \in Int /\ cap >= 0
  BY <1>4, DivNumber
<1>6. full \in Nat \ {0}
  BY <1>2 DEF DIV
<1>7. percent \in Nat \ {0}
  <2> DEFINE n == b.fcc \div 100
  <2>1. n \in Int /\ n >= 0
    BY <1>2
  <2> HIDE DEF n
  <2>2. DIV(n) \in Nat \ {0}
    BY <2>1 DEF DIV
  <2>3. QED
    BY <2>2 DEF n
<1> HIDE DEF cap, full, percent
<1>8. c \in Int /\ c >= 0
  BY <1>5
<1> HIDE DEF c
<1>9. c \div full \in Int /\ c \div full >= 0
  BY <1>6, <1>8, DivNumber
<1>10. cap \div percent \in Int /\ cap \div percent >= 0
  BY <1>5, <1>7, DivNumber
<1>11. QED
  BY <1>1, <1>9, <1>10

\* Sleep takes, it does not give.
LEMMA SleptLess ==
  ASSUME NEW b, Gauge(b), NEW lost \in Int, lost >= 0
  PROVE  slept_dsoc(b, lost) \in Int /\ slept_dsoc(b, lost) <= b.dsoc
<1> DEFINE tgt == b.dsoc - lost * 1000
           gap == b.dsoc - b.rsoc
           twice == lost * 2000
           pct == Pct(b.dsoc)
           ptgt == Pct(tgt)
           pgap == Pct(gap)
<1>1. b.dsoc \in Int /\ b.rsoc \in Int
  BY NumbersAre DEF Gauge
<1>2. tgt \in Int /\ tgt <= b.dsoc /\ gap \in Int /\ twice \in Int /\ twice >= 0
  BY <1>1
<1>3. ~(pct < 5) => b.dsoc >= 5000
  <2>1. CASE b.dsoc >= 0
    <3>1. pct = b.dsoc \div 1000
      BY <1>1, <2>1 DEF Pct, Quot, Abs
    <3> HIDE DEF pct
    <3>2. QED
      BY <1>1, <2>1, <3>1
  <2>2. CASE b.dsoc < 0
    <3>1. Quot(b.dsoc, 1000) \in Int /\ Quot(b.dsoc, 1000) <= 0
      BY <1>1, <2>2, QuotNumber
    <3>2. QED
      BY <3>1 DEF Pct
  <2>3. QED
    BY <1>1, <2>1, <2>2
<1>4. slept_dsoc(b, lost) =
        IF b.dsoc <= b.rsoc
        THEN IF lost = 0 THEN b.dsoc
             ELSE IF pct < 5 THEN b.dsoc - 1000
             ELSE IF ptgt < 5 THEN IF pct = 5 THEN b.dsoc - 1000 ELSE 5 * 1000
             ELSE IF ptgt > 5 THEN tgt
             ELSE b.dsoc
        ELSE IF pgap <= lost THEN b.rsoc
        ELSE IF gap - 5000 > twice THEN b.dsoc - twice
        ELSE tgt
  BY Zenon DEF slept_dsoc
<1> HIDE DEF tgt, gap, twice, pct, ptgt, pgap
<1>5. QED
  BY <1>1, <1>2, <1>3, <1>4

\* The reserve of a percent and the voltage take more, and never below 0.
LEMMA GaugeSleep ==
  ASSUME NEW b, Gauge(b), b.dsoc >= 0, NEW r, Reading(r)
  PROVE  LET d == sleep_dischrg(b, r) IN Gauge(d) /\ d.dsoc >= 0 /\ d.dsoc <= b.dsoc
<1> DEFINE relaxed == r.relax >= r.voltage
           c == IF relaxed THEN relax_vol_calib(b, r) ELSE b
           lost == sleep_soc(c)
           woken == slept_dsoc(c, lost)
           soc == IF r.voltage <= Pdata.pwroff_vol - 70 THEN 0 ELSE woken
           reserved == IF relaxed /\ lost # 0 /\ c.rsoc - soc < 5000 /\ soc < 40 * 1000
                       THEN soc - 1000 ELSE soc
           shows == AtLeast(reserved, 0)
           sec == IF lost = 0 THEN c.sleep_dischrg_sec ELSE 0
           d == [c EXCEPT !.dsoc = shows, !.sleep_dischrg_sec = sec]
<1>1. sleep_dischrg(b, r) = d
  BY Zenon DEF sleep_dischrg
<1>2. b.dsoc \in Int
  BY NumbersAre DEF Gauge
<1>3. Gauge(c) /\ c.dsoc <= AtLeast(0, b.dsoc)
  <2>1. b.dsoc <= AtLeast(0, b.dsoc)
    BY <1>2 DEF AtLeast
  <2>2. QED
    BY <2>1, GaugeRelax
<1> HIDE DEF c, relaxed
<1>4. c.dsoc \in Int /\ c.dsoc <= b.dsoc
  BY <1>2, <1>3, NumbersAre DEF Gauge, AtLeast
<1>5. lost \in Int /\ lost >= 0
  BY <1>3, SleptNumber
<1> HIDE DEF lost
<1>6. woken \in Int /\ woken <= b.dsoc
  <2>1. woken \in Int /\ woken <= c.dsoc
    BY <1>3, <1>5, SleptLess
  <2> HIDE DEF woken
  <2>2. QED
    BY <1>2, <1>4, <2>1
<1> HIDE DEF woken
<1>7. soc \in Int /\ soc <= b.dsoc
  BY <1>2, <1>6
<1> HIDE DEF soc
<1>8. reserved \in Int /\ reserved <= b.dsoc
  BY <1>2, <1>7
<1> HIDE DEF reserved
<1>9. shows \in Int /\ shows >= 0 /\ shows <= b.dsoc
  BY <1>2, <1>8 DEF AtLeast
<1>10. sec \in Int /\ sec >= 0
  BY <1>3, NumbersAre DEF Gauge, Numeric
<1> HIDE DEF shows, sec
<1>11. Gauge(d) /\ d.dsoc = shows
  <2>1. \A f \in Numbers : d[f] \in {c[f], shows, sec} /\ c[f] \in Int
    BY <1>3 DEF Gauge, Numeric, Numbers
  <2>2. /\ DOMAIN d = DOMAIN c /\ d.fcc = c.fcc /\ d.work_mode = c.work_mode
        /\ d.finish_sec = c.finish_sec /\ d.asleep_sec = c.asleep_sec
        /\ d.sleep_dischrg_sec = sec /\ d.dsoc = shows
    BY <1>3 DEF Gauge, Numeric, Numbers
  <2> HIDE DEF d
  <2>3. \A f \in Numbers : d[f] \in Int
    BY <1>9, <1>10, <2>1
  <2>4. c.asleep_sec >= 0 /\ c.finish_sec >= 0
    BY <1>3 DEF Gauge, Numeric
  <2>5. QED
    BY <1>3, <1>10, <2>2, <2>3, <2>4, StillProbed
<1>12. QED
  BY <1>1, <1>9, <1>11

\* What resume_work displays.
LEMMA GaugeSlept ==
  ASSUME NEW b, Gauge(b), b.dsoc >= 0, NEW r, Reading(r)
  PROVE  LET d == slept(b, r) IN Gauge(d) /\ d.dsoc >= 0 /\ d.dsoc <= b.dsoc
<1> DEFINE cap == capacity_uah(b)
           rsoc == get_rsoc(b)
           sec == IF b.sleep_chrg_online THEN b.sleep_dischrg_sec
                  ELSE b.sleep_dischrg_sec + b.asleep_sec
           c == [b EXCEPT !.s2r = TRUE, !.remain_cap = cap, !.rsoc = rsoc,
                          !.sleep_dischrg_sec = sec]
           step == IF r.voltage <= Pdata.pwroff_vol + 50 THEN 10 * 60 ELSE 60 * 60
           d == sleep_dischrg(c, r)
<1>1. slept(b, r) = IF ~b.sleep_chrg_online /\ c.sleep_dischrg_sec > step THEN d ELSE c
  BY Zenon DEF slept
<1>2. cap \in Int /\ rsoc \in Int
  BY CounterNumber
<1>3. sec \in Int /\ sec >= 0 /\ b.dsoc \in Int
  BY NumbersAre DEF Gauge, Numeric
<1> HIDE DEF cap, rsoc, sec, step
<1>4. Gauge(c) /\ c.dsoc = b.dsoc
  <2>1. \A f \in Numbers : c[f] \in {b[f], cap, rsoc, sec} /\ b[f] \in Int
    BY DEF Gauge, Numeric, Numbers
  <2>2. /\ DOMAIN c = DOMAIN b /\ c.fcc = b.fcc /\ c.work_mode = b.work_mode
        /\ c.finish_sec = b.finish_sec /\ c.asleep_sec = b.asleep_sec
        /\ c.sleep_dischrg_sec = sec /\ c.dsoc = b.dsoc
    BY DEF Gauge, Numeric, Numbers
  <2> HIDE DEF c
  <2>3. \A f \in Numbers : c[f] \in Int
    BY <1>2, <1>3, <2>1
  <2>4. b.asleep_sec >= 0 /\ b.finish_sec >= 0
    BY DEF Gauge, Numeric
  <2>5. QED
    BY <1>3, <2>2, <2>3, <2>4, StillProbed
<1> HIDE DEF c
<1>5. Gauge(d) /\ d.dsoc >= 0 /\ d.dsoc <= c.dsoc
  BY <1>4, GaugeSleep
<1> HIDE DEF d
<1>6. QED
  BY <1>1, <1>3, <1>4, <1>5

\* One run of resume_work.
LEMMA GaugeResume ==
  ASSUME NEW b, Gauge(b), b.dsoc >= 0, NEW r, Reading(r)
  PROVE  LET d == resume_work(b, r) IN Gauge(d) /\ d.dsoc >= 0 /\ d.dsoc <= b.dsoc
<1> DEFINE e == slept(b, r)
           d == save_data(e)
<1>1. resume_work(b, r) = d
  BY DEF resume_work
<1>2. Gauge(e) /\ e.dsoc >= 0 /\ e.dsoc <= b.dsoc
  BY GaugeSlept
<1> HIDE DEF e
<1>3. Gauge(d) /\ Steady(e, d)
  BY <1>2, GaugeSaveData
<1> HIDE DEF d
<1>4. QED
  BY <1>1, <1>2, <1>3 DEF Steady

------------------------------------------------------------------------------
(* The machine *)

\* What is saved is no more than the next boot may display.
UnderCeiling == /\ cut = "no" => rk.soc_reg <= shown
                /\ cut = "told" => rk.soc_reg <= before

Cuts == {"no", "told", "writing"}

\* When the machine runs, the record is a gauge's and userspace was told of its charge or
\* of more; when it is off, what was saved is under the ceiling.
MachineInv ==
  /\ RkInv
  /\ power \in {"off", "run", "asleep", "resumed"} /\ plugged \in BOOLEAN
  /\ shown \in Charges /\ before \in Charges /\ cut \in Cuts /\ steps \in 0..MaxSteps
  /\ delay \in {0, 1, 5, Pdata.monitor_sec} /\ last \in [voltage : Int, current : Int]
  /\ Numeric(rk) /\ Registers \subseteq DOMAIN rk
  /\ power # "off" => Gauge(rk) /\ rk.dsoc \in Charges /\ rk.dsoc <= shown /\ cut = "no"
  /\ power = "off" => UnderCeiling

\* The assumptions on the readings and the charges, as they are used.
LEMMA ReadingsAreNumbers == \A r \in Readings : Reading(r)
  BY ReadingsAssumption DEF ReadingsAssumption, Reading

LEMMA ChargesAreNumbers ==
  /\ FullSoc \in Int
  /\ \A s \in Charges : s \in Int /\ s >= 0 /\ s <= FullSoc
  /\ \A s \in Int : s >= 0 /\ s <= FullSoc => s \in Charges
<1>1. FullSoc \in Int
  BY DEF FullSoc
<1>2. QED
  BY <1>1 DEF Charges

\* What is zeroed at a boot.
LEMMA FreshNumbers ==
  ASSUME NEW b, {b.q, b.q_max, b.soc_reg, b.cap_reg, b.fcc_reg} \subseteq Int
  PROVE  /\ Numeric(Fresh(b)) /\ Registers \subseteq DOMAIN Fresh(b)
         /\ Fresh(b).rsoc = 0 /\ Fresh(b).soc_reg = b.soc_reg /\ Fresh(b).bat_con = b.bat_con
<1> DEFINE d == Fresh(b)
           Kept_fields == {"q", "q_max", "soc_reg", "cap_reg", "fcc_reg"}
<1>1. Pdata.design_qmax \in Int
  BY PdataAssumption DEF PdataAssumption
<1>2. DOMAIN d = Registers \cup DOMAIN zeroed
  BY DEF Fresh
<1>3. Numbers \ Kept_fields \subseteq DOMAIN zeroed /\ Kept_fields \subseteq Registers
  BY DEF Numbers, zeroed, Registers
<1>4. \A f \in Numbers \ Kept_fields : zeroed[f] \in Int
  BY <1>1 DEF Numbers, zeroed, Unset
<1>5. \A f \in Kept_fields : b[f] \in Int
  OBVIOUS
<1>6. (Numbers \ Kept_fields) \cap Registers = {}
  BY DEF Numbers, Registers
<1>7. \A f \in Numbers : d[f] \in Int /\ f \in DOMAIN d
  <2>1. ASSUME NEW f \in Kept_fields PROVE d[f] = b[f] /\ f \in DOMAIN d
    BY <1>3 DEF Fresh
  <2>2. ASSUME NEW f \in Numbers \ Kept_fields PROVE d[f] = zeroed[f] /\ f \in DOMAIN d
    BY <1>3, <1>6 DEF Fresh
  <2> HIDE DEF d, Kept_fields
  <2>3. QED
    BY <1>4, <1>5, <2>1, <2>2
<1>8. {"s2r", "bat_con", "is_halt", "is_initialized", "is_ocv_calib", "is_force_calib", "work_mode"}
        \subseteq DOMAIN d
  BY <1>2 DEF zeroed, Registers
<1>9. /\ d.work_mode = "ZERO" /\ d.finish_sec = 0 /\ d.sleep_dischrg_sec = 0 /\ d.asleep_sec = 0
      /\ d.rsoc = 0
  BY DEF Fresh, zeroed, Registers
<1>10. d.soc_reg = b.soc_reg /\ d.bat_con = b.bat_con
  BY DEF Fresh, Registers
<1>11. Registers \subseteq DOMAIN d
  BY <1>2
<1> HIDE DEF d
<1>12. Numeric(d)
  BY <1>7, <1>8, <1>9 DEF Numeric, Work_modes
<1>13. QED
  BY <1>9, <1>10, <1>11, <1>12 DEF d

\* The invariant holds at first, and no step breaks it.
LEMMA MachineInit == RkInit => MachineInv
<1> SUFFICES ASSUME RkInit PROVE MachineInv
  OBVIOUS
<1>1. PICK chip \in Chips, s \in SavedStates :
        /\ rk = [Fresh([f \in Registers |-> IF f = "chip" THEN chip ELSE s[f]])
                   EXCEPT !.dsoc = s.soc_reg]
        /\ shown = s.soc_reg /\ before = s.soc_reg
  BY DEF RkInit
<1> DEFINE b == [f \in Registers |-> IF f = "chip" THEN chip ELSE s[f]]
<1>2. {s.q, s.q_max, s.soc_reg, s.cap_reg, s.fcc_reg} \subseteq Int /\ s.soc_reg \in Charges
  BY SavedAssumption, ChargesAreNumbers DEF SavedAssumption
<1>3. /\ b.q = s.q /\ b.q_max = s.q_max /\ b.soc_reg = s.soc_reg /\ b.cap_reg = s.cap_reg
      /\ b.fcc_reg = s.fcc_reg
  BY DEF Registers
<1> DEFINE d == Fresh(b)
           soc == s.soc_reg
<1>4. rk = [d EXCEPT !.dsoc = soc]
  BY <1>1
<1> HIDE DEF b
<1>5. Numeric(d) /\ Registers \subseteq DOMAIN d /\ d.soc_reg = soc
  BY <1>2, <1>3, FreshNumbers
<1> HIDE DEF d
<1>6. soc \in Int /\ soc \in Charges /\ soc <= soc
  BY <1>2
<1> HIDE DEF soc
<1>7. Numeric(rk) /\ Registers \subseteq DOMAIN rk /\ rk.soc_reg = soc
  BY <1>4, <1>5, <1>6, SetNumeric DEF Numeric, Numbers
<1>8. /\ RkInv /\ power = "off" /\ plugged \in BOOLEAN /\ steps = 0 /\ cut = "no" /\ delay = 0
      /\ last = [voltage |-> 0, current |-> 0]
  BY RkInitInv DEF RkInit
<1>9. 0 \in 0..MaxSteps
  BY TimesAssumption DEF TimesAssumption
<1>10. last \in [voltage : Int, current : Int]
  BY <1>8
<1>11. shown = soc /\ before = soc
  BY <1>1 DEF soc
<1>12. QED
  BY <1>6, <1>7, <1>8, <1>9, <1>10, <1>11 DEF MachineInv, UnderCeiling, Cuts

\* What probe leaves: a charge that can be displayed, and the saved one, clamped, if the
\* gauge can be trusted.
LEMMA BootShows ==
  ASSUME MachineInv, Boot
  PROVE  /\ Gauge(rk') /\ rk'.dsoc \in Charges /\ Registers \subseteq DOMAIN rk'
         /\ ~rk.bat_con /\ Trusted(rk') => rk'.dsoc = Clamped(rk.soc_reg)
<1>1. PICK r \in Readings, off \in OffMinutes, uboot \in BOOLEAN :
        LET b == Fresh(rk)
            d == probe([b EXCEPT !.fg_init = uboot], r, off)
        IN  rk' = [d EXCEPT !.plugin_trigger = d.chip = "RK809" /\ plugged]
  BY DEF Boot
<1> DEFINE f == Fresh(rk)
           b == [f EXCEPT !.fg_init = uboot]
           d == probe(b, r, off)
           trigger == d.chip = "RK809" /\ plugged
<1>2. rk' = [d EXCEPT !.plugin_trigger = trigger]
  BY <1>1
<1>3. power = "off" /\ Numeric(rk)
  BY DEF Boot, MachineInv
<1>4. /\ Numeric(f) /\ Registers \subseteq DOMAIN f
      /\ f.rsoc = 0 /\ f.soc_reg = rk.soc_reg /\ f.bat_con = rk.bat_con
  <2>1. {rk.q, rk.q_max, rk.soc_reg, rk.cap_reg, rk.fcc_reg} \subseteq Int
    BY <1>3, NumbersAre
  <2>2. QED
    BY <2>1, FreshNumbers
<1> HIDE DEF f
<1>5. /\ Numeric(b) /\ Registers \subseteq DOMAIN b
      /\ b.rsoc = 0 /\ b.soc_reg = rk.soc_reg /\ b.bat_con = rk.bat_con
  <2>1. \A n \in Numbers : b[n] \in Int
    BY <1>4 DEF Numeric, Numbers
  <2>2. /\ DOMAIN b = DOMAIN f /\ b.work_mode = f.work_mode /\ b.finish_sec = f.finish_sec
        /\ b.sleep_dischrg_sec = f.sleep_dischrg_sec /\ b.asleep_sec = f.asleep_sec
        /\ b.rsoc = f.rsoc /\ b.soc_reg = f.soc_reg /\ b.bat_con = f.bat_con
    BY <1>4 DEF Numeric, Numbers
  <2> HIDE DEF b
  <2>3. QED
    BY <1>4, <2>1, <2>2 DEF Numeric
<1>6. DOMAIN d = DOMAIN b
  <2>1. HasCharge(b)
    BY <1>5 DEF Numeric, Numbers, HasCharge
  <2>2. QED
    BY <2>1, Probe DEF Fields
<1> HIDE DEF b
<1>7. Reading(r)
  BY ReadingsAreNumbers
<1>8. Gauge(d) /\ d.dsoc \in Charges
  BY <1>3, <1>5, <1>7, GaugeProbe
<1>9. ~rk.bat_con /\ Trusted(d) => d.dsoc = Clamped(rk.soc_reg)
  BY <1>3, <1>5, <1>7, GaugeProbe
<1> HIDE DEF d, trigger
<1>10. Gauge(rk') /\ rk'.dsoc = d.dsoc /\ DOMAIN rk' = DOMAIN d /\ Found(d, rk')
  <2> DEFINE e == [d EXCEPT !.plugin_trigger = trigger]
  <2>1. \A n \in Numbers : e[n] \in Int
    BY <1>8 DEF Gauge, Numeric, Numbers
  <2>2. SaidOf(d, e) /\ e.dsoc = d.dsoc
    BY <1>8 DEF Gauge, Numeric, Numbers, SaidOf
  <2>3. Found(d, e)
    BY DEF Found
  <2>4. rk' = e
    BY <1>2
  <2> HIDE DEF e
  <2>5. QED
    BY <1>8, <2>1, <2>2, <2>3, <2>4, StillGauge DEF SaidOf
<1>11. QED
  BY <1>5, <1>6, <1>8, <1>9, <1>10 DEF Trusted, Found

\* What one run of the work does to the charge.
LEMMA WorkShows ==
  ASSUME MachineInv, NEW r \in Readings, WorkFinds(r)
  PROVE  /\ Gauge(rk') /\ rk'.dsoc \in Charges /\ rk'.old_soc = rk'.dsoc
         /\ DOMAIN rk' = DOMAIN rk
         /\ Enough(r) => rk'.dsoc >= rk.dsoc - 2000
         /\ r.current < 0 /\ rk.work_mode # "FINISH" => rk'.dsoc <= rk.dsoc
<1> DEFINE sec == delay
           p == Pass(rk, sec)
           c == Counted(p, r)
           d == battery_work(c, r)
<1>1. rk' = d /\ Gauge(rk) /\ rk.dsoc \in Charges
  BY DEF WorkFinds, MachineInv
<1>2. sec \in Nat /\ Reading(r)
  BY PdataAssumption, ReadingsAreNumbers DEF PdataAssumption, MachineInv
<1>3. DOMAIN c = DOMAIN rk
  BY TimePasses DEF Kept
<1> HIDE DEF sec
<1>4. Gauge(p) /\ Same(rk, p)
  BY <1>1, <1>2, GaugePass
<1> HIDE DEF p
<1>5. Gauge(c) /\ Same(p, c)
  BY <1>2, <1>4, GaugeCounted
<1> HIDE DEF c
<1>6. c.dsoc \in Charges /\ c.dsoc = rk.dsoc /\ c.work_mode = rk.work_mode
  BY <1>1, <1>4, <1>5 DEF Same
<1>7. DOMAIN d = DOMAIN c
  <2>1. HasCharge(c)
    BY <1>5 DEF Gauge, Numeric, Numbers, HasCharge
  <2>2. QED
    BY <2>1, BatteryWork DEF Fields
<1>8. Gauge(d) /\ d.dsoc \in Charges /\ d.old_soc = d.dsoc
  BY <1>2, <1>5, <1>6, GaugeWork
<1>9. Enough(r) => d.dsoc >= c.dsoc - 2000
  BY <1>2, <1>5, <1>6, GaugeWork
<1>10. r.current < 0 /\ c.work_mode # "FINISH" => d.dsoc <= c.dsoc
  BY <1>2, <1>5, <1>6, GaugeWork
<1> HIDE DEF d
<1>11. QED
  BY <1>1, <1>3, <1>6, <1>7, <1>8, <1>9, <1>10

\* resume_work takes, it does not give.
LEMMA ResumeTakes ==
  ASSUME MachineInv, ResumeWork
  PROVE  /\ Gauge(rk') /\ rk'.dsoc \in Charges /\ rk'.dsoc <= rk.dsoc
         /\ DOMAIN rk' = DOMAIN rk
<1>1. PICK r \in Readings : rk' = resume_work(rk, r)
  BY DEF ResumeWork
<1>2. Gauge(rk) /\ rk.dsoc \in Charges /\ HasCharge(rk) /\ Reading(r)
  BY ReadingsAreNumbers DEF ResumeWork, MachineInv, RkInv
<1>3. rk.dsoc \in Int /\ rk.dsoc >= 0 /\ rk.dsoc <= FullSoc /\ FullSoc \in Int
  BY <1>2, ChargesAreNumbers
<1> DEFINE d == resume_work(rk, r)
<1>4. Gauge(d) /\ d.dsoc >= 0 /\ d.dsoc <= rk.dsoc
  BY <1>2, <1>3, GaugeResume
<1>5. DOMAIN d = DOMAIN rk
  BY <1>2, ResumeWorkSaves DEF Fields
<1> HIDE DEF d
<1>6. d.dsoc \in Charges
  <2>1. d.dsoc \in Int
    BY <1>4, NumbersAre DEF Gauge
  <2>2. d.dsoc <= FullSoc
    BY <1>3, <1>4, <2>1
  <2>3. QED
    BY <1>4, <2>1, <2>2, ChargesAreNumbers
<1>7. QED
  BY <1>1, <1>4, <1>5, <1>6 DEF d

\* suspend and the time asleep leave the charge alone.
LEMMA SuspendShows ==
  ASSUME MachineInv, Suspend
  PROVE  Gauge(rk') /\ rk'.dsoc = rk.dsoc /\ DOMAIN rk' = DOMAIN rk
<1>1. PICK r \in Readings : rk' = suspend(rk, r, last)
  BY DEF Suspend
<1>2. Gauge(rk) /\ HasCharge(rk) /\ Reading(r)
  BY ReadingsAreNumbers DEF Suspend, MachineInv, RkInv
<1>3. QED
  BY <1>1, <1>2, GaugeSuspend, SuspendSaves DEF Fields

\* The time asleep.
LEMMA WakeShows ==
  ASSUME MachineInv, Wake
  PROVE  Gauge(rk') /\ rk'.dsoc = rk.dsoc /\ DOMAIN rk' = DOMAIN rk
<1>1. PICK r \in Readings, sec \in SleepSecs :
        rk' = [Pass(Counted(rk, r), sec) EXCEPT !.asleep_sec = rk.asleep_sec + sec]
  BY DEF Wake
<1> DEFINE c == Counted(rk, r)
           p == Pass(c, sec)
           time == rk.asleep_sec + sec
           d == [p EXCEPT !.asleep_sec = time]
<1>2. Gauge(rk) /\ Reading(r) /\ sec \in Nat
  BY ReadingsAreNumbers, TimesAssumption DEF Wake, MachineInv, TimesAssumption
<1>3. DOMAIN p = DOMAIN rk
  BY TimePasses DEF Kept
<1>4. Gauge(c) /\ Same(rk, c)
  BY <1>2, GaugeCounted
<1> HIDE DEF c
<1>5. Gauge(p) /\ Same(c, p)
  BY <1>2, <1>4, GaugePass
<1> HIDE DEF p
<1>6. time \in Int /\ time >= 0
  BY <1>2, NumbersAre DEF Gauge, Numeric
<1>7. rk' = d
  BY <1>1 DEF p, c
<1> HIDE DEF time
<1>8. Gauge(d) /\ d.dsoc = p.dsoc /\ DOMAIN d = DOMAIN p
  <2>1. \A f \in Numbers : d[f] \in {p[f], time} /\ p[f] \in Int
    BY <1>5 DEF Gauge, Numeric, Numbers
  <2>2. /\ DOMAIN d = DOMAIN p /\ d.fcc = p.fcc /\ d.work_mode = p.work_mode
        /\ d.finish_sec = p.finish_sec /\ d.asleep_sec = time
        /\ d.sleep_dischrg_sec = p.sleep_dischrg_sec /\ d.dsoc = p.dsoc
    BY <1>5 DEF Gauge, Numeric, Numbers
  <2> HIDE DEF d
  <2>3. \A f \in Numbers : d[f] \in Int
    BY <1>6, <2>1
  <2>4. p.finish_sec >= 0 /\ p.sleep_dischrg_sec >= 0
    BY <1>5 DEF Gauge, Numeric
  <2>5. QED
    BY <1>5, <1>6, <2>2, <2>3, <2>4, StillProbed
<1> HIDE DEF d
<1>9. QED
  BY <1>3, <1>4, <1>5, <1>7, <1>8 DEF Same

------------------------------------------------------------------------------
(* The loss of power *)

\* The numbers that a loss of power leaves.
Stored(b) == {b.q, b.q_max, b.soc_reg, b.cap_reg, b.fcc_reg, b.dsoc} \subseteq Int

LEMMA NumericStored == ASSUME NEW b, Numeric(b) PROVE Stored(b)
  BY NumbersAre DEF Stored

LEMMA LostNumbers ==
  ASSUME NEW b, Stored(b)
  PROVE  Numeric(Lost(b)) /\ Registers \subseteq DOMAIN Lost(b) /\ Lost(b).soc_reg = b.soc_reg
<1> DEFINE d == Fresh(b)
           soc == b.dsoc
<1>1. Numeric(d) /\ Registers \subseteq DOMAIN d
  BY FreshNumbers DEF Stored
<1>2. Lost(b) = [d EXCEPT !.dsoc = soc] /\ soc \in Int
  BY DEF Lost, Stored
<1>3. Lost(b).soc_reg = b.soc_reg
  BY LostCharge
<1> HIDE DEF d, soc
<1>4. QED
  BY <1>1, <1>2, <1>3, SetNumeric

\* What is found after the moment m is numbers, under the ceiling if userspace had been told
\* of was before.
Safe(m, was) == /\ Stored(m.rk)
                /\ m.shown \in Charges /\ m.cut \in Cuts
                /\ m.cut = "no" => m.rk.soc_reg <= m.shown
                /\ m.cut = "told" => m.rk.soc_reg <= was

LEMMA MomentSafe ==
  ASSUME NEW b, Numeric(b), NEW soc \in Int, NEW told \in Charges, NEW where \in Cuts, NEW was,
         where = "no" => soc <= told, where = "told" => soc <= was
  PROVE  Safe(Moment(b, soc, told, where), was)
<1> DEFINE d == [b EXCEPT !.soc_reg = soc]
<1>1. Stored(d) /\ d.soc_reg = soc
  BY SetNumeric, NumericStored DEF Numeric, Numbers
<1>2. Moment(b, soc, told, where) = [rk |-> d, shown |-> told, cut |-> where]
  BY DEF Moment
<1> HIDE DEF d
<1>3. QED
  BY <1>1, <1>2 DEF Safe

\* What the registers hold while they are written is numbers.
LEMMA TornNumber ==
  ASSUME NEW old \in Int, NEW new \in Int
  PROVE  Torn(old, new) \subseteq Int /\ TornCap(old, new) \subseteq Int
<1>1. ASSUME NEW a \in Int, NEW c \in Int, NEW w \in {256, 65536}
      PROVE  (a % w) + ((c \div w) * w) \in Int /\ ((c \div w) * w) + (a % w) \in Int
  <2>1. CASE w = 256
    BY <2>1
  <2>2. CASE w = 65536
    BY <2>2
  <2>3. QED
    BY <2>1, <2>2
<1>2. QED
  BY <1>1 DEF Torn, TornCap

LEMMA SavingSafe ==
  ASSUME NEW old \in Int, NEW b, Gauge(b), NEW told \in Charges, b.dsoc <= told, NEW was,
         NEW m \in Saving(old, b, told)
  PROVE  Safe(m, was)
<1> DEFINE soc == b.dsoc
           new == save_data(b).cap_reg
<1>1. Numeric(b) /\ soc \in Int /\ b.cap_reg \in Int /\ new \in Int
  BY GaugeSaveData, NumbersAre DEF Gauge
<1>2. \/ \E s \in Torn(old, soc) : m = Moment(b, s, told, "writing")
      \/ \E cap \in {b.cap_reg} \cup TornCap(b.cap_reg, new) :
           m = Moment([b EXCEPT !.cap_reg = cap], soc, told, "no")
  BY DEF Saving
<1> HIDE DEF new
<1>3. ASSUME NEW s \in Torn(old, soc), m = Moment(b, s, told, "writing") PROVE Safe(m, was)
  <2>1. s \in Int
    BY <1>1, TornNumber
  <2>2. QED
    BY <1>1, <1>3, <2>1, MomentSafe DEF Cuts
<1>4. ASSUME NEW cap \in {b.cap_reg} \cup TornCap(b.cap_reg, new),
             m = Moment([b EXCEPT !.cap_reg = cap], soc, told, "no")
      PROVE  Safe(m, was)
  <2> DEFINE d == [b EXCEPT !.cap_reg = cap]
  <2>1. cap \in Int
    BY <1>1, TornNumber
  <2>2. Numeric(d)
    BY <1>1, <2>1, SetNumeric
  <2>3. soc <= told
    OBVIOUS
  <2> HIDE DEF d, soc
  <2>4. QED
    BY <1>1, <1>4, <2>2, <2>3, MomentSafe DEF Cuts, d
<1>5. QED
  BY <1>2, <1>3, <1>4

LEMMA WorkSafe ==
  ASSUME NEW b, Gauge(b), NEW r, Reading(r), shown \in Charges, b.soc_reg <= shown,
         NEW m \in WorkMoments(b, displayed(b, r))
  PROVE  Safe(m, shown)
<1> DEFINE d == displayed(b, r)
           t == power_supply_changed(d)
           n == d.q
           c == [b EXCEPT !.q = n]
           full == d.soc_reg # b.soc_reg
           where == IF full THEN "writing" ELSE "told"
<1>1. Gauge(d)
  BY GaugeDisplayed
<1>2. \/ m = Moment(c, b.soc_reg, shown, "no")
      \/ \E soc \in IF full THEN Torn(b.soc_reg, d.soc_reg) \cup {d.soc_reg} ELSE {} :
           m = Moment(d, soc, shown, "writing")
      \/ m = Moment(t, d.soc_reg, t.old_soc, where)
      \/ m \in Saving(d.soc_reg, t, t.old_soc)
  BY DEF WorkMoments
<1> HIDE DEF d
<1>3. Gauge(t) /\ t.dsoc = Clamped(d.dsoc) /\ t.old_soc = t.dsoc
  BY <1>1, GaugeChanged
<1> HIDE DEF t
<1>4. /\ Numeric(b) /\ Numeric(d) /\ Numeric(t)
      /\ b.soc_reg \in Int /\ d.soc_reg \in Int /\ n \in Int /\ d.dsoc \in Int
  BY <1>1, <1>3, NumbersAre DEF Gauge
<1>5. t.old_soc \in Charges /\ t.dsoc <= t.old_soc
  BY <1>3, <1>4, ClampedCharge, ChargesAreNumbers
<1>6. CASE m = Moment(c, b.soc_reg, shown, "no")
  <2> HIDE DEF n
  <2>1. Numeric(c)
    BY <1>4, SetNumeric
  <2> HIDE DEF c
  <2>2. QED
    BY <1>4, <1>6, <2>1, MomentSafe DEF Cuts
<1>7. ASSUME NEW soc \in IF full THEN Torn(b.soc_reg, d.soc_reg) \cup {d.soc_reg} ELSE {},
             m = Moment(d, soc, shown, "writing")
      PROVE  Safe(m, shown)
  <2>1. soc \in Int
    BY <1>4, TornNumber
  <2>2. QED
    BY <1>4, <1>7, <2>1, MomentSafe DEF Cuts
<1>8. CASE m = Moment(t, d.soc_reg, t.old_soc, where)
  <2>1. where \in Cuts /\ where # "no" /\ (where = "told" => d.soc_reg <= shown)
    BY DEF Cuts
  <2> HIDE DEF where
  <2>2. QED
    BY <1>4, <1>5, <1>8, <2>1, MomentSafe
<1>9. CASE m \in Saving(d.soc_reg, t, t.old_soc)
  BY <1>3, <1>4, <1>5, <1>9, SavingSafe
<1>10. QED
  BY <1>2, <1>6, <1>7, <1>8, <1>9

LEMMA ResumeSafe ==
  ASSUME NEW b, Gauge(b), b.dsoc \in Charges, NEW r, Reading(r), shown \in Charges,
         b.soc_reg = b.dsoc, b.dsoc <= shown, NEW m \in ResumeMoments(b, slept(b, r))
  PROVE  Safe(m, shown)
<1> DEFINE d == slept(b, r)
           n == d.q
           c == [b EXCEPT !.q = n]
<1>1. Gauge(d) /\ d.dsoc <= b.dsoc
  BY GaugeSlept, ChargesAreNumbers
<1>2. m = Moment(c, b.soc_reg, shown, "no") \/ m \in Saving(b.soc_reg, d, shown)
  BY DEF ResumeMoments
<1> HIDE DEF d
<1>3. Numeric(b) /\ n \in Int /\ b.soc_reg \in Int /\ b.dsoc \in Int /\ d.dsoc \in Int /\ shown \in Int
  BY <1>1, NumbersAre, ChargesAreNumbers DEF Gauge
<1> HIDE DEF n
<1>4. Numeric(c)
  BY <1>3, SetNumeric
<1> HIDE DEF c
<1>5. d.dsoc <= shown
  BY <1>1, <1>3
<1>6. QED
  BY <1>1, <1>2, <1>3, <1>4, <1>5, MomentSafe, SavingSafe DEF Cuts

LEMMA SuspendSafe ==
  ASSUME NEW b, Gauge(b), shown \in Charges, b.dsoc <= shown, NEW m \in SuspendMoments(b)
  PROVE  Safe(m, shown)
<1> DEFINE cap == capacity_uah(b)
           d == [b EXCEPT !.remain_cap = cap]
<1>1. cap \in Int /\ b.soc_reg \in Int
  BY CounterNumber, NumbersAre DEF Gauge
<1>2. m \in Saving(b.soc_reg, d, shown)
  BY DEF SuspendMoments
<1> HIDE DEF cap
<1>3. Numeric(d) /\ d.fcc = b.fcc /\ d.dsoc = b.dsoc
  BY <1>1, SetNumeric DEF Gauge, Numeric, Numbers
<1> HIDE DEF d
<1>4. QED
  BY <1>1, <1>2, <1>3, SavingSafe DEF Gauge

LEMMA BootSafe ==
  ASSUME NEW b, Numeric(b), b.rsoc = 0, NEW r, Reading(r), NEW off,
         rk.dsoc \in Int, shown \in Charges, cut \in Cuts,
         cut = "no" => b.soc_reg <= shown, cut = "told" => b.soc_reg <= before,
         NEW m \in BootMoments(b, pwron(b, r, off), rsoc_init(b, r, off), probe(b, r, off))
  PROVE  Safe(m, before)
<1> DEFINE first == first_pwron(b, r)
           next == not_first_pwron(b, r, off)
           d == pwron(b, r, off)
           e == rsoc_init(b, r, off)
           f == probe(b, r, off)
           Passes(old, new) == {old, new} \cup Torn(old, new)
           Of(c, soc) == Moment([c EXCEPT !.dsoc = rk.dsoc], soc, shown,
                                IF soc = b.soc_reg THEN cut ELSE "writing")
<1>1. Gauge(first) /\ Gauge(next) /\ Gauge(e) /\ Gauge(f)
  BY GaugeFirst, GaugeNotFirst, GaugeRsocInit, GaugeProbe
<1>2. \/ \E soc \in Passes(b.soc_reg, d.dsoc) \cup Passes(d.dsoc, e.dsoc) : m = Of(d, soc)
      \/ \E soc \in Passes(e.dsoc, f.dsoc) : m = Of(f, soc)
  BY DEF BootMoments
<1>3. Numeric(d)
  BY <1>1 DEF pwron, Gauge
<1> HIDE DEF d, e, f
<1>4. /\ Numeric(f) /\ Numeric(e)
      /\ b.soc_reg \in Int /\ d.dsoc \in Int /\ e.dsoc \in Int /\ f.dsoc \in Int
  BY <1>1, <1>3, NumbersAre DEF Gauge
<1>5. ASSUME NEW old \in Int, NEW new \in Int PROVE Passes(old, new) \subseteq Int
  BY TornNumber
<1> HIDE DEF Passes
<1>6. ASSUME NEW c, Numeric(c), NEW soc \in Int, m = Of(c, soc) PROVE Safe(m, before)
  <2> DEFINE n == rk.dsoc
             a == [c EXCEPT !.dsoc = n]
             where == IF soc = b.soc_reg THEN cut ELSE "writing"
  <2>1. where \in Cuts /\ (where = "no" => soc <= shown) /\ (where = "told" => soc <= before)
    BY DEF Cuts
  <2>2. m = Moment(a, soc, shown, where)
    BY <1>6
  <2> HIDE DEF n, where
  <2>3. Numeric(a)
    BY <1>6, SetNumeric DEF n
  <2> HIDE DEF a
  <2>4. QED
    BY <2>1, <2>2, <2>3, MomentSafe
<1> HIDE DEF Of
<1>7. QED
  BY <1>2, <1>3, <1>4, <1>5, <1>6

LEMMA StepsBound == ASSUME MachineInv, Stepping PROVE steps' \in 0..MaxSteps
  BY TimesAssumption DEF Stepping, TimesAssumption, MachineInv

LEMMA CutKeeps ==
  ASSUME MachineInv, RkInv', NEW moments, CutAt(moments), Stepping, before' \in Charges,
         \A m \in moments : Safe(m, before')
  PROVE  MachineInv'
<1>1. PICK m \in moments : rk' = Lost(m.rk) /\ shown' = m.shown /\ cut' = m.cut
  BY DEF CutAt
<1>2. Safe(m, before')
  BY <1>1
<1>3. Numeric(rk') /\ Registers \subseteq DOMAIN rk' /\ rk'.soc_reg = m.rk.soc_reg
  BY <1>1, <1>2, LostNumbers DEF Safe
<1>4. steps' \in 0..MaxSteps
  BY StepsBound
<1>5. power' = "off" /\ plugged' = plugged /\ delay' = delay /\ last' = last
  BY DEF CutAt
<1>6. QED
  BY <1>1, <1>2, <1>3, <1>4, <1>5 DEF MachineInv, UnderCeiling, Safe

LEMMA BootCutKeeps == ASSUME MachineInv, RkInv', BootCut PROVE MachineInv'
<1>1. PICK r \in Readings, off \in OffMinutes, uboot \in BOOLEAN :
        LET b == [Fresh(rk) EXCEPT !.fg_init = uboot]
        IN  CutAt(BootMoments(b, pwron(b, r, off), rsoc_init(b, r, off), probe(b, r, off)))
  BY DEF BootCut
<1> DEFINE f == Fresh(rk)
           b == [f EXCEPT !.fg_init = uboot]
<1>2. CutAt(BootMoments(b, pwron(b, r, off), rsoc_init(b, r, off), probe(b, r, off)))
  BY <1>1
<1>3. Numeric(f) /\ f.rsoc = 0 /\ f.soc_reg = rk.soc_reg
  BY FreshNumbers, NumbersAre DEF MachineInv
<1> HIDE DEF f
<1>4. Numeric(b) /\ b.rsoc = 0 /\ b.soc_reg = rk.soc_reg
  <2>1. \A n \in Numbers : b[n] \in Int
    BY <1>3 DEF Numeric, Numbers
  <2>2. /\ DOMAIN b = DOMAIN f /\ b.work_mode = f.work_mode /\ b.finish_sec = f.finish_sec
        /\ b.sleep_dischrg_sec = f.sleep_dischrg_sec /\ b.asleep_sec = f.asleep_sec
        /\ b.rsoc = f.rsoc /\ b.soc_reg = f.soc_reg
    BY <1>3 DEF Numeric, Numbers
  <2> HIDE DEF b
  <2>3. QED
    BY <1>3, <2>1, <2>2 DEF Numeric
<1> HIDE DEF b
<1>5. /\ rk.dsoc \in Int /\ shown \in Charges /\ before \in Charges /\ cut \in Cuts
      /\ cut = "no" => b.soc_reg <= shown
      /\ cut = "told" => b.soc_reg <= before
  BY <1>4, NumbersAre DEF MachineInv, BootCut, UnderCeiling
<1>6. Reading(r)
  BY ReadingsAreNumbers
<1>7. \A m \in BootMoments(b, pwron(b, r, off), rsoc_init(b, r, off), probe(b, r, off)) :
        Safe(m, before)
  BY <1>4, <1>5, <1>6, BootSafe
<1>8. before' = before /\ Stepping
  BY DEF BootCut
<1>9. QED
  BY <1>2, <1>5, <1>7, <1>8, CutKeeps

LEMMA WorkCutKeeps == ASSUME MachineInv, RkInv', WorkCut PROVE MachineInv'
<1>1. PICK r \in Readings :
        LET b == Counted(Pass(rk, delay), r)
        IN  CutAt(WorkMoments(b, displayed(b, r)))
  BY DEF WorkCut
<1> DEFINE p == Pass(rk, delay)
           c == Counted(p, r)
<1>2. Gauge(rk) /\ delay \in Nat /\ Reading(r) /\ rk.dsoc <= shown /\ shown \in Charges
  BY PdataAssumption, ReadingsAreNumbers DEF WorkCut, MachineInv, PdataAssumption
<1>3. rk.soc_reg = rk.dsoc
  BY DEF WorkCut, MachineInv, RkInv, SavedIsDisplayed
<1>4. Gauge(p) /\ p.soc_reg = rk.soc_reg
  BY <1>2, GaugePass
<1> HIDE DEF p
<1>5. Gauge(c) /\ c.soc_reg = p.soc_reg
  BY <1>2, <1>4, GaugeCounted
<1>6. CutAt(WorkMoments(c, displayed(c, r))) /\ Stepping /\ before' = shown
  BY <1>1 DEF p, WorkCut
<1> HIDE DEF c
<1>7. \A m \in WorkMoments(c, displayed(c, r)) : Safe(m, shown)
  BY <1>2, <1>3, <1>4, <1>5, WorkSafe
<1>8. QED
  BY <1>2, <1>6, <1>7, CutKeeps

LEMMA SuspendCutKeeps == ASSUME MachineInv, RkInv', SuspendCut PROVE MachineInv'
<1>1. Gauge(rk) /\ rk.dsoc <= shown /\ shown \in Charges
  BY DEF SuspendCut, MachineInv
<1>2. \A m \in SuspendMoments(rk) : Safe(m, shown)
  BY <1>1, SuspendSafe
<1>3. CutAt(SuspendMoments(rk)) /\ Stepping /\ before' = shown
  BY DEF SuspendCut
<1>4. QED
  BY <1>1, <1>2, <1>3, CutKeeps

LEMMA ResumeWorkCutKeeps == ASSUME MachineInv, RkInv', ResumeWorkCut PROVE MachineInv'
<1>1. PICK r \in Readings : CutAt(ResumeMoments(rk, slept(rk, r)))
  BY DEF ResumeWorkCut
<1>2. /\ Gauge(rk) /\ rk.dsoc \in Charges /\ rk.dsoc <= shown /\ shown \in Charges
      /\ rk.soc_reg = rk.dsoc /\ Reading(r)
  BY ReadingsAreNumbers DEF ResumeWorkCut, MachineInv, RkInv, SavedIsDisplayed
<1>3. \A m \in ResumeMoments(rk, slept(rk, r)) : Safe(m, shown)
  BY <1>2, ResumeSafe
<1>4. Stepping /\ before' = shown
  BY DEF ResumeWorkCut
<1>5. QED
  BY <1>1, <1>2, <1>3, <1>4, CutKeeps

\* Every step keeps it.
LEMMA MachineStep == MachineInv /\ [RkNext]_rkVars => MachineInv'
<1> SUFFICES ASSUME MachineInv, [RkNext]_rkVars PROVE MachineInv'
  OBVIOUS
<1> USE DEF MachineInv
<1>0. /\ RkInv' /\ Registers \subseteq DOMAIN rk
      /\ Numeric(rk) /\ shown \in Charges /\ before \in Charges
      /\ power # "off" => Gauge(rk) /\ rk.dsoc \in Charges /\ rk.dsoc <= shown
  BY RkStep
<1>a. Stepping => steps' \in 0..MaxSteps
  BY StepsBound
<1> DEFINE Runs == /\ Gauge(rk') /\ rk'.dsoc \in Charges /\ rk'.dsoc <= shown'
                   /\ shown' \in Charges /\ before' \in Charges
                   /\ Registers \subseteq DOMAIN rk'
<1>b. Gauge(rk') => Numeric(rk')
  BY DEF Gauge
<1>c. \A s \in Charges : s <= s
  BY ChargesAreNumbers
<1>d. ASSUME NEW r \in Readings
      PROVE  Avg(r) \in [voltage : Int, current : Int] /\ r.current \in Int
  BY ReadingsAreNumbers DEF Reading, Avg
<1>1. CASE Boot
  <2>1. Runs
    BY <1>1, <1>c, BootShows DEF Boot, Tell
  <2>2. QED
    BY <1>0, <1>a, <1>b, <1>d, <1>1, <2>1 DEF Boot, Cuts
<1>2. CASE Work
  <2>1. PICK r \in Readings : WorkFinds(r)
    BY <1>2 DEF Work
  <2>2. Runs
    BY <1>0, <1>2, <1>c, <2>1, WorkShows DEF Work, Tell
  <2>3. QED
    BY <1>0, <1>a, <1>b, <1>d, <1>2, <2>2 DEF Work, WorkFinds
<1>3. CASE Plug
  <2> DEFINE trigger == power # "off" /\ rk.chip = "RK809" /\ plugged'
             d == [rk EXCEPT !.plugin_trigger = trigger]
  <2>1. rk' = d
    BY <1>3 DEF Plug
  <2> HIDE DEF trigger
  <2>2. /\ DOMAIN d = DOMAIN rk /\ d.dsoc = rk.dsoc /\ d.soc_reg = rk.soc_reg
        /\ d.fcc = rk.fcc /\ Numeric(d)
    <3>1. \A f \in Numbers : d[f] \in Int
      BY <1>0 DEF Numeric, Numbers
    <3>2. /\ DOMAIN d = DOMAIN rk /\ d.dsoc = rk.dsoc /\ d.soc_reg = rk.soc_reg
          /\ d.fcc = rk.fcc /\ d.work_mode = rk.work_mode /\ d.finish_sec = rk.finish_sec
          /\ d.sleep_dischrg_sec = rk.sleep_dischrg_sec /\ d.asleep_sec = rk.asleep_sec
      BY <1>0 DEF Numeric, Numbers
    <3> HIDE DEF d
    <3>3. QED
      BY <1>0, <3>1, <3>2 DEF Numeric
  <2> HIDE DEF d
  <2>3. Gauge(rk) => Gauge(d)
    BY <2>2 DEF Gauge
  <2>4. power # "off" => shown' \in Charges /\ before' \in Charges /\ rk.dsoc <= shown'
    BY <1>0, <1>3, <1>c DEF Plug, Tell
  <2>5. power = "off" => shown' = shown /\ before' = before
    BY <1>3 DEF Plug
  <2>6. /\ power' = power /\ plugged' \in BOOLEAN /\ Stepping
        /\ cut' = cut /\ delay' = delay /\ last' = last
    BY <1>3 DEF Plug
  <2>7. QED
    BY <1>0, <1>a, <2>1, <2>2, <2>3, <2>4, <2>5, <2>6 DEF UnderCeiling
<1>4. CASE Suspend
  <2>1. Runs
    BY <1>0, <1>4, SuspendShows DEF Suspend
  <2>2. QED
    <3>1. last' \in [voltage : Int, current : Int]
      BY <1>4, <1>d DEF Suspend
    <3>2. QED
      BY <1>0, <1>a, <1>b, <1>4, <2>1, <3>1 DEF Suspend
<1>5. CASE Wake
  <2>1. Runs
    BY <1>0, <1>5, WakeShows DEF Wake
  <2>2. QED
    BY <1>0, <1>a, <1>b, <1>5, <2>1 DEF Wake
<1>6. CASE ResumeWork
  <2>1. Gauge(rk') /\ rk'.dsoc \in Charges /\ rk'.dsoc <= rk.dsoc /\ DOMAIN rk' = DOMAIN rk
    BY <1>6, ResumeTakes
  <2>2. rk.dsoc <= shown /\ rk.dsoc \in Int /\ rk'.dsoc \in Int /\ shown \in Int /\ shown' = shown
    BY <1>0, <1>6, <2>1, ChargesAreNumbers DEF ResumeWork
  <2>3. Runs
    BY <1>0, <1>6, <2>1, <2>2 DEF ResumeWork
  <2>4. QED
    BY <1>0, <1>a, <1>b, <1>d, <1>6, <2>3 DEF ResumeWork
<1>7. CASE PowerOff
  <2>1. PICK r \in Readings : rk' = Lost(Counted(rk, r))
    BY <1>7 DEF PowerOff
  <2> DEFINE c == Counted(rk, r)
  <2>2. Gauge(rk) /\ rk.dsoc \in Charges /\ rk.dsoc <= shown /\ rk.soc_reg = rk.dsoc
    BY <1>0, <1>7 DEF PowerOff, RkInv, SavedIsDisplayed
  <2>3. Gauge(c) /\ c.soc_reg = rk.soc_reg
    BY <2>2, GaugeCounted, ReadingsAreNumbers
  <2> HIDE DEF c
  <2>4. Numeric(rk') /\ Registers \subseteq DOMAIN rk' /\ rk'.soc_reg = rk.soc_reg
    BY <2>1, <2>3, LostNumbers, NumericStored DEF Gauge, c
  <2>5. QED
    BY <1>0, <1>a, <1>7, <2>2, <2>4 DEF PowerOff, UnderCeiling
<1>8. CASE PowerCut
  BY <1>0, <1>8, BootCutKeeps, WorkCutKeeps, SuspendCutKeeps, ResumeWorkCutKeeps DEF PowerCut
<1>9. CASE UNCHANGED rkVars
  BY <1>0, <1>9 DEF rkVars, UnderCeiling
<1>10. QED
  BY <1>1, <1>2, <1>3, <1>4, <1>5, <1>6, <1>7, <1>8, <1>9 DEF RkNext

\* It holds in every state of every behaviour.
LEMMA MachineAlways == RkSpec => []MachineInv
  BY MachineInit, MachineStep, PTL DEF RkSpec

------------------------------------------------------------------------------
(* What follows *)

\* A charge that can be displayed is read as 0 to 100 percent.
LEMMA CapacityRead ==
  ASSUME NEW b, b.dsoc \in Charges PROVE get_capacity(b) \in 0..100
<1> DEFINE s == b.dsoc
           k == (s + 500) \div 1000
<1>1. s \in Int /\ s >= 0 /\ s <= 100 * 1000
  BY ChargesAreNumbers DEF FullSoc
<1>2. get_capacity(b) = k
  BY <1>1 DEF get_capacity, Quot, Abs
<1> HIDE DEF s
<1>3. k \in Int /\ k >= 0 /\ k <= 100
  BY <1>1
<1> HIDE DEF k
<1>4. QED
  BY <1>2, <1>3

\* The charge of the record is one that can be displayed, and userspace reads 0 to 100 %,
\* in every mode, after any sleep, and for any reading of the converters.
THEOREM RkTypes == RkSpec => []RkTypeOK
<1>1. MachineInv => RkTypeOK
  BY CapacityRead DEF MachineInv, RkTypeOK, Numeric, Work_modes, Cuts
<1>2. QED
  BY MachineAlways, <1>1, PTL

\* battery_work of rk817_battery.c never raises what is displayed while current flows out,
\* whatever modes it goes through, unless it starts in the mode of a finished charge.
THEOREM WorkNeverRaises == RkSpec => NoRiseOnDischarge
<1>1. MachineInv /\ [RkNext]_rkVars =>
        [rk'.dsoc > rk.dsoc /\ rk.work_mode # "FINISH"
         => \A r \in Readings : WorkFinds(r) => r.current >= 0]_rkVars
  <2> SUFFICES ASSUME MachineInv, NEW r \in Readings, WorkFinds(r),
                      rk'.dsoc > rk.dsoc, rk.work_mode # "FINISH"
               PROVE  r.current >= 0
    OBVIOUS
  <2>1. /\ rk'.dsoc \in Charges
        /\ r.current < 0 /\ rk.work_mode # "FINISH" => rk'.dsoc <= rk.dsoc
    BY WorkShows
  <2>2. rk.dsoc \in Int /\ rk'.dsoc \in Int /\ r.current \in Int
    BY <2>1, ChargesAreNumbers, ReadingsAreNumbers DEF MachineInv, WorkFinds, Reading
  <2>3. QED
    BY <2>1, <2>2
<1>2. QED
  BY MachineAlways, <1>1, PTL DEF RkSpec, NoRiseOnDischarge

\* Above the voltage at which it gives up, battery_work takes two percents at most: no two
\* of its algorithms take more in one run.
THEOREM WorkFallsSlowly == RkSpec => FallsSlowly
<1>1. MachineInv /\ [RkNext]_rkVars =>
        [rk'.dsoc < rk.dsoc - 2000
         => \A r \in Readings : WorkFinds(r) => r.voltage < Pdata.pwroff_vol - 20]_rkVars
  <2> SUFFICES ASSUME MachineInv, NEW r \in Readings, WorkFinds(r), rk'.dsoc < rk.dsoc - 2000
               PROVE  r.voltage < Pdata.pwroff_vol - 20
    OBVIOUS
  <2>1. rk'.dsoc \in Charges /\ (Enough(r) => rk'.dsoc >= rk.dsoc - 2000)
    BY WorkShows
  <2>2. /\ rk.dsoc \in Int /\ rk'.dsoc \in Int
        /\ r.voltage \in Int /\ Pdata.pwroff_vol \in Int
    BY <2>1, ChargesAreNumbers, ReadingsAreNumbers, PdataAssumption
    DEF MachineInv, WorkFinds, Reading, PdataAssumption
  <2>3. QED
    BY <2>1, <2>2 DEF Enough
<1>2. QED
  BY MachineAlways, <1>1, PTL DEF RkSpec, FallsSlowly

\* resume_work never displays more than was displayed before the sleep, whatever the
\* calibration at rest and the reserve of 5 % do.
THEOREM SleepTakes == RkSpec => SleepNeverRaises
<1>1. MachineInv /\ [RkNext]_rkVars => [rk'.dsoc > rk.dsoc => ~ResumeWork]_rkVars
  <2> SUFFICES ASSUME MachineInv, rk'.dsoc > rk.dsoc, ResumeWork PROVE FALSE
    OBVIOUS
  <2>1. rk'.dsoc \in Charges /\ rk'.dsoc <= rk.dsoc
    BY ResumeTakes
  <2>2. rk.dsoc \in Int /\ rk'.dsoc \in Int
    BY <2>1, ChargesAreNumbers DEF MachineInv, ResumeWork
  <2>3. QED
    BY <2>1, <2>2
<1>2. QED
  BY MachineAlways, <1>1, PTL DEF RkSpec, SleepNeverRaises

\* probe displays no more than the ceiling, however often the machine was switched off and
\* at whichever moment of rk817_battery.c it lost its power, unless the gauge was halted or
\* calibrated: no more than userspace was last told, or than before that when power went
\* between telling it and the first write.
THEOREM RebootTrusts == RkSpec => RebootNeverRaises
<1>1. MachineInv /\ [RkNext]_rkVars =>
        [/\ rk'.dsoc > Ceiling
         /\ ~rk.bat_con
         /\ ~rk'.is_halt /\ ~rk'.is_ocv_calib /\ ~rk'.is_force_calib
         => ~Boot]_rkVars
  <2> SUFFICES ASSUME MachineInv, rk'.dsoc > Ceiling, ~rk.bat_con, Trusted(rk'), Boot PROVE FALSE
    BY DEF Trusted
  <2> DEFINE soc == rk.soc_reg
  <2>1. rk'.dsoc = Clamped(soc)
    BY BootShows
  <2>2. /\ soc \in Int /\ cut \in Cuts /\ shown \in Charges /\ before \in Charges
        /\ cut = "no" => soc <= shown
        /\ cut = "told" => soc <= before
    BY NumbersAre DEF MachineInv, Boot, UnderCeiling
  <2> HIDE DEF soc
  <2>3. /\ Ceiling \in Int /\ Ceiling >= 0 /\ FullSoc \in Int
        /\ cut # "writing" => soc <= Ceiling
        /\ cut = "writing" => Ceiling = FullSoc
    BY <2>2, ChargesAreNumbers DEF Ceiling, Cuts
  <2>4. /\ Clamped(soc) \in Int /\ Clamped(soc) <= FullSoc
        /\ Clamped(soc) <= soc \/ Clamped(soc) = 0
    BY <2>2 DEF Clamped, AtMost, AtLeast, FullSoc
  <2>5. QED
    BY <2>1, <2>2, <2>3, <2>4
<1>2. QED
  BY MachineAlways, <1>1, PTL DEF RkSpec, RebootNeverRaises
==============================================================================
