----------------------------- MODULE ReflowRunProofs -----------------------------
(***************************************************************************)
(* For any profiles, readings and steps of module ReflowRun: the setpoint  *)
(* of a run stays in its ramp, C's truncating division included, and with  *)
(* valid profiles below the level the run would be aborted at; and a run   *)
(* takes the time its profile allows.                                      *)
(***************************************************************************)
EXTENDS ReflowRun, TLAPS, WellFoundedInduction

--------------------------------------------------------------------------------
(* Arithmetic.                                                                *)

\* A quotient of a part of d * n by n is a part of d.
LEMMA QuotientInside ==
    ASSUME NEW d \in Nat, NEW n \in Nat \ {0}, NEW e \in 0 .. n
    PROVE  /\ (d * e) \div n \in 0 .. d
           /\ (d * n) \div n = d
<1>1. d * e \in Nat /\ d * n \in Nat
  BY SMT
<1>2. d * e <= d * n
  BY SMT
<1> DEFINE a == d * e
<1> HIDE DEF a
<1>3. a \in Nat /\ a <= d * n
  BY <1>1, <1>2 DEF a
<1>4. a \div n \in Nat
  BY <1>3, SMT
<1>5. (a \div n) * n <= a
  BY <1>3, SMT
<1>6. a \div n <= d
  <2> SUFFICES ASSUME a \div n > d PROVE FALSE
    BY <1>4
  <2> DEFINE q == a \div n
  <2>1. q \in Nat /\ q >= d + 1
    BY <1>4
  <2> HIDE DEF q
  <2>2. q * n >= (d + 1) * n
    BY <2>1, SMT
  <2>3. (d + 1) * n = d * n + n
    BY SMT
  <2> QED BY <1>3, <1>5, <2>2, <2>3 DEF q
<1>7. (d * n) \div n = d
  BY SMT
<1> QED BY <1>4, <1>6, <1>7 DEF a

LEMMA TruncDivInside ==
    ASSUME NEW d \in Int, NEW n \in Nat \ {0}, NEW e \in 0 .. n
    PROVE  /\ TruncDiv(d * e, n) \in Int
           /\ d >= 0 => 0 <= TruncDiv(d * e, n) /\ TruncDiv(d * e, n) <= d
           /\ d <= 0 => d <= TruncDiv(d * e, n) /\ TruncDiv(d * e, n) <= 0
           /\ TruncDiv(d * n, n) = d
<1>1. CASE d >= 0
  <2>1. d \in Nat /\ d * e >= 0 /\ d * n >= 0
    BY <1>1, SMT
  <2>2. (d * e) \div n \in 0 .. d /\ (d * n) \div n = d
    BY <2>1, QuotientInside
  <2>3. TruncDiv(d * e, n) = (d * e) \div n /\ TruncDiv(d * n, n) = (d * n) \div n
    BY <2>1 DEF TruncDiv
  <2> QED BY <1>1, <2>2, <2>3
<1>2. CASE d < 0
  <2> DEFINE c == -d
  <2>1. c \in Nat /\ c > 0
    BY <1>2
  <2>2. -(d * e) = c * e /\ -(d * n) = c * n
    BY SMT
  <2>3. (c * e) \div n \in 0 .. c /\ (c * n) \div n = c
    BY <2>1, QuotientInside
  <2>4. d * e <= 0 /\ d * n < 0
    BY <1>2, SMT
  <2>5. TruncDiv(d * n, n) = -((c * n) \div n)
    BY <2>2, <2>4 DEF TruncDiv
  <2>6. TruncDiv(d * e, n) = -((c * e) \div n)
    <3>1. CASE d * e < 0
      BY <2>2, <3>1 DEF TruncDiv
    <3>2. CASE d * e = 0
      <4>1. c * e = 0
        BY <2>2, <3>2
      <4>2. 0 \div n = 0
        BY SMT
      <4> QED BY <3>2, <4>1, <4>2 DEF TruncDiv
    <3> QED BY <2>4, <3>1, <3>2
  <2> QED BY <1>2, <2>1, <2>3, <2>5, <2>6
<1> QED BY <1>1, <1>2

\* The setpoint of a stage, at any time in it and wherever it was entered.
LEMMA SetpointBetween ==
    ASSUME NEW st \in Stages, NEW ms \in Nat, NEW start \in Int
    PROVE  LET sp == StageSetpoint(st, ms, start)
           IN  /\ sp \in Int
               /\ \/ start <= sp /\ sp <= st.target
                  \/ st.target <= sp /\ sp <= start
                  \/ st.kind # "RAMP" /\ sp = st.target
               /\ ms >= st.nominal => sp = st.target
<1>1. st.target \in Int /\ st.nominal \in Nat
  BY DEF Stages
<1>2. CASE st.kind # "RAMP" \/ st.nominal = 0
  BY <1>1, <1>2 DEF StageSetpoint
<1>3. CASE st.kind = "RAMP" /\ st.nominal # 0
  <2> DEFINE d == st.target - start
             e == IF ms > st.nominal THEN st.nominal ELSE ms
             t == TruncDiv(d * e, st.nominal)
  <2>1. d \in Int /\ st.nominal \in Nat \ {0} /\ e \in 0 .. st.nominal
    BY <1>1, <1>3
  <2>2. StageSetpoint(st, ms, start) = start + t
    BY <1>3 DEF StageSetpoint
  <2> HIDE DEF e
  <2>3. /\ t \in Int
        /\ d >= 0 => 0 <= t /\ t <= d
        /\ d <= 0 => d <= t /\ t <= 0
    BY <2>1, TruncDivInside
  <2>4. ms >= st.nominal => t = d
    <3>1. ms >= st.nominal => e = st.nominal
      BY <1>1 DEF e
    <3> QED BY <2>1, <3>1, TruncDivInside
  <2> HIDE DEF t
  <2> QED BY <1>1, <2>2, <2>3, <2>4
<1> QED BY <1>2, <1>3

--------------------------------------------------------------------------------
(* The loop over the stages.  TotalOf is recursive: that its equation has a   *)
(* solution, and what its totals are like, is shown by looking at a smallest  *)
(* number of stages for which it would not be so.                             *)

\* What the loop of TotalOf computes, as far as it has come.
IsTotal(times, m, g) == g = [i \in 0 .. m |-> IF i = 0 THEN 0 ELSE g[i - 1] + times[i - 1]]

LEMMA SmallestIn ==
    ASSUME NEW S \in SUBSET Nat, S # {} PROVE \E x \in S : \A y \in S : x <= y
<1> DEFINE R == OpToRel(<, Nat)
<1>1. IsWellFoundedOn(R, Nat)
  BY NatLessThanWellFounded
<1>2. \A a, b \in Nat : <<b, a>> \in R <=> b < a
  BY DEF OpToRel
<1> HIDE DEF R
<1>3. PICK x \in S : \A y \in S : <<y, x>> \notin R
  BY <1>1, WFMin, Zenon
<1>4. \A a, b \in Nat : <<b, a>> \notin R => a <= b
  BY <1>2
<1> QED BY <1>3, <1>4

LEMMA TotalsExist ==
    ASSUME NEW times, NEW m \in Nat PROVE \E g : IsTotal(times, m, g)
<1> DEFINE Bad == {n \in Nat : ~\E g : IsTotal(times, n, g)}
<1> SUFFICES ASSUME Bad # {} PROVE FALSE
  OBVIOUS
<1>1. Bad \in SUBSET Nat
  OBVIOUS
<1> HIDE DEF Bad
<1>2. PICK n \in Bad : \A k \in Bad : n <= k
  BY <1>1, SmallestIn
<1>3. n \in Nat /\ ~\E g : IsTotal(times, n, g)
  BY <1>2 DEF Bad
<1>4. CASE n = 0
  <2>1. IsTotal(times, 0, [i \in 0 .. 0 |-> 0])
    BY DEF IsTotal
  <2> QED BY <1>3, <1>4, <2>1
<1>5. CASE n # 0
  <2>1. n - 1 \in Nat /\ n - 1 < n
    BY <1>3, <1>5
  <2>2. n - 1 \notin Bad
    BY <1>2, <1>3, <2>1
  <2>3. PICK g : IsTotal(times, n - 1, g)
    BY <2>1, <2>2 DEF Bad
  <2> DEFINE h == [i \in 0 .. n |-> IF i = n THEN g[n - 1] + times[n - 1] ELSE g[i]]
  <2>4. \A i \in 0 .. n : h[i] = IF i = 0 THEN 0 ELSE h[i - 1] + times[i - 1]
    <3> TAKE i \in 0 .. n
    <3>1. CASE i = n
      <4>1. n - 1 \in 0 .. n /\ n - 1 # n /\ n \in 0 .. n
        BY <1>3, <2>1
      <4>2. h[n - 1] = g[n - 1] /\ h[n] = g[n - 1] + times[n - 1]
        BY <4>1
      <4> QED BY <1>5, <3>1, <4>2
    <3>2. CASE i # n
      <4>1. i \in 0 .. n - 1 /\ h[i] = g[i]
        <5>1. i \in 0 .. n - 1
          BY <1>3, <3>2
        <5> QED BY <3>2, <5>1
      <4>2. g[i] = IF i = 0 THEN 0 ELSE g[i - 1] + times[i - 1]
        BY <2>3, <4>1 DEF IsTotal
      <4>3. i # 0 => i - 1 \in 0 .. n /\ i - 1 # n
        BY <1>3, <4>1
      <4> QED BY <4>1, <4>2, <4>3
    <3> QED BY <3>1, <3>2
  <2>5. IsTotal(times, n, h)
    <3>1. h = [i \in 0 .. n |-> h[i]]
      OBVIOUS
    <3> HIDE DEF h
    <3> QED BY <2>4, <3>1 DEF IsTotal
  <2> QED BY <1>3, <2>5
<1> QED BY <1>4, <1>5

LEMMA TotalsAgree ==
    ASSUME NEW times, NEW m \in Nat, NEW n \in Nat, NEW g, NEW h,
           IsTotal(times, m, g), IsTotal(times, n, h), NEW k \in Nat, k <= m, k <= n
    PROVE  g[k] = h[k]
<1> DEFINE Bad == {i \in Nat : i <= k /\ g[i] # h[i]}
<1> SUFFICES ASSUME Bad # {} PROVE FALSE
  OBVIOUS
<1>1. Bad \in SUBSET Nat
  OBVIOUS
<1> HIDE DEF Bad
<1>2. PICK i \in Bad : \A j \in Bad : i <= j
  BY <1>1, SmallestIn
<1>3. i \in Nat /\ i <= k /\ g[i] # h[i]
  BY <1>2 DEF Bad
<1>4. i \in 0 .. m /\ i \in 0 .. n
  BY <1>3
<1>5. /\ g[i] = IF i = 0 THEN 0 ELSE g[i - 1] + times[i - 1]
      /\ h[i] = IF i = 0 THEN 0 ELSE h[i - 1] + times[i - 1]
  BY <1>4 DEF IsTotal
<1>6. i # 0 /\ g[i - 1] # h[i - 1]
  BY <1>3, <1>5
<1>7. i - 1 \in Nat /\ i - 1 <= k /\ i - 1 < i
  BY <1>3, <1>6
<1>8. i - 1 \in Bad
  BY <1>6, <1>7 DEF Bad
<1> QED BY <1>2, <1>3, <1>7, <1>8

LEMMA TotalUnfolds ==
    ASSUME NEW times, NEW n \in Nat
    PROVE  TotalOf(times, 0) = 0 /\ TotalOf(times, n + 1) = TotalOf(times, n) + times[n]
<1> DEFINE G(m) == CHOOSE g : IsTotal(times, m, g)
           s == [i \in Nat |-> G(i)[i]]
           Sums(f) == f = [i \in Nat |-> IF i = 0 THEN 0 ELSE f[i - 1] + times[i - 1]]
           total == CHOOSE f : Sums(f)
<1>1. \A m \in Nat : IsTotal(times, m, G(m))
  BY TotalsExist
<1> HIDE DEF G
<1>2. \A i \in Nat : s[i] = IF i = 0 THEN 0 ELSE s[i - 1] + times[i - 1]
  <2> TAKE i \in Nat
  <2>1. G(i)[i] = IF i = 0 THEN 0 ELSE G(i)[i - 1] + times[i - 1]
    <3>1. i \in 0 .. i
      OBVIOUS
    <3> QED BY <1>1, <3>1 DEF IsTotal
  <2>2. CASE i = 0
    BY <2>1, <2>2
  <2>3. CASE i # 0
    <3>1. i - 1 \in Nat /\ i - 1 <= i
      BY <2>3
    <3>2. G(i)[i - 1] = G(i - 1)[i - 1]
      BY <1>1, <3>1, TotalsAgree
    <3> QED BY <2>1, <2>3, <3>1, <3>2
  <2> QED BY <2>2, <2>3
<1>3. Sums(s)
  <2>1. s = [i \in Nat |-> s[i]]
    OBVIOUS
  <2> HIDE DEF s
  <2> QED BY <1>2, <2>1
<1> HIDE DEF s
<1>4. Sums(total)
  BY <1>3
<1>5. \A i \in Nat : TotalOf(times, i) = total[i]
  BY DEF TotalOf
<1> HIDE DEF total
<1>6. total[0] = 0 /\ total[n + 1] = total[n] + times[n]
  BY <1>4
<1> QED BY <1>5, <1>6

LEMMA TotalGrows ==
    ASSUME NEW n \in Nat, NEW times \in [0 .. n - 1 -> Nat], NEW k \in 0 .. n
    PROVE  /\ TotalOf(times, k) \in Nat /\ TotalOf(times, n) \in Nat
           /\ TotalOf(times, k) <= TotalOf(times, n)
<1> DEFINE tot(i) == TotalOf(times, i)
<1>1. /\ tot(0) = 0
      /\ \A i \in 0 .. n - 1 : tot(i + 1) = tot(i) + times[i] /\ times[i] \in Nat
  BY TotalUnfolds
<1> HIDE DEF tot
<1>2. \A i \in 0 .. n : tot(i) \in Nat
  <2> DEFINE Bad == {i \in Nat : i <= n /\ tot(i) \notin Nat}
  <2> SUFFICES ASSUME Bad # {} PROVE FALSE
    OBVIOUS
  <2>1. Bad \in SUBSET Nat
    OBVIOUS
  <2> HIDE DEF Bad
  <2>2. PICK i \in Bad : \A j \in Bad : i <= j
    BY <2>1, SmallestIn
  <2>3. i \in Nat /\ i <= n /\ tot(i) \notin Nat
    BY <2>2 DEF Bad
  <2>4. i # 0
    BY <1>1, <2>3
  <2>5. i - 1 \in 0 .. n - 1 /\ i - 1 \in Nat /\ i - 1 < i
    BY <2>3, <2>4
  <2>6. tot(i - 1) \in Nat
    BY <2>2, <2>3, <2>5 DEF Bad
  <2>7. tot((i - 1) + 1) = tot(i - 1) + times[i - 1] /\ times[i - 1] \in Nat
    BY <1>1, <2>5
  <2>8. tot((i - 1) + 1) \in Nat /\ (i - 1) + 1 = i
    BY <2>3, <2>6, <2>7
  <2> QED BY <2>3, <2>8
<1>3. \A i \in 0 .. n : k <= i => tot(k) <= tot(i)
  <2> DEFINE Bad == {i \in Nat : i <= n /\ k <= i /\ ~(tot(k) <= tot(i))}
  <2> SUFFICES ASSUME Bad # {} PROVE FALSE
    OBVIOUS
  <2>1. Bad \in SUBSET Nat
    OBVIOUS
  <2> HIDE DEF Bad
  <2>2. PICK i \in Bad : \A j \in Bad : i <= j
    BY <2>1, SmallestIn
  <2>3. i \in Nat /\ i <= n /\ k <= i /\ ~(tot(k) <= tot(i))
    BY <2>2 DEF Bad
  <2>4. i # k
    BY <1>2, <2>3
  <2>5. i - 1 \in 0 .. n - 1 /\ i - 1 \in Nat /\ i - 1 < i /\ k <= i - 1
    BY <2>3, <2>4
  <2>6. tot(k) <= tot(i - 1)
    BY <2>2, <2>3, <2>5 DEF Bad
  <2>7. tot((i - 1) + 1) = tot(i - 1) + times[i - 1] /\ times[i - 1] \in Nat
    BY <1>1, <2>5
  <2>8. (i - 1) + 1 = i /\ tot(k) \in Nat /\ tot(i - 1) \in Nat
    BY <1>2, <2>3, <2>5
  <2>9. tot(i) = tot(i - 1) + times[i - 1]
    BY <2>7, <2>8
  <2>10. tot(k) <= tot(i)
    BY <2>6, <2>7, <2>8, <2>9
  <2> QED BY <2>3, <2>10
<1> QED BY <1>2, <1>3 DEF tot

--------------------------------------------------------------------------------
(* The inductive invariant.                                                   *)

\* An active run is in one of its stages.
InStage == run.result = "ACTIVE" => run.stage \in StageIdx(P)

\* Its setpoint is the one of its stage, at the time that has passed in it.
Followed ==
    run.result = "ACTIVE"
        => setpoint = StageSetpoint(P.stages[run.stage], run.stage_ms, stage_start)

\* A stage is entered by a tick that was not an abort.
EnteredBelow == run.result = "ACTIVE" /\ run.stage > 0 => stage_start < P.abort

IInv == TypeOK /\ InStage /\ Followed /\ EnteredBelow

LEMMA ProfileFacts ==
    ASSUME NEW i \in ProfileIdx
    PROVE  /\ IsProfile(Profiles[i]) /\ Profiles[i].n_stages \in Nat /\ Profiles[i].n_stages > 0
           /\ 0 \in StageIdx(Profiles[i])
           /\ \A j \in StageIdx(Profiles[i]) : Profiles[i].stages[j] \in Stages
           /\ Profiles[i].abort \in Int
BY ProfileAssumption DEF IsProfile, StageIdx

LEMMA BeginningHolds ==
    ASSUME NEW i \in ProfileIdx, NEW temp \in Temps,
           NEW r, r = RunStart, NEW sp, sp = StageSetpoint(Profiles[i].stages[0], 0, temp)
    PROVE  /\ r \in Runs /\ r.stage = 0 /\ r.stage_ms = 0 /\ r.result = "ACTIVE"
           /\ r.stage \in StageIdx(Profiles[i])
           /\ temp \in Int /\ sp \in Int
<1>1. r \in Runs /\ r.stage = 0 /\ r.stage_ms = 0 /\ r.result = "ACTIVE"
  BY DEF RunStart, Runs, RunResults
<1>2. Profiles[i].stages[0] \in Stages /\ 0 \in StageIdx(Profiles[i])
  BY ProfileFacts
<1>3. temp \in Int
  BY ReflowRunAssumption
<1>4. sp \in Int
  BY <1>2, <1>3, SetpointBetween
<1> QED BY <1>1, <1>2, <1>3, <1>4

LEMMA InitHolds == Init => IInv
<1> SUFFICES ASSUME Init PROVE IInv
  OBVIOUS
<1>1. PICK temp \in Temps : stage_start = temp /\ setpoint = StageSetpoint(P.stages[0], 0, temp)
  BY DEF Init
<1>2. prof \in ProfileIdx /\ run = RunStart /\ total_ms = 0
  BY DEF Init, RunZero
<1>3. /\ run \in Runs /\ run.stage = 0 /\ run.stage_ms = 0 /\ run.result = "ACTIVE"
      /\ run.stage \in StageIdx(P) /\ stage_start \in Int /\ setpoint \in Int
  BY <1>1, <1>2, BeginningHolds DEF P
<1> QED BY <1>1, <1>2, <1>3 DEF IInv, TypeOK, InStage, Followed, EnteredBelow

LEMMA StartKeeps == ASSUME NEW temp \in Temps, Start(temp) PROVE IInv'
<1>1. prof' \in ProfileIdx /\ run' = RunStart /\ total_ms' = 0 /\ stage_start' = temp
  BY DEF Start
<1>2. setpoint' = StageSetpoint(P'.stages[0], 0, temp)
  BY <1>1, ProfileFacts DEF Start, P
<1>3. /\ run' \in Runs /\ run'.stage = 0 /\ run'.stage_ms = 0 /\ run'.result = "ACTIVE"
      /\ run'.stage \in StageIdx(P') /\ stage_start' \in Int /\ setpoint' \in Int
  BY <1>1, <1>2, BeginningHolds DEF P
<1> QED BY <1>1, <1>2, <1>3 DEF IInv, TypeOK, InStage, Followed, EnteredBelow

\* What a tick makes of the stage machine.
LEMMA RunTickMoves ==
    ASSUME NEW r \in Runs, NEW p, IsProfile(p), r.result = "ACTIVE", r.stage \in StageIdx(p),
           NEW d \in Nat, NEW temp \in Int, NEW raw \in Int
    PROVE  LET next == RunTick(r, p, d, temp, raw)
           IN  /\ next \in Runs
               /\ next.result = "ACTIVE" =>
                     /\ next.stage \in StageIdx(p)
                     /\ next.stage \in {r.stage, r.stage + 1}
                     /\ temp < p.abort
<1>1. p.stages[r.stage] \in Stages /\ p.n_stages \in Nat /\ p.abort \in Int
  BY DEF IsProfile, StageIdx
<1>2. r.stage \in Nat /\ r.stage < p.n_stages /\ r.stage_ms + d \in Nat
  BY <1>1 DEF StageIdx, Runs
<1>3. CASE OvertempTripped(temp, raw, p.abort)
  BY <1>2, <1>3 DEF RunTick, Runs, RunResults
<1>4. CASE ~OvertempTripped(temp, raw, p.abort)
  <2>1. RunTick(r, p, d, temp, raw) = AdvanceStage(r, p, d, temp)
    BY <1>1, <1>2, <1>4 DEF RunTick
  <2>2. temp < p.abort
    BY <1>1, <1>4 DEF OvertempTripped
  <2> DEFINE st == p.stages[r.stage]
             ms == r.stage_ms + d
             next == AdvanceStage(r, p, d, temp)
  <2>3. CASE StageComplete(st, p, ms, temp) /\ r.stage + 1 >= p.n_stages
    <3>1. next = [stage |-> r.stage + 1, stage_ms |-> ms, result |-> "DONE"]
      BY <2>3 DEF AdvanceStage
    <3> QED BY <1>2, <2>1, <3>1 DEF Runs, RunResults
  <2>4. CASE StageComplete(st, p, ms, temp) /\ ~(r.stage + 1 >= p.n_stages)
    <3>1. next = [stage |-> r.stage + 1, stage_ms |-> 0, result |-> "ACTIVE"]
      BY <2>4 DEF AdvanceStage
    <3>2. r.stage + 1 \in StageIdx(p)
      BY <1>1, <1>2, <2>4 DEF StageIdx
    <3> QED BY <1>2, <2>1, <2>2, <3>1, <3>2 DEF Runs, RunResults
  <2>5. CASE ~StageComplete(st, p, ms, temp)
    <3>1. next \in {[r EXCEPT !.stage_ms = ms, !.result = "TIMEOUT"], [r EXCEPT !.stage_ms = ms]}
      BY <2>5 DEF AdvanceStage
    <3> QED BY <1>2, <2>1, <2>2, <3>1 DEF Runs, RunResults
  <2> QED BY <2>3, <2>4, <2>5
<1> QED BY <1>3, <1>4

LEMMA TickKeeps ==
    ASSUME IInv, NEW dt \in Steps, NEW temp \in Temps, NEW raw \in Temps, Tick(dt, temp, raw)
    PROVE  IInv'
<1>1. dt \in Nat /\ temp \in Int /\ raw \in Int /\ prof \in ProfileIdx /\ run \in Runs
  BY ReflowRunAssumption DEF IInv, TypeOK
<1>2. IsProfile(P) /\ run.result = "ACTIVE" /\ run.stage \in StageIdx(P)
  BY <1>1, ProfileFacts DEF IInv, InStage, Tick, P
<1>3. prof' = prof /\ P' = P /\ run' = RunTick(run, P, dt, temp, raw)
  BY DEF Tick, P
<1>4. /\ run' \in Runs
      /\ run'.result = "ACTIVE" =>
            run'.stage \in StageIdx(P) /\ run'.stage \in {run.stage, run.stage + 1} /\ temp < P.abort
  BY <1>1, <1>2, <1>3, RunTickMoves
<1>5. run.stage < P.n_stages
  BY <1>1, <1>2, ProfileFacts DEF StageIdx, P
<1>6. CASE run'.result = "OVERTEMP"
  BY <1>1, <1>3, <1>4, <1>6 DEF Tick, IInv, TypeOK, InStage, Followed, EnteredBelow
<1>7. CASE run'.result # "OVERTEMP"
  <2>1. total_ms' = total_ms + dt /\ Resume(temp)
    <3>1. ~(run'.result = "OVERTEMP" \/ run.stage >= P.n_stages)
      BY <1>1, <1>2, <1>5, <1>7 DEF IsProfile, Runs
    <3> QED BY <3>1, Zenon DEF Tick
  <2>2. CASE run'.result = "DONE"
    BY <1>1, <1>3, <1>4, <2>1, <2>2 DEF Resume, IInv, TypeOK, InStage, Followed, EnteredBelow
  <2>3. CASE run'.result = "TIMEOUT"
    BY <1>1, <1>3, <1>4, <2>1, <2>3 DEF Resume, IInv, TypeOK, InStage, Followed, EnteredBelow
  <2>4. CASE run'.result = "ACTIVE"
    <3>1. /\ stage_start' = IF run'.stage # run.stage THEN temp ELSE stage_start
          /\ setpoint' = StageSetpoint(P.stages[run'.stage], run'.stage_ms, stage_start')
      BY <2>1, <2>4 DEF Resume
    <3>2. stage_start' \in Int /\ total_ms' \in Nat
      BY <1>1, <2>1, <3>1 DEF IInv, TypeOK
    <3>3. P.stages[run'.stage] \in Stages /\ run'.stage_ms \in Nat
      BY <1>1, <1>4, <2>4, ProfileFacts DEF P, Runs
    <3>4. setpoint' \in Int
      BY <3>1, <3>2, <3>3, SetpointBetween
    <3>5. run'.stage > 0 => stage_start' < P.abort
      BY <1>2, <1>4, <2>4, <3>1 DEF IInv, EnteredBelow
    <3>6. TypeOK'
      BY <1>1, <1>3, <1>4, <3>2, <3>4 DEF TypeOK
    <3>7. InStage' /\ Followed'
      BY <1>3, <1>4, <2>4, <3>1 DEF InStage, Followed
    <3>8. EnteredBelow'
      BY <1>3, <3>5 DEF EnteredBelow
    <3> QED BY <3>6, <3>7, <3>8 DEF IInv
  <2> QED BY <1>4, <1>7, <2>2, <2>3, <2>4 DEF Runs, RunResults
<1> QED BY <1>6, <1>7

--------------------------------------------------------------------------------
(* The time a run takes.                                                      *)

\* What the first n stages of a profile take at least, and what they may take.
Floor(p, n) == TotalOf(Nominals(p), n)

Ceiling(p, n) == TotalOf(Nominals(p), n) + TotalOf(Graces(p), n) + n * LongestStep

\* Between the two, the stages that are over took their time, and the current one, its own.
Paced ==
    /\ run.result = "ACTIVE" =>
          /\ Floor(P, run.stage) + run.stage_ms <= total_ms
          /\ total_ms <= Ceiling(P, run.stage) + run.stage_ms
          /\ run.stage_ms <= P.stages[run.stage].nominal + StageGrace(P.stages[run.stage], P)
    /\ run.result = "DONE" =>
          /\ run.stage = P.n_stages
          /\ Floor(P, P.n_stages) <= total_ms /\ total_ms <= Ceiling(P, P.n_stages)

LEMMA LongestFact ==
    LongestStep \in Nat /\ \A dt \in Steps : dt \in Nat /\ dt <= LongestStep
<1>1. Steps \subseteq Nat /\ \E longest \in Steps : \A dt \in Steps : dt <= longest
  BY ReflowRunAssumption
<1>2. \E longest \in Steps : \A dt \in Steps : longest >= dt
  BY <1>1
<1>3. LongestStep \in Steps /\ \A dt \in Steps : LongestStep >= dt
  BY <1>2, Zenon DEF LongestStep, Max
<1> QED BY <1>1, <1>3

LEMMA StageTimes ==
    ASSUME NEW p, IsProfile(p), NEW i \in StageIdx(p)
    PROVE  /\ Nominals(p) \in [0 .. p.n_stages - 1 -> Nat] /\ Graces(p) \in [0 .. p.n_stages - 1 -> Nat]
           /\ Nominals(p)[i] = p.stages[i].nominal /\ p.stages[i].nominal \in Nat
           /\ Graces(p)[i] = StageGrace(p.stages[i], p) /\ StageGrace(p.stages[i], p) \in Nat
<1>1. \A j \in StageIdx(p) : p.stages[j].nominal \in Nat
  BY DEF IsProfile, StageIdx, Stages
<1>2. \A j \in StageIdx(p) : StageGrace(p.stages[j], p) \in Nat
  BY ProfileAssumption DEF IsProfile, StageGrace
<1> QED BY <1>1, <1>2 DEF Nominals, Graces, StageIdx

\* One stage more.
LEMMA FloorAndCeiling ==
    ASSUME NEW p, IsProfile(p), NEW i \in StageIdx(p)
    PROVE  /\ i \in Nat /\ i + 1 <= p.n_stages
           /\ Floor(p, 0) = 0 /\ Ceiling(p, 0) = 0
           /\ Floor(p, i) \in Nat /\ Ceiling(p, i) \in Nat
           /\ Floor(p, i + 1) = Floor(p, i) + p.stages[i].nominal
           /\ Ceiling(p, i + 1) = Ceiling(p, i) + p.stages[i].nominal
                                      + StageGrace(p.stages[i], p) + LongestStep
           /\ Ceiling(p, i + 1) <= Ceiling(p, p.n_stages)
<1> DEFINE n == p.n_stages
           N(k) == TotalOf(Nominals(p), k)
           G(k) == TotalOf(Graces(p), k)
           nominal == p.stages[i].nominal
           grace == StageGrace(p.stages[i], p)
<1>1. n \in Nat /\ i \in Nat /\ i + 1 <= n /\ i \in 0 .. n /\ i + 1 \in 0 .. n
  BY DEF IsProfile, StageIdx
<1>2. nominal \in Nat /\ grace \in Nat
  BY StageTimes
<1>3. N(0) = 0 /\ G(0) = 0 /\ N(i + 1) = N(i) + nominal /\ G(i + 1) = G(i) + grace
  <2>1. Nominals(p)[i] = nominal /\ Graces(p)[i] = grace
    BY StageTimes
  <2>2. N(i + 1) = N(i) + Nominals(p)[i] /\ G(i + 1) = G(i) + Graces(p)[i] /\ N(0) = 0 /\ G(0) = 0
    BY <1>1, TotalUnfolds
  <2> HIDE DEF N, G, nominal, grace
  <2> QED BY <2>1, <2>2
<1>4. /\ N(i) \in Nat /\ N(i + 1) \in Nat /\ N(n) \in Nat /\ N(i + 1) <= N(n)
      /\ G(i) \in Nat /\ G(i + 1) \in Nat /\ G(n) \in Nat /\ G(i + 1) <= G(n)
  <2>1. Nominals(p) \in [0 .. n - 1 -> Nat] /\ Graces(p) \in [0 .. n - 1 -> Nat]
    BY StageTimes
  <2> HIDE DEF n
  <2> QED BY <1>1, <2>1, TotalGrows
<1>5. Floor(p, 0) = N(0) /\ Floor(p, i) = N(i) /\ Floor(p, i + 1) = N(i + 1)
  BY DEF Floor
<1>6. /\ Ceiling(p, 0) = N(0) + G(0) + 0 * LongestStep
      /\ Ceiling(p, i) = N(i) + G(i) + i * LongestStep
      /\ Ceiling(p, i + 1) = N(i + 1) + G(i + 1) + (i + 1) * LongestStep
      /\ Ceiling(p, n) = N(n) + G(n) + n * LongestStep
  BY DEF Ceiling
<1> HIDE DEF n, N, G, nominal, grace
<1> DEFINE L == LongestStep
<1>7. L \in Nat
  BY LongestFact
<1> HIDE DEF L
<1>8. /\ 0 * L = 0 /\ i * L \in Nat /\ (i + 1) * L = i * L + L /\ (i + 1) * L <= n * L
      /\ n * L \in Nat
  BY <1>1, <1>7
<1> DEFINE x == i * L
           y == n * L
           z == (i + 1) * L
<1>9. x \in Nat /\ y \in Nat /\ z = x + L /\ z <= y
  BY <1>8
<1>10. /\ Ceiling(p, 0) = 0
       /\ Ceiling(p, i) = N(i) + G(i) + x
       /\ Ceiling(p, i + 1) = N(i + 1) + G(i + 1) + z
       /\ Ceiling(p, n) = N(n) + G(n) + y
  <2>1. N(0) + G(0) + 0 = 0
    BY <1>3
  <2> QED BY <1>6, <1>8, <2>1 DEF L
<1> HIDE DEF x, y, z
<1>11. Ceiling(p, i) \in Nat
  BY <1>4, <1>9, <1>10
<1>12. Ceiling(p, i + 1) = Ceiling(p, i) + nominal + grace + L
  BY <1>2, <1>3, <1>4, <1>7, <1>9, <1>10
<1>13. Ceiling(p, i + 1) <= Ceiling(p, n)
  BY <1>4, <1>7, <1>9, <1>10
<1> QED BY <1>1, <1>3, <1>4, <1>5, <1>10, <1>11, <1>12, <1>13 DEF n, nominal, grace, L

\* What a tick makes of the clock of the stage.
LEMMA RunTickTimes ==
    ASSUME NEW r \in Runs, NEW p, IsProfile(p), r.result = "ACTIVE", r.stage \in StageIdx(p),
           NEW d \in Nat, NEW temp \in Int, NEW raw \in Int
    PROVE  LET next == RunTick(r, p, d, temp, raw)
               ms == r.stage_ms + d
               nominal == p.stages[r.stage].nominal
           IN  \/ next.result \in {"OVERTEMP", "TIMEOUT"}
               \/ /\ next.result = "ACTIVE" /\ next.stage = r.stage /\ next.stage_ms = ms
                  /\ ms <= nominal + StageGrace(p.stages[r.stage], p)
               \/ /\ next.result = "ACTIVE" /\ next.stage = r.stage + 1 /\ next.stage_ms = 0
                  /\ next.stage \in StageIdx(p) /\ ms >= nominal
               \/ next.result = "DONE" /\ next.stage = r.stage + 1 /\ next.stage = p.n_stages
                  /\ ms >= nominal
<1> DEFINE st == p.stages[r.stage]
           ms == r.stage_ms + d
           limit == st.nominal + StageGrace(st, p)
<1>1. st \in Stages /\ p.n_stages \in Nat /\ p.abort \in Int
  BY DEF IsProfile, StageIdx
<1>2. r.stage \in Nat /\ r.stage < p.n_stages /\ r.stage + 1 <= p.n_stages /\ ms \in Nat
  BY <1>1 DEF StageIdx, Runs
<1>3. limit \in Nat /\ st.nominal \in Nat
  <2>1. st.nominal \in Nat /\ StageGrace(st, p) \in Nat
    BY StageTimes
  <2> QED BY <2>1
<1>4. CASE OvertempTripped(temp, raw, p.abort)
  <2>1. RunTick(r, p, d, temp, raw) = [r EXCEPT !.result = "OVERTEMP"]
    BY <1>1, <1>2, <1>4 DEF RunTick
  <2>2. RunTick(r, p, d, temp, raw).result = "OVERTEMP"
    BY <2>1 DEF Runs
  <2> QED BY <2>2
<1>5. CASE ~OvertempTripped(temp, raw, p.abort)
  <2>1. RunTick(r, p, d, temp, raw) = AdvanceStage(r, p, d, temp)
    BY <1>1, <1>2, <1>5 DEF RunTick
  <2> DEFINE next == AdvanceStage(r, p, d, temp)
  <2>2. CASE StageComplete(st, p, ms, temp) /\ r.stage + 1 >= p.n_stages
    <3>1. next = [stage |-> r.stage + 1, stage_ms |-> ms, result |-> "DONE"]
      BY <2>2 DEF AdvanceStage
    <3>2. ms >= st.nominal /\ r.stage + 1 = p.n_stages
      BY <1>1, <1>2, <2>2 DEF StageComplete
    <3>3. next.result = "DONE" /\ next.stage = r.stage + 1
      BY <3>1
    <3> QED BY <2>1, <3>2, <3>3
  <2>3. CASE StageComplete(st, p, ms, temp) /\ ~(r.stage + 1 >= p.n_stages)
    <3>1. next = [stage |-> r.stage + 1, stage_ms |-> 0, result |-> "ACTIVE"]
      BY <2>3 DEF AdvanceStage
    <3>2. ms >= st.nominal /\ r.stage + 1 \in StageIdx(p)
      BY <1>1, <1>2, <2>3 DEF StageComplete, StageIdx
    <3>3. next.result = "ACTIVE" /\ next.stage = r.stage + 1 /\ next.stage_ms = 0
      BY <3>1
    <3> QED BY <2>1, <3>2, <3>3
  <2>4. CASE ~StageComplete(st, p, ms, temp) /\ ms > limit
    <3>1. next = [r EXCEPT !.stage_ms = ms, !.result = "TIMEOUT"]
      BY <2>4 DEF AdvanceStage
    <3>2. next.result = "TIMEOUT"
      BY <3>1 DEF Runs
    <3> QED BY <2>1, <3>2
  <2>5. CASE ~StageComplete(st, p, ms, temp) /\ ~(ms > limit)
    <3>1. next = [r EXCEPT !.stage_ms = ms]
      BY <2>5 DEF AdvanceStage
    <3>2. next.result = "ACTIVE" /\ next.stage = r.stage /\ next.stage_ms = ms
      BY <3>1 DEF Runs
    <3>3. ms <= limit
      BY <1>2, <1>3, <2>5
    <3> QED BY <2>1, <3>2, <3>3
  <2> QED BY <2>2, <2>3, <2>4, <2>5
<1> QED BY <1>4, <1>5

\* A run that begins has taken no time.
LEMMA BeginningIsPaced ==
    ASSUME prof \in ProfileIdx, run = RunStart, total_ms = 0 PROVE Paced
<1>1. IsProfile(P) /\ 0 \in StageIdx(P)
  BY ProfileFacts DEF P
<1>2. Floor(P, 0) = 0 /\ Ceiling(P, 0) = 0
  BY <1>1, FloorAndCeiling
<1>3. P.stages[0].nominal + StageGrace(P.stages[0], P) \in Nat
  BY <1>1, StageTimes
<1>4. run.stage = 0 /\ run.stage_ms = 0 /\ run.result = "ACTIVE"
  BY DEF RunStart
<1> QED BY <1>2, <1>3, <1>4 DEF Paced

LEMMA StartIsPaced == ASSUME NEW temp \in Temps, Start(temp) PROVE Paced'
<1>1. prof' \in ProfileIdx /\ run' = RunStart /\ total_ms' = 0
  BY DEF Start
<1>2. IsProfile(P') /\ 0 \in StageIdx(P')
  BY <1>1, ProfileFacts DEF P
<1>3. Floor(P', 0) = 0 /\ Ceiling(P', 0) = 0
  BY <1>2, FloorAndCeiling
<1>4. P'.stages[0].nominal + StageGrace(P'.stages[0], P') \in Nat
  BY <1>2, StageTimes
<1>5. run'.stage = 0 /\ run'.stage_ms = 0 /\ run'.result = "ACTIVE"
  BY <1>1 DEF RunStart
<1> QED BY <1>1, <1>3, <1>4, <1>5 DEF Paced

LEMMA TickIsPaced ==
    ASSUME IInv, Paced, NEW dt \in Steps, NEW temp \in Temps, NEW raw \in Temps, Tick(dt, temp, raw)
    PROVE  Paced'
<1> DEFINE k == run.stage
           ms == run.stage_ms + dt
           nominal == P.stages[k].nominal
           grace == StageGrace(P.stages[k], P)
           F == Floor(P, k)
           C == Ceiling(P, k)
           L == LongestStep
<1>1. /\ dt \in Nat /\ temp \in Int /\ raw \in Int /\ prof \in ProfileIdx /\ run \in Runs
      /\ total_ms \in Nat
  BY ReflowRunAssumption DEF IInv, TypeOK
<1>2. IsProfile(P) /\ run.result = "ACTIVE" /\ k \in StageIdx(P)
  BY <1>1, ProfileFacts DEF IInv, InStage, Tick, P
<1>3. prof' = prof /\ P' = P /\ run' = RunTick(run, P, dt, temp, raw)
  BY DEF Tick, P
<1>4. /\ k \in Nat /\ run.stage_ms \in Nat /\ ms \in Nat /\ nominal \in Nat /\ grace \in Nat
      /\ F \in Nat /\ C \in Nat /\ L \in Nat /\ dt <= L /\ k < P.n_stages
      /\ Floor(P, k + 1) = F + nominal /\ Ceiling(P, k + 1) = C + nominal + grace + L
  <2>1. k \in Nat /\ k + 1 <= P.n_stages /\ P.n_stages \in Nat
    BY <1>2, FloorAndCeiling DEF IsProfile
  <2>2. nominal \in Nat /\ grace \in Nat
    BY <1>2, StageTimes
  <2>3. /\ F \in Nat /\ C \in Nat
        /\ Floor(P, k + 1) = F + nominal /\ Ceiling(P, k + 1) = C + nominal + grace + L
    BY <1>2, FloorAndCeiling
  <2>4. L \in Nat /\ dt <= L
    BY LongestFact
  <2> QED BY <1>1, <2>1, <2>2, <2>3, <2>4 DEF Runs
<1>5. F + run.stage_ms <= total_ms /\ total_ms <= C + run.stage_ms /\ run.stage_ms <= nominal + grace
  BY <1>2 DEF Paced
<1>6. \/ run'.result \in {"OVERTEMP", "TIMEOUT"}
      \/ /\ run'.result = "ACTIVE" /\ run'.stage = k /\ run'.stage_ms = ms /\ ms <= nominal + grace
      \/ /\ run'.result = "ACTIVE" /\ run'.stage = k + 1 /\ run'.stage_ms = 0
         /\ run'.stage \in StageIdx(P) /\ ms >= nominal
      \/ run'.result = "DONE" /\ run'.stage = k + 1 /\ run'.stage = P.n_stages /\ ms >= nominal
  BY <1>1, <1>2, <1>3, RunTickTimes
<1>7. run'.result # "OVERTEMP" => total_ms' = total_ms + dt
  <2> SUFFICES ASSUME run'.result # "OVERTEMP" PROVE total_ms' = total_ms + dt
    OBVIOUS
  <2>1. ~(run'.result = "OVERTEMP" \/ run.stage >= P.n_stages)
    <3>1. P.n_stages \in Int
      BY <1>2 DEF IsProfile
    <3>2. k \in Int /\ k < P.n_stages
      BY <1>4
    <3> HIDE DEF nominal, grace, F, C, L
    <3>3. ~(k >= P.n_stages)
      BY <3>1, <3>2
    <3> QED BY <3>3
  <2> QED BY <2>1, Zenon DEF Tick
<1> DEFINE t == total_ms + dt
<1>8. /\ F + ms <= t /\ t <= C + ms
      /\ t <= C + nominal + grace + L
      /\ ms >= nominal => F + nominal <= t
  <2> HIDE DEF k, nominal, grace, F, C, L
  <2>1. run.stage_ms \in Nat /\ total_ms \in Nat /\ dt \in Nat
    BY <1>1, <1>4
  <2> QED BY <1>4, <1>5, <2>1
<1>9. CASE run'.result \in {"OVERTEMP", "TIMEOUT"}
  BY <1>9 DEF Paced
<1>10. CASE run'.result = "ACTIVE" /\ run'.stage = k
  <2>1. run'.stage_ms = ms /\ ms <= nominal + grace
    BY <1>4, <1>6, <1>10
  <2>2. total_ms' = t
    BY <1>7, <1>10
  <2> HIDE DEF t, ms
  <2> QED BY <1>3, <1>8, <1>10, <2>1, <2>2 DEF Paced
<1>11. CASE run'.result = "ACTIVE" /\ run'.stage # k
  <2>1. run'.stage = k + 1 /\ run'.stage_ms = 0 /\ k + 1 \in StageIdx(P) /\ ms >= nominal
    BY <1>4, <1>6, <1>11
  <2>2. total_ms' = t /\ t \in Nat
    BY <1>1, <1>7, <1>11
  <2>3. P.stages[k + 1].nominal + StageGrace(P.stages[k + 1], P) \in Nat
    BY <1>2, <2>1, StageTimes
  <2>4. /\ Floor(P, k + 1) + 0 <= t
        /\ t <= Ceiling(P, k + 1) + 0
        /\ 0 <= P.stages[k + 1].nominal + StageGrace(P.stages[k + 1], P)
    <3> HIDE DEF t, ms, nominal, grace, F, C, L
    <3> QED BY <1>4, <1>8, <2>1, <2>2, <2>3
  <2> HIDE DEF t, ms
  <2> QED BY <1>3, <1>11, <2>1, <2>2, <2>4 DEF Paced
<1>12. CASE run'.result = "DONE"
  <2>1. run'.stage = P.n_stages /\ k + 1 = P.n_stages /\ ms >= nominal
    BY <1>6, <1>12
  <2>2. total_ms' = t
    BY <1>7, <1>12
  <2>3. Floor(P, P.n_stages) <= t /\ t <= Ceiling(P, P.n_stages)
    <3>1. Floor(P, k + 1) <= t /\ t <= Ceiling(P, k + 1)
      BY <1>4, <1>8, <2>1
    <3> QED BY <2>1, <3>1
  <2> HIDE DEF t, ms
  <2> QED BY <1>3, <1>12, <2>1, <2>2, <2>3 DEF Paced
<1> QED BY <1>6, <1>9, <1>10, <1>11, <1>12

--------------------------------------------------------------------------------
(* The theorems.                                                              *)

\* In every reachable state: an active run is in a stage, its setpoint is the one of that
\* stage, and it entered every stage but the first below the abort level.
THEOREM RunInvariant == Spec => []IInv
<1>1. IInv /\ [Next]_vars => IInv'
  <2> SUFFICES ASSUME IInv, [Next]_vars PROVE IInv'
    OBVIOUS
  <2>1. CASE \E temp \in Temps : Start(temp)
    BY <2>1, StartKeeps
  <2>2. CASE TickStep
    BY <2>2, TickKeeps DEF TickStep
  <2>3. CASE UNCHANGED vars
    <3>1. /\ prof' = prof /\ run' = run /\ total_ms' = total_ms
          /\ stage_start' = stage_start /\ setpoint' = setpoint /\ P' = P
      BY <2>3 DEF vars, P
    <3> QED BY <3>1 DEF IInv, TypeOK, InStage, Followed, EnteredBelow
  <2> QED BY <2>1, <2>2, <2>3 DEF Next
<1> QED BY InitHolds, <1>1, PTL DEF Spec

\* stage_setpoint() of profile.c never leaves the line from where the stage was entered to
\* its target, for any ramp, up or down, any step of the clock and any lateness.
THEOREM SetpointStaysInRamp == Spec => []SetpointInRamp
<1>1. IInv => SetpointInRamp
  <2> SUFFICES ASSUME IInv, run.result = "ACTIVE", run.stage < P.n_stages PROVE SetpointInRamp
    BY DEF SetpointInRamp
  <2>1. P.stages[run.stage] \in Stages /\ run.stage_ms \in Nat /\ stage_start \in Int
    BY ProfileFacts DEF IInv, TypeOK, InStage, P, Runs
  <2>2. setpoint = StageSetpoint(P.stages[run.stage], run.stage_ms, stage_start)
    BY DEF IInv, Followed
  <2> QED BY <2>1, <2>2, SetpointBetween DEF SetpointInRamp
<1> QED BY RunInvariant, <1>1, PTL

\* The profiles of the table are valid, as reflow_profile_validate() has it.
AllValid == \E absMax \in Int : \A i \in ProfileIdx : ValidProfile(Profiles[i], absMax)

\* The controller never asks the oven for a temperature that would abort the run, as long as
\* it was not started at one.
THEOREM SetpointStaysBelowAbort == ASSUME AllValid PROVE Spec => []SetpointBelowAbort
<1>1. IInv => SetpointBelowAbort
  <2> SUFFICES ASSUME IInv, run.result = "ACTIVE", run.stage > 0 \/ stage_start < P.abort
               PROVE  setpoint < P.abort
    BY DEF SetpointBelowAbort
  <2>1. /\ P.stages[run.stage] \in Stages /\ run.stage_ms \in Nat /\ stage_start \in Int
        /\ P.abort \in Int /\ run.stage \in StageIdx(P)
    BY ProfileFacts DEF IInv, TypeOK, InStage, P, Runs
  <2>2. setpoint = StageSetpoint(P.stages[run.stage], run.stage_ms, stage_start)
    BY DEF IInv, Followed
  <2>3. stage_start < P.abort
    BY DEF IInv, EnteredBelow
  <2>4. P.stages[run.stage].target < P.abort /\ P.stages[run.stage].target \in Int
    BY <2>1 DEF AllValid, ValidProfile, IInv, TypeOK, P, Stages
  <2> QED BY <2>1, <2>2, <2>3, <2>4, SetpointBetween
<1> QED BY RunInvariant, <1>1, PTL

\* In every reachable state: a run has taken, for the stages it has done, at least their
\* nominal times and at most their budgets and a tick for each.
THEOREM RunsArePaced == Spec => [](IInv /\ Paced)
<1>1. Init => Paced
  BY BeginningIsPaced DEF Init, RunZero
<1>2. IInv /\ Paced /\ [Next]_vars => Paced'
  <2> SUFFICES ASSUME IInv, Paced, [Next]_vars PROVE Paced'
    OBVIOUS
  <2>1. CASE \E temp \in Temps : Start(temp)
    BY <2>1, StartIsPaced
  <2>2. CASE TickStep
    BY <2>2, TickIsPaced DEF TickStep
  <2>3. CASE UNCHANGED vars
    <3>1. run' = run /\ total_ms' = total_ms /\ P' = P
      BY <2>3 DEF vars, P
    <3> QED BY <3>1 DEF Paced
  <2> QED BY <2>1, <2>2, <2>3 DEF Next
<1> QED BY RunInvariant, <1>1, <1>2, PTL DEF Spec

\* reflow_run_tick() of profile.c reports DONE only after every stage of the profile, and
\* after at least reflow_profile_nominal_ms(), for any profile and however the ticks fall.
THEOREM DoneMustBeEarned == Spec => []DoneIsEarned
<1>1. Paced => DoneIsEarned
  BY DEF Paced, DoneIsEarned, Floor, NominalMs
<1> QED BY RunsArePaced, <1>1, PTL

\* reflow_profile_max_ms() is a bound on a run that goes on or was completed, but for the
\* tick in which each of its stages is found to be over.
THEOREM RunsEndInBudget == Spec => []OverrunBounded
<1>1. ASSUME IInv, Paced, run.result = "ACTIVE" PROVE total_ms <= Ceiling(P, P.n_stages)
  <2> DEFINE k == run.stage
             nominal == P.stages[k].nominal
             grace == StageGrace(P.stages[k], P)
  <2>1. IsProfile(P) /\ k \in StageIdx(P) /\ total_ms \in Nat /\ run.stage_ms \in Nat
    BY <1>1, ProfileFacts DEF IInv, TypeOK, InStage, P, Runs
  <2>2. total_ms <= Ceiling(P, k) + run.stage_ms /\ run.stage_ms <= nominal + grace
    BY <1>1 DEF Paced
  <2>3. nominal \in Nat /\ grace \in Nat /\ LongestStep \in Nat
    BY <2>1, StageTimes, LongestFact
  <2>4. /\ Ceiling(P, k) \in Nat /\ k + 1 <= P.n_stages
        /\ Ceiling(P, k + 1) = Ceiling(P, k) + nominal + grace + LongestStep
        /\ Ceiling(P, k + 1) <= Ceiling(P, P.n_stages)
    BY <2>1, FloorAndCeiling
  <2>5. Ceiling(P, P.n_stages) \in Int
    <3>1. P.n_stages \in Nat /\ P.n_stages \in 0 .. P.n_stages
      BY <2>1 DEF IsProfile
    <3>2. /\ Nominals(P) \in [0 .. P.n_stages - 1 -> Nat] /\ Graces(P) \in [0 .. P.n_stages - 1 -> Nat]
      BY <2>1, StageTimes
    <3>3. TotalOf(Nominals(P), P.n_stages) \in Nat /\ TotalOf(Graces(P), P.n_stages) \in Nat
      BY <3>1, <3>2, TotalGrows
    <3>4. P.n_stages * LongestStep \in Nat
      BY <2>3, <3>1
    <3> QED BY <3>3, <3>4 DEF Ceiling
  <2> HIDE DEF k, nominal, grace
  <2> QED BY <2>1, <2>2, <2>3, <2>4, <2>5
<1>2. IInv /\ Paced => OverrunBounded
  BY <1>1 DEF Paced, OverrunBounded, Ceiling, MaxMs, NominalMs
<1> QED BY RunsArePaced, <1>2, PTL

--------------------------------------------------------------------------------
(* The width of the clocks.                                                    *)

\* What reflow_run_tick() may add up, and what the budgets come to, is below word.
SumsFit(word) ==
    /\ NominalMs(P) < word /\ MaxMs(P) < word
    /\ run.result = "ACTIVE" =>
          /\ P.stages[run.stage].nominal + StageGrace(P.stages[run.stage], P) < word
          /\ \A dt \in Steps : run.stage_ms + dt < word /\ total_ms + dt < word

\* In C the sums of profile.c are of type uint32_t, here they are integers.  They are the
\* same if the budget of each profile, with the longest tick for each stage, is below the
\* width: no sum of reflow_run_tick(), reflow_profile_nominal_ms() and
\* reflow_profile_max_ms() then wraps around, in any run.
THEOREM NoSumWraps ==
    ASSUME NEW word \in Nat,
           \A i \in ProfileIdx : MaxMs(Profiles[i]) + Profiles[i].n_stages * LongestStep < word
    PROVE  Spec => []SumsFit(word)
<1>1. ASSUME IInv, Paced PROVE SumsFit(word)
  <2> DEFINE n == P.n_stages
             nominals == TotalOf(Nominals(P), n)
             graces == TotalOf(Graces(P), n)
  <2>1. prof \in ProfileIdx /\ IsProfile(P) /\ n \in Nat /\ n \in 0 .. n
    BY <1>1, ProfileFacts DEF IInv, TypeOK, P, IsProfile
  <2>2. nominals \in Nat /\ graces \in Nat
    <3>1. 0 \in StageIdx(P)
      BY <2>1, ProfileAssumption DEF StageIdx, P
    <3>2. /\ Nominals(P) \in [0 .. n - 1 -> Nat] /\ Graces(P) \in [0 .. n - 1 -> Nat]
      BY <2>1, <3>1, StageTimes
    <3> QED BY <2>1, <3>2, TotalGrows
  <2>3. LongestStep \in Nat /\ n * LongestStep \in Nat
    <3> HIDE DEF n
    <3>1. LongestStep \in Nat
      BY LongestFact
    <3> QED BY <2>1, <3>1
  <2>4. MaxMs(P) = nominals + graces /\ NominalMs(P) = nominals
    BY DEF MaxMs, NominalMs
  <2>5. Ceiling(P, n) = nominals + graces + n * LongestStep
    BY DEF Ceiling
  <2>6. MaxMs(P) + n * LongestStep < word
    BY <2>1 DEF P
  <2> HIDE DEF n, nominals, graces
  <2>7. NominalMs(P) < word /\ MaxMs(P) < word /\ Ceiling(P, n) < word /\ Ceiling(P, n) \in Nat
    BY <2>2, <2>3, <2>4, <2>5, <2>6
  <2>8. ASSUME run.result = "ACTIVE"
        PROVE  /\ P.stages[run.stage].nominal + StageGrace(P.stages[run.stage], P) < word
               /\ \A dt \in Steps : run.stage_ms + dt < word /\ total_ms + dt < word
    <3> DEFINE k == run.stage
               nominal == P.stages[k].nominal
               grace == StageGrace(P.stages[k], P)
    <3>1. k \in StageIdx(P) /\ total_ms \in Nat /\ run.stage_ms \in Nat
      BY <1>1, <2>8 DEF IInv, TypeOK, InStage, Runs
    <3>2. /\ Floor(P, k) + run.stage_ms <= total_ms /\ total_ms <= Ceiling(P, k) + run.stage_ms
          /\ run.stage_ms <= nominal + grace
      BY <1>1, <2>8 DEF Paced
    <3>3. nominal \in Nat /\ grace \in Nat
      BY <2>1, <3>1, StageTimes
    <3>4. \A dt \in Steps : dt \in Nat /\ dt <= LongestStep
      BY LongestFact
    <3>5. /\ Floor(P, k) \in Nat /\ Ceiling(P, k) \in Nat
          /\ Ceiling(P, k + 1) = Ceiling(P, k) + nominal + grace + LongestStep
          /\ Ceiling(P, k + 1) <= Ceiling(P, n)
      BY <2>1, <3>1, FloorAndCeiling DEF n
    <3> HIDE DEF k, nominal, grace
    <3> DEFINE C == Ceiling(P, k)
               last == Ceiling(P, n)
    <3>6. /\ C + nominal + grace + LongestStep <= last /\ last < word
          /\ C \in Nat /\ last \in Nat
      BY <2>7, <3>5
    <3>7. run.stage_ms <= total_ms
      BY <3>1, <3>2, <3>5
    <3> HIDE DEF C, last
    <3>8. total_ms <= C + run.stage_ms
      BY <3>2 DEF C
    <3>9. /\ nominal + grace < word
          /\ \A dt \in Steps : run.stage_ms + dt < word /\ total_ms + dt < word
      BY <2>3, <3>1, <3>2, <3>3, <3>4, <3>6, <3>7, <3>8
    <3> QED BY <3>9 DEF k, nominal, grace
  <2> QED BY <2>7, <2>8 DEF SumsFit
<1> QED BY RunsArePaced, <1>1, PTL
================================================================================
