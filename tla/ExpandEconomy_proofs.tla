------------------------ MODULE ExpandEconomy_proofs ------------------------
(***************************************************************************)
(* What the schedule of the mints guarantees for every base amount, scale  *)
(* and cut-off, and along every grid; and the safety of the reservoir and  *)
(* of the hand-over between pool and factory, for any pools, owners,       *)
(* factories, cap, window and timelocks.  The cap is inductive only        *)
(* together with the agreement of the log and the payments; every other    *)
(* part is inductive with the types alone.                                 *)
(***************************************************************************)
EXTENDS ExpandEconomy, MCMintSchedule, Totals_proofs

-----------------------------------------------------------------------------
(* The schedule. *)

\* A quotient, by its two inequalities.
LEMMA QuotientBounds ==
  ASSUME NEW a \in Nat, NEW b \in Nat \ {0}
  PROVE  /\ a \div b \in Nat
         /\ b * (a \div b) <= a
         /\ a < b * (a \div b + 1)
  OBVIOUS

\* A larger numerator over a smaller denominator is no smaller a quotient; the
\* two fractions are compared crosswise.
LEMMA QuotientMonotone ==
  ASSUME NEW a \in Nat, NEW b \in Nat \ {0}, NEW c \in Nat, NEW d \in Nat \ {0},
         a * d <= c * b
  PROVE  a \div b <= c \div d
<1> DEFINE q == a \div b
           r == c \div d
<1>1. /\ q \in Nat /\ b * q <= a
      /\ r \in Nat /\ c < d * (r + 1)
  BY QuotientBounds
<1> HIDE DEF q, r
<1>2. SUFFICES ASSUME r + 1 <= q PROVE FALSE
  BY <1>1 DEF q, r
<1>3. (b * q) * d <= a * d
  BY <1>1
<1>4. c * b < (d * (r + 1)) * b
  BY <1>1
<1>5. (d * (r + 1)) * b <= (b * q) * d
  BY <1>1, <1>2
<1> QED
  BY <1>1, <1>3, <1>4, <1>5

\* The parts of the decay of a pool; ordinals start at one.
LEMMA DecayParts ==
  ASSUME NEW s \in Nat, NEW x \in Nat \ {0}
  PROVE  /\ DecayTop(x) \in Nat /\ DecayTop(x) * Scale \in Nat
         /\ DecayBottom(s, x) \in Nat \ {0}
         /\ Decay(s, x) \in Nat
<1>1. DecayTop(x) \in Nat
  BY DEF DecayTop
<1>2. DecayTop(x) * Scale \in Nat
  BY <1>1, ScheduleAssumption
<1>3. s \div 6 \in Nat
  BY QuotientBounds
<1>4. DecayBottom(s, x) \in Nat \ {0}
  BY <1>3 DEF DecayBottom
<1> QED
  BY <1>1, <1>2, <1>4, QuotientBounds DEF Decay

\* A pool is never given less than nothing nor more than the base amount.
THEOREM AmountInRange ==
  ASSUME NEW s \in Nat, NEW x \in Nat \ {0}
  PROVE  MintAmount(s, x) \in 0 .. BaseAmount
<1>1. Decay(s, x) \in Nat /\ DecayBottom(s, x) \in Nat
  BY DecayParts
<1> QED
  BY <1>1, ScheduleAssumption DEF MintAmount

\* The decay shrinks with time.
LEMMA DecayShrinks ==
  ASSUME NEW s \in Nat, NEW t \in Nat, s <= t, NEW x \in Nat \ {0}
  PROVE  Decay(t, x) <= Decay(s, x)
<1> DEFINE a == DecayTop(x) * Scale
           b == DecayBottom(t, x)
           d == DecayBottom(s, x)
<1>1. a \in Nat /\ b \in Nat \ {0} /\ d \in Nat \ {0}
  BY DecayParts
<1>2. s \div 6 <= t \div 6
  OBVIOUS
<1>3. d <= b
  BY <1>2 DEF DecayBottom
<1> HIDE DEF a, b, d
<1>4. a * d <= a * b
  BY <1>1, <1>3
<1>5. a \div b <= a \div d
  BY <1>1, <1>4, QuotientMonotone
<1> QED
  BY <1>5 DEF Decay, a, b, d

\* The decay grows with the ordinal: crosswise, the difference is
\* (y - x) times (s/6) (5 (x + y) + 1) + 1665 x y, and nothing in it is negative.
LEMMA DecayGrows ==
  ASSUME NEW s \in Nat, NEW x \in Nat \ {0}, NEW y \in Nat \ {0}, x <= y
  PROVE  Decay(s, x) <= Decay(s, y)
<1> DEFINE k == s \div 6
           m == DecayTop(x) * DecayBottom(s, y)
           n == DecayTop(y) * DecayBottom(s, x)
<1>1. k \in Nat
  BY QuotientBounds
<1>2. m <= n
  <2>1. n - m = (y - x) * (k * (5 * (x + y) + 1) + 1665 * (x * y))
    BY <1>1 DEF DecayTop, DecayBottom
  <2>2. y - x \in Nat /\ k * (5 * (x + y) + 1) + 1665 * (x * y) \in Nat
    BY <1>1
  <2>3. n - m \in Nat
    BY <2>1, <2>2
  <2> QED
    BY <2>3, DecayParts
<1>3. (DecayTop(x) * Scale) * DecayBottom(s, y) <= (DecayTop(y) * Scale) * DecayBottom(s, x)
  <2>1. m \in Nat /\ n \in Nat
    BY DecayParts
  <2>2. /\ (DecayTop(x) * Scale) * DecayBottom(s, y) = m * Scale
        /\ (DecayTop(y) * Scale) * DecayBottom(s, x) = n * Scale
    BY DecayParts, ScheduleAssumption
  <2> HIDE DEF m, n
  <2>3. m * Scale <= n * Scale
    BY <1>2, <2>1, ScheduleAssumption
  <2> QED
    BY <2>2, <2>3
<1> QED
  BY <1>3, DecayParts, QuotientMonotone DEF Decay

\* A pool never loses by crossing later.
THEOREM LaterIsNoLess ==
  ASSUME NEW s \in Nat, NEW t \in Nat, s <= t, NEW x \in Nat \ {0}
  PROVE  MintAmount(s, x) <= MintAmount(t, x)
  BY DecayShrinks, DecayParts, ScheduleAssumption DEF MintAmount

\* Of two pools that cross at the same time the later one is not given more.
THEOREM NewerIsNoMore ==
  ASSUME NEW s \in Nat, NEW x \in Nat \ {0}, NEW y \in Nat \ {0}, x <= y
  PROVE  MintAmount(s, y) <= MintAmount(s, x)
<1>1. /\ Decay(s, x) \in Nat /\ DecayBottom(s, x) # 0
      /\ Decay(s, y) \in Nat /\ DecayBottom(s, y) # 0
  BY DecayParts
<1>2. Decay(s, x) <= Decay(s, y)
  BY DecayGrows
<1> QED
  BY <1>1, <1>2, ScheduleAssumption DEF MintAmount

-----------------------------------------------------------------------------
(* Along the grid. *)

GridTypeOK == ordinal \in Nat \ {0} /\ elapsed \in Nat

\* The grid stays in the domain of the schedule.
LEMMA GridTypes == GridSpec => []GridTypeOK
<1>1. GridInit => GridTypeOK
  BY DEF GridInit, GridTypeOK
<1>2. GridTypeOK /\ [GridNext]_gridVars => GridTypeOK'
  BY GridAssumption DEF GridTypeOK, GridNext, LaterPool, LaterTime, gridVars
<1> QED
  BY <1>1, <1>2, PTL DEF GridSpec

\* LaterPoolsGetNoMore for every base amount, scale, cut-off and grid.
THEOREM ScheduleTapers == GridSpec => LaterPoolsGetNoMore
<1>1. GridTypeOK /\ [GridNext]_gridVars
        => [LaterPool => MintAmount(elapsed', ordinal') <= MintAmount(elapsed, ordinal)]_gridVars
  BY NewerIsNoMore DEF GridTypeOK, GridNext, LaterPool, LaterTime, gridVars
<1> QED
  BY <1>1, GridTypes, PTL DEF GridSpec, LaterPoolsGetNoMore

\* WaitingCostsNothing for every base amount, scale, cut-off and grid.
THEOREM WaitingIsFree == GridSpec => WaitingCostsNothing
<1>1. GridTypeOK /\ [GridNext]_gridVars
        => [LaterTime => MintAmount(elapsed', ordinal') >= MintAmount(elapsed, ordinal)]_gridVars
  BY LaterIsNoLess, GridAssumption, AmountInRange
     DEF GridTypeOK, GridNext, LaterPool, LaterTime, gridVars
<1> QED
  BY <1>1, GridTypes, PTL DEF GridSpec, WaitingCostsNothing

\* The whole decay of a pool, in base units, is at most n of them exactly when
\* its numerator is at most n denominators.
LEMMA QuotientAtLeast ==
  ASSUME NEW a \in Nat, NEW b \in Nat \ {0}, NEW n \in Nat
  PROVE  a \div b >= n <=> a >= n * b
<1> DEFINE q == a \div b
<1>1. q \in Nat /\ b * q <= a /\ a < b * (q + 1)
  BY QuotientBounds
<1> HIDE DEF q
<1>2. ASSUME q >= n PROVE a >= n * b
  <2>1. b * n <= b * q /\ b * n = n * b
    BY <1>1, <1>2
  <2> QED
    BY <1>1, <2>1
<1>3. ASSUME a >= n * b, ~(q >= n) PROVE FALSE
  <2>1. q + 1 <= n
    BY <1>1, <1>3
  <2>2. b * (q + 1) <= b * n /\ b * n = n * b
    BY <1>1, <2>1
  <2> QED
    BY <1>1, <1>3, <2>2
<1> QED
  BY <1>1, <1>2, <1>3 DEF q

\* The times of the grid are steps up to its end.
OnGrid == ordinal \in Nat \ {0} /\ \E k \in 0 .. MaxSteps : elapsed = k * TimeStep

LEMMA StaysOnGrid == GridSpec => []OnGrid
<1>1. GridInit => OnGrid
  <2>1. 0 \in 0 .. MaxSteps /\ 0 * TimeStep = 0
    BY GridAssumption
  <2> QED
    BY <2>1 DEF GridInit, OnGrid
<1>2. OnGrid /\ [GridNext]_gridVars => OnGrid'
  <2> SUFFICES ASSUME OnGrid, [GridNext]_gridVars PROVE OnGrid'
    OBVIOUS
  <2>1. CASE LaterPool
    BY <2>1 DEF OnGrid, LaterPool
  <2>2. CASE LaterTime
    <3>1. PICK k \in 0 .. MaxSteps : elapsed = k * TimeStep
      BY DEF OnGrid
    <3>2. k < MaxSteps
      <4>1. k * TimeStep < MaxSteps * TimeStep
        BY <2>2, <3>1 DEF LaterTime
      <4>2. k = MaxSteps => FALSE
        BY <4>1, GridAssumption
      <4> QED
        BY <4>2, GridAssumption
    <3>3. elapsed' = (k + 1) * TimeStep /\ k + 1 \in 0 .. MaxSteps
      BY <2>2, <3>1, <3>2, GridAssumption DEF LaterTime
    <3> QED
      BY <2>2, <3>3 DEF OnGrid, LaterTime
  <2>3. CASE UNCHANGED gridVars
    BY <2>3 DEF OnGrid, gridVars
  <2> QED
    BY <2>1, <2>2, <2>3 DEF GridNext
<1> QED
  BY <1>1, <1>2, PTL DEF GridSpec

\* The amount is exact wherever the decay is what decides, or has taken all.
LEMMA ExactWhereDecayed ==
  ASSUME NEW s \in Nat, NEW x \in Nat \ {0}, x <= MaxDecayX \/ Decay(s, x) >= BaseAmount
  PROVE  LET amount == MintAmount(s, x)
             top    == Scale * DecayTop(x)
             bottom == s \div 6 + 333 * x
         IN  /\ amount \in 0 .. BaseAmount
             /\ amount > 0 => /\ (BaseAmount - amount) * bottom <= top
                              /\ (BaseAmount - amount + 1) * bottom > top
             /\ amount = 0 => top >= BaseAmount * bottom
<1> DEFINE top == Scale * DecayTop(x)
           bottom == s \div 6 + 333 * x
           decay == Decay(s, x)
           amount == MintAmount(s, x)
<1>1. /\ top \in Nat /\ bottom \in Nat \ {0} /\ decay = top \div bottom /\ decay \in Nat
      /\ DecayBottom(s, x) # 0
  <2>1. top = DecayTop(x) * Scale /\ bottom = DecayBottom(s, x)
    BY DecayParts, ScheduleAssumption DEF DecayBottom
  <2> QED
    BY <2>1, DecayParts DEF Decay
<1>2. /\ bottom * decay <= top
      /\ top < bottom * (decay + 1)
      /\ decay >= BaseAmount <=> top >= BaseAmount * bottom
  <2> HIDE DEF top, bottom, decay
  <2> QED
    BY <1>1, QuotientBounds, QuotientAtLeast, ScheduleAssumption
<1>3. amount \in 0 .. BaseAmount
  BY AmountInRange
<1>4. amount = IF decay >= BaseAmount THEN 0 ELSE BaseAmount - decay
  BY <1>1, ScheduleAssumption DEF MintAmount
<1> HIDE DEF top, bottom, decay, amount
<1>5. amount > 0 => /\ BaseAmount - amount = decay
                    /\ (BaseAmount - amount) * bottom <= top
                    /\ (BaseAmount - amount + 1) * bottom > top
  <2>1. bottom * decay = decay * bottom /\ bottom * (decay + 1) = (decay + 1) * bottom
    BY <1>1
  <2>2. amount > 0 => BaseAmount - amount = decay
    BY <1>1, <1>4, ScheduleAssumption
  <2> QED
    BY <1>2, <2>1, <2>2
<1>6. amount = 0 => top >= BaseAmount * bottom
  BY <1>1, <1>2, <1>4, ScheduleAssumption
<1>7. /\ amount \in 0 .. BaseAmount
      /\ amount > 0 => /\ (BaseAmount - amount) * bottom <= top
                       /\ (BaseAmount - amount + 1) * bottom > top
      /\ amount = 0 => top >= BaseAmount * bottom
  BY <1>3, <1>5, <1>6
<1> QED
  BY <1>7 DEF top, bottom, amount

\* ExactAmount for every base amount, scale, cut-off and grid, if the cut-off
\* is beyond the last ordinal that the decay leaves something on the grid: no
\* unit is lost or minted too many, and the subtraction never wraps.
THEOREM AmountIsExact ==
  ASSUME Decay(MaxSteps * TimeStep, MaxDecayX + 1) >= BaseAmount
  PROVE  GridSpec => []ExactAmount
<1>1. OnGrid => ExactAmount
  <2> SUFFICES ASSUME OnGrid PROVE ExactAmount
    OBVIOUS
  <2>1. PICK k \in 0 .. MaxSteps : elapsed = k * TimeStep
    BY DEF OnGrid
  <2>2. k * TimeStep \in Nat /\ MaxSteps * TimeStep \in Nat /\ k * TimeStep <= MaxSteps * TimeStep
    BY GridAssumption
  <2>3. elapsed \in Nat /\ elapsed <= MaxSteps * TimeStep /\ ordinal \in Nat \ {0}
    BY <2>1, <2>2 DEF OnGrid
  <2>4. ASSUME ordinal > MaxDecayX PROVE Decay(elapsed, ordinal) >= BaseAmount
    <3> DEFINE end == MaxSteps * TimeStep
    <3>1. end \in Nat /\ MaxDecayX + 1 \in Nat \ {0} /\ MaxDecayX + 1 <= ordinal
      BY <2>2, <2>3, <2>4, ScheduleAssumption
    <3> HIDE DEF end
    <3>2. Decay(end, MaxDecayX + 1) <= Decay(end, ordinal)
      BY <2>3, <3>1, DecayGrows
    <3>3. Decay(end, ordinal) <= Decay(elapsed, ordinal)
      BY <2>3, <3>1, DecayShrinks DEF end
    <3>4. /\ Decay(end, MaxDecayX + 1) \in Nat /\ Decay(end, ordinal) \in Nat
          /\ Decay(elapsed, ordinal) \in Nat
      BY <2>3, <3>1, DecayParts
    <3>5. Decay(end, MaxDecayX + 1) >= BaseAmount
      BY DEF end
    <3> QED
      BY <3>2, <3>3, <3>4, <3>5, ScheduleAssumption
  <2>5. ordinal <= MaxDecayX \/ Decay(elapsed, ordinal) >= BaseAmount
    BY <2>3, <2>4, ScheduleAssumption
  <2> QED
    BY <2>3, <2>5, ExactWhereDecayed DEF ExactAmount
<1> QED
  BY <1>1, StaysOnGrid, PTL

-----------------------------------------------------------------------------
(* The reservoir. *)

FlagTypeOK ==
  /\ hit \in [Pools -> BOOLEAN] /\ pendingNotify \in [Pools -> BOOLEAN]
  /\ poolMinted \in [Pools -> BOOLEAN] /\ since \in {None} \cup Nat

FactoryTypeOK ==
  /\ factoryConfig \in FactorySettings
  /\ pendingFactory \in {None} \cup [settings : FactorySettings, left : 0 .. AdminTimelock]

AdminTypeOK ==
  /\ config \in Settings
  /\ pendingConfig \in {None} \cup [change : Proposed, left : 0 .. ConfigTimelock]
  /\ pendingWithdrawal \in {None} \cup
       [amount : WithdrawAmounts, denom : Denoms, left : 0 .. WithdrawTimelock]
  /\ tenure \in 0 .. TenureCap

PayTypeOK == log \in [Ages -> Nat] /\ paid \in [Ages -> Nat] /\ funds \in [Denoms -> Nat]

\* The invariant by what the actions leave alone together: the flags of pool
\* and factory, the factory's configuration, the owner's, and the money.
FlagInv  == FlagTypeOK /\ HandoffAccounted
AdminInv == AdminTypeOK /\ NoInheritedWithdrawal
PayInv   == PayTypeOK /\ LogIsPayments /\ RollingCap
IInv     == FlagInv /\ FactoryTypeOK /\ AdminInv /\ PayInv

LEMMA IInvTypes == IInv => TypeOK
  BY DEF IInv, FlagInv, AdminInv, PayInv, FlagTypeOK, FactoryTypeOK, AdminTypeOK, PayTypeOK,
         TypeOK

LEMMA FlagsSame == FlagInv /\ UNCHANGED <<poolVars, poolMinted, since>> => FlagInv'
  BY DEF FlagInv, FlagTypeOK, HandoffAccounted, poolVars

LEMMA FactorySame == FactoryTypeOK /\ UNCHANGED factoryVars => FactoryTypeOK'
  BY DEF FactoryTypeOK, factoryVars

LEMMA AdminSame == AdminInv /\ UNCHANGED adminVars => AdminInv'
  BY DEF AdminInv, AdminTypeOK, NoInheritedWithdrawal, adminVars

LEMMA PaySame == PayInv /\ UNCHANGED payVars => PayInv'
  BY DEF PayInv, PayTypeOK, LogIsPayments, RollingCap, payVars

-----------------------------------------------------------------------------
(* Money. *)

\* The entries of the log that count are those of the last day.
LEMMA LiveIsLastDay == /\ Live = LastDay /\ LastDay \subseteq Ages
                       /\ IsFiniteSet(LastDay) /\ 0 \in LastDay
<1>1. IsFiniteSet(LastDay)
  BY EconomyAssumption, FS_Interval DEF LastDay
<1> QED
  BY <1>1, EconomyAssumption DEF Live, InWindow, LastDay, Ages

\* What the code sums over the log is what the window has paid.
LEMMA LogTotal == ASSUME PayInv PROVE Total(log, Live) = Total(paid, LastDay)
<1>1. \A age \in LastDay : log[age] = paid[age]
  BY DEF PayInv, LogIsPayments
<1>2. Total(log, LastDay) = Total(paid, LastDay)
  BY <1>1, TotalEqual
<1> QED
  BY <1>2, LiveIsLastDay

LEMMA GrantKeeps ==
  ASSUME PayInv, config.denom \in Denoms,
         NEW amount \in Nat, FitsCap(amount), Granted(amount)
  PROVE  PayInv'
<1> USE DEF PayInv
<1>1. PayTypeOK'
  <2>1. log' \in [Ages -> Nat]
    BY DEF Granted, Debited, PayTypeOK
  <2>2. paid' \in [Ages -> Nat]
    <3>1. 0 \in Ages
      BY LiveIsLastDay
    <3> QED
      BY <3>1 DEF Granted, PayTypeOK
  <2>3. funds[config.denom] \in Nat /\ funds[config.denom] >= amount
    BY DEF Granted, PayTypeOK
  <2>4. funds' \in [Denoms -> Nat]
    BY <2>3 DEF Granted, PayTypeOK
  <2> QED
    BY <2>1, <2>2, <2>4 DEF PayTypeOK
<1>2. \A age \in LastDay : paid'[age] = IF age = 0 THEN paid[age] + amount ELSE paid[age]
  BY LiveIsLastDay DEF Granted, PayTypeOK
<1>3. LogIsPayments'
  <2>1. \A age \in LastDay : log'[age] = IF age = 0 THEN log[age] + amount ELSE log[age]
    BY LiveIsLastDay DEF Granted, Debited, PayTypeOK
  <2> QED
    BY <1>2, <2>1 DEF LogIsPayments, LastDay
<1>4. RollingCap'
  <2>1. \A age \in LastDay : paid[age] \in Nat
    BY LiveIsLastDay DEF PayTypeOK
  <2>2. Total(paid', LastDay) = Total(paid, LastDay) + amount
    BY <1>2, <2>1, LiveIsLastDay, TotalAdd
  <2>3. Total(paid, LastDay) + amount <= DailyCap
    BY LogTotal DEF FitsCap
  <2> QED
    BY <2>2, <2>3 DEF RollingCap, LastDay
<1> QED
  BY <1>1, <1>3, <1>4

LEMMA RequestKeeps ==
  ASSUME PayInv, config.denom \in Denoms, NEW amount \in Nat, RequestExpansion(amount)
  PROVE  PayInv'
<1>1. CASE UNCHANGED payVars
  BY <1>1, PaySame
<1>2. CASE FitsCap(amount) /\ Granted(amount)
  BY <1>2, GrantKeeps
<1> QED
  BY <1>1, <1>2 DEF RequestExpansion, Skipped

\* A mint is an amount of base units, whenever the pool crosses.
LEMMA MintForType == ASSUME FlagTypeOK, NEW p \in Pools PROVE MintFor(p) \in Nat
<1> DEFINE s == (IF since = None THEN 0 ELSE since) * PeriodSeconds
<1>1. s \in Nat
  BY EconomyAssumption DEF FlagTypeOK
<1>2. p \in Nat \ {0}
  BY EconomyAssumption
<1> HIDE DEF s
<1>3. MintAmount(s, p) \in Nat
  BY <1>1, <1>2, AmountInRange, ScheduleAssumption
<1> QED
  BY <1>3 DEF MintFor, s

LEMMA MintKeeps ==
  ASSUME PayInv, config.denom \in Denoms, NEW amount \in Nat, MintPaid(amount)
  PROVE  PayInv'
  BY PaySame, RequestKeeps DEF MintPaid

-----------------------------------------------------------------------------
(* The notification: what it does to the flags of its pool. *)

LEMMA NotifiedKeeps ==
  ASSUME IInv, NEW p \in Pools, Notified(p)
  PROVE  /\ PayInv' /\ ~poolMinted[p]
         /\ poolMinted' = [poolMinted EXCEPT ![p] = TRUE]
         /\ since' \in {None} \cup Nat
<1>1. MintFor(p) \in Nat /\ config.denom \in Denoms
  BY MintForType DEF IInv, FlagInv, AdminInv, AdminTypeOK, Settings
<1>2. PayInv'
  BY <1>1, MintKeeps DEF IInv, Notified
<1>3. since' \in {None} \cup Nat
  BY DEF Notified, IInv, FlagInv, FlagTypeOK
<1> QED
  BY <1>2, <1>3 DEF Notified

LEMMA CrossKeeps == ASSUME IInv, NEW p \in Pools, Cross(p) PROVE IInv'
<1> USE DEF IInv
<1>1. FactoryTypeOK' /\ AdminInv'
  BY FactorySame, AdminSame DEF Cross
<1>2. CASE Notified(p) /\ UNCHANGED pendingNotify
  <2>1. /\ PayInv' /\ poolMinted' = [poolMinted EXCEPT ![p] = TRUE]
        /\ since' \in {None} \cup Nat
    BY <1>2, NotifiedKeeps
  <2>2. FlagInv'
    BY <1>2, <2>1 DEF Cross, FlagInv, FlagTypeOK, HandoffAccounted
  <2> QED
    BY <1>1, <2>1, <2>2
<1>3. CASE NotifyFails(p) /\ pendingNotify' = [pendingNotify EXCEPT ![p] = TRUE]
  <2>1. PayInv'
    BY <1>3, PaySame DEF NotifyFails
  <2>2. FlagInv'
    BY <1>3 DEF Cross, NotifyFails, FlagInv, FlagTypeOK, HandoffAccounted
  <2> QED
    BY <1>1, <2>1, <2>2
<1> QED
  BY <1>2, <1>3 DEF Cross

LEMMA RetryKeeps == ASSUME IInv, NEW p \in Pools, RetryNotify(p) PROVE IInv'
<1> USE DEF IInv
<1>1. /\ PayInv' /\ ~poolMinted[p] /\ poolMinted' = [poolMinted EXCEPT ![p] = TRUE]
      /\ since' \in {None} \cup Nat
  BY NotifiedKeeps DEF RetryNotify
<1>2. FlagInv'
  BY <1>1 DEF RetryNotify, FlagInv, FlagTypeOK, HandoffAccounted
<1> QED
  BY <1>1, <1>2, FactorySame, AdminSame DEF RetryNotify

LEMMA ForeignKeeps ==
  ASSUME IInv, NEW amount \in ForeignAmounts, ForeignRequest(amount)
  PROVE  IInv'
<1> USE DEF IInv
<1>1. amount \in Nat /\ config.denom \in Denoms
  BY EconomyAssumption DEF AdminInv, AdminTypeOK, Settings
<1>2. PayInv'
  BY <1>1, RequestKeeps DEF ForeignRequest
<1> QED
  BY <1>2, FlagsSame, FactorySame, AdminSame DEF ForeignRequest

-----------------------------------------------------------------------------
(* The owner's calls. *)

\* Only the owner's state moves: the rest of the invariant is kept.
LEMMA OwnerOnly ==
  ASSUME IInv, UNCHANGED notAdmin, AdminInv', PayInv'
  PROVE  IInv'
  BY FlagsSame, FactorySame DEF IInv, notAdmin

LEMMA UpdatedType ==
  ASSUME config \in Settings, NEW change \in Proposed
  PROVE  Updated(change) \in Settings
<1>1. DOMAIN config = {"factory", "owner", "denom"}
  BY DEF Settings
<1>2. /\ change.factory \in Factories \cup {None} /\ change.owner \in Owners \cup {None}
      /\ change.denom \in Denoms \cup {None}
  BY DEF Proposed
<1>3. config.factory \in Factories /\ config.owner \in Owners /\ config.denom \in Denoms
  BY DEF Settings
<1>4. Updated(change) =
        [factory |-> IF change.factory = None THEN config.factory ELSE change.factory,
         owner   |-> IF change.owner = None THEN config.owner ELSE change.owner,
         denom   |-> IF change.denom = None THEN config.denom ELSE change.denom]
  BY <1>1 DEF Updated
<1> QED
  BY <1>2, <1>3, <1>4 DEF Settings

LEMMA ProposeConfigKeeps ==
  ASSUME IInv, NEW change \in Proposed, ProposeConfigUpdate(change)
  PROVE  IInv'
<1>1. AdminInv'
  BY EconomyAssumption
     DEF IInv, AdminInv, AdminTypeOK, NoInheritedWithdrawal, ProposeConfigUpdate
<1> QED
  BY <1>1, OwnerOnly, PaySame DEF ProposeConfigUpdate, IInv

LEMMA ExecuteConfigKeeps == ASSUME IInv, ExecuteConfigUpdate PROVE IInv'
<1> USE DEF IInv, AdminInv
<1>1. config' \in Settings
  BY UpdatedType DEF ExecuteConfigUpdate, AdminTypeOK
<1>2. tenure' \in 0 .. TenureCap /\ pendingConfig' = None
  BY EconomyAssumption DEF ExecuteConfigUpdate, AdminTypeOK, TenureCap
<1>3. CASE config'.owner = config.owner
  <2>1. UNCHANGED <<pendingWithdrawal, tenure>>
    BY <1>3 DEF ExecuteConfigUpdate, DropsWithdrawal
  <2>2. AdminInv'
    BY <1>1, <1>2, <2>1 DEF AdminTypeOK, NoInheritedWithdrawal
  <2> QED
    BY <2>2, OwnerOnly, PaySame DEF ExecuteConfigUpdate
<1>4. CASE config'.owner # config.owner
  <2>1. pendingWithdrawal' = None
    BY <1>4 DEF ExecuteConfigUpdate, DropsWithdrawal
  <2>2. AdminInv'
    BY <1>1, <1>2, <2>1 DEF AdminTypeOK, NoInheritedWithdrawal
  <2> QED
    BY <2>2, OwnerOnly, PaySame DEF ExecuteConfigUpdate
<1> QED
  BY <1>3, <1>4

LEMMA CancelConfigKeeps == ASSUME IInv, CancelConfigUpdate PROVE IInv'
<1>1. AdminInv'
  BY DEF IInv, AdminInv, AdminTypeOK, NoInheritedWithdrawal, CancelConfigUpdate
<1> QED
  BY <1>1, OwnerOnly, PaySame DEF CancelConfigUpdate, IInv

\* A withdrawal starts its wait now: no ownership is younger.
LEMMA ProposeWithdrawalKeeps ==
  ASSUME IInv, NEW amount \in WithdrawAmounts, NEW d \in Denoms, ProposeWithdrawal(amount, d)
  PROVE  IInv'
<1>1. AdminInv'
  BY EconomyAssumption
     DEF IInv, AdminInv, AdminTypeOK, NoInheritedWithdrawal, ProposeWithdrawal, TenureCap
<1> QED
  BY <1>1, OwnerOnly, PaySame DEF ProposeWithdrawal, IInv

LEMMA ExecuteWithdrawalKeeps == ASSUME IInv, ExecuteWithdrawal PROVE IInv'
<1> USE DEF IInv
<1>1. AdminInv'
  BY DEF AdminInv, AdminTypeOK, NoInheritedWithdrawal, ExecuteWithdrawal
<1>2. PayInv'
  <2>1. /\ pendingWithdrawal.amount \in Nat /\ pendingWithdrawal.denom \in Denoms
        /\ funds \in [Denoms -> Nat]
    BY EconomyAssumption DEF ExecuteWithdrawal, AdminInv, AdminTypeOK, PayInv, PayTypeOK
  <2>2. funds' \in [Denoms -> Nat]
    BY <2>1 DEF ExecuteWithdrawal, Before
  <2> QED
    BY <2>2 DEF ExecuteWithdrawal, PayInv, PayTypeOK, LogIsPayments, RollingCap
<1> QED
  BY <1>1, <1>2, OwnerOnly DEF ExecuteWithdrawal

LEMMA CancelWithdrawalKeeps == ASSUME IInv, CancelWithdrawal PROVE IInv'
<1>1. AdminInv'
  BY DEF IInv, AdminInv, AdminTypeOK, NoInheritedWithdrawal, CancelWithdrawal
<1> QED
  BY <1>1, OwnerOnly, PaySame DEF CancelWithdrawal, IInv

-----------------------------------------------------------------------------
(* The factory's configuration, funds and time. *)

LEMMA FactoryOnly ==
  ASSUME IInv, UNCHANGED notFactory, FactoryTypeOK'
  PROVE  IInv'
  BY FlagsSame, AdminSame, PaySame DEF IInv, notFactory

LEMMA ProposeFactoryKeeps ==
  ASSUME IInv, NEW settings \in FactorySettings, ProposeFactoryConfig(settings)
  PROVE  IInv'
  BY FactoryOnly, EconomyAssumption DEF IInv, FactoryTypeOK, ProposeFactoryConfig

LEMMA UpdateFactoryKeeps == ASSUME IInv, UpdateFactoryConfig PROVE IInv'
  BY FactoryOnly DEF IInv, FactoryTypeOK, UpdateFactoryConfig

LEMMA CancelFactoryKeeps == ASSUME IInv, CancelFactoryConfig PROVE IInv'
  BY FactoryOnly DEF IInv, FactoryTypeOK, CancelFactoryConfig

LEMMA FundKeeps == ASSUME IInv, NEW d \in Denoms, Fund(d) PROVE IInv'
<1> USE DEF IInv
<1>1. PayInv'
  BY EconomyAssumption DEF Fund, PayInv, PayTypeOK, LogIsPayments, RollingCap
<1> QED
  BY <1>1, FlagsSame, FactorySame, AdminSame DEF Fund, notAdmin

\* A wait that is not over gets shorter, one that is over stays so.
LEMMA WaitedType ==
  ASSUME NEW bound \in Nat, NEW pending, pending # None, pending.left \in 0 .. bound
  PROVE  \/ Waited(pending) = pending
         \/ /\ pending.left > 0 /\ pending.left - 1 \in 0 .. bound
            /\ Waited(pending) = [pending EXCEPT !.left = @ - 1]
  BY DEF Waited

LEMMA PeriodKeepsAdmin == ASSUME IInv, NextPeriod PROVE AdminInv'
<1> USE DEF IInv, AdminInv
<1>1. config' \in Settings
  BY DEF NextPeriod, AdminTypeOK
<1>2. pendingConfig' \in {None} \cup [change : Proposed, left : 0 .. ConfigTimelock]
  BY WaitedType, EconomyAssumption DEF NextPeriod, AdminTypeOK, Waited
<1>3. pendingWithdrawal' \in {None} \cup
        [amount : WithdrawAmounts, denom : Denoms, left : 0 .. WithdrawTimelock]
  BY WaitedType, EconomyAssumption DEF NextPeriod, AdminTypeOK, Waited
<1>4. tenure' \in 0 .. TenureCap
  BY EconomyAssumption DEF NextPeriod, AdminTypeOK, TenureCap, Before
<1>5. NoInheritedWithdrawal'
  <2> SUFFICES ASSUME pendingWithdrawal' # None
               PROVE  WithdrawTimelock - pendingWithdrawal'.left <= tenure'
    BY DEF NoInheritedWithdrawal
  <2>1. /\ pendingWithdrawal # None /\ pendingWithdrawal.left \in 0 .. WithdrawTimelock
        /\ WithdrawTimelock - pendingWithdrawal.left <= tenure
    BY DEF NextPeriod, Waited, AdminTypeOK, NoInheritedWithdrawal
  <2>2. \/ pendingWithdrawal'.left = pendingWithdrawal.left /\ pendingWithdrawal.left = 0
        \/ pendingWithdrawal'.left = pendingWithdrawal.left - 1
    BY <2>1 DEF NextPeriod, Waited, AdminTypeOK
  <2>3. tenure' = Before(tenure + 1, ConfigTimelock + WithdrawTimelock)
    BY DEF NextPeriod, TenureCap
  <2>4. tenure \in Nat /\ tenure <= ConfigTimelock + WithdrawTimelock
    BY EconomyAssumption DEF AdminTypeOK, TenureCap
  <2>5. WithdrawTimelock - pendingWithdrawal'.left <= WithdrawTimelock
    BY <1>3, EconomyAssumption
  <2> QED
    BY <2>1, <2>2, <2>3, <2>4, <2>5, EconomyAssumption DEF Before
<1> QED
  BY <1>1, <1>2, <1>3, <1>4, <1>5 DEF AdminTypeOK

\* As time passes payments leave the last day and none enters it.
LEMMA PeriodKeepsPay == ASSUME IInv, NextPeriod PROVE PayInv'
<1> USE DEF IInv, PayInv
<1>1. PayTypeOK'
  <2>1. Aged(log) \in [Ages -> Nat] /\ Aged(paid) \in [Ages -> Nat]
    BY EconomyAssumption DEF Aged, Ages, PayTypeOK
  <2> QED
    BY <2>1 DEF NextPeriod, PayTypeOK
<1>2. \A age \in LastDay : /\ log'[age] = IF age = 0 THEN 0 ELSE log[age - 1]
                          /\ paid'[age] = IF age = 0 THEN 0 ELSE paid[age - 1]
  BY LiveIsLastDay DEF NextPeriod, Aged
<1>3. LogIsPayments'
  <2>1. \A age \in LastDay : age # 0 => age - 1 \in LastDay
    BY EconomyAssumption DEF LastDay
  <2> QED
    BY <1>2, <2>1 DEF LogIsPayments, LastDay
<1>4. RollingCap'
  <2> DEFINE last == Window - 1
  <2>1. last \in Nat /\ LastDay = 0 .. last
    BY EconomyAssumption DEF LastDay
  <2>2. \A age \in 0 .. last : paid[age] \in Nat
    BY <2>1, LiveIsLastDay DEF PayTypeOK
  <2>3. \A age \in 0 .. last : paid'[age] = IF age = 0 THEN 0 ELSE paid[age - 1]
    BY <1>2, <2>1
  <2>4. \A age \in 0 .. last : paid'[age] \in Nat
    BY <1>1, <2>1, LiveIsLastDay DEF PayTypeOK
  <2>5. IsFiniteSet(0 .. last)
    BY <2>1, LiveIsLastDay
  <2> HIDE DEF last
  <2>6. Total(paid', 0 .. last) <= Total(paid, 0 .. last)
    BY <2>1, <2>2, <2>3, TotalShift
  <2>7. Total(paid, 0 .. last) \in Nat /\ Total(paid', 0 .. last) \in Nat
    BY <2>2, <2>4, <2>5, TotalType
  <2> QED
    BY <2>1, <2>6, <2>7, EconomyAssumption DEF RollingCap, LastDay
<1> QED
  BY <1>1, <1>3, <1>4

LEMMA PeriodKeeps == ASSUME IInv, NextPeriod PROVE IInv'
<1> USE DEF IInv
<1>1. FlagInv'
  BY EconomyAssumption
     DEF NextPeriod, FlagInv, FlagTypeOK, HandoffAccounted, poolVars, Before
<1>2. FactoryTypeOK'
  BY WaitedType, EconomyAssumption DEF NextPeriod, FactoryTypeOK, Waited
<1> QED
  BY <1>1, <1>2, PeriodKeepsAdmin, PeriodKeepsPay

-----------------------------------------------------------------------------
(* The invariant. *)

LEMMA InitEstablishes == Init => IInv
<1> SUFFICES ASSUME Init PROVE IInv
  OBVIOUS
<1> USE DEF Init
<1>1. FlagInv
  BY DEF FlagInv, FlagTypeOK, HandoffAccounted
<1>2. FactoryTypeOK
  BY DEF FactoryTypeOK, FactorySettings
<1>3. AdminInv
  BY EconomyAssumption DEF AdminInv, AdminTypeOK, Settings, NoInheritedWithdrawal, TenureCap
<1>4. PayInv
  <2>1. PayTypeOK
    BY EconomyAssumption DEF PayTypeOK
  <2>2. LogIsPayments
    BY LiveIsLastDay DEF LogIsPayments
  <2>3. \A age \in LastDay : paid[age] = 0
    BY LiveIsLastDay
  <2>4. Total(paid, LastDay) = 0
    BY <2>3, TotalZero
  <2> QED
    BY <2>1, <2>2, <2>4, EconomyAssumption DEF PayInv, RollingCap
<1> QED
  BY <1>1, <1>2, <1>3, <1>4 DEF IInv

\* Every step of the system keeps the invariant.
THEOREM EconomyInductive == IInv /\ [Next]_vars => IInv'
<1> SUFFICES ASSUME IInv, [Next]_vars PROVE IInv'
  OBVIOUS
<1>1. CASE UNCHANGED vars
  BY <1>1, FlagsSame, FactorySame, AdminSame, PaySame DEF IInv, vars
<1>2. CASE Next
  BY <1>2, CrossKeeps, RetryKeeps, ForeignKeeps, ProposeConfigKeeps, ExecuteConfigKeeps,
     CancelConfigKeeps, ProposeWithdrawalKeeps, ExecuteWithdrawalKeeps, CancelWithdrawalKeeps,
     ProposeFactoryKeeps, UpdateFactoryKeeps, CancelFactoryKeeps, FundKeeps, PeriodKeeps
     DEF Next
<1> QED
  BY <1>1, <1>2

LEMMA EconomyInvariant == Spec => []IInv
  BY InitEstablishes, EconomyInductive, PTL DEF Spec

\* Every variable keeps its type; in particular no balance goes below zero.
THEOREM EconomyTypes == Spec => []TypeOK
  BY EconomyInvariant, IInvTypes, PTL

\* No 24 hours see more than the cap, for any cap, window, factory and schedule
\* of requests.
THEOREM CapHolds == Spec => []RollingCap
<1>1. IInv => RollingCap
  BY DEF IInv, PayInv
<1> QED
  BY <1>1, EconomyInvariant, PTL

\* The log charges the window with what was paid, no more and no less.
THEOREM LogIsExact == Spec => []LogIsPayments
<1>1. IInv => LogIsPayments
  BY DEF IInv, PayInv
<1> QED
  BY <1>1, EconomyInvariant, PTL

\* A crossed pool is settled in the factory or can be retried, never both.
THEOREM HandoffHolds == Spec => []HandoffAccounted
<1>1. IInv => HandoffAccounted
  BY DEF IInv, FlagInv
<1> QED
  BY <1>1, EconomyInvariant, PTL

\* No withdrawal outlives the ownership under which it was proposed.
THEOREM NothingInherited == Spec => []NoInheritedWithdrawal
<1>1. IInv => NoInheritedWithdrawal
  BY DEF IInv, AdminInv
<1> QED
  BY <1>1, EconomyInvariant, PTL
=============================================================================
