------------------------- MODULE CreatorPool_proofs -------------------------
(***************************************************************************)
(* Proofs about CreatorPool.  First its types, phases and books, which are *)
(* inductive together; then what it owes its committers: the account of    *)
(* the commits, the progress of the distribution, the budget of the tokens *)
(* and what each committer is granted, inductive on top of the first; and  *)
(* from these, that the pool implements CommitterPayouts, as which it pays *)
(* them, and ServedPool, as which its keepers see it.                      *)
(***************************************************************************)
EXTENDS CreatorPoolProperties, Totals_proofs, WellFoundedInduction

-----------------------------------------------------------------------------
(* Arithmetic. *)

\* A quotient of naturals is a natural.
LEMMA DivNat == ASSUME NEW a \in Nat, NEW b \in Nat \ {0}
                PROVE  a \div b \in Nat
  OBVIOUS

LEMMA ProductNat == ASSUME NEW a \in Nat, NEW b \in Nat
                    PROVE  a * b \in Nat
  OBVIOUS

\* A quotient of a by b is at most q when a is at most q * b.
LEMMA DivAtMost == ASSUME NEW a \in Nat, NEW b \in Nat \ {0}, NEW q \in Nat, a <= q * b
                   PROVE  a \div b <= q
  OBVIOUS

LEMMA ProductMonotone == ASSUME NEW a \in Nat, NEW b \in Nat, NEW c \in Nat, a <= b
                         PROVE  c * a <= c * b
  OBVIOUS

LEMMA DivTimes == ASSUME NEW a \in Nat, NEW b \in Nat \ {0}
                  PROVE  b * (a \div b) <= a
  OBVIOUS

LEMMA Distributes == ASSUME NEW a \in Int, NEW b \in Int, NEW c \in Int
                     PROVE  /\ a * (b + c) = a * b + a * c /\ a * (b - c) = a * b - a * c
                            /\ (b + c) * a = b * a + c * a
                            /\ a * b = b * a
  OBVIOUS

\* A share of n in the proportion a : b is no more than n.
LEMMA ShareAtMost == ASSUME NEW n \in Nat, NEW a \in Nat, NEW b \in Nat \ {0}, a <= b
                     PROVE  (n * a) \div b \in 0 .. n
<1>1. n * a \in Nat /\ n * a <= n * b
  BY ProductNat, ProductMonotone
<1>2. (n * a) \div b <= n
  BY <1>1, DivAtMost
<1>3. (n * a) \div b \in Nat
  BY <1>1, DivNat
<1> QED
  BY <1>2, <1>3

-----------------------------------------------------------------------------
(* Finite sets and totals. *)

\* A finite nonempty set of naturals has a greatest element.
LEMMA GreatestElement ==
  ASSUME NEW S \in SUBSET Nat, IsFiniteSet(S), S # {}
  PROVE  \E m \in S : \A n \in S : n <= m
<1> DEFINE above(m) == {n \in S : n > m}
           T == {X \in SUBSET S : \E m \in S : X = above(m)}
           R == StrictSubsetOrdering(S)
<1>1. IsWellFoundedOn(R, SUBSET S)
  BY FS_StrictSubsetOrderingWellFounded, FS_FiniteSubsetsOfFinite
<1>2. T \subseteq SUBSET S /\ T # {}
  OBVIOUS
<1>3. PICK X \in T : \A Y \in T : <<Y, X>> \notin R
  <2> HIDE DEF T, R
  <2> QED BY <1>1, <1>2, WFMin
<1>4. PICK m \in S : X = above(m)
  BY <1>3
<1>5. SUFFICES ASSUME NEW n \in S, n > m
               PROVE  FALSE
  BY <1>4
<1>6. above(n) \in T
  OBVIOUS
<1>7. above(n) \subseteq above(m) /\ n \in above(m) /\ n \notin above(n)
  <2>1. \A k \in S : k \in Nat
    OBVIOUS
  <2>2. n \in above(m) /\ n \notin above(n)
    BY <1>4, <1>5, <2>1
  <2>3. \A k \in S : k > n => k > m
    BY <1>4, <1>5, <2>1
  <2> QED BY <2>2, <2>3
<1>8. <<above(n), X>> \in R
  BY <1>4, <1>7 DEF StrictSubsetOrdering
<1> QED
  BY <1>3, <1>6, <1>8

-----------------------------------------------------------------------------
(* The operators of the pool. *)

\* The conversions between bluechip and USD, the fees of a commit and the
\* reward of a row are amounts.
LEMMA ConversionTypes ==
  ASSUME NEW amount \in Nat, NEW rate \in Rates, NEW usd \in Nat
  PROVE  /\ UsdValue(amount, rate) \in Nat
         /\ BluechipFor(usd, rate) \in Nat
         /\ CommitFees(amount) \in Nat
         /\ Reward(usd) \in Nat
<1>1. UsdValue(amount, rate) \in Nat
  BY ProductNat, DivNat, AmountsAssumption DEF UsdValue
<1>2. BluechipFor(usd, rate) \in Nat
  BY ProductNat, DivNat, AmountsAssumption DEF BluechipFor
<1>3. CommitFees(amount) \in Nat
  <2>1. (amount * FeeBluechip) \div FeeUnit \in Nat
    BY ProductNat, DivNat, FeesAssumption
  <2>2. (amount * FeeCreator) \div FeeUnit \in Nat
    BY ProductNat, DivNat, FeesAssumption
  <2> QED BY <2>1, <2>2 DEF CommitFees
<1>4. Reward(usd) \in Nat
  BY ProductNat, DivNat, SizesAssumption DEF Reward
<1> QED
  BY <1>1, <1>2, <1>3, <1>4

\* compute_swap never takes more than the ask side holds.
LEMMA SwapBounds ==
  ASSUME NEW offer \in Nat, NEW ask \in Nat, NEW amount \in Nat \ {0}
  PROVE  /\ ComputeSwap(offer, ask, amount).return \in Nat
         /\ ComputeSwap(offer, ask, amount).commission \in Nat
         /\ ComputeSwap(offer, ask, amount).return
              + ComputeSwap(offer, ask, amount).commission <= ask
<1> DEFINE gross == (ask * amount) \div (offer + amount)
           fee   == (gross * LpFee) \div FeeUnit
<1>1. gross \in 0 .. ask
  BY ShareAtMost, offer + amount \in Nat \ {0}, amount <= offer + amount
<1>2. fee \in 0 .. gross
  <2> HIDE DEF gross
  <2> QED BY <1>1, ShareAtMost, FeesAssumption
<1>3. /\ ComputeSwap(offer, ask, amount).return = gross - fee
      /\ ComputeSwap(offer, ask, amount).commission = fee
  BY DEF ComputeSwap
<1> HIDE DEF gross, fee
<1> QED
  BY <1>1, <1>2, <1>3

\* compute_swap never lowers the product of the two reserves: its gross return
\* is rounded down.
LEMMA SwapKeepsProduct ==
  ASSUME NEW offer \in Nat, NEW ask \in Nat, NEW amount \in Nat \ {0}
  PROVE  LET deal == ComputeSwap(offer, ask, amount)
         IN  (offer + amount) * (ask - (deal.return + deal.commission)) >= offer * ask
<1> DEFINE gross == (ask * amount) \div (offer + amount)
           fee   == (gross * LpFee) \div FeeUnit
           sum   == offer + amount
<1>1. gross \in 0 .. ask
  BY ShareAtMost, offer + amount \in Nat \ {0}, amount <= offer + amount
<1>2. fee \in 0 .. gross
  <2> HIDE DEF gross
  <2> QED BY <1>1, ShareAtMost, FeesAssumption
<1>3. /\ ComputeSwap(offer, ask, amount).return = gross - fee
      /\ ComputeSwap(offer, ask, amount).commission = fee
  BY DEF ComputeSwap
<1>4. sum * gross <= ask * amount
  BY DivTimes, ProductNat, sum \in Nat \ {0}
<1> HIDE DEF gross, fee
<1>5. sum * (ask - gross) = sum * ask - sum * gross
  BY <1>1, Distributes
<1>6. sum * ask = offer * ask + ask * amount
  BY Distributes
<1>7. offer * ask \in Nat /\ ask * amount \in Nat /\ sum * gross \in Nat
  BY <1>1, ProductNat
<1>8. sum * (ask - gross) >= offer * ask
  <2> DEFINE a == sum * gross
             b == ask * amount
             c == offer * ask
             d == sum * ask
             e == sum * (ask - gross)
  <2>1. a <= b /\ e = d - a /\ d = c + b /\ a \in Nat /\ b \in Nat /\ c \in Nat
    BY <1>4, <1>5, <1>6, <1>7
  <2> HIDE DEF a, b, c, d, e
  <2>2. e >= c
    BY <2>1
  <2> QED BY <2>2 DEF c, e
<1>9. (gross - fee) + fee = gross
  BY <1>1, <1>2
<1> QED
  BY <1>3, <1>8, <1>9

\* Seeding splits the bluechip raised and the pool's tokens between the
\* reserves and the creator's excess without loss.
LEMMA SeededBounds ==
  ASSUME NEW seed \in Nat
  PROVE  /\ Seeded(seed).reserve0 \in Nat
         /\ Seeded(seed).reserve1 \in Nat
         /\ Seeded(seed).excess \in {None} \cup ExcessRecord
         /\ Locked(Seeded(seed).excess).bluechip \in Nat
         /\ Locked(Seeded(seed).excess).token \in Nat
         /\ Seeded(seed).reserve0 + Locked(Seeded(seed).excess).bluechip = seed
         /\ Seeded(seed).reserve1 + Locked(Seeded(seed).excess).token = PoolSeed
<1> DEFINE over   == seed - MaxLock
           tokens == (PoolSeed * over) \div seed
           lock   == [bluechip |-> over, token |-> tokens, wait |-> ExcessLock]
<1>1. CASE seed > MaxLock
  <2>1. over \in Nat /\ over <= seed /\ seed \in Nat \ {0}
    BY <1>1, SizesAssumption
  <2>2. tokens \in 0 .. PoolSeed
    <3> HIDE DEF over
    <3> QED BY <2>1, ShareAtMost, SizesAssumption
  <2>3. lock \in ExcessRecord
    <3> HIDE DEF over, tokens
    <3> QED BY <2>1, <2>2, SizesAssumption, WindowsAssumption DEF ExcessRecord
  <2>4. lock # None
    BY <2>3, NoneAssumption
  <2>5. /\ Seeded(seed).reserve0 = MaxLock
        /\ Seeded(seed).reserve1 = PoolSeed - tokens
        /\ Seeded(seed).excess = lock
    BY <1>1 DEF Seeded
  <2>6. Locked(lock).bluechip = over /\ Locked(lock).token = tokens
    BY <2>4 DEF Locked
  <2>7. MaxLock + over = seed
    BY SizesAssumption
  <2> HIDE DEF over, tokens, lock
  <2> QED BY <2>1, <2>2, <2>3, <2>4, <2>5, <2>6, <2>7, SizesAssumption
<1>2. CASE ~(seed > MaxLock)
  BY <1>2, SizesAssumption DEF Seeded, Locked
<1> QED
  BY <1>1, <1>2

\* A share of a seeded reserve is an amount.
LEMMA CrossingCapType == ASSUME NEW n \in Nat PROVE CrossingCap(n) \in Nat
  BY ProductNat, DivNat, SizesAssumption DEF CrossingCap

LEMMA StallCapType == StallCap \in Nat
<1>1. \E n \in {StallTimeout + 1, AdminWindow, PublicWindow} :
         n >= StallTimeout + 1 /\ n >= AdminWindow /\ n >= PublicWindow
  BY WindowsAssumption
<1>2. StallCap \in {StallTimeout + 1, AdminWindow, PublicWindow}
  BY <1>1 DEF StallCap
<1> QED
  BY <1>2, WindowsAssumption

LEMMA RowsFinite == ASSUME NEW l PROVE Rows(l) \subseteq Users /\ IsFiniteSet(Rows(l))
  BY FS_Subset, UsersAssumption DEF Rows

\* A batch is a finite set of users, and paying it moves the cursor to one of
\* them or leaves it.
LEMMA BatchBounds ==
  ASSUME dist.cursor \in Users \cup {0}
  PROVE  /\ Batch \subseteq Users /\ IsFiniteSet(Batch)
         /\ LastProcessed(Batch) \in Users \cup {0}
<1>1. Batch \subseteq Users /\ IsFiniteSet(Batch)
  BY RowsFinite, FS_Subset DEF Batch
<1>2. CASE Batch = {}
  BY <1>1, <1>2 DEF LastProcessed
<1>3. CASE Batch # {}
  <2>1. \E u \in Batch : \A v \in Batch : v <= u
    BY <1>1, <1>3, GreatestElement, UsersAssumption
  <2>2. LastProcessed(Batch) \in Batch
    BY <1>3, <2>1 DEF LastProcessed
  <2> QED BY <1>1, <2>2
<1> QED
  BY <1>1, <1>2, <1>3

LEMMA PartiesFinite == IsFiniteSet(Parties)
  BY FS_AddElement, UsersAssumption DEF Parties

-----------------------------------------------------------------------------
(* The inductive invariant, action by action. *)

LEMMA InitInvariant == Init => IInv
<1> SUFFICES ASSUME Init PROVE IInv
  OBVIOUS
<1>1. TypeOK
  <2>1. MoneyTypeOK
    BY DEF Init, MoneyTypeOK
  <2>2. thresholdHit \in BOOLEAN /\ paused \in BOOLEAN /\ drained \in BOOLEAN
        /\ pendingNotify \in BOOLEAN /\ factoryMinted \in BOOLEAN
    BY Zenon DEF Init
  <2>3. ControlTypeOK
    BY <2>2, WindowsAssumption, SizesAssumption DEF Init, ControlTypeOK
  <2>4. DistributionTypeOK
    BY WindowsAssumption DEF Init, DistributionTypeOK
  <2> QED
    BY <2>1, <2>3, <2>4 DEF TypeOK
<1>2. Phases /\ BluechipBacked /\ TokenBacked /\ NotifyAccounted
  BY DEF Init, Phases, BluechipBacked, TokenBacked, NotifyAccounted, Excess, Locked, Escrow
<1> QED
  BY <1>1, <1>2 DEF IInv

\* Steps that touch neither money nor the phase: only switches and waits move.
LEMMA SwitchesPreserve ==
  ASSUME IInv, Pause \/ Unpause \/ EmergencyInitiate \/ CancelEmergencyWithdraw
                 \/ RetryFactoryNotify
  PROVE  IInv'
<1> USE DEF commitVars, ammVars, distVars, notifyVars, adminVars, tokenVars, clockVars
<1> USE DEF IInv, TypeOK
<1>1. UNCHANGED <<commitVars, ammVars, distVars, tokenVars, clockVars, trades, drained, escrow>>
  BY DEF Pause, Unpause, EmergencyInitiate, CancelEmergencyWithdraw, RetryFactoryNotify
<1>2. /\ paused' \in BOOLEAN /\ pendingNotify' \in BOOLEAN /\ factoryMinted' \in BOOLEAN
      /\ NotifyAccounted'
  <2>1. CASE RetryFactoryNotify
    BY <2>1, Zenon DEF RetryFactoryNotify, ControlTypeOK, NotifyAccounted
  <2>2. CASE ~RetryFactoryNotify
    <3>1. UNCHANGED notifyVars /\ paused' \in BOOLEAN
      BY <2>2, Zenon DEF Pause, Unpause, EmergencyInitiate, CancelEmergencyWithdraw
    <3> QED BY <1>1, <3>1, Zenon DEF ControlTypeOK, NotifyAccounted
  <2> QED BY <2>1, <2>2
<1>3. /\ pendingEW' \in {None} \cup 0 .. EmergencyDelay
      /\ ~thresholdHit => pendingEW' = None
  <2>1. CASE EmergencyInitiate
    BY <2>1, WindowsAssumption DEF EmergencyInitiate, Withdrawable
  <2>2. CASE ~EmergencyInitiate
    <3>1. pendingEW' \in {pendingEW, None}
      BY <2>2, Zenon DEF Pause, Unpause, CancelEmergencyWithdraw, RetryFactoryNotify
    <3> QED BY <3>1 DEF ControlTypeOK, Phases
  <2> QED BY <2>1, <2>2
<1>4. MoneyTypeOK' /\ DistributionTypeOK'
  BY <1>1 DEF MoneyTypeOK, DistributionTypeOK
<1>5. ControlTypeOK'
  <2>1. /\ thresholdHit' \in BOOLEAN /\ drained' \in BOOLEAN
        /\ UNCHANGED <<cooldown, sinceCrossing, lastCommit, trades>>
    BY <1>1, Zenon DEF ControlTypeOK
  <2> QED BY <1>2, <1>3, <2>1 DEF ControlTypeOK
<1>6. Phases'
  BY <1>1, <1>3, Zenon DEF Phases
<1>7. BluechipBacked' /\ TokenBacked'
  BY <1>1 DEF BluechipBacked, TokenBacked, Excess, Locked, Escrow
<1> QED
  BY <1>2, <1>4, <1>5, <1>6, <1>7

\* A block: only ages and waits move.
LEMMA NextBlockPreserves ==
  ASSUME IInv, NEW dt \in TimeSteps, NextBlock(dt)
  PROVE  IInv'
<1> USE DEF commitVars, notifyVars, tokenVars, IInv, TypeOK
<1>1. /\ UNCHANGED <<commitVars, reserve0, reserve1, feeReserve0, feeReserve1, failed,
                     minted, notifyVars, paused, drained, escrow, tokenVars, trades>>
      /\ dt \in Nat
  BY WindowsAssumption DEF NextBlock
<1>2. /\ excess' \in {None} \cup ExcessRecord
      /\ excess = None <=> excess' = None
      /\ excess # None => excess'.bluechip = excess.bluechip /\ excess'.token = excess.token
  BY <1>1, NoneAssumption DEF NextBlock, MoneyTypeOK, ExcessRecord, Minus
<1>3. /\ dist' \in {None} \cup DistRecord
      /\ dist = None <=> dist' = None
      /\ dist' # None => dist'.cursor \in Users \cup {0} /\ dist'.stalled <= StallCap
  BY <1>1, NoneAssumption, StallCapType
     DEF NextBlock, DistributionTypeOK, DistRecord, Least
<1>4. /\ pendingEW' \in {None} \cup 0 .. EmergencyDelay
      /\ pendingEW = None => pendingEW' = None
  BY <1>1, WindowsAssumption DEF NextBlock, ControlTypeOK, Minus
<1>5. /\ lastCommit' \in [Users -> 0 .. CommitInterval]
      /\ lastContinue' \in [Keepers -> 0 .. KeeperInterval]
      /\ cooldown' \in 0 .. CooldownBlocks + 1
      /\ sinceCrossing' \in 0 .. CooldownBlocks + 1
  BY <1>1, WindowsAssumption
     DEF NextBlock, ControlTypeOK, DistributionTypeOK, Least, Minus
<1>6. MoneyTypeOK'
  BY <1>1, <1>2 DEF MoneyTypeOK
<1>7. ControlTypeOK'
  BY <1>1, <1>4, <1>5 DEF ControlTypeOK
<1>8. DistributionTypeOK'
  BY <1>1, <1>3, <1>5 DEF DistributionTypeOK
<1>9. Phases'
  BY <1>1, <1>2, <1>3, <1>4 DEF Phases
<1>10. BluechipBacked' /\ TokenBacked' /\ NotifyAccounted'
  BY <1>1, <1>2 DEF BluechipBacked, TokenBacked, NotifyAccounted, Excess, Locked, Escrow
<1> QED
  BY <1>6, <1>7, <1>8, <1>9, <1>10

\* The drain: the reserves and fees become the escrow, and the excess, which
\* the balances hold, leaves.
LEMMA EmergencyDrainPreserves ==
  ASSUME IInv, EmergencyDrain
  PROVE  IInv'
<1> USE DEF commitVars, notifyVars, clockVars, IInv, TypeOK
<1>1. /\ UNCHANGED <<commitVars, failed, lastContinue, minted, notifyVars, paused,
                     supply, clockVars, trades>>
      /\ thresholdHit /\ ~drained /\ escrow = None
      /\ reserve0' = 0 /\ reserve1' = 0 /\ feeReserve0' = 0 /\ feeReserve1' = 0
      /\ excess' = None /\ pendingEW' = None /\ drained' = TRUE
  BY DEF EmergencyDrain, NotDrained, Withdrawable, Phases
<1>2. /\ escrow' \in EscrowRecord /\ escrow' # None
      /\ escrow'.reserve0 = reserve0 /\ escrow'.reserve1 = reserve1
      /\ escrow'.fee0 = feeReserve0 /\ escrow'.fee1 = feeReserve1
  BY NoneAssumption DEF EmergencyDrain, MoneyTypeOK, EscrowRecord
<1>3. Excess.bluechip \in Nat /\ Excess.token \in Nat
  BY DEF Excess, Locked, MoneyTypeOK, ExcessRecord
<1>4. /\ bank0 = reserve0 + feeReserve0 + Excess.bluechip
      /\ bank1 = reserve1 + feeReserve1 + Excess.token
  BY <1>1, <1>3 DEF BluechipBacked, TokenBacked, Escrow, MoneyTypeOK
<1>5. /\ bank0' = bank0 - Excess.bluechip
      /\ bank1' = bank1 - Excess.token
  BY DEF EmergencyDrain, Excess, Locked
<1>6. /\ bank0' = reserve0 + feeReserve0 /\ bank1' = reserve1 + feeReserve1
  BY <1>3, <1>4, <1>5 DEF MoneyTypeOK
<1>7. MoneyTypeOK'
  BY <1>1, <1>2, <1>6 DEF MoneyTypeOK
<1>8. ControlTypeOK'
  BY <1>1 DEF ControlTypeOK
<1>9. DistributionTypeOK'
  <2>1. /\ dist' \in {None} \cup DistRecord
        /\ dist' # None => dist'.cursor \in Users \cup {0} /\ dist'.stalled <= StallCap
    BY DEF EmergencyDrain, DistributionTypeOK, DistRecord
  <2> QED BY <1>1, <2>1 DEF DistributionTypeOK
<1>10. Phases'
  BY <1>1, <1>2 DEF Phases
<1>11. BluechipBacked' /\ TokenBacked'
  BY <1>1, <1>2, <1>6 DEF BluechipBacked, TokenBacked, Excess, Locked, Escrow, MoneyTypeOK
<1>12. NotifyAccounted'
  BY <1>1, Zenon DEF NotifyAccounted
<1> QED
  BY <1>7, <1>8, <1>9, <1>10, <1>11, <1>12

\* The creator takes the excess the balances hold for it.
LEMMA ClaimCreatorExcessPreserves ==
  ASSUME IInv, ClaimCreatorExcess
  PROVE  IInv'
<1> USE DEF commitVars, distVars, notifyVars, adminVars, clockVars, IInv, TypeOK
<1>1. /\ UNCHANGED <<commitVars, reserve0, reserve1, feeReserve0, feeReserve1,
                     distVars, notifyVars, adminVars, supply, clockVars, trades>>
      /\ ~drained /\ excess # None /\ excess' = None
      /\ bank0' = bank0 - excess.bluechip
      /\ bank1' = bank1 - excess.token
  BY DEF ClaimCreatorExcess, NotDrained
<1>2. thresholdHit /\ escrow = None
  BY <1>1 DEF Phases
<1>3. excess.bluechip \in Nat /\ excess.token \in Nat
  BY <1>1 DEF MoneyTypeOK, ExcessRecord
<1>4. bank0' = reserve0 + feeReserve0 /\ bank1' = reserve1 + feeReserve1
  BY <1>1, <1>2, <1>3 DEF BluechipBacked, TokenBacked, Excess, Locked, Escrow, MoneyTypeOK
<1>5. MoneyTypeOK'
  BY <1>1, <1>4 DEF MoneyTypeOK
<1>6. ControlTypeOK' /\ DistributionTypeOK'
  BY <1>1 DEF ControlTypeOK, DistributionTypeOK
<1>7. Phases'
  BY <1>1 DEF Phases
<1>8. BluechipBacked' /\ TokenBacked'
  BY <1>1, <1>2, <1>4 DEF BluechipBacked, TokenBacked, Excess, Locked, Escrow, MoneyTypeOK
<1>9. NotifyAccounted'
  BY <1>1, Zenon DEF NotifyAccounted
<1> QED
  BY <1>5, <1>6, <1>7, <1>8, <1>9

\* The distribution's own steps move only its records, the ledger's rows and
\* what is minted to others.
LEMMA DistributionFrame ==
  ASSUME IInv, DistributionTypeOK', supply' \in Nat, dist # None \/ dist' = dist,
         UNCHANGED <<usdRaised, nativeRaised, thresholdHit, ammVars, notifyVars,
                     adminVars, bank0, bank1, clockVars, trades>>
  PROVE  IInv'
<1> USE DEF ammVars, notifyVars, adminVars, clockVars, IInv, TypeOK
<1>1. MoneyTypeOK' /\ ControlTypeOK'
  BY DEF MoneyTypeOK, ControlTypeOK
<1>2. Phases'
  BY DEF Phases
<1>3. BluechipBacked' /\ TokenBacked' /\ NotifyAccounted'
  BY DEF BluechipBacked, TokenBacked, NotifyAccounted, Excess, Locked, Escrow
<1> QED
  BY <1>1, <1>2, <1>3

LEMMA RestartPreserves ==
  ASSUME IInv, NEW window, Restart(window)
  PROVE  IInv'
<1> USE DEF commitVars, tokenVars
<1>1. Cardinality(Rows(ledger)) \in Nat
  BY RowsFinite, FS_CardinalityType
<1>2. /\ dist' \in {None} \cup DistRecord
      /\ dist' # None => dist'.cursor \in Users \cup {0} /\ dist'.stalled <= StallCap
  <2>1. CASE Rows(ledger) = {}
    BY <2>1 DEF Restart, Restarted
  <2>2. CASE Rows(ledger) # {}
    <3>1. dist \in DistRecord /\ dist' \in DistRecord /\ dist'.cursor = 0 /\ dist'.stalled = 0
      BY <1>1, <2>2
         DEF Restart, Restarted, IInv, TypeOK, DistributionTypeOK, DistRecord
    <3> QED BY <3>1, StallCapType
  <2> QED BY <2>1, <2>2
<1>3. DistributionTypeOK'
  BY <1>2 DEF Restart, IInv, TypeOK, DistributionTypeOK
<1>4. supply' \in Nat
  BY DEF Restart, IInv, TypeOK, MoneyTypeOK
<1> QED
  BY <1>3, <1>4, DistributionFrame DEF Restart

LEMMA ClaimFailedPreserves ==
  ASSUME IInv, NEW p \in Parties, ClaimFailedDistribution(p)
  PROVE  IInv'
<1> USE DEF commitVars
<1>1. failed' \in [Parties -> Nat] /\ minted' \in [Parties -> Nat] /\ supply' \in Nat
  BY DEF ClaimFailedDistribution, IInv, TypeOK, MoneyTypeOK, DistributionTypeOK
<1>2. DistributionTypeOK'
  BY <1>1 DEF ClaimFailedDistribution, IInv, TypeOK, DistributionTypeOK
<1> QED
  BY <1>1, <1>2, DistributionFrame DEF ClaimFailedDistribution

\* A batch: what is granted are amounts, and the cursor stays a user's address.
LEMMA ContinueDistributionPreserves ==
  ASSUME IInv, NEW k \in Keepers, ContinueDistribution(k)
  PROVE  IInv'
<1> DEFINE reward   == [p \in Parties |-> IF p \in Batch THEN Reward(ledger[p]) ELSE 0]
           rest     == Settled(Batch)
           sent     == dist.distributed + Total(reward, Batch)
           more     == \E u \in Rows(rest) : u > LastProcessed(Batch)
           residual == Residual(sent, more)
<1>1. dist \in DistRecord /\ dist.cursor \in Users \cup {0}
  BY DEF ContinueDistribution, IInv, TypeOK, DistributionTypeOK
<1>2. ledger \in [Users -> Nat] /\ failed \in [Parties -> Nat] /\ minted \in [Parties -> Nat]
      /\ supply \in Nat
  BY DEF IInv, TypeOK, DistributionTypeOK, MoneyTypeOK
<1>3. /\ Batch \subseteq Users /\ IsFiniteSet(Batch)
      /\ LastProcessed(Batch) \in Users \cup {0}
  BY <1>1, BatchBounds
<1>4. reward \in [Parties -> Nat]
  <2>1. \A p \in Batch : Reward(ledger[p]) \in Nat
    BY <1>2, <1>3, ProductNat, DivNat, SizesAssumption DEF Reward
  <2> QED BY <2>1
<1>5. sent \in Nat
  <2>1. \A p \in Batch : reward[p] \in Nat
    BY <1>3, <1>4 DEF Parties
  <2>2. Total(reward, Batch) \in Nat
    <3> HIDE DEF reward
    <3> QED BY <1>3, <2>1, TotalType
  <2>3. dist.distributed \in Nat
    BY <1>1 DEF DistRecord
  <2> QED BY <2>2, <2>3
<1>6. residual \in Nat
  <2> HIDE DEF sent, more
  <2> QED BY <1>5, SizesAssumption DEF Residual
<1>7. rest \in [Users -> Nat]
  BY <1>2 DEF Settled
<1>8. failed' \in [Parties -> Nat] /\ minted' \in [Parties -> Nat] /\ supply' \in Nat
  <2>1. PICK bounced \in SUBSET {p \in Batch : reward[p] > 0},
             residualBounced \in IF residual > 0 THEN BOOLEAN ELSE {FALSE} :
           LET ok(p)   == (IF p \in bounced THEN 0 ELSE reward[p])
                        + (IF p = Creator /\ ~residualBounced THEN residual ELSE 0)
               lost(p) == (IF p \in bounced THEN reward[p] ELSE 0)
                        + (IF p = Creator /\ residualBounced THEN residual ELSE 0)
           IN  /\ minted' = [p \in Parties |-> minted[p] + ok(p)]
               /\ failed' = [p \in Parties |-> failed[p] + lost(p)]
               /\ supply' = supply + Total([p \in Parties |-> ok(p)], Parties)
    BY DEF ContinueDistribution
  <2> HIDE DEF reward, residual
  <2> DEFINE ok(p)   == (IF p \in bounced THEN 0 ELSE reward[p])
                        + (IF p = Creator /\ ~residualBounced THEN residual ELSE 0)
             lost(p) == (IF p \in bounced THEN reward[p] ELSE 0)
                        + (IF p = Creator /\ residualBounced THEN residual ELSE 0)
             oks     == [p \in Parties |-> ok(p)]
  <2>2. \A p \in Parties : ok(p) \in Nat /\ lost(p) \in Nat
    BY <1>4, <1>6
  <2>3. /\ minted' = [p \in Parties |-> minted[p] + ok(p)]
        /\ failed' = [p \in Parties |-> failed[p] + lost(p)]
        /\ supply' = supply + Total(oks, Parties)
    BY <2>1
  <2> HIDE DEF ok, lost
  <2>4. Total(oks, Parties) \in Nat
    <3>1. \A p \in Parties : oks[p] \in Nat
      BY <2>2
    <3> HIDE DEF oks
    <3> QED BY <3>1, PartiesFinite, TotalType
  <2> HIDE DEF oks
  <2> QED BY <1>2, <2>2, <2>3, <2>4
<1>9. /\ dist' \in {None} \cup DistRecord
      /\ dist' # None => dist'.cursor \in Users \cup {0} /\ dist'.stalled <= StallCap
  <2> DEFINE next == [dist EXCEPT !.active = TRUE,
                                  !.cursor = LastProcessed(Batch),
                                  !.remaining = Minus(@, Cardinality(Batch)),
                                  !.stalled = 0,
                                  !.distributed = sent]
  <2>1. dist' = IF more THEN next ELSE None
    BY DEF ContinueDistribution
  <2>2. Minus(dist.remaining, Cardinality(Batch)) \in Nat
    BY <1>1, <1>3, FS_CardinalityType DEF DistRecord, Minus
  <2>3. LastProcessed(Batch) \in Nat
    <3>1. \A u \in Users \cup {0} : u \in Nat
      BY UsersAssumption
    <3> QED BY <1>3, <3>1, Zenon
  <2> HIDE DEF sent, more
  <2>4. next \in DistRecord /\ next.cursor = LastProcessed(Batch) /\ next.stalled = 0
    BY <1>1, <1>5, <2>2, <2>3 DEF DistRecord
  <2> HIDE DEF next
  <2> QED BY <1>3, <2>1, <2>4, StallCapType
<1>10. lastContinue' \in [Keepers -> 0 .. KeeperInterval]
  BY WindowsAssumption DEF ContinueDistribution, IInv, TypeOK, DistributionTypeOK
<1>11. ledger' = rest /\ credited' = credited
  BY DEF ContinueDistribution
<1>12. DistributionTypeOK'
  <2> HIDE DEF rest
  <2> QED BY <1>7, <1>8, <1>9, <1>10, <1>11 DEF IInv, TypeOK, DistributionTypeOK
<1>13. /\ UNCHANGED <<usdRaised, nativeRaised, thresholdHit, ammVars, notifyVars,
                      adminVars, bank0, bank1, clockVars, trades>>
       /\ dist # None
  BY DEF ContinueDistribution
<1> QED
  BY <1>8, <1>12, <1>13, DistributionFrame

\* A trade: what leaves one reserve goes to the trader and the fees.
LEMMA TradePreserves ==
  ASSUME IInv, NEW side \in {0, 1}, NEW amount \in Nat \ {0}, Trade(side, amount),
         lastCommit' \in [Users -> 0 .. CommitInterval]
  PROVE  IInv'
<1> USE DEF commitVars, distVars, notifyVars, adminVars, IInv, TypeOK
<1> DEFINE deal == IF side = 0 THEN ComputeSwap(reserve0, reserve1, amount)
                               ELSE ComputeSwap(reserve1, reserve0, amount)
           ret  == deal.return
           com  == deal.commission
           x0   == Excess.bluechip
           x1   == Excess.token
<1>1. /\ UNCHANGED <<commitVars, distVars, notifyVars, adminVars, supply, excess,
                     cooldown, sinceCrossing>>
      /\ thresholdHit
      /\ trades' \in 0 .. MaxTrades
  BY SizesAssumption DEF Trade, ControlTypeOK
<1>2. /\ reserve0 \in Nat /\ reserve1 \in Nat /\ feeReserve0 \in Nat
      /\ feeReserve1 \in Nat /\ bank0 \in Nat /\ bank1 \in Nat
      /\ reserve0 >= MinLiquidity
  BY DEF MoneyTypeOK, Trade, ReservesHealthy
<1>3. /\ ret \in Nat /\ com \in Nat
      /\ side = 0 => ret + com <= reserve1
      /\ side = 1 => ret + com <= reserve0
  BY <1>2, SwapBounds
<1>4. ~drained
  BY <1>2, SizesAssumption DEF Phases
<1>5. escrow = None
  BY <1>4 DEF Phases
<1>6. x0 \in Nat /\ x1 \in Nat
  BY DEF Excess, Locked, MoneyTypeOK, ExcessRecord
<1>7. /\ bank0 = reserve0 + feeReserve0 + x0
      /\ bank1 = reserve1 + feeReserve1 + x1
  BY <1>1, <1>2, <1>5, <1>6 DEF BluechipBacked, TokenBacked, Escrow
<1>8. /\ reserve0' \in Nat /\ reserve1' \in Nat /\ feeReserve0' \in Nat
      /\ feeReserve1' \in Nat /\ bank0' \in Nat /\ bank1' \in Nat
      /\ bank0' = reserve0' + feeReserve0' + x0
      /\ bank1' = reserve1' + feeReserve1' + x1
  <2>1. CASE side = 0
    <3>1. /\ reserve0' = reserve0 + amount /\ reserve1' = reserve1 - (ret + com)
          /\ feeReserve0' = feeReserve0 /\ feeReserve1' = feeReserve1 + com
          /\ bank0' = bank0 + amount /\ bank1' = bank1 - ret
      BY <2>1 DEF Trade
    <3>2. ret + com <= reserve1
      BY <1>3, <2>1
    <3> HIDE DEF deal, ret, com, x0, x1, IInv, TypeOK
    <3> QED BY <1>2, <1>3, <1>6, <1>7, <3>1, <3>2
  <2>2. CASE side = 1
    <3>1. /\ reserve1' = reserve1 + amount /\ reserve0' = reserve0 - (ret + com)
          /\ feeReserve1' = feeReserve1 /\ feeReserve0' = feeReserve0 + com
          /\ bank1' = bank1 + amount /\ bank0' = bank0 - ret
      BY <2>2 DEF Trade
    <3>2. ret + com <= reserve0
      BY <1>3, <2>2
    <3> HIDE DEF deal, ret, com, x0, x1, IInv, TypeOK
    <3> QED BY <1>2, <1>3, <1>6, <1>7, <3>1, <3>2
  <2> QED BY <2>1, <2>2
<1>9. MoneyTypeOK'
  BY <1>1, <1>8 DEF MoneyTypeOK
<1>10. ControlTypeOK' /\ DistributionTypeOK'
  BY <1>1 DEF ControlTypeOK, DistributionTypeOK
<1>11. Phases'
  BY <1>1, <1>4, <1>5 DEF Phases
<1>12. BluechipBacked' /\ TokenBacked'
  BY <1>1, <1>5, <1>8 DEF BluechipBacked, TokenBacked, Excess, Locked, Escrow
<1>13. NotifyAccounted'
  BY <1>1, Zenon DEF NotifyAccounted
<1> QED
  BY <1>9, <1>10, <1>11, <1>12, <1>13

\* The age of the sender's last commit starts again from 0.
LEMMA RateLimitType ==
  ASSUME TypeOK, NEW u \in Users, PassRateLimit(u)
  PROVE  lastCommit' \in [Users -> 0 .. CommitInterval]
  BY WindowsAssumption DEF PassRateLimit, TypeOK, ControlTypeOK

LEMMA SwapPreserves ==
  ASSUME IInv, NEW u \in Users, NEW side \in {0, 1}, NEW amount \in Amounts,
         Swap(u, side, amount)
  PROVE  IInv'
  BY RateLimitType, TradePreserves, AmountsAssumption DEF Swap, IInv

LEMMA CommitTradingPreserves ==
  ASSUME IInv, NEW u \in Users, NEW amount \in Amounts, NEW rate \in Rates,
         CommitTrading(u, amount, rate)
  PROVE  IInv'
<1>1. amount - CommitFees(amount) \in Nat \ {0}
  BY ConversionTypes, AmountsAssumption DEF CommitTrading, CommitAdmitted
<1>2. lastCommit' \in [Users -> 0 .. CommitInterval]
  BY RateLimitType DEF CommitTrading, CommitAdmitted, IInv
<1> QED
  BY <1>1, <1>2, TradePreserves DEF CommitTrading

\* A commit of the funding phase adds what it brings in, net of fees.
LEMMA CommitFundingPreserves ==
  ASSUME IInv, NEW u \in Users, NEW amount \in Amounts, NEW rate \in Rates,
         CommitFunding(u, amount, rate)
  PROVE  IInv'
<1> DEFINE usd == UsdValue(amount, rate)
           net == amount - CommitFees(amount)
<1> USE DEF ammVars, distVars, notifyVars, adminVars
<1>1. usd \in Nat /\ net \in Nat
  BY ConversionTypes, AmountsAssumption DEF CommitFunding, CommitAdmitted
<1>2. lastCommit' \in [Users -> 0 .. CommitInterval]
  BY RateLimitType DEF CommitFunding, CommitAdmitted, IInv
<1>3. /\ ~thresholdHit
      /\ ledger' = [ledger EXCEPT ![u] = @ + usd]
      /\ credited' = [credited EXCEPT ![u] = @ + usd]
      /\ usdRaised' = usdRaised + usd
      /\ nativeRaised' = nativeRaised + net
      /\ bank0' = bank0 + net
      /\ UNCHANGED <<thresholdHit, ammVars, distVars, notifyVars, adminVars,
                     bank1, supply, cooldown, sinceCrossing, trades>>
  BY DEF CommitFunding
<1> HIDE DEF usd, net
<1> USE DEF IInv, TypeOK
<1>4. MoneyTypeOK'
  BY <1>1, <1>3 DEF MoneyTypeOK
<1>5. ControlTypeOK'
  BY <1>2, <1>3 DEF ControlTypeOK
<1>6. DistributionTypeOK'
  BY <1>1, <1>3 DEF DistributionTypeOK
<1>7. Phases'
  BY <1>3 DEF Phases
<1>8. BluechipBacked' /\ TokenBacked' /\ NotifyAccounted'
  BY <1>1, <1>3 DEF BluechipBacked, TokenBacked, NotifyAccounted, Excess, Locked, Escrow
<1> QED
  BY <1>4, <1>5, <1>6, <1>7, <1>8

\* What both crossings share: the phase changes at once in all of its parts.
LEMMA CrossPreserves ==
  ASSUME IInv, NEW u \in Users, NEW usd \in Nat, NEW seed \in Nat, Cross(u, usd, seed),
         lastCommit' \in [Users -> 0 .. CommitInterval], usdRaised' \in Nat,
         reserve0' \in Nat, reserve1' \in Nat, feeReserve1' \in Nat,
         bank0' \in Nat, bank1' \in Nat,
         bank0' = reserve0' + Locked(Seeded(seed).excess).bluechip,
         bank1' = reserve1' + feeReserve1' + Locked(Seeded(seed).excess).token
  PROVE  IInv'
<1> DEFINE rows == [ledger EXCEPT ![u] = @ + usd]
<1> USE DEF adminVars, IInv, TypeOK
<1>1. /\ ~thresholdHit /\ thresholdHit' = TRUE
      /\ ledger' = rows /\ credited' = [credited EXCEPT ![u] = @ + usd]
      /\ nativeRaised' = seed
      /\ supply' = supply + CreatorReward + BluechipReward + PoolSeed
      /\ cooldown' = CooldownBlocks + 1 /\ sinceCrossing' = 0
      /\ UNCHANGED <<failed, lastContinue, minted, adminVars, feeReserve0, trades>>
  BY DEF Cross, CooldownSpan
<1>2. excess = None /\ feeReserve0 = 0 /\ dist = None /\ ~drained /\ escrow = None
  BY <1>1 DEF Phases
<1>3. excess' = Seeded(seed).excess
  BY <1>2 DEF Cross
<1>4. MoneyTypeOK'
  <2>1. excess' \in {None} \cup ExcessRecord
    BY <1>3, SeededBounds
  <2>2. supply' \in Nat
    BY <1>1, SizesAssumption DEF MoneyTypeOK
  <2> QED BY <1>1, <1>2, <2>1, <2>2 DEF MoneyTypeOK
<1>5. /\ pendingNotify' \in BOOLEAN /\ factoryMinted' \in BOOLEAN /\ NotifyAccounted'
  <2>1. factoryMinted = FALSE /\ pendingNotify = FALSE
    BY <1>1, Zenon DEF NotifyAccounted, ControlTypeOK
  <2>2. InitialNotify
    BY DEF Cross
  <2> QED BY <1>1, <2>1, <2>2, Zenon DEF InitialNotify, NotifyAccounted
<1>6. ControlTypeOK'
  <2>1. /\ thresholdHit' \in BOOLEAN /\ paused' \in BOOLEAN /\ drained' \in BOOLEAN
        /\ UNCHANGED <<pendingEW, trades>>
    BY <1>1, Zenon DEF ControlTypeOK
  <2> QED BY <1>1, <1>5, <2>1, WindowsAssumption DEF ControlTypeOK
<1>7. DistributionTypeOK'
  <2>1. rows \in [Users -> Nat] /\ credited' \in [Users -> Nat]
    BY <1>1 DEF DistributionTypeOK
  <2>2. Cardinality(Rows(rows)) \in Nat
    BY RowsFinite, FS_CardinalityType
  <2> DEFINE opened == [active |-> TRUE, cursor |-> 0, remaining |-> Cardinality(Rows(rows)),
                        stalled |-> 0, distributed |-> 0]
  <2>3. opened \in DistRecord /\ opened.cursor = 0 /\ opened.stalled = 0
    BY <2>2 DEF DistRecord
  <2>4. dist' = None \/ dist' = opened
    BY <1>2 DEF Cross
  <2>5. /\ dist' \in {None} \cup DistRecord
        /\ dist' # None => dist'.cursor \in Users \cup {0} /\ dist'.stalled <= StallCap
    <3> HIDE DEF opened
    <3> QED BY <2>3, <2>4, StallCapType
  <2> HIDE DEF rows
  <2> QED BY <1>1, <2>1, <2>5 DEF DistributionTypeOK
<1>8. Phases'
  BY <1>1, <1>2 DEF Phases
<1>9. BluechipBacked' /\ TokenBacked'
  <2>1. escrow' = None /\ feeReserve0' = 0 /\ Excess' = Locked(Seeded(seed).excess)
    BY <1>1, <1>2, <1>3 DEF Excess
  <2>2. /\ Locked(Seeded(seed).excess).bluechip \in Nat
        /\ Locked(Seeded(seed).excess).token \in Nat
    BY SeededBounds
  <2>3. Escrow' = [reserve0 |-> 0, reserve1 |-> 0, fee0 |-> 0, fee1 |-> 0]
    BY <2>1 DEF Escrow
  <2> QED BY <1>1, <2>1, <2>2, <2>3 DEF BluechipBacked, TokenBacked
<1> QED
  BY <1>4, <1>5, <1>6, <1>7, <1>8, <1>9

\* The state a crossing starts from holds the bluechip raised and nothing else.
LEMMA FundingBooks ==
  ASSUME IInv, ~thresholdHit
  PROVE  /\ bank0 = nativeRaised /\ bank1 = 0
         /\ feeReserve1 = 0 /\ nativeRaised \in Nat /\ usdRaised \in Nat
  BY DEF IInv, TypeOK, MoneyTypeOK, Phases, BluechipBacked, TokenBacked, Excess, Locked, Escrow

LEMMA CommitHitExactPreserves ==
  ASSUME IInv, NEW u \in Users, NEW amount \in Amounts, NEW rate \in Rates,
         CommitHitExact(u, amount, rate)
  PROVE  IInv'
<1> DEFINE usd  == UsdValue(amount, rate)
           net  == amount - CommitFees(amount)
           seed == nativeRaised + net
           x0   == Locked(Seeded(seed).excess).bluechip
           x1   == Locked(Seeded(seed).excess).token
<1>1. usd \in Nat /\ net \in Nat
  BY ConversionTypes, AmountsAssumption DEF CommitHitExact, CommitAdmitted
<1>2. ~thresholdHit
  BY DEF CommitHitExact, Cross
<1>3. seed \in Nat
  BY <1>1, <1>2, FundingBooks
<1>4. lastCommit' \in [Users -> 0 .. CommitInterval]
  BY RateLimitType DEF CommitHitExact, CommitAdmitted, IInv
<1>5. /\ Cross(u, usd, seed)
      /\ usdRaised' = Least(usdRaised + usd, Target)
      /\ reserve0' = Seeded(seed).reserve0 /\ reserve1' = Seeded(seed).reserve1
      /\ bank0' = bank0 + net /\ bank1' = bank1 + PoolSeed
      /\ feeReserve1' = feeReserve1
  BY DEF CommitHitExact
<1>6. usdRaised' \in Nat
  <2> HIDE DEF usd, net, seed
  <2> QED BY <1>1, <1>2, <1>5, FundingBooks, SizesAssumption DEF Least
<1>7. /\ Seeded(seed).reserve0 \in Nat /\ Seeded(seed).reserve1 \in Nat
      /\ seed = Seeded(seed).reserve0 + x0
      /\ PoolSeed = Seeded(seed).reserve1 + x1
      /\ x0 \in Nat /\ x1 \in Nat
  <2> HIDE DEF usd, net, seed
  <2> QED BY <1>3, SeededBounds, SizesAssumption
<1>8. bank0' = seed /\ bank1' = PoolSeed /\ feeReserve1' = 0
  BY <1>2, <1>5, FundingBooks, SizesAssumption
<1>9. /\ reserve0' \in Nat /\ reserve1' \in Nat /\ bank0' \in Nat /\ bank1' \in Nat
      /\ feeReserve1' \in Nat
      /\ bank0' = reserve0' + x0 /\ bank1' = reserve1' + feeReserve1' + x1
  <2> HIDE DEF usd, net, x0, x1
  <2> QED BY <1>3, <1>5, <1>7, <1>8, SizesAssumption
<1> HIDE DEF usd, net, seed
<1> QED
  BY <1>1, <1>3, <1>4, <1>5, <1>6, <1>9, CrossPreserves

\* The crossing with an overshoot: the three parts of the commit, seed, swap
\* and refund, add up to what came in.
LEMMA CommitCrossingPreserves ==
  ASSUME IInv, NEW u \in Users, NEW amount \in Amounts, NEW rate \in Rates,
         CommitCrossing(u, amount, rate)
  PROVE  IInv'
<1> DEFINE toHit   == Minus(Target, usdRaised)
           net     == amount - CommitFees(amount)
           portion == (net * BluechipFor(toHit, rate)) \div amount
           over    == net - portion
           seed    == nativeRaised + portion
           pool    == Seeded(seed)
           swapped == Least(over, CrossingCap(pool.reserve0))
           refund  == over - swapped
           trade   == IF swapped > 0 /\ pool.reserve0 > 0 /\ pool.reserve1 > 0
                      THEN ComputeSwap(pool.reserve0, pool.reserve1, swapped)
                      ELSE [return |-> 0, commission |-> 0]
           ret     == trade.return
           com     == trade.commission
           x0      == Locked(pool.excess).bluechip
           x1      == Locked(pool.excess).token
<1>1. /\ Cross(u, toHit, seed)
      /\ usdRaised' = Target
      /\ reserve0' = pool.reserve0 + swapped
      /\ reserve1' = pool.reserve1 - (ret + com)
      /\ feeReserve1' = feeReserve1 + com
      /\ bank0' = bank0 + net - refund
      /\ bank1' = bank1 + PoolSeed - ret
      /\ BluechipFor(toHit, rate) <= amount
  BY DEF CommitCrossing
<1>2. ~thresholdHit
  BY <1>1 DEF Cross
<1>3. lastCommit' \in [Users -> 0 .. CommitInterval]
  BY RateLimitType DEF CommitCrossing, CommitAdmitted, IInv
<1>4. toHit \in Nat
  BY <1>2, FundingBooks, SizesAssumption DEF Minus
<1>5. net \in Nat
  BY ConversionTypes, AmountsAssumption DEF CommitCrossing, CommitAdmitted
<1>6. portion \in 0 .. net
  <2>1. BluechipFor(toHit, rate) \in Nat /\ amount \in Nat \ {0}
    BY <1>4, ConversionTypes, AmountsAssumption
  <2> HIDE DEF net, toHit
  <2> QED BY <1>1, <1>5, <2>1, ShareAtMost
<1> HIDE DEF toHit, net, portion
<1>7. over \in Nat /\ seed \in Nat
  BY <1>2, <1>5, <1>6, FundingBooks
<1>8. /\ pool.reserve0 \in Nat /\ pool.reserve1 \in Nat
      /\ x0 \in Nat /\ x1 \in Nat
      /\ pool.reserve0 + x0 = seed /\ pool.reserve1 + x1 = PoolSeed
  <2> HIDE DEF seed
  <2> QED BY <1>7, SeededBounds
<1>9. CrossingCap(pool.reserve0) \in Nat
  <2> HIDE DEF pool
  <2> QED BY <1>8, CrossingCapType
<1>10. swapped \in Nat /\ swapped <= over /\ refund \in Nat /\ over = swapped + refund
  <2> HIDE DEF over, pool
  <2> QED BY <1>7, <1>9 DEF Least
<1>11. ret \in Nat /\ com \in Nat /\ ret + com <= pool.reserve1
  <2> HIDE DEF swapped, pool
  <2>1. CASE swapped > 0 /\ pool.reserve0 > 0 /\ pool.reserve1 > 0
    <3>1. trade = ComputeSwap(pool.reserve0, pool.reserve1, swapped)
      BY <2>1
    <3>2. swapped \in Nat \ {0}
      BY <1>10, <2>1
    <3> HIDE DEF trade
    <3> QED BY <1>8, <3>1, <3>2, SwapBounds
  <2>2. CASE ~(swapped > 0 /\ pool.reserve0 > 0 /\ pool.reserve1 > 0)
    <3>1. ret = 0 /\ com = 0
      BY <2>2
    <3> HIDE DEF trade
    <3> QED BY <1>8, <3>1
  <2> QED BY <2>1, <2>2
<1>12. bank0 = nativeRaised /\ bank1 = 0 /\ feeReserve1 = 0 /\ nativeRaised \in Nat
  BY <1>2, FundingBooks
<1>13. seed = nativeRaised + portion /\ net = portion + over
  BY <1>5, <1>6
<1> HIDE DEF over, seed, swapped, refund, ret, com, x0, x1
<1>14. /\ reserve0' \in Nat /\ reserve1' \in Nat /\ feeReserve1' \in Nat
       /\ bank0' \in Nat /\ bank1' \in Nat
       /\ bank0' = reserve0' + x0
       /\ bank1' = reserve1' + feeReserve1' + x1
  <2> HIDE DEF pool, trade
  <2>1. portion \in Nat
    BY <1>5, <1>6
  <2>2. bank0' = seed + swapped
    BY <1>1, <1>5, <1>7, <1>10, <1>12, <1>13, <2>1
  <2>3. bank1' = PoolSeed - ret /\ feeReserve1' = com
    BY <1>1, <1>11, <1>12, SizesAssumption
  <2> QED BY <1>1, <1>7, <1>8, <1>10, <1>11, <2>2, <2>3, SizesAssumption
<1>15. usdRaised' \in Nat
  BY <1>1, SizesAssumption
<1> QED
  BY <1>1, <1>3, <1>4, <1>7, <1>14, <1>15, CrossPreserves DEF x0, x1

-----------------------------------------------------------------------------
(* Theorems. *)

\* IInv is inductive: every step of a pool keeps its types, its phases, its
\* books and the account of its factory call.
THEOREM Inductive == IInv /\ [Next]_vars => IInv'
<1> SUFFICES ASSUME IInv, [Next]_vars
             PROVE  IInv'
  OBVIOUS
<1>1. ASSUME NEW u \in Users, NEW amount \in Amounts, NEW rate \in Rates,
             \/ CommitFunding(u, amount, rate)
             \/ CommitHitExact(u, amount, rate)
             \/ CommitCrossing(u, amount, rate)
             \/ CommitTrading(u, amount, rate)
      PROVE  IInv'
  BY <1>1, CommitFundingPreserves, CommitHitExactPreserves, CommitCrossingPreserves,
     CommitTradingPreserves
<1>2. ASSUME NEW u \in Users, NEW side \in {0, 1}, NEW amount \in Amounts,
             Swap(u, side, amount)
      PROVE  IInv'
  BY <1>2, SwapPreserves
<1>3. ASSUME NEW k \in Keepers, ContinueDistribution(k)
      PROVE  IInv'
  BY <1>3, ContinueDistributionPreserves
<1>4. ASSUME NEW p \in Parties, ClaimFailedDistribution(p)
      PROVE  IInv'
  BY <1>4, ClaimFailedPreserves
<1>5. CASE RecoverStuckDistribution \/ SelfRecoverDistribution
  BY <1>5, RestartPreserves DEF RecoverStuckDistribution, SelfRecoverDistribution
<1>6. CASE Pause \/ Unpause \/ EmergencyInitiate \/ CancelEmergencyWithdraw
             \/ RetryFactoryNotify
  BY <1>6, SwitchesPreserve
<1>7. CASE EmergencyDrain
  BY <1>7, EmergencyDrainPreserves
<1>8. CASE ClaimCreatorExcess
  BY <1>8, ClaimCreatorExcessPreserves
<1>9. ASSUME NEW dt \in TimeSteps, NextBlock(dt)
      PROVE  IInv'
  BY <1>9, NextBlockPreserves
<1>10. CASE UNCHANGED vars
  <2> USE <1>10 DEF vars, commitVars, ammVars, distVars, notifyVars, adminVars,
                    tokenVars, clockVars, IInv, TypeOK
  <2>1. MoneyTypeOK' /\ ControlTypeOK' /\ DistributionTypeOK'
    BY DEF MoneyTypeOK, ControlTypeOK, DistributionTypeOK
  <2>2. Phases' /\ NotifyAccounted'
    BY DEF Phases, NotifyAccounted
  <2>3. BluechipBacked' /\ TokenBacked'
    BY DEF BluechipBacked, TokenBacked, Excess, Locked, Escrow
  <2> QED BY <2>1, <2>2, <2>3
<1> QED
  BY <1>1, <1>2, <1>3, <1>4, <1>5, <1>6, <1>7, <1>8, <1>9, <1>10 DEF Next

THEOREM Invariant == Spec => []IInv
  BY InitInvariant, Inductive, PTL DEF Spec

\* No balance, reserve, wait or counter of a pool ever leaves its range.
THEOREM TypeCorrect == Spec => []TypeOK
  BY Invariant, PTL DEF IInv

\* The pool's bluechip balance is what its storage accounts for, to the unit,
\* whatever the amounts, rates, fees, caps and order of calls.
THEOREM BluechipIsBacked == Spec => []BluechipBacked
  BY Invariant, PTL DEF IInv

\* The same for the creator token.
THEOREM TokensAreBacked == Spec => []TokenBacked
  BY Invariant, PTL DEF IInv

\* The phases of a pool exclude each other; in particular no emergency empties
\* a pool that is still funding.
THEOREM PhasesHold == Spec => []Phases
  BY Invariant, PTL DEF IInv

\* A crossed pool has its protocol mint or the flag to retry it, never both.
THEOREM NotificationIsAccounted == Spec => []NotifyAccounted
  BY Invariant, PTL DEF IInv

-----------------------------------------------------------------------------
(* What a step may never do. *)

\* Trades raise the product of the reserves or keep it.
LEMMA TradeKeepsProduct ==
  ASSUME IInv, NEW side \in {0, 1}, NEW amount \in Nat \ {0}, Trade(side, amount)
  PROVE  reserve0' * reserve1' >= reserve0 * reserve1
<1>1. reserve0 \in Nat /\ reserve1 \in Nat
  BY DEF IInv, TypeOK, MoneyTypeOK
<1>2. CASE side = 0
  <2> DEFINE deal == ComputeSwap(reserve0, reserve1, amount)
  <2>1. /\ reserve0' = reserve0 + amount
        /\ reserve1' = reserve1 - (deal.return + deal.commission)
    BY <1>2 DEF Trade
  <2> QED BY <1>1, <2>1, SwapKeepsProduct
<1>3. CASE side = 1
  <2> DEFINE deal == ComputeSwap(reserve1, reserve0, amount)
  <2>1. /\ reserve1' = reserve1 + amount
        /\ reserve0' = reserve0 - (deal.return + deal.commission)
    BY <1>3 DEF Trade
  <2>2. reserve1' * reserve0' >= reserve1 * reserve0
    BY <1>1, <2>1, SwapKeepsProduct
  <2>3. deal.return \in Nat /\ deal.commission \in Nat
    BY <1>1, SwapBounds
  <2>4. reserve0' \in Int /\ reserve1' \in Int
    <3> HIDE DEF deal
    <3> QED BY <1>1, <2>1, <2>3
  <2>5. reserve1' * reserve0' = reserve0' * reserve1' /\ reserve1 * reserve0 = reserve0 * reserve1
    BY <1>1, <2>4, Distributes
  <2> QED BY <2>2, <2>5
<1> QED
  BY <1>2, <1>3

\* Which steps of a crossed pool move its reserves: trades and the drain.
LEMMA ReservesMoveBy ==
  ASSUME IInv, [Next]_vars, thresholdHit
  PROVE  \/ UNCHANGED <<reserve0, reserve1>>
         \/ EmergencyDrain
         \/ \E side \in {0, 1}, amount \in Nat \ {0} : Trade(side, amount)
<1> USE DEF ammVars
<1>1. ASSUME NEW u \in Users, NEW amount \in Amounts, NEW rate \in Rates,
             \/ CommitFunding(u, amount, rate)
             \/ CommitHitExact(u, amount, rate)
             \/ CommitCrossing(u, amount, rate)
             \/ CommitTrading(u, amount, rate)
      PROVE  \E n \in Nat \ {0} : Trade(0, n)
  <2>1. CommitTrading(u, amount, rate)
    BY <1>1 DEF CommitFunding, CommitHitExact, CommitCrossing, Cross
  <2>2. amount - CommitFees(amount) \in Nat \ {0}
    BY <2>1, ConversionTypes, AmountsAssumption DEF CommitTrading, CommitAdmitted
  <2> QED BY <2>1, <2>2 DEF CommitTrading
<1>2. ASSUME NEW u \in Users, NEW side \in {0, 1}, NEW amount \in Amounts,
             Swap(u, side, amount)
      PROVE  Trade(side, amount) /\ amount \in Nat \ {0}
  BY <1>2, AmountsAssumption DEF Swap
<1>3. ASSUME NEW k \in Keepers, ContinueDistribution(k)
      PROVE  UNCHANGED <<reserve0, reserve1>>
  BY <1>3 DEF ContinueDistribution
<1>4. ASSUME NEW p \in Parties, ClaimFailedDistribution(p)
      PROVE  UNCHANGED <<reserve0, reserve1>>
  BY <1>4 DEF ClaimFailedDistribution
<1>5. CASE \/ RecoverStuckDistribution \/ SelfRecoverDistribution \/ RetryFactoryNotify
           \/ Pause \/ Unpause \/ EmergencyInitiate \/ CancelEmergencyWithdraw
           \/ ClaimCreatorExcess
  BY <1>5 DEF RecoverStuckDistribution, SelfRecoverDistribution, Restart,
              RetryFactoryNotify, Pause, Unpause, EmergencyInitiate,
              CancelEmergencyWithdraw, ClaimCreatorExcess
<1>6. ASSUME NEW dt \in TimeSteps, NextBlock(dt)
      PROVE  UNCHANGED <<reserve0, reserve1>>
  BY <1>6 DEF NextBlock
<1>7. CASE UNCHANGED vars
  BY <1>7 DEF vars
<1> QED
  BY <1>1, <1>2, <1>3, <1>4, <1>5, <1>6, <1>7 DEF Next

\* No sequence of swaps and commits lowers the product of the reserves.
THEOREM ProductNeverFalls == Spec => KNeverFalls
<1>1. IInv /\ [Next]_vars =>
        [thresholdHit /\ ~drained' => reserve0' * reserve1' >= reserve0 * reserve1]_vars
  <2> SUFFICES ASSUME IInv, [Next]_vars, thresholdHit, ~drained'
               PROVE  reserve0' * reserve1' >= reserve0 * reserve1
    OBVIOUS
  <2>1. CASE UNCHANGED <<reserve0, reserve1>>
    <3>1. reserve0 * reserve1 \in Nat
      BY ProductNat DEF IInv, TypeOK, MoneyTypeOK
    <3> QED BY <2>1, <3>1
  <2>2. ~EmergencyDrain
    BY DEF EmergencyDrain
  <2> QED BY <2>1, <2>2, ReservesMoveBy, TradeKeepsProduct
<1> QED
  BY <1>1, Invariant, PTL DEF Spec, KNeverFalls

\* A drained pool has no reserves to trade against, which is what stops a swap:
\* it does not look at the flag.
LEMMA NoTradeOnceDrained ==
  ASSUME IInv, drained, NEW side, NEW amount
  PROVE  ~Trade(side, amount)
<1>1. reserve0 = 0
  BY DEF IInv, Phases
<1> QED
  BY <1>1, SizesAssumption DEF Trade, ReservesHealthy

\* A drain is final, whatever the order of pauses, unpauses, recoveries,
\* claims, batches and trades that follow.
THEOREM DrainIsFinal == Spec => DrainedIsFrozen
<1> DEFINE Frozen == /\ drained'
                     /\ UNCHANGED <<commitVars, ammVars, failed, minted, tokenVars, escrow>>
<1>1. IInv /\ [Next]_vars => [drained => Frozen]_vars
  <2> SUFFICES ASSUME IInv, Next, drained
               PROVE  Frozen
    OBVIOUS
  <2> USE DEF adminVars, distVars
  <2>1. ASSUME NEW u \in Users, NEW amount \in Amounts, NEW rate \in Rates,
               \/ CommitFunding(u, amount, rate)
               \/ CommitHitExact(u, amount, rate)
               \/ CommitCrossing(u, amount, rate)
               \/ CommitTrading(u, amount, rate)
        PROVE  FALSE
    BY <2>1 DEF CommitFunding, CommitHitExact, CommitCrossing, CommitTrading,
                CommitAdmitted, NotDrained
  <2>2. ASSUME NEW u \in Users, NEW side \in {0, 1}, NEW amount \in Amounts,
               Swap(u, side, amount)
        PROVE  FALSE
    BY <2>2, NoTradeOnceDrained DEF Swap
  <2>3. ASSUME NEW k \in Keepers, ContinueDistribution(k)
        PROVE  FALSE
    BY <2>3 DEF ContinueDistribution, NotDrained
  <2>4. ASSUME NEW p \in Parties, ClaimFailedDistribution(p)
        PROVE  FALSE
    BY <2>4 DEF ClaimFailedDistribution, NotDrained
  <2>5. CASE \/ RecoverStuckDistribution \/ SelfRecoverDistribution
             \/ EmergencyInitiate \/ EmergencyDrain \/ ClaimCreatorExcess
    BY <2>5 DEF RecoverStuckDistribution, SelfRecoverDistribution, Restart,
                EmergencyInitiate, EmergencyDrain, ClaimCreatorExcess, NotDrained
  <2>6. CASE Pause \/ Unpause \/ CancelEmergencyWithdraw \/ RetryFactoryNotify
    BY <2>6 DEF Pause, Unpause, CancelEmergencyWithdraw, RetryFactoryNotify
  <2>7. ASSUME NEW dt \in TimeSteps, NextBlock(dt)
        PROVE  Frozen
    <3>1. excess = None
      BY DEF IInv, Phases
    <3> QED BY <2>7, <3>1 DEF NextBlock, ammVars
  <2> HIDE DEF Frozen
  <2> QED BY <2>1, <2>2, <2>3, <2>4, <2>5, <2>6, <2>7 DEF Next
<1> QED
  BY <1>1, Invariant, PTL DEF Spec, DrainedIsFrozen
-----------------------------------------------------------------------------
(* The launch. *)

\* A swap of no more than the capped share of the bluechip reserve leaves the
\* token reserve at least what the cap would buy at the pool's price.
LEMMA CappedSwapLeaves ==
  ASSUME NEW offer \in Nat, NEW ask \in Nat, NEW amount \in Nat \ {0},
         amount <= CrossingCap(offer)
  PROVE  LET deal == ComputeSwap(offer, ask, amount)
         IN  (100 + ExcessCapPercent) * (ask - (deal.return + deal.commission)) >= 100 * ask
<1> DEFINE gross == (ask * amount) \div (offer + amount)
           fee   == (gross * LpFee) \div FeeUnit
           sum   == offer + amount
           p     == ExcessCapPercent
<1>1. p \in Nat /\ sum \in Nat \ {0}
  BY SizesAssumption
<1>2. gross \in 0 .. ask
  BY ShareAtMost, amount <= sum, sum \in Nat \ {0}
<1>3. fee \in 0 .. gross
  <2> HIDE DEF gross
  <2> QED BY <1>2, ShareAtMost, FeesAssumption
<1>4. ComputeSwap(offer, ask, amount).return = gross - fee
      /\ ComputeSwap(offer, ask, amount).commission = fee
  BY DEF ComputeSwap
<1>5. sum * gross <= ask * amount
  BY DivTimes, ProductNat, sum \in Nat \ {0}
<1> HIDE DEF gross, fee
<1>6. (100 + p) * amount <= p * sum
  <2>1. offer * p \in Nat /\ 100 * ((offer * p) \div 100) <= offer * p
    BY <1>1, ProductNat, DivTimes
  <2>2. 100 * amount <= offer * p
    BY <2>1 DEF CrossingCap
  <2>3. (100 + p) * amount = 100 * amount + p * amount /\ p * sum = offer * p + p * amount
    BY <1>1, Distributes
  <2>4. p * amount \in Nat
    BY <1>1, ProductNat
  <2> HIDE DEF p, sum
  <2> QED BY <2>1, <2>2, <2>3, <2>4
<1>7. sum * ((100 + p) * gross) <= sum * (p * ask)
  <2> DEFINE g == (100 + p) * gross
             n == (100 + p) * amount
             m == p * sum
  <2>1. (100 + p) * (sum * gross) <= (100 + p) * (ask * amount)
    BY <1>1, <1>2, <1>5, ProductNat, ProductMonotone
  <2>2. ask * n <= ask * m
    BY <1>1, <1>6, ProductNat, ProductMonotone
  <2>3. (100 + p) * (sum * gross) = sum * g
    BY <1>1, <1>2
  <2>4. (100 + p) * (ask * amount) = ask * n
    BY <1>1
  <2>5. ask * m = sum * (p * ask)
    BY <1>1
  <2>6. sum * g \in Nat /\ ask * n \in Nat /\ ask * m \in Nat
    BY <1>1, <1>2, ProductNat
  <2> QED
    <3> DEFINE x == (100 + p) * (sum * gross)
               y == (100 + p) * (ask * amount)
               z == ask * n
               w == ask * m
               v == sum * g
               r == sum * (p * ask)
    <3>1. x <= y /\ y = z /\ z <= w /\ w = r /\ x = v /\ v \in Nat /\ z \in Nat /\ w \in Nat
      BY <2>1, <2>2, <2>3, <2>4, <2>5, <2>6
    <3> HIDE DEF x, y, z, w, v, r
    <3>2. v <= r
      BY <3>1
    <3> QED BY <3>2 DEF v, r
<1>8. (100 + p) * gross <= p * ask
  <2> DEFINE a == (100 + p) * gross
             b == p * ask
  <2>1. a \in Nat /\ b \in Nat
    BY <1>1, <1>2, ProductNat
  <2>2. SUFFICES ASSUME b + 1 <= a PROVE FALSE
    BY <2>1
  <2>3. sum * (b + 1) <= sum * a
    BY <1>1, <2>1, <2>2, ProductMonotone
  <2>4. sum * (b + 1) = sum * b + sum
    <3> HIDE DEF a, b, sum
    <3> QED BY <1>1, <2>1, Distributes
  <2>5. sum * b \in Nat /\ sum * a \in Nat /\ sum * a <= sum * b
    BY <1>1, <1>7, <2>1, ProductNat
  <2> HIDE DEF a, b, sum
  <2> QED BY <1>1, <2>3, <2>4, <2>5
<1>9. (100 + p) * (ask - gross) = 100 * ask + p * ask - (100 + p) * gross
  BY <1>1, <1>2, Distributes
<1>10. (100 + p) * (ask - gross) >= 100 * ask
  <2> DEFINE a == (100 + p) * gross
             b == p * ask
             e == (100 + p) * (ask - gross)
  <2>1. a \in Nat /\ b \in Nat /\ a <= b /\ e = 100 * ask + b - a
    BY <1>1, <1>2, <1>8, <1>9, ProductNat
  <2> HIDE DEF a, b, e
  <2>2. e >= 100 * ask
    BY <2>1
  <2> QED BY <2>2 DEF e
<1>11. (gross - fee) + fee = gross
  BY <1>2, <1>3
<1> QED
  BY <1>4, <1>10, <1>11

\* No trade before the crossing; after it the cooldown and the blocks since the
\* crossing together cover the cooldown's length.
LaunchInv ==
  /\ ~thresholdHit => trades = 0
  /\ thresholdHit => cooldown + sinceCrossing >= CooldownBlocks + 1
  /\ FairLaunch

\* What either crossing leaves, given the token reserve it leaves.
LEMMA CrossLaunches ==
  ASSUME IInv, LaunchInv, NEW u, NEW usd, NEW seed, Cross(u, usd, seed),
         (100 + ExcessCapPercent) * reserve1' >= 100 * Seeded(seed).reserve1
  PROVE  LaunchInv'
<1>1. trades' = 0 /\ thresholdHit' /\ nativeRaised' = seed
  BY DEF Cross, LaunchInv
<1>2. cooldown' + sinceCrossing' >= CooldownBlocks + 1
  BY WindowsAssumption DEF Cross, CooldownSpan
<1> QED
  BY <1>1, <1>2 DEF LaunchInv, FairLaunch

LEMMA HitExactLaunches ==
  ASSUME IInv, LaunchInv, NEW u \in Users, NEW amount \in Amounts, NEW rate \in Rates,
         CommitHitExact(u, amount, rate)
  PROVE  LaunchInv'
<1> DEFINE net  == amount - CommitFees(amount)
           seed == nativeRaised + net
<1>1. Cross(u, UsdValue(amount, rate), seed) /\ reserve1' = Seeded(seed).reserve1
  BY DEF CommitHitExact
<1>2. net \in Nat
  BY ConversionTypes, AmountsAssumption DEF CommitHitExact, CommitAdmitted
<1>3. seed \in Nat
  BY <1>2 DEF IInv, TypeOK, MoneyTypeOK
<1>4. Seeded(seed).reserve1 \in Nat
  BY <1>3, SeededBounds
<1>5. (100 + ExcessCapPercent) * reserve1' >= 100 * Seeded(seed).reserve1
  <2> DEFINE r == Seeded(seed).reserve1
  <2> HIDE DEF seed
  <2>1. r \in Nat /\ reserve1' = r /\ ExcessCapPercent \in Nat
    BY <1>1, <1>4, SizesAssumption
  <2> HIDE DEF r
  <2>2. (100 + ExcessCapPercent) * r = 100 * r + ExcessCapPercent * r
    BY <2>1, Distributes
  <2>3. ExcessCapPercent * r \in Nat
    BY <2>1, ProductNat
  <2>4. (100 + ExcessCapPercent) * r >= 100 * r
    BY <2>1, <2>2, <2>3
  <2> QED BY <2>1, <2>4 DEF r
<1> QED
  BY <1>1, <1>5, CrossLaunches

LEMMA CrossingLaunches ==
  ASSUME IInv, LaunchInv, NEW u \in Users, NEW amount \in Amounts, NEW rate \in Rates,
         CommitCrossing(u, amount, rate)
  PROVE  LaunchInv'
<1> DEFINE toHit   == Minus(Target, usdRaised)
           net     == amount - CommitFees(amount)
           portion == (net * BluechipFor(toHit, rate)) \div amount
           over    == net - portion
           seed    == nativeRaised + portion
           pool    == Seeded(seed)
           swapped == Least(over, CrossingCap(pool.reserve0))
           trade   == IF swapped > 0 /\ pool.reserve0 > 0 /\ pool.reserve1 > 0
                      THEN ComputeSwap(pool.reserve0, pool.reserve1, swapped)
                      ELSE [return |-> 0, commission |-> 0]
           out     == trade.return + trade.commission
<1>1. /\ Cross(u, toHit, seed)
      /\ reserve1' = pool.reserve1 - out
      /\ BluechipFor(toHit, rate) <= amount
  BY DEF CommitCrossing
<1>2. ~thresholdHit
  BY <1>1 DEF Cross
<1>3. toHit \in Nat
  BY <1>2, FundingBooks, SizesAssumption DEF Minus
<1>4. net \in Nat
  BY ConversionTypes, AmountsAssumption DEF CommitCrossing, CommitAdmitted
<1>5. portion \in 0 .. net
  <2>1. BluechipFor(toHit, rate) \in Nat /\ amount \in Nat \ {0}
    BY <1>3, ConversionTypes, AmountsAssumption
  <2> HIDE DEF net, toHit
  <2> QED BY <1>1, <1>4, <2>1, ShareAtMost
<1> HIDE DEF toHit, net, portion
<1>6. over \in Nat /\ seed \in Nat
  BY <1>2, <1>4, <1>5, FundingBooks
<1>7. pool.reserve0 \in Nat /\ pool.reserve1 \in Nat
  <2> HIDE DEF seed
  <2> QED BY <1>6, SeededBounds
<1>8. CrossingCap(pool.reserve0) \in Nat
  <2> HIDE DEF pool
  <2> QED BY <1>7, CrossingCapType
<1>9. swapped \in Nat /\ swapped <= CrossingCap(pool.reserve0)
  <2> HIDE DEF over, pool
  <2> QED BY <1>6, <1>8 DEF Least
<1>10. (100 + ExcessCapPercent) * reserve1' >= 100 * pool.reserve1
  <2> DEFINE r == pool.reserve1
  <2> HIDE DEF swapped, pool
  <2>1. CASE swapped > 0 /\ pool.reserve0 > 0 /\ pool.reserve1 > 0
    <3>1. trade = ComputeSwap(pool.reserve0, pool.reserve1, swapped)
      BY <2>1
    <3>2. swapped \in Nat \ {0}
      BY <1>9, <2>1
    <3> HIDE DEF trade
    <3> QED BY <1>1, <1>7, <1>9, <3>1, <3>2, CappedSwapLeaves
  <2>2. CASE ~(swapped > 0 /\ pool.reserve0 > 0 /\ pool.reserve1 > 0)
    <3>1. out = 0
      BY <2>2
    <3> HIDE DEF trade, out
    <3>2. r \in Nat /\ reserve1' = r /\ ExcessCapPercent \in Nat
      BY <1>1, <1>7, <3>1, SizesAssumption
    <3> HIDE DEF r
    <3>3. (100 + ExcessCapPercent) * r = 100 * r + ExcessCapPercent * r
      BY <3>2, Distributes
    <3>4. ExcessCapPercent * r \in Nat
      BY <3>2, ProductNat
    <3>5. (100 + ExcessCapPercent) * r >= 100 * r
      BY <3>2, <3>3, <3>4
    <3> QED BY <3>2, <3>5 DEF r
  <2> QED BY <2>1, <2>2
<1> HIDE DEF seed, out
<1> QED
  BY <1>1, <1>10, CrossLaunches

\* A trade waits out the cooldown.
LEMMA TradeWaits ==
  ASSUME IInv, LaunchInv, NEW side, NEW amount, Trade(side, amount)
  PROVE  LaunchInv'
<1>1. /\ thresholdHit' /\ cooldown' = cooldown /\ sinceCrossing' = sinceCrossing
      /\ thresholdHit /\ cooldown = 0
  BY DEF Trade, commitVars
<1>2. sinceCrossing >= CooldownBlocks + 1 /\ sinceCrossing \in Nat
  BY <1>1, WindowsAssumption DEF LaunchInv, IInv, TypeOK, ControlTypeOK
<1> QED
  BY <1>1, <1>2, WindowsAssumption DEF LaunchInv, FairLaunch

LEMMA BlockLaunches ==
  ASSUME IInv, LaunchInv, NEW dt, NextBlock(dt)
  PROVE  LaunchInv'
<1>1. /\ UNCHANGED <<thresholdHit, nativeRaised, reserve1, drained, trades>>
      /\ cooldown' = Minus(cooldown, 1)
      /\ sinceCrossing' = IF thresholdHit THEN Least(sinceCrossing + 1, CooldownBlocks + 1) ELSE 0
  BY DEF NextBlock, commitVars
<1>2. cooldown \in Nat /\ sinceCrossing \in Nat /\ CooldownBlocks \in Nat
  BY WindowsAssumption DEF IInv, TypeOK, ControlTypeOK
<1>3. CASE thresholdHit
  <2>1. cooldown + sinceCrossing >= CooldownBlocks + 1
    BY <1>3 DEF LaunchInv
  <2>2. cooldown' + sinceCrossing' >= CooldownBlocks + 1
    BY <1>1, <1>2, <1>3, <2>1 DEF Minus, Least
  <2>3. sinceCrossing' <= CooldownBlocks => sinceCrossing <= CooldownBlocks
    BY <1>1, <1>2, <1>3 DEF Least
  <2> QED BY <1>1, <1>3, <2>2, <2>3 DEF LaunchInv, FairLaunch
<1>4. CASE ~thresholdHit
  BY <1>1, <1>4 DEF LaunchInv, FairLaunch
<1> QED
  BY <1>3, <1>4

LEMMA LaunchStep == IInv /\ LaunchInv /\ [Next]_vars => LaunchInv'
<1> SUFFICES ASSUME IInv, LaunchInv, [Next]_vars PROVE LaunchInv'
  OBVIOUS
<1> DEFINE still == UNCHANGED <<thresholdHit, nativeRaised, reserve1, drained, trades,
                                cooldown, sinceCrossing>>
<1> USE DEF commitVars, ammVars, adminVars, clockVars
<1>1. ASSUME still PROVE LaunchInv'
  BY <1>1 DEF LaunchInv, FairLaunch
<1>2. ASSUME NEW u \in Users, NEW amount \in Amounts, NEW rate \in Rates,
             CommitFunding(u, amount, rate)
      PROVE  LaunchInv'
  BY <1>2 DEF CommitFunding, LaunchInv, FairLaunch
<1>3. ASSUME NEW u \in Users, NEW amount \in Amounts, NEW rate \in Rates,
             CommitTrading(u, amount, rate)
      PROVE  LaunchInv'
  BY <1>3, TradeWaits DEF CommitTrading
<1>4. ASSUME NEW u \in Users, NEW side \in {0, 1}, NEW amount \in Amounts,
             Swap(u, side, amount)
      PROVE  LaunchInv'
  BY <1>4, TradeWaits DEF Swap
<1>5. CASE EmergencyDrain
  BY <1>5 DEF EmergencyDrain, Withdrawable, LaunchInv, FairLaunch
<1>6. ASSUME NEW k \in Keepers, ContinueDistribution(k)
      PROVE  still
  BY <1>6 DEF ContinueDistribution
<1>7. ASSUME NEW p \in Parties, ClaimFailedDistribution(p)
      PROVE  still
  BY <1>7 DEF ClaimFailedDistribution
<1>8. CASE \/ RecoverStuckDistribution \/ SelfRecoverDistribution \/ RetryFactoryNotify
           \/ Pause \/ Unpause \/ EmergencyInitiate \/ CancelEmergencyWithdraw
           \/ ClaimCreatorExcess
  <2>1. still
    BY <1>8 DEF RecoverStuckDistribution, SelfRecoverDistribution, Restart,
                RetryFactoryNotify, Pause, Unpause, EmergencyInitiate,
                CancelEmergencyWithdraw, ClaimCreatorExcess
  <2> QED BY <1>1, <2>1
<1>9. CASE UNCHANGED vars
  <2>1. still
    BY <1>9 DEF vars
  <2> QED BY <1>1, <2>1
<1> HIDE DEF still
<1> QED
  BY <1>1, <1>2, <1>3, <1>4, <1>5, <1>6, <1>7, <1>8, <1>9, HitExactLaunches,
     CrossingLaunches, BlockLaunches DEF Next

\* Nobody trades in the cooldown, and the crosser's own swap took no more than
\* its capped share buys, for any amounts, rates, fees, lock and cap.
THEOREM LaunchIsFair == Spec => []FairLaunch
<1>1. Init => LaunchInv
  BY DEF Init, LaunchInv, FairLaunch
<1>2. LaunchInv => FairLaunch
  BY DEF LaunchInv
<1> QED
  BY <1>1, <1>2, LaunchStep, Invariant, PTL DEF Spec

-----------------------------------------------------------------------------
(* The commits. *)

CommitsInv == IInv /\ CommitsAccounted

\* A commit that counts usd dollars, all of them below the target or exactly
\* completing it.
LEMMA CreditKeeps ==
  ASSUME CommitsInv, ~thresholdHit, NEW u \in Users, NEW usd \in Nat,
         ledger' = [ledger EXCEPT ![u] = @ + usd],
         credited' = [credited EXCEPT ![u] = @ + usd],
         usdRaised' = usdRaised + usd, usdRaised' <= Target,
         thresholdHit' <=> usdRaised' = Target
  PROVE  CommitsAccounted'
<1>1. /\ ledger = credited /\ credited \in [Users -> Nat] /\ usdRaised \in Nat
      /\ Total(credited, Users) = usdRaised
  BY DEF CommitsInv, CommitsAccounted, IInv, TypeOK, DistributionTypeOK, MoneyTypeOK
<1>2. ledger' = credited' /\ credited' \in [Users -> Nat]
  BY <1>1
<1>3. Total(credited', Users) = Total(credited, Users) + usd
  BY <1>1, UsersAssumption, TotalExcept
<1>4. Total(credited', Users) = usdRaised'
  BY <1>1, <1>3
<1> QED
  BY <1>2, <1>4 DEF CommitsAccounted

LEMMA FundingCredits ==
  ASSUME CommitsInv, NEW u \in Users, NEW amount \in Amounts, NEW rate \in Rates,
         CommitFunding(u, amount, rate)
  PROVE  CommitsAccounted'
<1> DEFINE usd == UsdValue(amount, rate)
<1>1. usd \in Nat
  BY ConversionTypes, AmountsAssumption
<1>2. /\ ~thresholdHit /\ UNCHANGED thresholdHit
      /\ ledger' = [ledger EXCEPT ![u] = @ + usd]
      /\ credited' = [credited EXCEPT ![u] = @ + usd]
      /\ usdRaised' = usdRaised + usd
      /\ usdRaised' < Target
  BY DEF CommitFunding
<1> HIDE DEF usd
<1>3. usdRaised' \in Nat
  BY <1>1, <1>2 DEF CommitsInv, IInv, TypeOK, MoneyTypeOK
<1>4. usdRaised' <= Target /\ usdRaised' # Target
  BY <1>2, <1>3, SizesAssumption
<1>5. thresholdHit' <=> usdRaised' = Target
  BY <1>2, <1>4, Zenon
<1> QED
  BY <1>1, <1>2, <1>4, <1>5, CreditKeeps, Zenon

\* The commit that crosses counts exactly what was missing.
LEMMA CrossingCredits ==
  ASSUME CommitsInv, NEW u \in Users, NEW usd \in Nat, NEW seed,
         Cross(u, usd, seed), usdRaised' = Target, usdRaised + usd = Target
  PROVE  CommitsAccounted'
<1>1. /\ ~thresholdHit /\ thresholdHit' = TRUE
      /\ ledger' = [ledger EXCEPT ![u] = @ + usd]
      /\ credited' = [credited EXCEPT ![u] = @ + usd]
  BY DEF Cross
<1>2. usdRaised' = usdRaised + usd /\ usdRaised' <= Target
  BY SizesAssumption
<1>3. thresholdHit' <=> usdRaised' = Target
  BY <1>1, Zenon
<1> QED
  BY <1>1, <1>2, <1>3, CreditKeeps, Zenon

LEMMA CrossingCounts ==
  ASSUME CommitsInv, NEW u \in Users, NEW amount \in Amounts, NEW rate \in Rates,
         CommitHitExact(u, amount, rate) \/ CommitCrossing(u, amount, rate)
  PROVE  \E usd \in 1 .. Target : /\ \E seed : Cross(u, usd, seed)
                                  /\ usdRaised' = Target /\ usdRaised + usd = Target
<1>1. usdRaised \in Nat /\ usdRaised < Target
  <2>1. ~thresholdHit
    BY DEF CommitHitExact, CommitCrossing, Cross
  <2> QED
    BY <2>1, SizesAssumption DEF CommitsInv, CommitsAccounted, IInv, TypeOK, MoneyTypeOK
<1>2. CASE CommitHitExact(u, amount, rate)
  <2> DEFINE usd == UsdValue(amount, rate)
             seed == nativeRaised + (amount - CommitFees(amount))
  <2>1. usd \in Nat
    BY ConversionTypes, AmountsAssumption
  <2>2. /\ Cross(u, usd, seed) /\ usdRaised + usd >= Target /\ ~Overshoots(usd)
        /\ usdRaised' = Least(usdRaised + usd, Target)
    BY <1>2 DEF CommitHitExact
  <2> HIDE DEF usd, seed
  <2>3. usdRaised + usd = Target /\ usdRaised' = Target /\ usd \in 1 .. Target
    BY <1>1, <2>1, <2>2, SizesAssumption DEF Overshoots, Minus, Least
  <2> QED
    BY <2>2, <2>3
<1>3. CASE CommitCrossing(u, amount, rate)
  <2> DEFINE toHit == Minus(Target, usdRaised)
             net == amount - CommitFees(amount)
             portion == (net * BluechipFor(toHit, rate)) \div amount
             seed == nativeRaised + portion
  <2>1. Cross(u, toHit, seed) /\ usdRaised' = Target
    BY <1>3 DEF CommitCrossing
  <2>2. toHit \in 1 .. Target /\ usdRaised + toHit = Target
    BY <1>1, SizesAssumption DEF Minus
  <2> HIDE DEF toHit, seed
  <2> QED
    BY <2>1, <2>2
<1> QED
  BY <1>2, <1>3

LEMMA CrossingCommitCredits ==
  ASSUME CommitsInv, NEW u \in Users, NEW amount \in Amounts, NEW rate \in Rates,
         CommitHitExact(u, amount, rate) \/ CommitCrossing(u, amount, rate)
  PROVE  CommitsAccounted'
  BY CrossingCounts, CrossingCredits

\* A batch removes rows as wholes.
LEMMA BatchCredits ==
  ASSUME CommitsInv, NEW k \in Keepers, ContinueDistribution(k)
  PROVE  CommitsAccounted'
<1>1. /\ ledger' = Settled(Batch)
      /\ UNCHANGED <<usdRaised, thresholdHit, credited>>
      /\ dist # None
  BY DEF ContinueDistribution
<1>2. thresholdHit
  BY <1>1 DEF CommitsInv, IInv, Phases
<1>3. \A u \in Users : ledger'[u] \in {0, credited[u]}
  BY <1>1 DEF Settled, CommitsInv, CommitsAccounted
<1> QED
  BY <1>1, <1>2, <1>3 DEF CommitsInv, CommitsAccounted

\* Nothing else touches the account.
LEMMA CommitsElsewhere ==
  ASSUME [Next]_vars
  PROVE  \/ \E u \in Users, amount \in Amounts, rate \in Rates :
              \/ CommitFunding(u, amount, rate)
              \/ CommitHitExact(u, amount, rate)
              \/ CommitCrossing(u, amount, rate)
         \/ \E k \in Keepers : ContinueDistribution(k)
         \/ UNCHANGED commitVars
<1>1. ASSUME NEW u \in Users, NEW amount \in Amounts, NEW rate \in Rates,
             CommitTrading(u, amount, rate)
      PROVE  UNCHANGED commitVars
  BY <1>1 DEF CommitTrading, Trade
<1>2. ASSUME NEW u \in Users, NEW side \in {0, 1}, NEW amount \in Amounts,
             Swap(u, side, amount)
      PROVE  UNCHANGED commitVars
  BY <1>2 DEF Swap, Trade
<1>3. ASSUME NEW p \in Parties, ClaimFailedDistribution(p)
      PROVE  UNCHANGED commitVars
  BY <1>3 DEF ClaimFailedDistribution
<1>4. CASE RecoverStuckDistribution \/ SelfRecoverDistribution
  BY <1>4 DEF RecoverStuckDistribution, SelfRecoverDistribution, Restart
<1>5. CASE Pause \/ Unpause \/ EmergencyInitiate \/ CancelEmergencyWithdraw
             \/ RetryFactoryNotify
  BY <1>5 DEF Pause, Unpause, EmergencyInitiate, CancelEmergencyWithdraw, RetryFactoryNotify
<1>6. CASE EmergencyDrain \/ ClaimCreatorExcess
  BY <1>6 DEF EmergencyDrain, ClaimCreatorExcess
<1>7. ASSUME NEW dt \in TimeSteps, NextBlock(dt)
      PROVE  UNCHANGED commitVars
  BY <1>7 DEF NextBlock
<1>8. CASE UNCHANGED vars
  BY <1>8 DEF vars
<1> QED
  BY <1>1, <1>2, <1>3, <1>4, <1>5, <1>6, <1>7, <1>8 DEF Next

LEMMA CommitsInductive == CommitsInv /\ [Next]_vars => CommitsAccounted'
<1> SUFFICES ASSUME CommitsInv, [Next]_vars
             PROVE  CommitsAccounted'
  OBVIOUS
<1>1. CASE UNCHANGED commitVars
  BY <1>1 DEF CommitsInv, CommitsAccounted, commitVars
<1> QED
  BY <1>1, CommitsElsewhere, FundingCredits, CrossingCommitCredits, BatchCredits

LEMMA InitCommits == Init => CommitsAccounted
<1>1. ASSUME Init PROVE Total(credited, Users) = 0
  BY <1>1, TotalZero DEF Init
<1>2. ASSUME Init PROVE usdRaised = 0 /\ ~thresholdHit /\ ledger = credited
  BY <1>2, Zenon DEF Init
<1>3. ASSUME Init PROVE \A u \in Users : ledger[u] \in {0, credited[u]}
  BY <1>3 DEF Init
<1>4. ASSUME Init PROVE thresholdHit <=> usdRaised = Target
  BY <1>2, <1>4, SizesAssumption
<1> QED
  BY <1>1, <1>2, <1>3, <1>4, SizesAssumption DEF CommitsAccounted

\* Every dollar counted is credited, the target is met exactly, and a row is
\* paid as a whole, for any committers, amounts, rates and target.
THEOREM CommitsAreAccounted == Spec => []CommitsAccounted
<1>1. IInv /\ CommitsAccounted /\ [Next]_vars => CommitsAccounted'
  BY CommitsInductive DEF CommitsInv
<1> QED
  BY <1>1, InitCommits, Invariant, PTL DEF Spec

-----------------------------------------------------------------------------
(* The distribution. *)

\* Rows in front of the cursor, counted, in an open distribution: what
\* NoCommitterSkipped says while rows can still be paid.
RowsAhead ==
  /\ dist = None <=> Rows(ledger) = {}
  /\ dist # None => /\ dist.active
                    /\ \A u \in Rows(ledger) : u > dist.cursor
                    /\ dist.remaining = Cardinality(Rows(ledger))

\* A batch is a first part of the rows: those left are behind its last row.
LEMMA BatchIsFirst ==
  ASSUME ledger \in [Users -> Nat], dist.cursor \in Users \cup {0},
         \A u \in Rows(ledger) : u > dist.cursor
  PROVE  /\ Batch \subseteq Rows(ledger)
         /\ Rows(Settled(Batch)) = Rows(ledger) \ Batch
         /\ \A u \in Rows(Settled(Batch)) : u > LastProcessed(Batch)
<1> DEFINE below(u) == {v \in Rows(ledger) : v < u}
<1>1. {u \in Rows(ledger) : u > dist.cursor} = Rows(ledger)
  OBVIOUS
<1>2. Batch = {u \in Rows(ledger) : Cardinality(below(u)) < BatchSize}
  BY <1>1 DEF Batch
<1>3. Rows(Settled(Batch)) = Rows(ledger) \ Batch
  BY DEF Settled, Rows
<1>4. ASSUME NEW u \in Rows(ledger) \ Batch, NEW v \in Batch PROVE v < u
  <2>1. u \in Nat /\ v \in Nat /\ v \in Rows(ledger) /\ u # v
    BY <1>2, <1>4, UsersAssumption DEF Rows
  <2>2. SUFFICES ASSUME u < v PROVE FALSE
    BY <2>1
  <2>3. below(u) \subseteq below(v) /\ IsFiniteSet(below(v)) /\ IsFiniteSet(below(u))
    <3>1. below(u) \subseteq below(v)
      <4>1. Rows(ledger) \subseteq Nat
        BY UsersAssumption DEF Rows
      <4>2. ASSUME NEW w \in Rows(ledger), w < u PROVE w < v
        BY <2>1, <2>2, <4>1, <4>2
      <4> QED BY <4>2
    <3>2. IsFiniteSet(below(v)) /\ IsFiniteSet(below(u))
      BY RowsFinite, FS_Subset
    <3> QED BY <3>1, <3>2
  <2>4. Cardinality(below(u)) <= Cardinality(below(v))
    <3> HIDE DEF below
    <3> QED BY <2>3, FS_Subset
  <2>5. Cardinality(below(u)) \in Nat /\ Cardinality(below(v)) \in Nat
    <3> HIDE DEF below
    <3> QED BY <2>3, FS_CardinalityType
  <2>6. Cardinality(below(v)) < BatchSize /\ ~(Cardinality(below(u)) < BatchSize)
    BY <1>2, <1>4
  <2> QED
    BY <2>4, <2>5, <2>6, SizesAssumption
<1>5. ASSUME NEW u \in Rows(ledger) \ Batch PROVE u > LastProcessed(Batch)
  <2>1. CASE Batch = {}
    BY <2>1 DEF LastProcessed
  <2>2. CASE Batch # {}
    <3>1. Batch \subseteq Users /\ IsFiniteSet(Batch)
      BY BatchBounds
    <3>2. \E w \in Batch : \A v \in Batch : v <= w
      BY <2>2, <3>1, GreatestElement, UsersAssumption
    <3>3. LastProcessed(Batch) \in Batch
      BY <2>2, <3>2 DEF LastProcessed
    <3>4. LastProcessed(Batch) < u
      BY <1>4, <3>3
    <3> QED
      BY <3>1, <3>3, <3>4, UsersAssumption DEF Rows
  <2> QED
    BY <2>1, <2>2
<1> QED
  BY <1>2, <1>3, <1>5

\* Every row is ahead of a cursor at the top.
LEMMA TopIsBehind == ASSUME NEW l PROVE \A u \in Rows(l) : u > 0
  BY UsersAssumption DEF Rows

LEMMA CrossOpens ==
  ASSUME IInv, NEW u, NEW usd, NEW seed, Cross(u, usd, seed)
  PROVE  RowsAhead'
<1>1. dist = None
  BY DEF Cross, IInv, Phases
<1>2. dist' = IF Rows(ledger') = {} THEN None
              ELSE [active |-> TRUE, cursor |-> 0, remaining |-> Cardinality(Rows(ledger')),
                    stalled |-> 0, distributed |-> 0]
  BY <1>1 DEF Cross
<1>3. CASE Rows(ledger') = {}
  BY <1>2, <1>3 DEF RowsAhead, Rows
<1>4. CASE Rows(ledger') # {}
  <2>1. Cardinality(Rows(ledger')) \in Nat
    BY RowsFinite, FS_CardinalityType
  <2>2. /\ dist' \in DistRecord /\ dist'.active /\ dist'.cursor = 0
        /\ dist'.remaining = Cardinality(Rows(ledger'))
    BY <1>2, <1>4, <2>1 DEF DistRecord
  <2>3. dist' # None
    BY <2>2, NoneAssumption
  <2> QED
    BY <1>4, <2>2, <2>3, TopIsBehind DEF RowsAhead, Rows
<1> QED
  BY <1>3, <1>4

LEMMA RestartKeepsRows ==
  ASSUME IInv, NEW window, Restart(window)
  PROVE  RowsAhead'
<1>1. dist \in DistRecord /\ ledger' = ledger /\ dist' = Restarted
  BY DEF Restart, IInv, TypeOK, DistributionTypeOK, commitVars
<1>2. CASE Rows(ledger) = {}
  BY <1>1, <1>2 DEF Restarted, RowsAhead, Rows
<1>3. CASE Rows(ledger) # {}
  <2>1. Cardinality(Rows(ledger)) \in Nat
    BY RowsFinite, FS_CardinalityType
  <2>2. /\ dist' \in DistRecord /\ dist'.active /\ dist'.cursor = 0
        /\ dist'.remaining = Cardinality(Rows(ledger))
    BY <1>1, <1>3, <2>1 DEF Restarted, DistRecord
  <2>3. dist' # None
    BY <2>2, NoneAssumption
  <2> QED
    BY <1>1, <1>3, <2>2, <2>3, TopIsBehind DEF RowsAhead, Rows
<1> QED
  BY <1>2, <1>3

\* What a batch pays is an amount.
LEMMA SentType ==
  ASSUME ledger \in [Users -> Nat], dist \in DistRecord, dist.cursor \in Users \cup {0}
  PROVE  dist.distributed
         + Total([p \in Parties |-> IF p \in Batch THEN Reward(ledger[p]) ELSE 0], Batch) \in Nat
<1> DEFINE reward == [p \in Parties |-> IF p \in Batch THEN Reward(ledger[p]) ELSE 0]
<1>1. Batch \subseteq Users /\ IsFiniteSet(Batch)
  BY BatchBounds
<1>2. \A p \in Batch : Reward(ledger[p]) \in Nat
  BY <1>1, ProductNat, DivNat, SizesAssumption DEF Reward
<1>3. \A p \in Batch : reward[p] \in Nat
  BY <1>1, <1>2 DEF Parties
<1> HIDE DEF reward
<1>4. Total(reward, Batch) \in Nat
  BY <1>1, <1>3, TotalType
<1>5. dist.distributed \in Nat
  BY DEF DistRecord
<1>6. dist.distributed + Total(reward, Batch) \in Nat
  BY <1>4, <1>5
<1> QED
  BY <1>6 DEF reward

\* A batch leaves the rest ahead of its last row, and closes with the last row.
LEMMA BatchKeepsRows ==
  ASSUME IInv, RowsAhead, NEW k \in Keepers, ContinueDistribution(k)
  PROVE  RowsAhead'
<1> DEFINE rest == Settled(Batch)
           more == \E u \in Rows(rest) : u > LastProcessed(Batch)
           sent == dist.distributed
                   + Total([p \in Parties |-> IF p \in Batch THEN Reward(ledger[p]) ELSE 0], Batch)
<1>1. /\ dist \in DistRecord /\ dist.cursor \in Users \cup {0} /\ dist # None
      /\ ledger \in [Users -> Nat]
  BY DEF ContinueDistribution, IInv, TypeOK, DistributionTypeOK
<1>2. /\ ledger' = rest
      /\ dist' = IF more
                 THEN [dist EXCEPT !.active = TRUE, !.cursor = LastProcessed(Batch),
                                   !.remaining = Minus(@, Cardinality(Batch)),
                                   !.stalled = 0, !.distributed = sent]
                 ELSE None
  BY DEF ContinueDistribution
<1>3. /\ \A u \in Rows(ledger) : u > dist.cursor
      /\ dist.remaining = Cardinality(Rows(ledger))
  BY <1>1 DEF RowsAhead
<1>4. /\ Batch \subseteq Rows(ledger)
      /\ Rows(rest) = Rows(ledger) \ Batch
      /\ \A u \in Rows(rest) : u > LastProcessed(Batch)
  BY <1>1, <1>3, BatchIsFirst
<1>5. more <=> Rows(rest) # {}
  BY <1>4
<1>6. Minus(dist.remaining, Cardinality(Batch)) = Cardinality(Rows(rest))
  <2>1. IsFiniteSet(Rows(ledger)) /\ IsFiniteSet(Batch) /\ Rows(ledger) \cap Batch = Batch
    BY <1>4, RowsFinite, FS_Subset
  <2>2. Cardinality(Rows(rest)) = Cardinality(Rows(ledger)) - Cardinality(Batch)
    BY <1>4, <2>1, FS_Difference
  <2>3. /\ Cardinality(Rows(ledger)) \in Nat /\ Cardinality(Batch) \in Nat
        /\ Cardinality(Batch) <= Cardinality(Rows(ledger))
    BY <1>4, <2>1, FS_CardinalityType, FS_Subset
  <2> QED
    BY <1>3, <2>2, <2>3 DEF Minus
<1>9. sent \in Nat /\ Cardinality(Rows(rest)) \in Nat /\ LastProcessed(Batch) \in Nat
  <2>1. sent \in Nat
    BY <1>1, SentType
  <2>2. Cardinality(Rows(rest)) \in Nat
    BY RowsFinite, FS_CardinalityType
  <2>3. LastProcessed(Batch) \in Nat
    <3>1. LastProcessed(Batch) \in Users \cup {0}
      BY <1>1, BatchBounds
    <3>2. Users \cup {0} \subseteq Nat
      BY UsersAssumption
    <3> QED BY <3>1, <3>2
  <2> QED BY <2>1, <2>2, <2>3
<1> HIDE DEF rest, more, sent
<1>7. CASE ~more
  BY <1>2, <1>5, <1>7 DEF RowsAhead, Rows
<1>8. CASE more
  <2>1. /\ dist'.active /\ dist'.cursor = LastProcessed(Batch)
        /\ dist'.remaining = Cardinality(Rows(rest))
    BY <1>1, <1>2, <1>6, <1>8 DEF DistRecord
  <2>2. dist' # None
    <3>1. dist' \in DistRecord
      BY <1>1, <1>2, <1>6, <1>8, <1>9 DEF DistRecord
    <3> QED
      BY <3>1, NoneAssumption
  <2> QED
    BY <1>2, <1>4, <1>5, <1>8, <2>1, <2>2 DEF RowsAhead, Rows
<1> QED
  BY <1>7, <1>8

\* Nothing else moves the rows, and only NextBlock touches the distribution of
\* a pool that is not drained: it lets the stall grow.
LEMMA RowsElsewhere ==
  ASSUME IInv, [Next]_vars, thresholdHit', ~drained',
         ~ \E k \in Keepers : ContinueDistribution(k),
         ~ \E u \in Users, amount \in Amounts, rate \in Rates :
             CommitHitExact(u, amount, rate) \/ CommitCrossing(u, amount, rate),
         ~ \E window : Restart(window)
  PROVE  /\ UNCHANGED ledger /\ thresholdHit /\ ~drained
         /\ dist' = None <=> dist = None
         /\ dist # None => /\ dist'.active = dist.active /\ dist'.cursor = dist.cursor
                           /\ dist'.remaining = dist.remaining
<1> DEFINE Kept == /\ UNCHANGED ledger /\ thresholdHit /\ ~drained
                   /\ dist' = None <=> dist = None
                   /\ dist # None => /\ dist'.active = dist.active
                                     /\ dist'.cursor = dist.cursor
                                     /\ dist'.remaining = dist.remaining
<1>0. ASSUME UNCHANGED <<ledger, thresholdHit, drained, dist>> PROVE Kept
  BY <1>0
<1> USE DEF commitVars, distVars, adminVars
<1>1. ASSUME NEW u \in Users, NEW amount \in Amounts, NEW rate \in Rates,
             CommitTrading(u, amount, rate)
      PROVE  Kept
  BY <1>0, <1>1 DEF CommitTrading, Trade
<1>2. ASSUME NEW u \in Users, NEW amount \in Amounts, NEW rate \in Rates,
             CommitFunding(u, amount, rate)
      PROVE  FALSE
  BY <1>2 DEF CommitFunding
<1>3. ASSUME NEW u \in Users, NEW side \in {0, 1}, NEW amount \in Amounts,
             Swap(u, side, amount)
      PROVE  Kept
  BY <1>0, <1>3 DEF Swap, Trade
<1>4. ASSUME NEW p \in Parties, ClaimFailedDistribution(p)
      PROVE  Kept
  BY <1>0, <1>4 DEF ClaimFailedDistribution
<1>5. ~RecoverStuckDistribution /\ ~SelfRecoverDistribution /\ ~EmergencyDrain
  BY DEF RecoverStuckDistribution, SelfRecoverDistribution, EmergencyDrain
<1>6. ASSUME \/ Pause \/ Unpause \/ EmergencyInitiate \/ CancelEmergencyWithdraw
             \/ RetryFactoryNotify \/ ClaimCreatorExcess \/ UNCHANGED vars
      PROVE  Kept
  BY <1>0, <1>6 DEF Pause, Unpause, EmergencyInitiate, CancelEmergencyWithdraw, RetryFactoryNotify,
              ClaimCreatorExcess, vars
<1>7. ASSUME NEW dt \in TimeSteps, NextBlock(dt)
      PROVE  Kept
  <2>1. /\ UNCHANGED <<ledger, thresholdHit, drained>>
        /\ dist' = IF dist = None THEN None
                   ELSE [dist EXCEPT !.stalled = Least(@ + dt, StallCap)]
    BY <1>7 DEF NextBlock
  <2>2. CASE dist = None
    BY <2>1, <2>2
  <2>3. CASE dist # None
    <3>1. dist \in DistRecord /\ dt \in Nat
      BY <2>3, WindowsAssumption DEF IInv, TypeOK, DistributionTypeOK
    <3>2. Least(dist.stalled + dt, StallCap) \in Nat
      BY <3>1, StallCapType DEF Least, DistRecord
    <3>3. dist' \in DistRecord /\ dist'.active = dist.active /\ dist'.cursor = dist.cursor
          /\ dist'.remaining = dist.remaining
      BY <2>1, <2>3, <3>1, <3>2 DEF DistRecord
    <3> QED
      BY <2>1, <2>3, <3>3, NoneAssumption
  <2> QED
    BY <2>2, <2>3
<1> HIDE DEF Kept
<1>8. Kept
  BY <1>1, <1>2, <1>3, <1>4, <1>5, <1>6, <1>7, Zenon DEF Next
<1> QED
  BY <1>8 DEF Kept

LEMMA RowsInductive == IInv /\ NoCommitterSkipped /\ [Next]_vars => NoCommitterSkipped'
<1> SUFFICES ASSUME IInv, NoCommitterSkipped, [Next]_vars, thresholdHit', ~drained'
             PROVE  RowsAhead'
  BY DEF NoCommitterSkipped, RowsAhead
<1>1. CASE \E u \in Users, amount \in Amounts, rate \in Rates :
             CommitHitExact(u, amount, rate) \/ CommitCrossing(u, amount, rate)
  BY <1>1, CrossOpens DEF CommitHitExact, CommitCrossing
<1>2. CASE \E window : Restart(window)
  BY <1>2, RestartKeepsRows
<1>3. CASE \E k \in Keepers : ContinueDistribution(k)
  <2>1. PICK k \in Keepers : ContinueDistribution(k)
    BY <1>3
  <2>2. thresholdHit /\ ~drained
    BY <2>1 DEF ContinueDistribution, NotDrained
  <2>3. RowsAhead
    BY <2>2 DEF NoCommitterSkipped, RowsAhead
  <2> QED
    BY <2>1, <2>3, BatchKeepsRows
<1>4. CASE /\ ~ \E u \in Users, amount \in Amounts, rate \in Rates :
                  CommitHitExact(u, amount, rate) \/ CommitCrossing(u, amount, rate)
           /\ ~ \E window : Restart(window)
           /\ ~ \E k \in Keepers : ContinueDistribution(k)
  <2>1. /\ UNCHANGED ledger /\ thresholdHit /\ ~drained
        /\ dist' = None <=> dist = None
        /\ dist # None => /\ dist'.active = dist.active /\ dist'.cursor = dist.cursor
                          /\ dist'.remaining = dist.remaining
    BY <1>4, RowsElsewhere
  <2>2. RowsAhead
    BY <2>1 DEF NoCommitterSkipped, RowsAhead
  <2> QED
    BY <2>1, <2>2 DEF RowsAhead, Rows
<1> QED
  BY <1>1, <1>2, <1>3, <1>4

\* No batch, stall, restart or failed mint leaves a committer behind the
\* cursor, for any committers, batch size and windows.
THEOREM NobodyIsSkipped == Spec => []NoCommitterSkipped
<1>1. Init => NoCommitterSkipped
  BY Zenon DEF Init, NoCommitterSkipped
<1> QED
  BY <1>1, RowsInductive, Invariant, PTL DEF Spec

-----------------------------------------------------------------------------
(* The budget and the entitlements. *)

\* What each committer earns, and what each has been granted: a row that is
\* gone was granted the reward of all it stood for.
Rewards == [u \in Users |-> Reward(credited[u])]
Paid    == [u \in Users |-> IF ledger[u] = 0 THEN Reward(credited[u]) ELSE 0]

\* The record of an open distribution says what has been paid.
PaidIsRecorded == dist # None => dist.distributed = Total(Paid, Users)

PayoutInv == /\ IInv /\ CommitsAccounted /\ NoCommitterSkipped
             /\ PaidIsRecorded /\ TokenBudget /\ Entitlements

\* The parts of a batch, as ContinueDistribution names them.
BatchReward == [p \in Parties |-> IF p \in Batch THEN Reward(ledger[p]) ELSE 0]
BatchSent == dist.distributed + Total(BatchReward, Batch)
BatchResidual ==
  Residual(BatchSent, \E u \in Rows(Settled(Batch)) : u > LastProcessed(Batch))

\* A reward is at least a unit per dollar and at most the dollars' part of the
\* committers' share.
LEMMA RewardBounds ==
  ASSUME NEW usd \in Nat
  PROVE  /\ Reward(usd) \in Nat /\ Reward(usd) * Target <= usd * CommitReturn
         /\ usd <= Reward(usd) /\ Reward(0) = 0
<1>1. usd * CommitReturn \in Nat
  BY ProductNat, SizesAssumption
<1>2. Reward(usd) \in Nat /\ Target * Reward(usd) <= usd * CommitReturn
  BY <1>1, DivNat, DivTimes, SizesAssumption DEF Reward
<1>3. Reward(usd) * Target <= usd * CommitReturn
  BY <1>2, Distributes, SizesAssumption
<1>4. usd <= Reward(usd)
  <2>1. usd * Target <= usd * CommitReturn
    BY ProductMonotone, SizesAssumption
  <2>2. ASSUME NEW n \in Nat, NEW t \in Nat \ {0}, NEW q \in Nat, q * t <= n
        PROVE  q <= n \div t
    BY <2>2
  <2> QED
    BY <1>1, <2>1, <2>2, SizesAssumption DEF Reward
<1>5. Reward(0) = 0
  BY SizesAssumption DEF Reward
<1> QED
  BY <1>2, <1>3, <1>4, <1>5

LEMMA RewardTypes ==
  ASSUME IInv
  PROVE  /\ credited \in [Users -> Nat] /\ ledger \in [Users -> Nat]
         /\ failed \in [Parties -> Nat] /\ minted \in [Parties -> Nat] /\ supply \in Nat
         /\ Rewards \in [Users -> Nat] /\ Paid \in [Users -> Nat]
         /\ Total(Rewards, Users) \in Nat /\ Total(Paid, Users) \in Nat
         /\ Total(Paid, Users) <= Total(Rewards, Users)
<1>1. /\ credited \in [Users -> Nat] /\ ledger \in [Users -> Nat]
      /\ failed \in [Parties -> Nat] /\ minted \in [Parties -> Nat] /\ supply \in Nat
  BY DEF IInv, TypeOK, DistributionTypeOK, MoneyTypeOK
<1>2. Rewards \in [Users -> Nat] /\ Paid \in [Users -> Nat]
  BY <1>1, RewardBounds DEF Rewards, Paid
<1>3. \A u \in Users : Paid[u] \in Nat /\ Rewards[u] \in Nat /\ Paid[u] <= Rewards[u]
  BY <1>1, RewardBounds DEF Rewards, Paid
<1>4. /\ Total(Rewards, Users) \in Nat /\ Total(Paid, Users) \in Nat
      /\ Total(Paid, Users) <= Total(Rewards, Users)
  BY <1>3, TotalType, TotalAtMost, UsersAssumption
<1> QED
  BY <1>1, <1>2, <1>4

\* Once the target is met the rewards, rounded down one by one, are something
\* and fit into the committers' share.
LEMMA RewardsFit ==
  ASSUME IInv, CommitsAccounted, thresholdHit
  PROVE  Total(Rewards, Users) \in 1 .. CommitReturn
<1>1. \A u \in Users : /\ credited[u] \in Nat /\ Rewards[u] \in Nat
                       /\ Rewards[u] * Target <= credited[u] * CommitReturn
                       /\ credited[u] <= Rewards[u]
  BY RewardTypes, RewardBounds DEF Rewards
<1>2. Total(credited, Users) = Target
  BY DEF CommitsAccounted
<1>3. CommitReturn \in Nat \ {0} /\ Target \in Nat \ {0}
  BY SizesAssumption
<1>4. Total(Rewards, Users) * Target <= Total(credited, Users) * CommitReturn
  BY <1>1, <1>3, TotalShares, UsersAssumption
<1>5. Total(credited, Users) <= Total(Rewards, Users)
  BY <1>1, TotalAtMost, UsersAssumption
<1>6. ASSUME NEW n \in Nat, NEW t \in Nat \ {0}, NEW r \in Nat, n * t <= t * r
      PROVE  n <= r
  BY <1>6
<1>7. Total(Rewards, Users) \in Nat
  BY RewardTypes
<1>8. Total(Rewards, Users) <= CommitReturn
  BY <1>2, <1>3, <1>4, <1>6, <1>7
<1> QED
  BY <1>2, <1>3, <1>5, <1>7, <1>8

\* The books of a batch: what the parties are granted, delivered or set aside,
\* is the rewards of the rows and the creator's residual.
LEMMA BatchBook ==
  ASSUME IInv, NEW k \in Keepers, ContinueDistribution(k)
  PROVE  /\ BatchReward \in [Parties -> Nat] /\ BatchSent \in Nat /\ BatchResidual \in Nat
         /\ \A p \in Parties :
              /\ minted'[p] >= minted[p] /\ failed'[p] >= failed[p]
              /\ minted'[p] + failed'[p] = minted[p] + failed[p] + BatchReward[p]
                                           + (IF p = Creator THEN BatchResidual ELSE 0)
         /\ supply' + Total(failed', Parties)
              = supply + Total(failed, Parties) + Total(BatchReward, Batch) + BatchResidual
<1>1. dist \in DistRecord /\ dist.cursor \in Users \cup {0}
  BY DEF ContinueDistribution, IInv, TypeOK, DistributionTypeOK
<1>2. /\ ledger \in [Users -> Nat] /\ failed \in [Parties -> Nat]
      /\ minted \in [Parties -> Nat] /\ supply \in Nat
  BY RewardTypes
<1>3. Batch \subseteq Parties /\ Batch \subseteq Users /\ IsFiniteSet(Batch)
  BY <1>1, BatchBounds DEF Parties
<1>4. BatchReward \in [Parties -> Nat] /\ \A p \in Parties \ Batch : BatchReward[p] = 0
  <2>1. \A p \in Batch : Reward(ledger[p]) \in Nat
    BY <1>2, <1>3, RewardBounds
  <2> QED BY <2>1 DEF BatchReward
<1>5. BatchSent \in Nat /\ Total(BatchReward, Batch) \in Nat
  <2>1. Total(BatchReward, Batch) \in Nat
    BY <1>3, <1>4, TotalType
  <2> QED BY <1>1, <2>1 DEF BatchSent, DistRecord
<1>6. BatchResidual \in Nat
  BY <1>5, SizesAssumption DEF BatchResidual, Residual
<1>7. PICK bounced \in SUBSET {p \in Batch : BatchReward[p] > 0},
           residualBounced \in IF BatchResidual > 0 THEN BOOLEAN ELSE {FALSE} :
         LET ok(p)   == (IF p \in bounced THEN 0 ELSE BatchReward[p])
                      + (IF p = Creator /\ ~residualBounced THEN BatchResidual ELSE 0)
             lost(p) == (IF p \in bounced THEN BatchReward[p] ELSE 0)
                      + (IF p = Creator /\ residualBounced THEN BatchResidual ELSE 0)
         IN  /\ minted' = [p \in Parties |-> minted[p] + ok(p)]
             /\ failed' = [p \in Parties |-> failed[p] + lost(p)]
             /\ supply' = supply + Total([p \in Parties |-> ok(p)], Parties)
  BY Zenon DEF ContinueDistribution, BatchReward, BatchSent, BatchResidual
<1> DEFINE ok(p)   == (IF p \in bounced THEN 0 ELSE BatchReward[p])
                      + (IF p = Creator /\ ~residualBounced THEN BatchResidual ELSE 0)
           lost(p) == (IF p \in bounced THEN BatchReward[p] ELSE 0)
                      + (IF p = Creator /\ residualBounced THEN BatchResidual ELSE 0)
           oks     == [p \in Parties |-> ok(p)]
           losts   == [p \in Parties |-> lost(p)]
           due     == [p \in Parties |-> BatchReward[p]
                                         + (IF p = Creator THEN BatchResidual ELSE 0)]
<1>8. \A p \in Parties : ok(p) \in Nat /\ lost(p) \in Nat /\ due[p] = ok(p) + lost(p)
  <2>1. residualBounced \in BOOLEAN
    OBVIOUS
  <2> QED
    BY <1>4, <1>6, <2>1
<1>9. /\ minted' = [p \in Parties |-> minted[p] + ok(p)]
      /\ failed' = [p \in Parties |-> failed[p] + lost(p)]
      /\ supply' = supply + Total(oks, Parties)
  BY <1>7
<1> HIDE DEF ok, lost
<1>10. \A p \in Parties : /\ oks[p] \in Nat /\ losts[p] \in Nat /\ due[p] = oks[p] + losts[p]
                          /\ failed[p] \in Nat /\ failed'[p] = failed[p] + losts[p]
  BY <1>2, <1>8, <1>9
<1>11. \A p \in Parties :
         due[p] = IF p = Creator THEN BatchReward[p] + BatchResidual ELSE BatchReward[p]
  BY <1>4
<1>12. \A p \in Parties :
         /\ minted'[p] >= minted[p] /\ failed'[p] >= failed[p]
         /\ minted'[p] + failed'[p] = minted[p] + failed[p] + due[p]
  BY <1>2, <1>8, <1>9
<1> HIDE DEF oks, losts
<1>13. Total(failed', Parties) = Total(failed, Parties) + Total(losts, Parties)
  BY <1>10, PartiesFinite, TotalPlus
<1>14. /\ Total(due, Parties) = Total(oks, Parties) + Total(losts, Parties)
       /\ Total(due, Parties) = Total(BatchReward, Parties) + BatchResidual
  <2> HIDE DEF due
  <2>1. Creator \in Parties
    BY DEF Parties
  <2>2. Total(due, Parties) = Total(oks, Parties) + Total(losts, Parties)
    BY <1>10, PartiesFinite, TotalPlus
  <2>3. Total(due, Parties) = Total(BatchReward, Parties) + BatchResidual
    BY <1>4, <1>6, <1>11, <2>1, PartiesFinite, TotalAdd
  <2> QED
    BY <2>2, <2>3
<1>15. Total(BatchReward, Parties) = Total(BatchReward, Batch)
  BY <1>3, <1>4, TotalOutside
<1>16. /\ Total(oks, Parties) \in Nat /\ Total(losts, Parties) \in Nat
       /\ Total(failed, Parties) \in Nat
  BY <1>10, PartiesFinite, TotalType
<1>17. supply' + Total(failed', Parties)
         = supply + Total(failed, Parties) + Total(BatchReward, Batch) + BatchResidual
  BY <1>2, <1>5, <1>6, <1>9, <1>13, <1>14, <1>15, <1>16
<1>18. \A p \in Parties :
         due[p] = BatchReward[p] + (IF p = Creator THEN BatchResidual ELSE 0)
  OBVIOUS
<1> HIDE DEF due
<1>19. ASSUME NEW p \in Parties
       PROVE  minted'[p] + failed'[p] = minted[p] + failed[p] + BatchReward[p]
                                        + (IF p = Creator THEN BatchResidual ELSE 0)
  <2>1. minted[p] \in Nat /\ failed[p] \in Nat /\ BatchReward[p] \in Nat
    BY <1>2, <1>4
  <2> QED
    BY <1>6, <1>12, <1>18, <2>1
<1> QED
  BY <1>4, <1>5, <1>6, <1>12, <1>17, <1>19

\* The progress of a batch: it takes whole rows, the record moves by what it
\* pays, and with the last row the residual is what rounding left.
LEMMA BatchSettles ==
  ASSUME PayoutInv, NEW k \in Keepers, ContinueDistribution(k)
  PROVE  /\ thresholdHit /\ ~drained /\ dist # None
         /\ UNCHANGED <<credited, thresholdHit, drained>>
         /\ ledger' = Settled(Batch)
         /\ Batch \subseteq Rows(ledger) /\ Rows(ledger') = Rows(ledger) \ Batch
         /\ \A u \in Batch : ledger[u] = credited[u]
         /\ dist' = None <=> Rows(ledger') = {}
         /\ dist' # None => dist'.distributed = BatchSent
         /\ BatchSent = Total(Paid', Users)
         /\ BatchSent <= CommitReturn
         /\ BatchResidual = IF dist' = None THEN CommitReturn - Total(Rewards, Users) ELSE 0
         /\ dist' = None => BatchSent = Total(Rewards, Users)
<1> DEFINE more == \E u \in Rows(Settled(Batch)) : u > LastProcessed(Batch)
<1>1. /\ IInv /\ CommitsAccounted /\ dist # None /\ ~drained /\ ledger' = Settled(Batch)
      /\ UNCHANGED <<credited, thresholdHit, drained, usdRaised>>
  BY DEF ContinueDistribution, PayoutInv, NotDrained, adminVars
<1>2. thresholdHit /\ dist \in DistRecord /\ dist.cursor \in Users \cup {0}
  BY <1>1 DEF IInv, Phases, TypeOK, DistributionTypeOK
<1>3. \A u \in Rows(ledger) : u > dist.cursor
  BY <1>1, <1>2 DEF PayoutInv, NoCommitterSkipped
<1>4. ledger \in [Users -> Nat] /\ credited \in [Users -> Nat]
  BY <1>1, RewardTypes
<1>5. /\ Batch \subseteq Rows(ledger) /\ Rows(ledger') = Rows(ledger) \ Batch
      /\ more <=> Rows(ledger') # {}
  BY <1>1, <1>2, <1>3, <1>4, BatchIsFirst
<1>6. \A u \in Batch : u \in Users /\ ledger[u] = credited[u] /\ ledger[u] > 0
  BY <1>1, <1>5 DEF Rows, CommitsAccounted
<1>7. dist' = IF more THEN [dist EXCEPT !.active = TRUE, !.cursor = LastProcessed(Batch),
                                        !.remaining = Minus(@, Cardinality(Batch)),
                                        !.stalled = 0, !.distributed = BatchSent]
              ELSE None
  BY <1>1 DEF ContinueDistribution, BatchSent, BatchReward
<1>8. IInv'
  BY <1>1, ContinueDistributionPreserves
<1>9. /\ dist' = None <=> ~more
      /\ dist' # None => dist'.distributed = BatchSent
  <2>1. CASE more
    <3>1. dist' = [dist EXCEPT !.active = TRUE, !.cursor = LastProcessed(Batch),
                               !.remaining = Minus(@, Cardinality(Batch)),
                               !.stalled = 0, !.distributed = BatchSent]
      BY <1>7, <2>1
    <3>2. dist'.distributed = BatchSent /\ dist'.active = TRUE
      BY <1>2, <3>1 DEF DistRecord
    <3>3. dist' # None
      <4>1. BatchSent \in Nat
        BY <1>1, BatchBook
      <4>2. Minus(dist.remaining, Cardinality(Batch)) \in Nat /\ LastProcessed(Batch) \in Nat
        <5>1. Cardinality(Batch) \in Nat
          BY <1>2, BatchBounds, FS_CardinalityType
        <5>2. LastProcessed(Batch) \in Nat
          <6>1. LastProcessed(Batch) \in Users \cup {0}
            BY <1>2, BatchBounds
          <6>2. Users \cup {0} \subseteq Nat
            BY UsersAssumption
          <6> QED BY <6>1, <6>2
        <5> QED
          BY <1>2, <5>1, <5>2 DEF DistRecord, Minus
      <4>3. dist' \in DistRecord
        BY <1>2, <3>1, <4>1, <4>2 DEF DistRecord
      <4> QED
        BY <4>3, NoneAssumption
    <3> QED
      BY <2>1, <3>2, <3>3
  <2>2. CASE ~more
    BY <1>7, <2>2
  <2> QED
    BY <2>1, <2>2
<1>10. BatchSent = Total(Paid', Users)
  <2> DEFINE granted == [u \in Users |-> IF u \in Batch THEN Reward(ledger[u]) ELSE 0]
  <2>1. \A u \in Users : /\ Paid[u] \in Nat /\ granted[u] \in Nat
                         /\ Paid'[u] = Paid[u] + granted[u]
    <3> SUFFICES ASSUME NEW u \in Users
                 PROVE  /\ Paid[u] \in Nat /\ granted[u] \in Nat
                        /\ Paid'[u] = Paid[u] + granted[u]
      OBVIOUS
    <3>1. Reward(credited[u]) \in Nat /\ Reward(ledger[u]) \in Nat
      BY <1>4, RewardBounds
    <3>2. Paid'[u] = IF ledger'[u] = 0 THEN Reward(credited[u]) ELSE 0
      BY <1>1 DEF Paid
    <3>3. ledger'[u] = IF u \in Batch THEN 0 ELSE ledger[u]
      BY <1>1 DEF Settled
    <3>4. Paid[u] = IF ledger[u] = 0 THEN Reward(credited[u]) ELSE 0
      BY DEF Paid
    <3>5. CASE u \in Batch
      BY <1>4, <1>6, <3>1, <3>2, <3>3, <3>4, <3>5
    <3>6. CASE u \notin Batch
      BY <3>1, <3>2, <3>3, <3>4, <3>6
    <3> QED
      BY <3>5, <3>6
  <2>2. \A u \in Users \ Batch : granted[u] = 0
    OBVIOUS
  <2>3. \A u \in Batch : granted[u] = BatchReward[u]
    BY <1>6 DEF BatchReward, Parties
  <2>4. Batch \subseteq Users
    BY <1>6
  <2> HIDE DEF granted
  <2>5. Total(Paid', Users) = Total(Paid, Users) + Total(granted, Users)
    BY <2>1, TotalPlus, UsersAssumption
  <2>6. Total(granted, Users) = Total(granted, Batch)
    BY <2>2, <2>4, TotalOutside
  <2>7. Total(granted, Batch) = Total(BatchReward, Batch)
    BY <2>3, TotalEqual
  <2>8. dist.distributed = Total(Paid, Users)
    BY <1>1 DEF PayoutInv, PaidIsRecorded
  <2> QED
    BY <2>5, <2>6, <2>7, <2>8 DEF BatchSent
<1>11. Rewards' = Rewards /\ Total(Rewards, Users) \in 1 .. CommitReturn
  BY <1>1, <1>2, RewardsFit DEF Rewards
<1>12. Total(Paid', Users) <= Total(Rewards, Users) /\ Total(Paid', Users) \in Nat
  <2>1. \A u \in Users : Paid'[u] \in Nat /\ Rewards[u] \in Nat /\ Paid'[u] <= Rewards[u]
    BY <1>1, <1>4, RewardBounds DEF Paid, Rewards
  <2> QED
    BY <2>1, TotalType, TotalAtMost, UsersAssumption
<1>13. BatchSent <= CommitReturn
  BY <1>10, <1>11, <1>12, SizesAssumption
<1>14. ~more => BatchSent = Total(Rewards, Users)
  <2> SUFFICES ASSUME ~more PROVE Total(Paid', Users) = Total(Rewards, Users)
    BY <1>10
  <2>1. \A u \in Users : ledger'[u] = 0
    <3>1. ledger' \in [Users -> Nat]
      BY <1>8 DEF IInv, TypeOK, DistributionTypeOK
    <3> QED
      BY <1>5, <3>1 DEF Rows
  <2>2. \A u \in Users : Paid'[u] = Rewards[u]
    BY <1>1, <2>1 DEF Paid, Rewards
  <2> QED
    BY <2>2, TotalEqual
<1>15. BatchResidual = IF more THEN 0 ELSE CommitReturn - Total(Rewards, Users)
  <2>1. BatchResidual = IF ~more /\ BatchSent > 0 /\ BatchSent < CommitReturn
                        THEN CommitReturn - BatchSent ELSE 0
    BY DEF BatchResidual, Residual
  <2> HIDE DEF more
  <2>2. CASE more
    BY <2>1, <2>2
  <2>3. CASE ~more
    BY <1>11, <1>14, <2>1, <2>3, SizesAssumption
  <2> QED
    BY <2>2, <2>3
<1> HIDE DEF more
<1> QED
  BY <1>1, <1>2, <1>5, <1>6, <1>9, <1>10, <1>13, <1>14, <1>15

\* What leaves the share c of the committers, x for rows and r at the end, is
\* minted or set aside.
LEMMA BudgetMoves ==
  ASSUME NEW c \in Nat, NEW d \in Nat, NEW x \in Nat, NEW r \in Nat, NEW sent, NEW left, NEW cap,
         NEW s \in Nat, NEW f \in Nat, NEW s1 \in Nat, NEW f1 \in Nat,
         s + f + (c - d) = cap, sent = d + x, sent <= c, s1 + f1 = s + f + x + r,
         (left = 0 /\ r = c - sent) \/ (left = c - sent /\ r = 0)
  PROVE  s1 + f1 + left = cap
  OBVIOUS

\* A batch spends the budget it has.
LEMMA BatchKeepsPayouts ==
  ASSUME PayoutInv, NEW k \in Keepers, ContinueDistribution(k)
  PROVE  PaidIsRecorded' /\ TokenBudget' /\ Entitlements'
<1>1. /\ thresholdHit /\ dist # None /\ UNCHANGED <<credited, thresholdHit>>
      /\ ledger' = Settled(Batch) /\ Batch \subseteq Rows(ledger)
      /\ \A u \in Batch : ledger[u] = credited[u]
      /\ dist' # None => dist'.distributed = BatchSent
      /\ BatchSent = Total(Paid', Users) /\ BatchSent <= CommitReturn
      /\ BatchResidual = IF dist' = None THEN CommitReturn - Total(Rewards, Users) ELSE 0
      /\ dist' = None => BatchSent = Total(Rewards, Users)
  BY BatchSettles
<1>2. IInv /\ IInv'
  BY ContinueDistributionPreserves DEF PayoutInv
<1>3. /\ BatchReward \in [Parties -> Nat] /\ BatchSent \in Nat /\ BatchResidual \in Nat
      /\ \A p \in Parties :
           minted'[p] + failed'[p] = minted[p] + failed[p] + BatchReward[p]
                                     + (IF p = Creator THEN BatchResidual ELSE 0)
      /\ supply' + Total(failed', Parties)
           = supply + Total(failed, Parties) + Total(BatchReward, Batch) + BatchResidual
  BY <1>2, BatchBook
<1>4. PaidIsRecorded'
  BY <1>1 DEF PaidIsRecorded
<1>5. TokenBudget'
  <2>1. supply + Total(failed, Parties) + (CommitReturn - dist.distributed) = MintCap
    BY <1>1 DEF PayoutInv, TokenBudget, Undistributed
  <2>2. BatchSent = dist.distributed + Total(BatchReward, Batch)
    BY DEF BatchSent
  <2>3. /\ dist.distributed \in Nat /\ Total(BatchReward, Batch) \in Nat
        /\ supply \in Nat /\ Total(failed, Parties) \in Nat
    <3>1. dist \in DistRecord
      BY <1>1, <1>2 DEF IInv, TypeOK, DistributionTypeOK
    <3>2. IsFiniteSet(Batch) /\ Batch \subseteq Parties
      BY <1>1, <1>2, RowsFinite, FS_Subset DEF Parties, Rows
    <3>3. Total(BatchReward, Batch) \in Nat
      BY <1>3, <3>2, TotalType
    <3>4. supply \in Nat /\ failed \in [Parties -> Nat]
      BY <1>2, RewardTypes
    <3>5. Total(failed, Parties) \in Nat
      BY <3>4, PartiesFinite, TotalType
    <3> QED
      BY <3>1, <3>3, <3>4, <3>5 DEF DistRecord
  <2>4. Undistributed' = IF dist' = None THEN 0 ELSE CommitReturn - BatchSent
    BY <1>1 DEF Undistributed
  <2>5. supply' + Total(failed', Parties)
          = supply + Total(failed, Parties) + Total(BatchReward, Batch) + BatchResidual
    BY <1>3
  <2>6. supply' \in Nat /\ Total(failed', Parties) \in Nat
    <3>1. supply' \in Nat /\ failed' \in [Parties -> Nat]
      BY <1>2 DEF IInv, TypeOK, DistributionTypeOK, MoneyTypeOK
    <3> QED
      BY <3>1, PartiesFinite, TotalType
  <2>7. BatchResidual = IF dist' = None THEN CommitReturn - BatchSent ELSE 0
    BY <1>1
  <2>8. CommitReturn \in Nat
    BY SizesAssumption
  <2>9. supply' + Total(failed', Parties) + Undistributed' = MintCap
    <3>1. \/ Undistributed' = 0 /\ BatchResidual = CommitReturn - BatchSent
          \/ Undistributed' = CommitReturn - BatchSent /\ BatchResidual = 0
      BY <2>4, <2>7
    <3>2. BatchSent \in Nat /\ BatchSent <= CommitReturn /\ BatchResidual \in Nat
      BY <1>1, <1>3
    <3> QED
      BY <2>1, <2>2, <2>3, <2>5, <2>6, <2>8, <3>1, <3>2, BudgetMoves
  <2> QED
    BY <1>1, <2>9 DEF TokenBudget
<1>6. Entitlements'
  <2> SUFFICES ASSUME NEW p \in Parties
               PROVE  Granted(p)' = (IF p \in Users /\ thresholdHit' /\ ledger'[p] = 0
                                     THEN Reward(credited'[p]) ELSE 0)
                                  + (IF p = Creator /\ thresholdHit' /\ dist' = None
                                     THEN RoundingResidue' ELSE 0)
    BY DEF Entitlements
  <2>1. Granted(p) = IF p \in Users /\ ledger[p] = 0 THEN Reward(credited[p]) ELSE 0
    <3>1. Granted(p) = (IF p \in Users /\ ledger[p] = 0 THEN Reward(credited[p]) ELSE 0) + 0
      BY <1>1 DEF PayoutInv, Entitlements
    <3>2. (IF p \in Users /\ ledger[p] = 0 THEN Reward(credited[p]) ELSE 0) \in Nat
      BY <1>2, RewardTypes, RewardBounds
    <3> QED
      BY <3>1, <3>2
  <2>2. minted[p] \in Nat /\ failed[p] \in Nat /\ minted'[p] + failed'[p] = Granted(p)'
        /\ Granted(p) = minted[p] + failed[p]
    BY <1>2, RewardTypes DEF Granted
  <2>3. BatchReward[p] = IF p \in Batch THEN Reward(ledger[p]) ELSE 0
    BY DEF BatchReward
  <2>4. RoundingResidue' = CommitReturn - Total(Rewards, Users)
    BY <1>1 DEF RoundingResidue, Rewards
  <2>5. p \in Users => ledger'[p] = IF p \in Batch THEN 0 ELSE ledger[p]
    BY <1>1 DEF Settled
  <2>6. p \in Batch => p \in Users /\ ledger[p] > 0 /\ ledger[p] = credited[p]
    BY <1>1 DEF Rows
  <2>7. Granted(p)' = Granted(p) + BatchReward[p]
                      + (IF p = Creator THEN BatchResidual ELSE 0)
    BY <1>3, <2>2
  <2>8. BatchReward[p] \in Nat /\ Granted(p) \in Nat
        /\ (p \in Users => Reward(credited[p]) \in Nat /\ ledger[p] \in Nat)
    BY <1>2, <1>3, <2>2, RewardTypes, RewardBounds
  <2>9. Granted(p) + BatchReward[p]
          = IF p \in Users /\ ledger'[p] = 0 THEN Reward(credited'[p]) ELSE 0
    <3>1. CASE p \in Batch
      BY <1>1, <2>1, <2>3, <2>5, <2>6, <2>8, <3>1
    <3>2. CASE p \notin Batch
      BY <1>1, <2>1, <2>3, <2>5, <2>8, <3>2
    <3> QED
      BY <3>1, <3>2
  <2> QED
    BY <1>1, <2>4, <2>7, <2>9
<1> QED
  BY <1>4, <1>5, <1>6

\* The crossing mints everything but the committers' share, of which nothing
\* is paid yet.
LEMMA CrossOpensPayouts ==
  ASSUME PayoutInv, NEW u \in Users, NEW usd \in 1 .. Target, NEW seed, Cross(u, usd, seed)
  PROVE  /\ dist' # None /\ ledger' = credited' /\ UNCHANGED <<minted, failed, drained>>
         /\ PaidIsRecorded' /\ TokenBudget' /\ Entitlements'
<1>1. /\ ~thresholdHit /\ thresholdHit' = TRUE /\ dist = None
      /\ ledger' = [ledger EXCEPT ![u] = @ + usd]
      /\ credited' = [credited EXCEPT ![u] = @ + usd]
      /\ supply' = supply + CreatorReward + BluechipReward + PoolSeed
      /\ UNCHANGED <<minted, failed, drained>>
  BY DEF Cross, PayoutInv, IInv, Phases, adminVars
<1>2. /\ ledger = credited /\ credited \in [Users -> Nat] /\ supply = 0
      /\ Total(failed, Parties) = 0
      /\ minted \in [Parties -> Nat] /\ failed \in [Parties -> Nat]
  BY <1>1, RewardTypes DEF PayoutInv, CommitsAccounted, TokenBudget
<1>3. ledger' = credited' /\ credited' \in [Users -> Nat] /\ ledger'[u] > 0
  BY <1>1, <1>2
<1>4. Rows(ledger') # {}
  BY <1>3 DEF Rows
<1>5. dist' = [active |-> TRUE, cursor |-> 0, remaining |-> Cardinality(Rows(ledger')),
               stalled |-> 0, distributed |-> 0]
  BY <1>1, <1>4 DEF Cross
<1>6. dist' # None /\ dist'.distributed = 0
  <2>1. Cardinality(Rows(ledger')) \in Nat
    BY RowsFinite, FS_CardinalityType
  <2>2. dist' \in DistRecord
    BY <1>5, <2>1 DEF DistRecord
  <2> QED
    BY <1>5, <2>2, NoneAssumption
<1>7. Total(Paid', Users) = 0
  <2>1. \A v \in Users : Paid'[v] = 0
    BY <1>3, RewardBounds DEF Paid
  <2> QED
    BY <2>1, TotalZero
<1>8. PaidIsRecorded'
  BY <1>6, <1>7 DEF PaidIsRecorded
<1>9. TokenBudget'
  <2>1. Undistributed' = CommitReturn
    BY <1>6, SizesAssumption DEF Undistributed
  <2>2. Total(failed', Parties) = 0
    BY <1>1, <1>2
  <2> QED
    BY <1>1, <1>2, <2>1, <2>2, SizesAssumption DEF TokenBudget, MintCap
<1>10. Entitlements'
  <2> SUFFICES ASSUME NEW p \in Parties
               PROVE  Granted(p)' = (IF p \in Users /\ thresholdHit' /\ ledger'[p] = 0
                                     THEN Reward(credited'[p]) ELSE 0)
                                  + (IF p = Creator /\ thresholdHit' /\ dist' = None
                                     THEN RoundingResidue' ELSE 0)
    BY DEF Entitlements
  <2>1. Granted(p) = 0
    BY <1>1 DEF PayoutInv, Entitlements
  <2>2. Granted(p)' = 0
    BY <1>1, <2>1 DEF Granted
  <2>3. (IF p \in Users /\ thresholdHit' /\ ledger'[p] = 0 THEN Reward(credited'[p]) ELSE 0) = 0
    BY <1>3, RewardBounds
  <2> QED
    BY <1>6, <2>2, <2>3
<1> QED
  BY <1>1, <1>3, <1>6, <1>8, <1>9, <1>10

\* A claim mints what was set aside.
LEMMA ClaimKeepsPayouts ==
  ASSUME PayoutInv, NEW p \in Parties, ClaimFailedDistribution(p)
  PROVE  PaidIsRecorded' /\ TokenBudget' /\ Entitlements'
<1>1. /\ UNCHANGED <<ledger, credited, thresholdHit, dist>>
      /\ failed[p] > 0
      /\ failed' = [failed EXCEPT ![p] = 0]
      /\ minted' = [minted EXCEPT ![p] = @ + failed[p]]
      /\ supply' = supply + failed[p]
  BY DEF ClaimFailedDistribution, commitVars
<1>2. /\ failed \in [Parties -> Nat] /\ minted \in [Parties -> Nat] /\ supply \in Nat
      /\ failed' \in [Parties -> Nat]
  BY <1>1, RewardTypes DEF PayoutInv
<1>3. Total(failed, Parties) = Total(failed', Parties) + failed[p]
  <2>1. /\ \A q \in Parties : failed'[q] \in Nat
        /\ \A q \in Parties : failed[q] = IF q = p THEN failed'[q] + failed[p] ELSE failed'[q]
        /\ failed[p] \in Nat
    BY <1>1, <1>2
  <2> QED
    BY <2>1, PartiesFinite, TotalAdd
<1>4. Total(failed', Parties) \in Nat
  BY <1>2, PartiesFinite, TotalType
<1>5. thresholdHit
  BY <1>1, <1>2, <1>3, <1>4 DEF PayoutInv, TokenBudget
<1>6. PaidIsRecorded'
  BY <1>1 DEF PayoutInv, PaidIsRecorded, Paid
<1>7. TokenBudget'
  <2>1. Undistributed' = Undistributed
    BY <1>1 DEF Undistributed
  <2>2. supply' + Total(failed', Parties) = supply + Total(failed, Parties)
    BY <1>1, <1>2, <1>3, <1>4
  <2>3. supply + Total(failed, Parties) + Undistributed = MintCap
    BY <1>5 DEF PayoutInv, TokenBudget
  <2>4. supply' + Total(failed', Parties) + Undistributed' = MintCap
    BY <2>1, <2>2, <2>3
  <2> QED
    BY <1>1, <1>5, <2>4 DEF TokenBudget
<1>8. \A q \in Parties : Granted(q)' = Granted(q)
  BY <1>1, <1>2 DEF Granted
<1>9. Entitlements'
  BY <1>1, <1>8 DEF PayoutInv, Entitlements, RoundingResidue
<1> QED
  BY <1>6, <1>7, <1>9

\* A step after which the rows, what was granted and the record are as before.
PayoutsKept ==
  /\ UNCHANGED <<ledger, credited, thresholdHit, minted, failed, supply>>
  /\ dist' = None <=> dist = None
  /\ dist # None => dist'.distributed = dist.distributed

LEMMA KeptKeepsPayouts ==
  ASSUME PayoutInv, PayoutsKept
  PROVE  PaidIsRecorded' /\ TokenBudget' /\ Entitlements'
<1> USE DEF PayoutsKept
<1>1. PaidIsRecorded'
  BY DEF PayoutInv, PaidIsRecorded, Paid
<1>2. Undistributed' = Undistributed
  BY DEF Undistributed
<1>3. TokenBudget'
  BY <1>2 DEF PayoutInv, TokenBudget
<1>4. \A q \in Parties : Granted(q)' = Granted(q)
  BY DEF Granted
<1>5. RoundingResidue' = RoundingResidue
  BY DEF RoundingResidue
<1>6. Entitlements'
  BY <1>4, <1>5 DEF PayoutInv, Entitlements
<1> QED
  BY <1>1, <1>3, <1>6

\* A funding commit grants nothing.
LEMMA FundingKeepsPayouts ==
  ASSUME PayoutInv, NEW u \in Users, NEW amount \in Amounts, NEW rate \in Rates,
         CommitFunding(u, amount, rate)
  PROVE  PaidIsRecorded' /\ TokenBudget' /\ Entitlements'
<1>1. /\ ~thresholdHit /\ UNCHANGED <<thresholdHit, dist, failed, minted, supply>>
  BY DEF CommitFunding, distVars
<1>2. dist = None
  BY <1>1 DEF PayoutInv, IInv, Phases
<1>3. PaidIsRecorded' /\ TokenBudget'
  BY <1>1, <1>2 DEF PaidIsRecorded, PayoutInv, TokenBudget
<1>4. Entitlements'
  <2>1. \A p \in Parties : Granted(p)' = 0
    BY <1>1 DEF PayoutInv, Entitlements, Granted
  <2> QED
    BY <1>1, <2>1 DEF Entitlements
<1> QED
  BY <1>3, <1>4

\* A restart finds rows and keeps the record.
LEMMA RestartKeepsPayouts ==
  ASSUME PayoutInv, NEW window, Restart(window)
  PROVE  PayoutsKept /\ UNCHANGED drained
<1>1. /\ ~drained /\ dist # None /\ dist' = Restarted
      /\ UNCHANGED <<ledger, credited, thresholdHit, minted, failed, supply, drained>>
  BY DEF Restart, NotDrained, commitVars, adminVars, tokenVars
<1>2. thresholdHit /\ dist \in DistRecord
  BY <1>1 DEF PayoutInv, IInv, Phases, TypeOK, DistributionTypeOK
<1>3. Rows(ledger) # {}
  BY <1>1, <1>2 DEF PayoutInv, NoCommitterSkipped
<1>4. Cardinality(Rows(ledger)) \in Nat
  BY RowsFinite, FS_CardinalityType
<1>5. dist' \in DistRecord /\ dist'.distributed = dist.distributed
  BY <1>1, <1>2, <1>3, <1>4 DEF Restarted, DistRecord
<1> QED
  BY <1>1, <1>5, NoneAssumption DEF PayoutsKept

\* The steps that move what is granted; every other one keeps it, and only a
\* drain marks the pool as drained.
LEMMA PayoutSteps ==
  ASSUME PayoutInv, [Next]_vars
  PROVE  \/ \E u \in Users, amount \in Amounts, rate \in Rates : CommitFunding(u, amount, rate)
         \/ \E u \in Users, usd \in 1 .. Target : \E seed : Cross(u, usd, seed)
         \/ \E k \in Keepers : ContinueDistribution(k)
         \/ \E p \in Parties : ClaimFailedDistribution(p)
         \/ PayoutsKept /\ UNCHANGED drained
         \/ PayoutsKept /\ thresholdHit /\ ~drained /\ drained'
<1> DEFINE Quiet == PayoutsKept /\ UNCHANGED drained
<1> USE DEF commitVars, distVars, adminVars, tokenVars
<1>0. ASSUME UNCHANGED <<ledger, credited, thresholdHit, minted, failed, supply, dist, drained>>
      PROVE  Quiet
  BY <1>0 DEF PayoutsKept
<1>1. ASSUME NEW u \in Users, NEW amount \in Amounts, NEW rate \in Rates,
             CommitHitExact(u, amount, rate) \/ CommitCrossing(u, amount, rate)
      PROVE  \E usd \in 1 .. Target : \E seed : Cross(u, usd, seed)
  BY <1>1, CrossingCounts DEF PayoutInv, CommitsInv
<1>2. ASSUME NEW u \in Users, NEW amount \in Amounts, NEW rate \in Rates,
             CommitTrading(u, amount, rate)
      PROVE  Quiet
  BY <1>0, <1>2 DEF CommitTrading, Trade
<1>3. ASSUME NEW u \in Users, NEW side \in {0, 1}, NEW amount \in Amounts,
             Swap(u, side, amount)
      PROVE  Quiet
  BY <1>0, <1>3 DEF Swap, Trade
<1>4. ASSUME RecoverStuckDistribution \/ SelfRecoverDistribution PROVE Quiet
  BY <1>4, RestartKeepsPayouts DEF RecoverStuckDistribution, SelfRecoverDistribution
<1>5. ASSUME \/ Pause \/ Unpause \/ EmergencyInitiate \/ CancelEmergencyWithdraw
             \/ RetryFactoryNotify \/ ClaimCreatorExcess \/ UNCHANGED vars
      PROVE  Quiet
  BY <1>0, <1>5 DEF Pause, Unpause, EmergencyInitiate, CancelEmergencyWithdraw,
              RetryFactoryNotify, ClaimCreatorExcess, vars
<1>6. dist # None => dist \in DistRecord
  BY DEF PayoutInv, IInv, TypeOK, DistributionTypeOK
<1>7. ASSUME EmergencyDrain PROVE PayoutsKept /\ thresholdHit /\ ~drained /\ drained'
  <2>1. /\ UNCHANGED <<ledger, credited, thresholdHit, minted, failed, supply>>
        /\ thresholdHit /\ ~drained /\ drained'
        /\ dist' = IF dist = None THEN None
                   ELSE [dist EXCEPT !.active = FALSE, !.remaining = 0]
    BY <1>7 DEF EmergencyDrain, NotDrained, Withdrawable
  <2>2. dist # None => dist' \in DistRecord /\ dist'.distributed = dist.distributed
    BY <1>6, <2>1 DEF DistRecord
  <2> QED
    BY <2>1, <2>2, NoneAssumption DEF PayoutsKept
<1>8. ASSUME NEW dt \in TimeSteps, NextBlock(dt) PROVE Quiet
  <2>1. /\ UNCHANGED <<ledger, credited, thresholdHit, minted, failed, supply, drained>>
        /\ dist' = IF dist = None THEN None
                   ELSE [dist EXCEPT !.stalled = Least(@ + dt, StallCap)]
    BY <1>8 DEF NextBlock
  <2>2. dist # None => dist' \in DistRecord /\ dist'.distributed = dist.distributed
    <3>1. ASSUME dist # None PROVE Least(dist.stalled + dt, StallCap) \in Nat
      BY <1>6, <3>1, StallCapType, WindowsAssumption DEF Least, DistRecord
    <3> QED
      BY <1>6, <2>1, <3>1 DEF DistRecord
  <2> QED
    BY <2>1, <2>2, NoneAssumption DEF PayoutsKept
<1> HIDE DEF Quiet
<1>9. \/ \E u \in Users, amount \in Amounts, rate \in Rates : CommitFunding(u, amount, rate)
      \/ \E u \in Users, usd \in 1 .. Target : \E seed : Cross(u, usd, seed)
      \/ \E k \in Keepers : ContinueDistribution(k)
      \/ \E p \in Parties : ClaimFailedDistribution(p)
      \/ Quiet
      \/ PayoutsKept /\ thresholdHit /\ ~drained /\ drained'
  BY <1>1, <1>2, <1>3, <1>4, <1>5, <1>7, <1>8, Zenon DEF Next
<1> QED
  BY <1>9 DEF Quiet

THEOREM PayoutsInductive == PayoutInv /\ [Next]_vars => PayoutInv'
<1> SUFFICES ASSUME PayoutInv, [Next]_vars PROVE PayoutInv'
  OBVIOUS
<1>1. IInv' /\ CommitsAccounted' /\ NoCommitterSkipped'
  BY Inductive, CommitsInductive, RowsInductive DEF PayoutInv, CommitsInv
<1>2. PaidIsRecorded' /\ TokenBudget' /\ Entitlements'
  BY PayoutSteps, FundingKeepsPayouts, CrossOpensPayouts, BatchKeepsPayouts,
     ClaimKeepsPayouts, KeptKeepsPayouts
<1> QED
  BY <1>1, <1>2 DEF PayoutInv

\* The account of the payouts holds from instantiation on: what was promised,
\* paid, set aside and still to be paid agree, for any parameters.
THEOREM PayoutsInvariant == Spec => []PayoutInv
<1>1. Init => PaidIsRecorded /\ TokenBudget /\ Entitlements
  <2> SUFFICES ASSUME Init PROVE PaidIsRecorded /\ TokenBudget /\ Entitlements
    OBVIOUS
  <2>1. /\ dist = None /\ ~thresholdHit /\ supply = 0
        /\ failed = [p \in Parties |-> 0] /\ minted = [p \in Parties |-> 0]
    BY Zenon DEF Init
  <2>2. Total(failed, Parties) = 0
    BY <2>1, TotalZero
  <2>3. \A p \in Parties : Granted(p) = 0
    BY <2>1 DEF Granted
  <2> QED
    BY <2>1, <2>2, <2>3 DEF PaidIsRecorded, TokenBudget, Entitlements
<1>2. Init => PayoutInv
  <2>1. Init => NoCommitterSkipped
    BY Zenon DEF Init, NoCommitterSkipped
  <2> QED
    BY <1>1, <2>1, InitCommits, InitInvariant DEF PayoutInv
<1> QED
  BY <1>2, PayoutsInductive, PTL DEF Spec

\* A token is minted once or owed once: minted, owed and still to be sent add
\* up to the cap, for any committers, amounts, rewards and order of calls.
THEOREM BudgetHolds == Spec => []TokenBudget
<1>1. PayoutInv => TokenBudget
  BY DEF PayoutInv
<1> QED
  BY <1>1, PayoutsInvariant, PTL

\* Each committer is granted the reward of everything it committed, once, and
\* the creator what rounding leaves, once.
THEOREM EntitlementsHold == Spec => []Entitlements
<1>1. PayoutInv => Entitlements
  BY DEF PayoutInv
<1> QED
  BY <1>1, PayoutsInvariant, PTL

-----------------------------------------------------------------------------
(* The promise to the committers: CreatorPool implements CommitterPayouts. *)

\* The state of CommitterPayouts that a pool stands for.
Phase ==
  IF drained THEN "halted"
  ELSE IF ~thresholdHit THEN "funding"
  ELSE IF dist = None THEN "paid" ELSE "paying"
Served == {u \in Users : thresholdHit /\ credited[u] > 0 /\ ledger[u] = 0}

\* The operators of CommitterPayouts, in the terms of the pool.
LEMMA PayoutTerms ==
  /\ Payouts!Parties = Parties
  /\ Payouts!Total(credited, Users) = Total(credited, Users)
  /\ \A u \in Users : Payouts!Share(u) = Reward(credited[u])
  /\ Payouts!Stakers = {u \in Users : credited[u] > 0}
  /\ Payouts!Residue = CommitReturn - Total(Rewards, Users)
<1>1. ASSUME NEW f, NEW S PROVE Payouts!Total(f, S) = Total(f, S)
  <2>1. Payouts!Units(f, S) = Units(f, S)
    BY DEF Payouts!Units, Units
  <2>2. ASSUME NEW X PROVE Payouts!Cardinality(X) = Cardinality(X)
    BY DEF Payouts!Cardinality, Cardinality, Payouts!IsFiniteSet, IsFiniteSet
  <2> QED
    BY <2>1, <2>2 DEF Payouts!Total, Total
<1>2. \A u \in Users : Payouts!Share(u) = Reward(credited[u])
  BY DEF Payouts!Share, Reward
<1>3. [u \in Users |-> Payouts!Share(u)] = Rewards
  BY <1>2 DEF Rewards
<1>4. Payouts!Residue = CommitReturn - Payouts!Total(Rewards, Users)
  BY <1>3 DEF Payouts!Residue
<1>5. Payouts!Parties = Parties /\ Payouts!Stakers = {u \in Users : credited[u] > 0}
  BY DEF Payouts!Parties, Parties, Payouts!Stakers
<1> QED
  BY <1>1, <1>2, <1>4, <1>5

\* While rows remain, a batch takes at least the first.
LEMMA BatchTakesSome ==
  ASSUME Rows(ledger) # {}, \A u \in Rows(ledger) : u > dist.cursor
  PROVE  Batch # {}
<1> DEFINE below(u) == {v \in Rows(ledger) : v < u}
<1>1. Rows(ledger) \subseteq Nat /\ IsFiniteSet(Rows(ledger))
  BY RowsFinite, UsersAssumption
<1>2. PICK m \in Rows(ledger) : \A u \in Rows(ledger) : u <= m
  BY <1>1, GreatestElement
<1> DEFINE back == {m - u : u \in Rows(ledger)}
           turn == [u \in Rows(ledger) |-> m - u]
<1>3. back \subseteq Nat /\ back # {}
  BY <1>1, <1>2
<1>4. IsFiniteSet(back)
  <2>1. turn \in Surjection(Rows(ledger), back)
    BY DEF Surjection
  <2> HIDE DEF back, turn
  <2> QED
    BY <1>1, <2>1, FS_Surjection
<1>5. PICK x \in back : \A y \in back : y <= x
  <2> HIDE DEF back
  <2> QED
    BY <1>3, <1>4, GreatestElement
<1>6. PICK u \in Rows(ledger) : x = m - u
  BY <1>5
<1>7. below(u) = {}
  <2> SUFFICES ASSUME NEW v \in Rows(ledger), v < u PROVE FALSE
    OBVIOUS
  <2>1. m - v <= m - u
    BY <1>5, <1>6
  <2> QED
    BY <1>1, <1>2, <2>1
<1>8. Cardinality(below(u)) = 0
  BY <1>7, FS_EmptySet
<1>9. {v \in Rows(ledger) : v > dist.cursor} = Rows(ledger)
  OBVIOUS
<1>10. Batch = {v \in Rows(ledger) : Cardinality(below(v)) < BatchSize}
  BY <1>9 DEF Batch
<1> HIDE DEF below
<1> QED
  BY <1>8, <1>10, SizesAssumption

\* A commit of the funding phase, the last one included.
LEMMA CommitsFund ==
  ASSUME PayoutInv, PayoutInv', ~thresholdHit, NEW u \in Users, NEW usd \in 1 .. Target,
         ledger' = [ledger EXCEPT ![u] = @ + usd],
         credited' = [credited EXCEPT ![u] = @ + usd],
         UNCHANGED <<minted, failed, drained>>,
         thresholdHit' => dist' # None
  PROVE  Payouts!Fund(u, usd)
<1>1. ~drained /\ ledger = credited /\ credited \in [Users -> Nat]
  BY RewardTypes DEF PayoutInv, IInv, Phases, CommitsAccounted
<1>2. Total(credited', Users) = Total(credited, Users) + usd
  <2>1. usd \in Nat /\ IsFiniteSet(Users)
    BY UsersAssumption
  <2>2. Total([credited EXCEPT ![u] = @ + usd], Users) = Total(credited, Users) + usd
    BY <1>1, <2>1, TotalExcept
  <2> QED
    BY <2>2
<1>3. Total(credited', Users) = usdRaised' /\ usdRaised' <= Target
      /\ (thresholdHit' <=> usdRaised' = Target)
  BY DEF PayoutInv, CommitsAccounted
<1>4. Payouts!Total(credited, Users) + usd = usdRaised'
  BY <1>2, <1>3, PayoutTerms
<1>5. ledger' = credited'
  BY <1>1
<1>6. Served = {} /\ Served' = {}
  <2>1. ledger' = credited' /\ credited' \in [Users -> Nat]
    BY <1>1
  <2> QED
    BY <2>1 DEF Served
<1>7. Phase = "funding" /\ Phase' = IF usdRaised' = Target THEN "paying" ELSE "funding"
  BY <1>1, <1>3 DEF Phase
<1> QED
  BY <1>3, <1>4, <1>6, <1>7 DEF Payouts!Fund, Phase, Served

\* A batch is a payment of the rows it takes.
LEMMA BatchPays ==
  ASSUME PayoutInv, PayoutInv', NEW k \in Keepers, ContinueDistribution(k)
  PROVE  \E batch \in SUBSET (Payouts!Stakers \ Served) : Payouts!Pay(batch)
<1>1. /\ thresholdHit /\ ~drained /\ dist # None
      /\ UNCHANGED <<credited, thresholdHit, drained>>
      /\ ledger' = Settled(Batch)
      /\ Batch \subseteq Rows(ledger) /\ Rows(ledger') = Rows(ledger) \ Batch
      /\ \A u \in Batch : ledger[u] = credited[u]
      /\ dist' = None <=> Rows(ledger') = {}
      /\ BatchResidual = IF dist' = None THEN CommitReturn - Total(Rewards, Users) ELSE 0
  BY BatchSettles
<1>2. /\ credited \in [Users -> Nat] /\ ledger \in [Users -> Nat]
      /\ minted \in [Parties -> Nat] /\ failed \in [Parties -> Nat]
      /\ minted' \in [Parties -> Nat] /\ failed' \in [Parties -> Nat]
  BY RewardTypes DEF PayoutInv, IInv, TypeOK, DistributionTypeOK
<1>3. /\ BatchReward \in [Parties -> Nat] /\ BatchResidual \in Nat
      /\ \A p \in Parties :
           /\ minted'[p] >= minted[p] /\ failed'[p] >= failed[p]
           /\ minted'[p] + failed'[p] = minted[p] + failed[p] + BatchReward[p]
                                        + (IF p = Creator THEN BatchResidual ELSE 0)
  BY BatchBook DEF PayoutInv
<1>4. \A u \in Users : ledger[u] \in {0, credited[u]}
  BY DEF PayoutInv, CommitsAccounted
<1>5. Payouts!Stakers \ Served = Rows(ledger)
  BY <1>1, <1>2, <1>4, PayoutTerms DEF Served, Rows
<1>6. Batch # {}
  <2>1. Rows(ledger) # {} /\ \A u \in Rows(ledger) : u > dist.cursor
    BY <1>1 DEF PayoutInv, NoCommitterSkipped
  <2> QED
    BY <2>1, BatchTakesSome
<1>7. Served' = Served \cup Batch
  <2>1. \A u \in Users : ledger'[u] = IF u \in Batch THEN 0 ELSE ledger[u]
    BY <1>1 DEF Settled
  <2>2. \A u \in Batch : u \in Users /\ credited[u] > 0
    BY <1>1 DEF Rows
  <2> QED
    BY <1>1, <2>1, <2>2 DEF Served
<1> DEFINE last == Batch = Payouts!Stakers \ Served
           due(p) == (IF p \in Batch THEN Payouts!Share(p) ELSE 0)
                     + (IF p = Creator /\ last THEN Payouts!Residue ELSE 0)
<1>8. last <=> dist' = None
  BY <1>1, <1>5
<1>9. Phase = "paying" /\ Phase' = IF last THEN "paid" ELSE "paying"
  BY <1>1, <1>8 DEF Phase
<1>10. ASSUME NEW p \in Parties
       PROVE  minted'[p] + failed'[p] = minted[p] + failed[p] + due(p)
  <2>1. p \in Batch => p \in Users /\ Payouts!Share(p) = Reward(ledger[p])
    BY <1>1, PayoutTerms DEF Rows
  <2>2. BatchReward[p] = IF p \in Batch THEN Payouts!Share(p) ELSE 0
    BY <2>1 DEF BatchReward
  <2>3. (IF p = Creator THEN BatchResidual ELSE 0)
          = IF p = Creator /\ last THEN Payouts!Residue ELSE 0
    BY <1>1, <1>8, PayoutTerms
  <2> HIDE DEF last
  <2>4. /\ minted[p] \in Nat /\ failed[p] \in Nat /\ BatchReward[p] \in Nat
        /\ (IF p = Creator THEN BatchResidual ELSE 0) \in Nat
    BY <1>2, <1>3
  <2>5. due(p) = BatchReward[p] + (IF p = Creator THEN BatchResidual ELSE 0)
    BY <2>2, <2>3
  <2> HIDE DEF due
  <2> QED
    BY <1>3, <2>4, <2>5
<1>11. PICK batch : batch = Batch
  OBVIOUS
<1>12. Payouts!Pay(batch)
  BY <1>1, <1>2, <1>3, <1>5, <1>6, <1>7, <1>9, <1>10, <1>11, PayoutTerms
     DEF Payouts!Pay, Phase, Served
<1>13. batch \in SUBSET (Payouts!Stakers \ Served)
  BY <1>1, <1>5, <1>11
<1> QED
  BY <1>12, <1>13, Zenon

LEMMA ClaimClaims ==
  ASSUME NEW p \in Parties, ClaimFailedDistribution(p)
  PROVE  Payouts!Claim(p)
<1>1. /\ ~drained /\ UNCHANGED <<ledger, credited, thresholdHit, dist, drained>>
      /\ failed[p] > 0
      /\ failed' = [failed EXCEPT ![p] = 0]
      /\ minted' = [minted EXCEPT ![p] = @ + failed[p]]
  BY DEF ClaimFailedDistribution, NotDrained, commitVars, adminVars
<1>2. Phase # "halted" /\ Phase' = Phase /\ Served' = Served
  BY <1>1 DEF Phase, Served
<1> QED
  BY <1>1, <1>2 DEF Payouts!Claim, Phase, Served

\* What keeps the payouts is nothing to the committers, or the drain's halt.
LEMMA QuietOrHalt ==
  ASSUME PayoutsKept,
         UNCHANGED drained \/ (thresholdHit /\ ~drained /\ drained')
  PROVE  Payouts!Halt \/ UNCHANGED Payouts!vars
<1>1. Served' = Served /\ UNCHANGED <<credited, minted, failed>>
  BY DEF PayoutsKept, Served
<1>2. CASE UNCHANGED drained
  <2>1. Phase' = Phase
    BY <1>2 DEF PayoutsKept, Phase
  <2> QED
    BY <1>1, <2>1 DEF Payouts!vars, Phase, Served
<1>3. CASE thresholdHit /\ ~drained /\ drained'
  <2>1. Phase \in {"paying", "paid"} /\ Phase' = "halted"
    BY <1>3 DEF Phase
  <2> QED
    BY <1>1, <2>1 DEF Payouts!Halt, Phase, Served
<1> QED
  BY <1>2, <1>3

LEMMA PayoutsStep ==
  ASSUME PayoutInv, PayoutInv', [Next]_vars
  PROVE  [Payouts!Next]_Payouts!vars
<1>1. ASSUME NEW u \in Users, NEW amount \in Amounts, NEW rate \in Rates,
             CommitFunding(u, amount, rate)
      PROVE  \E n \in 1 .. Target : Payouts!Fund(u, n)
  <2> DEFINE usd == UsdValue(amount, rate)
  <2>1. usd \in Nat
    BY ConversionTypes, AmountsAssumption
  <2>2. /\ ~thresholdHit /\ ~thresholdHit'
        /\ usdRaised + usd < Target /\ usd > 0
        /\ ledger' = [ledger EXCEPT ![u] = @ + usd]
        /\ credited' = [credited EXCEPT ![u] = @ + usd]
        /\ UNCHANGED <<minted, failed, drained>>
    BY <1>1 DEF CommitFunding, CommitAdmitted, distVars, adminVars
  <2> HIDE DEF usd
  <2>3. usdRaised \in Nat
    BY DEF PayoutInv, IInv, TypeOK, MoneyTypeOK
  <2>4. usd \in 1 .. Target
    BY <2>1, <2>2, <2>3, SizesAssumption
  <2> QED
    BY <2>2, <2>4, CommitsFund
<1>2. ASSUME NEW u \in Users, NEW usd \in 1 .. Target, \E seed : Cross(u, usd, seed)
      PROVE  Payouts!Fund(u, usd)
  <2>1. /\ dist' # None /\ UNCHANGED <<minted, failed, drained>>
    BY <1>2, CrossOpensPayouts
  <2>2. /\ ~thresholdHit
        /\ ledger' = [ledger EXCEPT ![u] = @ + usd]
        /\ credited' = [credited EXCEPT ![u] = @ + usd]
    BY <1>2 DEF Cross
  <2> QED
    BY <2>1, <2>2, CommitsFund
<1>3. CASE \/ \E u \in Users, amount \in Amounts, rate \in Rates : CommitFunding(u, amount, rate)
           \/ \E u \in Users, usd \in 1 .. Target : \E seed : Cross(u, usd, seed)
  <2>1. \E u \in Users, n \in 1 .. Target : Payouts!Fund(u, n)
    BY <1>1, <1>2, <1>3
  <2> QED
    BY <2>1 DEF Payouts!Next
<1>4. CASE \E k \in Keepers : ContinueDistribution(k)
  <2>1. \E batch \in SUBSET (Payouts!Stakers \ Served) : Payouts!Pay(batch)
    BY <1>4, BatchPays
  <2> QED
    BY <2>1 DEF Payouts!Next, Served
<1>5. CASE \E p \in Parties : ClaimFailedDistribution(p)
  <2>1. \E p \in Payouts!Parties : Payouts!Claim(p)
    BY <1>5, ClaimClaims, PayoutTerms
  <2> QED
    BY <2>1 DEF Payouts!Next
<1>6. CASE PayoutsKept /\ (UNCHANGED drained \/ (thresholdHit /\ ~drained /\ drained'))
  BY <1>6, QuietOrHalt DEF Payouts!Next
<1> QED
  BY <1>3, <1>4, <1>5, <1>6, PayoutSteps

LEMMA PayoutsInit == Init => Payouts!Init
<1> SUFFICES ASSUME Init PROVE Payouts!Init
  OBVIOUS
<1>1. /\ ~drained /\ ~thresholdHit /\ credited = [u \in Users |-> 0]
      /\ minted = [p \in Parties |-> 0] /\ failed = [p \in Parties |-> 0]
  BY Zenon DEF Init
<1>2. Phase = "funding" /\ Served = {}
  BY <1>1 DEF Phase, Served
<1> QED
  BY <1>1, <1>2, PayoutTerms DEF Payouts!Init, Phase, Served

\* To its committers a pool is CommitterPayouts: its commits are stakes, its
\* batches payments in full of some that were not served, its claims claims, a
\* drain the halt, and everything else nothing, for any parameters.
THEOREM ImplementsPayouts == Spec => KeepsPayoutPromise
<1>1. PayoutInv /\ PayoutInv' /\ [Next]_vars => [Payouts!Next]_Payouts!vars
  BY PayoutsStep
<1> QED
  BY <1>1, PayoutsInit, PayoutsInvariant, PTL DEF Spec, KeepsPayoutPromise, Payouts!Spec

-----------------------------------------------------------------------------
(* What the keepers see: the pool implements ServedPool. *)

\* Of finitely many naturals those with fewer than b below them are b, or all.
LEMMA FirstOnes ==
  ASSUME NEW R \in SUBSET Nat, IsFiniteSet(R), NEW b \in Nat
  PROVE  Cardinality({u \in R : Cardinality({v \in R : v < u}) < b}) = Least(Cardinality(R), b)
<1> DEFINE below(u) == {v \in R : v < u}
           n    == Cardinality(R)
           rank == [u \in R |-> Cardinality(below(u))]
           first == {u \in R : Cardinality(below(u)) < b}
           m    == Least(n, b)
<1>1. n \in Nat /\ m \in Nat /\ m <= n /\ m <= b /\ (m = n \/ m = b)
  BY FS_CardinalityType DEF Least
<1>2. ASSUME NEW u \in R
      PROVE  /\ IsFiniteSet(below(u)) /\ Cardinality(below(u)) \in Nat
             /\ Cardinality(below(u)) < n
  <2>1. below(u) \in SUBSET R /\ u \notin below(u)
    BY <1>2
  <2> HIDE DEF below
  <2>2. IsFiniteSet(below(u)) /\ Cardinality(below(u)) \in Nat /\ Cardinality(below(u)) <= n
        /\ (n = Cardinality(below(u)) => R = below(u))
    BY <2>1, FS_Subset, FS_CardinalityType
  <2> QED
    BY <1>1, <1>2, <2>1, <2>2
<1>3. ASSUME NEW u \in R, NEW v \in R, u < v
      PROVE  Cardinality(below(u)) < Cardinality(below(v))
  <2>1. below(u) \in SUBSET below(v) /\ u \in below(v) /\ u \notin below(u)
    <3>1. u \in Nat /\ v \in Nat
      OBVIOUS
    <3>2. ASSUME NEW w \in R, w < u PROVE w < v
      <4>1. w \in Nat
        OBVIOUS
      <4> QED
        BY <1>3, <3>1, <3>2, <4>1
    <3>3. below(u) \in SUBSET below(v)
      BY <3>2
    <3>4. u \in below(v)
      BY <1>3
    <3>5. u \notin below(u)
      BY <3>1
    <3> QED
      BY <3>3, <3>4, <3>5
  <2>2. IsFiniteSet(below(v)) /\ Cardinality(below(u)) \in Nat /\ Cardinality(below(v)) \in Nat
    BY <1>2
  <2> HIDE DEF below
  <2>3. Cardinality(below(u)) <= Cardinality(below(v))
        /\ (Cardinality(below(v)) = Cardinality(below(u)) => below(v) = below(u))
    BY <2>1, <2>2, FS_Subset
  <2> QED
    BY <2>1, <2>2, <2>3
<1> HIDE DEF below
<1>4. rank \in Injection(R, 0 .. n - 1)
  <2>1. rank \in [R -> 0 .. n - 1]
    BY <1>1, <1>2
  <2>2. ASSUME NEW u \in R, NEW v \in R, rank[u] = rank[v] PROVE u = v
    <3>1. u \in Nat /\ v \in Nat /\ Cardinality(below(u)) = Cardinality(below(v))
          /\ Cardinality(below(u)) \in Nat
      BY <1>2, <2>2
    <3> QED
      BY <1>3, <3>1
  <2> QED
    BY <2>1, <2>2 DEF Injection, IsInjective
<1>5. IsFiniteSet(0 .. n - 1) /\ Cardinality(0 .. n - 1) = n
  <2>1. 0 \in Int /\ n - 1 \in Int
    BY <1>1
  <2>2. IsFiniteSet(0 .. n - 1)
        /\ Cardinality(0 .. n - 1) = IF 0 > n - 1 THEN 0 ELSE n - 1 - 0 + 1
    BY <2>1, FS_Interval
  <2> QED
    BY <1>1, <2>2
<1>6. rank \in Surjection(R, 0 .. n - 1)
  BY <1>4, <1>5, FS_Injection
<1> DEFINE place == [u \in first |-> rank[u]]
<1>7. first \subseteq R /\ \A u \in R : u \in first <=> rank[u] < b
  OBVIOUS
<1>8. \A u \in first : rank[u] \in 0 .. m - 1
  <2> SUFFICES ASSUME NEW u \in first PROVE rank[u] \in 0 .. m - 1
    OBVIOUS
  <2>1. rank[u] \in 0 .. n - 1 /\ rank[u] < b
    BY <1>4, <1>7 DEF Injection, IsInjective
  <2> QED
    BY <1>1, <2>1
<1>9. \A i \in 0 .. m - 1 : \E u \in first : rank[u] = i
  <2> SUFFICES ASSUME NEW i \in 0 .. m - 1 PROVE \E u \in first : rank[u] = i
    OBVIOUS
  <2>1. i \in 0 .. n - 1 /\ i < b
    BY <1>1
  <2>2. PICK u \in R : rank[u] = i
    BY <1>6, <2>1 DEF Surjection
  <2> QED
    BY <1>7, <2>1, <2>2
<1>10. \A u, v \in first : rank[u] = rank[v] => u = v
  BY <1>4, <1>7 DEF Injection, IsInjective
<1> HIDE DEF first, rank
<1>11. place \in Bijection(first, 0 .. m - 1)
  <2>1. place \in [first -> 0 .. m - 1]
    BY <1>8
  <2>2. \A u, v \in first : place[u] = place[v] => u = v
    BY <1>10
  <2>3. \A i \in 0 .. m - 1 : \E u \in first : place[u] = i
    BY <1>9
  <2> HIDE DEF place
  <2> QED
    BY <2>1, <2>2, <2>3 DEF Bijection, Injection, Surjection, IsInjective
<1>12. IsFiniteSet(first)
  BY <1>7, FS_Subset
<1>13. Cardinality(0 .. m - 1) = Cardinality(first)
  <2>1. ExistsBijection(first, 0 .. m - 1)
    BY <1>11 DEF ExistsBijection
  <2> QED
    BY <1>12, <2>1, FS_Bijection
<1>14. Cardinality(0 .. m - 1) = m
  <2>1. 0 \in Int /\ m - 1 \in Int
    BY <1>1
  <2>2. Cardinality(0 .. m - 1) = IF 0 > m - 1 THEN 0 ELSE m - 1 - 0 + 1
    BY <2>1, FS_Interval
  <2> QED
    BY <1>1, <2>2
<1> QED
  BY <1>13, <1>14 DEF first, below

\* A quotient, by its two inequalities.
LEMMA QuotientIs ==
  ASSUME NEW a \in Nat, NEW b \in Nat \ {0}, NEW q \in Nat, q * b <= a, a < q * b + b
  PROVE  a \div b = q
<1> DEFINE d == a \div b
<1>1. d \in Nat /\ b * d <= a /\ a < b * d + b
  OBVIOUS
<1> HIDE DEF d
<1>2. ~(d < q)
  <2> SUFFICES ASSUME d + 1 <= q PROVE FALSE
    BY <1>1
  <2>1. b * (d + 1) <= b * q
    BY <1>1, ProductMonotone
  <2>2. b * (d + 1) = b * d + b /\ b * q = q * b /\ b * d \in Nat /\ q * b \in Nat
    BY <1>1, Distributes
  <2> QED
    BY <1>1, <2>1, <2>2
<1>3. ~(q < d)
  <2> SUFFICES ASSUME q + 1 <= d PROVE FALSE
    BY <1>1
  <2>1. b * (q + 1) <= b * d
    BY <1>1, ProductMonotone
  <2>2. b * (q + 1) = b * q + b /\ b * q = q * b /\ b * d \in Nat /\ q * b \in Nat
    BY <1>1, Distributes
  <2> QED
    BY <1>1, <2>1, <2>2
<1>4. d = q
  BY <1>1, <1>2, <1>3
<1> QED
  BY <1>4 DEF d

\* The number of batches for n rows, and for those a batch leaves.
LEMMA BatchesFor ==
  ASSUME NEW n \in Nat \ {0}, NEW b \in Nat \ {0}
  PROVE  /\ (n + b - 1) \div b \in Nat \ {0}
         /\ n <= b => (n + b - 1) \div b = 1
         /\ n > b => (n - b + b - 1) \div b = (n + b - 1) \div b - 1
<1> DEFINE q == (n - 1) \div b
<1>1. n - 1 \in Nat /\ n + b - 1 \in Nat /\ n + b - 1 = n - 1 + b
  OBVIOUS
<1>2. q \in Nat /\ b * q <= n - 1 /\ n - 1 < b * q + b
  <2>1. ASSUME NEW a \in Nat
        PROVE  a \div b \in Nat /\ b * (a \div b) <= a /\ a < b * (a \div b) + b
    OBVIOUS
  <2> QED
    BY <1>1, <2>1
<1> HIDE DEF q
<1>3. b * q = q * b /\ (q + 1) * b = q * b + b /\ q * b \in Nat
  BY <1>2, Distributes
<1>4. (n + b - 1) \div b = q + 1
  <2>1. (q + 1) * b <= n + b - 1 /\ n + b - 1 < (q + 1) * b + b /\ q + 1 \in Nat
    BY <1>1, <1>2, <1>3
  <2> QED
    BY <1>1, <2>1, QuotientIs
<1>5. ASSUME n <= b PROVE q = 0
  <2> SUFFICES ASSUME 1 <= q PROVE FALSE
    BY <1>2
  <2>1. b * 1 <= b * q /\ b * 1 = b
    BY <1>2, ProductMonotone
  <2> QED
    BY <1>2, <1>3, <1>5, <2>1
<1>6. ASSUME n > b PROVE (n - b + b - 1) \div b = q
  <2>1. n - b + b - 1 = n - 1
    OBVIOUS
  <2> QED
    BY <2>1 DEF q
<1> QED
  BY <1>2, <1>4, <1>5, <1>6

\* Every batch is full or the last one: it takes BatchSize rows, or all.
LEMMA BatchIsFull ==
  ASSUME \A u \in Rows(ledger) : u > dist.cursor
  PROVE  Cardinality(Batch) = Least(Cardinality(Rows(ledger)), BatchSize)
<1>1. {u \in Rows(ledger) : u > dist.cursor} = Rows(ledger)
  OBVIOUS
<1>2. Batch = {u \in Rows(ledger) : Cardinality({v \in Rows(ledger) : v < u}) < BatchSize}
  BY <1>1 DEF Batch
<1>3. Rows(ledger) \in SUBSET Nat /\ IsFiniteSet(Rows(ledger)) /\ BatchSize \in Nat
  BY RowsFinite, UsersAssumption, SizesAssumption
<1> QED
  BY <1>2, <1>3, FirstOnes

\* A batch that is accepted is one batch fewer to come.
LEMMA BatchServes ==
  ASSUME PayoutInv, NEW k \in Keepers, ContinueDistribution(k)
  PROVE  ToKeepers!Serve
<1>1. /\ thresholdHit /\ ~drained /\ dist # None
      /\ UNCHANGED <<thresholdHit, drained>>
      /\ Batch \subseteq Rows(ledger) /\ Rows(ledger') = Rows(ledger) \ Batch
      /\ dist' = None <=> Rows(ledger') = {}
  BY BatchSettles
<1>2. ~paused /\ dist.stalled <= StallTimeout /\ UNCHANGED <<paused, pendingNotify>>
  BY DEF ContinueDistribution, adminVars, notifyVars
<1>3. dist \in DistRecord /\ Rows(ledger) # {} /\ \A u \in Rows(ledger) : u > dist.cursor
  BY <1>1 DEF PayoutInv, NoCommitterSkipped, IInv, TypeOK, DistributionTypeOK
<1>4. dist' # None => dist'.stalled = 0
  <2>1. \/ dist' = None
        \/ \E c, r, s : dist' = [dist EXCEPT !.active = TRUE, !.cursor = c, !.remaining = r,
                                             !.stalled = 0, !.distributed = s]
    BY DEF ContinueDistribution
  <2> QED
    BY <1>3, <2>1 DEF DistRecord
<1>5. ~Halted /\ ~Halted'
  BY <1>1, <1>2, <1>3, <1>4, WindowsAssumption DEF Halted, DistRecord
<1> DEFINE n == Cardinality(Rows(ledger))
           b == BatchSize
<1>6. n \in Nat \ {0} /\ b \in Nat \ {0} /\ IsFiniteSet(Rows(ledger)) /\ IsFiniteSet(Batch)
  BY <1>1, <1>3, RowsFinite, FS_CardinalityType, FS_EmptySet, FS_Subset, SizesAssumption
<1>7. Cardinality(Rows(ledger')) = n - Least(n, b)
  <2>1. Rows(ledger) \cap Batch = Batch
    BY <1>1
  <2> QED
    BY <1>1, <1>3, <1>6, <2>1, BatchIsFull, FS_Difference
<1>8. BatchesLeft = (n + b - 1) \div b
  BY <1>1 DEF BatchesLeft
<1>9. BatchesLeft' = IF dist' = None THEN 0 ELSE (Cardinality(Rows(ledger')) + b - 1) \div b
  BY DEF BatchesLeft, Rows
<1>10. dist' = None <=> Cardinality(Rows(ledger')) = 0
  BY <1>1, RowsFinite, FS_EmptySet
<1> HIDE DEF n, b
<1>11. BatchesLeft \in Nat \ {0} /\ BatchesLeft' = BatchesLeft - 1
  <2>1. CASE n <= b
    <3>1. Cardinality(Rows(ledger')) = 0
      BY <1>6, <1>7, <2>1 DEF Least
    <3> QED
      BY <1>6, <1>8, <1>9, <1>10, <2>1, <3>1, BatchesFor
  <2>2. CASE n > b
    <3>1. Cardinality(Rows(ledger')) = n - b /\ n - b # 0
      BY <1>6, <1>7, <2>2 DEF Least
    <3>2. BatchesLeft' = (n - b + b - 1) \div b
      BY <1>9, <1>10, <3>1
    <3>3. (n - b + b - 1) \div b = (n + b - 1) \div b - 1 /\ (n + b - 1) \div b \in Nat \ {0}
      BY <1>6, <2>2, BatchesFor
    <3> QED
      BY <1>8, <3>2, <3>3
  <2> QED
    BY <1>6, <2>1, <2>2
<1> QED
  <2>1. BatchesLeft > 0
    BY <1>11
  <2>2. Halted = FALSE /\ Halted' = FALSE
    <3>1. Halted \in BOOLEAN /\ Halted' \in BOOLEAN
      BY Zenon DEF Halted
    <3> QED
      BY <1>5, <3>1, Zenon
  <2> QED
    BY <1>1, <1>2, <1>5, <1>11, <2>1, <2>2 DEF ToKeepers!Serve

\* The crossing opens a distribution with rows, and so with batches.
LEMMA CrossingCrosses ==
  ASSUME PayoutInv, NEW u \in Users, NEW usd \in 1 .. Target, NEW seed, Cross(u, usd, seed)
  PROVE  ToKeepers!Cross
<1>1. /\ ~thresholdHit /\ thresholdHit' = TRUE /\ dist = None
      /\ pendingNotify' \in BOOLEAN /\ UNCHANGED <<paused, drained>>
  BY DEF Cross, InitialNotify, PayoutInv, IInv, Phases, TypeOK, ControlTypeOK, adminVars
<1>2. dist' # None
  BY CrossOpensPayouts
<1>3. dist' = [active |-> TRUE, cursor |-> 0, remaining |-> Cardinality(Rows(ledger')),
               stalled |-> 0, distributed |-> 0]
      /\ Rows(ledger') # {}
  BY <1>1, <1>2 DEF Cross
<1>4. dist'.stalled = 0
  BY <1>3
<1>5. Halted' = Halted
  BY <1>1, <1>4, WindowsAssumption DEF Halted
<1>6. BatchesLeft' \in Nat \ {0}
  <2>1. Cardinality(Rows(ledger')) \in Nat \ {0}
    BY <1>3, RowsFinite, FS_CardinalityType, FS_EmptySet
  <2>2. BatchesLeft' = (Cardinality(Rows(ledger')) + BatchSize - 1) \div BatchSize
    BY <1>2 DEF BatchesLeft, Rows
  <2> QED
    BY <2>1, <2>2, BatchesFor, SizesAssumption
<1> QED
  BY <1>1, <1>5, <1>6 DEF ToKeepers!Cross

\* The factory is told by a crossing or by a retry.
LEMMA OnlyRetriesSettle ==
  ASSUME [Next]_vars,
         ~ \E usd, seed : \E u \in Users : Cross(u, usd, seed)
  PROVE  UNCHANGED pendingNotify \/ RetryFactoryNotify
<1> USE DEF notifyVars
<1>1. ASSUME NEW u \in Users, NEW amount \in Amounts, NEW rate \in Rates,
             \/ CommitFunding(u, amount, rate) \/ CommitTrading(u, amount, rate)
             \/ CommitHitExact(u, amount, rate) \/ CommitCrossing(u, amount, rate)
      PROVE  UNCHANGED pendingNotify
  BY <1>1 DEF CommitFunding, CommitTrading, Trade, CommitHitExact, CommitCrossing
<1>2. ASSUME NEW u \in Users, NEW side \in {0, 1}, NEW amount \in Amounts,
             Swap(u, side, amount)
      PROVE  UNCHANGED pendingNotify
  BY <1>2 DEF Swap, Trade
<1>3. ASSUME NEW k \in Keepers, ContinueDistribution(k)
      PROVE  UNCHANGED pendingNotify
  BY <1>3 DEF ContinueDistribution
<1>4. ASSUME NEW p \in Parties, ClaimFailedDistribution(p)
      PROVE  UNCHANGED pendingNotify
  BY <1>4 DEF ClaimFailedDistribution
<1>5. ASSUME NEW dt \in TimeSteps, NextBlock(dt)
      PROVE  UNCHANGED pendingNotify
  BY <1>5 DEF NextBlock
<1>6. ASSUME \/ Pause \/ Unpause \/ EmergencyInitiate \/ EmergencyDrain
             \/ CancelEmergencyWithdraw \/ ClaimCreatorExcess \/ UNCHANGED vars
             \/ RecoverStuckDistribution \/ SelfRecoverDistribution
      PROVE  UNCHANGED pendingNotify
  BY <1>6 DEF Pause, Unpause, EmergencyInitiate, EmergencyDrain, CancelEmergencyWithdraw,
     ClaimCreatorExcess, vars, RecoverStuckDistribution, SelfRecoverDistribution, Restart
<1> QED
  BY <1>1, <1>2, <1>3, <1>4, <1>5, <1>6, Zenon DEF Next

\* What leaves the rows alone and does not end the distribution at most halts
\* the pool or takes the halt back.
LEMMA RowsKeptHalts ==
  ASSUME UNCHANGED <<ledger, thresholdHit, pendingNotify>>, dist' = None <=> dist = None,
         Halted' \in BOOLEAN
  PROVE  ToKeepers!Halt
<1>1. BatchesLeft' = BatchesLeft
  BY DEF BatchesLeft, Rows
<1> QED
  BY <1>1 DEF ToKeepers!Halt

\* A pool is halted or not.
LEMMA HaltedIsBooleanNext ==
  ASSUME IInv' PROVE Halted' \in BOOLEAN
BY DEF IInv, TypeOK, ControlTypeOK, Halted

LEMMA ServedStep ==
  ASSUME PayoutInv, PayoutInv', [Next]_vars
  PROVE  [ToKeepers!Next]_<<thresholdHit, BatchesLeft, Halted, pendingNotify>>
<1>1. CASE \E u \in Users, usd \in 1 .. Target : \E seed : Cross(u, usd, seed)
  BY <1>1, CrossingCrosses DEF ToKeepers!Next
<1>2. CASE \E k \in Keepers : ContinueDistribution(k)
  BY <1>2, BatchServes DEF ToKeepers!Next
<1>3. ASSUME ~ \E usd, seed : \E u \in Users : Cross(u, usd, seed),
             UNCHANGED <<ledger, thresholdHit>>, dist' = None <=> dist = None
      PROVE  ToKeepers!Next \/ UNCHANGED <<thresholdHit, BatchesLeft, Halted, pendingNotify>>
  <2>1. CASE UNCHANGED pendingNotify
    BY <1>3, <2>1, HaltedIsBooleanNext, RowsKeptHalts DEF PayoutInv, ToKeepers!Next
  <2>2. CASE RetryFactoryNotify
    <3>1. /\ pendingNotify /\ pendingNotify' = FALSE
          /\ UNCHANGED <<thresholdHit, ledger, dist, paused, drained>>
      BY <2>2 DEF RetryFactoryNotify, commitVars, distVars, adminVars
    <3>2. UNCHANGED <<thresholdHit, BatchesLeft, Halted>>
      BY <3>1 DEF BatchesLeft, Rows, Halted
    <3> QED
      BY <3>1, <3>2 DEF ToKeepers!Settle, ToKeepers!Next
  <2> QED
    BY <1>3, <2>1, <2>2, OnlyRetriesSettle
<1>4. ASSUME NEW u \in Users, NEW amount \in Amounts, NEW rate \in Rates,
             CommitFunding(u, amount, rate)
      PROVE  UNCHANGED <<thresholdHit, BatchesLeft, Halted, pendingNotify>>
  <2>1. UNCHANGED <<thresholdHit, dist, paused, drained, pendingNotify>> /\ dist = None
    BY <1>4 DEF CommitFunding, distVars, adminVars, notifyVars, PayoutInv, IInv, Phases
  <2> QED
    BY <2>1 DEF BatchesLeft, Halted
<1>5. ASSUME NEW p \in Parties, ClaimFailedDistribution(p)
      PROVE  UNCHANGED <<thresholdHit, BatchesLeft, Halted, pendingNotify>>
  <2>1. UNCHANGED <<thresholdHit, ledger, dist, paused, drained, pendingNotify>>
    BY <1>5 DEF ClaimFailedDistribution, commitVars, adminVars, notifyVars
  <2> QED
    BY <2>1 DEF BatchesLeft, Rows, Halted
<1>6. ASSUME PayoutsKept
      PROVE  /\ UNCHANGED <<ledger, thresholdHit>> /\ (dist' = None <=> dist = None)
             /\ ~ \E usd, seed : \E u \in Users : Cross(u, usd, seed)
  BY <1>6 DEF PayoutsKept, Cross
<1> QED
  BY <1>1, <1>2, <1>3, <1>4, <1>5, <1>6, PayoutSteps

\* IsServedPool: for any committers, batch size, windows, failing mints and
\* order of calls a batch that is accepted leaves one fewer to come.
THEOREM ImplementsServedPool == Spec => IsServedPool
<1>1. Init => ToKeepers!Init
  <2> SUFFICES ASSUME Init PROVE ToKeepers!Init
    OBVIOUS
  <2>1. /\ thresholdHit = FALSE /\ dist = None /\ paused = FALSE /\ drained = FALSE
        /\ pendingNotify = FALSE
    BY Zenon DEF Init
  <2> QED
    BY <2>1 DEF ToKeepers!Init, BatchesLeft, Halted
<1>2. PayoutInv /\ PayoutInv' /\ [Next]_vars
        => [ToKeepers!Next]_<<thresholdHit, BatchesLeft, Halted, pendingNotify>>
  BY ServedStep
<1> QED
  BY <1>1, <1>2, PayoutsInvariant, PTL DEF Spec, IsServedPool, ToKeepers!Spec
=============================================================================
