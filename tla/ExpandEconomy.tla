---------------------------- MODULE ExpandEconomy ----------------------------
(***************************************************************************)
(* The reservoir that pays the protocol's bluechip mint (expand-economy),  *)
(* the factory that asks it on behalf of every commit pool that crosses    *)
(* (NotifyThresholdCrossed), and what each pool remembers of its own       *)
(* notification.  Both configurations change behind timelocks of their own *)
(* so the two contracts can disagree for a while.                          *)
(*                                                                         *)
(* Time moves in periods.  A timelock is the periods left, and the log of  *)
(* expansions is the amount granted at each age.                           *)
(***************************************************************************)
EXTENDS MintSchedule, Totals

CONSTANTS
  Pools,             \* commit pools, each named by its commit_pool_ordinal
  Factory,           \* the protocol's factory
  Factories,         \* what Config.factory_address may be set to
  Owners,            \* what Config.owner may be set to
  Denoms,            \* what either contract's bluechip_denom may be set to
  ForeignAmounts,    \* amounts another factory may request
  WithdrawAmounts,   \* amounts of ProposeWithdrawal
  Deposit,           \* bluechip of one transfer into the reservoir
  MaxFunds,          \* bound: no deposit lifts the reservoir above it
  DailyCap,          \* DAILY_EXPANSION_CAP
  Window,            \* DAILY_WINDOW_SECONDS, in periods
  ConfigTimelock,    \* CONFIG_TIMELOCK_SECONDS, in periods
  WithdrawTimelock,  \* WITHDRAW_TIMELOCK_SECONDS, in periods
  AdminTimelock,     \* ADMIN_TIMELOCK_SECONDS of the factory, in periods
  PeriodSeconds,     \* seconds of a period
  SinceCap,          \* bound: periods after which every pool gets BaseAmount
  None

ASSUME EconomyAssumption ==
  /\ Pools \subseteq Nat \ {0} /\ Factory \in Factories
  /\ ForeignAmounts \subseteq Nat /\ WithdrawAmounts \subseteq Nat \ {0}
  /\ Deposit \in Nat /\ MaxFunds \in Nat /\ DailyCap \in Nat
  /\ Window \in Nat \ {0} /\ ConfigTimelock \in Nat /\ WithdrawTimelock \in Nat
  /\ AdminTimelock \in Nat /\ PeriodSeconds \in Nat /\ SinceCap \in Nat
  /\ None \notin Factories \cup Owners \cup Denoms \cup Nat

VARIABLES
  hit,                \* IS_THRESHOLD_HIT of each pool
  pendingNotify,      \* PENDING_FACTORY_NOTIFY of each pool
  poolMinted,         \* POOL_THRESHOLD_MINTED, of the factory
  since,              \* periods since FIRST_THRESHOLD_TIMESTAMP, None before
  factoryConfig,      \* FACTORYINSTANTIATEINFO: denom, and whether a mint contract is set
  pendingFactory,     \* PENDING_CONFIG of the factory
  config,             \* CONFIG: factory, owner, denom
  pendingConfig,      \* PENDING_CONFIG_UPDATE
  pendingWithdrawal,  \* PENDING_WITHDRAWAL
  log,                \* EXPANSION_LOG: amount by age
  funds,              \* bank balance of the reservoir, by denom
  paid,               \* history: the expansions paid out, by age
  tenure              \* history: periods the owner has been owner, up to TenureCap

poolVars    == <<hit, pendingNotify>>
factoryVars == <<factoryConfig, pendingFactory>>
adminVars   == <<config, pendingConfig, pendingWithdrawal, tenure>>
payVars     == <<log, funds, paid>>
vars == <<poolVars, poolMinted, since, factoryVars, adminVars, payVars>>

Ages      == 0 .. Window
TenureCap == ConfigTimelock + WithdrawTimelock
Before(a, b) == IF a < b THEN a ELSE b

FactorySettings == [denom : Denoms, viaEconomy : BOOLEAN]
Settings        == [factory : Factories, owner : Owners, denom : Denoms]
Proposed        == [factory : Factories \cup {None}, owner : Owners \cup {None},
                    denom : Denoms \cup {None}]

\* A factory and a reservoir deployed for each other, nothing crossed yet.
Init ==
  /\ hit = [p \in Pools |-> FALSE] /\ pendingNotify = [p \in Pools |-> FALSE]
  /\ poolMinted = [p \in Pools |-> FALSE] /\ since = None
  /\ \E d \in Denoms, o \in Owners :
        /\ factoryConfig = [denom |-> d, viaEconomy |-> TRUE]
        /\ config = [factory |-> Factory, owner |-> o, denom |-> d]
  /\ pendingFactory = None /\ pendingConfig = None /\ pendingWithdrawal = None
  /\ log = [a \in Ages |-> 0] /\ paid = [a \in Ages |-> 0]
  /\ funds \in [Denoms -> {0, Deposit}]
  /\ tenure = TenureCap

-----------------------------------------------------------------------------
(* RequestExpansion. *)

\* Seeded fault: an entry forgotten a period early.
InWindowTooShort(age) == age + 1 < Window

\* log.retain: an entry as old as the window no longer counts.
InWindow(age) == age < Window

Live == {age \in Ages : InWindow(age)}

FitsCap(amount) == Total(log, Live) + amount <= DailyCap

Debited(amount) ==
  [age \in Ages |-> (IF age \in Live THEN log[age] ELSE 0) + (IF age = 0 THEN amount ELSE 0)]

\* Seeded fault: the window debited before the balance is looked at.
SkippedButDebited(amount) ==
  /\ funds[config.denom] < amount
  /\ log' = Debited(amount)
  /\ UNCHANGED <<funds, paid>>

\* Too little balance: answered with success, nothing moves.
Skipped(amount) == funds[config.denom] < amount /\ UNCHANGED payVars

Granted(amount) ==
  /\ funds[config.denom] >= amount
  /\ log' = Debited(amount)
  /\ funds' = [funds EXCEPT ![config.denom] = @ - amount]
  /\ paid' = [paid EXCEPT ![0] = @ + amount]

\* A request of the configured factory; where it is not enabled it errs.
RequestExpansion(amount) ==
  \/ amount = 0 /\ UNCHANGED payVars
  \/ amount > 0 /\ FitsCap(amount) /\ (Skipped(amount) \/ Granted(amount))

-----------------------------------------------------------------------------
(* NotifyThresholdCrossed, called by a pool. *)

\* The factory asks the configured reservoir, which checks the caller and the
\* denom of the factory that calls.
Trusted == config.factory = Factory /\ config.denom = factoryConfig.denom

MintFor(p) == MintAmount((IF since = None THEN 0 ELSE since) * PeriodSeconds, p)

\* Without a mint contract the factory pays from its own balance.
MintPaid(amount) ==
  \/ amount = 0 /\ UNCHANGED payVars
  \/ amount > 0 /\ factoryConfig.viaEconomy /\ Trusted /\ RequestExpansion(amount)
  \/ amount > 0 /\ ~factoryConfig.viaEconomy /\ UNCHANGED payVars

\* That balance, and so the outcome of the transfer, is left open.
MintMayFail(amount) ==
  amount > 0 /\ (factoryConfig.viaEconomy => ~(Trusted /\ FitsCap(amount)))

Notified(p) ==
  /\ ~poolMinted[p]
  /\ poolMinted' = [poolMinted EXCEPT ![p] = TRUE]
  /\ since' = IF since = None THEN 0 ELSE since
  /\ MintPaid(MintFor(p))

\* Seeded fault: the gate survives the failure of the call it guards.
NotifyFailsMarked(p) ==
  /\ poolMinted[p] \/ MintMayFail(MintFor(p))
  /\ poolMinted' = [poolMinted EXCEPT ![p] = TRUE]
  /\ UNCHANGED <<since, payVars>>

\* A failed sub-message leaves no trace in the factory or the reservoir.
NotifyFails(p) ==
  /\ poolMinted[p] \/ MintMayFail(MintFor(p))
  /\ UNCHANGED <<poolMinted, since, payVars>>

\* The commit that crosses sends the notification; the pool's reply absorbs a
\* failure and remembers it.
Cross(p) ==
  /\ ~hit[p]
  /\ hit' = [hit EXCEPT ![p] = TRUE]
  /\ \/ Notified(p) /\ UNCHANGED pendingNotify
     \/ NotifyFails(p) /\ pendingNotify' = [pendingNotify EXCEPT ![p] = TRUE]
  /\ UNCHANGED <<factoryVars, adminVars>>

\* Seeded fault: the reply clears the flag whatever the outcome.
RetryForgets(p) ==
  /\ pendingNotify[p]
  /\ Notified(p) \/ NotifyFails(p)
  /\ pendingNotify' = [pendingNotify EXCEPT ![p] = FALSE]
  /\ UNCHANGED <<hit, factoryVars, adminVars>>

\* RetryFactoryNotify, of anyone; a retry that fails changes nothing.
RetryNotify(p) ==
  /\ pendingNotify[p]
  /\ Notified(p)
  /\ pendingNotify' = [pendingNotify EXCEPT ![p] = FALSE]
  /\ UNCHANGED <<hit, factoryVars, adminVars>>

\* While the reservoir is configured for another factory, that one may ask for
\* any amount; it answers the query for its denom as it likes.
ForeignRequest(amount) ==
  /\ config.factory # Factory
  /\ RequestExpansion(amount)
  /\ UNCHANGED <<poolVars, poolMinted, since, factoryVars, adminVars>>

-----------------------------------------------------------------------------
(* The owner's timelocked calls on the reservoir. *)

notAdmin == <<poolVars, poolMinted, since, factoryVars>>

ProposeConfigUpdate(change) ==
  /\ pendingConfig = None
  /\ pendingConfig' = [change |-> change, left |-> ConfigTimelock]
  /\ UNCHANGED <<notAdmin, config, pendingWithdrawal, tenure, payVars>>

Updated(change) ==
  [field \in DOMAIN config |-> IF change[field] = None THEN config[field] ELSE change[field]]

\* Seeded fault: a withdrawal outlives the owner who staged it.
KeepsWithdrawal(owner, newOwner) == FALSE

DropsWithdrawal(owner, newOwner) == owner # newOwner

ExecuteConfigUpdate ==
  /\ pendingConfig # None /\ pendingConfig.left = 0
  /\ config' = Updated(pendingConfig.change)
  /\ pendingConfig' = None
  /\ pendingWithdrawal' =
       IF DropsWithdrawal(config.owner, config'.owner) THEN None ELSE pendingWithdrawal
  /\ tenure' = IF config'.owner = config.owner THEN tenure ELSE 0
  /\ UNCHANGED <<notAdmin, payVars>>

CancelConfigUpdate ==
  /\ pendingConfig # None
  /\ pendingConfig' = None
  /\ UNCHANGED <<notAdmin, config, pendingWithdrawal, tenure, payVars>>

ProposeWithdrawal(amount, d) ==
  /\ pendingWithdrawal = None
  /\ pendingWithdrawal' = [amount |-> amount, denom |-> d, left |-> WithdrawTimelock]
  /\ UNCHANGED <<notAdmin, config, pendingConfig, tenure, payVars>>

\* Clamped to the balance, which expansions may have lowered meanwhile.
ExecuteWithdrawal ==
  /\ pendingWithdrawal # None /\ pendingWithdrawal.left = 0
  /\ pendingWithdrawal' = None
  /\ funds' = [funds EXCEPT ![pendingWithdrawal.denom] =
                              @ - Before(pendingWithdrawal.amount, @)]
  /\ UNCHANGED <<notAdmin, config, pendingConfig, tenure, log, paid>>

CancelWithdrawal ==
  /\ pendingWithdrawal # None
  /\ pendingWithdrawal' = None
  /\ UNCHANGED <<notAdmin, config, pendingConfig, tenure, payVars>>

-----------------------------------------------------------------------------
(* The factory's own timelocked configuration, funds and time. *)

notFactory == <<poolVars, poolMinted, since, adminVars, payVars>>

ProposeFactoryConfig(settings) ==
  /\ pendingFactory = None
  /\ pendingFactory' = [settings |-> settings, left |-> AdminTimelock]
  /\ UNCHANGED <<notFactory, factoryConfig>>

UpdateFactoryConfig ==
  /\ pendingFactory # None /\ pendingFactory.left = 0
  /\ factoryConfig' = pendingFactory.settings
  /\ pendingFactory' = None
  /\ UNCHANGED notFactory

CancelFactoryConfig ==
  /\ pendingFactory # None
  /\ pendingFactory' = None
  /\ UNCHANGED <<notFactory, factoryConfig>>

\* A bank transfer to the reservoir; its own messages take no coins.
Fund(d) ==
  /\ funds[d] + Deposit <= MaxFunds
  /\ funds' = [funds EXCEPT ![d] = @ + Deposit]
  /\ UNCHANGED <<notAdmin, adminVars, log, paid>>

Waited(pending) ==
  IF pending = None \/ pending.left = 0 THEN pending ELSE [pending EXCEPT !.left = @ - 1]

Aged(byAge) == [age \in Ages |-> IF age = 0 THEN 0 ELSE byAge[age - 1]]

NextPeriod ==
  /\ since' = IF since = None THEN None ELSE Before(since + 1, SinceCap)
  /\ pendingFactory' = Waited(pendingFactory)
  /\ pendingConfig' = Waited(pendingConfig)
  /\ pendingWithdrawal' = Waited(pendingWithdrawal)
  /\ log' = Aged(log) /\ paid' = Aged(paid)
  /\ tenure' = Before(tenure + 1, TenureCap)
  /\ UNCHANGED <<poolVars, poolMinted, factoryConfig, config, funds>>

-----------------------------------------------------------------------------
Next ==
  \/ \E p \in Pools : Cross(p) \/ RetryNotify(p)
  \/ \E amount \in ForeignAmounts : ForeignRequest(amount)
  \/ \E change \in Proposed : ProposeConfigUpdate(change)
  \/ ExecuteConfigUpdate
  \/ CancelConfigUpdate
  \/ \E amount \in WithdrawAmounts, d \in Denoms : ProposeWithdrawal(amount, d)
  \/ ExecuteWithdrawal
  \/ CancelWithdrawal
  \/ \E settings \in FactorySettings : ProposeFactoryConfig(settings)
  \/ UpdateFactoryConfig
  \/ CancelFactoryConfig
  \/ \E d \in Denoms : Fund(d)
  \/ NextPeriod

Spec == Init /\ [][Next]_vars

\* Time passes, and the keeper's retry loop polls every pool with a pending
\* notification for ever (keepers/src/lib/retry-notify-loop.ts).
FairSpec == /\ Spec
            /\ WF_vars(NextPeriod)
            /\ \A p \in Pools : WF_vars(RetryNotify(p))

-----------------------------------------------------------------------------
(* Properties. *)

TypeOK ==
  /\ hit \in [Pools -> BOOLEAN] /\ pendingNotify \in [Pools -> BOOLEAN]
  /\ poolMinted \in [Pools -> BOOLEAN] /\ since \in {None} \cup Nat
  /\ factoryConfig \in FactorySettings /\ config \in Settings
  /\ pendingFactory \in {None} \cup [settings : FactorySettings, left : 0 .. AdminTimelock]
  /\ pendingConfig \in {None} \cup [change : Proposed, left : 0 .. ConfigTimelock]
  /\ pendingWithdrawal \in {None} \cup
       [amount : WithdrawAmounts, denom : Denoms, left : 0 .. WithdrawTimelock]
  /\ log \in [Ages -> Nat] /\ paid \in [Ages -> Nat] /\ funds \in [Denoms -> Nat]
  /\ tenure \in 0 .. TenureCap

\* The last 24 hours, whenever they begin.
LastDay == 0 .. Window - 1

\* Whoever controls the configured factory, and however the configuration moves
\* from one factory or denom to another, no 24 hours see more than the cap paid.
RollingCap == Total(paid, LastDay) <= DailyCap

\* The log charges the window with exactly what was paid: a skipped, refused or
\* dormant request burns none of the budget, and no payment escapes it.
LogIsPayments == \A age \in LastDay : log[age] = paid[age]

\* A withdrawal that is pending was proposed by the present owner: it is not
\* older than the present ownership, even if an owner leaves and comes back.
NoInheritedWithdrawal ==
  pendingWithdrawal # None => WithdrawTimelock - pendingWithdrawal.left <= tenure

\* Factory and pool agree on the hand-over: a crossed pool either has its mint
\* settled in the factory or holds the flag that lets anyone retry it, and a
\* pool that has not crossed has neither.
HandoffAccounted ==
  \A p \in Pools : /\ hit[p] => (pendingNotify[p] <=> ~poolMinted[p])
                   /\ ~hit[p] => ~pendingNotify[p] /\ ~poolMinted[p]

Aligned == factoryConfig.viaEconomy /\ Trusted

\* Once the two configurations agree and stay so, every crossed pool's mint is
\* settled, however many of them were refused by the cap before.
MintsSettle ==
  <>[]Aligned => \A p \in Pools : hit[p] ~> poolMinted[p]
=============================================================================
