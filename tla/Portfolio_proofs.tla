--------------------------- MODULE Portfolio_proofs ---------------------------
(***************************************************************************)
(* Proofs about Portfolio, for any accounts, pools, positions, number of   *)
(* loads that run at the same time and number of connection attempts.      *)
(***************************************************************************)
EXTENDS Portfolio, TLAPS

-----------------------------------------------------------------------------
(* The inductive invariant. *)

PageTyped ==
  /\ SessionType /\ hold \in [Accounts -> SUBSET Pools]
  /\ tokens \subseteq Pools /\ positions \subseteq Pools
  /\ loading \in BOOLEAN /\ positionsLoading \in BOOLEAN
  /\ loads \in [Loads -> {None} \cup LoadRecords]

\* An account is shown before there is anything to load or to sign with, and
\* there is one ever after.
AddressFirst ==
  client # None \/ connecting # {} \/ (\E l \in Loads : loads[l] # None) => address # None

\* What the wallet a load started with can have in the table it fills.
RowsOf(x) == IF x.kind = "tokens" THEN hold[x.by] ELSE Positions[x.by]

\* No load has picked up a row of another wallet.
LoadsOfOneWallet == \A l \in Loads : loads[l] # None => loads[l].got \subseteq RowsOf(loads[l])

PageInv ==
  PageTyped /\ AddressFirst /\ LoadsOfOneWallet /\ TablesOfOneWallet /\ SpinnersHaveLoads

-----------------------------------------------------------------------------
(* The loads. *)

Running(kind) == \E l \in Loads : loads[l] # None /\ loads[l].kind = kind

LEMMA Spinners ==
  SpinnersHaveLoads <=> (loading => Running("tokens"))
                        /\ (positionsLoading => Running("positions"))
BY DEF SpinnersHaveLoads, Running

LEMMA SpinnersNext ==
  SpinnersHaveLoads' <=> (loading' => Running("tokens")')
                         /\ (positionsLoading' => Running("positions")')
BY DEF SpinnersHaveLoads, Running

\* A load starts with no rows.
LEMMA FreshLoad ==
  ASSUME NEW kind \in {"tokens", "positions"}, NEW by \in Accounts, NEW rows \in SUBSET Pools
  PROVE  /\ LoadOf(kind, by, rows) \in LoadRecords
         /\ LoadOf(kind, by, rows) # None
         /\ LoadOf(kind, by, rows).kind = kind
         /\ LoadOf(kind, by, rows).by = by
         /\ LoadOf(kind, by, rows).got = {}
BY PortfolioAssumption DEF LoadOf, LoadRecords

LEMMA LoadTyped ==
  ASSUME PageTyped, NEW l \in Loads, loads[l] # None
  PROVE  /\ loads[l] \in LoadRecords
         /\ loads[l].kind \in {"tokens", "positions"} /\ loads[l].by \in Accounts
         /\ loads[l].left \subseteq Pools /\ loads[l].got \subseteq Pools
BY DEF PageTyped, LoadRecords

\* One load moves on, ends or becomes another.
LEMMA OneLoadMoves ==
  ASSUME PageInv, NEW l \in Loads, NEW x \in {None} \cup LoadRecords,
         loads' = [loads EXCEPT ![l] = x], UNCHANGED hold,
         x # None => x.got \subseteq RowsOf(x)
  PROVE  /\ loads' \in [Loads -> {None} \cup LoadRecords]
         /\ LoadsOfOneWallet'
         /\ \A kind \in {"tokens", "positions"} :
              Running(kind) /\ (loads[l] # None /\ loads[l].kind = kind
                                  => x # None /\ x.kind = kind)
              => Running(kind)'
         /\ \A kind \in {"tokens", "positions"} :
              x # None /\ x.kind = kind => Running(kind)'
<1>1. loads \in [Loads -> {None} \cup LoadRecords] /\ LoadsOfOneWallet
  BY DEF PageInv, PageTyped
<1>2. loads' \in [Loads -> {None} \cup LoadRecords]
  BY <1>1
<1>3. loads'[l] = x /\ \A m \in Loads \ {l} : loads'[m] = loads[m]
  BY <1>1
<1>4. LoadsOfOneWallet'
  BY <1>1, <1>3 DEF LoadsOfOneWallet, RowsOf
<1>5. ASSUME NEW kind \in {"tokens", "positions"}, Running(kind),
             loads[l] # None /\ loads[l].kind = kind => x # None /\ x.kind = kind
      PROVE  Running(kind)'
  BY <1>3, <1>5 DEF Running
<1>6. ASSUME NEW kind \in {"tokens", "positions"}, x # None, x.kind = kind
      PROVE  Running(kind)'
  BY <1>3, <1>6 DEF Running
<1> QED
  BY <1>2, <1>4, <1>5, <1>6

-----------------------------------------------------------------------------
(* The steps. *)

\* The rows of a page that shows another answer to one of its loads are the same.
LEMMA TablesStay ==
  ASSUME PageInv, UNCHANGED <<hold, shown>>
  PROVE  TablesOfOneWallet' /\ hold' \in [Accounts -> SUBSET Pools]
         /\ tokens' \subseteq Pools /\ positions' \subseteq Pools
BY DEF PageInv, PageTyped, TablesOfOneWallet, shown

\* The effects of a new wallet or client: the loads they start take free slots.
LEMMA EffectsKeep ==
  ASSUME PageInv, SessionType', client' # None \/ connecting' # {} \/ address # None => address' # None,
         SessionChanged, UNCHANGED <<hold, shown>>
  PROVE  PageInv'
<1>1. TablesOfOneWallet' /\ hold' \in [Accounts -> SUBSET Pools]
      /\ tokens' \subseteq Pools /\ positions' \subseteq Pools
  BY TablesStay
<1>2. CASE client' = None \/ address' = None
  <2>1. UNCHANGED <<loading, positionsLoading, loads>>
    BY <1>2 DEF SessionChanged, flags
  <2>2. SpinnersHaveLoads' /\ LoadsOfOneWallet' /\ AddressFirst'
    BY <2>1 DEF PageInv, SpinnersHaveLoads, LoadsOfOneWallet, RowsOf, AddressFirst
  <2> QED
    BY <1>1, <2>1, <2>2 DEF PageInv, PageTyped
<1>3. CASE ~(client' = None \/ address' = None)
  <2>1. address' \in Accounts /\ tokens \in SUBSET Pools
    BY <1>3 DEF SessionType, PageInv, PageTyped
  <2>2. loading' = TRUE /\ AddressFirst'
    BY <1>3 DEF SessionChanged, AddressFirst
  <2> DEFINE load == TokensLoad(address')
             rows == PositionsLoad(address', tokens)
  <2>3. /\ load \in LoadRecords /\ load # None /\ load.kind = "tokens" /\ load.got = {}
        /\ rows \in LoadRecords /\ rows # None /\ rows.kind = "positions" /\ rows.got = {}
    BY <2>1, FreshLoad DEF TokensLoad, PositionsLoad
  <2> HIDE DEF load, rows
  <2>4. PICK l \in Free :
          IF tokens = {}
          THEN loads' = [loads EXCEPT ![l] = load] /\ UNCHANGED positionsLoading
          ELSE \E k \in Free \ {l} : /\ loads' = [loads EXCEPT ![l] = load, ![k] = rows]
                                     /\ positionsLoading' = TRUE
    BY <1>3 DEF SessionChanged, load, rows
  <2>5. l \in Loads /\ loads[l] = None
    BY DEF Free
  <2>6. CASE tokens = {}
    <3>1. loads' = [loads EXCEPT ![l] = load] /\ UNCHANGED positionsLoading
      BY <2>4, <2>6
    <3>2. load \in {None} \cup LoadRecords /\ (load # None => load.got \subseteq RowsOf(load))
      BY <2>3
    <3>3. /\ loads' \in [Loads -> {None} \cup LoadRecords] /\ LoadsOfOneWallet'
          /\ Running("tokens")' /\ (Running("positions") => Running("positions")')
      BY <2>3, <2>5, <3>1, <3>2, OneLoadMoves
    <3>4. SpinnersHaveLoads'
      BY <3>1, <3>3, Spinners, SpinnersNext DEF PageInv
    <3> QED
      BY <1>1, <2>2, <3>1, <3>3, <3>4 DEF PageInv, PageTyped
  <2>7. CASE tokens # {}
    <3>1. PICK k \in Free \ {l} : /\ loads' = [loads EXCEPT ![l] = load, ![k] = rows]
                                  /\ positionsLoading' = TRUE
      BY <2>4, <2>7
    <3>2. k \in Loads /\ k # l
      BY DEF Free
    <3>3. loads \in [Loads -> {None} \cup LoadRecords] /\ LoadsOfOneWallet
      BY DEF PageInv, PageTyped
    <3>4. loads' \in [Loads -> {None} \cup LoadRecords]
      BY <2>3, <2>5, <3>1, <3>2, <3>3
    <3>5. /\ loads'[l] = load /\ loads'[k] = rows
          /\ \A m \in Loads \ {k, l} : loads'[m] = loads[m]
      BY <2>5, <3>1, <3>2, <3>3
    <3>6. LoadsOfOneWallet'
      BY <2>3, <3>3, <3>5 DEF LoadsOfOneWallet, RowsOf
    <3>7. SpinnersHaveLoads'
      BY <2>3, <2>5, <3>2, <3>5 DEF SpinnersHaveLoads
    <3> QED
      BY <1>1, <2>2, <3>1, <3>4, <3>6, <3>7 DEF PageInv, PageTyped
  <2> QED
    BY <2>6, <2>7
<1> QED
  BY <1>2, <1>3

\* What leaves the loads and the tables alone.
LEMMA PageStays ==
  ASSUME PageInv, SessionType', address # None => address' # None,
         client' # None \/ connecting' # {} => address' # None,
         UNCHANGED <<hold, shown, flags, loads>>
  PROVE  PageInv'
BY TablesStay DEF PageInv, PageTyped, AddressFirst, LoadsOfOneWallet, RowsOf, SpinnersHaveLoads, flags

LEMMA ConnectsKeeps ==
  ASSUME PageInv, NEW a \in Accounts, Connects(a)
  PROVE  PageInv'
<1>1. SessionType' /\ address' = a /\ a # None
  BY SessionAssumption DEF PageInv, PageTyped, SessionType, Connects, WalletAnswers
<1>2. UNCHANGED <<hold, shown>> /\ (UNCHANGED <<flags, loads>> \/ SessionChanged)
  BY DEF Connects
<1> QED
  BY <1>1, <1>2, PageStays, EffectsKeep

LEMMA ReconnectedKeeps ==
  ASSUME PageInv, NEW a \in Accounts, Reconnected(a)
  PROVE  PageInv'
<1>1. SessionType' /\ address' = address /\ connecting # {}
  BY DEF PageInv, PageTyped, SessionType, Reconnected, ClientConnects
<1>2. address # None
  BY <1>1 DEF PageInv, AddressFirst
<1> QED
  BY <1>1, <1>2, EffectsKeep DEF Reconnected

LEMMA ConnectErrorKeeps ==
  ASSUME PageInv, ConnectError
  PROVE  PageInv'
<1>1. SessionType' /\ UNCHANGED <<address, client>> /\ connecting # {}
  BY DEF PageInv, PageTyped, SessionType, ConnectError, ConnectFails
<1>2. address # None
  BY <1>1 DEF PageInv, AddressFirst
<1> QED
  BY <1>1, <1>2, PageStays DEF ConnectError

\* One load moves while the wallet stays, and its spinner turns no longer than
\* a load of its kind runs.
LEMMA LoadKeeps ==
  ASSUME PageInv, NEW l \in Loads, NEW x \in {None} \cup LoadRecords,
         loads' = [loads EXCEPT ![l] = x], UNCHANGED <<session, hold>>,
         x # None => x.got \subseteq RowsOf(x), address # None,
         tokens' \subseteq Pools, positions' \subseteq Pools, TablesOfOneWallet',
         loading' \in BOOLEAN, positionsLoading' \in BOOLEAN,
         loading' => \/ x # None /\ x.kind = "tokens"
                     \/ loading /\ ~(loads[l] # None /\ loads[l].kind = "tokens"),
         positionsLoading' => \/ x # None /\ x.kind = "positions"
                              \/ /\ positionsLoading
                                 /\ ~(loads[l] # None /\ loads[l].kind = "positions")
  PROVE  PageInv'
<1>1. /\ loads' \in [Loads -> {None} \cup LoadRecords] /\ LoadsOfOneWallet'
      /\ \A kind \in {"tokens", "positions"} :
           Running(kind) /\ (loads[l] # None /\ loads[l].kind = kind
                               => x # None /\ x.kind = kind)
           => Running(kind)'
      /\ \A kind \in {"tokens", "positions"} :
           x # None /\ x.kind = kind => Running(kind)'
  BY OneLoadMoves
<1>2. SpinnersHaveLoads'
  BY <1>1, Spinners, SpinnersNext DEF PageInv
<1>3. PageTyped' /\ AddressFirst'
  BY <1>1 DEF PageInv, PageTyped, SessionType, session, AddressFirst
<1> QED
  BY <1>1, <1>2, <1>3 DEF PageInv

LEMMA RefreshKeeps ==
  ASSUME PageInv, Refresh
  PROVE  PageInv'
<1>1. address \in Accounts /\ address # None
  BY DEF Refresh, Connected, PageInv, PageTyped, SessionType
<1> DEFINE load == TokensLoad(address)
<1>2. load \in LoadRecords /\ load # None /\ load.kind = "tokens" /\ load.got = {}
  BY <1>1, FreshLoad DEF TokensLoad
<1>3. PICK l \in Free : loads' = [loads EXCEPT ![l] = load]
  BY DEF Refresh
<1> HIDE DEF load
<1>4. l \in Loads /\ loads[l] = None
  BY DEF Free
<1>5. /\ TablesOfOneWallet' /\ tokens' \subseteq Pools /\ positions' \subseteq Pools
      /\ UNCHANGED <<session, hold>> /\ loading' = TRUE
      /\ positionsLoading' = positionsLoading /\ positionsLoading \in BOOLEAN
  BY TablesStay DEF Refresh, PageInv, PageTyped
<1>6. load.got \subseteq RowsOf(load)
  BY <1>2
<1> QED
  BY <1>1, <1>2, <1>3, <1>4, <1>5, <1>6, LoadKeeps

\* A query of a load is answered or fails.
LEMMA QueryKeeps ==
  ASSUME PageInv, NEW l \in Loads, NEW x \in LoadRecords, loads[l] # None,
         loads' = [loads EXCEPT ![l] = x],
         x.kind = loads[l].kind, x.by = loads[l].by, x.got \subseteq RowsOf(loads[l]),
         UNCHANGED <<session, hold, shown, flags>>
  PROVE  PageInv'
<1>1. address # None /\ x # None
  BY PortfolioAssumption DEF PageInv, AddressFirst
<1>2. RowsOf(x) = RowsOf(loads[l])
  BY DEF RowsOf
<1>3. /\ TablesOfOneWallet' /\ tokens' \subseteq Pools /\ positions' \subseteq Pools
      /\ UNCHANGED <<session, hold, loading, positionsLoading>>
      /\ loading \in BOOLEAN /\ positionsLoading \in BOOLEAN
  BY TablesStay DEF PageInv, PageTyped, flags
<1>4. x.kind \in {"tokens", "positions"}
  BY DEF LoadRecords
<1> QED
  BY <1>1, <1>2, <1>3, <1>4, LoadKeeps

LEMMA RowsKnown ==
  ASSUME PageInv, NEW l \in Loads, loads[l] # None
  PROVE  /\ loads[l].got \subseteq RowsOf(loads[l])
         /\ loads[l].kind = "tokens" => RowsOf(loads[l]) = hold[loads[l].by]
         /\ loads[l].kind = "positions" => RowsOf(loads[l]) = Positions[loads[l].by]
BY DEF PageInv, LoadsOfOneWallet, RowsOf

LEMMA PoolAnswersKeeps ==
  ASSUME PageInv, NEW l \in Loads, NEW p \in Pools, PoolAnswers(l, p)
  PROVE  PageInv'
<1> DEFINE x == [loads[l] EXCEPT !.left = @ \ {p}, !.got = IF Listed(l, p) THEN @ \cup {p} ELSE @]
<1>1. loads[l] # None /\ loads[l].kind = "tokens" /\ UNCHANGED <<session, hold, shown, flags>>
  BY DEF PoolAnswers, Asks
<1>2. loads[l] \in LoadRecords
  BY <1>1, LoadTyped DEF PageInv
<1>3. loads' = [loads EXCEPT ![l] = x]
  BY <1>2 DEF PoolAnswers, PageInv, PageTyped, LoadRecords
<1>4. x \in LoadRecords /\ x.kind = loads[l].kind /\ x.by = loads[l].by
      /\ x.got = IF Listed(l, p) THEN loads[l].got \cup {p} ELSE loads[l].got
  BY <1>2 DEF LoadRecords
<1> HIDE DEF x
<1>5. x.got \subseteq RowsOf(loads[l])
  BY <1>1, <1>4, RowsKnown DEF Listed
<1> QED
  BY <1>1, <1>3, <1>4, <1>5, QueryKeeps

LEMMA PositionAnswersKeeps ==
  ASSUME PageInv, NEW l \in Loads, NEW p \in Pools, PositionAnswers(l, p)
  PROVE  PageInv'
<1> DEFINE x == [loads[l] EXCEPT !.left = @ \ {p},
                                 !.got = @ \cup (Positions[loads[l].by] \cap {p})]
<1>1. loads[l] # None /\ loads[l].kind = "positions" /\ UNCHANGED <<session, hold, shown, flags>>
  BY DEF PositionAnswers, Asks
<1>2. loads[l] \in LoadRecords
  BY <1>1, LoadTyped DEF PageInv
<1>3. loads' = [loads EXCEPT ![l] = x]
  BY <1>2 DEF PositionAnswers, PageInv, PageTyped, LoadRecords
<1>4. x \in LoadRecords /\ x.kind = loads[l].kind /\ x.by = loads[l].by
      /\ x.got = loads[l].got \cup (Positions[loads[l].by] \cap {p})
  BY <1>2 DEF LoadRecords
<1> HIDE DEF x
<1>5. x.got \subseteq RowsOf(loads[l])
  BY <1>1, <1>4, RowsKnown
<1> QED
  BY <1>1, <1>3, <1>4, <1>5, QueryKeeps

LEMMA QueryFailsKeeps ==
  ASSUME PageInv, NEW l \in Loads, NEW p \in Pools, QueryFails(l, p)
  PROVE  PageInv'
<1> DEFINE x == [loads[l] EXCEPT !.left = @ \ {p}]
<1>1. loads[l] # None /\ UNCHANGED <<session, hold, shown, flags>>
  BY DEF QueryFails
<1>2. loads[l] \in LoadRecords
  BY <1>1, LoadTyped DEF PageInv
<1>3. loads' = [loads EXCEPT ![l] = x]
  BY <1>2 DEF QueryFails, PageInv, PageTyped, LoadRecords
<1>4. x \in LoadRecords /\ x.kind = loads[l].kind /\ x.by = loads[l].by /\ x.got = loads[l].got
  BY <1>2 DEF LoadRecords
<1> HIDE DEF x
<1> QED
  BY <1>1, <1>3, <1>4, RowsKnown, QueryKeeps

\* The token table is that of the wallet its load started with, whatever
\* wallet the positions are then asked for.
LEMMA TokensLoadedKeeps ==
  ASSUME PageInv, NEW l \in Loads, TokensLoaded(l)
  PROVE  PageInv'
<1> DEFINE rows  == loads[l].got
           again == rows # {}
           x     == IF again THEN PositionsLoad(address, rows) ELSE None
<1>1. /\ loads[l] # None /\ loads[l].kind = "tokens" /\ UNCHANGED <<session, hold, positions>>
      /\ tokens' = rows /\ loading' = FALSE /\ loads' = [loads EXCEPT ![l] = x]
      /\ positionsLoading' = (again \/ positionsLoading)
  BY DEF TokensLoaded, Done, Ended
<1>2. loads[l].by \in Accounts /\ rows \in SUBSET Pools /\ address \in Accounts /\ address # None
  BY <1>1, LoadTyped, SessionAssumption DEF PageInv, PageTyped, SessionType, AddressFirst
<1>3. TablesOfOneWallet' /\ tokens' \subseteq Pools /\ positions' \subseteq Pools
  BY <1>1, <1>2, RowsKnown DEF PageInv, PageTyped, TablesOfOneWallet
<1>4. /\ x \in {None} \cup LoadRecords /\ (x # None => x.got \subseteq RowsOf(x))
      /\ again => x # None /\ x.kind = "positions"
  <2>1. CASE again
    BY <1>2, <2>1, FreshLoad DEF PositionsLoad
  <2>2. CASE ~again
    BY <2>2
  <2> QED
    BY <2>1, <2>2
<1>5. positionsLoading \in BOOLEAN /\ again \in BOOLEAN
  BY DEF PageInv, PageTyped
<1> HIDE DEF x, again
<1>6. positionsLoading' \in BOOLEAN /\ (positionsLoading' => again \/ positionsLoading)
  BY <1>1, <1>5, Zenon
<1> QED
  BY <1>1, <1>2, <1>3, <1>4, <1>6, LoadKeeps

LEMMA PositionsLoadedKeeps ==
  ASSUME PageInv, NEW l \in Loads, PositionsLoaded(l)
  PROVE  PageInv'
<1>1. /\ loads[l] # None /\ loads[l].kind = "positions"
      /\ UNCHANGED <<session, hold, tokens, loading>>
      /\ positions' = loads[l].got /\ positionsLoading' = FALSE
      /\ loads' = [loads EXCEPT ![l] = None]
  BY DEF PositionsLoaded, Done
<1>2. loads[l].by \in Accounts /\ loads[l].got \subseteq Pools /\ address # None
  BY <1>1, LoadTyped DEF PageInv, AddressFirst
<1>3. TablesOfOneWallet' /\ tokens' \subseteq Pools /\ positions' \subseteq Pools
  BY <1>1, <1>2, RowsKnown DEF PageInv, PageTyped, TablesOfOneWallet
<1>4. loading \in BOOLEAN
  BY DEF PageInv, PageTyped
<1> QED
  BY <1>1, <1>2, <1>3, <1>4, LoadKeeps

\* What a wallet gets was in none of the tables wrongly.
LEMMA ReceiveKeeps ==
  ASSUME PageInv, Receive
  PROVE  PageInv'
<1>1. PICK a \in Accounts, p \in Pools : hold' = [hold EXCEPT ![a] = @ \cup {p}]
  BY DEF Receive
<1>2. UNCHANGED <<address, client, connecting, tokens, positions, loading, positionsLoading, loads>>
  BY DEF Receive, session, shown, flags
<1>3. hold \in [Accounts -> SUBSET Pools]
  BY DEF PageInv, PageTyped
<1>4. hold' \in [Accounts -> SUBSET Pools] /\ \A b \in Accounts : hold[b] \subseteq hold'[b]
  BY <1>1, <1>3
<1>5. PageTyped' /\ AddressFirst' /\ SpinnersHaveLoads'
  BY <1>2, <1>4 DEF PageInv, PageTyped, SessionType, AddressFirst, SpinnersHaveLoads
<1>6. TablesOfOneWallet'
  BY <1>2, <1>4 DEF PageInv, TablesOfOneWallet
<1>7. LoadsOfOneWallet'
  <2> SUFFICES ASSUME NEW l \in Loads, loads'[l] # None
               PROVE  (loads[l].got \subseteq RowsOf(loads[l]))'
    BY DEF LoadsOfOneWallet
  <2>1. loads[l] # None /\ loads'[l] = loads[l]
    BY <1>2
  <2>2. loads[l].by \in Accounts /\ loads[l].got \subseteq RowsOf(loads[l])
    BY <2>1, LoadTyped, RowsKnown DEF PageInv
  <2> QED
    BY <1>4, <2>1, <2>2 DEF RowsOf
<1> QED
  BY <1>5, <1>6, <1>7 DEF PageInv

LEMMA PageStep == PageInv /\ [Next]_vars => PageInv'
<1> SUFFICES ASSUME PageInv, [Next]_vars PROVE PageInv'
  OBVIOUS
<1>1. CASE \E a \in Accounts : Connects(a) \/ Reconnected(a)
  BY <1>1, ConnectsKeeps, ReconnectedKeeps
<1>2. CASE ConnectError \/ Refresh
  BY <1>2, ConnectErrorKeeps, RefreshKeeps
<1>3. CASE \E l \in Loads : Answers(l)
  BY <1>3, PoolAnswersKeeps, PositionAnswersKeeps, QueryFailsKeeps, TokensLoadedKeeps,
     PositionsLoadedKeeps DEF Answers
<1>4. CASE Receive
  BY <1>4, ReceiveKeeps
<1>5. CASE UNCHANGED vars
  <2>1. SessionType' /\ UNCHANGED <<address, client, connecting, hold, shown, flags, loads>>
    BY <1>5 DEF vars, session, PageInv, PageTyped, SessionType
  <2> QED
    BY <2>1, PageStays DEF PageInv, AddressFirst
<1> QED
  BY <1>1, <1>2, <1>3, <1>4, <1>5 DEF Next

-----------------------------------------------------------------------------
(* The theorems. *)

\* Every step of the wallet, of the loads and of the chain keeps the page
\* typed, an address before anything else, the rows of each load those of its
\* wallet, and each spinner with a load.
THEOREM PageInductive == Spec => []PageInv
<1>1. Init => PageInv
  <2> SUFFICES ASSUME Init PROVE PageInv
    OBVIOUS
  <2>1. PageTyped
    BY DEF Init, SessionInit, PageTyped, SessionType
  <2>2. AddressFirst /\ LoadsOfOneWallet /\ SpinnersHaveLoads
    BY DEF Init, SessionInit, AddressFirst, LoadsOfOneWallet, SpinnersHaveLoads
  <2>3. TablesOfOneWallet
    BY PortfolioAssumption DEF Init, TablesOfOneWallet
  <2> QED
    BY <2>1, <2>2, <2>3 DEF PageInv
<1> QED
  BY <1>1, PageStep, PTL DEF Spec

\* TablesOfOneWallet: however many loads of however many wallets overlap and
\* in whatever order they end, no table mixes two wallets.
THEOREM TablesNeverMix == Spec => []TablesOfOneWallet
<1>1. PageInv => TablesOfOneWallet
  BY DEF PageInv
<1> QED
  BY <1>1, PageInductive, PTL

\* SpinnersHaveLoads: a spinner that turns is one some running load will stop.
THEOREM SpinnersAlwaysHaveLoads == Spec => []SpinnersHaveLoads
<1>1. PageInv => SpinnersHaveLoads
  BY DEF PageInv
<1> QED
  BY <1>1, PageInductive, PTL
=============================================================================
