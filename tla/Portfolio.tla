------------------------------ MODULE Portfolio ------------------------------
(***************************************************************************)
(* The portfolio page (frontend/src/pages/Portfolio.tsx): it loads the     *)
(* tokens of the connected wallet from every configured pool, then the     *)
(* wallet's liquidity positions.  Effects start both loads again whenever  *)
(* the wallet, the client or the token list changes; loads overlap, work   *)
(* with what they captured, and the one that answers last is shown.        *)
(***************************************************************************)
EXTENDS WalletSession

CONSTANTS
  Pools,          \* POOL_ADDRESSES
  StandardPools,  \* those without a commit phase
  Positions,      \* the pools in which each account has a position
  Loads           \* bound: loads running at the same time

LoadRecords ==
  [kind : {"tokens", "positions"}, by : Accounts, left : SUBSET Pools, got : SUBSET Pools]

ASSUME PortfolioAssumption ==
  /\ Pools # {} /\ StandardPools \subseteq Pools
  /\ Accounts # {} /\ Positions \in [Accounts -> SUBSET Pools]
  /\ None \notin Loads \cup LoadRecords

VARIABLES
  hold,              \* the pools of whose creator token each account has some
  tokens,            \* the rows of the token table: a set of pools
  positions,         \* the rows of the position table: a set of pools
  loading,           \* of the tokens
  positionsLoading,
  loads              \* the running loads, each a LoadOf(...), or None

shown == <<tokens, positions>>
flags == <<loading, positionsLoading>>
vars  == <<session, hold, shown, flags, loads>>

Init ==
  /\ SessionInit
  /\ hold = [a \in Accounts |-> {}]
  /\ tokens = {} /\ positions = {}
  /\ loading = FALSE /\ positionsLoading = FALSE
  /\ loads = [l \in Loads |-> None]

-----------------------------------------------------------------------------
(* Starting loads. *)

Free == {l \in Loads : loads[l] = None}

\* A load of account by: the pools it has still to ask, and the rows it has.
LoadOf(kind, by, pools) ==
  [kind |-> kind, by |-> by, left |-> pools, got |-> {}]

TokensLoad(by) == LoadOf("tokens", by, Pools)

\* The pools of the tokens the page knows about.
PositionsLoad(by, rows) == LoadOf("positions", by, rows)

\* The two effects of a change of wallet or client, once both are there; the
\* second is for a page that lists tokens already.
SessionChanged ==
  IF client' = None \/ address' = None
  THEN UNCHANGED <<flags, loads>>
  ELSE /\ loading' = TRUE
       /\ \E l \in Free :
            IF tokens = {}
            THEN /\ loads' = [loads EXCEPT ![l] = TokensLoad(address')]
                 /\ UNCHANGED positionsLoading
            ELSE \E k \in Free \ {l} :
                   /\ loads' = [loads EXCEPT ![l] = TokensLoad(address'),
                                             ![k] = PositionsLoad(address', tokens)]
                   /\ positionsLoading' = TRUE

\* React runs the effects of a new address only, and of every new client.
Connects(a) ==
  /\ WalletAnswers(a)
  /\ IF a = address THEN UNCHANGED <<flags, loads>> ELSE SessionChanged
  /\ UNCHANGED <<hold, shown>>

Reconnected(a) ==
  /\ ClientConnects(a) /\ SessionChanged
  /\ UNCHANGED <<hold, shown>>

ConnectError == ConnectFails /\ UNCHANGED <<hold, shown, flags, loads>>

\* The button is there for a connected wallet and disabled while loading.
Refresh ==
  /\ Connected /\ ~loading
  /\ loading' = TRUE
  /\ \E l \in Free : loads' = [loads EXCEPT ![l] = TokensLoad(address)]
  /\ UNCHANGED <<session, hold, shown, positionsLoading>>

-----------------------------------------------------------------------------
(* The loads. *)

Asks(l, kind, p) == loads[l] # None /\ loads[l].kind = kind /\ p \in loads[l].left
Done(l, kind)    == loads[l] # None /\ loads[l].kind = kind /\ loads[l].left = {}

\* Seeded fault: the balance asked for is the one of the wallet connected now.
ListedNow(l, p) == p \in hold[address]

\* The balance asked for is the one of the wallet the load started with.
Listed(l, p) == p \in hold[loads[l].by]

\* A commit pool answers pair, balance, token info and threshold status; the
\* answers are those of one moment.
PoolAnswers(l, p) ==
  /\ Asks(l, "tokens", p) /\ p \notin StandardPools
  /\ loads' = [loads EXCEPT ![l].left = @ \ {p},
                            ![l].got  = IF Listed(l, p) THEN @ \cup {p} ELSE @]
  /\ UNCHANGED <<session, hold, shown, flags>>

\* A query fails, and this load leaves the pool out: the null it makes is
\* filtered from the rows.  A standard pool knows no
\* is_fully_commited, so its token is never listed.
QueryFails(l, p) ==
  /\ loads[l] # None /\ p \in loads[l].left
  /\ loads' = [loads EXCEPT ![l].left = @ \ {p}]
  /\ UNCHANGED <<session, hold, shown, flags>>

\* Seeded fault: only a load that found something ends the spinner.
EndedWhenFound(rows) == IF rows = {} THEN loading ELSE FALSE

\* setLoading(false), whatever was found.
Ended(rows) == FALSE

\* setTokens; the new list starts the positions, with the wallet of now.
TokensLoaded(l) ==
  /\ Done(l, "tokens")
  /\ tokens' = loads[l].got
  /\ loading' = Ended(loads[l].got)
  /\ LET again == loads[l].got # {}
     IN /\ loads' = [loads EXCEPT ![l] =
                       IF again THEN PositionsLoad(address, loads[l].got) ELSE None]
        /\ positionsLoading' = (again \/ positionsLoading)
  /\ UNCHANGED <<session, hold, positions>>

PositionAnswers(l, p) ==
  /\ Asks(l, "positions", p)
  /\ loads' = [loads EXCEPT ![l].left = @ \ {p},
                            ![l].got  = @ \cup (Positions[loads[l].by] \cap {p})]
  /\ UNCHANGED <<session, hold, shown, flags>>

PositionsLoaded(l) ==
  /\ Done(l, "positions")
  /\ positions' = loads[l].got
  /\ positionsLoading' = FALSE
  /\ loads' = [loads EXCEPT ![l] = None]
  /\ UNCHANGED <<session, hold, tokens, loading>>

-----------------------------------------------------------------------------
(* The chain.  Bound: nobody's balance goes back to nothing. *)

Receive ==
  /\ \E a \in Accounts, p \in Pools : hold' = [hold EXCEPT ![a] = @ \cup {p}]
  /\ UNCHANGED <<session, shown, flags, loads>>

Answers(l) ==
  \/ \E p \in Pools : PoolAnswers(l, p) \/ PositionAnswers(l, p) \/ QueryFails(l, p)
  \/ TokensLoaded(l) \/ PositionsLoaded(l)

Next ==
  \/ \E a \in Accounts : Connects(a) \/ Reconnected(a)
  \/ ConnectError \/ Refresh
  \/ \E l \in Loads : Answers(l)
  \/ Receive

Spec == Init /\ [][Next]_vars

-----------------------------------------------------------------------------
(* Properties. *)

\* Both tables come from one wallet each: changing wallets while loads run
\* never mixes what two wallets have into one table.
TablesOfOneWallet ==
  /\ \E a \in Accounts : tokens \subseteq hold[a]
  /\ \E a \in Accounts : positions \subseteq Positions[a]

\* A spinner turns only while a load of its kind runs, whatever fails and
\* however loads overlap: neither is left turning, nor the refresh disabled.
SpinnersHaveLoads ==
  /\ loading => \E l \in Loads : loads[l] # None /\ loads[l].kind = "tokens"
  /\ positionsLoading => \E l \in Loads : loads[l] # None /\ loads[l].kind = "positions"
=============================================================================
