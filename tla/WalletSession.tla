---------------------------- MODULE WalletSession ----------------------------
(***************************************************************************)
(* The wallet session of a page (frontend/src/components/WalletConnect.tsx *)
(* and the client and address every page keeps).  connectToChain learns    *)
(* the account first and has a client only an await later; a second click  *)
(* does not wait for the first.                                            *)
(***************************************************************************)
EXTENDS Naturals, FiniteSets

CONSTANTS
  Accounts,     \* the accounts the wallet may answer with
  MaxConnects,  \* bound: calls of connectToChain at the same time
  None

ASSUME SessionAssumption ==
  /\ None \notin Accounts
  /\ MaxConnects \in Nat \ {0}

VARIABLES
  address,    \* the account the page shows
  client,     \* the account whose signer the page's client holds
  connecting  \* the accounts of the calls of connectToChain that await a client

session == <<address, client, connecting>>

SessionType ==
  /\ address \in Accounts \cup {None} /\ client \in Accounts \cup {None}
  /\ connecting \subseteq Accounts

SessionInit == address = None /\ client = None /\ connecting = {}

\* What every handler asks first.
Connected == client # None /\ address # None

\* A click, up to the answer of the wallet: setAddress, and on to the node.
\* A wallet that refuses changes nothing here.
WalletAnswers(a) ==
  /\ Cardinality(connecting) < MaxConnects
  /\ connecting' = connecting \cup {a}
  /\ address' = a /\ UNCHANGED client

\* connectWithSigner answered; setClient.
ClientConnects(a) ==
  /\ a \in connecting
  /\ connecting' = connecting \ {a}
  /\ client' = a /\ UNCHANGED address

\* connectWithSigner throws: the address of this call stays.
ConnectFails ==
  /\ \E c \in connecting : connecting' = connecting \ {c}
  /\ UNCHANGED <<address, client>>

\* The account that signs what a handler started with this pair sends: the
\* signer refuses another sender.
SignerFor(by, signer) == IF by = signer THEN by ELSE None
=============================================================================
