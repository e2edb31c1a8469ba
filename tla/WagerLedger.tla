------------------------------ MODULE WagerLedger ------------------------------
(***************************************************************************)
(* The durable state of the wager service (the PostgreSQL tables) and the  *)
(* specification of what the service promises about it: every accepted     *)
(* command takes effect as if it had read the wallet, the referenced       *)
(* transaction and the compensation claims, and written its outcome, in    *)
(* one indivisible step.  WagerService.tla splits those steps at the       *)
(* points where concurrent database transactions interleave, and           *)
(* implements this specification.                                          *)
(*                                                                         *)
(* A request is one call of a submit use case.  financial.NewTransactionID *)
(* gives each attempt a fresh identity and a request persists at most one  *)
(* transaction, so the request also names the row it may create.  The one  *)
(* OPENING transaction of a wallet is named by the wallet.                 *)
(***************************************************************************)
EXTENDS Resolution, Integers, Sequences, FiniteSets

CONSTANTS
  Requests,         \* submit calls
  Wallets,          \* wallet identities
  Messages,         \* broker message identities
  Http,             \* "not delivered by the broker"
  Commands,         \* what providers may submit
  Owners,           \* [player, currency] pairs
  NoOwner,          \* the owner of a wallet that does not exist
  OpeningBalances,  \* initial balances a wallet may be opened with
  MaxMoney,         \* the largest amount of minor units (int64 in the code)
  NoTxn,            \* NULL transaction reference
  NoDelivery,       \* no inbox row
  MaxCorrupt        \* bound: rows damaged from outside
ASSUME LedgerAssumptions ==
  /\ MaxMoney \in Nat
  /\ MaxCorrupt \in Nat
  /\ OpeningBalances \subseteq 0..MaxMoney
  /\ \A c \in Commands :
       /\ c.wallet \in Wallets
       /\ c.amount \in 0..MaxMoney
       /\ ValidCommand(c)
  /\ NoTxn \notin Requests
  /\ Requests \cap Wallets = {}
  /\ Http \notin Messages
  /\ NoOwner \notin Owners
  /\ NoDelivery \notin Commands

VARIABLES
  cmd,       \* [Requests -> Commands], the command a request carries
  msg,       \* [Requests -> Messages \cup {Http}], how it arrived
  owner,     \* wallets: owner, balance and version
  balance,
  version,
  state,     \* wager_transactions: state, failure code, observed balance
  code,      \*   and resolved reference
  observed,
  refTxn,
  late,      \* the pending transactions whose 24-hour deadline has passed
  corrupt,   \* the rows that no longer rehydrate
  ledger,    \* wallet_ledger_entries, per wallet in commit order
  claims,    \* reversal_claims
  events,    \* outbox_events, per transaction in insertion order
  inbox      \* inbox_deliveries: the body first received under a message id

inputVars  == <<cmd, msg>>
walletVars == <<owner, balance, version, ledger, claims>>
txnVars    == <<state, code, observed, refTxn>>
ledgerVars == <<inputVars, walletVars, txnVars, late, corrupt, events, inbox>>

NoBalance == -1     \* a NULL observedBalance

States == {"ABSENT", "PENDING_REFERENCE"} \cup Terminal

EventTypes == {"Processed", "Rejected", "BalanceChanged", "PendingReference"}

Entries ==
  [txn : Requests \cup Wallets, dir : Directions, amount : Nat,
   before : Nat, after : Nat]

LedgerTypeOK ==
  /\ cmd \in [Requests -> Commands]
  /\ msg \in [Requests -> Messages \cup {Http}]
  /\ owner \in [Wallets -> Owners \cup {NoOwner}]
  /\ balance \in [Wallets -> 0..MaxMoney]
  /\ version \in [Wallets -> Nat]
  /\ state \in [Requests -> States]
  /\ code \in [Requests -> FailureCodes \cup {"none"}]
  /\ observed \in [Requests -> (0..MaxMoney) \cup {NoBalance}]
  /\ refTxn \in [Requests -> Requests \cup {NoTxn}]
  /\ late \in SUBSET Requests
  /\ corrupt \in SUBSET Requests
  /\ ledger \in [Wallets -> Seq(Entries)]
  /\ claims \in SUBSET [reference : Requests, reversal : Requests]
  /\ events \in [Requests \cup Wallets -> Seq(EventTypes)]
  /\ inbox \in [Messages -> Commands \cup {NoDelivery}]

LedgerInit ==
  /\ cmd \in [Requests -> Commands]
  /\ msg \in [Requests -> Messages \cup {Http}]
  /\ owner = [w \in Wallets |-> NoOwner]
  /\ balance = [w \in Wallets |-> 0]
  /\ version = [w \in Wallets |-> 0]
  /\ state = [t \in Requests |-> "ABSENT"]
  /\ code = [t \in Requests |-> "none"]
  /\ observed = [t \in Requests |-> NoBalance]
  /\ refTxn = [t \in Requests |-> NoTxn]
  /\ late = {}
  /\ corrupt = {}
  /\ ledger = [w \in Wallets |-> <<>>]
  /\ claims = {}
  /\ events = [x \in Requests \cup Wallets |-> <<>>]
  /\ inbox = [m \in Messages |-> NoDelivery]

-------------------------------------------------------------------------------
(* Reading the tables                                                      *)

Committed == {t \in Requests : state[t] # "ABSENT"}

SameKey(t, u) ==
  cmd[t].provider = cmd[u].provider /\ cmd[t].key = cmd[u].key

SameExternal(t, u) ==
  cmd[t].provider = cmd[u].provider /\ cmd[t].ext = cmd[u].ext

\* A row the unique indexes put in conflict with the row of t.
Collides(t, u) == SameKey(t, u) \/ SameExternal(t, u)

\* Mutant: neither the lookup nor the unique index knows a claim.
NeverClaimed(r) == FALSE

\* Mutant: the lookup forgets which transaction it asks about.
ClaimedByAny(r) == claims # {}

Claimed(r) == \E c \in claims : c.reference = r

\* The rows t's reference names: committed ones, and t's own, which its
\* transaction has already inserted.
ReferencesOf(t) ==
  {u \in Committed \cup {t} :
     /\ cmd[u].provider = cmd[t].provider
     /\ cmd[u].ext = cmd[t].ref}

StateSeenBy(t, u) ==
  IF u = t /\ state[u] = "ABSENT" THEN "PENDING" ELSE state[u]

\* What a use case decides to do, and the transaction it resolved, if any.
Decisions == [plan : Plans, ref : Requests \cup {NoTxn}]

Defer == [plan |-> Pending, ref |-> NoTxn]

\* loadReference and planOperation: the decision about t when it resolves to
\* row r; bad are the rows found corrupt.
DecisionAgainst(t, r, bad) ==
  LET plan == IF r \in bad THEN Failed
              ELSE ClassifyAgainst(cmd[t], cmd[r], StateSeenBy(t, r), Claimed(r))
  IN  [plan |-> plan, ref |-> IF plan \in {Pending, Failed} THEN NoTxn ELSE r]

Decide(t, bad) ==
  IF ~NeedsReference(cmd[t])
    THEN [plan |-> ClassifyAlone(cmd[t]), ref |-> NoTxn]
  ELSE IF ReferencesOf(t) = {} THEN Defer
  ELSE DecisionAgainst(t, CHOOSE r \in ReferencesOf(t) : TRUE, bad)

-------------------------------------------------------------------------------
(* Writing the tables: the effects of one decision about transaction t,    *)
(* given the balance b and version v of its wallet as the use case read    *)
(* them under the row lock.                                                *)

\* Mutant: the update leaves observed_balance out.
PersistUnobserved(t, st, cd, r, b) ==
  /\ state' = [state EXCEPT ![t] = st]
  /\ code' = [code EXCEPT ![t] = cd]
  /\ refTxn' = [refTxn EXCEPT ![t] = r]
  /\ UNCHANGED observed

Persist(t, st, cd, r, b) ==
  /\ state' = [state EXCEPT ![t] = st]
  /\ code' = [code EXCEPT ![t] = cd]
  /\ refTxn' = [refTxn EXCEPT ![t] = r]
  /\ observed' = [observed EXCEPT ![t] = b]

Emit(x, types) == events' = [events EXCEPT ![x] = @ \o types]

Wait(t) ==
  /\ Persist(t, "PENDING_REFERENCE", "none", NoTxn, NoBalance)
  /\ Emit(t, <<"PendingReference">>)
  /\ UNCHANGED walletVars

Reject(t, cd, r, b) ==
  /\ Persist(t, "REJECTED", cd, r, b)
  /\ Emit(t, <<"Rejected">>)
  /\ UNCHANGED walletVars

Settle(t, r, b) ==
  /\ Persist(t, "PROCESSED", "none", r, b)
  /\ Emit(t, <<"Processed">>)
  /\ UNCHANGED walletVars

\* A corrupt reference: FAILED, with no event.
MarkFailed(t, b) ==
  /\ Persist(t, "FAILED", "PERMANENT_INFRASTRUCTURE_FAILURE", NoTxn, b)
  /\ UNCHANGED <<walletVars, events>>

After(b, dir, amount) == IF dir = "CREDIT" THEN b + amount ELSE b - amount

Move(t, plan, r, b, v) ==
  LET w == cmd[t].wallet
      a == cmd[t].amount
      after == After(b, plan.dir, a)
      entry == [txn |-> t, dir |-> plan.dir, amount |-> a,
                before |-> b, after |-> after]
  IN  /\ Persist(t, "PROCESSED", "none", r, after)
      /\ balance' = [balance EXCEPT ![w] = after]
      /\ version' = [version EXCEPT ![w] = v + 1]
      /\ ledger' = [ledger EXCEPT ![w] = Append(@, entry)]
      /\ claims' = IF plan.claim
                   THEN claims \cup {[reference |-> r, reversal |-> t]}
                   ELSE claims
      /\ Emit(t, <<"Processed", "BalanceChanged">>)
      /\ UNCHANGED owner

\* Mutant: a debit may take one more than there is.
InsufficientByOne(t, plan, b) == plan.dir = "DEBIT" /\ b + 1 < cmd[t].amount

Insufficient(t, plan, b) == plan.dir = "DEBIT" /\ b < cmd[t].amount

InsufficientCode(t) ==
  IF cmd[t].kind = "BET" THEN "INSUFFICIENT_FUNDS"
  ELSE "REVERSAL_INSUFFICIENT_FUNDS"

\* money.Add refuses the credit; the use case gives up without an outcome.
Overflows(t, plan, b) ==
  plan.outcome = "move" /\ plan.dir = "CREDIT" /\ b + cmd[t].amount > MaxMoney

Execute(t, d, b, v) ==
  \/ d.plan.outcome = "pending" /\ Wait(t)
  \/ d.plan.outcome = "reject"  /\ Reject(t, d.plan.code, d.ref, b)
  \/ d.plan.outcome = "settle"  /\ Settle(t, d.ref, b)
  \/ d.plan.outcome = "fail"    /\ MarkFailed(t, b)
  \/ /\ d.plan.outcome = "move"
     /\ Insufficient(t, d.plan, b)
     /\ Reject(t, InsufficientCode(t), d.ref, b)
  \/ /\ d.plan.outcome = "move"
     /\ ~Insufficient(t, d.plan, b)
     /\ ~Overflows(t, d.plan, b)
     /\ Move(t, d.plan, d.ref, b, v)

\* Inbox.Begin and Inbox.Complete of the delivery that carried request q.
RecordDelivery(q) ==
  inbox' = IF msg[q] = Http THEN inbox ELSE [inbox EXCEPT ![msg[q]] = cmd[q]]

DeliveryIsNew(q) == msg[q] = Http \/ inbox[msg[q]] = NoDelivery

-------------------------------------------------------------------------------
(* The promised behaviour                                                  *)

\* A decision the service may take now: the one the tables dictate, except
\* that a reference that lives on another wallet is not covered by the wallet
\* lock, so it may still be treated as missing, and that a row may become
\* corrupt after it was read.
Permitted(t) ==
  {Decide(t, corrupt), Decide(t, {})}
    \cup {d \in {Defer} : /\ NeedsReference(cmd[t])
                          /\ \A r \in ReferencesOf(t) :
                               cmd[r].wallet # cmd[t].wallet}

OpenWallet(w, o, b) ==
  /\ owner[w] = NoOwner
  /\ \A v \in Wallets : owner[v] # o
  /\ owner' = [owner EXCEPT ![w] = o]
  /\ balance' = [balance EXCEPT ![w] = b]
  /\ version' = [version EXCEPT ![w] = 1]
  /\ IF b > 0
     THEN /\ ledger' = [ledger EXCEPT ![w] =
                <<[txn |-> w, dir |-> "CREDIT", amount |-> b,
                   before |-> 0, after |-> b]>>]
          /\ Emit(w, <<"Processed", "BalanceChanged">>)
     ELSE UNCHANGED <<ledger, events>>
  /\ UNCHANGED <<inputVars, txnVars, late, corrupt, claims, inbox>>

\* The first accepted submission of a command.
Accept(t) ==
  LET w == cmd[t].wallet IN
  /\ state[t] = "ABSENT"
  /\ \A u \in Committed : ~Collides(t, u)
  /\ owner[w] # NoOwner
  /\ owner[w].currency = cmd[t].currency
  /\ DeliveryIsNew(t)
  /\ \E d \in Permitted(t) : Execute(t, d, balance[w], version[w])
  /\ RecordDelivery(t)
  /\ UNCHANGED <<inputVars, late, corrupt>>

\* A broker delivery of a command that was accepted before.
AcceptReplay(q) ==
  /\ msg[q] # Http
  /\ inbox[msg[q]] = NoDelivery
  /\ \E u \in Committed : SameKey(q, u) /\ Digest(cmd[q]) = Digest(cmd[u])
  /\ RecordDelivery(q)
  /\ UNCHANGED <<inputVars, walletVars, txnVars, late, corrupt, events>>

\* A waiting transaction gets its outcome, or expires.
ResolveWaiting(t) ==
  LET w == cmd[t].wallet IN
  /\ state[t] = "PENDING_REFERENCE"
  /\ \E d \in Permitted(t) :
       \/ d # Defer /\ Execute(t, d, balance[w], version[w])
       \/ /\ d = Defer
          /\ t \in late
          /\ Reject(t, "REFERENCE_NOT_FOUND", NoTxn, balance[w])
  /\ UNCHANGED <<inputVars, late, corrupt, inbox>>

PassDeadline(t) ==
  /\ state[t] = "PENDING_REFERENCE"
  /\ t \notin late
  /\ late' = late \cup {t}
  /\ UNCHANGED <<inputVars, walletVars, txnVars, corrupt, events, inbox>>

\* A stored row stops rehydrating (damage done outside the service).
Corrupt(t) ==
  /\ t \in Committed \ corrupt
  /\ Cardinality(corrupt) < MaxCorrupt
  /\ corrupt' = corrupt \cup {t}
  /\ UNCHANGED <<inputVars, walletVars, txnVars, late, events, inbox>>

LedgerNext ==
  \/ \E w \in Wallets, o \in Owners, b \in OpeningBalances : OpenWallet(w, o, b)
  \/ \E t \in Requests :
       \/ Accept(t)
       \/ AcceptReplay(t)
       \/ ResolveWaiting(t)
       \/ PassDeadline(t)
       \/ Corrupt(t)

LedgerSpec == LedgerInit /\ [][LedgerNext]_ledgerVars

-------------------------------------------------------------------------------
(* What follows for the tables                                             *)

Processed(t) == state[t] = "PROCESSED"

\* One idempotency key and one external identity of a provider never get two
\* transactions, whatever the race (service.go:205-236).
IdentityUnique ==
  \A t, u \in Committed : t # u => ~Collides(t, u)

\* The wallet's balance is the one its ledger ends with, every entry starts
\* from where the last one ended, and the version counts the movements after
\* the opening: no movement is lost or applied twice (service.go:554-626).
LedgerChain ==
  \A w \in Wallets :
    LET L == ledger[w]
        before(i) == IF i = 1 THEN 0 ELSE L[i - 1].after
    IN  /\ balance[w] = before(Len(L) + 1)
        /\ \A i \in 1..Len(L) :
             /\ L[i].before = before(i)
             /\ L[i].after = After(L[i].before, L[i].dir, L[i].amount)
             /\ L[i].amount > 0
        /\ owner[w] # NoOwner =>
             version[w] = Len(L) + (IF L # <<>> /\ L[1].txn = w THEN 0 ELSE 1)

\* Ledger and transactions agree: an entry belongs to a PROCESSED transaction
\* of its wallet, for that amount, and shows the balance the caller was told;
\* every PROCESSED transaction that moves money has exactly one entry.
LedgerMatchesTransactions ==
  /\ \A w \in Wallets : \A i \in 1..Len(ledger[w]) :
       LET e == ledger[w][i] IN
       e.txn # w =>
         /\ Processed(e.txn)
         /\ cmd[e.txn].wallet = w
         /\ cmd[e.txn].amount = e.amount
         /\ observed[e.txn] = e.after
         /\ \A j \in 1..Len(ledger[w]) : ledger[w][j].txn = e.txn => j = i
  /\ \A t \in Requests :
       Processed(t) /\ cmd[t].kind # "LOSS" =>
         \E i \in 1..Len(ledger[cmd[t].wallet]) : ledger[cmd[t].wallet][i].txn = t

\* A transaction is compensated at most once, by an operation of the same
\* amount, player, round and wallet, and only while it is PROCESSED; every
\* processed dependent rests on a processed reference (resolve.go:72-121).
CompensatedOnce ==
  /\ \A t \in Requests : Processed(t) /\ refTxn[t] # NoTxn =>
       /\ Processed(refTxn[t])
       /\ SameIdentity(cmd[t], cmd[refTxn[t]])
  /\ \A t \in Requests : Processed(t) /\ cmd[t].kind \in ReversalKinds =>
       /\ refTxn[t] # NoTxn
       /\ cmd[t].amount = cmd[refTxn[t]].amount
       /\ \A u \in Requests \ {t} :
            Processed(u) /\ cmd[u].kind \in ReversalKinds =>
              refTxn[u] # refTxn[t]

\* Money comes back the way it went: in the ledger of its wallet a processed
\* reversal stands after the transaction it reverses, with the same amount the
\* other way (resolve.go:109-114, service.go:554-626).
ReversalsUndo ==
  \A t \in Requests : Processed(t) /\ cmd[t].kind \in ReversalKinds =>
    LET L == ledger[cmd[t].wallet] IN
    \E i, j \in 1..Len(L) :
      /\ i < j /\ L[i].txn = refTxn[t] /\ L[j].txn = t
      /\ L[i].amount = L[j].amount /\ L[i].dir # L[j].dir

\* A rejection stays true: the funds did not cover the amount, the deadline
\* had passed, the reference has failed for good, another reversal took effect
\* instead, or the reference does not fit (resolve.go:72-121,
\* service.go:320-322, 566-581).  A claim that did not last, or a reason
\* computed from rows that changed before the commit, would break it.
RejectionsTrue ==
  \A t \in Requests : state[t] = "REJECTED" =>
    LET r == refTxn[t] IN
    CASE code[t] \in {"INSUFFICIENT_FUNDS", "REVERSAL_INSUFFICIENT_FUNDS"} ->
           observed[t] < cmd[t].amount
      [] code[t] = "REFERENCE_NOT_FOUND" -> r = NoTxn /\ t \in late
      [] code[t] = "REFERENCE_NOT_PROCESSED" ->
           r # NoTxn /\ state[r] \in {"REJECTED", "FAILED"}
      [] code[t] = "ALREADY_REVERSED" ->
           \E u \in Requests :
             Processed(u) /\ cmd[u].kind \in ReversalKinds /\ refTxn[u] = r
      [] OTHER -> r # NoTxn /\ code[t] = ReferenceFault(cmd[t], cmd[r])

\* The outbox tells each transaction's story once and in order: the wait if
\* there was one, then exactly the events of its outcome (service.go:503-641).
OutcomeEvents(t) ==
  CASE state[t] = "PROCESSED" /\ cmd[t].kind = "LOSS" -> <<"Processed">>
    [] state[t] = "PROCESSED" /\ cmd[t].kind # "LOSS" ->
         <<"Processed", "BalanceChanged">>
    [] state[t] = "REJECTED" -> <<"Rejected">>
    [] OTHER -> <<>>

EventsTellOutcome ==
  \A t \in Requests :
    \/ state[t] # "PENDING_REFERENCE" /\ events[t] = OutcomeEvents(t)
    \/ /\ state[t] # "ABSENT" /\ NeedsReference(cmd[t])
       /\ events[t] = <<"PendingReference">> \o OutcomeEvents(t)

\* No inbox row without the durable result of its command (service.go:44-49).
InboxBacked ==
  \A m \in Messages : inbox[m] # NoDelivery =>
    \E t \in Committed :
      /\ cmd[t].provider = inbox[m].provider
      /\ cmd[t].key = inbox[m].key
      /\ Digest(cmd[t]) = Digest(inbox[m])

\* Terminal transactions are immutable, a committed row never disappears and
\* never goes back to waiting (wager.go:453-470).
TerminalFrozen ==
  [][\A t \in Requests :
       /\ state[t] \in Terminal =>
            /\ state'[t] = state[t]
            /\ code'[t] = code[t]
            /\ observed'[t] = observed[t]
            /\ refTxn'[t] = refTxn[t]
            /\ events'[t] = events[t]
       /\ state[t] = "PENDING_REFERENCE" =>
            state'[t] \in Terminal \cup {"PENDING_REFERENCE"}]_ledgerVars
===============================================================================
