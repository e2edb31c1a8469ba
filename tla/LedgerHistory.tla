------------------------------- MODULE LedgerHistory -------------------------------
(***************************************************************************)
(* One wallet read while it moves: ledger pages that follow a cursor and   *)
(* reconciliation (LedgerPage, ReconcileWallet), with the instants that    *)
(* the instances of the service write into its rows.  Each instance has    *)
(* its own clock; the order of a ledger page is the order of their         *)
(* instants, that of the chain the order of the commits.                   *)
(***************************************************************************)
EXTENDS Integers, FiniteSets, SequencesExt

CONSTANTS
  Instances,        \* numbers, which also order the entry ids (see Before)
  OpeningBalances,
  Amounts,          \* what one movement credits or debits
  PageSize,         \* limit
  MaxMoney,         \* the largest int64
  None,             \* no row, no cursor, no snapshot, no report
  MaxSkew,          \* bound: how far ahead a clock may be
  MaxTime,          \* bound: how long time passes by itself
  MaxEntries        \* bound: length of the ledger

\* The rows of wallets and of wallet_ledger_entries.
Rows == [balance : 0..MaxMoney, version : Nat \ {0}, createdAt : Nat, updatedAt : Nat]

Entries == [direction : {"CREDIT", "DEBIT"}, amount : 1..MaxMoney, createdAt : Nat,
            by : Instances]

ASSUME HistoryAssumptions ==
  /\ Instances \subseteq Nat /\ MaxMoney \in Nat /\ PageSize \in Nat \ {0}
  /\ OpeningBalances \subseteq 0..MaxMoney /\ Amounts \subseteq 1..MaxMoney
  /\ {MaxSkew, MaxTime} \subseteq Nat /\ MaxEntries \in Nat \ {0}
  /\ None \notin Rows \cup Entries \cup Int

VARIABLES
  now, skew,  \* the time, and how far each instance's clock is ahead of it
  wallet,     \* its row,
  ledger,     \*   and its entries as they were committed
  pc,         \* the call an instance makes: idle, opening or locked
  stamp,      \*   the instant it has read
  view,       \*   and the row it has locked
  audit,      \* the snapshot a reconciliation reads from
  difference, \*   and the result of the last one
  walk        \* a client that reads the ledger page by page

clocks == <<now, skew>>
calls  == <<pc, stamp, view>>
checks == <<audit, difference>>
vars   == <<clocks, wallet, ledger, calls, checks, walk>>

Init ==
  /\ now = 0 /\ skew \in [Instances -> 0..MaxSkew]
  /\ wallet = None /\ ledger = <<>>
  /\ pc = [i \in Instances |-> "idle"]
  /\ stamp = [i \in Instances |-> 0]
  /\ view = [i \in Instances |-> None]
  /\ audit = None /\ difference = 0
  /\ walk = [state |-> "idle", cursor |-> None, seen |-> <<>>, known |-> 0]

Clock(i) == now + skew[i]

\* What a call has read is forgotten with it.
Done(i) ==
  /\ pc' = [pc EXCEPT ![i] = "idle"]
  /\ stamp' = [stamp EXCEPT ![i] = 0]
  /\ view' = [view EXCEPT ![i] = None]

-------------------------------------------------------------------------------
(* Movements                                                               *)

\* OpenWallet reads the clock before its transaction.
Open(i) ==
  /\ pc[i] = "idle" /\ wallet = None
  /\ pc' = [pc EXCEPT ![i] = "opening"]
  /\ stamp' = [stamp EXCEPT ![i] = Clock(i)]
  /\ UNCHANGED <<clocks, wallet, ledger, view, checks, walk>>

Entry(i, direction, amount) ==
  [direction |-> direction, amount |-> amount, createdAt |-> stamp[i], by |-> i]

NewWallet(b, t) == [balance |-> b, version |-> 1, createdAt |-> t, updatedAt |-> t]

\* The second of two openings finds the wallet and is refused.  A zero balance
\* makes no entry.
CommitOpen(i) ==
  /\ pc[i] = "opening"
  /\ \E b \in OpeningBalances :
       IF wallet # None THEN UNCHANGED <<now, wallet, ledger>>
       ELSE /\ wallet' = NewWallet(b, stamp[i])
            /\ ledger' = IF b > 0 THEN <<Entry(i, "CREDIT", b)>> ELSE <<>>
            /\ now' = now + 1
  /\ Done(i)
  /\ UNCHANGED <<skew, checks, walk>>

\* RehydrateWallet refuses a row that was updated before it was created.
Rehydrates(w) == w # None /\ w.updatedAt >= w.createdAt

Unlocked == \A i \in Instances : pc[i] # "locked"

LockUnheld(i) ==
  /\ pc[i] = "idle" /\ Rehydrates(wallet)
  /\ pc' = [pc EXCEPT ![i] = "locked"]
  /\ stamp' = [stamp EXCEPT ![i] = Clock(i)]
  /\ view' = [view EXCEPT ![i] = wallet]
  /\ UNCHANGED <<clocks, wallet, ledger, checks, walk>>

\* submitWithinTx and ResolvePendingReference lock the wallet, then read the
\* clock.  A row that does not rehydrate fails the call.
Lock(i) ==
  /\ pc[i] = "idle" /\ Unlocked /\ Rehydrates(wallet)
  /\ pc' = [pc EXCEPT ![i] = "locked"]
  /\ stamp' = [stamp EXCEPT ![i] = Clock(i)]
  /\ view' = [view EXCEPT ![i] = wallet]
  /\ UNCHANGED <<clocks, wallet, ledger, checks, walk>>

AffordableBefore(w, direction, amount) ==
  IF direction = "CREDIT" THEN w.balance + amount <= MaxMoney ELSE w.balance + 1 >= amount

\* Wallet.Credit refuses an overflow, Wallet.Debit an overdraft.
Affordable(w, direction, amount) ==
  IF direction = "CREDIT" THEN w.balance + amount <= MaxMoney ELSE w.balance >= amount

\* Credit and Debit; createdAt stays.
Moved(w, direction, amount, t) ==
  [w EXCEPT !.balance = IF direction = "CREDIT" THEN @ + amount ELSE @ - amount,
            !.version = @ + 1,
            !.updatedAt = t]

\* SaveBalance and the entry, in one commit.  It takes longer than the clocks'
\* resolution.
CommitMove(i) ==
  /\ pc[i] = "locked" /\ Len(ledger) < MaxEntries
  /\ \E amount \in Amounts, direction \in {"CREDIT", "DEBIT"} :
       /\ Affordable(view[i], direction, amount)
       /\ ledger' = Append(ledger, Entry(i, direction, amount))
       /\ wallet' = Moved(view[i], direction, amount, stamp[i])
  /\ now' = now + 1
  /\ Done(i)
  /\ UNCHANGED <<skew, checks, walk>>

\* The call fails, or its command moves no money; nothing of it stays.
Abort(i) ==
  /\ pc[i] # "idle"
  /\ Done(i)
  /\ UNCHANGED <<clocks, wallet, ledger, checks, walk>>

Tick ==
  /\ now < MaxTime
  /\ now' = now + 1
  /\ UNCHANGED <<skew, wallet, ledger, calls, checks, walk>>

-------------------------------------------------------------------------------
(* The order of the ledger                                                 *)

BeforeById(d, e) == d.by < e.by \/ (d.by = e.by /\ d.createdAt < e.createdAt)

\* ("createdAt", "id").  Two entries of one instant come from two instances, and
\* their ids are in any order: the instances' numbers stand for it.
Before(d, e) ==
  d.createdAt < e.createdAt \/ (d.createdAt = e.createdAt /\ d.by < e.by)

\* ORDER BY.
Ordered(S) ==
  CHOOSE rows \in [1..Cardinality(S) -> S] :
    \A m, n \in DOMAIN rows : m < n => Before(rows[m], rows[n])

-------------------------------------------------------------------------------
(* Reconciliation                                                          *)

\* The first statement of ReconcileRead reads the wallet, and fixes what the
\* transaction sees.
ReadBalance ==
  /\ audit = None /\ wallet # None
  /\ audit' = [balance |-> wallet.balance, entries |-> ledger]
  /\ UNCHANGED <<clocks, wallet, ledger, calls, difference, walk>>

EntriesCommitted(a) == Ordered(ToSet(ledger))

\* REPEATABLE READ: the second statement reads from the same snapshot, ORDER BY
\* "createdAt", "id".
EntriesRead(a) == Ordered(ToSet(a.entries))

Calculated(entries) ==
  FoldLeft(LAMBDA sum, e : IF e.direction = "CREDIT" THEN sum + e.amount ELSE sum - e.amount,
           0, entries)

\* Add and Sub have an int64 for the result, or fail.
Fits(sum) == -MaxMoney - 1 <= sum /\ sum <= MaxMoney

Sums(entries) == {Calculated(SubSeq(entries, 1, n)) : n \in 0..Len(entries)}

\* ReconcileWallet: no report if a sum on the way does not fit.
Report(balance, entries) ==
  LET result == balance - Calculated(entries)
  IN  IF \A sum \in Sums(entries) \cup {result} : Fits(sum) THEN result ELSE None

ReadEntries ==
  /\ audit # None
  /\ difference' = Report(audit.balance, EntriesRead(audit))
  /\ audit' = None
  /\ UNCHANGED <<clocks, wallet, ledger, calls, walk>>

-------------------------------------------------------------------------------
(* Ledger pages                                                            *)

FollowsInclusive(e, cursor) == cursor = None \/ ~Before(e, cursor)

Follows(e, cursor) == cursor = None \/ Before(cursor, e)

\* ListPage: the rows after the cursor, in order; LIMIT PageSize + 1.
RowsAfter(cursor) ==
  LET rows == Ordered({e \in ToSet(ledger) : Follows(e, cursor)})
  IN  SubSeq(rows, 1, IF Len(rows) > PageSize THEN PageSize + 1 ELSE Len(rows))

\* LedgerPage: the extra row only says that there is more.
TurnPage(seen, cursor, known) ==
  LET rows  == RowsAfter(cursor)
      more  == Len(rows) > PageSize
      items == IF more THEN SubSeq(rows, 1, PageSize) ELSE rows
  IN  walk' = [state  |-> IF more THEN "walking" ELSE "ended",
               cursor |-> IF more THEN Last(items) ELSE None,
               seen   |-> seen \o items,
               known  |-> known]

FirstPage ==
  /\ walk.state # "walking" /\ Rehydrates(wallet)
  /\ TurnPage(<<>>, None, Len(ledger))
  /\ UNCHANGED <<clocks, wallet, ledger, calls, checks>>

NextPage ==
  /\ walk.state = "walking" /\ Rehydrates(wallet)
  /\ TurnPage(walk.seen, walk.cursor, walk.known)
  /\ UNCHANGED <<clocks, wallet, ledger, calls, checks>>

Next ==
  \/ \E i \in Instances :
       Open(i) \/ CommitOpen(i) \/ Lock(i) \/ CommitMove(i) \/ Abort(i)
  \/ Tick
  \/ ReadBalance \/ ReadEntries
  \/ FirstPage \/ NextPage

Spec == Init /\ [][Next]_vars

-------------------------------------------------------------------------------
(* Properties                                                              *)

TypeOK ==
  /\ now \in Nat /\ skew \in [Instances -> 0..MaxSkew]
  /\ wallet # None => wallet.balance \in 0..MaxMoney /\ wallet.version \in Nat \ {0}
  /\ Len(ledger) <= MaxEntries
  /\ pc \in [Instances -> {"idle", "opening", "locked"}]
  /\ stamp \in [Instances -> Nat]
  /\ difference \in Int \cup {None}
  /\ walk.state \in {"idle", "walking", "ended"} /\ walk.known \in 0..MaxEntries

ClocksAgree == \A i, j \in Instances : skew[i] = skew[j]

\* A reconciliation that runs while the wallet moves never reports a difference,
\* and if the clocks agree it has a report: it adds up the entries in the order
\* of the movements, so that every sum on the way was a balance (ReconcileWallet).
Reconciles == difference \in {0, None} /\ (ClocksAgree => difference = 0)

\* Whatever the clocks, a walk that came to its end has seen every entry that
\* was there when it began, and no walk sees an entry twice (LedgerPage).
WalkComplete ==
  /\ IsInjective(walk.seen)
  /\ walk.state = "ended" => \A n \in 1..walk.known : ledger[n] \in ToSet(walk.seen)

\* d was made before e, but their instances' clocks, which are further apart than
\* the two, put it behind.
Disordered(d, e) ==
  /\ d.createdAt >= e.createdAt
  /\ d.createdAt - e.createdAt < skew[d.by] - skew[e.by]

\* The pages are the wallet's history without a gap, entry by entry in the order of
\* its balances, although movements go on (plan.md:59), unless clocks that differ
\* have put an entry behind a later one.
WalkIsHistory ==
  (\A d, e \in ToSet(ledger) : ~Disordered(d, e)) => IsPrefix(walk.seen, ledger)

\* What lies behind an earlier instant does so by no more than the clocks are apart.
NotBehind(later, earlier) ==
  \E i, j \in Instances : earlier - later <= skew[i] - skew[j]

\* A wallet row's updatedAt goes back, and lies behind its createdAt, by no more than
\* the clocks of two instances are apart.  If they agree, it never goes back, and the
\* service can read each row it has written (SaveBalance, RehydrateWallet).
Chronological ==
  [][wallet' # None =>
       /\ NotBehind(wallet'.updatedAt, wallet'.createdAt)
       /\ wallet # None => NotBehind(wallet'.updatedAt, wallet.updatedAt)]_vars
===================================================================================
