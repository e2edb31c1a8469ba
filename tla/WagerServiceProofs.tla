--------------------------- MODULE WagerServiceProofs ---------------------------
(***************************************************************************)
(* The interleaved use cases of WagerService implement the atomic          *)
(* specification of WagerLedger, for every set of requests, workers,       *)
(* wallets, commands and messages: each commit is a step that LedgerSpec   *)
(* allows in the state it commits in.  What is proved of LedgerSpec        *)
(* therefore holds of the use cases.                                       *)
(***************************************************************************)
EXTENDS WagerService, WagerLedgerProofs

-------------------------------------------------------------------------------
(* The inductive invariant, process by process                             *)

\* What a request may rely on between two statements: its row is not there
\* yet, the message it took is its own, nobody holds its identity, and the
\* wallet it read exists.
RequestSound(q) ==
  /\ target[q] = q
  /\ pc[q] # "lockRow"
  /\ pc[q] = "begin" => msg[q] # Http
  /\ pc[q] # "done" => state[q] = "ABSENT" /\ reply[q] = NoReply
  /\ HoldsDelivery(q) => inbox[msg[q]] = NoDelivery
  /\ HoldsRow(q) => \A u \in Committed : ~Collides(q, u)
  /\ pc[q] \in {"insert", "resolve", "commit"} =>
       /\ owner[cmd[q].wallet] # NoOwner
       /\ owner[cmd[q].wallet].currency = cmd[q].currency

\* What a worker may rely on: once it has the row lock, the row still waits.
WorkerSound(v) ==
  /\ pc[v] \in {"idle", "lockRow", "lockWallet", "resolve", "commit"}
  /\ pc[v] # "idle" => target[v] \in Committed
  /\ pc[v] \in {"lockWallet", "resolve", "commit"} =>
       /\ rowLock[target[v]] = v
       /\ state[target[v]] = "PENDING_REFERENCE"

ViewOf(p) ==
  pc[p] \in {"insert", "resolve", "commit"} =>
    /\ walletLock[WalletOf(p)] = p
    /\ seen[p] = [balance |-> balance[WalletOf(p)],
                  version |-> version[WalletOf(p)]]

\* A decision stays permitted from the reads it was taken on to the commit.
Fits(p) == pc[p] = "commit" => decision[p] \in Permitted(target[p])

Local(p) ==
  /\ p \in Requests => RequestSound(p)
  /\ p \in Workers => WorkerSound(p)
  /\ ViewOf(p)
  /\ Fits(p)

\* Two requests never hold the same message or conflicting rows.
Apart(q, r) ==
  /\ HoldsDelivery(q) /\ HoldsDelivery(r) => msg[q] # msg[r]
  /\ HoldsRow(q) /\ HoldsRow(r) => ~Collides(q, r)

AllApart == \A q, r \in Requests : q # r => Apart(q, r)

Funded == \A t \in Committed : owner[cmd[t].wallet] # NoOwner

ServiceInv ==
  /\ TypeOK
  /\ IdentityUnique
  /\ Funded
  /\ \A p \in Procs : Local(p)
  /\ AllApart

-------------------------------------------------------------------------------
(* Locks                                                                   *)

LEMMA UnblockedFacts ==
  ASSUME NEW p, Unblocked(p)
  PROVE  /\ pc[p] = "begin" =>
              \A q \in Requests : HoldsDelivery(q) => msg[q] # msg[p]
         /\ pc[p] = "insert" =>
              \A q \in Requests : HoldsRow(q) => ~Collides(p, q)
         /\ pc[p] = "lockRow" => rowLock[target[p]] = Free
         /\ pc[p] = "lockWallet" => walletLock[WalletOf(p)] = Free
<1>1. CASE pc[p] = "begin"
  <2>1. Blockers(p) = {q \in Requests : HoldsDelivery(q) /\ msg[q] = msg[p]}
    BY <1>1 DEF Blockers
  <2> QED BY <1>1, <2>1 DEF Unblocked
<1>2. CASE pc[p] = "insert"
  <2>1. Blockers(p) = {q \in Requests : HoldsRow(q) /\ Collides(p, q)}
    BY <1>2 DEF Blockers
  <2> QED BY <1>2, <2>1 DEF Unblocked
<1>3. CASE pc[p] = "lockRow"
  <2>1. Blockers(p) = {rowLock[target[p]]} \ {Free}
    BY <1>3 DEF Blockers
  <2> QED BY <1>3, <2>1 DEF Unblocked
<1>4. CASE pc[p] = "lockWallet"
  <2>1. Blockers(p) = {walletLock[WalletOf(p)]} \ {Free}
    BY <1>4 DEF Blockers
  <2> QED BY <1>4, <2>1 DEF Unblocked
<1> QED BY <1>1, <1>2, <1>3, <1>4

LEMMA TargetFacts ==
  ASSUME ServiceInv, NEW p \in Procs, pc[p] # "idle"
  PROVE  target[p] \in Requests /\ WalletOf(p) \in Wallets
<1>1. target[p] \in Requests
  BY DEF ServiceInv, Local, RequestSound, WorkerSound, Procs, Committed
<1> QED BY <1>1, CommandFacts DEF ServiceInv, TypeOK, WalletOf

\* Two processes past the wallet lock work on two wallets.
LEMMA WalletsApart ==
  ASSUME ServiceInv, NEW p \in Procs, NEW x \in Procs, p # x,
         pc[p] \in {"insert", "resolve", "commit"},
         pc[x] \in {"insert", "resolve", "commit"}
  PROVE  WalletOf(p) # WalletOf(x)
  BY DEF ServiceInv, Local, ViewOf

\* The transaction a process decides about has no outcome yet.
LEMMA TargetUndecided ==
  ASSUME ServiceInv, NEW p \in Procs, pc[p] \in {"resolve", "commit"}
  PROVE  Undecided(target[p])
  BY DEF ServiceInv, Local, RequestSound, WorkerSound, Procs, Undecided

-------------------------------------------------------------------------------
(* Decisions last                                                          *)

\* A reference that lives on another wallet is at fault whatever its state.
LEMMA ElsewhereAtFault ==
  ASSUME NEW c, NEW d, c.wallet # d.wallet
  PROVE  ReferenceFault(c, d) # "none"
  BY DEF ReferenceFault, SameIdentity

\* The step leaves the rows of wallet w and their claims as they are.
Steady(w) ==
  /\ cmd' = cmd
  /\ corrupt \subseteq corrupt'
  /\ Committed \subseteq Committed'
  /\ \A u \in Requests : cmd[u].wallet = w =>
       /\ state'[u] = state[u]
       /\ Claimed(u)' <=> Claimed(u)

LEMMA AgainstLasts ==
  ASSUME NEW t \in Requests, NEW r \in Requests, NEW bad, NEW worse,
         Steady(cmd[t].wallet), r \in bad <=> r \in worse
  PROVE  DecisionAgainst(t, r, bad) = DecisionAgainst(t, r, worse)'
<1>1. CASE cmd[r].wallet = cmd[t].wallet
  <2>1. StateSeenBy(t, r)' = StateSeenBy(t, r) /\ (Claimed(r)' <=> Claimed(r))
    BY <1>1 DEF Steady, StateSeenBy
  <2> QED BY <2>1 DEF DecisionAgainst, Steady, ClassifyAgainst
<1>2. CASE cmd[r].wallet # cmd[t].wallet
  <2>1. ReferenceFault(cmd[t], cmd[r]) # "none"
    BY <1>2, ElsewhereAtFault
  <2>2. /\ ClassifyAgainst(cmd[t], cmd[r], StateSeenBy(t, r), Claimed(r))
             = Rejected(ReferenceFault(cmd[t], cmd[r]))
        /\ ClassifyAgainst(cmd[t], cmd[r], StateSeenBy(t, r), Claimed(r))'
             = Rejected(ReferenceFault(cmd[t], cmd[r]))
    BY <2>1 DEF ClassifyAgainst, Steady
  <2> QED BY <2>2 DEF DecisionAgainst, Steady
<1> QED BY <1>1, <1>2

\* A permitted decision stays permitted while the wallet's lock is held: the
\* references on the wallet stay as they are, and of the others it matters
\* only that they are elsewhere.
LEMMA PermittedLasts ==
  ASSUME NEW t \in Requests, Steady(cmd[t].wallet), IdentityUnique',
         t \in Committed' \/ \A u \in Committed' : ~Collides(t, u)',
         NEW d \in Permitted(t)
  PROVE  d \in Permitted(t)'
<1> DEFINE R == ReferencesOf(t)
           Elsewhere == \A r \in R : cmd[r].wallet # cmd[t].wallet
<1>0. cmd' = cmd
  BY DEF Steady
<1>1. R \subseteq R' /\ R' \subseteq Requests
  BY <1>0 DEF Steady, ReferencesOf, Committed
<1>2. ASSUME NEW r \in R', NEW s \in R' PROVE r = s
  <2>1. SameExternal(r, s)' /\ SameExternal(s, r)'
    BY <1>2 DEF ReferencesOf, SameExternal
  <2>2. r \in Committed' \cup {t} /\ s \in Committed' \cup {t}
    BY <1>2 DEF ReferencesOf
  <2> QED BY <2>1, <2>2 DEF IdentityUnique, Collides
<1>3. CASE ~NeedsReference(cmd[t])
  <2>1. \A bad : Decide(t, bad) = [plan |-> ClassifyAlone(cmd[t]), ref |-> NoTxn]
    BY <1>3 DEF Decide
  <2>2. Decide(t, {})' = [plan |-> ClassifyAlone(cmd[t]), ref |-> NoTxn]
    BY <1>0, <1>3 DEF Decide
  <2>3. d = [plan |-> ClassifyAlone(cmd[t]), ref |-> NoTxn]
    BY <1>3, <2>1 DEF Permitted
  <2> QED BY <2>2, <2>3 DEF Permitted
<1>4. CASE NeedsReference(cmd[t]) /\ d = Defer /\ Elsewhere'
  BY <1>0, <1>4 DEF Permitted
<1>5. CASE NeedsReference(cmd[t]) /\ R = {}
  <2>1. d = Defer
    BY <1>5 DEF Permitted, Decide
  <2>2. CASE R' = {}
    BY <1>0, <1>5, <2>1, <2>2 DEF Permitted, Decide
  <2>3. ASSUME NEW r \in R' PROVE cmd[r].wallet # cmd[t].wallet
    <3>1. r \in Committed' /\ r \notin Committed /\ r \in Requests
      BY <1>0, <1>1, <1>5, <2>3 DEF ReferencesOf
    <3> QED BY <3>1 DEF Steady, Committed
  <2> QED BY <1>0, <1>4, <1>5, <2>1, <2>3
<1>6. ASSUME NeedsReference(cmd[t]), NEW r \in R
      PROVE  d \in Permitted(t)'
  <2>1. r \in Requests /\ r \in R' /\ R = {r} /\ R' = {r}
    BY <1>1, <1>2, <1>6
  <2>2. \A bad : Decide(t, bad) = DecisionAgainst(t, r, bad)
    BY <1>6, <2>1 DEF Decide
  <2>3. /\ Decide(t, corrupt)' = DecisionAgainst(t, r, corrupt)'
        /\ Decide(t, {})' = DecisionAgainst(t, r, {})'
    BY <1>0, <1>6, <2>1 DEF Decide
  <2>4. CASE d = DecisionAgainst(t, r, {})
    <3>1. DecisionAgainst(t, r, {}) = DecisionAgainst(t, r, {})'
      BY <2>1, AgainstLasts
    <3> QED BY <2>3, <2>4, <3>1 DEF Permitted
  <2>5. CASE d = DecisionAgainst(t, r, corrupt) /\ r \notin corrupt
    BY <2>4, <2>5 DEF DecisionAgainst
  <2>6. CASE d = DecisionAgainst(t, r, corrupt) /\ r \in corrupt
    <3>1. r \in corrupt'
      BY <2>6 DEF Steady
    <3>2. DecisionAgainst(t, r, corrupt) = DecisionAgainst(t, r, corrupt)'
      BY <2>6, <3>1 DEF DecisionAgainst
    <3> QED BY <2>3, <2>6, <3>2 DEF Permitted
  <2>7. CASE d = Defer /\ Elsewhere
    BY <1>0, <1>4, <1>6, <2>1, <2>7
  <2> QED BY <2>2, <2>4, <2>5, <2>6, <2>7 DEF Permitted
<1> QED BY <1>3, <1>5, <1>6

-------------------------------------------------------------------------------
(* What a step of one process leaves to the others                         *)

\* What a step of p may do to the tables: nothing but what LedgerSpec allows;
\* only a commit touches rows, and those of its own target and wallet; only
\* the delivery that p holds is recorded.
Effect(p) ==
  /\ [LedgerNext]_ledgerVars
  /\ UNCHANGED <<cmd, msg, owner, corrupt>>
  /\ pc[p] # "commit" => UNCHANGED <<state, balance, version, claims>>
  /\ pc[p] = "commit" =>
       /\ \A u \in Requests \ {target[p]} : state'[u] = state[u]
       /\ \A w \in Wallets \ {WalletOf(p)} :
            balance'[w] = balance[w] /\ version'[w] = version[w]
       /\ \A u \in Requests : cmd[u].wallet # WalletOf(p) =>
            (Claimed(u)' <=> Claimed(u))
  /\ \A m \in Messages : inbox'[m] # inbox[m] =>
       p \in Requests /\ HoldsDelivery(p) /\ msg[p] = m

Frame(p) ==
  /\ Effect(p)
  /\ \A x \in Procs \ {p} :
       /\ pc'[x] = pc[x]
       /\ target'[x] = target[x]
       /\ seen'[x] = seen[x]
       /\ decision'[x] = decision[x]
  /\ \A w \in Wallets : walletLock[w] \notin {Free, p} =>
       walletLock'[w] = walletLock[w]
  /\ \A t \in Requests : rowLock[t] \notin {Free, p} =>
       rowLock'[t] = rowLock[t]
  /\ \A q \in Requests \ {p} : reply'[q] = reply[q]

\* The rows there are after a step of p.
LEMMA EffectRows ==
  ASSUME ServiceInv, NEW p \in Procs, Effect(p)
  PROVE  /\ Committed \subseteq Committed'
         /\ Committed' \subseteq Committed \cup {target[p]}
         /\ \A t \in Committed' \ Committed :
              p \in Requests /\ p = t /\ pc[p] = "commit"
<1>1. Committed \subseteq Committed'
  BY CommittedGrows DEF ServiceInv, TypeOK, Effect
<1>2. Committed' \subseteq Committed \cup {target[p]}
  BY DEF Effect, Committed
<1>3. ASSUME NEW t \in Committed', t \notin Committed
      PROVE  p \in Requests /\ p = t /\ pc[p] = "commit"
  <2>1. t = target[p] /\ pc[p] = "commit"
    BY <1>2, <1>3 DEF Effect, Committed
  <2> QED
    BY <1>3, <2>1 DEF ServiceInv, Local, RequestSound, WorkerSound, Procs
<1> QED BY <1>1, <1>2, <1>3

\* A step of p is steady for every other wallet in use.
LEMMA EffectSteady ==
  ASSUME ServiceInv, NEW p \in Procs, Effect(p), NEW w \in Wallets,
         pc[p] = "commit" => WalletOf(p) # w
  PROVE  Steady(w)
<1>1. Committed \subseteq Committed' /\ cmd' = cmd /\ corrupt \subseteq corrupt'
  BY EffectRows DEF Effect
<1>2. ASSUME NEW u \in Requests, cmd[u].wallet = w
      PROVE  state'[u] = state[u] /\ (Claimed(u)' <=> Claimed(u))
  <2>1. CASE pc[p] # "commit"
    BY <2>1 DEF Effect, Claimed
  <2>2. CASE pc[p] = "commit"
    BY <1>2, <2>2 DEF Effect, WalletOf
  <2> QED BY <2>1, <2>2
<1> QED BY <1>1, <1>2 DEF Steady

\* Nothing another process relies on is taken from it.
LEMMA OthersKept ==
  ASSUME ServiceInv, NEW p \in Procs, Frame(p), IdentityUnique',
         NEW x \in Procs, x # p
  PROVE  Local(x)'
<1> DEFINE t == target[x]
<1>1. /\ pc'[x] = pc[x] /\ target'[x] = t
      /\ seen'[x] = seen[x] /\ decision'[x] = decision[x]
  BY DEF Frame
<1>2. /\ cmd' = cmd /\ msg' = msg /\ owner' = owner
      /\ WalletOf(x)' = WalletOf(x)
  BY <1>1 DEF Frame, Effect, WalletOf
<1>3. x # Free /\ (x \in Requests => x \notin Workers)
  BY ServiceAssumptions DEF Procs
<1>4. Effect(p) /\ Local(p) /\ Local(x)
  BY DEF Frame, ServiceInv
<1>5. ASSUME x \in Requests PROVE RequestSound(x)'
  <2>1. RequestSound(x) /\ x \notin Workers
    BY <1>3, <1>4, <1>5 DEF Local
  <2>2. target[p] = x => p \in Workers
    BY <1>4 DEF Local, RequestSound, Procs
  <2>3. pc[x] # "done" => state'[x] = state[x]
    <3>1. pc[p] = "commit" /\ target[p] = x => state[x] = "PENDING_REFERENCE"
      BY <1>4, <2>2 DEF Local, WorkerSound
    <3> QED BY <1>4, <1>5, <2>1, <3>1 DEF Effect, RequestSound
  <2>4. reply'[x] = reply[x]
    BY <1>5 DEF Frame
  <2>5. /\ HoldsDelivery(x)' <=> HoldsDelivery(x)
        /\ HoldsRow(x)' <=> HoldsRow(x)
    BY <1>1, <1>2 DEF HoldsDelivery, HoldsRow
  <2>6. HoldsDelivery(x) => inbox'[msg[x]] = NoDelivery
    <3>1. SUFFICES ASSUME HoldsDelivery(x), inbox'[msg[x]] # inbox[msg[x]]
                   PROVE  FALSE
      BY <2>1 DEF RequestSound
    <3>2. msg[x] \in Messages
      BY <1>5, <3>1 DEF HoldsDelivery, ServiceInv, TypeOK, LedgerTypeOK
    <3>3. p \in Requests /\ HoldsDelivery(p) /\ msg[p] = msg[x]
      BY <1>4, <3>1, <3>2 DEF Effect
    <3> QED BY <1>5, <3>1, <3>3 DEF ServiceInv, AllApart, Apart
  <2>7. ASSUME HoldsRow(x), NEW u \in Committed'
        PROVE  ~Collides(x, u)
    <3>1. CASE u \in Committed
      BY <2>1, <2>7, <3>1 DEF RequestSound
    <3>2. CASE u \notin Committed
      <4>1. p \in Requests /\ p = u /\ HoldsRow(p)
        BY <1>4, <2>7, <3>2, EffectRows DEF HoldsRow
      <4> QED BY <1>5, <2>7, <4>1 DEF ServiceInv, AllApart, Apart
    <3> QED BY <3>1, <3>2
  <2>8. \A u : Collides(x, u)' <=> Collides(x, u)
    BY <1>2 DEF Collides, SameKey, SameExternal
  <2> QED
    BY <1>1, <1>2, <2>1, <2>3, <2>4, <2>5, <2>6, <2>7, <2>8
    DEF RequestSound, NoReply
<1>6. ASSUME x \in Workers PROVE WorkerSound(x)'
  <2>1. WorkerSound(x) /\ x \notin Requests
    BY <1>3, <1>4, <1>6 DEF Local
  <2>2. pc[x] # "idle" => t \in Committed'
    BY <1>4, <2>1, EffectRows DEF WorkerSound
  <2>3. ASSUME pc[x] \in {"lockWallet", "resolve", "commit"}
        PROVE  rowLock'[t] = x /\ state'[t] = "PENDING_REFERENCE"
    <3>1. rowLock[t] = x /\ state[t] = "PENDING_REFERENCE" /\ t \in Requests
      BY <2>1, <2>3 DEF WorkerSound, Committed
    <3>2. rowLock'[t] = x
      BY <1>3, <3>1 DEF Frame
    <3>3. ~(pc[p] = "commit" /\ target[p] = t)
      BY <1>4, <3>1 DEF Local, RequestSound, WorkerSound, Procs
    <3>4. state'[t] = state[t]
      BY <1>4, <3>1, <3>3 DEF Effect
    <3> QED BY <3>1, <3>2, <3>4
  <2> QED BY <1>1, <2>1, <2>2, <2>3 DEF WorkerSound
<1>7. ASSUME pc[x] \in {"insert", "resolve", "commit"}
      PROVE  /\ WalletOf(x) \in Wallets
             /\ pc[p] = "commit" => WalletOf(p) # WalletOf(x)
  BY <1>7, TargetFacts, WalletsApart
<1>8. ViewOf(x)'
  <2>1. SUFFICES ASSUME pc[x] \in {"insert", "resolve", "commit"}
                 PROVE  /\ walletLock'[WalletOf(x)] = x
                        /\ seen[x] = [balance |-> balance'[WalletOf(x)],
                                      version |-> version'[WalletOf(x)]]
    BY <1>1, <1>2 DEF ViewOf
  <2>2. /\ walletLock[WalletOf(x)] = x
        /\ seen[x] = [balance |-> balance[WalletOf(x)],
                      version |-> version[WalletOf(x)]]
    BY <1>4, <2>1 DEF Local, ViewOf
  <2>3. walletLock'[WalletOf(x)] = x
    BY <1>3, <1>7, <2>1, <2>2 DEF Frame
  <2>4. /\ balance'[WalletOf(x)] = balance[WalletOf(x)]
        /\ version'[WalletOf(x)] = version[WalletOf(x)]
    BY <1>4, <1>7, <2>1 DEF Effect
  <2> QED BY <2>2, <2>3, <2>4
<1>9. Fits(x)'
  <2>1. SUFFICES ASSUME pc[x] = "commit"
                 PROVE  decision[x] \in Permitted(target[x])'
    BY <1>1 DEF Fits
  <2>2. PICK c \in Requests : c = target[x]
    BY <2>1, TargetFacts
  <2>3. decision[x] \in Permitted(c)
    BY <1>4, <2>1, <2>2 DEF Local, Fits
  <2>4. Steady(cmd[c].wallet)
    BY <1>4, <1>7, <2>1, <2>2, EffectSteady DEF WalletOf
  <2>5. c \in Committed' \/ \A u \in Committed' : ~Collides(c, u)'
    BY <1>1, <1>5, <1>6, <2>1, <2>2 DEF RequestSound, WorkerSound, HoldsRow, Procs
  <2>6. decision[x] \in Permitted(c)'
    BY <2>3, <2>4, <2>5, PermittedLasts
  <2>7. target'[x] = c
    BY <1>1, <2>2
  <2> QED BY <2>6, <2>7
<1> QED BY <1>5, <1>6, <1>8, <1>9 DEF Local

LEMMA QuietEffect ==
  ASSUME UNCHANGED ledgerVars, NEW p
  PROVE  Effect(p)
  BY DEF ledgerVars, inputVars, walletVars, txnVars, Effect, Claimed

\* A step of p keeps the invariant if it keeps the types and what p itself
\* relies on.
LEMMA FrameKeeps ==
  ASSUME ServiceInv, NEW p \in Procs, Frame(p), TypeOK', Local(p)',
         \A q \in Requests \ {p} :
           p \in Requests => Apart(p, q)' /\ Apart(q, p)'
  PROVE  ServiceInv'
<1>1. IdentityUnique'
  BY IdentityStep DEF ServiceInv, TypeOK, Frame, Effect
<1>2. \A x \in Procs : Local(x)'
  BY <1>1, OthersKept
<1>3. Funded'
  <2>1. /\ cmd' = cmd /\ owner' = owner
        /\ \A t \in Committed' \ Committed :
             p \in Requests /\ p = t /\ pc[p] = "commit"
    BY EffectRows DEF Frame, Effect
  <2>2. ASSUME NEW t \in Committed' PROVE owner[cmd[t].wallet] # NoOwner
    BY <2>1 DEF ServiceInv, Funded, Local, RequestSound
  <2> QED BY <2>1, <2>2 DEF Funded
<1>4. AllApart'
  <2>1. SUFFICES ASSUME NEW q \in Requests, NEW r \in Requests, q # r
                 PROVE  Apart(q, r)'
    BY DEF AllApart
  <2>2. CASE q = p \/ r = p
    BY <2>1, <2>2
  <2>3. CASE q # p /\ r # p
    <3>1. q \in Procs /\ r \in Procs
      BY DEF Procs
    <3>2. /\ pc'[q] = pc[q] /\ pc'[r] = pc[r]
          /\ cmd' = cmd /\ msg' = msg
      BY <2>3, <3>1 DEF Frame, Effect
    <3>3. Apart(q, r)
      BY <2>1 DEF ServiceInv, AllApart
    <3> QED
      BY <3>2, <3>3
      DEF Apart, HoldsDelivery, HoldsRow, Collides, SameKey, SameExternal
  <2> QED BY <2>2, <2>3
<1> QED BY <1>1, <1>2, <1>3, <1>4 DEF ServiceInv

-------------------------------------------------------------------------------
(* The end of a transaction                                                *)

\* p's transaction ends: a request is answered or starts over, a worker is
\* free again.
Ends(p) ==
  \E step \in Steps :
    /\ EndTransaction(p, step)
    /\ tries' \in [Requests -> 0..MaxTries]
    /\ p \in Requests =>
         /\ target' = target
         /\ \/ /\ step = "done"
               /\ \E answer \in Replies : reply' = [reply EXCEPT ![p] = answer]
            \/ step = FirstStep(p) /\ UNCHANGED <<ledgerVars, reply>>
    /\ p \in Workers =>
         /\ step = "idle"
         /\ target' = [target EXCEPT ![p] = NoTxn]
         /\ reply' = reply

LEMMA EndKeeps ==
  ASSUME ServiceInv, NEW p \in Procs, pc[p] \notin {"idle", "done"},
         Effect(p), Ends(p)
  PROVE  ServiceInv'
<1>1. PICK step \in Steps :
    /\ EndTransaction(p, step)
    /\ tries' \in [Requests -> 0..MaxTries]
    /\ p \in Requests =>
         /\ target' = target
         /\ \/ /\ step = "done"
               /\ \E answer \in Replies : reply' = [reply EXCEPT ![p] = answer]
            \/ step = FirstStep(p) /\ UNCHANGED <<ledgerVars, reply>>
    /\ p \in Workers =>
         /\ step = "idle"
         /\ target' = [target EXCEPT ![p] = NoTxn]
         /\ reply' = reply
  BY DEF Ends
<1>2. TypeOK /\ Local(p) /\ LedgerTypeOK'
  BY TypeStep DEF ServiceInv, TypeOK, Effect
<1>3. /\ p \in Requests <=> p \notin Workers
      /\ Free \notin Procs
  BY ServiceAssumptions DEF Procs
<1>4. /\ pc' = [pc EXCEPT ![p] = step]
      /\ seen' = [seen EXCEPT ![p] = Unread]
      /\ decision' = [decision EXCEPT ![p] = Defer]
      /\ walletLock' = [w \in Wallets |->
                          IF walletLock[w] = p THEN Free ELSE walletLock[w]]
      /\ rowLock' = [t \in Requests |->
                       IF rowLock[t] = p THEN Free ELSE rowLock[t]]
  BY <1>1 DEF EndTransaction, Goto, ReleaseLocks
<1>5. pc'[p] = step /\ step \in {"done", "idle", "begin", "lookupKey"}
  BY <1>1, <1>2, <1>3, <1>4 DEF TypeOK, FirstStep
<1>6. TypeOK'
  <2>1. Unread \in [balance : 0..MaxMoney, version : Nat]
    BY LedgerAssumptions DEF Unread
  <2>2. Defer \in Decisions
    BY PlanMembers DEF Defer, Decisions
  <2>3. /\ target' \in [Procs -> Requests \cup {NoTxn}]
        /\ reply' \in [Requests -> Replies]
    BY <1>1, <1>2, <1>3 DEF TypeOK
  <2>4. /\ pc' \in [Procs -> Steps]
        /\ seen' \in [Procs -> [balance : 0..MaxMoney, version : Nat]]
        /\ decision' \in [Procs -> Decisions]
    BY <1>2, <1>4, <2>1, <2>2 DEF TypeOK
  <2>5. /\ walletLock' \in [Wallets -> Procs \cup {Free}]
        /\ rowLock' \in [Requests -> Workers \cup {Free}]
    BY <1>2, <1>4 DEF TypeOK
  <2> QED BY <1>1, <1>2, <2>3, <2>4, <2>5 DEF TypeOK
<1>7. Frame(p)
  <2>1. \A x \in Procs \ {p} :
          /\ pc'[x] = pc[x] /\ target'[x] = target[x]
          /\ seen'[x] = seen[x] /\ decision'[x] = decision[x]
    BY <1>1, <1>2, <1>3, <1>4 DEF TypeOK
  <2>2. \A q \in Requests \ {p} : reply'[q] = reply[q]
    BY <1>1, <1>2, <1>3 DEF TypeOK
  <2>3. /\ \A w \in Wallets : walletLock[w] \notin {Free, p} =>
             walletLock'[w] = walletLock[w]
        /\ \A t \in Requests : rowLock[t] \notin {Free, p} =>
             rowLock'[t] = rowLock[t]
    BY <1>4
  <2> QED BY <2>1, <2>2, <2>3 DEF Frame
<1>8. p \in Requests => ~HoldsDelivery(p)' /\ ~HoldsRow(p)'
  <2>1. CASE step = "done"
    BY <1>5, <2>1 DEF HoldsDelivery, HoldsRow
  <2>2. CASE step = FirstStep(p)
    BY <1>5, <2>2 DEF HoldsDelivery, HoldsRow, FirstStep, Effect
  <2> QED BY <1>1, <2>1, <2>2
<1>9. Local(p)'
  <2>1. ASSUME p \in Requests PROVE RequestSound(p)'
    <3>1. RequestSound(p) /\ pc[p] # "done"
      BY <1>2, <2>1 DEF Local
    <3>2. step # "done" => state' = state /\ reply' = reply
      BY <1>1, <2>1 DEF ledgerVars, txnVars
    <3>3. step = "begin" => msg'[p] # Http
      BY <1>1, <2>1 DEF FirstStep, Effect
    <3> QED
      BY <1>1, <1>5, <1>8, <2>1, <3>1, <3>2, <3>3 DEF RequestSound, NoReply
  <2>2. ASSUME p \in Workers PROVE WorkerSound(p)'
    BY <1>1, <1>5, <2>2 DEF WorkerSound
  <2> QED BY <1>5, <2>1, <2>2 DEF Local, ViewOf, Fits
<1> QED BY <1>6, <1>7, <1>8, <1>9, FrameKeeps DEF Apart

-------------------------------------------------------------------------------
(* A statement that changes nothing but the place of a request             *)

\* Why a request may go on to step.
MayContinue(q, step) ==
  \/ pc[q] = "idle" /\ step = FirstStep(q)
  \/ /\ pc[q] = "begin"
     /\ Unblocked(q)
     /\ inbox[msg[q]] = NoDelivery
     /\ step = "lookupKey"
  \/ pc[q] = "lookupKey" /\ step = "lookupExt"
  \/ pc[q] = "lookupExt" /\ step = "lockWallet"
  \/ /\ pc[q] = "insert"
     /\ Unblocked(q)
     /\ \A u \in Committed : ~Collides(q, u)
     /\ step = "resolve"

LEMMA ContinueKeeps ==
  ASSUME ServiceInv, NEW q \in Requests, NEW step,
         MayContinue(q, step), Continue(q, step)
  PROVE  ServiceInv'
<1>1. TypeOK /\ Local(q) /\ RequestSound(q) /\ q \in Procs /\ q \notin Workers
  BY ServiceAssumptions DEF ServiceInv, Local, Procs
<1>2. /\ UNCHANGED <<ledgerVars, tries, target, seen, decision, lockVars, reply>>
      /\ pc' = [pc EXCEPT ![q] = step]
  BY DEF Continue, Goto
<1>3. /\ UNCHANGED <<cmd, msg, owner, balance, version, state, corrupt, inbox>>
      /\ UNCHANGED <<walletLock, rowLock>>
      /\ Committed' = Committed
  BY <1>2 DEF ledgerVars, inputVars, walletVars, txnVars, lockVars, Committed
<1>4. step \in {"begin", "lookupKey", "lookupExt", "lockWallet", "resolve"}
  BY DEF MayContinue, FirstStep
<1>5. TypeOK'
  <2>1. pc' \in [Procs -> Steps]
    BY <1>1, <1>2, <1>4 DEF TypeOK, Steps
  <2> QED
    BY <1>1, <1>2, <2>1
    DEF TypeOK, LedgerTypeOK, ledgerVars, inputVars, walletVars, txnVars, lockVars
<1>6. pc'[q] = step /\ \A x \in Procs \ {q} : pc'[x] = pc[x]
  BY <1>1, <1>2 DEF TypeOK
<1>7. Frame(q)
  BY <1>2, <1>3, <1>6, QuietEffect DEF Frame
<1>8. ASSUME HoldsDelivery(q)'
      PROVE  /\ inbox[msg[q]] = NoDelivery
             /\ \A r \in Requests \ {q} : HoldsDelivery(r)' => msg[q] # msg[r]
  <2>1. \/ HoldsDelivery(q)
        \/ pc[q] = "begin" /\ Unblocked(q) /\ inbox[msg[q]] = NoDelivery
    BY <1>3, <1>6, <1>8 DEF HoldsDelivery, MayContinue, FirstStep
  <2>2. ASSUME NEW r \in Requests \ {q}, HoldsDelivery(r)'
        PROVE  msg[q] # msg[r]
    <3>1. HoldsDelivery(r)
      BY <1>3, <1>6, <2>2 DEF HoldsDelivery, Procs
    <3> QED BY <2>1, <3>1, UnblockedFacts DEF ServiceInv, AllApart, Apart
  <2> QED BY <1>1, <2>1, <2>2 DEF RequestSound
<1>9. ASSUME HoldsRow(q)'
      PROVE  /\ \A u \in Committed : ~Collides(q, u)
             /\ \A r \in Requests \ {q} :
                  HoldsRow(r)' => ~Collides(q, r) /\ ~Collides(r, q)
  <2>1. /\ pc[q] = "insert" /\ Unblocked(q)
        /\ \A u \in Committed : ~Collides(q, u)
    BY <1>6, <1>9 DEF HoldsRow, MayContinue, FirstStep
  <2>2. ASSUME NEW r \in Requests \ {q}, HoldsRow(r)'
        PROVE  ~Collides(q, r) /\ ~Collides(r, q)
    <3>1. HoldsRow(r)
      BY <1>6, <2>2 DEF HoldsRow, Procs
    <3> QED BY <2>1, <3>1, UnblockedFacts DEF Collides, SameKey, SameExternal
  <2> QED BY <2>1, <2>2
<1>10. \A r, s : Collides(r, s)' <=> Collides(r, s)
  BY <1>3 DEF Collides, SameKey, SameExternal
<1>11. RequestSound(q)'
  <2>1. /\ pc[q] # "done"
        /\ step = "resolve" => pc[q] = "insert"
        /\ step = "begin" => msg[q] # Http
    BY DEF MayContinue, FirstStep
  <2> QED
    BY <1>1, <1>2, <1>3, <1>4, <1>6, <1>8, <1>9, <1>10, <2>1
    DEF RequestSound, NoReply
<1>12. ViewOf(q)' /\ Fits(q)'
  <2>1. step = "resolve" => pc[q] = "insert"
    BY DEF MayContinue, FirstStep
  <2> QED
    BY <1>1, <1>2, <1>3, <1>4, <1>6, <2>1 DEF Local, ViewOf, Fits, WalletOf
<1>13. \A r \in Requests \ {q} : Apart(q, r)' /\ Apart(r, q)'
  BY <1>3, <1>8, <1>9, <1>10 DEF Apart
<1> QED BY <1>1, <1>5, <1>7, <1>11, <1>12, <1>13, FrameKeeps DEF Local

-------------------------------------------------------------------------------
(* Locks taken and decisions made                                          *)

LEMMA TakeWalletKeeps ==
  ASSUME ServiceInv, NEW p \in Procs, NEW step,
         pc[p] = "lockWallet", Unblocked(p), TakeWallet(p, step),
         \/ /\ p \in Requests /\ step = "insert"
            /\ owner[cmd[p].wallet] # NoOwner
            /\ owner[cmd[p].wallet].currency = cmd[p].currency
         \/ p \in Workers /\ step = "resolve"
  PROVE  ServiceInv'
<1> DEFINE w == WalletOf(p)
<1>1. /\ TypeOK /\ Local(p) /\ w \in Wallets /\ walletLock[w] = Free
      /\ p \in Requests <=> p \notin Workers
  BY ServiceAssumptions, TargetFacts, UnblockedFacts DEF ServiceInv, Procs
<1>2. /\ UNCHANGED <<ledgerVars, tries, target, decision, rowLock, reply>>
      /\ walletLock' = [walletLock EXCEPT ![w] = p]
      /\ seen' = [seen EXCEPT ![p] = [balance |-> balance[w],
                                      version |-> version[w]]]
      /\ pc' = [pc EXCEPT ![p] = step]
  BY DEF TakeWallet, Goto
<1>3. /\ UNCHANGED <<cmd, msg, owner, balance, version, state, corrupt, inbox>>
      /\ Committed' = Committed
      /\ WalletOf(p)' = w
  BY <1>2 DEF ledgerVars, inputVars, walletVars, txnVars, Committed, WalletOf
<1>4. TypeOK'
  <2>1. pc' \in [Procs -> Steps] /\ walletLock' \in [Wallets -> Procs \cup {Free}]
    BY <1>1, <1>2 DEF TypeOK, Steps
  <2>2. seen' \in [Procs -> [balance : 0..MaxMoney, version : Nat]]
    <3>1. balance[w] \in 0..MaxMoney /\ version[w] \in Nat
      BY <1>1 DEF TypeOK, LedgerTypeOK
    <3> QED BY <1>1, <1>2, <3>1 DEF TypeOK
  <2> QED
    BY <1>1, <1>2, <2>1, <2>2
    DEF TypeOK, LedgerTypeOK, ledgerVars, inputVars, walletVars, txnVars
<1>5. /\ pc'[p] = step
      /\ \A x \in Procs \ {p} : pc'[x] = pc[x] /\ seen'[x] = seen[x]
      /\ walletLock'[w] = p
      /\ \A u \in Wallets : walletLock[u] \notin {Free, p} =>
           walletLock'[u] = walletLock[u]
      /\ seen'[p] = [balance |-> balance[w], version |-> version[w]]
  BY <1>1, <1>2 DEF TypeOK
<1>6. Frame(p)
  BY <1>2, <1>3, <1>5, QuietEffect DEF Frame
<1>7. Local(p)'
  <2>1. ViewOf(p)' /\ Fits(p)'
    BY <1>3, <1>5 DEF ViewOf, Fits
  <2>2. ASSUME p \in Requests PROVE RequestSound(p)'
    <3>1. RequestSound(p)
      BY <1>1, <2>2 DEF Local
    <3> QED
      BY <1>1, <1>2, <1>3, <1>5, <2>2, <3>1
      DEF RequestSound, NoReply, HoldsDelivery, HoldsRow
  <2>3. ASSUME p \in Workers PROVE WorkerSound(p)'
    <3>1. WorkerSound(p)
      BY <1>1, <2>3 DEF Local
    <3> QED BY <1>1, <1>2, <1>3, <1>5, <2>3, <3>1 DEF WorkerSound
  <2> QED BY <2>1, <2>2, <2>3 DEF Local
<1>8. ASSUME p \in Requests, NEW r \in Requests \ {p}
      PROVE  Apart(p, r)' /\ Apart(r, p)'
  <2>1. Apart(p, r) /\ Apart(r, p) /\ pc'[r] = pc[r]
    BY <1>5, <1>8 DEF ServiceInv, AllApart, Procs
  <2> QED
    BY <1>1, <1>3, <1>5, <1>8, <2>1 DEF Apart, HoldsDelivery, HoldsRow
<1> QED BY <1>4, <1>6, <1>7, <1>8, FrameKeeps

LEMMA ResolveKeeps ==
  ASSUME ServiceInv, NEW p \in Procs, Resolve(p)
  PROVE  ServiceInv'
<1>1. /\ TypeOK /\ Local(p) /\ target[p] \in Requests /\ pc[p] = "resolve"
      /\ p \in Requests <=> p \notin Workers
  BY ServiceAssumptions, TargetFacts DEF ServiceInv, Procs, Resolve
<1>2. /\ UNCHANGED <<ledgerVars, tries, target, seen, lockVars, reply>>
      /\ decision' = [decision EXCEPT ![p] = Decide(target[p], corrupt)]
      /\ pc' = [pc EXCEPT ![p] = "commit"]
  BY DEF Resolve, Goto
<1>3. /\ UNCHANGED <<cmd, msg, owner, balance, version, state, corrupt, inbox,
                     claims, walletLock, rowLock>>
      /\ Committed' = Committed
      /\ WalletOf(p)' = WalletOf(p)
  BY <1>2
  DEF ledgerVars, inputVars, walletVars, txnVars, lockVars, Committed, WalletOf
<1>4. Decide(target[p], corrupt) \in Permitted(target[p])
  BY DEF Permitted
<1>5. Decide(target[p], corrupt) \in Decisions
  BY <1>1, <1>4, TargetUndecided, PermittedBorneOut DEF BorneOut, TypeOK
<1>6. TypeOK'
  <2>1. pc' \in [Procs -> Steps] /\ decision' \in [Procs -> Decisions]
    BY <1>1, <1>2, <1>5 DEF TypeOK, Steps
  <2> QED
    BY <1>1, <1>2, <2>1
    DEF TypeOK, LedgerTypeOK, ledgerVars, inputVars, walletVars, txnVars, lockVars
<1>7. /\ pc'[p] = "commit"
      /\ \A x \in Procs \ {p} : pc'[x] = pc[x] /\ decision'[x] = decision[x]
      /\ decision'[p] = Decide(target[p], corrupt)
  BY <1>1, <1>2 DEF TypeOK
<1>8. Frame(p)
  BY <1>2, <1>3, <1>7, QuietEffect DEF Frame
<1>9. Fits(p)'
  <2>1. \A r : Claimed(r)' <=> Claimed(r)
    BY <1>3 DEF Claimed
  <2>2. ReferencesOf(target[p])' = ReferencesOf(target[p])
    BY <1>2, <1>3 DEF ReferencesOf
  <2>3. \A r, bad : DecisionAgainst(target[p], r, bad)' = DecisionAgainst(target[p], r, bad)
    BY <1>2, <1>3, <2>1 DEF DecisionAgainst, StateSeenBy
  <2>4. \A bad : Decide(target[p], bad)' = Decide(target[p], bad)
    BY <1>2, <1>3, <2>2, <2>3 DEF Decide
  <2>5. Permitted(target[p])' = Permitted(target[p])
    BY <1>2, <1>3, <2>2, <2>4 DEF Permitted
  <2> QED BY <1>2, <1>4, <1>7, <2>5 DEF Fits
<1>10. Local(p)'
  <2>1. ViewOf(p)'
    BY <1>1, <1>2, <1>3, <1>7 DEF Local, ViewOf
  <2>2. ASSUME p \in Requests PROVE RequestSound(p)'
    <3>1. RequestSound(p)
      BY <1>1, <2>2 DEF Local
    <3>2. \A u : Collides(p, u)' <=> Collides(p, u)
      BY <1>3 DEF Collides, SameKey, SameExternal
    <3> QED
      BY <1>1, <1>2, <1>3, <1>7, <2>2, <3>1, <3>2
      DEF RequestSound, NoReply, HoldsDelivery, HoldsRow
  <2>3. ASSUME p \in Workers PROVE WorkerSound(p)'
    <3>1. WorkerSound(p)
      BY <1>1, <2>3 DEF Local
    <3> QED BY <1>1, <1>2, <1>3, <1>7, <2>3, <3>1 DEF WorkerSound
  <2> QED BY <1>9, <2>1, <2>2, <2>3 DEF Local
<1>11. ASSUME p \in Requests, NEW r \in Requests \ {p}
       PROVE  Apart(p, r)' /\ Apart(r, p)'
  <2>1. Apart(p, r) /\ Apart(r, p) /\ pc'[r] = pc[r]
    BY <1>7, <1>11 DEF ServiceInv, AllApart, Procs
  <2> QED
    BY <1>1, <1>3, <1>7, <1>11, <2>1
    DEF Apart, HoldsDelivery, HoldsRow, Collides, SameKey, SameExternal
<1> QED BY <1>6, <1>8, <1>10, <1>11, FrameKeeps

LEMMA PickKeeps ==
  ASSUME ServiceInv, NEW v \in Workers, NEW t \in Requests, Pick(v, t)
  PROVE  ServiceInv'
<1>1. TypeOK /\ v \in Procs /\ v \notin Requests
  BY ServiceAssumptions DEF ServiceInv, Procs
<1>2. /\ UNCHANGED <<ledgerVars, tries, seen, decision, lockVars, reply>>
      /\ target' = [target EXCEPT ![v] = t]
      /\ pc' = [pc EXCEPT ![v] = "lockRow"]
      /\ state[t] = "PENDING_REFERENCE"
  BY DEF Pick, Goto
<1>3. UNCHANGED <<walletLock, rowLock>> /\ Committed' = Committed
  BY <1>2 DEF lockVars, Committed, ledgerVars, txnVars
<1>4. TypeOK'
  <2>1. /\ pc' \in [Procs -> Steps]
        /\ target' \in [Procs -> Requests \cup {NoTxn}]
    BY <1>1, <1>2 DEF TypeOK, Steps
  <2> QED
    BY <1>1, <1>2, <1>3, <2>1
    DEF TypeOK, LedgerTypeOK, ledgerVars, inputVars, walletVars, txnVars
<1>5. /\ pc'[v] = "lockRow" /\ target'[v] = t
      /\ \A x \in Procs \ {v} : pc'[x] = pc[x] /\ target'[x] = target[x]
  BY <1>1, <1>2 DEF TypeOK
<1>6. Frame(v)
  BY <1>2, <1>3, <1>5, QuietEffect DEF Frame
<1>7. Local(v)'
  <2>1. t \in Committed
    BY <1>2 DEF Committed
  <2> QED BY <1>1, <1>3, <1>5, <2>1 DEF Local, WorkerSound, ViewOf, Fits
<1> QED BY <1>1, <1>4, <1>6, <1>7, FrameKeeps

LEMMA RowTakenKeeps ==
  ASSUME ServiceInv, NEW v \in Workers, pc[v] = "lockRow", Unblocked(v),
         state[target[v]] \notin Terminal,
         rowLock' = [rowLock EXCEPT ![target[v]] = v],
         Goto(v, "lockWallet"),
         UNCHANGED <<ledgerVars, tries, target, seen, decision, walletLock,
                     reply>>
  PROVE  ServiceInv'
<1> DEFINE t == target[v]
<1>1. /\ TypeOK /\ Local(v) /\ v \in Procs /\ v \notin Requests
      /\ t \in Committed /\ rowLock[t] = Free
  BY ServiceAssumptions, UnblockedFacts
  DEF ServiceInv, Procs, Local, WorkerSound
<1>2. state[t] = "PENDING_REFERENCE" /\ t \in Requests
  BY <1>1 DEF Committed, TypeOK, LedgerTypeOK, States
<1>3. Committed' = Committed /\ state' = state
  BY DEF Committed, ledgerVars, txnVars
<1>4. pc' = [pc EXCEPT ![v] = "lockWallet"]
  BY DEF Goto
<1>5. TypeOK'
  <2>1. /\ pc' \in [Procs -> Steps]
        /\ rowLock' \in [Requests -> Workers \cup {Free}]
    BY <1>1, <1>4 DEF TypeOK, Steps
  <2> QED
    BY <1>1, <2>1
    DEF TypeOK, LedgerTypeOK, ledgerVars, inputVars, walletVars, txnVars
<1>6. /\ pc'[v] = "lockWallet" /\ rowLock'[t] = v
      /\ \A x \in Procs \ {v} : pc'[x] = pc[x]
      /\ \A u \in Requests : rowLock[u] \notin {Free, v} =>
           rowLock'[u] = rowLock[u]
  BY <1>1, <1>2, <1>4 DEF TypeOK
<1>7. Frame(v)
  BY <1>6, QuietEffect DEF Frame
<1>8. Local(v)'
  BY <1>1, <1>2, <1>3, <1>6 DEF Local, WorkerSound, ViewOf, Fits
<1> QED BY <1>1, <1>5, <1>7, <1>8, FrameKeeps

-------------------------------------------------------------------------------
(* Answers, refusals and retries                                           *)

LEMMA ReplyTypes ==
  ASSUME LedgerTypeOK
  PROVE  /\ \A status \in Refusals \cup {"none"} : Refusal(status) \in Replies
         /\ \A t \in Requests : ResultOf(t) \in Replies
<1>1. "ABSENT" \in States
  BY DEF States
<1> QED BY <1>1 DEF Refusal, ResultOf, Replies, LedgerTypeOK

LEMMA FinishEnds ==
  ASSUME TypeOK, NEW q \in Requests, NEW answer \in Replies, Finish(q, answer)
  PROVE  Ends(q)
<1>1. q \notin Workers /\ "done" \in Steps
  BY ServiceAssumptions DEF Steps
<1> QED BY <1>1 DEF Finish, Ends, TypeOK

LEMMA RefuseEnds ==
  ASSUME TypeOK, NEW q \in Requests, NEW status \in Refusals,
         Refuse(q, status)
  PROVE  Ends(q) /\ Effect(q)
  BY FinishEnds, ReplyTypes, QuietEffect DEF Refuse, TypeOK

LEMMA ConcurrentWriteEnds ==
  ASSUME TypeOK, NEW q \in Requests, ConcurrentWrite(q)
  PROVE  Ends(q) /\ Effect(q)
<1>1. CASE tries[q] + 1 < MaxTries
  <2>1. tries[q] \in Nat /\ MaxTries \in Nat
    BY ServiceAssumptions DEF TypeOK
  <2>2. tries' \in [Requests -> 0..MaxTries]
    BY <1>1, <2>1 DEF TypeOK, ConcurrentWrite
  <2>3. FirstStep(q) \in Steps /\ q \notin Workers
    BY ServiceAssumptions DEF FirstStep, Steps
  <2>4. /\ EndTransaction(q, FirstStep(q))
        /\ UNCHANGED <<ledgerVars, target, reply>>
    BY <1>1 DEF ConcurrentWrite
  <2> QED BY <2>2, <2>3, <2>4, QuietEffect DEF Ends
<1>2. CASE ~(tries[q] + 1 < MaxTries)
  BY <1>2, RefuseEnds DEF ConcurrentWrite, Refusals
<1> QED BY <1>1, <1>2

LEMMA AnswerEnds ==
  ASSUME TypeOK, NEW q \in Requests, NEW answer \in Replies,
         AnswerWith(q, answer)
  PROVE  Ends(q)
  BY FinishEnds, ReplyTypes DEF AnswerWith, TypeOK, Refusals

LEMMA ResolveEnds ==
  ASSUME TypeOK, NEW v \in Workers, EndResolve(v)
  PROVE  Ends(v)
<1>1. v \notin Requests /\ "idle" \in Steps
  BY ServiceAssumptions DEF Steps
<1> QED BY <1>1 DEF EndResolve, Ends, TypeOK

LEMMA GiveUpEnds ==
  ASSUME TypeOK, NEW v \in Workers, GiveUp(v)
  PROVE  Ends(v) /\ Effect(v)
  BY ResolveEnds, QuietEffect DEF GiveUp

-------------------------------------------------------------------------------
(* The steps that write                                                    *)

\* An outcome touches the row, the wallet and the claims of its target only.
LEMMA WritesEffect ==
  ASSUME ServiceInv, NEW p \in Procs, NEW t \in Requests, pc[p] = "commit",
         t = target[p], Writes(t), [LedgerNext]_ledgerVars,
         \A m \in Messages : inbox'[m] # inbox[m] =>
           p \in Requests /\ HoldsDelivery(p) /\ msg[p] = m
  PROVE  Effect(p)
<1> DEFINE w == cmd[t].wallet
<1>1. LedgerTypeOK /\ w = WalletOf(p) /\ w \in Wallets
  BY CommandFacts DEF ServiceInv, TypeOK, WalletOf
<1>2. /\ UNCHANGED <<cmd, msg, owner, corrupt>>
      /\ \A u \in Requests \ {t} : state'[u] = state[u]
  BY <1>1, WritesRow, WritesOwner DEF Writes, inputVars
<1>3. \/ UNCHANGED walletVars
      \/ \E d \in Decisions :
           /\ Movable(t, d, balance[w])
           /\ Move(t, d.plan, d.ref, balance[w], version[w])
  BY DEF Writes, Outcome, Wait, Reject, Settle, MarkFailed
<1>4. ASSUME NEW d \in Decisions, Movable(t, d, balance[w]),
             Move(t, d.plan, d.ref, balance[w], version[w])
      PROVE  /\ \A x \in Wallets \ {w} :
                  balance'[x] = balance[x] /\ version'[x] = version[x]
             /\ \A u \in Requests : cmd[u].wallet # w =>
                  (Claimed(u)' <=> Claimed(u))
  <2>1. \A x \in Wallets \ {w} :
          balance'[x] = balance[x] /\ version'[x] = version[x]
    BY <1>1, <1>4 DEF Move, LedgerTypeOK
  <2>2. /\ d.plan.claim => cmd[d.ref].wallet = w
        /\ claims' = IF d.plan.claim
                     THEN claims \cup {[reference |-> d.ref, reversal |-> t]}
                     ELSE claims
    BY <1>4 DEF Movable, BorneOut, SameIdentity, Move
  <2>3. ASSUME NEW u \in Requests, cmd[u].wallet # w
        PROVE  Claimed(u)' <=> Claimed(u)
    BY <2>2, <2>3 DEF Claimed
  <2> QED BY <2>1, <2>3
<1>5. /\ \A x \in Wallets \ {w} :
           balance'[x] = balance[x] /\ version'[x] = version[x]
      /\ \A u \in Requests : cmd[u].wallet # w => (Claimed(u)' <=> Claimed(u))
  BY <1>3, <1>4 DEF walletVars, Claimed
<1> QED BY <1>1, <1>2, <1>5 DEF Effect

\* RecordDelivery touches the inbox row of the message that q holds.
LEMMA RecordFrame ==
  ASSUME ServiceInv, NEW q \in Requests, RecordDelivery(q),
         pc[q] \in {"lookupKey", "lookupExt", "commit"}
  PROVE  /\ \A m \in Messages : inbox'[m] # inbox[m] =>
              HoldsDelivery(q) /\ msg[q] = m
         /\ DeliveryIsNew(q)
<1>1. /\ inbox \in [Messages -> Commands \cup {NoDelivery}]
      /\ HoldsDelivery(q) <=> msg[q] # Http
      /\ RequestSound(q)
  BY DEF ServiceInv, TypeOK, LedgerTypeOK, HoldsDelivery, Local, Procs
<1>2. ASSUME NEW m \in Messages, inbox'[m] # inbox[m]
      PROVE  HoldsDelivery(q) /\ msg[q] = m
  BY <1>1, <1>2 DEF RecordDelivery
<1> QED BY <1>1, <1>2 DEF RequestSound, DeliveryIsNew

LEMMA ReplayEnds ==
  ASSUME ServiceInv, NEW q \in Requests, NEW u \in Committed,
         pc[q] \in {"lookupKey", "lookupExt"}, SameKey(q, u), Replay(q, u)
  PROVE  Ends(q) /\ Effect(q)
<1>1. TypeOK /\ LedgerTypeOK /\ u \in Requests
  BY DEF ServiceInv, TypeOK, Committed
<1>2. CASE Refuse(q, "idempotencyConflict")
  BY <1>1, <1>2, RefuseEnds DEF Refusals
<1>3. CASE /\ Digest(cmd[u]) = Digest(cmd[q])
           /\ RecordDelivery(q)
           /\ AnswerWith(q, ResultOf(u))
           /\ UNCHANGED <<inputVars, walletVars, txnVars, late, corrupt, events>>
  <2>1. Ends(q)
    BY <1>1, <1>3, AnswerEnds, ReplyTypes
  <2>2. /\ \A m \in Messages : inbox'[m] # inbox[m] =>
             HoldsDelivery(q) /\ msg[q] = m
        /\ DeliveryIsNew(q)
    BY <1>3, RecordFrame
  <2>3. [LedgerNext]_ledgerVars
    <3>1. CASE msg[q] = Http
      BY <1>3, <3>1 DEF RecordDelivery, ledgerVars
    <3>2. CASE msg[q] # Http
      <4>1. AcceptReplay(q)
        BY <1>3, <2>2, <3>2 DEF AcceptReplay, DeliveryIsNew
      <4> QED BY <4>1 DEF LedgerNext
    <3> QED BY <3>1, <3>2
  <2>4. Effect(q)
    BY <1>3, <2>2, <2>3
    DEF Effect, inputVars, walletVars, txnVars, Claimed
  <2> QED BY <2>1, <2>4
<1> QED BY <1>2, <1>3 DEF Replay

\* The decision taken earlier is executed against the wallet as it is now, so
\* the commit of a submission is one indivisible Accept.
LEMMA CommitSubmitEnds ==
  ASSUME ServiceInv, NEW q \in Requests, CommitSubmit(q)
  PROVE  Ends(q) /\ Effect(q)
<1> DEFINE d == decision[q]
           w == cmd[q].wallet
<1>1. /\ TypeOK /\ LedgerTypeOK /\ pc[q] = "commit" /\ q \in Procs
      /\ RequestSound(q) /\ ViewOf(q) /\ Fits(q)
  BY DEF ServiceInv, TypeOK, CommitSubmit, Local, Procs
<1>2. /\ target[q] = q /\ d \in Permitted(q) /\ WalletOf(q) = w
      /\ seen[q].balance = balance[w] /\ seen[q].version = version[w]
  BY <1>1 DEF RequestSound, ViewOf, Fits, WalletOf
<1>3. CASE Refuse(q, "overflow")
  BY <1>1, <1>3, RefuseEnds DEF Refusals
<1>4. CASE ConcurrentWrite(q)
  BY <1>1, <1>4, ConcurrentWriteEnds
<1>5. CASE /\ Execute(q, d, seen[q].balance, seen[q].version)
           /\ RecordDelivery(q)
           /\ AnswerWith(q, ResultOf(q)')
           /\ UNCHANGED <<inputVars, late, corrupt>>
  <2>1. DeliveryIsNew(q) /\ \A m \in Messages : inbox'[m] # inbox[m] =>
          HoldsDelivery(q) /\ msg[q] = m
    BY <1>1, <1>5, RecordFrame
  <2>2. Accept(q)
    <3>1. /\ state[q] = "ABSENT"
          /\ \A u \in Committed : ~Collides(q, u)
          /\ owner[w] # NoOwner /\ owner[w].currency = cmd[q].currency
      BY <1>1 DEF RequestSound, HoldsRow
    <3>2. Execute(q, d, balance[w], version[w])
      BY <1>2, <1>5
    <3> QED BY <1>2, <1>5, <2>1, <3>1, <3>2 DEF Accept
  <2>3. [LedgerNext]_ledgerVars /\ LedgerTypeOK'
    BY <1>1, <2>2, TypeStep DEF LedgerNext
  <2>4. Effect(q)
    BY <1>1, <1>2, <2>1, <2>2, <2>3, AcceptWrites, WritesEffect
  <2>5. ResultOf(q)' \in Replies
    BY <2>3, ReplyTypes DEF ResultOf, Replies, LedgerTypeOK
  <2>6. Ends(q)
    BY <1>1, <1>5, <2>5, AnswerEnds
  <2> QED BY <2>4, <2>6
<1> QED BY <1>3, <1>4, <1>5 DEF CommitSubmit

\* The same for the worker: its commit is one indivisible ResolveWaiting.
LEMMA CommitResolveEnds ==
  ASSUME ServiceInv, NEW v \in Workers, CommitResolve(v)
  PROVE  Ends(v) /\ Effect(v)
<1>0. PICK t : t = target[v]
  OBVIOUS
<1> DEFINE d == decision[v]
           w == cmd[t].wallet
           b == seen[v].balance
<1>1. /\ TypeOK /\ LedgerTypeOK /\ pc[v] = "commit" /\ v \in Procs
      /\ WorkerSound(v) /\ ViewOf(v) /\ Fits(v)
  BY DEF ServiceInv, TypeOK, CommitResolve, Local, Procs
<1>2. /\ t \in Requests /\ state[t] = "PENDING_REFERENCE"
      /\ d \in Permitted(t) /\ WalletOf(v) = w
      /\ b = balance[w] /\ seen[v].version = version[w]
  BY <1>0, <1>1 DEF WorkerSound, ViewOf, Fits, WalletOf, Committed
<1>3. d.plan = Pending <=> d = Defer
  <2>1. BorneOut(t, d)
    BY <1>1, <1>2, PermittedBorneOut DEF Undecided
  <2> QED BY <2>1 DEF BorneOut, Defer
<1>4. CASE GiveUp(v)
  BY <1>1, <1>4, GiveUpEnds
<1>5. CASE /\ \/ /\ d.plan = Pending
                 /\ t \in late
                 /\ Reject(t, "REFERENCE_NOT_FOUND", NoTxn, b)
              \/ /\ d.plan # Pending
                 /\ Execute(t, d, b, seen[v].version)
           /\ EndResolve(v)
           /\ UNCHANGED <<inputVars, late, corrupt, inbox>>
  <2>1. ResolveWaiting(t)
    BY <1>2, <1>3, <1>5 DEF ResolveWaiting
  <2>2. [LedgerNext]_ledgerVars
    BY <1>2, <2>1 DEF LedgerNext
  <2>3. Effect(v)
    BY <1>0, <1>1, <1>2, <1>5, <2>1, <2>2, ResolveWrites, WritesEffect
  <2>4. Ends(v)
    BY <1>1, <1>5, ResolveEnds
  <2> QED BY <2>3, <2>4
<1> QED BY <1>0, <1>4, <1>5 DEF CommitResolve

-------------------------------------------------------------------------------
(* Steps of the environment                                                *)

LEMMA EnvironmentKeeps ==
  ASSUME ServiceInv, UNCHANGED <<procVars, lockVars, reply>>,
         [LedgerNext]_ledgerVars,
         UNCHANGED <<cmd, msg, state, claims, inbox>>,
         corrupt \subseteq corrupt',
         \A w \in Wallets : owner[w] # NoOwner =>
           /\ owner'[w] = owner[w]
           /\ balance'[w] = balance[w] /\ version'[w] = version[w]
  PROVE  ServiceInv'
<1>1. /\ UNCHANGED <<pc, tries, target, seen, decision, walletLock, rowLock>>
      /\ Committed' = Committed
  BY DEF procVars, lockVars, Committed
<1>2. TypeOK' /\ IdentityUnique'
  BY <1>1, TypeStep, IdentityStep DEF ServiceInv, TypeOK
<1>3. \A t \in Requests : cmd[t].wallet \in Wallets
  BY CommandFacts DEF ServiceInv, TypeOK
<1>4. Funded'
  BY <1>1, <1>3 DEF ServiceInv, Funded, Committed
<1>5. AllApart'
  BY <1>1
  DEF ServiceInv, AllApart, Apart, HoldsDelivery, HoldsRow, Collides, SameKey,
      SameExternal
<1>6. ASSUME NEW p \in Procs PROVE Local(p)'
  <2>1. Local(p) /\ (p \in Requests <=> p \notin Workers)
    BY ServiceAssumptions DEF ServiceInv, Procs
  <2>2. ASSUME p \in Requests PROVE RequestSound(p)'
    <3>1. RequestSound(p) /\ cmd[p].wallet \in Wallets
      BY <1>3, <2>1, <2>2 DEF Local
    <3>2. \A u : Collides(p, u)' <=> Collides(p, u)
      BY DEF Collides, SameKey, SameExternal
    <3> QED
      BY <1>1, <3>1, <3>2 DEF RequestSound, NoReply, HoldsDelivery, HoldsRow
  <2>3. ASSUME p \in Workers PROVE WorkerSound(p)'
    BY <1>1, <2>1, <2>3 DEF Local, WorkerSound
  <2>4. ASSUME pc[p] \in {"insert", "resolve", "commit"}
        PROVE  owner[WalletOf(p)] # NoOwner /\ WalletOf(p) \in Wallets
    BY <2>1, <2>4, TargetFacts
    DEF Local, RequestSound, WorkerSound, ServiceInv, Funded, WalletOf, Procs
  <2>5. ViewOf(p)'
    BY <1>1, <2>1, <2>4 DEF Local, ViewOf, WalletOf
  <2>6. Fits(p)'
    <3>1. SUFFICES ASSUME pc[p] = "commit"
                   PROVE  decision[p] \in Permitted(target[p])'
      BY <1>1 DEF Fits
    <3>2. PICK t \in Requests : t = target[p]
      BY <3>1, TargetFacts
    <3>3. Steady(cmd[t].wallet)
      BY <1>1 DEF Steady, Claimed
    <3>4. t \in Committed' \/ \A u \in Committed' : ~Collides(t, u)'
      BY <1>1, <2>2, <2>3, <3>1, <3>2
      DEF RequestSound, WorkerSound, HoldsRow, Procs
    <3>5. decision[p] \in Permitted(t)'
      BY <1>2, <2>1, <3>1, <3>2, <3>3, <3>4, PermittedLasts DEF Local, Fits
    <3> QED BY <1>1, <3>2, <3>5
  <2> QED BY <2>2, <2>3, <2>5, <2>6 DEF Local
<1> QED BY <1>2, <1>4, <1>5, <1>6 DEF ServiceInv

-------------------------------------------------------------------------------
(* Every step                                                              *)

\* A step keeps the invariant and is a step of the tables, or leaves them; a
\* row appears only in the commit of the request that names it.
Sound ==
  /\ ServiceInv'
  /\ [LedgerNext]_ledgerVars
  /\ \A t \in Committed' \ Committed : pc[t] = "commit"

LEMMA QuietSound ==
  ASSUME ServiceInv', UNCHANGED ledgerVars
  PROVE  Sound
  BY DEF Sound, Committed, ledgerVars, txnVars

LEMMA EndSound ==
  ASSUME ServiceInv, NEW p \in Procs, pc[p] \notin {"idle", "done"},
         Ends(p), Effect(p)
  PROVE  Sound
  BY EndKeeps, EffectRows DEF Effect, Sound

LEMMA ContinueSound ==
  ASSUME ServiceInv, NEW q \in Requests, NEW step,
         MayContinue(q, step), Continue(q, step)
  PROVE  Sound
  BY ContinueKeeps, QuietSound DEF Continue

LEMMA RefuseSound ==
  ASSUME ServiceInv, NEW q \in Requests, pc[q] \notin {"idle", "done"},
         NEW status \in Refusals, Refuse(q, status)
  PROVE  Sound
  BY RefuseEnds, EndSound DEF ServiceInv, Procs

LEMMA SubmitSound ==
  ASSUME ServiceInv, NEW q \in Requests, Submit(q)
  PROVE  Sound
<1>1. TypeOK /\ q \in Procs
  BY DEF ServiceInv, Procs
<1>2. CASE Start(q)
  BY <1>2, ContinueSound DEF Start, MayContinue
<1>3. CASE BeginDelivery(q)
  <2>1. CASE inbox[msg[q]] = NoDelivery /\ Continue(q, "lookupKey")
    BY <1>3, <2>1, ContinueSound DEF BeginDelivery, MayContinue
  <2>2. CASE Refuse(q, "duplicate") \/ Refuse(q, "inboxConflict")
    BY <1>3, <2>2, RefuseSound DEF BeginDelivery, Refusals
  <2> QED BY <1>3, <2>1, <2>2 DEF BeginDelivery
<1>4. CASE LookupKey(q)
  <2>1. CASE Continue(q, "lookupExt")
    BY <1>4, <2>1, ContinueSound DEF LookupKey, MayContinue
  <2>2. CASE Refuse(q, "corrupt")
    BY <1>4, <2>2, RefuseSound DEF LookupKey, Refusals
  <2>3. ASSUME NEW u \in Committed, SameKey(q, u), Replay(q, u)
        PROVE  Sound
    BY <1>1, <1>4, <2>3, ReplayEnds, EndSound DEF LookupKey
  <2> QED BY <1>4, <2>1, <2>2, <2>3 DEF LookupKey
<1>5. CASE LookupExternal(q)
  <2>1. CASE Continue(q, "lockWallet")
    BY <1>5, <2>1, ContinueSound DEF LookupExternal, MayContinue
  <2>2. CASE Refuse(q, "corrupt") \/ Refuse(q, "externalConflict")
    BY <1>5, <2>2, RefuseSound DEF LookupExternal, Refusals
  <2>3. ASSUME NEW u \in Committed, SameKey(q, u), Replay(q, u)
        PROVE  Sound
    BY <1>1, <1>5, <2>3, ReplayEnds, EndSound DEF LookupExternal
  <2> QED BY <1>5, <2>1, <2>2, <2>3 DEF LookupExternal
<1>6. CASE LockWallet(q)
  <2>1. CASE Refuse(q, "notFound") \/ Refuse(q, "unsupportedCurrency")
    BY <1>6, <2>1, RefuseSound DEF LockWallet, Refusals
  <2>2. CASE /\ owner[cmd[q].wallet] # NoOwner
             /\ owner[cmd[q].wallet].currency = cmd[q].currency
             /\ TakeWallet(q, "insert")
    BY <1>1, <1>6, <2>2, TakeWalletKeeps, QuietSound DEF LockWallet, TakeWallet
  <2> QED BY <1>6, <2>1, <2>2 DEF LockWallet
<1>7. CASE InsertRow(q)
  <2>1. CASE (\A u \in Committed : ~Collides(q, u)) /\ Continue(q, "resolve")
    BY <1>7, <2>1, ContinueSound DEF InsertRow, MayContinue
  <2>2. CASE ConcurrentWrite(q)
    BY <1>1, <1>7, <2>2, ConcurrentWriteEnds, EndSound DEF InsertRow
  <2> QED BY <1>7, <2>1, <2>2 DEF InsertRow
<1>8. CASE Resolve(q)
  BY <1>1, <1>8, ResolveKeeps, QuietSound DEF Resolve
<1>9. CASE CommitSubmit(q)
  BY <1>1, <1>9, CommitSubmitEnds, EndSound DEF CommitSubmit
<1> QED BY <1>2, <1>3, <1>4, <1>5, <1>6, <1>7, <1>8, <1>9 DEF Submit

LEMMA ResolveReferenceSound ==
  ASSUME ServiceInv, NEW v \in Workers, ResolveReference(v)
  PROVE  Sound
<1>1. TypeOK /\ v \in Procs
  BY DEF ServiceInv, Procs
<1>2. ASSUME NEW t \in Requests, Pick(v, t) PROVE Sound
  BY <1>2, PickKeeps, QuietSound DEF Pick
<1>3. CASE LockRow(v)
  <2>1. CASE GiveUp(v)
    BY <1>1, <1>3, <2>1, GiveUpEnds, EndSound DEF LockRow
  <2>2. CASE ~GiveUp(v)
    BY <1>3, <2>2, RowTakenKeeps, QuietSound DEF LockRow
  <2> QED BY <2>1, <2>2
<1>4. CASE LockWalletOfRow(v)
  BY <1>1, <1>4, TakeWalletKeeps, QuietSound
  DEF LockWalletOfRow, TakeWallet
<1>5. CASE Resolve(v)
  BY <1>1, <1>5, ResolveKeeps, QuietSound DEF Resolve
<1>6. CASE CommitResolve(v)
  BY <1>1, <1>6, CommitResolveEnds, EndSound DEF CommitResolve
<1> QED BY <1>2, <1>3, <1>4, <1>5, <1>6 DEF ResolveReference, Advance

LEMMA FailureSound ==
  ASSUME ServiceInv, NEW p \in Procs, Fail(p) \/ BreakDeadlock(p)
  PROVE  Sound
<1>1. TypeOK /\ pc[p] \notin {"idle", "done"}
  BY DEF ServiceInv, Fail, BreakDeadlock
<1>2. CASE p \in Requests /\ Refuse(p, "transient")
  BY <1>1, <1>2, RefuseSound DEF Refusals
<1>3. CASE p \in Requests /\ ConcurrentWrite(p)
  BY <1>1, <1>3, ConcurrentWriteEnds, EndSound
<1>4. CASE p \in Workers /\ GiveUp(p)
  BY <1>1, <1>4, GiveUpEnds, EndSound
<1> QED BY <1>2, <1>3, <1>4 DEF Fail, BreakDeadlock

LEMMA EnvironmentSound ==
  ASSUME ServiceInv, Open \/ \E t \in Requests : Expire(t) \/ Damage(t)
  PROVE  Sound
<1>1. ASSUME NEW w \in Wallets, NEW o \in Owners, NEW b \in OpeningBalances,
             OpenWallet(w, o, b), UNCHANGED <<procVars, lockVars, reply>>
      PROVE  Sound
  <2>1. [LedgerNext]_ledgerVars
    BY <1>1 DEF LedgerNext
  <2>2. /\ UNCHANGED <<cmd, msg, state, corrupt, claims, inbox>>
        /\ \A x \in Wallets : owner[x] # NoOwner =>
             /\ owner'[x] = owner[x]
             /\ balance'[x] = balance[x] /\ version'[x] = version[x]
    BY <1>1
    DEF OpenWallet, inputVars, txnVars, ServiceInv, TypeOK, LedgerTypeOK
  <2> QED BY <1>1, <2>1, <2>2, EnvironmentKeeps DEF Sound, Committed
<1>2. ASSUME NEW t \in Requests, PassDeadline(t) \/ Corrupt(t),
             UNCHANGED <<procVars, lockVars, reply>>
      PROVE  Sound
  <2>1. [LedgerNext]_ledgerVars
    BY <1>2 DEF LedgerNext
  <2>2. /\ UNCHANGED <<cmd, msg, state, claims, inbox, owner, balance, version>>
        /\ corrupt \subseteq corrupt'
    BY <1>2 DEF PassDeadline, Corrupt, inputVars, walletVars, txnVars
  <2> QED BY <1>2, <2>1, <2>2, EnvironmentKeeps DEF Sound, Committed
<1> QED BY <1>1, <1>2 DEF Open, Expire, Damage

LEMMA ServiceStep == ServiceInv /\ [Next]_vars => Sound
<1> SUFFICES ASSUME ServiceInv, [Next]_vars PROVE Sound
  OBVIOUS
<1>1. CASE UNCHANGED vars
  <2>1. UNCHANGED <<ledgerVars, procVars, lockVars, reply>>
    BY <1>1 DEF vars
  <2>2. UNCHANGED <<cmd, msg, state, claims, inbox, owner, balance, version,
                    corrupt>>
    BY <2>1 DEF ledgerVars, inputVars, walletVars, txnVars
  <2> QED BY <2>1, <2>2, EnvironmentKeeps DEF Sound, Committed
<1> QED
  BY <1>1, SubmitSound, ResolveReferenceSound, FailureSound, EnvironmentSound
  DEF Next

LEMMA ServiceInit == Init => ServiceInv
<1> SUFFICES ASSUME Init PROVE ServiceInv
  OBVIOUS
<1>1. TypeOK
  <2>1. LedgerTypeOK
    BY TypeInit DEF Init
  <2>2. NoReply \in Replies
    BY <2>1, ReplyTypes DEF NoReply
  <2>3. Defer \in Decisions
    BY PlanMembers DEF Defer, Decisions
  <2>4. Unread \in [balance : 0..MaxMoney, version : Nat]
    BY LedgerAssumptions DEF Unread
  <2>5. MaxTries \in Nat
    BY ServiceAssumptions
  <2> QED BY <2>1, <2>2, <2>3, <2>4, <2>5 DEF Init, TypeOK, Procs, Steps
<1>2. Committed = {} /\ \A p \in Procs : pc[p] = "idle"
  BY DEF Init, LedgerInit, Committed
<1>3. IdentityUnique /\ Funded
  BY <1>2 DEF IdentityUnique, Funded
<1>4. AllApart
  BY <1>2 DEF AllApart, Apart, HoldsDelivery, HoldsRow, Procs
<1>5. ASSUME NEW p \in Procs PROVE Local(p)
  <2>1. p \in Requests => RequestSound(p)
    BY <1>2, <1>5
    DEF RequestSound, Init, LedgerInit, HoldsDelivery, HoldsRow, Procs
  <2>2. p \in Workers => WorkerSound(p)
    BY <1>2, <1>5 DEF WorkerSound
  <2> QED BY <1>2, <1>5, <2>1, <2>2 DEF Local, ViewOf, Fits
<1> QED BY <1>1, <1>3, <1>4, <1>5 DEF ServiceInv

-------------------------------------------------------------------------------
(* What holds of the use cases                                             *)

LEMMA ServiceInvHolds == Spec => []ServiceInv
<1>1. ServiceInv /\ [Next]_vars => ServiceInv'
  BY ServiceStep DEF Sound
<1> QED BY <1>1, ServiceInit, PTL DEF Spec

\* The transactions, wallets and deliveries keep their types, whatever the
\* order in which statements of concurrent calls run (service.go:136-332).
THEOREM ServiceTypes == Spec => []TypeOK
<1>1. ServiceInv => TypeOK
  BY DEF ServiceInv
<1> QED BY <1>1, ServiceInvHolds, PTL

\* No process commits against a wallet another one has changed since it was
\* read: no update is lost (wallets.go:33-52).
THEOREM ViewHolds == Spec => []ViewIsCurrent
<1>1. ServiceInv => ViewIsCurrent
  BY DEF ServiceInv, Local, ViewOf, ViewIsCurrent
<1> QED BY <1>1, ServiceInvHolds, PTL

\* The interleaved use cases implement the atomic ones: every commit is a step
\* the tables allow in the state it commits in (service.go:136-332).
THEOREM ServiceImplementsLedger == Spec => LedgerSpec
<1>1. Init => LedgerInit
  BY DEF Init
<1>2. ServiceInv /\ [Next]_vars => [LedgerNext]_ledgerVars
  BY ServiceStep DEF Sound
<1> QED BY <1>1, <1>2, ServiceInvHolds, PTL DEF Spec, LedgerSpec

\* What is proved of the tables under the atomic specification holds of them
\* under the interleaved use cases: no identity twice, a ledger without a gap
\* that agrees with balances and transactions, one compensation at most and the
\* other way, no rejection without its reason, no delivery without its result,
\* one story per transaction
\* (service.go:136-641).
THEOREM ServiceKeepsTables ==
  Spec => [](/\ IdentityUnique
             /\ LedgerChain
             /\ LedgerMatchesTransactions
             /\ CompensatedOnce
             /\ ReversalsUndo
             /\ RejectionsTrue
             /\ InboxBacked
             /\ EventsTellOutcome)
  BY ServiceImplementsLedger, IdentityHolds, ChainHolds, LedgerMatchesHolds,
     CompensatedOnceHolds, ReversalsUndoHolds, RejectionsTrueHolds, InboxHolds,
     EventsHold, PTL

\* And no call, retry or worker ever changes a terminal transaction
\* (wager.go:453-470).
THEOREM ServiceKeepsTerminal == Spec => TerminalFrozen
  BY ServiceImplementsLedger, TerminalHolds, PTL

-------------------------------------------------------------------------------
(* What the callers are told                                               *)

\* How a step answers the call q.
Answered(q) ==
  \/ \E status \in {"transient", "corrupt", "notFound", "unsupportedCurrency",
                    "overflow", "inboxConflict"} : Refuse(q, status)
  \/ inbox[msg[q]] = cmd[q] /\ msg[q] # Http /\ Refuse(q, "duplicate")
  \/ \E u \in Committed :
       /\ SameKey(q, u) /\ Digest(cmd[q]) # Digest(cmd[u])
       /\ Refuse(q, "idempotencyConflict")
  \/ \E u \in Committed :
       /\ SameExternal(q, u) /\ ~SameKey(q, u)
       /\ Refuse(q, "externalConflict")
  \/ \E u \in Committed :
       /\ SameKey(q, u) /\ Digest(cmd[q]) = Digest(cmd[u])
       /\ AnswerWith(q, ResultOf(u))
       /\ UNCHANGED txnVars
  \/ AnswerWith(q, ResultOf(q)') /\ q \in Committed'

AnsweredOrNot(q) == reply'[q] = reply[q] \/ (pc[q] # "done" /\ Answered(q))

LEMMA FinishFrame ==
  ASSUME TypeOK, NEW q \in Requests, NEW answer, Finish(q, answer)
  PROVE  reply'[q] = answer /\ \A r \in Requests \ {q} : reply'[r] = reply[r]
  BY DEF Finish, TypeOK

LEMMA ConcurrentWriteAnswer ==
  ASSUME TypeOK, NEW q \in Requests, pc[q] # "done", ConcurrentWrite(q)
  PROVE  \A r \in Requests : AnsweredOrNot(r)
<1>1. CASE tries[q] + 1 < MaxTries
  BY <1>1 DEF ConcurrentWrite, AnsweredOrNot
<1>2. CASE Refuse(q, "transient")
  BY <1>2, FinishFrame DEF Refuse, AnsweredOrNot, Answered
<1> QED BY <1>1, <1>2 DEF ConcurrentWrite

LEMMA RefuseAnswer ==
  ASSUME TypeOK, NEW q \in Requests, pc[q] # "done", Answered(q),
         NEW status, Refuse(q, status)
  PROVE  \A r \in Requests : AnsweredOrNot(r)
  BY FinishFrame DEF Refuse, AnsweredOrNot

LEMMA ReplayAnswer ==
  ASSUME TypeOK, NEW q \in Requests, pc[q] # "done", NEW u \in Committed,
         SameKey(q, u), Replay(q, u)
  PROVE  \A r \in Requests : AnsweredOrNot(r)
<1>1. CASE Digest(cmd[u]) = Digest(cmd[q])
  <2>1. Answered(q)
    BY <1>1 DEF Replay, Answered
  <2>2. \A r \in Requests \ {q} : reply'[r] = reply[r]
    BY <1>1, FinishFrame DEF Replay, AnswerWith
  <2> QED BY <2>1, <2>2 DEF AnsweredOrNot
<1>2. CASE Digest(cmd[u]) # Digest(cmd[q])
  BY <1>2, RefuseAnswer DEF Replay, Answered
<1> QED BY <1>1, <1>2

LEMMA StepAnswers ==
  ASSUME ServiceInv, [Next]_vars, Sound
  PROVE  \A r \in Requests : AnsweredOrNot(r)
<1> DEFINE All == \A r \in Requests : AnsweredOrNot(r)
<1>0. TypeOK /\ \A q \in Requests : RequestSound(q)
  BY DEF ServiceInv, Local, Procs
<1>1. ASSUME UNCHANGED reply PROVE All
  BY <1>1 DEF AnsweredOrNot
<1>2. ASSUME NEW q \in Requests, BeginDelivery(q) PROVE All
  <2>1. CASE Continue(q, "lookupKey")
    BY <1>1, <2>1 DEF Continue
  <2>2. CASE inbox[msg[q]] = cmd[q] /\ Refuse(q, "duplicate")
    BY <1>0, <1>2, <2>2, RefuseAnswer DEF BeginDelivery, Answered, RequestSound
  <2>3. CASE Refuse(q, "inboxConflict")
    BY <1>0, <1>2, <2>3, RefuseAnswer DEF BeginDelivery, Answered
  <2> QED BY <1>2, <2>1, <2>2, <2>3 DEF BeginDelivery
<1>3. ASSUME NEW q \in Requests, LookupKey(q) PROVE All
  <2>1. CASE Continue(q, "lookupExt")
    BY <1>1, <2>1 DEF Continue
  <2>2. CASE Refuse(q, "corrupt")
    BY <1>0, <1>3, <2>2, RefuseAnswer DEF LookupKey, Answered
  <2>3. ASSUME NEW u \in Committed, SameKey(q, u), Replay(q, u) PROVE All
    BY <1>0, <1>3, <2>3, ReplayAnswer DEF LookupKey
  <2> QED BY <1>3, <2>1, <2>2, <2>3 DEF LookupKey
<1>4. ASSUME NEW q \in Requests, LookupExternal(q) PROVE All
  <2>1. CASE Continue(q, "lockWallet")
    BY <1>1, <2>1 DEF Continue
  <2>2. CASE Refuse(q, "corrupt")
    BY <1>0, <1>4, <2>2, RefuseAnswer DEF LookupExternal, Answered
  <2>3. ASSUME NEW u \in Committed, SameExternal(q, u), ~SameKey(q, u),
               Refuse(q, "externalConflict")
        PROVE  All
    <3>1. Answered(q)
      BY <2>3 DEF Answered
    <3> QED BY <1>0, <1>4, <2>3, <3>1, RefuseAnswer DEF LookupExternal
  <2>4. ASSUME NEW u \in Committed, SameKey(q, u), Replay(q, u) PROVE All
    BY <1>0, <1>4, <2>4, ReplayAnswer DEF LookupExternal
  <2> QED BY <1>4, <2>1, <2>2, <2>3, <2>4 DEF LookupExternal
<1>5. ASSUME NEW q \in Requests, LockWallet(q) PROVE All
  <2>1. CASE TakeWallet(q, "insert")
    BY <1>1, <2>1 DEF TakeWallet
  <2>2. CASE Refuse(q, "notFound")
    BY <1>0, <1>5, <2>2, RefuseAnswer DEF LockWallet, Answered
  <2>3. CASE Refuse(q, "unsupportedCurrency")
    BY <1>0, <1>5, <2>3, RefuseAnswer DEF LockWallet, Answered
  <2> QED BY <1>5, <2>1, <2>2, <2>3 DEF LockWallet
<1>6. ASSUME NEW q \in Requests, InsertRow(q) PROVE All
  <2>1. CASE Continue(q, "resolve")
    BY <1>1, <2>1 DEF Continue
  <2>2. CASE ConcurrentWrite(q)
    BY <1>0, <1>6, <2>2, ConcurrentWriteAnswer DEF InsertRow
  <2> QED BY <1>6, <2>1, <2>2 DEF InsertRow
<1>7. ASSUME NEW q \in Requests, CommitSubmit(q) PROVE All
  <2>1. CASE Refuse(q, "overflow")
    BY <1>0, <1>7, <2>1, RefuseAnswer DEF CommitSubmit, Answered
  <2>2. CASE ConcurrentWrite(q)
    BY <1>0, <1>7, <2>2, ConcurrentWriteAnswer DEF CommitSubmit
  <2>3. ASSUME Execute(q, decision[q], seen[q].balance, seen[q].version),
               AnswerWith(q, ResultOf(q)')
        PROVE  All
    <3>1. state'[q] # "ABSENT"
      BY <1>0, <2>3
      DEF Execute, Wait, Reject, Settle, MarkFailed, Move, Persist, TypeOK,
          LedgerTypeOK
    <3>2. Answered(q)
      BY <2>3, <3>1 DEF Answered, Committed
    <3>3. \A r \in Requests \ {q} : reply'[r] = reply[r]
      BY <1>0, <2>3, FinishFrame DEF AnswerWith
    <3> QED BY <1>7, <3>2, <3>3 DEF AnsweredOrNot, CommitSubmit
  <2> QED BY <1>7, <2>1, <2>2, <2>3 DEF CommitSubmit
<1>8. ASSUME NEW q \in Requests, Submit(q) PROVE All
  <2>1. CASE Start(q)
    BY <1>1, <2>1 DEF Start, Continue
  <2>2. CASE Resolve(q)
    BY <1>1, <2>2 DEF Resolve
  <2> QED
    BY <1>2, <1>3, <1>4, <1>5, <1>6, <1>7, <1>8, <2>1, <2>2 DEF Submit
<1>9. ASSUME NEW v \in Workers, ResolveReference(v) PROVE All
  BY <1>1, <1>9
  DEF ResolveReference, Advance, Pick, LockRow, LockWalletOfRow, TakeWallet,
      Resolve, CommitResolve, GiveUp, EndResolve
<1>10. ASSUME NEW p \in Procs, Fail(p) \/ BreakDeadlock(p) PROVE All
  <2>1. pc[p] # "done"
    BY <1>10 DEF Fail, BreakDeadlock
  <2>2. CASE p \in Requests /\ Refuse(p, "transient")
    BY <1>0, <2>1, <2>2, RefuseAnswer DEF Answered
  <2>3. CASE p \in Requests /\ ConcurrentWrite(p)
    BY <1>0, <2>1, <2>3, ConcurrentWriteAnswer
  <2>4. CASE GiveUp(p)
    BY <1>1, <2>4 DEF GiveUp, EndResolve
  <2> QED BY <1>10, <2>2, <2>3, <2>4 DEF Fail, BreakDeadlock
<1>11. ASSUME \/ Open \/ UNCHANGED vars
              \/ \E t \in Requests : Expire(t) \/ Damage(t)
       PROVE  All
  BY <1>1, <1>11 DEF Open, Expire, Damage, vars
<1> QED BY <1>8, <1>9, <1>10, <1>11 DEF Next

\* What AnswersHold and ConflictsAreReal say of one call.
Truthful(q) ==
  /\ reply[q].status = "result" =>
       /\ reply[q].txn \in Committed
       /\ SameKey(q, reply[q].txn)
       /\ Digest(cmd[q]) = Digest(cmd[reply[q].txn])
       /\ reply[q].state \in Terminal => reply[q] = ResultOf(reply[q].txn)
  /\ reply[q].status = "duplicate" =>
       \E t \in Committed : SameKey(q, t) /\ Digest(cmd[q]) = Digest(cmd[t])
  /\ reply[q].status = "idempotencyConflict" =>
       \E t \in Committed : SameKey(q, t) /\ Digest(cmd[q]) # Digest(cmd[t])
  /\ reply[q].status = "externalConflict" =>
       \E t \in Committed : SameExternal(q, t) /\ ~SameKey(q, t)
  /\ reply[q].status \in Refusals \ {"transient"} => state[q] = "ABSENT"

LEMMA RefusalTrue ==
  ASSUME ServiceInv, NEW q \in Requests, pc[q] # "done",
         NEW status \in Refusals, Refuse(q, status),
         status = "duplicate" =>
           \E t \in Committed : SameKey(q, t) /\ Digest(cmd[q]) = Digest(cmd[t]),
         status = "idempotencyConflict" =>
           \E t \in Committed : SameKey(q, t) /\ Digest(cmd[q]) # Digest(cmd[t]),
         status = "externalConflict" =>
           \E t \in Committed : SameExternal(q, t) /\ ~SameKey(q, t)
  PROVE  Truthful(q)'
<1>1. /\ reply'[q].status = status /\ status # "result"
      /\ UNCHANGED <<cmd, state>> /\ Committed' = Committed
  BY FinishFrame
  DEF ServiceInv, Refuse, Refusal, Refusals, ledgerVars, inputVars, txnVars,
      Committed
<1>2. state[q] = "ABSENT"
  BY DEF ServiceInv, Local, RequestSound, Procs
<1> QED BY <1>1, <1>2 DEF Truthful, SameKey, SameExternal

LEMMA AnswerTrue ==
  ASSUME ServiceInv, InboxBacked, Sound, NEW q \in Requests, pc[q] # "done",
         Answered(q)
  PROVE  Truthful(q)'
<1>1. /\ TypeOK /\ LedgerTypeOK /\ cmd' = cmd /\ Committed \subseteq Committed'
  BY CommittedGrows DEF ServiceInv, TypeOK, Sound
<1>2. ASSUME Finish(q, Refusal("transient")) PROVE Truthful(q)'
  BY <1>1, <1>2, FinishFrame DEF Truthful, Refusal
<1>3. CASE \E status \in {"transient", "corrupt", "notFound",
                          "unsupportedCurrency", "overflow", "inboxConflict"} :
             Refuse(q, status)
  BY <1>3, RefusalTrue DEF Refusals
<1>4. CASE inbox[msg[q]] = cmd[q] /\ msg[q] # Http /\ Refuse(q, "duplicate")
  <2>1. /\ msg[q] \in Messages /\ cmd[q] # NoDelivery
    BY <1>1, <1>4, LedgerAssumptions DEF LedgerTypeOK
  <2>2. \E t \in Committed : SameKey(q, t) /\ Digest(cmd[q]) = Digest(cmd[t])
    BY <1>4, <2>1 DEF InboxBacked, SameKey
  <2> QED BY <1>4, <2>2, RefusalTrue DEF Refusals
<1>5. ASSUME NEW u \in Committed, SameKey(q, u), Digest(cmd[q]) # Digest(cmd[u]),
             Refuse(q, "idempotencyConflict")
      PROVE  Truthful(q)'
  BY <1>5, RefusalTrue DEF Refusals
<1>6. ASSUME NEW u \in Committed, SameExternal(q, u), ~SameKey(q, u),
             Refuse(q, "externalConflict")
      PROVE  Truthful(q)'
  BY <1>6, RefusalTrue DEF Refusals
<1>7. ASSUME NEW u \in Committed, SameKey(q, u), Digest(cmd[q]) = Digest(cmd[u]),
             UNCHANGED txnVars, Finish(q, ResultOf(u))
      PROVE  Truthful(q)'
  <2>1. reply'[q] = ResultOf(u) /\ ResultOf(u)' = ResultOf(u)
    BY <1>1, <1>7, FinishFrame DEF ResultOf, txnVars
  <2>2. ResultOf(u).status = "result" /\ ResultOf(u).txn = u
    BY DEF ResultOf
  <2> QED BY <1>1, <1>7, <2>1, <2>2 DEF Truthful, Refusals, SameKey
<1>8. CASE Finish(q, ResultOf(q)') /\ q \in Committed'
  <2>1. reply'[q] = ResultOf(q)'
    BY <1>1, <1>8, FinishFrame
  <2>2. ResultOf(q)'.status = "result" /\ ResultOf(q)'.txn = q
    BY DEF ResultOf
  <2> QED BY <1>8, <2>1, <2>2 DEF Truthful, Refusals, SameKey
<1> QED
  BY <1>2, <1>3, <1>4, <1>5, <1>6, <1>7, <1>8 DEF Answered, AnswerWith

\* An answer once true stays true, whatever the others do.
LEMMA TruthLasts ==
  ASSUME ServiceInv, Sound, NEW q \in Requests, reply'[q] = reply[q],
         Truthful(q)
  PROVE  Truthful(q)'
<1>1. /\ TypeOK /\ LedgerTypeOK /\ cmd' = cmd
      /\ Committed \subseteq Committed' /\ Frozen
  BY CommittedGrows, FrozenStep DEF ServiceInv, TypeOK, Sound
<1>2. ASSUME reply[q].status = "result", reply[q].state \in Terminal
      PROVE  reply[q] = ResultOf(reply[q].txn)'
  <2>1. PICK t \in Committed : t = reply[q].txn
    BY <1>2 DEF Truthful
  <2>2. reply[q] = ResultOf(t) /\ reply[q].state = state[t] /\ t \in Requests
    BY <1>2, <2>1 DEF Truthful, ResultOf, Committed
  <2>3. ResultOf(t)' = ResultOf(t)
    BY <1>1, <1>2, <2>2 DEF Frozen, ResultOf
  <2> QED BY <2>1, <2>2, <2>3
<1>3. ASSUME reply[q].status \in Refusals \ {"transient"}
      PROVE  state'[q] = "ABSENT"
  <2>1. q \notin Committed /\ pc[q] # "commit"
    BY <1>3
    DEF Truthful, Committed, ServiceInv, Local, RequestSound, Procs, NoReply,
        Refusal, Refusals
  <2> QED BY <2>1 DEF Sound, Committed
<1> QED BY <1>1, <1>2, <1>3 DEF Truthful, SameKey, SameExternal

LEMMA AllTruthful == Spec => [](\A q \in Requests : Truthful(q))
<1> DEFINE True == \A q \in Requests : Truthful(q)
<1>1. Init => True
  <2>1. NoReply.status = "none" /\ "none" \notin Refusals
    BY DEF NoReply, Refusal, Refusals
  <2> QED BY <2>1 DEF Init, Truthful
<1>2. ASSUME ServiceInv, InboxBacked, [Next]_vars, True PROVE True'
  <2>1. Sound /\ \A q \in Requests : AnsweredOrNot(q)
    BY <1>2, ServiceStep, StepAnswers
  <2> QED BY <1>2, <2>1, AnswerTrue, TruthLasts DEF AnsweredOrNot
<1>3. ServiceInv /\ InboxBacked /\ True /\ [Next]_vars => True'
  BY <1>2
<1>4. Spec => []InboxBacked
  BY ServiceImplementsLedger, InboxHolds, PTL
<1> QED BY <1>1, <1>3, <1>4, ServiceInvHolds, PTL DEF Spec

\* A result or a duplicate notice is true when it is given and a terminal one
\* stays true for ever (service.go:205-236, 782-803).
THEOREM AnswersHoldAlways == Spec => []AnswersHold
<1>1. (\A q \in Requests : Truthful(q)) => AnswersHold
  BY DEF Truthful, AnswersHold
<1> QED BY <1>1, AllTruthful, PTL

\* No call is told of a conflict that does not exist, and a refused call
\* leaves no row (service.go:205-236).
THEOREM ConflictsAlwaysReal == Spec => []ConflictsAreReal
<1>1. (\A q \in Requests : Truthful(q)) => ConflictsAreReal
  BY DEF Truthful, ConflictsAreReal
<1> QED BY <1>1, AllTruthful, PTL
===============================================================================
