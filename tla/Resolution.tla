------------------------------ MODULE Resolution ------------------------------
(***************************************************************************)
(* The decision part of the wager use cases: what a provider command must  *)
(* look like, and which durable outcome an accepted transaction gets from  *)
(* the transaction it refers to.  No state and no I/O, as in               *)
(* internal/application/resolve.go.                                        *)
(*                                                                         *)
(* A command is a record                                                   *)
(*   [provider, key, ext, wallet, player, round, kind, amount, currency,   *)
(*    ref]                                                                 *)
(* where key is the idempotency key, ext the provider's own transaction    *)
(* identity and ref the ext of another command, or NoRef.  gameId takes    *)
(* part in no decision but the digest, where another field stands for it.  *)
(***************************************************************************)
EXTENDS Naturals

CONSTANT NoRef      \* "no referenceExternalTransactionId"

Kinds == {"BET", "WIN", "LOSS", "REFUND", "ROLLBACK"}

ReversalKinds == {"REFUND", "ROLLBACK"}

Terminal == {"PROCESSED", "REJECTED", "FAILED"}

PendingStates == {"PENDING", "PENDING_REFERENCE"}

FailureCodes ==
  {"INSUFFICIENT_FUNDS", "REVERSAL_INSUFFICIENT_FUNDS", "REFERENCE_NOT_FOUND",
   "REFERENCE_NOT_PROCESSED", "REFERENCE_MISMATCH", "REVERSAL_AMOUNT_MISMATCH",
   "REFERENCE_KIND_NOT_ALLOWED", "INVALID_WIN_REFERENCE", "ALREADY_REVERSED",
   "PERMANENT_INFRASTRUCTURE_FAILURE"}

Directions == {"DEBIT", "CREDIT"}

-------------------------------------------------------------------------------
(* Commands                                                                *)

\* Only LOSS moves nothing; BET and LOSS refer to nothing, a reversal must,
\* a WIN may.
ValidCommand(c) ==
  /\ c.kind \in Kinds
  /\ (c.kind = "LOSS") <=> (c.amount = 0)
  /\ c.kind \in {"BET", "LOSS"} => c.ref = NoRef
  /\ c.kind \in ReversalKinds => c.ref # NoRef

\* The canonical projection: every business field and not the key.
Digest(c) ==
  <<c.provider, c.ext, c.wallet, c.player, c.round, c.kind, c.amount,
    c.currency, c.ref>>

NeedsReference(c) == c.ref # NoRef

SameIdentity(c, d) ==
  /\ c.wallet = d.wallet
  /\ c.player = d.player
  /\ c.round = d.round
  /\ c.currency = d.currency

-------------------------------------------------------------------------------
(* Outcomes                                                                *)

Plan(outcome, code, dir, claim) ==
  [outcome |-> outcome, code |-> code, dir |-> dir, claim |-> claim]

Pending         == Plan("pending", "none", "none", FALSE)
Rejected(code)  == Plan("reject", code, "none", FALSE)
Settled         == Plan("settle", "none", "none", FALSE)
Moved(dir)      == Plan("move", "none", dir, FALSE)
Compensated(dir) == Plan("move", "none", dir, TRUE)

\* Not a classification: what the use cases do about an unreadable reference.
Failed == Plan("fail", "PERMANENT_INFRASTRUCTURE_FAILURE", "none", FALSE)

Plans ==
  {Pending, Settled, Failed}
    \cup {Rejected(code) : code \in FailureCodes}
    \cup {Moved(dir) : dir \in Directions}
    \cup {Compensated(dir) : dir \in Directions}

\* The kinds each reversal may compensate.
Reverses(kind) == IF kind = "REFUND" THEN {"BET"} ELSE {"BET", "WIN", "REFUND"}

\* What rules the reference d out for c whatever state d is in; "none" if
\* nothing does.
ReferenceFault(c, d) ==
  IF c.kind = "WIN"
    THEN IF d.kind = "BET" /\ SameIdentity(c, d) THEN "none"
         ELSE "INVALID_WIN_REFERENCE"
  ELSE IF d.kind \notin Reverses(c.kind) THEN "REFERENCE_KIND_NOT_ALLOWED"
  ELSE IF ~SameIdentity(c, d) THEN "REFERENCE_MISMATCH"
  ELSE IF c.amount # d.amount THEN "REVERSAL_AMOUNT_MISMATCH"
  ELSE "none"

\* Mutant: every reversal gives, as if it were always a bet that is reversed.
MovementAlwaysGives(c, d) ==
  IF c.kind = "WIN" THEN Moved("CREDIT") ELSE Compensated("CREDIT")

\* Reversing a credit takes the money back; everything else gives it.
MovementOf(c, d) ==
  IF c.kind = "WIN" THEN Moved("CREDIT")
  ELSE IF d.kind = "BET" THEN Compensated("CREDIT")
  ELSE Compensated("DEBIT")

\* A command without a reference.
ClassifyAlone(c) ==
  IF c.kind = "LOSS" THEN Settled
  ELSE IF c.kind = "BET" THEN Moved("DEBIT")
  ELSE Moved("CREDIT")

\* Command c against the command d it refers to, d's state and whether d
\* already carries a compensation claim.
ClassifyAgainst(c, d, dState, claimed) ==
  IF ReferenceFault(c, d) # "none" THEN Rejected(ReferenceFault(c, d))
  ELSE IF dState \in PendingStates THEN Pending
  ELSE IF dState \in {"REJECTED", "FAILED"}
    THEN Rejected("REFERENCE_NOT_PROCESSED")
  ELSE IF c.kind \in ReversalKinds /\ claimed THEN Rejected("ALREADY_REVERSED")
  ELSE MovementOf(c, d)
===============================================================================
