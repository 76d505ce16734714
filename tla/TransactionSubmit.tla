--------------------------- MODULE TransactionSubmit ---------------------------
(***************************************************************************)
(* One transfer prepared and submitted by                                  *)
(* src/services/blockchain-transaction.service.ts: the checks of           *)
(* prepareBidTransaction, prepareSupplyTransaction or                      *)
(* prepareCancelSupplyTransaction, then the attempts of                    *)
(* submitTransactionWithRetry, each sent, awaited against a 60 second      *)
(* timer, and repeated after most errors.                                  *)
(*                                                                         *)
(* Every attempt signs a new block hash, so the chain takes each as a      *)
(* transfer of its own.  What was sent may land long after its attempt was *)
(* given up.                                                               *)
(***************************************************************************)
EXTENDS Integers, Sequences, FiniteSets

CONSTANT MaxRetries         \* MAX_RETRIES, 3 in the code

ASSUME RetriesAssumption == MaxRetries \in Nat \ {0}

VARIABLES
    request,    \* what is submitted, and whether its prerequisites hold
    checked,    \* checks passed
    step,       \* where the call is
    attempt,    \* the attempt being made
    transfer,   \* what became of each attempt's transfer on the chain
    unanswered, \* attempts given up without learning what became of them
    error       \* the error caught last, or thrown in the end

vars == <<request, checked, step, attempt, transfer, unanswered, error>>

Kinds == {"bid", "supply", "cancelSupply"}

\* kind of transfer, whether the timeslot's id parses as an epoch number, and
\* whether the server has a wallet.
Requests == [kind : Kinds, epoch : BOOLEAN, wallet : BOOLEAN]

\* What must succeed, in this order, before anything is sent.
Checks ==
    [bid          |-> <<"balance", "epoch", "timeslot", "globalState", "amount", "blockhash", "wallet">>,
     supply       |-> <<"balance", "epoch", "globalState", "blockhash", "wallet">>,
     cancelSupply |-> <<"balance", "epoch", "supply", "blockhash", "wallet">>]

Attempts == 1..MaxRetries
OnChain == {"none", "inFlight", "landed", "failed", "expired"}
Errors == {"none", "TransactionError", "InsufficientBalance", "Timeout"}

Init ==
    /\ request \in Requests
    /\ checked = 0
    /\ step = "prepare"
    /\ attempt = 1
    /\ transfer = [i \in Attempts |-> "none"]
    /\ unanswered = {}
    /\ error = "none"

-----------------------------------------------------------------------------
(* prepare...Transaction *)

check == Checks[request.kind][checked + 1]

\* Mutant: an id that is no number is taken for an epoch.
HoldsForAnyEpoch(c) == c = "wallet" => request.wallet

\* May the check pass, and may it fail?
Holds(c) == (c = "epoch" => request.epoch) /\ (c = "wallet" => request.wallet)
MayFail(c) == c \in {"epoch", "wallet"} => ~ Holds(c)

CheckPasses ==
    /\ step = "prepare"
    /\ Holds(check)
    /\ checked' = checked + 1
    /\ step' = IF checked' = Len(Checks[request.kind]) THEN "send" ELSE "prepare"
    /\ UNCHANGED <<request, attempt, transfer, unanswered, error>>

\* Too low a balance keeps its error class; every other error, that of a failed
\* RPC call included, is thrown as a TransactionError.
CheckFails ==
    /\ step = "prepare"
    /\ MayFail(check)
    /\ error' \in {"TransactionError"}
            \cup (IF check = "balance" THEN {"InsufficientBalance"} ELSE {})
    /\ step' = "threw"
    /\ UNCHANGED <<request, checked, attempt, transfer, unanswered>>

-----------------------------------------------------------------------------
(* submitTransactionWithRetry *)

Caught(e) == step' = "catch" /\ error' = e

Send ==
    /\ step = "send"
    /\ transfer' = [transfer EXCEPT ![attempt] = "inFlight"]
    /\ step' = "confirm"
    /\ UNCHANGED <<request, checked, attempt, unanswered, error>>

\* Mutant: a refused transfer is reported as a lack of balance.
SendRefusedForBalance ==
    /\ step = "send"
    /\ Caught("InsufficientBalance")
    /\ UNCHANGED <<request, checked, attempt, transfer, unanswered>>

\* The transfer cannot be signed, or the node refuses it.
SendRejected ==
    /\ step = "send"
    /\ Caught("TransactionError")
    /\ UNCHANGED <<request, checked, attempt, transfer, unanswered>>

\* The node takes the transfer, but its answer is lost.
SendUnanswered ==
    /\ step = "send"
    /\ transfer' = [transfer EXCEPT ![attempt] = "inFlight"]
    /\ unanswered' = unanswered \cup {attempt}
    /\ Caught("TransactionError")
    /\ UNCHANGED <<request, checked, attempt>>

\* Mutant: the error in the confirmation is not looked at.
ConfirmedUnchecked ==
    /\ step = "confirm"
    /\ transfer[attempt] \in {"landed", "failed"}
    /\ step' = "returned"
    /\ UNCHANGED <<request, checked, attempt, transfer, unanswered, error>>

Confirmed ==
    /\ step = "confirm"
    /\ transfer[attempt] = "landed"
    /\ step' = "returned"
    /\ UNCHANGED <<request, checked, attempt, transfer, unanswered, error>>

\* The confirmation says that the transfer was executed with an error.
ConfirmedFailed ==
    /\ step = "confirm"
    /\ transfer[attempt] = "failed"
    /\ Caught("TransactionError")
    /\ UNCHANGED <<request, checked, attempt, transfer, unanswered>>

\* Mutant: an attempt is given up at any time as if it had been refused.
ConfirmForgotten ==
    /\ step = "confirm"
    /\ Caught("TransactionError")
    /\ UNCHANGED <<request, checked, attempt, transfer, unanswered>>

\* confirmTransaction rejects: its connection broke, or its own wait was over.
ConfirmUnanswered ==
    /\ step = "confirm"
    /\ unanswered' = unanswered \cup {attempt}
    /\ Caught("TransactionError")
    /\ UNCHANGED <<request, checked, attempt, transfer>>

\* The timer of the race fires first.
ConfirmTimesOut ==
    /\ step = "confirm"
    /\ unanswered' = unanswered \cup {attempt}
    /\ Caught("Timeout")
    /\ UNCHANGED <<request, checked, attempt, transfer>>

\* Mutant: the loop counts only the attempts that went out.
RetryUncounted ==
    /\ step = "catch"
    /\ error # "Timeout"
    /\ attempt < MaxRetries
    /\ attempt' = IF transfer[attempt] = "none" THEN attempt ELSE attempt + 1
    /\ step' = "send"
    /\ UNCHANGED <<request, checked, transfer, unanswered, error>>

\* Mutant: one attempt too many.
RetryOnceMore ==
    /\ step = "catch"
    /\ error # "Timeout"
    /\ attempt <= MaxRetries
    /\ attempt' = attempt + 1
    /\ step' = "send"
    /\ UNCHANGED <<request, checked, transfer, unanswered, error>>

\* Mutant: timeouts are retried like other errors.
RetryTimeout ==
    /\ step = "catch"
    /\ attempt < MaxRetries
    /\ attempt' = attempt + 1
    /\ step' = "send"
    /\ UNCHANGED <<request, checked, transfer, unanswered, error>>

\* After the delay the next attempt is made.
Retry ==
    /\ step = "catch"
    /\ error # "Timeout"
    /\ attempt < MaxRetries
    /\ attempt' = attempt + 1
    /\ step' = "send"
    /\ UNCHANGED <<request, checked, transfer, unanswered, error>>

\* A timeout is thrown at once, any other error after the last attempt.
GiveUp ==
    /\ step = "catch"
    /\ error = "Timeout" \/ attempt = MaxRetries
    /\ step' = "threw"
    /\ UNCHANGED <<request, checked, attempt, transfer, unanswered, error>>

-----------------------------------------------------------------------------
(* The chain *)

Decide(i, fate) ==
    /\ transfer[i] = "inFlight"
    /\ transfer' = [transfer EXCEPT ![i] = fate]
    /\ UNCHANGED <<request, checked, step, attempt, unanswered, error>>

Chain == \E i \in Attempts, fate \in {"landed", "failed", "expired"} : Decide(i, fate)

Service ==
    \/ CheckPasses \/ CheckFails
    \/ Send \/ SendRejected \/ SendUnanswered
    \/ Confirmed \/ ConfirmedFailed \/ ConfirmUnanswered \/ ConfirmTimesOut
    \/ Retry \/ GiveUp

Next == Service \/ Chain

\* Every RPC call is answered or fails, and timers fire; the chain owes nothing.
Spec == Init /\ [][Next]_vars
FairSpec == Spec /\ WF_vars(Service)

-----------------------------------------------------------------------------
(* Properties *)

\* Types of all state.
TypeOK ==
    /\ request \in Requests
    /\ checked \in 0..Len(Checks[request.kind])
    /\ step \in {"prepare", "send", "confirm", "catch", "returned", "threw"}
    /\ step = "prepare" => checked < Len(Checks[request.kind])
    /\ attempt \in Attempts
    /\ transfer \in [Attempts -> OnChain]
    /\ unanswered \subseteq Attempts
    /\ error \in Errors

Landed == {i \in Attempts : transfer[i] = "landed"}

\* A signature is returned only for a transfer that landed without an error
\* (lines 133-146).
SignatureIsLanded == step = "returned" => transfer[attempt] = "landed"

\* The payer pays more than once only through attempts whose answer was lost:
\* an attempt known to have failed can no longer land when the next is sent
\* (lines 148-168).
OnlyUnansweredPayTwice == Landed \subseteq unanswered \cup {attempt}

\* A call refused for lack of balance has moved no money and never will
\* (lines 79-86, 157-161).
RefusedMovesNothing ==
    error = "InsufficientBalance" => \A i \in Attempts : transfer[i] = "none"

\* Once the timer has won a race nothing more is sent: the caller, who is told
\* of the timeout and cancels, is not overtaken by a later attempt (lines 158-161).
NothingSentAfterTimeout ==
    [][error = "Timeout" => \A i \in Attempts : transfer[i] = "none" => transfer'[i] = "none"]_vars

\* Every call returns a signature or throws.
Returns == <>(step \in {"returned", "threw"})

-----------------------------------------------------------------------------
(* The placement and the cancellation of Auction see this call as its       *)
(* actions PrepareFails, SendTransfer, TransferConfirmed, SubmitGivesUp and *)
(* CancelSupplyTransfer, and the chain as TransferLands and TransferDropped.*)

subject ==
    CASE request.kind = "bid"          -> IF request.epoch THEN "b1" ELSE "b2"
      [] request.kind = "cancelSupply" -> IF request.epoch THEN "s1" ELSE "s2"
      [] OTHER                         -> "none"

Sent == {i \in Attempts : transfer[i] # "none"}

callerStep ==
    CASE request.kind = "bid" ->
           (CASE step = "returned" -> "confirm"
              [] step = "threw"    -> "undo"
              [] OTHER             -> IF Sent = {} THEN "submit" ELSE "confirming")
      [] request.kind = "cancelSupply" /\ step = "returned" -> "release"
      [] request.kind = "cancelSupply" /\ step \notin {"returned", "threw"} -> "cancelSupply"
      [] OTHER -> "idle"

caller ==
    [step  |-> callerStep,
     on    |-> IF callerStep = "idle" THEN "none" ELSE subject,
     tries |-> IF request.kind = "bid" THEN Cardinality(Sent) ELSE 0,
     plan  |-> [bids |-> {}, supplies |-> {}, price |-> 0]]

Placement ==
    INSTANCE Auction WITH
        Handlers <- {"h"}, Users <- {"u"}, Timeslots <- {"t1", "t2"},
        Bids <- {"b1", "b2"}, Supplies <- {"s1", "s2"}, None <- "none",
        Bidder <- [b \in {"b1", "b2"} |-> "u"],
        BidSlot <- [b \in {"b1", "b2"} |-> IF b = "b1" THEN "t1" ELSE "t2"],
        BidPrice <- [b \in {"b1", "b2"} |-> 1],
        BidQuantity <- [b \in {"b1", "b2"} |-> 1],
        SupplySlot <- [s \in {"s1", "s2"} |-> IF s = "s1" THEN "t1" ELSE "t2"],
        ReservePrice <- [s \in {"s1", "s2"} |-> 1],
        SupplyQuantity <- [s \in {"s1", "s2"} |-> 1],
        EpochSlots <- {"t1"}, Leftover <- {}, EventStatuses <- {},
        MaxRetries <- MaxRetries, Faults <- {}, Crashes <- FALSE,
        status <- [t \in {"t1", "t2"} |-> "OPEN"],
        clearingPrice <- [t \in {"t1", "t2"} |-> -1],
        expired <- {},
        bid <- [b \in {"b1", "b2"} |-> "PENDING"],
        signed <- {},
        supply <- [s \in {"s1", "s2"} |-> "COMMITTED"],
        inDoubt <- IF request.kind = "bid" /\ (\E i \in Attempts : transfer[i] = "inFlight")
                   THEN {subject} ELSE {},
        paid <- IF request.kind = "bid" /\ Landed # {} THEN {subject} ELSE {},
        req <- [h \in {"h"} |-> caller]

PlacementStep ==
    \/ Placement!HandlerStep("h")
    \/ \E b \in {"b1", "b2"} : Placement!TransferLands(b) \/ Placement!TransferDropped(b)

\* Every step of a submission and of the chain is a step of the caller's module
\* or leaves it unchanged (lines 98-175, 261-330, 387-472).
ImplementsPlacement == [][PlacementStep]_(Placement!vars)
===============================================================================
