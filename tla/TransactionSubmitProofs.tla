------------------------ MODULE TransactionSubmitProofs ------------------------
(* What holds of every submission, for any number of attempts. *)
EXTENDS TransactionSubmit, FiniteSetTheorems, TLAPS

\* What became of an attempt is known, and it can move no money any more, unless
\* its answer was lost.
Closed(i) == i \in unanswered \/ transfer[i] \in {"none", "failed"}

\* Inductive: earlier attempts are closed, later ones not made, and the one
\* being made is where step says.
SubmitInv ==
    /\ SignatureIsLanded
    /\ RefusedMovesNothing
    /\ \A i \in Attempts : i < attempt => Closed(i)
    /\ \A i \in Attempts : i > attempt => transfer[i] = "none"
    /\ step = "prepare" => \A i \in Attempts : transfer[i] = "none"
    /\ step = "send" => transfer[attempt] = "none"
    /\ step = "catch" => Closed(attempt)
    /\ error = "InsufficientBalance" => step = "threw"

LEMMA ChecksHaveLengths ==
  ASSUME NEW k \in Kinds
  PROVE  Len(Checks[k]) \in Nat \ {0}
BY DEF Checks, Kinds

LEMMA TypeInit == Init => TypeOK
<1> SUFFICES ASSUME Init PROVE TypeOK
  OBVIOUS
<1>1. Len(Checks[request.kind]) \in Nat \ {0}
  BY ChecksHaveLengths DEF Init, Requests
<1> QED BY <1>1, RetriesAssumption DEF Init, TypeOK, Attempts, OnChain, Errors

LEMMA TypeStep == TypeOK /\ [Next]_vars => TypeOK'
<1> SUFFICES ASSUME TypeOK, [Next]_vars PROVE TypeOK'
  OBVIOUS
<1> USE DEF TypeOK, Caught, Attempts
<1>1. /\ Len(Checks[request.kind]) \in Nat \ {0}
      /\ checked \in Nat
  BY ChecksHaveLengths DEF Requests
<1>2. CASE CheckPasses
  BY <1>1, <1>2 DEF CheckPasses
<1>3. CASE CheckFails
  BY <1>1, <1>3 DEF CheckFails, Errors
<1>4. CASE Send \/ SendRejected \/ SendUnanswered
  BY <1>4 DEF Send, SendRejected, SendUnanswered, OnChain, Errors
<1>5. CASE Confirmed \/ ConfirmedFailed \/ ConfirmUnanswered \/ ConfirmTimesOut
  BY <1>5 DEF Confirmed, ConfirmedFailed, ConfirmUnanswered, ConfirmTimesOut, Errors
<1>6. CASE Retry
  <2>1. attempt' \in Attempts
    BY <1>6, RetriesAssumption DEF Retry
  <2> QED BY <1>6, <2>1 DEF Retry
<1>9. CASE GiveUp
  BY <1>9 DEF GiveUp
<1>7. CASE Chain
  BY <1>7 DEF Chain, Decide, OnChain
<1>8. CASE UNCHANGED vars
  BY <1>8 DEF vars
<1> QED BY <1>2, <1>3, <1>4, <1>5, <1>6, <1>7, <1>8, <1>9 DEF Next, Service

\* Every submission is well typed: it makes at most MaxRetries attempts and
\* passes its checks in order (blockchain-transaction.service.ts:98-175).
THEOREM SubmitTypeCorrect == Spec => []TypeOK
<1>1. Init => TypeOK
  BY TypeInit
<1>2. TypeOK /\ [Next]_vars => TypeOK'
  BY TypeStep
<1> QED BY <1>1, <1>2, PTL DEF Spec

LEMMA SubmitInvInit == Init => SubmitInv
BY RetriesAssumption DEF Init, SubmitInv, SignatureIsLanded, RefusedMovesNothing, Attempts, Closed

LEMMA SubmitInvStep == TypeOK /\ SubmitInv /\ [Next]_vars => SubmitInv'
<1> SUFFICES ASSUME TypeOK, SubmitInv, [Next]_vars PROVE SubmitInv'
  OBVIOUS
<1> USE DEF SubmitInv, SignatureIsLanded, RefusedMovesNothing, Closed, Caught
<1>1. CASE CheckPasses
  <2>1. attempt \in Attempts
    BY DEF TypeOK
  <2> QED BY <1>1, <2>1 DEF CheckPasses
<1>2. CASE CheckFails
  BY <1>2 DEF CheckFails
<1>3. CASE Send \/ SendRejected \/ SendUnanswered
  <2>1. /\ attempt \in Attempts
        /\ \A i \in Attempts : i # attempt => transfer'[i] = transfer[i]
        /\ unanswered \subseteq unanswered' /\ attempt' = attempt
    BY <1>3 DEF Send, SendRejected, SendUnanswered, TypeOK
  <2>2. \A i \in Attempts : i < attempt \/ i > attempt => i # attempt
    BY <2>1, RetriesAssumption DEF Attempts
  <2>3. error # "InsufficientBalance" /\ error' # "InsufficientBalance" /\ step' \in {"confirm", "catch"}
    BY <1>3 DEF Send, SendRejected, SendUnanswered
  <2>4. step' = "catch" => Closed(attempt)'
    BY <1>3 DEF Send, SendRejected, SendUnanswered
  <2> QED BY <2>1, <2>2, <2>3, <2>4
<1>4. CASE Confirmed \/ ConfirmedFailed \/ ConfirmUnanswered \/ ConfirmTimesOut
  BY <1>4 DEF Confirmed, ConfirmedFailed, ConfirmUnanswered, ConfirmTimesOut
<1>5. CASE Retry
  BY <1>5, RetriesAssumption DEF Retry, TypeOK, Attempts
<1>6. CASE GiveUp
  BY <1>6 DEF GiveUp
<1>7. CASE Chain
  <2>1. PICK i \in Attempts, fate \in {"landed", "failed", "expired"} : Decide(i, fate)
    BY <1>7 DEF Chain
  <2>2. \A j \in Attempts : transfer'[j] = IF j = i THEN fate ELSE transfer[j]
    BY <2>1 DEF Decide, TypeOK
  <2>3. transfer[i] = "inFlight" /\ attempt \in Attempts
    BY <2>1 DEF Decide, TypeOK
  <2>4. UNCHANGED <<step, attempt, unanswered, error>>
    BY <2>1 DEF Decide
  <2> QED BY <2>2, <2>3, <2>4
<1>8. CASE UNCHANGED vars
  BY <1>8 DEF vars
<1> QED BY <1>1, <1>2, <1>3, <1>4, <1>5, <1>6, <1>7, <1>8 DEF Next, Service

LEMMA SubmitInvariant == Spec => [](TypeOK /\ SubmitInv)
<1>1. Init => TypeOK /\ SubmitInv
  BY TypeInit, SubmitInvInit
<1>2. TypeOK /\ SubmitInv /\ [Next]_vars => (TypeOK /\ SubmitInv)'
  BY TypeStep, SubmitInvStep
<1> QED BY <1>1, <1>2, PTL DEF Spec

\* A signature is returned only for a transfer that landed without an error.
THEOREM SignaturesAreLanded == Spec => []SignatureIsLanded
<1>1. SubmitInv => SignatureIsLanded
  BY DEF SubmitInv
<1> QED BY <1>1, SubmitInvariant, PTL

\* However many attempts are made, only those whose answer was lost and the one
\* being made can have landed.
THEOREM OnlyLostAnswersPayTwice == Spec => []OnlyUnansweredPayTwice
<1>1. TypeOK /\ SubmitInv => OnlyUnansweredPayTwice
  BY DEF TypeOK, SubmitInv, OnlyUnansweredPayTwice, Landed, Closed, Attempts
<1> QED BY <1>1, SubmitInvariant, PTL

\* A call refused for lack of balance moves no money.
THEOREM RefusedCallsMoveNothing == Spec => []RefusedMovesNothing
<1>1. SubmitInv => RefusedMovesNothing
  BY DEF SubmitInv
<1> QED BY <1>1, SubmitInvariant, PTL

\* Inductive: a timeout is on its way to the caller.
TimeoutInv == error = "Timeout" => step \in {"catch", "threw"}

\* Once the confirmation of an attempt has timed out, no further attempt is
\* made, whatever the chain does with those under way.
THEOREM TimeoutsEndTheCall == Spec => NothingSentAfterTimeout
<1>1. Init => TimeoutInv
  BY DEF Init, TimeoutInv
<1>2. TimeoutInv /\ [Next]_vars => TimeoutInv'
  BY DEF TimeoutInv, Next, Service, Chain, Decide, CheckPasses, CheckFails, Send, SendRejected,
     SendUnanswered, Confirmed, ConfirmedFailed, ConfirmUnanswered, ConfirmTimesOut, Retry, GiveUp,
     Caught, vars
<1>3. TypeOK /\ TimeoutInv /\ [Next]_vars =>
        [error = "Timeout" => \A i \in Attempts : transfer[i] = "none" => transfer'[i] = "none"]_vars
  BY DEF TimeoutInv, Next, Service, Chain, Decide, CheckPasses, CheckFails, Send, SendRejected,
     SendUnanswered, Confirmed, ConfirmedFailed, ConfirmUnanswered, ConfirmTimesOut, Retry, GiveUp,
     vars, TypeOK
<1> QED BY <1>1, <1>2, <1>3, SubmitInvariant, PTL DEF Spec, NothingSentAfterTimeout
-----------------------------------------------------------------------------
(* The submission implements what Auction says of it. *)

\* Inductive: nothing is submitted for a timeslot without an epoch number.
EpochInv ==
    /\ checked > 1 => request.epoch
    /\ step \in {"send", "confirm", "catch", "returned"} => checked > 1

LEMMA EpochStep == TypeOK /\ EpochInv /\ [Next]_vars => EpochInv'
<1> SUFFICES ASSUME TypeOK, EpochInv, [Next]_vars PROVE EpochInv'
  OBVIOUS
<1> USE DEF EpochInv, Caught
<1>1. checked \in Nat /\ request.kind \in Kinds
  BY ChecksHaveLengths DEF TypeOK, Requests
<1>2. CASE CheckPasses
  <2>1. checked = 1 => check = "epoch"
    BY <1>1 DEF check, Checks, Kinds
  <2>2. Len(Checks[request.kind]) > 1
    BY <1>1 DEF Checks, Kinds
  <2> QED BY <1>1, <1>2, <2>1, <2>2 DEF CheckPasses, Holds
<1>3. CASE CheckFails
  BY <1>3 DEF CheckFails
<1>4. CASE Send \/ SendRejected \/ SendUnanswered
  BY <1>4 DEF Send, SendRejected, SendUnanswered
<1>5. CASE Confirmed \/ ConfirmedFailed \/ ConfirmUnanswered \/ ConfirmTimesOut
  BY <1>5 DEF Confirmed, ConfirmedFailed, ConfirmUnanswered, ConfirmTimesOut
<1>6. CASE Retry \/ GiveUp
  BY <1>6 DEF Retry, GiveUp
<1>7. CASE Chain \/ UNCHANGED vars
  BY <1>7 DEF Chain, Decide, vars
<1> QED BY <1>2, <1>3, <1>4, <1>5, <1>6, <1>7 DEF Next, Service

LEMMA SentIsCounted ==
  ASSUME TypeOK
  PROVE  /\ IsFiniteSet(Sent) /\ Cardinality(Sent) \in Nat
         /\ Cardinality(Sent) = 0 <=> Sent = {}
         /\ (\E i \in Attempts : i \notin Sent) => Cardinality(Sent) < MaxRetries
<1>1. IsFiniteSet(Attempts) /\ Cardinality(Attempts) = MaxRetries
  <2>1. 1 \in Int /\ MaxRetries \in Int /\ ~ (1 > MaxRetries) /\ MaxRetries - 1 + 1 = MaxRetries
    BY RetriesAssumption
  <2>2. /\ IsFiniteSet(1..MaxRetries)
        /\ Cardinality(1..MaxRetries) = IF 1 > MaxRetries THEN 0 ELSE MaxRetries - 1 + 1
    BY <2>1, FS_Interval
  <2> QED BY <2>1, <2>2 DEF Attempts
<1>2. Sent \subseteq Attempts
  BY DEF Sent
<1>3. IsFiniteSet(Sent) /\ Cardinality(Sent) \in Nat /\ (Cardinality(Sent) = 0 <=> Sent = {})
  BY <1>1, <1>2, FS_Subset, FS_CardinalityType, FS_EmptySet
<1>4. (\E i \in Attempts : i \notin Sent) => Cardinality(Sent) < MaxRetries
  <2>1. /\ Cardinality(Sent) <= Cardinality(Attempts)
        /\ Cardinality(Attempts) = Cardinality(Sent) => Attempts = Sent
    BY <1>1, <1>2, FS_Subset
  <2> QED BY <1>1, <1>3, <2>1, RetriesAssumption
<1> QED BY <1>3, <1>4

\* What the caller sees of this call.
LEMMA CallerUnchanged ==
  ASSUME UNCHANGED <<request, transfer>>, callerStep' = callerStep
  PROVE  UNCHANGED Placement!vars
BY DEF Placement!vars, caller, subject, Sent, Landed

LEMMA PrepareRefines ==
  ASSUME TypeOK, SubmitInv, CheckPasses \/ CheckFails
  PROVE  PlacementStep \/ UNCHANGED Placement!vars
<1>1. request.kind \in Kinds
  BY DEF TypeOK, Requests
<1>2. /\ UNCHANGED <<request, transfer>> /\ Sent' = Sent /\ subject' = subject
      /\ step = "prepare" /\ Sent = {}
  BY DEF CheckPasses, CheckFails, SubmitInv, Sent, subject
<1>3. CASE CheckPasses
  <2>1. step' \in {"prepare", "send"}
    BY <1>3 DEF CheckPasses
  <2>2. callerStep' = callerStep
    BY <1>2, <2>1 DEF callerStep
  <2> QED BY <1>2, <2>2, CallerUnchanged
<1>4. CASE CheckFails
  <2>1. step' = "threw"
    BY <1>4 DEF CheckFails
  <2>2. CASE request.kind = "bid"
    <3>1. Placement!PrepareFails("h")
      BY <1>2, <2>1, <2>2 DEF Placement!PrepareFails, Placement!At, Placement!Go, Placement!slotVars, Placement!bidVars,
         Placement!chainVars, caller, callerStep, Landed
    <3> QED BY <3>1 DEF PlacementStep, Placement!HandlerStep
  <2>3. CASE request.kind = "cancelSupply"
    <3>1. Placement!CancelSupplyTransfer("h")
      BY <1>2, <2>1, <2>3 DEF Placement!CancelSupplyTransfer, Placement!At, Placement!Finish, Placement!slotVars,
         Placement!bidVars, Placement!chainVars, Placement!Idle, Placement!NoPlan, caller, callerStep, Landed
    <3> QED BY <3>1 DEF PlacementStep, Placement!HandlerStep
  <2>4. CASE request.kind = "supply"
    <3>1. callerStep' = callerStep
      BY <1>2, <2>4 DEF callerStep
    <3> QED BY <1>2, <3>1, CallerUnchanged
  <2> QED BY <1>1, <2>2, <2>3, <2>4 DEF Kinds
<1> QED BY <1>3, <1>4

LEMMA SendRefines ==
  ASSUME TypeOK, SubmitInv, EpochInv, Send \/ SendUnanswered
  PROVE  PlacementStep \/ UNCHANGED Placement!vars
<1>1. /\ step = "send" /\ step' \in {"confirm", "catch"} /\ UNCHANGED <<request, attempt>>
      /\ transfer' = [transfer EXCEPT ![attempt] = "inFlight"]
  BY DEF Send, SendUnanswered, Caught
<1>2. attempt \in Attempts /\ transfer[attempt] = "none" /\ request.epoch
  BY <1>1 DEF SubmitInv, EpochInv, TypeOK
<1>3. /\ Sent' = Sent \cup {attempt} /\ attempt \notin Sent /\ Landed' = Landed
      /\ transfer'[attempt] = "inFlight"
  BY <1>1, <1>2 DEF Sent, Landed, TypeOK
<1>4. /\ Cardinality(Sent') = Cardinality(Sent) + 1
      /\ Cardinality(Sent) \in Nat /\ Cardinality(Sent) < MaxRetries
      /\ Sent' # {}
  BY <1>2, <1>3, SentIsCounted, FS_AddElement
<1>5. request.kind \in Kinds /\ subject' = subject
  BY <1>1 DEF TypeOK, Requests, subject
<1>6. CASE request.kind = "bid"
  <2>1. subject = "b1"
    BY <1>2, <1>6 DEF subject
  <2>2. callerStep \in {"submit", "confirming"} /\ callerStep' = "confirming"
    BY <1>1, <1>4, <1>6 DEF callerStep
  <2>3. /\ caller = [step |-> callerStep, on |-> "b1", tries |-> Cardinality(Sent),
                     plan |-> [bids |-> {}, supplies |-> {}, price |-> 0]]
        /\ caller' = [step |-> "confirming", on |-> "b1", tries |-> Cardinality(Sent) + 1,
                      plan |-> [bids |-> {}, supplies |-> {}, price |-> 0]]
    BY <1>1, <1>4, <1>5, <1>6, <2>1, <2>2 DEF caller
  <2>4. (\E i \in Attempts : transfer'[i] = "inFlight")
    BY <1>2, <1>3
  <2>5. Placement!SendTransfer("h")
    BY <1>1, <1>3, <1>4, <1>5, <1>6, <2>1, <2>2, <2>3, <2>4
       DEF Placement!SendTransfer, Placement!At, Placement!slotVars, Placement!bidVars
  <2> QED BY <2>5 DEF PlacementStep, Placement!HandlerStep
<1>7. CASE request.kind \in {"cancelSupply", "supply"}
  <2>1. callerStep' = callerStep
    BY <1>1, <1>7 DEF callerStep
  <2> QED BY <1>1, <1>5, <1>7, <2>1 DEF Placement!vars, caller
<1> QED BY <1>5, <1>6, <1>7 DEF Kinds

LEMMA AttemptEndsRefines ==
  ASSUME TypeOK, SubmitInv, EpochInv,
         SendRejected \/ ConfirmedFailed \/ ConfirmUnanswered \/ ConfirmTimesOut \/ Retry
  PROVE  UNCHANGED Placement!vars
<1>1. /\ step \in {"send", "confirm", "catch"} /\ step' \in {"send", "catch"}
      /\ UNCHANGED <<request, transfer>>
  BY DEF SendRejected, ConfirmedFailed, ConfirmUnanswered, ConfirmTimesOut, Retry, Caught
<1>2. Sent' = Sent
  BY <1>1 DEF Sent
<1>3. callerStep' = callerStep
  BY <1>1, <1>2 DEF callerStep
<1> QED BY <1>1, <1>3, CallerUnchanged

LEMMA ConfirmedRefines ==
  ASSUME TypeOK, EpochInv, Confirmed
  PROVE  PlacementStep \/ UNCHANGED Placement!vars
<1>1. /\ step = "confirm" /\ step' = "returned" /\ UNCHANGED <<request, transfer, attempt>>
      /\ attempt \in Landed /\ attempt \in Sent /\ request.epoch
  BY DEF Confirmed, TypeOK, Landed, Sent, EpochInv
<1>2. /\ Sent' = Sent /\ Landed' = Landed /\ subject' = subject
      /\ request.kind \in Kinds
  BY <1>1 DEF Sent, Landed, subject, TypeOK, Requests
<1>3. CASE request.kind = "bid"
  <2>1. /\ callerStep = "confirming" /\ callerStep' = "confirm"
        /\ subject = "b1"
    BY <1>1, <1>2, <1>3 DEF callerStep, subject
  <2>2. Placement!TransferConfirmed("h")
    BY <1>1, <1>2, <1>3, <2>1 DEF Placement!TransferConfirmed, Placement!At, Placement!Go,
       Placement!slotVars, Placement!bidVars, Placement!chainVars, caller
  <2> QED BY <2>2 DEF PlacementStep, Placement!HandlerStep
<1>4. CASE request.kind = "cancelSupply"
  <2>1. /\ callerStep = "cancelSupply" /\ callerStep' = "release"
        /\ subject = "s1"
    BY <1>1, <1>2, <1>4 DEF callerStep, subject
  <2>2. Placement!CancelSupplyTransfer("h")
    BY <1>1, <1>2, <1>4, <2>1 DEF Placement!CancelSupplyTransfer, Placement!At, Placement!Go,
       Placement!slotVars, Placement!bidVars, Placement!chainVars, caller
  <2> QED BY <2>2 DEF PlacementStep, Placement!HandlerStep
<1>5. CASE request.kind = "supply"
  <2>1. callerStep' = callerStep
    BY <1>1, <1>5 DEF callerStep
  <2> QED BY <1>1, <2>1, CallerUnchanged
<1> QED BY <1>2, <1>3, <1>4, <1>5 DEF Kinds

LEMMA GiveUpRefines ==
  ASSUME TypeOK, GiveUp
  PROVE  PlacementStep \/ UNCHANGED Placement!vars
<1>1. step = "catch" /\ step' = "threw" /\ UNCHANGED <<request, transfer>>
  BY DEF GiveUp
<1>2. /\ Sent' = Sent /\ Landed' = Landed /\ subject' = subject
      /\ request.kind \in Kinds
  BY <1>1 DEF Sent, Landed, subject, TypeOK, Requests
<1>3. CASE request.kind = "bid"
  <2>1. callerStep = (IF Sent = {} THEN "submit" ELSE "confirming") /\ callerStep' = "undo"
    BY <1>1, <1>3 DEF callerStep
  <2>2. Sent = {} => Placement!PrepareFails("h")
    BY <1>1, <1>2, <1>3, <2>1 DEF Placement!PrepareFails, Placement!At, Placement!Go,
       Placement!slotVars, Placement!bidVars, Placement!chainVars, caller
  <2>3. Sent # {} => Placement!SubmitGivesUp("h")
    BY <1>1, <1>2, <1>3, <2>1 DEF Placement!SubmitGivesUp, Placement!At, Placement!Go,
       Placement!slotVars, Placement!bidVars, Placement!chainVars, caller
  <2> QED BY <2>2, <2>3 DEF PlacementStep, Placement!HandlerStep
<1>4. CASE request.kind = "cancelSupply"
  <2>1. callerStep = "cancelSupply" /\ callerStep' = "idle"
    BY <1>1, <1>4 DEF callerStep
  <2>2. Placement!CancelSupplyTransfer("h")
    BY <1>1, <1>2, <1>4, <2>1 DEF Placement!CancelSupplyTransfer, Placement!At, Placement!Finish,
       Placement!Idle, Placement!NoPlan, Placement!slotVars, Placement!bidVars, Placement!chainVars, caller
  <2> QED BY <2>2 DEF PlacementStep, Placement!HandlerStep
<1>5. CASE request.kind = "supply"
  <2>1. callerStep' = callerStep
    BY <1>1, <1>5 DEF callerStep
  <2> QED BY <1>1, <2>1, CallerUnchanged
<1> QED BY <1>2, <1>3, <1>4, <1>5 DEF Kinds

LEMMA ChainRefines ==
  ASSUME TypeOK, Chain
  PROVE  PlacementStep \/ UNCHANGED Placement!vars
<1>1. PICK i \in Attempts, fate \in {"landed", "failed", "expired"} : Decide(i, fate)
  BY DEF Chain
<1>2. /\ transfer[i] = "inFlight" /\ transfer' = [transfer EXCEPT ![i] = fate]
      /\ UNCHANGED <<request, step>>
  BY <1>1 DEF Decide
<1>3. \A j \in Attempts : transfer'[j] = IF j = i THEN fate ELSE transfer[j]
  BY <1>2 DEF TypeOK
<1>4. /\ Sent' = Sent /\ subject' = subject
      /\ Landed' = IF fate = "landed" THEN Landed \cup {i} ELSE Landed
      /\ request.kind \in Kinds
  BY <1>1, <1>2, <1>3 DEF Sent, Landed, subject, TypeOK, Requests
<1>5. callerStep' = callerStep
  BY <1>2, <1>4 DEF callerStep
<1>6. caller' = caller
  BY <1>2, <1>4, <1>5 DEF caller
<1>7. CASE request.kind = "bid"
  <2>1. PICK b \in {"b1", "b2"} : subject = b
    BY <1>7 DEF subject
  <2>2. CASE fate = "landed"
    <3>1. Placement!TransferLands(b)
      BY <1>2, <1>4, <1>6, <1>7, <2>1, <2>2 DEF Placement!TransferLands, Placement!slotVars, Placement!bidVars
    <3> QED BY <3>1 DEF PlacementStep
  <2>3. CASE fate # "landed" /\ (\E j \in Attempts : transfer'[j] = "inFlight")
    BY <1>2, <1>4, <1>6, <1>7, <2>3 DEF Placement!vars
  <2>4. CASE fate # "landed" /\ ~ (\E j \in Attempts : transfer'[j] = "inFlight")
    <3>1. Placement!TransferDropped(b)
      BY <1>2, <1>4, <1>6, <1>7, <2>1, <2>4 DEF Placement!TransferDropped, Placement!slotVars, Placement!bidVars
    <3> QED BY <3>1 DEF PlacementStep
  <2> QED BY <2>2, <2>3, <2>4
<1>8. CASE request.kind # "bid"
  BY <1>2, <1>4, <1>6, <1>8 DEF Placement!vars
<1> QED BY <1>7, <1>8

\* Every submission, of any number of attempts, does only what Auction's
\* PrepareFails, SendTransfer, TransferConfirmed, SubmitGivesUp and
\* CancelSupplyTransfer allow, and the chain what TransferLands and
\* TransferDropped allow (blockchain-transaction.service.ts:98-175).
THEOREM SubmissionImplementsPlacement == Spec => ImplementsPlacement
<1>1. Init => EpochInv
  BY DEF Init, EpochInv
<1>2. TypeOK /\ EpochInv /\ [Next]_vars => EpochInv'
  BY EpochStep
<1>3. TypeOK /\ SubmitInv /\ EpochInv /\ [Next]_vars => [PlacementStep]_(Placement!vars)
  <2> SUFFICES ASSUME TypeOK, SubmitInv, EpochInv, [Next]_vars
               PROVE  PlacementStep \/ UNCHANGED Placement!vars
    OBVIOUS
  <2>1. CASE CheckPasses \/ CheckFails
    BY <2>1, PrepareRefines
  <2>2. CASE Send \/ SendUnanswered
    BY <2>2, SendRefines
  <2>3. CASE SendRejected \/ ConfirmedFailed \/ ConfirmUnanswered \/ ConfirmTimesOut \/ Retry
    BY <2>3, AttemptEndsRefines
  <2>4. CASE Confirmed
    BY <2>4, ConfirmedRefines
  <2>5. CASE GiveUp
    BY <2>5, GiveUpRefines
  <2>6. CASE Chain
    BY <2>6, ChainRefines
  <2>7. CASE UNCHANGED vars
    <3>1. callerStep' = callerStep /\ UNCHANGED <<request, transfer>>
      BY <2>7 DEF vars, callerStep, Sent
    <3> QED BY <3>1, CallerUnchanged
  <2> QED BY <2>1, <2>2, <2>3, <2>4, <2>5, <2>6, <2>7 DEF Next, Service
<1> QED BY <1>1, <1>2, <1>3, SubmitInvariant, PTL DEF Spec, ImplementsPlacement
===============================================================================
