--------------------------- MODULE WalletAuthProofs ---------------------------
(* Theorems about WalletAuth, for any number of requests, wallets, nonces and *)
(* attempts, with failing calls and restarts.                                 *)
EXTENDS WalletAuth, FiniteSetTheorems, TLAPS

-----------------------------------------------------------------------------
(* Requests *)

LEMMA IdleType == Idle \in Requests
BY WalletAuthAssumption DEF Idle, Requests, Steps

\* Where Go leaves the request that moves.
LEMMA Moved ==
  ASSUME TypeOK, NEW h \in Handlers, NEW s \in Steps, Go(h, s),
         s \in InitSteps \cup LoginSteps => req[h].step \in InitSteps \cup LoginSteps
  PROVE  /\ req' \in [Handlers -> Requests]
         /\ \A g \in Handlers \ {h} : req'[g] = req[g]
         /\ req'[h].step = s
         /\ req'[h].spent = req[h].spent
         /\ s \notin Ends => req'[h].nonce = req[h].nonce /\ req'[h].wallet = req[h].wallet
<1>1. req[h] \in Requests
  BY DEF TypeOK
<1>2. [Idle EXCEPT !.step = s, !.spent = req[h].spent] \in Requests
  BY <1>1, IdleType DEF Idle, Requests
<1>3. [req[h] EXCEPT !.step = s, !.tries = 0] \in Requests
  <2>1. 0 \in 0..(MaxRetries - 1)
    BY WalletAuthAssumption
  <2> QED BY <1>1, <2>1 DEF Requests
<1>4. CASE s \in Ends
  BY <1>1, <1>2, <1>4 DEF Go, TypeOK, Requests, Idle
<1>5. CASE s \notin Ends
  BY <1>1, <1>3, <1>5 DEF Go, TypeOK, Requests
<1> QED BY <1>4, <1>5

\* A repeated or failing call.
LEMMA AgainMoved ==
  ASSUME TypeOK, NEW h \in Handlers, AgainOrThrow(h)
  PROVE  /\ req' \in [Handlers -> Requests]
         /\ \A g \in Handlers \ {h} : req'[g] = req[g]
         /\ req'[h].spent = req[h].spent
         /\ \/ /\ req'[h].step = req[h].step
               /\ req'[h].nonce = req[h].nonce
               /\ req'[h].wallet = req[h].wallet
            \/ req'[h].step = "failed"
<1>1. req[h] \in Requests
  BY DEF TypeOK
<1>2. CASE Go(h, "failed")
  BY <1>2, Moved DEF Steps, Ends, InitSteps, LoginSteps
<1>3. CASE /\ req[h].tries + 1 < MaxRetries
           /\ req' = [req EXCEPT ![h].tries = @ + 1]
  <2>1. [req[h] EXCEPT !.tries = @ + 1] \in Requests
    BY <1>1, <1>3, WalletAuthAssumption DEF Requests
  <2> QED BY <1>1, <1>3, <2>1 DEF TypeOK, Requests
<1> QED BY <1>2, <1>3 DEF AgainOrThrow

\* A request that comes in.
LEMMA Begun ==
  ASSUME TypeOK, NEW h \in Handlers, Begin(h)
  PROVE  /\ req' \in [Handlers -> Requests]
         /\ \A g \in Handlers \ {h} : req'[g] = req[g]
         /\ \/ \E n \in Nonces :
                 /\ row[n] = "none"
                 /\ \A g \in Handlers : req[g].nonce # n
                 /\ req'[h].step = "cleanup" /\ ~ req'[h].spent
                 /\ req'[h].nonce = n /\ req'[h].wallet = Owner[n]
            \/ \E n \in sent : /\ req'[h].step = "find" /\ req'[h].spent = Spent(n)
                              /\ req'[h].nonce = n /\ req'[h].wallet \in Wallets
            \/ \E w \in Wallets, n \in Nonces :
                 /\ issued[<<w, n>>] > 0
                 /\ req'[h].step = "resolve" /\ ~ req'[h].spent /\ req'[h].wallet = w
         /\ UNCHANGED <<row, sent, expired, users, issued>>
<1> USE DEF nonceVars, userVars
<1>1. CASE \E n \in Nonces : BeginInit(h, n)
  <2>1. PICK n \in Nonces : BeginInit(h, n)
    BY <1>1
  <2> DEFINE r == [Idle EXCEPT !.step = "cleanup", !.wallet = Owner[n], !.nonce = n]
  <2>2. r \in Requests
    BY IdleType, WalletAuthAssumption DEF Idle, Requests, Steps, InitSteps
  <2>3. r.step = "cleanup" /\ r.spent = FALSE /\ r.nonce = n /\ r.wallet = Owner[n]
    BY DEF Idle
  <2>4. /\ row[n] = "none" /\ \A g \in Handlers : req[g].nonce # n
        /\ req' = [req EXCEPT ![h] = r]
        /\ UNCHANGED <<row, sent, expired, users, issued>>
    BY <2>1 DEF BeginInit
  <2> HIDE DEF r
  <2> QED BY <2>2, <2>3, <2>4 DEF TypeOK
<1>2. CASE \E w \in Wallets, n \in Nonces, signed \in BOOLEAN : BeginLogin(h, w, n, signed)
  <2>1. PICK w \in Wallets, n \in Nonces, signed \in BOOLEAN : BeginLogin(h, w, n, signed)
    BY <1>2
  <2> DEFINE r == [Idle EXCEPT !.step = "find", !.wallet = w, !.nonce = n, !.signed = signed,
                               !.spent = Spent(n)]
  <2>2. r \in Requests
    <3>1. Spent(n) \in BOOLEAN
      BY DEF Spent
    <3> QED BY <3>1, IdleType DEF Idle, Requests, Steps, LoginSteps
  <2>3. r.step = "find" /\ r.spent = Spent(n) /\ r.nonce = n /\ r.wallet = w
    BY DEF Idle
  <2>4. n \in sent /\ req' = [req EXCEPT ![h] = r] /\ UNCHANGED <<row, sent, expired, users, issued>>
    BY <2>1 DEF BeginLogin
  <2> HIDE DEF r
  <2> QED BY <2>2, <2>3, <2>4 DEF TypeOK
<1>3. CASE \E w \in Wallets, n \in Nonces : BeginResolve(h, w, n)
  <2>1. PICK w \in Wallets, n \in Nonces : BeginResolve(h, w, n)
    BY <1>3
  <2> DEFINE r == [Idle EXCEPT !.step = "resolve", !.wallet = w]
  <2>2. r \in Requests
    BY IdleType DEF Idle, Requests, Steps
  <2>3. r.step = "resolve" /\ r.spent = FALSE /\ r.wallet = w
    BY DEF Idle
  <2>4. /\ issued[<<w, n>>] > 0 /\ req' = [req EXCEPT ![h] = r]
        /\ UNCHANGED <<row, sent, expired, users, issued>>
    BY <2>1 DEF BeginResolve
  <2> HIDE DEF r
  <2> QED BY <2>2, <2>3, <2>4 DEF TypeOK
<1> QED BY <1>1, <1>2, <1>3 DEF Begin

-----------------------------------------------------------------------------
(* Types *)

LEMMA StepNames ==
  /\ InitSteps \cup LoginSteps \cup Ends \cup {"idle", "resolve"} = Steps
  /\ \A s \in Ends : s \notin InitSteps \cup LoginSteps
BY DEF Steps, InitSteps, LoginSteps, Ends

LEMMA BegunTypeOK ==
  ASSUME TypeOK, NEW h \in Handlers, Begin(h)
  PROVE  TypeOK'
<1>1. /\ req' \in [Handlers -> Requests]
      /\ \A g \in Handlers \ {h} : req'[g] = req[g]
      /\ req'[h].step \in InitSteps \cup LoginSteps =>
            req'[h].nonce \in Nonces /\ req'[h].wallet \in Wallets
      /\ UNCHANGED <<row, sent, expired, users, issued>>
  <2>1. sent \subseteq Nonces
    BY DEF TypeOK
  <2>2. \A n \in Nonces : Owner[n] \in Wallets
    BY WalletAuthAssumption
  <2>3. \/ req'[h].nonce \in Nonces /\ req'[h].wallet \in Wallets
        \/ req'[h].step = "resolve"
    BY <2>1, <2>2, Begun
  <2>4. "resolve" \notin InitSteps \cup LoginSteps
    BY DEF InitSteps, LoginSteps
  <2> QED BY <2>3, <2>4, Begun
<1> QED BY <1>1 DEF TypeOK

\* What a step does to the rows, and that it leaves the request well typed.
LEMMA StepTypeOK ==
  ASSUME TypeOK, NEW h \in Handlers, Step(h)
  PROVE  /\ TypeOK'
         /\ \A g \in Handlers \ {h} : req'[g] = req[g]
<1> USE DEF nonceVars, userVars
<1>0. req[h] \in Requests
  BY DEF TypeOK
<1>1. ASSUME req' \in [Handlers -> Requests], \A g \in Handlers \ {h} : req'[g] = req[g],
             req'[h].step \in InitSteps \cup LoginSteps =>
                 /\ req[h].step \in InitSteps \cup LoginSteps
                 /\ req'[h].nonce = req[h].nonce /\ req'[h].wallet = req[h].wallet,
             row' \in [Nonces -> Rows], sent' \subseteq Nonces, UNCHANGED expired,
             users' \subseteq Wallets, issued' \in [Wallets \X Nonces -> Nat]
      PROVE  TypeOK' /\ \A g \in Handlers \ {h} : req'[g] = req[g]
  BY <1>1 DEF TypeOK
<1>2. ASSUME NEW s \in Steps, Go(h, s),
             s \in InitSteps \cup LoginSteps => req[h].step \in InitSteps \cup LoginSteps
      PROVE  /\ req' \in [Handlers -> Requests] /\ \A g \in Handlers \ {h} : req'[g] = req[g]
             /\ req'[h].step \in InitSteps \cup LoginSteps =>
                 /\ req[h].step \in InitSteps \cup LoginSteps
                 /\ req'[h].nonce = req[h].nonce /\ req'[h].wallet = req[h].wallet
  BY <1>2, Moved, StepNames
<1>3. {"store", "verify", "mark", "lookup", "create", "touch", "done", "failed", "refused",
       "unknown"} \subseteq Steps
  BY DEF Steps, InitSteps, LoginSteps, Ends
<1>4. CASE Cleanup(h) \/ CleanupFails(h)
  <2>1. Go(h, "store") /\ req[h].step \in InitSteps
    BY <1>4 DEF Cleanup, CleanupFails, At, InitSteps
  <2>2. row' \in [Nonces -> Rows]
    BY <1>4 DEF Cleanup, CleanupFails, DeleteExpired, TypeOK, Rows
  <2> QED BY <1>1, <1>2, <1>3, <1>4, <2>1, <2>2 DEF Cleanup, CleanupFails, TypeOK
<1>5. CASE Store(h)
  <2>1. req[h].step \in InitSteps /\ req[h].nonce \in Nonces
    BY <1>5 DEF Store, At, InitSteps, TypeOK
  <2>2. row' \in [Nonces -> Rows] /\ sent' \subseteq Nonces
    BY <1>5, <2>1 DEF Store, TypeOK, Rows
  <2>3. Go(h, "failed") \/ Go(h, "done")
    BY <1>5 DEF Store
  <2> QED BY <1>1, <1>2, <1>3, <1>5, <2>1, <2>2, <2>3, StepNames DEF Store, TypeOK
<1>6. CASE FindNonce(h) \/ VerifySignature(h) \/ LookupUser(h)
  <2>1. /\ req[h].step \in LoginSteps
        /\ \E s \in {"verify", "mark", "touch", "create", "refused"} : Go(h, s)
    BY <1>6 DEF FindNonce, VerifySignature, LookupUser, At, LoginSteps
  <2> QED BY <1>1, <1>2, <1>3, <1>6, <2>1 DEF FindNonce, VerifySignature, LookupUser, TypeOK
<1>7. CASE MarkNonce(h)
  <2>1. req[h].step \in LoginSteps /\ (Go(h, "lookup") \/ Go(h, "failed"))
    BY <1>7 DEF MarkNonce, At, LoginSteps
  <2>2. row' \in [Nonces -> Rows]
    BY <1>7 DEF MarkNonce, MarkRow, TypeOK, Rows
  <2> QED BY <1>1, <1>2, <1>3, <1>7, <2>1, <2>2 DEF MarkNonce, TypeOK
<1>8. CASE CreateUser(h) \/ TouchUser(h)
  <2>1. /\ req[h].step \in LoginSteps /\ req[h].wallet \in Wallets /\ req[h].nonce \in Nonces
        /\ Go(h, "done") \/ Go(h, "failed")
    BY <1>8 DEF CreateUser, TouchUser, IssueToken, At, LoginSteps, TypeOK
  <2>2. issued' \in [Wallets \X Nonces -> Nat] /\ users' \subseteq Wallets
    BY <1>8, <2>1 DEF CreateUser, TouchUser, IssueToken, TypeOK
  <2> QED BY <1>1, <1>2, <1>3, <1>8, <2>1, <2>2, StepNames DEF CreateUser, TouchUser, TypeOK
<1>9. CASE ResolveUser(h)
  <2>1. Go(h, "done") \/ Go(h, "unknown")
    BY <1>9 DEF ResolveUser
  <2>2. {"done", "unknown"} \subseteq Ends
    BY DEF Ends
  <2> QED BY <1>1, <1>2, <1>3, <1>9, <2>1, <2>2, StepNames DEF ResolveUser, TypeOK
<1>10. CASE CallFails(h) \/ ReplyLost(h)
  <2>1. /\ AgainOrThrow(h) /\ UNCHANGED <<sent, expired, issued>>
    BY <1>10 DEF CallFails, ReplyLost
  <2>2. row' \in [Nonces -> Rows]
    BY <1>10 DEF CallFails, ReplyLost, MarkRow, TypeOK, Rows
  <2>3. users' \subseteq Wallets
    BY <1>10 DEF CallFails, ReplyLost, At, LoginSteps, TypeOK
  <2>4. "failed" \in Ends
    BY DEF Ends
  <2> QED BY <1>1, <2>1, <2>2, <2>3, <2>4, AgainMoved, StepNames DEF TypeOK
<1>11. CASE Answer(h)
  <2>1. Idle.step \notin InitSteps \cup LoginSteps
    BY DEF Idle, InitSteps, LoginSteps
  <2> QED BY <1>1, <1>11, <2>1, IdleType DEF Answer, TypeOK
<1> QED BY <1>4, <1>5, <1>6, <1>7, <1>8, <1>9, <1>10, <1>11 DEF Step

LEMMA NextTypeOK == TypeOK /\ [Next]_vars => TypeOK'
<1> SUFFICES ASSUME TypeOK, [Next]_vars PROVE TypeOK'
  OBVIOUS
<1>1. CASE \E h \in Handlers : Begin(h) \/ Step(h)
  BY <1>1, BegunTypeOK, StepTypeOK
<1>2. CASE \E n \in Nonces : Expire(n)
  BY <1>2 DEF Expire, userVars, TypeOK
<1>3. CASE Crash
  BY <1>3, IdleType DEF Crash, nonceVars, userVars, TypeOK, Idle, InitSteps, LoginSteps
<1>4. CASE UNCHANGED vars
  BY <1>4 DEF vars, TypeOK
<1> QED BY <1>1, <1>2, <1>3, <1>4 DEF Next

LEMMA InitTypeOK == Init => TypeOK
BY IdleType DEF Init, TypeOK, Rows, Idle, InitSteps, LoginSteps

\* Every state is well typed, and a request that asks for a nonce or signs in
\* with one has a nonce and a wallet.
THEOREM TypeCorrect == Spec => []TypeOK
BY InitTypeOK, NextTypeOK, PTL DEF Spec

-----------------------------------------------------------------------------
(* Nonces.  A nonce is known to a client once its row was stored, and no      *)
(* request that asks for a nonce writes the row of a known one: a row that    *)
(* is marked or deleted stays so.                                             *)

NonceInv ==
    /\ \A n \in sent : row[n] # "none"
    /\ \A h \in Handlers : req[h].step \in InitSteps => req[h].nonce \notin sent
    /\ \A g, h \in Handlers :
         /\ req[g].step \in InitSteps /\ req[h].step \in InitSteps
         /\ req[g].nonce = req[h].nonce
         => g = h
    /\ \A h \in Handlers : req[h].step \in LoginSteps => req[h].nonce \in sent

\* The effects of a step on the rows and on what makes its nonce known.
LEMMA RowStep ==
  ASSUME TypeOK, NonceInv, NEW h \in Handlers, Step(h)
  PROVE  /\ \A n \in sent : (row[n] # "none" => row'[n] # "none") /\ (Spent(n) => Spent(n)')
         /\ \/ sent' = sent
            \/ /\ req[h].step \in InitSteps
               /\ row'[req[h].nonce] # "none"
               /\ sent' = sent \cup {req[h].nonce}
               /\ req'[h].step = "done"
         /\ \/ req'[h].step \notin InitSteps \cup LoginSteps
            \/ /\ req[h].step \in InitSteps <=> req'[h].step \in InitSteps
               /\ req[h].step \in LoginSteps <=> req'[h].step \in LoginSteps
               /\ req'[h].nonce = req[h].nonce
<1> USE DEF nonceVars, userVars
<1>1. ASSUME NEW s \in Steps, Go(h, s),
             s \in InitSteps => req[h].step \in InitSteps,
             s \in LoginSteps => req[h].step \in LoginSteps
      PROVE  /\ req'[h].step = s
             /\ \/ req'[h].step \notin InitSteps \cup LoginSteps
                \/ /\ req[h].step \in InitSteps <=> req'[h].step \in InitSteps
                   /\ req[h].step \in LoginSteps <=> req'[h].step \in LoginSteps
                   /\ req'[h].nonce = req[h].nonce
  BY <1>1, Moved, StepNames DEF InitSteps, LoginSteps
<1>2. {"store", "verify", "mark", "lookup", "create", "touch", "done", "failed", "refused",
       "unknown"} \subseteq Steps
  BY DEF Steps, InitSteps, LoginSteps, Ends
<1>3. CASE Cleanup(h) \/ CleanupFails(h)
  <2>1. /\ Go(h, "store") /\ req[h].step \in InitSteps /\ "store" \in InitSteps
        /\ "store" \notin LoginSteps
    BY <1>3 DEF Cleanup, CleanupFails, At, InitSteps, LoginSteps
  <2>2. \A n \in Nonces : row'[n] = row[n] \/ (HasRow(n) /\ row'[n] = "gone")
    BY <1>3 DEF Cleanup, CleanupFails, DeleteExpired
  <2> QED BY <1>1, <1>2, <1>3, <2>1, <2>2 DEF Cleanup, CleanupFails, Spent, HasRow, TypeOK
<1>4. CASE Store(h)
  <2>1. req[h].step \in InitSteps /\ req[h].nonce \in Nonces /\ req[h].nonce \notin sent
    BY <1>4 DEF Store, At, InitSteps, TypeOK, NonceInv
  <2>2. \A n \in sent : row'[n] = row[n]
    BY <1>4, <2>1 DEF Store, TypeOK
  <2>3. CASE HasRow(req[h].nonce)
    <3>1. Go(h, "failed") /\ "failed" \notin InitSteps \cup LoginSteps /\ sent' = sent
      BY <1>4, <2>3 DEF Store, InitSteps, LoginSteps
    <3> QED BY <1>1, <1>2, <2>2, <3>1 DEF Spent
  <2>4. CASE ~ HasRow(req[h].nonce)
    <3>1. Go(h, "done") /\ "done" \notin InitSteps \cup LoginSteps
      BY <1>4, <2>4 DEF Store, InitSteps, LoginSteps
    <3>2. sent' = sent \cup {req[h].nonce} /\ row'[req[h].nonce] # "none"
      BY <1>4, <2>1, <2>4 DEF Store, TypeOK
    <3> QED BY <1>1, <1>2, <2>1, <2>2, <3>1, <3>2 DEF Spent
  <2> QED BY <2>3, <2>4
<1>5. CASE FindNonce(h) \/ VerifySignature(h) \/ LookupUser(h)
  <2>1. /\ req[h].step \in LoginSteps
        /\ \E s \in {"verify", "mark", "touch", "create", "refused"} : Go(h, s) /\ s \notin InitSteps
    BY <1>5 DEF FindNonce, VerifySignature, LookupUser, At, LoginSteps, InitSteps
  <2> QED BY <1>1, <1>2, <1>5, <2>1 DEF FindNonce, VerifySignature, LookupUser, Spent
<1>6. CASE MarkNonce(h)
  <2>1. /\ req[h].step \in LoginSteps
        /\ \E s \in {"lookup", "failed"} : Go(h, s) /\ s \notin InitSteps
    BY <1>6 DEF MarkNonce, At, LoginSteps, InitSteps
  <2>2. \A n \in Nonces : row'[n] = row[n] \/ row'[n] = "used"
    BY <1>6 DEF MarkNonce, MarkRow, TypeOK
  <2> QED BY <1>1, <1>2, <1>6, <2>1, <2>2 DEF MarkNonce, Spent, TypeOK
<1>7. CASE CreateUser(h) \/ TouchUser(h) \/ ResolveUser(h)
  <2>1. \E s \in {"done", "failed", "unknown"} : Go(h, s) /\ s \notin InitSteps \cup LoginSteps
    BY <1>7 DEF CreateUser, TouchUser, ResolveUser, IssueToken, LoginSteps, InitSteps
  <2> QED BY <1>1, <1>2, <1>7, <2>1 DEF CreateUser, TouchUser, ResolveUser, Spent
<1>8. CASE CallFails(h) \/ ReplyLost(h)
  <2>1. AgainOrThrow(h) /\ UNCHANGED sent /\ "failed" \notin InitSteps \cup LoginSteps
    BY <1>8 DEF CallFails, ReplyLost, InitSteps, LoginSteps
  <2>2. \A n \in sent : row'[n] = row[n] \/ row'[n] = "used"
    <3>1. At(h, "store") => req[h].nonce \notin sent
      BY DEF At, NonceInv, InitSteps
    <3> QED BY <1>8, <3>1 DEF CallFails, ReplyLost, MarkRow, TypeOK
  <2> QED BY <2>1, <2>2, AgainMoved DEF Spent
<1>9. CASE Answer(h)
  <2>1. Idle.step \notin InitSteps \cup LoginSteps
    BY DEF Idle, InitSteps, LoginSteps
  <2> QED BY <1>9, <2>1 DEF Answer, Spent, TypeOK
<1> QED BY <1>3, <1>4, <1>5, <1>6, <1>7, <1>8, <1>9 DEF Step

LEMMA NonceStep == TypeOK /\ NonceInv /\ [Next]_vars => NonceInv'
<1> SUFFICES ASSUME TypeOK, NonceInv, [Next]_vars PROVE NonceInv'
  OBVIOUS
<1>1. ASSUME NEW h \in Handlers, Begin(h)
      PROVE  NonceInv'
  <2>1. /\ \A g \in Handlers \ {h} : req'[g] = req[g]
        /\ UNCHANGED <<row, sent>>
        /\ \/ /\ row[req'[h].nonce] = "none"
              /\ \A g \in Handlers : req[g].nonce # req'[h].nonce
              /\ req'[h].step = "cleanup"
           \/ req'[h].step = "find" /\ req'[h].nonce \in sent
           \/ req'[h].step = "resolve"
    BY <1>1, Begun
  <2>2. "cleanup" \notin LoginSteps /\ "find" \notin InitSteps /\ "resolve" \notin InitSteps \cup LoginSteps
    BY DEF InitSteps, LoginSteps
  <2> QED BY <2>1, <2>2 DEF NonceInv
<1>2. ASSUME NEW h \in Handlers, Step(h)
      PROVE  NonceInv'
  <2>1. \A g \in Handlers \ {h} : req'[g] = req[g]
    BY <1>2, StepTypeOK
  <2>2. "done" \notin InitSteps \cup LoginSteps
    BY DEF InitSteps, LoginSteps
  <2> QED BY <1>2, <2>1, <2>2, RowStep DEF NonceInv
<1>3. CASE \E n \in Nonces : Expire(n)
  BY <1>3 DEF Expire, NonceInv
<1>4. CASE Crash
  BY <1>4 DEF Crash, nonceVars, NonceInv, Idle, InitSteps, LoginSteps
<1>5. CASE UNCHANGED vars
  BY <1>5 DEF vars, NonceInv
<1> QED BY <1>1, <1>2, <1>3, <1>4, <1>5 DEF Next

-----------------------------------------------------------------------------
(* Logins *)

\* What holds of a request at each step.
LoginOK(h) ==
    /\ req[h].spent => req[h].step \in {"find", "refused", "failed"}
    /\ req[h].spent /\ req[h].step = "find" => Spent(req[h].nonce)
    /\ req[h].step \in LoginSteps \ {"find"} => Owner[req[h].nonce] = req[h].wallet
    /\ req[h].step \in {"lookup", "create", "touch"} => Spent(req[h].nonce)
    /\ req[h].step \in {"touch", "resolve"} => req[h].wallet \in users
    /\ req[h].step # "unknown"

IssuedOK(w, n) ==
    issued[<<w, n>>] > 0 => n \in sent /\ Owner[n] = w /\ Spent(n) /\ w \in users

LoginInv ==
    /\ \A h \in Handlers : LoginOK(h)
    /\ \A w \in Wallets, n \in Nonces : IssuedOK(w, n)

LEMMA InitLogin == Init => NonceInv /\ LoginInv
<1> SUFFICES ASSUME Init PROVE NonceInv /\ LoginInv
  OBVIOUS
<1>1. \A h \in Handlers : req[h].step = "idle" /\ req[h].spent = FALSE
  BY DEF Init, Idle
<1>2. "idle" \notin InitSteps \cup LoginSteps
  BY DEF InitSteps, LoginSteps
<1>3. NonceInv
  BY <1>1, <1>2 DEF Init, NonceInv
<1>4. \A w \in Wallets, n \in Nonces : issued[<<w, n>>] = 0
  BY DEF Init
<1> QED BY <1>1, <1>2, <1>3, <1>4 DEF LoginInv, LoginOK, IssuedOK

\* The request that moves keeps what holds of its step.
LEMMA OwnLogin ==
  ASSUME TypeOK, NonceInv, LoginInv, NEW h \in Handlers, Step(h)
  PROVE  LoginOK(h)'
<1> USE DEF nonceVars, userVars
<1>0. LoginOK(h)
  BY DEF LoginInv
<1>1. ASSUME NEW s \in Steps, Go(h, s),
             s \in InitSteps \cup LoginSteps => req[h].step \in InitSteps \cup LoginSteps
      PROVE  /\ req'[h].step = s /\ req'[h].spent = req[h].spent
             /\ s \notin Ends => req'[h].nonce = req[h].nonce /\ req'[h].wallet = req[h].wallet
  BY <1>1, Moved
<1>2. {"store", "verify", "mark", "lookup", "create", "touch", "done", "failed", "refused",
       "unknown"} \subseteq Steps
  BY DEF Steps, InitSteps, LoginSteps, Ends
<1>3. req'[h].step \in {"find", "lookup", "create", "touch"} =>
        req[h].step \in LoginSteps /\ req[h].nonce \in sent /\ req'[h].nonce = req[h].nonce
  BY RowStep DEF LoginSteps, NonceInv
<1>4. ASSUME NEW n \in sent, Spent(n) PROVE Spent(n)'
  BY <1>4, RowStep
<1>5. CASE Cleanup(h) \/ CleanupFails(h)
  <2>1. Go(h, "store") /\ req[h].step = "cleanup" /\ "store" \in InitSteps /\ "cleanup" \in InitSteps
    BY <1>5 DEF Cleanup, CleanupFails, At, InitSteps
  <2>2. "store" \notin LoginSteps
    BY DEF LoginSteps
  <2> QED BY <1>0, <1>1, <1>2, <2>1, <2>2 DEF LoginOK
<1>6. CASE Store(h)
  <2>1. (Go(h, "failed") \/ Go(h, "done")) /\ req[h].step = "store"
    BY <1>6 DEF Store, At
  <2>2. {"failed", "done"} \cap (InitSteps \cup LoginSteps) = {}
    BY DEF InitSteps, LoginSteps
  <2> QED BY <1>0, <1>1, <1>2, <2>1, <2>2 DEF LoginOK
<1>7. CASE FindNonce(h)
  <2>1. req[h].step = "find" /\ "find" \in LoginSteps /\ {"verify", "refused"} \cap Ends = {"refused"}
    BY <1>7 DEF FindNonce, At, LoginSteps, Ends
  <2>2. CASE row[req[h].nonce] = "stored" /\ Owner[req[h].nonce] = req[h].wallet /\ Go(h, "verify")
    <3>1. ~ Spent(req[h].nonce) /\ "verify" \in LoginSteps
      BY <2>2 DEF Spent, LoginSteps
    <3> QED BY <1>0, <1>1, <1>2, <2>1, <2>2, <3>1 DEF LoginOK
  <2>3. CASE Go(h, "refused")
    <3>1. "refused" \notin LoginSteps \cup InitSteps
      BY DEF LoginSteps, InitSteps
    <3> QED BY <1>0, <1>1, <1>2, <2>1, <2>3, <3>1 DEF LoginOK
  <2> QED BY <1>7, <2>2, <2>3 DEF FindNonce
<1>8. CASE VerifySignature(h)
  <2>1. /\ req[h].step = "verify" /\ {"verify", "mark"} \subseteq LoginSteps \ {"find"}
        /\ "mark" \notin Ends /\ "refused" \notin LoginSteps \cup InitSteps
        /\ Go(h, "mark") \/ Go(h, "refused")
    BY <1>8 DEF VerifySignature, At, LoginSteps, InitSteps, Ends
  <2> QED BY <1>0, <1>1, <1>2, <2>1 DEF LoginOK
<1>9. CASE MarkNonce(h)
  <2>1. /\ req[h].step = "mark" /\ {"lookup", "mark"} \subseteq LoginSteps \ {"find"}
        /\ "lookup" \notin Ends /\ "failed" \notin LoginSteps \cup InitSteps
    BY <1>9 DEF MarkNonce, At, LoginSteps, InitSteps, Ends
  <2>2. CASE HasRow(req[h].nonce) /\ Go(h, "lookup")
    <3>1. row'[req[h].nonce] = "used"
      BY <1>9, <2>1, <2>2 DEF MarkNonce, MarkRow, TypeOK, LoginSteps
    <3> QED BY <1>0, <1>1, <1>2, <2>1, <2>2, <3>1 DEF LoginOK, Spent
  <2>3. CASE Go(h, "failed")
    BY <1>0, <1>1, <1>2, <2>1, <2>3 DEF LoginOK
  <2> QED BY <1>9, <2>2, <2>3 DEF MarkNonce
<1>10. CASE LookupUser(h)
  <2>1. /\ req[h].step = "lookup" /\ {"lookup", "create", "touch"} \subseteq LoginSteps \ {"find"}
        /\ {"create", "touch"} \cap Ends = {} /\ UNCHANGED <<row, users>>
        /\ Go(h, "create") \/ (req[h].wallet \in users /\ Go(h, "touch"))
    BY <1>10 DEF LookupUser, At, LoginSteps, InitSteps, Ends
  <2> QED BY <1>0, <1>1, <1>2, <2>1 DEF LoginOK, Spent
<1>11. CASE CreateUser(h) \/ TouchUser(h)
  <2>1. /\ req[h].step \in {"create", "touch"} /\ (Go(h, "failed") \/ Go(h, "done"))
        /\ {"failed", "done"} \cap (InitSteps \cup LoginSteps) = {}
    BY <1>11 DEF CreateUser, TouchUser, IssueToken, At, LoginSteps, InitSteps
  <2> QED BY <1>0, <1>1, <1>2, <2>1 DEF LoginOK
<1>12. CASE ResolveUser(h)
  <2>1. req[h].step = "resolve" /\ "done" \notin LoginSteps \cup InitSteps
    BY <1>12 DEF ResolveUser, At, LoginSteps, InitSteps
  <2>2. req[h].wallet \in users
    BY <1>0, <2>1 DEF LoginOK
  <2>3. Go(h, "done")
    BY <1>12, <2>2 DEF ResolveUser
  <2> QED BY <1>0, <1>1, <1>2, <2>1, <2>3 DEF LoginOK
<1>13. CASE CallFails(h) \/ ReplyLost(h)
  <2>1. AgainOrThrow(h) /\ users \subseteq users' /\ "failed" \notin LoginSteps
    BY <1>13 DEF CallFails, ReplyLost, LoginSteps
  <2> QED BY <1>0, <1>3, <1>4, <2>1, AgainMoved DEF LoginOK
<1>14. CASE Answer(h)
  BY <1>14 DEF Answer, LoginOK, Idle, TypeOK, LoginSteps
<1> QED BY <1>5, <1>6, <1>7, <1>8, <1>9, <1>10, <1>11, <1>12, <1>13, <1>14 DEF Step

\* Only a login that has spent its nonce issues a token, for a wallet in users.
LEMMA IssuedStep ==
  ASSUME TypeOK, NonceInv, LoginInv, NEW h \in Handlers, Step(h)
  PROVE  /\ users \subseteq users'
         /\ \/ issued' = issued
            \/ /\ req[h].step \in {"create", "touch"}
               /\ req'[h].step = "done"
               /\ issued' = [issued EXCEPT ![<<req[h].wallet, req[h].nonce>>] = @ + 1]
               /\ req[h].wallet \in users'
<1> USE DEF nonceVars, userVars
<1>1. CASE CreateUser(h) \/ TouchUser(h)
  <2>1. "done" \in Steps /\ "done" \notin InitSteps \cup LoginSteps
    BY DEF Steps, Ends, InitSteps, LoginSteps
  <2>2. Go(h, "done") => req'[h].step = "done"
    BY <2>1, Moved
  <2>3. req[h].step \in {"create", "touch"} /\ (At(h, "touch") => req[h].wallet \in users)
    BY <1>1 DEF CreateUser, TouchUser, At, LoginInv, LoginOK
  <2> QED BY <1>1, <2>2, <2>3 DEF CreateUser, TouchUser, IssueToken, At
<1>2. CASE ~ (CreateUser(h) \/ TouchUser(h))
  BY <1>2 DEF Step, Cleanup, CleanupFails, Store, FindNonce, VerifySignature, MarkNonce,
     LookupUser, ResolveUser, CallFails, ReplyLost, Answer
<1> QED BY <1>1, <1>2

LEMMA LoginStep == TypeOK /\ NonceInv /\ LoginInv /\ [Next]_vars => LoginInv'
<1> SUFFICES ASSUME TypeOK, NonceInv, LoginInv, [Next]_vars PROVE LoginInv'
  OBVIOUS
<1>1. ASSUME UNCHANGED <<row, users, issued>>, sent' = sent,
             \A g \in Handlers : LoginOK(g)'
      PROVE  LoginInv'
  BY <1>1 DEF LoginInv, IssuedOK, Spent
<1>2. ASSUME NEW h \in Handlers, Begin(h)
      PROVE  LoginInv'
  <2>1. /\ \A g \in Handlers \ {h} : req'[g] = req[g]
        /\ UNCHANGED <<row, sent, users, issued>>
        /\ \/ req'[h].step = "cleanup" /\ ~ req'[h].spent
           \/ req'[h].step = "find" /\ req'[h].spent = Spent(req'[h].nonce)
           \/ /\ req'[h].step = "resolve" /\ ~ req'[h].spent
              /\ \E w \in Wallets, n \in Nonces : issued[<<w, n>>] > 0 /\ req'[h].wallet = w
    BY <1>2, Begun
  <2>2. {"cleanup", "resolve"} \cap LoginSteps = {}
    BY DEF LoginSteps
  <2>3. req'[h].step = "resolve" => req'[h].wallet \in users
    BY <2>1 DEF LoginInv, IssuedOK
  <2>5. LoginOK(h)'
    BY <2>1, <2>2, <2>3 DEF LoginOK, Spent
  <2>6. \A g \in Handlers \ {h} : LoginOK(g)'
    BY <2>1 DEF LoginOK, LoginInv, Spent
  <2> QED BY <1>1, <2>1, <2>5, <2>6
<1>3. ASSUME NEW h \in Handlers, Step(h)
      PROVE  LoginInv'
  <2>1. ASSUME NEW g \in Handlers \ {h} PROVE LoginOK(g)'
    <3>1. req'[g] = req[g] /\ LoginOK(g) /\ users \subseteq users'
      BY <1>3, <2>1, StepTypeOK, IssuedStep DEF LoginInv
    <3>2. req[g].step \in {"find", "lookup", "create", "touch"} => req[g].nonce \in sent
      BY DEF NonceInv, LoginSteps
    <3> QED BY <1>3, <3>1, <3>2, RowStep DEF LoginOK
  <2>2. ASSUME NEW w \in Wallets, NEW n \in Nonces PROVE IssuedOK(w, n)'
    <3>1. /\ sent \subseteq sent' /\ users \subseteq users'
          /\ n \in sent /\ Spent(n) => Spent(n)'
      BY <1>3, RowStep, IssuedStep
    <3>2. CASE issued'[<<w, n>>] = issued[<<w, n>>]
      BY <3>1, <3>2 DEF LoginInv, IssuedOK
    <3>3. CASE issued'[<<w, n>>] # issued[<<w, n>>]
      <4>1. /\ req[h].step \in {"create", "touch"} /\ req[h].wallet \in users'
            /\ <<w, n>> = <<req[h].wallet, req[h].nonce>>
        BY <1>3, <3>3, IssuedStep DEF TypeOK
      <4>2. w = req[h].wallet /\ n = req[h].nonce
        BY <4>1
      <4>3. n \in sent /\ Owner[n] = w /\ Spent(n)
        BY <4>1, <4>2 DEF LoginInv, LoginOK, NonceInv, LoginSteps
      <4> QED BY <3>1, <4>1, <4>2, <4>3 DEF IssuedOK
    <3> QED BY <3>2, <3>3
  <2> QED BY <1>3, <2>1, <2>2, OwnLogin DEF LoginInv
<1>4. CASE \E n \in Nonces : Expire(n)
  BY <1>1, <1>4 DEF Expire, userVars, LoginInv, LoginOK, Spent
<1>5. CASE Crash
  BY <1>1, <1>5 DEF Crash, nonceVars, userVars, LoginOK, Idle, LoginSteps
<1>6. CASE UNCHANGED vars
  BY <1>1, <1>6 DEF vars, LoginInv, LoginOK, Spent
<1> QED BY <1>2, <1>3, <1>4, <1>5, <1>6 DEF Next

LEMMA LoginInvariant == Spec => [](TypeOK /\ NonceInv /\ LoginInv)
BY InitTypeOK, InitLogin, NextTypeOK, NonceStep, LoginStep, PTL DEF Spec

\* A nonce marked before a login came in is refused by it, whatever fails,
\* restarts or runs beside it.
THEOREM SpentNoncesAreRefused == Spec => []SpentNonceRefused
<1>1. LoginInv => SpentNonceRefused
  BY DEF LoginInv, LoginOK, SpentNonceRefused
<1> QED BY <1>1, LoginInvariant, PTL

\* Every token was bought with a nonce of its wallet that nobody can use again.
THEOREM TokensSpendNonces == Spec => []TokenSpendsNonce
<1>1. LoginInv => TokenSpendsNonce
  BY DEF LoginInv, IssuedOK, TokenSpendsNonce
<1> QED BY <1>1, LoginInvariant, PTL

\* A token that has not expired always finds its user.
THEOREM TokensHaveUsers == Spec => []TokenHasUser
<1>1. LoginInv => TokenHasUser
  BY DEF LoginInv, LoginOK, TokenHasUser, At
<1> QED BY <1>1, LoginInvariant, PTL

-----------------------------------------------------------------------------
(* How many tokens a nonce buys: those issued and the logins still on their   *)
(* way to one are never more than the requests that can be in flight, for     *)
(* none is admitted any more once the nonce is spent.                         *)

Budget(n) == issued[<<Owner[n], n>>] + Cardinality(Admitted(n)) <= Cardinality(Handlers)

BudgetInv == \A n \in Nonces : Budget(n)

LEMMA AdmittedCount ==
  ASSUME NEW A, A \subseteq Handlers
  PROVE  /\ Cardinality(A) \in Nat /\ Cardinality(Handlers) \in Nat
         /\ Cardinality(A) <= Cardinality(Handlers)
         /\ \A B \in SUBSET A : Cardinality(B) \in Nat /\ Cardinality(B) <= Cardinality(A)
         /\ \A h \in A : Cardinality(A \ {h}) = Cardinality(A) - 1
<1>1. IsFiniteSet(Handlers)
  BY WalletAuthAssumption
<1>2. IsFiniteSet(A) /\ Cardinality(A) <= Cardinality(Handlers)
  BY <1>1, FS_Subset
<1>3. \A B \in SUBSET A : IsFiniteSet(B) /\ Cardinality(B) <= Cardinality(A)
  BY <1>2, FS_Subset
<1>4. \A h \in A : Cardinality(A \ {h}) = Cardinality(A) - 1
  BY <1>2, FS_RemoveElement
<1> QED BY <1>1, <1>2, <1>3, <1>4, FS_CardinalityType

\* A login is admitted only while its nonce is unspent.
LEMMA AdmittedUnspent ==
  ASSUME TypeOK, NonceInv, NEW h \in Handlers, Step(h),
         req'[h].step \in LoginSteps \ {"find"}, req[h].step \notin LoginSteps \ {"find"}
  PROVE  ~ Spent(req[h].nonce) /\ issued' = issued /\ req'[h].nonce = req[h].nonce
<1>1. req[h].step = "find" /\ req'[h].nonce = req[h].nonce
  BY RowStep DEF LoginSteps
<1>2. CASE FindNonce(h)
  <2>1. "refused" \in Steps /\ "refused" \notin LoginSteps \cup InitSteps
    BY DEF Steps, Ends, LoginSteps, InitSteps
  <2>2. ~ Go(h, "refused")
    BY <2>1, Moved
  <2> QED BY <1>1, <1>2, <2>2 DEF FindNonce, Spent, userVars
<1>3. CASE CallFails(h) \/ ReplyLost(h)
  <2>1. "failed" \notin LoginSteps
    BY DEF LoginSteps
  <2> QED BY <1>1, <1>3, <2>1, AgainMoved DEF CallFails, ReplyLost
<1> QED BY <1>1, <1>2, <1>3 DEF Step, Cleanup, CleanupFails, Store, VerifySignature, MarkNonce,
        LookupUser, CreateUser, TouchUser, ResolveUser, Answer, Ends, At

LEMMA BudgetStep ==
  ASSUME TypeOK, NonceInv, LoginInv, BudgetInv, NEW h \in Handlers, Step(h), NEW n \in Nonces
  PROVE  Budget(n)'
<1> DEFINE A == Admitted(n)
           B == Admitted(n)'
           p == <<Owner[n], n>>
<1>1. A \subseteq Handlers /\ B \subseteq Handlers
  BY DEF Admitted
<1>2. \A g \in Handlers \ {h} : req'[g] = req[g]
  BY StepTypeOK
<1>3. \A g \in Handlers \ {h} : g \in A <=> g \in B
  BY <1>2 DEF Admitted
<1>4. issued[p] \in Nat /\ p \in Wallets \X Nonces
  BY WalletAuthAssumption DEF TypeOK
<1>5. issued[p] + Cardinality(A) <= Cardinality(Handlers)
  BY DEF BudgetInv, Budget
<1>6. CASE h \in B /\ h \notin A
  <2>1. ~ Spent(n) /\ issued' = issued
    BY <1>6, AdmittedUnspent, RowStep DEF Admitted
  <2>2. issued[p] = 0
    BY <1>4, <2>1, WalletAuthAssumption DEF LoginInv, IssuedOK
  <2> QED BY <1>1, <2>1, <2>2, AdmittedCount DEF Budget
<1>7. CASE h \in A /\ h \notin B
  <2>1. B = A \ {h}
    BY <1>1, <1>3, <1>7
  <2>2. Cardinality(B) = Cardinality(A) - 1
    BY <1>1, <1>7, <2>1, AdmittedCount
  <2>3. issued'[p] \in {issued[p], issued[p] + 1}
    <3>1. issued \in [Wallets \X Nonces -> Nat]
      BY DEF TypeOK
    <3>2. PICK q : issued' = issued \/ issued' = [issued EXCEPT ![q] = @ + 1]
      BY IssuedStep
    <3> QED BY <1>4, <3>1, <3>2
  <2> QED BY <1>1, <1>4, <1>5, <2>2, <2>3, AdmittedCount DEF Budget
<1>8. CASE h \in A <=> h \in B
  <2>1. A = B
    BY <1>1, <1>3, <1>8
  <2>2. issued'[p] = issued[p]
    <3>1. CASE req'[h].step # "done"
      BY <3>1, IssuedStep
    <3>2. CASE req'[h].step = "done"
      <4>1. h \notin B
        BY <3>2 DEF Admitted, LoginSteps
      <4>2. req[h].step \in {"create", "touch"} => req[h].nonce # n
        BY <1>8, <4>1 DEF Admitted, LoginSteps
      <4>3. issued \in [Wallets \X Nonces -> Nat]
        BY DEF TypeOK
      <4> QED BY <1>4, <4>2, <4>3, IssuedStep
    <3> QED BY <3>1, <3>2
  <2> QED BY <1>5, <2>1, <2>2 DEF Budget
<1> QED BY <1>6, <1>7, <1>8

LEMMA BudgetKept == TypeOK /\ NonceInv /\ LoginInv /\ BudgetInv /\ [Next]_vars => BudgetInv'
<1> SUFFICES ASSUME TypeOK, NonceInv, LoginInv, BudgetInv, [Next]_vars, NEW n \in Nonces
             PROVE  Budget(n)'
  BY DEF BudgetInv
<1>1. issued[<<Owner[n], n>>] \in Nat
  BY WalletAuthAssumption DEF TypeOK
<1>2. ASSUME issued' = issued, Admitted(n)' \subseteq Admitted(n)
      PROVE  Budget(n)'
  <2>1. Admitted(n) \subseteq Handlers
    BY DEF Admitted
  <2>2. Cardinality(Admitted(n)') <= Cardinality(Admitted(n)) /\ Cardinality(Admitted(n)') \in Nat
        /\ Cardinality(Admitted(n)) \in Nat /\ Cardinality(Handlers) \in Nat
    BY <1>2, <2>1, AdmittedCount
  <2> QED BY <1>1, <1>2, <2>2 DEF BudgetInv, Budget
<1>3. ASSUME NEW h \in Handlers, Begin(h)
      PROVE  Budget(n)'
  <2>1. /\ \A g \in Handlers \ {h} : req'[g] = req[g]
        /\ req'[h].step \in {"cleanup", "find", "resolve"}
        /\ issued' = issued
    BY <1>3, Begun
  <2> QED BY <1>2, <2>1 DEF Admitted, LoginSteps
<1>4. CASE \E n1 \in Nonces : Expire(n1)
  BY <1>2, <1>4 DEF Expire, userVars, Admitted
<1>5. CASE Crash
  BY <1>2, <1>5 DEF Crash, userVars, Admitted, Idle, LoginSteps
<1>6. CASE UNCHANGED vars
  BY <1>2, <1>6 DEF vars, Admitted
<1> QED BY <1>3, <1>4, <1>5, <1>6, BudgetStep DEF Next

LEMMA InitBudget == Init => BudgetInv
<1> SUFFICES ASSUME Init, NEW n \in Nonces PROVE Budget(n)
  BY DEF BudgetInv
<1>1. issued[<<Owner[n], n>>] = 0
  BY WalletAuthAssumption DEF Init
<1>2. Admitted(n) \subseteq Handlers
  BY DEF Admitted
<1> QED BY <1>1, <1>2, AdmittedCount DEF Budget

\* However many logins with one nonce are sent, it buys no more tokens than
\* requests can be in flight together.
THEOREM TokensPerNonceBounded == Spec => []TokensPerNonce
<1>1. TypeOK /\ BudgetInv => TokensPerNonce
  <2> SUFFICES ASSUME TypeOK, BudgetInv, NEW n \in Nonces
               PROVE  issued[<<Owner[n], n>>] <= Cardinality(Handlers)
    BY DEF TokensPerNonce
  <2>1. Admitted(n) \subseteq Handlers
    BY DEF Admitted
  <2>2. issued[<<Owner[n], n>>] \in Nat
    BY WalletAuthAssumption DEF TypeOK
  <2> QED BY <2>1, <2>2, AdmittedCount DEF BudgetInv, Budget
<1> QED BY <1>1, LoginInvariant, InitBudget, BudgetKept, PTL DEF Spec

\* A server that served one request at a time would hand out one token for a
\* signed message, whatever fails and restarts: the tokens of nonce_shared are of
\* logins that overlap.
THEOREM OneLoginAtATime ==
  ASSUME \A g, h \in Handlers : g = h
  PROVE  Spec => []OneTokenPerNonce
<1>1. Cardinality(Handlers) \in Nat /\ Cardinality(Handlers) <= 1
  <2>1. CASE Handlers = {}
    BY <2>1, FS_EmptySet
  <2>2. CASE Handlers # {}
    <3>1. PICK h \in Handlers : Handlers = {h}
      BY <2>2
    <3>2. Cardinality({h}) = 1
      BY FS_Singleton
    <3> QED BY <3>1, <3>2
  <2> QED BY <2>1, <2>2
<1>2. TypeOK /\ TokensPerNonce => OneTokenPerNonce
  <2> SUFFICES ASSUME TypeOK, TokensPerNonce, NEW n \in Nonces
               PROVE  issued[<<Owner[n], n>>] <= 1
    BY DEF OneTokenPerNonce
  <2>1. issued[<<Owner[n], n>>] \in Nat /\ issued[<<Owner[n], n>>] <= Cardinality(Handlers)
    BY WalletAuthAssumption DEF TypeOK, TokensPerNonce
  <2> QED BY <1>1, <2>1
<1> QED BY <1>2, TypeCorrect, TokensPerNonceBounded, PTL
=============================================================================
