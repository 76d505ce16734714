------------------------------ MODULE WalletAuth ------------------------------
(***************************************************************************)
(* Signing in with a wallet: wallet-auth.service.ts over the auth_nonces   *)
(* and users tables.                                                       *)
(*                                                                         *)
(* A client asks for a nonce, has its wallet sign a message with it and    *)
(* posts the message back.  Looking the nonce up, verifying the signature, *)
(* marking the nonce and finding or creating the user are separate calls,  *)
(* and other requests run between them.  A request's step is the call it   *)
(* awaits.                                                                 *)
(***************************************************************************)
EXTENDS Integers, FiniteSets

CONSTANTS
    Handlers,       \* requests that may be in flight at the same time
    Wallets,
    Nonces,         \* the random strings generateNonce will return
    Owner,          \* the wallet each of them will be generated for
    None,           \* no wallet, no nonce
    MaxRetries,     \* attempts of executeWithRetry, 3 in the code
    Faults,         \* steps whose database calls may fail or lose their reply
    Crashes         \* may the server process stop and start again?

\* Where requests wait, by kind: asking for a nonce, signing in, using a token.
InitSteps == {"cleanup", "store"}
LoginSteps == {"find", "verify", "mark", "lookup", "create", "touch"}
Ends == {"done", "refused", "failed", "unknown"}
Steps == {"idle", "resolve"} \cup InitSteps \cup LoginSteps \cup Ends

\* Calls that change rows, and calls that executeWithRetry repeats.
Writes == {"cleanup", "store", "mark", "create", "touch"}
Retried == {"store", "find", "mark", "create", "touch"}

ASSUME WalletAuthAssumption ==
    /\ IsFiniteSet(Handlers)
    /\ Owner \in [Nonces -> Wallets]
    /\ None \notin Nonces \cup Wallets
    /\ MaxRetries \in Nat \ {0}
    /\ Faults \subseteq Writes \cup Retried \cup {"lookup", "resolve"}
    /\ Crashes \in BOOLEAN

VARIABLES
    row,        \* the row of each nonce in auth_nonces
    sent,       \* nonces returned to their client
    expired,    \* nonces whose expiresAt has passed
    users,      \* wallets with a row in users
    issued,     \* how many tokens each wallet was given for each nonce
    req         \* the request each handler serves, and how far it is

vars == <<row, sent, expired, users, issued, req>>

\* "gone" rows were deleted; a "used" row has its usedAt set.
Rows == {"none", "stored", "used", "gone"}

\* spent: had the nonce been marked before the request came in?
Idle == [step |-> "idle", wallet |-> None, nonce |-> None,
         signed |-> FALSE, spent |-> FALSE, tries |-> 0]

Requests ==
    [step : Steps, wallet : Wallets \cup {None}, nonce : Nonces \cup {None},
     signed : BOOLEAN, spent : BOOLEAN, tries : 0..(MaxRetries - 1)]

Init ==
    /\ row = [n \in Nonces |-> "none"]
    /\ sent = {}
    /\ expired = {}
    /\ users \in SUBSET Wallets
    /\ issued = [p \in Wallets \X Nonces |-> 0]
    /\ req = [h \in Handlers |-> Idle]

At(h, step) == req[h].step = step

\* At an end nothing of the request is kept but what the properties look at.
Go(h, step) ==
    req' = [req EXCEPT ![h] = IF step \in Ends
                              THEN [Idle EXCEPT !.step = step, !.spent = req[h].spent]
                              ELSE [req[h] EXCEPT !.step = step, !.tries = 0]]

HasRow(n) == row[n] \in {"stored", "used"}
Spent(n) == row[n] \in {"used", "gone"}

nonceVars == <<row, sent, expired>>
userVars == <<users, issued>>

-----------------------------------------------------------------------------
(* initializeAuth *)

\* A random nonce is drawn, with its expiry and the message to sign.
BeginInit(h, n) ==
    /\ At(h, "idle")
    /\ row[n] = "none"
    /\ \A g \in Handlers : req[g].nonce # n
    /\ n \notin expired
    /\ req' = [req EXCEPT ![h] = [Idle EXCEPT !.step = "cleanup", !.wallet = Owner[n], !.nonce = n]]
    /\ UNCHANGED <<nonceVars, userVars>>

DeleteExpired(w) ==
    row' = [n \in Nonces |->
              IF Owner[n] = w /\ HasRow(n) /\ n \in expired THEN "gone" ELSE row[n]]

\* cleanupExpiredNonces: whatever becomes of it, the request goes on.
Cleanup(h) ==
    /\ At(h, "cleanup")
    /\ DeleteExpired(req[h].wallet)
    /\ Go(h, "store")
    /\ UNCHANGED <<sent, expired, userVars>>

CleanupFails(h) ==
    /\ At(h, "cleanup") /\ "cleanup" \in Faults
    /\ UNCHANGED row \/ DeleteExpired(req[h].wallet)
    /\ Go(h, "store")
    /\ UNCHANGED <<sent, expired, userVars>>

\* createAuthNonce; the nonce column is unique.
Store(h) ==
    /\ At(h, "store") /\ ~ HasRow(req[h].nonce)
    /\ row' = [row EXCEPT ![req[h].nonce] = "stored"]
    /\ sent' = sent \cup {req[h].nonce}
    /\ Go(h, "done")
    /\ UNCHANGED <<expired, userVars>>

-----------------------------------------------------------------------------
(* verifyAndAuthenticate *)

\* The message parses and its time is recent; it is signed by the wallet of the
\* request or not.
BeginLogin(h, w, n, signed) ==
    /\ At(h, "idle")
    /\ n \in sent
    /\ req' = [req EXCEPT ![h] =
                 [Idle EXCEPT !.step = "find", !.wallet = w, !.nonce = n, !.signed = signed,
                              !.spent = Spent(n)]]
    /\ UNCHANGED <<nonceVars, userVars>>

\* Mutant: nonces are looked up without regard to usedAt.
FindAnyNonce(h) ==
    /\ At(h, "find")
    /\ LET n == req[h].nonce IN
       IF HasRow(n) /\ n \notin expired /\ Owner[n] = req[h].wallet
       THEN Go(h, "verify") ELSE Go(h, "refused")
    /\ UNCHANGED <<nonceVars, userVars>>

\* Mutant: the nonce of any wallet will do.
FindForeignNonce(h) ==
    /\ At(h, "find")
    /\ LET n == req[h].nonce IN
       IF row[n] = "stored" /\ n \notin expired
       THEN Go(h, "verify") ELSE Go(h, "refused")
    /\ UNCHANGED <<nonceVars, userVars>>

\* findValidNonce, and the nonce must be of the wallet that signs in.
FindNonce(h) ==
    /\ At(h, "find")
    /\ LET n == req[h].nonce IN
       IF row[n] = "stored" /\ n \notin expired /\ Owner[n] = req[h].wallet
       THEN Go(h, "verify") ELSE Go(h, "refused")
    /\ UNCHANGED <<nonceVars, userVars>>

VerifySignature(h) ==
    /\ At(h, "verify")
    /\ Go(h, IF req[h].signed THEN "mark" ELSE "refused")
    /\ UNCHANGED <<nonceVars, userVars>>

MarkRow(n) == row' = [row EXCEPT ![n] = IF HasRow(n) THEN "used" ELSE @]

\* markNonceAsUsed updates by id, whether or not usedAt is set already; the row
\* must not have been deleted since it was found.
MarkNonce(h) ==
    /\ At(h, "mark") /\ HasRow(req[h].nonce)
    /\ MarkRow(req[h].nonce)
    /\ Go(h, "lookup")
    /\ UNCHANGED <<sent, expired, userVars>>

\* findUserByWallet
LookupUser(h) ==
    /\ At(h, "lookup")
    /\ Go(h, IF req[h].wallet \in users THEN "touch" ELSE "create")
    /\ UNCHANGED <<nonceVars, userVars>>

IssueToken(h) ==
    /\ issued' = [issued EXCEPT ![<<req[h].wallet, req[h].nonce>>] = @ + 1]
    /\ Go(h, "done")

\* Mutant: the token is issued whatever becomes of the row.
CreateUserUnwritten(h) ==
    /\ At(h, "create")
    /\ UNCHANGED users
    /\ IssueToken(h)
    /\ UNCHANGED nonceVars

\* createUser; the wallet is unique, so of two first logins only one creates it.
CreateUser(h) ==
    /\ At(h, "create") /\ req[h].wallet \notin users
    /\ users' = users \cup {req[h].wallet}
    /\ IssueToken(h)
    /\ UNCHANGED nonceVars

\* updateUserLastLogin
TouchUser(h) ==
    /\ At(h, "touch")
    /\ IssueToken(h)
    /\ UNCHANGED <<nonceVars, users>>

-----------------------------------------------------------------------------
(* validateToken *)

\* A request carries a token that has not expired.
BeginResolve(h, w, n) ==
    /\ At(h, "idle")
    /\ issued[<<w, n>>] > 0
    /\ req' = [req EXCEPT ![h] = [Idle EXCEPT !.step = "resolve", !.wallet = w]]
    /\ UNCHANGED <<nonceVars, userVars>>

ResolveUser(h) ==
    /\ At(h, "resolve")
    /\ Go(h, IF req[h].wallet \in users THEN "done" ELSE "unknown")
    /\ UNCHANGED <<nonceVars, userVars>>

-----------------------------------------------------------------------------
(* executeWithRetry, and what the database does with a call that fails *)

\* Mutant: the attempts are counted from the start again.
AgainForEver(h) ==
    /\ req[h].step \in Retried
    /\ req' = [req EXCEPT ![h].tries = IF @ + 1 < MaxRetries THEN @ + 1 ELSE 0]

\* Mutant: one attempt too many.
AgainOnceMore(h) ==
    IF req[h].step \in Retried /\ req[h].tries < MaxRetries
    THEN req' = [req EXCEPT ![h].tries = @ + 1]
    ELSE Go(h, "failed")

\* Any error is retried up to the last attempt, the database's refusals included.
AgainOrThrow(h) ==
    IF req[h].step \in Retried /\ req[h].tries + 1 < MaxRetries
    THEN req' = [req EXCEPT ![h].tries = @ + 1]
    ELSE Go(h, "failed")

\* The unique nonce and wallet columns, and the update of a row that is gone.
DatabaseRefuses(h) ==
    \/ At(h, "store") /\ HasRow(req[h].nonce)
    \/ At(h, "mark") /\ ~ HasRow(req[h].nonce)
    \/ At(h, "create") /\ req[h].wallet \in users

CallFails(h) ==
    /\ DatabaseRefuses(h) \/ req[h].step \in Faults \ {"cleanup"}
    /\ AgainOrThrow(h)
    /\ UNCHANGED <<nonceVars, userVars>>

\* The write was done, but its reply is lost.
ReplyLost(h) ==
    /\ req[h].step \in (Faults \cap Writes) \ {"cleanup"}
    /\ CASE At(h, "store")  -> row' = [row EXCEPT ![req[h].nonce] =
                                         IF HasRow(req[h].nonce) THEN @ ELSE "stored"]
         [] At(h, "mark")   -> MarkRow(req[h].nonce)
         [] OTHER           -> UNCHANGED row
    /\ users' = IF At(h, "create") THEN users \cup {req[h].wallet} ELSE users
    /\ AgainOrThrow(h)
    /\ UNCHANGED <<sent, expired, issued>>

Answer(h) ==
    /\ req[h].step \in Ends
    /\ req' = [req EXCEPT ![h] = Idle]
    /\ UNCHANGED <<nonceVars, userVars>>

-----------------------------------------------------------------------------

\* expiresAt is five minutes after the nonce was drawn.
Expire(n) ==
    /\ n \notin expired
    /\ HasRow(n) \/ \E h \in Handlers : req[h].nonce = n
    /\ expired' = expired \cup {n}
    /\ UNCHANGED <<row, sent, userVars, req>>

\* The requests in flight end with the process; the rows stay.
Crash ==
    /\ Crashes
    /\ \E h \in Handlers : ~ At(h, "idle")
    /\ req' = [h \in Handlers |-> Idle]
    /\ UNCHANGED <<nonceVars, userVars>>

Begin(h) ==
    \/ \E n \in Nonces : BeginInit(h, n)
    \/ \E w \in Wallets, n \in Nonces, signed \in BOOLEAN : BeginLogin(h, w, n, signed)
    \/ \E w \in Wallets, n \in Nonces : BeginResolve(h, w, n)

Step(h) ==
    \/ Cleanup(h) \/ CleanupFails(h) \/ Store(h)
    \/ FindNonce(h) \/ VerifySignature(h) \/ MarkNonce(h)
    \/ LookupUser(h) \/ CreateUser(h) \/ TouchUser(h)
    \/ ResolveUser(h)
    \/ CallFails(h) \/ ReplyLost(h)
    \/ Answer(h)

Next ==
    \/ \E h \in Handlers : Begin(h) \/ Step(h)
    \/ \E n \in Nonces : Expire(n)
    \/ Crash

Spec == Init /\ [][Next]_vars

\* Every call is answered or fails.  Requests need not come, nonces need not expire.
FairSpec == Spec /\ \A h \in Handlers : WF_vars(Step(h))

-----------------------------------------------------------------------------
(* Properties *)

\* Types of all state.
TypeOK ==
    /\ row \in [Nonces -> Rows]
    /\ sent \subseteq Nonces
    /\ expired \subseteq Nonces
    /\ users \subseteq Wallets
    /\ issued \in [Wallets \X Nonces -> Nat]
    /\ req \in [Handlers -> Requests]
    /\ \A h \in Handlers :
         req[h].step \in InitSteps \cup LoginSteps =>
             req[h].nonce \in Nonces /\ req[h].wallet \in Wallets

\* A nonce marked before a login came in is refused by it: no retry, clean-up,
\* restart or other request brings it back (wallet-auth.service.ts:89-114).
SpentNonceRefused ==
    \A h \in Handlers : req[h].spent => req[h].step \in {"find", "refused", "failed"}

\* Logins that have found the nonce and may still get a token for it.
Admitted(n) == {h \in Handlers : req[h].nonce = n /\ req[h].step \in LoginSteps \ {"find"}}

\* A token is issued only for a nonce that is its wallet's and can be found no
\* more (wallet-auth.service.ts:90-114).
TokenSpendsNonce ==
    \A w \in Wallets, n \in Nonces :
        issued[<<w, n>>] > 0 => Owner[n] = w /\ Spent(n)

\* A signed message buys one token, however often it is posted (README.md:846
\* "Nonce-based replay protection"; docs/plan.md:891 "Signature replay attacks are
\* prevented"): violated, two posts that find the nonce before either marks it
\* are both answered with a token (wallet-auth.service.ts:90-114).
OneTokenPerNonce == \A n \in Nonces : issued[<<Owner[n], n>>] <= 1

\* What is left of it: the same nonce signs in no more requests than those in
\* flight together when it was first marked (wallet-auth.service.ts:90-114).
TokensPerNonce ==
    \A n \in Nonces : issued[<<Owner[n], n>>] <= Cardinality(Handlers)

\* A token's wallet always has a user, so validateToken never answers "User not
\* found" (wallet-auth.service.ts:116-124, 171-174).
TokenHasUser == \A h \in Handlers : ~ At(h, "unknown")

\* Every request is answered.
EveryRequestAnswered == \A h \in Handlers : ~ At(h, "idle") ~> At(h, "idle")
===============================================================================
