---------------------------- MODULE X402Payment ----------------------------
(***************************************************************************)
(* The TypeScript x402 payment gate: the Express middleware x402Middleware *)
(* (src/src/middleware/x402.ts) and PaymentService with its in-memory     *)
(* nonceStore (src/unnamed/part_001, payment.ts), configured by CONFIG    *)
(* (src/unnamed/part_001, config.ts).                                     *)
(*                                                                         *)
(* Each element of Requests is a slot of the Node.js server that handles  *)
(* one HTTP request at a time.  The middleware runs synchronously up to   *)
(* `await PaymentService.verifyPayment(...)`; verifyPayment itself has no *)
(* await, so its check of the nonce, the signature recovery and the      *)
(* deletion of the nonce happen in the same event-loop turn (action       *)
(* Arrive).  Awaiting the settled promise it returns queues the rest of   *)
(* the handler as a microtask (Resume), and Node drains the microtask    *)
(* queue before it runs the next I/O callback or timer: no other request *)
(* arrives and the clock does not move while a handler is suspended.      *)
(*                                                                         *)
(* Data is abstracted: a nonce is a model value, a signature is the       *)
(* record of who signed which message, and ECDSA recovery over a message  *)
(* that differs from the signed one yields Garbage, an address whose key  *)
(* nobody holds.                                                          *)
(***************************************************************************)
EXTENDS Naturals, FiniteSets

CONSTANTS
  Requests,          \* concurrent request slots of the server
  Nonces,            \* the uuidv4() values createPaymentContext may draw
  Wallets,           \* client signing keys
  Amounts,           \* amounts a client may put in the message it signs
  Price,             \* CONFIG.PAYMENT.DEFAULT_PRICE
  MaxTime,           \* last value of Date.now()/1000 the model reaches
  PrivateKeyIsHex32, \* SERVER_WALLET_PRIVATE_KEY is a 32-byte hex string
  RecipientEnvSet,   \* RECIPIENT_ADDRESS is set in the environment
  SignatureExpiry,   \* SIGNATURE_EXPIRY_SECONDS of the spec
  ClockSkew,         \* SIGNATURE_CLOCK_SKEW_SECONDS of the spec
  NoHeader,          \* a header the request does not carry
  NotANumber,        \* a timestamp header parseInt cannot read
  Malformed,         \* a signature header ethers cannot parse
  Garbage            \* the address recovered from a mismatched message

ASSUME ConstantsAssumption ==
  /\ Price \in Amounts
  /\ MaxTime \in Nat
  /\ SignatureExpiry \in Nat
  /\ ClockSkew \in Nat
  /\ PrivateKeyIsHex32 \in BOOLEAN
  /\ RecipientEnvSet \in BOOLEAN
  /\ Garbage \notin Wallets

VARIABLES
  now,         \* Math.floor(Date.now() / 1000)
  nonceStore,  \* the module-level Set nonceStore of payment.ts
  issued,      \* history: nonces createPaymentContext has handed out
  issuedAt,    \* history: the timestamp of the context each nonce came in
  granted,     \* history: verifyPayment results isValid=true, per nonce
  pc,          \* per slot: "idle" or "awaiting" (suspended at the await)
  pending,     \* per slot: the verdict the await will deliver
  resp,        \* per slot: the status of the last response it produced
  served,      \* history: requests passed on by next()
  paid         \* history: nonces a client paid for with a correct signature

vars == <<now, nonceStore, issued, issuedAt, granted, pc, pending, resp, served, paid>>

(* Mutant: the fallback to RECIPIENT_ADDRESS is missing, so a server     *)
(* configured only with the env address has no recipient.               *)
RecipientNoEnvFallback ==
  IF PrivateKeyIsHex32 THEN "serverWallet" ELSE ""

(***************************************************************************)
(* CONFIG.PAYMENT.RECIPIENT_ADDRESS: the wallet address of a valid        *)
(* private key, else RECIPIENT_ADDRESS, else the empty string.            *)
(***************************************************************************)
Recipient ==
  IF PrivateKeyIsHex32 THEN "serverWallet"
  ELSE IF RecipientEnvSet THEN "recipientEnv"
  ELSE ""

Stamps == 0..MaxTime

(* The typed message Payment{recipient, token, amount, nonce, timestamp}; *)
(* recipient and token are fixed by the configuration and left out.      *)
Msgs == [nonce : Nonces, ts : Stamps, amount : Amounts]

Sigs == [by : Wallets, msg : Msgs]

SigHeaders   == Sigs \cup {Malformed, NoHeader}
NonceHeaders == Nonces \cup {NoHeader}
TsHeaders    == Stamps \cup {NoHeader, NotANumber}

(* The sentinel for an unparsable signature is no signature record. *)
ASSUME SentinelsAssumption == Malformed \notin Sigs

Verdicts ==
  [valid : BOOLEAN, signer : Wallets \cup {Garbage, NoHeader},
   nonce : NonceHeaders, ts : Stamps, authorized : BOOLEAN]

NoVerdict ==
  [valid |-> FALSE, signer |-> NoHeader, nonce |-> NoHeader, ts |-> 0,
   authorized |-> FALSE]

Statuses == {0, 400, 402, 403, 200}

TypeOK ==
  /\ now \in Stamps
  /\ nonceStore \subseteq Nonces
  /\ issued \subseteq Nonces
  /\ issuedAt \in [Nonces -> Stamps]
  /\ granted \in [Nonces -> Nat]
  /\ pc \in [Requests -> {"idle", "awaiting"}]
  /\ pending \in [Requests -> Verdicts]
  /\ resp \in [Requests -> Statuses]
  /\ served \subseteq [nonce : Nonces, signer : Wallets \cup {Garbage},
                       ts : Stamps, at : Stamps, authorized : BOOLEAN]
  /\ paid \subseteq Nonces

Init ==
  /\ now = 0
  /\ nonceStore = {}
  /\ issued = {}
  /\ issuedAt = [n \in Nonces |-> 0]
  /\ granted = [n \in Nonces |-> 0]
  /\ pc = [r \in Requests |-> "idle"]
  /\ pending = [r \in Requests |-> NoVerdict]
  /\ resp = [r \in Requests |-> 0]
  /\ served = {}
  /\ paid = {}

(***************************************************************************)
(* The context verifyPayment is called with: recipient, token, amount and *)
(* chain id from CONFIG, nonce and timestamp from the request headers.    *)
(***************************************************************************)
Context(nonce, ts) == [nonce |-> nonce, ts |-> ts, amount |-> Price]

(* A client that pays as the protocol asks: it presents a nonce the      *)
(* server still holds and a well-formed signature over exactly the typed *)
(* Payment message (DOMAIN, TYPES) the server reconstructs from it.      *)
PaysCorrectly(ctx, sig) == ctx.nonce \in nonceStore /\ sig \in Sigs /\ sig.msg = ctx

(* ethers.verifyTypedData: recovers the signer of the message it is given. *)
Recover(ctx, sig) == IF sig.msg = ctx THEN sig.by ELSE Garbage

(* ethers.verifyTypedData throws on an unparsable signature and on an     *)
(* empty recipient, which is not an address.                              *)
VerifyThrows(sig) == sig = Malformed \/ Recipient = ""

(***************************************************************************)
(* parseInt(timestampHeader, 10) followed by the checks of x402.ts: a     *)
(* missing header, NaN and values <= 0 are answered with 400.             *)
(***************************************************************************)
TimestampAccepted(tsH) == tsH \notin {NoHeader, NotANumber} /\ tsH > 0

(***************************************************************************)
(* PaymentService.createPaymentContext: draw a fresh uuid, add it to      *)
(* nonceStore and return it with the current time.                        *)
(***************************************************************************)
CreatePaymentContext ==
  \E n \in Nonces \ issued :
    /\ nonceStore' = nonceStore \cup {n}
    /\ issued' = issued \cup {n}
    /\ issuedAt' = [issuedAt EXCEPT ![n] = now]

(* Mutant: the nonceStore.delete that prevents replay is left out.        *)
VerifyPaymentNoDelete(r, ctx, sig) ==
  /\ ctx.nonce \in nonceStore
  /\ ~VerifyThrows(sig)
  /\ granted' = [granted EXCEPT ![ctx.nonce] = @ + 1]
  /\ pending' = [pending EXCEPT ![r] =
                   [valid |-> TRUE, signer |-> Recover(ctx, sig),
                    nonce |-> ctx.nonce, ts |-> ctx.ts,
                    authorized |-> sig.msg = ctx]]
  /\ UNCHANGED nonceStore

(* Mutant: the nonce is deleted before the signature is checked.         *)
VerifyPaymentDeleteFirst(r, ctx, sig) ==
  /\ ctx.nonce \in nonceStore
  /\ nonceStore' = nonceStore \ {ctx.nonce}
  /\ granted' = [granted EXCEPT ![ctx.nonce] = IF VerifyThrows(sig) THEN @ ELSE @ + 1]
  /\ pending' = [pending EXCEPT ![r] =
                   IF VerifyThrows(sig)
                   THEN [NoVerdict EXCEPT !.nonce = ctx.nonce, !.ts = ctx.ts]
                   ELSE [valid |-> TRUE, signer |-> Recover(ctx, sig),
                         nonce |-> ctx.nonce, ts |-> ctx.ts,
                         authorized |-> sig.msg = ctx]]

(***************************************************************************)
(* PaymentService.verifyPayment, run to completion: an unknown nonce is   *)
(* rejected; a signature ethers rejects leaves the nonce in the store;    *)
(* otherwise the nonce is deleted and the recovered address returned.    *)
(***************************************************************************)
VerifyPayment(r, ctx, sig) ==
  \/ /\ ctx.nonce \notin nonceStore
     /\ pending' = [pending EXCEPT ![r] = [NoVerdict EXCEPT !.nonce = ctx.nonce, !.ts = ctx.ts]]
     /\ UNCHANGED <<nonceStore, granted>>
  \/ /\ ctx.nonce \in nonceStore
     /\ VerifyThrows(sig)
     /\ pending' = [pending EXCEPT ![r] = [NoVerdict EXCEPT !.nonce = ctx.nonce, !.ts = ctx.ts]]
     /\ UNCHANGED <<nonceStore, granted>>
  \/ /\ ctx.nonce \in nonceStore
     /\ ~VerifyThrows(sig)
     /\ nonceStore' = nonceStore \ {ctx.nonce}
     /\ granted' = [granted EXCEPT ![ctx.nonce] = @ + 1]
     /\ pending' = [pending EXCEPT ![r] =
                      [valid |-> TRUE, signer |-> Recover(ctx, sig),
                       nonce |-> ctx.nonce, ts |-> ctx.ts,
                       authorized |-> sig.msg = ctx]]

(* No handler is suspended at the await: the microtask queue is drained, *)
(* so the event loop may take the next request or timer.                 *)
Drained == \A q \in Requests : pc[q] = "idle"

(***************************************************************************)
(* x402Middleware up to the await: a request without signature or nonce  *)
(* gets 402 and a fresh context; a bad timestamp gets 400; otherwise      *)
(* verifyPayment runs and the handler suspends.                           *)
(***************************************************************************)
Arrive(r) ==
  /\ Drained
  /\ pc[r] = "idle"
  /\ \E sigH \in SigHeaders, nonceH \in NonceHeaders, tsH \in TsHeaders :
       \/ /\ sigH = NoHeader \/ nonceH = NoHeader
          /\ CreatePaymentContext
          /\ resp' = [resp EXCEPT ![r] = 402]
          /\ UNCHANGED <<granted, pc, pending, paid>>
       \/ /\ sigH # NoHeader /\ nonceH # NoHeader
          /\ ~TimestampAccepted(tsH)
          /\ resp' = [resp EXCEPT ![r] = 400]
          /\ UNCHANGED <<nonceStore, issued, issuedAt, granted, pc, pending, paid>>
       \/ /\ sigH # NoHeader /\ nonceH # NoHeader
          /\ TimestampAccepted(tsH)
          /\ paid' = IF PaysCorrectly(Context(nonceH, tsH), sigH)
                     THEN paid \cup {nonceH} ELSE paid
          /\ VerifyPayment(r, Context(nonceH, tsH), sigH)
          /\ pc' = [pc EXCEPT ![r] = "awaiting"]
          /\ UNCHANGED <<issued, issuedAt, resp>>
  /\ UNCHANGED <<now, served>>

(* Mutant: the verdict's isValid is not looked at, so a rejected payment *)
(* reaches next() with no signer.                                         *)
ResumeNoValidCheck(r) ==
  /\ pc[r] = "awaiting"
  /\ LET v == pending[r] IN
       /\ resp' = [resp EXCEPT ![r] = 200]
       /\ served' = served \cup
            {[nonce |-> v.nonce, signer |-> v.signer, ts |-> v.ts,
              at |-> now, authorized |-> v.authorized]}
  /\ pc' = [pc EXCEPT ![r] = "idle"]
  /\ pending' = [pending EXCEPT ![r] = NoVerdict]
  /\ UNCHANGED <<now, nonceStore, issued, issuedAt, granted, paid>>

(***************************************************************************)
(* x402Middleware after the await: 403 on an invalid verdict, otherwise  *)
(* attach the signer as req.userWallet and call next().                   *)
(***************************************************************************)
Resume(r) ==
  /\ pc[r] = "awaiting"
  /\ LET v == pending[r] IN
       IF v.valid
       THEN /\ resp' = [resp EXCEPT ![r] = 200]
            /\ served' = served \cup
                 {[nonce |-> v.nonce, signer |-> v.signer, ts |-> v.ts,
                   at |-> now, authorized |-> v.authorized]}
       ELSE /\ resp' = [resp EXCEPT ![r] = 403]
            /\ UNCHANGED served
  /\ pc' = [pc EXCEPT ![r] = "idle"]
  /\ pending' = [pending EXCEPT ![r] = NoVerdict]
  /\ UNCHANGED <<now, nonceStore, issued, issuedAt, granted, paid>>

(* The clock advances one second. *)
Tick ==
  /\ Drained
  /\ now < MaxTime
  /\ now' = now + 1
  /\ UNCHANGED <<nonceStore, issued, issuedAt, granted, pc, pending, resp, served, paid>>

Next ==
  \/ \E r \in Requests : Arrive(r) \/ Resume(r)
  \/ Tick

Spec == Init /\ [][Next]_vars

-----------------------------------------------------------------------------
(***************************************************************************)
(* Properties.                                                            *)
(***************************************************************************)

(* Replay protection (verifyPayment's has/delete on nonceStore): of all   *)
(* the requests that present the same nonce, whatever else arrives in   *)
(* between, verifyPayment accepts at most one, and only a nonce that     *)
(* createPaymentContext issued.                                           *)
NonceSingleUse ==
  \A n \in Nonces : granted[n] <= 1 /\ (granted[n] > 0 => n \in issued)

(* A nonce leaves nonceStore only through a successful verification: a   *)
(* request whose signature ethers rejects does not burn the nonce of the *)
(* client it was issued to, who can still pay with it.                   *)
NonceSpentOnlyByGrant ==
  \A n \in Nonces : n \in issued \ nonceStore => granted[n] > 0

(* Spec 4.6 and the configuration's promise to supply a recipient: a     *)
(* client that pays correctly for a nonce the server issued is admitted: *)
(* its request has been passed to next(), or is suspended at the await   *)
(* with a valid verdict.  It fails if verifyTypedData throws on a        *)
(* correct signature, e.g. when CONFIG left the recipient empty.        *)
PaidRequestAdmitted ==
  \A n \in paid :
    \/ \E s \in served : s.nonce = n
    \/ \E r \in Requests : pc[r] = "awaiting" /\ pending[r].valid /\ pending[r].nonce = n

(* Spec 4.6 (VERIFYING -> ADMITTED only on a valid verdict): every step  *)
(* that passes a request on to next() passes one whose nonce             *)
(* verifyPayment accepted, whatever the verdict's other fields say: a    *)
(* rejected, thrown or unknown-nonce verdict never reaches next().       *)
AdmitOnlyGranted ==
  [][\A s \in served' \ served : s.nonce \in Nonces /\ granted[s.nonce] > 0]_vars

(* Spec 4.1 and 8: a request is admitted only if its signed timestamp is *)
(* within [now - expiry, now + clock skew].                              *)
AdmissionFresh ==
  \A s \in served : s.ts + SignatureExpiry >= s.at /\ s.ts <= s.at + ClockSkew

(* README, cryptographic verification: a request is granted only if the  *)
(* recovered address signed the payment the server priced.               *)
PayerSignedPrice == \A s \in served : s.authorized

(* Spec 4.2: a nonce older than expiry + clock skew is invalid even when *)
(* it was never consumed: verifyPayment admits a nonce only within that  *)
(* time of createPaymentContext issuing it (the request is served in the *)
(* same event-loop turn as it is verified, so `at` is the verify time).  *)
NonceExpires ==
  \A s \in served : s.at <= issuedAt[s.nonce] + SignatureExpiry + ClockSkew

=============================================================================
