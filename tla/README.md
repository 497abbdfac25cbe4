# Formal models of the MicroAI Paygate gateways

This directory holds TLA+ models of the payment gateway (HTTP 402 / x402 protocol) and its rate limiter, together with TLC configurations and TLAPS proofs. Each model is translated from the code under `src/`. `PROJECT.json` maps every modelled definition to the source lines it stands for.

## The system and its parts

A client calls a paid endpoint. If the call carries no payment, the gateway answers **402** with a *payment context*: recipient, token, amount, a fresh nonce and a timestamp. The client signs the context (EIP-712) and retries with the `X-402-Signature`, `X-402-Nonce` and `X-402-Timestamp` headers. The gateway checks the signature and the nonce, then serves the request. Requests are throttled per key by a token bucket.

| Part | Source | State | Operations | Module |
|---|---|---|---|---|
| x402 middleware (TypeScript gateway) | `src/src/middleware/x402.ts` 14-79 | per request: suspended at the `await` or not, the verdict it will receive | 402 branch, timestamp checks (400), `verifyPayment`, `await`, 403 or `next()` | `X402Payment` (`Arrive`, `Resume`) |
| PaymentService | `src/unnamed/part_001` 42-129 (`payment.ts`) | the module-level `nonceStore` Set | `createPaymentContext`, `verifyPayment` | `X402Payment` (`CreatePaymentContext`, `VerifyPayment`) |
| Payment configuration | `src/unnamed/part_001` 1-41 (`config.ts`) | recipient address | derivation of `RECIPIENT_ADDRESS` from the private key or env | `X402Payment` (`Recipient`, a constant) |
| Token-bucket rate limiter | `src/gateway/ratelimit.go` | `sync.Map` of key to `*bucket` (tokens, lastCheck, mutex); cleanup goroutine | `getBucket`, `AllowN`, `GetRemaining`, `GetResetTime`, `cleanup` | `TokenBucket` |
| Go gateway handler (older `main.go` kept in a test file) | `src/gateway/gzip_test.go` 268-341 | none of its own; the Rust verifier is stateless | `handleSummarize`, `createPaymentContext` | `GoGateway` |

How the parts interact:
- The middleware calls `PaymentService.createPaymentContext` on the 402 path and `PaymentService.verifyPayment` on the paid path. Both share `nonceStore`.
- In the Go gateway, `handleSummarize` posts the context and the signature to the Rust verifier over HTTP. Gin serves every request on its own goroutine, and all of them share one `TokenBucket`.

## What the models capture

**`X402Payment`** models the middleware and PaymentService.
- Variables: `now`, `nonceStore`, and per request slot `pc`, `pending` and `resp`.
- History variables: `issued`, `issuedAt`, `granted`, `served` and `paid`. They record what happened; the properties are stated over them. `paid` holds the nonces a client paid for correctly (`PaysCorrectly`): it presented a nonce still in the store and a well-formed signature over exactly the context the server reconstructs.
- Actions:
  - `Arrive(r)` is the middleware up to the `await`. It takes one of three branches:
    - no signature or no nonce: 402, calling `CreatePaymentContext`;
    - a bad timestamp: 400;
    - otherwise `VerifyPayment`, after which the request suspends.
  - `verifyPayment` has no `await` inside, so on Node's event loop its has-check and its delete run as one step. It returns a settled promise. The middleware's `await` on it (x402.ts:65) queues the rest of the handler as a microtask, and Node drains the microtask queue before the next I/O callback or timer. So `Arrive` and `Tick` are enabled only when no handler is suspended (`Drained`), and `Resume` follows its `Arrive` with no other request and no clock tick in between.
  - `VerifyPayment` has three disjuncts:
    - unknown nonce;
    - `verifyTypedData` throws (malformed signature or empty recipient), and the nonce stays in the store;
    - success: the nonce is deleted and the recovered address is returned.
  - `Resume(r)` answers 403, or attaches the signer and calls `next()`.
  - `Tick` advances the clock.
- Signatures are records `[by, msg]`. `Recover` returns the signer when the signed message equals the context the server reconstructs, and an unrelated address (`Garbage`) otherwise. That is how ECDSA recovery behaves on a different message.

**`TokenBucket`** models `ratelimit.go`.
- Each goroutine of `Procs` first runs `getBucket` (`Request`). A `LoadOrStore` either returns the stored bucket or stores a fresh full bucket stamped `now`. The goroutine then runs one body under the bucket's mutex (`AllowN`, `GetRemaining` or `GetResetTime`). Each body holds the lock throughout and touches only its own bucket, so each is one step.
- The cleanup goroutine takes three steps per key:
  - `CleanupTick`: the ticker fires and `now` is read once for the whole `Range`;
  - `CleanupRead`: `lastCheck` is read under the lock;
  - `CleanupDecide`: after the unlock, the key is deleted if the bucket was idle longer than the TTL.
- A late tick is buffered, as Go's ticker does.
- Time is in whole seconds. Tokens are scaled by 60, so `rpm/60` tokens per second is an exact integer refill.
- History: `since[b][t]` and `ksince[k][t]` count the admissions at or after second `t`, per bucket and per key.

**`GoGateway`** models `handleSummarize` for concurrent handlers.
- `Receive`: 402 with a fresh uuid, or post the payment to the verifier.
- `VerifierReply`: the verifier answers 500 (`http.Post` failed), 403, or valid.
- `Complete`: 400 (`BindJSON` failed), 500 (the AI call failed), or 200.

## Runs

| Run | Cfg | Expect | Shows |
|---|---|---|---|
| `x402_replay` | `MCX402Payment.cfg` | pass, 60k states | `NonceSingleUse`: a nonce buys at most one admission, however requests with the same nonce follow one another. `NonceSpentOnlyByGrant`: a nonce leaves the store only through a successful verification, so a malformed attempt cannot burn it. `PaidRequestAdmitted`: a correctly paid request is admitted, or suspended with a valid verdict. The recipient comes from `RECIPIENT_ADDRESS`, the fallback path of `config.ts`. |
| `x402_admission` | `MCX402Payment_Admission.cfg` | pass, 60k states | `AdmitOnlyGranted` (action property): a step that calls `next()` does so for a nonce `verifyPayment` accepted. A rejected, thrown or unknown-nonce verdict never reaches `next()`. |
| `x402_fresh` | `MCX402Payment_AdmissionFresh.cfg` | violation | A future-dated or expired timestamp is admitted. No code compares the timestamp with the clock. |
| `x402_signer` | `MCX402Payment_PayerSignedPrice.cfg` | violation | A signature over another message is admitted, with a garbage payer. |
| `x402_nonce_expiry` | `MCX402Payment_NonceExpires.cfg` | violation | A nonce issued at time 0 is accepted by `verifyPayment` and served at time 2, past expiry 1 plus skew 0. The store is never purged. |
| `token_bucket_instance` | `MCTokenBucket.cfg` | pass, 1.2M states | `InstanceRateBound`: in every window `[t, now]`, one bucket admits at most `burst + rate * (now - t)`. |
| `token_bucket_key_race` | `MCTokenBucket_KeyRateBound.cfg` | violation | The same bound per *key* fails (trace below). |
| `token_bucket_cleanup` | `MCTokenBucket_Cleanup.cfg` | pass, 102k states | `IdleBucketReclaimed`: a bucket idle longer than the TTL when a sweep is due is eventually deleted or used again, under fairness of the cleanup goroutine only. |
| `go_replay` | `MCGoGateway.cfg` | violation | The Go handler serves one signed nonce twice. |

The `token_bucket_key_race` trace:
1. A goroutine fetches the bucket and stalls.
2. Cleanup reads an old `lastCheck`.
3. The goroutine admits on the old bucket.
4. Cleanup deletes the key.
5. The next caller gets a fresh full bucket.

Two requests are admitted in one second with burst 1.

Each property of a passing run has a mutant in `PROJECT.json`. The mutant is a plausible slip in the code, and TLC finds it violated:

| Mutant | Slip | Violates |
|---|---|---|
| `VerifyPaymentNoDelete` | the delete is missing | `NonceSingleUse` |
| `VerifyPaymentDeleteFirst` | the delete comes before the check | `NonceSpentOnlyByGrant` |
| `ResumeNoValidCheck` | `isValid` is ignored | `TypeOK` |
| `AllowNNoStamp` | `lastCheck` is not updated | `InstanceRateBound` |
| `RefilledUncapped` | `math.Min` is missing | `TypeOK` |
| `RecipientNoEnvFallback` | the fallback to `RECIPIENT_ADDRESS` is missing | `PaidRequestAdmitted` |
| `CleanupDecideReversed` | the TTL comparison is reversed | `IdleBucketReclaimed` |
| `ResumeNoValidCheck` | (again) | `AdmitOnlyGranted` |

**Bounds.**
- Payment runs: two request slots and two nonces. This lets the same nonce be presented twice in a row, with a second nonce still fresh. The clock runs to 2 with an expiry of 1, so both the "too old" and the "future" cases are reached. There is one wallet and two amounts, so a signature can be over the price or over another amount.
- Token bucket: two goroutines, one key, burst 2, 60 rpm (one token per second) and a cleanup TTL of 2. The clock runs to 4, so the ticker fires twice and a bucket can be drained, refilled, and deleted while a goroutine holds it. `BucketIds` has room for every bucket cleanup can cause to be re-created.
- Cleanup liveness: one goroutine, one key, burst 1, TTL 1, clock to 4. The ticker fires repeatedly, the sweep can race a request on the key, and an idle bucket is due for deletion in several states. No symmetry is used, because it is unsound with liveness.
- Symmetry over requests, nonces and goroutines is sound: no definition distinguishes them.

**Fairness.** Only `token_bucket_cleanup` checks liveness. Its `FairSpec` adds weak fairness of the three cleanup steps (`CleanupFairness`), nothing else. `NewTokenBucket` starts `cleanup` as a goroutine that loops on its ticker forever. Each of its steps is either the ticker firing, which the runtime guarantees when the clock has passed the tick, or a lock and unlock that is not held for long. Requests and the clock get no fairness: no client has to call, and the property must hold when none does. Without this fairness the property fails, with a sweep that never runs. For the Go handler no fairness is justified: every step after the 402 branch waits on the verifier or the AI provider, neither with a timeout. So no liveness is claimed there (see hazards).

## What is proved (TLAPS)

Every theorem holds for all values of the constants, under the assumptions `ConstantsAssumption`, `SentinelsAssumption` and `TokenBucketAssumption`. These say the sets are non-empty where the code needs a default, the bounds are natural numbers, and the sentinels are distinct.

- **`X402PaymentProofs`**
  - `TypeCorrect` (`Spec => []TypeOK`). The strengthening `TypeInv` adds that a valid pending verdict names a real nonce and a signer of the right kind.
  - `ReplayProtection` (`Spec => [](NonceSingleUse /\ NonceSpentOnlyByGrant)`). The two properties are not inductive on their own. The inductive invariant `NonceLedger` ties the history to the store: `granted[n]` is 1 exactly for nonces that were issued and have left `nonceStore`, and 0 otherwise.
  - `SpentOnlyByGrant` restates the `NonceSpentOnlyByGrant` half on its own.
  - `PaidAdmission` (`RecipientConfigured => (Spec => []PaidRequestAdmitted)`). It is inductive with two invariants:
    - `AdmittedLedger`: every nonce `verifyPayment` accepted is admitted, that is, served, or held by a suspended request with a valid verdict. A `Resume` turns the latter into the former.
    - `PaidGranted`: every correctly paid nonce was accepted. It needs a recipient: with one, a correct signature makes `verifyTypedData` succeed. `SentinelsAssumption` says the `Malformed` sentinel is no signature.
  - `AdmissionOnlyGranted` (`Spec => AdmitOnlyGranted`, an action property). The inductive invariant `GrantedVerdicts` says a valid pending verdict names a nonce with `granted > 0`. `Arrive` creates such a verdict in the same step as the grant. Grants never decrease, so no later step falsifies it. The proof does not need `Drained`. `Resume` serves only the record of a valid verdict. The action property then follows from `[]AdmitInv` and a step lemma (`AdmitStep`).
- **`TokenBucketProofs`**
  - `TypeCorrect` (`Spec => []TypeOK`). The strengthening adds three facts:
    - `lastCheck` never runs ahead of the clock, so a refill is never negative;
    - a goroutine between `getBucket` and the lock holds an allocated bucket;
    - a stored bucket was allocated.
  - `BucketRateBound` (`Spec => []InstanceRateBound`). The bound mentions `now`, which `Tick` changes, so it is not inductive. The proof uses token conservation (`Conservation`), stated at `lastCheck` rather than `now`: for `t <= lastCheck[b]`, `60 * since[b][t] + tokens[b] <= 60 * burst + rate * (lastCheck[b] - t)`. There has been no admission after `lastCheck`. `AllowN` keeps this because its refill is capped by the uncapped sum and it charges at least 60 per admission. A new bucket keeps it because it has no admissions yet (`FreshBuckets`). The bound at `now` follows because `tokens >= 0` and `lastCheck <= now`. The nonlinear step, rate times elapsed time, is isolated in arithmetic steps that Z3 proves.

TLC checked every strengthened invariant as an invariant of the same runs before it was proved.

**Only model-checked.**
- The per-key bound: it is false.
- The violated spec properties.
- Everything about `GoGateway`.
- `IdleBucketReclaimed`: liveness and `ENABLED` are outside TLAPS.

## Not modelled

- The Rust verifier, cache middleware, receipts and web client: their code is not in the repository.
- Configuration loading: only tests of it exist.
- The return values of `GetRemaining` and `GetResetTime`: they are pure reads. Their float-to-second truncation is listed as a hazard.
- Wording, JSON bodies and logging.

## Plan for later work

1. A model of the paid handler behind `next()`, to state the partial-failure hazard: a nonce consumed and nothing served.
2. A run that isolates the numeric edge of a cleanup TTL shorter than the refill time, separately from the cleanup race that `token_bucket_key_race` shows.
3. `GetResetTime`'s return value, to check its truncation against the time the bucket is really full.
