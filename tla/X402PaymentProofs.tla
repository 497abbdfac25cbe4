------------------------- MODULE X402PaymentProofs -------------------------
(***************************************************************************)
(* Proofs about the TypeScript x402 payment gate (X402Payment), for all   *)
(* values of its constants: type correctness, and the replay protection  *)
(* of verifyPayment's nonceStore.                                         *)
(***************************************************************************)
EXTENDS X402Payment, TLAPS

USE ConstantsAssumption

(***************************************************************************)
(* TypeOK alone is not inductive: Resume copies the nonce and signer of  *)
(* a pending verdict into served, so a valid verdict must carry a real   *)
(* nonce and a recovered address.                                        *)
(***************************************************************************)
ValidVerdictsTyped ==
  \A r \in Requests :
    pending[r].valid => /\ pending[r].nonce \in Nonces
                        /\ pending[r].signer \in Wallets \cup {Garbage}

TypeInv == TypeOK /\ ValidVerdictsTyped

(* The verdict of a slot that has none pending is a failed Verdict. *)
LEMMA NoVerdictType == NoVerdict \in Verdicts /\ ~NoVerdict.valid
BY DEF NoVerdict, Verdicts, NonceHeaders, Stamps

(* A verdict verifyPayment returns on a failure is a Verdict. *)
LEMMA FailedVerdictType ==
  ASSUME NEW n \in NonceHeaders, NEW ts \in Stamps
  PROVE  /\ [NoVerdict EXCEPT !.nonce = n, !.ts = ts] \in Verdicts
         /\ ~[NoVerdict EXCEPT !.nonce = n, !.ts = ts].valid
BY NoVerdictType DEF NoVerdict, Verdicts

(* The headers a request that reaches verifyPayment carries. *)
LEMMA VerifiedHeaders ==
  ASSUME NEW sigH \in SigHeaders, NEW nonceH \in NonceHeaders,
         NEW tsH \in TsHeaders,
         sigH # NoHeader, nonceH # NoHeader, TimestampAccepted(tsH)
  PROVE  /\ Context(nonceH, tsH).nonce \in Nonces
         /\ Context(nonceH, tsH).ts \in Stamps
         /\ ~VerifyThrows(sigH) => sigH \in Sigs
BY DEF SigHeaders, NonceHeaders, TsHeaders, TimestampAccepted, Context,
       VerifyThrows

(* Arrive adds to paid only a nonce the request presented, which is a   *)
(* nonce of the store.                                                    *)
LEMMA ArrivePaidType ==
  ASSUME TypeOK, NEW r \in Requests, Arrive(r)
  PROVE  paid' \subseteq Nonces
BY DEF Arrive, PaysCorrectly, Context, TypeOK

LEMMA InitTypeInv == Init => TypeInv
BY NoVerdictType DEF Init, TypeInv, TypeOK, ValidVerdictsTyped, Stamps, Statuses

LEMMA ArriveTypeInv ==
  ASSUME TypeInv, NEW r \in Requests, Arrive(r)
  PROVE  TypeInv'
<1> USE DEF TypeInv
<1>1. PICK sigH \in SigHeaders, nonceH \in NonceHeaders, tsH \in TsHeaders :
        \/ /\ sigH = NoHeader \/ nonceH = NoHeader
           /\ CreatePaymentContext
           /\ resp' = [resp EXCEPT ![r] = 402]
           /\ UNCHANGED <<granted, pc, pending>>
        \/ /\ sigH # NoHeader /\ nonceH # NoHeader
           /\ ~TimestampAccepted(tsH)
           /\ resp' = [resp EXCEPT ![r] = 400]
           /\ UNCHANGED <<nonceStore, issued, issuedAt, granted, pc, pending>>
        \/ /\ sigH # NoHeader /\ nonceH # NoHeader
           /\ TimestampAccepted(tsH)
           /\ VerifyPayment(r, Context(nonceH, tsH), sigH)
           /\ pc' = [pc EXCEPT ![r] = "awaiting"]
           /\ UNCHANGED <<issued, issuedAt, resp>>
  BY DEF Arrive
<1>2. UNCHANGED <<now, served>> /\ paid' \subseteq Nonces
  BY ArrivePaidType DEF Arrive, TypeInv
<1>3. CASE /\ sigH = NoHeader \/ nonceH = NoHeader
           /\ CreatePaymentContext
           /\ resp' = [resp EXCEPT ![r] = 402]
           /\ UNCHANGED <<granted, pc, pending>>
  BY <1>2, <1>3 DEF CreatePaymentContext, TypeOK, ValidVerdictsTyped, Statuses
<1>4. CASE /\ sigH # NoHeader /\ nonceH # NoHeader
           /\ ~TimestampAccepted(tsH)
           /\ resp' = [resp EXCEPT ![r] = 400]
           /\ UNCHANGED <<nonceStore, issued, issuedAt, granted, pc, pending>>
  BY <1>2, <1>4 DEF TypeOK, ValidVerdictsTyped, Statuses
<1>5. CASE /\ sigH # NoHeader /\ nonceH # NoHeader
           /\ TimestampAccepted(tsH)
           /\ VerifyPayment(r, Context(nonceH, tsH), sigH)
           /\ pc' = [pc EXCEPT ![r] = "awaiting"]
           /\ UNCHANGED <<issued, issuedAt, resp>>
  <2> DEFINE ctx == Context(nonceH, tsH)
  <2>1. /\ ctx.nonce \in Nonces
        /\ ctx.ts \in Stamps
        /\ ~VerifyThrows(sigH) => sigH \in Sigs
    BY <1>5, VerifiedHeaders
  <2>2. ctx.nonce \in NonceHeaders
    BY <2>1 DEF NonceHeaders
  <2>3. pc' \in [Requests -> {"idle", "awaiting"}]
    BY <1>5 DEF TypeOK
  <2>4. CASE /\ ctx.nonce \notin nonceStore
             /\ pending' = [pending EXCEPT ![r] = [NoVerdict EXCEPT !.nonce = ctx.nonce, !.ts = ctx.ts]]
             /\ UNCHANGED <<nonceStore, granted>>
    BY <1>2, <1>5, <2>1, <2>2, <2>3, <2>4, FailedVerdictType
       DEF TypeOK, ValidVerdictsTyped
  <2>5. CASE /\ ctx.nonce \in nonceStore
             /\ VerifyThrows(sigH)
             /\ pending' = [pending EXCEPT ![r] = [NoVerdict EXCEPT !.nonce = ctx.nonce, !.ts = ctx.ts]]
             /\ UNCHANGED <<nonceStore, granted>>
    BY <1>2, <1>5, <2>1, <2>2, <2>3, <2>5, FailedVerdictType
       DEF TypeOK, ValidVerdictsTyped
  <2>6. CASE /\ ctx.nonce \in nonceStore
             /\ ~VerifyThrows(sigH)
             /\ nonceStore' = nonceStore \ {ctx.nonce}
             /\ granted' = [granted EXCEPT ![ctx.nonce] = @ + 1]
             /\ pending' = [pending EXCEPT ![r] =
                              [valid |-> TRUE, signer |-> Recover(ctx, sigH),
                               nonce |-> ctx.nonce, ts |-> ctx.ts,
                               authorized |-> sigH.msg = ctx]]
    <3>1. sigH \in Sigs
      BY <2>1, <2>6
    <3>2. Recover(ctx, sigH) \in Wallets \cup {Garbage}
      BY <3>1 DEF Recover, Sigs
    <3>3. [valid |-> TRUE, signer |-> Recover(ctx, sigH),
           nonce |-> ctx.nonce, ts |-> ctx.ts,
           authorized |-> sigH.msg = ctx] \in Verdicts
      BY <2>1, <2>2, <3>2 DEF Verdicts
    <3>4. QED
      BY <1>2, <1>5, <2>1, <2>3, <2>6, <3>2, <3>3 DEF TypeOK, ValidVerdictsTyped
  <2>7. QED
    BY <1>5, <2>4, <2>5, <2>6 DEF VerifyPayment
<1>6. QED
  BY <1>1, <1>3, <1>4, <1>5

LEMMA ResumeTypeInv ==
  ASSUME TypeInv, NEW r \in Requests, Resume(r)
  PROVE  TypeInv'
<1> USE DEF TypeInv
<1> DEFINE v == pending[r]
<1>1. v \in Verdicts
  BY DEF TypeOK
<1>2. NoVerdict \in Verdicts /\ ~NoVerdict.valid
  BY NoVerdictType
<1>3. /\ pc' = [pc EXCEPT ![r] = "idle"]
      /\ pending' = [pending EXCEPT ![r] = NoVerdict]
      /\ UNCHANGED <<now, nonceStore, issued, issuedAt, granted, paid>>
  BY DEF Resume
<1>4. CASE v.valid
  <2>1. [nonce |-> v.nonce, signer |-> v.signer, ts |-> v.ts,
         at |-> now, authorized |-> v.authorized]
          \in [nonce : Nonces, signer : Wallets \cup {Garbage},
               ts : Stamps, at : Stamps, authorized : BOOLEAN]
    BY <1>1, <1>4 DEF ValidVerdictsTyped, Verdicts, TypeOK
  <2>2. /\ resp' = [resp EXCEPT ![r] = 200]
        /\ served' = served \cup
             {[nonce |-> v.nonce, signer |-> v.signer, ts |-> v.ts,
               at |-> now, authorized |-> v.authorized]}
    BY <1>4 DEF Resume
  <2>3. QED
    BY <1>2, <1>3, <2>1, <2>2 DEF TypeOK, ValidVerdictsTyped, Statuses
<1>5. CASE ~v.valid
  <2>1. resp' = [resp EXCEPT ![r] = 403] /\ UNCHANGED served
    BY <1>5 DEF Resume
  <2>2. QED
    BY <1>2, <1>3, <2>1 DEF TypeOK, ValidVerdictsTyped, Statuses
<1>6. QED
  BY <1>4, <1>5

LEMMA TickTypeInv ==
  ASSUME TypeInv, Tick
  PROVE  TypeInv'
BY DEF Tick, TypeInv, TypeOK, ValidVerdictsTyped, Stamps

LEMMA NextTypeInv == TypeInv /\ [Next]_vars => TypeInv'
<1> SUFFICES ASSUME TypeInv, [Next]_vars PROVE TypeInv'
  OBVIOUS
<1>1. CASE \E r \in Requests : Arrive(r) \/ Resume(r)
  BY <1>1, ArriveTypeInv, ResumeTypeInv
<1>2. CASE Tick
  BY <1>2, TickTypeInv
<1>3. CASE UNCHANGED vars
  BY <1>3 DEF vars, TypeInv, TypeOK, ValidVerdictsTyped
<1>4. QED
  BY <1>1, <1>2, <1>3 DEF Next

(* Every reachable state is well typed. *)
THEOREM TypeCorrect == Spec => []TypeOK
<1>1. Spec => []TypeInv
  BY InitTypeInv, NextTypeInv, PTL DEF Spec
<1>2. QED
  BY <1>1, PTL DEF TypeInv

-----------------------------------------------------------------------------
(***************************************************************************)
(* Replay protection.  The ledger of nonces: a nonce that has been       *)
(* issued and is no longer in nonceStore was granted exactly once, every *)
(* other nonce never, and nonceStore only holds issued nonces.  Both      *)
(* NonceSingleUse and NonceSpentOnlyByGrant follow from it; neither is   *)
(* inductive alone, because a fresh nonce can only be added to nonceStore *)
(* safely if it was never granted.                                        *)
(***************************************************************************)
NonceLedger ==
  /\ nonceStore \subseteq issued
  /\ \A n \in Nonces : granted[n] = IF n \in issued \ nonceStore THEN 1 ELSE 0

ReplayInv == TypeInv /\ NonceLedger

LEMMA InitReplayInv == Init => ReplayInv
BY InitTypeInv DEF Init, ReplayInv, NonceLedger

LEMMA ArriveNonceLedger ==
  ASSUME TypeInv, NonceLedger, NEW r \in Requests, Arrive(r)
  PROVE  NonceLedger'
<1>1. PICK sigH \in SigHeaders, nonceH \in NonceHeaders, tsH \in TsHeaders :
        \/ /\ sigH = NoHeader \/ nonceH = NoHeader
           /\ CreatePaymentContext
           /\ UNCHANGED granted
        \/ /\ sigH # NoHeader /\ nonceH # NoHeader
           /\ ~TimestampAccepted(tsH)
           /\ UNCHANGED <<nonceStore, issued, granted>>
        \/ /\ sigH # NoHeader /\ nonceH # NoHeader
           /\ TimestampAccepted(tsH)
           /\ VerifyPayment(r, Context(nonceH, tsH), sigH)
           /\ UNCHANGED issued
  BY DEF Arrive
<1>2. CASE CreatePaymentContext /\ UNCHANGED granted
  <2>1. PICK m \in Nonces \ issued :
          /\ nonceStore' = nonceStore \cup {m}
          /\ issued' = issued \cup {m}
    BY <1>2 DEF CreatePaymentContext
  <2>2. granted[m] = 0
    BY <2>1 DEF NonceLedger
  <2>3. QED
    BY <1>2, <2>1, <2>2 DEF NonceLedger
<1>3. CASE UNCHANGED <<nonceStore, issued, granted>>
  BY <1>3 DEF NonceLedger
<1>4. CASE /\ sigH # NoHeader /\ nonceH # NoHeader
           /\ TimestampAccepted(tsH)
           /\ VerifyPayment(r, Context(nonceH, tsH), sigH)
           /\ UNCHANGED issued
  <2> DEFINE m == Context(nonceH, tsH).nonce
  <2>1. m \in Nonces
    BY <1>4, VerifiedHeaders
  <2>2. CASE UNCHANGED <<nonceStore, granted>>
    BY <1>4, <2>2 DEF NonceLedger
  <2>3. CASE /\ m \in nonceStore
             /\ nonceStore' = nonceStore \ {m}
             /\ granted' = [granted EXCEPT ![m] = @ + 1]
    <3>1. granted[m] = 0 /\ m \in issued
      BY <2>1, <2>3 DEF NonceLedger
    <3>2. granted' = [granted EXCEPT ![m] = 1]
      BY <2>3, <3>1 DEF TypeInv, TypeOK
    <3>3. granted \in [Nonces -> Nat]
      BY DEF TypeInv, TypeOK
    <3>4. QED
      BY <1>4, <2>1, <2>3, <3>1, <3>2, <3>3 DEF NonceLedger
  <2>4. QED
    BY <1>4, <2>2, <2>3 DEF VerifyPayment
<1>5. QED
  BY <1>1, <1>2, <1>3, <1>4

LEMMA NextReplayInv == ReplayInv /\ [Next]_vars => ReplayInv'
<1> SUFFICES ASSUME ReplayInv, [Next]_vars PROVE ReplayInv'
  OBVIOUS
<1>1. TypeInv'
  BY NextTypeInv DEF ReplayInv
<1> SUFFICES NonceLedger'
  BY <1>1 DEF ReplayInv
<1>2. CASE \E r \in Requests : Arrive(r)
  <2>1. PICK r \in Requests : Arrive(r)
    BY <1>2
  <2>2. QED
    BY <2>1, ArriveNonceLedger DEF ReplayInv
<1>3. CASE \E r \in Requests : Resume(r)
  <2>1. UNCHANGED <<nonceStore, issued, granted>>
    BY <1>3 DEF Resume
  <2>2. QED
    BY <2>1 DEF ReplayInv, NonceLedger
<1>4. CASE Tick \/ UNCHANGED vars
  BY <1>4 DEF Tick, vars, ReplayInv, NonceLedger
<1>5. QED
  BY <1>2, <1>3, <1>4 DEF Next

(* Replay protection for every number of requests, nonces and clients:   *)
(* verifyPayment accepts each issued nonce at most once, never one it did *)
(* not issue, and a nonce only leaves nonceStore by being accepted.      *)
THEOREM ReplayProtection == Spec => [](NonceSingleUse /\ NonceSpentOnlyByGrant)
<1>1. Spec => []ReplayInv
  BY InitReplayInv, NextReplayInv, PTL DEF Spec
<1>2. ReplayInv => NonceSingleUse /\ NonceSpentOnlyByGrant
  BY DEF ReplayInv, NonceLedger, NonceSingleUse, NonceSpentOnlyByGrant
<1>3. QED
  BY <1>1, <1>2, PTL


(* A malformed or wrongly configured verification never burns a nonce:  *)
(* for every number of requests, a nonce leaves nonceStore only when     *)
(* verifyPayment accepts it.                                             *)
THEOREM SpentOnlyByGrant == Spec => []NonceSpentOnlyByGrant
BY ReplayProtection, PTL

-----------------------------------------------------------------------------
(***************************************************************************)
(* Admission of correct payments.  A nonce was admitted when a request   *)
(* carrying it was passed to next(), or is suspended at the await with a *)
(* valid verdict.  Two facts make PaidRequestAdmitted inductive: every   *)
(* nonce verifyPayment accepted is admitted (AdmittedLedger), and every  *)
(* paid nonce was accepted (PaidGranted).  The second needs a recipient:  *)
(* with CONFIG's empty address verifyTypedData throws on every signature. *)
(***************************************************************************)
RecipientConfigured == PrivateKeyIsHex32 \/ RecipientEnvSet

Admitted(n) ==
  \/ \E s \in served : s.nonce = n
  \/ \E q \in Requests : pc[q] = "awaiting" /\ pending[q].valid /\ pending[q].nonce = n

AdmittedLedger == \A n \in Nonces : granted[n] > 0 => Admitted(n)

PaidGranted == \A n \in paid : granted[n] > 0

PaidInv == TypeInv /\ AdmittedLedger /\ PaidGranted

LEMMA InitPaidInv == Init => PaidInv
BY InitTypeInv DEF Init, PaidInv, AdmittedLedger, PaidGranted

LEMMA ArriveAdmittedLedger ==
  ASSUME TypeInv, AdmittedLedger, NEW r \in Requests, Arrive(r)
  PROVE  AdmittedLedger'
<1>1. pc[r] = "idle" /\ UNCHANGED served
  BY DEF Arrive
<1>2. PICK sigH \in SigHeaders, nonceH \in NonceHeaders, tsH \in TsHeaders :
        \/ UNCHANGED <<granted, pc, pending>>
        \/ /\ sigH # NoHeader /\ nonceH # NoHeader
           /\ TimestampAccepted(tsH)
           /\ VerifyPayment(r, Context(nonceH, tsH), sigH)
           /\ pc' = [pc EXCEPT ![r] = "awaiting"]
  BY DEF Arrive
<1>3. CASE UNCHANGED <<granted, pc, pending>>
  BY <1>1, <1>3 DEF AdmittedLedger, Admitted
<1>4. CASE /\ sigH # NoHeader /\ nonceH # NoHeader
           /\ TimestampAccepted(tsH)
           /\ VerifyPayment(r, Context(nonceH, tsH), sigH)
           /\ pc' = [pc EXCEPT ![r] = "awaiting"]
  <2> DEFINE ctx == Context(nonceH, tsH)
  <2>1. ctx.nonce \in Nonces
    BY <1>4, VerifiedHeaders
  <2>2. PICK w : pending' = [pending EXCEPT ![r] = w]
    BY <1>4 DEF VerifyPayment
  <2>3. ASSUME NEW q \in Requests, pc[q] = "awaiting"
        PROVE  pc'[q] = "awaiting" /\ pending'[q] = pending[q]
    BY <1>1, <1>4, <2>2, <2>3 DEF TypeInv, TypeOK
  <2>4. ASSUME NEW n \in Nonces, granted'[n] = granted[n]
        PROVE  granted'[n] > 0 => Admitted(n)'
    BY <1>1, <2>3, <2>4 DEF AdmittedLedger, Admitted
  <2>5. CASE UNCHANGED granted
    BY <2>4, <2>5 DEF AdmittedLedger
  <2>6. CASE /\ granted' = [granted EXCEPT ![ctx.nonce] = @ + 1]
             /\ pending' = [pending EXCEPT ![r] =
                              [valid |-> TRUE, signer |-> Recover(ctx, sigH),
                               nonce |-> ctx.nonce, ts |-> ctx.ts,
                               authorized |-> sigH.msg = ctx]]
    <3>1. Admitted(ctx.nonce)'
      BY <1>4, <2>6 DEF Admitted, TypeInv, TypeOK
    <3>2. ASSUME NEW n \in Nonces, n # ctx.nonce
          PROVE  granted'[n] = granted[n]
      BY <2>6, <3>2 DEF TypeInv, TypeOK
    <3>3. QED
      BY <2>1, <2>4, <3>1, <3>2 DEF AdmittedLedger
  <2>7. QED
    BY <1>4, <2>5, <2>6 DEF VerifyPayment
<1>5. QED
  BY <1>2, <1>3, <1>4

LEMMA ResumeAdmittedLedger ==
  ASSUME TypeInv, AdmittedLedger, NEW r \in Requests, Resume(r)
  PROVE  AdmittedLedger'
<1> DEFINE v == pending[r]
<1>1. /\ pc' = [pc EXCEPT ![r] = "idle"]
      /\ pending' = [pending EXCEPT ![r] = NoVerdict]
      /\ UNCHANGED granted
      /\ served \subseteq served'
  BY DEF Resume
<1>2. v.valid => \E s \in served' : s.nonce = v.nonce
  <2> DEFINE rec == [nonce |-> v.nonce, signer |-> v.signer, ts |-> v.ts,
                     at |-> now, authorized |-> v.authorized]
  <2>1. v.valid => rec \in served'
    BY DEF Resume
  <2>2. rec.nonce = v.nonce
    OBVIOUS
  <2>3. QED
    BY <2>1, <2>2
<1> SUFFICES ASSUME NEW n \in Nonces, granted'[n] > 0 PROVE Admitted(n)'
  BY DEF AdmittedLedger
<1>3. Admitted(n)
  BY <1>1 DEF AdmittedLedger
<1>4. CASE \E s \in served : s.nonce = n
  BY <1>1, <1>4 DEF Admitted
<1>5. CASE \E q \in Requests : pc[q] = "awaiting" /\ pending[q].valid /\ pending[q].nonce = n
  <2>1. PICK q \in Requests : pc[q] = "awaiting" /\ pending[q].valid /\ pending[q].nonce = n
    BY <1>5
  <2>2. CASE q = r
    BY <1>2, <2>1, <2>2 DEF Admitted
  <2>3. CASE q # r
    BY <1>1, <2>1, <2>3 DEF Admitted, TypeInv, TypeOK
  <2>4. QED
    BY <2>2, <2>3
<1>6. QED
  BY <1>3, <1>4, <1>5 DEF Admitted


(* A configured recipient is not the empty string. *)
LEMMA RecipientNonEmpty ==
  ASSUME RecipientConfigured PROVE Recipient # ""
BY DEF RecipientConfigured, Recipient

(* With a recipient, verifyTypedData accepts a correct signature, so a   *)
(* correct payment is accepted in the same step that records it.         *)
LEMMA ArrivePaidGranted ==
  ASSUME TypeInv, PaidGranted, RecipientConfigured, NEW r \in Requests, Arrive(r)
  PROVE  PaidGranted'
<1>1. PICK sigH \in SigHeaders, nonceH \in NonceHeaders, tsH \in TsHeaders :
        \/ UNCHANGED <<granted, paid>>
        \/ /\ sigH # NoHeader /\ nonceH # NoHeader
           /\ TimestampAccepted(tsH)
           /\ paid' = IF PaysCorrectly(Context(nonceH, tsH), sigH)
                      THEN paid \cup {nonceH} ELSE paid
           /\ VerifyPayment(r, Context(nonceH, tsH), sigH)
  BY DEF Arrive
<1>2. CASE UNCHANGED <<granted, paid>>
  BY <1>2 DEF PaidGranted
<1>3. CASE /\ sigH # NoHeader /\ nonceH # NoHeader
           /\ TimestampAccepted(tsH)
           /\ paid' = IF PaysCorrectly(Context(nonceH, tsH), sigH)
                      THEN paid \cup {nonceH} ELSE paid
           /\ VerifyPayment(r, Context(nonceH, tsH), sigH)
  <2> DEFINE ctx == Context(nonceH, tsH)
  <2>1. ctx.nonce = nonceH /\ nonceH \in Nonces
    BY <1>3, VerifiedHeaders DEF Context
  <2>2. granted \in [Nonces -> Nat] /\ paid \subseteq Nonces
    BY DEF TypeInv, TypeOK
  <2>3. \A n \in Nonces : granted[n] > 0 => granted'[n] > 0
    BY <1>3, <2>2 DEF VerifyPayment
  <2>4. CASE PaysCorrectly(ctx, sigH)
    <3>1. ~VerifyThrows(sigH) /\ ctx.nonce \in nonceStore
      BY <2>4, RecipientNonEmpty, SentinelsAssumption DEF PaysCorrectly, VerifyThrows
    <3>2. granted' = [granted EXCEPT ![ctx.nonce] = @ + 1]
      BY <1>3, <3>1 DEF VerifyPayment
    <3>3. granted'[nonceH] > 0
      BY <2>1, <2>2, <3>2
    <3>4. QED
      BY <1>3, <2>2, <2>3, <2>4, <3>3 DEF PaidGranted
  <2>5. CASE ~PaysCorrectly(ctx, sigH)
    BY <1>3, <2>2, <2>3, <2>5 DEF PaidGranted
  <2>6. QED
    BY <2>4, <2>5
<1>4. QED
  BY <1>1, <1>2, <1>3

LEMMA NextPaidInv ==
  ASSUME RecipientConfigured
  PROVE  PaidInv /\ [Next]_vars => PaidInv'
<1> SUFFICES ASSUME PaidInv, [Next]_vars PROVE PaidInv'
  OBVIOUS
<1>1. TypeInv'
  BY NextTypeInv DEF PaidInv
<1>2. CASE \E r \in Requests : Arrive(r)
  <2>1. PICK r \in Requests : Arrive(r)
    BY <1>2
  <2>2. QED
    BY <1>1, <2>1, ArriveAdmittedLedger, ArrivePaidGranted DEF PaidInv
<1>3. CASE \E r \in Requests : Resume(r)
  <2>1. PICK r \in Requests : Resume(r)
    BY <1>3
  <2>2. UNCHANGED <<granted, paid>>
    BY <2>1 DEF Resume
  <2>3. QED
    BY <1>1, <2>1, <2>2, ResumeAdmittedLedger DEF PaidInv, PaidGranted
<1>4. CASE Tick \/ UNCHANGED vars
  BY <1>1, <1>4 DEF Tick, vars, PaidInv, AdmittedLedger, Admitted, PaidGranted
<1>5. QED
  BY <1>2, <1>3, <1>4 DEF Next

(* Spec 4.6 for every number of requests, nonces and clients: when CONFIG *)
(* holds a recipient (a valid private key or RECIPIENT_ADDRESS), every   *)
(* client that signs the context of a nonce still in nonceStore is       *)
(* admitted by x402Middleware, or is about to be at its await.            *)
THEOREM PaidAdmission == RecipientConfigured => (Spec => []PaidRequestAdmitted)
<1> SUFFICES ASSUME RecipientConfigured PROVE Spec => []PaidRequestAdmitted
  OBVIOUS
<1>1. Spec => []PaidInv
  BY InitPaidInv, NextPaidInv, PTL DEF Spec
<1>2. PaidInv => PaidRequestAdmitted
  BY DEF PaidInv, PaidGranted, AdmittedLedger, Admitted, PaidRequestAdmitted,
         TypeInv, TypeOK
<1>3. QED
  BY <1>1, <1>2, PTL


-----------------------------------------------------------------------------
(***************************************************************************)
(* Admission only on a grant.  The verdict a suspended request will read  *)
(* after its await was produced by verifyPayment before it; the invariant *)
(* GrantedVerdicts says a valid one names a nonce that was granted; the  *)
(* invariant does not need the microtask ordering, since grants are never *)
(* taken back.                                                            *)
(***************************************************************************)
GrantedVerdicts ==
  \A r \in Requests : pending[r].valid => granted[pending[r].nonce] > 0

AdmitInv == TypeInv /\ GrantedVerdicts


LEMMA ArriveGrantedVerdicts ==
  ASSUME TypeInv, GrantedVerdicts, NEW r \in Requests, Arrive(r)
  PROVE  GrantedVerdicts'
<1>1. PICK sigH \in SigHeaders, nonceH \in NonceHeaders, tsH \in TsHeaders :
        \/ UNCHANGED <<granted, pending>>
        \/ /\ sigH # NoHeader /\ nonceH # NoHeader
           /\ TimestampAccepted(tsH)
           /\ VerifyPayment(r, Context(nonceH, tsH), sigH)
  BY DEF Arrive
<1>2. CASE UNCHANGED <<granted, pending>>
  BY <1>2 DEF GrantedVerdicts
<1>3. CASE /\ sigH # NoHeader /\ nonceH # NoHeader
           /\ TimestampAccepted(tsH)
           /\ VerifyPayment(r, Context(nonceH, tsH), sigH)
  <2> DEFINE ctx == Context(nonceH, tsH)
  <2>1. ctx.nonce \in Nonces /\ ctx.ts \in Stamps
    BY <1>3, VerifiedHeaders
  <2>2. ctx.nonce \in NonceHeaders
    BY <2>1 DEF NonceHeaders
  <2>3. granted \in [Nonces -> Nat] /\ pending \in [Requests -> Verdicts]
    BY DEF TypeInv, TypeOK
  <2>4. CASE /\ pending' = [pending EXCEPT ![r] = [NoVerdict EXCEPT !.nonce = ctx.nonce, !.ts = ctx.ts]]
             /\ UNCHANGED granted
    <3>1. ~pending'[r].valid
      BY <2>1, <2>2, <2>3, <2>4, FailedVerdictType
    <3>2. QED
      BY <2>3, <2>4, <3>1 DEF GrantedVerdicts
  <2>5. CASE /\ granted' = [granted EXCEPT ![ctx.nonce] = @ + 1]
             /\ pending' = [pending EXCEPT ![r] =
                              [valid |-> TRUE, signer |-> Recover(ctx, sigH),
                               nonce |-> ctx.nonce, ts |-> ctx.ts,
                               authorized |-> sigH.msg = ctx]]
    <3>1. granted'[ctx.nonce] > 0 /\ pending'[r].nonce = ctx.nonce
      BY <2>1, <2>3, <2>5
    <3>2. \A n \in Nonces : granted[n] > 0 => granted'[n] > 0
      BY <2>3, <2>5
    <3>3. ASSUME NEW q \in Requests, q # r PROVE pending'[q] = pending[q]
      BY <2>3, <2>5, <3>3
    <3>4. \A q \in Requests : pending[q].valid => pending[q].nonce \in Nonces
      BY DEF TypeInv, ValidVerdictsTyped
    <3>5. QED
      BY <3>1, <3>2, <3>3, <3>4 DEF GrantedVerdicts
  <2>6. QED
    BY <1>3, <2>4, <2>5 DEF VerifyPayment
<1>4. QED
  BY <1>1, <1>2, <1>3

LEMMA NextAdmitInv == AdmitInv /\ [Next]_vars => AdmitInv'
<1> SUFFICES ASSUME AdmitInv, [Next]_vars PROVE AdmitInv'
  OBVIOUS
<1>1. TypeInv'
  BY NextTypeInv DEF AdmitInv
<1>2. CASE \E r \in Requests : Arrive(r)
  BY <1>1, <1>2, ArriveGrantedVerdicts DEF AdmitInv
<1>3. CASE \E r \in Requests : Resume(r)
  <2>1. PICK r \in Requests : Resume(r)
    BY <1>3
  <2>2. pending' = [pending EXCEPT ![r] = NoVerdict] /\ UNCHANGED granted
    BY <2>1 DEF Resume
  <2>3. ~NoVerdict.valid /\ pending \in [Requests -> Verdicts]
    BY NoVerdictType DEF AdmitInv, TypeInv, TypeOK
  <2>4. QED
    BY <1>1, <2>2, <2>3 DEF AdmitInv, GrantedVerdicts
<1>4. CASE Tick \/ UNCHANGED vars
  BY <1>1, <1>4 DEF Tick, vars, AdmitInv, GrantedVerdicts
<1>5. QED
  BY <1>2, <1>3, <1>4 DEF Next

(* The step of the action property: only Resume adds to served, and it   *)
(* adds the record of a valid verdict, whose nonce was granted.          *)
LEMMA AdmitStep ==
  ASSUME AdmitInv, [Next]_vars
  PROVE  [\A s \in served' \ served : s.nonce \in Nonces /\ granted[s.nonce] > 0]_vars
<1>1. CASE \E r \in Requests : Resume(r)
  <2>1. PICK r \in Requests : Resume(r)
    BY <1>1
  <2> DEFINE v == pending[r]
             rec == [nonce |-> v.nonce, signer |-> v.signer, ts |-> v.ts,
                     at |-> now, authorized |-> v.authorized]
  <2>2. CASE v.valid
    <3>1. served' \ served \subseteq {rec}
      BY <2>1, <2>2 DEF Resume
    <3>2. v.nonce \in Nonces /\ granted[v.nonce] > 0
      BY <2>2 DEF AdmitInv, TypeInv, ValidVerdictsTyped, GrantedVerdicts
    <3>3. QED
      BY <3>1, <3>2
  <2>3. CASE ~v.valid
    BY <2>1, <2>3 DEF Resume
  <2>4. QED
    BY <2>2, <2>3
<1>2. CASE (\E r \in Requests : Arrive(r)) \/ Tick \/ UNCHANGED vars
  BY <1>2 DEF Arrive, Tick, vars
<1>3. QED
  BY <1>1, <1>2 DEF Next

(* For every instance, x402Middleware calls next() only for a request    *)
(* whose nonce verifyPayment accepted, whatever the verdict's signer,    *)
(* timestamp and authorization are.                                       *)
THEOREM AdmissionOnlyGranted == Spec => AdmitOnlyGranted
<1>1. Init => AdmitInv
  BY InitTypeInv, NoVerdictType DEF Init, AdmitInv, GrantedVerdicts
<1>2. Spec => []AdmitInv
  BY <1>1, NextAdmitInv, PTL DEF Spec
<1>3. QED
  BY <1>2, AdmitStep, PTL DEF Spec, AdmitOnlyGranted

=============================================================================
