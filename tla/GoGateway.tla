----------------------------- MODULE GoGateway -----------------------------
(***************************************************************************)
(* The Go gateway's handleSummarize and createPaymentContext, the version *)
(* kept in src/gateway/gzip_test.go (lines 201-393), with the verifier   *)
(* service it calls over HTTP.                                            *)
(*                                                                         *)
(* Gin serves each request on its own goroutine (Handlers).  A handler   *)
(* answers 402 with a fresh uuid when a header is missing (Receive), or   *)
(* posts {context, signature} to VERIFIER_URL/verify and waits for the   *)
(* reply (VerifierReply), then binds the body and calls the AI provider  *)
(* (Complete).  The gateway keeps no record of the nonces it hands out.  *)
(* The verifier is the stateless SignatureVerifier of the spec (4.1): a  *)
(* well-formed signature is valid.                                        *)
(***************************************************************************)
EXTENDS Naturals

CONSTANTS
  Handlers,   \* goroutines serving requests
  Nonces,     \* uuid strings (issued or made up by a client)
  NoHeader,   \* an empty X-402-Signature or X-402-Nonce header
  ValidSig,   \* a well-formed signature over the context
  Malformed,  \* a signature the verifier rejects
  MaxServed   \* bound on the 200 responses counted per nonce

VARIABLES
  pc,        \* per handler: "idle", "verifying" or "serving"
  nonceOf,   \* per handler: the X-402-Nonce header of its request
  sigOf,     \* per handler: the X-402-Signature header of its request
  resp,      \* per handler: status of the last response it sent
  issued,    \* history: nonces sent out in 402 responses
  servedFor  \* history: 200 responses per nonce

vars == <<pc, nonceOf, sigOf, resp, issued, servedFor>>

Statuses == {0, 200, 400, 402, 403, 500}

TypeOK ==
  /\ pc \in [Handlers -> {"idle", "verifying", "serving"}]
  /\ nonceOf \in [Handlers -> Nonces \cup {NoHeader}]
  /\ sigOf \in [Handlers -> {ValidSig, Malformed, NoHeader}]
  /\ resp \in [Handlers -> Statuses]
  /\ issued \subseteq Nonces
  /\ servedFor \in [Nonces -> 0..MaxServed]

Init ==
  /\ pc = [h \in Handlers |-> "idle"]
  /\ nonceOf = [h \in Handlers |-> NoHeader]
  /\ sigOf = [h \in Handlers |-> NoHeader]
  /\ resp = [h \in Handlers |-> 0]
  /\ issued = {}
  /\ servedFor = [n \in Nonces |-> 0]

(* Responding ends the request: the handler is free again. *)
Respond(h, status) ==
  /\ resp' = [resp EXCEPT ![h] = status]
  /\ pc' = [pc EXCEPT ![h] = "idle"]
  /\ nonceOf' = [nonceOf EXCEPT ![h] = NoHeader]
  /\ sigOf' = [sigOf EXCEPT ![h] = NoHeader]

(***************************************************************************)
(* handleSummarize up to the verifier call: 402 with createPaymentContext *)
(* (a new uuid that is not stored) if either header is empty; otherwise   *)
(* the context {recipient, USDC, 0.001, nonce, 8453} is posted.           *)
(***************************************************************************)
Receive(h) ==
  /\ pc[h] = "idle"
  /\ \E sig \in {ValidSig, Malformed, NoHeader}, nonce \in Nonces \cup {NoHeader} :
       IF sig = NoHeader \/ nonce = NoHeader
       THEN /\ \E n \in Nonces \ issued : issued' = issued \cup {n}
            /\ Respond(h, 402)
            /\ UNCHANGED servedFor
       ELSE /\ pc' = [pc EXCEPT ![h] = "verifying"]
            /\ nonceOf' = [nonceOf EXCEPT ![h] = nonce]
            /\ sigOf' = [sigOf EXCEPT ![h] = sig]
            /\ UNCHANGED <<resp, issued, servedFor>>

(***************************************************************************)
(* The verifier's answer: http.Post fails (500), or the decoded reply is *)
(* invalid (403; an undecodable body leaves IsValid false), or valid.     *)
(***************************************************************************)
VerifierReply(h) ==
  /\ pc[h] = "verifying"
  /\ \/ /\ Respond(h, 500)
     \/ /\ sigOf[h] # ValidSig
        /\ Respond(h, 403)
     \/ /\ sigOf[h] = ValidSig
        /\ pc' = [pc EXCEPT ![h] = "serving"]
        /\ UNCHANGED <<nonceOf, sigOf, resp>>
  /\ UNCHANGED <<issued, servedFor>>

(***************************************************************************)
(* c.BindJSON fails (400), callOpenRouter fails (500), or the summary is *)
(* returned (200).                                                        *)
(***************************************************************************)
Complete(h) ==
  /\ pc[h] = "serving"
  /\ \/ /\ Respond(h, 400)
        /\ UNCHANGED servedFor
     \/ /\ Respond(h, 500)
        /\ UNCHANGED servedFor
     \/ /\ servedFor[nonceOf[h]] < MaxServed
        /\ Respond(h, 200)
        /\ servedFor' = [servedFor EXCEPT ![nonceOf[h]] = @ + 1]
  /\ UNCHANGED issued

Next == \E h \in Handlers : Receive(h) \/ VerifierReply(h) \/ Complete(h)

Spec == Init /\ [][Next]_vars

-----------------------------------------------------------------------------
(* Spec 4.2 and 8 (nonce single use): a signed payment is served at most *)
(* once; presenting the same nonce again is rejected.                    *)
ReplayRejected == \A n \in Nonces : servedFor[n] <= 1

=============================================================================
