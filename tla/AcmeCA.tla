------------------------------- MODULE AcmeCA -------------------------------
(***************************************************************************)
(* The ACME v2 certificate authority that src/scripts/acme.py talks to,    *)
(* as the environment of the client: the replay nonces it has issued, the  *)
(* account registry, the authorizations of the one domain and the orders.  *)
(* It follows RFC 8555 as spec.md sections 3 and 4 summarise it; the CA is *)
(* not code of the repository, so nothing here is mapped to a source line. *)
(*                                                                         *)
(* The operators below are the CA's handling of each request; the client  *)
(* module composes them with the client's steps.  Authorizations and      *)
(* orders are numbered 1, 2, ... in the order the CA creates them.         *)
(***************************************************************************)
EXTENDS Naturals

CONSTANT MaxOrders   \* bound on the orders the CA creates in one behaviour

ASSUME MaxOrdersAssumption == MaxOrders \in Nat \ {0}

VARIABLES
  caNonces,     \* nonces issued and not yet redeemed
  nextNonce,    \* the last nonce issued; nonces are 1, 2, ...
  caAccount,    \* whether the account key is registered
  authzSt,      \* authzSt[a]: status of authorization a
  challReady,   \* authorizations whose http-01 challenge has been triggered
  orderSt,      \* orderSt[o]: status of order o
  orderAuthz,   \* orderAuthz[o]: the authorization order o depends on
  numOrders,    \* orders created so far
  numAuthz      \* authorizations created so far

caState == <<caAccount, authzSt, challReady, orderSt, orderAuthz, numOrders, numAuthz>>
caVars == <<caNonces, nextNonce, caState>>

Ids == 1..MaxOrders

AuthzStatus == {"none", "pending", "valid", "invalid"}

OrderStatus == {"none", "pending", "ready", "processing", "valid", "invalid"}

\* What a pending order becomes when its authorization settles.
OrderAfter == [valid |-> "ready", invalid |-> "invalid"]

CATypeOK ==
  /\ nextNonce \in Nat
  /\ caNonces \subseteq 1..nextNonce
  /\ caAccount \in BOOLEAN
  /\ authzSt \in [Ids -> AuthzStatus]
  /\ challReady \subseteq Ids
  /\ orderSt \in [Ids -> OrderStatus]
  /\ orderAuthz \in [Ids -> 0..MaxOrders]
  /\ numOrders \in 0..MaxOrders
  /\ numAuthz \in 0..numOrders

CAInit ==
  /\ caNonces = {}
  /\ nextNonce = 0
  /\ caAccount = FALSE
  /\ authzSt = [a \in Ids |-> "none"]
  /\ challReady = {}
  /\ orderSt = [o \in Ids |-> "none"]
  /\ orderAuthz = [o \in Ids |-> 0]
  /\ numOrders = 0
  /\ numAuthz = 0

-----------------------------------------------------------------------------
(* Nonces. *)

\* HEAD newNonce: a fresh nonce.
IssueNonce ==
  /\ nextNonce' = nextNonce + 1
  /\ caNonces' = caNonces \cup {nextNonce + 1}

\* A signed request carrying the valid nonce n: n is redeemed and a fresh
\* nonce is issued for the Replay-Nonce header of the answer.
RedeemNonce(n) ==
  /\ nextNonce' = nextNonce + 1
  /\ caNonces' = (caNonces \ {n}) \cup {nextNonce + 1}

-----------------------------------------------------------------------------
(* The CA's handling of the signed requests the client makes. *)

\* POST newAccount with the account JWK: creates the account, or finds the
\* one that key already has; either way it answers with its URL.
CANewAccount ==
  /\ caAccount' = TRUE
  /\ UNCHANGED <<authzSt, challReady, orderSt, orderAuthz, numOrders, numAuthz>>

\* POST newOrder for the domain.  The CA reuses the domain's authorization
\* when one is pending or valid, and otherwise creates a fresh pending one.
CANewOrder ==
  LET o == numOrders + 1
      live == {a \in 1..numAuthz : authzSt[a] \in {"pending", "valid"}}
  IN  /\ caAccount
      /\ numOrders < MaxOrders
      /\ numOrders' = o
      /\ \/ \E a \in live :
              /\ orderAuthz' = [orderAuthz EXCEPT ![o] = a]
              /\ orderSt' = [orderSt EXCEPT
                               ![o] = IF authzSt[a] = "valid" THEN "ready" ELSE "pending"]
              /\ UNCHANGED <<authzSt, numAuthz>>
         \/ /\ live = {}
            /\ numAuthz' = numAuthz + 1
            /\ authzSt' = [authzSt EXCEPT ![numAuthz + 1] = "pending"]
            /\ orderAuthz' = [orderAuthz EXCEPT ![o] = numAuthz + 1]
            /\ orderSt' = [orderSt EXCEPT ![o] = "pending"]
      /\ UNCHANGED <<caAccount, challReady>>

\* POST to the challenge URL of authorization a: the CA starts validating
\* it if the authorization is still pending, and otherwise ignores it.
CARespondChallenge(a) ==
  /\ challReady' = IF authzSt[a] = "pending" THEN challReady \cup {a} ELSE challReady
  /\ UNCHANGED <<caAccount, authzSt, orderSt, orderAuthz, numOrders, numAuthz>>

\* POST finalize of order o with a CSR.  Only a ready order is accepted;
\* any other is answered 403 orderNotReady.
CAFinalize(o) ==
  /\ orderSt[o] = "ready"
  /\ orderSt' = [orderSt EXCEPT ![o] = "processing"]
  /\ UNCHANGED <<caAccount, authzSt, challReady, orderAuthz, numOrders, numAuthz>>

\* POST-as-GET of an order: a read.
CAReadOrder == UNCHANGED caState

-----------------------------------------------------------------------------
(* The CA's own steps. *)

\* Validation of a triggered challenge: the CA fetches
\* /.well-known/acme-challenge/<token> from the domain.  It can only succeed
\* when the key authorization is published there, and may fail anyway (the
\* domain does not resolve to the host, port 80 is filtered).  The orders
\* waiting on the authorization settle with it.
CAValidate(a, published) ==
  /\ authzSt[a] = "pending"
  /\ a \in challReady
  /\ \E res \in IF a \in published THEN {"valid", "invalid"} ELSE {"invalid"} :
       /\ authzSt' = [authzSt EXCEPT ![a] = res]
       /\ orderSt' = [o \in Ids |->
                        IF orderAuthz[o] = a /\ orderSt[o] = "pending"
                        THEN OrderAfter[res] ELSE orderSt[o]]
  /\ UNCHANGED <<caNonces, nextNonce, caAccount, challReady, orderAuthz, numOrders, numAuthz>>

\* Issuance for a finalized order: the certificate, or a rejection.
CAIssue(o) ==
  /\ orderSt[o] = "processing"
  /\ \E res \in {"valid", "invalid"} : orderSt' = [orderSt EXCEPT ![o] = res]
  /\ UNCHANGED <<caNonces, nextNonce, caAccount, authzSt, challReady, orderAuthz, numOrders, numAuthz>>

\* The CA forgets the nonces it has issued (a restart of the CA front end,
\* or their lifetime running out): the next signed request gets badNonce.
CAExpireNonces ==
  /\ caNonces # {}
  /\ caNonces' = {}
  /\ UNCHANGED <<nextNonce, caState>>

=============================================================================
