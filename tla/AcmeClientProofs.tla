-------------------------- MODULE AcmeClientProofs --------------------------
(***************************************************************************)
(* Proofs about AcmeClient for every value of the constants.               *)
(*                                                                         *)
(* TypeOK is not inductive by itself: a step after newOrder uses the order *)
(* and authorization numbers the client holds as indices of the CA's       *)
(* tables (the finalize POST updates orderSt[order], the challenge POST   *)
(* reads authzSt[authz]), and TypeOK only says they are in 0..numOrders.  *)
(* OrderKnown adds that from newOrder on they name an existing order and  *)
(* authorization.                                                          *)
(***************************************************************************)
EXTENDS AcmeClient, TLAPS

USE ClientAssumption, MaxOrdersAssumption

\* The program locations after a successful newOrder.
HasOrder == {"authz", "notify", "authzPoll", "domKey", "domKeygen",
             "finalize", "orderPoll", "download"}

OrderKnown ==
  pc \in HasOrder => order \in 1..numOrders /\ authz \in 1..numAuthz

IInv == TypeOK /\ OrderKnown

-----------------------------------------------------------------------------
(* Facts about sets. *)

LEMMA SubsetAdd ==
  ASSUME NEW S, NEW T, NEW x \in T, S \subseteq T
  PROVE  S \cup {x} \subseteq T
BY Zenon

LEMMA SubsetRedeem ==
  ASSUME NEW k \in Nat, NEW S, S \subseteq 1..k, NEW n
  PROVE  (S \ {n}) \cup {k + 1} \subseteq 1..(k + 1)
<1>1. \A x \in (S \ {n}) \cup {k + 1} : x \in 1..(k + 1)
  BY SMT
<1>2. QED
  BY <1>1, Zenon

-----------------------------------------------------------------------------
(* The CA's part of a step. *)

LEMMA CAUnchangedType ==
  ASSUME CATypeOK, UNCHANGED caVars
  PROVE  CATypeOK'
BY Zenon DEF CATypeOK, caVars, caState

LEMMA IssueNonceType ==
  ASSUME CATypeOK, IssueNonce, UNCHANGED caState
  PROVE  CATypeOK' /\ nextNonce' = nextNonce + 1
<1>1. nextNonce \in Nat /\ caNonces \subseteq 1..nextNonce
  BY DEF CATypeOK
<1>2. caNonces' \subseteq 1..nextNonce'
  <2>1. \A x \in caNonces' : x \in 1..nextNonce'
    BY <1>1, SMT DEF IssueNonce
  <2>2. QED
    BY <2>1, Zenon
<1>3. QED
  BY <1>1, <1>2 DEF CATypeOK, IssueNonce, caState

LEMMA RedeemNonceType ==
  ASSUME CATypeOK, NEW n, RedeemNonce(n)
  PROVE  /\ nextNonce' = nextNonce + 1
         /\ nextNonce' \in Nat
         /\ caNonces' \subseteq 1..nextNonce'
<1>1. nextNonce \in Nat /\ caNonces \subseteq 1..nextNonce
  BY DEF CATypeOK
<1>2. (caNonces \ {n}) \cup {nextNonce + 1} \subseteq 1..(nextNonce + 1)
  BY <1>1, SubsetRedeem
<1>3. nextNonce' = nextNonce + 1 /\ caNonces' = (caNonces \ {n}) \cup {nextNonce + 1}
  BY DEF RedeemNonce
<1>4. QED
  BY <1>1, <1>2, <1>3

\* The handler of newOrder: a new order whose authorization exists.
LEMMA CANewOrderType ==
  ASSUME CATypeOK, CANewOrder
  PROVE  /\ numOrders' = numOrders + 1
         /\ numOrders' \in 1..MaxOrders
         /\ numAuthz' \in 0..numOrders'
         /\ numAuthz <= numAuthz'
         /\ authzSt' \in [Ids -> AuthzStatus]
         /\ orderSt' \in [Ids -> OrderStatus]
         /\ orderAuthz' \in [Ids -> 0..MaxOrders]
         /\ orderAuthz'[numOrders'] \in 1..numAuthz'
         /\ UNCHANGED <<caAccount, challReady>>
<1> DEFINE o == numOrders + 1
           live == {a \in 1..numAuthz : authzSt[a] \in {"pending", "valid"}}
<1>1. o \in Ids /\ numAuthz \in 0..numOrders
  BY DEF CATypeOK, CANewOrder, Ids
<1>2. CASE \E a \in live :
              /\ orderAuthz' = [orderAuthz EXCEPT ![o] = a]
              /\ orderSt' = [orderSt EXCEPT
                               ![o] = IF authzSt[a] = "valid" THEN "ready" ELSE "pending"]
              /\ UNCHANGED <<authzSt, numAuthz>>
  BY <1>1, <1>2 DEF CATypeOK, CANewOrder, Ids, OrderStatus
<1>3. CASE /\ live = {}
           /\ numAuthz' = numAuthz + 1
           /\ authzSt' = [authzSt EXCEPT ![numAuthz + 1] = "pending"]
           /\ orderAuthz' = [orderAuthz EXCEPT ![o] = numAuthz + 1]
           /\ orderSt' = [orderSt EXCEPT ![o] = "pending"]
  BY <1>1, <1>3 DEF CATypeOK, CANewOrder, Ids, OrderStatus, AuthzStatus
<1>4. QED
  BY <1>2, <1>3 DEF CANewOrder

\* The CA's own steps keep its type and leave the client alone.
LEMMA CAStepInv ==
  ASSUME IInv, CAStep
  PROVE  IInv'
<1>1. CATypeOK /\ ClientTypeOK /\ OrderKnown
  BY DEF IInv, TypeOK
<1>2. UNCHANGED <<procVars, diskVars, sent>>
  BY DEF CAStep
<1>3. CATypeOK'
  <2>1. ASSUME NEW a \in Ids, CAValidate(a, published)
        PROVE  CATypeOK'
    BY <1>1, <2>1 DEF CATypeOK, CAValidate, OrderAfter, OrderStatus, AuthzStatus
  <2>2. ASSUME NEW o \in Ids, CAIssue(o)
        PROVE  CATypeOK'
    BY <1>1, <2>2 DEF CATypeOK, CAIssue, OrderStatus
  <2>3. ASSUME CAExpireNonces
        PROVE  CATypeOK'
    BY <1>1, <2>3 DEF CATypeOK, CAExpireNonces, caState
  <2>4. QED
    BY <2>1, <2>2, <2>3 DEF CAStep
<1>4. UNCHANGED <<nextNonce, numOrders, numAuthz>>
  BY DEF CAStep, CAValidate, CAIssue, CAExpireNonces, caState
<1>5. QED
  BY <1>1, <1>2, <1>3, <1>4 DEF IInv, TypeOK, ClientTypeOK, OrderKnown, procVars, diskVars

\* A step of the client that leaves the CA alone and only moves pc (and
\* possibly a key file or the clock) keeps the invariant.
LEMMA LocalStepInv ==
  ASSUME IInv, UNCHANGED <<caVars, sent, nonce, order, authz, runs, kidFile, published, fullchain>>,
         pc' \in Pcs, acctKey' \in KeyFile, domKey' \in KeyFile, elapsed' \in Nat,
         pc' \in HasOrder => pc \in HasOrder
  PROVE  IInv'
<1>1. CATypeOK'
  BY CAUnchangedType DEF IInv, TypeOK
<1>2. UNCHANGED <<nextNonce, numOrders, numAuthz>>
  BY DEF caVars, caState
<1>3. QED
  BY <1>1, <1>2 DEF IInv, TypeOK, ClientTypeOK, OrderKnown

\* Fail after a step in which the CA's counters did not decrease.
LEMMA FailInv ==
  ASSUME IInv, Fail, CATypeOK', sent' \in Seq(Nat),
         nextNonce <= nextNonce', numOrders <= numOrders', numAuthz <= numAuthz'
  PROVE  IInv'
<1>1. nextNonce' \in Nat /\ numOrders' \in Nat /\ numAuthz' \in Nat
  BY DEF CATypeOK
<1>2. /\ pc' \in Pcs
      /\ UNCHANGED <<nonce, order, authz, elapsed, runs, acctKey, kidFile, domKey, published, fullchain>>
  BY DEF Fail, diskVars, Pcs
<1>3. ClientTypeOK /\ nextNonce \in Nat /\ numOrders \in Nat /\ numAuthz \in Nat
  BY DEF IInv, TypeOK, CATypeOK
<1>4. /\ nonce' \in 0..nextNonce'
      /\ order' \in 0..numOrders'
      /\ authz' \in 0..numAuthz'
      /\ fullchain' \in 0..numOrders'
  BY <1>1, <1>2, <1>3 DEF ClientTypeOK
<1>5. ClientTypeOK'
  BY <1>2, <1>3, <1>4 DEF ClientTypeOK
<1>6. OrderKnown'
  BY <1>2 DEF Fail, OrderKnown, HasOrder
<1>7. QED
  BY <1>5, <1>6 DEF IInv, TypeOK

LEMMA AppendNonce ==
  ASSUME TypeOK, sent' = Append(sent, nonce)
  PROVE  sent' \in Seq(Nat)
BY DEF TypeOK, ClientTypeOK, CATypeOK

\* A nonce from a Replay-Nonce header, or the one just sent, is one the CA
\* has issued.
LEMMA RespNonceType ==
  ASSUME TypeOK, nextNonce' = nextNonce + 1, NEW h \in BOOLEAN
  PROVE  RespNonce(h) \in 0..nextNonce'
BY DEF TypeOK, ClientTypeOK, CATypeOK, RespNonce

\* The CA's state after the handler of a signed request, given the types
\* of the parts the handler sets.
LEMMA RedeemStateType ==
  ASSUME CATypeOK, NEW n, RedeemNonce(n),
         caAccount' \in BOOLEAN,
         authzSt' \in [Ids -> AuthzStatus],
         challReady' \subseteq Ids,
         orderSt' \in [Ids -> OrderStatus],
         orderAuthz' \in [Ids -> 0..MaxOrders],
         numOrders' \in 0..MaxOrders,
         numAuthz' \in 0..numOrders'
  PROVE  CATypeOK'
<1>1. nextNonce' \in Nat /\ caNonces' \subseteq 1..nextNonce'
  BY RedeemNonceType
<1>2. QED
  BY <1>1 DEF CATypeOK

\* The handlers that do not create an order keep the CA's type and its
\* counters.
LEMMA HandlerType ==
  ASSUME CATypeOK, NEW n, RedeemNonce(n),
         \/ CANewAccount
         \/ \E a \in Ids : CARespondChallenge(a)
         \/ \E o \in Ids : CAFinalize(o)
         \/ CAReadOrder
  PROVE  /\ CATypeOK'
         /\ nextNonce' = nextNonce + 1
         /\ UNCHANGED <<numOrders, numAuthz>>
<1>1. nextNonce' = nextNonce + 1
  BY RedeemNonceType
<1>2. UNCHANGED <<numOrders, numAuthz, authzSt, orderAuthz>>
  BY DEF CANewAccount, CARespondChallenge, CAFinalize, CAReadOrder, caState
<1>3. /\ caAccount' \in BOOLEAN
      /\ challReady' \subseteq Ids
      /\ orderSt' \in [Ids -> OrderStatus]
  <2>1. CASE CANewAccount
    BY <2>1 DEF CATypeOK, CANewAccount
  <2>2. ASSUME NEW a \in Ids, CARespondChallenge(a)
        PROVE  /\ caAccount' \in BOOLEAN
               /\ challReady' \subseteq Ids
               /\ orderSt' \in [Ids -> OrderStatus]
    BY <2>2 DEF CATypeOK, CARespondChallenge
  <2>3. ASSUME NEW o \in Ids, CAFinalize(o)
        PROVE  /\ caAccount' \in BOOLEAN
               /\ challReady' \subseteq Ids
               /\ orderSt' \in [Ids -> OrderStatus]
    BY <2>3 DEF CATypeOK, CAFinalize, OrderStatus
  <2>4. CASE CAReadOrder
    BY <2>4 DEF CATypeOK, CAReadOrder, caState
  <2>5. QED
    BY <2>1, <2>2, <2>3, <2>4
<1>4. CATypeOK'
  BY <1>2, <1>3, RedeemStateType DEF CATypeOK
<1>5. QED
  BY <1>1, <1>2, <1>4

\* A signed request with a nonce the CA does not know: 400 badNonce.
LEMMA BadNonceInv ==
  ASSUME IInv, sent' = Append(sent, nonce), Fail, UNCHANGED caVars
  PROVE  IInv'
<1>1. CATypeOK' /\ sent' \in Seq(Nat)
  BY CAUnchangedType, AppendNonce DEF IInv, TypeOK
<1>2. UNCHANGED <<nextNonce, numOrders, numAuthz>> /\ nextNonce \in Nat /\ numOrders \in Nat /\ numAuthz \in Nat
  BY DEF caVars, caState, IInv, TypeOK, CATypeOK
<1>3. QED
  BY <1>1, <1>2, FailInv

\* The order and authorization numbers a client holds name table entries.
LEMMA KnownIds ==
  ASSUME CATypeOK, NEW x \in 1..numAuthz
  PROVE  x \in Ids
BY DEF CATypeOK, Ids

-----------------------------------------------------------------------------
(* The steps of main() that make no signed request. *)

\* An exception that leaves the CA and the requests alone.
LEMMA FailLocalInv ==
  ASSUME IInv, Fail, UNCHANGED <<sent, caVars>>
  PROVE  IInv'
<1>1. CATypeOK' /\ sent' \in Seq(Nat)
  BY CAUnchangedType DEF IInv, TypeOK, ClientTypeOK
<1>2. UNCHANGED <<nextNonce, numOrders, numAuthz>> /\ nextNonce \in Nat /\ numOrders \in Nat /\ numAuthz \in Nat
  BY DEF caVars, caState, IInv, TypeOK, CATypeOK
<1>3. QED
  BY <1>1, <1>2, FailInv

LEMMA GenAccountKeyInv ==
  ASSUME IInv, GenAccountKey
  PROVE  IInv'
<1>1. pc' \in {"init", "acctKeygen"} /\ acctKey' \in KeyFile
  BY DEF GenAccountKey, GenKey, IInv, TypeOK, ClientTypeOK, KeyFile
<1>2. QED
  BY <1>1, LocalStepInv DEF GenAccountKey, IInv, TypeOK, ClientTypeOK, Pcs, HasOrder

LEMMA AcctKeygenInv ==
  ASSUME IInv, AcctKeygen
  PROVE  IInv'
BY LocalStepInv DEF AcctKeygen, IInv, TypeOK, ClientTypeOK, Pcs, HasOrder, KeyFile

LEMMA NewClientInv ==
  ASSUME IInv, NewClient
  PROVE  IInv'
<1>1. CASE acctKey = "ok" /\ pc' = "directory" /\ UNCHANGED <<nonce, order, authz, elapsed, runs, diskVars>>
  BY <1>1, LocalStepInv DEF NewClient, diskVars, IInv, TypeOK, ClientTypeOK, Pcs, HasOrder
<1>2. CASE acctKey # "ok" /\ Fail
  BY <1>2, FailLocalInv DEF NewClient
<1>3. QED
  BY <1>1, <1>2 DEF NewClient

LEMMA GenDomainKeyInv ==
  ASSUME IInv, GenDomainKey
  PROVE  IInv'
<1>1. pc' \in {"finalize", "domKeygen"} /\ domKey' \in KeyFile
  BY DEF GenDomainKey, GenKey, IInv, TypeOK, ClientTypeOK, KeyFile
<1>2. QED
  BY <1>1, LocalStepInv DEF GenDomainKey, IInv, TypeOK, ClientTypeOK, Pcs, HasOrder

LEMMA DomKeygenInv ==
  ASSUME IInv, DomKeygen
  PROVE  IInv'
BY LocalStepInv DEF DomKeygen, IInv, TypeOK, ClientTypeOK, Pcs, HasOrder, KeyFile

LEMMA AuthzPollInv ==
  ASSUME IInv, AuthzPoll
  PROVE  IInv'
<1>1. pc' \in {"domKey", "failed", "authzPoll"} /\ elapsed' \in Nat
  BY DEF AuthzPoll, IInv, TypeOK, ClientTypeOK
<1>2. UNCHANGED <<caVars, sent, nonce, order, authz, runs, kidFile, published, fullchain, acctKey, domKey>>
  BY DEF AuthzPoll, diskVars
<1>3. pc = "authzPoll" /\ acctKey \in KeyFile /\ domKey \in KeyFile
  BY DEF AuthzPoll, IInv, TypeOK, ClientTypeOK
<1>4. QED
  BY <1>1, <1>2, <1>3, LocalStepInv DEF Pcs, HasOrder

LEMMA TimeoutInv ==
  ASSUME IInv, AuthzPollTimeout \/ OrderPollTimeout \/ HttpError
  PROVE  IInv'
BY FailLocalInv DEF AuthzPollTimeout, OrderPollTimeout, HttpError

LEMMA DirectoryInv ==
  ASSUME IInv, Directory
  PROVE  IInv'
<1>1. CATypeOK' /\ nextNonce' = nextNonce + 1
  BY IssueNonceType DEF Directory, IInv, TypeOK
<1>2. UNCHANGED <<numOrders, numAuthz>> /\ nextNonce \in Nat
  BY DEF Directory, caState, IInv, TypeOK, CATypeOK
<1>3. nonce' \in 0..nextNonce' /\ pc' = "account"
  BY <1>1, <1>2 DEF Directory
<1>4. QED
  BY <1>1, <1>2, <1>3 DEF Directory, IInv, TypeOK, ClientTypeOK, OrderKnown, diskVars, Pcs, HasOrder

LEMMA GetAuthzInv ==
  ASSUME IInv, GetAuthz
  PROVE  IInv'
<1>1. authz \in Ids /\ published \subseteq Ids
  BY KnownIds DEF GetAuthz, IInv, TypeOK, ClientTypeOK, OrderKnown, HasOrder
<1>2. published' \subseteq Ids
  BY <1>1, SubsetAdd DEF GetAuthz
<1>3. CATypeOK'
  BY CAUnchangedType DEF GetAuthz, IInv, TypeOK
<1>4. pc' \in {"domKey", "notify"} /\ UNCHANGED <<nextNonce, numOrders, numAuthz>>
  BY DEF GetAuthz, caVars, caState
<1>5. QED
  BY <1>2, <1>3, <1>4 DEF GetAuthz, IInv, TypeOK, ClientTypeOK, OrderKnown, Pcs, HasOrder

LEMMA DownloadInv ==
  ASSUME IInv, Download
  PROVE  IInv'
<1>1. CATypeOK' /\ UNCHANGED <<nextNonce, numOrders, numAuthz>>
  BY CAUnchangedType DEF Download, IInv, TypeOK, caVars, caState
<1>2. fullchain' \in 0..numOrders'
  BY <1>1 DEF Download, IInv, TypeOK, ClientTypeOK
<1>3. QED
  BY <1>1, <1>2 DEF Download, IInv, TypeOK, ClientTypeOK, OrderKnown, Pcs, HasOrder

LEMMA RestartInv ==
  ASSUME IInv, Restart
  PROVE  IInv'
<1>1. CATypeOK' /\ UNCHANGED <<nextNonce, numOrders, numAuthz>>
  BY CAUnchangedType DEF Restart, IInv, TypeOK, caVars, caState
<1>2. runs' \in 1..MaxRuns
  BY DEF Restart, IInv, TypeOK, ClientTypeOK
<1>3. nextNonce' \in Nat /\ numOrders' \in Nat /\ numAuthz' \in Nat
  BY <1>1 DEF CATypeOK
<1>4. nonce' \in 0..nextNonce' /\ order' \in 0..numOrders' /\ authz' \in 0..numAuthz' /\ elapsed' \in Nat
  BY <1>3 DEF Restart
<1>5. pc' \in Pcs /\ pc' \notin HasOrder
  BY DEF Restart, Pcs, HasOrder
<1>6. QED
  BY <1>1, <1>2, <1>4, <1>5 DEF Restart, IInv, TypeOK, ClientTypeOK, OrderKnown, diskVars

-----------------------------------------------------------------------------
(* The steps of main() that make a signed request. *)

\* A 2xx answer to a signed request that does not create an order.
LEMMA ReplyInv ==
  ASSUME IInv, sent' = Append(sent, nonce),
         CATypeOK', nextNonce' = nextNonce + 1, UNCHANGED <<numOrders, numAuthz>>,
         NEW h \in BOOLEAN, nonce' = RespNonce(h),
         pc' \in Pcs, pc' \in HasOrder => pc \in HasOrder,
         elapsed' \in Nat, kidFile' \in BOOLEAN,
         UNCHANGED <<order, authz, runs, acctKey, domKey, published, fullchain>>
  PROVE  IInv'
<1>1. sent' \in Seq(Nat) /\ nonce' \in 0..nextNonce'
  BY AppendNonce, RespNonceType DEF IInv
<1>2. QED
  BY <1>1 DEF IInv, TypeOK, ClientTypeOK, OrderKnown

\* The CA handled a signed request (one of those of HandlerType) and the
\* connection was lost before the answer was read.
LEMMA SignedFailInv ==
  ASSUME IInv, sent' = Append(sent, nonce), RedeemNonce(nonce),
         \/ CANewAccount
         \/ \E a \in Ids : CARespondChallenge(a)
         \/ \E o \in Ids : CAFinalize(o)
         \/ CAReadOrder,
         Fail
  PROVE  IInv'
<1>1. CATypeOK /\ nextNonce \in Nat /\ numOrders \in Nat /\ numAuthz \in Nat
  BY DEF IInv, TypeOK, CATypeOK
<1>2. /\ CATypeOK'
      /\ nextNonce' = nextNonce + 1
      /\ UNCHANGED <<numOrders, numAuthz>>
  BY <1>1, HandlerType
<1>3. sent' \in Seq(Nat)
  BY AppendNonce DEF IInv
<1>4. QED
  BY <1>1, <1>2, <1>3, FailInv

LEMMA NotifyInv ==
  ASSUME IInv, Notify
  PROVE  IInv'
<1>1. authz \in Ids /\ pc = "notify"
  BY KnownIds DEF Notify, IInv, TypeOK, OrderKnown, HasOrder
<1>2. sent' = Append(sent, nonce)
  BY DEF Notify, SignedPost
<1>3. CASE nonce \notin caNonces /\ Fail /\ UNCHANGED caVars
  BY <1>2, <1>3, BadNonceInv
<1>4. CASE RedeemNonce(nonce) /\ CARespondChallenge(authz) /\ Fail
  BY <1>1, <1>2, <1>4, SignedFailInv
<1>5. CASE RedeemNonce(nonce) /\ CARespondChallenge(authz) /\ (\E h \in ReplayHeader : nonce' = RespNonce(h)) /\ NotifyReply
  <2>1. PICK h \in ReplayHeader : nonce' = RespNonce(h)
    BY <1>5
  <2>2. /\ CATypeOK'
        /\ nextNonce' = nextNonce + 1
        /\ UNCHANGED <<numOrders, numAuthz>>
    BY <1>1, <1>5, HandlerType DEF IInv, TypeOK
  <2>3. h \in BOOLEAN /\ pc' = "authzPoll" /\ elapsed' = 0
    BY <1>5, <2>1 DEF ReplayHeader, NotifyReply
  <2>4. /\ nonce' = RespNonce(h)
        /\ pc' \in Pcs
        /\ pc' \in HasOrder => pc \in HasOrder
        /\ elapsed' \in Nat
        /\ kidFile' \in BOOLEAN
        /\ UNCHANGED <<order, authz, runs, acctKey, domKey, published, fullchain>>
    BY <1>1, <1>5, <2>1, <2>3 DEF NotifyReply, diskVars, Pcs, HasOrder, IInv, TypeOK, ClientTypeOK
  <2>5. QED
    BY <1>2, <2>2, <2>3, <2>4, ReplyInv, Zenon
<1>6. QED
  BY <1>3, <1>4, <1>5 DEF Notify, SignedPost

LEMMA EnsureAccountInv ==
  ASSUME IInv, EnsureAccount
  PROVE  IInv'
<1>1. CASE kidFile /\ pc' = "newOrder" /\ UNCHANGED <<nonce, order, authz, elapsed, runs, diskVars, sent, caVars>>
  <2>1. elapsed \in Nat /\ acctKey \in KeyFile /\ domKey \in KeyFile
    BY DEF IInv, TypeOK, ClientTypeOK
  <2>2. QED
    BY <1>1, <2>1, LocalStepInv DEF diskVars, Pcs, HasOrder
<1>2. CASE ~kidFile /\ SignedPost(CANewAccount, AccountReply)
  <2>1. sent' = Append(sent, nonce)
    BY <1>2 DEF SignedPost
  <2>2. CASE nonce \notin caNonces /\ Fail /\ UNCHANGED caVars
    BY <2>1, <2>2, BadNonceInv
  <2>3. CASE RedeemNonce(nonce) /\ CANewAccount /\ Fail
    BY <2>1, <2>3, SignedFailInv
  <2>4. CASE RedeemNonce(nonce) /\ CANewAccount /\ (\E h \in ReplayHeader : nonce' = RespNonce(h)) /\ AccountReply
    <3>1. PICK h \in ReplayHeader : nonce' = RespNonce(h)
      BY <2>4
    <3>2. /\ CATypeOK'
          /\ nextNonce' = nextNonce + 1
          /\ UNCHANGED <<numOrders, numAuthz>>
      BY <2>4, HandlerType DEF IInv, TypeOK
    <3>3. h \in BOOLEAN
      BY DEF ReplayHeader
    <3>4. /\ nonce' = RespNonce(h)
          /\ pc' \in Pcs
          /\ pc' \in HasOrder => pc \in HasOrder
          /\ elapsed' \in Nat
          /\ kidFile' \in BOOLEAN
          /\ UNCHANGED <<order, authz, runs, acctKey, domKey, published, fullchain>>
      BY <2>4, <3>1 DEF AccountReply, Pcs, HasOrder, IInv, TypeOK, ClientTypeOK
    <3>5. QED
      BY <2>1, <3>2, <3>3, <3>4, ReplyInv, Zenon
  <2>5. QED
    BY <1>2, <2>2, <2>3, <2>4 DEF SignedPost
<1>3. QED
  BY <1>1, <1>2 DEF EnsureAccount

LEMMA FinalizeInv ==
  ASSUME IInv, Finalize
  PROVE  IInv'
<1>1. order \in Ids /\ pc = "finalize"
  <2>1. order \in 1..numOrders /\ pc = "finalize" /\ CATypeOK
    BY DEF Finalize, IInv, TypeOK, OrderKnown, HasOrder
  <2>2. QED
    BY <2>1 DEF CATypeOK, Ids
<1>2. CASE ~CsrBuilds /\ Fail /\ UNCHANGED <<sent, caVars>>
  BY <1>2, FailLocalInv
<1>3. CASE SignedPost(CAFinalize(order), FinalizeReply)
  <2>1. sent' = Append(sent, nonce)
    BY <1>3 DEF SignedPost
  <2>2. CASE nonce \notin caNonces /\ Fail /\ UNCHANGED caVars
    BY <2>1, <2>2, BadNonceInv
  <2>3. CASE RedeemNonce(nonce) /\ CAFinalize(order) /\ Fail
    BY <1>1, <2>1, <2>3, SignedFailInv
  <2>4. CASE RedeemNonce(nonce) /\ CAFinalize(order) /\ (\E h \in ReplayHeader : nonce' = RespNonce(h)) /\ FinalizeReply
    <3>1. PICK h \in ReplayHeader : nonce' = RespNonce(h)
      BY <2>4
    <3>2. /\ CATypeOK'
          /\ nextNonce' = nextNonce + 1
          /\ UNCHANGED <<numOrders, numAuthz>>
      BY <1>1, <2>4, HandlerType DEF IInv, TypeOK
    <3>3. h \in BOOLEAN
      BY DEF ReplayHeader
    <3>4. /\ nonce' = RespNonce(h)
          /\ pc' \in Pcs
          /\ pc' \in HasOrder => pc \in HasOrder
          /\ elapsed' \in Nat
          /\ kidFile' \in BOOLEAN
          /\ UNCHANGED <<order, authz, runs, acctKey, domKey, published, fullchain>>
      BY <1>1, <2>4, <3>1 DEF FinalizeReply, diskVars, Pcs, HasOrder, IInv, TypeOK, ClientTypeOK
    <3>5. QED
      BY <2>1, <3>2, <3>3, <3>4, ReplyInv, Zenon
  <2>5. QED
    BY <1>3, <2>2, <2>3, <2>4 DEF SignedPost
<1>4. QED
  BY <1>2, <1>3 DEF Finalize

LEMMA OrderPollInv ==
  ASSUME IInv, OrderPoll
  PROVE  IInv'
<1>1. pc = "orderPoll" /\ elapsed \in Nat
  BY DEF OrderPoll, IInv, TypeOK, ClientTypeOK
<1>2. sent' = Append(sent, nonce)
  BY DEF OrderPoll, SignedPost
<1>3. CASE nonce \notin caNonces /\ Fail /\ UNCHANGED caVars
  BY <1>2, <1>3, BadNonceInv
<1>4. CASE RedeemNonce(nonce) /\ CAReadOrder /\ Fail
  BY <1>2, <1>4, SignedFailInv
<1>5. CASE RedeemNonce(nonce) /\ CAReadOrder /\ (\E h \in ReplayHeader : nonce' = RespNonce(h)) /\ OrderPollReply
  <2>1. PICK h \in ReplayHeader : nonce' = RespNonce(h)
    BY <1>5
  <2>2. /\ CATypeOK'
        /\ nextNonce' = nextNonce + 1
        /\ UNCHANGED <<numOrders, numAuthz>>
    BY <1>5, HandlerType DEF IInv, TypeOK
  <2>3. h \in BOOLEAN
    BY DEF ReplayHeader
  <2>4. /\ nonce' = RespNonce(h)
        /\ pc' \in Pcs
        /\ pc' \in HasOrder => pc \in HasOrder
        /\ elapsed' \in Nat
        /\ kidFile' \in BOOLEAN
        /\ UNCHANGED <<order, authz, runs, acctKey, domKey, published, fullchain>>
    BY <1>1, <1>5, <2>1 DEF OrderPollReply, diskVars, Pcs, HasOrder, IInv, TypeOK, ClientTypeOK
  <2>5. QED
    BY <1>2, <2>2, <2>3, <2>4, ReplyInv, Zenon
<1>6. QED
  BY <1>3, <1>4, <1>5 DEF OrderPoll, SignedPost

LEMMA NewOrderInv ==
  ASSUME IInv, NewOrder
  PROVE  IInv'
<1>1. sent' = Append(sent, nonce) /\ sent' \in Seq(Nat)
  BY AppendNonce DEF NewOrder, SignedPost, IInv
<1>2. CATypeOK /\ ClientTypeOK /\ nextNonce \in Nat /\ numOrders \in Nat /\ numAuthz \in Nat
  BY DEF IInv, TypeOK, CATypeOK
<1>3. CASE nonce \notin caNonces /\ Fail /\ UNCHANGED caVars
  BY <1>1, <1>3, BadNonceInv
<1>4. CASE RedeemNonce(nonce) /\ CANewOrder
  <2>1. /\ numOrders' = numOrders + 1
        /\ numOrders' \in 1..MaxOrders
        /\ numAuthz' \in 0..numOrders'
        /\ numAuthz <= numAuthz'
        /\ authzSt' \in [Ids -> AuthzStatus]
        /\ orderSt' \in [Ids -> OrderStatus]
        /\ orderAuthz' \in [Ids -> 0..MaxOrders]
        /\ orderAuthz'[numOrders'] \in 1..numAuthz'
        /\ UNCHANGED <<caAccount, challReady>>
    BY <1>2, <1>4, CANewOrderType
  <2>2. nextNonce' = nextNonce + 1
    BY <1>2, <1>4, RedeemNonceType
  <2>3. CATypeOK'
    BY <1>2, <1>4, <2>1, RedeemStateType DEF CATypeOK
  <2>4. CASE Fail
    BY <1>1, <1>2, <2>1, <2>2, <2>3, <2>4, FailInv
  <2>5. CASE (\E h \in ReplayHeader : nonce' = RespNonce(h)) /\ OrderReply
    <3>1. PICK h \in ReplayHeader : nonce' = RespNonce(h)
      BY <2>5
    <3>2. nonce' \in 0..nextNonce'
      BY <2>2, <3>1, RespNonceType DEF OrderReply, ReplayHeader, IInv
    <3>3. /\ order' \in 1..numOrders'
          /\ authz' \in 1..numAuthz'
          /\ pc' = "authz"
      BY <2>1, <2>5, <3>1 DEF OrderReply
    <3>4. /\ UNCHANGED <<elapsed, runs, acctKey, kidFile, domKey, published, fullchain>>
      BY <2>5, <3>1 DEF OrderReply, diskVars
    <3>5. fullchain' \in 0..numOrders'
      BY <1>2, <2>1, <3>4 DEF ClientTypeOK
    <3>6. ClientTypeOK'
      BY <1>1, <1>2, <2>1, <3>2, <3>3, <3>4, <3>5 DEF ClientTypeOK, Pcs
    <3>7. QED
      BY <2>3, <3>3, <3>6 DEF IInv, TypeOK, OrderKnown, HasOrder
  <2>6. QED
    BY <1>4, <2>4, <2>5 DEF NewOrder, SignedPost
<1>5. QED
  BY <1>3, <1>4 DEF NewOrder, SignedPost

-----------------------------------------------------------------------------
(* The invariant. *)

LEMMA InitIInv ==
  ASSUME Init
  PROVE  IInv
<1>1. caNonces \subseteq 1..nextNonce /\ published \subseteq Ids /\ challReady \subseteq Ids
  BY Zenon DEF Init, CAInit
<1>2. sent \in Seq(Nat)
  BY DEF Init
<1>3. /\ nextNonce = 0 /\ caAccount = FALSE /\ numOrders = 0 /\ numAuthz = 0
      /\ authzSt = [a \in Ids |-> "none"]
      /\ orderSt = [o \in Ids |-> "none"]
      /\ orderAuthz = [o \in Ids |-> 0]
      /\ pc = "start" /\ nonce = 0 /\ order = 0 /\ authz = 0 /\ elapsed = 0
      /\ runs = 1 /\ acctKey = "absent" /\ domKey = "absent" /\ kidFile = FALSE
      /\ fullchain = 0
  BY DEF Init, CAInit
<1>7. authzSt \in [Ids -> AuthzStatus]
  BY <1>3 DEF AuthzStatus
<1>8. orderSt \in [Ids -> OrderStatus]
  BY <1>3 DEF OrderStatus
<1>9. orderAuthz \in [Ids -> 0..MaxOrders]
  BY <1>3
<1>10. /\ nextNonce \in Nat
       /\ numOrders \in 0..MaxOrders
       /\ numAuthz \in 0..numOrders
  BY <1>3
<1>12. caAccount \in BOOLEAN /\ kidFile \in BOOLEAN
  BY <1>3, Zenon
<1>11. pc \in Pcs /\ acctKey \in KeyFile /\ domKey \in KeyFile
  BY <1>3 DEF Pcs, KeyFile
<1>4. /\ nextNonce \in Nat
      /\ caAccount \in BOOLEAN
      /\ numOrders \in 0..MaxOrders
      /\ numAuthz \in 0..numOrders
      /\ pc \in Pcs
      /\ nonce \in 0..nextNonce
      /\ order \in 0..numOrders
      /\ authz \in 0..numAuthz
      /\ elapsed \in Nat
      /\ runs \in 1..MaxRuns
      /\ acctKey \in KeyFile /\ domKey \in KeyFile
      /\ kidFile \in BOOLEAN
      /\ fullchain \in 0..numOrders
  BY <1>3, <1>10, <1>11, <1>12
<1>5. CATypeOK /\ ClientTypeOK
  BY <1>1, <1>2, <1>4, <1>7, <1>8, <1>9, Zenon DEF CATypeOK, ClientTypeOK
<1>6. QED
  BY <1>5 DEF Init, IInv, TypeOK, OrderKnown, HasOrder

LEMMA StutterInv ==
  ASSUME IInv, UNCHANGED vars
  PROVE  IInv'
<1>1. CATypeOK'
  BY CAUnchangedType DEF IInv, TypeOK, vars
<1>2. QED
  BY <1>1 DEF vars, procVars, diskVars, caVars, caState, IInv, TypeOK, ClientTypeOK, OrderKnown

LEMMA NextIInv ==
  ASSUME IInv, [Next]_vars
  PROVE  IInv'
<1>1. CASE ClientProgress
  BY <1>1, GenAccountKeyInv, AcctKeygenInv, NewClientInv, DirectoryInv,
     EnsureAccountInv, NewOrderInv, GetAuthzInv, NotifyInv, AuthzPollInv,
     TimeoutInv, GenDomainKeyInv, DomKeygenInv, FinalizeInv, OrderPollInv,
     DownloadInv
     DEF ClientProgress
<1>2. CASE HttpError
  BY <1>2, TimeoutInv
<1>3. CASE CAStep
  BY <1>3, CAStepInv
<1>4. CASE Restart
  BY <1>4, RestartInv
<1>5. CASE Terminated \/ UNCHANGED vars
  BY <1>5, StutterInv DEF Terminated
<1>6. QED
  BY <1>1, <1>2, <1>3, <1>4, <1>5 DEF Next, ClientStep

\* Every state main() and the CA reach is well typed: in particular the
\* nonce cache only ever holds a nonce the CA issued (line 192), and the
\* order and authorization URLs a run holds from newOrder on (lines
\* 311-317) name an order and an authorization the CA created.
THEOREM TypeCorrect == Spec => []TypeOK
<1>1. Init => IInv
  BY InitIInv, Zenon
<1>2. IInv /\ [Next]_vars => IInv'
  BY NextIInv
<1>3. IInv => TypeOK
  BY DEF IInv
<1>4. QED
  BY <1>1, <1>2, <1>3, PTL DEF Spec

=============================================================================
