----------------------------- MODULE AcmeClient -----------------------------
(***************************************************************************)
(* main() of src/scripts/acme.py with the AcmeClient it drives (nonce      *)
(* cache, directory, account, signed POSTs), composed with the CA of       *)
(* AcmeCA.  One process runs main() at a time; it may crash between any    *)
(* two steps, and the caller may run it again (up to MaxRuns invocations)  *)
(* on the same output and challenge directories.  The files survive a      *)
(* crash, the AcmeClient object does not.                                  *)
(*                                                                         *)
(* A step is the code between two network round trips: the CA's own steps *)
(* (validation, issuance, forgetting nonces) interleave with them.         *)
(* Strings are abstracted: an order or authorization URL is the number the *)
(* CA gave it, a nonce is a number, a challenge token is the number of its *)
(* authorization, a file is its state ("absent", "empty", "ok").           *)
(***************************************************************************)
EXTENDS AcmeCA, Sequences, Functions

CONSTANTS
  MaxRuns,       \* invocations of main(): the first, and reruns after a crash or an exit
  PollTimeout,   \* --poll-timeout, in ticks
  PollInterval,  \* --poll-interval, in ticks
  CAOmitsNonce   \* whether the CA may answer a POST without a Replay-Nonce header

ASSUME ClientAssumption ==
  /\ MaxRuns \in Nat \ {0}
  /\ PollTimeout \in Nat
  /\ PollInterval \in Nat \ {0}
  /\ CAOmitsNonce \in BOOLEAN

VARIABLES
  pc,         \* where main() is
  nonce,      \* AcmeClient._nonce; 0 is None
  order,      \* order_url: the order this run created; 0 before newOrder
  authz,      \* authz_url: the first authorization of that order
  elapsed,    \* time.time() - start in the current poll loop, in ticks
  runs,       \* invocations of main() so far
  acctKey,    \* the file account.key.pem
  kidFile,    \* whether account.kid holds the account URL
  domKey,     \* the file <domain>.key.pem
  published,  \* tokens whose key authorization is a file of challenge_dir
  fullchain,  \* the order whose certificate fullchain.pem holds; 0 for none
  sent        \* the nonces of the signed requests the CA received, in order

procVars == <<pc, nonce, order, authz, elapsed, runs>>
diskVars == <<acctKey, kidFile, domKey, published, fullchain>>
vars == <<procVars, diskVars, sent, caVars>>

Pcs == {"start", "acctKeygen", "init", "directory", "account", "newOrder",
        "authz", "notify", "authzPoll", "domKey", "domKeygen", "finalize",
        "orderPoll", "download", "done", "failed"}

Ended == {"done", "failed"}

KeyFile == {"absent", "empty", "ok"}

\* Whether a response may lack the Replay-Nonce header.
ReplayHeader == IF CAOmitsNonce THEN BOOLEAN ELSE {TRUE}

\* The types of the client's variables; TypeOK adds the CA's.
ClientTypeOK ==
  /\ pc \in Pcs
  /\ nonce \in 0..nextNonce
  /\ order \in 0..numOrders
  /\ authz \in 0..numAuthz
  /\ elapsed \in Nat
  /\ runs \in 1..MaxRuns
  /\ acctKey \in KeyFile
  /\ kidFile \in BOOLEAN
  /\ domKey \in KeyFile
  /\ published \subseteq Ids
  /\ fullchain \in 0..numOrders
  /\ sent \in Seq(Nat)

TypeOK == CATypeOK /\ ClientTypeOK

Init ==
  /\ CAInit
  /\ pc = "start"
  /\ nonce = 0
  /\ order = 0
  /\ authz = 0
  /\ elapsed = 0
  /\ runs = 1
  /\ acctKey = "absent"
  /\ kidFile = FALSE
  /\ domKey = "absent"
  /\ published = {}
  /\ fullchain = 0
  /\ sent = <<>>

-----------------------------------------------------------------------------
(* Helpers shared by the steps. *)

\* An exception escapes main(): the process exits non-zero.
Fail ==
  /\ pc' = "failed"
  /\ UNCHANGED <<nonce, order, authz, elapsed, runs, diskVars>>

\* A plausible bug: line 192 left out, the cache keeps the nonce just sent.
RespNonceStale(h) == nonce

\* The nonce cache after a 2xx answer (line 192): the Replay-Nonce header
\* when there is one (h), else the nonce just sent.
RespNonce(h) == IF h THEN nextNonce + 1 ELSE nonce

\* AcmeClient.post with _jws: the request carries the cached nonce.  An
\* unknown nonce is answered 400 badNonce, which urlopen raises.  Otherwise
\* the CA redeems it and handles the request (Handle); the 2xx answer is
\* read, its Replay-Nonce (if any, h) cached and main() goes on (Reply),
\* or the connection is lost first (urlopen raises).
SignedPost(Handle, Reply) ==
  /\ sent' = Append(sent, nonce)
  /\ \/ /\ nonce \notin caNonces
        /\ Fail
        /\ UNCHANGED caVars
     \/ /\ nonce \in caNonces
        /\ RedeemNonce(nonce)
        /\ Handle
        /\ \/ /\ \E h \in ReplayHeader : nonce' = RespNonce(h)
              /\ Reply
           \/ Fail

\* gen_rsa_key: the key is generated unless the file exists.  openssl
\* genpkey opens its output file before generating the key, so the file
\* exists, empty, until the key is written.
GenKey(file, next, genPc) ==
  \/ /\ file # "absent"
     /\ pc' = next
     /\ UNCHANGED file
  \/ /\ file = "absent"
     /\ file' = "empty"
     /\ pc' = genPc

-----------------------------------------------------------------------------
(* The steps of main(). *)

\* Lines 291-303: gen_rsa_key(account_key).
GenAccountKey ==
  /\ pc = "start"
  /\ GenKey(acctKey, "init", "acctKeygen")
  /\ UNCHANGED <<nonce, order, authz, elapsed, runs, kidFile, domKey, published, fullchain, sent, caVars>>

\* openssl genpkey writes the account key.
AcctKeygen ==
  /\ pc = "acctKeygen"
  /\ acctKey' = "ok"
  /\ pc' = "init"
  /\ UNCHANGED <<nonce, order, authz, elapsed, runs, kidFile, domKey, published, fullchain, sent, caVars>>

\* Line 305: AcmeClient.__init__ reads the JWK of the key with openssl rsa,
\* which fails on a file that holds no key.
NewClient ==
  /\ pc = "init"
  /\ \/ /\ acctKey = "ok"
        /\ pc' = "directory"
        /\ UNCHANGED <<nonce, order, authz, elapsed, runs, diskVars>>
     \/ /\ acctKey # "ok"
        /\ Fail
  /\ UNCHANGED <<sent, caVars>>

\* Line 306: directory() fetches the directory and a first nonce.
Directory ==
  /\ pc = "directory"
  /\ IssueNonce
  /\ nonce' = nextNonce + 1
  /\ pc' = "account"
  /\ UNCHANGED <<order, authz, elapsed, runs, diskVars, sent, caState>>

\* Line 307: ensure_account returns at once when account.kid holds a kid,
\* and otherwise registers the key and saves the kid from Location.
AccountReply ==
  /\ kidFile' = TRUE
  /\ pc' = "newOrder"
  /\ UNCHANGED <<order, authz, elapsed, runs, acctKey, domKey, published, fullchain>>

EnsureAccount ==
  /\ pc = "account"
  /\ \/ /\ kidFile
        /\ pc' = "newOrder"
        /\ UNCHANGED <<nonce, order, authz, elapsed, runs, diskVars, sent, caVars>>
     \/ /\ ~kidFile
        /\ SignedPost(CANewAccount, AccountReply)

\* A plausible bug: the authorization URL taken one entry too far.
OrderReplyNextAuthz ==
  /\ order' = numOrders'
  /\ authz' = orderAuthz'[numOrders'] + 1
  /\ pc' = "authz"
  /\ UNCHANGED <<elapsed, runs, diskVars>>

\* Lines 309-317: POST newOrder; the order URL and its first authorization.
OrderReply ==
  /\ order' = numOrders'
  /\ authz' = orderAuthz'[numOrders']
  /\ pc' = "authz"
  /\ UNCHANGED <<elapsed, runs, diskVars>>

NewOrder ==
  /\ pc = "newOrder"
  /\ SignedPost(CANewOrder, OrderReply)

\* A plausible bug: the key authorization file is not written.
GetAuthzNoWrite ==
  /\ pc = "authz"
  /\ \/ /\ authzSt[authz] = "valid"
        /\ pc' = "domKey"
     \/ /\ authzSt[authz] # "valid"
        /\ pc' = "notify"
  /\ UNCHANGED <<nonce, order, authz, elapsed, runs, diskVars, sent, caVars>>

\* Lines 319-334: GET the authorization.  A valid one skips the challenge;
\* otherwise the key authorization of its http-01 token is written to
\* challenge_dir.
GetAuthz ==
  /\ pc = "authz"
  /\ \/ /\ authzSt[authz] = "valid"
        /\ pc' = "domKey"
        /\ UNCHANGED published
     \/ /\ authzSt[authz] # "valid"
        /\ published' = published \cup {authz}
        /\ pc' = "notify"
  /\ UNCHANGED <<nonce, order, authz, elapsed, runs, acctKey, kidFile, domKey, fullchain, sent, caVars>>

\* Lines 336-340: POST {} to the challenge URL (the answer is not looked
\* at), then the poll loop starts its clock.
NotifyReply ==
  /\ elapsed' = 0
  /\ pc' = "authzPoll"
  /\ UNCHANGED <<order, authz, runs, diskVars>>

Notify ==
  /\ pc = "notify"
  /\ SignedPost(CARespondChallenge(authz), NotifyReply)

\* A plausible bug: start = time.time() inside the loop, so the clock
\* restarts on every iteration.
AuthzPollClockReset ==
  /\ pc = "authzPoll"
  /\ elapsed < PollTimeout
  /\ \/ /\ authzSt[authz] = "valid"
        /\ pc' = "domKey"
     \/ /\ authzSt[authz] = "invalid"
        /\ pc' = "failed"
     \/ /\ authzSt[authz] \notin {"valid", "invalid"}
        /\ UNCHANGED pc
  /\ elapsed' = 0
  /\ UNCHANGED <<nonce, order, authz, runs, diskVars, sent, caVars>>

\* Lines 341-348: one iteration of the authorization poll loop.
AuthzPoll ==
  /\ pc = "authzPoll"
  /\ elapsed < PollTimeout
  /\ \/ /\ authzSt[authz] = "valid"
        /\ pc' = "domKey"
        /\ UNCHANGED elapsed
     \/ /\ authzSt[authz] = "invalid"
        /\ pc' = "failed"
        /\ UNCHANGED elapsed
     \/ /\ authzSt[authz] \notin {"valid", "invalid"}
        /\ elapsed' = elapsed + PollInterval
        /\ UNCHANGED pc
  /\ UNCHANGED <<nonce, order, authz, runs, diskVars, sent, caVars>>

\* A plausible bug: the while loop without its else, so a timed-out poll
\* falls through to the CSR.
AuthzPollTimeoutFallThrough ==
  /\ pc = "authzPoll"
  /\ elapsed >= PollTimeout
  /\ pc' = "domKey"
  /\ UNCHANGED <<nonce, order, authz, elapsed, runs, diskVars, sent, caVars>>

\* Lines 349-350: the while loop's else: "authorization poll timeout".
AuthzPollTimeout ==
  /\ pc = "authzPoll"
  /\ elapsed >= PollTimeout
  /\ Fail
  /\ UNCHANGED <<sent, caVars>>

\* Lines 353-354: gen_rsa_key(domain_key).
GenDomainKey ==
  /\ pc = "domKey"
  /\ GenKey(domKey, "finalize", "domKeygen")
  /\ UNCHANGED <<nonce, order, authz, elapsed, runs, acctKey, kidFile, published, fullchain, sent, caVars>>

\* openssl genpkey writes the domain key.
DomKeygen ==
  /\ pc = "domKeygen"
  /\ domKey' = "ok"
  /\ pc' = "finalize"
  /\ UNCHANGED <<nonce, order, authz, elapsed, runs, acctKey, kidFile, published, fullchain, sent, caVars>>

\* Lines 355-358 and 361: build_csr_der, which fails (both openssl req
\* forms) on a key file without a key; POST finalize with the CSR (the
\* answer is not looked at); the order poll loop starts its clock.
\* build_csr_der (lines 228-277): openssl req, then the -config fallback,
\* then the DER conversion; each fails on a key file that holds no key.
CsrBuilds == domKey = "ok"

FinalizeReply ==
  /\ elapsed' = 0
  /\ pc' = "orderPoll"
  /\ UNCHANGED <<order, authz, runs, diskVars>>

Finalize ==
  /\ pc = "finalize"
  /\ \/ /\ CsrBuilds
        /\ SignedPost(CAFinalize(order), FinalizeReply)
     \/ /\ ~CsrBuilds
        /\ Fail
        /\ UNCHANGED <<sent, caVars>>

\* Lines 363-374: one iteration of the order poll loop, a POST-as-GET.
OrderPollReply ==
  /\ \/ /\ orderSt[order] = "valid"
        /\ pc' = "download"
        /\ UNCHANGED elapsed
     \/ /\ orderSt[order] = "invalid"
        /\ pc' = "failed"
        /\ UNCHANGED elapsed
     \/ /\ orderSt[order] \notin {"valid", "invalid"}
        /\ elapsed' = elapsed + PollInterval
        /\ UNCHANGED pc
  /\ UNCHANGED <<order, authz, runs, diskVars>>

OrderPoll ==
  /\ pc = "orderPoll"
  /\ elapsed < PollTimeout
  /\ SignedPost(CAReadOrder, OrderPollReply)

\* Lines 375-376: "order poll timeout".
OrderPollTimeout ==
  /\ pc = "orderPoll"
  /\ elapsed >= PollTimeout
  /\ Fail
  /\ UNCHANGED <<sent, caVars>>

\* Lines 378-380: download the chain, write fullchain.pem and privkey.pem.
Download ==
  /\ pc = "download"
  /\ fullchain' = order
  /\ pc' = "done"
  /\ UNCHANGED <<nonce, order, authz, elapsed, runs, acctKey, kidFile, domKey, published, sent, caVars>>

\* The step at pc makes an HTTP request.
Requesting ==
  \/ pc \in {"directory", "newOrder", "authz", "notify", "download"}
  \/ pc = "account" /\ ~kidFile
  \/ pc = "finalize" /\ CsrBuilds
  \/ pc \in {"authzPoll", "orderPoll"} /\ elapsed < PollTimeout

\* _http (lines 129-134): urlopen raises on a transport error or an error
\* status before the CA has changed anything.
HttpError ==
  /\ Requesting
  /\ Fail
  /\ UNCHANGED <<sent, caVars>>

\* The process is killed, or has exited, and main() is run again: the
\* AcmeClient object is gone, the files and the CA remain.
Restart ==
  /\ runs < MaxRuns
  /\ pc' = "start"
  /\ nonce' = 0
  /\ order' = 0
  /\ authz' = 0
  /\ elapsed' = 0
  /\ runs' = runs + 1
  /\ UNCHANGED <<diskVars, sent, caVars>>

\* No more invocations.
Terminated ==
  /\ pc \in Ended
  /\ runs = MaxRuns
  /\ UNCHANGED vars

-----------------------------------------------------------------------------

\* The steps main() takes by itself, when no request fails.
ClientProgress ==
  \/ GenAccountKey \/ AcctKeygen \/ NewClient \/ Directory \/ EnsureAccount
  \/ NewOrder \/ GetAuthz \/ Notify \/ AuthzPoll \/ AuthzPollTimeout
  \/ GenDomainKey \/ DomKeygen \/ Finalize \/ OrderPoll \/ OrderPollTimeout
  \/ Download

ClientStep == ClientProgress \/ HttpError

CAStep ==
  \/ \E a \in Ids : CAValidate(a, published) /\ UNCHANGED <<procVars, diskVars, sent>>
  \/ \E o \in Ids : CAIssue(o) /\ UNCHANGED <<procVars, diskVars, sent>>
  \/ CAExpireNonces /\ UNCHANGED <<procVars, diskVars, sent>>

Next == ClientStep \/ CAStep \/ Restart \/ Terminated

\* The running process does not stop by itself: weak fairness of its own
\* steps.  Request errors, the CA, crashes and reruns get no fairness.
Spec == Init /\ [][Next]_vars /\ WF_vars(ClientProgress)

-----------------------------------------------------------------------------
(* Properties. *)

\* No nonce is ever presented to the CA twice: every signed request of
\* AcmeClient.post carries a nonce the CA issued and has not yet seen
\* (spec.md 4.2 and 8: the nonce manager never issues a nonce twice).
NoNonceReplay == IsInjective(sent)

\* main() only reaches finalize (CSR generation and the finalize POST)
\* with an order the CA considers ready, whichever way it left the
\* authorization step: skipped as already valid, or polled to valid.
ReadyBeforeFinalize ==
  pc \in {"domKey", "domKeygen", "finalize"} => orderSt[order] = "ready"

\* The CA is only ever asked to validate a challenge whose key
\* authorization main() has already written to challenge_dir.
ChallengePublishedBeforeReady == challReady \subseteq published

\* spec.md section 6: partial progress must be safely resumable on a fresh
\* invocation.  So a fresh invocation of main() never finds a key file
\* that a killed openssl genpkey left empty: gen_rsa_key (line 70) skips a
\* file that exists, and openssl rsa and req then fail on it in this run
\* and in every later one.
ResumableKeyFiles == pc = "start" => acctKey # "empty" /\ domKey # "empty"

\* Every invocation of main() ends, with the certificate or an error,
\* unless it is killed: both poll loops are bounded by --poll-timeout.
RunEnds == (pc \notin Ended) ~> (pc \in Ended)

=============================================================================
