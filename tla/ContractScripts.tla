-------------------------- MODULE ContractScripts --------------------------
(***************************************************************************)
(* The contract test scripts as sequences of node calls:                   *)
(*                                                                         *)
(*   NetworkCompatibility.py of pubsub-onchain, ra-onchain and             *)
(*   revoker-onchain, run against the node --api-url names, which write    *)
(*   the deployment info files the next one reads;                         *)
(*   GasEvalEnclaveRevoker.py, GasEvalKeyRevoker.py and                    *)
(*   GanacheContractTests.py, run against a fresh Ganache.                 *)
(*                                                                         *)
(* A script is a list of steps: a deployment, a transaction, or a view     *)
(* call whose result the script asserts.  Deployments and transactions     *)
(* go on the chain of the script's node; any of them may raise, before the *)
(* transaction is sent or after (the transaction is then on the chain),    *)
(* and an assertion may fail; the exception ends the script.  Certificates, *)
(* keys, signatures and messages are literals.  The contracts are not in   *)
(* this repository: what a view returns is given by the rules of the       *)
(* section "What the contracts answer", taken from the scripts' asserts    *)
(* and the repository's description of the contracts.                      *)
(***************************************************************************)
EXTENDS Naturals, Sequences, FiniteSets, Functions, TLC

CONSTANTS
    Networks,   \* the nodes --api-url may name
    Scripts,    \* the scripts the operator may run
    MaxRuns,    \* script runs in a behaviour
    MaxFaults   \* exceptions in a behaviour

\* The in-memory chain of the Ganache the harness starts.
Ganache == "ganache"
Chains == Networks \cup {Ganache}

\* A value: the address of the i-th transaction on network n (the contract
\* it created), or a literal (an account, a certificate, an id, a message).
Addr(n, i) == [net |-> n, idx |-> i, lit |-> ""]
Lit(v) == [net |-> "", idx |-> 0, lit |-> v]

\* The steps of a script.  key names the contract (the Python variable or
\* outInfo entry); arguments name contracts deployed before, or literals.
Deploy(k, kind, args) ==
    [op |-> "deploy", key |-> k, kind |-> kind, fn |-> "", args |-> args,
     from |-> "acct0", expect |-> TRUE]
CallFrom(a, k, fn, args) ==
    [op |-> "call", key |-> k, kind |-> "", fn |-> fn, args |-> args,
     from |-> a, expect |-> TRUE]
Call(k, fn, args) == CallFrom("acct0", k, fn, args)
Check(k, fn, args, e) ==
    [op |-> "check", key |-> k, kind |-> "", fn |-> fn, args |-> args,
     from |-> "acct0", expect |-> e]

-----------------------------------------------------------------------------
(* pubsub-onchain/utils/NetworkCompatibility.py *)

\* pubsub RunTests.  The two asserts compare the EventMgr the subscriber
\* subscribed to with the one the publisher registered, and the message
\* the subscriber received with the one published.
PubSubRunTests ==
    << Deploy("PubSub", "PubSubService", <<>>),
       Deploy("HelloWorldPublisher", "HelloWorldPublisher", <<>>),
       Call("HelloWorldPublisher", "register", <<"PubSub">>),
       Deploy("HelloWorldSubscriber", "HelloWorldSubscriber", <<"PubSub">>),
       Call("HelloWorldSubscriber", "subscribe", <<"HelloWorldPublisher">>),
       Check("HelloWorldSubscriber", "m_eventMgrAddr", <<"HelloWorldPublisher">>, TRUE),
       Call("HelloWorldPublisher", "setSendData", <<"expectedMsg">>),
       Call("HelloWorldPublisher", "publish", <<>>),
       Check("HelloWorldSubscriber", "m_recvData", <<"expectedMsg">>, TRUE) >>

-----------------------------------------------------------------------------
(* libs/ra-onchain/utils: NetworkCompatibility.py, GanacheContractTests.py *)

\* ra RunTests: the certificate managers, each built on the one before,
\* each verifying its certificate.
RaRunTests ==
    << Deploy("IASRootCertMgr", "IASRootCertMgr", <<"IASRootCert">>),
       Deploy("IASReportCertMgr", "IASReportCertMgr", <<"IASRootCertMgr">>),
       Call("IASReportCertMgr", "verifyCert", <<"IASReportCert">>),
       Deploy("DecentServerCertMgr", "DecentServerCertMgr", <<"IASReportCertMgr">>),
       Call("DecentServerCertMgr", "verifyCert", <<"DecentServerCert">>),
       Deploy("HelloWorldApp", "HelloWorldApp", <<"DecentServerCertMgr">>),
       Call("HelloWorldApp", "loadAppCert", <<"appAddr", "DecentAppCert">>) >>

\* GanacheContractTests.RunTests_VerifyIndividually makes the same calls.
RunTests_VerifyIndividually == RaRunTests

\* GanacheContractTests.RunTests_VerifyAllOnce: the managers deployed
\* without verifying, then the whole chain verified by the app.
RunTests_VerifyAllOnce ==
    << Deploy("IASRootCertMgr", "IASRootCertMgr", <<"IASRootCert">>),
       Deploy("IASReportCertMgr", "IASReportCertMgr", <<"IASRootCertMgr">>),
       Deploy("DecentServerCertMgr", "DecentServerCertMgr", <<"IASReportCertMgr">>),
       Deploy("HelloWorldApp", "HelloWorldApp", <<"DecentServerCertMgr">>),
       Call("HelloWorldApp", "verifyCertChain", <<"DecentServerCert", "DecentAppCert">>) >>

\* GanacheContractTests.EvaluateGasCosts: both, on the same Ganache.
EvaluateGasCosts == RunTests_VerifyIndividually \o RunTests_VerifyAllOnce

-----------------------------------------------------------------------------
(* revoker-onchain/utils/NetworkCompatibility.py *)

\* DeployVoteProxyContract(numVoters=3).
DeployVoteProxyContract ==
    << Deploy("VoteProxy1", "VoteProxy", <<>>),
       Deploy("VoteProxy2", "VoteProxy", <<>>),
       Deploy("VoteProxy3", "VoteProxy", <<>>) >>

\* Mutant: the vote loop copied from the key revoker's test.
RunRevokerByVotingTestsKeyVote ==
    << Deploy("RevokerByVoting", "RevokerByVoting",
              <<"PubSub", "VoteProxy1", "VoteProxy2", "VoteProxy3">>),
       Call("VoteProxy1", "keyRevokeVote", <<"RevokerByVoting", "enclaveId">>),
       Call("VoteProxy2", "keyRevokeVote", <<"RevokerByVoting", "enclaveId">>),
       Call("VoteProxy3", "keyRevokeVote", <<"RevokerByVoting", "enclaveId">>),
       Check("RevokerByVoting", "isRevoked", <<"enclaveId">>, TRUE) >>

\* The stakeholders are the proxies; every proxy votes, then the enclave
\* is asserted revoked.
RunRevokerByVotingTests ==
    << Deploy("RevokerByVoting", "RevokerByVoting",
              <<"PubSub", "VoteProxy1", "VoteProxy2", "VoteProxy3">>),
       Call("VoteProxy1", "enclaveRevokeVote", <<"RevokerByVoting", "enclaveId">>),
       Call("VoteProxy2", "enclaveRevokeVote", <<"RevokerByVoting", "enclaveId">>),
       Call("VoteProxy3", "enclaveRevokeVote", <<"RevokerByVoting", "enclaveId">>),
       Check("RevokerByVoting", "isRevoked", <<"enclaveId">>, TRUE) >>

RunKeyRevokerByVotingTests ==
    << Deploy("KeyRevokerByVoting", "KeyRevokerByVoting",
              <<"PubSub", "VoteProxy1", "VoteProxy2", "VoteProxy3">>),
       Call("VoteProxy1", "keyRevokeVote", <<"KeyRevokerByVoting", "voteKey">>),
       Call("VoteProxy2", "keyRevokeVote", <<"KeyRevokerByVoting", "voteKey">>),
       Call("VoteProxy3", "keyRevokeVote", <<"KeyRevokerByVoting", "voteKey">>),
       Check("KeyRevokerByVoting", "isRevoked", <<"voteKey">>, TRUE) >>

\* The problem credential: two conflicting messages of one enclave, with
\* the server and app certificates.
RunRevokerByConflictMsgTests ==
    << Deploy("RevokerByConflictMsg", "RevokerByConflictMsg",
              <<"PubSub", "DecentServerCertMgr">>),
       Call("RevokerByConflictMsg", "reportConflicts",
            <<"probCred", "DecentServerCert", "DecentAppCert">>),
       Check("RevokerByConflictMsg", "isRevoked", <<"probCred">>, TRUE) >>

\* GenConflictMsg: two messages signed by a fresh key.
RunKeyRevokerByConflictMsgTests ==
    << Deploy("KeyRevokerByConflictMsg", "KeyRevokerByConflictMsg", <<"PubSub">>),
       Call("KeyRevokerByConflictMsg", "reportConflicts", <<"conflictKey">>),
       Check("KeyRevokerByConflictMsg", "isRevoked", <<"conflictKey">>, TRUE) >>

RunRevokerByLeakedKeyTests ==
    << Deploy("RevokerByLeakedKey", "RevokerByLeakedKey",
              <<"PubSub", "DecentServerCertMgr">>),
       Call("RevokerByLeakedKey", "submitRevokeSign",
            <<"probCred", "DecentServerCert", "DecentAppCert">>),
       Check("RevokerByLeakedKey", "isRevoked", <<"probCred">>, TRUE) >>

\* GenKeyRevokeSign: a revocation signed by a fresh key.
RunKeyRevokerByLeakedKeyTests ==
    << Deploy("KeyRevokerByLeakedKey", "KeyRevokerByLeakedKey", <<"PubSub">>),
       Call("KeyRevokerByLeakedKey", "submitRevokeSign", <<"leakedKey">>),
       Check("KeyRevokerByLeakedKey", "isRevoked", <<"leakedKey">>, TRUE) >>

\* revoker RunTests.
RevokerRunTests ==
    DeployVoteProxyContract \o RunRevokerByVotingTests \o RunKeyRevokerByVotingTests
    \o RunRevokerByConflictMsgTests \o RunKeyRevokerByConflictMsgTests
    \o RunRevokerByLeakedKeyTests \o RunKeyRevokerByLeakedKeyTests

-----------------------------------------------------------------------------
(* revoker-onchain/utils: GasEvalEnclaveRevoker.py, GasEvalKeyRevoker.py *)

\* The stakeholders are the first three accounts of the keys file; account
\* 0 votes, the enclave must not be revoked yet; account 1 votes, the
\* receipt must carry the enclave id and the enclave must be revoked.
GasRevokerByVotingTests ==
    << Deploy("RevokerByVoting", "RevokerByVoting",
              <<"PubSub", "acct0", "acct1", "acct2">>),
       CallFrom("acct0", "RevokerByVoting", "revokeVote", <<"enclaveId">>),
       Check("RevokerByVoting", "isRevoked", <<"enclaveId">>, FALSE),
       CallFrom("acct1", "RevokerByVoting", "revokeVote", <<"enclaveId">>),
       Check("RevokerByVoting", "inReceipt", <<"enclaveId">>, TRUE),
       Check("RevokerByVoting", "isRevoked", <<"enclaveId">>, TRUE) >>

\* DeployIasReportCertMgr and DeployDecentSvrCertMgr, on the IAS root
\* manager RunTests deployed.
GasDeployCertMgrs ==
    << Deploy("IASReportCertMgr", "IASReportCertMgr", <<"IASRootCertMgr">>),
       Deploy("DecentServerCertMgr", "DecentServerCertMgr", <<"IASReportCertMgr">>) >>

GasRevokerByConflictMsgTests ==
    GasDeployCertMgrs \o
    << Deploy("RevokerByConflictMsg", "RevokerByConflictMsg",
              <<"PubSub", "DecentServerCertMgr">>),
       Call("RevokerByConflictMsg", "reportConflicts",
            <<"probCred", "DecentServerCert", "DecentAppCert">>),
       Check("RevokerByConflictMsg", "inReceipt", <<"probCred">>, TRUE),
       Check("RevokerByConflictMsg", "isRevoked", <<"probCred">>, TRUE) >>

GasRevokerByLeakedKeyTests ==
    GasDeployCertMgrs \o
    << Deploy("RevokerByLeakedKey", "RevokerByLeakedKey",
              <<"PubSub", "DecentServerCertMgr">>),
       Call("RevokerByLeakedKey", "submitRevokeSign",
            <<"probCred", "DecentServerCert", "DecentAppCert">>),
       Check("RevokerByLeakedKey", "inReceipt", <<"probCred">>, TRUE),
       Check("RevokerByLeakedKey", "isRevoked", <<"probCred">>, TRUE) >>

\* GasEvalEnclaveRevoker.RunTests.
GasEnclaveRunTests ==
    << Deploy("PubSub", "PubSubService", <<>>),
       Deploy("IASRootCertMgr", "IASRootCertMgr", <<"IASRootCert">>) >>
    \o GasRevokerByVotingTests \o GasRevokerByConflictMsgTests
    \o GasRevokerByLeakedKeyTests

\* Mutant: the second vote is sent from account 0 again.
GasKeyRevokerByVotingTestsSameVoter ==
    << Deploy("KeyRevokerByVoting", "KeyRevokerByVoting",
              <<"PubSub", "acct0", "acct1", "acct2">>),
       CallFrom("acct0", "KeyRevokerByVoting", "revokeVote", <<"voteKey">>),
       Check("KeyRevokerByVoting", "isRevoked", <<"voteKey">>, FALSE),
       CallFrom("acct0", "KeyRevokerByVoting", "revokeVote", <<"voteKey">>),
       Check("KeyRevokerByVoting", "inReceipt", <<"voteKey">>, TRUE),
       Check("KeyRevokerByVoting", "isRevoked", <<"voteKey">>, TRUE) >>

GasKeyRevokerByVotingTests ==
    << Deploy("KeyRevokerByVoting", "KeyRevokerByVoting",
              <<"PubSub", "acct0", "acct1", "acct2">>),
       CallFrom("acct0", "KeyRevokerByVoting", "revokeVote", <<"voteKey">>),
       Check("KeyRevokerByVoting", "isRevoked", <<"voteKey">>, FALSE),
       CallFrom("acct1", "KeyRevokerByVoting", "revokeVote", <<"voteKey">>),
       Check("KeyRevokerByVoting", "inReceipt", <<"voteKey">>, TRUE),
       Check("KeyRevokerByVoting", "isRevoked", <<"voteKey">>, TRUE) >>

GasKeyRevokerByConflictMsgTests ==
    << Deploy("KeyRevokerByConflictMsg", "KeyRevokerByConflictMsg", <<"PubSub">>),
       Call("KeyRevokerByConflictMsg", "reportConflicts", <<"conflictKey">>),
       Check("KeyRevokerByConflictMsg", "inReceipt", <<"conflictKey">>, TRUE),
       Check("KeyRevokerByConflictMsg", "isRevoked", <<"conflictKey">>, TRUE) >>

GasKeyRevokerByLeakedKeyTests ==
    << Deploy("KeyRevokerByLeakedKey", "KeyRevokerByLeakedKey", <<"PubSub">>),
       Call("KeyRevokerByLeakedKey", "submitRevokeSign", <<"leakedKey">>),
       Check("KeyRevokerByLeakedKey", "inReceipt", <<"leakedKey">>, TRUE),
       Check("KeyRevokerByLeakedKey", "isRevoked", <<"leakedKey">>, TRUE) >>

\* GasEvalKeyRevoker.RunTests.
GasKeyRunTests ==
    << Deploy("PubSub", "PubSubService", <<>>) >>
    \o GasKeyRevokerByVotingTests \o GasKeyRevokerByConflictMsgTests
    \o GasKeyRevokerByLeakedKeyTests

-----------------------------------------------------------------------------
(* The scripts, and the files they share *)

PubSubInfo == "pubsub_compatibility_info.json"
RaInfo == "ra_compatibility_info.json"
RevokerInfo == "revoker_compatibility_info.json"
InfoFiles == {PubSubInfo, RaInfo, RevokerInfo}

\* The files a script reads its arguments from: none, or for the revoker
\* script the PubSub of --pubsub-info and the server manager of --ra-info.
NoLoads == [k \in {} |-> ""]
RevokerLoads ==
    ("PubSub" :> PubSubInfo) @@ ("DecentServerCertMgr" :> RaInfo)

\* steps: the calls of RunTests; loads: the info files main reads first;
\* out: the info file main writes after RunTests ("" for none); ganache:
\* whether it runs on a fresh Ganache rather than on --api-url.
Script(s) ==
    CASE s = "pubsub" ->
            [steps |-> PubSubRunTests, loads |-> NoLoads, out |-> PubSubInfo, ganache |-> FALSE]
      [] s = "ra" ->
            [steps |-> RaRunTests, loads |-> NoLoads, out |-> RaInfo, ganache |-> FALSE]
      [] s = "revoker" ->
            [steps |-> RevokerRunTests, loads |-> RevokerLoads, out |-> RevokerInfo, ganache |-> FALSE]
      [] s = "gasEnclave" ->
            [steps |-> GasEnclaveRunTests, loads |-> NoLoads, out |-> "", ganache |-> TRUE]
      [] s = "gasKey" ->
            [steps |-> GasKeyRunTests, loads |-> NoLoads, out |-> "", ganache |-> TRUE]
      [] s = "indiv" ->
            [steps |-> RunTests_VerifyIndividually, loads |-> NoLoads, out |-> "", ganache |-> TRUE]
      [] s = "all" ->
            [steps |-> RunTests_VerifyAllOnce, loads |-> NoLoads, out |-> "", ganache |-> TRUE]
      [] s = "eval" ->
            [steps |-> EvaluateGasCosts, loads |-> NoLoads, out |-> "", ganache |-> TRUE]

\* The contracts a script deploys: the entries of its outInfo.
DeployKeys(steps) == {steps[i].key : i \in {j \in DOMAIN steps : steps[j].op = "deploy"}}

Absent == [kind |-> "absent", data |-> NoLoads]
Json(d) == [kind |-> "json", data |-> d]

VARIABLES
    chain,   \* per network, the transactions in order
    files,   \* the info files
    proc,    \* the script running, or "none"
    net,     \* the network it runs against
    pc,      \* 0: reading its info files; i: about to make step i
    env,     \* the contracts it knows: key -> address
    runs,    \* scripts started
    faults   \* exceptions so far

vars == <<chain, files, proc, net, pc, env, runs, faults>>

NoEnv == [k \in {} |-> Lit("")]

Steps == Script(proc).steps

\* A step's argument: the contract of that name, or a literal.
Resolve(a) == IF a \in DOMAIN env THEN env[a] ELSE Lit(a)

\* The transaction a deployment or call sends.  A contract's address is the
\* position of its deployment on the chain.
Tx(st) ==
    [op |-> st.op, kind |-> st.kind, fn |-> st.fn,
     to |-> IF st.op = "deploy" THEN Addr(net, Len(chain[net]) + 1) ELSE Resolve(st.key),
     from |-> Lit(st.from),
     args |-> [i \in DOMAIN st.args |-> Resolve(st.args[i])]]

Send(st) == chain' = [chain EXCEPT ![net] = Append(@, Tx(st))]

\* The variable of that name now holds the new contract.
Bind(k, v) == [x \in DOMAIN env \cup {k} |-> IF x = k THEN v ELSE env[x]]

\* The script returns or raises.
End == proc' = "none" /\ pc' = 0 /\ env' = NoEnv

Init ==
    /\ chain = [n \in Chains |-> <<>>]
    /\ files = [f \in InfoFiles |-> Absent]
    /\ proc = "none"
    /\ net = Ganache
    /\ pc = 0
    /\ env = NoEnv
    /\ runs = 0
    /\ faults = 0

\* The operator runs a script: against a node of their choice, or against
\* the fresh Ganache that StartGanache launches.
Start(s) ==
    /\ proc = "none" /\ runs < MaxRuns
    /\ \E n \in IF Script(s).ganache THEN {Ganache} ELSE Networks :
          /\ net' = n
          /\ chain' = IF n = Ganache THEN [chain EXCEPT ![Ganache] = <<>>] ELSE chain
    /\ proc' = s /\ pc' = 0 /\ env' = NoEnv
    /\ runs' = runs + 1
    /\ UNCHANGED <<files, faults>>

\* main opens the info files and takes the addresses it needs; a missing
\* file or entry raises.
LoadInfo ==
    /\ proc # "none" /\ pc = 0
    /\ LET L == Script(proc).loads IN
       IF \A k \in DOMAIN L : files[L[k]].kind = "json" /\ k \in DOMAIN files[L[k]].data
       THEN env' = [k \in DOMAIN L |-> files[L[k]].data[k]] /\ pc' = 1 /\ UNCHANGED proc
       ELSE End
    /\ UNCHANGED <<chain, files, net, runs, faults>>

\* Mutant: the deployed address is not kept (receipt.contractAddress unread).
ExecNoBind ==
    /\ proc # "none" /\ pc \in 1..Len(Steps)
    /\ LET st == Steps[pc] IN
       \/ /\ IF st.op = "check" THEN UNCHANGED chain ELSE Send(st)
          /\ pc' = pc + 1 /\ UNCHANGED <<proc, faults, env>>
       \/ /\ faults < MaxFaults /\ faults' = faults + 1
          /\ End
          /\ \/ UNCHANGED chain
             \/ st.op # "check" /\ Send(st)
    /\ UNCHANGED <<files, net, runs>>

\* One step: DeployContract, CallContractFunc, or a view call and its
\* assert.  Each may raise before its transaction is sent or, waiting for
\* the receipt, after; the exception ends the script.
Exec ==
    /\ proc # "none" /\ pc \in 1..Len(Steps)
    /\ LET st == Steps[pc] IN
       \/ /\ IF st.op = "check" THEN UNCHANGED chain ELSE Send(st)
          /\ env' = IF st.op = "deploy" THEN Bind(st.key, Tx(st).to) ELSE env
          /\ pc' = pc + 1 /\ UNCHANGED <<proc, faults>>
       \/ /\ faults < MaxFaults /\ faults' = faults + 1
          /\ End
          /\ \/ UNCHANGED chain
             \/ st.op # "check" /\ Send(st)
    /\ UNCHANGED <<files, net, runs>>

\* Mutant: main dumps every contract it knows, the loaded ones too.
FinishAllKnown ==
    /\ proc # "none" /\ pc = Len(Steps) + 1
    /\ LET out == Script(proc).out IN
       files' = IF out = "" THEN files ELSE [files EXCEPT ![out] = Json(env)]
    /\ End
    /\ UNCHANGED <<chain, net, runs, faults>>

\* RunTests returned: main json.dumps outInfo to its info file.
Finish ==
    /\ proc # "none" /\ pc = Len(Steps) + 1
    /\ LET out == Script(proc).out IN
       files' = IF out = "" THEN files
                ELSE [files EXCEPT ![out] = Json(Restrict(env, DeployKeys(Steps)))]
    /\ End
    /\ UNCHANGED <<chain, net, runs, faults>>

\* Every run allowed is over.
Done == proc = "none" /\ runs = MaxRuns /\ UNCHANGED vars

Next == (\E s \in Scripts : Start(s)) \/ LoadInfo \/ Exec \/ Finish \/ Done

Spec == Init /\ [][Next]_vars

-----------------------------------------------------------------------------
(* What the contracts answer.  The contracts are not in this repository;  *)
(* these rules are what the scripts' asserts and messages say of them.    *)

\* The i-th argument of a transaction, or no value.
Arg(t, i) == IF i \in DOMAIN t.args THEN t.args[i] ELSE Lit("")

\* The kind of contract at an address, or "none".
KindOf(a) ==
    IF /\ a.net \in Chains /\ a.idx \in 1..Len(chain[a.net])
       /\ chain[a.net][a.idx].op = "deploy"
    THEN chain[a.net][a.idx].kind ELSE "none"

CtorArg(a, i) == Arg(chain[a.net][a.idx], i)

\* The positions among the first h transactions of c's network of the
\* calls to fn at contract `to` whose first argument is x.
CallsAt(c, h, to, fn, x) ==
    {j \in 1..h : LET t == chain[c.net][j] IN
                  t.op = "call" /\ t.to = to /\ t.fn = fn /\ Arg(t, 1) = x}

\* A voting revoker's stakeholders: the constructor arguments after PubSub.
Stakeholders(c) ==
    {CtorArg(c, i) : i \in 2..Len(chain[c.net][c.idx].args)}

\* VoteProxy's function that votes on a revoker of that kind.
ProxyVote == ("RevokerByVoting" :> "enclaveRevokeVote")
             @@ ("KeyRevokerByVoting" :> "keyRevokeVote")

\* The function that reports to a revoker of that kind.
ReportFn == ("RevokerByConflictMsg" :> "reportConflicts")
            @@ ("KeyRevokerByConflictMsg" :> "reportConflicts")
            @@ ("RevokerByLeakedKey" :> "submitRevokeSign")
            @@ ("KeyRevokerByLeakedKey" :> "submitRevokeSign")

\* Who has voted to revoke id at c among the first h transactions: an
\* account calling revokeVote, or a VoteProxy called to vote on c.
Voters(c, id, h) ==
    LET T == chain[c.net] IN
    {T[j].from : j \in CallsAt(c, h, c, "revokeVote", id)}
    \cup {T[j].to : j \in {j2 \in 1..h :
                             /\ T[j2].op = "call" /\ T[j2].fn = ProxyVote[KindOf(c)]
                             /\ Arg(T[j2], 1) = c /\ Arg(T[j2], 2) = id
                             /\ KindOf(T[j2].to) = "VoteProxy"}}

\* isRevoked(id) at c after the first h transactions: a strict majority of
\* the stakeholders voted ("not revoked with only 1 vote", "revoked after 2
\* votes" of three), or a conflict or a leaked-key signature was reported.
Revoked(c, id, h) ==
    IF KindOf(c) \in DOMAIN ProxyVote
    THEN 2 * Cardinality(Voters(c, id, h) \cap Stakeholders(c)) > Cardinality(Stakeholders(c))
    ELSE /\ KindOf(c) \in DOMAIN ReportFn
         /\ CallsAt(c, h, c, ReportFn[KindOf(c)], id) # {}

\* The subscriber, built on a PubSub, subscribed to pub after pub registered
\* with that PubSub: then both hold the EventMgr PubSub made for pub.
Wired(sub, pub) ==
    LET h == Len(chain[sub.net]) IN
    \E r \in CallsAt(sub, h, pub, "register", CtorArg(sub, 1)),
       u \in CallsAt(sub, h, sub, "subscribe", pub) : r < u

\* m_recvData of sub is msg: a publisher it is wired to set msg and then
\* published, after sub subscribed.
Received(sub, msg) ==
    LET h == Len(chain[sub.net])
        T == chain[sub.net] IN
    \E u \in 1..h :
       /\ T[u].op = "call" /\ T[u].to = sub /\ T[u].fn = "subscribe"
       /\ Wired(sub, Arg(T[u], 1))
       /\ \E d \in CallsAt(sub, h, Arg(T[u], 1), "setSendData", msg),
             q \in CallsAt(sub, h, Arg(T[u], 1), "publish", Lit("")) :
             d < q /\ u < q

\* What the view call of a check step returns, as the assert compares it.
Answer(st) ==
    LET c == Resolve(st.key)
        x == Resolve(st.args[1])
        h == Len(chain[net]) IN
    CASE st.fn = "isRevoked" -> Revoked(c, x, h)
      [] st.fn = "inReceipt" -> Revoked(c, x, h) /\ ~Revoked(c, x, h - 1)
      [] st.fn = "m_eventMgrAddr" -> Wired(c, x)
      [] st.fn = "m_recvData" -> Received(c, x)

-----------------------------------------------------------------------------
(* Properties *)

IsValue(v) ==
    v \in [net : Chains, idx : Nat \ {0}, lit : {""}]
    \/ (v.net = "" /\ v.idx = 0 /\ v.lit \in STRING)

TypeOK ==
    /\ proc \in Scripts \cup {"none"}
    /\ net \in Chains
    /\ runs \in 0..MaxRuns /\ faults \in 0..MaxFaults
    /\ proc # "none" => pc \in 0..Len(Steps) + 1
    /\ \A k \in DOMAIN env : IsValue(env[k])
    /\ \A n \in Chains : \A i \in DOMAIN chain[n] :
          /\ chain[n][i].op \in {"deploy", "call"}
          /\ IsValue(chain[n][i].to) /\ chain[n][i].to.lit = ""
          /\ \A j \in DOMAIN chain[n][i].args : IsValue(chain[n][i].args[j])
    /\ \A f \in InfoFiles :
          \/ files[f] = Absent
          \/ files[f].kind = "json" /\ \A k \in DOMAIN files[f].data : IsValue(files[f].data[k])

\* Every assert a script reaches agrees with what the contracts answer on
\* the chain it has built: the votes it cast are from stakeholders of the
\* revoker it asks, a report went to the revoker it then asks about, a
\* receipt checked for the revocation event is that of the revoking call,
\* and the subscriber was subscribed to the registered publisher before the
\* publish.  A test whose calls are wired wrongly fails here.
ChecksHold ==
    (proc # "none" /\ pc \in 1..Len(Steps) /\ Steps[pc].op = "check")
        => Steps[pc].expect = Answer(Steps[pc])

\* The script that writes an info file, and the kind it deploys as key k.
Writer(f) == CHOOSE s \in {"pubsub", "ra", "revoker"} : Script(s).out = f
DeployedKind(steps, k) ==
    steps[CHOOSE i \in DOMAIN steps : steps[i].op = "deploy" /\ steps[i].key = k].kind

\* Each info file, whatever runs failed part way or ran against another
\* node since, describes one complete run of its script: it names every
\* contract that script deploys and nothing else, each a contract of the
\* kind deployed under that name, all on the one node that run used.  The
\* revoker script loads PubSub and DecentServerCertMgr from such files;
\* they need not be on the node it runs against.
InfoFilesDeployed ==
    \A f \in InfoFiles : files[f].kind = "json" =>
        LET d == files[f].data
            steps == Script(Writer(f)).steps IN
        /\ DOMAIN d = DeployKeys(steps)
        /\ \E n \in Networks : \A k \in DOMAIN d :
              d[k].net = n /\ KindOf(d[k]) = DeployedKind(steps, k)

=============================================================================
