----------------------------- MODULE ProxyMain -----------------------------
(***************************************************************************)
(* The life of the Geth proxy process, src/Revoker/tests/End2EndLatency/   *)
(* contracts/GethProxy.py main, across the runs an operator makes of it.   *)
(*                                                                         *)
(* A run loads the test's components_config.json ("conf"), waits until the *)
(* node answers, loads the sending key, constructs GethProxy (which deploys *)
(* a fresh PubSubService, an Oracle on it and a HybridSubscriber on both,   *)
(* records the deployments and asks the Oracle for its event manager),     *)
(* rewrites conf with the three addresses, rewrites the Ethereum client's  *)
(* components_config.json ("ethConf") with the PubSub and its block, binds *)
(* the TCP server and serves.  The finally block writes                    *)
(* GethProxyRecords.json when a GethProxy was constructed.                 *)
(*                                                                         *)
(* USE_GANACHE is False, so StartGanache and StopGanache return at once.   *)
(* What a request does on the wire is GethProxy.tla; here a served request *)
(* is a transaction to the Oracle or the Subscriber.  A block holds one    *)
(* transaction, so a contract's address, its deploy block and the index of *)
(* its transaction on the chain are the same number.                       *)
(***************************************************************************)
EXTENDS Naturals, Sequences

\* A regime is a record:
\*   faults     "raise": a node call, a key or config load, or the bind
\*              raises; "kill": the process is killed at any point
\*   maxFaults  how many faults a behaviour may contain
\*   maxRuns    how many times the operator starts the proxy
\*   maxTx      how many requests the proxy serves in all
CONSTANT Regimes

\* The regime of a behaviour, chosen at the start and never changed.
VARIABLE regime

Faults == regime.faults
MaxFaults == regime.maxFaults
MaxRuns == regime.maxRuns
MaxTx == regime.maxTx

ASSUME \A r \in Regimes :
    /\ r.faults \subseteq {"raise", "kill"}
    /\ {r.maxFaults, r.maxRuns, r.maxTx} \subseteq Nat

NoAddr == 0
Torn == [kind |-> "torn", data |-> <<>>]
Json(d) == [kind |-> "json", data |-> d]
Parses(f) == f.kind = "json"

\* conf['PubSub']: PubSubAddr, PublisherAddr, SubscriberAddr.
Conf(p, o, s) == [pubsub |-> p, publisher |-> o, subscriber |-> s]
\* ethConf['PubSub']: PubSubAddr, StartBlock.
EthConf(p, b) == [pubsub |-> p, start |-> b]
\* self.deploymentRec: the block of each deployment.
DepRec(p, o, s) == [pubsub |-> p, oracle |-> o, subscriber |-> s]

VARIABLES
    chain,      \* the transactions on the chain, one per block: [name, args]
    conf,       \* components_config.json of the latency test
    ethConf,    \* components_config.json of the Ethereum client
    recs,       \* build/GethProxyRecords.json: absent, torn or JSON
    nodeUp,     \* the node at --geth-addr answers
    pc,         \* where main is, "off" when no proxy runs
    pubSubAddr, \* main's pubSubAddr
    dep,        \* the addresses DeployContracts has so far: [pubsub, oracle, subscriber]
    depRec,     \* gethProxy.deploymentRec
    txRec,      \* gethProxy.transactionRec: blocks of the transactions made
    made,       \* gethProxy is not None
    runs, faults, served

vars == <<regime, chain, conf, ethConf, recs, nodeUp, pc, pubSubAddr, dep,
          depRec, txRec, made, runs, faults, served>>

Absent == [kind |-> "absent", data |-> <<>>]

\* Groups for UNCHANGED.
files == <<conf, ethConf, recs>>
proxy == <<pubSubAddr, dep, depRec, txRec, made>>
env == <<regime, nodeUp, runs>>

\* As B3_project_config.py leaves them: both configs name the PubSub of
\* the pipeline's deployment, which is on the chain at address 1.
Init ==
    /\ regime \in Regimes
    /\ chain = <<[name |-> "PubSubService", args |-> <<>>]>>
    /\ conf = Json(Conf(1, NoAddr, NoAddr))
    /\ ethConf = Json(EthConf(1, 1))
    /\ recs = Absent
    /\ nodeUp \in BOOLEAN
    /\ pc = "off"
    /\ pubSubAddr = NoAddr
    /\ dep = DepRec(NoAddr, NoAddr, NoAddr)
    /\ depRec = DepRec(NoAddr, NoAddr, NoAddr)
    /\ txRec = <<>>
    /\ made = FALSE
    /\ runs = 0 /\ faults = 0 /\ served = 0

CanFail(f) == f \in Faults /\ faults < MaxFaults
Fail == faults' = faults + 1

\* The node comes up (and stays up).
NodeStarts ==
    /\ ~nodeUp /\ nodeUp' = TRUE
    /\ UNCHANGED <<regime, runs, pc, chain, files, proxy, faults, served>>

\* The operator starts the proxy: argparse, then `with open(CONF_FILE_PATH)`
\* and json.load, then pubSubAddr from it.  A torn file raises here, before
\* the try, so nothing else of main runs.
Start ==
    /\ pc = "off" /\ runs < MaxRuns
    /\ runs' = runs + 1 /\ made' = FALSE
    /\ dep' = DepRec(NoAddr, NoAddr, NoAddr)
    /\ IF Parses(conf)
       THEN pc' = "connect" /\ pubSubAddr' = conf.data.pubsub
       ELSE UNCHANGED <<pc, pubSubAddr>>
    /\ UNCHANGED <<regime, nodeUp, chain, files, depRec, txRec, faults, served>>

\* The try block raises: main goes to its finally.
Raise ==
    /\ CanFail("raise") /\ Fail /\ pc' = "final"

\* Mutant: the node is asked once, and main raises when it is down.
ConnectOnce ==
    /\ pc = "connect" /\ pc' = IF nodeUp THEN "key" ELSE "final"
    /\ UNCHANGED <<env, chain, files, proxy, faults, served>>

\* `while not w3.is_connected(): time.sleep(1)`: it waits for the node,
\* with no limit.
Connect ==
    /\ pc = "connect" /\ nodeUp /\ pc' = "key"
    /\ UNCHANGED <<env, chain, files, proxy, faults, served>>

\* SetupPrivKey: SetupSendingAccount loads the key file.
SetupPrivKey ==
    /\ pc = "key"
    /\ \/ pc' = "pubsub" /\ UNCHANGED faults
       \/ Raise
    /\ UNCHANGED <<env, chain, files, proxy, served>>

\* Mutant: the address taken is one past the receipt's.
DeployNextAddr(k, c, next) ==
    /\ \/ /\ chain' = Append(chain, c)
          /\ dep' = [dep EXCEPT ![k] = Len(chain) + 2]
          /\ pc' = next /\ UNCHANGED faults
       \/ Raise /\ chain' \in {chain, Append(chain, c)} /\ UNCHANGED dep
    /\ UNCHANGED <<env, files, pubSubAddr, depRec, txRec, made, served>>

\* EthContractHelper.DeployContract of contract c under key k of dep: it
\* sends the transaction and waits for the receipt.  It raises before the
\* transaction is sent, or after it is mined (waiting for the receipt), when
\* the contract is on the chain and main never learns its address.
Deploy(k, c, next) ==
    /\ \/ /\ chain' = Append(chain, c)
          /\ dep' = [dep EXCEPT ![k] = Len(chain) + 1]
          /\ pc' = next /\ UNCHANGED faults
       \/ Raise /\ chain' \in {chain, Append(chain, c)} /\ UNCHANGED dep
    /\ UNCHANGED <<env, files, pubSubAddr, depRec, txRec, made, served>>

\* GethProxy.__init__, DeployContracts: pubSub is a contract, not a str
\* (LoadContracts always loads PubSubService), so a new PubSub is
\* deployed, then the Oracle on it, then the HybridSubscriber on both.
DeployPubSub ==
    pc = "pubsub" /\ Deploy("pubsub", [name |-> "PubSubService", args |-> <<>>], "oracle")

DeployOracle ==
    pc = "oracle" /\ Deploy("oracle", [name |-> "Oracle", args |-> <<dep.pubsub>>], "subscriber")

DeploySubscriber ==
    /\ pc = "subscriber"
    /\ Deploy("subscriber", [name |-> "HybridSubscriber", args |-> <<dep.pubsub, dep.oracle>>],
              "eventMgr")

\* Mutant: deploymentRec's subscriber entry copied from the oracle's.
ConstructCopyPaste ==
    /\ pc = "eventMgr"
    /\ depRec' = DepRec(dep.pubsub, dep.oracle, dep.oracle)
    /\ txRec' = <<>>
    /\ \/ pc' = "openConf" /\ made' = TRUE /\ UNCHANGED faults
       \/ Raise /\ UNCHANGED made
    /\ UNCHANGED <<env, chain, files, pubSubAddr, dep, served>>

\* The rest of __init__: deploymentRec from the receipts, transactionRec
\* empty, then GetEventMgrAddr calls the Oracle.  If that call raises,
\* __init__ raises and gethProxy stays None.
Construct ==
    /\ pc = "eventMgr"
    /\ depRec' = DepRec(dep.pubsub, dep.oracle, dep.subscriber)
    /\ txRec' = <<>>
    /\ \/ pc' = "openConf" /\ made' = TRUE /\ UNCHANGED faults
       \/ Raise /\ UNCHANGED made
    /\ UNCHANGED <<env, chain, files, pubSubAddr, dep, served>>

\* Mutant: pubSubAddr keeps the address read from the old config.
OpenConfKeepAddr ==
    /\ pc = "openConf"
    /\ conf' = Torn /\ pc' = "dumpConf"
    /\ UNCHANGED <<env, chain, ethConf, recs, proxy, faults, served>>

\* Update the test's config: pubSubAddr becomes the new PubSub's address,
\* conf['PubSub'] gets it and the Oracle's and Subscriber's; then
\* open(CONF_FILE_PATH, 'w') truncates the file ...
OpenConf ==
    /\ pc = "openConf"
    /\ pubSubAddr' = dep.pubsub
    /\ conf' = Torn /\ pc' = "dumpConf"
    /\ UNCHANGED <<env, chain, ethConf, recs, dep, depRec, txRec, made, faults, served>>

\* ... and json.dump fills it.
DumpConf ==
    /\ pc = "dumpConf"
    /\ conf' = Json(Conf(pubSubAddr, dep.oracle, dep.subscriber))
    /\ pc' = "loadEth"
    /\ UNCHANGED <<env, chain, ethConf, recs, proxy, faults, served>>

\* Update the Ethereum client's config: json.load it (a torn file raises,
\* and main goes to its finally) ...
LoadEthConf ==
    /\ pc = "loadEth"
    /\ pc' = IF Parses(ethConf) THEN "openEth" ELSE "final"
    /\ UNCHANGED <<env, chain, files, proxy, faults, served>>

\* ... set PubSubAddr to pubSubAddr and StartBlock to the PubSub's
\* deployedBlockNum, open(DEGETH_CONF_FILE_PATH, 'w') ...
OpenEthConf ==
    /\ pc = "openEth"
    /\ ethConf' = Torn /\ pc' = "dumpEth"
    /\ UNCHANGED <<env, chain, conf, recs, proxy, faults, served>>

\* ... and json.dump.
DumpEthConf ==
    /\ pc = "dumpEth"
    /\ ethConf' = Json(EthConf(pubSubAddr, dep.pubsub))
    /\ pc' = "bind"
    /\ UNCHANGED <<env, chain, conf, recs, proxy, faults, served>>

\* socketserver.TCPServer((HOST_ADDR, HOST_PORT), ...) binds, which raises
\* when the port is in use; then serve_forever.
Bind ==
    /\ pc = "bind"
    /\ \/ pc' = "serve" /\ UNCHANGED faults
       \/ Raise
    /\ UNCHANGED <<env, chain, files, proxy, served>>

\* The handler serves a request: PublishData calls the Oracle's
\* onDataAvailable, TransactData the Subscriber's onTransaction, and the
\* receipt's block goes into transactionRec.  When waiting for the receipt
\* raises, the handler answers with the error and goes on serving; the
\* transaction may be on the chain but is not recorded.
Serve ==
    /\ pc = "serve" /\ served < MaxTx
    /\ \E call \in {[name |-> "onDataAvailable", args |-> <<dep.oracle>>],
                    [name |-> "onTransaction", args |-> <<dep.subscriber>>]} :
          \/ /\ chain' = Append(chain, call)
             /\ txRec' = Append(txRec, Len(chain) + 1)
             /\ UNCHANGED faults
          \/ /\ CanFail("raise") /\ Fail
             /\ chain' = Append(chain, call) /\ UNCHANGED txRec
    /\ served' = served + 1
    /\ UNCHANGED <<env, pc, files, pubSubAddr, dep, depRec, made>>

\* The operator stops the server with Ctrl-C: KeyboardInterrupt leaves
\* serve_forever and main goes to its finally.
Interrupt ==
    /\ pc = "serve" /\ pc' = "final"
    /\ UNCHANGED <<env, chain, files, proxy, faults, served>>

\* finally: StopGanache returns at once; if gethProxy is not None,
\* open(GethProxyRecords.json, 'w') truncates the records ...
Finally ==
    /\ pc = "final"
    /\ IF made THEN recs' = Torn /\ pc' = "dumpRec" ELSE pc' = "off" /\ UNCHANGED recs
    /\ UNCHANGED <<env, chain, conf, ethConf, proxy, faults, served>>

\* ... and json.dump writes deploymentRec and transactionRec.
DumpRecords ==
    /\ pc = "dumpRec"
    /\ recs' = Json([deployments |-> depRec, transactions |-> txRec])
    /\ pc' = "off"
    /\ UNCHANGED <<env, chain, conf, ethConf, proxy, faults, served>>

\* The process is killed: no finally runs.  Killed between an open(..., 'w')
\* and its json.dump, the file stays truncated.
Kill ==
    /\ pc # "off" /\ CanFail("kill") /\ Fail
    /\ pc' = "off"
    /\ UNCHANGED <<env, chain, files, proxy, served>>

\* The operator has made every run.
Done ==
    /\ pc = "off" /\ runs = MaxRuns
    /\ UNCHANGED vars

\* A step of a running proxy that nobody else causes.
Step ==
    \/ Connect \/ SetupPrivKey \/ DeployPubSub \/ DeployOracle \/ DeploySubscriber
    \/ Construct \/ OpenConf \/ DumpConf \/ LoadEthConf \/ OpenEthConf \/ DumpEthConf
    \/ Bind \/ Finally \/ DumpRecords

Next == NodeStarts \/ Start \/ Step \/ Serve \/ Interrupt \/ Kill \/ Done

\* The node comes up; a running proxy runs on; the operator restarts a
\* proxy that stopped.  Serving and Ctrl-C are up to clients and the
\* operator.
Fairness == WF_vars(NodeStarts) /\ WF_vars(Step) /\ WF_vars(Start)

Spec == Init /\ [][Next]_vars /\ Fairness

-----------------------------------------------------------------------------
(* Properties *)

Addrs == 0..Len(chain)
IsFile(f, IsData(_)) == f \in {Absent, Torn} \/ (Parses(f) /\ IsData(f.data))

TypeOK ==
    /\ regime \in Regimes
    /\ chain \in Seq([name : {"PubSubService", "Oracle", "HybridSubscriber",
                              "onDataAvailable", "onTransaction"},
                      args : Seq(Addrs)])
    /\ IsFile(conf, LAMBDA d : d \in [pubsub : Addrs, publisher : Addrs, subscriber : Addrs])
    /\ IsFile(ethConf, LAMBDA d : d \in [pubsub : Addrs, start : Addrs])
    /\ IsFile(recs, LAMBDA d : d.deployments \in [pubsub : Addrs, oracle : Addrs, subscriber : Addrs]
                              /\ d.transactions \in Seq(Addrs))
    /\ nodeUp \in BOOLEAN
    /\ pc \in {"off", "connect", "key", "pubsub", "oracle", "subscriber", "eventMgr",
               "openConf", "dumpConf", "loadEth", "openEth", "dumpEth", "bind",
               "serve", "final", "dumpRec"}
    /\ {pubSubAddr} \cup {dep[k] : k \in DOMAIN dep} \cup {depRec[k] : k \in DOMAIN depRec} \subseteq Addrs
    /\ txRec \in Seq(Addrs) /\ made \in BOOLEAN
    /\ runs \in 0..MaxRuns /\ faults \in 0..MaxFaults /\ served \in 0..MaxTx

\* Address a holds a contract named n constructed with arguments args.
Deployed(a, n, args) == a \in 1..Len(chain) /\ chain[a] = [name |-> n, args |-> args]

\* Addresses p, o, s are a PubSub, an Oracle on it, a Subscriber on both.
Wired(p, o, s) ==
    /\ Deployed(p, "PubSubService", <<>>)
    /\ Deployed(o, "Oracle", <<p>>)
    /\ Deployed(s, "HybridSubscriber", <<p, o>>)

\* While the proxy serves, whatever earlier runs left behind (a kill between
\* the two config rewrites, contracts deployed by a run that raised): the
\* latency test's config names a wired PubSub, Oracle and Subscriber, the
\* ones the proxy sends its transactions to; and the Ethereum client's config
\* names the same PubSub and the block it was deployed in.
ServingConfigured ==
    pc = "serve" =>
        /\ Parses(conf) /\ Parses(ethConf)
        /\ Wired(conf.data.pubsub, conf.data.publisher, conf.data.subscriber)
        /\ conf.data.publisher = dep.oracle /\ conf.data.subscriber = dep.subscriber
        /\ ethConf.data = EthConf(conf.data.pubsub, conf.data.pubsub)

\* Whenever GethProxyRecords.json parses, it describes one proxy: its
\* deployments are a wired PubSub, Oracle and Subscriber, and every
\* transaction it lists is on the chain, a call of the Oracle's
\* onDataAvailable or the Subscriber's onTransaction.
RecordsMatchChain ==
    Parses(recs) =>
        LET d == recs.data.deployments IN
        /\ Wired(d.pubsub, d.oracle, d.subscriber)
        /\ \A i \in DOMAIN recs.data.transactions :
              LET t == recs.data.transactions[i] IN
              \/ Deployed(t, "onDataAvailable", <<d.oracle>>)
              \/ Deployed(t, "onTransaction", <<d.subscriber>>)

\* An operator who restarts the proxy whenever it stops, with the node
\* eventually up, eventually has it serving.
RestartServes == <>(pc = "serve")

\* The above when no run is killed: raises alone (a node call, the key file,
\* the port in use) never keep a restarted proxy from serving.
ServesUnlessKilled == "kill" \notin Faults => RestartServes

=============================================================================
