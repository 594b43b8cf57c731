--------------------------- MODULE DeployPipeline ---------------------------
(***************************************************************************)
(* The deployment pipeline of src/: three scripts an operator runs one     *)
(* after another, which talk to each other only through files.             *)
(*                                                                         *)
(*  B2_contracts_deploy.py   deploys six contracts, each constructor       *)
(*                           taking addresses of earlier ones, and writes  *)
(*                           their addresses to contract_deploy_info.json. *)
(*  B3_project_config.py     reads that file and rewrites five             *)
(*                           components_config.json files in turn.         *)
(*  B4_report_credential.py  reads that file and reports the problematic   *)
(*                           enclave to the revoker contract it names.     *)
(*                                                                         *)
(* A run may raise where it calls the node or opens a file, and the        *)
(* process may be killed at any point, also between open(path, 'w'), which *)
(* truncates the file, and json.dump, which fills it.                      *)
(***************************************************************************)
EXTENDS Naturals, Sequences, Functions, TLC

\* A regime is a record of the operator's choices and the environment:
\*   revoker    the --revoker value the operator gives B3 and B4
\*   faults     the faults that may happen: "raise", "kill"
\*   maxFaults  how many faults a behaviour may contain
\*   maxRuns    how many script runs a behaviour may contain
\*   inOrder    the operator runs B2, B3, B4, rerunning one that failed
CONSTANT Regimes

\* The regime of a behaviour, chosen at the start and never changed.
VARIABLE regime

RevokerArg == regime.revoker
Faults == regime.faults
MaxFaults == regime.maxFaults
MaxRuns == regime.maxRuns
InOrder == regime.inOrder

Scripts == {"B2", "B3", "B4"}

\* B2 main: the outInfo keys in deployment order.
Keys == <<"PubSub", "IASRootCertMgr", "IASReportCertMgr", "DecentServerCertMgr",
          "EnclaveRevokerByConflictMsg", "EnclaveRevokerByLeakedKey">>

\* The contract each Deploy* function deploys under its key.
ContractName ==
    ("PubSub" :> "PubSubService") @@ ("IASRootCertMgr" :> "IASRootCertMgr")
    @@ ("IASReportCertMgr" :> "IASReportCertMgr")
    @@ ("DecentServerCertMgr" :> "DecentServerCertMgr")
    @@ ("EnclaveRevokerByConflictMsg" :> "RevokerByConflictMsg")
    @@ ("EnclaveRevokerByLeakedKey" :> "RevokerByLeakedKey")

\* Mutant: the DecentServerCertMgr is given the IAS root manager's address.
ArgKeysRootForReport ==
    ("PubSub" :> <<>>) @@ ("IASRootCertMgr" :> <<>>)
    @@ ("IASReportCertMgr" :> <<"IASRootCertMgr">>)
    @@ ("DecentServerCertMgr" :> <<"IASRootCertMgr">>)
    @@ ("EnclaveRevokerByConflictMsg" :> <<"PubSub", "DecentServerCertMgr">>)
    @@ ("EnclaveRevokerByLeakedKey" :> <<"PubSub", "DecentServerCertMgr">>)

\* Whose addresses each constructor takes (the IAS root certificate DER
\* that IASRootCertMgr takes is data and left out).
ArgKeys ==
    ("PubSub" :> <<>>) @@ ("IASRootCertMgr" :> <<>>)
    @@ ("IASReportCertMgr" :> <<"IASRootCertMgr">>)
    @@ ("DecentServerCertMgr" :> <<"IASReportCertMgr">>)
    @@ ("EnclaveRevokerByConflictMsg" :> <<"PubSub", "DecentServerCertMgr">>)
    @@ ("EnclaveRevokerByLeakedKey" :> <<"PubSub", "DecentServerCertMgr">>)

\* B3 main: the config files, in the order it rewrites them.
B3Files == <<"ethCli", "ethThr", "revoker", "e2e", "probApp">>
Files == {"info"} \cup Range(B3Files)

NoAddr == 0            \* an address no contract of this chain has
\* The contents of a file: missing, torn (truncated or partly written, so
\* json.load raises), or the JSON text of data d.
Absent == [kind |-> "absent", data |-> <<>>]
Torn == [kind |-> "torn", data |-> <<>>]
Json(d) == [kind |-> "json", data |-> d]

\* The fields of a config file the pipeline writes: PubSub.PubSubAddr
\* (with its StartBlock) and Publisher.Addr.  Host and port fields are
\* rewritten with the same values on every run and left out.
Conf(p, r) == [pubsub |-> p, revoker |-> r]

ASSUME \A r \in Regimes :
    /\ r.revoker \in {"EnclaveRevokerByConflictMsg", "EnclaveRevokerByLeakedKey"}
    /\ r.faults \subseteq {"raise", "kill"}
    /\ r.maxFaults \in Nat /\ r.maxRuns \in Nat /\ r.inOrder \in BOOLEAN

VARIABLES
    chain,      \* contracts on the chain: [name, args]; an address is an index
    reports,    \* revocation transactions B4 sent: [to, fn]
    files,      \* files[f]: contents of file f
    proc,       \* the script running, or "none"
    pc,         \* where it is
    idx,        \* B2: the key it deploys; B3: the file it rewrites
    out,        \* B2: outInfo, key -> address
    dep,        \* B3 / B4: the depInfo / contractInfo it loaded
    buf,        \* B3: the config it is about to json.dump
    status,     \* status[s]: how the last run of s ended
    runs,       \* script runs started
    faults      \* faults that happened

vars == <<regime, chain, reports, files, proc, pc, idx, out, dep, buf, status, runs, faults>>

Parses(c) == c.kind = "json"

\* json.load(open(path)) of the file succeeds.
LoadConfig(f) == Parses(files[f])

\* B3's Upd* calls for one file: UpdPubSubConf on the Ethereum client
\* config, UpdRevokerConf on the revoker's, UpdDecentServerConf (host and
\* port, left out) on all.
UpdateNoPubSub(f, conf, info) ==
    IF f = "revoker" THEN [conf EXCEPT !.revoker = info[RevokerArg]] ELSE conf

Update(f, conf, info) ==
    CASE f = "ethCli"  -> [conf EXCEPT !.pubsub = info["PubSub"]]
      [] f = "revoker" -> [conf EXCEPT !.revoker = info[RevokerArg]]
      [] OTHER         -> conf

\* Mutant: B4 picks the function of the other revoker.
RevokeFnSwapped(r) ==
    IF r = "EnclaveRevokerByConflictMsg" THEN "submitRevokeSign" ELSE "reportConflicts"

\* B4 main: the revoker function it calls for --revoker r.
RevokeFn(r) ==
    IF r = "EnclaveRevokerByConflictMsg" THEN "reportConflicts" ELSE "submitRevokeSign"

\* The script the operator runs next when following the pipeline.
Pending ==
    IF status["B2"] # "ok" THEN "B2"
    ELSE IF status["B3"] # "ok" THEN "B3"
    ELSE IF status["B4"] # "ok" THEN "B4"
    ELSE "none"

Init ==
    /\ regime \in Regimes
    /\ chain = <<>>
    /\ reports = <<>>
    /\ files = [f \in Files |-> IF f = "info" THEN Absent ELSE Json(Conf(NoAddr, NoAddr))]
    /\ proc = "none"
    /\ pc = "idle"
    /\ idx = 1
    /\ out = <<>>
    /\ dep = <<>>
    /\ buf = Conf(NoAddr, NoAddr)
    /\ status = [s \in Scripts |-> "never"]
    /\ runs = 0
    /\ faults = 0

\* The script exits: normally, or by an exception that escapes main.
Finish(result) ==
    /\ proc' = "none"
    /\ pc' = "idle"
    /\ status' = [status EXCEPT ![proc] = result]

\* The operator starts a script: w3 connects (the poll loop) and
\* SetupSendingAccount loads the key.
StartScript(s) ==
    /\ proc = "none"
    /\ runs < MaxRuns
    /\ InOrder => s = Pending
    /\ proc' = s
    /\ pc' = IF s = "B2" THEN "deploy" ELSE "loadInfo"
    /\ idx' = 1
    /\ out' = <<>>
    /\ runs' = runs + 1
    /\ UNCHANGED <<regime, chain, reports, files, dep, buf, status, faults>>

\* The process dies before its next step: an exception (a node call, a
\* file open) or, with "kill", a kill.  Only a kill can strike between
\* open(path, 'w') and json.dump.
Crash ==
    /\ proc # "none"
    /\ faults < MaxFaults
    /\ IF pc = "dump" THEN "kill" \in Faults ELSE Faults # {}
    /\ faults' = faults + 1
    /\ Finish("failed")
    /\ UNCHANGED <<regime, chain, reports, files, idx, out, dep, buf, runs>>

-----------------------------------------------------------------------------
(* B2_contracts_deploy.py *)

\* DeployAndLoadContract for Keys[idx]: DeployContract sends the
\* transaction and waits for the receipt, whose address goes into outInfo.
\* Waiting for the receipt may raise once the contract is on the chain.
B2Deploy ==
    LET k == Keys[idx]
        c == [name |-> ContractName[k],
              args |-> [j \in 1..Len(ArgKeys[k]) |-> out[ArgKeys[k][j]]]]
    IN
    /\ proc = "B2" /\ pc = "deploy"
    /\ chain' = Append(chain, c)
    /\ \/ /\ out' = (k :> Len(chain) + 1) @@ out
          /\ idx' = idx + 1
          /\ pc' = IF idx = Len(Keys) THEN "open" ELSE "deploy"
          /\ UNCHANGED <<status, faults, proc>>
       \/ /\ "raise" \in Faults /\ faults < MaxFaults
          /\ faults' = faults + 1
          /\ Finish("failed")
          /\ UNCHANGED <<out, idx>>
    /\ UNCHANGED <<reports, files, dep, buf, runs>>

\* open(contract_deploy_info.json, 'w') truncates the file.
B2Open ==
    /\ proc = "B2" /\ pc = "open"
    /\ files' = [files EXCEPT !["info"] = Torn]
    /\ pc' = "dump"
    /\ UNCHANGED <<chain, reports, proc, idx, out, dep, buf, status, runs, faults>>

\* json.dump(outInfo, outF) and the script ends.
B2Dump ==
    /\ proc = "B2" /\ pc = "dump"
    /\ files' = [files EXCEPT !["info"] = Json(out)]
    /\ Finish("ok")
    /\ UNCHANGED <<chain, reports, idx, out, dep, buf, runs, faults>>

-----------------------------------------------------------------------------
(* B3_project_config.py and B4_report_credential.py *)

\* Mutant: a depInfo loaded by an earlier run is used again.
LoadInfoStale(s) ==
    /\ proc = s /\ pc = "loadInfo"
    /\ IF LoadConfig("info")
       THEN /\ dep' = IF dep = <<>> THEN files["info"].data ELSE dep
            /\ pc' = IF s = "B3" THEN "open" ELSE "call"
            /\ UNCHANGED <<proc, status>>
       ELSE Finish("failed") /\ UNCHANGED dep
    /\ UNCHANGED <<chain, reports, files, idx, out, buf, runs, faults>>

\* Mutant: the file object is kept instead of what json.load returns.
LoadInfoRaw(s) ==
    /\ proc = s /\ pc = "loadInfo"
    /\ IF LoadConfig("info")
       THEN /\ dep' = files["info"]
            /\ pc' = IF s = "B3" THEN "open" ELSE "call"
            /\ UNCHANGED <<proc, status>>
       ELSE Finish("failed") /\ UNCHANGED dep
    /\ UNCHANGED <<chain, reports, files, idx, out, buf, runs, faults>>

\* depInfo = LoadConfig(args.info): a missing or torn file raises.
LoadInfo(s) ==
    /\ proc = s /\ pc = "loadInfo"
    /\ IF LoadConfig("info")
       THEN /\ dep' = files["info"].data
            /\ pc' = IF s = "B3" THEN "open" ELSE "call"
            /\ UNCHANGED <<proc, status>>
       ELSE Finish("failed") /\ UNCHANGED dep
    /\ UNCHANGED <<chain, reports, files, idx, out, buf, runs, faults>>

\* conf = LoadConfig(path); Upd*(conf, ...); then WriteConfig opens the
\* file with 'w', truncating it.
B3Open ==
    LET f == B3Files[idx] IN
    /\ proc = "B3" /\ pc = "open"
    /\ IF LoadConfig(f)
       THEN /\ buf' = Update(f, files[f].data, dep)
            /\ files' = [files EXCEPT ![f] = Torn]
            /\ pc' = "dump"
            /\ UNCHANGED <<proc, status>>
       ELSE Finish("failed") /\ UNCHANGED <<buf, files>>
    /\ UNCHANGED <<chain, reports, idx, out, dep, runs, faults>>

\* Mutant: the loop does not move on to the next file.
B3DumpStuck ==
    /\ proc = "B3" /\ pc = "dump"
    /\ files' = [files EXCEPT ![B3Files[idx]] = Json(buf)]
    /\ IF idx = Len(B3Files)
       THEN Finish("ok") /\ UNCHANGED idx
       ELSE pc' = "open" /\ UNCHANGED <<idx, proc, status>>
    /\ UNCHANGED <<chain, reports, out, dep, buf, runs, faults>>

\* WriteConfig: json.dump(conf, f); the next file, or the end of main.
B3Dump ==
    /\ proc = "B3" /\ pc = "dump"
    /\ files' = [files EXCEPT ![B3Files[idx]] = Json(buf)]
    /\ IF idx = Len(B3Files)
       THEN Finish("ok") /\ UNCHANGED idx
       ELSE pc' = "open" /\ idx' = idx + 1 /\ UNCHANGED <<proc, status>>
    /\ UNCHANGED <<chain, reports, out, dep, buf, runs, faults>>

\* LoadContract(contractInfo[args.revoker]) and RevokeByMessage or
\* RevokeByLeakedKey: CallContractFunc sends the transaction and waits for
\* the receipt, which may raise once the transaction is on the chain.
B4Call ==
    LET r == [to |-> dep[RevokerArg], fn |-> RevokeFn(RevokerArg)] IN
    /\ proc = "B4" /\ pc = "call"
    /\ reports' = Append(reports, r)
    /\ \/ Finish("ok") /\ UNCHANGED faults
       \/ /\ "raise" \in Faults /\ faults < MaxFaults
          /\ faults' = faults + 1
          /\ Finish("failed")
    /\ UNCHANGED <<chain, files, idx, out, dep, buf, runs>>

-----------------------------------------------------------------------------

Step ==
    /\ \/ B2Deploy \/ B2Open \/ B2Dump
       \/ LoadInfo("B3") \/ B3Open \/ B3Dump
       \/ LoadInfo("B4") \/ B4Call
    /\ UNCHANGED regime

\* Every run allowed has been made, or the pipeline is through.
Done ==
    /\ proc = "none"
    /\ runs = MaxRuns \/ (InOrder /\ Pending = "none")
    /\ UNCHANGED vars

Next == (\E s \in Scripts : StartScript(s)) \/ Step \/ Crash \/ Done

\* A running script runs on; the operator following the pipeline goes on
\* to the next script.
Fairness == WF_vars(Step) /\ WF_vars(InOrder /\ \E s \in Scripts : StartScript(s))

Spec == Init /\ [][Next]_vars /\ Fairness

-----------------------------------------------------------------------------
(* Properties *)

Addrs == 0..Len(chain)
IsInfo(i) == DOMAIN i = Range(Keys) /\ \A k \in Range(Keys) : i[k] \in Addrs
IsConf(c) == c \in [pubsub : Addrs, revoker : Addrs]
IsContents(c, IsData(_)) == c \in {Absent, Torn} \/ (c.kind = "json" /\ IsData(c.data))

TypeOK ==
    /\ regime \in Regimes
    /\ chain \in Seq([name : Range(ContractName), args : Seq(Addrs)])
    /\ reports \in Seq([to : Addrs, fn : {"reportConflicts", "submitRevokeSign"}])
    /\ IsContents(files["info"], IsInfo)
    /\ \A f \in Range(B3Files) : IsContents(files[f], IsConf) /\ files[f] # Absent
    /\ proc \in Scripts \cup {"none"}
    /\ pc \in {"idle", "deploy", "open", "dump", "loadInfo", "call"}
    /\ idx \in 1..Len(Keys) + 1
    /\ dep = <<>> \/ IsInfo(dep)
    /\ status \in [Scripts -> {"never", "ok", "failed"}]
    /\ runs \in 0..MaxRuns /\ faults \in 0..MaxFaults

\* The contract at address a is the one B2 deploys under key k.
IsKind(a, k) == a \in 1..Len(chain) /\ chain[a].name = ContractName[k]

\* Whenever contract_deploy_info.json parses, it describes one whole run
\* of B2: every key names a contract of its kind on the chain, and each was
\* constructed with the addresses the same file gives the contracts it
\* depends on (IASReport on IASRoot, DecentServer on IASReport, the
\* revokers on PubSub and DecentServer).  A file written key by key, or a
\* constructor given the wrong manager, breaks it.
InfoWired ==
    LET info == files["info"].data
        ArgsOf(k) == chain[info[k]].args
    IN
    Parses(files["info"]) =>
        /\ \A k \in Range(Keys) : IsKind(info[k], k)
        /\ ArgsOf("IASReportCertMgr") = <<info["IASRootCertMgr"]>>
        /\ ArgsOf("DecentServerCertMgr") = <<info["IASReportCertMgr"]>>
        /\ \A k \in {"EnclaveRevokerByConflictMsg", "EnclaveRevokerByLeakedKey"} :
               ArgsOf(k) = <<info["PubSub"], info["DecentServerCertMgr"]>>

\* Once B3 has run to its end, and until it runs again, the revoker that
\* the revoker's config names was constructed on the PubSub the Ethereum
\* client's config names: the two components B3 configures talk about the
\* same deployment.
ConfigCoherent ==
    (proc # "B3" /\ status["B3"] = "ok") =>
        LET r == files["revoker"].data.revoker IN
        /\ IsKind(r, RevokerArg)
        /\ chain[r].args[1] = files["ethCli"].data.pubsub

\* When the operator runs B2, B3, B4 in order, every revocation B4 sends
\* goes to the revoker contract the revoker's config names, through the
\* function that contract has.  (B4 reads contract_deploy_info.json, not
\* the config, so run out of order it can report to a revoker no
\* component is configured with.)
ReportOnConfigured ==
    InOrder => \A i \in 1..Len(reports) :
        /\ reports[i].to = files["revoker"].data.revoker
        /\ IsKind(reports[i].to, IF reports[i].fn = "reportConflicts"
                                 THEN "EnclaveRevokerByConflictMsg"
                                 ELSE "EnclaveRevokerByLeakedKey")

\* An operator who runs B2, B3, B4 in order and reruns the script that
\* failed gets through the pipeline: B4 eventually reports with the
\* configuration coherent.
PipelineCompletes == InOrder => <>(status["B4"] = "ok" /\ proc = "none" /\ ConfigCoherent)

-----------------------------------------------------------------------------
(* Refinement of ConfigPipeline: a deployment is named by its PubSub
   address, and a revoker belongs to the deployment of the PubSub it was
   constructed on. *)

PublishedId ==
    IF Parses(files["info"]) THEN files["info"].data["PubSub"] ELSE NoAddr

ConfiguredId ==
    LET p == files["ethCli"]
        r == files["revoker"]
    IN
    IF ~Parses(p) \/ ~Parses(r) THEN -1
    ELSE IF p.data.pubsub = NoAddr /\ r.data.revoker = NoAddr THEN NoAddr
    ELSE IF IsKind(r.data.revoker, RevokerArg)
            /\ chain[r.data.revoker].args[1] = p.data.pubsub
         THEN p.data.pubsub
    ELSE -1

ReportedIds == [i \in 1..Len(reports) |-> chain[reports[i].to].args[1]]

Abstract == INSTANCE ConfigPipeline
    WITH published <- PublishedId, configured <- ConfiguredId, reported <- ReportedIds

\* The pipeline implements ConfigPipeline: B2 publishes whole deployments,
\* B3 makes the configs agree only on the deployment the description names
\* when it runs, and B4 reports only to that deployment's revoker.
AbstractSpec == Abstract!Spec

=============================================================================
