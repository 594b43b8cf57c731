# TLA+ models of Decentagram's scripts and Geth proxy

This directory holds TLA+ models of the Python code of the repository, and
TLC checks them. The code is mostly deployment and test scripts. Each script
connects to an Ethereum node, deploys prebuilt contracts, calls them,
asserts on their answers, and writes JSON files that the next script reads.
Around the scripts there are:

- a long-running Geth proxy with its client;
- the harness that starts and stops Ganache for the gas and contract tests;
- a formatter of test inputs;
- a patch generator for vendored files.

The contracts themselves are not in the repository.

`PROJECT.json` lists:

- every component and its status;
- every run and its mutants;
- the map from each definition to the source lines it translates;
- the findings;
- the hazards the code is exposed to, each at the line where it bites.

## The system and the modules

| Part | Source | Module | Status |
|---|---|---|---|
| Geth proxy request server | `Revoker/tests/End2EndLatency/contracts/GethProxy.py` | `Framing`, `GethProxy`, `MC_GethProxy` | modelled: the request loop; the rest of the file is in `ProxyMain` or dead code |
| Geth proxy startup, config rewrite, shutdown | `GethProxy.py` `main`, `GethProxy.__init__` | `ProxyMain`, `MC_ProxyMain` | modelled |
| Geth proxy client | `.../GethProxyTester.py` | `GethProxy`, `MC_GethProxy` | modelled |
| Deploy, config rewrite, report | `B2_contracts_deploy.py`, `B3_project_config.py`, `B4_report_credential.py` | `DeployPipeline`, refined to `ConfigPipeline` | modelled |
| Network compatibility tests | `*/utils/NetworkCompatibility.py` (pubsub, ra, revoker) | `ContractScripts` | modelled |
| Gas evaluation and Ganache tests | `GasEvalEnclaveRevoker.py`, `GasEvalKeyRevoker.py`, `GanacheContractTests.py` | `GanacheHarness` (the process), `ContractScripts` (the calls) | modelled |
| Test-input formatter | `libs/ra-onchain/utils/FormatTestInput.py` | `FormatHex`, `MC_Algorithms` | partly: not the certificate and key commands |
| Patch generator | `libs/ra-onchain/libs/GenPatchFiles.py` | `GenPatch`, `MC_GenPatch` | modelled |
| Evaluation plots | `Ethereum/tests/EvalPlot.py` | `EvalPlot`, `MC_Algorithms` | modelled: the data, not the drawing |
| Fee calculators, `_Meta.py`, contracts | | none | not modelled (see below) |

The parts interact only through files and the chain:

- B2 writes `contract_deploy_info.json`, which B3 and B4 read.
- B3 rewrites five `components_config.json` files.
- The Geth proxy, at startup, deploys its own PubSub, Oracle and
  Subscriber and rewrites two of those files: the latency test's and the
  Ethereum client's.
- The NetworkCompatibility scripts write info files for the next script.
- The Ganache scripts run their calls against the node their harness
  started.

### `Framing`, `GethProxy`, `MC_GethProxy`: the proxy and its clients

`Framing` holds the wire format as operators:

- an 8-byte little-endian length, then JSON;
- the exact `json.dumps` length of each message shape;
- which bytes a `recv` returns at a stream position.

Header bytes are exact, so a short read of a header decodes to the wrong
length, as it does in the code. All payload bytes are one value.

`GethProxy` models:

- the single server thread: `ServerAccept`, `ServerRecvHdr`,
  `ServerRecvBody`, `HandleRequest`, `CallContract`, `Respond`, `CloseConn`;
- each client's `DoRequest`: `ClientConnect` to `ClientRecvBody`, then
  `ClientExit`;
- the chain and `transactionRec`.

A call may succeed, raise before its transaction is sent, or raise while it
waits for the receipt. With `ShortReads = TRUE`, a `recv` may return any
non-empty prefix of what it asked for, as TCP allows.

`MC_GethProxy` runs two clients:

- the tester's real three requests;
- a 256-byte request, whose header's low byte is 0.

`GethProxy.cfg` checks two regimes in one run. A `regime` variable is
chosen in `Init` and never changes:

- `"ideal"`: whole reads, calls that succeed, well-formed parameters;
- `"faults"`: calls that raise before or after sending, and a client
  with a faulty script.

`CompletesWhenAssumed` states that every client completes in the ideal
regime. The safety properties are checked in both.
`GethProxy_shortread.cfg` is the `"short"` regime alone.

### `ProxyMain`, `MC_ProxyMain`: the proxy process across restarts

`ProxyMain` models `main` of `GethProxy.py` step by step, over the runs an
operator makes of it:

- `Start`: `json.load` of the latency test's config, before the `try`;
- `Connect`: the poll loop, which waits for the node with no limit;
- `SetupPrivKey`;
- `DeployPubSub`, `DeployOracle`, `DeploySubscriber`: `DeployContracts`,
  each of which may raise before its transaction is sent or after it is
  mined;
- `Construct`: the rest of `__init__`, `deploymentRec`, `transactionRec`
  and `GetEventMgrAddr`, whose raise leaves `gethProxy` as `None`;
- `OpenConf`/`DumpConf` and `LoadEthConf`/`OpenEthConf`/`DumpEthConf`:
  the two config rewrites, each a truncating `open('w')` then
  `json.dump`;
- `Bind`, which raises when the port is in use;
- `Serve`: `PublishData`/`TransactData`;
- `Interrupt`: Ctrl-C;
- `Finally`/`DumpRecords`: `GethProxyRecords.json`, written only when
  `gethProxy` is not `None`.

`Kill` may end the process at any step, and then no `finally` runs. The
node comes up on its own (`NodeStarts`). `USE_GANACHE` is `False` in the
repository, so `StartGanache` and `StopGanache` return at once. The
configs start as B3 leaves them, naming B2's PubSub. One transaction per
block makes an address, a deploy block and a chain index one number.

### `DeployPipeline` and `ConfigPipeline`: B2 → B3 → B4

`DeployPipeline` models the three scripts:

- `B2Deploy`: the six constructors, with their wiring;
- `B2Open`/`B2Dump`: `open('w')` then `json.dump` of the info file;
- `LoadInfo`;
- `B3Open`/`B3Dump` for each of the five config files;
- `B4Call`, through `RevokeFn`.

A script may raise, or be killed at any step, including between `open`
and `dump`.

`ConfigPipeline` is what the pipeline promises:

- a deployment is *published* (the info file);
- the configs come to agree only on the published deployment (*configured*);
- revocations go only to the published deployment (*reported*).

`DeployPipeline` implements it under `Abstract == INSTANCE ConfigPipeline
WITH ...`:

- `PublishedId`: the PubSub address of a parsable info file;
- `ConfiguredId`: the PubSub that the Ethereum client's config names, when
  the revoker's config names a revoker built on it, or `Mixed` otherwise;
- `ReportedIds`: the PubSub of each reported revoker.

### `GanacheHarness`: starting and stopping Ganache

This module models `main` of the Ganache scripts:

- `StartGanache`, which may fail, or start a node that dies while it boots;
- the connect loop `while not w3.is_connected(): sleep(1)`;
- the test calls, any of which may raise;
- `StopGanache`: terminate, then SIGINT and `wait(2)` until 20 s have
  passed, then `kill()`.

Time is a capped clock of seconds. What Ganache does is chosen when it
starts (when it listens, whether it crashes) and when it gets a signal
(its exit delay, or that it ignores the signal).

### `ContractScripts`: the contract tests as call sequences

Each script is a list of steps built from the source:

- `Deploy` with its constructor arguments;
- `CallFrom` a transaction;
- `Check` of a view call and the value the script asserts.

The step lists are `PubSubRunTests`, `RaRunTests`, `RevokerRunTests` and
the others, one definition per test function. The actions are:

- `Start`: pick a node; Ganache starts empty;
- `LoadInfo`: read the info files the script needs;
- `Exec`: one step, which may raise before or after its transaction is
  on the chain;
- `Finish`: write the info file.

The contracts are not in the repository. What a view returns is given by
rules taken from the scripts' asserts and the repository's description:

- a revoker is revoked by a majority of its stakeholders' votes, or by a
  report;
- a receipt contains the revocation event exactly when that transaction
  flipped the state;
- a subscriber receives data when it subscribed, through the registered
  publisher, before the publish.

These rules are assumptions. The checks show that every script is wired
consistently with them.

### `FormatHex`: hex literals for Solidity

This module models:

- `FormatHex`: 64-digit lines of `hex"..."`;
- `FormatBytes`;
- `FormatInt`, which drops `0x` and pads to an even length;
- `FormatHexStrOrFile`, with Python slicing (`PySlice`) and the `-1` end.

A reference reader parses what is printed: it uses `SplitLines`,
`IsLiteral` and `Canonical`, all `RECURSIVE`. `MC_Algorithms` supplies the
negative `--start`/`--end` values.

### `EvalPlot`: evaluation results to plotted series

`EvalPlot` models what `main` does with one result file:

- `Read`: `ReadResults`. It checks its three asserts (`Aligned`), merges
  the three runs into sorted triples, and drops them to single values when
  every x got three equal values.
- `Throughput`: `ToThroughputResults`. It divides `NUM_OF_BLOCKS` by
  each value and sorts again. `inData[0]` raises `IndexError` on a file
  with no points, and a 0-second run raises `ZeroDivisionError`.
- `Plot`: `PlotGraph`, keeping the arrays `GenerateFigure` hands to
  plotly (`Trace`): x, y and the error bars above and below.

A Python float is kept exact as a fraction, and an int or list y value is a
tagged record. The reference side computes the least, greatest and median
of the three runs directly from the file, with no sorting.

### `MC_Algorithms`: the two pure algorithms in one run

`MC_Algorithms` instantiates `FormatHex` and `EvalPlot`. A `part`
variable, chosen in `Init`, picks one of them for the whole behaviour, so
the two input sets add up instead of multiplying.

### `GenPatch`, `MC_GenPatch`: patches of vendored files

`GenPatch` models `main` over `configs['fileSrc']` and each step of
`_GenPatchForSingleFile`:

- `Check`: the first-line version check. Like the code, it is a
  substring test (`Occurs`) of the commit in the patch's first line
  (`FirstLine`), which names the download `<name>.<commit><ext>`;
- `Fetch`: the download, which may raise, and the temporary file. The
  temporary files on disk are kept per commit, as their names are;
- `Compare`: the sha256 comparison and `diff -u` into the patch;
- `Remove`: `os.remove` of the temporary file.

Between runs, the developer's `Change` edits a vendored file or moves it to
another commit. `Kill` may strike at any point, including while either file
is being written. A patch is abstracted to four facts:

- the commit its first line names;
- the upstream content it was made from;
- the vendored content it was made from;
- whether it was written whole.

## Runs

| Run | Checks | Result |
|---|---|---|
| `proxy_pass` | `TypeOK`, `FramingAligned`, `HeaderDecodeExact`, `RecordSound`, `ResponseMatchesRequest`, `OkImpliesExecuted`, `CompletesWhenAssumed`, `NoClientHangs` | pass, 11,933 states |
| `shortread_violation` | `AllClientsComplete` under short reads | violated |
| `pipeline_pass` | `TypeOK`, `InfoWired`, `ConfigCoherent`, `ReportOnConfigured`, `AbstractSpec` (refinement), `PipelineCompletes` | pass, 7,098 states |
| `pipeline_torn_violation` | `PipelineCompletes` with kills | violated |
| `ganache_pass` | `TypeOK`, `StopLeavesNoGanache`, `ScriptTerminates` | pass, 395 states |
| `ganache_bootfail_violation` | `ScriptTerminates` when Ganache dies while booting | violated |
| `scripts_pass` | `TypeOK`, `ChecksHold`, `InfoFilesDeployed` | pass, 51,607 states |
| `algorithms_pass` | `LiteralsDecode`, `PlotMatchesRuns`, `RaisesExactlyOnEdges` | pass, 24,553 states |
| `genpatch_pass` | `TypeOK`, `PatchesNameCommit`, `StrayDownloadsPatched` | pass, 10,789 states |
| `genpatch_torn_violation` | `PatchesWhole` with kills | violated |
| `proxymain_pass` | `TypeOK`, `ServingConfigured`, `RecordsMatchChain`, `ServesUnlessKilled` | pass, 12,015 states |
| `proxymain_torn_violation` | `RestartServes` with kills | violated |

What the properties say:

**Proxy:**

- `ResponseMatchesRequest`: the j-th reply a client reads answers its own
  j-th request, while two clients interleave on the one server thread.
- `OkImpliesExecuted`: an `ok` reply means the transaction is on the chain,
  at the contract that method routes to.
- `RecordSound`: the record is in chain order and lists every `ok`. A
  raise after sending may leave a transaction unrecorded, and the run
  reaches that case.
- `FramingAligned`: every `recv(8)` starts at a frame boundary.
- `HeaderDecodeExact`: the decoded `dataLen` is the true length modulo
  256^k, for the k header bytes received.
- `CompletesWhenAssumed` and `NoClientHangs`: in the ideal regime every
  client finishes its script (`AllClientsComplete`); in every regime no
  client blocks forever.

**Pipeline:**

- `InfoWired`: a parsable info file describes one whole B2 run, with each
  constructor given the addresses the same file lists.
- `ConfigCoherent`: after B3, the configured revoker was built on the
  configured PubSub.
- `ReportOnConfigured`: run in order, B4 reports to the configured
  revoker, through the function that contract has.
- `PipelineCompletes`: an operator who runs the scripts in order and
  reruns a failed one gets through the pipeline.
- `AbstractSpec`: any order of scripts, raises and kills refines
  `ConfigPipeline`.

`Pipeline.cfg` checks two regimes, chosen in `Init` as for the proxy: any
order with a raise or a kill, and in order with two raises. The two
properties about the operator's order hold only for the in-order regime.

**Proxy process:**

- `ServingConfigured`: while the proxy serves, the latency test's config
  names a wired PubSub, Oracle and Subscriber, the ones the proxy sends
  to. The Ethereum client's config names the same PubSub and its deploy
  block. This holds whatever earlier runs left behind: a kill between the
  two rewrites, or contracts of a run that raised.
- `RecordsMatchChain`: a parsable `GethProxyRecords.json` describes one
  wired deployment, and every transaction it lists is a call on the chain
  to that deployment's Oracle or Subscriber.
- `ServesUnlessKilled`: without kills, an operator who restarts the proxy
  whenever it stops eventually has it serving (`RestartServes`).

**Ganache harness:**

- `StopLeavesNoGanache`: `StopGanache` returns within 22 s of being
  called, and Ganache has exited, even if Ganache ignores the signals.
- `ScriptTerminates`: `main` ends and leaves no Ganache process.

**Contract scripts:**

- `ChecksHold`: every assert a script reaches expects what the contracts
  answer on the chain it built, across reruns, a raise part way through,
  and info files from earlier runs.
- `InfoFilesDeployed`: each info file describes one complete run of its
  script. It names every contract that script deploys and nothing else,
  each of the kind deployed under that name, and all on the node that run
  used. This holds after reruns that failed part way or ran against the
  other node. The revoker script loads two addresses from such files,
  which may be on another node than the one it runs against.

**Formatter:**

- `LiteralsDecode`: the printed lines are Solidity hex literals with an
  even number of at most 64 digits. Together they give back the input:
  - for empty input;
  - for exact multiples of 32 bytes;
  - for odd digit counts;
  - for cut positions inside, past and before the ends.

**Evaluation plots:**

- `PlotMatchesRuns`: each series has a point at every x of the runs. The
  time is drawn at the median of the three runs, with error bars reaching
  exactly their least and greatest. The throughput is drawn at
  `NUM_OF_BLOCKS` over that median, with bars reaching `NUM_OF_BLOCKS`
  over the greatest and least time. With no bars, the runs agree
  everywhere.
- `RaisesExactlyOnEdges`: a file raises exactly when:
  - it breaks an assert (`AssertionError`);
  - it has no points (`IndexError`);
  - it has a 0-second run (`ZeroDivisionError`).

**Patch generator:**

- `PatchesNameCommit`: after a run of `main` through every file, each file
  that differs from its upstream has a patch that names its commit and was
  made from that commit's upstream file. This holds even when earlier runs
  raised, were killed, or saw another commit.
- `PatchesWhole`: such a patch is also whole.
- `StrayDownloadsPatched`: after such a run, the download of a file's
  current commit is still on disk only where the patch already names that
  commit. A download left by a kill before the patch was written is
  fetched again and removed by the next run. Only a kill between writing
  the patch and `os.remove` leaves one, because the version check then
  returns before the removal.

## Findings

`findings` in `PROJECT.json` has the details.

1. **Short reads (`shortread_violation`).** The proxy and its tester
   assume that one `recv` returns a whole header or payload. A short read
   has two effects:
   - the server drops a well-formed request without a reply;
   - the tester fails on a partial reply.
2. **Torn config (`pipeline_torn_violation`).** B3 rewrites a config in
   place: `open('w')`, then `json.dump`. A kill between the two leaves the
   file unparseable, and every later B3 run raises on it, so the pipeline
   never completes.
3. **Boot hang (`ganache_bootfail_violation`).** The connect loop neither
   checks `poll()` nor has a deadline. If Ganache exits while it boots,
   the script loops forever. The same loop is in all three Ganache
   scripts.
4. **Torn patch (`genpatch_torn_violation`).** The skip check reads only
   the patch's first line. A kill within `f.write(stdout)` leaves a
   truncated patch that names the commit, and every later run skips it.
   The same trace also leaves the downloaded file for good, because
   `os.remove` comes after the skip point. `StrayDownloadsPatched` shows
   that this is the only way a download of the current commit is left.
5. **Torn proxy config (`proxymain_torn_violation`).** `main` rewrites the
   latency test's config in place. A kill between `open('w')` and
   `json.dump` leaves it empty. Every later start raises in `json.load`
   before the `try`, and B3 cannot repair it either, because it loads the
   same file first.

## Mutants

Every property of a passing run has a mutant in `PROJECT.json`. A mutant
is a plausible bug in a mapped definition, and TLC finds it under the
run's own config. Examples:

- the unknown method answered `ok`;
- the length taken from the first header byte;
- B3 writing the revoker config without the PubSub;
- B4 with its two revoker functions swapped;
- B3 reading a stale info file;
- `StopGanache` giving up at the deadline instead of killing;
- a key vote cast where an enclave vote is meant;
- the same account voting twice;
- `FormatInt` not padding an odd digit count;
- a network-compatibility script dumping the loaded contracts into its
  info file too;
- the patch check accepting a patch of any commit;
- the proxy's `pubSubAddr` left at the old config's value;
- `deploymentRec`'s subscriber entry copied from the oracle's;
- the connect loop replaced by a single check;
- the throughputs left unsorted;
- the x-axis assert of `ReadResults` dropped;
- `os.remove` indented into the patch branch of GenPatch.

## Bounds

- **Proxy:** two clients are the fewest that interleave on the single
  server thread. A 256-byte request is the smallest whose cut header
  decodes to 0.
- **Pipeline:**
  - up to 4–5 script runs, which is enough for B2, B3 and B4 plus a rerun;
  - one or two faults, which can strike at any step.
- **Proxy process:** two regimes. Raises only: two raises, three runs
  and two served requests. A raise or a kill: two faults, three runs and
  one request. That is enough for a kill inside either rewrite, or a
  raise after a contract is mined, followed by a restart.
- **Harness:** boot times and exit delays around the 1 s poll and the
  2 s wait. The 20 s deadline is reached with a clock capped past it.
- **Scripts:** all eight scripts, two external nodes plus Ganache, up to
  three runs and one raise. That is enough for a rerun after a partial
  run to meet the chain that run left behind. It is also enough for the
  pubsub, ra and revoker scripts to run on different nodes.
- **Formatter:** every byte value, every length up to 70 bytes, every
  number up to 4200, and numbers of up to 130 hex digits. This covers the
  0-, 1-, 2- and 3-line boundaries at 32 and 64 bytes.
- **Evaluation plots:** every file of three runs with 0, 1 or 2 points,
  at x values 0 and 50, with 0, 1, 2 or 4 seconds each, plus one file
  breaking each assert. That covers the empty file, a 0 time, runs that
  agree at every x, runs that agree at some x only, and ties within a
  triple.
- **Patch generator:**
  - two files and two commits;
  - vendored content that can equal the second commit's upstream file;
  - three runs, two changes and one fault.
  - The commits `c1` and `c2` do not occur in each other's first lines,
    as full commit hashes do not. With overlapping tags such as `v1` and
    `v1.1`, the substring check would accept the other commit's patch.
    The commits `sources.json` names are not in the repository, so no
    run takes such tags; this is listed as a hazard.

  That is enough for a fault in one run and recovery in a later one, after
  an edit or a commit move.

## Fairness

- **`GethProxy`:** weak fairness on the server thread and on each client,
  which are straight-line code.
- **`DeployPipeline`:** weak fairness on the running script's step. In
  the in-order runs there is also weak fairness on the operator starting
  the next script, which models an operator who follows the documented
  order.
- **`ProxyMain`:** weak fairness on the running process's steps, on the
  node coming up, and on the operator restarting a proxy that stopped.
  Serving and Ctrl-C are not fair: they are up to clients and the
  operator.
- **`GanacheHarness`:** weak fairness on `main`, which is the only thread.
- **`ContractScripts`, `FormatHex`, `EvalPlot`, `GenPatch`:** safety only, so no
  fairness is assumed.

## Not modelled

- **The contracts.** They are not in the repository. Their behaviour
  enters `ContractScripts` only as the stated rules.
- **Web3 and the node.** Calls are reduced to their outcomes.
- **`HighFeeCalculator` / `LowFeeCalculator`.** These are never called:
  `ExpFeeCalculator` is PyEthHelper's `DefaultFeeCalculator`, which is
  not in the repository. Their comments disagree with their formulas:
  `LowFeeCalculator` takes 1%, not 2%, and its result is 0 below 100 wei.
  As dead code, this is not listed as a hazard.
- **The drawing and saving of figures in `EvalPlot`.** This is layout and
  file output.
- **The `USE_GANACHE = True` branch of the proxy.** It is dead code in
  the repository. It would connect to the argparse default formatted
  before `StartGanache` changed the address. Because the branch never
  runs, this is not listed as a hazard.
- **The proxy composed with B3.** Both write the Ethereum client's config.
  Nothing in the repository says which setup must hold after both have
  run, so this is a hazard and not a run.
- **The certificate and key commands of `FormatTestInput`.** These are
  crypto library calls and printing.
- **`_Meta.py`.** It holds version constants only.
- **The composition of `GanacheHarness` and `ContractScripts`.** The
  harness's test steps stand for the script's calls. The two are checked
  separately.

Next steps: a composed Ganache script, with harness and calls in one
module.
