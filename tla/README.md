# A TLA+ model of kroma-prover

kroma-prover makes zero-knowledge proofs of the blocks of the Kroma rollup. Its
core is a `Prover` value that turns block traces into proofs; around it are a
JSON-RPC server, command line programs and a C library. These modules model what
the program does around the cryptography: who shares which file, in which order
files are created, truncated and written, which checks come first, what a panic,
a crash or a full disk leaves behind, what a caller gets, which blocks a proof is
about, and on which state a block is replayed.

A proof is abstracted to the trace it was made from and the seed of the random
number generator it was made with, or, where programs of different folders meet, to the
setup of its parameters; bytes on disk are such values.

Contents: [parts](#1-the-parts-of-the-system), [modules](#2-the-modules),
[runs](#3-the-runs), [fairness](#4-fairness), [disagreements](#5-where-code-and-comments-disagree),
[proofs](#6-what-is-proved), [not modelled](#7-what-is-not-modelled), [plan](#8-the-plan).

## 1. The parts of the system

| part | source | state it keeps | operations | correct when |
|---|---|---|---|---|
| Seed file | `zkevm/src/utils.rs:119-148` | a file of 16 bytes, shared by all programs, no lock | `load_or_create_seed`, `load_seed`, `create_seed` | everyone who gets a seed gets the same; an operator's seed survives; the file settles |
| KZG parameter files | `zkevm/src/utils.rs:19-118` | one file per degree, shared, no lock | `load_or_create_params`, `load_kzg_params`, `load_params`, `create_params` | nobody takes a partial file for parameters; makers end with parameters |
| Prover value | `zkevm/src/prover.rs` | proving keys by circuit, `agg_pk`, `debug_dir`, the RNG | prove a circuit, convert, aggregate, make the Solidity verifier, store | the keys a later item needs are still there; a proof is about the blocks it claims |
| Batch capacity check | `zkevm/src/circuit/builder.rs:58-126` | the rows so far | `check_batch_capacity` | what is accepted fits, no more is cut than necessary |
| Witness builder | `zkevm/src/circuit/builder.rs:128-271, 416-470` | state before the batch, code database, witness | `block_traces_to_witness_block`, `build_codedb` | each block is replayed on the state its own proofs attest |
| Prover server | `prover-server/src/{server_main,prove,spec}.rs` | three threads; the files under `./out_proof/<height>/` | `spec`, `prove`, `create_proof` and what it calls | every call is answered as its request deserves; files are coherent |
| Mock client | `prover-server/src/mock_client.rs` | its own timeout | one call, given up after two hours | the server copes with a caller that has left, and with its retry |
| `prove` binary | `bin/src/prove.rs` | a `HashMap` of traces, one `Prover` for all | the loop over traces | directories stay apart; a rerun repairs what a killed run left |
| `setup` binary | `bin/src/setup.rs` | - | makes the parameters of `DEGREE` and the seed | as the two files above |
| Verifier, `verify` binary | `zkevm/src/verifier.rs`, `bin/src/verify.rs` | parameters of both degrees, keys by circuit, the key of the aggregation | read the files of `prove`, verify one after the other | what `prove` has finished verifies; proofs of one host verify on another |
| C library | `ffi/src` | a `static mut` prover and verifier, the logger of the process | `init_prover`, `create_agg_proof`, `create_agg_proof_multi`, `init_verifier`, `verify_agg_proof` | a process has one role; a prover can be made from the folder; a warm prover takes calls from several threads |
| Download script | `download_params.sh` | both parameter files | remove, fetch, fetch | the folder ends with one setup, unless it is in use meanwhile |
| Mock testnet binary | `bin/src/mock_testnet.rs` | the batch it is at, its traces | request a batch, build its witness, report | a failing batch does not touch the others; the loop ends for want of batches only |
| Trace types | `types/src` | - | conversion from JSON | straight-line data, only `mint.unwrap()` and the nonce are seen |
| Utilities | `utils/src`, `prover-server/src/utils.rs`, `zkevm/src/io.rs` | - | logging, timing, storing a file | storing a file is create, then write |

How the parts meet:

```
 mock client --RPC--> server thread --+--> check of the request
                                      +--> load_kzg_params      (parameter files)
 prove binary ------------------------+--> load_or_create_seed  (seed file)
 setup binary -- makes both files     +--> Prover: prove, convert, aggregate
                                      |      capacity check -> witness builder -> circuit
                                      +--> ./out_proof/<height>/...   <-- verify binary
 host program --C--> library: PROVER, VERIFIER --> load_or_create_params <-- download script
 mock testnet --> a node, a rollup explorer;  witness builder
```

The threads of the server share nothing in memory: each request builds its own
`Prover`. They share the disk, and there nothing is locked: not the seed file,
not the parameter files, not the output directory, which is named after the block
number only. So these are the hard behaviours:

* *races on files*: existence tests followed by creation; `File::create` truncating
  what another thread or program has written or is reading;
* *a static shared without a lock*: threads of a host call one `Prover` through `&mut`, and
  several hosts and a script make and replace one parameter folder;
* *crashes*: every file is created under its final name and written afterwards;
* *panics as error handling*: `unwrap` ends a job half way through its files;
* *callers that leave and come back* while their first request still runs;
* *forks*: two traces of one height write the same names;
* *a value reused*: keys and `debug_dir` of a `Prover` outlast a trace;
* *order*: state proofs are merged backwards, nonces are looked up before a replay;
* *boundaries*: the row limit, empty batches, blocks without transactions.

`PROJECT.json` lists each at its line, with the properties that cover it.

## 2. The modules

| module | models | state and actions |
|---|---|---|
| `SeedFile` | the seed file | `seedFile` is the content, `seedPc`/`seedOf` each caller's place and seed. The existence test, the read, `File::create` and `write_all` are one action each |
| `SeedCallers` | programs and threads that call it for ever, and die | `Call`, `Return`, `Crash` over `SeedFile` |
| `Prover` | what a `Prover` does for a trace | pure: programs (`TargetProgram`, `AggProgram`, `WriteAggProof`, `WriteSolidity`) as sequences of items; `KeysAfter`, `ItemFails`, `FileBytes` say what an item does |
| `ProveService` | the server's promise | abstract: `request`, `answer`, `faults`, the calls that met no whole seed file (`unlucky`), and of the server's directory whether parameters and seed are ready; no threads, files or keys |
| `ProverServer` | the server | `EXTENDS Prover`, `INSTANCE SeedFile` with the threads as callers, `INSTANCE ProveService` as what it implements |
| `ProveCli` | the `prove` binary | `EXTENDS Prover`, `INSTANCE SeedFile` with one caller; `debugDir` and `keys` outlast a trace, `disk` outlasts a run |
| `ParamsFile` | one parameter file | the file as a sequence of pieces, a writer's own offset, holes |
| `BatchProof` | capacity check and the batch path of the prover | one action per branch of `check_batch_capacity`, then `create_target_circuit_proof_batch` |
| `VerifyCli` | the `verify` binary and its `Verifier` | `EXTENDS ProveCli` and reads its `disk` while the `prove` binary runs; `unchecked` proofs, `verdicts` |
| `WitnessBuilder` | `block_traces_to_witness_block` | the state as nonces; merging, code database, nonces of deposits, replay; no specification of its own |
| `MockTestnet` | the mock testnet program | `INSTANCE WitnessBuilder`, which it calls for one batch after the other |
| `Library` | the C library in its hosts, the parameter folder, the download script | `host` has the statics of each process, `thread` each thread's place in a call, `file` the folder; `EXTENDS Prover` for the items of an aggregation |
| `MC...` | instances for TLC | traces, commands, batches |
| `SeedProofs`, `ServerProofs`, `ServiceProofs`, `BatchProofs`, `ParamsProofs`, `CliProofs`, `LibraryProofs`, `TestnetProofs` | theorems | section 6 |

Definitions that end in `_Something` under the comment "Mutant" are not part of any
specification. Each is a plausible bug in the definition that follows it, and
shows which property notices it.

### Seed file

`load_or_create_seed` tests `Path::exists` and takes one of two branches; nothing
holds the answer still. `SeedExists` and `SeedMissing` are that test; `LoadSeed` and
`LoadSeedFails` the `File::open` with `read_exact`; `CreateSeed` the truncation;
`WriteSeed` the write of the constant, 16 bytes in one call. The file starts absent, or whole:
either made by an earlier run ("fixed") or put there beforehand ("operator"). A file an operator
puts in place *while* the program runs is not modelled.

### Server

`StartJob`, `Refuse` and `AnswerSpec` are the `prove` handler up to `create_proof` and the `spec`
handler; `Admissible` is the conjunction of its four checks. A trace whose chain id is no u64 does not parse
(`types/src/eth.rs:8-18`), so it is one of the traces refused for their format, and the `as_u64` of the last check always succeeds. `create_proof` is then the
stages `params`, `seed` and `run` of a thread: `LoadParams`/`ParamsMissing`,
`LoadOrCreateSeed`/`SeedUnreadable`, `HeightMissing`/`BuildProver`, and for each item of the
program of the request `Compute`/`ComputeFails` or `OpenFile` and `WriteFile`, at last
`AnswerProof`. A step of proving takes seconds to hours, yet touches nothing that is
shared, so it is one action. Every error is a panic (`unwrap` at `prove.rs:38-46, 79-141`),
which ends the job and drops the connection: `Panic`. `StoreFails` is a full disk, `Crash`
the death of the process, with what is on disk staying there.

`ProveService` is what a caller may rely on. A connection is dropped without an answer only for a reason: the trace cannot be
proved, the configuration cannot give what is asked (`Forfeits`: an aggregation under `OPT_MEM`, see `server_opt_mem`), the parameters
are not in place at that moment, the call was served while there was no whole seed file (`MeetNoSeed` marks it as `unlucky`), or the server
or its disk failed. An answer has the reasons that are written at its action.

The JSON-RPC library is external. What is assumed of it: a free thread takes any queued
call, a panicking handler closes its connection and leaves the thread usable, and a
caller that hangs up does not stop the handler that works for it. When a file is written over bytes
another thread has put there since it was truncated, the result is the writer's bytes
alone or a mixture (`WriteFile`).

Only the `vk` file of a target circuit is independent of trace and seed (it comes from `C::empty()`).
All other files, the aggregation's key and contract among them, are treated as depending on both.

### Prove binary

`Options` are the three states of `--evm`, `--state` and `--agg`; `Program` is what the body of the
loop does under them. `TakeTrace(t)` chooses *any* trace left: the loop is over a
`HashMap`. `Launch` starts the command, or starts it again after a panic or a kill,
over the disk the last run left.

### Verify binary

`VerifyCli` lets a `verify` command run at any time beside the `prove` command; commands that name the files of one trace run while
the loop of `prove` is at another. It panics when the parameters,
the key or a proof cannot be read (`VkUnreadable`, `ProofUnreadable`), which an empty file and a file of another format
cannot: `--evm` and `--state` want what `create_target_circuit_proof_batch` writes into `debug_dir`, `--agg` wants
`full_proof.data`. A proof is good for the circuit that it was made for (`VerifyOne`): target keys are made from
`C::empty()` on both sides. Keys are generated anew for each run, so that `target_circuit_vks`
outlasts no directory and is left out.

### C library

Every `unwrap` and assertion is taken to end the host with all its threads (`Panics`), and hosts are
started again. This is an assumption: on the toolchain of the repository (nightly-2022-12-10) a panic that leaves an `extern "C"` function is
undefined, and of a host that lives on after one nothing is said. `BeginProver` and `BeginVerifier` start with `env_logger::init`, which
works once in a process (`LoggerSet` is the second time). `from_fpath` loads or makes the two parameter files one after the other, reads the
seed (it does not make one: `SeedMissing`) and asserts that the two files are of one setup (`AssertionFails`). `Setups` are the origins of a
file: the ceremony (fetched), `PARAM_SEED`, or a number drawn for that one file, so that with an empty `PARAM_SEED` a folder
that was just made never passes the assertion; and `Holed`, for parameters read from a file with a hole, which may pass it.

How a file comes about piece by piece is in `ParamsFile`. Here it is absent, partial, of full length with a hole, or of one
setup. A host that creates a file while another writes it cuts that writer (`CreateParams`, the place `"cut"`). The one that was cut
writes on at its own offset (`WriteCut`), and what lies below it is lost unless somebody else fills it: if the other one dies first, the file has its full
length and a hole for good, the length check accepts it, and every later host proves and verifies with it. Whether two have
been making one file at one time is kept in `overlap`, and what is claimed of setups is claimed where that did not happen.

A call of `create_agg_proof` follows `AggProgram` of `Prover` without its storing items. For each key it looks whether the
key is there, makes it, inserts it, proves with a reference to it: `KeyMissing`, `InsertKey`, `KeyThere`, `ProveItem`. Two threads
of a host in that code are a data race when one of them changes the keys; from then on `raced` holds, anything may be
returned for a proof, and the model records none of it. `create_agg_proof_multi` differs in the number of traces only, which
`BatchProof` models, and has the same actions. A `Verifier` is modelled by the setup of its parameters and of its key, which comes from
any key file, also one kept from before a fetch or made in another folder; `verify` of the
command line does in one go what `init_verifier` and `verify_agg_proof` do.

`FetchBegin`, `FetchFile`, `FetchStops` are the script with its `set -e`; a file that is removed while a host writes it leaves the host
writing to a file that has no name any more (`WriteUnlinked`).

### Mock testnet

The loop of `main` from `PROVE_BEGIN_BATCH` (here 1) to `PROVE_END_BATCH`. In Batch mode one request returns all traces of a
batch; in Block mode the explorer gives a range, and blocks are requested one by one. `NoSuchBatch` is
the end of the loop in Block mode and, since `null` is no sequence of traces, a panic in Batch mode (section 5). The rollup
gets batches while the program runs (`BatchComes`). `BuildStep` is a step of `WitnessBuilder`. `Report` logs success or
failure and goes on; a panic in the builder ends the program.

### Parameter file

Gigabytes are not written in one step: the file is `Chunks` pieces, each writer has its offset,
and a piece that was truncated away below a later one is a hole. `LengthWrong` is the check of
`load_params:71-88`; a maker answers any error of `load_params` by creating the file anew, while
`load_kzg_params` panics. Each maker has a `PARAM_SEED`: the common one, one of its own or none, or one of fewer than the 32 bytes that
`create_params` takes from it, which panics (`SeedTooShort`).

A file can be truncated while it is read. The reader then meets the end of the file in the middle of the points, inside the external
`read_custom` with `RawBytesUnchecked`. Whether that is an error or a panic is for that crate to say, and both are modelled: `ReadEof`, after which a maker creates the
file anew, and `ReadPanics`. Or the file has been written again by then, and the reader goes on in another set. `disturbed` keeps the callers whose file was truncated
while they read it.

### Batch and witness

`BatchProof` starts from any batch and goes through the branches of `check_batch_capacity`;
row counts are data of the blocks. It has both callers of the check: `create_target_circuit_proof_batch`, which mock-proves
first under `MOCK_PROVE` and then proves, and `mock_prove_target_circuit_batch`, which returns after mock proving. `WitnessFails` may happen to any batch that is not
empty: the rows were counted block by block, the witness is built of all.

`WitnessBuilder` keeps of the state only nonces: `ZktrieState::from_trace_with_additional` is an
insertion that replaces earlier values (`Insert`), and the replay of bus-mapping asserts
and increments the sender's nonce (`ReplayTx`, `NoncePanics`). Blocks carry at most one flaw,
one for each way the function can fail.

## 3. The runs

| run | bounds | what it shows |
|---|---|---|
| `seed_file` | 3 callers, 1 crash | `SeedAgreement`: seeds in use at one time are equal; `OperatorSeedKept`: never overwritten; `ShortOnlyInCreation`: only a crash leaves a torn file; `SeedSettles`: the window of truncations closes |
| `seed_race` | 2 callers | *violation* of `SeedReturned` |
| `server_disk` | 2 threads, 2 calls for a super proof or an aggregation of a block or its fork, 1 fault | `TornOnlyInFlight`, `AloneIsCoherent` over up to nine files, `OneSeedOnDisk`; `ComputedProofReturned` when `OPT_MEM` is off |
| `server_service` | 2 threads, 2 calls, one request of every kind, 1 fault, aggregation parameters possibly missing | `ServicePromise`: refinement of `ProveService`, liveness included, so a call is dropped only for a reason; `OnlyProvedOnDisk`; `WorkSurvives` a caller that gave up |
| `server_opt_mem` | 2 aggregations with `OPT_MEM` | *violation* of `ComputedProofReturned` |
| `batch_capacity` | batches of up to 4 of 8 blocks, 2 sub-circuits, limit 3 rows, both functions, both settings of `AUTO_TRUNCATE`, `MOCK_PROVE` and of info logging | `AcceptedFits`, `KeepsLongestFit`, `ProofKeepsTxs`, `ProvedCountHonest`, `PanicOnlyWithoutTxs` |
| `verify_cli` | 4 `prove` commands of up to 3 traces, 3 `verify` commands (the right files of two traces, of one alone, and a file of another format), 1 fault | `TakenAreWhole`, `OwnDirectories`, `CleanRunSucceeds`; `VerifiedOnceTaken`: a right `verify` command finds all good, also while `prove` writes the files of the next trace |
| `params_file` | 2 makers, 1 loader, 2 pieces, 1 fault, each maker's `PARAM_SEED` common, its own or too short | `WholeUnlessOverlap`: parameters are whole unless two write at one time, and of one maker unless the file was truncated under the read; `SettledIsWhole`, `SettledForGood`; `MakersSucceed`: a maker fails for a short `PARAM_SEED`, a fault or such a truncation only |
| `params_hole` | as above, no fault | *violation* of `LoadedIsWhole` |
| `testnet` | 2 batches of up to 3 blocks, 2 accounts, each flaw, the empty batch | `ReplayAgreesWithProofs`, `ChainOfUsers`, `WitnessBuilt`, `EachReported` |
| `witness_nonce` | 1 batch of the same | *violation* of `NonceKnown` |
| `library` | a host with 3 threads and one with 1, one folder | `OneRole`: a process never has a prover and a verifier; `WarmIsSafe`: one call ahead of the threads makes the rest safe; `SetupsAgree`: a prover never meets two setups or a hole, as long as the folder has one source and no two hosts made a file at one time; `RoundTrip`: proofs fit verifiers of every host |

The type invariant of each component is checked in one of its runs (`VerifyTypeOK` includes `ProveCli!TypeOK`, `MockTestnet!TypeOK`
includes `BuilderTypeOK`).

Why the bounds are enough:

* *Threads.* The server has three. The properties about files relate two threads at a
  time, and two give a first job and its retry, or its fork, on the other thread. `SeedFile` is checked with three
  callers and proved for any number, and so are the theorems about the server.
* *Calls.* A retry is another call of the same request; two calls of one request, or of a block and its fork, as a super
  proof and as an aggregation, are among the choices. The second may begin before, during and after the first.
* *Faults.* One fault tears at most one file and kills all threads; what follows is checked from
  every state of that kind. A panic is no fault, and there are as many of them as there are bad traces.
* *Hosts.* Two threads are what a data race takes, a third meets it, and two hosts are what a folder made by another takes; deaths, restarts,
  fetches and calls are not bounded. Where the folder was fetched under a running host, or two hosts made one file at one time, nothing is claimed of
  setups, and the next fetch with no host running starts anew from states the run has anyway. Such states are followed at the files only (`Unspoilt`);
  `OneRole` and `WarmIsSafe` are about the threads of one host, which behave alike whatever the files hold.
* *Batches.* Two of them in `testnet`: one that fails or not, and one after it. The traces of a batch are those of
  up to three blocks with three transactions in all.
* *Pieces.* With two, a hole at the front and a short file are both possible, which are the two ways a
  file can be incomplete.
* *Blocks.* `MAX_INNER_BLOCKS` is 1 as the code stands (`zkevm/src/circuit.rs`); `BatchProof`
  uses 3, since the check is written for any value, with batches of four to exceed it. The witness builder is
  given several blocks by `bin/src/mock_testnet.rs:49` as well, and none by
  `TargetCircuit::empty` (`zkevm/src/circuit.rs:55-60`).
* *Rows.* `2^DEGREE - 256` becomes 4 - 1: blocks that fill the circuit alone, exactly or
  together, in one sub-circuit or in the other.
* *Counters.* `MaxFaults` and `MaxCrashes` are the only bounds in guards. The server's behaviours end with
  the calls of `Calls`, those of the testnet program with `EndBatch`, which is a setting of it; the callers of `SeedCallers` and `ParamsFile` call for ever.

Threads and calls are interchangeable and are reduced by symmetry in `server_disk`
and `server_opt_mem`, the three threads of a host in `library`, which check invariants and step properties only; the
runs with liveness use none.

`AloneIsCoherent` is stated for a job that has not met a fork of its block on another thread. Without
that condition it does not hold: nothing in the code keeps two traces of one height apart. No text in the
repository says that it should, so this is a condition of the property and a hazard, not a finding.

## 4. Fairness

* `ProverServer`: weak fairness of each thread's own steps (`WorkerStep`). A thread of the
  server never waits for another: there is no lock, and a prover runs on by itself. Callers, crashes, disk
  failures and the arrival of parameter files are not fair.
* `ProveService`: none; its liveness is stated as it is meant, a call that waits is answered or given up (`~>`), and is implied by
  the fairness above, which is a half of `ServicePromise`.
* `SeedCallers`, `ParamsFile`: a call that has begun goes on (WF of a caller's steps inside the
  functions). Nobody needs to call, and nobody needs to return to its own program.
* `ProveCli`, `VerifyCli`: a run of each program goes on; nobody needs to launch it, or launch it again. The two are
  programs of their own, hence one WF condition each.
* `MockTestnet`: WF of the program's own steps: it has one thread, which waits for nothing but its requests, and those are answered or
  fail. Nothing forces a request to fail or the rollup to get a batch.
* `BatchProof`, `Library`: none, they have no liveness property.

Deadlock is checked in every run; the actions `AllServed`, `Finished` and `Ended` stand for a
program that is done.

## 5. Where code and comments disagree

1. `seed_race`. `load_or_create_seed` "return random seed by reading from file or generate new one"
   (`zkevm/src/utils.rs:120`). With two callers and no file one may read the file
   after `File::create` and before `write_all` of the other; `read_exact` fails, and in the server
   the request is dropped by the `unwrap` at `prove.rs:42`.
2. `server_opt_mem`. `prove` is to "return zk-proof generated with the trace as an input"
   (`server_main.rs:42`). With `OPT_MEM=true` `convert_target_proof` drops the key of the super circuit
   (`prover.rs:229-233`) that `create_solidity_verifier` unwraps later (`prover.rs:253-257`):
   each aggregation is computed, stored, and never returned.
3. `params_hole`. The same wording as in 1 for `load_or_create_params` (`utils.rs:18`). Two
   programs that create the file at the same time leave, for a while, a file of the full length with a
   hole: the length check passes and unchecked points are read from it. If the one that truncated the file dies, the hole
   stays for good (`WriteCut` of `Library`).
4. `witness_nonce`. The comment at `builder.rs:211-214` says that deposits get "the known nonce
   from state db" so as not to fail an assert. All nonces of a block are looked up before any of its transactions is
   replayed, so a second deposit of one sender in a block fails that assert.

Two more have no run of their own:

5. The wording of 3 again. Two programs find no file; the first makes it, and a third begins to read it; then the second
   truncates it and writes its own. With different or no `PARAM_SEED` the reader returns a part of each set, though no two were writing at one
   time: TLC finds this in 18 states when `p \notin disturbed` is taken out of `WholeUnlessOverlap`.
6. `get_traces_by_batch_api` is to "Return None for no more batches" (`bin/src/mock_testnet.rs:86`). It has no `None` to return: it
   wraps every answer in `Some` (lines 93-97), `null` is an error, and the program panics at lines 38-39 where it should have ended its loop (lines 77-80):
   `NoSuchBatch` of `MockTestnet`. `EachReported` speaks of the loop where it does end.

## 6. What is proved

TLAPS checks these for every value of the constants: any threads, callers, calls, traces,
requests, and any bound on crashes and faults.

| theorem | says |
|---|---|
| `SeedProofs!SeedTypeCorrect` | `SeedCallers!TypeOK`; nobody holds a seed from a short file |
| `SeedProofs!SeedAgreementHolds` | `SeedAgreement` |
| `SeedProofs!OperatorSeedIsKept` | `OperatorSeedKept`, an action property |
| `SeedProofs!ShortOnlyInCreationHolds` | `ShortOnlyInCreation` |
| `ServerProofs!ServerTypeCorrect` | `ProverServer!TypeOK` |
| `ServerProofs!OneSeedOnDiskHolds` | `OneSeedOnDisk` |
| `ServerProofs!TornOnlyInFlightHolds` | `TornOnlyInFlight` |
| `ServiceProofs!OnlyProvedOnDiskHolds` | `OnlyProvedOnDisk` |
| `ServiceProofs!AloneIsCoherentHolds` | `AloneIsCoherent` |
| `ServiceProofs!ComputedProofReturnedHolds` | `ComputedProofReturned`, an action property, unless `OPT_MEM` is set |
| `ServiceProofs!ServiceSafetyHolds` | the server implements `ProveService`, but for liveness |
| `BatchProofs!BatchTypeCorrect` | `BatchProof!TypeOK` |
| `BatchProofs!AcceptedFitsHolds` | `AcceptedFits` |
| `BatchProofs!KeepsLongestFitHolds` | `KeepsLongestFit` |
| `BatchProofs!ProofKeepsTxsHolds` | `ProofKeepsTxs` |
| `BatchProofs!ProvedCountIsHonest` | `ProvedCountHonest` |
| `BatchProofs!PanicOnlyWithoutTxsHolds` | `PanicOnlyWithoutTxs` |
| `ParamsProofs!ParamsTypeCorrect` | `ParamsFile!TypeOK` |
| `ParamsProofs!WholeUnlessOverlapHolds` | `WholeUnlessOverlap` |
| `ParamsProofs!SettledIsWholeHolds` | `SettledIsWhole` |
| `ParamsProofs!SettledForGoodHolds` | `SettledForGood`, an action property |
| `CliProofs!TakenAreWholeHolds` | `TakenAreWhole` |
| `CliProofs!OwnDirectoriesHolds` | `OwnDirectories` |
| `CliProofs!CliTypeCorrect` | `VerifyTypeOK` |
| `CliProofs!VerifyOnlyReads` | beside `verify`, `prove` does what it does alone: `BothSpec => Init /\ [][Next]_vars` |
| `CliProofs!RightFilesPass` | the safety half of `VerifiedOnceTaken` |
| `CliProofs!CleanRunKeepsOn` | the safety half of `CleanRunSucceeds`, unless `OPT_MEM` is set |
| `LibraryProofs!LibraryTypeCorrect` | `Library!TypeOK` |
| `LibraryProofs!OneRoleHolds` | `OneRole` |
| `LibraryProofs!WarmIsSafeHolds` | `WarmIsSafe`, an action property |
| `LibraryProofs!SetupsAgreeHolds` | `SetupsAgree` |
| `LibraryProofs!RoundTripHolds` | `RoundTrip` |
| `TestnetProofs!TestnetTypeCorrect` | `MockTestnet!TypeOK` |
| `TestnetProofs!ReplayAgreesWithProofsHolds` | `ReplayAgreesWithProofs` |
| `TestnetProofs!ChainOfUsersHolds` | `ChainOfUsers` |
| `TestnetProofs!EachReportedHolds` | `EachReported` |
| `TestnetProofs!BuildableNeverFails` | the safety half of `WitnessBuilt` |

*Seed.* `SeedAgreement` is not inductive: nothing in it says what a caller inside `create_seed`
will do to the file. `OneOrigin` does: while the file is an operator's nobody is on the way to create it and
only its seed is handed out; otherwise only the constant is. `SeedInv` is `TypeOK`, `OneOrigin` and
that a caller with `"ok"` has a seed.

*Server.* `TypeOK` needs `JobsAdmitted` (a busy thread's call passed the checks, so its type has a program
and its trace has a height) and `RunsSeeded` (a prover is built for a numbered block and with
a seed in hand), or a file could be stored in a directory that is none. Together they are `ServerInv`.
`ProgramItems` shows that the programs, built by concatenation, consist of items.

*Disk.* `DiskInv` adds to `ServerInv`: `OpenFilesExist` (an open file belongs to a thread at a storing
item, and is on disk), `SeedsAgree` (every seed in hand is the `Origin`: the operator's when the file is
his, else the constant), `DiskSeeded` (so is every seed on disk) and
`TornOnlyInFlight` itself. `OpenFilesExist` is why no panic tears a file: a
thread panics only at a computing item or before its program, where it has none open.
`SeedOrigin` is why crashes and races do not change the seed: no step of `SeedFile` changes the origin.

*Jobs and their files.* `JobInv` adds to `DiskInv` what a job has behind it. `ProvedSoFar`: each circuit its program has
proved can prove its trace, and unless `OPT_MEM` is set its key is still held; so what is stored, which always
follows the proof it belongs to (`WellOrdered`, of all programs), is of an admitted trace. `StoredAlone`: what a
job that runs alone has stored is on disk, its own bytes, or torn by a thread that stores the same bytes again. It needs
`NoRivals` (nobody runs for another trace of its height, whether it came before or after) and, from `DiskInv`, that all seeds are
one. `Fresh` starts a program at its first item.

*The promise of the server.* `ServiceSafetyHolds` takes the refinement step by step (`ServiceSteps`): a step of the server
resolves the calls it answers, or none. An answer `"proof"` comes at the end of a program, where `ProvedSoFar` says
that its circuits prove the trace; `"refused"` comes from the guards. A call that is dropped needs its reason: an item of a program that
fails is one whose circuit cannot prove the trace, or misses a key that only `OPT_MEM` releases; a thread at the parameters has found one missing;
and one that could not read the seed met a file that was absent or short then, which marked its call. `ComputedProofReturnedHolds` needs in addition
`CallsApart` (no two threads have one call, and no call that waits): otherwise the failure of one job could drop the
call of another. With every proof made and no key released, the items that are left cannot fail.

*Batches.* What `check_batch_capacity` adds up are sums over sequences. The prover cannot use the
induction theorems of the library, which take an operator, but a set is no operator: `NatSetInduction` gets induction over
a set of numbers from the well-foundedness of finite subsets, and from it `SumsExist` and `SumsUnique` give every
running sum its recursion (`TotalStep`), for rows, transactions and different numbers alike. `BatchInv` then says that
`acc` is the sum of the blocks before the one the loop is at (`CountsSoFar`), that what the check has kept is a longest prefix that
fits (`KeptBlocks`), and that later stages follow only if transactions are left.

*Parameter files.* `WholeUnlessOverlap` follows from `NoHoles`: a writer that is alone writes at the end of the file. That what a caller holds is of one maker is
`OneContent`: without an overlap the file is, and what a caller that was not disturbed has read is the beginning of it (`NothingYet`: before it opens the file it has read nothing).
`SettledIsWhole` is about writers that do meet, and has no such account. What holds there is
`StillToCome`: without a death, each piece that is missing in the file will still be written by a
writer that stands at or before it, for whoever truncates the file is itself at its beginning. When nobody writes any more, nothing is missing.

*Prove and verify.* `CliInv` says of the trace that the loop is at what `ProvedSoFar` and `StoredSoFar` say: all circuits before
this step can prove it, and all files before this step are whole. `PartOf` says of the program, whatever the options, that each file
follows the proof of its circuit and comes once, so that a file that is put (`PutKeeps`) leaves those stored before, and those of all other
traces, as they were. For that, names of traces differ and `debug_dir` is that of the trace (`AtTrace`). `ChecksAll` says that what `verify` has logged and has
left to check is what it was asked for. `RightFilesPass` combines the two: the files asked for are among those the
program stores (`ProgramHas`), `TakenAreWhole` has them on disk, and none is torn. `CleanRunKeepsOn` excludes the failures one by one. The seed cannot be
unreadable because one found to be missing is made whole before it is used (`SeedTested`); the verifier contract cannot miss a key because in every program the proofs of
`super` and `agg` come before it (`PartOf` again) and what was proved has its key (`KeysHeld`).

*Library.* `OneRole` is not inductive: what keeps a process from a second role is its logger. `LibInv` says what a
thread may be doing given the statics of its host (`ThreadOK`): nobody is inside a host without a logger, a thread
that initialises finds neither prover nor verifier, one that proves finds a prover; and two threads of a host never
initialise at one time (`OneStarts`). Its last conjunct is what `WarmIsSafe` needs: as long as a host has had no race,
a thread that is making a key is making a missing one, so a host with both keys has no thread that is about to
insert one; and without `OPT_MEM` no conversion removes one.

*Setups.* `SourceInv` has two halves. `FetchInv`: unless a fetch met a running host, nobody is in the library during a fetch, and no two hosts make a file that
was fetched to the end. `Sourced`, where moreover no two hosts made one file at one time (`Clean`): it names the setup a file is of *or will be of* (`Will`: the
ceremony once it was fetched, else what a host will make; never `Holed`), and says that everything is of that setup: what threads have loaded,
provers, the parameters of verifiers, and proofs. Without an overlap nobody is cut, so a host changes a file only when it was not fetched, and makes of it
what it would be anyway (`FilesKept`); no step of a host changes `Will`. A fetch does, and finds nobody in the library, because there is no logger (`NobodyInside`, from `LibInv`). `RoundTrip`
then follows whether or not the two files agree; `SetupsAgree` where both are of one source.

*Witness and testnet.* `ReplayAgreesWithProofs` speaks of one block at one moment. Inductive is what it says of all blocks that are left:
`StateBefore(k)`, of each account that blocks from the k-th on touch the state has the nonce that the first of them to do so
attests. Merging the proofs of block k on top makes `StateBefore(k)` of `StateBefore(k + 1)`, and this is where the reverse order matters.
In the middle of a block, `MidBlock` says that an account is ahead of the proofs by the transactions of it that were
replayed; at the end the chain says that this is what the next block attests. `NonceFits` has from it that the assert of the
replay holds for users, and for deposits if nothing of their sender was replayed before them, which is just what
`Buildable` asks and `NonceKnown` forgets. With `FlawsPassed` (what the loops have passed had no such flaw) and `HeadersKept` this gives
`BuildableNeverFails`, and the reports of `EachReported`. `OneBatch` says that the traces that came and those still wanted are one batch.

Assumptions are those of the modules (`ServerAssumption`, `OptMemAssumption`, `MaxCrashesAssumption`, `LibraryAssumption`,
`CliAssumption`, `VerifyAssumption`, `ParamsAssumption`, `BatchAssumption`, `TestnetAssumption`, `ChainAssumption`): types of the constants. Four say more. The trace
files of a command have different names (`CliAssumption`): they are files of one directory. A hole of a file is not the content some
maker writes (`ParamsAssumption`). A circuit has rows beyond those the check spares (`BatchAssumption`: 256, of 2^`DEGREE`), or a batch of no blocks would not fit. And the
batches of a rollup are parts of a chain (`ChainAssumption`: `FromChain` says what that means for nonces and chain ids), which is up to the node that gives the traces.
`ComputedProofReturnedHolds` and `CleanRunKeepsOn` assume `~ OptMem` in addition, since with `OPT_MEM` an aggregation fails
(`server_opt_mem`).

Only model-checked: all liveness (`SeedSettles`, `WorkSurvives`, `CleanRunSucceeds`, `VerifiedOnceTaken`, `MakersSucceed`,
`WitnessBuilt`) and the liveness of `ServicePromise`, since fairness needs `ENABLED`, which is beyond
the prover. The safety halves of `CleanRunSucceeds`, `VerifiedOnceTaken`, `WitnessBuilt` and `ServicePromise` are proved.

## 7. What is not modelled

* The cryptography, the circuits and their constraints: what a circuit can prove is a set that comes with the trace.
* External crates: `ZktrieState`, `StateDB`, the replay of bus-mapping and the JSON-RPC server
  are modelled only as they are used here.
* Formats: JSON, RLP, the encoding of keys and proofs, the Solidity code.
* The handler of the server's `mock-server` feature, which has no state and returns a constant.
* `debug_load_proved_circuit`, which reads a proof back from `debug_dir`: only a test calls it, and that test has the
  directory to itself.
* The conversions of `types/src`, of which the models see that
  `mint.unwrap()` may panic and that deposits carry nonce 0 and chain 0.
* In `Library`, what a host does with a proof after a data race, what a host does that survives a panic out of `extern "C"`, and the bytes of a file that hosts and the
  script write at the same time (`live` tells these behaviours from the others). That files of hosts which overlap may be unusable is modelled, and excluded by `overlap` where properties are claimed.
* Logging and measuring, except the log line that indexes a batch that may be empty and unwraps hashes that may be absent.
* An operator who replaces the seed file while programs run.

## 8. The plan

In the order the modules were and will be written; each step begins with the most important behaviour left.

1. *Done.* `SeedFile`, `SeedCallers`; `Prover`, `ProveService`, `ProverServer`; `BatchProof`; `ProveCli`, `VerifyCli`;
   `ParamsFile`; `WitnessBuilder`, `MockTestnet`; `Library`; the theorems of section 6.
2. Proofs left: the safety halves of `MakersSucceed` (a maker never fails) and of `WorkSurvives` (a job whose
   caller gave up stores the same files).
