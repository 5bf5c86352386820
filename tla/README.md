# Loss-Resistant Context Compiler: TLA+ models and proofs

This directory models the stateful core of `context_compiler` (the Python
package under `src/src/context_compiler`), checks the models with TLC on small
instances and proves the most important properties with TLAPS for every value
of the constants. `PROJECT.json` is the machine-readable index: it maps each
definition to the source lines it stands for, lists every run with its
properties, the mutated definition that breaks each property, the hazards the
properties are for, and the theorems.

## 1. Inventory

Paths are relative to `src/src/context_compiler/` unless they begin with `src/`.

| Component | State | Operations | What is hard | What makes it correct |
|---|---|---|---|---|
| Source archive (`archive.py`) | `events.jsonl` (a hash-chained JSONL history), `.append.lock` | `append`, `load`, `verify`, `resolve` | several processes; every system call can fail; death and power loss between two of them; readers take no lock | no commit is lost; ids and sequences are never reused; a commit with an expected head extends exactly that head; an acknowledged record is durable |
| Atomic replacement (`atomic.py`) | temporary files, the directory entry | `atomic_write_text` (replacing or exclusive), `fsync_directory` | order of write, fsync, replace, directory fsync; cleanup on every path | the old or the new file, never a torn one |
| Advisory lock (`file_lock.py`) | the lock marker, `flock` | `open_lock_file`, `try_lock_file`, `close_lock_file` | contention, deadline, death of the owner, a replaced marker | mutual exclusion; always released |
| Stable reads (`io.py`) | none | `_open_stable_text_path`, loaders of sources and artifacts | the file may be replaced between stat, open, fstat and read | one version of the file is read, or none |
| Directory boundary (`path_safety.py`) | pinned descriptors of ancestors | capture, revalidate | ancestors replaced during an operation | operations stay inside the pinned directories |
| Connector (`connector.py`) | `_sessions`, `_archive_session_id`, checkpoints held by callers | `ingest_source_events`, `compile_memory`, `verify_memory`, `inspect_memory`, `render_context`, `serve_stdio` | several archive calls per request, other hosts between them; restarts; stale or foreign checkpoints; retries | live sessions never roll back or fork; what a session claims verified is what the archive held; nothing accepted is lost |
| Compiler (`compiler.py`) | the ledger of one call | `compile` | an untrusted extractor, limits and a token budget at every step of a pipeline | nothing the rules recognize is missing; protected items are selected; nothing is returned half done |
| Temporal resolver (`resolver.py`) | the ledger in resolution | `canonicalize`, corrections, answers, conflicts | items of one normalized text merge before, between and after the passes; chains and repetitions of corrections | every superseded item has a reason that is current; every correction is settled; neither side of a conflict wins |
| Verifier (`verifier.py`) | none | `verify_memory` | judges the same ledger by tables of its own | accepts what the compiler makes of an ordinary history, and nothing that lost state |
| Deadline isolation (`isolation.py`, `isolation_worker.py`) | a worker process and its group, a job file, a response file, a deadline | `compile_isolated`, `run_worker` | the exit races the deadline; the worker and what it starts may hang, die or ignore signals at any step; the cleanup may fail half way | a result is in time, complete and final; no signal leaves the group; no worker left behind; the call ends |
| Process trees (`process_tree.py`) | owned process groups and Job Objects; the snapshots of the Darwin proof | start, terminate, finalize, `prove_darwin_process_group_all_zombies` | signalling a group that may be gone or reused; members are listed and then read one by one while they fork, die and are replaced | only owned processes are signalled, all are reaped; a proof is never wrong and always ends |
| Local Qwen CLI inference (`local_qwen.py`) | a process-wide inference lock, a CLI process, its pipe | `LmsQwenCompletion.__call__`, `_run_bounded_process` | output, exit, deadline, limit and cleanup meet in any order; three platforms | an answer is the whole output of a process that ended with success; one inference at a time; the lock comes back |
| Extractors (`extractors.py`) | none | regular expressions, a model call | text; a model may omit or alter | each role authors only what it may; reserved tags stay the compiler's |
| Models and limits (`models.py`, `limits.py`) | none | value types, digests, the covering relation | integrity of frozen values | data, sets in the models |
| Trust manifests (`trust.py`) | manifest files | create, validate, verify | manifest, artifact and archive are three files, read one after the other | a manifest binds one state; what is accepted was bound |
| Redaction (`redaction.py`) | none | masking of spans | overlapping spans | nothing matched stays readable |
| Artifact inspection and comparison (`artifact_*.py`, `schema_compatibility.py`) | none | summaries, differences | none | pure functions |
| Command line (`cli.py`) | archive, artifact, manifest and prompt files | `compile`, `archive append`, `archive verify`, `verify`, `trust create`, `trust verify`, inspection, diff, redaction | concurrent commands over the same files; outputs that may alias inputs | reports are about one state of the files and cover what the command was given |
| Benchmarks, release scripts, conformance | reports | measurement and packaging | runner supervision | outside the product |

Interactions: the command line and the connector call the compiler; the
compiler calls extractors, resolver and verifier, in a worker process when a
deadline is given. The connector and the command line call the archive, which
calls the lock, the stable read and the atomic replacement. Hosts meet only in
the archive directory.

## 2. Modules

```
AppendOnlyHistory                              what an archive promises
  ^ implemented by      ^ implemented by
SourceArchive         Connector                the archive, its users
SourceArchiveProofs   ConnectorProofs
MCSourceArchive       MCConnector

BundleReplay <- BundleReplayProofs; MCBundleReplay      bundles of the connector
CommandLine  <- CommandLineProofs <- MCCommandLine      commands and trust manifests
StdioServer  <- StdioServerProofs                       serve_stdio

CompileDeadline <- CompileDeadlineProofs       a worker with a deadline
ZombieProof     <- ProcessTreeProofs           the Darwin proof it relies on
LocalQwen       <- ProcessTreeProofs           a CLI with a deadline, POSIX and Windows

MemoryLedger <- LedgerVerifier <- LedgerCompiler <- LedgerProofs, MCLedgerCompiler
```

An arrow is EXTENDS. `MCSourceArchive`, `MCConnector` and `MCCommandLine` extend
the proofs, so the invariants of the proofs can be checked with TLC, as they
were before they were proved. `CompileDeadline`, `ZombieProof`, `LocalQwen` and
`StdioServer` need no MC module: their constants are sets and numbers.

How the models rest on each other: `SourceArchive` and `Connector` both
implement `AppendOnlyHistory`, which is what lets `Connector`, `BundleReplay`
and `CommandLine` take an archive call for one step; `BundleReplay` takes a
compilation for one step, which is what `VerifiedSourcesAreTheHead` says of it;
the step `Prove` of `CompileDeadline` and `LocalQwen` is allowed only when every
member is a zombie, which is what `ProofIsSound` says of `ZombieProof`.

### AppendOnlyHistory (abstract)

Two variables: `history`, what a reader is given, and `confirmed`, what no
power failure takes back. `Extend` adds a consistent batch in one step,
`Confirm` makes records durable, `Lose` is a power failure.

### SourceArchive

The archive at the grain of system calls. One action per call of
`append()`, `load()`/`verify()`, `_acquire_lock`, `_open_stable_text_path` and
`atomic_write_text`, for any number of processes.

| State | In the code |
|---|---|
| `disk`, `entry`, `temps` | inodes, the inode `events.jsonl` names, the linked `.ctxc-*.tmp` names |
| `durable` | the inodes `events.jsonl` may name after a power failure: all it was given since the last directory fsync |
| `lock` | the owner of the `flock` on `.append.lock` |
| `pc`, `call` | the place and the arguments of each process |
| `attempt`, `candidate`, `fd` | the locals of `_open_stable_text_path`, and the open descriptor |
| `view` | `_ArchiveState`: format and records |
| `reply` | returned, refused (head or collision), invalid (the file changed under a read), failed |
| `acked` | ghost: records that some `append` has counted as newly accepted |

A history is the set of its records (the file is sorted by sequence, sequences
are unique); the chain head is that set, so hashes are collision-free. One
record count stands for all size limits. `kind = "read"` is both `load` and
`verify`, which take the same steps.

Failures: any system call may fail (`ReadFault`, `WriteFault`,
`InstalledFault`, `CloseFault`, `LockUnavailable`), an interrupt may fall
between creating a temporary file and noting it (`CreateFault`), the cleanup of
`atomic_write_text` may itself fail or be interrupted before it unlinks the
temporary file (`CleanupFault`), a process may
die anywhere (`ProcessDeath`: the kernel drops its lock), the machine may lose
power (`PowerLoss`: unsynced files are torn, the directory entry falls back to
any value since its last fsync).

`acked` counts what `append` reports as newly accepted. An append that finds
its batch stored returns 0 without a directory fsync, so the 0 promises
nothing about durability and the model does not claim it.

### Connector

`LocalAIConnector` in any number of host processes, some configured with the
shared archive (`ArchiveHost`), some without. A host answers one request at a
time; each archive call of `_archive_attests` and
`_synchronize_archive_session` is one step (an append is two: install and
settle), and the steps of different hosts interleave. That an archive call is
one step is what `Refinement` (section 5) proves of `SourceArchive`; a reader
refused because of a concurrent replacement is an `ArchiveFault`.

| State | In the code |
|---|---|
| `archive`, `durable` | what `events.jsonl` holds, and may hold after a power failure |
| `live`, `bound` | `_sessions`, `_archive_session_id` |
| `checkpoints` | what callers hold, including checkpoints of standalone compilers (`Foreign`) |
| `pc`, `request`, `round` | the step of the request; its first or second synchronization |
| `work`, `required`, `missing`, `head` | `candidate`, `archive_precondition`, `append_records`, `report.chain_head_sha256` |

An event is an id, a sequence (each may be omitted) and a content; omitted
sequences are allocated, omitted ids derived, as `ingest_source_events` and
`SourceRecord.create` do. Records are compared after the connector's
normalization of roles and authority, which is idempotent and applied on every
path. Compilation is one step that returns, fails, or times out.

### CompileDeadline

One call of `compile_isolated` on POSIX, with the worker, what the worker
starts, and the kernel. The parent starts the worker as the leader of a new
group, polls its exit with `waitid(WNOWAIT)`, signals the group while the
unreaped leader still holds the group number, reaps the leader, and only then
reads the response. Every system call of the parent is one action; processes
of the group run, fork, die and leave between any two of them.

| State | In the code |
|---|---|
| `state`, `escaped` | the processes; those that left the group (`setsid`, `setpgid`) |
| `deaf`, `foreign` | the processes that survive SIGTERM; those the parent may not signal |
| `stranger`, `strayed` | the number of the reaped leader is in use again; a signal reached it |
| `worker`, `status`, `response` | the place in `run_worker`, `process.returncode`, `response.json` |
| `expired`, `lapsed` | the deadline of `_execute_worker`, and the one that the wait computes, have passed |
| `late`, `spared` | ghosts: the worker had not exited when the deadline of the wait passed; the kernel refused the last kill |
| `pc` | the place in `compile_isolated` and the functions it calls |
| `observed`, `timedOut`, `raised` | `leader_exited`, `timed_out`, the exception on its way through `finally` |
| `outcome` | what the call returns or raises |

`darwin` is chosen at the start. The kernels differ in `Signallable`: Darwin
denies signals to zombies, so a group of zombies looks like one that may not be
signalled, and the code needs `prove_darwin_process_group_all_zombies`, one step
here that is allowed only when every member is a zombie and may always fail.
Time is the order of events. The parent takes the time that remains
(`isolation.py:700`) and the wait adds it to the clock again
(`isolation.py:167`), so there are two deadlines: `Expire` passes the first at any
step, `Lapse` the second, which is the later by as long as the parent paused between
the two readings. Every bounded wait may run out. The last resort of the
cleanup, `KillDirect`, may be refused, and its wait may time out; the code
suppresses both (`isolation.py:337`).

Outside the guarantee, as `src/README.md:979` says, and so outside the
properties: processes that leave the group, and on Linux members that may not
be signalled. Not modelled: a process that leaves the group and joins it again.
A `KeyboardInterrupt` that meets the cleanup, or falls inside `Popen`, leaves
the worker alone; the outcome `"abandoned"` stands for that, and the properties
about what is left behind exclude it by name.

### ZombieProof

`prove_darwin_process_group_all_zombies` read by read: the members of the group
are listed, each is read (number, start time, state), and the reads are repeated
until two complete snapshots agree, with the numbers that were missing in
between looked up again. The kernel runs between any two reads: members fork,
exit, are collected, and a number is used again for another process, in the
group or not.

| State | In the code |
|---|---|
| `table`, `start` | what has a process number, and the start time that tells its uses apart |
| `phase` | listing, reading, reading again, done |
| `todo`, `members`, `identities`, `vanished`, `live` | one pass of the loop over a listing |
| `previousMembers`, `previousComplete`, `requiredAbsent` | what the next pass is compared with |
| `known`, `knownZombies`, `pendingLive` | `known_identities`, the zombies, the members that still ran |
| `attempts`, `stability` | `live_transition_attempts`, `stability_attempts` |
| `listed`, `disturbed` | ghosts: who ran when the listing was made; something other than the collection of zombies happened |

### LocalQwen

One completion of `LmsQwenCompletion`: the inference lock, the two preflight
commands, the bounded run of the CLI (launch, read loop, deadline, output limit,
decoder), the termination of its process group or Job Object, the reaping, the
judgement of the output, and the release of the lock. `Platform` is a set:
`linux`, `darwin` and `windows` take different paths through the cleanup, and on
Windows the CLI exists suspended before it is assigned to its job.

| State | In the code |
|---|---|
| `state`, `outside`, `stranger`, `strayed` | as in `CompileDeadline`; `outside` the job on Windows |
| `mute`, `pipe`, `written` | who has closed stdout; what was written and not yet read, in whole and half characters |
| `held`, `retained` | the incremental decoder, `retained_chars` |
| `lock`, `expired` | `_INFERENCE_LOCK`, the deadline |
| `final`, `reason`, `failed` | the `finally` clause has begun; why there is no result; a part of the cleanup failed |

### CommandLine

The commands `compile`, `archive append`, `archive verify`, `verify`,
`trust create` and `trust verify`, each a process that reads and writes one file
per step, in the order of `cli.py`, while other commands run and somebody edits
the artifact or the manifest or puts an older archive back. `trust.py` is in
here: the creation, the validation and the verification of a manifest are the
operators of the two trust commands.

| State | In the code |
|---|---|
| `events`, `chained` | the archive: its records, its format |
| `artifact`, `manifest`, `prompt` | the files of `--output`, `--manifest` and the rendered prompt |
| `call` | a command: its options, what it has read so far, where it is, its exit code |
| `retained`, `noted` | the manifest digests and chain heads that somebody keeps elsewhere |
| `valid` | ghost: the retained bindings whose files nobody has touched since |

An artifact is its sources, its policy, whether its digest matches and whether
its content is the compiler's; the exit codes 0, 2, 3 and 4 are kept.

### StdioServer

`serve_stdio`: the client writes characters and closes its end when it likes,
the server reads with a bounded `readline`, drains the rest of a line that is too
long, decodes, handles and answers. Characters are narrow (one byte), wide (two),
white space, a carriage return and the end of a line, which is what the limit in
bytes, the read in characters, the test for a blank line and the test for the end
of a line tell apart. `sys.stdin` makes line ends of returns and the server never
sees one; a stream like the `io.StringIO` of the tests keeps them, its `readline`
ends only at a newline, and the server takes a return at the end of a bounded read
for the end of the line (`Cut`). `translates` says which stream it is. A stream
that ends lines at returns without translating them (`newline=""`) is not
modelled. Parsing of a request and
what the connector makes of it are one step that may be refused or fail.

| State | In the code |
|---|---|
| `translates`, `written`, `eof`, `taken` | the kind of stream, the input, and how much of it was read |
| `line`, `reply`, `pc` | `raw_line` as a span of the input, the kind of answer, the place in the loop |
| `out` | the responses, each with the span it answers |

### BundleReplay

`verify_memory` and the bundles of `compile_memory`. Callers keep bundles and
checkpoints and send them back to any host, with a live session, a checkpoint or
a set of sources, as they were or with a part exchanged and the digest computed
again; the archive is read in two steps, first for the checkpoint, then for the
bundle, while other programs append to it or put an old copy back.

| State | In the code |
|---|---|
| `archive`, `histories` | what `events.jsonl` holds; ghost: all it has held |
| `live`, `checkpoints`, `bundles` | `_sessions`; what callers hold |
| `pc`, `job`, `reply` | the place in `verify_memory`, its locals, its verdict |
| `job.own`, `job.calm` | ghosts: the bundle comes with what was returned with it; the archive has said of its head all the time what the bundle says |

A chain head is the set of records of its history. A ledger is `whole`,
`partial` (its items were not all kept) or `unsound` (it does not verify), and a
certificate is right or not. Token counts, policies and the rendered text, whose
digests are bound in the same way, are left out: each is one more equation of
`Holds`. `ContextBundle` refuses a bundle that claims a verified head and has
none (`WellFormed`).

### MemoryLedger, LedgerVerifier, LedgerCompiler

One call of `ContextCompiler.compile`, from the source history to the
verification report. `MemoryLedger` has the items, what the rules extract from
a history, and `canonicalize`; `LedgerVerifier` the checks of `verify_memory`,
each named for its issue code; `LedgerCompiler` the pipeline, where one pass of
a loop of the resolver is one action. A compilation is sequential: what varies
is the history, what a model extractor returns, the order of items of one
source (they sort by digest), the selection of optional items, and the point at
which a limit is exceeded (`ExceedBudget`).

| State | In the code |
|---|---|
| `history` | `ordered`: the role of each source and the atoms it says |
| `items` | the ledger: `primary.items`, then `items`, then `state` |
| `phase`, `todo` | the place in `_compile_impl` and `resolve_temporal_state`; the corrections or answers a loop has still to visit |
| `selected`, `issues` | `selected_item_ids`, the codes of the report |

A text is a value, spelled as an item holds it, and `Norm` is `normalize_text`,
which may map several spellings to one. The difference matters: `canonicalize`
groups items by kind and `Norm` (`Key`) and keeps the spelling of the oldest
(`MergedText`), while recovery and the certification pass ask for the literal text
(`Covers`). A source says a text at one place, so that a span is the number of its
source and the text found there, which is its quote. What the patterns and token
overlaps make of texts are constants: `Marker`, `Revokes`, `Confirms`, `Uncertain`,
`Opposed`, `Score`, `AnswerScore` for the extractors and the resolver, `Supports`,
`SupportsLabelled` and `SupportsAnswer` for the verifier, which counts tokens by
rules of its own and relates less to a correction without a label. What depends on
the line and not on the text alone is a field of the statement: its label, and
whether the verifier finds evidence of a fact there (`evidenced`). The bullets of a
`Correction:` section are corrections without the label tag, as in the code.
`MCLedgerCompiler` names fourteen real sentences, and its tables are what the code
computes of them. The exact flag of an item is a tag. Ids are what they are digests
of, so that the ids `_item_from_span`, `_make_replacement` and `canonicalize` give
one item differ, as in the code; a conflict node has from the start the id that
`canonicalize` gives it in the same step.

The policy is the default one (`recover_missed_protected`, without
`include_superseded`). The status `discarded` and the kinds that no pass looks
at are left out, as are additive safety extractors and the atomic, order and polarity
support of a text by its quotes. A model extractor is taken to return some of the
atoms the rules find, without the reserved tags; a model that fails returns none.
So the other way of `memory_item_covers_candidate` to cover an atom, by its value
without a label (`models.py:729`), does not occur: a domain extractor with labels of
its own would be needed. `_UNCERTAINTY` is looked for in each quote of a fact; the
code looks in the quotes joined by a space, where a phrase could also arise across
two of them.

The ledger and the error codes at the end of the model were compared with those
of `ContextCompiler().compile` for all 53,958 histories of the run, extracted by
the rules: kind, text, status, position, tags and supersession of every item agree,
and so do the issue codes, exactly.

## 3. Runs

Bounds: every counter of a model is a constant named `Max...`. Deadlock is not
checked, because the bounded models stop when their calls are used up. States
are distinct states; times are of two workers.

| Run | Instance | States, time | Shows |
|---|---|---|---|
| `archive_shared` | 2 processes, 3 calls, 1 crash, interrupt, failed cleanup or power loss; five records of which two collide with a third | 1,256,942, 1 min | a staged merge is computed from the visible history; commits honour their anchor; loads see one history; durable files are loadable; acknowledged records survive; stranded temporaries are paid for by a crash, an interrupt or a failed cleanup; refinement of `AppendOnlyHistory` |
| `archive_progress` | 2 processes, 2 calls, 1 crash, one process scheduled | 70,898, 15 s | every call of a scheduled process ends, its lock is released, although the other process may hang with the lock |
| `archive_readers` | 2 processes, 2 calls | violation | see section 6 |
| `connector_shared` | 2 hosts with the archive and 1 without, 2 requests, 1 failing archive call, 1 death or power loss | 1,108,477, 2 min | verified sources are exactly the history of their head; live sessions never fork, own the archive and only grow, whatever checkpoint is presented; an ingestion installs the copy it staged; a resumed session keeps its checkpoint |
| `connector_bundles` | a host with the archive and one without, 2 sessions, 2 records, 2 compilations, 1 verification, 1 change or fault, 1 restart | 446,318, 2 min | a verified head that passes is that of a history the bundle holds; an untouched bundle passes |
| `command_line` | 2 commands at a time, 3 in all, 1 edit | 1,639,863, 1 min | a retained manifest binds one state of three files; only what was bound is accepted, and it is; a report covers what the command was given |
| `stdio_server` | requests of at most 2 bytes, 9 characters, a stream that translates returns or one that keeps them | 3,338,353, 2 min | every response is about one whole line, in order, or about a part of one between kept returns at which a read ended; every line is answered without waiting for the next |
| `compile_deadline` | the worker and 1 process it may start, Linux or Darwin, the parent scheduled | 467,832, 20 s | a returned result is of a worker that exited before the deadline of the wait and is reaped; no signal leaves the group; a clean end leaves nothing, a failed cleanup not the worker unless the kernel refused the last kill; the call ends, whatever the worker does |
| `zombie_proof` | the leader and 2 other numbers, each used again once; 2 and 6 attempts | 815,638, 30 s | a proved group is dead for good; zombies that are only being collected are not rejected; the proof ends |
| `local_qwen` | the CLI and 1 process it may start, 3 platforms | 616,860, 30 s | an answer is complete; a clean end leaves nothing; one inference at a time; the call ends and gives the lock back |
| `ledger_histories` | 3 sources, each with one of 12 sentences or none, the middle one with up to two, and any role that may say them; extraction by the rules or a model; 6 items | 3,150,410, 3 min | nothing is forgotten; what is retired has a current reason; only a participant answers; every correction is settled; ordinary histories verify |
| `ledger_model_label` | 2 sources, 3 sentences, a model extractor | violation | see section 6 |

Why the bounds are enough for what they show:

* Archive: a lost update needs two writers and their two commits; an anchored
  commit that goes wrong needs a third call between an anchor's load and its
  use; a torn or lost file needs one crash and a later load. `PathAttempts` is 2
  or 3 instead of 16: one retry and its exhaustion are both reached.
  `MaxRecords` makes a merge of two legal batches exceed the limit.
* Connector: one request is a full sequence of up to nine archive steps, so two
  requests already interleave every pair of them, and a crash falls between the
  request that made a checkpoint and the one that resumes it. Instances have an
  event with both id and sequence, one with neither, a batch that mixes both, an
  empty and a legacy archive, and a foreign checkpoint that conflicts with one
  of the events and claims a verified head. The third host answers what the two
  others cannot: what a host without an archive makes of their checkpoints.
* Bundles: a verification that goes wrong needs a bundle whose head and sources
  are of two histories (two records), a change between two reads of the archive
  (one change) and, for a checkpoint that meets a live session, a second
  compilation. One verification is enough, since verifications change nothing.
* Command line: two commands run at a time and a third before or after them; one
  edit suffices to replace any file between two reads. The policies are one that
  misses its target, one that drops inactive items and an ordinary one.
* Stdio: with `max_request_bytes = 2` the server reads four characters at a time,
  so nine characters hold a line that takes three reads, and the line after it.
* Deadline and CLI: `CompileDeadline` and `LocalQwen` count nothing but the
  output: the parent takes each step once, except the polling loops, and a
  process starts once. One process beside the leader survives it, starts after
  the first signal, leaves the group, holds the pipe or may not be signalled, in
  every combination. What more than one could do is covered by the proof for
  `CompileDeadline`, which has no bound.
* Zombie proof: the code allows 2 attempts for live members and 8 unstable
  snapshots. With N numbers beside the leader `ZombiesAreNotRejected` holds from
  2N + 2 unstable snapshots on; the instance has N = 2 and 6, so the 8 of the
  code are enough for three.
* Ledger: a chain of corrections, and a question about a corrected fact, need
  three sources; two sentences in the middle one allow two corrections of one
  message, and a sentence between two of another. Six items are exceeded by the
  value and correction of two sentences each, so the limits are met too.

`OrdinaryHistoriesVerify` names the histories it leaves out, each by what the
history says and never by what the compiler made of it (section 6). Without
`SaidOnce`, `FactsStand`, `ReplacesLike` or `Answering` the run finds a history that
does not verify. `Related`, `ToolsAgree`, `Recognized`, `KindsAgree` and the exact
references of `ReplacesLike` exclude sentences that its vocabulary does not contain;
they are stated so that the property is true
of every vocabulary, which is what `OrdinaryVerify` proves (section 5). The last two
came out of that proof: without them a step of it has a counterexample, and both
histories do the same on the code.

Definitions marked `slip:` are plausible bugs; `PROJECT.json` names, for each
property, the definition that a slip replaces to break it.

## 4. Fairness

`archive_progress` assumes `WF_vars(Proceed(p))` for the processes of
`Responsive`. The operating system schedules a process that is ready, and
every step of a call is local or waits only in `_acquire_lock`, which polls
until a deadline; `LockTimeout` is therefore part of `Proceed`. Nothing is
assumed of other processes, which may stop at any step while they hold the
lock. Calls themselves, faults and crashes are never forced.

`compile_deadline` assumes `WF_vars(Parent)` and `WF_vars(Clock)`: the parent
is scheduled and the clock moves past both deadlines. `Parent` holds the expiry of the parent's
grace period and of its `wait(timeout=1)`, which the code bounds, and neither
`CleanupFails` nor `Interrupt`. Nothing is assumed of the worker, its children
or the kernel: they may do nothing for ever.

`local_qwen` assumes the same of the calling thread and the clock, `WF_vars(Call)`
and `WF_vars(Expire)`; the CLI and its children may hang, and no thread is forced
to take the lock. `zombie_proof` assumes `WF_vars(Prover)`: every read of the
proof returns, and the loop is bounded by its two counters, so nothing is assumed
of the group. `stdio_server` assumes `WF_vars(Server)`: the server is scheduled.
The client is not: it may stop in the middle of a line, and `EveryLineIsAnswered`
is about the lines that are there. The other runs check safety and state no
fairness.

## 5. Proofs

`SourceArchiveProofs` proves, from `ArchiveAssumption` alone, for any number
of processes, records, calls and crashes:

| Theorem | States |
|---|---|
| `TypeCorrect` | `[]TypeOK` |
| `WritersExclude` | `[]OneWriter` |
| `NoLostCommit` | `[]StagedOnVisibleHistory` |
| `CrashSafe`, `AckedDurable` | `[]DurableFilesLoadable`, `[]AckedSurvives` |
| `LockedLoadsSucceed` | `[]LockedLoadAccepted` |
| `AppendOnly`, `AnchoredCommits` | `HistoryGrows`, `CommitsOnExpectedHead` |
| `LoadsAreCurrent` | `LoadsVisibleHistory` |
| `TemporariesAreAccountedFor` | `[]TemporariesAccountedFor` |
| `Refinement` | `Spec` implements `AppendOnlyHistory` |

The inductive invariant is `SafeInv = TypeInv /\ LockInv /\ CommitInv`.
`OneWriter` is inductive with types (`LockInv`). The others are not: that a
commit loses nothing needs that a writer's `view` still is the visible history
at every step from its load on, that its temporary is a fresh inode nobody
else names, holds exactly the merged records once written, and is synced when
it is about to be installed (`StagerOK`), and that every inode the directory
may name is synced and holds all acknowledged records (`FilesOK`); together
these are `CommitInv`.
The proof has one step per action; most actions leave the files alone and are
covered by one lemma.

The count of stranded files needs that a descriptor is that of a temporary only
from its creation to its replacement, or to the cleanup that failed
(`TemporaryInv`): then a step of a call strands none (`CallsStrandNothing`), and
a crash or a failed cleanup at most one (`CrashesStrandOne`), a power failure too,
because the lock admits one writer.

The refinement maps `history` to `Visible` and `confirmed` to `acked`:
`Replace` is `Extend`, `CloseLock` is `Confirm`, `PowerLoss` is `Lose`, every
other step stutters.

`ConnectorProofs` proves, from `ConnectorAssumption` alone, for any number of
hosts with and without the archive, sessions, checkpoints, batches, faults and
crashes:

| Theorem | States |
|---|---|
| `TypeCorrect` | `[]TypeOK` |
| `AlwaysSafe` | `[]SafeInv`, the inductive invariant |
| `VerifiedSessions` | `[]VerifiedSourcesAreTheHead` |
| `ArchivedSessions`, `OneHistory` | `[]LiveSessionsArchived`, `[]NoForkedSessions` |
| `OwnedArchive` | `[]LiveSessionOwnsArchive` |
| `SessionsGrow` | `LiveSessionsGrow` |
| `EventsCommit` | `EventsCommitOnTheirBase` |
| `ResumedSessions` | `ResumedSessionKeepsCheckpoint` |
| `Refinement` | `Spec` implements `AppendOnlyHistory` |

Here `SafeInv = TypeInv /\ HistoryInv /\ SessionInv /\ ForkInv`. A property of
the registered sessions says nothing of the session a host is about to
register, so `SessionInv` follows it through the request (`SyncOK`): before the
append, every source of the detached session is archived or in `missing`; from
the append on, all are archived; in the second round the required head is
known and inside the session, which is what makes the installed history equal
to the staged copy. `SharedOK` says of the session in compilation what it says
of the live ones, `LocalOK` is its counterpart for hosts without an archive,
and `KeepsCheckpoint` holds from the choice of the session on. `ForkInv` orders
live and compiled sessions: a new point of an archive host is the whole history
(`PointsStep`), which contains every older point. `HistoryInv` says that a power
failure leaves a subset of the history. The proof has one lemma per action of a
host (`...OK`); that the other hosts are left alone while the history grows is
proved once (`OthersUntouched`, `OthersStayOK`).

The refinement maps `history` to the archived records and `confirmed` to those
in every history a power failure may leave: `SyncAppend` is `Extend`,
`SyncSettle` is `Confirm`, `PowerLoss` is `Lose`, every other step stutters.

`CompileDeadlineProofs` proves, from `DeadlineAssumption` alone, for any number
of processes and on both platforms:

| Theorem | States |
|---|---|
| `TypeCorrect` | `[]TypeOK` |
| `AlwaysSafe` | `[]DeadlineInv`, the inductive invariant |
| `SignalsStayHome` | `[]NeverSignalsAStranger` |
| `TimelyResults` | `[]OnlyTimelyResults` |
| `CleanEnds`, `WorkerEnds` | `[]CleanEndLeavesNothing`, `[]WorkerDoesNotOutliveCall` |

`DeadlineInv = TypeOK /\ AnchorInv /\ ClockInv /\ ClosedInv`. None of the four
properties is inductive: that no signal strays needs that the worker is not
reaped at any step before the reaping (`AnchorInv`), since an unreaped leader is
a member of its group and keeps its number; that results are in time needs that
a cleanup begun by neither a timeout nor an exception follows an exit seen
before the deadline of the wait (`ClockInv`); that a clean end leaves nothing needs that the
group is closed, with no running member that may be signalled, from the reaping
on (`ClosedInv`). A closed group stays closed whatever its processes do, because
only a running member can fork (`WorldIsEnvironment`); it becomes closed by
SIGKILL on Linux (`KillCloses`, which is delivered because the leader is always
signallable, `LinuxDelivers`) and by the all-zombie proof on Darwin
(`QuietSteps`). The steps of the worker and of the kernel are covered by one
lemma (`EnvironmentStep`), those of the parent that signal nobody by another
(`Quiet`).

`LedgerProofs` proves, from `LedgerAssumption` and `CompilerAssumption` alone, for
every history, vocabulary, set of tables and bound, whoever extracts:

| Theorem | States |
|---|---|
| `NothingForgotten` | `[]NothingIsForgotten` |
| `LedgerTypes` | `[]TypeOK` |
| `SpecResolution` | `[]ResolutionInv`, the inductive invariant of the next three |
| `NothingRetiredWithoutReason` | `[]RetiredForAReason` |
| `QuestionsClosedByParticipants` | `[]ClosedByAParticipant` |
| `CorrectionsSettled` | `[]EveryCorrectionIsSettled` |
| `OrdinaryVerify` | `[]OrdinaryHistoriesVerify` |

The invariant of the first is `LedgerInv`: the property, and that each item has
the fields of an item, which the updates with `EXCEPT` need to leave kind, text
and spans alone. An atom is kept in its meaning, not in its spelling: recovery
sees to it that it is covered literally, and a later merge may leave an older
spelling. The argument is the relation `Keeps(S, T)`: every item of `S` is retained
in `T`, with its kind, its normalized text and its places. It is transitive (`KeepsIsTransitive`), `canonicalize` keeps
(`CanonicalizeKeeps`), every change a pass makes to an item retains it
(`ChangesKeep`), recovery establishes the property (`RecoverKeeps`), and any step
that keeps preserves it (`KeepingStep`).

The three properties of the resolved ledger hold at its end and not in between,
so `ResolutionInv` says what the ledger is in each phase (`LedgerAt`): as
extracted (`RawLedger`), with some corrections tried (`CorrectingLedger`), with
one item of each kind and meaning and some answers tried (`AnsweringLedger`), and
resolved (`SettledLedger`). The difficulty is that `canonicalize` gives items new
ids after links to the old ones were made. While corrections are tried an item
has the id of its kind and text or that of a replacement, and a reason may name
either (`RetiredBy`, `ReplacementKey`), so it survives the merge (`MergedItem`,
`BeginsAnswering`). A merged item has the status of a newest member, and a retired
newest member has a later reason whose own group is newer still: the proof takes
the greatest position of a group (`SeqIsGreatest`), which exists because every
bounded set of numbers has one (`GreatestNatural`, from the least element of a
well-founded order, `LeastNatural`: no induction principle has to be
instantiated). A conflict node is told from every item of the history by its text,
which is why `LedgerAssumption` says that a pair of texts is not a text: in the
code the two are quoted in a sentence of the compiler's. It also says that `Norm`
takes texts to texts and pairs to pairs, and that two pairs with one normal form
have the normal forms of their parts in common: in the code the separator
`" versus "` between the quotes tells the parts of the sentence, unless a text
contains it itself.

`OrdinaryVerify` follows fifteen checks of the verifier, which reads the texts, kinds
and places of the ledger by tables of its own, through every pass of the resolver.
Its invariant `OrdinaryInv` holds beside `ResolutionInv` and `LedgerInv` and says
what an ordinary history has become in each phase. As extracted, each item is what
one statement says, or the value of a correction in the kind its statement has it
(`RawOrdinary`). While corrections are tried, only a correction's values share a
kind and text with each other, only what is no value has been replaced, and
whoever replaced it is a later correction that the verifier relates to it
(`CorrectingOrdinary`, `Replaced`): by two tokens, a revocation, or one value for
another below a label that the resolver went by too (`SupportsCorrection`). After the merge each retired item has an
unretired reason that the verifier accepts, each link leads to an older retired
item, and each answer closes one question (`AnsweringOrdinary`). Marking the
conflicts gives each pair one node that cites both sides (`MarksAreDistinct`): two
nodes of one text would need two pairs with the same texts, and such texts are two
values in two kinds each, which `KindsAgree` excludes. From there on every check
of the verifier holds of every item (`Verifies`), and the selection adds nothing
to report (`SelectedWell`). Nothing that the certification pass looks for is missing,
because an item that retains an atom has a text that was said (`AsSaid`), and no two
spellings of one meaning were (`RetainedIsCovered`).

The hard step is the merge at the end of the corrections: two values of one kind
and text, one extracted and one made by the resolver, become one item, and the
verifier must still find the correction that each came from at their common place
(`MergedStaysOrdinary`, `OneStatement`, `OneSource`).

`ProcessTreeProofs` proves, from `QwenAssumption` and `ZombieAssumption`, for any
number of processes, any limits, any number of uses of a process number and any
number of attempts, on all three platforms:

| Theorem | States |
|---|---|
| `AlwaysQwen` | `[](TypeOK /\ QwenInv)` of `LocalQwen`, the inductive invariant |
| `CompleteAnswers` | `[]AnswersAreComplete` |
| `NothingLeftBehind` | `[]CleanEndLeavesNothing` |
| `OneAtATime` | `[]OneCompletionAtATime` |
| `NoStrangerSignalled` | `[]NeverSignalsAStranger` of `LocalQwen`, which no run checks |
| `TypeCorrect` | `[]ProofTypeOK` of `ZombieProof` |
| `AlwaysSound` | `[]SoundInv`, the inductive invariant |
| `ProofIsSound` | `[]ProvedGroupsAreDead` |
| `ZombiesAreSpared` | `[]ZombiesAreNotRejected`, for groups of few members |

`QwenInv` follows the completion: how far the launch has come, which on Windows
keeps the suspended CLI alone until it is in its job (`LaunchInv`); that the
cleanup is not left before everything has been reached, unless a part of it
failed (`CleanupInv`); and that as long as there is a result, its output is
complete, the CLI is reaped and its status known (`ResultInv`). A group is
settled when nothing of it runs; it stays settled, because only a running process
starts another.

The difficulty of the soundness is that a reader of one number at a time never
sees the group as it is. The argument: if somebody runs in the group now, somebody
ran when this snapshot was listed (`listed`), because only a running member brings
another one in. That process is in the listing, so its number is read, as itself
or as a successor, or found gone (`SnapshotInv`); and it is not in the last
complete snapshot, whose processes were all zombies and are spent (`HistoryInv`):
a number is used again only with a later start time (`Ages`). So the two snapshots
differ and the proof does not succeed. `CountInv` says that an attempt is left.

`ZombiesAreSpared` assumes `FewMembers`, 2N + 1 < `StabilityAttempts` for the N
numbers beside the leader, which for the 8 attempts of the code allows three. Each
collected zombie may cost two snapshots, one in which it vanishes and one to
compare with, so `Spared` bounds the attempts spent by the members that are gone
already. Larger groups whose zombies are collected one by one while the proof
reads may be rejected, and the theorem is not claimed for them.

`CommandLineProofs` proves, from `CommandLineAssumption` alone, for any number of
commands, records, policies and edits:

| Theorem | States |
|---|---|
| `AlwaysSafe` | `[](TypeOK /\ SafeInv)`, the inductive invariant |
| `OneStateBound` | `[]ManifestBindsOneState` |
| `OnlyTheBoundPasses` | `[]AcceptedWasBound` |
| `InputCovered` | `[]ReportsCoverTheInput` |
| `AlwaysSteady` | `[]SteadyInv`, the inductive invariant of the next |
| `TheUntouchedPasses` | `[]UntouchedIsAccepted` |

The invariant follows a command through its reads: what it has read replays, the
sources it loaded are those of the head it verified, because the load repeats
the expected head, and what it appended is in every later history, because an
archive that nobody edits only grows. `SteadyInv` is about `trust verify` of files
that nobody touches: the files fit every retained binding that is still valid
(`FilesFit`), and what the command has read so far is what its digest binds
(`Steady`), at each of its steps, until it exits with 0. It needs that "no digest"
is not a digest, which `CommandLineAssumption` says.

`BundleReplayProofs` proves, from `BundleAssumption` alone, for any number of
hosts, sessions, records, compilations, verifications, changes and restarts:

| Theorem | States |
|---|---|
| `AlwaysSafe` | `[](TypeOK /\ SafeInv)`, the inductive invariant |
| `VerifiedClaims` | `[]PassedClaimIsHistory` |
| `UntouchedPass` | `[]UntouchedBundlesPass` |

`SafeInv` has three parts. Sessions of hosts with the archive are verified, and
then hold a history that is their head (`TrueState`); sessions of other hosts
are not. The bundles callers hold are those of such sessions (`TrueBundle`), and
only their relabelled copies are not. And a verification in progress has sources
that equal what the bundle names, a restored session or an attestation that only
the archive vouched for (`Sound`), and, if the bundle is sent with what was
returned with it, all that its verdict needs (`WithSession`, `WithCheckpoint`).
One lemma per step of a host ends in `HostStep`; a change of the archive under
all verifications is `ArchiveMoves`, which a compilation also is.

`StdioServerProofs` proves, from `StdioAssumption` alone, for any limit, any
input and any way of writing it:

| Theorem | States |
|---|---|
| `StdioTypes` | `[]TypeOK` |
| `LinesStayWhole` | `[]LineInv`, the inductive invariant |
| `WholeLinesAnswered` | `[]OneResponseForAWholeLine` |
| `LimitHolds` | `[]HandledWithinTheLimit`: what is handled ends with its line and is within the limit |

A property of the responses is not inductive: it needs that the server begins to
read only where a line or what follows a cut begins (`Between`), that a line that
is being drained contains no end of a line yet (`InLine`), and that the line under
way begins after all that were answered (`Responses`). `ReadEndsWhere` says where a
bounded `readline` may end, `ReadEndsOrCuts` that it ends with a return only at the
end of the input or with the full length of its limit. That limit is above
`max_request_bytes`, so a read of it that ends with no return is too long and
drained, and one that ends with a return is decoded and refused: what is handled
ends with its line, though it may begin after a cut.

Only model-checked: the liveness properties (`EveryCallEnds`,
`EveryLockIsReleased`, `CallEnds`, `EveryProofEnds`, `EveryLineIsAnswered`), since
fairness is out of the prover's reach, and the violations. Every safety property
of a passing run is a theorem.

## 6. Findings

These runs end in a violation on purpose; each states what the repository says.

* `archive_readers`: `src/README.md:510` and `src/docs/ARCHITECTURE.md:1049` say
  that a reader observes the previous or the next complete history during a
  commit. A replacement that lands between a reader's open and its final
  comparison makes the reader fail instead, and `verify()` report a healthy
  archive as failed. The bounded retry covers only a replacement between stat
  and open.
* `ledger_model_label`: the comment at `compiler.py:124` says that a custom
  extractor cannot reduce the obligation of certification. A model returns a
  labelled correction without the label, which it may not set; recovery finds
  the text covered, the resolver takes it for no correction, and the old state
  stays active in a ledger that verifies.

Observations without a run, each reproduced on the code or visible in the states
of a run:

* A timeout of `compile_memory` is answered as retryable (`connector.py:2684`),
  but its events were registered before the compilation, and the same request is
  then refused as a conflict with the live session.
* `src/docs/ARCHITECTURE.md:241` says that a configured archive is owned by one
  connector session. The owner is recorded when an ingestion succeeds
  (`connector.py:1701`); its first synchronization has committed the session's
  checkpoint before. If the events are then refused, the archive holds records of
  one session and can still be bound by another.
* `src/docs/ARCHITECTURE.md:638` says that a match links the correction and its
  current value to the old item. With two corrections in one source the code
  takes `replacements[0]` (`resolver.py:397`), the first derived value of that
  place and kind, so that the new cache size is recorded as superseding the old
  attachment limit. The ledger still verifies.
* `verify_memory` fails a bundle that nobody touched, with
  `archive_verification_claim_mismatch`, when it comes with its checkpoint and
  the archive has advanced since, or reaches a connector without the archive;
  and a bundle of a connector without the archive fails when the archive attests
  its head by now. That is what `calm` excludes in `UntouchedBundlesPass`;
  `src/README.md:774` recommends a checkpoint after a restart and does not say
  that the archive must not have moved.
* `compile` and `archive append` may end with exit code 2 and have stored the
  records: the append comes first, and the checks of the artifact after it.
  `compile` and `verify` do not refuse an output path that is also an input.
* `src/docs/ARCHITECTURE.md:41` says that the isolated compiler applies one deadline
  to the complete pipeline. The parent passes on what remains of it
  (`isolation.py:700`) and the wait adds that to the clock again
  (`isolation.py:167`), so a parent that is paused between the two readings
  accepts a worker that exited after the deadline by as much. `lapsed` is the second
  deadline, and `OnlyTimelyResults` is about it.
* Of a stream that keeps returns, `serve_stdio` takes a return at the end of a bounded
  read for the end of a line (`connector.py:2916`, `connector.py:2919`): the rest of
  an overlong line is then answered, and may be handled, on its own. The command line
  reads `sys.stdin`, where this does not happen.
* `serve_stdio` counts the end of a line towards `max_request_bytes`, and answers
  a line of white space that exceeds it. A byte that is not UTF-8 raises outside
  the handler and ends the service, although `src/README.md:758` says that
  protocol errors are answered and the service goes on.

The histories that `Ordinary` leaves out compile to a ledger that the compiler's
own verification refuses. No wrong ledger is returned as verified, but nothing
is returned as passed either. All were reproduced on the code:

| Left out by | What happens |
|---|---|
| `SaidOnce` | "Do not change the API." and later "do not change the API" merge into one constraint with the first spelling (`resolver.py:194`). The second is a candidate of its own for the certification pass, which compares texts as they are spelled (`models.py:725`), and is reported as `protected_commitment_missing`. |
| `SaidOnce` | "Reference: README.md" and later "Reference: readme.md" merge; the one reference that is left differs from the quote of the other place (`exact_literal_changed`, `verifier.py:584`), and the other is missing. |
| `FactsStand` | The second bullet of a `Facts:` section is extracted as a confirmed fact (`extractors.py:709`); the verifier accepts a label on the line of the fact or on the one before (`verifier.py:190`) and reports `fact_without_confirmation_evidence`. |
| `FactsStand` | "Fact: the proxy port may be 80." is extracted as a confirmed fact and refused as `unresolved_promoted_to_fact` (`verifier.py:598`). |
| `SaidOnce` | A correction said twice is merged, equals no candidate of the certification pass any more, and what it retired counts as orphaned (`verifier.py:762`). |
| `SaidOnce` | An assistant repeats a correction: the derived value merges with the assistant's decision and leaves the place of its correction (`verifier.py:260`). |
| `SaidOnce` | Two conflicts over the same texts, once as constraints and once as decisions, share one conflict node of four items (`resolver.py:663`). |
| `Related` | The verifier keeps words that the resolver drops, so it can reject an answer the resolver accepted (`verifier.py:239`). |
| `ReplacesLike` | A correction of a value that another correction made in the same compilation is linked to the value's temporary id, which the next `canonicalize` replaces (`resolver.py:306`; the chain of `tests/test_context_compiler.py:569` consists of extracted values, which are linked correctly). |
| `ReplacesLike` | The value made from the correction of a fact is a fact that no one confirmed, and of a reference one that is not exact (`resolver.py:316`). |
| `Answering` | A correction that also answers a question supersedes a fact and the question, and the verifier wants questions only (`verifier.py:660`). |
| `Recognized` | The extractor takes more sentences for corrections (`extractors.py:122`) than the resolver and the verifier (`resolver.py:25`, `verifier.py:51`). "We changed the requirement: the service must run offline." yields a constraint tagged as derived from a correction (`extractors.py:825`) whose correction the resolver skips (`resolver.py:353`); the verifier finds none behind the tag (`verifier.py:258`). |
| `KindsAgree` | Two decisions, of a limit of 10 and of 30, are corrected to 20 and 40 by corrections that are also constraints. The two new values contradict each other as decisions and as constraints; the two conflict nodes have one text and merge into one of four items (`resolver.py:663`), which is no conflict of two to the verifier. |
| `ToolsAgree` | A trusted tool's fact contradicts a participant's; the open question that must cite both may not cite a tool (`verifier.py:531`). |

## 7. Not modelled, and what is next

Not modelled, and why:

* Text: the patterns of the extractors, redaction, rendering, JSON and schema
  decoding. Their content is the text itself, which the models abstract to what
  the passes tell apart; tests over real sentences reach it better.
* Digests are what they are the digests of, so a collision is no behaviour.
* Path checks (`path_safety.py`) are a step that may fail. The exclusive mode of
  `atomic_write_text`, which links and then unlinks, is used by two benchmark
  programs only. The identity checks of `open_lock_file` against a replaced
  marker are one step that may fail.
* Inspection, comparison and schema compatibility of artifacts are pure
  functions over two documents.
* Argument parsing, benchmarks, evaluation, packaging and release scripts.
* Within modelled components: the Windows path of `compile_isolated` (its Job
  Object is modelled in `LocalQwen`), additive safety extractors,
  `include_superseded`, atomic, order and polarity support in the verifier, `resolve()` of the
  archive (a load and a pure comparison), the token accounting of bundles.
* A `KeyboardInterrupt` between the acquisition of the inference lock and the `try`
  that gives it back (`local_qwen.py:695`): no property claims that the lock is
  returned then.

Next, in this order: a composition of `StdioServer` with `Connector`; redaction as
a function over bounded texts.
