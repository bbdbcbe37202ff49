# Conjured: a verification project

TLA+ models of the conjured engine (`src/src/conjured`), the runs that check
them with TLC, and theorems about them checked by TLAPS.  Conjured compiles
declared pipelines of handlers into a typed dataflow graph and runs them under
strict rules about what is validated when, which of three error classes
(`ContractViolation` CV, `SchemaValidationError` SVE, `PipelineFailure` PF) ends
a run, whom a failure is blamed on, and which canonical events are emitted.

## 1. The system

| Part | State | Operations | Interacts with | Modelled by |
|---|---|---|---|---|
| Parsing and registration, `validator/parse.py`, `tokens.py`, `registry.py` | the registry under construction | `loads` / `parse_*` per document sort, `add_*` | the documents of an author; the first objection is raised | `Declarations`, `ChannelTypes` |
| File resolution, `validator/resolve.py` | the registry, declaration by declaration | `resolve_pipeline_bindings`, `resolve_compile_param_files` | the directories of declarations; runs before compile and hash | `FileResolution` |
| Compile, `validator/compile.py`, `ir/graph.py` | per call: the flat nodes, merges, scoped channels, collected violations | substitute bundles, flatten (group A), topology (B), coverage (C), recursion into embeds | the registry; feeds assembly; the walk relies on its rules | `CompilePipeline`, `Bindings`, `PipelineGraph` |
| Hashing, `hasher/hashes.py`, `canonical.py` | none | `pipeline_hash`, `training_bundle_hash` | declarations; artifacts and events carry the result | `Hashes` |
| Assembly, `runner/assemble.py` | per call: the nodes built, the adapters shared in a scope | join declarations into a `Runnable`, recompile embeds | compile, hasher, manifest | `Assembly` |
| The order of a load, `cli.py`, `testing/` | none that outlives a call | parse, register, resolve, compile, assemble, load again after an edit | all of the above | `Load` |
| Kernel walk, `runner/run.py`, `executor.py` | per run: `channel_state`, `written`, `seed_still_raw`, the node in flight, the budget clock | `run`: boundary, seeding, per node project / dispatch / route, restore, terminal event, result | calls dispatch, emits events, recurses into embeds | `KernelWalk`, contract `RunContract` |
| Dispatch, `runner/dispatch.py` | per dispatch: delivered bindings, services proxy, sink | deliver, validate reads, call body or adapter, capture, stream, validate output | author bodies, adapters, the caller's sink | `KernelWalk` |
| Namespace guard, `run.py` 184-270, 681-683, 925-935 | a snapshot per dispatch, the module's dict | snapshot, diff, restore, verify | bodies, and dispatches of other threads | `NamespaceGuard` |
| Server, `server/app.py`, `hub.py` | `_subscribers` per hub, a queue per stream, the event loop | POST /runs, GET events, GET stream, subscribe, publish | runs on threadpool threads, clients | `ServerStreams` |
| Artifact integrity, `manifest.py` | collected trainables, the registration at hand | collect, compare, emit drift, refuse | assembly, deployment | `ArtifactVerify` |
| Canonical events, `events/__init__.py` | logger level, handlers | emit, attach, block-scoped subscribe | logging, hub, capture | in part (what is emitted when) |
| Merge strategies, `ir/merge.py` | none | seed and fold of seven strategies | compile, the walk | in part (order, completeness, accepted types) |
| Client, `client/__init__.py`, `server/__main__.py` | child process, port file | start, await port, await ready, run, stop | the server process | not yet |
| Resolution of names to code, AST audit, model generation, adapters | none that outlives a call | | | not modelled |

### What is hard here

* **Seeds.** A caller's value is not validated when the run starts but at its
  first consumer: a reader, a hook, or a fold into the channel.  Five places
  look at `seed_still_raw`, and an absorbed hook failure may come in between.
* **Folds.** A channel's value is the left fold of its contributors, seed
  first, in graph and port order; readers see the fold of what is upstream.
* **Failures.** About twenty sites can fail; each is re-raised, wrapped or
  absorbed, and the blame (`failure_category`) is decided far from the site.
  The `finally` arm may fail too.
* **Records.** Training data is built from the events, so a missing terminal
  event or an event out of place is corruption.
* **Threads.** The server runs each trigger on a threadpool thread.  Items
  cross into the event loop as callbacks while streams come and go, and module
  namespaces are shared between runs.
* **Nesting.** Declarations hold each other by path: bundles in pipelines, pipelines
  in bundles, a trainable in either.  Three walks over the declarations
  (substitution, streaming scan, embed compile) each look for their own kind of
  cycle, and compile decides from declarations what the walk does with nodes.
* **Scopes.** Channels, merges, supplies and hook addresses of a composition are
  renamed or kept apart from those outside; the same handle may be supplied in
  several scopes with different values, and adapters are shared within one.
* **Two readers of one declaration.** Compile checks a supply, assembly looks it
  up, the hasher writes it down: each has its own code for defaults, nulls,
  overrides and files, and all must come to the same value.
* **Artifacts.** A load has two enforcement modes and may be refused at any
  registration, with drift events due on the way.

`PROJECT.json` lists these hazards at their lines, with the properties that
would catch them and, for those no property covers yet, why.

## 2. Modules

### PipelineGraph

The compiled graph as a record, the contributor derivation, `stream_route_position`
and one operator per topology rule that looks at no type; `Walkable` has those
the walk relies on, `Accepted` all of them.  `KernelWalk` assumes `Walkable` of its
graphs, `Load`'s run checks `Accepted` of what `CompilePipeline` hands on.

### CompilePipeline, Bindings

`compile_pipeline` for a registry of declarations.  `stack` has a frame per
call in progress, the outermost first: where it is (`pc`), its entry (`at`), the
flat nodes, merges, scoped channels, composition names, boundaries and faults
so far.  `done` is the set of units handed on, `outcome` the answer.

| `pc` | In the code | Actions |
|---|---|---|
| `substitute` | `substitute_bundle_nodes` | `Substitute` |
| `flatten` | `_flatten`, a step per entry | `FlattenHandler`, `SkipComposition`, `FlattenTrainable`, `FlattenEmbed`, then `CloseGroupA` |
| `topology` | group B | `CheckTopology` |
| `coverage` | group C, the compiled graph | `CheckCoverage`, `Deliver` |

`FlattenEmbed` pushes a frame, `Deliver` pops one and appends the embed's node to
the caller; a group of violations (`Raise`) is the answer of the outermost call
and joins the caller's group A from an inner one, as in the code.  A violation is
its check and its place; wording is left out.

A channel is the sequence of the names in its dotted string, so that `t.c`
spelled by an author and the internal channel `c` of composition `t` are the
same, as they are in the code.  `Bindings` has the values: TOML scalars, tables,
references, files and None, the spelling of the reserved null, the reductions of a
supplied value to what is bound (`Normalized`, `EffectiveConfig`), and the supply
and coverage checks.

`RegistriesTyped` is what parse guarantees of a registry and compile does not check
again: ports are lists of names and nodes a list of entries, every body but a hook's writes to some channel
(`_require_body` in `parse.py`), a channel has a name, no value is None, there is
a deployment or none, and every declaration has the fields of its kind.

### Hashes

`pipeline_hash` and `training_bundle_hash` as the structures they are taken over,
maps where the code sorts and sequences where it keeps an order.  Equal digests are equal
structures; SHA-256 and the bytes are left out.

### Assembly

`asm` has a frame per `_assemble_impl` call.  `AssembleBare` and
`AssembleTrainable` join a node with its declaration, binding values, service
adapters and transports; `RecompileEmbed` compiles an embed again (it pushes on
`CompilePipeline`'s stack) and `AssembleEmbed` assembles the unit;
`CloseAssembly` gives the node to the frame below, or the runnable to the
caller.  A join that does not find what compile guarantees ends in `drift`, the
engine error of the code.  `AssemblySpec` is a compilation and its assembly over one
registry, as `load_test_pipeline` runs them; `Load` has the same actions among
others.  `Meaning` is what of a runnable a run can observe:
everything but hooks and names.  Resolution of names to code always succeeds.

### FileResolution

`walk` has a frame per declaration whose `{ file = ... }` values are being read.
A file is read in the directory of the declaration that supplied it, and the
declaration is registered again with its values read (`ReturnResolved`).  Files
may be missing, not TOML or not text, directories unknown or empty.  `FilesSpec` is
the pass over declarations as they were parsed, and the compilation after it;
`RegistriesShaped` says which parts of a registry the pass touches.

### ChannelTypes, Declarations

`ChannelTypes` is the token grammar of `tokens.py`: a token is a sequence of
lexemes, `ParseToken` reads it into a type and `Token` writes the canonical
spelling; `ParseField` adds the field table with its sub-keys.  `Declarations` is
a loader per document sort, each the sequence of checks the code makes in its
order, of which the first refusal is the answer, and `Registering`, what is
then in the registry.  An author's mistake in the shape of a document is a member
of the document's `odd`.  What a field is read as depends on nothing but the field
and its section, so the fields are read first and the checks look at the results.

### Load

A load from end to end: `RefuseDocument`, `RegisterDocument`, `ReadFiles`,
`Compile`, `Assembling`; then `Reload`, which replaces the registry by one an edit
away and compiles and assembles again, keeping the earlier hash and meaning.
Families without documents or files start where a caller does who hands the
engine parsed declarations.  `MCLoad` has the families and the edits.

### KernelWalk

One call of `run`.  A channel value is the sequence of contributors folded
into it and whether a strategy has been applied, which is what order,
completeness and seed validity can be told from.  A nested embed is a dispatch
whose inner run may return, or raise any of the three classes, or break.

| `pc` | In the code | Actions |
|---|---|---|
| `call` | `_run` up to pipeline_start | `Refuse`, `Start` |
| `boundary`, `end` | `_check_timeout` before a task, at the return point | `BudgetLeft`, `BudgetSpent` |
| `reads` | the projection, lines 684-754 | `SeedRefused`, `SeedValidatorBreaks`, `FirstFoldBreaks`, `ReadsCopyBreaks`, `Project` |
| `deliver` | `dispatch_callable` up to the body | `DeliveryBreaks`, `ReadsRefused`, `ReadsValidatorBreaks`, `EnterBody` |
| `body` | the body or the adapter, then output validation | `BodyRaises`, `AdapterAnswers`, `AdapterBreaks`, `CaptureBreaks`, the fragments, `OutputRefused`, `OutputValidatorBreaks`, `BodyReturns` |
| `embed` | lines 755-825 | the fragments, `ForeignHalt`, `EmbedEscapes`, `EmbedReturns` |
| `route` | `_route_writes`, a step per port | `RoutePort`, `RouteSeedRefused`, `RouteSeedValidatorBreaks`, `FoldBreaks` |
| `restore` | the `finally` arm | `NamespaceBreaks`, `TaskEnds`, `TaskHalts` |
| `failed`, `close` | lines 964-1015 | `Fail`, `Complete` |

`Halt` is a failure that ends the run, `RaiseRaw` one that meets the
`except Exception` arm: wrapped with `Category` (`_wrap`), and absorbed when the
node is a hook.  `Expire` is the clock: it may pass the budget at any step,
only the boundaries look.  The environment (bodies, adapters, sinks, foreign
validators) fails at any of `Faults`.

`trace` is a history variable: the canonical events with the position they name,
plus fragments, the sink's detachment and the expiry, so that properties can
relate them.

A pipeline with no nodes is excluded by assumption: it has no walk.

### RunContract, KernelWalkContract

What a caller of `run` relies on, with the inside of a node's task hidden: nodes
commit one at a time, a run returns only when all have, and then hands out for
each channel of the outer pipeline the left fold of *all* its contributors; a
run that raises hands out nothing; a run that began comes back.  `ContractSafety`
is all of it but the last.  `FoldOf` says what the left fold is without saying how it
is built: the one sequence that has each contributor once, in graph order.
`KernelWalkContract` states the refinement mapping.

### NamespaceGuard

Per dispatch: snapshot, any bindings and deletions by the body, comparison by
identity, one deletion or binding at a time, verification.  `Threads` is how many
dispatches overlap: 1 in a plain process, more in the server.

### ServerStreams

Runs, streams, two hubs and the loop.  A publish is the copy of the subscriber
list under the lock (`Snapshot`) and one `HandOff` per subscriber after it; the
end marker is published on the loop thread, so in one step.  A stream is its
queue and the frames it has yielded.  A run's work between emissions is hidden.
Two approximations: the canonical hub's `emit` runs under the logging handler's
lock, so the model has more interleavings of two runs than the code; and
`PublishEnd` is modelled for runs that have an id a client can know.

### ArtifactVerify

`collect_trainables` node by node, then the registrations in order.  A sidecar
is absent, malformed or read; a read one records a hash (or none) for the
trainable, and the current pipeline-hash or not.

## 3. Runs

| Run | States | What it shows |
|---|---|---|
| `KernelWalk` | 111 k | all invariants, the action property, termination with a terminal event, and the contract, for six graphs and a small family of all walkable ones, under every fault |
| `Streams` | 130 k | gapless frames, closure, registry and termination for two streams of one run, for an event and a token stream of one run, and for two concurrent runs under two ids |
| `OneThread` | 7 k | sequential dispatches always restore the namespace |
| `Artifacts` | 95 k | an enforced load is verified, a successful one has reported exactly its drift |
| `Load` | 60 k | for six families of declarations: parsing, files, compile, assembly and hash agree with each other, and every load ends |
| `ServiceBlame`, `IdleBound`, `TwoThreads`, `DriftEvents`, `PortOrder`, `BackendHandle`, `NamedAlike` | | violations of what the docs say, see section 5 |

Bounds, and why they are enough:

* `KernelWalk`: three channels and six graphs of two to four nodes.  The graphs
  were chosen so that each kind of node occurs before, on and after a seeded,
  merged, scoped or streamed channel: a hook reads the seed first; a fold
  consumes it first with two ports of one node; a trainable reads a seeded
  merged channel before any write; the stream is the node's own or an embed's.
  All inputs given or one missing, every subset of two ill-typed inputs, with
  and without budget and sink.  `MaxCalls` = 2 adapter calls or fragments: one
  before and one after a detachment or a failure.  `Faults` = every site.
  To these come all walkable graphs of up to `MaxNodes` = 2 transforms and hooks
  over one channel: a seed and a write, two writes, a read before a write, each
  with and without a strategy, are what the topology rules are about, and a rule
  that let one of them through would be met there.
* `Streams`: three canonical events and one fragment, the shortest run with an
  event that is neither first nor last.  Two event streams make two handoffs of
  one publish, between which everything else may happen; an event and a token
  stream are the two hubs with one loop; two ids are what it takes to mix
  streams up.
* `OneThread`: three names cover added, deleted and rebound together, in each
  of three dispatches.  `TwoThreads`: one name and two dispatches are enough for
  the counterexample.
* `Artifacts`: three compositions of which two share a name, two registrations;
  the loop carries nothing else from one registration to the next.

* `Load`.  A compile does one thing per entry, so what matters is which entries meet.
  `Nestings`: two pipelines, two bundles and a streamable trainable, each
  holding others in several ways, so that cycles of every mixture of kinds and
  streams behind two embeds occur.  `Wirings`: a handler before and after a
  composition of one or two preprocessors, under every spelling of maps, merges,
  boundaries and internal channels.  `Supplies`: one pipeline in which the same
  handle is bound in three scopes, with each value, block, override and
  deployment varied one at a time.  `Files`: each declaration supplied from a
  file of the same name in its own directory, each directory and file missing or
  broken in turn.  `Documents`: one document of each sort, each of its sections,
  fields and values written otherwise in turn, and all documents in one load.
  `Edits`: for two pipelines that load, each edit an author may make (a
  value, a default, an order, a hook, a name, a bundle inlined ...).
* `PortOrder`: one handler with two ports on one merged channel, and one edit.
  `BackendHandle`, `NamedAlike`: one registry each.

`CHECK_DEADLOCK FALSE` stands in each cfg: runs, streams and loads really end.

Fairness.  `KernelWalk` has `WF_vars(Next)`: the walk is one thread and waits for
nothing of its own; what is assumed is that bodies, adapters and sinks come
back.  The clock need not run out, and calls and fragments are bounded by
`MaxCalls`.  `ServerStreams` has weak fairness per started run, for the loop's
scheduled callbacks and for a generator that has an item; no client is obliged
to post, open or leave.  `Load` has `WF_load(Loading)`: resolve, compile and
assemble are sequential code that waits for nothing, so once called they go on; handing
in the next document and loading again after an edit are the caller's, and have none.
The other modules have safety properties only.

### The properties

* `NoIllTypedSeedConsumed`, `CopyFailureNeverHidesBadSeed`,
  `ReturnedRunReadNoBadSeed`: the three faces of first-consumer validation.
* `ChannelsAreLeftFolds`, `ReadersSeeUpstreamFold`: channel values against the
  contributor derivation, at every step and at every reader.
* `NoEngineBug`: what compile guarantees is what the walk takes for granted.
* `BlameMatchesRecord`: `failure_category` agrees with the events of the node.
* `RecordWellFormed`, `OnlyHooksLackExit`: the grammar of the event record.
* `SinkWall`, `ExpiryStopsAtNextBoundary`: streaming and the budget.
* `FirstErrorStands` (action property), `StartedRunReportsItsEnd` (liveness),
  `ContractSpec` (refinement, its liveness included).
* `FramesAreGapless`, `TerminalFrameCloses`, `RegistryHoldsOpenStreams`,
  `AttachedStreamEnds` (liveness): the streams.
* `MutationsAreReverted`, `RestoreSucceeds`: the namespace guard.
* `EnforcedLoadIsVerified`, `LoadReportsDrift`: the artifact comparison.
* `NoCycleCompiles`, `StackIsSimple`, `LoadEnds` (liveness): declarations that
  contain themselves, against three detections that each see part of it.
* `CompiledGraphsAreAccepted`: what compile hands on keeps the rules `KernelWalk`
  assumes and the streamable-terminal rule, also where compile decided from
  declarations which node will stream.
* `MergesStayInScope`: an outer merge entry never governs an internal channel.
* `AcceptedAssembles`, `SharedAdapterAgrees`, `DeliveredTransportFits`: what
  compile checked is what assembly finds, in the right scope.
* `HashTellsMeaning`: an edit keeps the pipeline-hash iff it keeps what a run computes.
* `FilesResolvedAtHome`: each file is read next to the declaration that names it.
* `AdmittedAtItsPosition`, `NullsAreSpelled`: what the parser lets through, by
  whatever route it came.
* `TokensRoundTrip`: the reader undoes the canonical spelling of a type.

Definitions whose comment starts with "Mutant of" are not used by any
specification: each is a plausible bug in the definition it names, and with it
in place the run named in `PROJECT.json` must fail.

## 4. Theorems

Each theorem below is about its module's specification, for every value of the
constants under the assumptions named; TLC evaluates those assumptions on every
run of the module.  Where a property is in the third column, a run of section 3
checks that same definition on its instance.

### The walk: KernelWalkProofs, KernelWalkFoldProofs, KernelWalkRecordProofs

For every set of channels, every set of walkable graphs with at least one node,
all requests, all faults and every `MaxCalls`.  Assumptions (of `KernelWalk`):
the graphs are typed (`GraphsTyped`), non-empty and keep the topology rules but
`StreamableTerminal` (`GraphsWalkable`), and `MaxCalls` is a natural number (`MaxCallsNat`).

| Module | Theorem | Property |
|---|---|---|
| `KernelWalkProofs` | `TypeCorrect` | `TypeOK` |
| | `FirstErrorHolds` | `FirstErrorStands` (action property) |
| | `IllTypedSeedsStayOut` | `NoIllTypedSeedConsumed` |
| | `CopyFailuresAreTheEngines` | `CopyFailureNeverHidesBadSeed` |
| | `ReturnedRunsReadGoodSeeds` | `ReturnedRunReadNoBadSeed` |
| `KernelWalkFoldProofs` | `ChannelsStayLeftFolds` | `ChannelsAreLeftFolds` |
| | `ReadersSeeUpstream` | `ReadersSeeUpstreamFold` |
| | `EngineNeverBreaks` | `NoEngineBug` |
| | `WalkKeepsContract` | `Contract!ContractSafety`, the safety part of `ContractSpec` |
| `KernelWalkRecordProofs` | `RecordStaysWellFormed` | `RecordWellFormed` |
| | `HooksAloneLackExit` | `OnlyHooksLackExit` |
| | `BlameFitsRecord` | `BlameMatchesRecord` |
| | `SinkStaysWalled` | `SinkWall` |
| | `ExpiryStops` | `ExpiryStopsAtNextBoundary` |

*Basis.*  `TypeOK` is not inductive: that `at` stays in the graph needs to
know where the walk is, and that every failing step leaves a well-formed error
needs the position to be that of a node.  `Basis` adds `WellPlaced` (position,
port and `pc` belong together) and `ErrorsHalt` (an error in flight is only seen
on the way out); the first error then stands because every step that sets
`err` starts from a `pc` at which `ErrorsHalt` says there is none.

*Seeds.*  That no projection carries an ill-typed seed follows from two
facts about channels: a channel still in `seed_still_raw` holds exactly the
seed (`RawSeeds`), and in any channel the seed can only be the first
contributor (`SeedsLead`), so that an ill-typed value is always an unvalidated
raw one.  `SeedsHeld` is `Basis` with these and the property itself; its
step has one case per action that touches channels, and a lemma
(`FailedTask`) for all that only fail.  `PastReads` is the induction along the
walk for returned runs: every node already left that is not a hook had
well-typed inputs, for only a hook's failure is absorbed.

*Folds.*  `ChannelsAreLeftFolds` speaks of what a channel holds; to keep it, a
`RoutePort` step must know that the new contributor is later than all that are
there, and which of first write, first fold and fold it performs.  `FoldsHeld`
therefore adds that a channel outside `written` is as the call left it
(`UnwrittenUntouched`) and that one in `written` holds a write, folded when it
is merged (`WrittenHasWrite`).  The lemmas about contributors (what a write
contributor is, that upstream of a port is what was done before it, that an
unmerged channel of a walkable graph has one contributor) carry the topology
rules into the walk: `MergeDeclared` and `SingleAssignment` make the
second-contributor assert unreachable, `InputClosed` puts a value in each
channel that is read.  At the return point every contributor is upstream, and a
sequence that holds each contributor once in graph order is the only one there
is: that identifies `RunResult.state` with the `CHOOSE` in the contract's
`FoldOf`, and `WalkKeepsContract` follows, one lemma per way a walk moves.

*Record.*  `RecordHeld` splits the grammar by when it is established: how the
record opens (`Opened`) and closes (`Closed`), what it has of the node at hand for
each value of `pc` (`AtHand`), of the nodes left behind (`Behind`), and the order
between any two events (`Ordered`).  Blame needs nothing more, since
`failure_category` is decided at the node at hand.  `Walls` places the
attachment of the sink (`SinkPlaced`) and the expiry (`ExpiryPlaced`) along the
walk in the same way.

### Declarations: CompilePipelineProofs

Of `CompilePipeline`'s `Spec`, for every sequence of families of registries and
every `Cyclic`.  The assumptions: "outer" and "root", which stand for the outermost
declaration, are no composition's path (`OuterIsNoPath`), and registries are as
parse leaves them (`RegistriesTyped`, section 2).

| Theorem | States |
|---|---|
| `StackNeverRepeats` | `Spec => []StackIsSimple` |
| `RecursionIsBounded` | with finitely many pipeline declarations the stack is no longer than there are of them, and the outermost |
| `MergesKeepTheirScope` | `Spec => []MergesStayInScope` |
| `CompiledGraphsKeepTheRules` | every unit handed on, embedded ones included, satisfies `SingleAssignment`, `MergeDeclared`, `MergeWired`, `InputClosed` and `BoundaryLive` |
| `CompiledGraphsAreWalkable` | every graph handed on is a graph over some set of channels and `Walkable` |
| `CyclesNeverCompile` | `Spec => []NoCycleCompiles` |
| `ScannedGraphsAreAccepted` | `Spec => [](NestedApart(reg) => CompiledGraphsAreAccepted)` |
| `CompilingAgainAgrees` | `Spec => []EveryAnswerAgrees` |

`IInv` (theorem `CompileInvariant`) says: the frames' paths are
distinct and every frame but the last waits in group A; what each frame has
flattened has the shape a graph's node must have and is traced to its entry
(`FlatHolds`); and what has been handed on is right (`UnitHolds`): its graph is
walkable, what its nodes call is supplied in their scope with a config that binds
(`Configured`), every block that the deployment can deliver for them is complete
(`CoveredBy`), and so is a hook's (`HookCovered`).  All but the first are for
the assembly, below.
`StackIsSimple` is inductive with it, since a frame is pushed only for a path
on no frame, and the length of the stack is then bounded by an injection
into the paths.  For merges, `MergesTraced` says that an entry of a frame is
either the declaration's own, of a channel it declared, or a composition's, of
a channel it scoped; that the two do not meet is known only after
`CloseGroupA`, which rejects outer entries for scoped channels, so
`GroupsPassed` ties that to the later values of `pc`.  In the same way
`CheckTopology` has found no fault when `pc` is `coverage`, and one lemma
per rule shows that the absence of its fault is the rule.  That no channel a
composition scopes is a boundary field, the last part of `Walkable`, is because a
scoped channel has at least two names (`Deep`) and a boundary field one.

*Cycles.*  `CyclesInv` (theorem `CyclesInvariant`) says that there is a set of
compositions, the finished ones, that is closed under naming (`Closed`) and founded:
each of its non-empty subsets has a member that names none of them (`Founded`), so no
member reaches itself (`FoundedIsAcyclic`).  The entries a frame has gone through
name only finished compositions, unless a fault has been found (`FrameFinished`), and
a frame below the top waits with a node that names the declaration above it.  When
`Deliver` pops a frame, what is left of its nodes after substitution is finished.  Then
so are the bundles that were inlined there (`BundlesFinish`): inlining carries the
bundles it is inside of and has met none twice, so one met with the fewest bundles
left names no other of its set (`InlinedFounded`).  Then everything the declaration
names is finished, and it can be added itself (`FoundedOneMore`).  The detections
together therefore miss no cycle, be it of embeds, of bundles or of both, and that a
path is on the stack once is not needed for it.

*Streaming.*  Where an embed stands, compile must know whether it will stream, and asks
`_embed_terminal_streams`, which reads declarations, before the embed is compiled.
That the graph of the embed then streams only if the scan said so is what
`ScannedGraphsAreAccepted` needs, and it is shown from the other end: when a call
delivers a graph that streams, the scan of its path says "yes" (`DeliveredStreams`).
`StreamInv` (theorem `StreamInvariant`) says that a frame without a fault has resolved
every entry it has gone through, and that a node of it that streams comes from an entry
that streams and that only hooks follow, in the declaration as in the flat sequence
(`StreamsTraced`); and that a frame waiting for an embed has seen that the scan's answer
fits the embed's place (`EmbedPlaced`).  An entry that streams is a streamable trainable
or a pipeline for which the scan answers "yes" whatever it went through before
(`StreamsYes`), which is one step of induction along the embeds (`StreamsOn`): the scan takes
the last entry that is no hook, as the flat sequence does, and goes on with it, unless
its meta.name is one the scan has gone through.  That name would be of a pipeline
reached from this one; by `CyclesInv` that is another, and the hypothesis `NestedApart`, that
no pipeline embeds at any depth another one of its own meta.name, excludes it.  Without
the hypothesis the property is false: `NamedAlike` (section 5) is the counterexample.

*Answers.*  A declaration is compiled wherever it is embedded, and once more for each
embed when the outermost pipeline is assembled (`_recompile`).  `CompilingAgainAgrees`
says that every call of the same declaration delivers the same unit, and
`RecompilingAgrees` says it over assembly, although the calls differ in what their
callers have gone through, by which a cycle is detected.  Its invariant, `RecallInv`
(lemmas `RecallInvInit` and `RecallInvStep`), has a set of frames, the trail (`Trail`),
that holds the first frame of every call answered so far (`Begun`) and for each of its
frames the one that a fault-free call goes on with (`GoesOn`), up to a frame whose unit
was handed on.  How a frame goes on depends on nothing but the frame and the answers to
its embeds, so a second call of the same declaration stays on the trail (`Tracked`): it
has no fault, is not refused (`RecallNext`), and its unit is the first one's.  A frame
that waits for an embed is such a frame with one entry seen (`Waiting`), which is why
the trail is kept for the whole stack.  The one fault that depends on the caller, a path
already on the stack, would be of a path that was answered and reaches itself, which
`CyclesInv` excludes.

`CompiledGraphsAreWalkable` is what the walk assumes of its graphs
(`GraphsTyped`, `GraphsWalkable`): the chain from declaration to run is closed, except that
the walk's graphs are non-empty.

### Files and assembly: StageProofs

For every sequence of families of registries, under the assumptions of
`CompilePipelineProofs` and `RegistriesShaped`.

| Theorem | Property |
|---|---|
| `FilesAreReadAtHome` | `FilesSpec => []FilesResolvedAtHome` |
| `SharedAdaptersAgree` | `AssemblySpec => []SharedAdapterAgrees` |
| `DeliveredTransportsFit` | `AssemblySpec => []DeliveredTransportFits` |
| `RecompilingAgrees` | `AssemblySpec => []EveryAnswerAgrees` |
| `AcceptedPipelinesAssemble` | `AssemblySpec => [](HandlesApart(reg) => AcceptedAssembles)` |
| `LoadsKeepTheirPromises` | `StagesSpec => []LoadPromises` |

*Files.*  The pass returns from compositions in the order of a depth-first walk, and
one met twice is read twice.  `FilesInv` (theorem `FilesInvariant`) says that there is
a set of compositions already returned from that is closed under naming
(`ClosedUnder`) and whose values are all read, each at its home; and that every
frame's nodes before the one at hand are read and name only members of that
set (`WalkRead`).  When the pass has ended the root's nodes name only members, and
the composition paths reached from them in any number of rounds stay in a closed
set (`ReachedStaysIn`).  The pass starts from declarations in which nothing has
been read (`AsParsed`).

*Assembly.*  `AInv` (theorem `AssemblyInvariant`) has compile's `IInv` beside two facts:
every frame's unit is one compile handed on, its adapters have the type and
identity of the scope of their key, and its nodes call their own scope's
supply with a transport that fits (`AsmHolds`); and a compile call that
assembly made has the path of the embed at hand, so that a call not refused is
answered with a unit of that path (`Answered`).  A transport is checked by
compile alone, against every block the deployment could deliver; that the block
`TransportOf` delivers is one of them, and what the override and the
reserved null make of it, is the content of `DeliveredTransportsFit`.  An
adapter is shared by scope and handle, and that handles agree between scopes is
not needed: that is what the scope in `AdapterKey` is for.

*Assembling what was accepted.*  That assembly finds everything it looks for needs
more than `AInv`: `AssemblesInv` (theorem `AssemblesInvariant`) adds compile's
`RecallInv`, and that while a unit is assembled nothing has been refused and every embed
being compiled again was answered before (`Unrefused`).  With that, one lemma per
action of `Assembly` shows that it raises no engine error: a binding has a supply
entry in its scope, of its type and with a config that binds; each transport field
has a value or a default in the block delivered; a hook's block is the
one its address was covered with (`HookHasBlock`); and an embed is never refused the
second time.  The hypothesis is `HandlesApart`: no preprocessor declares a service binding
under the handle of its composition's backend.  Without it the property is false, and
`BackendHandle` (section 5) is the counterexample.

*A load.*  The theorems above are of `FilesSpec`, or of `AssemblySpec`, whose registry
stays as it is.  `StagesSpec` has both: the files are read, then what that leaves
registered is compiled and assembled, as `Load` does once the documents are in.
`LoadsKeepTheirPromises` says that `FilesResolvedAtHome` and what the theorems say of
compile and assembly (the conjuncts of `LoadPromises`; that graphs are walkable and the
stack bounded is left to `Spec`) hold throughout.  What has to be shown is that
the pass over the files leaves a registry typed in every step (`ResolveTyped`), so that
the call of compile begins as `Spec` does (`Beginning`); `StagesInv` (theorem
`StagesInvariant`) is the invariants of the stages, one after the other.  A load
that starts from parsed declarations without files enters compile in the same initial
state (`Before` in `Load`).  What remains to TLC is that the registries that documents and
reloads leave are typed: the run `Load` checks the properties over them.

### The namespace: NamespaceGuardProofs

For every set of tasks, names and imports, under the hypothesis `Threads = 1`.

| Theorem | Property |
|---|---|
| `RestoreSucceedsAlone` | `RestoreSucceeds` |
| `MutationsAreRevertedAlone` | `MutationsAreReverted` |

`GuardInv` (theorem `GuardHolds`) says that bodies do not overlap (`Alone`), that between two
dispatches the module is as imported (`Settled`), and that a running task's copy is
the import and its diff exactly what differs (`DiffIsCurrent`).  The hypothesis
is the code's own situation outside the server; without it the run `TwoThreads`
violates the property.

### Artifacts: ArtifactVerifyProofs

For every set of compositions, deployments and tables.  Assumptions: names and
hashes are typed (`NamesAndHashesTyped`), a table has one row per name
(`TablesTyped`), and None is no composition (`NobodyIsNone`).

| Theorem | Property |
|---|---|
| `TypesHold` | `TypeOK` |
| `EnforcedLoadVerified` | `EnforcedLoadIsVerified` |
| `LoadReports` | `LoadReportsDrift` |

`VerifyInv` (theorem `VerifyHolds`) follows the rows: collection names each composition
(`NamesCollected`), every row gone through was admitted (`RowsAdmitted`), and the
events are a function of the rows gone through (`EventsSoFar`), including the
one row of which only the bundle has been compared.

### The server: ServerStreamsProofs

For every number of runs, streams and ids, and every length of a run.
Assumptions: scenes are typed (`ScenesGiven`), a run has at least two events,
and only runs stream (`BoundsGiven`).

| Theorem | Property |
|---|---|
| `ServerTypes` | `TypeOK` |
| `StreamsAreGapless` | `FramesAreGapless` |
| `TerminalCloses` | `TerminalFrameCloses` |
| `RegistryHolds` | `RegistryHoldsOpenStreams` |

An item comes to a stream in four stages: pending in a publish that still has
the stream ahead, scheduled on the loop, queued, framed.  The invariant
(`Shape` and `Held`, theorem `StreamsHold`) follows it: what is in any stage
belongs to the stream (`Addressed`), the stages and the items of one run in
each are in order (`InOrder`), a publish holds the run's newest item for each
stream once (`Publishing`), and everything published since an open stream
subscribed is in one of the stages (`Covered`).  Gaplessness of the frames is
`InOrder` and `Covered` together: a frame missing would have to be behind one
that is there.  That `Covered` survives a subscription between a snapshot and
its handoffs is why `since` counts from the subscription.

### Checked by TLC only

* Liveness: `StartedRunReportsItsEnd`, `AttachedStreamEnds`, `LoadEnds`, and the
  fairness part of `ContractSpec`.  The prover has no rule for fairness or
  ENABLED.
* `AdmittedAtItsPosition`, `TokensRoundTrip`, `NullsAreSpelled` and
  `HashTellsMeaning` are properties of `Load`, which reaches `ChannelTypes`; that
  declares RECURSIVE operators, and the prover has no backend for them there.

## 5. Where code and documents differ

1. **Service blame** (`ServiceBlame`).  `_wrap` calls every uncarried failure of
   a trainable "service", also when a validator raised before the adapter was
   called.  The error-channel reference defines "service" as a failure that
   escaped a backend call.
2. **Idle bound** (`IdleBound`).  The stream timeout bounds every wait, also
   after the first frame; the server reference says a live stream has no bound.
3. **Overlapping dispatches** (`TwoThreads`).  One dispatch snapshots another's
   mutation and puts it back after it was reverted.  The handler reference says
   mutations are reverted.
4. **Drift events** (`DriftEvents`).  A bundle mismatch under enforcement raises
   before the same manifest's pipeline-hash is compared; module docstring and
   pipeline reference say drift events fire on every mismatch.
5. **Port order** (`PortOrder`).  The ports of one node are folded into a merged
   channel in declared order, which the pipeline-hash sorts away; the hash model
   says nothing consumes that order, and `_route_writes` that it is hashed.

6. **Backend handle** (`BackendHandle`).  A preprocessor may declare a service
   binding under the handle of its composition's backend.  Compile then takes the
   config of that handle to be [trainable.config] and refuses a config block on the
   supply entry; assembly delivers the preprocessor the supply entry's config,
   and refuses it when the type has a config field without a default.  The
   docstring of `effective_config` says a fault there means that declarations
   drifted.  Found in the attempt to prove `AcceptedAssembles`; that this is
   the only such case is `AcceptedPipelinesAssemble`.

7. **Named alike** (`NamedAlike`).  `_embed_terminal_streams` remembers
   `meta.name`s, not paths: of two different pipelines with one name, one in the
   other, the inner is taken for a cycle, and its stream for none, so that a service
   may follow it and the graph is handed on.  In one pipeline names are unique; across
   levels they need not be.  The docstring says that what is cut off there is a
   cycle that flatten rejects.  The walk's assumption leaves this rule out, since
   compile does not guarantee it: such a stream has no route, and nothing else of
   the walk depends on it.

Smaller observations made while modelling, which no run refutes a document with:

* A map of an outer node may spell `t.c` and so read or write an internal channel of
  composition `t`; only outer merge entries for it are rejected
  (`ScopedMergeFaults`).  The glossary's entry on scoped channels says handlers outside
  cannot reach it.
* A malformed null in `[trainable.config]` passes the parser and is raised from the
  middle of flatten: the violations collected until then are lost
  (the `BrokenNull` branch of `FlattenTrainable`).
* A hook's reads-copy failure is a PipelineFailure that halts the run; the error
  reference's two-case rule for hooks (R-error-channel-003), which it calls
  exhaustive, has no such case.
* A datetime in a hashed value is a tagged map, which an author can also write.
* A pipeline composition registered by a bare relative file name has the directory
  "" and is refused when it supplies a file; a trainable or bundle in the same place
  resolves against the working directory (`FileResolution`, `AnchorOf`).
* An outer hook whose name is spelled like composition-dot-preprocessor shares that
  preprocessor's hook-transport address.
* A pipeline compiled without a deployment and assembled without one is refused by
  assembly with a bare ValueError; `AcceptedAssembles` is about deployed ones.

## 6. Plan

Done in this order: `PipelineGraph`, `KernelWalk`, its contract, `ServerStreams`,
`NamespaceGuard`, `ArtifactVerify`, `KernelWalkProofs`; `CompilePipeline` with
`Bindings`, `Hashes`, `Assembly`, `FileResolution`, `ChannelTypes`, `Declarations`,
`Load`, `CompilePipelineProofs`; then the proofs about the other components, and
`StageProofs`.  To come:

1. Proofs: that the documents that parse leaves, and a reload, keep a registry typed,
   which needs `ChannelTypes` without RECURSIVE operators.
2. `NestedRuns`: two walks composed through an embed (parent_run_id, deadline and
   budget, sink threading, halt propagation), in place of the embed's free inner
   outcome.
3. `ClientLifecycle`: child process, port file, the two deadlines, stop.
4. `EventChannel`: emit's consumer wall, attachment, overlapping block-scoped
   subscriptions.
5. `MergeStrategies`: the seven strategies as operators against a reference
   definition on bounded values.
6. Audit-stamp enforcement; runs with reused run ids; a finer `NamespaceGuard`
   in which the diff iterates a changing dict.

Not planned: the resolution of names to Python objects, the AST audit, the
generation of pydantic models, the byte encodings of hashes and derivables, error
payloads and rendering.  They are sequential functions of data whose difficulty
lies in Python's object model or in formats rather than in state, and a model of
them would repeat them.
