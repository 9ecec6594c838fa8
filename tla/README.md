# TLA+ models of the security-profiles-operator profile recorder

This directory holds TLA+ models of the part of the security-profiles-operator
node daemon that records profiles from the audit log, an abstract
specification of the enricher's aggregator with the refinement that maps the
enricher onto it, the TLC configurations that model-check them, and TLAPS
proofs of the main safety properties and of the refinement.

## The system

Three parts of the node daemon work together when a pod records a profile.

* **The log enricher** (`src/unnamed/part_000`, package `enricher`) is one
  ingest goroutine (`Run`). It tails the audit log and attributes each line to
  a container. It then records the syscall name or the AVC into one of two
  `sync.Map`s, `syscalls` and `avcs`. Each map takes a profile id (the value
  of the recording annotation) to a `sets.String`. The gRPC server goroutines
  do two things with these sets:
  * `Syscalls` and `Avcs` return a set;
  * `ResetSyscalls` and `ResetAvcs` delete it.

  A `sets.String` is a plain Go map, and the ingest goroutine inserts into it
  without a lock.
* **The profile recorder** (`profilerecorder.go`) is a controller-runtime
  reconciler with one worker and a work queue of pod keys.
  * While a pod is Pending, `Reconcile` parses its annotations and stores a
    `podsToWatch` entry.
  * When the pod has succeeded or is gone, `collectProfile` collects every
    profile of the entry, in one of two ways:
    * from the files the OCI hook wrote (`collectLocalProfiles`);
    * or from the enricher. For each profile it makes three calls in order:
      the `Syscalls`/`Avcs` RPC (the fetch), `CreateOrUpdate` of the profile
      object (the write), and the `ResetSyscalls`/`ResetAvcs` RPC (the reset).
  * Any error is returned, and controller-runtime puts the pod back in the
    queue.
* **The SELinux policy builder** (`seProfileBuilder`, `formatSelinuxProfile`)
  turns the AVCs that `Avcs` returned into a CIL policy.

## Modules

| module | models | state / operators |
|---|---|---|
| `Enricher` | `New`, `Run`, `dispatchSeccompLine`/`dispatchSelinuxLine`, and the effect of the RPC handlers | `log` (the lines not yet read), `up` (the process is alive), `ing` (the ingest goroutine), `agg[kind][id]` (the sets) |
| `Recorder` | `Reconcile`, `collectProfile`, `collectLocalProfiles`, `collectLogProfiles`, `collectLog{Seccomp,Selinux}Profile`, the pod lifecycle, the enricher steps | `phase`, `queue`, `watch` (= `podsToWatch`), `rec` (the worker), `cluster` (the profile objects), `fails`; history variables `published`, `raced`, `recorded` |
| `PolicyBuilder` | `ctxt2type`, `addAvc`/`AddAvcList`, `Format`, `targetClassCtx`, `writeLineFromKeyVal`, `policyLine`, `formatSelinuxProfile` | pure operators |
| `Aggregator` | the aggregator the spec promises (§4.4, lifecycles): a set per kind and id, records consumed in order, per-key atomic insert and reset, restart from empty | `pending`, `store`, `up` |
| `RecorderAggregator` | the refinement mapping from `Recorder` to `Aggregator` | `Attribute`, `InFlight`, `AttributedLog`, `Pending`, `AG` |
| `MCRecorder`, `MCPolicyBuilder` | the instances TLC checks | |
| `RecorderProofs` | the TLAPS proofs of type correctness and `RecordedNotLost` | |
| `AggregatorProofs` | the TLAPS proof of the refinement | |
| `PolicyBuilderProofs` | the TLAPS proof that the policy allows every AVC, and the lemmas on the two sorts | |
| `OrderIndependenceProofs` | the TLAPS proof that the policy does not depend on the AVC order | |

### How the models correspond to the code

**Data is abstracted.**
* Syscall names and AVC records are model values of `Obs`.
* `UnknownSyscalls` are syscalls that have no name in the syscall table.
* `Malformed` are AVCs whose target context has fewer than three fields, so
  that `formatSelinuxProfile` fails on them.
* The annotations of a pod enter as constants: `HookAnn`, `LogAnn` and
  `RecordProfile`. They give the outcome of `parseHookAnnotations`,
  `parseLogAnnotations` and `getContainerInfo` for that pod.
* `extractProfileName` is the constant function `ProfileName`. It gives
  `None` for an id with no `-`.

**The insert into a set takes two steps.** `Insert` into a `sets.String` is
split into `BeginInsert` and `EndInsert`. This makes the handler's read
visible when it overlaps the write. Such a read is a concurrent map read and
write, and the Go runtime aborts the process on it. `Restart` is the kubelet
restarting the container: `New()` gives empty maps, and the tail seeks to the
end of the file.

**The handlers are modelled from the spec.** The RPC handlers (`Snapshot`,
`InsertInFlight`, `ResetProfile`) live in `grpc.go`, which is not under
`src/`. They are modelled from the spec and marked `spec_modelled` in the map.

**Reconcile is split into steps.** `Reconcile` is cut at every RPC and API
call that can interleave with the enricher:
* `Reconcile`: the Get of the pod, and the Pending branch.
* `Collect`: `collectProfile` and the start of `collectLogProfiles`.
* `CollectHook`: one profile of the hook recorder (`ReadFile`,
  `extractProfileName` and `CreateOrUpdate`, whose effect is `ApplyHook`).
* `Fetch`, `Write` and `Reset`: one profile of the log recorder.
* `Advance`: the loop over the profiles.

**Errors are transient or permanent.** A transient error (an API timeout, a
conflict, an RPC deadline) is a nondeterministic `Transient` step. The constant
`MaxFail` bounds how many there are. Two of the calls, `CreateOrUpdate` and
`ResetSyscalls`/`ResetAvcs`, can fail after taking effect, so their failure
branch may or may not apply the effect. Permanent errors are guards on the
constants:
* the log enricher is disabled;
* `ProfileName[id] = None`;
* a malformed AVC;
* a hook id in `HookBroken`: its file is missing (`ReadFile` fails) or is not
  valid JSON (the mutate function of `CreateOrUpdate` fails to unmarshal it).
  Either fails the same way on every retry, since the file does not change.

Each of them requeues the pod.

**The policy builder encodes strings as numbers.** Strings are natural numbers
whose order is the byte order, and `0` is `""`. A target context is the
sequence of its fields. A policy line is the tuple of the values `Sprintf`
puts into it.

**The two sorts are defined by their result.** `SortKeys` is `sort.Strings(sb.keys)`:
the keys permuted into ascending order. `SortedPerms` is `perms.List()` followed
by `sort.Strings`: the permissions of a set in strictly ascending order. Both
are written as a `CHOOSE` over permutations, and not with TLC's `SortSeq`,
because that operator is opaque to TLAPS. Both are deterministic, since a sort
of keys has one result: `OrderIndependenceProofs` proves that two sorted
permutations of the same keys are equal. TLC gives the same results as it
did with `SortSeq`.

**The refinement mapping.** `RecorderAggregator` maps the enricher onto
`Aggregator` as follows:
* The abstract backlog `pending` is the line the ingest goroutine holds
  between `LoadOrStore` and the end of `Insert` (`InFlight`), followed by the
  unread lines of the log. Each line is attributed to its pod's profile id
  (`Attribute`, what `getContainerInfo` returns).
* `store` is `agg` and `up` is `up`.

Under this mapping each enricher step is an aggregator step or a stutter:
* `ReadLine` that drops a line is `Ingest` without a record. `ReadLine` that
  loads a line is a stutter, because the line moves from the log to the
  goroutine.
* `BeginInsert` is a stutter.
* `EndInsert` is the atomic `Ingest` with a record. When a reset deleted the
  set meanwhile, it is `Ingest` without a record.
* `ResetProfile` is `Reset`.
* The crash in `Fetch` is `Stop`, and `Restart` is `Start`.
* `Emit` is `Observe`.

## Runs

| run | cfg | expect | checks |
|---|---|---|---|
| recorder_safety | `MCRecorder.cfg` | pass (10.8M states, ~2 min) | `TypeOK`, `RecordedNotLost` |
| recorder_liveness | `MCRecorderLive.cfg` | pass (674k states, ~1 min) | `CollectionCompletes` under `FairSpec` |
| retry_overwrites_profile | `MCRecorderRetry.cfg` | violation | `ProfileNeverShrinks` |
| map_race_crash | `MCRecorderRace.cfg` | violation | `EnricherAlive` |
| aggregator_refinement | `MCRecorderAggregator.cfg` | pass (1.75M states, ~1.5 min) | `ImplementsAggregator` |
| permanent_error_retries_forever | `MCRecorderStuck.cfg` | violation | `CollectionCompletes` with an id that has no `-` and a broken hook file |
| policy_builder | `MCPolicyBuilder.cfg` | pass | `FormatOrderIndependent`, `PolicyAllowsEveryAvc` |
| policy_duplicate_lines | `MCPolicyBuilderSpec.cfg` | violation | `PolicyMatchesSpec` |

### The properties

* **`RecordedNotLost`** says that every observation the enricher inserted into
  the set of `(kind, id)` since it last started is still somewhere. It is in
  the set, or it was published to the cluster for that profile, or it arrived
  between the recorder's fetch and reset of that profile (the race the spec
  accepts). The order fetch → write → reset exists to make this hold. The
  mutant `WriteIgnoringError`, which resets after a failed write, breaks it.
  Two choices in the history variables bound what it says. `published` is
  never cleared, so an observation once written counts as kept even if a later
  write replaces the object; that loss is `ProfileNeverShrinks`'s question.
  `recorded` counts only inserts into a live set, so the one insert the spec
  lets a racing reset orphan is not required to survive.
* **`CollectionCompletes`** says that once a tracked pod has succeeded or is
  gone, its `podsToWatch` entry is eventually removed. This has to hold through
  transient failures, requeues and enricher restarts. The mutant
  `RequeueDropped` (log the error and return nil) breaks it.
* **`ProfileNeverShrinks`** is what the spec promises for the write-before-reset
  order: a failure replays and loses nothing. It is violated:
  1. pod `a` records a seccomp and an SELinux profile;
  2. the seccomp profile is written and reset;
  3. a later step fails;
  4. the requeued `Reconcile` collects both profiles again and writes the
     now-empty seccomp set over the profile.

  A `ResetSyscalls` that runs on the server and still reports a deadline error
  leads to the same overwrite.
* **`EnricherAlive`** is violated: a `Syscalls` read overlaps an insert into
  the same set. That is a concurrent Go map read and write, and it aborts the
  enricher. The spec says readers never observe partially inserted entries.
* **`ImplementsAggregator`** is `AG!Spec`: the enricher implements the
  abstract aggregator. The abstract `Ingest` may drop any record and `Stop`
  may happen at any time, so the refinement does not bound which inserts are
  lost (`RecordedNotLost` does that). What it does check:
  * an unknown syscall is never recorded;
  * a line goes only into its own profile's set, in log order;
  * a reset empties only the set it names;
  * a restart starts from empty sets.

  The two-step insert appears atomic only because a read that overlaps it
  is the crash, which maps to `Stop`; `EnricherAlive` is where that crash
  is reported.

  The mutant `ReadLineAnySyscall`, which forgets to skip an unknown syscall,
  breaks it.
* **`CollectionCompletes`, with a malformed id** (`MCRecorderStuck.cfg`, where
  `ProfileName[i1] = None` and the hook file of `h1` is broken), is violated.
  `extractProfileName` fails in `collectLogProfiles` (or `ReadFile` or the
  JSON unmarshal in `collectLocalProfiles`) on every retry, and the pod is
  requeued forever. Its
  `podsToWatch` entry and its enricher sets are never released. The spec says
  invalid user annotations are never fatal: they are warned about and skipped.
  A disabled log enricher and a malformed AVC loop the same way.
* **`FormatOrderIndependent`** checks that the policy is the same for every
  order of the AVC list. This holds because of `sort.Strings` in `Format`,
  and the mutant `FormatUnsorted` breaks it.
* **`PolicyAllowsEveryAvc`** checks that every AVC is allowed by a line with
  its type, class and permission.
* **`PolicyMatchesSpec`** is violated: two AVCs with the same key give the
  same line twice. `addAvc` appends a key for every AVC.

### Bounds, and why they are enough

**`MCRecorder`.** The instance has two pods:
* pod `a` records both kinds through the log enricher under id `i1`;
* pod `b` records seccomp through the hook under `h1`.

This exercises both recorders, and the loop over two profiles with either
order of the kinds.
* `Obs = {o1, o2}`. `o2` is both an unknown syscall and a malformed AVC, so
  the line-drop path and the format-failure path both occur.
* `MaxLog = 2`. That is enough for one line to be read after the fetch (the
  raced case) while another is still in flight.
* `MaxFail = 1`. That is enough for every failure point, including the
  applied-but-failed write and reset.

In the liveness and violation configs, `o2` is dropped and `MaxLog` is 1 to
keep the state space small. `MaxFail = 0` in the race run shows that the crash
needs no failure at all.

The refinement run keeps `o2` as an unknown syscall, so that both the drop
and the insert path of `ReadLine` occur, with `MaxLog = 1` and `MaxFail = 1`.
`MaxLog = 2` takes about 9 minutes. The refinement is also proved for every
bound, so the small instance only checks the mapping cheaply.

**`MCPolicyBuilder`.** The instance covers every AVC list of up to 3 records
over two permissions and four contexts:
* a well-formed context;
* the permissive type;
* an empty type;
* a context with two fields.

Three records are enough for duplicates, for two keys, and for an unsorted
input.

### Deadlock and fairness

All recorder configs set `CHECK_DEADLOCK FALSE`. The daemon waits for events:
once every pod has terminated, the queue is empty and the log is read, nothing
is enabled.

`FairSpec` assumes weak fairness of three things:
* the controller's worker, whose steps are `Reconcile`, `Collect`,
  `CollectHook`, `Fetch`, `Write` and `Reset`. controller-runtime keeps
  dequeuing while the queue is non-empty.
* the ingest goroutine. The tail keeps reading.
* `EnricherRestart`. The kubelet restarts a crashed container.

Pods and their processes get no fairness. Transient failures are bounded by
`MaxFail`, which stands for the fact that the API server eventually answers.

## Proofs (TLAPS)

All three proofs below assume only `EnricherAssumption` and `RecorderAssumption`. They hold
for any number of pods, ids, observations, names and failures.

* **`TypeCorrect`**: `Spec => []TypeOK`. `TypeOK` is inductive as it stands.
  Its key conjuncts tie the worker to the entry it is collecting:
  * the entry exists;
  * `rec.i` indexes its kinds;
  * a stored entry has at least one kind. `SetToSeqsType` shows this for the
    sequences `Track` may store.

  The proof has one case per action, and lemmas for `Advance`
  (`AdvanceType`), for nested function updates (`NestedExceptType`) and for
  the orphaning of the set the ingest goroutine holds (`OrphanType`).
* **`RecordsKept`**: `Spec => []RecordedNotLost`. `RecordedNotLost` alone is
  not inductive. A `Reset` empties a set, and nothing in `RecordedNotLost`
  says where its contents went. The strengthening is `WindowOK`:
  * while the worker is in `write` or `reset`, the set of the current profile
    holds only what the fetch returned (`rec.snap`) and what raced in since;
  * in `reset`, `rec.snap` is already published.

  TLC checked `RecordedNotLost /\ WindowOK` on the `MCRecorder.cfg` instance
  before the proof was written. `WindowStep` proves that a
  step between two well-typed states keeps both. It has one case per action,
  and the key case is `Reset`, via `EmptyingKeeps`. The theorem then combines
  `WindowStep` with `TypeCorrect` by PTL.

* **`Refinement`** (`AggregatorProofs.tla`): `Spec => ImplementsAggregator`.
  It needs one more invariant, `InFlightRecordable`: the line the goroutine
  holds is never an unknown syscall, because `Run` skips those before
  `LoadOrStore`. Without it, the end of an insert could record what the
  aggregator never records. TLC checked it on the `MCRecorderAggregator.cfg`
  instance before the proof was written. `RecordableInvariant` proves
  `Spec => [](TypeOK /\ InFlightRecordable)`. The proof then has three
  parts:
  * the initial state maps to `AG!Init`;
  * `RefineStep` maps every step to `[AG!Next]_AG!avars`, with one lemma
    per enricher action (`ReadStep`, `BeginStep`, `EndStep`, `RestartStep`,
    `FetchStep`, `ResetStep`, `EmitStep`, `QuietStep`). These rest on
    sequence lemmas about the mapping (`AttributedTail`, `AttributedAppend`,
    `PendingShape`);
  * PTL combines them.

* **`PolicyAllows`** (`PolicyBuilderProofs.tla`): `Spec => []PolicyAllowsEveryAvc`,
  for AVC lists of any length over any permission, class and context names.
  It assumes `PolicyBuilderAssumption` (names are numbers) and
  `MCPolicyBuilderAssumption` (contexts are sequences of fields). The only
  invariant needed is the type `avcs \in Seq(RpcAvcs)`. TLC checked it on the
  `MCPolicyBuilder.cfg` instance first. The lemma `AllowsEveryAvc` does the
  work:
  * if `formatSelinuxProfile` succeeds, no context is malformed;
  * each AVC's key sits at some position `m` of the sorted keys
    (`SortKeysPermutes`), so line `m + 1` of the policy is its line;
  * the line's permission list holds the AVC's permission, because
    `SortedPermsCovers` shows that the sorted list has every element of the
    finite set (`PermSetFinite`).

  Both sorts exist by `RankSort`: a strict total order on `1..n` ranks each
  position by how many positions lie below it.
* **`OrderIndependent`** (`OrderIndependenceProofs.tla`):
  `Spec => []FormatOrderIndependent`, under the same assumptions. A reordering
  of the AVCs is the list composed with a permutation `p`
  (`ReorderingIsPermuted`). Under any `p`:
  * the malformed-context test gives the same answer (`FailsSame`);
  * `addAvc` builds the same map of permissions (`PermMapSame`);
  * the sorted keys are the same sequence (`SortSame`). This is the core
    step. It is proved by counting, not by induction: in a sorted sequence,
    position `k` holds `v` exactly when fewer than `k` entries lie below `v`
    and at least `k` lie at or below it (`SortedAt`). A permutation keeps
    those counts (`CountPerm`, a bijection between index sets), so two
    sorted permutations of the same keys agree everywhere (`SortedUnique`).

  `Format` then gives the same result (`FormatCongruence`).

Every safety property of a passing run now has a theorem. What stays with
TLC:
* liveness: `CollectionCompletes`. It needs
  fairness and ENABLED, which TLAPS does not reach;
* the properties of the violation runs. These are found false on an
  instance, so there is nothing to prove. `PolicyMatchesSpec` is also written
  with `SetToSortSeq`, whose `SortSeq` TLAPS cannot expand.

## Not modelled

* **The gRPC stubs** (generated code) and **the CI workflows**.
* **The handlers' own code in `grpc.go`** is not under `src/`. It is modelled
  from the spec.
* **The string handling of annotations and ids**: the parsing of annotation
  keys, `extractProfileName`'s string split and file paths. These enter as the
  constants listed above.
* **Metrics** (`SendMetric`) and logging.
* **`Setup`**: the client, the node lookup and the controller registration
  are configuration. `Init` is the zero `RecorderReconciler` (an empty
  `podsToWatch`) with the traced pods queued. Reading `Setup` shows a slip
  that no model is needed for: a failed node `Get` at line 128 returns
  `errors.Wrap(err, errGetNode)` with the `err` of `client.New`, which is
  nil there, so `Setup` returns nil and the controller is never registered.
* **Set growth in the enricher.** Sets of a pod that no `Reconcile` saw
  Pending, and sets recreated by lines read after a pod's last reset, are
  never reset. The spec leaves the drain of such a pod open (§9, open
  question) and lets inserts survive a racing reset (§5), so no property is
  stated about them.

## Next steps

* Give the recorder a fix to check against `CollectionCompletes` with
  permanent errors: a permanent error that is reported and not returned.
* Model several log annotations per pod with different ids, and two ids that
  share a profile name (the hazard at `extractProfileName`).
