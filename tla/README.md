# Formal models of snoozer

TLA+ specifications of the snoozer library, of its wake-latency benchmark and of
Benchctl, the tool that builds and runs that benchmark under a changed CPU-idle
policy. TLC checks the models on small instances; TLAPS proves the safety
properties among the results for every value of the constants. Paths below are relative to the repository root; `PROJECT.json` maps
every definition to the lines it models.

## The system

| Part | Source | Module |
|---|---|---|
| Contract of the wait operations | `src/strategy.rs` (trait `WaitStrategy`) | `WaitContract` |
| Built-in strategies | `src/strategy.rs` | `WaitStrategy` |
| Contract of a parker pair | `src/parker.rs` | `Mailbox` |
| Parker pairs | `src/parker.rs` | `Parker` |
| Hardware preflight | `src/strategy.rs`, `src/capabilities.rs` | `Preflight` |
| TSC calibration, programmed timeouts | `src/arch/x86_64/*.rs`, `src/strategy.rs` | `Calibration` |
| Workload supervision | `tools/benchctl/src/supervision.rs` | `Supervision` |
| CPU-idle coordinator, journal, locks | `tools/benchctl/src/{cpuidle,journal,runtime}.rs` | `CpuIdle` |
| Guarded Cargo build | `tools/benchctl/src/build.rs` | `Build` |
| Search of the local package graph | `tools/benchctl/src/build.rs` | `PackageGraph` |
| Build receipt, from checkout to workload | `tools/benchctl/src/{receipt,build,cpuidle,supervision}.rs`, `benches/wake_latency.rs` | `Acceptance` |
| Benchmark trial | `benches/wake_latency.rs`, `benches/support/pure.rs` | `BenchTrial` |
| Victim control | `benches/wake_latency.rs` | `VictimControl` |
| Atomic output | `benches/support/output.rs` | `AtomicOutput` |
| Main loop of the benchmark | `benches/wake_latency.rs` | `Bench` |

How they interact: a consumer thread parks on a token and leaves the waiting to a
strategy (`Parker` instantiates `WaitContract`, which `WaitStrategy` implements).
Hardware strategies can be made only after a preflight, which calibrates the
timer and tries the hardware. The benchmark runs the strategies and parkers in
trials of three threads, each paired with a control of its victim, and writes one
report (`Bench` extends `BenchTrial`, `VictimControl` and `AtomicOutput`).
Benchctl builds the benchmark (`Build` extends `PackageGraph`) and runs it
(`CpuIdle` extends `Supervision`: one coordinator, a workload supervisor, a crash
guardian). `Acceptance` composes the two commands by the files they exchange.

## Modules, state and actions

**WaitContract** has the watched atomic `word` and the waiter's `call`. Each
public result is an action: `ReturnChanged` needs a differing word,
`ReturnTimedOut` an equal load and an expired deadline, `ReturnUnclassified` an
unfiltered operation. A deadline is absent, running or expired, since the code asks only
whether anything remains of it.

**WaitStrategy** is the waiter as a program counter: `spin_prefix` (`SpinLoad`,
`SpinAgain`), the yield, then load, deadline check, arm, second load,
deadline check, sleep, and `classify_after_wait`. Every load and every look at
the clock is a step of its own. The monitor is off, armed or triggered. `Store`
and `Disturb` (an interrupt or another write to the cache line) hit an armed
monitor. `RawUnclassified` is the retry loop of the filtered operations. The
C1 variant of the AMD strategy passes another hint and has the same steps.

**Mailbox** and **Parker**. The token carries the value and, for each producer,
the writes that its release sequence publishes: a plain Release store replaces
them (`single_pair`), a Release `fetch_or` continues them (`multi_pair`).
`seen` is what the consumer has acquired. `take_notification` is two steps, the
Relaxed load and the Acquire exchange. The wait between the two takes is
`WaitContract` by INSTANCE, so every strategy is covered.

**Preflight** has callers of `preflight` and `new`, the `OnceLock`, the probing
thread, and a helper thread per store trial, which may outlive its trial. A
clock counts ticks within a trial; the helper stamps its store after making it,
as the code does. `trial` and `truth` are history: what really happened, against
which the verdicts are compared.

**Calibration** models one sampling thread that can be preempted (`TimePasses`) and
moved to another CPU (`Migrate`) between any two instructions, the
frequency arithmetic with its saturation, and `ProgramWait`. The integer widths
are constants. The u128 intermediate of `duration_to_cycles` cannot change the
result after its clamp and is an ordinary integer.

**Supervision** and **CpuIdle**. A process runs `run` or `recover` for an
operation ID. The steps are the durable effects of the code in their order: each
write to sysfs, each stored journal, each file of the runtime directory, each
child process. A crash is possible at every step; an I/O error ends a
command like a crash, except where the code handles it. `Reboot` ends all
processes, resets sysfs and changes the boot ID. The polling loops of the coordinator read
a file and look at the child's exit in two steps, as the code does.

**Build** has the tool, its guardian, Cargo's process group and the checkout, from
the checks of arguments and toolchain (`Validate`) through both guarded Cargo calls
(metadata, then build), the package graph, the checks of HEAD and working tree
before and after, and Cargo's reported artifact, to the stored receipt.

**PackageGraph** is the worklist search of `validate_reachable_local_graph` as a
recursive function (`Search`, one round of its loop is `Visit`), beside a reference:
the least set closed under dependencies.
`Build` takes one outcome of the search per build.

**Acceptance** follows one executable through its life. Builders are `benchctl
build` processes that share Cargo's output path and the receipt path; `Edit` and
`Commit` are somebody in the checkout. An executable carries the checkouts Cargo
may have read and the commit stamped into it; a receipt carries the executable it
digests. The run command makes its three reads of the receipt and its reads of
the executable, of HEAD and of the working tree one by one, writes the two
snapshots and then the journal; it may crash anywhere and be repeated under its ID.
The workload is what the supervisor opened, and checks the stamp in official mode.

**BenchTrial** is the start barrier, the startup abort, the event handshake and
the join, for `run_direct`, `run_parker` and `run_std_park`, where the driver waits
for the waiter's handle before it spawns the other two threads.

**VictimControl** is `run_victim_control`: a worker, its driver and three flags.

**AtomicOutput** has the writer and the disk: what the final path holds, and the
set `survives` of what a loss of power may leave there. A rename adds to it, the
sync of the directory takes the old result away, and a file renamed without a
sync could be left truncated.

**Bench** is `main` behind its preflight: two workloads, the cases, the repetitions with
their alternating order, skipped cases, every record, every early return and
`finish`. Errors, kills and losses of power are possible at every step.

Abstractions worth knowing:

- `CpuIdle!Accept` reads all original bits in one step. The receipt and executable
  snapshots taken at the same point either succeed or the run is refused;
  `Acceptance` has their steps, and in turn only the ends of the rest of a run.
- A SHA-256 digest is the content itself. The checks of single receipt fields are
  part of the step that reads the receipt.
- `Acceptance` has one operation ID and `recover` in one step. Its `RunCrashes` is
  also a run that returns with its journal unfinished.
- Cargo's lock on its build directory is an assumption about Cargo.
- A report record has its type, its place in the loops and its number of samples.
- WorkloadFinished and Draining are two transitions in one stored journal, hence
  one step. `recover` without a journal does nothing and is left out.
- `wait_for_ready` is one step; nothing else depends on its interleaving.
- An edit of the checkout is not undone again, and `Cargo.lock` is tracked, so
  its digest adds nothing to the check of the working tree.
- Faults share one budget, `MaxFaults`.

## Runs

| Run | Config | Result | States |
|---|---|---|---|
| `wait` | `MCWaitStrategy.cfg` | pass | 7,704 |
| `parker` | `MCParker.cfg` | pass | 44,937 |
| `preflight_probe` | `MCPreflightProbe.cfg` | pass | 4.1 M |
| `preflight_once` | `MCPreflightOnce.cfg` | pass | 76 k |
| `calibration` | `MCCalibration.cfg` | pass | 569 k |
| `cpuidle_crash` | `MCCpuIdleCrash.cfg` | pass | 872 k |
| `cpuidle_live` | `MCCpuIdleLive.cfg` | pass | 77 k |
| `cpuidle_drained` | `MCCpuIdleDrained.cfg` | violation | |
| `build` | `MCBuild.cfg` | pass | 81 k |
| `build_validated` | `MCBuildValidated.cfg` | violation | |
| `bench` | `MCBench.cfg` | pass | 323 k |
| `acceptance` | `MCAcceptance.cfg` | pass | 195 k |

- **wait**: `NoLostWake` (a sleeper whose word has changed has a triggered
  monitor), `AtMostOneBlock`, `StoreEndsWait` (with no timer assumed),
  `ImplementsContract` and, if timers fire, `KeepsContractPromises`.
- **parker**: `EmptyMeansSynchronised` (emptying the token synchronises with
  every completed unpark, coalesced ones included), `NotifiedMeansConsumed` (the
  two debug assertions), `BoundaryNotificationWins`, `ImplementsMailbox`,
  `KeepsMailboxPromises` (a notification or a deadline ends every park).
- **preflight_probe**: success rests on stores the waiter saw in time, and the
  machine is blamed only if a store overlapped a wait (`VerdictIsEvidence`); a wait
  ended by its own timer is no success (`TimerIsNoEvidence`, for a baseline no
  longer than the safety timeout).
- **preflight_once**: concurrent callers get one final verdict, after a panic too
  (`OneVerdict`), on every combination of vendor and feature bits, and every call
  returns (`PreflightReturns`).
- **calibration**: the calibrated frequency never exceeds the real one
  (`TimerNeverFast`), so no wait is programmed for too long
  (`NeverOversleeps`), and none without a timer (`TimerIsArmed`).
- **cpuidle_crash**: a changed policy always has its originals in an unfinished
  journal (`PolicyIsJournaled`), nobody restores while a live guardian holds the
  operation (`RestoreWaitsForGuardian`), workloads run under the policy
  (`WorkloadRunsUnderPolicy`), all replies for an ID agree (`RepliesAgree`),
  journals only move forward (`JournalIsAppendOnly`).
- **cpuidle_live**: a run settles (`RunSettles`), and the guardian's lock is
  released after any single fault (`ActiveLockIsReleased`).
- **build**: a status means that nothing of Cargo is left (`StatusMeansDrained`),
  nor is anything when the tool returns (`NoCargoLeftBehind`) or has crashed
  (`OrphanedCargoIsDrained`); a receipt names the HEAD that was built
  (`ReceiptNamesHead`) and was given for tracked packages only, whatever cycles and
  diamonds the graph has (`ReceiptIsTracked`); a build ends (`BuildReturns`).
- **bench**: a sample's two ends belong to one event (`SampleMatchesEvent`); no
  thread of one measurement is left in the next (`MeasuredAlone`); the output path
  holds the previous result or a complete report (`PublishedIsComplete`), the
  previous one after an error (`FailedRunKeepsResult`), the new one for good
  after a success (`SuccessIsDurable`); and the benchmark ends (`BenchEnds`).
- **acceptance**: a stored receipt names the sources of its executable unless HEAD
  has moved on (`ReceiptNamesSources`); what a recorded operation ran cannot change
  (`SnapshotIsFrozen`); what runs was compiled from the clean commit the receipt
  names, without exception (`WorkloadIsAsReceipted`); and an official run carries
  the stamp of that commit (`OfficialIsStamped`).

### What the code does differently

- `cpuidle_drained`: `docs/benchctl.md:55` says restoration is refused while the
  group cannot be proved drained. A guardian that gives up on its group
  (`supervision.rs:652`) or dies frees `active.lock`, the only thing `recover`
  looks at, and the policy is restored under a running workload.
- `build_validated`: `docs/benchctl.md:43-46` says that the packages are validated,
  that HEAD is rechecked, and that this detects changes of the checkout during a
  build. The graph is validated (`build.rs:205`) before HEAD is first read (206):
  a commit in between goes unnoticed, and the receipt names a commit whose packages
  were not validated.

Some smaller ones have no run of their own:

- `wait_for_drained` looks for `drained` (`supervision.rs:530`) and then for the
  guardian's exit (537). If both happen in between, a good run is reported as "crash
  guardian exited without drain proof" and left Recoverable. `wait_for_cargo`
  reads the status record and the exit in the same order (`build.rs:452`, 474).
- "A failed run leaves any existing published result untouched"
  (`docs/benchmarking.md:235`), except when the last step of `finish`, the sync of
  the directory, is what fails: the rename has been made. `FailedRunKeepsResult`
  states the exception.
- `create_parent_durably` syncs the directories it creates. A parent that an earlier
  run created and was killed before it synced is found and not synced again, hence
  the condition in `SuccessIsDurable`.
- `run_std_park` returns without joining its waiter when the handle does not
  arrive in time. Every error ends the process, so no measurement suffers
  (`MeasuredAlone`).
- `TimedOut` is documented as "expired while the value remained equal"
  (`strategy.rs:62`), but the deadline is checked after the load, so a store just
  before the expiry can be missed; `WaitContract` promises only what the code gives,
  and `Parker` makes up for it with its final take.
- A change committed between the two rechecks of a build is not seen, which is why
  `ReceiptNamesHead` and `ReceiptNamesSources` except a HEAD that has moved since. The
  run command closes the gap: it refuses a receipt that HEAD has moved past.

### Bounds

Three values of the watched word tell the expected, the returned and another
value apart. A spin prefix of two has a first, a middle and a last iteration.
Two producers with two payload writes each coalesce in both orders. Three store
trials, two required, leave room for one failed trial and a late helper. Calibration has a slow and a fast
processor, two CPUs, one more attempt than samples, and an integer range that some
products exceed. Two processes, two faults and a reboot cover a crash during the
recovery from a crash, two requests under one ID conflict, and two entries are one
to enable and one to disable; the proofs hold for any number of processes, operations,
requests and entries. Two edits of the checkout, each followed by a commit or not, fall between
any two checks of a build, and three packages are enough for a cycle beside a diamond.
Two builders, two Cargo builds, two commits and a repeated run let every read of an
acceptance see another file than the one before it. Two events with two samples let
either the sample limit or the duration end a trial; two cases and two repetitions
have both orders of trial and control, on each surface.
Symmetry is used only in safety runs, over processes, requests and builders.
`CHECK_DEADLOCK FALSE` is used where the system stops for good: after a build, after
the benchmark, when all permitted runs have been made, and after calibration has
failed or time has run out.

### Fairness

- `WaitStrategy`: a scheduled waiter runs, and a triggered monitor ends the sleep,
  which is the hardware's contract. Timers are only an antecedent of
  `KeepsContractPromises`.
- `Parker`: the waiter runs, and the wait is as fair as `WaitContract!Fairness`.
- `Preflight`: the probing thread, its timer, the clock and the callers; helpers
  get none, since they may never be scheduled.
- `CpuIdle`: weak for commands and children, and for a killed workload's death.
  Strong for the coordinator's time limit: the loop that checks it leaves and
  enters the state in which it can fire again and again.
- `Build`: the same, with strong fairness for the deadline of the waiting loop.
- `Bench`: weak for `main`, for each thread of a trial and of a control, and for the
  passing of their durations; a raw park may return at any time but need not. No
  fairness for errors, time limits of a startup, kills and losses of power.

## Proofs

| Module | Theorem | States |
|---|---|---|
| `WaitStrategyProofs` | `TypeCorrect` | `Spec => []TypeOK` |
| | `LostWakeFree` | `Spec => []NoLostWake` |
| | `OneBlockPerAttempt` | `Spec => []AtMostOneBlock` |
| | `Refinement` | `Spec => ImplementsContract` |
| `ParkerProofs` | `TypeCorrect` | `Spec => []TypeOK` |
| | `NoUnparkLost` | `Spec => []EmptyMeansSynchronised` |
| | `ConsumedAssertionHolds` | `Spec => []NotifiedMeansConsumed` |
| | `BoundaryHolds` | `Spec => []BoundaryNotificationWins` |
| | `Refinement` | `Spec => ImplementsMailbox` |
| `CpuIdleProofs` | `Invariance` | `Spec => []IInv`, with `TypeOK` |
| | `PoliciesAreJournaled` | `Spec => []PolicyIsJournaled` |
| | `AtMostOneUnfinished` | `Spec => []OneUnfinished` |
| | `JournalsAreAppendOnly` | `Spec => JournalIsAppendOnly` |
| `SupervisionProofs` | `Supervised` | `Spec => []WInv` |
| | `RestorationsWait` | `Spec => []RestoreWaitsForGuardian` |
| | `WorkloadsRunUnderPolicy` | `Spec => []WorkloadRunsUnderPolicy` |
| | `OneOutcomeIsTold` | `Spec => []RepliesAgree` |
| `BuildProofs` | `StatusImpliesDrained` | `Spec => []StatusMeansDrained` |
| | `NothingLeftBehind` | `Spec => []NoCargoLeftBehind` |
| | `ReceiptsNameHead` | `Spec => []ReceiptNamesHead` |
| | `SearchIsExact` | `Reachable(g) = Compiled(g)` for every resolved graph |
| | `ReceiptsAreTracked` | `Spec => []ReceiptIsTracked` |
| `AcceptanceProofs` | `ReceiptsAreSound` | `Spec => []ReceiptNamesSources` |
| | `SnapshotsAreFrozen` | `Spec => []SnapshotIsFrozen` |
| | `WorkloadsAreReceipted` | `Spec => []WorkloadIsAsReceipted` |
| | `OfficialRunsAreStamped` | `Spec => []OfficialIsStamped` |
| `BenchProofs` | `TypeCorrect` | `Spec => []TypeOK` |
| | `SamplesMatchEvents` | `Spec => []SampleMatchesEvent` |
| | `FailedStartupsMeasureNothing` | `Spec => []FailedStartupMeasuresNothing` |
| | `BenchInvariance` | `BenchSpec => []BInv` |
| | `BenchSamplesMatchEvents` | `BenchSpec => []SampleMatchesEvent` |
| | `BenchFailedStartups` | `BenchSpec => []FailedStartupMeasuresNothing` |
| | `PublishedReportsAreComplete` | `BenchSpec => []PublishedIsComplete` |
| | `FailedRunsKeepResults` | `BenchSpec => []FailedRunKeepsResult` |
| | `MeasurementsAreAlone` | `BenchSpec => []MeasuredAlone` |
| | `SuccessesAreDurable` | `BenchSpec => SuccessIsDurable` |
| `HardwareProofs` | `PreflightTypes` | `Spec => []TypeOK` |
| | `VerdictsAgree` | `Spec => []OneVerdict` |
| | `VerdictsAreEvidence` | `Spec => []VerdictIsEvidence` |
| | `TimersAreNoEvidence` | `Spec => []TimerIsNoEvidence` |
| | `VerdictIsFinal` | `Spec => [][once.state = "done" => once' = once]_vars` |
| | `TimerInvariance` | `TimerSpec => []CInv`, with `TimerTypeOK` |
| | `CalibrationIsNotFast` | `TimerSpec => []TimerNeverFast` |
| | `WaitsEndInTime` | `TimerSpec => []NeverOversleeps` |
| | `WaitsAreTimed` | `TimerSpec => []TimerIsArmed` |

Assumptions: the spin count is a natural number; a `single` pair has one producer; a
policy has at least one entry, and `NoProc` is neither a process nor an operation;
bounds are natural numbers, those on boots, commits, builds, runs, events and samples
positive; the preflight requires at least one observation and no more than it makes
trials (2 of 16, `strategy.rs:37-39`); a TSC advances, no integer type is empty and 32
bits are no more than 64; Cargo reports finitely many packages.

*Waits.* `NoLostWake` speaks of a sleeper only, but it holds because of what
happened before: from the arming on, either the monitor was hit or the word has
not changed since the second load. `MonitorInv` says this for every program
point between arming and sleep; `CallInv` ties the call to the program counter,
`EqualInv` says which points follow an equal load, and `BlockInv` counts the
blocking operations. The refinement needs `EqualInv` for `ReturnTimedOut`.

*Parkers.* `EmptyMeansSynchronised` is about an empty token; two invariants carry
it over the time the token is set. `ReleasedInv`: the token's release sequence is
exactly what has been unparked, which for the plain store of `single` needs that
there is one producer. `SeenInv`: the consumer is never ahead of the producers and
is level with them on an empty token. `ParkInv` says that what a wait, its
deadline or the Relaxed load saw of the token is still there when it is taken,
because only the consumer empties it.

Both hold for any number of values, producers and spins, and for `single` pairs,
which the `parker` run does not instantiate.

*Policies.* `PolicyIsJournaled` is about the disk; it holds because of who may be where.
`LockInv`: only the holder of the cpuidle lock is under way. `PrepareInv`: what it
found before it stores a journal (no unfinished one, these originals) is still so
when it does. `OwnInv`: from there to the end of the restoration it owns an
unfinished journal of this boot. `OneUnfinished`: there is no other. `PolicyInv`: the
governing journal's originals are the policy of the boot, and without one the policy
is in place. `VerifyInv`: what the final verification has passed is restored,
which is what lets `Restored` be stored.

*Workloads.* A workload is `Armed` when it runs or its supervisor has the go file and
has not yet executed it. `GroupInv`: an armed workload has a guardian, which holds
`active.lock` or was lost. So whoever passes `require_inactive` meets no guarded
workload, and nothing of another operation can become armed while the cpuidle lock
is held (`PassOK`); its own is armed from the go file to the drained proof, and
without the proof the run ends before any restoration (`Running`). `UntouchedInv`
and `FreshOK`: an ID without a journal has neither processes nor files, so its
workload starts once. `DesiredOK`: the policy is in place, entry by entry, before
the go file. For the replies, the outcome is decided before the drain, stored where
there was none and told when the journal is `Restored` (`OutcomeOK`, `RepliesOK`);
`Forward`, the step behind `JournalsAreAppendOnly`, keeps it. All of this is
inductive relative to `IInv`.

*Builds.* `GuardianInv`: a guardian that has not spawned, has drained or has left
with success has no Cargo. `ToolInv` places the tool against it. `SourcesInv`: the
checkout only moves forward, so a commit that is found again was there all along.

*Package graphs.* `Search` is a recursive function, that is, a CHOOSE of a solution of
its recursion; `SearchUnfolds` shows that there is one. No induction is used: a set is
`Separate` if the search neither leaves nor enters it, the worklists no such set tells
apart are one `Run`, a visit stays on its run (`RunGoesOn`), and a run has at most one end
(`RunEnds`), so "what the run ends with" is a solution. `Sound` holds of every worklist
the search reaches: what is seen or queued is compiled, and contains the dependencies of
what is seen. Among the worklists that are sound and have the result of the start, one
with the fewest unseen packages and then the shortest queue has an empty queue, since a
visit lowers one of the two (`VisitProgress`); what it has seen is the result, and
closed. `TrackedInv` then says that an untracked package ends the build in an error.

*Acceptance.* The same argument for several builders: Cargo's lock orders their
builds, so the output that a builder digests was compiled from checkouts no older
than the commit it read (`BuildInv`), and its receipt is sound unless HEAD moves on.
`RunInv` follows the run command: past the check of HEAD the receipt is sound, past
each comparison one more file is frozen, and the journal is stored behind them all.
`WorkloadInv` carries it to the process that runs.

*Trials.* As long as nobody has stopped the trial, the barrier opens behind all three
threads (`CountInv` names who is counted in `ready`, `BarrierInv`), and `sent`,
`generation` and `acknowledged` follow a handshake in which at most one event is open
(`HandshakeInv`). Aborts and exits bump the generation only behind the stop flag
(`StopInv`), which the waiter reads before it takes a change for an event.
`BenchTrial` has a specification of its own for these proofs.

*Benchmark.* Every step of `Bench` in a trial is a step of that specification, so `BInv`
contains the invariant of the trials. `JoinInv` and `AloneInv`: main goes on only behind
joined threads, and the threads of a trial and of a control are alive only in their own
half of a pair. `PublishedIsComplete` is about a file on the disk, which is a copy of the
records made so far. `Due` says which records are due when main is at a workload, a case
and a repetition; `ReportInv` that the report holds each of them once, in order, and
nothing else; every write adds the one record that becomes due (`Adds`). `OutputInv` ties
the state of the output to main's position, so a rename is made only of a synced and
complete report, and `DiskInv` says what a loss of power can leave at each point.

*Preflight.* `VerdictIsEvidence` compares counters of the probe with what happened.
`TallyInv`: a counter is never ahead of the truth, and the truth counts each trial once.
It rests on `TrialInv`: helpers of earlier trials have no receiver and those of later ones
do not exist, so the stamp in the channel is of this trial's store and not earlier than
it; and a wait that its timer ended has lasted the safety timeout. `OnceInv`: there is no
verdict while a probe runs, and nobody has been told one.

*Calibration.* `ReadsInv`: both reads of a sample are readings of the true clocks of their
CPUs at times within the sample. Within one CPU their difference is at most the rate times
the elapsed time (`SampleNotFast`), so every kept sample is at most the true frequency
(`SamplesInv`), and so is the configured one, which is below the smallest of them
(`ConservativeNotFast`). A duration converted with it is not late (`CyclesNotLate`), the
safety timeout included (`SafetyInv`). The arithmetic is by lemmas on quotients, products
and minima (`DivBound`, `Product`, `LeastNatural`, `Pair`); saturation only lowers values,
except for the lower clamp of one cycle, which `NeverOversleeps` names.

`OneUnfinished`, `FailedStartupMeasuresNothing`, `VerdictIsFinal`, `SearchIsExact` and the
type invariants are proved and have no run of their own.

Only model-checked: the liveness properties (`StoreEndsWait`, `KeepsContractPromises`,
`KeepsMailboxPromises`, `PreflightReturns`, `RunSettles`, `ActiveLockIsReleased`,
`OrphanedCargoIsDrained`, `BuildReturns`, `BenchEnds`), since the prover has no rules for
fairness and ENABLED, and the two violated ones. All other properties of the runs are
proved.

## Not modelled

- Inline assembly and CPUID decoding: their effects are the monitor and the
  capabilities. Topology, platform checks and statistics (percentiles, medians, the
  choice of a winner): arithmetic and reads by one thread, with no shared state.
- Benchctl's command line, `sudo` and the read-only `status`.
- The control proof: one read of a pipe by the workload, compared field by field.
- A foreign writer to sysfs between a check and the write after it is explored
  but cannot be detected by the code: the properties speak of undisturbed entries.

## Plan

1. Done: waits, parkers, preflight, calibration, supervision, coordinator, build,
   acceptance, trials, the benchmark and its output, with proofs of every safety property
   that the runs check.
2. Next proofs: what `Build` and `Acceptance` have in common, as a refinement.
3. Next modules: the choice of a winner and the percentiles as pure operators.
