------------------------------- MODULE Bench -------------------------------
(***************************************************************************)
(* main of benches/wake_latency.rs: for both workloads, every case and     *)
(* every repetition, a victim control and a contender trial are run one    *)
(* after the other, and their records go to the atomic output.  The        *)
(* process may be killed, or the machine lose power, at any step.          *)
(***************************************************************************)
EXTENDS BenchTrial, VictimControl, AtomicOutput

CONSTANTS
  Plans,                      \* the arguments, the cases of all_cases and the supported ones
  Repetitions                 \* Arguments::repetitions

\* Case::surface of each case; StdPark is never unsupported.
ASSUME BenchAssumption ==
  /\ Repetitions \in Nat \ {0}
  /\ \A p \in Plans :
       /\ p \in [official: BOOLEAN, preflight_only: BOOLEAN, cases: Seq(Surfaces),
                 supported: SUBSET DOMAIN p.cases]
       /\ p.cases # <<>>
       /\ \A c \in DOMAIN p.cases : p.cases[c] = "std" => c \in p.supported

VARIABLES
  plan,                       \* this run's
  main,                       \* main's pc, its position, and what it has measured of the pair
  exit                        \* how the process ended

bench == <<plan, main, exit>>

allvars == <<vars, control, output, disk, bench>>

Workloads == 1..2             \* Saturated, then Bursty

Start ==
  [pc |-> "create", workload |-> 1, case |-> 1, repetition |-> 0, control |-> FALSE, samples |-> 0]

BenchInit ==
  /\ generation = 0 /\ sent = 0 /\ acknowledged = 0 /\ ready = 0
  /\ go = FALSE /\ stop = FALSE /\ surface = "direct" /\ token = "empty" /\ handle = FALSE
  /\ pc = [t \in Threads \cup {"driver"} |-> "ended"]
  /\ observed = 0 /\ sequence = 0 /\ samples = 0
  /\ failed = FALSE /\ broken = FALSE /\ mismatched = FALSE
  /\ control = NoControl /\ output = NoOutput
  /\ \E parent \in Parents : disk = NewDisk(parent)
  /\ plan \in Plans /\ main = Start /\ exit = "running"

MainAt(at) == exit = "running" /\ main.pc = at

MainGoto(next) == main' = [main EXCEPT !.pc = next] /\ UNCHANGED <<plan, exit>>

\* An error returned from main, through the destructor of the output.
Return ==
  /\ exit' = "error"
  /\ IF output.state \in {"none", "published"} THEN UNCHANGED <<output, disk>>
     ELSE \E removed \in BOOLEAN : DropOutput(removed)
  /\ UNCHANGED <<plan, main>>

control_first == (main.case - 1 + main.repetition) % 2 = 0

\* The cells of a trial as TrialShared::new makes them; the end of a trial frees them.
NewTrial ==
  /\ generation' = 0 /\ sent' = 0 /\ acknowledged' = 0 /\ ready' = 0
  /\ go' = FALSE /\ stop' = FALSE /\ token' = "empty" /\ handle' = FALSE
  /\ observed' = 0 /\ sequence' = 0 /\ samples' = 0
  /\ failed' = FALSE /\ broken' = FALSE
  /\ UNCHANGED mismatched

Record(type) ==
  [type |-> type, workload |-> main.workload, case |-> main.case, repetition |-> main.repetition,
   samples |-> main.samples]

-----------------------------------------------------------------------------
(* The output.                                                             *)

Metadata ==
  /\ MainAt("metadata")
  /\ Write([type |-> "metadata"])
  /\ MainGoto(IF plan.preflight_only THEN "sync" ELSE "pair")
  /\ UNCHANGED <<vars, control>>

Create ==
  /\ MainAt("create")
  /\ CreateOutput
  /\ MainGoto("metadata")
  /\ UNCHANGED <<vars, control>>

\* output.repetition, and the next turn of the innermost loop
Repetition ==
  /\ MainAt("record")
  /\ Write(Record("repetition"))
  /\ main' = IF main.repetition + 1 < Repetitions
             THEN [main EXCEPT !.pc = "pair", !.repetition = @ + 1, !.control = FALSE, !.samples = 0]
             ELSE [main EXCEPT !.pc = "summary"]
  /\ UNCHANGED <<vars, control, plan, exit>>

NextCase ==
  IF main.case < Len(plan.cases)
  THEN [Start EXCEPT !.pc = "pair", !.workload = main.workload, !.case = main.case + 1]
  ELSE [main EXCEPT !.pc = "winner"]

WriteSummary ==
  /\ MainAt("summary")
  /\ Write(Record("summary"))
  /\ main' = NextCase
  /\ UNCHANGED <<vars, control, plan, exit>>

Skip ==
  /\ MainAt("skip")
  /\ Write(Record("skip"))
  /\ main' = NextCase
  /\ UNCHANGED <<vars, control, plan, exit>>

\* winner or no_winner
Winner ==
  /\ MainAt("winner")
  /\ Write(Record("winner"))
  /\ main' = IF main.workload = 1
             THEN [Start EXCEPT !.pc = "pair", !.workload = 2]
             ELSE [main EXCEPT !.pc = "sync"]
  /\ UNCHANGED <<vars, control, plan, exit>>

FinishSync == MainAt("sync") /\ SyncAll /\ MainGoto("rename") /\ UNCHANGED <<vars, control>>

FinishRename ==
  MainAt("rename") /\ Rename /\ MainGoto("directory") /\ UNCHANGED <<vars, control>>

FinishDirectory ==
  /\ MainAt("directory")
  /\ SyncDirectory
  /\ exit' = "ok"
  /\ UNCHANGED <<vars, control, plan, main>>

\* Any step of the output may fail, and so may the matrix, a repetition's result and a summary.
Fails ==
  /\ \E at \in {"create", "metadata", "pair", "record", "summary", "skip", "winner", "sync",
                "rename", "directory"} : MainAt(at)
  /\ Return
  /\ UNCHANGED <<vars, control>>

-----------------------------------------------------------------------------
(* One pair of trials.                                                     *)

\* The half of the pair to measure next, in the alternating order.
Half ==
  CASE main.control -> "contender"
    [] main.samples > 0 -> "control"
    [] OTHER -> (IF control_first THEN "control" ELSE "contender")

StartControl ==
  /\ MainAt("pair") /\ Half = "control"
  /\ control' = SpawnControl
  /\ MainGoto("control")
  /\ UNCHANGED <<vars, output, disk>>

EndControl ==
  /\ MainAt("control")
  /\ control.driver = "ended"
  /\ IF ControlOk
     THEN /\ main' = [main EXCEPT !.control = TRUE,
                                  !.pc = IF main.samples > 0 THEN "record" ELSE "pair"]
          /\ UNCHANGED <<output, disk, plan, exit>>
     ELSE Return
  /\ UNCHANGED <<vars, control>>

\* run_case and TrialShared::new
StartContender ==
  /\ MainAt("pair") /\ Half = "contender"
  /\ main.case \in plan.supported
  /\ surface' = plan.cases[main.case]
  /\ pc' = Spawned(surface')
  /\ NewTrial
  /\ MainGoto("contender")
  /\ UNCHANGED <<control, output, disk>>

\* RunCaseError::Unsupported
Unsupported ==
  /\ MainAt("pair") /\ Half = "contender"
  /\ main.case \notin plan.supported
  /\ IF plan.official THEN Return ELSE MainGoto("skip") /\ UNCHANGED <<output, disk>>
  /\ UNCHANGED <<vars, control>>

\* The results of the threads, then validate_sample_set.
TrialOk == ~failed /\ ~broken /\ samples \in 1..(MaxSamples - 1)

EndContender ==
  /\ MainAt("contender")
  /\ At("driver", "ended")
  /\ IF TrialOk
     THEN /\ main' = [main EXCEPT !.samples = samples,
                                  !.pc = IF main.control THEN "record" ELSE "pair"]
          /\ NewTrial
          /\ UNCHANGED <<surface, pc, output, disk, plan, exit>>
     ELSE Return /\ UNCHANGED vars
  /\ UNCHANGED control

-----------------------------------------------------------------------------
(* The threads, and the end of the process.                                *)

Contend(action) == MainAt("contender") /\ action /\ UNCHANGED <<control, output, disk, bench>>

InControl(action) == MainAt("control") /\ action /\ UNCHANGED <<vars, output, disk, bench>>

\* What only the process held is gone.
ProcessEnds(how) ==
  /\ exit' = how
  /\ NewTrial /\ surface' = "direct" /\ pc' = [t \in DOMAIN pc |-> "ended"]
  /\ control' = NoControl /\ output' = NoOutput /\ main' = Start
  /\ UNCHANGED plan

Killed == exit = "running" /\ ProcessEnds("killed") /\ UNCHANGED disk

Loses == exit # "lost" /\ PowerLoss /\ ProcessEnds("lost")

Main ==
  \/ Create \/ Metadata \/ StartControl \/ EndControl \/ StartContender \/ Unsupported
  \/ EndContender \/ Repetition \/ WriteSummary \/ Skip \/ Winner
  \/ FinishSync \/ FinishRename \/ FinishDirectory

Trial ==
  \/ \E t \in Threads \cup {"driver"} : Contend(Run(t))
  \/ \E t \in Threads : Contend(PinFails(t))
  \/ Contend(ParkUnclassified) \/ Contend(ProducerMigrated) \/ Contend(VictimFails)
  \/ Contend(StartupTimeout) \/ Contend(RecvTimeout)

BenchNext == Main \/ Fails \/ Trial \/ InControl(ControlNext) \/ Killed \/ Loses

\* Every thread of the process keeps running, and the durations pass.
BenchSpec ==
  /\ BenchInit /\ [][BenchNext]_allvars
  /\ WF_allvars(Main)
  /\ \A t \in Threads \cup {"driver"} : WF_allvars(Contend(Run(t)))
  /\ WF_allvars(InControl(ControlWorker)) /\ WF_allvars(InControl(ControlDriver))

-----------------------------------------------------------------------------
(* Properties.                                                             *)

\* The records of a type about a case, and the winners of a workload.
Of(report, type, w, c) ==
  {i \in 2..Len(report) :
     report[i].type = type /\ report[i].workload = w /\ report[i].case = c}

Winners(report, w) == {i \in 2..Len(report) : report[i].type = "winner" /\ report[i].workload = w}

Once(records) == \E i \in records : records = {i}

Skipped(report, w, c) ==
  /\ Once(Of(report, "skip", w, c))
  /\ Of(report, "repetition", w, c) = {} /\ Of(report, "summary", w, c) = {}

Measured(report, w, c) ==
  /\ Of(report, "skip", w, c) = {} /\ Once(Of(report, "summary", w, c))
  /\ \A r \in 0..(Repetitions - 1) :
       Once({i \in Of(report, "repetition", w, c) : report[i].repetition = r})
  /\ \A i \in Of(report, "repetition", w, c) :
       /\ report[i].repetition \in 0..(Repetitions - 1)
       /\ report[i].samples \in 1..(MaxSamples - 1)
       /\ \A j \in Of(report, "summary", w, c) : i < j

\* Earlier workloads come first, and a winner is the last record of its workload.
InOrder(report) ==
  \A i, j \in 2..Len(report) : i < j =>
    /\ report[i].workload <= report[j].workload
    /\ report[i].type = "winner" => report[i].workload < report[j].workload

(* What a reader of the report may rely on: it starts with its metadata;   *)
(* each case of each workload was either skipped, which an official report *)
(* never does, or has every repetition once, each with a full pair of      *)
(* trials and an untruncated set of samples, and then its summary; and the *)
(* winner follows all cases of its workload.                               *)
Complete(report) ==
  /\ report # <<>> /\ report[1].type = "metadata"
  /\ plan.preflight_only => Len(report) = 1
  /\ ~plan.preflight_only => \A w \in Workloads :
       /\ Once(Winners(report, w))
       /\ \A c \in DOMAIN plan.cases :
            \/ ~plan.official /\ Skipped(report, w, c)
            \/ Measured(report, w, c)
  /\ InOrder(report)

(***************************************************************************)
(* The output path holds the previous result or a complete report of this  *)
(* run, whatever failed, wherever the process was killed and whenever the  *)
(* power was lost: finish is reached only behind every pair of trials, and *)
(* it renames the file only once its contents are on the disk.             *)
(***************************************************************************)
PublishedIsComplete == disk.final = Previous \/ Complete(disk.final)

(***************************************************************************)
(* A run that reports an error leaves the previous result untouched, save  *)
(* when the very last step, the sync of the directory, is what failed: by  *)
(* then finish has renamed the file.                                       *)
(***************************************************************************)
FailedRunKeepsResult == exit = "error" => disk.final = Previous \/ main.pc = "directory"

(***************************************************************************)
(* The report of a run that succeeded survives a loss of power, unless the *)
(* directory was left unsynced by an earlier run, which                    *)
(* create_parent_durably cannot tell from a durable one.                   *)
(***************************************************************************)
SuccessIsDurable ==
  [][exit = "ok" /\ disk.parent # "unsynced" => disk'.final = disk.final]_allvars

(***************************************************************************)
(* Every measurement has the machine to itself: no thread of a contender   *)
(* trial is left while the victim's control is measured or the next trial  *)
(* starts, and no control victim is left in a trial, also when a startup   *)
(* failed or the std waiter never sent its handle.                         *)
(***************************************************************************)
MeasuredAlone ==
  /\ MainAt("pair") \/ MainAt("control") => \A t \in Threads : At(t, "ended")
  /\ MainAt("pair") \/ MainAt("contender") => control.worker \in {"idle", "ok", "error"}

(***************************************************************************)
(* The benchmark always ends, with every trial's threads joined before:    *)
(* a thread that fails in startup, a full sample buffer, a migration and   *)
(* the end of the duration all release the threads that still wait.        *)
(***************************************************************************)
BenchEnds == <>(exit # "running")
=============================================================================
