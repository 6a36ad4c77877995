------------------------------ MODULE BenchAutoload ------------------------------
(***************************************************************************)
(* The benchmark autoload (nCore/orchestrator.py): one thread goes through *)
(* the devices of a polled node and looks on each for the largest model    *)
(* that is fast enough. It loads a model within a quarter of the memory,   *)
(* measures it, and as long as it is clearly faster than the target tries  *)
(* a larger one within half, three quarters and all of the memory.         *)
(*                                                                         *)
(* Quarter[m] is the first of the four budgets that m fits in, larger      *)
(* models being later in Order; rate[m] is what a benchmark of m measures. *)
(* The agent answers a load when the model runs, a download at once.       *)
(***************************************************************************)
EXTENDS Naturals, Sequences, FiniteSets, FiniteSetsExt

CONSTANTS
  Order,          \* models by size, the smallest first
  Quarter,        \* of each model
  Rates,          \* what benchmarks measure, per model: the cases in use
  Libraries,      \* sets of downloaded models in use
  Catalog,        \* models of the catalog, in its order
  DeviceCount,
  Target,         \* target_tps
  MaxIterations,  \* _BENCH_MAX_ITERATIONS
  NoModel,
  MaxBenchFaults  \* commands and benchmarks that fail (bound)

BenchModels == {Order[i] : i \in DOMAIN Order}
BenchDevices == 1..DeviceCount

ASSUME BenchAssumption ==
  /\ Order \in Seq(BenchModels) \ {<<>>}
  /\ Quarter \in [BenchModels -> 1..5] /\ Rates \subseteq [BenchModels -> Nat \ {0}]
  /\ \A i, j \in DOMAIN Order :
       i < j => Order[i] # Order[j] /\ Quarter[Order[i]] <= Quarter[Order[j]]
  /\ Libraries \subseteq SUBSET BenchModels
  /\ Catalog \in Seq(BenchModels)
  /\ NoModel \notin BenchModels
  /\ DeviceCount \in Nat \ {0} /\ Target \in Nat
  /\ MaxIterations \in Nat /\ MaxBenchFaults \in Nat

VARIABLES
  library,    \* downloaded on the node when the benchmark starts
  rate,       \* what a benchmark of each model measures
  step,       \* of the worker
  device,     \* the one it is at
  quarter,    \* frac_idx + 1
  tried, final, finalRate, prev,  \* its locals
  model,      \* model_id
  iteration,
  shown,      \* devices of _bench_autoload_state: phase and model
  serving,    \* what the agent has loaded on each device
  job,        \* the model a download on this device will load, or none
  benchFaults

searchVars == <<quarter, tried, final, finalRate, prev, model>>
benchVars  == <<library, rate, step, device, searchVars, iteration, shown, serving, job, benchFaults>>

BenchInit ==
  /\ library \in Libraries /\ rate \in Rates
  /\ step = "empty" /\ device = 1 /\ quarter = 1
  /\ tried = {} /\ final = NoModel /\ finalRate = 0 /\ prev = NoModel /\ model = NoModel
  /\ iteration = 0
  /\ shown = [d \in BenchDevices |-> [phase |-> "pending", model |-> NoModel]]
  /\ serving \in [BenchDevices -> {NoModel} \cup {Order[1]}]
  /\ job = [d \in BenchDevices |-> NoModel]
  /\ benchFaults = 0

Go(s) == step' = s
Show(phase, m) == shown' = [shown EXCEPT ![device] = [phase |-> phase, model |-> m]]
Serve(m) == serving' = [serving EXCEPT ![device] = m]
BenchFault == benchFaults < MaxBenchFaults /\ benchFaults' = benchFaults + 1
NoFault == UNCHANGED benchFaults

----------------------------------------------------------------------------
(* _pick_model_for_budget and _catalog_model_for_budget                     *)

Position(m) == CHOOSE i \in DOMAIN Order : Order[i] = m

\* The largest downloaded model within the budget that was not tried.
Pick(q, excluded) ==
  LET fits == {m \in library \ excluded : Quarter[m] <= q}
  IN IF fits = {} THEN NoModel ELSE Order[Max({Position(m) : m \in fits})]

\* The first of the catalog.
PickFromCatalog(q, excluded) ==
  LET fits == {i \in DOMAIN Catalog : Catalog[i] \notin excluded /\ Quarter[Catalog[i]] <= q}
  IN IF fits = {} THEN NoModel ELSE Catalog[Min(fits)]

----------------------------------------------------------------------------
(* _benchmark_autoload_worker. What the agent answers to an unload or to    *)
(* the load of the final model is not looked at.                            *)

UnloadFirst ==
  /\ step = "empty" /\ Go("device")
  /\ \/ serving' = [d \in BenchDevices |-> NoModel] /\ NoFault
     \/ UNCHANGED serving /\ BenchFault
  /\ UNCHANGED <<library, rate, device, searchVars, iteration, shown, job>>

NextDevice ==
  /\ step = "device"
  /\ Go("search") /\ Show("active", shown[device].model)
  /\ quarter' = 1 /\ tried' = {} /\ final' = NoModel /\ finalRate' = 0
  /\ prev' = NoModel /\ model' = NoModel
  /\ UNCHANGED <<library, rate, device, iteration, serving, job, benchFaults>>

\* The end of the search on a device.
LeaveDevice == IF device < DeviceCount THEN device' = device + 1 /\ Go("device")
               ELSE Go("done") /\ UNCHANGED device

\* At the limit the device is left as it is.
Limit ==
  /\ step = "search" /\ quarter <= 4 /\ iteration >= MaxIterations
  /\ LeaveDevice
  /\ UNCHANGED <<library, rate, searchVars, iteration, shown, serving, job, benchFaults>>

Search ==
  /\ step = "search" /\ quarter <= 4 /\ iteration < MaxIterations
  /\ LET own == Pick(quarter, tried)
         other == PickFromCatalog(quarter, tried)
     IN \/ /\ own # NoModel /\ model' = own
           /\ Show("active", own) /\ Go("swap")
           /\ UNCHANGED <<device, quarter>>
        \/ /\ own = NoModel /\ other # NoModel /\ model' = other
           /\ Go("fetch")
           /\ UNCHANGED <<device, quarter, shown>>
        \/ /\ own = NoModel /\ other = NoModel /\ final # NoModel
           /\ LeaveDevice
           /\ UNCHANGED <<model, quarter, shown>>
        \/ /\ own = NoModel /\ other = NoModel /\ final = NoModel
           /\ quarter' = quarter + 1
           /\ UNCHANGED <<step, device, model, shown>>
  /\ UNCHANGED <<library, rate, tried, final, finalRate, prev, iteration, serving, job, benchFaults>>

\* A model that could not be loaded: the next budget.
Failed == /\ quarter' = quarter + 1 /\ Go("search") /\ UNCHANGED prev

\* The agent starts a download; what is loaded stays until it has ended.
Fetch_ ==
  /\ step = "fetch"
  /\ tried' = tried \cup {model} /\ iteration' = iteration + 1
  /\ \/ /\ job' = [job EXCEPT ![device] = model] /\ prev' = model
        /\ Go("measure") /\ Show("active", model)
        /\ UNCHANGED quarter /\ NoFault
     \/ Failed /\ BenchFault /\ UNCHANGED <<job, shown>>
  /\ UNCHANGED <<library, rate, device, final, finalRate, model, serving>>

\* The previous model is unloaded first.
Swap ==
  /\ step = "swap" /\ Go("load")
  /\ \/ serving' = (IF prev # NoModel /\ serving[device] = prev
                    THEN [serving EXCEPT ![device] = NoModel] ELSE serving) /\ NoFault
     \/ prev # NoModel /\ UNCHANGED serving /\ BenchFault
  /\ UNCHANGED <<library, rate, device, searchVars, iteration, shown, job>>

\* A load waits for the lock that a download on the device holds; one that fails has
\* already stopped the old server.
LoadModel ==
  /\ step = "load" /\ job[device] = NoModel
  /\ tried' = tried \cup {model} /\ iteration' = iteration + 1
  /\ \/ /\ Serve(model) /\ prev' = model
        /\ Go("measure")
        /\ UNCHANGED quarter /\ NoFault
     \/ Failed /\ BenchFault /\ Serve(NoModel)
  /\ UNCHANGED <<library, rate, device, final, finalRate, model, shown, job>>

Far(r) == IF r < Target THEN Target - r ELSE r - Target
Fast(r) == r * 100 >= Target * 115

\* (bug variant) The one farther from the target is kept.
DecideForFarther(r) ==
  \/ /\ ~Fast(r) /\ finalRate > 0 /\ Far(finalRate) >= Far(r)
     /\ Go("revert")
     /\ UNCHANGED <<device, final, finalRate, quarter, shown>>
  \/ /\ ~Fast(r) /\ ~(finalRate > 0 /\ Far(finalRate) >= Far(r))
     /\ final' = model /\ finalRate' = r
     /\ Show("done", model)
     /\ LeaveDevice
     /\ UNCHANGED quarter
  \/ /\ Fast(r)
     /\ final' = model /\ finalRate' = r
     /\ quarter' = quarter + 1 /\ Go("search")
     /\ UNCHANGED <<device, shown>>

\* The decision on a measured model: keep it, go back to the one before, or go on.
Decide(r) ==
  \/ /\ ~Fast(r) /\ finalRate > 0 /\ Far(finalRate) < Far(r)
     /\ Go("revert")
     /\ UNCHANGED <<device, final, finalRate, quarter, shown>>
  \/ /\ ~Fast(r) /\ ~(finalRate > 0 /\ Far(finalRate) < Far(r))
     /\ final' = model /\ finalRate' = r
     /\ Show("done", model)
     /\ LeaveDevice
     /\ UNCHANGED quarter
  \/ /\ Fast(r)
     /\ final' = model /\ finalRate' = r
     /\ quarter' = quarter + 1 /\ Go("search")
     /\ UNCHANGED <<device, shown>>

\* The heartbeats report the rate of the model.
Measure ==
  /\ step = "measure" /\ serving[device] = model
  /\ Decide(rate[model])
  /\ UNCHANGED <<library, rate, tried, prev, model, iteration, serving, job, benchFaults>>

\* (bug variant) The benchmark is waited for until something can be measured.
MeasureForever ==
  /\ step = "measure"
  /\ IF model \in {serving[device], job[device]} THEN BenchFault ELSE NoFault
  /\ \E d \in BenchDevices : serving[d] # NoModel /\ Decide(rate[serving[d]])
  /\ UNCHANGED <<library, rate, tried, prev, model, iteration, serving, job>>

\* They do not in time, or the download failed: a benchmark without a model name
\* measures any loaded one.
MeasureAny ==
  /\ step = "measure"
  /\ IF model \in {serving[device], job[device]} THEN BenchFault ELSE NoFault
  /\ \/ \E d \in BenchDevices : serving[d] # NoModel /\ Decide(rate[serving[d]])
     \/ /\ quarter' = quarter + 1 /\ Go("search")
        /\ UNCHANGED <<device, final, finalRate, shown>>
  /\ UNCHANGED <<library, rate, tried, prev, model, iteration, serving, job>>

\* Unload the last model, load the final one.
Reloaded ==
  /\ job[device] = NoModel
  /\ \/ Serve(final) /\ NoFault
     \/ Serve(NoModel) /\ BenchFault

\* (bug variant) The model that is kept is shown but not loaded again.
RevertOnPaper ==
  /\ step = "revert" /\ job[device] = NoModel
  /\ Show("done", final)
  /\ LeaveDevice
  /\ UNCHANGED <<library, rate, searchVars, iteration, serving, job, benchFaults>>

Revert ==
  /\ step = "revert"
  /\ Reloaded
  /\ Show("done", final)
  /\ LeaveDevice
  /\ UNCHANGED <<library, rate, searchVars, iteration, job>>

\* All budgets tried.
Exhausted ==
  /\ step = "search" /\ quarter > 4
  /\ IF final = NoModel THEN Show("failed", shown[device].model) ELSE Show("done", final)
  /\ IF final # NoModel /\ prev # final THEN Reloaded ELSE UNCHANGED <<serving, benchFaults>>
  /\ LeaveDevice
  /\ UNCHANGED <<library, rate, searchVars, iteration, job>>

\* The agent ends a download: it loads the model, or fails.
JobEnds(d) ==
  /\ job[d] # NoModel
  /\ job' = [job EXCEPT ![d] = NoModel]
  /\ \/ serving' = [serving EXCEPT ![d] = job[d]] /\ NoFault
     \/ UNCHANGED serving /\ BenchFault
  /\ UNCHANGED <<library, rate, step, device, searchVars, iteration, shown>>

Worker == \/ UnloadFirst \/ NextDevice \/ Limit \/ Search \/ Fetch_ \/ Swap \/ LoadModel
          \/ Measure \/ Revert \/ Exhausted

BenchNext == Worker \/ MeasureAny \/ \E d \in BenchDevices : JobEnds(d)

\* The worker runs on, a wait for a model included, and downloads end.
BenchFairness ==
  WF_benchVars(Worker \/ MeasureAny) /\ \A d \in BenchDevices : WF_benchVars(JobEnds(d))

BenchSpec == BenchInit /\ [][BenchNext]_benchVars /\ BenchFairness

----------------------------------------------------------------------------
(* Properties.                                                              *)

BenchTypeOK ==
  /\ library \in Libraries /\ rate \in Rates
  /\ step \in {"empty", "device", "search", "fetch", "swap", "load", "measure", "revert", "done"}
  /\ device \in BenchDevices /\ quarter \in 1..5
  /\ tried \subseteq BenchModels
  /\ {final, prev, model} \subseteq BenchModels \cup {NoModel}
  /\ finalRate \in {0} \cup {rate[m] : m \in BenchModels}
  /\ iteration \in 0..MaxIterations
  /\ shown \in [BenchDevices -> [phase : {"pending", "active", "done", "failed"},
                                 model : BenchModels \cup {NoModel}]]
  /\ serving \in [BenchDevices -> BenchModels \cup {NoModel}]
  /\ job \in [BenchDevices -> BenchModels \cup {NoModel}]
  /\ benchFaults \in 0..MaxBenchFaults

\* If no command fails, a device that is shown as done serves the model shown.
ServesWhatIsShown ==
  benchFaults = 0 =>
    \A d \in BenchDevices : shown[d].phase = "done" => serving[d] = shown[d].model

\* If no command fails, larger models are slower and each budget lets in one more model
\* at most, no model that was tried on the last device is closer to the target than the
\* one shown as its result. With two models in a budget the search for a larger one comes
\* back to the smaller, and forgets the larger.
Falling == \A i, j \in DOMAIN Order : i < j => rate[Order[i]] > rate[Order[j]]
Stock == library \cup {Catalog[i] : i \in DOMAIN Catalog}
OneEach == \A m, n \in Stock : Quarter[m] = Quarter[n] => m = n
ResultIsClosest ==
  benchFaults = 0 /\ Falling /\ OneEach /\ shown[device].phase = "done" /\ step = "done" =>
    \A m \in tried : Far(rate[shown[device].model]) <= Far(rate[m])

\* A benchmark that was started ends, whatever fails.
BenchEnds == step # "empty" ~> step = "done"
=============================================================================
