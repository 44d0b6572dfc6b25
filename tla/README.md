# Verification of the xola runtime

TLA+ models of [xola](../src/README.md), an agent runtime: a Rust process
(`runtime/`) that drives a ReAct loop, dispatches tools and keeps memory, and a
stateless Python server (`llm_surface/`) that wraps the LLM. The models are
checked with TLC on small instances; theorems about them are proved with TLAPS
for every value of the constants. `PROJECT.json` maps every definition to the
lines it models and lists the runs, the hazards, the findings, the mutants and
the theorems.

## 1. The system

| component | state | operations | modelled by |
|---|---|---|---|
| circuit breaker, `reliability/circuit_breaker.rs` | three atomics: state, failure count, time of the last failure | `can_execute`, `record_success`, `record_failure` | `CircuitBreaker`, abstractly `CircuitBreakerFSM` |
| loop detector, `reliability/loop_detector.rs` | a window of the latest calls | `record`, `is_looping`, `clear` | `LoopDetector` |
| short-term memory, `memory/short_term.rs` | a deque of messages, a token count | `push`, `needs_summarization`, `replace_with_summary`, `clear` | `ShortTermMemory` |
| plan executor, `planning/` | one task: iteration, memory, steps, replan counters, loop detector | `execute` | `PlanExecutor`, abstractly `AgentTask` |
| | a JoinSet of tasks | `execute_parallel` | `ParallelTasks` |
| tool registry, `tools/registry.rs` | tools and one breaker per tool | `register`, `execute_with_timeout` | `ToolRegistry` (concurrent tasks), `ToolCall` (one call, in detail) |
| input validator, `tools/validator.rs` | none | `validate` | `ToolCall` |
| tool timeouts, `tools/timeout_config.rs` | a default and overrides per tool | `set_timeout`, `get_timeout` | `ToolCall` |
| url fetch, web search, mock echo | none | `execute` | `ToolCall` |
| code execution, `tools/code_exec.rs` | one Docker container per run | `execute` | `CodeExec` (the container), `ToolCall` (the input) |
| hierarchical timeouts, `reliability/timeout.rs` | cancellation tokens per level | `new_task`, child tokens, `cancel_task` | `TimeoutContext`; the task deadline also in `PlanExecutor` and `ParallelTasks` |
| IPC client, `ipc/` | an HTTP client | `reason`, `summarize`, `embed` | `LlmSurface` |
| episodic log, `memory/episodic_log.rs` | table `episodes` | `insert`, `recent`, `find_similar_goals`, `delete` | `MemoryStores`; a task's `insert` also in `PlanExecutor` |
| long-term memory, `memory/long_term.rs` | table `memories`, settings of pooled connections | `store`, `query`, `delete` | `MemoryStores` |
| LLM surface: reasoning, server, summarizer, embeddings | none | `/reason`, `/summarize`, `/embed` | `LlmSurface` |
| LLM surface: parser | none | `/parse`, `parse_with_retry` | `ParseRetry` |
| runtime binary, `main.rs` | none | start-up and one demonstration call | no |
| observability, `docs/layer-5-observability.md` | | no code yet | no |

**How they interact.** The owner of the process registers tools and shares the
registry in an `Arc`. `PlanExecutor::execute` runs one task as a future on the
multi-threaded tokio runtime, raced against the task deadline by `select!`. In
each iteration it asks `/summarize` if the memory is nearly full, asks `/reason`
for the next action, and dispatches that action through
`execute_tool_with_replan`: the loop detector is asked, the call is recorded and
`ToolRegistry::execute_with_timeout` runs it under the timeout configured for
its name. The registry asks the tool's breaker, validates the input against the
tool's schema, runs the tool under the timeout, reports the outcome to the
breaker and logs the output. A failure goes back to `/reason` as a replan,
within two limits; a success is cut to an observation. Tasks share the registry,
and so the breakers; everything else is per task. `execute_parallel` spawns one
executor per subtask and joins them. At some of its ends a task appends a row to
the episodic log, which shares its pool of database connections with the
long-term memory. The tree of cancellation tokens is public and tested, but no
part of the runtime calls it except for the task deadline.

**What is hard.**
- The breaker's operations are sequences of atomic instructions that run in
  parallel on several worker threads, and no step compares before it stores.
  Its time is the wall clock, which may be set back.
- Verdicts reach a breaker long after it admitted the call, in any order, or
  never: a task can be dropped at the await of its tool.
- The executor's limits, counters, loop detection and memory interact through
  every sequence of answers an LLM can give.
- The deadline drops a task at any await, also while its row is being written.
- The branches of `execute_parallel` run in parallel with the parent that joins
  them. A failure aborts the others, an abort takes effect only between two
  polls, and a branch may end, fail or start a call in between.
- A timeout drops the request that starts a container; the daemon may still
  serve it. Dropping the tool's future skips the code after its await.
- An input is looked at twice, by its schema and by the tool, under two rules;
  text is sliced at byte positions, and a slice inside a character panics at
  three places of one call.
- A setting made on a pooled connection stays on it, whoever uses it next.
- Keywords, limits and rows of others meet SQL with rules of its own.
- What the LLM says is arbitrary: its silence, its malformed calls and the
  failures of the connection must not be taken for an answer.

**What makes each component correct.** The breaker behaves as its state diagram,
opens only after consecutive failures, never locks a tool out for good and gives
a recovered tool back. The loop detector bounds how often a call is repeated.
The memory keeps its budget and its count. The executor ends, within its limits,
shows the LLM the outcome of each call, and its log row agrees with its result.
Parallel tasks answer with what their branches did, and their work stops with
them. A cancellation reaches its own level and those below. The registry moves
each breaker by the executions of its own tool only; each execution gives one
verdict; a valid input is honoured. A code execution removes its container,
stops runaway code and reports the exit code of the code it ran. Reads of the stores
are exact, and a query runs with its own settings. The LLM surface tells the
executor to stop or to act as the model asked, reports every failure, loses no
usable answer, and answers a retried parse for its last attempt.

## 2. Modules

```
CircuitBreakerFSM <--refines-- CircuitBreaker <-- MCCircuitBreaker
        ^                            ^------- CircuitBreakerProofs
        '--- refines (per tool) --- ToolRegistry --.
AgentTask <--refines-- PlanExecutor          CodeExec --+-- MCTools
                        |  ^--- MCPlanExecutor  ToolCall --'
                        |-- INSTANCE ShortTermMemory --.
                        '-- INSTANCE LoopDetector -----+-- MCMemory
                                        MemoryStores --'
ParallelTasks, TimeoutContext -- MCParallelTasks
LlmSurface, ParseRetry -- MCLlmSurface
CodeExec <-- MCCodeExec

LoopDetector, ShortTermMemory <-- AgentMemoryProofs <-- MemoryProofs --> MCMemory
PlanExecutor <-- PlanExecutorProofs -- INSTANCE AgentMemoryProofs
ToolRegistry <-- ToolRegistryProofs <-- ToolsProofs --> MCTools
MCParallelTasks <-- ParallelTasksProofs
MCLlmSurface <-- LlmSurfaceProofs
```

The modules whose name ends in `Proofs` hold the theorems (section 4).

An MC module that hosts several components joins components that share no
state. Its variable `focus` is chosen at the start and says which of them moves,
so that their state spaces add up instead of multiplying; fairness is assumed
of the component in focus. Each component keeps its own type and
representation invariant (`DetectorTypeOK`, `MemoryTypeOK`, `StoresTypeOK`,
`RegistryTypeOK`, `CodeExecTypeOK`, `CallTypeOK`, `ParallelTypeOK`,
`TimeoutTypeOK`, `SurfaceTypeOK`, `ParseTypeOK`), and `TypeOK` of the host is
their conjunction.

**CircuitBreakerFSM** is the sequential breaker, one step per operation: what a
caller relies on. Time is the age of `last_failure`, which saturates, because
the code only compares it with `recovery_timeout`.

**CircuitBreaker** has one action per atomic load, store or `fetch_add` of the
code. `pc[c]` is where caller `c` is; `"calling"` and `"probing"` are admitted
calls in flight. The operations contain no await, so a caller inside one holds a
worker thread; `Workers` bounds how many can be inside at a time. `stamp[c]` is
the age of a clock value that `c` has read and not used yet. `streak` is a
history variable: the failures reported since the last success. The atomics are
interleaved sequentially consistently. The code uses Acquire/Release orderings
on three different variables, which allows a store to be delayed past a later
load of another variable; that reordering is not modelled.

**LoopDetector** and **ShortTermMemory** are the data structures as operators on
values (`Recorded`, `IsLooping`, `Pushed`, `Summarized`, ...) with a small
machine around them. Hashes are taken to be injective. A message is its kind and
its token count. Eviction is stated as the least number of messages that have to
go, and the count after each is computed with the code's saturating subtraction.

**MemoryStores** is the episodic log and the long-term memory behind one pool of
connections. An operation of a client checks its arguments (`Begins`), takes a
connection (`Acquire`) and runs its statement; `query` first sets
`ivfflat.probes` on its connection (`SetProbes`), and the setting stays there in
`session`. Any statement may fail, and any client be dropped, before or after
the statement took effect (`GiveUpOperation`, alone or after the statement with
nobody to hear the answer). `EpisodesFound` is what a read answers: the escaped
keyword matched by PostgreSQL's `ILIKE`, the cast of the limit, and the first row
that cannot be read. `op[c].arg` is what the statement of an operation uses: the row
of an insert, the id of a deletion, the probes of a query. `ForeignInsert` is another program with access to the
table, whose outcome the code refuses to read.

**PlanExecutor** composes the loop detector and the short-term memory. Each
action is the answer to one await with all the code up to the next await: that
is what runs without interruption inside the future. `insert` is the INSERT in
the database, which goes on when the task that sent it has been dropped. The
LLM's answers are arbitrary: any thought length, any call, `is_final` or not, or
an error. A text is its length, and its tokens are what `estimate_tokens` makes of
it. What the memory and the detector assume of their parameters is assumed of the
executor's (`MemoryAssumption`).

**AgentTask** is what the caller of `execute` and the readers of the log see:
boundedly many tool calls, one result, at most one row, agreeing with the result
unless the deadline hid it.

**ParallelTasks** is `execute_parallel`: a parent and one branch per subtask. A
branch is ready, running on a worker, or waiting for a call; `AgentTask` says
what its execution can return. A call that is answered at once (a dispatch the
registry rejects, the mock, a search without a key) does not suspend the branch,
which may go on to its next call in the same poll (`Call`). `Expire` is the
`select!` finding the deadline before it polls the work. `aborted` holds the
branches whose abort was asked for: one that is not running is dropped when it
would be polled next, one that runs goes on until a call has to wait or to its
end.
`JoinFailure` is the two question marks, which return the first failure or panic
that is joined and drop the JoinSet; `DropParent` drops the parent at its await.

**TimeoutContext** is the token tree: tokens made and cancelled in any order.
What a child token does is the library's.

**ToolRegistry** has one action for the code before the tool's await and one for
the code after it, for several tasks and several tools. The breaker's operations
are atomic here, as on one worker thread. The wall clock may be set back
(`ClockSetBack`): the age of a breaker is then negative until the clock catches
up. `rested` is a history variable, the time since the failure whatever the
clock says.

**ToolCall** is one call in detail, from the executor's lookup of the timeout to
the observation: the log line of the input, the breaker's and the validator's
answers, the tool up to its await, the head and the body of a response, the
timeout, the verdict, the log line of the output, the observation. An input is
told apart by its text (absent, a string, a string outside of an enumeration),
the form and value of its number, and whether a byte slice of it panics. A call
may also be made without the registry, as the tests of the tools do. After a
call the executor makes another one, or the corrected one (`Proceed`). The panic
of `format_observation` (executor.rs:539) is an outcome here and of a branch in
`ParallelTasks`; `PlanExecutor`, whose task it would just end, leaves it out.

**CodeExec** is one execution: the tool's future, the request in flight, the
daemon and the container. `Break` makes a request fail before or after it was
served. `orphan` is a start request the tool's timeout has dropped. `inspected`
is the exit code in the daemon's answer: that of an exited container, 0 for one
that still runs, or none, for which the tool reports -1 (`EXIT_CODE_UNKNOWN`);
`reported` is the exit code in the result.

**LlmSurface** is one call of the IPC client: sending, waiting for the head of
the response, reading its body; and the server's part of it: validation by the
pydantic models, the handler up to its one await of OpenAI, and the handler
after it, one action per outcome (`ReasonActs`, `ReasonConcludes`,
`ReasonTalks`, `ReasonUnparseable`, `ReasonIllTyped`, ...). The two fail apart:
`GiveUp` is the broken connection or the client's timeout at any point, and the
server goes on. Texts are told apart by what the code asks of them: empty,
blank, or spelling a special token, which `count_tokens` refuses. A `PlanExecutor`
await ends with one of this module's results: `Ok` is an answer, everything else
is `IpcFails`. `ExecutorFollowsModel` and the type of the answers are what
`PlanExecutor` takes for granted there.

**ParseRetry** is the validation of an output of the LLM against a schema, once
(`ParseOnce`, which is `POST /parse`) or with corrections (`parse_with_retry`).
An output is told apart by how it fails. The function suspends while it awaits a
correction, where the LLM may fail or the task be cancelled.

Operators whose comment begins with "Mutant" are faulty versions of the
definition after them. `PROJECT.json` lists which property refutes which.

## 3. Runs

| run | instance | what it shows |
|---|---|---|
| `MCCircuitBreakerOneWorker` | 3 callers, 1 worker, threshold 3, timeout 2, pause 2 | with one worker thread no caller acts on a stale view (`ViewsAreCurrent`), the breaker opens only after a streak (`OpensAfterStreak`), and it implements the sequential breaker (`ImplementsFSM`) |
| `MCCircuitBreakerThreads` | 3 callers, 2 workers, threshold 2, timeout 1, pause 1 | with races: no breaker is left Closed past its threshold (`NeverClosedPastThreshold`), an Open breaker is left as long as dispatches arrive (`NoLockout`), a recovered tool gets its breaker back for good (`Recovery`) |
| `MCMemory` | 2 calls, window 3, threshold 2, histories of 7; budget 9, messages of 1, 2, 3, 9 and 10 tokens; 2 clients, 2 connections, 2 goals, 6 keywords, 2 rows, release build | the detector reports exactly the loops of the full history (`DetectsExactlyLoops`); a push keeps the longest suffix that fits (`PushKeepsLongestSuffix`); whatever was written, deleted, lost or written by others, a read holds the newest rows that contain the keyword literally, and fails only for a row of others (`ReadsAreExact`); a query scans with its own instance's probes (`QueryUsesOwnProbes`) |
| `MCPlanExecutor` | 2 calls, window 4, threshold 3, budget 5, texts of 3, 16 and 27 bytes (1, 4 and 6 tokens), limits 3/3/4 | what the counters mean (`ReplansCountFailures`, `StepsAreIterationsAndReplans`, `ReplansBelowLimits`), the bound on repeated calls (`NoFloodOfOneCall`), what the LLM is shown (`ReasonSeesLastOutcome`), the row (`RowTracksTask`), the refinement of `AgentTask`, termination |
| `MCParallelTasks` | 3 branches of at most 3 calls, deadline after 1 tick; 2 steps, 2 tools | the caller hears Ok exactly if every branch succeeded, and otherwise an error a branch ended with by itself (`AnswerIsOfBranches`); once the parent is gone no branch is run again, and one that is just running stops at the first call that has to wait (`WorkStopsWithParent`); all ends although no call is answered (`BranchesEnd`); a cancellation reaches its level, those below, and nothing else (`CancelReachesOwnLevels`) |
| `MCTools` | 2 tasks, 2 tools, threshold 2, timeout 1, clock set back by 1; exit codes 0, 1, 137; numbers -1, 0, 1, 10, 11, 30, 31, configured timeouts 0 and 1, default 2 | every breaker follows the sequential machine in real time (`BreakersImplementFSM`) and trips only for its own tool's failures (`TripsOnlyFailingTools`); a container is removed before the return, unless the answer to its create request was lost (`ReturnsAfterCleanup`), a reported exit code is the true one and no OOM kill, except -1 and, after a broken log stream, 0 (`ReportsTrueExit`), runaway code is stopped (`RunawayCodeIsStopped`); every execution gives one true verdict even if a log line panics (`VerdictPerExecution`), the tools do what their schemas allow (`ValidInputsAreHonoured`) |
| `MCLlmSurface` | every request of the three endpoints, every kind of completion and exception; up to 4 attempts to parse | no failure is returned as `Ok` (`FailuresSurface`), no usable answer of OpenAI becomes an error but text that spells a special token and a final answer of the wrong type (`UsableCompletionsArrive`), the executor is told to act or stop as the model asked (`ExecutorFollowsModel`), every call returns although neither the server nor OpenAI has to answer (`EveryCallReturns`); a retried parse answers for its last output, and asks only about an output that failed and may be replaced (`AnswerOfAttempts`) |

The following runs are expected to fail: each checks a statement of the
documentation that the code does not meet.

| run | statement | what the code does |
|---|---|---|
| `MCCircuitBreakerTransitions` | the state diagram, "Atomic state transitions" | two workers: `can_execute` stores HalfOpen over a breaker that was closed in between |
| `MCParallelTasksJoined` | "Results are collected after all branches complete" (executor.rs:287) | the first failed branch returns while others are still at work |
| `MCCodeExecDropped` | "Automatic container cleanup on every exit path" | a dropped future leaves its container |
| `MCCodeExecFinalExit` | "After streaming logs with follow=true, the container has already exited. We inspect the container to get the final exit code" (code_exec.rs:325) | after a log stream that broke, the container may still run, and its exit code 0 is reported as `Ok` |
| `MCLlmSurfaceBuffer` | "The `token_count` field on each message is accepted but ignored here" (server.py:74) | `maybe_summarize` posts `token_count` as a number, the server accepts strings only and answers 422: a task ends as soon as it needs a summary |

Other disagreements met while modelling, visible in the definitions and not
given a run:

- *Breaker.* `record_failure` in Open is not a no-op, it restarts the cooldown
  (`StampFailure`; circuit_breaker.rs:170). A late success of a call admitted
  while Closed closes a HalfOpen breaker (`AfterSuccess`). HalfOpen admits every
  caller, not "one probe call" (`CanExecute`; circuit_breaker.rs:55).
- *Executor.* `is_looping` triggers at M repeats and not at more than M
  (`IsLooping`; loop_detector.rs:10). A loop ends the task without the promised
  replan (`DispatchHead`; layer-4-reliability.md:140). `max_replans_per_step`
  allows one replan fewer than it says (`ToolFails`; config.rs:32). A push evicts
  whatever does not fit, also inside a replan, without the summarization that
  layer-2-memory.md:43 promises before evicting (`Pushed`). A task that ends by a
  replan limit, a loop, an IPC error or the deadline leaves no row in the episodic
  log (`ToolFails`, `DispatchHead`, `IpcFails`, `Deadline`), though
  episodic_log.rs:3 promises one "every time the agent finishes a task (success
  or failure)".
- *Parallel tasks and timeouts.* The branches get the executor's limits but the
  default loop detector and task deadline, and no episodic log (`ParallelTasks`;
  executor.rs:312). Nothing returns `PlanError::Tool`, so the "temporary tool
  failures" of error.rs:117 are never retryable: a tool that keeps failing ends
  in a replan limit, which is not (`IsRetryable`). "Every execution level has a
  timeout" (timeout.rs:3), but the step and tool levels are only stored.
- *Tools.* A create request whose answer is lost leaves its container behind,
  because the tool never learns the id (`CreateAnswered`; code_exec.rs:7). The
  comment of `EXIT_CODE_UNKNOWN` calls it reserved for future use, but it is the
  exit code of an `Ok` whenever the daemon tells none (`InspectAnswered`;
  code_exec.rs:39). A page that is not UTF-8 is decoded
  with loss and does not fail (`ReceiveBody`; url_fetch.rs:43). A number written
  3.0 is an integer for the schema and not for `as_i64`, so that the default is
  used in its place (`Extracted`); `ValidInputsAreHonoured` speaks of numbers
  written as integers.
- *Stores.* `SET ivfflat.probes` outlives the checkout of its connection
  (`SetProbes`; long_term.rs:160), harmlessly, because every query sets it. A
  `top_k` of 0 does not return at once: a debug build panics and a release build
  asks the database (`Query`; long_term.rs:139). That a failure comes with an
  error and a success without one is a debug assertion only (`Insert`).
- *LLM surface.* An unparseable LLM response is answered 422 and not 502
  (`ReasonUnparseable`; server.py:258), and an answer of the wrong JSON type 500
  (`ReasonIllTyped`). A summary or an embedding of text that spells a special
  token is thrown away with a 422 after OpenAI has made it, where server.py:202 and
  :229 document 422 for invalid requests only (`SummarizeEnds`, `EmbedEnds`;
  embeddings.py:44). The client never retries a 500 or 503 (`ReceiveBody`;
  ipc-contract.md:160). `parse_with_retry` with `max_retries` 0 raises
  UnboundLocalError (`NextAttempt`).

### Bounds

- *Breaker.* Threshold 3 separates first, middle and last failure; three callers
  give a verdict in flight, a probe and an onlooker. Ages saturate at
  `RecoveryTimeout + MaxPause`, past which no comparison changes. `MaxPause`
  bounds how long a thread may be preempted between reading the clock and using
  the value. The invariants hold for every value of these by proof.
- *Loop detector, memory.* Histories twice the window; messages small enough for
  several to fit, of exactly the budget and beyond it.
- *Stores.* Two clients on two connections reach a connection whose setting is
  another's, and two statements that race. The goals hold a letter in the case the
  keyword has not, and every character `ILIKE` treats as special; the keywords
  are the empty one, each character alone
  and two together. Limits: 0, 1 and, with `MaxI64 = 3`, one whose cast is
  negative; a `usize` has one bit more. Two rows suffice for an order, a
  limit that cuts and a row of others among one's own.
- *Executor.* Texts of 3, 16 and 27 bytes are 1, 4 and 6 tokens, which in a budget of
  5 reach: everything fits, the
  summary threshold, eviction, a message that fills the threshold at once, and a
  message beyond the budget. Limits 3 per step and 4 per task are hit in either
  order. Window 4 with threshold 3 is shorter than the longest run of 6
  dispatches, so calls leave the window.
- *Parallel tasks.* Three branches: one that fails, one that is aborted while it
  runs, one that is aborted while it waits. Of the errors a branch may end with,
  one comes after a call and one before. Three calls per branch allow for one
  answered at once, one that waits and one after it. Two steps with two tools have a sibling on
  each level.
- *Registry.* Two tasks hold verdicts of two tools, or of one, at a time; one
  tick of clock set back is as long as the cooldown.
- *Tool calls.* Numbers on both sides of either range; timeouts shorter and
  longer than another; the timer is late by at most a tick.
- *LLM surface.* The requests and completions are all those the code tells
  apart; the theorem covers any set of requests. Four attempts have a first, a
  last and two between.

### Fairness

`CircuitBreaker!FairSpec`: a caller inside an operation goes on (the OS runs the
worker threads), time passes, and an admitted call ends, because the registry
puts a timeout on it; strongly fair, because a task whose call has ended needs a
free worker and may see it taken again and again. Nothing makes a caller call:
`NoLockout` assumes dispatches and `Recovery` assumes successes.
`PlanExecutor!FairSpec`: every await is answered, because the HTTP client and the
registry have timeouts, and the database answers. The deadline is not fair.
`ParallelTasks!ParallelFairness`: workers poll what is ready, the code between
two awaits ends, timers and aborts wake their task, time passes. No call need be
answered, so `BranchesEnd` rests on the deadline and the aborts alone.
`CodeExec!CodeExecFairness`: the daemon serves or breaks each request, the tool
is polled, its timer fires. The code in the container is not fair.
`MCLlmSurface!MCFairSpec`: only the client's own timer (`GiveUp`) is fair.

## 4. Proofs

Every theorem holds for every value of the constants that the named ASSUMEs of
the modules allow; the theorems of the breaker for one worker assume
`Workers = 1` besides. The strengthened invariants were checked by TLC on the
instances of section 3 before they were proved, except where they say that a
function exists, which TLC cannot enumerate.

| module | proves, for any ... | the theorems of properties that runs check |
|---|---|---|
| `CircuitBreakerProofs` | callers, workers, threshold, timeout | `TypeCorrect`, `NeverClosedPastThresholdHolds`, `ViewsAreCurrentHolds`, `OpensAfterStreakHolds`, `OneWorkerImplementsFSM` |
| `AgentMemoryProofs` | budget, messages, window, threshold | `PushKeepsLongestSuffixHolds` |
| `MemoryProofs` | clients, connections, rows, goals, keywords, limits | `DetectsExactlyLoopsHolds`, `QueryUsesOwnProbesHolds`, `ReadsAreExactHolds`, `TypesHold` |
| `PlanExecutorProofs` | calls, texts, limits, budget, window, threshold | `StepsAreIterationsAndReplansHolds`, `ReplansBelowLimitsHolds`, `RowTracksTaskHolds`, `ReplansCountFailuresHolds`, `NoFloodOfOneCallHolds`, `ReasonSeesLastOutcomeHolds`, `TypesHold`, `ExecutorImplementsTask` |
| `ParallelTasksProofs` | branches, calls, tokens | `WorkStopsWithParentHolds`, `AnswerIsOfBranchesHolds`, `CancelReachesOwnLevelsHolds`, `TypesHold` |
| `ToolRegistryProofs` | tasks, tools, threshold, timeout | `TripsOnlyFailingToolsHolds`, `BreakersImplementFSMHolds` |
| `ToolsProofs` | schemas, inputs, timeouts, exit codes | `ReturnsAfterCleanupHolds`, `ReportsTrueExitHolds`, `VerdictPerExecutionHolds`, `ValidInputsAreHonouredHolds`, `TypesHold` |
| `LlmSurfaceProofs` | requests, attempts, outputs | `FailuresSurfaceHolds`, `UsableCompletionsArriveHolds`, `ExecutorFollowsModelHolds`, `AnswerOfAttemptsHolds`, `TypesHold` |

`TypesHold` of a module about an MC module is of the host's specification, where
components stand side by side: a step of the host is a step of the one in focus
and leaves the variables of the others alone, so each keeps its own invariant.

**The breaker.** `NeverClosedPastThreshold` is inductive together with the types:
the store of Closed leads to `success_zero` by the same caller, and a count that
reaches the threshold leads to `failure_open`. For one worker, `Alone`, at most
one caller is inside an operation, follows from `WorkerFree` and makes the view
of a caller hold until it acts. With views current the count of a Closed breaker
follows the streak (`CountIsStreakHolds`, a theorem no run states), and each step
is a step or a stutter of the sequential breaker, where an operation takes effect
at one of its instructions, named in the module.

**The memory and the detector.** `CountAfter` and `TokensOf` are recursive
functions along the buffer. `LeastNumber` says that a set of numbers that is not
empty has a least member, and every induction here is an argument about the least
counterexample. `RecursionExists` says that such a recursion has a solution.
`IsPrefixSum(p, ms)` says that `p` is the sums of the prefixes of `ms`; from
there, the count after `k` evictions is what the remaining messages add up to
(`CountFromPrefix`), the saturating subtraction never bites, the loop stops at the
first `k` that fits (`EvictionsLeast`), and that is the longest suffix.
`IsWindowOf(w, s)` says that window `w` is the latest calls of history `s`;
`RecordedWindow` keeps it, and `WindowDetects` turns the count in the window into
the count in the history by a bijection of positions. `FloodFreeAppend` says what
a user of the detector gains: a call made while the window shows no loop occurs at
most `RepeatThreshold` times among the calls that the window can hold.

**The executor.** `ExecutorInv` joins the types of the control state,
`StepsAreIterationsAndReplans`, `ReplansBelowLimits`, the fresh counters of a task
that has not started, and `RowTracksTask`. The first two need each other: the
number of steps is bounded only through iterations and replans, and the refinement
of `AgentTask` needs that bound. Lemmas state that a handler ends in one of three
ways (`Ends`), so the row is argued about once. On top of it:
- `ContentInv`: the memory is sound, the window typed, the iteration within its
  limit, and `ReasonSeesLastOutcome`, which rests on `PushedOK`: what is pushed
  last is never evicted, however large it is.
- `CountsInv` names the last success in `steps`; every failure after it is a
  replan of the current step. It adds to `ReplansCountFailures` that the awaits
  before a new step come after a success.
- `FloodInv`: until the task returns, the window holds the latest calls
  dispatched. After a return it need not: the deadline takes back the call it
  interrupts, and the calls dispatched are then a prefix of what was no flood.

`PlanExecutorProofs` uses the facts of `AgentMemoryProofs` through an INSTANCE,
after showing that the operators of both are the same (`MemoryOperations`,
`DetectorOperations`).

**The stores.** `StoresInv`: no two clients hold one connection, a client holds one
exactly from its acquisition to its end, and past `SetProbes` the session of a
query's connection has its probes. That no other client writes that session in
between rests on the first part.

`ReadsAreExact` is the longest argument. `Laid(p, n, text, out, C)` says that `out`
is `text` with a `\` before its characters in `C`, and where each of them went.
Escaping one character lays a text out (`ReplacedLaid`); escaping another one of
the result still does, provided it is not `\` (`ComposeLaid`), which is why the
code may escape `%` and `_` after `\` and not before it. The recursion of `ILike`
has a solution (`LikeShape`), a set of positions for each place in the pattern, and
down the laid out keyword it is the positions where the rest of the keyword occurs
(`RowsOccur`). The rows have one order, in which the place of a row is the number of
newer ones (`RankOnto`, `DescendingRank`), so that the first `n` are the rows with
fewer than `n` newer ones (`NewestIs`). `EpisodesOK`, an invariant beside
`StoresInv`, says that ids are not used twice and that the log's own rows can be
read. A limit beyond `MaxI64` is negative after its cast, and answered by an error.

**Parallel tasks and tokens.** `StopInv`: once the parent is gone the abort of
every branch that was not joined is asked for (`AbortedWithParent`), so that a
poll drops it; the action property follows step by step. `AnswerInv`: until the
parent returns, what it has joined are successes whose results were pushed once
each, and an outcome other than a panic or an exhausted loop needs a call.
`TimeoutInv`: the tree of tokens is the levels (`TreeOfLevels`), so that what a
cancel reaches by the tree is what it is meant for.

**The registry.** `RegistryInv`: tools run and the clock is set back only after the
registrations; the count of a Closed breaker is at most the failures in a row of its
own tool; and the age of a failure falls short of the real time by no more than the
clock was set back, which the refinement of the sequential breakers needs.

**Tools and surface.** `CodeExecInv` knows, besides the types, what the tool was told
of the removal (`RemovalIsKnown`), when it has the id of its container and what
may exist before that (`IdIsKnown`), that a log that ended is of a container that
exited, and of which code the daemon tells (`ExitIsKnown`, `ReportIsOfExit`). `CallInv` says of the call in hand how long it has waited,
which input it has, where it is and which verdict it owes (`WaitOK`, `InputOK`,
`PointOK`, `VerdictOK`). `SurfaceInv` and `FollowInv`: `Ok` is reached only through
the head of a response 200, the server responds once, and builds a response 200 from
a usable completion and in agreement with it. `ArriveInv` is about the errors: a
handler holds no answer before it responds, and each error it makes of one is
explained (`Explained`). `ParseInv`: attempts, validations and
prompts are in step.

Only model-checked:
- liveness (`NoLockout`, `Recovery`, `Termination`, `BranchesEnd`,
  `RunawayCodeIsStopped`, `EveryCallReturns`), which is out of the prover's reach
  with fairness and ENABLED.

## 5. Not modelled

- The runtime binary: it reads the environment, starts logging and makes one
  demonstration call through the registry, whose behaviour is `ToolCall`'s.
- Observability, which is a document without code.
- `/health`, which returns a constant, and the start-up of the server.
- Text: prompts, messages, logging, the wording of schemas and errors, and the
  types of single fields of the models that the parser builds from a schema.
- The distance of vectors and the index behind it, which are PostgreSQL's, and
  the steps stored in an episode, which are written and read back as JSON.
- Weak memory orderings of the breaker's atomics (see `CircuitBreaker`).

Every other operation of the runtime and the server that changes state, or that
decides between outcomes, is an action of a module. What remains keeps no state
and makes no decision the properties could tell apart, so a model of it would
hold by its shape.

## 6. Plan

The models planned are written, and every invariant and every refinement the runs
check is proved. What a change of the code asks for is a change of its module, a
run, and the proof of the invariant it touches.
