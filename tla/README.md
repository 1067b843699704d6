# A TLA+ development of q27

q27 serves one language model from one GPU to several clients at once. Two servers share
the code base: the CUDA server (`src/server.cu` with `src/conductor.h`, `src/engine.cuh`,
`src/api_common.h`) and the Metal server (`src/metal/metal_server.cpp`). Two experiments
use the engine directly: `experiments/ds4-agent`, a coding agent in one process, and
`experiments/q27-tui`, a terminal client of that agent. This directory models how they
arbitrate the GPU, the slots, the caches and the lifetime of a request, what their
decoding rounds commit, what they put on the wire and what they leave on disk; it checks
the models with TLC and proves the central ones with TLAPS. Paths are relative to the
repository; `PROJECT.json` gives the lines behind each definition.

## 1. Inventory

| Part | State | Operations | What makes it correct |
|---|---|---|---|
| Metal lease (`Runtime::Lease`) | `next`, `serving` | draw, wait, release | one engine call at a time; a ticket waits for those before it only |
| Metal slot admission (`Runtime::run`) | slot tickets, `queue_waiters`, `cancelled_tickets_`, `busy`, `phase` | overflow, join, timed wait, probe, cancel, admit, release | FIFO; no ticket is lost; bounded queue; a slot has one owner |
| Metal request lifecycle | `draining`, `active_requests`, where each handler is | `RequestScope`, `StreamScope`, drain, resume, the quanta of `run()` | drained means quiet; every request ends |
| Metal slot sizing | budget, probes, the mapping's reservations | boot, `--ctx auto`, engine construction and destruction | what was solved for is admitted; reservations are those of live engines |
| Metal prefix reuse | per-slot memory cache, snapshot files and cached metadata | lookup, restore, mid-prefill and final save, evict | what is restored is what the file was saved for |
| CUDA `GpuGate` | `next`, `serving`, `nwait` | acquire, release, `maybe_yield` | exclusion, strict rotation, no missed waiter |
| Conductor, `TokenQueue`, `batch_generate` | `join_q`, `joins`, `members`, `stop`, queues | register, round, fail, leave, stop, drain loop | no frame is used after its queue closed; every token arrives; a stop leaves nobody blocked |
| Fused round | widths, streams, events, graph cache | `draft_widths`, `trim_widths`, `fused_round` | the host reads this round's results; widths as if trimmed one by one |
| Engine decode round | drafts, ring of pending tokens, masks | `spec_round`, `refinish_round`, depth control, suffix drafter | speculation changes no token; a mask is that of the state it is applied in |
| Engine prefix reuse, prefix tiers | KV rows, snapshot, checkpoints, files, RAM blobs | `generate_prefill`, `claim_slot`, write, rename, evict, rescan | a restore gets the state of its own prompt; an indexed file is whole, also after a crash |
| Text pipeline | held-back bytes of three buffers | `Utf8Gate`, `StopBuffer`, `StreamSplitter` | the output does not depend on where tokens cut the text |
| API translation | the open block or item, the call being streamed | stream and buffered handlers of four APIs, prompt rendering, error classes, trace | a client can assemble every stream; both handlers give one answer |
| Tool calls | grammar state, mask cache; the text of a turn | `ToolGrammar::step`, masks; `parse_bare_tool_calls` | masked output is a call; recovered calls are the ones written |
| ds4-agent | worker, control plane, signals, engine ledger, session files, file tools, terminal | FP1 operations, turns, tool rounds, save, load, edit | nothing asked is left unanswered; sessions and files survive deaths and other writers |
| q27-tui | event state, pending prompts | send, apply, interrupt, quit | UI and agent keep agreeing |
| Metal decode, sampling | rows and states of the engine, the walk's position, the sampler's candidates | the serial, resident, MTP and suffix walks; `sample_next`, the rejection walk | speculation changes no token and no mass; rows are those of the committed tokens |
| Tokenizer, loader | vocabulary and merges; the model file's table | load checks, encode, decode, templates; `Model::open` | decoding gives the text back; no read outside the file |
| Kernels, CLI | — | — | numeric or presentation code |

How the parts interact. On Metal, an HTTP handler thread enters a `RequestScope`
(atomics), queues for a slot under `route_`, then calls the slot's engine in quanta, each
under a scoped lease; `route_` and the lease are never held together. On CUDA, a handler
thread claims a slot, prefills under the gate (yielding at chunk gaps), registers its task
with the conductor thread and then only drains a `TokenQueue`; the conductor takes the gate
once per round and runs all members' decode steps. The queue and the task live in the
*request thread's* frame: the closing of the queue is the only synchronisation edge that
tells the thread it may go. Tokens become bytes, bytes pass the text pipeline, and segments
are translated into events. The agent's main thread gives one command at a time to
a worker that owns the engine, while a reader thread parses the client's lines; the TUI sits
at the other end of two pipes.

What is hard here: tickets cancelled in mid-queue, guards whose destructors pass turns on
exceptions, counts read outside their mutex, use after the close edge, registration
racing shutdown, files replaced between a check and a use, state of the GPU read a round
late, a parser that learns what it has sent only afterwards. `PROJECT.json` lists the
main hazards at their lines with the properties that cover them; section 4 has the rest.

## 2. Modules

| Module | Models | Composes |
|---|---|---|
| `TicketLock`, `SlotQueue`, `FifoAdmission` | the Metal lease; slot admission; abstract first-come first-served admission | `SlotQueue` refines `FifoAdmission` |
| `MetalServer` | scopes, drain, and `run()` as leased quanta | `SlotQueue`, `TicketLock` |
| `GpuGate`, `Conductor` | the CUDA gate; conductor thread, token queues, `batch_generate` threads | `Conductor` instantiates `GpuGate` |
| `PrefixCache`, `PrefixRam`, `PrefixTiers` | disk tier; RAM tier; the restore and persist paths | `PrefixTiers` composes both |
| `EnginePrefix` | what an engine reuses of its last prompt, and `claim_slot`'s routing by it | |
| `SpecRound` | a solo speculative round with both drafters and the tool constraint | |
| `FusedRound` | a batch's round on several streams | |
| `MetalDecode`, `Sampling` | the Metal engine's generation walks; sampling and rejection | |
| `Tokenizer`, `Loader` | text to tokens and back; the table and blobs of a model file | |
| `SnapshotStore` | memory and disk tiers of the Metal server | |
| `SlotPlan` | sizing and admission of the Metal slots at boot | |
| `StreamText` | `Utf8Gate`, `StopBuffer`, `StreamSplitter` | |
| `MessageStream`, `ChatStream`, `ResponsesStream` | `/v1/messages`, `/v1/chat/completions`, `/v1/responses` of the Metal server | |
| `CudaStreams` | the same of the CUDA server, with its budget preflight | |
| `PromptTemplate`, `HttpApi` | request to prompt; status, error envelope and trace of a request | |
| `ToolGram`, `ToolRescue` | grammar and mask cache of constrained calls; recovery of unwrapped ones | |
| `AgentWorker`, `AgentControl` | the worker and its events; reader, main loop, signals | `AgentControl` extends `AgentWorker` |
| `AgentEngine`, `AgentSession`, `AgentTools`, `AgentRepl` | the engine's ledger; session files; file tools; the interactive loop | |
| `TuiClient` | the TUI, the pipes and the agent it drives | |
| `MetalServerProofs`, `GpuGateProofs`, `ConductorProofs`, `AgentProofs`, `PrefixTiersProofs`, `SpecRoundProofs`, `PartsProofs` | theorems (`TicketLock` holds its own) | `MetalServerProofs` proves the queue and the HTTP layer and lifts the queue and the lease to the server, `ConductorProofs` uses the gate's; `AgentProofs` covers `AgentRepl` and `TuiClient` too, `PrefixTiersProofs` also `EnginePrefix`, `PartsProofs` the store and the agent's engine, sessions and tools |
| `MC*` | instances for TLC: values, symmetry, views, conjunctions (the agent, the queue with a throwing probe, the snapshot store and the tiers with a shared name are run as they are) | |

Conventions. A critical section of a mutex is one action, and a `cv.wait` is the guard
of the action that follows it (spurious wake-ups re-evaluate the predicate, so they are
stutters; every notifier notifies after changing what the predicate reads). Where the code
unlocks in between, the model has two actions. An exception is an alternative action that
takes the path of the destructors. Where a handler is a function of its
input (streams, prompts, the call recovery) the model is an operator on a record and an action that
applies it. Names follow the code; variables marked *observation* are not in the program
and influence nothing. A definition that no other one uses and that differs from its
successor in one point (`YieldUncounted`, `NoMargin`) is a deliberately wrong variant,
used to show that a property can fail.

**SlotQueue.** `qstate[r]` says where `r`'s thread is ("probe" is the unlocked region
around `live()`). `drain_cancelled` is `DrainedTo(s)`: `s` is the first value from
`slotServing` on that is not cancelled; every action that the code begins with
`drain_cancelled()` conjoins it. `Join` and `WalkIn` are the two ways through the first
predicate evaluation. `ProbeMayThrow` enables line 1203. The refinement mapping reads the
live waiters' tickets as `FifoAdmission`'s order.

**MetalServer.** `loc[r]` walks `run()`: restore, chunk loop (probe, width, chunk), serial
tail, insert, phase, begin, rounds and deliveries, cleanup, release. `After(r)` lists where
each quantum may lead, early exits and throws included. `RequestScope` is two actions,
because its increment and its look at `draining` are two atomic operations.

**Conductor.** `rpc[r]` is the request thread in `batch_generate`, `cpc` the conductor in
`run`, `round`, `fused_round`, `fail_member` and the shutdown drain. `Touch(S)` is written
at every step in which the conductor follows a pointer of a member and records those
whose frame is gone. A round is abstracted to `n` tokens of which one may be EOS.

**PrefixCache, PrefixRam, PrefixTiers.** A prefix is a token sequence and also names the
engine state it leads to, so "the right state" is an equation. A file is a sequence of
parts with a `synced` flag; a writer has its own descriptor and offset. Each system call
of `write()` is one action, each critical section of `m_` another; `Crash` loses what is
in memory and what was not synced, then does what `init` does. Keys may collide.

**EnginePrefix, SpecRound, FusedRound.** A KV row is the token it was computed for and a
recurrent state the tokens it has read, so stale rows and states show as
unequal sequences. The target model is an oracle that is asked once per position; a
draft lane off that path says something else, so accepting it by mistake shows. Streams run
their operations in order and side by side; an operation that runs too early leaves junk.

**SnapshotStore.** Each call of the store is one step, each leased call of an engine
another; the slot's choice of a snapshot is made before the lease and used under it.

**Streams.** Each handler's route is a function on a record: the open block or item, the
call being streamed (`ToolCallStreamer`'s state), the text held back, the events sent. What
a segment is parsed to is a choice among the outcomes the parser has. The buffered
handler is applied to the same segments, and the twins' answers are compared.

**ToolRescue.** A text is a sequence of pieces (prose, fence, object, opener, brace, cut
call, call without its opener); an object keeps what the recovery asks of it. The scan,
the name-dropped batch, the spliced opener and the raw-value rescue run in the code's
order, and a recovered call remembers the piece it came from.

**Agent.** `AgentWorker` has the mutex sections of both threads; `AgentControl` says when the
control side takes its steps, with the reader, the queues and the signals. In `AgentSession`
directory operations survive a power loss up to any point after the last sync; in
`AgentTools` each system call that another process can tell apart is a step. `AgentEngine`
keeps the rows of the `MetalEngine` beside the ledger that is supposed to describe them.

## 3. Runs

| Run | Instance | Properties |
|---|---|---|
| `metal_server` | 3 requests, 2 slots, queue of 1, throwing probes, 2 drains | `LeaseRight` (one driver per engine, bounded gate wait, one full-width chunk), `DrainedMeansQuiet` |
| `metal_server_liveness` | 3 requests, 1 slot, queue of 2 | `TurnsAccounted`, `AdmittedInOrder`, `ImplementsFifoAdmission` (refinement), `EveryRequestEnds` |
| `slot_queue_probe_throws` | the queue with a throwing probe | **violation** of `NoWaiterSkipped` |
| `conductor` | 3 short requests on 2 engines, or 2 long ones that yield | `BatchSound` (no dangling access, owed members drain, lanes suffice, finished once, GPU exclusive), `HonestEnd`, `StoppedLeavesNobody`, `NothingLost` |
| `conductor_liveness` | 2 requests, 2 engines | `EveryRequestEnds`, `StopEnds` |
| `serving` | prefix tiers, engine reuse, speculative rounds of both engines, sampling, fused round | `TiersHonest`, `RestoreRight`, `RowsRight`, `SpecLossless` (no speculative round commits what a plain walk would not), `MaskNeverLags`, `WalksExact` (the same of every walk of the Metal engine, greedy or sampled), `FusedExact` (a batch does for each member what its own round would) |
| `prefix_shared_write` | 2 engines with one system block | **violation** of `TornNeverIndexed` |
| `agent` | 2 lines of every operation, queues of 1, ring of 3 | `EventsInPlace`, `TranscriptClosed`, `NothingUnanswered` |
| `agent_signals` | 1 line, 2 signals | `HardSignalKept`, `SessionEnds` |
| `parts` | snapshot store, agent engine, sessions, tools, text pipeline, GPU gate, tokenizer, loader | `StoreHonest`, `EngineAsLedger`, `SavesSurvive`, `ReportsTrue`, `TextKept` (wherever text is cut, and through the tokenizer and back), `WaitersSeen`, `RotatesInOrder`, `OnlyAdvances` |
| `snapshot_stale` | 2 slots, one file removed and saved again | **violation** of `PendingRight` |
| `edges` | streams, prompts, errors, grammar, call recovery, TUI, interactive loop, slot sizing | `WiresOk`, `TwinsAgree`, `PromptsHold`, `CallsRight`, `TuiAgrees`, `ReplKeeps`, `AnswersTrue`, `SlotsFit` |

`serving`, `parts` and `edges` hold several components that share no state. The variable
`part`, chosen initially, says which one takes the steps; the VIEW `Moving` keeps only its
variables, so the graph is the disjoint union of the components' graphs. Their properties are
conjunctions of named properties of the components, each defined and commented in its own module.

*Why the bounds are enough.* Ticket mechanisms compare tickets with `serving` only: three
requests around one slot give an owner and two waiters with a cancelled ticket in front or
behind, and the theorems cover every length. Three requests on two engines make an engine
change hands while another member is live. The VIEW `Relative` subtracts `serving` from all
tickets, so threads may cycle for ever in a finite graph. In the prefix tiers two prefixes
collide, a third evicts, and both engines persist one system block, though not at the same
moment (the step of this part is `Next /\ WritersApart'`); three requests are enough for a write,
an eviction by another engine and a restore that races it, with a crash anywhere. In `EnginePrefix`
three prompts in a row let a long one, a shorter one and a return to the first meet the ring.
`SpecRound` has two answers of five tokens with rounds of up to four lanes: drafts
longer than the answer, calls that begin and end inside a round. Two fused rounds
are what a missing wait needs; the part also passes with a `UnionCap` of 4 and of 3, where the
floors alone reach the cap. The agent's event ring of three is filled by two deltas.
Four or five segments reach each pair of neighbours in a stream, and what precedes and follows
it. Four pieces of text hold two openers with their objects, or a fenced pair. In the interactive loop an
edit carries over one character (`EditRoom`), the drain gives up after one spin (`MaxSpins`), the
terminal holds two keys (`MaxHeld`) of six, and the session is resumed on one exchange, so that
compaction and a cut turn meet a history (`Resumed`, `MaxTalk`; past four keys, `FewKeys`, the
transcript stays below `MaxTalk`, since the two hardly touch). Of two HTTP requests at most one is
cut inside a character, one that fits the context and gives its budget. The grammar's words are
two bytes long; tokens that end inside each are in the vocabulary.

*Fairness.* `WF` per thread: the operating system schedules runnable threads and GPU
quanta terminate (failures exit the process or throw). Nothing forces a client to
disconnect, an operator to drain, a probe to time out, a signal to arrive or a conductor to be
stopped. Weak fairness is enough because every wait is served in ticket order or has one waiter.
`EveryRequestEnds` of `Conductor` starts at the claimed slot: `claim_slot` is documented as
unfair. In `AgentControl` the main loop, the worker and the reader (while it has
input) are fair; the client is not, so `SessionEnds` is about a quit or a signal that came.

*Deadlock* is checked in `metal_server`, `metal_server_liveness` and `conductor`. In
`conductor_liveness` a conductor without requests waits on its condition variable, as it
should; in the other runs components end when their work or their bound is used up.

## 4. Where the code differs

*Findings* (runs that end in a violation). `metal_server.cpp` line 1203 rethrows what
`live()` threw with `TurnPass` armed; in mid-queue this passes the turn of the ticket in
front, which the comment at 1169 says must not happen. `prefix_cache.h` line 242 opens the
temporary file by a name made from the final one: two engines that prefill the same
system block both write through it, although the comment at 232 says that a torn write can
never be indexed. `metal_server.cpp` line 1282 loads a snapshot whose logits were exact when it was
matched and may be stale when it is opened under the lease.

*Stated in a module and not in a run*, since the code does not keep them; adding the name to
the configuration shows a trace:

| Property | Configuration | What it is about |
|---|---|---|
| `TuiClient.ClearedNeverRuns` | `Edges.cfg` | app.rs:190 names a prompt as cleared that then runs |
| `AgentRepl.DiagsApart` | `Edges.cfg` | a diagnostic is glued to an unfinished model line (q27_agent_editor.c:201) |
| `ResponsesStream.FencedIsText` | `Edges.cfg` | a streamed answer takes a call out of a code fence (metal_server.cpp:3530) |
| `CudaStreams.OnlyOneItemOpen` | `Edges.cfg` | two Responses items share an index (server.cu:2440) |
| `ToolRescue.EarlierCallsKept` | `Edges.cfg` | the raw-value rescue drops a call that was recovered (api_common.h:1737, against the comment at 1731) |
| `ToolRescue.ArgumentsKept` | `Edges.cfg` | a flat call is read without its arguments, an opener with those of its neighbour (api_common.h:1391) |
| `ToolRescue.ExamplesStay` | `Edges.cfg` | a call whose name was dropped is taken from inside a fence (api_common.h:1191, against the comment at 1497) |
| `TuiClient.QuitNeverKills` | `Edges.cfg` | Ctrl-Q kills an agent at work after 300 s, or at a line that does not parse (main.rs:303-325, 418) |
| `AgentRepl.CarriedWhole` | `Edges.cfg` | unfinished text is cut to 4095 bytes when it is carried to the next edit (q27_agent_editor.c:101, 401), and a failed read puts newer text in its place (301) |
| `HttpApi.RequestsTraced` | `Edges.cfg` | a prompt cut inside a character loses its trace event (metal_server.cpp:535-545) |
| `SpecRound.EveryCallMasked` | `Serving.cfg` | a second call in one round begins without a mask (toolconstrain.h:133) |

`AnswersTrue` speaks of a request's trace event only where that cut does not fall inside a
character (`Traceable`). `CallsRight` fails for tool names that contain the
separator of the mask cache's key (toolgram.h:363). `AgentEngine` with `Sampling = TRUE`
saves sessions that its loader refuses (q27_agent_engine.cpp:1020).

*Met and accepted*: `claim_slot` may be barged (server.cu:851); an entry persisted again
while its eviction unlinks stays in the index without a file, and a read of it falls back to
a cold prefill (prefix_cache.h:300); a blob whose read failed is dropped and pinned anew
(prefix_ram.h:114); a SIGINT overwrites an earlier SIGTERM (q27_agent.c:307); a prompt parsed
after a quit may run if an earlier one starts in between (q27_agent_frontend.c:1390); operations
queued when the session ends are dropped (1555); undoing an edit may overwrite a second foreign
write, and unlinks a write that lands while the edit is displaced (q27_agent_tools.c:1170-1219:
`WorkKept` excludes exactly that); keys pressed between the editor's last poll and the flush of
the terminal, or held by it after 10000 spins, are discarded (q27_agent_editor.c:144-156,
linenoise.c:663); a snapshot directory may stay over budget until the
next save (metal_server.cpp:1401); of two stop sequences one inside the other, which is found depends
on the tokens (stream_format.h:48); `reuse_len` ignores the batch minimum, which only
affects routing (engine.cuh:2979); the name-dropped batch is searched inside
fences too (api_common.h:1191).

## 5. Proofs

All theorems hold for every value of the constants: any number of requests, threads,
engines, slots, blobs, files, tokens, signals and crashes. Each rests on an inductive
invariant that TLC checked first, a lemma per action that keeps it, and a last step that
reads the property off. Where a run checks the same definition, the run shows it on a small
instance and the theorem in general.

*TicketLock.* `LockInv`: types, and the tickets from `serving` to `next - 1` are
held, one each, by the threads waiting or inside. Exclusion alone is not inductive: two
threads could hold the same ticket. `LockTypeCorrect`, `LockTicketsAccounted`,
`LockExcludes` follow.

*MetalServerProofs, the queue.* `QueueIInv` conjoins the types, `TurnsAccounted` (unserved tickets
are partitioned into those of live waiters and the cancelled ones), `SlotsExclusive`,
`WaitersCounted` and `SpreadBounded` (`slotNext - slotServing <= QueueMax`, from which
`QueueBounded` follows by counting: waiters' tickets are distinct numbers in an interval of
that length). One lemma per action; `DrainKeepsTurns`, `PassKeepsTurns` and
`JoinKeepsTurns` carry the interval arithmetic. `QueueAdmitsInOrder` is an action property:
an admitted ticket equals `slotServing` after draining, and every live waiter's is larger.
`QueueImplementsFifo` is the refinement: under the mapping that orders the live waiters by
ticket, each step of the queue is a step of `FifoAdmission` or a stutter. These are about
`QueueSpec`, whose probes return. `ThrownProbeKeepsSlots` is what is left when they throw
(`ThrowSpec`): turns may be skipped, as the run `slot_queue_probe_throws` shows, but a slot still
has one owner; its invariant `OwnersInv` drops the tickets and keeps the ownership.

*MetalServerProofs, the server.* Each step of the server is a step of the queue and one of the lease, or
leaves them alone, so `OwnersInv` and the lease's invariant carry over; `ServerInv` adds
`PlacedInv` (a slot is owned exactly inside `run()`, a lease is asked for at a quantum only, a
width pends for its chunk only), `OneFullWidthChunk`, `ActiveCounted` (`active_requests`
counts the open scopes) and `DrainHeld`. `ServerLeaseRight` gets the bound on quanta ahead of
a ticket from counting owners; `ServerDrainedQuiet` needs the count, because the operator
sees a number and concludes where threads are. `ServerSlotsExclusive` and
`ServerImplementsFifo` lift the queue's results to the composed server.

*MetalServerProofs, the HTTP layer.* `HttpInv`: types; ids (no two requests share one, none is
still to be given, a request has none before its handler takes it: `IdInv`); per request `BlameOk`
and `AccountOk`. The last is what `TraceAccounts` says once a request has ended, and while it
runs that its request event is there, first, and no end yet, without which "ends once" is not
inductive. `HttpTurn` reduces a step to the request that takes it: what it appends to the log
carries its id or an arrival's, so the accounts of the others stay (`FirstKept`, `TraceOfOthers`).
`BlameStaysRight` and `AnswersStayTrue` assume `Context > 1`: the server boots with `--ctx 1`, takes
a one-token prompt and clamps its budget to 0 (metal_server.cpp:2305). A request whose traced
prompt is cut inside a character has no request event (section 4); its end is still logged once.

*GpuGateProofs.* `GateInv`: types, the accounting of tickets, `WaitersSeen`, and finitely
many sleepers. The count of sleepers is needed even for types (`nwait - 1` on waking must not
go below zero); it also gives a holder that saw `nwait > 0` a sleeper whose ticket lies
behind its own (`SomeoneBehind`), so `maybe_yield` always passes on a ticket somebody holds.
`GateAccounts`, `GateExcludes` and `GateSeesWaiters` follow; `GateRotates` is an action
property from the same invariant.

*ConductorProofs.* `ConductorInv` has one part per question: `RoundInv` (whom the round
has visited, is at, has still to visit; in the phases of shutdown `joinQ`, then `joins`, then
`members` are empty), `EngineInv` (an engine has one running request), `FrameInv` (until its
queue is closed, the thread of an accepted task stays in its drain loop, and a task is
finished once), `TokenInv` (what was emitted is delivered, popped or buffered), `EndInv` (the
end reason an engine carries is that of its request), the gate's invariant through an INSTANCE of
`GpuGateProofs`, and `GateUse`. `ConductorBatchSound`, `ConductorHonestEnd`,
`ConductorLeavesNobody` and `ConductorNothingLost` follow. That a batch fits the union view
is an assumption on the constants, `Cardinality(Engine) <= MaxUnion`: the server clamps
`--slots` to 8 (server.cu:400, 531).

*AgentProofs.* Four invariants that need little of each other. `SignalInv`: a signal that
ends the session leaves the interrupt up, except between the two stores of
`try_ack_sigint`, where `last_signal` remembers it. `EventInv`: while the worker owes
a terminal event none is queued and the ring has room for it; every queued event is of the
current command, its terminal event last; away from its event loop the main thread has read all.
`LineInv`: the lines owed are those held in the two queues, the ring of dropped operations and
the main loop's hands, each once. `ChatInv`: where the worker stands says what the
transcript may end in (a user's message while it asks, an open call while a tool runs, closed
otherwise); it includes `Loaded`, since a loaded session becomes the transcript.
`LoadedAssumption` states what the loader enforces on one. `AgentKeepsHardSignal`,
`AgentEventsInPlace`, `AgentLosesNoLine` and `AgentClosesTranscript` follow.
`ReplLosesNothing` is about the interactive loop. `ScreenInv`: the prompt is hidden exactly while
unfinished output stands on its row, and only a busy session leaves any there, so no redraw
erases output. `TypedInv`: every character typed and not accounted for is in the edit, the carried text, the
terminal, the line at hand or the queue; between two edits the buffer, which the next edit
overwrites, is empty; and nothing that was due at the end of a turn is left in the terminal when
raw mode is left. `TalkInv`: user and model take turns in the transcript and a call has its
response next, except at its end while a turn runs or has failed; `CloseTurn` makes whole
exchanges of every such end.
`TuiStaysTrue` is about the TUI, which decides on what the agent said a while ago. `TuiAgrees`
speaks of the moments when it has caught up; the invariant says of every other moment what
it will show once it has applied what is printed (`After`: some unread event brings it about and no
later one undoes it, or it holds now and none undoes it). `DisplayInv` states so for the
phase, the text and the open tools, given where the agent stands; `PendInv` for each pending
prompt: one that ran, was refused or was dropped has an event on its way that settles it. `OrderInv`
and `TakenInv` follow prompts through the pipe and the queues: none is lost, and what is still
unread when a quit was read came after that quit, so the agent's bye means that everything before
it is settled (`ByeInv`); a drain that gives up without a bye is outside (`gaveUp`,
section 4). `StartInv` ties the beginning and the end of the UI to the agent's. A step of either side is one of three kinds: the agent prints, the UI takes the oldest event
(`TakesKeep`), a key sends an operation (`KeysKeep`).

*PrefixTiersProofs.* `TiersRestoreRight` and `TiersAreHonest`. `TiersInv` conjoins the types;
`FileInv` (a writer owns its temporary file and has written its own prefix so far; a final
name refers to a synced whole entry; no file has two names; whoever will index or remove a
file can be named; nobody looks up a name while it is being written for the first time);
`EngineAt` (an engine between verify and read still has the entry it verified, or none; what it
imports is its prompt's); and `BlobInv` (a blob in flight is nobody else's; a held one keeps
its contents, so the writer streams what it was given). An index entry without a file is
allowed: the code meets it (section 4). The theorems
assume `KeysApart`, on the constants: what one engine persists never has the key of a different
prefix of another's prompt (within one engine keys may collide, and do in `serving`); and, as a
temporal hypothesis, `[]WritersApart`: no two writers are at work on one file name at the same
moment. Engines may share prefixes, one restores what another wrote, and both may persist it one
after the other. The code does not see to `WritersApart`: without it the theorems are
false, which is the finding `prefix_shared_write`. That blobs and files never
run out is proved by counting (`SomeBlobFree`, `SomeFileUnused`). The provers cannot use an
induction theorem with an operator parameter; `SetInduction` and `LeastNatural` obtain the
induction that `Without` needs from least elements of sets of naturals.
`RowsStayRight` is about what an engine keeps on the device, for every set of prompts. Its
invariant `PrefixInv` is mostly about the time *between* the states that `RowsRight` speaks of: a
checkpoint that outlives the beginning of a prefill is below the rows it will write or a prefix
of its prompt (`RingInv`), so writing them again changes nothing (`RowsKept`); when decoding
begins, all that is cached is no longer than the prompt, and rounds write behind it. The snapshot
has no such guarantee while chunks are read: a blob may have overwritten its rows, and it is
right again only because `SnapSave` replaces it before the job can end. The promise made to the
router holds because nothing touches an engine's caches while it is claimed (`RoutedInv`).

*SpecRoundProofs.* `RoundsAreLossless` and `MasksNeverLag`, for every model (`After` is any
function), depth ladder, echo index, pool and budget. `SpecLossless` speaks of the time between
rounds, so the work is in the state between a round and `post_round`: `PostInv` says that
wherever the round will be cut, the state of that lane is in the buffer the roles would turn
back to, its row is stored, and its token is the argmax under the mask it was decided under. It
needs that an accepted lane reads the path (`AcceptedFacts`), that each lane's state lands in
its own buffer (`MixedFacts`) and that turning the roles forth by n and back to k is turning
them forth by k (`TurnFacts`), which is where `SfxWidth <= WMax` is used. `MaskInv` adds the
constrainer: `Off` (nothing is staged, and a marker it remembers as half read is the end of the
text) or `On` (its grammar is that of the committed text, the token due next is legal, and
slot 0 holds the mask of what comes after that token), and `ReadBack` (a round was decided
under slot 0, then under nothing). The legality of the token due next is what makes it
inductive: it holds because slot 0 decided it one round earlier (`PickLegal`). `Walk` and
`OnIds` are recursive functions; what they do to one more token is proved from least elements of
sets of naturals (`SetInduction`, `LeastNatural`), as the provers take no induction rule.

*PartsProofs.* Four components, each with an invariant of its own.
The store (`SnapshotsHonest`, with `EntriesUnlike` and `ExactStays`): an entry in memory is the
state of its own tokens and no two are of one kind; a file that loads holds what its name says; the
metadata may be false only between the rename and the end of the save, and then the saver holds
the lease (`LeaseInv`), so no request can act on it. Each action is shown to keep a frame
(`StoreOthers`, `FilesMove`, `LeaseStep`) from which another slot's `RequestInv` follows.
The engine (`LedgerAgrees`): while a prompt is ingested the rows are a prefix of it
(`PromptInv`), while tokens are published they are the ledger and what the round encoded ahead
(`DecodeInv`); `TurnFits` gives the room; a snapshot is a ledger and the rows it counts.
Sessions (`SessionsSurvive`, `SessionsContinue`): every directory that a power loss may leave names a
snapshot it has and is not older than the last reported save (`DiskInv`). It needs that names
of snapshots are fresh until they are published (`NameInv`), that writers hold the lock alone
(`LockInv`) and what a holder knows of the disk at each step (`HolderInv`).
Tools (`ToolReportsTrue`): a call's bytes are in no file but its own until it publishes
(`CallInv`), a private inode is known to nobody else (`PrivateInv`), and an edit that
displaced a file keeps what it needs to put it back (`EditInv`). Edits and writes reported done
are followed alike, except a write that lands while an edit is displaced (section 4).

*Only model-checked*: liveness (fairness and ENABLED are out of the prover's reach); modules
with RECURSIVE operators (`StreamText`, `ToolGram`, `ToolRescue`, and the stream handlers and
prompts built on them), where the SMT backend is lost; `FusedRound`, `MetalDecode`, `Tokenizer` and
`Loader`, which compare two folds over sequences, an induction over data; and `SlotPlan`, whose
`AutoFits` is a fact about the charges and margins of the code, not about every value of them.

## 6. Not modelled, and the plan

Not modelled: CUDA and Metal kernels; command lines, benchmarks and the drivers of tests;
rendering in the TUI and the editor; JSON text, whose parsers are choices among their
outcomes; the opt-in `Q27_TOOL_SPLIT` path; process tools of the agent; API keys. Of sampling the
arithmetic is abstracted to levels and weights, of the tokenizer the character classes to
one byte each. Details left out beside the modelled ones: the list of dropped
operations is coalesced past eight (q27_agent_frontend.c:1327), where `AgentControl` keeps them
all; the two stores of `on_signal` (q27_agent.c:309) are one step; an edit holds at most 1 MB
(`Q27_EDITOR_BUF_MAX`).

No module that the prover can take is left without its main theorem; further proof work would
begin with an induction rule for `FusedRound` and `MetalDecode`.
