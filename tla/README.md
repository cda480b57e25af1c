# TLA+ specifications of idakit

idakit is a Rust library over IDA's kernel (libida) together with the test
runner its own kernel tests use. This directory holds TLA+ modules for the
parts of it where order, interleaving and failure decide whether the code is
right, TLC configurations that check them on small instances, and TLAPS proofs
that carry the main results to every instance.

All module definitions are translated from the source; `PROJECT.json` maps each
one to the lines it stands for. Paths below are relative to `src/crates/`.

## 1. Inventory of the system

| component | state | operations | what is hard | what makes it correct |
|---|---|---|---|---|
| **runner pool** `idakit-runner/src/runner.rs` | pending cases and per-group worker counts under one lock, results under another, one worker process per thread | `run`, `serve`, `Scheduler::take/leave/drain`, `run_case`, `shutdown`, `drain_as_failed` | threads, two locks, workers that die, hang, do not start or print what does not parse | every case reported once, counts exact, a fault costs one case, `run` returns |
| **worker protocol** `protocol.rs`, `worker.rs` | two pipes, a drain thread, a channel, a deadline | `Request`/`Event` reading and writing, `read_line`, `drain`, `serve`, `run_one` | frames share a pipe with a program's own output; death at any byte; late output | a case gets its own result and its own output; a lease is always answered |
| **worker lifetimes** `lifecycle.rs` | a Windows job object; `PR_SET_PDEATHSIG` | `configure`, `adopt` | the runner itself is killed | no worker outlives the runner |
| **kernel hosting** `idakit/src/kernel.rs`, `claim.rs`, `macros.rs` | `KERNEL_LIVE`, `KERNEL_INITED`, libida's `g_main`, job channel, handles | `here`, `run`, `call`, bring-up, the pump, `ensure_kernel_thread`, `steal_main` | a thread-affine global kernel behind a `Send` handle; panics in jobs and in `app`; failing bring-up | one claim, affinity, one initialization, a closed database at the end, every call answered |
| **database lifecycle and decompilation cache** `lib.rs`, `decompiler/mod.rs`, `location.rs`, `function.rs` | `is_open`, `hexrays_ready`, Hex-Rays' cache, a write cursor's `pending` | `open`, `close`, `decompile`, evictions, `LocationMut`/`FunctionEdit` writes and drop | the cache lives in Hex-Rays and hears of no edit; flags that outlive what they describe | no stale text, flags that belong to the open database |
| **facade runtime** `idakit-sys/facade/runtime.cpp`, `internal.h`, `trycatch.h`, `raw.rs` | the jump buffer and its armed flag, `g_exit_code`, `g_trapped`, the interr mode, captured output, the `msg` hook | `guarded<>`, `trycatch`, the exit and abort stand-ins, output capture, what Rust reads after a call | `longjmp` past frames that hold state; thread-local flags an earlier call left | everything taken is put back on every exit, no jump into a dead frame, an error is about its own call |
| **type walk** `types/builder.rs`, `sink.rs`, `typewalk_bridge.cpp` | a table of interned types, by-name placeholders, an open stack | callbacks of the walk, interning, closing recursion | recursive, dangling and anonymous types | the snapshot says what the library holds, with no open placeholder |
| **type diff** `types/diff/**` | none: canonical forms and catalogs are values | canonicalization under a lens, ordering, comparison, pairing by name | recursion, order independence, keys that collide | equal types compare equal and unequal ones do not; a diff is empty exactly when it should be |
| **type editing and expressions** `types/edit.rs`, `expr.rs`, `tinfo.rs`, the facade's editors | the local type library, a prototype, durable `MemberRef`s | member, enum and whole-type edits, prototypes, recipes | one of several edits fails; a reference used after others edited | an edit changes what it names, a failed one nothing, a reference edits the member it was minted for or fails |
| **ctree** `decompiler/ctree/**`, `arena.rs`, `ctree_bridge.cpp` | arenas of nodes with parents and children | extraction from callbacks, navigation, rendering | errors inside callbacks; a stack of values the types do not describe | the tree of the SDK or its first defect; one parent per node; text that reads back |
| **program views** `segment.rs`, `xref.rs`, `search.rs`, `strings.rs`, `name.rs`, `import.rs`, `export.rs`, `function.rs`, `instruction/iter.rs`, `flowchart.rs` | cursors into the kernel's lists; one global string list; owned snapshots | iteration, search, decoding walks, charts | `BADADDR` rows, boundaries, a global list that another iterator rebuilds, edits after a snapshot | every item once and in order, termination, a snapshot that stays what it was |
| **netnodes** `netnode/**`, `netnode.cpp` | keyed blobs, arrays and hashes in the database, behind one tag byte each | get, set, delete, rename, kill, iterate, typed and serde values | the sentinel id and index, tag collisions, the byte domain of a slot, blobs over several slots, keys cut at a NUL | collections do not touch each other; what was written is read back |
| **addresses and bytes** `address.rs`, `bytes.rs`, `bitness.rs`, `data.rs`, `meta.rs` | none | arithmetic, reads | the sentinel, saturation | no wrap-around |
| **errors, FFI helpers, forwarders** `error.rs`, `ffi.rs`, `raw.rs` | none | conversions | truncation of a growing string | |
| **bindings, generator, macros, corpus** `idakit-sys`, `idakit-sys-codegen`, `idakit-runner-macros`, `corpus.rs` | none at run time | code generation, build, download | | |

How they interact. A test binary is both a `Runner` and, re-executed, a worker; a
worker's cases use `Ida::here` or `Ida::run` to reach the kernel, so a hung or
dead worker is a hung or dead kernel. `Ida::call` marshals closures onto the pump
thread; every `Database` method crosses the facade after `ensure_kernel_thread`,
and what can end the process crosses a guard of the facade's runtime. Trees, types
and views are read through callbacks and cursors on the kernel thread and become
owned values; type edits, netnode writes and cursors go back through the same
facade. A cursor borrows the `Database` mutably, which is what makes its deferred
eviction invisible to everybody else.

## 2. Modules

| module | models | kind |
|---|---|---|
| `CaseRun` | what `Runner::run` promises: one result per case, for good | abstract specification |
| `RunnerPool` | `run`, `serve`, the `Scheduler`, replacement, draining, shutdown | detailed specification, refines `CaseRun` |
| `MCRunnerPool` | documentation claims about the pool | TLC |
| `RunnerPoolProofs` | theorems about the pool | TLAPS |
| `WorkerStream` | one thread, its drain thread, one worker and the streams between them | detailed specification |
| `WorkerStreamProofs` | theorems about the streams and their frames | TLAPS |
| `WorkerOutputProofs` | the theorem about the output of a case | TLAPS |
| `Kernel` | claim, bring-up, pump, calls, handles, `g_main`, open and close | detailed specification |
| `KernelProofs` | theorems about hosting | TLAPS |
| `DecompileCache` | open/close, `hexrays_ready`, the cache and the cursors | detailed specification |
| `MCDecompileCache` | a five-address program | TLC |
| `DecompileCacheProofs` | theorems about the cache | TLAPS |
| `ExitTrap` | guarded calls, traps, capture, and the flags the next call reads | detailed specification |
| `ExitTrapProofs` | theorems about the guards | TLAPS |
| `Ctree` | the facade's tree walk, the builder, the arenas, navigation | detailed specification |
| `CtreeRender` | the printer, and a reference lexer and reader of its text | algorithm, extends `Ctree` |
| `CtreeProofs` | theorems about the extraction | TLAPS |
| `MCCtree` | six shapes of input tree | TLC |
| `TypeTable` | the type walk into an owned table | algorithm |
| `TypeDiff` | canonical forms, keys, diffs, catalogs | algorithm, extends `TypeTable` |
| `TypeRecipe` | expressions, recipes, the facade's stack machine, handles | algorithm |
| `TypeEdit` | edits of the library and of a prototype, `MemberRef`s | detailed specification, composes the three |
| `MCTypes` | two type libraries | TLC |
| `NetnodeMap` | what the netnode documentation promises: separate maps | abstract specification |
| `Netnode` | ids, slots behind tags, every read, write, delete and iterator | detailed specification, refines `NetnodeMap` |
| `MCNetnode` | a small byte and word | TLC |
| `NetnodeProofs` | the refinement of `NetnodeMap`, and the iterators | TLAPS |
| `Addresses` | addresses and the sentinels that stand for an absent value | algorithm |
| `Instruction` | decoding one instruction into operands, registers and flags | algorithm |
| `Segment` | the accessors of a segment and the sentinel of each field | algorithm |
| `StackFrame` | the snapshot of a function's frame | algorithm |
| `Views` | iterators, searches, snapshots, function views, charts, the string list | detailed specification, composes the four |
| `MCViews` | three images of a program | TLC |

### RunnerPool

A case is its position in the list given to `run`. `Vec::remove` keeps order, so
`pending` is the set of positions left, and "the first case with the largest
score" is `IsBest`. Each `serve` thread has a program counter: *spawn*, *next*
(about to lock the scheduler), *run*, *wait* (inside `run_case`), *push* (about
to lock the results), *quit*, *reap*, *drain*, *report*. One action is one lock
acquisition or one system call. `Scheduler::take` is three actions, one for each
way it ends, each with its trailing `leave` and its count. A dropped `Worker`
neither kills nor reaps, so a live process that is replaced is counted in
`abandoned`; on Linux it dies at the latest with the thread that spawned it,
which is where `abandoned` returns to zero. A case that will not finish before
its deadline is *hung*. The Linux build is the one modelled: there
`Nursery::new` and `adopt` cannot fail. `left` is a history variable.

### WorkerStream

The pipe is a sequence of chunks, one per write, each of which ends a line or
not. The end frame and its message are two writes, as in `Event::write_to`, and
an end frame takes as many units as it declares, whoever wrote them. Cases
print whole lines, text without a newline and lines that are not UTF-8, in time
or, from a buffer flushed or a thread left behind, after their end frame
(`Straggle`): between it and its message, or while a later case runs. The worker
may die between any two writes. Names, statuses, durations and texts are left
out. Giving up on a worker replaces it and all of its streams at once. The
deadline passes at any moment: `TimedOut` asks only what `recv_timeout` does, that
nothing is in the channel, so it races the worker's end frame, the frame still in
the pipe and the drain thread.

### Kernel

A host is a user thread or the kernel thread of a user thread's `run`. `gMain`
is libida's own variable; `StealMain` nulls it and `Reclaim` is the
`is_main_thread` that claims it, so other threads can step in between. A kernel
call is the guard (one or two steps) and the call; `inside` are the hosts past
it. `kdb` is the host whose `Database` opened what libida has open, against
which `is_open` is compared. A refused `here` or `run` changes nothing and is a
stuttering step. `batch` is a value nothing depends on. Bring-up cannot panic in
the code, so `InitError::KernelGone` does not occur. `Reentrant` says whether a
job may itself use `Ida::call`. A `close` that traps counts as a close.

### DecompileCache

The program is any set of addresses with functions and cross-references. A
cached text is not kept, only whether something it prints has changed since
(`behind`). What a text prints, and the kernel hook that evicts a patched
function, belong to Hex-Rays and libida: they are taken from the comments of
`invalidate_decompilation_dependents` and `LocationMut::patch` and marked
external. As the code says, a type change that Hex-Rays propagates past a direct
reference is not tracked. `set_comment` queues nothing and changes no text, so
it is no step. `owed` records that a cursor opted out and the caller has not
cleared the cache yet. `MaxPatch` and `Reopens` bound what the caller does.

### ExitTrap

One kernel thread, one call at a time. A call is the frames it goes through, a
guard, a shim, both in either order, or none (`Crosses`); `Call` starts it,
`EnterGuard` and `EnterShim` push a frame with what it saves, and it ends by a
return, a kernel failure, `exit`, `abort`, an `interr` or another C++ exception.
`Trap` is the jump to the armed guard: the frames above are gone without running
their destructors, and the guard alone puts back the interr mode it saved. With no
guard armed a stand-in kills the process (`Die`). `Throw` is the exception that
`guarded<>` does not catch (`internal.h:68`): it unwinds to the nearest shim,
where there is one, and past a guard whose `finish` does not run, so that the trap
stays armed over a frame that is gone. `escaped` is a history variable that
records this, until the next guard arms the trap anew; a jump there before that is
undefined, and the process is taken to be lost. An exception with no shim to catch
it ends the process. An *edit* is a write of a type, a guard that captures and has
no shim. Text on fd 1 or through `msg` is kept as the call it belongs to and
whether it is blank. `Reads` is what the Rust caller does with the flags.
Capturing is all or nothing: a `dup` that fails half way is left out (its hazard
is listed).

### Ctree and CtreeRender

The input is not built first: the SDK's tree is revealed as the walk meets it, so
each behaviour is one tree and one extraction of it. `stack` holds the frames of
the facade's recursion, each with the slots it still has to visit and the values
it got; `Expr`, `OptExpr`, `Stmt` and `NoElse` visit one, `MintExpression` and
`MintStatement` are the callbacks that allocate. An error is kept where the code
keeps it and the walk goes on, as in the code, and only `Finish` answers. Types of
nodes are *ok*, *wide* (a scalar wider than the table can hold) or *open* (a
placeholder nobody filled). `Wire` is the pass that sets parents. The printer is a
function from a tree to its text: the glyphs of `ops.rs`, with the spaces the code
writes around the ones it sets off and none around the ones it does not. The
reference beside it is written from C's grammar, not from the printer: `Lex` takes
the longest token, so neighbours can run into one, and the reader parses the
tokens by C's levels. Operators of one spelling (signed, unsigned and float
division) are one to it. Leaves are their kind; names, literals (a negative
number's own minus included) and layout are left out. The queries over a finished
tree (`calls`, `assigns`, `var_uses`, `statement_at`, and `strip_casts` with
`global_target`) are functions of it, and `Faithful` holds each of them to its
definition by descendants.

### TypeTable, TypeDiff, TypeRecipe, TypeEdit

The first three are functions, since the walk, the comparison and the recipe run
to their end on one thread. `TypeTable` threads the builder through the walk of a
library and keeps its handles, placeholders and widths. `TypeDiff` makes the
canonical form of a table under the strict or the logical lens, its order, its
canonical string, the diff of two of them and the diff of two catalogs. The string
is text: a name is written as it is, and `Delimiting` are the names that hold a
separator. A catalog pairs entries by a hash of the form, not of the string
(`model.rs:311`), taken to be free of collisions. `TypeRecipe`
has both ways to make a type, the recipe with the machine that runs it and the
handle builders. An enum is its constants with whether it is a bitmask and the
representation of its values; sign and leading zeros of a representation are folded
into one value each. A declaration is known by what the parser makes of it.
`TypeEdit` is the state: the library, the one it is compared with, a function's
type, a `MemberRef` with what it was minted over, and the last operation, which
only properties of a step read. One action is one call of a cursor with its
lowering, the facade's checks in their order and the error it answers.

### Netnode and NetnodeMap

`objs` is the store as libida has it: slots of a node, a tag byte, an array kind
and a key. Node value, altvals, supvals, hash and blobs are kept apart by nothing
but the tag, and `Observed` is the mapping back to the collections a caller sees;
`Implements` is the refinement. `cursor` is the id niche, so the sentinel is an
ordinary number here too. A byte is a digit of a small base and a word a few of
them, so truncation, sign extension and the cap of a slot happen with small
numbers. `BADNODE` is the largest index, and callers use it as one. A blob is cut
into chunks of `Cap` bytes in the slots from its index on (`setblob`), and is read
and removed along the full chunks (`Chain`); that the kernel does so, and goes on
at index 0 past the last, is assumed of it, the repository only says that a blob
has no cap. `CStr` gives for a hash key the key the kernel sees, cut at the first
NUL. `PutTypes` are the types of the values a caller puts. The iterators are
recursive functions of the cursor's answer, and updates are written out pointwise,
so that the module can be proved about.

### Views

An image is what the kernel knows of a program: bytes, items, functions with
chunks and blocks, and the lists, rows that say `BADADDR` included. `db` is the
image that is open, `strlist` libida's one string list, `slots` what the caller
holds: an iterator or an owned value, with the question it was asked (`ask`), the
image then (`made`) and what it has yielded (`out`), three history fields. `Edit`
changes the image only while no borrowing iterator lives, as the borrow checker
has it; owned values stay. Patterns go through the parsers of `search.rs`; the
match itself (`bin_search`) and the block list (`qflow_chart`) are libida's and
marked external. What a single read answers is a value of the module beside: an
instruction with its operands as the facade folds them and the status it gives
for what it cannot fold, a segment field by field with the field's own sentinel,
a stack frame with its slots and types, a function with its name, bounds, flags
and comments. `ValuesFaithful` holds each to the image it was read from.

## 3. Runs

| run | instance | shows |
|---|---|---|
| `pool` | 3 cases, every grouping over 2 groups, 2 threads, 2 faults of any kind | `OneHolder`, `ReturnsEveryCase`, `WorkersExact`, `NeverReopens`, `OneCasePerFault`, refinement of `CaseRun`, `RunReturns` |
| `stream` | 2 cases, 2 chunks each, in time or late, a fault, a deadline at any moment | `ResultFromOwnFrame`, `OutputAttributed`, `EndedIsReported`, `FrameBeatsDeadline`, `LeaseAnswered` |
| `kernel` | 3 threads, jobs may call back | `OneClaim`, `KernelAffinity`, `InitializedOnce`, `RunLeavesClosed`, `CallHasJob` |
| `kernel_live` | 2 threads, jobs do not call back | `CallAnswered`, `RunReturns` |
| `cache` | 5 addresses, 2 functions, code and data references both ways | `NoStaleText`, `NotReadyMeansEmpty`, `ReadyForThisDatabase` |
| `cache_patch` | patches of two addresses | a counterexample, see section 6 |
| `trap` | 3 calls of any kind, each ending in any way | `Restored`, `JumpTargetLive`, `ErrorIsOwn` |
| `ctree` | every tree of up to four, six, seven, eight or nine nodes over six choices of operators | `WalkOutcome`, `TreeSound`, `Faithful`, `Reparses` |
| `types` | two libraries, any two edits | `WalkSound`, `DiffExact`, `KeyString`, `RecipeAgrees`, `DriftLocal`, `RefEditsItsMember` |
| `types_ref` | the same | a counterexample to `RetypeInvalidates`, see section 6 |
| `netnode` | 2 nodes, 2 objects at a time, blobs of up to 2 chunks | `WalksWhole`, `Implements`, `TypedRoundTrip` |
| `views` | 3 images of 7 addresses, 2 slots | `YieldsExact`, `ValuesFaithful` |

`RunnerPool`, `WorkerStream`, `Kernel`, `DecompileCache` and `ExitTrap` state type
invariants too; those of the proved modules are part of the inductive invariants of
section 4.

**Bounds.** *pool*: with three cases and two threads a group can be shared, run
dry under one thread while another is on it, and lose its worker with work left;
two faults are a crash followed by a failed replacement. No cases, one thread and
larger pools are covered by the proofs. *stream*: one neighbour is enough for a
late frame or line to reach the wrong case, and two chunks for one in front of the
end frame and one behind. Bytes that are no text come late, right behind the end
frame or in the next case; in time they stop the drain thread the same way, and
the proofs cover them. One fault is enough, since the deadline replaces a worker
without one. *kernel*: three threads are a holder, one that receives and one that
competes; a `run` adds its kernel thread. *cache*: each function refers to the
other, one through code and one through data, and each reads a datum; longer
chains add nothing, since only direct references are followed. *trap*: a call that
leaves something behind, one that could disturb it and one that reads it. *ctree*:
six nodes hold each statement with its parts under another, seven an operator
beside and below operators of each level or a global under casts and references,
and nine an `if` in both arms of another; unary operators stand beside each other
and beside infix ones in trees of eight, which is where glyphs can meet; defects
are tried two at a time, since only the first is answered. *types*: the libraries
hold a recursive pair, a typedef, by-value holders, two enums, unions with
anonymous members, a synthetic cycle, a dangling name, a bit-field and a member
whose name holds the separators; a reference goes wrong by one edit between its
minting and its use. *netnode*: two nodes, two tags (one of them a collection's
own), indices at 0, above and at `BADNODE`, a hash key that is another with a NUL
and more, objects that are empty, shorter than the cap and one longer, so that a
blob takes one slot, fills one or takes two; blob starts are far enough apart
(they are adjacent in `MCNetnodeLimits.cfg`). The integer a caller passes and a
put `u64` have the same bytes, as have the least `i8` and `i64` and the `u8` and
`u64` that are put, so each type is read back. Collections disturb each other in
pairs, hence two objects. `VIEW Store` leaves out the record of the last call,
which no step and no state property reads; TLC checks the properties of a step on
every step. `StateView` does the same for *types*. *views*: the images have rows
at the sentinel in each list, an item that ends at it, a function in two chunks
and a table inside a body, instructions with each operand kind the decoder folds
and some it refuses, segments and frames with absent and with sentinel fields, and
one image is empty; the second slot holds strings or imports only, because what
two holders share is the string list and the edits.

**Fairness.** *pool*: weak fairness of each thread's next step, of the exit of a
healthy worker told to quit, and of the final join. No fault is forced, and a
hung worker ends a wait only through the deadline, which the clock guarantees.
`RunReturns` excepts a worker that hangs while `shutdown` waits for it: that
wait has no deadline. *stream*: weak fairness of the worker, the drain thread
and the runner, whose steps include the deadline; printing, late output, death and
hanging are not fair. *kernel*:
threads that can run do, calls into libida return, and a job ends, strongly
fair because the job alternates between kernel calls and its own code. Nothing
is asked of the program: it need not call, drop a handle or return from `app`.

The modules added after these state safety only: one kernel thread runs each
operation to its end, and whether a caller goes on is the caller's choice.

`CHECK_DEADLOCK FALSE` is set for `Kernel`, where a program whose only thread
waits for a handle nobody drops has stopped, and for *types* and *netnode*, which
stop when their bound on edits or objects is used up.

## 4. Proofs

Theorems hold for all constants that satisfy the modules' named assumptions. Each
inductive invariant was checked by TLC on the run's instance before it was proved.
Where one quantifies over no set (`Placed` in `CtreeProofs`), TLC checked it over
the handles there are.

**RunnerPoolProofs** (`PoolAssumption`). The inductive invariant `IndInv` says,
beside types, that the places a case can be in (queue, a thread's lease, a
thread's drained batch, the results) are disjoint and cover all cases, and which
places are empty at which program counter. Both are needed: `OneHolder` alone
does not say that a thread about to push holds a case, or that a drained batch
is pushed by a thread that still runs. From it: `TypeCorrect`,
`EveryCaseHasOneHolder`, `RunReportsEveryCase`, and step by step
`PoolKeepsPromise`, that the pool implements `CaseRun`. `NoGroupReopened` adds
that a group a thread left has no pending case; it rests on `pending` never
growing. `CountsAreExact` adds the count of a group as the cardinality of the
threads on it, with the library's facts on finite sets. `FaultsCostOneCase` is an
account: a fault is paid when it happens and spent when a case is reported
crashed. In between, the thread whose worker is gone or hung and whose case is
not yet reported is `Owing`; `Solvent` says that crashed cases and owing threads
together are at most the faults. Without the owing threads the step that reports
a crash has nothing to draw on.

**WorkerStreamProofs** (`StreamAssumption`). `ResultFromOwnFrame` and
`EndedIsReported` are about results, and what decides them is still in the pipe
or the channel. The invariant therefore says who may be doing what while a
request is out (`Requests`, `Completed`); that pipe and channel together hold at
most one end frame, of the case waited for (`Frames`), which is the whole of
`FramesMatchCases`. `DeliveredFramesCount` needs that a frame that reached the
channel is there until its case is reported (`Delivered`): then the deadline, which
wants an empty channel, and the end of the stream come too late. For
`EndedCasesReported`, the frame of a case all of whose worker's cases print whole
lines, late ones included, starts a line and has its message behind it (`Begins`);
what spoils a line is only in the pipe of a worker that is not clean (`Untidy`);
the drain thread stops only for an error the runner will find or at the end of a
dead worker's stream (`Stops`); and until it is received the frame is in one of the
two places (`Found`). `Found` is not inductive alone: the drain thread moves a frame
by reading a line, which needs `Begins`, and a stopped drain thread would strand it,
which needs `Stops`. A case whose worker was given up on at its deadline is not
covered by `EndedCasesReported`: its frame may be in the pipe, and it is reported as
overrun.

**WorkerOutputProofs** adds `OutputOfItsCase`: what is reported for a case that
ended holds all it printed in time, in order, and beside it only its own start
frame (behind an unfinished line) and what earlier cases of the same worker left
behind, which the code takes for this case's (section 6). Text of one case is in up
to three places at once, so
the invariant `OutInv`, on top of the one above, follows it through them: a case
prints nothing before its request is read (`Fresh`); what the runner collected,
then the channel, then the pipe, is in that order what the case waited for printed
in time, unless an error is in the channel (`Flow`); nothing in time follows the
end frame (`Closed`); a start frame carries no text (`Skipped`). `OwnInv` says in
each of the places (`OwnOutput`, `OwnChannel`, `OwnPipe`, `OwnResults`) whose text it
can be. A property of the
results alone is not inductive: the step that reports would have nothing to say
about text not yet received. What `FlattenSeq` and a selection yield is shown for
every length by induction over a set of numbers, which the provers can
instantiate where the library's induction schema, with its operator parameter,
cannot be.

**KernelProofs** (`KernelAssumption`). `KERNEL_LIVE` is one flag for three kinds
of claimant; the invariant keeps the claim per thread (`ClaimByThread`), the
phases a user thread and its kernel thread can be in together (`Phases`), who may
be making a kernel call (`OpsByHolder`), that `g_main` follows whoever is past
the guard (`MainFollows`), how `KERNEL_INITED` relates to the library
(`InitTracked`), and that an actor's database is the one its flag knows
(`ActorKnows`). The lemma `OneWorker` draws from it that two hosts are never at
work at once, which is what thread affinity needs. From it: `OneClaimAtATime`,
`KernelIsThreadAffine`, `LibraryInitializedOnce`, `RunClosesItsDatabase`.
`ChannelInv` is about the job channel on top of it: nobody holds a handle of a
pump that has ended (`HandlesFollow`), a caller's job is in one channel at one
place or is the one being run (`OnePlace`), and a caller waits exactly while its
job is in one of these (`Waiting`). From it: `EveryCallHasItsJob`, and
`KernelTypeCorrect`.

**ExitTrapProofs** (`CallsAssumption`). The invariant says that the stack of
frames is the part of the call's path that was entered and not left (`Stack`),
that `interr` throws exactly while a frame is there to catch and every frame saved
what it found (`Modes`), that the trap is armed over the guard on the stack or
over one an exception took away (`Live`, `Target`), that capture is a live guard's
and holds this call's text (`Capture`), and that the flags are this call's once
its guard was entered and an earlier one's before (`Flags`, `Told`). An exception
no guard catches skips `finish`, yet capture is put back whatever the call: the
calls that capture have no shim, so such an exception ends the process. `Restored`
speaks of the end of a call only, so what is to be put back has to be tracked
frame by frame; `ErrorIsOwn` needs to know which of the flags Rust reads a guard
has reset on this call's path. From it, for any number of calls: `CallsRestore`,
`JumpsLand`, `ErrorsAreOwn`, `ExitTrapTypeCorrect`.

**DecompileCacheProofs** (`ProgramAssumption`). The invariant: text is behind only
inside what the live cursor's drop will evict, or while evictions are owed;
nothing is cached while `hexrays_ready` is down; and outside an open database it
is down. `CacheNeverStale` has the hypotheses `MaxPatch <= 1` and `~Reopens`, and
`ReadyIsPerDatabase` the second: `cache_patch` and `DecompileCacheReopen.cfg` show
that they are needed. `NotReadyCachesNothing` holds without either.

**NetnodeProofs** (`StoreAssumption`, `CodecAssumption`). `NetnodesImplementMap` is
the refinement of `NetnodeMap`, one lemma per kind of step. The invariant `Stored`
says that every slot is in an array some write reaches, that every object fits what
a read copies (`Fits`), and that the chunks at each blob start are one chain that
ends within its room (`Chained`): a chunk is there only if those before it are
full. With it `Observed` is one entry per place an object starts at (`Placed`), each
with the whole object (`Whole`, `ObservedSeen`), and two of them are never one entry
(`EntriesApart`), so a write replaces one entry (`PutSeen`) and a delete takes its
own (`DeleteSeen`). For a blob, `SetReads` says that what `setblob` wrote is what
`getblob` joins, and `SetElsewhere` that every other chain reads as before.
`ReadsCutNothing` states the invariant. Two hypotheses are needed. `UserTags`: a
tagged view is not opened under the tag of the altvals, the hash, the blobs or the
kernel's value; such a view is a second way into another collection (section 6).
`Apart`: the caller puts blobs far enough apart that the longest of them, with one
slot that is not full, fits before the next; otherwise one overwrites the other, or
runs on into it (`MCNetnodeLimits.cfg`). `MCNetnode.cfg` satisfies both.
`CodecAssumption`, that the bytes of a u64
read back as that u64, is a fact of arithmetic that would need induction over
the bytes; TLC evaluates it for the integers of the run. `IteratorsVisitAll` needs
neither: each iterator visits every key of its array once, in ascending order,
`u64::MAX` excepted, and `netnodes()` every node that has a name or data. An object
at `u64::MAX` is the last of its array, so taking it for the end loses it alone
(`SentinelEnds`). It rests on `Keyed`: every hash key is
one of the finitely many keys of the order, and the cursor's node is one the
kernel gave. The walk is a recursive function, which exists and ends by induction
over a set of numbers (`SetInduction`).

**CtreeProofs** (`InputsAssumption`). `WalkReportsFirst`: extraction fails exactly
on an input with a defect, and with the error of the first defective node in the
order of the walk. The invariant `WalkInv` keeps the frames in shape (`FramesOK`:
the walk's own at the bottom, one per open node above it, every frame below the
innermost waiting for an operand); it says that an open node with a defect has no
operand to visit and is the last one met (`BadIsLast`), so that the first defect
seen is the first there is, and that the failure kept is that node's
(`FirstKept`).

`TreesAreSound`, for SDK trees of any size: in a returned tree every handle names
a node of the right arena, every node but the root is one child of the one node
its parent link names, the walk from the root reaches all of them, and the asserts
of `finish` never fail. While the tree is built a node hangs from a frame, not yet
from a parent, so the invariant `TreeInv` says that every node is held in exactly
one place, by a frame or by the children of a node met before it (`Placed`), and
that the handles a frame has and the slots it still waits for make up the slots of
its operator, with nothing missing but in an optional one (`Shaped`). Minting moves
what the innermost frame held to the children of the new node (`MintPlaces`, over
`ExprCarries` and `StmtCarries`, one case per operator), so at `Finish` only the
root is held by a frame, and the arenas are a tree (`IsTree`). On a tree, the two
searches with a stack, `Wire` and `Descendants`, meet each node once: `Searched`
says of every round what was taken from the stack and what is still on it, and
`WireLinks` and `DescendantsCounted` follow by induction over the rounds.

**Only model-checked**: every liveness property (fairness and ENABLED are beyond
the prover); `TypedRoundTrip` of `Netnode`, which is about powers of two, and no
backend knows `^`; `Faithful` of `Ctree`; and `CtreeRender`, the
type modules and `Views`, whose properties are about trees, recursive types and
recursive walks: they use RECURSIVE operators and would need induction over data,
both out of the prover's reach.

## 5. Not modelled

- Windows and macOS worker lifetimes, the machine-code decoders of `claim.rs`
  (bring-up simply may fail to locate `g_main`), durations and clocks.
- What a trap leaves behind in libida itself, which the code does not know either;
  the SDK log redirection; a capture whose `dup` fails.
- Mnemonics and the names of sub-registers; the accessors of a signature; the
  `base_var` query of the ctree.
- A worker past its deadline that keeps printing: `recv_timeout` finds a line each
  time and does not give up, so the case is answered only once lines come slower than
  they are collected. Here a case prints at most `MaxPrints` chunks, and a hung one
  nothing more.
- An exception inside a guard's own `finish` or `begin_capture` (a `bad_alloc` of a
  string there).
- The parser of declarations, which is libida's; compact and `Display` forms of
  types and diffs; names that are not UTF-8.
- One-call forwarders, error texts and logging; the test generator
  `diff/canonical/property.rs`.
- Bindings, the emission of the binding generator, macros, build scripts, the
  corpus: they have no state while the library runs.

## 6. Where the code and its documentation part

Shown by a run: a patch of several bytes evicts the readers of the first only
(`cache_patch`, `location.rs:439`); a member retyped to a type of the same size
and discriminant leaves a `MemberRef` to it valid (`types_ref`, `edit.rs:645`,
where `edit.rs:566` says that retyping invalidates it).

Shown by configurations that are kept for reproduction and are not regular runs
(`tlc -config <file> <module>` ends in a counterexample; with `-continue` it shows
one for each property of a configuration that has several):

| configuration | module | what it shows |
|---|---|---|
| `RunnerPoolStrands.cfg` | `MCRunnerPool` | a thread that cannot start its worker fails the whole queue |
| `RunnerPoolLive.cfg` | `MCRunnerPool` | a line that does not parse leaves a live worker beside its replacement |
| `WorkerStreamPartial.cfg` | `WorkerStream` | an end frame after text with no newline is not found, and the case runs into its timeout |
| `WorkerStreamLate.cfg` | `WorkerStream` | text that reaches the pipe after its case's end frame is reported for the next case (`runner.rs:266`), where `protocol.rs:13` says that sharing a pipe attributes output correctly |
| `KernelEscape.cfg` | `Kernel` | a handle that outlives `app` keeps `run` from returning |
| `KernelDrop.cfg` | `Kernel` | an owned `Database` dropped open leaves libida's database open under the next claim, whose own `close` then does nothing |
| `DecompileCacheReopen.cfg` | `MCDecompileCache` | `open` on an open `Database` keeps `hexrays_ready` |
| `ExitTrapCode.cfg` | `ExitTrap` | an `interr` leaves `g_exit_code` alone, so the error of a trapped call can carry the exit code of an earlier one |
| `ExitTrapThrow.cfg` | `ExitTrap` | an exception other than an interr leaves the trap armed over a guard that is gone (`internal.h:73`), where `internal.h:54` says that `finish` is called on every exit path |
| `MCCtreeText.cfg` | `MCCtree` | `ReparsesElse`: an `else` printed after an inner `if` that has none reads as the inner one's; `ReparsesGlued`: `-(-x)` prints as `--x` and `&(&x)` as `&&x` (`render.rs:273`). `render.rs:3` takes the text as proof that the tree is sound |
| `MCTypesKey.cfg` | `MCTypes` | a name that holds a separator makes two types print one canonical string (`model.rs:626`), which `model.rs:562` calls self-delimiting; `KeyString` is about the other names |
| `MCNetnodeLimits.cfg` | `MCNetnode` | `AltvalsWalked`: an altval at `u64::MAX` is stored, read back and never iterated (`arrays.rs:14`, `tests/kernel/netnode.rs:338`); `KeyedByString`: hash keys that agree up to a NUL are one entry (`domains/netnode.rs:374`, against `netnode/mod.rs:12`); `BlobsApart`: a long blob overwrites those at the indices that follow its own (`netnode/mod.rs:643`, against `mod.rs:630`, "uncapped") |

Seen while modelling, with no run of their own: a group can be shared by two
workers, as the `Scheduler`'s comment says and the crate documentation denies; a
worker that dies on the last case is replaced, so there can be more spawns than
cases; output that is not UTF-8 fails its case; a job that calls through a
captured handle waits for itself (`CallAnswered` fails with `Reentrant` TRUE);
and `tests/kernel/decompile_cache.rs` says `patch` queues no invalidation, where
it queues its dependents.

- *ctree*: the trees of `MCCtreeText.cfg` are set aside by `Reparses`;
  `query.rs:120` multiplies with no overflow check, and a static local at
  `BADADDR` panics in `node.rs:148`.
- *traps*: `last_reason` (`raw.rs:61`) can read a `qerrno` an earlier call left;
  `end_capture` waits for ever when `dup` failed in `begin_capture`.
- *types*: a typedef of a type still being read adopts its missing size
  (`builder.rs:222`); two anonymous members of a union share one reference key;
  under the logical lens, reordered members of one name are not an empty diff
  (`engine.rs:173`); a nested size change is in no part that `len` counts
  (`engine.rs:66`); `define` keeps the declarations before the one that failed.
- *netnodes*: `put_serde` answers `InvalidNetnodeBytes(TooLarge)` where
  `mod.rs:617` says `WriteRejected`; an empty `String` cannot be put; after `kill`
  the cursor still writes, into a node with no name; a user tag `B` reaches the
  blobs.
- *views*: a function chunk that ends at `BADADDR` is left out of
  `FunctionChunks`.

## 7. Plan

Done: runner pool and its promise, worker stream, kernel hosting, decompilation
cache, exit trap, netnodes against their map and the extraction of trees, each with
theorems; queries and rendering of trees; type walk, diff, recipes and editing; the
program views with charts, walks, instructions, segments and frames.

Left, in this order:

1. Proofs: the first part of `Faithful`, that the pre-order walk meets the nodes in
   the order the SDK gave them, on `TreeInv`; the borrow discipline of `Views` (a
   live iterator's image is the one it was made over), in a module that reaches no
   recursion.
2. The composition of `ExitTrap` with the error paths of `DecompileCache`.
