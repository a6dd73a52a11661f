# tsvm in TLA+

This directory specifies and verifies the core of tsvm, a runtime that compiles
TypeScript to verified bytecode and interprets it, with no JavaScript on the way
(`src/README.md`, `src/docs/architecture.md`). TLC checks the modules on small
instances; the theorems are checked by TLAPS for every value of the constants.
Every definition is translated from the code; `PROJECT.json` gives the file and
lines of each one.

1. [The system](#1-the-system): components, state, operations, what is hard
2. [The modules](#2-the-modules): how each corresponds to the code
3. [The runs](#3-the-runs): what is checked, bounds, fairness
4. [What the code does not keep](#4-what-the-code-does-not-keep)
5. [The proofs](#5-the-proofs)
6. [Limits](#6-limits): model-checked only, not modelled
7. [Plan](#7-plan)

## 1. The system

A source text goes through a pipeline of crates under `src/runtime`:

    lexer -> parser -> ast -> semantic -> ir (lowering) -> bytecode (compiler)
                                                                |
      C++ PageSession -> c-api -> script-loader -> interpreter: verifier gate,
                                  (module cache)  frames, heap, host calls

Calls are synchronous and each session runs on one thread at a time. State that
outlives a call is in few places: the session's cache, the C ABI's heap blocks
and the C++ objects that own them. Inside one execution it is the call stack, the
console and the managed heap.

| Component | State | Operations | Interacts with | Hard behaviour | What makes it correct |
|---|---|---|---|---|---|
| Managed heap (`runtime/heap`) | slots with generation and value, LIFO free list, `live_len` | `allocate`, `get`, `get_mut`, `contains`, `collect` | interpreter, by handle | stale handles after reuse, wrapping generations, cyclic graphs, three counts that must agree | a collection drops exactly the unreachable; a handle finds its object or nothing; free list and counts exact |
| Module cache (`runtime/interpreter`) | map and insertion order, hits, misses, evictions | `new`, `get_or_prepare`, `stats` | preparation (compile and verify), script loader | preparation fails or panics in the middle, two structures in step, eviction at capacity | first in first out, bounded, verified modules only, counters account for every call |
| C ABI (`runtime/c-api`) | boxed sessions and results | session create, execute, stats, free; one-shot execute; result JSON, free | script loader below, C++ above | ownership across the boundary, borrowed JSON, caught panics, order of checks | each block has one owner; a blocked request leaves no trace |
| Renderer bridge (`browser/chromium`) | `session_` of each `PageSession` | `Create`, moves, destructor, `ExecuteInline`, `CacheStats`, `ExecuteSource` | C ABI | self-move, use after move, addresses reused on another sequence | no leak, no double free, a reply is the caller's own |
| Verifier (`runtime/bytecode`) | values and locals counted per block | `verify_module` | compiler, interpreter | its counting restarts in every block, a frame's does not | what it accepts finds everything it asks for |
| Interpreter (`runtime/interpreter`) | frames, heap, console | `execute`, `call_function`, twelve opcodes, host calls | verifier, heap, host environment | values and locals carried between blocks, calls, collection at the end, cycles | nothing missing, no stale handle |
| Lowering (`runtime/ir`) | blocks, current block, next value, types of locals | `lower_statement`, `lower_expression`, `lower_assignment` | semantic analysis, compiler | values numbered across blocks, nested ifs move the current block | values are used in the block that defined them, blocks are closed, output verifies |
| Bytecode compiler (`runtime/bytecode`) | constant pool, local numbers, source map | `compile_program`, `encode_module`, `decode_module` | lowering, verifier | numbers handed out in block order, not lowering order; fields written and read in two places | names and constants keep their identity; what is written is read back |
| Module graph (`runtime/modules`) | visit states, stack, records, order, diagnostics | `bundle_module_graph` | parser, script loader | cycles, diamonds, specifiers with several spellings, a visit that goes on after a diagnostic | dependencies first, each statement once, a graph refused exactly if something is wrong with it |
| Script loader (`browser/script-loader`) | session cache, the page in progress | `find_scripts`, `execute_typescript_scripts`, inline execution | module graph, cache, interpreter, bindings | first failure stops a page and the session goes on, scripts cut out of text | a page does what it would do with no cache; a blocked one leaves no trace |
| DOM and fetch bindings (`web-bindings/dom-fetch`) | text nodes, resources, origin | `domText`, `domSetText`, `fetchText` | scripts of a page | arguments of any type, URLs that nearly match the origin | nothing changed by a call that fails, same origin only |
| Semantic analysis (`runtime/semantic`) | scopes, type bindings, functions, expected return type, diagnostics | `analyze_source` | parser, lowering | hoisting, scopes, structural types, an unknown type that fits everything | an accepted program binds its names and does nothing of the wrong type |
| Parser (`runtime/parser`) | cursor, diagnostics | recursive descent, recovery | lexer, AST | malformed input, precedence, spans | accepts the grammar and ends; the tree its operators ask for |
| Lexer (`runtime/lexer`) | cursor, line, column | `lex` | parser | look-ahead and backing up, escapes, comments | the longest token at every place, places counted right |
| Interop (`interop`) | map of host functions | register, call | interpreter | a host's answer is any value or an error | errors become interop errors |

Tools (`src/tools`), fixtures and the hardening tests (`src/security`) have no
logic of their own to model.

Where these behaviours bite, line by line, is the hazard list of `PROJECT.json`.

## 2. The modules

| Module | Part | Checked by | Proved in |
|---|---|---|---|
| `GcHeap` | the heap, loop by loop | `MCGcHeap` | `GcHeapProofs` |
| `ObjectStore` | what the heap promises: objects without slots, atomic collection | `MCGcHeap` (refinement) | `GcHeapProofs` |
| `ModuleCacheOps` | cache operations as functions on a record | through the next | |
| `PreparedModuleCache` | one cache and a caller | `MCPreparedModuleCache` | `PreparedModuleCacheProofs` |
| `RendererBridge` | C ABI and C++ objects; each session embeds a cache of `ModuleCacheOps` | `MCRendererBridge` | `RendererBridgeProofs` |
| `Bytecode` | modules, instructions and the verifier | through the next two | with both |
| `Interpreter` | gate, frames, instructions, host, final collection | `MCInterpreter` | `InterpreterProofs` |
| `Codec` | bytecode modules as bytes | through the next | with the next |
| `Loading` | the interpreter, handed modules that went through bytes | `MCInterpreter` | `InterpreterProofs` |
| `Lowering` | from syntax to a bytecode module | `MCLowering` | `LoweringProofs` |
| `Lexer` | the scanner, token by token | `MCLexer` | |
| `Grammar` | the language, as a grammar over token kinds | through the next | |
| `Parser` | recursive descent with recovery and spans | `MCParser` | |
| `Semantics` | the analyzer, one node at a time | `MCSemantics` | |
| `Meaning` | what names and types of a program mean: an evaluator | `MCSemantics` | |
| `Paths` | resolution of specifiers and URLs | through the next two | with the next |
| `ModuleGraph` | the depth-first visit and the bundle | `MCModuleGraph` | `ModuleGraphProofs` |
| `PageScripts` | pages of a session: scripts, policy, cache, bindings | `MCPageScripts` | `PageScriptsProofs` |

`SequenceFacts` has the lemmas about sequences that the proof modules share.

Every `MC` module only gives the constants of its module their values, except that
`MCGcHeap` also holds the refinement mapping. Definitions next to a real one that
say what a plausible mistake would do (`NextGenerationUnchanged`, `EvictWhenFullLate`,
...) are used by no specification; substituting one for its neighbour must make the
property it is paired with in `PROJECT.json` fail, which shows that the property is
about that line of the code.

### GcHeap and ObjectStore

`slots`, `freeList` and `liveLen` are the fields of `GcHeap<T>`; slot *i* is index
*i - 1* of the vector. A payload is the set of handles it traces and the identity of
the object (0 for `None`). `allocate`, a write through `get_mut`, and the start of
`collect` are an action each; the pending loop and the sweep loop are one action per
iteration (`TraceNext`, `SweepSlot`), with `marks`, `pending`, `cursor` and
`collected` for the locals of `collect`. Mutators are disabled in between, because
`collect` borrows the heap mutably. The pending queue's order is abstracted to any
order. `issued`, `epoch` and `live` are history: with what handle and at which
reuse an object was issued, how often each slot was vacated, and what was reachable
when `collect` was called. Clients may use any handle they were ever given, stale
ones included, to write, to trace or as a root.

`ObjectStore` has identities instead of slots, and collections that drop all
unreachable objects in one step. In the mapping, the store loses its garbage
when marking ends: what the sweep has still to visit is gone already.

### ModuleCacheOps and PreparedModuleCache

A cache is a record with the fields of `PreparedModuleCache`; since a prepared
module is a function of its source, the map is the set of its keys. `GetOrPrepare`
follows the method's order: early return on a hit, count the miss, `?` on a failed
preparation, evict, insert. `Preparation` says of every source how
`PreparedModule::from_source` ends: well, with a compile or a verify error, or with
a panic, which unwinds from the same place. `admitted`, `failed` and `calls` are
history.

### RendererBridge

`heap` maps addresses to the blocks Rust allocates; an address freed is handed out
again, so a stale pointer finds somebody else's block. `session[o]` is `session_`
of the C++ object `o` (`Null` when moved from or never created, `Absent` before
construction and after destruction). An ABI call is one action; what the C++ code
does after it, copying the borrowed JSON and releasing the result, is an action each
(`CopyJson`, `FreeResult`), so another sequence can run in between. The order of
checks in `tsvm_page_session_execute_utf8` (policy value, UTF-8, policy, cache) is
`SessionExecute`. Each object is used on one sequence, as the header of the bridge
asks; moves involve two objects that are both between uses. `accepted` is history:
the cache lookups the session of an object has been asked for.

### Bytecode and Interpreter

`VerifyModule` is the verifier as a predicate: everything it reports an error for
makes it false. `defined_values` and `local_count` are stated in closed form:
`DefinedCount(code, k)` is the number of results before instruction *k* of a block,
`LocalKnown` says which locals are below the count there.

`Interpreter` is one execution: the verification gate (`Reject`, `Start`), one
action for each opcode, `FallOff` for a block that ends without a terminator, and
`Finish`, the last collection with materialization. A frame is the code's `Frame`
with its place in the code; a call pushes a frame and a return delivers the value
and advances the caller, where the code recurses. `Checked` puts the failures all
instructions share first: an operand, constant, value or local that is not there
(status `missing`), then a name that is no symbol. Values are abstracted to kind and
truth, which is all that control depends on. The heap is `ObjectStore`'s view of
it: the interpreter collects only at the end, so references never go stale before.
The host answers with any number, an object, or an error.

### Lowering

The lowerer is a recursion over the syntax tree. Its calls emit code operands
first, so the module lets one step stand for one node in that order and keeps the
values the recursion holds in `stack`; every sequence of steps is the walk of one
tree, so exploring the steps explores all functions up to a size. `open` is the
recursion through blocks and ifs. Of names it keeps what `define_value` and
`lookup_value` of the semantic analysis let through, with its gap: in the arguments of
a call a name need not be bound. Of types it keeps whether they
are known, because that is what the verifier asks of a binary instruction.
`CompiledModule` is what the compiler makes of the blocks: operands in the order of
the encoding, locals and constants numbered by first occurrence in block order. It
is a `Bytecode` module, so the verifier of `Bytecode` judges it.

### Codec and Loading

`EncodeModule` and `DecodeModule` are the writer and the reader, byte by byte, on the
modules of `Bytecode`. A reader is a function from places in the bytes to what it gives
there; reading is a chain of steps of which each may fail (`Then`), as the `?` of the
code has it. `Spelling` gives every text its bytes; bytes that spell nothing stand for a
string that is not UTF-8. `Encodable` is what the types of the code say of a module, and
that no length is lost by `as u32`. `Loading` composes this with the interpreter.

### Lexer

One step is a space, a comment, a token or an error. `Char(k)` is `peek` after *k* more
characters; a character is advanced over with its width in bytes, its line and its
column. The second half of the module is a grammar of tokens (`Kinds`, `IsTrivia`,
`Place`) that does not scan.

### Grammar and Parser

A parse function is a sequence of what it still has to do, and the call stack the
concatenation of those (`todo`). Tokens are chosen when the parser looks at them, so
all sources up to a bound are covered without listing them; `profile` says of which
kinds. Every loop, `expect`, `match_kind` and recovery of the code is there, those that use
up a wrong token and those that leave it. A node is its span and the level of its
operator, which is all that the properties ask of a tree. `Grammar` gives for every
symbol its productions and knows nothing of parsing.

### Semantics and Meaning

The analyzer walks the tree; `todo` is what the calls in progress have still to do and
`operands` the types they have returned. Each arm of `infer_expression` and
`analyze_statement` is an action; each scope, the type bindings and the expected return
type are variables. Diagnostics are kept by their code. `Meaning` is the measure: an
evaluator gives the values a program can have (`Values`, `Run`: a loop runs zero times
or once, calls nest to `MaxCalls`), where an operation on a value of the wrong kind is
`Wrong`, and `LooseNames` says which names no declaration binds.

### Paths and ModuleGraph

The recursion of `visit` is the sequence `frames`; sources are their parsed form, chosen
in the initial state from `Programs`. One action is one top-level statement, so a
diagnostic can come at any of them and the visit goes on. Resolution of `./`, `../`, empty
segments is `Walk`; `Remaining` is what it should mean.

### PageScripts

A page is a sequence of pieces: opening tags with attributes, ends, text. `FindScripts` is the
search with everything it overlooks (markup in a body, a tag that lost its `>`, prefixed
and unquoted attributes). Each decision about a script is an action in the order of the
code: type, policy, resource, bundle, cache (`ModuleCacheOps`), and each host call of a running
script is one, so that a failure comes between any two. `Bundles` stands for
`ModuleGraph` by its outcome and `Program` for the interpreter by its host calls.

## 3. The runs

| Run | Module | States | Question |
|---|---|---|---|
| `heap` | `MCGcHeap` | 126529 | slot account, exact marking and sweeping, stale handles, refinement of the store, end of every collection |
| `cache` | `MCPreparedModuleCache` | 865 | eviction order, verified entries, counters |
| `bridge` | `MCRendererBridge` | 417241 | ownership, replies, transparency of the cache, counters |
| `interpreter` | `MCInterpreter` | 44727 | is anything missing in a verified program; is a handle ever stale; do modules survive being written and read |
| `lowering` | `MCLowering` | 650934 | values, blocks, and what verifies |
| `lowering_branches` | `MCLowering` | violation | does code with branches verify |
| `module_graph` | `MCModuleGraph` | 317681 | order and content of bundles, refusals, resolution |
| `page_scripts` | `MCPageScripts` | 58323 | pages after failures and cache hits, policy, script search, origin |
| `parser` | `MCParser` | 996302 | language accepted, trees, spans, end of every parse |
| `semantics` | `MCSemantics` | 93576 | does what is accepted run; is what is unbound reported |
| `semantics_arguments` | `MCSemantics` | violation | are names in arguments bound |
| `lexer` | `MCLexer` | 86302 | longest tokens, comments, places |

### Bounds

* `heap`: four allocations, two of them alive with one reference each, give cycles,
  chains and self-references, with a third and a fourth object for reuse. The modulus of
  generations is 4, which four allocations cannot wrap: beyond the window the
  refinement is false. What a wrap does is for the proof, which has any modulus.
  Deadlock is checked: `collect` can always run.
* `cache`: capacity 2 against three sources that prepare and one for each way to
  fail; nine calls fill, overflow and revisit the cache, with failures in between.
  The calls end at `MaxCalls`, so deadlock is not checked.
* `bridge`: two objects and four addresses, so that two sessions and two results
  exist at once and every address is reused; one source for each way a request
  ends; capacity 1, so the second source evicts; 0, which must be refused. Addresses
  and objects are symmetric.
* `interpreter`: every entry function of at most three and two instructions in two
  blocks, from fourteen instructions, that the verifier accepts: all paths through
  branches and loops, values from another block, locals stored on one path only,
  calls. Longer programs build objects, cycles, call the host, recurse
  and make every error. `MaxDepth`, `MaxValues` and `MaxObjects` only cut loops and
  recursion off; deadlock is not checked because programs end and because of the
  cut. The same modules and those of the errors are written and read.
* `lowering`: five mixes of syntax with five to ten instructions; `Control` has
  room for an if inside an if with bodies, `Members` for a compound assignment with
  operators around it, `Scopes` for shadowing in an inner block, `Literals` for
  objects, arrays and calls, `Arguments` for names that are not bound. A function
  ends, so deadlock is not checked.
* `module_graph`: three modules in two directories, every body of up to two, two and one
  statements from seven: cycles of one, two and three modules, diamonds, repeated
  imports, paths past the root and with empty segments, wrong specifiers, missing modules,
  syntax errors. A visit ends.
* `page_scripts`: ten pages and five inline sources, four of them one after the other
  in any order and with either policy, capacity 2 for up to seven sources that prepare:
  each page after each other, cached, evicted or half done.
* `parser`: ten parts of the language with up to nine tokens and what follows the first
  error; five alphabets of four or five kinds with every sequence of five tokens. Nine
  tokens are a function with two parameters, a class member with type and initializer,
  an if within an if with both elses, a whole for.
* `semantics`: 3179 programs: every combination of a declared and an inferred variable with
  an operator, a function with each kind of parameter, result, body and call, three type
  declarations in any order, every statement with a scope around others. `MaxCalls` is 2.
* `lexer`: every source of three to six characters from seven alphabets in which tokens
  run into each other.

Runs other than `heap` and `bridge` end, hence `CHECK_DEADLOCK FALSE`.

### Fairness

`collect` is a loop of one thread: once called its iterations run (weak fairness of
`CollectStep`). The parser is one call on one thread: weak fairness of its steps. The C++
code after an ABI call is straight-line, so `RendererBridge` has weak fairness of
`CopyJson` and `FreeResult` in its fair specification.

### What the properties say

*Heap.* `FreeListExact`: the free list names every vacant slot once and no occupied
one. `LiveLenExact`: `live_len`, the free list and the running count of a sweep add
up to the slots. `MarksAreReachable`: when marking ends, the marks are what was
reachable at the call, no less and no more. `CollectExact`: afterwards exactly those are
occupied and the report says so. `FailClosedWithinWindow`: a handle finds its own object
or nothing while its slot was vacated fewer than `GenerationModulus` times.
`ImplementsObjectStore`: to its users the heap is a set of objects from which collections
drop the unreachable at once. `CollectTerminates`: cyclic graphs included.

*Cache.* `OrderAndEntriesAgree` (neither `expect` of `get_or_prepare` can fire),
`OnlyVerifiedResident`, `EvictsOldestFirst` (the entries are the
latest insertions in order, so hits and failures do not change who goes next),
`CountersAccountForCalls`, `FailureEvictsNothing`.

*Bridge.* `BlocksOwnedOnce`: every session and every result has exactly one owner
and no owner points elsewhere. `RepliesAreOwn`: the JSON returned is that of the call,
though the address may be another's at once. `CacheTransparent`: an allowed source
gets from a session the status the one-shot call gives it. `CountersAreOwn`: the
counters follow the handle through moves and count allowed requests only.

*Interpreter.* `VerifiedNeverMissing`, with `FramesCoverBlocks` as its reason, and
`HandlesResolve`: everything a frame, the console, the result or an object holds
resolves until the embedder has its copy. `EncodingRoundTrips`: a module written and read
is the same module, and bytes that end early or go on are refused.

*Lowering.* `ValuesStayInBlock`: every operand was defined before it in its own
block, once. `ValuesAreFramePositions`: without a branch, a value's number is the
place a frame pushes it to. `BlocksAreClosed`: every block the lowerer has left ends
in a branch or a jump to a block that exists, and those not reached are empty.
`StraightLineVerifies`: a function without an if that returns, reads variables only and
whose operators have types passes the verifier.

*Module graph.* `DependenciesFirst`: while nothing is reported, what has been ordered
follows all it imports. `BundleCorrect`: a bundle has every statement but the imports of
every reachable module, once, in order. `FailsExactlyWhenItMust`: a graph is refused
exactly if something reachable is missing, malformed, not local or on a cycle, and a cycle
reported is one. `ResolutionCanonical`: a module has one path.

*Pages.* `PageAsIfAlone`: outcome, console and document are those of the page's scripts run one
after the other with no cache, up to the first that fails, whatever the session did
before. `BlockedLeavesNoTrace`, `BodiesEndAtClose`, `FetchesOwnOrigin`.

*Parser.* `AcceptsTheLanguage`: a source is accepted exactly if `Grammar` derives it.
`PrecedenceRespected`: the tree is the one its operators ask for. `SpansNest`: nodes follow
each other and their parts lie inside them, on malformed sources too. `ParseEnds`.

*Semantics.* `AcceptedProgramsRun`: a program accepted whose variables and signatures
say their types never does an operation of the wrong kind, and its values inhabit the
types its variables were given. `UnknownNamesReported`: an unbound name is reported if it is not in an
argument that is not looked at, and a program that binds its names is never charged with one.

*Lexer.* `LexesLongest`: each token is the longest that starts where it does, between
tokens there are spaces and comments only, spans are where the text is, and an error
stands where nothing begins.

## 4. What the code does not keep

Two runs contradict the repository's documents:

* `lowering_branches`: the lowering numbers values over the whole function, the
  verifier over a block. A function that uses a value after a branch compiles to a
  module the verifier rejects; the counterexample is an if with a test and one value in its body.
  `docs/milestones.md` says that source with branches runs. `ValuesStayInBlock` shows
  that numbering per block would be enough for the verifier.
* `semantics_arguments`: arguments without a parameter are not analysed, so
  `console.log(missing)` is accepted and lowered to a load of a local nobody stored, which the
  verifier rejects. `README.md` says that scoped local variables are checked and that
  invalid programs produce no IR.

Other behaviour the models have, for which there is no run:

* the generation of a slot is a `u32` that wraps: after 2^32 reuses its first handle
  resolves again. `docs/architecture.md` says old handles fail closed;
  `FailClosedWithinWindow` is what holds;
* `for (; a; b) c` is refused: the first semicolon is used up before it is expected
  (`ForTakingTwo`, the departure with which `AcceptsTheLanguage` holds);
* the span of a parenthesized expression is that of what is inside, and the bundler copies
  statements by their spans: a module with `x = (1 + 2);` is bundled without the
  closing parenthesis;
* there is no limit on steps or on depth, and `materialize` does not return from a
  cyclic object;
* `x += 1` on an identifier stores the right operand; a unary operator lowers to its
  operand; a name declared again in an inner block shares the outer one's local;
* a function without `return`, a `??`, and a compound assignment of unknown type
  never verify;
* exported functions are collected and analysed, but the lowering, which makes functions
  of top-level function declarations, does not take them out of the export; `let g = f; g()` passes the analyzer, while calls at
  run time go by name;
* `<` and its like are accepted between any operands.

## 5. The proofs

All proofs are for every value of the constants; the bounds (`MaxObjects`,
`MaxCalls`, `MaxDepth`, ...) are arbitrary naturals there, so they bound nothing. The
one theorem with a hypothesis is `HeapImplements`, which needs `MaxObjects <=
GenerationModulus`: in the code, up to 2^32 allocations. Without it the theorem is
false, because a generation that has gone round gives the handle of an old object to a
new one.

### GcHeapProofs

Assumption: `ConstantsAssumption` (the modulus is at least 1).

1. *Accounting.* `AccountInv` joins the type invariant, the phases in which the
   collector's locals exist, `FreeListExact` and `LiveLenExact`. The type invariant
   alone is not inductive: that `live_len` stays a natural when a sweep ends needs the
   account and the fact that a duplicate-free free list is no longer than the vector
   (`FreeListFits`). Gives `TypeCorrect`, `FreeListCorrect`, `LiveCountCorrect`.
2. *Collection.* `MarkInv`: while marking, the marks are inside the reachable set, the
   reachable set is the least closed set that contains them, and what was traced has
   all its targets marked; when nothing is pending the marks are closed, hence equal to
   it. `SweepInv`: the marks are the reachable set, all of it occupied, and slots behind
   the cursor are settled. Gives `MarkingExact`, `SweepSafe`, `CollectionExact`.
3. *Handles.* Every slot's generation is that of a handle advanced by the number of
   times the slot was vacated since, modulo; no two objects share a slot and an epoch.
   Inside the window advancing is injective. Gives `HandlesFailClosed`.
4. *Refinement.* While generations last, a slot's generation is the number of times it
   was vacated, and every reference an object holds is a handle that was issued
   (`EpochInv`); hence no two objects ever have the same handle, and a handle finds its
   object exactly while that object occupies its slot (`RefineInv`). A sweep begins when
   the marks are closed, and there the store drops everything unmarked at once; all
   other steps of a collection change nothing the store can see. Gives `HeapImplements`,
   the safety part of `ImplementsObjectStore`, which is all of it.

### PreparedModuleCacheProofs

Assumptions: `Preparation` is a function into its four outcomes, the capacity is not
zero. `CacheInv`: the order lists the entries each once, so the number of
entries is the length of the order, so the eviction test, the bound and the counters
speak of one number; first in first out is stated element by element (`FifoInv`).
Gives `OrderAgrees`, `CapacityRespected`, `VerifiedOnly`, `CountersCorrect`,
`FirstInFirstOut`, and `FailureHarmless` as an action property.

### InterpreterProofs

Assumption: `InterpreterAssumption` (the modules are of the bytecode's types; nothing
about what they contain). `VerifierSound` says that no verified module, whatever its
functions, branches and calls, asks at run time for an operand, constant, value, local
or block that is not there. This is not immediate, since the verifier forgets
all values and locals at the start of a block and a frame keeps them. The invariant
`Inv` says that every frame *covers* its block: it has at least as many values as
the verifier counted before the instruction it stands at, and every local below the
count; and that every frame below the innermost stands at an instruction with a result,
because a return will push one there and advance it. The lemmas follow: what one
instruction adds to the counts (`DefinedNext`, `LocalsNext`), that the operands counted
are the ones indexed (`OperandsThere`), that a covered frame lacks nothing
(`NothingMissing`), and that results, stores, jumps, calls and returns keep frames
covered (`ResultCovers`, `StoreCovers`, `JumpCovers`, `NewFrameCovers`, `FramePopped`).
`FramesCovered` is the part of the invariant the run checks.

`HandlesNeverStale` is the second theorem. Its invariant, `HandleInv`, follows each value
through everything that can hold one: the values and locals of every frame on
the stack, the console, the result, the value a return passes to its caller, and the contents of the
objects in the heap all resolve there, with the kind they claim. Objects are only ever
added, or given contents that resolve, until `Finish`; that last collection keeps what
the console and the result reach, and what they reach is closed. That the references
inside surviving objects resolve too is why the heap's contents must be in the invariant.

`EncodingFaithful` adds two assumptions: `SpellingAssumption` (different texts have
different bytes) and `LoadingAssumption` (the modules are `Encodable`: longer than
2^32 the code's casts lose the length). Truncated bytes and whole ones are one argument.
`On(bytes, at, w)` says that from `at` on the bytes are those of `w` *as far as there are
bytes*; `Outcome(bytes, at, w, v)` is the value `v` behind `w` if all of `w` is there and a
failure otherwise. For every reader and what its writer wrote, `On` implies that it gives
`Outcome`; a chain of two such readers is one for the concatenation (`ThenReads`), and so
are *n* of them, by the least counterexample (`ItemsRead`). `ModuleReads` is that for
the module, and the whole bytes, a proper prefix and a longer sequence are all `On`. The
rest of the argument is about the numbers (`U32Facts`: four bytes determine a number below
2^32) and about regrouping concatenations as the reader takes them apart.

### RendererBridgeProofs

Assumptions: those of the bridge (`BridgeAssumption`: the two null values are no
addresses, and differ) and of the cache. Any number of objects, addresses and sources.
`Inv` has a part for sessions (a pointer held points to a session block, no two objects
hold the same one, no session block is without an object), the same for results and calls
in progress, and what a call in progress knows of its reply. The two are not
independent: an address freed by one is handed out to the other, so every step that
allocates or frees must be shown to leave the other side's blocks alone (`ResultsKept`,
`ReleaseSession`, `ReturnedKeeps`). A session's block says that its counters add up to
the lookups of the object that owns it *now*: the move lemmas carry the history along
with the pointer, and self-move is a case of its own. Gives `OwnedOnce`, `RepliesOwn`,
`CountersOwn`, and `CacheInvisible`, for which the cache must hold only what prepares.

### LoweringProofs

Assumption: `LoweringAssumption` (variables are not globals, and the empty name is neither).
Functions of any size and nesting.

`LowerInv` joins four parts. `BlocksInv`: operands are defined before they are used, in
their block, and each value once; in a function of one block, numbers are positions.
`StackInv`: every value the recursion holds is a value of the *current* block. `OpenInv`:
the blocks an if has yet to come to exist, are not being filled, and no two ifs share
one; every other block is closed. `NothingLeftOver`: between statements no value is
held. Each needs the others: an operand is in its block because the stack's values
are, those are because a statement that moves to another block begins with none, and a
block that is returned to has not been closed because it is pending for one if only.
Gives `ValuesStay`, `ValuesInPlace` and `BlocksClosed`.

`StraightVerifies` goes on from there to the bytecode: what a straight-line function
compiles to is accepted by `Bytecode`'s verifier. `StraightInv` says that instructions have the
operands their opcode asks for and that a visible variable has been stored. The
compiler numbers locals by the order of their first occurrence, loads included, while the
verifier counts stores and refuses a load at or above the count; they agree because
the first occurrence of a name is a store (`FirstIsStore`), so a store is of the next
local or an old one (`StoreFits`) and a load below the count (`LoadFits`). Operands are encoded
one after the other, so that what the verifier reads at a place is what was
written there (`FixedEncodes`, `TrailingEncodes`, `ObjectEncodes`).

### ModuleGraphProofs

Assumptions: `ProgramsAssumption` (sources are functions and bodies sequences) and
`PathsAssumption` (paths and specifiers are sequences of segments, as splitting at the
slashes gives them); the graph may have any size and shape. `GraphInvariant` establishes `Inv`, whose parts are: the
modules on the stack of visits are those marked visiting, each once, each imports the
next, so each reaches all above it (`StackInv`); the visited modules are those ordered,
each once (`OrderInv`); and as long as nothing is reported, every statement behind a
visit's position is harmless or imports a visited module, except the one import a visit
waits on (`CleanInv`). The exception is what makes it inductive: it is the edge the
next module on the stack stands for, and `Leave` turns it into a visited target. What
is reported is a defect (`ReportInv`); for a module that is met again while it is visited
that is `ReportedCycle`: the stack from it on is a cycle of imports. At the end the stack
is empty, so the visited modules are closed under imports and hold every reachable one
(`BundledIsComplete`), and no module reaches itself, since the order would put it before
itself. Gives `OrderIsTopological` and `GraphVerdictIsRight`.

`BundleIsRight` (`BundleCorrect`) needs no stronger invariant but facts about
concatenation. `FlattenLaysOut`: `FlattenSeq` of any number of sequences holds what they
hold, those of an earlier sequence first. Used for the statements of a module
(`ModulePlaces`) and for the modules of `order` (`BundleLaysOut`), it says that of two
places of the bundle the later has the later module or the later statement of the same one;
`OrderInv` and `CleanInv` turn that into "once" and "after what it imports".

`ResolutionIsCanonical` (`ResolutionCanonical`) is about `Paths` first. `Remaining` counts: a
name stays if the ".."s up to no later place outnumber the names behind it. `Stay` is the
set of those places among the first n segments, and the walk has come exactly to the
segments there (`WalkRemains`). A name adds its place to the set (`StayName`); a ".." takes
the greatest away, if there is one (`StayUp`). That it takes no other needs more than the
definition says: behind a name that stays, the names that stay are just as many as the
names less the ".."s (`Balanced`), so the name at risk is the one behind which none stays.
`UpToFront` turns taking the greatest place away into the pop of the code. For the
specification `RecordsInv` says that a visit has noted the imports it has passed, resolved,
which `Leave` makes the record; the rest of the proofs uses resolution as any function
of a module and a specifier.

### PageScriptsProofs

Assumption: `PageScriptsAssumption` (pages, programs and addresses are sequences; every
source a page or a bundle can come to is in `Sources`; no resource has the empty path; the
origin has no slash). Pages of any length, any capacity of the cache, any number of pages
on a session.

`Inv` has four parts beside `Typed`. `GoodCache`: only what prepares is resident, so that a
hit and a miss have the same outcome. `Untouched`: while a page is not allowed nothing
has changed since it began. `RunInv`: the script that runs is the one the page is at, it
prepared, and what it has fetched was there. `WorldInv`: document and console are those
the reference without a cache has come to at this script and this host call. The reference
is `ScriptWorlds` and `CallWorlds`, recursive functions along the scripts of a page and the
calls of a script. That they exist, and that a world that has failed stays as it is, is
Part 1; that every step of the session is one of theirs is Parts 4 to 6. Gives
`PagesAlone` and `BlockedTraceless`. `FetchesOwn` follows from `RunInv`:
what `Rooted` or the origin's prefix leaves begins with a slash, so what is before the
first slash is the origin or nothing. `BodiesEnd` is about the search alone: every script
starts behind the one before, and a body ends at the first closing tag.

Induction over numbers, where a recursive function is involved, is the argument from the
least counterexample (`LeastOf` in `SequenceFacts`), since the library's induction
theorems cannot be used; that is how the concatenations and worlds above are reached.

## 6. Limits

Only model-checked:

* the liveness properties (`CollectTerminates`, `ParseEnds`), since fairness is out of the
  prover's reach;
* `AcceptsTheLanguage` of `Parser`, and `AcceptedProgramsRun` and `UnknownNamesReported` of `Semantics`: `Grammar`, `Semantics` and `Meaning` have recursive
  operators over types and syntax, and what those compute for every tree is induction
  over data, which is out of reach too;
* `SpansNest` and `PrecedenceRespected`: `Parser` has no recursion of its own but extends
  `Grammar`, so that nothing can be proved in a module that sees it;
* `LexesLongest` of `Lexer`, which relates a greedy scan, with a fold along the characters
  of a string, to a grammar of whole texts: open, see the plan.

Not modelled, or only in part:

* the null checks of pointer arguments in the C ABI that the C++ bridge never passes,
  and the text of the JSON;
* the dumps of syntax trees, IR and bytecode, which are formats;
* source spans beyond the parser: the compiler interns them like constants, one stands
  for all; the codec writes them as zeros;
* numbers, strings and display: values are kind and truth; what escapes in strings mean;
* keywords: one stands for all in the lexer, and parser tokens are kinds;
* operators: one of each precedence and type rule stands for the others;
* symbol tables, which `analyze_source` returns for tools;
* order and places of diagnostics of the analyzer: which codes there are is modelled;
* tools, fixtures and benchmarks: no logic of their own.

The bridge is checked under the discipline its header states: one sequence per object.
The layers are checked each against what the next one takes from it, not as one model:
`Lowering` takes functions whose names are bound as `Semantics` leaves them, `Interpreter` takes what
`Bytecode` verifies, `PageScripts` takes bundles and runs by their outcome.

## 7. Plan

1. Proofs: `LexesLongest` of the lexer; `SpansNest` and `PrecedenceRespected` of the
   parser, apart from `Grammar`.
2. A composition of `Lowering` and `Interpreter`: what straight-line functions compute,
   against the evaluator of `Meaning`.
3. Pages that share one document across sessions, once the loader has that.
