# TealQL in TLA+

TealQL reads TEAL, the assembly language of the Algorand Virtual Machine, and
derives from it a control-flow graph, an SSA program, facts about its values and
findings. Almost all of it is sequential Python, so what is hard in it is not
threads: it is that every layer answers for *all executions* of another program,
and computes that answer by worklists, fixpoints and caches whose order of work
no test fixes. This project models those computations beside the machine whose
executions they speak of, and checks and proves that the two agree.

## 1. Inventory

Paths are relative to `src/tealql/tealtools/` unless they say otherwise.

| Part | State | Operations | Reads / is read by | What makes it correct |
|---|---|---|---|---|
| Parser, frontend (`ast/`, `frontend/`, `language/`) | none kept | parse, load | files -> nodes | positions and opcodes are right |
| CFG derivation (`cfg/build.py`) | bodies, predicted returns, reachable set, during one call | derive edges, gate returns, prune, partition | nodes -> everything below | no execution leaves the graph; blocks are straight lines; returns match reachable calls |
| SSA construction (`ssa/ssa.py`, `stacksim.py`, `frame_slots.py`, `callee_effects.py`) | heights, arities, unsafe routines, summaries, stacks, phis, during one build | pair calls, measure heights, classify calls, walk routines, bind parameters | CFG, subroutines -> SSA program | an operand may stand for the cell the AVM takes, on every path; a read that cannot be placed says so |
| SSA program (`ssa/program.py`, `models.py`) | the program object: blocks, values, phis, def-use, a revision counter | rewrite passes, publish a mutation | -> all analyses | one value per name; readers see a mutation |
| Path predicates (`cfg/path_predicates.py`) | predicates per block, worklist | compute, query, rule an edge out | SSA, CFG polarity, return targets -> auth, detectors, cross-contract seeds | a predicate is true in every run that reaches the block; none that every path proves is lost; no taken edge is ruled out |
| Dominance (`cfg/dominance.py`) | a cache per guard | reachable-avoiding, may-narrow | block graph -> ranges, byte lengths, byte taint | a guard said to dominate a read is passed before it |
| Ranges (`analysis/_range_*.py`, `ValueFacts.range_at`) | one range per value | seed, compose, narrow by asserts, narrow for one use | dominance -> detectors | what a run reads is in range; narrowing ends |
| Other value facts (`analysis/_byte_lengths.py`, `_bigints.py`, `_constants.py`, ...) | annotations on a private copy | fixpoint passes | ranges, constants | as above |
| Analysis contexts (`analysis/context.py`) | caches keyed by revision and domains, one private seed | `facts`, `derived` | all consumers | an answer is current and unconditional; a view depends on its profile alone and never changes |
| Subroutines (`cfg/subroutines.py`) | entries, bodies, continuations | identify, infer arities, return targets | block graph -> SSA, path predicates, lift | each call returns where the AVM returns |
| Cross-contract graph (`intercontract/analysis.py`) | queue, merged pins, analyses, edges | build, discover, feed back | path predicates, inner transactions -> reports | a callee is analysed under no pin that some caller does not pass |
| Byte access bounds (`dataflow/bounds.py`, `relational.py`) | difference constraints, for one query | seed, decide each access | guarded view, dominance -> detectors | no access reported in bounds over-reads, one reported out of bounds always panics |
| Other dataflow (`dataflow/`) | value graphs | taint queries | SSA, facts | no flow is missed |
| Budget (`budget/`) | summaries of routines, for one query | costs, loop bounds, minimum costs | subroutines, SSA opcodes -> reports | a run turns a loop no more often, pays no less, than reported |
| Lift (`lift/`) | cached lifts by revision | to Puya IR | SSA | same behaviour, tested by dry runs |
| Detectors, CLI, reports, views (`../security`, `../cli`, `reporting/`, `viz/`, ...) | none kept | policies, output | all of the above | policy |

How the parts interact: each layer is called by the one above and reads the
object the one below published; nothing is called back. State outlives a call in
the SSA program (mutated by passes, guarded by `_revision` and
`_analysis_read_only`) and in the caches of the analysis contexts and the lift.
The hard behaviours are therefore: *order of work* in the worklists (LIFO in the
path predicates, FIFO in the cross-contract walk, rounds in the range
refinement); *fixpoints* that must end, and must end at the right one of several;
*stale state*, when a result is kept while what it was computed from changes; and
*protocols of another machine* (calls, returns, recursion, loops) that a graph
without contexts must still cover. There is no crash recovery, no messaging and no
timeout in the core. The hazards, each at its line and with the property that
would catch it, are in `PROJECT.json`.

## 2. Modules

| Module | Models | Composes |
|---|---|---|
| `CfgWalk` | the promise of a graph: execution moves along its edges | - |
| `ProgramCFG` | `cfg/build.py` | - |
| `AvmOnCfg` | the AVM's program counter and call stack beside the published graph | `ProgramCFG`; refines `CfgWalk` |
| `NumberLemmas`, `AvmOnCfg_proofs` | proofs | `AvmOnCfg` |
| `XContractGraph` | `XContractGraph.build` | - |
| `XContractGraph_proofs` | proofs | `XContractGraph`, `NumberLemmas` |
| `BranchConditions` | `BranchCondition`, decomposition, `predicates_contradict` | - |
| `Operations` | what makes the values: arithmetic and byte operations of the AVM, and when they fail | `BranchConditions` |
| `BlockMachine` | block programs over SSA values and the AVM that runs them | `Operations` |
| `BlockMachine_proofs` | lemmas about conditions, graphs, the machine and the calls in progress | `BlockMachine`, `NumberLemmas` |
| `PathPredicates` | `PathPredicateAnalysis` | `BlockMachine` |
| `PathPredicates_proofs` | proofs | `PathPredicates`, `BlockMachine_proofs` |
| `AssertRanges` | `propagate_ranges`, `propagate_range_arithmetic`, `propagate_assert_ranges`, `range_at`, `AssertDominance` | `BlockMachine` |
| `LengthBounds` | `check_bounds`, `LengthRelations` | `AssertRanges` |
| `LengthBounds_proofs` | proofs, of the ranges and of the accesses | `LengthBounds`, `BlockMachine_proofs` |
| `AnalysisContext` | `AnalysisContext`, `ValueFacts`, the derived views, the annotation passes of `SSAProgram` | - |
| `AnalysisContext_proofs` | proofs | `AnalysisContext`, `NumberLemmas` |
| `StackPrograms` | blocks of stack operations and their block graph | - |
| `Continuations` | `identify_subroutines`: where calls come back, and bodies, in rounds | `StackPrograms` |
| `Subroutines` | `pyblock_partition`, `infer_legacy_arities`, `sound_return_targets` | `Continuations` |
| `CallEffects` | verified calls, block heights, unsafe routines, summaries of callees | `Subroutines` |
| `FrameSlots` | the plan of frame reads where heights conflict | `CallEffects` |
| `StackSim` | the walks: operands, phis, deferred arms, parameters, what is published | `FrameSlots` |
| `StackMachine` | the AVM's stack and frames beside the published SSA | `StackSim` |
| `CostModel` | `budget/costs.py`: cost intervals and summaries of routines | `Continuations` |
| `LoopBounds` | `budget/loop_bounds.py`, `iterative_dominators`, the lower bound of `minimum_cost` | `CostModel` |
| `BudgetMachine` | the AVM's budget, stack height and frames beside the reports | `LoopBounds` |
| `BudgetMachine_proofs` | proofs | `BudgetMachine`, `NumberLemmas` |
| `BlockPrograms`, `MC*` | the instances TLC checks | |

### Control-flow graph (`ProgramCFG`, `AvmOnCfg`)

A program is the sequence `prog` of its children; the variables are the locals of
`_program_cfg`: `entry_body` is `body` (with the stack of each walk in `todo`),
the return edges still believed are `live`, `_reach` keeps `seen` and `frontier`,
and `reachable` is what it returned. One action is one pop of a stack
(`VisitBody`, `VisitReach`) or one decision between them (`Predict`, `EndReach`,
`DropReturns`, `Publish`). The code pops last in, first out; the model pops any
pending node, which covers that order. `Edges` and `Rows` are what
`build_cfg` returns. The order in which `_children` sorts lines, and operand text, are
abstracted: a child is its class, the label it defines and the labels it names.

`AvmOnCfg` lets an AVM loose on the program once the graph is published: `pc`,
`frames`, and the boolean of the last move. It is external, written from the
comments that say what `callsub`, `retsub`, `bnz`, `switch` and the others do.

### Path predicates and ranges (`BlockMachine`, `PathPredicates`, `AssertRanges`)

A program is a sequence of basic blocks. A block reads leaves (`defs`), uses
values, may have phis, and ends in one operation. `BlockGraph` gives the block
edges the layer below derives. `SingleAssignment` and `PhisHaveArguments` keep to programs in
SSA form: a definition lies on every way to a read, and a phi has an argument for each block
before it; phis merge over calls and returns as over any edge. A leaf is made by an operation (`Makes`): it takes in a small integer, is
a constant, or comes of arithmetic or of a byte string; conditions are computed
from leaves by comparisons and connectives. The AVM runs the same blocks after the analysis has
finished: at a call the caller's frame keeps its own values (what the TEAL stack
does for values left below the arguments) and finds them again at the return.

`PathPredicates` has the worklist as a stack popped at its end, blocks in source
order, TOP as absence from `known`, and one action per outcome of an
iteration: `Defer`, `Settled`, `Change`. `AssertRanges` refines guard by guard in
source order and begins another round while one changed something.

Abstracted: a condition is at most one comparison deep under connectives; aliases
of values are resolved beforehand; only leaves carry ranges, of the arithmetic
operators only `+ - * / %` compute them; the range of a phi is not narrowed; of a byte string
only the length is kept; no value facts feed `predicates_contradict`.

### Byte accesses (`Operations`, `LengthBounds`)

`check_bounds` takes a guarded view, so `LengthBounds` first lets `AssertRanges` come to
its end (`Analyse`), then decides every access at once (`CheckBounds`: the code does it in one
call that looks at nothing outside), and then lets the program run. An access fails, and
the run with it, as the AVM says (`Fails`); a run that passes it has made its value.

The constraints `a - b <= c` are a set of records over the atoms of the code (an
integer, the length of a byte string, zero). `GlobalFacts` is the base graph after `_seed_all`:
structural facts, buffer lengths and the ranges of indices, program-wide.
`AssertFacts` are those of one assert, and `FactsAt` adds the asserts that dominate a block.
`Shortest` is `DBM.shortest`: as many rounds as there are atoms, and no answer on a negative
cycle. `ProvesLength` unfolds slices of slices as `_prove_len_ge` does, and `Verdict` is
`verdict` with what `check_bounds` adds to it. What byte-length propagation knows of a buffer is the
constant `Tracked`, a lower bound; the speculative tier is left out.

`InBoundsHolds` and `ProvenOobHolds` speak of accesses that satisfy `FactsPrecede`: the values
whose making, or whose range, bounds another value come before the access, and so do the
guards that narrowed them. Everything else is left open: guards before and after, loops,
calls, phis, slices of slices. Why the condition is there is shown by `in_bounds_guess`.

The verdicts, and the ranges they rest on, were compared with those of the real
`check_bounds` on the 1577 programs of the run's families: they are the same.

### Cross-contract walk (`XContractGraph`)

A program is the sequence of its resolvable application-call sites; a site names
its callee and what it passes at each index (constant, own argument forwarded,
anything else). `frontier` is the deque, `walk` the loop over the sites of the
item popped last; one action is one pop or one site.

### Facts and views (`AnalysisContext`)

What consumers share is not the SSA program but the facts frozen from private
copies of it and the derived views, both cached by revision. A context serves one
program, `owner`, which is the canonical program or itself a view. `programs` are
that program (`Self`) and every copy built for it since; `cache`, `derived` and
`seed` are `_cache`, `_derived` and `_value_seed`; `given` remembers the answers,
for the properties. `facts` has one action per way to an answer
(`AnswerFromCache`, `BuildCommonFacts`, `BuildFacts`, `ReadOwnConstants`), `derived`
has `FinishSeed` and `BuildView`, and `Annotate` is a pass called on the program
itself, which moves its revision.

A program is the list of passes run on it since it was rebuilt from the parsed
graph. This is exact as long as a pass is a function of what it reads and every
copy starts from the same parsed graph, which is how `_copy_program` works
(`from_graph` of a copy of `_graph`: facts live on the objects, and the relations
kept on the graph, such as `scratch_stores`, are computed anew for a copy). `Effect` says which fields each pass reads
and writes, so what an answer reports of a field is the slice of the history that can reach it:
two answers with the same slice are equal, and an answer with no assert in its slice
is unconditional. Which values a pass finds is abstracted, and so are the aliases of an
answer; `range_at` is in `AssertRanges`. A pass called on a view either was done,
and returns, or raises; neither changes anything, so it is no action. A pass that returned once it was done
(`Once`) always counts a revision; the others count one only if they changed
something, which the model leaves open.

### SSA construction (`StackPrograms` to `StackMachine`)

A program is a sequence of basic blocks of operations; an operation is what it takes
from the stack and leaves, a permutation if it is a shuffle, and its immediates.
`succ` is the block graph of the reachable code, derived as `ProgramCFG` derives it.
The phases of `build_ssa` follow one another in `phase`:

| `phase` | Action | Code |
|---|---|---|
| `identify` | `Refine`, once per round | `identify_subroutines` |
| `identified` | `Partition` | `pyblock_partition` |
| `pair` | `Pair` | `infer_arities`, `_compute_call_pairs` |
| `heights`, `effects` | heights by breadth-first visits, the fixpoint of unsafe routines, summaries | `entry_heights`, `_classify_call_effects`, `callee_effects.py` |
| `frames` | the plan of every poisoned region | `frame_slots.py` |
| `walk` | one routine per step, callees first | `simulate`, `_exec` |
| `bind` | parameters bound to what calls pass, unresolved reads published | `_bind_params`, the last phases of `ssa.py` |

A walk is an operator, because the code runs it in one call without looking at
anything outside; what recursion leaves open (`deferred`, `late`) is state, because
a later walk fills it in. Two fallbacks of the code are not modelled, because nothing reaches them: a callsub
without an edge is looked up by its label (`subroutines.py` 97-113), but the graph leads
labels without code on to the next block; and blocks of a routine that its walk does not reach get an orphan
stack (`stacksim.py` 719-733), but ownership is handed out along the edges the walk takes.

`StackMachine` runs the program once the SSA is built. A *cell* of its stack is not a
value but the set of names the SSA may give that value: the output that computed it and
every shuffle output that copied it. So `ReadsAreCovered` compares names, and no
arithmetic is needed: the operand recorded for a read, with all the phis and
parameters it may stand for (`Leaves`), must meet the cell the machine takes.

Where construction itself says that it does not know, nothing is claimed: an arm may be
absent (`None`), a phi inside a routine may be partial (`Refused`), and a read may be
listed as unresolved; `NoSilentRead` is about those. An operand that is `None` is left out of
what is published (`Inputs`), and the mark is the walk's: an operation that only hands on
a cell nobody knows (`HandedOn`) has neither operand nor mark. A `frame_bury` that cannot be
placed marks the cell it writes (`Buried`): only frame operations are
claimed to see it. Beyond that the properties hold for programs that satisfy the
conditions `InScope`, `Mergeable` and `OneWriter`; each names a situation in which
the code is wrong, listed under *Known divergences* or shown by a violation run.

### Budget (`CostModel`, `LoopBounds`, `BudgetMachine`)

`CostFact` is an interval whose upper end may be unknown. A routine is summarised
on demand, callees first; `asking` is the chain of `_subroutine_cost` calls in
progress (`active`) and `charges` the cache. Which routine is asked for first is left
open, because it depends on the consumer; with recursion the summaries depend on it. Shortest
paths are computed by walks of bounded length (`Cheapest`), since all tolls are
non-negative; for the growth of the stack, which may be negative, walks of bounded length
contain all simple cycles, and a loop with a cycle that adds nothing has no stack
ceiling at all.

`BudgetMachine` runs a program block by block on `Credit` units. It keeps heights, not
cells, and charges every operation any amount in its interval. It watches one
reported loop, chosen when the run starts: `stay` counts the turns since the loop was entered,
in this activation of the routine, `laps` those of the whole run. The tables of opcode costs and operand
lengths are the constant `OpCost`; no edge is taken to be infeasible (the code
asks `PathPredicates`, whose soundness is another run).

## 3. Runs

One run per question.

| Run | Expect | Asks | Instance |
|---|---|---|---|
| `cfg_covers_execution` | pass | does any execution leave the graph | all programs of up to 4 lines over 11 instructions, five longer ones; 150 000 states |
| `xcontract_pins` | pass | are the final pins the meet over all call chains | all networks of two apps with up to 2 sites each, a diamond, a rotating cycle, a long way round; depth 3 |
| `path_predicates` | pass | are the predicates true of every run, complete, and the loop finite | all block programs of three families (branching, calls, multi-way), five hand-made ones with loops, seeds, calls and phis of immutable fields; integers 0..2; 88 000 states |
| `ranges_and_bounds` | pass | do narrowed ranges and `range_at` hold of every read, and the verdicts on byte accesses of every run | all guard programs around one value, merges, a loop, chains of three comparisons; all guard and access programs around one byte string, slices of slices, counted loops, calls; integers up to 31, lengths 0, 1, 2, 4; 360 000 states |
| `in_bounds_guess` | violation | is an access in bounds wherever the facts come from | the guard and access programs |
| `fact_cache` | pass | are answers current and unconditional, views alike and unchanged, programs shared | every owner; the seven queries the consumers make; 150 000 states |
| `ssa_reads` | pass | may every operand stand for what the AVM takes there | 21 hand-made programs, every routine of one branch over few operations (432 with and without `proto`), every slot loop of one branch (128) |
| `ssa_wide_summary` | violation | do summaries say what a call leaves | two routines that leave outputs of a two-output operation in their caller's cells |
| `ssa_entry_loop` | violation | does a loop at the entry of a routine keep every lap | two loops |
| `ssa_two_writes` | violation | is a write left out of a merge only if it is dead | two slot loops |
| `budget_bounds` | pass | do loop ceilings, minimum costs and summaries hold of every run | 8 hand-made programs, all 4096 programs of three branches; 136 000 states |
| `budget_tail_jump` | violation | is what is reported infeasible never executed | a routine that jumps into another |

Bounds, and why they are enough. Four lines already make loops, calls into the
middle of a routine, calls on the last line, unresolved and duplicate labels; the
longer programs add what needs more lines (two routines sharing a tail, dead
callers, a retsub behind a switch arm). `MaxFrames = 2` allows a call within a call,
which is where a return can go to the wrong caller; the proofs hold for any
bound. Depth 3 in the cross-contract walk lets a weakening arrive on a longer
chain than the first visit, at the bound and below it. Integers 0..2 put a value below, at and
above every constant compared with; 31 is large against the number of guards, so a
range walked down step by step would exceed `FewRounds`. Lengths 0, 1, 2 and 4 lie below, at and
beyond every constant bound of an access; a value of 31 is beyond every buffer. In the contexts, no pass is called at
`MaxRevision = 1` or later: one revision is enough to make every cached thing stale, and a pass with
the passes it needs moves it by up to three. Five programs (the owner, and four
copies) allow a seed, its view, a view from nothing and a snapshot with other
domains, across a revision. Two answers suffice, since every property relates at most
two. In the SSA run three
frames allow a call within a recursive call, and six cells hold the caller's cells, the arguments and
what a routine adds on two laps of a growing loop. In the budget run 16 units pay for
three turns of the longest loop and for two levels of mutual recursion; four cells end a
growing loop before its budget does. Every mutant
of the code listed in `PROJECT.json` is caught within these instances.

Fairness. The analyser is one thread that runs to completion, so the derivation
and the worklist are weakly fair as a whole (`WF_vars(Build ...)`,
`WF_vars(Compute)`). Nothing is assumed of the analysed program: its run may stop
anywhere. The SSA and budget specifications state no fairness: what is asked of them is safety,
and `RoundsSettle` bounds the one loop that could turn for ever. Deadlock is not an error in these systems (a run halts, a queue empties),
so the configurations turn the check off; that the loops end is stated as
`DerivationEnds`, `AnalysisEnds` and `FewRounds`.

### What the violations show

* `in_bounds_guess`: the facts about lengths and ranges are kept for the whole program,
  though some hold only once an operation has not failed. In `n = len buf; extract 0 2 buf;
  i = n - 2; getbyte buf i` the range of `i` says that `n >= 2`, so the extract before it is
  reported in bounds. Two more facts of this kind: `v = C - w` says `w <= C` everywhere
  (`relational.py` 160-162), and a range that an assert narrowed is bridged to a length
  also where the assert does not dominate.
* `ssa_wide_summary`: when a summary is computed, `virtual.extend(o.outputs)`
  (`callee_effects.py` 208) puts the first output of an operation deepest, though it is the
  topmost one (`ssa.py` 67-68; `stacksim.py` 1174 pushes them reversed). After a call of
  `proto 1 0; addw; retsub` the caller's cell under the argument holds the second output of
  `addw`, and the caller's next read is bound to the first. The model has the code's order. `SummariesHold` therefore
  speaks of summaries that name no output of an operation with several, and `ReadsAreCovered` of
  programs that have such summaries only (`Narrow`). Nothing else is left out: programs whose routines
  consume both outputs, or whose routines have no summary, are in the run.
* `ssa_entry_loop`: the walk starts the entry of a routine without `proto` with its
  parameters alone. When the entry is also a loop head, what the loop brings back has no
  phi, and the operand stands for the first lap only.
* `ssa_two_writes`: `killed()` marks both write blocks as seen before it starts, so a
  read that stands before the later write in that write's own block is never
  found, and an earlier write that reaches it around the loop is left out.
* `budget_tail_jump`: a body ends where another routine begins. The returns behind a jump
  into that routine are missing from the summary, whose minimum is then too high, and
  `proven_over_budget` holds of a block that a run executes.

All were reproduced on the real classes.

### Known divergences

What the model shows, or what reading the code for it showed, without a run of its own.
The scope conditions of the properties refer to these.

* Path predicates and recursion, `CallsDoNotRecur`: an SSA value of a recursive routine stands
  for several live instances. What the callee's return proved of the inner one's reaches the
  block after the call through the meet (`cfg/path_predicates.py` 535), and is credited to
  the outer one's, kept on the stack. The program `Recursion` of `MCPathPredicates` shows it: `path_recursion.cfg`
  asks `PredicatesHold` of it, and TLC finds it violated. The docstring (3-4) promises facts of every path.
* Path predicates, `CarriesNothing`: a caller still at TOP injects the empty set
  (`cfg/path_predicates.py` 549), and a loop head that calls a routine meets it. In `callsub f;
  assert c; loop: callsub f; b loop; f: retsub` the guard, which every path passes, is
  not found in the loop. Sound, but less than the docstring promises.
* SSA, `Anchored`: a `retsub` of a skewed `proto` routine in a poisoned block is read through the
  plan, because that branch (`stacksim.py` 1062-1079) precedes the check for skew
  (1080-1085).
* SSA, `Steady`: for a region with a lap that pops more than it pushes, `safe_below`
  counts one lap only (`frame_slots.py` 340-370).
* SSA, `Continued`: the comment at `frame_slots.py` 301-306 does not hold when the
  heights at a continuation conflict.
* SSA, `Rooted`: a `frame_bury` that names the cell it empties appends to the list
  (`stacksim.py` 864-865, 930-931); the AVM rejects it.
* SSA, `Buried`: a `frame_bury` that cannot be placed leaves what shallower paths read
  from the real cell stale (`stacksim.py` 853-867).
* SSA, `Separate`, `Settled`: routines that share blocks give a block one owner;
  chains of calls that never return mislead `identify_subroutines`.
* SSA and budget, `Apart`: `_source_next` (`cfg/subroutines.py` 130-140) skips every block that
  starts a routine, also when a call is laid out just before the entry it comes back to: in a routine
  whose `callsub` block is followed by its own entry, the call is taken to come back to a later
  block. The program `FallsIntoEntry` shows it, and `identify_subroutines` gives the same
  continuation; without `Apart` it violates `OwnersRun` and `ReturnsCostTheirSummary`.
* Ranges and recursion: a read after a recursive call counts as dominated by an assert
  that only the inner instance passed (`cfg/dominance.py` 160); the assert runs keep to
  programs without recursion.
* Ranges, `ComparesWithItself`: a guard that compares a value with itself (`dup; <; assert`)
  takes one off its range in every round (`_range_refinement.py` 95-134), so the loop runs as
  many rounds as the range is wide. Sound, since no run passes such a guard, but for a 64-bit
  range it does not end in practice; `FewRounds` leaves these programs out.
* Loop bounds, `PlainlyEntered`: `_prefix` picks the entry that is cheapest *including*
  its own charge and then leaves that charge out; another entry with a dearer block may have a
  shorter way to it, and a run may turn once more than the ceiling. Irreducible
  regions inside a loop with one entry are not reported at all, since only maximal regions are looked at.
* Minimum costs: a call block is charged with a call that returns, also when the
  routine ends the program instead.
* Cross-contract walk: at the depth bound a callee queued again with weaker pins is dropped
  (`intercontract/analysis.py` 594), so the weakening does not reach its call
  sites, as the comment at 588-589 says it does. For chains within the bound
  `AnalysesAreTheMeet` holds.
* Graph: the gating loop is a greatest fixpoint. A dead loop that calls a live routine
  justifies its own return and stays (`cfg/build.py` 342; comment at 322-324). Imprecise, never
  unsound: `CoversExecution` holds.
* Facts: an answer to (constants, ranges) is tighter after a query for everything than
  after a derived view (`analysis/context.py` 514). Both are sound, and constants do not
  depend on the order (`ConstantsAgree`).

## 4. Proofs

`AvmOnCfg_proofs` proves, for every set of programs, every set of label names and
every bound on the call stack, from the assumptions `ProgramsAreText` (a program
is a non-empty sequence of instructions) and `MaxFramesIsNat`:

| Theorem | Property |
|---|---|
| `TypeCorrect` | `TypeOK` |
| `ExecutionStaysReachable` | `ExecutionIsReachable` |
| `CallChainNests` | `FramesNestInBodies` |
| `GraphCoversExecution` | `CoversExecution`, the refinement of `CfgWalk` |
| `ReturnsMatch` | `ReturnsMatchReachableCalls` |
| `BlocksStraight` | `BlocksAreStraightLine` |

`ExecutionIsReachable` is not inductive: a `retsub` returns to the line after its
callsub, which is in the reachable set only because the predicted return is live,
which is so only because the callsub is reachable *and* the retsub lies in the
callee's body. `IInv` therefore conjoins: the bodies are closed under the
subroutine-local walk up to what is still pending (`BodiesClosed`); a return in
`live` comes from the prediction, and one that was dropped had an unreachable callsub
(`ReturnsGated`); the walk stays inside what the last one found (`WalkInside`); at
publication no live return is ungated (`BuiltMeansGated`); the machine waits until
then (`AvmWaits`); and the call chain is nested in the bodies
(`FramesNestInBodies`), which is what a context-insensitive prediction needs to
cover a stack. There is one lemma per action, then `StepPreserves` and `Inductive`.
`BlocksStraight` uses a second invariant, `WalkJustified` (whatever the walk found
has a predecessor it found): without it a block could be half live.

`AnalysisContext_proofs` proves, for all sets of owners and queries and any number of
revisions, programs and answers (from `ConstantsAssumption`):

| Theorem | Property |
|---|---|
| `CacheInductive` | the invariant `CacheInv` |
| `ViewsAlike` | `ViewsDependOnProfileOnly` |
| `ViewsStay` | `ViewsNeverChange` |
| `AnswersStayCurrent` | `AnswersAreCurrent` |
| `ContextTypeCorrect` | `TypeOK` |
| `AnswerInductive` | the invariant `AnswerInv` |
| `AnswersUnconditional` | `FactsAreUnconditional` |
| `ConstantsAlike` | `ConstantsAgree` |
| `ProgramsPayOff` | `NoProgramIsWasted` |

That views are alike is not inductive, because a view may be finished from a
seed built by a query long before. `CacheInv` adds what makes the seed safe to
consume: it is a program of its own, not the owner and not published, and it is still
exactly the common snapshot (`SeedsArePrivate`); and every view is what `FinishView`
makes of that snapshot (`ViewsAreFinished`). Since a step rewrites only the owner, which is
canonical then, or a seed, which is no view yet, no published program changes.

*What the answers say.* Every history a context ever freezes is `Settled`: it begins with both constant passes and
no later pass writes a constant, so what it says of constants is what these two
passes say, whoever asks (`SettledByStart`, `SettledRun`). What is cached is a snapshot,
whose passes are annotations only, or tells of constants alone (`Truth`); hence no assert and no
rewrite is behind any answer. For the count, `CountInv` adds that a seed of the
current revision comes with cached common facts, so the common facts are never built
while a seed exists; each action then moves both sides of the equation by the same amount.
`RunAll`, `Slice` and `OfRevision` recurse over a list; that these functions exist and
what they compute is proved with `RecursionUpTo` of `NumberLemmas`.

`XContractGraph_proofs` proves, for every call network (any number of
applications, sites and arguments, cyclic or not) and every depth bound, from
`RootHasNoAppId`, `MaxDepthIsNat` and `NetworksAreNetworks`:

| Theorem | Property |
|---|---|
| `WalkTypeCorrect` | `TypeOK` |
| `WalkInductive` | the invariant `IInv` |
| `AnalysedUnderTheMeet` | `AnalysesAreTheMeet` |
| `EdgesAtShortestDepth` | `EdgeDepthIsShortest` |

`AnalysesAreTheMeet` speaks of a walk that has ended; what makes it true is what holds
while the walk is under way. The queue is sorted by depth (`QueueSorted`), so taking up
depth `n` means that every item of a smaller depth has been walked (`Level`). No item or
callee has lost a pin that all chains up to its depth agree on (`NoPinGivenUp`). And
each chain of at most `Level` calls has an item, queued or walked, whose pins are among
those the chain passes (`Followed`), so once it is walked no callee holds more than the
chain passes it (`NoPinTooMany`). A callee whose pins are weakened later is walked again only
if it is queued anew: `LatestCovered` says that the pins a callee holds now are those its sites will
be visited under. `Arrivals` recurses over the length of a chain; `NumberLemmas`
has the lemma that such a function exists (`RecursionOverNumbers`), so its
equations are proved, not assumed.

`PathPredicates_proofs` proves, for every set of block programs over values of any
depth and integers of any width, whatever order the worklist takes its blocks in:

| Theorem | Property |
|---|---|
| `TypeCorrect` | `TypeOK` |
| `FixpointInductive` | the invariant `FixpointInv` |
| `NoneLost` | `NoPathPredicateLost` |
| `MachineInductive` | the invariant `MachineInv` |
| `RunInductive` | the invariant `RunInv` |
| `Sound` | `PredicatesHold` |
| `EdgesTakenAreFeasible` | `TakenEdgesAreFeasible` |

*The fixpoint.* A block that is not queued is at rest (`Rests`): visiting it again would
change nothing, or nothing is known of any way into it; and what is known has a known way in.
So when the queue is empty every block is known and has exactly what its predecessors pass on.
`NoneLost` adds `KnownLosesNothing`, which holds all the while: a block that is known has every
predicate no path avoids. A visit can only keep it, whichever predecessors are still at TOP.

*The run.* That the predicates of the block a run is in are true is far from inductive: they
speak of SSA values, and a loop or a call defines a value anew. The last three theorems
therefore have two hypotheses about the program, in `PathPredicates_proofs`:
`CallsDoNotRecur` (no routine can come to call itself; *Known divergences* says what happens when
one does) and `SeedsAreDefined` (what the caller of the analysis vouches for speaks of immutable fields, or
of what has been defined before that block). `RunInv` then says beside `PredicatesHold`:

* `Nested`, `OwnFollow`, `ValuesKept`: the calls in progress nest, a routine's own values follow
  their definitions, and so no callee can define a value of a caller: what the caller finds at
  the return is what it left;
* `Unseen` or `Fresh`, for every value: either no definition of it has been on the way, and then nothing
  is known of it here, or nothing is known of it before the block that defines it.
  This is what keeps an old predicate from flowing over a new definition;
* `CallersRight`: what a caller knew is true still, or it is about a value that a routine called
  since has defined.

The analysis carries what a caller knew of immutable fields over a call, and it takes a phi of such for one
(`RootedPhis`), though another call of a routine gives that phi another value. That this is sound is
`LeftByCalls`: when something is known of a value no routine in progress has defined, a call
that is over has left it, and then each return that has the value behind it knows the same
(`Returned`), because all of them lead to the block after that call (`LeftOnArrival`). So a fact
of the caller that the callee has disturbed is one the callee knows anew when it returns (`ReturningKnows`). `MoveFacts` says
what a step, a call and a return change in what the routines in progress have defined, and `OwnApart` that
without recursion no two of them define the same.

For one step, `EdgeHolds` shows that a run makes the predicates of the edge it takes true, for
each kind of branch, arms of a `switch` or `match` that share a target included;
`DecomposeSound` that the parts of a condition are true when it is; `HoldsAgrees` that a
predicate depends on the leaves it mentions alone; `NoContradiction` that what
`predicates_contradict` rejects never holds together.

The assumptions on the constants are that definitions form a finite expression graph without cycles
(`ValuesAreComputed`: the values are those built from leaves in as many steps as there are
values), that operations have the operands they take (`DefHasOperands`, `MakesHasOperands`), that immutable
fields are read and constants are immutable (`FixedAreRead`, `ConstantsAreFixed`), and
that programs are programs (`ProgramsArePrograms`: labels name blocks, a `match` pops one candidate per
label, an operation takes values its block reads). TLC evaluates them all. `Eval`, `Computing` and `DecomposeCond` recurse over operands:
`RecursionOverValues` of `BlockMachine_proofs` proves that such functions exist, and
`ValueInduction` is the induction over them. What holds of calls whatever is analysed
(`Nested`, `OwnFollow`, `ValuesKept`) is in `BlockMachine_proofs`, for both analyses.

`LengthBounds_proofs` proves of `AssertRanges`, for the same programs and integers of any width:

| Theorem | Property |
|---|---|
| `TypeCorrect` | `TypeOK` |
| `AnalysisInductive` | the invariant `AnalysisInv` |
| `MachineInductive` | the invariant `MachineInv` |
| `RunInductive` | the invariant `RunsInRange` |
| `NarrowingSound` | `NarrowedRangesHold` |
| `PhisTakeRanges` | `PhiArgumentsInRange` |
| `RangeAtSound` | `RangeAtHolds` |
| `RoundsAreFew` | `FewRounds` |

*The refinement.* One range per value, narrowed by guards in any round from the ranges other guards
have narrowed: what does it still rest on? Not on all guards of the program, or a read
before one of them would be in no proven range. `Above` are the guards that may narrow a value and those
that dominate them, and `Follow` says that its range follows from these having been passed (`Premise`)
and from unconditional ranges alone. It is kept because what a guard tests is narrowed only
by guards that dominate the test (`AboveTests`), so what it says rests on nothing that
does not come before it. No phi, and nothing a phi merges, is ever narrowed.

*The run.* That a dominating guard has been passed is not enough: a loop may have defined
anew what it tested. `RunInv` says: a guard that the run cannot have come around was passed
*with the values of now* (`Passed`); beyond a guard that tests what is defined only beyond it no
run comes (`Late`); what has been defined is in its unconditional range
(`RangesHold`), unless the operation that makes it has just failed. `RunsInScope` adds the calls
in progress. `NarrowingSound` then needs only that whoever reads a narrowed value is
dominated by all it rests on. The three properties of the run have the hypothesis `CallsDoNotRecur`, for
the reason given under *Known divergences*.

*The number of rounds.* A bound must not depend on the width of a range, so what counts is the
guards. A guard is `Ready` when no guard that dominates it narrows anything any more; since a
guard's narrowing reaches only the guards it dominates (`Undisturbed`), it stays so. A
ready guard narrows in one round the values that had no range (`FirstTime`), in one more those that have
one (`SecondTime`), and then nothing: what its relation can cut it has cut, whichever side was
narrowed first. That the two sides do not go on cutting each other needs that they are
two values: hence the hypothesis of `FewRounds`. `Gain`
counts the ready guards that are through with their first and with their second round. It is never lost and at most
twice the number of guards, and a round that changes a range adds to it, because of the
guards that still narrow something one is dominated by none of the others (`FirstOfAll`). The invariant `RoundsInv`
says so for a round half done.

Besides the above the assumptions are `BoundedAreRead` (a bounded value is read, or is the length of a byte string that is read)
and `BoundedAreNoPhis`; TLC evaluates both.

It proves of `LengthBounds`, for the same programs, accesses to byte strings of any length and
slices of any depth:

| Theorem | Property |
|---|---|
| `BoundsRefineRanges` | `Spec` of `AssertRanges`: checks disturb neither the ranges nor the run |
| `BoundsTypeCorrect` | `BoundsTypeOK` |
| `VerdictIsSound` | `Verdict`, against facts that some values meet |
| `MadeInductive` | the invariant `MadeInv` |
| `ReportInductive` | the invariant `ReportInv` |
| `InBoundsSound` | `InBoundsHolds` |
| `ProvenOobSound` | `ProvenOobHolds` |

*From facts to a verdict.*
`VerdictIsSound` is the reasoning of `LengthRelations`: for whatever facts, and values `V` of the
atoms that meet them, what is proved in bounds is in bounds and what is proved out of bounds
panics. Shortest paths in rounds bound no difference below what it is (`ShortestIsSound`),
whether or not the rounds settle; each unfolding of a slice keeps what is left to prove
(`ProvedLength`, `CutIsSound`); and what an access needs, offset and constant operand included, is where it
ends (`NeededIsEnd`, `EndFacts`).

*From a run to the facts.* The facts hold for the whole program at once, and a run meets only some of
them: a value it has not made yet has no length, and one that a loop is about to define anew has an
old one. A run therefore cannot simply be shown to satisfy them. What is shown is that there are
*some* values of the atoms that suit the run (`Suits`, `SomeSuit`): the leaves the run is
`Settled` on have the values they have in it; every other leaf has the value its own operation
ties it to, in the order in which values are made (`TiedValues`, and `LeavesAreMade`: only phis
take values round), or else the least that anything says of it. All facts of the program are met by these
(`FactsMet`): structural facts because a tie is an equality, ranges and buffers because the rest
bounds a value from below. What bounds it from above is exactly what `FactsPrecede` asks to come
first, and there is no proof without it, as `in_bounds_guess` shows. The asserts of `FactsAt`
are those that dominate, passed with the values of now (`RunInv`, above), and the
slices a length is unfolded through have the lengths their operations do (`CutsSuit`).

`MadeInv` is what makes a leaf settled: what a block is only reached behind was made by an operation
that succeeded, on operands in their ranges, and it has the value it had (`Well`); the operands have
not been defined anew since, although the run may be in a loop around both (`NoInputHere`: no
path of a routine leads to the definition of an operand behind the operation). A block that dominates the
present one left what it had in the same state (`DominatorsWell`, for which `MadeLate` says that before
it nothing was defined that only follows it), and a call leaves the values of the callers alone
(`CallersWell`). `ReportInv` says that accesses are reported on when no guard narrows any more, so the
reports and the invariants of the run speak of the same ranges. Both theorems have the hypothesis
`CallsDoNotRecur`, as those about ranges do.

The assumptions besides are `LeavesAreMade` (`Operations`), `TrackedIsLowerBound` and `TrackedAreNoPhis` (what is known of
a buffer beforehand is below every length it is read with, and no phi merges into it); TLC
evaluates all three.

`BudgetMachine_proofs` proves, for every set of programs, any costs, any credit, stack, depth of
calls and choice of the routine summarised first:

| Theorem | Property |
|---|---|
| `BudgetInvariant` | the invariant `BudgetInv` |
| `RoundsAreEnough` | `RoundsSettle`, where `Attributed` |
| `MinimumIsAlwaysPaid` | `MinimumIsPaid` |
| `InfeasibleIsNotExecuted` | `InfeasibleIsNeverExecuted`, calls where `Attributed` |
| `ReturnsPayTheirSummary` | `ReturnsCostTheirSummary` |
| `TurnsInvariant` | the invariant `TurnsInv` |
| `LoopsTurnWithinBounds` | `LapsWithinBounds` |

*Continuations.* A call comes back to the next block, if it comes back; `identify_subroutines` guesses
the next one that starts no routine and corrects its guesses by what the returns lead to. For programs
that are `Attributed` (no routine runs into another, no call that returns is followed by an entry, no routine that
never returns makes a call that never does) `ContinuationsInv` says: a call that returns has had the right
continuation from the start (`Exact`), and the first round keeps it, because bodies computed along it hold
all that a call executes (`FirstBodies`); one that never returns loses its own in that round, which finds it no
other. So the first round is the last (`OneRound`). Without `Attributed` nothing is proved of the rounds.

*Summaries.* `Cheapest` takes as many rounds as there are blocks. `CheapestFacts` shows that more would
change nothing: if no cycle pays (`Gainless`), a walk as long as that visits some block twice, and without what lies between
it costs no more (`TraceExists`, `SomeRepeats`, `RoundsEnd`). What is kept of a
routine (`CostsInv`) is then a potential: the least charge of a call is at most what any walk from the entry to a return has paid,
and, where the paths to the returns form no cycle, `Dearest` is at least that
(`DearestFacts`). A summary asked for while it is being made counts nothing and has no ceiling, which every
later summary may only improve (`ThroughGrows`, `SoundGrows`): so it does not matter
which of the routines that call each other was asked for first.

*The run.* `RunInv` says of every call in progress what has been paid since it began, between the least and
the most a way to the present block charges (`Between`); a call starts with nothing, a return adds the
charge of the inner call, which is within its summary, to what the caller had paid when it called
(`FrameCall`, `FrameBack`). `minimum_cost` is a second potential, over the edges of the
program and those over a call (`MinimumFacts`). Its value for a call is only right if the call's summary is, which is why
the claim about calls needs `Attributed`.

*Loops.* `loop_bounds` reports of each loop what is left of the credit on the way to it divided by what
one turn charges at least, and the size of the stack divided by what one turn adds to it. `BoundFacts` shows what
these numbers are of a loop's graph: potentials, along whose edges nothing is gained, from
a block of the loop back to it (`IterationFacts`, `GrowthFacts`) and from the start to its entries
(`ApproachFacts`). For the growth this needs that no cycle of the loop shrinks the stack, and
that there is a cycle through each block counted; a natural loop has one through its
header by the definition of dominance (`DominatorFacts`, `NaturalFacts`), an irreducible region
by that of a region (`RegionFacts`). Both are entered at their entries alone (`Enclosed`).

That a run which has turned `n` times has spent `n` times the charge of a turn is not inductive, and not even
true call by call: a loop may call a routine that turns in the same loop, its turns
lie in stays the recursion interrupts, and they count for the whole run. `LapsInv` therefore keeps books *net of the turns*:
what the run has spent less `n` turns. For every call in progress there is a net amount with which it began
(`Books`), and what the net has grown by since pays for the cheapest way from the routine's
entry to where the call is (`Paid`), as if no turn had been made. That is
kept at a turn because the stay remembers (`Account`) what was net when it met the block: the way from there
back has paid for the turn, so the books can be set back to that amount (`Onwards`). Hence a routine
that returns has paid its summary net of all turns made within it, which pays for the step of its
caller over the call, and it may be one of a turn of the caller (`ReturnAccounts`). The net amount is never below the
prefix once a loop has been entered, so the turns fit into what is left of the credit. `PlainlyEntered` is what
the prefix needs to be a bound (see *Known divergences*); `Attributed` what the summaries and
continuations need. For the stack, `ClimbInv` says that a stay stands at least as high as its turns have
lifted it, and `HeightInv` that calls find their arguments, so no height is negative; a
loop with a stack bound makes no calls, so each stay is one walk.

The assumptions are `ProgramsArePrograms` (a program is a non-empty sequence of non-empty blocks whose
labels name blocks), `ChargesAreCosts` (an operation charges at least one unit, and at
most no less than at least), `CeilingsAreNat` and `BoundsAreNat`; TLC evaluates all four.

Checked by TLC only: SSA construction (`StackMachine`), whose properties relate the cells of a run to every merge
made of them and have no proof yet, and liveness
(`DerivationEnds`, `AnalysisEnds`), which is out of the provers' reach.

## 5. Plan

Modelled so far: the control-flow graph, path predicates, assert ranges, byte accesses, the
cross-contract walk, analysis contexts, SSA construction, costs and loop bounds. Left:

1. *Proofs*: `OwnersRun` for routines that share no block; heights and summaries of SSA
   construction, and then what its operands stand for.
2. *Lift cache* (`lift/cache.py`) beside the revisions of `AnalysisContext`: a lift
   is filed under the revision it was built from.
3. *State-resolved AppIDs*: every write of a key agrees, against an application that
   runs its writes in any order.
4. *Dataflow*: the value graphs of `dataflow/` against the runs of `BlockMachine`.

## 6. Not modelled

Parsing and text, opcode tables and transfer functions of single opcodes
(byte-length, bigint and bitwise interval arithmetic: pure algebra with unit tests), the lift's
translation to an external compiler's IR (tested by dry runs against deployed
bytecode), detectors, reports, command line and views. Of the modelled parts: the
phase-8 live filter, the compatibility views of frame layouts and the graph queries of
the SSA; the upper bounds of budget queries, its limits on the size of a stack proof (64
blocks, 4096 cycles), budget guards and trip counts (`advanced.py`); of byte accesses the speculative
tier, whose lengths come from the lift or an ARC-56 file. `PROJECT.json` lists
every component with its files and the reason.
