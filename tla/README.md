# Verification of ARMORY and M-Ulator

ARMORY is an exhaustive fault simulator for ARM-M binaries: for every list of
fault models it injects every fault at every place of a program's run, on
emulators of its own (M-Ulator), in several threads, and reports the
combinations of faults that lead to an exploitable state. Its results are only
as good as the machinery that brings an emulator to the same state again and
again, and as what the emulator makes of the instructions that faults leave
behind. Both are modelled: incremental snapshots, nested injection loops that
share one emulator, threads that share one counter, hooks that are removed while
they run, and the decoder and the execution of every instruction.

Paths below are relative to `src/code/subprojects/`.

## 1. Inventory

| Component | State | Operations | Interacts with |
|---|---|---|---|
| Snapshot (`armory/src/snapshot.cpp`) | buffer of the RAM, CPU state, two hulls of the writes since, `m_initialized` | `reset`, `backup`, `restore`, hook `on_memory_write` | one emulator, through a hook and through hook-free `read_memory`/`write_memory` |
| Injection loops (`simulate_instruction_fault.cpp`, `simulate_register_fault.cpp`) | per level: index, iteration, fault, remaining cycles, snapshot; shared: the flash, the hooks of the emulator | `simulate_fault` and four `simulate_*` functions, mutually recursive | Snapshot, Emulator, known faults |
| Thread pool (`fault_simulator.cpp`) | `m_thread_progress`, `m_new_exploitable_faults`, `memorized_faults` | `simulate_faults`, `simulate` | one emulator copy per thread, one mutex |
| Model combinations, known faults (`fault_simulator.cpp`, `subset_chooser.h`) | lists of model indices; known combinations | `compute_model_combinations`, `prepare_known_exploitable_faults`, `is_fault_redundant`, `remove_duplicates` | FaultCombination |
| Fault combination (`fault_combination.cpp`) | faults of two kinds, a cached sorted list | `includes`, `custom_includes`, `<`, `==` | - |
| End detection (`detect_end_of_execution`, `context.h`) | `end_reached`, `decision`, a cloned exploitability model | fetch hook | Emulator, user callback |
| Fault tracer (`fault_tracer.cpp`) | position in the list of faults | `trace`, `verify`, its own hooks | Emulator |
| Emulation loop and hooks (`m-ulator/src/emulator_base.cpp`) | eleven hook lists and flags, queue of removals, return code, time | `add_*_hook`, `remove_hook`, `clear_hooks`, copy, `emulate`, `stop_emulation` | callbacks, decoder, execution |
| Instruction execution (`emulator_execution.cpp`, `arm_functions.cpp`) | registers, memory, the flags and the IT state twice (`psr` and register PSR), special registers, the address of the exclusive monitor | `execute`, one case per mnemonic; `clock_cpu` around it | decoder, accesses with hooks |
| Instruction decoder (`instruction_decoder.cpp`) | the architecture | `decode_instruction`, `get_instruction_size`: pure | called by `clock_cpu` and by the simulator |
| Built-in fault models (`fault_simulator/src/fault_models.cpp`) | none | number of iterations, manipulated instruction or value: pure | called by the injection loops |
| Driver, printing (`fault_simulator/`), disassembler, tables of names | none | I/O | simulator, tracer |
| Case studies, scripts, firmware, results | none | configuration, I/O | driver |

What is hard, and what makes each component correct:

* **Snapshot.** `restore` writes RAM without firing hooks, so no other snapshot
  sees it; SP moves between writes to one address. Correct when every restore is
  exact although only hulls are copied.
* **Injection loops.** Exits in the middle (errors of a faulted step, replay
  timeouts, redundant faults) on an emulator whose flash and hooks are in no
  snapshot. Correct when each fault is injected into the state its level saved,
  and flash and hooks hold the faults in force and no others.
* **Thread pool.** Any thread may take any index and replays to it from where it
  was. Correct when every index is done once, at its own place, with the cycles
  the timeout leaves, and the results are complete.
* **Hooks.** Removal is deferred, callbacks stop, remove and add. Correct when no
  removed hook is called, no registered one missed, and no stop lost.
* **Known faults.** Redundancy depends on an inclusion of combinations and on
  which sub-lists of models ran before. Correct when skipping loses no
  exploitable combination and the results are minimal.
* **Tracer against simulator.** Two implementations of one thing, by time and
  hooks and by snapshots. Correct when the tracer confirms what was found.
* **Decoder.** A tree of more than 200 leaves that each repeat the tests of
  architecture, IT block and registers, for words that faults make and no
  compiler does. Correct when a word means one thing wherever it is accepted, and
  what is accepted can be executed.
* **Execution.** State that crosses instructions: the IT block, the flags kept
  twice, the stack. Correct when the copies agree between instructions, blocks
  run as they were encoded, comparisons and conditions fit together, and loads
  of lists undo the stores.

The full list of hazards, each at its line, is `hazards` in `PROJECT.json`.

## 2. Modules

| Module | Models |
|---|---|
| `PerfectSnapshot` | the promise of a snapshot: every backup a full copy |
| `Snapshot` | `snapshot.cpp`, for any number of snapshots on one emulator |
| `InjectionLoops` | one thread's recursion over the list of fault models; extends `Snapshot` with one snapshot per level |
| `InjectionLoopsProofs` | theorems about `Snapshot` and, from these, about `InjectionLoops` |
| `InjectionPool` | `simulate_faults` and its threads, each reduced to the outermost level |
| `InjectionPoolProofs` | theorems about `InjectionPool` |
| `FaultedProgram` | runs of a small program with faults: the hooks of simulator and tracer, end detection, `emulate` |
| `FaultTracer` | the simulator's way through its levels to a chain of faults, and `FaultTracer::verify` of that chain |
| `FaultTracerProofs` | theorems about `FaultTracer` and `FaultedProgram` |
| `HookedEmulator` | hook registry, `emulate`, `clock_cpu` |
| `HookedEmulatorProofs` | theorems about `HookedEmulator` |
| `SubsetChooser` | `SubsetChooser::advance`, loop by loop |
| `SubsetChooserProofs` | theorems about `SubsetChooser` |
| `SetInduction` | induction over numbers and recursion over lists, in the form the proofs can use |
| `StdAlgorithms` | `std::sort`, `std::unique`, `std::next_permutation` and the order of `std::map`, as libstdc++ performs them; the subsets a `SubsetChooser` hands out |
| `ModelLists` | `compute_model_combinations`, as operators |
| `ModelCombinations` | the sort of the models and the call of it, for all small inputs |
| `FaultCombination` | order, equality and inclusion of combinations, as operators |
| `KnownFaults` | which results of earlier lists are used by later ones, what they skip, and the final result; extends `ModelCombinations` and `FaultCombination` |
| `KnownFaultsProofs` | theorems about `ModelCombinations` and `KnownFaults`, and lemmas about the operators of `StdAlgorithms`, `ModelLists` and `FaultCombination` |
| `ArmFunctions` | `arm_functions.cpp`: arithmetic on words of four bytes of any width |
| `Thumb` | what all parts of the decoder share: fields, the record of an instruction, refusals, tests of the architecture |
| `Decoder16` | 16-bit encodings |
| `DecoderMultiple`, `DecoderData`, `DecoderControl`, `DecoderMemory`, `DecoderRegister` | 32-bit encodings: lists, pairs, exclusive and table accesses; data processing; branches and control; single loads and stores; operations on registers |
| `Decoder` | `decode_instruction` |
| `EmulatorState` | registers, PSR, memory and the IT block of an emulator, as operators on its state |
| `ExecutionData`, `ExecutionMemory`, `Execution` | `execute`: computations, loads and stores, all other instructions and the dispatch |
| `FaultModels` | the built-in fault models |
| `Processor` | `emulate` and `clock_cpu` on a program, with one built-in fault; composes decoder, execution and fault models |
| `ProcessorProofs` | theorems about `Processor`, all of decoding and execution |
| `*MC` | values of the constants for TLC |

Definitions named `...` and commented *Mutant* are plausible mistakes in the
definition that follows them. No behaviour uses them: each serves to show that
some property would notice (`mutants` in `PROJECT.json`).

### Snapshot

State: `ram` and `cpu` of the emulator; per snapshot the members of the class.
`Store` is a store of the emulated program with the hooks of all snapshots;
`Compute` an instruction without one; `Reset`, `Backup` and `Restore` are the
methods. `valid` (snapshots that may be restored) and `newer` (those backed up
after a snapshot's own backup) are auxiliary: only `Usable` reads them, the rule
the simulator follows by resetting a level's snapshot whenever the level is
entered. `InjectionLoops` checks that it does (`ObeysSnapshotContract`).
`data` starts as `Garbage`, because the buffer is `new u8[]`. Addresses and the
stack boundary are numbers modulo `WordSize`, so that `SP - 80` wraps as in C++.

`Snapshot` implements `PerfectSnapshot`, with the buffers of the usable snapshots
as their images.

### InjectionLoops

`depth` is the innermost call, `pc[l]` where level `l` is. A level goes through
`reset`, `first_backup`, for a transient model `collect`, then per index
`claim`, `replay`, `save`, `select`, and per fault `iterate`, `inject_restore`,
`inject`, its runs (`step`, `rest`, `again...`), the inner level (`called`) and
`revert`. `Emulate` lets the program make any step at each label that stands for
a call of `emulate`. `flash[a]` names the level whose fault is written at `a`;
`original[l]` is what the level read there before. Which faults exist, which are
redundant or inapplicable, and how a run ends are choices, so every path through
the code is taken whatever the fault models do. Not modelled: the exploitability
decision and the throw after a failed replay (see `NoCrash` in `InjectionPool`).

### InjectionPool

The fault-free run is a sequence of addresses, chosen at the start together with
the timeout, an ignored time range, ignored addresses and the kind of each
model list. Critical sections under `m_progress_mutex` are single actions;
everything else a thread does is on its own emulator. `now` is the time of a
thread's emulator, `saved` that of its snapshot (exactness of snapshots is what
`Snapshot` shows). `Inject` stands for all of a place's faults at once and
records the place; the runs behind it are in `InjectionLoops`.

### FaultedProgram, FaultTracer

The program has one register, one byte of memory and four kinds of instructions;
faults turn them into each other, as bit flips do. A *machine* is an emulator with
what its hooks refer to: the faults of the chain and the state of the
exploitability model, which counts the visits of one end address, as those of the
case studies do, and looks at the memory when there were enough. `Emulate` is
`emulate` by `Clock`, with the hooks of the one implementation or the other.

`FaultTracer` follows the simulator along one path: a level injects one fault
(`InjectInstruction`, `InjectRegister`, `InjectPermanent...`), runs to the end
(`tried`), and either stops there or repeats the fault (`Again...`) and calls the
next level. `place` is the level's snapshot. After every run `Verify` gives the
same chain to the tracer, not only after the exploitable ones as the driver does,
so that both verdicts are compared. Skipping of redundant faults and the order of
indices are elsewhere (`KnownFaults`, `InjectionPool`). `trace` is auxiliary: what a
machine has executed.

Simulator and tracer differ in two respects, both modelled, and the properties
are stated up to them:

* An end address visited before the last fault counts for the tracer only, since
  the simulator clones the exploitability model anew for each fault (`forgotten`).
* Under a permanent register fault the simulator leaves a value alone that is
  written in an ignored memory range (`simulate_register_fault.cpp:271`), whereas
  the tracer manipulates it (`fault_tracer.cpp:273`, `Written`). From such a write on
  (`LeftAlone`) the two runs may part, and so may their verdicts: then the tracer
  may refuse what the simulator has found.

An exploitability model that reads registers or the program counter could tell
more differences, because both evaluate it before the hooks that inject or
revert; the model here reads memory. One ignored range is a set of addresses
(`ignored`); its instructions are neither collected nor faulted, and the replay passes
over them.

### HookedEmulator

`phase` is the stage of `clock_cpu`, `pos` the callback about to be called.
The eight lists around memory and register accesses behave alike, one walked
before an access, one after; they are represented by `before_access` and
`after_access`, and `Execute` makes any number of accesses. Callbacks may stop,
remove any hook, or add a hook of another kind. Adding to the list being walked
is excluded: it would reallocate the vector under the loop.

### SubsetChooser

`state` is `m_state`, positions instead of iterators; `at` is the loop that
`advance()` is in. The caller is part of the model: `Emit` takes the subset and
calls again, as every caller does. The predicate is the one always passed, which
accepts every subset.

### ModelLists, ModelCombinations

A model is a record of its kind, duration and amount, and positions count from
one instead of zero. The loops that only collect into a `std::set` are set
comprehensions; `next_permutation` starts from the subset, not from the smallest
permutation, so that the order in which positions are listed matters. `id` is the
position `std::find` finds in the copy of the vector that the comparator captured.
The comparator is no strict weak order, which leaves `std::sort` undefined by the
standard; `StdSort` is the insertion sort libstdc++ uses for up to 16 elements.
For more than 16 models nothing is claimed.

### FaultCombination, KnownFaults

The outer loop of `simulate_faults`: `Sort` and `ComputeLists` are the steps of
`ModelCombinations`, after which `tried` and `exploitable` are chosen; `Prepare` is
`prepare_known_exploitable_faults`, `Simulate` the injection of one list with the
results of all threads in any order, `Aggregate` the final step. `Found` goes
through the levels of a list as the four `simulate_*` functions do, with their
rules for what may be injected after what: the next level starts one instruction
after a transient instruction fault and at the same time after a register fault;
a register is not faulted twice at one time, nor anything that a permanent fault
already holds; a permanent model repeated goes on from `recursion_data`.

`tried` is the set of the chains of faults that the levels would try if nothing were
redundant. The emulator decides that: a fault is passed over if its register is not
read, or still holds what a fault until overwrite of the chain has put there
(`simulate_register_fault.cpp:173`), if it is not applicable or changes nothing, if
its instruction is none or fails at once (`simulate_instruction_fault.cpp:199`), and
if no cycles are left; and after a transient instruction fault the inner levels are
not called if too few cycles are left (`:220`) or the repeated step does not end as
expected (`:226`). `ComputeLists` chooses the chains at which either happens freely
(`ineffective`, `stopped`), and `Reached` is what remains. `Complete` says that
redundancy loses nothing of that; it does not claim that the levels try everything
that could be exploitable, which with these tests they do not.
`exploitable` is an arbitrary choice of sets of faults that are tried, which stands
for the program: running it with the same faults always ends the same way
(`Snapshot` and `InjectionLoops` show that the emulator is brought back exactly).
A hash is the vector of faults it is made from. Results are sorted by a comparator
that is no strict weak order, and there may be more than 16: `Sortings` is then any
rearrangement. A chain has at most 16 faults (`MaxTotal`), so that its sorted faults
are those of the insertion sort.

### Thumb, Decoder...

A word to decode is a record of architecture, position in the IT block and the two
halfwords; the result is the record that the code fills, or just the return code
when an encoding is refused. The modules follow the tables of the code, one
operator per table or family of leaves. The order of tests is kept where two of
them refuse with different codes. Immediates are numbers; those that
`thumb_expand_imm` expands are marked (`expanded`) and expanded by the execution,
which is where the code expands the logical ones, too; that an arithmetic one can
be expanded is tested by the decoder (`Expandable`). `code_size`, which says that
four bytes are there, is tested by `ValidateAddress` before.

### ArmFunctions, EmulatorState, Execution...

The emulator is one record (`EmulatorState`), and an instruction an operator on
it, composed of the accesses the code makes in their order. An access after a
failed one does nothing, as in the code, so that an instruction that fails midway
leaves what it had done. Words have four bytes of `ByteWidth` bits: what the code
takes apart as bytes, halfwords and words is the same for any width, and bits
count from the top for the flags in PSR, which are a set of bit numbers. With the
8 bits of the code the definitions are those of the code, except that fields of
an encoding (a shift by up to 31, a bit field at up to 31) reach beyond a
narrower word. `BASEPRI` and the other special registers have no effect on
execution, in the code as here. `CCR` is always zero: nothing sets it. Shifts by
the width of a C++ type are undefined and modelled as processors do them.

### FaultModels, Processor

`FaultModels` has the iterations and the manipulation of each model; the
permanent and the transient instance of a model share them. A register is a set
of bits there. In `Processor` a behaviour is one run of `emulate` on one
*scenario*: a program, the registers it starts with, and what may be faulted.
`Clock` is `clock_cpu`, `Fetched` to `Committed`: `Decode`, `Execute`, and the
write of PSR when `m_psr_updated`. `FaultInstruction` and `FaultRegister` are
one injection as the simulator makes it, at any moment: the bytes of a decoded
instruction are replaced and put back after one instruction; a register is
written and, when the fault is transient, put back by a hook after the
instruction, if it was executed. Each makes a new call of `emulate`, which aligns
PC (`Resumed`). Not here: permanent faults and chains of faults, which
`InjectionLoops` and `FaultedProgram` have with open values, and hooks, which
`HookedEmulator` has. `past` is auxiliary.

## 3. Runs

| Run | Checks | Bounds and why they suffice |
|---|---|---|
| `snapshot` | `CoverInv`, `RestoreIsExact`, `ImplementsPerfect` | two snapshots, each of which may be restored when the other is newer or older; three bytes, stores of one and two bytes, and two CPU states whose boundaries lie between the second and third byte and, wrapped, above all: hulls grow at either end, leave a gap, overlap the boundary, and one address goes to either of them |
| `injection_loops` | `InjectedIntoSavedState`, `FlashHoldsFaultsInForce`, `HooksOfChain`, `ObeysSnapshotContract` | three levels (an outermost, a middle and an innermost one), all kinds and durations of models, two flash addresses so that levels may or may not collide, one byte of RAM |
| `injection_pool` | `InjectedInPlace`, `ClaimedOnce`, `TimeoutPerFault`, `AllIndicesInResults`, `NoCrash`, `Termination` | two threads; every run of up to four instructions over three addresses, up to two of them faultable; every timeout from one to one more than fits; two model lists, so that the counter and the results are used again: a permanent one first, which only leaves them used, then one of any kind. Programs that differ only in the names of addresses are taken once (`NamedInOrder`), which unlike a symmetry set is sound for `Termination` |
| `fault_tracer` | `VerdictsAgree`, `SameRun`, `SkippedOnlyIfNotExecuted` | all programs of three instructions, which can loop, fall out of the flash, and store before or after the end address; timeouts that cut such a loop at different places; all lists of up to two models, so that every kind of fault follows every other, at once or later; one or two visits to decide; no ignored address, or the middle one, so that a write is left alone before, between or after those that are not |
| `hooks` | `NoDeadCall`, `LiveHooksRegistered`, `StopNotLost`, `RegisteredHooksCalled`, `RemovalsCompleted` | three hooks, so that a list has an inner element to remove; two instructions per call of `emulate`, any number of calls |
| `subset_chooser` | `InRange`, `SubsetsProper`, `Ordered`, `AllEmitted`, `Termination` | up to six elements: three nested iterators roll over at once |
| `model_combinations` | `InstructionModelsFirst`, `AllWantedLists`, `LowerOrdersFirst` | four models of any kind, amounts up to two and four in total, every limit: instruction models at any place, permanent and other models mixed, a limit that cuts each part |
| `known_faults` | `Complete`, `KnownSortedBySize`, `NewHaveAllFaults`, `PairsMinimal` | lists of up to three models of all kinds, the shortest whose known results have two sizes; two exploitable sets, so that one may include the other, or one and a chain that is cut short before it or behind it (`MaxExploitable`, `MaxCuts`); at most 16 results in all (`MaxResults`), runs with more stop before the final sort, whose rearrangements TLC cannot enumerate, and are left to the proof; two instructions and two registers, so that faults may share a time or a register |
| `processor` | `DecodedAlike`, `Executable`, `PsrMirrored`, `BlockAsEncoded`, `ComparisonsDecide`, `StackInverse` | words of eight bits (`ByteWidth` 2), 32 bytes of RAM, runs of up to seven instructions. *Singles*: at least one encoding of every leaf of the decoder that is accepted, with every transient instruction fault on two cores, which leads to all neighbouring leaves and to the refusals, and with registers at the ends of their range. *Comparisons*: all conditions, over numbers around zero and around both changes of sign, in single and double words. *Blocks*: every condition and mask of IT, with either outcome. *FaultedBlocks*: every fault in the instructions of a block, in IT itself and in PSR. *Stacks*: lists with and without LR and PC, up and down, by 16- and 32-bit encodings |

`StraightSpec`, used by the passing run of the pool, restricts the programs to
those for which an address identifies the next instruction to fault: no
instruction that branches to itself, no ignored addresses, and an ignored time
range that reaches the end of the run, as `{end_time, -1}` in
`case_study_aes/src/main.cpp`. Without the restriction `InjectedInPlace` fails,
which `ignored_time` shows.

Fairness is assumed in `InjectionPool` and `SubsetChooser`. The latter is a
sequential loop, so weak fairness of its only step says that the computer does
not stop. In the former: weak fairness of every thread, that
is, the operating system schedules threads that can run. No action is fair on
its own within a thread, and a thread has at most one enabled action unless it is
at a choice. Runs of the emulator end because every call of `emulate` has a
cycle limit.

`TypeOK` is proved where the proofs need it (`Snapshot`); elsewhere types are a
part of the proved invariants.

A path of `FaultTracer` ends when its last chain is verified, so deadlock is not
checked in `fault_tracer`. Its properties hold only with their conditions:
without `~forgotten` the two verdicts may differ; so they may where the simulator
leaves a value alone, and there the runs agree up to that write only; and for a
fault on an end address the inner levels may be skipped although the fault executed,
because the repetition counts the visit a second time
(`simulate_instruction_fault.cpp:226`, no new clone of the model).

`processor` stops at the end of a run or at an error, so deadlock is not checked
there either. Its properties have these conditions. `DecodedAlike` allows two
differences: the mask of MSR, and flags that are set outside a block only.
`Executable` names what the decoder accepts and `execute` has no case for:
YIELD, WFE, WFI, BKPT and SVC; and logical immediates, which are refused when they
are expanded. `BlockAsEncoded` does not count hints, which leave the IT state where
it is, and leaves out blocks with MSR to PSR or a fault in PSR, which write an
older IT state. `StackInverse` leaves out LDM with PC and write-back, which
leaves the base four bytes short.

Three runs show where the code and its comments disagree:

* `ignored_time`: `emulate(next_address, ...)` at
  `armory/src/simulate_instruction_fault.cpp:118` stops at the first arrival. If
  the instruction also lies in an ignored time range that comes first, the fault
  is injected there, against `context.h:75`.
* `hooks_copy`: the copy constructor of `Emulator` does not initialise the
  `m_has_*` flags, so the user's hooks that `fault_simulator.h:48` allows may
  never be called in the threads' copies. (The simulator's own hooks set the
  flags when they are added.)
* `known_repeated`: `operator<` of a fault ignores the model and `operator==` does
  not. With two models that are exploitable at the same place the sorted results
  alternate, `std::unique` finds no equal neighbours, and the result holds every
  combination three times; "filter out duplicates" (`fault_simulator.cpp:143`).

Three more disagreements follow from the same modules; each is one change to the
configuration of a run above, and none is kept as a run of its own:

* `LiveHooksRegistered` fails under `ClearSpec`: `clear_hooks` restarts the ids
  but keeps queued removals, so a hook added afterwards is removed in place of
  the old one; `emulator.h:151` calls the ids unique. Under `Spec` hooks are
  cleared only while no removal is queued.
* `EachSetOfFaultsOnce` fails for the inputs `RegisterTwice`: an order-two
  register model, as in the case studies' higher order experiments, finds two
  registers faulted at one time in both orders. `operator==` compares the order
  in which faults were added, so both are kept, although they print alike.
* `ResultMinimal` fails for `OnceAndTwice`: with three models, results for the
  last two together are not consulted, so that a combination that includes one
  of them is kept, against `fault_combination.h:23`. For lists of two it holds
  (`PairsMinimal`).

## 4. Proofs

`InjectionLoopsProofs` about `Snapshot`, for every number of snapshots, RAM size, store sizes, stack
slack and CPU states, from `ConstantAssumption` only (among it, that the RAM
ends below the word size, so that the end of a hull does not wrap):

* `TypeCorrect`: `Spec => []TypeOK`.
* `Covered`: `Spec => []CoverInv`. That RAM differs from a usable snapshot only
  inside its hulls (`DirtyCover`) is not inductive: a restore of another
  snapshot `t` overwrites RAM with `t`'s buffer unseen. If `t` is newer it is
  enough that the two buffers differ only inside the hulls of the older one
  (`NewerCover`); if `t` is older, the restored snapshot stops being usable; and
  one of the two is the case for any pair (`BackupOrder`).
* `RestoreExact`: `Spec => RestoreIsExact`, from `Covered`.
* `Refinement`: `Spec => ImplementsPerfect`: initial states map to initial
  states; `Store` and `Compute` to `Run`, the methods to their namesakes.

`SubsetChooserProofs`, for containers and subsets of any size, from
`SizeAssumption` only:

* `StaysInRange`: `Spec => []InRange`. The invariant adds that the iterators are
  always strictly increasing; each way in which `advance()` changes its vector is
  an instance of one kind of move (`MovesOn`), which keeps both.
* `ProperSubsets`: `Spec => []SubsetsProper`, from the same invariant.
* `NoneTwice`: `Spec => []Ordered`. The invariant adds `Ahead`: the vector, as a
  beginning, comes after the subset handed out last, or still is that subset.
  Every move goes on in this order (`MoveGoesOn`).
* `NoneLeftOut`: `Spec => []AllEmitted`. The invariant adds `NoneLost`: every
  subset that was not handed out begins with the vector or comes after it. A move
  passes only what begins with the vector it leaves; when `is_n_from` says that
  too few elements are left, nothing does, because behind an element of a subset
  there is room for the others (`RoomBehind`, by induction).

`InjectionLoopsProofs` about `InjectionLoops`, for any number of nested models, any code, and any
snapshots as above, from `LevelsAssumption` and `ConstantAssumption`:

* `FlashRepaired`: `LoopsSpec => []FlashHoldsFaultsInForce`. The invariant adds
  where each level is (`Nesting`: the outer ones wait in their call, the inner ones
  have not begun), that permanent models are the outer ones (`KindInv`), and that a
  level which chose an address found the original instruction there and no
  permanent fault of an outer level (`FaultChosen`).
* `HooksRemoved`: `LoopsSpec => []HooksOfChain`, from the same.
* `SnapshotContract`: `LoopsSpec => ObeysSnapshotContract`: what the loops do to their
  snapshots is a behaviour of `Snapshot`. A restore needs a usable snapshot:
  between its first backup and its return a level's snapshot is valid, and only
  those of inner levels are newer (`SavedInv`).
* `FullCopies`: by that refinement and the theorems about `Snapshot`, the
  levels might as well keep full copies.
* `SameStateForAllFaults`: `LoopsSpec => []InjectedIntoSavedState`, from the exactness
  of restores: all the faults of an index are injected into what the level saved.

`InjectionPoolProofs`, from `PoolAssumption` only, for any number of threads,
model lists and lengths of programs:

* `EveryIndexOnce`: `Spec => []ClaimedOnce`, for all programs (not only the straight
  ones). The invariant (`ClaimInv`) adds that claimed indices not yet injected lie
  below the counter, are distinct, and are not among those injected.
* `WholeTimeout`: `Spec => []TimeoutPerFault`, for all programs. `TimeInv` relates
  the cycles that are left to the time of the snapshot and of the emulator, in each
  label; it does not depend on where a replay stops.
* `RightPlace`: `StraightSpec => []InjectedInPlace`. `PlaceInv` says how far a thread
  has come: its snapshot is at the place of the entry of its list that it
  reached, and from there the next arrival at the address of the entry it replays
  to is the entry's own. In a straight program the places are an interval of the
  run; the number of one and the position in the list determine each other.
* `NeverThrows`: `StraightSpec => []NoCrash`, from the same.
* `ResultsComplete`: `StraightSpec => []AllIndicesInResults`: what was injected is what
  the threads have found and not merged, and what they have merged.

`HookedEmulatorProofs`, for any number of hooks and instructions per call, from
the assumption on these numbers only:

* `RegistryConsistent`: `Spec => []HookIndInv`, the invariant behind the others. The
  cached flags, the map from ids to types and the ids agree with the lists
  (`ListsInv`); the hooks in use are those registered under an id that is not queued
  (`LiveInv`); a hook removed while nothing ran is not registered once a call has
  begun (`DeadInv`); the hooks before the position of a walk were called (`WalkInv`).
* `NeverCalledAfterRemoval`, `StaysRegistered`: `[]NoDeadCall`,
  `[]LiveHooksRegistered`.
* `CalledWhileRegistered`: `Spec => RegisteredHooksCalled`: a walk ends only past
  the end of its list, which nothing changes during the walk.
* `RemovalsDone`: `Spec => RemovalsCompleted`.
* `StopsAreKept`: `Spec => []StopNotLost`.

`SetInduction` has induction over the numbers and over an interval, stated for
sets of numbers, and that a function defined by recursion on the index of a list
has the values its definition says. With it is proved what `Without`, the erasure
of hooks from a list, leaves over (`WithoutElements`).

`ProcessorProofs`, for every program, every fault and bytes of any width, from
`ByteWidthAssumption` and `ProgramsAssumption` (a program is a sequence of 16-bit
numbers):

* `FlagsMirrored`: `Spec => []PsrMirrored`. Within an instruction the flags in `psr`
  and register PSR differ; the proof is that nothing changes `psr` without setting
  `updated`, nor register PSR without `psr` (`Honest`). There is one lemma per access
  and per instruction, and an induction over the loop of the instructions that
  load or store lists (`ListHonest`); `CommittedMirrored` is the write of PSR at the
  end of `clock_cpu`. What the instructions compute does not matter.
* `BlocksRun`: `Spec => []BlockAsEncoded`. The property looks at PSR and at what was
  executed only; the invariant behind it (`BlockInv`) says that the conditions still
  to come in the block are exactly those that the eight bits of the IT state encode
  (`RestInv`). It needs three other parts. Blocks were opened by an IT with a mask
  (`OpenedInv`): this is up to the decoder, which must refuse an empty mask and, so
  that nothing decides twice, IT, CBZ, CBNZ and CPS inside a block. What the decoder
  accepts is therefore proved for any two halfwords, one lemma per table
  (`DecodedAllowed`). The bytes in the flash stay numbers, the instruction fault
  included (`FaultInv`). And the two copies of the IT state agree (`MirrorInv`),
  since execution reads `psr` and faults work on register PSR. For the step,
  `ExecuteAfter` says for each instruction what becomes of the IT state: hints leave
  it, IT sets it, MSR is left out, all others pop it, executed or not. `RestOfBlock` is
  the arithmetic of `pop_IT_condition`: it takes the first condition off the block and
  leaves all others in order; `StepAppend` says the same of the list of what was
  executed. Faults in the flash and in other registers leave both sides alone
  (`FaultBlock`), and after a fault in PSR nothing is said.
* `DecodedIsExecutable`: `Spec => []Executable`. The decoder and `execute` are 1800 lines
  apart, and agree on nothing but the members of an instruction. `Runnable` is that
  agreement: which mnemonics there are, by which of their members a register is
  written, so that this member is set and names one of the 16 registers; that
  a base which is written back is there; that RRX has its amount, that no
  condition is 15, and that no IT state leads to 15 later (`ItSound`). What the
  decoder accepts is so, one lemma per table again (`DecodedRunnable`), but now for
  halfwords, because a register field of a number of more bits would name no
  register: hence the flash holds bytes (`FaultInv`), also while an instruction fault
  is in place. Whatever is so can be executed, from any state and with any outcome
  of the accesses (`ExecuteFits`): the lemmas about each instruction say which return
  codes are left. Where a condition comes from the IT state, 15 would come up in the
  middle of a block, by the bits that `pop_IT_condition` moves; that it does not is an
  invariant of its own (`ItInv`), kept by pops (`PoppedSound`), by IT and by MSR, and
  lost at a fault in PSR.
* `WordsDecodeAlike`: `Spec => []DecodedAlike`, from `DecodeAlike`, which says it for any
  two halfwords. Two decoders that differ in the core, or in the place in an IT
  block, are followed through the tables side by side (`Alike`, one lemma per
  operator). Most leaves ask for neither and are the same on both sides. Those that
  do must ask in the right direction: what needs ARMv7-M or the end of a block is
  refused by the first decoder or accepted by both (`PairGrows`). Two leaves need more:
  the encodings that CBZ takes in ARMv7-M are no other instruction in ARMv6-M
  (`MiscellaneousAlike`), and what MSR accepts in ARMv6-M has the one mask that ARMv7-M
  accepts for every register (`MsrAlike`).

* `ComparisonsAreDecided`: `Spec /\ []RegisterWords => []ComparisonsDecide`. That the
  flags of `AddWithCarry` decide the orders is arithmetic of two's complement in words
  of any width (`WordsCompare`, and `DoublesCompare` for CMP and SBCS); that a branch
  reads those flags is not: between the comparison and the branch they pass through
  `psr` and register PSR, the branch is fetched anew, and a fault may replace
  instructions or put them back. The invariant (`CompareInv`) says that the
  flags in `psr` are those of the comparison that was executed last
  (`JustCompared`), unless a register fault is in force.

`FaultTracerProofs`, for every program on a flash of any size, every list of models
(so chains of any length), every ignored address, every timeout and every start of the
ignored time, from
`SizeAssumption`, `TimeoutAssumption` and `ListsAssumption` (permanent models come
first, which `ModelCombinations` shows, and instruction faults have no type "until
overwrite"):

* `PlacesOnRun`: `Spec => []IInv`. Simulator and tracer are not compared with each
  other but both with a third run, the *ideal run* of a chain (`IsIdeal`): a function
  of time in which every fault is in force exactly when it should be, without hooks,
  snapshots or an end; it writes as the simulator does. One cycle of the simulator, whose emulator was
  manipulated before the run and reverts afterwards, is a step of it (`ClockCases`), and
  so is one cycle of the tracer, which does both before the fetch (`TraceClock`),
  unless it writes a value that the simulator leaves alone; then the tracer has
  parted from the ideal run, and what it has executed before stays as it is (`Astray`,
  `Parted`).
  A new fault changes the ideal run of its chain only from its own time on
  (`ChainGrows`); so whatever a level has saved, replayed or repeated is on the run
  of the longer chain as well (`NewPlace`). The invariant says that the level's
  emulator is on the run of the faults in its chain, with flash and register as they
  must be at that time (`OnRun`), that no fault of one cycle is left to repair
  (`Settled`), that the cycles left are what the timeout leaves, and that a
  run tried has ended where the ideal run does (`Ended`): at the timeout, outside
  the flash, or at the deciding visit of the end address.
* `RunRepeated`, `VerdictRepeated`: `Spec => []SameRun`, `Spec => []VerdictsAgree`: the
  ideal run has one end (`EndUnique`), and where the tracer has parted from it, the
  write that was left alone is in the run of the simulator, too (`PartedAfter`).
* `SkipJustified`: `Spec => []SkippedOnlyIfNotExecuted`: the one cycle of an instruction
  fault is complete, or nothing is executed, whatever exploitability model is there
  (`StruckCycle`).

The existence of the ideal run and of the sequences of machines behind `Emulate` and
`Replay` are proved by induction over an interval. For these proofs `Emulate` and
`Replay` are recursive functions of the number of cycles and instructions.

`KnownFaultsProofs`, for any models, amounts, limit, length of the run, number of
registers, any chains that are cut short and any sets of faults that are exploitable,
from `BoundAssumption` (of which only that the bounds are numbers is used: that at
most 16 models are sorted, and at most 16 faults of a chain, is what makes `StdSort`
the sort of the code) and `FaultsAssumption`:

* `SortIsByKind`: `Spec => []InstructionModelsFirst`. While the insertion sort has
  taken the first `n` models, they are the instruction models among them followed by
  the register models among them, each in the order of the caller (`SortedInParts`):
  the comparator never sees the models in another arrangement, so that its
  inconsistency does no harm (`InsertedBetween`).
* `ListsAreTheWanted`: `Spec => []AllWantedLists`. What the code builds from ids is
  compared with the rule that says which lists are wanted. The ids are the models, each
  as often as its amount (`IdsLaidOut`); their subsets are the nondecreasing lists
  of one kind (`SubsetsAre`, which needs a placement of each list among the ids); as
  `next_permutation` goes on from the sorted subset, it misses no permutation
  (`SortedLeast`, `ChoiceIsPermutation`), and a wanted list is in one way permanent
  models before transient ones (`WantedSplits`). `std::set` and the final sort are
  enumerations of a finite set in a strict order (`EnumerationEnumerates`).
* `LowerOrdersComeFirst`: `Spec => []LowerOrdersFirst`: both lists are wanted if
  the longer one is (`LowerOrdersWanted`), and shorter.
* `ListsAreComputed`: `FaultsSpec => Spec`, so that the three hold of the whole, too.
* `FaultsAlways`: `FaultsSpec => []FaultsInv`. `Complete` is about the final result,
  but whether a fault may be skipped depends on what was memorized for earlier
  lists. `GoodList` says of every list that was injected: the two lists it
  consulted had been injected; what is memorized is sorted by size, exploitable,
  each a chain of some list and, when it was found, not redundant; the results for
  every beginning of the list are among it; what is new has a fault of each model;
  and every exploitable chain of the list that is among `tried` includes one of them
  (`CoversList`). One injection keeps this by induction over its levels: a chain of
  `tried` that includes nothing known and nothing found is reached at its level
  (`LevelCovers`), since with a chain all its beginnings are tried (`Closed`, and
  `ReachedClosed`: cutting chains short leaves it so). The search of
  `is_fault_redundant`, which hashes and stops at the first larger combination,
  finds all that is included just because the known ones are sorted
  (`RedundantIf`). The order in which threads add results does not matter, since
  `remove_duplicates` keeps every combination even though it sorts by an order that
  does not fit its equality, and however it arranges more than 16
  (`WithoutDuplicatesKeeps`, `RearrangementKeeps`).
* `NothingIsLost`, `KnownStaySorted`, `NewFaultsAreFull`: `FaultsSpec => []Complete`,
  `[]KnownSortedBySize`, `[]NewHaveAllFaults`, from that invariant.
* `PairsAreMinimal`: `FaultsSpec => []PairsMinimal`: a result has an origin, the list
  for which it was found; for two faults, each of the two parts belongs to a list
  that was consulted (`PairsApart`). For three models there is a pair that
  belongs to neither, and the property fails.

Model-checked only: liveness under fairness (`Termination`), which is out of the
prover's reach; that results are without duplicates, which fails; and of
`Processor`, `StackInverse`, which needs what memory returns of what was stored in it,
and that registers hold words (`RegisterWords`), the condition of
`ComparisonsAreDecided`.

## 5. Where the emulator departs from the architecture

No document of the repository promises the following, so that none is a finding,
but who reads results of the simulator should know them. Each is in the model as
it is in the code.

IT blocks and PSR:

* Hints (NOP, DSB, ..., PLD) do not advance the IT state. A skipped instruction is
  a NOP: after an instruction skip inside a block, the conditions of the block
  apply to the instructions one further down, and the block reaches one
  instruction further.
* MSR to PSR reads register PSR, which is brought up to date only after the
  instruction, and so writes back the IT state from before itself.
* The value that a transient fault in PSR puts back is all of PSR: it also undoes
  the flags the instruction set and its step in the block.
* The IT bits in PSR are laid out differently (consistently so), the GE bits are
  never kept, and MOVS (`0x0000`-`0x003f`) sets flags also in a block.

Branches:

* MOV, LDR to PC, TBB and TBH are followed by the increment of PC. LDR to PC keeps
  bit 0, which the next call of `emulate` aligns away, and PC 1 is the end address
  of `emulate(max_instructions)`. MOV to PC is accepted in the middle of a block.
* BLX of LR reads its target after LR was written.
* `bx_write_PC` overrides an error of the load before it with a hard fault.

Data:

* ASR of a negative number by more than 32 gives 1; SDIV and UDIV round to the
  nearest; UMLAL extends the signs of its operands; SSAT extends its result from
  bit 4 whatever its width, and SSAT and USAT always shift left; SBFX of 32 bits
  shifts by the width of the type.
* LDM with PC and write-back leaves the base 4 short; LDMDB writes back only if
  the list, as a number, exceeds the number of the base; a 32-bit POP accepts an
  empty list; LDRT and its relatives ignore their offset; the exclusive monitor starts at
  address 0 and is never cleared; errors midway leave partial updates, and a
  failing instruction counts as time.

Decoder:

* YIELD, WFE, WFI, BKPT and SVC are accepted and end the run as unsupported; the
  32-bit NOP of a skip is unsupported on ARMv6-M, which has four-byte branches
  to skip; BIC, ORR and ORN with an immediate accept PC as destination, as does
  MRS; SMLAL and UMLAL accept equal destinations; a wide ADR does not align PC.

## 6. Not modelled

* Disassembler, tables of names, printing, files, scripts, firmware: text and
  input/output, no state that the simulator reads back.
* The driver keeps nothing between two results; that simulator and tracer agree,
  which it asserts, is `VerdictsAgree`. The case studies configure the simulator.
* `run_arm_code`, `qemu-lm3s`, the copies of `termcolor.h` and the CMSIS headers are
  vendored or firmware.
* Within the modelled parts: progress printing and its counter, several end
  addresses, allocation failures, the case `hardware_concurrency() == 0`, accesses
  with hooks inside an instruction (`HookedEmulator` has any number of them between
  fetch and execute callbacks), the member values of an instruction whose
  encoding is refused.

## 7. Plan

What memory returns of what was stored in it, for words of any width: with it and the
types of registers, `StackInverse` can be proved.
