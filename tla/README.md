# TaMaRa in TLA+

TaMaRa is a Yosys plugin: the command `tamara_tmr` rewrites a synthesised
netlist so that its logic exists three times and majority voters mask the upset
of any one copy. This directory models the command, checks the models with TLC
on small netlists and proves some of their properties with TLAPS for netlists
and voter counts of any size.

## 1. Inventory

| Part | Code | State it keeps | Operations |
|---|---|---|---|
| Command `tamara_tmr` | `src/tamara_tmr_pass.cpp` | `errorSink`, which outlives a command but is reset by the next; the queue of successor cones; the analysis `RTLILConnections`, made once | find the error sink, ignore memories, analyse, loop over output ports, loop over successors, finalise |
| `LogicCone` | `src/logic_graph.cpp`, `include/tamara/logic_graph.hpp` | `outputNode`, `frontier`, `cone`, `inputNodes`, `voterCutPoint`, `id`; static `g_cone_ID`, `g_explored_successors`, which live as long as Yosys | `search`, `replicate`, `wire` (`insertVoter`), `buildSuccessors` |
| `TMRGraphNode` | same | the RTLIL object, its two replicas | `replicate`, `computeNeighbours` |
| `VoterBuilder` | `src/voter_builder.cpp` | `size`, `reductions`; one builder per command | `build`, `finalise` |
| Voter circuit | `src/voter_builder.cpp`, `src/voter.v` | none | thirteen gates per bit |
| `FixWalkerManager`, `MultiDriverFixer` | `src/fix_walker.cpp` | its own analysis, the set of processed objects | `execute`, `processWire`, `rewire`, `reconnect` |
| Netlist analysis | `src/util.cpp` | none | `analyseAll`, `sigSpecToWire`, `isDFF`, `rtlilInverseLookup` |
| Hash containers | `include/ankerl/unordered_dense.hpp` (vendored) | `m_values`, `m_buckets`, `m_shifts` | insert, find, erase one, a range or by predicate, replace, rehash, reserve, copy, move |
| Command `tamara_debug` | `src/tamara_debug.cpp` | none | generate a voter, replicate a NOT gate, print counts |
| Fault injection tests | `tests/formal/fault/*` | two netlists, gold and gate | inject a fault, compare |
| Attributes | on RTLIL objects | `tamara_cone`, `tamara_original`, `tamara_ignore`, `tamara_error_sink` | read and set by all of the above |

The parts interact through the netlist, which everybody changes, and through
two analyses of it: the command's, which is computed once and read by all cones
although the netlist has changed since, and the fixer's, computed once per cone.
A command is a sequential call, so there are no threads. What makes it hard:

* order: neighbours are visited in the order in which a hash set got them, wires
  and cells in the order of the Yosys module;
* graphs: reconvergence and feedback, overlapping cones, ports read internally;
* stale reads: both analyses describe an earlier netlist, and the static members
  of `LogicCone` an earlier command;
* order of rewiring: one port is ripped up to three times, and only one order
  leaves every voter input with its driver;
* loops through flip-flops, which must not go on for ever;
* boundaries: no voters, one voter, an empty cone, a wire with other than three
  drivers and readers, a hash table with all of its buckets in use;
* the result: whether the netlist withstands an upset depends on everything
  that was done to it, and shows only when it is clocked.

What makes each part correct:

* search: exactly the elements between the root and its terminals, each once;
  the cut point is a nearest cell; it ends;
* replication: exactly two replicas of an object, by the first cone it is in;
* wiring: a voter is on the three copies of one cell and alone drives what it
  drives; afterwards no net is undriven or driven twice and the copies share
  nothing;
* successors: each node at most once, so the command ends, and each cone an id
  of its own, also across commands;
* the finished netlist: under any single upset per cycle it cannot be told from
  the fault-free design, and the error sink is raised exactly then;
* voters: one upset is masked, the error sink is raised exactly on disagreement,
  and voters generated one after the other share nothing;
* hash table: a list of distinct keys in the order of insertion; lookups are
  exact after any operations, and end.

`PROJECT.json` lists every component, also those not modelled, and under
`hazards` the lines where these things can go wrong.

## 2. Modules

| Module | Models | Correspondence |
|---|---|---|
| `LogicCone` | what a cone is | abstract: one step `Extract` yields the least set closed under "what lies behind" up to the terminals, with a nearest cell as cut point |
| `ConeSearch` | `LogicCone::search` | one step per turn of the `while` loop: `ConsiderRoot`, `ConsiderElement`, `ConsiderTerminal`; the members of `LogicCone` are the variables of the same names; pushing order is free |
| `Voter` | `build` (local), `voter.v` | `Gates`, gate by gate; `ReferenceOut`, `ReferenceErr` |
| `VoterBuilder` | class `VoterBuilder` | `StartBuild`, `VoteBit` (one loop turn), `Reduce`; `StartFinalise`, `InitialOr`, `OrTree`, `LinkSink`; `Exercise` then gives every copy of every bit any value |
| `Netlist` | RTLIL as far as it matters, `src/util.cpp` | cells with input and output signals, wires, connections; signals are sequences of bits; `AnalyseConnections`, `AnalyseSignals`, `AnalyseCellOutputs`, `InverseLookup`; `Net`, `FanIn` are the meaning of a netlist, with `connect` symmetric as in Yosys' `SigMap` |
| `FixWalker` | `MultiDriverFixer` | `Candidates`, `CanReconnect`, `Reconnect` |
| `TmrPass` | the command and the rest of `LogicCone` | composes `ConeSearch`, `FixWalker` and `Netlist`; one action per step of the two loops and one per way of giving up |
| `TmrSession` | several commands in a process | `Command` is a step of `TmrPass`; `Rerun` loads another design and calls the command again: what is local to `execute` is reset, what is static is not |
| `Circuit` | what a netlist computes | abstract: flip-flops take over their inputs at every cycle, outputs follow; a netlist without faults (gold) |
| `Upsets` | the fault injection tests | composes `TmrPass` and `Circuit`: once the command is done its netlist (gate) is clocked, in each cycle with any inputs and at most one cell's output flipped |
| `DebugCommand` | `tamara_debug` | one action per task; `mkvoter` composes with the steps of `VoterBuilder` |
| `DenseSet` | what a hash set or map promises | abstract: a list of distinct keys, in insertion order but for erasures |
| `HashTable` | `ankerl::unordered_dense::detail::table` | one action per modifying member function; the loops over buckets are the least distance at which they stop |
| `ConeSearchProofs`, `VoterBuilderProofs`, `DebugCommandProofs`, `HashTableProofs` | | theorems about the module of that name |
| `TmrPassProofs`, `TmrVoterProofs`, `TmrSessionProofs` | | theorems about `TmrPass` (pairs of replicas; voters) and `TmrSession` |
| `SequenceLemmas` | | what the proofs need of queues, lists and numbers |
| `SampleDesigns` | netlists, among them those of `tests/verilog` | |
| `MCConeSearch`, `MCVoterBuilder`, `MCTmrPass`, `MCTmrSession`, `MCUpsets`, `MCHashTable` | | instances for TLC |

Abstractions. A name is a sequence, so that a replica's name holds its original,
its number and its cone, as the string in the code does. A voter is a single
cell in `TmrPass`; its gates and error reductions are in `VoterBuilder`, and
`Circuit` gives the cell the outputs of `Gates`. An error wire is the set of voter
bits it ORs together. `finalise` is one OR cell in `TmrPass`. `log_error` and
`log_assert` lead to stage `failed`, and what the failing step had changed by then
is dropped, as Yosys stops. Wires whose fixing is not called for are passed over
without a step. `finalise` calls `module->connect` with the operands in either
order; a connection identifies its two sides, so the order does not show.
`buildSuccessors` may list what it finds in any order: as `inputNodes` holds one
node at most, the order never shows.

In `Circuit` a gate is the negated parity of its inputs: what it really computes
does not matter to the transformation, and parity lets no fault be hidden by the
gates that read it. An upset lasts one cycle. Upset cells are those `mutate` may
choose in the tests: all but voters, the error OR and memories, which TaMaRa
ignores. The three copies of a flip-flop come up with one value, as after reset.

`NOTNULL` and `log_assert` on what the callers always pass (a module, wires, fresh
cones) are left out. `AnalyseConnections` takes all cells where the code walks
the selected ones: the command is modelled with everything selected, and with a
top module, without which it ends at once.

In `HashTable` the hash is any function into a small set of values: two that
collide in every table, one that shares a home with them in small tables only,
and one that has the last bucket for its home and wraps around. Mapped values
move with their keys and are left out. A bucket's distance has no bound in the model and 24 bits in
the code. It is at most the number of buckets, so the two agree for tables of up
to 2^23 buckets, and the theorems speak of the code up to there.

Mutated definitions stand before the definition they vary, marked `Mutant`. They
are no part of the specifications: each shows that a property notices one
plausible mistake.

## 3. What is checked

| Run | Instance | Result |
|---|---|---|
| `search` | all netlists over an input, an output, a wire, a gate, a flip-flop, up to two objects behind each | pass: exactness, single visits, nearest cut point, the order of the queue, the inductive invariant of the proofs, termination, `ConeSearch` implements `LogicCone` |
| `voters` | calls of width 1 to 3, four bits in all, then all values of the copies | pass: masking, exact reporting, the OR chain; `finalise` ends with the sink linked, or at its `NOTNULL` exactly when there was no voter |
| `pass` | any two of twenty-six designs, one after the other, among them the tests `not_tmr`, `not_slice`, `not_swizzle_high`, `cones_min`, `not_dff_tmr`, `dff_tmr`, `recurrent_dff`, and those on which the command gives up | pass, in every step of both commands: `ReplicaPairs`, `FirstConeWins`, `OriginalsKeepInputs`, `VoterOnTriple`; across the commands: `OwnObjects`, `ConeIDsUnique`, `OneConePerSuccessor`, `EveryRunEnds` |
| `trees` | every arrangement of three gates that are read once, two outputs, a memory, a constant output bit, flip-flops fed by ports | pass: the command completes (`NeverGivesUp`), so that what is said of the finished netlist is said of all of them; on that netlist `CheckPasses` (what `check -assert` demands), `CopiesIndependent`, `OutputsVoted`; and clocked under upsets: `SinkReports`, and `ImplementsDesign`, that it implements `Circuit` with the original design |
| `hash_table` | four keys, four hash values, four to sixteen buckets, all operations | pass: `LookupExact`, `LoopsAgree`, `IndexIsBijective`, `RobinHoodOrder`, `BulkOperationsExact`; `HashTable` implements `DenseSet` |
| `hash_table_full` | five keys, at most four buckets | pass: with all buckets in use `InsertionEnds`, and `HashTable` implements `DenseSet` |
| `debug` | any sequence of tasks, up to three voters of up to four bits | pass: `VotersComplete` |
| `terminals` | as `search` | violated: only the last terminal becomes an input node, where the header speaks of all |
| `session_again` | the test `cones_min`, twice | violated: the second command stops at the flip-flop the first explored, where the header says the search continues |
| `cones_min` | the test of that name | violated: wires without a driver behind the second cone |
| `shared_output` | `o = !a; p = !o` | violated: `log_assert(replicas.size() == 2)` fails |
| `concatenated` | a gate whose two-bit input lies on an input port and on a wire | violated: `UpsetMasked`; the gate behind the wire is not replicated |

`trees`, the last three violated runs and the first three configurations below
belong together: the finished netlist is right for the designs of `trees`, and each
of the others changes one thing about them: a flip-flop between two cones, an
output read by another, a signal of several chunks, an output with several
drivers, a gate read twice, a flip-flop directly on an output. The thesis lists the
second cone's wiring and outputs with several drivers under known bugs
(`conclusion.typ`). Where a hazard bites only in such a design, `PROJECT.json` names
the run or configuration that shows it. Of the commands that end early,
`EveryRunEnds` says only that they end; `NeverGivesUp` says that those of `trees` do
not.

Six more configurations show disagreements. Each is run by hand with
`tlc -config <cfg> <module>` and ends in a violation:

| Configuration, module | Disagreement |
|---|---|
| `TmrPassSlice.cfg`, `MCTmrPass` | `CheckPasses`, the test `not_slice`: an output port with a gate per bit gets one voter, the other bit is driven three times (a known bug of the thesis) |
| `TmrPassFanOut.cfg`, `MCTmrPass` | `CheckPasses`: the wire of a gate that two others read has six readers, is not fixed and is driven three times |
| `UpsetsRegister.cfg`, `MCUpsets` | `UpsetMasked`: a flip-flop between an input and an output port has only empty cones and is not replicated |
| `ConeSearchCutPoint.cfg`, `MCConeSearch` | a flip-flop becomes cut point, where the thesis excludes terminals |
| `VoterBuilderEmpty.cfg`, `MCVoterBuilder` | `finalise` without any `build` stops with an error |
| `DebugCommandListed.cfg`, `DebugCommand` | `tamara_debug` lists a task it does not know, and one that always fails |

Bounds. Five objects are enough for reconvergence, feedback through gates,
ports read internally, a flip-flop that feeds itself and every kind of node at
every distance; the fan-in of two gives the search a choice of order. Three
reductions reach both turns of the OR chain, widths one and two both kinds of
reduction, four bits several of each. The designs of `TmrPass` have up to three
gates and two flip-flops: every action fires. `CannotRewire` does on `Aliases`, a
netlist on which `opt_clean` has not been run, and on `ConcatenatedGates`, where
the new wire would be narrower than the port. Two commands suffice for what one
leaves to the next: it keeps nothing but names and counters. Netlists are
clocked without a bound on cycles; their states are finite. Tables of four to
sixteen buckets grow twice and shrink, four keys let a bucket move over several
others and over the end of the array; four buckets and five keys fill a table
that can grow no more.

Fairness is `WF_vars(Next)` in `ConeSearch` and `TmrPass`: both are loops of one
sequential call, which goes on while it can. In `TmrSession` it is on the steps of
a command, not on `Rerun`, as nobody need call a second; in `VoterBuilder` on the
steps inside a call. `Upsets`, `DebugCommand` and `HashTable` make no liveness
claims and assume none. Commands end, so only the runs of `HashTable`,
whose operations are always possible, check deadlock.

## 4. What is proved

**The search** (`ConeSearchProofs`), for netlists of any finite size
(`ObjectAssumption`, `NetlistAssumption`): `TypeCorrect`, `SearchFindsTheCone`
(`SearchExact`), `SearchConsidersOnce` (`ConsideredOnce`),
`SearchKeepsLastTerminal` (`LastTerminalOnly`), `SearchStaysInCone` (`Sound`),
`SearchForgetsNothing` (`Accounted`). `SearchExact` is not inductive: it says
nothing before the queue is empty. The inductive invariant `SearchInv` adds
`Sound`, that what was visited lies in every set closed under the search, and
`Accounted`, that what was visited is queued, or in the cone with all it reads
visited, or a terminal. With an empty queue the visited objects are then closed
themselves, and so the least closed set. One step per action, one lemma for what
pushing does to the queue.

Then the order of the search: `CutPointIsANearestCell` (`CutPointNearest`),
`QueueInOrderOfDistance` (`FrontierByDistance`), and `SearchImplementsCone`, that
every step of `ConeSearch` is the step `Extract` of `LogicCone` or a stutter.
`LogicCone` defines distance by a recursive function. The proofs use paths
instead (`Ball(n)`: what a path of at most n steps leads to), and one induction
shows that the two agree. The invariant `DistanceInv` then has the queue in two
layers: for some k, objects at distance k followed by objects at distance k + 1,
with everything nearer considered already.

**The command** (`TmrPassProofs`), for designs of any size, whose cones overlap as
they like: `TypeCorrect`, `ReplicasComeInPairs` (`ReplicaPairs`),
`FirstConeKeepsIt` (`FirstConeWins`), `OriginalInputsStay`
(`OriginalsKeepInputs`). What is proved about the netlist is `IsGood`: exactly
the annotated objects have replicas, two each and of their own cone. All that a
step other than `Replicate` does to a netlist is an `Edited` step: it adds or
reconnects, but marks nothing. Edits compose, so that `InsertVoter`, five of them
and a connection, and `Rewire`, two, need no case analysis of their own. Every step
of the command comes out as a `NetStep`, from which both action properties
follow. `IsGood` alone is not inductive: a replica of a replica, or of a voter,
would break it. So `PassInv` adds that whatever a search, the queue or the cone
holds is an object of the design (`SearchOwn`, `QueuesOwn`), because the analysis
was made of the design alone (`AnalysisFits`), that the sink is the design's
(`SinkKept`), and that between `Replicate` and `InsertVoter` the replicas stand
beside their originals (`ReplicasReady`).

**Voters** (`TmrVoterProofs`): `VotersStandOnTriples` (`VoterOnTriple`). The
invariant needs more about wiring, `WiringInv`: generated names are numbered
below `autoidx`, so a voter's wires are new and nothing else is on them
(`NamesFresh`); what lies behind a wire in the analysis drives at least one bit
(`WidthsKnown`); a cut point lies behind the root or behind an element of the cone
(`SearchReach`); and a cut point that is replicated is never the root of its own
cone (`RootsSafe`), whose rip would otherwise take the wire of input c from it.
The last is the delicate one. A flip-flop can reach itself through its own
logic. But it is queued only by a cone that came to it, and that cone replicated
it, so that it is not replicated again; unless that cone was empty, and then the
flip-flop's one output (`DriveOne`) is on a port, behind which no search passes.

**Sessions** (`TmrSessionProofs`), of any number of commands, each on any design:
`SessionKeepsTypesAndPairs`, `SessionKeepsConesAndInputs` and
`SessionVotersStand` say of every command what was said of one;
`CommandsHoldTheirOwn` (`OwnObjects`), `IDsStayUnique` (`ConeIDsUnique`),
`SuccessorsQueuedOnce` (`OneConePerSuccessor`), and from it
`SuccessorConesBounded`: the second loops of a session run no more often than
there are flip-flops and output ports. The invariant adds that every id given out
is below the counter (`ConesInv`, `QueueInv`), and that the root of every
successor, queued or begun, is explored. Both are static members of the code and
survive a command, so `Rerun` keeps what is said of them.

These proofs assume of the designs (`NameAssumption`, `DesignAssumption`) what
RTLIL or Yosys' front end sees to: names are unique in a module and finitely many,
signals are on its wires, `connect` takes two signals of equal width, a flip-flop
has one output, nothing inside the module drives a port that is only an input;
and what holds of input to the command: no `tamara_cone` annotations and no voters
yet. TLC evaluates both on all designs of the runs. The names of replicas and
generated wires differ from the design's by their length, as in the code by a
suffix or prefix that a design's own names are not supposed to have.

**The voter builder** (`VoterBuilderProofs`), for any widths and any number of
voters (`BoundsAssumption`): `GatesMatchReference`; `BuilderTypeCorrect`;
`ChainIsComplete`; `SinkIsExact`; `UpsetIsMasked`; `ReductionPerVoter`. The
inductive invariant ties `intermediate`, the reductions, `prev` and the loop index
together: the n-th reduction covers exactly the bits of the n-th voter, and
`prev` those of the reductions before the index.

**The debug command** (`DebugCommandProofs`), for any sequence of tasks and voters
of any widths: `GeneratedVotersComplete` (`VotersComplete`). Its inductive
invariant is that of the builder, with at most one voter in it, of the width that
was asked for; the lemmas on the builder's steps are those of
`VoterBuilderProofs`.

**The hash table** (`HashTableProofs`), for any keys, any hash values and tables of
any number of buckets (`TableAssumption`): `TableFindsItsKeys` (`LookupExact`),
`TableLoopsAgree` (`LoopsAgree`), `TableIndexIsBijective` (`IndexIsBijective`),
`TableKeepsRobinHoodOrder` (`RobinHoodOrder`), `TableBulkIsExact`
(`BulkOperationsExact`), `TableInsertionEnds` (`InsertionEnds`), and
`TableImplementsDenseSet`, that every operation is a step of `DenseSet` or leaves the
list of keys as it is. They follow from one inductive invariant, `TableInv`
(`TableIsWellFormed`): the values are distinct, no more than `Capacity`, and the
buckets are a ring (`IsRing`) over their indices. None of the six properties is
inductive. The index alone does not say that an erasure finds the bucket it has
to change; the order alone does not say that the loops stop. `IsRing` says of every
bucket in use that it is as far from its home as it says, that the bucket before
it is at most one step nearer, that its index is known once, and that the order
is `Broken` at some bucket, empty or at home. The last is what makes a full table
work: there is no empty bucket to stop at, but the ring cannot go up for ever.

The proof has three layers. On rings: placing a bucket moves those up to the first
empty one on by one, closing a gap moves those up to the next that is at home back
by one, giving an index another number moves none; each keeps `IsRing`
(`PlacingKeepsRing`, `ClosingKeepsRing`, `RenamingKeepsRing`). The code walks such
stretches bucket by bucket and over the end of the array; the lemmas see them from
their first bucket, by distance. On probing: in such a ring the loops of insertion,
erasure and lookup end at the bucket of the key, or where it would have to be
(`ProbesFindValue`, `ProbesMissOthers`). On operations: each makes a table from a
table. `Rebuilt`, `RangeErased`, `ErasedIf` and `Replaced` loop over values and are
recursive functions in `HashTable`; a lemma on counting (`CountUp`) shows that the
sequence of tables exists and what it has done after every turn
(`FillingEnds`, `ErasingEnds`, `WeedingEnds`, `TakingEnds`).

`TableAssumption` asks that hash values have `WordBits` bits, that there are fewer
bits in a bucket number than in a hash, and that the arguments of `replace` are
lists of keys. Sizes above 0.8 * 2^32 are excluded by `CanHold`, as in the model.

Only model-checked:

* termination (`EveryRunEnds` and that the search and `finalise` end): liveness is
  out of the prover's reach. `SuccessorConesBounded` is the safety half of the
  command's;
* `CheckPasses`, `CopiesIndependent`, `OutputsVoted`: they do not hold of all
  designs, as the violated runs show, and what singles out the designs of `trees`
  is their shape, whose use would be an induction over the netlist;
* `SinkReports`, `UpsetMasked`, `ImplementsDesign`: what a netlist computes is
  defined by recursion over it.

## 5. Not modelled

* `tamara_tmr` on its own output (`tamara_again` in the tests): its search would
  pass through the gates of voters, which `TmrPass` keeps in one cell.
* The debug build's `opt_clean` and voter techmap, which other Yosys commands do;
  dumps, colours and logging.
* `mkvoter` without its argument, which reads beyond the arguments, and with a
  width below one; `tamara_debug` without a top module, which its tasks
  dereference, and `tamara_tmr` without one, which is an error.
* Of the hash table: `extract` and `swap`, wyhash, the segmented vector,
  allocators, mapped values, the setter of the load factor, exceptions of
  constructors, and sizes above 0.8 * 2^32, for which `calc_shifts_for_size` ends in an undefined shift.
* The scripts that run the tests and experiments from outside.
* Faults in voters and the error OR, which no replication masks; faults of two
  cells in a cycle.

## 6. Plan

1. Done: the search and its specification; voters; the command, alone and twice
   in a process; the finished netlist under upsets; the debug command; the hash
   table.
2. Done: proofs for the search with its distances and its refinement, the
   command, its voters, and sessions.
3. Done: proofs for the hash table, its order, its index, its lookups and its
   refinement.
4. Extend: voters as gates in `TmrPass`, and with them the command on its own
   output; a classification of designs by how far the command gets with them.
