# TLA+ verification of zkevm-circuits

This directory holds TLA+ models of the zkEVM prover in this repository, the TLC
configurations that check them, and the TLAPS proofs of their main properties.

## The system

A block is turned into a proof in stages.

1. **Trace to operations** (`bus-mapping`). geth executes the block and records a step
   trace. `CircuitInputBuilder` walks over it. Each opcode handler pushes operations
   (reads and writes of stack, memory, storage, account fields, access lists, call
   contexts, ...) into one container; every operation takes the next value of a
   block-wide *rw counter*. Writes that a failing call undoes are pushed a second time,
   reversed, when the call fails.
2. **Operations to tables** (`zkevm-circuits/src/witness`). The container becomes the
   `RwMap`, is sorted by location and padded with Start rows; the last value of every
   storage slot and account field becomes an MPT update.
3. **Circuits** (`zkevm-circuits/src/*_circuit`). The EVM circuit has one gadget per
   opcode and looks the operations of a step up in the rw table. The state circuit checks
   that the table is a memory. Other circuits serve lookups: copy, exponentiation,
   bytecode, keccak, tx, public input and MPT. The super circuit puts them together, the
   root circuit aggregates.
4. **Trie witnesses** (`mpt-witness-generator`, in Go). A state database in the manner of
   geth's, fed with proofs of the accounts of a chain, applies a list of modifications and
   records the trie proofs before and after each, from which the rows of the MPT circuit
   are made.

Stages 1 to 3 meet in one contract: at each rw counter, the operation that bus-mapping
pushed is the one the EVM circuit looks up, and the state circuit accepts all of them.

| part | state | operations | what is hard |
|---|---|---|---|
| transaction context | call stack, calls, reversion groups | push_op, push_op_reversible, push_call, handle_return, handle_reversion | reverts within reverts; the counter offsets of succeeding calls inside failing ones |
| block builder | container, rw counter, StateDB, call map | handle_tx, set_end_block, set_value_ops_call_context_rwc_eor | values known only after later steps; ids taken from the rw counter |
| rw table witness | RwMap, MPT updates | table_assignments, prepad, mock_from | the order of the updates; padding at the limit |
| state circuit | one table | gates on adjacent rows, MPT lookup | global consistency from local gates; field wraparound |
| EVM circuit | step state | one gadget per execution state | agreement with the opcode handlers |
| copy, exp, bytecode circuits | tables of rows | gates on adjacent rows | length and boundary cases |
| witness generator's state database | state objects, caches, journal, revisions, access list | setters, getters, Snapshot, RevertToSnapshot, Finalise, IntermediateRoot, Commit | undo in the right order; caches over caches; which account must be written |

## Modules

| module | models |
|---|---|
| `Journal` | abstract: what a journalled state promises to nested calls |
| `TransactionContext` | call stack, reversion groups and container of one transaction |
| `TransactionContextProofs` | its inductive invariant, and that every step preserves it; the safety theorems; that it implements `Journal` |
| `StateConstraints` | the gates and lookups of the state circuit on a row and its predecessor |
| `StateCircuit` | the tables these gates accept |
| `StateCircuitProofs` | that every such table is a consistent memory |
| `LexicographicOrdering` | the limb comparison behind the row order |
| `LexicographicOrderingProofs` | its soundness, its completeness, and the meaning of its index |
| `RwTable` | from a container to the assigned rows of the state circuit |
| `RwOps`, `RwLookups` | the operations of bus-mapping, as the circuits look them up |
| `StateDB` | bus-mapping's state database |
| `CircuitInputStateRef` | the helpers of the opcode handlers: operations, transfers, calls, reversion, return |
| `EvmParameters`, `EvmOpcodes` | what both sides take from the block, the circuit parameters and the opcode table |
| `BusMapping` | handle_tx, the handlers of calls, creations, storage and logs, and the end of the block |
| `ExecutionGadgets` | the gadgets of the same opcodes in the EVM circuit |
| `EvmCircuit` | geth, bus-mapping and the EVM circuit on one block |
| `MathGadgets`, `ArithmeticGadgets` | the chips and gadgets on words: comparison, zero test, sums, products, division, shifts |
| `ExpCircuit` | exponentiation events, their rows and gates |
| `Arithmetic` | the arithmetic opcodes against the EVM's results |
| `ArithmeticProofs` | what the gadgets on words decide, for limbs of any width |
| `MemoryGadgets` | memory addresses, expansion and its price |
| `GethFrame` | (external) one call frame in geth |
| `FrameHandlers` | the handlers and errors of the instructions that stay in a frame |
| `CopyCircuit`, `BytecodeCircuit` | copy events and bytecode as rows, and the gates on them |
| `FrameGadgets`, `ErrorGadgets` | the gadgets of these instructions and of the errors |
| `CallFrame` | a frame from the geth trace to the circuits |
| `AccountStore` | abstract: accounts with snapshots, and what the end of a transaction does to them |
| `WitnessStateDB` | the witness generator's state database |
| `WitnessStateDBInvariant` | its inductive invariant; lemmas on objects, access lists and journals |
| `WitnessStateDBCalls` | that the calls preserve it |
| `WitnessStateDBEndings` | that undos and ends of transactions preserve it |
| `WitnessStateDBProofs` | the safety theorems; that it implements `AccountStore` |
| `MC*` | instances for TLC |

### TransactionContext

`container` is `Block::container` as one sequence: the rw counter of an operation is its
position, because each insertion takes `rwc.inc_pre()`. `calls` is the call stack,
`txcalls` is `Transaction::calls`, `groups` are the `op_refs` of the reversion groups; the
`calls` list of a group is kept with the calls (the group a call is listed in and its
offset). `sdb` is everything a reversible operation writes, one value per key. The actions
are the methods: `PushRead` and `PushWrite` (push_op), `PushOpReversible`, `PushCall`
(parse_call, push_call, push_call_ctx), `HandleReturn`, and for a failing call
`HandleReversion`, `RevertOp` once per operation of the group, `EndReversion`. The outcome
of a call is chosen when it is entered: the code knows it then (`call_is_success`). Fields
`call`, `nth`, `undoes` and `snap` are auxiliary.

### StateConstraints, StateCircuit

A row is a record; a 256-bit word is one number because its halves are always compared
together. `RowConstraints(p, r)` is `ConstraintBuilder::build` with one operator per
`build_*` function. `StateCircuit` builds a table row by row from any rows that satisfy the
constraints with their predecessor, so its reachable states are the tables a prover can
convince the circuit of. A partial table that no row can continue is a rejected table;
deadlock is therefore not checked in this run. The gates constrain `state_root` on the
non-final accesses of storage and account rows only through the lookup of the last access;
what is said about roots is said of assigned tables (`TrieHistory` in `RwTable`).

### LexicographicOrdering

Two rows of limbs, the advice (`index`, `diff`) either as `Config::assign` computes it or
any field element the gates accept. A random linear combination that vanishes stands for
each of its terms vanishing.

### RwTable

A consistent EVM makes operations of all targets; `SetEndBlock` claims the padding,
`Assign` sorts, pads, computes the mock MPT updates and assigns initial values and roots.
`AssignmentAccepted` evaluates every gate of `StateConstraints` on the result: the
completeness direction of the state circuit.

### EvmCircuit and the modules under it

These model the contract between the two halves of the prover, written down twice in the
code: once as operations pushed, once as lookups. `world` and `frames` are geth (external):
they decide what the trace says. Each action executes one opcode in geth, with the PUSHes
of its arguments, and hands the trace step to the handler of `BusMapping`, which returns
the builder `b` with the step and its operations appended. The builder is a record: `ops`
the container, `ctxs` the call contexts, `groups` the reversion groups, `calls` and `steps`
of the current transaction, `txs` the finished ones, `call_map`, `sdb`, `log_id`, and
`panic`, which is set where the code would panic (the checks of check_update_sdb_account,
an index out of the list of steps). When the block ends, `Rows` assigns it as
`assign_block` does and `Accepts` evaluates all gadgets on neighbouring rows. A cell that
only a lookup constrains takes the value found there; literal counts in the gadgets are
kept as literals.

What is abstracted: gas (fee, refund and reward are constants of `EvmParameters`, so the
two sides are compared for every path but not for amounts), memory is one byte, an account
has one storage slot, hashes are numbers that differ where the hashed data do, and each
word is one number. Memory expansion is left out with gas; both are in `CallFrame`.
Precompiled contracts are not called. SELFDESTRUCT has only a placeholder gadget in the
circuit, so a block with one is compared with geth and the circuit is not asked.

The outcome of a call is chosen when it is entered, as bus-mapping has it from the trace,
and only an end that agrees with it is taken. `Programs` says which transactions, opcodes
and arguments a block may have. `Disputed` names situations in which two places of the
source disagree; the passing runs leave it empty, which excludes them: a creation at an
occupied address, a STATICCALL at the depth limit, DELEGATECALL in the init code of a
creation with value, and the situations of the first two runs under Findings. A reward of
zero is excluded by the constant `Reward`.

### Arithmetic

A stack machine executes the arithmetic opcodes; `Evm` is the reference. For each step the
cells are assigned as `assign_exec_step` does and the gates of the gadget are evaluated,
once on these cells and once on cells for results near the right one. A word has four limbs
of `Bits` bits instead of 64, a carry of a product has one byte more than a limb
(`CarrySize`), and the field is larger than a half of a word with such a carry; the
proportions between limb, half and word are those of the code. The run samples soundness
around the honest assignment; for most opcodes the proofs settle it for all word cells. For SDIV and SMOD it is stated where the
gadget's sign constraints are switched on (`SignIsConstrained`). The exponentiation
circuit ties the multiplicand of its parity check to two by assignment only, and the model
keeps it so.

### CallFrame

geth (`GethFrame`) runs one frame with given code, operands and gas, bus-mapping handles
the trace step by step (`get_step_err`, handlers, copy events), a failing frame is reverted
and its caller restored, and the EVM, copy and bytecode circuits judge the rows. Words have
three bytes. Cases at which two of the participants round, saturate or compare in a
different order beyond the sizes a frame reaches are not among the workloads: block
numbers above 64 bits in BLOCKHASH, a static frame that is out of gas and write protected
at once, addresses with more than 160 bits, offsets of return data above 64 bits, and a
creation whose RETURN both expands memory and cannot pay for the code.

### WitnessStateDB

`stateObjects`, `stateObjectsPending`, `stateObjectsDirty`, `validRevisions`,
`nextRevisionId`, `accessList`, `preimages` and `journal` are the fields of `StateDB`; a
missing object, account or cached value is a member of its set with a mark. An object has
its account data and the three storage caches: dirty over pending over origin, over the
storage trie `root`. A trie is the map it holds. One action per exported call, except that
the loop of `journal.revert` is one action per entry (`RevertEntry`), so that what an undo
meets is visible. `Write` is the way of every setter: `SetStateObjectIfExists` fetches the
account from the chain the first time (`cached` is the oracle's cache), `Acquired` makes a
new object if there is none, and both may journal before the setter's own entry does.
`phase = "panic"` is where the code would dereference nil or panic. `journal.past` is a
history variable: what the database held before each entry; `replaced` and `ripemdDirty`
are history variables too and guard nothing.

`AccountStore` has no journal, no caches and no objects: `store` is what the getters
return, `saved` is the stack of snapshots, and a revert pops one. The mapping takes `store`
from the history at the point a revert is heading for, so the abstract store moves once,
when RevertToSnapshot is called, and the rounds of the loop are stutters.

Two things the code does outside the journal are visible in the properties. CreateAccount
over an existing account journals an entry that dirties nothing, and DeleteAccount removes
an account from the trie at once; both are exempt in `NothingForgotten` (`replaced`).
Refunds and logs are not journalled by this database and are left out, although the comment
of RevertToSnapshot speaks of all state changes. A touch of RIPEMD-160 stays dirty after a
revert, also past a Finalise that found no entry (`Sticky`).

## Runs

| run | bounds | shows |
|---|---|---|
| reversion | depth 3, 3 calls, 3 operations before reversals, 2 keys, 2 values | reversion lookups, single reversal, persistence, reversal counts, refinement of `Journal` |
| state | 4 rows; 10 transient locations or 5 of the trie, rw counters to 3 | read and value_prev consistency, stack discipline |
| ordering | 8 binary limbs, field of order 5 | soundness and completeness of the ordering gates, meaning of the index bits |
| rw_table | 4 storage and account operations, or 3 of other targets, 2 transactions, slack 0 to 2 | assignment accepted, padding, trie history |
| block_calls | 2 or 3 opcodes that end no call, 2 contracts, values 0 to 2 | nested calls of all kinds, creations, stores: circuit accepts, history, state and call stack follow geth |
| block_txs | up to 2 transactions of 2 opcodes | all shapes of transactions, logs, receipts, destruction: no panic, state follows geth, circuit accepts |
| arithmetic | 4-bit limbs, words at the edges of limbs, halves and signs | gadgets accept the EVM's result and nothing near it; chips; EXP rows |
| call_frame | every instruction of a frame and every error, operands at the edges, gas around the price | bus-mapping follows geth; EVM, copy and bytecode circuits accept these rows only; every frame is closed |
| state_db | 2 accounts, 2 slots, values 0 and 1, seven workloads of 4 to 6 calls | no panic, storage proofs, nothing forgotten, refinement of `AccountStore` |

The bounds contain the hard cases: depth 3 has a failing call in a succeeding call in a
failing call, and a call after a failed sibling; two keys and two values tell an undone
write from a write undone in the wrong order; four rows hold a first access, a write and a
read of one location next to another location; slack 0, 1 and 2 are the panic, the exact
fit and the first padded table of `max_rws`. The bound of the block runs counts opcodes
that do not end a call; two are a store or a creation inside a call, or before and after
one, and three a store in a call in a call, so that a succeeding call inside a failing one
has writes of its own to undo. A workload of `state_db` brings together the calls that
interact (storage writes, reads and roots; creation, suicide and roots; the touch of
RIPEMD-160; the access list; deletion; code and preimages), with enough calls for a
snapshot, two changes, a revert, the end of a transaction and a change after it.

Deadlock is not checked where a behaviour ends: a rejected table, a finished block or
frame, a used-up budget of calls.

Fairness is assumed in one run only, `call_frame`: `FairSpec` has weak fairness of the next
step, since geth and the builder are sequential programs that nothing preempts or makes
wait. `FrameIsClosed` then says that every frame is executed and handled to its end.

## Findings

Three runs are expected to find a violation. Each checks one property in a situation where
the code does something else than a comment next to it says.

| run | situation | what the code does |
|---|---|---|
| tx_to_new_account | transaction without value to a new address | `BeginTxGadget` wants the account created, bus-mapping does not create it (begin_tx.rs:233) |
| create_at_funded_address | creation at an address with a balance only | bus-mapping takes it for a collision (bus-mapping create.rs:76) |
| destructed_again | account destroyed, then funded by the next transaction | `commit_tx` resets it again (state_db.rs:310) |

## Proofs

All theorems hold for every value of the constants that satisfies the named assumptions.

* **Reversion** (`TransactionContextProofs`; assumptions: the bounds are natural numbers). `ReversionLookup` alone is not inductive: while a group is
  open the position of a reversal is not known. `IndInv` adds what ties the open groups to
  the call stack: the calls of the stack belong to consecutive groups, a group lists the
  operations of its calls in container order without repetition, and the operation of call
  c with index n is at position offset(c) + n + 1 of its group. From it follow
  `ReversionLookup`, `RevertedOnce`, `PersistentOrGrouped`, `ReversalCount` and `TypeOK`,
  and `JournalSpec`.
* **State circuit** (`StateCircuitProofs`; assumptions: rows are rows). The order is
  transitive, and a row between two rows of one location is of that location, so the rows
  of a location are contiguous; the gates on neighbours then give `ReadConsistency`,
  `ValuePrevConsistency`, `PushBeforePop` and `StackHasNoGap` by induction over the table.
* **Ordering** (`LexicographicOrderingProofs`; assumptions: the number of limbs is a power
  of two above four, the field is at least twice as large as a limb, and the powers of two
  double, which the provers do not know). `ClaimIsOrdered` follows from the range check.
  `AssignIffGreater` needs that the order of limbs is the order of the numbers they spell,
  and `IndexIsMeaningful` that the bits of an index are the parities of its halves. Both
  are inductions; they are carried out on the least counterexample, whose existence
  (`LeastNatural`) follows from the well-foundedness of the natural numbers.
* **Arithmetic** (`ArithmeticProofs`; assumptions: `PowersOfBase`, the powers of the base
  that the provers do not compute, and `CarriesFit`, a carry holds four limb values and the
  field is at least a half of a word times the values of a carry. The code has limbs of 64
  bits, carries of nine bytes, and a field of about 2^254, more than 2^128 * 2^72). The
  gates are equations in the field. Each is first taken back to the integers, since neither
  side reaches the order of the field. The equations on halves then give the one on words:
  a comparison is the order of the words (`LtWordDecides`, `CmpWordsDecides`,
  `MinMaxDecides`), a sum has the carries of the integers (`AddWordsDecides`), and a
  product of limbs with its carries is a * b + c modulo a word, or as a double word
  (`MulAddWordsDecides`, `MulAddWords512Decides`); the converse exhibits the carries
  and shows that they are in range. The opcodes follow from uniqueness of quotient and
  remainder. `StepsAreDecided` puts them together: on every step of ADD, SUB, MUL, DIV, MOD,
  ADDMOD, MULMOD, LT, GT, EQ and ISZERO the gadget accepts the EVM's result with the cells
  of `assign_exec_step`, and no other word with any word cells. For MULMOD by zero only the
  first half is stated: the comment at modulo.rs:19 has `a_or_zero` equal to 0 when n is 0,
  the gates let it be a or 0. ADDMOD tests for a zero modulus itself and needs no exception.
* **The witness generator's state database** (`WitnessStateDBInvariant`, `WitnessStateDBCalls`,
  `WitnessStateDBEndings`, `WitnessStateDBProofs`; assumptions: workloads name accounts
  and a chain). None of the three safety properties is inductive, since a revert can go
  back through any number of changes. The invariant `IInv` speaks about the journal as a
  whole. `Chained`: each entry can be undone on what the entry after it found, and undoing
  it gives what it found itself. `Counted`: dirties counts the entries of each account,
  and one more touch for each of RIPEMD-160. The objects are linked to the entries: an
  account with undoable entries has a usable object, a journalled slot has its original
  value cached, and a replaced object is well formed. `Scheduled`: for every revision, and
  for now, what differs from the trie is touched by the entries up to there, pending or
  exempt. From `IInv` follow `NoPanic`, `StorageTrieFollowsState` and
  `NothingForgotten`, and, since `Chained` determines what every undo produces, `StoreSpec`.

What stays with TLC: liveness (`FrameIsClosed`), which the prover does not handle; the
properties of `RwTable`, `EvmCircuit` and `CallFrame`, whose witnesses are built by folds
over sequences of operations, where what is computed for every input would need induction
over data; and of `Arithmetic` the properties as the run states them, over all opcodes.
Those range over shifts, EXP, BYTE, SIGNEXTEND and the bitwise opcodes, whose powers and
bits need the same induction, and over the signed opcodes, whose sign is a bit of a limb.
`StepsAreDecided` is stronger than `OnlyTheEvmResult` on the opcodes it covers.

## Not modelled

Elliptic curve and keccak arithmetic (out of reach of both tools), the rows of the MPT
circuit and the node encodings of the trie, the derivation of `call_is_success` from the
trace, precompiled contracts, proof aggregation, bindings to geth, test data builders and
command line tools (no protocol of their own). Of the state database: Copy, SetStorage, refunds,
logs, flat snapshots and database errors; the proof of an absent account that ends in the
leaf of another one counts as absent. The full list is in `PROJECT.json`.
