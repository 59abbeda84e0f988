# A verification of the Reed-Solomon (255, 239) encoder

TLA+ models of the SystemC encoder, its test bench, the part of the SystemC kernel they run
on, the coding functions, the executable specification, and the SystemVerilog bench and
assertions; TLC runs over them; and TLAPS proofs, for every value of the constants, about the
system of encoder and test bench, the assertions, the SystemVerilog bench, the kernel, the code
itself, `decode_rs` and the executable specification from its tables to its comparison.

## 1. Inventory of the system

| Part | Source | State it keeps | Operations | Talks to |
|---|---|---|---|---|
| Encoder | `impl/src/RSEncoder.cpp`, `.h` | thread position, `counterIndex`, `recd[] data[] bb[]`, field tables | reset, announce `ready`, receive 15 chunks, encode, send 16 chunks | test bench, over signals |
| Test bench | `impl/src/RSEncoderTB.cpp`, `.h` | thread position, `counterIndex`, `recd[] data[] bb[]`, `errorNumberIT`, `j`, `no_encoder_errors` | reset pulse, generate, send, receive, inject errors, decode, compare | encoder |
| Top level | `impl/src/MainTopLevel.cpp` | the signals and the clock | connect, `sc_start` | SystemC kernel |
| Tables | `generate_gf`, `gen_poly` (three C copies) | `alpha_to[] index_of[] gg[]` | run once by each constructor | read by all below |
| Multiplication | `galois` (four copies) | none | product of two symbols | `encode_rs` |
| Encoding | `encode_rs` | `bb[]`, kept between calls | parity of `data[]` | encoder |
| Decoding | `decode_rs` | `recd[]`, local arrays | correct up to `tt` symbols | test bench |
| Assertions | `SystemVerilog/Monitor.sv` | sampled signals | five assertions on `ready` and `valid` | encoder |
| SystemVerilog package | `pkg_reed_solomon.sv` | the tables again | `generate_gf`, `generate_poly`, `decode` | SystemVerilog bench |
| SystemVerilog bench | `test_RSEncoder.sv` | `data[] recd[]`, `counter_index`, `j` (also a seed) | reset, send and receive on event controls, inject, decode | encoder, as compiled by `run.do` |
| Executable specification | `spec/src/general_RS.c` | globals | sequential loop over random vectors | its own coding functions |
| Kernel: run lists | `sysc/kernel/sc_runnable*.h` | two linked lists each for methods and threads | push, pop, toggle, take out, preempt | scheduler |
| Kernel: scheduling | `sc_simcontext_int.h`, `sc_thread_process.h`, `sc_method_process.h` | running process, phase | trigger, dispatch, suspend, preempt | run lists, events |
| Kernel: signals and clock | `sysc/communication/sc_prim_channel.h`, `sc_buffer.h`, `sc_signal.h`, `sc_clock.h` | current and new values, update list | write, request update, update, next edge | scheduler |
| Ring buffer example | `exemple/` | - | a vendor's example, not used | - |
| Rest of the SystemC, boost and TLM headers | `SystemC/include` | - | third-party library | - |

What is hard here:

* Encoder and test bench exchange 15 and 16 chunks in **fixed cycles with no acknowledgement**.
  Each relies on the other being exactly where it expects; a signal written in a cycle is
  seen in the next; within a cycle the kernel runs the two threads in either order.
* 239 and 255 are not multiples of 16, so the **last chunk runs over the end of its array**
  in four places, each time into the array declared after it.
* The kernel's lists are **intrusive**: one field of a process or channel is its link and at
  the same time the mark that it is queued, and the last element of a list needs a mark too.
* The SystemVerilog bench waits for **changes** of signals, which are missed if they come
  before the wait begins, and runs in the same time step as the encoder.
* The **arrays are reused** from packet to packet and are never cleared as a whole.
* The coding functions switch arrays between two representations, update them in place and
  index one array with the contents of another.

Correctness, part by part: each packet is encoded once and its codeword comes back once, and up
to `tt` corrupted symbols are never counted as a bad encoding (system); `ready` and `valid`
keep the protocol (encoder); a write is seen at the next edge by both threads, and no process
or update is lost (kernel); the tables are those of the field and the generator has the
right roots (tables); every word sent is a codeword (encoding); up to `tt` errors are
corrected and a failed call leaves the word alone (decoding); each vector comes back, and is
the vector that was sent (SystemVerilog bench). `PROJECT.json` lists the
hazards at their lines with the properties that cover them.

## 2. Modules

```
RSCommon                       nn, tt, kk
 |- RSMessages                 what is coded: messages of 8-bit symbols
 |   |- RSCode                 what encode_rs and decode_rs promise (abstract)
 |   |- RSBuffers              memory layout, chunks, the 8-bit ports
 |   |- SCKernel               signals, activations, clock edge (abstract kernel)
 |       RSEncoder  RSEncoderTB
 |        |  |   \_____ MainTopLevel -- Phases (its invariants)
 |        |  |             (instance of StoreAndForward)
 |        |  SVTestBench -- SVPhases (its invariant)
 |        Monitor
 |- GaloisField                GF(2^mm) over sets of bits (reference)
     |- ReedSolomon            generator, encoding, syndromes (reference)
         |- IntSymbols         symbols as ints, index and polynomial form, `^` of ints
             |- Galois -- RSTables -- SVTables
             |- RSEncode
             |- RSDecode -- BoundedDistance (instances of Decoder and RSCode)
             |- GeneralRS      = RSTables + RSEncode + RSDecode, called by main

SCRunnable                     the run lists of the kernel
 |- SCDispatch                 threads take turns (instance of RunOrder)
     |- SCScheduler            with the phases and signals (instance of SCKernel)

RSEncoderProofs                the encoder's activations, whoever it runs with
 |- MainTopLevelProofs         the lock step, and that it implements StoreAndForward
 |- MonitorProofs
 |- SVTestBenchProofs
SCSchedulerProofs              the operations on the run lists, dispatching, and the scheduler
CodeProofs                     the field, the code, its register and its distance
 |- RSDecodeProofs             ints and bits, Berlekamp's algorithm, roots, Forney's formula
     |- GeneralRSProofs        the tables, encode_rs on ints, the loop of main
```

Four modules are abstract specifications, and each is a PROPERTY of a run over the detailed one:

| Abstract | Detailed | Property | Mapping |
|---|---|---|---|
| `StoreAndForward`: a message is handed over, coded, returned, judged | `MainTopLevel` | `ImplementsStoreAndForward` | `Stage` tells from the two program counters where the packet is; its word is `recd[]` of the encoder, then that of the test bench |
| `SCKernel`: a thread writes its own signals, visible at the next edge | `SCScheduler` | `ImplementsKernel` | `runnable` is who is queued or running; between the last update and the next edge `cur` already is `m_new_val` |
| `RunOrder`: two sequences of processes | `SCDispatch` | `RunsInOrder` | the sequences are the lists, read along the links |
| `Decoder`: a bounded-distance decoder in one step | `BoundedDistance` | `ImplementsDecoder` | `recd[]` at return, the argument before |

So the system is modelled over `SCKernel`, `SCKernel` is implemented by the kernel of the
headers, and the system keeps to it. All four mappings of the table, and the last claim, are also
proved (section 5).

**State and actions.** In `RSEncoder` and `RSEncoderTB` an action is one activation of the
thread, from one `wait()` to the next; `encPc` and `tbPc` name the `wait()` (the module heads
give the lines). Where an activation makes a random choice it is split in two, and the
kernel resumes nobody else in between (`Running`). `SCKernel` has what the program uses of
SystemC: `cur` is what a port read returns, `nxt` what a write requests, `runnable` who
still has to run in this cycle; `NextEdge` is the update phase and the next clock edge. A
reset seen high at an edge restarts the encoder in place of its body.
In `SCScheduler` an action is one step of the kernel's loops: a process taken from its list, one
write, one channel of the update list, one event. `SVTestBench` runs the same `RSEncoder`
with the bench as the other process: the bench wakes at an edge or, in `Settle`, when the
signal it waits for changes; `cur` and `nxt` are both set by its blocking assignments.
In `GeneralRS` an action is a step of the called function or of the loop of `main`.

**Memory.** Both modules end with `int recd[nn], data[kk], bb[nn-kk]`. An access past the
end of one is undefined; the model takes the outcome of the builds that lay members out in
declaration order: one block of `2*nn` cells, in which `recd[255]` is `data[0]` and `data[239]`
is `bb[0]`. Everything said of the system holds for that outcome.

**Data.** In the system modules a symbol is a model value or a set of bits and `Encode` a
constant, the parity of each message; `MC_MainTopLevel` gives it the real computation over
GF(8). `Decode` is the bounded-distance decoder; the runs over `RSDecode` and `BoundedDistance`
check that `decode_rs` is one. `BoundedDistance` instantiates `RSCode` as `System`, with the parity
`encode_rs` computes (`ParityOf`), and section 5 proves that code and decoder are what `RSCode` takes them to be.
In the coding modules symbols are the code's ints, `-1` and the two forms included, and an
action is one round of a loop. Cells with `Unset` (-2) stand for memory that was not
written; a model that read one would fail `TypeOK` or leave the domain of a table.

Definitions named `Mut...` are errors a programmer could have made, each beside the
definition it replaces; no specification uses them. They show that the properties can fail.

## 3. What is checked

| Run | Instance | Shows |
|---|---|---|
| `packets` | GF(8), 7/3 symbols, tt 2, chunks of 2, one packet for each of 1, 2, 3 errors | both orders of the threads in every cycle, every generated symbol (kk - 2 = 1, the others stale), all sets of corrupted positions with three values: `EncodesTheMessage`, `ReceivesTheCodeword`, `MessageKept`, `Recovered`, `ImplementsStoreAndForward`, the inductive invariant `IInv` |
| `progress` | the same sizes, one symbol, two packets for each number of errors | `EveryPacketReturns`, `Terminates`; `EveryStepCounts`: a number of steps left, that each step lowers |
| `index_256`, `stale_symbols` | as `packets` | two errors of the test bench (below) |
| `handshake` | the encoder alone, 255/239/16, any input, a reset in any cycle | what the comments of `Monitor.sv` say: `ReadyThenValid`, `ValidThenReady`, `ReadyWhileReceiving`, `ValidWhileSending`, `MutualExclusion`; not what the assertions ask as written (section 4) |
| `queues` | four processes, every operation of the kernel on the run lists at any time | `QueuedOnce`: no process is listed twice, lost, or listed while it runs; `RunsInOrder` |
| `kernel` | the two threads, the two methods of the clock, five signals of two values each (chunks of 1) | `UpdateListSound`, `ImplementsKernel`, `EveryThreadRuns`, whatever the threads write, also more than once |
| `decode` | GF(8), two codewords, all 13084 patterns of up to 3 errors | `ImplementsDecoder`: up to 2 errors are corrected, otherwise the word is as it was, and then no codeword was near, or within 2 symbols of it; Newton's identities hold in each step of Berlekamp's algorithm (`KeyEquation`); arrays are not overrun (`RootsInBounds`, `ElpInBounds`) |
| `spec_main` | GF(256), 255 symbols, tt 8, one vector for each of 0 to 8 errors | the whole program of `general_RS.c`: the tables are the field's and `index_of[]` is never overwritten; after each factor `gg[]` has exactly the roots it should; `galois`, 150 terms written by hand, and the tables give the same product for all 65536 pairs; after each symbol `bb[]` is the remainder, with what the last call left in it; data before parity is a codeword; the draws of an index can end (`UsedOnce`); no vector is counted (`AlwaysOK`) |
| `tables_sv` | GF(256) | the SystemVerilog generator is wrong (below) |
| `sv_bench` | 11/7 symbols of one bit, tt 2, chunks of 3, two vectors, both orders at an edge, any seed | `WakesOnRise`, `ReceivesOneChunkLate`, `EveryVectorReturns` |
| `sv_message` | as `sv_bench` | the encoder codes another message than the one the bench sends (below) |

**Bounds.** The sizes 7, 3 and 2 keep the shape of 255, 239 and 16: message and codeword each
end one symbol before the chunk does, and each takes several chunks. With 7 and 3 a packet
has one generated and two stale symbols, as 255 and 239 have 237 and two. Two packets in
succession (one for each number of errors) show what one leaves to the next. GF(8) is the smallest
field with a 2-error code that has more than one data symbol; tt + 1 errors include all the
ways `decode_rs` has to fail. Initial memories hold one symbol everywhere (or one stale int,
in `stale_symbols`). The handshake does not depend on the data, so its run has one symbol
and the real sizes. Four processes give a list a first, an inner and a last one beside the
running one; five signals and the clock give the update list every length, order and repetition.
11, 7 and 3 give the SystemVerilog bench three chunks to send, the last not full, and four to receive: a
chunk taken early or late is never the right one by accident of the sizes, and the four vectors
differ in every chunk. `spec_main` has real sizes and so only one pattern of errors for each number:
a burst over the border of data and parity for odd numbers, spread with both ends for even
ones; it is `decode` that is exhaustive. `Horizon` in `Monitor` caps the age of an edge: past it no property
looks at it.

**Fairness.** `WF_vars(Next)` in `MainTopLevel`: the SystemC scheduler resumes every runnable
thread and `sc_start(-1)` advances the clock until `sc_stop()`. No fairness is assumed of
one thread against the other. The redraws of the injection loop are not modelled as steps
(the model picks a set of different indices), so `Terminates` says nothing of `rand()`; what
the code does for them is that a used index is refused and no other, `UsedOnce` of `GeneralRS`.
`SCScheduler` assumes `WF(KernelStep)`, the kernel's loops go on, and `WF(Wait)`, every thread
comes to its next `wait()`, which in both threads is at most one pass of a finite loop away.
`SVTestBench` assumes `WF(Next)`, as `MainTopLevel` does. The other runs check safety only.

## 4. Findings

Each is a run whose property TLC violates.

* `RSEncoderTB.cpp:175`: an error index is `rand() % 256` but the packet has 255 symbols.
  Index 255 changes `data[0]`, and a correct packet is counted as badly encoded (`index_256`).
* `RSEncoderTB.cpp:117`: the last two symbols of `data[]` are never generated. Unless
  their memory happens to hold values of symbols every packet is counted (`stale_symbols`).
* `test_RSEncoder.sv:105`: the bench sends its first chunk as soon as `ready` rises and one more at
  each edge; the encoder takes its first one two edges later. It codes the vector from the
  second or third chunk on (the order of the two at an edge decides), the last one repeated
  (`sv_message`). In the other direction the bench stores the first chunk twice
  (`ReceivesOneChunkLate`), so it ends without the codeword's last one.
* `pkg_reed_solomon.sv:140`: `gg[0]` is updated inside the loop over the terms, so the
  polynomial is not the product its comment describes (`tables_sv`).

Four of the five assertions of `Monitor.sv` ask for something else than their comments say, and fail
(`AttemptsFail`, proved as `AssertionsAsWrittenFail`). What the comments say does hold; the passing properties
are about the comments, and contradict the assertions as written in these places:

| Assertion as written | What the encoder does | Shown by |
|---|---|---|
| 1 (`Monitor.sv:10`): both signals low in the cycle after `valid` rose | `valid` is up for 16 cycles | `ValidWhileSending` |
| 2 (`:17`): both signals low in the cycle after `ready` rose | `ready` is up for 16 cycles | `ReadyWhileReceiving`, at age 1 |
| 3 (`:24`): `ready` falls 15 cycles after it rose | it is up then and falls a cycle later | `ReadyWhileReceiving`, at ages 15 and 16 |
| 5 (`:38`): always one of the two is high | both are low in the cycle after a reset | `AttemptsFail` |

Assertion 4 agrees, its `stable()` aside, which is not modelled. It is the assertions that are wrong and not the
encoder: a message takes 15 chunks, of which the first is read a cycle after `ready` was seen up, and a codeword 16.

The SystemVerilog bench never calls `generate_gf` or `generate_poly`, so its `decode` finds tables of
zeros and makes any word zero, whatever was injected; and `$random(j)` takes the loop variable for its seed and
changes it, so how many vectors are sent is the generator's choice (the model lets any seed
come back). Its `error_status` has 16 cells for 255 indices.

`decode` says that no store leaves `elp[][]` with up to `tt + 1` errors, all the test bench
injects. That is a limit and not only a bound: `RSEncoderTB.cpp:434` stores a coefficient behind the last row
just when every syndrome but the last is zero (`OverrunIsExact`), which takes `2*tt` errors or more. The
store is then harmless only if what follows the array is; the call gives up with the word as it was.

## 5. What is proved

For every value of the constants that meets the assumptions. `SafetySpec` and `Spec` are those of
the module named.

| Module | Theorem | Statement |
|---|---|---|
| `MainTopLevel` | `LockStep` | `[]IInv`, the inductive invariant |
| | `TypeCorrect` | `[]TypeOK`, with the bounds of the counters |
| | `StepsAreCounted` | `EveryStepCounts` |
| | `MutuallyExclusive` | `[]MutualExclusion` |
| | `EncodedIsTheMessage` | `[]EncodesTheMessage` |
| | `ReceivedIsTheCodeword` | `[]ReceivesTheCodeword` |
| | `MessageIsKept` | `MessageKept`, if `nn \notin RandIndex` |
| | `UsesTheKernel` | `KernelSpec` of `SCKernel` |
| | `AlwaysRecovered` | `[]Recovered`, if `nn \notin RandIndex` and the memory holds symbols at first |
| | `Implementation` | `ImplementsStoreAndForward`, under the same two conditions |
| `Monitor` | `MonitorInvariant`, `MonitorTypeCorrect` | `[]MonitorInv`, `[]TypeOK` |
| | `ReadyLeadsToValid`, `ValidLeadsToReady`, `ReadyStaysUp`, `ValidStaysUp`, `NeverBoth` | the five assertions, as their comments state them |
| | `AssertionsAsWrittenFail` | `[]AttemptsFail`: no attempt of assertions 1 to 3 as written succeeds, and 5 fails after a reset |
| `SVTestBench` | `SVInvariant`, `SVTypeCorrect` | `[]SVInv`, `[]TypeOK` |
| | `BenchWakesOnRise`, `BenchReceivesLate` | `[]WakesOnRise`, `[]ReceivesOneChunkLate` |
| `SCDispatch` | `DispatchInvariant`, `DispatchTypeCorrect` | `[]DInv`, `[]DispatchTypeOK` |
| | `DispatchQueuedOnce` | `[]QueuedOnce` |
| | `DispatchRunsInOrder` | `RunsInOrder`: the linked lists implement `RunOrder` |
| `SCScheduler` | `SchedulerInvariant`, `SchedulerTypeCorrect` | `[]SInv`, `[]TypeOK` |
| | `SchedulerUpdateList` | `[]UpdateListSound` |
| | `SchedulerImplementsKernel` | `ImplementsKernel`: the kernel of the headers implements `SCKernel` |
| `ReedSolomon` | `SentIsCodeword` | parity and message, as `Encode` makes them, have value 0 at every root of the generator |
| | `MinimumDistance` | two codewords differ in more than `2*tt` symbols |
| | `GeneratorNonZero` | no coefficient of the generator is zero, so that `encode_rs` meets no index -1 in `gg[]` |
| `BoundedDistance` | `DecodeInvariant`, `DecodeTypes` | `[]DecodeInv`, `[]DecodeTypeOK` |
| | `KeyEquationHolds` | `[]KeyEquation`, for every word |
| | `RootsStayInBounds` | `[]RootsInBounds`, for every word |
| | `RowsStayInBounds` | `[]ElpInBounds`, if the channel adds fewer than `2*tt` errors to a codeword (`FewErrors`) |
| | `DecoderImplementsIdeal` | `ImplementsDecoder`: `decode_rs` implements `Decoder`, for every word |
| | `OverrunIsExact` | when a coefficient is stored behind its row of `elp[][]`, for every word |
| | `SystemAssumptionsHold` | `EncodeAssumption` and `MinimumDistanceAssumption` of the system hold of `encode_rs` |
| | `DecoderOfTheSystem` | what `decode_rs` leaves in `recd[]` is in the system's `Decode` |
| `GeneralRS` | `TablesHold` | `[]TablesOfTheField` |
| | `RootsHold`, `IndexFormHolds` | `[]RootsOfGG`, `[]GeneratorInIndexForm` |
| | `GaloisHolds` | `[]GaloisAgreesWithTables`, for the field of the program (`ProgramField`) |
| | `RemainderHolds` | `[]RemainderSoFar` |
| | `SentIsACodewordHolds` | `[]SentIsACodeword` |
| | `UsedOnceHolds` | `[]UsedOnce` |
| | `ProgramTypes` | `[]TypeOK` |
| | `VectorsComeBack` | unless index `nn` was drawn, the data `main` compares is the data it encoded |
| | `AlwaysOKHolds` | `[]AlwaysOK`, if no draw gives `nn` (`DrawsInside`) |

`SchedulerImplementsKernel` and `UsesTheKernel` meet in `SCKernel`: what the threads rely on is what the lists,
the clock and the phases provide. The theorems about the system and those about the code meet in `RSCode`: with `ParityOf` for `Encode`
its assumptions hold (`SystemAssumptionsHold`), and what a call of `decode_rs` returns with is one of the
words the test bench is modelled to go on with (`DecoderOfTheSystem`).

**Assumptions.** Of the system: `CodeAssumption` (`kk > 2`, `tt > 0`), `SizeAssumption`,
`ByteAssumption` (what the ports do with an int), `EncodeAssumption`, `InitialMemoryAssumption`,
`TestBenchAssumption` and `OverrunAssumption`: a chunk is at most one longer than the parity and
shorter than the message, which 16, 16 and 239 satisfy. The last one is where the overruns are paid for: with
wider chunks the tail would leave the neighbouring array or reach symbols it must not.
`MinimumDistanceAssumption` says that no two codewords are within `2*tt` symbols of each other;
only `Recovered` and `ImplementsStoreAndForward` use it. It and `EncodeAssumption` are assumptions so that the
system can be stated for any code; `SystemAssumptionsHold` proves both of the code of the repository. The two conditions of these theorems are the two findings about
`RSEncoderTB.cpp`: the runs `index_256` and `stale_symbols` show that neither can be dropped.
Of the SystemVerilog bench: `BenchAssumption`, and `SymbolAssumption`, that symbols are indices of the
tables. Of the kernel: `PointersDiffer`, `NobodyAssumption` and `KernelAssumption`, that processes,
channels, null and the end marks are different pointers and processes are finitely many.
Of the code: `FieldAssumption` and `CodeSizeAssumption`, the sizes of field and code; `PrimitiveAssumption`, that every
symbol but zero is a power of alpha, which is what the polynomial `pp` is chosen for and TLC
evaluates for `1 + x^2 + x^3 + x^4 + x^8`; `WidthAssumption`, that symbols fit the ints; `ChannelAssumption`, that words and errors are symbols;
`VectorAssumption`, that `rand()` fills `data[]` with symbols and that an index and a byte are `rand() % 256`
(`general_RS.c:518`, `:521`), so that an index may be `nn`, one behind the array. `DrawsInside`, the condition of
`AlwaysOKHolds`, is the negation of that finding; `VectorsComeBack` does without it. `FewErrors`, the condition of
`RowsStayInBounds`, is the limit stated at the end of section 4, and the test bench injects half as many at most.
`ProgramField`, the condition of `GaloisHolds` alone, gives `mm` and `pp` the values of `RSCommon.h`: the terms of
`galois` are written out for them.

**The system.** Nothing in the protocol says where the other side is: `ready` read true
does not tell which chunk is expected. So `EncodesTheMessage` is not inductive, nor is any
property of the signals. `Phases` describes the only global states there are: nine phases
of a clock cycle, four of them with the number `c` of symbols handed over so far, each saying where
either thread is before and after it has run in this cycle, what the control signals
are and which chunk they carry. `IInv` adds what each side has stored so far
(`EncoderStored`, `EncoderCoded`, `TestBenchReceived`), that the test bench has generated its
message, and the types. There is one lemma for each action that it preserves `IInv`; the
phases give the position of the other thread, hence the chunk on the wires. The overrun
is in `Flow`: what follows the codeword in the encoder's memory is the message, so the tail
the test bench stores over its `data[0]` is the `data[0]` it already has. `MessageKept` then
follows: the receive loop is the only one that stores into `data[]` and it stores what is there.

`UsesTheKernel` says of every step that it is one of `SCKernel`: a thread that is runnable writes to the
ports of its own module only, and the values it reads stay as they are until the next edge. It
needs the types of both states, which `IInv` has.

`JudgeInv` adds to `IInv` that what the test bench holds are symbols and that, once an encoding is made,
it is that of the message. `AlwaysRecovered` is then about the decoder: the number of places
where words differ is a metric, injecting `n` symbols moves a word by at most `n`, so up to `tt` of them leave
just one codeword within `tt`, and the decoder gives its message back. `Implementation` shows for
each action which step of `StoreAndForward` it is; the phases say in which stage the packet is.

**Nobody waits in vain.** `StepsLeft` adds up what is left of the program: the packets, the turns of the
test bench within a packet (`TurnsLeft`) and the steps to its next turn. A thread that looks at a signal and
waits again has come no further in the code, so that the measure falls there only because the phases say how many
cycles off the other side is: neither loop has a timeout, and none waits longer than the other side takes. The measure is a natural
number, so a behaviour has finitely many steps. That they lead to the end of the program, and do not stop
before it, needs fairness and is `Terminates`, of TLC.

**The assertions.** A reset may come in any cycle, so that the encoder's place and the ages of the two
edges, which is what an assertion of `Monitor.sv` remembers, are related anew each time. `AtEdge` gives for each
place of the encoder the values of the signals, those before, and the ages; `BeforeEncoder` and
`AfterEncoder` say which edge it is about, and that a reset has made both ages `Never`.

**The SystemVerilog bench.** `SVPhases` has seven phases. While the bench sends it is a chunk ahead of
the encoder, while it receives it is level with it, and the two event controls hold it in the
step in which a signal rises; `ReceivesOneChunkLate` is in the invariant, as the contents of `recd[]` so far.

**The run lists.** A list is one field of each process and a tail, so that what a list contains is
reached by following the links, recursively. `Linked(q, a, b)` says without following them that
the push list is the sequence `a` and the pop list `b`: each element's link is the next one, the
last one's is the end mark, every other process is unlinked. There is one lemma for each of the seven operations,
what it does with `a` and `b`. `ReadsOut` shows that the walk along the links gives back `a`
and `b`, by induction over the number of steps; the recursive function of the walk is a `CHOOSE`, so that a
function with its equation has to be given first. Refinement is then one line for each operation.

**The scheduler.** `SInv` has four parts: the lists are linked and hold what they are for; a requested value
belongs to a channel on the update list, whose elements are numbered from its end
(`Pending`), so that a request adds a number and a round of `perform_update` takes one away; the
kinds of notification an event can have; and what may be left to do in which phase. For `ImplementsKernel` the phases fall into three
stages of a clock cycle: threads are running; they have run and the update is not over, so that `cur` is old; it is
over and `cur` is what the next cycle reads. A step stays in its stage and maps to a
stutter, or is the one that maps to `NextEdge`, or is a thread's.

**The code.** Multiplication by alpha is additive and commutes with itself, and so is everything
built of it: products, sums (`XorSum`, by induction over the number of terms) and the value of a polynomial at a power of
alpha. `Prefix(m, i)` is the polynomial of the register after `i` symbols of message `m`, with those
symbols above it. One round of the register adds a multiple of the generator to x times that, so that
its values at the generator's roots stay 0: that is `SentIsCodeword`. For `MinimumDistance`, suppose a word whose
values at `2*tt` successive powers are 0 has as few as `2*tt` symbols that are not 0. Weighting the symbol at `k` by alpha^k
shifts the powers by one; adding alpha^p times the word cancels its symbol at `p` and keeps the others,
the powers being different. So there is a word with one symbol less and one value less to be 0, and in the end one
with a single symbol and the value 0 at 1, which is that symbol.

**`encode_rs`.** `bb[]` is the register only between the rounds: within one, the cells above `cell` are shifted
and the others are not, and what an earlier call left is there until `Clear`, which is why `RemainderSoFar` is not inductive. `IInv` of
`GeneralRSProofs` says what `bb[]` is at the three places of the loop (`EndsInv`, `SymbolInv`, `ShiftInv`), that
`feedback` is the sum that was computed from the cell which is now overwritten, and what the
arrays handed to the decoder hold. The polynomials are over sets of bits and the code works on ints; `BitsIs` and
`XorInts` prove by halving, for every width, that `^` of two ints is the sum of the sets. `AlphaTo`, `IndexOf` and `GG`
stand for the tables in `RSEncode`: that the program's are these is `TablesHold` and `IndexFormHolds`.

**The tables.** `TablesInv` has a part for each loop. Below alpha^mm a power is a single bit and
`alpha_to[mm]` is the sum of the bits of `pp` passed so far (`LowInv`); above it each power is the one before,
shifted, and reduced just when its top bit was set (`HighInv`). No power is met twice, so that `index_of[]` is never overwritten
and at the end is the inverse (`FieldInv`). `gen_poly` multiplies a factor in from the highest term down and in place: above
`tabTerm` the terms are those of the new product and the others still of the old one (`TermsInv`), and the roots are those of the
factors because a product is zero only where a factor is.

**`galois`.** A bit of the product is the sum of the bits of `a` that a column of its terms picks (`Picked`), for each bit of `b`.
That the column of a bit is the one before, shifted and reduced, is one comparison for each bit of either factor (`TermsStep`), in place of
the 65536 pairs; with it `galois` adds up the same multiples of `a` as the product does (`GaloisMultiplies`), and
`TablesHold` says the same of the tables.

**`decode_rs`.** The syndromes are a property of the errors alone (`Explains`), and the argument is about syndromes: what it shows
holds of every word, correctable or not. `Tracks` says of the rows of `elp[][]` that row `r` is a polynomial
with constant term 1 that generates the syndromes before `s[r]` (`Row`), that `d[r]` is what it fails by at `s[r]`,
and that the degree of the newest is the greatest `q - l_lu[q]` of the rows before that failed (`Leads`, what the choice of `q` by `u_lu` is
for). From the last one follows Massey's bound: a word whose errors have these syndromes has at least that many of them
(`Short`). Hence, when the degree exceeds `tt`, no codeword is near and giving up is right; and when it does not, a root found is a location.
Roots divide out one by one (`Division`), so that a polynomial has no more of them than its degree (`RootCount`) and `root[]`
has room; every location is one (`LocationsAreRoots`), so that fewer than the degree show more than `tt` errors.
Otherwise each symbol corrected is Forney's quotient, which the code evaluates in index form. Whether the word was correctable
or not, it takes away the part of `z(x)` that belongs to this root (`OneCorrected`), and `Correcting` says what is
left; after the last one nothing is, and the syndromes are zero (`NothingLeft`): the word is a codeword, within `tt` symbols. `WordPart` has for each way out the form
`recd[]` is in, and `OverrunPart` when a coefficient is stored behind its row: the row to be combined with is that far back only
if no earlier syndrome failed (`OnlyLast`), and the degree `2*tt` then sends the call to its last way out. `DecodeInv` joins these parts, and `DecoderImplementsIdeal` maps the step that returns to `Intact`, `Correct` or
`GiveUp`, every other one to a stutter; that `AllCodewords`, the encoded messages, are all words with syndromes zero is `CodewordsAre`.

**The executable specification.** `ProgramInv` adds to the above what `main` holds between its calls. `Damaged` says of the word that is
received that it differs from the one sent at the used indices only, of which there are at most `tt`, and that the word sent is a codeword.
`decode_rs` returns a codeword within `tt` symbols; so does the word sent lie, and there is one such only: the data compared is the data
encoded. An index `nn` changes `data[0]`, after it was sent, and nothing is claimed from then on.

Induction over the natural numbers, which the library states with an operator as a parameter, is used here
as a fact about sets (`NatSetInduction`: a set of naturals that has 0 and is closed under successor has all of them),
proved from the well-foundedness of `<` on them.

The inductive invariants of the system, the assertions, the bench and the kernel were checked by TLC before they
were proved: `IInv` is in `packets`, and
`JudgeInv` (44404 states), `SVInv` (72951), `MonitorInv` with `AttemptsFail` (1152) and `DInv` (261) passed on the instances
of these runs; of `SInv` the run `kernel` checks `UpdateListSound` and the types. `IInv` of `GeneralRSProofs` passed
for GF(8), tt 2, with every message and every error (166168 states). `DecodeInv` and `TablesInv` quantify over polynomials and choose products,
which TLC cannot enumerate; of these the runs `decode` and `spec_main` check the properties they were made for.

**Only model-checked.** Liveness (`EveryPacketReturns`, `Terminates`, `EveryThreadRuns`,
`EveryVectorReturns`), since it needs fairness and `ENABLED`. Every other property of a run that passes
is proved. The findings are counterexamples, of TLC.

## 6. Not modelled

The implementation's own code, about 2750 lines with headers and comments, is modelled except for what
follows. The repository also holds some 80000 lines of SystemC, boost and TLM headers; of these the
program uses what `SCScheduler` models and the conversions of `sc_uint<8>` (`ToByte`): its threads are queued by
the clock (`TriggerStatic`, as `Trigger`), taken from the front in turn and give way in `wait()` (`Dispatch`, `SuspendMe`). `SCDispatch` has more
than that: the headers also push a thread to the front, take one out and let one preempt another,
on the same lists, and the run `queues` and its proofs cover these, but this program never does any of the three.
The rest, most of it number types, is not reached by the program, so that
a model of it would say nothing of the encoder.

* Kernel: the loop over the phases and `sc_event::trigger` are in the library's `.cpp` files, which are
  not in the repository; they are modelled from how the headers use them and marked external. Process control
  (suspend, disable, kill, reset of a process), dynamic waits, preemption by a method, the
  check of multiple writers and `wait(n)` with n > 1 are not used and not modelled. The restart of
  a thread by its reset signal is modelled in `RSEncoder`.
* SystemVerilog package: `decode` beyond the path it takes with tables of zeros, which is the
  text of `decode_rs`; `galois`, which nothing calls.
* The ring buffer example; printing; the values of `rand()`.
* Liveness of `GeneralRS`: its steps are deterministic but for the draws, and a redraw may go on for ever
  unless `rand()` is fair.

## 7. Plan

Done: the system (`MainTopLevel`) first, since the handshake without acknowledgement is what a
test can least exercise; its proofs; the assertions; the coding functions; the kernel
below it and its refinement; the store-and-forward specification above it; the executable
specification; the SystemVerilog bench.

Proved, in this order: the lock step of the system, the handshake assertions, the store-and-forward
refinement, the SystemVerilog bench, the run lists and the scheduler with its refinement, the code and
`encode_rs`, the tables, `decode_rs` with its refinement, and the whole executable specification.

Last: the measure of the system's steps, `galois`, exactly when a row of `elp[][]` is overrun, and that the
system's assumptions on its code hold of the code of the repository. Nothing is left of the plan;
liveness and the findings stay with TLC.
