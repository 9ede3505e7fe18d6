# Kache-Risc-V in TLA+

A verification project for the RV32IMAFC system-on-chip in this repository: a five-stage pipelined
processor with its control logic, register and CSR files, FPU, memories and UART, written in
Verilog, and the firmware that runs on it, written in assembly and C. Paths below are relative to
the repository; `P/` stands for `src/Processor/Pipeline/`.

The source is the reference. Every operator is named after the wire, register, function or label it
models, and `PROJECT.json` ("map") gives the lines.

## 1. The system

| part | state | operations | talks to |
|---|---|---|---|
| Fetch unit (`P/FetchUnit.v`) | `PC`, the `FD_*` registers | fetch, redirect to a prediction or a correction, stall, squash, reset | instruction memory, decode, execute |
| Decode unit (`P/DecodeUnit.v`) | `DE_*` registers, branch history table and `branchHist`, return address stack `RAS_0..3`, `DD_privilege` | decompress and decode, predict, raise data hazards, enter and leave traps | fetch, execute, control unit, CSR file |
| Execute unit (`P/ExecuteUnit.v`) | `EM_*` and `EF_*` registers, divider, FPU | forward operands, ALU, branch resolution, division, FPU, CSR and atomic operations, halt | decode, memory unit, data memory, CSR file |
| Memory unit (`P/MemoryUnit.v`) | `MW_*` registers, LR/SC reservation | store, align loads, write CSRs, SC | data memory, I/O, CSR file |
| Write-back and registers (`P/WriteBackUnit.v`, `RegisterFile.v`) | 32 integer and 32 FP registers | one write a clock, three reads | execute unit |
| Control unit (`ControlUnit.v`) | none | stall and flush equations | all units |
| CSR file (`CSR_RegFile.v`) | trap CSRs, `fcsr`, counters | read, write from the memory unit, write by a trap | decode, execute, memory unit |
| Memory (`src/Memory.v`) | ROM, RAM | two combinational reads, one clocked write | fetch, execute, memory unit |
| I/O (`src/IO.v`) | LEDs | write a byte to the UART, read its busy flag, set LEDs | memory unit, UART |
| UART transmitter (`src/Extern/txuart.v`) | state, baud counter, shift register | start a frame, shift, wait after reset | I/O, the serial line |
| FPU (`src/Processor/FPU`) | counters and working registers of FDIV and FSQRT | arithmetic, some in many cycles | execute unit |
| BIOS (`firmware/OS/BIOS`) | machine stack, trap frame, `mscratch` | boot, trap entry and exit, SBI calls, `_putchar` | the kernel, the UART |
| Kernel (`firmware/OS/kernel.c`) | its stack | SBI calls | the BIOS |
| Libraries (`firmware/libs`) | scratch buffers, the argument list | printf and its conversions | programs, `putchar` |
| Test programs (`firmware/archive`, `firmware/dhrystones`) | their variables | FPU tests, Dhrystone | the processor |
| Simulation bench (`tb`) | the receiver of the serial line | sample the line, write bytes | the UART |

The hardware runs on one clock; concurrency is that of hardware. In every cycle five instructions
are at work on the same registers, memory and CSRs, each unit deciding from what the others hold
*now* what it will hold next. The hard behaviours are therefore:

* **order**: reads happen in the execute unit, writes of memory and CSRs one stage later, of
  registers two stages later, while privilege and the trap CSRs are written in decode, *earlier*
  than anything in front of them has been executed;
* **speculation**: the fetch unit follows guesses; a wrong guess is noticed in execute and must be
  undone in fetch, decode and the return stack, through signals that last for one cycle;
* **stalls that meet flushes**: five conditions stall and three flush, each unit reacts to its own
  subset, and a stall keeps what a flush meant to throw away;
* **multi-cycle operations**: the dividers and square root start, count and report in a handshake
  with the stall logic;
* **resets** at any edge, of which parts of the processor, the UART and the receiver each remember
  something;
* **edges of number formats**: rounding, alignment, subnormals, infinities, widths and precisions;
* **agreements between languages**: the trap frame is stored and loaded by assembly and read
  through a C struct; a byte is written by software, framed by hardware, sampled by the bench.

What makes the parts correct:

* the pipeline as a whole executes the program one instruction after another, whatever the
  predictor guesses;
* control unit: what is squashed stays squashed, corrections are not lost, nothing stalls for ever;
* decode: traps belong to executed instructions; execute: operands are final values, a started
  division finishes; memory: loads and stores in order, reservations broken by every store;
  CSR file: no write lost, counters read in two halves
  make one value; decompressor: every halfword expands to the instruction it encodes; RAM: an array
  of bytes for the program, whatever lanes they travel on;
* FPU: results are the rounded exact results, and belong to the instruction that takes them;
* BIOS: a call returns with its answer and every other register as it was; console: what is printed
  arrives, in order;
* printf: prints what the C standard says, within the caller's buffer; test programs: find nothing.

## 2. Plan

| module | what | status |
|---|---|---|
| `Instructions`, `Isa` | vocabulary; abstract specification, one instruction per step | done |
| `Pipeline`, `PipelineRefinesIsa`, `MCPipeline` | the five units, control unit, CSR file and memories, one clock edge per step; the refinement mapping; programs for TLC | done |
| `PipelineProofs` | type correctness, the control invariant, the hazard properties, and resets | done |
| `RefinementProofs` | the pipeline implements `Isa`, proved for all programs that keep five rules; how long it may stall | done |
| `PipelineReset`, `MCPipelineReset` | the same pipeline under resets of any length | done |
| `DivideUnit`, `MCDivideUnit`, `DivideUnitProofs` | restoring division with signs, zero and overflow, proved for every width | done |
| `FpuDividers`, `MCFpuDividers`, `FpuDividersProofs` | handshake of FDIV and FSQRT with the execute unit on both clock edges | done |
| `Bytes`, `ByteMemory`, `LoadStore`, `LoadStoreProofs` | abstract byte memory with one reservation; memory unit and RAM; the refinement, proved | done |
| `Decompressor` | all compressed encodings, expanded and decoded, against the architecture's table | done |
| `FpuArith`, `Fpu`, `FpuProofs` | the single-precision data path for every format; its instructions against exact arithmetic, proved for every format | done |
| `FpuPrograms` | the two FPU test programs on that data path | done |
| `CFormat`, `Printf`, `MCPrintf` | what the C standard wants; printf; calls for TLC | done |
| `Dhrystone` | the benchmark | done |
| `Counters` | cycle and instret, the firmware that reads them in halves | done |
| `FirmwareProofs` | both for any number of runs and any width of the halves | done |
| `MCPrograms` | the four kinds of image as one specification | done |
| `MCDatapath` | FPU, decompressor and memory unit, each on its own, as one specification | done |
| `Sbi`, `TxUart`, `UartSim`, `Console`, `MCConsole`, `ConsoleProofs` | BIOS and kernel; transmitter; receiver; their composition and its proofs | done |
| `CsrFile`, `BranchPredictor` | `fcsr` and the CSR masks; GShare history and its table | not modelled, see section 7 |

## 3. How the model corresponds to the code

### Processor

`Instructions` holds what the abstract machine and the pipeline share. An instruction is a record
with an `op` (the `is...` flags of the decode unit), `fn` (funct3 and funct7), registers, immediate,
CSR and size (2 or 4 bytes). Arithmetic is left to CONSTANT operators (`Alu`, `Div`, `Fpu`,
`FpuLong`, `AmoOut`, `CsrOut`, `Taken`, `Plus`...) of which only the types are assumed: nothing the
pipeline has to get right depends on what an addition computes. The trap functions (`TrapPrivilege`,
`TrapTarget`, `PrivilegeSet`, `TrapSet`) are those of `DecodeUnit.v:262-292`.

`Isa` is the sequential machine: registers, memory, CSRs, privilege, reservation and a PC; one
action `Step` runs the instruction at the PC; an EBREAK stops it.

`Pipeline` has a variable for each group of registers: `PC`, `FD`, `ras`, `priv`, `DE`, `EF`, `div`,
`fpu`, `EM`, `MW`, `regs`, `mem`, `csr`, `resv`. `Clock(taken)` is one rising edge: one conjunct per
unit (`Fetch`, `Decode`, `Execute`, `Memory`, `CsrFile`, `WriteBack`), each computing its registers'
next values from the wires of the current cycle, as non-blocking assignments do. `taken` is the
answer of the branch history table for the instruction in decode. Wires are state functions with the
names of the code (`dataHazard`, `D_stall`, `E_flush`, `E_correctPC`, `F_PC`...). Three
abstractions: a slot that was squashed is a `Bubble` with fixed other fields (the code clears the
flags that give those fields a meaning), the history table is a free choice, and the quotient that a
unit of the FPU grows while it counts is left out. What no reset initialises (return
stack, reservation) starts with any value of `PowerOn`.

`div` is the integer divider, `fpu` the three units of the FPU that take many cycles, FDIV for
singles and doubles and FSQRT (`UnitOps`; every other FPU operation takes one). Each has its
`counter`, which restarts whenever its instruction is in the execute unit and the counter is zero
(`Starts`), and `ready`, `ready_o` as the cycle sees it: it is set on the falling edge in between,
for one cycle after the counter has come to zero. Until then `E_fpuBusy` is part of `aluBusy` and
holds the pipeline, for `LongCycles` of the unit and its operands, at most `MaxCycles`: one for NaN,
zero and infinity (`SPECIAL_CYCLES`), else `DIVIDE_CYCLES` (27 for singles, 56 for doubles) or
`SQRT_CYCLES` (26). `x` and `done` remember which operands the unit began with and whether it has
counted down. If these are the operands at hand the result is `FpuLong` of them, otherwise anything
(`FpuStale`) made of the one (`FpuPart`) and the other: an unfinished quotient, or one that mixes
two instructions.

`PipelineRefinesIsa` maps the pipeline to the sequential machine as its programmer sees it: the
instructions in the execute, memory and write-back units count as executed, so registers are those
of the register file with the two pending writes applied, memory, CSRs and reservation those with
the memory unit's pending write; the PC is that of the oldest instruction not yet executed, which is
in the decode unit, or in a correction under way, or at the fetch PC. The module also has the rules
for programs, `TrapsSpaced`, `StallsSpaced`, `UnitsSpaced`, `FusedSpaced` and `ReadsSpaced`
(section 5).

`PipelineReset` lets `reset_i` rise and fall on any edge; each step is the same `Clock`. `held`
counts the edges it has been high for and `settled` remembers whether the last reset was long
enough. In `Pipeline` itself `reset` stays low and `Init` is the state a long reset leaves
(`Drained`), which `PipelineReset` justifies: the flags of the execute and memory units, the divider
and the units of the FPU have no reset and must drain. `DivBits + 4` edges (36 for the 32-bit
divider) are enough and one fewer is not. The FPU adds nothing to it: its counters are cleared as
soon as the execute unit is empty (`FDIV.v:78`). After a shorter reset a division that is still
running stalls the decode unit while the reset's squash is withdrawn, and the instruction left there
is executed after the reset.

`DivideUnit` is the data path the pipeline takes as given: magnitudes, mask, restoring steps, signs.
Registers are numbers below `Pow[Width]`. `E` is the instruction in the execute unit; it stays until
`aluBusy` falls, or is flushed by a CSR hazard (`ControlUnit.v:31`) and leaves the division running.

`LoadStore` is the data side with its bytes. An access is a record in `EM`: `Execute` is its cycle
in the execute unit, where RAM is read (two words, `Memory.v:37`), `Memory` its cycle in the memory
unit, where RAM is written through `storeMask`, the reservation is updated and the value read is
aligned. The two alternate, because the pipeline lets no read pass a write (`LoadsWaitForStores` of
`Pipeline`). A byte is a member of the constant `Byte` of which one can tell its sign; a register
has eight of them, as registers of the double-precision FPU have. `ByteMemory` is what a program may
rely on: an array of bytes accessed 1, 2, 4 or 8 at a time at aligned addresses, and at most one
reserved address. The mapping is direct: `bytes` is `DATAMEM`, `result` the destination register,
`reserved` the address of the last LR unless `MM_reservedChanged`.

`Decompressor` has a halfword as the function from bit numbers to bits and an instruction as a
sequence of 32 bits, so that concatenation is that of Verilog. `Fetch` takes a halfword, `Decode`
expands it (`dcmp`) and reads the fields of the result as the decode unit does (`Decoded`).
`Encoded` is the reference, written from the other end: which power of two each bit of the halfword
is worth. Words with both low bits set pass through the Verilog unchanged. For reserved halfwords
the code keeps what it expanded last (`Decompressor.v:94`); they are not in any program.

`Counters` is one clock per step: `Tick` is what `CSR_RegFile.v:201-212` does to the two 64-bit
counters, here pairs of halves, while `Program` runs one instruction of `rdcycle` or `rdinstret`
(`perf.S`), called as `show_CPI_2` (`stubs.c`) calls them, or waits. `begun` is the counter when it
was asked for. The wrap of all 64 bits, 23,000 years at 25 MHz, is left out (`MaxCount`).

### FPU

`FpuDividers` models the multi-cycle units once more, apart from the pipeline and in more detail,
because they are the only part that works on both clock edges. `Pipeline` has what the control unit
sees of them, clock by clock; here is what goes on in between: `Rise` is the rising edge, with each
unit's counter and result register and the execute unit taking its next instruction when `aluBusy`
lets it; `Fall` is the falling edge, which sets `busy` and `ready_o` from the counter. A result is
the record of the operands its significand, exponent and rounding were computed from, which is all
it takes to see a computation that mixes two instructions or stops early. The pipeline is reduced to
what the units see of it: the instruction in the execute unit, held while a unit is busy or flushed
by a CSR hazard, and then any other. `Spacing` is the number of clock cycles the program lets pass
between two instructions of one unit; `UnitsSpaced`, two instructions in between, provides the two
that the properties need. A flush is only modelled when `Spacing` is at least 2, since the ECALL or
return that raised it itself puts two cycles between the flushed instruction and the next.

`FpuArith` is the data path itself, with `NEXP` exponent and `NSIG` fraction bits as in the
parameters of the Verilog: a float is a record of sign, exponent field and fraction; `Class`, `Exp`
and `Sig` are the outputs of `FClass.v`; `FRound` rounds a significand with its round and sticky
bits; `FADDd`, `FMUL`, `FDIV`, `FSQRT`, `FLT`, `FEQ`, `FLE`, `FCVTSW` and `FCVTWS` are one operator
per unit, with the special cases in the order of the code. A register of `2*(NSIG+1)` bits is a pair
of halves, so that single precision stays within the numbers TLC can compute. The clocked loops of
division and root are recursive functions over their steps (`DivideSteps`, `RootSteps`).
`almost_equal_ulps` of `fpuTest.c` is here as well, since two modules use it. `Fpu` puts one
instruction at a time through a unit, and states what the result has to be in integers: every float
of the small format is a multiple of the least subnormal.

`FpuPrograms` has the operands and expected results of `testFPU.c` and the checks of `fpuTest.c` as
data, and executes them an operation at a time on `FpuArith` with 8 and 23 bits. The C compiler may
fold some of the constants of `fpuTest.c`; the model computes all of them on the FPU.

### Firmware

`Printf` is one call, read a character at a time as `_vsnprintf` does: `phase` is the place in its
switch, `format` and `va` what is left of the format and of the arguments, `dir` the directive read
so far. A conversion gives its text to the output function in one step (`Produce`), which stores
what is in bounds (`Stored`) and counts all of it. Numbers are built backwards in scratch buffers,
as in the code, with the code's order of padding, prefix and sign. Words of 8 bits stand for 32 and
the buffers are shorter in the same way; `PRINTF_NTOA_BUFFER_SIZE`, `PRINTF_FTOA_BUFFER_SIZE` and
`PRINTF_MAX_FLOAT` are macros the file lets its user set. Doubles are rationals; the mantissa of %e,
which the code gets from a continued fraction within about 2e-8, is exact. `CFormat` is the
reference, written from left to right from the C standard's description. `PrintsLikeC` lists the
directives for which the two are known to differ (section 6).

`Dhrystone` has one action per call in the main loop. Strings are ranks in the order of `strcmp`, of
which only two characters are looked at. What is uninitialised holds anything of `Garbage`.

`Sbi` is the kernel, the trap handler and the SBI: one action per few instructions, `pc` the place.
`SaveOrder` and `LoadOrder` are the stores and loads of `bios.S`, `trap_frame` the struct of
`sbi.h`; the handler finds its arguments through the last and the assembly through the first two. C
code leaves `Junk` in every caller-saved register. `TxUart` is `txuart.v` as `IO.v` sets it up,
`UartSim` the receiver of `tb/uartsim.cpp`; each is an operator from one clock to the next. Data
bits are kept as a sequence in the receiver, oldest first, and as the bits of the shift register in
the transmitter; the receiver's edge counter is capped where it is no longer read. `Console` assumes
both ends set to one rate (`LinkAssumption`): `IO.v` asks for 217 clocks per bit, and the 868 in
`simMain.cpp` go with the call of the receiver that is commented out there. `Console` puts the three
on one clock: in each the devices tick, and the processor takes a step of `Sbi` or is still busy
with the last one (`Wait`), so that every timing of the software is covered. `Reset` is the button:
it clears the CSRs and restarts the program, the transmitter waits sixteen bits, and the receiver
knows nothing of it. `simMain.cpp` has its call of the receiver commented out and a `BENCH` build
prints without the UART; the composition is the one the two sources describe.

`MCPrograms` makes one specification of the images the board can run: FPU test, Dhrystone, one call
of printf, or `show_CPI_2`. `MCDatapath` does the same for the three parts of the data path that
work on bits; they share no state.

## 4. The runs

| run | programs or inputs | shows |
|---|---|---|
| `order` | 4-slot programs over ALU, load, store, LR/SC/AMO, branch, JAL, JALR, and over integer divisions, divisions and roots of the FPU, fused operations, 2-byte instructions, jumps, EBREAK | `ExecutesInOrder`: the pipeline implements `Isa`, under every prediction; and does not stop (`KeepsExecuting`: with the clock running, every next instruction is executed), nor stall for longer than the longest division or root and the hazards behind it (`StallsAreShort`); a started division or root completes; EBREAK is final; the invariants of the hazard and flush logic |
| `traps` | CSR set-up for machine and supervisor traps, ECALL, MRET, SRET | order among CSR instructions and traps; no CSR is read past a pending write and no write is dropped |
| `resets` | programs that have divisions, roots, CSR writes, traps and jumps in flight, reset at any edge for any time | how long a reset takes to drain the pipeline, and that all is sound after it |
| `divide_unit` | every division of 4-bit registers, in any sequence | the results, and that every division finishes; what each step keeps (`DivideInv`) is proved |
| `fpu_dividers` | any sequence of FPU instructions, two cycles between two of one unit | results belong to the instruction that takes them, and every one finishes, within the cycles of its unit and one more (`ReportsInTime`) |
| `datapath` | all pairs of 7-bit floats, all rounding modes; every compressed halfword; any three accesses to two words of RAM | FPU results are the rounded exact ones, or at least a neighbour; comparisons are those of the values; the ulp count counts floats; halfwords expand to what they encode; RAM is an array of bytes |
| `programs` | `testFPU.c` and `fpuTest.c` in single precision, twenty runs of Dhrystone, 10,700 calls of printf, the counters of `show_CPI_2` with halves of two bits | divisions match the table, all tests pass, comments and final values of Dhrystone hold, printf prints what C wants, within its buffer and in step with its arguments; the counters are read as of one moment and never show less than a clock per instruction |
| `console` | seven SBI calls over the UART, a reset at any clock | calls return, bytes arrive in order, only the first after a reset can be lost, and everything arrives |
| `wrong_path_trap`, `fma_after_load`, `halfway_fractions`, `compressed_doubles` | one program each, `%.1f` and `%.2f` of all ties up to 20, every compressed halfword | the disagreements of section 6 |

**Why the bounds are enough.** The runs of the pipeline use words of 4 or 5 bits, `Taken`, `Alu` and
the like with small concrete definitions in `MCPipeline`, ROMs of 4 slots (8 in `traps`) that wrap
around so that every program loops, two quotient bits per division, registers x0, x1 (the link
register), x4 and an FP register, and four RAM words. The pipeline holds at most four instructions
at once (decode, execute, memory, write-back), so four slots that loop put every sequence of their
instruction kinds in flight together; a hazard needs a producer, a consumer and at most two
instructions between them. Two quotient bits distinguish the first, an inner and the last cycle of a
division. The units of the FPU count three (`MCMaxCycles`), or one if the first operand is zero, so
that a first, an inner and a last count and the special case occur, and the FPU is the one that
stalls longest, as in the hardware (56 against 32). Four RAM words let two accesses meet in the same
word or in different ones. Words of four bits hold the addresses of the ROM, which is all that
matters to control; `traps` needs eight instructions and five bits. The fourth slot of `order` is
taken from three closing instructions (two for the second group), since the first three already meet
in every order and the loop returns to them. A divider of four bits has a first, two inner and a
last step, every sign, zero and the overflowing quotient.

`fpu_dividers` has two units, of three and of four cycles, and three operands of which one is
special (NaN, zero or infinity); a longer division only repeats its middle cycle. `datapath` has
three exponent and three fraction bits: subnormals, a shift across the whole significand and one
beyond it, every combination of round and sticky bit, carries into the exponent, overflow, and
infinities and NaNs. Its RAM has two words, so that a double fits once and an access has a
neighbour; stored bytes are of both signs and all different; three accesses are enough for LR, a
store and SC. `MCPowerOn` has the reservation set and not set. The decompressor gets all 65,536
halfwords but the reserved ones and those of 32-bit instructions. `programs` uses the program's own
constants in single precision; twenty Dhrystone runs are more than the loop needs to repeat itself,
and the theorem is for any number. The calls of printf combine all pairs of flags with widths and
precisions below, at and above the number of digits and the size of the scratch buffer. In `console`
a bit lasts four clocks and a frame has eight data bits; the bytes are those without an edge and
with an edge at every bit. After a reset the wait is sixteen bits of six clocks, which must and does
outlast a torn frame. Halves of the counters count to 4 (`Base`), less than a read of three
instructions can take, so that both carries and repeated carries fall into it. `HighPowers` is the
set of exponents for which the approximation of `_etoa`, computed in double precision, exceeds the
power of ten.

**Fairness.** `WF_vars(Next)` of the processor's modules: the clock keeps running. Every unit is
clocked by the same free-running oscillator (`src/SOC.v:76-87`), so this is what the hardware does.
`KeepsExecuting` needs no more, nor do `KeepsGoing` of the FPU and `DivisionFinishes`. `Console`
adds `WF_vars(Execute)`: the processor executes its next instruction some clock, which is what
`KeepsExecuting` shows; the steps of the processor are never disabled before its exit, so weak
fairness is enough. `EverythingArrives` allows for the torn byte of a reset within a frame.

Deadlock is checked everywhere but in `programs` and `halfway_fractions`, where programs end, in
`datapath`, whose memory stops after `MaxAccesses`, and in `compressed_doubles`. An EBREAK holds the
pipeline, but the clock still ticks.

## 5. What is proved

`PipelineProofs` proves with TLAPS, for every program, word type and data path that meet the
assumptions of `Instructions` and `Pipeline` (types of the operators, at least one quotient bit):

* `TypeCorrect`: `Spec => []TypeOK`;
* `ControlCorrect`: `Spec => []ControlInv`, the invariant the rest follows from;
* `SquashedIsFinal`, `CorrectionTaken`, `MemoryInOrder`, `ForwardingFinal`, `CsrInOrder`: the five
  properties of the hazard and flush logic, on all programs, those of section 6 included.

The argument. That a squashed slot is never revived is not inductive: it needs that the cycle after
a squash cannot stall, hence that the divider is idle (it would raise `aluBusy`), that the execute
unit is empty (no data hazard, no halt) and that no CSR write is in the memory unit (no
`csrHazard`). Those are `ControlInv`: `FD.nop` implies all three, because `FD_nop` is only set by a
correction, a correction is only raised by a branch or JALR, and such an instruction leaves neither
a division nor a CSR write behind it. A correction is registered together with the squash, so
`EF.correctPC => FD.nop` and the fetch unit must take it: it neither stalls nor hears a prediction.
The three ordering conjuncts are inductive with those: an operand that is not final would have had
to pass the data hazard in decode one cycle earlier. `TypeOK` supplies the ranges.

`RefinementProofs` proves that the pipeline implements the sequential machine. Not for every
program: section 6 names sequences that the control unit gets wrong. `ImplementsIsa` therefore says
for *every* program that the only ways to leave program order are these six:

* a trap is taken on a path the program does not take (`TrapsInOrder` is broken);
* a division or root that has started loses its result (`DivisionCompletes`);
* a unit of the FPU delivers what it had left from another instruction (`ResultOwn`);
* an EBREAK is squashed (`HaltIsFinal`);
* a fused operation reads a third operand that is not final (`ThirdOperandFinal`);
* an instruction that the CSR hazards take for a read writes something new, or is in front of a trap
  that sets the CSR it will write back (`ReadsOnlyRead`, `NoReadBeforeTrap`).

`SpacedImplementsIsa` says that a program that keeps five rules meets none of them, hence `Spec =>
ExecutesInOrder`. A rule is about instructions that follow each other on some path of the program
text, wrong paths included, and never about what a program computes:

| rule | why it is needed | theorem |
|---|---|---|
| `TrapsSpaced`: no trap within two instructions of a branch or return, nor first of all | when a misprediction is corrected they are in decode and in fetch, and a squashed trap still takes effect; reset leaves the first instruction squashed in `FD_instr` | `SpacedTrapsInOrder` |
| `StallsSpaced`: no trap behind a division, a root or an EBREAK | the CSR hazard it raises flushes the execute unit it waits for | `SpacedDivisionsComplete`, `SpacedHaltsAreFinal` |
| `UnitsSpaced`: two other instructions between two of one unit of the FPU | the unit starts once more as the first one leaves, and takes two cycles to rest | `SpacedUnitsOwn` |
| `FusedSpaced`: no load, atomic or CSR read into the third operand of the fused operation behind it | no hazard check | `SpacedFusedFinal` |
| `ReadsSpaced`: a CSR instruction on x0 writes back what it read, and is not in front of an ECALL | CSRRW from x0 counts as a read; the write-back would undo the trap's | `SpacedReadsOnlyRead` |

`wrong_path_trap` and `fma_after_load` are programs that break the first and fourth rule alone. All
programs of `order` and `traps` keep the five: `MCPipeline` assumes it (`SpacedAssumption`) and TLC
evaluates that in both runs, so that the hypotheses of the theorems hold of programs with branches,
calls, divisions of both kinds, roots, fused operations, traps and CSR writes at once.
`TrapsDropNothing` proves `[]TrapsDropNoWrite` for programs whose CSR instructions all write.

The argument. The abstract registers, memory and CSRs are those the memory unit's pending write
leaves, with the instruction in the execute unit applied on top. The proof first shows that such an
application is what the units then do: the value a register is forwarded is the value it will have
(`OperandsFinal`), the result that the execute and memory units compute between them is `Isa`'s
(`ResultRetires`), and so for memory and reservation (`MemRetires`) and CSRs (`CsrRetires`). A clock
then is one of three things for the execute unit: its instruction moves on (`Commits`), it is empty
(`BubbleWaits`), or it stalls (`StallWaits`); in each the abstract state *before* what enters is
unchanged. Whatever leaves decode unsquashed is the instruction at the abstract PC, so its entry is
`Isa!Step` (`EntersPC`, `EntersEffects`, `EntersSteps`); if nothing enters, the step is a stutter
(`Simulates`). What this needs of the state beyond `ControlInv` is `PathInv` (`PathCorrect`): an
instruction carries the address it was fetched from, a division keeps the operands it started with,
x0 is never written. For the FPU it is `UnitsInv`, proved with `SpacedUnitsOwn`: a unit
that counts or reports for the instruction in the execute unit has begun with its operands, which
the stall keeps, and one that still counts for an instruction that has left finds none of its own
in decode. The rules need `FlowInv` (`FlowCorrect`): what is behind what in the pipeline
is what may follow it in the program text, through return stack and wrong guesses.

How long the next instruction can be put off is `Wait`: what is left of a division or of the count
of a unit of the FPU, one clock for a CSR hazard, one for a data hazard or two if it is a trap or
return that waits in decode, two for a correction. `StallsEnd` (`Spec => StallsAreShort`) says, for
every program, rules or not, that it is at most `Longest + 2`, `Longest` being the larger of
`DivBits` and `MaxCycles`, and that every clock an instruction enters the execute unit, or `Wait`
falls, or an EBREAK holds the pipeline. In the hardware that is 58 clocks, of an FDIV.D. The five
conditions that stall and the three that flush thus cannot keep each other alive; for
`KeepsExecuting` only the clock is left to assume. `SpacedRunsSteadily` joins it with the
refinement: a program that keeps the rules runs the sequential machine at one instruction in
`Longest + 3` clocks or better.

The masks of the CSR file enter through `MaskAssumption` of `Instructions` (`CSR_RegFile.v:60-108`):
masking twice is masking once, the CSRs that a trap sets lose nothing by it.

For resets, `PipelineProofs` proves, for every program and every `DivBits`, `LongResetDrains`
(`ResetSpec => []ResetDrains`) and `ResetRestoresControl` (`[]SoundAfterReset`). The invariant says
what is empty after how many edges: fetch and registers after one, execute after two, memory and the
counters of the FPU after three, write-back and `ready_o` after four, while a busy divider has at
most `DivBits + 2 - held` bits to go; a CSR write can outlast the others only as long as that
division, because a flush of the memory unit keeps its flag.

`DivideUnitProofs` proves, for registers of every width, `DivideInvariant` (`[]DivideInv`) and
`DividesCorrectly` (`[]DivisionCorrect`). The loop invariant: what is left of the dividend plus
divisor times quotient is the dividend, what is left is less than twice the shifted divisor, and the
quotient is a multiple of twice the mask, so that OR and addition agree. The powers of two are a
constant function with the assumption that each is twice the one before. The lemmas at the end bring
in the signs.

`FpuDividersProofs` proves, for any set of units, operands and cycle counts of at least two,
`FpuTypeCorrect` (type correctness) and, when `Spacing >= 2`, `HandshakeCorrect`
(`[]HandshakeInv`) and `ResultsAreOwn` (`[]LeavesWithOwnResult`). The invariant says in which of its
phases a unit of the instruction in the execute unit is (counting with its operands, done but not
yet reported, reported), and that two cycles after its last use a unit has neither a count nor a
ready flag left over. The second half is what needs the spacing: the edge at which a division
retires starts the unit once more, and it takes the following cycle to reset the counter and the
falling edge after that to clear `busy`. `StallsFinitely` (`Spec => ReportsInTime`) adds that the
half clocks a unit still needs, `HalvesLeft`, fall at every edge until its flag is up.

`FpuProofs` proves the five properties of `Fpu` for every format, the one of the hardware included:
any number of exponent bits from two on and any odd number of fraction bits (`FSQRT.v` takes bits in
pairs). `ArithmeticRoundsCorrectly` is `[]RoundsCorrectly`: FADDd, FSUB, FMUL and FDIV deliver the
IEEE rounding of the exact result in all modes. `ArithmeticRoundsToANeighbour`,
`RootIsAlwaysANeighbour`, `AlwaysComparesValues` and `UlpsAlwaysCountFloats` are the other four. The
invariant of the specification is only that the result register holds what the unit computes
(`Computes`); the work is in the operators:

* Powers of two. Induction is available as *every set of natural numbers has a least one* (`Least`),
  which follows from the library's theorem on well-founded orders. It gives the existence of
  functions defined by recursion (`Recursion`), hence the equations of `Pow2`, `DivideSteps` and
  `RootSteps`, and loop invariants (`LoopInvariant`). This is why the powers of two of `FpuArith`
  are a function of its own: nothing is known to the provers of `2^n`.
* Ranks. The magnitudes of a format grow with the rank, the integer that is made of exponent and
  fraction (`MagnitudeStep`), and around the rank of binade `u` and significand `q` they are `q` and
  `q + 1` times `2^u` (`RanksAround`). Adding 1 to `q` adds 1 to the rank, also when it carries into
  the exponent (`Packed`).
* Rounding. `RoundingBits` is what a rounding unit has to be told of the exact result: where it lies
  between two magnitudes, below, on or above their middle. `Rounding` shows that FRound then finds
  the rounded rank in each mode.
* Each unit then has to hand FRound such bits: a product by its two halves (`MulRounds`), a quotient
  because dividend = divisor times quotient + remainder after every step (`DivRounds`), a sum because
  the shift of the smaller operand rounds down and, while it loses nothing, not at all
  (`AddToRounds`). A sum that did lose bits is rounded from the next lower number: what comes out is
  still next to the exact one (`FloorNeighbour`), with one more case where the leading 1 moves. The
  root is found rounded down (`RootFloor`); whatever FRound adds, it is next to the exact one.
* Values are in one-to-one order with signed ranks (`RankValueFacts`, `FloatOfRank`), so the floats
  between two are as many as their ranks are apart (`CountBetween`); the int32_t difference wraps
  around only if that is more than 4 either way (`WrappedApart`).

Of `Dhrystone`, `FirmwareProofs` proves `DhryInvariant`, `CommentsHold` and `FinalValuesHold` for
every number of runs and any contents of uninitialised memory. The invariant says for each place in
the loop what the variables hold that the rest of the round, or the report, reads; the record that
`Ptr_Glob` points to keeps its shape through the copies of `Proc_1`, and `Arr_2_Glob[8][7]` counts
the rounds. That Proc_2 leaves its loop rests on `Ch_1_Glob` being 'A', an invariant of all three of
its writers.

`ConsoleProofs` proves `SbiInvariant` for the BIOS under *any* UART, with any program, memory and
reset; `ConsoleIsSbi`, that the console implements it; and from the two `EveryCallReturns`. The
invariant follows the caller's registers through the trap: in the register file, in `mscratch`, in
the frame, and where between the two. It rests on three facts about the tables: stores and loads
have the same order, the struct has it too, and `sp` is the word behind them. `OnlyFirstIsMissed` is
of the composition, for every baud rate: while the kernel is between two characters the UART is
idle, because `_putchar` has seen it so and nothing but a write or a reset makes it busy.

`BytesArriveInOrder` (`[]DeliversInOrder`) is of the line, for every rate of at least three clocks
per bit, any program and any number of resets. Its invariant, `LinkInv`, has three states. In a
frame (`InFrame`) bit k is on the line while the transmitter is in state k, `Age` clocks old, and
the receiver's counter is what is left until the bit is `Half` clocks old: it samples in the middle.
Its count starts from the age of the start bit's edge, so it does not matter that the receiver may
notice the start bit late: it waits a whole bit after it sampled a stop bit, which reaches up to
`Half + 1` clocks into the next start bit. At rest (`Resting`) the last frame may still have to be
written. After a reset (`Waiting`) the receiver may be anywhere in a torn frame; what it still needs
is at most ten bits and a half, and the transmitter waits sixteen at its slower initial rate. The
bits received so far are those of the byte in transmission, and what has been written are all the
bytes sent before.

`LoadStoreProofs` proves, for any number of words, any bytes and any stored contents,
`UnitInvariant` (`[]UnitInv`) and from it `ImplementsByteMemory` (`UnitSpec => ImplementsBytes`).
The invariant: an access in the memory unit is aligned, of a kind the decode unit makes, and carries
what RAM *still* holds, since nothing is written between the two steps. `BytePlaces` says where byte
i of an aligned access is: in the word addressed, at the lane its offset and i add up to, or for the
upper half of a double in the next word. With it each kind of access is one step of `ByteMemory`,
and its issue is a stutter.

Of `Counters`, `FirmwareProofs` proves `CountersInvariant`, `ReadsAreMoments` (`[]ReadsOneMoment`)
and `ClocksPerInstruction` (`[]AtLeastOneClock`) for every width of the halves and any waits between
the instructions. The values read say little by themselves; the invariant names a witness: the upper
half `h` that went with the lower half when that was read. What was read of the upper half before is
at most `h`, what is read after at least `h`, so if the two agree they are `h`. The second property
follows because `show_CPI_2` asks for the cycles when it has the instructions, and every clock moves
`cycle` at least as far as `instret`.

Only model-checked: the decompressor's table, where the run goes through every halfword and is
itself complete; the two FPU test programs, which have no parameter; printf, where even that what a
conversion prints is a sequence rests on the types of the arguments, which come out of a recursive
`FlattenSeq`; and liveness (`KeepsExecuting`, `KeepsGoing`, `DivisionFinishes`,
`EverythingArrives`), whose last step, from fairness, is out of the prover's reach. For the first
two of these what decreases is proved to do so (`StallsEnd`, `StallsFinitely`).

## 6. Where code and documentation disagree

Each of these is a run that TLC refutes:

* `wrong_path_trap`: an ECALL on a mispredicted path enters its trap (`P/DecodeUnit.v:293`).
* `fma_after_load`: the third operand of a fused multiply-add has no hazard check
  (`P/DecodeUnit.v:321`).
* `halfway_fractions`: a tie in `_ftoa` is rounded up without the rollover its comment describes
  (`firmware/libs/printf.c:394`, `:401`): `%.1f` of 0.95 fills the buffer with zeros.

* `compressed_doubles`: the offsets of C.FLDSP, C.FSDSP and C.FSD are scaled like those of words, so
  that bits 8 (7 for C.FSD) and up land in the wrong place or are lost (`Decompressor.v:102`, `:123`,
  `:131`), while `Makefile:6` compiles for `rv32imafdc`. Compilers spill doubles with these
  instructions; frames below 256 bytes (128) are not affected.

The programs and inputs of the passing runs avoid these sequences, and the following, which no
document speaks of clearly enough to state the opposite as a property.

*Processor.* A CSR write, a division, an MRET: the division is flushed while it stalls
(`ControlUnit.v:31`); an EBREAK in its place is lost the same way, and execution goes on. A mere
read of `mepc` in front of an ECALL writes the old value back over the trap's
(`P/MemoryUnit.v:176`). CSRRW from x0 is the converse: it is not taken for a write
(`P/ExecuteUnit.v:329`), and an MRET right behind it returns through the old `mepc`.

An SC answers 1 when it has stored (`P/MemoryUnit.v:183`), the opposite of the architecture. A byte
or half stored into the reserved word at another address than the word's does not break the
reservation (`P/MemoryUnit.v:63`); `Store` of `ByteMemory` says so. An atomic on an I/O address
writes rs2 instead of its result (`P/MemoryUnit.v:146`). Reads of `fcsr` return the write data and
its flags are only ever ORed (`CSR_RegFile.v:110`); a write of `sstatus` clears the machine-level
bits of `mstatus` (`CSR_RegFile.v:189`). EBREAK counts into `instret` on every clock it holds the
pipeline.

*FPU.* On the edge at which an FDIV or FSQRT retires its unit starts again with the same operands,
and a second one right behind it takes over that computation (`FDIV.v:80`); with one instruction
between, the restart is undone, but the `busy` flag it left raises `ready_o` for the second one,
which retires unfinished (`FDIV.v:199`). `Spacing = 0` or `1` in `fpu_dividers.cfg` shows both.
`UnitsSpaced` is the rule that excludes both, and the programs of the pipeline's runs keep it. An
addition whose alignment drops bits is off by less than one place (`FADDd.v:140`;
`RoundsToANeighbour` still holds). Subnormal results of an addition become +0, those of a division
are not shifted (`FDIV.v:172`), and a product of subnormals is 0. A zero compares with the exponent
of a subnormal (`FCMP.v:66`). In directed modes some units return the largest finite number for an
exact infinity. Roots are mostly truncated where `fpuTest.c:352` asks for nearest;
`RootIsANeighbour` is what holds. FCVT of +infinity and NaN return the other type's maximum.

*printf.* Besides the tie: `#` takes digits of a number as long as the width, or its zeros
(`%#4x`); `-` turns the precision of an integer off; `%hhd` is unsigned, as char is on RISC-V; a
negative `.*` counts as 0; `%e` of 0 prints an exponent of -308, of 9.99... a mantissa of 10.0, of
some exact powers of ten one power less; `%g` has a digit too many without a precision and keeps its
zeros; decimals beyond the ninth are zeros; a precision above 41 indexes `pow10` behind its end and
a format that ends in a lone `%` is read past its end (neither is among the inputs).

*Firmware.* The first character after a button reset is lost: the UART waits sixteen bits, longer
than the boot, and `_putchar` writes before it polls (`MissesOnlyFirst` allows it). `dhry_1.c:316`
says a value becomes 4 that the code and `main` make 5; `dhry_2.c:112` names the characters of
another string index.

## 7. What is not modelled

The bits of 32-bit instructions, the history table's contents (a free choice in `Pipeline`, so no
property depends on them), the arithmetic of the integer ALU and
the multiplier, atomics at I/O addresses, the LED register, `fcsr` and the masks of the CSRs. Of the
FPU, doubles, the fused operations, minimum and maximum, sign injection and FCLASS: doubles exceed
what TLC computes and repeat the single-precision units at another width. Of the firmware, `pi.c`,
`testRdcycle.c`, `memcpy.c`, `errno.c` and the timing of Dhrystone, which compute and print.
`rxuart.v`, `SSegDisplay.v`, `FPU2.v` and `FADD.v` are not part of the build. The clock divider and
the LED dimmer do not act on the processor. `simMain.cpp`, the disassembler, synthesis scripts and
`archive` hold no logic of the system.
