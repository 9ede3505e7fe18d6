---------------------------- MODULE Decompressor ----------------------------
(***************************************************************************)
(* Compressed instructions: a halfword is expanded to the 32 bits of an    *)
(* ordinary instruction and decoded.  Here the bits matter, and nothing    *)
(* else: a halfword is the function of its bits, the instruction the       *)
(* sequence of its bits from 31 down, joined as the code joins them.  An   *)
(* instruction of 32 bits passes as it is and is left out.                 *)
(***************************************************************************)
EXTENDS Integers, SequencesExt

CONSTANTS NoInstr     \* no instruction in the stage

VARIABLES FD_instr,   \* the halfword, [0..15 -> Bit]
          DE          \* what the decode unit makes of it

decodeVars == <<FD_instr, DE>>

Bit == {0, 1}
Unsigned(bits) == FoldLeft(LAMBDA n, b : 2 * n + b, 0, bits)
Signed(bits) == Unsigned(Tail(bits)) - Head(bits) * 2^(Len(bits) - 1)

(* Bits hi down to lo of the halfword, and n copies of a bit. *)
Part(c, hi, lo) == [k \in 1 .. hi - lo + 1 |-> c[hi + 1 - k]]
Copies(n, b) == [k \in 1 .. n |-> b]
Bits(n, value) == [k \in 1 .. n |-> (value \div 2^(n - k)) % 2]

-----------------------------------------------------------------------------
(* Instruction fields. *)
x0 == Bits(5, 0)
ra == Bits(5, 1)
sp == Bits(5, 2)
reg1c(c) == <<0, 1>> \o Part(c, 9, 7)
reg2c(c) == <<0, 1>> \o Part(c, 4, 2)
reg1w(c) == Part(c, 11, 7)
reg2w(c) == Part(c, 6, 2)

addi4spnImm(c) == <<0, 0>> \o Part(c, 10, 7) \o Part(c, 12, 11) \o <<c[5], c[6], 0, 0>>
lwswImm(c) == Copies(5, 0) \o <<c[5]>> \o Part(c, 12, 10) \o <<c[6], 0, 0>>
ldsdImm(c) == Copies(4, 0) \o Part(c, 6, 5) \o Part(c, 12, 10) \o Copies(3, 0)
(* Mistake: the bit next to the top one is taken for a lower one. *)
lwspImmTop(c) == Copies(4, 0) \o Part(c, 3, 2) \o Part(c, 6, 4) \o <<c[12], 0, 0>>
lwspImm(c) == Copies(4, 0) \o Part(c, 3, 2) \o <<c[12]>> \o Part(c, 6, 4) \o <<0, 0>>
swspImm(c) == Copies(4, 0) \o Part(c, 8, 7) \o Part(c, 12, 9) \o <<0, 0>>
addi16spImm(c) == Copies(3, c[12]) \o Part(c, 4, 3) \o <<c[5], c[2], c[6]>> \o Copies(4, 0)
addImm(c) == Copies(7, c[12]) \o Part(c, 6, 2)
jmpImm(c) == <<c[12], c[8]>> \o Part(c, 10, 9) \o <<c[6], c[7], c[2], c[11]>>
               \o Part(c, 5, 3) \o Copies(9, c[12])
luiImm(c) == Copies(15, c[12]) \o Part(c, 6, 2)
branchImm7(c) == Copies(4, c[12]) \o Part(c, 6, 5) \o <<c[2]>>
branchImm5(c) == Part(c, 11, 10) \o Part(c, 4, 3) \o <<c[12]>>

(* The forms of an instruction; a store's offset is in two parts. *)
IType(imm, rs1, f3, rd, opcode) == imm \o rs1 \o Bits(3, f3) \o rd \o opcode
RType(f7, rs2, rs1, f3, rd, opcode) == f7 \o rs2 \o IType(<<>>, rs1, f3, rd, opcode)
SType(high, low, rs2, rs1, f3, opcode) ==
  RType(SubSeq(high, 1, 7), rs2, rs1, f3, SubSeq(low, 8, 12), opcode)

LOAD == Bits(7, 3)
LOADFP == Bits(7, 7)
STORE == Bits(7, 35)
STOREFP == Bits(7, 39)
OPIMM == Bits(7, 19)
OP == Bits(7, 51)
LUI == Bits(7, 55)
BRANCH == Bits(7, 99)
JALR == Bits(7, 103)
JAL == Bits(7, 111)
EBREAK == Bits(12, 1) \o Copies(13, 0) \o Bits(7, 115)
Shift == Copies(7, 0)
Alternate == Bits(7, 32)   \* SUB and SRA

(***************************************************************************)
(* The expansion, by quadrant and the three bits that select in it.        *)
(***************************************************************************)
Select(c) == Unsigned(Part(c, 15, 13))
Quadrant(c) == Unsigned(Part(c, 1, 0))

ExpandC0(c) ==
  CASE Select(c) = 0 -> IType(addi4spnImm(c), sp, 0, reg2c(c), OPIMM)
    [] Select(c) = 1 -> IType(ldsdImm(c), reg1c(c), 3, reg2c(c), LOADFP)
    [] Select(c) = 2 -> IType(lwswImm(c), reg1c(c), 2, reg2c(c), LOAD)
    [] Select(c) = 3 -> IType(lwswImm(c), reg1c(c), 2, reg2c(c), LOADFP)
    [] Select(c) = 5 -> SType(ldsdImm(c), lwswImm(c), reg2c(c), reg1c(c), 3, STOREFP)
    [] Select(c) = 6 -> SType(lwswImm(c), lwswImm(c), reg2c(c), reg1c(c), 2, STORE)
    [] Select(c) = 7 -> SType(lwswImm(c), lwswImm(c), reg2c(c), reg1c(c), 2, STOREFP)

(* SUB, XOR, OR and AND have c[12] = 0. *)
ExpandALUMisc(c) ==
  LET misc == Unsigned(Part(c, 11, 10))
      alu  == Unsigned(Part(c, 6, 5))
      r    == reg1c(c)
  IN  CASE misc = 0 -> RType(Shift, reg2w(c), r, 5, r, OPIMM)
        [] misc = 1 -> RType(Alternate, reg2w(c), r, 5, r, OPIMM)
        [] misc = 2 -> IType(addImm(c), r, 7, r, OPIMM)
        [] misc = 3 -> RType(IF alu = 0 THEN Alternate ELSE Shift, reg2c(c), r,
                             <<0, 4, 6, 7>>[alu + 1], r, OP)

ExpandC1(c) ==
  CASE Select(c) = 0 -> IType(addImm(c), reg1w(c), 0, reg1w(c), OPIMM)
    [] Select(c) = 1 -> jmpImm(c) \o ra \o JAL
    [] Select(c) = 2 -> IType(addImm(c), x0, 0, reg1w(c), OPIMM)
    [] Select(c) = 3 -> IF reg1w(c) = sp
                        THEN IType(addi16spImm(c), reg1w(c), 0, reg1w(c), OPIMM)
                        ELSE luiImm(c) \o reg1w(c) \o LUI
    [] Select(c) = 4 -> ExpandALUMisc(c)
    [] Select(c) = 5 -> jmpImm(c) \o x0 \o JAL
    [] Select(c) = 6 -> RType(branchImm7(c), x0, reg1c(c), 0, branchImm5(c), BRANCH)
    [] Select(c) = 7 -> RType(branchImm7(c), x0, reg1c(c), 1, branchImm5(c), BRANCH)

ExpandRegisters(c) ==
  CASE c[12] = 0 /\ reg2w(c) = x0 -> IType(Copies(12, 0), reg1w(c), 0, x0, JALR)
    [] c[12] = 0 /\ reg2w(c) # x0 -> RType(Shift, reg2w(c), x0, 0, reg1w(c), OP)
    [] c[12] = 1 /\ reg2w(c) = x0 ->
         IF reg1w(c) = x0 THEN EBREAK ELSE IType(Copies(12, 0), reg1w(c), 0, ra, JALR)
    [] c[12] = 1 /\ reg2w(c) # x0 -> RType(Shift, reg2w(c), reg1w(c), 0, reg1w(c), OP)

ExpandC2(c) ==
  CASE Select(c) = 0 -> RType(Shift, reg2w(c), reg1w(c), 1, reg1w(c), OPIMM)
    [] Select(c) = 1 -> IType(lwspImm(c), sp, 3, reg1w(c), LOADFP)
    [] Select(c) = 2 -> IType(lwspImm(c), sp, 2, reg1w(c), LOAD)
    [] Select(c) = 3 -> IType(lwspImm(c), sp, 2, reg1w(c), LOADFP)
    [] Select(c) = 4 -> ExpandRegisters(c)
    [] Select(c) = 5 -> SType(swspImm(c), swspImm(c), reg2w(c), sp, 3, STOREFP)
    [] Select(c) = 6 -> SType(swspImm(c), swspImm(c), reg2w(c), sp, 2, STORE)
    [] Select(c) = 7 -> SType(swspImm(c), swspImm(c), reg2w(c), sp, 2, STOREFP)

dcmp(c) == CASE Quadrant(c) = 0 -> ExpandC0(c)
             [] Quadrant(c) = 1 -> ExpandC1(c)
             [] Quadrant(c) = 2 -> ExpandC2(c)
-----------------------------------------------------------------------------
(***************************************************************************)
(* The decode unit: which instruction it is, its registers (those of the   *)
(* FPU from 32 on) and the immediate its form has.  A LUI's immediate is   *)
(* in units of 4096.                                                       *)
(***************************************************************************)
D(instr, hi, lo) == SubSeq(instr, 32 - hi, 32 - lo)
Iimm(instr) == Signed(D(instr, 31, 20))
Simm(instr) == Signed(D(instr, 31, 25) \o D(instr, 11, 7))
Bimm(instr) ==
  Signed(D(instr, 31, 31) \o D(instr, 7, 7) \o D(instr, 30, 25) \o D(instr, 11, 8) \o <<0>>)
Uimm(instr) == Signed(D(instr, 31, 12))
Jimm(instr) ==
  Signed(D(instr, 31, 31) \o D(instr, 19, 12) \o D(instr, 20, 20) \o D(instr, 30, 21) \o <<0>>)

Kind(instr) ==
  LET op == Unsigned(D(instr, 6, 2))
  IN  CASE op = 13 -> "LUI"      [] op = 27 -> "JAL"     [] op = 25 -> "JALR"
        [] op = 24 -> "Branch"   [] op \in {0, 1} -> "Load"   [] op \in {8, 9} -> "Store"
        [] op = 4 -> "ALUI"      [] op = 12 -> "ALUR"    [] op = 28 -> "SYS"

Decoded(instr) ==
  LET kind == Kind(instr)
      FP   == IF kind \in {"Load", "Store"} THEN 32 * Unsigned(D(instr, 2, 2)) ELSE 0
  IN  [kind   |-> kind,
       funct3 |-> Unsigned(D(instr, 14, 12)),
       funct7 |-> Unsigned(D(instr, 31, 25)),
       rd     |-> Unsigned(D(instr, 11, 7)) + (IF kind = "Load" THEN FP ELSE 0),
       rs1    |-> Unsigned(D(instr, 19, 15)),
       rs2    |-> Unsigned(D(instr, 24, 20)) + (IF kind = "Store" THEN FP ELSE 0),
       imm    |-> CASE kind = "Store" -> Simm(instr)  [] kind = "Branch" -> Bimm(instr)
                    [] kind = "JAL" -> Jimm(instr)    [] kind = "LUI" -> Uimm(instr)
                    [] OTHER -> Iimm(instr)]

-----------------------------------------------------------------------------
(* Halfwords that are instructions: the reserved ones, for which the        *)
(* expansion is that of the instruction before, are not in any program.     *)
Reserved(c) ==
  \/ Quadrant(c) = 0 /\ (Select(c) = 4 \/ (Select(c) = 0 /\ Unsigned(Part(c, 12, 5)) = 0))
  \/ Quadrant(c) = 1 /\ Select(c) = 3 /\ c[12] = 0 /\ Unsigned(reg2w(c)) = 0
  \/ Quadrant(c) = 1 /\ Select(c) = 4 /\ c[12] = 1 /\ Unsigned(Part(c, 11, 10)) # 2
  \/ Quadrant(c) = 2 /\ Select(c) = 0 /\ c[12] = 1
  \/ Quadrant(c) = 2 /\ Select(c) = 2 /\ reg1w(c) = x0
  \/ Quadrant(c) = 2 /\ Select(c) = 4 /\ c[12] = 0 /\ reg1w(c) = x0 /\ reg2w(c) = x0

Halfword(n) == [k \in 0..15 |-> (n \div 2^k) % 2]
Compressed == {c \in {Halfword(n) : n \in 0 .. 2^16 - 1} : Quadrant(c) # 3 /\ ~Reserved(c)}

DecodeInit == FD_instr = NoInstr /\ DE = NoInstr

Fetch  == FD_instr = NoInstr /\ FD_instr' \in Compressed /\ UNCHANGED DE
Decode == /\ FD_instr # NoInstr /\ DE = NoInstr
          /\ DE' = Decoded(dcmp(FD_instr)) /\ UNCHANGED FD_instr
Leave  == DE # NoInstr /\ FD_instr' = NoInstr /\ DE' = NoInstr

DecodeNext == Fetch \/ Decode \/ Leave
DecodeSpec == DecodeInit /\ [][DecodeNext]_decodeVars

(***************************************************************************)
(* The encodings as an assembler writes them.  The bits of the halfword    *)
(* from hi down are worth the powers of two at the given places.           *)
(***************************************************************************)
Worth(c, hi, places) ==
  FoldLeft(LAMBDA n, k : n + c[hi + 1 - k] * 2^places[k], 0, [k \in 1 .. Len(places) |-> k])
Below(c, place) == -c[12] * 2^place      \* c[12] as the sign

LoadOf(f3, rd, rs1, imm) ==
  [kind |-> "Load", funct3 |-> f3, rd |-> rd, rs1 |-> rs1, imm |-> imm]
StoreOf(f3, rs2, rs1, imm) ==
  [kind |-> "Store", funct3 |-> f3, rs2 |-> rs2, rs1 |-> rs1, imm |-> imm]
ALUIOf(f3, rd, rs1, imm) ==
  [kind |-> "ALUI", funct3 |-> f3, rd |-> rd, rs1 |-> rs1, imm |-> imm]
ALUROf(f3, f7, rd, rs1, rs2) ==
  [kind |-> "ALUR", funct3 |-> f3, funct7 |-> f7, rd |-> rd, rs1 |-> rs1, rs2 |-> rs2]
BranchOf(f3, rs1, imm) ==
  [kind |-> "Branch", funct3 |-> f3, rs1 |-> rs1, rs2 |-> 0, imm |-> imm]
JALOf(rd, imm)              == [kind |-> "JAL", rd |-> rd, imm |-> imm]
JALROf(rd, rs1)             == [kind |-> "JALR", rd |-> rd, rs1 |-> rs1, imm |-> 0]

Encoded(c) ==
  LET rd   == Worth(c, 11, <<4, 3, 2, 1, 0>>)      rs2 == Worth(c, 6, <<4, 3, 2, 1, 0>>)
      rs1c == 8 + Worth(c, 9, <<2, 1, 0>>)         rdc == 8 + Worth(c, 4, <<2, 1, 0>>)
      six    == Worth(c, 6, <<4, 3, 2, 1, 0>>) + Below(c, 5)
      word   == Worth(c, 12, <<5, 4, 3>>) + Worth(c, 6, <<2, 6>>)
      double == Worth(c, 12, <<5, 4, 3>>) + Worth(c, 6, <<7, 6>>)
      wordSp == Worth(c, 12, <<5>>) + Worth(c, 6, <<4, 3, 2, 7, 6>>)
      toSp   == Worth(c, 12, <<5, 4, 3, 2, 7, 6>>)
      jump   == Worth(c, 11, <<4, 9, 8, 10, 6, 7, 3, 2, 1, 5>>) + Below(c, 11)
      branch == Worth(c, 11, <<4, 3>>) + Worth(c, 6, <<7, 6, 2, 1, 5>>) + Below(c, 8)
      misc   == Worth(c, 11, <<1, 0>>)             alu == Worth(c, 6, <<1, 0>>)
      at     == <<Quadrant(c), Select(c)>>
  IN  CASE at = <<0, 0>> -> ALUIOf(0, rdc, 2, Worth(c, 12, <<5, 4, 9, 8, 7, 6, 2, 3>>))
        [] at = <<0, 1>> -> LoadOf(3, rdc + 32, rs1c, double)
        [] at = <<0, 2>> -> LoadOf(2, rdc, rs1c, word)
        [] at = <<0, 3>> -> LoadOf(2, rdc + 32, rs1c, word)
        [] at = <<0, 5>> -> StoreOf(3, rdc + 32, rs1c, double)
        [] at = <<0, 6>> -> StoreOf(2, rdc, rs1c, word)
        [] at = <<0, 7>> -> StoreOf(2, rdc + 32, rs1c, word)
        [] at = <<1, 0>> -> ALUIOf(0, rd, rd, six)
        [] at = <<1, 1>> -> JALOf(1, jump)
        [] at = <<1, 2>> -> ALUIOf(0, rd, 0, six)
        [] at = <<1, 3>> /\ rd = 2 ->
             ALUIOf(0, 2, 2, Worth(c, 6, <<4, 6, 8, 7, 5>>) + Below(c, 9))
        [] at = <<1, 3>> /\ rd # 2 -> [kind |-> "LUI", rd |-> rd, imm |-> six]
        [] at = <<1, 4>> /\ misc = 0 -> ALUIOf(5, rs1c, rs1c, rs2)
        [] at = <<1, 4>> /\ misc = 1 -> ALUIOf(5, rs1c, rs1c, rs2 + 1024)
        [] at = <<1, 4>> /\ misc = 2 -> ALUIOf(7, rs1c, rs1c, six)
        [] at = <<1, 4>> /\ misc = 3 /\ alu = 0 -> ALUROf(0, 32, rs1c, rs1c, rdc)
        [] at = <<1, 4>> /\ misc = 3 /\ alu = 1 -> ALUROf(4, 0, rs1c, rs1c, rdc)
        [] at = <<1, 4>> /\ misc = 3 /\ alu = 2 -> ALUROf(6, 0, rs1c, rs1c, rdc)
        [] at = <<1, 4>> /\ misc = 3 /\ alu = 3 -> ALUROf(7, 0, rs1c, rs1c, rdc)
        [] at = <<1, 5>> -> JALOf(0, jump)
        [] at = <<1, 6>> -> BranchOf(0, rs1c, branch)
        [] at = <<1, 7>> -> BranchOf(1, rs1c, branch)
        [] at = <<2, 0>> -> ALUIOf(1, rd, rd, rs2)
        [] at = <<2, 1>> ->
             LoadOf(3, rd + 32, 2, Worth(c, 12, <<5>>) + Worth(c, 6, <<4, 3, 8, 7, 6>>))
        [] at = <<2, 2>> -> LoadOf(2, rd, 2, wordSp)
        [] at = <<2, 3>> -> LoadOf(2, rd + 32, 2, wordSp)
        [] at = <<2, 4>> /\ c[12] = 0 /\ rs2 = 0 -> JALROf(0, rd)
        [] at = <<2, 4>> /\ c[12] = 0 /\ rs2 # 0 -> ALUROf(0, 0, rd, 0, rs2)
        [] at = <<2, 4>> /\ c[12] = 1 /\ rs2 # 0 -> ALUROf(0, 0, rd, rd, rs2)
        [] at = <<2, 4>> /\ c[12] = 1 /\ rs2 = 0 /\ rd # 0 -> JALROf(1, rd)
        [] at = <<2, 4>> /\ c[12] = 1 /\ rs2 = 0 /\ rd = 0 ->
             [kind |-> "SYS", funct3 |-> 0, imm |-> 1]
        [] at = <<2, 5>> -> StoreOf(3, rs2 + 32, 2, Worth(c, 12, <<5, 4, 3, 8, 7, 6>>))
        [] at = <<2, 6>> -> StoreOf(2, rs2, 2, toSp)
        [] at = <<2, 7>> -> StoreOf(2, rs2 + 32, 2, toSp)

AsEncoded == LET e == Encoded(FD_instr) IN \A field \in DOMAIN e : DE[field] = e[field]

(* C.FSD, C.FLDSP and C.FSDSP. *)
MovesDouble(c) == <<Quadrant(c), Select(c)>> \in {<<0, 5>>, <<2, 1>>, <<2, 5>>}

(* Every compressed instruction but those is executed as it was encoded,    *)
(* with the same registers and every bit of its immediate in its place.     *)
ExpandsAsEncoded == DE # NoInstr /\ ~MovesDouble(FD_instr) => AsEncoded

(* The firmware is built for rv32imafdc: the double-precision loads and     *)
(* stores have compressed forms, to be executed as encoded as well.         *)
ExpandsDoubles == DE # NoInstr /\ MovesDouble(FD_instr) => AsEncoded
=============================================================================
