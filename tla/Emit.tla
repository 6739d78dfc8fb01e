---------------------------------- MODULE Emit ----------------------------------
(***************************************************************************)
(* The compiler's back end ("regalloc.c", "emit.c"): which registers are   *)
(* taken, and instructions whose operands are slots that have to be        *)
(* brought into registers first.                                           *)
(*                                                                         *)
(* An instruction is <<op, a, b, c>>, with the assembler's name of its     *)
(* operation.  Registers up to LastNear fit in the eight bits of an        *)
(* operand; those from FirstReserved to LastNear are kept for temporaries. *)
(***************************************************************************)
EXTENDS Values

CONSTANTS FirstReserved, LastNear      \* 0xF0, 0xFF
ASSUME Numbering == FirstReserved \in Nat /\ LastNear \in Nat /\ FirstReserved + 5 <= LastNear

Bigger(x, y) == IF x > y THEN x ELSE y

(* JanetcRegisterAllocator *)
RegInit == [set |-> {}, max |-> 0, temps |-> {}]
Touch(ra, reg) == [ra EXCEPT !.set = @ \cup {reg}]
FreeReg(ra, reg) == [ra EXCEPT !.set = @ \ {reg}]
FirstFree(ra) ==
  LET taken == ra.set \cup (FirstReserved .. LastNear)
  IN CHOOSE r \in 0 .. Cardinality(taken) : r \notin taken /\ \A q \in 0 .. r - 1 : q \in taken
Alloc1(ra) ==
  LET r == FirstFree(ra)
  IN [reg |-> r, ra |-> [ra EXCEPT !.set = @ \cup {r}, !.max = Bigger(@, r)]]

(* A register that fits in eight bits; the far one it was given stays taken. *)
Temp(ra, nth) ==
  LET a == Alloc1(ra)
      far == a.reg > LastNear
  IN [reg |-> IF far THEN FirstReserved + nth ELSE a.reg,
      ra |-> [a.ra EXCEPT !.temps = @ \cup {nth}, !.max = IF far THEN Bigger(ra.max, FirstReserved + nth) ELSE @]]
FreeTemp(ra, reg, nth) ==
  LET r == [ra EXCEPT !.temps = @ \ {nth}] IN IF reg < FirstReserved THEN FreeReg(r, reg) ELSE r

-----------------------------------------------------------------------------
(* A slot is where a value will be: a constant, the element of an array that *)
(* is a constant (ref), a register, or a register of a function around (env).*)
Slot(flags, index, env, const) == [flags |-> flags, index |-> index, env |-> env, const |-> const]
CSlot(v) == Slot({"constant"}, -1, -1, v)
RSlot(reg) == Slot({}, reg, -1, Nil)
IsStored(s) == s.flags \cap {"constant", "ref"} # {}
IsLocal(s) == s.env < 0 /\ s.index >= 0

(* JanetCompiler: scopes (the innermost last) and the code so far.           *)
Inner(c) == c.scopes[Len(c.scopes)]
WithRa(c, ra) == [c EXCEPT !.scopes[Len(c.scopes)].ra = ra]
Failed(c, message) == [c EXCEPT !.error = IF @ = "" THEN message ELSE @]
Emit(c, instr) == [c EXCEPT !.buffer = Append(@, instr)]
Label(c) == Len(c.buffer)
Patch(c, label, k, jump) == [c EXCEPT !.buffer[label + 1][k] = jump]

AllocFar(c) == LET a == Alloc1(Inner(c).ra) IN [reg |-> a.reg, c |-> WithRa(c, a.ra)]
AllocTemp(c, nth) ==
  LET a == Temp(Inner(c).ra, nth)
  IN [reg |-> a.reg, c |-> IF nth \in Inner(c).ra.temps THEN Failed(c, "regtemp already allocated") ELSE WithRa(c, a.ra)]
DropTemp(c, reg, nth) == WithRa(c, FreeTemp(Inner(c).ra, reg, nth))

(* The innermost scope of a function, and its constants.                     *)
FunctionScope(c) ==
  CHOOSE i \in DOMAIN c.scopes : "function" \in c.scopes[i].flags
                                 /\ \A j \in i + 1 .. Len(c.scopes) : "function" \notin c.scopes[j].flags
AddConst(c, x) ==
  LET f == FunctionScope(c)
      consts == c.scopes[f].consts
      at == {i \in DOMAIN consts : consts[i] = x}
  IN IF at # {} THEN [c |-> c, index |-> (CHOOSE i \in at : TRUE) - 1]
     ELSE [c |-> [c EXCEPT !.scopes[f].consts = Append(@, x)], index |-> Len(consts)]

LoadConst(c, k, reg) ==
  LET a == AddConst(c, k)
  IN CASE k = Nil -> Emit(c, <<"ldn", reg, 0, 0>>)
       [] k.t = "boolean" -> Emit(c, <<IF k.n = 1 THEN "ldt" ELSE "ldf", reg, 0, 0>>)
       [] k.t = "number" /\ k.n \in -32768 .. 32767 -> Emit(c, <<"ldi", reg, k.n, 0>>)
       [] OTHER -> Emit(a.c, <<"ldc", reg, a.index, 0>>)

(* A register of a function around is given in eight bits.                   *)
Narrow(index) == index % (LastNear + 1)

MoveNear(c, dest, s) ==
  CASE IsStored(s) ->
         LET d == LoadConst(c, s.const, dest)
         IN IF "ref" \in s.flags THEN Emit(d, <<"geti", dest, dest, 0>>) ELSE d
    [] ~IsStored(s) /\ s.env >= 0 -> Emit(c, <<"ldu", dest, s.env, Narrow(s.index)>>)
    [] ~IsStored(s) /\ s.env < 0 -> IF s.index = dest THEN c ELSE Emit(c, <<"movn", dest, s.index, 0>>)

NearSource(c, src) ==
  IF src <= LastNear THEN [c |-> c, reg |-> src]
  ELSE [c |-> Emit(c, <<"movn", FirstReserved + 5, src, 0>>), reg |-> FirstReserved + 5]

MoveBack(c, dest, src) ==
  LET t == AllocTemp(c, 5)
      d == Emit(LoadConst(t.c, dest.const, t.reg), <<"puti", t.reg, src, 0>>)
      n == NearSource(c, src)
  IN IF "ref" \in dest.flags THEN DropTemp(d, t.reg, 5)
     ELSE IF dest.env >= 0 THEN Emit(n.c, <<"setu", n.reg, dest.env, Narrow(dest.index)>>)
     ELSE IF dest.index # src THEN Emit(n.c, <<"movf", n.reg, dest.index, 0>>) ELSE c

FreeNear(c, s, reg, nth) == IF reg # s.index \/ s.env >= 0 \/ IsStored(s) THEN DropTemp(c, reg, nth) ELSE c

RegNear(c, s, nth) ==
  LET t == AllocTemp(c, nth)
  IN IF IsLocal(s) /\ s.index <= LastNear THEN [c |-> c, reg |-> s.index]
     ELSE [c |-> MoveNear(t.c, t.reg, s), reg |-> t.reg]

(* The temporary is given back but its register stays taken until FreeNear;  *)
(* a far register that replaces a reserved one stays taken.                  *)
RegFar(c, s, nth) ==
  LET t == RegNear(c, s, nth)
      far == AllocFar(t.c)
  IN IF IsLocal(s) THEN [c |-> c, reg |-> s.index]
     ELSE IF t.reg >= FirstReserved
     THEN [c |-> DropTemp(Emit(far.c, <<"movf", t.reg, far.reg, 0>>), t.reg, nth), reg |-> far.reg]
     ELSE LET d == DropTemp(t.c, t.reg, nth) IN [c |-> WithRa(d, Touch(Inner(d).ra, t.reg)), reg |-> t.reg]

(* emit1s, janetc_emit_s, emit2s, janetc_emit_ss and janetc_emit_sss: an     *)
(* instruction of up to three slots, those in far by sixteen bits; the first *)
(* is written back if wr.                                                    *)
Instr(c, op, slots, far, rest, wr) ==
  LET got == FoldLeft(LAMBDA acc, i :
               LET r == IF i \in far THEN RegFar(acc.c, slots[i], i - 1) ELSE RegNear(acc.c, slots[i], i - 1)
               IN [c |-> r.c, regs |-> Append(acc.regs, r.reg)],
               [c |-> c, regs |-> <<>>], [i \in DOMAIN slots |-> i])
      regs == got.regs
      code == <<op>> \o SubSeq(regs \o rest \o <<0, 0, 0>>, 1, 3)
      free(d, i) == IF i \in DOMAIN slots THEN FreeNear(d, slots[i], regs[i], i - 1) ELSE d
      d == free(free(Emit(got.c, code), 2), 3)
  IN [c |-> free(IF wr THEN MoveBack(d, slots[1], regs[1]) ELSE d, 1), label |-> Label(got.c)]

SameSlot(x, y) == x.flags = y.flags /\ x.index = y.index /\ x.env = y.env /\ (IsStored(x) => x.const = y.const)

Copy(c, dest, src) ==
  LET t == AllocTemp(c, 3)
  IN IF "constant" \in dest.flags THEN Failed(c, "cannot write to constant")
     ELSE IF SameSlot(dest, src) THEN c
     ELSE IF IsLocal(dest) /\ dest.index <= LastNear THEN MoveNear(c, dest.index, src)
     ELSE IF IsLocal(src) /\ src.index <= LastNear THEN MoveBack(c, dest, src.index)
     ELSE DropTemp(MoveBack(MoveNear(t.c, t.reg, src), dest, t.reg), t.reg, 3)
=============================================================================
