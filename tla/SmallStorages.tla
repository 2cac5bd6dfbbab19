--------------------------- MODULE SmallStorages ---------------------------
(***************************************************************************)
(* Storages for the back end: programs put together the way StorageBuilder *)
(* and SeqBuilder put them together, and every storage that differs from   *)
(* one of them in one entry. All are well typed for LLVM: an operand is    *)
(* only replaced by one of its own LLVM type.                              *)
(***************************************************************************)
EXTENDS IrStorage, SequencesExt

I1 == Primitive("I1")
I32 == Primitive("I32")
U32 == Primitive("U32")
F32 == Primitive("F32")
Str == Primitive("Str")
Ptr == Primitive("Ptr")
Void == Primitive("Void")
FirstMade == Len(PrimitiveTag) + 1

Operand(tag, idx, type) == [tag |-> tag, idx |-> idx, type |-> type]
R(r) == Operand("Register", r, I32)
RT(r, type) == Operand("Register", r, type)
M(m) == Operand("Immutable", m, I32)
B(b) == Operand("Block", b, I32)
F(f) == Operand("Function", f, Primitive("Function"))
X(x) == Operand("External", x, Primitive("Function"))

I(op, dst, ops) == [op |-> op, dst |-> dst, ops |-> ops]
Do(op, ops) == I(op, NoRegister, ops)
Param(reg, type) == [reg |-> reg, type |-> type]
Block(params, code) == [params |-> params, code |-> code]
Fn(params, blocks) == [ret |-> I32, params |-> params, blocks |-> blocks]

FillBlock(s, b, block) ==
    LET coded  == FoldLeft(LAMBDA acc, i : AddInstr(acc, i.op, i.dst, i.ops), s, block.code)
        filled == AddParams(coded, block.params)
    IN  set_block_params(
            set_block_instrs(filled, b, IdxRange(Len(s.instrs) + 1, Len(block.code))),
            b, IF block.params = <<>> THEN NoSlots
               ELSE IdxRange(Len(s.params) + 1, Len(block.params)))

\* The blocks are declared first: branches name blocks that come later.
Define(s, f) ==
    LET first    == Len(s.blocks) + 1
        declared == FoldLeft(LAMBDA acc, unused : AddBlock(acc), AppendCopies(s, f.params), f.blocks)
        filled   == FoldLeft(LAMBDA acc, n : FillBlock(acc, first + n - 1, f.blocks[n]), declared,
                             [n \in DOMAIN f.blocks |-> n])
    IN  AddFunction(filled, [ret |-> f.ret, params |-> CopiesRange(s, f.params),
                             blocks |-> IdxRange(first, Len(f.blocks))])

\* A struct of two i32 and an array of three of them, `puts`, the constants.
Prelude ==
    LET fields == AppendCopies(EmptyStorage, <<I32, I32>>)
        struct == StructType(fields, IdxRange(FirstMade, 2)).builder
        array  == ArrayType(struct, FirstMade + 2, 3).builder
    IN  AddImmutable(AddImmutable(AddExternal(array, [ret |-> I32, params |-> IdxRange(I32, 1)]),
                                  I32), I32)
Struct == FirstMade + 2
Array  == FirstMade + 3

Program(registers, functions) ==
    FoldLeft(Define, FoldLeft(AddRegister, Prelude, registers), functions)

-----------------------------------------------------------------------------
Straight == Program(<<I32, I32, I1, I32, I32>>, <<Fn(<<>>, <<Block(<<>>, <<
    I("Call", 1, <<X(1), M(1)>>), I("Move", 2, <<R(1)>>), I("Eq", 3, <<R(2), M(2)>>),
    I("Select", 4, <<RT(3, I1), R(1), R(2)>>), Do("Drop", <<R(2)>>), Do("Ret", <<R(4)>>)>>)>>)>>)

Loop == Program(<<I32, I32, I1, I32>>, <<Fn(<<>>, <<
    Block(<<>>, <<Do("Br", <<B(2), M(1)>>)>>),
    Block(<<Param(1, I32)>>, <<I("Call", 2, <<X(1), R(1)>>), I("Lt", 3, <<R(2), M(1)>>),
                               Do("CondBr", <<RT(3, I1), B(3), B(4)>>)>>),
    Block(<<>>, <<Do("Br", <<B(2), R(2)>>)>>),
    Block(<<>>, <<Do("Ret", <<R(1)>>)>>)>>)>>)

Cells == Program(<<Array, Ptr, I32, I32, Struct, Struct, I32, Struct>>, <<Fn(<<>>, <<Block(<<>>, <<
    I("Alloca", 1, <<M(1)>>), I("GetElementPtr", 2, <<RT(1, Ptr), M(1), M(2)>>),
    Do("Store", <<M(1), RT(2, Ptr)>>), I("Load", 3, <<RT(2, Ptr)>>),
    I("AtomicRmw", 4, <<RT(2, Ptr), R(3)>>), Do("Fence", <<>>),
    I("Load", 5, <<RT(1, Ptr)>>), I("InsertValue", 6, <<RT(5, Struct), R(3), M(1)>>),
    I("ExtractValue", 7, <<RT(6, Struct), M(2)>>), Do("Ret", <<R(7)>>)>>)>>)>>)

Others == Program(<<I32, I32, I32, I32, Struct, I32, U32, Ptr>>, <<Fn(<<>>, <<Block(<<>>, <<
    I("Alloca", 1, <<M(1)>>), I("Call", 2, <<X(1), M(1)>>), I("IntAdd", 3, <<R(2), M(1)>>),
    I("Not", 4, <<R(3)>>), Do("AtomicStore", <<R(4), RT(1, Ptr)>>),
    I("AtomicCompareExchange", 5, <<RT(1, Ptr), M(1), R(4)>>), I("AtomicLoad", 6, <<RT(1, Ptr)>>),
    I("BitReverse", 7, <<R(6)>>), I("TypeCast", 8, <<R(6)>>), Do("Unreachable", <<>>)>>)>>)>>)

\* The first function names a constant and a value, the second copies a value
\* it does not use.
Calls == Program(<<I32, I32, I32, I32, I32, I32>>, <<
    Fn(<<I32>>, <<Block(<<>>, <<I("Call", 1, <<F(1), M(1)>>), I("Move", 5, <<M(1)>>),
                                Do("Ret", <<R(1)>>)>>)>>),
    Fn(<<>>, <<Block(<<>>, <<I("Call", 2, <<F(1), M(1)>>), I("Move", 6, <<R(2)>>),
                             I("TypeCast", 3, <<R(2)>>),
                             I("Call", 4, <<X(1), R(3)>>), Do("Ret", <<R(4)>>)>>)>>)>>)

\* A block with two parameters, and two branches to it.
Choice == Program(<<I32, I32, I32, I32, I32>>, <<Fn(<<>>, <<
    Block(<<>>, <<I("Call", 1, <<X(1), M(1)>>), Do("Switch", <<R(1), B(2), M(1), B(3)>>)>>),
    Block(<<>>, <<I("Call", 2, <<X(1), R(1)>>), Do("Br", <<B(4), R(2), M(2)>>)>>),
    Block(<<>>, <<Do("Noop", <<>>), I("Move", 4, <<R(1)>>), Do("Br", <<B(4), R(4), R(1)>>)>>),
    Block(<<Param(3, I32), Param(5, I32)>>, <<Do("Ret", <<R(3)>>)>>)>>)>>)

\* Both functions are the same blocks.
Shared == LET s == Program(<<I32, I32>>, <<Fn(<<>>, <<Block(<<>>, <<
                       I("Call", 1, <<X(1), M(1)>>), Do("Br", <<B(2)>>)>>),
                   Block(<<>>, <<Do("Ret", <<R(1)>>)>>)>>)>>)
          IN  AddFunction(s, s.functions[1])

\* The second function is only the last block of the first: what that block
\* copies is left from the first function.
Overlap == LET s == Program(<<I32, I32, I32, I32>>, <<Fn(<<>>, <<
                   Block(<<>>, <<I("Call", 1, <<X(1), M(1)>>), I("Move", 2, <<R(1)>>),
                                 I("Move", 4, <<M(1)>>), Do("Br", <<B(2)>>)>>),
                   Block(<<>>, <<I("Move", 3, <<R(2)>>), Do("BitReverse", <<R(3)>>),
                                 Do("Ret", <<R(4)>>)>>)>>)>>)
           IN  AddFunction(s, [s.functions[1] EXCEPT !.blocks = IdxRange(2, 1)])

\* Two blocks take parameters; the second one begins with a use of its own.
Joins == Program(<<I32, I32, I32, I32, I32>>, <<Fn(<<>>, <<
    Block(<<>>, <<I("Call", 1, <<X(1), M(1)>>), Do("Br", <<B(2), R(1)>>)>>),
    Block(<<Param(2, I32)>>, <<I("Call", 3, <<X(1), R(2)>>), Do("Br", <<B(3), R(3)>>)>>),
    Block(<<Param(4, I32)>>, <<I("IntAdd", 5, <<M(2), R(4)>>), Do("Ret", <<R(5)>>)>>)>>)>>)

-----------------------------------------------------------------------------
(***************************************************************************)
(* One entry changed. An index one past its table is among the values.     *)
(***************************************************************************)
Upto(table) == 1 .. Len(table) + 1
IsPointer(s, r) == \E i \in DOMAIN s.instrs :
    s.instrs[i].dst = r /\ s.instrs[i].op \in {"Alloca", "GetElementPtr"}
SameType(s, r) == {q \in DOMAIN s.registers :
    s.registers[q] = s.registers[r] /\ IsPointer(s, q) = IsPointer(s, r)}

Replacements(s, o) ==
    LET old == s.operands[o] IN
    [tag : {"void"}, idx : {0}, type : {Void}]
    \cup [tag : {old.tag}, idx : {old.idx}, type : {old.type, U32, Str, Len(s.types) + 1}]
    \cup [tag : {"Block"}, idx : Upto(s.blocks), type : {old.type}]
    \cup [tag : {"Function"}, idx : Upto(s.functions), type : {old.type}]
    \cup (IF old.tag = "Register"
          THEN [tag : {"Register"}, idx : SameType(s, old.idx) \cup {Len(s.registers) + 1}, type : {old.type}]
          ELSE {})
    \cup (IF old.tag \in {"Register", "Immutable"} /\ old.type = I32
          THEN [tag : {"Immutable"}, idx : Upto(s.immutables), type : {I32}] ELSE {})
    \cup (IF old.tag = "Immutable"
          THEN [tag : {"Register"}, idx : {r \in DOMAIN s.registers :
                    s.registers[r] = I32 /\ ~IsPointer(s, r)}, type : {I32}] ELSE {})

Resized(range) == {IdxRange(range.head, n) : n \in {range.size - 1, range.size + 1} \ {-1}}

OperandChanges(s) == UNION {{[s EXCEPT !.operands[o] = x] : x \in Replacements(s, o)} : o \in DOMAIN s.operands}
InstrChanges(s) == UNION {
    {[s EXCEPT !.instrs[i].dst = r] : r \in {NoRegister} \cup Upto(s.registers)}
    \cup {[s EXCEPT !.instrs[i].operands = x] : x \in Resized(s.instrs[i].operands)}
    \cup {[s EXCEPT !.instrs[i].op = op] : op \in {"Noop", "Drop", "Ret", "Unreachable"}}
    \cup {[s EXCEPT !.instrs[i] = s.instrs[j], !.instrs[j] = s.instrs[i]] : j \in DOMAIN s.instrs} :
    i \in DOMAIN s.instrs}
BlockChanges(s) == UNION {
    {[s EXCEPT !.blocks[b].instrs = x] : x \in Resized(s.blocks[b].instrs)}
    \cup {[s EXCEPT !.blocks[b].params = x] : x \in Resized(s.blocks[b].params)}
    \cup {[s EXCEPT !.blocks[b] = s.blocks[c], !.blocks[c] = s.blocks[b]] : c \in DOMAIN s.blocks} :
    b \in DOMAIN s.blocks}
TypeChanges(s) ==
    LET kinds == {U32, Str, Struct, Len(s.types) + 1} IN
    UNION {{[s EXCEPT !.registers[r] = t] : t \in {U32, Len(s.types) + 1}} : r \in DOMAIN s.registers}
    \cup UNION {{[s EXCEPT !.immutables[m] = t] : t \in kinds} : m \in DOMAIN s.immutables}
    \cup UNION {{[s EXCEPT !.params[p].type = t] : t \in {Str, Len(s.types) + 1}} : p \in DOMAIN s.params}
    \cup UNION {{[s EXCEPT !.params[p].reg = r] : r \in Upto(s.registers)} : p \in DOMAIN s.params}
    \cup {[s EXCEPT !.structs[1] = IdxRange(h, n)] : h \in {FirstMade, FirstMade + 2}, n \in {1, 9}}
    \cup {[s EXCEPT !.arrays[1].element = t] : t \in {Array, Struct, Len(s.types) + 1}}
    \cup {[s EXCEPT !.types[FirstMade + 1] = [tag |-> "Enum", data |-> 1]], [s EXCEPT !.types[Struct].data = 2]}
SignatureChanges(s) ==
    {[s EXCEPT !.externals[1].params = x] : x \in {NoSlots, IdxRange(Len(s.types) + 1, 1), IdxRange(Str, 1)}}
    \cup UNION {{[s EXCEPT !.functions[f].ret = t] : t \in {Str, Len(s.types) + 1}} : f \in DOMAIN s.functions}
    \cup UNION {{[s EXCEPT !.functions[f].blocks = x] : x \in
                    Resized(s.functions[f].blocks) \cup {IdxRange(Len(s.blocks), 1)}} : f \in DOMAIN s.functions}

Near(s) == {s} \cup OperandChanges(s) \cup InstrChanges(s) \cup BlockChanges(s)
               \cup TypeChanges(s) \cup SignatureChanges(s)

\* Two entries changed: the order of blocks or instructions, then an operand
\* that stays inside its table.
Reordered(s) ==
    {[s EXCEPT !.instrs[i] = s.instrs[j], !.instrs[j] = s.instrs[i]] : i, j \in DOMAIN s.instrs}
    \cup {[s EXCEPT !.blocks[b] = s.blocks[c], !.blocks[c] = s.blocks[b]] : b, c \in DOMAIN s.blocks}
Rewired(s) == UNION {{[s EXCEPT !.operands[o].idx = x] :
    x \in CASE s.operands[o].tag = "Register" -> SameType(s, s.operands[o].idx)
           [] s.operands[o].tag = "Block"    -> DOMAIN s.blocks
           [] OTHER                          -> {s.operands[o].idx}} : o \in DOMAIN s.operands}
TwiceNear(s) == UNION {Rewired(x) : x \in Reordered(s)}

=============================================================================
