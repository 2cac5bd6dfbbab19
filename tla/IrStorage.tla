----------------------------- MODULE IrStorage -----------------------------
(***************************************************************************)
(* ir::Storage: the type tables of StorageTypes with the tables of the     *)
(* code, as one value s.                                                   *)
(*                                                                         *)
(*   s.registers    Register: its type                                     *)
(*   s.immutables   Immutable: its type                                    *)
(*   s.functions    Function [ret, params, blocks]: a type, a range of     *)
(*                  s.types, a range of s.blocks                           *)
(*   s.externals    ExternalFunction [ret, params]                         *)
(*   s.blocks       Block [instrs, params]: ranges                         *)
(*   s.params       BlockParam [type, reg]                                 *)
(*   s.instrs       Instruction [op, dst, operands]; dst is NoRegister for *)
(*                  a discarded value                                      *)
(*   s.operands     Operand [tag, idx, type]                               *)
(*                                                                         *)
(* An index is the index of the code plus one, so 0 is kInvalidIdx. The    *)
(* values of immutables, names, flags and calling conventions are left     *)
(* out: neither the verifier nor the shape of what is emitted reads them.  *)
(***************************************************************************)
EXTENDS StorageTypes, FiniteSets

NoRegister == 0
IndexRange == [head : Nat \ {0}, size : Nat]

OperandTag == {"Register", "Function", "Block", "Immutable", "External", "void"}

Terminator == {"Br", "CondBr", "Switch", "Ret", "Unreachable"}
Arithmetic == {"IntAdd", "IntSub", "IntMul", "IntDiv", "UintDiv", "IntRem", "UintRem", "And",
               "Or", "Xor", "ShiftLeft", "ArithmeticShiftRight", "LogicalShiftRight"}
Comparison == {"Eq", "Ne", "Le", "Lt", "Ge", "Gt"}
Compute == Arithmetic \cup Comparison
               \cup {"Not", "BitReverse", "TypeCast", "Select", "Move", "Drop"}
Memory  == {"Alloca", "Load", "Store", "GetElementPtr", "ExtractValue", "InsertValue",
            "AtomicLoad", "AtomicStore", "AtomicRmw", "AtomicCompareExchange", "Fence"}
Control == Terminator \cup {"Call"}
Opcode  == {"Noop"} \cup Compute \cup Memory \cup Control

\* Any index in any place: that it is one of the table is for verifying to say.
IsStorage(s) ==
    /\ s.types \in Seq([tag : TypeTag, data : Nat])
    /\ s.structs \in Seq(IndexRange) /\ s.arrays \in Seq([element : Nat, count : Nat])
    /\ s.registers \in Seq(Nat) /\ s.immutables \in Seq(Nat)
    /\ s.functions \in Seq([ret : Nat, params : IndexRange, blocks : IndexRange])
    /\ s.externals \in Seq([ret : Nat, params : IndexRange])
    /\ s.blocks \in Seq([instrs : IndexRange, params : IndexRange])
    /\ s.params \in Seq([type : Nat, reg : Nat])
    /\ s.instrs \in Seq([op : Opcode, dst : Nat, operands : IndexRange])
    /\ s.operands \in Seq([tag : OperandTag, idx : Nat, type : Nat])

is_integer_type(tag) == tag \in {"I1", "I8", "I16", "I32", "I64", "U8", "U16", "U32", "U64"}
is_float_type(tag)   == tag \in {"F32", "F64"}

-----------------------------------------------------------------------------
Tag(s, type)     == s.types[type].tag
Operands(s, i)   == Slots(s.instrs[i].operands)
OperandAt(s, i, k) == s.operands[s.instrs[i].operands.head + k]
Arity(s, i)      == s.instrs[i].operands.size
Run(range)       == [k \in 1 .. range.size |-> range.head + k - 1]
BlocksOf(s, f)   == Slots(s.functions[f].blocks)
InstrsOf(s, b)   == Slots(s.blocks[b].instrs)
ParamsOf(s, b)   == Slots(s.blocks[b].params)

-----------------------------------------------------------------------------
(***************************************************************************)
(* What the factories of StorageBuilder append. set_block_instrs and       *)
(* set_block_params patch a block that branches already name.              *)
(***************************************************************************)
EmptyStorage ==
    [types |-> InitBuilder.types, structs |-> <<>>, enums |-> <<>>, variants |-> <<>>,
     refs |-> <<>>, tuples |-> <<>>, arrays |-> <<>>, registers |-> <<>>, immutables |-> <<>>,
     functions |-> <<>>, externals |-> <<>>, blocks |-> <<>>, params |-> <<>>, instrs |-> <<>>,
     operands |-> <<>>]

AddRegister(s, type)      == [s EXCEPT !.registers = Append(@, type)]
AddImmutable(s, type)     == [s EXCEPT !.immutables = Append(@, type)]
AddExternal(s, external)  == [s EXCEPT !.externals = Append(@, external)]
AddFunction(s, function)  == [s EXCEPT !.functions = Append(@, function)]
AddBlock(s)               == [s EXCEPT !.blocks = Append(@, [instrs |-> NoSlots,
                                                            params |-> NoSlots])]
\* OperandSeq, then the instruction that names the run.
AddInstr(s, op, dst, operands) ==
    [s EXCEPT !.operands = @ \o operands,
              !.instrs   = Append(@, [op |-> op, dst |-> dst,
                  operands |-> IdxRange(Len(s.operands) + 1, Len(operands))])]
AddParams(s, params)          == [s EXCEPT !.params = @ \o params]
set_block_instrs(s, b, range) == [s EXCEPT !.blocks[b].instrs = range]
set_block_params(s, b, range) == [s EXCEPT !.blocks[b].params = range]

=============================================================================
