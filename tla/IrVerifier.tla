----------------------------- MODULE IrVerifier -----------------------------
(***************************************************************************)
(* ir::verify_storage: the first thing wrong with a storage, in the order  *)
(* of the code. Every check reads only entries that an earlier check found *)
(* to exist; VerifyStorage is defined for every storage only because of    *)
(* that order. Of an error the kind is kept, not the offending index.      *)
(***************************************************************************)
EXTENDS IrStorage, SequencesExt

Ok == "Ok"

\* An early return: the rest is evaluated only if nothing was wrong so far.
first ?? rest == IF first # Ok THEN first ELSE rest
Unless(holds, kind) == IF holds THEN Ok ELSE kind

\* A loop that returns the first error of its body.
ErrorOf(S, Check(_)) ==
    IF \E i \in S : Check(i) # Ok
    THEN Check(CHOOSE i \in S : Check(i) # Ok /\ \A j \in S : j < i => Check(j) = Ok)
    ELSE Ok

\* range_in_bounds, and an index below the size of its table.
InBounds(range, table) == range.head + range.size <= Len(table) + 1
Has(table, idx) == idx \in DOMAIN table

-----------------------------------------------------------------------------
\* Payloads of Ref, MutRef and Function nodes are not looked at.
TypeError(s, t) ==
    LET n == s.types[t] IN
    CASE n.tag = "Struct" ->
            Unless(Has(s.structs, n.data), "TypeMetadataOutOfRange")
            ?? Unless(InBounds(s.structs[n.data], s.types), "StructFieldsOutOfRange")
      [] n.tag = "Array" ->
            Unless(Has(s.arrays, n.data), "TypeMetadataOutOfRange")
            ?? Unless(Has(s.types, s.arrays[n.data].element), "TypeIdxOutOfRange")
      [] n.tag = "Enum" ->
            Unless(Has(s.enums, n.data), "TypeMetadataOutOfRange")
            ?? (Unless(InBounds(s.enums[n.data], s.variants), "TypeMetadataOutOfRange")
            ?? ErrorOf(Slots(s.enums[n.data]), LAMBDA v :
                   Unless(InBounds(s.variants[v], s.types), "EnumFieldsOutOfRange")))
      [] n.tag = "Tuple" ->
            Unless(Has(s.tuples, n.data), "TypeMetadataOutOfRange")
            ?? Unless(InBounds(s.tuples[n.data], s.types), "TupleFieldsOutOfRange")
      [] OTHER -> Ok

\* The parameters are themselves entries of s.types: each has to be an index
\* below the size of the table.
FunctionError(s, f) ==
    LET fn == s.functions[f] IN
    Unless(InBounds(fn.blocks, s.blocks), "FunctionBlocksOutOfRange")
    ?? (Unless(Has(s.types, fn.ret), "TypeIdxOutOfRange")
    ?? ErrorOf(Slots(fn.params), LAMBDA t : Unless(Has(s.types, t), "TypeIdxOutOfRange")))

-----------------------------------------------------------------------------
(***************************************************************************)
(* Register definitions, over all the blocks of all the functions: bound   *)
(* by block parameters or defined by instructions, each at most once.      *)
(***************************************************************************)
DefinedBy(s, params, instrs) ==
    {s.params[p].reg : p \in params} \cup ({s.instrs[i].dst : i \in instrs} \ {NoRegister})

\* `defined` when the scan gets to block b.
DefinedBefore(s, b) ==
    UNION {DefinedBy(s, ParamsOf(s, c), InstrsOf(s, c)) : c \in 1 .. b - 1}

Defined(s) == DefinedBefore(s, Len(s.blocks) + 1)

ParamError(s, b, p) ==
    LET param   == s.params[p]
        defined == DefinedBefore(s, b) \cup DefinedBy(s, {q \in ParamsOf(s, b) : q < p}, {})
    IN  Unless(Has(s.types, param.type), "TypeIdxOutOfRange")
        ?? (Unless(Has(s.registers, param.reg), "BlockParamRegOutOfRange")
        ?? Unless(param.reg \notin defined, "RedefinedRegister"))

DstError(s, b, i) ==
    LET dst     == s.instrs[i].dst
        defined == DefinedBefore(s, b)
                       \cup DefinedBy(s, ParamsOf(s, b), {j \in InstrsOf(s, b) : j < i})
    IN  IF dst = NoRegister THEN Ok
        ELSE Unless(Has(s.registers, dst), "InstrDstOutOfRange")
             ?? Unless(dst \notin defined, "RedefinedRegister")

DefinitionError(s, b) ==
    Unless(InBounds(s.blocks[b].instrs, s.instrs), "BlockInstrsOutOfRange")
    ?? (Unless(InBounds(s.blocks[b].params, s.params), "BlockParamsOutOfRange")
    ?? (ErrorOf(ParamsOf(s, b), LAMBDA p : ParamError(s, b, p))
    ?? ErrorOf(InstrsOf(s, b), LAMBDA i : DstError(s, b, i))))

-----------------------------------------------------------------------------
Table(s, tag) ==
    CASE tag = "Register"  -> s.registers
      [] tag = "Function"  -> s.functions
      [] tag = "Block"     -> s.blocks
      [] tag = "Immutable" -> s.immutables
      [] tag = "External"  -> s.externals

OperandError(s, defined, o) ==
    LET operand == s.operands[o] IN
    Unless(Has(s.types, operand.type), "TypeIdxOutOfRange")
    ?? (Unless(operand.tag # "void", "UnknownOperandTag")
    ?? (Unless(Has(Table(s, operand.tag), operand.idx), "OperandIdxOutOfRange")
    ?? Unless(operand.tag = "Register" => operand.idx \in defined, "UndefinedRegister")))

IsTag(s, i, k, tag) == OperandAt(s, i, k).tag = tag
IsInteger(s, i, k)  == is_integer_type(Tag(s, OperandAt(s, i, k).type))

\* Mutant: the targets of CondBr and Switch may take parameters.
IsPlainTargetAny(s, i, k) == IsTag(s, i, k, "Block")

\* A block that takes no parameters.
IsPlainTarget(s, i, k) ==
    IsTag(s, i, k, "Block") /\ ParamsOf(s, OperandAt(s, i, k).idx) = {}

CalleeParams(s, i) ==
    LET callee == OperandAt(s, i, 0) IN
    IF callee.tag = "Function" THEN s.functions[callee.idx].params
    ELSE s.externals[callee.idx].params

CallShape(s, i) ==
    /\ Arity(s, i) > 0
    /\ OperandAt(s, i, 0).tag \in {"Function", "External"}
    /\ Arity(s, i) - 1 = CalleeParams(s, i).size

\* The arguments of the target block are not counted.
BrShape(s, i) == Arity(s, i) > 0 /\ IsTag(s, i, 0, "Block")

CondBrShape(s, i) ==
    /\ Arity(s, i) = 3
    /\ Tag(s, OperandAt(s, i, 0).type) = "I1"
    /\ IsPlainTarget(s, i, 1) /\ IsPlainTarget(s, i, 2)

\* The case values are immutables, of any type.
SwitchShape(s, i) ==
    /\ Arity(s, i) >= 2 /\ Arity(s, i) % 2 = 0
    /\ IsInteger(s, i, 0)
    /\ \A k \in 1 .. Arity(s, i) - 1 :
           IF k % 2 = 1 THEN IsPlainTarget(s, i, k) ELSE IsTag(s, i, k, "Immutable")

GetElementPtrShape(s, i) ==
    /\ Arity(s, i) >= 2
    /\ IsTag(s, i, 0, "Register")
    /\ \A k \in 1 .. Arity(s, i) - 1 : IsInteger(s, i, k)

\* The indexes follow the aggregate, and for InsertValue the value.
ExtractInsertShape(s, i) ==
    LET first_index == IF s.instrs[i].op = "ExtractValue" THEN 1 ELSE 2 IN
    /\ Arity(s, i) >= first_index + 1
    /\ \A k \in first_index .. Arity(s, i) - 1 :
           IsTag(s, i, k, "Immutable") /\ IsInteger(s, i, k)

\* Every other opcode takes operands of any number and kind.
ShapeError(s, i) ==
    LET op == s.instrs[i].op IN
    CASE op = "Call"          -> Unless(CallShape(s, i), "InvalidCallee")
      [] op = "Br"            -> Unless(BrShape(s, i), "InvalidBranchTarget")
      [] op = "CondBr"        -> Unless(CondBrShape(s, i), "InvalidCondBr")
      [] op = "Switch"        -> Unless(SwitchShape(s, i), "InvalidSwitch")
      [] op = "GetElementPtr" -> Unless(GetElementPtrShape(s, i), "InvalidGetElementPtr")
      [] op \in {"ExtractValue", "InsertValue"} ->
             Unless(ExtractInsertShape(s, i), "InvalidExtractInsert")
      [] OTHER -> Ok

InstrError(s, defined, b, i) ==
    LET last       == i + 1 = s.blocks[b].instrs.head + s.blocks[b].instrs.size
        terminates == s.instrs[i].op \in Terminator
    IN  Unless(last => terminates, "UnterminatedBlock")
        ?? (Unless(terminates => last, "MisplacedTerminator")
        ?? (Unless(InBounds(s.instrs[i].operands, s.operands), "InstrOperandsOutOfRange")
        ?? (ErrorOf(Operands(s, i), LAMBDA o : OperandError(s, defined, o))
        ?? ShapeError(s, i))))

BlockError(s, defined, b) ==
    Unless(InstrsOf(s, b) # {}, "UnterminatedBlock")
    ?? ErrorOf(InstrsOf(s, b), LAMBDA i : InstrError(s, defined, b, i))

-----------------------------------------------------------------------------
VerifyStorage(s) ==
    ErrorOf(DOMAIN s.types, LAMBDA t : TypeError(s, t))
    ?? (ErrorOf(DOMAIN s.registers,
                LAMBDA r : Unless(Has(s.types, s.registers[r]), "TypeIdxOutOfRange"))
    ?? (ErrorOf(DOMAIN s.immutables,
                LAMBDA m : Unless(Has(s.types, s.immutables[m]), "TypeIdxOutOfRange"))
    ?? (ErrorOf(DOMAIN s.functions, LAMBDA f : FunctionError(s, f))
    ?? (ErrorOf(DOMAIN s.blocks, LAMBDA b : DefinitionError(s, b))
    ?? (ErrorOf(DOMAIN s.blocks, LAMBDA b : BlockError(s, Defined(s), b))
    ?? ErrorOf(DOMAIN s.functions,
               LAMBDA f : Unless(BlocksOf(s, f) # {}, "UnterminatedBlock")))))))

=============================================================================
