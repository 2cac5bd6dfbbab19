---------------------------- MODULE LlvmEmitter ----------------------------
(***************************************************************************)
(* The back end: ir::verify_storage, and LlvmIrEmitter::emit() for a       *)
(* storage that it accepts, in a debug build. One action per loop body:    *)
(* immutables, external functions, and for every function in table order   *)
(* its creation, its blocks, its phi nodes and its instructions.           *)
(*                                                                         *)
(* LlvmIrStorage maps the indexes of the IR to what was emitted for them.  *)
(* An emitted value is named by where it comes from,                       *)
(*   [kind, fn, of]    kind   const, function, external, block, phi, instr *)
(*                     fn     the function it was emitted for, 0 if none   *)
(*                     of     index of the immutable, ..., instruction;    *)
(*                            for a phi the register it fills              *)
(* whether or not the LLVM builder folds it to a constant.                 *)
(*                                                                         *)
(* outcome is "rejected" (verify_storage found an error), "emitted", or    *)
(* "stopped": a failed DCHECK, an UNREACHABLE(), the use of an entry never *)
(* written (nullptr), a read outside a table, or type() recursing without  *)
(* end. LLVM's verifier, which emit_function runs, is external: of its     *)
(* rules those about the control flow and the places of values are here,   *)
(* not those about types, which the storages considered respect.           *)
(***************************************************************************)
EXTENDS IrVerifier

CONSTANT Storages     \* the storages emission is tried on

ASSUME StoragesAssumption == \A s \in Storages : IsStorage(s)

VARIABLES
    storage,      \* LlvmIrEmitter::storage_
    phase,        \* the loop emit() is in
    fn,           \* the function it emits, 0 before the first
    todo,         \* what the loop has left
    values,       \* LlvmIrEmitter::values_
    code,         \* the LLVM instructions, in the order they were created
    incoming,     \* the incoming edges of the phi nodes
    outcome

vars == <<storage, phase, fn, todo, values, code, incoming, outcome>>

Value(kind, f, of) == [kind |-> kind, fn |-> f, of |-> of]
Null == Value("null", 0, 0)

Empty(table) == [x \in DOMAIN table |-> Null]
NoValues(s) ==
    [functions |-> Empty(s.functions), registers |-> Empty(s.registers),
     blocks |-> Empty(s.blocks), immutables |-> Empty(s.immutables),
     externals |-> Empty(s.externals), allocas |-> Empty(s.registers)]

-----------------------------------------------------------------------------
(***************************************************************************)
(* type(): scalars and pointers; structs and arrays once their parts are.  *)
(* What is not in the least fixpoint has an unsupported part, one outside  *)
(* the table, or itself as a part.                                         *)
(***************************************************************************)
ScalarTag == {"Void", "I1", "I8", "I16", "I32", "I64", "F32", "F64", "Ptr", "Ref", "MutRef"}

Parts(s, t) ==
    IF Tag(s, t) = "Array" THEN {s.arrays[s.types[t].data].element}
    ELSE Slots(s.structs[s.types[t].data])

Lowerable(s) ==
    FoldLeft(LAMBDA done, unused : done \cup
                 {t \in DOMAIN s.types : Tag(s, t) \in {"Struct", "Array"} /\ Parts(s, t) \subseteq done},
             {t \in DOMAIN s.types : Tag(s, t) \in ScalarTag},
             s.structs \o s.arrays)

SignatureLowers(s, signature) ==
    {signature.ret} \cup Slots(signature.params) \subseteq Lowerable(s)

ImmutableLowers(s, m) ==
    LET tag == Tag(s, s.immutables[m]) IN
    \/ tag = "Str"
    \/ tag \in ScalarTag /\ (is_integer_type(tag) \/ is_float_type(tag))

-----------------------------------------------------------------------------
(***************************************************************************)
(* One instruction: the number of operands it DCHECKs, the operands it     *)
(* resolves, what it asks of the types, and whether it creates an LLVM     *)
(* instruction and binds its destination.                                  *)
(***************************************************************************)
Discards(s, i) == s.instrs[i].dst = NoRegister

ArityHolds(s, i) ==
    LET op == s.instrs[i].op
        n  == Arity(s, i)
    IN  CASE op \in Arithmetic \cup Comparison \cup {"Store", "AtomicStore", "AtomicRmw"} -> n = 2
          [] op \in {"Not", "BitReverse", "TypeCast", "Move", "Alloca", "Load", "AtomicLoad"} -> n = 1
          [] op \in {"Select", "AtomicCompareExchange", "CondBr"} -> n = 3
          [] op \in {"Fence", "Unreachable"} -> n = 0
          [] op \in {"Ret", "Drop"} -> n <= 1
          [] op \in {"Br", "Call"} -> n >= 1
          [] op \in {"Switch", "GetElementPtr", "ExtractValue"} -> n >= 2
          [] op = "InsertValue" -> n >= 3
          [] op = "Noop" -> TRUE

\* Opcodes that do nothing at all when the value is discarded.
OnlyForDst == Arithmetic \cup {"Not", "Move", "TypeCast", "Alloca", "Load", "AtomicLoad"}

\* The operands that are resolved to LLVM values. The indexes of ExtractValue
\* and InsertValue are read from the immutables; the arguments of Br are
\* resolved for the parameters of its target.
Reads(s, i) ==
    LET op == s.instrs[i].op IN
    CASE op \in OnlyForDst /\ Discards(s, i)               -> <<>>
      [] op \in {"Noop", "Drop", "Fence", "Unreachable"}   -> <<>>
      [] op \in {"ExtractValue", "Br"}                     -> <<0>>
      [] op = "InsertValue"                                -> <<0, 1>>
      [] OTHER -> [k \in 1 .. Arity(s, i) |-> k - 1]

CastSupported(from, to) ==
    \/ from = to
    \/ /\ is_integer_type(from) \/ is_float_type(from)
       /\ is_integer_type(to) \/ is_float_type(to)
    \/ is_integer_type(from) /\ to = "Ptr"
    \/ from = "Ptr" /\ is_integer_type(to)

IsIntegerImmutable(s, i, k) ==
    is_integer_type(Tag(s, s.immutables[OperandAt(s, i, k).idx]))

TypesSupported(s, i) ==
    LET op  == s.instrs[i].op
        tag == Tag(s, OperandAt(s, i, 0).type)
    IN  /\ op \in Comparison =>
               is_integer_type(tag) \/ is_float_type(tag) \/ (tag = "Ptr" /\ op \in {"Eq", "Ne"})
        /\ op \in {"TypeCast", "Alloca", "Load", "AtomicLoad"} /\ ~Discards(s, i) =>
               s.registers[s.instrs[i].dst] \in Lowerable(s)
        /\ op = "TypeCast" /\ ~Discards(s, i) =>
               CastSupported(tag, Tag(s, s.registers[s.instrs[i].dst]))
        /\ op \in {"ExtractValue", "InsertValue"} =>
               \A k \in (IF op = "ExtractValue" THEN 1 ELSE 2) .. Arity(s, i) - 1 :
                   IsIntegerImmutable(s, i, k)
        /\ op = "Switch" =>
               \A k \in 2 .. Arity(s, i) - 1 : k % 2 = 0 => IsIntegerImmutable(s, i, k)

\* A register alias: the destination stands for the operand.
IsAlias(s, i) ==
    \/ s.instrs[i].op = "Move"
    \/ /\ s.instrs[i].op = "TypeCast"
       /\ Tag(s, OperandAt(s, i, 0).type) = Tag(s, s.registers[s.instrs[i].dst])

Binds(s, i) ==
    /\ ~Discards(s, i)
    /\ s.instrs[i].op \in (Compute \ {"Drop"}) \cup (Memory \ {"Fence"}) \cup {"Call"}

Emits(s, i) ==
    LET op == s.instrs[i].op IN
    /\ op \notin {"Noop", "Drop"}
    /\ ~(Discards(s, i) /\ op \in OnlyForDst \cup {"BitReverse", "Select", "ExtractValue",
                                                  "InsertValue"})
    /\ ~(Binds(s, i) /\ IsAlias(s, i))

-----------------------------------------------------------------------------
\* UNREACHABLE, or a read outside a table: nothing to use.
resolve_operand_value(v, operand) ==
    CASE operand.tag = "Register" /\ Has(v.registers, operand.idx)   -> v.registers[operand.idx]
      [] operand.tag = "Block" /\ Has(v.blocks, operand.idx)         -> v.blocks[operand.idx]
      [] operand.tag = "Immutable" /\ Has(v.immutables, operand.idx) -> v.immutables[operand.idx]
      [] OTHER -> Null

resolve_operand_function(v, operand) ==
    CASE operand.tag = "Function" -> v.functions[operand.idx]
      [] operand.tag = "External" -> v.externals[operand.idx]

Resolve(s, v, i, k) ==
    IF s.instrs[i].op = "Call" /\ k = 0 THEN resolve_operand_function(v, OperandAt(s, i, k))
    ELSE resolve_operand_value(v, OperandAt(s, i, k))

Arguments(s, v, i) == [k \in DOMAIN Reads(s, i) |-> Resolve(s, v, i, Reads(s, i)[k])]

\* The parameters a branch fills, and for each the operand it takes: the
\* parameter's index in the whole table is the offset.
BranchParams(s, i) ==
    IF s.instrs[i].op = "Br" THEN ParamsOf(s, OperandAt(s, i, 0).idx) ELSE {}
ArgumentOf(s, i, p) == s.instrs[i].operands.head + p

IncomingFor(s, v, b, i) ==
    {[phi   |-> v.registers[s.params[p].reg],
      from  |-> v.blocks[b],
      value |-> resolve_operand_value(v, s.operands[ArgumentOf(s, i, p)])] :
         p \in BranchParams(s, i)}

\* Everything the instruction uses is there.
CanEmit(s, v, b, i) ==
    /\ ArityHolds(s, i)
    /\ TypesSupported(s, i)
    /\ \A k \in DOMAIN Reads(s, i) : Arguments(s, v, i)[k] # Null
    /\ s.instrs[i].op = "GetElementPtr" => v.allocas[OperandAt(s, i, 0).idx] # Null
    /\ \A p \in BranchParams(s, i) :
           /\ v.registers[s.params[p].reg].kind = "phi"
           /\ Has(s.operands, ArgumentOf(s, i, p))
    /\ \A e \in IncomingFor(s, v, b, i) : e.value # Null

\* Mutant: an alias is bound as if it were an instruction.
BoundFresh(s, v, f, i) == Value("instr", f, i)

\* What the destination stands for from now on.
Bound(s, v, f, i) == IF IsAlias(s, i) THEN Resolve(s, v, i, 0) ELSE Value("instr", f, i)

WithDst(s, v, f, i) ==
    LET dst   == s.instrs[i].dst
        bound == [v EXCEPT !.registers[dst] = Bound(s, v, f, i)]
    IN  IF ~Binds(s, i) THEN v
        ELSE IF s.instrs[i].op = "Alloca"
             THEN [bound EXCEPT !.allocas[dst] = Value("instr", f, i)] ELSE bound

-----------------------------------------------------------------------------
(***************************************************************************)
(* LLVM's verifier on function f of the module (external).                 *)
(***************************************************************************)
Entry(s, f) == s.functions[f].blocks.head
CodeOf(f) == {code[k] : k \in {n \in DOMAIN code : code[n].fn = f}}

IsTargetOffset(op, k) ==
    CASE op = "Br" -> k = 0
      [] op = "CondBr" -> k \in {1, 2}
      [] op = "Switch" -> k % 2 = 1
      [] OTHER -> FALSE

Edges(s, f) ==
    UNION {{<<c.block, c.args[k].of>> :
               k \in {n \in DOMAIN c.args : IsTargetOffset(s.instrs[c.instr].op, n - 1)}} : c \in CodeOf(f)}

\* The blocks a path from the entry reaches without entering `avoided`.
ReachedAvoiding(s, f, avoided) ==
    FoldLeft(LAMBDA seen, unused : seen \cup ({e[2] : e \in {x \in Edges(s, f) : x[1] \in seen}} \ avoided),
             {Entry(s, f)} \ avoided, Run(s.functions[f].blocks))

HomeOf(s, v) ==
    CHOOSE b \in BlocksOf(s, v.fn) :
        IF v.kind = "phi" THEN \E p \in ParamsOf(s, b) : s.params[p].reg = v.of
        ELSE v.of \in InstrsOf(s, b)

\* v may be used in block b of f: it is no label, it lives in f, and every
\* path to b passes it.
MayUse(s, f, b, v) ==
    \/ v.kind \in {"const", "function", "external"}
    \/ /\ v.kind \in {"phi", "instr"} /\ v.fn = f
       /\ HomeOf(s, v) = b \/ b \notin ReachedAvoiding(s, f, {HomeOf(s, v)})

LlvmAccepts(s, f) ==
    /\ \A c \in CodeOf(f) : \A k \in DOMAIN c.args :
           IF IsTargetOffset(s.instrs[c.instr].op, k - 1)
           THEN c.args[k].fn = f /\ c.args[k].of # Entry(s, f)
           ELSE MayUse(s, f, c.block, c.args[k])
    /\ \A e \in incoming : e.phi.fn = f => MayUse(s, f, e.from.of, e.value)

-----------------------------------------------------------------------------
(***************************************************************************)
(* The machine.                                                            *)
(***************************************************************************)
Init ==
    /\ storage \in Storages
    /\ phase = "verify" /\ fn = 0 /\ todo = <<>>
    /\ values = NoValues(storage) /\ code = <<>> /\ incoming = {}
    /\ outcome = "none"

Stop ==
    /\ outcome' = "stopped" /\ phase' = "done"
    /\ UNCHANGED <<storage, fn, todo, values, code, incoming>>

\* The caller's part: an IR that does not verify is not emitted.
Verify ==
    /\ phase = "verify"
    /\ IF VerifyStorage(storage) = Ok
       THEN phase' = "immutables" /\ todo' = [m \in DOMAIN storage.immutables |-> m] /\ UNCHANGED outcome
       ELSE phase' = "done" /\ outcome' = "rejected" /\ UNCHANGED todo
    /\ UNCHANGED <<storage, fn, values, code, incoming>>

Doing(loop) == phase = loop /\ todo # <<>>

\* An iteration that writes one entry of values_.
Write(kind, f, table, idx) ==
    /\ values' = [values EXCEPT ![table][idx] = Value(kind, f, idx)]
    /\ todo' = Tail(todo)
    /\ UNCHANGED <<storage, phase, fn, code, incoming, outcome>>

SetupImmutable ==
    /\ Doing("immutables")
    /\ IF ImmutableLowers(storage, Head(todo)) THEN Write("const", 0, "immutables", Head(todo)) ELSE Stop

SetupExternal ==
    /\ Doing("externals")
    /\ IF SignatureLowers(storage, storage.externals[Head(todo)])
       THEN Write("external", 0, "externals", Head(todo)) ELSE Stop

CreateFunction ==
    /\ phase = "function"
    /\ IF SignatureLowers(storage, storage.functions[fn])
       THEN /\ values' = [values EXCEPT !.functions[fn] = Value("function", 0, fn)]
            /\ phase' = "blocks" /\ todo' = Run(storage.functions[fn].blocks)
            /\ UNCHANGED <<storage, fn, code, incoming, outcome>>
       ELSE Stop

DeclareBlock == Doing("blocks") /\ Write("block", fn, "blocks", Head(todo))

CreatePhi ==
    /\ Doing("phis")
    /\ LET param == storage.params[Head(todo)] IN
       IF param.type \in Lowerable(storage)
       THEN /\ values' = [values EXCEPT !.registers[param.reg] = Value("phi", fn, param.reg)]
            /\ todo' = Tail(todo)
            /\ UNCHANGED <<storage, phase, fn, code, incoming, outcome>>
       ELSE Stop

Emit(ops) ==
    /\ Doing("code")
    /\ LET b == Head(todo).block
           i == Head(todo).instr IN
       /\ storage.instrs[i].op \in ops
       /\ IF CanEmit(storage, values, b, i)
          THEN /\ values' = WithDst(storage, values, fn, i)
               /\ code' = IF Emits(storage, i)
                          THEN Append(code, [fn |-> fn, block |-> b, instr |-> i,
                                             args |-> Arguments(storage, values, i)])
                          ELSE code
               /\ incoming' = incoming \cup IncomingFor(storage, values, b, i)
               /\ todo' = Tail(todo)
               /\ UNCHANGED <<storage, phase, fn, outcome>>
          ELSE Stop

EmitNoop    == Emit({"Noop"})
EmitCompute == Emit(Compute)
EmitMemory  == Emit(Memory)
EmitControl == Emit(Control)

\* Mutant: phi nodes for the first block only.
PhisOfEntry(s, f) == Run(s.blocks[Entry(s, f)].params)

\* What a loop goes over, and the loop that follows it.
PhisOf(s, f) == FlattenSeq([k \in DOMAIN Run(s.functions[f].blocks) |->
                               Run(s.blocks[Run(s.functions[f].blocks)[k]].params)])
CodeIn(s, b) == [k \in DOMAIN Run(s.blocks[b].instrs) |->
                    [block |-> b, instr |-> Run(s.blocks[b].instrs)[k]]]
InstrsIn(s, f) == FlattenSeq([k \in DOMAIN Run(s.functions[f].blocks) |->
                                 CodeIn(s, Run(s.functions[f].blocks)[k])])

Enter(loop, work) ==
    /\ phase' = loop /\ todo' = work
    /\ UNCHANGED <<storage, fn, values, code, incoming, outcome>>

NextLoop ==
    /\ todo = <<>>
    /\ \/ phase = "immutables" /\ Enter("externals", [x \in DOMAIN storage.externals |-> x])
       \/ phase = "externals"  /\ Enter("functions", <<>>)
       \/ phase = "blocks"     /\ Enter("phis", PhisOf(storage, fn))
       \/ phase = "phis"       /\ Enter("code", InstrsIn(storage, fn))

\* llvm::verifyFunction at the end of emit_function.
FinishFunction ==
    /\ phase = "code" /\ todo = <<>>
    /\ IF LlvmAccepts(storage, fn) THEN Enter("functions", <<>>) ELSE Stop

NextFunction ==
    /\ phase = "functions" /\ fn < Len(storage.functions)
    /\ fn' = fn + 1 /\ phase' = "function"
    /\ UNCHANGED <<storage, todo, values, code, incoming, outcome>>

\* The storage verifies again and the module as its functions did.
Finish ==
    /\ phase = "functions" /\ fn = Len(storage.functions)
    /\ outcome' = "emitted" /\ phase' = "done"
    /\ UNCHANGED <<storage, fn, todo, values, code, incoming>>

Returned == phase = "done" /\ UNCHANGED vars

Next ==
    \/ Verify \/ SetupImmutable \/ SetupExternal
    \/ NextFunction \/ CreateFunction \/ DeclareBlock \/ CreatePhi
    \/ EmitNoop \/ EmitCompute \/ EmitMemory \/ EmitControl
    \/ NextLoop \/ FinishFunction \/ Finish
    \/ Returned

Spec == Init /\ [][Next]_vars /\ WF_vars(Next)

=============================================================================
