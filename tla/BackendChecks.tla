--------------------------- MODULE BackendChecks ---------------------------
(***************************************************************************)
(* What verifying and emitting promise, stated of the IR itself: which     *)
(* storages can be emitted, and what the emitted instructions stand for.   *)
(***************************************************************************)
EXTENDS LlvmEmitter

-----------------------------------------------------------------------------
(***************************************************************************)
(* What a register stands for in function f. A verified storage defines it *)
(* once, as a block parameter or by an instruction; behind Moves, and      *)
(* casts that change nothing, is the value they copy.                      *)
(***************************************************************************)
Makers(s, r) ==
    {d \in (DOMAIN s.blocks) \X (DOMAIN s.instrs) :
        d[2] \in InstrsOf(s, d[1]) /\ s.instrs[d[2]].dst = r /\ Binds(s, d[2])}

Fillers(s, r) == {b \in DOMAIN s.blocks : \E p \in ParamsOf(s, b) : s.params[p].reg = r}

\* An operand, given what every register stands for.
Standing(meaning, f, operand) ==
    CASE operand.tag = "Register" /\ Has(meaning, operand.idx) -> meaning[operand.idx]
      [] operand.tag = "Immutable" -> Value("const", 0, operand.idx)
      [] operand.tag = "Block"     -> Value("block", f, operand.idx)
      [] operand.tag = "Function"  -> Value("function", 0, operand.idx)
      [] operand.tag = "External"  -> Value("external", 0, operand.idx)
      [] OTHER -> Null

Meaning(s, f) ==
    LET meaning[r \in DOMAIN s.registers] ==
            LET i == (CHOOSE d \in Makers(s, r) : TRUE)[2] IN
            IF Fillers(s, r) # {}     THEN Value("phi", f, r)
            ELSE IF Makers(s, r) = {} THEN Null
            ELSE IF IsAlias(s, i)     THEN Standing(meaning, f, OperandAt(s, i, 0))
            ELSE Value("instr", f, i)
    IN  meaning

Denotes(s, f, operand) == Standing(Meaning(s, f), f, operand)

-----------------------------------------------------------------------------
(***************************************************************************)
(* What values_ holds of a register when instruction i of block b of       *)
(* function f is emitted: it is one table, so an earlier function's entry  *)
(* stays until f writes its own.                                           *)
(***************************************************************************)
Earlier(d, b, i) == d[1] < b \/ (d[1] = b /\ d[2] < i)

WrittenHere(s, f, b, i, r) ==
    \/ Fillers(s, r) \cap BlocksOf(s, f) # {}
    \/ \E d \in Makers(s, r) : d[1] \in BlocksOf(s, f) /\ Earlier(d, b, i)

WrittenBefore(s, f, r) ==
    \E g \in 1 .. f - 1 : \E c \in BlocksOf(s, g) :
        c \in Fillers(s, r) \/ \E d \in Makers(s, r) : d[1] = c

\* Nothing behind a register that f writes is left from an earlier function.
Fresh(s, f) ==
    LET fresh[r \in DOMAIN s.registers] ==
            \A d \in Makers(s, r) :
                LET from == OperandAt(s, d[2], 0) IN
                IsAlias(s, d[2]) /\ from.tag = "Register" =>
                    WrittenHere(s, f, d[1], d[2], from.idx) /\ fresh[from.idx]
    IN  fresh

\* The emitter finds something for the operand.
Resolvable(s, f, b, i, operand) ==
    CASE operand.tag = "Register"  ->
             WrittenHere(s, f, b, i, operand.idx) \/ WrittenBefore(s, f, operand.idx)
      [] operand.tag = "Block"     -> \E g \in 1 .. f : operand.idx \in BlocksOf(s, g)
      [] operand.tag = "Immutable" -> Has(s.immutables, operand.idx)
      [] OTHER -> FALSE

-----------------------------------------------------------------------------
Successors(s, b) ==
    {s.operands[o].idx : o \in {x \in UNION {Operands(s, i) : i \in
        {j \in InstrsOf(s, b) : s.instrs[j].op \in Terminator}} : s.operands[x].tag = "Block"}}

\* A set of blocks holds the entry and all successors but `a`, and not b: no
\* path from the entry gets to b without passing a.
Dominates(s, f, a, b) ==
    \/ a = Entry(s, f) \/ a = b
    \/ \E S \in SUBSET (BlocksOf(s, f) \ {a, b}) :
           Entry(s, f) \in S /\ \A x \in S : Successors(s, x) \subseteq S \cup {a}

\* LLVM takes what the emitter finds: a constant, whichever function bound
\* the register to it, or a value of f that is there on every path to b.
Usable(s, f, b, i, operand) ==
    /\ Resolvable(s, f, b, i, operand)
    /\ LET v == Denotes(s, f, operand) IN
       \/ v.kind = "const"
       \/ /\ operand.tag = "Register" /\ v.kind \in {"phi", "instr"}
          /\ WrittenHere(s, f, b, i, operand.idx) /\ Fresh(s, f)[operand.idx]
          /\ \E a \in BlocksOf(s, f) :
                 /\ IF v.kind = "phi" THEN a \in Fillers(s, v.of) ELSE v.of \in InstrsOf(s, a)
                 /\ Dominates(s, f, a, b)

\* Only what an LLVM instruction uses has to satisfy LLVM.
InstrEmittable(s, f, b, i) ==
    LET op == s.instrs[i].op IN
    /\ ArityHolds(s, i) /\ TypesSupported(s, i)
    /\ \A n \in DOMAIN Reads(s, i) :
           LET k == Reads(s, i)[n]
               operand == OperandAt(s, i, k)
           IN  CASE op = "Call" /\ k = 0   -> operand.tag = "Function" => operand.idx <= f
                 [] IsTargetOffset(op, k)  -> operand.idx \in BlocksOf(s, f) \ {Entry(s, f)}
                 [] OTHER                  -> IF Emits(s, i) THEN Usable(s, f, b, i, operand)
                                              ELSE Resolvable(s, f, b, i, operand)
    /\ op = "GetElementPtr" =>
           \E d \in Makers(s, OperandAt(s, i, 0).idx) : s.instrs[d[2]].op = "Alloca"
    /\ \A p \in BranchParams(s, i) :
           /\ Has(s.operands, ArgumentOf(s, i, p))
           /\ Usable(s, f, b, i, s.operands[ArgumentOf(s, i, p)])

Emittable(s) ==
    /\ \A m \in DOMAIN s.immutables : ImmutableLowers(s, m)
    /\ \A x \in DOMAIN s.externals : SignatureLowers(s, s.externals[x])
    /\ \A f \in DOMAIN s.functions :
           /\ SignatureLowers(s, s.functions[f])
           /\ \A b \in BlocksOf(s, f) :
                  /\ \A p \in ParamsOf(s, b) : s.params[p].type \in Lowerable(s)
                  /\ \A i \in InstrsOf(s, b) : InstrEmittable(s, f, b, i)

-----------------------------------------------------------------------------
\* A verified storage goes through to the end exactly if the table order
\* fits the flow: registers are emitted before they are used and on every
\* path, callees before their callers, and every type has an LLVM type. In
\* all other cases the emitter uses an entry that was never written, or stops.
EmittedExactly ==
    phase = "done" /\ outcome # "rejected" => (outcome = "emitted" <=> Emittable(storage))

\* The functions that emit_function has returned true for: in the end all.
Emitted == {f \in DOMAIN storage.functions :
                f < fn \/ (f = fn /\ (phase = "functions" \/ outcome = "emitted"))}

\* Instruction i of block b as function f has to get it.
Lowered(s, f, b, i) ==
    [fn |-> f, block |-> b, instr |-> i,
     args |-> [n \in DOMAIN Reads(s, i) |-> Denotes(s, f, OperandAt(s, i, Reads(s, i)[n]))]]

(***************************************************************************)
(* docs/ir.md:68, of Br: "`operands[0]` is the target block; `operands[1..]` *)
(* fill its block parameters positionally". The place of a parameter is    *)
(* counted in its block.                                                   *)
(***************************************************************************)
ParamsOfTarget(s, i)  == s.blocks[OperandAt(s, i, 0).idx].params
PlaceOf(s, i, p)      == p - ParamsOfTarget(s, i).head
HasAllArguments(s, i) == Arity(s, i) = 1 + ParamsOfTarget(s, i).size

\* What the branch i at the end of block b gives parameter p of its target.
LoweredEdge(s, f, b, i, p) ==
    [phi   |-> Value("phi", f, s.params[p].reg),
     from  |-> Value("block", f, b),
     value |-> Denotes(s, f, OperandAt(s, i, 1 + PlaceOf(s, i, p)))]

\* The values that phi nodes have from block b of function f are the arguments
\* of the branch i.
BranchLowered(s, f, b, i) ==
    {e \in incoming : e.from = Value("block", f, b)} =
        {LoweredEdge(s, f, b, i, p) : p \in BranchParams(s, i)}

Branches(s, b) == {i \in InstrsOf(s, b) : s.instrs[i].op = "Br" /\ HasAllArguments(s, i)}

CreatedBefore(c, d) ==
    \/ c.fn < d.fn
    \/ c.fn = d.fn /\ (c.block < d.block \/ (c.block = d.block /\ c.instr < d.instr))

\* In the code of a function that was emitted, the operands of every LLVM
\* instruction are what the operands of the IR instruction mean in that
\* function, although values_ is one table that all functions write; no
\* instruction is left out, repeated or moved. The phi nodes of the block whose
\* parameters come first in the table take the arguments of each branch to it
\* by position. Those of the other blocks do not: see BranchArgumentsInPosition.
LoweredFaithfully ==
    /\ \A f \in Emitted :
           /\ CodeOf(f) = UNION {{Lowered(storage, f, b, i) :
                                     i \in {j \in InstrsOf(storage, b) : Emits(storage, j)}} :
                                 b \in BlocksOf(storage, f)}
           /\ \A b \in BlocksOf(storage, f) : \A i \in Branches(storage, b) :
                  ParamsOfTarget(storage, i).head = 1 => BranchLowered(storage, f, b, i)
    /\ \A m, n \in DOMAIN code : m < n => CreatedBefore(code[m], code[n])

\* docs/ir.md:68, "`operands[1..]` fill its block parameters positionally": so
\* it should be for every branch that has one argument for each parameter.
BranchArgumentsInPosition ==
    \A f \in Emitted : \A b \in BlocksOf(storage, f) : \A i \in Branches(storage, b) :
        BranchLowered(storage, f, b, i)

\* When the code of a function is complete, every phi node has one incoming
\* value for each edge into its block, whichever instruction makes the edge.
PhisCoverEdges ==
    phase = "code" /\ todo = <<>> =>
        \A b \in BlocksOf(storage, fn) : \A p \in ParamsOf(storage, b) :
            LET into == {e \in incoming : e.phi = Value("phi", fn, storage.params[p].reg)} IN
            /\ {e.from.of : e \in into} = {x[1] : x \in {y \in Edges(storage, fn) : y[2] = b}}
            /\ Cardinality(into) = Cardinality({e.from : e \in into})

=============================================================================
