--------------------------- MODULE Backend_proofs ---------------------------
(***************************************************************************)
(* For every storage that verifies: what emit() reads of it is there, the  *)
(* phi nodes of a function get one value for each edge, and the code that  *)
(* is emitted is the code of the storage.                                  *)
(***************************************************************************)
EXTENDS BackendChecks, NatInduction, SequenceTheorems, FiniteSetTheorems

-----------------------------------------------------------------------------
(***************************************************************************)
(* Verifying, as facts about the tables.                                   *)
(***************************************************************************)
FunctionsFit(s) ==
    \A f \in DOMAIN s.functions : BlocksOf(s, f) \subseteq DOMAIN s.blocks /\ BlocksOf(s, f) # {}

BlocksFit(s) ==
    \A b \in DOMAIN s.blocks :
        /\ InstrsOf(s, b) \subseteq DOMAIN s.instrs
        /\ ParamsOf(s, b) \subseteq DOMAIN s.params
        /\ \A p \in ParamsOf(s, b) : s.params[p].reg \in DOMAIN s.registers
        /\ \A i \in InstrsOf(s, b) :
               s.instrs[i].dst # NoRegister => s.instrs[i].dst \in DOMAIN s.registers

DefinedOnce(s) ==
    \A b, c \in DOMAIN s.blocks :
        /\ \A p \in ParamsOf(s, b), q \in ParamsOf(s, c) :
               s.params[p].reg = s.params[q].reg => b = c /\ p = q
        /\ \A p \in ParamsOf(s, b), i \in InstrsOf(s, c) : s.instrs[i].dst # s.params[p].reg
        /\ \A i \in InstrsOf(s, b), j \in InstrsOf(s, c) :
               s.instrs[i].dst = s.instrs[j].dst /\ s.instrs[i].dst # NoRegister => b = c /\ i = j

InstrsFit(s) ==
    \A b \in DOMAIN s.blocks : \A i \in InstrsOf(s, b) :
        /\ s.instrs[i].op \in Terminator <=> \A j \in InstrsOf(s, b) : j <= i
        /\ \A o \in Operands(s, i) :
               /\ o \in DOMAIN s.operands /\ s.operands[o].tag # "void"
               /\ s.operands[o].idx \in DOMAIN Table(s, s.operands[o].tag)
        /\ ShapeError(s, i) = Ok

\* Nodes name fields and elements that exist, and all else that has a type a
\* node that exists. Nothing is said of external functions, or of what a
\* reference points to.
NodesFit(s) ==
    \A t \in DOMAIN s.types :
        /\ s.types[t].tag = "Struct" => /\ s.types[t].data \in DOMAIN s.structs
                                       /\ Slots(s.structs[s.types[t].data]) \subseteq DOMAIN s.types
        /\ s.types[t].tag = "Array" => /\ s.types[t].data \in DOMAIN s.arrays
                                      /\ s.arrays[s.types[t].data].element \in DOMAIN s.types

TypesFit(s) ==
    /\ \A r \in DOMAIN s.registers : s.registers[r] \in DOMAIN s.types
    /\ \A m \in DOMAIN s.immutables : s.immutables[m] \in DOMAIN s.types
    /\ \A f \in DOMAIN s.functions :
           {s.functions[f].ret} \cup Slots(s.functions[f].params) \subseteq DOMAIN s.types
    /\ \A b \in DOMAIN s.blocks :
           /\ \A p \in ParamsOf(s, b) : s.params[p].type \in DOMAIN s.types
           /\ \A i \in InstrsOf(s, b) : \A o \in Operands(s, i) : s.operands[o].type \in DOMAIN s.types

Verified(s) ==
    /\ FunctionsFit(s) /\ BlocksFit(s) /\ DefinedOnce(s) /\ InstrsFit(s)
    /\ NodesFit(s) /\ TypesFit(s)

\* Both parts of a chain of checks that succeeds succeed.
LEMMA OkBoth ==
    ASSUME NEW a, NEW b, a ?? b = Ok
    PROVE  a = Ok /\ b = Ok
BY DEF ??

\* An entry of a sequence has the type of the sequence.
LEMMA EntryOf ==
    ASSUME NEW T, NEW q \in Seq(T), NEW n \in DOMAIN q
    PROVE  q[n] \in T /\ DOMAIN q = 1 .. Len(q) /\ Len(q) \in Nat /\ n \in Nat \ {0}
<1>1. DOMAIN q = 1 .. Len(q) /\ Len(q) \in Nat
  BY LenProperties
<1>2. n \in 1 .. Len(q)
  BY <1>1
<1> QED BY <1>1, <1>2, ElementOfSeq

\* The indexes of a sequence are numbers.
LEMMA IndexesOf ==
    ASSUME NEW T, NEW q \in Seq(T)
    PROVE  DOMAIN q \in SUBSET Nat
<1>1. DOMAIN q = 1 .. Len(q) /\ Len(q) \in Nat
  BY LenProperties
<1>2. ASSUME NEW n \in DOMAIN q PROVE n \in Nat
  BY <1>1, <1>2
<1> QED BY <1>2

\* The tables of a storage are indexed by numbers.
LEMMA TableIndexes ==
    ASSUME NEW s, IsStorage(s)
    PROVE  /\ DOMAIN s.functions \in SUBSET Nat /\ DOMAIN s.blocks \in SUBSET Nat
           /\ DOMAIN s.instrs \in SUBSET Nat /\ DOMAIN s.immutables \in SUBSET Nat
           /\ DOMAIN s.externals \in SUBSET Nat
<1>1. /\ s.functions \in Seq([ret : Nat, params : IndexRange, blocks : IndexRange])
      /\ s.blocks \in Seq([instrs : IndexRange, params : IndexRange])
      /\ s.instrs \in Seq([op : Opcode, dst : Nat, operands : IndexRange])
      /\ s.immutables \in Seq(Nat) /\ s.externals \in Seq([ret : Nat, params : IndexRange])
  BY DEF IsStorage
<1>2. DOMAIN s.functions \in SUBSET Nat
  BY <1>1, IndexesOf
<1>3. DOMAIN s.blocks \in SUBSET Nat
  BY <1>1, IndexesOf
<1>4. DOMAIN s.instrs \in SUBSET Nat
  BY <1>1, IndexesOf
<1>5. DOMAIN s.immutables \in SUBSET Nat
  BY <1>1, IndexesOf
<1>6. DOMAIN s.externals \in SUBSET Nat
  BY <1>1, IndexesOf
<1> QED BY <1>2, <1>3, <1>4, <1>5, <1>6

\* The entries of a storage have the fields of their tables.
LEMMA BlockRanges ==
    ASSUME NEW s, IsStorage(s), NEW b \in DOMAIN s.blocks
    PROVE  /\ b \in Nat \ {0} /\ DOMAIN s.blocks = 1 .. Len(s.blocks) /\ Len(s.blocks) \in Nat
           /\ s.blocks[b].instrs \in IndexRange /\ s.blocks[b].params \in IndexRange
<1>1. s.blocks \in Seq([instrs : IndexRange, params : IndexRange])
  BY DEF IsStorage
<1>2. /\ s.blocks[b] \in [instrs : IndexRange, params : IndexRange]
      /\ b \in Nat \ {0} /\ DOMAIN s.blocks = 1 .. Len(s.blocks) /\ Len(s.blocks) \in Nat
  BY <1>1, EntryOf
<1> QED BY <1>2

\* The slots of an index range are positive.
LEMMA RangeFacts ==
    ASSUME NEW r \in IndexRange
    PROVE  r.head \in Nat \ {0} /\ r.size \in Nat /\ Slots(r) \in SUBSET (Nat \ {0})
BY DEF IndexRange, Slots

\* So are the instructions and the parameters of a block.
LEMMA BlockSlots ==
    ASSUME NEW s, IsStorage(s), NEW b \in DOMAIN s.blocks
    PROVE  InstrsOf(s, b) \in SUBSET (Nat \ {0}) /\ ParamsOf(s, b) \in SUBSET (Nat \ {0})
BY BlockRanges, RangeFacts DEF InstrsOf, ParamsOf

\* A function of a storage has ranges of blocks and of parameters.
LEMMA FunctionRanges ==
    ASSUME NEW s, IsStorage(s), NEW f \in DOMAIN s.functions
    PROVE  s.functions[f].blocks \in IndexRange /\ s.functions[f].params \in IndexRange
<1>1. s.functions \in Seq([ret : Nat, params : IndexRange, blocks : IndexRange])
  BY DEF IsStorage
<1>2. s.functions[f] \in [ret : Nat, params : IndexRange, blocks : IndexRange]
  BY <1>1, EntryOf
<1> QED BY <1>2

\* Every loop of the verifier that returns no error found none.
LEMMA FunctionsOk ==
    ASSUME NEW s, IsStorage(s), VerifyStorage(s) = Ok, NEW f \in DOMAIN s.functions
    PROVE  FunctionError(s, f) = Ok
<1>1. ErrorOf(DOMAIN s.functions, LAMBDA g : FunctionError(s, g)) = Ok
  BY OkBoth DEF VerifyStorage
<1>2. DOMAIN s.functions \in SUBSET Nat
  BY TableIndexes
<1> DEFINE bad == {g \in DOMAIN s.functions : FunctionError(s, g) # Ok}
<1> SUFFICES ASSUME bad # {} PROVE FALSE
  OBVIOUS
<1>3. \E i \in bad : \A j \in bad : i <= j
  <2> HIDE DEF bad
  <2>1. bad \in SUBSET Nat
    BY <1>2 DEF bad
  <2> QED BY <2>1, LeastExists
<1>4. \E i \in DOMAIN s.functions : FunctionError(s, i) # Ok
           /\ \A j \in DOMAIN s.functions : j < i => FunctionError(s, j) = Ok
  BY <1>2, <1>3
<1> QED BY <1>1, <1>4, Zenon DEF ErrorOf

\* The functions have a block, and their blocks exist.
LEMMA FunctionsFitIfOk ==
    ASSUME NEW s, IsStorage(s), VerifyStorage(s) = Ok
    PROVE  FunctionsFit(s)
<1>1. ErrorOf(DOMAIN s.functions,
              LAMBDA f : Unless(BlocksOf(s, f) # {}, "UnterminatedBlock")) = Ok
  BY OkBoth DEF VerifyStorage
<1>2. DOMAIN s.functions \in SUBSET Nat
  BY TableIndexes
<1>3. ASSUME NEW f \in DOMAIN s.functions PROVE FunctionError(s, f) = Ok
  BY FunctionsOk
<1>4. ASSUME NEW f \in DOMAIN s.functions PROVE BlocksOf(s, f) # {}
  <2> DEFINE Check(g) == Unless(BlocksOf(s, g) # {}, "UnterminatedBlock")
             bad == {g \in DOMAIN s.functions : Check(g) # Ok}
  <2>1. bad = {}
    <3> SUFFICES ASSUME bad # {} PROVE FALSE
      OBVIOUS
    <3>1. \E i \in bad : \A j \in bad : i <= j
      <4> HIDE DEF bad
      <4>1. bad \in SUBSET Nat
        BY <1>2 DEF bad
      <4> QED BY <4>1, LeastExists
    <3>2. \E i \in DOMAIN s.functions : Check(i) # Ok
               /\ \A j \in DOMAIN s.functions : j < i => Check(j) = Ok
      <4> HIDE DEF Check
      <4> QED BY <1>2, <3>1
    <3> QED BY <1>1, <3>2, Zenon DEF ErrorOf
  <2> QED BY <2>1 DEF Unless, Ok
<1>5. ASSUME NEW f \in DOMAIN s.functions PROVE BlocksOf(s, f) \subseteq DOMAIN s.blocks
  <2>1. InBounds(s.functions[f].blocks, s.blocks)
    <3>1. Unless(InBounds(s.functions[f].blocks, s.blocks), "FunctionBlocksOutOfRange") = Ok
      BY <1>3, OkBoth DEF FunctionError
    <3> QED BY <3>1 DEF Unless, Ok
  <2> DEFINE r == s.functions[f].blocks
  <2>2. r.head \in Nat \ {0} /\ r.size \in Nat /\ r.head + r.size <= Len(s.blocks) + 1
    BY <2>1, FunctionRanges, RangeFacts DEF InBounds
  <2>3. DOMAIN s.blocks = 1 .. Len(s.blocks) /\ Len(s.blocks) \in Nat
    BY LenProperties DEF IsStorage
  <2>4. BlocksOf(s, f) = r.head .. r.head + r.size - 1
    BY DEF BlocksOf, Slots
  <2> HIDE DEF r
  <2> QED BY <2>2, <2>3, <2>4
<1> QED BY <1>4, <1>5 DEF FunctionsFit

\* A storage that verifies has no bad definition in any block: the pass that
\* collects the definitions goes over all of them.
LEMMA DefinitionsOk ==
    ASSUME NEW s, IsStorage(s), VerifyStorage(s) = Ok, NEW b \in DOMAIN s.blocks
    PROVE  DefinitionError(s, b) = Ok
<1>1. ErrorOf(DOMAIN s.blocks, LAMBDA c : DefinitionError(s, c)) = Ok
  BY OkBoth DEF VerifyStorage
<1> DEFINE bad == {c \in DOMAIN s.blocks : DefinitionError(s, c) # Ok}
<1> SUFFICES ASSUME bad # {} PROVE FALSE
  OBVIOUS
<1>2. DOMAIN s.blocks \in SUBSET Nat
  BY TableIndexes
<1>3. \E i \in bad : \A j \in bad : i <= j
  <2> HIDE DEF bad
  <2>1. bad \in SUBSET Nat
    BY <1>2 DEF bad
  <2> QED BY <2>1, LeastExists
<1>4. \E i \in DOMAIN s.blocks : DefinitionError(s, i) # Ok
          /\ \A j \in DOMAIN s.blocks : j < i => DefinitionError(s, j) = Ok
  BY <1>2, <1>3
<1> QED BY <1>1, <1>4, Zenon DEF ErrorOf

\* None of the parameters of such a block is a bad definition.
LEMMA ParamsOk ==
    ASSUME NEW s, IsStorage(s), NEW b \in DOMAIN s.blocks, DefinitionError(s, b) = Ok,
           NEW p \in ParamsOf(s, b)
    PROVE  ParamError(s, b, p) = Ok
<1>1. ErrorOf(ParamsOf(s, b), LAMBDA q : ParamError(s, b, q)) = Ok
  BY OkBoth DEF DefinitionError
<1> DEFINE bad == {q \in ParamsOf(s, b) : ParamError(s, b, q) # Ok}
<1> SUFFICES ASSUME bad # {} PROVE FALSE
  OBVIOUS
<1>2. ParamsOf(s, b) \in SUBSET Nat
  BY BlockSlots
<1>3. \E i \in bad : \A j \in bad : i <= j
  <2> HIDE DEF bad
  <2>1. bad \in SUBSET Nat
    BY <1>2 DEF bad
  <2> QED BY <2>1, LeastExists
<1>4. \E i \in ParamsOf(s, b) : ParamError(s, b, i) # Ok
          /\ \A j \in ParamsOf(s, b) : j < i => ParamError(s, b, j) = Ok
  BY <1>2, <1>3
<1> QED BY <1>1, <1>4, Zenon DEF ErrorOf

\* Nor is any destination.
LEMMA DstsOk ==
    ASSUME NEW s, IsStorage(s), NEW b \in DOMAIN s.blocks, DefinitionError(s, b) = Ok,
           NEW i \in InstrsOf(s, b)
    PROVE  DstError(s, b, i) = Ok
<1>1. ErrorOf(InstrsOf(s, b), LAMBDA j : DstError(s, b, j)) = Ok
  BY OkBoth DEF DefinitionError
<1> DEFINE bad == {j \in InstrsOf(s, b) : DstError(s, b, j) # Ok}
<1> SUFFICES ASSUME bad # {} PROVE FALSE
  OBVIOUS
<1>2. InstrsOf(s, b) \in SUBSET Nat
  BY BlockSlots
<1>3. \E k \in bad : \A j \in bad : k <= j
  <2> HIDE DEF bad
  <2>1. bad \in SUBSET Nat
    BY <1>2 DEF bad
  <2> QED BY <2>1, LeastExists
<1>4. \E k \in InstrsOf(s, b) : DstError(s, b, k) # Ok
          /\ \A j \in InstrsOf(s, b) : j < k => DstError(s, b, j) = Ok
  BY <1>2, <1>3
<1> QED BY <1>1, <1>4, Zenon DEF ErrorOf

\* A range that is in the bounds of a table lists entries of it.
LEMMA SlotsInBounds ==
    ASSUME NEW T, NEW q \in Seq(T), NEW r \in IndexRange, InBounds(r, q)
    PROVE  Slots(r) \subseteq DOMAIN q
<1>1. DOMAIN q = 1 .. Len(q) /\ Len(q) \in Nat
  BY LenProperties
<1>2. r.head \in Nat \ {0} /\ r.size \in Nat /\ r.head + r.size <= Len(q) + 1
  BY RangeFacts DEF InBounds
<1> QED BY <1>1, <1>2 DEF Slots

\* What the checks of one parameter and of one destination say.
LEMMA ParamChecked ==
    ASSUME NEW s, NEW b, NEW p, ParamError(s, b, p) = Ok
    PROVE  /\ s.params[p].reg \in DOMAIN s.registers
           /\ s.params[p].reg \notin DefinedBefore(s, b)
           /\ s.params[p].reg \notin DefinedBy(s, {q \in ParamsOf(s, b) : q < p}, {})
<1> DEFINE reg == s.params[p].reg
           defined == DefinedBefore(s, b) \cup DefinedBy(s, {q \in ParamsOf(s, b) : q < p}, {})
<1>1. /\ Unless(Has(s.registers, reg), "BlockParamRegOutOfRange") = Ok
      /\ Unless(reg \notin defined, "RedefinedRegister") = Ok
  BY OkBoth DEF ParamError
<1>2. Has(s.registers, reg) /\ reg \notin defined
  <2> HIDE DEF reg, defined
  <2> QED BY <1>1 DEF Unless, Ok
<1> QED BY <1>2 DEF Has

\* A destination is a register of the storage that nothing before defines.
LEMMA DstChecked ==
    ASSUME NEW s, NEW b, NEW i, DstError(s, b, i) = Ok, s.instrs[i].dst # NoRegister
    PROVE  /\ s.instrs[i].dst \in DOMAIN s.registers
           /\ s.instrs[i].dst \notin DefinedBefore(s, b)
           /\ s.instrs[i].dst \notin DefinedBy(s, ParamsOf(s, b), {j \in InstrsOf(s, b) : j < i})
<1> DEFINE dst == s.instrs[i].dst
           defined == DefinedBefore(s, b)
                          \cup DefinedBy(s, ParamsOf(s, b), {j \in InstrsOf(s, b) : j < i})
<1>1. /\ Unless(Has(s.registers, dst), "InstrDstOutOfRange") = Ok
      /\ Unless(dst \notin defined, "RedefinedRegister") = Ok
  BY OkBoth DEF DstError
<1>2. Has(s.registers, dst) /\ dst \notin defined
  <2> HIDE DEF dst, defined
  <2> QED BY <1>1 DEF Unless, Ok
<1> QED BY <1>2 DEF Has

\* The blocks of a storage that verifies are inside the tables, and end in
\* their only terminator.
LEMMA BlocksFitIfOk ==
    ASSUME NEW s, IsStorage(s), VerifyStorage(s) = Ok
    PROVE  BlocksFit(s)
<1> SUFFICES ASSUME NEW b \in DOMAIN s.blocks
             PROVE  /\ InstrsOf(s, b) \subseteq DOMAIN s.instrs
                    /\ ParamsOf(s, b) \subseteq DOMAIN s.params
                    /\ \A p \in ParamsOf(s, b) : s.params[p].reg \in DOMAIN s.registers
                    /\ \A i \in InstrsOf(s, b) :
                           s.instrs[i].dst # NoRegister => s.instrs[i].dst \in DOMAIN s.registers
  BY DEF BlocksFit
<1>1. DefinitionError(s, b) = Ok
  BY DefinitionsOk
<1>2. InBounds(s.blocks[b].instrs, s.instrs) /\ InBounds(s.blocks[b].params, s.params)
  <2>1. /\ Unless(InBounds(s.blocks[b].instrs, s.instrs), "BlockInstrsOutOfRange") = Ok
        /\ Unless(InBounds(s.blocks[b].params, s.params), "BlockParamsOutOfRange") = Ok
    BY <1>1, OkBoth DEF DefinitionError
  <2> QED BY <2>1 DEF Unless, Ok
<1>3. InstrsOf(s, b) \subseteq DOMAIN s.instrs
  <2>1. s.instrs \in Seq([op : Opcode, dst : Nat, operands : IndexRange])
    BY DEF IsStorage
  <2> QED BY <1>2, <2>1, BlockRanges, SlotsInBounds DEF InstrsOf
<1>4. ParamsOf(s, b) \subseteq DOMAIN s.params
  <2>1. s.params \in Seq([type : Nat, reg : Nat])
    BY DEF IsStorage
  <2> QED BY <1>2, <2>1, BlockRanges, SlotsInBounds DEF ParamsOf
<1>5. ASSUME NEW p \in ParamsOf(s, b) PROVE s.params[p].reg \in DOMAIN s.registers
  BY <1>1, ParamsOk, ParamChecked
<1>6. ASSUME NEW i \in InstrsOf(s, b), s.instrs[i].dst # NoRegister
      PROVE  s.instrs[i].dst \in DOMAIN s.registers
  BY <1>1, <1>6, DstsOk, DstChecked
<1> QED BY <1>3, <1>4, <1>5, <1>6

\* An earlier block has defined what it defines.
LEMMA DefinesEarlier ==
    ASSUME NEW s, IsStorage(s), NEW b \in DOMAIN s.blocks, NEW c \in DOMAIN s.blocks, b < c
    PROVE  /\ \A p \in ParamsOf(s, b) : s.params[p].reg \in DefinedBefore(s, c)
           /\ \A i \in InstrsOf(s, b) :
                  s.instrs[i].dst # NoRegister => s.instrs[i].dst \in DefinedBefore(s, c)
<1>1. b \in 1 .. c - 1
  BY BlockRanges
<1>2. DefinedBy(s, ParamsOf(s, b), InstrsOf(s, b)) \subseteq DefinedBefore(s, c)
  BY <1>1 DEF DefinedBefore
<1> QED BY <1>2 DEF DefinedBy

\* What a block defines no earlier block defines.
LEMMA DefinesNew ==
    ASSUME NEW s, IsStorage(s), VerifyStorage(s) = Ok, NEW c \in DOMAIN s.blocks
    PROVE  /\ \A p \in ParamsOf(s, c) : s.params[p].reg \notin DefinedBefore(s, c)
           /\ \A i \in InstrsOf(s, c) :
                  s.instrs[i].dst # NoRegister => s.instrs[i].dst \notin DefinedBefore(s, c)
<1>1. DefinitionError(s, c) = Ok
  BY DefinitionsOk
<1>2. ASSUME NEW p \in ParamsOf(s, c) PROVE s.params[p].reg \notin DefinedBefore(s, c)
  BY <1>1, ParamsOk, ParamChecked
<1>3. ASSUME NEW i \in InstrsOf(s, c), s.instrs[i].dst # NoRegister
      PROVE  s.instrs[i].dst \notin DefinedBefore(s, c)
  BY <1>1, <1>3, DstsOk, DstChecked
<1> QED BY <1>2, <1>3

\* No register is defined twice in a storage that verifies.
LEMMA DefinedOnceIfOk ==
    ASSUME NEW s, IsStorage(s), VerifyStorage(s) = Ok
    PROVE  DefinedOnce(s)
<1> SUFFICES ASSUME NEW b \in DOMAIN s.blocks, NEW c \in DOMAIN s.blocks
             PROVE  /\ \A p \in ParamsOf(s, b), q \in ParamsOf(s, c) :
                           s.params[p].reg = s.params[q].reg => b = c /\ p = q
                    /\ \A p \in ParamsOf(s, b), i \in InstrsOf(s, c) :
                           s.instrs[i].dst # s.params[p].reg
                    /\ \A i \in InstrsOf(s, b), j \in InstrsOf(s, c) :
                           s.instrs[i].dst = s.instrs[j].dst /\ s.instrs[i].dst # NoRegister
                               => b = c /\ i = j
  BY DEF DefinedOnce
<1>1. DefinitionError(s, b) = Ok /\ DefinitionError(s, c) = Ok
  BY DefinitionsOk
<1>2. b \in Nat /\ c \in Nat
  BY BlockRanges
<1>3. ASSUME NEW p \in ParamsOf(s, b), NEW q \in ParamsOf(s, c),
             s.params[p].reg = s.params[q].reg
      PROVE  b = c /\ p = q
  <2>1. ~ (b < c) /\ ~ (c < b)
    BY <1>3, DefinesEarlier, DefinesNew
  <2>2. b = c
    BY <1>2, <2>1
  <2>3. p \in Nat /\ q \in Nat
    BY BlockSlots
  <2>4. ~ (p < q)
    <3> SUFFICES ASSUME p < q PROVE FALSE
      OBVIOUS
    <3>1. s.params[p].reg \in DefinedBy(s, {x \in ParamsOf(s, c) : x < q}, {})
      BY <2>2 DEF DefinedBy
    <3> QED BY <1>1, <1>3, <3>1, ParamsOk, ParamChecked
  <2>5. ~ (q < p)
    <3> SUFFICES ASSUME q < p PROVE FALSE
      OBVIOUS
    <3>1. s.params[q].reg \in DefinedBy(s, {x \in ParamsOf(s, b) : x < p}, {})
      BY <2>2 DEF DefinedBy
    <3> QED BY <1>1, <1>3, <3>1, ParamsOk, ParamChecked
  <2> QED BY <2>2, <2>3, <2>4, <2>5
<1>4. ASSUME NEW p \in ParamsOf(s, b), NEW i \in InstrsOf(s, c) PROVE s.instrs[i].dst # s.params[p].reg
  <2> SUFFICES ASSUME s.instrs[i].dst = s.params[p].reg PROVE FALSE
    OBVIOUS
  <2>1. s.params[p].reg \in DOMAIN s.registers
    BY BlocksFitIfOk DEF BlocksFit
  <2>2. s.instrs[i].dst # NoRegister
    <3>1. DOMAIN s.registers = 1 .. Len(s.registers) /\ Len(s.registers) \in Nat
      BY LenProperties DEF IsStorage
    <3> QED BY <2>1, <3>1 DEF NoRegister
  <2>3. ~ (b < c) /\ ~ (c < b)
    BY <2>2, DefinesEarlier, DefinesNew
  <2>4. b = c
    BY <1>2, <2>3
  <2>5. s.params[p].reg \in DefinedBy(s, ParamsOf(s, c), {j \in InstrsOf(s, c) : j < i})
    BY <2>4 DEF DefinedBy
  <2> QED BY <1>1, <2>2, <2>5, DstsOk, DstChecked
<1>5. ASSUME NEW i \in InstrsOf(s, b), NEW j \in InstrsOf(s, c),
             s.instrs[i].dst = s.instrs[j].dst, s.instrs[i].dst # NoRegister
      PROVE  b = c /\ i = j
  <2>1. ~ (b < c) /\ ~ (c < b)
    BY <1>5, DefinesEarlier, DefinesNew
  <2>2. b = c
    BY <1>2, <2>1
  <2>3. i \in Nat /\ j \in Nat
    BY BlockSlots
  <2>4. ~ (i < j)
    <3> SUFFICES ASSUME i < j PROVE FALSE
      OBVIOUS
    <3>1. s.instrs[i].dst \in DefinedBy(s, ParamsOf(s, c), {x \in InstrsOf(s, c) : x < j})
      BY <1>5, <2>2 DEF DefinedBy
    <3> QED BY <1>1, <1>5, <3>1, DstsOk, DstChecked
  <2>5. ~ (j < i)
    <3> SUFFICES ASSUME j < i PROVE FALSE
      OBVIOUS
    <3>1. s.instrs[j].dst \in DefinedBy(s, ParamsOf(s, b), {x \in InstrsOf(s, b) : x < i})
      BY <1>5, <2>2 DEF DefinedBy
    <3> QED BY <1>1, <1>5, <3>1, DstsOk, DstChecked
  <2> QED BY <2>2, <2>3, <2>4, <2>5
<1> QED BY <1>3, <1>4, <1>5

\* The second pass accepts every block of a storage that verifies.
LEMMA BlocksOk ==
    ASSUME NEW s, IsStorage(s), VerifyStorage(s) = Ok, NEW b \in DOMAIN s.blocks
    PROVE  BlockError(s, Defined(s), b) = Ok
<1> DEFINE Check(c) == BlockError(s, Defined(s), c)
           bad == {c \in DOMAIN s.blocks : Check(c) # Ok}
<1>1. ErrorOf(DOMAIN s.blocks, LAMBDA c : Check(c)) = Ok
  BY OkBoth DEF VerifyStorage
<1> SUFFICES ASSUME bad # {} PROVE FALSE
  OBVIOUS
<1>2. DOMAIN s.blocks \in SUBSET Nat
  BY TableIndexes
<1>3. \E i \in bad : \A j \in bad : i <= j
  <2> HIDE DEF bad
  <2>1. bad \in SUBSET Nat
    BY <1>2 DEF bad
  <2> QED BY <2>1, LeastExists
<1>4. \E i \in DOMAIN s.blocks : Check(i) # Ok
          /\ \A j \in DOMAIN s.blocks : j < i => Check(j) = Ok
  <2> HIDE DEF Check
  <2> QED BY <1>2, <1>3
<1> HIDE DEF Check
<1> QED BY <1>1, <1>4, Zenon DEF ErrorOf

\* And with it every instruction of the block.
LEMMA InstrsOk ==
    ASSUME NEW s, IsStorage(s), NEW b \in DOMAIN s.blocks, NEW defined,
           BlockError(s, defined, b) = Ok, NEW i \in InstrsOf(s, b)
    PROVE  InstrError(s, defined, b, i) = Ok
<1> DEFINE Check(c) == InstrError(s, defined, b, c)
           bad == {c \in InstrsOf(s, b) : Check(c) # Ok}
<1>1. ErrorOf(InstrsOf(s, b), LAMBDA c : Check(c)) = Ok
  BY OkBoth DEF BlockError
<1> SUFFICES ASSUME bad # {} PROVE FALSE
  OBVIOUS
<1>2. InstrsOf(s, b) \in SUBSET Nat
  BY BlockSlots
<1>3. \E k \in bad : \A j \in bad : k <= j
  <2> HIDE DEF bad
  <2>1. bad \in SUBSET Nat
    BY <1>2 DEF bad
  <2> QED BY <2>1, LeastExists
<1>4. \E k \in InstrsOf(s, b) : Check(k) # Ok
          /\ \A j \in InstrsOf(s, b) : j < k => Check(j) = Ok
  <2> HIDE DEF Check
  <2> QED BY <1>2, <1>3
<1> HIDE DEF Check
<1> QED BY <1>1, <1>4, Zenon DEF ErrorOf

\* An instruction of a storage has an opcode and a range of operands.
LEMMA InstrRange ==
    ASSUME NEW s, IsStorage(s), NEW i \in DOMAIN s.instrs
    PROVE  /\ s.instrs[i].op \in Opcode /\ s.instrs[i].dst \in Nat
           /\ s.instrs[i].operands \in IndexRange
           /\ s.instrs[i].operands.head \in Nat \ {0} /\ Arity(s, i) \in Nat
<1>1. s.instrs \in Seq([op : Opcode, dst : Nat, operands : IndexRange])
  BY DEF IsStorage
<1>2. s.instrs[i] \in [op : Opcode, dst : Nat, operands : IndexRange]
  BY <1>1, EntryOf
<1>3. s.instrs[i].op \in Opcode /\ s.instrs[i].dst \in Nat /\ s.instrs[i].operands \in IndexRange
  BY <1>2
<1> QED BY <1>3, RangeFacts DEF Arity

\* Every operand of an instruction whose operands are accepted is accepted.
LEMMA OperandsOk ==
    ASSUME NEW s, IsStorage(s), NEW i \in DOMAIN s.instrs, NEW defined,
           ErrorOf(Operands(s, i), LAMBDA o : OperandError(s, defined, o)) = Ok,
           NEW o \in Operands(s, i)
    PROVE  OperandError(s, defined, o) = Ok
<1> DEFINE Check(c) == OperandError(s, defined, c)
           bad == {c \in Operands(s, i) : Check(c) # Ok}
<1> SUFFICES ASSUME bad # {} PROVE FALSE
  OBVIOUS
<1>2. Operands(s, i) \in SUBSET Nat
  BY InstrRange, RangeFacts DEF Operands
<1>3. \E k \in bad : \A j \in bad : k <= j
  <2> HIDE DEF bad
  <2>1. bad \in SUBSET Nat
    BY <1>2 DEF bad
  <2> QED BY <2>1, LeastExists
<1>4. \E k \in Operands(s, i) : Check(k) # Ok
          /\ \A j \in Operands(s, i) : j < k => Check(j) = Ok
  <2> HIDE DEF Check
  <2> QED BY <1>2, <1>3
<1>5. ErrorOf(Operands(s, i), LAMBDA c : Check(c)) = Ok
  OBVIOUS
<1> HIDE DEF Check
<1> QED BY <1>4, <1>5, Zenon DEF ErrorOf

\* The instructions of a storage that verifies have the shape of their
\* opcode, and operands that are entries of the tables.
LEMMA InstrsFitIfOk ==
    ASSUME NEW s, IsStorage(s), VerifyStorage(s) = Ok
    PROVE  InstrsFit(s)
<1> SUFFICES ASSUME NEW b \in DOMAIN s.blocks, NEW i \in InstrsOf(s, b)
             PROVE  /\ s.instrs[i].op \in Terminator <=> \A j \in InstrsOf(s, b) : j <= i
                    /\ \A o \in Operands(s, i) :
                           /\ o \in DOMAIN s.operands /\ s.operands[o].tag # "void"
                           /\ s.operands[o].idx \in DOMAIN Table(s, s.operands[o].tag)
                    /\ ShapeError(s, i) = Ok
  BY DEF InstrsFit
<1> DEFINE last == i + 1 = s.blocks[b].instrs.head + s.blocks[b].instrs.size
           terminates == s.instrs[i].op \in Terminator
<1>1. InstrError(s, Defined(s), b, i) = Ok
  BY BlocksOk, InstrsOk
<1>2. /\ Unless(last => terminates, "UnterminatedBlock") = Ok
      /\ Unless(terminates => last, "MisplacedTerminator") = Ok
      /\ Unless(InBounds(s.instrs[i].operands, s.operands), "InstrOperandsOutOfRange") = Ok
      /\ ErrorOf(Operands(s, i), LAMBDA o : OperandError(s, Defined(s), o)) = Ok
      /\ ShapeError(s, i) = Ok
  BY <1>1, OkBoth DEF InstrError
<1>3. (last <=> terminates) /\ InBounds(s.instrs[i].operands, s.operands)
  <2> HIDE DEF last, terminates
  <2> QED BY <1>2 DEF Unless, Ok
<1>4. last <=> \A j \in InstrsOf(s, b) : j <= i
  <2> DEFINE r == s.blocks[b].instrs
  <2>1. r.head \in Nat \ {0} /\ r.size \in Nat /\ InstrsOf(s, b) = r.head .. r.head + r.size - 1
    BY BlockRanges, RangeFacts DEF InstrsOf, Slots
  <2>2. last <=> i + 1 = r.head + r.size
    OBVIOUS
  <2> HIDE DEF r, last
  <2>3. i \in r.head .. r.head + r.size - 1
    BY <2>1
  <2>4. ASSUME last PROVE \A j \in InstrsOf(s, b) : j <= i
    BY <2>1, <2>2, <2>3, <2>4
  <2>5. ASSUME \A j \in InstrsOf(s, b) : j <= i PROVE last
    <3>1. r.head + r.size - 1 \in InstrsOf(s, b)
      BY <2>1, <2>3
    <3> QED BY <2>1, <2>2, <2>3, <2>5, <3>1
  <2> QED BY <2>4, <2>5
<1>5. i \in DOMAIN s.instrs
  BY BlocksFitIfOk DEF BlocksFit
<1>6. ASSUME NEW o \in Operands(s, i)
      PROVE  /\ o \in DOMAIN s.operands /\ s.operands[o].tag # "void"
             /\ s.operands[o].idx \in DOMAIN Table(s, s.operands[o].tag)
  <2>1. o \in DOMAIN s.operands
    <3>1. s.operands \in Seq([tag : OperandTag, idx : Nat, type : Nat])
      BY DEF IsStorage
    <3> QED BY <1>3, <1>5, <3>1, InstrRange, SlotsInBounds DEF Operands
  <2>2. OperandError(s, Defined(s), o) = Ok
    BY <1>2, <1>5, OperandsOk
  <2> DEFINE fits == Has(Table(s, s.operands[o].tag), s.operands[o].idx)
  <2>3. /\ Unless(s.operands[o].tag # "void", "UnknownOperandTag") = Ok
        /\ Unless(fits, "OperandIdxOutOfRange") = Ok
    BY <2>2, OkBoth DEF OperandError
  <2>4. s.operands[o].tag # "void" /\ fits
    <3> HIDE DEF fits
    <3> QED BY <2>3 DEF Unless, Ok
  <2> QED BY <2>1, <2>4 DEF Has
<1> HIDE DEF last, terminates
<1>7. terminates <=> s.instrs[i].op \in Terminator
  BY DEF terminates
<1> QED BY <1>2, <1>3, <1>4, <1>6, <1>7

\* No node of a storage that verifies is a bad one.
LEMMA NodesOk ==
    ASSUME NEW s, IsStorage(s), VerifyStorage(s) = Ok, NEW t \in DOMAIN s.types
    PROVE  TypeError(s, t) = Ok
<1>1. ErrorOf(DOMAIN s.types, LAMBDA u : TypeError(s, u)) = Ok
  BY OkBoth DEF VerifyStorage
<1> DEFINE bad == {u \in DOMAIN s.types : TypeError(s, u) # Ok}
<1> SUFFICES ASSUME bad # {} PROVE FALSE
  OBVIOUS
<1>2. DOMAIN s.types \in SUBSET Nat
  <2>1. s.types \in Seq([tag : TypeTag, data : Nat])
    BY DEF IsStorage
  <2> QED BY <2>1, IndexesOf
<1>3. \E i \in bad : \A j \in bad : i <= j
  <2> HIDE DEF bad
  <2>1. bad \in SUBSET Nat
    BY <1>2 DEF bad
  <2> QED BY <2>1, LeastExists
<1>4. \E i \in DOMAIN s.types : TypeError(s, i) # Ok
          /\ \A j \in DOMAIN s.types : j < i => TypeError(s, j) = Ok
  BY <1>2, <1>3
<1> QED BY <1>1, <1>4, Zenon DEF ErrorOf

\* So what its structs and arrays are made of exists.
LEMMA NodesFitIfOk ==
    ASSUME NEW s, IsStorage(s), VerifyStorage(s) = Ok
    PROVE  NodesFit(s)
<1> SUFFICES ASSUME NEW t \in DOMAIN s.types
             PROVE  /\ s.types[t].tag = "Struct" =>
                           /\ s.types[t].data \in DOMAIN s.structs
                           /\ Slots(s.structs[s.types[t].data]) \subseteq DOMAIN s.types
                    /\ s.types[t].tag = "Array" =>
                           /\ s.types[t].data \in DOMAIN s.arrays
                           /\ s.arrays[s.types[t].data].element \in DOMAIN s.types
  BY DEF NodesFit
<1> DEFINE d == s.types[t].data
<1>1. TypeError(s, t) = Ok
  BY NodesOk
<1>2. ASSUME s.types[t].tag = "Struct"
      PROVE  d \in DOMAIN s.structs /\ Slots(s.structs[d]) \subseteq DOMAIN s.types
  <2>1. /\ Unless(Has(s.structs, d), "TypeMetadataOutOfRange") = Ok
        /\ Unless(InBounds(s.structs[d], s.types), "StructFieldsOutOfRange") = Ok
    <3>1. TypeError(s, t) = (Unless(Has(s.structs, d), "TypeMetadataOutOfRange")
                             ?? Unless(InBounds(s.structs[d], s.types), "StructFieldsOutOfRange"))
      BY <1>2 DEF TypeError
    <3> QED BY <1>1, <3>1, OkBoth
  <2> HIDE DEF d
  <2>2. d \in DOMAIN s.structs
    BY <2>1 DEF Unless, Ok, Has
  <2>3. InBounds(s.structs[d], s.types)
    BY <2>1 DEF Unless, Ok
  <2>4. s.structs \in Seq(IndexRange) /\ s.types \in Seq([tag : TypeTag, data : Nat])
    BY DEF IsStorage
  <2>5. s.structs[d] \in IndexRange
    BY <2>2, <2>4, EntryOf
  <2> QED BY <2>2, <2>3, <2>4, <2>5, SlotsInBounds
<1>3. ASSUME s.types[t].tag = "Array"
      PROVE  d \in DOMAIN s.arrays /\ s.arrays[d].element \in DOMAIN s.types
  <2>1. /\ Unless(Has(s.arrays, d), "TypeMetadataOutOfRange") = Ok
        /\ Unless(Has(s.types, s.arrays[d].element), "TypeIdxOutOfRange") = Ok
    <3>1. TypeError(s, t) = (Unless(Has(s.arrays, d), "TypeMetadataOutOfRange")
                             ?? Unless(Has(s.types, s.arrays[d].element), "TypeIdxOutOfRange"))
      BY <1>3 DEF TypeError
    <3> QED BY <1>1, <3>1, OkBoth
  <2> HIDE DEF d
  <2> QED BY <2>1 DEF Unless, Ok, Has
<1> QED BY <1>2, <1>3

\* The registers, the immutables and the signatures have types that exist.
LEMMA RegistersTyped ==
    ASSUME NEW s, IsStorage(s), VerifyStorage(s) = Ok, NEW r \in DOMAIN s.registers
    PROVE  s.registers[r] \in DOMAIN s.types
<1> DEFINE Check(x) == Unless(Has(s.types, s.registers[x]), "TypeIdxOutOfRange")
           bad == {x \in DOMAIN s.registers : Check(x) # Ok}
<1>1. ErrorOf(DOMAIN s.registers, LAMBDA x : Check(x)) = Ok
  BY OkBoth DEF VerifyStorage
<1>2. DOMAIN s.registers \in SUBSET Nat
  <2>1. s.registers \in Seq(Nat)
    BY DEF IsStorage
  <2> QED BY <2>1, IndexesOf
<1>3. bad = {}
  <2> SUFFICES ASSUME bad # {} PROVE FALSE
    OBVIOUS
  <2>1. \E i \in bad : \A j \in bad : i <= j
    <3> HIDE DEF bad
    <3>1. bad \in SUBSET Nat
      BY <1>2 DEF bad
    <3> QED BY <3>1, LeastExists
  <2>2. \E i \in DOMAIN s.registers : Check(i) # Ok
            /\ \A j \in DOMAIN s.registers : j < i => Check(j) = Ok
    <3> HIDE DEF Check
    <3> QED BY <1>2, <2>1
  <2> HIDE DEF Check
  <2> QED BY <1>1, <2>2, Zenon DEF ErrorOf
<1> QED BY <1>3 DEF Unless, Ok, Has

LEMMA ImmutablesTyped ==
    ASSUME NEW s, IsStorage(s), VerifyStorage(s) = Ok, NEW m \in DOMAIN s.immutables
    PROVE  s.immutables[m] \in DOMAIN s.types
<1> DEFINE Check(x) == Unless(Has(s.types, s.immutables[x]), "TypeIdxOutOfRange")
           bad == {x \in DOMAIN s.immutables : Check(x) # Ok}
<1>1. ErrorOf(DOMAIN s.immutables, LAMBDA x : Check(x)) = Ok
  BY OkBoth DEF VerifyStorage
<1>2. DOMAIN s.immutables \in SUBSET Nat
  BY TableIndexes
<1>3. bad = {}
  <2> SUFFICES ASSUME bad # {} PROVE FALSE
    OBVIOUS
  <2>1. \E i \in bad : \A j \in bad : i <= j
    <3> HIDE DEF bad
    <3>1. bad \in SUBSET Nat
      BY <1>2 DEF bad
    <3> QED BY <3>1, LeastExists
  <2>2. \E i \in DOMAIN s.immutables : Check(i) # Ok
            /\ \A j \in DOMAIN s.immutables : j < i => Check(j) = Ok
    <3> HIDE DEF Check
    <3> QED BY <1>2, <2>1
  <2> HIDE DEF Check
  <2> QED BY <1>1, <2>2, Zenon DEF ErrorOf
<1> QED BY <1>3 DEF Unless, Ok, Has

LEMMA SignaturesTyped ==
    ASSUME NEW s, IsStorage(s), VerifyStorage(s) = Ok, NEW f \in DOMAIN s.functions
    PROVE  {s.functions[f].ret} \cup Slots(s.functions[f].params) \subseteq DOMAIN s.types
<1> DEFINE params == Slots(s.functions[f].params)
           Check(t) == Unless(Has(s.types, t), "TypeIdxOutOfRange")
           bad == {t \in params : Check(t) # Ok}
<1>1. /\ Unless(Has(s.types, s.functions[f].ret), "TypeIdxOutOfRange") = Ok
      /\ ErrorOf(params, LAMBDA t : Check(t)) = Ok
  <2>1. FunctionError(s, f) = Ok
    BY FunctionsOk
  <2> QED BY <2>1, OkBoth DEF FunctionError
<1>2. params \in SUBSET Nat
  BY FunctionRanges, RangeFacts
<1>3. bad = {}
  <2> SUFFICES ASSUME bad # {} PROVE FALSE
    OBVIOUS
  <2> HIDE DEF params
  <2>1. \E i \in bad : \A j \in bad : i <= j
    <3> HIDE DEF bad
    <3>1. bad \in SUBSET Nat
      BY <1>2 DEF bad
    <3> QED BY <3>1, LeastExists
  <2>2. \E i \in params : Check(i) # Ok /\ \A j \in params : j < i => Check(j) = Ok
    <3> HIDE DEF Check
    <3> QED BY <1>2, <2>1
  <2> HIDE DEF Check
  <2> QED BY <1>1, <2>2, Zenon DEF ErrorOf
<1>4. \A t \in params : t \in DOMAIN s.types
  BY <1>3 DEF Unless, Ok, Has
<1>5. s.functions[f].ret \in DOMAIN s.types
  BY <1>1 DEF Unless, Ok, Has
<1> QED BY <1>4, <1>5

\* So have the parameters and the operands of every block.
LEMMA TypesFitIfOk ==
    ASSUME NEW s, IsStorage(s), VerifyStorage(s) = Ok
    PROVE  TypesFit(s)
<1>1. ASSUME NEW b \in DOMAIN s.blocks, NEW p \in ParamsOf(s, b)
      PROVE  s.params[p].type \in DOMAIN s.types
  <2>1. ParamError(s, b, p) = Ok
    BY DefinitionsOk, ParamsOk
  <2>2. Unless(Has(s.types, s.params[p].type), "TypeIdxOutOfRange") = Ok
    BY <2>1, OkBoth DEF ParamError
  <2> QED BY <2>2 DEF Unless, Ok, Has
<1>2. ASSUME NEW b \in DOMAIN s.blocks, NEW i \in InstrsOf(s, b), NEW o \in Operands(s, i)
      PROVE  s.operands[o].type \in DOMAIN s.types
  <2>1. InstrError(s, Defined(s), b, i) = Ok
    BY BlocksOk, InstrsOk
  <2>2. ErrorOf(Operands(s, i), LAMBDA x : OperandError(s, Defined(s), x)) = Ok
    BY <2>1, OkBoth DEF InstrError
  <2>3. OperandError(s, Defined(s), o) = Ok
    BY <2>2, OperandsOk, BlocksFitIfOk DEF BlocksFit
  <2>4. Unless(Has(s.types, s.operands[o].type), "TypeIdxOutOfRange") = Ok
    BY <2>3, OkBoth DEF OperandError
  <2> QED BY <2>4 DEF Unless, Ok, Has
<1> QED BY <1>1, <1>2, RegistersTyped, ImmutablesTyped, SignaturesTyped DEF TypesFit

\* A storage that verify_storage accepts is as the loops of emit() need it.
LEMMA VerifiedIfOk ==
    ASSUME NEW s, IsStorage(s), VerifyStorage(s) = Ok
    PROVE  Verified(s)
BY FunctionsFitIfOk, BlocksFitIfOk, DefinedOnceIfOk, InstrsFitIfOk, NodesFitIfOk, TypesFitIfOk
   DEF Verified

-----------------------------------------------------------------------------
(***************************************************************************)
(* The work of a loop, which is joined together from lists of the blocks:  *)
(* what is in it and in which order.                                       *)
(***************************************************************************)
Entries(q) == {q[k] : k \in DOMAIN q}
Sorted(q, R) == \A m, n \in DOMAIN q : m < n => <<q[m], q[n]>> \in R

\* What two sequences put together hold, and when they are in order.
LEMMA CatEntries ==
    ASSUME NEW T, NEW q \in Seq(T), NEW u \in Seq(T)
    PROVE  /\ q \o u \in Seq(T) /\ Entries(q \o u) = Entries(q) \cup Entries(u)
           /\ \A R : Sorted(q, R) /\ Sorted(u, R)
                     /\ (\A x \in Entries(q), y \in Entries(u) : <<x, y>> \in R) => Sorted(q \o u, R)
<1> DEFINE w == q \o u
<1>1. /\ DOMAIN q = 1 .. Len(q) /\ DOMAIN u = 1 .. Len(u) /\ Len(q) \in Nat /\ Len(u) \in Nat
      /\ w \in Seq(T) /\ DOMAIN w = 1 .. Len(q) + Len(u)
      /\ \A i \in DOMAIN w : w[i] = IF i <= Len(q) THEN q[i] ELSE u[i - Len(q)]
  BY LenProperties, ConcatProperties
<1> HIDE DEF w
<1>2. ASSUME NEW i \in DOMAIN w
      PROVE  \/ i \in DOMAIN q /\ w[i] = q[i]
             \/ i - Len(q) \in DOMAIN u /\ w[i] = u[i - Len(q)] /\ i > Len(q)
  BY <1>1
<1>3. ASSUME NEW i \in DOMAIN q PROVE i \in DOMAIN w /\ w[i] = q[i]
  BY <1>1
<1>4. ASSUME NEW i \in DOMAIN u PROVE i + Len(q) \in DOMAIN w /\ w[i + Len(q)] = u[i]
  BY <1>1
<1>5. Entries(w) = Entries(q) \cup Entries(u)
  BY <1>2, <1>3, <1>4 DEF Entries
<1>6. ASSUME NEW R, Sorted(q, R), Sorted(u, R), \A x \in Entries(q), y \in Entries(u) : <<x, y>> \in R
      PROVE  Sorted(w, R)
  <2> SUFFICES ASSUME NEW m \in DOMAIN w, NEW n \in DOMAIN w, m < n PROVE <<w[m], w[n]>> \in R
    BY DEF Sorted
  <2>1. CASE m \in DOMAIN q /\ n \in DOMAIN q
    BY <1>3, <1>6, <2>1 DEF Sorted
  <2>2. CASE m \in DOMAIN q /\ n \notin DOMAIN q
    <3>1. w[m] \in Entries(q) /\ w[n] \in Entries(u)
      BY <1>2, <1>3, <2>2 DEF Entries
    <3> QED BY <1>6, <3>1
  <2>3. CASE m \notin DOMAIN q
    <3>1. m \in Nat /\ n \in Nat /\ Len(q) \in Nat /\ m > Len(q) /\ n > Len(q)
      BY <1>1, <1>2, <2>3
    <3>2. /\ m - Len(q) \in DOMAIN u /\ w[m] = u[m - Len(q)]
          /\ n - Len(q) \in DOMAIN u /\ w[n] = u[n - Len(q)]
      BY <1>1, <3>1
    <3>3. m - Len(q) < n - Len(q)
      BY <3>1
    <3> QED BY <1>6, <3>2, <3>3 DEF Sorted
  <2> QED BY <2>1, <2>2, <2>3
<1> QED BY <1>1, <1>5, <1>6 DEF w

\* The same for a sequence of sequences.
LEMMA FlattenEntries ==
    ASSUME NEW T, NEW ls \in Seq(Seq(T)), NEW R
    PROVE  /\ FlattenSeq(ls) \in Seq(T)
           /\ Entries(FlattenSeq(ls)) = UNION {Entries(ls[k]) : k \in DOMAIN ls}
           /\ (/\ \A k \in DOMAIN ls : Sorted(ls[k], R)
               /\ \A j, k \in DOMAIN ls : j < k =>
                      \A x \in Entries(ls[j]), y \in Entries(ls[k]) : <<x, y>> \in R)
                  => Sorted(FlattenSeq(ls), R)
<1> DEFINE N == Len(ls)
           Joins(g) == g = [i \in 1 .. N |-> IF i = 1 THEN ls[i] ELSE g[i - 1] \o ls[i]]
           Apart == /\ \A k \in DOMAIN ls : Sorted(ls[k], R)
                    /\ \A j, k \in DOMAIN ls : j < k =>
                           \A x \in Entries(ls[j]), y \in Entries(ls[k]) : <<x, y>> \in R
<1>1. /\ DOMAIN ls = 1 .. N /\ N \in Nat /\ \A k \in 1 .. N : ls[k] \in Seq(T)
  BY LenProperties, ElementOfSeq
<1>2. CASE N = 0
  <2>1. ls = <<>> /\ FlattenSeq(ls) = <<>>
    BY <1>1, <1>2, EmptySeq DEF FlattenSeq
  <2>2. DOMAIN ls = {} /\ <<>> \in Seq(T) /\ DOMAIN <<>> = {}
    BY <1>1, <1>2, EmptySeq, LenProperties
  <2>3. Entries(<<>>) = {} /\ Sorted(<<>>, R)
    BY <2>2 DEF Entries, Sorted
  <2> QED BY <2>1, <2>2, <2>3
<1>3. CASE N # 0
  <2> DEFINE f == CHOOSE g : Joins(g)
  <2>1. \E g : Joins(g)
    BY <1>1, JoinsExist
  <2>2. Joins(f)
    <3> HIDE DEF Joins
    <3> QED BY <2>1
  <2>3. FlattenSeq(ls) = f[N]
    BY <1>1, <1>3 DEF FlattenSeq
  <2> HIDE DEF f
  <2>4. /\ f[1] = ls[1]
        /\ \A i \in 1 .. N : i # 1 => f[i] = f[i - 1] \o ls[i]
    <3> HIDE DEF N
    <3>1. 1 \in 1 .. N
      BY <1>1, <1>3
    <3>2. \A i \in 1 .. N : f[i] = IF i = 1 THEN ls[i] ELSE f[i - 1] \o ls[i]
      BY <2>2, Zenon
    <3> QED BY <3>1, <3>2
  <2> DEFINE Good(i) == /\ f[i] \in Seq(T)
                        /\ Entries(f[i]) = UNION {Entries(ls[k]) : k \in 1 .. i}
                        /\ Apart => Sorted(f[i], R)
             S == {i \in Nat : i + 1 <= N => Good(i + 1)}
  <2> HIDE DEF Joins
  <2>5. 0 \in S
    <3>1. 1 \in 1 .. N /\ 1 .. 1 = {1}
      BY <1>1, <1>3
    <3>2. Good(1)
      BY <1>1, <2>4, <3>1
    <3> HIDE DEF Good
    <3> QED BY <3>2
  <2>6. ASSUME NEW i \in Nat, i \in S PROVE i + 1 \in S
    <3> SUFFICES ASSUME (i + 1) + 1 <= N PROVE Good((i + 1) + 1)
      OBVIOUS
    <3> DEFINE n == (i + 1) + 1
    <3> HIDE DEF Good
    <3>a. Good(i + 1)
      BY <1>1, <2>6
    <3>1. i + 1 \in 1 .. N /\ n \in 1 .. N /\ n - 1 = i + 1 /\ n # 1
      BY <1>1
    <3>2. f[n] = f[i + 1] \o ls[n] /\ ls[n] \in Seq(T)
      BY <1>1, <2>4, <3>1
    <3>3. 1 .. n = (1 .. i + 1) \cup {n} /\ \A k \in 1 .. i + 1 : k < n /\ k \in 1 .. N
      BY <1>1, <3>1
    <3> HIDE DEF Apart
    <3>4. /\ f[n] \in Seq(T)
          /\ Entries(f[n]) = (UNION {Entries(ls[k]) : k \in 1 .. i + 1}) \cup Entries(ls[n])
      BY <3>a, <3>2, CatEntries DEF Good
    <3>5. Entries(f[n]) = UNION {Entries(ls[k]) : k \in 1 .. n}
      <4> HIDE DEF n
      <4> QED BY <3>3, <3>4
    <3>6. ASSUME Apart PROVE Sorted(f[n], R)
      <4>1. Sorted(f[i + 1], R) /\ Sorted(ls[n], R)
        BY <1>1, <3>1, <3>a, <3>6 DEF Apart, Good
      <4>2. ASSUME NEW x \in Entries(f[i + 1]), NEW y \in Entries(ls[n]) PROVE <<x, y>> \in R
        <5>1. PICK k \in 1 .. i + 1 : x \in Entries(ls[k])
          BY <3>a DEF Good
        <5> QED BY <1>1, <3>1, <3>3, <3>6, <5>1 DEF Apart
      <4> QED BY <3>a, <3>2, <4>1, <4>2, CatEntries DEF Good
    <3> QED BY <3>4, <3>5, <3>6 DEF Good
  <2>7. S = Nat
    <3> HIDE DEF S
    <3>1. S \in SUBSET Nat
      BY DEF S
    <3> QED BY <2>5, <2>6, <3>1, NatByNext
  <2>8. Good(N)
    <3> HIDE DEF Good
    <3>1. N - 1 \in Nat /\ (N - 1) + 1 = N
      BY <1>1, <1>3
    <3>2. N - 1 \in S
      BY <2>7, <3>1
    <3> QED BY <3>1, <3>2
  <2> QED BY <1>1, <2>3, <2>8
<1> QED BY <1>1, <1>2, <1>3

\* The list of a range.
LEMMA RunFacts ==
    ASSUME NEW r \in IndexRange
    PROVE  /\ Run(r) \in Seq(Nat) /\ DOMAIN Run(r) = 1 .. r.size /\ Entries(Run(r)) = Slots(r)
           /\ \A m, n \in DOMAIN Run(r) : m < n => Run(r)[m] < Run(r)[n]
<1>1. r.head \in Nat \ {0} /\ r.size \in Nat
  BY RangeFacts
<1>2. DOMAIN Run(r) = 1 .. r.size /\ \A k \in 1 .. r.size : Run(r)[k] = r.head + k - 1
  BY DEF Run
<1>3. Run(r) \in Seq(Nat)
  BY <1>1 DEF Run
<1>4. Entries(Run(r)) \subseteq Slots(r)
  BY <1>1, <1>2 DEF Entries, Slots
<1>5. ASSUME NEW x \in Slots(r) PROVE x \in Entries(Run(r))
  <2>1. x - r.head + 1 \in 1 .. r.size /\ r.head + (x - r.head + 1) - 1 = x
    BY <1>1 DEF Slots
  <2> QED BY <1>2, <2>1 DEF Entries
<1>6. \A m, n \in DOMAIN Run(r) : m < n => Run(r)[m] < Run(r)[n]
  BY <1>1, <1>2
<1> QED BY <1>2, <1>3, <1>4, <1>5, <1>6

Item == [block : Nat, instr : Nat]
At(x, y) == x.block < y.block \/ (x.block = y.block /\ x.instr < y.instr)
ItemOrder == {xy \in Item \X Item : At(xy[1], xy[2])}

ParamsIn(s, f) == UNION {ParamsOf(s, b) : b \in BlocksOf(s, f)}
ItemsOf(s, b)  == {[block |-> b, instr |-> i] : i \in InstrsOf(s, b)}
ItemsIn(s, f)  == UNION {ItemsOf(s, b) : b \in BlocksOf(s, f)}

\* The list a function of table order makes of a run, entry by entry.
LEMMA MapFacts ==
    ASSUME NEW T, NEW n \in Nat, NEW q, DOMAIN q = 1 .. n, \A k \in 1 .. n : q[k] \in T,
           q = [k \in 1 .. n |-> q[k]]
    PROVE  q \in Seq(T) /\ Len(q) = n
<1>1. q \in [1 .. n -> T]
  OBVIOUS
<1> QED BY <1>1

\* The work of the code loop in one block: its instructions, in order.
LEMMA CodeInFacts ==
    ASSUME NEW s, IsStorage(s), NEW b \in DOMAIN s.blocks
    PROVE  /\ CodeIn(s, b) \in Seq(Item) /\ Entries(CodeIn(s, b)) = ItemsOf(s, b)
           /\ Sorted(CodeIn(s, b), ItemOrder)
<1> DEFINE run == Run(s.blocks[b].instrs)
           n == s.blocks[b].instrs.size
           q == CodeIn(s, b)
<1>1. /\ run \in Seq(Nat) /\ DOMAIN run = 1 .. n /\ Entries(run) = InstrsOf(s, b)
      /\ \A j, k \in DOMAIN run : j < k => run[j] < run[k]
      /\ n \in Nat /\ b \in Nat
  BY BlockRanges, RunFacts, RangeFacts DEF InstrsOf
<1>2. q = [k \in DOMAIN run |-> [block |-> b, instr |-> run[k]]]
  BY DEF CodeIn
<1> HIDE DEF run, n, q
<1>3. \A k \in 1 .. n : run[k] \in Nat
  BY <1>1, EntryOf
<1>4. DOMAIN q = 1 .. n /\ \A k \in 1 .. n : q[k] = [block |-> b, instr |-> run[k]] /\ q[k] \in Item
  BY <1>1, <1>2, <1>3 DEF Item
<1>5. q \in Seq(Item)
  <2>1. q = [k \in 1 .. n |-> q[k]]
    BY <1>1, <1>2, <1>4
  <2> QED BY <1>1, <1>4, <2>1, MapFacts
<1>6. Entries(q) = ItemsOf(s, b)
  <2>1. Entries(q) = {[block |-> b, instr |-> run[k]] : k \in 1 .. n}
    BY <1>4 DEF Entries
  <2>2. InstrsOf(s, b) = {run[k] : k \in 1 .. n}
    BY <1>1 DEF Entries
  <2> QED BY <2>1, <2>2 DEF ItemsOf
<1>7. Sorted(q, ItemOrder)
  <2> SUFFICES ASSUME NEW j \in 1 .. n, NEW k \in 1 .. n, j < k
               PROVE  <<q[j], q[k]>> \in ItemOrder
    BY <1>4 DEF Sorted
  <2>1. run[j] < run[k]
    BY <1>1
  <2>2. q[j].block = b /\ q[k].block = b /\ q[j].instr = run[j] /\ q[k].instr = run[k]
    BY <1>4
  <2>3. q[j] \in Item /\ q[k] \in Item
    BY <1>4
  <2> QED BY <2>1, <2>2, <2>3 DEF ItemOrder, At
<1> QED BY <1>5, <1>6, <1>7 DEF q

\* The work of the code loop in one function.
LEMMA InstrsInFacts ==
    ASSUME NEW s, IsStorage(s), FunctionsFit(s), NEW f \in DOMAIN s.functions
    PROVE  /\ InstrsIn(s, f) \in Seq(Item) /\ Entries(InstrsIn(s, f)) = ItemsIn(s, f)
           /\ Sorted(InstrsIn(s, f), ItemOrder)
<1> DEFINE run == Run(s.functions[f].blocks)
           n == s.functions[f].blocks.size
           ls == [k \in DOMAIN run |-> CodeIn(s, run[k])]
<1>1. /\ run \in Seq(Nat) /\ DOMAIN run = 1 .. n /\ Entries(run) = BlocksOf(s, f)
      /\ \A j, k \in DOMAIN run : j < k => run[j] < run[k]
      /\ n \in Nat
  BY FunctionRanges, RunFacts, RangeFacts DEF BlocksOf
<1>2. InstrsIn(s, f) = FlattenSeq(ls)
  BY DEF InstrsIn
<1> HIDE DEF run, n
<1>3. \A k \in 1 .. n : run[k] \in BlocksOf(s, f) /\ run[k] \in DOMAIN s.blocks
  BY <1>1 DEF Entries, FunctionsFit
<1>4. DOMAIN ls = 1 .. n /\ \A k \in 1 .. n : ls[k] = CodeIn(s, run[k]) /\ ls[k] \in Seq(Item)
  BY <1>1, <1>3, CodeInFacts
<1>5. ls \in Seq(Seq(Item))
  <2>1. ls = [k \in 1 .. n |-> ls[k]]
    BY <1>1
  <2> HIDE DEF ls
  <2> QED BY <1>1, <1>4, <2>1, MapFacts
<1> HIDE DEF ls
<1>6. \A k \in 1 .. n : Entries(ls[k]) = ItemsOf(s, run[k]) /\ Sorted(ls[k], ItemOrder)
  BY <1>3, <1>4, CodeInFacts
<1>7. ASSUME NEW j \in 1 .. n, NEW k \in 1 .. n, j < k,
             NEW x \in Entries(ls[j]), NEW y \in Entries(ls[k])
      PROVE  <<x, y>> \in ItemOrder
  <2>1. PICK i \in InstrsOf(s, run[j]) : x = [block |-> run[j], instr |-> i]
    BY <1>6 DEF ItemsOf
  <2>2. PICK h \in InstrsOf(s, run[k]) : y = [block |-> run[k], instr |-> h]
    BY <1>6 DEF ItemsOf
  <2>3. run[j] \in Nat /\ run[k] \in Nat /\ i \in Nat /\ h \in Nat
    BY <1>3, BlockRanges, BlockSlots
  <2>4. run[j] < run[k]
    BY <1>1, <1>7
  <2> QED BY <2>1, <2>2, <2>3, <2>4 DEF ItemOrder, Item, At
<1>8. Entries(FlattenSeq(ls)) = ItemsIn(s, f)
  <2>1. Entries(FlattenSeq(ls)) = UNION {ItemsOf(s, run[k]) : k \in 1 .. n}
    <3>1. Entries(FlattenSeq(ls)) = UNION {Entries(ls[k]) : k \in DOMAIN ls}
      BY <1>5, FlattenEntries
    <3> QED BY <1>4, <1>6, <3>1
  <2>2. BlocksOf(s, f) = {run[k] : k \in 1 .. n}
    BY <1>1 DEF Entries
  <2> QED BY <2>1, <2>2 DEF ItemsIn
<1>9. FlattenSeq(ls) \in Seq(Item) /\ Sorted(FlattenSeq(ls), ItemOrder)
  BY <1>4, <1>5, <1>6, <1>7, FlattenEntries
<1> QED BY <1>2, <1>8, <1>9

\* The work of the loop that creates the phi nodes of a function.
LEMMA PhisOfFacts ==
    ASSUME NEW s, IsStorage(s), FunctionsFit(s), NEW f \in DOMAIN s.functions
    PROVE  PhisOf(s, f) \in Seq(Nat) /\ Entries(PhisOf(s, f)) = ParamsIn(s, f)
<1> DEFINE run == Run(s.functions[f].blocks)
           n == s.functions[f].blocks.size
           ls == [k \in DOMAIN run |-> Run(s.blocks[run[k]].params)]
<1>1. /\ run \in Seq(Nat) /\ DOMAIN run = 1 .. n /\ Entries(run) = BlocksOf(s, f) /\ n \in Nat
  BY FunctionRanges, RunFacts, RangeFacts DEF BlocksOf
<1>2. PhisOf(s, f) = FlattenSeq(ls)
  BY DEF PhisOf
<1> HIDE DEF run, n
<1>3. \A k \in 1 .. n : run[k] \in BlocksOf(s, f) /\ run[k] \in DOMAIN s.blocks
  BY <1>1 DEF Entries, FunctionsFit
<1>4. /\ DOMAIN ls = 1 .. n
      /\ \A k \in 1 .. n : ls[k] \in Seq(Nat) /\ Entries(ls[k]) = ParamsOf(s, run[k])
  BY <1>1, <1>3, BlockRanges, RunFacts DEF ParamsOf
<1>5. ls \in Seq(Seq(Nat))
  <2>1. ls = [k \in 1 .. n |-> ls[k]]
    BY <1>1
  <2> HIDE DEF ls
  <2> QED BY <1>1, <1>4, <2>1, MapFacts
<1> HIDE DEF ls
<1>6. Entries(FlattenSeq(ls)) = UNION {ParamsOf(s, run[k]) : k \in 1 .. n}
  <2>1. Entries(FlattenSeq(ls)) = UNION {Entries(ls[k]) : k \in DOMAIN ls}
    BY <1>5, FlattenEntries
  <2> QED BY <1>4, <2>1
<1>7. BlocksOf(s, f) = {run[k] : k \in 1 .. n}
  BY <1>1 DEF Entries
<1>8. FlattenSeq(ls) \in Seq(Nat)
  BY <1>5, FlattenEntries
<1> QED BY <1>2, <1>6, <1>7, <1>8 DEF ParamsIn

\* An iteration takes the first of what is left.
LEMMA TakeFirst ==
    ASSUME NEW T, NEW q \in Seq(T), q # <<>>, NEW R, Sorted(q, R)
    PROVE  /\ Head(q) \in Entries(q) /\ Tail(q) \in Seq(T)
           /\ Entries(q) = {Head(q)} \cup Entries(Tail(q))
           /\ Sorted(Tail(q), R) /\ \A y \in Entries(Tail(q)) : <<Head(q), y>> \in R
<1>1. /\ DOMAIN q = 1 .. Len(q) /\ Len(q) \in Nat /\ Len(q) # 0 /\ Head(q) = q[1]
      /\ Tail(q) \in Seq(T) /\ DOMAIN Tail(q) = 1 .. Len(q) - 1
      /\ \A i \in 1 .. Len(q) - 1 : Tail(q)[i] = q[i + 1]
  BY LenProperties, HeadTailProperties, EmptySeq
<1> DEFINE u == Tail(q)
<1> HIDE DEF u
<1>2. ASSUME NEW i \in DOMAIN u PROVE i + 1 \in DOMAIN q /\ u[i] = q[i + 1] /\ 1 < i + 1 /\ i \in Nat
  BY <1>1 DEF u
<1>3. ASSUME NEW i \in DOMAIN q, i # 1 PROVE i - 1 \in DOMAIN u /\ u[i - 1] = q[i]
  BY <1>1, <1>3 DEF u
<1>4. 1 \in DOMAIN q
  BY <1>1
<1>5. Entries(q) = {q[1]} \cup Entries(u)
  BY <1>2, <1>3, <1>4 DEF Entries
<1>6. Sorted(u, R)
  <2> SUFFICES ASSUME NEW m \in DOMAIN u, NEW n \in DOMAIN u, m < n PROVE <<u[m], u[n]>> \in R
    BY DEF Sorted
  <2>1. m + 1 < n + 1
    BY <1>2
  <2> QED BY <1>2, <2>1 DEF Sorted
<1>7. ASSUME NEW y \in Entries(u) PROVE <<q[1], y>> \in R
  <2>1. PICK i \in DOMAIN u : y = u[i]
    BY DEF Entries
  <2> QED BY <1>2, <1>4, <2>1 DEF Sorted
<1> QED BY <1>1, <1>4, <1>5, <1>6, <1>7 DEF u

-----------------------------------------------------------------------------
(***************************************************************************)
(* What a register stands for, without the function: a phi node, an        *)
(* instruction or what an operand names, at the end of the copies. The     *)
(* registers that have an end are the least set closed under copying, so   *)
(* copies that run in a circle have none.                                  *)
(***************************************************************************)
Symbols(s) ==
    [kind : {"phi", "instr", "const", "block", "function", "external"},
     of   : Nat \cup {OperandAt(s, i, 0).idx : i \in DOMAIN s.instrs}]
Symbol(kind, of) == [kind |-> kind, of |-> of]
ValueAt(f, t) == Value(t.kind, IF t.kind \in {"phi", "instr", "block"} THEN f ELSE 0, t.of)

Names(operand, t) ==
    \/ operand.tag = "Immutable" /\ t = Symbol("const", operand.idx)
    \/ operand.tag = "Block"     /\ t = Symbol("block", operand.idx)
    \/ operand.tag = "Function"  /\ t = Symbol("function", operand.idx)
    \/ operand.tag = "External"  /\ t = Symbol("external", operand.idx)

MakerOf(s, r) == (CHOOSE d \in Makers(s, r) : TRUE)[2]
ByInstr(s, r)    == Fillers(s, r) = {} /\ Makers(s, r) # {}
From(s, r)    == OperandAt(s, MakerOf(s, r), 0)

Ends(s, r, t) ==
    \/ Fillers(s, r) # {} /\ t = Symbol("phi", r)
    \/ ByInstr(s, r) /\ ~IsAlias(s, MakerOf(s, r)) /\ t = Symbol("instr", MakerOf(s, r))
    \/ ByInstr(s, r) /\ IsAlias(s, MakerOf(s, r)) /\ Names(From(s, r), t)

Copies(s, r) ==
    /\ ByInstr(s, r) /\ IsAlias(s, MakerOf(s, r))
    /\ From(s, r).tag = "Register" /\ From(s, r).idx \in DOMAIN s.registers

Pairs(s) == (DOMAIN s.registers) \X Symbols(s)
Closed(s, X) ==
    \A r \in DOMAIN s.registers, t \in Symbols(s) :
        Ends(s, r, t) \/ (Copies(s, r) /\ <<From(s, r).idx, t>> \in X) => <<r, t>> \in X
StandsFor(s) == {rt \in Pairs(s) : \A X \in SUBSET Pairs(s) : Closed(s, X) => rt \in X}

\* What an operand stands for.
Means(s, operand, t) ==
    \/ operand.tag = "Register" /\ <<operand.idx, t>> \in StandsFor(s)
    \/ Names(operand, t)

\* The least set is itself closed.
LEMMA StandsClosed ==
    ASSUME NEW s
    PROVE  Closed(s, StandsFor(s))
<1> SUFFICES ASSUME NEW r \in DOMAIN s.registers, NEW t \in Symbols(s),
                    Ends(s, r, t) \/ (Copies(s, r) /\ <<From(s, r).idx, t>> \in StandsFor(s)),
                    NEW X \in SUBSET Pairs(s), Closed(s, X)
             PROVE  <<r, t>> \in X
  BY DEF Closed, StandsFor, Pairs
<1>1. Copies(s, r) /\ <<From(s, r).idx, t>> \in StandsFor(s) => <<From(s, r).idx, t>> \in X
  BY DEF StandsFor
<1> QED BY <1>1 DEF Closed

\* Nothing is in the least closed set but for a reason.
LEMMA StandsInverted ==
    ASSUME NEW s, NEW r, NEW t, <<r, t>> \in StandsFor(s)
    PROVE  /\ r \in DOMAIN s.registers /\ t \in Symbols(s)
           /\ Ends(s, r, t) \/ (Copies(s, r) /\ <<From(s, r).idx, t>> \in StandsFor(s))
<1> DEFINE Reason(x, u) == Ends(s, x, u) \/ (Copies(s, x) /\ <<From(s, x).idx, u>> \in StandsFor(s))
           X == {xu \in StandsFor(s) : Reason(xu[1], xu[2])}
<1>1. StandsFor(s) \subseteq Pairs(s)
  BY DEF StandsFor
<1>2. Closed(s, X)
  <2> SUFFICES ASSUME NEW x \in DOMAIN s.registers, NEW u \in Symbols(s),
                      Ends(s, x, u) \/ (Copies(s, x) /\ <<From(s, x).idx, u>> \in X)
               PROVE  <<x, u>> \in X
    BY DEF Closed
  <2>1. Reason(x, u)
    OBVIOUS
  <2>2. <<x, u>> \in StandsFor(s)
    BY <2>1, StandsClosed DEF Closed
  <2> QED BY <2>1, <2>2
<1>3. <<r, t>> \in X
  <2>1. X \in SUBSET Pairs(s)
    BY <1>1
  <2> HIDE DEF X
  <2> QED BY <1>2, <2>1 DEF StandsFor
<1> QED BY <1>1, <1>3 DEF Pairs

\* A register ends in one symbol, or copies, never both.
LEMMA EndsOne ==
    ASSUME NEW s, NEW r, NEW t, NEW u, Ends(s, r, t)
    PROVE  ~Copies(s, r) /\ (Ends(s, r, u) => u = t)
<1>1. CASE Fillers(s, r) # {}
  BY <1>1 DEF Ends, Copies, ByInstr
<1>2. CASE Fillers(s, r) = {} /\ ~IsAlias(s, MakerOf(s, r))
  BY <1>2 DEF Ends, Copies, ByInstr
<1>3. CASE Fillers(s, r) = {} /\ IsAlias(s, MakerOf(s, r))
  <2>1. Names(From(s, r), t)
    BY <1>3 DEF Ends
  <2>2. From(s, r).tag # "Register"
    BY <2>1 DEF Names
  <2>3. Names(From(s, r), u) => u = t
    BY <2>1 DEF Names
  <2> QED BY <1>3, <2>2, <2>3 DEF Ends, Copies
<1> QED BY <1>1, <1>2, <1>3

\* A register stands for one symbol at most.
LEMMA StandsOne ==
    ASSUME NEW s, NEW r, NEW t, NEW u, <<r, t>> \in StandsFor(s), <<r, u>> \in StandsFor(s)
    PROVE  t = u
<1> DEFINE X == {xw \in StandsFor(s) : \A v : <<xw[1], v>> \in StandsFor(s) => v = xw[2]}
<1>1. Closed(s, X)
  <2> SUFFICES ASSUME NEW x \in DOMAIN s.registers, NEW w \in Symbols(s),
                      Ends(s, x, w) \/ (Copies(s, x) /\ <<From(s, x).idx, w>> \in X)
               PROVE  <<x, w>> \in X
    BY DEF Closed
  <2>1. <<x, w>> \in StandsFor(s)
    BY StandsClosed DEF Closed
  <2>2. ASSUME NEW v, <<x, v>> \in StandsFor(s) PROVE v = w
    <3>1. Ends(s, x, v) \/ (Copies(s, x) /\ <<From(s, x).idx, v>> \in StandsFor(s))
      BY <2>2, StandsInverted
    <3>2. CASE Ends(s, x, w)
      BY <3>1, <3>2, EndsOne
    <3>3. CASE Copies(s, x) /\ <<From(s, x).idx, w>> \in X
      <4>1. ~Ends(s, x, v)
        BY <3>3, EndsOne
      <4> QED BY <3>1, <3>3, <4>1
    <3> QED BY <3>2, <3>3
  <2> QED BY <2>1, <2>2
<1>2. <<r, t>> \in X
  <2>1. X \in SUBSET Pairs(s)
    BY DEF StandsFor
  <2> HIDE DEF X
  <2> QED BY <1>1, <2>1 DEF StandsFor
<1> QED BY <1>2

\* One of the makers is chosen.
LEMMA MakerFacts ==
    ASSUME NEW s, IsStorage(s), NEW r, Makers(s, r) # {}
    PROVE  /\ MakerOf(s, r) \in DOMAIN s.instrs /\ MakerOf(s, r) \in Nat
           /\ \E b \in DOMAIN s.blocks : <<b, MakerOf(s, r)>> \in Makers(s, r)
<1> DEFINE d == CHOOSE x \in Makers(s, r) : TRUE
<1>1. d \in Makers(s, r)
  OBVIOUS
<1> HIDE DEF d
<1>2. d \in (DOMAIN s.blocks) \X (DOMAIN s.instrs)
  BY <1>1 DEF Makers
<1>3. d[2] \in DOMAIN s.instrs /\ d[1] \in DOMAIN s.blocks /\ d = <<d[1], d[2]>>
  BY <1>2
<1>4. DOMAIN s.instrs \in SUBSET Nat
  BY TableIndexes
<1>5. MakerOf(s, r) = d[2]
  BY DEF MakerOf, d
<1> QED BY <1>1, <1>3, <1>4, <1>5

\* Every end is one of the symbols.
LEMMA EndsIn ==
    ASSUME NEW s, IsStorage(s), NEW r \in DOMAIN s.registers, NEW t, Ends(s, r, t)
    PROVE  <<r, t>> \in StandsFor(s)
<1>1. t \in Symbols(s)
  <2>1. CASE Fillers(s, r) # {}
    <3>1. r \in Nat
      BY DEF IsStorage
    <3> QED BY <2>1, <3>1 DEF Ends, ByInstr, Symbols, Symbol
  <2>2. CASE ByInstr(s, r) /\ ~IsAlias(s, MakerOf(s, r))
    <3>1. MakerOf(s, r) \in Nat
      BY <2>2, MakerFacts DEF ByInstr
    <3> QED BY <2>2, <3>1 DEF Ends, ByInstr, Symbols, Symbol
  <2>3. CASE ByInstr(s, r) /\ IsAlias(s, MakerOf(s, r))
    <3>1. MakerOf(s, r) \in DOMAIN s.instrs
      BY <2>3, MakerFacts DEF ByInstr
    <3>2. Names(From(s, r), t) /\ From(s, r) = OperandAt(s, MakerOf(s, r), 0)
      BY <2>3 DEF Ends, ByInstr, From
    <3> QED BY <3>1, <3>2 DEF Names, Symbols, Symbol
  <2> QED BY <2>1, <2>2, <2>3 DEF Ends
<1> QED BY <1>1, StandsClosed DEF Closed

Body(s, f, m, r) ==
    IF Fillers(s, r) # {}     THEN Value("phi", f, r)
    ELSE IF Makers(s, r) = {} THEN Null
    ELSE IF IsAlias(s, MakerOf(s, r)) THEN Standing(m, f, From(s, r))
    ELSE Value("instr", f, MakerOf(s, r))

\* An operand that is no register means what it names.
LEMMA StandingNames ==
    ASSUME NEW m, NEW f, NEW operand, NEW t, Names(operand, t)
    PROVE  Standing(m, f, operand) = ValueAt(f, t)
BY DEF Names, Standing, ValueAt, Symbol

\* The recursion that says what a register means has a solution: every
\* register gets its end, and those without an end nothing.
LEMMA MeaningUnfolds ==
    ASSUME NEW s, IsStorage(s), NEW f
    PROVE  Meaning(s, f) = [r \in DOMAIN s.registers |-> Body(s, f, Meaning(s, f), r)]
<1> DEFINE Ended(r) == \E t : <<r, t>> \in StandsFor(s)
           End(r) == CHOOSE t : <<r, t>> \in StandsFor(s)
           Solves(m) == m = [r \in DOMAIN s.registers |-> Body(s, f, m, r)]
           Answer(r) == IF Ended(r) THEN ValueAt(f, End(r)) ELSE Null
           m0 == [r \in DOMAIN s.registers |-> Answer(r)]
<1>1. \A r \in DOMAIN s.registers : \A t : <<r, t>> \in StandsFor(s) => m0[r] = ValueAt(f, t)
  <2> SUFFICES ASSUME NEW r \in DOMAIN s.registers, NEW t, <<r, t>> \in StandsFor(s)
               PROVE  m0[r] = ValueAt(f, t)
    OBVIOUS
  <2>1. <<r, End(r)>> \in StandsFor(s)
    OBVIOUS
  <2>2. End(r) = t
    <3> HIDE DEF End
    <3> QED BY <2>1, StandsOne
  <2> QED BY <2>2
<1>2. \A r \in DOMAIN s.registers : ~Ended(r) => m0[r] = Null
  OBVIOUS
<1>3. DOMAIN m0 = DOMAIN s.registers
  OBVIOUS
<1>4. m0 = [r \in DOMAIN s.registers |-> m0[r]]
  <2> HIDE DEF Answer
  <2> QED OBVIOUS
<1> HIDE DEF m0
<1>5. ASSUME NEW r \in DOMAIN s.registers PROVE m0[r] = Body(s, f, m0, r)
  <2>1. CASE Fillers(s, r) # {}
    <3>1. <<r, Symbol("phi", r)>> \in StandsFor(s)
      BY <2>1, EndsIn DEF Ends
    <3>2. m0[r] = ValueAt(f, Symbol("phi", r))
      BY <1>1, <3>1
    <3> QED BY <2>1, <3>2 DEF Body, ValueAt, Symbol
  <2>2. CASE Fillers(s, r) = {} /\ Makers(s, r) = {}
    <3>1. ~Ended(r)
      BY <2>2, StandsInverted DEF Ends, ByInstr, Copies
    <3> QED BY <1>2, <2>2, <3>1 DEF Body
  <2>3. CASE ByInstr(s, r) /\ ~IsAlias(s, MakerOf(s, r))
    <3>1. <<r, Symbol("instr", MakerOf(s, r))>> \in StandsFor(s)
      BY <2>3, EndsIn DEF Ends
    <3>2. m0[r] = ValueAt(f, Symbol("instr", MakerOf(s, r)))
      BY <1>1, <3>1
    <3> QED BY <2>3, <3>2 DEF Body, ValueAt, Symbol, ByInstr
  <2>4. CASE ByInstr(s, r) /\ IsAlias(s, MakerOf(s, r))
    <3> DEFINE from == From(s, r)
    <3>1. Body(s, f, m0, r) = Standing(m0, f, from)
      BY <2>4 DEF Body, ByInstr
    <3>2. \A t : Names(from, t) => m0[r] = ValueAt(f, t)
      BY <1>1, <2>4, EndsIn DEF Ends
    <3>3. \A t : Ends(s, r, t) => Names(from, t)
      BY <2>4 DEF Ends, ByInstr
    <3>4. CASE from.tag = "Register" /\ from.idx \in DOMAIN s.registers
      <4>1. Copies(s, r)
        BY <2>4, <3>4 DEF Copies
      <4>2. Standing(m0, f, from) = m0[from.idx]
        BY <1>3, <3>4 DEF Standing, Has
      <4>3. CASE Ended(from.idx)
        <5>1. PICK t : <<from.idx, t>> \in StandsFor(s)
          BY <4>3
        <5>2. t \in Symbols(s)
          BY <5>1, StandsInverted
        <5>3. <<r, t>> \in StandsFor(s)
          BY <4>1, <5>1, <5>2, StandsClosed DEF Closed
        <5> QED BY <1>1, <3>1, <3>4, <4>2, <5>1, <5>3
      <4>4. CASE ~Ended(from.idx)
        <5>1. ~Ended(r)
          <6> SUFFICES ASSUME NEW t, <<r, t>> \in StandsFor(s) PROVE FALSE
            OBVIOUS
          <6>1. Ends(s, r, t)
            BY <4>4, StandsInverted
          <6> QED BY <4>1, <6>1, EndsOne
        <5> QED BY <1>2, <3>1, <3>4, <4>2, <4>4, <5>1
      <4> QED BY <4>3, <4>4
    <3>5. CASE from.tag \notin {"Immutable", "Block", "Function", "External"}
               /\ ~(from.tag = "Register" /\ from.idx \in DOMAIN s.registers)
      <4>1. ~Ended(r)
        <5> SUFFICES ASSUME NEW t, <<r, t>> \in StandsFor(s) PROVE FALSE
          OBVIOUS
        <5>1. ~Names(from, t) /\ ~Copies(s, r)
          BY <3>5 DEF Names, Copies
        <5> QED BY <3>3, <5>1, StandsInverted
      <4>2. Standing(m0, f, from) = Null
        BY <1>3, <3>5 DEF Standing, Has
      <4> QED BY <1>2, <3>1, <4>1, <4>2
    <3>6. CASE from.tag = "Immutable"
      <4>1. Names(from, Symbol("const", from.idx))
        BY <3>6 DEF Names
      <4> HIDE DEF from
      <4> QED BY <3>1, <3>2, <4>1, StandingNames
    <3>7. CASE from.tag = "Block"
      <4>1. Names(from, Symbol("block", from.idx))
        BY <3>7 DEF Names
      <4> HIDE DEF from
      <4> QED BY <3>1, <3>2, <4>1, StandingNames
    <3>8. CASE from.tag = "Function"
      <4>1. Names(from, Symbol("function", from.idx))
        BY <3>8 DEF Names
      <4> HIDE DEF from
      <4> QED BY <3>1, <3>2, <4>1, StandingNames
    <3>9. CASE from.tag = "External"
      <4>1. Names(from, Symbol("external", from.idx))
        BY <3>9 DEF Names
      <4> HIDE DEF from
      <4> QED BY <3>1, <3>2, <4>1, StandingNames
    <3> HIDE DEF from
    <3> QED BY <3>4, <3>5, <3>6, <3>7, <3>8, <3>9
  <2> QED BY <2>1, <2>2, <2>3, <2>4 DEF ByInstr
<1>6. Solves(m0)
  <2>1. [r \in DOMAIN s.registers |-> m0[r]] = [r \in DOMAIN s.registers |-> Body(s, f, m0, r)]
    BY <1>5
  <2> QED BY <1>4, <2>1
<1>7. Meaning(s, f) = CHOOSE m : Solves(m)
  BY DEF Meaning, Body, From, MakerOf
<1>8. Solves(CHOOSE m : Solves(m))
  <2> HIDE DEF Solves
  <2> QED BY <1>6
<1> QED BY <1>7, <1>8

\* The meaning of a register is the value of the symbol it stands for.
LEMMA MeaningIs ==
    ASSUME NEW s, IsStorage(s), NEW f, NEW r, NEW t, <<r, t>> \in StandsFor(s)
    PROVE  r \in DOMAIN s.registers /\ Meaning(s, f)[r] = ValueAt(f, t)
<1> DEFINE M == Meaning(s, f)
           X == {xu \in StandsFor(s) : M[xu[1]] = ValueAt(f, xu[2])}
<1>1. DOMAIN M = DOMAIN s.registers /\ \A x \in DOMAIN s.registers : M[x] = Body(s, f, M, x)
  BY MeaningUnfolds
<1> HIDE DEF M
<1>2. Closed(s, X)
  <2> SUFFICES ASSUME NEW x \in DOMAIN s.registers, NEW u \in Symbols(s),
                      Ends(s, x, u) \/ (Copies(s, x) /\ <<From(s, x).idx, u>> \in X)
               PROVE  <<x, u>> \in X
    BY DEF Closed
  <2>1. <<x, u>> \in StandsFor(s)
    BY StandsClosed DEF Closed
  <2>2. CASE Fillers(s, x) # {} /\ Ends(s, x, u)
    BY <1>1, <2>1, <2>2 DEF Ends, ByInstr, Body, ValueAt, Symbol
  <2>3. CASE ByInstr(s, x) /\ ~IsAlias(s, MakerOf(s, x)) /\ Ends(s, x, u)
    BY <1>1, <2>1, <2>3 DEF Ends, ByInstr, Body, ValueAt, Symbol
  <2>4. CASE ByInstr(s, x) /\ IsAlias(s, MakerOf(s, x)) /\ Names(From(s, x), u)
    <3>1. M[x] = Standing(M, f, From(s, x))
      BY <1>1, <2>4 DEF Body, ByInstr
    <3>2. Standing(M, f, From(s, x)) = ValueAt(f, u)
      BY <2>4 DEF Names, Standing, ValueAt, Symbol
    <3> QED BY <2>1, <3>1, <3>2
  <2>5. CASE Copies(s, x) /\ <<From(s, x).idx, u>> \in X
    <3>1. M[x] = Standing(M, f, From(s, x))
      BY <1>1, <2>5 DEF Body, ByInstr, Copies
    <3>2. Standing(M, f, From(s, x)) = M[From(s, x).idx]
      BY <1>1, <2>5 DEF Standing, Has, Copies
    <3> QED BY <2>1, <2>5, <3>1, <3>2
  <2> QED BY <2>2, <2>3, <2>4, <2>5 DEF Ends
<1>3. <<r, t>> \in X
  <2>1. X \in SUBSET Pairs(s)
    BY DEF StandsFor
  <2> HIDE DEF X
  <2> QED BY <1>2, <2>1 DEF StandsFor
<1>4. r \in DOMAIN s.registers
  BY StandsInverted
<1> QED BY <1>3, <1>4 DEF M

\* So is what an operand denotes.
LEMMA DenotesIs ==
    ASSUME NEW s, IsStorage(s), NEW f, NEW operand, NEW t, Means(s, operand, t)
    PROVE  Denotes(s, f, operand) = ValueAt(f, t)
<1>1. CASE operand.tag = "Register" /\ <<operand.idx, t>> \in StandsFor(s)
  <2>1. operand.idx \in DOMAIN s.registers /\ Meaning(s, f)[operand.idx] = ValueAt(f, t)
    BY <1>1, MeaningIs
  <2>2. DOMAIN Meaning(s, f) = DOMAIN s.registers
    BY MeaningUnfolds
  <2>3. Has(Meaning(s, f), operand.idx)
    BY <2>1, <2>2 DEF Has
  <2> QED BY <1>1, <2>1, <2>3 DEF Denotes, Standing
<1>2. CASE Names(operand, t)
  BY <1>2 DEF Names, Denotes, Standing, ValueAt, Symbol
<1> QED BY <1>1, <1>2 DEF Means

\* The registers of parameters and of instructions, in a verified storage.
LEMMA ParamStands ==
    ASSUME NEW s, IsStorage(s), Verified(s), NEW b \in DOMAIN s.blocks, NEW p \in ParamsOf(s, b),
           NEW r, r = s.params[p].reg
    PROVE  /\ r \in DOMAIN s.registers /\ <<r, Symbol("phi", r)>> \in StandsFor(s)
           /\ \A t : <<r, t>> \in StandsFor(s) => t = Symbol("phi", r)
<1>1. r \in DOMAIN s.registers
  BY DEF Verified, BlocksFit
<1>2. Fillers(s, r) # {}
  BY DEF Fillers
<1>3. <<r, Symbol("phi", r)>> \in StandsFor(s)
  BY <1>1, <1>2, EndsIn DEF Ends
<1> QED BY <1>1, <1>3, StandsOne

\* And the destination of an instruction for what the instruction makes, or
\* for what the operand it copies means.
LEMMA DstStands ==
    ASSUME NEW s, IsStorage(s), Verified(s), NEW b \in DOMAIN s.blocks, NEW i \in InstrsOf(s, b),
           Binds(s, i), NEW r, r = s.instrs[i].dst
    PROVE  /\ r \in DOMAIN s.registers
           /\ \A c \in DOMAIN s.blocks : \A p \in ParamsOf(s, c) : s.params[p].reg # r
           /\ ~IsAlias(s, i) => <<r, Symbol("instr", i)>> \in StandsFor(s)
           /\ IsAlias(s, i) =>
                  \A t : Means(s, OperandAt(s, i, 0), t) => <<r, t>> \in StandsFor(s)
<1>1. r # NoRegister
  BY DEF Binds, Discards
<1>2. r \in DOMAIN s.registers /\ i \in DOMAIN s.instrs
  BY <1>1 DEF Verified, BlocksFit
<1>3. \A c \in DOMAIN s.blocks : \A p \in ParamsOf(s, c) : s.params[p].reg # r
  BY DEF Verified, DefinedOnce
<1>4. Fillers(s, r) = {}
  BY <1>3 DEF Fillers
<1>5. <<b, i>> \in Makers(s, r)
  BY <1>2 DEF Makers
<1>6. MakerOf(s, r) = i
  <2>1. PICK c \in DOMAIN s.blocks : <<c, MakerOf(s, r)>> \in Makers(s, r)
    BY <1>5, MakerFacts
  <2>2. MakerOf(s, r) \in InstrsOf(s, c) /\ s.instrs[MakerOf(s, r)].dst = r
    BY <2>1 DEF Makers
  <2> QED BY <1>1, <2>1, <2>2 DEF Verified, DefinedOnce
<1>7. ByInstr(s, r) /\ From(s, r) = OperandAt(s, i, 0)
  BY <1>4, <1>5, <1>6 DEF ByInstr, From
<1>8. ~IsAlias(s, i) => <<r, Symbol("instr", i)>> \in StandsFor(s)
  BY <1>2, <1>6, <1>7, EndsIn DEF Ends
<1>9. ASSUME IsAlias(s, i), NEW t, Means(s, OperandAt(s, i, 0), t) PROVE <<r, t>> \in StandsFor(s)
  <2> DEFINE from == OperandAt(s, i, 0)
  <2>1. CASE Names(from, t)
    BY <1>2, <1>6, <1>7, <1>9, <2>1, EndsIn DEF Ends
  <2>2. CASE from.tag = "Register" /\ <<from.idx, t>> \in StandsFor(s)
    <3>1. from.idx \in DOMAIN s.registers /\ t \in Symbols(s)
      BY <2>2, StandsInverted
    <3>2. Copies(s, r)
      BY <1>6, <1>7, <1>9, <2>2, <3>1 DEF Copies
    <3> QED BY <1>2, <1>7, <2>2, <3>1, <3>2, StandsClosed DEF Closed
  <2> QED BY <1>9, <2>1, <2>2 DEF Means
<1> QED BY <1>2, <1>3, <1>8, <1>9

-----------------------------------------------------------------------------
(***************************************************************************)
(* The inductive invariant, for a storage s.                               *)
(***************************************************************************)
Vals == [kind : {"null", "phi", "instr", "const", "block", "function", "external"},
         fn : Nat, of : Nat]
Tables(s) ==
    [functions  : [DOMAIN s.functions -> Vals],  registers : [DOMAIN s.registers -> Vals],
     blocks     : [DOMAIN s.blocks -> Vals],     immutables : [DOMAIN s.immutables -> Vals],
     externals  : [DOMAIN s.externals -> Vals],  allocas : [DOMAIN s.registers -> Vals]]
LlvmInstr == [fn : Nat, block : Nat, instr : Nat, args : Seq(Vals)]
LlvmEdge  == [phi : Vals, from : Vals, value : Vals]

TypeOK ==
    /\ storage \in Storages
    /\ phase \in {"verify", "immutables", "externals", "functions", "function", "blocks", "phis",
                  "code", "done"}
    /\ fn \in 0 .. Len(storage.functions)
    /\ values \in Tables(storage)
    /\ code \in Seq(LlvmInstr)
    /\ incoming \in SUBSET LlvmEdge /\ IsFiniteSet(incoming)
    /\ outcome \in {"none", "rejected", "stopped", "emitted"}

\* The function loop is reached only by a storage that verified.
Flow ==
    /\ phase = "verify" => fn = 0 /\ code = <<>> /\ incoming = {}
    /\ phase \in {"immutables", "externals"} => fn = 0
    /\ phase \in {"function", "blocks", "phis", "code"} => fn # 0
    /\ phase \notin {"verify", "done"} => Verified(storage)
    /\ Verified(storage) \/ (fn = 0 /\ code = <<>> /\ incoming = {})
    /\ outcome = "none" <=> phase # "done"
    /\ outcome = "emitted" => fn = Len(storage.functions)

\* What is left of a loop is of the loop, in its order.
Work ==
    /\ phase = "immutables" => todo \in Seq(Nat) /\ Entries(todo) \subseteq DOMAIN storage.immutables
    /\ phase = "externals"  => todo \in Seq(Nat) /\ Entries(todo) \subseteq DOMAIN storage.externals
    /\ phase = "blocks"     => todo \in Seq(Nat) /\ Entries(todo) \subseteq BlocksOf(storage, fn)
    /\ phase = "phis"       => todo \in Seq(Nat) /\ Entries(todo) \subseteq ParamsIn(storage, fn)
    /\ phase = "code"       => /\ todo \in Seq(Item) /\ Entries(todo) \subseteq ItemsIn(storage, fn)
                              /\ Sorted(todo, ItemOrder)

\* The loops before have replaced what an earlier function left.
BlocksDeclared ==
    phase \in {"blocks", "phis", "code"} =>
        \A b \in BlocksOf(storage, fn) :
            \/ values.blocks[b] = Value("block", fn, b)
            \/ phase = "blocks" /\ b \in Entries(todo)

PhisCreated ==
    phase \in {"phis", "code"} =>
        \A p \in ParamsIn(storage, fn) :
            \/ values.registers[storage.params[p].reg] = Value("phi", fn, storage.params[p].reg)
            \/ phase = "phis" /\ p \in Entries(todo)

\* An entry of values_, or a use of it, is what the operand stands for in
\* some function up to f.
Held(s, f, operand, v) ==
    \E g \in 0 .. f, t \in Symbols(s) :
        /\ Means(s, operand, t) /\ v = ValueAt(g, t)
        /\ t.kind = "block" => g # 0 /\ t.of \in BlocksOf(s, g)

Ref(tag, idx) == [tag |-> tag, idx |-> idx]
TableHolds(s, f, tag, table) ==
    \A x \in DOMAIN table : table[x] = Null \/ Held(s, f, Ref(tag, x), table[x])

TablesHold(s, f, v) ==
    /\ TableHolds(s, f, "Register",  v.registers)
    /\ TableHolds(s, f, "Block",     v.blocks)
    /\ TableHolds(s, f, "Immutable", v.immutables)
    /\ TableHolds(s, f, "Function",  v.functions)
    /\ TableHolds(s, f, "External",  v.externals)

\* The instructions created are instructions of the storage, in table order.
CodeFits(s, c) ==
    /\ c.fn \in DOMAIN s.functions /\ c.block \in BlocksOf(s, c.fn)
    /\ c.instr \in InstrsOf(s, c.block) /\ Emits(s, c.instr)
    /\ DOMAIN c.args = DOMAIN Reads(s, c.instr)
    /\ \A k \in DOMAIN c.args : Held(s, c.fn, OperandAt(s, c.instr, Reads(s, c.instr)[k]), c.args[k])

CodeIs     == \A n \in DOMAIN code : CodeFits(storage, code[n]) /\ code[n].fn <= fn
CodeSorted == \A m, n \in DOMAIN code : m < n => CreatedBefore(code[m], code[n])

\* It is behind the work that is left.
CodeBehind ==
    /\ phase \in {"function", "blocks", "phis"} => \A n \in DOMAIN code : code[n].fn # fn
    /\ phase = "code" =>
           \A n \in DOMAIN code : code[n].fn = fn =>
               \A y \in Entries(todo) :
                   <<[block |-> code[n].block, instr |-> code[n].instr], y>> \in ItemOrder

Created(f, b, i) == \E n \in DOMAIN code : code[n].fn = f /\ code[n].block = b /\ code[n].instr = i

Passed(f, b, i) ==
    f \in Emitted \/ (f = fn /\ phase = "code" /\ [block |-> b, instr |-> i] \notin Entries(todo))

CodeComplete ==
    \A f \in DOMAIN storage.functions : \A b \in BlocksOf(storage, f) :
        \A i \in InstrsOf(storage, b) :
            Passed(f, b, i) /\ Emits(storage, i) => Created(f, b, i)

\* An edge into a phi node comes from a branch that was created.
EdgeOf(s, c, p, e) ==
    /\ p \in BranchParams(s, c.instr)
    /\ e.from = Value("block", c.fn, c.block)
    /\ e.phi.kind = "phi" /\ e.phi.of = s.params[p].reg /\ e.phi.fn <= c.fn
    /\ Held(s, c.fn, s.operands[ArgumentOf(s, c.instr, p)], e.value)

\* The edge as the emitter takes it: the operand at the parameter's index.
TakenEdge(s, f, b, i, p) ==
    [phi   |-> Value("phi", f, s.params[p].reg),
     from  |-> Value("block", f, b),
     value |-> Denotes(s, f, s.operands[ArgumentOf(s, i, p)])]

EdgesFit ==
    /\ \A e \in incoming : \E n \in DOMAIN code : \E p \in BranchParams(storage, code[n].instr) :
           EdgeOf(storage, code[n], p, e)
    /\ \A n \in DOMAIN code : \A p \in BranchParams(storage, code[n].instr) :
           \E e \in incoming :
               /\ EdgeOf(storage, code[n], p, e)
               /\ OperandAt(storage, code[n].instr, 0).idx \in BlocksOf(storage, code[n].fn)
                      => e.phi.fn = code[n].fn
    /\ \A e, d \in incoming : e.from = d.from /\ e.phi.of = d.phi.of => e = d

\* What LLVM's verifier has made of that for the functions it has seen.
EmittedExact ==
    /\ \A n \in DOMAIN code : code[n].fn \in Emitted =>
           \A k \in DOMAIN code[n].args :
               code[n].args[k] = Denotes(storage, code[n].fn,
                   OperandAt(storage, code[n].instr, Reads(storage, code[n].instr)[k]))
    /\ \A n \in DOMAIN code : code[n].fn \in Emitted =>
           \A p \in BranchParams(storage, code[n].instr), e \in incoming :
               EdgeOf(storage, code[n], p, e) =>
                   e = TakenEdge(storage, code[n].fn, code[n].block, code[n].instr, p)

Inv ==
    /\ TypeOK /\ Flow /\ Work /\ BlocksDeclared /\ PhisCreated
    /\ TablesHold(storage, fn, values)
    /\ CodeIs /\ CodeSorted /\ CodeBehind /\ CodeComplete /\ EdgesFit /\ EmittedExact

\* What is held stays held in later functions.
LEMMA HeldLater ==
    ASSUME NEW s, NEW f \in Nat, NEW g \in Nat, f <= g, NEW operand, NEW v, Held(s, f, operand, v)
    PROVE  Held(s, g, operand, v)
<1>1. \A h \in 0 .. f : h \in 0 .. g
  OBVIOUS
<1> QED BY <1>1 DEF Held

\* So do the tables.
LEMMA TablesHoldLater ==
    ASSUME NEW s, NEW f \in Nat, NEW g \in Nat, f <= g, NEW v, TablesHold(s, f, v)
    PROVE  TablesHold(s, g, v)
BY HeldLater DEF TablesHold, TableHolds

\* An operand means what the entry of the table means that it names.
LEMMA HeldByRef ==
    ASSUME NEW s, NEW f, NEW operand, NEW v
    PROVE  Held(s, f, Ref(operand.tag, operand.idx), v) <=> Held(s, f, operand, v)
<1>1. \A t : Means(s, Ref(operand.tag, operand.idx), t) <=> Means(s, operand, t)
  BY DEF Means, Names, Ref
<1> QED BY <1>1 DEF Held

\* The entries that the loops write before there is any code.
LEMMA NamedHeld ==
    ASSUME NEW s, NEW f \in Nat, NEW x \in Nat
    PROVE  /\ Held(s, f, Ref("Immutable", x), Value("const", 0, x))
           /\ Held(s, f, Ref("Function", x), Value("function", 0, x))
           /\ Held(s, f, Ref("External", x), Value("external", 0, x))
           /\ f # 0 /\ x \in BlocksOf(s, f) => Held(s, f, Ref("Block", x), Value("block", f, x))
<1>1. f \in 0 .. f
  OBVIOUS
<1>2. \A kind \in {"phi", "instr", "const", "block", "function", "external"} :
          Symbol(kind, x) \in Symbols(s)
  BY DEF Symbols, Symbol
<1>3. Held(s, f, Ref("Immutable", x), Value("const", 0, x))
  <2> DEFINE t == Symbol("const", x)
  <2>1. /\ t \in Symbols(s) /\ Means(s, Ref("Immutable", x), t)
        /\ ValueAt(f, t) = Value("const", 0, x) /\ t.kind # "block"
    BY <1>2 DEF Means, Names, Ref, ValueAt, Symbol
  <2> HIDE DEF t
  <2> QED BY <1>1, <2>1 DEF Held
<1>4. Held(s, f, Ref("Function", x), Value("function", 0, x))
  <2> DEFINE t == Symbol("function", x)
  <2>1. /\ t \in Symbols(s) /\ Means(s, Ref("Function", x), t)
        /\ ValueAt(f, t) = Value("function", 0, x) /\ t.kind # "block"
    BY <1>2 DEF Means, Names, Ref, ValueAt, Symbol
  <2> HIDE DEF t
  <2> QED BY <1>1, <2>1 DEF Held
<1>5. Held(s, f, Ref("External", x), Value("external", 0, x))
  <2> DEFINE t == Symbol("external", x)
  <2>1. /\ t \in Symbols(s) /\ Means(s, Ref("External", x), t)
        /\ ValueAt(f, t) = Value("external", 0, x) /\ t.kind # "block"
    BY <1>2 DEF Means, Names, Ref, ValueAt, Symbol
  <2> HIDE DEF t
  <2> QED BY <1>1, <2>1 DEF Held
<1>6. ASSUME f # 0, x \in BlocksOf(s, f) PROVE Held(s, f, Ref("Block", x), Value("block", f, x))
  <2> DEFINE t == Symbol("block", x)
  <2>1. /\ t \in Symbols(s) /\ Means(s, Ref("Block", x), t)
        /\ ValueAt(f, t) = Value("block", f, x) /\ t.of = x
    BY <1>2 DEF Means, Names, Ref, ValueAt, Symbol
  <2> HIDE DEF t
  <2> QED BY <1>1, <1>6, <2>1 DEF Held
<1> QED BY <1>3, <1>4, <1>5, <1>6

\* A register may hold the value of the symbol it stands for.
LEMMA RegisterHeld ==
    ASSUME NEW s, NEW f \in Nat, NEW r, NEW t, <<r, t>> \in StandsFor(s), t.kind # "block"
    PROVE  Held(s, f, Ref("Register", r), ValueAt(f, t))
<1>1. t \in Symbols(s)
  BY StandsInverted
<1>2. f \in 0 .. f
  OBVIOUS
<1>3. Means(s, Ref("Register", r), t)
  BY DEF Means, Ref
<1> QED BY <1>1, <1>2, <1>3 DEF Held

\* An entry that is written holds the tables.
LEMMA EntryWritten ==
    ASSUME NEW T, NEW S, NEW table \in [S -> T], NEW x \in S, NEW w \in T,
           NEW s, NEW f, NEW tag, TableHolds(s, f, tag, table), Held(s, f, Ref(tag, x), w)
    PROVE  /\ [table EXCEPT ![x] = w] \in [S -> T]
           /\ TableHolds(s, f, tag, [table EXCEPT ![x] = w])
BY DEF TableHolds

\* What an instruction reads are operands it has.
LEMMA ReadsFacts ==
    ASSUME NEW s, IsStorage(s), NEW i \in DOMAIN s.instrs, ArityHolds(s, i)
    PROVE  /\ \E m \in Nat : DOMAIN Reads(s, i) = 1 .. m
           /\ \A n \in DOMAIN Reads(s, i) : Reads(s, i)[n] \in 0 .. Arity(s, i) - 1
<1> DEFINE op == s.instrs[i].op
           n == Arity(s, i)
<1>1. op \in Opcode /\ n \in Nat
  BY InstrRange
<1>2. CASE Reads(s, i) = <<>>
  <2>1. DOMAIN Reads(s, i) = {} /\ 1 .. 0 = {}
    BY <1>2
  <2> QED BY <2>1
<1>3. CASE op \in {"ExtractValue", "Br"} /\ Reads(s, i) = <<0>>
  <2>1. DOMAIN Reads(s, i) = 1 .. 1 /\ Reads(s, i)[1] = 0
    BY <1>3
  <2>2. n >= 1
    <3>1. CASE op = "ExtractValue"
      BY <1>1, <3>1 DEF ArityHolds, Arithmetic, Comparison
    <3>2. CASE op = "Br"
      BY <1>1, <3>2 DEF ArityHolds, Arithmetic, Comparison
    <3> QED BY <1>3, <3>1, <3>2
  <2> HIDE DEF n
  <2>3. \A k \in 1 .. 1 : k = 1
    OBVIOUS
  <2> QED BY <1>1, <2>1, <2>2, <2>3 DEF n
<1>4. CASE op = "InsertValue" /\ Reads(s, i) = <<0, 1>>
  <2>1. DOMAIN Reads(s, i) = 1 .. 2 /\ Reads(s, i)[1] = 0 /\ Reads(s, i)[2] = 1
    BY <1>4
  <2>2. n >= 3
    BY <1>1, <1>4 DEF ArityHolds, Arithmetic, Comparison
  <2> HIDE DEF n
  <2>3. \A k \in 1 .. 2 : k = 1 \/ k = 2
    OBVIOUS
  <2>4. 0 \in 0 .. n - 1 /\ 1 \in 0 .. n - 1
    BY <1>1, <2>2
  <2> QED BY <2>1, <2>3, <2>4 DEF n
<1>5. CASE Reads(s, i) = [k \in 1 .. n |-> k - 1]
  <2>1. DOMAIN Reads(s, i) = 1 .. n /\ \A k \in 1 .. n : Reads(s, i)[k] = k - 1
    BY <1>5
  <2> HIDE DEF n
  <2> QED BY <1>1, <2>1 DEF n
<1>6. \/ Reads(s, i) = <<>>
      \/ op \in {"ExtractValue", "Br"} /\ Reads(s, i) = <<0>>
      \/ op = "InsertValue" /\ Reads(s, i) = <<0, 1>>
      \/ Reads(s, i) = [k \in 1 .. n |-> k - 1]
  <2>1. CASE op \in OnlyForDst /\ Discards(s, i)
    BY <2>1 DEF Reads, OnlyForDst, Arithmetic
  <2>2. CASE op \in {"Noop", "Drop", "Fence", "Unreachable"}
    BY <2>2 DEF Reads, OnlyForDst, Arithmetic
  <2>3. CASE op \in {"ExtractValue", "Br"}
    BY <2>3 DEF Reads, OnlyForDst, Arithmetic
  <2>4. CASE op = "InsertValue"
    BY <2>4 DEF Reads, OnlyForDst, Arithmetic
  <2>5. CASE /\ ~(op \in OnlyForDst /\ Discards(s, i))
             /\ op \notin {"Noop", "Drop", "Fence", "Unreachable", "ExtractValue", "Br", "InsertValue"}
    BY <2>5 DEF Reads
  <2> QED BY <2>1, <2>2, <2>3, <2>4, <2>5
<1> QED BY <1>2, <1>3, <1>4, <1>5, <1>6

\* The operands of an instruction name entries that exist.
LEMMA OperandFits ==
    ASSUME NEW s, IsStorage(s), Verified(s), NEW b \in DOMAIN s.blocks, NEW i \in InstrsOf(s, b),
           NEW k \in 0 .. Arity(s, i) - 1
    PROVE  /\ i \in DOMAIN s.instrs /\ OperandAt(s, i, k).tag \in OperandTag \ {"void"}
           /\ OperandAt(s, i, k).idx \in DOMAIN Table(s, OperandAt(s, i, k).tag)
           /\ OperandAt(s, i, k).idx \in Nat
<1>1. i \in DOMAIN s.instrs
  BY DEF Verified, BlocksFit
<1> DEFINE o == s.instrs[i].operands.head + k
<1>2. o \in Operands(s, i)
  <2> DEFINE r == s.instrs[i].operands
  <2>1. r.head \in Nat \ {0} /\ r.size \in Nat /\ Arity(s, i) = r.size
    BY <1>1, InstrRange, RangeFacts DEF Arity
  <2> HIDE DEF r
  <2>2. r.head + k \in r.head .. r.head + r.size - 1
    BY <2>1
  <2>3. Operands(s, i) = r.head .. r.head + r.size - 1
    BY DEF r, Operands, Slots
  <2> QED BY <2>2, <2>3 DEF r
<1>3. OperandAt(s, i, k) = s.operands[o]
  BY DEF OperandAt
<1> HIDE DEF o
<1>4. /\ o \in DOMAIN s.operands /\ s.operands[o].tag # "void"
      /\ s.operands[o].idx \in DOMAIN Table(s, s.operands[o].tag)
  BY <1>2 DEF Verified, InstrsFit
<1>5. s.operands[o] \in [tag : OperandTag, idx : Nat, type : Nat]
  <2>1. s.operands \in Seq([tag : OperandTag, idx : Nat, type : Nat])
    BY DEF IsStorage
  <2> QED BY <1>4, <2>1, EntryOf
<1> QED BY <1>1, <1>3, <1>4, <1>5

-----------------------------------------------------------------------------
(***************************************************************************)
(* The steps of one instruction.                                           *)
(***************************************************************************)
LEMMA ResolvedHeld ==
    ASSUME NEW s, NEW f, NEW v \in Tables(s), TablesHold(s, f, v), NEW operand,
           resolve_operand_value(v, operand) # Null
    PROVE  /\ resolve_operand_value(v, operand) \in Vals
           /\ Held(s, f, operand, resolve_operand_value(v, operand))
<1> DEFINE w == resolve_operand_value(v, operand)
<1>1. CASE operand.tag = "Register" /\ Has(v.registers, operand.idx)
  <2>1. w = v.registers[operand.idx] /\ operand.idx \in DOMAIN v.registers
    BY <1>1 DEF resolve_operand_value, Has
  <2>2. w \in Vals
    BY <2>1 DEF Tables
  <2>3. Held(s, f, Ref(operand.tag, operand.idx), w)
    BY <1>1, <2>1 DEF TablesHold, TableHolds
  <2> QED BY <2>2, <2>3, HeldByRef
<1>2. CASE operand.tag = "Block" /\ Has(v.blocks, operand.idx)
  <2>1. w = v.blocks[operand.idx] /\ operand.idx \in DOMAIN v.blocks
    BY <1>2 DEF resolve_operand_value, Has
  <2>2. w \in Vals
    BY <2>1 DEF Tables
  <2>3. Held(s, f, Ref(operand.tag, operand.idx), w)
    BY <1>2, <2>1 DEF TablesHold, TableHolds
  <2> QED BY <2>2, <2>3, HeldByRef
<1>3. CASE operand.tag = "Immutable" /\ Has(v.immutables, operand.idx)
  <2>1. w = v.immutables[operand.idx] /\ operand.idx \in DOMAIN v.immutables
    BY <1>3 DEF resolve_operand_value, Has
  <2>2. w \in Vals
    BY <2>1 DEF Tables
  <2>3. Held(s, f, Ref(operand.tag, operand.idx), w)
    BY <1>3, <2>1 DEF TablesHold, TableHolds
  <2> QED BY <2>2, <2>3, HeldByRef
<1> QED BY <1>1, <1>2, <1>3 DEF resolve_operand_value

\* The callee that was resolved is the one that the operand names.
LEMMA CalleeHeld ==
    ASSUME NEW s, NEW f, NEW v \in Tables(s), TablesHold(s, f, v), NEW operand,
           operand.tag \in {"Function", "External"},
           operand.idx \in DOMAIN Table(s, operand.tag),
           resolve_operand_function(v, operand) # Null
    PROVE  /\ resolve_operand_function(v, operand) \in Vals
           /\ Held(s, f, operand, resolve_operand_function(v, operand))
<1> DEFINE w == resolve_operand_function(v, operand)
<1>1. CASE operand.tag = "Function"
  <2>1. w = v.functions[operand.idx] /\ operand.idx \in DOMAIN v.functions
    BY <1>1 DEF resolve_operand_function, Table, Tables
  <2>2. w \in Vals
    BY <2>1 DEF Tables
  <2>3. Held(s, f, Ref(operand.tag, operand.idx), w)
    BY <1>1, <2>1 DEF TablesHold, TableHolds
  <2> QED BY <2>2, <2>3, HeldByRef
<1>2. CASE operand.tag = "External"
  <2>1. w = v.externals[operand.idx] /\ operand.idx \in DOMAIN v.externals
    BY <1>2 DEF resolve_operand_function, Table, Tables
  <2>2. w \in Vals
    BY <2>1 DEF Tables
  <2>3. Held(s, f, Ref(operand.tag, operand.idx), w)
    BY <1>2, <2>1 DEF TablesHold, TableHolds
  <2> QED BY <2>2, <2>3, HeldByRef
<1> QED BY <1>1, <1>2

\* What is used is there, and is what the operand means.
LEMMA ArgumentsHeld ==
    ASSUME NEW s, IsStorage(s), Verified(s), NEW f, NEW v \in Tables(s), TablesHold(s, f, v),
           NEW b \in DOMAIN s.blocks, NEW i \in InstrsOf(s, b), CanEmit(s, v, b, i)
    PROVE  /\ Arguments(s, v, i) \in Seq(Vals) /\ DOMAIN Arguments(s, v, i) = DOMAIN Reads(s, i)
           /\ \A k \in DOMAIN Reads(s, i) :
                  Held(s, f, OperandAt(s, i, Reads(s, i)[k]), Arguments(s, v, i)[k])
<1>1. i \in DOMAIN s.instrs /\ ArityHolds(s, i)
  BY DEF CanEmit, Verified, BlocksFit
<1>2. PICK m \in Nat : DOMAIN Reads(s, i) = 1 .. m
  BY <1>1, ReadsFacts
<1>3. ASSUME NEW k \in DOMAIN Reads(s, i)
      PROVE  /\ Resolve(s, v, i, Reads(s, i)[k]) \in Vals
             /\ Held(s, f, OperandAt(s, i, Reads(s, i)[k]), Resolve(s, v, i, Reads(s, i)[k]))
  <2> DEFINE o == Reads(s, i)[k]
             operand == OperandAt(s, i, o)
  <2>1. o \in 0 .. Arity(s, i) - 1
    BY <1>1, ReadsFacts
  <2>2. Resolve(s, v, i, o) # Null
    BY DEF CanEmit, Arguments
  <2>3. CASE s.instrs[i].op = "Call" /\ o = 0
    <3>1. ShapeError(s, i) = Ok
      BY DEF Verified, InstrsFit
    <3>2. CallShape(s, i)
      BY <2>3, <3>1 DEF ShapeError, Unless, Ok
    <3>3. operand.tag \in {"Function", "External"}
      BY <2>3, <3>2 DEF CallShape
    <3>4. operand.idx \in DOMAIN Table(s, operand.tag)
      BY <2>1, OperandFits
    <3>5. Resolve(s, v, i, o) = resolve_operand_function(v, operand)
      BY <2>3 DEF Resolve
    <3> HIDE DEF operand
    <3> QED BY <2>2, <3>3, <3>4, <3>5, CalleeHeld DEF operand
  <2>4. CASE ~(s.instrs[i].op = "Call" /\ o = 0)
    <3>1. Resolve(s, v, i, o) = resolve_operand_value(v, operand)
      BY <2>4 DEF Resolve
    <3> HIDE DEF operand
    <3> QED BY <2>2, <3>1, ResolvedHeld DEF operand
  <2> QED BY <2>3, <2>4
<1>4. Arguments(s, v, i) = [k \in 1 .. m |-> Resolve(s, v, i, Reads(s, i)[k])]
  BY <1>2 DEF Arguments
<1>5. Arguments(s, v, i) \in Seq(Vals)
  <2>1. Arguments(s, v, i) = [k \in 1 .. m |-> Arguments(s, v, i)[k]]
    BY <1>4
  <2>2. DOMAIN Arguments(s, v, i) = 1 .. m /\ \A k \in 1 .. m : Arguments(s, v, i)[k] \in Vals
    BY <1>2, <1>3, <1>4
  <2> QED BY <2>1, <2>2, MapFacts
<1> QED BY <1>2, <1>3, <1>4, <1>5

\* An alias means what it copies, and any other destination its instruction.
LEMMA BoundHeld ==
    ASSUME NEW s, IsStorage(s), Verified(s), NEW f \in Nat, NEW v \in Tables(s),
           TablesHold(s, f, v), NEW b \in DOMAIN s.blocks, NEW i \in InstrsOf(s, b),
           CanEmit(s, v, b, i), Binds(s, i)
    PROVE  /\ Bound(s, v, f, i) \in Vals
           /\ Held(s, f, Ref("Register", s.instrs[i].dst), Bound(s, v, f, i))
<1> DEFINE r == s.instrs[i].dst
<1>1. CASE IsAlias(s, i)
  <2>1. \/ Reads(s, i) = <<0>>
        \/ Reads(s, i) = [k \in 1 .. Arity(s, i) |-> k - 1] /\ Arity(s, i) = 1
    <3>1. s.instrs[i].op \in {"Move", "TypeCast"} /\ ~Discards(s, i)
      BY <1>1 DEF IsAlias, Binds
    <3>2. Arity(s, i) = 1
      BY <3>1 DEF CanEmit, ArityHolds, Arithmetic, Comparison
    <3> QED BY <3>1, <3>2 DEF Reads
  <2>2. 1 \in DOMAIN Reads(s, i) /\ Reads(s, i)[1] = 0
    BY <2>1
  <2>3. Bound(s, v, f, i) = Arguments(s, v, i)[1]
    BY <1>1, <2>2 DEF Bound, Arguments
  <2>4. /\ Bound(s, v, f, i) \in Vals
        /\ Held(s, f, OperandAt(s, i, 0), Bound(s, v, f, i))
    <3>1. Arguments(s, v, i) \in Seq(Vals) /\ 1 \in DOMAIN Arguments(s, v, i)
      BY <2>2, ArgumentsHeld
    <3> QED BY <2>2, <2>3, <3>1, ArgumentsHeld, EntryOf
  <2>5. \A t : Means(s, OperandAt(s, i, 0), t) => Means(s, Ref("Register", r), t)
    BY <1>1, DstStands DEF Means, Ref
  <2> QED BY <2>4, <2>5 DEF Held
<1>2. CASE ~IsAlias(s, i)
  <2> DEFINE t == Symbol("instr", i)
  <2>1. <<r, t>> \in StandsFor(s)
    BY <1>2, DstStands
  <2>2. Bound(s, v, f, i) = ValueAt(f, t) /\ t.kind # "block"
    BY <1>2 DEF Bound, ValueAt, Symbol
  <2>3. Bound(s, v, f, i) \in Vals
    <3>1. i \in Nat
      BY BlockSlots
    <3> QED BY <1>2, <3>1 DEF Bound, Vals, Value
  <2> HIDE DEF t
  <2> QED BY <2>1, <2>2, <2>3, RegisterHeld
<1> QED BY <1>1, <1>2

\* Writing the destination keeps the tables, the blocks and the phi nodes.
LEMMA WithDstFacts ==
    ASSUME NEW s, IsStorage(s), Verified(s), NEW f \in Nat, NEW v \in Tables(s),
           TablesHold(s, f, v), NEW b \in DOMAIN s.blocks, NEW i \in InstrsOf(s, b),
           CanEmit(s, v, b, i)
    PROVE  /\ WithDst(s, v, f, i) \in Tables(s) /\ TablesHold(s, f, WithDst(s, v, f, i))
           /\ WithDst(s, v, f, i).blocks = v.blocks
           /\ \A c \in DOMAIN s.blocks : \A p \in ParamsOf(s, c) :
                  WithDst(s, v, f, i).registers[s.params[p].reg] = v.registers[s.params[p].reg]
<1> DEFINE r == s.instrs[i].dst
           w == Bound(s, v, f, i)
           table == [v.registers EXCEPT ![r] = w]
           u == WithDst(s, v, f, i)
<1>1. CASE ~Binds(s, i)
  BY <1>1 DEF WithDst
<1>2. CASE Binds(s, i)
  <2>1. /\ r \in DOMAIN s.registers
        /\ \A c \in DOMAIN s.blocks : \A p \in ParamsOf(s, c) : s.params[p].reg # r
    BY <1>2, DstStands
  <2>2. w \in Vals /\ Held(s, f, Ref("Register", r), w)
    BY <1>2, BoundHeld
  <2>3. /\ v.registers \in [DOMAIN s.registers -> Vals] /\ v.allocas \in [DOMAIN s.registers -> Vals]
        /\ v.functions \in [DOMAIN s.functions -> Vals] /\ v.blocks \in [DOMAIN s.blocks -> Vals]
        /\ v.immutables \in [DOMAIN s.immutables -> Vals]
        /\ v.externals \in [DOMAIN s.externals -> Vals]
    BY DEF Tables
  <2>4. /\ u.registers = table /\ u.functions = v.functions /\ u.blocks = v.blocks
        /\ u.immutables = v.immutables /\ u.externals = v.externals
        /\ u.allocas \in {v.allocas, [v.allocas EXCEPT ![r] = Value("instr", f, i)]}
        /\ u = [functions |-> u.functions, registers |-> u.registers, blocks |-> u.blocks,
               immutables |-> u.immutables, externals |-> u.externals, allocas |-> u.allocas]
    BY <1>2 DEF WithDst, Tables
  <2>5. Value("instr", f, i) \in Vals
    <3>1. i \in Nat
      BY BlockSlots
    <3> QED BY <3>1 DEF Vals, Value
  <2>6. u.allocas \in [DOMAIN s.registers -> Vals]
    BY <2>3, <2>4, <2>5
  <2>7. table \in [DOMAIN s.registers -> Vals] /\ TableHolds(s, f, "Register", table)
    BY <2>1, <2>2, <2>3, EntryWritten DEF TablesHold
  <2>8. u \in Tables(s)
    <3> HIDE DEF u, table
    <3> QED BY <2>3, <2>4, <2>6, <2>7 DEF Tables
  <2>9. TablesHold(s, f, u)
    <3> HIDE DEF u, table
    <3> QED BY <2>4, <2>7 DEF TablesHold
  <2>10. ASSUME NEW c \in DOMAIN s.blocks, NEW p \in ParamsOf(s, c)
         PROVE  u.registers[s.params[p].reg] = v.registers[s.params[p].reg]
    <3>1. s.params[p].reg \in DOMAIN v.registers /\ s.params[p].reg # r
      BY <2>1, <2>3 DEF Verified, BlocksFit
    <3> HIDE DEF u
    <3> QED BY <2>4, <3>1
  <2> QED BY <2>4, <2>8, <2>9, <2>10
<1> QED BY <1>1, <1>2

-----------------------------------------------------------------------------
(***************************************************************************)
(* The machine.                                                            *)
(***************************************************************************)
LEMMA StorageFacts ==
    ASSUME TypeOK
    PROVE  /\ IsStorage(storage) /\ fn \in Nat
           /\ DOMAIN storage.functions = 1 .. Len(storage.functions) /\ Len(storage.functions) \in Nat
<1>1. IsStorage(storage)
  BY StoragesAssumption DEF TypeOK
<1>2. DOMAIN storage.functions = 1 .. Len(storage.functions) /\ Len(storage.functions) \in Nat
  BY <1>1, LenProperties DEF IsStorage
<1> QED BY <1>1, <1>2 DEF TypeOK

\* In the loop over the functions.
LEMMA FunctionFacts ==
    ASSUME TypeOK, Flow, phase \in {"function", "blocks", "phis", "code"}
    PROVE  /\ Verified(storage) /\ fn \in DOMAIN storage.functions
           /\ BlocksOf(storage, fn) \subseteq DOMAIN storage.blocks
<1>1. Verified(storage) /\ fn # 0
  BY DEF Flow
<1>2. fn \in DOMAIN storage.functions
  BY <1>1, StorageFacts DEF TypeOK
<1> QED BY <1>1, <1>2 DEF Verified, FunctionsFit

\* The emitter starts with empty tables.
LEMMA EmptyTables ==
    ASSUME NEW s, IsStorage(s)
    PROVE  NoValues(s) \in Tables(s) /\ TablesHold(s, 0, NoValues(s))
<1>1. Null \in Vals
  BY DEF Null, Value, Vals
<1>2. \A table : Empty(table) \in [DOMAIN table -> Vals] /\ \A x \in DOMAIN table : Empty(table)[x] = Null
  BY <1>1 DEF Empty
<1>3. NoValues(s) \in Tables(s)
  BY <1>2 DEF NoValues, Tables
<1>4. \A tag, table : TableHolds(s, 0, tag, Empty(table))
  BY <1>2 DEF TableHolds, Empty
<1> QED BY <1>3, <1>4 DEF TablesHold, NoValues

\* The emitter starts in the invariant.
LEMMA InitInv == Init => Inv
<1> SUFFICES ASSUME Init PROVE Inv
  OBVIOUS
<1>1. IsStorage(storage)
  BY StoragesAssumption DEF Init
<1>2. DOMAIN storage.functions = 1 .. Len(storage.functions) /\ Len(storage.functions) \in Nat
  BY <1>1, LenProperties DEF IsStorage
<1>3. TypeOK /\ TablesHold(storage, fn, values)
  <2>1. values \in Tables(storage) /\ TablesHold(storage, 0, values)
    BY <1>1, EmptyTables DEF Init
  <2>2. IsFiniteSet({}) /\ <<>> \in Seq(LlvmInstr)
    BY FS_EmptySet
  <2> QED BY <1>2, <2>1, <2>2 DEF Init, TypeOK
<1>4. Flow /\ Work /\ BlocksDeclared /\ PhisCreated
  BY DEF Init, Flow, Work, BlocksDeclared, PhisCreated
<1>5. DOMAIN code = {} /\ incoming = {}
  BY DEF Init
<1>6. Emitted = {} /\ \A f, b, i : f \in DOMAIN storage.functions => ~Passed(f, b, i)
  BY <1>2 DEF Init, Emitted, Passed
<1>7. CodeIs /\ CodeSorted /\ CodeBehind
  BY <1>5 DEF CodeIs, CodeSorted, CodeBehind
<1>8. CodeComplete
  BY <1>6 DEF CodeComplete
<1>9. EdgesFit /\ EmittedExact
  BY <1>5 DEF EdgesFit, EmittedExact
<1> QED BY <1>3, <1>4, <1>7, <1>8, <1>9 DEF Inv

\* A step that creates no code and finishes no function.
LEMMA CodeKept ==
    ASSUME Inv, UNCHANGED <<storage, code, incoming>>, fn' \in Nat, fn <= fn',
           Emitted' \subseteq Emitted,
           \A f \in DOMAIN storage.functions : \A b \in BlocksOf(storage, f) :
               \A i \in InstrsOf(storage, b) : Passed(f, b, i)' => Passed(f, b, i)
    PROVE  CodeIs' /\ CodeSorted' /\ CodeComplete' /\ EdgesFit' /\ EmittedExact'
<1>1. storage' = storage /\ code' = code /\ incoming' = incoming
  OBVIOUS
<1>2. CodeIs'
  <2>1. \A n \in DOMAIN code : CodeFits(storage, code[n]) /\ code[n].fn <= fn
    BY DEF Inv, CodeIs
  <2>2. \A n \in DOMAIN code : code[n].fn \in Nat
    <3>1. code \in Seq(LlvmInstr)
      BY DEF Inv, TypeOK
    <3>2. \A n \in DOMAIN code : code[n] \in LlvmInstr
      BY <3>1, EntryOf
    <3> QED BY <3>2 DEF LlvmInstr
  <2>3. fn \in Nat
    BY StorageFacts DEF Inv
  <2>4. \A n \in DOMAIN code : code[n].fn <= fn'
    BY <2>1, <2>2, <2>3
  <2> QED BY <1>1, <2>1, <2>4 DEF CodeIs
<1>3. CodeSorted'
  BY <1>1 DEF Inv, CodeSorted
<1>4. CodeComplete'
  <2> SUFFICES ASSUME NEW f \in DOMAIN storage.functions, NEW b \in BlocksOf(storage, f),
                      NEW i \in InstrsOf(storage, b), Passed(f, b, i)', Emits(storage, i)
               PROVE  Created(f, b, i)'
    BY <1>1 DEF CodeComplete
  <2>1. Created(f, b, i)
    BY DEF Inv, CodeComplete
  <2> QED BY <1>1, <2>1 DEF Created
<1>5. EdgesFit'
  BY <1>1 DEF Inv, EdgesFit
<1>6. EmittedExact'
  BY <1>1 DEF Inv, EmittedExact
<1> QED BY <1>2, <1>3, <1>4, <1>5, <1>6

\* The emitter stops, or returns.
LEMMA EndKeeps ==
    ASSUME Inv, phase' = "done", UNCHANGED <<storage, fn, values, code, incoming>>,
           \/ outcome' \in {"rejected", "stopped"}
           \/ outcome' = "emitted" /\ phase = "functions" /\ fn = Len(storage.functions)
    PROVE  Inv'
<1>1. /\ storage' = storage /\ fn' = fn /\ values' = values /\ code' = code
      /\ incoming' = incoming /\ phase' = "done"
  OBVIOUS
<1>2. TypeOK'
  BY <1>1 DEF Inv, TypeOK
<1>3. Flow'
  BY <1>1 DEF Inv, Flow
<1>4. Work' /\ BlocksDeclared' /\ PhisCreated' /\ CodeBehind'
  BY <1>1 DEF Work, BlocksDeclared, PhisCreated, CodeBehind
<1>5. TablesHold(storage, fn, values)'
  BY <1>1 DEF Inv
<1>6. Emitted' \subseteq Emitted
  BY <1>1 DEF Emitted
<1>7. \A f \in DOMAIN storage.functions : \A b, i : Passed(f, b, i)' => Passed(f, b, i)
  BY <1>1, <1>6 DEF Passed
<1>8. fn' \in Nat /\ fn <= fn'
  BY <1>1, StorageFacts DEF Inv
<1>9. CodeIs' /\ CodeSorted' /\ CodeComplete' /\ EdgesFit' /\ EmittedExact'
  BY <1>1, <1>6, <1>7, <1>8, CodeKept
<1> QED BY <1>2, <1>3, <1>4, <1>5, <1>9 DEF Inv

\* A step that changes nothing keeps it.
LEMMA StutterKeeps ==
    ASSUME Inv, UNCHANGED vars
    PROVE  Inv'
<1>1. /\ storage' = storage /\ fn' = fn /\ values' = values /\ code' = code
      /\ incoming' = incoming /\ phase' = phase /\ todo' = todo /\ outcome' = outcome
  BY DEF vars
<1>2. Emitted' = Emitted
  BY <1>1 DEF Emitted
<1>3. \A f, b, i : Passed(f, b, i)' => Passed(f, b, i)
  BY <1>1, <1>2 DEF Passed
<1>4. TypeOK' /\ Flow' /\ Work' /\ BlocksDeclared' /\ PhisCreated' /\ CodeBehind'
  BY <1>1 DEF Inv, TypeOK, Flow, Work, BlocksDeclared, PhisCreated, CodeBehind
<1>5. TablesHold(storage, fn, values)'
  BY <1>1 DEF Inv
<1>6. fn' \in Nat /\ fn <= fn'
  BY <1>1, StorageFacts DEF Inv
<1>7. CodeIs' /\ CodeSorted' /\ CodeComplete' /\ EdgesFit' /\ EmittedExact'
  BY <1>1, <1>2, <1>3, <1>6, CodeKept
<1> QED BY <1>4, <1>5, <1>7 DEF Inv

\* The work of a loop over one whole table.
LEMMA IndexList ==
    ASSUME NEW T, NEW table \in Seq(T)
    PROVE  /\ [x \in DOMAIN table |-> x] \in Seq(Nat)
           /\ Entries([x \in DOMAIN table |-> x]) = DOMAIN table
<1> DEFINE q == [x \in DOMAIN table |-> x]
<1>1. DOMAIN table = 1 .. Len(table) /\ Len(table) \in Nat
  BY LenProperties
<1>2. DOMAIN q = DOMAIN table /\ \A x \in DOMAIN q : q[x] = x
  OBVIOUS
<1>3. q \in Seq(Nat)
  <2>1. q = [x \in 1 .. Len(table) |-> q[x]]
    BY <1>1
  <2> HIDE DEF q
  <2>2. \A x \in 1 .. Len(table) : q[x] \in Nat
    BY <1>1, <1>2
  <2> QED BY <1>1, <1>2, <2>1, <2>2, MapFacts
<1> QED BY <1>2, <1>3 DEF Entries

\* The next index of such a loop.
LEMMA TakeAny ==
    ASSUME NEW q \in Seq(Nat), q # <<>>
    PROVE  /\ Head(q) \in Entries(q) /\ Tail(q) \in Seq(Nat)
           /\ Entries(q) = {Head(q)} \cup Entries(Tail(q))
<1> DEFINE R == Nat \X Nat
<1>1. \A n \in DOMAIN q : q[n] \in Nat
  BY EntryOf
<1>2. Sorted(q, R)
  BY <1>1 DEF Sorted
<1> HIDE DEF R
<1> QED BY <1>2, TakeFirst

\* An iteration that writes an entry of values_, and leaves the code alone.
LEMMA WritingKeepsCode ==
    ASSUME Inv, UNCHANGED <<storage, fn, code, incoming, outcome>>,
           phase \in {"immutables", "externals", "function", "blocks", "phis"},
           phase' \in {"immutables", "externals", "function", "blocks", "phis"}
    PROVE  CodeIs' /\ CodeSorted' /\ CodeComplete' /\ EdgesFit' /\ EmittedExact'
<1>1. /\ storage' = storage /\ fn' = fn /\ outcome' = outcome
      /\ phase # "functions" /\ phase' # "functions" /\ phase' # "code"
  OBVIOUS
<1>2. Emitted' = Emitted
  BY <1>1 DEF Emitted
<1>3. \A f, b, i : Passed(f, b, i)' => Passed(f, b, i)
  BY <1>1, <1>2 DEF Passed
<1>4. fn' \in Nat /\ fn <= fn'
  BY <1>1, StorageFacts DEF Inv
<1> QED BY <1>1, <1>2, <1>3, <1>4, CodeKept

\* Verification lets only a storage that verifies reach the other loops.
LEMMA VerifyKeeps == Inv /\ Verify => Inv'
<1> SUFFICES ASSUME Inv, Verify PROVE Inv'
  OBVIOUS
<1>1. CASE VerifyStorage(storage) # Ok
  <2>1. /\ phase' = "done" /\ outcome' = "rejected"
        /\ UNCHANGED <<storage, fn, values, code, incoming>>
    BY <1>1 DEF Verify
  <2> QED BY <2>1, EndKeeps
<1>2. CASE VerifyStorage(storage) = Ok
  <2>1. /\ phase = "verify" /\ phase' = "immutables" /\ storage' = storage /\ fn' = fn
        /\ values' = values /\ code' = code /\ incoming' = incoming /\ outcome' = outcome
        /\ todo' = [m \in DOMAIN storage.immutables |-> m]
    BY <1>2 DEF Verify
  <2>2. fn = 0 /\ IsStorage(storage) /\ Verified(storage)
    BY <1>2, <2>1, StorageFacts, VerifiedIfOk DEF Inv, Flow
  <2>3. TypeOK' /\ TablesHold(storage, fn, values)'
    BY <2>1 DEF Inv, TypeOK
  <2>4. Flow' /\ BlocksDeclared' /\ PhisCreated' /\ CodeBehind'
    BY <2>1, <2>2 DEF Inv, Flow, BlocksDeclared, PhisCreated, CodeBehind
  <2>5. Work'
    <3>1. storage.immutables \in Seq(Nat)
      BY <2>2 DEF IsStorage
    <3>2. todo' \in Seq(Nat) /\ Entries(todo') = DOMAIN storage.immutables
      BY <2>1, <3>1, IndexList
    <3> QED BY <2>1, <3>2 DEF Work
  <2>6. Emitted' = {}
    BY <2>1, <2>2, StorageFacts DEF Inv, Emitted
  <2>7. \A f \in DOMAIN storage.functions : \A b, i : ~Passed(f, b, i)'
    BY <2>1, <2>6 DEF Passed
  <2>8. CodeIs' /\ CodeSorted' /\ CodeComplete' /\ EdgesFit' /\ EmittedExact'
    BY <2>1, <2>2, <2>6, <2>7, CodeKept
  <2> QED BY <2>3, <2>4, <2>5, <2>8 DEF Inv
<1> QED BY <1>1, <1>2

\* A constant is what its operand means.
LEMMA SetupImmutableKeeps == Inv /\ SetupImmutable => Inv'
<1> SUFFICES ASSUME Inv, SetupImmutable PROVE Inv'
  OBVIOUS
<1> DEFINE x == Head(todo)
<1>1. CASE ~ImmutableLowers(storage, x)
  <2>1. Stop
    BY <1>1 DEF SetupImmutable
  <2> QED BY <2>1, EndKeeps DEF Stop
<1>2. CASE ImmutableLowers(storage, x)
  <2>1. /\ phase = "immutables" /\ phase' = phase /\ storage' = storage /\ fn' = fn
        /\ todo # <<>> /\ todo' = Tail(todo) /\ code' = code /\ incoming' = incoming
        /\ outcome' = outcome
        /\ values' = [values EXCEPT !["immutables"][x] = Value("const", 0, x)]
    BY <1>2 DEF SetupImmutable, Write, Doing
  <2>2. fn = 0 /\ IsStorage(storage)
    BY <2>1, StorageFacts DEF Inv, Flow
  <2>3. /\ todo' \in Seq(Nat) /\ Entries(todo') \subseteq DOMAIN storage.immutables
        /\ x \in DOMAIN storage.immutables /\ x \in Nat
    <3>1. todo \in Seq(Nat) /\ Entries(todo) \subseteq DOMAIN storage.immutables
      BY <2>1 DEF Inv, Work
    <3>2. DOMAIN storage.immutables \in SUBSET Nat
      BY <2>2, TableIndexes
    <3> QED BY <2>1, <3>1, <3>2, TakeAny
  <2>4. Work'
    BY <2>1, <2>3 DEF Work
  <2> HIDE DEF x
  <2> DEFINE table == [values.immutables EXCEPT ![x] = Value("const", 0, x)]
  <2>5. table \in [DOMAIN storage.immutables -> Vals] /\ TableHolds(storage, fn, "Immutable", table)
    <3>1. values.immutables \in [DOMAIN storage.immutables -> Vals]
      BY DEF Inv, TypeOK, Tables
    <3>2. TableHolds(storage, fn, "Immutable", values.immutables)
      BY DEF Inv, TablesHold
    <3>3. Value("const", 0, x) \in Vals
      BY <2>3 DEF Vals, Value
    <3>4. Held(storage, fn, Ref("Immutable", x), Value("const", 0, x))
      BY <2>2, <2>3, NamedHeld
    <3> QED BY <2>3, <3>1, <3>2, <3>3, <3>4, EntryWritten
  <2>6. /\ values' = [values EXCEPT !.immutables = table]
        /\ values' \in Tables(storage) /\ TablesHold(storage, fn, values')
    <3>1. values \in Tables(storage) /\ TablesHold(storage, fn, values)
      BY DEF Inv, TypeOK
    <3>2. values' = [values EXCEPT !.immutables = table]
      BY <2>1, <3>1 DEF Tables
    <3> HIDE DEF table
    <3> QED BY <2>5, <3>1, <3>2 DEF Tables, TablesHold
  <2>7. TypeOK' /\ TablesHold(storage, fn, values)'
    BY <2>1, <2>6 DEF Inv, TypeOK
  <2>8. Flow' /\ BlocksDeclared' /\ PhisCreated' /\ CodeBehind'
    BY <2>1, <2>2 DEF Inv, Flow, BlocksDeclared, PhisCreated, CodeBehind
  <2>9. CodeIs' /\ CodeSorted' /\ CodeComplete' /\ EdgesFit' /\ EmittedExact'
    BY <2>1, WritingKeepsCode
  <2> QED BY <2>4, <2>7, <2>8, <2>9 DEF Inv
<1> QED BY <1>1, <1>2

\* An external is what its operand means.
LEMMA SetupExternalKeeps == Inv /\ SetupExternal => Inv'
<1> SUFFICES ASSUME Inv, SetupExternal PROVE Inv'
  OBVIOUS
<1> DEFINE x == Head(todo)
<1>1. CASE ~SignatureLowers(storage, storage.externals[x])
  <2>1. Stop
    BY <1>1 DEF SetupExternal
  <2> QED BY <2>1, EndKeeps DEF Stop
<1>2. CASE SignatureLowers(storage, storage.externals[x])
  <2>1. /\ phase = "externals" /\ phase' = phase /\ storage' = storage /\ fn' = fn
        /\ todo # <<>> /\ todo' = Tail(todo) /\ code' = code /\ incoming' = incoming
        /\ outcome' = outcome
        /\ values' = [values EXCEPT !["externals"][x] = Value("external", 0, x)]
    BY <1>2 DEF SetupExternal, Write, Doing
  <2>2. fn = 0 /\ IsStorage(storage)
    BY <2>1, StorageFacts DEF Inv, Flow
  <2>3. /\ todo' \in Seq(Nat) /\ Entries(todo') \subseteq DOMAIN storage.externals
        /\ x \in DOMAIN storage.externals /\ x \in Nat
    <3>1. todo \in Seq(Nat) /\ Entries(todo) \subseteq DOMAIN storage.externals
      BY <2>1 DEF Inv, Work
    <3>2. DOMAIN storage.externals \in SUBSET Nat
      BY <2>2, TableIndexes
    <3> QED BY <2>1, <3>1, <3>2, TakeAny
  <2>4. Work'
    BY <2>1, <2>3 DEF Work
  <2> HIDE DEF x
  <2> DEFINE table == [values.externals EXCEPT ![x] = Value("external", 0, x)]
  <2>5. table \in [DOMAIN storage.externals -> Vals] /\ TableHolds(storage, fn, "External", table)
    <3>1. values.externals \in [DOMAIN storage.externals -> Vals]
      BY DEF Inv, TypeOK, Tables
    <3>2. TableHolds(storage, fn, "External", values.externals)
      BY DEF Inv, TablesHold
    <3>3. Value("external", 0, x) \in Vals
      BY <2>3 DEF Vals, Value
    <3>4. Held(storage, fn, Ref("External", x), Value("external", 0, x))
      BY <2>2, <2>3, NamedHeld
    <3> QED BY <2>3, <3>1, <3>2, <3>3, <3>4, EntryWritten
  <2>6. /\ values' = [values EXCEPT !.externals = table]
        /\ values' \in Tables(storage) /\ TablesHold(storage, fn, values')
    <3>1. values \in Tables(storage) /\ TablesHold(storage, fn, values)
      BY DEF Inv, TypeOK
    <3>2. values' = [values EXCEPT !.externals = table]
      BY <2>1, <3>1 DEF Tables
    <3> HIDE DEF table
    <3> QED BY <2>5, <3>1, <3>2 DEF Tables, TablesHold
  <2>7. TypeOK' /\ TablesHold(storage, fn, values)'
    BY <2>1, <2>6 DEF Inv, TypeOK
  <2>8. Flow' /\ BlocksDeclared' /\ PhisCreated' /\ CodeBehind'
    BY <2>1, <2>2 DEF Inv, Flow, BlocksDeclared, PhisCreated, CodeBehind
  <2>9. CodeIs' /\ CodeSorted' /\ CodeComplete' /\ EdgesFit' /\ EmittedExact'
    BY <2>1, WritingKeepsCode
  <2> QED BY <2>4, <2>7, <2>8, <2>9 DEF Inv
<1> QED BY <1>1, <1>2

\* A function is what its operand means.
LEMMA CreateFunctionKeeps == Inv /\ CreateFunction => Inv'
<1> SUFFICES ASSUME Inv, CreateFunction PROVE Inv'
  OBVIOUS
<1>1. CASE ~SignatureLowers(storage, storage.functions[fn])
  <2>1. Stop
    BY <1>1 DEF CreateFunction
  <2> QED BY <2>1, EndKeeps DEF Stop
<1>2. CASE SignatureLowers(storage, storage.functions[fn])
  <2> DEFINE table == [values.functions EXCEPT ![fn] = Value("function", 0, fn)]
  <2>1. /\ phase = "function" /\ phase' = "blocks" /\ storage' = storage /\ fn' = fn
        /\ todo' = Run(storage.functions[fn].blocks) /\ code' = code /\ incoming' = incoming
        /\ outcome' = outcome
        /\ values' = [values EXCEPT !.functions[fn] = Value("function", 0, fn)]
    BY <1>2 DEF CreateFunction
  <2>2. /\ Verified(storage) /\ fn \in DOMAIN storage.functions /\ fn \in Nat /\ fn # 0
        /\ IsStorage(storage)
    BY <2>1, FunctionFacts, StorageFacts DEF Inv, Flow
  <2>3. todo' \in Seq(Nat) /\ Entries(todo') = BlocksOf(storage, fn)
    BY <2>1, <2>2, FunctionRanges, RunFacts DEF BlocksOf
  <2>4. Work' /\ BlocksDeclared'
    BY <2>1, <2>3 DEF Work, BlocksDeclared
  <2>5. table \in [DOMAIN storage.functions -> Vals] /\ TableHolds(storage, fn, "Function", table)
    <3>1. values.functions \in [DOMAIN storage.functions -> Vals]
      BY DEF Inv, TypeOK, Tables
    <3>2. TableHolds(storage, fn, "Function", values.functions)
      BY DEF Inv, TablesHold
    <3>3. Value("function", 0, fn) \in Vals
      BY <2>2 DEF Vals, Value
    <3>4. Held(storage, fn, Ref("Function", fn), Value("function", 0, fn))
      BY <2>2, NamedHeld
    <3> QED BY <2>2, <3>1, <3>2, <3>3, <3>4, EntryWritten
  <2>6. values' \in Tables(storage) /\ TablesHold(storage, fn, values')
    <3>1. values \in Tables(storage) /\ TablesHold(storage, fn, values)
      BY DEF Inv, TypeOK
    <3>2. values' = [values EXCEPT !.functions = table]
      BY <2>1, <3>1 DEF Tables
    <3> HIDE DEF table
    <3> QED BY <2>5, <3>1, <3>2 DEF Tables, TablesHold
  <2>7. TypeOK' /\ TablesHold(storage, fn, values)'
    BY <2>1, <2>6 DEF Inv, TypeOK
  <2>8. Flow' /\ PhisCreated' /\ CodeBehind'
    BY <2>1, <2>2 DEF Inv, Flow, PhisCreated, CodeBehind
  <2>9. CodeIs' /\ CodeSorted' /\ CodeComplete' /\ EdgesFit' /\ EmittedExact'
    BY <2>1, WritingKeepsCode
  <2> QED BY <2>4, <2>7, <2>8, <2>9 DEF Inv
<1> QED BY <1>1, <1>2

\* A block is declared for the function that is emitted.
LEMMA DeclareBlockKeeps == Inv /\ DeclareBlock => Inv'
<1> SUFFICES ASSUME Inv, DeclareBlock PROVE Inv'
  OBVIOUS
<1> DEFINE x == Head(todo)
           table == [values.blocks EXCEPT ![x] = Value("block", fn, x)]
<1>1. /\ phase = "blocks" /\ phase' = phase /\ storage' = storage /\ fn' = fn
      /\ todo # <<>> /\ todo' = Tail(todo) /\ code' = code /\ incoming' = incoming
      /\ outcome' = outcome
      /\ values' = [values EXCEPT !["blocks"][x] = Value("block", fn, x)]
  BY DEF DeclareBlock, Write, Doing
<1>2. /\ Verified(storage) /\ fn \in DOMAIN storage.functions /\ fn \in Nat /\ fn # 0
      /\ IsStorage(storage) /\ BlocksOf(storage, fn) \subseteq DOMAIN storage.blocks
  BY <1>1, FunctionFacts, StorageFacts DEF Inv, Flow
<1>3. /\ todo' \in Seq(Nat) /\ Entries(todo') \subseteq BlocksOf(storage, fn)
      /\ x \in BlocksOf(storage, fn) /\ x \in Nat /\ Entries(todo) = {x} \cup Entries(todo')
  <2>1. todo \in Seq(Nat) /\ Entries(todo) \subseteq BlocksOf(storage, fn)
    BY <1>1 DEF Inv, Work
  <2>2. DOMAIN storage.blocks \in SUBSET Nat
    BY <1>2, TableIndexes
  <2> QED BY <1>1, <1>2, <2>1, <2>2, TakeAny
<1>4. Work'
  BY <1>1, <1>3 DEF Work
<1> HIDE DEF x
<1>5. table \in [DOMAIN storage.blocks -> Vals] /\ TableHolds(storage, fn, "Block", table)
  <2>1. values.blocks \in [DOMAIN storage.blocks -> Vals]
    BY DEF Inv, TypeOK, Tables
  <2>2. TableHolds(storage, fn, "Block", values.blocks)
    BY DEF Inv, TablesHold
  <2>3. Value("block", fn, x) \in Vals
    BY <1>2, <1>3 DEF Vals, Value
  <2>4. Held(storage, fn, Ref("Block", x), Value("block", fn, x))
    BY <1>2, <1>3, NamedHeld
  <2> QED BY <1>2, <1>3, <2>1, <2>2, <2>3, <2>4, EntryWritten
<1>6. /\ values' \in Tables(storage) /\ TablesHold(storage, fn, values')
      /\ values'.blocks = table
  <2>1. values \in Tables(storage) /\ TablesHold(storage, fn, values)
    BY DEF Inv, TypeOK
  <2>2. values' = [values EXCEPT !.blocks = table]
    BY <1>1, <2>1 DEF Tables
  <2> HIDE DEF table
  <2> QED BY <1>5, <2>1, <2>2 DEF Tables, TablesHold
<1>7. TypeOK' /\ TablesHold(storage, fn, values)'
  BY <1>1, <1>6 DEF Inv, TypeOK
<1>8. BlocksDeclared'
  <2> SUFFICES ASSUME NEW b \in BlocksOf(storage, fn), b \notin Entries(todo')
               PROVE  values'.blocks[b] = Value("block", fn, b)
    BY <1>1 DEF BlocksDeclared
  <2>1. values.blocks \in [DOMAIN storage.blocks -> Vals] /\ b \in DOMAIN storage.blocks
    BY <1>2 DEF Inv, TypeOK, Tables
  <2>2. CASE b = x
    BY <1>6, <2>1, <2>2
  <2>3. CASE b # x
    <3>1. values.blocks[b] = Value("block", fn, b)
      BY <1>1, <1>3, <2>3 DEF Inv, BlocksDeclared
    <3> QED BY <1>6, <2>1, <2>3, <3>1
  <2> QED BY <2>2, <2>3
<1>9. Flow' /\ PhisCreated' /\ CodeBehind'
  BY <1>1, <1>2 DEF Inv, Flow, PhisCreated, CodeBehind
<1>10. CodeIs' /\ CodeSorted' /\ CodeComplete' /\ EdgesFit' /\ EmittedExact'
  BY <1>1, WritingKeepsCode
<1> QED BY <1>4, <1>7, <1>8, <1>9, <1>10 DEF Inv

\* A phi node is created for the parameter of a block of the function.
LEMMA CreatePhiKeeps == Inv /\ CreatePhi => Inv'
<1> SUFFICES ASSUME Inv, CreatePhi PROVE Inv'
  OBVIOUS
<1> DEFINE x == Head(todo)
           reg == storage.params[x].reg
           phi == Value("phi", fn, reg)
           table == [values.registers EXCEPT ![reg] = phi]
<1>1. CASE storage.params[x].type \notin Lowerable(storage)
  <2>1. Stop
    BY <1>1 DEF CreatePhi
  <2> QED BY <2>1, EndKeeps DEF Stop
<1>2. CASE storage.params[x].type \in Lowerable(storage)
  <2>1. /\ phase = "phis" /\ phase' = phase /\ storage' = storage /\ fn' = fn
        /\ todo # <<>> /\ todo' = Tail(todo) /\ code' = code /\ incoming' = incoming
        /\ outcome' = outcome
        /\ values' = [values EXCEPT !.registers[reg] = phi]
    BY <1>2 DEF CreatePhi, Doing
  <2>2. /\ Verified(storage) /\ fn \in DOMAIN storage.functions /\ fn \in Nat /\ fn # 0
        /\ IsStorage(storage) /\ BlocksOf(storage, fn) \subseteq DOMAIN storage.blocks
    BY <2>1, FunctionFacts, StorageFacts DEF Inv, Flow
  <2>3. /\ todo' \in Seq(Nat) /\ Entries(todo') \subseteq ParamsIn(storage, fn)
        /\ x \in ParamsIn(storage, fn) /\ Entries(todo) = {x} \cup Entries(todo')
    <3>1. todo \in Seq(Nat) /\ Entries(todo) \subseteq ParamsIn(storage, fn)
      BY <2>1 DEF Inv, Work
    <3> QED BY <2>1, <3>1, TakeAny
  <2>4. Work'
    BY <2>1, <2>3 DEF Work
  <2>5. PICK c \in BlocksOf(storage, fn) : x \in ParamsOf(storage, c)
    BY <2>3 DEF ParamsIn
  <2> HIDE DEF x
  <2>6. reg \in DOMAIN storage.registers /\ <<reg, Symbol("phi", reg)>> \in StandsFor(storage)
    BY <2>2, <2>5, ParamStands
  <2> HIDE DEF reg
  <2>7. reg \in Nat
    <3>1. storage.registers \in Seq(Nat)
      BY <2>2 DEF IsStorage
    <3> QED BY <2>6, <3>1, EntryOf
  <2>8. table \in [DOMAIN storage.registers -> Vals] /\ TableHolds(storage, fn, "Register", table)
    <3>1. values.registers \in [DOMAIN storage.registers -> Vals]
      BY DEF Inv, TypeOK, Tables
    <3>2. TableHolds(storage, fn, "Register", values.registers)
      BY DEF Inv, TablesHold
    <3>3. phi \in Vals
      BY <2>2, <2>7 DEF Vals, Value
    <3>4. Held(storage, fn, Ref("Register", reg), phi)
      <4> DEFINE t == Symbol("phi", reg)
      <4>1. ValueAt(fn, t) = phi /\ t.kind # "block"
        BY DEF ValueAt, Symbol
      <4> HIDE DEF phi
      <4> QED BY <2>2, <2>6, <4>1, RegisterHeld
    <3> HIDE DEF phi
    <3> QED BY <2>6, <3>1, <3>2, <3>3, <3>4, EntryWritten
  <2>9. /\ values' \in Tables(storage) /\ TablesHold(storage, fn, values')
        /\ values'.registers = table /\ values'.blocks = values.blocks
    <3>1. values \in Tables(storage) /\ TablesHold(storage, fn, values)
      BY DEF Inv, TypeOK
    <3>2. values' = [values EXCEPT !.registers = table]
      BY <2>1, <3>1 DEF Tables
    <3> HIDE DEF table
    <3> QED BY <2>8, <3>1, <3>2 DEF Tables, TablesHold
  <2>10. TypeOK' /\ TablesHold(storage, fn, values)'
    BY <2>1, <2>9 DEF Inv, TypeOK
  <2>11. BlocksDeclared'
    BY <2>1, <2>9 DEF Inv, BlocksDeclared
  <2>12. PhisCreated'
    <3> SUFFICES ASSUME NEW p \in ParamsIn(storage, fn), p \notin Entries(todo')
                 PROVE  values'.registers[storage.params[p].reg] = Value("phi", fn, storage.params[p].reg)
      BY <2>1 DEF PhisCreated
    <3>1. PICK d \in BlocksOf(storage, fn) : p \in ParamsOf(storage, d)
      BY DEF ParamsIn
    <3>2. storage.params[p].reg \in DOMAIN values.registers
      BY <2>2, <3>1 DEF Verified, BlocksFit, Inv, TypeOK, Tables
    <3>3. CASE storage.params[p].reg = reg
      BY <2>9, <3>2, <3>3
    <3>4. CASE storage.params[p].reg # reg
      <4>1. p # x
        BY <3>4 DEF reg
      <4>2. values.registers[storage.params[p].reg] = Value("phi", fn, storage.params[p].reg)
        BY <2>1, <2>3, <4>1 DEF Inv, PhisCreated
      <4> QED BY <2>9, <3>2, <3>4, <4>2
    <3> QED BY <3>3, <3>4
  <2>13. Flow' /\ CodeBehind'
    BY <2>1, <2>2 DEF Inv, Flow, CodeBehind
  <2>14. CodeIs' /\ CodeSorted' /\ CodeComplete' /\ EdgesFit' /\ EmittedExact'
    BY <2>1, WritingKeepsCode
  <2> QED BY <2>4, <2>10, <2>11, <2>12, <2>13, <2>14 DEF Inv
<1> QED BY <1>1, <1>2

\* The next loop over a function starts with all of its work before it.
LEMMA NextLoopKeeps == Inv /\ NextLoop => Inv'
<1> SUFFICES ASSUME Inv, NextLoop PROVE Inv'
  OBVIOUS
<1>1. /\ storage' = storage /\ fn' = fn /\ values' = values /\ code' = code
      /\ incoming' = incoming /\ outcome' = outcome /\ todo = <<>>
  BY DEF NextLoop, Enter
<1>2. /\ IsStorage(storage) /\ fn \in Nat /\ Entries(<<>>) = {}
      /\ DOMAIN storage.functions = 1 .. Len(storage.functions)
  BY StorageFacts DEF Inv, Entries
<1>3. TypeOK' /\ TablesHold(storage, fn, values)'
  BY <1>1 DEF NextLoop, Enter, Inv, TypeOK
<1>4. CASE phase = "immutables" /\ Enter("externals", [x \in DOMAIN storage.externals |-> x])
  <2>1. phase' = "externals" /\ todo' = [x \in DOMAIN storage.externals |-> x]
    BY <1>4 DEF Enter
  <2>2. todo' \in Seq(Nat) /\ Entries(todo') = DOMAIN storage.externals
    <3>1. storage.externals \in Seq([ret : Nat, params : IndexRange])
      BY <1>2 DEF IsStorage
    <3> QED BY <2>1, <3>1, IndexList
  <2>3. Work'
    BY <1>1, <2>1, <2>2 DEF Work
  <2>4. Flow' /\ BlocksDeclared' /\ PhisCreated' /\ CodeBehind'
    BY <1>1, <1>4, <2>1 DEF Inv, Flow, BlocksDeclared, PhisCreated, CodeBehind
  <2>5. CodeIs' /\ CodeSorted' /\ CodeComplete' /\ EdgesFit' /\ EmittedExact'
    BY <1>1, <1>4, <2>1, WritingKeepsCode
  <2> QED BY <1>3, <2>3, <2>4, <2>5 DEF Inv
<1>5. CASE phase = "externals" /\ Enter("functions", <<>>)
  <2>1. phase' = "functions" /\ fn = 0
    BY <1>5 DEF Enter, Inv, Flow
  <2>2. Work' /\ Flow' /\ BlocksDeclared' /\ PhisCreated' /\ CodeBehind'
    BY <1>1, <1>5, <2>1 DEF Inv, Work, Flow, BlocksDeclared, PhisCreated, CodeBehind
  <2>3. Emitted' = {}
    BY <1>1, <1>2, <2>1 DEF Emitted
  <2>4. \A f \in DOMAIN storage.functions : \A b, i : ~Passed(f, b, i)'
    BY <2>1, <2>3 DEF Passed
  <2>5. CodeIs' /\ CodeSorted' /\ CodeComplete' /\ EdgesFit' /\ EmittedExact'
    BY <1>1, <2>1, <2>3, <2>4, CodeKept
  <2> QED BY <1>3, <2>2, <2>5 DEF Inv
<1>6. CASE phase = "blocks" /\ Enter("phis", PhisOf(storage, fn))
  <2>1. phase' = "phis" /\ todo' = PhisOf(storage, fn)
    BY <1>6 DEF Enter
  <2>2. Verified(storage) /\ fn \in DOMAIN storage.functions
    BY <1>6, FunctionFacts DEF Inv
  <2>3. todo' \in Seq(Nat) /\ Entries(todo') = ParamsIn(storage, fn)
    BY <1>2, <2>1, <2>2, PhisOfFacts DEF Verified
  <2>4. Work' /\ PhisCreated'
    BY <1>1, <2>1, <2>3 DEF Work, PhisCreated
  <2>5. BlocksDeclared'
    BY <1>1, <1>2, <1>6, <2>1 DEF Inv, BlocksDeclared
  <2>6. Flow' /\ CodeBehind'
    BY <1>1, <1>6, <2>1 DEF Inv, Flow, CodeBehind
  <2>7. CodeIs' /\ CodeSorted' /\ CodeComplete' /\ EdgesFit' /\ EmittedExact'
    BY <1>1, <1>6, <2>1, WritingKeepsCode
  <2> QED BY <1>3, <2>4, <2>5, <2>6, <2>7 DEF Inv
<1>7. CASE phase = "phis" /\ Enter("code", InstrsIn(storage, fn))
  <2>1. phase' = "code" /\ todo' = InstrsIn(storage, fn)
    BY <1>7 DEF Enter
  <2>2. Verified(storage) /\ fn \in DOMAIN storage.functions
    BY <1>7, FunctionFacts DEF Inv
  <2>3. /\ todo' \in Seq(Item) /\ Entries(todo') = ItemsIn(storage, fn)
        /\ Sorted(todo', ItemOrder)
    BY <1>2, <2>1, <2>2, InstrsInFacts DEF Verified
  <2>4. Work'
    BY <1>1, <2>1, <2>3 DEF Work
  <2>5. BlocksDeclared' /\ PhisCreated'
    BY <1>1, <1>2, <1>7, <2>1 DEF Inv, BlocksDeclared, PhisCreated
  <2>6. Flow' /\ CodeBehind'
    BY <1>1, <1>7, <2>1 DEF Inv, Flow, CodeBehind
  <2>7. Emitted' = Emitted
    BY <1>1, <1>7, <2>1 DEF Emitted
  <2>8. ASSUME NEW f \in DOMAIN storage.functions, NEW b \in BlocksOf(storage, f),
               NEW i \in InstrsOf(storage, b), Passed(f, b, i)'
        PROVE  Passed(f, b, i)
    <3>1. f = fn => [block |-> b, instr |-> i] \in Entries(todo')
      BY <2>3 DEF ItemsIn, ItemsOf
    <3> QED BY <1>1, <2>7, <2>8, <3>1 DEF Passed
  <2>9. fn' \in Nat /\ fn <= fn'
    BY <1>1, <1>2
  <2>10. CodeIs' /\ CodeSorted' /\ CodeComplete' /\ EdgesFit' /\ EmittedExact'
    BY <1>1, <2>7, <2>8, <2>9, CodeKept
  <2> QED BY <1>3, <2>4, <2>5, <2>6, <2>10 DEF Inv
<1> QED BY <1>4, <1>5, <1>6, <1>7 DEF NextLoop

\* The next function starts when LLVM has accepted the one before.
LEMMA NextFunctionKeeps == Inv /\ NextFunction => Inv'
<1> SUFFICES ASSUME Inv, NextFunction PROVE Inv'
  OBVIOUS
<1>1. /\ storage' = storage /\ fn' = fn + 1 /\ values' = values /\ code' = code
      /\ incoming' = incoming /\ outcome' = outcome /\ phase = "functions" /\ phase' = "function"
      /\ fn < Len(storage.functions)
  BY DEF NextFunction
<1>2. /\ IsStorage(storage) /\ fn \in Nat /\ Len(storage.functions) \in Nat
      /\ DOMAIN storage.functions = 1 .. Len(storage.functions)
  BY StorageFacts DEF Inv
<1>3. TypeOK'
  BY <1>1, <1>2 DEF Inv, TypeOK
<1>4. TablesHold(storage, fn, values)'
  <2>1. TablesHold(storage, fn + 1, values)
    BY <1>2, TablesHoldLater DEF Inv
  <2> QED BY <1>1, <2>1
<1>5. Flow' /\ Work' /\ BlocksDeclared' /\ PhisCreated'
  BY <1>1, <1>2 DEF Inv, Flow, Work, BlocksDeclared, PhisCreated
<1>6. CodeBehind'
  <2> SUFFICES ASSUME NEW n \in DOMAIN code PROVE code[n].fn # fn + 1
    BY <1>1 DEF CodeBehind
  <2>1. code[n].fn <= fn
    BY DEF Inv, CodeIs
  <2>2. code \in Seq(LlvmInstr)
    BY DEF Inv, TypeOK
  <2>3. code[n] \in LlvmInstr
    BY <2>2, EntryOf
  <2>4. code[n].fn \in Nat
    BY <2>3 DEF LlvmInstr
  <2> QED BY <1>2, <2>1, <2>4
<1>7. Emitted' \subseteq Emitted
  <2>1. outcome # "emitted"
    BY <1>1 DEF Inv, Flow
  <2> QED BY <1>1, <1>2, <2>1 DEF Emitted
<1>8. \A f, b, i : Passed(f, b, i)' => Passed(f, b, i)
  BY <1>1, <1>7 DEF Passed
<1>9. fn' \in Nat /\ fn <= fn'
  BY <1>1, <1>2
<1>10. CodeIs' /\ CodeSorted' /\ CodeComplete' /\ EdgesFit' /\ EmittedExact'
  BY <1>1, <1>7, <1>8, <1>9, CodeKept
<1> QED BY <1>3, <1>4, <1>5, <1>6, <1>10 DEF Inv

-----------------------------------------------------------------------------
(***************************************************************************)
(* What LLVM's verifier says of the code of a function.                    *)
(***************************************************************************)
\* The first operand of a branch is its target.
LEMMA BranchFacts ==
    ASSUME NEW s, IsStorage(s), Verified(s), NEW b \in DOMAIN s.blocks, NEW i \in InstrsOf(s, b),
           NEW p \in BranchParams(s, i)
    PROVE  /\ s.instrs[i].op = "Br" /\ OperandAt(s, i, 0).tag = "Block"
           /\ OperandAt(s, i, 0).idx \in DOMAIN s.blocks
           /\ p \in ParamsOf(s, OperandAt(s, i, 0).idx)
           /\ Reads(s, i) = <<0>> /\ Emits(s, i)
           /\ \A j \in InstrsOf(s, b) : j <= i
<1>1. s.instrs[i].op = "Br" /\ p \in ParamsOf(s, OperandAt(s, i, 0).idx)
  BY DEF BranchParams
<1>2. BrShape(s, i)
  <2>1. ShapeError(s, i) = Ok
    BY DEF Verified, InstrsFit
  <2> QED BY <1>1, <2>1 DEF ShapeError, Unless, Ok
<1>3. OperandAt(s, i, 0).tag = "Block" /\ Arity(s, i) > 0
  BY <1>2 DEF BrShape, IsTag
<1>4. OperandAt(s, i, 0).idx \in DOMAIN s.blocks
  <2>1. Arity(s, i) \in Nat
    BY InstrRange DEF Verified, BlocksFit
  <2>2. 0 \in 0 .. Arity(s, i) - 1
    BY <1>3, <2>1
  <2>3. OperandAt(s, i, 0).idx \in DOMAIN Table(s, OperandAt(s, i, 0).tag)
    BY <2>2, OperandFits
  <2> QED BY <1>3, <2>3 DEF Table
<1>5. Reads(s, i) = <<0>>
  BY <1>1 DEF Reads, OnlyForDst, Arithmetic
<1>6. Emits(s, i)
  BY <1>1 DEF Emits, Binds, OnlyForDst, Arithmetic, Compute, Memory, Comparison
<1>7. \A j \in InstrsOf(s, b) : j <= i
  BY <1>1 DEF Verified, InstrsFit, Terminator
<1> QED BY <1>1, <1>3, <1>4, <1>5, <1>6, <1>7

\* A value of function f that an operand is held to mean is what it denotes.
LEMMA HeldHere ==
    ASSUME NEW s, IsStorage(s), NEW f, NEW h, NEW operand, NEW v, Held(s, h, operand, v),
           v.kind \in {"const", "function", "external"} \/ v.fn = f
    PROVE  v = Denotes(s, f, operand)
<1>1. PICK g \in 0 .. h, t \in Symbols(s) : Means(s, operand, t) /\ v = ValueAt(g, t)
  BY DEF Held
<1>2. v.kind = t.kind /\ v.fn = (IF t.kind \in {"phi", "instr", "block"} THEN g ELSE 0)
  BY <1>1 DEF ValueAt, Value
<1>3. v = ValueAt(f, t)
  <2>1. CASE t.kind \in {"phi", "instr", "block"}
    <3>1. g = f
      BY <1>2, <2>1
    <3> QED BY <1>1, <3>1
  <2>2. CASE t.kind \notin {"phi", "instr", "block"}
    BY <1>1, <2>2 DEF ValueAt
  <2> QED BY <2>1, <2>2
<1> QED BY <1>1, <1>3, DenotesIs

\* What an instruction of a function may use is a constant or of the function.
LEMMA UsableHere ==
    ASSUME NEW s, NEW f, NEW b, NEW v, MayUse(s, f, b, v)
    PROVE  v.kind \in {"const", "function", "external"} \/ v.fn = f
BY DEF MayUse

\* A block that is held is a block of its function.
LEMMA BlockHeld ==
    ASSUME NEW s, NEW h, NEW operand, operand.tag = "Block", NEW v, Held(s, h, operand, v)
    PROVE  /\ v.kind = "block" /\ v.of = operand.idx
           /\ v.fn # 0 /\ operand.idx \in BlocksOf(s, v.fn)
<1>1. PICK g \in 0 .. h, t \in Symbols(s) :
          /\ Means(s, operand, t) /\ v = ValueAt(g, t)
          /\ t.kind = "block" => g # 0 /\ t.of \in BlocksOf(s, g)
  BY DEF Held
<1>2. t = Symbol("block", operand.idx)
  BY <1>1 DEF Means, Names
<1> QED BY <1>1, <1>2 DEF ValueAt, Value, Symbol

\* What the invariant says of one instruction created.
LEMMA CodeEntry ==
    ASSUME Inv, NEW n \in DOMAIN code
    PROVE  /\ code[n] \in LlvmInstr /\ CodeFits(storage, code[n])
           /\ Verified(storage) /\ IsStorage(storage)
           /\ code[n].fn \in Nat /\ fn \in Nat /\ code[n].fn <= fn
           /\ code[n].fn \in DOMAIN storage.functions
           /\ code[n].block \in DOMAIN storage.blocks
           /\ code[n].instr \in InstrsOf(storage, code[n].block)
<1>1. code[n] \in LlvmInstr
  <2>1. code \in Seq(LlvmInstr)
    BY DEF Inv, TypeOK
  <2> QED BY <2>1, EntryOf
<1>2. CodeFits(storage, code[n]) /\ code[n].fn <= fn
  BY DEF Inv, CodeIs
<1>3. Verified(storage)
  <2>1. code # <<>>
    OBVIOUS
  <2> QED BY <2>1 DEF Inv, Flow
<1>4. code[n].fn \in Nat /\ IsStorage(storage) /\ fn \in Nat
  BY <1>1, StorageFacts DEF Inv, LlvmInstr
<1> QED BY <1>1, <1>2, <1>3, <1>4 DEF CodeFits, Verified, FunctionsFit

\* The edge of a branch whose target is of the same function.
LEMMA EdgeHere ==
    ASSUME Inv, NEW n \in DOMAIN code, NEW p \in BranchParams(storage, code[n].instr),
           NEW e \in incoming, EdgeOf(storage, code[n], p, e),
           OperandAt(storage, code[n].instr, 0).idx \in BlocksOf(storage, code[n].fn)
    PROVE  e.phi = Value("phi", code[n].fn, storage.params[p].reg)
<1>1. PICK d \in incoming : EdgeOf(storage, code[n], p, d) /\ d.phi.fn = code[n].fn
  BY DEF Inv, EdgesFit
<1>2. d.from = e.from /\ d.phi.of = e.phi.of
  BY <1>1 DEF EdgeOf
<1>3. d = e
  BY <1>2 DEF Inv, EdgesFit
<1>4. e.phi \in Vals
  BY DEF Inv, TypeOK, LlvmEdge
<1> QED BY <1>1, <1>3, <1>4 DEF EdgeOf, Vals, Value

\* The arguments of an instruction that LLVM accepts are what its operands
\* denote in the function, whatever an earlier function left in the tables.
LEMMA AcceptedArguments ==
    ASSUME Inv, LlvmAccepts(storage, fn), NEW n \in DOMAIN code, code[n].fn = fn,
           NEW k \in DOMAIN code[n].args
    PROVE  code[n].args[k] =
               Denotes(storage, fn, OperandAt(storage, code[n].instr, Reads(storage, code[n].instr)[k]))
<1> DEFINE c == code[n]
           operand == OperandAt(storage, c.instr, Reads(storage, c.instr)[k])
<1>1. Held(storage, fn, operand, c.args[k]) /\ IsStorage(storage)
  BY CodeEntry DEF CodeFits
<1>2. c \in CodeOf(fn)
  BY DEF CodeOf
<1>3. IF IsTargetOffset(storage.instrs[c.instr].op, k - 1)
      THEN c.args[k].fn = fn /\ c.args[k].of # Entry(storage, fn)
      ELSE MayUse(storage, fn, c.block, c.args[k])
  BY <1>2 DEF LlvmAccepts
<1>4. c.args[k].kind \in {"const", "function", "external"} \/ c.args[k].fn = fn
  BY <1>3, UsableHere
<1> HIDE DEF operand, c
<1>5. c.args[k] = Denotes(storage, fn, operand)
  BY <1>1, <1>4, HeldHere
<1> QED BY <1>5 DEF operand, c

\* So is the value of an edge that LLVM accepts.
LEMMA AcceptedEdges ==
    ASSUME Inv, LlvmAccepts(storage, fn), NEW n \in DOMAIN code, code[n].fn = fn,
           NEW p \in BranchParams(storage, code[n].instr),
           NEW e \in incoming, EdgeOf(storage, code[n], p, e)
    PROVE  e = TakenEdge(storage, fn, code[n].block, code[n].instr, p)
<1> DEFINE c == code[n]
           target == OperandAt(storage, c.instr, 0)
           operand == storage.operands[ArgumentOf(storage, c.instr, p)]
<1>1. /\ IsStorage(storage) /\ Verified(storage) /\ CodeFits(storage, c)
      /\ c.block \in DOMAIN storage.blocks /\ c.instr \in InstrsOf(storage, c.block)
  BY CodeEntry
<1>2. /\ storage.instrs[c.instr].op = "Br" /\ target.tag = "Block"
      /\ Reads(storage, c.instr) = <<0>>
  BY <1>1, BranchFacts
<1>3. 1 \in DOMAIN c.args /\ Held(storage, fn, target, c.args[1])
  BY <1>1, <1>2 DEF CodeFits
<1>4. c.args[1].fn = fn
  <2>1. c \in CodeOf(fn) /\ IsTargetOffset(storage.instrs[c.instr].op, 1 - 1)
    BY <1>2 DEF CodeOf, IsTargetOffset
  <2> QED BY <1>3, <2>1 DEF LlvmAccepts
<1>5. target.idx \in BlocksOf(storage, fn)
  <2> HIDE DEF target, c
  <2>1. target.idx \in BlocksOf(storage, c.args[1].fn)
    BY <1>2, <1>3, BlockHeld
  <2> QED BY <1>4, <2>1
<1>6. e.phi = Value("phi", fn, storage.params[p].reg)
  BY <1>5, EdgeHere
<1>7. e.from = Value("block", fn, c.block) /\ Held(storage, fn, operand, e.value)
  BY DEF EdgeOf
<1>8. e.value.kind \in {"const", "function", "external"} \/ e.value.fn = fn
  <2>1. MayUse(storage, fn, e.from.of, e.value)
    BY <1>6 DEF LlvmAccepts, Value
  <2> QED BY <2>1, UsableHere
<1>9. e.value = Denotes(storage, fn, operand)
  <2> HIDE DEF operand
  <2> QED BY <1>1, <1>7, <1>8, HeldHere
<1>10. e \in LlvmEdge
  BY DEF Inv, TypeOK
<1> QED BY <1>6, <1>7, <1>9, <1>10 DEF TakenEdge, LlvmEdge

\* A function is emitted when LLVM accepts it.
LEMMA FinishFunctionKeeps == Inv /\ FinishFunction => Inv'
<1> SUFFICES ASSUME Inv, FinishFunction PROVE Inv'
  OBVIOUS
<1>1. CASE ~LlvmAccepts(storage, fn)
  <2>1. Stop
    BY <1>1 DEF FinishFunction
  <2> QED BY <2>1, EndKeeps DEF Stop
<1>2. CASE LlvmAccepts(storage, fn)
  <2>1. /\ storage' = storage /\ fn' = fn /\ values' = values /\ code' = code
        /\ incoming' = incoming /\ phase = "code" /\ todo = <<>> /\ phase' = "functions"
        /\ outcome' = outcome
    BY <1>2 DEF FinishFunction, Enter
  <2>2. TypeOK' /\ TablesHold(storage, fn, values)'
    BY <2>1 DEF Inv, TypeOK
  <2>3. Flow' /\ Work' /\ BlocksDeclared' /\ PhisCreated' /\ CodeBehind'
    BY <2>1 DEF Inv, Flow, Work, BlocksDeclared, PhisCreated, CodeBehind
  <2>4. CodeIs' /\ CodeSorted' /\ EdgesFit'
    BY <2>1 DEF Inv, CodeIs, CodeSorted, EdgesFit
  <2>5. Emitted' \subseteq Emitted \cup {fn}
    BY <2>1 DEF Emitted
  <2>6. CodeComplete'
    <3> SUFFICES ASSUME NEW f \in DOMAIN storage.functions, NEW b \in BlocksOf(storage, f),
                        NEW i \in InstrsOf(storage, b), Passed(f, b, i)', Emits(storage, i)
                 PROVE  Created(f, b, i)'
      BY <2>1 DEF CodeComplete
    <3>1. f \in Emitted'
      BY <2>1 DEF Passed
    <3>2. Entries(todo) = {}
      BY <2>1 DEF Entries
    <3>3. Passed(f, b, i)
      BY <2>1, <2>5, <3>1, <3>2 DEF Passed
    <3>4. Created(f, b, i)
      BY <3>3 DEF Inv, CodeComplete
    <3> QED BY <2>1, <3>4 DEF Created
  <2>7. EmittedExact'
    <3>1. ASSUME NEW n \in DOMAIN code, code[n].fn \in Emitted', NEW k \in DOMAIN code[n].args
          PROVE  code[n].args[k] = Denotes(storage, code[n].fn,
                     OperandAt(storage, code[n].instr, Reads(storage, code[n].instr)[k]))
      <4>1. CASE code[n].fn \in Emitted
        BY <4>1 DEF Inv, EmittedExact
      <4>2. CASE code[n].fn = fn
        BY <1>2, <4>2, AcceptedArguments
      <4> QED BY <2>5, <3>1, <4>1, <4>2
    <3>2. ASSUME NEW n \in DOMAIN code, code[n].fn \in Emitted',
                 NEW p \in BranchParams(storage, code[n].instr), NEW e \in incoming,
                 EdgeOf(storage, code[n], p, e)
          PROVE  e = TakenEdge(storage, code[n].fn, code[n].block, code[n].instr, p)
      <4>1. CASE code[n].fn \in Emitted
        BY <3>2, <4>1 DEF Inv, EmittedExact
      <4>2. CASE code[n].fn = fn
        BY <1>2, <3>2, <4>2, AcceptedEdges
      <4> QED BY <2>5, <3>2, <4>1, <4>2
    <3> QED BY <2>1, <3>1, <3>2 DEF EmittedExact
  <2> QED BY <2>2, <2>3, <2>4, <2>6, <2>7 DEF Inv
<1> QED BY <1>1, <1>2

\* An instruction is emitted, and is the next of the function.
Issued(b, i) == [fn |-> fn, block |-> b, instr |-> i, args |-> Arguments(storage, values, i)]
Emitting(b, i) ==
    /\ phase = "code" /\ todo # <<>> /\ Head(todo) = [block |-> b, instr |-> i]
    /\ CanEmit(storage, values, b, i)
    /\ values' = WithDst(storage, values, fn, i)
    /\ code' = IF Emits(storage, i) THEN Append(code, Issued(b, i)) ELSE code
    /\ incoming' = incoming \cup IncomingFor(storage, values, b, i)
    /\ todo' = Tail(todo)
    /\ storage' = storage /\ phase' = phase /\ fn' = fn /\ outcome' = outcome

\* What the invariant says when an instruction is emitted.
LEMMA EmittingFacts ==
    ASSUME Inv, NEW b, NEW i, Emitting(b, i)
    PROVE  /\ IsStorage(storage) /\ Verified(storage) /\ fn \in Nat /\ fn # 0
           /\ fn \in DOMAIN storage.functions
           /\ b \in BlocksOf(storage, fn) /\ b \in DOMAIN storage.blocks /\ b \in Nat
           /\ i \in InstrsOf(storage, b) /\ i \in Nat
           /\ values \in Tables(storage) /\ TablesHold(storage, fn, values)
           /\ values.blocks[b] = Value("block", fn, b)
           /\ CanEmit(storage, values, b, i)
           /\ todo' \in Seq(Item) /\ Entries(todo') \subseteq ItemsIn(storage, fn)
           /\ Sorted(todo', ItemOrder)
           /\ Entries(todo) = {[block |-> b, instr |-> i]} \cup Entries(todo')
           /\ \A y \in Entries(todo') : <<[block |-> b, instr |-> i], y>> \in ItemOrder
<1>1. phase = "code" /\ todo # <<>> /\ todo' = Tail(todo) /\ Head(todo) = [block |-> b, instr |-> i]
  BY DEF Emitting
<1>2. /\ IsStorage(storage) /\ Verified(storage) /\ fn \in Nat /\ fn \in DOMAIN storage.functions
      /\ BlocksOf(storage, fn) \subseteq DOMAIN storage.blocks
  BY <1>1, FunctionFacts, StorageFacts DEF Inv
<1>3. fn # 0
  BY <1>1 DEF Inv, Flow
<1>4. todo \in Seq(Item) /\ Entries(todo) \subseteq ItemsIn(storage, fn) /\ Sorted(todo, ItemOrder)
  BY <1>1 DEF Inv, Work
<1>5. /\ Head(todo) \in Entries(todo) /\ todo' \in Seq(Item)
      /\ Entries(todo) = {Head(todo)} \cup Entries(todo')
      /\ Sorted(todo', ItemOrder) /\ \A y \in Entries(todo') : <<Head(todo), y>> \in ItemOrder
  BY <1>1, <1>4, TakeFirst
<1>6. b \in BlocksOf(storage, fn) /\ i \in InstrsOf(storage, b)
  BY <1>1, <1>4, <1>5 DEF ItemsIn, ItemsOf
<1>7. b \in DOMAIN storage.blocks /\ b \in Nat /\ i \in Nat
  BY <1>2, <1>6, BlockRanges, BlockSlots
<1>8. values.blocks[b] = Value("block", fn, b)
  BY <1>1, <1>6 DEF Inv, BlocksDeclared
<1>9. values \in Tables(storage) /\ TablesHold(storage, fn, values) /\ CanEmit(storage, values, b, i)
  BY DEF Inv, TypeOK, Emitting
<1> QED BY <1>1, <1>2, <1>3, <1>4, <1>5, <1>6, <1>7, <1>8, <1>9

\* The instruction created is the lowering of the one emitted.
LEMMA IssuedFits ==
    ASSUME Inv, NEW b, NEW i, Emitting(b, i)
    PROVE  /\ Issued(b, i) \in LlvmInstr
           /\ Emits(storage, i) => CodeFits(storage, Issued(b, i))
<1>1. /\ Arguments(storage, values, i) \in Seq(Vals)
      /\ DOMAIN Arguments(storage, values, i) = DOMAIN Reads(storage, i)
      /\ \A k \in DOMAIN Reads(storage, i) :
             Held(storage, fn, OperandAt(storage, i, Reads(storage, i)[k]),
                  Arguments(storage, values, i)[k])
  BY EmittingFacts, ArgumentsHeld
<1> QED BY <1>1, EmittingFacts DEF Issued, LlvmInstr, CodeFits

\* The code grows by that instruction, if it emits any, and by no other.
LEMMA CodeGrows ==
    ASSUME Inv, NEW b, NEW i, Emitting(b, i)
    PROVE  /\ code' \in Seq(LlvmInstr) /\ DOMAIN code = 1 .. Len(code) /\ Len(code) \in Nat
           /\ \A n \in DOMAIN code : n \in DOMAIN code' /\ code'[n] = code[n]
           /\ \A n \in DOMAIN code' :
                  \/ n \in DOMAIN code
                  \/ n = Len(code) + 1 /\ code'[n] = Issued(b, i) /\ Emits(storage, i)
           /\ Emits(storage, i) => \E n \in DOMAIN code' : code'[n] = Issued(b, i)
<1>1. code \in Seq(LlvmInstr) /\ Issued(b, i) \in LlvmInstr
  BY IssuedFits DEF Inv, TypeOK
<1>2. DOMAIN code = 1 .. Len(code) /\ Len(code) \in Nat
  BY <1>1, LenProperties
<1>3. CASE ~Emits(storage, i)
  BY <1>1, <1>2, <1>3 DEF Emitting
<1>4. CASE Emits(storage, i)
  <2> DEFINE w == Append(code, Issued(b, i))
  <2>1. /\ w \in Seq(LlvmInstr) /\ Len(w) = Len(code) + 1
        /\ \A n \in 1 .. Len(code) : w[n] = code[n]
        /\ w[Len(code) + 1] = Issued(b, i)
    BY <1>1, AppendProperties
  <2>2. code' = w
    BY <1>4 DEF Emitting
  <2> HIDE DEF w
  <2>3. DOMAIN w = 1 .. Len(code) + 1
    BY <2>1, LenProperties
  <2>4. \A n \in DOMAIN w : n \in DOMAIN code \/ n = Len(code) + 1
    BY <1>2, <2>3
  <2>5. Len(code) + 1 \in DOMAIN w /\ \A n \in DOMAIN code : n \in DOMAIN w
    BY <1>2, <2>3
  <2> QED BY <1>2, <1>4, <2>1, <2>2, <2>4, <2>5
<1> QED BY <1>3, <1>4

\* The entry of the phi node of a parameter.
LEMMA PhiEntry ==
    ASSUME Inv, NEW b, NEW i, Emitting(b, i), NEW p \in BranchParams(storage, i),
           NEW w, w = values.registers[storage.params[p].reg]
    PROVE  /\ w \in Vals /\ w.kind = "phi" /\ w.of = storage.params[p].reg /\ w.fn <= fn
           /\ OperandAt(storage, i, 0).idx \in BlocksOf(storage, fn) => w.fn = fn
<1> DEFINE reg == storage.params[p].reg
           target == OperandAt(storage, i, 0).idx
<1>1. target \in DOMAIN storage.blocks /\ p \in ParamsOf(storage, target)
  BY EmittingFacts, BranchFacts
<1>2. /\ reg \in DOMAIN storage.registers
      /\ \A t : <<reg, t>> \in StandsFor(storage) => t = Symbol("phi", reg)
  <2>1. IsStorage(storage) /\ Verified(storage)
    BY EmittingFacts
  <2>2. reg = storage.params[p].reg
    OBVIOUS
  <2> HIDE DEF reg, target
  <2> QED BY <1>1, <2>1, <2>2, ParamStands
<1>3. w \in Vals
  BY <1>2, EmittingFacts DEF Tables
<1>4. w.kind = "phi"
  BY EmittingFacts DEF CanEmit
<1>5. Held(storage, fn, Ref("Register", reg), w)
  <2>1. w # Null
    BY <1>4 DEF Null, Value
  <2>2. reg \in DOMAIN values.registers /\ TableHolds(storage, fn, "Register", values.registers)
    BY <1>2, EmittingFacts DEF Tables, TablesHold
  <2> QED BY <2>1, <2>2 DEF TableHolds
<1>6. PICK g \in 0 .. fn, t \in Symbols(storage) : Means(storage, Ref("Register", reg), t) /\ w = ValueAt(g, t)
  BY <1>5 DEF Held
<1>7. t = Symbol("phi", reg)
  <2> HIDE DEF reg
  <2>1. <<reg, t>> \in StandsFor(storage)
    BY <1>6 DEF Means, Names, Ref
  <2> QED BY <1>2, <2>1
<1>8. w = Value("phi", g, reg)
  BY <1>6, <1>7 DEF ValueAt, Symbol
<1>9. w.of = reg /\ w.fn <= fn
  BY <1>6, <1>8, EmittingFacts DEF Value
<1>10. ASSUME target \in BlocksOf(storage, fn) PROVE w.fn = fn
  <2>1. p \in ParamsIn(storage, fn)
    BY <1>1, <1>10 DEF ParamsIn
  <2>2. phase = "code"
    BY DEF Emitting
  <2>3. w = Value("phi", fn, reg)
    BY <2>1, <2>2 DEF Inv, PhisCreated
  <2> QED BY <2>3 DEF Value
<1> QED BY <1>3, <1>4, <1>9, <1>10

\* The edges that a branch adds.
EdgeFor(b, i, p) ==
    [phi   |-> values.registers[storage.params[p].reg],
     from  |-> values.blocks[b],
     value |-> resolve_operand_value(values, storage.operands[ArgumentOf(storage, i, p)])]

\* Each argument of a branch becomes an edge into the phi node.
LEMMA EdgeAdded ==
    ASSUME Inv, NEW b, NEW i, Emitting(b, i), NEW p \in BranchParams(storage, i)
    PROVE  /\ EdgeFor(b, i, p) \in LlvmEdge /\ EdgeFor(b, i, p) \in incoming'
           /\ EdgeOf(storage, Issued(b, i), p, EdgeFor(b, i, p))
           /\ OperandAt(storage, i, 0).idx \in BlocksOf(storage, fn) => EdgeFor(b, i, p).phi.fn = fn
<1> DEFINE e == EdgeFor(b, i, p)
           operand == storage.operands[ArgumentOf(storage, i, p)]
<1>1. /\ e.phi \in Vals /\ e.phi.kind = "phi" /\ e.phi.of = storage.params[p].reg /\ e.phi.fn <= fn
      /\ OperandAt(storage, i, 0).idx \in BlocksOf(storage, fn) => e.phi.fn = fn
  BY PhiEntry DEF EdgeFor
<1>2. e.from = Value("block", fn, b) /\ e.from \in Vals
  BY EmittingFacts DEF EdgeFor, Vals, Value
<1>3. e \in IncomingFor(storage, values, b, i)
  BY DEF IncomingFor, EdgeFor
<1>4. e.value # Null
  BY <1>3, EmittingFacts DEF CanEmit
<1>5. e.value = resolve_operand_value(values, operand)
  BY DEF EdgeFor
<1>6. e.value \in Vals /\ Held(storage, fn, operand, e.value)
  <2> HIDE DEF operand, e
  <2> QED BY <1>4, <1>5, EmittingFacts, ResolvedHeld
<1>7. e \in LlvmEdge
  BY <1>1, <1>2, <1>6 DEF EdgeFor, LlvmEdge
<1>8. EdgeOf(storage, Issued(b, i), p, e)
  <2> HIDE DEF e
  <2> QED BY <1>1, <1>2, <1>6 DEF EdgeOf, Issued
<1>9. e \in incoming'
  BY <1>3 DEF Emitting
<1> QED BY <1>1, <1>7, <1>8, <1>9

\* And no other edge is added.
LEMMA IncomingGrows ==
    ASSUME Inv, NEW b, NEW i, Emitting(b, i)
    PROVE  /\ incoming' \in SUBSET LlvmEdge /\ IsFiniteSet(incoming')
           /\ \A e \in incoming' : e \in incoming \/ \E p \in BranchParams(storage, i) : e = EdgeFor(b, i, p)
<1> DEFINE new == IncomingFor(storage, values, b, i)
           ps == BranchParams(storage, i)
           F == [p \in ps |-> EdgeFor(b, i, p)]
<1>1. new = {EdgeFor(b, i, p) : p \in ps} /\ incoming' = incoming \cup new
  BY DEF IncomingFor, EdgeFor, Emitting
<1>2. incoming \in SUBSET LlvmEdge /\ IsFiniteSet(incoming)
  BY DEF Inv, TypeOK
<1>3. IsFiniteSet(ps)
  <2>1. CASE ps = {}
    BY <2>1, FS_EmptySet
  <2>2. CASE ps # {}
    <3> DEFINE target == OperandAt(storage, i, 0).idx
               r == storage.blocks[target].params
    <3>1. target \in DOMAIN storage.blocks /\ ps = ParamsOf(storage, target)
      BY <2>2, EmittingFacts, BranchFacts DEF BranchParams
    <3>2. r.head \in Nat \ {0} /\ r.size \in Nat
      BY <3>1, EmittingFacts, BlockRanges, RangeFacts
    <3>3. ps = r.head .. r.head + r.size - 1
      BY <3>1 DEF ParamsOf, Slots
    <3> HIDE DEF r, ps
    <3>4. r.head \in Int /\ r.head + r.size - 1 \in Int
      BY <3>2
    <3> QED BY <3>3, <3>4, FS_Interval
  <2> QED BY <2>1, <2>2
<1> HIDE DEF ps, new
<1>4. F \in Surjection(ps, new)
  BY <1>1 DEF Surjection
<1> HIDE DEF F
<1>5. IsFiniteSet(new)
  BY <1>3, <1>4, FS_Surjection
<1>6. new \in SUBSET LlvmEdge
  BY <1>1, EdgeAdded DEF ps
<1>7. IsFiniteSet(incoming')
  BY <1>1, <1>2, <1>5, FS_Union
<1> QED BY <1>1, <1>2, <1>6, <1>7 DEF ps

\* No code of the block that was there before branches.
LEMMA NoEarlierBranch ==
    ASSUME Inv, NEW b, NEW i, Emitting(b, i), NEW n \in DOMAIN code,
           code[n].fn = fn, code[n].block = b
    PROVE  BranchParams(storage, code[n].instr) = {}
<1> DEFINE j == code[n].instr
<1> SUFFICES ASSUME BranchParams(storage, j) # {} PROVE FALSE
  OBVIOUS
<1>1. j \in InstrsOf(storage, b) /\ j \in Nat
  <2>1. j \in InstrsOf(storage, b)
    BY CodeEntry
  <2> QED BY <2>1, EmittingFacts, BlockSlots
<1>2. i <= j
  <2>1. PICK p \in BranchParams(storage, j) : TRUE
    OBVIOUS
  <2>2. \A k \in InstrsOf(storage, b) : k <= j
    <3> HIDE DEF j
    <3> QED BY <1>1, <2>1, EmittingFacts, BranchFacts
  <2> QED BY <2>2, EmittingFacts
<1>3. j < i
  <2>1. [block |-> b, instr |-> i] \in Entries(todo) /\ phase = "code"
    BY EmittingFacts DEF Emitting
  <2>2. <<[block |-> b, instr |-> j], [block |-> b, instr |-> i]>> \in ItemOrder
    BY <2>1 DEF Inv, CodeBehind
  <2>3. b \in Nat
    BY EmittingFacts
  <2> HIDE DEF j
  <2> QED BY <2>2, <2>3 DEF ItemOrder, At
<1>4. i \in Nat
  BY EmittingFacts
<1> HIDE DEF j
<1> QED BY <1>1, <1>2, <1>3, <1>4

\* Emitting keeps the part of the invariant on edges.
LEMMA EmittingKeepsEdges ==
    ASSUME Inv, NEW b, NEW i, Emitting(b, i)
    PROVE  EdgesFit'
<1> DEFINE new == Issued(b, i)
<1>1. storage' = storage
  BY DEF Emitting
<1>2. ASSUME NEW e \in incoming'
      PROVE  \E n \in DOMAIN code' : \E p \in BranchParams(storage, code'[n].instr) :
                 EdgeOf(storage, code'[n], p, e)
  <2>1. CASE e \in incoming
    <3>1. PICK n \in DOMAIN code : \E p \in BranchParams(storage, code[n].instr) :
              EdgeOf(storage, code[n], p, e)
      BY <2>1 DEF Inv, EdgesFit
    <3> QED BY <3>1, CodeGrows
  <2>2. CASE e \notin incoming
    <3>1. PICK p \in BranchParams(storage, i) : e = EdgeFor(b, i, p)
      BY <2>2, IncomingGrows
    <3>2. Emits(storage, i)
      BY <3>1, EmittingFacts, BranchFacts
    <3>3. PICK n \in DOMAIN code' : code'[n] = new
      BY <3>2, CodeGrows
    <3>4. EdgeOf(storage, new, p, e)
      BY <3>1, EdgeAdded
    <3>5. code'[n].instr = i
      BY <3>3 DEF Issued
    <3> QED BY <3>1, <3>3, <3>4, <3>5
  <2> QED BY <2>1, <2>2
<1>3. ASSUME NEW n \in DOMAIN code', NEW p \in BranchParams(storage, code'[n].instr)
      PROVE  \E e \in incoming' :
                 /\ EdgeOf(storage, code'[n], p, e)
                 /\ OperandAt(storage, code'[n].instr, 0).idx \in BlocksOf(storage, code'[n].fn)
                        => e.phi.fn = code'[n].fn
  <2>1. CASE n \in DOMAIN code
    <3>1. code'[n] = code[n]
      BY <2>1, CodeGrows
    <3>2. PICK e \in incoming :
              /\ EdgeOf(storage, code[n], p, e)
              /\ OperandAt(storage, code[n].instr, 0).idx \in BlocksOf(storage, code[n].fn)
                     => e.phi.fn = code[n].fn
      BY <2>1, <3>1 DEF Inv, EdgesFit
    <3>3. e \in incoming'
      BY DEF Emitting
    <3> QED BY <3>1, <3>2, <3>3
  <2>2. CASE n \notin DOMAIN code
    <3>1. code'[n] = new
      BY <2>2, CodeGrows
    <3>2. new.instr = i /\ new.fn = fn
      BY DEF Issued
    <3> HIDE DEF new
    <3>3. p \in BranchParams(storage, i)
      BY <3>1, <3>2
    <3>4. /\ EdgeFor(b, i, p) \in incoming' /\ EdgeOf(storage, new, p, EdgeFor(b, i, p))
          /\ OperandAt(storage, i, 0).idx \in BlocksOf(storage, fn) => EdgeFor(b, i, p).phi.fn = fn
      BY <3>3, EdgeAdded DEF new
    <3> QED BY <3>1, <3>2, <3>4
  <2> QED BY <2>1, <2>2
<1>4. ASSUME NEW e \in incoming, NEW p \in BranchParams(storage, i), e.from = EdgeFor(b, i, p).from
      PROVE  FALSE
  <2>1. PICK n \in DOMAIN code : \E q \in BranchParams(storage, code[n].instr) :
            EdgeOf(storage, code[n], q, e)
    BY DEF Inv, EdgesFit
  <2>2. e.from = Value("block", code[n].fn, code[n].block)
    BY <2>1 DEF EdgeOf
  <2>3. e.from = Value("block", fn, b)
    BY <1>4, EmittingFacts DEF EdgeFor
  <2>4. code[n].fn = fn /\ code[n].block = b
    BY <2>2, <2>3 DEF Value
  <2> QED BY <2>1, <2>4, NoEarlierBranch
<1>5. ASSUME NEW p \in BranchParams(storage, i), NEW q \in BranchParams(storage, i),
             EdgeFor(b, i, p).phi.of = EdgeFor(b, i, q).phi.of
      PROVE  p = q
  <2>1. storage.params[p].reg = storage.params[q].reg
    BY <1>5, PhiEntry DEF EdgeFor
  <2>2. \E c \in DOMAIN storage.blocks : p \in ParamsOf(storage, c) /\ q \in ParamsOf(storage, c)
    BY EmittingFacts, BranchFacts
  <2> QED BY <2>1, <2>2, EmittingFacts DEF Verified, DefinedOnce
<1>6. ASSUME NEW e \in incoming', NEW d \in incoming', e.from = d.from, e.phi.of = d.phi.of
      PROVE  e = d
  <2>1. CASE e \in incoming /\ d \in incoming
    BY <1>6, <2>1 DEF Inv, EdgesFit
  <2>2. CASE e \notin incoming /\ d \notin incoming
    <3>1. PICK p \in BranchParams(storage, i) : e = EdgeFor(b, i, p)
      BY <2>2, IncomingGrows
    <3>2. PICK q \in BranchParams(storage, i) : d = EdgeFor(b, i, q)
      BY <2>2, IncomingGrows
    <3> QED BY <1>5, <1>6, <3>1, <3>2
  <2>3. CASE e \in incoming /\ d \notin incoming
    <3>1. PICK q \in BranchParams(storage, i) : d = EdgeFor(b, i, q)
      BY <2>3, IncomingGrows
    <3> QED BY <1>4, <1>6, <2>3, <3>1
  <2>4. CASE e \notin incoming /\ d \in incoming
    <3>1. PICK p \in BranchParams(storage, i) : e = EdgeFor(b, i, p)
      BY <2>4, IncomingGrows
    <3> QED BY <1>4, <1>6, <2>4, <3>1
  <2> QED BY <2>1, <2>2, <2>3, <2>4
<1> HIDE DEF new
<1> QED BY <1>1, <1>2, <1>3, <1>6 DEF EdgesFit

\* It keeps the part on the code.
LEMMA EmittingKeepsCode ==
    ASSUME Inv, NEW b, NEW i, Emitting(b, i)
    PROVE  CodeIs' /\ CodeSorted' /\ CodeBehind' /\ CodeComplete'
<1> DEFINE new == Issued(b, i)
<1>1. /\ storage' = storage /\ fn' = fn /\ phase' = phase /\ phase = "code"
      /\ outcome' = outcome
  BY DEF Emitting
<1>2. new.fn = fn /\ new.block = b /\ new.instr = i
  BY DEF Issued
<1>3. CodeIs'
  <2> SUFFICES ASSUME NEW n \in DOMAIN code' PROVE CodeFits(storage, code'[n]) /\ code'[n].fn <= fn
    BY <1>1 DEF CodeIs
  <2>1. CASE n \in DOMAIN code
    BY <2>1, CodeGrows DEF Inv, CodeIs
  <2>2. CASE n \notin DOMAIN code
    <3>1. code'[n] = new /\ Emits(storage, i)
      BY <2>2, CodeGrows
    <3>2. CodeFits(storage, new)
      BY <3>1, IssuedFits
    <3>3. fn <= fn
      BY EmittingFacts
    <3> HIDE DEF new
    <3> QED BY <1>2, <3>1, <3>2, <3>3
  <2> QED BY <2>1, <2>2
<1>4. ASSUME NEW n \in DOMAIN code PROVE CreatedBefore(code[n], new)
  <2>1. code[n].fn \in Nat /\ fn \in Nat /\ code[n].fn <= fn
    BY CodeEntry
  <2>2. CASE code[n].fn # fn
    BY <1>2, <2>1, <2>2 DEF CreatedBefore
  <2>3. CASE code[n].fn = fn
    <3>1. [block |-> b, instr |-> i] \in Entries(todo)
      BY EmittingFacts
    <3>2. <<[block |-> code[n].block, instr |-> code[n].instr], [block |-> b, instr |-> i]>> \in ItemOrder
      BY <1>1, <2>3, <3>1 DEF Inv, CodeBehind
    <3>3. code[n].block < b \/ (code[n].block = b /\ code[n].instr < i)
      BY <3>2 DEF ItemOrder, At
    <3> HIDE DEF new
    <3> QED BY <1>2, <2>3, <3>3 DEF CreatedBefore
  <2> QED BY <2>2, <2>3
<1>5. CodeSorted'
  <2> SUFFICES ASSUME NEW m \in DOMAIN code', NEW n \in DOMAIN code', m < n
               PROVE  CreatedBefore(code'[m], code'[n])
    BY DEF CodeSorted
  <2> HIDE DEF new
  <2>1. DOMAIN code = 1 .. Len(code) /\ Len(code) \in Nat
    BY CodeGrows
  <2>2. m \in DOMAIN code \/ m = Len(code) + 1
    BY CodeGrows
  <2>3. CASE n \in DOMAIN code
    <3>1. m \in DOMAIN code
      BY <2>1, <2>2, <2>3
    <3> QED BY <2>3, <3>1, CodeGrows DEF Inv, CodeSorted
  <2>4. CASE n \notin DOMAIN code
    <3>1. n = Len(code) + 1 /\ code'[n] = new
      BY <2>4, CodeGrows DEF new
    <3>2. m \in DOMAIN code
      BY <2>1, <2>2, <3>1
    <3> QED BY <1>4, <3>1, <3>2, CodeGrows
  <2> QED BY <2>3, <2>4
<1>6. CodeBehind'
  <2> SUFFICES ASSUME NEW n \in DOMAIN code', code'[n].fn = fn, NEW y \in Entries(todo')
               PROVE  <<[block |-> code'[n].block, instr |-> code'[n].instr], y>> \in ItemOrder
    BY <1>1 DEF CodeBehind
  <2>1. CASE n \in DOMAIN code
    <3>1. y \in Entries(todo) /\ code'[n] = code[n]
      BY <2>1, EmittingFacts, CodeGrows
    <3> QED BY <1>1, <2>1, <3>1 DEF Inv, CodeBehind
  <2>2. CASE n \notin DOMAIN code
    <3>1. code'[n] = new
      BY <2>2, CodeGrows
    <3> HIDE DEF new
    <3> QED BY <1>2, <3>1, EmittingFacts
  <2> QED BY <2>1, <2>2
<1>7. CodeComplete'
  <2> SUFFICES ASSUME NEW f \in DOMAIN storage.functions, NEW c \in BlocksOf(storage, f),
                      NEW j \in InstrsOf(storage, c), Passed(f, c, j)', Emits(storage, j)
               PROVE  \E n \in DOMAIN code' : /\ code'[n].fn = f /\ code'[n].block = c
                                              /\ code'[n].instr = j
    BY <1>1 DEF CodeComplete, Created
  <2>1. Emitted' = Emitted
    BY <1>1 DEF Emitted
  <2>2. CASE Passed(f, c, j)
    <3>1. PICK n \in DOMAIN code : code[n].fn = f /\ code[n].block = c /\ code[n].instr = j
      BY <2>2 DEF Inv, CodeComplete, Created
    <3> QED BY <3>1, CodeGrows
  <2>3. CASE ~Passed(f, c, j)
    <3>1. /\ f = fn /\ [block |-> c, instr |-> j] \in Entries(todo)
          /\ [block |-> c, instr |-> j] \notin Entries(todo')
      BY <1>1, <2>1, <2>3 DEF Passed
    <3>2. [block |-> c, instr |-> j] = [block |-> b, instr |-> i]
      BY <3>1, EmittingFacts
    <3>3. c = b /\ j = i
      BY <3>2
    <3>4. PICK n \in DOMAIN code' : code'[n] = new
      BY <3>3, CodeGrows
    <3> HIDE DEF new
    <3> QED BY <1>2, <3>1, <3>3, <3>4
  <2> QED BY <2>2, <2>3
<1> QED BY <1>3, <1>5, <1>6, <1>7

\* It changes nothing of the functions emitted before.
LEMMA EmittingKeepsExact ==
    ASSUME Inv, NEW b, NEW i, Emitting(b, i)
    PROVE  EmittedExact'
<1>1. /\ storage' = storage /\ fn' = fn /\ phase' = phase /\ phase = "code"
      /\ outcome' = outcome /\ outcome # "emitted"
  BY DEF Emitting, Inv, Flow
<1>2. Emitted' = Emitted /\ fn \notin Emitted
  <2>1. fn \in Nat
    BY EmittingFacts
  <2> QED BY <1>1, <2>1 DEF Emitted
<1>3. ASSUME NEW n \in DOMAIN code', code'[n].fn \in Emitted
      PROVE  n \in DOMAIN code /\ code'[n] = code[n] /\ code[n].fn # fn
  <2>1. Issued(b, i).fn = fn
    BY DEF Issued
  <2> QED BY <1>2, <1>3, <2>1, CodeGrows
<1>4. ASSUME NEW n \in DOMAIN code', code'[n].fn \in Emitted, NEW k \in DOMAIN code'[n].args
      PROVE  code'[n].args[k] = Denotes(storage, code'[n].fn,
                 OperandAt(storage, code'[n].instr, Reads(storage, code'[n].instr)[k]))
  BY <1>3, <1>4 DEF Inv, EmittedExact
<1>5. ASSUME NEW n \in DOMAIN code', code'[n].fn \in Emitted,
             NEW p \in BranchParams(storage, code'[n].instr), NEW e \in incoming',
             EdgeOf(storage, code'[n], p, e)
      PROVE  e = TakenEdge(storage, code'[n].fn, code'[n].block, code'[n].instr, p)
  <2>1. n \in DOMAIN code /\ code'[n] = code[n] /\ code[n].fn # fn
    BY <1>3, <1>5
  <2>2. e.from = Value("block", code[n].fn, code[n].block)
    BY <1>5, <2>1 DEF EdgeOf
  <2>3. e \in incoming
    <3> SUFFICES ASSUME NEW q \in BranchParams(storage, i), e = EdgeFor(b, i, q) PROVE FALSE
      BY IncomingGrows
    <3>1. e.from = Value("block", fn, b)
      BY EmittingFacts DEF EdgeFor
    <3> QED BY <2>1, <2>2, <3>1 DEF Value
  <2> QED BY <1>5, <2>1, <2>3 DEF Inv, EmittedExact
<1> QED BY <1>1, <1>2, <1>4, <1>5 DEF EmittedExact

\* It keeps the invariant.
LEMMA EmittingKeeps ==
    ASSUME Inv, NEW b, NEW i, Emitting(b, i)
    PROVE  Inv'
<1>1. /\ storage' = storage /\ fn' = fn /\ phase' = phase /\ phase = "code"
      /\ outcome' = outcome /\ values' = WithDst(storage, values, fn, i)
  BY DEF Emitting
<1>2. /\ values' \in Tables(storage) /\ TablesHold(storage, fn, values')
      /\ values'.blocks = values.blocks
      /\ \A c \in DOMAIN storage.blocks : \A p \in ParamsOf(storage, c) :
             values'.registers[storage.params[p].reg] = values.registers[storage.params[p].reg]
  BY <1>1, EmittingFacts, WithDstFacts
<1>3. TypeOK'
  <2>1. code' \in Seq(LlvmInstr) /\ incoming' \in SUBSET LlvmEdge /\ IsFiniteSet(incoming')
    BY CodeGrows, IncomingGrows
  <2> QED BY <1>1, <1>2, <2>1 DEF Inv, TypeOK
<1>4. TablesHold(storage, fn, values)'
  BY <1>1, <1>2
<1>5. Flow'
  BY <1>1 DEF Inv, Flow
<1>6. Work'
  BY <1>1, EmittingFacts DEF Work
<1>7. BlocksDeclared'
  BY <1>1, <1>2 DEF Inv, BlocksDeclared
<1>8. PhisCreated'
  <2> SUFFICES ASSUME NEW p \in ParamsIn(storage, fn)
               PROVE  values'.registers[storage.params[p].reg] = Value("phi", fn, storage.params[p].reg)
    BY <1>1 DEF PhisCreated
  <2>1. PICK c \in BlocksOf(storage, fn) : p \in ParamsOf(storage, c)
    BY DEF ParamsIn
  <2>2. c \in DOMAIN storage.blocks
    BY EmittingFacts DEF Verified, FunctionsFit
  <2> QED BY <1>1, <1>2, <2>1, <2>2 DEF Inv, PhisCreated
<1> QED BY <1>3, <1>4, <1>5, <1>6, <1>7, <1>8, EmittingKeepsEdges, EmittingKeepsCode,
           EmittingKeepsExact DEF Inv

\* The same of the actions, which also may find that they cannot emit.
LEMMA EmitKeeps ==
    ASSUME Inv, NEW ops, Emit(ops)
    PROVE  Inv'
<1> DEFINE b == Head(todo).block
           i == Head(todo).instr
<1>1. CASE ~CanEmit(storage, values, b, i)
  <2>1. Stop
    BY <1>1 DEF Emit
  <2> QED BY <2>1, EndKeeps DEF Stop
<1>2. CASE CanEmit(storage, values, b, i)
  <2>1. phase = "code" /\ todo # <<>>
    BY DEF Emit, Doing
  <2>2. todo \in Seq(Item)
    BY <2>1 DEF Inv, Work
  <2>3. Head(todo) \in Item
    BY <2>1, <2>2, HeadTailProperties
  <2>4. Head(todo) = [block |-> b, instr |-> i]
    BY <2>3 DEF Item
  <2>5. Emitting(b, i)
    BY <1>2, <2>1, <2>4 DEF Emit, Emitting, Issued
  <2> QED BY <2>5, EmittingKeeps
<1> QED BY <1>1, <1>2

\* Every step keeps the invariant.
LEMMA NextInv == Inv /\ [Next]_vars => Inv'
<1> SUFFICES ASSUME Inv, [Next]_vars PROVE Inv'
  OBVIOUS
<1>1. CASE Verify
  BY <1>1, VerifyKeeps
<1>2. CASE SetupImmutable
  BY <1>2, SetupImmutableKeeps
<1>3. CASE SetupExternal
  BY <1>3, SetupExternalKeeps
<1>4. CASE NextFunction
  BY <1>4, NextFunctionKeeps
<1>5. CASE CreateFunction
  BY <1>5, CreateFunctionKeeps
<1>6. CASE DeclareBlock
  BY <1>6, DeclareBlockKeeps
<1>7. CASE CreatePhi
  BY <1>7, CreatePhiKeeps
<1>8. CASE EmitNoop
  BY <1>8, EmitKeeps DEF EmitNoop
<1>9. CASE EmitCompute
  BY <1>9, EmitKeeps DEF EmitCompute
<1>10. CASE EmitMemory
  BY <1>10, EmitKeeps DEF EmitMemory
<1>11. CASE EmitControl
  BY <1>11, EmitKeeps DEF EmitControl
<1>12. CASE NextLoop
  BY <1>12, NextLoopKeeps
<1>13. CASE FinishFunction
  BY <1>13, FinishFunctionKeeps
<1>14. CASE Finish
  BY <1>14, EndKeeps DEF Finish
<1>15. CASE Returned \/ UNCHANGED vars
  BY <1>15, StutterKeeps DEF Returned
<1> QED BY <1>1, <1>2, <1>3, <1>4, <1>5, <1>6, <1>7, <1>8, <1>9, <1>10, <1>11, <1>12, <1>13,
           <1>14, <1>15 DEF Next

\* The invariant holds always.
LEMMA SpecInv == Spec => []Inv
<1> QED BY InitInv, NextInv, PTL DEF Spec

-----------------------------------------------------------------------------
(***************************************************************************)
(* What the invariant says of the code.                                    *)
(***************************************************************************)
\* Each table of values_ keeps an entry for every index of its IR table, and
\* what emit() has made keeps its form.
THEOREM EmitterTypeCorrect == Spec => []TypeOK
<1>1. Inv => TypeOK
  BY DEF Inv
<1> QED BY <1>1, SpecInv, PTL

\* Every entry that emitting instruction i of block b reads exists. A branch
\* reads its arguments at the index of the parameter in the whole table: inside
\* its operands for the block whose parameters come first.
InstrReadsInside(s, b, i) ==
    /\ b \in DOMAIN s.blocks /\ i \in DOMAIN s.instrs
    /\ s.instrs[i].dst # NoRegister => s.instrs[i].dst \in DOMAIN s.registers
    /\ \A o \in Operands(s, i) :
           /\ o \in DOMAIN s.operands /\ s.operands[o].type \in DOMAIN s.types
           /\ s.operands[o].idx \in DOMAIN Table(s, s.operands[o].tag)
    /\ \A p \in BranchParams(s, i) :
           /\ p \in DOMAIN s.params /\ s.params[p].reg \in DOMAIN s.registers
           /\ ParamsOfTarget(s, i).head = 1 /\ HasAllArguments(s, i) =>
                  ArgumentOf(s, i, p) \in Operands(s, i)

\* What is read for the work that a loop of emit() has left.
ReadsInside ==
    /\ phase \in {"function", "blocks", "phis", "code"} =>
           /\ fn \in DOMAIN storage.functions
           /\ {storage.functions[fn].ret} \cup Slots(storage.functions[fn].params)
                  \subseteq DOMAIN storage.types
    /\ phase = "immutables" => \A m \in Entries(todo) :
           m \in DOMAIN storage.immutables /\ storage.immutables[m] \in DOMAIN storage.types
    /\ phase = "externals" => \A x \in Entries(todo) : x \in DOMAIN storage.externals
    /\ phase = "blocks" => \A b \in Entries(todo) : b \in DOMAIN storage.blocks
    /\ phase = "phis" => \A p \in Entries(todo) :
           /\ p \in DOMAIN storage.params /\ storage.params[p].type \in DOMAIN storage.types
           /\ storage.params[p].reg \in DOMAIN storage.registers
    /\ phase = "code" => \A y \in Entries(todo) : InstrReadsInside(storage, y.block, y.instr)
    /\ phase \notin {"verify", "done"} =>
           /\ NodesFit(storage)
           /\ \A r \in DOMAIN storage.registers : storage.registers[r] \in DOMAIN storage.types

\* The argument of a branch that has one for each parameter, by the index.
LEMMA ArgumentInside ==
    ASSUME NEW s, IsStorage(s), Verified(s), NEW b \in DOMAIN s.blocks,
           NEW i \in InstrsOf(s, b), NEW p \in BranchParams(s, i),
           ParamsOfTarget(s, i).head = 1, HasAllArguments(s, i)
    PROVE  ArgumentOf(s, i, p) \in Operands(s, i)
<1> DEFINE r == ParamsOfTarget(s, i)
           h == s.instrs[i].operands.head
           n == Arity(s, i)
<1>1. r.head = 1 /\ r.size \in Nat /\ p \in Slots(r)
  <2>1. OperandAt(s, i, 0).idx \in DOMAIN s.blocks /\ p \in ParamsOf(s, OperandAt(s, i, 0).idx)
    BY BranchFacts
  <2>2. r \in IndexRange
    BY <2>1, BlockRanges DEF ParamsOfTarget
  <2> QED BY <2>1, <2>2, RangeFacts DEF ParamsOf, ParamsOfTarget
<1>2. h \in Nat /\ n \in Nat
  BY InstrRange DEF Verified, BlocksFit
<1>3. n = 1 + r.size
  BY DEF HasAllArguments
<1>4. Operands(s, i) = h .. h + n - 1 /\ ArgumentOf(s, i, p) = h + p
  BY DEF Operands, Slots, Arity, ArgumentOf
<1> HIDE DEF r, h, n
<1>5. p \in 1 .. r.size
  BY <1>1 DEF Slots
<1>6. h + p \in h .. h + n - 1
  BY <1>2, <1>1, <1>3, <1>5
<1> QED BY <1>4, <1>6

\* An instruction of a storage that verified.
LEMMA InstrInside ==
    ASSUME NEW s, IsStorage(s), Verified(s), NEW b \in DOMAIN s.blocks, NEW i \in InstrsOf(s, b)
    PROVE  InstrReadsInside(s, b, i)
<1>1. i \in DOMAIN s.instrs /\ (s.instrs[i].dst # NoRegister => s.instrs[i].dst \in DOMAIN s.registers)
  BY DEF Verified, BlocksFit
<1>2. ASSUME NEW o \in Operands(s, i)
      PROVE  /\ o \in DOMAIN s.operands /\ s.operands[o].type \in DOMAIN s.types
             /\ s.operands[o].idx \in DOMAIN Table(s, s.operands[o].tag)
  BY <1>2 DEF Verified, InstrsFit, TypesFit
<1>3. ASSUME NEW p \in BranchParams(s, i)
      PROVE  p \in DOMAIN s.params /\ s.params[p].reg \in DOMAIN s.registers
  BY <1>3, BranchFacts DEF Verified, BlocksFit
<1> QED BY <1>1, <1>2, <1>3, ArgumentInside DEF InstrReadsInside

\* The invariant knows what is left, and that the storage verified.
LEMMA InvReadsInside == Inv => ReadsInside
<1> SUFFICES ASSUME Inv PROVE ReadsInside
  OBVIOUS
<1>1. IsStorage(storage) /\ (phase \notin {"verify", "done"} => Verified(storage))
  BY StorageFacts DEF Inv, Flow
<1>2. ASSUME phase \in {"function", "blocks", "phis", "code"}
      PROVE  /\ fn \in DOMAIN storage.functions /\ BlocksOf(storage, fn) \subseteq DOMAIN storage.blocks
             /\ {storage.functions[fn].ret} \cup Slots(storage.functions[fn].params)
                    \subseteq DOMAIN storage.types
  BY <1>2, FunctionFacts DEF Inv, Verified, TypesFit
<1>3. ASSUME phase = "immutables", NEW m \in Entries(todo)
      PROVE  m \in DOMAIN storage.immutables /\ storage.immutables[m] \in DOMAIN storage.types
  BY <1>1, <1>3 DEF Inv, Work, Verified, TypesFit
<1>4. ASSUME phase = "externals", NEW x \in Entries(todo) PROVE x \in DOMAIN storage.externals
  BY <1>4 DEF Inv, Work
<1>5. ASSUME phase = "blocks", NEW b \in Entries(todo) PROVE b \in DOMAIN storage.blocks
  BY <1>2, <1>5 DEF Inv, Work
<1>6. ASSUME phase = "phis", NEW p \in Entries(todo)
      PROVE  /\ p \in DOMAIN storage.params /\ storage.params[p].type \in DOMAIN storage.types
             /\ storage.params[p].reg \in DOMAIN storage.registers
  <2>1. PICK b \in DOMAIN storage.blocks : p \in ParamsOf(storage, b)
    BY <1>2, <1>6 DEF Inv, Work, ParamsIn
  <2> QED BY <1>1, <1>6, <2>1 DEF Verified, TypesFit, BlocksFit
<1>7. ASSUME phase = "code", NEW y \in Entries(todo)
      PROVE  InstrReadsInside(storage, y.block, y.instr)
  <2>1. y.block \in DOMAIN storage.blocks /\ y.instr \in InstrsOf(storage, y.block)
    BY <1>2, <1>7 DEF Inv, Work, ItemsIn, ItemsOf
  <2> QED BY <1>1, <1>7, <2>1, InstrInside
<1>8. ASSUME phase \notin {"verify", "done"}
      PROVE  /\ NodesFit(storage)
             /\ \A r \in DOMAIN storage.registers : storage.registers[r] \in DOMAIN storage.types
  BY <1>1, <1>8 DEF Verified, TypesFit
<1> QED BY <1>2, <1>3, <1>4, <1>5, <1>6, <1>7, <1>8 DEF ReadsInside

\* The loops of emit() and type() index the tables of the storage without a
\* check of their own: what verify_storage accepted has to be enough. However
\* far they are with whichever storage, the entries they read next exist. Not
\* claimed, because nothing verifies them: the signatures of external
\* functions, what references point to, and the arguments of a branch that has
\* too few, or whose target is not the block with the first parameters.
THEOREM EmitterReadsInsideCorrect == Spec => []ReadsInside
BY InvReadsInside, SpecInv, PTL

\* The code of a function that was emitted is complete and exact.
LEMMA EmittedFunctions ==
    ASSUME Inv, NEW f \in Emitted
    PROVE  /\ f \in DOMAIN storage.functions
           /\ \A n \in DOMAIN code : code[n].fn = f =>
                  code[n] = Lowered(storage, f, code[n].block, code[n].instr)
           /\ \A b \in BlocksOf(storage, f) : \A i \in InstrsOf(storage, b) :
                  Emits(storage, i) => Created(f, b, i)
<1>1. f \in DOMAIN storage.functions
  BY DEF Emitted
<1>2. ASSUME NEW n \in DOMAIN code, code[n].fn = f
      PROVE  code[n] = Lowered(storage, f, code[n].block, code[n].instr)
  <2> DEFINE c == code[n]
             operand(k) == OperandAt(storage, c.instr, Reads(storage, c.instr)[k])
  <2>1. c \in LlvmInstr /\ CodeFits(storage, c)
    BY CodeEntry
  <2>2. \A k \in DOMAIN c.args : c.args[k] = Denotes(storage, f, operand(k))
    BY <1>2 DEF Inv, EmittedExact
  <2>3. c = [fn |-> c.fn, block |-> c.block, instr |-> c.instr, args |-> c.args]
    BY <2>1 DEF LlvmInstr
  <2>4. DOMAIN c.args = DOMAIN Reads(storage, c.instr)
    BY <2>1 DEF CodeFits
  <2>5. c.args = [k \in DOMAIN c.args |-> c.args[k]]
    <3>1. c.args \in Seq(Vals)
      BY <2>1 DEF LlvmInstr
    <3> HIDE DEF c
    <3> QED BY <3>1
  <2>6. Lowered(storage, f, c.block, c.instr) =
            [fn |-> f, block |-> c.block, instr |-> c.instr,
             args |-> [k \in DOMAIN Reads(storage, c.instr) |-> Denotes(storage, f, operand(k))]]
    BY DEF Lowered
  <2> HIDE DEF c, operand
  <2>7. c.args = [k \in DOMAIN Reads(storage, c.instr) |-> Denotes(storage, f, operand(k))]
    BY <2>2, <2>4, <2>5
  <2>8. c.fn = f
    BY <1>2 DEF c
  <2>9. c = Lowered(storage, f, c.block, c.instr)
    BY <2>3, <2>6, <2>7, <2>8
  <2> QED BY <2>9 DEF c
<1>3. \A b \in BlocksOf(storage, f) : \A i \in InstrsOf(storage, b) :
          Emits(storage, i) => Created(f, b, i)
  BY <1>1 DEF Inv, CodeComplete, Passed
<1> QED BY <1>1, <1>2, <1>3

\* A function that was emitted is of a storage that verified.
LEMMA EmittedStorage ==
    ASSUME Inv, NEW f \in Emitted, NEW b \in BlocksOf(storage, f)
    PROVE  /\ f \in DOMAIN storage.functions /\ Verified(storage) /\ IsStorage(storage)
           /\ b \in DOMAIN storage.blocks
<1>1. f \in Nat /\ f <= fn /\ fn \in Nat /\ fn # 0
  BY StorageFacts DEF Inv, Emitted
<1>2. Verified(storage) /\ IsStorage(storage)
  BY <1>1, StorageFacts DEF Inv, Flow
<1> QED BY <1>2, EmittedFunctions DEF Verified, FunctionsFit

\* A block ends in its only branch.
LEMMA OneBranch ==
    ASSUME NEW s, IsStorage(s), Verified(s), NEW b \in DOMAIN s.blocks,
           NEW i \in InstrsOf(s, b), s.instrs[i].op = "Br",
           NEW j \in InstrsOf(s, b), NEW p \in BranchParams(s, j)
    PROVE  i = j
<1>1. \A k \in InstrsOf(s, b) : k <= i
  BY DEF Verified, InstrsFit, Terminator
<1>2. \A k \in InstrsOf(s, b) : k <= j
  BY BranchFacts
<1>3. i \in Nat /\ j \in Nat
  BY BlockSlots
<1> QED BY <1>1, <1>2, <1>3

\* For the block whose parameters come first, the index is the position.
LEMMA TakenInPosition ==
    ASSUME NEW s, IsStorage(s), Verified(s), NEW f, NEW b \in DOMAIN s.blocks,
           NEW i \in InstrsOf(s, b), NEW p \in BranchParams(s, i), ParamsOfTarget(s, i).head = 1
    PROVE  TakenEdge(s, f, b, i, p) = LoweredEdge(s, f, b, i, p)
<1>1. p \in Nat
  BY BranchFacts, BlockSlots
<1>2. s.instrs[i].operands.head \in Nat
  BY InstrRange DEF Verified, BlocksFit
<1>3. s.instrs[i].operands.head + (1 + (p - 1)) = s.instrs[i].operands.head + p
  BY <1>1, <1>2
<1>4. OperandAt(s, i, 1 + PlaceOf(s, i, p)) = s.operands[ArgumentOf(s, i, p)]
  BY <1>3 DEF OperandAt, PlaceOf, ArgumentOf
<1> QED BY <1>4 DEF TakenEdge, LoweredEdge

\* So it is the lowering of the function, instruction by instruction.
LEMMA InvLowered == Inv => LoweredFaithfully
<1> SUFFICES ASSUME Inv PROVE LoweredFaithfully
  OBVIOUS
<1>1. ASSUME NEW f \in Emitted
      PROVE  CodeOf(f) = UNION {{Lowered(storage, f, b, i) :
                                    i \in {j \in InstrsOf(storage, b) : Emits(storage, j)}} :
                                b \in BlocksOf(storage, f)}
  <2>1. ASSUME NEW c \in CodeOf(f)
        PROVE  \E b \in BlocksOf(storage, f) : \E i \in InstrsOf(storage, b) :
                   Emits(storage, i) /\ c = Lowered(storage, f, b, i)
    <3>1. PICK n \in DOMAIN code : code[n].fn = f /\ c = code[n]
      BY DEF CodeOf
    <3>2. /\ c.block \in BlocksOf(storage, f) /\ c.instr \in InstrsOf(storage, c.block)
          /\ Emits(storage, c.instr)
      BY <3>1, CodeEntry DEF CodeFits
    <3>3. c = Lowered(storage, f, c.block, c.instr)
      BY <3>1, EmittedFunctions
    <3> QED BY <3>2, <3>3
  <2>2. ASSUME NEW b \in BlocksOf(storage, f), NEW i \in InstrsOf(storage, b), Emits(storage, i)
        PROVE  Lowered(storage, f, b, i) \in CodeOf(f)
    <3>1. PICK n \in DOMAIN code : code[n].fn = f /\ code[n].block = b /\ code[n].instr = i
      BY <2>2, EmittedFunctions DEF Created
    <3>2. code[n] = Lowered(storage, f, b, i)
      BY <3>1, EmittedFunctions
    <3> QED BY <3>1, <3>2 DEF CodeOf
  <2> QED BY <2>1, <2>2
<1>2. ASSUME NEW f \in Emitted, NEW b \in BlocksOf(storage, f), NEW i \in Branches(storage, b),
             ParamsOfTarget(storage, i).head = 1
      PROVE  BranchLowered(storage, f, b, i)
  <2>1. /\ f \in DOMAIN storage.functions /\ Verified(storage) /\ IsStorage(storage)
        /\ b \in DOMAIN storage.blocks
    BY EmittedStorage
  <2>2. i \in InstrsOf(storage, b) /\ storage.instrs[i].op = "Br"
    BY DEF Branches
  <2>3. \A p \in BranchParams(storage, i) :
            TakenEdge(storage, f, b, i, p) = LoweredEdge(storage, f, b, i, p)
    BY <1>2, <2>1, <2>2, TakenInPosition
  <2>4. ASSUME NEW e \in incoming, e.from = Value("block", f, b)
        PROVE  \E p \in BranchParams(storage, i) : e = LoweredEdge(storage, f, b, i, p)
    <3>1. PICK n \in DOMAIN code : \E p \in BranchParams(storage, code[n].instr) :
              EdgeOf(storage, code[n], p, e)
      BY DEF Inv, EdgesFit
    <3>2. PICK p \in BranchParams(storage, code[n].instr) : EdgeOf(storage, code[n], p, e)
      BY <3>1
    <3>3. code[n].fn = f /\ code[n].block = b
      BY <2>4, <3>2 DEF EdgeOf, Value
    <3>4. code[n].instr \in InstrsOf(storage, b)
      BY <3>3, CodeEntry
    <3>5. code[n].instr = i
      BY <2>1, <2>2, <3>2, <3>4, OneBranch
    <3>6. e = TakenEdge(storage, f, b, i, p)
      BY <3>2, <3>3, <3>5 DEF Inv, EmittedExact
    <3> QED BY <2>3, <3>2, <3>5, <3>6
  <2>5. ASSUME NEW p \in BranchParams(storage, i)
        PROVE  LoweredEdge(storage, f, b, i, p) \in {e \in incoming : e.from = Value("block", f, b)}
    <3>1. Emits(storage, i)
      BY <2>1, <2>2, BranchFacts
    <3>2. PICK n \in DOMAIN code : code[n].fn = f /\ code[n].block = b /\ code[n].instr = i
      BY <2>2, <3>1, EmittedFunctions DEF Created
    <3>3. PICK e \in incoming : EdgeOf(storage, code[n], p, e)
      BY <3>2 DEF Inv, EdgesFit
    <3>4. e = TakenEdge(storage, f, b, i, p)
      BY <3>2, <3>3 DEF Inv, EmittedExact
    <3>5. e.from = Value("block", f, b)
      BY <3>2, <3>3 DEF EdgeOf
    <3> QED BY <2>3, <3>4, <3>5
  <2> QED BY <2>4, <2>5 DEF BranchLowered
<1>3. \A m, n \in DOMAIN code : m < n => CreatedBefore(code[m], code[n])
  BY DEF Inv, CodeSorted
<1> QED BY <1>1, <1>2, <1>3 DEF LoweredFaithfully

\* For every storage: the LLVM instructions of a function that was emitted
\* are those of its IR instructions, one for each, in table order, and their
\* operands are what the IR operands mean in that function, although all
\* functions write one values_ table. A phi node of the block whose parameters
\* come first in the table has from each branch the argument at its own
\* position (docs/ir.md:68).
THEOREM LoweredFaithfullyCorrect == Spec => []LoweredFaithfully
BY SpecInv, InvLowered, PTL

-----------------------------------------------------------------------------
\* The edges from the code of a function into a block are those that the
\* phi nodes of the block have values for.
LEMMA InvPhis == Inv => PhisCoverEdges
<1> SUFFICES ASSUME Inv, phase = "code", todo = <<>>,
                    NEW b \in BlocksOf(storage, fn), NEW p \in ParamsOf(storage, b)
             PROVE  LET into == {e \in incoming : e.phi = Value("phi", fn, storage.params[p].reg)} IN
                    /\ {e.from.of : e \in into} = {x[1] : x \in {y \in Edges(storage, fn) : y[2] = b}}
                    /\ Cardinality(into) = Cardinality({e.from : e \in into})
  BY DEF PhisCoverEdges
<1> DEFINE reg == storage.params[p].reg
           into == {e \in incoming : e.phi = Value("phi", fn, reg)}
           preds == {x[1] : x \in {y \in Edges(storage, fn) : y[2] = b}}
<1>1. /\ Verified(storage) /\ IsStorage(storage) /\ fn \in DOMAIN storage.functions /\ fn \in Nat
      /\ b \in DOMAIN storage.blocks
  BY FunctionFacts, StorageFacts DEF Inv
<1>2. ASSUME NEW e \in into PROVE e.from.of \in preds
  <2>1. PICK n \in DOMAIN code : \E q \in BranchParams(storage, code[n].instr) :
            EdgeOf(storage, code[n], q, e)
    BY DEF Inv, EdgesFit
  <2> DEFINE c == code[n]
             target == OperandAt(storage, c.instr, 0)
  <2>2. PICK q \in BranchParams(storage, c.instr) : EdgeOf(storage, c, q, e)
    BY <2>1
  <2>3. /\ CodeFits(storage, c) /\ c.fn \in Nat /\ c.fn <= fn /\ c.block \in DOMAIN storage.blocks
        /\ c.instr \in InstrsOf(storage, c.block)
    BY CodeEntry
  <2>4. c.fn = fn
    <3>1. e.phi.fn = fn /\ e.phi.fn <= c.fn
      BY <2>2 DEF EdgeOf, Value
    <3> HIDE DEF c
    <3> QED BY <1>1, <2>3, <3>1
  <2>5. /\ storage.instrs[c.instr].op = "Br" /\ target.tag = "Block"
        /\ target.idx \in DOMAIN storage.blocks /\ q \in ParamsOf(storage, target.idx)
        /\ Reads(storage, c.instr) = <<0>>
    <3> HIDE DEF c
    <3> QED BY <1>1, <2>2, <2>3, BranchFacts DEF target
  <2>6. target.idx = b
    <3>1. storage.params[q].reg = reg
      BY <2>2 DEF EdgeOf, Value
    <3> HIDE DEF target, reg
    <3> QED BY <1>1, <2>5, <3>1 DEF Verified, DefinedOnce, reg
  <2>7. 1 \in DOMAIN c.args /\ Held(storage, c.fn, target, c.args[1])
    <3> HIDE DEF c
    <3> QED BY <2>3, <2>5 DEF CodeFits, target
  <2>8. c.args[1].of = b
    <3> HIDE DEF c, target
    <3> QED BY <2>5, <2>6, <2>7, BlockHeld
  <2>9. c \in CodeOf(fn) /\ IsTargetOffset(storage.instrs[c.instr].op, 1 - 1)
    BY <2>4, <2>5 DEF CodeOf, IsTargetOffset
  <2>10. e.from.of = c.block
    BY <2>2 DEF EdgeOf, Value
  <2> HIDE DEF c, target
  <2>11. <<c.block, b>> \in Edges(storage, fn)
    BY <2>7, <2>8, <2>9 DEF Edges
  <2>12. \E y \in {z \in Edges(storage, fn) : z[2] = b} : e.from.of = y[1]
    BY <2>10, <2>11
  <2> QED BY <2>12
<1>3. ASSUME NEW y \in Edges(storage, fn), y[2] = b
      PROVE  \E e \in into : y[1] = e.from.of
  <2> DEFINE IsEdge(c, k) == /\ IsTargetOffset(storage.instrs[c.instr].op, k - 1)
                             /\ y = <<c.block, c.args[k].of>>
  <2>16. PICK c \in CodeOf(fn) : \E k \in DOMAIN c.args : IsEdge(c, k)
    BY DEF Edges
  <2>1. PICK k \in DOMAIN c.args : IsEdge(c, k)
    BY <2>16
  <2>2. PICK n \in DOMAIN code : c = code[n] /\ c.fn = fn
    BY <2>1 DEF CodeOf
  <2> DEFINE op == storage.instrs[c.instr].op
             j == Reads(storage, c.instr)[k]
             target == OperandAt(storage, c.instr, j)
  <2>3. /\ CodeFits(storage, c) /\ c.block \in DOMAIN storage.blocks
        /\ c.instr \in InstrsOf(storage, c.block)
    BY <2>2, CodeEntry
  <2>4. Held(storage, fn, target, c.args[k]) /\ k \in DOMAIN Reads(storage, c.instr)
    BY <2>2, <2>3 DEF CodeFits
  <2>5. ShapeError(storage, c.instr) = Ok
    BY <1>1, <2>3 DEF Verified, InstrsFit
  <2>6. ASSUME IsPlainTarget(storage, c.instr, j) PROVE FALSE
    <3>1. target.tag = "Block" /\ ParamsOf(storage, target.idx) = {}
      BY <2>6 DEF IsPlainTarget, IsTag
    <3> HIDE DEF target
    <3>2. c.args[k].of = target.idx
      BY <2>4, <3>1, BlockHeld
    <3> QED BY <1>3, <2>1, <3>1, <3>2
  <2>7. op # "CondBr"
    <3> SUFFICES ASSUME op = "CondBr" PROVE FALSE
      OBVIOUS
    <3>1. CondBrShape(storage, c.instr)
      BY <2>5 DEF ShapeError, Unless, Ok
    <3>2. Reads(storage, c.instr) = [m \in 1 .. Arity(storage, c.instr) |-> m - 1]
      BY DEF Reads, OnlyForDst, Arithmetic
    <3>3. k - 1 \in {1, 2} /\ j = k - 1
      BY <2>1, <2>4, <3>2 DEF IsTargetOffset
    <3>4. IsPlainTarget(storage, c.instr, j)
      <4> HIDE DEF j
      <4> QED BY <3>1, <3>3 DEF CondBrShape
    <3> QED BY <2>6, <3>4
  <2>8. op # "Switch"
    <3> SUFFICES ASSUME op = "Switch" PROVE FALSE
      OBVIOUS
    <3>1. SwitchShape(storage, c.instr)
      BY <2>5 DEF ShapeError, Unless, Ok
    <3>2. Reads(storage, c.instr) = [m \in 1 .. Arity(storage, c.instr) |-> m - 1]
      BY DEF Reads, OnlyForDst, Arithmetic
    <3>3. (k - 1) % 2 = 1 /\ k \in 1 .. Arity(storage, c.instr) /\ j = k - 1
      BY <2>1, <2>4, <3>2 DEF IsTargetOffset
    <3>4. j \in 1 .. Arity(storage, c.instr) - 1 /\ j % 2 = 1
      <4>1. Arity(storage, c.instr) \in Nat
        BY <1>1, <2>3, InstrRange DEF Verified, BlocksFit
      <4> HIDE DEF j
      <4>2. k # 1
        BY <3>3
      <4> QED BY <3>3, <4>1, <4>2
    <3>5. IsPlainTarget(storage, c.instr, j)
      <4> HIDE DEF j
      <4> QED BY <3>1, <3>4 DEF SwitchShape
    <3> QED BY <2>6, <3>5
  <2>9. op = "Br"
    BY <2>1, <2>7, <2>8 DEF IsTargetOffset
  <2>10. j = 0 /\ target.tag = "Block"
    <3>1. Reads(storage, c.instr) = <<0>>
      BY <2>9 DEF Reads, OnlyForDst, Arithmetic
    <3>2. j = 0
      BY <2>4, <3>1
    <3>3. BrShape(storage, c.instr)
      BY <2>5, <2>9 DEF ShapeError, Unless, Ok
    <3> QED BY <3>2, <3>3 DEF BrShape, IsTag
  <2>11. target.idx = b
    <3> HIDE DEF target
    <3>1. c.args[k].of = target.idx
      BY <2>4, <2>10, BlockHeld
    <3> QED BY <1>3, <2>1, <3>1
  <2>12. p \in BranchParams(storage, c.instr) /\ OperandAt(storage, c.instr, 0).idx = b
    BY <2>9, <2>10, <2>11 DEF BranchParams
  <2>13. PICK e \in incoming : EdgeOf(storage, c, p, e) /\ e.phi.fn = fn
    BY <2>2, <2>12 DEF Inv, EdgesFit
  <2>14. e.phi = Value("phi", fn, reg)
    BY <2>2, <2>12, <2>13, EdgeHere
  <2>15. e.from.of = c.block /\ e \in into
    BY <2>13, <2>14 DEF EdgeOf, Value
  <2> QED BY <2>1, <2>15
<1>4. {e.from.of : e \in into} = preds
  <2> HIDE DEF into
  <2> QED BY <1>2, <1>3
<1>5. Cardinality(into) = Cardinality({e.from : e \in into})
  <2> DEFINE T == {e.from : e \in into}
             F == [e \in into |-> e.from]
  <2>1. IsFiniteSet(into)
    <3>1. IsFiniteSet(incoming) /\ into \subseteq incoming
      BY DEF Inv, TypeOK
    <3> HIDE DEF into
    <3> QED BY <3>1, FS_Subset
  <2>2. \A e, d \in into : e.from = d.from => e = d
    BY DEF Inv, EdgesFit
  <2> HIDE DEF into
  <2>3. F \in Surjection(into, T) /\ F \in Injection(into, T)
    BY <2>2 DEF Surjection, Injection, IsInjective
  <2> HIDE DEF F, T
  <2>4. Cardinality(T) = Cardinality(into)
    BY <2>1, <2>3, FS_Surjection
  <2> QED BY <2>4 DEF T
<1> QED BY <1>4, <1>5

\* For every storage: when the code of a function is complete, each phi node
\* of it has one incoming value for each edge into its block.
THEOREM PhisCoverEdgesCorrect == Spec => []PhisCoverEdges
BY SpecInv, InvPhis, PTL

=============================================================================
