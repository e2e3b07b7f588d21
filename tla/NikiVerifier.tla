----------------------------- MODULE NikiVerifier -----------------------------
(***************************************************************************)
(* verifyModuleIRFlat: what must hold of a module's IR before it is        *)
(* lowered.  An issue is named after its VerifyErrorCode.                  *)
(***************************************************************************)
EXTENDS NikiIR, Sequences

SlotsOfInst(inst) == {inst.dst, inst.a, inst.b, inst.c}

\* A slot refers to something: the IR has the functions registers and blocks.
\* An unpatched target is the largest unsigned number.  Every string id comes
\* from the pool the module was given, so none is out of range.
InRange(func, slot) ==
  CASE slot.kind = "VReg"    -> slot.value < func.next_vreg
    [] slot.kind = "BlockId" -> slot.value /= Unset /\ slot.value < func.count
    [] OTHER -> TRUE

InstIssues(b, func, block, k) ==
  LET inst == b.insts[k]
      last == k = block.begin + block.count
      at(code, bad) == IF bad THEN {code} ELSE {}
  IN  at("VRegOutOfRange", inst.kind = "Free" /\ inst.dst.kind /= "VReg")
        \cup at("TerminatorNotLast", inst.kind \in Terminators /\ ~last)
        \cup at("MissingTerminator", inst.kind \notin Terminators /\ last)
        \cup at("RefOutOfRange", \E slot \in SlotsOfInst(inst) : ~InRange(func, slot))

\* A block that nothing was emitted into begins nowhere, past every table.
BlockIssues(b, func, block) ==
  CASE block.count = 0 -> {"BlockEmpty"}
    [] block.count > 0 /\ block.begin + block.count > Len(b.insts) -> {"BlockInstSpanOutOfRange"}
    [] OTHER -> UNION {InstIssues(b, func, block, k) : k \in InstsOf(block)}

FunctionIssues(b, func) ==
  IF func.first + func.count > Len(b.blocks) THEN {"FunctionBlockSpanOutOfRange"}
  ELSE (IF func.count = 0 THEN {"EntryBlockOutOfRange"} ELSE {})
         \cup UNION {BlockIssues(b, func, BlockOf(b, func, n)) : n \in 1..func.count}

\* The domain's checks (src/l1_domain/validator.cpp) would be appended if any
\* code registered them: none does, and they do not run.
ItemsOf(kits) == (kits.first + 1)..(kits.first + kits.count)

KitsIssues(b, kits) ==
  CASE kits.first + kits.count > Len(b.kits_items) -> {"KitsItemSpanOutOfRange"}
    [] kits.first + kits.count <= Len(b.kits_items) /\
       (\E j, k \in ItemsOf(kits) : j # k /\ b.kits_items[j].alias = b.kits_items[k].alias) ->
         {"KitsDuplicateAliasInWindow"}
    [] OTHER -> {}

DuplicateExport(b) ==
  \E j, k \in DOMAIN b.syms : j # k /\ b.syms[j].name = b.syms[k].name /\ b.syms[j].exported /\ b.syms[k].exported

DomainIssues(b) ==
  UNION {KitsIssues(b, b.kits[k]) : k \in DOMAIN b.kits}
    \cup IF DuplicateExport(b) THEN {"DuplicateExportedSymbolName"} ELSE {}

verifyModuleIRFlat(b) == UNION {FunctionIssues(b, b.funcs[k]) : k \in DOMAIN b.funcs}
================================================================================
