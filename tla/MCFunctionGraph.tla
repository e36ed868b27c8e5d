-------------------------- MODULE MCFunctionGraph --------------------------
(* Instances of FunctionGraph for TLC.                                     *)
EXTENDS FunctionGraph

CONSTANTS old, new

\* The older build knew nothing of control dependence and of operands.
MCEmits == [v \in Versions |->
               {"contains", "cfg"} \cup IF v = old THEN {} ELSE {"control", "uses"}]

NoName == 0

Function(name, cfg, uses) == [name |-> name, cfg |-> cfg, uses |-> uses]
NoUses(cfg) == [b \in DOMAIN cfg |-> {}]
Declaration == Function(NoName, <<>>, <<>>)

\* Successors of a block among the blocks up to n: none, one, or a branch.
\* Nothing branches to the entry of a function (LLVM's verifier).
Successors(n) == UNION {[1..k -> 2..n] : k \in 0..2}
CFGs(n) == [1..n -> Successors(n)]

\* Every control-flow graph of four blocks, up to the numbering of the blocks
\* behind the entry, alone in its module.
Alone == {<<Function(NoName, cfg, NoUses(cfg))>> :
             cfg \in {c \in CFGs(4) : c[1] \in {<<2>>, <<2, 3>>}}}

\* A switch with two cases to the same block.
Switch == <<Function(NoName, <<<<2, 3, 3>>, <<3>>, <<>>>>, NoUses(<<1, 2, 3>>))>>

\* Two functions that use the same global, a constant of their own, each
\* other and a declaration; g is also branched over.
Uses(f, g) ==
    <<{Handle("global", 0, 1), Handle("constant", f, 1)},
      {FunctionHandle(g), FunctionHandle(3), Handle("constant", f, 2)}>>
Pair(cfg, n1, n2) == <<Function(n1, cfg, Uses(1, 2)),
                       Function(n2, <<<<2>>, <<2>>>>, Uses(2, 1)),
                       Declaration>>

MCModules == Alone \cup {Switch} \cup {Pair(cfg, NoName, NoName) : cfg \in CFGs(2)}

\* The first function of the module is called "f1", the key of the second.
Confused == {Pair(<<<<2>>, <<>>>>, 2, NoName)}
=============================================================================
