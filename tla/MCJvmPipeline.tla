---------------------------- MODULE MCJvmPipeline ----------------------------
(* Families of short methods and the hand-built graphs of the unit tests.       *)
EXTENDS JvmPipeline

BinaryInt(kinds) == {Binary("int", k) : k \in kinds}

Arithmetic ==
  {PushConst("int", 0), PushConst("int", -1), PushConst("int", 2), PushConst("long", 5),
   Load(0), Store(0), Iinc(0, 1), Stack("dup"), Stack("swap"), Neg("int"),
   Conv("int", "long"), Conv("long", "int"), ReturnValue}
  \cup BinaryInt({"Add", "Sub", "Mul", "Div", "Xor"})

Effects ==
  {PushConst("int", 1), Load(0), Stack("pop"), Stack("dup"), Effect("LdFld", 1, TRUE),
   Effect("StFld", 2, FALSE), Effect("LdFld", 0, TRUE), Effect("StFld", 1, FALSE),
   Effect("CallVirt", 0, TRUE), Effect("NewObj", 0, TRUE), Effect("Throw", 1, FALSE)}

Control ==
  {PushConst("int", 1), Load(0), Binary("int", "Add"), If("zero", "eq", 4),
   If("value", "lt", 3), If("null", "ne", 0), If("ref", "eq", 3), Goto(4), Goto(0), Return}

Upto(n, S) == UNION {[1..k -> S] : k \in 1..n}

(* One prefix that fills the stack, then anything: the rarer opcodes.           *)
Rare ==
  {Stack(what) : what \in StackOps} \cup {Binary("long", k) : k \in {"Mul", "Div", "Shl"}}
  \cup {Neg("long"), Cmp("long"), Conv("long", "float"), Binary("float", "Add"),
        PushConst("null", 0), PushConst("float", 1), Load(1), Iinc(1, 1),
        Switch, If("null", "eq", 0), Effect("NewArr", 1, TRUE)}
Pushes == <<Load(0), PushConst("long", 3), Load(0)>>

MethodsOf(n) ==
  {Append(m, ReturnValue) : m \in Upto(n, Arithmetic)}
  \cup {Append(m, Return) : m \in Upto(n, Effects)}
  \cup Upto(n, Control)
  \cup {Append(Pushes \o m, ReturnValue) : m \in Upto(n - 1, Rare)}

(* Longer methods over fewer opcodes.                                           *)
CoreArithmetic == {PushConst("int", 2), Load(0), Store(0), Iinc(0, 1), Binary("int", "Sub")}
CoreEffects == {PushConst("int", 1), Stack("pop"), Effect("StFld", 2, FALSE),
                Effect("CallVirt", 0, TRUE), Effect("NewObj", 0, TRUE)}
CoreControl == {PushConst("int", 1), Load(0), Store(0), If("zero", "ne", 5), Goto(2)}

LongerMethods(n) ==
  {Append(m, ReturnValue) : m \in [1..n -> CoreArithmetic]}
  \cup {Append(m, Return) : m \in [1..n -> CoreEffects]}
  \cup {Append(m, ReturnValue) : m \in [1..n -> CoreControl]}

(* (x - 2) - (2 - x): the same operands in both orders.                         *)
Differences ==
  <<Load(0), PushConst("int", 2), Binary("int", "Sub"), PushConst("int", 2), Load(0),
    Binary("int", "Sub"), Binary("int", "Sub"), ReturnValue>>

(* -8 * -8 * -2: the least value in 64-bit code, of which granit keeps nothing. *)
LeastLong ==
  <<PushConst("int", -8), Stack("dup"), Binary("int", "Mul"), PushConst("int", -2),
    Binary("int", "Mul")>>
(* What SCCP does not know and ConstantFolding does, after x * 0 was simplified.*)
MinusOneLater == <<Load(0), PushConst("int", 0), Binary("int", "Mul"), PushConst("int", -1),
                   Binary("int", "Add")>>

LeastBy(divisors) ==
  {Method(LeastLong \o d \o <<Binary("int", k), ReturnValue>>, 1, 0) :
     d \in divisors, k \in {"Div", "Mod"}}
LeastByMinusOne == LeastBy({<<PushConst("int", -1)>>})
OtherDivisors == {<<PushConst("int", 0)>>, <<PushConst("int", 2)>>, <<Load(0)>>, MinusOneLater}

-----------------------------------------------------------------------------
(* CIL methods with one argument or one local.                                  *)
CilPure ==
  {LdC("int", -1), LdC("int", 3), LdC("long", 5), LdC("null", 0), CilDup, CilPop, ConvTo("int"),
   ConvTo("long"), Ret}
  \cup {CilBinary(k) : k \in {"Add", "Mul", "Div"}}
  \cup {Compare(k) : k \in {"Eq", "Lt"}}
OfArgument ==
  CilPure \cup {LdArg(0), Object("Box"), BrIf(TRUE, 4), BrCmp("Lt", 0), Br(3)}
OfLocal == CilPure \cup {LdLoc(0), StLoc(0), LdLoc(1)}

CilRare ==
  {LdC("float", 1), LdC("long", 124), StArg(0), BrIf(FALSE, 5), ConvTo("float"), Compare("Gt"), LdArg(0)}
  \cup {CilUnary(k) : k \in {"Neg", "Not"}} \cup {CilBinary(k) : k \in BitKinds \cup {"Sub", "Div"}}
  \cup {BrCmp(k, 5) : k \in {"Eq", "Ne", "Gt", "Lte", "Gte"}}
  \cup {Object(k) : k \in ObjectKinds}
CilPushes == <<LdArg(0), LdC("long", 125)>>

CoreCil == {LdC("int", 3), LdC("long", 5), LdArg(0), CilDup, ConvTo("long"), CilBinary("Add"),
            CilBinary("Mul"), Compare("Lt")}

CilByMinusOne ==
  {Method(<<least, LdC("long", -1), CilBinary("Div"), Ret>>, 0, 1) :
     least \in {LdC("long", -128), LdArg(0)}}

CilMethods(n) ==
  {Method(Append(m, Ret), 0, 1) : m \in Upto(n - 1, OfArgument) \cup [1..n -> CoreCil]}
  \cup {Method(m, 1, 0) : m \in Upto(n - 1, OfLocal)}
  \cup {Method(CilPushes \o m, 0, 1) : m \in Upto(n - 1, CilRare)}

-----------------------------------------------------------------------------
(* Methods that make an object and use it, in Java and in CIL.                  *)
NewObj == Effect("NewObj", 0, TRUE)
PutField == Effect("StFld", 2, FALSE)
GetField == Effect("LdFld", 1, TRUE)

ObjectOps ==
  {Stack("dup"), Stack("swap"), Stack("pop"), PushConst("int", 3), Load(0), NewObj, PutField,
   GetField, Effect("MonitorEnter", 1, FALSE), Effect("CallVirt", 1, TRUE)}
BoxOps == {CilDup, CilPop, LdArg(0), Object("Box"), Object("UnboxAny"), Object("IsInst"),
           CilBinary("Add")}

ObjectMethods(n) ==
  {Method(<<NewObj, Stack("dup")>> \o m \o <<ReturnValue>>, 1, 0) : m \in Upto(n, ObjectOps)}
  \cup {Method(<<NewObj, Stack("dup"), Load(0), PutField, Stack("dup")>> \o m \o <<ReturnValue>>,
               1, 0) : m \in Upto(n - 1, ObjectOps)}
  \cup {Method(<<LdArg(0), Object("Box")>> \o m \o <<Ret>>, 0, 1) : m \in Upto(n, BoxOps)}

(* A field that is set to the result of an operation, and read.                 *)
FieldMethods(operands, kinds) ==
  {Method(<<NewObj, Stack("dup"), x, y, Binary("int", k), PutField, GetField, ReturnValue>>, 1, 0) :
     x \in operands, y \in operands, k \in kinds}
FieldOperands == {Load(0), PushConst("int", 0), PushConst("int", 2), PushConst("int", 3)}

MCHotMethods ==
  {Method(m, 1, 0) : m \in MethodsOf(2) \cup {Differences}}
  \cup CilMethods(2) \cup ObjectMethods(3) \cup LeastByMinusOne \cup CilByMinusOne
  \cup FieldMethods(FieldOperands, {"Add", "Sub", "Mul", "Div", "And", "Xor", "Shl"})

MCMethods ==
  {Method(m, 1, 0) : m \in MethodsOf(3) \cup LongerMethods(4) \cup {Differences}}
  \cup CilMethods(3) \cup LeastBy(OtherDivisors) \cup MCHotMethods

-----------------------------------------------------------------------------
Pure0(kind, in) == NewNode(kind, in, NoId, NoId)
Guard(kind, in) == [Pure0(kind, in) EXCEPT !.state = TRUE]
StartNode == Pure0("Start", <<>>)

(* if (x) return x + 1; else return x; the projections in both orders, as in    *)
(* tests/unit/test_regression.cpp 54-69.                                        *)
IfElse(first, second) ==
  <<StartNode, Pure0("Phi", <<>>), ConstInt(1), Pure0("Add", <<2, 3>>),
    NewNode("If", <<2>>, 1, NoId),
    NewNode(first, <<>>, 5, NoId), NewNode("Return", <<IF first = "IfTrue" THEN 4 ELSE 2>>, 6, 1),
    NewNode(second, <<>>, 5, NoId), NewNode("Return", <<IF first = "IfTrue" THEN 2 ELSE 4>>, 8, 1)>>

(* i = 0; while (i < n) i = i + 1; return i: test_regression.cpp 293-345; with  *)
(* Shl from 1, what SLP does not pack.                                          *)
LoopTo(n, start, kind) ==
  <<StartNode, ConstInt(start), NewNode("StLoc", <<2>>, NoId, 1), ConstInt(n),
    NewNode("Loop", <<>>, 1, 3), Pure0("LdLoc", <<>>), Pure0("Lt", <<6, 4>>),
    NewNode("If", <<7>>, 5, 5),
    NewNode("IfFalse", <<>>, 8, NoId), Pure0("LdLoc", <<>>), NewNode("Return", <<10>>, 9, 9),
    NewNode("IfTrue", <<>>, 8, NoId), Pure0("LdLoc", <<>>), ConstInt(1),
    Pure0(kind, <<13, 14>>), NewNode("StLoc", <<15>>, 12, 12), NewNode("Jump", <<>>, 16, 16)>>

(* The loop with an If in its body: test_regression.cpp 782-855.                *)
LoopWithIf(start, kind) ==
  <<StartNode, ConstInt(start), NewNode("StLoc", <<2>>, NoId, 1), ConstInt(3), ConstInt(2),
    NewNode("Loop", <<>>, 1, 3), Pure0("LdLoc", <<>>), Pure0("Lt", <<7, 4>>),
    NewNode("If", <<8>>, 6, 6),
    NewNode("IfFalse", <<>>, 9, NoId), Pure0("LdLoc", <<>>), NewNode("Return", <<11>>, 10, 10),
    NewNode("IfTrue", <<>>, 9, NoId), Pure0("LdLoc", <<>>), Pure0("Lt", <<14, 5>>),
    NewNode("If", <<15>>, 13, 13), NewNode("IfTrue", <<>>, 16, NoId),
    NewNode("IfFalse", <<>>, 16, NoId), Pure0("LdLoc", <<>>), ConstInt(1),
    Pure0(kind, <<19, 20>>), NewNode("StLoc", <<21>>, 18, 18), NewNode("Jump", <<>>, 22, 22)>>

(* Two loops, one after the other: test_regression.cpp 717-748.                 *)
TwoLoops ==
  <<StartNode, NewNode("Loop", <<>>, 1, 1), NewNode("Jump", <<>>, 2, 2),
    NewNode("Loop", <<>>, 3, 3), NewNode("Jump", <<>>, 4, 4)>>

(* A loop that is not left, then a Return: test_real_passes.cpp 67-106.         *)
InvariantInLoop ==
  <<StartNode, ConstInt(0), NewNode("StLoc", <<2>>, NoId, 1), NewNode("Loop", <<>>, 1, 3),
    ConstInt(1), Pure0("LdLoc", <<>>), Pure0("Add", <<6, 5>>), NewNode("StLoc", <<7>>, 4, 4),
    NewNode("Jump", <<>>, 8, 8), NewNode("Return", <<2>>, 4, 9)>>

(* The guards of tests/unit/test_tier2_ruby_passes.cpp 238-331.                 *)
BoundsCheck(i) == <<ConstInt(i), ConstInt(4), Guard("CheckBounds", <<1, 2>>)>>
CheckOfNew ==
  <<StartNode, NewNode("NewObj", <<>>, NoId, 1), Guard("CheckNotNull", <<2>>)>>
CheckTwice ==
  <<Pure0("LdLoc", <<>>), Guard("CheckNotNull", <<1>>), Guard("CheckNotNull", <<2>>),
    Guard("CheckInt", <<1>>)>>
CountedCheck ==
  <<StartNode, ConstInt(0), ConstInt(1), ConstInt(4), Pure0("Phi", <<2, 6>>),
    Pure0("Add", <<5, 3>>), Guard("CheckBounds", <<5, 4>>)>>

(* callvirt on a receiver, returned or added to: test_final_passes.cpp 168-181. *)
VirtualCall ==
  <<StartNode, ConstInt(0), NewNode("CallVirt", <<2>>, NoId, 1), NewNode("Return", <<3>>, 1, 3)>>
VirtualCallUsed ==
  <<StartNode, ConstInt(0), NewNode("CallVirt", <<2>>, NoId, 1), Pure0("Add", <<3, 2>>),
    NewNode("Return", <<4>>, 1, 3)>>

(* Fields of objects: tests/unit/test_pea_materialize.cpp 162-238.              *)
OfField(offset, n) == [n EXCEPT !.cls = offset]
TwoFields ==
  <<StartNode, NewNode("Allocate", <<>>, NoId, 1), ConstInt(2), ConstInt(5),
    OfField(0, NewNode("StoreField", <<2, 3>>, NoId, 2)), OfField(1, NewNode("StoreField", <<2, 4>>, NoId, 5)),
    OfField(0, NewNode("LoadField", <<2>>, NoId, 6)), OfField(1, NewNode("LoadField", <<2>>, NoId, 7)),
    Pure0("Add", <<7, 8>>), NewNode("Return", <<9>>, 1, 8)>>
TwoObjects ==
  <<StartNode, NewNode("Allocate", <<>>, NoId, 1), NewNode("Allocate", <<>>, NoId, 2), ConstInt(5),
    NewNode("StoreField", <<2, 4>>, NoId, 3), NewNode("LoadField", <<2>>, NoId, 5),
    NewNode("StoreField", <<3, 6>>, NoId, 6), NewNode("LoadField", <<3>>, NoId, 7),
    NewNode("Return", <<8>>, 1, 8)>>

(* Independent sums and a sum of a sum: test_tier3_diamond.cpp 159-240.         *)
Sums(second) ==
  <<StartNode, Pure0("Phi", <<>>), ConstInt(2), Pure0("Add", <<2, 3>>), ConstInt(4),
    Pure0("Add", <<second, 5>>), Pure0("Sub", <<4, 6>>), NewNode("Return", <<7>>, 1, 1)>>

MCGraphs ==
  {IfElse("IfTrue", "IfFalse"), IfElse("IfFalse", "IfTrue"), LoopTo(0, 0, "Add"),
   LoopTo(3, 0, "Add"), LoopTo(3, 1, "Shl"), LoopWithIf(0, "Add"), LoopWithIf(1, "Shl"), TwoLoops, InvariantInLoop, BoundsCheck(3), BoundsCheck(4), BoundsCheck(-1), CheckOfNew,
   CheckTwice, CountedCheck, VirtualCall, VirtualCallUsed, TwoFields, TwoObjects, Sums(2), Sums(4)}

MCArguments == {Int32(-8), Int32(2), Long(6), Long(-128), Null}
MCEnvironments == {[id \in 1..32 |-> ((id * 3) % 5) - 2], [id \in 1..32 |-> 4 - (id % 3)]}

(* iload_0; iload_1; isub; ireturn.                                             *)
TwoLocals == {Method(<<Load(0), Load(1), Binary("int", "Sub"), ReturnValue>>, 2, 0)}
(* iload_0; iconst_m1; idiv; ireturn.                                           *)
IntByMinusOne == {Method(<<Load(0), PushConst("int", -1), Binary("int", "Div"), ReturnValue>>, 1, 0)}
(* new; dup; iload_0; iconst_2; imul; putfield; getfield; ireturn.              *)
DoubledField == FieldMethods({Load(0), PushConst("int", 2)}, {"Mul"})
(* iload_0; dup; imul; bipush 7; idiv; ireturn.                                 *)
SquareBySeven ==
  {Method(<<Load(0), Stack("dup"), Binary("int", "Mul"), PushConst("int", 7), Binary("int", "Div"),
            ReturnValue>>, 1, 0)}
(* Two longs compared of which a double holds no difference.                    *)
LongsCompared == {Method(<<LdC("long", 125), LdC("long", 124), Compare("Gt"), Ret>>, 0, 0)}
NoMethods == {}
NoGraphs == {}
==============================================================================
