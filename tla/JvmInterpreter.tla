--------------------------- MODULE JvmInterpreter ----------------------------
(* tier0_granit/JvmInterpreter.cpp: the loop of JvmInterpreter::run.            *)
(*                                                                              *)
(* An error of a helper (underflow, overflow, a value of the wrong type) only   *)
(* raises frame.error; the loop looks at it after the switch, so a taken branch *)
(* and a return, which leave the switch by continue and return, pass it by.     *)
EXTENDS JvmCode, SonMachine

CONSTANT KMaxJvmStack   \* 256 in the code
ASSUME StackAssumption == KMaxJvmStack \in Nat

VARIABLES
  frame,    \* JvmFrame: pc, stack, locals, error
  outcome,  \* what run returned, or that it is still running
  narrow    \* history: an operation gave something else than 64-bit code would have

interpVars == <<frame, outcome, narrow>>

Value(t, v) == [t |-> t, v |-> v]
Int32(v) == Value("int", v)
Long(v) == Value("long", v)
Float(v) == Value("float", v)
Null == Value("null", 0)
Uninit == Value("uninit", 0)

Frame(locals) == [pc |-> 0, stack |-> <<>>, locals |-> locals, error |-> FALSE]
Running == [status |-> "running", value |-> Uninit]

InterpInit(args) == frame = Frame(args) /\ outcome = Running /\ narrow = FALSE

-----------------------------------------------------------------------------
(* JvmFrame.                                                                   *)
Raise(f, p) == [f EXCEPT !.error = @ \/ p]

(* Mutant of Push: no check of the capacity.                                    *)
PushUnchecked(f, v) == [f EXCEPT !.stack = Append(@, v)]

Push(f, v) == IF Len(f.stack) < KMaxJvmStack THEN [f EXCEPT !.stack = Append(@, v)]
                                             ELSE Raise(f, TRUE)
Top(f) == IF f.stack = <<>> THEN Uninit ELSE Last(f.stack)
Pop(f) == IF f.stack = <<>> THEN Raise(f, TRUE) ELSE [f EXCEPT !.stack = Front(@)]

(* as_i32, as_i64, as_f64: the value, 0 with an error when it is no such value. *)
Accepts(t) == IF t = "float" THEN {"int", "long", "float"} ELSE {"int", "long"}
As(t, x) == CASE x.t \notin Accepts(t) -> 0
              [] x.t \in Accepts(t) /\ t = "int" -> Wrap32(x.v)
              [] x.t \in Accepts(t) /\ t # "int" -> x.v

-----------------------------------------------------------------------------
Instr == method[frame.pc + 1]
At(op) == outcome = Running /\ frame.pc < Len(method) /\ Instr.op = op

Give(status, value) == outcome' = [status |-> status, value |-> value]

(* break: the check after the switch, then the next instruction.               *)
Break(f) ==
  IF f.error THEN Give("failed", Uninit) /\ UNCHANGED frame
             ELSE frame' = [f EXCEPT !.pc = @ + 1] /\ UNCHANGED outcome

Constant == At("const") /\ Break(Push(frame, Value(Instr.t, Instr.n))) /\ UNCHANGED narrow

LoadLocal == At("load") /\ Break(Push(frame, frame.locals[Instr.n])) /\ UNCHANGED narrow

StoreLocal ==
  /\ At("store")
  /\ Break([Pop(frame) EXCEPT !.locals[Instr.n] = Top(frame)])
  /\ UNCHANGED narrow

Increment ==
  /\ At("iinc")
  /\ LET cur == frame.locals[Instr.n]
         sum == As("int", cur) + Instr.d
     IN  /\ Break(Raise([frame EXCEPT !.locals[Instr.n] = Int32(Wrap32(sum))],
                        cur.t \notin Accepts("int")))
         /\ narrow' = (narrow \/ Wrap32(sum) # Arith("Add", cur.v, Instr.d))

(* DupX2 and Dup2 are not supported here, though the lowerer takes them.        *)
StackOperation ==
  /\ At("stack")
  /\ LET v1 == Top(frame)
         one == Pop(frame)
         v2 == Top(one)
         two == Pop(one)
     IN  CASE Instr.what = "pop" -> Break(one)
           [] Instr.what = "pop2" -> Break(IF one.stack = <<>> THEN one ELSE two)
           [] Instr.what = "dup" -> Break(Push(Raise(frame, frame.stack = <<>>), v1))
           [] Instr.what = "dup_x1" -> Break(Push(Push(Push(two, v1), v2), v1))
           [] Instr.what = "swap" -> Break(Push(Push(two, v1), v2))
           [] OTHER -> Give("failed", Uninit) /\ UNCHANGED frame
  /\ UNCHANGED narrow

(* Int shifts use five bits of the count.                                       *)
IntArith(kind, a, b) ==
  LET count == b % IntBits
  IN  CASE kind = "Shl" -> Wrap32(a * 2 ^ count)
        [] kind = "Sar" -> a \div 2 ^ count
        [] kind = "Shr" -> Wrap32(Unsigned(IntBits, a) \div 2 ^ count)
        [] OTHER -> Wrap32(Arith(kind, a, b))

Supported(t) == IF t = "int" THEN IntKinds ELSE {"Add", "Sub", "Mul"}

(* The least int divided by -1 is undefined; the build's idiv traps.            *)
Undefined(kind, a, b) == kind \in {"Div", "Mod"} /\ b = -1 /\ a # 0 /\ Wrap32(-a) = a

BinaryOperation ==
  /\ At("binary")
  /\ LET t == Instr.t
         kind == Instr.kind
         y == Top(frame)
         x == Top(Pop(frame))
         rest == Raise(Pop(Pop(frame)), ~({x.t, y.t} \subseteq Accepts(t)))
         a == As(t, x)
         b == As(t, y)
         divides == t = "int" /\ kind \in {"Div", "Mod"} /\ b = 0
         res == IF t = "int" THEN IntArith(kind, a, b) ELSE Arith(kind, a, b)
     IN  IF kind \notin Supported(t) \/ divides
           THEN Give("failed", Uninit) /\ UNCHANGED <<frame, narrow>>
         ELSE IF t = "int" /\ Undefined(kind, a, b)
           THEN Give("trapped", Uninit) /\ UNCHANGED <<frame, narrow>>
         ELSE /\ Break(Push(rest, Value(t, res)))
              /\ narrow' = (narrow \/ Traps(kind, x.v, y.v) \/ res # Arith(kind, x.v, y.v))

Negate ==
  /\ At("neg")
  /\ LET x == Top(frame)
         v == -As("int", x)
     IN  IF Instr.t # "int" THEN Give("failed", Uninit) /\ UNCHANGED <<frame, narrow>>
         ELSE /\ Break(Push(Raise(Pop(frame), x.t \notin Accepts("int")), Int32(Wrap32(v))))
              /\ narrow' = (narrow \/ Wrap32(v) # Wrap64(-x.v))

Convert ==
  /\ At("conv")
  /\ LET x == Top(frame)
         v == As(Instr.t, x)
         converted(a) == IF Instr.to = "int" THEN Wrap32(a) ELSE a
     IN  /\ Break(Push(Raise(Pop(frame), x.t \notin Accepts(Instr.t)),
                       Value(Instr.to, converted(v))))
         /\ narrow' = (narrow \/ converted(v) # converted(x.v))

CompareValues ==
  /\ At("cmp")
  /\ LET y == Top(frame)
         x == Top(Pop(frame))
         a == As(Instr.t, x)
         b == As(Instr.t, y)
         sign == IF a < b THEN -1 ELSE Truth(a > b)
     IN  Break(Push(Raise(Pop(Pop(frame)), ~({x.t, y.t} \subseteq Accepts(Instr.t))),
                    Int32(sign)))
  /\ UNCHANGED narrow

Holds(cond, a, b) ==
  CASE cond = "eq" -> a = b [] cond = "ne" -> a # b
    [] cond = "lt" -> a < b [] cond = "ge" -> a >= b
    [] cond = "gt" -> a > b [] cond = "le" -> a <= b

(* A taken branch goes on without the check.                                    *)
Branch ==
  /\ At("if") /\ Instr.against # "ref"
  /\ LET y == Top(frame)
         x == Top(Pop(frame))
         two == Instr.against = "value"
         popped == IF two THEN Pop(Pop(frame)) ELSE Pop(frame)
         wrong == \E v \in (IF two THEN {x, y} ELSE {y}) : v.t \notin Accepts("int")
         taken == CASE Instr.against = "null" -> (y.t = "null") = (Instr.cond = "eq")
                    [] Instr.against = "zero" -> Holds(Instr.cond, As("int", y), 0)
                    [] OTHER -> Holds(Instr.cond, As("int", x), As("int", y))
         f == IF Instr.against = "null" THEN popped ELSE Raise(popped, wrong)
     IN  IF taken THEN frame' = [f EXCEPT !.pc = Instr.d] /\ UNCHANGED outcome
                  ELSE Break(f)
  /\ UNCHANGED narrow

GotoTarget == At("goto") /\ frame' = [frame EXCEPT !.pc = Instr.d] /\ UNCHANGED <<outcome, narrow>>

ReturnVoid == At("return") /\ Give("returned", Uninit) /\ UNCHANGED <<frame, narrow>>

(* The popped value, uninit when there is none.                                 *)
ReturnTop == At("treturn") /\ Give("returned", Top(frame)) /\ UNCHANGED <<frame, narrow>>

(* Switches, references compared, and everything that needs the heap.           *)
NotInGranit(i) == i.op \in {"effect", "switch"} \/ (i.op = "if" /\ i.against = "ref")

Unsupported ==
  /\ outcome = Running /\ frame.pc < Len(method) /\ NotInGranit(Instr)
  /\ Give("failed", Uninit)
  /\ UNCHANGED <<frame, narrow>>

RunsOff ==
  /\ outcome = Running
  /\ frame.pc >= Len(method)
  /\ Give("returned", Top(frame))
  /\ UNCHANGED <<frame, narrow>>

InterpNext ==
  \/ Constant \/ LoadLocal \/ StoreLocal \/ Increment \/ StackOperation
  \/ BinaryOperation \/ Negate \/ Convert \/ CompareValues \/ Branch \/ GotoTarget
  \/ ReturnVoid \/ ReturnTop \/ Unsupported \/ RunsOff

=============================================================================
