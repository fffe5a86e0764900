----------------------------- MODULE RegexInterp -----------------------------
(***************************************************************************)
(* What a compiled regular expression must do: one match by the engine's   *)
(* bytecode interpreter.  The interpreter is the engine's and not part of  *)
(* the repository; its instructions are those regex.rs decodes.  The       *)
(* backtrack stack holds code labels and grows without bound.              *)
(*                                                                         *)
(* An instruction is [op, arg, x, y, tab, lab, lab2]; labels are indices   *)
(* of instructions; a fused scan takes one step for each character.        *)
(***************************************************************************)
EXTENDS Integers, Sequences, FiniteSetsExt

CONSTANTS Programs,        \* [ins, nregs, nout]
          Subjects,        \* sequences of characters
          Radix,           \* characters are below it; packed loads are in this base
          CaseEq(_, _)     \* two characters are equal but for case

VARIABLES prog, subj, at, current, char, regs, stack, status, out

vars == <<prog, subj, at, current, char, regs, stack, status, out>>

NewLine == 10
Char(p) == subj[p + 1]
Length == Len(subj)

\* Bitwise and of two natural numbers below 2^28.
Bit(n, i) == (n \div 2^i) % 2
BitAnd(m, n) == MapThenSumSet(LAMBDA i : 2^i * Bit(m, i) * Bit(n, i), 0..27)

Init == /\ prog \in Programs /\ subj \in Subjects
        /\ current \in 0..Length
        /\ char = IF current = 0 THEN NewLine ELSE Char(current - 1)
        /\ regs = [r \in 0..(prog.nregs - 1) |-> IF r < prog.nout THEN -1 ELSE 0]
        /\ at = 1 /\ stack = <<>> /\ status = "run" /\ out = <<>>

Ins == prog.ins[at]
Now(ops) == status = "run" /\ at <= Len(prog.ins) /\ Ins.op \in ops
Pos == current + Ins.arg
Top == stack[Len(stack)]
Popped == SubSeq(stack, 1, Len(stack) - 1)

\* The end of an instruction that may change one part of the state.
Is(pc, c, ch, rs, st) ==
    at' = pc /\ current' = c /\ char' = ch /\ regs' = rs /\ stack' = st
      /\ UNCHANGED <<prog, subj, status, out>>
Jump(cond) == Is(IF cond THEN Ins.lab ELSE at + 1, current, char, regs, stack)

Push == Now({"PUSH_CP", "PUSH_BT", "PUSH_REGISTER"}) /\
    Is(at + 1, current, char, regs,
       Append(stack, CASE Ins.op = "PUSH_CP" -> current
                       [] Ins.op = "PUSH_BT" -> Ins.lab
                       [] OTHER -> regs[Ins.x]))

Pop ==
    \/ Now({"POP_CP"}) /\ Is(at + 1, Top, char, regs, Popped)
    \/ Now({"POP_REGISTER"}) /\ Is(at + 1, current, char, [regs EXCEPT ![Ins.x] = Top], Popped)
    \/ Now({"POP_BT"}) /\ Is(Top, current, char, regs, Popped)

SetRegister ==
    LET Set(v) == Is(at + 1, current, char, [regs EXCEPT ![Ins.x] = v], stack)
    IN \/ Now({"SET_REGISTER"}) /\ Set(Ins.arg)
       \/ Now({"ADVANCE_REGISTER"}) /\ Set(regs[Ins.x] + Ins.arg)
       \/ Now({"SET_REGISTER_TO_CP"}) /\ Set(Pos)
       \/ Now({"SET_REGISTER_TO_SP"}) /\ Set(Len(stack))
       \/ Now({"SET_CP_TO_REGISTER"}) /\ Is(at + 1, regs[Ins.x], char, regs, stack)
       \/ Now({"SET_SP_TO_REGISTER"}) /\ Is(at + 1, current, char, regs, SubSeq(stack, 1, regs[Ins.x]))

Move ==
    \/ Now({"ADVANCE_CP"}) /\ Is(at + 1, Pos, char, regs, stack)
    \/ Now({"GOTO"}) /\ Is(Ins.lab, current, char, regs, stack)
    \/ Now({"ADVANCE_CP_AND_GOTO"}) /\ Is(Ins.lab, Pos, char, regs, stack)
    \/ Now({"SET_CURRENT_POSITION_FROM_END"}) /\
         IF Length - current > Ins.arg
         THEN Is(at + 1, Length - Ins.arg, Char(Length - Ins.arg - 1), regs, stack)
         ELSE Is(at + 1, current, char, regs, stack)

\* n characters from p, packed little-endian; a checked load jumps when they do not fit.
Packed(p, n) == MapThenSumSet(LAMBDA i : Char(p + i) * Radix^i, 0..(n - 1))
Load ==
    LET n == Ins.x
    IN \/ /\ Now({"LOAD"})
          /\ IF Pos < 0 \/ Pos + n > Length THEN Is(Ins.lab, current, char, regs, stack)
             ELSE Is(at + 1, current, Packed(Pos, n), regs, stack)
       \/ Now({"LOAD_UNCHECKED"}) /\ Is(at + 1, current, Packed(Pos, n), regs, stack)

CheckChar ==
    \/ Now({"CHECK_CHAR"}) /\ Jump(char = Ins.arg)
    \/ Now({"CHECK_NOT_CHAR"}) /\ Jump(char # Ins.arg)
    \/ Now({"AND_CHECK_CHAR"}) /\ Jump(BitAnd(char, Ins.x) = Ins.arg)
    \/ Now({"AND_CHECK_NOT_CHAR"}) /\ Jump(BitAnd(char, Ins.x) # Ins.arg)
    \/ Now({"MINUS_AND_CHECK_NOT_CHAR"}) /\ Jump(BitAnd((char - Ins.x) % 2^28, Ins.y) # Ins.arg)
    \/ Now({"CHECK_CHAR_IN_RANGE"}) /\ Jump(char \in Ins.x..Ins.y)
    \/ Now({"CHECK_CHAR_NOT_IN_RANGE"}) /\ Jump(char \notin Ins.x..Ins.y)
    \/ Now({"CHECK_BIT_IN_TABLE"}) /\ Jump(char % 128 \in Ins.tab)
    \/ Now({"CHECK_LT"}) /\ Jump(char < Ins.arg)
    \/ Now({"CHECK_GT"}) /\ Jump(char > Ins.arg)

CheckState ==
    \/ Now({"CHECK_REGISTER_LT"}) /\ Jump(regs[Ins.x] < Ins.arg)
    \/ Now({"CHECK_REGISTER_GE"}) /\ Jump(regs[Ins.x] >= Ins.arg)
    \/ Now({"CHECK_REGISTER_EQ_POS"}) /\ Jump(regs[Ins.x] = current)
    \/ Now({"CHECK_NOT_REGS_EQUAL"}) /\ Jump(regs[Ins.x] # regs[Ins.y])
    \/ Now({"CHECK_AT_START"}) /\ Jump(Pos = 0)
    \/ Now({"CHECK_NOT_AT_START"}) /\ Jump(Pos # 0)
    \/ Now({"CHECK_CURRENT_POSITION"}) /\ Jump(Pos < 0 \/ Pos > Length)
    \/ Now({"CHECK_FIXED_LENGTH"}) /\
         IF current = Top THEN Is(Ins.lab, current, char, regs, Popped)
         ELSE Is(at + 1, current, char, regs, stack)

\* The text the capture x holds must occur again from current on (or before it).
BackRef ==
    /\ Now({"CHECK_NOT_BACK_REF"})
    /\ LET from == regs[Ins.x]
           n == regs[Ins.x + 1] - from
           base == IF Ins.arg = 1 THEN current - n ELSE current
           Same(a, b) == IF Ins.y = 1 THEN CaseEq(a, b) ELSE a = b
       IN IF from < 0 \/ n <= 0 THEN Is(at + 1, current, char, regs, stack)
          ELSE IF base >= 0 /\ base + n <= Length
                    /\ \A i \in 0..(n - 1) : Same(Char(from + i), Char(base + i))
            THEN Is(at + 1, IF Ins.arg = 1 THEN base ELSE base + n, char, regs, stack)
            ELSE Is(Ins.lab, current, char, regs, stack)

\* One character of a fused scan: y is how far to advance, lab the label on a hit.
Hit(c) == CASE Ins.op = "SKIP_UNTIL_CHAR" -> c \in Ins.tab
            [] Ins.op = "SKIP_UNTIL_CHAR_AND" -> BitAnd(c, Ins.x) \in Ins.tab
            [] Ins.op = "SKIP_UNTIL_CHAR_POS_CHECKED" -> c \in Ins.tab
            [] Ins.op = "SKIP_UNTIL_BIT_IN_TABLE" -> c % 128 \in Ins.tab
            [] OTHER -> c > Ins.x \/ c % 128 \notin Ins.tab
Bounded == IF Ins.op \in {"SKIP_UNTIL_CHAR_AND", "SKIP_UNTIL_CHAR_POS_CHECKED"}
           THEN current + Ins.max >= 0 /\ current + Ins.max <= Length
           ELSE Pos >= 0 /\ Pos < Length
Skip ==
    /\ Now({"SKIP_UNTIL_CHAR", "SKIP_UNTIL_CHAR_AND", "SKIP_UNTIL_CHAR_POS_CHECKED",
            "SKIP_UNTIL_BIT_IN_TABLE", "SKIP_UNTIL_GT_OR_NOT_BIT_IN_TABLE"})
    /\ IF ~Bounded THEN Is(Ins.lab2, current, char, regs, stack)
       ELSE IF Hit(Char(Pos)) THEN Is(Ins.lab, current, Char(Pos), regs, stack)
       ELSE Is(at, current + Ins.y, Char(Pos), regs, stack)

End == /\ Now({"FAIL", "SUCCEED"})
       /\ status' = IF Ins.op = "FAIL" THEN "failure" ELSE "success"
       /\ out' = IF Ins.op = "FAIL" THEN out ELSE [r \in 0..(prog.nout - 1) |-> regs[r]]
       /\ UNCHANGED <<prog, subj, at, current, char, regs, stack>>

Next == Push \/ Pop \/ SetRegister \/ Move \/ Load \/ CheckChar \/ CheckState \/ BackRef \/ Skip \/ End
Spec == Init /\ [][Next]_vars
=============================================================================
