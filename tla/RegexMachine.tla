---------------------------- MODULE RegexMachine ----------------------------
(***************************************************************************)
(* The matcher regex.rs compiles a regular expression's bytecode to.  It   *)
(* differs from the engine's interpreter (RegexInterp) in what it cannot   *)
(* have: its backtrack stack is a buffer of fixed capacity the caller      *)
(* lends, what it pushes there for a label is a dense id that a dispatcher *)
(* turns back into a block, only the blocks of leaders exist, positions    *)
(* are 32-bit words compared unsigned, and the number of backtracks has a  *)
(* budget.  It gives up by answering "retry"; the caller then runs the     *)
(* interpreter from the beginning.                                         *)
(***************************************************************************)
EXTENDS Integers, Sequences, FiniteSets, FiniteSetsExt

CONSTANTS Calls,           \* [prog, subj, cap]: bytecode [ins, nregs, nout], a sequence of
                           \* characters and the capacity of the lent buffer in elements
          Radix,           \* characters are below it; packed loads are in this base
          CaseEq(_, _),    \* the engine's case-insensitive comparison
          Wide,            \* two-byte subjects
          BT_BUDGET, MAX_BT_LABELS, MAX_REGISTERS

Word == 2^28               \* stands for 2^32; above every position and packed load

VARIABLES prog, subj, at, current, char, regs, sp, cnt, status, out,
          buf,             \* the lent buffer; .label is a ghost: the value stands for a label
          cap

rxVars == <<prog, subj, at, current, char, regs, sp, cnt, status, out, buf, cap>>
-----------------------------------------------------------------------------
(* Translation                                                             *)

Skips == {"SKIP_UNTIL_CHAR", "SKIP_UNTIL_CHAR_AND", "SKIP_UNTIL_CHAR_POS_CHECKED",
          "SKIP_UNTIL_BIT_IN_TABLE", "SKIP_UNTIL_GT_OR_NOT_BIT_IN_TABLE"}
is_unconditional(op) ==
    op \in {"BREAK", "POP_BT", "FAIL", "SUCCEED", "GOTO", "ADVANCE_CP_AND_GOTO"} \cup Skips

\* The operands of an instruction that are labels.
label_operand_offsets(i) ==
    IF i.op \in Skips THEN {i.lab, i.lab2}
    ELSE IF i.op \in {"PUSH_BT", "GOTO", "ADVANCE_CP_AND_GOTO", "LOAD", "CHECK_CHAR", "CHECK_NOT_CHAR",
                      "CHECK_LT", "CHECK_GT", "CHECK_NOT_BACK_REF", "CHECK_REGISTER_EQ_POS",
                      "CHECK_AT_START", "CHECK_NOT_AT_START", "CHECK_FIXED_LENGTH",
                      "CHECK_BIT_IN_TABLE", "CHECK_CURRENT_POSITION", "AND_CHECK_CHAR",
                      "AND_CHECK_NOT_CHAR", "MINUS_AND_CHECK_NOT_CHAR", "CHECK_CHAR_IN_RANGE",
                      "CHECK_CHAR_NOT_IN_RANGE", "CHECK_NOT_REGS_EQUAL", "CHECK_REGISTER_LT",
                      "CHECK_REGISTER_GE"}
    THEN {i.lab} ELSE {}

Leaders(p) == {1} \cup UNION {label_operand_offsets(p.ins[k]) : k \in DOMAIN p.ins}

\* The labels PUSH_BT pushes, numbered from 0 in order of first appearance.
FirstPush(p) ==
    {k \in DOMAIN p.ins : p.ins[k].op = "PUSH_BT" /\ \A j \in 1..(k - 1) :
                             ~(p.ins[j].op = "PUSH_BT" /\ p.ins[j].lab = p.ins[k].lab)}
BtTargets(p) == {p.ins[k].lab : k \in FirstPush(p)}
BtId(p, lab) ==
    LET first == CHOOSE k \in FirstPush(p) : p.ins[k].lab = lab
    IN Cardinality({k \in FirstPush(p) : k < first})

\* Pass 2 emits an instruction unless it follows an unconditional one and is no leader.
Emitted(p) ==
    {k \in DOMAIN p.ins : \E l \in Leaders(p) :
       l <= k /\ \A j \in l..(k - 1) : ~is_unconditional(p.ins[j].op)}

\* The registers an instruction names.
check_reg(i) ==
    IF i.op \in {"CHECK_NOT_BACK_REF"} THEN {i.x, i.x + 1}
    ELSE IF i.op = "CHECK_NOT_REGS_EQUAL" THEN {i.x, i.y}
    ELSE IF i.op \in {"PUSH_REGISTER", "SET_REGISTER", "ADVANCE_REGISTER", "SET_REGISTER_TO_CP",
                      "SET_CP_TO_REGISTER", "SET_REGISTER_TO_SP", "SET_SP_TO_REGISTER", "POP_REGISTER",
                      "CHECK_REGISTER_LT", "CHECK_REGISTER_GE", "CHECK_REGISTER_EQ_POS"}
    THEN {i.x} ELSE {}

\* translate succeeds; otherwise the expression has no compiled matcher.
Translates(p) ==
    /\ p.nregs <= MAX_REGISTERS /\ p.nout <= p.nregs
    /\ Leaders(p) \subseteq DOMAIN p.ins
    /\ Cardinality(BtTargets(p)) <= MAX_BT_LABELS
    /\ \A k \in Emitted(p) :
         /\ \A r \in check_reg(p.ins[k]) : r < p.nregs
         /\ ~(Wide /\ p.ins[k].op \in {"LOAD", "LOAD_UNCHECKED"} /\ p.ins[k].x = 4)
-----------------------------------------------------------------------------
(* One call of the matcher                                                 *)

NewLine == 10
Length == Len(subj)
U(v) == v % Word                     \* the 32-bit word of v, read unsigned
load_char(p) == subj[p + 1]
load_chars(p, n) == MapThenSumSet(LAMBDA i : load_char(p + i) * Radix^i, 0..(n - 1))

\* The call: registers that answer a capture start at -1, the others at 0.
RxInit == /\ \E c \in Calls : prog = c.prog /\ subj = c.subj /\ cap = c.cap
          /\ Translates(prog) /\ current \in 0..Length
          /\ char = IF current > 0 THEN load_char(current - 1) ELSE NewLine
          /\ regs = [r \in 0..(prog.nregs - 1) |-> IF r < prog.nout THEN -1 ELSE 0]
          /\ buf = [k \in 0..(cap - 1) |-> [v |-> 0, label |-> FALSE]]
          /\ at = 1 /\ sp = 0 /\ cnt = 0 /\ status = "run" /\ out = <<>>

Ins == prog.ins[at]
Now(ops) == Ins.op \in ops
addk(k) == current + k

\* The state vector of the next block.
State(pc, c, ch, rs, s) ==
    at' = pc /\ current' = c /\ char' = ch /\ regs' = rs /\ sp' = s
Rest == UNCHANGED <<prog, subj, cnt, status, out, buf, cap>>
Goto(pc, c, ch) == State(pc, c, ch, regs, sp) /\ Rest
cond_jump(cond) == Goto(IF cond THEN Ins.lab ELSE at + 1, current, char)
retry == status' = "retry" /\ UNCHANGED <<prog, subj, at, current, char, regs, sp, cnt, out, buf, cap>>

\* Mutant: the full buffer is noticed one push too late.
bt_push_late(v, label) ==
    IF U(sp) > cap THEN retry
    ELSE /\ State(at + 1, current, char, regs, sp + 1)
         /\ buf' = [buf EXCEPT ![sp] = [v |-> v, label |-> label]]
         /\ UNCHANGED <<prog, subj, cnt, status, out, cap>>
\* bt_push gives up when the buffer is full.
bt_push(v, label) ==
    IF U(sp) >= cap THEN retry
    ELSE /\ State(at + 1, current, char, regs, sp + 1)
         /\ buf' = [buf EXCEPT ![sp] = [v |-> v, label |-> label]]
         /\ UNCHANGED <<prog, subj, cnt, status, out, cap>>
bt_peek == buf[sp - 1].v
Select(id) == {lab \in BtTargets(prog) : BtId(prog, lab) = id}

Push ==
    \/ Now({"PUSH_CP"}) /\ bt_push(current, FALSE)
    \/ Now({"PUSH_BT"}) /\ bt_push(BtId(prog, Ins.lab), TRUE)
    \/ Now({"PUSH_REGISTER"}) /\ bt_push(regs[Ins.x], FALSE)

PopValue ==
    \/ Now({"POP_CP"}) /\ State(at + 1, bt_peek, char, regs, sp - 1) /\ Rest
    \/ Now({"POP_REGISTER"}) /\ State(at + 1, current, char, [regs EXCEPT ![Ins.x] = bt_peek], sp - 1) /\ Rest

\* Mutant: the count of backtracks is compared but not kept.
PopBtUncharged ==
    /\ Now({"POP_BT"})
    /\ IF U(cnt + 1) >= BT_BUDGET THEN retry
       ELSE LET hit == Select(bt_peek)
            IN IF hit = {} THEN retry
               ELSE \E lab \in hit : State(lab, current, char, regs, sp - 1) /\ Rest
\* The budget is charged first; the dispatcher selects the block of the popped id.
PopBt ==
    /\ Now({"POP_BT"})
    /\ IF U(cnt + 1) >= BT_BUDGET THEN retry
       ELSE LET hit == Select(bt_peek)
            IN IF hit = {} THEN retry
               ELSE /\ \E lab \in hit : State(lab, current, char, regs, sp - 1)
                    /\ cnt' = cnt + 1
                    /\ UNCHANGED <<prog, subj, status, out, buf, cap>>

SetRegister ==
    LET Set(v) == State(at + 1, current, char, [regs EXCEPT ![Ins.x] = v], sp) /\ Rest
    IN \/ Now({"SET_REGISTER"}) /\ Set(Ins.arg)
       \/ Now({"ADVANCE_REGISTER"}) /\ Set(regs[Ins.x] + Ins.arg)
       \/ Now({"SET_REGISTER_TO_CP"}) /\ Set(addk(Ins.arg))
       \/ Now({"SET_REGISTER_TO_SP"}) /\ Set(sp)
       \/ Now({"SET_CP_TO_REGISTER"}) /\ Goto(at + 1, regs[Ins.x], char)
       \/ Now({"SET_SP_TO_REGISTER"}) /\ State(at + 1, current, char, regs, regs[Ins.x]) /\ Rest

Move ==
    \/ Now({"ADVANCE_CP"}) /\ Goto(at + 1, addk(Ins.arg), char)
    \/ Now({"GOTO"}) /\ Goto(Ins.lab, current, char)
    \/ Now({"ADVANCE_CP_AND_GOTO"}) /\ Goto(Ins.lab, addk(Ins.arg), char)

SetPositionFromEnd ==
    /\ Now({"SET_CURRENT_POSITION_FROM_END"})
    /\ IF Length - current > Ins.arg
       THEN Goto(at + 1, Length - Ins.arg, load_char(Length - Ins.arg - 1))
       ELSE Goto(at + 1, current, char)

\* One character is checked with an unsigned comparison, a span with two signed ones.
oob_span(p, n) == p + n > Length \/ p < 0
Load ==
    LET p == addk(Ins.arg)
        n == Ins.x
    IN \/ Now({"LOAD"}) /\ IF (IF n = 1 THEN U(p) >= Length ELSE oob_span(p, n))
                           THEN Goto(Ins.lab, current, char)
                           ELSE Goto(at + 1, current, load_chars(p, n))
       \/ Now({"LOAD_UNCHECKED"}) /\ Goto(at + 1, current, load_chars(p, n))

Bit(n, i) == (n \div 2^i) % 2
Masked(m, n) == MapThenSumSet(LAMBDA i : 2^i * Bit(m, i) * Bit(n, i), 0..27)

\* Bit (char mod 128) of the 16-byte table, from one of its two 64-bit halves.
bit_in_table(c, table) ==
    LET idx == Masked(c, 127)
        high == Bit(idx, 6)
    IN \E b \in table : b \div 64 = high /\ b % 64 = Masked(idx, 63)

CheckChar ==
    \/ Now({"CHECK_CHAR"}) /\ cond_jump(Ins.arg = char)
    \/ Now({"CHECK_NOT_CHAR"}) /\ cond_jump(~(Ins.arg = char))
    \/ Now({"AND_CHECK_CHAR"}) /\ cond_jump(Ins.arg = Masked(char, Ins.x))
    \/ Now({"AND_CHECK_NOT_CHAR"}) /\ cond_jump(~(Ins.arg = Masked(char, Ins.x)))
    \/ Now({"MINUS_AND_CHECK_NOT_CHAR"}) /\ cond_jump(Ins.arg # Masked(U(char - Ins.x), Ins.y))
    \/ Now({"CHECK_CHAR_IN_RANGE"}) /\ cond_jump(char >= Ins.x /\ char <= Ins.y)
    \/ Now({"CHECK_CHAR_NOT_IN_RANGE"}) /\ cond_jump(~(char >= Ins.x /\ char <= Ins.y))
    \/ Now({"CHECK_BIT_IN_TABLE"}) /\ cond_jump(bit_in_table(char, Ins.tab))
    \/ Now({"CHECK_LT"}) /\ cond_jump(char < Ins.arg)
    \/ Now({"CHECK_GT"}) /\ cond_jump(char > Ins.arg)

CheckState ==
    \/ Now({"CHECK_REGISTER_LT"}) /\ cond_jump(regs[Ins.x] < Ins.arg)
    \/ Now({"CHECK_REGISTER_GE"}) /\ cond_jump(regs[Ins.x] >= Ins.arg)
    \/ Now({"CHECK_REGISTER_EQ_POS"}) /\ cond_jump(regs[Ins.x] = current)
    \/ Now({"CHECK_NOT_REGS_EQUAL"}) /\ cond_jump(~(regs[Ins.x] = regs[Ins.y]))
    \/ Now({"CHECK_AT_START"}) /\ cond_jump(addk(Ins.arg) = 0)
    \/ Now({"CHECK_NOT_AT_START"}) /\ cond_jump(~(addk(Ins.arg) = 0))
CheckPosition == Now({"CHECK_CURRENT_POSITION"}) /\ cond_jump(U(addk(Ins.arg)) > Length)

\* Mutant: the popped stack pointer stays on the edge that falls through.
CheckFixedLengthPops ==
    /\ Now({"CHECK_FIXED_LENGTH"})
    /\ State(IF current = bt_peek THEN Ins.lab ELSE at + 1, current, char, regs, sp - 1)
    /\ Rest
\* The entry is popped on the edge that jumps and kept on the one that falls through.
CheckFixedLength ==
    /\ Now({"CHECK_FIXED_LENGTH"})
    /\ IF current = bt_peek THEN State(Ins.lab, current, char, regs, sp - 1)
       ELSE State(at + 1, current, char, regs, sp)
    /\ Rest

\* Equality but for case: latin-1 letters folded by hand, two-byte text by the engine.
Or20(c) == IF Bit(c, 5) = 1 THEN c ELSE c + 32
Latin1Eq(a, b) ==
    \/ a = b
    \/ /\ Or20(a) = Or20(b)
       /\ \/ U(Or20(a) - 97) <= 25
          \/ U(Or20(a) - 224) <= 30 /\ Or20(a) # 247
NoCaseEq(a, b) == IF Wide THEN CaseEq(a, b) ELSE Latin1Eq(a, b)

\* arg = 1 compares backward, y = 1 ignores case.
emit_backref ==
    /\ Now({"CHECK_NOT_BACK_REF"})
    /\ LET from == regs[Ins.x]
           len == regs[Ins.x + 1] - from
           backward == Ins.arg = 1
           base == IF backward THEN current - len ELSE current
           oob == IF backward THEN base < 0 ELSE current + len > Length
           Same(a, b) == IF Ins.y = 1 THEN NoCaseEq(a, b) ELSE a = b
       IN IF ~(from >= 0 /\ len > 0) THEN Goto(at + 1, current, char)
          ELSE IF oob \/ \E i \in 0..(len - 1) : ~Same(load_char(from + i), load_char(base + i))
            THEN Goto(Ins.lab, current, char)
            ELSE Goto(at + 1, IF backward THEN base ELSE current + len, char)

\* One turn of a fused scan.
SkipTest(c) ==
    CASE Ins.op \in {"SKIP_UNTIL_CHAR", "SKIP_UNTIL_CHAR_POS_CHECKED"} -> c \in Ins.tab
      [] Ins.op = "SKIP_UNTIL_CHAR_AND" -> Masked(c, Ins.x) \in Ins.tab
      [] Ins.op = "SKIP_UNTIL_BIT_IN_TABLE" -> bit_in_table(c, Ins.tab)
      [] OTHER -> c > Ins.x \/ ~bit_in_table(c, Ins.tab)
SkipBound ==
    IF Ins.op \in {"SKIP_UNTIL_CHAR_AND", "SKIP_UNTIL_CHAR_POS_CHECKED"}
    THEN U(addk(Ins.max)) <= Length ELSE U(addk(Ins.arg)) < Length
emit_skip_loop ==
    /\ Now(Skips)
    /\ IF ~SkipBound THEN Goto(Ins.lab2, current, char)
       ELSE LET c == load_char(addk(Ins.arg))
            IN IF SkipTest(c) THEN Goto(Ins.lab, current, c) ELSE Goto(at, addk(Ins.y), c)

Break == Now({"BREAK"}) /\ retry

\* The output registers are stored on success only.
Return ==
    /\ Now({"FAIL", "SUCCEED"})
    /\ status' = IF Ins.op = "FAIL" THEN "failure" ELSE "success"
    /\ out' = IF Ins.op = "FAIL" THEN out ELSE [r \in 0..(prog.nout - 1) |-> regs[r]]
    /\ UNCHANGED <<prog, subj, at, current, char, regs, sp, cnt, buf, cap>>

\* An instruction of the running call; only emitted ones have code.
Execute == /\ status = "run" /\ at \in Emitted(prog)
           /\ \/ Push \/ PopValue \/ PopBt \/ SetRegister \/ Move \/ SetPositionFromEnd \/ Load
              \/ CheckChar \/ CheckState \/ CheckPosition
              \/ CheckFixedLength \/ emit_backref \/ emit_skip_loop \/ Break \/ Return
\* A program that runs off its end gives up.
RunOff == status = "run" /\ at > Len(prog.ins) /\ retry

Step == Execute \/ RunOff
Returned == status # "run" /\ UNCHANGED rxVars
RxNext == Step \/ Returned
-----------------------------------------------------------------------------

\* The matcher stays inside the buffer it was lent: sp never leaves it, although only
\* pushes are checked (bt_push) and pops and SET_SP_TO_REGISTER are not.
SpInBuffer == sp \in 0..cap

\* "retry" means what the contract says, an exhausted buffer or budget (or bytecode that
\* breaks off):
\* the dispatcher's default, a popped value that is no id, is never taken.
RetryWhenExhausted ==
    status = "retry" => \/ at > Len(prog.ins) \/ Ins.op = "BREAK"
                        \/ Ins.op \in {"PUSH_CP", "PUSH_BT", "PUSH_REGISTER"} /\ sp = cap
                        \/ Ins.op = "POP_BT" /\ cnt = BT_BUDGET - 1

\* The matcher does what the interpreter does, step for step, until it returns the same
\* answer and the same captures or gives up: "Never a miscompile" (regex.rs:26).
CalledPrograms == {c.prog : c \in Calls}
CalledSubjects == {c.subj : c \in Calls}
Interp == INSTANCE RegexInterp WITH
            Programs <- CalledPrograms, Subjects <- CalledSubjects,
            status <- IF status = "retry" THEN "run" ELSE status,
            stack <- [k \in 1..sp |-> IF buf[k - 1].label THEN CHOOSE lab \in Select(buf[k - 1].v) : TRUE
                                      ELSE buf[k - 1].v]
Matches == Interp!Spec

\* The backtrack buffer is never over- or underrun, and giving up means it was used up.
BufferSafe == SpInBuffer /\ RetryWhenExhausted
=============================================================================
