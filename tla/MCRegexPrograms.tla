-------------------------- MODULE MCRegexPrograms --------------------------
(* Bytecode programs for RegexMachine, in the engine's instruction set.  *)
EXTENDS RegexMachine

N(op) == [op |-> op, arg |-> 0, x |-> 0, y |-> 0, tab |-> {}, lab |-> 1, lab2 |-> 1, max |-> 0]
P(ins, nregs, nout) == [ins |-> ins, nregs |-> nregs, nout |-> nout]

Chars == {10, 97, 65}
MCSubjects == UNION {[1..n -> Chars] : n \in 0..2} \cup [1..3 -> {97, 65}]
\* Pairs that differ in the case bit: letters, and @ and multiplication sign, which are none.
FoldSubjects == {<<64, 96>>, <<65, 97>>, <<122, 90>>, <<91, 123>>, <<192, 224>>, <<254, 222>>,
                 <<215, 247>>, <<223, 255>>, <<97, 98>>}
ShortSubjects == FoldSubjects \cup UNION {[1..n -> Chars] : n \in 0..2} \cup {<<97, 65, 97, 10>>}
MCCaseEq(a, b) == \/ a = b
                  \/ {a, b} \in {{c, c + 32} : c \in (65..90) \cup ((192..222) \ {215})}

\* /(a*)A/ : a greedy loop that gives characters back
GreedyStar == P(<<
      [N("PUSH_BT") EXCEPT !.lab = 14], [N("SET_REGISTER_TO_CP") EXCEPT !.x = 0], N("PUSH_CP"),
      [N("PUSH_BT") EXCEPT !.lab = 9], [N("LOAD") EXCEPT !.x = 1, !.lab = 8],
      [N("CHECK_NOT_CHAR") EXCEPT !.arg = 97, !.lab = 8],
      [N("ADVANCE_CP_AND_GOTO") EXCEPT !.arg = 1, !.lab = 3], N("POP_BT"), N("POP_CP"),
      [N("LOAD") EXCEPT !.x = 1, !.lab = 8],
      [N("CHECK_NOT_CHAR") EXCEPT !.arg = 65, !.lab = 8],
      [N("SET_REGISTER_TO_CP") EXCEPT !.x = 1, !.arg = 1], N("SUCCEED"), N("FAIL") >>, 2, 2)

\* /(.+)\\1/i : a capture saved across backtracks, then compared without case
BackReference == P(<<
      [N("PUSH_BT") EXCEPT !.lab = 17], [N("SET_REGISTER_TO_CP") EXCEPT !.x = 2],
      [N("SET_REGISTER_TO_CP") EXCEPT !.x = 0], [N("LOAD") EXCEPT !.x = 1, !.lab = 16],
      [N("ADVANCE_CP") EXCEPT !.arg = 1], [N("PUSH_REGISTER") EXCEPT !.x = 3], N("PUSH_CP"),
      [N("PUSH_BT") EXCEPT !.lab = 13], [N("SET_REGISTER_TO_CP") EXCEPT !.x = 3],
      [N("CHECK_NOT_BACK_REF") EXCEPT !.x = 2, !.y = 1, !.lab = 16],
      [N("SET_REGISTER_TO_CP") EXCEPT !.x = 1], N("SUCCEED"), N("POP_CP"),
      [N("POP_REGISTER") EXCEPT !.x = 3], [N("GOTO") EXCEPT !.lab = 4], N("POP_BT"), N("FAIL") >>, 4, 4)

\* /(?=.*A)a/ : the stack pointer and position saved and restored by registers
Lookahead == P(<<
      [N("PUSH_BT") EXCEPT !.lab = 19], [N("SET_REGISTER_TO_CP") EXCEPT !.x = 0],
      [N("SET_REGISTER_TO_SP") EXCEPT !.x = 2], [N("SET_REGISTER_TO_CP") EXCEPT !.x = 3],
      N("PUSH_CP"), [N("PUSH_BT") EXCEPT !.lab = 9], [N("LOAD") EXCEPT !.x = 1, !.lab = 18],
      [N("ADVANCE_CP_AND_GOTO") EXCEPT !.arg = 1, !.lab = 5], N("POP_CP"),
      [N("LOAD") EXCEPT !.x = 1, !.lab = 18],
      [N("CHECK_NOT_CHAR") EXCEPT !.arg = 65, !.lab = 18],
      [N("SET_CP_TO_REGISTER") EXCEPT !.x = 3], [N("SET_SP_TO_REGISTER") EXCEPT !.x = 2],
      [N("LOAD") EXCEPT !.x = 1, !.lab = 18],
      [N("CHECK_NOT_CHAR") EXCEPT !.arg = 97, !.lab = 18],
      [N("SET_REGISTER_TO_CP") EXCEPT !.x = 1, !.arg = 1], N("SUCCEED"), N("POP_BT"),
      N("FAIL") >>, 4, 2)

\* /a{1,2}$/ : a counted loop in a register that backtracking restores
Counted == P(<<
      [N("PUSH_BT") EXCEPT !.lab = 21], [N("SET_REGISTER_TO_CP") EXCEPT !.x = 0],
      [N("SET_REGISTER") EXCEPT !.x = 2, !.arg = 0],
      [N("CHECK_REGISTER_GE") EXCEPT !.x = 2, !.arg = 2, !.lab = 17],
      [N("CHECK_REGISTER_LT") EXCEPT !.x = 2, !.arg = 1, !.lab = 8], N("PUSH_CP"),
      [N("PUSH_BT") EXCEPT !.lab = 16], [N("LOAD") EXCEPT !.x = 1, !.lab = 18],
      [N("CHECK_NOT_CHAR") EXCEPT !.arg = 97, !.lab = 18], [N("PUSH_REGISTER") EXCEPT !.x = 2],
      [N("PUSH_BT") EXCEPT !.lab = 14], [N("ADVANCE_REGISTER") EXCEPT !.x = 2, !.arg = 1],
      [N("ADVANCE_CP_AND_GOTO") EXCEPT !.arg = 1, !.lab = 4],
      [N("POP_REGISTER") EXCEPT !.x = 2], [N("GOTO") EXCEPT !.lab = 18], N("POP_CP"),
      [N("LOAD") EXCEPT !.x = 1, !.lab = 19], N("POP_BT"),
      [N("SET_REGISTER_TO_CP") EXCEPT !.x = 1], N("SUCCEED"), N("FAIL") >>, 3, 2)

\* /(?:a|)*A/ : the loop body that may match nothing, left by CHECK_FIXED_LENGTH
FixedLength == P(<<
      [N("PUSH_BT") EXCEPT !.lab = 18], [N("SET_REGISTER_TO_CP") EXCEPT !.x = 0], N("PUSH_CP"),
      [N("LOAD") EXCEPT !.x = 1, !.lab = 10],
      [N("CHECK_NOT_CHAR") EXCEPT !.arg = 97, !.lab = 10], [N("ADVANCE_CP") EXCEPT !.arg = 1],
      [N("CHECK_FIXED_LENGTH") EXCEPT !.lab = 13], [N("POP_REGISTER") EXCEPT !.x = 2],
      [N("GOTO") EXCEPT !.lab = 3], [N("CHECK_FIXED_LENGTH") EXCEPT !.lab = 13], N("POP_CP"),
      [N("GOTO") EXCEPT !.lab = 3], [N("LOAD") EXCEPT !.x = 1, !.lab = 17],
      [N("CHECK_NOT_CHAR") EXCEPT !.arg = 65, !.lab = 17],
      [N("SET_REGISTER_TO_CP") EXCEPT !.x = 1, !.arg = 1], N("SUCCEED"), N("POP_BT"),
      N("FAIL") >>, 3, 2)

\* a scan for aA or A, then two characters at once
Scan == P(<<
      [N("SKIP_UNTIL_CHAR") EXCEPT !.tab = {65,97}, !.y = 1, !.lab = 2, !.lab2 = 12],
      [N("SET_REGISTER_TO_CP") EXCEPT !.x = 0], [N("LOAD") EXCEPT !.x = 2, !.lab = 7],
      [N("CHECK_NOT_CHAR") EXCEPT !.arg = 97+65*128, !.lab = 7],
      [N("SET_REGISTER_TO_CP") EXCEPT !.x = 1, !.arg = 2], N("SUCCEED"),
      [N("CHECK_CURRENT_POSITION") EXCEPT !.arg = 1, !.lab = 12],
      [N("ADVANCE_CP") EXCEPT !.arg = 1],
      [N("SKIP_UNTIL_CHAR_POS_CHECKED") EXCEPT !.tab = {65}, !.y = 1, !.max = 1, !.lab = 10, !.lab2 = 12],
      [N("SET_REGISTER_TO_CP") EXCEPT !.x = 1, !.arg = 1], N("SUCCEED"), N("FAIL") >>, 2, 2)

\* a loop whose body matches nothing, which only the budget ends
Empty == P(<<
      [N("PUSH_BT") EXCEPT !.lab = 2], [N("PUSH_BT") EXCEPT !.lab = 2], N("POP_BT") >>, 0, 0)

\* instructions after an unconditional one, one of them naming a register there is none of
UnreachableCode == P(<<
      [N("GOTO") EXCEPT !.lab = 4], [N("SET_REGISTER") EXCEPT !.x = 9], N("BREAK"),
      [N("CHECK_AT_START") EXCEPT !.lab = 6], N("SUCCEED"), N("BREAK") >>, 0, 0)

\* a program without an end
OffEnd == P(<<
      [N("ADVANCE_CP") EXCEPT !.arg = 1] >>, 0, 0)

\* a label outside the program: not translated
WildLabel == P(<<
      [N("GOTO") EXCEPT !.lab = 9] >>, 0, 0)

\* a register there is none of: not translated
MissingRegister == P(<<
      [N("SET_REGISTER") EXCEPT !.x = 9], N("SUCCEED") >>, 1, 0)

Patterns == {GreedyStar, BackReference, Lookahead, Counted, FixedLength, Scan, Empty, UnreachableCode, OffEnd, WildLabel, MissingRegister}

\* One instruction each, with every small operand: its outcome is which way it left.
Probe(i) == P(<<i, N("SUCCEED"), N("FAIL"), N("BREAK")>>, 2, 2)
At(op) == {[N(op) EXCEPT !.arg = a, !.lab = 3] : a \in -1..1}
Probes ==
    {Probe(i) : i \in
       UNION {At(op) : op \in {"CHECK_AT_START", "CHECK_NOT_AT_START", "CHECK_CURRENT_POSITION"}}
       \cup {[N("LOAD") EXCEPT !.arg = a, !.x = n, !.lab = 3] : a \in -1..1, n \in {1, 2, 4}}
       \cup {[N(op) EXCEPT !.arg = a, !.lab = 3] :
               op \in {"CHECK_CHAR", "CHECK_NOT_CHAR", "CHECK_LT", "CHECK_GT"}, a \in {64, 65, 97}}
       \cup {[N(op) EXCEPT !.x = 95, !.arg = 65, !.lab = 3] : op \in {"AND_CHECK_CHAR", "AND_CHECK_NOT_CHAR"}}
       \cup {[N("MINUS_AND_CHECK_NOT_CHAR") EXCEPT !.x = 65, !.y = 223, !.arg = a, !.lab = 3] : a \in {0, 201}}
       \cup {[N(op) EXCEPT !.x = f, !.y = 96, !.lab = 3] :
               op \in {"CHECK_CHAR_IN_RANGE", "CHECK_CHAR_NOT_IN_RANGE"}, f \in {65, 66}}
       \cup {[N("CHECK_BIT_IN_TABLE") EXCEPT !.tab = t, !.lab = 3] : t \in {{33}, {97}, {1, 65}, {10}}}
       \cup {[N("CHECK_REGISTER_EQ_POS") EXCEPT !.lab = 3],
             [N("CHECK_NOT_REGS_EQUAL") EXCEPT !.y = 1, !.lab = 3]}
       \cup {[N("SET_CURRENT_POSITION_FROM_END") EXCEPT !.arg = a] : a \in 0..2}
       \cup {[N(op) EXCEPT !.tab = t, !.x = 95, !.y = 1, !.arg = a, !.max = a + 1, !.lab = 2, !.lab2 = 3] :
               op \in Skips, t \in {{65}, {97, 10}}, a \in 0..1}
       \cup {[N("SKIP_UNTIL_CHAR") EXCEPT !.tab = {97}, !.y = 1, !.arg = -1, !.lab = 2, !.lab2 = 3]}}
    \cup {P(<<[N("LOAD") EXCEPT !.x = n, !.lab = 4],
              [N("LOAD_UNCHECKED") EXCEPT !.x = n], N("SUCCEED"), N("FAIL")>>, 2, 2) : n \in {2, 4}}

\* A capture of one character against its neighbour, in both directions.
BackRefs ==
    {P(<<[N("LOAD") EXCEPT !.x = 2, !.lab = 7],
         [N("SET_REGISTER_TO_CP") EXCEPT !.x = 0, !.arg = b],
         [N("SET_REGISTER_TO_CP") EXCEPT !.x = 1, !.arg = b + 1],
         [N("ADVANCE_CP") EXCEPT !.arg = 1],
         [N("CHECK_NOT_BACK_REF") EXCEPT !.arg = b, !.y = nc, !.lab = 7],
         N("SUCCEED"), N("FAIL")>>, 2, 2) : b \in {0, 1}, nc \in {0, 1}}

Of(progs, subjs, caps) == {[prog |-> p, subj |-> s, cap |-> c] : p \in progs, s \in subjs, c \in caps}
=============================================================================
