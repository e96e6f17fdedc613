----------------------------- MODULE Preprocessor -----------------------------
(***************************************************************************)
(* preprocessor.h: arithmetic and lists for the C preprocessor, out of     *)
(* which xlogger.h makes its seventeen overloads and decides what a log    *)
(* statement calls.  A macro is an operator, its tables are what they      *)
(* compute, and what it expands to is a sequence of tokens.                *)
(***************************************************************************)
EXTENDS Integers, Sequences

MaxParams == 16          \* the largest number the tables know
Counts    == 0 .. MaxParams

\* A token: a symbol, with the number pasted to it by ## (-1: none).
Token(text)     == [symbol |-> text, number |-> -1]
Paste(text, n)  == [symbol |-> text, number |-> n]
Comma           == Token(",")

\* A sequence without the elements of a set.
Without(seq, dropped) ==
  LET rest[n \in 0 .. Len(seq)] ==
        IF n = 0 THEN << >>
        ELSE IF seq[n] \in dropped THEN rest[n - 1] ELSE Append(rest[n - 1], seq[n])
  IN rest[Len(seq)]

-----------------------------------------------------------------------------
PP_BOOL(x)      == IF x = 0 THEN 0 ELSE 1
PP_BITNOT(x)    == 1 - x
PP_BITAND(x, y) == IF x = 1 /\ y = 1 THEN 1 ELSE 0
PP_BITOR(x, y)  == IF x = 1 \/ y = 1 THEN 1 ELSE 0
PP_BITXOR(x, y) == IF x = y THEN 0 ELSE 1
PP_NOT(x)       == PP_BITNOT(PP_BOOL(x))
PP_AND(p, q)    == PP_BITAND(PP_BOOL(p), PP_BOOL(q))
PP_OR(p, q)     == PP_BITOR(PP_BOOL(p), PP_BOOL(q))
PP_XOR(p, q)    == PP_BITXOR(PP_BOOL(p), PP_BOOL(q))

PP_IF(cond, t, f) == IF PP_BOOL(cond) = 1 THEN t ELSE f
PP_COMMA_IF(cond) == PP_IF(cond, <<Comma>>, << >>)

\* Both stay inside the tables.
FaultyInc(x) == IF x < MaxParams THEN x + 1 ELSE 0
PP_INC(x) == IF x < MaxParams THEN x + 1 ELSE MaxParams
PP_DEC(x) == IF x > 0 THEN x - 1 ELSE 0

\* ENUM_REPEAT_n is ENUM_REPEAT_(n-1) and one more use of the macro, which is the
\* function from a number to what the macro makes of it.
PP_ENUM_REPEAT(count, macro) ==
  LET repeat[n \in 0 .. count] ==
        IF n = 0 THEN << >> ELSE repeat[n - 1] \o macro[n - 1]
  IN repeat[count]

\* The binary form does the same up to 10; from 11 on it continues with 9.
PP_ENUM_BINARY_REPEAT(count, macro) ==
  LET repeat[n \in 0 .. count] ==
        IF n = 0 THEN << >>
        ELSE repeat[IF n <= 10 THEN n - 1 ELSE 9] \o macro[n - 1]
  IN repeat[count]

PP_ENUM(count, param) ==
  PP_ENUM_REPEAT(count, [n \in Counts |-> PP_COMMA_IF(n) \o <<Token(param)>>])
FaultyEnumParams(count, param) ==
  PP_ENUM_REPEAT(count, [n \in Counts |-> PP_COMMA_IF(PP_DEC(n)) \o <<Paste(param, n)>>])
PP_ENUM_PARAMS(count, param) ==
  PP_ENUM_REPEAT(count, [n \in Counts |-> PP_COMMA_IF(n) \o <<Paste(param, n)>>])
PP_ENUM_BINARY_PARAMS(count, a, b) ==
  PP_ENUM_BINARY_REPEAT(count, [n \in Counts |-> PP_COMMA_IF(n) \o <<Paste(a, n), Paste(b, n)>>])
PP_ENUM_TRAILING(count, param) ==
  PP_ENUM_REPEAT(count, [n \in Counts |-> <<Comma, Token(param)>>])
PP_ENUM_TRAILING_PARAMS(count, param) ==
  PP_ENUM_REPEAT(count, [n \in Counts |-> <<Comma, Paste(param, n)>>])
PP_ENUM_TRAILING_BINARY_PARAMS(count, a, b) ==
  PP_ENUM_BINARY_REPEAT(count, [n \in Counts |-> <<Comma, Paste(a, n), Paste(b, n)>>])

\* PP_TUPLE_ELEM_<size>_<i> and PP_TUPLE_REM_<size>, for a tuple of that size.
PP_TUPLE_ELEM(size, i, tuple) == tuple[i + 1]
PP_TUPLE_REM(size, tuple)     == tuple

\* PP_WHILE_i applies op while pred holds, both functions of the state;
\* PP_WHILE_16 is PP_ERROR(0x0001).
PP_ERROR_0x0001 == <<Token("PP_ERROR")>>
PP_WHILE(pred, op, state) ==
  LET at[i \in Counts] ==
        IF i = 0 THEN state
        ELSE LET before == at[i - 1]
             IN IF PP_BOOL(pred[before]) = 1 THEN op[before] ELSE before
  IN IF PP_BOOL(pred[at[MaxParams - 1]]) = 1 THEN PP_ERROR_0x0001 ELSE at[MaxParams]

-----------------------------------------------------------------------------
(* Counting the arguments of a macro call.                                  *)

\* What an argument is to the preprocessor.  "f()" has one empty argument.
Params == {"empty", "plain"}

\* The seventeenth of the arguments followed by 16, 15, ..., 0.
PP_RSEQ_N == [k \in 1 .. MaxParams + 1 |-> MaxParams + 1 - k]
PP_NARG(params) == (params \o PP_RSEQ_N)[MaxParams + 1]

\* PP_NUM_PARAMS_0 _1 () is two arguments if _1 is empty, and one otherwise.
PP_NUM_PARAMS_0_1_TEST(param) ==
  PP_IF(PP_DEC(PP_NARG(IF param = "empty" THEN <<param, param>> ELSE <<param>>)), 0, 1)
PP_NUM_PARAMS(params) ==
  PP_IF(PP_DEC(PP_NARG(params)), PP_NARG(params), PP_NUM_PARAMS_0_1_TEST(params[1]))

-----------------------------------------------------------------------------
(* What xlogger.h makes of it.                                              *)

\* The array of XLOGGER_TYPESAFE_FORMAT_IMPLEMENT(n, m), without its commas.
Initializer(n, m) ==
  PP_ENUM_PARAMS(n, "&a") \o PP_COMMA_IF(PP_AND(n, m)) \o PP_ENUM(m, "NULL")
ArgArray(n) == Without(Initializer(n, MaxParams - n), {Comma})

\* The overloads' parameters after the format: XLOGGER_FORMAT_ARGS(n).
FormatArgs(n) == Without(PP_ENUM_TRAILING_PARAMS(n, "const string_cast& a"), {Comma})

\* XLOGGER_ROUTER_OUTPUT(op1, op, ...): nothing, WriteNoFormat or operator().
FaultyRouter(params) ==
  PP_IF(PP_NUM_PARAMS(params), PP_IF(PP_NUM_PARAMS(params), "operator()", "WriteNoFormat"),
        "nothing")
XLOGGER_ROUTER_OUTPUT(params) ==
  PP_IF(PP_NUM_PARAMS(params),
        PP_IF(PP_DEC(PP_NUM_PARAMS(params)), "operator()", "WriteNoFormat"), "nothing")

-----------------------------------------------------------------------------
(* The tables have no state: a use of them is a pair of numbers.            *)

VARIABLE macroUse
MacroInit == macroUse \in [first : Counts, second : Counts]

\* A list alternates entries and commas, beginning and ending with an entry.
Separated(tokens) ==
  \A k \in DOMAIN tokens : (k % 2 = 0) <=> tokens[k] = Comma

\* Every overload hands DoTypeSafeFormat sixteen slots: the addresses of its
\* own parameters, in order and under their declared numbers, and NULL for the
\* rest, whatever the split.  The lists of pairs are complete up to ten pairs.
ListsComplete ==
  LET n     == macroUse.first
      array == ArgArray(n)
      args  == FormatArgs(n)
  IN /\ Separated(Initializer(n, MaxParams - n))
     /\ Len(array) = MaxParams /\ Len(args) = n
     /\ \A i \in 1 .. MaxParams :
          array[i] = IF i <= n THEN Paste("&a", args[i].number) ELSE Token("NULL")
     /\ macroUse.second < n =>
          PP_TUPLE_ELEM(n, macroUse.second, array).number = macroUse.second
     /\ n <= 10 =>
          Without(PP_ENUM_TRAILING_BINARY_PARAMS(n, "T", "a"), {Comma})
            = [k \in 1 .. 2 * n |-> Paste(IF k % 2 = 1 THEN "T" ELSE "a", (k - 1) \div 2)]

\* The loop of the header's example: moving a number from one counter to the
\* other with PP_DEC and PP_INC adds them up to the limit of the tables, and
\* sixteen rounds are one too many.
MovesOne == [state \in Counts \X Counts |->
  <<PP_DEC(PP_TUPLE_ELEM(2, 0, state)), PP_INC(PP_TUPLE_ELEM(2, 1, state))>>]
NotZero == [state \in Counts \X Counts |-> PP_TUPLE_ELEM(2, 0, state)]
WhileAdds ==
  LET a == macroUse.first
      b == macroUse.second
  IN PP_WHILE(NotZero, MovesOne, <<a, b>>) =
       IF a = MaxParams THEN PP_ERROR_0x0001
       ELSE <<0, IF a + b < MaxParams THEN a + b ELSE MaxParams>>
=============================================================================
