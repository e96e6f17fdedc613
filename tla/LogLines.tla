------------------------------- MODULE LogLines -------------------------------
(***************************************************************************)
(* xlogger.h: how a log statement of the wrapper becomes a line.  The      *)
(* macros test the level and build an XLogger, whose methods collect text  *)
(* and whose destructor hands it to the appender; a line may be merged     *)
(* into a group first, and an XScopeTracer writes one line when it is made *)
(* and one when it goes.  All of them are local to one thread; what others *)
(* share is the level.  Text is a sequence of pieces that name the call    *)
(* they come from.  XLOGGER_HOOK is left NULL, as the repository leaves it.*)
(***************************************************************************)
EXTENDS Preprocessor, FiniteSets

CONSTANTS
  LogLevels,   \* the levels in use, among 0 .. 5
  Calls,       \* what statements say: kind, format and values
  MaxSaid,     \* bound: statements
  MaxScopes    \* bound: nesting of tracers

kLevelAll   == 0
kLevelFatal == 5

\* A call has no arguments, one text ("raw"), TSF with a format and values, or
\* a format for vsnprintf with its arguments ("printf") or without any
\* ("format"), which may be NULL ("null").  A format is a sequence of directives:
\* text, %% (percent), %_ (next), %0 .. %9 (at n), a % before any other character
\* (bad), a % at the end (end).
Directives == [op : {"text", "percent", "next", "bad", "end"}, n : {0}]
                \cup [op : {"at"}, n : 0 .. 9]
Kinds == {"empty", "raw", "tsf", "printf", "format", "null"}

ASSUME LogAssumption ==
  /\ {kLevelAll, kLevelFatal} \subseteq LogLevels /\ LogLevels \subseteq 0 .. 5
  /\ Calls \subseteq [kind : Kinds, format : Seq(Directives), values : Seq({"value", "NULL"})]
  /\ \A call \in Calls :
       /\ Len(call.values) <= MaxParams - 2   \* TSF and the format count too
       /\ call.kind = "empty" => call.format = << >>
  /\ MaxSaid \in Nat /\ MaxScopes \in Nat

VARIABLES
  level,     \* the level of xlogger_SetLevel
  build,     \* "checked": assert() is compiled in; "release"; "dead"
  loggers,   \* the XLogger of the statement under way, and a group
  scopes,    \* the XScopeTracers on the stack
  log,       \* what went to xlogger_Write and xlogger_Assert
  said       \* history: the calls made, with which level and by what

logVars == <<level, build, loggers, scopes, log, said>>

IsEnabledFor(lvl) == level <= lvl

\* The constructor; the destructor leaves nothing behind.
NoLogger == [open |-> FALSE, level |-> kLevelAll, isassert |-> FALSE, exp |-> 0, message |-> << >>]
XLogger(lvl) == [NoLogger EXCEPT !.open = TRUE, !.level = lvl]

LogInit ==
  /\ level \in LogLevels
  /\ build \in {"checked", "release"}
  /\ loggers = [line |-> NoLogger, group |-> NoLogger]
  /\ scopes = << >> /\ log = << >> /\ said = << >>

-----------------------------------------------------------------------------
(* What the methods of XLogger and XMessage append.  The result of a method *)
(* is its pieces of text and what went wrong: "misuse" sets the level to    *)
(* Fatal in an XLogger and meets assert(false); "wild" is undefined.        *)

Piece(what, k, n) == [what |-> what, of |-> k, n |-> n]
Pieces(text)      == [pieces |-> text, wrong |-> {}]
Misuse(text)      == [pieces |-> text, wrong |-> {"misuse"}]
Wild(k, n)        == [pieces |-> <<Piece("wild", k, n)>>, wrong |-> {"wild"}]

\* m_message += _log
WriteNoFormat(call, k) == Pieces([p \in DOMAIN call.format |-> Piece("text", k, p)])

\* vsnprintf with the arguments the compiler checked, or, for a text that got
\* here, with none: then every directive but %% reads what is not there.
OnlyText(format) == \A p \in DOMAIN format : format[p].op \in {"text", "percent"}
VPrintf(call, k) ==
  IF call.kind = "null" THEN Misuse(<<Piece("misuse", k, 0)>>)
  ELSE IF call.kind \in {"raw", "format"} /\ ~ OnlyText(call.format) THEN Wild(k, 0)
  ELSE WriteNoFormat(call, k)

\* One placeholder: _args[argIndex], a slot of the sixteen, NULL beyond the
\* arguments.  An XMessage writes "(null)" for text that is NULL, and skips a
\* missing argument.
Argument(call, k, argIndex, isLogger) ==
  IF argIndex >= MaxParams
  THEN Wild(k, argIndex)
  ELSE IF ArgArray(Len(call.values))[argIndex + 1] = Token("NULL")
  THEN Misuse(IF isLogger THEN <<Piece("misuse", k, argIndex)>> ELSE << >>)
  ELSE IF call.values[argIndex + 1] = "NULL"
  THEN Misuse(<<Piece(IF isLogger THEN "misuse" ELSE "text", k, argIndex)>>)
  ELSE Pieces(<<Piece("value", k, argIndex)>>)

IsPlaceholder(directive) == directive.op \in {"next", "at"}

\* What one round of the loop appends; a % that fits nothing is passed over and
\* the character after it is text, or, at the end, a NUL.
Directive(call, k, p, count, isLogger) ==
  LET d == call.format[p]
  IN IF d.op = "next" THEN Argument(call, k, count, isLogger)
     ELSE IF d.op = "at" THEN Argument(call, k, d.n, isLogger)
     ELSE IF d.op \in {"text", "percent"} THEN Pieces(<<Piece("text", k, p)>>)
     ELSE Misuse((IF isLogger THEN <<Piece("misuse", k, p)>> ELSE << >>)
                   \o (IF d.op = "bad" THEN <<Piece("text", k, p)>>
                       ELSE IF isLogger THEN <<Piece("nul", k, p)>> ELSE << >>))

\* The loop; count is the number of placeholders so far, of either kind.
DoTypeSafeFormat(call, k, isLogger) ==
  LET loop[p \in 0 .. Len(call.format)] ==
        IF p = 0 THEN [text |-> << >>, count |-> 0, wrong |-> {}]
        ELSE LET before == loop[p - 1]
                 round  == Directive(call, k, p, before.count, isLogger)
             IN [text  |-> before.text \o round.pieces,
                 count |-> before.count + (IF IsPlaceholder(call.format[p]) THEN 1 ELSE 0),
                 wrong |-> before.wrong \cup round.wrong]
      done == loop[Len(call.format)]
  IN [pieces |-> done.text, wrong |-> done.wrong]

\* TSF is an argument of its own, before the format.
MacroParams(call) ==
  CASE call.kind = "empty" -> <<"empty">>
    [] call.kind = "raw"   -> <<"plain">>
    [] call.kind = "tsf"   -> [i \in 1 .. 2 + Len(call.values) |-> "plain"]
    [] OTHER               -> <<"plain", "plain">>

\* The overload of operator().
Call(call, k, isLogger) ==
  CASE call.kind = "empty" -> Pieces(<< >>)
    [] call.kind = "tsf"   -> DoTypeSafeFormat(call, k, isLogger)
    [] OTHER               -> VPrintf(call, k)

Routed(call, k, isLogger) ==
  LET method == XLOGGER_ROUTER_OUTPUT(MacroParams(call))
  IN CASE method = "nothing"       -> Pieces(<< >>)
       [] method = "WriteNoFormat" -> WriteNoFormat(call, k)
       [] OTHER                    -> Call(call, k, isLogger)

\* assert(false) ends a checked build, an access out of bounds possibly any.
Survives(result) ==
  build' \in IF build = "checked" /\ "misuse" \in result.wrong THEN {"dead"}
             ELSE IF "wild" \in result.wrong THEN {build, "dead"} ELSE {build}

\* Faulty: a misuse leaves the level alone.
FaultyWith(logger, result, front) ==
  [logger EXCEPT !.message = IF front THEN result.pieces \o @ ELSE @ \o result.pieces]

\* A result appended to a logger, or inserted before its text.
With(logger, result, front) ==
  [logger EXCEPT !.message = IF front THEN result.pieces \o @ ELSE @ \o result.pieces,
                 !.level = IF "misuse" \in result.wrong THEN kLevelFatal ELSE @]

-----------------------------------------------------------------------------
(* Statements.                                                              *)

Running  == build # "dead"
MaySay   == Running /\ Len(said) < MaxSaid
NextCall == Len(said) + 1
Say(call, lvl, by) == said' = Append(said, [call |-> call, level |-> lvl, by |-> by])

xlogger_SetLevel(lvl) ==
  /\ Running /\ level' = lvl
  /\ UNCHANGED <<build, loggers, scopes, log, said>>

xgroup2_define ==
  /\ Running /\ ~ loggers.group.open
  /\ loggers' = [loggers EXCEPT !.group = XLogger(kLevelAll)]
  /\ UNCHANGED <<level, build, scopes, log, said>>

\* xlogger2: the test, the XLogger and the method the router chose.  What is not
\* enabled does nothing at all.
xlogger2(lvl, call) ==
  /\ MaySay /\ ~ loggers.line.open /\ IsEnabledFor(lvl)
  /\ LET result == Routed(call, NextCall, TRUE)
     IN /\ loggers' = [loggers EXCEPT !.line = With(XLogger(lvl), result, FALSE)]
        /\ Survives(result)
  /\ Say(call, lvl, "logger")
  /\ UNCHANGED <<level, scopes, log>>

\* xassert2 of an expression that is false; the call's number stands for it.
xassert2(call) ==
  /\ MaySay /\ ~ loggers.line.open /\ IsEnabledFor(kLevelFatal)
  /\ LET result == Routed(call, NextCall, TRUE)
     IN /\ loggers' = [loggers EXCEPT !.line =
             [With(XLogger(kLevelFatal), result, FALSE)
                EXCEPT !.isassert = TRUE, !.exp = NextCall]]
        /\ Survives(result)
  /\ Say(call, kLevelFatal, "assert")
  /\ UNCHANGED <<level, scopes, log>>

\* group(...), without the router: what would be a text is the format there.
InGroup(call) == IF call.kind = "raw" THEN [call EXCEPT !.kind = "format"] ELSE call

GroupCall(call) ==
  /\ MaySay /\ loggers.group.open
  /\ LET result == Call(InGroup(call), NextCall, TRUE)
     IN /\ loggers' = [loggers EXCEPT !.group = With(@, result, FALSE)]
        /\ Survives(result)
  /\ Say(InGroup(call), kLevelAll, "logger")
  /\ UNCHANGED <<level, scopes, log>>

\* "<< value" and ">> value" on an XLogger.
StreamCall(value) ==
  [kind |-> "tsf", format |-> <<[op |-> "next", n |-> 0]>>, values |-> <<value>>]
Stream(which, value, front) ==
  /\ MaySay /\ loggers[which].open
  /\ LET result == Argument(StreamCall(value), NextCall, 0, TRUE)
     IN loggers' = [loggers EXCEPT ![which] = With(@, result, front)] /\ Survives(result)
  /\ Say(StreamCall(value), kLevelAll, "logger")
  /\ UNCHANGED <<level, scopes, log>>

\* Faulty: the assertion is cleared before it is copied.
FaultyMerged(group, line) ==
  [source |-> [line EXCEPT !.isassert = FALSE, !.exp = 0, !.message = << >>],
   target |-> [group EXCEPT !.message = @ \o line.message, !.isassert = FALSE, !.exp = 0,
                            !.level = IF @ < line.level THEN line.level ELSE @]]

\* line >> group: text always, level and assertion only upwards.
Merged(group, line) ==
  [source |-> [line EXCEPT !.isassert = FALSE, !.exp = 0, !.message = << >>],
   target |-> IF group.level < line.level
              THEN [group EXCEPT !.message = @ \o line.message, !.level = line.level,
                                 !.isassert = line.isassert, !.exp = line.exp]
              ELSE [group EXCEPT !.message = @ \o line.message]]

MergeIntoGroup ==
  /\ Running /\ loggers.line.open /\ loggers.group.open
  /\ loggers' = [line  |-> Merged(loggers.group, loggers.line).source,
                 group |-> Merged(loggers.group, loggers.line).target]
  /\ UNCHANGED <<level, build, scopes, log, said>>

Entry(kind, lvl, exp, message) ==
  [kind |-> kind, level |-> lvl, exp |-> exp, message |-> message]

\* m_message.c_str() ends at the first NUL.
NULs(message) == {p \in DOMAIN message : message[p].what = "nul"}
CStr(message) ==
  IF NULs(message) = {} THEN message
  ELSE LET first == CHOOSE p \in NULs(message) : \A q \in NULs(message) : p <= q
       IN SubSeq(message, 1, first - 1)

\* ~XLogger: nothing without a text or an assertion.
Destroy(which) ==
  /\ Running /\ loggers[which].open
  /\ LET x == loggers[which]
     IN log' = IF ~ x.isassert /\ x.message = << >> THEN log
               ELSE Append(log, Entry(IF x.isassert THEN "assert" ELSE "write",
                                      x.level, x.exp, CStr(x.message)))
  /\ loggers' = [loggers EXCEPT ![which] = NoLogger]
  /\ UNCHANGED <<level, build, scopes, said>>

-----------------------------------------------------------------------------
(* XScopeTracer.                                                            *)

\* The constructor asks for the level once.  XLOGGER_SCOPE_MESSAGE makes the
\* message with an XMessage, enabled or not.
EnterScope(lvl, call) ==
  /\ MaySay /\ ~ loggers.line.open /\ Len(scopes) < MaxScopes
  /\ LET result  == Routed(call, NextCall, FALSE)
         enabled == IsEnabledFor(lvl)
     IN /\ scopes' = Append(scopes,
             [scope |-> NextCall, enable |-> enabled, level |-> lvl, exitmsg |-> << >>])
        /\ log' = IF enabled THEN Append(log, Entry("enter", lvl, NextCall, result.pieces))
                  ELSE log
        /\ Survives(result)
  /\ Say(call, lvl, "tracer")
  /\ UNCHANGED <<level, loggers>>

\* xexitmsg_function appends to the message of the innermost tracer.
ExitMessage(call) ==
  /\ MaySay /\ scopes # << >> /\ ~ loggers.line.open
  /\ LET result == Routed(call, NextCall, FALSE)
     IN scopes' = [scopes EXCEPT ![Len(scopes)].exitmsg = @ \o result.pieces] /\ Survives(result)
  /\ Say(call, kLevelAll, "tracer")
  /\ UNCHANGED <<level, loggers, log>>

\* Faulty: the destructor asks for the level again.
FaultyLeaveScope ==
  /\ Running /\ scopes # << >> /\ ~ loggers.line.open
  /\ LET top == scopes[Len(scopes)]
     IN log' = IF IsEnabledFor(top.level)
               THEN Append(log, Entry("leave", top.level, top.scope, top.exitmsg)) ELSE log
  /\ scopes' = SubSeq(scopes, 1, Len(scopes) - 1)
  /\ UNCHANGED <<level, build, loggers, said>>

\* The destructor.  The time it prints is not initialised (the call of
\* gettimeofday is commented out); the line is written all the same.
LeaveScope ==
  /\ Running /\ scopes # << >> /\ ~ loggers.line.open
  /\ LET top == scopes[Len(scopes)]
     IN log' = IF top.enable
               THEN Append(log, Entry("leave", top.level, top.scope, top.exitmsg)) ELSE log
  /\ scopes' = SubSeq(scopes, 1, Len(scopes) - 1)
  /\ UNCHANGED <<level, build, loggers, said>>

LogNext ==
  \/ \E lvl \in LogLevels : xlogger_SetLevel(lvl)
  \/ xgroup2_define
  \/ \E lvl \in LogLevels, call \in Calls : xlogger2(lvl, call) \/ EnterScope(lvl, call)
  \/ \E call \in Calls : xassert2(call) \/ GroupCall(call) \/ ExitMessage(call)
  \/ \E which \in {"line", "group"} :
       \/ \E value \in {"value", "NULL"}, front \in BOOLEAN : Stream(which, value, front)
       \/ Destroy(which)
  \/ MergeIntoGroup
  \/ LeaveScope

-----------------------------------------------------------------------------
(* Properties.                                                              *)

\* What a call is meant to say: each directive in its place, placeholders
\* filled by the argument they count up to or name.  A text in a group's call is
\* well-formed only if it has no directive to fill.
ArgOf(call, p) ==
  IF call.format[p].op = "at" THEN call.format[p].n
  ELSE Cardinality({q \in 1 .. p - 1 : IsPlaceholder(call.format[q])})
WellFormed(call) ==
  \/ call.kind \in {"empty", "raw", "printf"}
  \/ call.kind = "format" /\ OnlyText(call.format)
  \/ /\ call.kind = "tsf"
     /\ \A p \in DOMAIN call.format :
          /\ call.format[p].op \notin {"bad", "end"}
          /\ IsPlaceholder(call.format[p]) =>
               /\ ArgOf(call, p) < Len(call.values)
               /\ call.values[ArgOf(call, p) + 1] = "value"
Meant(k) ==
  LET call == said[k].call
  IN [p \in DOMAIN call.format |->
        IF call.kind = "tsf" /\ IsPlaceholder(call.format[p])
        THEN Piece("value", k, ArgOf(call, p)) ELSE Piece("text", k, p)]

IsLine(entry) == entry.kind \in {"write", "assert"}
Written(entries) ==
  LET text[n \in 0 .. Len(entries)] ==
        IF n = 0 THEN << >>
        ELSE IF IsLine(entries[n]) THEN text[n - 1] \o entries[n].message ELSE text[n - 1]
  IN text[Len(entries)]
Everything == Written(log) \o loggers.line.message \o loggers.group.message
PiecesOf(ks) ==
  [what : {"text", "value", "misuse", "wild", "nul"}, of : ks, n : Nat]
InScope(k) == \E n \in DOMAIN scopes : scopes[n].scope = k

\* What a well-formed statement says is written exactly once, in the order of
\* its format, by its own line or by the group it was merged into, or is still
\* in one of them: never twice, by the emptied temporary as well, and never lost,
\* unless a format that ended in % put a NUL into a message.
HasNul(k) == \E p \in DOMAIN said[k].call.format : said[k].call.format[p].op = "end"
OnceEach ==
  Running /\ (\A j \in DOMAIN said : ~ HasNul(j)) =>
    \A k \in DOMAIN said :
      said[k].by # "tracer" /\ WellFormed(said[k].call) =>
        Without(Everything, PiecesOf(DOMAIN said \ {k})) = Meant(k)

\* A line is at least as severe as every statement merged into it, and Fatal if
\* one of them reported a misuse of the logger.
LineLevel ==
  \A n \in DOMAIN log : IsLine(log[n]) =>
    \A p \in DOMAIN log[n].message :
      LET piece == log[n].message[p]
      IN /\ log[n].level >= said[piece.of].level
         /\ piece.what = "misuse" => log[n].level = kLevelFatal

\* An assertion is reported as one, with the text that goes with it, unless it
\* was merged into a line that another call had made Fatal already.
Severe(k)  == said[k].level = kLevelFatal \/ ~ WellFormed(said[k].call)
Reports(x, k) ==
  /\ x.exp = k
  /\ WellFormed(said[k].call) =>
       \A n \in DOMAIN Meant(k) : \E p \in DOMAIN x.message : x.message[p] = Meant(k)[n]
AssertKept ==
  Running =>
    \A k \in DOMAIN said : said[k].by = "assert" =>
      \/ \E n \in DOMAIN log : log[n].kind = "assert" /\ Reports(log[n], k)
      \/ \E which \in {"line", "group"} : loggers[which].isassert /\ Reports(loggers[which], k)
      \/ \E j \in DOMAIN said \ {k} : Severe(j) /\ said[j].by # "tracer"

\* Tracer lines pair up like brackets, whatever happens to the level meanwhile:
\* a scope that wrote its entry writes its exit, after those of inner scopes.
ScopesPaired ==
  LET Entered(k) == {n \in DOMAIN log : log[n].kind = "enter" /\ log[n].exp = k}
      Left(k)    == {n \in DOMAIN log : log[n].kind = "leave" /\ log[n].exp = k}
  IN \A n \in DOMAIN log : log[n].kind \in {"enter", "leave"} =>
       LET k == log[n].exp
       IN /\ \E e \in Entered(k) : Entered(k) = {e}
          /\ (Left(k) = {}) <=> InScope(k)
          /\ \A e \in Entered(k), x \in Left(k) :
               /\ e < x
               /\ \A m \in e + 1 .. x - 1 : ~ IsLine(log[m]) =>
                    \A o \in Entered(log[m].exp) \cup Left(log[m].exp) : e < o /\ o < x
=============================================================================
