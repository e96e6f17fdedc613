------------------------------- MODULE MCParts -------------------------------
(***************************************************************************)
(* One instance of each part that keeps its state to itself: the listeners,*)
(* the log statements and the macros under them, the casts, the tokenizer  *)
(* and the short link packer.  A behaviour runs one part, the others stay  *)
(* in one of their initial states.                                         *)
(***************************************************************************)
EXTENDS Listeners, LogLines, StringCast, Tokenizer, ShortLink, TLC

VARIABLE part

Parts == {"listeners", "log", "macros", "cast", "tokenizer", "shortlink"}

partVars == <<listenVars, logVars, macroUse, cast, tokenizer, cuts, shortVars, part>>

\* One initial state of a part that does not run.
RestLog      == level = kLevelFatal /\ build = "release"
RestMacros   == macroUse = [first |-> 0, second |-> 0]
RestCast     == cast = castFields
RestToken    == tokenizer.string = << >>
RestShort    == request = [query |-> FALSE, body |-> 0, replaces |-> TRUE, given |-> << >>]
Runs(p, rest) == part = p \/ rest

PartsInit ==
  /\ part \in Parts
  /\ ListenInit
  /\ LogInit   /\ Runs("log", RestLog)
  /\ MacroInit /\ Runs("macros", RestMacros)
  /\ IF part = "cast" THEN CastInit ELSE RestCast
  /\ TokenInit /\ Runs("tokenizer", RestToken)
  /\ ShortInit /\ Runs("shortlink", RestShort)

\* Each part's own next-state relation, while the others rest.
PartsNext ==
  \/ /\ part = "listeners" /\ ListenNext
     /\ UNCHANGED <<logVars, macroUse, cast, tokenizer, cuts, shortVars, part>>
  \/ /\ part = "log" /\ LogNext
     /\ UNCHANGED <<listenVars, macroUse, cast, tokenizer, cuts, shortVars, part>>
  \/ /\ part = "cast" /\ CastNext
     /\ UNCHANGED <<listenVars, logVars, macroUse, tokenizer, cuts, shortVars, part>>
  \/ /\ part = "tokenizer" /\ TokenNext
     /\ UNCHANGED <<listenVars, logVars, macroUse, cast, shortVars, part>>
  \/ /\ part = "shortlink" /\ PackRequest
     /\ UNCHANGED <<listenVars, logVars, macroUse, cast, tokenizer, cuts, part>>

PartsSpec == PartsInit /\ [][PartsNext]_partVars

\* Threads are alike.
PartsSymmetry == Permutations(Apps)

MCDelimiters == {{" "}, {" ", ","}}

\* Calls: with the directives in order, out of order, too many, too few and bad.
Does(op) == [op |-> op, n |-> 0]
At(n)    == [op |-> "at", n |-> n]
Says(kind, format, count) ==
  [kind |-> kind, format |-> format, values |-> [i \in 1 .. count |-> "value"]]
MCCalls ==
  { Says("empty", << >>, 0), Says("null", << >>, 0), Says("printf", <<Does("text")>>, 0),
    Says("raw", <<Does("text"), Does("bad")>>, 0),
    Says("tsf", <<Does("text"), Does("next"), Does("next")>>, 2),
    Says("tsf", <<At(1), Does("percent"), Does("next")>>, 2),
    Says("tsf", <<Does("next"), Does("bad"), Does("end")>>, 0),
    Says("tsf", [i \in 1 .. 17 |-> Does("next")], 14) }
=============================================================================
