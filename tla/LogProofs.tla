------------------------------- MODULE LogProofs -------------------------------
(***************************************************************************)
(* Theorems about the macros of preprocessor.h and the log statements of   *)
(* xlogger.h: what the macros expand to, what a statement appends, how     *)
(* severe a line is, that a statement is written once and an assertion     *)
(* reported, and how tracers nest.                                         *)
(***************************************************************************)
EXTENDS LogLines, Induction, SequenceTheorems, FiniteSetTheorems

LogSpec == LogInit /\ [][LogNext]_logVars

-----------------------------------------------------------------------------
(* Sequences without the elements of a set.                                 *)

\* The values of the loop that leaves elements out.
LeavesOut(rest, s, dropped, T) ==
  /\ rest[0] = << >>
  /\ \A n \in 1 .. Len(s) :
       rest[n] = IF s[n] \in dropped THEN rest[n - 1] ELSE Append(rest[n - 1], s[n])
  /\ \A n \in 0 .. Len(s) : rest[n] \in Seq(T)
  /\ Without(s, dropped) = rest[Len(s)]

\* The loop has such values.
LEMMA WithoutRounds ==
  ASSUME NEW T, NEW s \in Seq(T), NEW dropped
  PROVE  \E rest : LeavesOut(rest, s, dropped, T)
<1> DEFINE m == Len(s)
           X == Seq(T)
           After(before, n) == IF s[n] \in dropped THEN before ELSE Append(before, s[n])
           rest[n \in 0 .. m] == IF n = 0 THEN << >> ELSE After(rest[n - 1], n)
           next == [n \in 1 .. m |-> [v \in X |-> After(v, n)]]
           none == << >>
<1>1. m \in Nat /\ none \in X
  OBVIOUS
<1>2. ASSUME NEW v \in X, NEW n \in 1 .. m PROVE After(v, n) \in X
  OBVIOUS
<1>3. next \in [1 .. m -> [X -> X]] /\ \A n \in 1 .. m, v \in X : next[n][v] = After(v, n)
  <2> HIDE DEF X, After, m
  <2> QED  BY <1>2
<1> HIDE DEF m, X, After, next, none
<1>4. PICK f \in [0 .. m -> X] : f[0] = none /\ \A n \in 1 .. m : f[n] = next[n][f[n - 1]]
  <2>1. Rounds(m, X, none, next)
    BY <1>1, <1>3 DEF Rounds
  <2> QED  BY <2>1, RoundsExist
<1>5. ASSUME NEW n \in 1 .. m
      PROVE  n - 1 \in 0 .. m /\ f[n - 1] \in X /\ f[n] = After(f[n - 1], n)
  <2>1. n - 1 \in 0 .. m
    BY <1>1
  <2> QED  BY <1>3, <1>4, <2>1
<1>6. rest = [n \in 0 .. m |-> IF n = 0 THEN << >> ELSE After(rest[n - 1], n)]
  <2> HIDE DEF rest
  <2>1. ASSUME NEW n \in 0 .. m
        PROVE  f[n] = IF n = 0 THEN << >> ELSE After(f[n - 1], n)
    <3>1. n = 0 \/ n \in 1 .. m
      BY <1>1
    <3> QED  BY <1>4, <1>5, <3>1 DEF none
  <2>2. f = [n \in 0 .. m |-> IF n = 0 THEN << >> ELSE After(f[n - 1], n)]
    BY <2>1
  <2> QED  BY <2>2, Zenon DEF rest
<1>7. Without(s, dropped) = rest[m]
  BY Zenon DEF Without, m, After
<1> HIDE DEF rest
<1>8. rest[0] = << >> /\ \A n \in 1 .. m : rest[n] = After(rest[n - 1], n)
  BY <1>1, <1>6
<1>9. \A n \in 0 .. m : rest[n] = f[n]
  <2>1. \A n \in 1 .. m : rest[n - 1] = f[n - 1] => rest[n] = f[n]
    BY <1>5, <1>8
  <2>2. m \in Nat /\ rest[0] = f[0]
    BY <1>1, <1>4, <1>8 DEF none
  <2>3. Alike(m, rest, f)
    BY <2>1, <2>2 DEF Alike
  <2> QED  BY <2>3, AlikeIsSame
<1>10. \A n \in 0 .. m : rest[n] \in X
  BY <1>4, <1>9
<1> QED  BY <1>7, <1>8, <1>10 DEF m, X, After, LeavesOut

\* Nothing left out of nothing, and the last element last.
LEMMA WithoutAppend ==
  ASSUME NEW T, NEW s \in Seq(T), NEW e \in T, NEW dropped
  PROVE  /\ Without(s, dropped) \in Seq(T)
         /\ Without(<< >>, dropped) = << >>
         /\ Without(Append(s, e), dropped) =
              IF e \in dropped THEN Without(s, dropped) ELSE Append(Without(s, dropped), e)
<1> DEFINE t == Append(s, e)
<1>1. /\ t \in Seq(T) /\ Len(t) = Len(s) + 1 /\ t[Len(s) + 1] = e /\ Len(s) \in Nat
      /\ \A n \in 1 .. Len(s) : t[n] = s[n]
  OBVIOUS
<1> HIDE DEF t
<1>2. PICK f : LeavesOut(f, s, dropped, T)
  BY WithoutRounds
<1>3. PICK g : LeavesOut(g, t, dropped, T)
  BY <1>1, WithoutRounds
<1>4. \A n \in 0 .. Len(s) : g[n] = f[n]
  <2>1. \A n \in 1 .. Len(s) : g[n - 1] = f[n - 1] => g[n] = f[n]
    <3>1. \A n \in 1 .. Len(s) : n \in 1 .. Len(t) /\ t[n] = s[n]
      BY <1>1
    <3> QED  BY <1>2, <1>3, <3>1 DEF LeavesOut
  <2>2. Len(s) \in Nat /\ g[0] = f[0]
    BY <1>1, <1>2, <1>3 DEF LeavesOut
  <2>3. Alike(Len(s), g, f)
    BY <2>1, <2>2 DEF Alike
  <2> QED  BY <2>3, AlikeIsSame
<1>5. Without(t, dropped) = IF e \in dropped THEN f[Len(s)] ELSE Append(f[Len(s)], e)
  <2>1. Len(t) \in 1 .. Len(t) /\ Len(t) - 1 = Len(s) /\ Len(s) \in 0 .. Len(s)
    BY <1>1
  <2> QED  BY <1>1, <1>3, <1>4, <2>1 DEF LeavesOut
<1>6. Without(<< >>, dropped) = << >>
  <2> DEFINE none == << >>
  <2>1. none \in Seq(T) /\ Len(none) = 0
    OBVIOUS
  <2> HIDE DEF none
  <2>2. PICK h : LeavesOut(h, none, dropped, T)
    BY <2>1, WithoutRounds
  <2> QED  BY <2>1, <2>2 DEF LeavesOut, none
<1>7. Without(s, dropped) \in Seq(T) /\ Without(s, dropped) = f[Len(s)]
  BY <1>1, <1>2 DEF LeavesOut
<1> QED  BY <1>5, <1>6, <1>7 DEF t

\* What is left of nothing.
LEMMA WithoutEmpty == ASSUME NEW dropped PROVE Without(<< >>, dropped) = << >>
<1> DEFINE none == << >>
<1>1. none \in Seq({0}) /\ 0 \in {0}
  OBVIOUS
<1> HIDE DEF none
<1> QED  BY <1>1, WithoutAppend

\* What is left of a sequence is one of the same elements.
LEMMA WithoutSeq ==
  ASSUME NEW T, NEW s \in Seq(T), NEW dropped
  PROVE  Without(s, dropped) \in Seq(T)
<1>1. CASE s = << >>
  BY <1>1, WithoutEmpty
<1>2. CASE s # << >>
  <2>1. PICK u \in Seq(T), e \in T : s = Append(u, e)
    BY <1>2, SequenceEmptyOrAppend
  <2> QED  BY <2>1, WithoutAppend
<1> QED  BY <1>1, <1>2

\* Two sequences one after the other.
LEMMA WithoutConcat ==
  ASSUME NEW T, NEW s \in Seq(T), NEW t \in Seq(T), NEW dropped
  PROVE  Without(s \o t, dropped) = Without(s, dropped) \o Without(t, dropped)
<1> DEFINE Both(u) == Without(s \o u, dropped) = Without(s, dropped) \o Without(u, dropped)
           S == {u \in Seq(T) : Both(u)}
<1>1. << >> \in S
  <2>1. s \o << >> = s /\ Without(s, dropped) \o << >> = Without(s, dropped)
    BY WithoutSeq, ConcatEmptySeq
  <2>2. Without(<< >>, dropped) = << >>
    BY WithoutEmpty
  <2>3. Both(<< >>)
    BY <2>1, <2>2
  <2> QED  BY <2>3
<1>2. ASSUME NEW u \in Seq(T), NEW e \in T, u \in S PROVE Append(u, e) \in S
  <2> DEFINE a == Without(s, dropped)
             b == Without(u, dropped)
  <2> DEFINE both == s \o u
  <2>1. a \in Seq(T) /\ b \in Seq(T) /\ both \in Seq(T) /\ Without(both, dropped) = a \o b
    BY <1>2, WithoutSeq
  <2>2. s \o Append(u, e) = Append(s \o u, e) /\ a \o Append(b, e) = Append(a \o b, e)
    <3> HIDE DEF a, b
    <3> QED  BY <2>1
  <2>3. Without(Append(u, e), dropped) = IF e \in dropped THEN b ELSE Append(b, e)
    BY WithoutAppend
  <2>4. Without(Append(both, e), dropped) = IF e \in dropped THEN a \o b ELSE Append(a \o b, e)
    <3> HIDE DEF both, a, b
    <3>1. Without(Append(both, e), dropped) =
            IF e \in dropped THEN Without(both, dropped) ELSE Append(Without(both, dropped), e)
      <4>1. both \in Seq(T)
        BY <2>1
      <4> QED  BY <4>1, WithoutAppend
    <3> QED  BY <2>1, <3>1
  <2>5. Append(u, e) \in Seq(T)
    OBVIOUS
  <2> HIDE DEF a, b
  <2>6. Without(s \o Append(u, e), dropped) = a \o Without(Append(u, e), dropped)
    BY <2>2, <2>3, <2>4
  <2> QED  BY <2>5, <2>6 DEF a
<1>3. Seq(T) \subseteq S
  <2> HIDE DEF S
  <2> QED  BY <1>1, <1>2, SeqInductionOnSet
<1> QED  BY <1>3

\* Where nothing is left out, and where everything is.
LEMMA WithoutNone ==
  ASSUME NEW T, NEW s \in Seq(T), NEW dropped, \A n \in DOMAIN s : s[n] \notin dropped
  PROVE  Without(s, dropped) = s
<1> DEFINE Good(u) == (\A n \in DOMAIN u : u[n] \notin dropped) => Without(u, dropped) = u
           S == {u \in Seq(T) : Good(u)}
<1>1. << >> \in S
  BY WithoutEmpty
<1>2. ASSUME NEW u \in Seq(T), NEW e \in T, u \in S PROVE Append(u, e) \in S
  <2>0. Append(u, e) \in Seq(T)
    OBVIOUS
  <2> SUFFICES ASSUME \A n \in DOMAIN Append(u, e) : Append(u, e)[n] \notin dropped
               PROVE  Without(Append(u, e), dropped) = Append(u, e)
    <3>1. Good(Append(u, e))
      OBVIOUS
    <3> HIDE DEF Good
    <3> QED  BY <2>0, <3>1
  <2>1. e \notin dropped /\ \A n \in DOMAIN u : u[n] \notin dropped
    <3>1. /\ DOMAIN Append(u, e) = 1 .. Len(u) + 1 /\ DOMAIN u = 1 .. Len(u) /\ Len(u) \in Nat
          /\ Append(u, e)[Len(u) + 1] = e /\ \A n \in 1 .. Len(u) : Append(u, e)[n] = u[n]
      OBVIOUS
    <3>2. Len(u) + 1 \in 1 .. Len(u) + 1 /\ \A n \in 1 .. Len(u) : n \in 1 .. Len(u) + 1
      BY <3>1
    <3> QED  BY <3>1, <3>2
  <2>2. Without(Append(u, e), dropped) =
          IF e \in dropped THEN Without(u, dropped) ELSE Append(Without(u, dropped), e)
    BY WithoutAppend
  <2>3. Without(u, dropped) = u
    BY <1>2, <2>1
  <2> QED  BY <2>1, <2>2, <2>3
<1>3. Seq(T) \subseteq S
  <2> HIDE DEF S
  <2> QED  BY <1>1, <1>2, SeqInductionOnSet
<1> QED  BY <1>3

\* The other end: a sequence of what is left out.
LEMMA WithoutAll ==
  ASSUME NEW T, NEW s \in Seq(T), NEW dropped, \A n \in DOMAIN s : s[n] \in dropped
  PROVE  Without(s, dropped) = << >>
<1> DEFINE Good(u) == (\A n \in DOMAIN u : u[n] \in dropped) => Without(u, dropped) = << >>
           S == {u \in Seq(T) : Good(u)}
<1>1. << >> \in S
  BY WithoutEmpty
<1>2. ASSUME NEW u \in Seq(T), NEW e \in T, u \in S PROVE Append(u, e) \in S
  <2>0. Append(u, e) \in Seq(T)
    OBVIOUS
  <2> SUFFICES ASSUME \A n \in DOMAIN Append(u, e) : Append(u, e)[n] \in dropped
               PROVE  Without(Append(u, e), dropped) = << >>
    <3>1. Good(Append(u, e))
      OBVIOUS
    <3> HIDE DEF Good
    <3> QED  BY <2>0, <3>1
  <2>1. e \in dropped /\ \A n \in DOMAIN u : u[n] \in dropped
    <3>1. /\ DOMAIN Append(u, e) = 1 .. Len(u) + 1 /\ DOMAIN u = 1 .. Len(u) /\ Len(u) \in Nat
          /\ Append(u, e)[Len(u) + 1] = e /\ \A n \in 1 .. Len(u) : Append(u, e)[n] = u[n]
      OBVIOUS
    <3>2. Len(u) + 1 \in 1 .. Len(u) + 1 /\ \A n \in 1 .. Len(u) : n \in 1 .. Len(u) + 1
      BY <3>1
    <3> QED  BY <3>1, <3>2
  <2>2. Without(Append(u, e), dropped) =
          IF e \in dropped THEN Without(u, dropped) ELSE Append(Without(u, dropped), e)
    BY WithoutAppend
  <2>3. Without(u, dropped) = << >>
    BY <1>2, <2>1
  <2> QED  BY <2>1, <2>2, <2>3
<1>3. Seq(T) \subseteq S
  <2> HIDE DEF S
  <2> QED  BY <1>1, <1>2, SeqInductionOnSet
<1> QED  BY <1>3

-----------------------------------------------------------------------------
(* preprocessor.h: the lists.                                               *)

Tokens == [symbol : {",", "&a", "NULL", "const string_cast& a", "T", "a"}, number : Int]

\* What the macros paste is a token and no comma.
LEMMA TokensTyped ==
  /\ Comma \in Tokens /\ Token("NULL") \in Tokens /\ Token("NULL") # Comma
  /\ \A text \in {"&a", "const string_cast& a", "T", "a"}, n \in Int :
       /\ Paste(text, n) \in Tokens /\ Paste(text, n) # Comma
       /\ Paste(text, n).number = n /\ Paste(text, n).symbol = text
  /\ Comma.symbol = "," /\ Token("NULL").symbol = "NULL"
<1> DEFINE words == {",", "&a", "NULL", "const string_cast& a", "T", "a"}
<1>1. Comma.symbol = "," /\ Token("NULL").symbol = "NULL"
  BY DEF Comma, Token
<1>2. ASSUME NEW text \in words, NEW n \in Int
      PROVE  /\ Paste(text, n) \in Tokens
             /\ Paste(text, n).number = n /\ Paste(text, n).symbol = text
  <2>1. Paste(text, n).number = n /\ Paste(text, n).symbol = text
    BY DEF Paste
  <2>2. Paste(text, n) \in [symbol : words, number : Int]
    <3> HIDE DEF words
    <3> QED  BY DEF Paste
  <2> QED  BY <2>1, <2>2 DEF Tokens
<1>3. Comma = Paste(",", -1) /\ Token("NULL") = Paste("NULL", -1) /\ -1 \in Int
  BY DEF Comma, Token, Paste
<1>4. "," \in words /\ "NULL" \in words
  OBVIOUS
<1>5. \A text \in {"&a", "const string_cast& a", "T", "a"} : text \in words /\ text # ","
  OBVIOUS
<1>6. Token("NULL") # Comma
  BY <1>1
<1> HIDE DEF words
<1>7. Comma \in Tokens /\ Token("NULL") \in Tokens
  BY <1>2, <1>3, <1>4
<1>8. ASSUME NEW text \in {"&a", "const string_cast& a", "T", "a"}, NEW n \in Int
      PROVE  /\ Paste(text, n) \in Tokens /\ Paste(text, n) # Comma
             /\ Paste(text, n).number = n /\ Paste(text, n).symbol = text
  <2>1. text \in words /\ text # ","
    BY <1>5
  <2>2. Paste(text, n) \in Tokens /\ Paste(text, n).number = n /\ Paste(text, n).symbol = text
    BY <1>2, <2>1
  <2> QED  BY <1>1, <2>1, <2>2
<1> QED  BY <1>1, <1>6, <1>7, <1>8, Zenon

\* The texts that are pasted.
LEMMA Pasted ==
  ASSUME NEW text \in {"&a", "const string_cast& a", "T", "a"}, NEW n \in Int
  PROVE  /\ Paste(text, n) \in Tokens /\ Paste(text, n) # Comma
         /\ Paste(text, n).number = n /\ Paste(text, n).symbol = text
<1> DEFINE words == {"&a", "const string_cast& a", "T", "a"}
<1>1. \A t \in words, k \in Int :
        /\ Paste(t, k) \in Tokens /\ Paste(t, k) # Comma
        /\ Paste(t, k).number = k /\ Paste(t, k).symbol = t
  BY TokensTyped, Zenon
<1>2. text \in words
  OBVIOUS
<1> HIDE DEF words
<1> QED  BY <1>1, <1>2, Zenon

\* Two and three are made one by one.
LEMMA FewAppended ==
  /\ \A x, y : Append(<<x>>, y) = <<x, y>>
  /\ \A x, y, z : Append(<<x, y>>, z) = <<x, y, z>>
<1>1. ASSUME NEW x, NEW y PROVE Append(<<x>>, y) = <<x, y>>
  <2> DEFINE s == Append(<<x>>, y)
             u == <<x, y>>
  <2>1. s \in Seq({x, y}) /\ Len(s) = 2 /\ s[1] = x /\ s[2] = y
    OBVIOUS
  <2>2. u \in Seq({x, y}) /\ Len(u) = 2 /\ u[1] = x /\ u[2] = y
    OBVIOUS
  <2> HIDE DEF s, u
  <2>3. s = u
    BY <2>1, <2>2, SeqEqual
  <2> QED  BY <2>3 DEF s, u
<1>2. ASSUME NEW x, NEW y, NEW z PROVE Append(<<x, y>>, z) = <<x, y, z>>
  <2> DEFINE s == Append(<<x, y>>, z)
             u == <<x, y, z>>
  <2>1. s \in Seq({x, y, z}) /\ Len(s) = 3 /\ s[1] = x /\ s[2] = y /\ s[3] = z
    OBVIOUS
  <2>2. u \in Seq({x, y, z}) /\ Len(u) = 3 /\ u[1] = x /\ u[2] = y /\ u[3] = z
    OBVIOUS
  <2> HIDE DEF s, u
  <2>3. s = u
    BY <2>1, <2>2, SeqEqual
  <2> QED  BY <2>3 DEF s, u
<1> QED  BY <1>1, <1>2, Zenon

\* A sequence of one, of two and of three.
LEMMA FewTokens ==
  ASSUME NEW T, NEW x \in T, NEW y \in T, NEW z \in T
  PROVE  /\ <<x>> \in Seq(T) /\ Len(<<x>>) = 1 /\ <<x>>[1] = x /\ DOMAIN <<x>> = {1}
         /\ <<x>> # << >> /\ << >> \in Seq(T) /\ Append(<< >>, x) = <<x>>
         /\ <<x, y>> \in Seq(T) /\ <<x, y, z>> \in Seq(T)
OBVIOUS

\* What is left of tokens without the commas.
Entries(tokens) == Without(tokens, {Comma})

\* Of tokens behind each other, and of a few.
LEMMA EntriesJoined ==
  ASSUME NEW a \in Seq(Tokens), NEW b \in Seq(Tokens)
  PROVE  Entries(a) \in Seq(Tokens) /\ Entries(a \o b) = Entries(a) \o Entries(b)
<1> DEFINE commas == {Comma}
<1> HIDE DEF commas
<1>1. Without(a, commas) \in Seq(Tokens)
  BY WithoutSeq
<1>2. Without(a \o b, commas) = Without(a, commas) \o Without(b, commas)
  BY WithoutConcat
<1> QED  BY <1>1, <1>2 DEF Entries, commas

\* Commas are left out and nothing else is.
LEMMA EntriesOfFew ==
  ASSUME NEW x \in Tokens, NEW y \in Tokens, x # Comma, y # Comma
  PROVE  /\ Entries(<< >>) = << >> /\ Entries(<<x>>) = <<x>> /\ Entries(<<Comma>>) = << >>
         /\ Entries(<<Comma, x>>) = <<x>> /\ Entries(<<Comma, x, y>>) = <<x, y>>
<1> DEFINE commas == {Comma}
           c      == Comma
           none   == << >>
<1>1. c \in Tokens /\ c \in commas /\ x \notin commas /\ y \notin commas
  BY TokensTyped
<1> HIDE DEF commas, c, none
<1>2. none \in Seq(Tokens) /\ Without(none, commas) = none
  BY WithoutEmpty DEF none
<1>3. ASSUME NEW s \in Seq(Tokens), NEW e \in Tokens
      PROVE  Without(Append(s, e), commas) =
               IF e \in commas THEN Without(s, commas) ELSE Append(Without(s, commas), e)
  BY WithoutAppend
<1>4. Without(Append(none, c), commas) = none /\ Without(Append(none, x), commas) = Append(none, x)
  BY <1>1, <1>2, <1>3
<1>5. Append(none, c) = <<c>> /\ Append(none, x) = <<x>> /\ <<c>> \in Seq(Tokens) /\ <<x>> \in Seq(Tokens)
  BY <1>1, FewTokens DEF none
<1>6. Without(Append(<<c>>, x), commas) = <<x>>
  BY <1>1, <1>3, <1>4, <1>5
<1>7. Append(<<c>>, x) = <<c, x>> /\ <<c, x>> \in Seq(Tokens) /\ Append(<<x>>, y) = <<x, y>>
      /\ Append(<<c, x>>, y) = <<c, x, y>>
  <2>1. <<c, x>> \in Seq(Tokens)
    BY <1>1, FewTokens
  <2> QED  BY <2>1, FewAppended, Zenon
<1>8. Without(Append(<<c, x>>, y), commas) = <<x, y>>
  BY <1>1, <1>3, <1>6, <1>7
<1> QED  BY <1>2, <1>4, <1>5, <1>6, <1>7, <1>8 DEF Entries, commas, c, none

\* A list of entries with a comma between two of them.
List(tokens, entries) ==
  /\ tokens \in Seq(Tokens) /\ entries \in Seq(Tokens)
  /\ Len(tokens) = IF entries = << >> THEN 0 ELSE 2 * Len(entries) - 1
  /\ Separated(tokens)
  /\ Entries(tokens) = entries

\* A list of one, and of none.
LEMMA ListOne ==
  /\ List(<< >>, << >>)
  /\ \A x \in Tokens : x # Comma => List(<<x>>, <<x>>)
<1>1. List(<< >>, << >>)
  BY WithoutEmpty DEF List, Separated, Entries
<1>2. ASSUME NEW x \in Tokens, x # Comma PROVE List(<<x>>, <<x>>)
  <2>1. <<x>> \in Seq(Tokens) /\ DOMAIN <<x>> = {1} /\ <<x>>[1] = x /\ Len(<<x>>) = 1 /\ <<x>> # << >>
    BY FewTokens
  <2>2. Entries(<<x>>) = <<x>>
    BY <1>2, EntriesOfFew
  <2>3. ~ (1 % 2 = 0)
    OBVIOUS
  <2> QED  BY <1>2, <2>1, <2>2, <2>3 DEF List, Separated
<1> QED  BY <1>1, <1>2

\* Two sequences behind each other.
LEMMA Behind ==
  ASSUME NEW T, NEW a \in Seq(T), NEW b \in Seq(T)
  PROVE  /\ a \o b \in Seq(T) /\ Len(a \o b) = Len(a) + Len(b)
         /\ Len(a) \in Nat /\ Len(b) \in Nat
         /\ \A k \in 1 .. Len(a) : (a \o b)[k] = a[k]
         /\ \A k \in 1 .. Len(b) : (a \o b)[Len(a) + k] = b[k]
<1>1. a \o b \in Seq(T) /\ Len(a \o b) = Len(a) + Len(b) /\ Len(a) \in Nat /\ Len(b) \in Nat
  OBVIOUS
<1>2. \A k \in 1 .. Len(a) : (a \o b)[k] = a[k]
  OBVIOUS
<1>3. \A k \in 1 .. Len(b) : (a \o b)[Len(a) + k] = b[k]
  OBVIOUS
<1> QED  BY <1>1, <1>2, <1>3

\* Two lists with a comma between them are a list.
LEMMA ListJoined ==
  ASSUME NEW a, NEW b, NEW e, NEW f, List(a, e), List(b, f), e # << >>, f # << >>
  PROVE  List((a \o <<Comma>>) \o b, e \o f)
<1> DEFINE one == <<Comma>>
           c   == a \o one
           t   == c \o b
<1>1. /\ a \in Seq(Tokens) /\ b \in Seq(Tokens) /\ e \in Seq(Tokens) /\ f \in Seq(Tokens)
      /\ Len(a) = 2 * Len(e) - 1 /\ Len(b) = 2 * Len(f) - 1
      /\ Entries(a) = e /\ Entries(b) = f /\ Len(e) \in Nat /\ Len(f) \in Nat
  BY DEF List
<1>2. one \in Seq(Tokens) /\ Len(one) = 1 /\ one[1] = Comma /\ Entries(one) = << >>
  <2>1. Comma \in Tokens /\ Token("NULL") \in Tokens /\ Token("NULL") # Comma
    BY TokensTyped, Zenon
  <2> QED  BY <2>1, FewTokens, EntriesOfFew
<1> HIDE DEF one
<1>3. /\ c \in Seq(Tokens) /\ Len(c) = 2 * Len(e)
      /\ \A k \in 1 .. Len(a) : c[k] = a[k]
      /\ c[2 * Len(e)] = Comma
  <2>1. a \in Seq(Tokens) /\ one \in Seq(Tokens)
    BY <1>1, <1>2
  <2>2. /\ c \in Seq(Tokens) /\ Len(c) = Len(a) + Len(one) /\ Len(a) \in Nat
        /\ \A k \in 1 .. Len(a) : c[k] = a[k]
        /\ \A k \in 1 .. Len(one) : c[Len(a) + k] = one[k]
    BY <2>1, Behind
  <2>3. Len(a) + 1 = 2 * Len(e) /\ 1 \in 1 .. Len(one)
    BY <1>1, <1>2
  <2> HIDE DEF c
  <2> QED  BY <1>2, <2>2, <2>3
<1>4. Entries(c) = e
  <2>1. Entries(c) = e \o << >>
    <3>1. a \in Seq(Tokens) /\ one \in Seq(Tokens)
      BY <1>1, <1>2
    <3>2. Entries(a \o one) = Entries(a) \o Entries(one)
      BY <3>1, EntriesJoined
    <3> QED  BY <1>1, <1>2, <3>2
  <2>2. e \o << >> = e
    BY <1>1, ConcatEmptySeq
  <2> QED  BY <2>1, <2>2
<1> HIDE DEF c
<1>5. t \in Seq(Tokens) /\ Len(t) = 2 * (Len(e) + Len(f)) - 1 /\ Entries(t) = e \o f
  <2>0. c \in Seq(Tokens) /\ b \in Seq(Tokens)
    BY <1>1, <1>3
  <2>1. Entries(t) = e \o f
    <3>1. Entries(c \o b) = Entries(c) \o Entries(b)
      BY <2>0, EntriesJoined
    <3> QED  BY <1>1, <1>4, <3>1
  <2>2. t \in Seq(Tokens) /\ Len(t) = Len(c) + Len(b)
    BY <2>0
  <2> HIDE DEF t
  <2> QED  BY <1>1, <1>3, <2>1, <2>2
<1>6. e \o f \in Seq(Tokens) /\ Len(e \o f) = Len(e) + Len(f) /\ e \o f # << >>
  BY <1>1
<1>7. Separated(t)
  <2> SUFFICES ASSUME NEW k \in DOMAIN t PROVE (k % 2 = 0) <=> t[k] = Comma
    BY DEF Separated
  <2>0. k \in 1 .. Len(t) /\ k \in Nat /\ Len(e) \in Nat /\ Len(f) \in Nat
    BY <1>1, <1>5
  <2>1. CASE k < 2 * Len(e)
    <3>1. k \in 1 .. Len(a) /\ k \in DOMAIN a /\ t[k] = a[k]
      BY <1>1, <1>3, <2>0, <2>1
    <3> QED  BY <3>1 DEF List, Separated
  <2>2. CASE k = 2 * Len(e)
    <3>1. t[k] = Comma
      BY <1>1, <1>3, <2>0, <2>2
    <3>2. k % 2 = 0
      BY <2>0, <2>2
    <3> QED  BY <3>1, <3>2
  <2>3. CASE k > 2 * Len(e)
    <3> DEFINE j == k - 2 * Len(e)
    <3>1. j \in 1 .. Len(b) /\ j \in DOMAIN b /\ t[k] = b[j]
      BY <1>1, <1>3, <1>5, <2>0, <2>3
    <3>2. k % 2 = j % 2
      BY <2>0, <2>3
    <3>3. (j % 2 = 0) <=> b[j] = Comma
      BY <3>1 DEF List, Separated
    <3> QED  BY <3>1, <3>2, <3>3
  <2> QED  BY <2>0, <2>1, <2>2, <2>3
<1> HIDE DEF t
<1>8. List(t, e \o f)
  BY <1>1, <1>5, <1>6, <1>7 DEF List
<1> QED  BY <1>8 DEF t, c, one

\* The rounds in which ENUM_REPEAT_n is made.
Repeats(repeat, count, macro) ==
  /\ repeat[0] = << >>
  /\ PP_ENUM_REPEAT(count, macro) = repeat[count]
  /\ \A n \in 1 .. count : repeat[n] = repeat[n - 1] \o macro[n - 1]
  /\ \A n \in 0 .. count : repeat[n] \in Seq(Tokens)

\* A macro that makes tokens of the numbers below count.
MacroTyped(count, macro) == \A n \in 0 .. count - 1 : macro[n] \in Seq(Tokens)

\* Such a macro can be repeated.
LEMMA EnumRepeats ==
  ASSUME NEW count \in Nat, NEW macro, MacroTyped(count, macro)
  PROVE  \E repeat : Repeats(repeat, count, macro)
<1> DEFINE X == Seq(Tokens)
           More(before, n) == before \o macro[n - 1]
           repeat[n \in 0 .. count] == IF n = 0 THEN << >> ELSE More(repeat[n - 1], n)
           next == [n \in 1 .. count |-> [v \in X |-> More(v, n)]]
           none == << >>
<1>1. none \in X
  OBVIOUS
<1>2. ASSUME NEW v \in X, NEW n \in 1 .. count PROVE More(v, n) \in X
  <2>1. n - 1 \in 0 .. count - 1
    OBVIOUS
  <2>2. macro[n - 1] \in X
    BY <2>1 DEF MacroTyped
  <2> QED  BY <2>2
<1>3. next \in [1 .. count -> [X -> X]] /\ \A n \in 1 .. count, v \in X : next[n][v] = More(v, n)
  <2> HIDE DEF X, More
  <2> QED  BY <1>2
<1> HIDE DEF X, More, next, none
<1>4. PICK f \in [0 .. count -> X] : f[0] = none /\ \A n \in 1 .. count : f[n] = next[n][f[n - 1]]
  <2>1. count \in Nat /\ none \in X /\ next \in [1 .. count -> [X -> X]]
    BY <1>1, <1>3
  <2> QED  BY <2>1, LoopExists
<1>5. ASSUME NEW n \in 1 .. count
      PROVE  n - 1 \in 0 .. count /\ f[n - 1] \in X /\ f[n] = More(f[n - 1], n)
  <2>1. n - 1 \in 0 .. count
    OBVIOUS
  <2> QED  BY <1>3, <1>4, <2>1
<1>6. repeat = [n \in 0 .. count |-> IF n = 0 THEN << >> ELSE More(repeat[n - 1], n)]
  <2> HIDE DEF repeat
  <2>1. ASSUME NEW n \in 0 .. count
        PROVE  f[n] = IF n = 0 THEN << >> ELSE More(f[n - 1], n)
    <3>1. n = 0 \/ n \in 1 .. count
      OBVIOUS
    <3> QED  BY <1>4, <1>5, <3>1 DEF none
  <2>2. f = [n \in 0 .. count |-> IF n = 0 THEN << >> ELSE More(f[n - 1], n)]
    BY <2>1
  <2> QED  BY <2>2, Zenon DEF repeat
<1>7. PP_ENUM_REPEAT(count, macro) = repeat[count]
  BY Zenon DEF PP_ENUM_REPEAT, More
<1> HIDE DEF repeat
<1>8. repeat[0] = << >> /\ \A n \in 1 .. count : repeat[n] = More(repeat[n - 1], n)
  BY <1>6
<1>9. \A n \in 0 .. count : repeat[n] = f[n]
  <2>1. \A n \in 1 .. count : repeat[n - 1] = f[n - 1] => repeat[n] = f[n]
    BY <1>5, <1>8
  <2>2. count \in Nat /\ repeat[0] = f[0]
    BY <1>4, <1>8 DEF none
  <2>3. Alike(count, repeat, f)
    BY <2>1, <2>2 DEF Alike
  <2> QED  BY <2>3, AlikeIsSame
<1>10. \A n \in 0 .. count : repeat[n] \in X
  BY <1>4, <1>9
<1> QED  BY <1>7, <1>8, <1>10 DEF X, More, Repeats

\* What PP_COMMA_IF makes, and the one entry behind it.
LEMMA CommaIf ==
  /\ PP_COMMA_IF(0) = << >>
  /\ \A n \in Nat : n # 0 => PP_COMMA_IF(n) = <<Comma>>
  /\ \A n \in Nat : PP_COMMA_IF(n) \in Seq(Tokens)
<1> DEFINE one == <<Comma>>
           none == << >>
<1>1. one \in Seq(Tokens) /\ none \in Seq(Tokens)
  <2>1. Comma \in Tokens
    BY TokensTyped, Zenon
  <2> QED  BY <2>1, FewTokens
<1>2. PP_COMMA_IF(0) = none /\ \A n \in Nat : n # 0 => PP_COMMA_IF(n) = one
  BY DEF PP_COMMA_IF, PP_IF, PP_BOOL
<1> HIDE DEF one, none
<1>3. \A n \in Nat : PP_COMMA_IF(n) \in Seq(Tokens)
  BY <1>1, <1>2
<1> QED  BY <1>2, <1>3 DEF one, none

\* A macro that makes an entry with a comma before it if it is not the first.
MakesEntries(count, macro, entry) ==
  \A n \in 0 .. count - 1 :
    entry[n] \in Tokens /\ entry[n] # Comma /\ macro[n] = PP_COMMA_IF(n) \o <<entry[n]>>

\* The entries of the numbers below n.
FirstOf(entry, n) == [k \in 1 .. n |-> entry[k - 1]]

\* One entry more.
LEMMA FirstNext ==
  ASSUME NEW n \in Nat, NEW entry, \A k \in 0 .. n : entry[k] \in Tokens
  PROVE  FirstOf(entry, n + 1) = FirstOf(entry, n) \o <<entry[n]>>
<1> DEFINE one == <<entry[n]>>
           a   == FirstOf(entry, n)
           c   == FirstOf(entry, n + 1)
<1>1. entry[n] \in Tokens
  OBVIOUS
<1>2. one \in Seq(Tokens) /\ Len(one) = 1 /\ one[1] = entry[n]
  BY <1>1, FewTokens
<1>3. a \in Seq(Tokens) /\ Len(a) = n /\ \A k \in 1 .. n : a[k] = entry[k - 1]
  <2>1. \A k \in 1 .. n : entry[k - 1] \in Tokens
    OBVIOUS
  <2> QED  BY <2>1 DEF FirstOf
<1>4. c \in Seq(Tokens) /\ Len(c) = n + 1 /\ \A k \in 1 .. n + 1 : c[k] = entry[k - 1]
  <2>1. \A k \in 1 .. n + 1 : entry[k - 1] \in Tokens
    OBVIOUS
  <2> QED  BY <2>1 DEF FirstOf
<1> HIDE DEF one, a, c
<1>5. /\ a \o one \in Seq(Tokens) /\ Len(a \o one) = Len(a) + Len(one)
      /\ \A k \in 1 .. Len(a) : (a \o one)[k] = a[k]
      /\ \A k \in 1 .. Len(one) : (a \o one)[Len(a) + k] = one[k]
  <2>1. a \in Seq(Tokens) /\ one \in Seq(Tokens)
    BY <1>2, <1>3
  <2> QED  BY <2>1, Behind
<1>6. Len(a \o one) = n + 1 /\ (a \o one)[n + 1] = entry[n]
  <2>1. 1 \in 1 .. Len(one)
    BY <1>2
  <2> QED  BY <1>2, <1>3, <1>5, <2>1
<1>7. ASSUME NEW k \in 1 .. n + 1 PROVE (a \o one)[k] = c[k]
  <2>1. k \in 1 .. n \/ k = n + 1
    OBVIOUS
  <2>2. k = n + 1 => k - 1 = n
    OBVIOUS
  <2> QED  BY <1>3, <1>4, <1>5, <1>6, <2>1, <2>2
<1>8. c = a \o one
  <2> DEFINE d == a \o one
  <2>1. d \in Seq(Tokens) /\ c \in Seq(Tokens) /\ Len(d) = Len(c) /\ \A k \in 1 .. Len(d) : d[k] = c[k]
    BY <1>4, <1>5, <1>6, <1>7
  <2> HIDE DEF d
  <2>2. d = c
    BY <2>1, SeqEqual
  <2> QED  BY <2>2 DEF d
<1> QED  BY <1>8 DEF a, c, one

\* The list of entries that such a macro makes.
LEMMA EnumList ==
  ASSUME NEW count \in Nat, NEW macro, NEW entry, MakesEntries(count, macro, entry)
  PROVE  List(PP_ENUM_REPEAT(count, macro), FirstOf(entry, count))
<1>1. ASSUME NEW n \in 0 .. count - 1
      PROVE  /\ <<entry[n]>> \in Seq(Tokens) /\ <<entry[n]>> # << >>
             /\ List(<<entry[n]>>, <<entry[n]>>)
             /\ macro[n] = PP_COMMA_IF(n) \o <<entry[n]>> /\ macro[n] \in Seq(Tokens)
             /\ entry[n] \in Tokens
  <2> DEFINE one == <<entry[n]>>
             sep == PP_COMMA_IF(n)
  <2>1. entry[n] \in Tokens /\ entry[n] # Comma /\ macro[n] = sep \o one /\ n \in Nat
    BY DEF MakesEntries
  <2>2. one \in Seq(Tokens) /\ one # << >>
    BY <2>1, FewTokens
  <2>3. List(one, one)
    BY <2>1, ListOne
  <2>4. sep \in Seq(Tokens)
    BY <2>1, CommaIf
  <2> HIDE DEF one, sep
  <2>5. sep \o one \in Seq(Tokens)
    BY <2>2, <2>4
  <2> QED  BY <2>1, <2>2, <2>3, <2>5 DEF one, sep
<1>2. MacroTyped(count, macro)
  BY <1>1 DEF MacroTyped
<1>3. PICK repeat : Repeats(repeat, count, macro)
  BY <1>2, EnumRepeats
<1> DEFINE Good(n) == n <= count => List(repeat[n], FirstOf(entry, n))
           S == {n \in Nat : Good(n)}
<1>4. FirstOf(entry, 0) = << >>
  BY DEF FirstOf
<1>5. 0 \in S
  <2>1. List(<< >>, << >>)
    BY ListOne
  <2> QED  BY <1>3, <1>4, <2>1 DEF Repeats
<1>6. ASSUME NEW n \in Nat, n \in S PROVE n + 1 \in S
  <2> SUFFICES ASSUME n + 1 <= count PROVE List(repeat[n + 1], FirstOf(entry, n + 1))
    <3>1. Good(n + 1)
      OBVIOUS
    <3>2. n + 1 \in Nat
      OBVIOUS
    <3> HIDE DEF Good
    <3> QED  BY <3>1, <3>2
  <2> DEFINE one == <<entry[n]>>
             sep == PP_COMMA_IF(n)
             a   == FirstOf(entry, n)
  <2>1. n + 1 \in 1 .. count /\ n \in 0 .. count - 1 /\ (n + 1) - 1 = n /\ n \in 0 .. count /\ n <= count
    OBVIOUS
  <2>2. one \in Seq(Tokens) /\ one # << >> /\ List(one, one) /\ macro[n] = sep \o one
    BY <1>1, <2>1
  <2>3. repeat[n + 1] = repeat[n] \o (sep \o one) /\ repeat[n] \in Seq(Tokens)
    BY <1>3, <2>1, <2>2 DEF Repeats
  <2>4. List(repeat[n], a)
    BY <1>6, <2>1
  <2>5. FirstOf(entry, n + 1) = a \o one
    <3>1. \A k \in 0 .. n : entry[k] \in Tokens
      <4>1. \A k \in 0 .. n : k \in 0 .. count - 1
        BY <2>1
      <4> QED  BY <1>1, <4>1
    <3> QED  BY <3>1, FirstNext
  <2>6. a \in Seq(Tokens)
    BY <2>4 DEF List
  <2>7. CASE n = 0
    <3>1. sep = << >> /\ a = << >> /\ repeat[n] = << >>
      BY <1>3, <1>4, <2>7, CommaIf DEF Repeats
    <3> HIDE DEF one, sep, a
    <3>2. << >> \o one = one
      BY <2>2, ConcatEmptySeq
    <3>3. repeat[n + 1] = one /\ FirstOf(entry, n + 1) = one
      BY <2>3, <2>5, <3>1, <3>2
    <3> QED  BY <2>2, <3>3
  <2>8. CASE n # 0
    <3> DEFINE mid == <<Comma>>
    <3>1. sep = mid
      BY <2>8, CommaIf
    <3>2. mid \in Seq(Tokens)
      <4>1. sep \in Seq(Tokens)
        BY CommaIf
      <4> QED  BY <3>1, <4>1
    <3>3. a # << >>
      <4>1. 1 \in DOMAIN a
        BY <2>8 DEF FirstOf
      <4>2. DOMAIN << >> = {}
        OBVIOUS
      <4> HIDE DEF a
      <4> QED  BY <4>1, <4>2
    <3> HIDE DEF one, sep, a
    <3>4. List((repeat[n] \o mid) \o one, a \o one)
      BY <2>2, <2>4, <3>3, ListJoined
    <3> HIDE DEF mid
    <3>5. repeat[n] \o (mid \o one) = (repeat[n] \o mid) \o one
      <4> DEFINE r == repeat[n]
      <4>1. r \in Seq(Tokens)
        BY <2>3
      <4> HIDE DEF r
      <4>2. one \in Seq(Tokens)
        BY <2>2
      <4> HIDE DEF mid, one
      <4>3. (r \o mid) \o one = r \o (mid \o one)
        BY <3>2, <4>1, <4>2, ConcatAssociative, SMT
      <4> QED  BY <4>3 DEF r
    <3> QED  BY <2>3, <2>5, <3>1, <3>4, <3>5
  <2> QED  BY <2>7, <2>8
<1>7. count \in S
  <2> HIDE DEF S
  <2> QED  BY <1>5, <1>6, NatInductionOnSet
<1>8. repeat[count] = PP_ENUM_REPEAT(count, macro) /\ count <= count
  BY <1>3 DEF Repeats
<1> QED  BY <1>7, <1>8

\* A macro whose entries are the next width of a sequence.
MakesParts(count, macro, width, entries) ==
  \A n \in 0 .. count - 1 :
    /\ macro[n] \in Seq(Tokens)
    /\ Entries(macro[n]) = SubSeq(entries, width * n + 1, width * (n + 1))

\* The entries that a macro makes behind each other, whatever commas come with them.
LEMMA EnumEntries ==
  ASSUME NEW count \in Nat, NEW macro, NEW width \in Nat, NEW entries \in Seq(Tokens),
         Len(entries) = width * count, MakesParts(count, macro, width, entries)
  PROVE  Entries(PP_ENUM_REPEAT(count, macro)) = entries
<1>0. MacroTyped(count, macro)
  BY DEF MakesParts, MacroTyped
<1>1. PICK repeat : Repeats(repeat, count, macro)
  BY <1>0, EnumRepeats
<1> DEFINE Good(n) == n <= count => Entries(repeat[n]) = SubSeq(entries, 1, width * n)
           S == {n \in Nat : Good(n)}
<1>2. 0 \in S
  <2>1. width * 0 = 0
    OBVIOUS
  <2>2. SubSeq(entries, 1, 0) = << >>
    BY SubSeqEmpty
  <2>3. Entries(<< >>) = << >>
    BY WithoutEmpty DEF Entries
  <2> QED  BY <1>1, <2>1, <2>2, <2>3 DEF Repeats
<1>3. ASSUME NEW n \in Nat, n \in S PROVE n + 1 \in S
  <2> SUFFICES ASSUME n + 1 <= count
               PROVE  Entries(repeat[n + 1]) = SubSeq(entries, 1, width * (n + 1))
    <3>1. Good(n + 1)
      OBVIOUS
    <3>2. n + 1 \in Nat
      OBVIOUS
    <3> HIDE DEF Good
    <3> QED  BY <3>1, <3>2
  <2>1. n + 1 \in 1 .. count /\ n \in 0 .. count - 1 /\ n \in 0 .. count /\ (n + 1) - 1 = n /\ n <= count
    OBVIOUS
  <2>2. repeat[n + 1] = repeat[n] \o macro[n] /\ repeat[n] \in Seq(Tokens) /\ macro[n] \in Seq(Tokens)
    BY <1>1, <2>1 DEF Repeats, MakesParts
  <2>3. Entries(repeat[n]) = SubSeq(entries, 1, width * n)
    BY <1>3, <2>1
  <2>4. Entries(macro[n]) = SubSeq(entries, width * n + 1, width * (n + 1))
    BY <2>1 DEF MakesParts
  <2> DEFINE k == width * n
             l == width * (n + 1)
  <2>5. k \in 0 .. Len(entries) /\ l \in k .. Len(entries)
    <3>1. k \in Nat /\ l = k + width /\ l \in Nat
      BY <2>1
    <3>2. count - (n + 1) \in Nat
      BY <2>1
    <3> DEFINE over == width * (count - (n + 1))
    <3>3. over \in Nat /\ Len(entries) = l + over
      BY <3>2
    <3> HIDE DEF k, l, over
    <3> QED  BY <3>1, <3>3
  <2> HIDE DEF k, l
  <2>6. SubSeq(entries, 1, k) \o SubSeq(entries, k + 1, l) = SubSeq(entries, 1, l)
    <3>1. 1 \in 1 .. Len(entries) + 1 /\ k \in 1 - 1 .. Len(entries)
      BY <2>5
    <3> QED  BY <2>5, <3>1, ConcatAdjacentSubSeq
  <2>7. Entries(repeat[n + 1]) = Entries(repeat[n]) \o Entries(macro[n])
    BY <2>2, EntriesJoined
  <2> QED  BY <2>3, <2>4, <2>6, <2>7 DEF k, l
<1>4. count \in S
  <2> HIDE DEF S
  <2> QED  BY <1>2, <1>3, NatInductionOnSet
<1>5. SubSeq(entries, 1, Len(entries)) = entries
  BY SubSeqFull
<1>6. PP_ENUM_REPEAT(count, macro) = repeat[count] /\ count <= count
  BY <1>1 DEF Repeats
<1> QED  BY <1>4, <1>5, <1>6

Slot(n, i) == IF i <= n THEN Paste("&a", i - 1) ELSE Token("NULL")
Slots(n) == [i \in 1 .. MaxParams |-> Slot(n, i)]

\* A slot is a token.
LEMMA SlotTyped ==
  /\ \A i \in Int : Paste("&a", i) \in Tokens /\ Paste("&a", i) # Comma
  /\ Token("NULL") \in Tokens /\ Token("NULL") # Comma
  /\ \A n, i \in Int : Slot(n, i) \in Tokens
<1>1. ASSUME NEW i \in Int PROVE Paste("&a", i) \in Tokens /\ Paste("&a", i) # Comma
  <2>1. "&a" \in {"&a", "const string_cast& a", "T", "a"}
    OBVIOUS
  <2> QED  BY <2>1, Pasted
<1>2. Comma \in Tokens /\ Token("NULL") \in Tokens /\ Token("NULL") # Comma
  BY TokensTyped, Zenon
<1>3. ASSUME NEW n \in Int, NEW i \in Int PROVE Slot(n, i) \in Tokens
  <2>1. i - 1 \in Int
    OBVIOUS
  <2> QED  BY <1>1, <1>2, <2>1 DEF Slot
<1> QED  BY <1>1, <1>2, <1>3

\* The array of an overload with n parameters has their addresses and then NULL.
LEMMA InitializerList ==
  ASSUME NEW n \in Counts
  PROVE  List(Initializer(n, MaxParams - n), Slots(n))
<1> DEFINE m     == MaxParams - n
           a     == PP_ENUM_PARAMS(n, "&a")
           b     == PP_ENUM(m, "NULL")
           own   == [k \in Counts |-> Paste("&a", k)]
           null  == [k \in Counts |-> Token("NULL")]
           e     == FirstOf(own, n)
           f     == FirstOf(null, m)
           comma == PP_COMMA_IF(PP_AND(n, m))
<1>1. n \in 0 .. 16 /\ m \in 0 .. 16 /\ n + m = 16 /\ n \in Nat /\ m \in Nat
  BY DEF Counts, MaxParams
<1>2. List(a, e)
  <2> DEFINE macro == [k \in Counts |-> PP_COMMA_IF(k) \o <<Paste("&a", k)>>]
  <2>1. \A k \in 0 .. n - 1 : k \in Counts /\ k \in Int
    BY <1>1 DEF Counts, MaxParams
  <2>2. MakesEntries(n, macro, own)
    BY <2>1, SlotTyped DEF MakesEntries
  <2>3. a = PP_ENUM_REPEAT(n, macro)
    BY Zenon DEF PP_ENUM_PARAMS
  <2> HIDE DEF a, e, macro, own
  <2>4. List(PP_ENUM_REPEAT(n, macro), FirstOf(own, n))
    BY <1>1, <2>2, EnumList
  <2> QED  BY <2>3, <2>4 DEF e
<1>3. List(b, f)
  <2> DEFINE macro == [k \in Counts |-> PP_COMMA_IF(k) \o <<Token("NULL")>>]
  <2>1. \A k \in 0 .. m - 1 : k \in Counts
    BY <1>1 DEF Counts, MaxParams
  <2>2. MakesEntries(m, macro, null)
    BY <2>1, SlotTyped DEF MakesEntries
  <2>3. b = PP_ENUM_REPEAT(m, macro)
    BY Zenon DEF PP_ENUM
  <2> HIDE DEF b, f, macro, null, m
  <2>4. List(PP_ENUM_REPEAT(m, macro), FirstOf(null, m))
    BY <1>1, <2>2, EnumList
  <2> QED  BY <2>3, <2>4 DEF f
<1>4. comma = IF n # 0 /\ m # 0 THEN <<Comma>> ELSE << >>
  BY <1>1 DEF PP_COMMA_IF, PP_IF, PP_AND, PP_BITAND, PP_BOOL
<1>5. Initializer(n, m) = (a \o comma) \o b
  BY DEF Initializer
<1>6. Slots(n) \in Seq(Tokens) /\ Len(Slots(n)) = 16 /\ \A i \in 1 .. 16 : Slots(n)[i] = Slot(n, i)
  <2>1. \A i \in 1 .. 16 : Slot(n, i) \in Tokens
    BY <1>1, SlotTyped
  <2> QED  BY <2>1 DEF Slots, MaxParams
<1>7. /\ a \in Seq(Tokens) /\ b \in Seq(Tokens)
      /\ e \in Seq(Tokens) /\ Len(e) = n /\ f \in Seq(Tokens) /\ Len(f) = m
      /\ \A k \in 1 .. n : e[k] = Paste("&a", k - 1)
      /\ \A k \in 1 .. m : f[k] = Token("NULL")
  <2>1. a \in Seq(Tokens) /\ b \in Seq(Tokens) /\ e \in Seq(Tokens) /\ f \in Seq(Tokens)
    BY <1>2, <1>3 DEF List
  <2>2. (\A k \in 1 .. n : k - 1 \in Counts) /\ (\A k \in 1 .. m : k - 1 \in Counts)
    BY <1>1 DEF Counts, MaxParams
  <2>3. Len(e) = n /\ \A k \in 1 .. n : e[k] = own[k - 1]
    BY <1>1, <2>1 DEF FirstOf
  <2>4. Len(f) = m /\ \A k \in 1 .. m : f[k] = null[k - 1]
    <3> HIDE DEF m
    <3> QED  BY <1>1, <2>1 DEF FirstOf
  <2> QED  BY <2>1, <2>2, <2>3, <2>4
<1>8. e \o f = Slots(n)
  <2> HIDE DEF e, f, m
  <2> DEFINE g == e \o f
  <2>1. e \in Seq(Tokens) /\ f \in Seq(Tokens)
    BY <1>7
  <2>2. /\ g \in Seq(Tokens) /\ Len(g) = Len(e) + Len(f)
        /\ \A k \in 1 .. Len(e) : g[k] = e[k]
        /\ \A k \in 1 .. Len(f) : g[Len(e) + k] = f[k]
    BY <2>1, Behind
  <2> HIDE DEF g
  <2>3. ASSUME NEW i \in 1 .. 16 PROVE g[i] = Slots(n)[i]
    <3>1. CASE i <= n
      <4>1. i \in 1 .. n
        BY <1>1, <3>1
      <4> QED  BY <1>6, <1>7, <2>2, <3>1, <4>1 DEF Slot
    <3>2. CASE i > n
      <4>1. i - n \in 1 .. m /\ n + (i - n) = i /\ ~ (i <= n)
        BY <1>1, <3>2
      <4>2. g[n + (i - n)] = f[i - n]
        BY <1>7, <2>2, <4>1
      <4> QED  BY <1>6, <1>7, <4>1, <4>2 DEF Slot
    <3>3. i <= n \/ i > n
      BY <1>1
    <3> QED  BY <3>1, <3>2, <3>3
  <2>4. Len(g) = 16
    BY <1>1, <1>7, <2>2
  <2>5. g = Slots(n)
    <3> DEFINE s == Slots(n)
    <3>1. g \in Seq(Tokens) /\ s \in Seq(Tokens) /\ Len(g) = Len(s) /\ \A i \in 1 .. Len(g) : g[i] = s[i]
      BY <1>6, <2>2, <2>3, <2>4
    <3> HIDE DEF s
    <3>2. g = s
      BY <3>1, SeqEqual
    <3> QED  BY <3>2 DEF s
  <2> QED  BY <2>5 DEF g
<1> HIDE DEF a, b, e, f, m, comma
<1>9. CASE n # 0 /\ m # 0
  <2>1. e # << >> /\ f # << >>
    BY <1>1, <1>7, <1>9
  <2>2. List((a \o <<Comma>>) \o b, e \o f)
    BY <1>2, <1>3, <2>1, ListJoined
  <2> QED  BY <1>4, <1>5, <1>8, <1>9, <2>2 DEF m
<1>10. CASE n = 0
  <2>1. e = << >> /\ a = << >>
    BY <1>2, <1>7, <1>10 DEF List
  <2>2. (a \o comma) \o b = b /\ e \o f = f
    <3>1. comma = << >>
      BY <1>4, <1>10
    <3> QED  BY <1>7, <2>1, <3>1
  <2> QED  BY <1>3, <1>5, <1>8, <2>2 DEF m
<1>11. CASE m = 0
  <2>1. f = << >> /\ b = << >>
    BY <1>3, <1>7, <1>11 DEF List
  <2>2. (a \o comma) \o b = a /\ e \o f = e
    <3>1. comma = << >>
      BY <1>4, <1>11
    <3> QED  BY <1>7, <2>1, <3>1
  <2> QED  BY <1>2, <1>5, <1>8, <2>2 DEF m
<1> QED  BY <1>9, <1>10, <1>11

\* So slot i is the address of a parameter up to the n-th and NULL from there on.
LEMMA ArgSlots ==
  ASSUME NEW n \in Counts
  PROVE  /\ ArgArray(n) = Slots(n) /\ Len(ArgArray(n)) = MaxParams
         /\ \A i \in 1 .. MaxParams :
              ArgArray(n)[i] = IF i <= n THEN Paste("&a", i - 1) ELSE Token("NULL")
<1>1. ArgArray(n) = Slots(n)
  <2>1. List(Initializer(n, MaxParams - n), Slots(n))
    BY InitializerList
  <2> QED  BY <2>1 DEF ArgArray, List, Entries
<1>2. Len(Slots(n)) = MaxParams
  BY DEF Slots, MaxParams
<1> QED  BY <1>1, <1>2 DEF Slots, Slot

\* The parameters of an overload are numbered from 0.
LEMMA FormatArgsList ==
  ASSUME NEW n \in Counts
  PROVE  FormatArgs(n) = [k \in 1 .. n |-> Paste("const string_cast& a", k - 1)]
<1> DEFINE Param(k) == Paste("const string_cast& a", k)
           macro   == [k \in Counts |-> <<Comma, Param(k)>>]
           entries == [k \in 1 .. n |-> Param(k - 1)]
<1>0. \A k \in Int : Param(k) \in Tokens /\ Param(k) # Comma
  <2>1. "const string_cast& a" \in {"&a", "const string_cast& a", "T", "a"}
    OBVIOUS
  <2> QED  BY <2>1, Pasted
<1>4. FormatArgs(n) = Entries(PP_ENUM_REPEAT(n, macro))
  BY Zenon DEF FormatArgs, PP_ENUM_TRAILING_PARAMS, Entries
<1>6. entries = [k \in 1 .. n |-> Paste("const string_cast& a", k - 1)]
  BY Zenon
<1> HIDE DEF Param
<1>1. n \in 0 .. 16 /\ n \in Nat
  BY DEF Counts, MaxParams
<1>2. entries \in Seq(Tokens) /\ Len(entries) = n /\ Len(entries) = 1 * n
  <2>1. \A k \in 1 .. n : Param(k - 1) \in Tokens
    BY <1>0, <1>1
  <2> QED  BY <1>1, <2>1
<1>3. ASSUME NEW k \in 0 .. n - 1
      PROVE  /\ macro[k] \in Seq(Tokens)
             /\ Entries(macro[k]) = SubSeq(entries, 1 * k + 1, 1 * (k + 1))
  <2> DEFINE x == Param(k)
             pair == <<Comma, x>>
             one  == <<x>>
             part == SubSeq(entries, k + 1, k + 1)
  <2>1. k \in Counts /\ k \in Int /\ Comma \in Tokens /\ x \in Tokens /\ x # Comma
    <3>1. Comma \in Tokens
      BY TokensTyped, Zenon
    <3> QED  BY <1>0, <1>1, <3>1 DEF Counts, MaxParams
  <2>2. macro[k] = pair
    BY <2>1
  <2>3. entries[k + 1] = x
    BY <1>1
  <2>5. pair \in Seq(Tokens) /\ one \in Seq(Tokens) /\ Len(one) = 1 /\ one[1] = x
    <3> HIDE DEF x
    <3> QED  BY <2>1, FewTokens
  <2>6. Entries(pair) = one
    <3> HIDE DEF x
    <3> QED  BY <2>1, EntriesOfFew
  <2> HIDE DEF x, entries, pair, one
  <2>7. part \in Seq(Tokens) /\ Len(part) = 1 /\ part[1] = x
    <3>1. k + 1 \in 1 .. Len(entries)
      BY <1>2
    <3> QED  BY <1>2, <2>3, <3>1
  <2>8. part = one
    <3> HIDE DEF part
    <3>1. Len(part) = Len(one) /\ \A i \in 1 .. Len(part) : part[i] = one[i]
      BY <2>5, <2>7
    <3> QED  BY <2>5, <2>7, <3>1, SeqEqual
  <2>9. 1 * k + 1 = k + 1 /\ 1 * (k + 1) = k + 1
    OBVIOUS
  <2> QED  BY <2>2, <2>5, <2>6, <2>8, <2>9
<1> HIDE DEF macro, entries
<1>5. Entries(PP_ENUM_REPEAT(n, macro)) = entries
  <2>1. MakesParts(n, macro, 1, entries) /\ 1 \in Nat
    BY <1>3 DEF MakesParts
  <2> QED  BY <1>1, <1>2, <2>1, EnumEntries
<1> QED  BY <1>4, <1>5, <1>6, Zenon

\* Up to ten the binary repetition goes through the same rounds.
LEMMA BinaryRepeats ==
  ASSUME NEW count \in 0 .. 10, NEW macro, MacroTyped(count, macro)
  PROVE  PP_ENUM_BINARY_REPEAT(count, macro) = PP_ENUM_REPEAT(count, macro)
<1> DEFINE Back(n) == IF n <= 10 THEN n - 1 ELSE 9
           More(before, n) == before \o macro[n - 1]
           repeat[n \in 0 .. count] ==
             IF n = 0 THEN << >> ELSE More(repeat[Back(n)], n)
<1>1. count \in Nat /\ \A n \in 0 .. count : n # 0 => Back(n) = n - 1 /\ n \in 1 .. count /\ n - 1 \in 0 .. count
  OBVIOUS
<1> HIDE DEF Back
<1>2. PICK f : Repeats(f, count, macro)
  BY <1>1, EnumRepeats
<1>7. f[0] = << >> /\ \A n \in 1 .. count : f[n] = More(f[n - 1], n)
  BY <1>2 DEF Repeats
<1> HIDE DEF More
<1>3. repeat = [n \in 0 .. count |-> IF n = 0 THEN << >> ELSE More(repeat[Back(n)], n)]
  <2> DEFINE g == [n \in 0 .. count |-> f[n]]
  <2> HIDE DEF repeat
  <2>1. ASSUME NEW n \in 0 .. count
        PROVE  g[n] = IF n = 0 THEN << >> ELSE More(g[Back(n)], n)
    <3>1. g[n] = f[n] /\ (n # 0 => g[Back(n)] = f[n - 1])
      BY <1>1
    <3>2. n # 0 => f[n] = More(f[n - 1], n)
      BY <1>1, <1>7
    <3> QED  BY <1>7, <3>1, <3>2
  <2>2. g = [n \in 0 .. count |-> IF n = 0 THEN << >> ELSE More(g[Back(n)], n)]
    BY <2>1
  <2> HIDE DEF g
  <2> QED  BY <2>2, Zenon DEF repeat
<1>4. PP_ENUM_BINARY_REPEAT(count, macro) = repeat[count]
  BY Zenon DEF PP_ENUM_BINARY_REPEAT, More, Back
<1> HIDE DEF repeat
<1>5. repeat[0] = << >> /\ \A n \in 1 .. count : repeat[n] = More(repeat[n - 1], n)
  <2>1. 0 \in 0 .. count /\ \A n \in 1 .. count : n \in 0 .. count /\ n # 0
    BY <1>1
  <2> QED  BY <1>1, <1>3, <2>1
<1>6. \A n \in 0 .. count : repeat[n] = f[n]
  <2>1. \A n \in 1 .. count : repeat[n - 1] = f[n - 1] => repeat[n] = f[n]
    BY <1>5, <1>7
  <2>2. count \in Nat /\ repeat[0] = f[0]
    BY <1>1, <1>5, <1>7
  <2>3. Alike(count, repeat, f)
    BY <2>1, <2>2 DEF Alike
  <2> QED  BY <2>3, AlikeIsSame
<1>8. PP_ENUM_REPEAT(count, macro) = f[count] /\ count \in 0 .. count
  BY <1>1, <1>2 DEF Repeats
<1> QED  BY <1>4, <1>6, <1>8

\* Up to ten pairs a list of pairs is complete and in order.
LEMMA BinaryList ==
  ASSUME NEW n \in 0 .. 10
  PROVE  Without(PP_ENUM_TRAILING_BINARY_PARAMS(n, "T", "a"), {Comma})
           = [k \in 1 .. 2 * n |-> Paste(IF k % 2 = 1 THEN "T" ELSE "a", (k - 1) \div 2)]
<1> DEFINE macro   == [k \in Counts |-> <<Comma, Paste("T", k), Paste("a", k)>>]
           Nth(k) == Paste(IF k % 2 = 1 THEN "T" ELSE "a", (k - 1) \div 2)
           entries == [k \in 1 .. 2 * n |-> Nth(k)]
<1>0. \A k \in Int : /\ Paste("T", k) \in Tokens /\ Paste("T", k) # Comma
                     /\ Paste("a", k) \in Tokens /\ Paste("a", k) # Comma
  <2>1. "T" \in {"&a", "const string_cast& a", "T", "a"} /\ "a" \in {"&a", "const string_cast& a", "T", "a"}
    OBVIOUS
  <2> QED  BY <2>1, Pasted
<1>1. n \in Nat /\ 2 * n \in Nat
  OBVIOUS
<1>2. entries \in Seq(Tokens) /\ Len(entries) = 2 * n
  <2>1. ASSUME NEW k \in 1 .. 2 * n PROVE Nth(k) \in Tokens
    <3> DEFINE h == (k - 1) \div 2
    <3>1. h \in Int
      OBVIOUS
    <3> HIDE DEF h
    <3>2. Paste("T", h) \in Tokens /\ Paste("a", h) \in Tokens
      BY <1>0, <3>1
    <3>3. Nth(k) = Paste("T", h) \/ Nth(k) = Paste("a", h)
      BY DEF h
    <3> QED  BY <3>2, <3>3
  <2> HIDE DEF Nth
  <2> QED  BY <1>1, <2>1
<1>3. ASSUME NEW k \in 0 .. n - 1
      PROVE  /\ macro[k] \in Seq(Tokens)
             /\ Entries(macro[k]) = SubSeq(entries, 2 * k + 1, 2 * (k + 1))
  <2> DEFINE x == Paste("T", k)
             y == Paste("a", k)
             three == <<Comma, x, y>>
             pair  == <<x, y>>
             i     == 2 * k + 1
             part  == SubSeq(entries, i, i + 1)
  <2>1. k \in Counts /\ k \in Int /\ Comma \in Tokens
        /\ x \in Tokens /\ x # Comma /\ y \in Tokens /\ y # Comma
    <3>1. k \in Counts /\ k \in Int
      BY DEF Counts, MaxParams
    <3>2. Comma \in Tokens
      BY TokensTyped, Zenon
    <3> QED  BY <1>0, <3>1, <3>2
  <2>2. macro[k] = three
    BY <2>1
  <2>3. entries[2 * k + 1] = x /\ entries[2 * k + 2] = y
    <3>1. 2 * k + 1 \in 1 .. 2 * n /\ 2 * k + 2 \in 1 .. 2 * n
      OBVIOUS
    <3>2. (2 * k + 1) % 2 = 1 /\ (2 * k + 2) % 2 = 0
      OBVIOUS
    <3>3. ((2 * k + 1) - 1) \div 2 = k /\ ((2 * k + 2) - 1) \div 2 = k
      OBVIOUS
    <3> QED  BY <3>1, <3>2, <3>3
  <2>5. three \in Seq(Tokens) /\ pair \in Seq(Tokens)
    <3> HIDE DEF x, y
    <3> QED  BY <2>1, FewTokens
  <2>6. Entries(three) = pair
    <3> HIDE DEF x, y
    <3> QED  BY <2>1, EntriesOfFew
  <2>10. Len(pair) = 2 /\ pair[1] = x /\ pair[2] = y
    <3> HIDE DEF x, y
    <3> QED  OBVIOUS
  <2> HIDE DEF x, y, entries, three, pair
  <2>7. i \in Int /\ i + 1 \in Int /\ i + 1 = 2 * (k + 1) /\ i + 1 = 2 * k + 2
        /\ i \in 1 .. Len(entries) /\ i + 1 \in 1 .. Len(entries)
    BY <1>2
  <2> HIDE DEF i
  <2>8. part \in Seq(Tokens) /\ Len(part) = 2 /\ part[1] = entries[i] /\ part[2] = entries[i + 1]
    <3>1. \A j \in i .. i + 1 : entries[j] \in Tokens
      <4>1. \A j \in i .. i + 1 : j \in 1 .. Len(entries)
        BY <2>7
      <4> QED  BY <1>2, <4>1
    <3>2. /\ part \in Seq(Tokens)
          /\ Len(part) = IF i <= i + 1 THEN (i + 1) - i + 1 ELSE 0
          /\ \A j \in 1 .. (i + 1) - i + 1 : part[j] = entries[i + j - 1]
      BY <2>7, <3>1, SubSeqProperties
    <3>3. (i + 1) - i + 1 = 2 /\ i <= i + 1 /\ i + 1 - 1 = i /\ i + 2 - 1 = i + 1
      BY <2>7
    <3>4. 1 \in 1 .. 2 /\ 2 \in 1 .. 2
      OBVIOUS
    <3> HIDE DEF part
    <3> QED  BY <3>2, <3>3, <3>4
  <2>9. part = pair
    <3> HIDE DEF part
    <3>1. entries[i] = x /\ entries[i + 1] = y
      BY <2>3, <2>7 DEF i
    <3>2. Len(part) = Len(pair) /\ \A j \in 1 .. Len(part) : part[j] = pair[j]
      BY <2>8, <2>10, <3>1
    <3> QED  BY <2>5, <2>8, <3>2, SeqEqual
  <2>11. SubSeq(entries, 2 * k + 1, 2 * (k + 1)) = part
    BY <2>7 DEF i
  <2> QED  BY <2>2, <2>5, <2>6, <2>9, <2>11
<1>4. PP_ENUM_TRAILING_BINARY_PARAMS(n, "T", "a") = PP_ENUM_BINARY_REPEAT(n, macro)
  BY Zenon DEF PP_ENUM_TRAILING_BINARY_PARAMS
<1> HIDE DEF macro, entries
<1>5. PP_ENUM_BINARY_REPEAT(n, macro) = PP_ENUM_REPEAT(n, macro)
  <2>1. MacroTyped(n, macro)
    BY <1>3 DEF MacroTyped
  <2> QED  BY <2>1, BinaryRepeats
<1>6. Entries(PP_ENUM_REPEAT(n, macro)) = entries
  <2>1. 2 \in Nat /\ MakesParts(n, macro, 2, entries)
    BY <1>3 DEF MakesParts
  <2> QED  BY <1>1, <1>2, <2>1, EnumEntries
<1> QED  BY <1>4, <1>5, <1>6 DEF entries, Entries

\* The tables of the preprocessor are constant: their uses do not change.
MacroSpec == MacroInit /\ [][UNCHANGED macroUse]_macroUse

\* What the macros make does not depend on a state.
LEMMA MacroAlways == MacroSpec => []MacroInit
<1>1. MacroInit /\ [UNCHANGED macroUse]_macroUse => MacroInit'
  BY DEF MacroInit
<1> QED  BY <1>1, PTL DEF MacroSpec

\* Every overload of the log macros hands over its own parameters in order and
\* NULL for the other slots, and the lists of pairs are complete up to ten.
THEOREM ListsCompleteAlways == MacroSpec => []ListsComplete
<1>1. MacroInit => ListsComplete
  <2> SUFFICES ASSUME MacroInit PROVE ListsComplete
    OBVIOUS
  <2> DEFINE n     == macroUse.first
             array == ArgArray(n)
             args  == FormatArgs(n)
  <2>1. n \in Counts /\ macroUse.second \in Counts
    BY DEF MacroInit
  <2>2. n \in 0 .. 16 /\ macroUse.second \in 0 .. 16
    BY <2>1 DEF Counts, MaxParams
  <2>3. Separated(Initializer(n, MaxParams - n))
    BY <2>1, InitializerList DEF List
  <2>4. /\ Len(array) = MaxParams
        /\ \A i \in 1 .. MaxParams : array[i] = IF i <= n THEN Paste("&a", i - 1) ELSE Token("NULL")
    BY <2>1, ArgSlots
  <2>5. args = [k \in 1 .. n |-> Paste("const string_cast& a", k - 1)]
    BY <2>1, FormatArgsList
  <2> HIDE DEF array, args, n
  <2>6. Len(args) = n
    <3> DEFINE Param(k) == Paste("const string_cast& a", k)
    <3>1. args = [k \in 1 .. n |-> Param(k - 1)]
      BY <2>5, Zenon
    <3> HIDE DEF Param
    <3> QED  BY <2>2, <3>1
  <2>7. \A i \in 1 .. n : args[i].number = i - 1
    <3>1. ASSUME NEW i \in 1 .. n PROVE args[i].number = i - 1
      <4>1. "const string_cast& a" \in {"&a", "const string_cast& a", "T", "a"}
        OBVIOUS
      <4>2. i - 1 \in Int
        BY <2>2
      <4>3. Paste("const string_cast& a", i - 1).number = i - 1
        BY <4>1, <4>2, Pasted
      <4>4. args[i] = Paste("const string_cast& a", i - 1)
        BY <2>5, Zenon
      <4> QED  BY <4>3, <4>4, Zenon
    <3> QED  BY <3>1
  <2>8. \A i \in 1 .. MaxParams :
          array[i] = IF i <= n THEN Paste("&a", args[i].number) ELSE Token("NULL")
    BY <2>2, <2>4, <2>7 DEF MaxParams
  <2>9. macroUse.second < n =>
          PP_TUPLE_ELEM(n, macroUse.second, array).number = macroUse.second
    <3> SUFFICES ASSUME macroUse.second < n
                 PROVE  array[macroUse.second + 1].number = macroUse.second
      BY DEF PP_TUPLE_ELEM
    <3> DEFINE k == macroUse.second
    <3>1. k + 1 \in 1 .. MaxParams /\ k + 1 <= n /\ (k + 1) - 1 = k /\ k \in Int
      BY <2>2 DEF MaxParams
    <3> HIDE DEF k
    <3>2. array[k + 1] = Paste("&a", k)
      BY <2>4, <3>1
    <3>3. "&a" \in {"&a", "const string_cast& a", "T", "a"}
      OBVIOUS
    <3>4. Paste("&a", k).number = k
      BY <3>1, <3>3, Pasted
    <3> QED  BY <3>2, <3>4 DEF k
  <2>10. n <= 10 =>
           Without(PP_ENUM_TRAILING_BINARY_PARAMS(n, "T", "a"), {Comma})
             = [k \in 1 .. 2 * n |-> Paste(IF k % 2 = 1 THEN "T" ELSE "a", (k - 1) \div 2)]
    <3>1. n <= 10 => n \in 0 .. 10
      BY <2>2
    <3> QED  BY <3>1, BinaryList
  <2> QED  BY <2>3, <2>4, <2>6, <2>8, <2>9, <2>10 DEF ListsComplete, n, array, args
<1> QED  BY <1>1, MacroAlways, PTL

-----------------------------------------------------------------------------
(* preprocessor.h: PP_WHILE.                                                *)

\* Both counters after so many rounds of moving one from the first to the second.
Moved(a, b, i) ==
  << IF i < a THEN a - i ELSE 0,
     IF b + (IF i < a THEN i ELSE a) < MaxParams THEN b + (IF i < a THEN i ELSE a) ELSE MaxParams >>

\* One round of the header's example.
LEMMA OneMove ==
  ASSUME NEW a \in 0 .. 16, NEW b \in 0 .. 16, NEW i \in 0 .. 15
  PROVE  Moved(a, b, i + 1) = IF PP_BOOL(NotZero[Moved(a, b, i)]) = 1
                              THEN MovesOne[Moved(a, b, i)] ELSE Moved(a, b, i)
<1> DEFINE v == Moved(a, b, i)
           first  == IF i < a THEN a - i ELSE 0
           up     == IF i < a THEN i ELSE a
           second == IF b + up < 16 THEN b + up ELSE 16
<1>1. v = <<first, second>> /\ first \in 0 .. 16 /\ second \in 0 .. 16
  BY DEF Moved, MaxParams
<1>2. v \in Counts \X Counts
  <2> HIDE DEF first, second, v
  <2> QED  BY <1>1 DEF Counts, MaxParams
<1>3. NotZero[v] = first
  <2> HIDE DEF first, second, v
  <2> QED  BY <1>1, <1>2 DEF NotZero, PP_TUPLE_ELEM
<1>4. MovesOne[v] = <<PP_DEC(first), PP_INC(second)>>
  <2> HIDE DEF first, second, v
  <2> QED  BY <1>1, <1>2 DEF MovesOne, PP_TUPLE_ELEM
<1>5. CASE i < a
  <2>1. first # 0 /\ PP_BOOL(first) = 1
    BY <1>5 DEF PP_BOOL
  <2>2. PP_DEC(first) = IF i + 1 < a THEN a - (i + 1) ELSE 0
    BY <1>5 DEF PP_DEC
  <2>3. PP_INC(second) = IF b + (i + 1) < 16 THEN b + (i + 1) ELSE 16
    BY <1>5 DEF PP_INC, MaxParams
  <2>4. (IF i + 1 < a THEN i + 1 ELSE a) = i + 1
    BY <1>5
  <2>5. Moved(a, b, i + 1) = <<PP_DEC(first), PP_INC(second)>>
    BY <2>2, <2>3, <2>4 DEF Moved, MaxParams
  <2> HIDE DEF v, first, second
  <2> QED  BY <1>3, <1>4, <2>1, <2>5 DEF v
<1>6. CASE ~ i < a
  <2>1. first = 0 /\ PP_BOOL(first) = 0
    BY <1>6 DEF PP_BOOL
  <2>2. Moved(a, b, i + 1) = Moved(a, b, i)
    <3>1. ~ i + 1 < a
      BY <1>6
    <3> QED  BY <1>6, <3>1 DEF Moved
  <2> HIDE DEF v, first, second
  <2> QED  BY <1>3, <2>1, <2>2 DEF v
<1> QED  BY <1>5, <1>6

\* A loop of PP_DEC and PP_INC adds two numbers up to the limit of the tables and
\* fails for the number that takes one round too many.
THEOREM WhileAddsAlways == MacroSpec => []WhileAdds
<1>1. MacroInit => WhileAdds
  <2> SUFFICES ASSUME MacroInit PROVE WhileAdds
    OBVIOUS
  <2> DEFINE a == macroUse.first
             b == macroUse.second
             X == Counts \X Counts
             After(v) == IF PP_BOOL(NotZero[v]) = 1 THEN MovesOne[v] ELSE v
             at[i \in Counts] ==
               IF i = 0 THEN <<a, b>>
               ELSE LET before == at[i - 1]
                    IN IF PP_BOOL(NotZero[before]) = 1 THEN MovesOne[before] ELSE before
  <2>1. a \in 0 .. 16 /\ b \in 0 .. 16
    BY DEF MacroInit, Counts, MaxParams
  <2>2. PP_WHILE(NotZero, MovesOne, <<a, b>>) =
          IF PP_BOOL(NotZero[at[MaxParams - 1]]) = 1 THEN PP_ERROR_0x0001 ELSE at[MaxParams]
    BY Zenon DEF PP_WHILE
  <2> HIDE DEF a, b
  <2>3. ASSUME NEW i \in 0 .. 16, i # 0
        PROVE  Moved(a, b, i) = After(Moved(a, b, i - 1))
    <3>1. i - 1 \in 0 .. 15 /\ (i - 1) + 1 = i
      BY <2>3
    <3>2. Moved(a, b, (i - 1) + 1) = After(Moved(a, b, i - 1))
      BY <2>1, <3>1, OneMove
    <3> QED  BY <3>1, <3>2
  <2>4. Moved(a, b, 0) = <<a, b>>
    BY <2>1 DEF Moved, MaxParams
  <2>5. at = [i \in Counts |-> IF i = 0 THEN <<a, b>> ELSE After(at[i - 1])]
    <3> HIDE DEF at
    <3> DEFINE f == [i \in Counts |-> Moved(a, b, i)]
    <3>1. ASSUME NEW i \in Counts
          PROVE  f[i] = IF i = 0 THEN <<a, b>> ELSE After(f[i - 1])
      <4>1. i \in 0 .. 16
        BY DEF Counts, MaxParams
      <4>2. i # 0 => i - 1 \in Counts
        BY DEF Counts, MaxParams
      <4>3. i # 0 => f[i - 1] = Moved(a, b, i - 1)
        BY <4>2
      <4> HIDE DEF After
      <4> QED  BY <2>3, <2>4, <4>1, <4>3
    <3>2. f = [i \in Counts |-> IF i = 0 THEN <<a, b>> ELSE After(f[i - 1])]
      <4> HIDE DEF After
      <4> QED  BY <3>1
    <3> HIDE DEF f
    <3> QED  BY <3>2, Zenon DEF at
  <2> HIDE DEF at, After
  <2>6. \A i \in 0 .. 16 : at[i] = Moved(a, b, i)
    <3>1. at[0] = Moved(a, b, 0)
      BY <2>4, <2>5 DEF Counts, MaxParams
    <3>2. \A i \in 1 .. 16 : at[i - 1] = Moved(a, b, i - 1) => at[i] = Moved(a, b, i)
      BY <2>3, <2>5 DEF Counts, MaxParams
    <3> DEFINE g == [i \in 0 .. 16 |-> Moved(a, b, i)]
    <3>3. at[0] = g[0] /\ \A i \in 1 .. 16 : at[i - 1] = g[i - 1] => at[i] = g[i]
      BY <3>1, <3>2
    <3> HIDE DEF g
    <3>4. Alike(16, at, g)
      BY <3>3 DEF Alike
    <3>5. \A i \in 0 .. 16 : at[i] = g[i]
      BY <3>4, AlikeIsSame
    <3> QED  BY <3>5 DEF g
  <2>7. at[MaxParams - 1] = Moved(a, b, 15) /\ at[MaxParams] = Moved(a, b, 16)
    BY <2>6 DEF MaxParams
  <2>8. NotZero[Moved(a, b, 15)] = IF a = 16 THEN 1 ELSE 0
    <3> DEFINE first == IF a = 16 THEN 1 ELSE 0
               second == IF b + (IF 15 < a THEN 15 ELSE a) < MaxParams THEN b + (IF 15 < a THEN 15 ELSE a) ELSE MaxParams
    <3>1. Moved(a, b, 15) = <<first, second>> /\ first \in 0 .. 16 /\ second \in 0 .. 16
      <4>1. (IF 15 < a THEN a - 15 ELSE 0) = first
        BY <2>1
      <4> QED  BY <2>1, <4>1 DEF Moved, MaxParams
    <3> HIDE DEF first, second
    <3>2. NotZero[<<first, second>>] = first
      BY <3>1 DEF NotZero, PP_TUPLE_ELEM, Counts, MaxParams
    <3> QED  BY <3>1, <3>2 DEF first
  <2>9. Moved(a, b, 16) = <<0, IF a + b < MaxParams THEN a + b ELSE MaxParams>>
    <3>1. ~ 16 < a /\ b + a = a + b
      BY <2>1
    <3> QED  BY <3>1 DEF Moved
  <2>10. PP_WHILE(NotZero, MovesOne, <<a, b>>) =
           IF a = MaxParams THEN PP_ERROR_0x0001
           ELSE <<0, IF a + b < MaxParams THEN a + b ELSE MaxParams>>
    BY <2>2, <2>7, <2>8, <2>9 DEF PP_BOOL, MaxParams
  <2> QED  BY <2>10 DEF WhileAdds, a, b
<1> QED  BY <1>1, MacroAlways, PTL

-----------------------------------------------------------------------------
(* Log statements: what the methods append.                                 *)

Text       == [what : {"text", "value", "misuse", "wild", "nul"}, of : Nat, n : Nat]
Faults     == {"misuse", "wild"}
CallSet    == [kind : Kinds, format : Seq(Directives), values : Seq({"value", "NULL"})]
TextOf(k)  == {piece \in Text : piece.of = k}
\* A text in which a piece that reports a misuse comes with the fault.
Honest(pieces, wrong) ==
  (\E p \in DOMAIN pieces : pieces[p].what = "misuse") => "misuse" \in wrong
Result(r, k) ==
  /\ DOMAIN r = {"pieces", "wrong"}
  /\ r.pieces \in Seq(TextOf(k)) /\ r.wrong \in SUBSET Faults /\ Honest(r.pieces, r.wrong)

\* A text put together of two honest ones is honest about the faults of both.
LEMMA JoinHonest ==
  ASSUME NEW k, NEW p1 \in Seq(TextOf(k)), NEW p2 \in Seq(TextOf(k)), NEW w1, NEW w2,
         Honest(p1, w1), Honest(p2, w2)
  PROVE  p1 \o p2 \in Seq(TextOf(k)) /\ Honest(p1 \o p2, w1 \cup w2)
<1>1. p1 \o p2 \in Seq(TextOf(k)) /\ Len(p1 \o p2) = Len(p1) + Len(p2)
      /\ \A p \in 1 .. Len(p1) + Len(p2) :
           (p1 \o p2)[p] = IF p <= Len(p1) THEN p1[p] ELSE p2[p - Len(p1)]
  BY ConcatProperties
<1>2. ASSUME NEW p \in DOMAIN (p1 \o p2), (p1 \o p2)[p].what = "misuse"
      PROVE  "misuse" \in w1 \cup w2
  <2>1. p \in 1 .. Len(p1) + Len(p2)
    BY <1>1
  <2>2. CASE p <= Len(p1)
    <3>1. p \in DOMAIN p1 /\ p1[p].what = "misuse"
      BY <1>1, <1>2, <2>1, <2>2
    <3> QED  BY <3>1 DEF Honest
  <2>3. CASE p > Len(p1)
    <3>1. p - Len(p1) \in DOMAIN p2 /\ p2[p - Len(p1)].what = "misuse"
      BY <1>1, <1>2, <2>1, <2>3
    <3> QED  BY <3>1 DEF Honest
  <2> QED  BY <2>1, <2>2, <2>3
<1> QED  BY <1>1, <1>2 DEF Honest

\* Results of no piece and of one piece.
LEMMA NoPiece == ASSUME NEW k PROVE Result(Pieces(<< >>), k) /\ Result(Misuse(<< >>), k)
<1>1. << >> \in Seq(TextOf(k)) /\ DOMAIN << >> = {}
  OBVIOUS
<1> QED  BY <1>1 DEF Result, Pieces, Misuse, Honest, Faults

\* One piece of text is an honest result, with the fault that goes with it.
LEMMA OnePiece ==
  ASSUME NEW k \in Nat, NEW n \in Nat
  PROVE  /\ Result(Pieces(<<Piece("text", k, n)>>), k)
         /\ Result(Pieces(<<Piece("value", k, n)>>), k)
         /\ \A what \in {"text", "misuse", "nul"} : Result(Misuse(<<Piece(what, k, n)>>), k)
         /\ Result(Wild(k, n), k)
<1>1. ASSUME NEW what \in {"text", "value", "misuse", "wild", "nul"}
      PROVE  /\ <<Piece(what, k, n)>> \in Seq(TextOf(k))
             /\ DOMAIN <<Piece(what, k, n)>> = {1} /\ <<Piece(what, k, n)>>[1].what = what
  <2>1. Piece(what, k, n) \in TextOf(k) /\ Piece(what, k, n).what = what
    BY DEF Piece, TextOf, Text
  <2> HIDE DEF Piece
  <2> QED  BY <2>1
<1>2. ASSUME NEW what \in {"text", "value", "misuse", "wild", "nul"}, NEW wrong \in SUBSET Faults,
             what = "misuse" => "misuse" \in wrong
      PROVE  Result([pieces |-> <<Piece(what, k, n)>>, wrong |-> wrong], k)
  <2> DEFINE text == <<Piece(what, k, n)>>
  <2>1. text \in Seq(TextOf(k)) /\ Honest(text, wrong)
    BY <1>1, <1>2 DEF Honest
  <2> DEFINE r == [pieces |-> text, wrong |-> wrong]
  <2>2. DOMAIN r = {"pieces", "wrong"} /\ r.pieces = text /\ r.wrong = wrong
    BY Zenon
  <2> HIDE DEF r, text
  <2>3. Result(r, k)
    BY <1>2, <2>1, <2>2, Zenon DEF Result
  <2> QED  BY <2>3, Zenon DEF r, text
<1>3. {} \in SUBSET Faults /\ {"misuse"} \in SUBSET Faults /\ {"wild"} \in SUBSET Faults
  BY DEF Faults
<1> QED  BY <1>2, <1>3 DEF Pieces, Misuse, Wild

\* A placeholder appends one piece or none, for any argument and any index.
LEMMA ArgumentResult ==
  ASSUME NEW call, NEW k \in Nat, NEW argIndex \in Nat, NEW isLogger
  PROVE  Result(Argument(call, k, argIndex, isLogger), k)
<1> DEFINE misuse == <<Piece("misuse", k, argIndex)>>
<1>1. Argument(call, k, argIndex, isLogger) \in
        {Wild(k, argIndex), Misuse(misuse), Misuse(<< >>),
         Misuse(<<Piece("text", k, argIndex)>>), Pieces(<<Piece("value", k, argIndex)>>)}
  BY Zenon DEF Argument
<1> QED  BY <1>1, NoPiece, OnePiece

\* One round of DoTypeSafeFormat appends an honest text, for any directive.
LEMMA DirectiveResult ==
  ASSUME NEW call, NEW k \in Nat, NEW p \in Nat, NEW count \in Nat, NEW isLogger,
         call.format[p] \in Directives
  PROVE  Result(Directive(call, k, p, count, isLogger), k)
<1> DEFINE d     == call.format[p]
           front == IF isLogger THEN <<Piece("misuse", k, p)>> ELSE << >>
           back  == IF d.op = "bad" THEN <<Piece("text", k, p)>>
                    ELSE IF isLogger THEN <<Piece("nul", k, p)>> ELSE << >>
<1>1. d.op = "at" => d.n \in Nat
  BY DEF Directives
<1>2. \/ d.op = "next" /\ Directive(call, k, p, count, isLogger) = Argument(call, k, count, isLogger)
      \/ d.op = "at" /\ Directive(call, k, p, count, isLogger) = Argument(call, k, d.n, isLogger)
      \/ Directive(call, k, p, count, isLogger) = Pieces(<<Piece("text", k, p)>>)
      \/ Directive(call, k, p, count, isLogger) = Misuse(front \o back)
  BY Zenon DEF Directive
<1>3. Result(Misuse(front \o back), k)
  <2>1. Result(Misuse(front), k) /\ Result(Misuse(back), k)
    BY NoPiece, OnePiece
  <2> HIDE DEF front, back
  <2>2. /\ front \in Seq(TextOf(k)) /\ back \in Seq(TextOf(k))
        /\ Honest(front, {"misuse"}) /\ Honest(back, {"misuse"})
    BY <2>1 DEF Result, Misuse
  <2>3. front \o back \in Seq(TextOf(k)) /\ Honest(front \o back, {"misuse"} \cup {"misuse"})
    BY <2>2, JoinHonest
  <2> QED  BY <2>3 DEF Result, Misuse, Honest, Faults
<1> QED  BY <1>1, <1>2, <1>3, ArgumentResult, OnePiece

\* The loop over the directives of a format.
FormatLoop(k) ==
  {v \in [text : Seq(TextOf(k)), count : Nat, wrong : SUBSET Faults] : Honest(v.text, v.wrong)}

\* One more round leaves what the loop has collected honest.
LEMMA RoundKeeps ==
  ASSUME NEW k \in Nat, NEW v \in FormatLoop(k), NEW round, Result(round, k), NEW more \in {0, 1}
  PROVE  [text |-> v.text \o round.pieces, count |-> v.count + more,
          wrong |-> v.wrong \cup round.wrong] \in FormatLoop(k)
<1> DEFINE text == v.text \o round.pieces
           wrong == v.wrong \cup round.wrong
           count == v.count + more
<1>1. v.text \in Seq(TextOf(k)) /\ v.wrong \in SUBSET Faults /\ v.count \in Nat /\ Honest(v.text, v.wrong)
  BY DEF FormatLoop
<1>2. round.pieces \in Seq(TextOf(k)) /\ round.wrong \in SUBSET Faults /\ Honest(round.pieces, round.wrong)
  BY DEF Result
<1>3. text \in Seq(TextOf(k)) /\ Honest(text, wrong)
  BY <1>1, <1>2, JoinHonest
<1>4. wrong \in SUBSET Faults /\ count \in Nat
  BY <1>1, <1>2
<1> HIDE DEF text, wrong, count
<1> DEFINE after == [text |-> text, count |-> count, wrong |-> wrong]
<1>5. after \in [text : Seq(TextOf(k)), count : Nat, wrong : SUBSET Faults]
  BY <1>3, <1>4
<1>6. after.text = text /\ after.wrong = wrong
  OBVIOUS
<1> HIDE DEF after
<1>7. after \in FormatLoop(k)
  BY <1>3, <1>5, <1>6, Zenon DEF FormatLoop
<1> QED  BY <1>7, Zenon DEF after, text, count, wrong

\* One round of the loop, from what the rounds before it have made.
Round(call, k, isLogger, before, p) ==
  LET round == Directive(call, k, p, before.count, isLogger)
  IN [text  |-> before.text \o round.pieces,
      count |-> before.count + (IF IsPlaceholder(call.format[p]) THEN 1 ELSE 0),
      wrong |-> before.wrong \cup round.wrong]
NoRound == [text |-> << >>, count |-> 0, wrong |-> {}]

\* DoTypeSafeFormat goes through its rounds, for every format.
LEMMA FormatRounds ==
  ASSUME NEW call, NEW k \in Nat, NEW isLogger, call.format \in Seq(Directives)
  PROVE  \E loop :
           /\ loop[0] = NoRound
           /\ \A p \in 1 .. Len(call.format) : loop[p] = Round(call, k, isLogger, loop[p - 1], p)
           /\ \A p \in 0 .. Len(call.format) : loop[p] \in FormatLoop(k)
           /\ DoTypeSafeFormat(call, k, isLogger)
                = [pieces |-> loop[Len(call.format)].text, wrong |-> loop[Len(call.format)].wrong]
<1> DEFINE n == Len(call.format)
           X == FormatLoop(k)
           After(before, p) == Round(call, k, isLogger, before, p)
           loop[p \in 0 .. n] == IF p = 0 THEN NoRound ELSE After(loop[p - 1], p)
           next == [p \in 1 .. n |-> [v \in X |-> After(v, p)]]
<1>1. n \in Nat /\ \A p \in 1 .. n : call.format[p] \in Directives
  OBVIOUS
<1>2. NoRound \in X
  BY DEF NoRound, FormatLoop, Honest, Faults
<1>3. ASSUME NEW v \in X, NEW p \in 1 .. n PROVE After(v, p) \in X
  <2> DEFINE more == IF IsPlaceholder(call.format[p]) THEN 1 ELSE 0
             round == Directive(call, k, p, v.count, isLogger)
  <2>1. v.count \in Nat /\ p \in Nat /\ call.format[p] \in Directives
    BY <1>1 DEF FormatLoop
  <2>2. Result(round, k)
    BY <2>1, DirectiveResult
  <2>3. more \in {0, 1}
    OBVIOUS
  <2>4. After(v, p) = [text |-> v.text \o round.pieces, count |-> v.count + more,
                       wrong |-> v.wrong \cup round.wrong]
    BY Zenon DEF Round
  <2> HIDE DEF more, round, After
  <2> QED  BY <2>2, <2>3, <2>4, RoundKeeps
<1>4. next \in [1 .. n -> [X -> X]] /\ \A p \in 1 .. n, v \in X : next[p][v] = After(v, p)
  <2> HIDE DEF X, After
  <2> QED  BY <1>3
<1>5. loop = [p \in 0 .. n |-> IF p = 0 THEN NoRound ELSE After(loop[p - 1], p)]
  <2> HIDE DEF n, next, After, X
  <2>0. Rounds(n, X, NoRound, next)
    BY <1>1, <1>2, <1>4 DEF Rounds
  <2>1. PICK f \in [0 .. n -> X] : f[0] = NoRound /\ \A p \in 1 .. n : f[p] = next[p][f[p - 1]]
    BY <2>0, RoundsExist
  <2>2. ASSUME NEW p \in 0 .. n
        PROVE  f[p] = IF p = 0 THEN NoRound ELSE After(f[p - 1], p)
    <3>1. CASE p = 0
      BY <2>1, <3>1
    <3>2. CASE p # 0
      <4>1. p \in 1 .. n /\ p - 1 \in 0 .. n
        BY <2>0, <3>2 DEF Rounds
      <4>2. f[p] = next[p][f[p - 1]] /\ f[p - 1] \in X
        BY <2>1, <4>1
      <4> QED  BY <1>4, <3>2, <4>1, <4>2, Zenon
    <3> QED  BY <3>1, <3>2
  <2>3. f = [p \in 0 .. n |-> IF p = 0 THEN NoRound ELSE After(f[p - 1], p)]
    BY <2>2
  <2> QED  BY <2>3, Zenon
<1>6. DoTypeSafeFormat(call, k, isLogger) = [pieces |-> loop[n].text, wrong |-> loop[n].wrong]
  BY Zenon DEF DoTypeSafeFormat, Round, NoRound
<1> HIDE DEF loop, X, After, n
<1>7. loop[0] = NoRound /\ \A p \in 1 .. n : loop[p] = After(loop[p - 1], p)
  BY <1>1, <1>5
<1>8. \A p \in 0 .. n : loop[p] \in X
  <2>1. ASSUME NEW p \in 1 .. n, loop[p - 1] \in X PROVE loop[p] \in X
    BY <1>3, <1>7, <2>1
  <2> QED  BY <1>1, <1>2, <1>7, <2>1, LoopStays
<1> QED  BY <1>6, <1>7, <1>8 DEF n, After, X

\* DoTypeSafeFormat returns an honest text for every format.
LEMMA FormatResult ==
  ASSUME NEW call, NEW k \in Nat, NEW isLogger, call.format \in Seq(Directives)
  PROVE  Result(DoTypeSafeFormat(call, k, isLogger), k)
<1> DEFINE n == Len(call.format)
<1>1. PICK loop :
        /\ \A p \in 0 .. n : loop[p] \in FormatLoop(k)
        /\ DoTypeSafeFormat(call, k, isLogger) = [pieces |-> loop[n].text, wrong |-> loop[n].wrong]
  BY FormatRounds
<1>2. n \in 0 .. n
  OBVIOUS
<1> HIDE DEF n
<1> DEFINE text == loop[n].text
           wrong == loop[n].wrong
<1>3. text \in Seq(TextOf(k)) /\ wrong \in SUBSET Faults /\ Honest(text, wrong)
  BY <1>1, <1>2 DEF FormatLoop
<1>4. DoTypeSafeFormat(call, k, isLogger) = [pieces |-> text, wrong |-> wrong]
  BY <1>1
<1> HIDE DEF text, wrong
<1> QED  BY <1>3, <1>4 DEF Result

\* What any statement appends, whatever method the router chooses.
LEMMA RoutedResult ==
  ASSUME NEW call \in CallSet, NEW k \in Nat, NEW isLogger
  PROVE  Result(Call(call, k, isLogger), k) /\ Result(Routed(call, k, isLogger), k)
<1>1. Result(WriteNoFormat(call, k), k)
  <2> DEFINE text == [p \in DOMAIN call.format |-> Piece("text", k, p)]
  <2>1. DOMAIN call.format = 1 .. Len(call.format) /\ Len(call.format) \in Nat
    BY DEF CallSet
  <2>2. \A p \in 1 .. Len(call.format) :
          Piece("text", k, p) \in TextOf(k) /\ Piece("text", k, p).what # "misuse"
    BY DEF Piece, TextOf, Text
  <2>3. text \in Seq(TextOf(k)) /\ Honest(text, {})
    <3> HIDE DEF Piece
    <3>1. text \in [1 .. Len(call.format) -> TextOf(k)]
      BY <2>1, <2>2
    <3>2. text \in Seq(TextOf(k))
      BY <2>1, <3>1
    <3> QED  BY <2>1, <2>2, <3>2 DEF Honest
  <2>4. WriteNoFormat(call, k) = [pieces |-> text, wrong |-> {}]
    BY DEF WriteNoFormat, Pieces
  <2> HIDE DEF text
  <2> QED  BY <2>3, <2>4 DEF Result
<1>2. Result(VPrintf(call, k), k)
  <2>1. VPrintf(call, k) \in {Misuse(<<Piece("misuse", k, 0)>>), Wild(k, 0), WriteNoFormat(call, k)}
    BY Zenon DEF VPrintf
  <2> QED  BY <1>1, <2>1, OnePiece
<1>3. Result(Call(call, k, isLogger), k)
  <2>1. Result(DoTypeSafeFormat(call, k, isLogger), k)
    BY FormatResult DEF CallSet
  <2>2. \/ Call(call, k, isLogger) = Pieces(<< >>)
        \/ Call(call, k, isLogger) = DoTypeSafeFormat(call, k, isLogger)
        \/ Call(call, k, isLogger) = VPrintf(call, k)
    BY DEF Call
  <2> QED  BY <1>2, <2>1, <2>2, NoPiece
<1>4. Routed(call, k, isLogger) \in
        {Pieces(<< >>), WriteNoFormat(call, k), Call(call, k, isLogger)}
  BY DEF Routed
<1> QED  BY <1>1, <1>3, <1>4, NoPiece

\* The operators << and >> append an honest text.
LEMMA StreamResult ==
  ASSUME NEW k \in Nat, NEW value \in {"value", "NULL"}
  PROVE  /\ StreamCall(value) \in CallSet
         /\ Result(Argument(StreamCall(value), k, 0, TRUE), k)
<1>1. [op |-> "next", n |-> 0] \in Directives
  BY DEF Directives
<1>2. StreamCall(value) \in CallSet
  BY <1>1 DEF StreamCall, CallSet, Kinds
<1>3. 0 \in Nat
  OBVIOUS
<1>4. Result(Argument(StreamCall(value), k, 0, TRUE), k)
  BY <1>3, ArgumentResult, Zenon
<1> QED  BY <1>2, <1>4

-----------------------------------------------------------------------------
(* Log statements: what a well-formed call appends.                         *)

\* Meant, of a call that may not have been made yet.
MeantOf(call, k) ==
  [p \in DOMAIN call.format |->
     IF call.kind = "tsf" /\ IsPlaceholder(call.format[p])
     THEN Piece("value", k, ArgOf(call, p)) ELSE Piece("text", k, p)]
HasEnd(call)    == call.kind = "tsf" /\ \E p \in DOMAIN call.format : call.format[p].op = "end"
NulFree(pieces) == \A p \in DOMAIN pieces : pieces[p].what # "nul"
\* What the assumption on Calls leaves to the type-safe overloads.
Fits(call) ==
  /\ call \in CallSet /\ Len(call.values) <= MaxParams - 2
  /\ call.kind = "empty" => call.format = << >>

\* The number of placeholders up to a place grows with each of them.
LEMMA CountPlaceholders ==
  ASSUME NEW call, NEW p \in Nat
  PROVE  LET before == {q \in 1 .. p : IsPlaceholder(call.format[q])}
             after  == {q \in 1 .. p + 1 : IsPlaceholder(call.format[q])}
         IN /\ Cardinality(before) \in Nat
            /\ Cardinality(after) =
                 Cardinality(before) + (IF IsPlaceholder(call.format[p + 1]) THEN 1 ELSE 0)
            /\ Cardinality({q \in 1 .. 0 : IsPlaceholder(call.format[q])}) = 0
<1> DEFINE before == {q \in 1 .. p : IsPlaceholder(call.format[q])}
           after  == {q \in 1 .. p + 1 : IsPlaceholder(call.format[q])}
<1>1. IsFiniteSet(before)
  <2>1. IsFiniteSet(1 .. p) /\ before \subseteq 1 .. p
    BY FS_Interval
  <2> QED  BY <2>1, FS_Subset
<1>2. after = IF IsPlaceholder(call.format[p + 1]) THEN before \cup {p + 1} ELSE before
  <2>1. 1 .. p + 1 = (1 .. p) \cup {p + 1}
    OBVIOUS
  <2> QED  BY <2>1
<1>3. p + 1 \notin before
  OBVIOUS
<1>4. {q \in 1 .. 0 : IsPlaceholder(call.format[q])} = {}
  OBVIOUS
<1> HIDE DEF before, after
<1>5. Cardinality(before) \in Nat /\ Cardinality(before \cup {p + 1}) = Cardinality(before) + 1
  BY <1>1, <1>3, FS_CardinalityType, FS_AddElement
<1>6. Cardinality(after) = Cardinality(before) + (IF IsPlaceholder(call.format[p + 1]) THEN 1 ELSE 0)
  BY <1>2, <1>5
<1> QED  BY <1>4, <1>5, <1>6, FS_EmptySet DEF before, after

\* An argument that is there and has a value is written as that value.
LEMMA ArgumentMeant ==
  ASSUME NEW call, NEW k, NEW argIndex \in Nat, NEW isLogger,
         Len(call.values) \in 0 .. MaxParams, argIndex < Len(call.values),
         call.values[argIndex + 1] = "value"
  PROVE  Argument(call, k, argIndex, isLogger) = Pieces(<<Piece("value", k, argIndex)>>)
<1> DEFINE n == Len(call.values)
<1>1. n \in Counts /\ n \in 0 .. 16 /\ argIndex + 1 \in 1 .. MaxParams /\ argIndex + 1 <= n
      /\ ~ argIndex >= MaxParams
  BY DEF Counts, MaxParams
<1> HIDE DEF n
<1>2. ArgArray(n)[argIndex + 1] = Paste("&a", (argIndex + 1) - 1)
  BY <1>1, ArgSlots
<1>3. ArgArray(n)[argIndex + 1] # Token("NULL")
  BY <1>2 DEF Paste, Token
<1> QED  BY <1>1, <1>3 DEF Argument, n

\* DoTypeSafeFormat of a well-formed call puts every directive in its place.
LEMMA FormatMeant ==
  ASSUME NEW call, Fits(call), call.kind = "tsf", WellFormed(call), NEW k \in Nat, NEW isLogger
  PROVE  DoTypeSafeFormat(call, k, isLogger) = Pieces(MeantOf(call, k))
<1> DEFINE n        == Len(call.format)
           meant    == MeantOf(call, k)
           count(p) == Cardinality({q \in 1 .. p : IsPlaceholder(call.format[q])})
           upto(p)  == [q \in 1 .. p |-> meant[q]]
           Done(p)  == [text |-> upto(p), count |-> count(p), wrong |-> {}]
<1>1. /\ n \in Nat /\ DOMAIN call.format = 1 .. n /\ call.format \in Seq(Directives)
      /\ Len(call.values) \in 0 .. MaxParams
      /\ \A p \in 1 .. n : call.format[p] \in Directives
  <2>1. call.format \in Seq(Directives) /\ Len(call.values) \in Nat /\ Len(call.values) <= 14
    BY DEF Fits, CallSet, MaxParams
  <2>2. n \in Nat /\ DOMAIN call.format = 1 .. n /\ \A p \in 1 .. n : call.format[p] \in Directives
    BY <2>1
  <2>3. Len(call.values) \in 0 .. MaxParams
    <3> DEFINE v == Len(call.values)
    <3>1. v \in Nat /\ v <= 14
      BY <2>1
    <3> HIDE DEF v
    <3>2. v \in 0 .. MaxParams
      BY <3>1 DEF MaxParams
    <3> QED  BY <3>2 DEF v
  <2> QED  BY <2>1, <2>2, <2>3
<1>2. PICK loop :
        /\ loop[0] = NoRound
        /\ \A p \in 1 .. n : loop[p] = Round(call, k, isLogger, loop[p - 1], p)
        /\ \A p \in 0 .. n : loop[p] \in FormatLoop(k)
        /\ DoTypeSafeFormat(call, k, isLogger) = [pieces |-> loop[n].text, wrong |-> loop[n].wrong]
  BY <1>1, FormatRounds
<1>3. ASSUME NEW p \in 1 .. n
      PROVE  Directive(call, k, p, count(p - 1), isLogger) = Pieces(<<meant[p]>>)
  <2> DEFINE d == call.format[p]
             argIndex == ArgOf(call, p)
  <2>1. /\ d \in Directives /\ d.op \notin {"bad", "end"}
        /\ IsPlaceholder(d) => argIndex < Len(call.values) /\ call.values[argIndex + 1] = "value"
    BY <1>1 DEF WellFormed
  <2>2. meant[p] = IF IsPlaceholder(d) THEN Piece("value", k, argIndex) ELSE Piece("text", k, p)
    BY <1>1 DEF MeantOf
  <2>3. d.op \in {"text", "percent", "next", "at"} /\ (d.op = "at" => d.n \in 0 .. 9)
    BY <2>1 DEF Directives
  <2>4. count(p - 1) \in Nat
    <3>1. p = 1 \/ (p - 2 \in Nat /\ (p - 2) + 1 = p - 1)
      OBVIOUS
    <3>2. CASE p = 1
      <4>1. count(0) = 0 /\ 0 \in Nat
        BY CountPlaceholders
      <4> QED  BY <3>2, <4>1
    <3>3. CASE p - 2 \in Nat /\ (p - 2) + 1 = p - 1
      <4>1. p - 1 \in Nat
        BY <3>3
      <4> QED  BY <4>1, CountPlaceholders
    <3> QED  BY <3>1, <3>2, <3>3
  <2>5. CASE IsPlaceholder(d)
    <3>1. d.op = "at" => argIndex = d.n
      BY DEF ArgOf
    <3>2. d.op = "next" => argIndex = count(p - 1)
      BY DEF ArgOf
    <3>3. d.op \in {"next", "at"} /\ argIndex \in Nat
      <4> HIDE DEF argIndex, count
      <4> QED  BY <2>3, <2>4, <2>5, <3>1, <3>2 DEF IsPlaceholder
    <3>4. Argument(call, k, argIndex, isLogger) = Pieces(<<Piece("value", k, argIndex)>>)
      <4> HIDE DEF argIndex
      <4> QED  BY <1>1, <2>1, <2>5, <3>3, ArgumentMeant
    <3>5. Directive(call, k, p, count(p - 1), isLogger) = Argument(call, k, argIndex, isLogger)
      <4> HIDE DEF argIndex, count
      <4> QED  BY <3>1, <3>2, <3>3 DEF Directive
    <3> HIDE DEF meant, argIndex, count
    <3> QED  BY <2>2, <2>5, <3>4, <3>5
  <2>6. CASE ~ IsPlaceholder(d)
    <3>1. d.op \in {"text", "percent"}
      BY <2>3, <2>6 DEF IsPlaceholder
    <3>2. Directive(call, k, p, count(p - 1), isLogger) = Pieces(<<Piece("text", k, p)>>)
      <4> HIDE DEF count
      <4> QED  BY <3>1 DEF Directive
    <3> HIDE DEF meant, argIndex, count
    <3> QED  BY <2>2, <2>6, <3>2
  <2> QED  BY <2>5, <2>6
<1> DEFINE S == {p \in Nat : p <= n => loop[p] = Done(p)}
<1>4. 0 \in S
  <2>1. count(0) = 0
    BY CountPlaceholders, <1>1
  <2>2. upto(0) = << >>
    OBVIOUS
  <2> HIDE DEF count, upto
  <2> QED  BY <1>2, <2>1, <2>2 DEF NoRound
<1>5. ASSUME NEW p \in Nat, p \in S PROVE p + 1 \in S
  <2> SUFFICES ASSUME p + 1 <= n PROVE loop[p + 1] = Done(p + 1)
    OBVIOUS
  <2>1. p + 1 \in 1 .. n /\ (p + 1) - 1 = p /\ p <= n
    BY <1>1
  <2>2. loop[p + 1] = Round(call, k, isLogger, Done(p), p + 1)
    <3>1. loop[p] = Done(p)
      BY <1>5, <2>1
    <3> HIDE DEF Done
    <3> QED  BY <1>2, <2>1, <3>1
  <2>3. Directive(call, k, p + 1, count(p), isLogger) = Pieces(<<meant[p + 1]>>)
    <3>1. Directive(call, k, p + 1, count((p + 1) - 1), isLogger) = Pieces(<<meant[p + 1]>>)
      BY <1>3, <2>1
    <3> QED  BY <2>1, <3>1
  <2>4. count(p + 1) = count(p) + (IF IsPlaceholder(call.format[p + 1]) THEN 1 ELSE 0)
    BY CountPlaceholders
  <2>5. upto(p + 1) = upto(p) \o <<meant[p + 1]>>
    <3> HIDE DEF meant
    <3> QED  OBVIOUS
  <2>6. Done(p).text = upto(p) /\ Done(p).count = count(p) /\ Done(p).wrong = {}
    BY Zenon
  <2>7. Pieces(<<meant[p + 1]>>).pieces = <<meant[p + 1]>> /\ Pieces(<<meant[p + 1]>>).wrong = {}
    BY Zenon DEF Pieces
  <2> HIDE DEF count, upto, meant
  <2>8. Done(p + 1) = [text |-> upto(p) \o <<meant[p + 1]>>,
                       count |-> count(p) + (IF IsPlaceholder(call.format[p + 1]) THEN 1 ELSE 0),
                       wrong |-> {} \cup {}]
    BY <2>4, <2>5
  <2> HIDE DEF Done
  <2> QED  BY <2>2, <2>3, <2>6, <2>7, <2>8 DEF Round
<1>6. n \in S
  <2> HIDE DEF S
  <2> QED  BY <1>1, <1>4, <1>5, NatInductionOnSet
<1>7. loop[n] = Done(n) /\ upto(n) = meant
  <2>1. DOMAIN meant = 1 .. n
    BY <1>1 DEF MeantOf
  <2>2. meant = [q \in 1 .. n |-> meant[q]]
    BY <1>1 DEF MeantOf
  <2> HIDE DEF Done, meant
  <2> QED  BY <1>1, <1>6, <2>2
<1>8. loop[n].text = meant /\ loop[n].wrong = {}
  <2> HIDE DEF upto, count, meant
  <2> QED  BY <1>7
<1> HIDE DEF meant
<1> QED  BY <1>2, <1>8 DEF Pieces, meant

\* A placeholder never appends a NUL.
LEMMA ArgumentNulFree ==
  ASSUME NEW call, NEW k, NEW argIndex, NEW isLogger
  PROVE  NulFree(Argument(call, k, argIndex, isLogger).pieces)
<1> DEFINE one(what) == <<Piece(what, k, argIndex)>>
<1>1. \A what \in {"text", "value", "misuse", "wild"} : NulFree(one(what))
  <2> SUFFICES ASSUME NEW what \in {"text", "value", "misuse", "wild"} PROVE NulFree(one(what))
    OBVIOUS
  <2>1. Piece(what, k, argIndex).what = what /\ what # "nul"
    BY DEF Piece
  <2> DEFINE x == Piece(what, k, argIndex)
  <2> HIDE DEF x
  <2> QED  BY <2>1 DEF NulFree, x
<1>2. NulFree(<< >>)
  BY DEF NulFree
<1>3. Argument(call, k, argIndex, isLogger) \in
        {Wild(k, argIndex), Misuse(one("misuse")), Misuse(<< >>),
         Misuse(one("text")), Pieces(one("value"))}
  BY Zenon DEF Argument
<1> HIDE DEF one
<1>4. /\ Misuse(one("misuse")).pieces = one("misuse") /\ Misuse(<< >>).pieces = << >>
      /\ Misuse(one("text")).pieces = one("text") /\ Pieces(one("value")).pieces = one("value")
  BY DEF Misuse, Pieces
<1>5. Wild(k, argIndex).pieces = one("wild")
  BY Zenon DEF Wild, one
<1> QED  BY <1>1, <1>2, <1>3, <1>4, <1>5

\* Of the directives only a % at the end does.
LEMMA DirectiveNulFree ==
  ASSUME NEW call, NEW k, NEW p, NEW count, NEW isLogger, call.format[p].op # "end",
         call.format[p] \in Directives
  PROVE  NulFree(Directive(call, k, p, count, isLogger).pieces)
<1> DEFINE d     == call.format[p]
           front == IF isLogger THEN <<Piece("misuse", k, p)>> ELSE << >>
           back  == IF d.op = "bad" THEN <<Piece("text", k, p)>>
                    ELSE IF isLogger THEN <<Piece("nul", k, p)>> ELSE << >>
           text  == Piece("text", k, p)
           wrong == Piece("misuse", k, p)
<1>1. text.what # "nul" /\ wrong.what # "nul"
  BY DEF Piece
<1>2. \/ d.op = "next" /\ Directive(call, k, p, count, isLogger) = Argument(call, k, count, isLogger)
      \/ d.op = "at" /\ Directive(call, k, p, count, isLogger) = Argument(call, k, d.n, isLogger)
      \/ Directive(call, k, p, count, isLogger) = Pieces(<<text>>)
      \/ d.op = "bad" /\ Directive(call, k, p, count, isLogger) = Misuse(front \o <<text>>)
  <2>1. d.op \in {"text", "percent", "next", "bad", "end", "at"}
    BY DEF Directives
  <2> HIDE DEF front
  <2>2. d.op = "bad" => back = <<text>>
    BY Zenon
  <2>3. d.op = "bad" => Directive(call, k, p, count, isLogger) = Misuse(front \o back)
    BY DEF Directive, front
  <2> HIDE DEF back
  <2>4. d.op = "bad" => Directive(call, k, p, count, isLogger) = Misuse(front \o <<text>>)
    BY <2>2, <2>3
  <2>5. d.op \in {"text", "percent"} => Directive(call, k, p, count, isLogger) = Pieces(<<text>>)
    BY DEF Directive
  <2>6. /\ d.op = "next" => Directive(call, k, p, count, isLogger) = Argument(call, k, count, isLogger)
        /\ d.op = "at" => Directive(call, k, p, count, isLogger) = Argument(call, k, d.n, isLogger)
    BY DEF Directive
  <2> QED  BY <2>1, <2>4, <2>5, <2>6
<1> HIDE DEF text, wrong
<1>3. NulFree(<<text>>)
  BY <1>1 DEF NulFree
<1>4. NulFree(front \o <<text>>)
  <2>1. front \o <<text>> = <<wrong, text>> \/ front \o <<text>> = <<text>>
    <3>1. front = <<wrong>> \/ front = << >>
      BY Zenon DEF wrong
    <3>2. <<wrong>> \o <<text>> = <<wrong, text>>
      <4>1. text \in {wrong, text} /\ wrong \in {wrong, text}
        OBVIOUS
      <4>2. <<wrong>> \in Seq({wrong, text})
        BY <4>1, FewTokens
      <4>3. Append(<<wrong>>, text) = <<wrong>> \o <<text>>
        BY <4>1, <4>2, AppendIsConcat
      <4> QED  BY <4>3, FewAppended, Zenon
    <3>3. << >> \o <<text>> = <<text>>
      <4>1. <<text>> \in Seq({text})
        OBVIOUS
      <4> QED  BY <4>1, ConcatEmptySeq
    <3> HIDE DEF front
    <3> QED  BY <3>1, <3>2, <3>3
  <2>2. NulFree(<<wrong, text>>)
    <3>1. DOMAIN <<wrong, text>> = {1, 2} /\ <<wrong, text>>[1] = wrong /\ <<wrong, text>>[2] = text
      OBVIOUS
    <3> QED  BY <1>1, <3>1 DEF NulFree
  <2> QED  BY <1>3, <2>1, <2>2
<1> HIDE DEF front
<1>5. Pieces(<<text>>).pieces = <<text>> /\ Misuse(front \o <<text>>).pieces = front \o <<text>>
  BY DEF Pieces, Misuse
<1> QED  BY <1>2, <1>3, <1>4, <1>5, ArgumentNulFree

\* So DoTypeSafeFormat does not without one.
LEMMA FormatNulFree ==
  ASSUME NEW call, NEW k \in Nat, NEW isLogger, call.format \in Seq(Directives),
         \A p \in DOMAIN call.format : call.format[p].op # "end"
  PROVE  NulFree(DoTypeSafeFormat(call, k, isLogger).pieces)
<1> DEFINE n == Len(call.format)
           X == {v \in FormatLoop(k) : NulFree(v.text)}
<1>1. PICK loop :
        /\ loop[0] = NoRound
        /\ \A p \in 1 .. n : loop[p] = Round(call, k, isLogger, loop[p - 1], p)
        /\ \A p \in 0 .. n : loop[p] \in FormatLoop(k)
        /\ DoTypeSafeFormat(call, k, isLogger) = [pieces |-> loop[n].text, wrong |-> loop[n].wrong]
  BY FormatRounds
<1>2. n \in Nat /\ DOMAIN call.format = 1 .. n
  OBVIOUS
<1>3. loop[0] \in X
  <2>1. loop[0].text = << >>
    BY <1>1 DEF NoRound
  <2> QED  BY <1>1, <1>2, <2>1 DEF NulFree
<1>4. ASSUME NEW p \in 1 .. n, loop[p - 1] \in X PROVE loop[p] \in X
  <2> DEFINE before == loop[p - 1]
             round  == Directive(call, k, p, before.count, isLogger)
             old    == before.text
             add    == round.pieces
  <2>1. old \in Seq(TextOf(k)) /\ NulFree(old) /\ before.count \in Nat
    BY <1>4 DEF FormatLoop
  <2>2. call.format[p] \in Directives /\ call.format[p].op # "end" /\ p \in Nat
    BY <1>2
  <2>3. add \in Seq(TextOf(k)) /\ NulFree(add)
    <3>1. Result(round, k)
      BY <2>1, <2>2, DirectiveResult
    <3>2. NulFree(add)
      BY <2>2, DirectiveNulFree
    <3> QED  BY <3>1, <3>2 DEF Result
  <2>4. loop[p].text = old \o add
    <3>1. loop[p] = Round(call, k, isLogger, before, p)
      BY <1>1
    <3>2. \A v : Round(call, k, isLogger, v, p).text =
                   v.text \o Directive(call, k, p, v.count, isLogger).pieces
      <4> TAKE v
      <4> QED  BY DEF Round
    <3> QED  BY <3>1, <3>2
  <2> HIDE DEF old, add
  <2>5. NulFree(old \o add)
    <3>1. /\ Len(old) \in Nat /\ Len(add) \in Nat
          /\ DOMAIN old = 1 .. Len(old) /\ DOMAIN add = 1 .. Len(add)
          /\ DOMAIN (old \o add) = 1 .. Len(old) + Len(add)
          /\ \A q \in 1 .. Len(old) + Len(add) :
               (old \o add)[q] = IF q <= Len(old) THEN old[q] ELSE add[q - Len(old)]
      BY <2>1, <2>3
    <3>2. \A q \in 1 .. Len(old) + Len(add) :
            q \in 1 .. Len(old) \/ (~ q <= Len(old) /\ q - Len(old) \in 1 .. Len(add))
      BY <3>1
    <3> QED  BY <2>1, <2>3, <3>1, <3>2 DEF NulFree
  <2>6. loop[p] \in FormatLoop(k)
    BY <1>1, <1>2
  <2> QED  BY <2>4, <2>5, <2>6
<1>5. loop[n] \in X
  <2> HIDE DEF X, n
  <2>1. \A p \in 0 .. n : loop[p] \in X
    BY <1>2, <1>3, <1>4, LoopStays
  <2> QED  BY <1>2, <2>1
<1> QED  BY <1>1, <1>5

\* How many arguments a macro call has, from one to sixteen.
LEMMA NargCounts ==
  ASSUME NEW params \in Seq(Params), Len(params) \in 1 .. 16
  PROVE  PP_NARG(params) = Len(params)
<1> DEFINE n == Len(params)
<1>1. PP_RSEQ_N \in Seq(0 .. 16) /\ Len(PP_RSEQ_N) = 17 /\ \A k \in 1 .. 17 : PP_RSEQ_N[k] = 17 - k
  BY DEF PP_RSEQ_N, MaxParams
<1> DEFINE T == Params \cup (0 .. 16)
<1>2. params \in Seq(T) /\ PP_RSEQ_N \in Seq(T)
  <2>1. Params \subseteq T /\ 0 .. 16 \subseteq T
    OBVIOUS
  <2> HIDE DEF T
  <2> QED  BY <1>1, <2>1, SeqMonotonic
<1>3. n \in 1 .. 16
  OBVIOUS
<1> HIDE DEF T, n
<1>4. 17 - n \in 1 .. 17 /\ 17 - (17 - n) = n /\ n + (17 - n) = 17
  BY <1>3
<1>5. (params \o PP_RSEQ_N)[17] = PP_RSEQ_N[17 - n]
  <2>1. \A k \in 1 .. Len(PP_RSEQ_N) : (params \o PP_RSEQ_N)[Len(params) + k] = PP_RSEQ_N[k]
    BY <1>2, Behind
  <2>2. \A k \in 1 .. 17 : (params \o PP_RSEQ_N)[n + k] = PP_RSEQ_N[k]
    BY <1>1, <2>1 DEF n
  <2>3. (params \o PP_RSEQ_N)[n + (17 - n)] = PP_RSEQ_N[17 - n]
    BY <1>4, <2>2
  <2> QED  BY <1>4, <2>3
<1>6. (params \o PP_RSEQ_N)[17] = n /\ MaxParams + 1 = 17
  BY <1>1, <1>4, <1>5 DEF MaxParams
<1> QED  BY <1>6 DEF PP_NARG, n

\* What the router makes of no argument, one and more.
LEMMA RouterChooses ==
  /\ XLOGGER_ROUTER_OUTPUT(<<"empty">>) = "nothing"
  /\ XLOGGER_ROUTER_OUTPUT(<<"plain">>) = "WriteNoFormat"
  /\ \A params \in Seq(Params) : Len(params) \in 2 .. 16 =>
       XLOGGER_ROUTER_OUTPUT(params) = "operator()"
<1>1. /\ <<"empty">> \in Seq(Params) /\ <<"plain">> \in Seq(Params) /\ <<"empty", "empty">> \in Seq(Params)
      /\ Len(<<"empty">>) = 1 /\ Len(<<"plain">>) = 1 /\ Len(<<"empty", "empty">>) = 2
      /\ <<"empty">>[1] = "empty" /\ <<"plain">>[1] = "plain"
  BY DEF Params
<1>2. PP_NARG(<<"empty">>) = 1 /\ PP_NARG(<<"plain">>) = 1 /\ PP_NARG(<<"empty", "empty">>) = 2
  <2> DEFINE e  == <<"empty">>
             p  == <<"plain">>
             ee == <<"empty", "empty">>
  <2>1. /\ e \in Seq(Params) /\ p \in Seq(Params) /\ ee \in Seq(Params)
        /\ Len(e) \in 1 .. 16 /\ Len(p) \in 1 .. 16 /\ Len(ee) \in 1 .. 16
        /\ Len(e) = 1 /\ Len(p) = 1 /\ Len(ee) = 2
    BY <1>1
  <2> HIDE DEF e, p, ee
  <2>2. PP_NARG(e) = 1 /\ PP_NARG(p) = 1 /\ PP_NARG(ee) = 2
    BY <2>1, NargCounts
  <2> QED  BY <2>2 DEF e, p, ee
<1>3. PP_NUM_PARAMS(<<"empty">>) = 0
  BY <1>1, <1>2 DEF PP_NUM_PARAMS, PP_NUM_PARAMS_0_1_TEST, PP_IF, PP_BOOL, PP_DEC
<1>4. PP_NUM_PARAMS(<<"plain">>) = 1
  BY <1>1, <1>2 DEF PP_NUM_PARAMS, PP_NUM_PARAMS_0_1_TEST, PP_IF, PP_BOOL, PP_DEC
<1>5. ASSUME NEW params \in Seq(Params), Len(params) \in 2 .. 16
      PROVE  XLOGGER_ROUTER_OUTPUT(params) = "operator()"
  <2>1. PP_NARG(params) = Len(params)
    <3>1. Len(params) \in 1 .. 16
      BY <1>5
    <3> QED  BY <3>1, NargCounts
  <2> DEFINE n == Len(params)
  <2>2. n \in 2 .. 16
    BY <1>5
  <2> HIDE DEF n
  <2>3. PP_DEC(n) # 0 /\ n # 0
    BY <2>2 DEF PP_DEC
  <2>4. PP_NARG(params) = n
    BY <2>1 DEF n
  <2>5. PP_NUM_PARAMS(params) = n
    BY <2>3, <2>4, Zenon DEF PP_NUM_PARAMS, PP_IF, PP_BOOL
  <2>6. 0 # 1
    OBVIOUS
  <2> QED  BY <2>3, <2>5, <2>6, Zenon DEF XLOGGER_ROUTER_OUTPUT, PP_IF, PP_BOOL
<1> QED  BY <1>3, <1>4, <1>5 DEF XLOGGER_ROUTER_OUTPUT, PP_IF, PP_BOOL, PP_DEC

\* A result is what the call means if the call is well-formed, and has a NUL only
\* if its format ends in %.
Proper(result, call, k) ==
  /\ Result(result, k)
  /\ WellFormed(call) => result = Pieces(MeantOf(call, k))
  /\ ~ HasEnd(call) => NulFree(result.pieces)

\* Text that is taken as it is.
LEMMA PlainProper ==
  ASSUME NEW call, Fits(call), call.kind # "tsf", NEW k \in Nat
  PROVE  WriteNoFormat(call, k) = Pieces(MeantOf(call, k)) /\ NulFree(WriteNoFormat(call, k).pieces)
<1> DEFINE text == [p \in DOMAIN call.format |-> Piece("text", k, p)]
<1>1. WriteNoFormat(call, k) = Pieces(text) /\ MeantOf(call, k) = text
  BY DEF WriteNoFormat, MeantOf
<1>2. NulFree(text)
  BY DEF NulFree, Piece
<1> HIDE DEF text
<1>3. Pieces(text).pieces = text
  BY DEF Pieces
<1> QED  BY <1>1, <1>2, <1>3

\* No text at all, where there are no arguments.
LEMMA EmptyProper ==
  ASSUME NEW call, Fits(call), call.kind = "empty", NEW k
  PROVE  Pieces(<< >>) = Pieces(MeantOf(call, k)) /\ NulFree(Pieces(<< >>).pieces)
<1>1. call.format = << >> /\ DOMAIN << >> = {}
  BY DEF Fits
<1>2. MeantOf(call, k) = << >>
  BY <1>1 DEF MeantOf
<1> QED  BY <1>2 DEF Pieces, NulFree

\* What a statement appends, through the router or, but for a text, without it.
LEMMA CallProper ==
  ASSUME NEW call, Fits(call), NEW k \in Nat, NEW isLogger
  PROVE  /\ call.kind # "raw" => Proper(Call(call, k, isLogger), call, k)
         /\ Proper(Routed(call, k, isLogger), call, k)
<1>1. call \in CallSet /\ call.kind \in Kinds /\ call.format \in Seq(Directives)
      /\ Len(call.values) \in Nat /\ Len(call.values) <= 14
  BY DEF Fits, CallSet, MaxParams
<1>2. Result(Call(call, k, isLogger), k) /\ Result(Routed(call, k, isLogger), k)
  BY <1>1, RoutedResult
<1>3. CASE call.kind = "empty"
  <2>1. Call(call, k, isLogger) = Pieces(<< >>)
    BY <1>3 DEF Call
  <2>2. Routed(call, k, isLogger) = Pieces(<< >>)
    BY <1>3, RouterChooses DEF Routed, MacroParams
  <2> QED  BY <1>2, <1>3, <2>1, <2>2, EmptyProper DEF Proper
<1>4. CASE call.kind = "raw"
  <2>1. Routed(call, k, isLogger) = WriteNoFormat(call, k)
    BY <1>4, RouterChooses DEF Routed, MacroParams
  <2> QED  BY <1>2, <1>4, <2>1, PlainProper DEF Proper
<1>5. CASE call.kind \in {"printf", "format", "null", "tsf"}
  <2>1. Routed(call, k, isLogger) = Call(call, k, isLogger)
    <3>1. MacroParams(call) \in Seq(Params) /\ Len(MacroParams(call)) \in 2 .. 16
      <4>1. CASE call.kind = "tsf"
        <5> DEFINE n == 2 + Len(call.values)
        <5>1. n \in 2 .. 16
          BY <1>1
        <5>2. "tsf" # "empty" /\ "tsf" # "raw"
          OBVIOUS
        <5>3. MacroParams(call) = [i \in 1 .. n |-> "plain"]
          BY <4>1, <5>2, Zenon DEF MacroParams
        <5> HIDE DEF n
        <5> QED  BY <5>1, <5>3 DEF Params
      <4>2. CASE call.kind # "tsf"
        <5>1. MacroParams(call) = <<"plain", "plain">>
          BY <1>5, <4>2 DEF MacroParams
        <5> QED  BY <5>1 DEF Params
      <4> QED  BY <4>1, <4>2
    <3>2. XLOGGER_ROUTER_OUTPUT(MacroParams(call)) = "operator()"
      BY <3>1, RouterChooses
    <3> QED  BY <3>2 DEF Routed
  <2>2. CASE call.kind = "tsf"
    <3>1. Call(call, k, isLogger) = DoTypeSafeFormat(call, k, isLogger)
      BY <2>2 DEF Call
    <3>2. WellFormed(call) => DoTypeSafeFormat(call, k, isLogger) = Pieces(MeantOf(call, k))
      BY <2>2, FormatMeant
    <3>3. ~ HasEnd(call) => NulFree(DoTypeSafeFormat(call, k, isLogger).pieces)
      BY <1>1, <2>2, FormatNulFree DEF HasEnd
    <3> QED  BY <1>2, <2>1, <3>1, <3>2, <3>3 DEF Proper
  <2>3. CASE call.kind = "printf"
    <3>1. Call(call, k, isLogger) = WriteNoFormat(call, k)
      BY <2>3 DEF Call, VPrintf
    <3> QED  BY <1>2, <2>1, <2>3, <3>1, PlainProper DEF Proper
  <2>4. CASE call.kind = "null"
    <3> DEFINE x == Piece("misuse", k, 0)
    <3>1. Call(call, k, isLogger) = Misuse(<<x>>)
      BY <2>4 DEF Call, VPrintf
    <3>2. ~ WellFormed(call)
      BY <2>4 DEF WellFormed
    <3>3. x.what # "nul"
      BY DEF Piece
    <3> HIDE DEF x
    <3>4. NulFree(Misuse(<<x>>).pieces)
      <4>1. Misuse(<<x>>).pieces = <<x>>
        BY DEF Misuse
      <4> QED  BY <3>3, <4>1 DEF NulFree
    <3> QED  BY <1>2, <2>1, <3>1, <3>2, <3>4 DEF Proper
  <2>5. CASE call.kind = "format" /\ OnlyText(call.format)
    <3>1. Call(call, k, isLogger) = WriteNoFormat(call, k)
      BY <2>5 DEF Call, VPrintf
    <3> QED  BY <1>2, <2>1, <2>5, <3>1, PlainProper DEF Proper
  <2>6. CASE call.kind = "format" /\ ~ OnlyText(call.format)
    <3> DEFINE x == Piece("wild", k, 0)
    <3>1. Call(call, k, isLogger) = [pieces |-> <<x>>, wrong |-> {"wild"}]
      BY <2>6 DEF Call, VPrintf, Wild
    <3>2. ~ WellFormed(call)
      BY <2>6 DEF WellFormed
    <3>3. x.what # "nul"
      BY DEF Piece
    <3> HIDE DEF x
    <3>4. NulFree([pieces |-> <<x>>, wrong |-> {"wild"}].pieces)
      BY <3>3 DEF NulFree
    <3> QED  BY <1>2, <2>1, <3>1, <3>2, <3>4 DEF Proper
  <2> QED  BY <1>5, <2>2, <2>3, <2>4, <2>5, <2>6
<1> QED  BY <1>1, <1>3, <1>4, <1>5 DEF Kinds

\* A text in a group's call is a call that fits.
LEMMA InGroupFits ==
  ASSUME NEW call, Fits(call)
  PROVE  InGroup(call) \in CallSet /\ Fits(InGroup(call)) /\ InGroup(call).kind # "raw"
<1>1. CASE call.kind = "raw"
  <2>1. InGroup(call) = [call EXCEPT !.kind = "format"] /\ call \in CallSet
    BY <1>1 DEF InGroup, Fits
  <2>2. /\ InGroup(call).kind = "format" /\ InGroup(call).values = call.values
        /\ InGroup(call) \in CallSet
    BY <2>1 DEF CallSet, Kinds
  <2> QED  BY <2>2 DEF Fits
<1>2. CASE call.kind # "raw"
  BY <1>2 DEF InGroup, Fits
<1> QED  BY <1>1, <1>2

\* The operators << and >> are well-formed with a value and misused with NULL.
LEMMA StreamProper ==
  ASSUME NEW k \in Nat, NEW value \in {"value", "NULL"}
  PROVE  Proper(Argument(StreamCall(value), k, 0, TRUE), StreamCall(value), k)
<1> DEFINE call == StreamCall(value)
           d    == [op |-> "next", n |-> 0]
<1>1. /\ call.kind = "tsf" /\ call.format = <<d>> /\ call.values = <<value>>
      /\ DOMAIN call.format = {1} /\ call.format[1] = d /\ d.op = "next"
      /\ Len(call.values) = 1 /\ call.values[1] = value
  BY DEF StreamCall
<1>2. Result(Argument(call, k, 0, TRUE), k)
  BY StreamResult
<1>3. NulFree(Argument(call, k, 0, TRUE).pieces)
  BY ArgumentNulFree
<1> HIDE DEF call, d
<1>4. IsPlaceholder(call.format[1]) /\ ArgOf(call, 1) = 0
  <2>1. Cardinality({q \in 1 .. 0 : IsPlaceholder(call.format[q])}) = 0
    <3>1. {q \in 1 .. 0 : IsPlaceholder(call.format[q])} = {}
      OBVIOUS
    <3> QED  BY <3>1, FS_EmptySet
  <2>2. 1 - 1 = 0
    OBVIOUS
  <2> QED  BY <1>1, <2>1, <2>2 DEF IsPlaceholder, ArgOf
<1>5. ASSUME WellFormed(call) PROVE Argument(call, k, 0, TRUE) = Pieces(MeantOf(call, k))
  <2>1. call.values[0 + 1] = "value"
    BY <1>1, <1>4, <1>5 DEF WellFormed
  <2>2. Argument(call, k, 0, TRUE) = Pieces(<<Piece("value", k, 0)>>)
    <3>1. Len(call.values) \in 0 .. MaxParams /\ 0 < Len(call.values) /\ 0 \in Nat
      BY <1>1 DEF MaxParams
    <3> QED  BY <2>1, <3>1, ArgumentMeant
  <2> DEFINE x == Piece("value", k, 0)
  <2>3. MeantOf(call, k) = [p \in {1} |-> x]
    BY <1>1, <1>4 DEF MeantOf
  <2>4. <<x>> = [p \in {1} |-> x]
    OBVIOUS
  <2> QED  BY <2>2, <2>3, <2>4
<1> QED  BY <1>2, <1>3, <1>5 DEF Proper, call

-----------------------------------------------------------------------------
(* Log statements: the level of a line.                                     *)

SaidSet   == [call : CallSet, level : 0 .. 5, by : {"logger", "assert", "tracer"}]
LoggerSet == [open : BOOLEAN, level : 0 .. 5, isassert : BOOLEAN, exp : Nat, message : Seq(Text)]
ScopeSet  == [scope : Nat, enable : BOOLEAN, level : 0 .. 5, exitmsg : Seq(Text)]
EntrySet  == [kind : {"write", "assert", "enter", "leave"}, level : 0 .. 5, exp : Nat,
              message : Seq(Text)]

\* A text is no more severe than its level, given what was said.
SoundIn(s, text, lvl) ==
  \A p \in DOMAIN text :
    /\ text[p].of \in DOMAIN s /\ s[text[p].of].level <= lvl
    /\ text[p].what = "misuse" => lvl = kLevelFatal
SoundLogger(x, s) == x \in LoggerSet /\ SoundIn(s, x.message, x.level)
SoundEntry(e, s)  == e \in EntrySet /\ (IsLine(e) => SoundIn(s, e.message, e.level))

\* Two texts that fit a level fit it together.
LEMMA SoundConcat ==
  ASSUME NEW s, NEW lvl, NEW t1 \in Seq(Text), NEW t2 \in Seq(Text),
         SoundIn(s, t1, lvl), SoundIn(s, t2, lvl)
  PROVE  t1 \o t2 \in Seq(Text) /\ SoundIn(s, t1 \o t2, lvl)
<1>1. t1 \o t2 \in Seq(Text) /\ Len(t1 \o t2) = Len(t1) + Len(t2)
      /\ \A p \in 1 .. Len(t1) + Len(t2) :
           (t1 \o t2)[p] = IF p <= Len(t1) THEN t1[p] ELSE t2[p - Len(t1)]
  BY ConcatProperties
<1>2. ASSUME NEW p \in DOMAIN (t1 \o t2)
      PROVE  (\E q \in DOMAIN t1 : (t1 \o t2)[p] = t1[q]) \/ (\E q \in DOMAIN t2 : (t1 \o t2)[p] = t2[q])
  <2>1. p \in 1 .. Len(t1) + Len(t2)
    BY <1>1
  <2>2. p <= Len(t1) => p \in DOMAIN t1
    BY <2>1
  <2>3. p > Len(t1) => p - Len(t1) \in DOMAIN t2
    BY <2>1
  <2>4. p <= Len(t1) \/ p > Len(t1)
    BY <2>1
  <2> QED  BY <1>1, <2>1, <2>2, <2>3, <2>4
<1> DEFINE t == t1 \o t2
<1>3. \A p \in DOMAIN t : (\E q \in DOMAIN t1 : t[p] = t1[q]) \/ (\E q \in DOMAIN t2 : t[p] = t2[q])
  BY <1>2
<1>4. t \in Seq(Text)
  BY <1>1
<1> HIDE DEF t
<1>5. SoundIn(s, t, lvl)
  BY <1>3, Zenon DEF SoundIn
<1> QED  BY <1>4, <1>5 DEF t

\* A text that fits a level fits a higher one.
LEMMA SoundRaised ==
  ASSUME NEW s \in Seq(SaidSet), NEW text \in Seq(Text), NEW lvl \in 0 .. 5, NEW higher \in lvl .. 5,
         SoundIn(s, text, lvl)
  PROVE  SoundIn(s, text, higher)
<1> SUFFICES ASSUME NEW p \in DOMAIN text
             PROVE  /\ text[p].of \in DOMAIN s /\ s[text[p].of].level <= higher
                    /\ text[p].what = "misuse" => higher = kLevelFatal
  BY DEF SoundIn
<1>1. /\ text[p].of \in DOMAIN s /\ s[text[p].of].level <= lvl
      /\ text[p].what = "misuse" => lvl = kLevelFatal
  BY DEF SoundIn
<1>2. s[text[p].of].level \in 0 .. 5
  <2> DEFINE of == text[p].of
  <2>1. of \in DOMAIN s
    BY <1>1
  <2> HIDE DEF of
  <2>2. s[of] \in SaidSet
    BY <2>1
  <2>3. s[of].level \in 0 .. 5
    BY <2>2 DEF SaidSet
  <2> QED  BY <2>3 DEF of
<1>3. lvl <= higher /\ (lvl = 5 => higher = 5)
  OBVIOUS
<1> QED  BY <1>1, <1>2, <1>3 DEF kLevelFatal

\* More that is said changes nothing about what was said.
LEMMA SoundStays ==
  ASSUME NEW s \in Seq(SaidSet), NEW entry \in SaidSet, NEW text, NEW lvl, SoundIn(s, text, lvl)
  PROVE  SoundIn(Append(s, entry), text, lvl)
<1> DEFINE t == Append(s, entry)
<1>1. \A k \in DOMAIN s : k \in DOMAIN t /\ t[k] = s[k]
  OBVIOUS
<1> HIDE DEF t
<1>2. SoundIn(t, text, lvl)
  BY <1>1 DEF SoundIn
<1> QED  BY <1>2 DEF t

\* What one call adds to a logger at least as severe as the call.
LEMMA WithSound ==
  ASSUME NEW s \in Seq(SaidSet), NEW entry \in SaidSet, NEW x, SoundLogger(x, s),
         NEW result, Result(result, Len(s) + 1), entry.level <= x.level, NEW front
  PROVE  SoundLogger(With(x, result, front), Append(s, entry))
<1> DEFINE k   == Len(s) + 1
           t   == Append(s, entry)
           lvl == IF "misuse" \in result.wrong THEN kLevelFatal ELSE x.level
           new == With(x, result, front)
           old == x.message
           add == result.pieces
<1>1. x.level \in 0 .. 5 /\ old \in Seq(Text) /\ SoundIn(s, old, x.level)
  BY DEF SoundLogger, LoggerSet
<1>2. lvl \in x.level .. 5 /\ lvl \in 0 .. 5
  BY <1>1 DEF kLevelFatal
<1>3. entry.level \in 0 .. 5
  BY DEF SaidSet
<1>4. k \in DOMAIN t /\ t[k] = entry /\ t \in Seq(SaidSet)
  OBVIOUS
<1>5. add \in Seq(TextOf(k)) /\ Honest(add, result.wrong)
  BY DEF Result
<1>6. add \in Seq(Text) /\ \A p \in DOMAIN add : add[p].of = k
  BY <1>5 DEF TextOf
<1>7. new = [x EXCEPT !.message = IF front THEN add \o old ELSE old \o add, !.level = lvl]
  BY Zenon DEF With
<1> HIDE DEF t, k, add, old, new
<1>8. SoundIn(t, add, lvl)
  <2>1. entry.level <= lvl
    BY <1>1, <1>2, <1>3
  <2>2. (\E p \in DOMAIN add : add[p].what = "misuse") => lvl = kLevelFatal
    BY <1>5 DEF Honest
  <2> HIDE DEF lvl
  <2> QED  BY <1>4, <1>6, <2>1, <2>2, Zenon DEF SoundIn
<1> HIDE DEF lvl
<1>9. SoundIn(t, old, lvl)
  <2>1. SoundIn(s, old, lvl)
    BY <1>1, <1>2, SoundRaised
  <2> QED  BY <2>1, SoundStays DEF t
<1>10. /\ old \o add \in Seq(Text) /\ SoundIn(t, old \o add, lvl)
       /\ add \o old \in Seq(Text) /\ SoundIn(t, add \o old, lvl)
  BY <1>1, <1>6, <1>8, <1>9, SoundConcat
<1> DEFINE message == IF front THEN add \o old ELSE old \o add
<1>11. message \in Seq(Text) /\ SoundIn(t, message, lvl)
  BY <1>10, Zenon
<1> HIDE DEF message
<1>12. x \in LoggerSet /\ new = [x EXCEPT !.message = message, !.level = lvl]
  BY <1>7, Zenon DEF SoundLogger, message
<1>13. new \in LoggerSet /\ new.message = message /\ new.level = lvl
  BY <1>2, <1>11, <1>12 DEF LoggerSet
<1> QED  BY <1>11, <1>13, Zenon DEF SoundLogger, new, t

\* A line that takes in another is as severe as either.
LEMMA MergedSound ==
  ASSUME NEW s \in Seq(SaidSet), NEW group, NEW line, SoundLogger(group, s), SoundLogger(line, s)
  PROVE  SoundLogger(Merged(group, line).source, s) /\ SoundLogger(Merged(group, line).target, s)
<1> DEFINE source == Merged(group, line).source
           target == Merged(group, line).target
           lvl    == IF group.level < line.level THEN line.level ELSE group.level
           both   == group.message \o line.message
<1>1. /\ group \in LoggerSet /\ line \in LoggerSet
      /\ group.level \in 0 .. 5 /\ line.level \in 0 .. 5
      /\ group.message \in Seq(Text) /\ line.message \in Seq(Text)
      /\ SoundIn(s, group.message, group.level) /\ SoundIn(s, line.message, line.level)
  BY DEF SoundLogger, LoggerSet
<1>2. lvl \in group.level .. 5 /\ lvl \in line.level .. 5 /\ lvl \in 0 .. 5
  BY <1>1
<1>3. source = [line EXCEPT !.isassert = FALSE, !.exp = 0, !.message = << >>]
  BY DEF Merged
<1>4. SoundLogger(source, s)
  <2>0. line \in LoggerSet /\ << >> \in Seq(Text)
    BY <1>1
  <2>1. source \in LoggerSet /\ source.message = << >>
    <3> HIDE DEF source, target, lvl, both
    <3> QED  BY <2>0, <1>3 DEF LoggerSet
  <2> HIDE DEF source
  <2> QED  BY <2>1 DEF SoundLogger, SoundIn
<1>5. target \in LoggerSet /\ target.message = both /\ target.level = lvl
  <2>1. both \in Seq(Text)
    BY <1>1
  <2>2. CASE group.level < line.level
    <3>1. target = [group EXCEPT !.message = @ \o line.message, !.level = line.level,
                                 !.isassert = line.isassert, !.exp = line.exp]
      BY <2>2 DEF Merged
    <3>2. line.isassert \in BOOLEAN /\ line.exp \in Nat
      BY <1>1 DEF LoggerSet
    <3> HIDE DEF target
    <3> QED  BY <1>1, <2>1, <2>2, <3>1, <3>2 DEF LoggerSet
  <2>3. CASE ~ group.level < line.level
    <3>1. target = [group EXCEPT !.message = @ \o line.message]
      BY <2>3 DEF Merged
    <3> HIDE DEF target
    <3> QED  BY <1>1, <2>1, <2>3, <3>1 DEF LoggerSet
  <2> QED  BY <2>2, <2>3
<1> HIDE DEF lvl
<1>6. SoundIn(s, group.message, lvl) /\ SoundIn(s, line.message, lvl)
  BY <1>1, <1>2, SoundRaised
<1>7. SoundIn(s, both, lvl)
  BY <1>1, <1>6, SoundConcat
<1> HIDE DEF source, target, both
<1>8. SoundLogger(target, s)
  BY <1>5, <1>7 DEF SoundLogger
<1> QED  BY <1>4, <1>8 DEF source, target

\* What c_str() cuts off leaves the rest as it was.
LEMMA CStrSound ==
  ASSUME NEW s, NEW lvl, NEW text \in Seq(Text), SoundIn(s, text, lvl)
  PROVE  CStr(text) \in Seq(Text) /\ SoundIn(s, CStr(text), lvl)
<1>1. CASE NULs(text) = {}
  BY <1>1 DEF CStr
<1>2. CASE NULs(text) # {}
  <2> DEFINE first == CHOOSE p \in NULs(text) : \A q \in NULs(text) : p <= q
  <2>1. DOMAIN text = 1 .. Len(text) /\ Len(text) \in Nat
    OBVIOUS
  <2>2. NULs(text) \in SUBSET Nat /\ NULs(text) \subseteq DOMAIN text
    BY <2>1 DEF NULs
  <2>3. \E p \in NULs(text) : \A q \in NULs(text) : p <= q
    BY <1>2, <2>2, LeastNumber
  <2>4. first \in NULs(text)
    BY <2>3
  <2>5. CStr(text) = SubSeq(text, 1, first - 1)
    BY <1>2 DEF CStr
  <2> HIDE DEF first
  <2>6. first \in 1 .. Len(text)
    BY <2>1, <2>2, <2>4
  <2> DEFINE cut == SubSeq(text, 1, first - 1)
  <2>7. /\ cut \in Seq(Text) /\ DOMAIN cut = 1 .. first - 1
        /\ \A p \in 1 .. first - 1 : cut[p] = text[p]
    BY <2>1, <2>6
  <2>8. \A p \in DOMAIN cut : p \in DOMAIN text /\ cut[p] = text[p]
    BY <2>1, <2>6, <2>7
  <2> HIDE DEF cut
  <2>9. SoundIn(s, cut, lvl)
    BY <2>8, Zenon DEF SoundIn
  <2> QED  BY <2>5, <2>7, <2>9 DEF cut
<1> QED  BY <1>1, <1>2

LogInv ==
  /\ said \in Seq(SaidSet)
  /\ loggers = [line |-> loggers.line, group |-> loggers.group]
  /\ SoundLogger(loggers.line, said) /\ SoundLogger(loggers.group, said)
  /\ scopes \in Seq(ScopeSet)
  /\ log \in Seq(EntrySet)
  /\ \A n \in DOMAIN log : SoundEntry(log[n], said)

\* Before the first statement there is nothing to be severe about.
LEMMA LogInitially == LogInit => LogInv
<1> SUFFICES ASSUME LogInit PROVE LogInv
  OBVIOUS
<1>1. loggers = [line |-> NoLogger, group |-> NoLogger] /\ scopes = << >> /\ log = << >> /\ said = << >>
  BY DEF LogInit
<1>2. NoLogger \in LoggerSet /\ NoLogger.message = << >>
  BY DEF NoLogger, LoggerSet, kLevelAll
<1> HIDE DEF NoLogger
<1>3. SoundLogger(NoLogger, said)
  BY <1>2 DEF SoundLogger, SoundIn
<1> QED  BY <1>1, <1>3 DEF LogInv

\* A logger begins empty, at the level of its statement.
LEMMA XLoggerSound ==
  ASSUME NEW s, NEW lvl \in 0 .. 5
  PROVE  SoundLogger(XLogger(lvl), s) /\ XLogger(lvl).level = lvl
<1>1. XLogger(lvl) \in LoggerSet /\ XLogger(lvl).message = << >> /\ XLogger(lvl).level = lvl
  <2>1. NoLogger \in LoggerSet /\ NoLogger.message = << >>
    BY DEF NoLogger, LoggerSet, kLevelAll
  <2> QED  BY <2>1 DEF XLogger, LoggerSet
<1> QED  BY <1>1 DEF SoundLogger, SoundIn

\* What one more statement leaves alone stays as severe as it was.
LEMMA SayKeeps ==
  ASSUME LogInv, NEW call \in CallSet, NEW lvl \in 0 .. 5, NEW by \in {"logger", "assert", "tracer"},
         Say(call, lvl, by)
  PROVE  LET entry == [call |-> call, level |-> lvl, by |-> by]
         IN /\ entry \in SaidSet /\ entry.level = lvl
            /\ said' = Append(said, entry) /\ said' \in Seq(SaidSet)
            /\ Len(said) \in Nat /\ NextCall = Len(said) + 1 /\ NextCall \in Nat
            /\ \A x : SoundLogger(x, said) => SoundLogger(x, said')
            /\ \A e : SoundEntry(e, said) => SoundEntry(e, said')
<1> DEFINE entry == [call |-> call, level |-> lvl, by |-> by]
<1>1. said \in Seq(SaidSet) /\ Len(said) \in Nat
  BY DEF LogInv
<1>2. entry \in SaidSet /\ entry.level = lvl
  BY DEF SaidSet
<1>3. said' = Append(said, entry)
  BY DEF Say
<1> HIDE DEF entry
<1>4. said' \in Seq(SaidSet)
  BY <1>1, <1>2, <1>3
<1>5. ASSUME NEW x, SoundLogger(x, said) PROVE SoundLogger(x, said')
  BY <1>1, <1>2, <1>3, <1>5, SoundStays DEF SoundLogger
<1>6. ASSUME NEW e, SoundEntry(e, said) PROVE SoundEntry(e, said')
  BY <1>1, <1>2, <1>3, <1>6, SoundStays DEF SoundEntry
<1> QED  BY <1>1, <1>2, <1>3, <1>4, <1>5, <1>6 DEF NextCall, entry

\* A statement that leaves one logger as it is and makes the other one new.
LEMMA LoggerChanges ==
  ASSUME LogInv, NEW call \in CallSet, NEW lvl \in 0 .. 5, NEW by \in {"logger", "assert", "tracer"},
         Say(call, lvl, by), NEW new, SoundLogger(new, said'),
         loggers' \in {[loggers EXCEPT !.line = new], [loggers EXCEPT !.group = new]},
         UNCHANGED <<scopes, log>>
  PROVE  LogInv'
<1> DEFINE line == loggers.line
           group == loggers.group
<1>1. /\ said' \in Seq(SaidSet)
      /\ \A x : SoundLogger(x, said) => SoundLogger(x, said')
      /\ \A e : SoundEntry(e, said) => SoundEntry(e, said')
  BY SayKeeps
<1>2. /\ loggers = [line |-> line, group |-> group]
      /\ SoundLogger(line, said') /\ SoundLogger(group, said')
  BY <1>1 DEF LogInv
<1> HIDE DEF line, group
<1>3. /\ loggers' = [line |-> loggers'.line, group |-> loggers'.group]
      /\ loggers'.line \in {line, new} /\ loggers'.group \in {group, new}
  BY <1>2
<1>4. SoundLogger(loggers'.line, said') /\ SoundLogger(loggers'.group, said')
  BY <1>2, <1>3
<1>5. scopes' = scopes /\ log' = log
  OBVIOUS
<1> QED  BY <1>1, <1>3, <1>4, <1>5 DEF LogInv

\* Levels and calls of the application are of their types.
LEMMA InputsTyped ==
  /\ \A lvl \in LogLevels : lvl \in 0 .. 5
  /\ \A call \in Calls : call \in CallSet
  /\ kLevelAll \in 0 .. 5 /\ kLevelFatal \in 0 .. 5
BY LogAssumption DEF CallSet, kLevelAll, kLevelFatal

\* Calls of the application fit, and so do those of << and >>.
LEMMA CallsFit ==
  /\ \A call \in Calls : Fits(call)
  /\ \A value \in {"value", "NULL"} : StreamCall(value) \in CallSet
<1>1. ASSUME NEW call \in Calls PROVE Fits(call)
  BY LogAssumption DEF Fits, CallSet
<1>2. \A value \in {"value", "NULL"} : StreamCall(value) \in CallSet
  BY StreamResult, 0 \in Nat
<1> QED  BY <1>1, <1>2

\* A statement of its own keeps the invariant.
LEMMA xlogger2Keeps ==
  ASSUME LogInv, NEW lvl \in LogLevels, NEW call \in Calls, xlogger2(lvl, call)
  PROVE  LogInv'
<1> DEFINE entry  == [call |-> call, level |-> lvl, by |-> "logger"]
           result == Routed(call, NextCall, TRUE)
           new    == With(XLogger(lvl), result, FALSE)
<1>1. lvl \in 0 .. 5 /\ call \in CallSet /\ said \in Seq(SaidSet)
  BY InputsTyped DEF LogInv
<1>2. Say(call, lvl, "logger") /\ loggers' = [loggers EXCEPT !.line = new] /\ UNCHANGED <<scopes, log>>
  BY DEF xlogger2
<1>3. /\ entry \in SaidSet /\ entry.level = lvl /\ said' = Append(said, entry)
      /\ NextCall = Len(said) + 1 /\ NextCall \in Nat
  BY <1>1, <1>2, SayKeeps
<1>4. Result(result, Len(said) + 1)
  BY <1>1, <1>3, RoutedResult
<1>5. SoundLogger(XLogger(lvl), said) /\ XLogger(lvl).level = lvl
  BY <1>1, XLoggerSound
<1> HIDE DEF entry, result
<1>6. entry.level <= XLogger(lvl).level
  BY <1>1, <1>3, <1>5
<1>7. SoundLogger(new, said')
  BY <1>1, <1>3, <1>4, <1>5, <1>6, WithSound
<1> HIDE DEF new
<1> QED  BY <1>1, <1>2, <1>7, LoggerChanges

\* So does an assertion, which is Fatal from the start.
LEMMA xassert2Keeps ==
  ASSUME LogInv, NEW call \in Calls, xassert2(call)
  PROVE  LogInv'
<1> DEFINE lvl    == kLevelFatal
           entry  == [call |-> call, level |-> lvl, by |-> "assert"]
           result == Routed(call, NextCall, TRUE)
           plain  == With(XLogger(lvl), result, FALSE)
           new    == [plain EXCEPT !.isassert = TRUE, !.exp = NextCall]
<1>1. lvl \in 0 .. 5 /\ call \in CallSet /\ said \in Seq(SaidSet)
  BY InputsTyped DEF LogInv
<1>2. Say(call, lvl, "assert") /\ loggers' = [loggers EXCEPT !.line = new] /\ UNCHANGED <<scopes, log>>
  BY DEF xassert2
<1> HIDE DEF lvl
<1>3. /\ entry \in SaidSet /\ entry.level = lvl /\ said' = Append(said, entry)
      /\ NextCall = Len(said) + 1 /\ NextCall \in Nat
  BY <1>1, <1>2, SayKeeps
<1>4. Result(result, Len(said) + 1)
  BY <1>1, <1>3, RoutedResult
<1>5. SoundLogger(XLogger(lvl), said) /\ XLogger(lvl).level = lvl
  BY <1>1, XLoggerSound
<1> HIDE DEF entry, result
<1>6. entry.level <= XLogger(lvl).level
  BY <1>1, <1>3, <1>5
<1>7. SoundLogger(plain, said')
  BY <1>1, <1>3, <1>4, <1>5, <1>6, WithSound
<1> HIDE DEF plain
<1>8. new \in LoggerSet /\ new.message = plain.message /\ new.level = plain.level
  BY <1>3, <1>7 DEF SoundLogger, LoggerSet
<1> HIDE DEF new
<1>9. SoundLogger(new, said')
  BY <1>7, <1>8 DEF SoundLogger
<1> QED  BY <1>1, <1>2, <1>9, LoggerChanges

\* A call on a logger that is there: of a group, or with << and >>.
LEMMA AppendKeeps ==
  ASSUME LogInv, NEW call \in CallSet, Say(call, kLevelAll, "logger"), NEW result,
         Result(result, NextCall), NEW front, UNCHANGED <<scopes, log>>,
         \/ loggers' = [loggers EXCEPT !.line = With(loggers.line, result, front)]
         \/ loggers' = [loggers EXCEPT !.group = With(loggers.group, result, front)]
  PROVE  LogInv'
<1> DEFINE entry == [call |-> call, level |-> kLevelAll, by |-> "logger"]
<1>1. said \in Seq(SaidSet) /\ kLevelAll \in 0 .. 5 /\ kLevelAll = 0
  BY DEF LogInv, kLevelAll
<1>2. /\ entry \in SaidSet /\ entry.level = kLevelAll /\ said' = Append(said, entry)
      /\ NextCall = Len(said) + 1 /\ NextCall \in Nat
  BY <1>1, SayKeeps
<1> HIDE DEF entry
<1>3. ASSUME NEW x, SoundLogger(x, said) PROVE SoundLogger(With(x, result, front), said')
  <2>1. x.level \in 0 .. 5
    BY <1>3 DEF SoundLogger, LoggerSet
  <2>2. entry.level <= x.level
    BY <1>1, <1>2, <2>1
  <2> QED  BY <1>1, <1>2, <1>3, <2>2, WithSound
<1>4. SoundLogger(With(loggers.line, result, front), said')
      /\ SoundLogger(With(loggers.group, result, front), said')
  BY <1>3 DEF LogInv
<1>5. CASE loggers' = [loggers EXCEPT !.line = With(loggers.line, result, front)]
  BY <1>1, <1>4, <1>5, LoggerChanges
<1>6. CASE loggers' = [loggers EXCEPT !.group = With(loggers.group, result, front)]
  BY <1>1, <1>4, <1>6, LoggerChanges
<1> QED  BY <1>5, <1>6

\* So does a call on a group.
LEMMA GroupCallKeeps ==
  ASSUME LogInv, NEW call \in Calls, GroupCall(call)
  PROVE  LogInv'
<1> DEFINE form   == InGroup(call)
           result == Call(form, NextCall, TRUE)
<1>1. form \in CallSet /\ NextCall \in Nat
  BY CallsFit, InGroupFits DEF LogInv, NextCall
<1>2. /\ Say(form, kLevelAll, "logger") /\ UNCHANGED <<scopes, log>>
      /\ loggers' = [loggers EXCEPT !.group = With(loggers.group, result, FALSE)]
  BY DEF GroupCall
<1> HIDE DEF form
<1>3. Result(result, NextCall)
  BY <1>1, RoutedResult
<1> HIDE DEF result
<1> QED  BY <1>1, <1>2, <1>3, AppendKeeps

\* So do << and >>, on a line or on a group.
LEMMA StreamKeeps ==
  ASSUME LogInv, NEW which \in {"line", "group"}, NEW value \in {"value", "NULL"}, NEW front,
         Stream(which, value, front)
  PROVE  LogInv'
<1> DEFINE call   == StreamCall(value)
           result == Argument(call, NextCall, 0, TRUE)
<1>1. NextCall \in Nat
  BY DEF LogInv, NextCall
<1>2. call \in CallSet /\ Result(result, NextCall)
  BY <1>1, StreamResult
<1>3. /\ Say(call, kLevelAll, "logger") /\ UNCHANGED <<scopes, log>>
      /\ loggers' = [loggers EXCEPT ![which] = With(loggers[which], result, front)]
  BY DEF Stream
<1> HIDE DEF call, result
<1>4. \/ loggers' = [loggers EXCEPT !.line = With(loggers.line, result, front)]
      \/ loggers' = [loggers EXCEPT !.group = With(loggers.group, result, front)]
  BY <1>3
<1> QED  BY <1>2, <1>3, <1>4, AppendKeeps

\* One more entry, or none, in the log.
LEMMA LogGrows ==
  ASSUME log \in Seq(EntrySet), NEW s, \A n \in DOMAIN log : SoundEntry(log[n], s),
         NEW e, SoundEntry(e, s), log' \in {log, Append(log, e)}
  PROVE  log' \in Seq(EntrySet) /\ \A n \in DOMAIN log' : SoundEntry(log'[n], s)
<1>1. e \in EntrySet
  BY DEF SoundEntry
<1>2. CASE log' = log
  BY <1>2
<1>3. CASE log' = Append(log, e)
  <2>1. /\ log' \in Seq(EntrySet) /\ DOMAIN log' = DOMAIN log \cup {Len(log) + 1}
        /\ \A n \in DOMAIN log : log'[n] = log[n]
        /\ log'[Len(log) + 1] = e
    BY <1>1, <1>3
  <2> QED  BY <2>1
<1> QED  BY <1>2, <1>3

\* So does merging a line into a group.
LEMMA MergeKeeps ==
  ASSUME LogInv, MergeIntoGroup
  PROVE  LogInv'
<1> DEFINE source == Merged(loggers.group, loggers.line).source
           target == Merged(loggers.group, loggers.line).target
<1>1. SoundLogger(source, said) /\ SoundLogger(target, said)
  BY MergedSound DEF LogInv
<1>2. loggers' = [line |-> source, group |-> target] /\ UNCHANGED <<scopes, log, said>>
  BY DEF MergeIntoGroup
<1> HIDE DEF source, target
<1>3. loggers' = [line |-> loggers'.line, group |-> loggers'.group]
      /\ loggers'.line = source /\ loggers'.group = target
  BY <1>2
<1> QED  BY <1>1, <1>2, <1>3 DEF LogInv

\* So does making a group.
LEMMA DefineKeeps ==
  ASSUME LogInv, xgroup2_define
  PROVE  LogInv'
<1> DEFINE new == XLogger(kLevelAll)
<1>1. SoundLogger(new, said)
  BY XLoggerSound, InputsTyped
<1>2. loggers' = [loggers EXCEPT !.group = new] /\ UNCHANGED <<scopes, log, said>>
  BY DEF xgroup2_define
<1> HIDE DEF new
<1>3. loggers' = [line |-> loggers'.line, group |-> loggers'.group]
      /\ loggers'.line = loggers.line /\ loggers'.group = new
  BY <1>2 DEF LogInv
<1> QED  BY <1>1, <1>2, <1>3 DEF LogInv

\* So does the destructor, whether it writes a line or not.
LEMMA DestroyKeeps ==
  ASSUME LogInv, NEW which \in {"line", "group"}, Destroy(which)
  PROVE  LogInv'
<1> DEFINE x    == loggers[which]
           kind == IF x.isassert THEN "assert" ELSE "write"
           e    == Entry(kind, x.level, x.exp, CStr(x.message))
<1>1. SoundLogger(x, said)
  BY DEF LogInv
<1>2. log' \in {log, Append(log, e)} /\ UNCHANGED <<scopes, said>>
      /\ loggers' = [loggers EXCEPT ![which] = NoLogger]
  BY DEF Destroy
<1> HIDE DEF x
<1>3. x.message \in Seq(Text) /\ SoundIn(said, x.message, x.level) /\ x.level \in 0 .. 5 /\ x.exp \in Nat
  BY <1>1 DEF SoundLogger, LoggerSet
<1> DEFINE text == CStr(x.message)
<1>4. text \in Seq(Text) /\ SoundIn(said, text, x.level)
  BY <1>3, CStrSound
<1>5. kind \in {"write", "assert"}
  OBVIOUS
<1> HIDE DEF text, kind
<1>6. e \in EntrySet /\ e.message = text /\ e.level = x.level
  BY <1>3, <1>4, <1>5 DEF Entry, EntrySet, text
<1> HIDE DEF e
<1>7. SoundEntry(e, said)
  BY <1>4, <1>6 DEF SoundEntry
<1>8. log' \in Seq(EntrySet) /\ \A n \in DOMAIN log' : SoundEntry(log'[n], said)
  BY <1>2, <1>7, LogGrows DEF LogInv
<1>9. NoLogger \in LoggerSet /\ NoLogger.message = << >>
  BY DEF NoLogger, LoggerSet, kLevelAll
<1>10. SoundLogger(NoLogger, said)
  BY <1>9 DEF SoundLogger, SoundIn
<1>11. /\ loggers' = [line |-> loggers'.line, group |-> loggers'.group]
       /\ loggers'.line \in {loggers.line, NoLogger} /\ loggers'.group \in {loggers.group, NoLogger}
  BY <1>2 DEF LogInv
<1>12. SoundLogger(loggers'.line, said) /\ SoundLogger(loggers'.group, said)
  BY <1>10, <1>11 DEF LogInv
<1> QED  BY <1>2, <1>8, <1>11, <1>12 DEF LogInv

\* So does a tracer that is made, enabled or not.
LEMMA EnterKeeps ==
  ASSUME LogInv, NEW lvl \in LogLevels, NEW call \in Calls, EnterScope(lvl, call)
  PROVE  LogInv'
<1> DEFINE result  == Routed(call, NextCall, FALSE)
           enabled == IsEnabledFor(lvl)
           e       == Entry("enter", lvl, NextCall, result.pieces)
           new     == [scope |-> NextCall, enable |-> enabled, level |-> lvl, exitmsg |-> << >>]
<1>1. lvl \in 0 .. 5 /\ call \in CallSet
  BY InputsTyped
<1>2. /\ Say(call, lvl, "tracer") /\ UNCHANGED loggers
      /\ scopes' = Append(scopes, new)
      /\ log' \in {log, Append(log, e)}
  BY DEF EnterScope
<1>3. /\ said' \in Seq(SaidSet) /\ NextCall \in Nat
      /\ \A x : SoundLogger(x, said) => SoundLogger(x, said')
      /\ \A x : SoundEntry(x, said) => SoundEntry(x, said')
  BY <1>1, <1>2, SayKeeps
<1>4. Result(result, NextCall)
  BY <1>1, <1>3, RoutedResult
<1> DEFINE text == result.pieces
<1>5. text \in Seq(Text)
  <2> HIDE DEF result
  <2>1. text \in Seq(TextOf(NextCall))
    BY <1>4 DEF Result
  <2> QED  BY <2>1 DEF TextOf
<1> HIDE DEF text
<1>6. SoundEntry(e, said')
  <2>1. e \in EntrySet /\ ~ IsLine(e)
    BY <1>1, <1>3, <1>5 DEF Entry, EntrySet, IsLine, text
  <2> HIDE DEF e
  <2> QED  BY <2>1 DEF SoundEntry
<1>7. log' \in Seq(EntrySet) /\ \A n \in DOMAIN log' : SoundEntry(log'[n], said')
  <2> HIDE DEF e
  <2>1. \A n \in DOMAIN log : SoundEntry(log[n], said')
    BY <1>3 DEF LogInv
  <2>2. log \in Seq(EntrySet)
    BY DEF LogInv
  <2> QED  BY <1>2, <1>6, <2>1, <2>2, LogGrows
<1>8. scopes' \in Seq(ScopeSet)
  <2>1. enabled \in BOOLEAN
    BY DEF IsEnabledFor
  <2> HIDE DEF enabled
  <2>2. new \in ScopeSet
    BY <1>1, <1>3, <2>1 DEF ScopeSet
  <2> HIDE DEF new
  <2> QED  BY <1>2, <2>2 DEF LogInv
<1>9. loggers' = loggers /\ SoundLogger(loggers.line, said') /\ SoundLogger(loggers.group, said')
  BY <1>2, <1>3 DEF LogInv
<1> QED  BY <1>3, <1>7, <1>8, <1>9 DEF LogInv

\* So does a message for the exit of the innermost tracer.
LEMMA ExitMessageKeeps ==
  ASSUME LogInv, NEW call \in Calls, ExitMessage(call)
  PROVE  LogInv'
<1> DEFINE result == Routed(call, NextCall, FALSE)
           n      == Len(scopes)
           text   == result.pieces
<1>1. call \in CallSet /\ kLevelAll \in 0 .. 5
  BY InputsTyped
<1>2. /\ Say(call, kLevelAll, "tracer") /\ UNCHANGED <<loggers, log>> /\ scopes # << >>
      /\ scopes' = [scopes EXCEPT ![n].exitmsg = @ \o text]
  BY DEF ExitMessage
<1>3. /\ said' \in Seq(SaidSet) /\ NextCall \in Nat
      /\ \A x : SoundLogger(x, said) => SoundLogger(x, said')
      /\ \A x : SoundEntry(x, said) => SoundEntry(x, said')
  BY <1>1, <1>2, SayKeeps
<1>4. Result(result, NextCall)
  BY <1>1, <1>3, RoutedResult
<1>5. text \in Seq(Text)
  <2> HIDE DEF result
  <2>1. text \in Seq(TextOf(NextCall))
    BY <1>4 DEF Result
  <2> QED  BY <2>1 DEF TextOf
<1> HIDE DEF text
<1>6. scopes' \in Seq(ScopeSet)
  <2>1. scopes \in Seq(ScopeSet) /\ n \in DOMAIN scopes /\ n \in Nat /\ DOMAIN scopes = 1 .. n
    BY <1>2 DEF LogInv
  <2>2. scopes[n] \in ScopeSet /\ scopes[n].exitmsg \o text \in Seq(Text)
    <3>1. scopes[n] \in ScopeSet
      BY <2>1
    <3>2. scopes[n].exitmsg \in Seq(Text)
      BY <3>1 DEF ScopeSet
    <3> HIDE DEF n
    <3> QED  BY <1>5, <3>1, <3>2
  <2> DEFINE longer == scopes[n].exitmsg \o text
             new    == [scopes[n] EXCEPT !.exitmsg = longer]
  <2>3. scopes' = [scopes EXCEPT ![n] = new]
    BY <1>2
  <2>4. new \in ScopeSet
    <3> HIDE DEF longer
    <3> QED  BY <2>2 DEF ScopeSet, longer
  <2> HIDE DEF new, n
  <2> QED  BY <2>1, <2>3, <2>4
<1>7. loggers' = loggers /\ SoundLogger(loggers.line, said') /\ SoundLogger(loggers.group, said')
  BY <1>2, <1>3 DEF LogInv
<1>8. log' = log /\ log \in Seq(EntrySet) /\ \A m \in DOMAIN log : SoundEntry(log[m], said')
  BY <1>2, <1>3 DEF LogInv
<1> QED  BY <1>3, <1>6, <1>7, <1>8 DEF LogInv

\* So does a tracer that goes.
LEMMA LeaveKeeps ==
  ASSUME LogInv, LeaveScope
  PROVE  LogInv'
<1> DEFINE n   == Len(scopes)
           top == scopes[n]
           e   == Entry("leave", top.level, top.scope, top.exitmsg)
<1>1. /\ scopes # << >> /\ UNCHANGED <<loggers, said>> /\ scopes' = SubSeq(scopes, 1, n - 1)
      /\ log' \in {log, Append(log, e)}
  BY DEF LeaveScope
<1>2. scopes \in Seq(ScopeSet) /\ n \in Nat /\ n \in DOMAIN scopes
  BY <1>1 DEF LogInv
<1>3. top \in ScopeSet
  BY <1>2
<1>4. scopes' \in Seq(ScopeSet)
  BY <1>1, <1>2, SubSeqProperties
<1>5. SoundEntry(e, said)
  <2> HIDE DEF top
  <2>1. e \in EntrySet /\ ~ IsLine(e)
    BY <1>3 DEF Entry, EntrySet, ScopeSet, IsLine
  <2> HIDE DEF e
  <2> QED  BY <2>1 DEF SoundEntry
<1> HIDE DEF e
<1>6. log' \in Seq(EntrySet) /\ \A m \in DOMAIN log' : SoundEntry(log'[m], said)
  BY <1>1, <1>5, LogGrows DEF LogInv
<1> QED  BY <1>1, <1>4, <1>6 DEF LogInv

\* Every step of the log statements keeps the invariant.
LEMMA LogStep == LogInv /\ [LogNext]_logVars => LogInv'
<1> SUFFICES ASSUME LogInv, [LogNext]_logVars PROVE LogInv'
  OBVIOUS
<1>1. ASSUME NEW lvl \in LogLevels, xlogger_SetLevel(lvl) PROVE LogInv'
  BY <1>1 DEF xlogger_SetLevel, LogInv
<1>2. CASE xgroup2_define
  BY <1>2, DefineKeeps
<1>3. ASSUME NEW lvl \in LogLevels, NEW call \in Calls, xlogger2(lvl, call) PROVE LogInv'
  BY <1>3, xlogger2Keeps
<1>4. ASSUME NEW lvl \in LogLevels, NEW call \in Calls, EnterScope(lvl, call) PROVE LogInv'
  BY <1>4, EnterKeeps
<1>5. ASSUME NEW call \in Calls, xassert2(call) PROVE LogInv'
  BY <1>5, xassert2Keeps
<1>6. ASSUME NEW call \in Calls, GroupCall(call) PROVE LogInv'
  BY <1>6, GroupCallKeeps
<1>7. ASSUME NEW call \in Calls, ExitMessage(call) PROVE LogInv'
  BY <1>7, ExitMessageKeeps
<1>8. ASSUME NEW which \in {"line", "group"}, NEW value \in {"value", "NULL"}, NEW front \in BOOLEAN,
             Stream(which, value, front)
      PROVE  LogInv'
  BY <1>8, StreamKeeps
<1>9. ASSUME NEW which \in {"line", "group"}, Destroy(which) PROVE LogInv'
  BY <1>9, DestroyKeeps
<1>10. CASE MergeIntoGroup
  BY <1>10, MergeKeeps
<1>11. CASE LeaveScope
  BY <1>11, LeaveKeeps
<1>12. CASE UNCHANGED logVars
  BY <1>12 DEF logVars, LogInv
<1> QED  BY <1>1, <1>2, <1>3, <1>4, <1>5, <1>6, <1>7, <1>8, <1>9, <1>10, <1>11, <1>12, Zenon DEF LogNext

\* Loggers and written lines are at least as severe as all that was said in them,
\* and every statement, logger, tracer and entry has its type.
THEOREM LogInductive == LogSpec => []LogInv
<1> QED  BY LogInitially, LogStep, PTL DEF LogSpec

\* A line is as severe as what was merged into it and Fatal if a statement in it
\* misused the logger, for any statements, formats and merges.
THEOREM LineLevelAlways == LogSpec => []LineLevel
<1>1. LogInv => LineLevel
  <2> SUFFICES ASSUME LogInv, NEW n \in DOMAIN log, IsLine(log[n]), NEW p \in DOMAIN log[n].message
               PROVE  /\ log[n].level >= said[log[n].message[p].of].level
                      /\ log[n].message[p].what = "misuse" => log[n].level = kLevelFatal
    BY DEF LineLevel
  <2> DEFINE piece == log[n].message[p]
  <2>1. log[n] \in EntrySet /\ SoundIn(said, log[n].message, log[n].level)
    BY DEF LogInv, SoundEntry
  <2>2. piece.of \in DOMAIN said /\ said[piece.of].level <= log[n].level
        /\ (piece.what = "misuse" => log[n].level = kLevelFatal)
    BY <2>1 DEF SoundIn
  <2> HIDE DEF piece
  <2>3. said[piece.of] \in SaidSet
    BY <2>2 DEF LogInv
  <2>4. said[piece.of].level \in 0 .. 5 /\ log[n].level \in 0 .. 5
    BY <2>1, <2>3 DEF EntrySet, SaidSet
  <2> QED  BY <2>2, <2>4 DEF piece
<1> QED  BY <1>1, LogInductive, PTL

-----------------------------------------------------------------------------
(* Log statements: the tracers of a log l and a stack s, when count         *)
(* statements were made.  A tracer is named by the number of its statement. *)

EnterAt(l, n)   == n \in DOMAIN l /\ l[n].kind = "enter"
LeaveAt(l, n)   == n \in DOMAIN l /\ l[n].kind = "leave"
MarkAt(l, n)    == EnterAt(l, n) \/ LeaveAt(l, n)
TracerAt(l, n)  == l[n].exp
OnStack(s, k)   == \E i \in DOMAIN s : s[i].scope = k

\* Tracers are numbered as they are made, and the stack has them in order.
Stacked(s, count) ==
  /\ \A i \in DOMAIN s : s[i].scope \in 1 .. count
  /\ \A i, j \in DOMAIN s : i < j => s[i].scope < s[j].scope
Numbered(l, count) == \A n \in Nat : MarkAt(l, n) => TracerAt(l, n) \in 1 .. count
Ascending(l) ==
  \A n, m \in Nat : EnterAt(l, n) /\ EnterAt(l, m) /\ n < m => TracerAt(l, n) < TracerAt(l, m)

\* A line of leaving comes after one of entering, which a tracer on the stack has
\* if it is enabled, and then it has no line of leaving; others have one.
Balanced(l) ==
  \A x \in Nat : LeaveAt(l, x) =>
    \E e \in Nat : e < x /\ EnterAt(l, e) /\ TracerAt(l, e) = TracerAt(l, x)
Enabled(l, s) ==
  \A i \in DOMAIN s :
    s[i].enable <=> \E e \in Nat : EnterAt(l, e) /\ TracerAt(l, e) = s[i].scope
StillOpen(l, s) ==
  \A e \in Nat : EnterAt(l, e) =>
    (OnStack(s, TracerAt(l, e)) <=>
       ~ \E x \in Nat : LeaveAt(l, x) /\ TracerAt(l, x) = TracerAt(l, e))

\* Whatever has a line after the entry of a tracer on the stack has none before.
Inside(l, s) ==
  \A e, m, o \in Nat :
    /\ EnterAt(l, e) /\ OnStack(s, TracerAt(l, e)) /\ e < m
    /\ MarkAt(l, m) /\ MarkAt(l, o) /\ TracerAt(l, o) = TracerAt(l, m)
    => e < o
\* What has a line between those of a tracer that went is gone, and has all of
\* its lines there.
Nested(l, s) ==
  \A e, x, m, o \in Nat :
    /\ EnterAt(l, e) /\ LeaveAt(l, x) /\ TracerAt(l, x) = TracerAt(l, e)
    /\ e < m /\ m < x
    /\ MarkAt(l, m) /\ MarkAt(l, o) /\ TracerAt(l, o) = TracerAt(l, m)
    => ~ OnStack(s, TracerAt(l, m)) /\ e < o /\ o < x

Paired(l, s, count) ==
  /\ Stacked(s, count) /\ Numbered(l, count) /\ Ascending(l)
  /\ Balanced(l) /\ Enabled(l, s) /\ StillOpen(l, s)
  /\ Inside(l, s) /\ Nested(l, s)

\* What an entry adds to the lines of tracers.
LEMMA MarksAdded ==
  ASSUME NEW l \in Seq(EntrySet), NEW e \in EntrySet, NEW t, t = Append(l, e)
  PROVE  /\ \A n \in Nat : EnterAt(t, n) <=> EnterAt(l, n) \/ (n = Len(l) + 1 /\ e.kind = "enter")
         /\ \A n \in Nat : LeaveAt(t, n) <=> LeaveAt(l, n) \/ (n = Len(l) + 1 /\ e.kind = "leave")
         /\ \A n \in Nat : MarkAt(l, n) => n < Len(l) + 1 /\ TracerAt(t, n) = TracerAt(l, n)
         /\ TracerAt(t, Len(l) + 1) = e.exp
<1>1. /\ DOMAIN t = 1 .. Len(l) + 1 /\ DOMAIN l = 1 .. Len(l) /\ Len(l) \in Nat
      /\ \A n \in 1 .. Len(l) : t[n] = l[n]
      /\ t[Len(l) + 1] = e
  OBVIOUS
<1> HIDE DEF EntrySet
<1>2. \A n \in Nat : n \in DOMAIN t <=> n \in DOMAIN l \/ n = Len(l) + 1
  BY <1>1
<1>3. \A n \in Nat : n \in DOMAIN l => n < Len(l) + 1 /\ t[n] = l[n]
  BY <1>1
<1>4. Len(l) + 1 \notin DOMAIN l /\ t[Len(l) + 1] = e
  BY <1>1
<1> QED  BY <1>2, <1>3, <1>4 DEF EnterAt, LeaveAt, MarkAt, TracerAt

\* Two logs with the same lines of tracers, two stacks of the same tracers.
LEMMA PairedSame ==
  ASSUME NEW l, NEW t, NEW s, NEW r, NEW count \in Nat, NEW more \in Nat, Paired(l, s, count),
         count <= more,
         \A n \in Nat : EnterAt(t, n) <=> EnterAt(l, n),
         \A n \in Nat : LeaveAt(t, n) <=> LeaveAt(l, n),
         \A n \in Nat : MarkAt(l, n) => TracerAt(t, n) = TracerAt(l, n),
         DOMAIN r = DOMAIN s,
         \A i \in DOMAIN s : r[i].scope = s[i].scope /\ (r[i].enable <=> s[i].enable)
  PROVE  Paired(t, r, more)
<1>1. \A k : OnStack(r, k) <=> OnStack(s, k)
  BY DEF OnStack
<1>2. \A n \in Nat : MarkAt(t, n) <=> MarkAt(l, n)
  BY DEF MarkAt
<1>3. Stacked(r, more)
  <2>1. Stacked(s, count)
    BY DEF Paired
  <2> QED  BY <2>1 DEF Stacked
<1>4. Numbered(t, more) /\ Ascending(t)
  BY <1>2 DEF Paired, Numbered, Ascending, MarkAt
<1>5. Balanced(t)
  BY DEF Paired, Balanced, MarkAt
<1>6. Enabled(t, r)
  BY DEF Paired, Enabled, MarkAt
<1>7. StillOpen(t, r)
  BY <1>1 DEF Paired, StillOpen, MarkAt
<1>8. Inside(t, r)
  BY <1>1, <1>2 DEF Paired, Inside, MarkAt
<1>9. Nested(t, r)
  BY <1>1, <1>2 DEF Paired, Nested, MarkAt
<1> QED  BY <1>3, <1>4, <1>5, <1>6, <1>7, <1>8, <1>9 DEF Paired

\* A tracer is made: a new number on top of the stack, which enters or not.
LEMMA PairedEnter ==
  ASSUME NEW l \in Seq(EntrySet), NEW s \in Seq(ScopeSet), NEW count \in Nat, Paired(l, s, count),
         NEW new \in ScopeSet, new.scope = count + 1,
         NEW e \in EntrySet, e.kind = "enter", e.exp = count + 1,
         NEW t, t = IF new.enable THEN Append(l, e) ELSE l
  PROVE  Paired(t, Append(s, new), count + 1)
<1> DEFINE k == count + 1
           y == Len(l) + 1
           r == Append(s, new)
<1>1. /\ DOMAIN r = DOMAIN s \cup {Len(s) + 1} /\ Len(s) + 1 \notin DOMAIN s
      /\ \A i \in DOMAIN s : r[i] = s[i] /\ i \in Nat /\ i < Len(s) + 1
      /\ r[Len(s) + 1] = new /\ Len(s) \in Nat
  OBVIOUS
<1>2. y \in Nat /\ k \in Nat /\ count < k
  OBVIOUS
<1>3. \A i \in DOMAIN s : s[i].scope \in 1 .. count
  BY DEF Paired, Stacked
<1>4. \A q : OnStack(r, q) <=> OnStack(s, q) \/ q = k
  <2> HIDE DEF r
  <2> QED  BY <1>1 DEF OnStack
<1>5. \A n \in Nat : MarkAt(l, n) => TracerAt(l, n) \in 1 .. count
  BY DEF Paired, Numbered
<1>6. Stacked(r, k)
  <2> HIDE DEF r
  <2>1. \A i \in DOMAIN r : r[i].scope \in 1 .. k
    BY <1>1, <1>3
  <2>2. ASSUME NEW i \in DOMAIN r, NEW j \in DOMAIN r, i < j PROVE r[i].scope < r[j].scope
    <3>1. i \in DOMAIN s
      BY <1>1, <2>2
    <3>2. CASE j \in DOMAIN s
      BY <1>1, <2>2, <3>1, <3>2 DEF Paired, Stacked
    <3>3. CASE j = Len(s) + 1
      BY <1>1, <1>3, <3>1, <3>3
    <3> QED  BY <1>1, <3>2, <3>3
  <2> QED  BY <2>1, <2>2 DEF Stacked
<1> DEFINE NoneYet == \A n \in Nat : MarkAt(l, n) => TracerAt(l, n) # k /\ TracerAt(l, n) \in 1 .. k
<1>7. NoneYet
  BY <1>5
<1>8. CASE ~ new.enable
  <2>1. t = l
    BY <1>8
  <2>2. Enabled(l, r)
    <3> SUFFICES ASSUME NEW i \in DOMAIN r
                 PROVE  r[i].enable <=> \E n \in Nat : EnterAt(l, n) /\ TracerAt(l, n) = r[i].scope
      BY DEF Enabled
    <3> HIDE DEF r, k
    <3>1. CASE i \in DOMAIN s
      BY <1>1, <3>1 DEF Paired, Enabled
    <3>2. CASE i = Len(s) + 1
      BY <1>1, <1>7, <1>8, <3>2 DEF MarkAt, k
    <3> QED  BY <1>1, <3>1, <3>2
  <2> HIDE DEF r, k
  <2>3. \A n \in Nat : MarkAt(l, n) => (OnStack(r, TracerAt(l, n)) <=> OnStack(s, TracerAt(l, n)))
    BY <1>4, <1>7
  <2>4. Numbered(l, k) /\ Ascending(l) /\ Balanced(l)
    BY <1>7 DEF Numbered, Paired
  <2>5. StillOpen(l, r)
    BY <2>3 DEF Paired, StillOpen, MarkAt
  <2>6. Inside(l, r)
    BY <2>3 DEF Paired, Inside, MarkAt
  <2>7. Nested(l, r)
    BY <2>3 DEF Paired, Nested
  <2> QED  BY <1>6, <2>1, <2>2, <2>4, <2>5, <2>6, <2>7 DEF Paired, r, k
<1>9. CASE new.enable
  <2>1. t = Append(l, e)
    BY <1>9
  <2>2. /\ \A n \in Nat : EnterAt(t, n) <=> EnterAt(l, n) \/ n = y
        /\ \A n \in Nat : LeaveAt(t, n) <=> LeaveAt(l, n)
        /\ \A n \in Nat : MarkAt(l, n) => n < y /\ TracerAt(t, n) = TracerAt(l, n)
        /\ TracerAt(t, y) = k
    BY <2>1, MarksAdded
  <2> HIDE DEF r, k, y
  <2>3. \A n \in Nat : MarkAt(t, n) <=> MarkAt(l, n) \/ n = y
    BY <2>2 DEF MarkAt
  <2>4. \A n \in Nat : MarkAt(l, n) => (OnStack(r, TracerAt(l, n)) <=> OnStack(s, TracerAt(l, n)))
    BY <1>4, <1>7
  <2>5. OnStack(r, k) /\ \A n \in Nat : MarkAt(l, n) => TracerAt(t, n) # k
    BY <1>4, <1>7, <2>2
  <2>6. Numbered(t, k)
    BY <1>2, <1>7, <2>2, <2>3 DEF Numbered
  <2>7. Ascending(t)
    <3> SUFFICES ASSUME NEW n \in Nat, NEW m \in Nat, EnterAt(t, n), EnterAt(t, m), n < m
                 PROVE  TracerAt(t, n) < TracerAt(t, m)
      BY DEF Ascending
    <3>1. EnterAt(l, n)
      BY <1>2, <2>2 DEF MarkAt
    <3>2. CASE m = y
      BY <1>2, <1>5, <2>2, <3>1, <3>2 DEF MarkAt, k
    <3>3. CASE EnterAt(l, m)
      BY <2>2, <3>1, <3>3 DEF Paired, Ascending, MarkAt
    <3> QED  BY <2>2, <3>2, <3>3
  <2>8. Balanced(t)
    BY <2>2 DEF Paired, Balanced, MarkAt
  <2>9. Enabled(t, r)
    <3> SUFFICES ASSUME NEW i \in DOMAIN r
                 PROVE  r[i].enable <=> \E n \in Nat : EnterAt(t, n) /\ TracerAt(t, n) = r[i].scope
      BY DEF Enabled
    <3>1. CASE i \in DOMAIN s
      <4>1. r[i] = s[i] /\ r[i].scope # k
        BY <1>1, <1>2, <1>3, <3>1
      <4>2. s[i].enable <=> \E n \in Nat : EnterAt(l, n) /\ TracerAt(l, n) = s[i].scope
        BY <3>1 DEF Paired, Enabled
      <4> QED  BY <2>2, <4>1, <4>2 DEF MarkAt
    <3>2. CASE i = Len(s) + 1
      BY <1>1, <1>2, <1>9, <2>2, <3>2 DEF k
    <3> QED  BY <1>1, <3>1, <3>2
  <2>10. StillOpen(t, r)
    <3> SUFFICES ASSUME NEW n \in Nat, EnterAt(t, n)
                 PROVE  OnStack(r, TracerAt(t, n)) <=>
                          ~ \E x \in Nat : LeaveAt(t, x) /\ TracerAt(t, x) = TracerAt(t, n)
      BY DEF StillOpen
    <3>1. CASE EnterAt(l, n)
      BY <2>2, <2>4, <3>1 DEF Paired, StillOpen, MarkAt
    <3>2. CASE n = y
      BY <2>2, <2>5, <3>2 DEF MarkAt
    <3> QED  BY <2>2, <3>1, <3>2
  <2>11. Inside(t, r)
    <3> SUFFICES ASSUME NEW n \in Nat, NEW m \in Nat, NEW o \in Nat,
                        EnterAt(t, n), OnStack(r, TracerAt(t, n)), n < m,
                        MarkAt(t, m), MarkAt(t, o), TracerAt(t, o) = TracerAt(t, m)
                 PROVE  n < o
      BY DEF Inside
    <3>1. EnterAt(l, n) /\ MarkAt(l, n)
      BY <1>2, <2>2, <2>3 DEF MarkAt
    <3>2. CASE o = y
      BY <2>2, <3>1, <3>2
    <3>3. CASE MarkAt(l, o)
      <4>1. MarkAt(l, m)
        BY <2>2, <2>3, <2>5, <3>3
      <4> QED  BY <2>2, <2>4, <3>1, <3>3, <4>1 DEF Paired, Inside
    <3> QED  BY <2>3, <3>2, <3>3
  <2>12. Nested(t, r)
    <3> SUFFICES ASSUME NEW n \in Nat, NEW x \in Nat, NEW m \in Nat, NEW o \in Nat,
                        EnterAt(t, n), LeaveAt(t, x), TracerAt(t, x) = TracerAt(t, n),
                        n < m, m < x,
                        MarkAt(t, m), MarkAt(t, o), TracerAt(t, o) = TracerAt(t, m)
                 PROVE  ~ OnStack(r, TracerAt(t, m)) /\ n < o /\ o < x
      BY DEF Nested
    <3>1. LeaveAt(l, x) /\ MarkAt(l, x) /\ x < y
      BY <2>2 DEF MarkAt
    <3>2. EnterAt(l, n) /\ MarkAt(l, n)
      BY <2>2, <2>5, <3>1 DEF MarkAt
    <3>3. MarkAt(l, m)
      BY <1>2, <2>3, <3>1
    <3>4. MarkAt(l, o)
      BY <2>2, <2>3, <2>5, <3>3
    <3> QED  BY <2>2, <2>4, <3>1, <3>2, <3>3, <3>4 DEF Paired, Nested
  <2> QED  BY <1>6, <2>6, <2>7, <2>8, <2>9, <2>10, <2>11, <2>12 DEF Paired, r, k
<1> QED  BY <1>8, <1>9

\* The innermost tracer goes, and leaves a line if it entered with one.
LEMMA PairedLeave ==
  ASSUME NEW l \in Seq(EntrySet), NEW s \in Seq(ScopeSet), NEW count \in Nat, Paired(l, s, count),
         s # << >>,
         NEW e \in EntrySet, e.kind = "leave", e.exp = s[Len(s)].scope,
         NEW t, t = IF s[Len(s)].enable THEN Append(l, e) ELSE l
  PROVE  Paired(t, SubSeq(s, 1, Len(s) - 1), count)
<1> DEFINE last == Len(s)
           k == s[last].scope
           y == Len(l) + 1
           r == SubSeq(s, 1, last - 1)
<1>1. /\ DOMAIN s = 1 .. last /\ last \in DOMAIN s /\ last \in Nat
      /\ DOMAIN r = 1 .. last - 1
      /\ \A i \in DOMAIN r : i \in DOMAIN s /\ r[i] = s[i] /\ i < last
  OBVIOUS
<1>2. \A i \in DOMAIN s : i = last \/ i \in DOMAIN r
  <2> HIDE DEF last, r
  <2> QED  BY <1>1
<1>3. k \in 1 .. count /\ y \in Nat
  BY <1>1 DEF Paired, Stacked
<1> HIDE DEF last, r, y
<1>4. \A i \in DOMAIN r : r[i].scope < k
  BY <1>1 DEF Paired, Stacked
<1>5. \A i \in DOMAIN s : s[i].scope \in 1 .. count
  BY DEF Paired, Stacked
<1>6. /\ OnStack(s, k) /\ ~ OnStack(r, k)
      /\ \A q : OnStack(r, q) => OnStack(s, q) /\ q < k /\ q \in 1 .. count
      /\ \A q : q # k => (OnStack(r, q) <=> OnStack(s, q))
  <2>1. OnStack(s, k)
    BY <1>1 DEF OnStack
  <2>2. ASSUME NEW q, OnStack(r, q) PROVE OnStack(s, q) /\ q < k /\ q \in 1 .. count /\ q # k
    <3>1. PICK i \in DOMAIN r : r[i].scope = q
      BY <2>2 DEF OnStack
    <3>2. i \in DOMAIN s /\ s[i].scope = q /\ q \in 1 .. count
      BY <1>1, <1>5, <3>1
    <3> HIDE DEF k
    <3>3. q < k /\ k \in 1 .. count
      BY <1>3, <1>4, <3>1
    <3> QED  BY <3>2, <3>3 DEF OnStack
  <2>3. ASSUME NEW q, OnStack(s, q), q # k PROVE OnStack(r, q)
    <3>1. PICK i \in DOMAIN s : s[i].scope = q
      BY <2>3 DEF OnStack
    <3>2. i # last
      BY <2>3, <3>1
    <3>3. i \in DOMAIN r /\ r[i] = s[i]
      BY <1>1, <1>2, <3>2
    <3> QED  BY <3>1, <3>3 DEF OnStack
  <2> QED  BY <2>1, <2>2, <2>3
<1>7. s[last].enable <=> \E n \in Nat : EnterAt(l, n) /\ TracerAt(l, n) = k
  BY <1>1 DEF Paired, Enabled
<1>8. Stacked(r, count)
  <2> HIDE DEF k
  <2>1. \A i \in DOMAIN r : r[i].scope \in 1 .. count
    BY <1>1, <1>5
  <2>2. \A i, j \in DOMAIN r : i < j => r[i].scope < r[j].scope
    BY <1>1 DEF Paired, Stacked
  <2> QED  BY <2>1, <2>2 DEF Stacked
<1>9. \A n \in Nat : MarkAt(l, n) => TracerAt(l, n) \in 1 .. count
  BY DEF Paired, Numbered
<1>10. \A i \in DOMAIN r :
         r[i].enable <=> \E n \in Nat : EnterAt(l, n) /\ TracerAt(l, n) = r[i].scope
  BY <1>1 DEF Paired, Enabled
<1> DEFINE top == s[last].enable
<1>11. t = IF top THEN Append(l, e) ELSE l
  BY DEF last
<1>12. e.exp = k
  BY DEF last
<1> HIDE DEF k, top
<1>13. CASE ~ top
  <2>1. t = l
    BY <1>11, <1>13
  <2>2. \A n \in Nat : MarkAt(l, n) => TracerAt(l, n) # k
    BY <1>7, <1>13 DEF MarkAt, Paired, Balanced, top
  <2>3. \A n \in Nat : MarkAt(l, n) => (OnStack(r, TracerAt(l, n)) <=> OnStack(s, TracerAt(l, n)))
    BY <1>6, <2>2
  <2>4. Numbered(l, count) /\ Ascending(l) /\ Balanced(l)
    BY DEF Paired
  <2>5. StillOpen(l, r)
    BY <2>3 DEF Paired, StillOpen, MarkAt
  <2>6. Inside(l, r)
    BY <2>3 DEF Paired, Inside, MarkAt
  <2>7. Nested(l, r)
    BY <2>3 DEF Paired, Nested
  <2>8. Enabled(l, r)
    BY <1>10 DEF Enabled
  <2> QED  BY <1>8, <2>1, <2>4, <2>5, <2>6, <2>7, <2>8 DEF Paired, r, last
<1>14. CASE top
  <2>1. t = Append(l, e)
    BY <1>11, <1>14
  <2>2. /\ \A n \in Nat : EnterAt(t, n) <=> EnterAt(l, n)
        /\ \A n \in Nat : LeaveAt(t, n) <=> LeaveAt(l, n) \/ n = y
        /\ \A n \in Nat : MarkAt(l, n) => n < y /\ TracerAt(t, n) = TracerAt(l, n)
        /\ TracerAt(t, y) = k
    <3>1. /\ \A n \in Nat : EnterAt(t, n) <=> EnterAt(l, n) \/ (n = Len(l) + 1 /\ e.kind = "enter")
          /\ \A n \in Nat : LeaveAt(t, n) <=> LeaveAt(l, n) \/ (n = Len(l) + 1 /\ e.kind = "leave")
          /\ \A n \in Nat : MarkAt(l, n) => n < Len(l) + 1 /\ TracerAt(t, n) = TracerAt(l, n)
          /\ TracerAt(t, Len(l) + 1) = e.exp
      BY <2>1, MarksAdded
    <3> QED  BY <1>12, <3>1 DEF y
  <2>3. \A n \in Nat : MarkAt(t, n) <=> MarkAt(l, n) \/ n = y
    BY <2>2 DEF MarkAt
  <2>4. PICK e0 \in Nat : EnterAt(l, e0) /\ TracerAt(l, e0) = k
    BY <1>7, <1>14 DEF top
  <2>5. \A n \in Nat : LeaveAt(l, n) => TracerAt(l, n) # k
    BY <1>6, <2>4 DEF Paired, StillOpen
  <2>6. \A n \in Nat : EnterAt(l, n) /\ TracerAt(l, n) = k => n = e0
    BY <1>3, <2>4 DEF Paired, Ascending
  <2>7. \A n \in Nat : MarkAt(l, n) /\ TracerAt(l, n) = k => n = e0
    BY <2>5, <2>6 DEF MarkAt
  <2>8. ASSUME NEW n \in Nat, EnterAt(l, n), OnStack(r, TracerAt(l, n)) PROVE n < e0
    <3>1. TracerAt(l, n) < k /\ TracerAt(l, n) \in 1 .. count
      BY <1>6, <2>8
    <3>2. ~ e0 < n /\ e0 # n
      BY <1>3, <2>4, <2>8, <3>1 DEF Paired, Ascending
    <3> QED  BY <3>2
  <2>9. Numbered(t, count)
    BY <1>3, <1>9, <2>2, <2>3 DEF Numbered
  <2>10. Ascending(t)
    BY <2>2 DEF Paired, Ascending, MarkAt
  <2>11. Balanced(t)
    <3> SUFFICES ASSUME NEW x \in Nat, LeaveAt(t, x)
                 PROVE  \E n \in Nat : n < x /\ EnterAt(t, n) /\ TracerAt(t, n) = TracerAt(t, x)
      BY DEF Balanced
    <3>1. CASE LeaveAt(l, x)
      BY <2>2, <3>1 DEF Paired, Balanced, MarkAt
    <3>2. CASE x = y
      BY <2>2, <2>4, <3>2 DEF MarkAt
    <3> QED  BY <2>2, <3>1, <3>2
  <2>12. Enabled(t, r)
    BY <1>10, <2>2 DEF Enabled, MarkAt
  <2>13. StillOpen(t, r)
    <3> SUFFICES ASSUME NEW n \in Nat, EnterAt(t, n)
                 PROVE  OnStack(r, TracerAt(t, n)) <=>
                          ~ \E x \in Nat : LeaveAt(t, x) /\ TracerAt(t, x) = TracerAt(t, n)
      BY DEF StillOpen
    <3>1. EnterAt(l, n) /\ MarkAt(l, n) /\ TracerAt(t, n) = TracerAt(l, n)
      BY <2>2 DEF MarkAt
    <3>2. CASE TracerAt(l, n) = k
      BY <1>3, <1>6, <2>2, <3>1, <3>2
    <3>3. CASE TracerAt(l, n) # k
      <4>1. OnStack(r, TracerAt(l, n)) <=> OnStack(s, TracerAt(l, n))
        BY <1>6, <3>3
      <4>2. OnStack(s, TracerAt(l, n)) <=>
              ~ \E x \in Nat : LeaveAt(l, x) /\ TracerAt(l, x) = TracerAt(l, n)
        BY <3>1 DEF Paired, StillOpen
      <4>3. \A x \in Nat : (LeaveAt(t, x) /\ TracerAt(t, x) = TracerAt(l, n))
                             <=> (LeaveAt(l, x) /\ TracerAt(l, x) = TracerAt(l, n))
        BY <2>2, <3>3 DEF MarkAt
      <4> QED  BY <3>1, <4>1, <4>2, <4>3
    <3> QED  BY <3>2, <3>3
  <2>14. Inside(t, r)
    <3> SUFFICES ASSUME NEW n \in Nat, NEW m \in Nat, NEW o \in Nat,
                        EnterAt(t, n), OnStack(r, TracerAt(t, n)), n < m,
                        MarkAt(t, m), MarkAt(t, o), TracerAt(t, o) = TracerAt(t, m)
                 PROVE  n < o
      BY DEF Inside
    <3>1. EnterAt(l, n) /\ MarkAt(l, n) /\ TracerAt(t, n) = TracerAt(l, n)
      BY <2>2 DEF MarkAt
    <3>2. n < y /\ n < e0
      BY <2>2, <2>8, <3>1
    <3>3. CASE o = y
      BY <3>2, <3>3
    <3>4. CASE MarkAt(l, o) /\ m = y
      BY <2>2, <2>7, <3>2, <3>4
    <3>5. CASE MarkAt(l, o) /\ MarkAt(l, m)
      <4>1. OnStack(s, TracerAt(l, n))
        BY <1>6, <3>1
      <4> QED  BY <2>2, <3>1, <3>5, <4>1 DEF Paired, Inside
    <3> QED  BY <2>3, <3>3, <3>4, <3>5
  <2>15. Nested(t, r)
    <3> SUFFICES ASSUME NEW n \in Nat, NEW x \in Nat, NEW m \in Nat, NEW o \in Nat,
                        EnterAt(t, n), LeaveAt(t, x), TracerAt(t, x) = TracerAt(t, n),
                        n < m, m < x,
                        MarkAt(t, m), MarkAt(t, o), TracerAt(t, o) = TracerAt(t, m)
                 PROVE  ~ OnStack(r, TracerAt(t, m)) /\ n < o /\ o < x
      BY DEF Nested
    <3>1. EnterAt(l, n) /\ MarkAt(l, n) /\ TracerAt(t, n) = TracerAt(l, n)
      BY <2>2 DEF MarkAt
    <3>2. x < y \/ x = y
      BY <2>2 DEF MarkAt
    <3>3. MarkAt(l, m) /\ TracerAt(t, m) = TracerAt(l, m)
      BY <1>3, <2>2, <2>3, <3>2
    <3>4. CASE LeaveAt(l, x)
      <4>1. MarkAt(l, x) /\ TracerAt(t, x) = TracerAt(l, x)
        BY <2>2, <3>4 DEF MarkAt
      <4>2. ~ OnStack(s, TracerAt(l, m))
        BY <3>1, <3>3, <3>4, <4>1 DEF Paired, Nested
      <4>3. TracerAt(l, m) # k
        BY <1>6, <4>2
      <4>4. MarkAt(l, o) /\ TracerAt(t, o) = TracerAt(l, o)
        BY <2>2, <2>3, <3>3, <4>3
      <4>5. n < o /\ o < x
        BY <3>1, <3>3, <3>4, <4>1, <4>4 DEF Paired, Nested
      <4> QED  BY <1>6, <3>3, <4>2, <4>5
    <3>5. CASE x = y
      <4>1. n = e0
        BY <2>2, <2>6, <3>1, <3>5
      <4>2. TracerAt(l, m) # k
        BY <2>7, <3>3, <4>1
      <4>3. MarkAt(l, o) /\ TracerAt(t, o) = TracerAt(l, o)
        BY <2>2, <2>3, <3>3, <4>2
      <4>4. \A j \in Nat : MarkAt(l, j) /\ TracerAt(l, j) = TracerAt(l, m) => e0 < j
        BY <1>6, <2>4, <3>3, <4>1 DEF Paired, Inside
      <4>5. n < o /\ o < x
        BY <2>2, <3>3, <3>5, <4>1, <4>3, <4>4
      <4>6. ASSUME OnStack(r, TracerAt(l, m)) PROVE FALSE
        <5>1. PICK j \in Nat : EnterAt(l, j) /\ TracerAt(l, j) = TracerAt(l, m)
          BY <3>3 DEF MarkAt, Paired, Balanced
        <5>2. j < e0
          BY <2>8, <4>6, <5>1
        <5>3. e0 < j
          BY <4>4, <5>1 DEF MarkAt
        <5> QED  BY <5>2, <5>3
      <4> QED  BY <3>3, <4>5, <4>6
    <3> QED  BY <2>2, <3>4, <3>5
  <2> QED  BY <1>8, <2>9, <2>10, <2>11, <2>12, <2>13, <2>14, <2>15 DEF Paired, r, last
<1> QED  BY <1>13, <1>14

ScopeInv == Paired(log, scopes, Len(said))

\* An empty log and an empty stack are paired.
LEMMA ScopeInitially == LogInit => ScopeInv
<1> SUFFICES ASSUME LogInit PROVE ScopeInv
  OBVIOUS
<1>1. log = << >> /\ scopes = << >> /\ said = << >>
  BY DEF LogInit
<1>2. DOMAIN log = {} /\ DOMAIN scopes = {}
  BY <1>1
<1>3. \A n : ~ EnterAt(log, n) /\ ~ LeaveAt(log, n) /\ ~ MarkAt(log, n)
  BY <1>2 DEF EnterAt, LeaveAt, MarkAt
<1> QED  BY <1>2, <1>3 DEF ScopeInv, Paired, Stacked, Numbered, Ascending, Balanced, Enabled,
                           StillOpen, Inside, Nested

\* Whatever is said, the number of statements does not fall.
LEMMA SaidLonger ==
  ASSUME LogInv, [LogNext]_logVars
  PROVE  Len(said) \in Nat /\ Len(said') \in Nat /\ Len(said) <= Len(said')
<1>1. said \in Seq(SaidSet)
  BY DEF LogInv
<1>2. said' = said \/ \E entry : said' = Append(said, entry)
  BY DEF LogNext, logVars, xlogger_SetLevel, xgroup2_define, xlogger2, EnterScope, xassert2,
         GroupCall, ExitMessage, Stream, Destroy, MergeIntoGroup, LeaveScope, Say
<1>3. CASE said' = said
  BY <1>1, <1>3
<1>4. ASSUME NEW entry, said' = Append(said, entry) PROVE Len(said') = Len(said) + 1
  BY <1>1, <1>4
<1> QED  BY <1>1, <1>2, <1>3, <1>4

NoTracer(t, l)  == t = l \/ \E e \in EntrySet : IsLine(e) /\ t = Append(l, e)
SameStack(r, s) ==
  /\ DOMAIN r = DOMAIN s
  /\ \A i \in DOMAIN s : r[i].scope = s[i].scope /\ (r[i].enable <=> s[i].enable)

\* A step that writes no line of a tracer and leaves the stack as it is, but for
\* the text of the innermost.
LEMMA QuietKeeps ==
  ASSUME LogInv, ScopeInv, [LogNext]_logVars,
         NoTracer(log', log), SameStack(scopes', scopes)
  PROVE  ScopeInv'
<1>1. Len(said) \in Nat /\ Len(said') \in Nat /\ Len(said) <= Len(said')
  BY SaidLonger
<1>2. log \in Seq(EntrySet)
  BY DEF LogInv
<1>3. /\ \A n \in Nat : EnterAt(log', n) <=> EnterAt(log, n)
      /\ \A n \in Nat : LeaveAt(log', n) <=> LeaveAt(log, n)
      /\ \A n \in Nat : MarkAt(log, n) => TracerAt(log', n) = TracerAt(log, n)
  <2>1. CASE log' = log
    BY <2>1
  <2>2. ASSUME NEW e \in EntrySet, IsLine(e), log' = Append(log, e)
        PROVE  /\ \A n \in Nat : EnterAt(log', n) <=> EnterAt(log, n)
               /\ \A n \in Nat : LeaveAt(log', n) <=> LeaveAt(log, n)
               /\ \A n \in Nat : MarkAt(log, n) => TracerAt(log', n) = TracerAt(log, n)
    <3>1. e.kind # "enter" /\ e.kind # "leave"
      BY <2>2 DEF IsLine
    <3>2. /\ \A n \in Nat : EnterAt(log', n) <=> EnterAt(log, n) \/ (n = Len(log) + 1 /\ e.kind = "enter")
          /\ \A n \in Nat : LeaveAt(log', n) <=> LeaveAt(log, n) \/ (n = Len(log) + 1 /\ e.kind = "leave")
          /\ \A n \in Nat : MarkAt(log, n) => n < Len(log) + 1 /\ TracerAt(log', n) = TracerAt(log, n)
      <4> DEFINE t == log'
      <4>1. t = Append(log, e)
        BY <2>2
      <4> HIDE DEF t
      <4>2. /\ \A n \in Nat : EnterAt(t, n) <=> EnterAt(log, n) \/ (n = Len(log) + 1 /\ e.kind = "enter")
            /\ \A n \in Nat : LeaveAt(t, n) <=> LeaveAt(log, n) \/ (n = Len(log) + 1 /\ e.kind = "leave")
            /\ \A n \in Nat : MarkAt(log, n) => n < Len(log) + 1 /\ TracerAt(t, n) = TracerAt(log, n)
        BY <1>2, <4>1, MarksAdded
      <4> QED  BY <4>2 DEF t
    <3> QED  BY <3>1, <3>2
  <2> QED  BY <2>1, <2>2 DEF NoTracer
<1> DEFINE t == log'
           r == scopes'
           more == Len(said')
<1>4. Paired(log, scopes, Len(said))
  BY DEF ScopeInv
<1> HIDE DEF t, r, more
<1>5. Paired(t, r, more)
  BY <1>1, <1>3, <1>4, PairedSame DEF t, r, more, SameStack
<1> QED  BY <1>5 DEF ScopeInv, t, r, more

\* Every step keeps the lines of tracers paired.
LEMMA ScopeStep == LogInv /\ ScopeInv /\ [LogNext]_logVars => ScopeInv'
<1> SUFFICES ASSUME LogInv, ScopeInv, [LogNext]_logVars PROVE ScopeInv'
  OBVIOUS
<1>1. CASE log' = log /\ scopes' = scopes
  BY <1>1, QuietKeeps DEF NoTracer, SameStack
<1>2. ASSUME NEW which \in {"line", "group"}, Destroy(which) PROVE ScopeInv'
  <2> DEFINE x    == loggers[which]
             kind == IF x.isassert THEN "assert" ELSE "write"
             e    == Entry(kind, x.level, x.exp, CStr(x.message))
  <2>1. scopes' = scopes /\ (log' = log \/ log' = Append(log, e))
    BY <1>2 DEF Destroy
  <2>2. e.kind \in {"write", "assert"}
    BY DEF Entry
  <2> HIDE DEF e
  <2>3. LogInv'
    BY LogStep
  <2>4. CASE log' = Append(log, e)
    <3>1. e \in EntrySet
      <4>1. log' \in Seq(EntrySet) /\ Len(log') = Len(log) + 1 /\ log'[Len(log) + 1] = e
        BY <2>3, <2>4 DEF LogInv
      <4>2. Len(log) + 1 \in DOMAIN log'
        BY <4>1 DEF LogInv
      <4> QED  BY <4>1, <4>2
    <3> QED  BY <2>1, <2>2, <2>4, <3>1, QuietKeeps DEF IsLine, NoTracer, SameStack
  <2> QED  BY <1>1, <2>1, <2>4
<1>3. ASSUME NEW call \in Calls, ExitMessage(call) PROVE ScopeInv'
  <2> DEFINE n    == Len(scopes)
             text == scopes[n].exitmsg \o Routed(call, NextCall, FALSE).pieces
             top  == [scopes[n] EXCEPT !.exitmsg = text]
  <2>1. log' = log /\ scopes' = [scopes EXCEPT ![n] = top]
    BY <1>3 DEF ExitMessage
  <2>2. scopes \in Seq(ScopeSet)
    BY DEF LogInv
  <2> HIDE DEF text
  <2>3. n \in DOMAIN scopes => top.scope = scopes[n].scope /\ top.enable = scopes[n].enable
    BY <2>2 DEF ScopeSet
  <2> HIDE DEF top, n
  <2>4. /\ DOMAIN scopes' = DOMAIN scopes
        /\ \A i \in DOMAIN scopes :
             scopes'[i].scope = scopes[i].scope /\ scopes'[i].enable = scopes[i].enable
    BY <2>1, <2>2, <2>3
  <2> QED  BY <2>1, <2>4, QuietKeeps DEF NoTracer, SameStack
<1>4. ASSUME NEW lvl \in LogLevels, NEW call \in Calls, EnterScope(lvl, call) PROVE ScopeInv'
  <2> DEFINE enabled == IsEnabledFor(lvl)
             pieces  == Routed(call, NextCall, FALSE).pieces
             e       == Entry("enter", lvl, NextCall, pieces)
             new     == [scope |-> NextCall, enable |-> enabled, level |-> lvl, exitmsg |-> << >>]
             count   == Len(said)
  <2>1. /\ Say(call, lvl, "tracer") /\ scopes' = Append(scopes, new)
        /\ log' = IF enabled THEN Append(log, e) ELSE log
    BY <1>4 DEF EnterScope
  <2>2. lvl \in 0 .. 5 /\ call \in CallSet
    BY InputsTyped
  <2>3. said \in Seq(SaidSet) /\ count \in Nat /\ log \in Seq(EntrySet) /\ scopes \in Seq(ScopeSet)
    BY DEF LogInv
  <2>4. NextCall = count + 1 /\ Len(said') = count + 1
    BY <2>1, <2>3 DEF Say, NextCall
  <2>5. pieces \in Seq(Text)
    <3>1. NextCall \in Nat
      BY <2>3, <2>4
    <3>2. Result(Routed(call, NextCall, FALSE), NextCall)
      BY <2>2, <3>1, RoutedResult
    <3>3. pieces \in Seq(TextOf(NextCall))
      BY <3>2 DEF Result
    <3> HIDE DEF pieces
    <3> QED  BY <3>3 DEF TextOf
  <2>6. enabled \in BOOLEAN
    BY DEF IsEnabledFor
  <2> HIDE DEF pieces, enabled
  <2>7. e \in EntrySet /\ e.kind = "enter" /\ e.exp = count + 1
    BY <2>2, <2>3, <2>4, <2>5 DEF Entry, EntrySet
  <2>8. new \in ScopeSet /\ new.scope = count + 1 /\ new.enable = enabled
    BY <2>2, <2>3, <2>4, <2>6 DEF ScopeSet
  <2> HIDE DEF e, new, count
  <2>9. log' = IF new.enable THEN Append(log, e) ELSE log
    BY <2>1, <2>8
  <2>10. Paired(log, scopes, count)
    BY DEF ScopeInv, count
  <2> DEFINE t == log'
  <2>11. t = IF new.enable THEN Append(log, e) ELSE log
    BY <2>9
  <2> HIDE DEF t
  <2>12. Paired(t, Append(scopes, new), count + 1)
    BY <2>3, <2>7, <2>8, <2>10, <2>11, PairedEnter
  <2> QED  BY <2>1, <2>4, <2>12 DEF ScopeInv, t
<1>5. ASSUME LeaveScope PROVE ScopeInv'
  <2> DEFINE top   == scopes[Len(scopes)]
             e     == Entry("leave", top.level, top.scope, top.exitmsg)
             count == Len(said)
             t     == log'
  <2>1. /\ scopes # << >> /\ said' = said /\ scopes' = SubSeq(scopes, 1, Len(scopes) - 1)
        /\ t = IF top.enable THEN Append(log, e) ELSE log
    BY <1>5 DEF LeaveScope
  <2>2. count \in Nat /\ log \in Seq(EntrySet) /\ scopes \in Seq(ScopeSet)
    BY DEF LogInv
  <2>3. top \in ScopeSet
    BY <2>1, <2>2
  <2>4. e \in EntrySet /\ e.kind = "leave" /\ e.exp = top.scope
    <3> HIDE DEF top
    <3> QED  BY <2>3 DEF Entry, EntrySet, ScopeSet
  <2>5. Paired(log, scopes, count)
    BY DEF ScopeInv
  <2> HIDE DEF e, count, t
  <2>6. Paired(t, SubSeq(scopes, 1, Len(scopes) - 1), count)
    BY <2>1, <2>2, <2>4, <2>5, PairedLeave
  <2> QED  BY <2>1, <2>6 DEF ScopeInv, t, count
<1>6. \/ log' = log /\ scopes' = scopes
      \/ \E which \in {"line", "group"} : Destroy(which)
      \/ \E call \in Calls : ExitMessage(call)
      \/ \E lvl \in LogLevels, call \in Calls : EnterScope(lvl, call)
      \/ LeaveScope
  BY DEF LogNext, logVars, xlogger_SetLevel, xgroup2_define, xlogger2, xassert2,
         GroupCall, Stream, MergeIntoGroup
<1> QED  BY <1>1, <1>2, <1>3, <1>4, <1>5, <1>6

\* At any time the lines of entry and exit and the stack of tracers agree as Paired
\* says: numbers ascend, what is inside another is inside with all its lines.
THEOREM ScopeInductive == LogSpec => [](LogInv /\ ScopeInv)
<1>1. LogInit => LogInv /\ ScopeInv
  BY LogInitially, ScopeInitially
<1>2. LogInv /\ ScopeInv /\ [LogNext]_logVars => LogInv' /\ ScopeInv'
  BY LogStep, ScopeStep
<1> QED  BY <1>1, <1>2, PTL DEF LogSpec

\* Entry and exit lines of tracers pair up like brackets, whatever becomes of the
\* level between them, for any nesting and any statements inside.
THEOREM ScopesPairedAlways == LogSpec => []ScopesPaired
<1>1. LogInv /\ ScopeInv => ScopesPaired
  <2> SUFFICES ASSUME LogInv, ScopeInv PROVE ScopesPaired
    OBVIOUS
  <2> DEFINE Entered(k) == {n \in DOMAIN log : log[n].kind = "enter" /\ log[n].exp = k}
             Left(k)    == {n \in DOMAIN log : log[n].kind = "leave" /\ log[n].exp = k}
  <2>1. Paired(log, scopes, Len(said))
    BY DEF ScopeInv
  <2>2. /\ DOMAIN log \subseteq Nat
        /\ \A n \in DOMAIN log : log[n].kind \in {"write", "assert", "enter", "leave"}
    <3> HIDE DEF Entered, Left
    <3>1. DOMAIN log = 1 .. Len(log) /\ \A n \in DOMAIN log : log[n] \in EntrySet
      BY DEF LogInv
    <3>2. DOMAIN log \subseteq Nat
      BY <3>1
    <3> QED  BY <3>1, <3>2 DEF EntrySet
  <2>3. /\ \A k, n : n \in Entered(k) <=> n \in Nat /\ EnterAt(log, n) /\ TracerAt(log, n) = k
        /\ \A k, n : n \in Left(k) <=> n \in Nat /\ LeaveAt(log, n) /\ TracerAt(log, n) = k
    BY <2>2 DEF EnterAt, LeaveAt, TracerAt
  <2>4. \A n \in DOMAIN log : ~ IsLine(log[n]) => n \in Nat /\ MarkAt(log, n)
    BY <2>2 DEF IsLine, MarkAt, EnterAt, LeaveAt
  <2>5. \A k : InScope(k) <=> OnStack(scopes, k)
    BY DEF InScope, OnStack
  <2> HIDE DEF Entered, Left
  <2>6. ASSUME NEW n \in DOMAIN log, log[n].kind \in {"enter", "leave"}, NEW k, k = log[n].exp
        PROVE  /\ \E e \in Entered(k) : Entered(k) = {e}
               /\ (Left(k) = {}) <=> InScope(k)
               /\ \A e \in Entered(k), x \in Left(k) :
                    /\ e < x
                    /\ \A m \in e + 1 .. x - 1 : ~ IsLine(log[m]) =>
                         \A o \in Entered(log[m].exp) \cup Left(log[m].exp) : e < o /\ o < x
    <3>1. n \in Nat /\ MarkAt(log, n) /\ TracerAt(log, n) = k
      BY <2>2, <2>6 DEF MarkAt, EnterAt, LeaveAt, TracerAt
    <3>2. PICK e \in Nat : EnterAt(log, e) /\ TracerAt(log, e) = k
      BY <2>1, <3>1 DEF MarkAt, Paired, Balanced
    <3>3. k \in 1 .. Len(said)
      BY <2>1, <3>1 DEF Paired, Numbered
    <3>4. ASSUME NEW d \in Nat, EnterAt(log, d), TracerAt(log, d) = k PROVE d = e
      <4>1. ~ d < e /\ ~ e < d
        BY <2>1, <3>2, <3>3, <3>4 DEF Paired, Ascending
      <4> QED  BY <4>1
    <3>5. e \in Entered(k) /\ Entered(k) = {e}
      BY <2>3, <3>2, <3>4
    <3>6. (Left(k) = {}) <=> InScope(k)
      <4>1. OnStack(scopes, k) <=> ~ \E x \in Nat : LeaveAt(log, x) /\ TracerAt(log, x) = k
        BY <2>1, <3>2 DEF Paired, StillOpen
      <4> QED  BY <2>3, <2>5, <4>1
    <3>7. ASSUME NEW x \in Left(k)
          PROVE  /\ e < x
                 /\ \A m \in e + 1 .. x - 1 : ~ IsLine(log[m]) =>
                      \A o \in Entered(log[m].exp) \cup Left(log[m].exp) : e < o /\ o < x
      <4>1. x \in Nat /\ LeaveAt(log, x) /\ TracerAt(log, x) = k
        BY <2>3
      <4>2. e < x
        <5>1. PICK d \in Nat : d < x /\ EnterAt(log, d) /\ TracerAt(log, d) = k
          BY <2>1, <4>1 DEF Paired, Balanced
        <5> QED  BY <3>4, <5>1
      <4>3. ASSUME NEW m \in e + 1 .. x - 1, ~ IsLine(log[m]),
                   NEW o \in Entered(log[m].exp) \cup Left(log[m].exp)
            PROVE  e < o /\ o < x
        <5>1. m \in Nat /\ e < m /\ m < x
          BY <3>2, <4>1
        <5>2. m \in DOMAIN log
          <6>1. x \in DOMAIN log /\ DOMAIN log = 1 .. Len(log) /\ Len(log) \in Nat
            BY <4>1 DEF LeaveAt, LogInv
          <6> QED  BY <3>2, <5>1, <6>1
        <5>3. MarkAt(log, m)
          BY <2>4, <4>3, <5>2
        <5>4. o \in Nat /\ MarkAt(log, o) /\ TracerAt(log, o) = TracerAt(log, m)
          BY <2>3 DEF MarkAt, TracerAt
        <5> QED  BY <2>1, <3>2, <4>1, <5>1, <5>3, <5>4 DEF Paired, Nested
      <4> QED  BY <4>2, <4>3
    <3> QED  BY <3>5, <3>6, <3>7
  <2> QED  BY <2>6 DEF ScopesPaired, Entered, Left
<1> QED  BY <1>1, ScopeInductive, PTL
-----------------------------------------------------------------------------
(* Log statements: what a text says of one call.                            *)

\* What is left out is the same where the sets agree on what there is.
LEMMA WithoutSame ==
  ASSUME NEW T, NEW s \in Seq(T), NEW dropped, NEW others,
         \A n \in DOMAIN s : s[n] \in dropped <=> s[n] \in others
  PROVE  Without(s, dropped) = Without(s, others)
<1> DEFINE Good(u) == (\A n \in DOMAIN u : u[n] \in dropped <=> u[n] \in others) =>
                        Without(u, dropped) = Without(u, others)
           S == {u \in Seq(T) : Good(u)}
<1>1. << >> \in S
  BY WithoutEmpty
<1>2. ASSUME NEW u \in Seq(T), NEW e \in T, u \in S PROVE Append(u, e) \in S
  <2>0. Append(u, e) \in Seq(T)
    OBVIOUS
  <2> SUFFICES ASSUME \A n \in DOMAIN Append(u, e) :
                        Append(u, e)[n] \in dropped <=> Append(u, e)[n] \in others
               PROVE  Without(Append(u, e), dropped) = Without(Append(u, e), others)
    <3>1. Good(Append(u, e))
      OBVIOUS
    <3> HIDE DEF Good
    <3> QED  BY <2>0, <3>1
  <2>1. (e \in dropped <=> e \in others) /\ \A n \in DOMAIN u : u[n] \in dropped <=> u[n] \in others
    <3>1. /\ DOMAIN Append(u, e) = 1 .. Len(u) + 1 /\ DOMAIN u = 1 .. Len(u) /\ Len(u) \in Nat
          /\ Append(u, e)[Len(u) + 1] = e /\ \A n \in 1 .. Len(u) : Append(u, e)[n] = u[n]
      OBVIOUS
    <3>2. Len(u) + 1 \in 1 .. Len(u) + 1 /\ \A n \in 1 .. Len(u) : n \in 1 .. Len(u) + 1
      BY <3>1
    <3> QED  BY <3>1, <3>2
  <2>2. Without(u, dropped) = Without(u, others)
    BY <1>2, <2>1
  <2>3. /\ Without(Append(u, e), dropped) =
             IF e \in dropped THEN Without(u, dropped) ELSE Append(Without(u, dropped), e)
        /\ Without(Append(u, e), others) =
             IF e \in others THEN Without(u, others) ELSE Append(Without(u, others), e)
    BY WithoutAppend
  <2> QED  BY <2>1, <2>2, <2>3
<1>3. Seq(T) \subseteq S
  <2> HIDE DEF S
  <2> QED  BY <1>1, <1>2, SeqInductionOnSet
<1> QED  BY <1>3

\* The pieces of a text that come from call k.
SaysOf(text, k) == Without(text, PiecesOf(Nat \ {k}))

\* Of two texts, of a text of the call alone, of a text of other calls.
LEMMA SaysJoined ==
  ASSUME NEW k \in Nat, NEW t1 \in Seq(Text), NEW t2 \in Seq(Text)
  PROVE  /\ SaysOf(t1, k) \in Seq(Text)
         /\ SaysOf(t1 \o t2, k) = SaysOf(t1, k) \o SaysOf(t2, k)
         /\ SaysOf(<< >>, k) = << >>
<1> DEFINE others == PiecesOf(Nat \ {k})
<1> HIDE DEF others
<1>1. Without(t1, others) \in Seq(Text)
  BY WithoutSeq
<1>2. Without(t1 \o t2, others) = Without(t1, others) \o Without(t2, others)
  BY WithoutConcat
<1>3. Without(<< >>, others) = << >>
  BY WithoutEmpty
<1> QED  BY <1>1, <1>2, <1>3 DEF SaysOf, others

\* Who says it all and who says nothing.
LEMMA SaysAlone ==
  ASSUME NEW k \in Nat, NEW text \in Seq(Text)
  PROVE  /\ (\A p \in DOMAIN text : text[p].of = k) => SaysOf(text, k) = text
         /\ (\A p \in DOMAIN text : text[p].of # k) => SaysOf(text, k) = << >>
<1>1. \A p \in DOMAIN text : text[p] \in Text
  OBVIOUS
<1>2. \A piece \in Text : piece \in PiecesOf(Nat \ {k}) <=> piece.of # k
  BY DEF Text, PiecesOf
<1>3. ASSUME \A p \in DOMAIN text : text[p].of = k PROVE SaysOf(text, k) = text
  <2>1. \A p \in DOMAIN text : text[p] \notin PiecesOf(Nat \ {k})
    BY <1>1, <1>2, <1>3
  <2> QED  BY <2>1, WithoutNone DEF SaysOf
<1>4. ASSUME \A p \in DOMAIN text : text[p].of # k PROVE SaysOf(text, k) = << >>
  <2>1. \A p \in DOMAIN text : text[p] \in PiecesOf(Nat \ {k})
    BY <1>1, <1>2, <1>4
  <2> QED  BY <2>1, WithoutAll DEF SaysOf
<1> QED  BY <1>3, <1>4

\* Entries of which those that are lines have texts of such pieces.
Lines(T) == {e \in EntrySet : IsLine(e) => e.message \in Seq(T)}

\* The values of the loop that joins the lines of the log.
JoinsLines(text, l, T) ==
  /\ text[0] = << >>
  /\ \A n \in 1 .. Len(l) :
       text[n] = IF IsLine(l[n]) THEN text[n - 1] \o l[n].message ELSE text[n - 1]
  /\ \A n \in 0 .. Len(l) : text[n] \in Seq(T)
  /\ Written(l) = text[Len(l)]

\* The loop has such values.
LEMMA WrittenRounds ==
  ASSUME NEW T, NEW l \in Seq(Lines(T))
  PROVE  \E text : JoinsLines(text, l, T)
<1> DEFINE m == Len(l)
           X == Seq(T)
           After(before, n) == IF IsLine(l[n]) THEN before \o l[n].message ELSE before
           text[n \in 0 .. m] == IF n = 0 THEN << >> ELSE After(text[n - 1], n)
           next == [n \in 1 .. m |-> [v \in X |-> After(v, n)]]
           none == << >>
<1>1. m \in Nat /\ none \in X
  OBVIOUS
<1>2. ASSUME NEW v \in X, NEW n \in 1 .. m PROVE After(v, n) \in X
  <2>1. l[n] \in Lines(T)
    OBVIOUS
  <2>2. IsLine(l[n]) => l[n].message \in Seq(T)
    BY <2>1 DEF Lines
  <2> QED  BY <2>2
<1>3. next \in [1 .. m -> [X -> X]] /\ \A n \in 1 .. m, v \in X : next[n][v] = After(v, n)
  <2> HIDE DEF X, After, m
  <2> QED  BY <1>2
<1> HIDE DEF m, X, After, next, none
<1>4. PICK f \in [0 .. m -> X] : f[0] = none /\ \A n \in 1 .. m : f[n] = next[n][f[n - 1]]
  <2>1. Rounds(m, X, none, next)
    BY <1>1, <1>3 DEF Rounds
  <2> QED  BY <2>1, RoundsExist
<1>5. ASSUME NEW n \in 1 .. m
      PROVE  n - 1 \in 0 .. m /\ f[n - 1] \in X /\ f[n] = After(f[n - 1], n)
  <2>1. n - 1 \in 0 .. m
    BY <1>1
  <2> QED  BY <1>3, <1>4, <2>1
<1>6. text = [n \in 0 .. m |-> IF n = 0 THEN << >> ELSE After(text[n - 1], n)]
  <2> HIDE DEF text
  <2>1. ASSUME NEW n \in 0 .. m
        PROVE  f[n] = IF n = 0 THEN << >> ELSE After(f[n - 1], n)
    <3>1. n = 0 \/ n \in 1 .. m
      BY <1>1
    <3> QED  BY <1>4, <1>5, <3>1 DEF none
  <2>2. f = [n \in 0 .. m |-> IF n = 0 THEN << >> ELSE After(f[n - 1], n)]
    BY <2>1
  <2> QED  BY <2>2, Zenon DEF text
<1>7. Written(l) = text[m]
  BY Zenon DEF Written, m, After
<1> HIDE DEF text
<1>8. text[0] = << >> /\ \A n \in 1 .. m : text[n] = After(text[n - 1], n)
  BY <1>1, <1>6
<1>9. \A n \in 0 .. m : text[n] = f[n]
  <2>1. \A n \in 1 .. m : text[n - 1] = f[n - 1] => text[n] = f[n]
    BY <1>5, <1>8
  <2>2. m \in Nat /\ text[0] = f[0]
    BY <1>1, <1>4, <1>8 DEF none
  <2>3. Alike(m, text, f)
    BY <2>1, <2>2 DEF Alike
  <2> QED  BY <2>3, AlikeIsSame
<1>10. \A n \in 0 .. m : text[n] \in X
  BY <1>4, <1>9
<1> QED  BY <1>7, <1>8, <1>10 DEF m, X, After, JoinsLines

\* One more line is written behind the others, and a line of a tracer is not.
LEMMA WrittenAppend ==
  ASSUME NEW T, NEW l \in Seq(Lines(T)), NEW e \in Lines(T)
  PROVE  /\ Written(<< >>) = << >> /\ Written(l) \in Seq(T)
         /\ Written(Append(l, e)) = IF IsLine(e) THEN Written(l) \o e.message ELSE Written(l)
<1> DEFINE t == Append(l, e)
<1>1. /\ t \in Seq(Lines(T)) /\ Len(t) = Len(l) + 1 /\ t[Len(l) + 1] = e /\ Len(l) \in Nat
      /\ \A n \in 1 .. Len(l) : t[n] = l[n]
  OBVIOUS
<1> HIDE DEF t
<1>2. PICK f : JoinsLines(f, l, T)
  BY WrittenRounds
<1>3. PICK g : JoinsLines(g, t, T)
  BY <1>1, WrittenRounds
<1>4. \A n \in 0 .. Len(l) : g[n] = f[n]
  <2>1. \A n \in 1 .. Len(l) : g[n - 1] = f[n - 1] => g[n] = f[n]
    <3>1. \A n \in 1 .. Len(l) : n \in 1 .. Len(t) /\ t[n] = l[n]
      BY <1>1
    <3> QED  BY <1>2, <1>3, <3>1 DEF JoinsLines
  <2>2. Len(l) \in Nat /\ g[0] = f[0]
    BY <1>1, <1>2, <1>3 DEF JoinsLines
  <2>3. Alike(Len(l), g, f)
    BY <2>1, <2>2 DEF Alike
  <2> QED  BY <2>3, AlikeIsSame
<1>5. Written(t) = IF IsLine(e) THEN f[Len(l)] \o e.message ELSE f[Len(l)]
  <2>1. Len(t) \in 1 .. Len(t) /\ Len(t) - 1 = Len(l) /\ Len(l) \in 0 .. Len(l)
    BY <1>1
  <2> QED  BY <1>1, <1>3, <1>4, <2>1 DEF JoinsLines
<1>6. Written(<< >>) = << >>
  <2> DEFINE none == << >>
  <2>1. none \in Seq(Lines(T)) /\ Len(none) = 0
    OBVIOUS
  <2> HIDE DEF none
  <2>2. PICK h : JoinsLines(h, none, T)
    BY <2>1, WrittenRounds
  <2> QED  BY <2>1, <2>2 DEF JoinsLines, none
<1>7. Written(l) \in Seq(T) /\ Written(l) = f[Len(l)]
  BY <1>1, <1>2 DEF JoinsLines
<1> QED  BY <1>5, <1>6, <1>7 DEF t

\* What is written of an empty log, and what any log makes of its lines.
LEMMA WrittenSeq ==
  ASSUME NEW T, NEW l \in Seq(Lines(T))
  PROVE  Written(l) \in Seq(T) /\ Written(<< >>) = << >>
<1>1. PICK text : JoinsLines(text, l, T)
  BY WrittenRounds
<1>2. Len(l) \in 0 .. Len(l)
  OBVIOUS
<1> DEFINE none == << >>
<1>3. none \in Seq(Lines(T)) /\ Len(none) = 0
  OBVIOUS
<1> HIDE DEF none
<1>4. PICK h : JoinsLines(h, none, T)
  BY <1>3, WrittenRounds
<1> QED  BY <1>1, <1>2, <1>3, <1>4 DEF JoinsLines, none

-----------------------------------------------------------------------------
(* Log statements: said once, and assertions reported.                      *)

\* A statement that makes its logger Fatal, other than a tracer's.
Grave(s, j) ==
  s[j].by # "tracer" /\ (s[j].level = kLevelFatal \/ ~ WellFormed(s[j].call))
\* A text of statements that were made, with a NUL from a format that ends in %.
Known(s, text) ==
  \A p \in DOMAIN text :
    /\ text[p].of \in DOMAIN s /\ s[text[p].of].by # "tracer"
    /\ text[p].what = "nul" => HasEnd(s[text[p].of].call)
\* A logger that is not open is none, an assertion in one is Fatal, and something
\* that was said made it Fatal.
Whole(x, s) ==
  /\ ~ x.open => x = NoLogger
  /\ x.isassert => x.level = kLevelFatal /\ x.exp \in DOMAIN s
  /\ Known(s, x.message)
  /\ x.level = kLevelFatal => \E j \in DOMAIN s : Grave(s, j)
\* What made the group Fatal is not the assertion of the line.
Cause(s, x, g) ==
  g.level = kLevelFatal => \E j \in DOMAIN s : Grave(s, j) /\ (x.isassert => j # x.exp)

Tells(x, k, s) ==
  /\ x.exp = k
  /\ WellFormed(s[k].call) =>
       \A n \in DOMAIN MeantOf(s[k].call, k) :
         \E p \in DOMAIN x.message : x.message[p] = MeantOf(s[k].call, k)[n]
Reported(s, l, x, g, k) ==
  \/ \E n \in DOMAIN l : l[n].kind = "assert" /\ Tells(l[n], k, s)
  \/ x.isassert /\ Tells(x, k, s)
  \/ g.isassert /\ Tells(g, k, s)
  \/ \E j \in DOMAIN s \ {k} : Grave(s, j)
Asserted(s, l, x, g) == \A k \in DOMAIN s : s[k].by = "assert" => Reported(s, l, x, g, k)

\* The pieces of a call are all in one place: the log, the line or the group.
InOne(w, a, b, k, pieces) ==
  \/ SaysOf(w, k) = pieces /\ SaysOf(a, k) = << >> /\ SaysOf(b, k) = << >>
  \/ SaysOf(w, k) = << >> /\ SaysOf(a, k) = pieces /\ SaysOf(b, k) = << >>
  \/ SaysOf(w, k) = << >> /\ SaysOf(a, k) = << >> /\ SaysOf(b, k) = pieces
Calm(s) == \A j \in DOMAIN s : ~ HasEnd(s[j].call)
Once(s, w, a, b) ==
  Calm(s) =>
    \A k \in DOMAIN s : s[k].by # "tracer" /\ WellFormed(s[k].call) =>
      InOne(w, a, b, k, MeantOf(s[k].call, k))

\* One more statement leaves what is known of the others.
LEMMA OthersStay ==
  ASSUME NEW s \in Seq(SaidSet), NEW entry \in SaidSet
  PROVE  LET t == Append(s, entry)
             k == Len(s) + 1
         IN /\ t \in Seq(SaidSet) /\ DOMAIN t = DOMAIN s \cup {k} /\ k \notin DOMAIN s
            /\ t[k] = entry /\ k \in Nat /\ DOMAIN s \subseteq Nat
            /\ \A j \in DOMAIN s : t[j] = s[j] /\ j # k
            /\ \A j \in DOMAIN s : Grave(t, j) <=> Grave(s, j)
            /\ \A text : Known(s, text) => Known(t, text)
            /\ \A x : \A j \in DOMAIN s : Tells(x, j, t) <=> Tells(x, j, s)
            /\ Calm(t) => Calm(s) /\ ~ HasEnd(entry.call)
<1> DEFINE t == Append(s, entry)
           k == Len(s) + 1
<1>1. /\ t \in Seq(SaidSet) /\ DOMAIN t = DOMAIN s \cup {k} /\ k \notin DOMAIN s
      /\ t[k] = entry /\ k \in Nat /\ DOMAIN s \subseteq Nat
      /\ \A j \in DOMAIN s : t[j] = s[j] /\ j # k
  OBVIOUS
<1> HIDE DEF t, k
<1>2. \A j \in DOMAIN s : Grave(t, j) <=> Grave(s, j)
  BY <1>1 DEF Grave
<1>3. \A text : Known(s, text) => Known(t, text)
  BY <1>1 DEF Known
<1>4. \A x : \A j \in DOMAIN s : Tells(x, j, t) <=> Tells(x, j, s)
  BY <1>1 DEF Tells
<1>5. Calm(t) => Calm(s) /\ ~ HasEnd(entry.call)
  BY <1>1 DEF Calm
<1> QED  BY <1>1, <1>2, <1>3, <1>4, <1>5 DEF t, k

\* What a result adds to a text is known, and so is the text it makes.
LEMMA KnownWith ==
  ASSUME NEW s \in Seq(SaidSet), NEW entry \in SaidSet, entry.by # "tracer",
         NEW result, Proper(result, entry.call, Len(s) + 1),
         NEW text \in Seq(Text), Known(s, text)
  PROVE  /\ Known(Append(s, entry), text \o result.pieces)
         /\ Known(Append(s, entry), result.pieces \o text)
<1> DEFINE t   == Append(s, entry)
           k   == Len(s) + 1
           add == result.pieces
<1>1. /\ DOMAIN t = DOMAIN s \cup {k} /\ t[k] = entry /\ Known(t, text)
  BY OthersStay
<1> HIDE DEF t
<1>2. add \in Seq(TextOf(k)) /\ (~ HasEnd(entry.call) => NulFree(add))
  BY DEF Proper, Result
<1> HIDE DEF k, add
<1>3. add \in Seq(Text) /\ \A p \in DOMAIN add : add[p].of = k
  BY <1>2 DEF TextOf
<1>4. Known(t, add)
  BY <1>1, <1>2, <1>3 DEF Known, NulFree
<1>5. ASSUME NEW t1 \in Seq(Text), NEW t2 \in Seq(Text), Known(t, t1), Known(t, t2)
      PROVE  Known(t, t1 \o t2)
  <2>1. /\ Len(t1) \in Nat /\ Len(t2) \in Nat
        /\ DOMAIN t1 = 1 .. Len(t1) /\ DOMAIN t2 = 1 .. Len(t2)
        /\ DOMAIN (t1 \o t2) = 1 .. Len(t1) + Len(t2)
        /\ \A q \in 1 .. Len(t1) + Len(t2) :
             (t1 \o t2)[q] = IF q <= Len(t1) THEN t1[q] ELSE t2[q - Len(t1)]
    OBVIOUS
  <2>2. \A q \in 1 .. Len(t1) + Len(t2) :
          (q <= Len(t1) /\ q \in 1 .. Len(t1)) \/ (~ q <= Len(t1) /\ q - Len(t1) \in 1 .. Len(t2))
    BY <2>1
  <2> QED  BY <1>5, <2>1, <2>2 DEF Known
<1> QED  BY <1>1, <1>3, <1>4, <1>5 DEF t, add

\* A message behind another one is known if both are.
LEMMA KnownConcat ==
  ASSUME NEW s, NEW t1 \in Seq(Text), NEW t2 \in Seq(Text), Known(s, t1), Known(s, t2)
  PROVE  Known(s, t1 \o t2)
<1>1. /\ Len(t1) \in Nat /\ Len(t2) \in Nat
      /\ DOMAIN t1 = 1 .. Len(t1) /\ DOMAIN t2 = 1 .. Len(t2)
      /\ DOMAIN (t1 \o t2) = 1 .. Len(t1) + Len(t2)
      /\ \A q \in 1 .. Len(t1) + Len(t2) :
           (t1 \o t2)[q] = IF q <= Len(t1) THEN t1[q] ELSE t2[q - Len(t1)]
  OBVIOUS
<1>2. \A q \in 1 .. Len(t1) + Len(t2) :
        (q <= Len(t1) /\ q \in 1 .. Len(t1)) \/ (~ q <= Len(t1) /\ q - Len(t1) \in 1 .. Len(t2))
  BY <1>1
<1> QED  BY <1>1, <1>2 DEF Known

\* The fields of a logger after a call on it.
Gained(new, x, result, front) ==
  /\ new.open = x.open /\ new.isassert = x.isassert /\ new.exp = x.exp
  /\ new.level = IF "misuse" \in result.wrong THEN kLevelFatal ELSE x.level
  /\ new.message = IF front THEN result.pieces \o x.message ELSE x.message \o result.pieces

\* A result appended changes the text and perhaps the level.
LEMMA WithFields ==
  ASSUME NEW x \in LoggerSet, NEW result, NEW front
  PROVE  Gained(With(x, result, front), x, result, front)
BY DEF With, LoggerSet, Gained

\* A call on an open logger leaves it whole.
LEMMA WithWhole ==
  ASSUME NEW s \in Seq(SaidSet), NEW entry \in SaidSet, entry.by # "tracer",
         NEW result, Proper(result, entry.call, Len(s) + 1), NEW front,
         NEW x \in LoggerSet, x.open, Known(s, x.message),
         x.isassert => x.level = kLevelFatal /\ x.exp \in DOMAIN s,
         x.level = kLevelFatal => entry.level = kLevelFatal \/ \E j \in DOMAIN s : Grave(s, j)
  PROVE  /\ Whole(With(x, result, front), Append(s, entry))
         /\ "misuse" \in result.wrong => Grave(Append(s, entry), Len(s) + 1)
<1> DEFINE t   == Append(s, entry)
           k   == Len(s) + 1
           new == With(x, result, front)
<1>1. /\ DOMAIN t = DOMAIN s \cup {k} /\ t[k] = entry
      /\ \A j \in DOMAIN s : Grave(t, j) <=> Grave(s, j)
  BY OthersStay
<1>2. Known(t, new.message)
  <2>1. x.message \in Seq(Text)
    BY DEF LoggerSet
  <2>2. Known(t, x.message \o result.pieces) /\ Known(t, result.pieces \o x.message)
    BY <2>1, KnownWith
  <2>3. new.message = IF front THEN result.pieces \o x.message ELSE x.message \o result.pieces
    <3>1. Gained(new, x, result, front)
      BY WithFields
    <3> QED  BY <3>1, Zenon DEF Gained
  <2> HIDE DEF t, new
  <2> QED  BY <2>2, <2>3, Zenon
<1>3. /\ new.open = x.open /\ new.isassert = x.isassert /\ new.exp = x.exp
      /\ new.level = IF "misuse" \in result.wrong THEN kLevelFatal ELSE x.level
  <2>1. Gained(new, x, result, front)
    BY WithFields
  <2> QED  BY <2>1, Zenon DEF Gained
<1> HIDE DEF t, new, k
<1>4. "misuse" \in result.wrong => Grave(t, k)
  <2>1. WellFormed(entry.call) => result.wrong = {}
    BY DEF Proper, Pieces
  <2> QED  BY <1>1, <2>1 DEF Grave
<1>5. entry.level = kLevelFatal => Grave(t, k)
  BY <1>1 DEF Grave
<1>6. new.level = kLevelFatal => \E j \in DOMAIN t : Grave(t, j)
  BY <1>1, <1>3, <1>4, <1>5
<1>7. new.isassert => new.level = kLevelFatal /\ new.exp \in DOMAIN t
  BY <1>1, <1>3
<1> QED  BY <1>2, <1>3, <1>4, <1>6, <1>7 DEF Whole, t, k, new

\* A whole logger is whole after any statement on another.
LEMMA WholeStays ==
  ASSUME NEW s \in Seq(SaidSet), NEW entry \in SaidSet, NEW x, Whole(x, s)
  PROVE  Whole(x, Append(s, entry))
<1> DEFINE t == Append(s, entry)
<1>1. /\ DOMAIN s \subseteq DOMAIN t
      /\ \A j \in DOMAIN s : Grave(t, j) <=> Grave(s, j)
      /\ \A text : Known(s, text) => Known(t, text)
  BY OthersStay
<1> HIDE DEF t
<1>2. Whole(x, t)
  BY <1>1 DEF Whole
<1> QED  BY <1>2 DEF t

\* A longer message tells what the shorter one told.
LEMMA TellsMore ==
  ASSUME NEW k, NEW s, NEW x, NEW y, Tells(x, k, s), y.exp = x.exp, NEW add \in Seq(Text),
         x.message \in Seq(Text), y.message \in {x.message \o add, add \o x.message}
  PROVE  Tells(y, k, s)
<1> DEFINE old == x.message
<1>1. \A p \in DOMAIN old : (\E q \in DOMAIN (old \o add) : (old \o add)[q] = old[p])
                         /\ (\E q \in DOMAIN (add \o old) : (add \o old)[q] = old[p])
  <2> SUFFICES ASSUME NEW p \in DOMAIN old
               PROVE  (\E q \in DOMAIN (old \o add) : (old \o add)[q] = old[p])
                   /\ (\E q \in DOMAIN (add \o old) : (add \o old)[q] = old[p])
    OBVIOUS
  <2> HIDE DEF old
  <2>0. old \in Seq(Text)
    BY DEF old
  <2>1. p \in DOMAIN (old \o add) /\ (old \o add)[p] = old[p]
    BY <2>0
  <2>2. Len(add) + p \in DOMAIN (add \o old) /\ (add \o old)[Len(add) + p] = old[p]
    <3>1. p \in 1 .. Len(old) /\ Len(old) \in Nat /\ Len(add) \in Nat
      BY <2>0
    <3> DEFINE q == Len(add) + p
    <3>2. q \in 1 .. Len(add) + Len(old) /\ ~ q <= Len(add) /\ q - Len(add) = p
      BY <3>1
    <3> HIDE DEF q
    <3>3. q \in DOMAIN (add \o old) /\ (add \o old)[q] = old[p]
      BY <2>0, <3>1, <3>2
    <3> QED  BY <3>3 DEF q
  <2> QED  BY <2>1, <2>2
<1> HIDE DEF old
<1>2. \A p \in DOMAIN old : \E q \in DOMAIN y.message : y.message[q] = old[p]
  BY <1>1 DEF old
<1> QED  BY <1>2 DEF Tells, old

\* Texts of calls that were made say nothing of the next one.
LEMMA SaysNext ==
  ASSUME NEW s \in Seq(SaidSet), NEW text \in Seq(PiecesOf(DOMAIN s))
  PROVE  text \in Seq(Text) /\ SaysOf(text, Len(s) + 1) = << >>
<1>1. Len(s) + 1 \in Nat /\ DOMAIN s \subseteq Nat /\ Len(s) + 1 \notin DOMAIN s
  OBVIOUS
<1>2. PiecesOf(DOMAIN s) \subseteq Text /\ \A piece \in PiecesOf(DOMAIN s) : piece.of \in DOMAIN s
  BY <1>1 DEF PiecesOf, Text
<1>3. text \in Seq(Text)
  BY <1>2, SeqMonotonic
<1>4. \A p \in DOMAIN text : text[p].of # Len(s) + 1
  <2>1. \A p \in DOMAIN text : text[p] \in PiecesOf(DOMAIN s)
    BY LenProperties
  <2> HIDE DEF PiecesOf
  <2> QED  BY <1>1, <1>2, <2>1
<1> QED  BY <1>1, <1>3, <1>4, SaysAlone

\* A result, before or behind a text, is all that the text says of its call, and
\* changes nothing of what it says of the others.
SaysMore(new, text, k, pieces) ==
  /\ new \in Seq(Text)
  /\ SaysOf(text, k) = << >> => SaysOf(new, k) = pieces
  /\ \A j \in Nat : j # k => SaysOf(new, j) = SaysOf(text, j)

\* A result adds the pieces of its call and none of another.
LEMMA SaysWith ==
  ASSUME NEW k \in Nat, NEW result, Result(result, k), NEW text \in Seq(Text),
         NEW new \in {text \o result.pieces, result.pieces \o text}
  PROVE  SaysMore(new, text, k, result.pieces)
<1> DEFINE add == result.pieces
<1>1. add \in Seq(TextOf(k))
  BY DEF Result
<1> HIDE DEF add
<1>2. add \in Seq(Text) /\ \A p \in DOMAIN add : add[p].of = k
  BY <1>1 DEF TextOf
<1>3. SaysOf(add, k) = add /\ \A j \in Nat : j # k => SaysOf(add, j) = << >>
  BY <1>2, SaysAlone
<1>4. text \o add \in Seq(Text) /\ add \o text \in Seq(Text)
  BY <1>2
<1>5. /\ SaysOf(text \o add, k) = SaysOf(text, k) \o SaysOf(add, k)
      /\ SaysOf(add \o text, k) = SaysOf(add, k) \o SaysOf(text, k)
  BY <1>2, SaysJoined
<1>6. << >> \o add = add /\ add \o << >> = add
  BY <1>2, ConcatEmptySeq
<1>7. ASSUME NEW j \in Nat, j # k
      PROVE  SaysOf(text \o add, j) = SaysOf(text, j) /\ SaysOf(add \o text, j) = SaysOf(text, j)
  <2>1. /\ SaysOf(text \o add, j) = SaysOf(text, j) \o SaysOf(add, j)
        /\ SaysOf(add \o text, j) = SaysOf(add, j) \o SaysOf(text, j)
        /\ SaysOf(text, j) \in Seq(Text)
    BY <1>2, SaysJoined
  <2>2. SaysOf(text, j) \o << >> = SaysOf(text, j) /\ << >> \o SaysOf(text, j) = SaysOf(text, j)
    BY <2>1, ConcatEmptySeq
  <2> QED  BY <1>3, <1>7, <2>1, <2>2
<1> QED  BY <1>3, <1>4, <1>5, <1>6, <1>7 DEF add, SaysMore

\* A statement is said in the one logger it is a call on.
LEMMA OnceStatement ==
  ASSUME NEW s \in Seq(SaidSet), NEW entry \in SaidSet,
         NEW result, Proper(result, entry.call, Len(s) + 1),
         NEW w \in Seq(PiecesOf(DOMAIN s)), NEW a \in Seq(PiecesOf(DOMAIN s)),
         NEW b \in Seq(PiecesOf(DOMAIN s)), Once(s, w, a, b)
  PROVE  /\ \A new \in {a \o result.pieces, result.pieces \o a} : Once(Append(s, entry), w, new, b)
         /\ \A new \in {b \o result.pieces, result.pieces \o b} : Once(Append(s, entry), w, a, new)
<1> DEFINE t == Append(s, entry)
           k == Len(s) + 1
<1>1. /\ DOMAIN t = DOMAIN s \cup {k} /\ k \notin DOMAIN s /\ t[k] = entry
      /\ k \in Nat /\ DOMAIN s \subseteq Nat
      /\ \A j \in DOMAIN s : t[j] = s[j] /\ j # k
      /\ Calm(t) => Calm(s)
  BY OthersStay
<1>2. /\ w \in Seq(Text) /\ a \in Seq(Text) /\ b \in Seq(Text)
      /\ SaysOf(w, k) = << >> /\ SaysOf(a, k) = << >> /\ SaysOf(b, k) = << >>
  BY SaysNext
<1> HIDE DEF t, k
<1>3. Result(result, k) /\ (WellFormed(entry.call) => result.pieces = MeantOf(entry.call, k))
  <2>1. Pieces(MeantOf(entry.call, k)).pieces = MeantOf(entry.call, k)
    BY Zenon DEF Pieces
  <2> QED  BY <2>1 DEF Proper, k
<1>4. ASSUME NEW new \in {a \o result.pieces, result.pieces \o a} PROVE Once(t, w, new, b)
  <2>0. k \in Nat /\ Result(result, k) /\ a \in Seq(Text) /\ SaysOf(a, k) = << >>
    BY <1>1, <1>2, <1>3
  <2>1. /\ SaysOf(new, k) = result.pieces
        /\ \A j \in Nat : j # k => SaysOf(new, j) = SaysOf(a, j)
    <3>1. SaysMore(new, a, k, result.pieces)
      BY <2>0, SaysWith
    <3> QED  BY <2>0, <3>1, Zenon DEF SaysMore
  <2> QED  BY <1>1, <1>2, <1>3, <2>1 DEF Once, InOne
<1>5. ASSUME NEW new \in {b \o result.pieces, result.pieces \o b} PROVE Once(t, w, a, new)
  <2>0. k \in Nat /\ Result(result, k) /\ b \in Seq(Text) /\ SaysOf(b, k) = << >>
    BY <1>1, <1>2, <1>3
  <2>1. /\ SaysOf(new, k) = result.pieces
        /\ \A j \in Nat : j # k => SaysOf(new, j) = SaysOf(b, j)
    <3>1. SaysMore(new, b, k, result.pieces)
      BY <2>0, SaysWith
    <3> QED  BY <2>0, <3>1, Zenon DEF SaysMore
  <2> QED  BY <1>1, <1>2, <1>3, <2>1 DEF Once, InOne
<1> QED  BY <1>4, <1>5 DEF t

\* A tracer's statement changes nothing of the others.
LEMMA OnceTracer ==
  ASSUME NEW s \in Seq(SaidSet), NEW entry \in SaidSet, entry.by = "tracer",
         NEW w, NEW a, NEW b, Once(s, w, a, b)
  PROVE  Once(Append(s, entry), w, a, b)
<1> DEFINE t == Append(s, entry)
           k == Len(s) + 1
<1>1. /\ DOMAIN t = DOMAIN s \cup {k} /\ t[k] = entry
      /\ \A j \in DOMAIN s : t[j] = s[j]
      /\ Calm(t) => Calm(s)
  BY OthersStay
<1> HIDE DEF t, k
<1>2. Once(t, w, a, b)
  BY <1>1 DEF Once
<1> QED  BY <1>2 DEF t

\* Merging and writing move the pieces of a call together.
LEMMA OnceMoved ==
  ASSUME NEW s \in Seq(SaidSet), NEW w \in Seq(Text), NEW a \in Seq(Text), NEW b \in Seq(Text),
         Once(s, w, a, b)
  PROVE  /\ Once(s, w, << >>, b \o a) /\ Once(s, w \o a, << >>, b) /\ Once(s, w \o b, a, << >>)
<1>1. ASSUME NEW k \in DOMAIN s, NEW pieces, InOne(w, a, b, k, pieces)
      PROVE  /\ InOne(w, << >>, b \o a, k, pieces)
             /\ InOne(w \o a, << >>, b, k, pieces) /\ InOne(w \o b, a, << >>, k, pieces)
  <2>1. k \in Nat
    OBVIOUS
  <2>2. /\ SaysOf(w, k) \in Seq(Text) /\ SaysOf(a, k) \in Seq(Text) /\ SaysOf(b, k) \in Seq(Text)
        /\ SaysOf(b \o a, k) = SaysOf(b, k) \o SaysOf(a, k)
        /\ SaysOf(w \o a, k) = SaysOf(w, k) \o SaysOf(a, k)
        /\ SaysOf(w \o b, k) = SaysOf(w, k) \o SaysOf(b, k)
        /\ SaysOf(<< >>, k) = << >>
    BY <2>1, SaysJoined
  <2>3. /\ \A u \in Seq(Text) : u \o << >> = u /\ << >> \o u = u
        /\ << >> \in Seq(Text)
    BY ConcatEmptySeq
  <2>4. pieces \in Seq(Text)
    BY <1>1, <2>2 DEF InOne
  <2>5. pieces \o << >> = pieces /\ << >> \o pieces = pieces
        /\ << >> \o << >> = << >>
    BY <2>3, <2>4
  <2> QED  BY <1>1, <2>2, <2>5, Zenon DEF InOne
<1> QED  BY <1>1 DEF Once

\* Reports that were there stay where the log and the loggers keep them.
LEMMA AssertedStays ==
  ASSUME NEW s \in Seq(SaidSet), NEW entry \in SaidSet, NEW l, NEW x, NEW g, Asserted(s, l, x, g),
         NEW m, NEW y, NEW h,
         \A n \in DOMAIN l : n \in DOMAIN m /\ m[n] = l[n],
         \A j \in DOMAIN s : x.isassert /\ Tells(x, j, s) => y.isassert /\ Tells(y, j, s),
         \A j \in DOMAIN s : g.isassert /\ Tells(g, j, s) => h.isassert /\ Tells(h, j, s),
         entry.by = "assert" => y.isassert /\ Tells(y, Len(s) + 1, Append(s, entry))
  PROVE  Asserted(Append(s, entry), m, y, h)
<1> DEFINE t == Append(s, entry)
           k == Len(s) + 1
<1>1. /\ DOMAIN t = DOMAIN s \cup {k} /\ t[k] = entry
      /\ \A j \in DOMAIN s : t[j] = s[j]
      /\ \A j \in DOMAIN s : Grave(t, j) <=> Grave(s, j)
      /\ \A z : \A j \in DOMAIN s : Tells(z, j, t) <=> Tells(z, j, s)
  BY OthersStay
<1>2. entry.by = "assert" => y.isassert /\ Tells(y, k, t)
  OBVIOUS
<1> HIDE DEF t, k
<1>3. ASSUME NEW i \in DOMAIN t, t[i].by = "assert" PROVE Reported(t, m, y, h, i)
  <2>1. CASE i = k
    BY <1>1, <1>2, <1>3, <2>1 DEF Reported
  <2>2. CASE i \in DOMAIN s
    <3>1. Reported(s, l, x, g, i)
      BY <1>1, <1>3, <2>2 DEF Asserted
    <3>2. CASE \E n \in DOMAIN l : l[n].kind = "assert" /\ Tells(l[n], i, s)
      BY <1>1, <2>2, <3>2 DEF Reported
    <3>3. CASE x.isassert /\ Tells(x, i, s)
      BY <1>1, <2>2, <3>3 DEF Reported
    <3>4. CASE g.isassert /\ Tells(g, i, s)
      BY <1>1, <2>2, <3>4 DEF Reported
    <3>5. CASE \E j \in DOMAIN s \ {i} : Grave(s, j)
      BY <1>1, <2>2, <3>5 DEF Reported
    <3> QED  BY <3>1, <3>2, <3>3, <3>4, <3>5 DEF Reported
  <2> QED  BY <1>1, <2>1, <2>2
<1> QED  BY <1>3 DEF Asserted, t

\* A % at the end is a misuse of the logger.
LEMMA EndIsMisuse == \A call : HasEnd(call) => ~ WellFormed(call)
BY DEF HasEnd, WellFormed

\* Of a group and a line one assertion stays, or another statement had made the
\* group Fatal.
LEMMA AssertedMerge ==
  ASSUME NEW s \in Seq(SaidSet), NEW l, NEW x \in LoggerSet, NEW g \in LoggerSet,
         Whole(x, s), Whole(g, s), Cause(s, x, g), Asserted(s, l, x, g)
  PROVE  Asserted(s, l, Merged(g, x).source, Merged(g, x).target)
<1> DEFINE h == Merged(g, x).target
           y == Merged(g, x).source
<1>1. /\ x.level \in 0 .. 5 /\ g.level \in 0 .. 5
      /\ x.message \in Seq(Text) /\ g.message \in Seq(Text)
  BY DEF LoggerSet
<1>2. CASE g.level < x.level
  <2>1. h = [g EXCEPT !.message = @ \o x.message, !.level = x.level,
                      !.isassert = x.isassert, !.exp = x.exp]
    BY <1>2 DEF Merged
  <2>2. h.isassert = x.isassert /\ h.exp = x.exp /\ h.message = g.message \o x.message
    <3> HIDE DEF h
    <3> QED  BY <2>1 DEF LoggerSet
  <2>3. ~ g.isassert
    BY <1>1, <1>2 DEF Whole, kLevelFatal
  <2> HIDE DEF h, y
  <2>4. \A k \in DOMAIN s : x.isassert /\ Tells(x, k, s) => h.isassert /\ Tells(h, k, s)
    BY <1>1, <2>2, TellsMore
  <2> QED  BY <2>3, <2>4 DEF Asserted, Reported, h, y
<1>3. CASE ~ g.level < x.level
  <2>1. h = [g EXCEPT !.message = @ \o x.message]
    BY <1>3 DEF Merged
  <2>2. h.isassert = g.isassert /\ h.exp = g.exp /\ h.message = g.message \o x.message
    <3> HIDE DEF h
    <3> QED  BY <2>1 DEF LoggerSet
  <2> HIDE DEF h, y
  <2>3. \A k \in DOMAIN s : g.isassert /\ Tells(g, k, s) => h.isassert /\ Tells(h, k, s)
    BY <1>1, <2>2, TellsMore
  <2>4. ASSUME NEW k \in DOMAIN s, x.isassert, Tells(x, k, s)
        PROVE  \E j \in DOMAIN s \ {k} : Grave(s, j)
    <3>1. g.level = kLevelFatal
      BY <1>1, <1>3, <2>4 DEF Whole, kLevelFatal
    <3> QED  BY <2>4, <3>1 DEF Cause, Tells
  <2> QED  BY <2>3, <2>4 DEF Asserted, Reported, h, y
<1> QED  BY <1>2, <1>3

\* An assertion is written with its text, unless a NUL cuts it off.
LEMMA WrittenTells ==
  ASSUME NEW s \in Seq(SaidSet), NEW x \in LoggerSet, Known(s, x.message), NEW kind,
         NEW k \in DOMAIN s, Tells(x, k, s)
  PROVE  \/ Tells(Entry(kind, x.level, x.exp, CStr(x.message)), k, s)
         \/ \E j \in DOMAIN s \ {k} : Grave(s, j)
<1> DEFINE text == CStr(x.message)
           e    == Entry(kind, x.level, x.exp, text)
<1>1. e.exp = x.exp /\ e.message = text
  BY DEF Entry
<1>2. CASE NULs(x.message) = {}
  <2>1. text = x.message
    BY <1>2 DEF CStr
  <2> HIDE DEF e, text
  <2> QED  BY <1>1, <2>1 DEF Tells, e, text
<1>3. CASE NULs(x.message) # {}
  <2>1. PICK p \in DOMAIN x.message : x.message[p].what = "nul"
    BY <1>3 DEF NULs
  <2> DEFINE j == x.message[p].of
  <2>2. j \in DOMAIN s /\ s[j].by # "tracer" /\ HasEnd(s[j].call)
    BY <2>1 DEF Known
  <2> HIDE DEF j
  <2>3. Grave(s, j) /\ ~ WellFormed(s[j].call)
    BY <2>2, EndIsMisuse DEF Grave
  <2> HIDE DEF e
  <2>4. CASE j = k
    BY <1>1, <2>3, <2>4 DEF Tells, e
  <2> QED  BY <2>2, <2>3, <2>4
<1> QED  BY <1>2, <1>3

\* So writing a logger keeps the reports.
LEMMA AssertedWrite ==
  ASSUME NEW s \in Seq(SaidSet), NEW l, NEW x \in LoggerSet, NEW g \in LoggerSet,
         Known(s, x.message), Known(s, g.message), Asserted(s, l, x, g), NEW m,
         \A n \in DOMAIN l : n \in DOMAIN m /\ m[n] = l[n], NEW empty
  PROVE  /\ (x.isassert => \E n \in DOMAIN m :
                              m[n] = Entry("assert", x.level, x.exp, CStr(x.message)))
              => Asserted(s, m, empty, g)
         /\ (g.isassert => \E n \in DOMAIN m :
                              m[n] = Entry("assert", g.level, g.exp, CStr(g.message)))
              => Asserted(s, m, x, empty)
<1>1. \A z \in LoggerSet : Entry("assert", z.level, z.exp, CStr(z.message)).kind = "assert"
  BY DEF Entry
<1>2. ASSUME x.isassert => \E n \in DOMAIN m :
                             m[n] = Entry("assert", x.level, x.exp, CStr(x.message)),
             NEW k \in DOMAIN s, s[k].by = "assert"
      PROVE  Reported(s, m, empty, g, k)
  <2>1. x.isassert /\ Tells(x, k, s) =>
          \/ \E n \in DOMAIN m : m[n].kind = "assert" /\ Tells(m[n], k, s)
          \/ \E j \in DOMAIN s \ {k} : Grave(s, j)
    BY <1>1, <1>2, WrittenTells
  <2>2. Reported(s, l, x, g, k)
    BY <1>2 DEF Asserted
  <2> QED  BY <2>1, <2>2 DEF Reported
<1>3. ASSUME g.isassert => \E n \in DOMAIN m :
                             m[n] = Entry("assert", g.level, g.exp, CStr(g.message)),
             NEW k \in DOMAIN s, s[k].by = "assert"
      PROVE  Reported(s, m, x, empty, k)
  <2>1. g.isassert /\ Tells(g, k, s) =>
          \/ \E n \in DOMAIN m : m[n].kind = "assert" /\ Tells(m[n], k, s)
          \/ \E j \in DOMAIN s \ {k} : Grave(s, j)
    BY <1>1, <1>3, WrittenTells
  <2>2. Reported(s, l, x, g, k)
    BY <1>3 DEF Asserted
  <2> QED  BY <2>1, <2>2 DEF Reported
<1> QED  BY <1>2, <1>3 DEF Asserted

\* All of it together, of what was said, the log, the line and the group.
Accounted(s, l, x, g) ==
  /\ Whole(x, s) /\ Whole(g, s) /\ Cause(s, x, g)
  /\ Asserted(s, l, x, g)
  /\ Once(s, Written(l), x.message, g.message)
OnceInv == Accounted(said, log, loggers.line, loggers.group)

\* A text of statements that were made consists of their pieces.
LEMMA SaidPieces ==
  ASSUME NEW s \in Seq(SaidSet), NEW text \in Seq(Text),
         \A p \in DOMAIN text : text[p].of \in DOMAIN s
  PROVE  text \in Seq(PiecesOf(DOMAIN s))
<1>1. \A p \in DOMAIN text : text[p] \in Text
  OBVIOUS
<1>2. \A p \in DOMAIN text : text[p] \in PiecesOf(DOMAIN s)
  BY <1>1 DEF Text, PiecesOf
<1> HIDE DEF Text, PiecesOf
<1>3. DOMAIN text = 1 .. Len(text) /\ Len(text) \in Nat
  OBVIOUS
<1>4. text = [p \in 1 .. Len(text) |-> text[p]]
  BY <1>3
<1> DEFINE m == Len(text)
<1>5. text \in [1 .. m -> PiecesOf(DOMAIN s)] /\ m \in Nat
  BY <1>2, <1>3, <1>4
<1> QED  BY <1>5

\* So do all texts of the log statements.
LEMMA TextsTyped ==
  ASSUME LogInv
  PROVE  /\ loggers.line \in LoggerSet /\ loggers.group \in LoggerSet
         /\ loggers.line.message \in Seq(PiecesOf(DOMAIN said))
         /\ loggers.group.message \in Seq(PiecesOf(DOMAIN said))
         /\ log \in Seq(Lines(PiecesOf(DOMAIN said)))
         /\ Written(log) \in Seq(PiecesOf(DOMAIN said))
<1>1. said \in Seq(SaidSet) /\ log \in Seq(EntrySet)
  BY DEF LogInv
<1>2. ASSUME NEW x, SoundLogger(x, said)
      PROVE  x \in LoggerSet /\ x.message \in Seq(PiecesOf(DOMAIN said))
  <2>1. x \in LoggerSet /\ x.message \in Seq(Text) /\ \A p \in DOMAIN x.message : x.message[p].of \in DOMAIN said
    BY <1>2 DEF SoundLogger, SoundIn, LoggerSet
  <2> QED  BY <1>1, <2>1, SaidPieces
<1>3. ASSUME NEW n \in DOMAIN log PROVE log[n] \in Lines(PiecesOf(DOMAIN said))
  <2>1. log[n] \in EntrySet /\ SoundEntry(log[n], said)
    BY <1>1, <1>3 DEF LogInv
  <2> DEFINE e == log[n]
  <2>2. e.message \in Seq(Text)
    BY <2>1 DEF EntrySet
  <2>3. IsLine(e) => \A p \in DOMAIN e.message : e.message[p].of \in DOMAIN said
    BY <2>1 DEF SoundEntry, SoundIn
  <2> HIDE DEF e
  <2>4. IsLine(e) => e.message \in Seq(PiecesOf(DOMAIN said))
    BY <1>1, <2>2, <2>3, SaidPieces
  <2> QED  BY <2>1, <2>4 DEF Lines, e
<1>4. log \in Seq(Lines(PiecesOf(DOMAIN said)))
  <2> DEFINE S == Lines(PiecesOf(DOMAIN said))
             m == Len(log)
  <2>1. m \in Nat /\ DOMAIN log = 1 .. m /\ log = [n \in 1 .. m |-> log[n]]
    BY <1>1
  <2> HIDE DEF S, m
  <2>2. log \in [1 .. m -> S]
    BY <1>3, <2>1 DEF S
  <2>3. log \in Seq(S)
    BY <2>1, <2>2
  <2> QED  BY <2>3 DEF S
<1>5. Written(log) \in Seq(PiecesOf(DOMAIN said))
  BY <1>4, WrittenSeq
<1> QED  BY <1>2, <1>4, <1>5 DEF LogInv

\* Pieces of some calls are pieces.
LEMMA PiecesAreText ==
  ASSUME NEW s \in Seq(SaidSet)
  PROVE  /\ Seq(PiecesOf(DOMAIN s)) \subseteq Seq(Text)
         /\ Seq(Lines(PiecesOf(DOMAIN s))) \subseteq Seq(Lines(Text))
<1>1. DOMAIN s \subseteq Nat
  OBVIOUS
<1>2. PiecesOf(DOMAIN s) \subseteq Text
  BY <1>1 DEF PiecesOf, Text
<1>3. Seq(PiecesOf(DOMAIN s)) \subseteq Seq(Text)
  BY <1>2, SeqMonotonic
<1>4. Lines(PiecesOf(DOMAIN s)) \subseteq Lines(Text)
  BY <1>3 DEF Lines
<1> QED  BY <1>3, <1>4, SeqMonotonic

\* No logger says nothing, and a new one neither.
LEMMA NoLoggerFields ==
  /\ NoLogger \in LoggerSet /\ ~ NoLogger.open /\ ~ NoLogger.isassert /\ NoLogger.exp = 0
  /\ NoLogger.message = << >> /\ NoLogger.level = 0
  /\ \A lvl \in 0 .. 5 :
       /\ XLogger(lvl) \in LoggerSet /\ XLogger(lvl).open /\ ~ XLogger(lvl).isassert
       /\ XLogger(lvl).exp = 0 /\ XLogger(lvl).message = << >> /\ XLogger(lvl).level = lvl
<1>1. NoLogger \in LoggerSet
  BY DEF NoLogger, LoggerSet, kLevelAll
<1>2. /\ ~ NoLogger.open /\ ~ NoLogger.isassert /\ NoLogger.exp = 0
      /\ NoLogger.message = << >> /\ NoLogger.level = 0
  BY DEF NoLogger, kLevelAll
<1>3. ASSUME NEW lvl \in 0 .. 5
      PROVE  /\ XLogger(lvl) \in LoggerSet /\ XLogger(lvl).open /\ ~ XLogger(lvl).isassert
             /\ XLogger(lvl).exp = 0 /\ XLogger(lvl).message = << >> /\ XLogger(lvl).level = lvl
  BY <1>1, <1>2 DEF XLogger, LoggerSet
<1> QED  BY <1>1, <1>2, <1>3

\* Before the first statement nothing is due.
LEMMA OnceInitially == LogInit => OnceInv
<1> SUFFICES ASSUME LogInit PROVE OnceInv
  OBVIOUS
<1>1. loggers.line = NoLogger /\ loggers.group = NoLogger /\ log = << >> /\ said = << >>
  BY DEF LogInit
<1>2. DOMAIN said = {}
  BY <1>1
<1>3. ~ NoLogger.isassert /\ NoLogger.level # kLevelFatal /\ DOMAIN NoLogger.message = {}
  BY NoLoggerFields DEF kLevelFatal
<1> HIDE DEF NoLogger
<1>4. Whole(NoLogger, said) /\ Cause(said, NoLogger, NoLogger)
  BY <1>3 DEF Whole, Cause, Known
<1>5. Asserted(said, log, NoLogger, NoLogger) /\ Once(said, Written(log), << >>, << >>)
  BY <1>2 DEF Asserted, Once
<1> QED  BY <1>1, <1>4, <1>5, NoLoggerFields DEF OnceInv, Accounted

\* A call on a line, be it there or new.
LEMMA LineCalled ==
  ASSUME NEW s \in Seq(SaidSet), NEW entry \in SaidSet, entry.by = "logger",
         NEW result, Proper(result, entry.call, Len(s) + 1), NEW front,
         NEW l, NEW old, NEW g, Accounted(s, l, old, g), NEW x \in LoggerSet,
         x.open, x.message = old.message, x.isassert = old.isassert, x.exp = old.exp,
         x.isassert => x.level = kLevelFatal,
         x.level = kLevelFatal => entry.level = kLevelFatal \/ \E j \in DOMAIN s : Grave(s, j),
         Written(l) \in Seq(PiecesOf(DOMAIN s)), x.message \in Seq(PiecesOf(DOMAIN s)),
         g.message \in Seq(PiecesOf(DOMAIN s))
  PROVE  Accounted(Append(s, entry), l, With(x, result, front), g)
<1> DEFINE t   == Append(s, entry)
           new == With(x, result, front)
           w   == Written(l)
           k   == Len(s) + 1
<1>1. /\ Known(s, x.message) /\ Whole(g, s) /\ Asserted(s, l, old, g)
      /\ Once(s, w, x.message, g.message)
      /\ g.level = kLevelFatal => \E j \in DOMAIN s : Grave(s, j) /\ (x.isassert => j # x.exp)
      /\ x.isassert => x.exp \in DOMAIN s
  BY DEF Accounted, Whole, Cause
<1>2. /\ DOMAIN t = DOMAIN s \cup {k} /\ k \notin DOMAIN s
      /\ \A j \in DOMAIN s : Grave(t, j) <=> Grave(s, j)
  BY OthersStay
<1>3. new.isassert = x.isassert /\ new.exp = x.exp
      /\ new.message = IF front THEN result.pieces \o x.message ELSE x.message \o result.pieces
  <2>1. Gained(new, x, result, front)
    BY WithFields
  <2> QED  BY <2>1, Zenon DEF Gained
<1>4. Whole(new, t)
  <2>1. entry.by # "tracer"
    OBVIOUS
  <2> QED  BY <1>1, <2>1, WithWhole
<1>5. Whole(g, t)
  BY <1>1, WholeStays
<1>6. Cause(t, new, g)
  <2> HIDE DEF t, new
  <2> QED  BY <1>1, <1>2, <1>3 DEF Cause
<1>7. Asserted(t, l, new, g)
  <2>1. result.pieces \in Seq(Text) /\ x.message \in Seq(Text)
    <3>1. result.pieces \in Seq(TextOf(k))
      BY DEF Proper, Result
    <3> QED  BY <3>1, PiecesAreText DEF TextOf
  <2>2. new.message \in {x.message \o result.pieces, result.pieces \o x.message}
    BY <1>3
  <2> HIDE DEF new
  <2>3. ASSUME NEW j \in DOMAIN s, old.isassert /\ Tells(old, j, s)
        PROVE  new.isassert /\ Tells(new, j, s)
    <3>1. Tells(x, j, s)
      BY <2>3 DEF Tells
    <3>2. Tells(new, j, s)
      BY <1>3, <2>1, <2>2, <3>1, TellsMore
    <3> QED  BY <1>3, <2>3, <3>2
  <2>4. entry.by # "assert"
    OBVIOUS
  <2>5. \A n \in DOMAIN l : n \in DOMAIN l /\ l[n] = l[n]
    OBVIOUS
  <2> QED  BY <1>1, <2>3, <2>4, <2>5, AssertedStays
<1>8. Once(t, w, new.message, g.message)
  <2>1. new.message \in {x.message \o result.pieces, result.pieces \o x.message}
    BY <1>3
  <2> HIDE DEF w, new
  <2> QED  BY <1>1, <2>1, OnceStatement DEF w
<1> QED  BY <1>4, <1>5, <1>6, <1>7, <1>8 DEF Accounted

\* A call on a group.
LEMMA GroupCalled ==
  ASSUME NEW s \in Seq(SaidSet), NEW entry \in SaidSet, entry.by = "logger",
         NEW result, Proper(result, entry.call, Len(s) + 1), NEW front,
         NEW l, NEW x, NEW g \in LoggerSet, Accounted(s, l, x, g), g.open,
         Written(l) \in Seq(PiecesOf(DOMAIN s)), x.message \in Seq(PiecesOf(DOMAIN s)),
         g.message \in Seq(PiecesOf(DOMAIN s))
  PROVE  Accounted(Append(s, entry), l, x, With(g, result, front))
<1> DEFINE t   == Append(s, entry)
           new == With(g, result, front)
           w   == Written(l)
           k   == Len(s) + 1
<1>1. /\ Whole(x, s) /\ Whole(g, s) /\ Asserted(s, l, x, g) /\ Cause(s, x, g)
      /\ Once(s, w, x.message, g.message)
  BY DEF Accounted
<1>2. /\ DOMAIN t = DOMAIN s \cup {k} /\ k \notin DOMAIN s
      /\ \A j \in DOMAIN s : Grave(t, j) <=> Grave(s, j)
  BY OthersStay
<1>3. /\ new.isassert = g.isassert /\ new.exp = g.exp
      /\ new.level = IF "misuse" \in result.wrong THEN kLevelFatal ELSE g.level
      /\ new.message = IF front THEN result.pieces \o g.message ELSE g.message \o result.pieces
  <2>1. Gained(new, g, result, front)
    BY WithFields
  <2> QED  BY <2>1, Zenon DEF Gained
<1>4. Whole(new, t) /\ ("misuse" \in result.wrong => Grave(t, k))
  <2>1. /\ entry.by # "tracer" /\ Known(s, g.message)
        /\ g.isassert => g.level = kLevelFatal /\ g.exp \in DOMAIN s
        /\ g.level = kLevelFatal => entry.level = kLevelFatal \/ \E j \in DOMAIN s : Grave(s, j)
    BY <1>1 DEF Whole
  <2> QED  BY <2>1, WithWhole
<1>5. Whole(x, t)
  BY <1>1, WholeStays
<1>6. Cause(t, x, new)
  <2>1. x.isassert => x.exp \in DOMAIN s
    BY <1>1 DEF Whole
  <2> HIDE DEF t, new, k
  <2>2. CASE "misuse" \in result.wrong
    BY <1>2, <1>4, <2>1, <2>2 DEF Cause
  <2>3. CASE "misuse" \notin result.wrong
    BY <1>1, <1>2, <1>3, <2>3 DEF Cause
  <2> QED  BY <2>2, <2>3
<1>7. Asserted(t, l, x, new)
  <2>1. result.pieces \in Seq(Text) /\ g.message \in Seq(Text)
    <3>1. result.pieces \in Seq(TextOf(k))
      BY DEF Proper, Result
    <3> QED  BY <3>1, PiecesAreText DEF TextOf
  <2>2. new.message \in {g.message \o result.pieces, result.pieces \o g.message}
    BY <1>3
  <2> HIDE DEF new
  <2>3. ASSUME NEW j \in DOMAIN s, g.isassert /\ Tells(g, j, s)
        PROVE  new.isassert /\ Tells(new, j, s)
    <3>1. Tells(new, j, s)
      BY <1>3, <2>1, <2>2, <2>3, TellsMore
    <3> QED  BY <1>3, <2>3, <3>1
  <2>4. entry.by # "assert"
    OBVIOUS
  <2>5. \A n \in DOMAIN l : n \in DOMAIN l /\ l[n] = l[n]
    OBVIOUS
  <2> QED  BY <1>1, <2>3, <2>4, <2>5, AssertedStays
<1>8. Once(t, w, x.message, new.message)
  <2>1. new.message \in {g.message \o result.pieces, result.pieces \o g.message}
    BY <1>3
  <2> HIDE DEF w, new
  <2> QED  BY <1>1, <2>1, OnceStatement DEF w
<1> QED  BY <1>4, <1>5, <1>6, <1>7, <1>8 DEF Accounted

\* A line for an assertion.
LEMMA AssertCalled ==
  ASSUME NEW s \in Seq(SaidSet), NEW entry \in SaidSet, entry.by = "assert",
         entry.level = kLevelFatal,
         NEW result, Proper(result, entry.call, Len(s) + 1),
         NEW l, NEW g, Accounted(s, l, NoLogger, g), NEW x,
         x.open, x.isassert, x.exp = Len(s) + 1, x.level = kLevelFatal,
         x.message = result.pieces,
         Written(l) \in Seq(PiecesOf(DOMAIN s)), g.message \in Seq(PiecesOf(DOMAIN s))
  PROVE  Accounted(Append(s, entry), l, x, g)
<1> DEFINE t == Append(s, entry)
           w == Written(l)
           k == Len(s) + 1
<1>1. /\ Known(s, << >>) /\ Whole(g, s) /\ Asserted(s, l, NoLogger, g)
      /\ Once(s, w, << >>, g.message) /\ ~ NoLogger.isassert
      /\ g.level = kLevelFatal => \E j \in DOMAIN s : Grave(s, j)
  BY NoLoggerFields DEF Accounted, Whole
<1>2. /\ DOMAIN t = DOMAIN s \cup {k} /\ k \notin DOMAIN s /\ t[k] = entry
      /\ \A j \in DOMAIN s : Grave(t, j) <=> Grave(s, j)
  BY OthersStay
<1>3. Grave(t, k)
  <2>1. entry.by # "tracer"
    OBVIOUS
  <2> QED  BY <1>2, <2>1 DEF Grave
<1>4. result.pieces \in Seq(TextOf(k)) /\ << >> \in Seq(Text) /\ << >> \o result.pieces = result.pieces
  BY ConcatEmptySeq DEF Proper, Result
<1>5. Whole(x, t)
  <2>1. Known(t, << >> \o result.pieces)
    <3>1. entry.by # "tracer"
      OBVIOUS
    <3> QED  BY <1>1, <1>4, <3>1, KnownWith
  <2> HIDE DEF t
  <2> QED  BY <1>2, <1>3, <1>4, <2>1 DEF Whole
<1>6. Whole(g, t)
  BY <1>1, WholeStays
<1>7. Cause(t, x, g)
  <2> HIDE DEF t, k
  <2> QED  BY <1>1, <1>2 DEF Cause, k
<1>8. Tells(x, k, t)
  <2>1. WellFormed(entry.call) => result.pieces = MeantOf(entry.call, k)
    <3>1. Pieces(MeantOf(entry.call, k)).pieces = MeantOf(entry.call, k)
      BY Zenon DEF Pieces
    <3> QED  BY <3>1 DEF Proper
  <2> HIDE DEF t, k
  <2> QED  BY <1>2, <2>1 DEF Tells, k
<1>9. Asserted(t, l, x, g)
  <2>1. \A n \in DOMAIN l : n \in DOMAIN l /\ l[n] = l[n]
    OBVIOUS
  <2> QED  BY <1>1, <1>8, <2>1, AssertedStays
<1>10. Once(t, w, x.message, g.message)
  <2>1. << >> \in Seq(PiecesOf(DOMAIN s)) /\ x.message \in {<< >> \o result.pieces, result.pieces \o << >>}
    BY <1>4
  <2> HIDE DEF w
  <2> QED  BY <1>1, <2>1, OnceStatement DEF w
<1> QED  BY <1>5, <1>6, <1>7, <1>9, <1>10 DEF Accounted

\* A logger that is not open is none.
LEMMA NotOpen ==
  ASSUME OnceInv
  PROVE  /\ ~ loggers.line.open => loggers.line = NoLogger
         /\ ~ loggers.group.open => loggers.group = NoLogger
BY DEF OnceInv, Accounted, Whole

\* A statement of its own is said once.
LEMMA xlogger2Once ==
  ASSUME LogInv, OnceInv, NEW lvl \in LogLevels, NEW call \in Calls, xlogger2(lvl, call)
  PROVE  OnceInv'
<1> DEFINE entry  == [call |-> call, level |-> lvl, by |-> "logger"]
           result == Routed(call, NextCall, TRUE)
           x      == XLogger(lvl)
<1>1. lvl \in 0 .. 5 /\ call \in CallSet /\ said \in Seq(SaidSet) /\ Fits(call)
  BY InputsTyped, CallsFit DEF LogInv
<1>2. /\ Say(call, lvl, "logger") /\ loggers' = [loggers EXCEPT !.line = With(x, result, FALSE)]
      /\ log' = log /\ ~ loggers.line.open
  BY DEF xlogger2
<1>3. /\ entry \in SaidSet /\ entry.level = lvl /\ said' = Append(said, entry)
      /\ NextCall = Len(said) + 1 /\ NextCall \in Nat
  BY <1>1, <1>2, SayKeeps
<1>4. Proper(result, entry.call, Len(said) + 1) /\ entry.by = "logger"
  BY <1>1, <1>3, CallProper
<1>5. /\ x \in LoggerSet /\ x.open /\ ~ x.isassert /\ x.exp = 0 /\ x.message = << >> /\ x.level = lvl
      /\ ~ NoLogger.isassert /\ NoLogger.exp = 0 /\ NoLogger.message = << >>
      /\ NoLogger \in LoggerSet
  BY <1>1, NoLoggerFields
<1> HIDE DEF entry, result, x
<1>6. Accounted(said, log, NoLogger, loggers.group)
  BY <1>2, NotOpen DEF OnceInv
<1>7. x.isassert = FALSE /\ NoLogger.isassert = FALSE
  BY <1>5 DEF LoggerSet
<1>8. Accounted(Append(said, entry), log, With(x, result, FALSE), loggers.group)
  <2>1. /\ x.isassert => x.level = kLevelFatal
        /\ x.level = kLevelFatal => entry.level = kLevelFatal \/ \E j \in DOMAIN said : Grave(said, j)
        /\ x.message = NoLogger.message /\ x.isassert = NoLogger.isassert /\ x.exp = NoLogger.exp
        /\ x.message \in Seq(PiecesOf(DOMAIN said))
    <3>1. x.message \in Seq(PiecesOf(DOMAIN said))
      <4> DEFINE T == PiecesOf(DOMAIN said)
      <4>1. << >> \in Seq(T)
        OBVIOUS
      <4> QED  BY <1>5, <4>1
    <3>2. x.level = kLevelFatal => entry.level = kLevelFatal
      BY <1>3, <1>5
    <3>3. x.message = NoLogger.message /\ x.exp = NoLogger.exp /\ x.isassert = NoLogger.isassert
      BY <1>5, <1>7
    <3>4. x.isassert => x.level = kLevelFatal
      BY <1>5
    <3> QED  BY <3>1, <3>2, <3>3, <3>4, Zenon
  <2> QED  BY <1>1, <1>3, <1>4, <1>5, <1>6, <2>1, TextsTyped, LineCalled
<1> DEFINE new == With(x, result, FALSE)
<1> HIDE DEF new
<1>9. loggers'.line = new /\ loggers'.group = loggers.group
  BY <1>2 DEF LogInv, new
<1> QED  BY <1>2, <1>3, <1>8, <1>9 DEF OnceInv, new

\* An assertion begins a line of its own.
LEMMA xassert2Once ==
  ASSUME LogInv, OnceInv, NEW call \in Calls, xassert2(call)
  PROVE  OnceInv'
<1> DEFINE lvl    == kLevelFatal
           entry  == [call |-> call, level |-> lvl, by |-> "assert"]
           result == Routed(call, NextCall, TRUE)
           x      == XLogger(lvl)
           plain  == With(x, result, FALSE)
           new    == [plain EXCEPT !.isassert = TRUE, !.exp = NextCall]
<1>1. lvl \in 0 .. 5 /\ call \in CallSet /\ said \in Seq(SaidSet) /\ Fits(call)
  BY InputsTyped, CallsFit DEF LogInv
<1>2. /\ Say(call, lvl, "assert") /\ loggers' = [loggers EXCEPT !.line = new]
      /\ log' = log /\ ~ loggers.line.open
  BY DEF xassert2
<1> HIDE DEF lvl
<1>3. /\ entry \in SaidSet /\ entry.level = lvl /\ said' = Append(said, entry)
      /\ NextCall = Len(said) + 1 /\ NextCall \in Nat
  BY <1>1, <1>2, SayKeeps
<1>4. Proper(result, entry.call, Len(said) + 1) /\ entry.by = "assert"
  BY <1>1, <1>3, CallProper
<1>5. x \in LoggerSet /\ x.open /\ x.message = << >> /\ x.level = lvl
  BY <1>1, NoLoggerFields
<1> HIDE DEF entry, result, x
<1>6. /\ plain.open /\ plain.level = kLevelFatal /\ plain.message = result.pieces
      /\ plain = [x EXCEPT !.message = plain.message, !.level = plain.level]
  <2>1. result.pieces \in Seq(TextOf(Len(said) + 1))
    BY <1>4 DEF Proper, Result
  <2>2. << >> \o result.pieces = result.pieces
    BY <2>1, ConcatEmptySeq
  <2>3. plain.message = << >> \o result.pieces /\ plain.open /\ plain.level = kLevelFatal
    <3>1. x \in LoggerSet
      BY <1>5
    <3>2. /\ plain.open = x.open
          /\ plain.level = IF "misuse" \in result.wrong THEN kLevelFatal ELSE x.level
          /\ plain.message = x.message \o result.pieces
      <4>1. Gained(plain, x, result, FALSE)
        BY <3>1, WithFields
      <4> QED  BY <4>1, Zenon DEF Gained
    <3> HIDE DEF plain
    <3>3. plain.level = kLevelFatal
      BY <1>5, <3>2 DEF lvl
    <3>4. plain.open /\ plain.message = << >> \o result.pieces
      BY <1>5, <3>2
    <3> QED  BY <3>3, <3>4
  <2>4. plain = [x EXCEPT !.message = plain.message, !.level = plain.level]
    BY <1>5 DEF With, LoggerSet
  <2> QED  BY <2>2, <2>3, <2>4
<1>7. /\ new.open /\ new.isassert /\ new.exp = Len(said) + 1
      /\ new.level = kLevelFatal /\ new.message = result.pieces
  <2> HIDE DEF plain
  <2> QED  BY <1>3, <1>5, <1>6 DEF LoggerSet
<1> HIDE DEF plain, new
<1>8. Accounted(said, log, NoLogger, loggers.group)
  BY <1>2, NotOpen DEF OnceInv
<1>9. Accounted(Append(said, entry), log, new, loggers.group)
  BY <1>1, <1>3, <1>4, <1>7, <1>8, TextsTyped, AssertCalled DEF lvl
<1>10. loggers'.line = new /\ loggers'.group = loggers.group
  BY <1>2 DEF LogInv
<1> QED  BY <1>2, <1>3, <1>9, <1>10 DEF OnceInv

\* A call on a logger that is there is said once.
LEMMA AppendOnce ==
  ASSUME LogInv, OnceInv, NEW call \in CallSet, Say(call, kLevelAll, "logger"), log' = log,
         NEW result, Proper(result, call, NextCall), NEW front \in BOOLEAN,
         \/ /\ loggers.line.open
            /\ loggers' = [loggers EXCEPT !.line = With(loggers.line, result, front)]
         \/ /\ loggers.group.open
            /\ loggers' = [loggers EXCEPT !.group = With(loggers.group, result, front)]
  PROVE  OnceInv'
<1> DEFINE entry == [call |-> call, level |-> kLevelAll, by |-> "logger"]
           x     == loggers.line
           g     == loggers.group
<1>1. said \in Seq(SaidSet) /\ kLevelAll \in 0 .. 5
  BY DEF LogInv, kLevelAll
<1>2. /\ entry \in SaidSet /\ said' = Append(said, entry)
      /\ NextCall = Len(said) + 1 /\ NextCall \in Nat
  BY <1>1, SayKeeps
<1>3. Proper(result, entry.call, Len(said) + 1) /\ entry.by = "logger"
  BY <1>2
<1> HIDE DEF entry
<1>4. loggers = [line |-> x, group |-> g]
  BY DEF LogInv
<1>5. /\ Accounted(said, log, x, g) /\ x \in LoggerSet /\ g \in LoggerSet
      /\ Written(log) \in Seq(PiecesOf(DOMAIN said)) /\ x.message \in Seq(PiecesOf(DOMAIN said))
      /\ g.message \in Seq(PiecesOf(DOMAIN said))
  BY TextsTyped DEF OnceInv
<1> HIDE DEF x, g
<1>6. CASE x.open /\ loggers' = [loggers EXCEPT !.line = With(loggers.line, result, front)]
  <2> DEFINE new == With(x, result, front)
  <2>1. /\ x.isassert => x.level = kLevelFatal
        /\ x.level = kLevelFatal => entry.level = kLevelFatal \/ \E j \in DOMAIN said : Grave(said, j)
    BY <1>5 DEF Accounted, Whole
  <2>2. Accounted(Append(said, entry), log, new, g)
    BY <1>1, <1>2, <1>3, <1>5, <1>6, <2>1, LineCalled
  <2>3. loggers' = [loggers EXCEPT !.line = new]
    BY <1>6 DEF x
  <2> HIDE DEF new
  <2>4. loggers'.line = new /\ loggers'.group = g
    BY <1>4, <2>3
  <2> QED  BY <1>2, <2>2, <2>4 DEF OnceInv
<1>7. CASE g.open /\ loggers' = [loggers EXCEPT !.group = With(loggers.group, result, front)]
  <2> DEFINE new == With(g, result, front)
  <2>1. Accounted(Append(said, entry), log, x, new)
    BY <1>1, <1>2, <1>3, <1>5, <1>7, GroupCalled
  <2>2. loggers' = [loggers EXCEPT !.group = new]
    BY <1>7 DEF g
  <2> HIDE DEF new
  <2>3. loggers'.line = x /\ loggers'.group = new
    BY <1>4, <2>2
  <2> QED  BY <1>2, <2>1, <2>3 DEF OnceInv
<1> QED  BY <1>6, <1>7 DEF x, g

\* So is a call on a group.
LEMMA GroupCallOnce ==
  ASSUME LogInv, OnceInv, NEW call \in Calls, GroupCall(call)
  PROVE  OnceInv'
<1> DEFINE form   == InGroup(call)
           result == Call(form, NextCall, TRUE)
<1>1. form \in CallSet /\ NextCall \in Nat /\ Fits(form) /\ form.kind # "raw"
  BY CallsFit, InGroupFits DEF LogInv, NextCall
<1>2. /\ Say(form, kLevelAll, "logger") /\ log' = log /\ loggers.group.open
      /\ loggers' = [loggers EXCEPT !.group = With(loggers.group, result, FALSE)]
  BY DEF GroupCall
<1> HIDE DEF form
<1>3. Proper(result, form, NextCall)
  BY <1>1, CallProper DEF result
<1> HIDE DEF result
<1>4. FALSE \in BOOLEAN
  OBVIOUS
<1> QED  BY <1>1, <1>2, <1>3, <1>4, AppendOnce

\* So are << and >>, on a line or on a group.
LEMMA StreamOnce ==
  ASSUME LogInv, OnceInv, NEW which \in {"line", "group"}, NEW value \in {"value", "NULL"},
         NEW front \in BOOLEAN, Stream(which, value, front)
  PROVE  OnceInv'
<1> DEFINE call   == StreamCall(value)
           result == Argument(call, NextCall, 0, TRUE)
<1>1. NextCall \in Nat /\ call \in CallSet
  BY CallsFit DEF LogInv, NextCall
<1>2. Proper(result, call, NextCall)
  BY <1>1, StreamProper
<1>3. /\ Say(call, kLevelAll, "logger") /\ log' = log /\ loggers[which].open
      /\ loggers' = [loggers EXCEPT ![which] = With(loggers[which], result, front)]
  BY DEF Stream
<1> HIDE DEF call, result
<1>4. \/ /\ loggers.line.open
         /\ loggers' = [loggers EXCEPT !.line = With(loggers.line, result, front)]
      \/ /\ loggers.group.open
         /\ loggers' = [loggers EXCEPT !.group = With(loggers.group, result, front)]
  BY <1>3
<1> QED  BY <1>1, <1>2, <1>3, <1>4, AppendOnce

\* The last entry of a list that is typed.
LEMMA LastOfAppend ==
  ASSUME NEW T, NEW l \in Seq(EntrySet), NEW e, Append(l, e) \in Seq(T)
  PROVE  e \in T
<1> DEFINE t == Append(l, e)
<1>1. Len(l) \in Nat /\ Len(t) = Len(l) + 1 /\ t[Len(l) + 1] = e
  OBVIOUS
<1>2. Len(l) + 1 \in 1 .. Len(t)
  BY <1>1
<1>3. t \in Seq(T)
  OBVIOUS
<1> HIDE DEF t
<1>4. t[Len(l) + 1] \in T
  BY <1>2, <1>3
<1> QED  BY <1>1, <1>4

\* A mark of a tracer is no line.
LEMMA MarkAdded ==
  ASSUME LogInv, NEW e \in EntrySet, ~ IsLine(e), log' \in {log, Append(log, e)}
  PROVE  /\ Written(log') = Written(log)
         /\ \A n \in DOMAIN log : n \in DOMAIN log' /\ log'[n] = log[n]
<1>1. log \in Seq(EntrySet) /\ log \in Seq(Lines(PiecesOf(DOMAIN said)))
  BY TextsTyped DEF LogInv
<1>2. e \in Lines(PiecesOf(DOMAIN said))
  BY DEF Lines
<1>3. Written(Append(log, e)) = Written(log)
  BY <1>1, <1>2, WrittenAppend
<1>4. \A n \in DOMAIN log : n \in DOMAIN Append(log, e) /\ Append(log, e)[n] = log[n]
  BY <1>1
<1> QED  BY <1>3, <1>4

\* A tracer's statement leaves the logger as it was.
LEMMA TracerOnce ==
  ASSUME LogInv, OnceInv, NEW call \in CallSet, NEW lvl \in 0 .. 5, Say(call, lvl, "tracer"),
         loggers' = loggers, Written(log') = Written(log),
         \A n \in DOMAIN log : n \in DOMAIN log' /\ log'[n] = log[n]
  PROVE  OnceInv'
<1> DEFINE entry == [call |-> call, level |-> lvl, by |-> "tracer"]
           x     == loggers.line
           g     == loggers.group
           t     == Append(said, entry)
<1>1. said \in Seq(SaidSet) /\ entry \in SaidSet /\ said' = t
  BY SayKeeps DEF LogInv
<1>2. entry.by = "tracer"
  OBVIOUS
<1> HIDE DEF entry
<1>3. /\ Whole(x, said) /\ Whole(g, said) /\ Cause(said, x, g) /\ Asserted(said, log, x, g)
      /\ Once(said, Written(log), x.message, g.message)
  BY DEF OnceInv, Accounted
<1>4. Whole(x, t) /\ Whole(g, t)
  BY <1>1, <1>3, WholeStays
<1>5. Cause(t, x, g)
  <2>1. DOMAIN said \subseteq DOMAIN t /\ \A j \in DOMAIN said : Grave(t, j) <=> Grave(said, j)
    BY <1>1, OthersStay
  <2> HIDE DEF t, x, g
  <2> QED  BY <1>3, <2>1 DEF Cause
<1>6. Asserted(t, log', x, g)
  <2>1. entry.by # "assert"
    BY <1>2
  <2> QED  BY <1>1, <1>3, <2>1, AssertedStays
<1>7. Once(t, Written(log'), x.message, g.message)
  BY <1>1, <1>2, <1>3, OnceTracer
<1>8. Accounted(t, log', x, g)
  BY <1>4, <1>5, <1>6, <1>7 DEF Accounted
<1> HIDE DEF t
<1> QED  BY <1>1, <1>8 DEF OnceInv

\* So does a tracer that is made,
LEMMA EnterOnce ==
  ASSUME LogInv, OnceInv, LogInv', NEW lvl \in LogLevels, NEW call \in Calls, EnterScope(lvl, call)
  PROVE  OnceInv'
<1> DEFINE e == Entry("enter", lvl, NextCall, Routed(call, NextCall, FALSE).pieces)
<1>1. /\ Say(call, lvl, "tracer") /\ loggers' = loggers /\ log' \in {log, Append(log, e)}
      /\ lvl \in 0 .. 5 /\ call \in CallSet
  BY InputsTyped DEF EnterScope
<1>2. ~ IsLine(e)
  BY DEF Entry, IsLine
<1> HIDE DEF e
<1>3. Written(log') = Written(log) /\ \A n \in DOMAIN log : n \in DOMAIN log' /\ log'[n] = log[n]
  <2>1. CASE log' = log
    BY <2>1
  <2>2. CASE log' = Append(log, e)
    <3>1. log \in Seq(EntrySet) /\ log' \in Seq(EntrySet)
      BY DEF LogInv
    <3>2. e \in EntrySet
      BY <2>2, <3>1, LastOfAppend
    <3> QED  BY <1>2, <2>2, <3>2, MarkAdded
  <2> QED  BY <1>1, <2>1, <2>2
<1> QED  BY <1>1, <1>3, TracerOnce

\* one that is given a message,
LEMMA ExitMessageOnce ==
  ASSUME LogInv, OnceInv, NEW call \in Calls, ExitMessage(call)
  PROVE  OnceInv'
<1>1. /\ Say(call, kLevelAll, "tracer") /\ loggers' = loggers /\ log' = log
      /\ kLevelAll \in 0 .. 5 /\ call \in CallSet
  BY InputsTyped DEF ExitMessage
<1>2. Written(log') = Written(log) /\ \A n \in DOMAIN log : n \in DOMAIN log' /\ log'[n] = log[n]
  BY <1>1
<1> QED  BY <1>1, <1>2, TracerOnce

\* and one that goes.
LEMMA LeaveOnce ==
  ASSUME LogInv, OnceInv, LogInv', LeaveScope
  PROVE  OnceInv'
<1> DEFINE top == scopes[Len(scopes)]
           e   == Entry("leave", top.level, top.scope, top.exitmsg)
<1>1. loggers' = loggers /\ said' = said /\ log' \in {log, Append(log, e)}
  BY DEF LeaveScope
<1>2. ~ IsLine(e)
  BY DEF Entry, IsLine
<1> HIDE DEF e
<1>3. Written(log') = Written(log) /\ \A n \in DOMAIN log : n \in DOMAIN log' /\ log'[n] = log[n]
  <2>1. CASE log' = log
    BY <2>1
  <2>2. CASE log' = Append(log, e)
    <3>1. log \in Seq(EntrySet) /\ log' \in Seq(EntrySet)
      BY DEF LogInv
    <3>2. e \in EntrySet
      BY <2>2, <3>1, LastOfAppend
    <3> QED  BY <1>2, <2>2, <3>2, MarkAdded
  <2> QED  BY <1>1, <2>1, <2>2
<1>4. Asserted(said, log', loggers.line, loggers.group)
  <2> DEFINE x == loggers.line
             g == loggers.group
             l == log'
  <2>1. Asserted(said, log, x, g) /\ \A n \in DOMAIN log : n \in DOMAIN l /\ l[n] = log[n]
    BY <1>3 DEF OnceInv, Accounted
  <2> HIDE DEF x, g, l
  <2>2. Asserted(said, l, x, g)
    BY <2>1 DEF Asserted, Reported
  <2> QED  BY <2>2 DEF x, g, l
<1> QED  BY <1>1, <1>3, <1>4 DEF OnceInv, Accounted

\* So does a group that begins.
LEMMA DefineOnce ==
  ASSUME LogInv, OnceInv, xgroup2_define
  PROVE  OnceInv'
<1> DEFINE new == XLogger(kLevelAll)
           x   == loggers.line
<1>1. /\ ~ loggers.group.open /\ loggers' = [loggers EXCEPT !.group = new]
      /\ log' = log /\ said' = said /\ kLevelAll \in 0 .. 5
  BY InputsTyped DEF xgroup2_define
<1>2. /\ new.open /\ ~ new.isassert /\ new.message = << >> /\ new.level = 0
      /\ ~ NoLogger.isassert /\ NoLogger.message = << >>
  BY <1>1, NoLoggerFields DEF kLevelAll
<1> HIDE DEF new
<1>3. /\ Whole(x, said) /\ Asserted(said, log, x, NoLogger) /\ Once(said, Written(log), x.message, << >>)
  BY <1>1, <1>2, NotOpen DEF OnceInv, Accounted
<1>4. loggers'.line = x /\ loggers'.group = new
  BY <1>1 DEF LogInv
<1> HIDE DEF x
<1>5. Whole(new, said) /\ Cause(said, x, new)
  BY <1>2 DEF Whole, Known, Cause, kLevelFatal
<1>6. Asserted(said, log, x, new)
  BY <1>2, <1>3 DEF Asserted, Reported
<1>7. Accounted(said, log, x, new)
  BY <1>2, <1>3, <1>5, <1>6 DEF Accounted
<1> QED  BY <1>1, <1>4, <1>7 DEF OnceInv

\* Merging keeps both loggers whole.
StaysWhole(s, x, g, y, h) ==
  /\ Whole(y, s) /\ Whole(h, s) /\ Cause(s, y, h)
  /\ y.message = << >> /\ h.message = g.message \o x.message

\* So they are after a merge.
LEMMA MergedWhole ==
  ASSUME NEW s \in Seq(SaidSet), NEW x \in LoggerSet, NEW g \in LoggerSet,
         Whole(x, s), Whole(g, s), x.open, g.open
  PROVE  StaysWhole(s, x, g, Merged(g, x).source, Merged(g, x).target)
<1> DEFINE y == Merged(g, x).source
           h == Merged(g, x).target
<1>1. x.message \in Seq(Text) /\ g.message \in Seq(Text)
  BY DEF LoggerSet
<1>2. y = [x EXCEPT !.isassert = FALSE, !.exp = 0, !.message = << >>]
  BY DEF Merged
<1>3. y.open /\ ~ y.isassert /\ y.message = << >> /\ y.level = x.level
  <2> HIDE DEF y
  <2> QED  BY <1>2 DEF LoggerSet
<1>4. Known(s, g.message \o x.message)
  BY <1>1, KnownConcat DEF Whole
<1>5. /\ h.open /\ h.message = g.message \o x.message
      /\ \/ h.level = x.level /\ h.isassert = x.isassert /\ h.exp = x.exp
         \/ h.level = g.level /\ h.isassert = g.isassert /\ h.exp = g.exp
  <2>1. h = IF g.level < x.level
            THEN [g EXCEPT !.message = @ \o x.message, !.level = x.level,
                           !.isassert = x.isassert, !.exp = x.exp]
            ELSE [g EXCEPT !.message = @ \o x.message]
    BY DEF Merged
  <2> HIDE DEF h
  <2>2. CASE g.level < x.level
    BY <2>1, <2>2 DEF LoggerSet
  <2>3. CASE ~ g.level < x.level
    BY <2>1, <2>3 DEF LoggerSet
  <2> QED  BY <2>2, <2>3
<1> HIDE DEF y, h
<1>6. Whole(y, s)
  BY <1>3 DEF Whole, Known
<1>7. Whole(h, s)
  BY <1>4, <1>5 DEF Whole
<1>8. Cause(s, y, h)
  BY <1>3, <1>7 DEF Cause, Whole
<1> QED  BY <1>3, <1>5, <1>6, <1>7, <1>8 DEF y, h, StaysWhole

\* A merge moves the pieces and the assertion of the line.
LEMMA MergeOnce ==
  ASSUME LogInv, OnceInv, MergeIntoGroup
  PROVE  OnceInv'
<1> DEFINE x == loggers.line
           g == loggers.group
           y == Merged(g, x).source
           h == Merged(g, x).target
<1>1. /\ x.open /\ g.open /\ loggers' = [line |-> y, group |-> h] /\ log' = log /\ said' = said
  BY DEF MergeIntoGroup
<1>2. /\ said \in Seq(SaidSet) /\ x \in LoggerSet /\ g \in LoggerSet
      /\ Accounted(said, log, x, g)
      /\ Written(log) \in Seq(Text) /\ x.message \in Seq(Text) /\ g.message \in Seq(Text)
  BY TextsTyped, PiecesAreText DEF LogInv, OnceInv
<1> HIDE DEF x, g
<1>3. /\ Whole(y, said) /\ Whole(h, said) /\ Cause(said, y, h)
      /\ y.message = << >> /\ h.message = g.message \o x.message
  <2>1. Whole(x, said) /\ Whole(g, said)
    BY <1>2 DEF Accounted
  <2>2. StaysWhole(said, x, g, y, h)
    BY <1>1, <1>2, <2>1, MergedWhole
  <2> HIDE DEF y, h
  <2> QED  BY <2>2 DEF StaysWhole
<1>4. Asserted(said, log, y, h)
  BY <1>2, AssertedMerge DEF Accounted
<1>5. Once(said, Written(log), y.message, h.message)
  <2>1. Once(said, Written(log), << >>, g.message \o x.message)
    BY <1>2, OnceMoved DEF Accounted
  <2> QED  BY <1>3, <2>1
<1>6. Accounted(said, log, y, h)
  BY <1>3, <1>4, <1>5 DEF Accounted
<1> HIDE DEF y, h
<1>7. loggers'.line = y /\ loggers'.group = h
  BY <1>1
<1> QED  BY <1>1, <1>6, <1>7 DEF OnceInv

\* A text without a NUL is written as a whole.
LEMMA WrittenWhole ==
  ASSUME NEW s \in Seq(SaidSet), NEW l \in Seq(Lines(Text)), NEW m, NEW z \in LoggerSet,
         Known(s, z.message), Calm(s), NEW kind \in {"write", "assert"},
         \/ m = l /\ z.message = << >>
         \/ m = Append(l, Entry(kind, z.level, z.exp, CStr(z.message)))
  PROVE  Written(m) = Written(l) \o z.message
<1>1. z.message \in Seq(Text) /\ z.level \in 0 .. 5 /\ z.exp \in Nat
  BY DEF LoggerSet
<1>2. CStr(z.message) = z.message
  <2>1. NULs(z.message) = {}
    BY DEF NULs, Known, Calm
  <2> QED  BY <2>1 DEF CStr
<1>3. CASE m = l /\ z.message = << >>
  <2>1. Written(l) \in Seq(Text)
    BY WrittenSeq
  <2>2. Written(l) \o << >> = Written(l)
    BY <2>1, ConcatEmptySeq
  <2> QED  BY <1>3, <2>2
<1>4. CASE m = Append(l, Entry(kind, z.level, z.exp, CStr(z.message)))
  <2> DEFINE e == Entry(kind, z.level, z.exp, z.message)
  <2>1. e \in Lines(Text) /\ IsLine(e) /\ e.message = z.message
    BY <1>1 DEF Entry, Lines, EntrySet, IsLine
  <2>2. m = Append(l, e)
    BY <1>2, <1>4
  <2> HIDE DEF e
  <2>3. Written(Append(l, e)) = Written(l) \o e.message
    BY <2>1, WrittenAppend
  <2> QED  BY <2>1, <2>2, <2>3
<1> QED  BY <1>3, <1>4

\* So the destructor moves the pieces of its logger into the log, and reports its
\* assertion there.
LEMMA DestroyOnce ==
  ASSUME LogInv, OnceInv, NEW which \in {"line", "group"}, Destroy(which)
  PROVE  OnceInv'
<1> DEFINE x    == loggers.line
           g    == loggers.group
           z    == loggers[which]
           kind == IF z.isassert THEN "assert" ELSE "write"
           e    == Entry(kind, z.level, z.exp, CStr(z.message))
           w    == Written(log)
           m    == log'
<1>1. /\ said' = said /\ loggers' = [loggers EXCEPT ![which] = NoLogger]
      /\ m = IF ~ z.isassert /\ z.message = << >> THEN log ELSE Append(log, e)
  BY DEF Destroy
<1>2. /\ said \in Seq(SaidSet) /\ x \in LoggerSet /\ g \in LoggerSet
      /\ log \in Seq(Lines(Text)) /\ loggers = [line |-> x, group |-> g]
      /\ w \in Seq(Text) /\ x.message \in Seq(Text) /\ g.message \in Seq(Text)
  BY TextsTyped, PiecesAreText DEF LogInv
<1>3. /\ Whole(x, said) /\ Whole(g, said) /\ Cause(said, x, g) /\ Asserted(said, log, x, g)
      /\ Once(said, w, x.message, g.message)
      /\ Known(said, x.message) /\ Known(said, g.message)
  BY DEF OnceInv, Accounted, Whole
<1>4. /\ (which = "line" /\ z = x) \/ (which = "group" /\ z = g)
      /\ z \in LoggerSet /\ Known(said, z.message)
  BY <1>2, <1>3
<1>5. kind \in {"write", "assert"} /\ (z.isassert => e = Entry("assert", z.level, z.exp, CStr(z.message)))
  OBVIOUS
<1>6. \A n \in DOMAIN log : n \in DOMAIN m /\ m[n] = log[n]
  <2> HIDE DEF m, e, z
  <2>1. \A n \in DOMAIN log : n \in DOMAIN Append(log, e) /\ Append(log, e)[n] = log[n]
    BY <1>2
  <2> QED  BY <1>1, <2>1
<1>7. z.isassert => \E n \in DOMAIN m : m[n] = Entry("assert", z.level, z.exp, CStr(z.message))
  <2> HIDE DEF m, e, z
  <2>1. Len(log) + 1 \in DOMAIN Append(log, e) /\ Append(log, e)[Len(log) + 1] = e
    BY <1>2
  <2> QED  BY <1>1, <1>5, <2>1
<1>8. Calm(said) => Written(m) = w \o z.message
  <2>1. (m = log /\ z.message = << >>) \/ m = Append(log, e)
    BY <1>1
  <2> HIDE DEF m, z, kind
  <2> QED  BY <1>2, <1>4, <1>5, <2>1, WrittenWhole DEF e
<1>9. Whole(NoLogger, said) /\ NoLogger.message = << >> /\ ~ NoLogger.isassert /\ NoLogger.level # kLevelFatal
  <2>1. /\ ~ NoLogger.isassert /\ NoLogger.level # kLevelFatal /\ NoLogger.message = << >>
        /\ DOMAIN << >> = {}
    BY NoLoggerFields DEF kLevelFatal
  <2> HIDE DEF NoLogger
  <2> QED  BY <2>1 DEF Whole, Known
<1> DEFINE none == NoLogger
<1> HIDE DEF m, z, x, g, w, e, kind, none
<1>10. CASE which = "line"
  <2>1. z = x
    BY <1>4, <1>10
  <2>2. Asserted(said, m, none, g)
    BY <1>2, <1>3, <1>6, <1>7, <2>1, AssertedWrite
  <2>3. Once(said, Written(m), << >>, g.message)
    <3>1. Once(said, w \o x.message, << >>, g.message)
      BY <1>2, <1>3, OnceMoved
    <3> QED  BY <1>8, <2>1, <3>1 DEF Once
  <2>4. Cause(said, none, g)
    BY <1>3, <1>9 DEF Cause, Whole, none
  <2>5. Accounted(said, m, none, g)
    BY <1>3, <1>9, <2>2, <2>3, <2>4 DEF Accounted, none
  <2>6. loggers'.line = none /\ loggers'.group = g
    BY <1>1, <1>2, <1>10 DEF none
  <2> QED  BY <1>1, <2>5, <2>6 DEF OnceInv, m
<1>11. CASE which = "group"
  <2>1. z = g
    BY <1>4, <1>11
  <2>2. Asserted(said, m, x, none)
    BY <1>2, <1>3, <1>6, <1>7, <2>1, AssertedWrite
  <2>3. Once(said, Written(m), x.message, << >>)
    <3>1. Once(said, w \o g.message, x.message, << >>)
      BY <1>2, <1>3, OnceMoved
    <3> QED  BY <1>8, <2>1, <3>1 DEF Once
  <2>4. Cause(said, x, none)
    BY <1>9 DEF Cause, none
  <2>5. Accounted(said, m, x, none)
    BY <1>3, <1>9, <2>2, <2>3, <2>4 DEF Accounted, none
  <2>6. loggers'.line = x /\ loggers'.group = none
    BY <1>1, <1>2, <1>11 DEF none
  <2> QED  BY <1>1, <2>5, <2>6 DEF OnceInv, m
<1> QED  BY <1>10, <1>11

\* Every step keeps the account.
LEMMA OnceStep == LogInv /\ OnceInv /\ [LogNext]_logVars => OnceInv'
<1> SUFFICES ASSUME LogInv, OnceInv, [LogNext]_logVars PROVE OnceInv'
  OBVIOUS
<1>0. LogInv'
  BY LogStep
<1>1. ASSUME NEW lvl \in LogLevels, xlogger_SetLevel(lvl) PROVE OnceInv'
  BY <1>1 DEF xlogger_SetLevel, OnceInv
<1>2. CASE xgroup2_define
  BY <1>2, DefineOnce
<1>3. ASSUME NEW lvl \in LogLevels, NEW call \in Calls, xlogger2(lvl, call) PROVE OnceInv'
  BY <1>3, xlogger2Once
<1>4. ASSUME NEW lvl \in LogLevels, NEW call \in Calls, EnterScope(lvl, call) PROVE OnceInv'
  BY <1>0, <1>4, EnterOnce
<1>5. ASSUME NEW call \in Calls, xassert2(call) PROVE OnceInv'
  BY <1>5, xassert2Once
<1>6. ASSUME NEW call \in Calls, GroupCall(call) PROVE OnceInv'
  BY <1>6, GroupCallOnce
<1>7. ASSUME NEW call \in Calls, ExitMessage(call) PROVE OnceInv'
  BY <1>7, ExitMessageOnce
<1>8. ASSUME NEW which \in {"line", "group"}, NEW value \in {"value", "NULL"}, NEW front \in BOOLEAN,
             Stream(which, value, front)
      PROVE  OnceInv'
  BY <1>8, StreamOnce
<1>9. ASSUME NEW which \in {"line", "group"}, Destroy(which) PROVE OnceInv'
  BY <1>9, DestroyOnce
<1>10. CASE MergeIntoGroup
  BY <1>10, MergeOnce
<1>11. CASE LeaveScope
  BY <1>0, <1>11, LeaveOnce
<1>12. CASE UNCHANGED logVars
  BY <1>12 DEF logVars, OnceInv
<1> QED  BY <1>1, <1>2, <1>3, <1>4, <1>5, <1>6, <1>7, <1>8, <1>9, <1>10, <1>11, <1>12, Zenon DEF LogNext

\* Of every statement: its pieces are all in one place, the log, the line or the
\* group; its assertion is reported there; what made a logger Fatal was said.
THEOREM OnceInductive == LogSpec => [](LogInv /\ OnceInv)
<1>1. LogInit => LogInv /\ OnceInv
  BY LogInitially, OnceInitially
<1>2. (LogInv /\ OnceInv) /\ [LogNext]_logVars => (LogInv /\ OnceInv)'
  BY LogStep, OnceStep
<1> QED  BY <1>1, <1>2, PTL DEF LogSpec

\* An assertion that fails is reported as one, with the text it was given, unless
\* it was merged into a group that another statement had made Fatal.
THEOREM AssertKeptAlways == LogSpec => []AssertKept
<1>1. LogInv /\ OnceInv => AssertKept
  <2> SUFFICES ASSUME LogInv, OnceInv, NEW k \in DOMAIN said, said[k].by = "assert"
               PROVE  \/ \E n \in DOMAIN log : log[n].kind = "assert" /\ Reports(log[n], k)
                      \/ \E which \in {"line", "group"} :
                           loggers[which].isassert /\ Reports(loggers[which], k)
                      \/ \E j \in DOMAIN said \ {k} : Severe(j) /\ said[j].by # "tracer"
    BY DEF AssertKept
  <2>1. Reported(said, log, loggers.line, loggers.group, k)
    BY DEF OnceInv, Accounted, Asserted
  <2>2. Meant(k) = MeantOf(said[k].call, k)
    BY DEF Meant, MeantOf
  <2>3. \A x : Tells(x, k, said) => Reports(x, k)
    BY <2>2 DEF Tells, Reports
  <2>4. \A j : Grave(said, j) => Severe(j) /\ said[j].by # "tracer"
    BY DEF Grave, Severe
  <2>5. "line" \in {"line", "group"} /\ "group" \in {"line", "group"}
        /\ loggers["line"] = loggers.line /\ loggers["group"] = loggers.group
    OBVIOUS
  <2> QED  BY <2>1, <2>3, <2>4, <2>5, Zenon DEF Reported
<1> QED  BY <1>1, OnceInductive, PTL

\* Of a text of statements that were made, all that the others said is left out.
LEMMA SaysAmong ==
  ASSUME NEW s \in Seq(SaidSet), NEW k \in DOMAIN s, NEW text \in Seq(PiecesOf(DOMAIN s))
  PROVE  Without(text, PiecesOf(DOMAIN s \ {k})) = SaysOf(text, k)
<1>1. DOMAIN s \subseteq Nat
  OBVIOUS
<1>2. \A n \in DOMAIN text : text[n] \in PiecesOf(DOMAIN s)
  OBVIOUS
<1>3. \A piece \in PiecesOf(DOMAIN s) :
        piece \in PiecesOf(DOMAIN s \ {k}) <=> piece \in PiecesOf(Nat \ {k})
  BY <1>1 DEF PiecesOf
<1> HIDE DEF PiecesOf
<1>4. \A n \in DOMAIN text :
        text[n] \in PiecesOf(DOMAIN s \ {k}) <=> text[n] \in PiecesOf(Nat \ {k})
  BY <1>2, <1>3
<1> QED  BY <1>4, WithoutSame DEF SaysOf

\* What a well-formed statement says is written once, in order and in one piece, or
\* still to be written, whatever is merged into what.
THEOREM OnceEachAlways == LogSpec => []OnceEach
<1>1. LogInv /\ OnceInv => OnceEach
  <2> SUFFICES ASSUME LogInv, OnceInv, \A j \in DOMAIN said : ~ HasNul(j),
                      NEW k \in DOMAIN said, said[k].by # "tracer", WellFormed(said[k].call)
               PROVE  Without(Everything, PiecesOf(DOMAIN said \ {k})) = Meant(k)
    BY DEF OnceEach
  <2> DEFINE w == Written(log)
             a == loggers.line.message
             b == loggers.group.message
  <2>1. /\ said \in Seq(SaidSet)
        /\ w \in Seq(PiecesOf(DOMAIN said)) /\ a \in Seq(PiecesOf(DOMAIN said))
        /\ b \in Seq(PiecesOf(DOMAIN said))
    BY TextsTyped DEF LogInv
  <2>2. Once(said, w, a, b)
    BY DEF OnceInv, Accounted
  <2>3. Everything = w \o a \o b /\ Meant(k) = MeantOf(said[k].call, k)
    BY DEF Everything, Meant, MeantOf
  <2> HIDE DEF w, a, b
  <2>4. InOne(w, a, b, k, Meant(k))
    <3>1. Calm(said)
      BY DEF Calm, HasEnd, HasNul
    <3> QED  BY <2>2, <2>3, <3>1 DEF Once
  <2>5. w \in Seq(Text) /\ a \in Seq(Text) /\ b \in Seq(Text) /\ k \in Nat
    BY <2>1, PiecesAreText
  <2>6. w \o a \o b \in Seq(PiecesOf(DOMAIN said)) /\ w \o a \in Seq(Text)
    BY <2>1, <2>5
  <2>7. Without(Everything, PiecesOf(DOMAIN said \ {k})) = SaysOf(w \o a \o b, k)
    BY <2>1, <2>3, <2>6, SaysAmong
  <2>8. SaysOf(w \o a \o b, k) = SaysOf(w, k) \o SaysOf(a, k) \o SaysOf(b, k)
    <3> DEFINE both == w \o a
    <3>1. both \in Seq(Text) /\ SaysOf(both, k) = SaysOf(w, k) \o SaysOf(a, k)
      BY <2>5, <2>6, SaysJoined
    <3> HIDE DEF both
    <3>2. SaysOf(both \o b, k) = SaysOf(both, k) \o SaysOf(b, k)
      BY <2>5, <3>1, SaysJoined
    <3> QED  BY <3>1, <3>2 DEF both
  <2>9. SaysOf(w, k) \in Seq(Text) /\ SaysOf(a, k) \in Seq(Text) /\ SaysOf(b, k) \in Seq(Text)
    BY <2>5, SaysJoined
  <2>10. Meant(k) \in Seq(Text) /\ << >> \in Seq(Text)
    BY <2>4, <2>9 DEF InOne
  <2>11. << >> \o Meant(k) = Meant(k) /\ Meant(k) \o << >> = Meant(k)
    BY <2>10, ConcatEmptySeq
  <2>12. << >> \o << >> = << >>
    BY <2>10, ConcatEmptySeq
  <2>13. SaysOf(w, k) \o SaysOf(a, k) \o SaysOf(b, k) = Meant(k)
    BY <2>4, <2>11, <2>12, Zenon DEF InOne
  <2> QED  BY <2>7, <2>8, <2>13
<1> QED  BY <1>1, OnceInductive, PTL

=============================================================================
