--------------------------- MODULE NikiParserProofs ----------------------------
(***************************************************************************)
(* What the parser accepts is balanced and grouped by precedence, for      *)
(* every source of tokens of any length.                                   *)
(*                                                                         *)
(* The call stack todo is read as a path through stacks of open brackets:  *)
(* each step still to be done leads from one to the next, the last one to  *)
(* none open.  A step is sound when whatever it puts in its place leads    *)
(* the same way and is sound again; the grammar is made of sound steps.    *)
(***************************************************************************)
EXTENDS NikiParser, SequenceTheorems, TLAPS

-----------------------------------------------------------------------------
(***************************************************************************)
(* Sequences of steps, of which there is no set.                           *)
(***************************************************************************)
IsSeq(b) == \E S : b \in Seq(S)

LEMMA SeqIs ==
  ASSUME NEW b, IsSeq(b)
  PROVE  Len(b) \in Nat /\ DOMAIN b = 1..Len(b) /\ (b # <<>> <=> Len(b) > 0)
<1>1. PICK S : b \in Seq(S)
  BY DEF IsSeq
<1>2. Len(b) \in Nat /\ DOMAIN b = 1..Len(b)
  BY <1>1, LenProperties
<1>3. b # <<>> <=> Len(b) > 0
  BY <1>1, <1>2, EmptySeq
<1> QED
  BY <1>2, <1>3

LEMMA TailIs ==
  ASSUME NEW b, IsSeq(b), b # <<>>
  PROVE  /\ IsSeq(Tail(b)) /\ Len(Tail(b)) = Len(b) - 1 /\ Head(b) = b[1]
         /\ \A k \in 1..Len(Tail(b)) : Tail(b)[k] = b[k + 1]
<1>1. PICK S : b \in Seq(S)
  BY DEF IsSeq
<1>2. /\ Tail(b) \in Seq(S) /\ Len(Tail(b)) = Len(b) - 1
      /\ \A k \in 1..Len(Tail(b)) : Tail(b)[k] = b[k + 1]
  BY <1>1, HeadTailProperties
<1>3. Head(b) = b[1]
  BY <1>1
<1> QED
  BY <1>2, <1>3 DEF IsSeq

LEMMA ConcatIs ==
  ASSUME NEW b, NEW c, IsSeq(b), IsSeq(c)
  PROVE  /\ IsSeq(b \o c) /\ Len(b \o c) = Len(b) + Len(c)
         /\ \A k \in 1..(Len(b) + Len(c)) : (b \o c)[k] = IF k =< Len(b) THEN b[k] ELSE c[k - Len(b)]
<1>1. PICK S : b \in Seq(S)
  BY DEF IsSeq
<1>2. PICK T : c \in Seq(T)
  BY DEF IsSeq
<1>3. b \in Seq(S \cup T) /\ c \in Seq(S \cup T)
  BY <1>1, <1>2, SeqMonotonic
<1>4. /\ b \o c \in Seq(S \cup T) /\ Len(b \o c) = Len(b) + Len(c)
      /\ \A k \in 1..(Len(b) + Len(c)) : (b \o c)[k] = IF k =< Len(b) THEN b[k] ELSE c[k - Len(b)]
  BY <1>3, ConcatProperties
<1> QED
  BY <1>4 DEF IsSeq

LEMMA AppendIs ==
  ASSUME NEW b, NEW s, IsSeq(b)
  PROVE  /\ IsSeq(Append(b, s)) /\ Len(Append(b, s)) = Len(b) + 1
         /\ \A k \in 1..Len(b) : Append(b, s)[k] = b[k]
         /\ Append(b, s)[Len(b) + 1] = s
<1>1. PICK S : b \in Seq(S)
  BY DEF IsSeq
<1>2. b \in Seq(S \cup {s}) /\ s \in S \cup {s}
  BY <1>1, SeqMonotonic
<1> DEFINE T == S \cup {s}
<1>3. b \in Seq(T) /\ s \in T
  BY <1>2
<1> HIDE DEF T
<1>4. /\ Append(b, s) \in Seq(T) /\ Len(Append(b, s)) = Len(b) + 1
      /\ \A k \in 1..Len(b) : Append(b, s)[k] = b[k]
      /\ Append(b, s)[Len(b) + 1] = s
  BY <1>3, AppendProperties
<1> QED
  BY <1>4 DEF IsSeq

-----------------------------------------------------------------------------
(***************************************************************************)
(* Brackets.                                                               *)
(***************************************************************************)
Bracket == Opening \cup Closing

\* Nothing is known of the brackets once an error was reported.
Dead  == <<"dead">>
Stack == Seq(Bracket \cup {"dead"})

\* A step leads from the brackets open before it to those open after it.
Leads(s, X, Y) ==
  /\ s[1] = "consume" /\ s[2] \in Opening => Y = Append(X, s[2])
  /\ s[1] = "consume" /\ s[2] \in Closing => \E o \in Opening : <<o, s[2]>> \in Pairs /\ X = Append(Y, o)
  /\ s[1] = "consume" /\ s[2] \notin Bracket => Y = X
  /\ s[1] = "parseBlockStmt" => X = Append(Y, "{")
  /\ s[1] \in {"advance", "synchronize", "skip"} => X = Dead
  /\ s[1] \notin {"consume", "parseBlockStmt", "errorAtCurrent", "advance", "synchronize", "skip"} => Y = X

Path(X, b, Y) ==
  \E st \in [1..(Len(b) + 1) -> Stack] :
    /\ st[1] = X /\ st[Len(b) + 1] = Y
    /\ \A k \in 1..Len(b) : Leads(b[k], st[k], st[k + 1])

Balanced(b)     == \A X \in Stack : Path(X, b, X)
ClosesFor(b, o) == \A X \in Stack : Path(Append(X, o), b, X)

LEMMA StackIs ==
  /\ Dead \in Stack /\ <<>> \in Stack
  /\ \A X \in Seq(Bracket) : X \in Stack /\ X # Dead
  /\ \A X \in Stack, o \in Bracket : Append(X, o) \in Stack
<1>1. Dead \in Stack /\ <<>> \in Stack
  BY DEF Dead, Stack
<1>2. ASSUME NEW X \in Seq(Bracket) PROVE X \in Stack /\ X # Dead
  <2>1. X \in Stack
    BY SeqMonotonic DEF Stack
  <2>2. X # Dead
    <3>1. SUFFICES ASSUME X = Dead PROVE FALSE
      OBVIOUS
    <3>2. Len(X) = 1 /\ X[1] = "dead"
      BY <3>1 DEF Dead
    <3>3. "dead" \in Bracket
      BY <3>2, ElementOfSeq
    <3> QED
      BY <3>3 DEF Bracket, Opening, Closing
  <2> QED
    BY <2>1, <2>2
<1>3. \A X \in Stack, o \in Bracket : Append(X, o) \in Stack
  BY AppendProperties DEF Stack
<1> QED
  BY <1>1, <1>2, <1>3

LEMMA PathOf ==
  ASSUME NEW b, NEW X, NEW Y, NEW st, IsSeq(b), st \in [1..(Len(b) + 1) -> Stack],
         st[1] = X, st[Len(b) + 1] = Y, \A k \in 1..Len(b) : Leads(b[k], st[k], st[k + 1])
  PROVE  Path(X, b, Y)
BY DEF Path

LEMMA PathEnds ==
  ASSUME NEW b, NEW X, NEW Y, IsSeq(b), Path(X, b, Y)
  PROVE  X \in Stack /\ Y \in Stack /\ (b = <<>> => X = Y)
<1>1. Len(b) \in Nat /\ (b = <<>> => Len(b) = 0)
  BY SeqIs
<1>2. PICK st \in [1..(Len(b) + 1) -> Stack] : st[1] = X /\ st[Len(b) + 1] = Y
  BY DEF Path
<1>3. 1 \in 1..(Len(b) + 1) /\ Len(b) + 1 \in 1..(Len(b) + 1)
  BY <1>1
<1> QED
  BY <1>1, <1>2, <1>3

\* The first step of a path, and the rest of it.
LEMMA PathHead ==
  ASSUME NEW b, NEW X, NEW Z, IsSeq(b), b # <<>>, Path(X, b, Z)
  PROVE  \E Y \in Stack : Leads(Head(b), X, Y) /\ Path(Y, Tail(b), Z)
<1> DEFINE t == Tail(b)
<1>1. /\ IsSeq(t) /\ Len(t) = Len(b) - 1 /\ Head(b) = b[1] /\ Len(b) \in Nat /\ Len(b) > 0
      /\ \A k \in 1..Len(t) : t[k] = b[k + 1]
  BY TailIs, SeqIs
<1>2. PICK st \in [1..(Len(b) + 1) -> Stack] :
        /\ st[1] = X /\ st[Len(b) + 1] = Z
        /\ \A k \in 1..Len(b) : Leads(b[k], st[k], st[k + 1])
  BY DEF Path
<1> DEFINE su == [k \in 1..(Len(t) + 1) |-> st[k + 1]]
<1> HIDE DEF t
<1>3. \A k \in 1..(Len(t) + 1) : k + 1 \in 1..(Len(b) + 1)
  BY <1>1
<1>4. su \in [1..(Len(t) + 1) -> Stack]
  BY <1>3
<1>5. 1 \in 1..(Len(t) + 1) /\ Len(t) + 1 \in 1..(Len(t) + 1) /\ Len(t) \in Nat /\ 1 \in 1..Len(b) /\ 2 \in 1..(Len(b) + 1)
  BY <1>1
<1>6. su[1] = st[2] /\ su[Len(t) + 1] = Z
  BY <1>1, <1>2, <1>5
<1>7. \A k \in 1..Len(t) : Leads(t[k], su[k], su[k + 1])
  <2>1. SUFFICES ASSUME NEW k \in 1..Len(t) PROVE Leads(t[k], su[k], su[k + 1])
    OBVIOUS
  <2>2. k + 1 \in 1..Len(b) /\ k \in 1..(Len(t) + 1) /\ k + 1 \in 1..(Len(t) + 1)
    BY <1>1, <1>5
  <2>3. t[k] = b[k + 1] /\ su[k] = st[k + 1] /\ su[k + 1] = st[(k + 1) + 1]
    BY <1>1, <2>2
  <2>4. Leads(b[k + 1], st[k + 1], st[(k + 1) + 1])
    BY <1>2, <2>2
  <2> QED
    BY <2>3, <2>4
<1> HIDE DEF su
<1>8. Path(st[2], t, Z)
  BY <1>1, <1>4, <1>6, <1>7, PathOf
<1>9. Leads(b[1], X, st[2]) /\ st[2] \in Stack
  <2>1. Leads(b[1], st[1], st[1 + 1])
    BY <1>2, <1>5
  <2> QED
    BY <1>2, <1>5, <2>1
<1> QED
  BY <1>1, <1>8, <1>9 DEF t

LEMMA PathJoin ==
  ASSUME NEW b, NEW c, NEW X, NEW Y, NEW Z, IsSeq(b), IsSeq(c), Path(X, b, Y), Path(Y, c, Z)
  PROVE  Path(X, b \o c, Z)
<1> DEFINE m == Len(b)
           n == Len(c)
           d == b \o c
<1>1. /\ IsSeq(d) /\ Len(d) = m + n /\ m \in Nat /\ n \in Nat
      /\ \A k \in 1..(m + n) : d[k] = IF k =< m THEN b[k] ELSE c[k - m]
  BY SeqIs, ConcatIs
<1>2. PICK sb \in [1..(m + 1) -> Stack] :
        sb[1] = X /\ sb[m + 1] = Y /\ \A k \in 1..m : Leads(b[k], sb[k], sb[k + 1])
  BY DEF Path
<1>3. PICK sc \in [1..(n + 1) -> Stack] :
        sc[1] = Y /\ sc[n + 1] = Z /\ \A k \in 1..n : Leads(c[k], sc[k], sc[k + 1])
  BY DEF Path
<1> DEFINE st == [k \in 1..(m + n + 1) |-> IF k =< m THEN sb[k] ELSE sc[k - m]]
<1> HIDE DEF m, n, d
<1>4. st \in [1..(Len(d) + 1) -> Stack]
  <2>1. \A k \in 1..(m + n + 1) : k =< m => k \in 1..(m + 1)
    BY <1>1
  <2>2. \A k \in 1..(m + n + 1) : ~(k =< m) => k - m \in 1..(n + 1)
    BY <1>1
  <2>3. st \in [1..(m + n + 1) -> Stack]
    BY <2>1, <2>2
  <2> HIDE DEF st
  <2> QED
    BY <1>1, <2>3
<1>5. \A k \in 1..(m + 1) : st[k] = sb[k]
  <2>1. \A k \in 1..m : k \in 1..(m + n + 1) /\ k =< m
    BY <1>1
  <2>2. st[m + 1] = sc[1]
    <3>1. m + 1 \in 1..(m + n + 1) /\ ~(m + 1 =< m) /\ (m + 1) - m = 1
      BY <1>1
    <3> QED
      BY <3>1
  <2>3. \A k \in 1..m : st[k] = sb[k]
    BY <2>1
  <2>4. \A k \in 1..(m + 1) : k \in 1..m \/ k = m + 1
    BY <1>1
  <2> HIDE DEF st
  <2> QED
    BY <1>2, <1>3, <2>2, <2>3, <2>4
<1>6. \A k \in 1..(n + 1) : st[m + k] = sc[k]
  <2>1. \A k \in 1..(n + 1) : m + k \in 1..(m + n + 1) /\ ~(m + k =< m) /\ (m + k) - m = k
    BY <1>1
  <2> QED
    BY <2>1
<1> HIDE DEF st
<1>7. ASSUME NEW k \in 1..Len(d) PROVE Leads(d[k], st[k], st[k + 1])
  <2>1. CASE k =< m
    <3>1. k \in 1..m /\ k \in 1..(m + 1) /\ k + 1 \in 1..(m + 1) /\ k \in 1..(m + n)
      BY <1>1, <2>1
    <3> QED
      BY <1>1, <1>2, <1>5, <2>1, <3>1
  <2>2. CASE ~(k =< m)
    <3> DEFINE j == k - m
    <3>1. /\ j \in 1..n /\ j \in 1..(n + 1) /\ j + 1 \in 1..(n + 1) /\ k \in 1..(m + n)
          /\ m + j = k /\ m + (j + 1) = k + 1
      BY <1>1, <2>2
    <3>2. d[k] = c[j]
      BY <1>1, <2>2, <3>1
    <3> HIDE DEF j
    <3>3. st[m + j] = sc[j] /\ st[m + (j + 1)] = sc[j + 1]
      BY <1>6, <3>1
    <3> QED
      BY <1>3, <3>1, <3>2, <3>3
  <2> QED
    BY <2>1, <2>2
<1>8. st[1] = X /\ st[Len(d) + 1] = Z
  <2>1. 1 \in 1..(m + 1) /\ n + 1 \in 1..(n + 1) /\ m + (n + 1) = Len(d) + 1
    BY <1>1
  <2> QED
    BY <1>2, <1>3, <1>5, <1>6, <2>1
<1> QED
  BY <1>1, <1>4, <1>7, <1>8, PathOf DEF d

-----------------------------------------------------------------------------
(***************************************************************************)
(* The steps that read brackets, and the shapes the bodies have.           *)
(***************************************************************************)
Neutral(s) ==
  \/ s[1] \notin {"consume", "parseBlockStmt", "advance", "synchronize", "skip"}
  \/ s[1] = "consume" /\ s[2] \notin Bracket

LEMMA NeutralLeads == ASSUME NEW s, Neutral(s), NEW X PROVE Leads(s, X, X)
BY DEF Neutral, Leads, Bracket

LEMMA OpenLeads == ASSUME NEW o \in Opening, NEW X PROVE Leads(consume(o), X, Append(X, o))
BY DEF Leads, consume, Opening, Closing, Bracket

LEMMA CloseLeads == ASSUME NEW o, NEW c, <<o, c>> \in Pairs, NEW X PROVE Leads(consume(c), Append(X, o), X)
<1>1. /\ o \in Opening /\ c \in Closing /\ c \notin Opening /\ c \in Bracket
  BY DEF Pairs, Opening, Closing, Bracket
<1> QED
  BY <1>1 DEF Leads, consume

LEMMA BlockLeads == ASSUME NEW X PROVE Leads(Call("parseBlockStmt"), Append(X, "{"), X)
BY DEF Leads, Call

LEMMA FlatPath ==
  ASSUME NEW b, IsSeq(b), NEW X \in Stack, \A k \in 1..Len(b) : Leads(b[k], X, X)
  PROVE  Path(X, b, X)
<1> DEFINE st == [k \in 1..(Len(b) + 1) |-> X]
<1>1. Len(b) \in Nat
  BY SeqIs
<1>2. /\ st \in [1..(Len(b) + 1) -> Stack] /\ st[1] = X /\ st[Len(b) + 1] = X
      /\ \A k \in 1..Len(b) : Leads(b[k], st[k], st[k + 1])
  BY <1>1
<1> HIDE DEF st
<1> QED
  BY <1>2, PathOf

\* One bracket is closed, by step j.
LEMMA ClosePath ==
  ASSUME NEW b, IsSeq(b), NEW X \in Stack, NEW W \in Stack, NEW j \in 1..Len(b), Leads(b[j], W, X),
         \A k \in 1..Len(b) : k # j => Neutral(b[k])
  PROVE  Path(W, b, X)
<1> DEFINE st == [k \in 1..(Len(b) + 1) |-> IF k =< j THEN W ELSE X]
<1>1. Len(b) \in Nat /\ j \in Nat
  BY SeqIs
<1>2. st \in [1..(Len(b) + 1) -> Stack] /\ st[1] = W /\ st[Len(b) + 1] = X
  BY <1>1
<1>3. ASSUME NEW k \in 1..Len(b) PROVE Leads(b[k], st[k], st[k + 1])
  <2>1. CASE k = j
    <3>1. st[k] = W /\ st[k + 1] = X
      BY <1>1, <2>1
    <3> QED
      BY <2>1, <3>1
  <2>2. CASE k # j
    <3>1. st[k + 1] = st[k]
      BY <1>1, <2>2
    <3> HIDE DEF st
    <3> QED
      BY <2>2, <3>1, NeutralLeads
  <2> QED
    BY <2>1, <2>2
<1> HIDE DEF st
<1> QED
  BY <1>2, <1>3, PathOf

\* One bracket is opened, by step i, and closed, by step j.
LEMMA PairPath ==
  ASSUME NEW b, IsSeq(b), NEW X \in Stack, NEW W \in Stack, NEW i \in 1..Len(b), NEW j \in 1..Len(b), i < j,
         Leads(b[i], X, W), Leads(b[j], W, X),
         \A k \in 1..Len(b) : k \notin {i, j} => Neutral(b[k])
  PROVE  Path(X, b, X)
<1> DEFINE st == [k \in 1..(Len(b) + 1) |-> IF i < k /\ k =< j THEN W ELSE X]
<1>1. Len(b) \in Nat /\ i \in Nat /\ j \in Nat
  BY SeqIs
<1>2. st \in [1..(Len(b) + 1) -> Stack] /\ st[1] = X /\ st[Len(b) + 1] = X
  BY <1>1
<1>3. ASSUME NEW k \in 1..Len(b) PROVE Leads(b[k], st[k], st[k + 1])
  <2>1. CASE k = i
    <3>1. st[k] = X /\ st[k + 1] = W
      BY <1>1, <2>1
    <3> QED
      BY <2>1, <3>1
  <2>2. CASE k = j
    <3>1. st[k] = W /\ st[k + 1] = X
      BY <1>1, <2>2
    <3> QED
      BY <2>2, <3>1
  <2>3. CASE k \notin {i, j}
    <3>1. st[k + 1] = st[k]
      BY <1>1, <2>3
    <3> HIDE DEF st
    <3> QED
      BY <2>3, <3>1, NeutralLeads
  <2> QED
    BY <2>1, <2>2, <2>3
<1> HIDE DEF st
<1> QED
  BY <1>2, <1>3, PathOf

-----------------------------------------------------------------------------
(***************************************************************************)
(* Sound steps.                                                            *)
(***************************************************************************)
\* What a token table, a test or a loop puts in its place is made of steps of U
\* and leads the same way.
Unfolds(s, U) ==
  /\ s[1] \notin {"operators", "parsePrefix", "parseInfix"}
  /\ s[1] = "parseExpression" => s[2] \in 0..Unary
  /\ s[1] = "match" =>
       /\ \A t \in DOMAIN s[2] : s[2][t] \in Seq(U) /\ t \notin Closing
       /\ \A t \in DOMAIN s[2] : IF t \in Opening THEN ClosesFor(s[2][t], t) ELSE Balanced(s[2][t])
       /\ s[3] \in Seq(U) /\ Balanced(s[3])
  /\ s[1] = "check" => s[3] \in Seq(U) /\ s[4] \in Seq(U) /\ Balanced(s[3]) /\ Balanced(s[4])
  /\ s[1] \in {"while", "list"} => s[3] \in Seq(U) /\ Balanced(s[3])

Closed(U) == \A s \in U : Unfolds(s, U)
Sound(s)  == \E U : s \in U /\ Closed(U)
Body(b)   == IsSeq(b) /\ \A k \in 1..Len(b) : Sound(b[k])

LEMMA UnfoldsMore ==
  ASSUME NEW s, NEW U, NEW V, U \subseteq V, Unfolds(s, U)
  PROVE  Unfolds(s, V)
<1>1. \A b : b \in Seq(U) => b \in Seq(V)
  BY SeqMonotonic
<1> QED
  BY <1>1 DEF Unfolds

LEMMA Universe ==
  ASSUME NEW E, \A x \in E : Sound(x)
  PROVE  \E U : E \subseteq U /\ Closed(U)
<1> DEFINE W(x) == CHOOSE U : x \in U /\ Closed(U)
           V == UNION {W(x) : x \in E}
<1>1. ASSUME NEW x \in E PROVE x \in W(x) /\ Closed(W(x)) /\ W(x) \subseteq V
  BY DEF Sound
<1>2. E \subseteq V
  BY <1>1
<1>3. Closed(V)
  <2>1. SUFFICES ASSUME NEW s \in V PROVE Unfolds(s, V)
    BY DEF Closed
  <2>2. PICK x \in E : s \in W(x)
    OBVIOUS
  <2> HIDE DEF W, V
  <2>3. Unfolds(s, W(x)) /\ W(x) \subseteq V
    BY <1>1, <2>2 DEF Closed
  <2> QED
    BY <2>3, UnfoldsMore
<1> QED
  BY <1>2, <1>3

LEMMA SeqOver ==
  ASSUME NEW b, IsSeq(b), NEW U, \A k \in 1..Len(b) : b[k] \in U
  PROVE  b \in Seq(U)
<1>1. PICK S : b \in Seq(S)
  BY DEF IsSeq
<1>2. Len(b) \in Nat /\ b \in [1..Len(b) -> S]
  BY <1>1, LenProperties
<1>3. b \in [1..Len(b) -> U]
  BY <1>2
<1> QED
  BY <1>2, <1>3, SeqDef

LEMMA BodyOver ==
  ASSUME NEW U, Closed(U), NEW b \in Seq(U)
  PROVE  Body(b)
<1>1. \A k \in 1..Len(b) : b[k] \in U
  BY ElementOfSeq
<1> QED
  BY <1>1 DEF Body, Sound, IsSeq

\* A step whose parts are sound is sound.
LEMMA SoundIf ==
  ASSUME NEW s, NEW U, Closed(U), Unfolds(s, U)
  PROVE  Sound(s)
<1>1. U \subseteq U \cup {s}
  OBVIOUS
<1>2. \A x \in U \cup {s} : Unfolds(x, U \cup {s})
  BY <1>1, UnfoldsMore DEF Closed
<1> QED
  BY <1>2 DEF Sound, Closed

LEMMA LeafSound ==
  ASSUME NEW s, s[1] \notin {"operators", "parsePrefix", "parseInfix", "match", "check", "while", "list"},
         s[1] = "parseExpression" => s[2] \in 0..Unary
  PROVE  Sound(s)
<1>1. Closed({})
  BY DEF Closed
<1>2. Unfolds(s, {})
  BY DEF Unfolds
<1> QED
  BY <1>1, <1>2, SoundIf

LEMMA MatchSound ==
  ASSUME NEW table, NEW else, Body(else), Balanced(else),
         \A t \in DOMAIN table : Body(table[t]) /\ t \notin Closing,
         \A t \in DOMAIN table : IF t \in Opening THEN ClosesFor(table[t], t) ELSE Balanced(table[t])
  PROVE  Sound(match(table, else)) /\ Neutral(match(table, else))
<1> DEFINE E == (UNION {{table[t][k] : k \in 1..Len(table[t])} : t \in DOMAIN table})
                  \cup {else[k] : k \in 1..Len(else)}
<1>1. \A x \in E : Sound(x)
  BY DEF Body
<1>2. /\ \A t \in DOMAIN table : \A k \in 1..Len(table[t]) : table[t][k] \in E
      /\ \A k \in 1..Len(else) : else[k] \in E
  OBVIOUS
<1> HIDE DEF E
<1>3. PICK U : E \subseteq U /\ Closed(U)
  BY <1>1, Universe
<1>4. \A t \in DOMAIN table : table[t] \in Seq(U)
  BY <1>2, <1>3, SeqOver DEF Body
<1>5. else \in Seq(U)
  BY <1>2, <1>3, SeqOver DEF Body
<1>6. Unfolds(match(table, else), U)
  BY <1>4, <1>5 DEF Unfolds, match
<1> QED
  BY <1>3, <1>6, SoundIf DEF Neutral, match

LEMMA CheckSound ==
  ASSUME NEW ts, NEW then, NEW else, Body(then), Balanced(then), Body(else), Balanced(else)
  PROVE  Sound(check(ts, then, else)) /\ Neutral(check(ts, then, else))
<1> DEFINE E == {then[k] : k \in 1..Len(then)} \cup {else[k] : k \in 1..Len(else)}
<1>1. \A x \in E : Sound(x)
  BY DEF Body
<1>2. (\A k \in 1..Len(then) : then[k] \in E) /\ (\A k \in 1..Len(else) : else[k] \in E)
  OBVIOUS
<1> HIDE DEF E
<1>3. PICK U : E \subseteq U /\ Closed(U)
  BY <1>1, Universe
<1>4. then \in Seq(U) /\ else \in Seq(U)
  BY <1>2, <1>3, SeqOver DEF Body
<1>5. Unfolds(check(ts, then, else), U)
  BY <1>4 DEF Unfolds, check
<1> QED
  BY <1>3, <1>5, SoundIf DEF Neutral, check

LEMMA LoopSound ==
  ASSUME NEW stop, NEW body, Body(body), Balanced(body)
  PROVE  /\ Sound(while(stop, body)) /\ Neutral(while(stop, body))
         /\ Sound(list(stop, body)) /\ Neutral(list(stop, body))
<1> DEFINE E == {body[k] : k \in 1..Len(body)}
<1>1. \A x \in E : Sound(x)
  BY DEF Body
<1>2. \A k \in 1..Len(body) : body[k] \in E
  OBVIOUS
<1> HIDE DEF E
<1>3. PICK U : E \subseteq U /\ Closed(U)
  BY <1>1, Universe
<1>4. body \in Seq(U)
  BY <1>2, <1>3, SeqOver DEF Body
<1>5. Unfolds(while(stop, body), U) /\ Unfolds(list(stop, body), U)
  BY <1>4 DEF Unfolds, while, list
<1> QED
  BY <1>3, <1>5, SoundIf DEF Neutral, while, list

\* What a sound step puts in its place is sound.
LEMMA SoundIs ==
  ASSUME NEW s, Sound(s)
  PROVE  /\ s[1] \notin {"operators", "parsePrefix", "parseInfix"}
         /\ s[1] = "parseExpression" => s[2] \in 0..Unary
         /\ s[1] = "match" =>
              /\ \A t \in DOMAIN s[2] : Body(s[2][t]) /\ t \notin Closing
              /\ \A t \in DOMAIN s[2] : IF t \in Opening THEN ClosesFor(s[2][t], t) ELSE Balanced(s[2][t])
              /\ Body(s[3]) /\ Balanced(s[3])
         /\ s[1] = "check" => Body(s[3]) /\ Body(s[4]) /\ Balanced(s[3]) /\ Balanced(s[4])
         /\ s[1] \in {"while", "list"} => Body(s[3]) /\ Balanced(s[3])
<1>1. PICK U : s \in U /\ Closed(U)
  BY DEF Sound
<1>2. Unfolds(s, U)
  BY <1>1 DEF Closed
<1>3. \A b : b \in Seq(U) => Body(b)
  BY <1>1, BodyOver
<1> QED
  BY <1>2, <1>3 DEF Unfolds

-----------------------------------------------------------------------------
(***************************************************************************)
(* Bodies: what parse functions are made of.                               *)
(***************************************************************************)
Plain(s)     == Sound(s) /\ Neutral(s)
Flat(b)      == Body(b) /\ Balanced(b)
Closes(b, o) == Body(b) /\ ClosesFor(b, o)

LEMMA FlatBody ==
  ASSUME NEW b, IsSeq(b), \A k \in 1..Len(b) : Plain(b[k])
  PROVE  Flat(b)
<1>1. ASSUME NEW X \in Stack PROVE Path(X, b, X)
  BY FlatPath, NeutralLeads DEF Plain
<1> QED
  BY <1>1 DEF Flat, Body, Balanced, Plain

LEMMA ConsumeSound == ASSUME NEW t PROVE Sound(consume(t)) /\ (t \notin Bracket => Plain(consume(t)))
<1>1. Sound(consume(t))
  BY LeafSound DEF consume
<1> QED
  BY <1>1 DEF Plain, Neutral, consume

LEMMA ClosingBody ==
  ASSUME NEW b, IsSeq(b), NEW o, NEW c, <<o, c>> \in Pairs, NEW j \in 1..Len(b), b[j] = consume(c),
         \A k \in 1..Len(b) : k # j => Plain(b[k])
  PROVE  Closes(b, o)
<1>1. o \in Bracket
  BY DEF Pairs, Bracket, Opening, Closing
<1>2. ASSUME NEW X \in Stack PROVE Path(Append(X, o), b, X)
  <2>1. Leads(b[j], Append(X, o), X) /\ Append(X, o) \in Stack
    BY <1>1, CloseLeads, StackIs
  <2> QED
    BY <2>1, ClosePath DEF Plain
<1>3. \A k \in 1..Len(b) : Sound(b[k])
  BY ConsumeSound DEF Plain
<1> QED
  BY <1>2, <1>3 DEF Closes, ClosesFor, Body

LEMMA PairBody ==
  ASSUME NEW b, IsSeq(b), NEW o, NEW c, <<o, c>> \in Pairs, NEW i \in 1..Len(b), NEW j \in 1..Len(b), i < j,
         b[i] = consume(o), b[j] = consume(c), \A k \in 1..Len(b) : k \notin {i, j} => Plain(b[k])
  PROVE  Flat(b)
<1>1. o \in Opening /\ o \in Bracket
  BY DEF Pairs, Bracket, Opening, Closing
<1>2. ASSUME NEW X \in Stack PROVE Path(X, b, X)
  <2>1. Leads(b[i], X, Append(X, o)) /\ Leads(b[j], Append(X, o), X) /\ Append(X, o) \in Stack
    BY <1>1, OpenLeads, CloseLeads, StackIs
  <2> QED
    BY <2>1, PairPath DEF Plain
<1>3. \A k \in 1..Len(b) : Sound(b[k])
  BY ConsumeSound DEF Plain
<1> QED
  BY <1>2, <1>3 DEF Flat, Balanced, Body

LEMMA BodyConcat ==
  ASSUME NEW b, NEW c, Body(b), Body(c)
  PROVE  Body(b \o c)
<1>1. /\ IsSeq(b \o c) /\ Len(b \o c) = Len(b) + Len(c) /\ Len(b) \in Nat /\ Len(c) \in Nat
      /\ \A k \in 1..(Len(b) + Len(c)) : (b \o c)[k] = IF k =< Len(b) THEN b[k] ELSE c[k - Len(b)]
  BY ConcatIs, SeqIs DEF Body
<1>2. ASSUME NEW k \in 1..Len(b \o c) PROVE Sound((b \o c)[k])
  <2>1. CASE k =< Len(b)
    <3>1. k \in 1..Len(b)
      BY <1>1, <2>1
    <3> QED
      BY <1>1, <2>1, <3>1 DEF Body
  <2>2. CASE ~(k =< Len(b))
    <3>1. k - Len(b) \in 1..Len(c)
      BY <1>1, <2>2
    <3> QED
      BY <1>1, <2>2, <3>1 DEF Body
  <2> QED
    BY <2>1, <2>2
<1> QED
  BY <1>1, <1>2 DEF Body

LEMMA FlatConcat ==
  ASSUME NEW b, NEW c, Flat(b), Flat(c)
  PROVE  Flat(b \o c)
<1>1. Body(b \o c) /\ IsSeq(b) /\ IsSeq(c)
  BY BodyConcat DEF Flat, Body
<1>2. \A X \in Stack : Path(X, b \o c, X)
  BY <1>1, PathJoin DEF Flat, Balanced
<1> QED
  BY <1>1, <1>2 DEF Flat, Balanced

\* The tuples that bodies are written as.
LEMMA Tuples ==
  ASSUME NEW a, NEW b, NEW c, NEW d, NEW e
  PROVE  IsSeq(<<a>>) /\ IsSeq(<<a, b>>) /\ IsSeq(<<a, b, c>>) /\ IsSeq(<<a, b, c, d>>) /\ IsSeq(<<a, b, c, d, e>>)
<1> DEFINE S == {a, b, c, d, e}
<1>1. a \in S /\ b \in S /\ c \in S /\ d \in S /\ e \in S
  OBVIOUS
<1> HIDE DEF S
<1>2. <<a>> \in Seq(S) /\ <<a, b>> \in Seq(S) /\ <<a, b, c>> \in Seq(S) /\ <<a, b, c, d>> \in Seq(S)
      /\ <<a, b, c, d, e>> \in Seq(S)
  BY <1>1
<1> QED
  BY <1>2 DEF IsSeq

LEMMA Flat0 == Flat(<<>>)
<1>1. IsSeq(<<>>) /\ Len(<<>>) = 0
  <2>1. <<>> \in Seq({})
    OBVIOUS
  <2> QED
    BY <2>1 DEF IsSeq
<1> QED
  BY <1>1, FlatBody

LEMMA Flat1 == ASSUME NEW a, Plain(a) PROVE Flat(<<a>>)
<1> DEFINE t == <<a>>
<1>1. IsSeq(t) /\ Len(t) = 1 /\ t[1] = a
  BY Tuples
<1> HIDE DEF t
<1>2. \A k \in 1..1 : Plain(t[k])
  BY <1>1
<1> QED
  BY <1>1, <1>2, FlatBody DEF t

LEMMA Flat2 == ASSUME NEW a, NEW b, Plain(a), Plain(b) PROVE Flat(<<a, b>>)
<1> DEFINE t == <<a, b>>
<1>1. IsSeq(t) /\ Len(t) = 2 /\ t[1] = a /\ t[2] = b
  BY Tuples
<1> HIDE DEF t
<1>2. \A k \in 1..2 : Plain(t[k])
  BY <1>1
<1> QED
  BY <1>1, <1>2, FlatBody DEF t

LEMMA Flat3 == ASSUME NEW a, NEW b, NEW c, Plain(a), Plain(b), Plain(c) PROVE Flat(<<a, b, c>>)
<1> DEFINE t == <<a, b, c>>
<1>1. IsSeq(t) /\ Len(t) = 3 /\ t[1] = a /\ t[2] = b /\ t[3] = c
  BY Tuples
<1> HIDE DEF t
<1>2. \A k \in 1..3 : Plain(t[k])
  BY <1>1
<1> QED
  BY <1>1, <1>2, FlatBody DEF t

LEMMA Flat4 ==
  ASSUME NEW a, NEW b, NEW c, NEW d, Plain(a), Plain(b), Plain(c), Plain(d)
  PROVE  Flat(<<a, b, c, d>>)
<1> DEFINE t == <<a, b, c, d>>
<1>1. IsSeq(t) /\ Len(t) = 4 /\ t[1] = a /\ t[2] = b /\ t[3] = c /\ t[4] = d
  BY Tuples
<1> HIDE DEF t
<1>2. \A k \in 1..4 : Plain(t[k])
  BY <1>1
<1> QED
  BY <1>1, <1>2, FlatBody DEF t

LEMMA Flat5 ==
  ASSUME NEW a, NEW b, NEW c, NEW d, NEW e, Plain(a), Plain(b), Plain(c), Plain(d), Plain(e)
  PROVE  Flat(<<a, b, c, d, e>>)
<1> DEFINE t == <<a, b, c, d, e>>
<1>1. IsSeq(t) /\ Len(t) = 5 /\ t[1] = a /\ t[2] = b /\ t[3] = c /\ t[4] = d /\ t[5] = e
  BY Tuples
<1> HIDE DEF t
<1>2. \A k \in 1..5 : Plain(t[k])
  BY <1>1
<1> QED
  BY <1>1, <1>2, FlatBody DEF t

LEMMA Closes2 ==
  ASSUME NEW a, Plain(a), NEW o, NEW c, <<o, c>> \in Pairs
  PROVE  Closes(<<a, consume(c)>>, o)
<1> DEFINE b == <<a, consume(c)>>
<1>1. IsSeq(b) /\ Len(b) = 2 /\ b[1] = a /\ b[2] = consume(c)
  BY Tuples
<1> HIDE DEF b
<1>2. Closes(b, o)
  BY <1>1, ClosingBody
<1> QED
  BY <1>2 DEF b

LEMMA PairsAre == <<"(", ")">> \in Pairs /\ <<"[", "]">> \in Pairs /\ <<"{", "}">> \in Pairs
BY DEF Pairs

\* A step between brackets, and a block.
LEMMA BetweenFlat == ASSUME NEW a, Plain(a), NEW o, NEW c, <<o, c>> \in Pairs PROVE Flat(Between(o, a, c))
<1> DEFINE t == <<consume(o), a, consume(c)>>
<1>1. IsSeq(t) /\ Len(t) = 3 /\ t[1] = consume(o) /\ t[2] = a /\ t[3] = consume(c)
  BY Tuples
<1> HIDE DEF t
<1>2. \A k \in 1..3 : k \notin {1, 3} => Plain(t[k])
  BY <1>1
<1>3. 1 \in 1..Len(t) /\ 3 \in 1..Len(t) /\ 1 < 3
  BY <1>1
<1>4. Flat(t)
  BY <1>1, <1>2, <1>3, PairBody
<1> QED
  BY <1>4 DEF t, Between

LEMMA BlockFlat == Flat(Block)
<1>1. IsSeq(Block) /\ Len(Block) = 2 /\ Block[1] = consume("{") /\ Block[2] = Call("parseBlockStmt")
  BY Tuples DEF Block
<1>2. "{" \in Opening /\ "{" \in Bracket
  BY DEF Opening, Bracket
<1>3. Sound(Block[1]) /\ Sound(Block[2])
  <2>1. Sound(Call("parseBlockStmt"))
    BY LeafSound DEF Call
  <2> QED
    BY <1>1, <2>1, ConsumeSound
<1>4. ASSUME NEW X \in Stack PROVE Path(X, Block, X)
  <2>1. Leads(Block[1], X, Append(X, "{")) /\ Leads(Block[2], Append(X, "{"), X) /\ Append(X, "{") \in Stack
    BY <1>1, <1>2, OpenLeads, BlockLeads, StackIs
  <2>2. 1 \in 1..2 /\ 2 \in 1..2 /\ 1 < 2 /\ \A k \in 1..2 : k \in {1, 2}
    OBVIOUS
  <2> QED
    BY <1>1, <2>1, <2>2, PairPath
<1>5. \A k \in 1..Len(Block) : Sound(Block[k])
  <2>1. \A k \in 1..2 : k = 1 \/ k = 2
    OBVIOUS
  <2> QED
    BY <1>1, <1>3, <2>1
<1> QED
  BY <1>1, <1>4, <1>5 DEF Flat, Body, Balanced

\* Every call of a parse function that a body makes, but for that of a block,
\* is a plain step.
Special ==
  {"consume", "parseBlockStmt", "advance", "synchronize", "skip", "operators", "parsePrefix", "parseInfix",
   "match", "check", "while", "list", "parseExpression"}

LEMMA CallPlain == ASSUME NEW f, f \notin Special PROVE Plain(Call(f))
<1>1. Sound(Call(f))
  BY LeafSound DEF Call, Special
<1> QED
  BY <1>1 DEF Plain, Neutral, Call, Special

LEMMA ExpressionPlain == ASSUME NEW p \in 0..Unary PROVE Plain(expression(p))
<1>1. Sound(expression(p))
  BY LeafSound DEF expression
<1> QED
  BY <1>1 DEF Plain, Neutral, expression

LEMMA LeavesPlain ==
  Plain(Expression) /\ Plain(Name) /\ Plain(Statement) /\ Plain(error)
<1>1. Plain(Expression)
  BY ExpressionPlain DEF Expression, Unary
<1>2. Plain(Name)
  BY ConsumeSound DEF Name, Bracket, Opening, Closing
<1>3. Plain(Statement)
  BY CallPlain DEF Statement, Special
<1>4. Plain(error)
  <2>1. error = Call("errorAtCurrent")
    BY DEF error, Call
  <2> QED
    BY <2>1, CallPlain DEF Special
<1> QED
  BY <1>1, <1>2, <1>3, <1>4

LEMMA CheckPlain == ASSUME NEW ts, NEW then, NEW else, Flat(then), Flat(else) PROVE Plain(check(ts, then, else))
BY CheckSound DEF Flat, Plain

LEMMA LoopPlain == ASSUME NEW stop, NEW body, Flat(body) PROVE Plain(while(stop, body)) /\ Plain(list(stop, body))
BY LoopSound DEF Flat, Plain

-----------------------------------------------------------------------------
(***************************************************************************)
(* Tables: a bracket is passed where it will be closed.                    *)
(***************************************************************************)
Leading(table) ==
  \A t \in DOMAIN table : t \notin Closing /\ IF t \in Opening THEN Closes(table[t], t) ELSE Flat(table[t])

LEMMA MatchPlain ==
  ASSUME NEW table, NEW else, Leading(table), Flat(else)
  PROVE  Plain(match(table, else))
<1>1. \A t \in DOMAIN table : Body(table[t]) /\ t \notin Closing
  BY DEF Leading, Closes, Flat
<1>2. \A t \in DOMAIN table : IF t \in Opening THEN ClosesFor(table[t], t) ELSE Balanced(table[t])
  BY DEF Leading, Closes, Flat
<1> QED
  BY <1>1, <1>2, MatchSound DEF Flat, Plain

LEMMA OnLeading ==
  ASSUME NEW t, NEW b, t \notin Closing, IF t \in Opening THEN Closes(b, t) ELSE Flat(b)
  PROVE  Leading(on(t, b))
BY DEF Leading, on

LEMMA EitherLeading ==
  ASSUME NEW f, NEW g, Leading(f), Leading(g)
  PROVE  Leading(either(f, g))
<1> DEFINE h == either(f, g)
<1>1. DOMAIN h = DOMAIN f \cup DOMAIN g
  BY DEF either
<1>2. \A t \in DOMAIN h : h[t] = IF t \in DOMAIN f THEN f[t] ELSE g[t]
  BY DEF either
<1> HIDE DEF h
<1> QED
  BY <1>1, <1>2 DEF Leading, h

LEMMA CallsLeading ==
  ASSUME NEW names, \A t \in DOMAIN names : names[t] \notin Special /\ t \notin Bracket
  PROVE  Leading(Calls(names))
<1>1. \A t \in DOMAIN names : Flat(<<Call(names[t])>>)
  BY CallPlain, Flat1
<1> QED
  BY <1>1 DEF Leading, Calls, Bracket

LEMMA OptionalPlain ==
  ASSUME NEW t, NEW b, t \notin Closing, IF t \in Opening THEN Closes(b, t) ELSE Flat(b)
  PROVE  Plain(optional(t, b))
BY OnLeading, MatchPlain, Flat0 DEF optional

LEMMA StatementTable == Leading(StatementOf)
<1> DEFINE names ==
      [if |-> "parseIfStmt", loop |-> "parseLoopStmt", match |-> "parseMatchStmt", continue |-> "parseJumpStmt",
       break |-> "parseJumpStmt", return |-> "parseReturnStmt", nock |-> "parseReturnStmt",
       attach |-> "parseAttachStmt", detach |-> "parseDetachStmt"]
<1>1. \A t \in DOMAIN names : names[t] \notin Special
  BY DEF Special
<1>2. \A t \in DOMAIN names : t \notin Bracket
  BY DEF Bracket, Opening, Closing
<1> HIDE DEF names
<1>3. Leading(Calls(names))
  BY <1>1, <1>2, CallsLeading
<1>4. Leading(on("{", <<Call("parseBlockStmt")>>))
  <2>1. Closes(<<Call("parseBlockStmt")>>, "{")
    <3> DEFINE b == <<Call("parseBlockStmt")>>
    <3>1. IsSeq(b) /\ Len(b) = 1 /\ b[1] = Call("parseBlockStmt")
      BY Tuples
    <3> HIDE DEF b
    <3>2. Sound(Call("parseBlockStmt"))
      BY LeafSound DEF Call
    <3>3. ASSUME NEW X \in Stack PROVE Path(Append(X, "{"), b, X)
      <4>1. Append(X, "{") \in Stack
        BY StackIs DEF Bracket, Opening
      <4>2. Leads(b[1], Append(X, "{"), X)
        BY <3>1, BlockLeads
      <4>3. 1 \in 1..1 /\ \A k \in 1..1 : k = 1
        OBVIOUS
      <4> QED
        BY <3>1, <4>1, <4>2, <4>3, ClosePath
    <3>4. \A k \in 1..Len(b) : Sound(b[k])
      <4>1. \A k \in 1..1 : k = 1
        OBVIOUS
      <4> QED
        BY <3>1, <3>2, <4>1
    <3>5. Closes(b, "{")
      BY <3>1, <3>3, <3>4 DEF Closes, Body, ClosesFor
    <3> QED
      BY <3>5 DEF b
  <2> QED
    BY <2>1, OnLeading DEF Opening, Closing
<1> QED
  BY <1>3, <1>4, EitherLeading DEF StatementOf, names

LEMMA DeclarationTable == Leading(DeclarationOf)
<1> DEFINE names ==
      [func |-> "parseFunctionDecl", struct |-> "parseStructDecl", enum |-> "parseEnumDecl",
       type |-> "parseTypeAliasDecl", interface |-> "parseInterfaceDecl", impl |-> "parseImplDecl",
       module |-> "parseModuleDecl", system |-> "parseSystemDecl", component |-> "parseComponentDecl",
       flow |-> "parseInterfaceDecl", kits |-> "parseKitsDecl", tag |-> "parseTagDecl",
       taggroup |-> "parseEnumDecl"]
<1>1. \A t \in DOMAIN names : names[t] \notin Special
  BY DEF Special
<1>2. \A t \in DOMAIN names : t \notin Bracket
  BY DEF Bracket, Opening, Closing
<1> HIDE DEF names
<1> QED
  BY <1>1, <1>2, CallsLeading DEF DeclarationOf, names

LEMMA ModuleTables == Leading(ModuleLevel) /\ Leading(TopLevelOf) /\ Leading(InnerOf)
<1>1. Leading(ModuleLevel)
  <2> DEFINE names == [import |-> "parseImportDecl", export |-> "parseExportDecl"]
  <2>1. \A t \in DOMAIN names : names[t] \notin Special
    BY DEF Special
  <2>2. \A t \in DOMAIN names : t \notin Bracket
    BY DEF Bracket, Opening, Closing
  <2> HIDE DEF names
  <2> QED
    BY <2>1, <2>2, CallsLeading DEF ModuleLevel, names
<1>2. Leading(Local)
  <2> DEFINE names == [var |-> "parseVarDeclStmt", const |-> "parseConstDeclStmt"]
  <2>1. \A t \in DOMAIN names : names[t] \notin Special
    BY DEF Special
  <2>2. \A t \in DOMAIN names : t \notin Bracket
    BY DEF Bracket, Opening, Closing
  <2> HIDE DEF names
  <2> QED
    BY <2>1, <2>2, CallsLeading DEF Local, names
<1>3. Leading([t \in DOMAIN ModuleLevel |-> <<error>>])
  <2>1. DOMAIN ModuleLevel \cap Bracket = {}
    BY DEF ModuleLevel, Calls, Bracket, Opening, Closing
  <2>2. Flat(<<error>>)
    BY LeavesPlain, Flat1
  <2> QED
    BY <2>1, <2>2 DEF Leading, Bracket
<1> QED
  BY <1>1, <1>2, <1>3, DeclarationTable, EitherLeading DEF TopLevelOf, InnerOf

LEMMA NamedItemsPlain == Plain(NamedItems)
<1>1. Plain(optional("as", <<Name>>))
  BY LeavesPlain, Flat1, OptionalPlain DEF Opening, Closing
<1> QED
  BY <1>1, LeavesPlain, Flat2, LoopPlain DEF NamedItems

LEMMA ExportTable == Leading(ExportOf)
<1>1. Plain(NamedItems)
  BY NamedItemsPlain
<1>2. Closes(<<NamedItems, consume("}"), consume(";")>>, "{")
  <2> DEFINE b == <<NamedItems, consume("}"), consume(";")>>
  <2>1. IsSeq(b) /\ Len(b) = 3 /\ b[1] = NamedItems /\ b[2] = consume("}") /\ b[3] = consume(";")
    BY Tuples
  <2> HIDE DEF b
  <2>2. Plain(consume(";"))
    BY ConsumeSound DEF Bracket, Opening, Closing
  <2>3. \A k \in 1..3 : k # 2 => Plain(b[k])
    <3>1. \A k \in 1..3 : k = 1 \/ k = 2 \/ k = 3
      OBVIOUS
    <3> QED
      BY <1>1, <2>1, <2>2, <3>1
  <2>4. 2 \in 1..3 /\ <<"{", "}">> \in Pairs
    BY DEF Pairs
  <2>5. Closes(b, "{")
    BY <2>1, <2>3, <2>4, ClosingBody
  <2> QED
    BY <2>5 DEF b
<1>3. Leading(on("{", <<NamedItems, consume("}"), consume(";")>>))
  BY <1>2, OnLeading DEF Opening, Closing
<1> QED
  BY <1>3, DeclarationTable, EitherLeading DEF ExportOf

-----------------------------------------------------------------------------
(***************************************************************************)
(* The grammar: the body of every parse function.                          *)
(***************************************************************************)
LEMMA MarksPlain ==
  /\ Plain(consume(";")) /\ Plain(consume(":")) /\ Plain(consume("=")) /\ Plain(consume("=>"))
  /\ Plain(consume("to")) /\ Plain(consume("from")) /\ Plain(consume("as"))
BY ConsumeSound DEF Bracket, Opening, Closing

LEMMA Around ==
  ASSUME NEW a, Plain(a)
  PROVE  Flat(Between("(", a, ")")) /\ Flat(Between("{", a, "}"))
BY PairsAre, BetweenFlat

\* A step that enters a function puts a flat body in the place of the call, but
\* for that of a block, which closes what the caller opened.
Enters ==
  \E f, b : /\ Enter(f, b)
            /\ \/ f \notin Special \cup {"errorAtCurrent"} /\ Flat(b)
               \/ f = "parseBlockStmt" /\ Closes(b, "{")

LEMMA EntersFlat ==
  ASSUME NEW f, NEW b, Enter(f, b), f \notin Special \cup {"errorAtCurrent"}, Flat(b)
  PROVE  Enters
BY DEF Enters

LEMMA OptionalExpression ==
  ASSUME NEW t, t \notin Bracket
  PROVE  Plain(optional(t, <<Expression>>))
BY OptionalPlain, LeavesPlain, Flat1 DEF Bracket

LEMMA ErrorThen ==
  ASSUME NEW s, s \in {<<"advance">>, Call("synchronize")}
  PROVE  Flat(<<error, s>>)
<1> DEFINE b == <<error, s>>
<1>1. IsSeq(b) /\ Len(b) = 2 /\ b[1] = error /\ b[2] = s
  BY Tuples
<1> HIDE DEF b
<1>2. Sound(error) /\ Sound(s)
  BY LeafSound DEF error, Call
<1>3. ASSUME NEW X \in Stack PROVE Path(X, b, X)
  <2>1. Leads(b[1], X, Dead) /\ Leads(b[2], Dead, X) /\ Dead \in Stack
    <3>1. error[1] = "errorAtCurrent" /\ s[1] \in {"advance", "synchronize"}
      BY DEF error, Call
    <3> QED
      BY <1>1, <3>1, StackIs DEF Leads
  <2>2. 1 \in 1..2 /\ 2 \in 1..2 /\ 1 < 2 /\ \A k \in 1..2 : k \in {1, 2}
    OBVIOUS
  <2> QED
    BY <1>1, <2>1, <2>2, PairPath
<1>4. \A k \in 1..Len(b) : Sound(b[k])
  <2>1. \A k \in 1..2 : k = 1 \/ k = 2
    OBVIOUS
  <2> QED
    BY <1>1, <1>2, <2>1
<1>5. Flat(b)
  BY <1>1, <1>3, <1>4 DEF Flat, Body, Balanced
<1> QED
  BY <1>5 DEF b

LEMMA StatementEnters == ASSUME ParseStatement PROVE Enters
<1>1. CASE parseStatement
  <2>1. Flat(<<match(StatementOf, <<Call("parseExpressionStmt")>>)>>)
    BY CallPlain, StatementTable, MatchPlain, Flat1 DEF Special
  <2> QED
    BY <1>1, <2>1, EntersFlat DEF parseStatement, Special
<1>2. CASE parseExpressionStmt
  <2>1. Leading([t \in AssignOp |-> <<Expression>>])
    BY LeavesPlain, Flat1 DEF Leading, AssignOp, Opening, Closing
  <2>2. Flat(<<Expression, match([t \in AssignOp |-> <<Expression>>], <<>>), consume(";")>>)
    BY <2>1, LeavesPlain, MarksPlain, MatchPlain, Flat0, Flat3
  <2> QED
    BY <1>2, <2>2, EntersFlat DEF parseExpressionStmt, Special
<1>3. CASE parseVarDeclStmt
  <2>1. Plain(optional(":", <<Expression>>)) /\ Plain(optional("=", <<Expression>>))
    BY OptionalExpression DEF Bracket, Opening, Closing
  <2>2. Flat(<<Name, optional(":", <<Expression>>), optional("=", <<Expression>>), consume(";")>>)
    BY <2>1, LeavesPlain, MarksPlain, Flat4
  <2> QED
    BY <1>3, <2>2, EntersFlat DEF parseVarDeclStmt, Special
<1>4. CASE parseConstDeclStmt
  <2>1. Plain(optional(":", <<Expression>>))
    BY OptionalExpression DEF Bracket, Opening, Closing
  <2>2. Flat(<<Name, optional(":", <<Expression>>), consume("="), Expression, consume(";")>>)
    BY <2>1, LeavesPlain, MarksPlain, Flat5
  <2> QED
    BY <1>4, <2>2, EntersFlat DEF parseConstDeclStmt, Special
<1>5. CASE parseBlockStmt
  <2>1. Plain(while({"}", "EOF"}, <<Call("parseDeclaration")>>))
    BY CallPlain, Flat1, LoopPlain DEF Special
  <2>2. Closes(<<while({"}", "EOF"}, <<Call("parseDeclaration")>>), consume("}")>>, "{")
    BY <2>1, PairsAre, Closes2
  <2> QED
    BY <1>5, <2>2 DEF parseBlockStmt, Enters
<1>6. CASE parseIfStmt
  <2>1. Plain(match(on("if", <<Call("parseIfStmt")>>), <<Statement>>))
    BY CallPlain, LeavesPlain, Flat1, OnLeading, MatchPlain DEF Special, Opening, Closing
  <2>2. Plain(optional("else", <<match(on("if", <<Call("parseIfStmt")>>), <<Statement>>)>>))
    BY <2>1, Flat1, OptionalPlain DEF Opening, Closing
  <2>3. Flat(<<Statement, optional("else", <<match(on("if", <<Call("parseIfStmt")>>), <<Statement>>)>>)>>)
    BY <2>2, LeavesPlain, Flat2
  <2>4. Flat(Between("(", Expression, ")"))
    BY LeavesPlain, Around
  <2> QED
    BY <1>6, <2>3, <2>4, FlatConcat, EntersFlat DEF parseIfStmt, Special
<1>7. CASE parseLoopStmt
  <2>1. Closes(<<Expression, consume(")")>>, "(")
    BY LeavesPlain, PairsAre, Closes2
  <2>2. Plain(optional("(", <<Expression, consume(")")>>))
    BY <2>1, OptionalPlain DEF Opening, Closing
  <2>3. Plain(check({"{"}, <<Statement>>, <<error>>))
    BY LeavesPlain, Flat1, CheckPlain
  <2>4. Flat(<<optional("(", <<Expression, consume(")")>>), check({"{"}, <<Statement>>, <<error>>)>>)
    BY <2>2, <2>3, Flat2
  <2> QED
    BY <1>7, <2>4, EntersFlat DEF parseLoopStmt, Special
<1>8. CASE parseMatchStmt
  <2>1. Flat(<<error, Call("synchronize")>>)
    BY ErrorThen
  <2>2. Leading(on("case", <<Call("parseMatchCaseStmt")>>))
    BY CallPlain, Flat1, OnLeading DEF Special, Opening, Closing
  <2>3. Plain(MatchBody)
    BY <2>1, <2>2, MatchPlain, Flat1, LoopPlain DEF MatchBody
  <2> QED
    BY <1>8, <2>3, LeavesPlain, Around, FlatConcat, EntersFlat DEF parseMatchStmt, Special
<1>9. CASE parseMatchCaseStmt
  <2>1. Plain(match(on("_", <<>>), <<Expression>>))
    BY LeavesPlain, Flat0, Flat1, OnLeading, MatchPlain DEF Opening, Closing
  <2>2. Plain(list({}, <<match(on("_", <<>>), <<Expression>>)>>))
    BY <2>1, Flat1, LoopPlain
  <2>3. Flat(<<list({}, <<match(on("_", <<>>), <<Expression>>)>>), consume("=>"), Statement>>)
    BY <2>2, LeavesPlain, MarksPlain, Flat3
  <2> QED
    BY <1>9, <2>3, EntersFlat DEF parseMatchCaseStmt, Special
<1>10. CASE parseJumpStmt
  <2>1. Flat(<<consume(";")>>)
    BY MarksPlain, Flat1
  <2> QED
    BY <1>10, <2>1, EntersFlat DEF parseJumpStmt, Special
<1>11. CASE parseReturnStmt
  <2>1. Plain(check({";"}, <<>>, <<Expression>>))
    BY LeavesPlain, Flat0, Flat1, CheckPlain
  <2>2. Flat(<<check({";"}, <<>>, <<Expression>>), consume(";")>>)
    BY <2>1, MarksPlain, Flat2
  <2> QED
    BY <1>11, <2>2, EntersFlat DEF parseReturnStmt, Special
<1>12. CASE parseAttachStmt
  <2>1. Flat(<<Expression, consume("to"), Expression, consume(";")>>)
    BY LeavesPlain, MarksPlain, Flat4
  <2> QED
    BY <1>12, <2>1, EntersFlat DEF parseAttachStmt, Special
<1>13. CASE parseDetachStmt
  <2>1. Flat(<<Expression, consume("from"), Expression, consume(";")>>)
    BY LeavesPlain, MarksPlain, Flat4
  <2> QED
    BY <1>13, <2>1, EntersFlat DEF parseDetachStmt, Special
<1> QED
  BY <1>1, <1>2, <1>3, <1>4, <1>5, <1>6, <1>7, <1>8, <1>9, <1>10, <1>11, <1>12, <1>13 DEF ParseStatement

LEMMA DeclarationEnters == ASSUME ParseDeclaration PROVE Enters
<1>1. CASE parseTopLevelDeclaration
  <2>1. Flat(<<match(TopLevelOf, <<error, <<"advance">> >>)>>)
    BY ErrorThen, ModuleTables, MatchPlain, Flat1
  <2> QED
    BY <1>1, <2>1, EntersFlat DEF parseTopLevelDeclaration, Special
<1>2. CASE parseDeclaration
  <2>1. Flat(<<match(InnerOf, <<Statement>>)>>)
    BY LeavesPlain, ModuleTables, MatchPlain, Flat1
  <2> QED
    BY <1>2, <2>1, EntersFlat DEF parseDeclaration, Special
<1>3. CASE parseFunctionDecl
  <2>1. Flat(Parameter)
    <3>1. Plain(optional(":", <<Expression>>))
      BY OptionalExpression DEF Bracket, Opening, Closing
    <3> QED
      BY <3>1, LeavesPlain, Flat2 DEF Parameter
  <2>2. Plain(check({")"}, <<>>, <<list({}, Parameter)>>))
    <3>1. Flat(<<list({}, Parameter)>>)
      BY <2>1, LoopPlain, Flat1
    <3> QED
      BY <3>1, Flat0, CheckPlain
  <2>3. Flat(<<optional("->", <<Expression>>)>>)
    BY OptionalExpression, Flat1 DEF Bracket, Opening, Closing
  <2> DEFINE parameters == Between("(", check({")"}, <<>>, <<list({}, Parameter)>>), ")")
             result     == <<optional("->", <<Expression>>)>>
  <2>4. Flat(<<Name>>) /\ Flat(parameters) /\ Flat(result)
    BY <2>2, <2>3, LeavesPlain, Flat1, Around
  <2>5. Enter("parseFunctionDecl", <<Name>> \o parameters \o result \o Block)
    BY <1>3 DEF parseFunctionDecl
  <2> HIDE DEF parameters, result
  <2>6. Flat(<<Name>> \o parameters)
    BY <2>4, FlatConcat
  <2>7. Flat(<<Name>> \o parameters \o result)
    BY <2>4, <2>6, FlatConcat
  <2>8. Flat(<<Name>> \o parameters \o result \o Block)
    BY <2>7, BlockFlat, FlatConcat
  <2> QED
    BY <2>5, <2>8, EntersFlat DEF Special
<1>4. CASE parseStructDecl
  <2>1. Leading([t \in {",", ";"} |-> <<>>])
    BY Flat0 DEF Leading, Opening, Closing
  <2>2. Flat(<<Name, consume(":"), Expression, match([t \in {",", ";"} |-> <<>>], <<>>)>>)
    BY <2>1, Flat0, MatchPlain, LeavesPlain, MarksPlain, Flat4
  <2> DEFINE fields == while({"}", "EOF"},
                             <<Name, consume(":"), Expression, match([t \in {",", ";"} |-> <<>>], <<>>)>>)
  <2>3. Plain(fields)
    BY <2>2, LoopPlain
  <2>4. Enter("parseStructDecl", <<Name>> \o Between("{", fields, "}"))
    BY <1>4 DEF parseStructDecl
  <2> HIDE DEF fields
  <2>5. Flat(<<Name>> \o Between("{", fields, "}"))
    BY <2>3, LeavesPlain, Flat1, Around, FlatConcat
  <2> QED
    BY <2>4, <2>5, EntersFlat DEF Special
<1>5. CASE parseEnumDecl
  BY <1>5, Flat0, EntersFlat DEF parseEnumDecl, Special
<1>6. CASE parseTypeAliasDecl
  <2>1. Flat(<<Name, consume("="), Expression, consume(";")>>)
    BY LeavesPlain, MarksPlain, Flat4
  <2> QED
    BY <1>6, <2>1, EntersFlat DEF parseTypeAliasDecl, Special
<1>7. CASE parseInterfaceDecl
  <2>1. Flat(<<Name>> \o Block)
    BY LeavesPlain, Flat1, BlockFlat, FlatConcat
  <2> QED
    BY <1>7, <2>1, EntersFlat DEF parseInterfaceDecl, Special
<1>8. CASE parseImplDecl
  <2>1. Flat(<<Expression, optional("for", <<Expression>>)>>)
    BY LeavesPlain, OptionalExpression, Flat2 DEF Bracket, Opening, Closing
  <2>2. Plain(while({"}", "EOF"}, <<Call("parseFunctionDecl")>>))
    BY CallPlain, Flat1, LoopPlain DEF Special
  <2> QED
    BY <1>8, <2>1, <2>2, Around, FlatConcat, EntersFlat DEF parseImplDecl, Special
<1>9. CASE parseImportDecl
  <2>1. Flat(Between("{", NamedItems, "}") \o <<consume("from"), Name>>)
    BY NamedItemsPlain, Around, LeavesPlain, MarksPlain, Flat2, FlatConcat
  <2>2. Leading(on("IDENT", <<>>))
    BY Flat0, OnLeading DEF Opening, Closing
  <2>3. Plain(match(on("IDENT", <<>>), Between("{", NamedItems, "}") \o <<consume("from"), Name>>))
    BY <2>1, <2>2, MatchPlain
  <2>4. Flat(<<match(on("IDENT", <<>>), Between("{", NamedItems, "}") \o <<consume("from"), Name>>), consume(";")>>)
    BY <2>3, MarksPlain, Flat2
  <2> QED
    BY <1>9, <2>4, EntersFlat DEF parseImportDecl, Special
<1>10. CASE parseExportDecl
  <2>1. Flat(<<match(ExportOf, <<error>>)>>)
    BY LeavesPlain, ExportTable, MatchPlain, Flat1
  <2> QED
    BY <1>10, <2>1, EntersFlat DEF parseExportDecl, Special
<1>11. CASE parseModuleDecl
  <2>1. Flat(<<match(ModuleLevel, <<Call("parseDeclaration")>>)>>)
    BY CallPlain, ModuleTables, MatchPlain, Flat1 DEF Special
  <2>2. Plain(while({"}", "EOF"}, <<match(ModuleLevel, <<Call("parseDeclaration")>>)>>))
    BY <2>1, LoopPlain
  <2> QED
    BY <1>11, <2>2, LeavesPlain, Flat1, Around, FlatConcat, EntersFlat DEF parseModuleDecl, Special
<1>12. CASE parseSystemDecl
  <2>1. Flat(<<Name>> \o Between("(", Expression, ")"))
    BY LeavesPlain, Flat1, Around, FlatConcat
  <2>2. Flat(<<Name>> \o Between("(", Expression, ")") \o Block)
    BY <2>1, BlockFlat, FlatConcat
  <2> QED
    BY <1>12, <2>2, EntersFlat DEF parseSystemDecl, Special
<1>13. CASE parseComponentDecl
  <2>1. Leading(on("as", <<Name, consume(";")>>))
    BY LeavesPlain, MarksPlain, Flat2, OnLeading DEF Opening, Closing
  <2>2. Flat(<<Name, match(on("as", <<Name, consume(";")>>), Block)>>)
    BY <2>1, LeavesPlain, BlockFlat, MatchPlain, Flat2
  <2> QED
    BY <1>13, <2>2, EntersFlat DEF parseComponentDecl, Special
<1>14. CASE parseKitsDecl
  <2>1. Plain(optional("&", <<>>))
    BY Flat0, OptionalPlain DEF Opening, Closing
  <2>2. Flat(<<optional("&", <<>>), Name, consume("as"), Name, consume(";")>>)
    BY <2>1, LeavesPlain, MarksPlain, Flat5
  <2>3. Plain(KitsBody)
    BY <2>2, LoopPlain DEF KitsBody
  <2> QED
    BY <1>14, <2>3, LeavesPlain, Flat1, Around, FlatConcat, EntersFlat DEF parseKitsDecl, Special
<1>15. CASE parseTagDecl
  <2>1. Flat(<<Name, consume(";")>>)
    BY LeavesPlain, MarksPlain, Flat2
  <2> QED
    BY <1>15, <2>1, EntersFlat DEF parseTagDecl, Special
<1> QED
  BY <1>1, <1>2, <1>3, <1>4, <1>5, <1>6, <1>7, <1>8, <1>9, <1>10, <1>11, <1>12, <1>13, <1>14, <1>15
     DEF ParseDeclaration

-----------------------------------------------------------------------------
(***************************************************************************)
(* Precedence.                                                             *)
(***************************************************************************)
Postfix == {".", "(", "["}
Apart(L) == \A t \in L : t \notin Closing /\ t # "{" /\ t \notin Postfix

LEMMA LevelsAre ==
  /\ DOMAIN Levels = 1..14 /\ Levels[14] = Postfix
  /\ \A p \in 1..13 : Apart(Levels[p])
<1>1. DOMAIN Levels = 1..14 /\ Levels[14] = Postfix
  BY DEF Levels, Postfix
<1>2. /\ Apart(Levels[1]) /\ Apart(Levels[2]) /\ Apart(Levels[3]) /\ Apart(Levels[4])
      /\ Apart(Levels[5]) /\ Apart(Levels[6]) /\ Apart(Levels[7]) /\ Apart(Levels[8])
      /\ Apart(Levels[9]) /\ Apart(Levels[10]) /\ Apart(Levels[11]) /\ Apart(Levels[12])
      /\ Apart(Levels[13])
  BY DEF Levels, Apart, Postfix, Closing
<1>3. ASSUME NEW p \in 1..13 PROVE Apart(Levels[p])
  <2>1. p \in 1..7 \/ p \in 8..13
    OBVIOUS
  <2>2. p \in 1..7 => p = 1 \/ p = 2 \/ p = 3 \/ p = 4 \/ p = 5 \/ p = 6 \/ p = 7
    OBVIOUS
  <2>3. p \in 8..13 => p = 8 \/ p = 9 \/ p = 10 \/ p = 11 \/ p = 12 \/ p = 13
    OBVIOUS
  <2> QED
    BY <1>2, <2>1, <2>2, <2>3
<1> QED
  BY <1>1, <1>3

LEMMA PrecedenceIs ==
  ASSUME NEW t
  PROVE  /\ getPrecedence(t) \in 0..14
         /\ getPrecedence(t) > Unary => t \in Postfix
         /\ t \in Postfix => getPrecedence(t) = 14
         /\ getPrecedence(t) > 0 => t \notin Closing /\ t # "{"
<1> DEFINE q == getPrecedence(t)
<1>1. CASE \E p \in DOMAIN Levels : t \in Levels[p]
  <2>1. q \in DOMAIN Levels /\ t \in Levels[q]
    BY <1>1 DEF getPrecedence
  <2> HIDE DEF q
  <2>2. q \in 1..14 /\ q \in Nat
    BY <2>1, LevelsAre
  <2>3. q \in 1..13 \/ q = 14
    BY <2>2
  <2>4. Postfix \cap Closing = {} /\ "{" \notin Postfix
    BY DEF Postfix, Closing
  <2>5. CASE q = 14
    <3>1. t \in Postfix
      BY <2>1, <2>5, LevelsAre
    <3>2. q \in 0..14
      BY <2>5
    <3> QED
      BY <2>4, <2>5, <3>1, <3>2 DEF q
  <2>6. CASE q \in 1..13
    <3>1. t \notin Closing /\ t # "{" /\ t \notin Postfix
      BY <2>1, <2>6, LevelsAre DEF Apart
    <3>2. q \in 0..14 /\ ~(q > Unary)
      BY <2>6 DEF Unary
    <3> QED
      BY <3>1, <3>2 DEF q
  <2> QED
    BY <2>3, <2>5, <2>6
<1>2. CASE ~(\E p \in DOMAIN Levels : t \in Levels[p])
  <2>1. q = 0
    BY <1>2 DEF getPrecedence
  <2>2. t \notin Postfix
    BY <1>2, LevelsAre
  <2> HIDE DEF q
  <2>3. q \in 0..14 /\ ~(q > Unary) /\ ~(q > 0)
    BY <2>1 DEF Unary
  <2> QED
    BY <2>2, <2>3 DEF q
<1> QED
  BY <1>1, <1>2

-----------------------------------------------------------------------------
(***************************************************************************)
(* The call stack: what may stand on it, and in front of a loop over the   *)
(* operators of a level.                                                   *)
(***************************************************************************)
Operand == {"parsePrefix", "parseInfix"}

Waiting(s) == \E p \in 0..Unary, l \in Nat : s = operators(p, l)

Shaped(d) ==
  /\ IsSeq(d)
  /\ \A k \in 1..Len(d) : Sound(d[k]) \/ Waiting(d[k]) \/ (k = 1 /\ d[k][1] \in Operand)

\* The steps that may stand before a loop with threshold p that took an operator
\* of level l last; t is the token passed last.
Supports(s, p, l, t) ==
  \/ s[1] \in {"operators", "parseExpression"} /\ (s[2] > p \/ s[2] = Unary) /\ (l >= 14 \/ l = s[2])
  \/ s[1] \in {"parsePrefix", "consume", "errorAtCurrent"} /\ l >= 14
  \/ s[1] = "parseInfix" /\ l = getPrecedence(t) /\ getPrecedence(t) > p

Over(d, t) ==
  \A k \in 1..(Len(d) - 1) : \A p \in 0..Unary, l \in Nat :
    d[k + 1] = operators(p, l) => Supports(d[k], p, l, t)

Top(d, c) == d # <<>> => \A p \in 0..Unary, l \in Nat : d[1] = operators(p, l) => getPrecedence(c) =< l

\* What supported the steps behind s, before, is what b does in its place.
Follows(s, t, b, u, c) ==
  \A p \in 0..Unary, l \in Nat :
    Supports(s, p, l, t) => IF b = <<>> THEN getPrecedence(c) =< l ELSE Supports(b[Len(b)], p, l, u)

LEMMA WaitingIs ==
  ASSUME NEW s, Waiting(s)
  PROVE  /\ s[1] = "operators" /\ s[2] \in 0..Unary /\ s[3] \in Nat /\ s = operators(s[2], s[3])
         /\ Neutral(s) /\ ~Sound(s)
<1>1. s[1] = "operators" /\ s[2] \in 0..Unary /\ s[3] \in Nat /\ s = operators(s[2], s[3])
  BY DEF Waiting, operators
<1> QED
  BY <1>1, SoundIs DEF Neutral

LEMMA OperatorsIs ==
  ASSUME NEW p, NEW l
  PROVE  operators(p, l)[1] = "operators" /\ operators(p, l)[2] = p /\ operators(p, l)[3] = l
BY DEF operators

LEMMA SupportsSame ==
  ASSUME NEW s, s[1] # "parseInfix", NEW p, NEW l, NEW t, NEW u, Supports(s, p, l, t)
  PROVE  Supports(s, p, l, u)
BY DEF Supports

LEMMA ShapedTail ==
  ASSUME NEW d, Shaped(d), d # <<>>
  PROVE  /\ IsSeq(Tail(d)) /\ \A k \in 1..Len(Tail(d)) : Sound(Tail(d)[k]) \/ Waiting(Tail(d)[k])
         /\ \A k \in 1..Len(Tail(d)) : Tail(d)[k][1] \notin Operand
<1>1. /\ IsSeq(Tail(d)) /\ Len(Tail(d)) = Len(d) - 1 /\ Len(d) \in Nat
      /\ \A k \in 1..Len(Tail(d)) : Tail(d)[k] = d[k + 1]
  BY TailIs, SeqIs DEF Shaped
<1>2. ASSUME NEW k \in 1..Len(Tail(d)) PROVE Sound(Tail(d)[k]) \/ Waiting(Tail(d)[k])
  <2>1. k + 1 \in 1..Len(d) /\ k + 1 # 1
    BY <1>1
  <2> QED
    BY <1>1, <2>1 DEF Shaped
<1>3. \A k \in 1..Len(Tail(d)) : Tail(d)[k][1] \notin Operand
  BY <1>2, SoundIs, WaitingIs DEF Operand
<1> QED
  BY <1>1, <1>2, <1>3

LEMMA BodyShaped ==
  ASSUME NEW b, Body(b), NEW u, NEW c
  PROVE  Shaped(b) /\ Over(b, u) /\ Top(b, c)
<1>1. Shaped(b)
  BY DEF Body, Shaped
<1>2. Len(b) \in Nat /\ (b # <<>> => Len(b) > 0)
  BY SeqIs DEF Body
<1>3. \A k \in 1..Len(b) : \A p, l : b[k] # operators(p, l)
  BY SoundIs, OperatorsIs DEF Body
<1>4. Over(b, u)
  <2>1. \A k \in 1..(Len(b) - 1) : k + 1 \in 1..Len(b)
    BY <1>2
  <2> QED
    BY <1>3, <2>1 DEF Over
<1>5. Top(b, c)
  BY <1>2, <1>3 DEF Top
<1> QED
  BY <1>1, <1>4, <1>5

\* A step is replaced by others that support what stands behind it.
LEMMA Replaces ==
  ASSUME NEW d, Shaped(d), d # <<>>, NEW t, Over(d, t), NEW b, NEW u, NEW c,
         Shaped(b), Over(b, u), Top(b, c), Follows(Head(d), t, b, u, c)
  PROVE  Shaped(b \o Tail(d)) /\ Over(b \o Tail(d), u) /\ Top(b \o Tail(d), c)
<1> DEFINE r == Tail(d)
           n == b \o r
           m == Len(b)
<1>1. /\ IsSeq(r) /\ Len(r) \in Nat /\ Len(d) = Len(r) + 1 /\ Len(d) \in Nat /\ Head(d) = d[1]
      /\ \A k \in 1..Len(r) : r[k] = d[k + 1]
      /\ \A k \in 1..Len(r) : Sound(r[k]) \/ Waiting(r[k])
      /\ \A k \in 1..Len(r) : r[k][1] \notin Operand
      /\ (r # <<>> => Len(r) > 0)
  <2>1. IsSeq(d) /\ Len(d) \in Nat
    BY SeqIs DEF Shaped
  <2>2. IsSeq(r) /\ Len(r) = Len(d) - 1 /\ Head(d) = d[1] /\ \A k \in 1..Len(r) : r[k] = d[k + 1]
    BY <2>1, TailIs
  <2>3. Len(r) \in Nat /\ (r # <<>> => Len(r) > 0)
    BY <2>2, SeqIs
  <2> HIDE DEF r
  <2>4. Len(d) = Len(r) + 1
    BY <2>1, <2>2
  <2> QED
    BY <2>1, <2>2, <2>3, <2>4, ShapedTail DEF r
<1>2. /\ IsSeq(b) /\ m \in Nat /\ (b # <<>> <=> m > 0)
  BY SeqIs DEF Shaped
<1>3. /\ IsSeq(n) /\ Len(n) = m + Len(r)
      /\ \A k \in 1..(m + Len(r)) : n[k] = IF k =< m THEN b[k] ELSE r[k - m]
  BY <1>1, <1>2, ConcatIs
<1> HIDE DEF r, n, m
<1>4. \A k \in 1..m : k \in 1..(m + Len(r)) /\ n[k] = b[k]
  BY <1>1, <1>2, <1>3
<1>5. \A k \in 1..Len(r) : m + k \in 1..(m + Len(r)) /\ n[m + k] = r[k]
  <2>1. \A k \in 1..Len(r) : m + k \in 1..(m + Len(r)) /\ ~(m + k =< m) /\ (m + k) - m = k
    BY <1>1, <1>2
  <2> QED
    BY <1>3, <2>1
<1>6. \A k \in 1..(m + Len(r)) : k \in 1..m \/ \E j \in 1..Len(r) : k = m + j
  <2>1. \A k \in 1..(m + Len(r)) : k \in 1..m \/ (k - m \in 1..Len(r) /\ k = m + (k - m))
    BY <1>1, <1>2
  <2> QED
    BY <2>1
<1>7. Shaped(n)
  <2>1. SUFFICES ASSUME NEW k \in 1..(m + Len(r))
                 PROVE  Sound(n[k]) \/ Waiting(n[k]) \/ (k = 1 /\ n[k][1] \in Operand)
    BY <1>3 DEF Shaped
  <2>2. CASE k \in 1..m
    BY <1>4, <2>2 DEF Shaped, m
  <2>3. CASE \E j \in 1..Len(r) : k = m + j
    BY <1>1, <1>5, <2>3
  <2> QED
    BY <1>6, <2>2, <2>3
\* The step behind those of b is supported by the last of them.
<1>8. ASSUME NEW p \in 0..Unary, NEW l \in Nat, r # <<>>, r[1] = operators(p, l)
      PROVE  IF b = <<>> THEN getPrecedence(c) =< l ELSE Supports(b[m], p, l, u)
  <2>1. 1 \in 1..Len(r) /\ 1 \in 1..(Len(d) - 1)
    BY <1>1, <1>8
  <2>2. d[1 + 1] = operators(p, l)
    BY <1>1, <1>8, <2>1
  <2>3. Supports(Head(d), p, l, t)
    BY <1>1, <2>1, <2>2 DEF Over
  <2> QED
    BY <2>3 DEF Follows, m
<1>9. Over(n, u)
  <2>1. SUFFICES ASSUME NEW k \in 1..(Len(n) - 1), NEW p \in 0..Unary, NEW l \in Nat, n[k + 1] = operators(p, l)
                 PROVE  Supports(n[k], p, l, u)
    BY DEF Over
  <2>2. k \in Nat /\ k >= 1 /\ k + 1 =< m + Len(r)
    BY <1>1, <1>2, <1>3
  <2>3. CASE k + 1 =< m
    <3>1. k \in 1..m /\ k + 1 \in 1..m /\ k \in 1..(Len(b) - 1)
      BY <1>2, <2>2, <2>3 DEF m
    <3> QED
      BY <1>4, <2>1, <3>1 DEF Over
  <2>4. CASE k = m
    <3>1. 1 \in 1..Len(r) /\ k \in 1..m /\ m > 0
      BY <1>1, <1>2, <2>2, <2>4
    <3>2. n[m + 1] = r[1] /\ r # <<>> /\ n[k] = b[m]
      <4>1. Len(<<>>) = 0
        OBVIOUS
      <4> QED
        BY <1>1, <1>4, <1>5, <2>4, <3>1, <4>1
    <3> QED
      BY <1>2, <1>8, <2>1, <2>4, <3>1, <3>2
  <2>5. CASE k > m
    <3> DEFINE j == k - m
    <3>1. j \in 1..(Len(r) - 1) /\ j \in 1..Len(r) /\ j + 1 \in 1..Len(r) /\ m + j = k /\ m + (j + 1) = k + 1
      BY <1>1, <1>2, <2>2, <2>5
    <3> HIDE DEF j
    <3>2. n[k] = r[j] /\ n[k + 1] = r[j + 1]
      BY <1>5, <3>1
    <3>3. r[j] = d[j + 1] /\ r[j + 1] = d[(j + 1) + 1] /\ j + 1 \in 1..(Len(d) - 1)
      BY <1>1, <3>1
    <3>4. Supports(r[j], p, l, t)
      BY <2>1, <3>2, <3>3 DEF Over
    <3>5. r[j][1] # "parseInfix"
      BY <1>1, <3>1 DEF Operand
    <3> QED
      BY <3>2, <3>4, <3>5, SupportsSame
  <2> QED
    BY <1>2, <2>2, <2>3, <2>4, <2>5
<1>10. Top(n, c)
  <2>1. SUFFICES ASSUME n # <<>>, NEW p \in 0..Unary, NEW l \in Nat, n[1] = operators(p, l)
                 PROVE  getPrecedence(c) =< l
    BY DEF Top
  <2>2. CASE b = <<>>
    <3>1. m = 0 /\ Len(n) \in Nat /\ Len(n) > 0
      BY <1>2, <1>3, <2>1, <2>2, SeqIs
    <3>2. 1 \in 1..Len(r) /\ m + 1 = 1
      BY <1>1, <1>3, <3>1
    <3>3. n[1] = r[1] /\ r # <<>>
      <4>1. Len(<<>>) = 0
        OBVIOUS
      <4> QED
        BY <1>1, <1>5, <3>2, <4>1
    <3> QED
      BY <1>8, <2>1, <2>2, <3>3
  <2>3. CASE b # <<>>
    <3>1. n[1] = b[1]
      BY <1>2, <1>4, <2>3
    <3> QED
      BY <2>1, <2>3, <3>1 DEF Top
  <2> QED
    BY <2>2, <2>3
<1> QED
  BY <1>7, <1>9, <1>10 DEF n, r

-----------------------------------------------------------------------------
(***************************************************************************)
(* The invariant.                                                          *)
(***************************************************************************)
Shape ==
  /\ panicMode \in BOOLEAN /\ hadError \in BOOLEAN /\ (panicMode => hadError)
  /\ opened \in Seq(Bracket)
  /\ Shaped(todo)
  /\ Doing("parseInfix") => getPrecedence(previous) > 0

Grouped == Over(todo, previous) /\ Top(todo, current)

\* Nothing was read.
Fresh ==
  /\ todo = << <<"advance">>, while({"EOF"}, <<Call("parseTopLevelDeclaration")>>)>>
  /\ opened = <<>> /\ current = "NONE"

\* The brackets open, X of them when the token passed last is not counted that
\* parsePrefix or parseInfix will look at.
Expecting(X) == IF todo # <<>> /\ Head(todo)[1] \in Operand /\ previous \in Opening THEN Append(X, previous) ELSE X

\* The steps to be done close what is open; a bracket that closes nothing where an
\* operand should stand is passed, and will be reported.
Balance ==
  ~hadError =>
    \/ Fresh
    \/ Doing("parsePrefix") /\ previous \in Closing /\ \E Y \in Stack : Path(Y, Tail(todo), <<>>)
    \/ \E X \in Seq(Bracket) : opened = Expecting(X) /\ Path(X, todo, <<>>)

ParserInv == Shape /\ Grouped /\ Balance

LEMMA FreshFlat == Flat(<<while({"EOF"}, <<Call("parseTopLevelDeclaration")>>)>>)
BY CallPlain, Flat1, LoopPlain DEF Special

LEMMA FrontIs ==
  ASSUME NEW Y \in Seq(Bracket), NEW o \in Bracket
  PROVE  Front(Append(Y, o)) = Y /\ Last(Append(Y, o)) = o
<1> DEFINE X == Append(Y, o)
<1>1. X \in Seq(Bracket) /\ Len(X) = Len(Y) + 1 /\ Len(Y) \in Nat /\ (\A i \in 1..Len(Y) : X[i] = Y[i]) /\ X[Len(Y) + 1] = o
  BY AppendProperties, LenProperties
<1> HIDE DEF X
<1>2. Front(X) = SubSeq(X, 1, Len(Y))
  BY <1>1 DEF Front
<1>3. \A i \in 1..Len(Y) : X[i] \in Bracket
  BY <1>1, ElementOfSeq
<1>4. /\ Front(X) \in Seq(Bracket) /\ Len(Front(X)) = Len(Y)
      /\ \A i \in 1..Len(Y) : Front(X)[i] = Y[i]
  <2>1. /\ SubSeq(X, 1, Len(Y)) \in Seq(Bracket)
        /\ Len(SubSeq(X, 1, Len(Y))) = IF 1 =< Len(Y) THEN Len(Y) - 1 + 1 ELSE 0
        /\ \A i \in 1..(Len(Y) - 1 + 1) : SubSeq(X, 1, Len(Y))[i] = X[1 + i - 1]
    BY <1>1, <1>3, SubSeqProperties
  <2>2. \A i \in 1..Len(Y) : 1 + i - 1 = i /\ i \in 1..(Len(Y) - 1 + 1)
    BY <1>1
  <2>3. Len(SubSeq(X, 1, Len(Y))) = Len(Y)
    BY <1>1, <2>1
  <2> QED
    BY <1>1, <1>2, <2>1, <2>2, <2>3
<1>5. Front(X) = Y
  BY <1>4, SeqEqual
<1>6. Last(X) = o
  BY <1>1 DEF Last
<1> QED
  BY <1>5, <1>6 DEF X

LEMMA PassedIs ==
  ASSUME opened \in Seq(Bracket), NEW t
  PROVE  /\ Passed(t) \in Seq(Bracket)
         /\ t \in Opening => Passed(t) = Append(opened, t)
         /\ t \notin Bracket => Passed(t) = opened
         /\ \A o, Y : Y \in Seq(Bracket) /\ opened = Append(Y, o) /\ <<o, t>> \in Pairs => Passed(t) = Y
<1>1. \A o : <<o, t>> \in Pairs => o \in Bracket /\ t \in Bracket /\ t \notin Opening
  BY DEF Pairs, Bracket, Opening, Closing
<1>2. CASE t \notin Bracket
  BY <1>1, <1>2 DEF Passed, Bracket
<1>3. CASE t \in Bracket /\ opened # <<>> /\ <<Last(opened), t>> \in Pairs
  <2>1. Passed(t) = Front(opened)
    BY <1>3 DEF Passed, Bracket
  <2>2. PICK Y \in Seq(Bracket), o \in Bracket : opened = Append(Y, o)
    BY <1>3, SequenceEmptyOrAppend
  <2>3. Front(opened) \in Seq(Bracket)
    BY <2>2, FrontIs
  <2>4. ASSUME NEW q, NEW Z \in Seq(Bracket), opened = Append(Z, q), <<q, t>> \in Pairs PROVE Front(opened) = Z
    BY <1>1, <2>4, FrontIs
  <2> QED
    BY <1>1, <1>3, <2>1, <2>3, <2>4
<1>4. CASE t \in Bracket /\ ~(opened # <<>> /\ <<Last(opened), t>> \in Pairs)
  <2>1. Passed(t) = Append(opened, t)
    BY <1>4 DEF Passed, Bracket
  <2>2. Append(opened, t) \in Seq(Bracket)
    BY <1>4, AppendProperties
  <2>3. ASSUME NEW o, NEW Y \in Seq(Bracket), opened = Append(Y, o), <<o, t>> \in Pairs PROVE FALSE
    <3>1. o \in Bracket
      BY <1>1, <2>3
    <3>2. Last(opened) = o /\ opened # <<>>
      BY <2>3, <3>1, FrontIs, AppendProperties
    <3> QED
      BY <1>4, <2>3, <3>2
  <2> QED
    BY <1>4, <2>1, <2>2, <2>3
<1> QED
  BY <1>2, <1>3, <1>4

LEMMA AdvanceIs ==
  ASSUME Shape, advance
  PROVE  /\ panicMode' \in BOOLEAN /\ hadError' \in BOOLEAN /\ (panicMode' => hadError')
         /\ previous' = current /\ (~hadError' => ~hadError /\ opened' = Passed(current))
         /\ opened' \in Seq(Bracket)
<1>1. PICK invalid \in BOOLEAN :
        /\ hadError' = (hadError \/ invalid) /\ panicMode' = (panicMode \/ invalid)
        /\ opened' = IF hadError' THEN <<>> ELSE Passed(current)
        /\ previous' = current
  BY DEF advance
<1>2. Passed(current) \in Seq(Bracket) /\ <<>> \in Seq(Bracket)
  BY PassedIs DEF Shape
<1>3. /\ panicMode' \in BOOLEAN /\ hadError' \in BOOLEAN /\ (panicMode' => hadError') /\ (~hadError' => ~hadError)
  BY <1>1 DEF Shape
<1> QED
  BY <1>1, <1>2, <1>3

LEMMA ErrorIs ==
  ASSUME Shape, errorAtCurrent
  PROVE  /\ panicMode' \in BOOLEAN /\ hadError' \in BOOLEAN /\ (panicMode' => hadError') /\ hadError'
         /\ previous' = previous /\ current' = current /\ opened' \in Seq(Bracket)
<1>1. hadError' = (hadError \/ ~panicMode) /\ panicMode' = TRUE /\ opened' = <<>>
  BY DEF errorAtCurrent
<1>2. hadError \/ ~panicMode
  BY DEF Shape
<1>3. hadError' = TRUE
  BY <1>1, <1>2
<1>4. <<>> \in Seq(Bracket)
  OBVIOUS
<1> QED
  BY <1>1, <1>3, <1>4 DEF errorAtCurrent

\* What stands on the stack but for its head awaits no token passed before.
LEMMA HeadOf ==
  ASSUME NEW b, NEW r, Body(b), IsSeq(r), \A k \in 1..Len(r) : r[k][1] \notin Operand, b \o r # <<>>
  PROVE  Head(b \o r)[1] \notin Operand
<1>1. /\ IsSeq(b \o r) /\ Len(b \o r) = Len(b) + Len(r) /\ Len(b) \in Nat /\ Len(r) \in Nat
      /\ \A k \in 1..(Len(b) + Len(r)) : (b \o r)[k] = IF k =< Len(b) THEN b[k] ELSE r[k - Len(b)]
  BY ConcatIs, SeqIs DEF Body
<1>2. Head(b \o r) = (b \o r)[1] /\ Len(b \o r) > 0
  BY <1>1, TailIs, SeqIs
<1>3. CASE Len(b) > 0
  <2>1. 1 \in 1..Len(b) /\ Head(b \o r) = b[1]
    BY <1>1, <1>2, <1>3
  <2> QED
    BY <2>1, SoundIs DEF Body, Operand
<1>4. CASE Len(b) = 0
  <2>1. 1 \in 1..Len(r) /\ Head(b \o r) = r[1 - 0]
    BY <1>1, <1>2, <1>4
  <2> QED
    BY <2>1
<1> QED
  BY <1>1, <1>3, <1>4

\* A step whose head is replaced by a body.
LEMMA StepBody ==
  ASSUME ParserInv, todo # <<>>, NEW b, Body(b), todo' = b \o Tail(todo),
         panicMode' \in BOOLEAN, hadError' \in BOOLEAN, panicMode' => hadError', opened' \in Seq(Bracket),
         Follows(Head(todo), previous, b, previous', current'),
         ~hadError' => \E Y \in Stack : Path(opened', b, Y) /\ Path(Y, Tail(todo), <<>>)
  PROVE  ParserInv'
<1>1. Shaped(todo) /\ Over(todo, previous)
  BY DEF ParserInv, Shape, Grouped
<1>2. Shaped(todo') /\ Over(todo', previous') /\ Top(todo', current')
  BY <1>1, BodyShaped, Replaces
<1>3. IsSeq(b) /\ IsSeq(Tail(todo)) /\ \A k \in 1..Len(Tail(todo)) : Tail(todo)[k][1] \notin Operand
  BY <1>1, ShapedTail DEF Body
<1>4. todo' # <<>> => Head(todo')[1] \notin Operand
  BY <1>3, HeadOf
<1>5. Shape'
  BY <1>2, <1>4 DEF Shape, Doing, Operand
<1>6. Balance'
  <2>1. SUFFICES ASSUME ~hadError' PROVE \E X \in Seq(Bracket) : opened' = Expecting(X)' /\ Path(X, todo', <<>>)
    BY DEF Balance
  <2>2. PICK Y \in Stack : Path(opened', b, Y) /\ Path(Y, Tail(todo), <<>>)
    BY <2>1
  <2>3. Path(opened', todo', <<>>)
    BY <1>3, <2>2, PathJoin
  <2>4. ASSUME NEW X PROVE Expecting(X)' = X
    BY <1>4 DEF Expecting
  <2> QED
    BY <2>3, <2>4
<1> QED
  BY <1>2, <1>5, <1>6 DEF ParserInv, Grouped

\* Where the head leads, as long as nothing was reported.
LEMMA Now ==
  ASSUME ParserInv, ~hadError, todo # <<>>, Head(todo)[1] \notin Operand \cup {"advance"}
  PROVE  \E Y \in Stack : Leads(Head(todo), opened, Y) /\ Path(Y, Tail(todo), <<>>)
<1>1. ~Fresh
  BY DEF Fresh
<1>2. ~Doing("parsePrefix")
  BY DEF Doing, Operand
<1>3. PICK X \in Seq(Bracket) : opened = Expecting(X) /\ Path(X, todo, <<>>)
  BY <1>1, <1>2 DEF ParserInv, Balance
<1>4. opened = X
  BY <1>3 DEF Expecting
<1>5. IsSeq(todo)
  BY DEF ParserInv, Shape, Shaped
<1> QED
  BY <1>3, <1>4, <1>5, PathHead

LEMMA HeadSound ==
  ASSUME Shape, todo # <<>>, Head(todo)[1] \notin Operand \cup {"operators"}
  PROVE  Sound(Head(todo))
<1>1. IsSeq(todo) /\ Head(todo) = todo[1]
  BY TailIs DEF Shape, Shaped
<1>2. 1 \in 1..Len(todo)
  BY <1>1, SeqIs
<1> QED
  BY <1>1, <1>2, WaitingIs DEF Shape, Shaped

\* A step that no loop over operators stands behind.
LEMMA FollowsNone ==
  ASSUME NEW s, s[1] \notin Operand \cup {"operators", "parseExpression", "consume", "errorAtCurrent"},
         NEW t, NEW b, NEW u, NEW c
  PROVE  Follows(s, t, b, u, c)
BY DEF Follows, Supports, Operand

LEMMA FollowsDone ==
  ASSUME NEW s, s[1] \in {"consume", "errorAtCurrent"}, NEW t, NEW u, NEW c
  PROVE  Follows(s, t, <<>>, u, c)
<1>1. \A p \in 0..Unary, l \in Nat : Supports(s, p, l, t) => l >= 14
  BY DEF Supports
<1>2. getPrecedence(c) \in 0..14
  BY PrecedenceIs
<1>3. \A l \in Nat : l >= 14 => getPrecedence(c) =< l
  <2> DEFINE q == getPrecedence(c)
  <2> HIDE DEF q
  <2>1. q \in 0..14 => \A l \in Nat : l >= 14 => q =< l
    OBVIOUS
  <2> QED
    BY <1>2, <2>1 DEF q
<1> QED
  BY <1>1, <1>3 DEF Follows

LEMMA NothingLeft == \A X \in Stack : Path(X, <<>>, X)
BY Flat0 DEF Flat, Balanced

LEMMA OpenedIs == ASSUME Shape PROVE opened \in Stack /\ opened # Dead
BY StackIs DEF Shape

\* A step that looks, and passes nothing.
LEMMA StepLooks ==
  ASSUME ParserInv, todo # <<>>, Neutral(Head(todo)), Head(todo)[1] \notin Operand \cup {"advance", "errorAtCurrent"},
         NEW b, Flat(b), todo' = b \o Tail(todo), UNCHANGED input,
         Follows(Head(todo), previous, b, previous', current')
  PROVE  ParserInv'
<1>1. Shape /\ opened \in Stack
  BY OpenedIs DEF ParserInv
<1>2. ASSUME ~hadError PROVE Path(opened, b, opened) /\ Path(opened, Tail(todo), <<>>)
  <2>1. PICK Y \in Stack : Leads(Head(todo), opened, Y) /\ Path(Y, Tail(todo), <<>>)
    BY <1>2, Now
  <2>2. Y = opened
    BY <2>1 DEF Leads, Neutral, Operand
  <2> QED
    BY <1>1, <2>1, <2>2 DEF Flat, Balanced
<1>3. /\ panicMode' = panicMode /\ hadError' = hadError /\ opened' = opened
  BY DEF input
<1> QED
  BY <1>1, <1>2, <1>3, StepBody DEF Shape, Flat

-----------------------------------------------------------------------------
(***************************************************************************)
(* Every step keeps the invariant.                                         *)
(***************************************************************************)
LEMMA AdvanceKeeps == ASSUME ParserInv, Advance PROVE ParserInv'
<1> DEFINE b == <<>>
<1>1. todo # <<>> /\ Head(todo)[1] = "advance" /\ advance /\ todo' = b \o Tail(todo)
  BY DEF Advance, Doing, Continue
<1>2. Body(b) /\ \A X \in Stack : Path(X, b, X)
  BY Flat0, NothingLeft DEF Flat
<1>3. Follows(Head(todo), previous, b, previous', current')
  BY <1>1, FollowsNone DEF Operand
<1> HIDE DEF b
<1>4. ASSUME ~hadError' PROVE \E Y \in Stack : Path(opened', b, Y) /\ Path(Y, Tail(todo), <<>>)
  <2>1. ~hadError /\ opened' = Passed(current)
    BY <1>1, <1>4, AdvanceIs DEF ParserInv
  <2>2. ~Doing("parsePrefix")
    BY <1>1 DEF Doing
  <2>3. CASE Fresh
    <3>1. Passed(current) = <<>>
      BY <2>3, PassedIs DEF Fresh, Bracket, Opening, Closing, ParserInv, Shape
    <3>2. Tail(todo) = <<while({"EOF"}, <<Call("parseTopLevelDeclaration")>>)>>
      BY <2>3 DEF Fresh
    <3>3. <<>> \in Stack
      BY StackIs
    <3> QED
      BY <1>2, <2>1, <3>1, <3>2, <3>3, FreshFlat DEF Flat, Balanced
  <2>4. CASE \E X \in Seq(Bracket) : opened = Expecting(X) /\ Path(X, todo, <<>>)
    <3>1. PICK X \in Seq(Bracket) : opened = Expecting(X) /\ Path(X, todo, <<>>)
      BY <2>4
    <3>2. \E Y \in Stack : Leads(Head(todo), X, Y)
      BY <1>1, <3>1, PathHead DEF ParserInv, Shape, Shaped
    <3>3. X = Dead
      BY <1>1, <3>2 DEF Leads
    <3> QED
      BY <3>3, StackIs
  <2> QED
    BY <2>1, <2>2, <2>3, <2>4 DEF ParserInv, Balance
<1> QED
  BY <1>1, <1>2, <1>3, <1>4, AdvanceIs, StepBody DEF ParserInv

LEMMA ErrorKeeps == ASSUME ParserInv, Error PROVE ParserInv'
<1>1. todo # <<>> /\ Head(todo)[1] = "errorAtCurrent" /\ errorAtCurrent /\ todo' = <<>> \o Tail(todo)
  BY DEF Error, Doing, Continue
<1>2. Body(<<>>) /\ Follows(Head(todo), previous, <<>>, previous', current')
  BY <1>1, Flat0, FollowsDone DEF Flat
<1> QED
  BY <1>1, <1>2, ErrorIs, StepBody DEF ParserInv

LEMMA ConsumeKeeps == ASSUME ParserInv, Consume PROVE ParserInv'
<1>1. /\ todo # <<>> /\ Head(todo)[1] = "consume" /\ todo' = <<>> \o Tail(todo)
      /\ (current = Head(todo)[2] /\ advance) \/ errorAtCurrent
  BY DEF Consume, Doing, Continue, Arg
<1>2. Body(<<>>) /\ Follows(Head(todo), previous, <<>>, previous', current')
  BY <1>1, Flat0, FollowsDone DEF Flat
<1>3. CASE errorAtCurrent
  BY <1>1, <1>2, <1>3, ErrorIs, StepBody DEF ParserInv
<1>4. CASE current = Head(todo)[2] /\ advance
  <2>1. ASSUME ~hadError' PROVE \E Y \in Stack : Path(opened', <<>>, Y) /\ Path(Y, Tail(todo), <<>>)
    <3>1. ~hadError /\ opened' = Passed(current) /\ opened' \in Seq(Bracket)
      BY <1>4, <2>1, AdvanceIs DEF ParserInv
    <3>2. PICK Y \in Stack : Leads(Head(todo), opened, Y) /\ Path(Y, Tail(todo), <<>>)
      BY <1>1, <3>1, Now DEF Operand
    <3>3. opened \in Seq(Bracket)
      BY DEF ParserInv, Shape
    <3>4. CASE current \in Opening
      <4>1. Y = Append(opened, current)
        BY <1>1, <1>4, <3>2, <3>4 DEF Leads
      <4> QED
        BY <3>1, <3>2, <3>3, <3>4, <4>1, PassedIs, NothingLeft
    <3>5. CASE current \notin Bracket
      <4>1. Y = opened
        BY <1>1, <1>4, <3>2, <3>5 DEF Leads
      <4> QED
        BY <3>1, <3>2, <3>3, <3>5, <4>1, PassedIs, NothingLeft
    <3>6. CASE current \in Closing
      <4>1. PICK o \in Opening : <<o, current>> \in Pairs /\ opened = Append(Y, o)
        BY <1>1, <1>4, <3>2, <3>6 DEF Leads
      <4>2. Y \in Seq(Bracket)
        <5>1. PICK Z \in Seq(Bracket), q \in Bracket : opened = Append(Z, q)
          <6>1. o \in Bracket \cup {"dead"}
            BY DEF Bracket
          <6>2. opened # <<>>
            BY <4>1, <6>1, AppendProperties DEF Stack
          <6> QED
            BY <3>3, <6>2, SequenceEmptyOrAppend
        <5>2. Y \in Seq(Bracket \cup {"dead"}) /\ Z \in Seq(Bracket \cup {"dead"}) /\ o \in Bracket /\ q \in Bracket
          BY <5>1, SeqMonotonic DEF Stack, Bracket
        <5>3. Y = Z
          <6> DEFINE S == Bracket \cup {"dead"}
          <6>1. Y \in Seq(S) /\ Z \in Seq(S) /\ o \in S /\ q \in S /\ Append(Y, o) = Append(Z, q)
            BY <4>1, <5>1, <5>2
          <6> HIDE DEF S
          <6> QED
            BY <6>1, AppendInjective
        <5> QED
          BY <5>1, <5>3
      <4> QED
        BY <3>1, <3>2, <3>3, <4>1, <4>2, PassedIs, NothingLeft
    <3> QED
      BY <3>4, <3>5, <3>6 DEF Bracket
  <2> QED
    BY <1>1, <1>2, <1>4, <2>1, AdvanceIs, StepBody DEF ParserInv
<1> QED
  BY <1>1, <1>3, <1>4

LEMMA MatchKeeps == ASSUME ParserInv, Match PROVE ParserInv'
<1> DEFINE s == Head(todo)
<1>1. /\ todo # <<>> /\ s[1] = "match"
      /\ \/ current \in DOMAIN s[2] /\ advance /\ todo' = s[2][current] \o Tail(todo)
         \/ todo' = s[3] \o Tail(todo) /\ UNCHANGED input
  BY DEF Match, Doing, Continue, Arg
<1>2. Sound(s)
  BY <1>1, HeadSound DEF ParserInv, Operand
<1>3. \A b : Follows(s, previous, b, previous', current')
  BY <1>1, FollowsNone DEF Operand
<1>4. Neutral(s) /\ s[1] \notin Operand \cup {"advance", "errorAtCurrent"}
  BY <1>1 DEF Neutral, Operand
<1>5. /\ \A t \in DOMAIN s[2] : Body(s[2][t]) /\ t \notin Closing
      /\ \A t \in DOMAIN s[2] : IF t \in Opening THEN ClosesFor(s[2][t], t) ELSE Balanced(s[2][t])
      /\ Flat(s[3])
  BY <1>1, <1>2, SoundIs DEF Flat
<1>6. CASE todo' = s[3] \o Tail(todo) /\ UNCHANGED input
  BY <1>1, <1>3, <1>4, <1>5, <1>6, StepLooks
<1>7. CASE current \in DOMAIN s[2] /\ advance /\ todo' = s[2][current] \o Tail(todo)
  <2> DEFINE b == s[2][current]
  <2>1. ASSUME ~hadError' PROVE \E Y \in Stack : Path(opened', b, Y) /\ Path(Y, Tail(todo), <<>>)
    <3>1. ~hadError /\ opened' = Passed(current)
      BY <1>7, <2>1, AdvanceIs DEF ParserInv
    <3>2. PICK Y \in Stack : Leads(s, opened, Y) /\ Path(Y, Tail(todo), <<>>)
      BY <1>1, <1>4, <3>1, Now
    <3>3. Y = opened
      BY <1>1, <3>2 DEF Leads
    <3>4. opened \in Seq(Bracket) /\ current \notin Closing
      BY <1>5, <1>7 DEF ParserInv, Shape
    <3>5. CASE current \in Opening
      <4>1. ClosesFor(b, current) /\ opened' = Append(opened, current)
        BY <1>5, <1>7, <3>1, <3>4, <3>5, PassedIs
      <4>2. Path(opened', b, opened)
        BY <3>2, <3>3, <4>1 DEF ClosesFor
      <4> QED
        BY <3>2, <3>3, <4>2
    <3>6. CASE current \notin Opening
      <4>1. Balanced(b) /\ opened' = opened
        BY <1>5, <1>7, <3>1, <3>4, <3>6, PassedIs DEF Bracket
      <4>2. Path(opened', b, opened)
        BY <3>2, <3>3, <4>1 DEF Balanced
      <4> QED
        BY <3>2, <3>3, <4>2
    <3> QED
      BY <3>5, <3>6
  <2>2. Body(b)
    BY <1>5, <1>7
  <2> HIDE DEF b
  <2>3. todo' = b \o Tail(todo)
    BY <1>7 DEF b
  <2> QED
    BY <1>1, <1>3, <1>7, <2>1, <2>2, <2>3, AdvanceIs, StepBody DEF ParserInv
<1> QED
  BY <1>1, <1>6, <1>7

LEMMA CheckKeeps == ASSUME ParserInv, Check PROVE ParserInv'
<1> DEFINE s == Head(todo)
           b == IF current \in s[2] THEN s[3] ELSE s[4]
<1>1. todo # <<>> /\ s[1] = "check" /\ todo' = b \o Tail(todo) /\ UNCHANGED input
  BY DEF Check, Doing, Continue, Arg
<1>2. Sound(s)
  BY <1>1, HeadSound DEF ParserInv, Operand
<1>3. Flat(b)
  BY <1>1, <1>2, SoundIs DEF Flat
<1>4. /\ Neutral(s) /\ s[1] \notin Operand \cup {"advance", "errorAtCurrent"}
      /\ Follows(s, previous, b, previous', current')
  BY <1>1, FollowsNone DEF Neutral, Operand
<1> QED
  BY <1>1, <1>3, <1>4, StepLooks

LEMMA FlatAppend ==
  ASSUME NEW b, NEW s, Flat(b), Plain(s)
  PROVE  Flat(Append(b, s))
<1>1. PICK S : b \in Seq(S)
  BY DEF Flat, Body, IsSeq
<1> DEFINE T == S \cup {s}
<1>2. b \in Seq(T) /\ s \in T
  BY <1>1, SeqMonotonic
<1> HIDE DEF T
<1>3. Append(b, s) = b \o <<s>>
  BY <1>2, AppendIsConcat
<1> QED
  BY <1>3, Flat1, FlatConcat

LEMMA LoopKeeps == ASSUME ParserInv, While \/ List PROVE ParserInv'
<1> DEFINE s == Head(todo)
<1>1. /\ todo # <<>> /\ s[1] \in {"while", "list"} /\ UNCHANGED input
      /\ \/ todo' = <<>> \o Tail(todo)
         \/ todo' = Append(s[3], s) \o Tail(todo)
         \/ todo' = Append(s[3], optional(",", <<s>>)) \o Tail(todo)
  BY DEF While, List, Doing, Continue, Arg
<1>2. Sound(s) /\ Neutral(s) /\ s[1] \notin Operand \cup {"advance", "errorAtCurrent"}
  BY <1>1, HeadSound DEF ParserInv, Operand, Neutral
<1>3. \A b : Follows(s, previous, b, previous', current')
  BY <1>1, FollowsNone DEF Operand
<1>4. Flat(s[3]) /\ Plain(s)
  BY <1>1, <1>2, SoundIs DEF Flat, Plain
<1>5. Plain(optional(",", <<s>>))
  BY <1>4, Flat1, OptionalPlain DEF Opening, Closing
<1>6. Flat(<<>>) /\ Flat(Append(s[3], s)) /\ Flat(Append(s[3], optional(",", <<s>>)))
  BY <1>4, <1>5, Flat0, FlatAppend
<1> HIDE DEF s
<1>7. \A b : Flat(b) /\ todo' = b \o Tail(todo) => ParserInv'
  BY <1>1, <1>2, <1>3, StepLooks DEF s
<1> QED
  BY <1>1, <1>6, <1>7

\* Where the parser resynchronizes, an error was reported.
LEMMA Reported ==
  ASSUME ParserInv, Doing("synchronize") \/ Doing("skip")
  PROVE  hadError
<1>1. todo # <<>> /\ Head(todo)[1] \in {"synchronize", "skip"}
  BY DEF Doing
<1>2. SUFFICES ASSUME ~hadError PROVE FALSE
  BY DEF ParserInv, Shape
<1>3. \E Y \in Stack : Leads(Head(todo), opened, Y)
  BY <1>1, <1>2, Now DEF Operand
<1>4. opened = Dead
  BY <1>1, <1>3 DEF Leads
<1> QED
  BY <1>4, OpenedIs DEF ParserInv

LEMMA SynchronizeKeeps == ASSUME ParserInv, synchronize PROVE ParserInv'
<1> DEFINE b == << <<"skip">> >>
<1>1. /\ todo # <<>> /\ Head(todo)[1] = "synchronize" /\ todo' = b \o Tail(todo) /\ panicMode' = FALSE
      /\ UNCHANGED <<source, previous, current, hadError, opened>> /\ Doing("synchronize")
  BY DEF synchronize, Doing, Continue
<1>2. Body(b)
  <2>1. IsSeq(b) /\ Len(b) = 1 /\ b[1] = Call("skip")
    BY Tuples DEF Call
  <2>2. Sound(Call("skip"))
    BY LeafSound DEF Call
  <2>3. \A k \in 1..1 : k = 1
    OBVIOUS
  <2> HIDE DEF b
  <2> QED
    BY <2>1, <2>2, <2>3 DEF Body
<1>3. Follows(Head(todo), previous, b, previous', current')
  BY <1>1, FollowsNone DEF Operand
<1>4. hadError
  BY <1>1, Reported
<1> HIDE DEF b
<1>5. panicMode' \in BOOLEAN /\ hadError' = hadError /\ hadError' \in BOOLEAN /\ opened' \in Seq(Bracket)
  BY <1>1 DEF ParserInv, Shape
<1>6. hadError'
  BY <1>4, <1>5
<1> QED
  BY <1>1, <1>2, <1>3, <1>5, <1>6, StepBody

LEMMA SkipKeeps == ASSUME ParserInv, Skip PROVE ParserInv'
<1>1. /\ todo # <<>> /\ Head(todo)[1] = "skip" /\ Doing("skip")
      /\ (todo' = <<>> \o Tail(todo) /\ UNCHANGED input) \/ (advance /\ UNCHANGED todo)
  BY DEF Skip, Doing, Continue
<1>2. hadError
  BY <1>1, Reported
<1>3. Shape
  BY DEF ParserInv
<1>4. CASE todo' = <<>> \o Tail(todo) /\ UNCHANGED input
  <2>1. Body(<<>>) /\ Follows(Head(todo), previous, <<>>, previous', current')
    BY <1>1, Flat0, FollowsNone DEF Flat, Operand
  <2>2. panicMode' = panicMode /\ hadError' = hadError /\ opened' = opened
    BY <1>4 DEF input
  <2>3. panicMode' \in BOOLEAN /\ hadError' \in BOOLEAN /\ opened' \in Seq(Bracket)
    BY <1>3, <2>2 DEF Shape
  <2>4. hadError'
    BY <1>2, <2>2
  <2> QED
    BY <1>1, <1>4, <2>1, <2>3, <2>4, StepBody
<1>5. CASE advance /\ UNCHANGED todo
  <2>1. /\ panicMode' \in BOOLEAN /\ hadError' \in BOOLEAN /\ (panicMode' => hadError') /\ hadError'
        /\ opened' \in Seq(Bracket)
    BY <1>2, <1>3, <1>5, AdvanceIs
  <2>2. todo' = todo /\ ~Doing("parseInfix")' /\ ~Doing("parseInfix")
    BY <1>1, <1>5 DEF Doing
  <2>3. Shape'
    BY <1>3, <2>1, <2>2 DEF Shape
  <2>4. /\ IsSeq(todo) /\ Len(todo) \in Nat /\ Head(todo) = todo[1]
        /\ \A k \in 1..Len(todo) : todo[k][1] # "parseInfix"
    <3>1. IsSeq(todo) /\ Len(todo) \in Nat /\ Head(todo) = todo[1]
      BY <1>1, <1>3, SeqIs, TailIs DEF Shape, Shaped
    <3>2. ASSUME NEW k \in 1..Len(todo) PROVE todo[k][1] # "parseInfix"
      <4>1. CASE k = 1
        BY <1>1, <3>1, <4>1
      <4>2. CASE k # 1
        BY <1>3, <4>2, SoundIs, WaitingIs DEF Shape, Shaped
      <4> QED
        BY <4>1, <4>2
    <3> QED
      BY <3>1, <3>2
  <2>5. Over(todo, previous')
    <3>1. \A k \in 1..(Len(todo) - 1) : k \in 1..Len(todo)
      BY <2>4
    <3>2. Over(todo, previous)
      BY DEF ParserInv, Grouped
    <3> QED
      BY <2>4, <3>1, <3>2, SupportsSame DEF Over
  <2>6. Top(todo, current')
    BY <1>1, <2>4, OperatorsIs DEF Top
  <2>7. Balance'
    BY <2>1 DEF Balance
  <2> QED
    BY <2>2, <2>3, <2>5, <2>6, <2>7 DEF ParserInv, Grouped
<1> QED
  BY <1>1, <1>4, <1>5

-----------------------------------------------------------------------------
(***************************************************************************)
(* Expressions.                                                            *)
(***************************************************************************)
\* An operand is entered: the token that begins it, or the operator before it, was
\* passed.
LEMMA PushKeeps ==
  ASSUME ParserInv, todo # <<>>, Head(todo)[1] \in {"parseExpression", "operators"}, advance,
         NEW f \in Operand, NEW e \in 0..Unary, NEW m \in Nat,
         todo' = <<Call(f), operators(e, m)>> \o Tail(todo),
         f = "parsePrefix" => m >= 14,
         f = "parseInfix" => m = getPrecedence(current) /\ getPrecedence(current) > e,
         \A p \in 0..Unary, l \in Nat : Supports(Head(todo), p, l, previous) => Supports(operators(e, m), p, l, current)
  PROVE  ParserInv'
<1> DEFINE b == <<Call(f), operators(e, m)>>
           r == Tail(todo)
<1>1. IsSeq(b) /\ Len(b) = 2 /\ b[1] = Call(f) /\ b[2] = operators(e, m) /\ b # <<>>
  BY Tuples
<1> HIDE DEF b
<1>2. Call(f)[1] = f /\ operators(e, m)[1] = "operators" /\ \A k \in 1..2 : k = 1 \/ k = 2
  BY DEF Call, operators
<1>3. Shaped(todo) /\ Over(todo, previous) /\ Shape
  BY DEF ParserInv, Shape, Grouped
<1>4. /\ panicMode' \in BOOLEAN /\ hadError' \in BOOLEAN /\ (panicMode' => hadError')
      /\ previous' = current /\ (~hadError' => ~hadError /\ opened' = Passed(current))
      /\ opened' \in Seq(Bracket)
  BY <1>3, AdvanceIs
<1>5. Shaped(b)
  <2>1. b[1][1] \in Operand /\ Waiting(b[2])
    BY <1>1, <1>2 DEF Waiting
  <2> QED
    BY <1>1, <1>2, <2>1 DEF Shaped
<1>6. Over(b, previous')
  <2>1. Supports(b[1], e, m, previous')
    BY <1>1, <1>2, <1>4 DEF Supports, Operand
  <2>2. SUFFICES ASSUME NEW k \in 1..(2 - 1), NEW p \in 0..Unary, NEW l \in Nat, b[k + 1] = operators(p, l)
                 PROVE  Supports(b[k], p, l, previous')
    BY <1>1 DEF Over
  <2>3. k = 1 /\ k + 1 = 2
    OBVIOUS
  <2>4. p = e /\ l = m
    BY <1>1, <2>2, <2>3, OperatorsIs
  <2> QED
    BY <2>1, <2>3, <2>4
<1>7. Top(b, current')
  BY <1>1, <1>2, OperatorsIs DEF Top, Operand
<1>8. Follows(Head(todo), previous, b, previous', current')
  BY <1>1, <1>4 DEF Follows
<1>9. todo' = b \o r
  BY DEF b
<1>10. Shaped(todo') /\ Over(todo', previous') /\ Top(todo', current')
  BY <1>3, <1>5, <1>6, <1>7, <1>8, <1>9, Replaces
<1>11. IsSeq(r)
  BY <1>3, ShapedTail
<1> HIDE DEF r
<1>12. todo' # <<>> /\ Head(todo') = Call(f) /\ IsSeq(todo')
  <2>1. /\ IsSeq(b \o r) /\ Len(b \o r) = Len(b) + Len(r) /\ Len(r) \in Nat
        /\ \A k \in 1..(Len(b) + Len(r)) : (b \o r)[k] = IF k =< Len(b) THEN b[k] ELSE r[k - Len(b)]
    BY <1>1, <1>11, ConcatIs, SeqIs
  <2>2. (b \o r)[1] = b[1] /\ Len(b \o r) > 0
    <3>1. 1 \in 1..(Len(b) + Len(r)) /\ 1 =< Len(b) /\ Len(b) + Len(r) > 0
      BY <1>1, <2>1
    <3> QED
      BY <2>1, <3>1
  <2>3. b \o r # <<>>
    BY <2>1, <2>2, SeqIs
  <2> QED
    BY <1>1, <1>9, <2>1, <2>2, <2>3, TailIs
<1>13. Shape'
  <2>1. Doing("parseInfix")' => getPrecedence(previous') > 0
    <3>1. SUFFICES ASSUME f = "parseInfix" PROVE getPrecedence(previous') > 0
      BY <1>2, <1>12 DEF Doing
    <3> DEFINE q == getPrecedence(current)
    <3>2. q \in 0..14 /\ q > e /\ e \in 0..13
      BY <3>1, PrecedenceIs DEF Unary
    <3> HIDE DEF q
    <3>3. q > 0
      BY <3>2
    <3> QED
      BY <1>4, <3>3 DEF q
  <2> QED
    BY <1>4, <1>10, <2>1 DEF Shape
<1>14. Balance'
  <2>1. SUFFICES ASSUME ~hadError'
                 PROVE  \/ Doing("parsePrefix")' /\ previous' \in Closing /\ \E Y \in Stack : Path(Y, Tail(todo'), <<>>)
                        \/ \E X \in Seq(Bracket) : opened' = Expecting(X)' /\ Path(X, todo', <<>>)
    BY DEF Balance
  <2>2. ~hadError /\ opened' = Passed(current) /\ opened \in Seq(Bracket) /\ opened \in Stack
    BY <1>3, <1>4, <2>1, OpenedIs DEF Shape
  <2>3. PICK Y \in Stack : Leads(Head(todo), opened, Y) /\ Path(Y, r, <<>>)
    BY <2>2, Now DEF Operand, r
  <2>4. Y = opened
    BY <2>3 DEF Leads
  <2>5. Path(opened, b, opened)
    <3>1. Neutral(b[1]) /\ Neutral(b[2])
      BY <1>1, <1>2 DEF Neutral, Operand
    <3>2. \A k \in 1..Len(b) : Leads(b[k], opened, opened)
      BY <1>1, <1>2, <3>1, NeutralLeads
    <3> QED
      BY <1>1, <2>2, <3>2, FlatPath
  <2>6. Path(opened, todo', <<>>)
    BY <1>1, <1>9, <1>11, <2>3, <2>4, <2>5, PathJoin
  <2>7. CASE current \in Closing
    <3>1. f = "parsePrefix"
      <4>1. SUFFICES ASSUME f = "parseInfix" PROVE FALSE
        BY DEF Operand
      <4> DEFINE q == getPrecedence(current)
      <4>2. q \in 0..14 /\ q > e /\ e \in 0..13
        BY <4>1, PrecedenceIs DEF Unary
      <4> HIDE DEF q
      <4>3. q > 0
        BY <4>2
      <4> QED
        BY <2>7, <4>3, PrecedenceIs DEF q
    <3>2. \E Z \in Stack : Path(Z, Tail(todo'), <<>>)
      BY <1>12, <2>6, PathHead
    <3> QED
      BY <1>2, <1>4, <1>12, <2>7, <3>1, <3>2 DEF Doing
  <2>8. CASE current \notin Closing
    <3>1. opened' = IF current \in Opening THEN Append(opened, current) ELSE opened
      BY <2>2, <2>8, PassedIs DEF Bracket
    <3>2. ASSUME NEW X PROVE Expecting(X)' = IF current \in Opening THEN Append(X, current) ELSE X
      BY <1>2, <1>4, <1>12 DEF Expecting
    <3> QED
      BY <2>2, <2>6, <3>1, <3>2
  <2> QED
    BY <2>7, <2>8
<1> QED
  BY <1>10, <1>13, <1>14 DEF ParserInv, Grouped

LEMMA ExpressionKeeps == ASSUME ParserInv, parseExpression PROVE ParserInv'
<1> DEFINE s == Head(todo)
<1>1. /\ todo # <<>> /\ s[1] = "parseExpression" /\ advance
      /\ todo' = <<Call("parsePrefix"), operators(s[2], Primary)>> \o Tail(todo)
  BY DEF parseExpression, Doing, Continue, Arg
<1>2. s[2] \in 0..Unary
  <2>1. Sound(s)
    BY <1>1, HeadSound DEF ParserInv, Operand
  <2> QED
    BY <1>1, <2>1, SoundIs
<1>3. ASSUME NEW p \in 0..Unary, NEW l \in Nat, Supports(s, p, l, previous)
      PROVE  Supports(operators(s[2], Primary), p, l, current)
  BY <1>1, <1>3, OperatorsIs DEF Supports
<1>4. "parsePrefix" \in Operand /\ Primary \in Nat /\ Primary >= 14
  BY DEF Operand, Primary
<1> HIDE DEF s
<1> QED
  BY <1>1, <1>2, <1>3, <1>4, PushKeeps DEF s

LEMMA OperatorsKeeps == ASSUME ParserInv, Operators PROVE ParserInv'
<1> DEFINE s == Head(todo)
           q == getPrecedence(current)
<1>1. /\ todo # <<>> /\ s[1] = "operators"
      /\ \/ s[2] < q /\ advance /\ todo' = <<Call("parseInfix"), operators(s[2], q)>> \o Tail(todo)
         \/ ~(s[2] < q) /\ todo' = <<>> \o Tail(todo) /\ UNCHANGED input
  BY DEF Operators, BindsTighter, Doing, Continue, Arg
<1>2. s[2] \in 0..Unary /\ s[3] \in Nat /\ s = operators(s[2], s[3]) /\ Neutral(s)
  <2>1. IsSeq(todo) /\ s = todo[1]
    BY <1>1, TailIs DEF ParserInv, Shape, Shaped
  <2>2. 1 \in 1..Len(todo)
    BY <1>1, <2>1, SeqIs
  <2>3. Waiting(s)
    BY <1>1, <2>1, <2>2, SoundIs DEF ParserInv, Shape, Shaped, Operand
  <2> QED
    BY <2>3, WaitingIs
<1>3. q \in 0..14
  BY PrecedenceIs
<1> HIDE DEF s, q
<1>4. CASE s[2] < q /\ advance /\ todo' = <<Call("parseInfix"), operators(s[2], q)>> \o Tail(todo)
  <2>1. ASSUME NEW p \in 0..Unary, NEW l \in Nat, Supports(s, p, l, previous)
        PROVE  Supports(operators(s[2], q), p, l, current)
    BY <1>1, <2>1, OperatorsIs DEF Supports
  <2>2. "parseInfix" \in Operand /\ q \in Nat /\ q > s[2]
    BY <1>2, <1>3, <1>4 DEF Operand, Unary
  <2> QED
    BY <1>1, <1>2, <1>4, <2>1, <2>2, PushKeeps DEF s, q
<1>5. CASE ~(s[2] < q) /\ todo' = <<>> \o Tail(todo) /\ UNCHANGED input
  <2>1. ASSUME NEW p \in 0..Unary, NEW l \in Nat, Supports(s, p, l, previous) PROVE q =< l
    <3>1. l >= 14 \/ l = s[2]
      BY <1>1, <2>1 DEF Supports
    <3> QED
      BY <1>2, <1>3, <1>5, <3>1 DEF Unary
  <2>2. Follows(s, previous, <<>>, previous', current')
    BY <1>5, <2>1 DEF Follows, input, q
  <2> QED
    BY <1>1, <1>2, <1>5, <2>2, Flat0, StepLooks DEF s, Operand
<1> QED
  BY <1>1, <1>4, <1>5

\* What a prefix or an infix puts in its place ends with a step that binds tight
\* enough for the loop behind it.
Tight(b) == b = <<>> \/ b[Len(b)][1] \in {"consume", "errorAtCurrent"} \/ b[Len(b)] = expression(Unary)

LEMMA FollowsTight ==
  ASSUME NEW s, NEW t, NEW b, NEW u, NEW c, Tight(b),
         \A p \in 0..Unary, l \in Nat : Supports(s, p, l, t) => l >= 14
  PROVE  Follows(s, t, b, u, c)
<1> DEFINE q == getPrecedence(c)
<1>1. q \in 0..14
  BY PrecedenceIs
<1> HIDE DEF q
<1>2. \A l \in Nat : l >= 14 => q =< l
  BY <1>1
<1>3. CASE b = <<>>
  BY <1>2, <1>3 DEF Follows, q
<1>4. CASE b # <<>> /\ b[Len(b)][1] \in {"consume", "errorAtCurrent"}
  BY <1>4 DEF Follows, Supports
<1>5. CASE b # <<>> /\ b[Len(b)] = expression(Unary)
  <2>1. b[Len(b)][1] = "parseExpression" /\ b[Len(b)][2] = Unary
    BY <1>5 DEF expression
  <2> QED
    BY <1>5, <2>1 DEF Follows, Supports
<1> QED
  BY <1>3, <1>4, <1>5 DEF Tight

\* An operand's token was passed: its body closes it if it opens.
LEMMA OperandKeeps ==
  ASSUME ParserInv, NEW f \in Operand, Doing(f), UNCHANGED input, NEW b, todo' = b \o Tail(todo),
         IF previous \in Opening THEN Closes(b, previous) ELSE Flat(b),
         previous \in Closing => b = <<error>>,
         Follows(Head(todo), previous, b, previous', current')
  PROVE  ParserInv'
<1>1. todo # <<>> /\ Head(todo)[1] = f /\ Shape /\ IsSeq(todo)
  BY DEF Doing, ParserInv, Shape, Shaped
<1>2. panicMode' = panicMode /\ hadError' = hadError /\ opened' = opened
  BY DEF input
<1>3. Body(b)
  BY DEF Closes, Flat
<1>4. ASSUME ~hadError' PROVE \E Y \in Stack : Path(opened', b, Y) /\ Path(Y, Tail(todo), <<>>)
  <2>1. opened \in Stack
    BY <1>1, OpenedIs
  <2>2. CASE previous \in Closing /\ \E Y \in Stack : Path(Y, Tail(todo), <<>>)
    <3>1. PICK Y \in Stack : Path(Y, Tail(todo), <<>>)
      BY <2>2
    <3>2. IsSeq(b) /\ Len(b) = 1 /\ b[1] = error
      <4>1. IsSeq(<<error>>) /\ Len(<<error>>) = 1 /\ <<error>>[1] = error
        BY Tuples
      <4>2. b = <<error>>
        BY <2>2
      <4> QED
        BY <4>1, <4>2
    <3>3. Leads(b[1], opened, Y)
      <4>1. error[1] = "errorAtCurrent"
        BY DEF error
      <4> QED
        BY <3>2, <4>1 DEF Leads
    <3>4. 1 \in 1..1 /\ \A k \in 1..1 : k = 1
      OBVIOUS
    <3>5. Path(opened, b, Y)
      BY <2>1, <3>2, <3>3, <3>4, ClosePath
    <3> QED
      BY <1>2, <3>1, <3>5
  <2>3. CASE \E X \in Seq(Bracket) : opened = Expecting(X) /\ Path(X, todo, <<>>)
    <3>1. PICK X \in Seq(Bracket) : opened = Expecting(X) /\ Path(X, todo, <<>>)
      BY <2>3
    <3>2. PICK Y \in Stack : Leads(Head(todo), X, Y) /\ Path(Y, Tail(todo), <<>>)
      BY <1>1, <3>1, PathHead
    <3>3. Y = X
      BY <1>1, <3>2 DEF Leads, Operand
    <3>4. Path(opened, b, X)
      <4>1. opened = IF previous \in Opening THEN Append(X, previous) ELSE X
        BY <1>1, <3>1 DEF Expecting
      <4> QED
        BY <3>2, <3>3, <4>1 DEF Closes, ClosesFor, Flat, Balanced
    <3> QED
      BY <1>2, <3>2, <3>3, <3>4
  <2>4. ~Fresh
    BY <1>1 DEF Fresh, Operand
  <2> QED
    BY <1>2, <1>4, <2>2, <2>3, <2>4 DEF ParserInv, Balance
<1>5. panicMode' \in BOOLEAN /\ hadError' \in BOOLEAN /\ (panicMode' => hadError') /\ opened' \in Seq(Bracket)
  BY <1>1, <1>2 DEF Shape
<1> QED
  BY <1>1, <1>3, <1>4, <1>5, StepBody

LEMMA ClosingTight ==
  ASSUME NEW a, NEW c
  PROVE  LET b == <<a, consume(c)>> IN b[Len(b)] = consume(c) /\ consume(c)[1] = "consume" /\ Tight(b)
BY DEF Tight, consume

LEMMA PrefixKeeps == ASSUME ParserInv, parsePrefix PROVE ParserInv'
<1> DEFINE elements == <<check({"]", "EOF"}, <<>>, <<list({"]"}, <<Expression>>)>>), consume("]")>>
           entries  == <<check({"]", "EOF"}, <<>>, <<list({"}"}, PairOfMap)>>), consume("}")>>
           group    == <<Expression, consume(")")>>
           b == CASE previous \in Literal \cup Type \cup {"IDENT"} -> <<>>
                  [] previous \in {"-", "!", "~"} -> <<expression(Unary)>>
                  [] previous = "(" -> group
                  [] previous = "[" -> elements
                  [] previous = "{" -> entries
                  [] OTHER -> <<error>>
<1>1. Doing("parsePrefix") /\ todo' = b \o Tail(todo) /\ UNCHANGED input
  BY DEF parsePrefix, Enter, Continue
<1>2. Closes(group, "(") /\ Tight(group)
  BY LeavesPlain, PairsAre, Closes2, ClosingTight
<1>3. Closes(elements, "[") /\ Tight(elements)
  <2>1. Flat(<<list({"]"}, <<Expression>>)>>)
    BY LeavesPlain, Flat1, LoopPlain
  <2>2. Plain(check({"]", "EOF"}, <<>>, <<list({"]"}, <<Expression>>)>>))
    BY <2>1, Flat0, CheckPlain
  <2> QED
    BY <2>2, PairsAre, Closes2, ClosingTight
<1>4. Closes(entries, "{") /\ Tight(entries)
  <2>1. Flat(PairOfMap)
    BY LeavesPlain, MarksPlain, Flat3 DEF PairOfMap
  <2>2. Flat(<<list({"}"}, PairOfMap)>>)
    BY <2>1, LoopPlain, Flat1
  <2>3. Plain(check({"]", "EOF"}, <<>>, <<list({"}"}, PairOfMap)>>))
    BY <2>2, Flat0, CheckPlain
  <2> QED
    BY <2>3, PairsAre, Closes2, ClosingTight
<1>5. Flat(<<>>) /\ Tight(<<>>)
  BY Flat0 DEF Tight
<1>6. Flat(<<expression(Unary)>>) /\ Tight(<<expression(Unary)>>)
  <2>1. Unary \in 0..Unary
    BY DEF Unary
  <2> QED
    BY <2>1, ExpressionPlain, Flat1 DEF Tight
<1>7. Flat(<<error>>) /\ Tight(<<error>>)
  BY LeavesPlain, Flat1 DEF Tight, error
<1> HIDE DEF group, elements, entries
<1>8. Tight(b) /\ (IF previous \in Opening THEN Closes(b, previous) ELSE Flat(b)) /\ (previous \in Closing => b = <<error>>)
  <2>1. CASE previous \in Literal \cup Type \cup {"IDENT"}
    <3>1. previous \notin Opening \cup Closing /\ b = <<>>
      BY <2>1 DEF Literal, Type, Opening, Closing
    <3> HIDE DEF b
    <3> QED
      BY <1>5, <3>1
  <2>2. CASE previous \in {"-", "!", "~"}
    <3>1. previous \notin Opening \cup Closing /\ b = <<expression(Unary)>>
      BY <2>2 DEF Literal, Type, Opening, Closing
    <3> HIDE DEF b
    <3> QED
      BY <1>6, <3>1
  <2>3. CASE previous = "("
    <3>1. previous \in Opening /\ previous \notin Closing /\ b = group
      BY <2>3 DEF Literal, Type, Opening, Closing
    <3> HIDE DEF b
    <3> QED
      BY <1>2, <2>3, <3>1
  <2>4. CASE previous = "["
    <3>1. previous \in Opening /\ previous \notin Closing /\ b = elements
      BY <2>4 DEF Literal, Type, Opening, Closing
    <3> HIDE DEF b
    <3> QED
      BY <1>3, <2>4, <3>1
  <2>5. CASE previous = "{"
    <3>1. previous \in Opening /\ previous \notin Closing /\ b = entries
      BY <2>5 DEF Literal, Type, Opening, Closing
    <3> HIDE DEF b
    <3> QED
      BY <1>4, <2>5, <3>1
  <2>6. CASE previous \notin Literal \cup Type \cup {"IDENT"} \cup {"-", "!", "~"} \cup {"(", "[", "{"}
    <3>1. previous \notin Opening /\ b = <<error>>
      BY <2>6 DEF Literal, Type, Opening
    <3> HIDE DEF b
    <3> QED
      BY <1>7, <3>1
  <2> QED
    BY <2>1, <2>2, <2>3, <2>4, <2>5, <2>6
<1> HIDE DEF b
<1>9. \A p \in 0..Unary, l \in Nat : Supports(Head(todo), p, l, previous) => l >= 14
  BY <1>1 DEF Doing, Supports
<1>10. Follows(Head(todo), previous, b, previous', current')
  BY <1>8, <1>9, FollowsTight
<1> QED
  BY <1>1, <1>8, <1>10, OperandKeeps DEF Operand

LEMMA InfixKeeps == ASSUME ParserInv, parseInfix PROVE ParserInv'
<1> DEFINE q         == getPrecedence(previous)
           arguments == <<check({")", "EOF"}, <<>>, <<list({")"}, <<Expression>>)>>), consume(")")>>
           index     == <<Expression, consume("]")>>
           operand   == <<expression(q)>>
           b == CASE previous = "(" -> arguments
                  [] previous = "[" -> index
                  [] previous = "." -> <<Name>>
                  [] OTHER -> operand
<1>1. Doing("parseInfix") /\ todo' = b \o Tail(todo) /\ UNCHANGED input
  BY DEF parseInfix, Enter, Continue
<1>2. q \in 0..14 /\ q > 0 /\ (q > Unary => previous \in Postfix) /\ (previous \in Postfix => q = 14)
      /\ previous \notin Closing /\ previous # "{"
  <2>1. q > 0
    BY <1>1 DEF ParserInv, Shape
  <2> QED
    BY <2>1, PrecedenceIs
<1>3. Closes(arguments, "(") /\ Tight(arguments)
  <2>1. Flat(<<list({")"}, <<Expression>>)>>)
    BY LeavesPlain, Flat1, LoopPlain
  <2>2. Plain(check({")", "EOF"}, <<>>, <<list({")"}, <<Expression>>)>>))
    BY <2>1, Flat0, CheckPlain
  <2> QED
    BY <2>2, PairsAre, Closes2, ClosingTight
<1>4. Closes(index, "[") /\ Tight(index)
  BY LeavesPlain, PairsAre, Closes2, ClosingTight
<1>5. Flat(<<Name>>) /\ Tight(<<Name>>)
  BY LeavesPlain, Flat1 DEF Tight, Name, consume
<1> HIDE DEF arguments, index, operand, q
<1>6. \A p \in 0..Unary, l \in Nat : Supports(Head(todo), p, l, previous) => l = q /\ q > p
  BY <1>1 DEF Doing, Supports, q
<1>7. CASE previous \in Postfix
  <2>1. Tight(b) /\ (IF previous \in Opening THEN Closes(b, previous) ELSE Flat(b))
    <3>1. CASE previous = "("
      <4>1. previous \in Opening /\ b = arguments
        BY <3>1 DEF Opening
      <4> HIDE DEF b
      <4> QED
        BY <1>3, <3>1, <4>1
    <3>2. CASE previous = "["
      <4>1. previous \in Opening /\ b = index
        BY <3>2 DEF Opening
      <4> HIDE DEF b
      <4> QED
        BY <1>4, <3>2, <4>1
    <3>3. CASE previous = "."
      <4>1. previous \notin Opening /\ b = <<Name>>
        BY <3>3 DEF Opening
      <4> HIDE DEF b
      <4> QED
        BY <1>5, <4>1
    <3> QED
      BY <1>7, <3>1, <3>2, <3>3 DEF Postfix
  <2> HIDE DEF b
  <2>2. \A p \in 0..Unary, l \in Nat : Supports(Head(todo), p, l, previous) => l >= 14
    <3>1. q = 14
      BY <1>2, <1>7
    <3> QED
      BY <1>6, <3>1
  <2>3. Follows(Head(todo), previous, b, previous', current')
    BY <2>1, <2>2, FollowsTight
  <2> QED
    BY <1>1, <1>2, <2>1, <2>3, OperandKeeps DEF Operand
<1>8. CASE previous \notin Postfix
  <2>1. b = operand /\ previous \notin Opening
    BY <1>2, <1>8 DEF Postfix, Opening
  <2> HIDE DEF b
  <2>2. q \in 0..Unary
    <3>1. q \in 0..14 /\ ~(q > Unary)
      BY <1>2, <1>8
    <3> QED
      BY <3>1 DEF Unary
  <2>3. Flat(b)
    BY <2>1, <2>2, ExpressionPlain, Flat1 DEF operand
  <2>4. b # <<>> /\ b[Len(b)] = expression(q)
    BY <2>1 DEF operand
  <2>5. b[Len(b)][1] = "parseExpression" /\ b[Len(b)][2] = q
    BY <2>4 DEF expression
  <2>6. Follows(Head(todo), previous, b, previous', current')
    BY <1>6, <2>4, <2>5 DEF Follows, Supports
  <2> QED
    BY <1>1, <1>2, <2>1, <2>3, <2>6, OperandKeeps DEF Operand
<1> QED
  BY <1>7, <1>8

-----------------------------------------------------------------------------
(***************************************************************************)
(* The theorems.                                                           *)
(***************************************************************************)
LEMMA EnterKeeps == ASSUME ParserInv, Enters PROVE ParserInv'
<1>1. PICK f, b : /\ Enter(f, b)
                  /\ \/ f \notin Special \cup {"errorAtCurrent"} /\ Flat(b)
                     \/ f = "parseBlockStmt" /\ Closes(b, "{")
  BY DEF Enters
<1>2. todo # <<>> /\ Head(todo)[1] = f /\ todo' = b \o Tail(todo) /\ UNCHANGED input
  BY <1>1 DEF Enter, Doing, Continue
<1>3. f \notin Operand \cup {"operators", "parseExpression", "consume", "errorAtCurrent", "advance"}
  BY <1>1 DEF Special, Operand
<1>4. Follows(Head(todo), previous, b, previous', current')
  BY <1>2, <1>3, FollowsNone
<1>5. CASE f \notin Special \cup {"errorAtCurrent"} /\ Flat(b)
  <2>1. Neutral(Head(todo))
    BY <1>2, <1>5 DEF Neutral, Special
  <2> QED
    BY <1>2, <1>3, <1>4, <1>5, <2>1, StepLooks
<1>6. CASE f = "parseBlockStmt" /\ Closes(b, "{")
  <2>1. panicMode' = panicMode /\ hadError' = hadError /\ opened' = opened
    BY <1>2 DEF input
  <2>2. ASSUME ~hadError' PROVE \E Y \in Stack : Path(opened', b, Y) /\ Path(Y, Tail(todo), <<>>)
    <3>1. PICK Y \in Stack : Leads(Head(todo), opened, Y) /\ Path(Y, Tail(todo), <<>>)
      BY <1>2, <1>3, <2>1, <2>2, Now
    <3>2. opened = Append(Y, "{")
      BY <1>2, <1>6, <3>1 DEF Leads
    <3> QED
      BY <1>6, <2>1, <3>1, <3>2 DEF Closes, ClosesFor
  <2>3. panicMode' \in BOOLEAN /\ hadError' \in BOOLEAN /\ (panicMode' => hadError') /\ opened' \in Seq(Bracket)
    BY <2>1 DEF ParserInv, Shape
  <2> QED
    BY <1>2, <1>4, <1>6, <2>2, <2>3, StepBody DEF Closes
<1> QED
  BY <1>1, <1>5, <1>6

LEMMA ParserInit == Init => ParserInv
<1> SUFFICES ASSUME Init PROVE ParserInv
  OBVIOUS
<1>1. /\ todo = << <<"advance">>, while({"EOF"}, <<Call("parseTopLevelDeclaration")>>)>>
      /\ panicMode = FALSE /\ hadError = FALSE /\ opened = <<>> /\ current = "NONE"
  BY DEF Init
<1> DEFINE w == while({"EOF"}, <<Call("parseTopLevelDeclaration")>>)
<1>2. Sound(w)
  BY CallPlain, Flat1, LoopPlain DEF Special, Plain
<1>3. Sound(Call("advance"))
  BY LeafSound DEF Call
<1> HIDE DEF w
<1> DEFINE c == Call("advance")
<1>4. IsSeq(todo) /\ Len(todo) = 2 /\ todo[1] = Call("advance") /\ todo[2] = w /\ Head(todo)[1] = "advance"
  <2>1. c = <<"advance">> /\ c[1] = "advance"
    BY DEF Call
  <2>2. todo = <<c, w>>
    BY <1>1, <2>1 DEF w
  <2> HIDE DEF c
  <2>3. IsSeq(todo) /\ Len(todo) = 2 /\ todo[1] = c /\ todo[2] = w
    BY <2>2, Tuples
  <2>4. Head(todo) = c
    BY <2>2
  <2> QED
    BY <2>1, <2>3, <2>4 DEF c
<1>5. Body(todo)
  <2>1. \A k \in 1..2 : k = 1 \/ k = 2
    OBVIOUS
  <2> QED
    BY <1>2, <1>3, <1>4, <2>1 DEF Body
<1>6. Shaped(todo) /\ Over(todo, previous) /\ Top(todo, current)
  BY <1>5, BodyShaped
<1>7. opened \in Seq(Bracket) /\ ~Doing("parseInfix")
  BY <1>1, <1>4 DEF Doing
<1>8. Fresh
  BY <1>1 DEF Fresh
<1> QED
  BY <1>1, <1>6, <1>7, <1>8 DEF ParserInv, Shape, Grouped, Balance

LEMMA ParserNext == ParserInv /\ [Next]_vars => ParserInv'
<1> SUFFICES ASSUME ParserInv, [Next]_vars PROVE ParserInv'
  OBVIOUS
<1>1. CASE UNCHANGED vars
  BY <1>1 DEF vars, ParserInv, Shape, Grouped, Balance, Fresh, Expecting, Doing
<1>2. CASE Step
  BY <1>2, AdvanceKeeps, ErrorKeeps, ConsumeKeeps, MatchKeeps, CheckKeeps, LoopKeeps, SynchronizeKeeps, SkipKeeps
     DEF Step
<1>3. CASE ParseExpression
  BY <1>3, ExpressionKeeps, OperatorsKeeps, PrefixKeeps, InfixKeeps DEF ParseExpression
<1>4. CASE ParseStatement
  BY <1>4, StatementEnters, EnterKeeps
<1>5. CASE ParseDeclaration
  BY <1>5, DeclarationEnters, EnterKeeps
<1> QED
  BY <1>1, <1>2, <1>3, <1>4, <1>5 DEF Next

\* The invariant holds of every source of tokens: the steps on the call stack close
\* the brackets that are open, and stand on it in the order of their precedence.
THEOREM ParserInvariance == Spec => []ParserInv
<1> QED
  BY ParserInit, ParserNext, PTL DEF Spec

LEMMA InvBalances == ParserInv => AcceptedIsBalanced
<1> SUFFICES ASSUME ParserInv, todo = <<>>, ~hadError PROVE opened = <<>>
  BY DEF AcceptedIsBalanced, Parsed
<1>1. ~Fresh
  BY DEF Fresh
<1>2. PICK X \in Seq(Bracket) : opened = Expecting(X) /\ Path(X, todo, <<>>)
  BY <1>1 DEF ParserInv, Balance, Doing
<1>3. opened = X
  BY <1>2 DEF Expecting
<1>4. X = <<>>
  BY <1>2, PathEnds DEF ParserInv, Shape, Shaped
<1> QED
  BY <1>3, <1>4

\* A file that is parsed without an error has every bracket closed by its own kind,
\* in order, whichever functions of class Parser passed them and however often it
\* looked ahead, tried or looped: for sources of any length and any nesting.
THEOREM AcceptedFilesBalance == Spec => []AcceptedIsBalanced
<1> QED
  BY ParserInvariance, InvBalances, PTL

LEMMA InvGroups == ParserInv => GroupsByPrecedence
<1> SUFFICES ASSUME ParserInv PROVE GroupsByPrecedence
  OBVIOUS
<1>1. Shaped(todo) /\ Over(todo, previous) /\ Top(todo, current) /\ IsSeq(todo) /\ Len(todo) \in Nat
  BY SeqIs DEF ParserInv, Shape, Grouped, Shaped
<1>2. ASSUME NEW k \in 1..Len(todo), todo[k][1] = "operators"
      PROVE  todo[k][2] \in 0..Unary /\ todo[k][3] \in Nat /\ todo[k] = operators(todo[k][2], todo[k][3])
  BY <1>1, <1>2, SoundIs, WaitingIs DEF Shaped, Operand
<1>3. ASSUME NEW k \in 1..(Len(todo) - 1), todo[k][1] = "operators", todo[k + 1][1] = "operators"
      PROVE  todo[k][2] > todo[k + 1][2] \/ todo[k][2] = Unary
  <2>1. k + 1 \in 1..Len(todo)
    BY <1>1
  <2>2. Supports(todo[k], todo[k + 1][2], todo[k + 1][3], previous)
    BY <1>1, <1>2, <1>3, <2>1 DEF Over
  <2> QED
    BY <1>3, <2>2 DEF Supports
<1>4. ASSUME Doing("operators") PROVE getPrecedence(current) =< Arg(3)
  <2>1. todo # <<>> /\ Head(todo) = todo[1] /\ todo[1][1] = "operators" /\ 1 \in 1..Len(todo)
    BY <1>1, <1>4, TailIs, SeqIs DEF Doing
  <2> QED
    BY <1>1, <1>2, <2>1 DEF Top, Arg
<1> QED
  BY <1>3, <1>4 DEF GroupsByPrecedence

\* Expressions of any size group by precedence and from the left: the loop of
\* Parser::parseExpression never takes an operator that binds looser than one it
\* took before on its level, nor, in a right operand, one that binds no tighter
\* than the operator to its left.
THEOREM ExpressionsGroup == Spec => []GroupsByPrecedence
<1> QED
  BY ParserInvariance, InvGroups, PTL
=============================================================================
