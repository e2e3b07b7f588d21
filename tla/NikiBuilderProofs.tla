--------------------------- MODULE NikiBuilderProofs ---------------------------
(***************************************************************************)
(* What the builder has built without a diagnostic the verifier does not   *)
(* refuse, and it is what lowering rests on, for trees of any shape and    *)
(* size; so it is safe to run, if lowering finds it to fit its encoding.   *)
(*                                                                         *)
(* The inductive invariant BuildInv speaks of the call stack and of the    *)
(* tables.  An action replaces the innermost call by others, which may go  *)
(* on in blocks that are new, and adds to the current block: two lemmas    *)
(* say when that keeps the invariant, StackGoesOn and TablesGrow.          *)
(***************************************************************************)
EXTENDS NikiBuilt, NikiLoweringProofs, FiniteSetTheorems

-----------------------------------------------------------------------------
(***************************************************************************)
(* Sequences.                                                              *)
(***************************************************************************)
LEMMA RangeIs ==
  ASSUME NEW S, NEW s \in Seq(S)
  PROVE  s \in Seq(Range(s)) /\ Len(s) \in Nat /\ DOMAIN s = 1..Len(s)
<1>1. Len(s) \in Nat /\ DOMAIN s = 1..Len(s)
  OBVIOUS
<1>2. \A k \in 1..Len(s) : s[k] \in Range(s)
  BY <1>1 DEF Range
<1> QED
  BY <1>1, <1>2

\* Short sequences.
LEMMA One ==
  ASSUME NEW f
  PROVE  /\ <<f>> \in Seq(Range(<<f>>)) /\ Len(<<f>>) = 1 /\ DOMAIN <<f>> = {1} /\ <<f>>[1] = f
<1>1. <<f>> \in Seq({f}) /\ Len(<<f>>) = 1 /\ <<f>>[1] = f
  OBVIOUS
<1>2. <<f>> \in Seq(Range(<<f>>)) /\ DOMAIN <<f>> = 1..1
  BY <1>1, RangeIs
<1> QED
  BY <1>1, <1>2

LEMMA Two ==
  ASSUME NEW f, NEW g
  PROVE  /\ <<f, g>> \in Seq(Range(<<f, g>>)) /\ Len(<<f, g>>) = 2 /\ DOMAIN <<f, g>> = {1, 2}
         /\ <<f, g>>[1] = f /\ <<f, g>>[2] = g
<1>1. <<f, g>> \in Seq({f, g}) /\ Len(<<f, g>>) = 2 /\ <<f, g>>[1] = f /\ <<f, g>>[2] = g
  OBVIOUS
<1>2. <<f, g>> \in Seq(Range(<<f, g>>)) /\ DOMAIN <<f, g>> = 1..2
  BY <1>1, RangeIs
<1> QED
  BY <1>1, <1>2

LEMMA Three ==
  ASSUME NEW f, NEW g, NEW h
  PROVE  /\ <<f, g, h>> \in Seq(Range(<<f, g, h>>)) /\ Len(<<f, g, h>>) = 3 /\ DOMAIN <<f, g, h>> = {1, 2, 3}
         /\ <<f, g, h>>[1] = f /\ <<f, g, h>>[2] = g /\ <<f, g, h>>[3] = h
<1>1. /\ <<f, g, h>> \in Seq({f, g, h}) /\ Len(<<f, g, h>>) = 3
      /\ <<f, g, h>>[1] = f /\ <<f, g, h>>[2] = g /\ <<f, g, h>>[3] = h
  OBVIOUS
<1>2. <<f, g, h>> \in Seq(Range(<<f, g, h>>)) /\ DOMAIN <<f, g, h>> = 1..3
  BY <1>1, RangeIs
<1> QED
  BY <1>1, <1>2

LEMMA None == <<>> \in Seq(Range(<<>>)) /\ Len(<<>>) = 0 /\ DOMAIN <<>> = {}
<1>1. <<>> \in Seq({}) /\ Len(<<>>) = 0
  OBVIOUS
<1>2. <<>> \in Seq(Range(<<>>)) /\ DOMAIN <<>> = 1..0
  BY <1>1, RangeIs
<1> QED
  BY <1>1, <1>2

\* The innermost element of a stack gives way to a sequence of others.
LEMMA Spliced ==
  ASSUME NEW s, s \in Seq(Range(s)), s # <<>>, NEW c, c \in Seq(Range(c))
  PROVE  LET t == c \o Tail(s) IN
         /\ t \in Seq(Range(t))
         /\ Len(s) \in Nat /\ Len(c) \in Nat /\ Len(s) >= 1
         /\ Len(t) = Len(c) + Len(s) - 1
         /\ DOMAIN t = 1..Len(t) /\ DOMAIN s = 1..Len(s) /\ DOMAIN c = 1..Len(c)
         /\ \A k \in 1..Len(c) : t[k] = c[k]
         /\ \A k \in (Len(c) + 1)..Len(t) : t[k] = s[k - Len(c) + 1]
<1> DEFINE S == Range(s) \cup Range(c)
           t == c \o Tail(s)
<1>1. s \in Seq(S) /\ c \in Seq(S)
  BY RangeIs
<1> HIDE DEF S
<1>2. Tail(s) \in Seq(S) /\ Len(Tail(s)) = Len(s) - 1 /\ \A k \in 1..Len(Tail(s)) : Tail(s)[k] = s[k + 1]
  BY <1>1, HeadTailProperties
<1>3. /\ t \in Seq(S) /\ Len(t) = Len(c) + Len(Tail(s))
      /\ \A k \in 1..Len(t) : t[k] = IF k =< Len(c) THEN c[k] ELSE Tail(s)[k - Len(c)]
  BY <1>1, <1>2, ConcatProperties
<1>4. Len(s) \in Nat /\ Len(s) >= 1 /\ Len(c) \in Nat /\ DOMAIN s = 1..Len(s) /\ DOMAIN c = 1..Len(c)
  BY <1>1
<1> HIDE DEF t
<1>5. t \in Seq(Range(t)) /\ DOMAIN t = 1..Len(t)
  BY <1>3, RangeIs
<1> QED
  BY <1>2, <1>3, <1>4, <1>5 DEF t

\* An element of the new stack and the next one.
LEMMA SplicedElements ==
  ASSUME NEW s, s \in Seq(Range(s)), s # <<>>, NEW c, c \in Seq(Range(c)), NEW t, t = c \o Tail(s),
         NEW k \in DOMAIN t
  PROVE  \/ k \in DOMAIN c /\ t[k] = c[k]
         \/ /\ k \notin DOMAIN c /\ k - Len(c) + 1 \in DOMAIN s \ {1} /\ t[k] = s[k - Len(c) + 1]
  BY Spliced

LEMMA KeptElements ==
  ASSUME NEW s, s \in Seq(Range(s)), s # <<>>, NEW c, c \in Seq(Range(c)), NEW t, t = c \o Tail(s),
         NEW k \in DOMAIN s \ {1}
  PROVE  \E z \in DOMAIN t \ DOMAIN c : z = k + Len(c) - 1 /\ t[z] = s[k]
<1> DEFINE m == k + Len(c) - 1
<1>1. k \in 2..Len(s) /\ Len(c) \in Nat /\ Len(s) \in Nat
  BY Spliced
<1>2. m \in (Len(c) + 1)..Len(t) /\ m - Len(c) + 1 = k
  BY <1>1, Spliced
<1> HIDE DEF m
<1>3. t[m] = s[m - Len(c) + 1] /\ m \in DOMAIN t /\ m \notin DOMAIN c
  BY <1>1, <1>2, Spliced
<1> QED
  BY <1>2, <1>3 DEF m

-----------------------------------------------------------------------------
(***************************************************************************)
(* The call stack.                                                         *)
(***************************************************************************)
\* The calls c may stand where f stood, in a function with these registers and
\* blocks, of which more are new.
Replaces(c, f, regs, blks, new) ==
  /\ c \in Seq(Range(c))
  /\ \A k \in DOMAIN c :
       /\ FrameOK(c[k], regs, blks)
       /\ Targets(c[k]) \subseteq Targets(f) \cup new
       /\ c[k].step \in DeclStep => f.step \in DeclStep
       /\ IF k < Len(c) THEN c[k + 1].step \in Callers(c[k].step)
                        ELSE /\ f.step \in Outermost => c[k].step \in Outermost
                             /\ Callers(f.step) \subseteq Callers(c[k].step)
  /\ \A j, k \in DOMAIN c : j < k =>
       /\ Targets(c[j]) \cap Targets(c[k]) = {}
       /\ c[j].step \in DeclStep => c[k].step \in DeclStep

LEMMA FramesStay ==
  ASSUME NEW f, NEW regs, NEW blks, NEW regs2, NEW blks2, FrameOK(f, regs, blks),
         f.step \in DeclStep \/ (regs \subseteq regs2 /\ blks \subseteq blks2)
  PROVE  FrameOK(f, regs2, blks2)
<1>1. CASE f.step \in DeclStep
  BY <1>1 DEF FrameOK, DeclStep, Targets, Switching
<1>2. CASE regs \subseteq regs2 /\ blks \subseteq blks2
  <2>1. Seq(regs) \subseteq Seq(regs2)
    BY <1>2
  <2> QED
    BY <1>2, <2>1 DEF FrameOK
<1> QED
  BY <1>1, <1>2

LEMMA StackGoesOn ==
  ASSUME NEW s, NEW c, NEW regs, NEW blks, NEW regs2, NEW blks2, NEW new,
         Stack(s, regs, blks), s # <<>>, Replaces(c, s[1], regs2, blks2, new), new \cap blks = {},
         s[1].step \in DeclStep \/ (regs \subseteq regs2 /\ blks \subseteq blks2)
  PROVE  Stack(c \o Tail(s), regs2, blks2)
<1> DEFINE t == c \o Tail(s)
<1>1. /\ s \in Seq(Range(s)) /\ c \in Seq(Range(c)) /\ 1 \in DOMAIN s
      /\ t \in Seq(Range(t)) /\ DOMAIN t = 1..Len(t) /\ DOMAIN s = 1..Len(s) /\ DOMAIN c = 1..Len(c)
      /\ Len(s) \in Nat /\ Len(c) \in Nat /\ Len(t) = Len(c) + Len(s) - 1 /\ Len(s) >= 1
  <2>1. s \in Seq(Range(s)) /\ c \in Seq(Range(c))
    BY DEF Stack, Replaces
  <2> QED
    BY <2>1, Spliced
<1>2. \A k \in DOMAIN t : \/ k \in DOMAIN c /\ t[k] = c[k]
                          \/ /\ k \notin DOMAIN c /\ k - Len(c) + 1 \in DOMAIN s \ {1} /\ t[k] = s[k - Len(c) + 1]
  BY <1>1, SplicedElements
<1> HIDE DEF t
<1>3. ASSUME NEW k \in DOMAIN t
      PROVE  FrameOK(t[k], regs2, blks2)
  <2>1. CASE k \in DOMAIN c /\ t[k] = c[k]
    BY <2>1 DEF Replaces
  <2>2. ASSUME NEW m \in DOMAIN s \ {1}, t[k] = s[m]
        PROVE  FrameOK(t[k], regs2, blks2)
    <3>1. FrameOK(s[m], regs, blks)
      BY DEF Stack
    <3>2. s[m].step \in DeclStep \/ (regs \subseteq regs2 /\ blks \subseteq blks2)
      BY <1>1 DEF Stack
    <3> QED
      BY <2>2, <3>1, <3>2, FramesStay
  <2> QED
    BY <1>2, <2>1, <2>2
<1>4. ASSUME NEW k \in DOMAIN t
      PROVE  IF k = Len(t) THEN t[k].step \in Outermost ELSE t[k + 1].step \in Callers(t[k].step)
  <2>1. ASSUME k > Len(c)
        PROVE  IF k = Len(t) THEN t[k].step \in Outermost ELSE t[k + 1].step \in Callers(t[k].step)
    <3> DEFINE m == k - Len(c) + 1
    <3>1. m \in 2..Len(s) /\ t[k] = s[m] /\ (k = Len(t) <=> m = Len(s))
      BY <1>1, <1>2, <2>1
    <3>2. ASSUME k # Len(t)
          PROVE  t[k + 1] = s[m + 1]
      <4> DEFINE z == k + 1
      <4>1. z \in DOMAIN t /\ z \notin DOMAIN c /\ z - Len(c) + 1 = m + 1
        BY <1>1, <2>1, <3>2
      <4> HIDE DEF z, m
      <4> QED
        BY <1>2, <4>1 DEF z
    <3>3. IF m = Len(s) THEN s[m].step \in Outermost ELSE s[m + 1].step \in Callers(s[m].step)
      BY <1>1, <3>1 DEF Stack
    <3> HIDE DEF m
    <3> QED
      BY <3>1, <3>2, <3>3
  <2>2. ASSUME k = Len(c)
        PROVE  IF k = Len(t) THEN t[k].step \in Outermost ELSE t[k + 1].step \in Callers(t[k].step)
    <3>1. /\ t[k] = c[k] /\ k \in DOMAIN c /\ (k = Len(t) <=> 1 = Len(s))
      BY <1>1, <1>2, <2>2, SMTT(30)
    <3>2. ASSUME k # Len(t)
          PROVE  t[k + 1] = s[2]
      <4> DEFINE z == k + 1
      <4>1. z \in DOMAIN t /\ z \notin DOMAIN c /\ z - Len(c) + 1 = 2
        BY <1>1, <2>2, <3>2
      <4> HIDE DEF z
      <4> QED
        BY <1>2, <4>1 DEF z
    <3>3. IF 1 = Len(s) THEN s[1].step \in Outermost ELSE s[2].step \in Callers(s[1].step)
      BY <1>1, SMTT(30) DEF Stack
    <3>4. (s[1].step \in Outermost => c[k].step \in Outermost) /\ Callers(s[1].step) \subseteq Callers(c[k].step)
      BY <1>1, <2>2, <3>1 DEF Replaces
    <3> QED
      BY <3>1, <3>2, <3>3, <3>4
  <2>3. ASSUME k < Len(c)
        PROVE  IF k = Len(t) THEN t[k].step \in Outermost ELSE t[k + 1].step \in Callers(t[k].step)
    <3>1. k \in DOMAIN c /\ k + 1 \in DOMAIN c /\ k # Len(t) /\ k + 1 \in DOMAIN t
      BY <1>1, <2>3
    <3>2. t[k] = c[k] /\ t[k + 1] = c[k + 1]
      BY <1>2, <3>1
    <3> QED
      BY <2>3, <3>1, <3>2 DEF Replaces
  <2> QED
    BY <1>1, <2>1, <2>2, <2>3
<1>5. ASSUME NEW j \in DOMAIN t, NEW k \in DOMAIN t, j < k
      PROVE  /\ Targets(t[j]) \cap Targets(t[k]) = {}
             /\ t[j].step \in DeclStep => t[k].step \in DeclStep
  <2>1. CASE k \in DOMAIN c
    <3>1. j \in DOMAIN c /\ t[j] = c[j] /\ t[k] = c[k]
      BY <1>1, <1>2, <1>5, <2>1
    <3> QED
      BY <1>5, <2>1, <3>1 DEF Replaces
  <2>2. CASE k \notin DOMAIN c
    <3> DEFINE m == k - Len(c) + 1
    <3>1. m \in DOMAIN s \ {1} /\ 1 < m /\ t[k] = s[m]
      BY <1>1, <1>2, <2>2
    <3> HIDE DEF m
    <3>2. CASE j \in DOMAIN c
      <4>1. t[j] = c[j]
        BY <1>2, <3>2
      <4>2. /\ Targets(c[j]) \subseteq Targets(s[1]) \cup new
            /\ c[j].step \in DeclStep => s[1].step \in DeclStep
        BY <3>2 DEF Replaces
      <4>3. /\ Targets(s[1]) \cap Targets(s[m]) = {}
            /\ s[1].step \in DeclStep => s[m].step \in DeclStep
        BY <1>1, <3>1 DEF Stack
      <4>4. Targets(s[m]) \subseteq blks
        <5>1. FrameOK(s[m], regs, blks)
          BY <3>1 DEF Stack
        <5> QED
          BY <5>1 DEF FrameOK
      <4> QED
        BY <3>1, <4>1, <4>2, <4>3, <4>4
    <3>3. CASE j \notin DOMAIN c
      <4> DEFINE l == j - Len(c) + 1
      <4>1. l \in DOMAIN s /\ l < m /\ t[j] = s[l]
        BY <1>1, <1>2, <1>5, <3>3 DEF m
      <4> HIDE DEF l
      <4> QED
        BY <3>1, <4>1 DEF Stack
    <3> QED
      BY <3>2, <3>3
  <2> QED
    BY <2>1, <2>2
<1> QED
  BY <1>1, <1>3, <1>4, <1>5 DEF Stack, t

LEMMA TargetsAfter ==
  ASSUME NEW s, s \in Seq(Range(s)), s # <<>>, NEW c, c \in Seq(Range(c)),
         \A k \in DOMAIN s : 1 < k => Targets(s[1]) \cap Targets(s[k]) = {}
  PROVE  AllTargets(c \o Tail(s)) = (AllTargets(s) \ Targets(s[1])) \cup AllTargets(c)
<1> DEFINE t == c \o Tail(s)
<1>1. /\ 1 \in DOMAIN s /\ DOMAIN c \subseteq DOMAIN t /\ \A k \in DOMAIN c : t[k] = c[k]
      /\ \A k \in DOMAIN s \ {1} : 1 < k
  BY Spliced
<1>2. \A k \in DOMAIN t : (k \in DOMAIN c /\ t[k] = c[k]) \/ \E m \in DOMAIN s \ {1} : t[k] = s[m]
  BY SplicedElements
<1>3. ASSUME NEW m \in DOMAIN s \ {1}
      PROVE  \E k \in DOMAIN t : t[k] = s[m]
  <2>1. \E z \in DOMAIN t \ DOMAIN c : z = m + Len(c) - 1 /\ t[z] = s[m]
    BY KeptElements
  <2> QED
    BY <2>1
<1> HIDE DEF t
<1>4. ASSUME NEW z \in AllTargets(t)
      PROVE  z \in (AllTargets(s) \ Targets(s[1])) \cup AllTargets(c)
  <2>1. PICK k \in DOMAIN t : z \in Targets(t[k])
    BY DEF AllTargets
  <2>2. CASE k \in DOMAIN c /\ t[k] = c[k]
    BY <2>1, <2>2 DEF AllTargets
  <2>3. ASSUME NEW m \in DOMAIN s \ {1}, t[k] = s[m]
        PROVE  z \in AllTargets(s) \ Targets(s[1])
    <3>1. z \in Targets(s[m]) /\ 1 < m
      BY <1>1, <2>1, <2>3
    <3>2. Targets(s[1]) \cap Targets(s[m]) = {}
      BY <3>1
    <3> QED
      BY <3>1, <3>2 DEF AllTargets
  <2> QED
    BY <1>2, <2>2, <2>3
<1>5. ASSUME NEW z \in AllTargets(c)
      PROVE  z \in AllTargets(t)
  BY <1>1 DEF AllTargets
<1>6. ASSUME NEW z \in AllTargets(s), z \notin Targets(s[1])
      PROVE  z \in AllTargets(t)
  <2>1. PICK m \in DOMAIN s \ {1} : z \in Targets(s[m])
    BY <1>6 DEF AllTargets
  <2>2. PICK k \in DOMAIN t : t[k] = s[m]
    BY <1>3
  <2> QED
    BY <2>1, <2>2 DEF AllTargets
<1> QED
  BY <1>4, <1>5, <1>6 DEF t

LEMMA AwaitedAfter ==
  ASSUME NEW s, s \in Seq(Range(s)), s # <<>>, NEW c, c \in Seq(Range(c))
  PROVE  /\ Awaited(c) \subseteq Awaited(c \o Tail(s))
         /\ \A r \in Awaited(s) : r \in Awaited(c \o Tail(s)) \/ (s[1].step = "VarDecl" /\ r = s[1].arg[1])
<1> DEFINE t == c \o Tail(s)
<1>1. DOMAIN c \subseteq DOMAIN t /\ \A k \in DOMAIN c : t[k] = c[k]
  BY Spliced
<1>2. ASSUME NEW m \in DOMAIN s \ {1}
      PROVE  \E k \in DOMAIN t : t[k] = s[m]
  <2>1. \E z \in DOMAIN t \ DOMAIN c : z = m + Len(c) - 1 /\ t[z] = s[m]
    BY KeptElements, SMTT(30)
  <2> QED
    BY <2>1
<1> HIDE DEF t
<1>3. Awaited(c) \subseteq Awaited(t)
  BY <1>1 DEF Awaited
<1>4. ASSUME NEW r \in Awaited(s)
      PROVE  r \in Awaited(t) \/ (s[1].step = "VarDecl" /\ r = s[1].arg[1])
  <2>1. PICK m \in DOMAIN s : s[m].step = "VarDecl" /\ r = s[m].arg[1]
    BY DEF Awaited
  <2>2. CASE m = 1
    BY <2>1, <2>2
  <2>3. CASE m # 1
    <3>1. PICK k \in DOMAIN t : t[k] = s[m]
      BY <1>2, <2>3
    <3> QED
      BY <2>1, <3>1 DEF Awaited
  <2> QED
    BY <2>2, <2>3
<1> QED
  BY <1>3, <1>4 DEF t

\* A loop that waits for its condition waits behind expressions alone.
LEMMA ConditionsGoOn ==
  ASSUME NEW s, s \in Seq(Range(s)), s # <<>>, NEW c, c \in Seq(Range(c)), NEW now, NEW then,
         Conditions(s, now),
         \A k \in DOMAIN c : c[k].step = "Loop" =>
           then = c[k].arg[1] /\ \A j \in DOMAIN c : j < k => c[j].step \in ExprStep,
         s[1].step \in ExprStep => then = now /\ \A k \in DOMAIN c : c[k].step \in ExprStep
  PROVE  Conditions(c \o Tail(s), then)
<1> DEFINE t == c \o Tail(s)
<1>1. /\ DOMAIN t = 1..Len(t) /\ DOMAIN s = 1..Len(s) /\ DOMAIN c = 1..Len(c)
      /\ Len(s) \in Nat /\ Len(c) \in Nat /\ Len(t) = Len(c) + Len(s) - 1 /\ Len(s) >= 1
  BY Spliced
<1>2. \A k \in DOMAIN t : \/ k \in DOMAIN c /\ t[k] = c[k]
                          \/ /\ k \notin DOMAIN c /\ k - Len(c) + 1 \in DOMAIN s \ {1} /\ t[k] = s[k - Len(c) + 1]
  BY SplicedElements
<1> HIDE DEF t
<1> SUFFICES ASSUME NEW k \in DOMAIN t, t[k].step = "Loop"
             PROVE  then = t[k].arg[1] /\ \A j \in 1..(k - 1) : t[j].step \in ExprStep
  BY DEF Conditions, t
<1>3. CASE k \in DOMAIN c
  <2>1. \A j \in 1..(k - 1) : j \in DOMAIN c /\ j < k /\ j \in DOMAIN t
    BY <1>1, <1>3
  <2>2. t[k] = c[k] /\ \A j \in 1..(k - 1) : t[j] = c[j]
    BY <1>2, <1>3, <2>1
  <2> QED
    BY <1>3, <2>1, <2>2
<1>4. CASE k \notin DOMAIN c
  <2> DEFINE m == k - Len(c) + 1
  <2>1. m \in DOMAIN s /\ m > 1 /\ t[k] = s[m]
    BY <1>1, <1>2, <1>4
  <2>2. now = s[m].arg[1] /\ \A j \in 1..(m - 1) : s[j].step \in ExprStep
    BY <2>1 DEF Conditions
  <2>3. s[1].step \in ExprStep
    <3> HIDE DEF m
    <3> QED
      BY <1>1, <2>1, <2>2
  <2>4. ASSUME NEW j \in 1..(k - 1)
        PROVE  t[j].step \in ExprStep
    <3>1. j \in DOMAIN t
      BY <1>1
    <3>2. CASE j \in DOMAIN c /\ t[j] = c[j]
      BY <2>3, <3>2
    <3>3. CASE j \notin DOMAIN c /\ j - Len(c) + 1 \in DOMAIN s \ {1} /\ t[j] = s[j - Len(c) + 1]
      <4> DEFINE l == j - Len(c) + 1
      <4>1. l \in 1..(m - 1) /\ t[j] = s[l]
        BY <1>1, <3>3
      <4> HIDE DEF l, m
      <4> QED
        BY <2>2, <4>1
    <3> QED
      BY <1>2, <3>1, <3>2, <3>3
  <2> QED
    BY <2>1, <2>2, <2>3, <2>4
<1> QED
  BY <1>3, <1>4

LEMMA NestingGoesOn ==
  ASSUME NEW s, s \in Seq(Range(s)), s # <<>>, NEW c, c \in Seq(Range(c)), NEW n, Nesting(s, n),
         \A k \in DOMAIN c : IsLoop(c[k]) => IsLoop(s[1]) /\ c[k].arg[2] = s[1].arg[2],
         \A j, k \in DOMAIN c : IsLoop(c[j]) /\ IsLoop(c[k]) => j = k,
         IsLoop(s[1]) => \E k \in DOMAIN c : IsLoop(c[k])
  PROVE  Nesting(c \o Tail(s), n)
<1> DEFINE t == c \o Tail(s)
<1>1. /\ DOMAIN t = 1..Len(t) /\ DOMAIN s = 1..Len(s) /\ DOMAIN c = 1..Len(c) /\ 1 \in DOMAIN s
      /\ Len(s) \in Nat /\ Len(c) \in Nat /\ Len(t) = Len(c) + Len(s) - 1 /\ Len(s) >= 1
      /\ \A k \in DOMAIN c : k \in DOMAIN t /\ t[k] = c[k]
  BY Spliced
<1>2. \A k \in DOMAIN t : \/ k \in DOMAIN c /\ t[k] = c[k]
                          \/ /\ k \notin DOMAIN c /\ k - Len(c) + 1 \in DOMAIN s \ {1} /\ t[k] = s[k - Len(c) + 1]
  BY SplicedElements
<1>3. ASSUME NEW m \in DOMAIN s \ {1}
      PROVE  \E k \in DOMAIN t : t[k] = s[m]
  <2>1. \E z \in DOMAIN t \ DOMAIN c : z = m + Len(c) - 1 /\ t[z] = s[m]
    BY KeptElements, SMTT(30)
  <2> QED
    BY <2>1
<1> HIDE DEF t
<1>4. ASSUME NEW k \in DOMAIN t, IsLoop(t[k])
      PROVE  t[k].arg[2] \in 1..n
  <2>1. CASE k \in DOMAIN c /\ t[k] = c[k]
    BY <1>1, <1>4, <2>1 DEF Nesting
  <2>2. ASSUME NEW m \in DOMAIN s \ {1}, t[k] = s[m]
        PROVE  t[k].arg[2] \in 1..n
    BY <1>4, <2>2 DEF Nesting
  <2> QED
    BY <1>2, <2>1, <2>2
<1>5. ASSUME NEW l \in 1..n
      PROVE  \E k \in DOMAIN t : IsLoop(t[k]) /\ t[k].arg[2] = l
  <2>1. PICK m \in DOMAIN s : IsLoop(s[m]) /\ s[m].arg[2] = l
    BY DEF Nesting
  <2>2. CASE m = 1
    <3>1. PICK k \in DOMAIN c : IsLoop(c[k])
      BY <2>1, <2>2
    <3> QED
      BY <1>1, <2>1, <2>2, <3>1, SMTT(30)
  <2>3. CASE m # 1
    <3>1. PICK k \in DOMAIN t : t[k] = s[m]
      BY <1>3, <2>3
    <3> QED
      BY <2>1, <3>1
  <2> QED
    BY <2>2, <2>3
<1>6. ASSUME NEW j \in DOMAIN t, NEW k \in DOMAIN t, j < k, IsLoop(t[j]), IsLoop(t[k])
      PROVE  t[k].arg[2] < t[j].arg[2]
  <2>1. CASE k \in DOMAIN c
    <3>1. j \in DOMAIN c /\ t[j] = c[j] /\ t[k] = c[k]
      BY <1>1, <1>6, <2>1
    <3> QED
      BY <1>1, <1>6, <2>1, <3>1
  <2>2. CASE k \notin DOMAIN c
    <3> DEFINE m == k - Len(c) + 1
    <3>1. m \in DOMAIN s \ {1} /\ 1 < m /\ t[k] = s[m]
      BY <1>1, <1>2, <2>2
    <3>2. CASE j \in DOMAIN c
      <4> HIDE DEF m
      <4>1. t[j] = c[j] /\ IsLoop(s[1]) /\ c[j].arg[2] = s[1].arg[2]
        BY <1>2, <1>6, <3>2
      <4> QED
        BY <1>1, <1>6, <3>1, <4>1, SMTT(30) DEF Nesting
    <3>3. CASE j \notin DOMAIN c
      <4> DEFINE l == j - Len(c) + 1
      <4>1. l \in DOMAIN s /\ l < m /\ t[j] = s[l]
        BY <1>1, <1>2, <1>6, <3>3
      <4> HIDE DEF m, l
      <4> QED
        BY <1>6, <3>1, <4>1 DEF Nesting
    <3> QED
      BY <3>2, <3>3
  <2> QED
    BY <2>1, <2>2
<1> QED
  BY <1>4, <1>5, <1>6 DEF Nesting, t

\* A loop is entered: it is the innermost.
LEMMA NestingEnters ==
  ASSUME NEW s, s \in Seq(Range(s)), s # <<>>, NEW f, NEW n \in Nat, Nesting(s, n),
         ~IsLoop(s[1]), IsLoop(f), f.arg[2] = n + 1
  PROVE  Nesting(<<f>> \o Tail(s), n + 1)
<1> DEFINE c == <<f>>
           t == c \o Tail(s)
<1>1. c \in Seq(Range(c)) /\ DOMAIN c = {1} /\ c[1] = f /\ Len(c) = 1
  BY One
<1> HIDE DEF c
<1>2. /\ DOMAIN t = 1..Len(t) /\ DOMAIN s = 1..Len(s) /\ Len(s) \in Nat /\ Len(t) = Len(s) /\ Len(s) >= 1
      /\ t[1] = f /\ \A k \in 2..Len(t) : t[k] = s[k]
  <2>0. c \in Seq(Range(c))
    BY <1>1
  <2>1. /\ DOMAIN t = 1..Len(t) /\ DOMAIN s = 1..Len(s) /\ Len(s) \in Nat /\ Len(s) >= 1
        /\ Len(t) = Len(c) + Len(s) - 1
        /\ \A k \in 1..Len(c) : t[k] = c[k]
        /\ \A k \in (Len(c) + 1)..Len(t) : t[k] = s[k - Len(c) + 1]
    BY <2>0, Spliced, SMTT(30)
  <2> HIDE DEF t
  <2>2. Len(t) = Len(s) /\ t[1] = f
    BY <1>1, <2>1
  <2>3. ASSUME NEW k \in 2..Len(t)
        PROVE  t[k] = s[k]
    BY <1>1, <2>1
  <2> QED
    BY <2>1, <2>2, <2>3
<1> HIDE DEF t
<1>3. \A k \in DOMAIN t : IsLoop(t[k]) => t[k].arg[2] \in 1..(n + 1)
  BY <1>2 DEF Nesting
<1>4. ASSUME NEW l \in 1..(n + 1)
      PROVE  \E k \in DOMAIN t : IsLoop(t[k]) /\ t[k].arg[2] = l
  <2>1. CASE l = n + 1
    BY <1>2, <2>1
  <2>2. CASE l \in 1..n
    <3>1. PICK m \in DOMAIN s : IsLoop(s[m]) /\ s[m].arg[2] = l
      BY <2>2 DEF Nesting
    <3> QED
      BY <1>2, <3>1
  <2> QED
    BY <2>1, <2>2
<1>5. ASSUME NEW j \in DOMAIN t, NEW k \in DOMAIN t, j < k, IsLoop(t[j]), IsLoop(t[k])
      PROVE  t[k].arg[2] < t[j].arg[2]
  <2>1. k \in DOMAIN s /\ k # 1 /\ t[k] = s[k]
    BY <1>2, <1>5
  <2>2. CASE j = 1
    BY <1>2, <1>5, <2>1, <2>2 DEF Nesting
  <2>3. CASE j # 1
    BY <1>2, <1>5, <2>1, <2>3, SMTT(30) DEF Nesting
  <2> QED
    BY <2>2, <2>3
<1> QED
  BY <1>3, <1>4, <1>5 DEF Nesting, t, c

\* A loop is left: it was the innermost.
LEMMA NestingLeaves ==
  ASSUME NEW s, s \in Seq(Range(s)), s # <<>>, NEW n \in Nat, Nesting(s, n), IsLoop(s[1])
  PROVE  n >= 1 /\ Nesting(Tail(s), n - 1)
<1> DEFINE t == Tail(s)
<1>1. /\ DOMAIN t = 1..(Len(s) - 1) /\ DOMAIN s = 1..Len(s) /\ Len(s) \in Nat /\ Len(s) >= 1
      /\ \A k \in DOMAIN t : t[k] = s[k + 1]
  BY HeadTailProperties
<1> HIDE DEF t
<1>2. n >= 1 /\ s[1].arg[2] \in 1..n
  BY <1>1 DEF Nesting
<1>3. \A m \in DOMAIN s \ {1} : IsLoop(s[m]) => s[m].arg[2] < s[1].arg[2]
  BY <1>1, SMTT(30) DEF Nesting
<1>4. s[1].arg[2] = n
  <2>1. PICK m \in DOMAIN s : IsLoop(s[m]) /\ s[m].arg[2] = n
    BY <1>2 DEF Nesting
  <2> QED
    BY <1>2, <1>3, <2>1
<1>5. \A k \in DOMAIN t : k + 1 \in DOMAIN s \ {1}
  BY <1>1
<1>6. ASSUME NEW k \in DOMAIN t, IsLoop(t[k])
      PROVE  t[k].arg[2] \in 1..(n - 1)
  <2>1. t[k].arg[2] \in 1..n /\ t[k].arg[2] < n
    BY <1>1, <1>3, <1>4, <1>5, <1>6 DEF Nesting
  <2> QED
    BY <2>1
<1>7. ASSUME NEW l \in 1..(n - 1)
      PROVE  \E k \in DOMAIN t : IsLoop(t[k]) /\ t[k].arg[2] = l
  <2>1. l \in 1..n /\ l # n
    OBVIOUS
  <2>2. PICK m \in DOMAIN s : IsLoop(s[m]) /\ s[m].arg[2] = l
    BY <2>1 DEF Nesting
  <2>3. m # 1
    BY <1>4, <2>1, <2>2
  <2> DEFINE k == m - 1
  <2>4. k \in DOMAIN t /\ m = k + 1
    BY <1>1, <2>3
  <2> HIDE DEF k
  <2>5. t[k] = s[m]
    BY <1>1, <2>4
  <2> QED
    BY <2>2, <2>4, <2>5
<1>8. ASSUME NEW j \in DOMAIN t, NEW k \in DOMAIN t, j < k, IsLoop(t[j]), IsLoop(t[k])
      PROVE  t[k].arg[2] < t[j].arg[2]
  <2>1. j + 1 \in DOMAIN s /\ k + 1 \in DOMAIN s /\ j + 1 < k + 1 /\ t[j] = s[j + 1] /\ t[k] = s[k + 1]
    BY <1>1, <1>5, <1>8
  <2> QED
    BY <1>8, <2>1 DEF Nesting
<1> QED
  BY <1>2, <1>6, <1>7, <1>8 DEF Nesting, t

\* A call that has got one more operand is the same call for everything else.
LEMMA GotMore ==
  ASSUME NEW s, NEW regs, NEW blks, Stack(s, regs, blks), s # <<>>, s[1].step \notin DeclStep, NEW r \in regs,
         NEW t, t = [s EXCEPT ![1].got = Append(@, r)]
  PROVE  /\ Stack(t, regs, blks) /\ t # <<>> /\ t[1].step = s[1].step
         /\ AllTargets(t) = AllTargets(s) /\ Awaited(t) = Awaited(s)
         /\ \A c : Conditions(s, c) => Conditions(t, c)
         /\ \A n : Nesting(s, n) => Nesting(t, n)
<1>1. s \in Seq(Range(s)) /\ DOMAIN s = 1..Len(s) /\ Len(s) \in Nat /\ 1 \in DOMAIN s
  BY DEF Stack
<1>2. FrameOK(s[1], regs, blks)
  BY <1>1 DEF Stack
<1> DEFINE f == [s[1] EXCEPT !.got = Append(@, r)]
<1>3. f.step = s[1].step /\ f.node = s[1].node /\ f.arg = s[1].arg /\ f.got = Append(s[1].got, r)
      /\ f = [step |-> f.step, node |-> f.node, arg |-> f.arg, got |-> f.got]
  <2> DEFINE g == s[1]
  <2>1. g = [step |-> g.step, node |-> g.node, arg |-> g.arg, got |-> g.got]
    BY <1>2 DEF FrameOK
  <2> DEFINE more == Append(g.got, r)
  <2>2. f = [g EXCEPT !.got = more]
    OBVIOUS
  <2> HIDE DEF f, g, more
  <2>3. f = [step |-> g.step, node |-> g.node, arg |-> g.arg, got |-> more]
    BY <2>1, <2>2
  <2>4. f.step = g.step /\ f.node = g.node /\ f.arg = g.arg /\ f.got = more
    BY <2>3
  <2> QED
    BY <2>3, <2>4 DEF g, more
<1>4. f.got \in Seq(regs)
  BY <1>2, <1>3 DEF FrameOK
<1>5. t = [s EXCEPT ![1] = f]
  OBVIOUS
<1> HIDE DEF f
<1>6. /\ DOMAIN t = DOMAIN s /\ t \in Seq(Range(s) \cup {f}) /\ t[1] = f
      /\ \A k \in DOMAIN s : k # 1 => t[k] = s[k]
  <2>1. s \in Seq(Range(s) \cup {f})
    BY <1>1
  <2> QED
    BY <1>1, <1>5, <2>1
<1>7. t \in Seq(Range(t)) /\ t # <<>> /\ Len(t) = Len(s)
  <2>1. t \in Seq(Range(t)) /\ DOMAIN t = 1..Len(t) /\ Len(t) \in Nat
    BY <1>6, RangeIs
  <2> QED
    BY <1>1, <1>6, <2>1
<1>8. \A k \in DOMAIN s : t[k].step = s[k].step /\ t[k].arg = s[k].arg
  BY <1>3, <1>6
<1>9. \A k \in DOMAIN s : Targets(t[k]) = Targets(s[k]) /\ (IsLoop(t[k]) <=> IsLoop(s[k]))
  BY <1>8 DEF Targets, IsLoop
<1>10. FrameOK(f, regs, blks)
  BY <1>2, <1>3, <1>4 DEF FrameOK, Targets
<1>11. Stack(t, regs, blks)
  <2>1. \A k \in DOMAIN t : FrameOK(t[k], regs, blks)
    BY <1>6, <1>10 DEF Stack
  <2>2. ASSUME NEW k \in DOMAIN t
        PROVE  IF k = Len(t) THEN t[k].step \in Outermost ELSE t[k + 1].step \in Callers(t[k].step)
    <3>1. IF k = Len(s) THEN s[k].step \in Outermost ELSE s[k + 1].step \in Callers(s[k].step)
      BY <1>6 DEF Stack
    <3>2. k # Len(s) => k + 1 \in DOMAIN s
      BY <1>1, <1>6
    <3>3. k # Len(s) => t[k + 1].step = s[k + 1].step
      BY <1>8, <3>2
    <3> QED
      BY <1>6, <1>7, <1>8, <3>1, <3>3
  <2>3. ASSUME NEW j \in DOMAIN t, NEW k \in DOMAIN t, j < k
        PROVE  /\ Targets(t[j]) \cap Targets(t[k]) = {}
               /\ t[j].step \in DeclStep => t[k].step \in DeclStep
    <3>1. /\ Targets(s[j]) \cap Targets(s[k]) = {}
          /\ s[j].step \in DeclStep => s[k].step \in DeclStep
      BY <1>6, <2>3 DEF Stack
    <3> QED
      BY <1>6, <1>8, <1>9, <3>1
  <2> QED
    BY <1>7, <2>1, <2>2, <2>3 DEF Stack
<1>12. AllTargets(t) = AllTargets(s) /\ Awaited(t) = Awaited(s)
  <2>1. ASSUME NEW z
        PROVE  z \in AllTargets(t) <=> z \in AllTargets(s)
    <3>1. z \in AllTargets(t) <=> \E k \in DOMAIN s : z \in Targets(t[k])
      BY <1>6 DEF AllTargets
    <3>2. z \in AllTargets(s) <=> \E k \in DOMAIN s : z \in Targets(s[k])
      BY DEF AllTargets
    <3> QED
      BY <1>9, <3>1, <3>2
  <2>2. ASSUME NEW z
        PROVE  z \in Awaited(t) <=> z \in Awaited(s)
    <3>1. z \in Awaited(t) <=> \E k \in DOMAIN s : t[k].step = "VarDecl" /\ z = t[k].arg[1]
      BY <1>6 DEF Awaited
    <3>2. z \in Awaited(s) <=> \E k \in DOMAIN s : s[k].step = "VarDecl" /\ z = s[k].arg[1]
      BY DEF Awaited
    <3> QED
      BY <1>8, <3>1, <3>2
  <2> QED
    BY <2>1, <2>2
<1>13. ASSUME NEW c, Conditions(s, c)
       PROVE  Conditions(t, c)
  <2> SUFFICES ASSUME NEW k \in DOMAIN t, t[k].step = "Loop"
               PROVE  c = t[k].arg[1] /\ \A j \in 1..(k - 1) : t[j].step \in ExprStep
    BY DEF Conditions
  <2>1. c = s[k].arg[1] /\ \A j \in 1..(k - 1) : s[j].step \in ExprStep
    BY <1>6, <1>8, <1>13 DEF Conditions
  <2>2. \A j \in 1..(k - 1) : j \in DOMAIN s
    BY <1>1, <1>6
  <2> QED
    BY <1>6, <1>8, <2>1, <2>2
<1>14. \A n : Nesting(s, n) => Nesting(t, n)
  BY <1>6, <1>8, <1>9, ZenonT(60) DEF Nesting
<1> QED
  BY <1>3, <1>6, <1>7, <1>11, <1>12, <1>13, <1>14

\* What waits for whom.
LEMMA CallersAre ==
  ASSUME NEW f
  PROVE  /\ f \in {"Expr", "Deliver"} => Callers(f) = ExprStep \cup StmtStep
         /\ f \in {"Element", "Pair"} => Callers(f) = {"Element", "Pair", "Deliver"}
         /\ f \in StmtStep \cup {"InBlock", "LeaveBlock", "Switch", "ExitLoop"} => Callers(f) = EitherWay
         /\ f = "Frees" => Callers(f) = {"Frees", "Leave"} \cup EitherWay
         /\ f = "Leave" => Callers(f) = EitherWay \cup DeclStep
         /\ f \in {"JumpOn", "Arm"} => Callers(f) = Switching
         /\ f = "Param" => Callers(f) = {"Param", "Stmt"}
         /\ f = "EndFunc" \/ f \in DeclStep => Callers(f) = DeclStep
  BY DEF Callers, StmtStep, DeclStep

\* An expression hands its register to the call that waits for it.
Yielded(s, r) == [Tail(s) EXCEPT ![1].got = Append(@, r)]

Returns(s, t, regs, blks, c, n) ==
  /\ Stack(t, regs, blks) /\ t # <<>> /\ t[1].step \in ExprStep \cup StmtStep
  /\ AllTargets(t) = AllTargets(s) /\ Awaited(s) \subseteq Awaited(t)
  /\ Conditions(t, c) /\ Nesting(t, n)

LEMMA StackYields ==
  ASSUME NEW s, NEW regs, NEW blks, NEW regs2, NEW blks2, Stack(s, regs, blks), s # <<>>,
         s[1].step \in {"Expr", "Deliver"}, regs \subseteq regs2, blks \subseteq blks2, NEW r \in regs2,
         NEW c, Conditions(s, c), NEW n, Nesting(s, n),
         NEW t, t = Yielded(s, r)
  PROVE  Returns(s, t, regs2, blks2, c, n)
<1> DEFINE u == <<>> \o Tail(s)
<1>1. s \in Seq(Range(s)) /\ DOMAIN s = 1..Len(s) /\ Len(s) \in Nat /\ 1 \in DOMAIN s
  BY DEF Stack
<1>2. u = Tail(s) /\ Len(u) = Len(s) - 1
  BY <1>1
<1>3. Targets(s[1]) = {} /\ ~IsLoop(s[1]) /\ s[1].step # "VarDecl" /\ s[1].step \in ExprStep
      /\ s[1].step \notin DeclStep \cup Outermost
  BY DEF Targets, Switching, IsLoop, ExprStep, DeclStep, Outermost
<1>4. Stack(u, regs2, blks2)
  <2>1. Replaces(<<>>, s[1], regs2, blks2, {})
    BY None DEF Replaces
  <2>2. {} \cap blks = {}
    OBVIOUS
  <2> QED
    BY <2>1, <2>2, StackGoesOn, Zenon
<1>5. AllTargets(u) = AllTargets(s)
  <2>1. AllTargets(<<>>) = {}
    BY None DEF AllTargets
  <2>2. \A k \in DOMAIN s : 1 < k => Targets(s[1]) \cap Targets(s[k]) = {}
    BY <1>3
  <2>3. AllTargets(u) = (AllTargets(s) \ Targets(s[1])) \cup AllTargets(<<>>)
    BY <1>1, <2>2, None, TargetsAfter, Zenon
  <2> QED
    BY <1>3, <2>1, <2>3
<1>6. Awaited(s) \subseteq Awaited(u)
  BY <1>1, <1>3, None, AwaitedAfter
<1>7. Conditions(u, c)
  BY <1>1, None, ConditionsGoOn
<1>8. Nesting(u, n)
  BY <1>1, <1>3, None, NestingGoesOn
<1>9. Len(s) >= 2 /\ s[2].step \in ExprStep \cup StmtStep
  <2>1. IF 1 = Len(s) THEN s[1].step \in Outermost ELSE s[1 + 1].step \in Callers(s[1].step)
    BY <1>1 DEF Stack
  <2>2. Callers(s[1].step) = ExprStep \cup StmtStep
    BY CallersAre
  <2>3. Len(s) # 1
    <3>1. s[1].step \notin Outermost
      BY <1>3
    <3> QED
      BY <2>1, <3>1
  <2>4. s[1 + 1].step \in ExprStep \cup StmtStep
    BY <2>1, <2>2, <2>3
  <2>5. s[2].step \in ExprStep \cup StmtStep
    BY <2>4
  <2> QED
    BY <1>1, <2>3, <2>5
<1>10. u # <<>> /\ u[1] = s[2]
  <2> DEFINE w == Tail(s)
  <2>1. w \in Seq(Range(s)) /\ Len(w) = Len(s) - 1 /\ \A k \in 1..Len(w) : w[k] = s[k + 1]
    BY <1>1, HeadTailProperties
  <2> HIDE DEF w
  <2>2. 1 \in 1..Len(w)
    BY <1>1, <1>9, <2>1
  <2>3. w[1] = s[1 + 1]
    BY <2>1, <2>2
  <2>4. w # <<>> /\ w[1] = s[2]
    BY <1>1, <1>9, <2>1, <2>3
  <2> QED
    BY <1>2, <2>4 DEF w
<1>11. u[1].step \notin DeclStep
  BY <1>9, <1>10 DEF ExprStep, StmtStep, DeclStep
<1>12. t = [u EXCEPT ![1].got = Append(@, r)]
  BY <1>2 DEF Yielded
<1> HIDE DEF u
<1>13. /\ Stack(t, regs2, blks2) /\ t # <<>> /\ t[1].step = u[1].step
       /\ AllTargets(t) = AllTargets(u) /\ Awaited(t) = Awaited(u)
       /\ \A d : Conditions(u, d) => Conditions(t, d)
       /\ \A m : Nesting(u, m) => Nesting(t, m)
  BY <1>4, <1>10, <1>11, <1>12, GotMore, Zenon
<1> QED
  BY <1>5, <1>6, <1>7, <1>8, <1>9, <1>10, <1>13 DEF Returns

-----------------------------------------------------------------------------
(***************************************************************************)
(* The tables.                                                             *)
(***************************************************************************)
\* What an action does to the tables: fresh registers and more blocks for the
\* last function, and the instructions is for its block c.
Place(ir, c)   == LastFunc(ir).first + c + 1

Extended(block, size, is) ==
  [begin |-> IF block.begin = Unset /\ is # <<>> THEN size ELSE block.begin, count |-> block.count + Len(is)]

Latest(ir, c) == CurrentOf(ir, c) # EmptyBlock => EndOf(CurrentOf(ir, c)) = Len(ir.insts)

\* Tables that can grow: what is emitted next follows what the current block holds.
Growing(ir, c) ==
  /\ Spans(ir) /\ Straight(ir)
  /\ ir.funcs # <<>> /\ c \in BlocksOf(LastFunc(ir)) /\ Latest(ir, c)

Grown(ir, ir2, c, fresh, more, is) ==
  /\ fresh \in Nat /\ more \in Nat /\ is \in Seq(Range(is))
  /\ ir2.insts = ir.insts \o is
  /\ ir2.blocks = [ir.blocks EXCEPT ![Place(ir, c)] = Extended(@, Len(ir.insts), is)]
                    \o [k \in 1..more |-> EmptyBlock]
  /\ ir2.funcs = [ir.funcs EXCEPT ![Len(ir.funcs)] =
                    [LastFunc(ir) EXCEPT !.next_vreg = LastFunc(ir).next_vreg + fresh,
                                         !.count = LastFunc(ir).count + more]]

LEMMA Fields ==
  /\ \A g \in FuncRecord : g.first \in Nat /\ g.count \in Nat /\ g.next_vreg \in Nat /\ g.arity \in Nat
  /\ \A g \in BlockRecord : g.begin \in Nat \cup {Unset} /\ g.count \in Nat
  /\ EmptyBlock \in BlockRecord /\ EmptyBlock.begin = Unset /\ EmptyBlock.count = 0 /\ Unset \notin Nat
BY DEF FuncRecord, BlockRecord, EmptyBlock, Unset

\* The blocks of a function are among those of the module, and no other's.
LEMMA Layout ==
  ASSUME NEW ir, Spans(ir), ir.funcs # <<>>
  PROVE  /\ Len(ir.funcs) \in DOMAIN ir.funcs /\ LastFunc(ir) \in FuncRecord /\ LastFunc(ir).count > 0
         /\ Len(ir.blocks) \in Nat /\ DOMAIN ir.blocks = 1..Len(ir.blocks)
         /\ LastFunc(ir).first + LastFunc(ir).count = Len(ir.blocks)
         /\ \A n \in BlocksOf(LastFunc(ir)) :
              /\ n \in Nat /\ LastFunc(ir).first + (n + 1) \in DOMAIN ir.blocks
              /\ LastFunc(ir).first + (n + 1) > LastFunc(ir).first
         /\ \A f \in DOMAIN ir.funcs : f < Len(ir.funcs) => \A n \in 1..ir.funcs[f].count :
              /\ ir.funcs[f].first + n \in DOMAIN ir.blocks
              /\ ir.funcs[f].first + n =< LastFunc(ir).first
<1> DEFINE last == LastFunc(ir)
<1>1. /\ ir.funcs \in Seq(FuncRecord) /\ ir.blocks \in Seq(BlockRecord)
  BY DEF Spans
<1>2. Len(ir.funcs) \in DOMAIN ir.funcs /\ DOMAIN ir.funcs = 1..Len(ir.funcs) /\ Len(ir.funcs) \in Nat
  BY <1>1
<1>3. last \in FuncRecord
  BY <1>1, <1>2 DEF LastFunc
<1>4. Len(ir.blocks) \in Nat /\ DOMAIN ir.blocks = 1..Len(ir.blocks)
  BY <1>1
<1>5. last.first + last.count = Len(ir.blocks) /\ last.count > 0
  BY <1>2 DEF Spans, LastFunc
<1>6. last.first \in Nat /\ last.count \in Nat
  BY <1>3, Fields
<1>7. ASSUME NEW f \in DOMAIN ir.funcs, f < Len(ir.funcs), NEW n \in 1..ir.funcs[f].count
      PROVE  ir.funcs[f].first + n \in DOMAIN ir.blocks /\ ir.funcs[f].first + n =< last.first
  <2>1. ir.funcs[f].first + ir.funcs[f].count =< last.first
    BY <1>7 DEF Spans
  <2>2. ir.funcs[f].first \in Nat /\ ir.funcs[f].count \in Nat
    BY <1>1, Fields
  <2> HIDE DEF last
  <2> QED
    BY <1>4, <1>5, <1>6, <2>1, <2>2, SMTT(30)
<1> HIDE DEF last
<1>8. \A n \in BlocksOf(last) :
        n \in Nat /\ last.first + (n + 1) \in DOMAIN ir.blocks /\ last.first + (n + 1) > last.first
  BY <1>4, <1>5, <1>6 DEF BlocksOf
<1> QED
  BY <1>2, <1>3, <1>4, <1>5, <1>7, <1>8 DEF last
\* The same, element by element.
InstsGrow(ir, ir2, is) ==
  /\ ir2.insts \in Seq(Range(ir2.insts)) /\ Len(is) \in Nat /\ Len(ir.insts) \in Nat
  /\ Len(ir2.insts) = Len(ir.insts) + Len(is)
  /\ \A k \in 1..Len(ir.insts) : ir2.insts[k] = ir.insts[k]
  /\ \A k \in 1..Len(is) : ir2.insts[Len(ir.insts) + k] = is[k]
  /\ DOMAIN ir.insts = 1..Len(ir.insts) /\ DOMAIN is = 1..Len(is) /\ DOMAIN ir2.insts = 1..Len(ir2.insts)

LEMMA GrownTables ==
  ASSUME NEW ir, NEW ir2, NEW c, NEW fresh, NEW more, NEW is, Growing(ir, c), Grown(ir, ir2, c, fresh, more, is)
  PROVE  InstsGrow(ir, ir2, is)
<1>a. Spans(ir) /\ Straight(ir) /\ ir.funcs # <<>> /\ c \in BlocksOf(LastFunc(ir)) /\ Latest(ir, c)
  BY DEF Growing
<1>b. fresh \in Nat /\ more \in Nat /\ is \in Seq(Range(is))
  BY DEF Grown
<1>1. ir.insts \in Seq(Range(ir.insts) \cup Range(is)) /\ is \in Seq(Range(ir.insts) \cup Range(is))
  BY <1>a, <1>b, RangeIs DEF Spans
<1> DEFINE S == Range(ir.insts) \cup Range(is)
           j == ir.insts
<1>2. j \in Seq(S) /\ is \in Seq(S) /\ ir2.insts = j \o is
  BY <1>1 DEF Grown
<1> HIDE DEF S
<1>3. ir2.insts \in Seq(S)
  BY <1>2
<1>4. ir2.insts \in Seq(Range(ir2.insts)) /\ DOMAIN ir2.insts = 1..Len(ir2.insts)
  BY <1>3, RangeIs
<1>5. Len(is) \in Nat /\ Len(j) \in Nat /\ DOMAIN j = 1..Len(j) /\ DOMAIN is = 1..Len(is)
  BY <1>2
<1>6. Len(ir2.insts) = Len(j) + Len(is) /\ \A k \in 1..Len(ir2.insts) : ir2.insts[k] = IF k =< Len(j) THEN j[k] ELSE is[k - Len(j)]
  BY <1>2, ConcatProperties
<1> HIDE DEF j
<1>7. \A k \in 1..Len(j) : ir2.insts[k] = j[k]
  BY <1>5, <1>6
<1>8. ASSUME NEW k \in 1..Len(is)
      PROVE  ir2.insts[Len(j) + k] = is[k]
  <2> DEFINE z == Len(j) + k
  <2>1. z \in 1..Len(ir2.insts) /\ ~(z =< Len(j)) /\ z - Len(j) = k
    BY <1>5, <1>6
  <2> HIDE DEF z
  <2> QED
    BY <1>6, <2>1 DEF z
<1> QED
  BY <1>4, <1>5, <1>6, <1>7, <1>8 DEF j, InstsGrow

FuncsGrow(ir, ir2, fresh, more) ==
  /\ ir2.funcs \in Seq(FuncRecord) /\ Len(ir2.funcs) = Len(ir.funcs) /\ DOMAIN ir2.funcs = DOMAIN ir.funcs
  /\ ir2.funcs # <<>>
  /\ \A f \in DOMAIN ir.funcs : f # Len(ir.funcs) => ir2.funcs[f] = ir.funcs[f]
  /\ LastFunc(ir2) \in FuncRecord
  /\ LastFunc(ir2).name = LastFunc(ir).name /\ LastFunc(ir2).first = LastFunc(ir).first
  /\ LastFunc(ir2).arity = LastFunc(ir).arity
  /\ LastFunc(ir2).count = LastFunc(ir).count + more
  /\ LastFunc(ir2).next_vreg = LastFunc(ir).next_vreg + fresh

LEMMA GrownFuncs ==
  ASSUME NEW ir, NEW ir2, NEW c, NEW fresh, NEW more, NEW is, Growing(ir, c), Grown(ir, ir2, c, fresh, more, is)
  PROVE  FuncsGrow(ir, ir2, fresh, more)
<1>a. Spans(ir) /\ Straight(ir) /\ ir.funcs # <<>> /\ c \in BlocksOf(LastFunc(ir)) /\ Latest(ir, c)
  BY DEF Growing
<1>b. fresh \in Nat /\ more \in Nat /\ is \in Seq(Range(is))
  BY DEF Grown
<1> DEFINE s == ir.funcs
           v == LastFunc(ir).next_vreg + fresh
           k == LastFunc(ir).count + more
           g == [LastFunc(ir) EXCEPT !.next_vreg = v, !.count = k]
<1>1. s \in Seq(FuncRecord) /\ Len(s) \in DOMAIN s /\ LastFunc(ir) \in FuncRecord /\ s # <<>>
  BY <1>a, <1>b, Layout DEF Spans
<1>2. v \in Nat /\ k \in Nat
  BY <1>a, <1>b, <1>1, Fields
<1>3. ir2.funcs = [s EXCEPT ![Len(s)] = g]
  BY DEF Grown
<1> HIDE DEF s, v, k
<1>4. g \in FuncRecord /\ g.name = LastFunc(ir).name /\ g.first = LastFunc(ir).first /\ g.arity = LastFunc(ir).arity
      /\ g.count = k /\ g.next_vreg = v
  <2> DEFINE h == LastFunc(ir)
  <2>1. g = [h EXCEPT !.next_vreg = v, !.count = k] /\ h \in FuncRecord
    BY <1>1
  <2> HIDE DEF g, h
  <2>2. /\ g \in FuncRecord /\ g.name = h.name /\ g.first = h.first /\ g.arity = h.arity
        /\ g.count = k /\ g.next_vreg = v
    BY <1>2, <2>1 DEF FuncRecord
  <2> QED
    BY <2>2 DEF h
<1> HIDE DEF g
<1>5. ir2.funcs \in Seq(FuncRecord) /\ Len(ir2.funcs) = Len(s) /\ DOMAIN ir2.funcs = DOMAIN s
      /\ ir2.funcs[Len(s)] = g /\ \A f \in DOMAIN s : f # Len(s) => ir2.funcs[f] = s[f]
  BY <1>1, <1>3, <1>4
<1>6. ir2.funcs # <<>>
  BY <1>1, <1>5
<1>7. LastFunc(ir2) = g
  BY <1>5 DEF LastFunc
<1> QED
  BY <1>4, <1>5, <1>6, <1>7 DEF s, v, k, FuncsGrow

\* The current block after new instructions.
LEMMA ExtendedIs ==
  ASSUME NEW block \in BlockRecord, NEW size \in Nat, NEW is, is \in Seq(Range(is)),
         block # EmptyBlock => block.begin \in Nat /\ block.count > 0 /\ EndOf(block) = size,
         NEW new, new = Extended(block, size, is)
  PROVE  /\ new \in BlockRecord
         /\ is = <<>> => new = block
         /\ is # <<>> => /\ new # EmptyBlock /\ new.begin \in Nat /\ new.count > 0
                         /\ EndOf(new) = size + Len(is) /\ EndOf(new) \in InstsOf(new)
                         /\ InstsOf(new) = InstsOf(block) \cup (size + 1)..(size + Len(is))
<1>1. /\ block = [begin |-> block.begin, count |-> block.count]
      /\ block.begin \in Nat \cup {Unset} /\ block.count \in Nat
  BY DEF BlockRecord
<1>2. Len(is) \in Nat /\ (is = <<>> <=> Len(is) = 0)
  OBVIOUS
<1>3. Unset = -1 /\ EmptyBlock.begin = Unset /\ EmptyBlock.count = 0
  BY DEF Unset, EmptyBlock
<1>4. /\ new.begin = (IF block.begin = Unset /\ is # <<>> THEN size ELSE block.begin)
      /\ new.count = block.count + Len(is)
      /\ new = [begin |-> new.begin, count |-> new.count]
  BY DEF Extended
<1>5. new.begin \in Nat \cup {Unset} /\ new.count \in Nat
  BY <1>1, <1>2, <1>4
<1>6. new \in BlockRecord
  BY <1>4, <1>5 DEF BlockRecord
<1>7. ASSUME is = <<>>
      PROVE  new = block
  <2>1. new.begin = block.begin /\ new.count = block.count
    BY <1>1, <1>2, <1>4, <1>7
  <2> QED
    BY <1>1, <1>4, <2>1
<1>8. ASSUME is # <<>>
      PROVE  /\ new # EmptyBlock /\ new.begin \in Nat /\ new.count > 0
             /\ EndOf(new) = size + Len(is) /\ EndOf(new) \in InstsOf(new)
             /\ InstsOf(new) = InstsOf(block) \cup (size + 1)..(size + Len(is))
  <2>1. CASE block = EmptyBlock
    <3>1. new.begin = size /\ new.count = Len(is) /\ Len(is) > 0
      BY <1>2, <1>3, <1>4, <1>8, <2>1
    <3>2. InstsOf(block) = {}
      BY <1>3, <2>1 DEF InstsOf
    <3>3. new # EmptyBlock
      BY <1>2, <1>3, <3>1
    <3> QED
      BY <1>2, <3>1, <3>2, <3>3 DEF InstsOf, EndOf
  <2>2. CASE block # EmptyBlock
    <3>1. block.begin \in Nat /\ block.count > 0 /\ block.begin + block.count = size
      BY <2>2 DEF EndOf
    <3>2. new.begin = block.begin /\ new.count = block.count + Len(is) /\ Len(is) > 0
      BY <1>2, <1>3, <1>4, <1>8, <3>1
    <3>3. new # EmptyBlock
      BY <1>1, <1>2, <1>3, <3>1, <3>2
    <3> QED
      BY <1>1, <1>2, <3>1, <3>2, <3>3 DEF InstsOf, EndOf
  <2> QED
    BY <2>1, <2>2
<1> QED
  BY <1>6, <1>7, <1>8
BlocksGrow(ir, ir2, c, more, is) ==
  /\ ir2.blocks \in Seq(BlockRecord) /\ Len(ir2.blocks) = Len(ir.blocks) + more
  /\ DOMAIN ir2.blocks = 1..Len(ir2.blocks)
  /\ ir2.blocks[Place(ir, c)] = Extended(CurrentOf(ir, c), Len(ir.insts), is)
  /\ \A k \in DOMAIN ir.blocks : k # Place(ir, c) => ir2.blocks[k] = ir.blocks[k]
  /\ \A k \in (Len(ir.blocks) + 1)..(Len(ir.blocks) + more) : ir2.blocks[k] = EmptyBlock

LEMMA GrownBlocks ==
  ASSUME NEW ir, NEW ir2, NEW c, NEW fresh, NEW more, NEW is, Growing(ir, c), Grown(ir, ir2, c, fresh, more, is)
  PROVE  BlocksGrow(ir, ir2, c, more, is)
<1>a. Spans(ir) /\ Straight(ir) /\ ir.funcs # <<>> /\ c \in BlocksOf(LastFunc(ir)) /\ Latest(ir, c)
  BY DEF Growing
<1>b. fresh \in Nat /\ more \in Nat /\ is \in Seq(Range(is))
  BY DEF Grown
<1> DEFINE s   == ir.blocks
           at  == Place(ir, c)
           new == Extended(CurrentOf(ir, c), Len(ir.insts), is)
           t   == [k \in 1..more |-> EmptyBlock]
           u   == [s EXCEPT ![at] = new]
<1>1. s \in Seq(BlockRecord) /\ at \in DOMAIN s /\ s[at] = CurrentOf(ir, c) /\ Len(s) \in Nat /\ DOMAIN s = 1..Len(s)
  <2>1. s \in Seq(BlockRecord)
    BY <1>a, <1>b DEF Spans
  <2>2. LastFunc(ir).first \in Nat /\ c \in Nat /\ LastFunc(ir).first + (c + 1) \in DOMAIN s
    BY <1>a, <1>b, Layout, Fields
  <2> QED
    BY <2>1, <2>2 DEF CurrentOf, BlockOf, Place
<1>2. new \in BlockRecord
  <2>1. s[at] \in BlockRecord /\ Len(ir.insts) \in Nat
    BY <1>1 DEF Spans
  <2>2. CurrentOf(ir, c) # EmptyBlock => /\ CurrentOf(ir, c).begin \in Nat /\ CurrentOf(ir, c).count > 0
                                         /\ EndOf(CurrentOf(ir, c)) = Len(ir.insts)
    BY <1>a, <1>b, <1>1 DEF Straight, Latest
  <2> QED
    BY <1>a, <1>b, <1>1, <2>1, <2>2, ExtendedIs
<1>3. ir2.blocks = u \o t
  BY <1>1 DEF Grown
<1> HIDE DEF s, new, at
<1>4. u \in Seq(BlockRecord) /\ Len(u) = Len(s) /\ u[at] = new /\ \A k \in DOMAIN s : k # at => u[k] = s[k]
  BY <1>1, <1>2
<1>5. t \in Seq(BlockRecord) /\ Len(t) = more /\ \A k \in 1..more : t[k] = EmptyBlock
  BY <1>a, <1>b, Fields
<1> HIDE DEF u, t
<1>6. ir2.blocks \in Seq(BlockRecord) /\ Len(ir2.blocks) = Len(s) + more /\ DOMAIN ir2.blocks = 1..Len(ir2.blocks)
      /\ \A k \in 1..Len(ir2.blocks) : ir2.blocks[k] = IF k =< Len(s) THEN u[k] ELSE t[k - Len(s)]
  <2>1. Len(u) + Len(t) = Len(s) + more
    BY <1>4, <1>5
  <2>2. ir2.blocks \in Seq(BlockRecord)
    BY <1>3, <1>4, <1>5
  <2>3. Len(u \o t) = Len(u) + Len(t) /\ \A k \in 1..(Len(u) + Len(t)) : (u \o t)[k] = IF k =< Len(u) THEN u[k] ELSE t[k - Len(u)]
    <3>1. u \in Seq(BlockRecord) /\ t \in Seq(BlockRecord)
      BY <1>4, <1>5
    <3> QED
      BY <3>1, ConcatProperties
  <2> QED
    BY <1>3, <1>4, <1>5, <2>1, <2>2, <2>3
<1>7. \A k \in 1..Len(s) : ir2.blocks[k] = u[k]
  BY <1>a, <1>b, <1>1, <1>6, SMTT(30)
<1>8. ASSUME NEW k \in (Len(s) + 1)..(Len(s) + more)
      PROVE  ir2.blocks[k] = EmptyBlock
  <2>1. k \in 1..Len(ir2.blocks) /\ ~(k =< Len(s)) /\ k - Len(s) \in 1..more
    BY <1>a, <1>b, <1>1, <1>6
  <2> QED
    BY <1>5, <1>6, <2>1
<1> QED
  BY <1>1, <1>4, <1>6, <1>7, <1>8 DEF s, new, at, BlocksGrow
\* Function by function: only the current block is another, and what is new is
\* empty.
ViewsGrow(ir, ir2, c, is) ==
  /\ \A f \in DOMAIN ir.funcs : f < Len(ir.funcs) => \A n \in 1..ir.funcs[f].count :
       BlockOf(ir2, ir2.funcs[f], n) = BlockOf(ir, ir.funcs[f], n)
  /\ \A n \in BlocksOf(LastFunc(ir)) \ {c} :
       BlockOf(ir2, LastFunc(ir2), n + 1) = BlockOf(ir, LastFunc(ir), n + 1)
  /\ CurrentOf(ir2, c) = Extended(CurrentOf(ir, c), Len(ir.insts), is)
  /\ \A n \in BlocksOf(LastFunc(ir2)) \ BlocksOf(LastFunc(ir)) : BlockOf(ir2, LastFunc(ir2), n + 1) = EmptyBlock
  /\ BlocksOf(LastFunc(ir)) \subseteq BlocksOf(LastFunc(ir2))
  /\ RegsOf(LastFunc(ir)) \subseteq RegsOf(LastFunc(ir2))

LEMMA GrownViews ==
  ASSUME NEW ir, NEW ir2, NEW c, NEW fresh, NEW more, NEW is, Growing(ir, c), Grown(ir, ir2, c, fresh, more, is)
  PROVE  ViewsGrow(ir, ir2, c, is)
<1>a. Spans(ir) /\ Straight(ir) /\ ir.funcs # <<>> /\ c \in BlocksOf(LastFunc(ir)) /\ Latest(ir, c)
  BY DEF Growing
<1>b. fresh \in Nat /\ more \in Nat /\ is \in Seq(Range(is))
  BY DEF Grown
<1>0. /\ ir2.blocks \in Seq(BlockRecord) /\ Len(ir2.blocks) = Len(ir.blocks) + more
      /\ DOMAIN ir2.blocks = 1..Len(ir2.blocks)
      /\ ir2.blocks[Place(ir, c)] = Extended(CurrentOf(ir, c), Len(ir.insts), is)
      /\ \A k \in DOMAIN ir.blocks : k # Place(ir, c) => ir2.blocks[k] = ir.blocks[k]
      /\ \A k \in (Len(ir.blocks) + 1)..(Len(ir.blocks) + more) : ir2.blocks[k] = EmptyBlock
  BY GrownBlocks DEF BlocksGrow
<1> DEFINE l  == LastFunc(ir)
           l2 == LastFunc(ir2)
<1>1. /\ l.first \in Nat /\ l.count \in Nat /\ l.count > 0 /\ l.next_vreg \in Nat /\ c \in Nat
      /\ l.first + l.count = Len(ir.blocks)
  <2>1. l \in FuncRecord
    BY <1>a, <1>b, Layout
  <2> QED
    BY <1>a, <1>b, <2>1, Layout, Fields
<1>10. /\ \A n \in BlocksOf(l) : n \in Nat /\ l.first + (n + 1) \in DOMAIN ir.blocks
      /\ \A f \in DOMAIN ir.funcs : f < Len(ir.funcs) => \A n \in 1..ir.funcs[f].count :
              ir.funcs[f].first + n \in DOMAIN ir.blocks /\ ir.funcs[f].first + n =< l.first
  BY <1>a, <1>b, Layout
<1>2. l2.first = l.first /\ l2.count = l.count + more /\ l2.next_vreg = l.next_vreg + fresh
  BY GrownFuncs DEF FuncsGrow
<1>3. ASSUME NEW f \in DOMAIN ir.funcs, f < Len(ir.funcs)
      PROVE  ir2.funcs[f] = ir.funcs[f]
  <2>1. f # Len(ir.funcs)
    <3>1. Len(ir.funcs) \in Nat
      BY DEF Spans
    <3> QED
      BY <1>3, <3>1
  <2> QED
    BY <2>1, GrownFuncs DEF FuncsGrow
<1>4. Place(ir, c) = l.first + c + 1
  BY DEF Place
<1>11. CurrentOf(ir2, c) = ir2.blocks[l2.first + (c + 1)]
  BY DEF CurrentOf, BlockOf
<1> HIDE DEF l, l2
<1>5. ASSUME NEW f \in DOMAIN ir.funcs, f < Len(ir.funcs), NEW n \in 1..ir.funcs[f].count
      PROVE  BlockOf(ir2, ir2.funcs[f], n) = BlockOf(ir, ir.funcs[f], n)
  <2> DEFINE z == ir.funcs[f].first + n
  <2>1. z \in DOMAIN ir.blocks /\ z =< l.first
    BY <1>10, <1>5
  <2>2. z # Place(ir, c)
    <3>1. z \in Int
      BY <1>a, <1>b, <2>1, Layout, SMTT(30)
    <3> QED
      BY <1>1, <1>4, <2>1, <3>1
  <2>3. ir2.blocks[z] = ir.blocks[z]
    BY <2>1, <2>2, <1>0
  <2> QED
    BY <1>3, <1>5, <2>3 DEF BlockOf
<1>6. ASSUME NEW n \in BlocksOf(l) \ {c}
      PROVE  BlockOf(ir2, l2, n + 1) = BlockOf(ir, l, n + 1)
  <2> DEFINE z == l.first + (n + 1)
  <2>1. z \in DOMAIN ir.blocks /\ z # Place(ir, c) /\ n \in Nat
    <3>1. z \in DOMAIN ir.blocks /\ n \in Nat /\ n # c
      BY <1>10, <1>6
    <3> QED
      BY <1>1, <1>4, <3>1
  <2>2. ir2.blocks[z] = ir.blocks[z]
    BY <2>1, <1>0
  <2> QED
    BY <1>2, <2>2 DEF BlockOf
<1>7. ASSUME NEW n \in BlocksOf(l2) \ BlocksOf(l)
      PROVE  BlockOf(ir2, l2, n + 1) = EmptyBlock
  <2> DEFINE z == l.first + (n + 1)
  <2>1. n \in l.count..(l.count + more - 1)
    BY <1>a, <1>b, <1>1, <1>2, <1>7 DEF BlocksOf
  <2>2. z \in (Len(ir.blocks) + 1)..(Len(ir.blocks) + more)
    <3> DEFINE N == Len(ir.blocks)
               at == l.first
               k  == l.count
    <3>1. n \in Int /\ n >= k /\ n =< k + more - 1 /\ k \in Nat /\ at \in Nat /\ more \in Nat
          /\ at + k = N /\ z = at + (n + 1)
      BY <1>b, <1>1, <2>1
    <3> HIDE DEF N, at, k, z
    <3>2. z \in (N + 1)..(N + more)
      BY <3>1
    <3> QED
      BY <3>2 DEF N
  <2>3. ir2.blocks[z] = EmptyBlock
    BY <2>2, <1>0
  <2> QED
    BY <1>2, <2>3 DEF BlockOf
<1>8. CurrentOf(ir2, c) = Extended(CurrentOf(ir, c), Len(ir.insts), is)
  <2>1. Place(ir, c) = l2.first + (c + 1)
    <3>1. l.first \in Nat /\ c \in Nat /\ l2.first = l.first
      BY <1>1, <1>2
    <3>2. Place(ir, c) = l.first + c + 1
      BY <1>4
    <3> QED
      BY <3>1, <3>2
  <2> QED
    BY <1>0, <1>11, <2>1
<1>9. BlocksOf(l) \subseteq BlocksOf(l2) /\ RegsOf(l) \subseteq RegsOf(l2)
  <2>1. l.count =< l2.count /\ l.next_vreg =< l2.next_vreg /\ l2.count \in Nat /\ l2.next_vreg \in Nat
    <3> DEFINE k == l.count
               v == l.next_vreg
    <3>1. fresh \in Nat /\ more \in Nat
      BY <1>b
    <3>2. k \in Nat /\ v \in Nat /\ l2.count = k + more /\ l2.next_vreg = v + fresh
      BY <1>1, <1>2
    <3> HIDE DEF k, v
    <3>3. k =< k + more /\ v =< v + fresh /\ k + more \in Nat /\ v + fresh \in Nat
      BY <3>1, <3>2
    <3> QED
      BY <3>2, <3>3 DEF k, v
  <2>2. BlocksOf(l) \subseteq BlocksOf(l2)
    BY <1>1, <2>1 DEF BlocksOf
  <2>3. RegsOf(l) \subseteq RegsOf(l2)
    BY <1>1, <2>1 DEF RegsOf
  <2> QED
    BY <2>2, <2>3
<1> QED
  BY <1>5, <1>6, <1>7, <1>8, <1>9 DEF l, l2, ViewsGrow


\* What is emitted has to keep: nothing follows a terminator, and each
\* instruction is sound in the function as it is afterwards.
Fills(ir, ir2, c, is, pending) ==
  /\ is # <<>> => ~Whole(ir, CurrentOf(ir, c))
  /\ \A k \in DOMAIN is :
       /\ is[k].kind \in Terminators => k = Len(is)
       /\ InstOK(LastFunc(ir2), c + 1, is[k], Len(ir.insts) + k \in pending)

\* Every fresh register is named, or awaited.
NamesAll(ir, ir2, is, awaited, awaited2) ==
  \A r : r \in awaited \/ r \in LastFunc(ir).next_vreg..(LastFunc(ir2).next_vreg - 1) =>
    r \in awaited2 \/ \E k \in DOMAIN is : VReg(r) \in NamedBy(is[k])

\* The next block is this one, or one that waits, when this one is finished.
Moves(ir, ir2, T, c, T2, c2) ==
  LET new == BlocksOf(LastFunc(ir2)) \ BlocksOf(LastFunc(ir)) IN
  /\ T \subseteq BlocksOf(LastFunc(ir))
  /\ c2 \in {c} \cup T \cup new /\ T2 = (T \cup new) \ {c2}
  /\ c2 # c => Whole(ir2, CurrentOf(ir2, c))

LEMMA InstGrows ==
  ASSUME NEW g \in FuncRecord, NEW g2 \in FuncRecord, g.next_vreg =< g2.next_vreg, g.count =< g2.count,
         NEW n, NEW i, NEW open_ \in BOOLEAN, NEW open2 \in BOOLEAN, open_ => open2, InstOK(g, n, i, open_)
  PROVE  InstOK(g2, n, i, open2)
<1>1. g.next_vreg \in Nat /\ g2.next_vreg \in Nat /\ g.count \in Nat /\ g2.count \in Nat
  BY Fields
<1>2. RegsOf(g) \subseteq RegsOf(g2) /\ BlocksOf(g) \subseteq BlocksOf(g2)
  BY <1>1 DEF RegsOf, BlocksOf
<1>3. ASSUME i.kind = "Call"
      PROVE  IF i.b.kind = "VReg" THEN i.b.value + i.aux =< g2.next_vreg ELSE i.aux = 0
  <2>1. IF i.b.kind = "VReg" THEN i.b.value + i.aux =< g.next_vreg ELSE i.aux = 0
    BY <1>3 DEF InstOK, PromisedInst
  <2>2. CASE i.b.kind = "VReg"
    <3>1. i.b.value \in Nat /\ i.aux \in Nat
      BY <2>2 DEF InstOK, PromisedInst, SlotsOfInst
    <3> QED
      BY <1>1, <2>1, <2>2, <3>1
  <2> QED
    BY <2>1, <2>2
<1>4. PromisedInst(g2, n, i)
  BY <1>3 DEF InstOK, PromisedInst
<1> QED
  BY <1>2, <1>4 DEF InstOK

\* What a block holds lies among the instructions.
LEMMA Within ==
  ASSUME NEW ir, Spans(ir), Straight(ir), NEW k \in DOMAIN ir.blocks
  PROVE  /\ InstsOf(ir.blocks[k]) \subseteq 1..Len(ir.insts)
         /\ ir.blocks[k] # EmptyBlock => EndOf(ir.blocks[k]) \in InstsOf(ir.blocks[k])
         /\ ir.blocks[k] \in BlockRecord /\ Len(ir.insts) \in Nat
<1> DEFINE block == ir.blocks[k]
           size  == Len(ir.insts)
<1>1. block \in BlockRecord /\ size \in Nat
  BY DEF Spans
<1>2. CASE block = EmptyBlock
  <2>1. InstsOf(block) = {}
    BY <1>2, Fields DEF InstsOf, Unset
  <2> QED
    BY <1>1, <1>2, <2>1
<1>3. CASE block # EmptyBlock
  <2>1. block.begin \in Nat /\ block.count > 0 /\ EndOf(block) =< size
    BY <1>3 DEF Straight
  <2>2. block.count \in Nat
    BY <1>1, Fields
  <2> HIDE DEF block, size
  <2>3. InstsOf(block) \subseteq 1..size /\ EndOf(block) \in InstsOf(block)
    BY <1>1, <2>1, <2>2 DEF InstsOf, EndOf
  <2> QED
    BY <1>1, <2>3 DEF block, size
<1> QED
  BY <1>2, <1>3

LEMMA WholeStays ==
  ASSUME NEW ir, NEW ir2, NEW is, Spans(ir), Straight(ir), InstsGrow(ir, ir2, is), NEW k \in DOMAIN ir.blocks
  PROVE  Whole(ir2, ir.blocks[k]) <=> Whole(ir, ir.blocks[k])
<1>1. CASE ir.blocks[k] = EmptyBlock
  BY <1>1 DEF Whole
<1>2. CASE ir.blocks[k] # EmptyBlock
  <2>1. EndOf(ir.blocks[k]) \in 1..Len(ir.insts)
    BY <1>2, Within
  <2>2. ir2.insts[EndOf(ir.blocks[k])] = ir.insts[EndOf(ir.blocks[k])]
    BY <2>1 DEF InstsGrow
  <2> QED
    BY <2>2 DEF Whole
<1> QED
  BY <1>1, <1>2

LEMMA SpansGrow ==
  ASSUME NEW ir, NEW ir2, NEW c, NEW fresh, NEW more, NEW is, Growing(ir, c), Grown(ir, ir2, c, fresh, more, is)
  PROVE  Spans(ir2)
<1>1. Spans(ir) /\ ir.funcs # <<>> /\ fresh \in Nat /\ more \in Nat
  BY DEF Growing, Grown
<1>2. /\ InstsGrow(ir, ir2, is) /\ FuncsGrow(ir, ir2, fresh, more) /\ BlocksGrow(ir, ir2, c, more, is)
  BY GrownTables, GrownFuncs, GrownBlocks
<1> DEFINE l  == LastFunc(ir)
           l2 == LastFunc(ir2)
<1>3. /\ l \in FuncRecord /\ l.count > 0 /\ l.first + l.count = Len(ir.blocks) /\ Len(ir.funcs) \in DOMAIN ir.funcs
  BY <1>1, Layout
<1>4. l.first \in Nat /\ l.count \in Nat /\ l.next_vreg \in Nat /\ l.arity \in Nat
  BY <1>3, Fields
<1>5. l2.first = l.first /\ l2.count = l.count + more /\ l2.next_vreg = l.next_vreg + fresh /\ l2.arity = l.arity
  BY <1>2 DEF FuncsGrow
<1>6. /\ Len(ir2.funcs) = Len(ir.funcs) /\ DOMAIN ir2.funcs = DOMAIN ir.funcs
      /\ \A f \in DOMAIN ir.funcs : f # Len(ir.funcs) => ir2.funcs[f] = ir.funcs[f]
  BY <1>2 DEF FuncsGrow
<1>7. l.arity =< l.next_vreg
  BY <1>1, <1>3 DEF Spans, LastFunc
<1>8. ASSUME NEW f \in DOMAIN ir2.funcs
      PROVE  /\ ir2.funcs[f].arity =< ir2.funcs[f].next_vreg
             /\ f < Len(ir2.funcs) => ir2.funcs[f].first + ir2.funcs[f].count =< l2.first
             /\ ir2.funcs[f].count > 0
  <2>1. CASE f = Len(ir.funcs)
    <3>1. ir2.funcs[f] = l2 /\ ~(f < Len(ir2.funcs))
      BY <1>1, <1>6, <2>1 DEF LastFunc, Spans
    <3> HIDE DEF l, l2
    <3>2. l2.arity =< l2.next_vreg /\ l2.count > 0
      BY <1>1, <1>3, <1>4, <1>5, <1>7
    <3> QED
      BY <3>1, <3>2
  <2>2. CASE f # Len(ir.funcs)
    <3>1. ir2.funcs[f] = ir.funcs[f] /\ f \in DOMAIN ir.funcs
      BY <1>6, <2>2
    <3> QED
      BY <1>1, <1>5, <1>6, <3>1 DEF Spans
  <2> QED
    BY <2>1, <2>2
<1>9. l2.first + l2.count = Len(ir2.blocks)
  <2>1. Len(ir2.blocks) = Len(ir.blocks) + more
    BY <1>2 DEF BlocksGrow
  <2> DEFINE N == Len(ir.blocks)
  <2> HIDE DEF l, l2, N
  <2>2. l.first + l.count = N /\ Len(ir2.blocks) = N + more
    BY <1>3, <2>1 DEF N
  <2> QED
    BY <1>1, <1>4, <1>5, <2>2
<1> QED
  BY <1>2, <1>8, <1>9 DEF Spans, InstsGrow, FuncsGrow, BlocksGrow


\* The current block holds what it held, and what was emitted.
CurrentGrows(ir, ir2, c, is) ==
  /\ is = <<>> => CurrentOf(ir2, c) = CurrentOf(ir, c) /\ Len(ir2.insts) = Len(ir.insts)
  /\ is # <<>> => /\ CurrentOf(ir2, c) # EmptyBlock /\ CurrentOf(ir2, c).begin \in Nat /\ CurrentOf(ir2, c).count > 0
                  /\ EndOf(CurrentOf(ir2, c)) = Len(ir2.insts)
                  /\ InstsOf(CurrentOf(ir2, c)) =
                       InstsOf(CurrentOf(ir, c)) \cup (Len(ir.insts) + 1)..Len(ir2.insts)

LEMMA GrownCurrent ==
  ASSUME NEW ir, NEW ir2, NEW c, NEW fresh, NEW more, NEW is, Growing(ir, c), Grown(ir, ir2, c, fresh, more, is)
  PROVE  CurrentGrows(ir, ir2, c, is)
<1> DEFINE block == CurrentOf(ir, c)
           new   == CurrentOf(ir2, c)
           size  == Len(ir.insts)
<1>1. InstsGrow(ir, ir2, is) /\ ViewsGrow(ir, ir2, c, is)
  BY GrownTables, GrownViews
<1>2. new = Extended(block, size, is)
  BY <1>1 DEF ViewsGrow
<1>3. /\ Spans(ir) /\ Straight(ir) /\ ir.funcs # <<>> /\ c \in BlocksOf(LastFunc(ir)) /\ Latest(ir, c)
      /\ is \in Seq(Range(is))
  BY DEF Growing, Grown
<1>4. size \in Nat /\ Len(ir2.insts) = size + Len(is) /\ Len(is) \in Nat
  BY <1>1 DEF InstsGrow
<1>5. block \in BlockRecord /\ (block # EmptyBlock => block.begin \in Nat /\ block.count > 0 /\ EndOf(block) = size)
  <2>1. LastFunc(ir).first + (c + 1) \in DOMAIN ir.blocks
    BY <1>3, Layout
  <2>2. block = ir.blocks[LastFunc(ir).first + (c + 1)]
    BY DEF CurrentOf, BlockOf
  <2>3. block \in BlockRecord
    BY <1>3, <2>1, <2>2, Within
  <2> QED
    BY <1>3, <2>1, <2>2, <2>3 DEF Straight, Latest
<1> HIDE DEF block, new, size
<1>6. /\ is = <<>> => new = block
      /\ is # <<>> => /\ new # EmptyBlock /\ new.begin \in Nat /\ new.count > 0
                      /\ EndOf(new) = size + Len(is)
                      /\ InstsOf(new) = InstsOf(block) \cup (size + 1)..(size + Len(is))
  <2>1. size \in Nat /\ is \in Seq(Range(is)) /\ block \in BlockRecord
    BY <1>3, <1>4, <1>5
  <2>2. block # EmptyBlock => block.begin \in Nat /\ block.count > 0 /\ EndOf(block) = size
    BY <1>5
  <2> QED
    BY <1>2, <2>1, <2>2, ExtendedIs, SMTT(30)
<1>7. is = <<>> => Len(ir2.insts) = size
  BY <1>4
<1> QED
  BY <1>4, <1>6, <1>7 DEF CurrentGrows, block, new, size

\* Every block is an old one as it was, the current one, or new and empty.
LEMMA BlocksAre ==
  ASSUME NEW ir, NEW ir2, NEW c, NEW fresh, NEW more, NEW is, Growing(ir, c), Grown(ir, ir2, c, fresh, more, is),
         NEW k \in DOMAIN ir2.blocks
  PROVE  \/ k \in DOMAIN ir.blocks /\ ir2.blocks[k] = ir.blocks[k]
         \/ ir2.blocks[k] = CurrentOf(ir2, c)
         \/ ir2.blocks[k] = EmptyBlock
<1>1. BlocksGrow(ir, ir2, c, more, is) /\ ViewsGrow(ir, ir2, c, is)
  BY GrownBlocks, GrownViews
<1>2. ir2.blocks[Place(ir, c)] = CurrentOf(ir2, c)
  BY <1>1 DEF BlocksGrow, ViewsGrow
<1>3. Spans(ir) /\ more \in Nat
  BY DEF Growing, Grown
<1>4. Len(ir.blocks) \in Nat /\ DOMAIN ir.blocks = 1..Len(ir.blocks)
  BY <1>3 DEF Spans
<1>5. DOMAIN ir2.blocks = 1..(Len(ir.blocks) + more)
  BY <1>1 DEF BlocksGrow
<1>6. CASE k \in (Len(ir.blocks) + 1)..(Len(ir.blocks) + more)
  BY <1>1, <1>6 DEF BlocksGrow
<1>7. CASE k \in DOMAIN ir.blocks
  BY <1>1, <1>2, <1>7 DEF BlocksGrow
<1>8. k \in DOMAIN ir.blocks \/ k \in (Len(ir.blocks) + 1)..(Len(ir.blocks) + more)
  BY <1>3, <1>4, <1>5
<1> QED
  BY <1>6, <1>7, <1>8

LEMMA StraightGrows ==
  ASSUME NEW ir, NEW ir2, NEW c, NEW fresh, NEW more, NEW is, Growing(ir, c), Grown(ir, ir2, c, fresh, more, is),
         NEW pending, Fills(ir, ir2, c, is, pending)
  PROVE  Straight(ir2)
<1>1. Spans(ir) /\ Straight(ir) /\ ir.funcs # <<>> /\ c \in BlocksOf(LastFunc(ir)) /\ Latest(ir, c)
  BY DEF Growing
<1>2. InstsGrow(ir, ir2, is) /\ CurrentGrows(ir, ir2, c, is)
  BY GrownTables, GrownCurrent
<1>3. /\ Len(ir.insts) \in Nat /\ Len(is) \in Nat /\ Len(ir2.insts) = Len(ir.insts) + Len(is)
      /\ \A k \in 1..Len(ir.insts) : ir2.insts[k] = ir.insts[k]
      /\ \A k \in 1..Len(is) : ir2.insts[Len(ir.insts) + k] = is[k]
      /\ DOMAIN is = 1..Len(is)
  BY <1>2 DEF InstsGrow
\* An old block.
<1>4. ASSUME NEW b \in DOMAIN ir.blocks, ir.blocks[b] # EmptyBlock
      PROVE  /\ ir.blocks[b].begin \in Nat /\ ir.blocks[b].count > 0 /\ EndOf(ir.blocks[b]) =< Len(ir2.insts)
             /\ \A k \in InstsOf(ir.blocks[b]) : ir2.insts[k].kind \in Terminators => k = EndOf(ir.blocks[b])
  <2>1. /\ ir.blocks[b].begin \in Nat /\ ir.blocks[b].count > 0 /\ EndOf(ir.blocks[b]) =< Len(ir.insts)
        /\ \A k \in InstsOf(ir.blocks[b]) : ir.insts[k].kind \in Terminators => k = EndOf(ir.blocks[b])
    BY <1>1, <1>4 DEF Straight
  <2>2. InstsOf(ir.blocks[b]) \subseteq 1..Len(ir.insts) /\ EndOf(ir.blocks[b]) \in InstsOf(ir.blocks[b])
    BY <1>1, <1>4, Within
  <2>3. EndOf(ir.blocks[b]) \in 1..Len(ir.insts)
    BY <2>2
  <2>4. EndOf(ir.blocks[b]) =< Len(ir2.insts)
    BY <1>3, <2>3
  <2> QED
    BY <1>3, <2>1, <2>2, <2>4
\* The current one.
<1>5. ASSUME CurrentOf(ir2, c) # EmptyBlock
      PROVE  LET new == CurrentOf(ir2, c) IN
             /\ new.begin \in Nat /\ new.count > 0 /\ EndOf(new) =< Len(ir2.insts)
             /\ \A k \in InstsOf(new) : ir2.insts[k].kind \in Terminators => k = EndOf(new)
  <2> DEFINE at == LastFunc(ir).first + (c + 1)
  <2>1. at \in DOMAIN ir.blocks /\ CurrentOf(ir, c) = ir.blocks[at]
    BY <1>1, Layout DEF CurrentOf, BlockOf
  <2>2. CASE is = <<>>
    BY <1>2, <1>4, <1>5, <2>1, <2>2 DEF CurrentGrows
  <2>3. CASE is # <<>>
    <3> DEFINE new  == CurrentOf(ir2, c)
               size == Len(ir.insts)
    <3>1. /\ new.begin \in Nat /\ new.count > 0 /\ EndOf(new) = Len(ir2.insts)
          /\ InstsOf(new) = InstsOf(ir.blocks[at]) \cup (size + 1)..Len(ir2.insts)
      BY <1>2, <2>1, <2>3 DEF CurrentGrows
    <3>2. ASSUME NEW k \in InstsOf(ir.blocks[at])
          PROVE  ir2.insts[k].kind \notin Terminators
      <4>1. ir.blocks[at] # EmptyBlock
        BY Fields DEF InstsOf, Unset
      <4>2. ir2.insts[k].kind \in Terminators => k = EndOf(ir.blocks[at])
        BY <1>4, <2>1, <4>1
      <4>3. ~Whole(ir, ir.blocks[at])
        BY <2>1, <2>3 DEF Fills
      <4>4. ir.insts[EndOf(ir.blocks[at])].kind \notin Terminators
        BY <4>1, <4>3 DEF Whole
      <4>5. k \in 1..Len(ir.insts)
        BY <1>1, <2>1, Within
      <4> QED
        BY <1>3, <4>2, <4>4, <4>5
    <3>3. ASSUME NEW k \in (size + 1)..Len(ir2.insts), ir2.insts[k].kind \in Terminators
          PROVE  k = Len(ir2.insts)
      <4> DEFINE z == k - size
      <4>1. z \in 1..Len(is) /\ k = size + z /\ size \in Nat
        BY <1>3
      <4> HIDE DEF z
      <4>2. ir2.insts[k] = is[z]
        BY <1>3, <4>1
      <4>3. z = Len(is)
        BY <1>3, <3>3, <4>1, <4>2 DEF Fills
      <4> QED
        BY <1>3, <4>1, <4>3
    <3>4. EndOf(new) =< Len(ir2.insts)
      BY <1>3, <3>1
    <3> HIDE DEF new, size
    <3>5. \A k \in InstsOf(new) : ir2.insts[k].kind \in Terminators => k = EndOf(new)
      BY <3>1, <3>2, <3>3
    <3> QED
      BY <3>1, <3>4, <3>5 DEF new
  <2> QED
    BY <2>2, <2>3
<1> SUFFICES ASSUME NEW b \in DOMAIN ir2.blocks, ir2.blocks[b] # EmptyBlock
             PROVE  /\ ir2.blocks[b].begin \in Nat /\ ir2.blocks[b].count > 0 /\ EndOf(ir2.blocks[b]) =< Len(ir2.insts)
                    /\ \A k \in InstsOf(ir2.blocks[b]) : ir2.insts[k].kind \in Terminators => k = EndOf(ir2.blocks[b])
  BY DEF Straight
<1>6. \/ b \in DOMAIN ir.blocks /\ ir2.blocks[b] = ir.blocks[b]
      \/ ir2.blocks[b] = CurrentOf(ir2, c)
  BY BlocksAre
<1> QED
  BY <1>4, <1>5, <1>6


\* Every instruction of the last function is an old one of the same block, or
\* emitted into the current one.
LEMMA InstsAre ==
  ASSUME NEW ir, NEW ir2, NEW c, NEW fresh, NEW more, NEW is, Growing(ir, c), Grown(ir, ir2, c, fresh, more, is)
  PROVE  LET old(n) == InstsOf(BlockOf(ir, LastFunc(ir), n + 1))
             new(n) == InstsOf(BlockOf(ir2, LastFunc(ir2), n + 1))
         IN  /\ \A n \in BlocksOf(LastFunc(ir)) : \A k \in old(n) : k \in new(n) /\ ir2.insts[k] = ir.insts[k]
             /\ \A z \in DOMAIN is : Len(ir.insts) + z \in new(c) /\ ir2.insts[Len(ir.insts) + z] = is[z]
             /\ \A n \in BlocksOf(LastFunc(ir2)) : \A k \in new(n) :
                  \/ n \in BlocksOf(LastFunc(ir)) /\ k \in old(n)
                  \/ n = c /\ \E z \in DOMAIN is : k = Len(ir.insts) + z
<1> DEFINE l  == LastFunc(ir)
           l2 == LastFunc(ir2)
           old(n) == InstsOf(BlockOf(ir, l, n + 1))
           new(n) == InstsOf(BlockOf(ir2, l2, n + 1))
<1>1. Spans(ir) /\ Straight(ir) /\ ir.funcs # <<>> /\ c \in BlocksOf(l)
  BY DEF Growing
<1>2. InstsGrow(ir, ir2, is) /\ CurrentGrows(ir, ir2, c, is) /\ ViewsGrow(ir, ir2, c, is)
  BY GrownTables, GrownCurrent, GrownViews
<1>3. /\ Len(ir.insts) \in Nat /\ Len(is) \in Nat /\ Len(ir2.insts) = Len(ir.insts) + Len(is)
      /\ \A k \in 1..Len(ir.insts) : ir2.insts[k] = ir.insts[k]
      /\ \A k \in 1..Len(is) : ir2.insts[Len(ir.insts) + k] = is[k]
      /\ DOMAIN is = 1..Len(is)
  BY <1>2 DEF InstsGrow
<1>4. /\ is = <<>> => new(c) = old(c)
      /\ is # <<>> => new(c) = old(c) \cup (Len(ir.insts) + 1)..Len(ir2.insts)
  BY <1>2 DEF CurrentGrows, CurrentOf
<1>5. \A n \in BlocksOf(l) \ {c} : new(n) = old(n)
  BY <1>2 DEF ViewsGrow
<1>6. ASSUME NEW n \in BlocksOf(l2) \ BlocksOf(l)
      PROVE  new(n) = {}
  <2>1. BlockOf(ir2, l2, n + 1) = EmptyBlock
    BY <1>2 DEF ViewsGrow
  <2> QED
    BY <2>1, Fields DEF InstsOf, Unset
<1>7. ASSUME NEW n \in BlocksOf(l)
      PROVE  old(n) \subseteq 1..Len(ir.insts)
  <2>1. l.first + (n + 1) \in DOMAIN ir.blocks
    BY <1>1, Layout
  <2>2. InstsOf(ir.blocks[l.first + (n + 1)]) \subseteq 1..Len(ir.insts)
    BY <1>1, <2>1, Within
  <2> QED
    BY <2>2 DEF BlockOf
<1> HIDE DEF old, new, l, l2
<1>8. is # <<>> <=> Len(is) > 0
  <2>1. is \in Seq(Range(is))
    BY DEF Grown
  <2> QED
    BY <2>1
<1>9. ASSUME NEW n \in BlocksOf(l), NEW k \in old(n)
      PROVE  k \in new(n) /\ ir2.insts[k] = ir.insts[k]
  <2>1. k \in new(n)
    BY <1>4, <1>5, <1>9
  <2>2. k \in 1..Len(ir.insts)
    BY <1>7, <1>9
  <2> QED
    BY <1>3, <2>1, <2>2
<1>10. ASSUME NEW z \in DOMAIN is
       PROVE  Len(ir.insts) + z \in new(c) /\ ir2.insts[Len(ir.insts) + z] = is[z]
  <2> DEFINE size == Len(ir.insts)
  <2>1. z \in 1..Len(is) /\ Len(is) > 0 /\ size \in Nat /\ Len(ir2.insts) = size + Len(is)
    BY <1>3, <1>8
  <2>2. ir2.insts[size + z] = is[z]
    BY <1>3, <2>1
  <2>3. new(c) = old(c) \cup (size + 1)..Len(ir2.insts)
    BY <1>4, <1>8, <2>1
  <2> HIDE DEF size
  <2>4. size + z \in (size + 1)..Len(ir2.insts)
    BY <1>3, <2>1
  <2> QED
    BY <2>2, <2>3, <2>4 DEF size
<1>11. ASSUME NEW n \in BlocksOf(l2), NEW k \in new(n)
       PROVE  \/ n \in BlocksOf(l) /\ k \in old(n)
              \/ n = c /\ \E z \in DOMAIN is : k = Len(ir.insts) + z
  <2>1. CASE n \notin BlocksOf(l)
    BY <1>6, <1>11, <2>1
  <2>2. CASE n \in BlocksOf(l) \ {c}
    BY <1>5, <1>11, <2>2
  <2>3. CASE n = c
    <3>1. CASE k \in old(c)
      BY <1>1, <2>3, <3>1
    <3>2. CASE k \notin old(c)
      <4>1. k \in (Len(ir.insts) + 1)..Len(ir2.insts)
        BY <1>4, <1>11, <2>3, <3>2
      <4> DEFINE z == k - Len(ir.insts)
      <4>2. z \in 1..Len(is) /\ k = Len(ir.insts) + z
        BY <1>3, <4>1
      <4> HIDE DEF z
      <4> QED
        BY <1>3, <2>3, <4>2
    <3> QED
      BY <3>1, <3>2
  <2> QED
    BY <2>1, <2>2, <2>3
<1> QED
  BY <1>9, <1>10, <1>11 DEF l, l2, old, new

LEMMA FinishedGrows ==
  ASSUME NEW ir, NEW ir2, NEW c, NEW fresh, NEW more, NEW is, Growing(ir, c), Grown(ir, ir2, c, fresh, more, is),
         NEW T, Finished(ir, T, c), NEW T2, NEW c2, Moves(ir, ir2, T, c, T2, c2)
  PROVE  Finished(ir2, T2, c2)
<1> DEFINE l   == LastFunc(ir)
           l2  == LastFunc(ir2)
           new == BlocksOf(l2) \ BlocksOf(l)
           old(n)   == BlockOf(ir, l, n + 1)
           after(n) == BlockOf(ir2, l2, n + 1)
<1>1. Spans(ir) /\ Straight(ir) /\ ir.funcs # <<>> /\ c \in BlocksOf(l) /\ Latest(ir, c)
  BY DEF Growing
<1>2. /\ InstsGrow(ir, ir2, is) /\ CurrentGrows(ir, ir2, c, is) /\ ViewsGrow(ir, ir2, c, is)
      /\ FuncsGrow(ir, ir2, fresh, more)
  BY GrownTables, GrownCurrent, GrownViews, GrownFuncs
<1>3. /\ Len(ir2.funcs) = Len(ir.funcs) /\ DOMAIN ir2.funcs = DOMAIN ir.funcs
      /\ Len(ir.funcs) \in Nat
      /\ \A f \in DOMAIN ir.funcs : f # Len(ir.funcs) => ir2.funcs[f] = ir.funcs[f]
  BY <1>1, <1>2 DEF FuncsGrow, Spans
<1>4. /\ T \subseteq BlocksOf(l) /\ c2 \in {c} \cup T \cup new /\ T2 = (T \cup new) \ {c2}
      /\ c2 # c => Whole(ir2, after(c))
  BY DEF Moves, CurrentOf
<1>5. BlocksOf(l) \subseteq BlocksOf(l2)
  BY <1>2 DEF ViewsGrow
<1>6. c \notin T /\ \A n \in BlocksOf(l) \ {c} : IF n \in T THEN old(n) = EmptyBlock ELSE Whole(ir, old(n))
  BY <1>1 DEF Finished
<1>7. /\ \A n \in BlocksOf(l) \ {c} : after(n) = old(n)
      /\ \A n \in new : after(n) = EmptyBlock
  BY <1>2 DEF ViewsGrow
<1>8. ASSUME NEW n \in BlocksOf(l)
      PROVE  Whole(ir2, old(n)) <=> Whole(ir, old(n))
  <2>1. l.first + (n + 1) \in DOMAIN ir.blocks
    BY <1>1, Layout
  <2>2. Whole(ir2, ir.blocks[l.first + (n + 1)]) <=> Whole(ir, ir.blocks[l.first + (n + 1)])
    BY <1>1, <1>2, <2>1, WholeStays
  <2> QED
    BY <2>2 DEF BlockOf
<1>9. ASSUME NEW f \in DOMAIN ir2.funcs, f < Len(ir2.funcs), NEW n \in 1..ir2.funcs[f].count
      PROVE  Whole(ir2, BlockOf(ir2, ir2.funcs[f], n))
  <2>1. f \in DOMAIN ir.funcs /\ f < Len(ir.funcs) /\ ir2.funcs[f] = ir.funcs[f]
    BY <1>3, <1>9
  <2>2. Whole(ir, BlockOf(ir, ir.funcs[f], n))
    BY <1>9, <2>1 DEF Finished
  <2>3. BlockOf(ir2, ir2.funcs[f], n) = BlockOf(ir, ir.funcs[f], n)
    BY <1>2, <1>9, <2>1 DEF ViewsGrow
  <2>4. ir.funcs[f].first + n \in DOMAIN ir.blocks
    BY <1>1, <1>9, <2>1, Layout
  <2>5. Whole(ir2, ir.blocks[ir.funcs[f].first + n]) <=> Whole(ir, ir.blocks[ir.funcs[f].first + n])
    BY <1>1, <1>2, <2>4, WholeStays
  <2> QED
    BY <2>2, <2>3, <2>5 DEF BlockOf
<1>10. ASSUME after(c) # EmptyBlock
       PROVE  EndOf(after(c)) = Len(ir2.insts)
  BY <1>1, <1>2, <1>10 DEF CurrentGrows, Latest, CurrentOf
<1> HIDE DEF old, after, new, l, l2
<1>11. new = BlocksOf(l2) \ BlocksOf(l)
  BY DEF new
<1>12. c2 \in BlocksOf(l2) \ T2
  BY <1>1, <1>4, <1>5, <1>11
<1>13. after(c2) # EmptyBlock => EndOf(after(c2)) = Len(ir2.insts)
  <2>1. CASE c2 = c
    BY <1>10, <2>1
  <2>2. CASE c2 # c
    <3>1. after(c2) = EmptyBlock
      BY <1>4, <1>6, <1>7, <2>2
    <3> QED
      BY <3>1
  <2> QED
    BY <2>1, <2>2
<1>14. ASSUME NEW n \in BlocksOf(l2) \ {c2}
       PROVE  IF n \in T2 THEN after(n) = EmptyBlock ELSE Whole(ir2, after(n))
  <2>1. CASE n \in T
    <3>1. n \in BlocksOf(l) \ {c} /\ n \in T2
      BY <1>4, <1>6, <1>14, <2>1
    <3> QED
      BY <1>6, <1>7, <2>1, <3>1
  <2>2. CASE n \in new
    BY <1>4, <1>7, <1>14, <2>2
  <2>3. CASE n \in BlocksOf(l) \ T
    <3>1. n \notin T2
      BY <1>4, <1>11, <2>3
    <3>2. CASE n = c
      BY <1>4, <1>14, <3>1, <3>2
    <3>3. CASE n # c
      <4>1. Whole(ir, old(n)) /\ after(n) = old(n)
        BY <1>6, <1>7, <2>3, <3>3
      <4> QED
        BY <1>8, <2>3, <3>1, <4>1
    <3> QED
      BY <3>2, <3>3
  <2> QED
    BY <1>11, <1>14, <2>1, <2>2, <2>3
<1> QED
  BY <1>9, <1>12, <1>13, <1>14 DEF Finished, l2, after


LEMMA SoundGrows ==
  ASSUME NEW ir, NEW ir2, NEW c, NEW fresh, NEW more, NEW is, Growing(ir, c), Grown(ir, ir2, c, fresh, more, is),
         NEW pending, Sound(ir, pending), NEW pending2, pending \subseteq pending2, Fills(ir, ir2, c, is, pending2)
  PROVE  Sound(ir2, pending2)
<1> DEFINE l   == LastFunc(ir)
           l2  == LastFunc(ir2)
           old(n) == InstsOf(BlockOf(ir, l, n + 1))
           new(n) == InstsOf(BlockOf(ir2, l2, n + 1))
<1>1. Spans(ir) /\ Straight(ir) /\ ir.funcs # <<>> /\ c \in BlocksOf(l) /\ fresh \in Nat /\ more \in Nat
  BY DEF Growing, Grown
<1>2. /\ InstsGrow(ir, ir2, is) /\ ViewsGrow(ir, ir2, c, is) /\ FuncsGrow(ir, ir2, fresh, more)
  BY GrownTables, GrownViews, GrownFuncs
<1>3. /\ Len(ir2.funcs) = Len(ir.funcs) /\ DOMAIN ir2.funcs = DOMAIN ir.funcs
      /\ Len(ir.funcs) \in DOMAIN ir.funcs /\ DOMAIN ir.funcs = 1..Len(ir.funcs) /\ Len(ir.funcs) \in Nat
      /\ \A f \in DOMAIN ir.funcs : f # Len(ir.funcs) => ir2.funcs[f] = ir.funcs[f]
  BY <1>1, <1>2, Layout DEF FuncsGrow, Spans
<1>4. l \in FuncRecord /\ l2 \in FuncRecord /\ l2.count = l.count + more /\ l2.next_vreg = l.next_vreg + fresh
  BY <1>1, <1>2, Layout DEF FuncsGrow
<1>5. l.count \in Nat /\ l2.count \in Nat /\ l.count =< l2.count /\ l.next_vreg =< l2.next_vreg
  BY <1>1, <1>4, Fields
<1>6. ASSUME NEW f \in DOMAIN ir.funcs, f < Len(ir.funcs), NEW n \in 1..ir2.funcs[f].count,
             NEW k \in InstsOf(BlockOf(ir2, ir2.funcs[f], n))
      PROVE  InstOK(ir2.funcs[f], n, ir2.insts[k], FALSE)
  <2>1. ir2.funcs[f] = ir.funcs[f] /\ f # Len(ir.funcs)
    BY <1>3, <1>6
  <2>2. BlockOf(ir2, ir2.funcs[f], n) = BlockOf(ir, ir.funcs[f], n)
    BY <1>2, <1>6, <2>1 DEF ViewsGrow
  <2>3. InstOK(ir.funcs[f], n, ir.insts[k], f = Len(ir.funcs) /\ k \in pending)
    BY <1>6, <2>1, <2>2 DEF Sound
  <2>4. InstOK(ir.funcs[f], n, ir.insts[k], FALSE)
    BY <2>1, <2>3 DEF InstOK
  <2>5. ir.funcs[f].first + n \in DOMAIN ir.blocks
    BY <1>1, <1>6, <2>1, Layout
  <2>6. k \in 1..Len(ir.insts)
    BY <1>1, <1>6, <2>2, <2>5, Within DEF BlockOf
  <2>7. ir2.insts[k] = ir.insts[k]
    BY <1>2, <2>6 DEF InstsGrow
  <2> QED
    BY <2>1, <2>4, <2>7
<1>7. /\ \A n \in BlocksOf(l) : \A k \in old(n) : k \in new(n) /\ ir2.insts[k] = ir.insts[k]
      /\ \A z \in DOMAIN is : Len(ir.insts) + z \in new(c) /\ ir2.insts[Len(ir.insts) + z] = is[z]
      /\ \A n \in BlocksOf(l2) : \A k \in new(n) :
           \/ n \in BlocksOf(l) /\ k \in old(n)
           \/ n = c /\ \E z \in DOMAIN is : k = Len(ir.insts) + z
  BY InstsAre
<1>8. ASSUME NEW n \in BlocksOf(l2), NEW k \in new(n)
      PROVE  InstOK(l2, n + 1, ir2.insts[k], k \in pending2)
  <2>1. CASE n \in BlocksOf(l) /\ k \in old(n)
    <3>1. n + 1 \in 1..l.count
      BY <1>5, <2>1 DEF BlocksOf
    <3>2. InstOK(ir.funcs[Len(ir.funcs)], n + 1, ir.insts[k], Len(ir.funcs) = Len(ir.funcs) /\ k \in pending)
      BY <1>3, <2>1, <3>1 DEF Sound, LastFunc
    <3>3. InstOK(l, n + 1, ir.insts[k], k \in pending)
      BY <3>2 DEF LastFunc, InstOK
    <3>4. ir2.insts[k] = ir.insts[k]
      BY <1>7, <2>1
    <3> DEFINE was == k \in pending
               is_ == k \in pending2
    <3>5. was \in BOOLEAN /\ is_ \in BOOLEAN /\ (was => is_)
      OBVIOUS
    <3>6. InstOK(l, n + 1, ir.insts[k], was)
      BY <3>3
    <3> HIDE DEF l, l2, was, is_
    <3>7. InstOK(l2, n + 1, ir.insts[k], is_)
      BY <1>4, <1>5, <3>5, <3>6, InstGrows
    <3> QED
      BY <3>4, <3>7 DEF is_
  <2>2. ASSUME n = c, NEW z \in DOMAIN is, k = Len(ir.insts) + z
        PROVE  InstOK(l2, n + 1, ir2.insts[k], k \in pending2)
    <3>1. InstOK(l2, c + 1, is[z], Len(ir.insts) + z \in pending2)
      BY DEF Fills
    <3>2. ir2.insts[k] = is[z]
      BY <1>7, <2>2
    <3> QED
      BY <2>2, <3>1, <3>2
  <2> QED
    BY <1>7, <1>8, <2>1, <2>2
<1>9. ASSUME NEW n \in 1..l2.count, NEW k \in InstsOf(BlockOf(ir2, l2, n))
      PROVE  InstOK(l2, n, ir2.insts[k], k \in pending2)
  <2> DEFINE m == n - 1
  <2>1. m \in BlocksOf(l2) /\ m + 1 = n
    BY <1>5 DEF BlocksOf
  <2>2. k \in new(m)
    BY <1>9, <2>1
  <2> HIDE DEF m, new, l2
  <2>3. InstOK(l2, m + 1, ir2.insts[k], k \in pending2)
    BY <1>8, <2>1, <2>2
  <2> QED
    BY <2>1, <2>3
<1> SUFFICES ASSUME NEW f \in DOMAIN ir2.funcs, NEW n \in 1..ir2.funcs[f].count,
                    NEW k \in InstsOf(BlockOf(ir2, ir2.funcs[f], n))
             PROVE  InstOK(ir2.funcs[f], n, ir2.insts[k], f = Len(ir2.funcs) /\ k \in pending2)
  BY DEF Sound
<1>10. CASE f = Len(ir.funcs)
  <2>1. ir2.funcs[f] = l2
    BY <1>3, <1>10 DEF LastFunc
  <2>2. InstOK(l2, n, ir2.insts[k], k \in pending2)
    BY <1>9, <2>1
  <2> HIDE DEF l2
  <2>3. (f = Len(ir2.funcs) /\ k \in pending2) = (k \in pending2)
    BY <1>3, <1>10
  <2> QED
    BY <2>1, <2>2, <2>3
<1>11. CASE f # Len(ir.funcs)
  <2>1. f \in DOMAIN ir.funcs /\ f < Len(ir.funcs)
    BY <1>3, <1>11
  <2>2. InstOK(ir2.funcs[f], n, ir2.insts[k], FALSE)
    BY <1>6, <2>1
  <2>3. (f = Len(ir2.funcs) /\ k \in pending2) = FALSE
    BY <1>3, <1>11
  <2> QED
    BY <2>2, <2>3
<1> QED
  BY <1>10, <1>11

LEMMA NamesGrow ==
  ASSUME NEW ir, NEW ir2, NEW c, NEW fresh, NEW more, NEW is, Growing(ir, c), Grown(ir, ir2, c, fresh, more, is),
         NEW awaited, NoneUnused(ir, awaited), NEW awaited2, NamesAll(ir, ir2, is, awaited, awaited2)
  PROVE  NoneUnused(ir2, awaited2)
<1> DEFINE l   == LastFunc(ir)
           l2  == LastFunc(ir2)
           old(n) == InstsOf(BlockOf(ir, l, n + 1))
           new(n) == InstsOf(BlockOf(ir2, l2, n + 1))
<1>1. Spans(ir) /\ Straight(ir) /\ ir.funcs # <<>> /\ c \in BlocksOf(l) /\ fresh \in Nat /\ more \in Nat
  BY DEF Growing, Grown
<1>2. /\ InstsGrow(ir, ir2, is) /\ ViewsGrow(ir, ir2, c, is) /\ FuncsGrow(ir, ir2, fresh, more)
  BY GrownTables, GrownViews, GrownFuncs
<1>3. /\ Len(ir2.funcs) = Len(ir.funcs) /\ DOMAIN ir2.funcs = DOMAIN ir.funcs
      /\ Len(ir.funcs) \in DOMAIN ir.funcs /\ DOMAIN ir.funcs = 1..Len(ir.funcs) /\ Len(ir.funcs) \in Nat
      /\ \A f \in DOMAIN ir.funcs : f # Len(ir.funcs) => ir2.funcs[f] = ir.funcs[f]
  BY <1>1, <1>2, Layout DEF FuncsGrow, Spans
<1>4. /\ l \in FuncRecord /\ l2 \in FuncRecord /\ l2.count = l.count + more /\ l2.next_vreg = l.next_vreg + fresh
      /\ l2.arity = l.arity
  BY <1>1, <1>2, Layout DEF FuncsGrow
<1>5. /\ l.count \in Nat /\ l2.count \in Nat /\ l.next_vreg \in Nat /\ l2.next_vreg \in Nat /\ l.arity \in Nat
      /\ l.count =< l2.count
  BY <1>1, <1>4, Fields
<1>6. ASSUME NEW f \in DOMAIN ir.funcs, f < Len(ir.funcs), NEW r, Names(ir, ir.funcs[f], r)
      PROVE  Names(ir2, ir2.funcs[f], r)
  <2>1. ir2.funcs[f] = ir.funcs[f] /\ f # Len(ir.funcs)
    BY <1>3, <1>6
  <2>2. PICK n \in 1..ir.funcs[f].count : \E k \in InstsOf(BlockOf(ir, ir.funcs[f], n)) : VReg(r) \in NamedBy(ir.insts[k])
    BY <1>6 DEF Names
  <2>3. PICK k \in InstsOf(BlockOf(ir, ir.funcs[f], n)) : VReg(r) \in NamedBy(ir.insts[k])
    BY <2>2
  <2>4. BlockOf(ir2, ir2.funcs[f], n) = BlockOf(ir, ir.funcs[f], n)
    BY <1>2, <1>6 DEF ViewsGrow
  <2>5. ir.funcs[f].first + n \in DOMAIN ir.blocks
    BY <1>1, <1>6, Layout
  <2>6. k \in 1..Len(ir.insts)
    BY <1>1, <2>5, Within DEF BlockOf
  <2>7. ir2.insts[k] = ir.insts[k]
    BY <1>2, <2>6 DEF InstsGrow
  <2> QED
    BY <2>1, <2>3, <2>4, <2>7 DEF Names
<1>7. /\ \A n \in BlocksOf(l) : \A k \in old(n) : k \in new(n) /\ ir2.insts[k] = ir.insts[k]
      /\ \A z \in DOMAIN is : Len(ir.insts) + z \in new(c) /\ ir2.insts[Len(ir.insts) + z] = is[z]
  BY InstsAre
<1>8. ASSUME NEW n \in BlocksOf(l2), NEW k \in new(n), NEW r, VReg(r) \in NamedBy(ir2.insts[k])
      PROVE  Names(ir2, l2, r)
  <2>1. n + 1 \in 1..l2.count
    BY <1>5 DEF BlocksOf
  <2> HIDE DEF l2
  <2> QED
    BY <1>8, <2>1 DEF Names
<1>9. BlocksOf(l) \subseteq BlocksOf(l2)
  BY <1>2 DEF ViewsGrow
<1>10. ASSUME NEW r, Names(ir, l, r)
       PROVE  Names(ir2, l2, r)
  <2>1. PICK n \in 1..l.count : \E k \in InstsOf(BlockOf(ir, l, n)) : VReg(r) \in NamedBy(ir.insts[k])
    BY <1>10 DEF Names
  <2>2. PICK k \in InstsOf(BlockOf(ir, l, n)) : VReg(r) \in NamedBy(ir.insts[k])
    BY <2>1
  <2> DEFINE m == n - 1
  <2>3. m \in BlocksOf(l) /\ m + 1 = n
    BY <1>5 DEF BlocksOf
  <2>4. k \in old(m)
    BY <2>3
  <2> HIDE DEF m, l, l2, old, new
  <2>5. k \in new(m) /\ ir2.insts[k] = ir.insts[k] /\ m \in BlocksOf(l2)
    BY <1>7, <1>9, <2>3, <2>4
  <2>6. VReg(r) \in NamedBy(ir2.insts[k])
    BY <2>2, <2>5
  <2> QED
    BY <1>8, <2>5, <2>6
<1>11. ASSUME NEW r, r \in awaited \/ r \in l.next_vreg..(l2.next_vreg - 1)
       PROVE  Names(ir2, l2, r) \/ r \in awaited2
  <2>1. r \in awaited2 \/ \E k \in DOMAIN is : VReg(r) \in NamedBy(is[k])
    BY <1>11 DEF NamesAll
  <2>2. ASSUME NEW z \in DOMAIN is, VReg(r) \in NamedBy(is[z])
        PROVE  Names(ir2, l2, r)
    <3> DEFINE k == Len(ir.insts) + z
    <3>1. k \in new(c) /\ ir2.insts[k] = is[z] /\ c \in BlocksOf(l2)
      BY <1>1, <1>7, <1>9
    <3> HIDE DEF k, l2, new
    <3> QED
      BY <1>8, <2>2, <3>1
  <2> QED
    BY <2>1, <2>2
<1> SUFFICES ASSUME NEW f \in DOMAIN ir2.funcs, NEW r \in ir2.funcs[f].arity..(ir2.funcs[f].next_vreg - 1)
             PROVE  Names(ir2, ir2.funcs[f], r) \/ (f = Len(ir2.funcs) /\ r \in awaited2)
  BY DEF NoneUnused
<1>12. CASE f = Len(ir.funcs)
  <2>1. ir2.funcs[f] = l2 /\ ir.funcs[f] = l
    BY <1>3, <1>12 DEF LastFunc
  <2>2. r \in l.arity..(l2.next_vreg - 1)
    BY <1>4, <2>1
  <2>3. CASE r \in l.next_vreg..(l2.next_vreg - 1)
    BY <1>3, <1>11, <1>12, <2>1, <2>3
  <2>4. CASE r \in l.arity..(l.next_vreg - 1)
    <3>1. Names(ir, l, r) \/ r \in awaited
      BY <1>3, <1>12, <2>1, <2>4 DEF NoneUnused
    <3> HIDE DEF l, l2
    <3> QED
      BY <1>3, <1>10, <1>11, <1>12, <2>1, <3>1
  <2> HIDE DEF l, l2
  <2>5. r \in l.next_vreg..(l2.next_vreg - 1) \/ r \in l.arity..(l.next_vreg - 1)
    BY <1>5, <2>2
  <2> QED
    BY <2>3, <2>4, <2>5
<1>13. CASE f # Len(ir.funcs)
  <2>1. f \in DOMAIN ir.funcs /\ f < Len(ir.funcs) /\ ir2.funcs[f] = ir.funcs[f]
    BY <1>3, <1>13
  <2>2. Names(ir, ir.funcs[f], r)
    BY <1>13, <2>1 DEF NoneUnused
  <2> QED
    BY <1>6, <2>1, <2>2
<1> QED
  BY <1>12, <1>13

\* An action that fills the current block, and may go on in another, keeps the
\* tables as they should be.
LEMMA TablesGrow ==
  ASSUME NEW ir, NEW ir2, NEW c, NEW fresh, NEW more, NEW is, NEW T, NEW T2, NEW c2, NEW pending, NEW pending2,
         NEW awaited, NEW awaited2,
         ir.funcs # <<>>, Tables(ir, T, c, pending, awaited), Grown(ir, ir2, c, fresh, more, is),
         Fills(ir, ir2, c, is, pending2), NamesAll(ir, ir2, is, awaited, awaited2), pending \subseteq pending2,
         Moves(ir, ir2, T, c, T2, c2)
  PROVE  Tables(ir2, T2, c2, pending2, awaited2)
<1>1. Growing(ir, c)
  BY DEF Tables, Finished, Growing, Latest, CurrentOf
<1>2. Spans(ir2)
  BY <1>1, SpansGrow, Zenon
<1>3. Straight(ir2)
  BY <1>1, StraightGrows, Zenon
<1>4. Finished(ir2, T2, c2)
  <2>1. Finished(ir, T, c)
    BY DEF Tables
  <2> QED
    BY <1>1, <2>1, FinishedGrows, Zenon
<1>5. Sound(ir2, pending2)
  <2>1. Sound(ir, pending)
    BY DEF Tables
  <2> QED
    BY <1>1, <2>1, SoundGrows, Zenon
<1>6. NoneUnused(ir2, awaited2)
  <2>1. NoneUnused(ir, awaited)
    BY DEF Tables
  <2> QED
    BY <1>1, <2>1, NamesGrow, Zenon
<1> QED
  BY <1>2, <1>3, <1>4, <1>5, <1>6 DEF Tables

-----------------------------------------------------------------------------
(***************************************************************************)
(* One step of the builder inside a function.                              *)
(***************************************************************************)
\* The tables are what they were, or what an action makes them.
Same(ir, ir2) == ir2.insts = ir.insts /\ ir2.blocks = ir.blocks /\ ir2.funcs = ir.funcs

\* The current block is Whole after the new instructions if they end it.
LEMMA Endings ==
  ASSUME NEW ir, NEW ir2, NEW c, NEW fresh, NEW more, NEW is, Growing(ir, c), Grown(ir, ir2, c, fresh, more, is)
  PROVE  /\ is = <<>> => (Whole(ir2, CurrentOf(ir2, c)) <=> Whole(ir, CurrentOf(ir, c)))
         /\ is # <<>> => (Whole(ir2, CurrentOf(ir2, c)) <=> is[Len(is)].kind \in Terminators)
<1>1. /\ CurrentGrows(ir, ir2, c, is) /\ InstsGrow(ir, ir2, is)
  BY GrownCurrent, GrownTables
<1>2. Spans(ir) /\ Straight(ir) /\ ir.funcs # <<>> /\ c \in BlocksOf(LastFunc(ir)) /\ is \in Seq(Range(is))
  BY DEF Growing, Grown
<1>3. ASSUME is = <<>>
      PROVE  Whole(ir2, CurrentOf(ir2, c)) <=> Whole(ir, CurrentOf(ir, c))
  <2>1. CurrentOf(ir2, c) = CurrentOf(ir, c)
    BY <1>1, <1>3 DEF CurrentGrows
  <2>2. LastFunc(ir).first + (c + 1) \in DOMAIN ir.blocks
    BY <1>2, Layout
  <2>3. Whole(ir2, CurrentOf(ir, c)) <=> Whole(ir, CurrentOf(ir, c))
    BY <1>1, <1>2, <2>2, WholeStays DEF CurrentOf, BlockOf
  <2> QED
    BY <2>1, <2>3
<1>4. ASSUME is # <<>>
      PROVE  Whole(ir2, CurrentOf(ir2, c)) <=> is[Len(is)].kind \in Terminators
  <2>1. CurrentOf(ir2, c) # EmptyBlock /\ EndOf(CurrentOf(ir2, c)) = Len(ir2.insts)
    BY <1>1, <1>4 DEF CurrentGrows
  <2>2. Len(is) \in 1..Len(is) /\ Len(ir2.insts) = Len(ir.insts) + Len(is)
    BY <1>1, <1>2, <1>4 DEF InstsGrow
  <2>3. ir2.insts[Len(ir2.insts)] = is[Len(is)]
    BY <1>1, <2>2 DEF InstsGrow
  <2> QED
    BY <2>1, <2>3 DEF Whole
<1> QED
  BY <1>3, <1>4

\* What may be done next, in the current block.
Fits(ir, c, step_) ==
  /\ step_ \in Running => ~Whole(ir, CurrentOf(ir, c))
  /\ step_ \in Switching \cup DeclStep => Whole(ir, CurrentOf(ir, c))
  /\ step_ = "Param" => LastFunc(ir).next_vreg = LastFunc(ir).arity

LEMMA Positioned ==
  ASSUME NEW ir, NEW c, NEW regs, NEW blks, NEW s, Stack(s, regs, blks), s # <<>>, NEW cs, cs \in Seq(Range(cs)),
         ir.funcs # <<>>,
         cs # <<>> => Fits(ir, c, cs[1].step),
         cs = <<>> => /\ s[1].step \in Outermost => Whole(ir, CurrentOf(ir, c))
                      /\ \A next \in Callers(s[1].step) : Fits(ir, c, next)
  PROVE  Position(ir, cs \o Tail(s), c)
<1> DEFINE t == cs \o Tail(s)
<1>1. s \in Seq(Range(s)) /\ \A k \in DOMAIN s : IF k = Len(s) THEN s[k].step \in Outermost
                                                              ELSE s[k + 1].step \in Callers(s[k].step)
  BY DEF Stack
<1>2. /\ t \in Seq(Range(t)) /\ Len(s) \in Nat /\ Len(cs) \in Nat /\ Len(s) >= 1 /\ Len(t) = Len(cs) + Len(s) - 1
      /\ DOMAIN t = 1..Len(t) /\ DOMAIN s = 1..Len(s) /\ DOMAIN cs = 1..Len(cs)
      /\ \A k \in 1..Len(cs) : t[k] = cs[k]
      /\ \A k \in (Len(cs) + 1)..Len(t) : t[k] = s[k - Len(cs) + 1]
  BY <1>1, Spliced
<1>3. CASE cs # <<>>
  <2>1. Len(cs) >= 1
    BY <1>2, <1>3
  <2>2. t[1] = cs[1] /\ t # <<>>
    BY <1>2, <2>1
  <2>3. Fits(ir, c, t[1].step)
    BY <1>3, <2>2
  <2> QED
    BY <2>2, <2>3 DEF Position, Fits
<1>4. CASE cs = <<>>
  <2>1. Len(cs) = 0
    BY <1>4
  <2>2. CASE Len(s) = 1
    <3>1. t = <<>>
      <4> HIDE DEF t
      <4> QED
        BY <1>2, <2>1, <2>2
    <3>2. s[1].step \in Outermost
      BY <1>1, <1>2, <2>2
    <3> QED
      BY <1>4, <3>1, <3>2 DEF Position
  <2>3. CASE Len(s) # 1
    <3>1. t[1] = s[2] /\ t # <<>>
      <4> HIDE DEF t
      <4>1. Len(t) >= 1 /\ 1 \in (Len(cs) + 1)..Len(t) /\ 1 - Len(cs) + 1 = 2
        BY <1>2, <2>1, <2>3
      <4> QED
        BY <1>2, <4>1
    <3>2. s[2].step \in Callers(s[1].step)
      BY <1>1, <1>2, <2>3
    <3>3. Fits(ir, c, t[1].step)
      BY <1>4, <3>1, <3>2
    <3> QED
      BY <3>1, <3>3 DEF Position, Fits
  <2> QED
    BY <2>2, <2>3
<1> QED
  BY <1>3, <1>4

\* The registers that are new, or no longer awaited, have a name.
Settles(ir, ir2, f, cs, is) ==
  /\ \A r \in LastFunc(ir).next_vreg..(LastFunc(ir2).next_vreg - 1) :
       r \in Awaited(cs) \/ \E k \in DOMAIN is : VReg(r) \in NamedBy(is[k])
  /\ f.step = "VarDecl" => f.arg[1] \in Awaited(cs) \/ \E k \in DOMAIN is : VReg(f.arg[1]) \in NamedBy(is[k])

\* The blocks that were waiting, or are new, wait still or are gone on in.
NewBlocks(ir, ir2) == BlocksOf(LastFunc(ir2)) \ BlocksOf(LastFunc(ir))

Turns(ir, ir2, c, f, cs, c2) ==
  LET now == Targets(f) \cup NewBlocks(ir, ir2) IN
  /\ c2 \in {c} \cup now
  /\ AllTargets(cs) = now \ {c2}
  /\ c2 # c => Whole(ir2, CurrentOf(ir2, c))

LEMMA InFunction ==
  ASSUME NEW ir, NEW s, NEW c, NEW ls, Going(ir, s, c, ls), s # <<>>, s[1].step \notin DeclStep
  PROVE  /\ ir.funcs # <<>> /\ Growing(ir, c)
         /\ Stack(s, RegsOf(LastFunc(ir)), BlocksOf(LastFunc(ir)))
         /\ s \in Seq(Range(s)) /\ 1 \in DOMAIN s /\ Len(s) \in Nat
         /\ FrameOK(s[1], RegsOf(LastFunc(ir)), BlocksOf(LastFunc(ir)))
         /\ AllTargets(s) \subseteq BlocksOf(LastFunc(ir)) /\ c \notin AllTargets(s)
         /\ c \in BlocksOf(LastFunc(ir)) /\ LastFunc(ir) \in FuncRecord
         /\ \A k \in DOMAIN s : 1 < k => Targets(s[1]) \cap Targets(s[k]) = {}
         /\ s[1].step \in Running => ~Whole(ir, CurrentOf(ir, c))
         /\ s[1].step \in Switching => Whole(ir, CurrentOf(ir, c))
<1>1. /\ Stack(s, RegsOf(LastFunc(ir)), BlocksOf(LastFunc(ir))) /\ Position(ir, s, c)
      /\ Tables(ir, AllTargets(s), c, Pending(ls), Awaited(s))
  BY DEF Going
<1>2. /\ ir.funcs # <<>>
      /\ s[1].step \in Running => ~Whole(ir, CurrentOf(ir, c))
      /\ s[1].step \in Switching => Whole(ir, CurrentOf(ir, c))
  BY <1>1 DEF Position
<1>3. Spans(ir) /\ Straight(ir) /\ Finished(ir, AllTargets(s), c)
  BY <1>1 DEF Tables
<1>4. /\ c \in BlocksOf(LastFunc(ir)) \ AllTargets(s)
      /\ LET block == BlockOf(ir, LastFunc(ir), c + 1) IN block # EmptyBlock => EndOf(block) = Len(ir.insts)
  BY <1>2, <1>3 DEF Finished
<1>5. Growing(ir, c)
  BY <1>2, <1>3, <1>4 DEF Growing, Latest, CurrentOf
<1>6. /\ s \in Seq(Range(s))
      /\ \A k \in DOMAIN s : FrameOK(s[k], RegsOf(LastFunc(ir)), BlocksOf(LastFunc(ir)))
      /\ \A j, k \in DOMAIN s : j < k => Targets(s[j]) \cap Targets(s[k]) = {}
  BY <1>1 DEF Stack
<1>7. 1 \in DOMAIN s /\ Len(s) \in Nat
  BY <1>6
<1>8. \A k \in DOMAIN s : Targets(s[k]) \subseteq BlocksOf(LastFunc(ir))
  BY <1>6 DEF FrameOK
<1>9. AllTargets(s) \subseteq BlocksOf(LastFunc(ir))
  BY <1>8 DEF AllTargets
<1>10. \A k \in DOMAIN s : 1 < k => Targets(s[1]) \cap Targets(s[k]) = {}
  BY <1>6, <1>7
<1>11. LastFunc(ir) \in FuncRecord
  BY <1>2, <1>3, Layout
<1> QED
  BY <1>1, <1>2, <1>4, <1>5, <1>6, <1>7, <1>9, <1>10, <1>11

LEMMA CodeGoesOn ==
  ASSUME NEW ir, NEW ir2, NEW s, NEW cs, NEW c, NEW c2, NEW ls, NEW ls2, NEW fresh, NEW more, NEW is,
         Going(ir, s, c, ls), s # <<>>, s[1].step \notin DeclStep,
         Grown(ir, ir2, c, fresh, more, is), Fills(ir, ir2, c, is, Pending(ls2)),
         Replaces(cs, s[1], RegsOf(LastFunc(ir2)), BlocksOf(LastFunc(ir2)), NewBlocks(ir, ir2)),
         Settles(ir, ir2, s[1], cs, is), Turns(ir, ir2, c, s[1], cs, c2),
         Conditions(cs \o Tail(s), c2), Nesting(cs \o Tail(s), Len(ls2)),
         OpenLoops(ls2, ir2.insts, BlocksOf(LastFunc(ir2))), Pending(ls) \subseteq Pending(ls2),
         Position(ir2, cs \o Tail(s), c2)
  PROVE  Going(ir2, cs \o Tail(s), c2, ls2)
<1> DEFINE t == cs \o Tail(s)
<1>1. /\ ir.funcs # <<>> /\ Growing(ir, c)
      /\ Stack(s, RegsOf(LastFunc(ir)), BlocksOf(LastFunc(ir))) /\ s \in Seq(Range(s)) /\ 1 \in DOMAIN s
      /\ AllTargets(s) \subseteq BlocksOf(LastFunc(ir)) /\ c \notin AllTargets(s)
      /\ c \in BlocksOf(LastFunc(ir))
      /\ \A k \in DOMAIN s : 1 < k => Targets(s[1]) \cap Targets(s[k]) = {}
  BY InFunction
<1>2. cs \in Seq(Range(cs))
  BY DEF Replaces
<1>3. ViewsGrow(ir, ir2, c, is)
  BY <1>1, GrownViews
<1>4. /\ BlocksOf(LastFunc(ir)) \subseteq BlocksOf(LastFunc(ir2))
      /\ RegsOf(LastFunc(ir)) \subseteq RegsOf(LastFunc(ir2))
  BY <1>3 DEF ViewsGrow
<1>5. NewBlocks(ir, ir2) \cap BlocksOf(LastFunc(ir)) = {}
  BY DEF NewBlocks
<1>6. Stack(t, RegsOf(LastFunc(ir2)), BlocksOf(LastFunc(ir2)))
  BY <1>1, <1>4, <1>5, StackGoesOn
<1>7. AllTargets(t) = (AllTargets(s) \ Targets(s[1])) \cup AllTargets(cs)
  BY <1>1, <1>2, TargetsAfter
<1>8. Targets(s[1]) \subseteq AllTargets(s)
  BY <1>1 DEF AllTargets
<1>9. Moves(ir, ir2, AllTargets(s), c, AllTargets(t), c2)
  <2> DEFINE T == AllTargets(s)  T1 == Targets(s[1])  new == NewBlocks(ir, ir2)  Tc == AllTargets(cs)
             T2 == AllTargets(t)  B == BlocksOf(LastFunc(ir))
  <2>1. c2 \in {c} \cup T1 \cup new /\ Tc = (T1 \cup new) \ {c2}
    BY DEF Turns
  <2>2. T2 = (T \ T1) \cup Tc /\ T1 \subseteq T /\ T \subseteq B /\ c \notin T /\ new \cap B = {}
    BY <1>1, <1>5, <1>7, <1>8
  <2>3. c2 # c => Whole(ir2, CurrentOf(ir2, c))
    BY DEF Turns
  <2>4. new = BlocksOf(LastFunc(ir2)) \ BlocksOf(LastFunc(ir))
    BY DEF NewBlocks
  <2> HIDE DEF T, T1, new, Tc, T2, B
  <2>5. c2 \in {c} \cup T \cup new /\ T2 = (T \cup new) \ {c2}
    BY <2>1, <2>2
  <2> QED
    BY <2>2, <2>3, <2>4, <2>5 DEF Moves, T, T2, B
<1>10. NamesAll(ir, ir2, is, Awaited(s), Awaited(t))
  <2>1. /\ Awaited(cs) \subseteq Awaited(t)
        /\ \A r \in Awaited(s) : r \in Awaited(t) \/ (s[1].step = "VarDecl" /\ r = s[1].arg[1])
    BY <1>1, <1>2, AwaitedAfter
  <2> SUFFICES ASSUME NEW r, r \in Awaited(s) \/ r \in LastFunc(ir).next_vreg..(LastFunc(ir2).next_vreg - 1)
               PROVE  r \in Awaited(t) \/ \E k \in DOMAIN is : VReg(r) \in NamedBy(is[k])
    BY DEF NamesAll
  <2>2. CASE r \in Awaited(s)
    BY <2>1, <2>2 DEF Settles
  <2>3. CASE r \in LastFunc(ir).next_vreg..(LastFunc(ir2).next_vreg - 1)
    BY <2>1, <2>3 DEF Settles
  <2> QED
    BY <2>2, <2>3
<1>11. Tables(ir, AllTargets(s), c, Pending(ls), Awaited(s))
  BY DEF Going
<1>12. Tables(ir2, AllTargets(t), c2, Pending(ls2), Awaited(t))
  BY <1>1, <1>9, <1>10, <1>11, TablesGrow
<1> QED
  BY <1>6, <1>12 DEF Going

LEMMA LoopsStay ==
  ASSUME NEW ir, NEW ir2, NEW is, InstsGrow(ir, ir2, is), NEW blks, NEW blks2, blks \subseteq blks2,
         NEW ls, OpenLoops(ls, ir.insts, blks)
  PROVE  OpenLoops(ls, ir2.insts, blks2)
<1>1. /\ ls \in Seq(LoopRecord)
      /\ \A l \in DOMAIN ls :
           /\ ls[l].continue_target \in blks
           /\ \A k \in ls[l].breaks : k \in DOMAIN ir.insts /\ ir.insts[k] = JumpToBlock(Unset)
      /\ \A l, m \in DOMAIN ls : l # m => ls[l].breaks \cap ls[m].breaks = {}
  BY DEF OpenLoops
<1>2. \A k \in DOMAIN ir.insts : k \in DOMAIN ir2.insts /\ ir2.insts[k] = ir.insts[k]
  BY DEF InstsGrow
<1> QED
  BY <1>1, <1>2 DEF OpenLoops

LEMMA CodeYields ==
  ASSUME NEW ir, NEW ir2, NEW s, NEW t, NEW c, NEW ls, NEW fresh, NEW is, NEW r,
         Going(ir, s, c, ls), s # <<>>, s[1].step \in {"Expr", "Deliver"},
         Grown(ir, ir2, c, fresh, 0, is), Fills(ir, ir2, c, is, Pending(ls)),
         Settles(ir, ir2, s[1], <<>>, is), ~Whole(ir2, CurrentOf(ir2, c)),
         r \in RegsOf(LastFunc(ir2)), t = Yielded(s, r)
  PROVE  Going(ir2, t, c, ls)
<1>1. /\ ir.funcs # <<>> /\ Growing(ir, c)
      /\ Stack(s, RegsOf(LastFunc(ir)), BlocksOf(LastFunc(ir))) /\ c \notin AllTargets(s)
      /\ AllTargets(s) \subseteq BlocksOf(LastFunc(ir)) /\ LastFunc(ir) \in FuncRecord
  BY InFunction DEF DeclStep
<1>2. /\ ViewsGrow(ir, ir2, c, is) /\ FuncsGrow(ir, ir2, fresh, 0) /\ InstsGrow(ir, ir2, is)
  BY <1>1, GrownViews, GrownFuncs, GrownTables
<1>3. /\ BlocksOf(LastFunc(ir)) \subseteq BlocksOf(LastFunc(ir2))
      /\ RegsOf(LastFunc(ir)) \subseteq RegsOf(LastFunc(ir2)) /\ ir2.funcs # <<>>
  BY <1>2 DEF ViewsGrow, FuncsGrow
<1>4. BlocksOf(LastFunc(ir2)) \ BlocksOf(LastFunc(ir)) = {}
  BY <1>1, <1>2, Fields DEF FuncsGrow, BlocksOf
<1>5. Conditions(s, c) /\ Nesting(s, Len(ls))
  BY DEF Going
<1>6. /\ Stack(t, RegsOf(LastFunc(ir2)), BlocksOf(LastFunc(ir2))) /\ t # <<>> /\ t[1].step \in ExprStep \cup StmtStep
      /\ AllTargets(t) = AllTargets(s) /\ Awaited(s) \subseteq Awaited(t)
      /\ Conditions(t, c) /\ Nesting(t, Len(ls))
  <2> DEFINE R1 == RegsOf(LastFunc(ir))    B1 == BlocksOf(LastFunc(ir))
             R2 == RegsOf(LastFunc(ir2))  B2 == BlocksOf(LastFunc(ir2))  m == Len(ls)
  <2>1. /\ Stack(s, R1, B1) /\ R1 \subseteq R2 /\ B1 \subseteq B2 /\ r \in R2
        /\ Conditions(s, c) /\ Nesting(s, m)
    BY <1>1, <1>3, <1>5
  <2> HIDE DEF R1, B1, R2, B2, m
  <2>2. Returns(s, t, R2, B2, c, m)
    BY <2>1, StackYields
  <2> QED
    BY <2>2 DEF Returns, R2, B2, m
<1>7. OpenLoops(ls, ir2.insts, BlocksOf(LastFunc(ir2)))
  BY <1>2, <1>3, LoopsStay DEF Going
<1>8. Position(ir2, t, c)
  BY <1>3, <1>6 DEF Position, ExprStep, StmtStep, DeclStep, Running, Switching
<1>9. Moves(ir, ir2, AllTargets(s), c, AllTargets(t), c)
  BY <1>1, <1>4, <1>6 DEF Moves
<1>10. NamesAll(ir, ir2, is, Awaited(s), Awaited(t))
  <2>1. Awaited(<<>>) = {}
    BY DEF Awaited
  <2> SUFFICES ASSUME NEW z, z \in Awaited(s) \/ z \in LastFunc(ir).next_vreg..(LastFunc(ir2).next_vreg - 1)
               PROVE  z \in Awaited(t) \/ \E k \in DOMAIN is : VReg(z) \in NamedBy(is[k])
    BY DEF NamesAll
  <2> QED
    BY <1>6, <2>1 DEF Settles
<1>11. Tables(ir, AllTargets(s), c, Pending(ls), Awaited(s))
  BY DEF Going
<1>12. Tables(ir2, AllTargets(t), c, Pending(ls), Awaited(t))
  BY <1>1, <1>9, <1>10, <1>11, TablesGrow
<1> QED
  BY <1>6, <1>7, <1>8, <1>12 DEF Going
-----------------------------------------------------------------------------
(***************************************************************************)
(* The actions and the tables.                                             *)
(***************************************************************************)
LEMMA EmitGrows ==
  ASSUME NEW fresh \in Nat, NEW more \in Nat, NEW is, is \in Seq(Range(is)), emit(fresh, more, is)
  PROVE  Grown(ModuleIR, ModuleIR', cur, fresh, more, is)
<1>1. LastFunc(ModuleIR) = Function /\ Place(ModuleIR, cur) = Current
  BY DEF LastFunc, ModuleIR, Function, Last, Place, Current
<1>2. ModuleIR.insts = insts /\ ModuleIR.blocks = blocks /\ ModuleIR.funcs = funcs
  BY DEF ModuleIR
<1>3. ModuleIR'.insts = insts' /\ ModuleIR'.blocks = blocks' /\ ModuleIR'.funcs = funcs'
  BY DEF ModuleIR
<1>4. insts' = insts \o is
  BY DEF emit
<1>5. blocks' = [blocks EXCEPT ![Current] = Extended(@, Len(insts), is)] \o [k \in 1..more |-> EmptyBlock]
  BY DEF emit, Extended
<1>6. funcs' = [funcs EXCEPT ![Len(funcs)] =
                  [Function EXCEPT !.next_vreg = Function.next_vreg + fresh, !.count = Function.count + more]]
  BY DEF emit, Fresh, NewBlock
<1> QED
  BY <1>1, <1>2, <1>3, <1>4, <1>5, <1>6 DEF Grown

LEMMA SameGrows ==
  ASSUME NEW ir, NEW ir2, NEW c, Growing(ir, c), Same(ir, ir2)
  PROVE  Grown(ir, ir2, c, 0, 0, <<>>)
<1>1. Spans(ir) /\ ir.funcs # <<>> /\ c \in BlocksOf(LastFunc(ir))
  BY DEF Growing
<1>2. /\ LastFunc(ir) \in FuncRecord /\ Len(ir.funcs) \in DOMAIN ir.funcs
      /\ LastFunc(ir).first + (c + 1) \in DOMAIN ir.blocks /\ c \in Nat
  BY <1>1, Layout
<1>3. /\ ir.insts \in Seq(Range(ir.insts)) /\ ir.blocks \in Seq(BlockRecord) /\ ir.funcs \in Seq(FuncRecord)
  BY <1>1 DEF Spans
<1>4. ir2.insts = ir.insts \o <<>>
  BY <1>3 DEF Same
<1>5. ir2.blocks = [ir.blocks EXCEPT ![Place(ir, c)] = Extended(@, Len(ir.insts), <<>>)] \o [k \in 1..0 |-> EmptyBlock]
  <2>1. Place(ir, c) \in DOMAIN ir.blocks
    <3>1. LastFunc(ir).first \in Nat
      BY <1>2, Fields
    <3> DEFINE at == LastFunc(ir).first
    <3> HIDE DEF at
    <3>2. at + c + 1 = at + (c + 1)
      BY <1>2, <3>1 DEF at
    <3> QED
      BY <1>2, <3>2 DEF Place, at
  <2> DEFINE p == Place(ir, c)  block == ir.blocks[p]
  <2>2. block \in BlockRecord
    BY <1>3, <2>1
  <2>3. Extended(block, Len(ir.insts), <<>>) = block
    BY <2>2 DEF Extended, BlockRecord
  <2>4. [ir.blocks EXCEPT ![p] = Extended(@, Len(ir.insts), <<>>)] = ir.blocks
    <3> DEFINE new == Extended(block, Len(ir.insts), <<>>)
    <3>1. new = ir.blocks[p] /\ p \in DOMAIN ir.blocks
      BY <2>1, <2>3
    <3>2. [ir.blocks EXCEPT ![p] = new] = ir.blocks
      <4> HIDE DEF new, p
      <4> QED
        BY <1>3, <3>1
    <3> QED
      BY <3>2
  <2>5. [k \in 1..0 |-> EmptyBlock] = <<>>
    OBVIOUS
  <2>6. ir.blocks \o <<>> = ir.blocks
    BY <1>3
  <2> QED
    BY <2>4, <2>5, <2>6 DEF Same
<1>6. ir2.funcs = [ir.funcs EXCEPT ![Len(ir.funcs)] =
                     [LastFunc(ir) EXCEPT !.next_vreg = LastFunc(ir).next_vreg + 0,
                                          !.count = LastFunc(ir).count + 0]]
  <2> DEFINE l == LastFunc(ir)
             new == [l EXCEPT !.next_vreg = l.next_vreg + 0, !.count = l.count + 0]
  <2>1. l \in FuncRecord
    BY <1>2
  <2>2. new = l
    <3> HIDE DEF l
    <3>1. l.next_vreg + 0 = l.next_vreg /\ l.count + 0 = l.count
      BY <2>1, Fields
    <3>2. new = [l EXCEPT !.next_vreg = l.next_vreg, !.count = l.count]
      BY <3>1
    <3> QED
      BY <2>1, <3>2 DEF FuncRecord
  <2>3. new = ir.funcs[Len(ir.funcs)]
    BY <2>2 DEF LastFunc
  <2>4. [ir.funcs EXCEPT ![Len(ir.funcs)] = new] = ir.funcs
    <3> HIDE DEF new
    <3> QED
      BY <1>2, <1>3, <2>3
  <2> QED
    BY <2>4 DEF Same
<1>7. <<>> \in Seq(Range(<<>>))
  BY None
<1> QED
  BY <1>4, <1>5, <1>6, <1>7 DEF Grown

LEMMA ContextStays ==
  ASSUME NEW ir, NEW ir2, RegsOf(LastFunc(ir)) \subseteq RegsOf(LastFunc(ir2)),
         NEW declared, NEW opened, NEW named, Context(ir, declared, opened, named)
  PROVE  Context(ir2, declared, opened, named)
BY DEF Context

\* The registers and blocks of the function after a step.
Regs2 == RegsOf(LastFunc(ModuleIR'))
Blks2 == BlocksOf(LastFunc(ModuleIR'))

Here(f) ==
  /\ errors = {} /\ Going(ModuleIR, todo, cur, loops) /\ Context(ModuleIR, decl, open, locals)
  /\ todo # <<>> /\ f = todo[1]

LEMMA WhereWeAre ==
  ASSUME NEW f, Here(f), f.step \notin DeclStep
  PROVE  /\ funcs # <<>> /\ Growing(ModuleIR, cur) /\ Top = f
         /\ FrameOK(f, RegsOf(Function), BlocksOf(Function))
         /\ Function \in FuncRecord /\ Function = LastFunc(ModuleIR) /\ ModuleIR.insts = insts
         /\ cur \in BlocksOf(Function)
         /\ todo \in Seq(Range(todo))
         /\ f.step \in Running => ~Whole(ModuleIR, CurrentOf(ModuleIR, cur))
         /\ f.step \in Switching => Whole(ModuleIR, CurrentOf(ModuleIR, cur))
<1>1. /\ ModuleIR.funcs # <<>> /\ Growing(ModuleIR, cur)
      /\ todo \in Seq(Range(todo)) /\ 1 \in DOMAIN todo
      /\ FrameOK(f, RegsOf(LastFunc(ModuleIR)), BlocksOf(LastFunc(ModuleIR)))
      /\ cur \in BlocksOf(LastFunc(ModuleIR)) /\ LastFunc(ModuleIR) \in FuncRecord
      /\ f.step \in Running => ~Whole(ModuleIR, CurrentOf(ModuleIR, cur))
      /\ f.step \in Switching => Whole(ModuleIR, CurrentOf(ModuleIR, cur))
  BY InFunction DEF Here
<1>2. LastFunc(ModuleIR) = Function /\ ModuleIR.funcs = funcs /\ ModuleIR.insts = insts
  BY DEF LastFunc, ModuleIR, Function, Last
<1>3. Top = f
  BY <1>1 DEF Top, Here
<1> QED
  BY <1>1, <1>2, <1>3

LEMMA Terminated ==
  ASSUME NEW f, Here(f), f.step \notin DeclStep
  PROVE  isCurrentBlockTerminated <=> Whole(ModuleIR, CurrentOf(ModuleIR, cur))
<1>1. Growing(ModuleIR, cur) /\ LastFunc(ModuleIR) = Function /\ Function \in FuncRecord /\ cur \in BlocksOf(Function)
  BY WhereWeAre
<1>2. CurrentOf(ModuleIR, cur) = blocks[Current]
  BY <1>1, Fields DEF CurrentOf, BlockOf, Current, ModuleIR, BlocksOf
<1>3. Spans(ModuleIR) /\ Straight(ModuleIR) /\ ModuleIR.funcs # <<>>
  BY <1>1 DEF Growing
<1>4. LastFunc(ModuleIR).first + (cur + 1) \in DOMAIN ModuleIR.blocks
  BY <1>1, <1>3, Layout
<1>5. CurrentOf(ModuleIR, cur) \in BlockRecord
  BY <1>3, <1>4, Within DEF CurrentOf, BlockOf
<1>6. CurrentOf(ModuleIR, cur) # EmptyBlock => CurrentOf(ModuleIR, cur).count > 0
  BY <1>3, <1>4 DEF Straight, CurrentOf, BlockOf
<1> DEFINE block == CurrentOf(ModuleIR, cur)
<1>7. isCurrentBlockTerminated <=> block.count > 0 /\ insts[block.begin + block.count].kind \in Terminators
  BY <1>2 DEF isCurrentBlockTerminated
<1> HIDE DEF block
<1>8. block # EmptyBlock <=> block.count > 0
  BY <1>6 DEF block, EmptyBlock
<1> QED
  BY <1>7, <1>8 DEF Whole, EndOf, ModuleIR, block

-----------------------------------------------------------------------------
(***************************************************************************)
(* The instructions.                                                       *)
(***************************************************************************)
\* An operand refers to what the function has.
Refers(func, slot) ==
  /\ slot.kind = "VReg"    => slot.value \in RegsOf(func)
  /\ slot.kind = "BlockId" => slot.value \in BlocksOf(func)

LEMMA OperandsRefer ==
  ASSUME NEW func
  PROVE  /\ Refers(func, Invalid)
         /\ \A r \in RegsOf(func) : Refers(func, VReg(r))
         /\ \A k \in BlocksOf(func) : Refers(func, Block(k))
         /\ \A v : Refers(func, Operand("ImmI64", v)) /\ Refers(func, Operand("StringId", v))
                     /\ Refers(func, Operand("ImmBool", v)) /\ Refers(func, Operand("ImmF64Bits", v))
         /\ Invalid.kind = "Invalid"
         /\ \A r : VReg(r).kind = "VReg" /\ VReg(r).value = r
         /\ \A k : Block(k).kind = "BlockId" /\ Block(k).value = k
BY DEF Refers, Invalid, VReg, Block, Operand

LEMMA InstIs ==
  ASSUME NEW func \in FuncRecord, NEW n, NEW kind, NEW dst, NEW a, NEW b, NEW c, NEW aux \in Nat, NEW waiting,
         Refers(func, dst), Refers(func, a), Refers(func, b), Refers(func, c),
         kind = "Free" => dst.kind = "VReg",
         kind = "Constant" /\ a.kind \in Immediate => lowerImmediateToValue(a) \in Value,
         kind = "LoadGlobal" => a.value \in NameId,
         kind = "Call" => IF b.kind = "VReg" THEN b.value + aux =< func.next_vreg ELSE aux = 0,
         kind = "Branch" => b.value >= n
  PROVE  InstOK(func, n, Inst(kind, dst, a, b, c, aux), waiting)
<1> DEFINE i == Inst(kind, dst, a, b, c, aux)
<1>1. i.kind = kind /\ i.dst = dst /\ i.a = a /\ i.b = b /\ i.c = c /\ i.aux = aux
  BY DEF Inst
<1> HIDE DEF i
<1>2. SlotsOfInst(i) = {dst, a, b, c}
  BY <1>1 DEF SlotsOfInst
<1>3. \A slot \in SlotsOfInst(i) : Refers(func, slot)
  BY <1>2
<1>4. RegsOf(func) \subseteq Nat /\ BlocksOf(func) \subseteq Nat
  BY Fields DEF RegsOf, BlocksOf
<1>5. \A slot \in SlotsOfInst(i) :
        /\ slot.kind = "VReg"    => slot.value \in RegsOf(func)
        /\ slot.kind = "BlockId" => slot.value \in BlocksOf(func)
  BY <1>3 DEF Refers
<1>6. \A slot \in SlotsOfInst(i) :
        /\ slot.kind = "VReg"    => slot.value \in Nat
        /\ slot.kind = "BlockId" => slot.value \in Nat \cup {Unset}
  BY <1>4, <1>5
<1>7. PromisedInst(func, n, i)
  BY <1>1, <1>6 DEF PromisedInst
<1> QED
  BY <1>1, <1>5, <1>7 DEF InstOK, i

\* The register an instruction writes is one it names.
LEMMA NamesResult ==
  ASSUME NEW i, i.kind \in DOMAIN mapBinaryOpcode
                             \cup {"Constant", "NewArray", "NewMap", "LoadGlobal", "Free", "Move", "Neg", "LogicNot",
                                   "GetIndex", "Call", "GetMember"}
  PROVE  i.dst \in NamedBy(i)
<1>1. CASE i.kind = "GetMember"
  BY <1>1 DEF NamedBy
<1>2. CASE i.kind # "GetMember"
  <2>1. 1 \in DOMAIN Registers(i) /\ Registers(i)[1] = i.dst
    <3>1. CASE i.kind \in {"Constant", "NewArray", "NewMap", "LoadGlobal", "Free"}
      BY <3>1, RegistersAre
    <3>2. CASE i.kind \in {"Move", "Neg", "LogicNot"}
      BY <3>2, RegistersAre
    <3>3. CASE i.kind \in DOMAIN mapBinaryOpcode \cup {"GetIndex"}
      BY <3>3, RegistersAre
    <3>4. CASE i.kind = "Call" /\ i.b.kind = "Invalid"
      BY <3>4, RegistersAre
    <3>5. CASE i.kind = "Call" /\ i.b.kind # "Invalid"
      BY <3>5, RegistersAre
    <3> QED
      BY <1>2, <3>1, <3>2, <3>3, <3>4, <3>5
  <2> QED
    BY <1>2, <2>1 DEF NamedBy
<1> QED
  BY <1>1, <1>2

\* What the builder makes of an instruction: it may stand in a block of the
\* function, and names its result.
Named(i, r) == i.dst = VReg(r) /\ VReg(r) \in NamedBy(i)

LEMMA MovesNames ==
  ASSUME NEW func \in FuncRecord, NEW n, NEW waiting, NEW r \in RegsOf(func), NEW a \in RegsOf(func)
  PROVE  /\ InstOK(func, n, MoveRegToReg(r, a), waiting) /\ Named(MoveRegToReg(r, a), r)
         /\ MoveRegToReg(r, a).kind = "Move"
<1> DEFINE i == MoveRegToReg(r, a)
<1>1. i = Inst("Move", VReg(r), VReg(a), Invalid, Invalid, 0) /\ i.kind = "Move" /\ i.dst = VReg(r)
  BY DEF MoveRegToReg, Inst
<1> HIDE DEF i
<1>2. InstOK(func, n, i, waiting)
  BY <1>1, InstIs, OperandsRefer
<1>3. VReg(r) \in NamedBy(i)
  BY <1>1, NamesResult
<1> QED
  BY <1>1, <1>2, <1>3 DEF i, Named

LEMMA Constants ==
  ASSUME NEW func \in FuncRecord, NEW n, NEW waiting, NEW r \in RegsOf(func), NEW a,
         a = Invalid \/ \E kind \in Immediate : \E v : a = Operand(kind, v) /\ lowerImmediateToValue(a) \in Value
  PROVE  /\ InstOK(func, n, Constant(r, a), waiting) /\ Named(Constant(r, a), r)
         /\ Constant(r, a).kind = "Constant"
<1> DEFINE i == Constant(r, a)
<1>1. i = Inst("Constant", VReg(r), a, Invalid, Invalid, 0) /\ i.kind = "Constant" /\ i.dst = VReg(r)
  BY DEF Constant, Inst
<1> HIDE DEF i
<1>2. Refers(func, a) /\ (a.kind \in Immediate => lowerImmediateToValue(a) \in Value)
  BY OperandsRefer DEF Immediate, Operand, Invalid, Refers
<1>3. InstOK(func, n, i, waiting)
  BY <1>1, <1>2, InstIs, OperandsRefer
<1>4. VReg(r) \in NamedBy(i)
  BY <1>1, NamesResult
<1> QED
  BY <1>1, <1>3, <1>4 DEF i, Named

LEMMA Binaries ==
  ASSUME NEW func \in FuncRecord, NEW n, NEW waiting, NEW r \in RegsOf(func), NEW a \in RegsOf(func),
         NEW b \in RegsOf(func), NEW kind \in DOMAIN mapBinaryOpcode \cup {"GetIndex"}
  PROVE  /\ InstOK(func, n, BinaryReg(kind, r, a, b), waiting) /\ Named(BinaryReg(kind, r, a, b), r)
         /\ BinaryReg(kind, r, a, b).kind \notin Terminators
<1> DEFINE i == BinaryReg(kind, r, a, b)
<1>1. i = Inst(kind, VReg(r), VReg(a), VReg(b), Invalid, 0) /\ i.kind = kind /\ i.dst = VReg(r)
  BY DEF BinaryReg, Inst
<1> HIDE DEF i
<1>2. kind \notin Terminators \cup {"Free", "Constant", "LoadGlobal", "Call", "Branch"}
  BY BinaryKinds DEF Terminators
<1>3. InstOK(func, n, i, waiting)
  BY <1>1, <1>2, InstIs, OperandsRefer
<1>4. VReg(r) \in NamedBy(i)
  BY <1>1, NamesResult
<1> QED
  BY <1>1, <1>2, <1>3, <1>4 DEF i, Named

LEMMA Unaries ==
  ASSUME NEW func \in FuncRecord, NEW n, NEW waiting, NEW r \in RegsOf(func), NEW a \in RegsOf(func),
         NEW kind \in {"Move", "Neg", "LogicNot"}
  PROVE  /\ InstOK(func, n, UnaryReg(kind, r, a), waiting) /\ Named(UnaryReg(kind, r, a), r)
         /\ UnaryReg(kind, r, a).kind \notin Terminators
<1> DEFINE i == UnaryReg(kind, r, a)
<1>1. i = Inst(kind, VReg(r), VReg(a), Invalid, Invalid, 0) /\ i.kind = kind /\ i.dst = VReg(r)
  BY DEF UnaryReg, Inst
<1> HIDE DEF i
<1>2. InstOK(func, n, i, waiting)
  BY <1>1, InstIs, OperandsRefer
<1>3. VReg(r) \in NamedBy(i)
  BY <1>1, NamesResult
<1> QED
  BY <1>1, <1>2, <1>3 DEF i, Named, Terminators

\* An instruction without result.
LEMMA Effects ==
  ASSUME NEW func \in FuncRecord, NEW n, NEW waiting, NEW a \in RegsOf(func), NEW b \in RegsOf(func),
         NEW c \in RegsOf(func)
  PROVE  /\ InstOK(func, n, Inst("PushArray", Invalid, VReg(a), VReg(b), Invalid, 0), waiting)
         /\ InstOK(func, n, Inst("SetMap", Invalid, VReg(a), VReg(b), VReg(c), 0), waiting)
         /\ InstOK(func, n, FreeReg(a), waiting)
         /\ InstOK(func, n, ReturnValue(VReg(a)), waiting)
         /\ InstOK(func, n, ReturnValue(Invalid), waiting)
         /\ FreeReg(a).kind = "Free" /\ ReturnValue(VReg(a)).kind = "Return" /\ ReturnValue(Invalid).kind = "Return"
<1>1. InstOK(func, n, Inst("PushArray", Invalid, VReg(a), VReg(b), Invalid, 0), waiting)
  BY InstIs, OperandsRefer
<1>2. InstOK(func, n, Inst("SetMap", Invalid, VReg(a), VReg(b), VReg(c), 0), waiting)
  BY InstIs, OperandsRefer
<1>3. InstOK(func, n, Inst("Free", VReg(a), Invalid, Invalid, Invalid, 0), waiting)
  BY InstIs, OperandsRefer
<1>4. InstOK(func, n, Inst("Return", Invalid, VReg(a), Invalid, Invalid, 0), waiting)
  BY InstIs, OperandsRefer
<1>5. InstOK(func, n, Inst("Return", Invalid, Invalid, Invalid, Invalid, 0), waiting)
  BY InstIs, OperandsRefer
<1> QED
  BY <1>1, <1>2, <1>3, <1>4, <1>5 DEF FreeReg, ReturnValue, Inst

LEMMA ReturnsNothing ==
  ASSUME NEW func \in FuncRecord, NEW n, NEW waiting
  PROVE  InstOK(func, n, ReturnValue(Invalid), waiting) /\ ReturnValue(Invalid).kind = "Return"
<1>1. InstOK(func, n, Inst("Return", Invalid, Invalid, Invalid, Invalid, 0), waiting)
  BY InstIs, OperandsRefer
<1> QED
  BY <1>1 DEF ReturnValue, Inst

LEMMA Jumps ==
  ASSUME NEW func \in FuncRecord, NEW n \in Nat, NEW waiting, NEW k \in BlocksOf(func)
  PROVE  /\ InstOK(func, n, JumpToBlock(k), waiting) /\ JumpToBlock(k).kind = "Jump"
         /\ \A cond \in RegsOf(func), z \in BlocksOf(func) : k >= n =>
              InstOK(func, n, BranchOnReg(cond, k, z), waiting) /\ BranchOnReg(cond, k, z).kind = "Branch"
<1>1. InstOK(func, n, Inst("Jump", Invalid, Block(k), Invalid, Invalid, 0), waiting)
  BY InstIs, OperandsRefer
<1>2. ASSUME NEW cond \in RegsOf(func), NEW z \in BlocksOf(func), k >= n
      PROVE  InstOK(func, n, Inst("Branch", Invalid, VReg(cond), Block(k), Block(z), 0), waiting)
  <2>1. Refers(func, Block(k)) /\ Refers(func, Block(z)) /\ Refers(func, VReg(cond)) /\ Refers(func, Invalid)
    BY OperandsRefer
  <2>2. Block(k).value >= n
    BY <1>2 DEF Block, Operand
  <2> QED
    BY <2>1, <2>2, InstIs
<1> QED
  BY <1>1, <1>2 DEF JumpToBlock, BranchOnReg, Inst

LEMMA Makers ==
  ASSUME NEW func \in FuncRecord, NEW n, NEW waiting, NEW r \in RegsOf(func), NEW size \in Nat,
         NEW kind \in {"NewArray", "NewMap"}
  PROVE  LET i == Inst(kind, VReg(r), Invalid, Invalid, Invalid, size) IN
         InstOK(func, n, i, waiting) /\ Named(i, r) /\ i.kind = kind
<1> DEFINE i == Inst(kind, VReg(r), Invalid, Invalid, Invalid, size)
<1>1. InstOK(func, n, i, waiting)
  BY InstIs, OperandsRefer
<1>2. i.dst = VReg(r) /\ i.kind = kind
  BY DEF Inst
<1> HIDE DEF i
<1>3. i.dst \in NamedBy(i)
  BY <1>2, NamesResult
<1> QED
  BY <1>1, <1>2, <1>3 DEF Named, i

LEMMA Globals ==
  ASSUME NEW func \in FuncRecord, NEW n, NEW waiting, NEW r \in RegsOf(func), NEW name \in NameId
  PROVE  LET i == Inst("LoadGlobal", VReg(r), Operand("ImmI64", name), Invalid, Invalid, 0) IN
         InstOK(func, n, i, waiting) /\ Named(i, r) /\ i.kind = "LoadGlobal"
<1> DEFINE i == Inst("LoadGlobal", VReg(r), Operand("ImmI64", name), Invalid, Invalid, 0)
<1>1. InstOK(func, n, i, waiting)
  <2>1. Operand("ImmI64", name).value = name
    BY DEF Operand
  <2> QED
    BY <2>1, InstIs, OperandsRefer
<1>2. i.dst = VReg(r) /\ i.kind = "LoadGlobal"
  BY DEF Inst
<1> HIDE DEF i
<1>3. i.dst \in NamedBy(i)
  BY <1>2, NamesResult
<1> QED
  BY <1>1, <1>2, <1>3 DEF Named, i

LEMMA Members ==
  ASSUME NEW func \in FuncRecord, NEW n, NEW waiting, NEW r \in RegsOf(func), NEW a \in RegsOf(func), NEW v
  PROVE  LET i == Inst("GetMember", VReg(r), VReg(a), Operand("StringId", v), Invalid, 0) IN
         InstOK(func, n, i, waiting) /\ Named(i, r) /\ i.kind = "GetMember"
<1> DEFINE i == Inst("GetMember", VReg(r), VReg(a), Operand("StringId", v), Invalid, 0)
<1>1. InstOK(func, n, i, waiting)
  BY InstIs, OperandsRefer
<1>2. i.dst = VReg(r) /\ i.kind = "GetMember"
  BY DEF Inst
<1> HIDE DEF i
<1>3. i.dst \in NamedBy(i)
  BY <1>2, NamesResult
<1> QED
  BY <1>1, <1>2, <1>3 DEF Named, i

-----------------------------------------------------------------------------
(***************************************************************************)
(* Steps that stay in their block.                                         *)
(***************************************************************************)
LEMMA FillsNothing ==
  ASSUME NEW ir, NEW ir2, NEW c, NEW pending
  PROVE  Fills(ir, ir2, c, <<>>, pending)
BY DEF Fills

LEMMA FillsOne ==
  ASSUME NEW ir, NEW ir2, NEW c, NEW pending, ~Whole(ir, CurrentOf(ir, c)), NEW i,
         \A waiting \in BOOLEAN : InstOK(LastFunc(ir2), c + 1, i, waiting)
  PROVE  Fills(ir, ir2, c, <<i>>, pending)
<1>1. DOMAIN <<i>> = {1} /\ <<i>>[1] = i /\ Len(<<i>>) = 1
  BY One
<1>2. (Len(ir.insts) + 1 \in pending) \in BOOLEAN
  OBVIOUS
<1>3. InstOK(LastFunc(ir2), c + 1, i, Len(ir.insts) + 1 \in pending)
  BY <1>2
<1> QED
  BY <1>1, <1>3 DEF Fills

LEMMA FillsTwo ==
  ASSUME NEW ir, NEW ir2, NEW c, NEW pending, ~Whole(ir, CurrentOf(ir, c)), NEW i, NEW j, i.kind \notin Terminators,
         \A waiting \in BOOLEAN : InstOK(LastFunc(ir2), c + 1, i, waiting) /\ InstOK(LastFunc(ir2), c + 1, j, waiting)
  PROVE  Fills(ir, ir2, c, <<i, j>>, pending)
<1> DEFINE is == <<i, j>>
<1>1. DOMAIN is = {1, 2} /\ is[1] = i /\ is[2] = j /\ Len(is) = 2
  BY Two
<1> HIDE DEF is
<1>2. ASSUME NEW k \in DOMAIN is
      PROVE  /\ is[k].kind \in Terminators => k = Len(is)
             /\ InstOK(LastFunc(ir2), c + 1, is[k], Len(ir.insts) + k \in pending)
  <2> DEFINE waits == Len(ir.insts) + k \in pending
  <2>1. waits \in BOOLEAN
    OBVIOUS
  <2> HIDE DEF waits
  <2>2. InstOK(LastFunc(ir2), c + 1, is[k], waits)
    BY <1>1, <2>1
  <2> QED
    BY <1>1, <2>2 DEF waits
<1> QED
  BY <1>2 DEF Fills, is

\* The blocks the function has after a step that makes none.
LEMMA NoNewBlocks ==
  ASSUME NEW ir, NEW ir2, NEW c, NEW fresh, NEW is, Growing(ir, c), Grown(ir, ir2, c, fresh, 0, is)
  PROVE  NewBlocks(ir, ir2) = {}
<1>1. FuncsGrow(ir, ir2, fresh, 0) /\ LastFunc(ir) \in FuncRecord
  BY GrownFuncs, Layout DEF Growing
<1> QED
  BY <1>1, Fields DEF FuncsGrow, NewBlocks, BlocksOf

\* A step that is about neither loops nor other blocks.
Straightforward(cs, f) ==
  /\ f.step \notin Switching \cup {"Loop"} \cup DeclStep
  /\ \A k \in DOMAIN cs : /\ cs[k].step \notin Switching \cup {"Loop"}
                          /\ f.step \in ExprStep => cs[k].step \in ExprStep

NextFits(ir, c, f, cs) ==
  /\ cs # <<>> => Fits(ir, c, cs[1].step)
  /\ cs = <<>> => /\ f.step \in Outermost => Whole(ir, CurrentOf(ir, c))
                  /\ \A next \in Callers(f.step) : Fits(ir, c, next)

LEMMA PlainGoesOn ==
  ASSUME NEW ir, NEW ir2, NEW s, NEW cs, NEW c, NEW ls, NEW fresh, NEW is, NEW f,
         Going(ir, s, c, ls), s # <<>>, f = s[1], Straightforward(cs, f),
         Grown(ir, ir2, c, fresh, 0, is), Fills(ir, ir2, c, is, Pending(ls)),
         Replaces(cs, f, RegsOf(LastFunc(ir2)), BlocksOf(LastFunc(ir2)), {}),
         Settles(ir, ir2, f, cs, is), NextFits(ir2, c, f, cs)
  PROVE  Going(ir2, cs \o Tail(s), c, ls)
<1>1. s[1].step \notin DeclStep
  BY DEF Straightforward
<1>2. /\ ir.funcs # <<>> /\ Growing(ir, c)
      /\ Stack(s, RegsOf(LastFunc(ir)), BlocksOf(LastFunc(ir))) /\ s \in Seq(Range(s)) /\ 1 \in DOMAIN s
      /\ c \in BlocksOf(LastFunc(ir))
  BY <1>1, InFunction
<1>3. NewBlocks(ir, ir2) = {}
  BY <1>2, NoNewBlocks
<1>4. cs \in Seq(Range(cs))
  BY DEF Replaces
<1>5. /\ ViewsGrow(ir, ir2, c, is) /\ InstsGrow(ir, ir2, is) /\ FuncsGrow(ir, ir2, fresh, 0)
  BY <1>2, GrownViews, GrownTables, GrownFuncs
<1>6. BlocksOf(LastFunc(ir)) \subseteq BlocksOf(LastFunc(ir2)) /\ ir2.funcs # <<>>
  BY <1>5 DEF ViewsGrow, FuncsGrow
<1>7. Targets(f) = {} /\ \A k \in DOMAIN cs : Targets(cs[k]) = {}
  BY DEF Straightforward, Targets, Switching
<1>8. AllTargets(cs) = {}
  BY <1>7 DEF AllTargets
<1>9. Turns(ir, ir2, c, f, cs, c)
  BY <1>3, <1>7, <1>8 DEF Turns
<1>10. Conditions(s, c) /\ Nesting(s, Len(ls)) /\ OpenLoops(ls, ir.insts, BlocksOf(LastFunc(ir)))
  BY DEF Going
<1>11. Conditions(cs \o Tail(s), c)
  <2>1. \A k \in DOMAIN cs : cs[k].step # "Loop"
    BY DEF Straightforward
  <2>2. s[1].step \in ExprStep => \A k \in DOMAIN cs : cs[k].step \in ExprStep
    BY DEF Straightforward
  <2> QED
    BY <1>2, <1>4, <1>10, <2>1, <2>2, ConditionsGoOn
<1>12. Nesting(cs \o Tail(s), Len(ls))
  <2>1. ~IsLoop(s[1]) /\ \A k \in DOMAIN cs : ~IsLoop(cs[k])
    BY DEF Straightforward, IsLoop, Switching
  <2>2. /\ \A k \in DOMAIN cs : IsLoop(cs[k]) => IsLoop(s[1]) /\ cs[k].arg[2] = s[1].arg[2]
        /\ \A j, k \in DOMAIN cs : IsLoop(cs[j]) /\ IsLoop(cs[k]) => j = k
        /\ IsLoop(s[1]) => \E k \in DOMAIN cs : IsLoop(cs[k])
    BY <2>1
  <2> DEFINE n == Len(ls)
  <2>3. Nesting(s, n)
    BY <1>10
  <2> HIDE DEF n
  <2>4. Nesting(cs \o Tail(s), n)
    BY <1>2, <1>4, <2>2, <2>3, NestingGoesOn
  <2> QED
    BY <2>4 DEF n
<1>13. OpenLoops(ls, ir2.insts, BlocksOf(LastFunc(ir2)))
  BY <1>5, <1>6, <1>10, LoopsStay
<1>14. Position(ir2, cs \o Tail(s), c)
  BY <1>2, <1>4, <1>6, Positioned DEF NextFits
<1>15. Replaces(cs, s[1], RegsOf(LastFunc(ir2)), BlocksOf(LastFunc(ir2)), NewBlocks(ir, ir2))
  BY <1>3
<1> QED
  BY <1>1, <1>9, <1>11, <1>12, <1>13, <1>14, <1>15, CodeGoesOn

-----------------------------------------------------------------------------
(***************************************************************************)
(* What the actions have in common.                                        *)
(***************************************************************************)
\* The function after new registers, blocks and instructions.
After(fresh, more, is) ==
  LET func == LastFunc(ModuleIR') IN
  /\ Grown(ModuleIR, ModuleIR', cur, fresh, more, is)
  /\ func \in FuncRecord
  /\ func.next_vreg = Fresh + fresh /\ func.count = NewBlock + more /\ func.arity = Function.arity
  /\ RegsOf(Function) \subseteq RegsOf(func) /\ BlocksOf(Function) \subseteq BlocksOf(func)
  /\ RegsOf(func) = 0..(Fresh + fresh - 1) /\ BlocksOf(func) = 0..(NewBlock + more - 1)
  /\ Fresh \in Nat /\ NewBlock \in Nat /\ NewBlock > 0
  /\ RegsOf(Function) = 0..(Fresh - 1) /\ BlocksOf(Function) = 0..(NewBlock - 1)

LEMMA GrownAfter ==
  ASSUME NEW f, Here(f), f.step \notin DeclStep, NEW fresh \in Nat, NEW more \in Nat, NEW is,
         Grown(ModuleIR, ModuleIR', cur, fresh, more, is)
  PROVE  After(fresh, more, is)
<1>1. Growing(ModuleIR, cur) /\ Function \in FuncRecord /\ Function = LastFunc(ModuleIR) /\ cur \in BlocksOf(Function)
  BY WhereWeAre
<1>2. FuncsGrow(ModuleIR, ModuleIR', fresh, more) /\ ViewsGrow(ModuleIR, ModuleIR', cur, is)
  BY <1>1, GrownFuncs, GrownViews
<1> DEFINE func == LastFunc(ModuleIR')
<1>3. /\ func \in FuncRecord /\ func.arity = Function.arity
      /\ func.next_vreg = Fresh + fresh /\ func.count = NewBlock + more
  BY <1>1, <1>2 DEF FuncsGrow, Fresh, NewBlock
<1>4. RegsOf(Function) \subseteq RegsOf(func) /\ BlocksOf(Function) \subseteq BlocksOf(func)
  BY <1>1, <1>2 DEF ViewsGrow
<1>5. Fresh \in Nat /\ NewBlock \in Nat
  BY <1>1, Fields DEF Fresh, NewBlock
<1>6. NewBlock > 0
  <2>1. LastFunc(ModuleIR).count > 0
    BY <1>1, Layout DEF Growing
  <2> QED
    BY <1>1, <2>1 DEF NewBlock
<1>7. RegsOf(func) = 0..(Fresh + fresh - 1) /\ BlocksOf(func) = 0..(NewBlock + more - 1)
  <2> HIDE DEF func
  <2>1. func.next_vreg = Fresh + fresh /\ func.count = NewBlock + more
    BY <1>3
  <2> QED
    BY <1>5, <2>1 DEF RegsOf, BlocksOf
<1>8. RegsOf(Function) = 0..(Fresh - 1) /\ BlocksOf(Function) = 0..(NewBlock - 1)
  BY DEF RegsOf, BlocksOf, Fresh, NewBlock
<1> QED
  BY <1>3, <1>4, <1>5, <1>6, <1>7, <1>8 DEF After

LEMMA EmitAfter ==
  ASSUME NEW f, Here(f), f.step \notin DeclStep, NEW fresh \in Nat, NEW more \in Nat, NEW is, is \in Seq(Range(is)),
         emit(fresh, more, is)
  PROVE  After(fresh, more, is)
<1>1. Grown(ModuleIR, ModuleIR', cur, fresh, more, is)
  BY EmitGrows
<1> QED
  BY <1>1, GrownAfter

LEMMA SameAfter ==
  ASSUME NEW f, Here(f), f.step \notin DeclStep, UNCHANGED code
  PROVE  After(0, 0, <<>>)
<1>1. Growing(ModuleIR, cur)
  BY WhereWeAre
<1>2. Same(ModuleIR, ModuleIR')
  BY DEF Same, ModuleIR, code
<1>3. Grown(ModuleIR, ModuleIR', cur, 0, 0, <<>>)
  BY <1>1, <1>2, SameGrows
<1> QED
  BY <1>3, GrownAfter

\* The instructions of an expression: each is right, and each new register is named.
Builds(fresh, is) ==
  /\ \A k \in DOMAIN is :
       /\ is[k].kind \notin Terminators
       /\ \A waiting \in BOOLEAN : InstOK(LastFunc(ModuleIR'), cur + 1, is[k], waiting)
  /\ \A r \in Fresh..(Fresh + fresh - 1) : \E k \in DOMAIN is : VReg(r) \in NamedBy(is[k])

LEMMA BuildsFills ==
  ASSUME NEW f, Here(f), f.step \in Running, NEW fresh, NEW is, Builds(fresh, is), After(fresh, 0, is), NEW pending
  PROVE  /\ Fills(ModuleIR, ModuleIR', cur, is, pending)
         /\ ~Whole(ModuleIR', CurrentOf(ModuleIR', cur))
<1>1. f.step \notin DeclStep
  BY DEF Running, ExprStep, StmtStep, DeclStep
<1>2. ~Whole(ModuleIR, CurrentOf(ModuleIR, cur)) /\ Growing(ModuleIR, cur)
  BY <1>1, WhereWeAre
<1>3. is \in Seq(Range(is)) /\ Grown(ModuleIR, ModuleIR', cur, fresh, 0, is)
  BY DEF After, Grown
<1>4. ASSUME NEW k \in DOMAIN is
      PROVE  /\ is[k].kind \in Terminators => k = Len(is)
             /\ InstOK(LastFunc(ModuleIR'), cur + 1, is[k], Len(ModuleIR.insts) + k \in pending)
  <2> DEFINE waits == Len(ModuleIR.insts) + k \in pending
  <2>1. waits \in BOOLEAN
    OBVIOUS
  <2> HIDE DEF waits
  <2>2. InstOK(LastFunc(ModuleIR'), cur + 1, is[k], waits)
    BY <2>1 DEF Builds
  <2>3. is[k].kind \notin Terminators
    BY DEF Builds
  <2> QED
    BY <2>2, <2>3 DEF waits
<1>5. Fills(ModuleIR, ModuleIR', cur, is, pending)
  BY <1>2, <1>4 DEF Fills
<1>6. ~Whole(ModuleIR', CurrentOf(ModuleIR', cur))
  <2>1. CASE is = <<>>
    BY <1>2, <1>3, <2>1, Endings
  <2>2. CASE is # <<>>
    <3>1. Len(is) \in DOMAIN is
      BY <1>3, <2>2
    <3>2. is[Len(is)].kind \notin Terminators
      BY <3>1 DEF Builds
    <3> QED
      BY <1>2, <1>3, <2>2, <3>2, Endings
  <2> QED
    BY <2>1, <2>2
<1> QED
  BY <1>5, <1>6

LEMMA ResultKeeps ==
  ASSUME NEW f, Here(f), f.step = "Expr", NEW fresh \in Nat, fresh > 0, NEW is, is \in Seq(Range(is)),
         Result(fresh, is), Builds(fresh, is)
  PROVE  BuildInv'
<1>1. f.step \notin DeclStep /\ f.step \in Running
  BY DEF DeclStep, Running, ExprStep
<1>2. emit(fresh, 0, is) /\ Yield(Fresh + fresh - 1) /\ UNCHANGED <<context, meta, errors, env>>
  BY DEF Result
<1>3. After(fresh, 0, is)
  BY <1>1, <1>2, EmitAfter
<1>4. Function = LastFunc(ModuleIR)
  BY <1>1, WhereWeAre
<1>5. Fills(ModuleIR, ModuleIR', cur, is, Pending(loops)) /\ ~Whole(ModuleIR', CurrentOf(ModuleIR', cur))
  BY <1>1, <1>3, BuildsFills
<1>6. Grown(ModuleIR, ModuleIR', cur, fresh, 0, is) /\ RegsOf(LastFunc(ModuleIR)) \subseteq RegsOf(LastFunc(ModuleIR'))
  BY <1>3, <1>4 DEF After
<1>7. Settles(ModuleIR, ModuleIR', todo[1], <<>>, is)
  <2>1. todo[1].step # "VarDecl"
    BY DEF Here
  <2>2. LastFunc(ModuleIR).next_vreg = Fresh /\ LastFunc(ModuleIR').next_vreg = Fresh + fresh
    BY <1>3, <1>4 DEF After, Fresh
  <2>3. ASSUME NEW r \in LastFunc(ModuleIR).next_vreg..(LastFunc(ModuleIR').next_vreg - 1)
        PROVE  \E k \in DOMAIN is : VReg(r) \in NamedBy(is[k])
    <3>1. r \in Fresh..(Fresh + fresh - 1)
      BY <1>3, <2>2, <2>3 DEF After
    <3> QED
      BY <3>1 DEF Builds
  <2> QED
    BY <2>1, <2>3 DEF Settles
<1>8. Fresh + fresh - 1 \in RegsOf(LastFunc(ModuleIR'))
  BY <1>3 DEF After
<1>9. todo' = Yielded(todo, Fresh + fresh - 1)
  BY <1>2 DEF Yield, Yielded
<1>10. Going(ModuleIR, todo, cur, loops) /\ todo # <<>> /\ todo[1].step \in {"Expr", "Deliver"}
  BY DEF Here
<1> DEFINE r == Fresh + fresh - 1
<1> HIDE DEF r
<1>11. Going(ModuleIR', todo', cur, loops)
  <2>1. r \in RegsOf(LastFunc(ModuleIR')) /\ todo' = Yielded(todo, r)
    BY <1>8, <1>9 DEF r
  <2> QED
    BY <1>5, <1>6, <1>7, <1>10, <2>1, CodeYields
<1>12. Context(ModuleIR', decl, open, locals)
  BY <1>6, ContextStays DEF Here
<1> QED
  BY <1>2, <1>11, <1>12 DEF BuildInv, context

\* A step that ends in these calls.
LEMMA PlainKeeps ==
  ASSUME NEW f, Here(f), NEW cs, Straightforward(cs, f), NEW fresh \in Nat, NEW is,
         After(fresh, 0, is), Fills(ModuleIR, ModuleIR', cur, is, Pending(loops)),
         Replaces(cs, f, Regs2, Blks2, {}),
         Settles(ModuleIR, ModuleIR', f, cs, is), NextFits(ModuleIR', cur, f, cs),
         Continue(cs), cur' = cur, loops' = loops, Context(ModuleIR', decl', open', locals')
  PROVE  BuildInv'
<1>1. Going(ModuleIR, todo, cur, loops) /\ todo # <<>> /\ f = todo[1]
  BY DEF Here
<1>2. Grown(ModuleIR, ModuleIR', cur, fresh, 0, is)
  BY DEF After
<1>3. Replaces(cs, f, RegsOf(LastFunc(ModuleIR')), BlocksOf(LastFunc(ModuleIR')), {})
  BY DEF Regs2, Blks2
<1>4. Going(ModuleIR', cs \o Tail(todo), cur, loops)
  BY <1>1, <1>2, <1>3, PlainGoesOn
<1> QED
  BY <1>4 DEF BuildInv, Continue

-----------------------------------------------------------------------------
(***************************************************************************)
(* The operands of a call.                                                 *)
(***************************************************************************)
LEMMA OperandsAreNodes ==
  ASSUME NEW f, NEW regs, NEW blks, FrameOK(f, regs, blks)
  PROVE  /\ Operands(f) \in Seq(Tree)
         /\ Operands(f) # <<>> => f.step \in {"Expr", "Element", "Pair"} \cup StmtStep
<1> DEFINE n == f.node
<1>1. Typed(n) /\ n \in Tree
  BY TreeAssumption DEF FrameOK
<1>2. CASE f.step = "Expr"
  <2>1. CASE n.node \in {"BinaryExpr", "LogicalExpr"}
    BY <1>1, <1>2, <2>1 DEF Operands, Typed
  <2>2. CASE n.node = "UnaryExpr"
    BY <1>1, <1>2, <2>2 DEF Operands, Typed
  <2>3. CASE n.node = "CallExpr"
    BY <1>1, <1>2, <2>3 DEF Operands, Typed
  <2>4. CASE n.node = "IndexExpr"
    BY <1>1, <1>2, <2>4 DEF Operands, Typed
  <2>5. CASE n.node = "MemberExpr"
    BY <1>1, <1>2, <2>5 DEF Operands, Typed
  <2>6. CASE n.node \notin {"BinaryExpr", "LogicalExpr", "UnaryExpr", "CallExpr", "IndexExpr", "MemberExpr"}
    <3>1. Operands(f) = <<>>
      BY <1>2, <2>6 DEF Operands
    <3> QED
      BY <1>2, <3>1
  <2> QED
    BY <1>2, <2>1, <2>2, <2>3, <2>4, <2>5, <2>6
<1>3. CASE f.step = "Element"
  BY <1>1, <1>3 DEF Operands, Typed, FrameOK
<1>4. CASE f.step = "Pair"
  <2>1. /\ n.node = "MapExpr" /\ f.arg[2] \in DOMAIN n.keys /\ Len(n.keys) = Len(n.values)
        /\ n.keys \in Seq(Tree) /\ n.values \in Seq(Tree)
    BY <1>1, <1>4 DEF Typed, FrameOK
  <2>2. f.arg[2] \in DOMAIN n.values
    BY <2>1
  <2>3. n.keys[f.arg[2]] \in Tree /\ n.values[f.arg[2]] \in Tree
    BY <2>1, <2>2
  <2> QED
    BY <1>4, <2>3 DEF Operands
<1>5. CASE f.step \in {"VarDecl", "Assign"}
  <2>1. CASE f.step = "VarDecl"
    BY <1>1, <2>1 DEF Operands, Typed, FrameOK, StmtStep
  <2>2. CASE f.step = "Assign"
    BY <1>1, <2>2 DEF Operands, Typed, FrameOK, StmtStep
  <2> QED
    BY <1>5, <2>1, <2>2
<1>6. CASE f.step = "Loop"
  BY <1>1, <1>6 DEF Operands, Typed, FrameOK, StmtStep
<1>7. CASE f.step = "Stmt"
  <2>1. CASE n.node \in {"ExpressionStmt", "IfStmt", "ReturnStmt"}
    BY <1>1, <1>7, <2>1 DEF Operands, Typed, StmtStep
  <2>2. CASE n.node \notin {"ExpressionStmt", "IfStmt", "ReturnStmt"}
    <3>1. Operands(f) = <<>>
      BY <1>7, <2>2 DEF Operands
    <3> QED
      BY <1>7, <3>1 DEF StmtStep
  <2> QED
    BY <2>1, <2>2
<1>8. CASE f.step \notin {"Expr", "Element", "Pair", "VarDecl", "Assign", "Loop", "Stmt"}
  <2>1. Operands(f) = <<>>
    BY <1>8 DEF Operands
  <2> QED
    BY <2>1
<1> QED
  BY <1>2, <1>3, <1>4, <1>5, <1>6, <1>7, <1>8

\* The registers of the operands that are built.
LEMMA GotAre ==
  ASSUME NEW f, Here(f), f.step \notin DeclStep, Len(f.got) = Len(Operands(f))
  PROVE  LET n == f.node IN
         /\ f.got \in Seq(RegsOf(Function))
         /\ f.step = "Expr" =>
              /\ n.node \in {"BinaryExpr", "LogicalExpr", "IndexExpr"} =>
                   f.got[1] \in RegsOf(Function) /\ f.got[2] \in RegsOf(Function)
              /\ n.node \in {"UnaryExpr", "MemberExpr", "CallExpr"} => f.got[1] \in RegsOf(Function)
              /\ n.node = "CallExpr" => Len(f.got) >= 1
         /\ f.step \in {"Element", "VarDecl", "Assign"} => f.got[1] \in RegsOf(Function)
         /\ f.step = "Pair" => f.got[1] \in RegsOf(Function) /\ f.got[2] \in RegsOf(Function)
         /\ f.step = "Loop" /\ IsValid(n.cond) => f.got[1] \in RegsOf(Function)
         /\ f.step = "Stmt" /\ n.node = "IfStmt" => f.got[1] \in RegsOf(Function)
<1> DEFINE regs == RegsOf(Function)
<1>1. f.got \in Seq(regs)
  BY WhereWeAre DEF FrameOK
<1> HIDE DEF regs
<1>2. Len(f.got) >= 1 => f.got[1] \in regs
  BY <1>1
<1>3. Len(f.got) = 2 => f.got[1] \in regs /\ f.got[2] \in regs
  BY <1>1
<1>4. f.step = "Expr" =>
        /\ f.node.node \in {"BinaryExpr", "LogicalExpr", "IndexExpr"} => Len(f.got) = 2
        /\ f.node.node \in {"UnaryExpr", "MemberExpr"} => Len(f.got) = 1
  BY DEF Operands
<1>5. f.step = "Expr" /\ f.node.node = "CallExpr" => Len(f.got) >= 1
  <2> SUFFICES ASSUME f.step = "Expr" /\ f.node.node = "CallExpr"
               PROVE  Len(f.got) >= 1
    OBVIOUS
  <2>1. Typed(f.node)
    BY WhereWeAre, TreeAssumption DEF FrameOK
  <2>2. f.node.args \in Seq(Tree) /\ Operands(f) = <<f.node.callee>> \o f.node.args
    BY <2>1 DEF Operands, Typed
  <2> QED
    BY <2>2
<1>6. f.step \in {"Element", "VarDecl", "Assign"} => Len(f.got) = 1
  BY DEF Operands
<1>7. f.step = "Pair" => Len(f.got) = 2
  BY DEF Operands
<1>8. /\ f.step = "Loop" /\ IsValid(f.node.cond) => Len(f.got) = 1
      /\ f.step = "Stmt" /\ f.node.node = "IfStmt" => Len(f.got) = 1
  BY DEF Operands
<1> QED
  BY <1>1, <1>2, <1>3, <1>4, <1>5, <1>6, <1>7, <1>8 DEF regs

-----------------------------------------------------------------------------
(***************************************************************************)
(* What replaces a call.                                                   *)
(***************************************************************************)
\* g comes before h, instead of f.
Ordered(g, h) == h.step \in Callers(g.step) /\ Targets(g) \cap Targets(h) = {}
                   /\ (g.step \in DeclStep => h.step \in DeclStep)

Instead(f, g, regs, blks, new) ==
  /\ FrameOK(g, regs, blks)
  /\ Targets(g) \subseteq Targets(f) \cup new
  /\ g.step \in DeclStep => f.step \in DeclStep

LastInstead(f, h) == (f.step \in Outermost => h.step \in Outermost) /\ Callers(f.step) \subseteq Callers(h.step)

LEMMA ReplacesNone ==
  ASSUME NEW f, NEW regs, NEW blks, NEW new
  PROVE  Replaces(<<>>, f, regs, blks, new)
BY None DEF Replaces

LEMMA ReplacesOne ==
  ASSUME NEW f, NEW g, NEW regs, NEW blks, NEW new, Instead(f, g, regs, blks, new), LastInstead(f, g)
  PROVE  Replaces(<<g>>, f, regs, blks, new)
<1> DEFINE c == <<g>>
<1>1. c \in Seq(Range(c)) /\ Len(c) = 1 /\ DOMAIN c = {1} /\ c[1] = g
  BY One
<1> HIDE DEF c
<1>2. \A j, k \in DOMAIN c : ~(j < k)
  BY <1>1
<1>3. ASSUME NEW k \in DOMAIN c
      PROVE  /\ FrameOK(c[k], regs, blks)
             /\ Targets(c[k]) \subseteq Targets(f) \cup new
             /\ c[k].step \in DeclStep => f.step \in DeclStep
             /\ IF k < Len(c) THEN c[k + 1].step \in Callers(c[k].step)
                              ELSE /\ f.step \in Outermost => c[k].step \in Outermost
                                   /\ Callers(f.step) \subseteq Callers(c[k].step)
  BY <1>1 DEF Instead, LastInstead
<1>4. Replaces(c, f, regs, blks, new)
  BY <1>1, <1>2, <1>3 DEF Replaces
<1> QED
  BY <1>4 DEF c

LEMMA ReplacesTwo ==
  ASSUME NEW f, NEW g, NEW h, NEW regs, NEW blks, NEW new,
         Instead(f, g, regs, blks, new), Instead(f, h, regs, blks, new), Ordered(g, h), LastInstead(f, h)
  PROVE  Replaces(<<g, h>>, f, regs, blks, new)
<1> DEFINE c == <<g, h>>
<1>1. c \in Seq(Range(c)) /\ Len(c) = 2 /\ DOMAIN c = {1, 2} /\ c[1] = g /\ c[2] = h
  BY Two
<1> HIDE DEF c
<1>2. ASSUME NEW j \in DOMAIN c, NEW k \in DOMAIN c, j < k
      PROVE  j = 1 /\ k = 2
  BY <1>1, <1>2
<1>3. \A j, k \in DOMAIN c : j < k => /\ Targets(c[j]) \cap Targets(c[k]) = {}
                                      /\ c[j].step \in DeclStep => c[k].step \in DeclStep
  BY <1>1, <1>2 DEF Ordered
<1>4. ASSUME NEW k \in DOMAIN c
      PROVE  /\ FrameOK(c[k], regs, blks)
             /\ Targets(c[k]) \subseteq Targets(f) \cup new
             /\ c[k].step \in DeclStep => f.step \in DeclStep
             /\ IF k < Len(c) THEN c[k + 1].step \in Callers(c[k].step)
                              ELSE /\ f.step \in Outermost => c[k].step \in Outermost
                                   /\ Callers(f.step) \subseteq Callers(c[k].step)
  <2>1. CASE k = 1
    BY <1>1, <2>1 DEF Instead, Ordered
  <2>2. CASE k = 2
    BY <1>1, <2>2 DEF Instead, LastInstead
  <2> QED
    BY <1>1, <2>1, <2>2
<1>5. Replaces(c, f, regs, blks, new)
  BY <1>1, <1>3, <1>4 DEF Replaces
<1> QED
  BY <1>5 DEF c

LEMMA ReplacesThree ==
  ASSUME NEW f, NEW g, NEW h, NEW i, NEW regs, NEW blks, NEW new,
         Instead(f, g, regs, blks, new), Instead(f, h, regs, blks, new), Instead(f, i, regs, blks, new),
         Ordered(g, h), Ordered(h, i), Targets(g) \cap Targets(i) = {}, LastInstead(f, i)
  PROVE  Replaces(<<g, h, i>>, f, regs, blks, new)
<1> DEFINE c == <<g, h, i>>
<1>1. /\ c \in Seq(Range(c)) /\ Len(c) = 3 /\ DOMAIN c = {1, 2, 3}
      /\ c[1] = g /\ c[2] = h /\ c[3] = i
  BY Three
<1> HIDE DEF c
<1>2. ASSUME NEW j \in DOMAIN c, NEW k \in DOMAIN c, j < k
      PROVE  (j = 1 /\ k = 2) \/ (j = 2 /\ k = 3) \/ (j = 1 /\ k = 3)
  BY <1>1, <1>2
<1>3. \A j, k \in DOMAIN c : j < k => /\ Targets(c[j]) \cap Targets(c[k]) = {}
                                      /\ c[j].step \in DeclStep => c[k].step \in DeclStep
  BY <1>1, <1>2 DEF Ordered
<1>4. ASSUME NEW k \in DOMAIN c
      PROVE  /\ FrameOK(c[k], regs, blks)
             /\ Targets(c[k]) \subseteq Targets(f) \cup new
             /\ c[k].step \in DeclStep => f.step \in DeclStep
             /\ IF k < Len(c) THEN c[k + 1].step \in Callers(c[k].step)
                              ELSE /\ f.step \in Outermost => c[k].step \in Outermost
                                   /\ Callers(f.step) \subseteq Callers(c[k].step)
  <2>1. CASE k = 1
    BY <1>1, <2>1 DEF Instead, Ordered
  <2>2. CASE k = 2
    BY <1>1, <2>2 DEF Instead, Ordered
  <2>3. CASE k = 3
    BY <1>1, <2>3 DEF Instead, LastInstead
  <2> QED
    BY <1>1, <2>1, <2>2, <2>3
<1>5. Replaces(c, f, regs, blks, new)
  BY <1>1, <1>3, <1>4 DEF Replaces
<1> QED
  BY <1>5 DEF c

\* A call without targets, in place of one that is no declaration's.
LEMMA FrameIs ==
  ASSUME NEW step_, NEW node, NEW arg
  PROVE  LET g == Frame(step_, node, arg) IN
         /\ g.step = step_ /\ g.node = node /\ g.arg = arg /\ g.got = <<>>
         /\ g = [step |-> g.step, node |-> g.node, arg |-> g.arg, got |-> g.got]
BY DEF Frame

LEMMA ErrorKeeps ==
  ASSUME NEW what, error(what)
  PROVE  BuildInv'
BY DEF error, BuildInv

LEMMA YieldKeeps ==
  ASSUME NEW f, Here(f), f.step \in {"Expr", "Deliver"}, NEW r \in RegsOf(Function), Yield(r),
         UNCHANGED <<code, context, meta, errors, env>>
  PROVE  BuildInv'
<1>1. f.step \notin DeclStep /\ f.step \in Running
  BY DEF DeclStep, Running, ExprStep
<1>2. After(0, 0, <<>>)
  BY <1>1, SameAfter
<1>3. Function = LastFunc(ModuleIR)
  BY <1>1, WhereWeAre
<1>4. Builds(0, <<>>)
  <2>1. Fresh \in Nat
    BY <1>2 DEF After
  <2>2. Fresh..(Fresh + 0 - 1) = {}
    BY <2>1
  <2> QED
    BY <2>2, None DEF Builds
<1>5. Fills(ModuleIR, ModuleIR', cur, <<>>, Pending(loops)) /\ ~Whole(ModuleIR', CurrentOf(ModuleIR', cur))
  BY <1>1, <1>2, <1>4, BuildsFills
<1>6. Grown(ModuleIR, ModuleIR', cur, 0, 0, <<>>) /\ RegsOf(LastFunc(ModuleIR)) \subseteq RegsOf(LastFunc(ModuleIR'))
  BY <1>2, <1>3 DEF After
<1>7. Settles(ModuleIR, ModuleIR', todo[1], <<>>, <<>>)
  <2>1. todo[1].step # "VarDecl"
    BY DEF Here
  <2>2. Fresh \in Nat /\ LastFunc(ModuleIR).next_vreg = Fresh /\ LastFunc(ModuleIR').next_vreg = Fresh + 0
    BY <1>2, <1>3 DEF After, Fresh
  <2>3. LastFunc(ModuleIR).next_vreg..(LastFunc(ModuleIR').next_vreg - 1) = {}
    BY <2>2
  <2> QED
    BY <2>1, <2>3 DEF Settles
<1>8. r \in RegsOf(LastFunc(ModuleIR'))
  BY <1>3, <1>6
<1>9. todo' = Yielded(todo, r)
  BY DEF Yield, Yielded
<1>10. Going(ModuleIR, todo, cur, loops) /\ todo # <<>> /\ todo[1].step \in {"Expr", "Deliver"}
  BY DEF Here
<1>11. Going(ModuleIR', todo', cur, loops)
  BY <1>5, <1>6, <1>7, <1>8, <1>9, <1>10, CodeYields
<1>12. Context(ModuleIR', decl, open, locals)
  BY <1>6, ContextStays DEF Here
<1> QED
  BY <1>11, <1>12 DEF BuildInv, context
-----------------------------------------------------------------------------
(***************************************************************************)
(* Expressions.                                                            *)
(***************************************************************************)
LEMMA TopIs ==
  ASSUME NEW f, Here(f)
  PROVE  Top = f
<1>1. todo \in Seq(Range(todo)) /\ todo # <<>> /\ f = todo[1]
  BY DEF Here, Going, Stack
<1> QED
  BY <1>1 DEF Top

\* An instruction that can be the one that yields a fresh register.
Makes(i) ==
  \A func \in FuncRecord : \A n, waiting : Fresh \in RegsOf(func) /\ RegsOf(Function) \subseteq RegsOf(func) =>
    InstOK(func, n, i, waiting) /\ Named(i, Fresh) /\ i.kind \notin Terminators

LEMMA ResultOne ==
  ASSUME NEW f, Here(f), f.step = "Expr", NEW i, Result(1, <<i>>), Makes(i)
  PROVE  BuildInv'
<1>1. f.step \notin DeclStep
  BY DEF DeclStep
<1>2. <<i>> \in Seq(Range(<<i>>)) /\ DOMAIN <<i>> = {1} /\ <<i>>[1] = i
  BY One
<1>3. After(1, 0, <<i>>)
  BY <1>1, <1>2, EmitAfter DEF Result
<1> DEFINE func == LastFunc(ModuleIR')
<1>4. func \in FuncRecord /\ Fresh \in RegsOf(func) /\ RegsOf(Function) \subseteq RegsOf(func) /\ Fresh \in Nat
  BY <1>3 DEF After
<1> HIDE DEF func
<1>5. \A waiting \in BOOLEAN : InstOK(func, cur + 1, i, waiting) /\ Named(i, Fresh) /\ i.kind \notin Terminators
  BY <1>4 DEF Makes
<1>6. Builds(1, <<i>>)
  <2>1. \A r \in Fresh..(Fresh + 1 - 1) : r = Fresh
    BY <1>4
  <2>2. VReg(Fresh) \in NamedBy(i) /\ i.kind \notin Terminators
    BY <1>5 DEF Named
  <2>3. \A waiting \in BOOLEAN : InstOK(LastFunc(ModuleIR'), cur + 1, i, waiting)
    BY <1>5 DEF func
  <2> QED
    BY <1>2, <2>1, <2>2, <2>3 DEF Builds
<1>7. 1 \in Nat /\ 1 > 0 /\ <<i>> \in Seq(Range(<<i>>))
  BY <1>2
<1> QED
  BY <1>6, <1>7, ResultKeeps

LEMMA LiteralKeeps ==
  ASSUME NEW f, Here(f), buildLiteral
  PROVE  BuildInv'
<1>1. f.step = "Expr" /\ f.node.node = "LiteralExpr" /\ Top = f
  BY TopIs DEF buildLiteral, DoingNode, Doing
<1> DEFINE n == f.node
<1>2. CASE n.type \in DOMAIN LiteralKind /\ Result(1, <<Constant(Fresh, Operand(LiteralKind[n.type], n.value))>>)
  <2> DEFINE a == Operand(LiteralKind[n.type], n.value)
  <2>1. f.step \notin DeclStep
    BY <1>1 DEF DeclStep
  <2>2. Typed(n)
    BY <2>1, WhereWeAre, TreeAssumption DEF FrameOK
  <2>3. lowerImmediateToValue(a) \in Value
    BY <1>1, <1>2, <2>2 DEF Typed
  <2>4. LiteralKind[n.type] \in Immediate
    BY <1>2 DEF LiteralKind, Immediate
  <2> HIDE DEF n
  <2>5. \E kind \in Immediate : \E v : a = Operand(kind, v) /\ lowerImmediateToValue(a) \in Value
    BY <2>3, <2>4
  <2> HIDE DEF a
  <2>6. Makes(Constant(Fresh, a))
    <3> SUFFICES ASSUME NEW func \in FuncRecord, NEW m, NEW waiting, Fresh \in RegsOf(func)
                 PROVE  /\ InstOK(func, m, Constant(Fresh, a), waiting) /\ Named(Constant(Fresh, a), Fresh)
                        /\ Constant(Fresh, a).kind \notin Terminators
      BY DEF Makes
    <3> QED
      BY <2>5, Constants DEF Terminators
  <2> QED
    BY <1>1, <1>2, <2>6, ResultOne DEF a
<1>3. CASE error("unsupported literal")
  BY <1>3, ErrorKeeps
<1> QED
  BY <1>1, <1>2, <1>3 DEF buildLiteral

LEMMA IdentifierKeeps ==
  ASSUME NEW f, Here(f), buildIdentifier
  PROVE  BuildInv'
<1>1. f.step = "Expr" /\ f.node.node = "IdentifierExpr" /\ Top = f
  BY TopIs DEF buildIdentifier, DoingNode, Doing
<1>2. f.step \notin DeclStep
  BY <1>1 DEF DeclStep
<1> DEFINE name == f.node.name
           i    == Inst("LoadGlobal", VReg(Fresh), Operand("ImmI64", name), Invalid, Invalid, 0)
<1>3. name \in NameId /\ Function = LastFunc(ModuleIR)
  BY <1>1, <1>2, WhereWeAre, TreeAssumption DEF FrameOK, Typed
<1>4. CASE name \in DOMAIN locals /\ Yield(locals[name]) /\ UNCHANGED <<code, context, meta, errors, env>>
  <2>1. locals[name] \in RegsOf(Function)
    BY <1>3, <1>4 DEF Here, Context
  <2> QED
    BY <1>1, <1>4, <2>1, YieldKeeps
<1>5. CASE Result(1, <<i>>)
  <2> HIDE DEF name
  <2>1. Makes(i)
    <3> SUFFICES ASSUME NEW func \in FuncRecord, NEW m, NEW waiting, Fresh \in RegsOf(func)
                 PROVE  InstOK(func, m, i, waiting) /\ Named(i, Fresh) /\ i.kind \notin Terminators
      BY DEF Makes
    <3>2. InstOK(func, m, i, waiting) /\ Named(i, Fresh)
      BY <1>3, Globals
    <3>3. i.kind \notin Terminators
      BY DEF Inst, Terminators
    <3> QED
      BY <3>2, <3>3
  <2> QED
    BY <1>1, <1>5, <2>1, ResultOne
<1>6. CASE error("unresolved identifier")
  BY <1>6, ErrorKeeps
<1> QED
  BY <1>1, <1>4, <1>5, <1>6 DEF buildIdentifier

LEMMA BinaryKeeps ==
  ASSUME NEW f, Here(f), buildBinary
  PROVE  BuildInv'
<1>1. /\ f.step = "Expr" /\ f.node.node \in {"BinaryExpr", "LogicalExpr"} /\ Top = f
      /\ Len(f.got) = Len(Operands(f))
  BY TopIs DEF buildBinary, DoingNode, Doing
<1>2. f.got[1] \in RegsOf(Function) /\ f.got[2] \in RegsOf(Function)
  <2>1. f.step \notin DeclStep
    BY <1>1 DEF DeclStep
  <2> QED
    BY <1>1, <2>1, GotAre
<1> DEFINE op == f.node.op
           i  == BinaryReg(BinaryInst[op], Fresh, f.got[1], f.got[2])
<1>3. CASE op \in DOMAIN BinaryInst /\ Result(1, <<i>>)
  <2>1. BinaryInst[op] \in DOMAIN mapBinaryOpcode
    BY <1>3 DEF BinaryInst, mapBinaryOpcode
  <2>2. Makes(i)
    <3> SUFFICES ASSUME NEW func \in FuncRecord, NEW m, NEW waiting, Fresh \in RegsOf(func),
                        RegsOf(Function) \subseteq RegsOf(func)
                 PROVE  InstOK(func, m, i, waiting) /\ Named(i, Fresh) /\ i.kind \notin Terminators
      BY DEF Makes
    <3> HIDE DEF op
    <3> QED
      BY <1>2, <2>1, Binaries
  <2> QED
    BY <1>1, <1>3, <2>2, ResultOne
<1>4. CASE error("unsupported binary operator")
  BY <1>4, ErrorKeeps
<1> QED
  BY <1>1, <1>3, <1>4 DEF buildBinary

LEMMA UnaryKeeps ==
  ASSUME NEW f, Here(f), buildUnary
  PROVE  BuildInv'
<1>1. f.step = "Expr" /\ f.node.node = "UnaryExpr" /\ Top = f /\ Len(f.got) = Len(Operands(f))
  BY TopIs DEF buildUnary, DoingNode, Doing
<1>2. f.got[1] \in RegsOf(Function)
  <2>1. f.step \notin DeclStep
    BY <1>1 DEF DeclStep
  <2> QED
    BY <1>1, <2>1, GotAre
<1> DEFINE op == f.node.op
           i  == UnaryReg(UnaryInst[op], Fresh, f.got[1])
<1>3. CASE op \in DOMAIN UnaryInst /\ Result(1, <<i>>)
  <2>1. UnaryInst[op] \in {"Move", "Neg", "LogicNot"}
    BY <1>3 DEF UnaryInst
  <2>2. Makes(i)
    <3> SUFFICES ASSUME NEW func \in FuncRecord, NEW m, NEW waiting, Fresh \in RegsOf(func),
                        RegsOf(Function) \subseteq RegsOf(func)
                 PROVE  InstOK(func, m, i, waiting) /\ Named(i, Fresh) /\ i.kind \notin Terminators
      BY DEF Makes
    <3> HIDE DEF op
    <3> QED
      BY <1>2, <2>1, Unaries
  <2> QED
    BY <1>1, <1>3, <2>2, ResultOne
<1>4. CASE error("unsupported unary operator")
  BY <1>4, ErrorKeeps
<1> QED
  BY <1>1, <1>3, <1>4 DEF buildUnary

LEMMA IndexKeeps ==
  ASSUME NEW f, Here(f), buildIndex
  PROVE  BuildInv'
<1> DEFINE i == BinaryReg("GetIndex", Fresh, f.got[1], f.got[2])
<1>1. /\ f.step = "Expr" /\ f.node.node = "IndexExpr" /\ Len(f.got) = Len(Operands(f))
      /\ Result(1, <<i>>)
  BY TopIs DEF buildIndex, DoingNode, Doing
<1>2. f.got[1] \in RegsOf(Function) /\ f.got[2] \in RegsOf(Function)
  <2>1. f.step \notin DeclStep
    BY <1>1 DEF DeclStep
  <2> QED
    BY <1>1, <2>1, GotAre
<1>3. Makes(i)
  <2> SUFFICES ASSUME NEW func \in FuncRecord, NEW m, NEW waiting, Fresh \in RegsOf(func),
                      RegsOf(Function) \subseteq RegsOf(func)
               PROVE  InstOK(func, m, i, waiting) /\ Named(i, Fresh) /\ i.kind \notin Terminators
    BY DEF Makes
  <2> QED
    BY <1>2, Binaries
<1> QED
  BY <1>1, <1>3, ResultOne

LEMMA MemberKeeps ==
  ASSUME NEW f, Here(f), buildMember
  PROVE  BuildInv'
<1> DEFINE i == Inst("GetMember", VReg(Fresh), VReg(f.got[1]), Operand("StringId", f.node.field), Invalid, 0)
<1>1. /\ f.step = "Expr" /\ f.node.node = "MemberExpr" /\ Len(f.got) = Len(Operands(f))
      /\ Result(1, <<i>>)
  BY TopIs DEF buildMember, DoingNode, Doing
<1>2. f.got[1] \in RegsOf(Function)
  <2>1. f.step \notin DeclStep
    BY <1>1 DEF DeclStep
  <2> QED
    BY <1>1, <2>1, GotAre
<1>3. Makes(i)
  <2> SUFFICES ASSUME NEW func \in FuncRecord, NEW m, NEW waiting, Fresh \in RegsOf(func),
                      RegsOf(Function) \subseteq RegsOf(func)
               PROVE  InstOK(func, m, i, waiting) /\ Named(i, Fresh) /\ i.kind \notin Terminators
    BY DEF Makes
  <2>1. f.got[1] \in RegsOf(func)
    BY <1>2
  <2>2. InstOK(func, m, i, waiting) /\ Named(i, Fresh)
    BY <2>1, Members
  <2>3. i.kind \notin Terminators
    BY DEF Inst, Terminators
  <2> QED
    BY <2>2, <2>3
<1> QED
  BY <1>1, <1>3, ResultOne

LEMMA DeliverKeeps ==
  ASSUME NEW f, Here(f), deliver
  PROVE  BuildInv'
<1>1. f.step = "Deliver" /\ Yield(f.arg[1]) /\ UNCHANGED <<code, context, meta, errors, env>>
  BY TopIs DEF deliver, Doing
<1>2. f.arg[1] \in RegsOf(Function)
  BY <1>1, WhereWeAre DEF FrameOK, DeclStep
<1> QED
  BY <1>1, <1>2, YieldKeeps

LEMMA Numbered ==
  ASSUME NEW n \in Nat, NEW s, s = [k \in 1..n |-> s[k]]
  PROVE  s \in Seq(Range(s)) /\ Len(s) = n /\ DOMAIN s = 1..n
<1>1. DOMAIN s = 1..n
  OBVIOUS
<1>2. \A k \in 1..n : s[k] \in Range(s)
  BY <1>1 DEF Range
<1> HIDE DEF Range
<1> QED
  BY <1>1, <1>2

Longer(s, x, t) ==
  /\ t \in Seq(Range(t)) /\ Len(t) = Len(s) + 1 /\ DOMAIN t = 1..(Len(s) + 1)
  /\ \A k \in DOMAIN s : t[k] = s[k]
  /\ t[Len(s) + 1] = x /\ Len(s) \in Nat /\ DOMAIN s = 1..Len(s) /\ t = Append(s, x)

LEMMA OneMore ==
  ASSUME NEW s, s \in Seq(Range(s)), NEW x
  PROVE  Longer(s, x, s \o <<x>>)
<1> DEFINE t == s \o <<x>>
<1> DEFINE S == Range(s) \cup {x}
<1>1. s \in Seq(S)
  BY RangeIs
<1> HIDE DEF S
<1>2. x \in S
  BY DEF S
<1>3. t \in Seq(S) /\ Len(t) = Len(s) + 1 /\ (\A k \in 1..Len(s) : t[k] = s[k]) /\ t[Len(s) + 1] = x /\ Len(s) \in Nat
  BY <1>1, <1>2
<1>4. t = Append(s, x)
  BY <1>1, <1>2
<1> HIDE DEF t
<1>5. t \in Seq(Range(t)) /\ DOMAIN t = 1..Len(t) /\ DOMAIN s = 1..Len(s)
  BY <1>1, <1>3, RangeIs
<1>6. DOMAIN t = 1..(Len(s) + 1)
  BY <1>3, <1>5
<1>7. \A k \in DOMAIN s : t[k] = s[k]
  BY <1>3, <1>5
<1>8. Len(t) = Len(s) + 1 /\ t[Len(s) + 1] = x /\ Len(s) \in Nat
  BY <1>3
<1>9. Longer(s, x, t)
  BY <1>4, <1>5, <1>6, <1>7, <1>8 DEF Longer
<1> QED
  BY <1>9 DEF t

LEMMA CallKeeps ==
  ASSUME NEW f, Here(f), buildCall
  PROVE  BuildInv'
<1>1. f.step = "Expr" /\ f.node.node = "CallExpr" /\ Top = f /\ Len(f.got) = Len(Operands(f))
  BY TopIs DEF buildCall, DoingNode, Doing
<1>2. f.step \notin DeclStep
  BY <1>1 DEF DeclStep
<1>3. f.got \in Seq(RegsOf(Function)) /\ Len(f.got) >= 1
  BY <1>1, <1>2, GotAre
<1> DEFINE n     == Len(f.got) - 1
           slot  == IF n = 0 THEN Invalid ELSE VReg(Fresh)
           moves == [k \in 1..n |-> MoveRegToReg(Fresh + k - 1, f.got[k + 1])]
           call  == Inst("Call", VReg(Fresh + n), VReg(f.got[1]), slot, Invalid, n)
           is    == moves \o <<call>>
<1>4. n \in Nat /\ f.got[1] \in RegsOf(Function) /\ \A k \in 1..n : f.got[k + 1] \in RegsOf(Function)
  BY <1>3
<1>5. Result(n + 1, is)
  BY <1>1 DEF buildCall
<1> HIDE DEF n
<1>6. moves \in Seq(Range(moves)) /\ Len(moves) = n /\ DOMAIN moves = 1..n
  <2>1. moves = [k \in 1..n |-> moves[k]]
    OBVIOUS
  <2> HIDE DEF moves
  <2> QED
    BY <1>4, <2>1, Numbered
<1>7. \A k \in 1..n : moves[k] = MoveRegToReg(Fresh + k - 1, f.got[k + 1])
  OBVIOUS
<1> HIDE DEF moves
<1> HIDE DEF is
<1>8. /\ is \in Seq(Range(is)) /\ DOMAIN is = 1..(n + 1)
      /\ \A k \in 1..n : is[k] = moves[k]
      /\ is[n + 1] = call
  <2>1. Longer(moves, call, is)
    BY <1>6, OneMore DEF is
  <2> HIDE DEF call
  <2> QED
    BY <1>6, <2>1 DEF Longer
<1> DEFINE func == LastFunc(ModuleIR')
<1>9. /\ func \in FuncRecord /\ func.next_vreg = Fresh + (n + 1) /\ Fresh \in Nat
      /\ RegsOf(Function) \subseteq RegsOf(func) /\ RegsOf(func) = 0..(Fresh + (n + 1) - 1)
  <2>1. n + 1 \in Nat
    BY <1>4
  <2>2. emit(n + 1, 0, is)
    BY <1>5 DEF Result
  <2>3. After(n + 1, 0, is)
    BY <1>2, <1>8, <2>1, <2>2, EmitAfter
  <2> QED
    BY <2>3 DEF After
<1> HIDE DEF func
<1> DEFINE Good(k) == /\ is[k].kind \notin Terminators
                      /\ \A waiting \in BOOLEAN : InstOK(func, cur + 1, is[k], waiting)
                      /\ VReg(Fresh + k - 1) \in NamedBy(is[k])
<1>10. ASSUME NEW k \in 1..n
       PROVE  Good(k)
  <2> DEFINE r == Fresh + k - 1
  <2>1. r \in RegsOf(func) /\ f.got[k + 1] \in RegsOf(func)
    BY <1>4, <1>9
  <2>2. is[k] = MoveRegToReg(r, f.got[k + 1])
    BY <1>7, <1>8
  <2> HIDE DEF r
  <2>3. /\ \A waiting \in BOOLEAN : InstOK(func, cur + 1, is[k], waiting)
        /\ Named(is[k], r) /\ is[k].kind = "Move"
    BY <1>9, <2>1, <2>2, MovesNames
  <2>4. VReg(r) \in NamedBy(is[k]) /\ is[k].kind \notin Terminators
    BY <2>3 DEF Named, Terminators
  <2> QED
    BY <2>3, <2>4 DEF r
<1>11. Good(n + 1)
  <2> DEFINE r == Fresh + n
  <2>1. r \in RegsOf(func) /\ f.got[1] \in RegsOf(func) /\ r = Fresh + (n + 1) - 1
    BY <1>4, <1>9
  <2>2. call.kind = "Call" /\ call.dst = VReg(r)
    BY DEF Inst
  <2>3. Refers(func, slot)
    BY <1>4, <1>9, OperandsRefer
  <2>4. IF slot.kind = "VReg" THEN slot.value + n =< func.next_vreg ELSE n = 0
    <3>1. CASE n = 0
      BY <3>1, OperandsRefer
    <3>2. CASE n # 0
      BY <1>4, <1>9, <3>2, OperandsRefer
    <3> QED
      BY <3>1, <3>2
  <2> HIDE DEF r, slot
  <2>5. ASSUME NEW waiting \in BOOLEAN
        PROVE  InstOK(func, cur + 1, call, waiting)
    <3>1. call = Inst("Call", VReg(r), VReg(f.got[1]), slot, Invalid, n)
      BY DEF r
    <3>2. Refers(func, VReg(r)) /\ Refers(func, VReg(f.got[1])) /\ Refers(func, Invalid)
      BY <2>1, OperandsRefer
    <3> HIDE DEF call
    <3> QED
      BY <1>4, <1>9, <2>3, <2>4, <3>1, <3>2, InstIs
  <2> HIDE DEF call
  <2>6. call.dst \in NamedBy(call)
    BY <2>2, NamesResult
  <2> QED
    BY <1>8, <2>1, <2>2, <2>5, <2>6 DEF r, Terminators
<1>12. \A k \in 1..(n + 1) : Good(k)
  BY <1>4, <1>10, <1>11
<1>13. Builds(n + 1, is)
  <2>1. ASSUME NEW r \in Fresh..(Fresh + (n + 1) - 1)
        PROVE  \E k \in DOMAIN is : VReg(r) \in NamedBy(is[k])
    <3> DEFINE z == r - Fresh + 1
    <3>1. z \in 1..(n + 1) /\ r = Fresh + z - 1
      BY <1>4, <1>9
    <3> HIDE DEF z
    <3> QED
      BY <1>8, <1>12, <3>1
  <2> QED
    BY <1>8, <1>12, <2>1 DEF Builds, func
<1>14. n + 1 \in Nat /\ n + 1 > 0
  BY <1>4
<1> QED
  BY <1>1, <1>5, <1>8, <1>13, <1>14, ResultKeeps

-----------------------------------------------------------------------------
(***************************************************************************)
(* Calls that end with a step.                                             *)
(***************************************************************************)
LEMMA CallersFit ==
  ASSUME NEW ir, NEW c, NEW f
  PROVE  /\ f.step \in StmtStep \cup {"InBlock", "LeaveBlock"} => NextFits(ir, c, f, <<>>)
         /\ f.step \in {"Element", "Pair", "Frees"} /\ ~Whole(ir, CurrentOf(ir, c)) => NextFits(ir, c, f, <<>>)
         /\ f.step \in {"Leave", "JumpOn"} /\ Whole(ir, CurrentOf(ir, c)) => NextFits(ir, c, f, <<>>)
<1> DEFINE whole == Whole(ir, CurrentOf(ir, c))
<1>1. CASE f.step \in StmtStep \cup {"InBlock", "LeaveBlock"}
  <2>1. Callers(f.step) = EitherWay /\ f.step \notin Outermost
    BY <1>1, CallersAre DEF Outermost, DeclStep, StmtStep
  <2>2. \A next \in EitherWay : Fits(ir, c, next)
    BY DEF Fits, EitherWay, Running, Switching, ExprStep, StmtStep, DeclStep
  <2> QED
    BY <1>1, <2>1, <2>2 DEF NextFits, StmtStep
<1>2. CASE f.step \in {"Element", "Pair", "Frees"} /\ ~whole
  <2>1. /\ Callers(f.step) \subseteq {"Element", "Pair", "Deliver", "Frees", "Leave"} \cup EitherWay
        /\ f.step \notin Outermost
    BY <1>2, CallersAre DEF Outermost, DeclStep
  <2>2. \A next \in {"Element", "Pair", "Deliver", "Frees", "Leave"} \cup EitherWay : Fits(ir, c, next)
    BY <1>2 DEF Fits, EitherWay, Running, Switching, ExprStep, StmtStep, DeclStep
  <2> QED
    BY <1>2, <2>1, <2>2 DEF NextFits, StmtStep
<1>3. CASE f.step \in {"Leave", "JumpOn"} /\ whole
  <2>1. Callers(f.step) \subseteq EitherWay \cup DeclStep \cup Switching
    BY <1>3, CallersAre
  <2>2. \A next \in EitherWay \cup DeclStep \cup Switching : Fits(ir, c, next)
    BY <1>3 DEF Fits, EitherWay, Running, Switching, ExprStep, StmtStep, DeclStep
  <2> QED
    BY <1>3, <2>1, <2>2 DEF NextFits, StmtStep
<1> QED
  BY <1>1, <1>2, <1>3

LEMMA EndingIs ==
  ASSUME NEW f, Here(f), EndCall
  PROVE  Continue(<<>>)
<1>1. todo \in Seq(Range(todo)) /\ todo # <<>>
  BY DEF Here, Going, Stack
<1>2. <<>> \o Tail(todo) = Tail(todo)
  BY <1>1
<1> QED
  BY <1>2 DEF EndCall, Continue

\* A call that ends has built a variable it was to initialize.
LEMMA EndKeeps ==
  ASSUME NEW f, Here(f), f.step \notin Switching \cup {"Loop"} \cup DeclStep, EndCall,
         NEW fresh \in Nat, NEW is,
         After(fresh, 0, is), Fills(ModuleIR, ModuleIR', cur, is, Pending(loops)),
         Settles(ModuleIR, ModuleIR', f, <<>>, is),
         NextFits(ModuleIR', cur, f, <<>>),
         cur' = cur, loops' = loops, Context(ModuleIR', decl', open', locals')
  PROVE  BuildInv'
<1>1. Continue(<<>>)
  BY EndingIs
<1>2. Replaces(<<>>, f, Regs2, Blks2, {})
  BY ReplacesNone
<1>3. Straightforward(<<>>, f)
  BY DEF Straightforward
<1> QED
  BY <1>1, <1>2, <1>3, PlainKeeps

\* No register is new.
LEMMA NothingFresh ==
  ASSUME NEW f, Here(f), f.step \notin DeclStep, NEW more \in Nat, NEW is, After(0, more, is), NEW cs,
         f.step = "VarDecl" => f.arg[1] \in Awaited(cs) \/ \E k \in DOMAIN is : VReg(f.arg[1]) \in NamedBy(is[k])
  PROVE  Settles(ModuleIR, ModuleIR', f, cs, is)
<1>1. Fresh \in Nat /\ LastFunc(ModuleIR).next_vreg = Fresh /\ LastFunc(ModuleIR').next_vreg = Fresh + 0
  BY WhereWeAre DEF After, Fresh
<1>2. LastFunc(ModuleIR).next_vreg..(LastFunc(ModuleIR').next_vreg - 1) = {}
  BY <1>1
<1> QED
  BY <1>2 DEF Settles

LEMMA EffectKeeps ==
  ASSUME NEW f, Here(f), f.step \notin Switching \cup {"Loop"} \cup DeclStep, NEW is, is \in Seq(Range(is)), Effect(is),
         Fills(ModuleIR, ModuleIR', cur, is, Pending(loops)),
         f.step = "VarDecl" => \E k \in DOMAIN is : VReg(f.arg[1]) \in NamedBy(is[k]),
         NextFits(ModuleIR', cur, f, <<>>)
  PROVE  BuildInv'
<1>1. emit(0, 0, is) /\ EndCall /\ UNCHANGED <<context, meta, errors, env>>
  BY DEF Effect
<1>2. 0 \in Nat
  OBVIOUS
<1>3. After(0, 0, is)
  BY <1>1, <1>2, EmitAfter
<1>4. Settles(ModuleIR, ModuleIR', f, <<>>, is)
  BY <1>2, <1>3, NothingFresh
<1>5. Context(ModuleIR', decl', open', locals')
  <2>1. RegsOf(LastFunc(ModuleIR)) \subseteq RegsOf(LastFunc(ModuleIR'))
    BY <1>3, WhereWeAre DEF After
  <2> QED
    BY <1>1, <2>1, ContextStays DEF Here, context
<1> QED
  BY <1>1, <1>2, <1>3, <1>4, <1>5, EndKeeps DEF context

\* An instruction that goes with the registers and blocks there are.
Goes(i) ==
  \A func \in FuncRecord : RegsOf(Function) \subseteq RegsOf(func) /\ BlocksOf(Function) \subseteq BlocksOf(func) =>
    \A waiting : InstOK(func, cur + 1, i, waiting)

LEMMA EffectOne ==
  ASSUME NEW f, Here(f), f.step \notin Switching \cup {"Loop"} \cup DeclStep, NEW i, Effect(<<i>>),
         ~Whole(ModuleIR, CurrentOf(ModuleIR, cur)), Goes(i),
         f.step = "VarDecl" => VReg(f.arg[1]) \in NamedBy(i),
         f.step \in StmtStep \cup (IF i.kind \in Terminators THEN {"Leave", "JumpOn"} ELSE {"Element", "Pair", "Frees"})
  PROVE  BuildInv'
<1>1. <<i>> \in Seq(Range(<<i>>)) /\ Len(<<i>>) = 1 /\ DOMAIN <<i>> = {1} /\ <<i>>[1] = i
  BY One
<1>2. After(0, 0, <<i>>)
  <2>1. 0 \in Nat
    OBVIOUS
  <2> QED
    BY <1>1, <2>1, EmitAfter DEF Effect
<1> DEFINE func == LastFunc(ModuleIR')
<1>3. func \in FuncRecord /\ RegsOf(Function) \subseteq RegsOf(func) /\ BlocksOf(Function) \subseteq BlocksOf(func)
  BY <1>2 DEF After
<1> HIDE DEF func
<1>4. \A waiting \in BOOLEAN : InstOK(func, cur + 1, i, waiting)
  BY <1>3 DEF Goes
<1>5. Fills(ModuleIR, ModuleIR', cur, <<i>>, Pending(loops))
  BY <1>4, FillsOne DEF func
<1> DEFINE whole == Whole(ModuleIR', CurrentOf(ModuleIR', cur))
<1>6. whole <=> i.kind \in Terminators
  <2>1. Growing(ModuleIR, cur) /\ Grown(ModuleIR, ModuleIR', cur, 0, 0, <<i>>)
    BY <1>2, WhereWeAre DEF After
  <2>2. <<i>> # <<>> /\ <<i>>[Len(<<i>>)] = i
    BY <1>1
  <2> HIDE DEF whole
  <2>3. <<i>> # <<>> => (whole <=> <<i>>[Len(<<i>>)].kind \in Terminators)
    BY <2>1, Endings DEF whole
  <2> QED
    BY <2>2, <2>3
<1>7. NextFits(ModuleIR', cur, f, <<>>)
  BY <1>6, CallersFit
<1>8. f.step = "VarDecl" => \E k \in DOMAIN <<i>> : VReg(f.arg[1]) \in NamedBy(<<i>>[k])
  BY <1>1
<1> QED
  BY <1>1, <1>5, <1>7, <1>8, EffectKeeps

LEMMA PushKeeps ==
  ASSUME NEW f, Here(f), pushElement
  PROVE  BuildInv'
<1> DEFINE i == Inst("PushArray", Invalid, VReg(f.arg[1]), VReg(f.got[1]), Invalid, 0)
<1>1. f.step = "Element" /\ Len(f.got) = Len(Operands(f)) /\ Effect(<<i>>)
  BY TopIs DEF pushElement, Doing
<1>2. f.step \notin Switching \cup {"Loop"} \cup DeclStep /\ f.step \in Running
  BY <1>1 DEF DeclStep, Switching, Running, ExprStep
<1>3. f.got[1] \in RegsOf(Function) /\ f.arg[1] \in RegsOf(Function)
  BY <1>1, <1>2, GotAre, WhereWeAre DEF FrameOK
<1>4. Goes(i)
  <2> SUFFICES ASSUME NEW func \in FuncRecord, NEW waiting, RegsOf(Function) \subseteq RegsOf(func)
               PROVE  InstOK(func, cur + 1, i, waiting)
    BY DEF Goes
  <2>1. f.got[1] \in RegsOf(func) /\ f.arg[1] \in RegsOf(func)
    BY <1>3
  <2> QED
    BY <2>1, Effects
<1>5. i.kind \notin Terminators
  BY DEF Inst, Terminators
<1>6. ~Whole(ModuleIR, CurrentOf(ModuleIR, cur))
  BY <1>2, WhereWeAre
<1> QED
  BY <1>1, <1>2, <1>4, <1>5, <1>6, EffectOne

LEMMA PairKeeps ==
  ASSUME NEW f, Here(f), setPair
  PROVE  BuildInv'
<1> DEFINE i == Inst("SetMap", Invalid, VReg(f.arg[1]), VReg(f.got[1]), VReg(f.got[2]), 0)
<1>1. f.step = "Pair" /\ Len(f.got) = Len(Operands(f)) /\ Effect(<<i>>)
  BY TopIs DEF setPair, Doing
<1>2. f.step \notin Switching \cup {"Loop"} \cup DeclStep /\ f.step \in Running
  BY <1>1 DEF DeclStep, Switching, Running, ExprStep
<1>3. f.got[1] \in RegsOf(Function) /\ f.got[2] \in RegsOf(Function) /\ f.arg[1] \in RegsOf(Function)
  BY <1>1, <1>2, GotAre, WhereWeAre DEF FrameOK
<1>4. Goes(i)
  <2> SUFFICES ASSUME NEW func \in FuncRecord, NEW waiting, RegsOf(Function) \subseteq RegsOf(func)
               PROVE  InstOK(func, cur + 1, i, waiting)
    BY DEF Goes
  <2>1. f.got[1] \in RegsOf(func) /\ f.got[2] \in RegsOf(func) /\ f.arg[1] \in RegsOf(func)
    BY <1>3
  <2> QED
    BY <2>1, Effects
<1>5. i.kind \notin Terminators
  BY DEF Inst, Terminators
<1>6. ~Whole(ModuleIR, CurrentOf(ModuleIR, cur))
  BY <1>2, WhereWeAre
<1> QED
  BY <1>1, <1>2, <1>4, <1>5, <1>6, EffectOne

LEMMA InitVarKeeps ==
  ASSUME NEW f, Here(f), initVar
  PROVE  BuildInv'
<1> DEFINE i == MoveRegToReg(f.arg[1], f.got[1])
<1>1. f.step = "VarDecl" /\ Len(f.got) = Len(Operands(f)) /\ Effect(<<i>>)
  BY TopIs DEF initVar, Doing
<1>2. f.step \notin Switching \cup {"Loop"} \cup DeclStep /\ f.step \in Running
  BY <1>1 DEF DeclStep, Switching, Running, ExprStep, StmtStep
<1>3. f.got[1] \in RegsOf(Function) /\ f.arg[1] \in RegsOf(Function)
  BY <1>1, <1>2, GotAre, WhereWeAre DEF FrameOK
<1>4. Goes(i)
  <2> SUFFICES ASSUME NEW func \in FuncRecord, NEW waiting, RegsOf(Function) \subseteq RegsOf(func)
               PROVE  InstOK(func, cur + 1, i, waiting)
    BY DEF Goes
  <2>1. f.got[1] \in RegsOf(func) /\ f.arg[1] \in RegsOf(func)
    BY <1>3
  <2> QED
    BY <2>1, MovesNames
<1>5. Named(i, f.arg[1])
  BY <1>2, <1>3, WhereWeAre, MovesNames
<1>6. ~Whole(ModuleIR, CurrentOf(ModuleIR, cur)) /\ f.step \in StmtStep
  BY <1>1, <1>2, WhereWeAre DEF StmtStep
<1> QED
  BY <1>1, <1>2, <1>4, <1>5, <1>6, EffectOne DEF Named

\* A step that leaves the code alone.
LEMMA StillFits ==
  ASSUME NEW f, Here(f), f.step \notin DeclStep, After(0, 0, <<>>), NEW cs, NextFits(ModuleIR, cur, f, cs)
  PROVE  NextFits(ModuleIR', cur, f, cs)
<1>1. Growing(ModuleIR, cur) /\ Grown(ModuleIR, ModuleIR', cur, 0, 0, <<>>)
  BY WhereWeAre DEF After
<1>2. Whole(ModuleIR', CurrentOf(ModuleIR', cur)) <=> Whole(ModuleIR, CurrentOf(ModuleIR, cur))
  BY <1>1, Endings
<1>3. /\ LastFunc(ModuleIR').next_vreg = LastFunc(ModuleIR).next_vreg
      /\ LastFunc(ModuleIR').arity = LastFunc(ModuleIR).arity
  <2>1. Function = LastFunc(ModuleIR)
    BY WhereWeAre
  <2>2. Fresh \in Nat /\ Fresh = LastFunc(ModuleIR).next_vreg /\ LastFunc(ModuleIR').next_vreg = Fresh + 0
    BY <2>1 DEF After, Fresh
  <2> QED
    BY <2>1, <2>2 DEF After
<1>4. \A next : Fits(ModuleIR, cur, next) => Fits(ModuleIR', cur, next)
  BY <1>2, <1>3 DEF Fits
<1> QED
  BY <1>2, <1>4 DEF NextFits

LEMMA SilentKeeps ==
  ASSUME NEW f, Here(f), NEW cs, Straightforward(cs, f), f.step # "VarDecl",
         UNCHANGED code \/ emit(0, 0, <<>>),
         Replaces(cs, f, RegsOf(Function), BlocksOf(Function), {}),
         NextFits(ModuleIR, cur, f, cs), Continue(cs),
         cur' = cur, loops' = loops, locals' = locals, decl' = decl, open' \in Seq(Tree)
  PROVE  BuildInv'
<1>1. f.step \notin DeclStep
  BY DEF Straightforward
<1>2. 0 \in Nat
  OBVIOUS
<1>3. After(0, 0, <<>>)
  BY <1>1, <1>2, SameAfter, EmitAfter, None
<1>4. NextFits(ModuleIR', cur, f, cs)
  BY <1>1, <1>3, StillFits
<1>5. RegsOf(Function) = Regs2 /\ BlocksOf(Function) = Blks2 /\ Function = LastFunc(ModuleIR)
  <2>1. Fresh + 0 = Fresh /\ NewBlock + 0 = NewBlock
    BY <1>3 DEF After
  <2> QED
    BY <1>1, <1>3, <2>1, WhereWeAre DEF After, Regs2, Blks2
<1>6. Replaces(cs, f, Regs2, Blks2, {})
  BY <1>5
<1>7. Fills(ModuleIR, ModuleIR', cur, <<>>, Pending(loops))
  BY FillsNothing
<1>8. Settles(ModuleIR, ModuleIR', f, cs, <<>>)
  BY <1>1, <1>2, <1>3, NothingFresh
<1>9. Context(ModuleIR', decl', open', locals')
  BY <1>5 DEF Here, Context, Regs2
<1> QED
  BY <1>2, <1>3, <1>4, <1>6, <1>7, <1>8, <1>9, PlainKeeps

LEMMA EndSilently ==
  ASSUME NEW f, Here(f), f.step \notin Switching \cup {"Loop", "VarDecl"} \cup DeclStep, EndCall,
         UNCHANGED code \/ emit(0, 0, <<>>), NextFits(ModuleIR, cur, f, <<>>), UNCHANGED context
  PROVE  BuildInv'
<1>1. Continue(<<>>)
  BY EndingIs
<1>2. Replaces(<<>>, f, RegsOf(Function), BlocksOf(Function), {})
  BY ReplacesNone
<1>3. Straightforward(<<>>, f)
  BY DEF Straightforward
<1>4. open \in Seq(Tree)
  BY DEF Here, Context
<1> QED
  BY <1>1, <1>2, <1>3, <1>4, SilentKeeps DEF context

LEMMA LeaveKeeps ==
  ASSUME NEW f, Here(f), leave
  PROVE  BuildInv'
<1> DEFINE v == IF f.arg = <<>> THEN Invalid ELSE VReg(f.arg[1])
           i == ReturnValue(v)
<1>1. f.step = "Leave" /\ Effect(<<i>>)
  BY TopIs DEF leave, Doing
<1>2. f.step \notin Switching \cup {"Loop"} \cup DeclStep /\ f.step \in Running
  BY <1>1 DEF DeclStep, Switching, Running
<1>3. v = Invalid \/ \E r \in RegsOf(Function) : v = VReg(r)
  <2>1. f.arg \in Seq(RegsOf(Function))
    BY <1>1, <1>2, WhereWeAre DEF FrameOK
  <2>2. CASE f.arg # <<>>
    <3>1. f.arg[1] \in RegsOf(Function)
      BY <2>1, <2>2
    <3> QED
      BY <2>2, <3>1
  <2> QED
    BY <2>2
<1> HIDE DEF v
<1>4. Goes(i)
  <2> SUFFICES ASSUME NEW func \in FuncRecord, NEW waiting, RegsOf(Function) \subseteq RegsOf(func)
               PROVE  InstOK(func, cur + 1, i, waiting)
    BY DEF Goes
  <2>1. CASE v = Invalid
    BY <2>1, ReturnsNothing
  <2>2. CASE \E r \in RegsOf(Function) : v = VReg(r)
    <3>1. PICK r \in RegsOf(func) : v = VReg(r)
      BY <2>2
    <3> QED
      BY <3>1, Effects
  <2> QED
    BY <1>3, <2>1, <2>2
<1>5. i.kind \in Terminators
  BY DEF Inst, ReturnValue, Terminators
<1>6. ~Whole(ModuleIR, CurrentOf(ModuleIR, cur))
  BY <1>2, WhereWeAre
<1> QED
  BY <1>1, <1>2, <1>4, <1>5, <1>6, EffectOne

LEMMA JumpOnKeeps ==
  ASSUME NEW f, Here(f), jumpOn
  PROVE  BuildInv'
<1> DEFINE i == JumpToBlock(f.arg[1])
<1>1. f.step = "JumpOn" /\ Effect(IF isCurrentBlockTerminated THEN <<>> ELSE <<i>>)
  BY TopIs DEF jumpOn, Doing
<1>2. f.step \notin Switching \cup {"Loop"} \cup DeclStep
  BY <1>1 DEF DeclStep, Switching
<1>3. isCurrentBlockTerminated <=> Whole(ModuleIR, CurrentOf(ModuleIR, cur))
  BY <1>2, Terminated
<1>4. CASE ~isCurrentBlockTerminated
  <2>1. f.arg[1] \in BlocksOf(Function) /\ cur \in Nat
    BY <1>1, <1>2, WhereWeAre DEF FrameOK, BlocksOf, FuncRecord
  <2>2. Goes(i)
    <3> SUFFICES ASSUME NEW func \in FuncRecord, NEW waiting, BlocksOf(Function) \subseteq BlocksOf(func)
                 PROVE  InstOK(func, cur + 1, i, waiting)
      BY DEF Goes
    <3>1. f.arg[1] \in BlocksOf(func) /\ cur + 1 \in Nat
      BY <2>1
    <3> QED
      BY <3>1, Jumps
  <2>3. i.kind \in Terminators
    BY DEF Inst, JumpToBlock, Terminators
  <2> HIDE DEF i
  <2> QED
    BY <1>1, <1>2, <1>3, <1>4, <2>2, <2>3, EffectOne
<1>5. CASE isCurrentBlockTerminated
  <2>1. emit(0, 0, <<>>) /\ EndCall /\ UNCHANGED context
    BY <1>1, <1>5 DEF Effect
  <2>2. NextFits(ModuleIR, cur, f, <<>>)
    BY <1>1, <1>3, <1>5, CallersFit
  <2> QED
    BY <1>1, <1>2, <2>1, <2>2, EndSilently
<1> QED
  BY <1>4, <1>5

-----------------------------------------------------------------------------
(***************************************************************************)
(* Statements that stay in their block.                                    *)
(***************************************************************************)
\* A call of which only the node matters.
PlainStep == {"Expr", "Stmt", "InBlock", "LeaveBlock", "Frees", "EndFunc"}

LEMMA PlainSteps == /\ "Expr" \in PlainStep /\ "Stmt" \in PlainStep /\ "InBlock" \in PlainStep
                    /\ "LeaveBlock" \in PlainStep /\ "Frees" \in PlainStep /\ "EndFunc" \in PlainStep
BY DEF PlainStep

LEMMA PlainFrames ==
  ASSUME NEW step_ \in PlainStep, NEW node \in Tree, NEW arg, NEW regs, NEW blks, NEW f, NEW new
  PROVE  /\ Instead(f, Frame(step_, node, arg), regs, blks, new)
         /\ Targets(Frame(step_, node, arg)) = {} /\ Frame(step_, node, arg).step = step_
<1> DEFINE g == Frame(step_, node, arg)
<1>1. /\ g.step = step_ /\ g.node = node /\ g.arg = arg /\ g.got = <<>>
      /\ g = [step |-> g.step, node |-> g.node, arg |-> g.arg, got |-> g.got]
  BY FrameIs
<1> HIDE DEF g
<1>2. Targets(g) = {}
  BY <1>1 DEF PlainStep, Targets, Switching
<1>3. <<>> \in Seq(regs)
  OBVIOUS
<1>4. FrameOK(g, regs, blks)
  BY <1>1, <1>2, <1>3 DEF PlainStep, FrameOK, DeclStep
<1>5. g.step \notin DeclStep
  BY <1>1 DEF PlainStep, DeclStep
<1> QED
  BY <1>1, <1>2, <1>4, <1>5 DEF Instead, g

LEMMA ContinueKeeps ==
  ASSUME NEW f, Here(f), buildContinue
  PROVE  BuildInv'
<1> DEFINE i == JumpToBlock(Last(loops).continue_target)
<1>1. f.step = "Stmt"
  BY TopIs DEF buildContinue, DoingNode, Doing
<1>2. f.step \notin Switching \cup {"Loop"} \cup DeclStep /\ f.step \in Running /\ f.step \in StmtStep
  BY <1>1 DEF DeclStep, Switching, Running, StmtStep
<1>3. CASE loops # <<>> /\ Effect(<<i>>)
  <2>1. Last(loops).continue_target \in BlocksOf(Function) /\ cur \in Nat
    <3>1. OpenLoops(loops, insts, BlocksOf(Function)) /\ cur \in BlocksOf(Function) /\ Function \in FuncRecord
      BY <1>2, WhereWeAre DEF Here, Going
    <3>2. loops \in Seq(LoopRecord) /\ \A l \in DOMAIN loops : loops[l].continue_target \in BlocksOf(Function)
      BY <3>1 DEF OpenLoops
    <3>3. Last(loops) = loops[Len(loops)] /\ Len(loops) \in DOMAIN loops
      BY <1>3, <3>2 DEF Last
    <3> QED
      BY <3>1, <3>2, <3>3 DEF BlocksOf, FuncRecord
  <2> DEFINE k == Last(loops).continue_target
  <2> HIDE DEF k
  <2>2. Goes(i)
    <3> SUFFICES ASSUME NEW func \in FuncRecord, NEW waiting, BlocksOf(Function) \subseteq BlocksOf(func)
                 PROVE  InstOK(func, cur + 1, i, waiting)
      BY DEF Goes
    <3>1. k \in BlocksOf(func) /\ cur + 1 \in Nat
      BY <2>1 DEF k
    <3> QED
      BY <3>1, Jumps DEF k
  <2>3. ~Whole(ModuleIR, CurrentOf(ModuleIR, cur))
    BY <1>2, WhereWeAre
  <2> HIDE DEF i
  <2> QED
    BY <1>1, <1>2, <1>3, <2>2, <2>3, EffectOne
<1>4. CASE error("continue outside a loop")
  BY <1>4, ErrorKeeps
<1> QED
  BY <1>3, <1>4 DEF buildContinue

LEMMA NextInBlockKeeps ==
  ASSUME NEW f, Here(f), nextInBlock
  PROVE  BuildInv'
<1> DEFINE g == Frame("Stmt", f.node, <<>>)
<1>1. /\ f.step = "InBlock" /\ Continue(IF isCurrentBlockTerminated THEN <<>> ELSE <<g>>)
      /\ UNCHANGED <<code, context, meta, errors, env>>
  BY TopIs DEF nextInBlock, Doing
<1>2. f.step \notin Switching \cup {"Loop"} \cup DeclStep \cup ExprStep
  BY <1>1 DEF DeclStep, Switching, ExprStep
<1>3. isCurrentBlockTerminated <=> Whole(ModuleIR, CurrentOf(ModuleIR, cur))
  BY <1>2, Terminated
<1>4. open \in Seq(Tree)
  BY DEF Here, Context
<1>5. CASE isCurrentBlockTerminated
  <2>1. NextFits(ModuleIR, cur, f, <<>>)
    BY <1>1, CallersFit
  <2>2. Replaces(<<>>, f, RegsOf(Function), BlocksOf(Function), {})
    BY ReplacesNone
  <2>3. Straightforward(<<>>, f)
    BY <1>2 DEF Straightforward
  <2> QED
    BY <1>1, <1>4, <1>5, <2>1, <2>2, <2>3, SilentKeeps DEF context
<1>6. CASE ~isCurrentBlockTerminated
  <2>1. f.node \in Tree
    BY <1>2, WhereWeAre DEF FrameOK
  <2>2. Instead(f, g, RegsOf(Function), BlocksOf(Function), {}) /\ g.step = "Stmt"
    BY <2>1, PlainFrames, PlainSteps
  <2> HIDE DEF g
  <2>3. LastInstead(f, g)
    <3>1. Callers(f.step) = EitherWay /\ Callers(g.step) = EitherWay /\ f.step \notin Outermost
      BY <1>1, <2>2, CallersAre DEF Outermost, DeclStep, StmtStep
    <3> QED
      BY <3>1 DEF LastInstead
  <2>4. Replaces(<<g>>, f, RegsOf(Function), BlocksOf(Function), {})
    BY <2>2, <2>3, ReplacesOne
  <2>5. Straightforward(<<g>>, f)
    BY <1>2, <2>2, One DEF Straightforward, Switching
  <2>6. NextFits(ModuleIR, cur, f, <<g>>)
    <3>1. Fits(ModuleIR, cur, "Stmt")
      BY <1>3, <1>6 DEF Fits, Switching, DeclStep
    <3> QED
      BY <2>2, <3>1, One DEF NextFits
  <2> QED
    BY <1>1, <1>4, <1>6, <2>4, <2>5, <2>6, SilentKeeps DEF context
<1> QED
  BY <1>5, <1>6

LEMMA SkipKeeps ==
  ASSUME NEW f, Here(f), skipStmt
  PROVE  BuildInv'
<1>1. f.step = "Stmt" /\ EndCall /\ UNCHANGED <<code, context, meta, errors, env>>
  BY TopIs DEF skipStmt, Doing
<1>2. f.step \notin Switching \cup {"Loop", "VarDecl"} \cup DeclStep /\ f.step \in StmtStep
  BY <1>1 DEF DeclStep, Switching, StmtStep
<1>3. NextFits(ModuleIR, cur, f, <<>>)
  BY <1>2, CallersFit
<1> QED
  BY <1>1, <1>2, <1>3, EndSilently

LEMMA Leaves ==
  ASSUME NEW node \in Tree, NEW regs, NEW arg \in Seq(regs), NEW blks, NEW f, NEW new
  PROVE  /\ Instead(f, Frame("Leave", node, arg), regs, blks, new)
         /\ Targets(Frame("Leave", node, arg)) = {} /\ Frame("Leave", node, arg).step = "Leave"
<1> DEFINE g == Frame("Leave", node, arg)
<1>1. /\ g.step = "Leave" /\ g.node = node /\ g.arg = arg /\ g.got = <<>>
      /\ g = [step |-> g.step, node |-> g.node, arg |-> g.arg, got |-> g.got]
  BY FrameIs
<1> HIDE DEF g
<1>2. Targets(g) = {}
  BY <1>1 DEF Targets, Switching
<1>3. <<>> \in Seq(regs)
  OBVIOUS
<1>4. FrameOK(g, regs, blks)
  BY <1>1, <1>2, <1>3 DEF FrameOK, DeclStep
<1>5. g.step \notin DeclStep
  BY <1>1 DEF DeclStep
<1> QED
  BY <1>1, <1>2, <1>4, <1>5 DEF Instead, g

LEMMA FrontIs ==
  ASSUME NEW S, NEW s \in Seq(S)
  PROVE  Front(s) \in Seq(S)
<1>1. CASE s = <<>>
  <2>1. Front(s) = <<>>
    BY <1>1 DEF Front
  <2> QED
    BY <2>1
<1>2. CASE s # <<>>
  <2>1. Len(s) \in Nat \ {0} /\ \A k \in 1..Len(s) : s[k] \in S
    BY <1>2
  <2> QED
    BY <2>1 DEF Front
<1> QED
  BY <1>1, <1>2

LEMMA CloseKeeps ==
  ASSUME NEW f, Here(f), closeBlock
  PROVE  BuildInv'
<1> DEFINE g == FreesOf(f.node)
<1>1. /\ f.step = "LeaveBlock" /\ Continue(IF isCurrentBlockTerminated THEN <<>> ELSE <<g>>)
      /\ open' = Front(open) /\ UNCHANGED <<code, cur, locals, loops, decl, meta, errors, env>>
  BY TopIs DEF closeBlock, Doing
<1>2. f.step \notin Switching \cup {"Loop"} \cup DeclStep \cup ExprStep
  BY <1>1 DEF DeclStep, Switching, ExprStep
<1>3. isCurrentBlockTerminated <=> Whole(ModuleIR, CurrentOf(ModuleIR, cur))
  BY <1>2, Terminated
<1>4. open' \in Seq(Tree)
  BY <1>1, FrontIs DEF Here, Context
<1>5. CASE isCurrentBlockTerminated
  <2>1. NextFits(ModuleIR, cur, f, <<>>)
    BY <1>1, CallersFit
  <2>2. Replaces(<<>>, f, RegsOf(Function), BlocksOf(Function), {})
    BY ReplacesNone
  <2>3. Straightforward(<<>>, f)
    BY <1>2 DEF Straightforward
  <2> QED
    BY <1>1, <1>4, <1>5, <2>1, <2>2, <2>3, SilentKeeps
<1>6. CASE ~isCurrentBlockTerminated
  <2>1. f.node \in Tree
    BY <1>2, WhereWeAre DEF FrameOK
  <2>2. Instead(f, g, RegsOf(Function), BlocksOf(Function), {}) /\ g.step = "Frees"
    BY <2>1, PlainFrames, PlainSteps DEF FreesOf
  <2> HIDE DEF g
  <2>3. LastInstead(f, g)
    <3>1. Callers(f.step) = EitherWay /\ EitherWay \subseteq Callers(g.step) /\ f.step \notin Outermost
      BY <1>1, <2>2, CallersAre DEF Outermost, DeclStep
    <3> QED
      BY <3>1 DEF LastInstead
  <2>4. Replaces(<<g>>, f, RegsOf(Function), BlocksOf(Function), {})
    BY <2>2, <2>3, ReplacesOne
  <2>5. Straightforward(<<g>>, f)
    BY <1>2, <2>2, One DEF Straightforward, Switching
  <2>6. NextFits(ModuleIR, cur, f, <<g>>)
    <3>1. Fits(ModuleIR, cur, "Frees")
      BY <1>3, <1>6 DEF Fits, Switching, DeclStep
    <3> QED
      BY <2>2, <3>1, One DEF NextFits
  <2> QED
    BY <1>1, <1>4, <1>6, <2>4, <2>5, <2>6, SilentKeeps
<1> QED
  BY <1>5, <1>6

LEMMA EndFuncKeeps ==
  ASSUME NEW f, Here(f), endFunc
  PROVE  BuildInv'
<1> DEFINE g == FreesOf(decl)
           h == Frame("Leave", decl, <<>>)
<1>1. /\ f.step = "EndFunc" /\ Continue(IF isCurrentBlockTerminated THEN <<>> ELSE <<g, h>>)
      /\ UNCHANGED <<code, context, meta, errors, env>>
  BY TopIs DEF endFunc, Doing
<1>2. f.step \notin Switching \cup {"Loop"} \cup DeclStep \cup ExprStep
  BY <1>1 DEF DeclStep, Switching, ExprStep
<1>3. isCurrentBlockTerminated <=> Whole(ModuleIR, CurrentOf(ModuleIR, cur))
  BY <1>2, Terminated
<1>4. open \in Seq(Tree) /\ decl \in Tree
  BY DEF Here, Context
<1>5. Callers(f.step) = DeclStep /\ f.step \in Outermost
  BY <1>1, CallersAre DEF Outermost
<1>6. CASE isCurrentBlockTerminated
  <2>1. NextFits(ModuleIR, cur, f, <<>>)
    <3>1. \A next \in DeclStep : Fits(ModuleIR, cur, next)
      BY <1>3, <1>6 DEF Fits, DeclStep, Running, ExprStep, StmtStep
    <3> QED
      BY <1>3, <1>5, <1>6, <3>1 DEF NextFits
  <2>2. Replaces(<<>>, f, RegsOf(Function), BlocksOf(Function), {})
    BY ReplacesNone
  <2>3. Straightforward(<<>>, f)
    BY <1>2 DEF Straightforward
  <2> QED
    BY <1>1, <1>4, <1>6, <2>1, <2>2, <2>3, SilentKeeps DEF context
<1>7. CASE ~isCurrentBlockTerminated
  <2>1. Instead(f, g, RegsOf(Function), BlocksOf(Function), {}) /\ g.step = "Frees" /\ Targets(g) = {}
    BY <1>4, PlainFrames, PlainSteps DEF FreesOf
  <2>2. /\ Instead(f, h, RegsOf(Function), BlocksOf(Function), {}) /\ h.step = "Leave" /\ Targets(h) = {}
    <3>1. <<>> \in Seq(RegsOf(Function))
      OBVIOUS
    <3> QED
      BY <1>4, <3>1, Leaves
  <2> HIDE DEF g, h
  <2>3. LastInstead(f, h)
    BY <1>5, <2>2, CallersAre DEF LastInstead, Outermost
  <2>4. Ordered(g, h)
    BY <2>1, <2>2, CallersAre DEF Ordered, DeclStep
  <2>5. Replaces(<<g, h>>, f, RegsOf(Function), BlocksOf(Function), {})
    BY <2>1, <2>2, <2>3, <2>4, ReplacesTwo
  <2>6. Straightforward(<<g, h>>, f)
    BY <1>2, <2>1, <2>2, Two DEF Straightforward, Switching
  <2>7. NextFits(ModuleIR, cur, f, <<g, h>>)
    <3>1. Fits(ModuleIR, cur, "Frees")
      BY <1>3, <1>7 DEF Fits, Switching, DeclStep
    <3> QED
      BY <2>1, <3>1, Two DEF NextFits
  <2> QED
    BY <1>1, <1>4, <1>7, <2>5, <2>6, <2>7, SilentKeeps DEF context
<1> QED
  BY <1>6, <1>7

LEMMA FreeKeeps ==
  ASSUME NEW f, Here(f), freeNext
  PROVE  BuildInv'
<1>1. f.step = "Frees" /\ UNCHANGED <<context, meta, errors, env>> /\ Top = f
  BY TopIs DEF freeNext, Doing
<1>2. f.step \notin Switching \cup {"Loop", "VarDecl"} \cup DeclStep \cup ExprStep /\ f.step \in Running
  BY <1>1 DEF DeclStep, Switching, ExprStep, Running
<1>3. ~Whole(ModuleIR, CurrentOf(ModuleIR, cur))
  BY <1>2, WhereWeAre
<1> DEFINE name == f.arg[1]
           g    == [f EXCEPT !.arg = Tail(f.arg)]
           is   == IF name \in DOMAIN locals THEN <<FreeReg(locals[name])>> ELSE <<>>
<1>4. CASE f.arg # <<>> /\ emit(0, 0, is) /\ Continue(<<g>>)
  <2>1. FrameOK(f, RegsOf(Function), BlocksOf(Function)) /\ Function = LastFunc(ModuleIR)
    BY <1>2, WhereWeAre
  <2>2. /\ g.step = "Frees" /\ g.node = f.node /\ g.got = f.got
        /\ g = [step |-> g.step, node |-> g.node, arg |-> g.arg, got |-> g.got]
    <3> DEFINE s == f.step
               n == f.node
               a == f.arg
               o == f.got
    <3>1. f = [step |-> s, node |-> n, arg |-> a, got |-> o]
      BY <2>1 DEF FrameOK
    <3>2. s = "Frees" /\ n = f.node /\ o = f.got /\ a = f.arg
      BY <1>1
    <3> DEFINE t == Tail(f.arg)
    <3>3. g = [f EXCEPT !.arg = t]
      OBVIOUS
    <3> HIDE DEF s, n, a, o, t, g
    <3>4. g = [step |-> s, node |-> n, arg |-> t, got |-> o]
      BY <3>1, <3>3
    <3> QED
      BY <3>2, <3>4
  <2> HIDE DEF g
  <2>3. Targets(g) = {} /\ g.step \notin DeclStep
    BY <2>2 DEF Targets, Switching, DeclStep
  <2>4. \A regs, blks : RegsOf(Function) \subseteq regs => FrameOK(g, regs, blks)
    <3> SUFFICES ASSUME NEW regs, NEW blks, RegsOf(Function) \subseteq regs
                 PROVE  FrameOK(g, regs, blks)
      OBVIOUS
    <3>1. f.node \in Tree /\ f.got \in Seq(RegsOf(Function))
      BY <1>1, <2>1 DEF FrameOK, DeclStep
    <3>2. f.got \in Seq(regs)
      BY <3>1
    <3> QED
      BY <2>2, <2>3, <3>1, <3>2 DEF FrameOK, DeclStep
  <2>5. LastInstead(f, g)
    BY <1>1, <2>2 DEF LastInstead
  <2>6. Straightforward(<<g>>, f)
    BY <1>2, <2>2, One DEF Straightforward, Switching
  <2>7. CASE name \notin DOMAIN locals
    <3>1. Instead(f, g, RegsOf(Function), BlocksOf(Function), {})
      BY <2>3, <2>4 DEF Instead
    <3>2. Replaces(<<g>>, f, RegsOf(Function), BlocksOf(Function), {})
      BY <2>5, <3>1, ReplacesOne
    <3>3. NextFits(ModuleIR, cur, f, <<g>>)
      <4>1. Fits(ModuleIR, cur, "Frees")
        BY <1>3 DEF Fits, Switching, DeclStep
      <4> QED
        BY <2>2, <4>1, One DEF NextFits
    <3>4. open \in Seq(Tree)
      BY DEF Here, Context
    <3> QED
      BY <1>1, <1>2, <1>4, <2>6, <2>7, <3>2, <3>3, <3>4, SilentKeeps DEF context
  <2>8. CASE name \in DOMAIN locals
    <3> DEFINE i == FreeReg(locals[name])
    <3>1. emit(0, 0, <<i>>) /\ locals[name] \in RegsOf(Function)
      BY <1>4, <2>1, <2>8 DEF Here, Context
    <3> HIDE DEF name
    <3>2. 0 \in Nat /\ <<i>> \in Seq(Range(<<i>>)) /\ <<i>> # <<>> /\ <<i>>[Len(<<i>>)] = i
      BY One
    <3>3. After(0, 0, <<i>>)
      BY <1>2, <3>1, <3>2, EmitAfter
    <3>4. LastFunc(ModuleIR') \in FuncRecord /\ RegsOf(Function) \subseteq RegsOf(LastFunc(ModuleIR'))
      BY <3>3 DEF After
    <3>5. \A waiting \in BOOLEAN : InstOK(LastFunc(ModuleIR'), cur + 1, i, waiting)
      <4>1. locals[name] \in RegsOf(LastFunc(ModuleIR'))
        BY <3>1, <3>4
      <4> QED
        BY <3>4, <4>1, Effects
    <3>6. i.kind \notin Terminators
      BY DEF FreeReg, Inst, Terminators
    <3> HIDE DEF i
    <3>7. Fills(ModuleIR, ModuleIR', cur, <<i>>, Pending(loops))
      BY <1>3, <3>5, FillsOne
    <3>8. ~Whole(ModuleIR', CurrentOf(ModuleIR', cur))
      <4>1. Growing(ModuleIR, cur) /\ Grown(ModuleIR, ModuleIR', cur, 0, 0, <<i>>)
        BY <1>2, <3>3, WhereWeAre DEF After
      <4> QED
        BY <3>2, <3>6, <4>1, Endings
    <3>9. Settles(ModuleIR, ModuleIR', f, <<g>>, <<i>>)
      BY <1>1, <1>2, <3>2, <3>3, NothingFresh
    <3>10. Replaces(<<g>>, f, Regs2, Blks2, {})
      <4>1. Instead(f, g, Regs2, Blks2, {})
        BY <2>3, <2>4, <3>4 DEF Instead, Regs2, Blks2
      <4> QED
        BY <2>5, <4>1, ReplacesOne
    <3>11. NextFits(ModuleIR', cur, f, <<g>>)
      <4>1. Fits(ModuleIR', cur, "Frees")
        BY <3>8 DEF Fits, Switching, DeclStep
      <4> QED
        BY <2>2, <4>1, One DEF NextFits
    <3>12. Context(ModuleIR', decl', open', locals')
      BY <1>1, <2>1, <3>4, ContextStays DEF Here, context
    <3> QED
      BY <1>1, <1>4, <2>6, <3>2, <3>3, <3>7, <3>9, <3>10, <3>11, <3>12, PlainKeeps DEF context
  <2> QED
    BY <2>7, <2>8
<1>5. CASE f.arg = <<>> /\ EndCall /\ UNCHANGED code
  <2>1. NextFits(ModuleIR, cur, f, <<>>)
    BY <1>1, <1>3, CallersFit
  <2> QED
    BY <1>1, <1>2, <1>5, <2>1, EndSilently
<1> QED
  BY <1>1, <1>4, <1>5 DEF freeNext

LEMMA ResolveKeeps ==
  ASSUME NEW f, Here(f), resolveTarget
  PROVE  BuildInv'
<1>1. f.step = "Stmt" /\ f.node.node = "AssignmentStmt" /\ Top = f
  BY TopIs DEF resolveTarget, DoingNode, Doing
<1>2. f.step \notin Switching \cup {"Loop", "VarDecl"} \cup DeclStep \cup ExprStep /\ f.step \in Running
  BY <1>1 DEF DeclStep, Switching, ExprStep, Running, StmtStep
<1> DEFINE name == f.node.target.name
           g    == Frame("Assign", f.node, <<locals[name]>>)
<1>3. CASE /\ name \in DOMAIN locals /\ Continue(<<g>>)
           /\ UNCHANGED <<code, context, meta, errors, env>>
  <2>1. f.node \in Tree /\ locals[name] \in RegsOf(Function)
    BY <1>2, <1>3, WhereWeAre DEF FrameOK, Here, Context
  <2> DEFINE r == locals[name]
  <2>2. /\ g.step = "Assign" /\ g.node = f.node /\ g.arg = <<r>> /\ g.got = <<>>
        /\ g = [step |-> g.step, node |-> g.node, arg |-> g.arg, got |-> g.got]
    BY FrameIs
  <2> HIDE DEF g, r
  <2>3. Targets(g) = {} /\ g.step \notin DeclStep
    BY <2>2 DEF Targets, Switching, DeclStep
  <2>4. g.arg[1] \in RegsOf(Function) /\ <<>> \in Seq(RegsOf(Function))
    BY <2>1, <2>2 DEF r
  <2>5. FrameOK(g, RegsOf(Function), BlocksOf(Function))
    BY <1>1, <2>1, <2>2, <2>3, <2>4 DEF FrameOK, DeclStep
  <2>6. LastInstead(f, g)
    <3>1. Callers(f.step) = EitherWay /\ Callers(g.step) = EitherWay /\ f.step \notin Outermost
      BY <1>1, <2>2, CallersAre DEF Outermost, DeclStep, StmtStep
    <3> QED
      BY <3>1 DEF LastInstead
  <2>7. Replaces(<<g>>, f, RegsOf(Function), BlocksOf(Function), {})
    BY <2>3, <2>5, <2>6, ReplacesOne DEF Instead
  <2>8. Straightforward(<<g>>, f)
    BY <1>2, <2>2, One DEF Straightforward, Switching
  <2>9. NextFits(ModuleIR, cur, f, <<g>>)
    <3>1. Fits(ModuleIR, cur, "Assign")
      BY <1>2, WhereWeAre DEF Fits, Switching, DeclStep
    <3> QED
      BY <2>2, <3>1, One DEF NextFits
  <2>10. open \in Seq(Tree)
    BY DEF Here, Context
  <2> QED
    BY <1>2, <1>3, <2>7, <2>8, <2>9, <2>10, SilentKeeps DEF context
<1>4. CASE error("assignment to what is no local")
  BY <1>4, ErrorKeeps
<1> QED
  BY <1>1, <1>3, <1>4 DEF resolveTarget

\* Calls that go on in no block of their own.
LEMMA ReplacesMany ==
  ASSUME NEW f, NEW cs, cs \in Seq(Range(cs)), NEW regs, NEW blks, NEW new, cs # <<>>,
         \A k \in DOMAIN cs : Instead(f, cs[k], regs, blks, new) /\ Targets(cs[k]) = {} /\ cs[k].step \notin DeclStep,
         \A k \in 1..(Len(cs) - 1) : cs[k + 1].step \in Callers(cs[k].step),
         LastInstead(f, cs[Len(cs)])
  PROVE  Replaces(cs, f, regs, blks, new)
<1>1. DOMAIN cs = 1..Len(cs) /\ Len(cs) \in Nat
  OBVIOUS
<1>2. ASSUME NEW k \in DOMAIN cs
      PROVE  /\ FrameOK(cs[k], regs, blks)
             /\ Targets(cs[k]) \subseteq Targets(f) \cup new
             /\ cs[k].step \in DeclStep => f.step \in DeclStep
  BY <1>2 DEF Instead
<1>3. ASSUME NEW k \in DOMAIN cs
      PROVE  IF k < Len(cs) THEN cs[k + 1].step \in Callers(cs[k].step)
                            ELSE /\ f.step \in Outermost => cs[k].step \in Outermost
                                 /\ Callers(f.step) \subseteq Callers(cs[k].step)
  <2>1. CASE k < Len(cs)
    <3>1. k \in 1..(Len(cs) - 1)
      BY <1>1, <2>1
    <3> QED
      BY <2>1, <3>1
  <2>2. CASE ~(k < Len(cs))
    <3>1. k = Len(cs)
      BY <1>1, <2>2
    <3> QED
      BY <2>2, <3>1 DEF LastInstead
  <2> QED
    BY <2>1, <2>2
<1> QED
  BY <1>2, <1>3 DEF Replaces

LEMMA OpenKeeps ==
  ASSUME NEW f, Here(f), openBlock
  PROVE  BuildInv'
<1> DEFINE n  == f.node
           s  == [k \in DOMAIN n.stmts |-> Frame("InBlock", n.stmts[k], <<>>)]
           g  == Frame("LeaveBlock", n, <<>>)
           cs == s \o <<g>>
           regs == RegsOf(Function)
           blks == BlocksOf(Function)
<1>1. /\ f.step = "Stmt" /\ n.node = "BlockStmt" /\ open' = Append(open, n) /\ Continue(Append(s, g))
      /\ UNCHANGED <<code, cur, locals, loops, decl, meta, errors, env>>
  BY TopIs DEF openBlock, DoingNode, Doing
<1>2. f.step \notin Switching \cup {"Loop", "VarDecl"} \cup DeclStep \cup ExprStep
  BY <1>1 DEF DeclStep, Switching, ExprStep
<1>3. n \in Tree /\ n.stmts \in Seq(Tree)
  <2>1. n \in Tree
    BY <1>2, WhereWeAre DEF FrameOK
  <2> QED
    BY <1>1, <2>1, TreeAssumption DEF Typed
<1>4. open' \in Seq(Tree)
  BY <1>1, <1>3 DEF Here, Context
<1> DEFINE m == Len(n.stmts)
<1>5. m \in Nat /\ DOMAIN n.stmts = 1..m /\ \A k \in 1..m : n.stmts[k] \in Tree
  BY <1>3
<1> HIDE DEF n, regs, blks
<1>6. \A k \in 1..m : Instead(f, s[k], regs, blks, {}) /\ Targets(s[k]) = {} /\ s[k].step = "InBlock"
  <2> SUFFICES ASSUME NEW k \in 1..m
               PROVE  Instead(f, s[k], regs, blks, {}) /\ Targets(s[k]) = {} /\ s[k].step = "InBlock"
    OBVIOUS
  <2> DEFINE x == n.stmts[k]
             h == Frame("InBlock", x, <<>>)
  <2>1. s[k] = h /\ x \in Tree
    BY <1>5
  <2>2. "InBlock" \in PlainStep
    BY DEF PlainStep
  <2> HIDE DEF s, x
  <2>3. Instead(f, h, regs, blks, {}) /\ Targets(h) = {} /\ h.step = "InBlock"
    BY <2>1, <2>2, PlainFrames
  <2> HIDE DEF h
  <2> QED
    BY <2>1, <2>3
<1>7. Instead(f, g, regs, blks, {}) /\ Targets(g) = {} /\ g.step = "LeaveBlock"
  BY <1>3, PlainFrames, PlainSteps
<1>8. s \in Seq(Range(s)) /\ Len(s) = m /\ DOMAIN s = 1..m
  <2>1. s = [k \in 1..m |-> s[k]]
    BY <1>5
  <2> HIDE DEF s
  <2> QED
    BY <1>5, <2>1, Numbered
<1> HIDE DEF s, g, m
<1>9. Longer(s, g, cs)
  BY <1>8, OneMore
<1> HIDE DEF cs
<1>10. /\ cs \in Seq(Range(cs)) /\ Len(cs) = m + 1 /\ DOMAIN cs = 1..(m + 1) /\ cs = Append(s, g)
       /\ \A k \in 1..m : cs[k] = s[k]
       /\ cs[m + 1] = g
  BY <1>8, <1>9 DEF Longer
<1>11. \A k \in 1..(m + 1) : /\ Instead(f, cs[k], regs, blks, {}) /\ Targets(cs[k]) = {}
                             /\ cs[k].step \in {"InBlock", "LeaveBlock"}
  <2>1. \A k \in 1..(m + 1) : k \in 1..m \/ k = m + 1
    BY <1>5
  <2> QED
    BY <1>6, <1>7, <1>10, <2>1
<1>12. cs # <<>> /\ 1 \in 1..(m + 1) /\ m + 1 \in 1..(m + 1)
  BY <1>5, <1>10
<1>13. Replaces(cs, f, regs, blks, {})
  <2>1. \A k \in DOMAIN cs : Instead(f, cs[k], regs, blks, {}) /\ Targets(cs[k]) = {} /\ cs[k].step \notin DeclStep
    BY <1>10, <1>11 DEF DeclStep
  <2>2. \A k \in 1..(Len(cs) - 1) : cs[k + 1].step \in Callers(cs[k].step)
    <3> SUFFICES ASSUME NEW k \in 1..(Len(cs) - 1)
                 PROVE  cs[k + 1].step \in Callers(cs[k].step)
      OBVIOUS
    <3>1. k \in 1..(m + 1) /\ k + 1 \in 1..(m + 1)
      BY <1>5, <1>10
    <3>2. cs[k + 1].step \in EitherWay /\ Callers(cs[k].step) = EitherWay
      BY <1>11, <3>1, CallersAre DEF EitherWay
    <3> QED
      BY <3>2
  <2>3. LastInstead(f, cs[Len(cs)])
    <3>1. Callers(f.step) = EitherWay /\ Callers(g.step) = EitherWay /\ f.step \notin Outermost
      BY <1>1, <1>7, CallersAre DEF Outermost, DeclStep, StmtStep
    <3> QED
      BY <1>10, <3>1 DEF LastInstead
  <2> QED
    BY <1>10, <1>12, <2>1, <2>2, <2>3, ReplacesMany
<1>14. Straightforward(cs, f)
  BY <1>2, <1>10, <1>11 DEF Straightforward, Switching
<1>15. NextFits(ModuleIR, cur, f, cs)
  <2>1. \A next \in {"InBlock", "LeaveBlock"} : Fits(ModuleIR, cur, next)
    BY DEF Fits, Switching, DeclStep, Running, ExprStep, StmtStep
  <2>2. cs[1].step \in {"InBlock", "LeaveBlock"}
    BY <1>11, <1>12
  <2> QED
    BY <1>12, <2>1, <2>2 DEF NextFits
<1>16. Continue(cs)
  BY <1>1, <1>10
<1> QED
  BY <1>1, <1>2, <1>4, <1>13, <1>14, <1>15, <1>16, SilentKeeps DEF regs, blks

LEMMA TwoMore ==
  ASSUME NEW s, s \in Seq(Range(s)), NEW x, NEW y
  PROVE  s \o <<x, y>> = (s \o <<x>>) \o <<y>>
<1> DEFINE S == Range(s) \cup {x, y}
           n == Len(s)
           u == s \o <<x>>
           v == u \o <<y>>
           w == s \o <<x, y>>
<1>1. s \in Seq(S) /\ n \in Nat
  BY RangeIs
<1> HIDE DEF S
<1>2. x \in S /\ y \in S
  BY DEF S
<1>3. u \in Seq(S) /\ Len(u) = n + 1 /\ (\A k \in 1..n : u[k] = s[k]) /\ u[n + 1] = x
  BY <1>1, <1>2
<1>4. w \in Seq(S) /\ Len(w) = n + 2 /\ (\A k \in 1..n : w[k] = s[k]) /\ w[n + 1] = x /\ w[n + 2] = y
  BY <1>1, <1>2
<1> HIDE DEF u, w, n
<1>5. v \in Seq(S) /\ Len(v) = n + 2 /\ (\A k \in 1..(n + 1) : v[k] = u[k]) /\ v[n + 2] = y
  <2>1. v \in Seq(S) /\ Len(v) = Len(u) + 1 /\ (\A k \in 1..Len(u) : v[k] = u[k]) /\ v[Len(u) + 1] = y
    BY <1>2, <1>3
  <2> HIDE DEF v
  <2> QED
    BY <1>1, <1>3, <2>1
<1> HIDE DEF v
<1>6. ASSUME NEW k \in 1..(n + 2)
      PROVE  v[k] = w[k]
  <2>1. k \in 1..n \/ k = n + 1 \/ k = n + 2
    BY <1>1
  <2>2. CASE k \in 1..n
    <3>1. k \in 1..(n + 1)
      BY <1>1, <2>2
    <3> QED
      BY <1>3, <1>4, <1>5, <2>2, <3>1
  <2>3. CASE k = n + 1
    <3>1. k \in 1..(n + 1)
      BY <1>1, <2>3
    <3> QED
      BY <1>3, <1>4, <1>5, <2>3, <3>1
  <2> QED
    BY <1>4, <1>5, <2>1, <2>2, <2>3
<1>7. v = w
  BY <1>1, <1>4, <1>5, <1>6
<1> QED
  BY <1>7 DEF u, v, w

LEMMA ReturnKeeps ==
  ASSUME NEW f, Here(f), buildReturn
  PROVE  BuildInv'
<1> DEFINE m  == Len(open)
           s  == [k \in 1..m |-> FreesOf(open[m + 1 - k])]
           g  == FreesOf(decl)
           h  == Frame("Leave", f.node, f.got)
           u  == s \o <<g>>
           cs == u \o <<h>>
           regs == RegsOf(Function)
           blks == BlocksOf(Function)
<1>1. f.step = "Stmt" /\ Continue(s \o <<g, h>>) /\ UNCHANGED <<code, context, meta, errors, env>>
  BY TopIs DEF buildReturn, DoingNode, Doing
<1>2. f.step \notin Switching \cup {"Loop", "VarDecl"} \cup DeclStep \cup ExprStep /\ f.step \in Running
  BY <1>1 DEF DeclStep, Switching, ExprStep, Running, StmtStep
<1>3. f.node \in Tree /\ f.got \in Seq(regs)
  BY <1>2, WhereWeAre DEF FrameOK
<1>4. decl \in Tree /\ open \in Seq(Tree)
  BY DEF Here, Context
<1>5. m \in Nat /\ \A k \in 1..m : open[m + 1 - k] \in Tree
  BY <1>4
<1> HIDE DEF regs, blks
<1>6. \A k \in 1..m : Instead(f, s[k], regs, blks, {}) /\ Targets(s[k]) = {} /\ s[k].step = "Frees"
  <2> SUFFICES ASSUME NEW k \in 1..m
               PROVE  Instead(f, s[k], regs, blks, {}) /\ Targets(s[k]) = {} /\ s[k].step = "Frees"
    OBVIOUS
  <2> DEFINE o == open[m + 1 - k]
  <2>1. s[k] = FreesOf(o) /\ o \in Tree
    BY <1>5
  <2> HIDE DEF s, o
  <2> DEFINE x == FreesOf(o)
  <2>2. Instead(f, x, regs, blks, {}) /\ Targets(x) = {} /\ x.step = "Frees"
    BY <2>1, PlainFrames, PlainSteps DEF FreesOf
  <2> HIDE DEF x
  <2>3. s[k] = x
    BY <2>1 DEF x
  <2> QED
    BY <2>2, <2>3
<1>7. Instead(f, g, regs, blks, {}) /\ Targets(g) = {} /\ g.step = "Frees"
  BY <1>4, PlainFrames, PlainSteps DEF FreesOf
<1>8. Instead(f, h, regs, blks, {}) /\ Targets(h) = {} /\ h.step = "Leave"
  BY <1>3, Leaves
<1>9. s \in Seq(Range(s)) /\ Len(s) = m /\ DOMAIN s = 1..m
  <2>1. s = [k \in 1..m |-> s[k]]
    OBVIOUS
  <2> HIDE DEF s, m
  <2> QED
    BY <1>5, <2>1, Numbered
<1> HIDE DEF s, g, h, m
<1>10. s \o <<g, h>> = cs
  BY <1>9, TwoMore
<1>11. Longer(s, g, u)
  BY <1>9, OneMore
<1> HIDE DEF u
<1>12. Longer(u, h, cs)
  BY <1>11, OneMore DEF Longer
<1> HIDE DEF cs
<1>13. /\ Len(u) = m + 1 /\ DOMAIN u = 1..(m + 1) /\ u[m + 1] = g
       /\ \A k \in 1..m : u[k] = s[k]
  BY <1>9, <1>11 DEF Longer
<1>14. /\ cs \in Seq(Range(cs)) /\ Len(cs) = m + 1 + 1 /\ DOMAIN cs = 1..(m + 1 + 1) /\ cs[m + 1 + 1] = h
       /\ \A k \in 1..(m + 1) : cs[k] = u[k]
  BY <1>12, <1>13 DEF Longer
<1>15. \A k \in 1..(m + 1) : Instead(f, cs[k], regs, blks, {}) /\ Targets(cs[k]) = {} /\ cs[k].step = "Frees"
  <2>1. \A k \in 1..(m + 1) : k \in 1..m \/ k = m + 1
    BY <1>5
  <2> QED
    BY <1>6, <1>7, <1>13, <1>14, <2>1
<1>16. \A k \in 1..(m + 1 + 1) : k \in 1..(m + 1) \/ k = m + 1 + 1
  BY <1>5
<1>17. \A k \in 1..(m + 1 + 1) : /\ Instead(f, cs[k], regs, blks, {}) /\ Targets(cs[k]) = {}
                                 /\ cs[k].step \in {"Frees", "Leave"}
  BY <1>8, <1>14, <1>15, <1>16
<1>18. cs # <<>> /\ 1 \in 1..(m + 1)
  BY <1>5, <1>14
<1>19. Replaces(cs, f, regs, blks, {})
  <2>1. \A k \in DOMAIN cs : Instead(f, cs[k], regs, blks, {}) /\ Targets(cs[k]) = {} /\ cs[k].step \notin DeclStep
    BY <1>14, <1>17 DEF DeclStep
  <2>2. \A k \in 1..(Len(cs) - 1) : cs[k + 1].step \in Callers(cs[k].step)
    <3> SUFFICES ASSUME NEW k \in 1..(Len(cs) - 1)
                 PROVE  cs[k + 1].step \in Callers(cs[k].step)
      OBVIOUS
    <3>1. k \in 1..(m + 1) /\ k + 1 \in 1..(m + 1 + 1)
      BY <1>5, <1>14
    <3>2. cs[k + 1].step \in {"Frees", "Leave"} /\ cs[k].step = "Frees"
      BY <1>15, <1>17, <3>1
    <3> QED
      BY <3>2, CallersAre
  <2>3. LastInstead(f, cs[Len(cs)])
    <3>1. Callers(f.step) = EitherWay /\ EitherWay \subseteq Callers(h.step) /\ f.step \notin Outermost
      BY <1>1, <1>8, CallersAre DEF Outermost, DeclStep, StmtStep
    <3> QED
      BY <1>14, <3>1 DEF LastInstead
  <2> QED
    BY <1>14, <1>18, <2>1, <2>2, <2>3, ReplacesMany
<1>20. Straightforward(cs, f)
  BY <1>2, <1>14, <1>17 DEF Straightforward, Switching
<1>21. NextFits(ModuleIR, cur, f, cs)
  <2>1. Fits(ModuleIR, cur, "Frees")
    BY <1>2, WhereWeAre DEF Fits, Switching, DeclStep
  <2>2. cs[1].step = "Frees"
    BY <1>15, <1>18
  <2> QED
    BY <1>18, <2>1, <2>2 DEF NextFits
<1>22. Continue(cs)
  BY <1>1, <1>10
<1> QED
  BY <1>1, <1>2, <1>4, <1>19, <1>20, <1>21, <1>22, SilentKeeps DEF regs, blks, context

-----------------------------------------------------------------------------
(***************************************************************************)
(* Containers, and statements that need a register.                        *)
(***************************************************************************)
LEMMA ElementFrames ==
  ASSUME NEW f, NEW regs, NEW blks, f.node \in Tree, NEW arg, arg[1] \in regs,
         NEW fill \in {"Element", "Pair"},
         fill = "Element" => f.node.node = "ArrayExpr" /\ arg[2] \in DOMAIN f.node.elements,
         fill = "Pair" => f.node.node = "MapExpr" /\ arg[2] \in DOMAIN f.node.keys
                            /\ Len(f.node.keys) = Len(f.node.values)
  PROVE  /\ Instead(f, Frame(fill, f.node, arg), regs, blks, {})
         /\ Targets(Frame(fill, f.node, arg)) = {} /\ Frame(fill, f.node, arg).step = fill
<1> DEFINE g == Frame(fill, f.node, arg)
<1>1. /\ g.step = fill /\ g.node = f.node /\ g.arg = arg /\ g.got = <<>>
      /\ g = [step |-> g.step, node |-> g.node, arg |-> g.arg, got |-> g.got]
  BY FrameIs
<1> HIDE DEF g
<1>2. Targets(g) = {}
  BY <1>1 DEF Targets, Switching
<1>3. <<>> \in Seq(regs) /\ g.step \notin DeclStep
  BY <1>1 DEF DeclStep
<1>4. FrameOK(g, regs, blks)
  BY <1>1, <1>2, <1>3 DEF FrameOK
<1> QED
  BY <1>1, <1>2, <1>3, <1>4 DEF Instead, g

LEMMA DeliverFrame ==
  ASSUME NEW f, NEW regs, NEW blks, f.node \in Tree, NEW arg, arg[1] \in regs
  PROVE  /\ Instead(f, Frame("Deliver", f.node, arg), regs, blks, {})
         /\ Targets(Frame("Deliver", f.node, arg)) = {} /\ Frame("Deliver", f.node, arg).step = "Deliver"
<1> DEFINE g == Frame("Deliver", f.node, arg)
<1>1. /\ g.step = "Deliver" /\ g.node = f.node /\ g.arg = arg /\ g.got = <<>>
      /\ g = [step |-> g.step, node |-> g.node, arg |-> g.arg, got |-> g.got]
  BY FrameIs
<1> HIDE DEF g
<1>2. Targets(g) = {}
  BY <1>1 DEF Targets, Switching
<1>3. <<>> \in Seq(regs) /\ g.step \notin DeclStep
  BY <1>1 DEF DeclStep
<1>4. FrameOK(g, regs, blks)
  BY <1>1, <1>2, <1>3 DEF FrameOK
<1> QED
  BY <1>1, <1>2, <1>3, <1>4 DEF Instead, g

LEMMA ContainerKeeps ==
  ASSUME NEW f, Here(f), f.step = "Expr", NEW kind \in {"NewArray", "NewMap"}, NEW size \in Nat,
         NEW fill \in {"Element", "Pair"}, buildContainer(kind, size, fill),
         fill = "Element" => f.node.node = "ArrayExpr" /\ DOMAIN f.node.elements = 1..size,
         fill = "Pair" => f.node.node = "MapExpr" /\ DOMAIN f.node.keys = 1..size
                            /\ Len(f.node.keys) = Len(f.node.values)
  PROVE  BuildInv'
<1> DEFINE i  == Inst(kind, VReg(Fresh), Invalid, Invalid, Invalid, size)
           s  == [k \in 1..size |-> Frame(fill, f.node, <<Fresh, k>>)]
           g  == Frame("Deliver", f.node, <<Fresh>>)
           cs == s \o <<g>>
<1>1. emit(1, 0, <<i>>) /\ Continue(Append(s, g)) /\ UNCHANGED <<context, meta, errors, env>>
  BY TopIs DEF buildContainer
<1>2. f.step \notin Switching \cup {"Loop", "VarDecl"} \cup DeclStep /\ f.step \in Running
  BY DEF DeclStep, Switching, ExprStep, Running
<1>3. <<i>> \in Seq(Range(<<i>>)) /\ Len(<<i>>) = 1 /\ DOMAIN <<i>> = {1} /\ <<i>>[1] = i /\ 0 \in Nat /\ 1 \in Nat
  BY One
<1>4. After(1, 0, <<i>>)
  BY <1>1, <1>2, <1>3, EmitAfter
<1> DEFINE func == LastFunc(ModuleIR')
<1>5. func \in FuncRecord /\ Fresh \in RegsOf(func) /\ RegsOf(Function) \subseteq RegsOf(func) /\ Fresh \in Nat
  BY <1>4 DEF After
<1>6. Function = LastFunc(ModuleIR) /\ FrameOK(f, RegsOf(Function), BlocksOf(Function))
  BY <1>2, WhereWeAre
<1>7. FrameOK(f, Regs2, Blks2)
  BY <1>4, <1>6, FramesStay DEF After, Regs2, Blks2
<1>8. Fresh \in Regs2
  BY <1>5 DEF Regs2
<1> HIDE DEF func
<1>9. Builds(1, <<i>>)
  <2>1. \A waiting \in BOOLEAN : InstOK(func, cur + 1, i, waiting) /\ Named(i, Fresh) /\ i.kind = kind
    BY <1>5, Makers
  <2>2. VReg(Fresh) \in NamedBy(i) /\ i.kind \notin Terminators
    BY <2>1 DEF Named, Terminators
  <2>3. \A r \in Fresh..(Fresh + 1 - 1) : r = Fresh
    BY <1>5
  <2>4. \A waiting \in BOOLEAN : InstOK(LastFunc(ModuleIR'), cur + 1, i, waiting)
    BY <2>1 DEF func
  <2> HIDE DEF i
  <2> QED
    BY <1>3, <2>2, <2>3, <2>4 DEF Builds
<1>10. Fills(ModuleIR, ModuleIR', cur, <<i>>, Pending(loops)) /\ ~Whole(ModuleIR', CurrentOf(ModuleIR', cur))
  BY <1>2, <1>4, <1>9, BuildsFills
<1>11. Settles(ModuleIR, ModuleIR', f, cs, <<i>>)
  <2>1. Fresh = LastFunc(ModuleIR).next_vreg /\ LastFunc(ModuleIR').next_vreg = Fresh + 1
    BY <1>4, <1>6 DEF After, Fresh
  <2> HIDE DEF i, cs
  <2>2. ASSUME NEW r \in LastFunc(ModuleIR).next_vreg..(LastFunc(ModuleIR').next_vreg - 1)
        PROVE  \E k \in DOMAIN <<i>> : VReg(r) \in NamedBy(<<i>>[k])
    <3>1. r \in Fresh..(Fresh + 1 - 1)
      BY <1>5, <2>1
    <3> QED
      BY <1>9, <3>1 DEF Builds
  <2> QED
    BY <1>2, <2>2 DEF Settles
<1> HIDE DEF i
<1>12. \A k \in 1..size : Instead(f, s[k], Regs2, Blks2, {}) /\ Targets(s[k]) = {} /\ s[k].step = fill
  <2> SUFFICES ASSUME NEW k \in 1..size
               PROVE  Instead(f, s[k], Regs2, Blks2, {}) /\ Targets(s[k]) = {} /\ s[k].step = fill
    OBVIOUS
  <2> DEFINE arg == <<Fresh, k>>
  <2>1. s[k] = Frame(fill, f.node, arg)
    OBVIOUS
  <2>2. arg[1] \in Regs2 /\ arg[2] \in 1..size
    BY <1>8
  <2> HIDE DEF s, arg
  <2> DEFINE x == Frame(fill, f.node, arg)
  <2>3. Instead(f, x, Regs2, Blks2, {}) /\ Targets(x) = {} /\ x.step = fill
    <3>1. f.node \in Tree
      BY <1>7 DEF FrameOK
    <3>2. /\ fill = "Element" => f.node.node = "ArrayExpr" /\ arg[2] \in DOMAIN f.node.elements
          /\ fill = "Pair" => f.node.node = "MapExpr" /\ arg[2] \in DOMAIN f.node.keys
                                /\ Len(f.node.keys) = Len(f.node.values)
      BY <2>2
    <3>3. fill \in {"Element", "Pair", "Deliver"}
      OBVIOUS
    <3>4. CASE fill = "Element"
      <4>1. arg[1] \in Regs2 /\ f.node.node = "ArrayExpr" /\ arg[2] \in DOMAIN f.node.elements
        BY <2>2, <3>2, <3>4
      <4> QED
        BY <3>1, <3>4, <4>1, ElementFrames
    <3>5. CASE fill = "Pair"
      <4>1. /\ arg[1] \in Regs2 /\ f.node.node = "MapExpr" /\ arg[2] \in DOMAIN f.node.keys
            /\ Len(f.node.keys) = Len(f.node.values)
        BY <2>2, <3>2, <3>5
      <4> QED
        BY <3>1, <3>5, <4>1, ElementFrames
    <3> QED
      BY <3>4, <3>5
  <2> HIDE DEF x
  <2>4. s[k] = x
    BY <2>1 DEF x
  <2> QED
    BY <2>3, <2>4
<1>13. Instead(f, g, Regs2, Blks2, {}) /\ Targets(g) = {} /\ g.step = "Deliver"
  <2> DEFINE arg == <<Fresh>>
  <2>1. arg[1] \in Regs2
    BY <1>8
  <2> HIDE DEF arg
  <2>2. f.node \in Tree
    BY <1>7 DEF FrameOK
  <2> DEFINE x == Frame("Deliver", f.node, arg)
  <2>3. Instead(f, x, Regs2, Blks2, {}) /\ Targets(x) = {} /\ x.step = "Deliver"
    BY <2>1, <2>2, DeliverFrame
  <2> QED
    BY <2>3 DEF arg
<1>14. s \in Seq(Range(s)) /\ Len(s) = size /\ DOMAIN s = 1..size
  <2>1. s = [k \in 1..size |-> s[k]]
    OBVIOUS
  <2> HIDE DEF s
  <2> QED
    BY <2>1, Numbered
<1> HIDE DEF s, g
<1>15. Longer(s, g, cs)
  BY <1>14, OneMore
<1> HIDE DEF cs
<1>16. /\ cs \in Seq(Range(cs)) /\ Len(cs) = size + 1 /\ DOMAIN cs = 1..(size + 1) /\ cs = Append(s, g)
       /\ \A k \in 1..size : cs[k] = s[k]
       /\ cs[size + 1] = g
  BY <1>14, <1>15 DEF Longer
<1>17. \A k \in 1..(size + 1) : /\ Instead(f, cs[k], Regs2, Blks2, {}) /\ Targets(cs[k]) = {}
                                /\ cs[k].step \in {"Element", "Pair", "Deliver"}
  <2>1. \A k \in 1..(size + 1) : k \in 1..size \/ k = size + 1
    OBVIOUS
  <2> QED
    BY <1>12, <1>13, <1>16, <2>1
<1>18. cs # <<>> /\ 1 \in 1..(size + 1)
  BY <1>16
<1>19. Replaces(cs, f, Regs2, Blks2, {})
  <2>1. \A k \in DOMAIN cs : Instead(f, cs[k], Regs2, Blks2, {}) /\ Targets(cs[k]) = {} /\ cs[k].step \notin DeclStep
    BY <1>16, <1>17 DEF DeclStep
  <2>2. \A k \in 1..(Len(cs) - 1) : cs[k + 1].step \in Callers(cs[k].step)
    <3> SUFFICES ASSUME NEW k \in 1..(Len(cs) - 1)
                 PROVE  cs[k + 1].step \in Callers(cs[k].step)
      OBVIOUS
    <3>1. k \in 1..size /\ k + 1 \in 1..(size + 1)
      BY <1>16
    <3>2. cs[k + 1].step \in {"Element", "Pair", "Deliver"} /\ cs[k].step \in {"Element", "Pair"}
      BY <1>12, <1>16, <1>17, <3>1
    <3> QED
      BY <3>2, CallersAre
  <2>3. LastInstead(f, cs[Len(cs)])
    <3>1. Callers(f.step) = Callers(g.step) /\ f.step \notin Outermost
      BY <1>13, CallersAre DEF Outermost, DeclStep
    <3> QED
      BY <1>16, <3>1 DEF LastInstead
  <2> QED
    BY <1>16, <1>18, <2>1, <2>2, <2>3, ReplacesMany
<1>20. Straightforward(cs, f)
  BY <1>2, <1>16, <1>17 DEF Straightforward, Switching, ExprStep
<1>21. NextFits(ModuleIR', cur, f, cs)
  <2>1. \A next \in {"Element", "Pair", "Deliver"} : Fits(ModuleIR', cur, next)
    BY <1>10 DEF Fits, Switching, DeclStep
  <2>2. cs[1].step \in {"Element", "Pair", "Deliver"}
    BY <1>17, <1>18
  <2> QED
    BY <1>18, <2>1, <2>2 DEF NextFits
<1>22. Continue(cs)
  BY <1>1, <1>16
<1>23. Context(ModuleIR', decl', open', locals')
  BY <1>1, <1>4, <1>6, ContextStays DEF Here, context, After
<1> QED
  BY <1>1, <1>3, <1>4, <1>10, <1>11, <1>19, <1>20, <1>21, <1>22, <1>23, PlainKeeps DEF context

LEMMA ArrayKeeps ==
  ASSUME NEW f, Here(f), buildArray
  PROVE  BuildInv'
<1> DEFINE size == Len(f.node.elements)
<1>1. f.step = "Expr" /\ f.node.node = "ArrayExpr" /\ buildContainer("NewArray", size, "Element")
  BY TopIs DEF buildArray, DoingNode, Doing
<1>2. f.step \notin DeclStep
  BY <1>1 DEF DeclStep
<1>3. f.node.elements \in Seq(Tree)
  <2>1. f.node \in Tree
    BY <1>2, WhereWeAre DEF FrameOK
  <2> QED
    BY <1>1, <2>1, TreeAssumption DEF Typed
<1>4. size \in Nat /\ DOMAIN f.node.elements = 1..size
  BY <1>3
<1> HIDE DEF size
<1> QED
  BY <1>1, <1>4, ContainerKeeps

LEMMA MapKeeps ==
  ASSUME NEW f, Here(f), buildMap
  PROVE  BuildInv'
<1> DEFINE size == Len(f.node.keys)
<1>1. f.step = "Expr" /\ f.node.node = "MapExpr" /\ Top = f
  BY TopIs DEF buildMap, DoingNode, Doing
<1>2. f.step \notin DeclStep
  BY <1>1 DEF DeclStep
<1>3. f.node.keys \in Seq(Tree)
  <2>1. f.node \in Tree
    BY <1>2, WhereWeAre DEF FrameOK
  <2> QED
    BY <1>1, <2>1, TreeAssumption DEF Typed
<1>4. size \in Nat /\ DOMAIN f.node.keys = 1..size
  BY <1>3
<1>5. CASE size = Len(f.node.values) /\ buildContainer("NewMap", size, "Pair")
  <2>1. Len(f.node.keys) = Len(f.node.values)
    BY <1>5
  <2> HIDE DEF size
  <2> QED
    BY <1>1, <1>4, <1>5, <2>1, ContainerKeeps
<1>6. CASE error("keys/values size mismatch")
  BY <1>6, ErrorKeeps
<1> QED
  BY <1>1, <1>5, <1>6 DEF buildMap

LEMMA AssignKeeps ==
  ASSUME NEW f, Here(f), assign
  PROVE  BuildInv'
<1> DEFINE op     == f.node.op
           target == f.arg[1]
           i == BinaryReg(CompoundInst[op], Fresh, target, f.got[1])
           j == MoveRegToReg(target, Fresh)
           m == MoveRegToReg(target, f.got[1])
<1>1. f.step = "Assign" /\ Len(f.got) = Len(Operands(f)) /\ Top = f
  BY TopIs DEF assign, Doing
<1>2. f.step \notin Switching \cup {"Loop", "VarDecl"} \cup DeclStep /\ f.step \in Running /\ f.step \in StmtStep
  BY <1>1 DEF DeclStep, Switching, Running, StmtStep
<1>3. f.got[1] \in RegsOf(Function) /\ target \in RegsOf(Function)
  BY <1>1, <1>2, GotAre, WhereWeAre DEF FrameOK
<1>4. ~Whole(ModuleIR, CurrentOf(ModuleIR, cur))
  BY <1>2, WhereWeAre
<1> HIDE DEF op, target
<1>5. CASE Effect(<<m>>)
  <2>1. Goes(m)
    <3> SUFFICES ASSUME NEW func \in FuncRecord, NEW waiting, RegsOf(Function) \subseteq RegsOf(func)
                 PROVE  InstOK(func, cur + 1, m, waiting)
      BY DEF Goes
    <3>1. f.got[1] \in RegsOf(func) /\ target \in RegsOf(func)
      BY <1>3
    <3> QED
      BY <3>1, MovesNames
  <2> HIDE DEF m
  <2> QED
    BY <1>1, <1>2, <1>4, <1>5, <2>1, EffectOne
<1>6. CASE /\ op \in DOMAIN CompoundInst /\ emit(1, 0, <<i, j>>) /\ EndCall
           /\ UNCHANGED <<context, meta, errors, env>>
  <2>1. /\ <<i, j>> \in Seq(Range(<<i, j>>)) /\ DOMAIN <<i, j>> = {1, 2} /\ <<i, j>>[1] = i /\ 0 \in Nat /\ 1 \in Nat
    BY Two
  <2>2. After(1, 0, <<i, j>>)
    BY <1>2, <1>6, <2>1, EmitAfter
  <2> DEFINE func == LastFunc(ModuleIR')
  <2>3. func \in FuncRecord /\ Fresh \in RegsOf(func) /\ RegsOf(Function) \subseteq RegsOf(func) /\ Fresh \in Nat
    BY <2>2 DEF After
  <2> HIDE DEF func
  <2>4. f.got[1] \in RegsOf(func) /\ target \in RegsOf(func)
    BY <1>3, <2>3
  <2>5. CompoundInst[op] \in DOMAIN mapBinaryOpcode
    BY <1>6 DEF CompoundInst, mapBinaryOpcode
  <2>6. /\ \A waiting \in BOOLEAN : InstOK(func, cur + 1, i, waiting)
        /\ Named(i, Fresh) /\ i.kind \notin Terminators
    BY <2>3, <2>4, <2>5, Binaries
  <2>7. \A waiting \in BOOLEAN : InstOK(func, cur + 1, j, waiting)
    BY <2>3, <2>4, MovesNames
  <2> HIDE DEF i, j
  <2>8. Fills(ModuleIR, ModuleIR', cur, <<i, j>>, Pending(loops))
    BY <1>4, <2>6, <2>7, FillsTwo DEF func
  <2>9. Settles(ModuleIR, ModuleIR', f, <<>>, <<i, j>>)
    <3>1. Fresh = LastFunc(ModuleIR).next_vreg /\ LastFunc(ModuleIR').next_vreg = Fresh + 1
      BY <1>2, <2>2, WhereWeAre DEF After, Fresh
    <3>2. ASSUME NEW r \in LastFunc(ModuleIR).next_vreg..(LastFunc(ModuleIR').next_vreg - 1)
          PROVE  \E k \in DOMAIN <<i, j>> : VReg(r) \in NamedBy(<<i, j>>[k])
      <4>1. r = Fresh
        BY <2>3, <3>1
      <4>2. VReg(r) \in NamedBy(<<i, j>>[1])
        BY <2>1, <2>6, <4>1 DEF Named
      <4> QED
        BY <2>1, <4>2
    <3> QED
      BY <1>2, <3>2 DEF Settles
  <2>10. NextFits(ModuleIR', cur, f, <<>>)
    BY <1>2, CallersFit
  <2>11. Context(ModuleIR', decl', open', locals')
    <3>1. RegsOf(LastFunc(ModuleIR)) \subseteq RegsOf(LastFunc(ModuleIR'))
      BY <1>2, <2>2, WhereWeAre DEF After
    <3> QED
      BY <1>6, <3>1, ContextStays DEF Here, context
  <2> QED
    BY <1>2, <1>6, <2>1, <2>2, <2>8, <2>9, <2>10, <2>11, EndKeeps DEF context
<1>7. CASE error("unsupported compound assignment")
  BY <1>7, ErrorKeeps
<1> QED
  BY <1>1, <1>5, <1>6, <1>7 DEF assign, op, target

LEMMA DeclareKeeps ==
  ASSUME NEW f, Here(f), declareVar
  PROVE  BuildInv'
<1> DEFINE n == f.node
           g == Frame("VarDecl", n, <<Fresh>>)
           i == Constant(Fresh, Invalid)
<1>1. /\ f.step = "Stmt" /\ n.node = "VarDeclStmt" /\ bind(n.name, Fresh)
      /\ \/ emit(1, 0, <<>>) /\ Continue(<<g>>)
         \/ emit(1, 0, <<i>>) /\ EndCall
      /\ UNCHANGED <<cur, open, loops, decl, meta, errors, env>>
  BY TopIs DEF declareVar, DoingNode, Doing
<1>2. /\ f.step \notin Switching \cup {"Loop", "VarDecl"} \cup DeclStep \cup ExprStep
      /\ f.step \in Running /\ f.step \in StmtStep
  BY <1>1 DEF DeclStep, Switching, Running, StmtStep, ExprStep
<1>3. ~Whole(ModuleIR, CurrentOf(ModuleIR, cur)) /\ Function = LastFunc(ModuleIR) /\ n \in Tree
  BY <1>2, WhereWeAre DEF FrameOK
<1>4. <<i>> \in Seq(Range(<<i>>)) /\ DOMAIN <<i>> = {1} /\ <<i>>[1] = i /\ 0 \in Nat /\ 1 \in Nat
  BY One
<1>5. ASSUME NEW is, After(1, 0, is)
      PROVE  Context(ModuleIR', decl', open', locals')
  <2>1. RegsOf(Function) \subseteq Regs2 /\ Fresh \in Regs2
    BY <1>5 DEF After, Regs2
  <2>2. \A x \in DOMAIN locals : locals[x] \in RegsOf(Function)
    BY <1>3 DEF Here, Context
  <2>3. \A x \in DOMAIN locals' : locals'[x] \in Regs2
    BY <1>1, <2>1, <2>2 DEF bind
  <2> QED
    BY <1>1, <2>3 DEF Here, Context, Regs2
<1>6. ASSUME NEW is, After(1, 0, is)
      PROVE  /\ LastFunc(ModuleIR).next_vreg = Fresh
             /\ \A r \in LastFunc(ModuleIR).next_vreg..(LastFunc(ModuleIR').next_vreg - 1) : r = Fresh
  <2>1. Fresh \in Nat /\ LastFunc(ModuleIR).next_vreg = Fresh /\ LastFunc(ModuleIR').next_vreg = Fresh + 1
    BY <1>3, <1>6 DEF After, Fresh
  <2> QED
    BY <2>1
<1>7. CASE emit(1, 0, <<>>) /\ Continue(<<g>>)
  <2>1. After(1, 0, <<>>)
    BY <1>2, <1>4, <1>7, None, EmitAfter
  <2> DEFINE r == Fresh
  <2>2. r \in Regs2
    BY <2>1 DEF After, Regs2
  <2>3. /\ g.step = "VarDecl" /\ g.node = n /\ g.arg = <<r>> /\ g.got = <<>>
        /\ g = [step |-> g.step, node |-> g.node, arg |-> g.arg, got |-> g.got]
    BY FrameIs
  <2> HIDE DEF g, r, n
  <2>4. Targets(g) = {} /\ g.step \notin DeclStep
    BY <2>3 DEF Targets, Switching, DeclStep
  <2>5. g.arg[1] \in Regs2 /\ g.arg[1] = r /\ <<>> \in Seq(Regs2)
    BY <2>2, <2>3
  <2>6. FrameOK(g, Regs2, Blks2)
    BY <1>1, <1>3, <2>3, <2>4, <2>5 DEF FrameOK
  <2>7. LastInstead(f, g)
    <3>1. Callers(f.step) = EitherWay /\ Callers(g.step) = EitherWay /\ f.step \notin Outermost
      BY <1>1, <2>3, CallersAre DEF Outermost, DeclStep, StmtStep
    <3> QED
      BY <3>1 DEF LastInstead
  <2>8. Replaces(<<g>>, f, Regs2, Blks2, {})
    BY <2>4, <2>6, <2>7, ReplacesOne DEF Instead
  <2>9. Straightforward(<<g>>, f)
    BY <1>2, <2>3, One DEF Straightforward, Switching
  <2>10. Fills(ModuleIR, ModuleIR', cur, <<>>, Pending(loops))
    BY FillsNothing
  <2>11. Settles(ModuleIR, ModuleIR', f, <<g>>, <<>>)
    <3>1. r \in Awaited(<<g>>)
      <4>1. 1 \in DOMAIN <<g>> /\ <<g>>[1] = g
        BY One
      <4> QED
        BY <2>3, <2>5, <4>1 DEF Awaited
    <3>2. \A x \in LastFunc(ModuleIR).next_vreg..(LastFunc(ModuleIR').next_vreg - 1) : x \in Awaited(<<g>>)
      BY <1>6, <2>1, <3>1 DEF r
    <3> QED
      BY <1>2, <3>2 DEF Settles
  <2>12. NextFits(ModuleIR', cur, f, <<g>>)
    <3>1. Growing(ModuleIR, cur) /\ Grown(ModuleIR, ModuleIR', cur, 1, 0, <<>>)
      BY <1>2, <2>1, WhereWeAre DEF After
    <3>2. ~Whole(ModuleIR', CurrentOf(ModuleIR', cur))
      BY <1>3, <3>1, Endings
    <3>3. Fits(ModuleIR', cur, "VarDecl")
      BY <3>2 DEF Fits, Switching, DeclStep
    <3> QED
      BY <2>3, <3>3, One DEF NextFits
  <2>13. Context(ModuleIR', decl', open', locals')
    BY <1>5, <2>1
  <2> QED
    BY <1>1, <1>4, <1>7, <2>1, <2>8, <2>9, <2>10, <2>11, <2>12, <2>13, PlainKeeps
<1>8. CASE emit(1, 0, <<i>>) /\ EndCall
  <2>1. After(1, 0, <<i>>)
    BY <1>2, <1>4, <1>8, EmitAfter
  <2> DEFINE func == LastFunc(ModuleIR')
  <2>2. func \in FuncRecord /\ Fresh \in RegsOf(func)
    BY <2>1 DEF After
  <2> HIDE DEF func
  <2>3. (\A waiting \in BOOLEAN : InstOK(func, cur + 1, i, waiting)) /\ Named(i, Fresh)
    BY <2>2, Constants
  <2> HIDE DEF i
  <2>4. Fills(ModuleIR, ModuleIR', cur, <<i>>, Pending(loops))
    BY <1>3, <2>3, FillsOne DEF func
  <2>5. Settles(ModuleIR, ModuleIR', f, <<>>, <<i>>)
    <3>1. VReg(Fresh) \in NamedBy(<<i>>[1]) /\ 1 \in DOMAIN <<i>>
      BY <1>4, <2>3 DEF Named
    <3>2. \A x \in LastFunc(ModuleIR).next_vreg..(LastFunc(ModuleIR').next_vreg - 1) :
            \E k \in DOMAIN <<i>> : VReg(x) \in NamedBy(<<i>>[k])
      BY <1>6, <2>1, <3>1
    <3> QED
      BY <1>2, <3>2 DEF Settles
  <2>6. NextFits(ModuleIR', cur, f, <<>>)
    BY <1>2, CallersFit
  <2>7. Context(ModuleIR', decl', open', locals')
    BY <1>5, <2>1
  <2> QED
    BY <1>1, <1>2, <1>4, <1>8, <2>1, <2>4, <2>5, <2>6, <2>7, EndKeeps
<1> QED
  BY <1>1, <1>7, <1>8

-----------------------------------------------------------------------------
(***************************************************************************)
(* Steps that go on in another block.                                      *)
(***************************************************************************)
LEMMA TurnKeeps ==
  ASSUME NEW f, Here(f), f.step \notin DeclStep, NEW cs, NEW fresh, NEW more, NEW is, After(fresh, more, is),
         Fills(ModuleIR, ModuleIR', cur, is, Pending(loops')),
         Replaces(cs, f, Regs2, Blks2, NewBlocks(ModuleIR, ModuleIR')),
         Settles(ModuleIR, ModuleIR', f, cs, is), Turns(ModuleIR, ModuleIR', cur, f, cs, cur'),
         Conditions(cs \o Tail(todo), cur'), Nesting(cs \o Tail(todo), Len(loops')),
         OpenLoops(loops', insts', Blks2), Pending(loops) \subseteq Pending(loops'),
         NextFits(ModuleIR', cur', f, cs), Continue(cs), Context(ModuleIR', decl', open', locals')
  PROVE  BuildInv'
<1> DEFINE ir  == ModuleIR
           ir2 == ModuleIR'
<1>1. Going(ir, todo, cur, loops) /\ todo # <<>> /\ f = todo[1]
  BY DEF Here
<1>2. Grown(ir, ir2, cur, fresh, more, is)
  BY DEF After
<1>3. Replaces(cs, f, RegsOf(LastFunc(ir2)), BlocksOf(LastFunc(ir2)), NewBlocks(ir, ir2))
  BY DEF Regs2, Blks2
<1>4. ir2.insts = insts'
  BY DEF ModuleIR
<1>5. OpenLoops(loops', ir2.insts, BlocksOf(LastFunc(ir2)))
  BY <1>4 DEF Blks2
<1>6. Position(ir2, cs \o Tail(todo), cur')
  <2>1. Stack(todo, RegsOf(LastFunc(ir)), BlocksOf(LastFunc(ir)))
    BY <1>1, InFunction
  <2>2. cs \in Seq(Range(cs))
    BY DEF Replaces
  <2>3. ir2.funcs # <<>>
    <3>1. Growing(ir, cur)
      BY WhereWeAre
    <3>2. FuncsGrow(ir, ir2, fresh, more)
      BY <1>2, <3>1, GrownFuncs
    <3> QED
      BY <3>2 DEF FuncsGrow
  <2>4. /\ cs # <<>> => Fits(ir2, cur', cs[1].step)
        /\ cs = <<>> => /\ todo[1].step \in Outermost => Whole(ir2, CurrentOf(ir2, cur'))
                        /\ \A next \in Callers(todo[1].step) : Fits(ir2, cur', next)
    BY <1>1 DEF NextFits
  <2> HIDE DEF ir, ir2
  <2> QED
    BY <1>1, <2>1, <2>2, <2>3, <2>4, Positioned
<1> HIDE DEF ir, ir2
<1> DEFINE c2  == cur'
           ls2 == loops'
<1> HIDE DEF c2, ls2
<1>7. Going(ir2, cs \o Tail(todo), c2, ls2)
  BY <1>1, <1>2, <1>3, <1>5, <1>6, CodeGoesOn DEF ir, ir2, c2, ls2
<1> QED
  BY <1>7 DEF BuildInv, Continue, ir2, c2, ls2

LEMMA PushIs ==
  ASSUME NEW f, Here(f), NEW g
  PROVE  <<g>> \o todo = <<g, f>> \o Tail(todo)
<1> DEFINE S == Range(todo) \cup {g}
           n == Len(todo)
           u == <<g>> \o todo
           v == <<g, f>> \o Tail(todo)
<1>1. todo \in Seq(Range(todo)) /\ todo # <<>> /\ f = todo[1]
  BY DEF Here, Going, Stack
<1>2. todo \in Seq(S)
  BY <1>1, RangeIs
<1> HIDE DEF S
<1>3. g \in S /\ f \in S
  BY <1>1, <1>2 DEF S
<1>4. u \in Seq(S) /\ Len(u) = n + 1 /\ u[1] = g /\ n \in Nat /\ \A k \in 1..n : u[k + 1] = todo[k]
  BY <1>2, <1>3
<1>5. Tail(todo) \in Seq(S) /\ Len(Tail(todo)) = n - 1 /\ \A k \in 1..(n - 1) : Tail(todo)[k] = todo[k + 1]
  BY <1>1, <1>2
<1>6. /\ v \in Seq(S) /\ Len(v) = n + 1 /\ v[1] = g /\ v[2] = f
      /\ \A k \in 1..(n - 1) : v[k + 2] = todo[k + 1]
  <2> DEFINE t == Tail(todo)
  <2> HIDE DEF t, n
  <2>1. t \in Seq(S) /\ Len(t) = n - 1 /\ (\A k \in 1..(n - 1) : t[k] = todo[k + 1]) /\ n \in Nat
    BY <1>4, <1>5 DEF t
  <2> DEFINE w == <<g, f>> \o t
  <2>2. w \in Seq(S) /\ Len(w) = Len(t) + 2 /\ w[1] = g /\ w[2] = f /\ \A k \in 1..Len(t) : w[k + 2] = t[k]
    BY <1>3, <2>1
  <2> HIDE DEF w
  <2>3. Len(w) = n + 1
    BY <2>1, <2>2
  <2>4. ASSUME NEW k \in 1..(n - 1)
        PROVE  w[k + 2] = todo[k + 1]
    <3>1. k \in 1..Len(t)
      BY <2>1
    <3>2. w[k + 2] = t[k]
      BY <2>2, <3>1
    <3> QED
      BY <2>1, <3>2
  <2> QED
    BY <2>2, <2>3, <2>4 DEF w, t
<1> HIDE DEF u, v, n
<1>7. ASSUME NEW k \in 1..(n + 1)
      PROVE  u[k] = v[k]
  <2>1. k = 1 \/ k = 2 \/ \E z \in 1..(n - 1) : k = z + 2
    <3>1. k = 1 \/ k = 2 \/ (k - 2 \in 1..(n - 1) /\ k = (k - 2) + 2)
      BY <1>4
    <3> QED
      BY <3>1
  <2>2. CASE k = 1
    BY <1>4, <1>6, <2>2
  <2>3. CASE k = 2
    <3>1. 1 \in 1..n /\ k = 1 + 1
      BY <1>4, <2>3
    <3>2. u[k] = todo[1]
      BY <1>4, <3>1
    <3> QED
      BY <1>1, <1>6, <2>3, <3>2
  <2>4. CASE \E z \in 1..(n - 1) : k = z + 2
    <3>1. PICK z \in 1..(n - 1) : k = z + 2
      BY <2>4
    <3>2. z + 1 \in 1..n /\ k = (z + 1) + 1
      BY <1>4, <3>1
    <3>3. u[k] = todo[z + 1]
      BY <1>4, <3>2
    <3> QED
      BY <1>6, <3>1, <3>3
  <2> QED
    BY <2>1, <2>2, <2>3, <2>4
<1>8. u = v
  BY <1>4, <1>6, <1>7
<1> QED
  BY <1>8 DEF u, v

LEMMA TargetsOfTwo ==
  ASSUME NEW f, NEW g
  PROVE  AllTargets(<<f, g>>) = Targets(f) \cup Targets(g)
BY Two DEF AllTargets

LEMMA TargetsOfThree ==
  ASSUME NEW f, NEW g, NEW h
  PROVE  AllTargets(<<f, g, h>>) = Targets(f) \cup Targets(g) \cup Targets(h)
BY Three DEF AllTargets

LEMMA TargetsOfOne ==
  ASSUME NEW f
  PROVE  AllTargets(<<f>>) = Targets(f)
BY One DEF AllTargets

LEMMA TargetsOfNone == AllTargets(<<>>) = {}
BY DEF AllTargets
LEMMA LoopsNow ==
  ASSUME NEW f, Here(f), f.step \notin DeclStep, NEW fresh, NEW more, NEW is, After(fresh, more, is)
  PROVE  OpenLoops(loops, insts', Blks2)
<1>1. Growing(ModuleIR, cur) /\ Grown(ModuleIR, ModuleIR', cur, fresh, more, is) /\ Function = LastFunc(ModuleIR)
  BY WhereWeAre DEF After
<1>2. InstsGrow(ModuleIR, ModuleIR', is)
  BY <1>1, GrownTables
<1>3. OpenLoops(loops, ModuleIR.insts, BlocksOf(LastFunc(ModuleIR)))
  BY DEF Here, Going
<1>4. BlocksOf(LastFunc(ModuleIR)) \subseteq Blks2
  BY <1>1 DEF After, Blks2
<1>5. OpenLoops(loops, ModuleIR'.insts, Blks2)
  BY <1>2, <1>3, <1>4, LoopsStay
<1> QED
  BY <1>5 DEF ModuleIR

LEMMA SameBlocks ==
  ASSUME NEW f, Here(f), f.step \notin DeclStep, NEW fresh, NEW is, After(fresh, 0, is)
  PROVE  NewBlocks(ModuleIR, ModuleIR') = {}
BY WhereWeAre, NoNewBlocks DEF After

LEMMA ContextNow ==
  ASSUME NEW f, Here(f), f.step \notin DeclStep, NEW fresh, NEW more, NEW is, After(fresh, more, is),
         UNCHANGED <<decl, open, locals>>
  PROVE  Context(ModuleIR', decl', open', locals')
<1>1. RegsOf(LastFunc(ModuleIR)) \subseteq RegsOf(LastFunc(ModuleIR'))
  BY WhereWeAre DEF After
<1>2. Context(ModuleIR', decl, open, locals)
  BY <1>1, ContextStays DEF Here
<1> QED
  BY <1>2

LEMMA OperandKeeps ==
  ASSUME NEW f, Here(f), buildOperand
  PROVE  BuildInv'
<1> DEFINE x  == Operands(f)[Len(f.got) + 1]
           g  == Frame("Expr", x, <<>>)
           cs == <<g, f>>
<1>1. /\ Len(f.got) < Len(Operands(f)) /\ todo' = <<g>> \o todo
      /\ UNCHANGED <<code, context, meta, errors, env>>
  BY TopIs DEF buildOperand
<1>2. /\ Stack(todo, RegsOf(LastFunc(ModuleIR)), BlocksOf(LastFunc(ModuleIR)))
      /\ todo \in Seq(Range(todo)) /\ todo # <<>> /\ f = todo[1]
      /\ Conditions(todo, cur) /\ Nesting(todo, Len(loops))
  BY DEF Here, Going, Stack
<1>3. FrameOK(f, RegsOf(LastFunc(ModuleIR)), BlocksOf(LastFunc(ModuleIR))) /\ 1 \in DOMAIN todo
  <2>1. 1 \in DOMAIN todo
    BY <1>2
  <2> QED
    BY <1>2, <2>1 DEF Stack
<1>4. Operands(f) \in Seq(Tree) /\ f.step \in {"Expr", "Element", "Pair"} \cup StmtStep
  <2>1. Operands(f) \in Seq(Tree) /\ (Operands(f) # <<>> => f.step \in {"Expr", "Element", "Pair"} \cup StmtStep)
    BY <1>3, OperandsAreNodes
  <2>2. Operands(f) # <<>>
    <3>1. CASE f.step \in DeclStep
      <4>1. Operands(f) = <<>> \/ Operands(f) # <<>>
        OBVIOUS
      <4>2. f.got = <<>>
        BY <1>3, <3>1 DEF FrameOK
      <4> QED
        BY <1>1, <4>2
    <3>2. CASE f.step \notin DeclStep
      <4>1. f.got \in Seq(RegsOf(LastFunc(ModuleIR)))
        BY <1>3, <3>2 DEF FrameOK
      <4>2. Len(f.got) \in Nat
        BY <4>1
      <4> QED
        BY <1>1, <4>2
    <3> QED
      BY <3>1, <3>2
  <2> QED
    BY <2>1, <2>2
<1>5. f.step \notin Switching \cup DeclStep /\ f.step \in Running /\ f.step \in ExprStep \cup StmtStep
  BY <1>4 DEF DeclStep, Switching, Running, ExprStep, StmtStep
<1>6. x \in Tree
  <2>1. f.got \in Seq(RegsOf(LastFunc(ModuleIR)))
    BY <1>3, <1>5 DEF FrameOK
  <2>2. Len(f.got) \in Nat
    BY <2>1
  <2> QED
    BY <1>1, <1>4, <2>2
<1> HIDE DEF x
<1>7. Instead(f, g, Regs2, Blks2, {}) /\ Targets(g) = {} /\ g.step = "Expr"
  BY <1>6, PlainFrames, PlainSteps
<1> HIDE DEF g
<1>8. After(0, 0, <<>>)
  BY <1>1, <1>5, SameAfter
<1>9. NewBlocks(ModuleIR, ModuleIR') = {}
  BY <1>5, <1>8, SameBlocks
<1>10. FrameOK(f, Regs2, Blks2) /\ Function = LastFunc(ModuleIR)
  BY <1>3, <1>5, <1>8, FramesStay, WhereWeAre DEF After, Regs2, Blks2
<1>11. Replaces(cs, f, Regs2, Blks2, {})
  <2>1. Instead(f, f, Regs2, Blks2, {})
    BY <1>10 DEF Instead
  <2>2. Ordered(g, f)
    BY <1>5, <1>7, CallersAre DEF Ordered, DeclStep
  <2>3. LastInstead(f, f)
    BY DEF LastInstead
  <2> QED
    BY <1>7, <2>1, <2>2, <2>3, ReplacesTwo
<1>12. /\ cs \in Seq(Range(cs)) /\ DOMAIN cs = {1, 2} /\ cs[1] = g /\ cs[2] = f
  BY Two
<1>13. AllTargets(cs) = Targets(f)
  BY <1>7, TargetsOfTwo
<1> HIDE DEF cs
<1>14. cur' = cur /\ loops' = loops
  BY <1>1 DEF context
<1>15. Turns(ModuleIR, ModuleIR', cur, f, cs, cur')
  <2>1. cur \notin AllTargets(todo)
    BY <1>2, <1>5, InFunction DEF Here
  <2>2. cur \notin Targets(f)
    BY <1>2, <1>3, <2>1 DEF AllTargets
  <2> QED
    BY <1>9, <1>13, <1>14, <2>2 DEF Turns
<1>16. Settles(ModuleIR, ModuleIR', f, cs, <<>>)
  <2>1. f.step = "VarDecl" => f.arg[1] \in Awaited(cs)
    BY <1>12 DEF Awaited
  <2>2. 0 \in Nat
    OBVIOUS
  <2> QED
    BY <1>5, <1>8, <2>1, <2>2, NothingFresh
<1>17. Conditions(cs \o Tail(todo), cur')
  <2>1. f.step = "Loop" => cur = f.arg[1]
    BY <1>2, <1>3 DEF Conditions
  <2>2. \A k \in DOMAIN cs : cs[k].step = "Loop" =>
          cur = cs[k].arg[1] /\ \A j \in DOMAIN cs : j < k => cs[j].step \in ExprStep
    <3>1. \A k \in DOMAIN cs : cs[k].step = "Loop" => k = 2 /\ cs[k] = f
      BY <1>7, <1>12
    <3>2. \A j \in DOMAIN cs : j < 2 => cs[j].step \in ExprStep
      BY <1>7, <1>12 DEF ExprStep
    <3> QED
      BY <2>1, <3>1, <3>2
  <2>3. todo[1].step \in ExprStep => cur = cur /\ \A k \in DOMAIN cs : cs[k].step \in ExprStep
    BY <1>2, <1>7, <1>12 DEF ExprStep
  <2> QED
    BY <1>2, <1>12, <1>14, <2>2, <2>3, ConditionsGoOn
<1>18. Nesting(cs \o Tail(todo), Len(loops'))
  <2>1. ~IsLoop(g)
    BY <1>7 DEF IsLoop
  <2>2. \A k \in DOMAIN cs : IsLoop(cs[k]) => k = 2 /\ IsLoop(f) /\ cs[k] = f
    BY <1>12, <2>1
  <2>3. \A k \in DOMAIN cs : IsLoop(cs[k]) => IsLoop(todo[1]) /\ cs[k].arg[2] = todo[1].arg[2]
    BY <1>2, <2>2
  <2>4. \A j, k \in DOMAIN cs : IsLoop(cs[j]) /\ IsLoop(cs[k]) => j = k
    BY <2>2
  <2>5. IsLoop(todo[1]) => \E k \in DOMAIN cs : IsLoop(cs[k])
    BY <1>2, <1>12
  <2> QED
    BY <1>2, <1>12, <1>14, <2>3, <2>4, <2>5, NestingGoesOn
<1>19. NextFits(ModuleIR', cur', f, cs)
  <2>1. Growing(ModuleIR, cur) /\ Grown(ModuleIR, ModuleIR', cur, 0, 0, <<>>)
    BY <1>5, <1>8, WhereWeAre DEF After
  <2>2. ~Whole(ModuleIR', CurrentOf(ModuleIR', cur))
    BY <1>5, <2>1, WhereWeAre, Endings
  <2>3. Fits(ModuleIR', cur, "Expr")
    BY <2>2 DEF Fits, Switching, DeclStep
  <2> QED
    BY <1>7, <1>12, <1>14, <2>3 DEF NextFits
<1>20. Continue(cs)
  BY <1>1, PushIs DEF Continue, cs
<1>21. Context(ModuleIR', decl', open', locals')
  BY <1>1, <1>5, <1>8, ContextNow DEF context
<1>22. OpenLoops(loops', insts', Blks2) /\ Pending(loops) \subseteq Pending(loops')
  BY <1>5, <1>8, <1>14, LoopsNow
<1>23. Fills(ModuleIR, ModuleIR', cur, <<>>, Pending(loops'))
  BY FillsNothing
<1> QED
  BY <1>5, <1>8, <1>9, <1>11, <1>15, <1>16, <1>17, <1>18, <1>19, <1>20, <1>21, <1>22, <1>23, TurnKeeps

LEMMA NoLoops ==
  ASSUME NEW f, Here(f), f.step \notin {"Loop", "ExitLoop"} \cup ExprStep, NEW cs, cs \in Seq(Range(cs)),
         \A k \in DOMAIN cs : cs[k].step \notin {"Loop", "ExitLoop"}, NEW c2
  PROVE  Conditions(cs \o Tail(todo), c2) /\ Nesting(cs \o Tail(todo), Len(loops))
<1>1. /\ todo \in Seq(Range(todo)) /\ todo # <<>> /\ f = todo[1]
      /\ Conditions(todo, cur) /\ Nesting(todo, Len(loops))
  BY DEF Here, Going, Stack
<1>2. Conditions(cs \o Tail(todo), c2)
  <2>1. \A k \in DOMAIN cs : cs[k].step = "Loop" =>
          c2 = cs[k].arg[1] /\ \A j \in DOMAIN cs : j < k => cs[j].step \in ExprStep
    OBVIOUS
  <2>2. todo[1].step \in ExprStep => c2 = cur /\ \A k \in DOMAIN cs : cs[k].step \in ExprStep
    BY <1>1
  <2> QED
    BY <1>1, <2>1, <2>2, ConditionsGoOn
<1>3. Nesting(cs \o Tail(todo), Len(loops))
  <2>1. ~IsLoop(todo[1]) /\ \A k \in DOMAIN cs : ~IsLoop(cs[k])
    BY <1>1 DEF IsLoop
  <2>2. \A k \in DOMAIN cs : IsLoop(cs[k]) => IsLoop(todo[1]) /\ cs[k].arg[2] = todo[1].arg[2]
    BY <2>1
  <2>3. \A j, k \in DOMAIN cs : IsLoop(cs[j]) /\ IsLoop(cs[k]) => j = k
    BY <2>1
  <2>4. IsLoop(todo[1]) => \E k \in DOMAIN cs : IsLoop(cs[k])
    BY <2>1
  <2> QED
    BY <1>1, <2>2, <2>3, <2>4, NestingGoesOn
<1> QED
  BY <1>2, <1>3

\* A call that goes on in a block.
LEMMA BlockFrames ==
  ASSUME NEW step_ \in {"Arm", "Switch", "ExitLoop"}, NEW node \in Tree, NEW regs, NEW blks, NEW new, NEW f, NEW arg,
         arg[1] \in blks, arg[1] \in Targets(f) \cup new, step_ = "Arm" => arg[2] \in blks
  PROVE  /\ Instead(f, Frame(step_, node, arg), regs, blks, new)
         /\ Targets(Frame(step_, node, arg)) = {arg[1]} /\ Frame(step_, node, arg).step = step_
         /\ Frame(step_, node, arg).arg = arg
<1> DEFINE g == Frame(step_, node, arg)
<1>1. /\ g.step = step_ /\ g.node = node /\ g.arg = arg /\ g.got = <<>>
      /\ g = [step |-> g.step, node |-> g.node, arg |-> g.arg, got |-> g.got]
  BY FrameIs
<1> HIDE DEF g
<1>2. Targets(g) = {arg[1]}
  BY <1>1 DEF Targets, Switching
<1>3. <<>> \in Seq(regs) /\ g.step \notin DeclStep
  BY <1>1 DEF DeclStep
<1>4. FrameOK(g, regs, blks)
  BY <1>1, <1>2, <1>3 DEF FrameOK
<1> QED
  BY <1>1, <1>2, <1>3, <1>4 DEF Instead, g

\* The current block gets a terminator.
LEMMA Closes ==
  ASSUME NEW f, Here(f), f.step \in Running, NEW more \in Nat, NEW i, i.kind \in Terminators,
         emit(0, more, <<i>>)
  PROVE  /\ After(0, more, <<i>>) /\ Whole(ModuleIR', CurrentOf(ModuleIR', cur))
         /\ NewBlocks(ModuleIR, ModuleIR') = NewBlock..(NewBlock + more - 1)
         /\ cur \in 0..(NewBlock - 1) /\ cur \in Nat
<1>1. f.step \notin DeclStep
  BY DEF DeclStep, Running, ExprStep, StmtStep
<1>2. 0 \in Nat /\ <<i>> \in Seq(Range(<<i>>)) /\ <<i>> # <<>> /\ <<i>>[Len(<<i>>)] = i
  BY One
<1>3. After(0, more, <<i>>)
  BY <1>1, <1>2, EmitAfter
<1>4. Growing(ModuleIR, cur) /\ Grown(ModuleIR, ModuleIR', cur, 0, more, <<i>>) /\ cur \in BlocksOf(Function)
  BY <1>1, <1>3, WhereWeAre DEF After
<1>5. Whole(ModuleIR', CurrentOf(ModuleIR', cur))
  BY <1>2, <1>4, Endings
<1>6. BlocksOf(Function) = 0..(NewBlock - 1) /\ Blks2 = 0..(NewBlock + more - 1) /\ NewBlock \in Nat
  BY <1>3 DEF After, Blks2
<1>7. NewBlocks(ModuleIR, ModuleIR') = Blks2 \ BlocksOf(Function)
  BY <1>1, WhereWeAre DEF NewBlocks, Blks2
<1>8. NewBlocks(ModuleIR, ModuleIR') = NewBlock..(NewBlock + more - 1)
  BY <1>6, <1>7
<1> QED
  BY <1>3, <1>4, <1>5, <1>6, <1>8

LEMMA JoinedTwo ==
  ASSUME NEW g, NEW h
  PROVE  <<g>> \o <<h>> = <<g, h>>
<1> DEFINE u == <<g>> \o <<h>>
           v == <<g, h>>
<1>1. Longer(<<g>>, h, u)
  BY One, OneMore
<1>2. Len(u) = 2 /\ u[1] = g /\ u[2] = h /\ u \in Seq(Range(u))
  BY <1>1, One DEF Longer
<1>3. Len(v) = 2 /\ v[1] = g /\ v[2] = h /\ v \in Seq(Range(v))
  BY Two
<1> HIDE DEF u, v
<1>4. \A j \in 1..2 : u[j] = v[j]
  <2>1. \A j \in 1..2 : j = 1 \/ j = 2
    OBVIOUS
  <2> QED
    BY <1>2, <1>3, <2>1
<1>5. u = v
  BY <1>2, <1>3, <1>4
<1> QED
  BY <1>5 DEF u, v

LEMMA Joined ==
  ASSUME NEW g, NEW h, NEW k
  PROVE  <<g>> \o <<h>> \o <<k>> = <<g, h, k>> /\ <<g>> \o <<>> \o <<k>> = <<g, k>>
<1> DEFINE u == <<g, h>> \o <<k>>
           v == <<g, h, k>>
<1>1. Longer(<<g, h>>, k, u)
  BY Two, OneMore
<1>2. Len(u) = 3 /\ u[1] = g /\ u[2] = h /\ u[3] = k /\ u \in Seq(Range(u))
  BY <1>1, Two DEF Longer
<1>3. Len(v) = 3 /\ v[1] = g /\ v[2] = h /\ v[3] = k /\ v \in Seq(Range(v))
  BY Three
<1> HIDE DEF u, v
<1>4. \A j \in 1..3 : u[j] = v[j]
  <2>1. \A j \in 1..3 : j = 1 \/ j = 2 \/ j = 3
    OBVIOUS
  <2> QED
    BY <1>2, <1>3, <2>1
<1>5. u = v
  BY <1>2, <1>3, <1>4
<1>6. <<g>> \o <<h>> \o <<k>> = <<g, h, k>>
  BY <1>5, JoinedTwo DEF u, v
<1>7. <<g>> \o <<>> = <<g>>
  OBVIOUS
<1> QED
  BY <1>6, <1>7, JoinedTwo

LEMMA IfKeeps ==
  ASSUME NEW f, Here(f), buildIf
  PROVE  BuildInv'
<1> DEFINE n    == f.node
           x    == NewBlock
           m    == IF IsValid(n.else) THEN 3 ELSE 2
           z    == IF IsValid(n.else) THEN x + 2 ELSE x + 1
           i    == BranchOnReg(f.got[1], x, z)
           a1   == <<x, x + 1>>
           a2   == <<x + 2, x + 1>>
           a3   == <<x + 1>>
           g    == Frame("Arm", n.then, a1)
           h    == Frame("Arm", n.else, a2)
           k    == Frame("Switch", n, a3)
           cs   == IF IsValid(n.else) THEN <<g, h, k>> ELSE <<g, k>>
<1>1. /\ f.step = "Stmt" /\ n.node = "IfStmt" /\ Len(f.got) = Len(Operands(f))
      /\ emit(0, m, <<i>>) /\ UNCHANGED <<context, meta, errors, env>>
  BY TopIs DEF buildIf, DoingNode, Doing
<1>2. Continue(cs)
  <2>1. Continue(<<g>> \o (IF IsValid(n.else) THEN <<h>> ELSE <<>>) \o <<k>>)
    <3>1. CASE IsValid(n.else)
      BY <3>1, TopIs DEF buildIf
    <3>2. CASE ~IsValid(n.else)
      BY <3>2, TopIs DEF buildIf
    <3> QED
      BY <3>1, <3>2
  <2> HIDE DEF g, h, k
  <2>2. <<g>> \o <<h>> \o <<k>> = <<g, h, k>> /\ <<g>> \o <<>> \o <<k>> = <<g, k>>
    BY Joined
  <2> QED
    BY <2>1, <2>2
<1>3. /\ f.step \notin Switching \cup {"Loop", "VarDecl", "ExitLoop"} \cup DeclStep \cup ExprStep
      /\ f.step \in Running /\ f.step \in StmtStep
  BY <1>1 DEF DeclStep, Switching, Running, StmtStep, ExprStep
<1>4. f.got[1] \in RegsOf(Function) /\ n \in Tree /\ n.then \in Tree /\ n.else \in Tree
  <2>1. n \in Tree
    BY <1>3, WhereWeAre DEF FrameOK
  <2>2. Typed(n)
    BY <2>1, TreeAssumption
  <2> QED
    BY <1>1, <1>3, <2>1, <2>2, GotAre DEF Typed
<1>5. i.kind \in Terminators /\ m \in Nat
  BY DEF BranchOnReg, Inst, Terminators
<1> DEFINE new == NewBlocks(ModuleIR, ModuleIR')
<1>6. /\ After(0, m, <<i>>) /\ Whole(ModuleIR', CurrentOf(ModuleIR', cur))
      /\ new = x..(x + m - 1) /\ cur \in 0..(x - 1) /\ cur \in Nat
  BY <1>1, <1>3, <1>5, Closes
<1>7. x \in Nat /\ Blks2 = 0..(x + m - 1) /\ LastFunc(ModuleIR') \in FuncRecord /\ RegsOf(Function) \subseteq Regs2
  BY <1>6 DEF After, Blks2, Regs2
<1> HIDE DEF new, x
<1>8. /\ x \in new /\ x + 1 \in new /\ new \subseteq Blks2 /\ z \in new /\ cur \notin new
      /\ IsValid(n.else) => x + 2 \in new /\ new = {x, x + 1, x + 2}
      /\ ~IsValid(n.else) => new = {x, x + 1}
  BY <1>6, <1>7
<1>9. Fills(ModuleIR, ModuleIR', cur, <<i>>, Pending(loops'))
  <2>1. x >= cur + 1 /\ cur + 1 \in Nat /\ x \in Blks2 /\ z \in Blks2 /\ f.got[1] \in Regs2
    BY <1>4, <1>6, <1>7, <1>8
  <2> HIDE DEF z
  <2>2. \A waiting \in BOOLEAN : InstOK(LastFunc(ModuleIR'), cur + 1, i, waiting)
    BY <1>7, <2>1, Jumps DEF Blks2, Regs2
  <2>3. ~Whole(ModuleIR, CurrentOf(ModuleIR, cur))
    BY <1>3, WhereWeAre
  <2> HIDE DEF i
  <2> QED
    BY <2>2, <2>3, FillsOne
<1>10. /\ a1[1] = x /\ a1[2] = x + 1 /\ a2[1] = x + 2 /\ a2[2] = x + 1 /\ a3[1] = x + 1
  OBVIOUS
<1> HIDE DEF a1, a2, a3, i, n
<1>11. Instead(f, g, Regs2, Blks2, new) /\ Targets(g) = {x} /\ g.step = "Arm"
  <2>1. x \in Blks2 /\ x + 1 \in Blks2 /\ x \in Targets(f) \cup new
    BY <1>8
  <2>2. n.then \in Tree /\ a1[1] \in Blks2 /\ a1[1] \in Targets(f) \cup new /\ a1[2] \in Blks2
    BY <1>4, <1>10, <2>1
  <2>3. "Arm" \in {"Arm", "Switch", "ExitLoop"}
    OBVIOUS
  <2> DEFINE nd == n.then
  <2> HIDE DEF nd
  <2>4. nd \in Tree
    BY <2>2 DEF nd
  <2>5. Instead(f, Frame("Arm", nd, a1), Regs2, Blks2, new) /\ Targets(Frame("Arm", nd, a1)) = {a1[1]}
        /\ Frame("Arm", nd, a1).step = "Arm"
    BY <2>2, <2>3, <2>4, BlockFrames
  <2> QED
    BY <1>10, <2>5 DEF g, nd
<1>12. Instead(f, k, Regs2, Blks2, new) /\ Targets(k) = {x + 1} /\ k.step = "Switch"
  BY <1>4, <1>8, <1>10, BlockFrames
<1>13. IsValid(n.else) => Instead(f, h, Regs2, Blks2, new) /\ Targets(h) = {x + 2} /\ h.step = "Arm"
  BY <1>4, <1>8, <1>10, BlockFrames
<1> HIDE DEF g, h, k
<1>14. LastInstead(f, k)
  <2>1. Callers(f.step) = EitherWay /\ Callers(k.step) = EitherWay /\ f.step \notin Outermost
    BY <1>3, <1>12, CallersAre DEF Outermost, DeclStep, StmtStep
  <2> QED
    BY <2>1 DEF LastInstead
<1>15. Callers("Arm") = Switching /\ "Arm" \in Switching /\ "Switch" \in Switching /\ "Arm" \notin DeclStep
  BY CallersAre DEF Switching, DeclStep
<1>16. /\ Replaces(cs, f, Regs2, Blks2, new) /\ AllTargets(cs) = new
       /\ cs # <<>> /\ cs[1] = g /\ \A j \in DOMAIN cs : cs[j].step \in {"Arm", "Switch"}
  <2>1. CASE IsValid(n.else)
    <3>1. Ordered(g, h) /\ Ordered(h, k) /\ Targets(g) \cap Targets(k) = {}
      <4>1. {x} \cap {x + 2} = {} /\ {x + 2} \cap {x + 1} = {} /\ {x} \cap {x + 1} = {}
        BY <1>7
      <4> QED
        BY <1>11, <1>12, <1>13, <1>15, <2>1, <4>1 DEF Ordered
    <3>2. cs = <<g, h, k>>
      BY <2>1
    <3> HIDE DEF cs
    <3>3. Replaces(cs, f, Regs2, Blks2, new)
      BY <1>11, <1>12, <1>13, <1>14, <2>1, <3>1, <3>2, ReplacesThree
    <3>4. AllTargets(cs) = new
      BY <1>8, <1>11, <1>12, <1>13, <2>1, <3>2, TargetsOfThree
    <3>5. DOMAIN cs = {1, 2, 3} /\ cs[1] = g /\ cs[2] = h /\ cs[3] = k /\ cs # <<>>
      BY <3>2, Three
    <3> QED
      BY <1>11, <1>12, <1>13, <2>1, <3>3, <3>4, <3>5
  <2>2. CASE ~IsValid(n.else)
    <3>1. Ordered(g, k)
      <4>1. {x} \cap {x + 1} = {}
        BY <1>7
      <4> QED
        BY <1>11, <1>12, <1>15, <4>1 DEF Ordered
    <3>2. cs = <<g, k>>
      BY <2>2
    <3> HIDE DEF cs
    <3>3. Replaces(cs, f, Regs2, Blks2, new)
      BY <1>11, <1>12, <1>14, <3>1, <3>2, ReplacesTwo
    <3>4. AllTargets(cs) = new
      BY <1>8, <1>11, <1>12, <2>2, <3>2, TargetsOfTwo
    <3>5. DOMAIN cs = {1, 2} /\ cs[1] = g /\ cs[2] = k /\ cs # <<>>
      BY <3>2, Two
    <3> QED
      BY <1>11, <1>12, <3>3, <3>4, <3>5
  <2> QED
    BY <2>1, <2>2
<1> HIDE DEF cs, m
<1>17. cur' = cur /\ loops' = loops /\ UNCHANGED <<decl, open, locals>>
  BY <1>1 DEF context
<1>18. Turns(ModuleIR, ModuleIR', cur, f, cs, cur')
  <2>1. Targets(f) = {}
    BY <1>3 DEF Targets
  <2> QED
    BY <1>8, <1>16, <1>17, <2>1 DEF Turns, new
<1>19. Settles(ModuleIR, ModuleIR', f, cs, <<i>>)
  BY <1>3, <1>5, <1>6, NothingFresh
<1>20. cs \in Seq(Range(cs)) /\ \A j \in DOMAIN cs : cs[j].step \notin {"Loop", "ExitLoop"}
  BY <1>16 DEF Replaces
<1>21. Conditions(cs \o Tail(todo), cur') /\ Nesting(cs \o Tail(todo), Len(loops'))
  BY <1>3, <1>17, <1>20, NoLoops
<1>22. NextFits(ModuleIR', cur', f, cs)
  <2>1. Fits(ModuleIR', cur, "Arm")
    BY <1>6 DEF Fits, Running, ExprStep, StmtStep
  <2> QED
    BY <1>11, <1>16, <1>17, <2>1 DEF NextFits
<1>23. Context(ModuleIR', decl', open', locals')
  BY <1>3, <1>6, <1>17, ContextNow
<1>24. OpenLoops(loops', insts', Blks2) /\ Pending(loops) \subseteq Pending(loops')
  BY <1>3, <1>6, <1>17, LoopsNow
<1> QED
  BY <1>2, <1>3, <1>6, <1>9, <1>16, <1>18, <1>19, <1>21, <1>22, <1>23, <1>24, TurnKeeps DEF new

\* A block that a call will go on in is empty, and another than the current one.
LEMMA TargetEmpty ==
  ASSUME NEW f, Here(f), f.step \notin DeclStep, NEW t \in Targets(f)
  PROVE  /\ t \in BlocksOf(Function) /\ t # cur
         /\ CurrentOf(ModuleIR, t) = EmptyBlock /\ ~Whole(ModuleIR, CurrentOf(ModuleIR, t))
<1>1. /\ Going(ModuleIR, todo, cur, loops) /\ todo # <<>> /\ f = todo[1] /\ Function = LastFunc(ModuleIR)
  BY WhereWeAre DEF Here
<1>2. 1 \in DOMAIN todo /\ AllTargets(todo) \subseteq BlocksOf(LastFunc(ModuleIR)) /\ cur \notin AllTargets(todo)
      /\ ModuleIR.funcs # <<>>
  BY <1>1, InFunction
<1>3. t \in AllTargets(todo)
  BY <1>1, <1>2 DEF AllTargets
<1>4. Finished(ModuleIR, AllTargets(todo), cur)
  BY <1>1 DEF Going, Tables
<1>5. BlockOf(ModuleIR, LastFunc(ModuleIR), t + 1) = EmptyBlock
  BY <1>2, <1>3, <1>4 DEF Finished
<1> QED
  BY <1>1, <1>2, <1>3, <1>5 DEF CurrentOf, Whole

LEMMA MoveKeeps ==
  ASSUME NEW f, Here(f), f.step \in {"Arm", "Switch"}, UNCHANGED code, cur' = f.arg[1],
         UNCHANGED <<locals, open, loops, decl>>, NEW cs, Replaces(cs, f, RegsOf(Function), BlocksOf(Function), {}),
         AllTargets(cs) = {}, \A k \in DOMAIN cs : cs[k].step \notin {"Loop", "ExitLoop"},
         IF f.step = "Arm" THEN cs # <<>> /\ cs[1].step = "Stmt" ELSE cs = <<>>, Continue(cs)
  PROVE  BuildInv'
<1>1. /\ f.step \notin {"Loop", "VarDecl", "ExitLoop"} \cup DeclStep \cup ExprStep
      /\ f.step \in Switching /\ Targets(f) = {f.arg[1]}
  BY DEF DeclStep, Switching, ExprStep, Targets
<1>2. After(0, 0, <<>>)
  BY <1>1, SameAfter
<1>3. NewBlocks(ModuleIR, ModuleIR') = {}
  BY <1>1, <1>2, SameBlocks
<1>4. Growing(ModuleIR, cur) /\ Grown(ModuleIR, ModuleIR', cur, 0, 0, <<>>) /\ Whole(ModuleIR, CurrentOf(ModuleIR, cur))
  BY <1>1, <1>2, WhereWeAre DEF After
<1>5. Whole(ModuleIR', CurrentOf(ModuleIR', cur))
  BY <1>4, Endings
<1>6. Regs2 = RegsOf(Function) /\ Blks2 = BlocksOf(Function)
  BY <1>2 DEF After, Regs2, Blks2
<1>7. Replaces(cs, f, Regs2, Blks2, NewBlocks(ModuleIR, ModuleIR'))
  BY <1>3, <1>6
<1>8. Turns(ModuleIR, ModuleIR', cur, f, cs, cur')
  BY <1>1, <1>3, <1>5 DEF Turns
<1>9. Settles(ModuleIR, ModuleIR', f, cs, <<>>)
  <2>1. 0 \in Nat
    OBVIOUS
  <2> QED
    BY <1>1, <1>2, <2>1, NothingFresh
<1>10. cs \in Seq(Range(cs))
  BY DEF Replaces
<1>11. Conditions(cs \o Tail(todo), cur') /\ Nesting(cs \o Tail(todo), Len(loops'))
  BY <1>1, <1>10, NoLoops
<1>12. NextFits(ModuleIR', cur', f, cs)
  <2>1. CASE f.step = "Arm"
    <3>1. ~Whole(ModuleIR, CurrentOf(ModuleIR, cur'))
      BY <1>1, TargetEmpty
    <3>2. Same(ModuleIR, ModuleIR')
      BY DEF Same, ModuleIR, code
    <3>3. ~Whole(ModuleIR', CurrentOf(ModuleIR', cur'))
      BY <3>1, <3>2 DEF Same, Whole, CurrentOf, BlockOf, LastFunc
    <3>4. Fits(ModuleIR', cur', "Stmt")
      BY <3>3 DEF Fits, Switching, DeclStep
    <3> QED
      BY <2>1, <3>4 DEF NextFits
  <2>2. CASE f.step = "Switch"
    <3>1. Callers(f.step) = EitherWay /\ f.step \notin Outermost
      BY <2>2, CallersAre DEF Outermost, DeclStep
    <3>2. \A next \in EitherWay : Fits(ModuleIR', cur', next)
      BY DEF EitherWay, Fits, Running, Switching, DeclStep, ExprStep, StmtStep
    <3> QED
      BY <2>2, <3>1, <3>2 DEF NextFits
  <2> QED
    BY <2>1, <2>2
<1>13. Context(ModuleIR', decl', open', locals')
  BY <1>1, <1>2, ContextNow
<1>14. OpenLoops(loops', insts', Blks2) /\ Pending(loops) \subseteq Pending(loops')
  BY <1>1, <1>2, LoopsNow
<1>15. Fills(ModuleIR, ModuleIR', cur, <<>>, Pending(loops'))
  BY FillsNothing
<1> QED
  BY <1>1, <1>2, <1>7, <1>8, <1>9, <1>11, <1>12, <1>13, <1>14, <1>15, TurnKeeps

LEMMA ArmKeeps ==
  ASSUME NEW f, Here(f), enterArm
  PROVE  BuildInv'
<1> DEFINE n  == f.node
           a  == <<f.arg[2]>>
           g  == Frame("Stmt", n, <<>>)
           h  == Frame("JumpOn", n, a)
           cs == <<g, h>>
<1>1. /\ f.step = "Arm" /\ cur' = f.arg[1] /\ Continue(cs) /\ UNCHANGED <<code, locals, open, loops, decl, meta, errors, env>>
  BY TopIs DEF enterArm, Doing
<1>2. f.step \notin DeclStep
  BY <1>1 DEF DeclStep
<1>3. FrameOK(f, RegsOf(Function), BlocksOf(Function))
  BY <1>2, WhereWeAre
<1>4. n \in Tree /\ a[1] \in BlocksOf(Function)
  BY <1>1, <1>3 DEF FrameOK
<1> HIDE DEF n, a
<1>5. Instead(f, g, RegsOf(Function), BlocksOf(Function), {}) /\ Targets(g) = {} /\ g.step = "Stmt"
  BY <1>4, PlainFrames, PlainSteps
<1>6. /\ h.step = "JumpOn" /\ h.node = n /\ h.arg = a /\ h.got = <<>>
      /\ h = [step |-> h.step, node |-> h.node, arg |-> h.arg, got |-> h.got]
  BY FrameIs
<1> HIDE DEF g, h
<1>7. Targets(h) = {}
  BY <1>6 DEF Targets, Switching
<1>8. <<>> \in Seq(RegsOf(Function)) /\ h.step \notin DeclStep
  BY <1>6 DEF DeclStep
<1>9. FrameOK(h, RegsOf(Function), BlocksOf(Function))
  BY <1>4, <1>6, <1>7, <1>8 DEF FrameOK
<1>10. Instead(f, h, RegsOf(Function), BlocksOf(Function), {})
  BY <1>7, <1>8, <1>9 DEF Instead
<1>11. Ordered(g, h)
  BY <1>5, <1>6, <1>7, CallersAre DEF Ordered, EitherWay, DeclStep, StmtStep
<1>12. LastInstead(f, h)
  BY <1>1, <1>6, CallersAre DEF LastInstead, Outermost, DeclStep
<1>13. Replaces(cs, f, RegsOf(Function), BlocksOf(Function), {})
  BY <1>5, <1>10, <1>11, <1>12, ReplacesTwo
<1>14. AllTargets(cs) = {}
  BY <1>5, <1>7, TargetsOfTwo
<1>15. DOMAIN cs = {1, 2} /\ cs[1] = g /\ cs[2] = h /\ cs # <<>>
  BY Two
<1> HIDE DEF cs
<1>16. \A k \in DOMAIN cs : cs[k].step \notin {"Loop", "ExitLoop"}
  BY <1>5, <1>6, <1>15
<1>17. cs[1].step = "Stmt"
  BY <1>5, <1>15
<1>18. UNCHANGED code /\ UNCHANGED <<locals, open, loops, decl>>
  BY <1>1
<1> QED
  BY <1>1, <1>13, <1>14, <1>15, <1>16, <1>17, <1>18, MoveKeeps

LEMMA SwitchKeeps ==
  ASSUME NEW f, Here(f), switchBlock
  PROVE  BuildInv'
<1>1. /\ f.step = "Switch" /\ cur' = f.arg[1] /\ EndCall /\ UNCHANGED <<code, locals, open, loops, decl, meta, errors, env>>
  BY TopIs DEF switchBlock, Doing
<1>2. Continue(<<>>)
  BY <1>1, EndingIs
<1>3. Replaces(<<>>, f, RegsOf(Function), BlocksOf(Function), {})
  BY ReplacesNone
<1>4. AllTargets(<<>>) = {} /\ \A k \in DOMAIN <<>> : <<>>[k].step \notin {"Loop", "ExitLoop"}
  BY TargetsOfNone, None
<1>5. UNCHANGED code /\ UNCHANGED <<locals, open, loops, decl>>
  BY <1>1
<1> QED
  BY <1>1, <1>2, <1>3, <1>4, <1>5, MoveKeeps

NewLoop(head) == [continue_target |-> head, breaks |-> {}]

\* One more loop is open, and nothing has left it yet.
LEMMA LoopOpens ==
  ASSUME NEW ls, NEW code_, NEW blks, OpenLoops(ls, code_, blks), NEW head \in Nat, head \in blks,
         NEW ls2, ls2 = Append(ls, NewLoop(head))
  PROVE  /\ OpenLoops(ls2, code_, blks) /\ Pending(ls) \subseteq Pending(ls2)
         /\ Len(ls) \in Nat /\ Len(ls2) = Len(ls) + 1
<1> DEFINE x == NewLoop(head)
<1>1. ls \in Seq(LoopRecord)
  BY DEF OpenLoops
<1>2. x \in LoopRecord /\ x.continue_target = head /\ x.breaks = {}
  BY DEF LoopRecord, NewLoop
<1> HIDE DEF x
<1>3. ls2 = Append(ls, x)
  BY DEF x
<1>4. ls2 \in Seq(LoopRecord) /\ Len(ls2) = Len(ls) + 1 /\ Len(ls) \in Nat
      /\ DOMAIN ls = 1..Len(ls) /\ DOMAIN ls2 = 1..(Len(ls) + 1) /\ ls2[Len(ls) + 1] = x
      /\ \A l \in DOMAIN ls : ls2[l] = ls[l]
  BY <1>1, <1>2, <1>3
<1>5. \A l \in DOMAIN ls2 : (l \in DOMAIN ls /\ ls2[l] = ls[l]) \/ ls2[l] = x
  BY <1>4
<1>6. DOMAIN ls \subseteq DOMAIN ls2
  BY <1>4
<1>7. \A l \in DOMAIN ls2 : l \notin DOMAIN ls => l = Len(ls) + 1
  BY <1>4
<1>8. ASSUME NEW l \in DOMAIN ls2
      PROVE  /\ ls2[l].continue_target \in blks
             /\ \A k \in ls2[l].breaks : k \in DOMAIN code_ /\ code_[k] = JumpToBlock(Unset)
  BY <1>2, <1>5 DEF OpenLoops
<1>9. ASSUME NEW l \in DOMAIN ls2, NEW m \in DOMAIN ls2, l # m
      PROVE  ls2[l].breaks \cap ls2[m].breaks = {}
  <2>1. CASE ls2[l] = x \/ ls2[m] = x
    BY <1>2, <2>1
  <2>2. CASE l \in DOMAIN ls /\ m \in DOMAIN ls
    <3>1. ls2[l] = ls[l] /\ ls2[m] = ls[m] /\ ls[l].breaks \cap ls[m].breaks = {}
      BY <1>4, <1>9, <2>2 DEF OpenLoops
    <3> QED
      BY <3>1
  <2> QED
    BY <1>5, <2>1, <2>2
<1>10. Pending(ls) \subseteq Pending(ls2)
  BY <1>4, <1>6 DEF Pending
<1> QED
  BY <1>4, <1>8, <1>9, <1>10 DEF OpenLoops

LEMMA LoopFrames ==
  ASSUME NEW node \in Tree, node.node = "LoopStmt", NEW head, NEW depth, NEW regs, NEW blks, NEW new, NEW f,
         head + 1 \in blks, head + 2 \in blks, {head + 1, head + 2} \subseteq Targets(f) \cup new
  PROVE  LET g == Frame("Loop", node, <<head, depth>>) IN
         /\ Instead(f, g, regs, blks, new) /\ Targets(g) = {head + 1, head + 2} /\ g.step = "Loop"
         /\ g.arg[1] = head /\ g.arg[2] = depth
<1> DEFINE a == <<head, depth>>
           g == Frame("Loop", node, a)
<1>1. a[1] = head /\ a[2] = depth
  OBVIOUS
<1> HIDE DEF a
<1>2. /\ g.step = "Loop" /\ g.node = node /\ g.arg = a /\ g.got = <<>>
      /\ g = [step |-> g.step, node |-> g.node, arg |-> g.arg, got |-> g.got]
  BY FrameIs
<1> HIDE DEF g
<1>3. Targets(g) = {head + 1, head + 2}
  BY <1>1, <1>2 DEF Targets, Switching
<1>4. <<>> \in Seq(regs) /\ g.step \notin DeclStep
  BY <1>2 DEF DeclStep
<1>5. FrameOK(g, regs, blks)
  BY <1>2, <1>3, <1>4 DEF FrameOK
<1> QED
  BY <1>1, <1>2, <1>3, <1>4, <1>5 DEF Instead, g, a

LEMMA EnterLoopKeeps ==
  ASSUME NEW f, Here(f), enterLoop
  PROVE  BuildInv'
<1> DEFINE n   == f.node
           x   == NewBlock
           d   == Len(loops) + 1
           i   == JumpToBlock(x)
           g   == Frame("Loop", n, <<x, d>>)
           cs  == <<g>>
           new == NewBlocks(ModuleIR, ModuleIR')
<1>1. /\ f.step = "Stmt" /\ n.node = "LoopStmt" /\ emit(0, 3, <<i>>) /\ cur' = x /\ Continue(cs)
      /\ loops' = Append(loops, [continue_target |-> x, breaks |-> {}])
      /\ UNCHANGED <<locals, open, decl, meta, errors, env>>
  BY TopIs DEF enterLoop, DoingNode, Doing
<1>2. /\ f.step \notin Switching \cup {"Loop", "VarDecl", "ExitLoop"} \cup DeclStep \cup ExprStep
      /\ f.step \in Running /\ f.step \in StmtStep
  BY <1>1 DEF DeclStep, Switching, Running, StmtStep, ExprStep
<1>3. n \in Tree /\ Targets(f) = {}
  BY <1>2, WhereWeAre DEF FrameOK, Targets
<1>4. i.kind \in Terminators /\ 3 \in Nat
  BY DEF JumpToBlock, Inst, Terminators
<1>5. /\ After(0, 3, <<i>>) /\ Whole(ModuleIR', CurrentOf(ModuleIR', cur))
      /\ new = x..(x + 3 - 1) /\ cur \in 0..(x - 1) /\ cur \in Nat
  BY <1>1, <1>2, <1>4, Closes
<1>6. x \in Nat /\ Blks2 = 0..(x + 3 - 1) /\ LastFunc(ModuleIR') \in FuncRecord
  BY <1>5 DEF After, Blks2
<1> HIDE DEF new, x, n
<1>7. new = {x, x + 1, x + 2} /\ new \subseteq Blks2 /\ x \notin {x + 1, x + 2}
  BY <1>5, <1>6
<1>8. Fills(ModuleIR, ModuleIR', cur, <<i>>, Pending(loops'))
  <2>1. x \in BlocksOf(LastFunc(ModuleIR')) /\ cur + 1 \in Nat
    BY <1>5, <1>7 DEF Blks2
  <2>2. \A waiting \in BOOLEAN : InstOK(LastFunc(ModuleIR'), cur + 1, i, waiting)
    BY <1>6, <2>1, Jumps
  <2>3. ~Whole(ModuleIR, CurrentOf(ModuleIR, cur))
    BY <1>2, WhereWeAre
  <2> HIDE DEF i
  <2> QED
    BY <2>2, <2>3, FillsOne
<1> HIDE DEF i
<1>9. /\ todo \in Seq(Range(todo)) /\ todo # <<>> /\ f = todo[1] /\ Conditions(todo, cur) /\ Nesting(todo, Len(loops))
  BY DEF Here, Going, Stack
<1>10. /\ OpenLoops(loops', insts', Blks2) /\ Pending(loops) \subseteq Pending(loops')
       /\ Len(loops) \in Nat /\ Len(loops') = d
  <2>1. OpenLoops(loops, insts', Blks2)
    BY <1>2, <1>5, LoopsNow
  <2>2. x \in Blks2
    BY <1>7
  <2> DEFINE ls2 == loops'
             code2 == insts'
  <2> HIDE DEF ls2, code2
  <2>3. ls2 = Append(loops, NewLoop(x))
    BY <1>1 DEF ls2, NewLoop
  <2>4. OpenLoops(loops, code2, Blks2)
    BY <2>1 DEF code2
  <2>5. x \in Nat
    BY <1>6
  <2>6. OpenLoops(ls2, code2, Blks2) /\ Pending(loops) \subseteq Pending(ls2) /\ Len(loops) \in Nat /\ Len(ls2) = Len(loops) + 1
    BY <2>2, <2>3, <2>4, <2>5, LoopOpens
  <2> QED
    BY <2>6 DEF ls2, code2, d
<1> HIDE DEF d
<1>11. /\ Instead(f, g, Regs2, Blks2, new) /\ Targets(g) = {x + 1, x + 2} /\ g.step = "Loop"
       /\ g.arg[1] = x /\ g.arg[2] = d
  <2>1. x + 1 \in Blks2 /\ x + 2 \in Blks2 /\ {x + 1, x + 2} \subseteq Targets(f) \cup new
    BY <1>7
  <2>2. n.node = "LoopStmt"
    BY <1>1
  <2> HIDE DEF n
  <2> QED
    BY <1>3, <2>1, <2>2, LoopFrames
<1> HIDE DEF g
<1>12. Callers(f.step) = EitherWay /\ Callers(g.step) = EitherWay /\ f.step \notin Outermost
  BY <1>1, <1>11, CallersAre DEF Outermost, DeclStep, StmtStep
<1>13. Replaces(cs, f, Regs2, Blks2, new)
  BY <1>11, <1>12, ReplacesOne DEF LastInstead
<1>14. /\ AllTargets(cs) = {x + 1, x + 2} /\ DOMAIN cs = {1} /\ cs[1] = g /\ cs # <<>> /\ cs \in Seq(Range(cs))
  BY <1>11, TargetsOfOne, One
<1>15. Turns(ModuleIR, ModuleIR', cur, f, cs, cur')
  BY <1>1, <1>3, <1>5, <1>7, <1>14 DEF Turns, new
<1>16. Settles(ModuleIR, ModuleIR', f, cs, <<i>>)
  BY <1>2, <1>4, <1>5, NothingFresh
<1>17. Nesting(cs \o Tail(todo), Len(loops'))
  <2>1. IsLoop(g) /\ ~IsLoop(todo[1])
    BY <1>2, <1>9, <1>11 DEF IsLoop
  <2>2. g.arg[2] = Len(loops) + 1 /\ Len(loops') = Len(loops) + 1
    BY <1>10, <1>11 DEF d
  <2> DEFINE depth == Len(loops)
  <2> HIDE DEF depth
  <2>3. Nesting(<<g>> \o Tail(todo), depth + 1)
    BY <1>9, <1>10, <2>1, <2>2, NestingEnters DEF depth
  <2> QED
    BY <2>2, <2>3 DEF depth
<1> HIDE DEF cs
<1>18. Conditions(cs \o Tail(todo), cur')
  <2> DEFINE c2 == cur'
  <2>1. c2 = x
    BY <1>1
  <2> HIDE DEF c2
  <2>2. \A k \in DOMAIN cs : cs[k].step = "Loop" => c2 = cs[k].arg[1] /\ \A j \in DOMAIN cs : j < k => cs[j].step \in ExprStep
    BY <1>11, <1>14, <2>1
  <2>3. todo[1].step \in ExprStep => c2 = cur /\ \A k \in DOMAIN cs : cs[k].step \in ExprStep
    BY <1>2, <1>9
  <2>4. Conditions(cs \o Tail(todo), c2)
    BY <1>9, <1>14, <2>2, <2>3, ConditionsGoOn
  <2> QED
    BY <2>4 DEF c2
<1>19. NextFits(ModuleIR', cur', f, cs)
  <2>1. Growing(ModuleIR, cur) /\ Grown(ModuleIR, ModuleIR', cur, 0, 3, <<i>>)
    BY <1>2, <1>5, WhereWeAre DEF After
  <2>2. ViewsGrow(ModuleIR, ModuleIR', cur, <<i>>)
    BY <2>1, GrownViews
  <2>3. CurrentOf(ModuleIR', x) = EmptyBlock
    BY <1>7, <2>2 DEF ViewsGrow, CurrentOf, new, NewBlocks
  <2>4. ~Whole(ModuleIR', CurrentOf(ModuleIR', cur'))
    BY <1>1, <2>3 DEF Whole
  <2>5. Fits(ModuleIR', cur', "Loop")
    BY <2>4 DEF Fits, Switching, DeclStep
  <2> QED
    BY <1>11, <1>14, <2>5 DEF NextFits
<1>20. Context(ModuleIR', decl', open', locals')
  BY <1>1, <1>2, <1>5, ContextNow
<1> QED
  BY <1>1, <1>2, <1>4, <1>5, <1>8, <1>10, <1>13, <1>15, <1>16, <1>17, <1>18, <1>19, <1>20, TurnKeeps DEF new

LEMMA TestLoopKeeps ==
  ASSUME NEW f, Here(f), testLoop
  PROVE  BuildInv'
<1> DEFINE n   == f.node
           y   == cur
           i   == IF IsValid(n.cond) THEN BranchOnReg(f.got[1], y + 1, y + 2) ELSE JumpToBlock(y + 1)
           a1  == <<y + 1, y>>
           a2  == <<y + 2, f.arg[2]>>
           g   == Frame("Arm", n.body, a1)
           h   == Frame("ExitLoop", n, a2)
           cs  == <<g, h>>
           new == NewBlocks(ModuleIR, ModuleIR')
<1>1. f.step = "Loop" /\ Len(f.got) = Len(Operands(f))
  BY TopIs DEF testLoop, Doing
<1>2. /\ f.step \notin Switching \cup {"VarDecl"} \cup DeclStep \cup ExprStep
      /\ f.step \in Running /\ f.step \in StmtStep
  BY <1>1 DEF DeclStep, Switching, Running, StmtStep, ExprStep
<1>3. /\ todo \in Seq(Range(todo)) /\ todo # <<>> /\ f = todo[1] /\ Conditions(todo, cur) /\ Nesting(todo, Len(loops))
      /\ 1 \in DOMAIN todo
  BY <1>2, InFunction DEF Here, Going, Stack
<1>4. cur = f.arg[1]
  BY <1>1, <1>3 DEF Conditions
<1>5. /\ emit(0, 0, <<i>>) /\ Continue(cs) /\ UNCHANGED <<context, meta, errors, env>>
  BY <1>4, TopIs DEF testLoop
<1>6. FrameOK(f, RegsOf(Function), BlocksOf(Function)) /\ cur \in BlocksOf(Function)
  BY <1>2, WhereWeAre
<1>7. n \in Tree /\ n.node = "LoopStmt" /\ Targets(f) = {y + 1, y + 2} /\ Targets(f) \subseteq BlocksOf(Function)
  BY <1>1, <1>4, <1>6 DEF FrameOK, Targets, Switching
<1>8. n.body \in Tree
  BY <1>7, TreeAssumption DEF Typed
<1>9. IsValid(n.cond) => f.got[1] \in RegsOf(Function)
  BY <1>1, <1>2, GotAre
<1>10. i.kind \in Terminators /\ 0 \in Nat
  BY DEF JumpToBlock, BranchOnReg, Inst, Terminators
<1>11. After(0, 0, <<i>>) /\ Whole(ModuleIR', CurrentOf(ModuleIR', cur)) /\ cur \in Nat
  BY <1>2, <1>5, <1>10, Closes
<1>12. /\ Blks2 = BlocksOf(Function) /\ LastFunc(ModuleIR') \in FuncRecord /\ RegsOf(Function) \subseteq Regs2
  BY <1>11 DEF After, Blks2, Regs2
<1>13. new = {}
  BY <1>2, <1>11, SameBlocks
<1>14. y \in Nat /\ y \in Blks2 /\ y + 1 \in Blks2 /\ y + 2 \in Blks2
  BY <1>6, <1>7, <1>11, <1>12
<1> HIDE DEF y, n, new
<1>15. Fills(ModuleIR, ModuleIR', cur, <<i>>, Pending(loops'))
  <2>1. /\ y + 1 \in BlocksOf(LastFunc(ModuleIR')) /\ y + 2 \in BlocksOf(LastFunc(ModuleIR')) /\ cur + 1 \in Nat
        /\ y + 1 >= cur + 1
    BY <1>11, <1>14 DEF Blks2, y
  <2>2. \A waiting \in BOOLEAN : InstOK(LastFunc(ModuleIR'), cur + 1, i, waiting)
    <3>1. CASE IsValid(n.cond)
      <4>1. f.got[1] \in RegsOf(LastFunc(ModuleIR'))
        BY <1>9, <1>12, <3>1 DEF Regs2, n
      <4>2. i = BranchOnReg(f.got[1], y + 1, y + 2)
        BY <3>1
      <4> HIDE DEF i
      <4> QED
        BY <1>12, <2>1, <4>1, <4>2, Jumps
    <3>2. CASE ~IsValid(n.cond)
      <4>1. i = JumpToBlock(y + 1)
        BY <3>2
      <4> HIDE DEF i
      <4> QED
        BY <1>12, <2>1, <4>1, Jumps
    <3> QED
      BY <3>1, <3>2
  <2>3. ~Whole(ModuleIR, CurrentOf(ModuleIR, cur))
    BY <1>2, WhereWeAre
  <2> HIDE DEF i
  <2> QED
    BY <2>2, <2>3, FillsOne
<1> HIDE DEF i
<1>16. a1[1] = y + 1 /\ a1[2] = y /\ a2[1] = y + 2 /\ a2[2] = f.arg[2]
  OBVIOUS
<1> HIDE DEF a1, a2
<1>17. Targets(f) = {y + 1, y + 2}
  BY <1>7 DEF y
<1>18. Instead(f, g, Regs2, Blks2, new) /\ Targets(g) = {y + 1} /\ g.step = "Arm"
  <2> DEFINE nd == n.body
  <2>1. nd \in Tree
    BY <1>8 DEF n
  <2> HIDE DEF nd
  <2>2. a1[1] \in Blks2 /\ a1[1] \in Targets(f) \cup new /\ a1[2] \in Blks2
    BY <1>14, <1>16, <1>17
  <2>3. Instead(f, Frame("Arm", nd, a1), Regs2, Blks2, new) /\ Targets(Frame("Arm", nd, a1)) = {a1[1]}
        /\ Frame("Arm", nd, a1).step = "Arm"
    BY <2>1, <2>2, BlockFrames
  <2> QED
    BY <1>16, <2>3 DEF nd
<1>19. Instead(f, h, Regs2, Blks2, new) /\ Targets(h) = {y + 2} /\ h.step = "ExitLoop" /\ h.arg[2] = f.arg[2]
  <2>1. n \in Tree /\ a2[1] \in Blks2 /\ a2[1] \in Targets(f) \cup new
    BY <1>7, <1>14, <1>16, <1>17 DEF n
  <2>2. Instead(f, h, Regs2, Blks2, new) /\ Targets(h) = {a2[1]} /\ h.step = "ExitLoop" /\ h.arg = a2
    BY <2>1, BlockFrames
  <2> QED
    BY <1>16, <2>2
<1> HIDE DEF g, h
<1>20. Callers(f.step) = EitherWay /\ Callers(h.step) = EitherWay /\ f.step \notin Outermost
  BY <1>1, <1>19, CallersAre DEF Outermost, DeclStep, StmtStep
<1>21. Ordered(g, h)
  <2>1. {y + 1} \cap {y + 2} = {}
    BY <1>14
  <2> QED
    BY <1>18, <1>19, <2>1, CallersAre DEF Ordered, Switching, DeclStep
<1>22. Replaces(cs, f, Regs2, Blks2, new)
  BY <1>18, <1>19, <1>20, <1>21, ReplacesTwo DEF LastInstead
<1>23. /\ AllTargets(cs) = {y + 1, y + 2}
       /\ DOMAIN cs = {1, 2} /\ cs[1] = g /\ cs[2] = h /\ cs # <<>> /\ cs \in Seq(Range(cs))
  BY <1>18, <1>19, TargetsOfTwo, Two
<1> HIDE DEF cs
<1>24. cur' = cur /\ loops' = loops /\ UNCHANGED <<decl, open, locals>>
  BY <1>5 DEF context
<1>25. Turns(ModuleIR, ModuleIR', cur, f, cs, cur')
  <2>1. cur \notin {y + 1, y + 2}
    BY <1>11 DEF y
  <2> QED
    BY <1>13, <1>17, <1>23, <1>24, <2>1 DEF Turns, new
<1>26. Settles(ModuleIR, ModuleIR', f, cs, <<i>>)
  BY <1>2, <1>10, <1>11, NothingFresh
<1>27. Conditions(cs \o Tail(todo), cur')
  <2>1. \A k \in DOMAIN cs : cs[k].step = "Loop" => cur = cs[k].arg[1] /\ \A j \in DOMAIN cs : j < k => cs[j].step \in ExprStep
    BY <1>18, <1>19, <1>23
  <2>2. todo[1].step \in ExprStep => cur = cur /\ \A k \in DOMAIN cs : cs[k].step \in ExprStep
    BY <1>2, <1>3
  <2> QED
    BY <1>3, <1>23, <1>24, <2>1, <2>2, ConditionsGoOn
<1>28. Nesting(cs \o Tail(todo), Len(loops'))
  <2>1. IsLoop(f) /\ ~IsLoop(g) /\ IsLoop(h)
    BY <1>1, <1>18, <1>19 DEF IsLoop
  <2>2. \A k \in DOMAIN cs : IsLoop(cs[k]) => k = 2 /\ cs[k] = h
    BY <1>23, <2>1
  <2>3. \A k \in DOMAIN cs : IsLoop(cs[k]) => IsLoop(todo[1]) /\ cs[k].arg[2] = todo[1].arg[2]
    BY <1>3, <1>19, <2>1, <2>2
  <2>4. \A j, k \in DOMAIN cs : IsLoop(cs[j]) /\ IsLoop(cs[k]) => j = k
    BY <2>2
  <2>5. IsLoop(todo[1]) => \E k \in DOMAIN cs : IsLoop(cs[k])
    BY <1>23, <2>1
  <2> QED
    BY <1>3, <1>23, <1>24, <2>3, <2>4, <2>5, NestingGoesOn
<1>29. NextFits(ModuleIR', cur', f, cs)
  <2>1. Fits(ModuleIR', cur, "Arm")
    BY <1>11 DEF Fits, Running, ExprStep, StmtStep
  <2> QED
    BY <1>18, <1>23, <1>24, <2>1 DEF NextFits
<1>30. Context(ModuleIR', decl', open', locals')
  BY <1>2, <1>11, <1>24, ContextNow
<1>31. OpenLoops(loops', insts', Blks2) /\ Pending(loops) \subseteq Pending(loops')
  BY <1>2, <1>11, <1>24, LoopsNow
<1> QED
  BY <1>2, <1>5, <1>10, <1>11, <1>15, <1>22, <1>25, <1>26, <1>27, <1>28, <1>29, <1>30, <1>31, TurnKeeps DEF new

\* A jump that waits for its loop to end.
LEMMA WaitingJump ==
  ASSUME NEW func, NEW n
  PROVE  InstOK(func, n, JumpToBlock(Unset), TRUE) /\ JumpToBlock(Unset).kind = "Jump"
<1> DEFINE i == JumpToBlock(Unset)
<1>1. i.kind = "Jump" /\ i.dst = Invalid /\ i.a = Block(Unset) /\ i.b = Invalid /\ i.c = Invalid /\ i.aux = 0
  BY DEF JumpToBlock, Inst
<1> HIDE DEF i
<1>2. SlotsOfInst(i) = {Invalid, Block(Unset)}
  BY <1>1 DEF SlotsOfInst
<1>3. Invalid.kind = "Invalid" /\ Block(Unset).kind = "BlockId" /\ Block(Unset).value = Unset
  BY DEF Invalid, Block, Operand
<1>4. \A slot \in SlotsOfInst(i) : slot.kind # "VReg" /\ (slot.kind = "BlockId" => slot.value = Unset)
  BY <1>2, <1>3
<1>5. PromisedInst(func, n, i)
  BY <1>1, <1>4 DEF PromisedInst
<1> QED
  BY <1>1, <1>4, <1>5 DEF InstOK, i

\* Broken(ls, z) is ls with a break at z out of the innermost loop.
Broken(ls, z) == [ls EXCEPT ![Len(ls)].breaks = @ \cup {z}]

LEMMA LoopBreaks ==
  ASSUME NEW ls, NEW code_, NEW blks, OpenLoops(ls, code_, blks), ls # <<>>, NEW z \in Nat, z \in DOMAIN code_,
         code_[z] = JumpToBlock(Unset), z \notin Pending(ls), NEW ls2, ls2 = Broken(ls, z)
  PROVE  /\ OpenLoops(ls2, code_, blks) /\ Pending(ls) \subseteq Pending(ls2) /\ z \in Pending(ls2)
         /\ Len(ls2) = Len(ls)
<1> DEFINE m == Len(ls)
           x == ls[m]
           t == x.continue_target
           b == x.breaks
           e == b \cup {z}
           y == [continue_target |-> t, breaks |-> e]
<1>1. ls \in Seq(LoopRecord) /\ m \in DOMAIN ls /\ DOMAIN ls = 1..m /\ m \in Nat
  BY DEF OpenLoops
<1>2. x \in LoopRecord
  BY <1>1
<1>3. t \in Nat /\ e \in SUBSET Nat /\ x = [continue_target |-> t, breaks |-> b]
  BY <1>2 DEF LoopRecord
<1>4. y \in LoopRecord /\ y.continue_target = t /\ y.breaks = e
  BY <1>3 DEF LoopRecord
<1>5. [x EXCEPT !.breaks = @ \cup {z}] = y
  <2>1. [x EXCEPT !.breaks = e] = y
    <3> HIDE DEF x, t, b, e
    <3>1. [[continue_target |-> t, breaks |-> b] EXCEPT !.breaks = e] = [continue_target |-> t, breaks |-> e]
      OBVIOUS
    <3> QED
      BY <1>3, <3>1
  <2> QED
    BY <2>1
<1>6. ls2 = [ls EXCEPT ![m] = y]
  BY <1>5 DEF Broken
<1> HIDE DEF y, m
<1>7. /\ ls2 \in Seq(LoopRecord) /\ Len(ls2) = m /\ DOMAIN ls2 = DOMAIN ls /\ ls2[m] = y
      /\ \A l \in DOMAIN ls : l # m => ls2[l] = ls[l]
  BY <1>1, <1>4, <1>6 DEF OpenLoops
<1>8. /\ t \in blks /\ \A k \in x.breaks : k \in DOMAIN code_ /\ code_[k] = JumpToBlock(Unset)
  BY <1>1 DEF OpenLoops
<1>9. \A l \in DOMAIN ls : z \notin ls[l].breaks
  BY DEF Pending
<1>10. \A l \in DOMAIN ls : l # m => ls[l].breaks \cap e = {}
  BY <1>1, <1>9 DEF OpenLoops
<1> HIDE DEF t
<1>11. \A k \in e : k \in DOMAIN code_ /\ code_[k] = JumpToBlock(Unset)
  BY <1>8
<1>12. x.breaks \subseteq e /\ z \in e
  OBVIOUS
<1> HIDE DEF e, x
<1>13. ASSUME NEW l \in DOMAIN ls2
       PROVE  /\ ls2[l].continue_target \in blks
              /\ \A k \in ls2[l].breaks : k \in DOMAIN code_ /\ code_[k] = JumpToBlock(Unset)
  <2>1. CASE l = m
    BY <1>4, <1>7, <1>8, <1>11, <2>1
  <2>2. CASE l # m
    BY <1>7, <2>2 DEF OpenLoops
  <2> QED
    BY <2>1, <2>2
<1>14. ASSUME NEW l \in DOMAIN ls2, NEW k \in DOMAIN ls2, l # k
       PROVE  ls2[l].breaks \cap ls2[k].breaks = {}
  <2>1. CASE l = m
    <3>1. ls2[l].breaks = e /\ ls2[k].breaks = ls[k].breaks /\ ls[k].breaks \cap e = {}
      BY <1>4, <1>7, <1>10, <1>14, <2>1
    <3> QED
      BY <3>1
  <2>2. CASE k = m
    <3>1. ls2[k].breaks = e /\ ls2[l].breaks = ls[l].breaks /\ ls[l].breaks \cap e = {}
      BY <1>4, <1>7, <1>10, <1>14, <2>2
    <3> QED
      BY <3>1
  <2>3. CASE l # m /\ k # m
    <3>1. ls2[l] = ls[l] /\ ls2[k] = ls[k]
      BY <1>7, <2>3
    <3> QED
      BY <1>7, <1>14, <3>1 DEF OpenLoops
  <2> QED
    BY <2>1, <2>2, <2>3
<1>15. z \in Pending(ls2)
  BY <1>1, <1>4, <1>7, <1>12 DEF Pending
<1>16. \A l \in DOMAIN ls : ls[l].breaks \subseteq ls2[l].breaks
  <2>1. \A l \in DOMAIN ls : l # m => ls[l].breaks \subseteq ls2[l].breaks
    BY <1>7
  <2>2. ls[m].breaks \subseteq ls2[m].breaks
    BY <1>4, <1>7, <1>12 DEF x
  <2> QED
    BY <2>1, <2>2
<1>17. Pending(ls) \subseteq Pending(ls2)
  BY <1>7, <1>16 DEF Pending
<1> QED
  BY <1>7, <1>13, <1>14, <1>15, <1>17 DEF OpenLoops, m

LEMMA BreakKeeps ==
  ASSUME NEW f, Here(f), buildBreak
  PROVE  BuildInv'
<1> DEFINE i   == JumpToBlock(Unset)
           z   == Len(insts) + 1
           new == NewBlocks(ModuleIR, ModuleIR')
<1>1. f.step = "Stmt" /\ f.node.node = "BreakStmt"
  BY TopIs DEF buildBreak, DoingNode, Doing
<1>2. /\ f.step \notin Switching \cup {"Loop", "VarDecl", "ExitLoop"} \cup DeclStep \cup ExprStep
      /\ f.step \in Running /\ f.step \in StmtStep /\ Targets(f) = {}
  BY <1>1 DEF DeclStep, Switching, Running, StmtStep, ExprStep, Targets
<1>3. CASE loops = <<>> /\ error("break outside a loop")
  BY <1>3, ErrorKeeps
<1>4. CASE /\ loops # <<>> /\ emit(0, 0, <<i>>) /\ loops' = Broken(loops, z) /\ EndCall
           /\ UNCHANGED <<cur, locals, open, decl, meta, errors, env>>
  <2>1. i.kind \in Terminators /\ 0 \in Nat
    BY WaitingJump DEF Terminators
  <2>2. After(0, 0, <<i>>)
    BY <1>2, <1>4, <2>1, Closes
  <2>3. new = {}
    BY <1>2, <2>2, SameBlocks
  <2>4. OpenLoops(loops, insts', Blks2)
    BY <1>2, <2>2, LoopsNow
  <2>5. InstsGrow(ModuleIR, ModuleIR', <<i>>)
    BY <1>2, <2>2, WhereWeAre, GrownTables DEF After
  <2>6. z \in Nat /\ z \in DOMAIN insts' /\ insts'[z] = i /\ z \notin DOMAIN insts
    <3>1. ModuleIR.insts = insts /\ ModuleIR'.insts = insts'
      BY DEF ModuleIR
    <3>2. Len(<<i>>) = 1 /\ <<i>>[1] = i
      BY One
    <3> DEFINE c2 == insts'
    <3> HIDE DEF c2, i
    <3>3. /\ Len(insts) \in Nat /\ Len(c2) = Len(insts) + 1 /\ c2[Len(insts) + 1] = i
          /\ DOMAIN insts = 1..Len(insts) /\ DOMAIN c2 = 1..Len(c2)
      BY <2>5, <3>1, <3>2 DEF InstsGrow, c2
    <3>4. z \in Nat /\ z \in DOMAIN c2 /\ c2[z] = i /\ z \notin DOMAIN insts
      BY <3>3
    <3> QED
      BY <3>4 DEF c2
  <2>7. z \notin Pending(loops)
    <3>1. OpenLoops(loops, ModuleIR.insts, BlocksOf(LastFunc(ModuleIR))) /\ ModuleIR.insts = insts
      BY DEF Here, Going, ModuleIR
    <3> QED
      BY <2>6, <3>1 DEF OpenLoops, Pending
  <2> HIDE DEF z
  <2>8. /\ OpenLoops(loops', insts', Blks2) /\ Pending(loops) \subseteq Pending(loops') /\ z \in Pending(loops')
        /\ Len(loops') = Len(loops)
    <3> DEFINE ls2 == loops'
               c2  == insts'
    <3>1. /\ ls2 = Broken(loops, z) /\ OpenLoops(loops, c2, Blks2) /\ z \in DOMAIN c2 /\ c2[z] = JumpToBlock(Unset)
          /\ loops # <<>>
      BY <1>4, <2>4, <2>6
    <3> HIDE DEF ls2, c2
    <3>2. /\ OpenLoops(ls2, c2, Blks2) /\ Pending(loops) \subseteq Pending(ls2) /\ z \in Pending(ls2)
          /\ Len(ls2) = Len(loops)
      BY <2>6, <2>7, <3>1, LoopBreaks
    <3> QED
      BY <3>2 DEF ls2, c2
  <2>9. Fills(ModuleIR, ModuleIR', cur, <<i>>, Pending(loops'))
    <3>1. ~Whole(ModuleIR, CurrentOf(ModuleIR, cur))
      BY <1>2, WhereWeAre
    <3>2. Len(ModuleIR.insts) + 1 \in Pending(loops')
      BY <2>8 DEF ModuleIR, z
    <3>3. InstOK(LastFunc(ModuleIR'), cur + 1, i, Len(ModuleIR.insts) + 1 \in Pending(loops'))
      <4> DEFINE waiting == Len(ModuleIR.insts) + 1 \in Pending(loops')
      <4>1. waiting = TRUE
        BY <3>2
      <4>2. InstOK(LastFunc(ModuleIR'), cur + 1, i, TRUE)
        BY WaitingJump
      <4> HIDE DEF waiting
      <4> QED
        BY <4>1, <4>2 DEF waiting
    <3> HIDE DEF i
    <3>4. DOMAIN <<i>> = {1} /\ <<i>>[1] = i /\ Len(<<i>>) = 1
      BY One
    <3> QED
      BY <3>1, <3>3, <3>4 DEF Fills
  <2>10. Continue(<<>>)
    BY <1>4, EndingIs
  <2>11. Replaces(<<>>, f, Regs2, Blks2, new)
    BY ReplacesNone
  <2>12. AllTargets(<<>>) = {} /\ <<>> \in Seq(Range(<<>>)) /\ \A k \in DOMAIN <<>> : <<>>[k].step \notin {"Loop", "ExitLoop"}
    BY TargetsOfNone, None
  <2>13. Turns(ModuleIR, ModuleIR', cur, f, <<>>, cur')
    BY <1>2, <1>4, <2>3, <2>12 DEF Turns, new
  <2>14. Settles(ModuleIR, ModuleIR', f, <<>>, <<i>>)
    BY <1>2, <2>1, <2>2, NothingFresh
  <2>15. Conditions(<<>> \o Tail(todo), cur') /\ Nesting(<<>> \o Tail(todo), Len(loops))
    BY <1>2, <2>12, NoLoops
  <2>16. Nesting(<<>> \o Tail(todo), Len(loops'))
    BY <2>8, <2>15
  <2>17. NextFits(ModuleIR', cur', f, <<>>)
    BY <1>2, CallersFit
  <2>18. Context(ModuleIR', decl', open', locals')
    BY <1>2, <1>4, <2>2, ContextNow
  <2> HIDE DEF i
  <2> QED
    BY <1>2, <2>1, <2>2, <2>8, <2>9, <2>10, <2>11, <2>13, <2>14, <2>15, <2>16, <2>17, <2>18, TurnKeeps DEF new
<1> QED
  BY <1>3, <1>4 DEF buildBreak, Broken

\* The jumps at P, which waited for a target, lead to block t now.
Redirected(ir, ir2, P, t) ==
  /\ ir2.blocks = ir.blocks /\ ir2.funcs = ir.funcs
  /\ ir2.insts \in Seq(Range(ir2.insts)) /\ Len(ir2.insts) = Len(ir.insts) /\ DOMAIN ir2.insts = DOMAIN ir.insts
  /\ \A k \in P : k \in DOMAIN ir.insts /\ ir.insts[k] = JumpToBlock(Unset) /\ ir2.insts[k] = JumpToBlock(t)
  /\ \A k \in DOMAIN ir.insts : k \notin P => ir2.insts[k] = ir.insts[k]

LEMMA PatchKeepsKinds ==
  ASSUME NEW ir, NEW ir2, NEW P, NEW t, Redirected(ir, ir2, P, t), NEW k \in DOMAIN ir.insts
  PROVE  ir2.insts[k].kind = ir.insts[k].kind /\ NamedBy(ir2.insts[k]) = NamedBy(ir.insts[k])
<1>1. CASE k \notin P
  BY <1>1 DEF Redirected
<1>2. CASE k \in P
  <2>1. ir.insts[k] = JumpToBlock(Unset) /\ ir2.insts[k] = JumpToBlock(t)
    BY <1>2 DEF Redirected
  <2>2. ASSUME NEW x
        PROVE  JumpToBlock(x).kind = "Jump" /\ NamedBy(JumpToBlock(x)) = {}
    <3> DEFINE i == JumpToBlock(x)
    <3>1. i.kind = "Jump"
      BY DEF JumpToBlock, Inst
    <3> HIDE DEF i
    <3>2. i.kind \notin DOMAIN mapBinaryOpcode
      BY <3>1 DEF mapBinaryOpcode
    <3>3. Registers(i) = <<>>
      BY <3>1, <3>2 DEF Registers
    <3> QED
      BY <3>1, <3>3 DEF NamedBy, i
  <2> QED
    BY <2>1, <2>2
<1> QED
  BY <1>1, <1>2

LEMMA PatchKeepsWhole ==
  ASSUME NEW ir, NEW ir2, NEW P, NEW t, Redirected(ir, ir2, P, t), Spans(ir), Straight(ir), NEW k \in DOMAIN ir.blocks
  PROVE  Whole(ir2, ir.blocks[k]) <=> Whole(ir, ir.blocks[k])
<1>1. CASE ir.blocks[k] = EmptyBlock
  BY <1>1 DEF Whole
<1>2. CASE ir.blocks[k] # EmptyBlock
  <2>1. EndOf(ir.blocks[k]) \in DOMAIN ir.insts
    <3>1. DOMAIN ir.insts = 1..Len(ir.insts)
      BY DEF Spans
    <3>2. EndOf(ir.blocks[k]) \in 1..Len(ir.insts)
      BY <1>2, Within
    <3> QED
      BY <3>1, <3>2
  <2>2. ir2.insts[EndOf(ir.blocks[k])].kind = ir.insts[EndOf(ir.blocks[k])].kind
    BY <2>1, PatchKeepsKinds
  <2> QED
    BY <2>2 DEF Whole
<1> QED
  BY <1>1, <1>2

LEMMA PatchTables ==
  ASSUME NEW ir, NEW ir2, NEW P, NEW t, Redirected(ir, ir2, P, t), ir.funcs # <<>>, t \in BlocksOf(LastFunc(ir)),
         NEW T, NEW c, NEW pending, NEW awaited, Tables(ir, T, c, pending, awaited)
  PROVE  Tables(ir2, T, c, pending \ P, awaited)
<1>1. /\ Spans(ir) /\ Straight(ir) /\ Finished(ir, T, c) /\ Sound(ir, pending) /\ NoneUnused(ir, awaited)
  BY DEF Tables
<1>2. /\ ir2.blocks = ir.blocks /\ ir2.funcs = ir.funcs
      /\ ir2.insts \in Seq(Range(ir2.insts)) /\ Len(ir2.insts) = Len(ir.insts) /\ DOMAIN ir2.insts = DOMAIN ir.insts
  BY DEF Redirected
<1>3. LastFunc(ir2) = LastFunc(ir) /\ \A func, n : BlockOf(ir2, func, n) = BlockOf(ir, func, n)
  BY <1>2 DEF LastFunc, BlockOf
<1>4. ASSUME NEW f \in DOMAIN ir.funcs, NEW n \in 1..ir.funcs[f].count
      PROVE  /\ ir.funcs[f].first + n \in DOMAIN ir.blocks
             /\ InstsOf(BlockOf(ir, ir.funcs[f], n)) \subseteq DOMAIN ir.insts
             /\ Whole(ir2, BlockOf(ir, ir.funcs[f], n)) <=> Whole(ir, BlockOf(ir, ir.funcs[f], n))
  <2>1. ir.funcs[f].first + n \in DOMAIN ir.blocks
    <3>1. CASE f < Len(ir.funcs)
      BY <1>1, <3>1, Layout
    <3>2. CASE ~(f < Len(ir.funcs))
      <4>1. f = Len(ir.funcs) /\ ir.funcs[f] = LastFunc(ir) /\ LastFunc(ir) \in FuncRecord
        <5>1. f \in 1..Len(ir.funcs) /\ Len(ir.funcs) \in Nat
          BY <1>1 DEF Spans
        <5> QED
          BY <1>1, <3>2, <5>1, Layout DEF LastFunc
      <4>2. n - 1 \in BlocksOf(LastFunc(ir)) /\ (n - 1) + 1 = n
        <5>1. LastFunc(ir).count \in Nat
          BY <4>1, Fields
        <5> QED
          BY <4>1, <5>1 DEF BlocksOf
      <4> QED
        BY <1>1, <4>1, <4>2, Layout
    <3> QED
      BY <3>1, <3>2
  <2>2. DOMAIN ir.insts = 1..Len(ir.insts)
    BY <1>1 DEF Spans
  <2> QED
    BY <1>1, <2>1, <2>2, Within, PatchKeepsWhole DEF BlockOf
<1>5. Spans(ir2)
  BY <1>1, <1>2, <1>3 DEF Spans
<1>6. Straight(ir2)
  <2> SUFFICES ASSUME NEW b \in DOMAIN ir.blocks, ir.blocks[b] # EmptyBlock
               PROVE  /\ ir.blocks[b].begin \in Nat /\ ir.blocks[b].count > 0 /\ EndOf(ir.blocks[b]) =< Len(ir2.insts)
                      /\ \A k \in InstsOf(ir.blocks[b]) : ir2.insts[k].kind \in Terminators => k = EndOf(ir.blocks[b])
    BY <1>2 DEF Straight
  <2>1. \A k \in InstsOf(ir.blocks[b]) : k \in DOMAIN ir.insts
    <3>1. DOMAIN ir.insts = 1..Len(ir.insts)
      BY <1>1 DEF Spans
    <3>2. InstsOf(ir.blocks[b]) \subseteq 1..Len(ir.insts)
      BY <1>1, Within
    <3> QED
      BY <3>1, <3>2
  <2>2. \A k \in InstsOf(ir.blocks[b]) : ir2.insts[k].kind = ir.insts[k].kind
    BY <2>1, PatchKeepsKinds
  <2> QED
    BY <1>1, <1>2, <2>2 DEF Straight
<1>7. Finished(ir2, T, c)
  <2>1. Len(ir.funcs) \in DOMAIN ir.funcs /\ ir.funcs[Len(ir.funcs)] = LastFunc(ir) /\ LastFunc(ir) \in FuncRecord
    BY <1>1, Layout DEF LastFunc
  <2>2. \A n \in BlocksOf(LastFunc(ir)) : n + 1 \in 1..LastFunc(ir).count
    <3>1. LastFunc(ir).count \in Nat
      BY <2>1, Fields
    <3> QED
      BY <3>1 DEF BlocksOf
  <2>3. \A n \in BlocksOf(LastFunc(ir)) :
          Whole(ir2, BlockOf(ir, LastFunc(ir), n + 1)) <=> Whole(ir, BlockOf(ir, LastFunc(ir), n + 1))
    BY <1>4, <2>1, <2>2
  <2>4. \A f \in DOMAIN ir2.funcs : f < Len(ir2.funcs) =>
          \A n \in 1..ir2.funcs[f].count : Whole(ir2, BlockOf(ir2, ir2.funcs[f], n))
    <3> SUFFICES ASSUME NEW f \in DOMAIN ir.funcs, f < Len(ir.funcs), NEW n \in 1..ir.funcs[f].count
                 PROVE  Whole(ir2, BlockOf(ir, ir.funcs[f], n))
      BY <1>2, <1>3
    <3>1. Whole(ir, BlockOf(ir, ir.funcs[f], n))
      BY <1>1 DEF Finished
    <3> QED
      BY <1>4, <3>1
  <2>5. /\ c \in BlocksOf(LastFunc(ir2)) \ T
        /\ LET block == BlockOf(ir2, LastFunc(ir2), c + 1) IN block # EmptyBlock => EndOf(block) = Len(ir2.insts)
    BY <1>1, <1>2, <1>3 DEF Finished
  <2>6. \A n \in BlocksOf(LastFunc(ir2)) \ {c} :
          LET block == BlockOf(ir2, LastFunc(ir2), n + 1)
          IN  IF n \in T THEN block = EmptyBlock ELSE Whole(ir2, block)
    <3> SUFFICES ASSUME NEW n \in BlocksOf(LastFunc(ir)) \ {c}
                 PROVE  LET block == BlockOf(ir, LastFunc(ir), n + 1)
                        IN  IF n \in T THEN block = EmptyBlock ELSE Whole(ir2, block)
      BY <1>3
    <3> QED
      BY <1>1, <2>3 DEF Finished
  <2> QED
    BY <2>4, <2>5, <2>6 DEF Finished
<1>8. Sound(ir2, pending \ P)
  <2> SUFFICES ASSUME NEW f \in DOMAIN ir.funcs, NEW n \in 1..ir.funcs[f].count,
                      NEW k \in InstsOf(BlockOf(ir, ir.funcs[f], n))
               PROVE  InstOK(ir.funcs[f], n, ir2.insts[k], f = Len(ir.funcs) /\ k \in pending \ P)
    BY <1>2, <1>3 DEF Sound
  <2>1. InstOK(ir.funcs[f], n, ir.insts[k], f = Len(ir.funcs) /\ k \in pending) /\ k \in DOMAIN ir.insts
    BY <1>1, <1>4 DEF Sound
  <2>2. CASE k \notin P
    <3>1. ir2.insts[k] = ir.insts[k]
      BY <2>1, <2>2 DEF Redirected
    <3>2. (f = Len(ir.funcs) /\ k \in pending \ P) = (f = Len(ir.funcs) /\ k \in pending)
      BY <2>2
    <3> QED
      BY <2>1, <3>1, <3>2
  <2>3. CASE k \in P
    <3> DEFINE i == ir.insts[k]
    <3>1. i = JumpToBlock(Unset) /\ ir2.insts[k] = JumpToBlock(t)
      BY <2>3 DEF Redirected
    <3>2. Block(Unset) \in SlotsOfInst(i) /\ Block(Unset).kind = "BlockId" /\ Block(Unset).value = Unset
      BY <3>1 DEF SlotsOfInst, JumpToBlock, Inst, Block, Operand
    <3>3. Unset \notin BlocksOf(ir.funcs[f])
      BY DEF BlocksOf, Unset
    <3>4. f = Len(ir.funcs)
      <4> DEFINE waiting == f = Len(ir.funcs) /\ k \in pending
      <4>1. InstOK(ir.funcs[f], n, i, waiting)
        BY <2>1
      <4> HIDE DEF waiting, i
      <4>2. Block(Unset).value \in BlocksOf(ir.funcs[f]) \/ (Block(Unset).value = Unset /\ waiting)
        BY <3>2, <4>1 DEF InstOK
      <4>3. waiting
        BY <3>2, <3>3, <4>2
      <4> QED
        BY <4>3 DEF waiting
    <3>5. ir.funcs[f] = LastFunc(ir) /\ LastFunc(ir) \in FuncRecord /\ n \in Nat
      BY <1>1, <3>4, Layout DEF LastFunc
    <3> DEFINE open2 == f = Len(ir.funcs) /\ k \in pending \ P
    <3> HIDE DEF open2
    <3>6. InstOK(ir.funcs[f], n, JumpToBlock(t), open2)
      BY <3>5, Jumps
    <3> QED
      BY <3>1, <3>6 DEF open2
  <2> QED
    BY <2>2, <2>3
<1>9. NoneUnused(ir2, awaited)
  <2> SUFFICES ASSUME NEW f \in DOMAIN ir.funcs, NEW r \in ir.funcs[f].arity..(ir.funcs[f].next_vreg - 1)
               PROVE  Names(ir2, ir.funcs[f], r) \/ (f = Len(ir.funcs) /\ r \in awaited)
    BY <1>2 DEF NoneUnused
  <2>1. Names(ir, ir.funcs[f], r) \/ (f = Len(ir.funcs) /\ r \in awaited)
    BY <1>1 DEF NoneUnused
  <2>2. ASSUME Names(ir, ir.funcs[f], r)
        PROVE  Names(ir2, ir.funcs[f], r)
    <3>1. PICK n \in 1..ir.funcs[f].count : \E k \in InstsOf(BlockOf(ir, ir.funcs[f], n)) : VReg(r) \in NamedBy(ir.insts[k])
      BY <2>2 DEF Names
    <3>2. PICK k \in InstsOf(BlockOf(ir, ir.funcs[f], n)) : VReg(r) \in NamedBy(ir.insts[k])
      BY <3>1
    <3>3. k \in DOMAIN ir.insts
      BY <1>4
    <3>4. VReg(r) \in NamedBy(ir2.insts[k])
      BY <3>2, <3>3, PatchKeepsKinds
    <3>5. k \in InstsOf(BlockOf(ir2, ir.funcs[f], n))
      BY <1>3
    <3> QED
      BY <3>4, <3>5 DEF Names
  <2> QED
    BY <2>1, <2>2
<1> QED
  BY <1>5, <1>6, <1>7, <1>8, <1>9 DEF Tables

LEMMA LoopCloses ==
  ASSUME NEW ls, NEW code_, NEW code2, NEW blks, OpenLoops(ls, code_, blks), ls # <<>>, NEW P, P = ls[Len(ls)].breaks,
         DOMAIN code2 = DOMAIN code_, \A k \in DOMAIN code_ : k \notin P => code2[k] = code_[k],
         NEW ls2, ls2 = Front(ls)
  PROVE  /\ OpenLoops(ls2, code2, blks) /\ Pending(ls) \ P \subseteq Pending(ls2)
         /\ Len(ls) \in Nat /\ Len(ls2) = Len(ls) - 1
<1> DEFINE m == Len(ls)
<1>1. ls \in Seq(LoopRecord) /\ m \in Nat /\ m >= 1 /\ DOMAIN ls = 1..m /\ m \in DOMAIN ls
  BY DEF OpenLoops
<1>2. /\ ls2 \in Seq(LoopRecord) /\ Len(ls2) = m - 1 /\ DOMAIN ls2 = 1..(m - 1)
      /\ \A l \in 1..(m - 1) : ls2[l] = ls[l]
  BY <1>1 DEF Front
<1> HIDE DEF m
<1>3. \A l \in DOMAIN ls2 : l \in DOMAIN ls /\ l # m /\ ls2[l] = ls[l]
  BY <1>1, <1>2
<1>4. \A l \in DOMAIN ls : l # m => l \in DOMAIN ls2
  BY <1>1, <1>2
<1>5. ASSUME NEW l \in DOMAIN ls2
      PROVE  /\ ls2[l].continue_target \in blks
             /\ \A k \in ls2[l].breaks : k \in DOMAIN code2 /\ code2[k] = JumpToBlock(Unset)
  <2>1. ls2[l] = ls[l] /\ l \in DOMAIN ls /\ ls[l].breaks \cap P = {}
    BY <1>1, <1>3 DEF OpenLoops, m
  <2> QED
    BY <2>1 DEF OpenLoops
<1>6. ASSUME NEW l \in DOMAIN ls2, NEW k \in DOMAIN ls2, l # k
      PROVE  ls2[l].breaks \cap ls2[k].breaks = {}
  BY <1>3, <1>6 DEF OpenLoops
<1>7. Pending(ls) \ P \subseteq Pending(ls2)
  <2> SUFFICES ASSUME NEW k \in Pending(ls), k \notin P
               PROVE  k \in Pending(ls2)
    OBVIOUS
  <2>1. PICK l \in DOMAIN ls : k \in ls[l].breaks
    BY DEF Pending
  <2>2. l # m
    BY <2>1 DEF m
  <2>3. l \in DOMAIN ls2 /\ ls2[l] = ls[l]
    BY <1>3, <1>4, <2>2
  <2> QED
    BY <2>1, <2>3 DEF Pending
<1> QED
  BY <1>1, <1>2, <1>5, <1>6, <1>7 DEF OpenLoops, m

LEMMA TablesAreGrowing ==
  ASSUME NEW ir, NEW T, NEW c, NEW pending, NEW awaited, Tables(ir, T, c, pending, awaited), ir.funcs # <<>>
  PROVE  Growing(ir, c)
BY DEF Tables, Growing, Finished, Latest, CurrentOf

\* The function goes on in another block, and nothing else becomes of the tables.
LEMMA TablesMove ==
  ASSUME NEW ir, NEW T, NEW c, NEW c2 \in T, NEW pending, NEW pending2, pending \subseteq pending2,
         NEW awaited, NEW awaited2, awaited \subseteq awaited2, T \subseteq BlocksOf(LastFunc(ir)), c \notin T,
         Tables(ir, T, c, pending, awaited), ir.funcs # <<>>, Whole(ir, CurrentOf(ir, c))
  PROVE  Tables(ir, T \ {c2}, c2, pending2, awaited2)
<1>1. Growing(ir, c)
  BY TablesAreGrowing
<1>2. Same(ir, ir)
  BY DEF Same
<1>3. Grown(ir, ir, c, 0, 0, <<>>)
  BY <1>1, <1>2, SameGrows
<1>4. Fills(ir, ir, c, <<>>, pending2)
  BY FillsNothing
<1>5. NamesAll(ir, ir, <<>>, awaited, awaited2)
  <2>1. LastFunc(ir).next_vreg \in Nat
    BY <1>1, Layout, Fields DEF Growing
  <2>2. LastFunc(ir).next_vreg..(LastFunc(ir).next_vreg - 1) = {}
    BY <2>1
  <2> QED
    BY <2>2 DEF NamesAll
<1>6. Moves(ir, ir, T, c, T \ {c2}, c2)
  BY DEF Moves
<1> QED
  BY <1>1, <1>3, <1>4, <1>5, <1>6, TablesGrow

LEMMA ExitLoopKeeps ==
  ASSUME NEW f, Here(f), exitLoop
  PROVE  BuildInv'
<1> DEFINE ir   == ModuleIR
           ir2  == ModuleIR'
           t    == f.arg[1]
           P    == loops[Len(loops)].breaks
           func == LastFunc(ir)
           s2   == Tail(todo)
<1>1. /\ f.step = "ExitLoop" /\ cur' = t /\ EndCall /\ loops' = Front(loops)
      /\ insts' = [k \in DOMAIN insts |-> IF k \in Last(loops).breaks THEN [insts[k] EXCEPT !.a = Block(t)] ELSE insts[k]]
      /\ UNCHANGED <<blocks, funcs, locals, open, decl, meta, errors, env>>
  BY TopIs DEF exitLoop, Doing
<1>2. /\ f.step \notin {"VarDecl"} \cup DeclStep \cup ExprStep /\ f.step \in Switching /\ Targets(f) = {t}
  BY <1>1 DEF DeclStep, Switching, ExprStep, Targets
<1>3. /\ Going(ir, todo, cur, loops) /\ todo # <<>> /\ f = todo[1] /\ Conditions(todo, cur) /\ Nesting(todo, Len(loops))
      /\ OpenLoops(loops, ir.insts, BlocksOf(func)) /\ Tables(ir, AllTargets(todo), cur, Pending(loops), Awaited(todo))
      /\ ir.insts = insts /\ ir2.insts = insts'
  BY DEF Here, Going, ModuleIR
<1>4. /\ ir.funcs # <<>> /\ Growing(ir, cur) /\ Stack(todo, RegsOf(func), BlocksOf(func)) /\ 1 \in DOMAIN todo
      /\ todo \in Seq(Range(todo))
      /\ AllTargets(todo) \subseteq BlocksOf(func) /\ cur \notin AllTargets(todo)
      /\ \A k \in DOMAIN todo : 1 < k => Targets(todo[1]) \cap Targets(todo[k]) = {}
      /\ Whole(ir, CurrentOf(ir, cur))
  BY <1>2, <1>3, InFunction
<1>5. IsLoop(f)
  BY <1>1 DEF IsLoop
<1>6. Len(loops) \in Nat /\ loops \in Seq(LoopRecord)
  BY <1>3 DEF OpenLoops
<1>7. Len(loops) >= 1 /\ Nesting(s2, Len(loops) - 1)
  BY <1>3, <1>4, <1>5, <1>6, NestingLeaves
<1>8. loops # <<>> /\ Last(loops) = loops[Len(loops)] /\ Len(loops) \in DOMAIN loops
  BY <1>6, <1>7 DEF Last
<1>9. \A k \in P : k \in DOMAIN insts /\ insts[k] = JumpToBlock(Unset)
  BY <1>3, <1>8 DEF OpenLoops
<1> HIDE DEF P
<1>10. Redirected(ir, ir2, P, t)
  <2>1. insts' = [k \in DOMAIN insts |-> IF k \in P THEN [insts[k] EXCEPT !.a = Block(t)] ELSE insts[k]]
    BY <1>1, <1>8 DEF P
  <2>2. insts \in Seq(Range(insts))
    BY <1>3, <1>4 DEF Growing, Spans
  <2> DEFINE c2 == insts'
  <2> HIDE DEF c2
  <2>3. /\ DOMAIN c2 = DOMAIN insts /\ \A k \in DOMAIN insts : k \notin P => c2[k] = insts[k]
    BY <2>1 DEF c2
  <2>4. \A k \in P : c2[k] = JumpToBlock(t)
    <3> SUFFICES ASSUME NEW k \in P
                 PROVE  c2[k] = JumpToBlock(t)
      OBVIOUS
    <3>1. k \in DOMAIN insts /\ insts[k] = JumpToBlock(Unset)
      BY <1>9
    <3>2. c2[k] = [insts[k] EXCEPT !.a = Block(t)]
      BY <2>1, <3>1 DEF c2
    <3>3. [JumpToBlock(Unset) EXCEPT !.a = Block(t)] = JumpToBlock(t)
      <4> DEFINE u == Block(Unset)  v == Block(t)  w == Invalid
      <4>1. JumpToBlock(Unset) = [kind |-> "Jump", dst |-> w, a |-> u, b |-> w, c |-> w, aux |-> 0]
        BY DEF JumpToBlock, Inst
      <4>2. JumpToBlock(t) = [kind |-> "Jump", dst |-> w, a |-> v, b |-> w, c |-> w, aux |-> 0]
        BY DEF JumpToBlock, Inst
      <4> HIDE DEF u, v, w
      <4>3. [[kind |-> "Jump", dst |-> w, a |-> u, b |-> w, c |-> w, aux |-> 0] EXCEPT !.a = v]
              = [kind |-> "Jump", dst |-> w, a |-> v, b |-> w, c |-> w, aux |-> 0]
        OBVIOUS
      <4> QED
        BY <4>1, <4>2, <4>3 DEF v
    <3> QED
      BY <3>1, <3>2, <3>3
  <2>5. c2 \in Seq(Range(c2)) /\ Len(c2) = Len(insts)
    <3>1. DOMAIN insts = 1..Len(insts) /\ Len(insts) \in Nat
      BY <2>2
    <3> DEFINE m == Len(insts)
    <3> HIDE DEF m
    <3>2. c2 = [k \in 1..m |-> c2[k]]
      <4>1. c2 = [k \in DOMAIN c2 |-> c2[k]]
        BY <2>1 DEF c2
      <4> QED
        BY <2>3, <3>1, <4>1 DEF m
    <3> QED
      BY <3>1, <3>2, Numbered DEF m
  <2>6. ir2.blocks = ir.blocks /\ ir2.funcs = ir.funcs
    BY <1>1 DEF ModuleIR
  <2> QED
    BY <1>3, <1>9, <2>3, <2>4, <2>5, <2>6 DEF Redirected, c2
<1>11. ir2.funcs = ir.funcs /\ ir2.blocks = ir.blocks /\ LastFunc(ir2) = func /\ CurrentOf(ir2, cur) = CurrentOf(ir, cur)
  BY <1>10 DEF Redirected, LastFunc, CurrentOf, BlockOf
<1>12. t \in AllTargets(todo) /\ t \in BlocksOf(func)
  BY <1>2, <1>3, <1>4 DEF AllTargets
<1> HIDE DEF ir, ir2, func
<1>13. Tables(ir2, AllTargets(todo), cur, Pending(loops) \ P, Awaited(todo))
  BY <1>3, <1>4, <1>10, <1>12, PatchTables DEF func
<1>14. Whole(ir2, CurrentOf(ir2, cur))
  <2>1. LastFunc(ir).first + (cur + 1) \in DOMAIN ir.blocks /\ Spans(ir) /\ Straight(ir)
    BY <1>4, Layout DEF Growing
  <2>2. CurrentOf(ir, cur) = ir.blocks[LastFunc(ir).first + (cur + 1)]
    BY DEF CurrentOf, BlockOf
  <2> DEFINE at == LastFunc(ir).first + (cur + 1)
  <2> HIDE DEF at
  <2>3. at \in DOMAIN ir.blocks /\ CurrentOf(ir, cur) = ir.blocks[at]
    BY <2>1, <2>2 DEF at
  <2>4. Whole(ir2, ir.blocks[at]) <=> Whole(ir, ir.blocks[at])
    BY <1>10, <2>1, <2>3, PatchKeepsWhole
  <2> QED
    BY <1>4, <1>11, <2>3, <2>4
<1>15. /\ OpenLoops(loops', ir2.insts, BlocksOf(LastFunc(ir2))) /\ Pending(loops) \ P \subseteq Pending(loops')
       /\ Len(loops') = Len(loops) - 1
  <2> DEFINE ls2 == loops'
  <2>1. DOMAIN ir2.insts = DOMAIN ir.insts /\ \A k \in DOMAIN ir.insts : k \notin P => ir2.insts[k] = ir.insts[k]
    BY <1>10 DEF Redirected
  <2>2. ls2 = Front(loops) /\ OpenLoops(loops, ir.insts, BlocksOf(func))
    BY <1>1, <1>3
  <2>3. P = loops[Len(loops)].breaks
    BY DEF P
  <2> DEFINE was == ir.insts  is == ir2.insts  blks == BlocksOf(func)
  <2> HIDE DEF ls2, was, is, blks
  <2>4. DOMAIN is = DOMAIN was /\ \A k \in DOMAIN was : k \notin P => is[k] = was[k]
    BY <2>1 DEF was, is
  <2>5. ls2 = Front(loops) /\ OpenLoops(loops, was, blks)
    BY <2>2 DEF was, blks
  <2>6. /\ OpenLoops(ls2, is, blks) /\ Pending(loops) \ P \subseteq Pending(ls2)
        /\ Len(ls2) = Len(loops) - 1
    BY <1>8, <2>3, <2>4, <2>5, LoopCloses
  <2> QED
    BY <1>11, <2>6 DEF ls2, is, blks
<1>16. <<>> \o s2 = s2 /\ <<>> \in Seq(Range(<<>>))
  BY <1>4, None
<1>17. Stack(s2, RegsOf(func), BlocksOf(func))
  <2>1. Replaces(<<>>, todo[1], RegsOf(func), BlocksOf(func), {})
    BY ReplacesNone
  <2> DEFINE none == <<>>  regs == RegsOf(func)  blks == BlocksOf(func)
  <2>2. {} \cap blks = {} /\ regs \subseteq regs /\ blks \subseteq blks
    OBVIOUS
  <2> HIDE DEF none, regs, blks
  <2>3. Stack(none \o Tail(todo), regs, blks)
    BY <1>3, <1>4, <2>1, <2>2, StackGoesOn DEF none, regs, blks
  <2> QED
    BY <1>16, <2>3 DEF none, regs, blks
<1>18. AllTargets(s2) = AllTargets(todo) \ {t}
  <2> DEFINE none == <<>>
  <2>1. none \in Seq(Range(none)) /\ none \o s2 = s2 /\ AllTargets(none) = {}
    BY <1>16, TargetsOfNone
  <2> HIDE DEF none
  <2>2. AllTargets(none \o Tail(todo)) = (AllTargets(todo) \ Targets(todo[1])) \cup AllTargets(none)
    BY <1>3, <1>4, <2>1, TargetsAfter
  <2> QED
    BY <1>2, <1>3, <2>1, <2>2
<1>19. Awaited(todo) \subseteq Awaited(s2)
  <2>1. \A r \in Awaited(todo) : r \in Awaited(<<>> \o s2) \/ (todo[1].step = "VarDecl" /\ r = todo[1].arg[1])
    BY <1>3, <1>4, <1>16, AwaitedAfter DEF s2
  <2> QED
    BY <1>2, <1>3, <1>16, <2>1
<1>20. Tables(ir2, AllTargets(s2), t, Pending(loops'), Awaited(s2))
  <2>1. ir2.funcs # <<>> /\ AllTargets(todo) \subseteq BlocksOf(LastFunc(ir2))
    BY <1>4, <1>11
  <2> DEFINE T == AllTargets(todo)  pend == Pending(loops')
  <2> HIDE DEF T, pend, t
  <2>2. Tables(ir2, T \ {t}, t, pend, Awaited(s2))
    BY <1>4, <1>12, <1>13, <1>14, <1>15, <1>19, <2>1, TablesMove DEF T, pend
  <2> QED
    BY <1>18, <2>2 DEF T, pend
<1>21. Conditions(s2, t)
  <2>1. \A k \in DOMAIN <<>> : <<>>[k].step = "Loop" => t = <<>>[k].arg[1] /\ \A j \in DOMAIN <<>> : j < k => <<>>[j].step \in ExprStep
    BY None
  <2>2. todo[1].step \notin ExprStep
    BY <1>2, <1>3
  <2> DEFINE none == <<>>
  <2> HIDE DEF none, s2
  <2>3. none \in Seq(Range(none)) /\ \A k \in DOMAIN none : none[k].step = "Loop" => t = none[k].arg[1] /\ \A j \in DOMAIN none : j < k => none[j].step \in ExprStep
    BY <1>16, <2>1 DEF none
  <2>4. Conditions(none \o Tail(todo), t)
    BY <1>3, <1>4, <2>2, <2>3, ConditionsGoOn
  <2> QED
    BY <1>16, <2>4 DEF none, s2
<1>22. Nesting(s2, Len(loops'))
  BY <1>7, <1>15
<1>23. Position(ir2, s2, t)
  <2>1. Callers(todo[1].step) = EitherWay /\ todo[1].step \notin Outermost
    BY <1>1, <1>3, CallersAre DEF Outermost, DeclStep
  <2>2. \A next \in EitherWay : Fits(ir2, t, next)
    BY DEF EitherWay, Fits, Running, Switching, DeclStep, ExprStep, StmtStep
  <2>3. ir2.funcs # <<>>
    BY <1>4, <1>11
  <2> DEFINE none == <<>>
  <2>4. /\ none # <<>> => Fits(ir2, t, none[1].step)
        /\ none = <<>> => /\ todo[1].step \in Outermost => Whole(ir2, CurrentOf(ir2, t))
                          /\ \A next \in Callers(todo[1].step) : Fits(ir2, t, next)
    BY <2>1, <2>2
  <2>5. none \in Seq(Range(none))
    BY <1>16
  <2> HIDE DEF none
  <2>6. Position(ir2, none \o Tail(todo), t)
    BY <1>3, <1>4, <2>3, <2>4, <2>5, Positioned
  <2> QED
    BY <1>16, <2>6 DEF none
<1>24. Going(ir2, s2, t, loops')
  BY <1>11, <1>15, <1>17, <1>20, <1>21, <1>22, <1>23 DEF Going
<1>25. Context(ir2, decl', open', locals')
  BY <1>1, <1>11 DEF Here, Context, ir, ir2, func
<1>26. todo' = s2
  BY <1>1 DEF EndCall
<1> QED
  BY <1>1, <1>24, <1>25, <1>26 DEF BuildInv, ir2

-----------------------------------------------------------------------------
(***************************************************************************)
(* Declarations.                                                           *)
(***************************************************************************)
\* Tables that are the same keep what is said of them.
LEMMA SameTables ==
  ASSUME NEW ir, NEW ir2, Same(ir, ir2), NEW T, NEW c, NEW pending, NEW awaited, NEW awaited2,
         awaited \subseteq awaited2, Tables(ir, T, c, pending, awaited)
  PROVE  Tables(ir2, T, c, pending, awaited2)
<1>1. ir2.insts = ir.insts /\ ir2.blocks = ir.blocks /\ ir2.funcs = ir.funcs
  BY DEF Same
<1>2. LastFunc(ir2) = LastFunc(ir) /\ \A func, n : BlockOf(ir2, func, n) = BlockOf(ir, func, n)
  BY <1>1 DEF LastFunc, BlockOf
<1>3. \A block : Whole(ir2, block) <=> Whole(ir, block)
  BY <1>1 DEF Whole
<1>4. \A func, r : Names(ir2, func, r) <=> Names(ir, func, r)
  BY <1>1, <1>2 DEF Names
<1>5. /\ Spans(ir) /\ Straight(ir) /\ Finished(ir, T, c) /\ Sound(ir, pending) /\ NoneUnused(ir, awaited)
  BY DEF Tables
<1>6. Spans(ir2) /\ Straight(ir2)
  BY <1>1, <1>2, <1>5 DEF Spans, Straight
<1>7. Finished(ir2, T, c)
  BY <1>1, <1>2, <1>3, <1>5 DEF Finished
<1>8. Sound(ir2, pending)
  BY <1>1, <1>2, <1>5 DEF Sound
<1>9. NoneUnused(ir2, awaited2)
  BY <1>1, <1>4, <1>5 DEF NoneUnused
<1> QED
  BY <1>6, <1>7, <1>8, <1>9 DEF Tables

\* Between two functions only declarations wait.
Between(s) == \A k \in DOMAIN s : s[k].step \in DeclStep

LEMMA AllDeclarations ==
  ASSUME NEW s, NEW regs, NEW blks, Stack(s, regs, blks), s # <<>>, s[1].step \in DeclStep
  PROVE  Between(s)
<1>1. s \in Seq(Range(s)) /\ 1 \in DOMAIN s /\ DOMAIN s = 1..Len(s) /\ Len(s) \in Nat
  BY DEF Stack
<1>2. ASSUME NEW k \in DOMAIN s
      PROVE  s[k].step \in DeclStep
  <2>1. CASE k = 1
    BY <2>1
  <2>2. CASE k # 1
    <3>1. 1 < k
      BY <1>1, <2>2
    <3> QED
      BY <1>1, <3>1 DEF Stack
  <2> QED
    BY <2>1, <2>2
<1> QED
  BY <1>2 DEF Between

LEMMA NothingWaits ==
  ASSUME NEW s, Between(s)
  PROVE  /\ AllTargets(s) = {} /\ Awaited(s) = {} /\ \A c : Conditions(s, c)
         /\ Nesting(s, 0) /\ \A n \in Nat : Nesting(s, n) => n = 0
<1>1. \A k \in DOMAIN s : s[k].step \notin {"Loop", "ExitLoop", "VarDecl", "Arm", "Switch"}
  BY DEF Between, DeclStep
<1>2. \A k \in DOMAIN s : Targets(s[k]) = {} /\ ~IsLoop(s[k])
  BY <1>1 DEF Targets, IsLoop, Switching
<1>3. AllTargets(s) = {}
  BY <1>2 DEF AllTargets
<1>4. Awaited(s) = {}
  BY <1>1 DEF Awaited
<1>5. \A c : Conditions(s, c)
  BY <1>1 DEF Conditions
<1>6. 1..0 = {}
  OBVIOUS
<1>7. Nesting(s, 0)
  BY <1>2, <1>6 DEF Nesting
<1>8. ASSUME NEW n \in Nat, Nesting(s, n)
      PROVE  n = 0
  <2>1. 1 \notin 1..n
    BY <1>2, <1>8 DEF Nesting
  <2> QED
    BY <2>1
<1> QED
  BY <1>3, <1>4, <1>5, <1>7, <1>8

\* Declarations that hold no code.
LEMMA DeclKeeps ==
  ASSUME NEW f, Here(f), f.step \in DeclStep, UNCHANGED code, UNCHANGED context, NEW cs,
         Replaces(cs, f, RegsOf(Function), BlocksOf(Function), {}),
         \A k \in DOMAIN cs : cs[k].step \in DeclStep, Continue(cs)
  PROVE  BuildInv'
<1> DEFINE ir  == ModuleIR
           ir2 == ModuleIR'
           func == LastFunc(ir)
           s2 == cs \o Tail(todo)
<1>1. Going(ir, todo, cur, loops) /\ todo # <<>> /\ f = todo[1]
  BY DEF Here
<1>2. Same(ir, ir2)
  BY DEF Same, ModuleIR, code
<1>3. func = Function
  BY DEF LastFunc, Last, ModuleIR, Function
<1>4. Stack(todo, RegsOf(func), BlocksOf(func)) /\ todo \in Seq(Range(todo)) /\ Nesting(todo, Len(loops))
      /\ OpenLoops(loops, ir.insts, BlocksOf(func)) /\ Position(ir, todo, cur)
      /\ Tables(ir, AllTargets(todo), cur, Pending(loops), Awaited(todo))
  BY <1>1 DEF Going, Stack
<1>5. LastFunc(ir2) = func /\ ir2.insts = ir.insts /\ ir2.funcs = ir.funcs
  BY <1>2 DEF Same, LastFunc
<1>6. Between(todo)
  BY <1>1, <1>4, AllDeclarations
<1>7. cs \in Seq(Range(cs))
  BY DEF Replaces
<1> HIDE DEF ir, ir2, func
<1>8. Stack(s2, RegsOf(func), BlocksOf(func))
  <2> DEFINE regs == RegsOf(func)  blks == BlocksOf(func)
  <2>1. Stack(todo, regs, blks) /\ Replaces(cs, todo[1], regs, blks, {}) /\ regs \subseteq regs /\ blks \subseteq blks
        /\ {} \cap blks = {}
    BY <1>1, <1>3, <1>4
  <2> HIDE DEF regs, blks
  <2>2. Stack(s2, regs, blks)
    BY <1>1, <2>1, StackGoesOn
  <2> QED
    BY <2>2 DEF regs, blks
<1>9. Between(s2)
  <2> SUFFICES ASSUME NEW k \in DOMAIN s2
               PROVE  s2[k].step \in DeclStep
    BY DEF Between
  <2> DEFINE t == s2
  <2> HIDE DEF t
  <2>1. \/ k \in DOMAIN cs /\ t[k] = cs[k]
        \/ /\ k \notin DOMAIN cs /\ k - Len(cs) + 1 \in DOMAIN todo \ {1} /\ t[k] = todo[k - Len(cs) + 1]
    <3>1. t = cs \o Tail(todo) /\ k \in DOMAIN t
      BY DEF t
    <3> QED
      BY <1>1, <1>4, <1>7, <3>1, SplicedElements
  <2>2. t[k].step \in DeclStep
    BY <1>6, <2>1 DEF Between
  <2> QED
    BY <2>2 DEF t
<1>10. /\ AllTargets(s2) = {} /\ Awaited(s2) = {} /\ Conditions(s2, cur) /\ AllTargets(todo) = {} /\ Awaited(todo) = {}
       /\ Nesting(s2, Len(loops))
  <2>1. Len(loops) \in Nat
    BY <1>4 DEF OpenLoops
  <2>2. Len(loops) = 0
    BY <1>4, <1>6, <2>1, NothingWaits
  <2> HIDE DEF s2
  <2> QED
    BY <1>6, <1>9, <2>2, NothingWaits
<1>11. Tables(ir2, {}, cur, Pending(loops), {})
  BY <1>2, <1>4, <1>10, SameTables
<1>12. Position(ir2, s2, cur)
  <2>1. ir.funcs # <<>> => Whole(ir, CurrentOf(ir, cur))
    BY <1>1, <1>4 DEF Position
  <2>2. ir2.funcs # <<>> => Whole(ir2, CurrentOf(ir2, cur))
    BY <1>2, <2>1 DEF Same, Whole, CurrentOf, LastFunc, BlockOf
  <2>3. s2 = <<>> \/ s2[1].step \in DeclStep
    <3>1. s2 \in Seq(Range(s2))
      BY <1>8 DEF Stack
    <3> HIDE DEF s2
    <3>2. s2 # <<>> => 1 \in DOMAIN s2
      BY <3>1
    <3> QED
      BY <1>9, <3>2 DEF Between
  <2> HIDE DEF s2
  <2> QED
    BY <2>2, <2>3 DEF Position
<1>13. cur' = cur /\ loops' = loops /\ decl' = decl /\ open' = open /\ locals' = locals /\ todo' = s2
  BY DEF context, Continue
<1>14. Going(ir2, s2, cur, loops)
  BY <1>4, <1>5, <1>8, <1>10, <1>11, <1>12 DEF Going
<1>15. Context(ir2, decl, open, locals)
  BY <1>5 DEF Here, Context, ir, func
<1> QED
  BY <1>13, <1>14, <1>15 DEF BuildInv, ir2

LEMMA DeclFrames ==
  ASSUME NEW step_ \in DeclStep, NEW node \in Tree, NEW arg, NEW regs, NEW blks
  PROVE  /\ FrameOK(Frame(step_, node, arg), regs, blks)
         /\ Targets(Frame(step_, node, arg)) = {} /\ Frame(step_, node, arg).step = step_
<1> DEFINE g == Frame(step_, node, arg)
<1>1. /\ g.step = step_ /\ g.node = node /\ g.arg = arg /\ g.got = <<>>
      /\ g = [step |-> g.step, node |-> g.node, arg |-> g.arg, got |-> g.got]
  BY FrameIs
<1> HIDE DEF g
<1>2. g.step \notin {"Loop", "ExitLoop", "Arm", "Switch", "Element", "Pair", "Deliver", "VarDecl", "Assign", "Leave", "JumpOn"}
  BY <1>1 DEF DeclStep
<1>3. Targets(g) = {}
  BY <1>2 DEF Targets, Switching
<1>4. FrameOK(g, regs, blks)
  BY <1>1, <1>2, <1>3 DEF FrameOK
<1> QED
  BY <1>1, <1>3, <1>4 DEF g

LEMMA ReplacesDecls ==
  ASSUME NEW f, f.step \in DeclStep, NEW cs, cs \in Seq(Range(cs)), NEW regs, NEW blks,
         \A k \in DOMAIN cs : FrameOK(cs[k], regs, blks) /\ Targets(cs[k]) = {} /\ cs[k].step \in DeclStep
  PROVE  Replaces(cs, f, regs, blks, {})
<1>1. Callers(f.step) = DeclStep
  BY CallersAre
<1>2. Len(cs) \in Nat /\ DOMAIN cs = 1..Len(cs)
  OBVIOUS
<1>3. ASSUME NEW k \in DOMAIN cs
      PROVE  /\ FrameOK(cs[k], regs, blks)
             /\ Targets(cs[k]) \subseteq Targets(f) \cup {}
             /\ cs[k].step \in DeclStep => f.step \in DeclStep
             /\ IF k < Len(cs) THEN cs[k + 1].step \in Callers(cs[k].step)
                               ELSE /\ f.step \in Outermost => cs[k].step \in Outermost
                                    /\ Callers(f.step) \subseteq Callers(cs[k].step)
  <2>1. Callers(cs[k].step) = DeclStep /\ cs[k].step \in Outermost
    <3>1. cs[k].step \in DeclStep
      OBVIOUS
    <3> QED
      BY <3>1, CallersAre DEF Outermost
  <2>2. k < Len(cs) => cs[k + 1].step \in DeclStep
    <3>1. k < Len(cs) => k + 1 \in DOMAIN cs
      BY <1>2
    <3> QED
      BY <3>1
  <2> QED
    BY <1>1, <2>1, <2>2
<1> QED
  BY <1>3 DEF Replaces

LEMMA OtherDeclKeeps ==
  ASSUME NEW f, Here(f), buildTopDecl
  PROVE  BuildInv'
<1>1. f.step = "Decl" /\ f.step \in DeclStep
  BY TopIs DEF buildTopDecl, Doing, DeclStep
<1>2. CASE \E what : error(what)
  BY <1>2, ErrorKeeps
<1>3. CASE EndCall /\ UNCHANGED <<code, context, errors, env>>
  <2>1. Continue(<<>>) /\ UNCHANGED code /\ UNCHANGED context
    BY <1>3, EndingIs
  <2>2. Replaces(<<>>, f, RegsOf(Function), BlocksOf(Function), {}) /\ \A k \in DOMAIN <<>> : <<>>[k].step \in DeclStep
    BY ReplacesNone, None
  <2> QED
    BY <1>1, <2>1, <2>2, DeclKeeps
<1> QED
  BY <1>2, <1>3 DEF buildTopDecl

LEMMA EndModuleKeeps ==
  ASSUME NEW f, Here(f), endModule \/ exportWrapped
  PROVE  BuildInv'
<1>1. f.step \in {"EndModule", "Exported"} /\ f.step \in DeclStep
  BY TopIs DEF endModule, exportWrapped, Doing, DeclStep
<1>2. Continue(<<>>) /\ UNCHANGED code /\ UNCHANGED context
  BY EndingIs DEF endModule, exportWrapped
<1>3. Replaces(<<>>, f, RegsOf(Function), BlocksOf(Function), {}) /\ \A k \in DOMAIN <<>> : <<>>[k].step \in DeclStep
  BY ReplacesNone, None
<1> QED
  BY <1>1, <1>2, <1>3, DeclKeeps

LEMMA NodeOfDecl ==
  ASSUME NEW f, Here(f)
  PROVE  f.node \in Tree /\ Typed(f.node)
<1>1. Stack(todo, RegsOf(LastFunc(ModuleIR)), BlocksOf(LastFunc(ModuleIR))) /\ todo # <<>> /\ f = todo[1]
  BY DEF Here, Going
<1>2. 1 \in DOMAIN todo
  BY <1>1 DEF Stack
<1>3. f.node \in Tree
  BY <1>1, <1>2 DEF Stack, FrameOK
<1> QED
  BY <1>3, TreeAssumption

LEMMA ExportKeeps ==
  ASSUME NEW f, Here(f), enterExport
  PROVE  BuildInv'
<1> DEFINE w == f.node.wrapped
           g == Frame("Decl", w, <<>>)
           h == Frame("Exported", w, <<>>)
           cs == <<g, h>>
           regs == RegsOf(Function)
           blks == BlocksOf(Function)
<1>1. /\ f.step = "Decl" /\ f.step \in DeclStep /\ f.node.node = "ExportDecl" /\ Continue(cs)
      /\ UNCHANGED code /\ UNCHANGED context
  BY TopIs DEF enterExport, DoingNode, Doing, DeclStep
<1>2. w \in Tree
  BY <1>1, NodeOfDecl DEF Typed
<1> HIDE DEF w, regs, blks
<1>3. FrameOK(g, regs, blks) /\ Targets(g) = {} /\ g.step \in DeclStep
  BY <1>2, DeclFrames DEF DeclStep
<1>4. FrameOK(h, regs, blks) /\ Targets(h) = {} /\ h.step \in DeclStep
  BY <1>2, DeclFrames DEF DeclStep
<1> HIDE DEF g, h
<1>5. cs \in Seq(Range(cs)) /\ DOMAIN cs = {1, 2} /\ cs[1] = g /\ cs[2] = h
  BY Two
<1> HIDE DEF cs
<1>6. \A k \in DOMAIN cs : FrameOK(cs[k], regs, blks) /\ Targets(cs[k]) = {} /\ cs[k].step \in DeclStep
  BY <1>3, <1>4, <1>5
<1>7. Replaces(cs, f, regs, blks, {})
  BY <1>1, <1>5, <1>6, ReplacesDecls
<1> QED
  BY <1>1, <1>6, <1>7, DeclKeeps DEF regs, blks

LEMMA DeclsAre ==
  ASSUME NEW decls \in Seq(Tree), NEW regs, NEW blks
  PROVE  /\ Decls(decls) \in Seq(Range(Decls(decls))) /\ DOMAIN Decls(decls) = DOMAIN decls
         /\ \A k \in DOMAIN Decls(decls) :
              LET g == Decls(decls)[k] IN FrameOK(g, regs, blks) /\ Targets(g) = {} /\ g.step \in DeclStep
<1> DEFINE s == Decls(decls)
           n == Len(decls)
<1>1. n \in Nat /\ DOMAIN decls = 1..n
  OBVIOUS
<1>2. DOMAIN s = DOMAIN decls /\ \A k \in DOMAIN decls : s[k] = Frame("Decl", decls[k], <<>>)
  BY DEF Decls
<1>3. s = [k \in DOMAIN decls |-> s[k]]
  BY DEF Decls
<1> HIDE DEF s, n
<1>4. s \in Seq(Range(s))
  BY <1>1, <1>3, Numbered
<1>5. ASSUME NEW k \in DOMAIN decls
      PROVE  FrameOK(s[k], regs, blks) /\ Targets(s[k]) = {} /\ s[k].step \in DeclStep
  <2> DEFINE d == decls[k]
  <2>1. d \in Tree /\ s[k] = Frame("Decl", d, <<>>)
    BY <1>2
  <2> HIDE DEF d
  <2> QED
    BY <2>1, DeclFrames DEF DeclStep
<1> QED
  BY <1>2, <1>4, <1>5 DEF s

LEMMA EnterModuleKeeps ==
  ASSUME NEW f, Here(f), enterModule
  PROVE  BuildInv'
<1> DEFINE d == f.node
           a == <<meta.module>>
           s == Decls(d.decls)
           g == Frame("EndModule", d, a)
           cs == Append(s, g)
           regs == RegsOf(Function)
           blks == BlocksOf(Function)
<1>1. /\ f.step = "Decl" /\ f.step \in DeclStep /\ d.node = "ModuleDecl" /\ Continue(cs)
      /\ UNCHANGED code /\ UNCHANGED context
  BY TopIs DEF enterModule, DoingNode, Doing, DeclStep
<1>2. d \in Tree /\ d.decls \in Seq(Tree)
  BY <1>1, NodeOfDecl DEF Typed
<1> HIDE DEF d, regs, blks, a
<1>3. FrameOK(g, regs, blks) /\ Targets(g) = {} /\ g.step \in DeclStep
  BY <1>2, DeclFrames DEF DeclStep
<1>4. /\ s \in Seq(Range(s))
      /\ \A k \in DOMAIN s : FrameOK(s[k], regs, blks) /\ Targets(s[k]) = {} /\ s[k].step \in DeclStep
  BY <1>2, DeclsAre
<1> HIDE DEF g, s
<1>5. Longer(s, g, s \o <<g>>)
  BY <1>4, OneMore
<1>6. Longer(s, g, cs)
  BY <1>5 DEF Longer
<1> HIDE DEF cs
<1>7. \A k \in DOMAIN cs : (k \in DOMAIN s /\ cs[k] = s[k]) \/ cs[k] = g
  BY <1>6 DEF Longer
<1>8. \A k \in DOMAIN cs : FrameOK(cs[k], regs, blks) /\ Targets(cs[k]) = {} /\ cs[k].step \in DeclStep
  BY <1>3, <1>4, <1>7
<1>9. cs \in Seq(Range(cs))
  BY <1>6 DEF Longer
<1>10. Replaces(cs, f, regs, blks, {})
  BY <1>1, <1>8, <1>9, ReplacesDecls
<1> QED
  BY <1>1, <1>8, <1>10, DeclKeeps DEF regs, blks

\* The block a function names is one of the table.
LEMMA BlockPlace ==
  ASSUME NEW ir, Spans(ir), NEW f \in DOMAIN ir.funcs, NEW n \in 1..ir.funcs[f].count
  PROVE  ir.funcs[f].first + n \in DOMAIN ir.blocks
<1>1. ir.funcs # <<>>
  BY DEF Spans
<1>2. CASE f < Len(ir.funcs)
  BY <1>1, <1>2, Layout
<1>3. CASE ~(f < Len(ir.funcs))
  <2>1. f = Len(ir.funcs) /\ ir.funcs[f] = LastFunc(ir) /\ LastFunc(ir) \in FuncRecord
    <3>1. f \in 1..Len(ir.funcs) /\ Len(ir.funcs) \in Nat
      BY DEF Spans
    <3> QED
      BY <1>1, <1>3, <3>1, Layout DEF LastFunc
  <2>2. n - 1 \in BlocksOf(LastFunc(ir)) /\ (n - 1) + 1 = n
    <3>1. LastFunc(ir).count \in Nat
      BY <2>1, Fields
    <3> QED
      BY <2>1, <3>1 DEF BlocksOf
  <2> QED
    BY <1>1, <2>1, <2>2, Layout
<1> QED
  BY <1>2, <1>3

\* Within the tables, the function's blocks among them.
LEMMA SpansEnd ==
  ASSUME NEW ir, Spans(ir), NEW f \in DOMAIN ir.funcs
  PROVE  ir.funcs[f].first + ir.funcs[f].count =< Len(ir.blocks)
<1> DEFINE m == Len(ir.funcs)
           b == Len(ir.blocks)
           l == LastFunc(ir)
           h == ir.funcs[f]
<1>1. ir.funcs # <<>> /\ ir.funcs \in Seq(FuncRecord)
  BY DEF Spans
<1>2. m \in Nat /\ DOMAIN ir.funcs = 1..m /\ h \in FuncRecord
  BY <1>1
<1>3. l.first + l.count = b /\ l.first \in Nat /\ l.count \in Nat /\ h.first \in Nat /\ h.count \in Nat
  <2>1. l \in FuncRecord /\ l.first + l.count = b
    BY <1>1, Layout
  <2> HIDE DEF l, h
  <2> QED
    BY <1>2, <2>1, Fields
<1>4. f < m => h.first + h.count =< l.first
  BY DEF Spans
<1>5. ~(f < m) => h = l
  BY <1>2 DEF LastFunc
<1> HIDE DEF l, h
<1>6. h.first + h.count =< b
  BY <1>3, <1>4, <1>5
<1> QED
  BY <1>6 DEF h

\* With no block waiting and the current one ended, all are.
LEMMA AllFinished ==
  ASSUME NEW ir, NEW c, Spans(ir), Finished(ir, {}, c), ir.funcs # <<>> => Whole(ir, CurrentOf(ir, c)),
         NEW f \in DOMAIN ir.funcs, NEW n \in 1..ir.funcs[f].count
  PROVE  Whole(ir, BlockOf(ir, ir.funcs[f], n))
<1> DEFINE m == Len(ir.funcs)
<1>1. m \in Nat /\ DOMAIN ir.funcs = 1..m /\ ir.funcs # <<>>
  BY DEF Spans
<1> HIDE DEF m
<1>2. CASE f < m
  BY <1>2 DEF Finished, m
<1>3. CASE ~(f < m)
  <2>1. ir.funcs[f] = LastFunc(ir) /\ LastFunc(ir) \in FuncRecord
    <3>1. f = m
      BY <1>1, <1>3
    <3> QED
      BY <1>1, <3>1, Layout DEF LastFunc, m
  <2>2. n - 1 \in BlocksOf(LastFunc(ir)) /\ (n - 1) + 1 = n
    <3>1. LastFunc(ir).count \in Nat
      BY <2>1, Fields
    <3> QED
      BY <2>1, <3>1 DEF BlocksOf
  <2> DEFINE z == n - 1
  <2>3. z \in BlocksOf(LastFunc(ir)) /\ z + 1 = n
    BY <2>2
  <2> HIDE DEF z
  <2>4. CASE z = c
    BY <1>1, <2>1, <2>3, <2>4 DEF CurrentOf
  <2>5. CASE z # c
    <3>1. Whole(ir, BlockOf(ir, LastFunc(ir), z + 1))
      BY <1>1, <2>3, <2>5 DEF Finished
    <3> QED
      BY <2>1, <2>3, <3>1
  <2> QED
    BY <2>4, <2>5
<1> QED
  BY <1>2, <1>3

Began(ir, ir2, name) ==
  /\ ir2.insts = ir.insts /\ ir2.blocks = Append(ir.blocks, EmptyBlock)
  /\ ir2.funcs = Append(ir.funcs, [name |-> name, first |-> Len(ir.blocks), count |-> 1, next_vreg |-> 0, arity |-> 0])

\* A function begins when those before it are finished.
NewFunc(ir2) ==
  /\ ir2.funcs # <<>> /\ RegsOf(LastFunc(ir2)) = {} /\ BlocksOf(LastFunc(ir2)) = {0}
  /\ LastFunc(ir2).next_vreg = 0 /\ LastFunc(ir2).arity = 0 /\ CurrentOf(ir2, 0) = EmptyBlock

LEMMA FunctionBegins ==
  ASSUME NEW ir, NEW ir2, NEW name \in NameId, Began(ir, ir2, name), NEW c, Tables(ir, {}, c, {}, {}),
         ir.funcs # <<>> => Whole(ir, CurrentOf(ir, c))
  PROVE  Tables(ir2, {}, 0, {}, {}) /\ NewFunc(ir2)
<1> DEFINE m == Len(ir.funcs)
           b == Len(ir.blocks)
           g == [name |-> name, first |-> b, count |-> 1, next_vreg |-> 0, arity |-> 0]
<1>1. /\ Spans(ir) /\ Straight(ir) /\ Finished(ir, {}, c) /\ Sound(ir, {}) /\ NoneUnused(ir, {})
  BY DEF Tables
<1>2. /\ ir.blocks \in Seq(BlockRecord) /\ ir.funcs \in Seq(FuncRecord) /\ ir.insts \in Seq(Range(ir.insts))
      /\ b \in Nat /\ m \in Nat /\ DOMAIN ir.funcs = 1..m /\ DOMAIN ir.blocks = 1..b
  BY <1>1 DEF Spans
<1>3. /\ ir2.insts = ir.insts /\ ir2.blocks = Append(ir.blocks, EmptyBlock) /\ ir2.funcs = Append(ir.funcs, g)
  BY DEF Began
<1>4. g \in FuncRecord /\ g.name = name /\ g.first = b /\ g.count = 1 /\ g.next_vreg = 0 /\ g.arity = 0
  BY <1>2 DEF FuncRecord
<1> HIDE DEF g
<1>5. /\ ir2.funcs \in Seq(FuncRecord) /\ Len(ir2.funcs) = m + 1 /\ DOMAIN ir2.funcs = 1..(m + 1)
      /\ ir2.funcs[m + 1] = g /\ \A f \in DOMAIN ir.funcs : ir2.funcs[f] = ir.funcs[f]
  BY <1>2, <1>3, <1>4
<1>6. /\ ir2.blocks \in Seq(BlockRecord) /\ Len(ir2.blocks) = b + 1 /\ DOMAIN ir2.blocks = 1..(b + 1)
      /\ ir2.blocks[b + 1] = EmptyBlock /\ \A k \in DOMAIN ir.blocks : ir2.blocks[k] = ir.blocks[k]
  BY <1>2, <1>3, Fields
<1> HIDE DEF m, b
<1>7. LastFunc(ir2) = g /\ ir2.funcs # <<>>
  BY <1>2, <1>5 DEF LastFunc
<1>8. \A f \in DOMAIN ir2.funcs : (f \in DOMAIN ir.funcs /\ f =< m /\ f # m + 1) \/ f = m + 1
  BY <1>2, <1>5
<1>9. BlockOf(ir2, g, 1) = EmptyBlock
  BY <1>4, <1>6 DEF BlockOf
<1>10. ASSUME NEW f \in DOMAIN ir.funcs, NEW n \in 1..ir.funcs[f].count
       PROVE  BlockOf(ir2, ir2.funcs[f], n) = BlockOf(ir, ir.funcs[f], n)
  <2>1. ir.funcs[f].first + n \in DOMAIN ir.blocks
    BY <1>1, BlockPlace
  <2> QED
    BY <1>5, <1>6, <2>1 DEF BlockOf
<1>11. RegsOf(g) = {} /\ BlocksOf(g) = {0}
  BY <1>4 DEF RegsOf, BlocksOf
<1>12. CurrentOf(ir2, 0) = EmptyBlock
  BY <1>7, <1>9 DEF CurrentOf
<1>13. NewFunc(ir2)
  BY <1>4, <1>7, <1>11, <1>12 DEF NewFunc
<1>14. InstsOf(EmptyBlock) = {}
  BY Fields DEF InstsOf, Unset
<1>15. \A f \in DOMAIN ir.funcs : ir.funcs[f].first + ir.funcs[f].count =< b
  BY <1>1, SpansEnd DEF b
<1>16. Spans(ir2)
  <2>1. ASSUME NEW f \in DOMAIN ir2.funcs
        PROVE  /\ ir2.funcs[f].arity =< ir2.funcs[f].next_vreg
               /\ f < Len(ir2.funcs) => ir2.funcs[f].first + ir2.funcs[f].count =< LastFunc(ir2).first
               /\ ir2.funcs[f].count > 0
    <3>1. CASE f \in DOMAIN ir.funcs
      <4>1. ir2.funcs[f] = ir.funcs[f]
        BY <1>5, <3>1
      <4>2. ir.funcs[f].arity =< ir.funcs[f].next_vreg /\ ir.funcs[f].count > 0
        BY <1>1, <3>1 DEF Spans
      <4>3. ir.funcs[f].first + ir.funcs[f].count =< LastFunc(ir2).first
        BY <1>4, <1>7, <1>15, <3>1
      <4> QED
        BY <4>1, <4>2, <4>3
    <3>2. CASE f = m + 1
      BY <1>2, <1>4, <1>5, <3>2
    <3> QED
      BY <1>8, <3>1, <3>2
  <2>2. LastFunc(ir2).first + LastFunc(ir2).count = Len(ir2.blocks)
    BY <1>4, <1>6, <1>7
  <2>3. ir2.insts \in Seq(Range(ir2.insts))
    BY <1>2, <1>3
  <2> QED
    BY <1>5, <1>6, <2>1, <2>2, <2>3 DEF Spans
<1>17. Straight(ir2)
  <2> SUFFICES ASSUME NEW k \in DOMAIN ir2.blocks, ir2.blocks[k] # EmptyBlock
               PROVE  /\ ir2.blocks[k].begin \in Nat /\ ir2.blocks[k].count > 0 /\ EndOf(ir2.blocks[k]) =< Len(ir2.insts)
                      /\ \A j \in InstsOf(ir2.blocks[k]) : ir2.insts[j].kind \in Terminators => j = EndOf(ir2.blocks[k])
    BY DEF Straight
  <2>1. k \in DOMAIN ir.blocks \/ k = b + 1
    BY <1>2, <1>6
  <2>2. k \in DOMAIN ir.blocks /\ ir2.blocks[k] = ir.blocks[k]
    BY <1>6, <2>1
  <2> QED
    BY <1>1, <1>3, <2>2 DEF Straight
<1>18. Finished(ir2, {}, 0)
  <2>1. ASSUME NEW f \in DOMAIN ir.funcs, NEW n \in 1..ir.funcs[f].count
        PROVE  Whole(ir, BlockOf(ir, ir.funcs[f], n))
    BY <1>1, AllFinished
  <2>2. \A block : Whole(ir2, block) <=> Whole(ir, block)
    BY <1>3 DEF Whole
  <2>3. ASSUME NEW f \in DOMAIN ir2.funcs, f < Len(ir2.funcs), NEW n \in 1..ir2.funcs[f].count
        PROVE  Whole(ir2, BlockOf(ir2, ir2.funcs[f], n))
    <3>1. f \in DOMAIN ir.funcs
      BY <1>2, <1>5, <1>8, <2>3
    <3>2. n \in 1..ir.funcs[f].count
      BY <1>5, <3>1
    <3>3. BlockOf(ir2, ir2.funcs[f], n) = BlockOf(ir, ir.funcs[f], n)
      BY <1>10, <3>1, <3>2
    <3> QED
      BY <2>1, <2>2, <3>1, <3>2, <3>3
  <2>4. 0 + 1 = 1
    OBVIOUS
  <2> QED
    BY <1>7, <1>9, <1>11, <2>3, <2>4 DEF Finished
<1>19. Sound(ir2, {})
  <2> SUFFICES ASSUME NEW f \in DOMAIN ir2.funcs, NEW n \in 1..ir2.funcs[f].count,
                      NEW k \in InstsOf(BlockOf(ir2, ir2.funcs[f], n))
               PROVE  InstOK(ir2.funcs[f], n, ir2.insts[k], FALSE)
    <3>1. \A f, k : (f = Len(ir2.funcs) /\ k \in {}) = FALSE
      OBVIOUS
    <3> QED
      BY <3>1 DEF Sound
  <2>1. CASE f \in DOMAIN ir.funcs
    <3>1. n \in 1..ir.funcs[f].count /\ ir2.funcs[f] = ir.funcs[f]
      BY <1>5, <2>1
    <3>2. k \in InstsOf(BlockOf(ir, ir.funcs[f], n))
      BY <1>10, <2>1, <3>1
    <3>3. InstOK(ir.funcs[f], n, ir.insts[k], f = Len(ir.funcs) /\ k \in {})
      BY <1>1, <2>1, <3>1, <3>2 DEF Sound
    <3>4. (f = Len(ir.funcs) /\ k \in {}) = FALSE
      OBVIOUS
    <3> QED
      BY <1>3, <3>1, <3>3, <3>4
  <2>2. CASE f = m + 1
    <3>1. n = 1
      BY <1>4, <1>5, <2>2
    <3> QED
      BY <1>5, <1>9, <1>14, <2>2, <3>1
  <2> QED
    BY <1>8, <2>1, <2>2
<1>20. NoneUnused(ir2, {})
  <2> SUFFICES ASSUME NEW f \in DOMAIN ir2.funcs, NEW r \in ir2.funcs[f].arity..(ir2.funcs[f].next_vreg - 1)
               PROVE  Names(ir2, ir2.funcs[f], r)
    BY DEF NoneUnused
  <2>1. CASE f \in DOMAIN ir.funcs
    <3>1. ir2.funcs[f] = ir.funcs[f]
      BY <1>5, <2>1
    <3>2. Names(ir, ir.funcs[f], r)
      BY <1>1, <2>1, <3>1 DEF NoneUnused
    <3>3. PICK n \in 1..ir.funcs[f].count : \E k \in InstsOf(BlockOf(ir, ir.funcs[f], n)) : VReg(r) \in NamedBy(ir.insts[k])
      BY <3>2 DEF Names
    <3>4. BlockOf(ir2, ir2.funcs[f], n) = BlockOf(ir, ir.funcs[f], n)
      BY <1>10, <2>1
    <3> QED
      BY <1>3, <3>1, <3>3, <3>4 DEF Names
  <2>2. CASE f = m + 1
    <3>1. ir2.funcs[f].arity = 0 /\ ir2.funcs[f].next_vreg = 0
      BY <1>4, <1>5, <2>2
    <3>2. r \in 0..(0 - 1)
      BY <3>1
    <3> QED
      BY <3>2
  <2> QED
    BY <1>8, <2>1, <2>2
<1> QED
  BY <1>13, <1>16, <1>17, <1>18, <1>19, <1>20 DEF Tables

\* The calls that build a function.
LEMMA FunctionCalls ==
  ASSUME NEW f, f.step = "Decl", NEW d \in Tree, d.params \in Seq(NameId \X Tree), d.body \in Tree, NEW regs, NEW blks,
         NEW cs, cs = [k \in DOMAIN d.params |-> Frame("Param", d, <<d.params[k][1]>>)]
                        \o <<Frame("Stmt", d.body, <<>>), Frame("EndFunc", d, <<>>)>>
  PROVE  /\ Replaces(cs, f, regs, blks, {}) /\ cs # <<>> /\ AllTargets(cs) = {}
         /\ \A k \in DOMAIN cs : cs[k].step \in {"Param", "Stmt", "EndFunc"}
<1> DEFINE body == d.body
           s == [k \in DOMAIN d.params |-> Frame("Param", d, <<d.params[k][1]>>)]
           g == Frame("Stmt", body, <<>>)
           h == Frame("EndFunc", d, <<>>)
           n == Len(d.params)
           t == s \o <<g>>
           u == t \o <<h>>
<1>1. n \in Nat /\ DOMAIN d.params = 1..n /\ body \in Tree
  OBVIOUS
<1>2. /\ Instead(f, g, regs, blks, {}) /\ Targets(g) = {} /\ g.step = "Stmt"
  <2>1. "Stmt" \in PlainStep /\ body \in Tree
    BY <1>1 DEF PlainStep
  <2> HIDE DEF body
  <2> QED
    BY <2>1, PlainFrames
<1>3. /\ Instead(f, h, regs, blks, {}) /\ Targets(h) = {} /\ h.step = "EndFunc"
  BY PlainFrames, PlainSteps
<1>4. ASSUME NEW arg
      PROVE  LET p == Frame("Param", d, arg) IN Instead(f, p, regs, blks, {}) /\ Targets(p) = {} /\ p.step = "Param"
  <2> DEFINE p == Frame("Param", d, arg)
  <2>1. /\ p.step = "Param" /\ p.node = d /\ p.arg = arg /\ p.got = <<>>
        /\ p = [step |-> p.step, node |-> p.node, arg |-> p.arg, got |-> p.got]
    BY FrameIs
  <2> HIDE DEF p
  <2>2. Targets(p) = {} /\ p.step \notin DeclStep /\ <<>> \in Seq(regs)
    BY <2>1 DEF Targets, Switching, DeclStep
  <2>3. FrameOK(p, regs, blks)
    BY <2>1, <2>2 DEF FrameOK
  <2> QED
    BY <2>1, <2>2, <2>3 DEF Instead, p
<1>5. /\ DOMAIN s = 1..n
      /\ \A k \in 1..n : Instead(f, s[k], regs, blks, {}) /\ Targets(s[k]) = {} /\ s[k].step = "Param"
  <2> SUFFICES ASSUME NEW k \in 1..n
               PROVE  Instead(f, s[k], regs, blks, {}) /\ Targets(s[k]) = {} /\ s[k].step = "Param"
    BY <1>1
  <2> DEFINE arg == <<d.params[k][1]>>
  <2>1. s[k] = Frame("Param", d, arg)
    BY <1>1
  <2> HIDE DEF arg, s
  <2> QED
    BY <1>4, <2>1
<1>6. s = [k \in 1..n |-> s[k]]
  BY <1>1
<1>7. cs = s \o <<g, h>>
  OBVIOUS
<1> HIDE DEF s, g, h, n
<1>8. s \in Seq(Range(s)) /\ Len(s) = n
  <2>1. n \in Nat
    BY <1>1
  <2> HIDE DEF t, u
  <2> QED
    BY ONLY <2>1, <1>6, Numbered
<1>9. cs = u
  <2>1. s \o <<g, h>> = (s \o <<g>>) \o <<h>>
    BY <1>8, TwoMore
  <2> QED
    BY <1>7, <2>1
<1>10. Longer(s, g, t)
  BY <1>8, OneMore
<1>11. t \in Seq(Range(t))
  BY <1>10 DEF Longer
<1>12. Longer(t, h, u)
  BY <1>11, OneMore
<1> HIDE DEF t, u
<1>13. /\ u \in Seq(Range(u)) /\ Len(u) = n + 2 /\ DOMAIN u = 1..(n + 2)
       /\ \A k \in 1..n : u[k] = s[k]
       /\ u[n + 1] = g /\ u[n + 2] = h
  <2>1. Len(t) = n + 1 /\ DOMAIN t = 1..(n + 1) /\ t[n + 1] = g /\ \A k \in 1..n : t[k] = s[k]
    BY <1>5, <1>8, <1>10 DEF Longer
  <2>2. u \in Seq(Range(u)) /\ Len(u) = n + 2 /\ DOMAIN u = 1..(n + 2) /\ u[n + 2] = h /\ \A k \in 1..(n + 1) : u[k] = t[k]
    <3>1. u \in Seq(Range(u)) /\ Len(u) = Len(t) + 1 /\ DOMAIN u = 1..(Len(t) + 1) /\ u[Len(t) + 1] = h
          /\ \A k \in DOMAIN t : u[k] = t[k]
      BY <1>12 DEF Longer
    <3> QED
      BY <1>1, <2>1, <3>1
  <2>3. \A k \in 1..n : k \in 1..(n + 1)
    BY <1>1
  <2>4. n + 1 \in 1..(n + 1)
    BY <1>1
  <2> QED
    BY <2>1, <2>2, <2>3, <2>4
<1>14. \A k \in DOMAIN u : k \in 1..n \/ k = n + 1 \/ k = n + 2
  BY <1>1, <1>13
<1>15. \A k \in DOMAIN u : Instead(f, u[k], regs, blks, {}) /\ Targets(u[k]) = {} /\ u[k].step \in {"Param", "Stmt", "EndFunc"}
  BY <1>2, <1>3, <1>5, <1>13, <1>14
<1>16. ASSUME NEW k \in 1..(Len(u) - 1)
       PROVE  u[k + 1].step \in Callers(u[k].step)
  <2>1. k \in 1..n \/ k = n + 1
    BY <1>1, <1>13
  <2>2. CASE k \in 1..n
    <3>1. k + 1 \in 1..n \/ k + 1 = n + 1
      BY <1>1, <2>2
    <3>2. u[k + 1].step \in {"Param", "Stmt"} /\ u[k].step = "Param"
      BY <1>2, <1>5, <1>13, <2>2, <3>1
    <3> QED
      BY <3>2, CallersAre
  <2>3. CASE k = n + 1
    <3>1. k + 1 = n + 2
      BY <1>1, <2>3
    <3>2. u[k + 1].step = "EndFunc" /\ u[k].step = "Stmt"
      BY <1>2, <1>3, <1>13, <2>3, <3>1
    <3> QED
      BY <3>2, CallersAre DEF EitherWay, StmtStep
  <2> QED
    BY <2>1, <2>2, <2>3
<1>17. LastInstead(f, u[Len(u)])
  <2>1. u[Len(u)].step = "EndFunc"
    BY <1>3, <1>13
  <2>2. Callers(f.step) = DeclStep /\ Callers(u[Len(u)].step) = DeclStep /\ u[Len(u)].step \in Outermost
    BY <2>1, CallersAre DEF DeclStep, Outermost
  <2> QED
    BY <2>2 DEF LastInstead
<1>18. u # <<>>
  BY <1>1, <1>13
<1>19. \A k \in DOMAIN u : Instead(f, u[k], regs, blks, {}) /\ Targets(u[k]) = {} /\ u[k].step \notin DeclStep
  BY <1>15 DEF DeclStep
<1>20. Replaces(u, f, regs, blks, {})
  BY <1>13, <1>16, <1>17, <1>18, <1>19, ReplacesMany
<1>21. AllTargets(u) = {}
  BY <1>15 DEF AllTargets
<1> QED
  BY <1>9, <1>15, <1>18, <1>20, <1>21

LEMMA BeginKeeps ==
  ASSUME NEW f, Here(f), beginFunc
  PROVE  BuildInv'
<1> DEFINE ir  == ModuleIR
           ir2 == ModuleIR'
           d   == f.node
           cs  == [k \in DOMAIN d.params |-> Frame("Param", d, <<d.params[k][1]>>)]
                    \o <<Frame("Stmt", d.body, <<>>), Frame("EndFunc", d, <<>>)>>
           s2  == cs \o Tail(todo)
<1>1. /\ f.step = "Decl" /\ f.step \in DeclStep /\ d.node = "FunctionDecl" /\ Continue(cs)
      /\ funcs' = Append(funcs, [name |-> d.name, first |-> Len(blocks), count |-> 1, next_vreg |-> 0, arity |-> 0])
      /\ blocks' = Append(blocks, EmptyBlock) /\ insts' = insts
      /\ cur' = 0 /\ locals' = <<>> /\ open' = <<>> /\ loops' = <<>> /\ decl' = d
  BY TopIs DEF beginFunc, DoingNode, Doing, DeclStep
<1>2. d \in Tree /\ d.name \in NameId /\ d.params \in Seq(NameId \X Tree) /\ d.body \in Tree
  BY <1>1, NodeOfDecl DEF Typed
<1>3. /\ Going(ir, todo, cur, loops) /\ todo # <<>> /\ f = todo[1]
      /\ Stack(todo, RegsOf(LastFunc(ir)), BlocksOf(LastFunc(ir))) /\ todo \in Seq(Range(todo))
      /\ OpenLoops(loops, ir.insts, BlocksOf(LastFunc(ir))) /\ Nesting(todo, Len(loops)) /\ Position(ir, todo, cur)
      /\ Tables(ir, AllTargets(todo), cur, Pending(loops), Awaited(todo))
  BY DEF Here, Going, Stack
<1>4. Began(ir, ir2, d.name)
  BY <1>1 DEF Began, ModuleIR
<1> HIDE DEF ir, ir2, d
<1>5. Between(todo)
  BY <1>1, <1>3, AllDeclarations
<1>6. /\ AllTargets(todo) = {} /\ Awaited(todo) = {} /\ Pending(loops) = {}
  <2>1. Len(loops) \in Nat /\ loops \in Seq(LoopRecord)
    BY <1>3 DEF OpenLoops
  <2>2. Len(loops) = 0
    BY <1>3, <1>5, <2>1, NothingWaits
  <2>3. DOMAIN loops = {}
    BY <2>1, <2>2
  <2> QED
    BY <1>5, <2>3, NothingWaits DEF Pending
<1>7. ir.funcs # <<>> => Whole(ir, CurrentOf(ir, cur))
  BY <1>1, <1>3 DEF Position
<1>8. Tables(ir2, {}, 0, {}, {}) /\ NewFunc(ir2)
  <2> DEFINE name == d.name
  <2> HIDE DEF name
  <2>1. name \in NameId /\ Began(ir, ir2, name)
    BY <1>2, <1>4 DEF name
  <2> QED
    BY <1>3, <1>6, <1>7, <2>1, FunctionBegins
<1> DEFINE regs == RegsOf(LastFunc(ir2))
           blks == BlocksOf(LastFunc(ir2))
<1>9. /\ Replaces(cs, f, regs, blks, {}) /\ cs # <<>> /\ AllTargets(cs) = {}
      /\ \A k \in DOMAIN cs : cs[k].step \in {"Param", "Stmt", "EndFunc"}
  <2> HIDE DEF regs, blks
  <2> QED
    BY <1>1, <1>2, FunctionCalls
<1> HIDE DEF regs, blks, cs
<1>10. cs \in Seq(Range(cs))
  BY <1>9 DEF Replaces
<1>11. Stack(s2, regs, blks)
  <2>1. Stack(todo, RegsOf(LastFunc(ir)), BlocksOf(LastFunc(ir))) /\ Replaces(cs, todo[1], regs, blks, {})
        /\ {} \cap BlocksOf(LastFunc(ir)) = {} /\ todo[1].step \in DeclStep
    BY <1>1, <1>3, <1>9
  <2> QED
    BY <1>3, <2>1, StackGoesOn
<1>12. /\ Conditions(todo, 0) /\ Nesting(todo, 0)
  BY <1>5, NothingWaits
<1>13. \A k \in DOMAIN cs : cs[k].step # "Loop" /\ ~IsLoop(cs[k])
  BY <1>9 DEF IsLoop
<1>14. todo[1].step \notin ExprStep /\ ~IsLoop(todo[1]) /\ todo[1].step # "VarDecl" /\ Targets(todo[1]) = {}
  BY <1>1, <1>3 DEF IsLoop, ExprStep, Targets, Switching
<1>15. Conditions(s2, 0)
  <2>1. \A k \in DOMAIN cs : cs[k].step = "Loop" => 0 = cs[k].arg[1] /\ \A j \in DOMAIN cs : j < k => cs[j].step \in ExprStep
    BY <1>13
  <2>2. todo[1].step \in ExprStep => 0 = 0 /\ \A k \in DOMAIN cs : cs[k].step \in ExprStep
    BY <1>14
  <2> QED
    BY <1>3, <1>10, <1>12, <2>1, <2>2, ConditionsGoOn
<1>16. Nesting(s2, 0)
  <2>1. \A k \in DOMAIN cs : IsLoop(cs[k]) => IsLoop(todo[1]) /\ cs[k].arg[2] = todo[1].arg[2]
    BY <1>13
  <2>2. \A j, k \in DOMAIN cs : IsLoop(cs[j]) /\ IsLoop(cs[k]) => j = k
    BY <1>13
  <2>3. IsLoop(todo[1]) => \E k \in DOMAIN cs : IsLoop(cs[k])
    BY <1>14
  <2> QED
    BY <1>3, <1>10, <1>12, <2>1, <2>2, <2>3, NestingGoesOn
<1>17. AllTargets(s2) = {}
  <2>1. \A k \in DOMAIN todo : 1 < k => Targets(todo[1]) \cap Targets(todo[k]) = {}
    BY <1>14
  <2>2. AllTargets(s2) = (AllTargets(todo) \ Targets(todo[1])) \cup AllTargets(cs)
    BY <1>3, <1>10, <2>1, TargetsAfter
  <2> QED
    BY <1>6, <1>9, <2>2
<1>18. Tables(ir2, {}, 0, {}, Awaited(s2))
  <2>1. Same(ir2, ir2) /\ {} \subseteq Awaited(s2)
    BY DEF Same
  <2> QED
    BY <1>8, <2>1, SameTables
<1>19. Position(ir2, s2, 0)
  <2>1. 1 \in DOMAIN cs
    BY <1>9, <1>10
  <2>2. cs[1].step \in {"Param", "Stmt", "EndFunc"}
    BY <1>9, <2>1
  <2>3. Fits(ir2, 0, cs[1].step)
    <3>1. ~Whole(ir2, CurrentOf(ir2, 0)) /\ LastFunc(ir2).next_vreg = LastFunc(ir2).arity
      BY <1>8 DEF NewFunc, Whole
    <3>2. cs[1].step \notin Switching \cup DeclStep
      BY <2>2 DEF Switching, DeclStep
    <3> QED
      BY <3>1, <3>2 DEF Fits
  <2>4. ir2.funcs # <<>>
    BY <1>8 DEF NewFunc
  <2> QED
    BY <1>3, <1>9, <1>10, <2>3, <2>4, Positioned
<1>20. Pending(<<>>) = {} /\ Len(<<>>) = 0 /\ OpenLoops(<<>>, ir2.insts, blks)
  <2>1. DOMAIN <<>> = {} /\ Len(<<>>) = 0 /\ <<>> \in Seq(LoopRecord)
    OBVIOUS
  <2> DEFINE none == <<>>
  <2>2. DOMAIN none = {} /\ none \in Seq(LoopRecord)
    BY <2>1
  <2> HIDE DEF none
  <2>3. Pending(none) = {} /\ OpenLoops(none, ir2.insts, blks)
    BY <2>2 DEF Pending, OpenLoops
  <2> QED
    BY <2>1, <2>3 DEF none
<1> DEFINE none == <<>>
<1>21. Pending(none) = {} /\ Len(none) = 0 /\ OpenLoops(none, ir2.insts, blks)
  BY <1>20
<1>22. loops' = none
  BY <1>1
<1> HIDE DEF none, s2
<1>23. Going(ir2, s2, 0, none)
  BY <1>11, <1>15, <1>16, <1>17, <1>18, <1>19, <1>21 DEF Going, regs, blks
<1>24. Context(ir2, d, open', locals')
  <2>1. open' \in Seq(Tree) /\ DOMAIN locals' = {}
    BY <1>1
  <2> QED
    BY <1>2, <2>1 DEF Context
<1> QED
  BY <1>1, <1>22, <1>23, <1>24 DEF BuildInv, Continue, ir2, s2

\* A parameter takes the next register of the last function, and is counted.
Binds(ir, ir2) ==
  /\ ir2.insts = ir.insts /\ ir2.blocks = ir.blocks
  /\ ir2.funcs = [ir.funcs EXCEPT ![Len(ir.funcs)] =
                    [LastFunc(ir) EXCEPT !.next_vreg = LastFunc(ir).next_vreg + 1, !.arity = LastFunc(ir).arity + 1]]

FuncsBind(ir, ir2) ==
  /\ ir2.funcs \in Seq(FuncRecord) /\ Len(ir2.funcs) = Len(ir.funcs) /\ DOMAIN ir2.funcs = DOMAIN ir.funcs
  /\ ir2.funcs # <<>>
  /\ \A f \in DOMAIN ir.funcs : f # Len(ir.funcs) => ir2.funcs[f] = ir.funcs[f]
  /\ LastFunc(ir2) \in FuncRecord
  /\ LastFunc(ir2).first = LastFunc(ir).first /\ LastFunc(ir2).count = LastFunc(ir).count
  /\ LastFunc(ir2).arity = LastFunc(ir).arity + 1 /\ LastFunc(ir2).next_vreg = LastFunc(ir).next_vreg + 1

LEMMA BoundFuncs ==
  ASSUME NEW ir, NEW ir2, Spans(ir), ir.funcs # <<>>, Binds(ir, ir2)
  PROVE  FuncsBind(ir, ir2)
<1> DEFINE s == ir.funcs
           v == LastFunc(ir).next_vreg + 1
           k == LastFunc(ir).arity + 1
           g == [LastFunc(ir) EXCEPT !.next_vreg = v, !.arity = k]
<1>1. s \in Seq(FuncRecord) /\ Len(s) \in DOMAIN s /\ LastFunc(ir) \in FuncRecord /\ s # <<>>
  BY Layout DEF Spans
<1>2. v \in Nat /\ k \in Nat
  BY <1>1, Fields
<1>3. ir2.funcs = [s EXCEPT ![Len(s)] = g]
  BY DEF Binds
<1> HIDE DEF s, v, k
<1>4. g \in FuncRecord /\ g.first = LastFunc(ir).first /\ g.count = LastFunc(ir).count
      /\ g.arity = k /\ g.next_vreg = v
  <2> DEFINE h == LastFunc(ir)
  <2>1. g = [h EXCEPT !.next_vreg = v, !.arity = k] /\ h \in FuncRecord
    BY <1>1
  <2> HIDE DEF g, h
  <2>2. g \in FuncRecord /\ g.first = h.first /\ g.count = h.count /\ g.arity = k /\ g.next_vreg = v
    BY <1>2, <2>1 DEF FuncRecord
  <2> QED
    BY <2>2 DEF h
<1> HIDE DEF g
<1>5. ir2.funcs \in Seq(FuncRecord) /\ Len(ir2.funcs) = Len(s) /\ DOMAIN ir2.funcs = DOMAIN s
      /\ ir2.funcs[Len(s)] = g /\ \A f \in DOMAIN s : f # Len(s) => ir2.funcs[f] = s[f]
  BY <1>1, <1>3, <1>4
<1>6. ir2.funcs # <<>>
  BY <1>1, <1>5
<1>7. LastFunc(ir2) = g
  BY <1>5 DEF LastFunc
<1> QED
  BY <1>4, <1>5, <1>6, <1>7 DEF s, v, k, FuncsBind

\* The tables of a function that has nothing but parameters.
LEMMA TablesBind ==
  ASSUME NEW ir, NEW ir2, NEW T, NEW c, NEW pending, NEW awaited, Tables(ir, T, c, pending, awaited),
         ir.funcs # <<>>, Binds(ir, ir2), LastFunc(ir).next_vreg = LastFunc(ir).arity
  PROVE  /\ Tables(ir2, T, c, pending, awaited) /\ FuncsBind(ir, ir2)
         /\ RegsOf(LastFunc(ir)) \subseteq RegsOf(LastFunc(ir2)) /\ LastFunc(ir).next_vreg \in RegsOf(LastFunc(ir2))
         /\ BlocksOf(LastFunc(ir2)) = BlocksOf(LastFunc(ir))
         /\ Whole(ir2, CurrentOf(ir2, c)) <=> Whole(ir, CurrentOf(ir, c))
<1> DEFINE m  == Len(ir.funcs)
           l  == LastFunc(ir)
           l2 == LastFunc(ir2)
<1>1. /\ Spans(ir) /\ Straight(ir) /\ Finished(ir, T, c) /\ Sound(ir, pending) /\ NoneUnused(ir, awaited)
  BY DEF Tables
<1>2. FuncsBind(ir, ir2)
  BY <1>1, BoundFuncs
<1>3. /\ ir2.funcs \in Seq(FuncRecord) /\ Len(ir2.funcs) = m /\ DOMAIN ir2.funcs = DOMAIN ir.funcs /\ ir2.funcs # <<>>
      /\ \A f \in DOMAIN ir.funcs : f # m => ir2.funcs[f] = ir.funcs[f]
      /\ l2 \in FuncRecord /\ l2.first = l.first /\ l2.count = l.count
      /\ l2.arity = l.arity + 1 /\ l2.next_vreg = l.next_vreg + 1
  BY <1>2 DEF FuncsBind
<1>4. ir2.insts = ir.insts /\ ir2.blocks = ir.blocks
  BY DEF Binds
<1>5. /\ l \in FuncRecord /\ m \in DOMAIN ir.funcs /\ ir.funcs[m] = l /\ ir2.funcs[m] = l2
      /\ m \in Nat /\ DOMAIN ir.funcs = 1..m
  <2>1. LastFunc(ir) \in FuncRecord /\ Len(ir.funcs) \in DOMAIN ir.funcs
    BY <1>1, Layout
  <2>2. ir.funcs \in Seq(FuncRecord)
    BY <1>1 DEF Spans
  <2> QED
    BY <1>3, <2>1, <2>2 DEF LastFunc
<1>6. l.next_vreg = l.arity
  OBVIOUS
<1> HIDE DEF m, l, l2
<1>7. /\ l.next_vreg \in Nat /\ l.arity \in Nat /\ l.count \in Nat /\ l2.next_vreg \in Nat /\ l2.arity \in Nat /\ l2.count \in Nat
  BY <1>3, <1>5, Fields
<1>8. /\ RegsOf(l) \subseteq RegsOf(l2) /\ l.next_vreg \in RegsOf(l2) /\ BlocksOf(l2) = BlocksOf(l)
  BY <1>3, <1>7 DEF RegsOf, BlocksOf
<1>9. ASSUME NEW f \in DOMAIN ir.funcs
      PROVE  /\ ir2.funcs[f].first = ir.funcs[f].first /\ ir2.funcs[f].count = ir.funcs[f].count
             /\ \A n : BlockOf(ir2, ir2.funcs[f], n) = BlockOf(ir, ir.funcs[f], n)
  <2>1. ir2.funcs[f].first = ir.funcs[f].first /\ ir2.funcs[f].count = ir.funcs[f].count
    <3>1. CASE f = m
      BY <1>3, <1>5, <3>1
    <3>2. CASE f # m
      BY <1>3, <3>2
    <3> QED
      BY <3>1, <3>2
  <2> QED
    BY <1>4, <2>1 DEF BlockOf
<1>10. /\ \A block : Whole(ir2, block) <=> Whole(ir, block)
       /\ \A n : BlockOf(ir2, l2, n) = BlockOf(ir, l, n)
  BY <1>4, <1>5, <1>9 DEF Whole
<1>11. Spans(ir2)
  <2>1. ASSUME NEW f \in DOMAIN ir2.funcs
        PROVE  /\ ir2.funcs[f].arity =< ir2.funcs[f].next_vreg
               /\ f < Len(ir2.funcs) => ir2.funcs[f].first + ir2.funcs[f].count =< LastFunc(ir2).first
               /\ ir2.funcs[f].count > 0
    <3>1. f \in DOMAIN ir.funcs
      BY <1>3
    <3>2. /\ ir.funcs[f].arity =< ir.funcs[f].next_vreg /\ ir.funcs[f].count > 0
          /\ f < m => ir.funcs[f].first + ir.funcs[f].count =< l.first
      BY <1>1, <3>1 DEF Spans, m, l
    <3>3. ir2.funcs[f].count > 0
      BY <1>9, <3>1, <3>2
    <3>4. ir2.funcs[f].arity =< ir2.funcs[f].next_vreg
      <4>1. CASE f = m
        <5>1. l.arity + 1 =< l.next_vreg + 1
          BY <1>6, <1>7
        <5> QED
          BY <1>3, <1>5, <4>1, <5>1
      <4>2. CASE f # m
        BY <1>3, <3>1, <3>2, <4>2
      <4> QED
        BY <4>1, <4>2
    <3>5. f < m => ir2.funcs[f].first + ir2.funcs[f].count =< l2.first
      BY <1>3, <1>9, <3>1, <3>2
    <3> QED
      BY <1>3, <3>3, <3>4, <3>5 DEF l2
  <2>2. LastFunc(ir2).first + LastFunc(ir2).count = Len(ir2.blocks)
    <3>1. l.first + l.count = Len(ir.blocks)
      BY <1>1 DEF Spans, l
    <3> QED
      BY <1>3, <1>4, <3>1 DEF l2
  <2>3. ir2.insts \in Seq(Range(ir2.insts)) /\ ir2.blocks \in Seq(BlockRecord)
    BY <1>1, <1>4 DEF Spans
  <2> QED
    BY <1>3, <2>1, <2>2, <2>3 DEF Spans
<1>12. Straight(ir2)
  BY <1>1, <1>4 DEF Straight
<1>13. Finished(ir2, T, c)
  <2>1. ASSUME NEW f \in DOMAIN ir2.funcs, f < Len(ir2.funcs), NEW n \in 1..ir2.funcs[f].count
        PROVE  Whole(ir2, BlockOf(ir2, ir2.funcs[f], n))
    <3>1. f \in DOMAIN ir.funcs /\ f < Len(ir.funcs)
      BY <1>3, <2>1 DEF m
    <3>2. n \in 1..ir.funcs[f].count
      BY <1>9, <3>1
    <3>3. Whole(ir, BlockOf(ir, ir.funcs[f], n))
      BY <1>1, <3>1, <3>2 DEF Finished
    <3> QED
      BY <1>9, <1>10, <3>1, <3>3
  <2>2. /\ c \in BlocksOf(l) \ T
        /\ BlockOf(ir, l, c + 1) # EmptyBlock => EndOf(BlockOf(ir, l, c + 1)) = Len(ir.insts)
    BY <1>1 DEF Finished, l
  <2>3. \A n \in BlocksOf(l) \ {c} : IF n \in T THEN BlockOf(ir, l, n + 1) = EmptyBlock ELSE Whole(ir, BlockOf(ir, l, n + 1))
    BY <1>1 DEF Finished, l
  <2>4. \A n \in BlocksOf(l2) \ {c} : IF n \in T THEN BlockOf(ir2, l2, n + 1) = EmptyBlock
                                                 ELSE Whole(ir2, BlockOf(ir2, l2, n + 1))
    BY <1>8, <1>10, <2>3
  <2>5. /\ c \in BlocksOf(l2) \ T
        /\ BlockOf(ir2, l2, c + 1) # EmptyBlock => EndOf(BlockOf(ir2, l2, c + 1)) = Len(ir2.insts)
    BY <1>4, <1>8, <1>10, <2>2
  <2> QED
    BY <2>1, <2>4, <2>5 DEF Finished, l2
<1>14. Sound(ir2, pending)
  <2> SUFFICES ASSUME NEW f \in DOMAIN ir2.funcs, NEW n \in 1..ir2.funcs[f].count,
                      NEW k \in InstsOf(BlockOf(ir2, ir2.funcs[f], n))
               PROVE  InstOK(ir2.funcs[f], n, ir2.insts[k], f = Len(ir2.funcs) /\ k \in pending)
    BY DEF Sound
  <2>1. f \in DOMAIN ir.funcs
    BY <1>3
  <2>2. n \in 1..ir.funcs[f].count /\ k \in InstsOf(BlockOf(ir, ir.funcs[f], n))
    BY <1>9, <2>1
  <2> DEFINE waits == f = m /\ k \in pending
  <2>3. InstOK(ir.funcs[f], n, ir.insts[k], waits)
    BY <1>1, <2>1, <2>2 DEF Sound, m
  <2>4. waits \in BOOLEAN /\ waits = (f = Len(ir2.funcs) /\ k \in pending)
    BY <1>3
  <2> HIDE DEF waits
  <2>5. CASE f = m
    <3>1. l.next_vreg =< l2.next_vreg /\ l.count =< l2.count
      BY <1>3, <1>7
    <3>2. InstOK(l, n, ir.insts[k], waits)
      BY <1>5, <2>3, <2>5
    <3> DEFINE i == ir.insts[k]
    <3>3. InstOK(l, n, i, waits) /\ l \in FuncRecord /\ l2 \in FuncRecord /\ waits \in BOOLEAN
      BY <1>3, <1>5, <2>4, <3>2
    <3> HIDE DEF i
    <3>4. InstOK(l2, n, i, waits)
      BY <3>1, <3>3, InstGrows
    <3>5. InstOK(l2, n, ir.insts[k], waits)
      BY <3>4 DEF i
    <3> QED
      BY <1>4, <1>5, <2>4, <2>5, <3>5
  <2>6. CASE f # m
    BY <1>3, <1>4, <2>1, <2>3, <2>4, <2>6
  <2> QED
    BY <2>5, <2>6
<1>15. NoneUnused(ir2, awaited)
  <2> SUFFICES ASSUME NEW f \in DOMAIN ir2.funcs, NEW r \in ir2.funcs[f].arity..(ir2.funcs[f].next_vreg - 1)
               PROVE  Names(ir2, ir2.funcs[f], r) \/ (f = Len(ir2.funcs) /\ r \in awaited)
    BY DEF NoneUnused
  <2>1. f \in DOMAIN ir.funcs
    BY <1>3
  <2>2. CASE f = m
    <3>1. r \in (l.arity + 1)..((l.next_vreg + 1) - 1)
      BY <1>3, <1>5, <2>2
    <3> QED
      BY <1>6, <1>7, <3>1
  <2>3. CASE f # m
    <3>1. ir2.funcs[f] = ir.funcs[f]
      BY <1>3, <2>1, <2>3
    <3>2. Names(ir, ir.funcs[f], r)
      BY <1>1, <2>1, <2>3, <3>1 DEF NoneUnused, m
    <3>3. PICK n \in 1..ir.funcs[f].count : \E k \in InstsOf(BlockOf(ir, ir.funcs[f], n)) : VReg(r) \in NamedBy(ir.insts[k])
      BY <3>2 DEF Names
    <3>4. BlockOf(ir2, ir2.funcs[f], n) = BlockOf(ir, ir.funcs[f], n)
      BY <1>9, <2>1
    <3> QED
      BY <1>4, <3>1, <3>3, <3>4 DEF Names
  <2> QED
    BY <2>2, <2>3
<1>16. CurrentOf(ir2, c) = CurrentOf(ir, c)
  BY <1>10 DEF CurrentOf, l, l2
<1>17. Tables(ir2, T, c, pending, awaited)
  BY <1>11, <1>12, <1>13, <1>14, <1>15 DEF Tables
<1> QED
  BY <1>2, <1>8, <1>10, <1>16, <1>17 DEF l, l2

LEMMA BindKeeps ==
  ASSUME NEW f, Here(f), bindParameter
  PROVE  BuildInv'
<1> DEFINE ir   == ModuleIR
           ir2  == ModuleIR'
           cs   == <<>>
           s2   == cs \o Tail(todo)
           name == f.arg[1]
<1>1. /\ f.step = "Param" /\ f.step \notin DeclStep
      /\ funcs' = [funcs EXCEPT ![Len(funcs)] = [Function EXCEPT !.next_vreg = @ + 1, !.arity = @ + 1]]
      /\ bind(name, Fresh) /\ EndCall
      /\ UNCHANGED <<insts, blocks, cur, open, loops, decl, meta, errors, env>>
  BY TopIs DEF bindParameter, Doing, DeclStep
<1>2. /\ Going(ir, todo, cur, loops) /\ todo # <<>> /\ f = todo[1]
      /\ Stack(todo, RegsOf(LastFunc(ir)), BlocksOf(LastFunc(ir))) /\ todo \in Seq(Range(todo))
      /\ OpenLoops(loops, ir.insts, BlocksOf(LastFunc(ir))) /\ Nesting(todo, Len(loops)) /\ Position(ir, todo, cur)
      /\ Conditions(todo, cur)
      /\ Tables(ir, AllTargets(todo), cur, Pending(loops), Awaited(todo))
      /\ Context(ir, decl, open, locals)
  BY DEF Here, Going, Stack
<1>3. Fresh = LastFunc(ir).next_vreg /\ ir2.insts = ir.insts
  BY <1>1 DEF Fresh, Function, Last, LastFunc, ModuleIR
<1>4. Binds(ir, ir2)
  <2> DEFINE g == LastFunc(ir)
  <2>1. g = Function /\ ir.funcs = funcs
    BY DEF Function, Last, LastFunc, ModuleIR
  <2>2. ir2.funcs = funcs'
    BY DEF ModuleIR
  <2>3. ir2.insts = ir.insts /\ ir2.blocks = ir.blocks
    BY <1>1 DEF ModuleIR
  <2> HIDE DEF g, ir, ir2
  <2> QED
    BY <1>1, <2>1, <2>2, <2>3 DEF Binds, g
<1>5. todo' = s2
  BY <1>1, EndingIs DEF Continue
<1> HIDE DEF ir, ir2, cs
<1>6. ir.funcs # <<>> /\ LastFunc(ir).next_vreg = LastFunc(ir).arity /\ ~Whole(ir, CurrentOf(ir, cur))
  BY <1>1, <1>2 DEF Position, Running
<1>7. cs \in Seq(Range(cs)) /\ DOMAIN cs = {} /\ AllTargets(cs) = {} /\ cs = <<>>
  BY None, TargetsOfNone DEF cs
<1>8. /\ Targets(todo[1]) = {} /\ todo[1].step # "VarDecl" /\ f.step \notin {"Loop", "ExitLoop"} \cup ExprStep
      /\ todo[1].step = "Param"
  BY <1>1, <1>2 DEF Targets, Switching, ExprStep
<1> DEFINE T == AllTargets(todo)
           P == Pending(loops)
           regs == RegsOf(LastFunc(ir))    regs2 == RegsOf(LastFunc(ir2))
           blks == BlocksOf(LastFunc(ir))  blks2 == BlocksOf(LastFunc(ir2))
<1>9. /\ Tables(ir2, T, cur, P, Awaited(todo)) /\ FuncsBind(ir, ir2) /\ regs \subseteq regs2 /\ Fresh \in regs2 /\ blks2 = blks
      /\ ~Whole(ir2, CurrentOf(ir2, cur))
  <2> DEFINE A == Awaited(todo)
             c == cur
  <2>1. Tables(ir, T, c, P, A) /\ ~Whole(ir, CurrentOf(ir, c))
    BY <1>2, <1>6
  <2> HIDE DEF T, P, A, c
  <2>2. /\ Tables(ir2, T, c, P, A) /\ FuncsBind(ir, ir2)
        /\ RegsOf(LastFunc(ir)) \subseteq RegsOf(LastFunc(ir2)) /\ LastFunc(ir).next_vreg \in RegsOf(LastFunc(ir2))
        /\ BlocksOf(LastFunc(ir2)) = BlocksOf(LastFunc(ir))
        /\ Whole(ir2, CurrentOf(ir2, c)) <=> Whole(ir, CurrentOf(ir, c))
    BY <1>4, <1>6, <2>1, TablesBind
  <2> QED
    BY <1>3, <2>1, <2>2 DEF A, c
<1> HIDE DEF T, P
<1>10. AllTargets(s2) = T
  <2>1. \A k \in DOMAIN todo : 1 < k => Targets(todo[1]) \cap Targets(todo[k]) = {}
    BY <1>8
  <2>2. AllTargets(s2) = (AllTargets(todo) \ Targets(todo[1])) \cup AllTargets(cs)
    BY <1>2, <1>7, <2>1, TargetsAfter
  <2> QED
    BY <1>7, <1>8, <2>2 DEF T
<1>11. Awaited(todo) \subseteq Awaited(s2)
  <2>1. \A r \in Awaited(todo) : r \in Awaited(s2) \/ (todo[1].step = "VarDecl" /\ r = todo[1].arg[1])
    BY <1>2, <1>7, AwaitedAfter
  <2> QED
    BY <1>8, <2>1
<1>12. Tables(ir2, AllTargets(s2), cur, P, Awaited(s2))
  <2> DEFINE A == Awaited(todo)
             B == Awaited(s2)
             c == cur
  <2>1. Tables(ir2, T, c, P, A) /\ A \subseteq B /\ Same(ir2, ir2)
    BY <1>9, <1>11 DEF Same
  <2> HIDE DEF A, B, c
  <2>2. Tables(ir2, T, c, P, B)
    BY <2>1, SameTables
  <2> QED
    BY <1>10, <2>2 DEF B, c
<1>13. Conditions(s2, cur) /\ Nesting(s2, Len(loops))
  BY <1>7, <1>8, NoLoops
<1>14. Stack(s2, regs2, blks2)
  <2>1. Replaces(cs, todo[1], regs2, blks2, {}) /\ {} \cap blks = {} /\ blks \subseteq blks2 /\ Stack(todo, regs, blks)
    BY <1>2, <1>7, <1>9, ReplacesNone
  <2> HIDE DEF regs, regs2, blks, blks2
  <2> QED
    BY <1>2, <1>9, <2>1, StackGoesOn
<1>15. Position(ir2, s2, cur)
  <2>1. LastFunc(ir2).next_vreg = LastFunc(ir2).arity /\ ir2.funcs # <<>>
    BY <1>6, <1>9 DEF FuncsBind
  <2>2. \A next \in {"Param", "Stmt"} : Fits(ir2, cur, next)
    <3>1. "Param" \notin Switching \cup DeclStep /\ "Stmt" \notin Switching \cup DeclStep
      BY DEF Switching, DeclStep
    <3> QED
      BY <1>9, <2>1, <3>1 DEF Fits
  <2>3. Callers(todo[1].step) = {"Param", "Stmt"} /\ todo[1].step \notin Outermost
    BY <1>8, CallersAre DEF Outermost, DeclStep
  <2> DEFINE c == cur
  <2>4. /\ cs # <<>> => Fits(ir2, c, cs[1].step)
        /\ cs = <<>> => /\ todo[1].step \in Outermost => Whole(ir2, CurrentOf(ir2, c))
                        /\ \A next \in Callers(todo[1].step) : Fits(ir2, c, next)
    BY <1>7, <2>2, <2>3
  <2> HIDE DEF c, regs, blks
  <2>5. Position(ir2, s2, c)
    BY <1>2, <1>7, <2>1, <2>4, Positioned DEF regs, blks
  <2> QED
    BY <2>5 DEF c
<1>16. OpenLoops(loops, ir2.insts, blks2)
  BY <1>2, <1>3, <1>9
<1>17. Going(ir2, s2, cur, loops)
  BY <1>12, <1>13, <1>14, <1>15, <1>16 DEF Going, P
<1>18. Context(ir2, decl, open, locals')
  <2>1. /\ decl \in Tree /\ open \in Seq(Tree) /\ \A n \in DOMAIN locals : locals[n] \in regs
    BY <1>2 DEF Context
  <2> DEFINE r == Fresh
  <2>2. locals' = [n \in DOMAIN locals \cup {name} |-> IF n = name THEN r ELSE locals[n]]
    BY <1>1 DEF bind
  <2>3. r \in regs2
    BY <1>9
  <2> HIDE DEF r, name, regs, regs2
  <2>4. \A n \in DOMAIN locals' : locals'[n] \in regs2
    BY <1>9, <2>1, <2>2, <2>3
  <2> QED
    BY <2>1, <2>4 DEF Context, regs2
<1> QED
  BY <1>1, <1>5, <1>17, <1>18 DEF BuildInv, ir2

\* The builder at the start of a unit, with nothing but declarations to do.
LEMMA NothingBuilt ==
  ASSUME NEW ir, ir.insts = <<>>, ir.blocks = <<>>, ir.funcs = <<>>, NEW s, s \in Seq(Range(s)),
         \A k \in DOMAIN s : /\ FrameOK(s[k], RegsOf(LastFunc(ir)), BlocksOf(LastFunc(ir)))
                             /\ Targets(s[k]) = {} /\ s[k].step \in DeclStep
  PROVE  Going(ir, s, 0, <<>>)
<1> DEFINE regs == RegsOf(LastFunc(ir))
           blks == BlocksOf(LastFunc(ir))
           ls   == <<>>
<1>1. /\ ls \in Seq(LoopRecord) /\ DOMAIN ls = {} /\ Len(ls) = 0
  OBVIOUS
<1>2. /\ DOMAIN ir.insts = {} /\ DOMAIN ir.blocks = {} /\ DOMAIN ir.funcs = {}
      /\ ir.insts \in Seq(Range(ir.insts)) /\ ir.blocks \in Seq(BlockRecord) /\ ir.funcs \in Seq(FuncRecord)
  BY None
<1>3. Between(s)
  BY DEF Between
<1>4. Stack(s, regs, blks)
  <2>1. ASSUME NEW k \in DOMAIN s
        PROVE  /\ FrameOK(s[k], regs, blks)
               /\ IF k = Len(s) THEN s[k].step \in Outermost ELSE s[k + 1].step \in Callers(s[k].step)
    <3>1. Len(s) \in Nat /\ DOMAIN s = 1..Len(s)
      OBVIOUS
    <3>2. CASE k = Len(s)
      BY <3>2 DEF Outermost
    <3>3. CASE k # Len(s)
      <4>1. k + 1 \in DOMAIN s
        BY <3>1, <3>3
      <4>2. Callers(s[k].step) = DeclStep /\ s[k + 1].step \in DeclStep
        BY <4>1, CallersAre
      <4> QED
        BY <3>3, <4>2
    <3> QED
      BY <3>2, <3>3
  <2>2. \A j, k \in DOMAIN s : j < k =>
          /\ Targets(s[j]) \cap Targets(s[k]) = {}
          /\ s[j].step \in DeclStep => s[k].step \in DeclStep
    OBVIOUS
  <2> HIDE DEF regs, blks
  <2> QED
    BY <2>1, <2>2 DEF Stack
<1> HIDE DEF ls
<1>5. /\ AllTargets(s) = {} /\ Awaited(s) = {} /\ Conditions(s, 0) /\ Nesting(s, Len(ls))
  BY <1>1, <1>3, NothingWaits
<1>6. OpenLoops(ls, ir.insts, blks) /\ Pending(ls) = {}
  BY <1>1 DEF OpenLoops, Pending
<1>7. Position(ir, s, 0)
  <2>1. s = <<>> \/ 1 \in DOMAIN s
    OBVIOUS
  <2> QED
    BY <1>3, <2>1 DEF Position, Between
<1>8. Spans(ir) /\ Straight(ir)
  BY <1>2 DEF Spans, Straight
<1>9. Finished(ir, {}, 0)
  BY <1>2 DEF Finished
<1>10. Sound(ir, {}) /\ NoneUnused(ir, {})
  BY <1>2 DEF Sound, NoneUnused
<1>11. Tables(ir, AllTargets(s), 0, Pending(ls), Awaited(s))
  BY <1>5, <1>6, <1>8, <1>9, <1>10 DEF Tables
<1>12. Going(ir, s, 0, ls)
  BY <1>4, <1>5, <1>6, <1>7, <1>11 DEF Going
<1> QED
  BY <1>12 DEF ls

LEMMA NothingNamed ==
  ASSUME NEW ir
  PROVE  Context(ir, NoNode, <<>>, <<>>)
<1>1. NoNode \in Tree /\ <<>> \in Seq(Tree)
  BY TreeAssumption
<1> DEFINE none == <<>>
<1>2. none \in Seq(Tree) /\ DOMAIN none = {}
  BY <1>1
<1> HIDE DEF none
<1>3. Context(ir, NoNode, none, none)
  BY <1>1, <1>2 DEF Context
<1> QED
  BY <1>3 DEF none

LEMMA IdleIsFine == Idle => BuildInv
<1> SUFFICES ASSUME Idle
             PROVE  BuildInv
  OBVIOUS
<1> DEFINE ir == ModuleIR
<1>1. ir.insts = <<>> /\ ir.blocks = <<>> /\ ir.funcs = <<>> /\ todo = <<>> /\ cur = 0 /\ loops = <<>>
      /\ decl = NoNode /\ open = <<>> /\ locals = <<>>
  BY DEF Idle, ModuleIR
<1> HIDE DEF ir
<1> DEFINE s == <<>>
<1>2. s \in Seq(Range(s)) /\ DOMAIN s = {}
  BY None
<1> HIDE DEF s
<1>3. Going(ir, s, 0, <<>>)
  BY <1>1, <1>2, NothingBuilt
<1>4. Context(ir, NoNode, <<>>, <<>>)
  BY NothingNamed
<1> QED
  BY <1>1, <1>3, <1>4 DEF BuildInv, ir, s

LEMMA BuildingStarts ==
  ASSUME NEW u \in Unit, build(u, u.frees, u.visible)
  PROVE  BuildInv'
<1> DEFINE ir == ModuleIR'
           decls == u.decls
           s  == Decls(decls)
<1>1. ir.insts = <<>> /\ ir.blocks = <<>> /\ ir.funcs = <<>> /\ todo' = s /\ cur' = 0 /\ loops' = <<>>
      /\ decl' = NoNode /\ open' = <<>> /\ locals' = <<>>
  BY DEF build, ModuleIR
<1>2. decls \in Seq(Tree)
  BY TreeAssumption
<1> DEFINE regs == RegsOf(LastFunc(ir))
           blks == BlocksOf(LastFunc(ir))
<1> HIDE DEF ir, decls
<1>3. /\ s \in Seq(Range(s))
      /\ \A k \in DOMAIN s : FrameOK(s[k], regs, blks) /\ Targets(s[k]) = {} /\ s[k].step \in DeclStep
  <2> HIDE DEF regs, blks
  <2> QED
    BY <1>2, DeclsAre
<1> HIDE DEF s
<1>4. Going(ir, s, 0, <<>>)
  BY <1>1, <1>3, NothingBuilt
<1>5. Context(ir, NoNode, <<>>, <<>>)
  BY NothingNamed
<1> QED
  BY <1>1, <1>4, <1>5 DEF BuildInv, ir

-----------------------------------------------------------------------------
(***************************************************************************)
(* Every step.                                                             *)
(***************************************************************************)
\* What was reported is not taken back before the next unit.
LEMMA ErrorsStay ==
  ASSUME step, errors # {}
  PROVE  errors' # {}
<1>1. \A what : error(what) => errors' # {}
  BY DEF error
<1>2. CASE buildExpr
  <2>1. CASE buildOperand \/ deliver
    BY <2>1 DEF buildOperand, deliver
  <2>2. \A fresh, is : Result(fresh, is) \/ Effect(is) => errors' = errors
    BY DEF Result, Effect
  <2>3. \A kind, size, fill : buildContainer(kind, size, fill) => errors' = errors
    BY DEF buildContainer
  <2>4. CASE buildLiteral \/ buildIdentifier \/ buildBinary \/ buildUnary
    BY <1>1, <2>2, <2>4 DEF buildLiteral, buildIdentifier, buildBinary, buildUnary
  <2>5. CASE buildCall \/ pushElement \/ setPair \/ buildIndex \/ buildMember
    BY <2>2, <2>5 DEF buildCall, pushElement, setPair, buildIndex, buildMember
  <2>6. CASE buildArray \/ buildMap \/ unsupportedExpr
    BY <1>1, <2>3, <2>6 DEF buildArray, buildMap, unsupportedExpr
  <2> QED
    BY <1>2, <2>1, <2>4, <2>5, <2>6 DEF buildExpr
<1>3. CASE buildStmt
  <2>1. \A is : Effect(is) => errors' = errors
    BY DEF Effect
  <2>2. CASE initVar \/ leave \/ jumpOn
    BY <2>1, <2>2 DEF initVar, leave, jumpOn
  <2>3. CASE resolveTarget \/ assign \/ buildBreak \/ buildContinue
    BY <1>1, <2>1, <2>3 DEF resolveTarget, assign, buildBreak, buildContinue
  <2>4. CASE declareVar \/ openBlock \/ nextInBlock \/ closeBlock \/ freeNext \/ buildReturn
    BY <2>4 DEF declareVar, openBlock, nextInBlock, closeBlock, freeNext, buildReturn
  <2>5. CASE buildIf \/ enterArm \/ switchBlock \/ enterLoop \/ testLoop \/ exitLoop \/ skipStmt
    BY <2>5 DEF buildIf, enterArm, switchBlock, enterLoop, testLoop, exitLoop, skipStmt
  <2> QED
    BY <1>3, <2>2, <2>3, <2>4, <2>5 DEF buildStmt
<1>4. CASE buildDecl
  <2>1. CASE beginFunc \/ bindParameter \/ endFunc \/ enterModule \/ endModule \/ enterExport \/ exportWrapped
    BY <2>1 DEF beginFunc, bindParameter, endFunc, enterModule, endModule, enterExport, exportWrapped
  <2>2. CASE buildTopDecl
    BY <1>1, <2>2 DEF buildTopDecl
  <2> QED
    BY <1>4, <2>1, <2>2 DEF buildDecl
<1> QED
  BY <1>2, <1>3, <1>4 DEF step

\* Whatever is done, something was to be done.
LEMMA SomethingToDo ==
  ASSUME step
  PROVE  todo # <<>>
<1>1. \A s : Doing(s) => todo # <<>>
  BY DEF Doing
<1>2. \A s, kinds : DoingNode(s, kinds) => todo # <<>>
  BY <1>1 DEF DoingNode
<1>3. CASE buildExpr
  BY <1>1, <1>2, <1>3 DEF buildExpr, buildOperand, buildLiteral, buildIdentifier, buildBinary, buildUnary, buildCall,
       buildArray, pushElement, buildMap, setPair, deliver, buildIndex, buildMember, unsupportedExpr
<1>4. CASE buildStmt
  BY <1>1, <1>2, <1>4 DEF buildStmt, declareVar, initVar, resolveTarget, assign, openBlock, nextInBlock, closeBlock,
       freeNext, buildReturn, leave, buildIf, enterArm, jumpOn, switchBlock, enterLoop, testLoop, exitLoop, buildBreak,
       buildContinue, skipStmt
<1>5. CASE buildDecl
  BY <1>1, <1>2, <1>5 DEF buildDecl, beginFunc, bindParameter, endFunc, buildTopDecl, enterModule, endModule,
       enterExport, exportWrapped
<1> QED
  BY <1>3, <1>4, <1>5 DEF step

LEMMA StepKeeps ==
  ASSUME BuildInv, step
  PROVE  BuildInv'
<1>1. CASE errors # {}
  BY <1>1, ErrorsStay DEF BuildInv
<1>2. CASE errors = {}
  <2> DEFINE f == todo[1]
  <2>1. Here(f)
    BY <1>2, SomethingToDo DEF BuildInv, Here
  <2> HIDE DEF f
  <2>2. CASE buildExpr
    <3>1. CASE buildOperand \/ buildLiteral \/ buildIdentifier \/ buildBinary \/ buildUnary
      BY <2>1, <3>1, OperandKeeps, LiteralKeeps, IdentifierKeeps, BinaryKeeps, UnaryKeeps
    <3>2. CASE buildCall \/ buildArray \/ pushElement \/ buildMap \/ setPair
      BY <2>1, <3>2, CallKeeps, ArrayKeeps, PushKeeps, MapKeeps, PairKeeps
    <3>3. CASE deliver \/ buildIndex \/ buildMember
      BY <2>1, <3>3, DeliverKeeps, IndexKeeps, MemberKeeps
    <3>4. CASE unsupportedExpr
      BY <3>4, ErrorKeeps DEF unsupportedExpr
    <3> QED
      BY <2>2, <3>1, <3>2, <3>3, <3>4 DEF buildExpr
  <2>3. CASE buildStmt
    <3>1. CASE declareVar \/ initVar \/ resolveTarget \/ assign
      BY <2>1, <3>1, DeclareKeeps, InitVarKeeps, ResolveKeeps, AssignKeeps
    <3>2. CASE openBlock \/ nextInBlock \/ closeBlock \/ freeNext \/ buildReturn \/ leave
      BY <2>1, <3>2, OpenKeeps, NextInBlockKeeps, CloseKeeps, FreeKeeps, ReturnKeeps, LeaveKeeps
    <3>3. CASE buildIf \/ enterArm \/ jumpOn \/ switchBlock
      BY <2>1, <3>3, IfKeeps, ArmKeeps, JumpOnKeeps, SwitchKeeps
    <3>4. CASE enterLoop \/ testLoop \/ exitLoop \/ buildBreak \/ buildContinue \/ skipStmt
      BY <2>1, <3>4, EnterLoopKeeps, TestLoopKeeps, ExitLoopKeeps, BreakKeeps, ContinueKeeps, SkipKeeps
    <3> QED
      BY <2>3, <3>1, <3>2, <3>3, <3>4 DEF buildStmt
  <2>4. CASE buildDecl
    <3>1. CASE beginFunc \/ bindParameter \/ endFunc
      BY <2>1, <3>1, BeginKeeps, BindKeeps, EndFuncKeeps
    <3>2. CASE buildTopDecl \/ enterModule \/ endModule \/ enterExport \/ exportWrapped
      BY <2>1, <3>2, OtherDeclKeeps, EnterModuleKeeps, EndModuleKeeps, ExportKeeps
    <3> QED
      BY <2>4, <3>1, <3>2 DEF buildDecl
  <2> QED
    BY <2>2, <2>3, <2>4 DEF step
<1> QED
  BY <1>1, <1>2

\* The invariant is inductive: whatever the trees of the units are.
THEOREM TheBuilderGoesOn == BuildSpec => []BuildInv
<1>1. Idle => BuildInv
  BY IdleIsFine
<1>2. BuildInv /\ [BuildNext]_builderVars => BuildInv'
  <2> SUFFICES ASSUME BuildInv, [BuildNext]_builderVars
               PROVE  BuildInv'
    OBVIOUS
  <2>1. CASE step
    BY <2>1, StepKeeps
  <2>2. CASE \E u \in Unit : build(u, u.frees, u.visible)
    BY <2>2, BuildingStarts
  <2>3. CASE UNCHANGED builderVars
    <3>1. /\ ModuleIR' = ModuleIR /\ errors' = errors /\ todo' = todo /\ cur' = cur /\ loops' = loops
          /\ decl' = decl /\ open' = open /\ locals' = locals
      BY <2>3 DEF builderVars, code, context, ModuleIR
    <3> HIDE DEF ModuleIR
    <3> QED
      BY <3>1 DEF BuildInv
  <2> QED
    BY <2>1, <2>2, <2>3 DEF BuildNext
<1> QED
  BY <1>1, <1>2, PTL DEF BuildSpec

\* Tables in which nothing waits are what the stages behind the builder expect.
LEMMA FinishedTables ==
  ASSUME NEW ir, NEW c, Tables(ir, {}, c, {}, {}), ir.funcs # <<>> => Whole(ir, CurrentOf(ir, c))
  PROVE  Promised(ir) /\ verifyModuleIRFlat(ir) = {}
<1>1. /\ Spans(ir) /\ Straight(ir) /\ Finished(ir, {}, c) /\ Sound(ir, {}) /\ NoneUnused(ir, {})
  BY DEF Tables
<1>2. ASSUME NEW f \in DOMAIN ir.funcs
      PROVE  PromisedFunc(ir, ir.funcs[f]) /\ FunctionIssues(ir, ir.funcs[f]) = {}
  <2> DEFINE func == ir.funcs[f]
  <2>1. /\ func \in FuncRecord /\ func.count > 0 /\ func.arity =< func.next_vreg
        /\ func.first + func.count =< Len(ir.blocks)
    <3>1. ir.funcs \in Seq(FuncRecord) /\ ir.funcs[f].count > 0 /\ ir.funcs[f].arity =< ir.funcs[f].next_vreg
      BY <1>1 DEF Spans
    <3>2. ir.funcs[f].first + ir.funcs[f].count =< Len(ir.blocks)
      BY <1>1, SpansEnd
    <3> QED
      BY <3>1, <3>2
  <2>2. ASSUME NEW n \in 1..func.count
        PROVE  LET block == BlockOf(ir, func, n) IN
               /\ block \in BlockRecord /\ block # EmptyBlock
               /\ block.begin \in Nat /\ block.count > 0 /\ block.begin + block.count =< Len(ir.insts)
               /\ ir.insts[block.begin + block.count].kind \in Terminators
               /\ \A k \in InstsOf(block) :
                    /\ InstOK(func, n, ir.insts[k], FALSE)
                    /\ ir.insts[k].kind \in Terminators => k = block.begin + block.count
    <3> DEFINE block == BlockOf(ir, func, n)
               place == func.first + n
    <3>1. place \in DOMAIN ir.blocks /\ block = ir.blocks[place]
      <4>1. ir.funcs[f].first + n \in DOMAIN ir.blocks
        BY <1>1, BlockPlace
      <4> QED
        BY <4>1 DEF BlockOf
    <3>2. Whole(ir, block)
      BY <1>1, AllFinished
    <3>3. block # EmptyBlock /\ ir.insts[block.begin + block.count].kind \in Terminators
      BY <3>2 DEF Whole, EndOf
    <3>4. ASSUME NEW k \in InstsOf(block)
          PROVE  InstOK(func, n, ir.insts[k], FALSE)
      <4>1. (f = Len(ir.funcs) /\ k \in {}) = FALSE
        OBVIOUS
      <4>2. InstOK(func, n, ir.insts[k], f = Len(ir.funcs) /\ k \in {})
        BY <1>1 DEF Sound
      <4> QED
        BY <4>1, <4>2
    <3>5. block \in BlockRecord
      <4>1. ir.blocks \in Seq(BlockRecord)
        BY <1>1 DEF Spans
      <4> QED
        BY <3>1, <4>1
    <3> HIDE DEF block, place
    <3>6. /\ block.begin \in Nat /\ block.count > 0 /\ block.begin + block.count =< Len(ir.insts)
          /\ \A k \in InstsOf(block) : ir.insts[k].kind \in Terminators => k = block.begin + block.count
      BY <1>1, <3>1, <3>3 DEF Straight, EndOf
    <3> QED
      BY <3>3, <3>4, <3>5, <3>6 DEF block
  <2>3. \A r \in (func.arity)..(func.next_vreg - 1) :
          \E n \in 1..func.count : \E k \in InstsOf(BlockOf(ir, func, n)) : VReg(r) \in NamedBy(ir.insts[k])
    BY <1>1 DEF NoneUnused, Names
  <2> HIDE DEF func
  <2>4. PromisedFunc(ir, func)
    <3>1. /\ func.first \in Nat /\ func.count \in Nat /\ func.name \in NameId
          /\ func.next_vreg \in Nat /\ func.arity \in 0..func.next_vreg
      <4>1. /\ func.first \in Nat /\ func.count \in Nat /\ func.name \in NameId
            /\ func.next_vreg \in Nat /\ func.arity \in Nat
        BY <2>1 DEF FuncRecord
      <4> QED
        BY <2>1, <4>1
    <3>2. ASSUME NEW n \in 1..func.count
          PROVE  LET block == BlockOf(ir, func, n) IN
                 /\ block.count \in Nat /\ block.begin \in Nat \cup {Unset}
                 /\ \A k \in InstsOf(block) : PromisedInst(func, n, ir.insts[k])
      <4> DEFINE block == BlockOf(ir, func, n)
      <4>1. block \in BlockRecord /\ \A k \in InstsOf(block) : InstOK(func, n, ir.insts[k], FALSE)
        BY <2>2
      <4> HIDE DEF block
      <4>2. block.count \in Nat /\ block.begin \in Nat \cup {Unset}
        BY <4>1, Fields
      <4>3. \A k \in InstsOf(block) : PromisedInst(func, n, ir.insts[k])
        BY <4>1 DEF InstOK
      <4> QED
        BY <4>2, <4>3 DEF block
    <3> QED
      BY <2>3, <3>1, <3>2 DEF PromisedFunc
  <2>5. ASSUME NEW n \in 1..func.count
        PROVE  BlockIssues(ir, func, BlockOf(ir, func, n)) = {}
    <3> DEFINE block == BlockOf(ir, func, n)
    <3>1. /\ block.begin \in Nat /\ block.count \in Nat /\ block.count > 0
          /\ block.begin + block.count =< Len(ir.insts)
          /\ ir.insts[block.begin + block.count].kind \in Terminators
          /\ \A k \in InstsOf(block) :
               /\ InstOK(func, n, ir.insts[k], FALSE)
               /\ ir.insts[k].kind \in Terminators => k = block.begin + block.count
      <4> DEFINE bl == BlockOf(ir, func, n)
      <4>1. bl \in BlockRecord
        BY <2>2
      <4>2. bl.count \in Nat
        <5> HIDE DEF bl
        <5> QED
          BY <4>1, Fields
      <4> QED
        BY <2>2, <4>2
    <3>2. Len(ir.insts) \in Nat
      BY <1>1 DEF Spans
    <3> HIDE DEF block
    <3>3. ASSUME NEW k \in InstsOf(block)
          PROVE  InstIssues(ir, func, block, k) = {}
      <4> DEFINE i == ir.insts[k]
      <4>1. InstOK(func, n, i, FALSE) /\ (i.kind \in Terminators <=> k = block.begin + block.count)
        BY <3>1, <3>3
      <4> HIDE DEF i
      <4>2. i.kind = "Free" => i.dst.kind = "VReg"
        BY <4>1 DEF InstOK
      <4>3. ASSUME NEW slot \in SlotsOfInst(i)
            PROVE  InRange(func, slot)
        <5>1. /\ slot.kind = "VReg" => slot.value \in RegsOf(func)
              /\ slot.kind = "BlockId" => slot.value \in BlocksOf(func)
          BY <4>1 DEF InstOK
        <5>2. func.next_vreg \in Nat /\ func.count \in Nat
          BY <2>1, Fields
        <5>3. \A r \in RegsOf(func) : r < func.next_vreg
          BY <5>2 DEF RegsOf
        <5>4. \A z \in BlocksOf(func) : z # Unset /\ z < func.count
          BY <5>2 DEF BlocksOf, Unset
        <5> QED
          BY <5>1, <5>3, <5>4 DEF InRange
      <4> QED
        BY <4>1, <4>2, <4>3 DEF InstIssues, i
    <3>4. BlockIssues(ir, func, block) = {}
      BY <3>1, <3>2, <3>3 DEF BlockIssues
    <3> QED
      BY <3>4 DEF block
  <2>6. ~(func.first + func.count > Len(ir.blocks)) /\ func.count # 0
    <3>1. func.first \in Nat /\ func.count \in Nat
      BY <2>1, Fields
    <3>2. Len(ir.blocks) \in Nat
      BY <1>1 DEF Spans
    <3> QED
      BY <2>1, <3>1, <3>2
  <2>7. FunctionIssues(ir, func) = {}
    BY <2>5, <2>6 DEF FunctionIssues
  <2> QED
    BY <2>4, <2>7 DEF func
<1> QED
  BY <1>2 DEF Promised, verifyModuleIRFlat

\* Nothing waits when there is nothing left to do.
LEMMA BuiltIsFinished ==
  ASSUME BuildInv, Built
  PROVE  Promised(ModuleIR) /\ verifyModuleIRFlat(ModuleIR) = {}
<1> DEFINE ir == ModuleIR
           s  == todo
<1>1. /\ Going(ir, s, cur, loops) /\ s = <<>>
  BY DEF BuildInv, Built
<1> HIDE DEF ir, s
<1>2. Between(s) /\ Nesting(s, Len(loops)) /\ loops \in Seq(LoopRecord)
      /\ Tables(ir, AllTargets(s), cur, Pending(loops), Awaited(s))
  BY <1>1 DEF Between, Going, OpenLoops
<1>3. Len(loops) = 0
  BY <1>2, NothingWaits
<1>4. Pending(loops) = {} /\ AllTargets(s) = {} /\ Awaited(s) = {}
  BY <1>2, <1>3, NothingWaits DEF Pending
<1>5. Tables(ir, {}, cur, {}, {})
  BY <1>2, <1>4
<1>6. ir.funcs # <<>> => Whole(ir, CurrentOf(ir, cur))
  BY <1>1 DEF Going, Position
<1> QED
  BY <1>5, <1>6, FinishedTables DEF ir

\* A unit that is built without a diagnostic passes the verifier, whatever its
\* tree is: IRBuilder is never followed by the verifier's "invalid IR".
THEOREM BuiltPassesVerification == BuildSpec => []BuiltVerifies
<1>1. BuildInv => BuiltVerifies
  BY BuiltIsFinished DEF BuiltVerifies
<1> QED
  BY <1>1, TheBuilderGoesOn, PTL

\* And it is what lowering rests on without checking it.
THEOREM BuiltKeepsPromises == BuildSpec => []BuiltAsPromised
<1>1. BuildInv => BuiltAsPromised
  BY BuiltIsFinished DEF BuiltAsPromised
<1> QED
  BY <1>1, TheBuilderGoesOn, PTL

\* From the tree to the chunk: what the builder has built without a diagnostic and
\* lowering has room for is code that is safe for the VM to run.
BuiltRunsSafely ==
  Built /\ Lowerable(ModuleIR) =>
    \A f \in DOMAIN funcs, module \in Module :
      Len(lowerBlocks(ModuleIR, ModuleIR.funcs[f]).constants) =< Uint16 =>
        SafeImage(lowerModuleToChunk(ModuleIR, module)[f])

THEOREM BuiltCodeIsSafe ==
  ASSUME NameId \subseteq IntRange, MaxByte < StackCapacity, DefaultSlots =< StackCapacity
  PROVE  BuildSpec => []BuiltRunsSafely
<1>1. BuildInv => BuiltRunsSafely
  <2> SUFFICES ASSUME BuildInv, Built, Lowerable(ModuleIR), NEW f \in DOMAIN funcs, NEW module \in Module,
                      Len(lowerBlocks(ModuleIR, ModuleIR.funcs[f]).constants) =< Uint16
               PROVE  SafeImage(lowerModuleToChunk(ModuleIR, module)[f])
    BY DEF BuiltRunsSafely
  <2> DEFINE ir == ModuleIR
  <2>1. ir.funcs = funcs
    BY DEF ModuleIR
  <2>2. Promised(ir) /\ verifyModuleIRFlat(ir) = {}
    BY BuiltIsFinished
  <2> HIDE DEF ir
  <2>3. /\ f \in DOMAIN ir.funcs /\ Lowerable(ir) /\ Len(lowerBlocks(ir, ir.funcs[f]).constants) =< Uint16
    BY <2>1 DEF ir
  <2>4. SafeImage(lowerModuleToChunk(ir, module)[f])
    BY <2>2, <2>3, LoweredIsSafe
  <2> QED
    BY <2>4 DEF ir
<1> QED
  BY <1>1, TheBuilderGoesOn, PTL

-----------------------------------------------------------------------------
(***************************************************************************)
(* What the module declares: its symbols, what it exports, its windows.    *)
(* MetaInv rests on BuildInv, which knows the nodes and the functions.     *)
(***************************************************************************)
\* The module has these fields, and its tables are sequences.
Shape(m) ==
  /\ m = [syms |-> m.syms, exported |-> m.exported, kits |-> m.kits, kits_items |-> m.kits_items,
          components |-> m.components, module |-> m.module]
  /\ m.syms \in Seq(Range(m.syms))
  /\ \A k \in DOMAIN m.syms :
       m.syms[k] = [name |-> m.syms[k].name, kind |-> m.syms[k].kind, owner |-> m.syms[k].owner,
                    exported |-> m.syms[k].exported]
  /\ m.kits_items \in Seq(Range(m.kits_items))
  /\ m.kits \in Seq(Range(m.kits))
  /\ \A k \in DOMAIN m.kits : m.kits[k].first \in Nat /\ m.kits[k].count \in Nat

LEMMA AddedIs ==
  ASSUME NEW s, s \in Seq(Range(s)), NEW x
  PROVE  /\ Append(s, x) \in Seq(Range(Append(s, x)))
         /\ Len(s) \in Nat /\ DOMAIN s = 1..Len(s)
         /\ Len(Append(s, x)) = Len(s) + 1 /\ DOMAIN Append(s, x) = DOMAIN s \cup {Len(s) + 1}
         /\ Len(s) + 1 \notin DOMAIN s
         /\ Append(s, x)[Len(s) + 1] = x
         /\ \A k \in DOMAIN s : Append(s, x)[k] = s[k]
<1>1. Len(s) \in Nat /\ DOMAIN s = 1..Len(s)
  OBVIOUS
<1> DEFINE t == Append(s, x)
<1>2. s \in Seq(Range(s) \cup {x}) 
  OBVIOUS
<1>3. t \in Seq(Range(s) \cup {x}) /\ Len(t) = Len(s) + 1
  BY <1>2
<1>4. t[Len(s) + 1] = x /\ \A k \in DOMAIN s : t[k] = s[k]
  BY <1>1, <1>2
<1>5. DOMAIN t = 1..(Len(s) + 1)
  BY <1>3
<1>6. DOMAIN t = DOMAIN s \cup {Len(s) + 1} /\ Len(s) + 1 \notin DOMAIN s
  BY <1>1, <1>5
<1> HIDE DEF t
<1>7. t \in Seq(Range(t))
  <2>1. \A k \in 1..Len(t) : t[k] \in Range(t)
    BY <1>1, <1>3, <1>5 DEF Range
  <2> QED
    BY <1>1, <1>3, <2>1
<1> QED
  BY <1>1, <1>3, <1>4, <1>6, <1>7 DEF t

\* A symbol in the table.
LEMMA FlagIs ==
  ASSUME NEW name, NEW kind, NEW owner, NEW flag \in BOOLEAN, NEW s,
         s = [name |-> name, kind |-> kind, owner |-> owner, exported |-> flag]
  PROVE  /\ s = [name |-> s.name, kind |-> s.kind, owner |-> s.owner, exported |-> s.exported]
         /\ IsSymbol(s, name, kind)
         /\ s.exported <=> flag
<1>1. s.name = name /\ s.kind = kind /\ s.owner = owner /\ s.exported = flag
  OBVIOUS
<1>2. s.exported <=> flag
  BY <1>1, Zenon
<1> QED
  BY <1>1, <1>2 DEF IsSymbol

LEMMA Entered ==
  ASSUME NEW m, Shape(m), NEW t, t \in Seq(Range(t)), NEW n, n = [m EXCEPT !.syms = t],
         \A k \in DOMAIN t : t[k] = [name |-> t[k].name, kind |-> t[k].kind, owner |-> t[k].owner,
                                     exported |-> t[k].exported]
  PROVE  Shape(n) /\ n.syms = t /\ n.exported = m.exported /\ n.kits = m.kits /\ n.kits_items = m.kits_items
<1>1. /\ n.syms = t /\ n.exported = m.exported /\ n.kits = m.kits /\ n.kits_items = m.kits_items
      /\ n = [syms |-> n.syms, exported |-> n.exported, kits |-> n.kits, kits_items |-> n.kits_items,
              components |-> n.components, module |-> n.module]
  BY DEF Shape
<1> QED
  BY <1>1 DEF Shape

LEMMA UpsertIs ==
  ASSUME NEW m, Shape(m), NEW name, NEW kind, NEW exported \in BOOLEAN,
         \A j, k \in DOMAIN m.syms : IsSymbol(m.syms[j], m.syms[k].name, m.syms[k].kind) => j = k
  PROVE  LET n == upsertSymbol(m, name, kind, exported) IN
         /\ Shape(n)
         /\ n.exported = m.exported /\ n.kits = m.kits /\ n.kits_items = m.kits_items
         /\ \E i :
              /\ DOMAIN n.syms = DOMAIN m.syms \cup {i}
              /\ IsSymbol(n.syms[i], name, kind)
              /\ \A k \in DOMAIN m.syms \ {i} : n.syms[k] = m.syms[k] /\ ~IsSymbol(m.syms[k], name, kind)
              /\ i \in DOMAIN m.syms => IsSymbol(m.syms[i], name, kind)
              /\ n.syms[i].exported <=>
                   exported \/ name \in m.exported \/ (i \in DOMAIN m.syms /\ m.syms[i].exported)
<1> DEFINE n   == upsertSymbol(m, name, kind, exported)
           at  == {k \in DOMAIN m.syms : m.syms[k].name = name /\ m.syms[k].kind = kind}
           flag(was) == was \/ exported \/ name \in m.exported
           symbol(was) == [name |-> name, kind |-> kind, owner |-> m.module, exported |-> flag(was)]
           Goal(t, i) ==
               /\ Shape(n)
               /\ n.exported = m.exported /\ n.kits = m.kits /\ n.kits_items = m.kits_items
               /\ n.syms = t
               /\ IsSymbol(t[i], name, kind)
               /\ t[i].exported <=>
                    exported \/ name \in m.exported \/ (i \in DOMAIN m.syms /\ m.syms[i].exported)
<1>1. ASSUME NEW t, NEW i, NEW was, n = [m EXCEPT !.syms = t],
             t \in Seq(Range(t)), DOMAIN t = DOMAIN m.syms \cup {i}, t[i] = symbol(was),
             \A k \in DOMAIN m.syms \ {i} : t[k] = m.syms[k],
             was <=> i \in DOMAIN m.syms /\ m.syms[i].exported
      PROVE  Goal(t, i)
  <2> DEFINE b == flag(was)
  <2>1. b \in BOOLEAN
    OBVIOUS
  <2>2. t[i] = [name |-> name, kind |-> kind, owner |-> m.module, exported |-> b]
    BY <1>1
  <2> HIDE DEF b
  <2>3. /\ t[i] = [name |-> t[i].name, kind |-> t[i].kind, owner |-> t[i].owner, exported |-> t[i].exported]
        /\ IsSymbol(t[i], name, kind)
        /\ t[i].exported <=> b
    BY <2>1, <2>2, FlagIs
  <2>4. t[i].exported <=> exported \/ name \in m.exported \/ (i \in DOMAIN m.syms /\ m.syms[i].exported)
    BY <1>1, <2>3, Zenon DEF b
  <2> HIDE DEF n
  <2>5. \A k \in DOMAIN t : t[k] = [name |-> t[k].name, kind |-> t[k].kind, owner |-> t[k].owner,
                                    exported |-> t[k].exported]
    <3>1. ASSUME NEW k \in DOMAIN m.syms \ {i}
          PROVE  t[k] = [name |-> t[k].name, kind |-> t[k].kind, owner |-> t[k].owner, exported |-> t[k].exported]
      <4>1. t[k] = m.syms[k]
        BY <1>1
      <4> QED
        BY <4>1 DEF Shape
    <3>2. t[i] = [name |-> t[i].name, kind |-> t[i].kind, owner |-> t[i].owner, exported |-> t[i].exported]
      BY <2>3
    <3>3. DOMAIN t = DOMAIN m.syms \cup {i}
      BY <1>1
    <3> QED
      BY <3>1, <3>2, <3>3
  <2>6. Shape(n) /\ n.syms = t /\ n.exported = m.exported /\ n.kits = m.kits /\ n.kits_items = m.kits_items
    <3>1. n = [m EXCEPT !.syms = t] /\ t \in Seq(Range(t))
      BY <1>1
    <3> HIDE DEF symbol, flag, Goal, at
    <3> QED
      BY <3>1, <2>5, Entered
  <2> QED
    BY <2>3, <2>4, <2>6
<1>2. CASE at = {}
  <2> DEFINE t == Append(m.syms, symbol(FALSE))
             i == Len(m.syms) + 1
  <2>1. n = [m EXCEPT !.syms = t]
    BY <1>2 DEF upsertSymbol
  <2>2. /\ t \in Seq(Range(t)) /\ DOMAIN t = DOMAIN m.syms \cup {i} /\ i \notin DOMAIN m.syms
        /\ t[i] = symbol(FALSE) /\ \A k \in DOMAIN m.syms : t[k] = m.syms[k]
    BY AddedIs DEF Shape
  <2>3. \A k \in DOMAIN m.syms : ~IsSymbol(m.syms[k], name, kind)
    BY <1>2 DEF IsSymbol
  <2> HIDE DEF t, i, n, symbol
  <2>4. Goal(t, i)
    <3> HIDE DEF Goal
    <3> QED
      BY <1>1, <2>1, <2>2, <2>3
  <2> QED
    BY <2>2, <2>3, <2>4 DEF n
<1>3. CASE at # {}
  <2>1. PICK i \in DOMAIN m.syms : m.syms[i].name = name /\ m.syms[i].kind = kind
    BY <1>3
  <2>2. at = {i} /\ i \in Nat
    BY <2>1 DEF Shape, IsSymbol
  <2>3. Min(at) = i
    BY <2>2 DEF Min
  <2> DEFINE x == symbol(m.syms[i].exported)
             t == [m.syms EXCEPT ![i] = x]
  <2>4. n = [m EXCEPT !.syms = t]
    BY <1>3, <2>3 DEF upsertSymbol
  <2> HIDE DEF x
  <2>6. DOMAIN t = DOMAIN m.syms /\ t[i] = x /\ \A k \in DOMAIN m.syms \ {i} : t[k] = m.syms[k]
    BY <2>1
  <2>7. t \in Seq(Range(t))
    <3>1. t \in Seq(Range(m.syms) \cup {x})
      BY DEF Shape
    <3> HIDE DEF t
    <3>2. Len(t) \in Nat /\ DOMAIN t = 1..Len(t) /\ \A k \in 1..Len(t) : t[k] \in Range(t)
      BY <3>1 DEF Range
    <3> QED
      BY <3>1, <3>2
  <2> HIDE DEF t
  <2>8. \A k \in DOMAIN m.syms \ {i} : ~IsSymbol(m.syms[k], name, kind)
    BY <2>1 DEF IsSymbol
  <2>9. IsSymbol(m.syms[i], name, kind)
    BY <2>1 DEF IsSymbol
  <2>10. t[i] = symbol(m.syms[i].exported)
    BY <2>6 DEF x
  <2> HIDE DEF n, symbol
  <2>11. DOMAIN t = DOMAIN m.syms \cup {i}
    BY <2>1, <2>6
  <2>12. Goal(t, i)
    <3> DEFINE was == m.syms[i].exported
    <3>1. t[i] = symbol(was) /\ (was <=> i \in DOMAIN m.syms /\ m.syms[i].exported)
      BY <2>1, <2>10
    <3> HIDE DEF Goal, was
    <3> QED
      BY <1>1, <2>4, <2>6, <2>7, <2>8, <2>9, <2>11, <3>1
  <2> QED
    BY <2>6, <2>8, <2>9, <2>11, <2>12 DEF n
<1> QED
  BY <1>2, <1>3

\* A declaration enters its name, and a function's or a struct's at once as exported.
LEMMA UpsertTells ==
  ASSUME NEW m, Shape(m), NEW F, Tell(m, F), NEW name, NEW kind, NEW exported \in BOOLEAN, NEW G,
         exported /\ kind = "Func" => G = F \cup {name}, ~(exported /\ kind = "Func") => G = F,
         kind = "Struct" => exported, exported => kind \in {"Struct", "Func"}
  PROVE  LET n == upsertSymbol(m, name, kind, exported) IN
         /\ Shape(n) /\ Tell(n, G) /\ Has(n, name, kind)
         /\ n.exported = m.exported /\ n.kits = m.kits /\ n.kits_items = m.kits_items
<1> DEFINE n == upsertSymbol(m, name, kind, exported)
<1> HIDE DEF n
<1>1. \A j, k \in DOMAIN m.syms : IsSymbol(m.syms[j], m.syms[k].name, m.syms[k].kind) => j = k
  BY DEF Tell
<1>2. Shape(n) /\ n.exported = m.exported /\ n.kits = m.kits /\ n.kits_items = m.kits_items
  BY <1>1, UpsertIs DEF n
<1>3. PICK i :
              /\ DOMAIN n.syms = DOMAIN m.syms \cup {i}
              /\ IsSymbol(n.syms[i], name, kind)
              /\ \A k \in DOMAIN m.syms \ {i} : n.syms[k] = m.syms[k] /\ ~IsSymbol(m.syms[k], name, kind)
              /\ i \in DOMAIN m.syms => IsSymbol(m.syms[i], name, kind)
              /\ n.syms[i].exported <=>
                   exported \/ name \in m.exported \/ (i \in DOMAIN m.syms /\ m.syms[i].exported)
  BY <1>1, UpsertIs DEF n
<1>4. \A j, k \in DOMAIN n.syms : IsSymbol(n.syms[j], n.syms[k].name, n.syms[k].kind) => j = k
  BY <1>1, <1>3 DEF IsSymbol
<1>5. ASSUME NEW k \in DOMAIN n.syms
      PROVE  n.syms[k].exported <=>
               \/ n.syms[k].name \in n.exported \/ n.syms[k].kind = "Struct"
               \/ n.syms[k].kind = "Func" /\ n.syms[k].name \in G
  <2>1. CASE k # i
    <3>1. n.syms[k] = m.syms[k] /\ k \in DOMAIN m.syms /\ ~IsSymbol(m.syms[k], name, kind)
      BY <1>3, <1>5, <2>1
    <3>2. m.syms[k].exported <=>
            \/ m.syms[k].name \in m.exported \/ m.syms[k].kind = "Struct"
            \/ m.syms[k].kind = "Func" /\ m.syms[k].name \in F
      BY <3>1 DEF Tell
    <3>3. m.syms[k].kind = "Func" => (m.syms[k].name \in F <=> m.syms[k].name \in G)
      BY <3>1 DEF IsSymbol
    <3> QED
      BY <1>2, <3>1, <3>2, <3>3
  <2>2. CASE k = i
    <3>1. n.syms[i].name = name /\ n.syms[i].kind = kind
      BY <1>3 DEF IsSymbol
    <3>2. i \in DOMAIN m.syms =>
            (m.syms[i].exported <=> name \in m.exported \/ kind = "Struct" \/ (kind = "Func" /\ name \in F))
      BY <1>3 DEF IsSymbol, Tell
    <3>3. name \in F /\ kind = "Func" => i \in DOMAIN m.syms
      BY <1>3 DEF Tell, Has
    <3>4. exported \/ name \in m.exported \/ (i \in DOMAIN m.syms /\ m.syms[i].exported) <=>
            name \in m.exported \/ kind = "Struct" \/ (kind = "Func" /\ name \in G)
      BY <3>2, <3>3
    <3> QED
      BY <1>2, <1>3, <2>2, <3>1, <3>4
  <2> QED
    BY <2>1, <2>2
<1>6. \A a, b : Has(m, a, b) => Has(n, a, b)
  BY <1>3 DEF Has, IsSymbol
<1>7. Has(n, name, kind)
  BY <1>3 DEF Has
<1>8. \A a \in G : Has(n, a, "Func")
  BY <1>6, <1>7 DEF Tell
<1>9. \A k \in DOMAIN n.kits : Has(n, n.kits[k].name, "Kits")
  BY <1>2, <1>6 DEF Tell
<1> QED
  BY <1>2, <1>4, <1>5, <1>7, <1>8, <1>9 DEF Tell, n

LEMMA MarkIs ==
  ASSUME NEW s, s = [name |-> s.name, kind |-> s.kind, owner |-> s.owner, exported |-> s.exported],
         NEW r, NEW names, r = [s EXCEPT !.exported = @ \/ s.name \in names]
  PROVE  /\ r = [name |-> r.name, kind |-> r.kind, owner |-> r.owner, exported |-> r.exported]
         /\ r.name = s.name /\ r.kind = s.kind
         /\ r.exported <=> s.exported \/ s.name \in names
<1> DEFINE b == s.exported \/ s.name \in names
<1>1. b \in BOOLEAN /\ r = [s EXCEPT !.exported = b]
  OBVIOUS
<1> HIDE DEF b
<1>2. /\ r = [name |-> r.name, kind |-> r.kind, owner |-> r.owner, exported |-> r.exported]
      /\ r.name = s.name /\ r.kind = s.kind /\ r.exported = b
  BY <1>1
<1>3. r.exported <=> b
  BY <1>1, <1>2, Zenon
<1> QED
  BY <1>2, <1>3 DEF b

\* An export marks the symbols there are, and is remembered for those to come.
LEMMA MarkTells ==
  ASSUME NEW m, Shape(m), NEW F, Tell(m, F), NEW names
  PROVE  LET n == markExported(m, names) IN
         Shape(n) /\ Tell(n, F) /\ n.kits = m.kits /\ n.kits_items = m.kits_items
<1> DEFINE n == markExported(m, names)
           marked(s) == [s EXCEPT !.exported = @ \/ s.name \in names]
           t == [k \in DOMAIN m.syms |-> marked(m.syms[k])]
<1>1. n = [m EXCEPT !.exported = @ \cup names, !.syms = [k \in DOMAIN @ |-> marked(@[k])]]
  BY DEF markExported
<1>2. ASSUME NEW k \in DOMAIN m.syms
      PROVE  /\ t[k] = [name |-> t[k].name, kind |-> t[k].kind, owner |-> t[k].owner, exported |-> t[k].exported]
             /\ t[k].name = m.syms[k].name /\ t[k].kind = m.syms[k].kind
             /\ t[k].exported <=> m.syms[k].exported \/ m.syms[k].name \in names
  <2>1. t[k] = marked(m.syms[k])
    OBVIOUS
  <2>2. m.syms[k] = [name |-> m.syms[k].name, kind |-> m.syms[k].kind, owner |-> m.syms[k].owner,
                     exported |-> m.syms[k].exported]
    BY DEF Shape
  <2> HIDE DEF t
  <2> QED
    BY <2>1, <2>2, MarkIs
<1>3. DOMAIN t = DOMAIN m.syms
  OBVIOUS
<1> HIDE DEF n, t
<1>4. t \in Seq(Range(t))
  <2>1. DOMAIN m.syms = 1..Len(m.syms) /\ Len(m.syms) \in Nat
    BY DEF Shape
  <2>2. \A k \in 1..Len(m.syms) : t[k] \in Range(t)
    BY <2>1, <1>3 DEF Range
  <2>3. t = [k \in 1..Len(m.syms) |-> t[k]]
    BY <2>1, <1>3 DEF t
  <2>4. [k \in 1..Len(m.syms) |-> t[k]] \in Seq(Range(t))
    BY <2>1, <2>2
  <2> QED
    BY <2>3, <2>4
<1>5. /\ n.syms = t /\ n.exported = m.exported \cup names /\ n.kits = m.kits /\ n.kits_items = m.kits_items
      /\ n = [syms |-> n.syms, exported |-> n.exported, kits |-> n.kits, kits_items |-> n.kits_items,
              components |-> n.components, module |-> n.module]
  <2> HIDE DEF marked
  <2> QED
    BY <1>1 DEF Shape, t
<1>6. Shape(n)
  BY <1>5, <1>2, <1>3, <1>4 DEF Shape
<1>7. \A j, k \in DOMAIN n.syms : IsSymbol(n.syms[j], n.syms[k].name, n.syms[k].kind) => j = k
  <2>1. \A k \in DOMAIN m.syms : t[k].name = m.syms[k].name /\ t[k].kind = m.syms[k].kind
    BY <1>2
  <2>2. \A j, k \in DOMAIN m.syms :
          m.syms[j].name = m.syms[k].name /\ m.syms[j].kind = m.syms[k].kind => j = k
    BY DEF Tell, IsSymbol
  <2> QED
    BY <1>5, <1>3, <2>1, <2>2 DEF IsSymbol
<1>8. ASSUME NEW k \in DOMAIN n.syms
      PROVE  n.syms[k].exported <=>
               \/ n.syms[k].name \in n.exported \/ n.syms[k].kind = "Struct"
               \/ n.syms[k].kind = "Func" /\ n.syms[k].name \in F
  <2>1. k \in DOMAIN m.syms /\ n.syms[k] = t[k]
    BY <1>5, <1>3
  <2>2. m.syms[k].exported <=>
            \/ m.syms[k].name \in m.exported \/ m.syms[k].kind = "Struct"
            \/ m.syms[k].kind = "Func" /\ m.syms[k].name \in F
    BY <2>1 DEF Tell
  <2>3. /\ t[k].name = m.syms[k].name /\ t[k].kind = m.syms[k].kind
        /\ t[k].exported <=> m.syms[k].exported \/ m.syms[k].name \in names
    BY <1>2, <2>1
  <2>4. t[k].name \in n.exported <=> m.syms[k].name \in m.exported \/ m.syms[k].name \in names
    BY <1>5, <2>3
  <2> QED
    BY <2>1, <2>2, <2>3, <2>4
<1>9. \A a, b : Has(m, a, b) => Has(n, a, b)
  BY <1>5, <1>2, <1>3 DEF Has, IsSymbol
<1> QED
  BY <1>5, <1>6, <1>7, <1>8, <1>9 DEF Tell, n

-----------------------------------------------------------------------------
LEMMA AliasesDiffer ==
  ASSUME NEW s, s \in Seq(Range(s)), ~(Cardinality({s[k].alias : k \in DOMAIN s}) < Len(s)),
         NEW j \in DOMAIN s, NEW k \in DOMAIN s, s[j].alias = s[k].alias
  PROVE  j = k
<1> DEFINE D == 1..Len(s)
           A == {s[i].alias : i \in DOMAIN s}
           f == [i \in D |-> s[i].alias]
<1>1. Len(s) \in Nat /\ DOMAIN s = D
  OBVIOUS
<1>2. IsFiniteSet(D) /\ Cardinality(D) = Len(s)
  <2>1. \A n \in Nat : IsFiniteSet(1..n) /\ Cardinality(1..n) = n
    <3>1. \A n \in Nat : IsFiniteSet(1..n) /\ Cardinality(1..n) = IF 1 > n THEN 0 ELSE n - 1 + 1
      BY FS_Interval
    <3> QED
      BY <3>1
  <2> QED
    BY <1>1, <2>1
<1>3. f \in Surjection(D, A)
  <2>1. f \in [D -> A]
    BY <1>1
  <2>2. \A a \in A : \E i \in D : f[i] = a
    BY <1>1
  <2> HIDE DEF f, A, D
  <2> QED
    BY <2>1, <2>2 DEF Surjection
<1>4. ~(Cardinality(A) < Len(s)) /\ j \in D /\ k \in D /\ f[j] = f[k]
  BY <1>1
<1> HIDE DEF D, A, f
<1>5. IsFiniteSet(A) /\ Cardinality(A) =< Cardinality(D)
      /\ (Cardinality(A) = Cardinality(D) <=> f \in Injection(D, A))
  BY <1>2, <1>3, FS_Surjection
<1>6. Cardinality(A) \in Nat
  BY <1>5, FS_CardinalityType
<1>7. Cardinality(A) = Cardinality(D)
  BY <1>1, <1>2, <1>4, <1>5, <1>6
<1> QED
  BY <1>4, <1>5, <1>7 DEF Injection, IsInjective

LEMMA WindowOK ==
  ASSUME NEW b, Len(b.kits_items) \in Nat, NEW w, w.first \in Nat, w.count \in Nat
  PROVE  KitsIssues(b, w) = {} <=>
           /\ w.first + w.count =< Len(b.kits_items)
           /\ \A j, k \in ItemsOf(w) : b.kits_items[j].alias = b.kits_items[k].alias => j = k
<1> DEFINE end  == w.first + w.count
           len  == Len(b.kits_items)
           twice == \E j, k \in ItemsOf(w) : j # k /\ b.kits_items[j].alias = b.kits_items[k].alias
<1>1. end \in Nat /\ len \in Nat
  OBVIOUS
<1>2. KitsIssues(b, w) = CASE end > len -> {"KitsItemSpanOutOfRange"}
                           [] end <= len /\ twice -> {"KitsDuplicateAliasInWindow"}
                           [] OTHER -> {}
  BY DEF KitsIssues
<1>3. ~twice <=> \A j, k \in ItemsOf(w) : b.kits_items[j].alias = b.kits_items[k].alias => j = k
  OBVIOUS
<1> HIDE DEF end, len, twice
<1>4. KitsIssues(b, w) = {} <=> end =< len /\ ~twice
  BY <1>1, <1>2
<1> QED
  BY <1>3, <1>4 DEF end, len

LEMMA AdjoinStays ==
  ASSUME NEW m, NEW n, n.kits = m.kits, n.kits_items = m.kits_items, Adjoin(m)
  PROVE  Adjoin(n)
<1>1. \A w : KitsIssues(n, w) = KitsIssues(m, w)
  BY DEF KitsIssues
<1> QED
  BY <1>1 DEF Adjoin, WindowEnd

\* The window of a declaration begins where the table ended.
LEMMA KitsTells ==
  ASSUME NEW m, Shape(m), Adjoin(m), NEW F, Tell(m, F), NEW d, d.members \in Seq(Range(d.members)),
         ~(Cardinality(Aliases(d)) < Len(d.members)), Has(m, d.name, "Kits")
  PROVE  LET n == buildKitsDecl(m, d) IN Shape(n) /\ Adjoin(n) /\ Tell(n, F)
<1> DEFINE n == buildKitsDecl(m, d)
           w == [name |-> d.name, owner |-> m.module, first |-> Len(m.kits_items), count |-> Len(d.members)]
           items == m.kits_items \o d.members
           K == Append(m.kits, w)
           last == Len(m.kits) + 1
           l == Len(m.kits_items)
           c == Len(d.members)
<1>1. n = [m EXCEPT !.kits_items = items, !.kits = K]
  BY DEF buildKitsDecl
<1>2. w.name = d.name /\ w.first = l /\ w.count = c
  OBVIOUS
<1>3. l \in Nat /\ c \in Nat /\ DOMAIN d.members = 1..c
  BY DEF Shape
<1>4. /\ K \in Seq(Range(K)) /\ Len(m.kits) \in Nat /\ DOMAIN m.kits = 1..Len(m.kits)
      /\ Len(K) = last /\ DOMAIN K = DOMAIN m.kits \cup {last} /\ last \notin DOMAIN m.kits
      /\ K[last] = w /\ \A k \in DOMAIN m.kits : K[k] = m.kits[k]
  BY AddedIs DEF Shape
<1>5. /\ items \in Seq(Range(items)) /\ Len(items) = l + c
      /\ \A k \in 1..l : items[k] = m.kits_items[k]
      /\ \A k \in 1..c : items[l + k] = d.members[k]
  <2> DEFINE S == Range(m.kits_items) \cup Range(d.members)
  <2>1. m.kits_items \in Seq(S) /\ d.members \in Seq(S)
    BY DEF Shape
  <2>2. /\ items \in Seq(S) /\ Len(items) = l + c
        /\ \A k \in 1..l : items[k] = m.kits_items[k]
        /\ \A k \in 1..c : items[l + k] = d.members[k]
    <3> DEFINE s == m.kits_items
               t == d.members
    <3>1. s \in Seq(S) /\ t \in Seq(S)
      BY <2>1
    <3> HIDE DEF S, s, t
    <3>2. /\ s \o t \in Seq(S) /\ Len(s \o t) = Len(s) + Len(t)
          /\ \A k \in 1..Len(s) : (s \o t)[k] = s[k]
          /\ \A k \in 1..Len(t) : (s \o t)[Len(s) + k] = t[k]
      BY <3>1
    <3> QED
      BY <3>2 DEF s, t
  <2> HIDE DEF items, l, c
  <2>4. \A k \in 1..Len(items) : items[k] \in Range(items)
    BY <2>2 DEF Range
  <2> QED
    BY <1>3, <2>2, <2>4
<1> HIDE DEF n, w, items, K, l, c
<1>6. /\ n.syms = m.syms /\ n.exported = m.exported /\ n.kits = K /\ n.kits_items = items
      /\ n = [syms |-> n.syms, exported |-> n.exported, kits |-> n.kits, kits_items |-> n.kits_items,
              components |-> n.components, module |-> n.module]
  BY <1>1 DEF Shape
<1> HIDE DEF last
<1>7. \A k \in DOMAIN K : K[k].first \in Nat /\ K[k].count \in Nat
  BY <1>2, <1>3, <1>4 DEF Shape
<1>8. Shape(n)
  BY <1>4, <1>5, <1>6, <1>7 DEF Shape
<1>9. \A k \in DOMAIN n.kits : Has(n, n.kits[k].name, "Kits")
  <2>1. \A a : Has(m, a, "Kits") <=> Has(n, a, "Kits")
    BY <1>6 DEF Has
  <2>2. \A k \in DOMAIN m.kits : Has(m, m.kits[k].name, "Kits")
    BY DEF Tell
  <2> QED
    BY <1>2, <1>4, <1>6, <2>1, <2>2
<1>10. Tell(n, F)
  <2>1. \A a : Has(m, a, "Func") <=> Has(n, a, "Func")
    BY <1>6 DEF Has
  <2> QED
    BY <1>6, <1>9, <2>1 DEF Tell
<1>11. l = Len(m.kits_items) /\ Len(n.kits_items) = l + c /\ Len(n.kits) = last
  BY <1>4, <1>5, <1>6 DEF l
<1>12. \A k \in 0..Len(m.kits) : WindowEnd(n, k) = WindowEnd(m, k)
  BY <1>4, <1>6 DEF WindowEnd
<1>13. WindowEnd(n, last) = Len(n.kits_items)
  <2>1. last # 0
    BY <1>4 DEF last
  <2>2. n.kits[last] = w
    BY <1>4, <1>6
  <2>3. WindowEnd(n, last) = w.first + w.count
    BY <2>1, <2>2 DEF WindowEnd
  <2> QED
    BY <1>2, <1>11, <2>3
<1>14. ASSUME NEW k \in DOMAIN n.kits
       PROVE  n.kits[k].first = WindowEnd(n, k - 1) /\ KitsIssues(n, n.kits[k]) = {}
  <2>1. CASE k \in DOMAIN m.kits
    <3> DEFINE v == m.kits[k]
    <3>1. n.kits[k] = v /\ v.first = WindowEnd(m, k - 1) /\ KitsIssues(m, v) = {}
      BY <1>4, <1>6, <2>1 DEF Adjoin
    <3>2. v.first \in Nat /\ v.count \in Nat
      BY <2>1 DEF Shape
    <3>3. k - 1 \in 0..Len(m.kits)
      BY <1>4, <2>1
    <3> HIDE DEF v
    <3>4. v.first + v.count =< l /\ \A i, j \in ItemsOf(v) : m.kits_items[i].alias = m.kits_items[j].alias => i = j
      BY <1>3, <1>11, <3>1, <3>2, WindowOK
    <3>5. \A i \in ItemsOf(v) : n.kits_items[i] = m.kits_items[i]
      BY <1>3, <1>5, <1>6, <3>2, <3>4 DEF ItemsOf
    <3>6. v.first + v.count =< Len(n.kits_items)
      BY <1>3, <1>11, <3>2, <3>4
    <3>7. Len(n.kits_items) \in Nat
      BY <1>3, <1>11
    <3>8. KitsIssues(n, v) = {}
      BY <3>2, <3>4, <3>5, <3>6, <3>7, WindowOK
    <3> QED
      BY <1>12, <3>1, <3>3, <3>8
  <2>2. CASE k = last
    <3>1. n.kits[k] = w /\ k - 1 = Len(m.kits) /\ Len(m.kits) \in 0..Len(m.kits)
      BY <1>4, <1>6, <2>2 DEF last
    <3>2. w.first = WindowEnd(n, k - 1)
      BY <1>2, <1>11, <1>12, <3>1 DEF Adjoin
    <3>3. ASSUME NEW i \in ItemsOf(w), NEW j \in ItemsOf(w), n.kits_items[i].alias = n.kits_items[j].alias
          PROVE  i = j
      <4>1. i - l \in 1..c /\ j - l \in 1..c /\ i = l + (i - l) /\ j = l + (j - l)
        BY <1>2, <1>3, <3>3 DEF ItemsOf
      <4>2. n.kits_items[i] = d.members[i - l] /\ n.kits_items[j] = d.members[j - l]
        BY <1>5, <1>6, <4>1
      <4>3. i - l = j - l
        <5>1. i - l \in DOMAIN d.members /\ j - l \in DOMAIN d.members
          BY <1>3, <4>1
        <5>2. d.members[i - l].alias = d.members[j - l].alias
          BY <3>3, <4>2
        <5>3. ~(Cardinality({d.members[q].alias : q \in DOMAIN d.members}) < Len(d.members))
          BY DEF Aliases
        <5> QED
          BY <5>1, <5>2, <5>3, AliasesDiffer
      <4> QED
        BY <1>3, <4>1, <4>3
    <3>4. w.first \in Nat /\ w.count \in Nat /\ Len(n.kits_items) \in Nat /\ w.first + w.count =< Len(n.kits_items)
      BY <1>2, <1>3, <1>11
    <3>5. KitsIssues(n, w) = {}
      BY <3>3, <3>4, WindowOK
    <3> QED
      BY <3>1, <3>2, <3>5
  <2> QED
    BY <1>4, <1>6, <2>1, <2>2
<1>15. Adjoin(n)
  BY <1>11, <1>13, <1>14 DEF Adjoin
<1> QED
  BY <1>8, <1>10, <1>15 DEF n

-----------------------------------------------------------------------------
LEMMA RestStays ==
  ASSUME NEW m, Shape(m), Adjoin(m), NEW F, Tell(m, F), NEW x, NEW n,
         n = [m EXCEPT !.module = x] \/ n = [m EXCEPT !.components = x]
  PROVE  Shape(n) /\ Adjoin(n) /\ Tell(n, F)
<1>1. /\ n.syms = m.syms /\ n.exported = m.exported /\ n.kits = m.kits /\ n.kits_items = m.kits_items
      /\ n = [syms |-> n.syms, exported |-> n.exported, kits |-> n.kits, kits_items |-> n.kits_items,
              components |-> n.components, module |-> n.module]
  BY DEF Shape
<1>2. Shape(n)
  BY <1>1 DEF Shape
<1>3. \A a, b : Has(n, a, b) <=> Has(m, a, b)
  BY <1>1 DEF Has
<1>4. Tell(n, F)
  BY <1>1, <1>3 DEF Tell
<1> QED
  BY <1>1, <1>2, <1>4, AdjoinStays

LEMMA OtherTells ==
  ASSUME NEW m, Shape(m), Adjoin(m), NEW F, Tell(m, F), NEW d, Typed(d),
         d.node = "KitsDecl" => ~(Cardinality(Aliases(d)) < Len(d.members))
  PROVE  LET n == buildOtherDecl(m, d) IN Shape(n) /\ Adjoin(n) /\ Tell(n, F)
<1> DEFINE n == buildOtherDecl(m, d)
<1> SUFFICES Shape(n) /\ Adjoin(n) /\ Tell(n, F)
  OBVIOUS
<1>1. ASSUME NEW kind, kind \in {"Struct", "Component", "Kits", "Func", "External"}
      PROVE  LET u == upsertSymbol(m, d.name, kind, kind = "Struct") IN
             Shape(u) /\ Adjoin(u) /\ Tell(u, F) /\ Has(u, d.name, kind)
  <2> DEFINE b == kind = "Struct"
             u == upsertSymbol(m, d.name, kind, b)
  <2>1. /\ b \in BOOLEAN /\ (kind = "Struct" => b) /\ (b => kind \in {"Struct", "Func"})
        /\ ~(b /\ kind = "Func")
    BY <1>1
  <2>2. Shape(u) /\ Tell(u, F) /\ Has(u, d.name, kind) /\ u.kits = m.kits /\ u.kits_items = m.kits_items
    <3> HIDE DEF b, n
    <3> QED
      BY <2>1, UpsertTells
  <2> HIDE DEF u
  <2>3. Adjoin(u)
    BY <2>2, AdjoinStays
  <2> QED
    BY <2>2, <2>3 DEF u, b
<1>2. CASE d.node = "StructDecl"
  <2>1. n = upsertSymbol(m, d.name, "Struct", TRUE)
    BY <1>2 DEF buildOtherDecl
  <2> DEFINE kind == "Struct"
  <2>2. n = upsertSymbol(m, d.name, kind, kind = "Struct") /\ kind \in {"Struct", "Component", "Kits", "Func", "External"}
    BY <2>1
  <2> HIDE DEF kind, n
  <2> QED
    BY <1>1, <2>2
<1>3. ASSUME NEW kind, kind \in {"Component", "Kits", "Func", "External"}, NEW u, u = upsertSymbol(m, d.name, kind, FALSE)
      PROVE  Shape(u) /\ Adjoin(u) /\ Tell(u, F) /\ Has(u, d.name, kind)
  <2>1. (kind = "Struct") = FALSE /\ kind \in {"Struct", "Component", "Kits", "Func", "External"}
    BY <1>3
  <2> HIDE DEF n
  <2> QED
    BY <1>1, <1>3, <2>1
<1>4. CASE d.node \in {"SystemDecl", "FlowDecl"}
  <2>1. n = upsertSymbol(m, d.name, "Func", FALSE)
    BY <1>4 DEF buildOtherDecl
  <2> HIDE DEF n
  <2> QED
    BY <1>3, <2>1
<1>5. CASE d.node = "TagDecl"
  <2>1. n = upsertSymbol(m, d.name, "External", FALSE)
    BY <1>5 DEF buildOtherDecl
  <2> HIDE DEF n
  <2> QED
    BY <1>3, <2>1
<1>6. CASE d.node = "ComponentDecl"
  <2> DEFINE u == upsertSymbol(m, d.name, "Component", FALSE)
             x == Append(u.components, [name |-> d.name, owner |-> u.module, promoted |-> d.promoted])
  <2>1. n = [u EXCEPT !.components = x]
    BY <1>6 DEF buildOtherDecl, buildComponentDecl
  <2> HIDE DEF n, x
  <2>2. Shape(u) /\ Adjoin(u) /\ Tell(u, F)
    BY <1>3
  <2> HIDE DEF u
  <2> QED
    BY <2>1, <2>2, RestStays
<1>7. CASE d.node = "KitsDecl"
  <2> DEFINE u == upsertSymbol(m, d.name, "Kits", FALSE)
  <2>1. n = buildKitsDecl(u, d)
    BY <1>7 DEF buildOtherDecl
  <2>2. d.members \in Seq(Range(d.members)) /\ ~(Cardinality(Aliases(d)) < Len(d.members))
    BY <1>7 DEF Typed
  <2>3. Shape(u) /\ Adjoin(u) /\ Tell(u, F) /\ Has(u, d.name, "Kits")
    <3> HIDE DEF n
    <3> QED
      BY <1>3
  <2> HIDE DEF n, u
  <2> QED
    BY <2>1, <2>2, <2>3, KitsTells
<1>8. CASE d.node = "ExportDecl"
  <2> DEFINE names == {d.items[k][1] : k \in DOMAIN d.items}
  <2>1. n = markExported(m, names)
    BY <1>8 DEF buildOtherDecl
  <2> HIDE DEF n, names
  <2>2. Shape(n) /\ Tell(n, F) /\ n.kits = m.kits /\ n.kits_items = m.kits_items
    BY <2>1, MarkTells
  <2> QED
    BY <2>2, AdjoinStays
<1>9. CASE d.node \notin {"StructDecl", "ComponentDecl", "KitsDecl", "SystemDecl", "FlowDecl", "TagDecl", "ExportDecl"}
  <2>1. n = m
    BY <1>9 DEF buildOtherDecl
  <2> HIDE DEF n
  <2> QED
    BY <2>1
<1> QED
  BY <1>2, <1>4, <1>5, <1>6, <1>7, <1>8, <1>9

-----------------------------------------------------------------------------
FuncsStill ==
  funcs' = funcs \/ \E v, c : funcs' = [funcs EXCEPT ![Len(funcs)] = [Function EXCEPT !.next_vreg = v, !.count = c]]

\* No expression and no statement declares anything.
LEMMA CodeDeclaresNothing ==
  ASSUME buildExpr \/ buildStmt
  PROVE  meta' = meta /\ FuncsStill
<1>1. \A fresh, more, is : emit(fresh, more, is) => FuncsStill
  BY DEF emit, FuncsStill
<1>2. UNCHANGED code => FuncsStill
  BY DEF code, FuncsStill
<1>3. UNCHANGED funcs => FuncsStill
  BY DEF FuncsStill
<1>4. \A what : error(what) => meta' = meta /\ FuncsStill
  BY <1>2 DEF error
<1>5. \A fresh, is : Result(fresh, is) \/ Effect(is) => meta' = meta /\ FuncsStill
  BY <1>1 DEF Result, Effect
<1>6. \A kind, size, fill : buildContainer(kind, size, fill) => meta' = meta /\ FuncsStill
  BY <1>1 DEF buildContainer
<1>7. CASE buildExpr
  <2>1. CASE buildOperand \/ deliver
    BY <1>2, <2>1 DEF buildOperand, deliver
  <2>2. CASE buildLiteral \/ buildIdentifier \/ buildBinary \/ buildUnary
    BY <1>2, <1>4, <1>5, <2>2 DEF buildLiteral, buildIdentifier, buildBinary, buildUnary
  <2>3. CASE buildCall \/ pushElement \/ setPair \/ buildIndex \/ buildMember
    BY <1>5, <2>3 DEF buildCall, pushElement, setPair, buildIndex, buildMember
  <2>4. CASE buildArray \/ buildMap \/ unsupportedExpr
    BY <1>4, <1>6, <2>4 DEF buildArray, buildMap, unsupportedExpr
  <2> QED
    BY <1>7, <2>1, <2>2, <2>3, <2>4 DEF buildExpr
<1>8. CASE buildStmt
  <2>1. CASE initVar \/ leave \/ jumpOn
    BY <1>5, <2>1 DEF initVar, leave, jumpOn
  <2>2. CASE resolveTarget \/ assign
    BY <1>1, <1>2, <1>4, <1>5, <2>2 DEF resolveTarget, assign
  <2>3. CASE buildBreak \/ buildContinue
    BY <1>1, <1>4, <1>5, <2>3 DEF buildBreak, buildContinue
  <2>4. CASE declareVar \/ freeNext \/ buildIf \/ enterLoop \/ testLoop
    BY <1>1, <1>2, <2>4 DEF declareVar, freeNext, buildIf, enterLoop, testLoop
  <2>5. CASE openBlock \/ nextInBlock \/ closeBlock \/ buildReturn \/ enterArm \/ switchBlock \/ skipStmt
    BY <1>2, <2>5 DEF openBlock, nextInBlock, closeBlock, buildReturn, enterArm, switchBlock, skipStmt
  <2>6. CASE exitLoop
    BY <1>3, <2>6 DEF exitLoop
  <2> QED
    BY <1>8, <2>1, <2>2, <2>3, <2>4, <2>5, <2>6 DEF buildStmt
<1> QED
  BY <1>7, <1>8

LEMMA FunctionsNamed ==
  ASSUME NEW f, Here(f), FuncsStill \/ bindParameter
  PROVE  FuncNames' = FuncNames
<1>1. funcs \in Seq(FuncRecord)
  BY DEF Here, Going, Tables, Spans, ModuleIR
<1>2. funcs # <<>> => Function \in FuncRecord
  BY <1>1 DEF Function, Last
<1>3. CASE funcs' = funcs
  BY <1>3 DEF FuncNames
<1>4. ASSUME NEW v, NEW c, NEW g,
             g = [Function EXCEPT !.next_vreg = v, !.count = c] \/ g = [Function EXCEPT !.next_vreg = v, !.arity = c],
             funcs' = [funcs EXCEPT ![Len(funcs)] = g]
      PROVE  FuncNames' = FuncNames
  <2> DEFINE h == Function
             s == funcs
             t == funcs'
  <2>1. s \in Seq(FuncRecord) /\ h = Last(s) /\ t = [s EXCEPT ![Len(s)] = g]
    BY <1>1, <1>4 DEF Function
  <2>2. s # <<>> => g.name = h.name
    <3>1. h \in FuncRecord => g.name = h.name
      <4>1. g = [h EXCEPT !.next_vreg = v, !.count = c] \/ g = [h EXCEPT !.next_vreg = v, !.arity = c]
        BY <1>4
      <4> HIDE DEF h
      <4> QED
        BY <4>1 DEF FuncRecord
    <3> QED
      BY <1>2, <3>1
  <2> HIDE DEF h, s, t
  <2>3. {t[i].name : i \in DOMAIN t} = {s[i].name : i \in DOMAIN s}
    <3>1. Len(s) \in Nat /\ DOMAIN s = 1..Len(s) /\ DOMAIN t = DOMAIN s /\ h = s[Len(s)]
      BY <2>1 DEF Last
    <3>2. ASSUME NEW i \in DOMAIN s
          PROVE  t[i].name = s[i].name
      <4>1. s # <<>> /\ Len(s) \in DOMAIN s
        BY <3>1
      <4>2. CASE i = Len(s)
        BY <2>1, <2>2, <3>1, <4>1, <4>2
      <4>3. CASE i # Len(s)
        BY <2>1, <4>3
      <4> QED
        BY <4>2, <4>3
    <3> QED
      BY <3>1, <3>2
  <2> QED
    BY <2>3 DEF s, t, FuncNames
<1>5. CASE bindParameter
  <2>1. funcs' = [funcs EXCEPT ![Len(funcs)] = [Function EXCEPT !.next_vreg = Function.next_vreg + 1,
                                                                !.arity = Function.arity + 1]]
    BY <1>5 DEF bindParameter
  <2> QED
    BY <2>1, <1>4
<1> QED
  BY <1>3, <1>4, <1>5 DEF FuncsStill

\* What the module declares, as long as nothing was reported.
MetaInv == errors = {} => Shape(meta) /\ Adjoin(meta) /\ Tell(meta, FuncNames)

LEMMA NothingDeclared ==
  ASSUME NEW name
  PROVE  Shape(NoMeta(name)) /\ Adjoin(NoMeta(name)) /\ Tell(NoMeta(name), {})
<1> DEFINE m == NoMeta(name)
           none == <<>>
<1>1. none \in Seq(Range(none)) /\ Len(none) = 0 /\ DOMAIN none = {}
  BY None
<1>2. /\ m.syms = none /\ m.kits = none /\ m.kits_items = none
      /\ m = [syms |-> m.syms, exported |-> m.exported, kits |-> m.kits, kits_items |-> m.kits_items,
              components |-> m.components, module |-> m.module]
  BY DEF NoMeta
<1> HIDE DEF m, none
<1>3. Shape(m)
  BY <1>1, <1>2 DEF Shape
<1>4. Adjoin(m)
  BY <1>1, <1>2 DEF Adjoin, WindowEnd
<1>5. Tell(m, {})
  BY <1>1, <1>2 DEF Tell
<1> QED
  BY <1>3, <1>4, <1>5 DEF m

LEMMA DeclarationsKept ==
  ASSUME BuildInv, MetaInv, step
  PROVE  MetaInv'
<1> SUFFICES ASSUME errors' = {}
             PROVE  (Shape(meta) /\ Adjoin(meta) /\ Tell(meta, FuncNames))'
  BY DEF MetaInv
<1>1. errors = {}
  BY ErrorsStay
<1>2. Shape(meta) /\ Adjoin(meta) /\ Tell(meta, FuncNames)
  BY <1>1 DEF MetaInv
<1> DEFINE f == todo[1]
           d == f.node
           m == meta
           n == meta'
           F == FuncNames
           G == FuncNames'
<1>3. Here(f)
  BY <1>1, SomethingToDo DEF BuildInv, Here
<1>4. f = Top /\ Typed(d)
  BY <1>3, TopIs, NodeOfDecl
<1> HIDE DEF f
<1>5. \A what : ~error(what)
  BY DEF error
<1> SUFFICES Shape(n) /\ Adjoin(n) /\ Tell(n, G)
  OBVIOUS
<1>6. FuncsStill \/ bindParameter => G = F
  BY <1>3, FunctionsNamed
<1>7. UNCHANGED code => FuncsStill
  BY DEF code, FuncsStill
<1>8. Shape(m) /\ Adjoin(m) /\ Tell(m, F)
  BY <1>2
<1> HIDE DEF m, n, F, G, d
<1>9. CASE buildExpr \/ buildStmt
  <2>1. n = m
    BY <1>9, CodeDeclaresNothing DEF m, n
  <2> QED
    BY <1>6, <1>8, <1>9, <2>1, CodeDeclaresNothing
<1>10. CASE bindParameter \/ endFunc \/ enterExport
  <2>1. n = m
    BY <1>10 DEF m, n, bindParameter, endFunc, enterExport
  <2>2. G = F
    BY <1>6, <1>7, <1>10 DEF endFunc, enterExport
  <2> QED
    BY <1>8, <2>1, <2>2
<1>11. CASE enterModule \/ endModule
  <2>1. \E x : n = [m EXCEPT !.module = x]
    BY <1>11 DEF m, n, enterModule, endModule
  <2>2. G = F
    BY <1>6, <1>7, <1>11 DEF enterModule, endModule
  <2> QED
    BY <1>8, <2>1, <2>2, RestStays
<1>12. CASE exportWrapped
  <2>1. n = m \/ \E names : n = markExported(m, names)
    BY <1>12 DEF m, n, exportWrapped
  <2>2. G = F
    BY <1>6, <1>7, <1>12 DEF exportWrapped
  <2>3. ASSUME NEW names, n = markExported(m, names)
        PROVE  Shape(n) /\ Adjoin(n) /\ Tell(n, F)
    <3>1. Shape(n) /\ Tell(n, F) /\ n.kits = m.kits /\ n.kits_items = m.kits_items
      BY <1>8, <2>3, MarkTells
    <3> QED
      BY <1>8, <3>1, AdjoinStays
  <2> QED
    BY <1>8, <2>1, <2>2, <2>3
<1>13. CASE buildTopDecl
  <2>1. /\ n = buildOtherDecl(m, d) /\ UNCHANGED code
        /\ d.node = "KitsDecl" => ~(Cardinality(Aliases(d)) < Len(d.members))
    BY <1>4, <1>5, <1>13 DEF buildTopDecl, m, n, d
  <2>2. G = F
    BY <1>6, <1>7, <2>1
  <2> QED
    BY <1>4, <1>8, <2>1, <2>2, OtherTells
<1>14. CASE beginFunc
  <2>1. n = upsertSymbol(m, d.name, "Func", TRUE)
    BY <1>4, <1>14 DEF beginFunc, m, n, d
  <2>2. G = F \cup {d.name}
    <3> DEFINE s == funcs
               g == [name |-> d.name, first |-> Len(blocks), count |-> 1, next_vreg |-> 0, arity |-> 0]
               t == Append(s, g)
    <3>1. funcs' = t
      BY <1>4, <1>14 DEF beginFunc, d
    <3>2. s \in Seq(FuncRecord)
      BY <1>3 DEF Here, Going, Tables, Spans, ModuleIR
    <3>3. s \in Seq(Range(s))
      <4> HIDE DEF s
      <4> QED
        BY <3>2, RangeIs
    <3>4. g.name = d.name
      OBVIOUS
    <3> HIDE DEF s, g
    <3>5. /\ DOMAIN t = DOMAIN s \cup {Len(s) + 1} /\ t[Len(s) + 1] = g /\ \A k \in DOMAIN s : t[k] = s[k]
          /\ Len(s) + 1 \notin DOMAIN s
      BY <3>3, AddedIs
    <3> HIDE DEF t
    <3>6. {t[k].name : k \in DOMAIN t} = {s[k].name : k \in DOMAIN s} \cup {d.name}
      BY <3>4, <3>5
    <3> QED
      BY <3>1, <3>6 DEF F, G, FuncNames, s
  <2>3. Shape(n) /\ Tell(n, G) /\ n.kits = m.kits /\ n.kits_items = m.kits_items
    <3> DEFINE kind == "Func"
               b == TRUE
    <3>1. /\ b \in BOOLEAN /\ (b /\ kind = "Func" => G = F \cup {d.name}) /\ (~(b /\ kind = "Func") => G = F)
          /\ (kind = "Struct" => b) /\ (b => kind \in {"Struct", "Func"}) /\ n = upsertSymbol(m, d.name, kind, b)
      BY <2>1, <2>2
    <3> HIDE DEF kind, b
    <3> QED
      BY <1>8, <3>1, UpsertTells
  <2> QED
    BY <1>8, <2>3, AdjoinStays
<1> QED
  BY <1>9, <1>10, <1>11, <1>12, <1>13, <1>14 DEF step, buildDecl

LEMMA DeclarationsHold == BuildSpec => []MetaInv
<1>1. Idle => MetaInv
  <2> SUFFICES ASSUME Idle
               PROVE  Shape(meta) /\ Adjoin(meta) /\ Tell(meta, FuncNames)
    BY DEF MetaInv
  <2>1. meta = NoMeta(0) /\ FuncNames = {}
    BY None DEF Idle, FuncNames
  <2> QED
    BY <2>1, NothingDeclared
<1>2. BuildInv /\ MetaInv /\ [BuildNext]_builderVars => MetaInv'
  <2> SUFFICES ASSUME BuildInv, MetaInv, [BuildNext]_builderVars
               PROVE  MetaInv'
    OBVIOUS
  <2>1. CASE step
    BY <2>1, DeclarationsKept
  <2>2. ASSUME NEW u \in Unit, build(u, u.frees, u.visible)
        PROVE  MetaInv'
    <3>1. meta' = NoMeta(u.name) /\ FuncNames' = {}
      BY <2>2, None DEF build, FuncNames
    <3>2. (Shape(meta) /\ Adjoin(meta) /\ Tell(meta, FuncNames))'
      BY <3>1, NothingDeclared
    <3> QED
      BY <3>2 DEF MetaInv
  <2>3. CASE UNCHANGED builderVars
    BY <2>3 DEF builderVars, code, MetaInv, FuncNames
  <2> QED
    BY <2>1, <2>2, <2>3 DEF BuildNext
<1> QED
  BY <1>1, <1>2, TheBuilderGoesOn, PTL DEF BuildSpec

\* The windows of the kits of a unit share its table without gap or overlap, and
\* each passes the domain's check, which nothing runs (ir.cpp, buildKitsDecl).
THEOREM WindowsAreAdjoining == BuildSpec => []WindowsAdjoin
<1>1. MetaInv => WindowsAdjoin
  BY DEF MetaInv, WindowsAdjoin
<1> QED
  BY <1>1, DeclarationsHold, PTL

\* Wherever a list of exports stands, the symbols tell what the module exports
\* (builder_declaration.cpp, upsertSymbol and markExported).
THEOREM SymbolsTellExports == BuildSpec => []SymbolsTell
<1>1. MetaInv => SymbolsTell
  BY DEF MetaInv, SymbolsTell
<1> QED
  BY <1>1, DeclarationsHold, PTL
================================================================================
