----------------------------- MODULE CorpusProofs -----------------------------
(***************************************************************************)
(* Theorems about the modules Knowledge and Evaluation, as MCComponents    *)
(* instantiates them, for any number of bases, documents, texts, requests, *)
(* datasets, runs, cases, attempts, faults and crashes.                    *)
(***************************************************************************)
EXTENDS LearningProofs, FiniteSetTheorems, SequenceTheorems

LEMMA KnowledgeSteps == [Next]_vars /\ part = "knowledge" => [KBase!Next]_(KBase!vars)
BY DEF Next, vars, ApprovalAlone, WorktreeAlone, EvalAlone, PromptAlone, KBaseAlone, SkillAlone,
       AccountAlone, SchemaAlone, ModelAlone, knowledgeVars, KBase!vars

LEMMA EvalSteps == [Next]_vars /\ part = "evaluation" => [Eval!Next]_(Eval!vars)
BY DEF Next, vars, ApprovalAlone, WorktreeAlone, EvalAlone, PromptAlone, KBaseAlone, SkillAlone,
       AccountAlone, SchemaAlone, ModelAlone, evaluationVars, Eval!vars, Eval!rows

-----------------------------------------------------------------------------
(* Counting, and functions along a count *)

(* Induction along 0 .. n: a set that has 0, and with each number before n *)
(* the next, has all of them.  A number it has not would make its successor*)
(* function map the part below that number into less than itself.          *)
LEMMA Reached ==
  ASSUME NEW n \in Nat, NEW S, 0 \in S, \A k \in 0 .. n : k < n /\ k \in S => k + 1 \in S
  PROVE  \A k \in 0 .. n : k \in S
<1> SUFFICES ASSUME NEW m \in 0 .. n, m \notin S PROVE FALSE
  OBVIOUS
<1> DEFINE T == {k \in 0 .. m : k \in S}
           next == [k \in T |-> k + 1]
<1>1. IsFiniteSet(T) /\ Cardinality(T) \in Nat
  <2>1. IsFiniteSet(0 .. m)
    BY FS_Interval
  <2>2. T \in SUBSET (0 .. m)
    OBVIOUS
  <2> HIDE DEF T
  <2> QED
    BY <2>1, <2>2, FS_Subset, FS_CardinalityType
<1>2. 0 \in T
  OBVIOUS
<1>3. IsFiniteSet(T \ {0}) /\ Cardinality(T \ {0}) = Cardinality(T) - 1
  BY <1>1, <1>2, FS_RemoveElement
<1>4. next \in Injection(T, T \ {0})
  <2>1. \A k \in T : k + 1 \in T \ {0}
    OBVIOUS
  <2>2. next \in [T -> T \ {0}] /\ \A j, k \in T : next[j] = next[k] => j = k
    BY <2>1
  <2> QED
    BY <2>2 DEF Injection, IsInjective
<1>5. Cardinality(T) <= Cardinality(T \ {0})
  <2> HIDE DEF T, next
  <2> QED
    BY <1>3, <1>4, FS_Injection
<1> QED
  BY <1>1, <1>3, <1>5

(* A function is defined along 0 .. n by its start and its steps.          *)
Follows(f, n, a, step) == f[0] = a /\ \A k \in 1 .. n : f[k] = step[k][f[k - 1]]

LEMMA Recursion ==
  ASSUME NEW n \in Nat, NEW A, NEW a \in A, NEW step \in [1 .. n -> [A -> A]]
  PROVE  \E f \in [0 .. n -> A] : Follows(f, n, a, step)
<1> DEFINE S == {m \in 0 .. n : \E f \in [0 .. m -> A] :
                    f[0] = a /\ \A k \in 1 .. m : f[k] = step[k][f[k - 1]]}
<1>1. 0 \in S
  <2> DEFINE f == [k \in 0 .. 0 |-> a]
  <2>1. f \in [0 .. 0 -> A] /\ f[0] = a /\ \A k \in 1 .. 0 : f[k] = step[k][f[k - 1]]
    OBVIOUS
  <2> HIDE DEF f
  <2> QED
    BY <2>1
<1>2. ASSUME NEW m \in 0 .. n, m < n, m \in S PROVE m + 1 \in S
  <2>1. PICK f \in [0 .. m -> A] : f[0] = a /\ \A k \in 1 .. m : f[k] = step[k][f[k - 1]]
    BY <1>2
  <2> DEFINE g == [k \in 0 .. m + 1 |-> IF k = m + 1 THEN step[m + 1][f[m]] ELSE f[k]]
  <2>2. m + 1 \in 1 .. n /\ m \in 0 .. m /\ step[m + 1] \in [A -> A] /\ f[m] \in A
    BY <1>2
  <2>3. step[m + 1][f[m]] \in A
    BY <2>2
  <2>4. g \in [0 .. m + 1 -> A]
    BY <2>3
  <2>5. g[0] = a /\ g[m + 1] = step[m + 1][f[m]] /\ \A k \in 0 .. m : g[k] = f[k]
    BY <2>1
  <2> HIDE DEF g
  <2>6. ASSUME NEW k \in 1 .. m + 1 PROVE g[k] = step[k][g[k - 1]]
    <3>1. CASE k = m + 1
      BY <2>2, <2>5, <3>1
    <3>2. CASE k # m + 1
      <4>1. k \in 1 .. m /\ k - 1 \in 0 .. m
        BY <3>2
      <4> QED
        BY <2>1, <2>5, <4>1
    <3> QED
      BY <3>1, <3>2
  <2>7. \E h \in [0 .. m + 1 -> A] : h[0] = a /\ \A k \in 1 .. m + 1 : h[k] = step[k][h[k - 1]]
    BY <2>4, <2>5, <2>6
  <2>8. m + 1 \in 0 .. n
    BY <2>2
  <2> QED
    BY <2>7, <2>8
<1> HIDE DEF S
<1>3. \A k \in 0 .. n : k < n /\ k \in S => k + 1 \in S
  BY <1>2
<1>4. \A k \in 0 .. n : k \in S
  BY <1>1, <1>3, Reached
<1>5. n \in S
  BY <1>4
<1> QED
  BY <1>5 DEF S, Follows

(* A set of naturals that is not empty has a least element, and a greatest *)
(* one if it is bounded.                                                   *)
LEMMA Extremes ==
  ASSUME NEW n \in Nat, NEW S, S \subseteq 1 .. n, S # {}
  PROVE  /\ KBase!Min(S) \in S /\ \A k \in S : KBase!Min(S) <= k
         /\ KBase!Max(S) \in S /\ \A k \in S : k <= KBase!Max(S)
<1>1. \E x \in S : \A k \in S : x <= k
  <2> SUFFICES ASSUME \A x \in S : \E k \in S : k < x PROVE FALSE
    OBVIOUS
  <2> DEFINE R == {m \in 0 .. n : \A x \in S : m < x}
  <2>1. 0 \in R
    OBVIOUS
  <2>2. ASSUME NEW m \in 0 .. n, m < n, m \in R PROVE m + 1 \in R
    <3> SUFFICES ASSUME NEW x \in S, x <= m + 1 PROVE FALSE
      BY <2>2
    <3>1. PICK k \in S : k < x
      OBVIOUS
    <3> QED
      BY <2>2, <3>1
  <2> HIDE DEF R
  <2>3. \A m \in 0 .. n : m < n /\ m \in R => m + 1 \in R
    BY <2>2
  <2>4. \A m \in 0 .. n : m \in R
    BY <2>1, <2>3, Reached
  <2>5. n \in R
    BY <2>4
  <2>6. PICK x \in S : TRUE
    OBVIOUS
  <2> QED
    BY <2>5, <2>6 DEF R
<1>2. \E x \in S : \A k \in S : k <= x
  <2> SUFFICES ASSUME \A x \in S : \E k \in S : x < k PROVE FALSE
    OBVIOUS
  <2> DEFINE R == {m \in 0 .. n : \A x \in S : x <= n - m}
  <2>1. 0 \in R
    OBVIOUS
  <2>2. ASSUME NEW m \in 0 .. n, m < n, m \in R PROVE m + 1 \in R
    <3> SUFFICES ASSUME NEW x \in S, x > n - (m + 1) PROVE FALSE
      BY <2>2
    <3>1. PICK k \in S : x < k
      OBVIOUS
    <3> QED
      BY <2>2, <3>1
  <2> HIDE DEF R
  <2>3. \A m \in 0 .. n : m < n /\ m \in R => m + 1 \in R
    BY <2>2
  <2>4. \A m \in 0 .. n : m \in R
    BY <2>1, <2>3, Reached
  <2>5. n \in R
    BY <2>4
  <2>6. PICK x \in S : TRUE
    OBVIOUS
  <2> QED
    BY <2>5, <2>6 DEF R
<1> QED
  BY <1>1, <1>2 DEF KBase!Min, KBase!Max

-----------------------------------------------------------------------------
(* Cutting a text *)

Runes == Nat \X Nat
Short == {s \in Seq(Runes) : Len(s) < 2 * ChunkTarget}
Cutting == [chunks : Seq(Short), cur : Short]

LEMMA TrimmedShort == \A s \in Short : KBase!Trimmed(s) \in Short
<1> SUFFICES ASSUME NEW s \in Short PROVE KBase!Trimmed(s) \in Short
  OBVIOUS
<1> DEFINE inked == {i \in DOMAIN s : s[i] # KBase!NL}
<1>1. s \in Seq(Runes) /\ Len(s) \in Nat /\ Len(s) < 2 * ChunkTarget /\ DOMAIN s = 1 .. Len(s)
  BY LenProperties DEF Short
<1>2. CASE inked = {}
  <2>1. KBase!Trimmed(s) = <<>>
    BY <1>2 DEF KBase!Trimmed
  <2> QED
    BY <1>1, <2>1, EmptySeq, BoundsAssumption, KnowledgeAssumption DEF Short
<1>3. CASE inked # {}
  <2> DEFINE m == KBase!Min(inked)
             n == KBase!Max(inked)
  <2>1. inked \subseteq 1 .. Len(s)
    BY <1>1
  <2>2. m \in 1 .. Len(s) /\ n \in 1 .. Len(s)
    <3> HIDE DEF inked
    <3>1. m \in inked /\ n \in inked
      BY <1>1, <1>3, <2>1, Extremes
    <3> QED
      BY <2>1, <3>1
  <2>3. KBase!Trimmed(s) = SubSeq(s, m, n)
    BY <1>3 DEF KBase!Trimmed
  <2> HIDE DEF m, n, inked
  <2>4. \A i \in m .. n : s[i] \in Runes
    BY <1>1, <2>2, ElementOfSeq
  <2>5. SubSeq(s, m, n) \in Seq(Runes) /\ Len(SubSeq(s, m, n)) = IF m <= n THEN n - m + 1 ELSE 0
    BY <2>2, <2>4, SubSeqProperties
  <2> DEFINE l == Len(SubSeq(s, m, n))
  <2>6. l \in Nat /\ l <= Len(s)
    <3>1. l = (IF m <= n THEN n - m + 1 ELSE 0)
      BY <2>5
    <3> HIDE DEF l
    <3>2. CASE m <= n
      BY <1>1, <2>2, <3>1, <3>2
    <3>3. CASE ~(m <= n)
      BY <1>1, <3>1, <3>3
    <3> QED
      BY <3>2, <3>3
  <2>7. l < 2 * ChunkTarget
    <3>1. ChunkTarget \in Nat
      BY BoundsAssumption
    <3> HIDE DEF l
    <3> QED
      BY <1>1, <2>6, <3>1
  <2> QED
    BY <2>3, <2>5, <2>7 DEF Short
<1> QED
  BY <1>2, <1>3

LEMMA FlushedShort == \A c \in Cutting : KBase!Flushed(c) \in Seq(Short)
<1> SUFFICES ASSUME NEW c \in Cutting PROVE KBase!Flushed(c) \in Seq(Short)
  OBVIOUS
<1>1. c.chunks \in Seq(Short) /\ c.cur \in Short
  BY DEF Cutting
<1>2. KBase!Trimmed(c.cur) \in Short
  BY <1>1, TrimmedShort
<1> QED
  BY <1>1, <1>2, AppendProperties DEF KBase!Flushed

LEMMA PiecesShort ==
  ASSUME NEW s \in Seq(Runes), Len(s) > ChunkTarget
  PROVE  KBase!HardSplit(s) \in Seq(Short)
<1> DEFINE n == (Len(s) + ChunkTarget - 1) \div ChunkTarget
           Piece(i) == SubSeq(s, (i - 1) * ChunkTarget + 1, KBase!Min({i * ChunkTarget, Len(s)}))
<1>1. ChunkTarget \in Nat /\ ChunkTarget >= 1 /\ Len(s) \in Nat /\ Len(s) >= 1
  BY LenProperties, BoundsAssumption, KnowledgeAssumption
<1>2. n \in Nat
  BY <1>1
<1>3. ASSUME NEW i \in 1 .. n PROVE Piece(i) \in Short
  <2> DEFINE a == (i - 1) * ChunkTarget
             b == i * ChunkTarget
             last == KBase!Min({b, Len(s)})
  <2>1. a \in Nat /\ b \in Nat /\ b = a + ChunkTarget
    BY <1>1, <1>2
  <2>2. last \in {b, Len(s)} /\ last <= b /\ last <= Len(s)
    <3>1. {b, Len(s)} \subseteq 1 .. b + Len(s) /\ {b, Len(s)} # {} /\ b + Len(s) \in Nat
      BY <1>1, <2>1
    <3> HIDE DEF b
    <3>2. last \in {b, Len(s)} /\ \A k \in {b, Len(s)} : last <= k
      BY <3>1, Extremes
    <3> QED
      BY <3>2
  <2>3. Piece(i) = SubSeq(s, a + 1, last)
    OBVIOUS
  <2> HIDE DEF a, b, last, Piece
  <2>4. \A j \in a + 1 .. last : s[j] \in Runes
    BY <1>1, <2>1, <2>2, ElementOfSeq
  <2>5. last \in Int /\ a + 1 \in Int
    BY <1>1, <2>1, <2>2
  <2>6. SubSeq(s, a + 1, last) \in Seq(Runes)
        /\ Len(SubSeq(s, a + 1, last)) = IF a + 1 <= last THEN last - (a + 1) + 1 ELSE 0
    BY <2>4, <2>5, SubSeqProperties
  <2> QED
    BY <1>1, <2>1, <2>2, <2>3, <2>5, <2>6 DEF Short
<1>4. KBase!HardSplit(s) = [i \in 1 .. n |-> Piece(i)]
  BY DEF KBase!HardSplit
<1> HIDE DEF n, Piece
<1> QED
  BY <1>2, <1>3, <1>4

LEMMA CutShort ==
  ASSUME NEW c \in Cutting, NEW line \in Seq(Runes)
  PROVE  KBase!Cut(c, line) \in Cutting
<1> DEFINE proposed == (IF c.cur = <<>> THEN <<>> ELSE Append(c.cur, KBase!NL)) \o line
<1>1. c.chunks \in Seq(Short) /\ c.cur \in Short /\ KBase!Flushed(c) \in Seq(Short)
  BY FlushedShort DEF Cutting
<1>2. /\ ChunkTarget \in Nat /\ ChunkTarget >= 1 /\ ChunkOverlap \in Nat /\ Len(line) \in Nat
      /\ c.cur \in Seq(Runes) /\ Len(c.cur) \in Nat /\ <<>> \in Short
  BY <1>1, LenProperties, EmptySeq, BoundsAssumption, KnowledgeAssumption DEF Short
<1>3. proposed \in Seq(Runes)
      /\ Len(proposed) = (IF c.cur = <<>> THEN 0 ELSE Len(c.cur) + 1) + Len(line)
  <2>1. KBase!NL \in Runes
    BY DEF KBase!NL, Runes
  <2>2. Append(c.cur, KBase!NL) \in Seq(Runes) /\ Len(Append(c.cur, KBase!NL)) = Len(c.cur) + 1
    BY <1>2, <2>1, AppendProperties
  <2> QED
    BY <1>2, <2>2, ConcatProperties, EmptySeq
<1>4. CASE Len(line) > ChunkTarget
  <2>1. KBase!Cut(c, line) = [chunks |-> KBase!Flushed(c) \o KBase!HardSplit(line), cur |-> <<>>]
    BY <1>2, <1>4 DEF KBase!Cut
  <2>2. KBase!Flushed(c) \o KBase!HardSplit(line) \in Seq(Short)
    BY <1>1, <1>4, PiecesShort, ConcatProperties
  <2> QED
    BY <1>2, <2>1, <2>2 DEF Cutting
<1>5. CASE Len(line) <= ChunkTarget /\ Len(proposed) > ChunkTarget
  <2> DEFINE kept == IF ChunkOverlap > 0 THEN KBase!Suffix(line, ChunkOverlap) ELSE line
  <2>1. KBase!Cut(c, line) = [chunks |-> KBase!Flushed(c), cur |-> kept]
    BY <1>2, <1>5 DEF KBase!Cut
  <2>2. KBase!Suffix(line, ChunkOverlap) \in Seq(Runes) /\ Len(KBase!Suffix(line, ChunkOverlap)) <= Len(line)
    <3>1. CASE Len(line) > ChunkOverlap
      <4> DEFINE m == Len(line) - ChunkOverlap + 1
      <4>1. m \in Int /\ m >= 1 /\ m <= Len(line) + 1
        BY <1>2, <3>1
      <4>2. KBase!Suffix(line, ChunkOverlap) = SubSeq(line, m, Len(line))
        BY <3>1 DEF KBase!Suffix
      <4> HIDE DEF m
      <4>3. \A j \in m .. Len(line) : line[j] \in Runes
        BY <1>2, <4>1, ElementOfSeq
      <4>4. SubSeq(line, m, Len(line)) \in Seq(Runes)
            /\ Len(SubSeq(line, m, Len(line))) = IF m <= Len(line) THEN Len(line) - m + 1 ELSE 0
        BY <1>2, <4>1, <4>3, SubSeqProperties
      <4> QED
        BY <1>2, <4>1, <4>2, <4>4
    <3>2. CASE ~(Len(line) > ChunkOverlap)
      BY <1>2, <3>2 DEF KBase!Suffix
    <3> QED
      BY <3>1, <3>2
  <2>3. kept \in Seq(Runes) /\ Len(kept) <= Len(line) /\ Len(kept) \in Nat
    BY <1>2, <2>2, LenProperties
  <2> HIDE DEF kept
  <2>4. kept \in Short
    BY <1>2, <1>5, <2>3 DEF Short
  <2> QED
    BY <1>1, <2>1, <2>4 DEF Cutting
<1>6. CASE Len(line) <= ChunkTarget /\ Len(proposed) <= ChunkTarget
  <2>1. KBase!Cut(c, line) = [chunks |-> c.chunks, cur |-> c.cur \o proposed]
    BY <1>2, <1>6 DEF KBase!Cut
  <2> HIDE DEF proposed
  <2>2. c.cur \o proposed \in Seq(Runes) /\ Len(c.cur \o proposed) = Len(c.cur) + Len(proposed)
    BY <1>2, <1>3, ConcatProperties
  <2>3. Len(c.cur) + Len(proposed) < 2 * ChunkTarget
    <3>1. CASE c.cur = <<>>
      <4>1. Len(c.cur) = 0
        BY <3>1
      <4> QED
        BY <1>2, <1>3, <1>6, <3>1, <4>1
    <3>2. CASE c.cur # <<>>
      <4>1. Len(proposed) = Len(c.cur) + 1 + Len(line)
        BY <1>3, <3>2
      <4> QED
        BY <1>2, <1>6, <4>1
    <3> QED
      BY <3>1, <3>2
  <2> QED
    BY <1>1, <2>1, <2>2, <2>3 DEF Cutting, Short
<1> QED
  BY <1>2, <1>3, <1>4, <1>5, <1>6

(* The fold of chunkText, one line at a time.                              *)
LineOf(text, k) == KBase!Line(text, k)

Cuts(f, text) ==
  /\ f[0] = [chunks |-> <<>>, cur |-> <<>>]
  /\ \A k \in 1 .. Len(text) : f[k] = KBase!Cut(f[k - 1], LineOf(text, k))
  /\ \E n \in 0 .. Len(text) : /\ KBase!ChunkText(text) = KBase!Flushed(f[n])
                              /\ \A i \in n + 1 .. Len(text) : text[i] = 0

LEMMA LineTyped ==
  ASSUME NEW text \in Texts, NEW k \in 1 .. Len(text)
  PROVE  /\ LineOf(text, k) \in Seq(Runes) /\ text[k] \in Nat /\ Len(LineOf(text, k)) = text[k]
         /\ \A p \in 1 .. text[k] : LineOf(text, k)[p] = <<k, p>>
<1>1. text \in Seq(Nat)
  BY KnowledgeAssumption
<1>2. text[k] \in Nat /\ k \in Nat
  BY <1>1, ElementOfSeq, LenProperties
<1>3. \A p \in 1 .. text[k] : <<k, p>> \in Runes
  BY <1>2 DEF Runes
<1>4. LineOf(text, k) = [p \in 1 .. text[k] |-> <<k, p>>]
  BY DEF LineOf, KBase!Line
<1> QED
  BY <1>2, <1>3, <1>4

(* Where a text ends once it is trimmed. *)
LEMMA LastInk ==
  ASSUME NEW text \in Seq(Nat), NEW n \in Nat, n = Len(text)
  PROVE  \E m \in 0 .. n : (m = 0 \/ text[m] > 0) /\ \A i \in m + 1 .. n : text[i] = 0
<1> DEFINE Blank(m) == \A i \in m + 1 .. n : text[i] = 0
           S == {k \in 0 .. n : Blank(n - k)}
<1>1. \A i \in 1 .. n : text[i] \in Nat
  BY ElementOfSeq
<1> SUFFICES ASSUME \A m \in 1 .. n : text[m] > 0 => ~Blank(m) PROVE Blank(0)
  OBVIOUS
<1>2. 0 \in S
  OBVIOUS
<1>3. ASSUME NEW k \in 0 .. n, k < n, k \in S PROVE k + 1 \in S
  <2>1. n - k \in 1 .. n /\ Blank(n - k) /\ n - (k + 1) \in 0 .. n /\ k + 1 \in 0 .. n
    BY <1>3
  <2>2. text[n - k] = 0
    <3> HIDE DEF Blank
    <3>1. ~(text[n - k] > 0) /\ text[n - k] \in Nat
      BY <1>1, <2>1
    <3> QED
      BY <3>1
  <2>3. \A i \in n - (k + 1) + 1 .. n : i = n - k \/ i \in n - k + 1 .. n
    BY <2>1
  <2>4. Blank(n - (k + 1))
    BY <2>1, <2>2, <2>3
  <2> QED
    BY <2>1, <2>4
<1> HIDE DEF S
<1>4. \A k \in 0 .. n : k < n /\ k \in S => k + 1 \in S
  BY <1>3
<1>5. \A k \in 0 .. n : k \in S
  BY <1>2, <1>4, Reached
<1>6. n \in S
  BY <1>5
<1>7. Blank(n - n)
  BY <1>6 DEF S
<1> QED
  BY <1>7

LEMMA TextCut ==
  ASSUME NEW text \in Texts
  PROVE  \E f \in [0 .. Len(text) -> Cutting] : Cuts(f, text)
<1> DEFINE n == Len(text)
           none == [chunks |-> <<>>, cur |-> <<>>]
           step == [k \in 1 .. n |-> [c \in Cutting |-> KBase!Cut(c, LineOf(text, k))]]
           Is(f) == f = [k \in 0 .. n |-> IF k = 0 THEN none ELSE KBase!Cut(f[k - 1], KBase!Line(text, k))]
           after == CHOOSE f : Is(f)
           Ends(m) == (m = 0 \/ text[m] > 0) /\ \A i \in m + 1 .. n : text[i] = 0
           last == CHOOSE m \in 0 .. n : Ends(m)
<1>1. text \in Seq(Nat) /\ n \in Nat
  BY KnowledgeAssumption, LenProperties
<1>2. \A k \in 1 .. n : LineOf(text, k) \in Seq(Runes)
  BY LineTyped
<1>3. none \in Cutting
  BY EmptySeq, BoundsAssumption, KnowledgeAssumption DEF Cutting, Short
<1>8. KBase!ChunkText(text) = KBase!Flushed(after[last])
  BY DEF KBase!ChunkText
<1>10. none = [chunks |-> <<>>, cur |-> <<>>] /\ n = Len(text)
  OBVIOUS
<1>13. last \in 0 .. n /\ \A i \in last + 1 .. n : text[i] = 0
  <2>1. \E m \in 0 .. n : Ends(m)
    BY <1>1, LastInk
  <2>2. last \in 0 .. n /\ Ends(last)
    BY <2>1
  <2> QED
    BY <2>2
<1> HIDE DEF n, none, last, Ends
<1>4. step \in [1 .. n -> [Cutting -> Cutting]]
  BY <1>2, CutShort
<1>5. \E f \in [0 .. n -> Cutting] : Follows(f, n, none, step)
  <2> HIDE DEF step, after, Is
  <2>1. n \in Nat
    BY <1>1
  <2> QED
    BY <2>1, <1>3, <1>4, Recursion
<1>6. \E f : Is(f)
  <2>1. PICK f \in [0 .. n -> Cutting] : f[0] = none /\ \A k \in 1 .. n : f[k] = step[k][f[k - 1]]
    BY <1>5 DEF Follows
  <2>2. ASSUME NEW k \in 0 .. n, k # 0 PROVE f[k] = KBase!Cut(f[k - 1], KBase!Line(text, k))
    <3>1. k \in 1 .. n /\ k - 1 \in 0 .. n
      BY <1>1, <2>2
    <3>2. f[k - 1] \in Cutting /\ f[k] = step[k][f[k - 1]]
      BY <2>1, <3>1
    <3> QED
      BY <3>1, <3>2 DEF LineOf
  <2>3. f = [k \in 0 .. n |-> IF k = 0 THEN none ELSE KBase!Cut(f[k - 1], KBase!Line(text, k))]
    BY <2>1, <2>2
  <2> QED
    BY <2>3
<1>7. after = [k \in 0 .. n |-> IF k = 0 THEN none ELSE KBase!Cut(after[k - 1], KBase!Line(text, k))]
  <2>1. Is(after)
    BY <1>6
  <2> QED
    BY <2>1
<1> HIDE DEF after, Is, step
<1>9. ASSUME NEW k \in 0 .. n PROVE after[k] \in Cutting
  <2> DEFINE S == {j \in 0 .. n : after[j] \in Cutting}
  <2>1. 0 \in S
    BY <1>1, <1>3, <1>7
  <2>2. ASSUME NEW j \in 0 .. n, j < n, j \in S PROVE j + 1 \in S
    <3>1. j + 1 \in 0 .. n /\ j + 1 \in 1 .. n /\ j + 1 # 0 /\ (j + 1) - 1 = j
      BY <1>1, <2>2
    <3>2. after[j + 1] = KBase!Cut(after[j], LineOf(text, j + 1))
      BY <1>7, <3>1 DEF LineOf
    <3>3. LineOf(text, j + 1) \in Seq(Runes)
      BY <1>2, <3>1
    <3> QED
      BY <2>2, <3>1, <3>2, <3>3, CutShort
  <2> HIDE DEF S
  <2>3. \A j \in 0 .. n : j < n /\ j \in S => j + 1 \in S
    BY <2>2
  <2>4. \A j \in 0 .. n : j \in S
    BY <1>1, <2>1, <2>3, Reached
  <2> QED
    BY <2>4 DEF S
<1>11. after \in [0 .. n -> Cutting]
  <2>1. after = [k \in 0 .. n |-> after[k]]
    BY <1>7
  <2> QED
    BY <1>9, <2>1
<1>12. after[0] = none /\ \A k \in 1 .. n : after[k] = KBase!Cut(after[k - 1], LineOf(text, k))
  <2>1. 0 \in 0 .. n /\ \A k \in 1 .. n : k \in 0 .. n /\ k # 0
    BY <1>1
  <2> QED
    BY <1>7, <2>1 DEF LineOf
<1> QED
  BY <1>8, <1>10, <1>11, <1>12, <1>13 DEF Cuts

(* No chunk is twice as long as the target, although what is being put     *)
(* together is written once more before each line that still fits.         *)
THEOREM ChunksShort == \A text \in Texts : KBase!ChunksOf[text] \in Seq(Short)
<1> SUFFICES ASSUME NEW text \in Texts PROVE KBase!ChunkText(text) \in Seq(Short)
  BY DEF KBase!ChunksOf
<1>1. PICK f \in [0 .. Len(text) -> Cutting] : Cuts(f, text)
  BY TextCut
<1>2. PICK n \in 0 .. Len(text) : KBase!ChunkText(text) = KBase!Flushed(f[n])
  BY <1>1 DEF Cuts
<1> QED
  BY <1>2, FlushedShort

(* Where a rune is: in a chunk, or in what is being put together.          *)
In(x, s) == \E i \in 1 .. Len(s) : s[i] = x
InSome(x, chunks) == \E j \in 1 .. Len(chunks) : In(x, chunks[j])
Present(x, c) == InSome(x, c.chunks) \/ In(x, c.cur)

LEMMA InConcat ==
  ASSUME NEW A, NEW s \in Seq(A), NEW t \in Seq(A), NEW x, In(x, s) \/ In(x, t)
  PROVE  In(x, s \o t)
<1>1. /\ Len(s) \in Nat /\ Len(t) \in Nat /\ Len(s \o t) = Len(s) + Len(t)
      /\ \A i \in 1 .. Len(s) + Len(t) : (s \o t)[i] = IF i <= Len(s) THEN s[i] ELSE t[i - Len(s)]
  BY LenProperties, ConcatProperties
<1>2. CASE In(x, s)
  <2>1. PICK i \in 1 .. Len(s) : s[i] = x
    BY <1>2 DEF In
  <2>2. i \in 1 .. Len(s) + Len(t) /\ i <= Len(s)
    BY <1>1
  <2> QED
    BY <1>1, <2>1, <2>2 DEF In
<1>3. CASE In(x, t)
  <2>1. PICK i \in 1 .. Len(t) : t[i] = x
    BY <1>3 DEF In
  <2>2. Len(s) + i \in 1 .. Len(s) + Len(t) /\ ~(Len(s) + i <= Len(s)) /\ (Len(s) + i) - Len(s) = i
    BY <1>1
  <2> QED
    BY <1>1, <2>1, <2>2 DEF In
<1> QED
  BY <1>2, <1>3

LEMMA InSomeConcat ==
  ASSUME NEW A, NEW s \in Seq(A), NEW t \in Seq(A), NEW x, InSome(x, s) \/ InSome(x, t)
  PROVE  InSome(x, s \o t)
<1>1. PICK y : (In(y, s) \/ In(y, t)) /\ In(x, y)
  BY DEF InSome, In
<1>2. In(y, s \o t)
  BY <1>1, InConcat
<1> QED
  BY <1>1, <1>2 DEF InSome, In

LEMMA InAppend ==
  ASSUME NEW A, NEW s \in Seq(A), NEW y \in A
  PROVE  In(y, Append(s, y)) /\ \A x : In(x, s) => In(x, Append(s, y))
<1>1. /\ Len(s) \in Nat /\ Len(Append(s, y)) = Len(s) + 1
      /\ \A i \in 1 .. Len(s) : Append(s, y)[i] = s[i]
      /\ Append(s, y)[Len(s) + 1] = y
  BY LenProperties, AppendProperties
<1>2. Len(s) + 1 \in 1 .. Len(s) + 1 /\ \A i \in 1 .. Len(s) : i \in 1 .. Len(s) + 1
  BY <1>1
<1> QED
  BY <1>1, <1>2 DEF In

LEMMA InSubSeq ==
  ASSUME NEW A, NEW s \in Seq(A), NEW m \in Nat, NEW l \in Nat, 1 <= m, l <= Len(s),
         NEW q \in m .. l
  PROVE  In(s[q], SubSeq(s, m, l))
<1>1. Len(s) \in Nat /\ \A i \in m .. l : s[i] \in A
  BY LenProperties, ElementOfSeq
<1>2. /\ Len(SubSeq(s, m, l)) = IF m <= l THEN l - m + 1 ELSE 0
      /\ \A i \in 1 .. l - m + 1 : SubSeq(s, m, l)[i] = s[m + i - 1]
  BY <1>1, SubSeqProperties
<1>3. q - m + 1 \in 1 .. l - m + 1 /\ m + (q - m + 1) - 1 = q /\ m <= l
  OBVIOUS
<1>4. Len(SubSeq(s, m, l)) = l - m + 1
  BY <1>2, <1>3
<1> QED
  BY <1>2, <1>3, <1>4 DEF In

(* Only line feeds are trimmed.                                            *)
LEMMA TrimmedKeeps ==
  ASSUME NEW s \in Short, NEW x, In(x, s), x # KBase!NL
  PROVE  In(x, KBase!Trimmed(s)) /\ KBase!Trimmed(s) # <<>>
<1> DEFINE inked == {i \in DOMAIN s : s[i] # KBase!NL}
           m == KBase!Min(inked)
           l == KBase!Max(inked)
<1>1. s \in Seq(Runes) /\ Len(s) \in Nat /\ DOMAIN s = 1 .. Len(s)
  BY LenProperties DEF Short
<1>2. PICK q \in 1 .. Len(s) : s[q] = x
  BY DEF In
<1>3. inked \subseteq 1 .. Len(s) /\ q \in inked
  BY <1>1, <1>2
<1>4. KBase!Trimmed(s) = SubSeq(s, m, l)
  BY <1>3 DEF KBase!Trimmed
<1>5. m \in 1 .. Len(s) /\ l \in 1 .. Len(s) /\ m <= q /\ q <= l
  <2> HIDE DEF inked
  <2>1. /\ m \in inked /\ \A k \in inked : m <= k
        /\ l \in inked /\ \A k \in inked : k <= l
    BY <1>1, <1>3, Extremes
  <2> QED
    BY <1>3, <2>1
<1> HIDE DEF m, l, inked
<1>6. In(s[q], SubSeq(s, m, l))
  <2>1. m \in Nat /\ l \in Nat /\ 1 <= m /\ l <= Len(s) /\ q \in m .. l
    BY <1>1, <1>2, <1>5
  <2> QED
    BY <1>1, <2>1, InSubSeq
<1>7. In(x, KBase!Trimmed(s))
  BY <1>2, <1>4, <1>6
<1>8. ~In(x, <<>>)
  BY DEF In
<1> QED
  BY <1>7, <1>8

LEMMA FlushedKeeps ==
  ASSUME NEW c \in Cutting, NEW x, Present(x, c), x # KBase!NL
  PROVE  InSome(x, KBase!Flushed(c))
<1>1. c.chunks \in Seq(Short) /\ c.cur \in Short /\ KBase!Trimmed(c.cur) \in Short
  BY TrimmedShort DEF Cutting
<1>2. /\ In(KBase!Trimmed(c.cur), Append(c.chunks, KBase!Trimmed(c.cur)))
      /\ \A y : In(y, c.chunks) => In(y, Append(c.chunks, KBase!Trimmed(c.cur)))
  BY <1>1, InAppend
<1>3. CASE InSome(x, c.chunks)
  <2>1. PICK y : In(y, c.chunks) /\ In(x, y)
    BY <1>3 DEF InSome, In
  <2>2. In(y, KBase!Flushed(c))
    BY <1>2, <2>1 DEF KBase!Flushed
  <2> QED
    BY <2>1, <2>2 DEF InSome, In
<1>4. CASE In(x, c.cur)
  <2>1. In(x, KBase!Trimmed(c.cur)) /\ KBase!Trimmed(c.cur) # <<>>
    BY <1>1, <1>4, TrimmedKeeps
  <2>2. In(KBase!Trimmed(c.cur), KBase!Flushed(c))
    BY <1>2, <2>1 DEF KBase!Flushed
  <2> QED
    BY <2>1, <2>2 DEF InSome, In
<1> QED
  BY <1>3, <1>4 DEF Present

(* The pieces of a line that is too long have all of it.                   *)
LEMMA SplitKeeps ==
  ASSUME NEW s \in Seq(Runes), NEW q \in 1 .. Len(s)
  PROVE  InSome(s[q], KBase!HardSplit(s))
<1> DEFINE n == (Len(s) + ChunkTarget - 1) \div ChunkTarget
           Piece(i) == SubSeq(s, (i - 1) * ChunkTarget + 1, KBase!Min({i * ChunkTarget, Len(s)}))
           i == (q - 1) \div ChunkTarget + 1
           a == (i - 1) * ChunkTarget
           b == i * ChunkTarget
           last == KBase!Min({b, Len(s)})
<1>1. ChunkTarget \in Nat /\ ChunkTarget >= 1 /\ Len(s) \in Nat /\ Len(s) >= 1
  BY LenProperties, BoundsAssumption, KnowledgeAssumption
<1>2. n \in Nat /\ i \in Nat /\ i >= 1
  BY <1>1
<1>3. a \in Nat /\ b \in Nat /\ b = a + ChunkTarget /\ a + 1 <= q /\ q <= b
  BY <1>1
<1>4. i <= n
  <2>1. n * ChunkTarget >= Len(s) /\ n * ChunkTarget \in Nat
    BY <1>1
  <2>2. ASSUME i - 1 >= n PROVE FALSE
    <3>1. a >= n * ChunkTarget
      BY <1>1, <1>2, <2>2
    <3> QED
      BY <1>1, <1>3, <2>1, <3>1
  <2> HIDE DEF i, n
  <2> QED
    BY <1>2, <2>2
<1>5. last \in {b, Len(s)} /\ last <= Len(s)
  <2>1. {b, Len(s)} \subseteq 1 .. b + Len(s) /\ {b, Len(s)} # {} /\ b + Len(s) \in Nat
    BY <1>1, <1>3
  <2> HIDE DEF b
  <2>2. last \in {b, Len(s)} /\ \A k \in {b, Len(s)} : last <= k
    BY <2>1, Extremes
  <2> QED
    BY <2>2
<1>6. Piece(i) = SubSeq(s, a + 1, last)
  OBVIOUS
<1>7. KBase!HardSplit(s) = [k \in 1 .. n |-> Piece(k)]
  BY DEF KBase!HardSplit
<1> HIDE DEF n, Piece, i, a, b, last
<1>8. Len(KBase!HardSplit(s)) = n /\ i \in 1 .. n /\ KBase!HardSplit(s)[i] = Piece(i)
  BY <1>2, <1>4, <1>7
<1>9. In(s[q], SubSeq(s, a + 1, last))
  <2>1. /\ a + 1 \in Nat /\ last \in Nat /\ 1 <= a + 1 /\ last <= Len(s)
        /\ q \in a + 1 .. last
    BY <1>1, <1>3, <1>5
  <2> QED
    BY <2>1, InSubSeq
<1> QED
  BY <1>6, <1>8, <1>9 DEF InSome

(* What is kept of a line: all of it, or only its end when it begins a     *)
(* chunk that another line left no room for.                               *)
Saved(length, p) == p + ChunkOverlap > length \/ length > ChunkTarget \/ ChunkOverlap = 0

LEMMA CutKeeps ==
  ASSUME NEW c \in Cutting, NEW line \in Seq(Runes)
  PROVE  /\ \A x : x # KBase!NL /\ Present(x, c) => Present(x, KBase!Cut(c, line))
         /\ \A p \in 1 .. Len(line) : Saved(Len(line), p) => Present(line[p], KBase!Cut(c, line))
<1> DEFINE proposed == (IF c.cur = <<>> THEN <<>> ELSE Append(c.cur, KBase!NL)) \o line
<1>1. c.chunks \in Seq(Short) /\ c.cur \in Seq(Runes) /\ KBase!Flushed(c) \in Seq(Short)
  BY FlushedShort DEF Cutting, Short
<1>2. ChunkTarget \in Nat /\ ChunkOverlap \in Nat /\ Len(line) \in Nat
  BY LenProperties, BoundsAssumption
<1>3. \A x : x # KBase!NL /\ Present(x, c) => InSome(x, KBase!Flushed(c))
  BY FlushedKeeps
<1>4. proposed \in Seq(Runes) /\ \A p \in 1 .. Len(line) : In(line[p], proposed)
  <2>1. KBase!NL \in Runes
    BY DEF KBase!NL, Runes
  <2>2. (IF c.cur = <<>> THEN <<>> ELSE Append(c.cur, KBase!NL)) \in Seq(Runes)
    BY <1>1, <2>1, AppendProperties, EmptySeq
  <2>3. \A p \in 1 .. Len(line) : In(line[p], line)
    BY DEF In
  <2> HIDE DEF In
  <2> QED
    BY <2>2, <2>3, InConcat, ConcatProperties
<1>5. CASE Len(line) > ChunkTarget
  <2>1. KBase!Cut(c, line) = [chunks |-> KBase!Flushed(c) \o KBase!HardSplit(line), cur |-> <<>>]
    BY <1>2, <1>5 DEF KBase!Cut
  <2>2. KBase!HardSplit(line) \in Seq(Short)
    BY <1>5, PiecesShort
  <2>3. \A x : InSome(x, KBase!Flushed(c)) \/ InSome(x, KBase!HardSplit(line))
                => InSome(x, KBase!Flushed(c) \o KBase!HardSplit(line))
    BY <1>1, <2>2, InSomeConcat
  <2>4. \A p \in 1 .. Len(line) : InSome(line[p], KBase!HardSplit(line))
    BY SplitKeeps
  <2> QED
    BY <1>3, <2>1, <2>3, <2>4 DEF Present
<1>6. CASE Len(line) <= ChunkTarget /\ Len(proposed) > ChunkTarget
  <2> DEFINE kept == IF ChunkOverlap > 0 THEN KBase!Suffix(line, ChunkOverlap) ELSE line
  <2>1. KBase!Cut(c, line) = [chunks |-> KBase!Flushed(c), cur |-> kept]
    BY <1>2, <1>6 DEF KBase!Cut
  <2>2. ASSUME NEW p \in 1 .. Len(line), Saved(Len(line), p) PROVE In(line[p], kept)
    <3>1. CASE kept = line
      BY <3>1 DEF In
    <3>2. CASE kept # line
      <4>1. ChunkOverlap > 0 /\ Len(line) > ChunkOverlap
            /\ kept = SubSeq(line, Len(line) - ChunkOverlap + 1, Len(line))
        BY <1>2, <3>2 DEF KBase!Suffix
      <4>2. p \in Len(line) - ChunkOverlap + 1 .. Len(line)
        BY <1>2, <1>6, <2>2, <4>1 DEF Saved
      <4>3. Len(line) - ChunkOverlap + 1 \in Nat /\ 1 <= Len(line) - ChunkOverlap + 1
        BY <1>2, <4>1
      <4>4. In(line[p], SubSeq(line, Len(line) - ChunkOverlap + 1, Len(line)))
        BY <1>2, <4>2, <4>3, InSubSeq
      <4> QED
        BY <4>1, <4>4
    <3> QED
      BY <3>1, <3>2
  <2> QED
    BY <1>3, <2>1, <2>2 DEF Present
<1>7. CASE Len(line) <= ChunkTarget /\ Len(proposed) <= ChunkTarget
  <2>1. KBase!Cut(c, line) = [chunks |-> c.chunks, cur |-> c.cur \o proposed]
    BY <1>2, <1>7 DEF KBase!Cut
  <2>2. \A x : In(x, c.cur) \/ In(x, proposed) => In(x, c.cur \o proposed)
    <3> HIDE DEF proposed
    <3> QED
      BY <1>1, <1>4, InConcat
  <2> QED
    BY <1>4, <2>1, <2>2 DEF Present
<1>8. Len(proposed) \in Nat
  BY <1>4, LenProperties
<1> QED
  BY <1>2, <1>5, <1>6, <1>7, <1>8

(* chunkText leaves nothing of a text out, except of a line that is longer *)
(* than the overlap and no longer than a chunk: of such a line the last    *)
(* ChunkOverlap runes are kept, and its beginning is lost if it does not   *)
(* fit into the chunk being put together.                                  *)
THEOREM TextKept ==
  \A text \in Texts : \A i \in 1 .. Len(text) : \A p \in 1 .. text[i] :
    Saved(text[i], p) => InSome(<<i, p>>, KBase!ChunksOf[text])
<1> SUFFICES ASSUME NEW text \in Texts, NEW i \in 1 .. Len(text), NEW p \in 1 .. text[i],
                    Saved(text[i], p)
             PROVE  InSome(<<i, p>>, KBase!ChunkText(text))
  BY DEF KBase!ChunksOf
<1> DEFINE n == Len(text)
           x == <<i, p>>
<1>1. PICK f \in [0 .. n -> Cutting] : Cuts(f, text)
  BY TextCut
<1>2. n \in Nat /\ i \in 1 .. n /\ x # KBase!NL
  BY KnowledgeAssumption, LenProperties DEF KBase!NL
<1>3. \A k \in 1 .. n : f[k] = KBase!Cut(f[k - 1], LineOf(text, k))
  BY <1>1 DEF Cuts
<1>4. Present(x, f[i])
  <2>1. f[i - 1] \in Cutting /\ f[i] = KBase!Cut(f[i - 1], LineOf(text, i))
    BY <1>2, <1>3
  <2>2. LineOf(text, i) \in Seq(Runes) /\ Len(LineOf(text, i)) = text[i] /\ LineOf(text, i)[p] = x
    BY LineTyped
  <2> HIDE DEF x
  <2> QED
    BY <2>1, <2>2, CutKeeps
<1> HIDE DEF n, x
<1>5. \A k \in 0 .. n : i <= k => Present(x, f[k])
  <2> DEFINE S == {k \in 0 .. n : i <= k => Present(x, f[k])}
  <2>1. 0 \in S
    BY <1>2
  <2>2. ASSUME NEW k \in 0 .. n, k < n, k \in S PROVE k + 1 \in S
    <3>1. k + 1 \in 1 .. n /\ k + 1 \in 0 .. n /\ (k + 1) - 1 = k
      BY <1>2, <2>2
    <3>2. CASE i <= k
      <4>1. f[k] \in Cutting /\ LineOf(text, k + 1) \in Seq(Runes) /\ Present(x, f[k])
        BY <2>2, <3>1, <3>2, LineTyped DEF n
      <4>2. f[k + 1] = KBase!Cut(f[k], LineOf(text, k + 1))
        BY <1>3, <3>1
      <4>3. Present(x, f[k + 1])
        BY <1>2, <4>1, <4>2, CutKeeps
      <4> QED
        BY <3>1, <4>3
    <3>3. CASE i = k + 1
      BY <1>4, <3>1, <3>3
    <3>4. CASE i > k + 1
      BY <1>2, <3>1, <3>4
    <3> QED
      BY <1>2, <3>2, <3>3, <3>4
  <2> HIDE DEF S
  <2>3. \A k \in 0 .. n : k < n /\ k \in S => k + 1 \in S
    BY <2>2
  <2>4. \A k \in 0 .. n : k \in S
    BY <1>2, <2>1, <2>3, Reached
  <2> QED
    BY <2>4 DEF S
<1>6. PICK last \in 0 .. n : /\ KBase!ChunkText(text) = KBase!Flushed(f[last])
                            /\ \A k \in last + 1 .. n : text[k] = 0
  BY <1>1 DEF Cuts, n
<1>7. i <= last
  <2>1. text[i] # 0
    BY LineTyped
  <2> QED
    BY <1>2, <1>6, <2>1
<1>8. f[last] \in Cutting /\ Present(x, f[last])
  BY <1>5, <1>7
<1>9. InSome(x, KBase!Flushed(f[last]))
  BY <1>2, <1>8, FlushedKeeps
<1> QED
  BY <1>6, <1>9 DEF x

-----------------------------------------------------------------------------
(* Knowledge *)

LEMMA CountIs == \A S : KBase!Cardinality(S) = Cardinality(S)
BY DEF KBase!Cardinality, Cardinality

Row == UNION {KBase!RowsOf(k, d, text) : k \in KBs, d \in Docs, text \in Texts}
BaseRow == [row : {"none", "there", "gone"}, docs : Nat, chunks : Nat]
Job == [at : KBase!Steps, kb : KBs \cup {NoKB}, todo : SUBSET Row, docs : Nat, chunks : Nat]

StoreTyped == backend \in KBase!Backends /\ IsFiniteSet(store) /\ store \subseteq Row

BasesTyped == base \in [KBs -> BaseRow] /\ alone \subseteq Requests /\ exact \subseteq KBs

(* A request that is under way works on one base. *)
JobsTyped ==
  /\ req \in [Requests -> Job]
  /\ \A r \in Requests :
       IF req[r].at = "idle" THEN req[r] = KBase!Idle
       ELSE req[r].kb \in KBs /\ \A s \in req[r].todo : s.kb = req[r].kb

Alone == \A r \in alone : req[r].at # "idle" /\ \A q \in Requests : req[q].kb = req[r].kb => q = r

(* The store has as many of a base as are counted. *)
Right(k, docs, chunks) ==
  docs = KBase!Cardinality(KBase!DocsIn(k)) /\ chunks = KBase!Cardinality(KBase!ChunksIn(k))

BaseRight(k) == Right(k, base[k].docs, base[k].chunks)
JobRight(r) == Right(req[r].kb, req[r].docs, req[r].chunks)
DocsRight(r) == req[r].docs = KBase!Cardinality(KBase!DocsIn(req[r].kb))

(* Nothing is done on a base before it is there. *)
NoneYet ==
  \A k \in KBs :
    base[k].row = "none" => KBase!On(k) = {} /\ KBase!ChunksIn(k) = {} /\ BaseRight(k)

(* What a request that has its base for itself will write is right, and    *)
(* what it has counted so far.                                             *)
Known(r) ==
  /\ req[r].at = "counted" \/ (req[r].at = "editing" /\ req[r].kb \in exact) => JobRight(r)
  /\ req[r].at = "summing" => DocsRight(r)

JobsRight == \A r \in alone : Known(r)

BasesRight ==
  \A k \in exact : base[k].row = "there" /\ KBase!On(k) = {} => BaseRight(k)

KnowledgeTyped == StoreTyped /\ BasesTyped /\ JobsTyped
KnowledgeInv == KnowledgeTyped /\ Alone /\ NoneYet /\ JobsRight /\ BasesRight

LEMMA CountsSound == KnowledgeInv => KBase!CountsRight
BY DEF KnowledgeInv, BasesRight, BaseRight, Right, KBase!CountsRight

LEMMA KnowledgeInit == KBase!Init => KnowledgeInv
<1> SUFFICES ASSUME KBase!Init PROVE KnowledgeInv
  OBVIOUS
<1>1. /\ backend \in KBase!Backends /\ store = {} /\ alone = {} /\ exact = KBs
      /\ base = [k \in KBs |-> [row |-> "none", docs |-> 0, chunks |-> 0]]
      /\ req = [r \in Requests |-> KBase!Idle]
  BY DEF KBase!Init
<1>2. StoreTyped /\ BasesTyped
  BY <1>1, FS_EmptySet DEF StoreTyped, BasesTyped, BaseRow
<1>3. JobsTyped
  BY <1>1 DEF JobsTyped, Job, KBase!Idle, KBase!Steps
<1>4. \A k \in KBs : KBase!On(k) = {}
  BY <1>1, KnowledgeAssumption DEF KBase!On, KBase!Idle
<1>5. \A k \in KBs : KBase!ChunksIn(k) = {} /\ KBase!DocsIn(k) = {}
  BY <1>1 DEF KBase!ChunksIn, KBase!DocsIn
<1>6. \A k \in KBs : Right(k, 0, 0)
  BY <1>5, CountIs, FS_EmptySet DEF Right
<1>7. \A k \in KBs : base[k].row = "none" /\ base[k].docs = 0 /\ base[k].chunks = 0
  BY <1>1
<1>8. NoneYet /\ BasesRight
  BY <1>1, <1>4, <1>5, <1>6, <1>7 DEF NoneYet, BasesRight, BaseRight
<1>9. Alone /\ JobsRight
  BY <1>1 DEF Alone, JobsRight
<1> QED
  BY <1>2, <1>3, <1>8, <1>9 DEF KnowledgeInv, KnowledgeTyped

LEMMA BaseStays ==
  ASSUME NEW k, KBase!ChunksIn(k)' = KBase!ChunksIn(k), base'[k] = base[k]
  PROVE  BaseRight(k)' <=> BaseRight(k)
BY DEF BaseRight, Right, KBase!DocsIn

LEMMA JobStays ==
  ASSUME NEW r, KBase!ChunksIn(req[r].kb)' = KBase!ChunksIn(req[r].kb), req'[r] = req[r]
  PROVE  /\ JobRight(r)' <=> JobRight(r)
         /\ DocsRight(r)' <=> DocsRight(r)
<1>1. KBase!DocsIn(req[r].kb)' = KBase!DocsIn(req[r].kb)
  BY DEF KBase!DocsIn
<1> QED
  BY <1>1 DEF JobRight, DocsRight, Right, KBase!Cardinality

LEMMA CountsNat ==
  ASSUME StoreTyped, NEW k
  PROVE  KBase!Cardinality(KBase!DocsIn(k)) \in Nat /\ KBase!Cardinality(KBase!ChunksIn(k)) \in Nat
<1>1. KBase!ChunksIn(k) \subseteq store
  BY DEF KBase!ChunksIn
<1>2. IsFiniteSet(KBase!ChunksIn(k))
  BY <1>1, FS_Subset DEF StoreTyped
<1>3. IsFiniteSet(KBase!DocsIn(k))
  <2> DEFINE doc == [s \in KBase!ChunksIn(k) |-> s.doc]
  <2>1. doc \in Surjection(KBase!ChunksIn(k), KBase!DocsIn(k))
    BY DEF Surjection, KBase!DocsIn
  <2> HIDE DEF doc
  <2> QED
    BY <1>2, <2>1, FS_Surjection
<1> QED
  BY <1>2, <1>3, FS_CardinalityType, CountIs

(* What is done on one base leaves everything of another right. *)
Beside(k, r) ==
  /\ \A q \in Requests \ {r} : req'[q] = req[q]
  /\ {req[r].kb, req'[r].kb} \subseteq {k, NoKB}
  /\ \A j \in KBs \ {k} : base'[j] = base[j] /\ (j \in exact' => j \in exact)
  /\ {s \in store' : s.kb # k} = {s \in store : s.kb # k}
  /\ \A q \in Requests \ {r} : q \in alone' => q \in alone

LEMMA BasesBeside ==
  ASSUME KnowledgeInv, NEW k \in KBs, NEW r \in Requests, Beside(k, r), NEW j \in KBs, j # k
  PROVE  /\ base'[j].row = "none" => KBase!On(j)' = {} /\ KBase!ChunksIn(j)' = {} /\ BaseRight(j)'
         /\ j \in exact' /\ base'[j].row = "there" /\ KBase!On(j)' = {} => BaseRight(j)'
<1>1. KBase!On(j)' = KBase!On(j)
  BY KnowledgeAssumption DEF KBase!On, Beside
<1>2. base'[j] = base[j] /\ KBase!ChunksIn(j)' = KBase!ChunksIn(j) /\ (j \in exact' => j \in exact)
  BY DEF Beside, KBase!ChunksIn
<1>3. BaseRight(j)' <=> BaseRight(j)
  BY <1>2, BaseStays
<1>4. /\ base[j].row = "none" => KBase!On(j) = {} /\ KBase!ChunksIn(j) = {} /\ BaseRight(j)
      /\ j \in exact /\ base[j].row = "there" /\ KBase!On(j) = {} => BaseRight(j)
  BY DEF KnowledgeInv, NoneYet, BasesRight
<1> QED
  BY <1>1, <1>2, <1>3, <1>4

LEMMA JobsBeside ==
  ASSUME KnowledgeInv, NEW k \in KBs, NEW r \in Requests, Beside(k, r),
         NEW q \in Requests, q # r, q \in alone', req[q].kb # k
  PROVE  q \in alone /\ req'[q] = req[q] /\ req[q].kb \in KBs /\ Known(q)'
<1>1. q \in alone /\ req'[q] = req[q]
  BY DEF Beside
<1>2. req[q].kb \in KBs \ {k}
  BY <1>1 DEF KnowledgeInv, KnowledgeTyped, JobsTyped, Alone
<1>3. KBase!ChunksIn(req[q].kb)' = KBase!ChunksIn(req[q].kb) /\ (req[q].kb \in exact' => req[q].kb \in exact)
  BY <1>2 DEF Beside, KBase!ChunksIn
<1>4. (JobRight(q)' <=> JobRight(q)) /\ (DocsRight(q)' <=> DocsRight(q))
  BY <1>1, <1>3, JobStays
<1>5. Known(q)
  BY <1>1 DEF KnowledgeInv, JobsRight
<1>6. Known(q)'
  BY <1>1, <1>3, <1>4, <1>5 DEF Known
<1> QED
  BY <1>1, <1>2, <1>6

(* The beginning of a request: whoever is on its base is not alone.       *)
LEMMA BeginsInv ==
  ASSUME KnowledgeInv, NEW r \in Requests, NEW k \in KBs, NEW job \in Job, KBase!Begin(r, k, job),
         UNCHANGED <<backend, base, store>>, job.kb = k, \A s \in job.todo : s.kb = k,
         job.at \in {"editing", "adding", "removing", "dropping"},
         job.at = "editing" => job.docs = base[k].docs /\ job.chunks = base[k].chunks
  PROVE  KnowledgeInv'
<1>1. /\ req[r] = KBase!Idle /\ base[k].row = "there" /\ req' = [req EXCEPT ![r] = job]
      /\ alone' = IF KBase!On(k) = {} THEN alone \cup {r} ELSE alone \ KBase!On(k)
      /\ exact' = IF KBase!On(k) = {} THEN exact ELSE exact \ {k}
  BY DEF KBase!Begin
<1>2. req \in [Requests -> Job] /\ req[r].kb = NoKB /\ req[r].at = "idle" /\ r \notin alone
  BY <1>1 DEF KnowledgeInv, KnowledgeTyped, JobsTyped, Alone, KBase!Idle
<1>3. req'[r] = job /\ \A q \in Requests \ {r} : req'[q] = req[q]
  BY <1>1, <1>2
<1>4. KnowledgeTyped'
  BY <1>1, <1>2, <1>3 DEF KnowledgeInv, KnowledgeTyped, StoreTyped, BasesTyped, JobsTyped
<1>5. Beside(k, r)
  BY <1>1, <1>2, <1>3 DEF Beside
<1>6. ASSUME NEW q \in alone', q # r PROVE q \in alone /\ q \in Requests /\ req[q].kb # k
  BY <1>1, <1>6 DEF KnowledgeInv, KnowledgeTyped, BasesTyped, KBase!On
<1>7. ASSUME r \in alone' PROVE KBase!On(k) = {} /\ exact' = exact
  BY <1>1, <1>2, <1>7
<1>8. Alone'
  <2>1. ASSUME NEW q \in alone', q # r
        PROVE  req'[q].at # "idle" /\ \A p \in Requests : req'[p].kb = req'[q].kb => p = q
    BY <1>3, <1>6, <2>1 DEF KnowledgeInv, Alone
  <2>2. ASSUME r \in alone'
        PROVE  req'[r].at # "idle" /\ \A p \in Requests : req'[p].kb = req'[r].kb => p = r
    BY <1>3, <1>7, <2>2 DEF KBase!On
  <2> QED
    BY <2>1, <2>2 DEF Alone
<1>9. r \in KBase!On(k)'
  BY <1>3 DEF KBase!On
<1>10. NoneYet'
  BY <1>1, <1>5, BasesBeside DEF NoneYet
<1>11. BasesRight'
  <2>1. exact' \subseteq KBs
    BY <1>4 DEF KnowledgeTyped, BasesTyped
  <2> QED
    BY <1>5, <1>9, <2>1, BasesBeside DEF BasesRight
<1>12. JobsRight'
  <2>1. ASSUME NEW q \in alone', q # r PROVE Known(q)'
    BY <1>5, <1>6, <2>1, JobsBeside
  <2>2. ASSUME r \in alone', req'[r].at = "editing", req'[r].kb \in exact' PROVE JobRight(r)'
    <3>1. BaseRight(k)
      BY <1>1, <1>3, <1>7, <2>2 DEF KnowledgeInv, BasesRight
    <3>2. BaseRight(k)'
      BY <3>1 DEF BaseRight, Right, KBase!DocsIn, KBase!ChunksIn
    <3>3. req'[r].kb = k /\ req'[r].docs = base'[k].docs /\ req'[r].chunks = base'[k].chunks
      BY <1>3, <2>2
    <3> QED
      BY <3>2, <3>3 DEF BaseRight, JobRight
  <2>3. req'[r].at \notin {"counted", "summing"}
    BY <1>3
  <2> QED
    BY <2>1, <2>2, <2>3 DEF JobsRight, Known
<1> QED
  BY <1>4, <1>8, <1>10, <1>11, <1>12 DEF KnowledgeInv

Apart(k, rows, others) == \A s \in Row : s.kb # k => (s \in rows <=> s \in others)

(* One step of a request that is under way. *)
LEMMA MovesInv ==
  ASSUME KnowledgeInv, NEW r \in Requests, NEW k \in KBs, NEW job \in Job,
         req[r].at # "idle", req[r].kb = k, job.kb = k, \A s \in job.todo : s.kb = k,
         job.at \notin {"idle", "editing"},
         req' = [req EXCEPT ![r] = job], UNCHANGED <<backend, base, alone, exact>>,
         IsFiniteSet(store'), store' \subseteq Row,
         Apart(k, store', store),
         r \in alone /\ job.at = "summing" => store' = store /\ job.docs = KBase!Cardinality(KBase!DocsIn(k)),
         r \in alone /\ job.at = "counted" => store' = store /\ Right(k, job.docs, job.chunks)
  PROVE  KnowledgeInv'
<1>1. req \in [Requests -> Job] /\ req'[r] = job /\ \A q \in Requests \ {r} : req'[q] = req[q]
  BY DEF KnowledgeInv, KnowledgeTyped, JobsTyped
<1>2. KnowledgeTyped'
  BY <1>1 DEF KnowledgeInv, KnowledgeTyped, StoreTyped, BasesTyped, JobsTyped
<1>3. Beside(k, r)
  <2>1. {s \in store' : s.kb # k} = {s \in store : s.kb # k}
    BY DEF Apart, KnowledgeInv, KnowledgeTyped, StoreTyped
  <2> QED
    BY <1>1, <2>1 DEF Beside
<1>4. \A q \in Requests : req'[q].kb = req[q].kb
  BY <1>1
<1>5. Alone'
  BY <1>1, <1>2, <1>4 DEF KnowledgeInv, Alone, KnowledgeTyped, BasesTyped
<1>6. r \in KBase!On(k) /\ r \in KBase!On(k)'
  BY <1>1 DEF KBase!On
<1>7. NoneYet'
  <2>1. base'[k].row # "none"
    BY <1>6 DEF KnowledgeInv, NoneYet
  <2> QED
    BY <1>3, <2>1, BasesBeside DEF NoneYet
<1>8. BasesRight'
  <2>1. exact' \subseteq KBs
    BY <1>2 DEF KnowledgeTyped, BasesTyped
  <2> QED
    BY <1>3, <1>6, <2>1, BasesBeside DEF BasesRight
<1>9. JobsRight'
  <2>1. ASSUME NEW q \in alone', q # r PROVE Known(q)'
    <3>1. q \in Requests /\ req[q].kb # k
      BY <2>1 DEF KnowledgeInv, KnowledgeTyped, BasesTyped, Alone
    <3> QED
      BY <1>3, <2>1, <3>1, JobsBeside
  <2>2. ASSUME r \in alone, req'[r].at = "counted" PROVE JobRight(r)'
    <3>1. store' = store /\ Right(k, job.docs, job.chunks)
      BY <1>1, <2>2
    <3> QED
      BY <1>1, <3>1 DEF JobRight, Right, KBase!DocsIn, KBase!ChunksIn
  <2>3. ASSUME r \in alone, req'[r].at = "summing"
        PROVE  DocsRight(r)'
    <3>1. store' = store /\ job.docs = KBase!Cardinality(KBase!DocsIn(k))
      BY <1>1, <2>3
    <3> QED
      BY <1>1, <3>1 DEF DocsRight, KBase!DocsIn, KBase!ChunksIn
  <2>4. req'[r].at # "editing"
    BY <1>1
  <2>5. r \in alone => Known(r)'
    BY <2>2, <2>3, <2>4 DEF Known
  <2> QED
    BY <2>1, <2>5 DEF JobsRight
<1> QED
  BY <1>2, <1>5, <1>7, <1>8, <1>9 DEF KnowledgeInv

(* The end of a request: the base is right if it had it for itself, and    *)
(* what is known of it is kept.                                            *)
LEMMA EndsInv ==
  ASSUME KnowledgeInv, NEW r \in Requests, NEW k \in KBs, NEW ok \in BOOLEAN,
         req[r].at # "idle", req[r].kb = k, KBase!End(r, ok), UNCHANGED <<backend, store>>,
         base' \in [KBs -> BaseRow], \A j \in KBs \ {k} : base'[j] = base[j], base'[k].row # "none",
         r \in alone /\ ok /\ base'[k].row = "there" => BaseRight(k)'
  PROVE  KnowledgeInv'
<1>1. /\ req' = [req EXCEPT ![r] = KBase!Idle] /\ alone' = alone \ {r}
      /\ exact' = IF ok /\ r \in alone THEN exact \cup {k} ELSE exact \ {k}
  BY DEF KBase!End
<1>2. /\ req \in [Requests -> Job] /\ KBase!Idle \in Job
      /\ KBase!Idle.kb = NoKB /\ KBase!Idle.at = "idle"
  BY DEF KnowledgeInv, KnowledgeTyped, JobsTyped, Job, KBase!Idle, KBase!Steps
<1>3. req'[r] = KBase!Idle /\ \A q \in Requests \ {r} : req'[q] = req[q]
  BY <1>1, <1>2
<1>4. KnowledgeTyped'
  BY <1>1, <1>2, <1>3 DEF KnowledgeInv, KnowledgeTyped, StoreTyped, BasesTyped, JobsTyped
<1>5. Beside(k, r)
  BY <1>1, <1>2, <1>3 DEF Beside
<1>6. ASSUME NEW q \in alone'
      PROVE  q # r /\ q \in alone /\ q \in Requests /\ req[q].kb # k /\ req[q].kb \in KBs
  BY <1>1, <1>6 DEF KnowledgeInv, KnowledgeTyped, BasesTyped, JobsTyped, Alone
<1>7. Alone'
  <2>1. ASSUME NEW q \in alone'
        PROVE  req'[q].at # "idle" /\ \A p \in Requests : req'[p].kb = req'[q].kb => p = q
    BY <1>2, <1>3, <1>6, <2>1, KnowledgeAssumption DEF KnowledgeInv, Alone
  <2> QED
    BY <2>1 DEF Alone
<1>8. NoneYet'
  BY <1>5, BasesBeside DEF NoneYet
<1>9. BasesRight'
  <2>1. exact' \subseteq KBs
    BY <1>4 DEF KnowledgeTyped, BasesTyped
  <2>2. ASSUME k \in exact', base'[k].row = "there" PROVE BaseRight(k)'
    BY <1>1, <2>2
  <2> QED
    BY <1>5, <2>1, <2>2, BasesBeside DEF BasesRight
<1>10. JobsRight'
  <2>1. ASSUME NEW q \in alone' PROVE Known(q)'
    BY <1>5, <1>6, <2>1, JobsBeside
  <2> QED
    BY <2>1 DEF JobsRight
<1> QED
  BY <1>4, <1>7, <1>8, <1>9, <1>10 DEF KnowledgeInv

LEMMA DocumentRowsTyped ==
  ASSUME NEW k \in KBs, NEW d \in Docs, NEW text \in Texts
  PROVE  KBase!RowsOf(k, d, text) \subseteq Row /\ \A s \in KBase!RowsOf(k, d, text) : s.kb = k
<1>1. KBase!RowsOf(k, d, text) \subseteq Row
  BY DEF Row
<1>2. \A s \in KBase!RowsOf(k, d, text) : s.kb = k
  BY DEF KBase!RowsOf
<1> QED
  BY <1>1, <1>2

LEMMA OpensInv ==
  ASSUME KnowledgeInv, NEW r \in Requests, NEW k \in KBs,
         \/ KBase!OpenForEdit(r, k)
         \/ \E mode \in {"removing", "dropping"} : KBase!OpenForDelete(r, k, mode)
         \/ \E d \in Docs, text \in Texts : KBase!IndexDocument(r, k, d, text)
  PROVE  KnowledgeInv'
<1>1. UNCHANGED <<backend, base, store>> /\ base[k] \in BaseRow
  <2>1. UNCHANGED <<backend, base, store>>
    BY DEF KBase!OpenForEdit, KBase!OpenForDelete, KBase!IndexDocument
  <2> QED
    BY <2>1 DEF KnowledgeInv, KnowledgeTyped, BasesTyped
<1>2. CASE KBase!OpenForEdit(r, k)
  <2> DEFINE job == [KBase!Idle EXCEPT !.at = "editing", !.kb = k, !.docs = base[k].docs, !.chunks = base[k].chunks]
  <2>1. /\ job \in Job /\ job.at = "editing" /\ job.kb = k /\ job.todo = {}
        /\ job.docs = base[k].docs /\ job.chunks = base[k].chunks
    BY <1>1 DEF KBase!Idle, KBase!Steps, Job, BaseRow
  <2>2. KBase!Begin(r, k, job)
    BY <1>2 DEF KBase!OpenForEdit
  <2> HIDE DEF job
  <2> QED
    BY <1>1, <2>1, <2>2, BeginsInv
<1>3. ASSUME NEW mode \in {"removing", "dropping"}, KBase!OpenForDelete(r, k, mode) PROVE KnowledgeInv'
  <2> DEFINE job == [KBase!Idle EXCEPT !.at = mode, !.kb = k]
  <2>1. job \in Job /\ job.at = mode /\ job.kb = k /\ job.todo = {}
    BY DEF KBase!Idle, KBase!Steps, Job
  <2>2. KBase!Begin(r, k, job)
    BY <1>3 DEF KBase!OpenForDelete
  <2> HIDE DEF job
  <2> QED
    BY <1>1, <2>1, <2>2, BeginsInv
<1>4. ASSUME NEW d \in Docs, NEW text \in Texts, KBase!IndexDocument(r, k, d, text) PROVE KnowledgeInv'
  <2> DEFINE rows == KBase!RowsOf(k, d, text)
             job == [KBase!Idle EXCEPT !.at = "adding", !.kb = k, !.todo = rows]
  <2>1. rows \in SUBSET Row /\ \A s \in rows : s.kb = k
    BY DocumentRowsTyped
  <2>2. KBase!Begin(r, k, job)
    BY <1>4, Zenon DEF KBase!IndexDocument
  <2> HIDE DEF rows
  <2>3. job \in Job /\ job.at = "adding" /\ job.kb = k /\ job.todo = rows
    BY <2>1 DEF KBase!Idle, KBase!Steps, Job
  <2> HIDE DEF job
  <2> QED
    BY <1>1, <2>1, <2>2, <2>3, BeginsInv
<1> QED
  BY <1>2, <1>3, <1>4

LEMMA JobTyped ==
  ASSUME KnowledgeInv, NEW r \in Requests, req[r].at # "idle"
  PROVE  /\ req \in [Requests -> Job] /\ req[r] \in Job /\ req[r].kb \in KBs
         /\ req[r].todo \subseteq Row /\ \A s \in req[r].todo : s.kb = req[r].kb
         /\ IsFiniteSet(store) /\ store \subseteq Row
BY DEF KnowledgeInv, KnowledgeTyped, JobsTyped, StoreTyped, Job

LEMMA AddedInv ==
  ASSUME KnowledgeInv, NEW r \in Requests, NEW k \in KBs, req[r].kb = k, req[r].at \in {"adding", "inserting"},
         NEW s \in KBase!First(req[r].todo), KBase!Added(r, s), UNCHANGED <<backend, base>>
  PROVE  KnowledgeInv'
<1> DEFINE mode == IF req[r].todo = {s} THEN "counting" ELSE "adding"
           job == [req[r] EXCEPT !.todo = req[r].todo \ {s}, !.at = mode]
<1>1. /\ req \in [Requests -> Job] /\ req[r] \in Job /\ IsFiniteSet(store) /\ store \subseteq Row
      /\ \A t \in req[r].todo : t.kb = k
      /\ req[r].todo \subseteq Row
  BY JobTyped
<1>2. s \in req[r].todo
  BY DEF KBase!First
<1>3. /\ store' = store \cup {s} /\ UNCHANGED <<alone, exact>>
      /\ req' = [req EXCEPT ![r].todo = req[r].todo \ {s}, ![r].at = mode]
  BY <1>1 DEF KBase!Added
<1>4. mode \in {"counting", "adding"}
  OBVIOUS
<1> HIDE DEF mode
<1>5. job \in Job /\ job.at = mode /\ job.kb = k /\ \A t \in job.todo : t.kb = k
  BY <1>1, <1>4 DEF Job, KBase!Steps
<1>6. req' = [req EXCEPT ![r] = job]
  BY <1>1, <1>3, Zenon
<1>7. IsFiniteSet(store') /\ store' \subseteq Row
  BY <1>1, <1>2, <1>3, FS_AddElement
<1>8. Apart(k, store', store)
  BY <1>1, <1>2, <1>3 DEF Apart
<1> HIDE DEF job
<1> QED
  BY <1>1, <1>3, <1>4, <1>5, <1>6, <1>7, <1>8, MovesInv

LEMMA OldRowInv ==
  ASSUME KnowledgeInv, NEW r \in Requests, NEW k \in KBs, req[r].kb = k, KBase!DeleteOldRow(r)
  PROVE  KnowledgeInv'
<1> DEFINE job == [req[r] EXCEPT !.at = "inserting"]
<1>1. /\ req[r].at = "adding" /\ store' = store \ KBase!First(req[r].todo)
      /\ req' = [req EXCEPT ![r].at = "inserting"]
      /\ UNCHANGED <<backend, base, alone, exact>>
  BY DEF KBase!DeleteOldRow
<1>2. /\ req \in [Requests -> Job] /\ req[r] \in Job /\ IsFiniteSet(store) /\ store \subseteq Row
      /\ \A t \in req[r].todo : t.kb = k
  BY <1>1, JobTyped
<1>3. job \in Job /\ job.at = "inserting" /\ job.kb = k /\ \A t \in job.todo : t.kb = k
  BY <1>2 DEF Job, KBase!Steps
<1>4. req' = [req EXCEPT ![r] = job]
  BY <1>1, <1>2, Zenon
<1>5. IsFiniteSet(store') /\ store' \subseteq Row
  BY <1>1, <1>2, FS_Subset
<1>6. Apart(k, store', store)
  BY <1>1, <1>2 DEF Apart, KBase!First
<1> HIDE DEF job
<1> QED
  BY <1>1, <1>2, <1>3, <1>4, <1>5, <1>6, MovesInv

(* What takes rows of the base away, and goes on to another step.          *)
LEMMA RemovesInv ==
  ASSUME KnowledgeInv, NEW r \in Requests, NEW k \in KBs, req[r].kb = k, req[r].at # "idle",
         NEW mode \in {"counting", "dropped"}, req' = [req EXCEPT ![r].at = mode],
         UNCHANGED <<backend, base, alone, exact>>, store' \subseteq store, Apart(k, store', store)
  PROVE  KnowledgeInv'
<1> DEFINE job == [req[r] EXCEPT !.at = mode]
<1>1. /\ req \in [Requests -> Job] /\ req[r] \in Job /\ IsFiniteSet(store) /\ store \subseteq Row
      /\ \A t \in req[r].todo : t.kb = k
  BY JobTyped
<1>2. job \in Job /\ job.at = mode /\ job.kb = k /\ \A t \in job.todo : t.kb = k
  BY <1>1 DEF Job, KBase!Steps
<1>3. req' = [req EXCEPT ![r] = job]
  BY <1>1, Zenon
<1>4. IsFiniteSet(store') /\ store' \subseteq Row
  BY <1>1, FS_Subset
<1> HIDE DEF job
<1> QED
  BY <1>2, <1>3, <1>4, MovesInv

LEMMA RemovalInv ==
  ASSUME KnowledgeInv, NEW r \in Requests, NEW k \in KBs, req[r].kb = k,
         (\E d \in Docs : KBase!DeleteDocument(r, d)) \/ KBase!DeleteVectors(r)
  PROVE  KnowledgeInv'
<1>1. store' \subseteq store /\ Apart(k, store', store)
  BY DEF Apart, KBase!DeleteDocument, KBase!DeleteVectors, KBase!ChunksIn
<1>2. /\ req[r].at # "idle" /\ UNCHANGED <<backend, base, alone, exact>>
      /\ \E mode \in {"counting", "dropped"} : req' = [req EXCEPT ![r].at = mode]
  BY DEF KBase!DeleteDocument, KBase!DeleteVectors
<1> QED
  BY <1>1, <1>2, RemovesInv

LEMMA CountDocumentsInv ==
  ASSUME KnowledgeInv, NEW r \in Requests, NEW k \in KBs, req[r].kb = k, KBase!CountDocuments(r)
  PROVE  KnowledgeInv'
<1> DEFINE docs == KBase!Cardinality(KBase!DocsIn(k))
           job == [req[r] EXCEPT !.at = "summing", !.docs = docs]
<1>1. /\ req[r].at = "counting"
      /\ req' = [req EXCEPT ![r].at = "summing", ![r].docs = docs]
      /\ UNCHANGED <<backend, base, store, alone, exact>>
  BY DEF KBase!CountDocuments
<1>2. /\ req \in [Requests -> Job] /\ req[r] \in Job /\ IsFiniteSet(store) /\ store \subseteq Row
      /\ \A t \in req[r].todo : t.kb = k
  BY <1>1, JobTyped
<1>3. docs \in Nat
  BY CountsNat DEF KnowledgeInv, KnowledgeTyped
<1>4. docs = KBase!Cardinality(KBase!DocsIn(k))
  OBVIOUS
<1> HIDE DEF docs
<1>5. /\ job \in Job /\ job.at = "summing" /\ job.kb = k /\ job.docs = docs
      /\ \A t \in job.todo : t.kb = k
  BY <1>2, <1>3 DEF Job, KBase!Steps
<1>6. req' = [req EXCEPT ![r] = job]
  BY <1>1, <1>2, Zenon
<1>7. IsFiniteSet(store') /\ store' \subseteq Row /\ Apart(k, store', store)
  BY <1>1, <1>2 DEF Apart
<1> HIDE DEF job
<1> QED
  BY <1>1, <1>4, <1>5, <1>6, <1>7, MovesInv

LEMMA CountChunksInv ==
  ASSUME KnowledgeInv, NEW r \in Requests, NEW k \in KBs, req[r].kb = k, KBase!CountChunks(r)
  PROVE  KnowledgeInv'
<1> DEFINE chunks == KBase!Cardinality(KBase!ChunksIn(k))
           job == [req[r] EXCEPT !.at = "counted", !.chunks = chunks]
<1>1. /\ req[r].at = "summing"
      /\ req' = [req EXCEPT ![r].at = "counted", ![r].chunks = chunks]
      /\ UNCHANGED <<backend, base, store, alone, exact>>
  BY DEF KBase!CountChunks
<1>2. /\ req \in [Requests -> Job] /\ req[r] \in Job /\ IsFiniteSet(store) /\ store \subseteq Row
      /\ \A t \in req[r].todo : t.kb = k
  BY <1>1, JobTyped
<1>3. chunks \in Nat
  BY CountsNat DEF KnowledgeInv, KnowledgeTyped
<1>4. r \in alone => Right(k, req[r].docs, chunks)
  BY <1>1 DEF KnowledgeInv, JobsRight, Known, DocsRight, Right
<1> HIDE DEF chunks
<1>5. /\ job \in Job /\ job.at = "counted" /\ job.kb = k /\ job.docs = req[r].docs /\ job.chunks = chunks
      /\ \A t \in job.todo : t.kb = k
  BY <1>2, <1>3 DEF Job, KBase!Steps
<1>6. req' = [req EXCEPT ![r] = job]
  BY <1>1, <1>2, Zenon
<1>7. IsFiniteSet(store') /\ store' \subseteq Row /\ Apart(k, store', store)
  BY <1>1, <1>2 DEF Apart
<1> HIDE DEF job
<1> QED
  BY <1>1, <1>4, <1>5, <1>6, <1>7, MovesInv

(* A request that ends leaves its row as it was, deleted, or with counts   *)
(* that were right when it had the base for itself.                        *)
LEMMA StopsInv ==
  ASSUME KnowledgeInv, NEW r \in Requests, NEW k \in KBs, req[r].kb = k, req[r].at # "idle",
         KBase!End(r, FALSE), UNCHANGED <<backend, store>>,
         base' = base \/ base' = [base EXCEPT ![k].row = "gone"]
  PROVE  KnowledgeInv'
<1>1. base \in [KBs -> BaseRow] /\ base[k] \in BaseRow /\ r \in KBase!On(k)
  BY DEF KnowledgeInv, KnowledgeTyped, BasesTyped, KBase!On
<1>2. base[k].row # "none"
  BY <1>1 DEF KnowledgeInv, NoneYet
<1>3. [base[k] EXCEPT !.row = "gone"] \in BaseRow
  BY <1>1 DEF BaseRow
<1>4. base' = base \/ base' = [base EXCEPT ![k] = [base[k] EXCEPT !.row = "gone"]]
  BY <1>1
<1>5. base' \in [KBs -> BaseRow] /\ \A j \in KBs \ {k} : base'[j] = base[j]
  BY <1>1, <1>3, <1>4
<1>6. base'[k].row # "none"
  BY <1>1, <1>2, <1>4 DEF BaseRow
<1> QED
  BY <1>5, <1>6, EndsInv

LEMMA WriteCountsInv ==
  ASSUME KnowledgeInv, NEW r \in Requests, NEW k \in KBs, req[r].kb = k, KBase!WriteCounts(r)
  PROVE  KnowledgeInv'
<1> DEFINE next == [base[k] EXCEPT !.docs = req[r].docs, !.chunks = req[r].chunks]
<1>1. /\ req[r].at = "counted" /\ KBase!End(r, TRUE) /\ UNCHANGED <<backend, store>>
      /\ base' = IF base[k].row = "there"
                 THEN [base EXCEPT ![k].docs = req[r].docs, ![k].chunks = req[r].chunks] ELSE base
  BY DEF KBase!WriteCounts
<1>2. req[r] \in Job
  BY <1>1, JobTyped
<1>3. base \in [KBs -> BaseRow] /\ base[k] \in BaseRow /\ r \in KBase!On(k)
  BY <1>2 DEF KnowledgeInv, KnowledgeTyped, BasesTyped, KBase!On
<1>4. base[k].row # "none"
  BY <1>2, <1>3 DEF KnowledgeInv, NoneYet
<1>5. next \in BaseRow /\ next.row = base[k].row /\ next.docs = req[r].docs /\ next.chunks = req[r].chunks
  BY <1>2, <1>3 DEF BaseRow, Job
<1>6. base' = IF base[k].row = "there" THEN [base EXCEPT ![k] = next] ELSE base
  BY <1>1, <1>2, <1>3, Zenon
<1> HIDE DEF next
<1>7. /\ base' \in [KBs -> BaseRow] /\ \A j \in KBs \ {k} : base'[j] = base[j]
      /\ base'[k].row = base[k].row
      /\ base'[k].row = "there" => base'[k].docs = req[r].docs /\ base'[k].chunks = req[r].chunks
  BY <1>2, <1>3, <1>5, <1>6
<1>8. ASSUME r \in alone, base'[k].row = "there" PROVE BaseRight(k)'
  <2>1. Right(k, req[r].docs, req[r].chunks)
    BY <1>1, <1>8 DEF KnowledgeInv, JobsRight, Known, JobRight
  <2> QED
    BY <1>1, <1>7, <1>8, <2>1 DEF BaseRight, Right, KBase!DocsIn, KBase!ChunksIn
<1> QED
  BY <1>1, <1>2, <1>4, <1>7, <1>8, EndsInv

(* A base saved whole has the counts it was read with.                     *)
LEMMA SavedInv ==
  ASSUME KnowledgeInv, NEW r \in Requests, NEW k \in KBs, req[r].kb = k, KBase!UpdateKnowledgeBase(r)
  PROVE  KnowledgeInv'
<1> DEFINE next == [row |-> "there", docs |-> req[r].docs, chunks |-> req[r].chunks]
<1>1. /\ req[r].at = "editing" /\ KBase!End(r, k \in exact) /\ UNCHANGED <<backend, store>>
      /\ base' = [base EXCEPT ![k] = next]
  BY DEF KBase!UpdateKnowledgeBase
<1>2. req[r] \in Job
  BY <1>1, JobTyped
<1>3. base \in [KBs -> BaseRow]
  BY DEF KnowledgeInv, KnowledgeTyped, BasesTyped
<1>4. next \in BaseRow /\ next.row = "there" /\ next.docs = req[r].docs /\ next.chunks = req[r].chunks
  BY <1>2 DEF BaseRow, Job
<1> HIDE DEF next
<1>5. /\ base' \in [KBs -> BaseRow] /\ base'[k] = next /\ \A j \in KBs \ {k} : base'[j] = base[j]
  BY <1>1, <1>2, <1>3, <1>4
<1>6. ASSUME r \in alone, k \in exact PROVE BaseRight(k)'
  <2>1. Right(k, req[r].docs, req[r].chunks)
    BY <1>1, <1>6 DEF KnowledgeInv, JobsRight, Known, JobRight
  <2> QED
    BY <1>1, <1>4, <1>5, <2>1 DEF BaseRight, Right, KBase!DocsIn, KBase!ChunksIn
<1>7. (k \in exact) \in BOOLEAN
  OBVIOUS
<1> QED
  BY <1>1, <1>2, <1>4, <1>5, <1>6, <1>7, EndsInv

LEMMA BaseCreatedInv ==
  ASSUME KnowledgeInv, NEW k \in KBs, KBase!CreateKnowledgeBase(k)
  PROVE  KnowledgeInv'
<1> DEFINE next == [base[k] EXCEPT !.row = "there"]
<1>1. base[k].row = "none" /\ base' = [base EXCEPT ![k] = next] /\ UNCHANGED <<backend, store, req, alone, exact>>
  BY DEF KBase!CreateKnowledgeBase, KnowledgeInv, KnowledgeTyped, BasesTyped
<1>2. base \in [KBs -> BaseRow] /\ base[k] \in BaseRow
  BY DEF KnowledgeInv, KnowledgeTyped, BasesTyped
<1>3. next \in BaseRow /\ next.row = "there" /\ next.docs = base[k].docs /\ next.chunks = base[k].chunks
  BY <1>2 DEF BaseRow
<1> HIDE DEF next
<1>4. base' \in [KBs -> BaseRow] /\ base'[k] = next /\ \A j \in KBs \ {k} : base'[j] = base[j]
  BY <1>1, <1>2, <1>3
<1>5. \A j \in KBs : base'[j].docs = base[j].docs /\ base'[j].chunks = base[j].chunks
  BY <1>3, <1>4
<1>6. \A j \in KBs : BaseRight(j)' <=> BaseRight(j)
  BY <1>1, <1>5 DEF BaseRight, Right, KBase!DocsIn, KBase!ChunksIn
<1>7. BaseRight(k)
  BY <1>1 DEF KnowledgeInv, NoneYet
<1>8. KnowledgeTyped' /\ exact' \subseteq KBs
  BY <1>1, <1>4 DEF KnowledgeInv, KnowledgeTyped, StoreTyped, BasesTyped, JobsTyped
<1>9. NoneYet'
  BY <1>1, <1>3, <1>4, <1>6 DEF KnowledgeInv, NoneYet, KBase!On, KBase!ChunksIn
<1>10. BasesRight'
  BY <1>1, <1>4, <1>6, <1>7, <1>8 DEF KnowledgeInv, BasesRight, KBase!On
<1>11. Alone' /\ JobsRight'
  BY <1>1 DEF KnowledgeInv, Alone, JobsRight, Known, JobRight, DocsRight, Right, KBase!DocsIn, KBase!ChunksIn
<1> QED
  BY <1>8, <1>9, <1>10, <1>11 DEF KnowledgeInv

(* What a request was doing on a base at a crash leaves it inexact.        *)
LEMMA KnowledgeCrash ==
  ASSUME KnowledgeInv, KBase!Crash
  PROVE  KnowledgeInv'
<1>1. /\ exact' = exact \ {req[r].kb : r \in Requests} /\ alone' = {}
      /\ req' = [r \in Requests |-> KBase!Idle] /\ UNCHANGED <<backend, base, store>>
  BY DEF KBase!Crash
<1>2. KnowledgeTyped'
  BY <1>1 DEF KnowledgeInv, KnowledgeTyped, StoreTyped, BasesTyped, JobsTyped, Job, KBase!Idle, KBase!Steps
<1>3. \A k \in KBs : KBase!On(k)' = {}
  BY <1>1, KnowledgeAssumption DEF KBase!On, KBase!Idle
<1>4. \A k \in KBs : BaseRight(k)' <=> BaseRight(k)
  BY <1>1 DEF BaseRight, Right, KBase!DocsIn, KBase!ChunksIn
<1>5. NoneYet'
  BY <1>1, <1>3, <1>4 DEF KnowledgeInv, NoneYet, KBase!ChunksIn
<1>6. \A k \in exact' : k \in exact /\ k \in KBs /\ KBase!On(k) = {}
  BY <1>1 DEF KnowledgeInv, KnowledgeTyped, BasesTyped, KBase!On
<1>7. BasesRight'
  BY <1>1, <1>4, <1>6 DEF KnowledgeInv, BasesRight
<1>8. Alone' /\ JobsRight'
  BY <1>1 DEF Alone, JobsRight
<1> QED
  BY <1>2, <1>5, <1>7, <1>8 DEF KnowledgeInv

LEMMA RequestInv ==
  ASSUME KnowledgeInv, NEW r \in Requests,
         \/ \E d \in Docs : KBase!DeleteDocument(r, d)
         \/ KBase!UpdateKnowledgeBase(r) \/ KBase!UpsertRow(r) \/ KBase!DeleteOldRow(r)
         \/ KBase!InsertRow(r) \/ KBase!CountDocuments(r) \/ KBase!CountChunks(r) \/ KBase!WriteCounts(r)
         \/ KBase!DeleteVectors(r) \/ KBase!DeleteKnowledgeBase(r) \/ KBase!Fails(r)
  PROVE  KnowledgeInv'
<1>1. req[r].at # "idle"
  BY DEF KBase!DeleteDocument, KBase!UpdateKnowledgeBase, KBase!UpsertRow, KBase!DeleteOldRow,
         KBase!InsertRow, KBase!CountDocuments, KBase!CountChunks, KBase!WriteCounts, KBase!DeleteVectors,
         KBase!DeleteKnowledgeBase, KBase!Fails
<1>2. PICK k \in KBs : req[r].kb = k
  BY <1>1, JobTyped
<1>3. CASE KBase!UpsertRow(r)
  BY <1>2, <1>3, AddedInv DEF KBase!UpsertRow
<1>4. CASE KBase!InsertRow(r)
  <2>1. PICK s \in KBase!First(req[r].todo) : (KBase!End(r, FALSE) /\ UNCHANGED store) \/ KBase!Added(r, s)
    BY <1>4 DEF KBase!InsertRow
  <2>2. req[r].at = "inserting" /\ UNCHANGED <<backend, base>>
    BY <1>4 DEF KBase!InsertRow
  <2> QED
    BY <1>1, <1>2, <2>1, <2>2, AddedInv, StopsInv
<1>5. CASE KBase!DeleteKnowledgeBase(r)
  BY <1>1, <1>2, <1>5, StopsInv DEF KBase!DeleteKnowledgeBase
<1>6. CASE KBase!Fails(r)
  BY <1>1, <1>2, <1>6, StopsInv DEF KBase!Fails
<1> QED
  BY <1>2, <1>3, <1>4, <1>5, <1>6, RemovalInv, SavedInv, OldRowInv, CountDocumentsInv, CountChunksInv, WriteCountsInv

LEMMA KnowledgeNext == KnowledgeInv /\ [KBase!Next]_(KBase!vars) => KnowledgeInv'
<1> SUFFICES ASSUME KnowledgeInv, [KBase!Next]_(KBase!vars) PROVE KnowledgeInv'
  OBVIOUS
<1>1. CASE UNCHANGED KBase!vars
  <2>1. UNCHANGED <<backend, base, store, req, alone, exact>>
    BY <1>1 DEF KBase!vars
  <2>2. KnowledgeTyped' /\ Alone'
    BY <2>1 DEF KnowledgeInv, KnowledgeTyped, StoreTyped, BasesTyped, JobsTyped, Alone
  <2>3. \A k \in KBs : BaseRight(k)' <=> BaseRight(k)
    BY <2>1 DEF BaseRight, Right, KBase!DocsIn, KBase!ChunksIn
  <2>4. \A r \in Requests : Known(r)' <=> Known(r)
    BY <2>1 DEF Known, JobRight, DocsRight, Right, KBase!DocsIn, KBase!ChunksIn
  <2>5. NoneYet'
    BY <2>1, <2>3 DEF KnowledgeInv, NoneYet, KBase!On, KBase!ChunksIn
  <2>6. BasesRight'
    BY <2>1, <2>2, <2>3 DEF KnowledgeInv, KnowledgeTyped, BasesTyped, BasesRight, KBase!On
  <2>7. JobsRight'
    BY <2>1, <2>2, <2>4 DEF KnowledgeInv, KnowledgeTyped, BasesTyped, JobsRight
  <2> QED
    BY <2>2, <2>5, <2>6, <2>7 DEF KnowledgeInv
<1>2. CASE KBase!Next
  <2>1. ASSUME NEW r \in Requests,
               \/ \E k \in KBs : KBase!OpenForEdit(r, k)
               \/ \E k \in KBs, mode \in {"removing", "dropping"} : KBase!OpenForDelete(r, k, mode)
               \/ \E k \in KBs, d \in Docs, text \in Texts : KBase!IndexDocument(r, k, d, text)
        PROVE  KnowledgeInv'
    BY <2>1, OpensInv
  <2>2. CASE KBase!Quiet
    BY <1>1, <2>2 DEF KBase!Quiet
  <2> QED
    BY <1>2, <2>1, <2>2, BaseCreatedInv, RequestInv, KnowledgeCrash DEF KBase!Next
<1> QED
  BY <1>1, <1>2

(* A chunk is as long as its text allows: shorter than twice the target.   *)
LEMMA KnowledgeTypes == KnowledgeInv => KBase!TypeOK
<1> SUFFICES ASSUME KnowledgeInv PROVE KBase!TypeOK
  OBVIOUS
<1>1. ASSUME NEW s \in store
      PROVE  s.kb \in KBs /\ s.doc \in Docs /\ Len(s.content) < 2 * ChunkTarget
  <2>1. s \in Row
    BY DEF KnowledgeInv, KnowledgeTyped, StoreTyped
  <2>2. PICK k \in KBs, d \in Docs, text \in Texts : s \in KBase!RowsOf(k, d, text)
    BY <2>1 DEF Row
  <2>3. PICK i \in DOMAIN KBase!ChunksOf[text] :
          s = [kb |-> k, doc |-> d, index |-> i, content |-> KBase!ChunksOf[text][i]]
    BY <2>2 DEF KBase!RowsOf
  <2>4. KBase!ChunksOf[text] \in Seq(Short)
    BY ChunksShort
  <2>5. KBase!ChunksOf[text][i] \in Short
    BY <2>3, <2>4, LenProperties, ElementOfSeq
  <2> QED
    BY <2>3, <2>5 DEF Short
<1>2. \A r \in Requests : req[r].at \in KBase!Steps /\ (req[r].at # "idle" => req[r].kb \in KBs)
  BY DEF KnowledgeInv, KnowledgeTyped, JobsTyped, Job
<1>3. \A k \in KBs : base[k].row \in {"none", "there", "gone"}
  BY DEF KnowledgeInv, KnowledgeTyped, BasesTyped, BaseRow
<1>4. backend \in KBase!Backends /\ alone \subseteq Requests /\ exact \subseteq KBs
  BY DEF KnowledgeInv, KnowledgeTyped, StoreTyped, BasesTyped
<1> QED
  BY <1>1, <1>2, <1>3, <1>4 DEF KBase!TypeOK

LEMMA KnowledgeHolds == Spec => [](part = "knowledge" => KnowledgeInv)
<1>1. Init => (part = "knowledge" => KnowledgeInv)
  BY KnowledgeInit DEF Init
<1>2. (part = "knowledge" => KnowledgeInv) /\ [Next]_vars => (part = "knowledge" => KnowledgeInv)'
  BY KnowledgeSteps, KnowledgeNext, PartStays
<1> QED
  BY <1>1, <1>2, PTL DEF Spec

(* However requests on a base overlap, fail, crash and delete it: after a  *)
(* change that had the base for itself and did not fail, its row counts    *)
(* what the vector store has (knowledge/manager.go, refreshCounts).        *)
THEOREM CountsStayRight == Spec => []CountsRight
<1>1. (part = "knowledge" => KnowledgeInv) => CountsRight
  BY CountsSound DEF CountsRight
<1> QED
  BY KnowledgeHolds, <1>1, PTL

-----------------------------------------------------------------------------
(* Evaluation *)

LEMMA CountOf == \A S : Eval!Cardinality(S) = Cardinality(S)
BY DEF Eval!Cardinality, Cardinality

Listing == [case : Eval!Cases, version : Nat]
Outcome == [case : Eval!Cases, version : Nat, attempt : 1 .. Repeats, passed : BOOLEAN, error : BOOLEAN]
EvalRow == [of : Datasets, row : Eval!Rows, status : Eval!Statuses, passed : Nat]
Effort == [at : Nat \ {0}, attempt : 1 .. Repeats, passed : Nat, error : BOOLEAN, on : BOOLEAN]

EvalTyped ==
  /\ version \in [Eval!Cases -> Nat]
  /\ eval \in [Evals -> EvalRow] /\ listed \in [Evals -> Seq(Listing)]
  /\ results \in [Evals -> SUBSET Outcome] /\ \A e \in Evals : IsFiniteSet(results[e])
  /\ work \in [Evals -> Effort]

(* The order of the attempts: a run has made those before the next. *)
Tried(e, i, a) == i < work[e].at \/ (i = work[e].at /\ a < work[e].attempt)

CaseAt(e, i) == listed[e][i].case
Passes(e) == {r \in results[e] : r.passed}

Stored(e, i, a) ==
  \E r \in results[e] : /\ r.case = CaseAt(e, i) /\ r.version = listed[e][i].version
                        /\ r.attempt = a /\ ~r.error

NothingGone(e) == \A i \in DOMAIN listed[e] : CaseAt(e, i) \notin deleted

NotBegun(e) == eval[e].row = "none" => results[e] = {} /\ work[e] = Eval!NoWork /\ eval[e].status = "none"
OnIsRunning(e) == work[e].on => eval[e].status = "running"

(* A case is listed once, and the results are of cases that are listed and *)
(* of attempts that were made: the next one is none of them.               *)
ListedOnce(e) == \A i, j \in DOMAIN listed[e] : CaseAt(e, i) = CaseAt(e, j) => i = j
OnlyListed(e) == \A r \in results[e] : \E i \in DOMAIN listed[e] : r.case = CaseAt(e, i)
OnlyTried(e) ==
  work[e].on => \A r \in results[e], i \in DOMAIN listed[e] : r.case = CaseAt(e, i) => Tried(e, i, r.attempt)

(* What a run without an error has come to so far. *)
TriedAreStored(e) ==
  work[e].on /\ ~work[e].error /\ eval[e].of \notin deleted =>
    /\ \A i \in DOMAIN listed[e], a \in 1 .. Repeats :
         Tried(e, i, a) /\ CaseAt(e, i) \notin deleted => Stored(e, i, a)
    /\ NothingGone(e) => work[e].passed = Cardinality(Passes(e))

DoneAreStored(e) ==
  eval[e].status = "done" /\ eval[e].of \notin deleted =>
    /\ \A i \in DOMAIN listed[e], a \in 1 .. Repeats : CaseAt(e, i) \notin deleted => Stored(e, i, a)
    /\ NothingGone(e) => eval[e].passed = Cardinality(Passes(e))

RunSound(e) ==
  /\ NotBegun(e) /\ OnIsRunning(e) /\ ListedOnce(e) /\ OnlyListed(e) /\ OnlyTried(e)
  /\ TriedAreStored(e) /\ DoneAreStored(e)

EvalInv == EvalTyped /\ \A e \in Evals : RunSound(e)

LEMMA RepeatsMany == Repeats \in Nat /\ 1 \in 1 .. Repeats
BY BoundsAssumption, EvaluationAssumption

LEMMA EvalSound == EvalInv => Eval!DoneIsComplete
BY CountOf DEF EvalInv, RunSound, DoneAreStored, Stored, CaseAt, NothingGone, Passes, Eval!DoneIsComplete

LEMMA EvalInit == Eval!Init => EvalInv
<1> SUFFICES ASSUME Eval!Init PROVE EvalInv
  OBVIOUS
<1>1. /\ version = [c \in Eval!Cases |-> 0] /\ deleted = {}
      /\ eval \in [Evals -> [of : Datasets, row : {"none"}, status : {"none"}, passed : {0}]]
      /\ listed = [e \in Evals |-> <<>>] /\ results = [e \in Evals |-> {}]
      /\ work = [e \in Evals |-> Eval!NoWork]
  BY DEF Eval!Init
<1>2. Eval!NoWork \in Effort /\ ~Eval!NoWork.on
  BY RepeatsMany DEF Eval!NoWork, Effort
<1>3. EvalTyped
  BY <1>1, <1>2, FS_EmptySet DEF EvalTyped, EvalRow, Eval!Rows, Eval!Statuses
<1>4. ASSUME NEW e \in Evals PROVE RunSound(e)
  <2>1. /\ eval[e].status = "none" /\ work[e] = Eval!NoWork /\ results[e] = {} /\ listed[e] = <<>>
    BY <1>1
  <2> QED
    BY <1>2, <2>1 DEF RunSound, NotBegun, OnIsRunning, ListedOnce, OnlyListed, OnlyTried,
                      TriedAreStored, DoneAreStored
<1> QED
  BY <1>3, <1>4 DEF EvalInv

(* What is done beside a run: rows may be deleted, and what is deleted is  *)
(* remembered.                                                             *)
OnlyDeleted(e) ==
  /\ deleted \subseteq deleted'
  /\ \/ results'[e] = results[e]
     \/ results'[e] \subseteq results[e] /\ eval[e].of \in deleted'
     \/ \E c \in deleted' : results'[e] = {r \in results[e] : r.case # c}

LEMMA StoredStays ==
  ASSUME NEW e \in Evals, OnlyDeleted(e), listed'[e] = listed[e], eval[e].of \notin deleted',
         NEW i, NEW a, Stored(e, i, a), CaseAt(e, i) \notin deleted'
  PROVE  Stored(e, i, a)'
<1>1. PICK r \in results[e] :
        r.case = CaseAt(e, i) /\ r.version = listed[e][i].version /\ r.attempt = a /\ ~r.error
  BY DEF Stored
<1>2. r \in results'[e]
  BY <1>1 DEF OnlyDeleted
<1> QED
  BY <1>1, <1>2 DEF Stored, CaseAt

LEMMA ResultsStay ==
  ASSUME NEW e \in Evals, OnlyDeleted(e), OnlyListed(e), listed'[e] = listed[e],
         eval[e].of \notin deleted', NothingGone(e)'
  PROVE  results'[e] = results[e] /\ NothingGone(e)
<1>1. \A i \in DOMAIN listed[e] : CaseAt(e, i) \notin deleted'
  BY DEF NothingGone, CaseAt
<1>2. \A r \in results[e] : r.case \notin deleted'
  BY <1>1 DEF OnlyListed
<1>3. results'[e] = results[e]
  <2>1. ASSUME NEW c \in deleted', results'[e] = {r \in results[e] : r.case # c}
        PROVE  results'[e] = results[e]
    BY <1>2, <2>1
  <2> QED
    BY <2>1 DEF OnlyDeleted
<1>4. NothingGone(e)
  BY <1>1 DEF NothingGone, OnlyDeleted
<1> QED
  BY <1>3, <1>4

LEMMA BesideInv ==
  ASSUME NEW e \in Evals, RunSound(e), OnlyDeleted(e), listed'[e] = listed[e],
         work'[e] \in {work[e], Eval!NoWork},
         eval'[e].of = eval[e].of, eval'[e].status = eval[e].status, eval'[e].passed = eval[e].passed,
         eval'[e].row = "none" => eval[e].row = "none"
  PROVE  RunSound(e)'
<1>1. results'[e] \subseteq results[e] /\ deleted \subseteq deleted'
  BY DEF OnlyDeleted
<1>2. ~Eval!NoWork.on
  BY DEF Eval!NoWork
<1>3. NotBegun(e)' /\ OnIsRunning(e)'
  BY <1>1, <1>2 DEF RunSound, NotBegun, OnIsRunning
<1>4. ListedOnce(e)' /\ OnlyListed(e)'
  BY <1>1 DEF RunSound, ListedOnce, OnlyListed, CaseAt
<1>5. OnlyTried(e)'
  BY <1>1, <1>2 DEF RunSound, OnlyTried, CaseAt, Tried
<1>6. ASSUME eval[e].of \notin deleted', NothingGone(e)' PROVE Passes(e)' = Passes(e) /\ NothingGone(e)
  BY <1>6, ResultsStay DEF RunSound, Passes
<1>7. TriedAreStored(e)'
  <2> SUFFICES ASSUME work'[e].on, ~work'[e].error, eval[e].of \notin deleted'
               PROVE  /\ \A i \in DOMAIN listed[e], a \in 1 .. Repeats :
                           Tried(e, i, a)' /\ CaseAt(e, i)' \notin deleted' => Stored(e, i, a)'
                      /\ NothingGone(e)' => work'[e].passed = Cardinality(Passes(e)')
    BY DEF TriedAreStored
  <2>1. work'[e] = work[e] /\ eval[e].of \notin deleted
    BY <1>1, <1>2
  <2>2. ASSUME NEW i \in DOMAIN listed[e], NEW a \in 1 .. Repeats, Tried(e, i, a)', CaseAt(e, i)' \notin deleted'
        PROVE  Stored(e, i, a)'
    <3>1. Tried(e, i, a) /\ CaseAt(e, i) \notin deleted' /\ CaseAt(e, i) \notin deleted
      BY <1>1, <2>1, <2>2 DEF Tried, CaseAt
    <3>2. Stored(e, i, a)
      BY <2>1, <3>1 DEF RunSound, TriedAreStored
    <3> QED
      BY <3>1, <3>2, StoredStays
  <2>3. ASSUME NothingGone(e)' PROVE work'[e].passed = Cardinality(Passes(e)')
    BY <1>6, <2>1, <2>3 DEF RunSound, TriedAreStored
  <2> QED
    BY <2>2, <2>3
<1>8. DoneAreStored(e)'
  <2> SUFFICES ASSUME eval[e].status = "done", eval[e].of \notin deleted'
               PROVE  /\ \A i \in DOMAIN listed[e], a \in 1 .. Repeats :
                           CaseAt(e, i)' \notin deleted' => Stored(e, i, a)'
                      /\ NothingGone(e)' => eval[e].passed = Cardinality(Passes(e)')
    BY DEF DoneAreStored
  <2>1. eval[e].of \notin deleted
    BY <1>1
  <2>2. ASSUME NEW i \in DOMAIN listed[e], NEW a \in 1 .. Repeats, CaseAt(e, i)' \notin deleted'
        PROVE  Stored(e, i, a)'
    <3>1. CaseAt(e, i) \notin deleted' /\ CaseAt(e, i) \notin deleted
      BY <1>1, <2>2 DEF CaseAt
    <3>2. Stored(e, i, a)
      BY <2>1, <3>1 DEF RunSound, DoneAreStored
    <3> QED
      BY <3>1, <3>2, StoredStays
  <2>3. ASSUME NothingGone(e)' PROVE eval[e].passed = Cardinality(Passes(e)')
    BY <1>6, <2>1, <2>3 DEF RunSound, DoneAreStored
  <2> QED
    BY <2>2, <2>3
<1> QED
  BY <1>3, <1>4, <1>5, <1>7, <1>8 DEF RunSound

LEMMA EvalKeeps ==
  ASSUME EvalInv, NEW e \in Evals, deleted \subseteq deleted', listed'[e] = listed[e],
         work'[e] \in {work[e], Eval!NoWork}, eval'[e] = eval[e], results'[e] = results[e]
  PROVE  RunSound(e)'
BY BesideInv DEF EvalInv, OnlyDeleted

(* Datasets and cases: a run has listed what it needs of them. *)
LEMMA EditsInv ==
  ASSUME EvalInv,
         \/ \E d \in Datasets : Eval!CreateDataset(d) \/ Eval!UpdateDataset(d) \/ Eval!SaveDataset(d)
         \/ \E c \in Eval!Cases : Eval!CreateCase(c) \/ Eval!UpdateCase(c) \/ Eval!SaveCase(c)
  PROVE  EvalInv'
<1>1. UNCHANGED <<eval, listed, results, work, deleted>>
  BY DEF Eval!CreateDataset, Eval!CreateCase, Eval!UpdateDataset, Eval!UpdateCase, Eval!SaveDataset,
         Eval!SaveCase
<1>2. version' = version \/ \E c \in Eval!Cases : version' = [version EXCEPT ![c] = @ + 1]
  BY DEF Eval!CreateDataset, Eval!CreateCase, Eval!UpdateDataset, Eval!UpdateCase, Eval!SaveDataset,
         Eval!SaveCase, Eval!rows
<1>3. EvalTyped'
  BY <1>1, <1>2 DEF EvalInv, EvalTyped
<1>4. \A e \in Evals : RunSound(e)'
  BY <1>1, EvalKeeps
<1> QED
  BY <1>3, <1>4 DEF EvalInv

LEMMA FewerTyped ==
  ASSUME EvalTyped, results' \in [Evals -> SUBSET Outcome], \A e \in Evals : results'[e] \subseteq results[e]
  PROVE  \A e \in Evals : IsFiniteSet(results'[e])
BY FS_Subset DEF EvalTyped

LEMMA DeleteCaseInv ==
  ASSUME EvalInv, NEW c \in Eval!Cases, Eval!DeleteCase(c)
  PROVE  EvalInv'
<1>1. /\ results' = [e \in Evals |-> {r \in results[e] : r.case \notin {c}}]
      /\ deleted' = deleted \cup {c} /\ UNCHANGED <<version, eval, listed, work>>
  BY DEF Eval!DeleteCase, Eval!ResultsOf
<1>2. \A e \in Evals : results'[e] = {r \in results[e] : r.case # c} /\ results'[e] \subseteq results[e]
  BY <1>1
<1>3. EvalTyped'
  BY <1>1, <1>2, FewerTyped DEF EvalInv, EvalTyped
<1>4. ASSUME NEW e \in Evals PROVE RunSound(e)'
  <2>1. OnlyDeleted(e)
    BY <1>1, <1>2 DEF OnlyDeleted
  <2> QED
    BY <1>1, <2>1, BesideInv DEF EvalInv
<1> QED
  BY <1>3, <1>4 DEF EvalInv

LEMMA DeleteDatasetInv ==
  ASSUME EvalInv, NEW d \in Datasets, Eval!DeleteDataset(d)
  PROVE  EvalInv'
<1>1. deleted' = deleted \cup {d} /\ UNCHANGED <<version, listed, work>>
  BY DEF Eval!DeleteDataset
<1>2. results' \in {results, [e \in Evals |-> IF eval[e].of = d THEN {} ELSE results[e]]}
  BY DEF Eval!DeleteDataset
<1>3. eval' \in {eval, [e \in Evals |-> IF eval[e].of = d /\ eval[e].row = "live"
                                        THEN [eval[e] EXCEPT !.row = "deleted"] ELSE eval[e]]}
  BY DEF Eval!DeleteDataset
<1>4. ASSUME NEW e \in Evals
      PROVE  /\ results'[e] \subseteq results[e] /\ (results'[e] = results[e] \/ eval[e].of \in deleted')
             /\ results'[e] \in SUBSET Outcome
  BY <1>1, <1>2 DEF EvalInv, EvalTyped
<1>5. ASSUME NEW e \in Evals
      PROVE  /\ eval'[e] \in EvalRow /\ eval'[e].of = eval[e].of /\ eval'[e].status = eval[e].status
             /\ eval'[e].passed = eval[e].passed /\ (eval'[e].row = "none" => eval[e].row = "none")
  <2>1. eval[e] \in EvalRow
    BY DEF EvalInv, EvalTyped
  <2>2. eval'[e] \in {eval[e], [eval[e] EXCEPT !.row = "deleted"]}
    BY <1>3
  <2> QED
    BY <2>1, <2>2 DEF EvalRow, Eval!Rows
<1>6. EvalTyped'
  <2>1. results' \in [Evals -> SUBSET Outcome]
    BY <1>2, <1>4 DEF EvalInv, EvalTyped
  <2>2. eval' \in [Evals -> EvalRow]
    BY <1>3, <1>5 DEF EvalInv, EvalTyped
  <2> QED
    BY <1>1, <1>4, <2>1, <2>2, FewerTyped DEF EvalInv, EvalTyped
<1>7. ASSUME NEW e \in Evals PROVE RunSound(e)'
  <2>1. OnlyDeleted(e)
    BY <1>1, <1>4 DEF OnlyDeleted
  <2> QED
    BY <1>1, <1>5, <2>1, BesideInv DEF EvalInv
<1> QED
  BY <1>6, <1>7 DEF EvalInv

LEMMA EvalCrash ==
  ASSUME EvalInv, Eval!Crash
  PROVE  EvalInv'
<1>1. work' = [e \in Evals |-> Eval!NoWork] /\ UNCHANGED <<version, eval, listed, results, deleted>>
  BY DEF Eval!Crash, Eval!rows
<1>2. EvalTyped'
  BY <1>1, RepeatsMany DEF EvalInv, EvalTyped, Effort, Eval!NoWork
<1>3. \A e \in Evals : RunSound(e)'
  BY <1>1, EvalKeeps
<1> QED
  BY <1>2, <1>3 DEF EvalInv

(* What a run lists are rows that are there, each of them once.            *)
LEMMA CasesListed ==
  ASSUME NEW d \in Datasets, NEW cases \in Eval!CasesNow(d)
  PROVE  /\ \E n \in Nat : cases \in [1 .. n -> Eval!Cases]
         /\ \A i, j \in DOMAIN cases : cases[i] = cases[j] => i = j
<1> DEFINE live == {c \in Eval!CasesOf(d) : case[c] = "live"}
<1>1. /\ cases \in [1 .. Eval!Cardinality(live) -> live]
      /\ \A i, j \in DOMAIN cases : i < j => cases[i] < cases[j]
  BY DEF Eval!CasesNow
<1>2. live \subseteq 1 .. MaxCases /\ Eval!Cases = 1 .. MaxCases
  BY DEF Eval!CasesOf, Eval!Cases
<1> HIDE DEF live
<1>3. IsFiniteSet(live)
  <2>1. MaxCases \in Nat
    BY BoundsAssumption
  <2>2. IsFiniteSet(1 .. MaxCases)
    BY <2>1, FS_Interval
  <2> QED
    BY <1>2, <2>2, FS_Subset
<1>4. Eval!Cardinality(live) \in Nat
  BY <1>3, FS_CardinalityType, CountOf
<1>5. cases \in [1 .. Eval!Cardinality(live) -> Eval!Cases]
  BY <1>1, <1>2
<1>6. ASSUME NEW i \in DOMAIN cases, NEW j \in DOMAIN cases, cases[i] = cases[j] PROVE i = j
  <2>1. i \in 1 .. Eval!Cardinality(live) /\ j \in 1 .. Eval!Cardinality(live)
    BY <1>1, <1>6
  <2>2. cases[i] \in 1 .. MaxCases
    BY <1>1, <1>2, <2>1
  <2>3. i \in Nat /\ j \in Nat /\ cases[i] \in Nat
    BY <1>4, <2>1, <2>2
  <2>4. ~(cases[i] < cases[j]) /\ ~(cases[j] < cases[i])
    BY <1>6, <2>3
  <2> QED
    BY <1>1, <1>6, <2>3, <2>4
<1> QED
  BY <1>4, <1>5, <1>6

LEMMA StartRunInv ==
  ASSUME EvalInv, NEW e \in Evals, Eval!StartRun(e)
  PROVE  EvalInv'
<1>1. /\ eval[e].row = "none" /\ UNCHANGED <<version, home, results, deleted>>
      /\ work' = [work EXCEPT ![e].on = TRUE]
      /\ eval' = [eval EXCEPT ![e].row = "live", ![e].status = "running"]
  BY DEF Eval!StartRun, Eval!Requested, Eval!rows
<1>2. PICK cases \in Eval!CasesNow(eval[e].of) :
        listed' = [listed EXCEPT ![e] = [i \in DOMAIN cases |-> [case |-> cases[i], version |-> version[cases[i]]]]]
  BY DEF Eval!StartRun
<1>3. eval \in [Evals -> EvalRow] /\ work \in [Evals -> Effort] /\ listed \in [Evals -> Seq(Listing)]
  BY DEF EvalInv, EvalTyped
<1>4. eval[e] \in EvalRow /\ eval[e].of \in Datasets /\ work[e] = Eval!NoWork /\ results[e] = {}
  BY <1>1, <1>3 DEF EvalInv, RunSound, NotBegun, EvalRow
<1>5. PICK n \in Nat : cases \in [1 .. n -> Eval!Cases]
  BY <1>4, CasesListed
<1> DEFINE list == [i \in DOMAIN cases |-> [case |-> cases[i], version |-> version[cases[i]]]]
           begun == [eval[e] EXCEPT !.row = "live", !.status = "running"]
           next == [Eval!NoWork EXCEPT !.on = TRUE]
<1>6. /\ list \in Seq(Listing) /\ DOMAIN list = DOMAIN cases
      /\ \A i \in DOMAIN list : list[i].case = cases[i]
  <2>1. \A i \in 1 .. n : [case |-> cases[i], version |-> version[cases[i]]] \in Listing
    BY <1>5 DEF Listing, EvalInv, EvalTyped
  <2>2. list \in [1 .. n -> Listing]
    BY <1>5, <2>1
  <2> QED
    BY <1>5, <2>2
<1>7. begun \in EvalRow /\ begun.row = "live" /\ begun.status = "running"
  BY <1>4 DEF EvalRow, Eval!Rows, Eval!Statuses
<1>8. /\ next \in Effort /\ next.on /\ ~next.error
      /\ next.at = 1 /\ next.attempt = 1 /\ next.passed = 0
  <2>1. /\ Eval!NoWork \in Effort /\ ~Eval!NoWork.error
        /\ Eval!NoWork.at = 1 /\ Eval!NoWork.attempt = 1 /\ Eval!NoWork.passed = 0
    BY RepeatsMany DEF Effort, Eval!NoWork
  <2> QED
    BY <2>1 DEF Effort
<1>9. listed' = [listed EXCEPT ![e] = list]
  BY <1>2
<1>10. eval' = [eval EXCEPT ![e] = begun]
  BY <1>1, <1>3, Zenon
<1>11. work' = [work EXCEPT ![e] = next]
  BY <1>1, <1>3, <1>4, Zenon
<1> HIDE DEF list, begun, next
<1>12. /\ listed'[e] = list /\ eval'[e] = begun /\ work'[e] = next
       /\ \A f \in Evals \ {e} : listed'[f] = listed[f] /\ eval'[f] = eval[f] /\ work'[f] = work[f]
  BY <1>3, <1>9, <1>10, <1>11
<1>13. EvalTyped'
  <2>1. eval' \in [Evals -> EvalRow] /\ work' \in [Evals -> Effort] /\ listed' \in [Evals -> Seq(Listing)]
    BY <1>3, <1>6, <1>7, <1>8, <1>9, <1>10, <1>11
  <2> QED
    BY <1>1, <2>1 DEF EvalInv, EvalTyped
<1>14. \A f \in Evals \ {e} : RunSound(f)'
  BY <1>1, <1>12, EvalKeeps
<1>15. RunSound(e)'
  <2>1. results'[e] = {} /\ Passes(e)' = {}
    BY <1>1, <1>4 DEF Passes
  <2>2. NotBegun(e)' /\ OnIsRunning(e)' /\ OnlyListed(e)' /\ OnlyTried(e)' /\ DoneAreStored(e)'
    BY <1>7, <1>12, <2>1 DEF NotBegun, OnIsRunning, OnlyListed, OnlyTried, DoneAreStored
  <2>3. ListedOnce(e)'
    BY <1>4, <1>6, <1>12, CasesListed DEF ListedOnce, CaseAt
  <2>4. \A i \in DOMAIN list, a \in 1 .. Repeats : ~Tried(e, i, a)'
    <3>1. \A i \in DOMAIN list : i \in Nat /\ i >= 1
      BY <1>5, <1>6
    <3> QED
      BY <1>8, <1>12, <3>1, BoundsAssumption DEF Tried
  <2>5. TriedAreStored(e)'
    BY <1>8, <1>12, <2>1, <2>4, FS_EmptySet DEF TriedAreStored
  <2> QED
    BY <2>2, <2>3, <2>5 DEF RunSound
<1> QED
  BY <1>13, <1>14, <1>15 DEF EvalInv

(* The next attempt follows those made, in both loops. *)
LEMMA NextTried ==
  ASSUME NEW e \in Evals, work[e] \in Effort,
         work'[e].at = IF work[e].attempt = Repeats THEN work[e].at + 1 ELSE work[e].at,
         work'[e].attempt = IF work[e].attempt = Repeats THEN 1 ELSE work[e].attempt + 1,
         NEW i \in Nat, NEW a \in 1 .. Repeats
  PROVE  Tried(e, i, a)' <=> Tried(e, i, a) \/ (i = work[e].at /\ a = work[e].attempt)
BY RepeatsMany DEF Tried, Effort

LEMMA AttemptInv ==
  ASSUME EvalInv, NEW e \in Evals, Eval!Attempt(e)
  PROVE  EvalInv'
<1>1. /\ work[e].on /\ ~work[e].error /\ work[e].at <= Len(listed[e])
      /\ UNCHANGED <<version, deleted, eval, listed>>
  BY DEF Eval!Attempt, Eval!More, Eval!rows
<1>2. PICK j \in Eval!Judged(e) :
        /\ results' = [results EXCEPT ![e] = @ \cup
             {[case |-> Eval!CaseOf(e).case, version |-> Eval!CaseOf(e).version,
               attempt |-> work[e].attempt, passed |-> j.passed, error |-> j.error]}]
        /\ work' = [work EXCEPT ![e] = [at |-> IF @.attempt = Repeats THEN @.at + 1 ELSE @.at,
                                        attempt |-> IF @.attempt = Repeats THEN 1 ELSE @.attempt + 1,
                                        passed |-> IF j.passed THEN @.passed + 1 ELSE @.passed,
                                        error |-> j.error, on |-> TRUE]]
  BY DEF Eval!Attempt
<1> DEFINE here == work[e].at
           mine == work[e].attempt
           new == [case |-> CaseAt(e, here), version |-> listed[e][here].version,
                   attempt |-> mine, passed |-> j.passed, error |-> j.error]
           next == [at |-> IF mine = Repeats THEN here + 1 ELSE here,
                    attempt |-> IF mine = Repeats THEN 1 ELSE mine + 1,
                    passed |-> IF j.passed THEN work[e].passed + 1 ELSE work[e].passed,
                    error |-> j.error, on |-> TRUE]
<1>3. /\ results \in [Evals -> SUBSET Outcome] /\ IsFiniteSet(results[e])
      /\ work \in [Evals -> Effort] /\ work[e] \in Effort /\ listed[e] \in Seq(Listing)
  BY DEF EvalInv, EvalTyped
<1>4. /\ here \in Nat \ {0} /\ mine \in 1 .. Repeats /\ here \in DOMAIN listed[e]
      /\ listed[e][here] \in Listing
  <2>1. here \in Nat \ {0} /\ mine \in 1 .. Repeats
    BY <1>3 DEF Effort
  <2>2. here \in 1 .. Len(listed[e])
    BY <1>1, <1>3, <2>1
  <2> QED
    BY <1>3, <2>1, <2>2
<1>5. j \in [passed : BOOLEAN, error : BOOLEAN]
  <2>1. \A p \in BOOLEAN, q \in BOOLEAN : [passed |-> p, error |-> q] \in [passed : BOOLEAN, error : BOOLEAN]
    OBVIOUS
  <2>2. Eval!Judged(e) \subseteq [passed : BOOLEAN, error : BOOLEAN]
    BY <2>1, Zenon DEF Eval!Judged, Eval!Graded
  <2> QED
    BY <2>2
<1>6. /\ new \in Outcome /\ new.case = CaseAt(e, here) /\ new.version = listed[e][here].version
      /\ new.attempt = mine /\ new.passed = j.passed /\ new.error = j.error
  BY <1>4, <1>5 DEF Outcome, Listing, CaseAt
<1>7. /\ next \in Effort /\ next.on /\ next.error = j.error
      /\ next.at = (IF mine = Repeats THEN here + 1 ELSE here)
      /\ next.attempt = (IF mine = Repeats THEN 1 ELSE mine + 1)
      /\ next.passed = (IF j.passed THEN work[e].passed + 1 ELSE work[e].passed)
  <2>1. work[e].passed \in Nat
    BY <1>3 DEF Effort
  <2> QED
    BY <1>4, <1>5, <2>1, RepeatsMany DEF Effort
<1>8. results' = [results EXCEPT ![e] = results[e] \cup {new}]
  BY <1>2, <1>3 DEF Eval!CaseOf, CaseAt
<1>9. work' = [work EXCEPT ![e] = next]
  BY <1>2, <1>3
<1> HIDE DEF new, next
<1>10. /\ results'[e] = results[e] \cup {new} /\ work'[e] = next
       /\ \A f \in Evals \ {e} : results'[f] = results[f] /\ work'[f] = work[f]
  BY <1>3, <1>8, <1>9
<1>11. RunSound(e)
  BY DEF EvalInv
<1>12. new \notin results[e]
  <2>1. ~Tried(e, here, mine)
    BY <1>4 DEF Tried
  <2> QED
    BY <1>1, <1>4, <1>6, <1>11, <2>1 DEF RunSound, OnlyTried
<1>13. EvalTyped'
  <2>1. results' \in [Evals -> SUBSET Outcome] /\ work' \in [Evals -> Effort]
    BY <1>3, <1>6, <1>7, <1>8, <1>9
  <2>2. IsFiniteSet(results[e] \cup {new})
    BY <1>3, FS_AddElement
  <2>3. \A f \in Evals : IsFiniteSet(results'[f])
    BY <1>10, <2>2 DEF EvalInv, EvalTyped
  <2> QED
    BY <1>1, <2>1, <2>3 DEF EvalInv, EvalTyped
<1>14. \A f \in Evals \ {e} : RunSound(f)'
  BY <1>1, <1>10, EvalKeeps
<1>15. \A i \in Nat, a \in 1 .. Repeats : Tried(e, i, a)' <=> Tried(e, i, a) \/ (i = here /\ a = mine)
  BY <1>3, <1>7, <1>10, NextTried
<1>16. eval[e].status = "running" /\ eval[e].row # "none"
  <2>1. ~Eval!NoWork.on
    BY DEF Eval!NoWork
  <2> QED
    BY <1>1, <1>11, <2>1 DEF RunSound, OnIsRunning, NotBegun
<1>17. NotBegun(e)' /\ OnIsRunning(e)' /\ ListedOnce(e)' /\ DoneAreStored(e)'
  BY <1>1, <1>11, <1>16 DEF RunSound, NotBegun, OnIsRunning, ListedOnce, CaseAt, DoneAreStored
<1>18. OnlyListed(e)'
  BY <1>1, <1>4, <1>6, <1>10, <1>11 DEF RunSound, OnlyListed, CaseAt
<1>19. OnlyTried(e)'
  <2>1. ASSUME NEW r \in results'[e], NEW i \in DOMAIN listed[e], r.case = CaseAt(e, i)
        PROVE  Tried(e, i, r.attempt)'
    <3>1. i \in Nat
      BY <1>3
    <3>2. CASE r \in results[e]
      <4>1. Tried(e, i, r.attempt) /\ r.attempt \in 1 .. Repeats
        BY <1>1, <1>3, <1>11, <2>1, <3>2 DEF RunSound, OnlyTried, Outcome
      <4> QED
        BY <1>15, <3>1, <4>1
    <3>3. CASE r = new
      <4>1. i = here
        BY <1>4, <1>6, <1>11, <2>1, <3>3 DEF RunSound, ListedOnce
      <4> QED
        BY <1>4, <1>6, <1>15, <3>1, <3>3, <4>1
    <3> QED
      BY <1>10, <2>1, <3>2, <3>3
  <2> QED
    BY <1>1, <2>1 DEF OnlyTried, CaseAt
<1>20. TriedAreStored(e)'
  <2> SUFFICES ASSUME ~work'[e].error, eval[e].of \notin deleted
               PROVE  /\ \A i \in DOMAIN listed[e], a \in 1 .. Repeats :
                           Tried(e, i, a)' /\ CaseAt(e, i)' \notin deleted => Stored(e, i, a)'
                      /\ NothingGone(e)' => work'[e].passed = Cardinality(Passes(e)')
    BY <1>1 DEF TriedAreStored
  <2>1. ~new.error
    BY <1>6, <1>7, <1>10
  <2>2. ASSUME NEW i \in DOMAIN listed[e], NEW a \in 1 .. Repeats, Tried(e, i, a)', CaseAt(e, i)' \notin deleted
        PROVE  Stored(e, i, a)'
    <3>1. i \in Nat /\ CaseAt(e, i) \notin deleted
      BY <1>1, <1>3, <2>2 DEF CaseAt
    <3>2. CASE i = here /\ a = mine
      <4>1. new \in results'[e]
        BY <1>10
      <4> QED
        BY <1>1, <1>6, <2>1, <3>2, <4>1 DEF Stored, CaseAt
    <3>3. CASE Tried(e, i, a)
      <4>1. PICK r \in results[e] :
              r.case = CaseAt(e, i) /\ r.version = listed[e][i].version /\ r.attempt = a /\ ~r.error
        BY <1>1, <1>11, <3>1, <3>3 DEF RunSound, TriedAreStored, Stored
      <4>2. r \in results'[e]
        BY <1>10
      <4> QED
        BY <1>1, <4>1, <4>2 DEF Stored, CaseAt
    <3> QED
      BY <1>15, <2>2, <3>1, <3>2, <3>3
  <2>3. ASSUME NothingGone(e)' PROVE work'[e].passed = Cardinality(Passes(e)')
    <3>1. NothingGone(e)
      BY <1>1, <2>3 DEF NothingGone, CaseAt
    <3>2. work[e].passed = Cardinality(Passes(e))
      BY <1>1, <1>11, <3>1 DEF RunSound, TriedAreStored
    <3>3. IsFiniteSet(Passes(e)) /\ new \notin Passes(e)
      BY <1>3, <1>12, FS_Subset DEF Passes
    <3>4. Passes(e)' = IF j.passed THEN Passes(e) \cup {new} ELSE Passes(e)
      BY <1>6, <1>10 DEF Passes
    <3>5. Cardinality(Passes(e) \cup {new}) = Cardinality(Passes(e)) + 1
      BY <3>3, FS_AddElement
    <3> QED
      BY <1>7, <1>10, <3>2, <3>4, <3>5
  <2> QED
    BY <2>2, <2>3
<1>21. RunSound(e)'
  BY <1>17, <1>18, <1>19, <1>20 DEF RunSound
<1> QED
  BY <1>13, <1>14, <1>21 DEF EvalInv

(* A run that ends says done only when it has come to the end of both      *)
(* loops; if nothing can be saved it goes on saying that it is running.    *)
LEMMA EndRunInv ==
  ASSUME EvalInv, NEW e \in Evals, Eval!ResultNotStored(e) \/ Eval!Finish(e)
  PROVE  EvalInv'
<1>1. /\ work[e].on /\ work' = [work EXCEPT ![e] = Eval!NoWork]
      /\ UNCHANGED <<version, deleted, listed, results>>
  BY DEF Eval!ResultNotStored, Eval!Finish, Eval!rows
<1> DEFINE done == [eval[e] EXCEPT !.row = "live", !.status = "done", !.passed = work[e].passed]
           failed == [eval[e] EXCEPT !.row = "live", !.status = "failed"]
           summed == [eval[e] EXCEPT !.row = "live", !.status = "failed", !.passed = work[e].passed]
<1>2. /\ eval \in [Evals -> EvalRow] /\ eval[e] \in EvalRow /\ listed[e] \in Seq(Listing)
      /\ work \in [Evals -> Effort] /\ work[e] \in Effort /\ work[e].passed \in Nat
  BY DEF EvalInv, EvalTyped, Effort
<1>3. /\ done \in EvalRow /\ failed \in EvalRow /\ summed \in EvalRow
      /\ \A end \in {done, failed, summed} : end.row = "live" /\ end.of = eval[e].of
      /\ done.status = "done" /\ done.passed = work[e].passed
      /\ failed.status = "failed" /\ summed.status = "failed"
  BY <1>2 DEF EvalRow, Eval!Rows, Eval!Statuses
<1>4. \/ eval' = eval
      \/ eval' = [eval EXCEPT ![e] = failed] \/ eval' = [eval EXCEPT ![e] = summed]
      \/ ~Eval!More(e) /\ ~work[e].error /\ eval' = [eval EXCEPT ![e] = done]
  <2>1. CASE Eval!ResultNotStored(e)
    <3>1. eval' = eval \/ eval' = [eval EXCEPT ![e].row = "live", ![e].status = "failed"]
      BY <2>1 DEF Eval!ResultNotStored
    <3> QED
      BY <1>2, <3>1, Zenon
  <2>2. CASE Eval!Finish(e)
    <3>1. \/ eval' = eval
          \/ eval' = [eval EXCEPT ![e].row = "live", ![e].status = Eval!Outcome(e), ![e].passed = work[e].passed]
      BY <2>2 DEF Eval!Finish, Eval!Saved
    <3>2. ~Eval!More(e) /\ Eval!Outcome(e) = IF work[e].error THEN "failed" ELSE "done"
      BY <2>2 DEF Eval!Finish, Eval!Outcome
    <3>3. CASE work[e].error
      <4>1. eval' = eval \/ eval' = [eval EXCEPT ![e].row = "live", ![e].status = "failed", ![e].passed = work[e].passed]
        BY <3>1, <3>2, <3>3
      <4> QED
        BY <1>2, <4>1, Zenon
    <3>4. CASE ~work[e].error
      <4>1. eval' = eval \/ eval' = [eval EXCEPT ![e].row = "live", ![e].status = "done", ![e].passed = work[e].passed]
        BY <3>1, <3>2, <3>4
      <4> QED
        BY <1>2, <3>2, <3>4, <4>1, Zenon
    <3> QED
      BY <3>3, <3>4
  <2> QED
    BY <2>1, <2>2
<1> HIDE DEF done, failed, summed
<1>5. /\ eval'[e] \in {eval[e], failed, summed, done}
      /\ eval'[e] = done => eval'[e] \in {eval[e], failed, summed} \/ (~Eval!More(e) /\ ~work[e].error)
      /\ \A f \in Evals \ {e} : eval'[f] = eval[f]
      /\ eval' \in [Evals -> EvalRow]
  BY <1>2, <1>3, <1>4
<1>6. /\ work'[e] = Eval!NoWork /\ ~Eval!NoWork.on /\ work' \in [Evals -> Effort]
      /\ \A f \in Evals \ {e} : work'[f] = work[f]
  BY <1>1, <1>2, RepeatsMany DEF Eval!NoWork, Effort
<1>7. EvalTyped'
  BY <1>1, <1>5, <1>6 DEF EvalInv, EvalTyped
<1>8. \A f \in Evals \ {e} : RunSound(f)'
  BY <1>1, <1>5, <1>6, EvalKeeps
<1>9. RunSound(e) /\ eval[e].status = "running" /\ eval[e].row # "none"
  BY <1>1, <1>6 DEF EvalInv, RunSound, OnIsRunning, NotBegun
<1>10. /\ NotBegun(e)' /\ OnIsRunning(e)' /\ ListedOnce(e)' /\ OnlyListed(e)' /\ OnlyTried(e)'
       /\ TriedAreStored(e)'
  BY <1>1, <1>3, <1>5, <1>6, <1>9
  DEF RunSound, NotBegun, OnIsRunning, ListedOnce, OnlyListed, OnlyTried, TriedAreStored, CaseAt
<1>11. DoneAreStored(e)'
  <2> SUFFICES ASSUME eval'[e].status = "done", eval[e].of \notin deleted
               PROVE  /\ \A i \in DOMAIN listed[e], a \in 1 .. Repeats :
                           CaseAt(e, i)' \notin deleted => Stored(e, i, a)'
                      /\ NothingGone(e)' => eval'[e].passed = Cardinality(Passes(e)')
    BY <1>1, <1>3, <1>5 DEF DoneAreStored
  <2>1. eval'[e].passed = work[e].passed /\ ~Eval!More(e) /\ ~work[e].error
    BY <1>3, <1>5, <1>9
  <2>2. \A i \in DOMAIN listed[e] : i < work[e].at
    <3>1. Len(listed[e]) \in Nat /\ work[e].at \in Nat /\ DOMAIN listed[e] = 1 .. Len(listed[e])
      BY <1>2 DEF Effort
    <3>2. ~(work[e].at <= Len(listed[e]))
      BY <2>1 DEF Eval!More
    <3> QED
      BY <3>1, <3>2
  <2>3. ASSUME NEW i \in DOMAIN listed[e], NEW a \in 1 .. Repeats, CaseAt(e, i)' \notin deleted
        PROVE  Stored(e, i, a)'
    <3>1. CaseAt(e, i) \notin deleted /\ Tried(e, i, a)
      BY <1>1, <2>2, <2>3 DEF CaseAt, Tried
    <3>2. Stored(e, i, a)
      BY <1>1, <1>9, <2>1, <3>1 DEF RunSound, TriedAreStored
    <3> QED
      BY <1>1, <3>2 DEF Stored, CaseAt
  <2>4. ASSUME NothingGone(e)' PROVE eval'[e].passed = Cardinality(Passes(e)')
    <3>1. NothingGone(e) /\ Passes(e)' = Passes(e)
      BY <1>1, <2>4 DEF NothingGone, CaseAt, Passes
    <3> QED
      BY <1>1, <1>9, <2>1, <3>1 DEF RunSound, TriedAreStored
  <2> QED
    BY <2>3, <2>4
<1>12. RunSound(e)'
  BY <1>9, <1>10, <1>11 DEF RunSound
<1> QED
  BY <1>7, <1>8, <1>12 DEF EvalInv

LEMMA EvalNext == EvalInv /\ [Eval!Next]_(Eval!vars) => EvalInv'
<1> SUFFICES ASSUME EvalInv, [Eval!Next]_(Eval!vars) PROVE EvalInv'
  OBVIOUS
<1>1. CASE UNCHANGED Eval!vars
  <2>1. UNCHANGED <<version, eval, listed, results, work, deleted>>
    BY <1>1 DEF Eval!vars, Eval!rows
  <2>2. EvalTyped'
    BY <2>1 DEF EvalInv, EvalTyped
  <2>3. \A e \in Evals : RunSound(e)'
    BY <2>1, EvalKeeps
  <2> QED
    BY <2>2, <2>3 DEF EvalInv
<1>2. CASE Eval!Next
  <2>1. CASE Eval!Quiet
    BY <1>1, <2>1 DEF Eval!Quiet
  <2> QED
    BY <1>2, <2>1, EditsInv, DeleteCaseInv, DeleteDatasetInv, StartRunInv, AttemptInv, EndRunInv, EvalCrash
    DEF Eval!Next
<1> QED
  BY <1>1, <1>2

(* What the types say beyond this: a case is saved at most once for every  *)
(* update there was, and the next attempt is of a listed case or the one   *)
(* after the last.                                                         *)
EditsBounded ==
  /\ updates \in 0 .. MaxEdits /\ edits \subseteq Datasets \cup Eval!Cases
  /\ \A c \in Eval!Cases : /\ version[c] <= updates
                           /\ c \in edits => version[c] < updates

TablesBounded ==
  /\ dataset \in [Datasets -> Eval!Rows] /\ case \in [Eval!Cases -> Eval!Rows]
  /\ deleting \in [Datasets -> 0 .. 4] /\ home \in [Eval!Cases -> Datasets]
  /\ version \in [Eval!Cases -> 0 .. MaxEdits] /\ EditsBounded

RunBounded(e) ==
  /\ \A i \in DOMAIN listed[e] : listed[e][i].version \in 0 .. MaxEdits
  /\ \A r \in results[e] : r.version \in 0 .. MaxEdits
  /\ work[e].at <= Len(listed[e]) + 1

EvalBounded == TablesBounded /\ \A e \in Evals : RunBounded(e)

LEMMA EvalTypes == EvalInv /\ EvalBounded => Eval!TypeOK
<1> SUFFICES ASSUME EvalInv, EvalBounded PROVE Eval!TypeOK
  OBVIOUS
<1>1. ASSUME NEW e \in Evals
      PROVE  /\ eval[e].of \in Datasets /\ eval[e].row \in Eval!Rows
             /\ eval[e].status \in Eval!Statuses /\ eval[e].passed \in Nat
             /\ results[e] \subseteq [case : Eval!Cases, version : 0 .. MaxEdits, attempt : 1 .. Repeats,
                                      passed : BOOLEAN, error : BOOLEAN]
             /\ work[e].at \in 1 .. Len(listed[e]) + 1 /\ work[e].attempt \in 1 .. Repeats
  <2>1. /\ eval[e] \in EvalRow /\ results[e] \in SUBSET Outcome /\ work[e] \in Effort
        /\ listed[e] \in Seq(Listing)
    BY DEF EvalInv, EvalTyped
  <2>2. RunBounded(e)
    BY DEF EvalBounded
  <2>3. work[e].at \in 1 .. Len(listed[e]) + 1 /\ work[e].attempt \in 1 .. Repeats
    BY <2>1, <2>2 DEF RunBounded, Effort
  <2>4. ASSUME NEW r \in results[e]
        PROVE  r \in [case : Eval!Cases, version : 0 .. MaxEdits, attempt : 1 .. Repeats,
                      passed : BOOLEAN, error : BOOLEAN]
    <3>1. r \in Outcome /\ r.version \in 0 .. MaxEdits
      BY <2>1, <2>2 DEF RunBounded
    <3> QED
      BY <3>1 DEF Outcome
  <2> QED
    BY <2>1, <2>3, <2>4 DEF EvalRow
<1> QED
  BY <1>1 DEF EvalBounded, TablesBounded, EditsBounded, Eval!TypeOK

LEMMA EvalBoundedInit == Eval!Init => EvalBounded
<1> SUFFICES ASSUME Eval!Init PROVE EvalBounded
  OBVIOUS
<1>1. 0 \in 0 .. MaxEdits
  BY BoundsAssumption
<1>2. TablesBounded
  BY <1>1 DEF Eval!Init, TablesBounded, EditsBounded, Eval!Rows
<1>3. ASSUME NEW e \in Evals PROVE RunBounded(e)
  <2>1. listed[e] = <<>> /\ results[e] = {} /\ work[e] = Eval!NoWork
    BY DEF Eval!Init
  <2> QED
    BY <2>1 DEF RunBounded, Eval!NoWork
<1> QED
  BY <1>2, <1>3 DEF EvalBounded

LEMMA RunStaysBounded ==
  ASSUME NEW e \in Evals, listed[e] \in Seq(Listing), RunBounded(e), listed'[e] = listed[e],
         results'[e] \subseteq results[e], work'[e] \in {work[e], Eval!NoWork}
  PROVE  RunBounded(e)'
<1>1. Len(listed[e]) \in Nat /\ Eval!NoWork.at = 1
  BY DEF Eval!NoWork
<1> QED
  BY <1>1 DEF RunBounded

LEMMA AttemptBounded ==
  ASSUME EvalInv, EvalBounded, NEW e \in Evals, Eval!Attempt(e)
  PROVE  EvalBounded'
<1>1. /\ work[e].on /\ work[e].at <= Len(listed[e])
      /\ UNCHANGED <<dataset, case, home, version, edits, updates, deleting, listed>>
  BY DEF Eval!Attempt, Eval!More, Eval!rows
<1>2. PICK j \in Eval!Judged(e) :
        /\ results' = [results EXCEPT ![e] = @ \cup
             {[case |-> Eval!CaseOf(e).case, version |-> Eval!CaseOf(e).version,
               attempt |-> work[e].attempt, passed |-> j.passed, error |-> j.error]}]
        /\ work' = [work EXCEPT ![e] = [at |-> IF @.attempt = Repeats THEN @.at + 1 ELSE @.at,
                                        attempt |-> IF @.attempt = Repeats THEN 1 ELSE @.attempt + 1,
                                        passed |-> IF j.passed THEN @.passed + 1 ELSE @.passed,
                                        error |-> j.error, on |-> TRUE]]
  BY DEF Eval!Attempt
<1> DEFINE new == [case |-> Eval!CaseOf(e).case, version |-> Eval!CaseOf(e).version,
                   attempt |-> work[e].attempt, passed |-> j.passed, error |-> j.error]
<1>3. /\ results \in [Evals -> SUBSET Outcome] /\ work \in [Evals -> Effort]
      /\ work[e].at \in Nat \ {0} /\ \A f \in Evals : listed[f] \in Seq(Listing)
  BY DEF EvalInv, EvalTyped, Effort
<1>4. new.version \in 0 .. MaxEdits
  <2>1. work[e].at \in DOMAIN listed[e]
    BY <1>1, <1>3
  <2> QED
    BY <2>1 DEF EvalBounded, RunBounded, Eval!CaseOf
<1>5. /\ results'[e] = results[e] \cup {new} /\ work'[e].at \in {work[e].at, work[e].at + 1}
      /\ \A f \in Evals \ {e} : results'[f] = results[f] /\ work'[f] = work[f]
  BY <1>2, <1>3
<1> HIDE DEF new
<1>6. RunBounded(e)'
  BY <1>1, <1>3, <1>4, <1>5 DEF EvalBounded, RunBounded
<1>7. \A f \in Evals \ {e} : RunBounded(f)'
  BY <1>1, <1>3, <1>5, RunStaysBounded DEF EvalBounded
<1>8. TablesBounded'
  BY <1>1 DEF EvalBounded, TablesBounded, EditsBounded
<1> QED
  BY <1>6, <1>7, <1>8 DEF EvalBounded

LEMMA StartRunBounded ==
  ASSUME EvalInv, EvalBounded, NEW e \in Evals, Eval!StartRun(e)
  PROVE  EvalBounded'
<1>1. /\ eval[e].row = "none" /\ work' = [work EXCEPT ![e].on = TRUE]
      /\ UNCHANGED <<dataset, case, home, version, edits, updates, deleting, results>>
  BY DEF Eval!StartRun, Eval!Requested, Eval!rows
<1>2. PICK cases \in Eval!CasesNow(eval[e].of) :
        listed' = [listed EXCEPT ![e] = [i \in DOMAIN cases |-> [case |-> cases[i], version |-> version[cases[i]]]]]
  BY DEF Eval!StartRun
<1>3. /\ work \in [Evals -> Effort] /\ listed \in [Evals -> Seq(Listing)]
      /\ \A f \in Evals : listed[f] \in Seq(Listing)
  BY DEF EvalInv, EvalTyped
<1>4. eval[e].of \in Datasets /\ work[e] = Eval!NoWork
  BY <1>1 DEF EvalInv, EvalTyped, RunSound, NotBegun, EvalRow
<1>5. PICK n \in Nat : cases \in [1 .. n -> Eval!Cases]
  BY <1>4, CasesListed
<1>6. /\ listed'[e] = [i \in 1 .. n |-> [case |-> cases[i], version |-> version[cases[i]]]]
      /\ work'[e].at = 1
      /\ \A f \in Evals \ {e} : listed'[f] = listed[f] /\ work'[f] = work[f]
  <2>1. Eval!NoWork.at = 1 /\ Eval!NoWork \in Effort
    BY RepeatsMany DEF Eval!NoWork, Effort
  <2>2. work'[e] = [Eval!NoWork EXCEPT !.on = TRUE]
    BY <1>1, <1>3, <1>4
  <2> QED
    BY <1>1, <1>2, <1>3, <1>5, <2>1, <2>2 DEF Effort
<1>7. \A i \in 1 .. n : version[cases[i]] \in 0 .. MaxEdits
  BY <1>5 DEF EvalBounded, TablesBounded
<1>8. RunBounded(e)'
  <2>1. \A i \in DOMAIN listed'[e] : listed'[e][i].version \in 0 .. MaxEdits
    BY <1>6, <1>7
  <2>2. Len(listed'[e]) = n
    BY <1>6
  <2>3. \A r \in results'[e] : r.version \in 0 .. MaxEdits
    BY <1>1 DEF EvalBounded, RunBounded
  <2>4. work'[e].at <= Len(listed'[e]) + 1
    BY <1>6, <2>2
  <2> QED
    BY <2>1, <2>3, <2>4 DEF RunBounded
<1>9. \A f \in Evals \ {e} : RunBounded(f)'
  BY <1>1, <1>3, <1>6, RunStaysBounded DEF EvalBounded
<1>10. TablesBounded'
  BY <1>1 DEF EvalBounded, TablesBounded, EditsBounded
<1> QED
  BY <1>8, <1>9, <1>10 DEF EvalBounded

(* Reading a row to change it, and saving it. *)
LEMMA UpdatesBounded ==
  ASSUME EvalBounded,
         \/ \E d \in Datasets : Eval!UpdateDataset(d) \/ Eval!SaveDataset(d)
         \/ \E c \in Eval!Cases : Eval!UpdateCase(c) \/ Eval!SaveCase(c)
  PROVE  TablesBounded'
<1>1. /\ dataset \in [Datasets -> Eval!Rows] /\ case \in [Eval!Cases -> Eval!Rows]
      /\ version \in [Eval!Cases -> 0 .. MaxEdits] /\ updates \in 0 .. MaxEdits
      /\ MaxEdits \in Nat /\ EditsBounded
  BY BoundsAssumption DEF EvalBounded, TablesBounded, EditsBounded
<1>2. ASSUME NEW x \in Datasets \cup Eval!Cases, edits' = edits \cup {x}, updates < MaxEdits, updates' = updates + 1,
             UNCHANGED <<dataset, case, home, version, deleting>>
      PROVE  TablesBounded'
  <2>1. \A c \in Eval!Cases : version[c] \in Nat /\ version[c] <= updates
    BY <1>1 DEF EditsBounded
  <2>2. EditsBounded'
    BY <1>1, <1>2, <2>1 DEF EditsBounded
  <2> QED
    BY <1>2, <2>2 DEF EvalBounded, TablesBounded
<1>3. ASSUME NEW d \in Datasets, Eval!SaveDataset(d) PROVE TablesBounded'
  <2>1. dataset' \in [Datasets -> Eval!Rows] /\ edits' \subseteq edits
        /\ UNCHANGED <<case, home, version, deleting, updates>>
    BY <1>1, <1>3 DEF Eval!SaveDataset, Eval!Rows
  <2> QED
    BY <1>1, <2>1 DEF EvalBounded, TablesBounded, EditsBounded
<1>4. ASSUME NEW c \in Eval!Cases, Eval!SaveCase(c) PROVE TablesBounded'
  <2>1. /\ c \in edits /\ edits' = edits \ {c} /\ UNCHANGED <<dataset, home, deleting, updates>>
        /\ case' \in [Eval!Cases -> Eval!Rows]
        /\ version' = version \/ version' = [version EXCEPT ![c] = @ + 1]
    BY <1>1, <1>4 DEF Eval!SaveCase, Eval!Rows
  <2>2. version[c] + 1 \in 0 .. MaxEdits /\ version[c] + 1 <= updates
    BY <1>1, <2>1 DEF EditsBounded
  <2>3. version' \in [Eval!Cases -> 0 .. MaxEdits]
    BY <1>1, <2>1, <2>2
  <2>4. \A b \in Eval!Cases : /\ version[b] \in Nat /\ version[b] <= updates
                              /\ b \in edits => version[b] < updates
    BY <1>1 DEF EditsBounded
  <2>5. \A b \in Eval!Cases : version'[b] = version[b] \/ (b = c /\ version'[b] = version[b] + 1)
    BY <1>1, <2>1
  <2>6. EditsBounded'
    BY <1>1, <2>1, <2>2, <2>4, <2>5 DEF EditsBounded
  <2> QED
    BY <1>1, <2>1, <2>3, <2>6 DEF EvalBounded, TablesBounded
<1> QED
  BY <1>2, <1>3, <1>4 DEF Eval!UpdateDataset, Eval!UpdateCase, Eval!rows

LEMMA RowsBounded ==
  ASSUME EvalInv, EvalBounded,
         \/ \E d \in Datasets : \/ Eval!CreateDataset(d) \/ Eval!DeleteDataset(d)
                              \/ Eval!UpdateDataset(d) \/ Eval!SaveDataset(d)
         \/ \E c \in Eval!Cases : \/ Eval!CreateCase(c) \/ Eval!DeleteCase(c)
                                \/ Eval!UpdateCase(c) \/ Eval!SaveCase(c)
  PROVE  EvalBounded'
<1>1. listed' = listed /\ work' = work
  BY DEF Eval!CreateDataset, Eval!DeleteDataset, Eval!CreateCase, Eval!DeleteCase, Eval!UpdateDataset,
         Eval!UpdateCase, Eval!SaveDataset, Eval!SaveCase
<1>2. \A e \in Evals : results'[e] \subseteq results[e]
  BY DEF Eval!CreateDataset, Eval!DeleteDataset, Eval!CreateCase, Eval!DeleteCase, Eval!UpdateDataset,
         Eval!UpdateCase, Eval!SaveDataset, Eval!SaveCase, Eval!ResultsOf
<1>3. \A e \in Evals : RunBounded(e)'
  BY <1>1, <1>2, RunStaysBounded DEF EvalBounded, EvalInv, EvalTyped
<1>4. TablesBounded
  BY DEF EvalBounded
<1>5. TablesBounded'
  <2>1. ASSUME NEW d \in Datasets, Eval!CreateDataset(d) PROVE TablesBounded'
    BY <1>4, <2>1 DEF Eval!CreateDataset, TablesBounded, EditsBounded, Eval!Rows
  <2>2. ASSUME NEW d \in Datasets, Eval!DeleteDataset(d) PROVE TablesBounded'
    <3>1. dataset' \in [Datasets -> Eval!Rows]
      BY <1>4, <2>2 DEF Eval!DeleteDataset, TablesBounded, Eval!Rows
    <3>2. case' \in [Eval!Cases -> Eval!Rows]
      BY <1>4, <2>2 DEF Eval!DeleteDataset, TablesBounded, Eval!Rows
    <3>3. deleting' \in [Datasets -> 0 .. 4] /\ UNCHANGED <<home, version, edits, updates>>
      BY <1>4, <2>2 DEF Eval!DeleteDataset, TablesBounded
    <3> QED
      BY <1>4, <3>1, <3>2, <3>3 DEF TablesBounded, EditsBounded
  <2>3. ASSUME NEW c \in Eval!Cases, Eval!CreateCase(c) \/ Eval!DeleteCase(c) PROVE TablesBounded'
    BY <1>4, <2>3 DEF Eval!CreateCase, Eval!DeleteCase, TablesBounded, EditsBounded, Eval!Rows
  <2> QED
    BY <2>1, <2>2, <2>3, UpdatesBounded
<1> QED
  BY <1>3, <1>5 DEF EvalBounded

LEMMA EvalBoundedNext == EvalInv /\ EvalBounded /\ [Eval!Next]_(Eval!vars) => EvalBounded'
<1> SUFFICES ASSUME EvalInv, EvalBounded, [Eval!Next]_(Eval!vars) PROVE EvalBounded'
  OBVIOUS
<1>1. ASSUME UNCHANGED <<listed, results, home, version, dataset, case, updates>>, edits' \subseteq edits,
             deleting' \in [Datasets -> 0 .. 4], \A e \in Evals : work'[e] \in {work[e], Eval!NoWork}
      PROVE  EvalBounded'
  <2>1. TablesBounded'
    BY <1>1 DEF EvalBounded, TablesBounded, EditsBounded
  <2>2. \A e \in Evals : RunBounded(e)'
    BY <1>1, RunStaysBounded DEF EvalBounded, EvalInv, EvalTyped
  <2> QED
    BY <2>1, <2>2 DEF EvalBounded
<1>2. deleting \in [Datasets -> 0 .. 4] /\ work \in [Evals -> Effort]
  BY DEF EvalBounded, TablesBounded, EvalInv, EvalTyped
<1>3. CASE UNCHANGED Eval!vars
  BY <1>1, <1>2, <1>3 DEF Eval!vars, Eval!rows
<1>4. CASE Eval!Crash
  BY <1>1, <1>4 DEF Eval!Crash, Eval!rows
<1>5. ASSUME NEW e \in Evals, Eval!ResultNotStored(e) \/ Eval!Finish(e) PROVE EvalBounded'
  BY <1>1, <1>2, <1>5 DEF Eval!ResultNotStored, Eval!Finish, Eval!rows
<1>6. CASE Eval!Quiet
  BY <1>3, <1>6 DEF Eval!Quiet
<1> QED
  BY <1>3, <1>4, <1>5, <1>6, AttemptBounded, StartRunBounded, RowsBounded DEF Eval!Next

LEMMA EvaluationHolds == Spec => [](part = "evaluation" => EvalInv /\ EvalBounded)
<1>1. Init => (part = "evaluation" => EvalInv /\ EvalBounded)
  BY EvalInit, EvalBoundedInit DEF Init
<1>2. (part = "evaluation" => EvalInv /\ EvalBounded) /\ [Next]_vars => (part = "evaluation" => EvalInv /\ EvalBounded)'
  BY EvalSteps, EvalNext, EvalBoundedNext, PartStays
<1> QED
  BY <1>1, <1>2, PTL DEF Spec

(* Whatever edits, deletions, failed writes and crashes come between: a    *)
(* run that says done has, for every case it listed and nobody deleted,    *)
(* all its attempts without an error and of the text of then, and counts   *)
(* the passes among them (eval/service.go, execute).                       *)
THEOREM DoneStaysComplete == Spec => []DoneIsComplete
<1>1. (part = "evaluation" => EvalInv /\ EvalBounded) => DoneIsComplete
  BY EvalSound DEF DoneIsComplete
<1> QED
  BY EvaluationHolds, <1>1, PTL
=============================================================================
