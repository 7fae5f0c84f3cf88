-------------------------- MODULE PollWindowProofs --------------------------
(***************************************************************************)
(* What a window brings into the log is what the source holds.             *)
(***************************************************************************)
EXTENDS PollWindow, SequenceTheorems, FiniteSetTheorems, WellFoundedInduction, TLAPS

-----------------------------------------------------------------------------
(***************************************************************************)
(* Induction over the naturals, for a property given as a set.             *)
(***************************************************************************)
LEMMA LeastNatural ==
    ASSUME NEW T, T \subseteq Nat, T # {}
    PROVE  \E m \in T : \A n \in T : m <= n
<1> DEFINE R == {ss \in Nat \X Nat : ss[1] < ss[2]}
<1>1. IsWellFoundedOn(R, Nat)
  BY NatLessThanWellFounded DEF OpToRel
<1>2. PICK m \in T : \A n \in T : <<n, m>> \notin R
  <2> HIDE DEF R
  <2> QED BY <1>1, WFMin
<1>3. \A n \in T : m <= n
  <2> TAKE n \in T
  <2>1. <<n, m>> \notin R
    BY <1>2
  <2>2. ~ (n < m)
    BY <2>1
  <2> QED BY <2>2
<1> QED BY <1>3

LEMMA Induction ==
    ASSUME NEW T, 0 \in T, \A n \in Nat : n \in T => n + 1 \in T
    PROVE  Nat \subseteq T
<1> SUFFICES ASSUME Nat \ T # {} PROVE FALSE
  OBVIOUS
<1>1. PICK m \in Nat \ T : \A n \in Nat \ T : m <= n
  BY LeastNatural
<1>2. m # 0 /\ m - 1 \in Nat /\ m - 1 \in T
  BY <1>1
<1>3. QED
  BY <1>1, <1>2

-----------------------------------------------------------------------------
(***************************************************************************)
(* Only: its definition is what it computes.                               *)
(***************************************************************************)
UpTo(n) == {s \in Seq(Rows) : Len(s) <= n}
OnlyStep(g, s, S) ==
    IF s = <<>> THEN <<>> ELSE g[Front(s)] \o (IF Last(s) \in S THEN <<Last(s)>> ELSE <<>>)
Computes(g, n, S) == g \in [UpTo(n) -> Seq(Rows)] /\ \A s \in UpTo(n) : g[s] = OnlyStep(g, s, S)

LEMMA FrontLast ==
    ASSUME NEW s \in Seq(Rows), s # <<>>
    PROVE  /\ Len(s) \in Nat \ {0}
           /\ Front(s) \in Seq(Rows) /\ Len(Front(s)) = Len(s) - 1
           /\ Last(s) \in Rows
           /\ s = Append(Front(s), Last(s))
<1>1. Len(s) \in Nat \ {0} /\ \A i \in 1 .. Len(s) : s[i] \in Rows
  BY EmptySeq, ElementOfSeq
<1>2. /\ Front(s) \in Seq(Rows) /\ Len(Front(s)) = Len(s) - 1
      /\ \A i \in 1 .. Len(s) - 1 : Front(s)[i] = s[i]
  <2>1. 1 \in Int /\ Len(s) - 1 \in Int /\ \A i \in 1 .. Len(s) - 1 : s[i] \in Rows
    BY <1>1
  <2>2. /\ SubSeq(s, 1, Len(s) - 1) \in Seq(Rows)
        /\ Len(SubSeq(s, 1, Len(s) - 1)) = IF 1 <= Len(s) - 1 THEN Len(s) - 1 - 1 + 1 ELSE 0
        /\ \A i \in 1 .. Len(s) - 1 - 1 + 1 : SubSeq(s, 1, Len(s) - 1)[i] = s[1 + i - 1]
    BY <2>1, SubSeqProperties
  <2>3. PICK n \in Nat \ {0} : n = Len(s)
    BY <1>1
  <2>4. /\ Len(SubSeq(s, 1, n - 1)) = IF 1 <= n - 1 THEN n - 1 - 1 + 1 ELSE 0
        /\ \A i \in 1 .. n - 1 - 1 + 1 : SubSeq(s, 1, n - 1)[i] = s[1 + i - 1]
    BY <2>2, <2>3
  <2>5. Len(SubSeq(s, 1, n - 1)) = n - 1 /\ \A i \in 1 .. n - 1 : SubSeq(s, 1, n - 1)[i] = s[i]
    BY <2>4
  <2>6. QED
    BY <2>2, <2>3, <2>5 DEF Front
<1>3. Last(s) \in Rows
  BY <1>1 DEF Last
<1>4. s = Append(Front(s), Last(s))
  <2>1. /\ Append(Front(s), Last(s)) \in Seq(Rows)
        /\ Len(Append(Front(s), Last(s))) = Len(s)
        /\ \A i \in 1 .. Len(s) - 1 : Append(Front(s), Last(s))[i] = s[i]
        /\ Append(Front(s), Last(s))[Len(s)] = Last(s)
    BY <1>1, <1>2, <1>3, AppendProperties
  <2>2. \A i \in 1 .. Len(s) : Append(Front(s), Last(s))[i] = s[i]
    BY <1>1, <2>1 DEF Last
  <2>3. QED
    BY <2>1, <2>2, SeqEqual
<1>5. QED
  BY <1>1, <1>2, <1>3, <1>4

LEMMA FrontAppend ==
    ASSUME NEW s \in Seq(Rows), NEW r \in Rows
    PROVE  /\ Append(s, r) \in Seq(Rows) /\ Append(s, r) # <<>>
           /\ Len(Append(s, r)) = Len(s) + 1
           /\ Front(Append(s, r)) = s /\ Last(Append(s, r)) = r
<1>1. /\ Append(s, r) \in Seq(Rows) /\ Append(s, r) # <<>>
      /\ Len(Append(s, r)) = Len(s) + 1
      /\ Append(s, r)[Len(s) + 1] = r
  BY AppendProperties
<1>2. /\ Front(Append(s, r)) \in Seq(Rows) /\ Last(Append(s, r)) \in Rows
      /\ Append(s, r) = Append(Front(Append(s, r)), Last(Append(s, r)))
  BY <1>1, FrontLast
<1>3. QED
  BY <1>1, <1>2, AppendInjective

LEMMA StepTyped ==
    ASSUME NEW n \in Nat, NEW S, NEW g \in [UpTo(n) -> Seq(Rows)], NEW s \in UpTo(n + 1)
    PROVE  OnlyStep(g, s, S) \in Seq(Rows)
<1>1. CASE s = <<>>
  BY <1>1, EmptySeq DEF OnlyStep
<1>2. CASE s # <<>>
  <2>1. Front(s) \in UpTo(n) /\ Last(s) \in Rows
    BY <1>2, FrontLast DEF UpTo
  <2>2. g[Front(s)] \in Seq(Rows)
    BY <2>1
  <2>3. (IF Last(s) \in S THEN <<Last(s)>> ELSE <<>>) \in Seq(Rows)
    BY <2>1
  <2>4. QED
    BY <1>2, <2>2, <2>3, ConcatProperties DEF OnlyStep
<1>3. QED
  BY <1>1, <1>2

LEMMA OnlyExists ==
    ASSUME NEW S
    PROVE  \A n \in Nat : \E g : Computes(g, n, S)
<1> DEFINE T == {n \in Nat : \E g : Computes(g, n, S)}
<1>1. 0 \in T
  <2> DEFINE g == [s \in UpTo(0) |-> <<>>]
  <2>1. \A s \in UpTo(0) : s = <<>>
    BY EmptySeq DEF UpTo
  <2>2. g \in [UpTo(0) -> Seq(Rows)]
    BY EmptySeq
  <2>3. Computes(g, 0, S)
    BY <2>1, <2>2 DEF Computes, OnlyStep
  <2>4. QED
    BY <2>3
<1>2. ASSUME NEW n \in Nat, n \in T PROVE n + 1 \in T
  <2>1. PICK g : Computes(g, n, S)
    BY <1>2
  <2> DEFINE h == [s \in UpTo(n + 1) |-> OnlyStep(g, s, S)]
  <2>2. h \in [UpTo(n + 1) -> Seq(Rows)]
    BY <2>1, StepTyped DEF Computes
  <2>3. ASSUME NEW s \in UpTo(n + 1), s # <<>> PROVE h[Front(s)] = g[Front(s)]
    <3>1. Front(s) \in UpTo(n) /\ Front(s) \in UpTo(n + 1)
      BY <2>3, FrontLast DEF UpTo
    <3>2. QED
      BY <2>1, <3>1 DEF Computes
  <2>4. \A s \in UpTo(n + 1) : h[s] = OnlyStep(h, s, S)
    <3> TAKE s \in UpTo(n + 1)
    <3>1. h[s] = OnlyStep(g, s, S)
      OBVIOUS
    <3>2. OnlyStep(g, s, S) = OnlyStep(h, s, S)
      <4>1. s # <<>> => h[Front(s)] = g[Front(s)]
        BY <2>3
      <4> HIDE DEF h
      <4>2. QED
        BY <4>1 DEF OnlyStep
    <3>3. QED
      BY <3>1, <3>2
  <2>5. Computes(h, n + 1, S)
    <3> HIDE DEF h
    <3>1. QED
      BY <2>2, <2>4 DEF Computes
  <2>6. QED
    BY <2>5
<1>3. Nat \subseteq T
  <2> HIDE DEF T
  <2>1. QED
    BY <1>1, <1>2, Induction
<1>4. QED
  BY <1>3

LEMMA OnlyUnique ==
    ASSUME NEW S, NEW n \in Nat, NEW g, Computes(g, n, S), NEW m \in Nat, NEW h, Computes(h, m, S)
    PROVE  \A s \in UpTo(n) \cap UpTo(m) : g[s] = h[s]
<1> DEFINE T == {k \in Nat : \A s \in UpTo(n) \cap UpTo(m) : Len(s) <= k => g[s] = h[s]}
<1>1. \A s \in UpTo(n) \cap UpTo(m) : g[s] = OnlyStep(g, s, S) /\ h[s] = OnlyStep(h, s, S)
  BY DEF Computes
<1>2. 0 \in T
  <2>1. ASSUME NEW s \in UpTo(n) \cap UpTo(m), Len(s) <= 0 PROVE g[s] = h[s]
    <3>1. s = <<>>
      BY <2>1, EmptySeq DEF UpTo
    <3>2. QED
      BY <1>1, <3>1 DEF OnlyStep
  <2>2. QED
    BY <2>1
<1>3. ASSUME NEW k \in Nat, k \in T PROVE k + 1 \in T
  <2>1. ASSUME NEW s \in UpTo(n) \cap UpTo(m), Len(s) <= k + 1 PROVE g[s] = h[s]
    <3>1. CASE s = <<>>
      BY <1>1, <3>1 DEF OnlyStep
    <3>2. CASE s # <<>>
      <4>1. Front(s) \in UpTo(n) \cap UpTo(m) /\ Len(Front(s)) <= k
        BY <2>1, <3>2, FrontLast DEF UpTo
      <4>2. g[Front(s)] = h[Front(s)]
        BY <1>3, <4>1
      <4>3. QED
        BY <1>1, <4>2 DEF OnlyStep
    <3>3. QED
      BY <3>1, <3>2
  <2>2. QED
    BY <2>1
<1>4. Nat \subseteq T
  <2> HIDE DEF T
  <2>1. QED
    BY <1>2, <1>3, Induction
<1>5. \A s \in UpTo(n) \cap UpTo(m) : Len(s) \in Nat
  BY EmptySeq, LenProperties DEF UpTo
<1>6. QED
  BY <1>4, <1>5

LEMMA OnlyEquation ==
    ASSUME NEW s \in Seq(Rows), NEW S \in SUBSET Rows
    PROVE  /\ Only[S][s] \in Seq(Rows)
           /\ Only[S][s] = IF s = <<>> THEN <<>>
                           ELSE Only[S][Front(s)] \o (IF Last(s) \in S THEN <<Last(s)>> ELSE <<>>)
<1> DEFINE G(t) == CHOOSE g : Computes(g, Len(t), S)
           F == [t \in Seq(Rows) |-> G(t)[t]]
           Eq(f) == f = [t \in Seq(Rows) |->
                           IF t = <<>> THEN <<>>
                           ELSE f[Front(t)] \o (IF Last(t) \in S THEN <<Last(t)>> ELSE <<>>)]
<1>1. ASSUME NEW t \in Seq(Rows)
      PROVE  Computes(G(t), Len(t), S) /\ t \in UpTo(Len(t)) /\ Len(t) \in Nat
  <2>1. Len(t) \in Nat
    BY LenProperties
  <2>2. \E g : Computes(g, Len(t), S)
    BY <2>1, OnlyExists
  <2>3. QED
    BY <2>1, <2>2 DEF UpTo
<1>2. ASSUME NEW t \in Seq(Rows)
      PROVE  F[t] = G(t)[t]
  OBVIOUS
<1> HIDE DEF G, F
<1>3. ASSUME NEW t \in Seq(Rows)
      PROVE  /\ F[t] \in Seq(Rows)
             /\ F[t] = IF t = <<>> THEN <<>>
                          ELSE F[Front(t)] \o (IF Last(t) \in S THEN <<Last(t)>> ELSE <<>>)
  <2>1. Computes(G(t), Len(t), S) /\ t \in UpTo(Len(t)) /\ Len(t) \in Nat
    BY <1>1
  <2>2. G(t)[t] = OnlyStep(G(t), t, S) /\ G(t)[t] \in Seq(Rows)
    BY <2>1 DEF Computes
  <2>3. CASE t = <<>>
    BY <1>2, <2>2, <2>3 DEF OnlyStep
  <2>4. CASE t # <<>>
    <3>1. Front(t) \in Seq(Rows) /\ Len(Front(t)) \in Nat /\ Len(Front(t)) <= Len(t)
      BY <2>4, FrontLast, LenProperties
    <3>2. /\ Computes(G(Front(t)), Len(Front(t)), S)
          /\ Front(t) \in UpTo(Len(Front(t))) \cap UpTo(Len(t))
      BY <1>1, <3>1 DEF UpTo
    <3>3. G(Front(t))[Front(t)] = G(t)[Front(t)]
      BY <2>1, <3>1, <3>2, OnlyUnique
    <3>4. F[Front(t)] = G(t)[Front(t)]
      BY <1>2, <3>1, <3>3
    <3>5. QED
      BY <1>2, <2>2, <2>4, <3>4 DEF OnlyStep
  <2>5. QED
    BY <2>3, <2>4
<1>4. Eq(F)
  <2>1. F = [t \in Seq(Rows) |-> F[t]]
    BY DEF F
  <2>2. QED
    BY <1>3, <2>1
<1>5. Eq(Only[S])
  <2>1. Only[S] = CHOOSE f : Eq(f)
    BY DEF Only
  <2> HIDE DEF Eq
  <2>2. QED
    BY <1>4, <2>1
<1>6. ASSUME NEW t \in Seq(Rows)
      PROVE  Only[S][t] = IF t = <<>> THEN <<>>
                          ELSE Only[S][Front(t)] \o (IF Last(t) \in S THEN <<Last(t)>> ELSE <<>>)
  BY <1>5
<1> HIDE DEF Eq
<1> DEFINE T == {k \in Nat : \A t \in Seq(Rows) : Len(t) <= k => Only[S][t] = F[t]}
<1>7. 0 \in T
  <2>1. ASSUME NEW t \in Seq(Rows), Len(t) <= 0 PROVE Only[S][t] = F[t]
    <3>1. t = <<>>
      BY <2>1, EmptySeq
    <3>2. QED
      BY <1>3, <1>6, <3>1
  <2>2. QED
    BY <2>1
<1>8. ASSUME NEW k \in Nat, k \in T PROVE k + 1 \in T
  <2>1. ASSUME NEW t \in Seq(Rows), Len(t) <= k + 1 PROVE Only[S][t] = F[t]
    <3>1. CASE t = <<>>
      BY <1>3, <1>6, <3>1
    <3>2. CASE t # <<>>
      <4>1. Front(t) \in Seq(Rows) /\ Len(Front(t)) <= k
        BY <2>1, <3>2, FrontLast
      <4>2. Only[S][Front(t)] = F[Front(t)]
        BY <1>8, <4>1
      <4>3. QED
        BY <1>3, <1>6, <3>2, <4>2
    <3>3. QED
      BY <3>1, <3>2
  <2>2. QED
    BY <2>1
<1>9. Nat \subseteq T
  <2> HIDE DEF T
  <2>1. QED
    BY <1>7, <1>8, Induction
<1>10. Only[S][s] = F[s]
  <2>1. Len(s) \in Nat
    BY LenProperties
  <2>2. QED
    BY <1>9, <2>1
<1>11. QED
  BY <1>3, <1>6, <1>10

LEMMA OnlyEmpty ==
    ASSUME NEW S \in SUBSET Rows
    PROVE  Only[S][<<>>] = <<>>
BY OnlyEquation, EmptySeq

LEMMA OnlyAppend ==
    ASSUME NEW s \in Seq(Rows), NEW S \in SUBSET Rows, NEW r \in Rows
    PROVE  Only[S][Append(s, r)] = IF r \in S THEN Append(Only[S][s], r) ELSE Only[S][s]
<1>1. /\ Append(s, r) \in Seq(Rows) /\ Append(s, r) # <<>>
      /\ Front(Append(s, r)) = s /\ Last(Append(s, r)) = r
  BY FrontAppend
<1>2. Only[S][s] \in Seq(Rows)
  BY OnlyEquation
<1>3. Only[S][Append(s, r)] = Only[S][s] \o (IF r \in S THEN <<r>> ELSE <<>>)
  <2>1. PICK t \in Seq(Rows) : t = Append(s, r)
    BY <1>1
  <2>2. t # <<>> /\ Front(t) = s /\ Last(t) = r
    BY <1>1, <2>1
  <2>3. Only[S][t] = Only[S][Front(t)] \o (IF Last(t) \in S THEN <<Last(t)>> ELSE <<>>)
    BY <2>2, OnlyEquation
  <2>4. QED
    BY <2>1, <2>2, <2>3
<1>4. CASE r \in S
  BY <1>2, <1>3, <1>4, AppendIsConcat
<1>5. CASE r \notin S
  BY <1>2, <1>3, <1>5, ConcatEmptySeq
<1>6. QED
  BY <1>4, <1>5

-----------------------------------------------------------------------------
(***************************************************************************)
(* Sequences of rows: induction, their elements, their order.              *)
(***************************************************************************)
LEMMA SeqInduction ==
    ASSUME NEW T, <<>> \in T, \A s \in Seq(Rows), r \in Rows : s \in T => Append(s, r) \in T
    PROVE  Seq(Rows) \subseteq T
<1> DEFINE L == {n \in Nat : \A s \in Seq(Rows) : Len(s) <= n => s \in T}
<1>1. 0 \in L
  BY EmptySeq
<1>2. ASSUME NEW n \in Nat, n \in L PROVE n + 1 \in L
  <2>1. ASSUME NEW s \in Seq(Rows), Len(s) <= n + 1 PROVE s \in T
    <3>1. CASE s = <<>>
      BY <3>1
    <3>2. CASE s # <<>>
      <4>1. Front(s) \in Seq(Rows) /\ Len(Front(s)) <= n /\ Last(s) \in Rows
        BY <2>1, <3>2, FrontLast
      <4>2. Append(Front(s), Last(s)) \in T
        BY <1>2, <4>1
      <4>3. QED
        BY <3>2, <4>2, FrontLast
    <3>3. QED
      BY <3>1, <3>2
  <2>2. QED
    BY <2>1
<1>3. Nat \subseteq L
  <2> HIDE DEF L
  <2>1. QED
    BY <1>1, <1>2, Induction
<1>4. \A s \in Seq(Rows) : Len(s) \in Nat
  BY LenProperties
<1>5. QED
  BY <1>3, <1>4

LEMMA ElementsOf ==
    ASSUME NEW s \in Seq(Rows)
    PROVE  /\ Len(s) \in Nat /\ DOMAIN s = 1 .. Len(s)
           /\ ToSet(s) = {s[i] : i \in 1 .. Len(s)}
           /\ ToSet(s) \subseteq Rows
           /\ (s = <<>>) <=> (ToSet(s) = {})
<1>1. Len(s) \in Nat /\ DOMAIN s = 1 .. Len(s) /\ \A i \in 1 .. Len(s) : s[i] \in Rows
  BY LenProperties, ElementOfSeq
<1>2. s = <<>> <=> Len(s) = 0
  BY <1>1, EmptySeq
<1>3. ToSet(s) = {s[i] : i \in 1 .. Len(s)}
  BY <1>1 DEF ToSet
<1>4. QED
  BY <1>1, <1>2, <1>3

LEMMA ToSetAppend ==
    ASSUME NEW s \in Seq(Rows), NEW r \in Rows
    PROVE  ToSet(Append(s, r)) = ToSet(s) \cup {r}
<1>1. PICK t \in Seq(Rows) : t = Append(s, r)
  BY AppendProperties
<1>2. PICK n \in Nat : n = Len(s)
  BY LenProperties
<1>3. Len(t) = n + 1 /\ (\A i \in 1 .. n : t[i] = s[i]) /\ t[n + 1] = r
  BY <1>1, <1>2, AppendProperties
<1>4. ToSet(s) = {s[i] : i \in 1 .. n} /\ ToSet(t) = {t[i] : i \in 1 .. n + 1}
  BY <1>2, <1>3, ElementsOf
<1>5. {t[i] : i \in 1 .. n + 1} = {s[i] : i \in 1 .. n} \cup {r}
  BY <1>3
<1>6. QED
  BY <1>1, <1>4, <1>5

LEMMA ToSetConcat ==
    ASSUME NEW s \in Seq(Rows), NEW t \in Seq(Rows)
    PROVE  ToSet(s \o t) = ToSet(s) \cup ToSet(t)
<1>1. PICK u \in Seq(Rows) : u = s \o t
  BY ConcatProperties
<1>2. PICK n \in Nat, m \in Nat : n = Len(s) /\ m = Len(t)
  BY LenProperties
<1>3. Len(u) = n + m /\ \A i \in 1 .. n + m : u[i] = IF i <= n THEN s[i] ELSE t[i - n]
  BY <1>1, <1>2, ConcatProperties
<1>4. /\ ToSet(s) = {s[i] : i \in 1 .. n} /\ ToSet(t) = {t[i] : i \in 1 .. m}
      /\ ToSet(u) = {u[i] : i \in 1 .. n + m}
  BY <1>2, <1>3, ElementsOf
<1>5. (\A i \in 1 .. n : u[i] = s[i]) /\ \A i \in 1 .. m : i + n \in 1 .. n + m /\ u[i + n] = t[i]
  BY <1>3
<1>6. \A i \in 1 .. n + m : (i \in 1 .. n /\ u[i] = s[i]) \/ (i - n \in 1 .. m /\ u[i] = t[i - n])
  BY <1>3
<1>7. {u[i] : i \in 1 .. n + m} = {s[i] : i \in 1 .. n} \cup {t[i] : i \in 1 .. m}
  <2>1. ASSUME NEW i \in 1 .. n + m
        PROVE  u[i] \in {s[k] : k \in 1 .. n} \cup {t[k] : k \in 1 .. m}
    BY <1>6
  <2>2. ASSUME NEW i \in 1 .. n PROVE s[i] \in {u[k] : k \in 1 .. n + m}
    <3>1. i \in 1 .. n + m /\ u[i] = s[i]
      BY <1>5
    <3>2. QED
      BY <3>1
  <2>3. ASSUME NEW i \in 1 .. m PROVE t[i] \in {u[k] : k \in 1 .. n + m}
    <3>1. i + n \in 1 .. n + m /\ u[i + n] = t[i]
      BY <1>5
    <3>2. QED
      BY <3>1, Zenon
  <2>4. QED
    BY <2>1, <2>2, <2>3, Zenon
<1>8. QED
  BY <1>1, <1>4, <1>7

\* Rows in the order of their numbers.
Asc(s) == \A i, j \in 1 .. Len(s) : i < j => s[i] < s[j]

LEMMA RowsAreInts == Rows \subseteq Nat
  <1>1. PICK n : n = Cardinality(Rows) /\ Rows = 1 .. n
    BY RangeAssumption
  <1>2. QED
    BY <1>1

LEMMA AscConcat ==
    ASSUME NEW s \in Seq(Rows), NEW t \in Seq(Rows), Asc(s), Asc(t),
           \A x \in ToSet(s), y \in ToSet(t) : x < y
    PROVE  Asc(s \o t)
<1>1. PICK u \in Seq(Rows) : u = s \o t
  BY ConcatProperties
<1>2. PICK n \in Nat, m \in Nat : n = Len(s) /\ m = Len(t)
  BY LenProperties
<1>3. Len(u) = n + m /\ \A i \in 1 .. n + m : u[i] = IF i <= n THEN s[i] ELSE t[i - n]
  BY <1>1, <1>2, ConcatProperties
<1>4. /\ \A i \in 1 .. n : s[i] \in ToSet(s)
      /\ \A i \in 1 .. m : t[i] \in ToSet(t)
  BY <1>2, ElementsOf
<1>5. /\ \A i, j \in 1 .. n : i < j => s[i] < s[j]
      /\ \A i, j \in 1 .. m : i < j => t[i] < t[j]
  BY <1>2 DEF Asc
<1>6. ASSUME NEW i \in 1 .. n + m, NEW j \in 1 .. n + m, i < j PROVE u[i] < u[j]
  <2>1. CASE j <= n
    BY <1>3, <1>5, <1>6, <2>1
  <2>2. CASE i <= n /\ j > n
    <3>1. i \in 1 .. n /\ j - n \in 1 .. m
      BY <2>2
    <3>2. u[i] = s[i] /\ u[j] = t[j - n]
      BY <1>3, <2>2
    <3>3. s[i] < t[j - n]
      BY <1>4, <3>1
    <3>4. QED
      BY <3>2, <3>3
  <2>3. CASE i > n
    <3>1. i - n \in 1 .. m /\ j - n \in 1 .. m /\ i - n < j - n
      BY <1>6, <2>3
    <3>2. u[i] = t[i - n] /\ u[j] = t[j - n]
      BY <1>3, <1>6, <2>3
    <3>3. QED
      BY <1>5, <3>1, <3>2
  <2>4. QED
    BY <1>6, <2>1, <2>2, <2>3
<1>7. QED
  BY <1>1, <1>3, <1>6 DEF Asc

LEMMA AscAppend ==
    ASSUME NEW s \in Seq(Rows), NEW r \in Rows
    PROVE  Asc(Append(s, r)) <=> Asc(s) /\ \A x \in ToSet(s) : x < r
<1>1. PICK t \in Seq(Rows) : t = Append(s, r)
  BY AppendProperties
<1>2. PICK n \in Nat : n = Len(s)
  BY LenProperties
<1>3. Len(t) = n + 1 /\ (\A i \in 1 .. n : t[i] = s[i]) /\ t[n + 1] = r
  BY <1>1, <1>2, AppendProperties
<1>4. ToSet(s) = {s[i] : i \in 1 .. n}
  BY <1>2, ElementsOf
<1>5. Asc(t) <=> \A i, j \in 1 .. n + 1 : i < j => t[i] < t[j]
  BY <1>3 DEF Asc
<1>6. Asc(s) <=> \A i, j \in 1 .. n : i < j => s[i] < s[j]
  BY <1>2 DEF Asc
<1>7. ASSUME Asc(t) PROVE Asc(s) /\ \A x \in ToSet(s) : x < r
  <2>1. \A i, j \in 1 .. n : i < j => s[i] < s[j]
    <3> TAKE i, j \in 1 .. n
    <3>1. i \in 1 .. n + 1 /\ j \in 1 .. n + 1 /\ t[i] = s[i] /\ t[j] = s[j]
      BY <1>3
    <3>2. QED
      BY <1>5, <1>7, <3>1
  <2>2. \A i \in 1 .. n : s[i] < r
    <3> TAKE i \in 1 .. n
    <3>1. i \in 1 .. n + 1 /\ n + 1 \in 1 .. n + 1 /\ i < n + 1 /\ t[i] = s[i]
      BY <1>3
    <3>2. t[i] < t[n + 1]
      BY <1>5, <1>7, <3>1
    <3>3. QED
      BY <1>3, <3>1, <3>2
  <2>3. QED
    BY <1>4, <1>6, <2>1, <2>2
<1>8. ASSUME Asc(s), \A x \in ToSet(s) : x < r PROVE Asc(t)
  <2>1. ASSUME NEW i \in 1 .. n + 1, NEW j \in 1 .. n + 1, i < j PROVE t[i] < t[j]
    <3>1. i \in 1 .. n /\ t[i] = s[i]
      BY <1>3, <2>1
    <3>2. CASE j = n + 1
      BY <1>3, <1>4, <1>8, <3>1, <3>2
    <3>3. CASE j # n + 1
      <4>1. j \in 1 .. n /\ t[j] = s[j]
        BY <1>3, <3>3
      <4>2. QED
        BY <1>6, <1>8, <2>1, <3>1, <4>1
    <3>4. QED
      BY <3>2, <3>3
  <2>2. QED
    BY <1>5, <2>1
<1>9. QED
  BY <1>1, <1>7, <1>8

\* Only keeps what is in the set, in its order.
LEMMA OnlyFacts ==
    ASSUME NEW s \in Seq(Rows), NEW S \in SUBSET Rows
    PROVE  /\ Only[S][s] \in Seq(Rows)
           /\ ToSet(Only[S][s]) = ToSet(s) \cap S
           /\ Asc(s) => Asc(Only[S][s])
<1> DEFINE Keeps(t) == /\ ToSet(Only[S][t]) = ToSet(t) \cap S
                       /\ Asc(t) => Asc(Only[S][t])
           T == {t \in Seq(Rows) : Keeps(t)}
<1>1. <<>> \in T
  <2>1. <<>> \in Seq(Rows) /\ Only[S][<<>>] = <<>>
    BY OnlyEmpty, EmptySeq
  <2>2. ToSet(<<>>) = {}
    BY <2>1, ElementsOf
  <2>3. QED
    BY <2>1, <2>2
<1>2. ASSUME NEW t \in Seq(Rows), NEW r \in Rows, t \in T PROVE Append(t, r) \in T
  <2>1. PICK o \in Seq(Rows) : o = Only[S][t]
    BY OnlyEquation
  <2>2. ToSet(o) = ToSet(t) \cap S /\ (Asc(t) => Asc(o))
    BY <1>2, <2>1
  <2>3. PICK u \in Seq(Rows) : u = Append(t, r)
    BY AppendProperties
  <2>4. ToSet(u) = ToSet(t) \cup {r}
    BY <2>3, ToSetAppend
  <2>5. Asc(u) <=> Asc(t) /\ \A x \in ToSet(t) : x < r
    BY <2>3, AscAppend
  <2>6. CASE r \in S
    <3>1. Only[S][u] = Append(o, r)
      BY <2>1, <2>3, <2>6, OnlyAppend
    <3>2. ToSet(Append(o, r)) = ToSet(o) \cup {r}
      BY ToSetAppend
    <3>3. Asc(Append(o, r)) <=> Asc(o) /\ \A x \in ToSet(o) : x < r
      BY AscAppend
    <3>4. Keeps(u)
      BY <2>2, <2>4, <2>5, <2>6, <3>1, <3>2, <3>3
    <3>5. QED
      BY <2>3, <3>4
  <2>7. CASE r \notin S
    <3>1. Only[S][u] = o
      BY <2>1, <2>3, <2>7, OnlyAppend
    <3>2. Keeps(u)
      BY <2>2, <2>4, <2>5, <2>7, <3>1
    <3>3. QED
      BY <2>3, <3>2
  <2>8. QED
    BY <2>6, <2>7
<1>3. Seq(Rows) \subseteq T
  <2> HIDE DEF T
  <2>1. QED
    BY <1>1, <1>2, SeqInduction
<1>4. QED
  BY <1>3, OnlyEquation

LEMMA OnlyAll ==
    ASSUME NEW s \in Seq(Rows), NEW S \in SUBSET Rows, ToSet(s) \subseteq S
    PROVE  Only[S][s] = s
<1> DEFINE T == {t \in Seq(Rows) : ToSet(t) \subseteq S => Only[S][t] = t}
<1>1. <<>> \in T
  BY OnlyEmpty, EmptySeq
<1>2. ASSUME NEW t \in Seq(Rows), NEW r \in Rows, t \in T PROVE Append(t, r) \in T
  <2>1. ToSet(Append(t, r)) = ToSet(t) \cup {r} /\ Append(t, r) \in Seq(Rows)
    BY ToSetAppend, AppendProperties
  <2>2. ASSUME ToSet(Append(t, r)) \subseteq S PROVE Only[S][Append(t, r)] = Append(t, r)
    <3>1. r \in S /\ Only[S][t] = t
      BY <1>2, <2>1, <2>2
    <3>2. QED
      BY <3>1, OnlyAppend
  <2>3. QED
    BY <2>1, <2>2
<1>3. Seq(Rows) \subseteq T
  <2> HIDE DEF T
  <2>1. QED
    BY <1>1, <1>2, SeqInduction
<1>4. QED
  BY <1>3

LEMMA AppendLast ==
    ASSUME NEW T, NEW s \in Seq(T), NEW t \in Seq(T), NEW r \in T
    PROVE  s \o Append(t, r) = Append(s \o t, r)
<1>0. <<r>> \in Seq(T)
  OBVIOUS
<1>1. PICK e \in Seq(T) : e = <<r>>
  BY <1>0, Zenon
<1>2. PICK u \in Seq(T) : u = s \o t
  BY ConcatProperties
<1>3. Append(t, r) = t \o e /\ Append(u, r) = u \o e
  BY <1>1, AppendIsConcat
<1>4. (s \o t) \o e = s \o (t \o e)
  BY ConcatAssociative
<1>5. QED
  BY <1>2, <1>3, <1>4

LEMMA OnlyConcat ==
    ASSUME NEW s \in Seq(Rows), NEW t \in Seq(Rows), NEW S \in SUBSET Rows
    PROVE  Only[S][s \o t] = Only[S][s] \o Only[S][t]
<1> DEFINE T == {u \in Seq(Rows) : Only[S][s \o u] = Only[S][s] \o Only[S][u]}
<1>0. PICK p \in Seq(Rows) : p = Only[S][s]
  BY OnlyEquation
<1>1. <<>> \in T
  <2>1. <<>> \in Seq(Rows) /\ s \o <<>> = s /\ p \o <<>> = p
    BY EmptySeq, ConcatEmptySeq
  <2>2. Only[S][<<>>] = <<>>
    BY OnlyEmpty
  <2>3. QED
    BY <1>0, <2>1, <2>2
<1>2. ASSUME NEW u \in Seq(Rows), NEW r \in Rows, u \in T PROVE Append(u, r) \in T
  <2>1. PICK q \in Seq(Rows) : q = Only[S][u]
    BY OnlyEquation
  <2>2. s \o u \in Seq(Rows) /\ Append(u, r) \in Seq(Rows) /\ s \o Append(u, r) = Append(s \o u, r)
    BY AppendLast, ConcatProperties, AppendProperties
  <2>3. Only[S][s \o u] = p \o q
    BY <1>0, <1>2, <2>1
  <2>w. PICK w \in Seq(Rows) : w = s \o u
    BY <2>2
  <2>4. CASE r \in S
    <3>1. Only[S][Append(u, r)] = Append(q, r) /\ Only[S][Append(w, r)] = Append(p \o q, r)
      <4>1. /\ Only[S][Append(u, r)] = Append(Only[S][u], r)
            /\ Only[S][Append(w, r)] = Append(Only[S][w], r)
        BY <2>4, OnlyAppend
      <4>2. QED
        BY <2>1, <2>w, <2>3, <4>1, Zenon
    <3>2. Append(p \o q, r) = p \o Append(q, r)
      BY AppendLast
    <3>3. QED
      BY <1>0, <2>2, <2>w, <3>1, <3>2
  <2>5. CASE r \notin S
    <3>1. Only[S][Append(u, r)] = q /\ Only[S][Append(w, r)] = p \o q
      <4>1. Only[S][Append(u, r)] = Only[S][u] /\ Only[S][Append(w, r)] = Only[S][w]
        BY <2>5, OnlyAppend
      <4>2. QED
        BY <2>1, <2>w, <2>3, <4>1, Zenon
    <3>2. QED
      BY <1>0, <2>2, <2>w, <3>1
  <2>6. QED
    BY <2>4, <2>5
<1>3. Seq(Rows) \subseteq T
  <2> HIDE DEF T
  <2>1. QED
    BY <1>1, <1>2, SeqInduction
<1>4. QED
  BY <1>3

-----------------------------------------------------------------------------
(***************************************************************************)
(* FlattenSeq, for sequences of sequences of rows.                         *)
(***************************************************************************)
Joins(g, s, n) == \A i \in 1 .. n : g[i] = IF i = 1 THEN s[i] ELSE g[i - 1] \o s[i]
Flattens(g, s, n) == g \in [1 .. n -> Seq(Rows)] /\ Joins(g, s, n)

LEMMA FlattensExists ==
    ASSUME NEW s \in Seq(Seq(Rows)), NEW n \in Nat, n = Len(s)
    PROVE  \E g : Flattens(g, s, n)
<1> DEFINE T == {k \in Nat : k <= n => \E g : Flattens(g, s, k)}
<1>0. \A i \in 1 .. n : s[i] \in Seq(Rows)
  BY ElementOfSeq
<1>1. 0 \in T
  <2>1. Flattens([i \in 1 .. 0 |-> <<>>], s, 0)
    BY DEF Flattens, Joins
  <2>2. QED
    BY <2>1
<1>2. ASSUME NEW k \in Nat, k \in T PROVE k + 1 \in T
  <2>1. ASSUME k + 1 <= n PROVE \E h : Flattens(h, s, k + 1)
    <3>1. PICK g : Flattens(g, s, k)
      BY <1>2, <2>1
    <3>2. k + 1 \in 1 .. n /\ s[k + 1] \in Seq(Rows)
      BY <1>0, <2>1
    <3>3. PICK v \in Seq(Rows) : v = IF k = 0 THEN s[k + 1] ELSE g[k] \o s[k + 1]
      <4>1. k # 0 => g[k] \in Seq(Rows)
        BY <3>1 DEF Flattens, Joins
      <4>2. QED
        BY <3>2, <4>1, ConcatProperties
    <3> DEFINE h == [i \in 1 .. k + 1 |-> IF i = k + 1 THEN v ELSE g[i]]
    <3>4. h \in [1 .. k + 1 -> Seq(Rows)]
      <4>1. \A i \in 1 .. k + 1 : i # k + 1 => g[i] \in Seq(Rows)
        BY <3>1 DEF Flattens, Joins
      <4>2. QED
        BY <4>1
    <3>5. (\A i \in 1 .. k : h[i] = g[i]) /\ h[k + 1] = v
      OBVIOUS
    <3> HIDE DEF h
    <3>6. \A i \in 1 .. k + 1 : h[i] = IF i = 1 THEN s[i] ELSE h[i - 1] \o s[i]
      <4> TAKE i \in 1 .. k + 1
      <4>1. CASE i = k + 1
        <5>1. CASE k = 0
          BY <3>3, <3>5, <4>1, <5>1
        <5>2. CASE k # 0
          <6>1. k \in 1 .. k /\ i # 1 /\ i - 1 = k
            BY <4>1, <5>2
          <6>2. h[i - 1] = g[k]
            BY <3>5, <6>1
          <6>3. h[i] = v /\ s[i] = s[k + 1]
            BY <3>5, <4>1
          <6>4. QED
            BY <3>3, <5>2, <6>1, <6>2, <6>3
        <5>3. QED
          BY <5>1, <5>2
      <4>2. CASE i # k + 1
        <5>1. i \in 1 .. k /\ (i # 1 => i - 1 \in 1 .. k)
          BY <4>2
        <5>2. g[i] = IF i = 1 THEN s[i] ELSE g[i - 1] \o s[i]
          BY <3>1, <5>1 DEF Flattens, Joins
        <5>3. QED
          BY <3>5, <5>1, <5>2
      <4>3. QED
        BY <4>1, <4>2
    <3>7. QED
      BY <3>4, <3>6 DEF Flattens, Joins
  <2>2. QED
    BY <2>1
<1>3. Nat \subseteq T
  <2> HIDE DEF T
  <2>1. QED
    BY <1>1, <1>2, Induction
<1>4. QED
  BY <1>3

LEMMA FlattensUnique ==
    ASSUME NEW s, NEW n \in Nat, NEW g, Joins(g, s, n), NEW h, Joins(h, s, n)
    PROVE  \A i \in 1 .. n : g[i] = h[i]
<1> DEFINE T == {k \in Nat : k \in 1 .. n => g[k] = h[k]}
<1>1. 0 \in T
  OBVIOUS
<1>2. ASSUME NEW k \in Nat, k \in T PROVE k + 1 \in T
  <2>1. ASSUME k + 1 \in 1 .. n PROVE g[k + 1] = h[k + 1]
    <3>1. CASE k = 0
      <4>1. g[k + 1] = s[k + 1] /\ h[k + 1] = s[k + 1]
        BY <2>1, <3>1 DEF Joins
      <4>2. QED
        BY <4>1
    <3>2. CASE k # 0
      <4>1. g[k] = h[k]
        BY <1>2, <2>1, <3>2
      <4>2. PICK j \in 1 .. n : j = k + 1
        BY <2>1
      <4>3. j # 1 /\ j - 1 = k
        BY <3>2, <4>2
      <4>4. g[j] = g[k] \o s[j] /\ h[j] = h[k] \o s[j]
        BY <4>3 DEF Joins
      <4>5. QED
        BY <4>1, <4>2, <4>4
    <3>3. QED
      BY <3>1, <3>2
  <2>2. QED
    BY <2>1
<1>3. Nat \subseteq T
  <2> HIDE DEF T
  <2>1. QED
    BY <1>1, <1>2, Induction
<1>4. QED
  BY <1>3

LEMMA FlattenFunction ==
    ASSUME NEW s \in Seq(Seq(Rows)), NEW n \in Nat \ {0}, n = Len(s)
    PROVE  \E g : Flattens(g, s, n) /\ FlattenSeq(s) = g[n]
<1> DEFINE Eq(f) == f = [i \in 1 .. Len(s) |-> IF i = 1 THEN s[i] ELSE f[i - 1] \o s[i]]
           flatten == CHOOSE f : Eq(f)
<1>1. PICK g : Flattens(g, s, n)
  BY FlattensExists
<1>2. Eq(g)
  BY <1>1 DEF Flattens, Joins
<1>3. Eq(flatten)
  <2> HIDE DEF Eq
  <2>1. QED
    BY <1>2
<1>4. FlattenSeq(s) = flatten[Len(s)]
  BY DEF FlattenSeq
<1> HIDE DEF flatten
<1>5. Joins(flatten, s, n)
  BY <1>3 DEF Joins
<1>6. Joins(g, s, n)
  BY <1>1 DEF Flattens
<1>7. \A i \in 1 .. n : g[i] = flatten[i]
  BY <1>5, <1>6, FlattensUnique
<1>8. QED
  BY <1>1, <1>4, <1>7

LEMMA FlattenEmpty == FlattenSeq(<<>>) = <<>>
BY EmptySeq DEF FlattenSeq

LEMMA FlattenType ==
    ASSUME NEW s \in Seq(Seq(Rows))
    PROVE  FlattenSeq(s) \in Seq(Rows)
<1>1. CASE s = <<>>
  BY <1>1, FlattenEmpty, EmptySeq
<1>2. CASE s # <<>>
  <2>1. PICK n \in Nat \ {0} : n = Len(s)
    BY <1>2, EmptySeq
  <2>2. PICK g : Flattens(g, s, n) /\ FlattenSeq(s) = g[n]
    BY <2>1, FlattenFunction
  <2>3. QED
    BY <2>2 DEF Flattens, Joins
<1>3. QED
  BY <1>1, <1>2

LEMMA FlattenAppend ==
    ASSUME NEW s \in Seq(Seq(Rows)), NEW f \in Seq(Rows)
    PROVE  FlattenSeq(Append(s, f)) = FlattenSeq(s) \o f
<1>1. PICK t \in Seq(Seq(Rows)) : t = Append(s, f)
  BY AppendProperties
<1>2. PICK n \in Nat : n = Len(s)
  BY LenProperties
<1>3. n + 1 = Len(t) /\ (\A i \in 1 .. n : t[i] = s[i]) /\ t[n + 1] = f /\ n + 1 \in Nat \ {0}
  BY <1>1, <1>2, AppendProperties
<1>4. PICK h : Flattens(h, t, n + 1) /\ FlattenSeq(t) = h[n + 1]
  BY <1>3, FlattenFunction
<1>5. CASE n = 0
  <2>1. s = <<>>
    BY <1>2, <1>5, EmptySeq
  <2>2. h[1] = t[1] /\ t[1] = f
    BY <1>3, <1>4, <1>5 DEF Flattens, Joins
  <2>3. FlattenSeq(t) = f
    BY <1>4, <1>5, <2>2
  <2>4. <<>> \o f = f
    BY ConcatEmptySeq
  <2>5. QED
    BY <1>1, <2>1, <2>3, <2>4, FlattenEmpty
<1>6. CASE n # 0
  <2>1. PICK g : Flattens(g, s, n) /\ FlattenSeq(s) = g[n]
    BY <1>2, <1>6, FlattenFunction
  <2>2. Joins(g, s, n)
    BY <2>1 DEF Flattens
  <2>3. Joins(h, s, n)
    <3> SUFFICES ASSUME NEW i \in 1 .. n
                 PROVE  h[i] = IF i = 1 THEN s[i] ELSE h[i - 1] \o s[i]
      BY DEF Joins
    <3>1. i \in 1 .. n + 1 /\ t[i] = s[i]
      BY <1>3
    <3>2. h[i] = IF i = 1 THEN t[i] ELSE h[i - 1] \o t[i]
      BY <1>4, <3>1 DEF Flattens, Joins
    <3>3. QED
      BY <3>1, <3>2
  <2>4. \A i \in 1 .. n : g[i] = h[i]
    BY <2>2, <2>3, FlattensUnique
  <2>5. h[n + 1] = h[n] \o f
    <3>1. PICK j \in 1 .. n + 1 : j = n + 1
      OBVIOUS
    <3>2. j # 1 /\ j - 1 = n
      BY <1>6, <3>1
    <3>3. h[j] = IF j = 1 THEN t[j] ELSE h[j - 1] \o t[j]
      BY <1>4 DEF Flattens, Joins
    <3>4. h[j] = h[n] \o t[j]
      BY <3>2, <3>3
    <3>5. QED
      BY <1>3, <3>1, <3>4
  <2>6. h[n] = g[n]
    <3>1. n \in 1 .. n
      BY <1>6
    <3>2. QED
      BY <2>4, <3>1
  <2>7. QED
    BY <1>1, <1>4, <2>1, <2>5, <2>6
<1>7. QED
  BY <1>5, <1>6

-----------------------------------------------------------------------------
(***************************************************************************)
(* How a stretch of the window is cut into frames.                         *)
(***************************************************************************)
LEMMA DivFacts ==
    ASSUME NEW a \in Nat, NEW b \in Nat \ {0}
    PROVE  a \div b \in Nat /\ (a \div b) * b <= a /\ a < (a \div b) * b + b
OBVIOUS

LEMMA TimesMonotone ==
    ASSUME NEW a \in Int, NEW b \in Int, a <= b, NEW c \in Nat
    PROVE  a * c \in Int /\ b * c \in Int /\ a * c <= b * c
OBVIOUS

LEMMA TimesNext ==
    ASSUME NEW a \in Int, NEW c \in Int
    PROVE  a * c \in Int /\ (a + 1) * c = a * c + c /\ (a - 1) * c = a * c - c
OBVIOUS

Stretches == [first : Nat, last : Nat, batch : Nat]
StretchOf(c) ==
    /\ c \in Stretches
    /\ c.first \in 1 .. c.last /\ c.last <= Len(window) /\ c.batch \in 1 .. BatchPoints

LEMMA CutFacts ==
    ASSUME NEW c, StretchOf(c)
    PROVE  /\ FrameCount(c) \in Nat \ {0}
           /\ FrameEnd(c, 0) = c.first - 1
           /\ FrameEnd(c, FrameCount(c)) = c.last
           /\ \A k \in 1 .. FrameCount(c) :
                 /\ FrameEnd(c, k - 1) \in c.first - 1 .. c.last - 1
                 /\ FrameEnd(c, k) \in FrameEnd(c, k - 1) + 1 .. c.last
                 /\ FrameEnd(c, k) - FrameEnd(c, k - 1) <= c.batch
                 /\ Frame(c, k) = SubSeq(window, FrameEnd(c, k - 1) + 1, FrameEnd(c, k))
<1>1. PICK a \in Nat, z \in Nat, b \in Nat \ {0} : a = c.first /\ z = c.last /\ b = c.batch /\ a <= z
  BY DEF StretchOf, Stretches
<1>2. PICK q \in Nat : q = FrameCount(c) /\ q * b <= z - a + b /\ z - a + b < q * b + b
  <2>1. FrameCount(c) = (z - a + b) \div b /\ z - a + b \in Nat
    BY <1>1 DEF FrameCount
  <2>2. QED
    BY <2>1, DivFacts
<1>3. q # 0
  BY <1>1, <1>2
<1>4. \A k : FrameEnd(c, k) = IF a + k * b - 1 < z THEN a + k * b - 1 ELSE z
  BY <1>1 DEF FrameEnd
<1>5. FrameEnd(c, 0) = a - 1
  <2>1. 0 * b = 0
    OBVIOUS
  <2>2. QED
    BY <1>1, <1>4, <2>1
<1>6. FrameEnd(c, q) = z
  <2>1. q * b \in Int /\ ~(a + q * b - 1 < z)
    BY <1>1, <1>2
  <2>2. QED
    BY <1>4, <2>1
<1>7. ASSUME NEW k \in 1 .. q
      PROVE  /\ FrameEnd(c, k - 1) \in a - 1 .. z - 1
             /\ FrameEnd(c, k) \in FrameEnd(c, k - 1) + 1 .. z
             /\ FrameEnd(c, k) - FrameEnd(c, k - 1) <= b
             /\ Frame(c, k) = SubSeq(window, FrameEnd(c, k - 1) + 1, FrameEnd(c, k))
  <2>1. PICK p \in Int, r \in Int : p = (k - 1) * b /\ r = k * b /\ r = p + b
    BY TimesNext
  <2>2. 0 <= p
    <3>1. 0 * b <= (k - 1) * b /\ 0 * b = 0
      BY TimesMonotone
    <3>2. QED
      BY <2>1, <3>1
  <2>3. p <= z - a
    <3>1. PICK m \in Int : m = (q - 1) * b /\ m = q * b - b
      BY TimesNext
    <3>2. (k - 1) * b <= (q - 1) * b
      BY TimesMonotone
    <3>3. PICK u \in Int : u = q * b
      BY TimesNext
    <3>4. QED
      BY <1>2, <2>1, <3>1, <3>2, <3>3
  <2>4. FrameEnd(c, k - 1) = a + p - 1
    BY <1>1, <1>4, <2>1, <2>3
  <2>5. FrameEnd(c, k) = IF a + r - 1 < z THEN a + r - 1 ELSE z
    BY <1>4, <2>1
  <2>6. Frame(c, k) = SubSeq(window, a + p, FrameEnd(c, k))
    BY <1>1, <2>1 DEF Frame
  <2>7. a + p = FrameEnd(c, k - 1) + 1
    BY <2>4
  <2>8. PICK x \in Int, y \in Int :
            /\ x = FrameEnd(c, k - 1) /\ y = FrameEnd(c, k)
            /\ x = a + p - 1 /\ y = IF a + r - 1 < z THEN a + r - 1 ELSE z
    BY <2>4, <2>5
  <2>9. x \in a - 1 .. z - 1 /\ y \in x + 1 .. z /\ y - x <= b
    <3>1. a \in Nat /\ z \in Nat /\ b \in Nat \ {0} /\ a <= z
      BY <1>1
    <3>2. p \in Int /\ r \in Int /\ r = p + b /\ 0 <= p /\ p <= z - a
      BY <2>1, <2>2, <2>3
    <3>3. x = a + p - 1 /\ y = IF a + r - 1 < z THEN a + r - 1 ELSE z
      BY <2>8
    <3>4. x \in Int /\ y \in Int /\ a - 1 <= x /\ x <= z - 1 /\ x + 1 <= y /\ y <= z /\ y - x <= b
      BY <3>1, <3>2, <3>3
    <3>5. QED
      BY <3>1, <3>4
  <2>10. QED
    BY <2>6, <2>7, <2>8, <2>9, Zenon
<1>8. QED
  BY <1>1, <1>2, <1>3, <1>5, <1>6, <1>7

LEMMA PartOf ==
    ASSUME NEW s \in Seq(Rows), NEW a \in Nat \ {0}, NEW b \in Nat, b <= Len(s)
    PROVE  /\ SubSeq(s, a, b) \in Seq(Rows)
           /\ Len(SubSeq(s, a, b)) = IF a <= b THEN b - a + 1 ELSE 0
           /\ \A i \in 1 .. b - a + 1 : SubSeq(s, a, b)[i] = s[a + i - 1]
<1>1. \A i \in a .. b : s[i] \in Rows
  BY ElementOfSeq, LenProperties
<1>2. QED
  BY <1>1, SubSeqProperties

\* The two parts of a sequence up to a place, one after the other.
LEMMA TwoParts ==
    ASSUME NEW s \in Seq(Rows), NEW a \in Nat, NEW b \in a .. Len(s)
    PROVE  SubSeq(s, 1, b) = SubSeq(s, 1, a) \o SubSeq(s, a + 1, b)
<1>1. Len(s) \in Nat /\ 1 \in 1 .. Len(s) + 1 /\ a \in 1 - 1 .. Len(s) /\ b \in a .. Len(s)
  BY LenProperties
<1>2. QED
  BY <1>1, ConcatAdjacentSubSeq

Light == {r \in Rows : ~TooLarge(<<r>>)}

\* Who fits into a frame with others fits into one alone.
LEMMA LightFrame ==
    ASSUME NEW f \in Seq(Rows), Len(f) \in 1 .. BatchPoints, ~TooLarge(f)
    PROVE  ToSet(f) \subseteq Light
<1>1. PICK n \in 1 .. BatchPoints : n = Len(f)
  OBVIOUS
<1>2. f \in [1 .. n -> Rows] /\ ToSet(f) = {f[k] : k \in 1 .. n}
  BY <1>1, LenProperties, ElementsOf
<1>3. ASSUME NEW k \in 1 .. n PROVE f[k] \in Light
  <2>1. TooLarge(<<f[k]>>) => TooLarge(f)
    BY <1>1, <1>2, WindowAssumption
  <2>2. QED
    BY <1>2, <2>1 DEF Light
<1>4. QED
  BY <1>2, <1>3

-----------------------------------------------------------------------------
(***************************************************************************)
(* The log follows the window.                                             *)
(***************************************************************************)
Fits(f) == f \in Seq(Rows) /\ Len(f) \in 1 .. BatchPoints /\ ~TooLarge(f)

\* The log holds what can be sent of the window up to a place.
LoggedTo(n) == Logged = Only[Light][SubSeq(window, 1, n)]

\* One frame more.
LEMMA OneMore ==
    ASSUME window \in Seq(Rows), NEW c, StretchOf(c), NEW k \in 1 .. FrameCount(c),
           ~TooLarge(Frame(c, k)), NEW g \in Seq(Seq(Rows)),
           FlattenSeq(g) = Only[Light][SubSeq(window, 1, FrameEnd(c, k - 1))]
    PROVE  /\ Fits(Frame(c, k))
           /\ FlattenSeq(Append(g, Frame(c, k))) = Only[Light][SubSeq(window, 1, FrameEnd(c, k))]
<1>1. PICK x \in Nat, y \in Nat :
          /\ x = FrameEnd(c, k - 1) /\ y = FrameEnd(c, k)
          /\ x < y /\ y <= Len(window) /\ y - x <= c.batch /\ c.batch <= BatchPoints
          /\ Frame(c, k) = SubSeq(window, x + 1, y)
  <2>1. PICK a \in Nat, z \in Nat, b \in Nat :
            /\ a = c.first /\ z = c.last /\ b = c.batch /\ 1 <= a
            /\ z <= Len(window) /\ b <= BatchPoints
    BY DEF StretchOf, Stretches
  <2>2. /\ FrameEnd(c, k - 1) \in a - 1 .. z - 1
        /\ FrameEnd(c, k) \in FrameEnd(c, k - 1) + 1 .. z
        /\ FrameEnd(c, k) - FrameEnd(c, k - 1) <= b
        /\ Frame(c, k) = SubSeq(window, FrameEnd(c, k - 1) + 1, FrameEnd(c, k))
    BY <2>1, CutFacts
  <2>3. PICK x \in a - 1 .. z - 1 : x = FrameEnd(c, k - 1)
    BY <2>2
  <2>4. PICK y \in x + 1 .. z : y = FrameEnd(c, k)
    BY <2>2, <2>3
  <2>5. PICK n \in Nat : n = Len(window)
    BY LenProperties
  <2>6. x \in Nat /\ y \in Nat /\ x < y /\ y <= Len(window) /\ b <= BatchPoints
    <3>1. z <= n /\ x \in Int /\ y \in Int /\ a - 1 <= x /\ x + 1 <= y /\ y <= z
      BY <2>1, <2>3, <2>4, <2>5
    <3>2. x \in Nat /\ y \in Nat /\ x < y /\ y <= n
      BY <2>1, <3>1, SMTT(30)
    <3>3. QED
      BY <2>1, <2>5, <3>2
  <2>7. QED
    BY <2>1, <2>2, <2>3, <2>4, <2>6
<1>2. PICK f \in Seq(Rows) : f = Frame(c, k) /\ Len(f) = y - x
  <2>1. /\ SubSeq(window, x + 1, y) \in Seq(Rows)
        /\ Len(SubSeq(window, x + 1, y)) = IF x + 1 <= y THEN y - (x + 1) + 1 ELSE 0
    BY <1>1, PartOf, SMTT(30)
  <2>2. x + 1 <= y /\ y - (x + 1) + 1 = y - x
    BY <1>1, SMTT(30)
  <2>3. QED
    BY <1>1, <2>1, <2>2
<1>3. Fits(f)
  <2>1. y - x \in 1 .. BatchPoints
    <3>1. PICK b \in Nat, p \in Nat : b = c.batch /\ p = BatchPoints /\ b <= p
      BY <1>1, WindowAssumption DEF StretchOf, Stretches
    <3>2. x \in Nat /\ y \in Nat /\ x < y /\ y - x <= b
      BY <1>1, <3>1
    <3>3. y - x \in 1 .. p
      BY <3>1, <3>2
    <3>4. QED
      BY <3>1, <3>3
  <2>2. QED
    BY <1>2, <2>1 DEF Fits
<1>4. Only[Light][f] = f
  BY <1>3, LightFrame, OnlyAll DEF Fits, Light
<1>5. SubSeq(window, 1, y) = SubSeq(window, 1, x) \o f
  <2>1. y \in x .. Len(window)
    BY <1>1, LenProperties
  <2>2. SubSeq(window, 1, y) = SubSeq(window, 1, x) \o SubSeq(window, x + 1, y)
    BY <1>1, <2>1, TwoParts
  <2>3. QED
    BY <1>1, <1>2, <2>2
<1>6. PICK w \in Seq(Rows) : w = SubSeq(window, 1, x)
  <2>1. x <= Len(window) /\ 1 \in Nat \ {0}
    BY <1>1, LenProperties
  <2>2. SubSeq(window, 1, x) \in Seq(Rows)
    BY <1>1, <2>1, PartOf
  <2>3. QED
    BY <2>2
<1>7. Only[Light][w \o f] = Only[Light][w] \o f
  <2>1. Light \in SUBSET Rows
    BY DEF Light
  <2>2. Only[Light][w \o f] = Only[Light][w] \o Only[Light][f]
    BY <2>1, OnlyConcat
  <2>3. QED
    BY <1>4, <2>2
<1>8. FlattenSeq(Append(g, f)) = FlattenSeq(g) \o f
  BY FlattenAppend
<1>9. QED
  BY <1>1, <1>2, <1>3, <1>5, <1>6, <1>7, <1>8

\* The frames of a stretch in front of the first that is too large.
LEMMA GoodFacts ==
    ASSUME NEW c, StretchOf(c)
    PROVE  /\ Good(c) \in 0 .. FrameCount(c)
           /\ \A k \in 1 .. Good(c) : ~TooLarge(Frame(c, k))
           /\ Good(c) # FrameCount(c) => TooLarge(Frame(c, Good(c) + 1))
<1> DEFINE large == {k \in 1 .. FrameCount(c) : TooLarge(Frame(c, k))}
<1>1. PICK q \in Nat \ {0} : q = FrameCount(c)
  BY CutFacts
<1>2. Good(c) = IF large = {} THEN q ELSE Min(large) - 1
  BY <1>1 DEF Good
<1>3. CASE large = {}
  BY <1>1, <1>2, <1>3
<1>4. CASE large # {}
  <2>1. large \subseteq Nat /\ large \subseteq 1 .. q
    BY <1>1
  <2>2. PICK m \in large : \A n \in large : m <= n
    BY <1>4, <2>1, LeastNatural
  <2>3. Min(large) \in large /\ \A n \in large : Min(large) <= n
    BY <2>2 DEF Min
  <2>4. PICK l \in 1 .. q : l = Min(large)
    BY <2>1, <2>3
  <2>5. Good(c) = l - 1
    BY <1>2, <1>4, <2>4
  <2>6. \A k \in 1 .. l - 1 : k \in 1 .. q /\ k \notin large
    BY <2>3, <2>4
  <2>7. \A k \in 1 .. l - 1 : ~TooLarge(Frame(c, k))
    BY <1>1, <2>6
  <2>8. l - 1 + 1 = l /\ TooLarge(Frame(c, l)) /\ l - 1 \in 0 .. q
    BY <2>3, <2>4
  <2>9. QED
    BY <1>1, <2>5, <2>7, <2>8
<1>5. QED
  BY <1>3, <1>4

\* The good frames in front carry what can be sent up to their end.
LEMMA FramesCarry ==
    ASSUME window \in Seq(Rows), frames \in Seq(Seq(Rows)), NEW c, StretchOf(c),
           LoggedTo(c.first - 1), NEW n \in 0 .. Good(c)
    PROVE  /\ frames \o GoodFrames(c, n) \in Seq(Seq(Rows))
           /\ FlattenSeq(frames \o GoodFrames(c, n)) = Only[Light][SubSeq(window, 1, FrameEnd(c, n))]
           /\ \A k \in 1 .. n : Fits(Frame(c, k))
<1> DEFINE P(m) == /\ frames \o GoodFrames(c, m) \in Seq(Seq(Rows))
                   /\ FlattenSeq(frames \o GoodFrames(c, m)) = Only[Light][SubSeq(window, 1, FrameEnd(c, m))]
                   /\ GoodFrames(c, m) \in Seq(Seq(Rows))
                   /\ \A k \in 1 .. m : Fits(Frame(c, k))
           T == {m \in Nat : m <= n => P(m)}
<1>1. 0 \in T
  <2>1. GoodFrames(c, 0) = <<>>
    BY DEF GoodFrames
  <2>2. frames \o <<>> = frames /\ <<>> \in Seq(Seq(Rows))
    BY ConcatEmptySeq, EmptySeq
  <2>3. FrameEnd(c, 0) = c.first - 1
    BY CutFacts
  <2>4. FlattenSeq(frames) = Only[Light][SubSeq(window, 1, c.first - 1)]
    BY DEF LoggedTo, Logged
  <2>5. frames \o GoodFrames(c, 0) = frames /\ GoodFrames(c, 0) = <<>>
    BY <2>1, <2>2
  <2>6. \A k \in 1 .. 0 : Fits(Frame(c, k))
    OBVIOUS
  <2>7. P(0)
    BY <2>2, <2>3, <2>4, <2>5, <2>6, Zenon
  <2>8. QED
    BY <2>7
<1>2. ASSUME NEW m \in Nat, m \in T PROVE m + 1 \in T
  <2>1. ASSUME m + 1 <= n PROVE P(m + 1)
    <3>a. FrameCount(c) \in Nat
      BY CutFacts
    <3>b. PICK q \in Nat : q = FrameCount(c)
      BY <3>a, Zenon
    <3>c. Good(c) \in 0 .. FrameCount(c)
      BY GoodFacts
    <3>d. PICK d \in 0 .. q : d = Good(c)
      BY <3>b, <3>c, Zenon
    <3>1. q = FrameCount(c) /\ d = Good(c)
      BY <3>b, <3>d
    <3>2. m + 1 \in 1 .. q /\ m + 1 \in 1 .. d /\ m <= n
      BY <2>1, <3>1
    <3>3. P(m)
      BY <1>2, <3>2
    <3>4. ~TooLarge(Frame(c, m + 1))
      BY <3>1, <3>2, GoodFacts
    <3>5. PICK g \in Seq(Seq(Rows)) : g = frames \o GoodFrames(c, m)
      BY <3>3
    <3>6. PICK k \in 1 .. FrameCount(c) : k = m + 1 /\ k - 1 = m
      BY <3>1, <3>2
    <3>7. FlattenSeq(g) = Only[Light][SubSeq(window, 1, FrameEnd(c, k - 1))]
      BY <3>3, <3>5, <3>6
    <3>8. /\ Fits(Frame(c, k))
          /\ FlattenSeq(Append(g, Frame(c, k))) = Only[Light][SubSeq(window, 1, FrameEnd(c, k))]
      BY <3>4, <3>6, <3>7, OneMore
    <3>9. PICK f \in Seq(Rows) : f = Frame(c, k)
      BY <3>8 DEF Fits
    <3>10. PICK h \in Seq(Seq(Rows)) : h = GoodFrames(c, m)
      BY <3>3
    <3>11. GoodFrames(c, m + 1) = Append(h, f)
      <4>1. GoodFrames(c, m + 1) = [j \in 1 .. m + 1 |-> Frame(c, j)] /\ h = [j \in 1 .. m |-> Frame(c, j)]
        BY <3>10 DEF GoodFrames
      <4>2. Len(h) = m
        BY <4>1
      <4>3. /\ Append(h, f) \in Seq(Seq(Rows)) /\ Len(Append(h, f)) = m + 1
            /\ (\A j \in 1 .. m : Append(h, f)[j] = h[j]) /\ Append(h, f)[m + 1] = f
        BY <4>2, AppendProperties
      <4>4. Append(h, f) = [j \in 1 .. m + 1 |-> Append(h, f)[j]]
        BY <4>3, LenProperties
      <4>5. \A j \in 1 .. m + 1 : Append(h, f)[j] = Frame(c, j)
        BY <3>6, <3>9, <4>1, <4>3
      <4>6. QED
        BY <4>1, <4>4, <4>5
    <3>12. frames \o Append(h, f) = Append(g, f)
      BY <3>5, <3>10, AppendLast
    <3>13. Append(g, f) \in Seq(Seq(Rows)) /\ Append(h, f) \in Seq(Seq(Rows))
      BY AppendProperties
    <3>14. \A j \in 1 .. m + 1 : Fits(Frame(c, j))
      BY <3>3, <3>6, <3>8
    <3>15. QED
      BY <3>6, <3>8, <3>9, <3>11, <3>12, <3>13, <3>14
  <2>2. QED
    BY <2>1
<1>3. Nat \subseteq T
  <2> HIDE DEF T
  <2>1. QED
    BY <1>1, <1>2, Induction
<1>4. n \in Nat
  BY CutFacts, GoodFacts
<1>5. P(n)
  BY <1>3, <1>4
<1>6. QED
  BY <1>5

-----------------------------------------------------------------------------
(***************************************************************************)
(* What is still to be appended is the rest of the window, stretch by      *)
(* stretch.                                                                *)
(***************************************************************************)
StartOf(t) == IF t = <<>> THEN Len(window) + 1 ELSE t[1].first
Chain(t) ==
    /\ t \in Seq(Stretches)
    /\ \A i \in 1 .. Len(t) :
          /\ StretchOf(t[i])
          /\ i < Len(t) => t[i].last = t[i + 1].first - 1
          /\ i = Len(t) => t[i].last = Len(window)

LEMMA ChainEmpty == Chain(<<>>)
BY EmptySeq DEF Chain

LEMMA StartFacts ==
    ASSUME window \in Seq(Rows), NEW t, Chain(t)
    PROVE  StartOf(t) \in 1 .. Len(window) + 1
<1>1. PICK n \in Nat : n = Len(window)
  BY LenProperties
<1>2. CASE t = <<>>
  BY <1>1, <1>2 DEF StartOf
<1>3. CASE t # <<>>
  <2>1. 1 \in 1 .. Len(t)
    BY <1>3, LenProperties, EmptySeq DEF Chain
  <2>2. StretchOf(t[1])
    BY <2>1 DEF Chain
  <2>3. PICK a \in Nat, z \in Nat : a = t[1].first /\ z = t[1].last /\ a \in 1 .. z /\ z <= n
    BY <1>1, <2>2 DEF StretchOf, Stretches
  <2>4. StartOf(t) = a
    BY <1>3, <2>3 DEF StartOf
  <2>5. a \in 1 .. n + 1
    BY <1>1, <2>3
  <2>6. QED
    BY <1>1, <2>4, <2>5
<1>4. QED
  BY <1>2, <1>3

LEMMA ChainTail ==
    ASSUME NEW t, Chain(t), t # <<>>
    PROVE  /\ StretchOf(Head(t)) /\ StartOf(t) = Head(t).first
           /\ Chain(Tail(t)) /\ Head(t).last = StartOf(Tail(t)) - 1
<1>1. PICK m \in Nat : m = Len(t)
  BY LenProperties DEF Chain
<1>2. /\ m >= 1 /\ Head(t) = t[1]
      /\ Tail(t) \in Seq(Stretches) /\ Len(Tail(t)) = m - 1
      /\ \A i \in 1 .. m - 1 : Tail(t)[i] = t[i + 1]
  BY <1>1, HeadTailProperties, EmptySeq DEF Chain
<1>3. PICK u \in Seq(Stretches) : u = Tail(t)
  BY <1>2
<1>4. Len(u) = m - 1 /\ \A i \in 1 .. m - 1 : u[i] = t[i + 1]
  BY <1>2, <1>3
<1>5. \A i \in 1 .. m :
          /\ StretchOf(t[i])
          /\ i < m => t[i].last = t[i + 1].first - 1
          /\ i = m => t[i].last = Len(window)
  BY <1>1 DEF Chain
<1>6. ASSUME NEW i \in 1 .. m - 1
      PROVE  /\ StretchOf(u[i])
             /\ i < m - 1 => u[i].last = u[i + 1].first - 1
             /\ i = m - 1 => u[i].last = Len(window)
  <2>1. PICK j \in 1 .. m : j = i + 1
    OBVIOUS
  <2>2. u[i] = t[j]
    BY <1>4, <2>1
  <2>3. i < m - 1 => u[i + 1] = t[j + 1]
    BY <1>4, <2>1
  <2>4. (i < m - 1 <=> j < m) /\ (i = m - 1 <=> j = m)
    BY <2>1
  <2>5. QED
    BY <1>5, <2>2, <2>3, <2>4
<1>7. Chain(u)
  BY <1>4, <1>6 DEF Chain
<1>8. t[1].last = StartOf(u) - 1
  <2>1. CASE u = <<>>
    <3>1. m = 1
      BY <1>2, <1>4, <2>1, EmptySeq
    <3>2. t[1].last = Len(window) /\ Len(window) \in Int
      <4>1. StretchOf(t[1]) /\ t[1].last = Len(window)
        BY <1>5, <3>1
      <4>2. QED
        BY <4>1 DEF StretchOf, Stretches
    <3>3. QED
      BY <2>1, <3>2 DEF StartOf
  <2>2. CASE u # <<>>
    <3>1. 1 < m
      BY <1>4, <2>2, EmptySeq
    <3>2. t[1].last = t[2].first - 1 /\ u[1] = t[2]
      BY <1>4, <1>5, <3>1
    <3>3. QED
      BY <2>2, <3>2 DEF StartOf
  <2>3. QED
    BY <2>1, <2>2
<1>9. QED
  BY <1>2, <1>3, <1>5, <1>7, <1>8 DEF StartOf

LEMMA ChainCons ==
    ASSUME window \in Seq(Rows), NEW c, StretchOf(c), NEW t, Chain(t), c.last = StartOf(t) - 1
    PROVE  Chain(<<c>> \o t) /\ StartOf(<<c>> \o t) = c.first
<1>1. PICK m \in Nat : m = Len(t)
  BY LenProperties DEF Chain
<1>2. t \in Seq(Stretches) /\ c \in Stretches
  BY DEF Chain, StretchOf
<1>3. PICK e \in Seq(Stretches) : e = <<c>> /\ Len(e) = 1 /\ e[1] = c
  <2>1. <<c>> \in Seq(Stretches) /\ Len(<<c>>) = 1 /\ <<c>>[1] = c
    BY <1>2
  <2>2. QED
    BY <2>1, Zenon
<1>4. PICK u \in Seq(Stretches) : u = e \o t
  BY <1>2, <1>3, ConcatProperties
<1>5. Len(u) = 1 + m /\ u[1] = c /\ \A i \in 1 .. m : u[i + 1] = t[i]
  <2>1. Len(u) = 1 + m /\ \A i \in 1 .. 1 + m : u[i] = IF i <= 1 THEN e[i] ELSE t[i - 1]
    BY <1>1, <1>2, <1>3, <1>4, ConcatProperties
  <2>2. ASSUME NEW i \in 1 .. m PROVE u[i + 1] = t[i]
    <3>1. PICK j \in 1 .. 1 + m : j = i + 1 /\ ~(j <= 1) /\ j - 1 = i
      OBVIOUS
    <3>2. QED
      BY <2>1, <3>1
  <2>3. u[1] = e[1]
    BY <1>1, <2>1
  <2>4. QED
    BY <1>3, <2>1, <2>2, <2>3
<1>6. PICK n \in Nat : n = Len(window)
  BY LenProperties
<1>7. ASSUME NEW i \in 1 .. 1 + m
      PROVE  /\ StretchOf(u[i])
             /\ i < 1 + m => u[i].last = u[i + 1].first - 1
             /\ i = 1 + m => u[i].last = Len(window)
  <2>1. CASE i = 1
    <3>1. CASE m = 0
      <4>1. t = <<>>
        BY <1>1, <1>2, <3>1, EmptySeq
      <4>2. c.last = n
        BY <1>6, <4>1 DEF StartOf
      <4>3. QED
        BY <1>5, <1>6, <2>1, <3>1, <4>2
    <3>2. CASE m # 0
      <4>1. t # <<>> /\ 1 \in 1 .. m
        BY <1>1, <1>2, <3>2, EmptySeq
      <4>2. u[2] = t[1] /\ c.last = t[1].first - 1
        BY <1>5, <4>1 DEF StartOf
      <4>3. i + 1 = 2 /\ i # 1 + m
        BY <2>1, <3>2
      <4>4. QED
        BY <1>5, <2>1, <4>2, <4>3
    <3>3. QED
      BY <3>1, <3>2
  <2>2. CASE i # 1
    <3>1. PICK j \in 1 .. m : i = j + 1
      <4>1. i - 1 \in 1 .. m /\ i = (i - 1) + 1
        BY <2>2
      <4>2. QED
        BY <4>1
    <3>2. u[i] = t[j] /\ (j < m => u[i + 1] = t[j + 1])
      <4>1. u[i] = t[j]
        BY <1>5, <3>1
      <4>2. ASSUME j < m PROVE u[i + 1] = t[j + 1]
        <5>1. PICK k \in 1 .. m : k = j + 1 /\ i + 1 = k + 1
          BY <3>1, <4>2
        <5>2. QED
          BY <1>5, <5>1
      <4>3. QED
        BY <4>1, <4>2
    <3>3. /\ StretchOf(t[j])
          /\ j < m => t[j].last = t[j + 1].first - 1
          /\ j = m => t[j].last = Len(window)
      BY <1>1 DEF Chain
    <3>4. (i < 1 + m <=> j < m) /\ (i = 1 + m <=> j = m)
      BY <3>1
    <3>5. QED
      BY <3>2, <3>3, <3>4
  <2>3. QED
    BY <2>1, <2>2
<1>8. Chain(u)
  BY <1>5, <1>7 DEF Chain
<1>9. u # <<>>
  BY <1>1, <1>5, EmptySeq
<1>10. QED
  BY <1>3, <1>4, <1>5, <1>8, <1>9 DEF StartOf

LEMMA ChainStretch ==
    ASSUME window \in Seq(Rows), NEW t, Chain(t), NEW z \in Nat, z = StartOf(t) - 1,
           NEW a \in 1 .. z + 1, NEW b \in 1 .. BatchPoints
    PROVE  /\ Chain(Stretch(a, z, b) \o t) /\ StartOf(Stretch(a, z, b) \o t) = a
           /\ Stretch(a, z, b) \in Seq(Stretches)
<1>1. CASE a > z
  <2>1. Stretch(a, z, b) = <<>>
    BY <1>1 DEF Stretch
  <2>2. <<>> \o t = t /\ <<>> \in Seq(Stretches)
    BY ConcatEmptySeq, EmptySeq DEF Chain
  <2>3. StartOf(t) = a
    <3>1. PICK s \in Int : s = StartOf(t)
      BY StartFacts
    <3>2. QED
      BY <1>1, <3>1
  <2>4. QED
    BY <2>1, <2>2, <2>3
<1>2. CASE ~(a > z)
  <2>0. [first |-> a, last |-> z, batch |-> b] \in Stretches
    <3>1. a \in Nat /\ z \in Nat /\ b \in Nat
      BY WindowAssumption
    <3>2. QED
      BY <3>1 DEF Stretches
  <2>1. PICK c \in Stretches : c = [first |-> a, last |-> z, batch |-> b]
    BY <2>0, Zenon
  <2>2. Stretch(a, z, b) = <<c>>
    BY <1>2, <2>1 DEF Stretch
  <2>3. StretchOf(c) /\ c.first = a /\ c.last = z
    <3>0. PICK n \in Nat : n = Len(window)
      BY LenProperties
    <3>1. PICK s \in 1 .. n + 1 : n = Len(window) /\ s = StartOf(t)
      BY <3>0, StartFacts
    <3>2. a \in 1 .. z /\ z <= n
      BY <1>2, <3>1
    <3>3. QED
      BY <2>1, <3>1, <3>2 DEF StretchOf
  <2>4. c.last = StartOf(t) - 1
    BY <2>3
  <2>5. Chain(<<c>> \o t) /\ StartOf(<<c>> \o t) = c.first
    BY <2>3, <2>4, ChainCons
  <2>6. <<c>> \in Seq(Stretches)
    OBVIOUS
  <2>7. QED
    BY <2>2, <2>3, <2>5, <2>6
<1>3. QED
  BY <1>1, <1>2

\* The place where a frame of a stretch ends, as numbers.
LEMMA EndsOf ==
    ASSUME window \in Seq(Rows), NEW c, StretchOf(c), NEW k \in 1 .. FrameCount(c)
    PROVE  \E x \in Nat, y \in Nat :
              /\ x = FrameEnd(c, k - 1) /\ y = FrameEnd(c, k)
              /\ x < y /\ y <= c.last /\ y <= Len(window) /\ y - x <= c.batch /\ c.first <= x + 1
              /\ Frame(c, k) = SubSeq(window, x + 1, y)
<1>1. PICK a \in Nat, z \in Nat, b \in Nat :
          /\ a = c.first /\ z = c.last /\ b = c.batch /\ 1 <= a
          /\ z <= Len(window) /\ b <= BatchPoints
  BY DEF StretchOf, Stretches
<1>2. /\ FrameEnd(c, k - 1) \in a - 1 .. z - 1
      /\ FrameEnd(c, k) \in FrameEnd(c, k - 1) + 1 .. z
      /\ FrameEnd(c, k) - FrameEnd(c, k - 1) <= b
      /\ Frame(c, k) = SubSeq(window, FrameEnd(c, k - 1) + 1, FrameEnd(c, k))
  BY <1>1, CutFacts
<1>3. PICK x \in a - 1 .. z - 1 : x = FrameEnd(c, k - 1)
  BY <1>2
<1>4. PICK y \in x + 1 .. z : y = FrameEnd(c, k)
  BY <1>2, <1>3
<1>5. x \in Nat /\ y \in Nat /\ x < y /\ y <= z /\ a <= x + 1
  <2>1. x \in Int /\ y \in Int /\ a - 1 <= x /\ x + 1 <= y /\ y <= z
    BY <1>3, <1>4
  <2>2. QED
    BY <1>1, <2>1
<1>0. y <= Len(window)
  <2>1. PICK n \in Nat : n = Len(window)
    BY LenProperties
  <2>2. z <= n
    BY <1>1, <2>1
  <2>3. y <= n
    BY <1>1, <1>5, <2>2
  <2>4. QED
    BY <2>1, <2>3
<1>6. y - x <= c.batch /\ Frame(c, k) = SubSeq(window, x + 1, y)
  BY <1>1, <1>2, <1>3, <1>4
<1>7. QED
  BY <1>1, <1>3, <1>4, <1>5, <1>6, <1>0

\* A row that is too large by itself is left out, and the log is not behind for it.
LEMMA Skipped ==
    ASSUME window \in Seq(Rows), NEW c, StretchOf(c), c.batch = 1,
           NEW k \in 1 .. FrameCount(c), TooLarge(Frame(c, k))
    PROVE  Only[Light][SubSeq(window, 1, FrameEnd(c, k))]
             = Only[Light][SubSeq(window, 1, FrameEnd(c, k - 1))]
<1>1. PICK x \in Nat, y \in Nat :
          /\ x = FrameEnd(c, k - 1) /\ y = FrameEnd(c, k)
          /\ x < y /\ y <= Len(window) /\ y - x <= c.batch
          /\ Frame(c, k) = SubSeq(window, x + 1, y)
  BY EndsOf
<1>2. y = x + 1
  BY <1>1
<1>3. PICK n \in Nat : n = Len(window) /\ y <= n
  <2>1. Len(window) \in Nat
    BY LenProperties
  <2>2. QED
    BY <1>1, <2>1
<1>4. PICK f \in Seq(Rows) : f = SubSeq(window, y, y) /\ Len(f) = 1 /\ f = Frame(c, k)
  <2>0. x \in Nat /\ y \in Nat /\ y = x + 1
    BY <1>1, <1>2
  <2>1. y \in Nat \ {0} /\ y - y + 1 = 1 /\ y <= y
    BY <2>0
  <2>2. SubSeq(window, y, y) \in Seq(Rows) /\ Len(SubSeq(window, y, y)) = IF y <= y THEN y - y + 1 ELSE 0
    BY <1>3, <2>1, PartOf
  <2>3. Len(SubSeq(window, y, y)) = 1
    BY <2>1, <2>2
  <2>4. QED
    BY <1>1, <1>2, <2>2, <2>3
<1>5. PICK r \in Rows : r = f[1] /\ f = <<r>>
  <2>1. f[1] \in Rows
    <3>1. 1 \in 1 .. Len(f)
      BY <1>4
    <3>2. QED
      BY <3>1, ElementOfSeq
  <2>2. f = <<f[1]>>
    BY <1>4, LenProperties
  <2>3. QED
    BY <2>1, <2>2, Zenon
<1>6. r \notin Light
  BY <1>4, <1>5 DEF Light
<1>7. PICK w \in Seq(Rows) : w = SubSeq(window, 1, x)
  <2>1. x <= Len(window) /\ 1 \in Nat \ {0}
    BY <1>1, <1>3
  <2>2. SubSeq(window, 1, x) \in Seq(Rows)
    BY <1>1, <2>1, PartOf
  <2>3. QED
    BY <2>2
<1>8. SubSeq(window, 1, y) = Append(w, r)
  <2>1. y \in x .. Len(window)
    BY <1>1, <1>3
  <2>2. SubSeq(window, 1, y) = SubSeq(window, 1, x) \o SubSeq(window, x + 1, y)
    BY <1>1, <2>1, TwoParts
  <2>3. SubSeq(window, 1, y) = w \o f
    BY <1>2, <1>4, <1>7, <2>2
  <2>4. QED
    BY <1>5, <2>3, AppendIsConcat
<1>9. Only[Light][Append(w, r)] = Only[Light][w]
  <2>1. Light \in SUBSET Rows
    BY DEF Light
  <2>2. QED
    BY <1>6, <2>1, OnlyAppend
<1>10. QED
  BY <1>1, <1>7, <1>8, <1>9

-----------------------------------------------------------------------------
(***************************************************************************)
(* The invariant of the stages after the query.                            *)
(***************************************************************************)
AllFit(fs) == fs \in Seq(Seq(Rows)) /\ \A f \in ToSet(fs) : Fits(f)

FrameInv ==
    /\ window \in Seq(Rows) /\ AllFit(frames) /\ Chain(todo)
    /\ stage \in {"query", "append", "done", "failed"}
    /\ stage = "query" => window = <<>> /\ frames = <<>> /\ todo = <<>>
    /\ stage = "append" => LoggedTo(StartOf(todo) - 1)
    /\ stage = "done" => Logged = Sendable
    /\ IsPrefix(Logged, Sendable)

LEMMA FrameInvImplies ==
    ASSUME FrameInv
    PROVE  FramesInOrder
BY WindowAssumption DEF FrameInv, FramesInOrder, AllFit, Fits

LEMMA Prefix ==
    ASSUME window \in Seq(Rows), NEW n \in Nat, n <= Len(window)
    PROVE  IsPrefix(Only[Light][SubSeq(window, 1, n)], Sendable)
<1>1. PICK m \in Nat : m = Len(window)
  BY LenProperties
<1>2. PICK w \in Seq(Rows) : w = SubSeq(window, 1, n)
  <2>1. 1 \in Nat \ {0}
    OBVIOUS
  <2>2. SubSeq(window, 1, n) \in Seq(Rows)
    BY <2>1, PartOf
  <2>3. QED
    BY <2>2
<1>3. PICK v \in Seq(Rows) : v = SubSeq(window, n + 1, m)
  <2>1. SubSeq(window, n + 1, m) \in Seq(Rows)
    BY <1>1, PartOf
  <2>2. QED
    BY <2>1
<1>4. window = w \o v
  <2>1. m \in n .. Len(window) /\ SubSeq(window, 1, m) = window
    BY <1>1, SubSeqFull
  <2>2. SubSeq(window, 1, m) = SubSeq(window, 1, n) \o SubSeq(window, n + 1, m)
    BY <2>1, TwoParts
  <2>3. QED
    BY <1>2, <1>3, <2>1, <2>2
<1>5. Light \in SUBSET Rows
  BY DEF Light
<1>6. PICK p \in Seq(Rows), q \in Seq(Rows) : p = Only[Light][w] /\ q = Only[Light][v]
  BY <1>5, OnlyEquation
<1>7. Sendable = p \o q
  BY <1>4, <1>5, <1>6, OnlyConcat, ZenonT(60) DEF Sendable, Light
<1>8. IsPrefix(p, p \o q)
  <2>1. PICK u \in Seq(Rows) : u = p \o q
    BY ConcatProperties
  <2>2. PICK i \in Nat, j \in Nat : i = Len(p) /\ j = Len(q)
    BY LenProperties
  <2>3. Len(u) = i + j /\ \A k \in 1 .. i + j : u[k] = IF k <= i THEN p[k] ELSE q[k - i]
    BY <2>1, <2>2, ConcatProperties
  <2>4. SubSeq(p, 1, i) = p
    BY <2>2, SubSeqFull
  <2>5. SubSeq(u, 1, i) = p
    <3>1. PICK h \in Seq(Rows) : /\ h = SubSeq(u, 1, i) /\ Len(h) = IF 1 <= i THEN i - 1 + 1 ELSE 0
                                 /\ \A k \in 1 .. i - 1 + 1 : h[k] = u[1 + k - 1]
      <4>1. i <= Len(u) /\ 1 \in Nat \ {0}
        BY <2>2, <2>3
      <4>2. /\ SubSeq(u, 1, i) \in Seq(Rows)
            /\ Len(SubSeq(u, 1, i)) = IF 1 <= i THEN i - 1 + 1 ELSE 0
            /\ \A k \in 1 .. i - 1 + 1 : SubSeq(u, 1, i)[k] = u[1 + k - 1]
        BY <4>1, PartOf
      <4>3. QED
        BY <4>2, Zenon
    <3>2. Len(h) = i
      BY <3>1
    <3>3. \A k \in 1 .. i : h[k] = p[k]
      <4>1. \A k \in 1 .. i : 1 + k - 1 = k /\ k \in 1 .. i - 1 + 1 /\ k \in 1 .. i + j /\ k <= i
        BY <2>2
      <4>2. QED
        BY <2>3, <3>1, <4>1
    <3>4. QED
      BY <2>2, <3>1, <3>2, <3>3, SeqEqual
  <2>6. QED
    BY <2>1, <2>2, <2>3, <2>4, <2>5 DEF IsPrefix
<1>9. QED
  BY <1>2, <1>6, <1>7, <1>8

\* The frames that fit are added to those of the log.
LEMMA MoreFit ==
    ASSUME AllFit(frames), NEW c, NEW n \in Nat,
           frames \o GoodFrames(c, n) \in Seq(Seq(Rows)), \A k \in 1 .. n : Fits(Frame(c, k))
    PROVE  AllFit(frames \o GoodFrames(c, n))
<1>1. PICK g \in Seq(Seq(Rows)) : g = GoodFrames(c, n) /\ Len(g) = n /\ \A k \in 1 .. n : g[k] = Frame(c, k)
  <2>1. \A k \in 1 .. n : Frame(c, k) \in Seq(Rows)
    BY DEF Fits
  <2>2. GoodFrames(c, n) \in [1 .. n -> Seq(Rows)]
    BY <2>1 DEF GoodFrames
  <2>3. GoodFrames(c, n) \in Seq(Seq(Rows))
    BY <2>2, SeqDef
  <2>4. Len(GoodFrames(c, n)) = n /\ \A k \in 1 .. n : GoodFrames(c, n)[k] = Frame(c, k)
    BY <2>2, <2>3 DEF GoodFrames
  <2>5. QED
    BY <2>3, <2>4, Zenon
<1>2. PICK u \in Seq(Seq(Rows)) : u = frames \o g
  BY <1>1
<1>3. PICK m \in Nat : m = Len(frames)
  BY LenProperties DEF AllFit
<1>4. Len(u) = m + n /\ \A i \in 1 .. m + n : u[i] = IF i <= m THEN frames[i] ELSE g[i - m]
  <2>1. PICK fs \in Seq(Seq(Rows)) : fs = frames
    BY DEF AllFit
  <2>2. /\ Len(fs \o g) = Len(fs) + Len(g)
        /\ \A i \in 1 .. Len(fs) + Len(g) : (fs \o g)[i] = IF i <= Len(fs) THEN fs[i] ELSE g[i - Len(fs)]
    BY ConcatProperties
  <2>3. Len(fs) = m /\ Len(g) = n /\ fs \o g = u
    BY <1>1, <1>2, <1>3, <2>1
  <2>4. QED
    BY <2>1, <2>2, <2>3
<1>5. \A i \in 1 .. m : Fits(frames[i])
  BY <1>3, LenProperties DEF AllFit, ToSet
<1>6. ASSUME NEW i \in 1 .. m + n PROVE Fits(u[i])
  <2>1. CASE i <= m
    <3>1. i \in 1 .. m
      BY <2>1
    <3>2. u[i] = frames[i]
      BY <1>4, <2>1
    <3>3. QED
      BY <1>5, <3>1, <3>2
  <2>2. CASE ~(i <= m)
    <3>1. PICK k \in 1 .. n : k = i - m
      BY <2>2
    <3>2. u[i] = Frame(c, k)
      BY <1>1, <1>4, <2>2, <3>1
    <3>3. QED
      BY <3>2
  <2>3. QED
    BY <2>1, <2>2
<1>7. \A f \in ToSet(u) : Fits(f)
  BY <1>4, <1>6, LenProperties DEF ToSet
<1>8. QED
  BY <1>1, <1>2, <1>7 DEF AllFit

\* What a step of the append knows of the stretch it works on.
LEMMA HeadFacts ==
    ASSUME FrameInv, stage = "append", todo # <<>>, NEW n \in 0 .. Good(Head(todo))
    PROVE  /\ StretchOf(Head(todo)) /\ n \in Nat
           /\ frames \o GoodFrames(Head(todo), n) \in Seq(Seq(Rows))
           /\ FlattenSeq(frames \o GoodFrames(Head(todo), n))
                = Only[Light][SubSeq(window, 1, FrameEnd(Head(todo), n))]
           /\ AllFit(frames \o GoodFrames(Head(todo), n))
           /\ IsPrefix(FlattenSeq(frames \o GoodFrames(Head(todo), n)), Sendable)
<1>1. PICK c : c = Head(todo)
  OBVIOUS
<1>2. StretchOf(c) /\ LoggedTo(c.first - 1)
  BY <1>1, ChainTail DEF FrameInv
<1>3. window \in Seq(Rows) /\ AllFit(frames) /\ frames \in Seq(Seq(Rows))
  BY DEF FrameInv, AllFit
<1>4. n \in 0 .. Good(c)
  BY <1>1
<1>5. /\ frames \o GoodFrames(c, n) \in Seq(Seq(Rows))
      /\ FlattenSeq(frames \o GoodFrames(c, n)) = Only[Light][SubSeq(window, 1, FrameEnd(c, n))]
      /\ \A k \in 1 .. n : Fits(Frame(c, k))
  BY <1>2, <1>3, <1>4, FramesCarry
<1>6. PICK q \in Nat : q = FrameCount(c)
  BY <1>2, CutFacts
<1>7. PICK g \in 0 .. q : g = Good(c)
  BY <1>2, <1>6, GoodFacts
<1>8. n \in 0 .. q
  BY <1>4, <1>7
<1>9. AllFit(frames \o GoodFrames(c, n))
  BY <1>3, <1>5, <1>8, MoreFit
<1>10. FrameEnd(c, n) \in Nat /\ FrameEnd(c, n) <= Len(window)
  <2>1. CASE n = 0
    <3>1. PICK a \in Nat, z \in Nat : a = c.first /\ z = c.last /\ a \in 1 .. z /\ z <= Len(window)
      BY <1>2 DEF StretchOf, Stretches
    <3>2. FrameEnd(c, n) = a - 1
      BY <1>2, <2>1, <3>1, CutFacts
    <3>3. PICK m \in Nat : m = Len(window)
      BY <1>3, LenProperties
    <3>4. QED
      BY <3>1, <3>2, <3>3
  <2>2. CASE n # 0
    <3>1. n \in 1 .. FrameCount(c)
      BY <1>6, <1>8, <2>2
    <3>2. QED
      BY <1>2, <1>3, <3>1, EndsOf
  <2>3. QED
    BY <2>1, <2>2
<1>11. IsPrefix(Only[Light][SubSeq(window, 1, FrameEnd(c, n))], Sendable)
  BY <1>3, <1>10, Prefix
<1>12. QED
  BY <1>1, <1>2, <1>5, <1>8, <1>9, <1>11

\* What is left of a stretch after the frames that fit: the invariant holds of it.
LEMMA RestOfStretch ==
    ASSUME FrameInv, stage = "append", todo # <<>>,
           NEW c, c = Head(todo), NEW n, n = Good(c), NEW fs, fs = frames \o GoodFrames(c, n),
           NEW t, t = (IF n = FrameCount(c) THEN <<>> ELSE Remaining(c, n + 1)) \o Tail(todo)
    PROVE  Chain(t) /\ FlattenSeq(fs) = Only[Light][SubSeq(window, 1, StartOf(t) - 1)]
<1>1. /\ StretchOf(c) /\ StartOf(todo) = c.first
      /\ Chain(Tail(todo)) /\ c.last = StartOf(Tail(todo)) - 1
  BY ChainTail DEF FrameInv
<1>2. PICK rest : rest = Tail(todo) /\ Chain(rest) /\ c.last = StartOf(rest) - 1
  BY <1>1
<1>3. PICK q \in Nat : q = FrameCount(c)
  BY <1>1, CutFacts
<1>4. n \in 0 .. q
  BY <1>1, <1>3, GoodFacts
<1>5. FlattenSeq(fs) = Only[Light][SubSeq(window, 1, FrameEnd(c, n))]
  <2>1. n \in 0 .. Good(Head(todo))
    BY <1>4
  <2>2. QED
    BY <2>1, HeadFacts
<1>6. CASE n = FrameCount(c)
  <2>1. t = rest
    <3>1. <<>> \o rest = rest
      BY <1>2, ConcatEmptySeq DEF Chain
    <3>2. QED
      BY <1>2, <1>6, <3>1
  <2>2. FrameEnd(c, n) = c.last
    BY <1>1, <1>6, CutFacts
  <2>3. QED
    BY <1>2, <1>5, <2>1, <2>2
<1>7. CASE n # FrameCount(c)
  <2>1. PICK k \in 1 .. FrameCount(c) : k = n + 1 /\ k - 1 = n
    BY <1>3, <1>4, <1>7
  <2>2. TooLarge(Frame(c, k))
    BY <1>1, <1>7, <2>1, GoodFacts
  <2>3. window \in Seq(Rows)
    BY DEF FrameInv
  <2>4. PICK x \in Nat, y \in Nat :
            /\ x = FrameEnd(c, k - 1) /\ y = FrameEnd(c, k)
            /\ x < y /\ y <= c.last /\ y <= Len(window) /\ y - x <= c.batch /\ c.first <= x + 1
    BY <1>1, <2>3, EndsOf
  <2>5. PICK z \in Nat, b \in 1 .. BatchPoints : z = c.last /\ b = c.batch
    BY <1>1 DEF StretchOf, Stretches
  <2>6. PICK u : u = Stretch(y + 1, z, b)
    OBVIOUS
  <2>7. Chain(u \o rest) /\ StartOf(u \o rest) = y + 1 /\ u \in Seq(Stretches)
    <3>0. y <= z
      BY <2>4, <2>5
    <3>1. y + 1 \in 1 .. z + 1
      BY <3>0
    <3>3. z = StartOf(rest) - 1
      BY <1>2, <2>5
    <3>2. QED
      BY <1>2, <2>3, <2>6, <3>1, <3>3, ChainStretch
  <2>8. PICK v : v = u \o rest /\ Chain(v) /\ StartOf(v) = y + 1
    BY <2>7
  <2>9. Remaining(c, n + 1) = (IF b = 1 THEN <<>> ELSE Stretch(x + 1, y, b \div 2)) \o u
    BY <2>1, <2>4, <2>5, <2>6 DEF Remaining
  <2>10. CASE b = 1
    <3>1. Remaining(c, n + 1) = u
      <4>1. <<>> \o u = u
        BY <2>7, ConcatEmptySeq
      <4>2. QED
        BY <2>9, <2>10, <4>1
    <3>2. t = v
      BY <1>2, <1>7, <2>8, <3>1
    <3>3. Only[Light][SubSeq(window, 1, FrameEnd(c, k))] = Only[Light][SubSeq(window, 1, FrameEnd(c, k - 1))]
      BY <1>1, <2>2, <2>3, <2>5, <2>10, Skipped
    <3>4. StartOf(t) - 1 = y
      <4>1. StartOf(t) = y + 1
        BY <2>8, <3>2, Zenon
      <4>2. y \in Nat
        BY <2>4
      <4>3. QED
        BY <4>1, <4>2
    <3>5. FlattenSeq(fs) = Only[Light][SubSeq(window, 1, y)]
      BY <1>5, <2>1, <2>4, <3>3, Zenon
    <3>6. QED
      BY <2>8, <3>2, <3>4, <3>5, Zenon
  <2>11. CASE b # 1
    <3>1. PICK h \in 1 .. BatchPoints : h = b \div 2
      <4>1. BatchPoints \in Nat
        BY WindowAssumption
      <4>2. b \div 2 \in 1 .. BatchPoints
        BY <2>11, <4>1
      <4>3. QED
        BY <4>2
    <3>2. PICK w : w = Stretch(x + 1, y, h)
      OBVIOUS
    <3>3. Chain(w \o v) /\ StartOf(w \o v) = x + 1 /\ w \in Seq(Stretches)
      <4>0. x \in Nat /\ y \in Nat /\ x < y
        BY <2>4
      <4>1. x + 1 \in 1 .. y + 1
        BY <4>0
      <4>2. y = StartOf(v) - 1
        BY <2>8, <4>0
      <4>3. Chain(v)
        BY <2>8
      <4>4. /\ Chain(Stretch(x + 1, y, h) \o v) /\ StartOf(Stretch(x + 1, y, h) \o v) = x + 1
            /\ Stretch(x + 1, y, h) \in Seq(Stretches)
        BY <2>3, <3>1, <4>0, <4>1, <4>2, <4>3, ChainStretch
      <4>5. QED
        BY <3>2, <4>4, Zenon
    <3>4. t = (w \o u) \o rest
      BY <1>2, <1>7, <2>9, <2>11, <3>1, <3>2
    <3>5. (w \o u) \o rest = w \o (u \o rest)
      <4>1. rest \in Seq(Stretches)
        BY <1>2 DEF Chain
      <4>2. u \in Seq(Stretches) /\ w \in Seq(Stretches)
        BY <2>7, <3>3
      <4>3. QED
        BY <4>1, <4>2, ConcatAssociative, SMTT(30)
    <3>6. t = w \o v
      BY <2>8, <3>4, <3>5
    <3>7. StartOf(t) = x + 1 /\ Chain(t)
      BY <3>3, <3>6
    <3>8. StartOf(t) - 1 = x
      BY <3>7
    <3>9. FlattenSeq(fs) = Only[Light][SubSeq(window, 1, x)]
      BY <1>5, <2>1, <2>4, Zenon
    <3>10. QED
      BY <3>7, <3>8, <3>9, Zenon
  <2>12. QED
    BY <2>10, <2>11
<1>8. QED
  BY <1>6, <1>7

LEMMA AppendBatchStep ==
    ASSUME FrameInv, AppendBatch
    PROVE  FrameInv'
<1>1. /\ stage = "append" /\ todo # <<>> /\ stage' = stage /\ window' = window
  BY DEF AppendBatch
<1>2. PICK c, n : c = Head(todo) /\ n = Good(c)
  OBVIOUS
<1>3. PICK fs, t :
          /\ fs = frames \o GoodFrames(c, n) /\ frames' = fs
          /\ t = (IF n = FrameCount(c) THEN <<>> ELSE Remaining(c, n + 1)) \o Tail(todo) /\ todo' = t
  BY <1>2 DEF AppendBatch
<1>4. Chain(t) /\ FlattenSeq(fs) = Only[Light][SubSeq(window, 1, StartOf(t) - 1)]
  BY <1>1, <1>2, <1>3, RestOfStretch
<1>5. AllFit(fs) /\ IsPrefix(FlattenSeq(fs), Sendable)
  <2>1. StretchOf(c)
    BY <1>1, <1>2, ChainTail DEF FrameInv
  <2>2. n \in 0 .. FrameCount(c) /\ FrameCount(c) \in Nat
    BY <1>2, <2>1, GoodFacts, CutFacts
  <2>3. n \in 0 .. Good(Head(todo))
    BY <1>2, <2>2
  <2>4. QED
    BY <1>1, <1>2, <1>3, <2>3, HeadFacts
<1>6. Chain(todo') /\ Logged' = Only[Light][SubSeq(window, 1, StartOf(todo') - 1)]
  BY <1>3, <1>4 DEF Logged
<1>7. Chain(todo)'
  BY <1>1, <1>6 DEF Chain, StretchOf
<1>8. StartOf(todo)' = StartOf(todo')
  BY <1>1 DEF StartOf
<1>9. LoggedTo(StartOf(todo) - 1)'
  BY <1>1, <1>6, <1>8 DEF LoggedTo, Light
<1>10. IsPrefix(Logged, Sendable)'
  BY <1>1, <1>3, <1>5 DEF Logged, Sendable
<1>11. AllFit(frames)'
  BY <1>3, <1>5 DEF AllFit, Fits
<1>12. window' \in Seq(Rows)
  BY <1>1 DEF FrameInv
<1>13. QED
  BY <1>1, <1>7, <1>9, <1>10, <1>11, <1>12 DEF FrameInv

LEMMA AppendFailsStep ==
    ASSUME FrameInv, AppendFails
    PROVE  FrameInv'
<1>1. stage = "append" /\ todo # <<>> /\ stage' = "failed" /\ window' = window /\ todo' = todo
  BY DEF AppendFails
<1>2. PICK n \in 0 .. Good(Head(todo)) - 1 : frames' = frames \o GoodFrames(Head(todo), n)
  BY DEF AppendFails
<1>3. n \in 0 .. Good(Head(todo))
  <2>1. StretchOf(Head(todo))
    BY <1>1, ChainTail DEF FrameInv
  <2>2. PICK q \in Nat : q = FrameCount(Head(todo))
    BY <2>1, CutFacts
  <2>3. PICK g \in 0 .. q : g = Good(Head(todo))
    BY <2>1, <2>2, GoodFacts
  <2>4. QED
    BY <2>3
<1>4. AllFit(frames') /\ IsPrefix(Logged', Sendable)
  BY <1>1, <1>2, <1>3, HeadFacts DEF Logged
<1>5. IsPrefix(Logged, Sendable)'
  BY <1>1, <1>4 DEF Sendable
<1>6. Chain(todo)'
  BY <1>1 DEF FrameInv, Chain, StretchOf
<1>7. AllFit(frames)'
  BY <1>4
<1>8. QED
  BY <1>1, <1>5, <1>6, <1>7 DEF FrameInv

LEMMA FinishStep ==
    ASSUME FrameInv, Finish
    PROVE  FrameInv'
<1>1. /\ stage = "append" /\ todo = <<>> /\ stage' = "done"
      /\ window' = window /\ todo' = todo /\ frames' = frames
  BY DEF Finish
<1>2. PICK n \in Nat : n = Len(window) /\ StartOf(todo) - 1 = n
  <2>1. PICK n \in Nat : n = Len(window)
    BY LenProperties DEF FrameInv
  <2>2. StartOf(todo) = n + 1
    BY <1>1, <2>1 DEF StartOf
  <2>3. n + 1 - 1 = n
    OBVIOUS
  <2>4. QED
    BY <2>1, <2>2, <2>3
<1>3. SubSeq(window, 1, n) = window
  BY <1>2, SubSeqFull DEF FrameInv
<1>4. Logged = Sendable
  BY <1>1, <1>2, <1>3 DEF FrameInv, LoggedTo, Sendable, Light
<1>5. Logged' = Sendable'
  BY <1>1, <1>4 DEF Logged, Sendable
<1>6. IsPrefix(Logged, Sendable)'
  BY <1>1 DEF FrameInv, Logged, Sendable
<1>7. Chain(todo)'
  BY <1>1 DEF FrameInv, Chain, StretchOf
<1>8. AllFit(frames)'
  BY <1>1 DEF FrameInv, AllFit, Fits
<1>9. QED
  BY <1>1, <1>5, <1>6, <1>7, <1>8 DEF FrameInv

-----------------------------------------------------------------------------
(***************************************************************************)
(* What InfluxDB answers.                                                  *)
(***************************************************************************)
Identity == [r \in Rows |-> r]

LEMMA Counted ==
    /\ \E n \in Nat : Rows = 1 .. n
    /\ \E m \in Nat : Measurements = 1 .. m
<1>1. Cardinality(Rows) \in Nat /\ Cardinality(Measurements) \in Nat
  BY RangeAssumption, FS_CardinalityType
<1>2. QED
  BY <1>1, RangeAssumption, Zenon

LEMMA IdentityFacts ==
    /\ Identity \in Seq(Rows) /\ ToSet(Identity) = Rows /\ Asc(Identity)
<1>1. PICK n \in Nat : Rows = 1 .. n
  BY Counted
<1>2. Identity \in [1 .. n -> Rows]
  BY <1>1 DEF Identity
<1>3. PICK s \in Seq(Rows) : s = Identity
  BY <1>2, SeqDef
<1>4. Len(s) = n /\ \A i \in 1 .. n : s[i] = i
  BY <1>1, <1>2, <1>3 DEF Identity
<1>5. ToSet(s) = {s[i] : i \in 1 .. n}
  BY <1>4, ElementsOf
<1>6. QED
  BY <1>1, <1>3, <1>4, <1>5 DEF Asc

Found(i, m, s, e) == {r \in Rows \ missed[i] : name[r] = m /\ s <= time[r] /\ time[r] < e}

LEMMA SeriesFacts ==
    ASSUME NEW i, NEW m, NEW s, NEW e
    PROVE  /\ Series(i, m, s, e) \in Seq(Rows) /\ Asc(Series(i, m, s, e))
           /\ ToSet(Series(i, m, s, e)) = Found(i, m, s, e)
<1>1. Series(i, m, s, e) = Only[Found(i, m, s, e)][Identity]
  BY DEF Series, Found, Identity
<1>2. Found(i, m, s, e) \in SUBSET Rows
  BY DEF Found
<1>3. PICK S \in SUBSET Rows : S = Found(i, m, s, e)
  BY <1>2
<1>4. Only[S][Identity] \in Seq(Rows) /\ Asc(Only[S][Identity]) /\ ToSet(Only[S][Identity]) = Rows \cap S
  BY IdentityFacts, OnlyFacts
<1>5. QED
  BY <1>1, <1>3, <1>4

IsPart(rows, s, limit, offset, a, b) ==
    /\ a <= b /\ b <= Len(s) /\ rows = SubSeq(s, a + 1, b)
    /\ offset <= Len(s) => a = offset
    /\ b - a <= limit
    /\ b - a < limit => b = Len(s)
    /\ rows \in Seq(Rows) /\ Len(rows) = b - a

LEMMA PartFacts ==
    ASSUME NEW s \in Seq(Rows), NEW limit \in Nat, NEW offset \in Nat
    PROVE  /\ \E a \in Nat, b \in Nat : IsPart(Part(s, limit, offset), s, limit, offset, a, b)
           /\ Part(s, limit, offset) \in Seq(Rows)
<1>1. PICK n \in Nat : n = Len(s)
  BY LenProperties
<1>2. PICK a \in Nat, b \in Nat :
          /\ a <= b /\ b <= n /\ Part(s, limit, offset) = SubSeq(s, a + 1, b)
          /\ offset <= n => a = offset
          /\ b - a <= limit /\ (b - a < limit => b = n)
  <2>1. CASE offset >= n
    <3>1. Part(s, limit, offset) = <<>>
      BY <1>1, <2>1 DEF Part
    <3>2. SubSeq(s, n + 1, n) = <<>>
      BY <1>1, SubSeqEmpty
    <3>3. /\ n <= n /\ (offset <= n => n = offset) /\ n - n <= limit
      BY <2>1
    <3>4. QED
      BY <3>1, <3>2, <3>3
  <2>2. CASE ~(offset >= n)
    <3>1. PICK b \in Nat : b = IF offset + limit < n THEN offset + limit ELSE n
      OBVIOUS
    <3>2. Part(s, limit, offset) = SubSeq(s, offset + 1, b)
      BY <1>1, <2>2, <3>1 DEF Part
    <3>3. /\ offset <= b /\ b <= n /\ b - offset <= limit /\ (b - offset < limit => b = n)
      BY <2>2, <3>1
    <3>4. QED
      BY <3>2, <3>3
  <2>3. QED
    BY <2>1, <2>2
<1>3. SubSeq(s, a + 1, b) \in Seq(Rows) /\ Len(SubSeq(s, a + 1, b)) = IF a + 1 <= b THEN b - (a + 1) + 1 ELSE 0
  <2>1. a + 1 \in Nat \ {0} /\ b <= Len(s)
    BY <1>1, <1>2
  <2>2. QED
    BY <2>1, PartOf
<1>4. (IF a + 1 <= b THEN b - (a + 1) + 1 ELSE 0) = b - a
  BY <1>2
<1>5. IsPart(Part(s, limit, offset), s, limit, offset, a, b)
  BY <1>1, <1>2, <1>3, <1>4 DEF IsPart
<1>6. QED
  BY <1>5 DEF IsPart

LEMMA AnswerType ==
    ASSUME NEW i, NEW asked, NEW s, NEW e, NEW limit \in Nat, NEW offset \in Nat
    PROVE  Answer(i, asked, s, e, limit, offset) \in Seq(Rows)
<1> DEFINE one(m) == IF m \in asked THEN Part(Series(i, m, s, e), limit, offset) ELSE <<>>
           all == [m \in Measurements |-> one(m)]
<1>1. PICK n \in Nat : Measurements = 1 .. n
  BY Counted
<1>2. \A m \in Measurements : one(m) \in Seq(Rows)
  <2> TAKE m \in Measurements
  <2>1. PICK S \in Seq(Rows) : S = Series(i, m, s, e)
    BY SeriesFacts
  <2>2. Part(S, limit, offset) \in Seq(Rows)
    BY PartFacts
  <2>3. QED
    BY <2>1, <2>2, EmptySeq
<1>3. all \in [1 .. n -> Seq(Rows)]
  BY <1>1, <1>2
<1>4. all \in Seq(Seq(Rows))
  <2> HIDE DEF all
  <2> QED BY <1>3, SeqDef
<1>5. Answer(i, asked, s, e, limit, offset) = FlattenSeq(all)
  BY DEF Answer
<1>6. QED
  <2> HIDE DEF all
  <2> QED BY <1>4, <1>5, FlattenType

-----------------------------------------------------------------------------
(***************************************************************************)
(* The types of the query.                                                 *)
(***************************************************************************)
SegRecs ==
    [pc : {"page", "dense", "done", "failed"}, from : Int, out : Seq(Rows), carried : SUBSET Rows,
     pages : Int, seen : SUBSET Rows, offset : Nat]

SourceOK ==
    /\ time \in [Rows -> Start .. End]
    /\ \A r, q \in Rows : r < q => time[r] <= time[q]
    /\ name \in [Rows -> Measurements]
    /\ missed \in Missable

SegTyped == seg \in [Segments -> SegRecs]
RangeInv == SourceOK /\ SegTyped

LEMMA SegmentFacts ==
    /\ StepWidth \in Nat
    /\ \E n \in Nat \ {0} : Segments = 1 .. n /\ (n # 1 => n = ParallelQueries /\ StepWidth # 0)
    /\ \A i \in Segments : SegmentStart(i) \in Int /\ SegmentEnd(i) \in Int
<1>1. PICK a \in Nat, p \in Nat \ {0} : a = End - Start /\ p = ParallelQueries
  BY RangeAssumption
<1>2. a \div p \in Nat
  BY <1>1, DivFacts
<1>3. PICK w \in Nat : w = StepWidth
  BY <1>1, <1>2 DEF StepWidth
<1>4. \E n \in Nat \ {0} : Segments = 1 .. n /\ (n # 1 => n = ParallelQueries /\ StepWidth # 0)
  <2>1. CASE w = 0
    <3>1. Segments = 1 .. 1
      BY <1>3, <2>1 DEF Segments
    <3>2. QED
      BY <3>1
  <2>2. CASE w # 0
    BY <1>1, <1>3, <2>2 DEF Segments
  <2>3. QED
    BY <2>1, <2>2
<1>5. \A i \in Int : SegmentStart(i) \in Int
  <2> TAKE i \in Int
  <2>1. (i - 1) * w \in Int
    BY TimesNext
  <2>2. QED
    BY <1>3, <2>1, RangeAssumption DEF SegmentStart
<1>6. \A i \in Int : SegmentEnd(i) \in Int
  <2> TAKE i \in Int
  <2>1. SegmentStart(i + 1) \in Int
    BY <1>5
  <2>2. QED
    BY <2>1, RangeAssumption DEF SegmentEnd
<1>7. Segments \subseteq Int
  BY <1>4
<1>8. \A i \in Segments : SegmentStart(i) \in Int /\ SegmentEnd(i) \in Int
  BY <1>5, <1>6, <1>7
<1>9. QED
  BY <1>3, <1>4, <1>8

LEMMA WithoutFacts ==
    ASSUME NEW s \in Seq(Rows), NEW S
    PROVE  /\ Without(s, S) \in Seq(Rows) /\ ToSet(Without(s, S)) = ToSet(s) \ S
           /\ Asc(s) => Asc(Without(s, S))
<1>1. PICK T \in SUBSET Rows : T = ToSet(s) \ S
  BY ElementsOf
<1>2. Only[T][s] \in Seq(Rows) /\ ToSet(Only[T][s]) = ToSet(s) \cap T /\ (Asc(s) => Asc(Only[T][s]))
  BY OnlyFacts
<1>3. QED
  BY <1>1, <1>2 DEF Without

LEMMA LastFacts ==
    ASSUME NEW s \in Seq(Rows), s # <<>>
    PROVE  /\ Last(s) \in ToSet(s) /\ Last(s) \in Rows
           /\ Asc(s) => \A x \in ToSet(s) : x <= Last(s)
<1>1. PICK n \in Nat \ {0} : n = Len(s)
  BY FrontLast
<1>2. Last(s) = s[n]
  BY <1>1 DEF Last
<1>3. ToSet(s) = {s[i] : i \in 1 .. n} /\ n \in 1 .. n /\ s[n] \in Rows
  BY <1>1, ElementsOf, ElementOfSeq
<1>4. ASSUME Asc(s), NEW i \in 1 .. n PROVE s[i] <= s[n]
  <2>1. \A j, k \in 1 .. n : j < k => s[j] < s[k]
    BY <1>1, <1>4 DEF Asc
  <2>2. s[i] \in Rows /\ s[n] \in Rows
    BY <1>1, ElementOfSeq
  <2>3. PICK x \in Nat, y \in Nat : x = s[i] /\ y = s[n]
    BY <2>2, RowsAreInts
  <2>4. i < n => x < y
    BY <1>3, <2>1, <2>3
  <2>5. QED
    BY <2>3, <2>4
<1>5. QED
  BY <1>2, <1>3, <1>4

\* The row of a segment after a page, in each of its three outcomes.
PageDone(b, d, rows) ==
    /\ rows = <<>> \/ Len(rows) < Limit
    /\ d.pc = "done" /\ d.from = b.from
PageDense(b, d, rows) ==
    /\ rows # <<>> /\ ~(Len(rows) < Limit) /\ time[Last(rows)] = b.from
    /\ d.pc = "dense" /\ d.from = b.from /\ d.seen = ToSet(rows) /\ d.offset = 0
PageNext(b, d, rows) ==
    /\ rows # <<>> /\ ~(Len(rows) < Limit) /\ time[Last(rows)] # b.from
    /\ d.pc \in {"page", "failed"} /\ d.from = time[Last(rows)]

LEMMA PageOutcome ==
    ASSUME RangeInv, NEW i \in Segments, Page(i)
    PROVE  \E rows \in Seq(Rows), d \in SegRecs :
              /\ rows = Answer(i, Asked, seg[i].from, SegmentEnd(i), Limit, 0)
              /\ seg' = [seg EXCEPT ![i] = d]
              /\ d.out = seg[i].out \o Fresh(i, rows)
              /\ d.carried = IF rows = <<>> THEN seg[i].carried ELSE At(rows, time[Last(rows)])
              /\ PageDone(seg[i], d, rows) \/ PageDense(seg[i], d, rows) \/ PageNext(seg[i], d, rows)
<1>1. PICK rows : rows = Answer(i, Asked, seg[i].from, SegmentEnd(i), Limit, 0)
  OBVIOUS
<1>2. rows \in Seq(Rows)
  <2>1. Limit \in Nat /\ 0 \in Nat
    BY RangeAssumption
  <2>2. QED
    BY <1>1, <2>1, AnswerType
<1>3. PICK b \in SegRecs : b = seg[i]
  BY DEF RangeInv, SegTyped
<1>4. PICK f \in Seq(Rows) : f = Fresh(i, rows)
  BY <1>2, WithoutFacts DEF Fresh
<1>5. PICK o \in Seq(Rows) : o = b.out \o f
  BY <1>3, ConcatProperties DEF SegRecs
<1>6. PICK k \in SUBSET Rows : k = IF rows = <<>> THEN b.carried ELSE At(rows, time[Last(rows)])
  <2>1. b.carried \in SUBSET Rows
    BY DEF SegRecs
  <2>2. At(rows, time[Last(rows)]) \in SUBSET Rows
    BY <1>2, ElementsOf DEF At
  <2>3. QED
    BY <2>1, <2>2
<1>7. seg' = [seg EXCEPT ![i] = [AfterPage(i, rows) EXCEPT !.out = @ \o f, !.carried = k]]
  <2>1. seg' = [seg EXCEPT ![i] = [AfterPage(i, rows) EXCEPT !.out = @ \o Fresh(i, rows),
                    !.carried = IF rows = <<>> THEN @ ELSE At(rows, time[Last(rows)])]]
    BY <1>1 DEF Page
  <2>2. AfterPage(i, rows).carried = b.carried
    BY <1>3 DEF AfterPage, DenseFrom, NextPage, SegRecs
  <2>3. QED
    BY <1>4, <1>6, <2>1, <2>2
<1>8. CASE rows = <<>> \/ Len(rows) < Limit
  <2>1. PICK d : d = [b EXCEPT !.pc = "done", !.out = o, !.carried = k]
    OBVIOUS
  <2>2. d \in SegRecs /\ d.out = o /\ d.carried = k /\ d.pc = "done" /\ d.from = b.from
    BY <2>1 DEF SegRecs
  <2>3. AfterPage(i, rows) = [b EXCEPT !.pc = "done"]
    BY <1>3, <1>8 DEF AfterPage
  <2>4. [AfterPage(i, rows) EXCEPT !.out = @ \o f, !.carried = k] = d
    BY <1>5, <2>1, <2>3 DEF SegRecs
  <2>5. PageDone(b, d, rows)
    BY <1>8, <2>2 DEF PageDone
  <2>6. QED
    BY <1>1, <1>2, <1>3, <1>4, <1>5, <1>6, <1>7, <2>2, <2>4, <2>5
<1>9. CASE ~(rows = <<>> \/ Len(rows) < Limit) /\ time[Last(rows)] = b.from
  <2>0. PICK s \in SUBSET Rows : s = ToSet(rows)
    BY <1>2, ElementsOf
  <2>1. PICK d : d = [b EXCEPT !.pc = "dense", !.seen = s, !.offset = 0, !.out = o, !.carried = k]
    OBVIOUS
  <2>2. /\ d \in SegRecs /\ d.out = o /\ d.carried = k /\ d.pc = "dense" /\ d.from = b.from
        /\ d.seen = s /\ d.offset = 0
    BY <2>1 DEF SegRecs
  <2>3. AfterPage(i, rows) = [b EXCEPT !.pc = "dense", !.seen = s, !.offset = 0]
    BY <1>3, <1>9, <2>0 DEF AfterPage, DenseFrom
  <2>4. [AfterPage(i, rows) EXCEPT !.out = @ \o f, !.carried = k] = d
    BY <1>5, <2>1, <2>3 DEF SegRecs
  <2>5. PageDense(b, d, rows)
    BY <1>9, <2>0, <2>2 DEF PageDense
  <2>6. QED
    BY <1>1, <1>2, <1>3, <1>4, <1>5, <1>6, <1>7, <2>2, <2>4, <2>5
<1>10. CASE ~(rows = <<>> \/ Len(rows) < Limit) /\ time[Last(rows)] # b.from
  <2>0. PICK ts \in Int : ts = time[Last(rows)]
    <3>1. time[Last(rows)] \in Start .. End
      BY <1>2, <1>10, LastFacts DEF RangeInv, SourceOK
    <3>2. QED
      BY <3>1
  <2>1. PICK p \in {"page", "failed"} : p = IF b.pages = 1 THEN "failed" ELSE "page"
    OBVIOUS
  <2>7. PICK n \in Int : n = b.pages - 1
    BY DEF SegRecs
  <2>2. PICK d : d = [b EXCEPT !.from = ts, !.pages = n, !.pc = p, !.out = o, !.carried = k]
    OBVIOUS
  <2>3. d \in SegRecs /\ d.out = o /\ d.carried = k /\ d.pc = p /\ d.from = ts
    BY <2>2 DEF SegRecs
  <2>4. AfterPage(i, rows) = [b EXCEPT !.from = ts, !.pages = @ - 1, !.pc = p]
    BY <1>3, <1>10, <2>0, <2>1 DEF AfterPage, NextPage
  <2>5. [AfterPage(i, rows) EXCEPT !.out = @ \o f, !.carried = k] = d
    BY <1>5, <2>2, <2>4, <2>7 DEF SegRecs
  <2>6. PageNext(b, d, rows)
    BY <1>10, <2>0, <2>1, <2>3 DEF PageNext
  <2>8. QED
    BY <1>1, <1>2, <1>3, <1>4, <1>5, <1>6, <1>7, <2>3, <2>5, <2>6
<1>11. QED
  BY <1>8, <1>9, <1>10

\* The same for a page of a dense timestamp.
LEMMA DenseOutcome ==
    ASSUME RangeInv, NEW i \in Segments, DensePage(i)
    PROVE  \E rows \in Seq(Rows), d \in SegRecs, limit \in Nat \ {0}, ts \in Int :
              /\ ts = seg[i].from
              /\ rows = Answer(i, Measurements, ts, ts + 1, limit, seg[i].offset)
              /\ seg' = [seg EXCEPT ![i] = d]
              /\ d.out = seg[i].out \o Without(rows, seg[i].seen)
              /\ d.seen = seg[i].seen \cup ToSet(rows) /\ d.carried = seg[i].carried
              /\ d.pages = seg[i].pages
              /\ d.offset = seg[i].offset + Len(rows)
              /\ IF Len(rows) < limit
                 THEN d.from = ts + 1 /\ d.pc = Continue(i, ts + 1)
                 ELSE d.from = ts /\ d.pc = "dense"
<1>1. PICK limit \in Nat \ {0} : limit = Limit * DenseFactor
  <2>1. PICK l \in Nat \ {0}, f \in Nat \ {0} : l = Limit /\ f = DenseFactor
    BY RangeAssumption
  <2>2. l * f \in Int /\ 1 * f <= l * f /\ 1 * f = f
    BY TimesMonotone
  <2>3. l * f \in Nat \ {0}
    BY <2>2
  <2>4. QED
    BY <2>1, <2>3
<1>2. PICK b \in SegRecs : b = seg[i] /\ b.pc = "dense"
  BY DEF RangeInv, SegTyped, DensePage
<1>3. PICK ts \in Int, offset \in Nat : ts = b.from /\ offset = b.offset
  BY DEF SegRecs
<1>4. PICK rows \in Seq(Rows) : rows = Answer(i, Measurements, ts, ts + 1, limit, offset)
  BY AnswerType
<1>5. PICK f \in Seq(Rows) : f = Without(rows, b.seen)
  BY WithoutFacts
<1>6. PICK o \in Seq(Rows) : o = b.out \o f
  BY ConcatProperties DEF SegRecs
<1>7. PICK s \in SUBSET Rows : s = b.seen \cup ToSet(rows)
  BY ElementsOf DEF SegRecs
<1>8. PICK n \in Nat : n = NextOffset(i, rows) /\ n = offset + Len(rows)
  BY <1>2, <1>3, LenProperties DEF NextOffset
<1>9. PICK g \in Int, p \in {"page", "dense", "done"} :
          /\ g = IF Len(rows) < limit THEN ts + 1 ELSE ts
          /\ p = IF Len(rows) < limit THEN Continue(i, ts + 1) ELSE "dense"
  <2>1. (IF Len(rows) < limit THEN ts + 1 ELSE ts) \in Int
    OBVIOUS
  <2>2. (IF Len(rows) < limit THEN Continue(i, ts + 1) ELSE "dense") \in {"page", "dense", "done"}
    BY DEF Continue
  <2>3. QED
    BY <2>1, <2>2, Zenon
<1>10. PICK d : d = [b EXCEPT !.out = o, !.seen = s, !.offset = n, !.from = g, !.pc = p]
  OBVIOUS
<1>11. /\ d \in SegRecs /\ d.out = o /\ d.seen = s /\ d.offset = n /\ d.from = g /\ d.pc = p
       /\ d.carried = b.carried /\ d.pages = b.pages
  BY <1>10 DEF SegRecs
<1>12. seg' = [seg EXCEPT ![i] = d]
  <2>1. seg' = [seg EXCEPT ![i].out = @ \o Without(rows, seg[i].seen),
                           ![i].seen = @ \cup ToSet(rows),
                           ![i].offset = NextOffset(i, rows),
                           ![i].from = IF Len(rows) < limit THEN ts + 1 ELSE @,
                           ![i].pc = IF Len(rows) < limit THEN Continue(i, ts + 1) ELSE @]
    BY <1>1, <1>2, <1>3, <1>4 DEF DensePage
  <2>2. QED
    BY <1>2, <1>3, <1>5, <1>6, <1>7, <1>8, <1>9, <1>10, <2>1 DEF RangeInv, SegTyped, SegRecs
<1>13. rows = Answer(i, Measurements, ts, ts + 1, limit, seg[i].offset) /\ ts = seg[i].from
  BY <1>2, <1>3, <1>4, Zenon
<1>14. d.out = seg[i].out \o Without(rows, seg[i].seen)
  BY <1>2, <1>5, <1>6, <1>11, Zenon
<1>15. d.seen = seg[i].seen \cup ToSet(rows) /\ d.carried = seg[i].carried /\ d.pages = seg[i].pages
  BY <1>2, <1>7, <1>11, Zenon
<1>16. d.offset = seg[i].offset + Len(rows)
  BY <1>2, <1>3, <1>8, <1>11, Zenon
<1>17. IF Len(rows) < limit
       THEN d.from = ts + 1 /\ d.pc = Continue(i, ts + 1)
       ELSE d.from = ts /\ d.pc = "dense"
  BY <1>9, <1>11
<1>18. d \in SegRecs
  BY <1>11
<1>19. QED
  BY <1>12, <1>13, <1>14, <1>15, <1>16, <1>17, <1>18, Zenon

LEMMA GreatestNatural ==
    ASSUME NEW n \in Nat, NEW T, T \subseteq 1 .. n, T # {}
    PROVE  \E m \in T : \A k \in T : k <= m
<1> DEFINE U == {j \in Nat : n - j \in T}
<1>1. U \subseteq Nat /\ U # {}
  <2>1. PICK k \in T : TRUE
    OBVIOUS
  <2>2. n - k \in Nat /\ n - (n - k) = k
    BY <2>1
  <2>3. n - k \in U
    BY <2>1, <2>2
  <2>4. QED
    BY <2>3
<1>2. PICK x \in U : \A y \in U : x <= y
  BY <1>1, LeastNatural
<1>3. PICK m \in T : m = n - x
  BY <1>2
<1>4. ASSUME NEW k \in T PROVE k <= m
  <2>1. n - k \in Nat /\ n - (n - k) = k /\ k \in 1 .. n
    OBVIOUS
  <2>2. n - k \in U
    BY <2>1
  <2>3. x <= n - k /\ x \in Nat
    BY <1>2, <2>2
  <2>4. QED
    BY <1>3, <2>1, <2>3
<1>5. QED
  BY <1>4

Others(s, b) == {k \in 1 .. Len(s) : time[s[k]] # b}

LEMMA LastOther ==
    ASSUME NEW s \in Seq(Rows), NEW b
    PROVE  \E l \in 0 .. Len(s) :
              /\ l = (IF Others(s, b) # {} THEN Max(Others(s, b)) ELSE 0)
              /\ \A k \in 1 .. Len(s) : l < k => time[s[k]] = b
              /\ l # 0 => time[s[l]] # b
<1>1. PICK n \in Nat : n = Len(s)
  BY LenProperties
<1>2. PICK I \in SUBSET (1 .. n) : I = Others(s, b)
  BY <1>1 DEF Others
<1>3. CASE I = {}
  <2>1. \A k \in 1 .. n : time[s[k]] = b
    BY <1>1, <1>2, <1>3 DEF Others
  <2>2. 0 \in 0 .. n
    OBVIOUS
  <2>3. QED
    BY <1>1, <1>2, <1>3, <2>1, <2>2
<1>4. CASE I # {}
  <2>1. PICK m \in I : \A k \in I : k <= m
    BY <1>4, GreatestNatural
  <2>2. \A k \in I : m >= k
    BY <2>1
  <2>3. Max(I) \in I /\ \A k \in I : Max(I) >= k
    BY <2>2 DEF Max
  <2>4. PICK l \in 1 .. n : l = Max(I)
    BY <2>3
  <2>5. \A k \in 1 .. n : l < k => k \notin I
    BY <2>3, <2>4
  <2>6. \A k \in 1 .. n : k \notin I => time[s[k]] = b
    BY <1>1, <1>2 DEF Others
  <2>7. time[s[l]] # b
    BY <1>1, <1>2, <2>3, <2>4 DEF Others
  <2>8. QED
    BY <1>1, <1>2, <1>4, <2>4, <2>5, <2>6, <2>7
<1>5. QED
  BY <1>3, <1>4

LEMMA FirstOther ==
    ASSUME NEW s \in Seq(Rows), NEW b
    PROVE  \E h \in 0 .. Len(s) :
              /\ (IF Others(s, b) # {} THEN Min(Others(s, b)) ELSE 0) = IF h = Len(s) THEN 0 ELSE h + 1
              /\ \A k \in 1 .. h : time[s[k]] = b
              /\ h # Len(s) => time[s[h + 1]] # b
<1>1. PICK n \in Nat : n = Len(s)
  BY LenProperties
<1>2. PICK I \in SUBSET (1 .. n) : I = Others(s, b)
  BY <1>1 DEF Others
<1>3. CASE I = {}
  <2>1. \A k \in 1 .. n : time[s[k]] = b
    BY <1>1, <1>2, <1>3 DEF Others
  <2>2. n \in 0 .. n
    OBVIOUS
  <2>3. QED
    BY <1>1, <1>2, <1>3, <2>1, <2>2
<1>4. CASE I # {}
  <2>0. I \subseteq Nat
    OBVIOUS
  <2>1. PICK m \in I : \A k \in I : m <= k
    BY <1>4, <2>0, LeastNatural
  <2>3. Min(I) \in I /\ \A k \in I : Min(I) <= k
    BY <2>1 DEF Min
  <2>4. PICK l \in 1 .. n : l = Min(I)
    BY <2>3
  <2>5. \A k \in 1 .. l - 1 : k \in 1 .. n /\ k \notin I
    BY <2>3, <2>4
  <2>6. \A k \in 1 .. n : k \notin I => time[s[k]] = b
    BY <1>1, <1>2 DEF Others
  <2>7. time[s[l]] # b
    BY <1>1, <1>2, <2>3, <2>4 DEF Others
  <2>8. PICK h \in 0 .. n : h = l - 1 /\ h + 1 = l /\ h # n
    <3>1. l - 1 \in 0 .. n /\ (l - 1) + 1 = l /\ l - 1 # n
      OBVIOUS
    <3>2. QED
      BY <3>1
  <2>9. QED
    BY <1>1, <1>2, <1>4, <2>4, <2>5, <2>6, <2>7, <2>8
<1>5. QED
  BY <1>3, <1>4

\* Two segments joined: all of the first, the head of the second without what is in
\* the tail of the first, and the rest of the second.
JoinsAt(all, rows, b, l, h, tail, head, rest, new) ==
    /\ l <= Len(all) /\ h <= Len(rows)
    /\ tail = SubSeq(all, l + 1, Len(all))
    /\ head = SubSeq(rows, 1, h) /\ rest = SubSeq(rows, h + 1, Len(rows))
    /\ new = Without(head, ToSet(tail))
    /\ Join(all, rows, b) = (all \o new) \o rest
    /\ \A k \in 1 .. Len(all) : l < k => time[all[k]] = b
    /\ l # 0 => time[all[l]] # b
    /\ \A k \in 1 .. h : time[rows[k]] = b
    /\ h # Len(rows) => time[rows[h + 1]] # b

LEMMA JoinParts ==
    ASSUME NEW all \in Seq(Rows), NEW rows \in Seq(Rows), NEW b
    PROVE  \E l \in Nat, h \in Nat, tail \in Seq(Rows), head \in Seq(Rows), rest \in Seq(Rows), new \in Seq(Rows) :
              JoinsAt(all, rows, b, l, h, tail, head, rest, new)
<1>1. PICK n \in Nat, m \in Nat : n = Len(all) /\ m = Len(rows)
  BY LenProperties
<1>2. PICK l \in 0 .. n :
          /\ l = (IF Others(all, b) # {} THEN Max(Others(all, b)) ELSE 0)
          /\ \A k \in 1 .. n : l < k => time[all[k]] = b
          /\ l # 0 => time[all[l]] # b
  BY <1>1, LastOther
<1>3. PICK h \in 0 .. m :
          /\ (IF Others(rows, b) # {} THEN Min(Others(rows, b)) ELSE 0) = IF h = m THEN 0 ELSE h + 1
          /\ \A k \in 1 .. h : time[rows[k]] = b
          /\ h # m => time[rows[h + 1]] # b
  BY <1>1, FirstOther, ZenonT(60)
<1>4. PICK tail \in Seq(Rows) : tail = SubSeq(all, l + 1, n)
  <2>1. l + 1 \in Nat \ {0} /\ n <= Len(all)
    BY <1>1, <1>2
  <2>2. QED
    BY <2>1, PartOf
<1>5. PICK head \in Seq(Rows) : head = SubSeq(rows, 1, h) /\ Len(head) = h
  <2>1. 1 \in Nat \ {0} /\ h \in Nat /\ h <= Len(rows)
    BY <1>1, <1>3
  <2>2. SubSeq(rows, 1, h) \in Seq(Rows) /\ Len(SubSeq(rows, 1, h)) = IF 1 <= h THEN h - 1 + 1 ELSE 0
    BY <2>1, PartOf
  <2>3. (IF 1 <= h THEN h - 1 + 1 ELSE 0) = h
    BY <2>1
  <2>4. QED
    BY <2>2, <2>3
<1>6. PICK rest \in Seq(Rows) : rest = SubSeq(rows, h + 1, m)
  <2>1. h + 1 \in Nat \ {0} /\ m <= Len(rows)
    BY <1>1, <1>3
  <2>2. QED
    BY <2>1, PartOf
<1>7. PICK new \in Seq(Rows) : new = Without(head, ToSet(tail))
  BY WithoutFacts
<1>8. Join(all, rows, b) = (all \o new) \o rest
  <2>1. SelectLastInSeq(all, LAMBDA r : time[r] # b) = l
    BY <1>2 DEF SelectLastInSeq, Others
  <2>2. SelectInSeq(rows, LAMBDA r : time[r] # b) = IF h = m THEN 0 ELSE h + 1
    BY <1>3 DEF SelectInSeq, Others
  <2>3. (IF h = m THEN 0 ELSE h + 1) = 0 <=> h = m
    BY <1>3
  <2>4. h # m => (h + 1) - 1 = h
    BY <1>3
  <2>5. h = m => head = rows
    BY <1>1, <1>5, SubSeqFull
  <2>6. QED
    BY <1>1, <1>4, <1>5, <1>6, <1>7, <2>1, <2>2, <2>3, <2>4, <2>5 DEF Join
<1>9. l \in Nat /\ h \in Nat /\ l <= n /\ h <= m
  BY <1>2, <1>3
<1>10. JoinsAt(all, rows, b, l, h, tail, head, rest, new)
  BY <1>1, <1>2, <1>3, <1>4, <1>5, <1>6, <1>7, <1>8, <1>9 DEF JoinsAt
<1>11. QED
  BY <1>9, <1>10

LEMMA JoinType ==
    ASSUME NEW all \in Seq(Rows), NEW rows \in Seq(Rows), NEW b
    PROVE  Join(all, rows, b) \in Seq(Rows)
<1>1. PICK l \in Nat, h \in Nat, tail \in Seq(Rows), head \in Seq(Rows),
           rest \in Seq(Rows), new \in Seq(Rows) : JoinsAt(all, rows, b, l, h, tail, head, rest, new)
  BY JoinParts
<1>2. PICK u \in Seq(Rows) : u = all \o new
  BY ConcatProperties
<1>3. QED
  BY <1>1, <1>2, ConcatProperties DEF JoinsAt

Merges(g, n) == \A i \in 0 .. n : g[i] = IF i = 0 THEN <<>> ELSE Join(g[i - 1], seg[i].out, SegmentStart(i))
MergesTo(g, n) == g \in [0 .. n -> Seq(Rows)] /\ Merges(g, n)

LEMMA MergesExists ==
    ASSUME SegTyped, NEW n \in Nat, Segments = 1 .. n
    PROVE  \E g : MergesTo(g, n)
<1> DEFINE T == {k \in Nat : k <= n => \E g : MergesTo(g, k)}
<1>1. 0 \in T
  <2> DEFINE g == [i \in 0 .. 0 |-> <<>>]
  <2>1. g \in [0 .. 0 -> Seq(Rows)] /\ \A i \in 0 .. 0 : i = 0 /\ g[i] = <<>>
    BY EmptySeq
  <2>2. MergesTo(g, 0)
    BY <2>1 DEF MergesTo, Merges
  <2>3. QED
    BY <2>2
<1>2. ASSUME NEW k \in Nat, k \in T PROVE k + 1 \in T
  <2>1. ASSUME k + 1 <= n PROVE \E h : MergesTo(h, k + 1)
    <3>1. PICK g : MergesTo(g, k)
      BY <1>2, <2>1
    <3>2. PICK j \in 1 .. n : j = k + 1 /\ j - 1 = k /\ j # 0
      BY <2>1
    <3>3. g[k] \in Seq(Rows) /\ seg[j].out \in Seq(Rows)
      BY <3>1, <3>2 DEF MergesTo, SegTyped, SegRecs
    <3>4. PICK x \in Seq(Rows) : x = Join(g[k], seg[j].out, SegmentStart(j))
      BY <3>3, JoinType
    <3>5. PICK h : h = [i \in 0 .. j |-> IF i = j THEN x ELSE g[i]]
      OBVIOUS
    <3>6. h \in [0 .. j -> Seq(Rows)]
      <4>1. \A i \in 0 .. j : i # j => i \in 0 .. k
        BY <3>2
      <4>2. QED
        BY <3>1, <3>5, <4>1 DEF MergesTo
    <3>7. ASSUME NEW i \in 0 .. j
          PROVE  h[i] = IF i = 0 THEN <<>> ELSE Join(h[i - 1], seg[i].out, SegmentStart(i))
      <4>1. CASE i = j
        <5>1. h[i] = x /\ h[i - 1] = g[k]
          <6>1. i - 1 = k /\ k # j /\ k \in 0 .. j
            BY <3>2, <4>1
          <6>2. QED
            BY <3>5, <4>1, <6>1
        <5>2. QED
          BY <3>2, <3>4, <4>1, <5>1
      <4>2. CASE i # j
        <5>1. i \in 0 .. k /\ i \in 0 .. j
          BY <3>2, <4>2
        <5>2. h[i] = g[i]
          BY <3>5, <4>2
        <5>3. i # 0 => h[i - 1] = g[i - 1]
          <6>1. i # 0 => i - 1 \in 0 .. j /\ i - 1 # j
            BY <3>2, <5>1
          <6>2. QED
            BY <3>5, <6>1
        <5>4. g[i] = IF i = 0 THEN <<>> ELSE Join(g[i - 1], seg[i].out, SegmentStart(i))
          BY <3>1, <5>1 DEF MergesTo, Merges
        <5>5. QED
          BY <5>2, <5>3, <5>4
      <4>3. QED
        BY <4>1, <4>2
    <3>8. MergesTo(h, j)
      BY <3>6, <3>7 DEF MergesTo, Merges
    <3>9. QED
      BY <3>2, <3>8
  <2>2. QED
    BY <2>1
<1>3. Nat \subseteq T
  <2> HIDE DEF T
  <2> QED BY <1>1, <1>2, Induction
<1>4. QED
  BY <1>3

LEMMA MergedFunction ==
    ASSUME SegTyped
    PROVE  \E n \in Nat \ {0} : \E g : Segments = 1 .. n /\ MergesTo(g, n) /\ Merged = g[n]
<1>1. PICK n \in Nat \ {0} : Segments = 1 .. n
  BY SegmentFacts
<1>2. Cardinality(Segments) = n
  BY <1>1, FS_Interval
<1> DEFINE Eq(f) == f = [i \in 0 .. Cardinality(Segments) |->
                            IF i = 0 THEN <<>> ELSE Join(f[i - 1], seg[i].out, SegmentStart(i))]
           upTo == CHOOSE f : Eq(f)
<1>3. PICK g : MergesTo(g, n)
  BY <1>1, MergesExists
<1>4. Eq(g)
  BY <1>2, <1>3 DEF MergesTo, Merges
<1>5. Eq(upTo)
  <2> HIDE DEF Eq
  <2> QED BY <1>4
<1>6. Merged = upTo[n]
  BY <1>2 DEF Merged
<1>7. PICK f : f = upTo /\ Eq(f)
  BY <1>5
<1>8. Merges(f, n)
  BY <1>2, <1>7 DEF Merges
<1>9. f = [i \in 0 .. n |-> f[i]]
  BY <1>2, <1>7
<1> DEFINE T == {k \in Nat : k <= n => f[k] \in Seq(Rows)}
<1>10. 0 \in T
  <2>1. 0 \in 0 .. n
    OBVIOUS
  <2>2. f[0] = <<>>
    BY <1>8, <2>1 DEF Merges
  <2>3. QED
    BY <2>2, EmptySeq
<1>11. ASSUME NEW k \in Nat, k \in T PROVE k + 1 \in T
  <2>1. ASSUME k + 1 <= n PROVE f[k + 1] \in Seq(Rows)
    <3>1. PICK j \in 1 .. n : j = k + 1 /\ j - 1 = k /\ j # 0
      BY <2>1
    <3>2. f[k] \in Seq(Rows) /\ seg[j].out \in Seq(Rows)
      BY <1>1, <1>11, <2>1, <3>1 DEF SegTyped, SegRecs
    <3>3. f[j] = Join(f[k], seg[j].out, SegmentStart(j))
      BY <1>8, <3>1 DEF Merges
    <3>4. QED
      BY <3>1, <3>2, <3>3, JoinType
  <2>2. QED
    BY <2>1
<1>12. Nat \subseteq T
  <2> HIDE DEF T
  <2> QED BY <1>10, <1>11, Induction
<1>13. \A i \in 0 .. n : f[i] \in Seq(Rows)
  BY <1>12
<1>14. MergesTo(f, n)
  BY <1>8, <1>9, <1>13 DEF MergesTo
<1>15. QED
  BY <1>1, <1>6, <1>7, <1>14

LEMMA MergedType ==
    ASSUME SegTyped
    PROVE  Merged \in Seq(Rows)
<1>1. PICK n \in Nat \ {0} : \E g : Segments = 1 .. n /\ MergesTo(g, n) /\ Merged = g[n]
  BY MergedFunction
<1>2. PICK g : MergesTo(g, n) /\ Merged = g[n]
  BY <1>1
<1>3. QED
  BY <1>2 DEF MergesTo

-----------------------------------------------------------------------------
LEMMA RangeInvInit ==
    ASSUME RangeInit
    PROVE  RangeInv
<1>1. \A i \in Segments : FirstPage(i) \in SegRecs
  BY RangeAssumption, SegmentFacts, EmptySeq DEF FirstPage, SegRecs
<1>2. SegTyped
  BY <1>1 DEF RangeInit, SegTyped
<1>3. SourceOK
  BY DEF RangeInit, SourceOK
<1>4. QED
  BY <1>2, <1>3 DEF RangeInv

LEMMA RangeInvStep ==
    ASSUME RangeInv, RangeStep
    PROVE  RangeInv'
<1>1. PICK i \in Segments : Page(i) \/ DensePage(i) \/ QueryFails(i)
  BY DEF RangeStep
<1>2. \E d \in SegRecs : seg' = [seg EXCEPT ![i] = d]
  <2>1. CASE Page(i)
    BY <2>1, PageOutcome, Zenon
  <2>2. CASE DensePage(i)
    BY <2>2, DenseOutcome, Zenon
  <2>3. CASE QueryFails(i)
    <3>1. PICK b \in SegRecs : b = seg[i]
      BY DEF RangeInv, SegTyped
    <3>2. [b EXCEPT !.pc = "failed"] \in SegRecs
      BY DEF SegRecs
    <3>3. seg' = [seg EXCEPT ![i] = [b EXCEPT !.pc = "failed"]]
      BY <2>3, <3>1 DEF QueryFails
    <3>4. QED
      BY <3>2, <3>3
  <2>4. QED
    BY <1>1, <2>1, <2>2, <2>3
<1>3. SegTyped'
  <2>1. seg' \in [Segments -> SegRecs]
    BY <1>2 DEF RangeInv, SegTyped
  <2>2. QED
    BY <2>1 DEF SegTyped, Segments, SegRecs
<1>4. UNCHANGED source
  BY <1>1 DEF Page, DensePage, QueryFails
<1>5. SourceOK'
  BY <1>4 DEF source, RangeInv, SourceOK, Missable, AtEdge
<1>6. QED
  BY <1>3, <1>5 DEF RangeInv

-----------------------------------------------------------------------------
(***************************************************************************)
(* The log follows the window, in every state.                             *)
(***************************************************************************)
LogInv == RangeInv /\ FrameInv

LEMMA LogInvInit == Init => LogInv
<1> SUFFICES ASSUME Init PROVE LogInv
  OBVIOUS
<1>1. RangeInv
  BY RangeInvInit DEF Init
<1>2. stage = "query" /\ window = <<>> /\ todo = <<>> /\ frames = <<>>
  BY DEF Init
<1>3. window \in Seq(Rows) /\ Chain(todo)
  BY <1>2, EmptySeq, ChainEmpty
<1>4. AllFit(frames)
  BY <1>2, EmptySeq DEF AllFit, ToSet
<1>5. Logged = <<>> /\ Sendable = <<>>
  <2>1. Light \in SUBSET Rows
    BY DEF Light
  <2>2. QED
    BY <1>2, <2>1, FlattenEmpty, OnlyEmpty DEF Logged, Sendable, Light
<1>6. IsPrefix(<<>>, <<>>)
  BY EmptySeq DEF IsPrefix
<1>7. QED
  BY <1>1, <1>2, <1>3, <1>4, <1>5, <1>6 DEF LogInv, FrameInv

LEMMA QueryKeepsFrames ==
    ASSUME FrameInv, UNCHANGED <<stage, window, todo, frames>>
    PROVE  FrameInv'
<1>1. Chain(todo)' /\ AllFit(frames)' /\ (window \in Seq(Rows))'
  BY DEF FrameInv, Chain, StretchOf, AllFit, Fits
<1>2. (stage = "append" => LoggedTo(StartOf(todo) - 1))'
  BY DEF FrameInv, LoggedTo, StartOf, Logged
<1>3. (stage = "done" => Logged = Sendable)' /\ IsPrefix(Logged, Sendable)'
  BY DEF FrameInv, Logged, Sendable
<1>4. QED
  BY <1>1, <1>2, <1>3 DEF FrameInv

\* The window is one stretch, of which the log has nothing yet.
LEMMA CollectStep ==
    ASSUME RangeInv, FrameInv, Collect
    PROVE  FrameInv'
<1>1. stage = "query" /\ window = <<>> /\ frames = <<>> /\ todo = <<>> /\ frames' = frames
  BY DEF FrameInv, Collect
<1>2. CASE Failed
  <2>1. stage' = "failed" /\ window' = window /\ todo' = todo
    BY <1>2 DEF Collect
  <2>2. QED
    BY <1>1, <2>1 DEF FrameInv, Chain, StretchOf, AllFit, Fits, Logged, Sendable
<1>3. CASE ~Failed
  <2>1. PICK pressure \in {"normal", "degraded"} :
            /\ window' = Merged /\ stage' = "append"
            /\ todo' = IF window' = <<>> THEN <<>>
                       ELSE <<[first |-> 1, last |-> Len(window'), batch |-> EffectiveBatch(pressure)]>>
    BY <1>3 DEF Collect
  <2>2. PICK w \in Seq(Rows) : w = window'
    BY <2>1, MergedType DEF RangeInv
  <2>3. PICK n \in Nat : n = Len(w)
    BY LenProperties
  <2>4. PICK b \in 1 .. BatchPoints : b = EffectiveBatch(pressure)
    <3>1. PICK p \in Nat \ {0} : p = BatchPoints
      BY WindowAssumption
    <3>2. p > 1 => p \div 2 \in 1 .. p
      OBVIOUS
    <3>3. EffectiveBatch(pressure) \in 1 .. p
      BY <3>1, <3>2 DEF EffectiveBatch
    <3>4. QED
      BY <3>1, <3>3
  <2>5. Chain(todo)' /\ StartOf(todo)' = 1
    <3>1. CASE w = <<>>
      <4>1. todo' = <<>> /\ n = 0
        BY <2>1, <2>2, <2>3, <3>1, EmptySeq
      <4>2. Chain(todo)'
        BY <4>1, EmptySeq DEF Chain
      <4>3. StartOf(todo)' = Len(w) + 1
        BY <2>2, <4>1 DEF StartOf
      <4>4. QED
        BY <2>3, <4>1, <4>2, <4>3
    <3>2. CASE w # <<>>
      <4>1. n # 0
        BY <2>3, <3>2, EmptySeq
      <4>2. PICK c : c = [first |-> 1, last |-> n, batch |-> b]
        OBVIOUS
      <4>3. b \in Nat
        BY WindowAssumption
      <4>4. c \in Stretches /\ c.first = 1 /\ c.last = n /\ c.batch = b
        BY <4>2, <4>3 DEF Stretches
      <4>5. StretchOf(c)'
        BY <2>2, <2>3, <4>1, <4>4 DEF StretchOf
      <4>6. PICK t \in Seq(Stretches) : t = <<c>> /\ Len(t) = 1 /\ t[1] = c
        <5>1. <<c>> \in Seq(Stretches) /\ Len(<<c>>) = 1 /\ <<c>>[1] = c
          BY <4>4
        <5>2. QED
          BY <5>1, Zenon
      <4>7. todo' = t
        BY <2>1, <2>2, <2>3, <2>4, <3>2, <4>2, <4>6
      <4>8. Len(window') = n
        BY <2>2, <2>3
      <4>9. Chain(todo)'
        <5>1. ASSUME NEW i \in 1 .. Len(t)
              PROVE  StretchOf(t[i])' /\ i = Len(t) /\ t[i].last = Len(window')
          <6>1. i = 1 /\ Len(t) = 1 /\ t[i] = c
            BY <4>6
          <6>2. QED
            BY <4>4, <4>5, <4>8, <6>1
        <5>2. QED
          BY <4>6, <4>7, <5>1 DEF Chain
      <4>10. t # <<>>
        BY <4>6, EmptySeq
      <4>11. StartOf(todo)' = 1
        BY <4>4, <4>6, <4>7, <4>10 DEF StartOf
      <4>12. QED
        BY <4>9, <4>11
    <3>3. QED
      BY <3>1, <3>2
  <2>6. Logged' = <<>>
    BY <1>1, FlattenEmpty DEF Logged
  <2>7. SubSeq(w, 1, 0) = <<>>
    BY SubSeqEmpty
  <2>8. Light \in SUBSET Rows
    BY DEF Light
  <2>9. LoggedTo(StartOf(todo) - 1)'
    <3>1. StartOf(todo)' - 1 = 0
      BY <2>5
    <3>2. Only[Light][SubSeq(w, 1, 0)] = <<>>
      BY <2>7, <2>8, OnlyEmpty
    <3>3. QED
      BY <2>2, <2>6, <3>1, <3>2 DEF LoggedTo, Light
  <2>10. IsPrefix(Logged, Sendable)'
    <3>1. PICK s \in Seq(Rows) : s = Only[Light][w]
      BY <2>8, OnlyEquation
    <3>2. IsPrefix(<<>>, s)
      <4>1. Len(<<>>) = 0 /\ Len(s) \in Nat
        BY EmptySeq, LenProperties
      <4>2. SubSeq(<<>>, 1, 0) = <<>> /\ SubSeq(s, 1, 0) = <<>>
        BY SubSeqEmpty
      <4>3. QED
        BY <4>1, <4>2 DEF IsPrefix
    <3>3. Sendable' = s
      BY <2>2, <3>1 DEF Sendable, Light
    <3>4. QED
      BY <2>6, <3>2, <3>3
  <2>11. AllFit(frames)'
    BY <1>1 DEF FrameInv, AllFit, Fits
  <2>12. QED
    BY <2>1, <2>2, <2>5, <2>9, <2>10, <2>11 DEF FrameInv
<1>4. QED
  BY <1>2, <1>3

LEMMA LogInvStep == LogInv /\ [Next]_vars => LogInv'
<1> SUFFICES ASSUME LogInv, [Next]_vars PROVE LogInv'
  OBVIOUS
<1>1. CASE UNCHANGED rangeVars
  <2>1. RangeInv'
    BY <1>1 DEF LogInv, RangeInv, rangeVars, source, SourceOK, SegTyped, Missable, AtEdge
  <2>2. FrameInv'
    <3>1. CASE Collect
      BY <3>1, CollectStep DEF LogInv
    <3>2. CASE AppendBatch
      BY <3>2, AppendBatchStep DEF LogInv
    <3>3. CASE AppendFails
      BY <3>3, AppendFailsStep DEF LogInv
    <3>4. CASE Finish
      BY <3>4, FinishStep DEF LogInv
    <3>5. CASE Query
      BY <3>5, QueryKeepsFrames DEF LogInv, Query
    <3>6. CASE UNCHANGED vars
      BY <3>6, QueryKeepsFrames DEF LogInv, vars
    <3>7. QED
      BY <3>1, <3>2, <3>3, <3>4, <3>5, <3>6 DEF Next
  <2>3. QED
    BY <2>1, <2>2 DEF LogInv
<1>2. CASE Query
  BY <1>2, RangeInvStep, QueryKeepsFrames DEF LogInv, Query
<1>3. QED
  BY <1>1, <1>2 DEF Next, vars, Collect, AppendBatch, AppendFails, Finish

\* The log gets the points of the window in their order, each of them once, without
\* those that no frame can carry; a failure leaves a prefix.
THEOREM LogFollowsWindow == Spec => []FramesInOrder
<1>1. LogInv => FramesInOrder
  BY FrameInvImplies DEF LogInv
<1>2. QED
  BY LogInvInit, LogInvStep, <1>1, PTL DEF Spec

-----------------------------------------------------------------------------
(***************************************************************************)
(* Parts of an ascending sequence.                                         *)
(***************************************************************************)
LEMMA AscPart ==
    ASSUME NEW s \in Seq(Rows), Asc(s), NEW a \in Nat, NEW b \in Nat, a <= b, b <= Len(s)
    PROVE  /\ SubSeq(s, a + 1, b) \in Seq(Rows) /\ Asc(SubSeq(s, a + 1, b))
           /\ ToSet(SubSeq(s, a + 1, b)) = {s[k] : k \in a + 1 .. b}
<1>1. PICK n \in Nat : n = Len(s)
  BY LenProperties
<1>2. PICK u \in Seq(Rows) :
          /\ u = SubSeq(s, a + 1, b) /\ Len(u) = b - a
          /\ \A i \in 1 .. b - a : u[i] = s[a + i]
  <2>1. a + 1 \in Nat \ {0}
    OBVIOUS
  <2>2. /\ SubSeq(s, a + 1, b) \in Seq(Rows)
        /\ Len(SubSeq(s, a + 1, b)) = IF a + 1 <= b THEN b - (a + 1) + 1 ELSE 0
        /\ \A i \in 1 .. b - (a + 1) + 1 : SubSeq(s, a + 1, b)[i] = s[(a + 1) + i - 1]
    BY <2>1, PartOf
  <2>3. (IF a + 1 <= b THEN b - (a + 1) + 1 ELSE 0) = b - a
    OBVIOUS
  <2>4. \A i \in 1 .. b - a : i \in 1 .. b - (a + 1) + 1 /\ (a + 1) + i - 1 = a + i
    OBVIOUS
  <2>5. \A i \in 1 .. b - a : SubSeq(s, a + 1, b)[i] = s[a + i]
    BY <2>2, <2>4
  <2>6. QED
    BY <2>2, <2>3, <2>5
<1>3. \A i, j \in 1 .. n : i < j => s[i] < s[j]
  BY <1>1 DEF Asc
<1>4. ASSUME NEW i \in 1 .. b - a, NEW j \in 1 .. b - a, i < j PROVE u[i] < u[j]
  <2>1. a + i \in 1 .. n /\ a + j \in 1 .. n /\ a + i < a + j
    BY <1>1, <1>4
  <2>2. s[a + i] < s[a + j]
    BY <1>3, <2>1
  <2>3. QED
    BY <1>2, <2>2
<1>5. ToSet(u) = {u[i] : i \in 1 .. b - a}
  BY <1>2, ElementsOf
<1>6. {u[i] : i \in 1 .. b - a} = {s[k] : k \in a + 1 .. b}
  <2>1. ASSUME NEW i \in 1 .. b - a PROVE u[i] \in {s[k] : k \in a + 1 .. b}
    <3>1. a + i \in a + 1 .. b
      OBVIOUS
    <3>2. QED
      BY <1>2, <3>1
  <2>2. ASSUME NEW k \in a + 1 .. b PROVE s[k] \in {u[i] : i \in 1 .. b - a}
    <3>1. k - a \in 1 .. b - a /\ a + (k - a) = k
      OBVIOUS
    <3>2. QED
      BY <1>2, <3>1
  <2>3. QED
    BY <2>1, <2>2
<1>7. QED
  BY <1>2, <1>4, <1>5, <1>6 DEF Asc

LEMMA AscPlaces ==
    ASSUME NEW s \in Seq(Rows), Asc(s), NEW j \in 1 .. Len(s), NEW k \in 1 .. Len(s), s[j] <= s[k]
    PROVE  j <= k
<1>1. PICK n \in Nat : n = Len(s)
  BY LenProperties
<1>2. s[j] \in Nat /\ s[k] \in Nat
  BY RowsAreInts, ElementOfSeq
<1>3. k < j => s[k] < s[j]
  BY DEF Asc
<1>4. QED
  BY <1>1, <1>2, <1>3

\* The rows in front of a place are those that come before others in front of it.
LEMMA FrontIsDown ==
    ASSUME NEW s \in Seq(Rows), Asc(s), NEW b \in Nat, b <= Len(s),
           NEW x \in ToSet(s), NEW y \in ToSet(SubSeq(s, 1, b)), x <= y
    PROVE  x \in ToSet(SubSeq(s, 1, b))
<1>1. ToSet(SubSeq(s, 1, b)) = {s[k] : k \in 1 .. b}
  <2>1. 0 \in Nat /\ 0 <= b /\ 0 + 1 = 1
    OBVIOUS
  <2>2. QED
    BY <2>1, AscPart
<1>2. PICK k \in 1 .. b : y = s[k]
  BY <1>1
<1>3. PICK j \in 1 .. Len(s) : x = s[j]
  BY ElementsOf
<1>4. k \in 1 .. Len(s)
  BY LenProperties
<1>5. j <= k
  BY <1>2, <1>3, <1>4, AscPlaces
<1>6. j \in 1 .. b
  BY <1>5, LenProperties
<1>7. QED
  BY <1>1, <1>3, <1>6

LEMMA AscCardinality ==
    ASSUME NEW s \in Seq(Rows), Asc(s)
    PROVE  IsFiniteSet(ToSet(s)) /\ Cardinality(ToSet(s)) = Len(s)
<1> DEFINE T == {t \in Seq(Rows) : Asc(t) => IsFiniteSet(ToSet(t)) /\ Cardinality(ToSet(t)) = Len(t)}
<1>1. <<>> \in T
  <2>1. <<>> \in Seq(Rows) /\ Len(<<>>) = 0
    BY EmptySeq
  <2>2. ToSet(<<>>) = {}
    BY <2>1, ElementsOf
  <2>3. QED
    BY <2>1, <2>2, FS_EmptySet
<1>2. ASSUME NEW t \in Seq(Rows), NEW r \in Rows, t \in T PROVE Append(t, r) \in T
  <2>1. Append(t, r) \in Seq(Rows) /\ Len(Append(t, r)) = Len(t) + 1
    BY AppendProperties
  <2>2. ToSet(Append(t, r)) = ToSet(t) \cup {r}
    BY ToSetAppend
  <2>3. ASSUME Asc(Append(t, r))
        PROVE  IsFiniteSet(ToSet(Append(t, r))) /\ Cardinality(ToSet(Append(t, r))) = Len(Append(t, r))
    <3>1. Asc(t) /\ \A x \in ToSet(t) : x < r
      BY <2>3, AscAppend
    <3>2. r \notin ToSet(t)
      BY <3>1, RowsAreInts
    <3>3. IsFiniteSet(ToSet(t)) /\ Cardinality(ToSet(t)) = Len(t)
      BY <1>2, <3>1
    <3>4. IsFiniteSet(ToSet(t) \cup {r}) /\ Cardinality(ToSet(t) \cup {r}) = Cardinality(ToSet(t)) + 1
      BY <3>2, <3>3, FS_AddElement
    <3>5. QED
      BY <2>1, <2>2, <3>3, <3>4
  <2>4. QED
    BY <2>1, <2>3
<1>3. Seq(Rows) \subseteq T
  <2> HIDE DEF T
  <2> QED BY <1>1, <1>2, SeqInduction
<1>4. QED
  BY <1>3

-----------------------------------------------------------------------------
(***************************************************************************)
(* The rows of one measurement: what a page has of a segment.              *)
(***************************************************************************)
LEMMA FlattenOne ==
    ASSUME NEW s \in Seq(Seq(Rows)), Len(s) = 1
    PROVE  FlattenSeq(s) = s[1]
<1>1. PICK g : Flattens(g, s, 1) /\ FlattenSeq(s) = g[1]
  <2>1. 1 \in Nat \ {0}
    OBVIOUS
  <2>2. QED
    BY <2>1, FlattenFunction
<1>2. g[1] = s[1]
  BY <1>1 DEF Flattens, Joins
<1>3. QED
  BY <1>1, <1>2

LEMMA OneAnswer ==
    ASSUME Measurements = {1}, NEW asked, asked = {1},
           NEW i, NEW s, NEW e, NEW limit \in Nat, NEW offset \in Nat
    PROVE  Answer(i, asked, s, e, limit, offset) = Part(Series(i, 1, s, e), limit, offset)
<1> DEFINE one(m) == IF m \in asked THEN Part(Series(i, m, s, e), limit, offset) ELSE <<>>
           all == [m \in Measurements |-> one(m)]
<1>1. asked = {1} /\ Measurements = 1 .. 1
  <2>1. {1} = 1 .. 1
    OBVIOUS
  <2>2. QED
    BY <2>1
<1>2. PICK p \in Seq(Rows) : p = Part(Series(i, 1, s, e), limit, offset)
  <2>1. PICK S \in Seq(Rows) : S = Series(i, 1, s, e)
    BY SeriesFacts
  <2>2. Part(S, limit, offset) \in Seq(Rows)
    BY PartFacts
  <2>3. QED
    BY <2>1, <2>2
<1>3. \A m \in 1 .. 1 : one(m) = p
  BY <1>1, <1>2
<1>4. all = [m \in 1 .. 1 |-> p]
  BY <1>1, <1>3
<1>5. PICK a \in Seq(Seq(Rows)) : a = [m \in 1 .. 1 |-> p]
  <2>1. [m \in 1 .. 1 |-> p] \in [1 .. 1 -> Seq(Rows)]
    OBVIOUS
  <2>2. [m \in 1 .. 1 |-> p] \in Seq(Seq(Rows))
    BY <2>1, SeqDef
  <2>3. QED
    BY <2>2
<1>6. Len(a) = 1 /\ a[1] = p
  BY <1>5
<1>7. FlattenSeq(a) = p
  BY <1>6, FlattenOne
<1>8. Answer(i, asked, s, e, limit, offset) = FlattenSeq(all)
  BY DEF Answer
<1>9. QED
  BY <1>2, <1>4, <1>5, <1>7, <1>8

\* The rows of a segment from a timestamp on.
Rest(i, s, e) == {r \in Rows \ missed[i] : s <= time[r] /\ time[r] < e}
IsDown(T, W) == \A x \in W, y \in T : x <= y => x \in T

LEMMA OneMeasurement ==
    ASSUME Measurements = {1}, SourceOK
    PROVE  /\ \A i, s, e : Found(i, 1, s, e) = Rest(i, s, e)
           /\ Asked = {1} /\ \A r \in Rows : name[r] = 1
<1>1. \A r \in Rows : name[r] = 1
  BY DEF SourceOK
<1>2. Asked = {1}
  <2>1. \A m \in Asked : m = 1
    BY RangeAssumption
  <2>2. QED
    BY <2>1, RangeAssumption, Zenon
<1>3. \A i, s, e : Found(i, 1, s, e) = Rest(i, s, e)
  BY <1>1 DEF Found, Rest
<1>4. QED
  BY <1>1, <1>2, <1>3

\* A page without an offset has the first rows of the rest.
FirstPart(rows, W, limit) ==
    /\ rows \in Seq(Rows) /\ Asc(rows)
    /\ ToSet(rows) \subseteq W /\ IsDown(ToSet(rows), W)
    /\ IsFiniteSet(ToSet(rows)) /\ Cardinality(ToSet(rows)) = Len(rows) /\ Len(rows) <= limit
    /\ Len(rows) < limit => ToSet(rows) = W

LEMMA FirstPageFacts ==
    ASSUME Measurements = {1}, SourceOK, NEW i, NEW s, NEW e
    PROVE  FirstPart(Answer(i, Asked, s, e, Limit, 0), Rest(i, s, e), Limit)
<1>0. Limit \in Nat /\ 0 \in Nat
  BY RangeAssumption
<1>1. PICK S \in Seq(Rows) : S = Series(i, 1, s, e) /\ Asc(S) /\ ToSet(S) = Rest(i, s, e)
  BY SeriesFacts, OneMeasurement
<1>2. PICK rows : rows = Part(S, Limit, 0) /\ Answer(i, Asked, s, e, Limit, 0) = rows
  <2>1. Answer(i, Asked, s, e, Limit, 0) = Part(Series(i, 1, s, e), Limit, 0)
    BY <1>0, OneMeasurement, OneAnswer
  <2>2. QED
    BY <1>1, <2>1
<1>3. PICK a \in Nat, b \in Nat :
          /\ a <= b /\ b <= Len(S) /\ rows = SubSeq(S, a + 1, b)
          /\ 0 <= Len(S) => a = 0
          /\ b - a <= Limit /\ (b - a < Limit => b = Len(S))
          /\ rows \in Seq(Rows) /\ Len(rows) = b - a
  <2>1. \E a \in Nat, b \in Nat : IsPart(Part(S, Limit, 0), S, Limit, 0, a, b)
    BY <1>0, PartFacts
  <2>2. PICK a \in Nat, b \in Nat : IsPart(rows, S, Limit, 0, a, b)
    BY <1>2, <2>1, Zenon
  <2>3. QED
    BY <2>2 DEF IsPart
<1>4. a = 0
  BY <1>3, LenProperties
<1>5. rows = SubSeq(S, 1, b) /\ Len(rows) = b
  <2>1. 0 + 1 = 1 /\ b - 0 = b
    OBVIOUS
  <2>2. QED
    BY <1>3, <1>4, <2>1
<1>6. rows \in Seq(Rows) /\ Asc(rows) /\ ToSet(rows) = {S[k] : k \in 1 .. b}
  <2>1. 0 + 1 = 1 /\ 0 <= b
    OBVIOUS
  <2>2. Asc(SubSeq(S, 0 + 1, b)) /\ ToSet(SubSeq(S, 0 + 1, b)) = {S[k] : k \in 0 + 1 .. b}
    BY <1>0, <1>1, <1>3, <2>1, AscPart
  <2>3. QED
    BY <1>3, <1>5, <2>1, <2>2
<1>7. ToSet(S) = {S[k] : k \in 1 .. Len(S)}
  BY ElementsOf
<1>8. ToSet(rows) \subseteq ToSet(S)
  <2>1. \A k \in 1 .. b : k \in 1 .. Len(S)
    BY <1>3, LenProperties
  <2>2. QED
    BY <1>6, <1>7, <2>1
<1>9. IsDown(ToSet(rows), ToSet(S))
  BY <1>1, <1>3, <1>5, FrontIsDown DEF IsDown
<1>10. Len(rows) < Limit => ToSet(rows) = ToSet(S)
  <2>1. Len(rows) < Limit => b = Len(S)
    BY <1>3, <1>5
  <2>2. QED
    BY <1>6, <1>7, <2>1
<1>11. Len(rows) <= Limit
  BY <1>3, <1>5
<1>12. IsFiniteSet(ToSet(rows)) /\ Cardinality(ToSet(rows)) = Len(rows)
  BY <1>6, AscCardinality
<1>13. QED
  BY <1>1, <1>2, <1>6, <1>8, <1>9, <1>10, <1>11, <1>12 DEF FirstPart

\* A page of a dense timestamp goes on where the pages before it ended.
InFront(i, ts, n) == ToSet(SubSeq(Series(i, 1, ts, ts + 1), 1, n))

OffsetOK(i, ts, n) == n <= Len(Series(i, 1, ts, ts + 1))

NextPart(rows, i, ts, limit, offset) ==
    /\ rows \in Seq(Rows) /\ Asc(rows) /\ ToSet(rows) \subseteq Rest(i, ts, ts + 1)
    /\ OffsetOK(i, ts, offset + Len(rows))
    /\ InFront(i, ts, offset + Len(rows)) = InFront(i, ts, offset) \cup ToSet(rows)
    /\ IsDown(InFront(i, ts, offset + Len(rows)), Rest(i, ts, ts + 1))
    /\ Len(rows) < limit => InFront(i, ts, offset + Len(rows)) = Rest(i, ts, ts + 1)

LEMMA DensePageFacts ==
    ASSUME Measurements = {1}, SourceOK, NEW i, NEW ts \in Int, NEW limit \in Nat \ {0},
           NEW offset \in Nat, OffsetOK(i, ts, offset),
           NEW rows, rows = Answer(i, Measurements, ts, ts + 1, limit, offset)
    PROVE  NextPart(rows, i, ts, limit, offset)
<1>1. PICK S \in Seq(Rows) : S = Series(i, 1, ts, ts + 1) /\ Asc(S) /\ ToSet(S) = Rest(i, ts, ts + 1)
  BY SeriesFacts, OneMeasurement
<1>2. rows = Part(S, limit, offset)
  <2>1. PICK asked : asked = {1} /\ asked = Measurements
    OBVIOUS
  <2>2. PICK e : e = ts + 1
    OBVIOUS
  <2>3. limit \in Nat
    OBVIOUS
  <2>4. Answer(i, asked, ts, e, limit, offset) = Part(Series(i, 1, ts, e), limit, offset)
    BY <2>1, <2>3, OneAnswer
  <2>5. QED
    BY <1>1, <2>1, <2>2, <2>4
<1>3. PICK a \in Nat, b \in Nat :
          /\ a <= b /\ b <= Len(S) /\ rows = SubSeq(S, a + 1, b)
          /\ offset <= Len(S) => a = offset
          /\ b - a <= limit /\ (b - a < limit => b = Len(S))
          /\ rows \in Seq(Rows) /\ Len(rows) = b - a
  <2>1. limit \in Nat
    OBVIOUS
  <2>2. \E a \in Nat, b \in Nat : IsPart(Part(S, limit, offset), S, limit, offset, a, b)
    BY <2>1, PartFacts
  <2>3. PICK a \in Nat, b \in Nat : IsPart(rows, S, limit, offset, a, b)
    BY <1>2, <2>2, Zenon
  <2>4. QED
    BY <2>3 DEF IsPart
<1>4. a = offset
  <2>1. offset <= Len(S)
    BY <1>1 DEF OffsetOK
  <2>2. QED
    BY <1>3, <2>1
<1>5. offset + Len(rows) = b
  BY <1>3, <1>4
<1>6. Asc(rows) /\ ToSet(rows) = {S[k] : k \in a + 1 .. b}
  <2>1. a <= b /\ b <= Len(S) /\ Asc(S)
    BY <1>1, <1>3
  <2>2. Asc(SubSeq(S, a + 1, b)) /\ ToSet(SubSeq(S, a + 1, b)) = {S[k] : k \in a + 1 .. b}
    BY <2>1, AscPart
  <2>3. QED
    BY <1>3, <2>2
<1>7. ToSet(S) = {S[k] : k \in 1 .. Len(S)}
  BY ElementsOf
<1>8. ToSet(rows) \subseteq ToSet(S)
  <2>1. \A k \in a + 1 .. b : k \in 1 .. Len(S)
    BY <1>3, LenProperties
  <2>2. QED
    BY <1>6, <1>7, <2>1
<1>9. ToSet(SubSeq(S, 1, b)) = ToSet(SubSeq(S, 1, a)) \cup ToSet(rows)
  <2>1. b \in a .. Len(S)
    BY <1>3, LenProperties
  <2>2. SubSeq(S, 1, b) = SubSeq(S, 1, a) \o rows
    BY <1>3, <2>1, TwoParts
  <2>3. PICK f \in Seq(Rows) : f = SubSeq(S, 1, a)
    <3>1. 1 \in Nat \ {0} /\ a <= Len(S)
      BY <1>3, LenProperties
    <3>2. SubSeq(S, 1, a) \in Seq(Rows)
      BY <3>1, PartOf
    <3>3. QED
      BY <3>2
  <2>4. ToSet(f \o rows) = ToSet(f) \cup ToSet(rows)
    BY <1>3, ToSetConcat
  <2>5. QED
    BY <2>2, <2>3, <2>4
<1>10. IsDown(ToSet(SubSeq(S, 1, b)), ToSet(S))
  BY <1>1, <1>3, FrontIsDown DEF IsDown
<1>11. Len(rows) < limit => ToSet(SubSeq(S, 1, b)) = ToSet(S)
  <2>1. Len(rows) < limit => b = Len(S)
    BY <1>3
  <2>2. b = Len(S) => SubSeq(S, 1, b) = S
    BY SubSeqFull
  <2>3. QED
    BY <2>1, <2>2
<1>12. QED
  BY <1>1, <1>3, <1>4, <1>5, <1>6, <1>8, <1>9, <1>10, <1>11 DEF InFront, OffsetOK, NextPart

-----------------------------------------------------------------------------
(***************************************************************************)
(* How far a segment is read.                                              *)
(***************************************************************************)
Held(i) == Rest(i, SegmentStart(i), SegmentEnd(i))
AtTS(T, ts) == {r \in T : time[r] = ts}

\* What is read is an initial part of what the segment holds, in its order ...
Covers(out, i) == Asc(out) /\ ToSet(out) \subseteq Held(i) /\ IsDown(ToSet(out), Held(i))

\* ... everything before a timestamp, something at it, and nothing after it.
ReadTo(out, i, ts) ==
    /\ Covers(out, i)
    /\ \A x \in Held(i) : time[x] < ts => x \in ToSet(out)
    /\ \A x \in ToSet(out) : time[x] <= ts

CarriedOK(c, ts) == IsFiniteSet(c) /\ Cardinality(c) <= Limit /\ \A x \in c : time[x] <= ts

Reading(i, out, ts, c) ==
    /\ ts \in Int /\ SegmentStart(i) <= ts /\ ts < SegmentEnd(i)
    /\ out \in Seq(Rows) /\ ReadTo(out, i, ts) /\ c \in SUBSET Rows /\ CarriedOK(c, ts)

\* The carried rows of the timestamp where a page begins are those that are read of it.
PageOK(i, out, ts, c) ==
    /\ Reading(i, out, ts, c)
    /\ AtTS(ToSet(out), ts) = AtTS(c, ts)
    /\ ts = SegmentStart(i) => out = <<>>

\* The rows seen of a dense timestamp are those that are read, and no fewer than the
\* offset leaves out.
DenseOK(i, out, ts, c, seen, offset) ==
    /\ Reading(i, out, ts, c)
    /\ seen = AtTS(ToSet(out), ts)
    /\ OffsetOK(i, ts, offset) /\ InFront(i, ts, offset) \subseteq seen

DoneOK(i, out) == Asc(out) /\ ToSet(out) = Held(i)

SegOK(i, b) ==
    /\ b.pc = "page" => PageOK(i, b.out, b.from, b.carried)
    /\ b.pc = "dense" => DenseOK(i, b.out, b.from, b.carried, b.seen, b.offset)
    /\ b.pc = "done" => DoneOK(i, b.out)

LEMMA Times ==
    ASSUME SourceOK
    PROVE  /\ \A r \in Rows : time[r] \in Int
           /\ \A r, q \in Rows : r <= q => time[r] <= time[q]
           /\ \A i, s, e : Rest(i, s, e) \subseteq Rows
<1>1. \A r \in Rows : time[r] \in Int
  <2>1. \A r \in Rows : time[r] \in Start .. End
    BY DEF SourceOK
  <2>2. Start .. End \subseteq Int
    OBVIOUS
  <2>3. QED
    BY <2>1, <2>2
<1>2. ASSUME NEW r \in Rows, NEW q \in Rows, r <= q PROVE time[r] <= time[q]
  <2>1. r \in Nat /\ q \in Nat
    BY RowsAreInts
  <2>2. CASE r = q
    BY <1>1, <2>2
  <2>3. CASE r < q
    BY <2>3 DEF SourceOK
  <2>4. QED
    BY <1>2, <2>1, <2>2, <2>3
<1>3. QED
  BY <1>1, <1>2 DEF Rest

\* What is read grows by rows that are new, come after it, and leave out none before them.
LEMMA ReadMore ==
    ASSUME SourceOK, NEW i \in Segments, NEW out \in Seq(Rows), NEW ts \in Int, SegmentStart(i) <= ts,
           ReadTo(out, i, ts), NEW new \in Seq(Rows), Asc(new),
           ToSet(new) \subseteq Rest(i, ts, SegmentEnd(i)), ToSet(new) \cap ToSet(out) = {},
           IsDown(ToSet(out) \cup ToSet(new), Rest(i, ts, SegmentEnd(i)))
    PROVE  /\ out \o new \in Seq(Rows) /\ Covers(out \o new, i)
           /\ ToSet(out \o new) = ToSet(out) \cup ToSet(new)
<1>1. PICK o \in Seq(Rows) : o = out \o new
  BY ConcatProperties
<1>2. ToSet(o) = ToSet(out) \cup ToSet(new)
  BY <1>1, ToSetConcat
<1>3. SegmentStart(i) \in Int /\ SegmentEnd(i) \in Int
  BY SegmentFacts
<1>4. ToSet(new) \subseteq Held(i)
  BY <1>3, Times DEF Held, Rest
<1>5. /\ Asc(out) /\ ToSet(out) \subseteq Held(i) /\ IsDown(ToSet(out), Held(i))
      /\ \A x \in Held(i) : time[x] < ts => x \in ToSet(out)
  BY DEF ReadTo, Covers
<1>6. Held(i) \subseteq Rows
  BY Times DEF Held
<1>7. ASSUME NEW x \in ToSet(out), NEW y \in ToSet(new) PROVE x < y
  <2>1. ~(y <= x)
    BY <1>4, <1>5 DEF IsDown
  <2>2. x \in Nat /\ y \in Nat
    BY <1>4, <1>5, <1>6, RowsAreInts
  <2>3. QED
    BY <2>1, <2>2
<1>8. Asc(o)
  BY <1>1, <1>5, <1>7, AscConcat
<1>9. ASSUME NEW x \in Held(i), NEW y \in ToSet(o), x <= y PROVE x \in ToSet(o)
  <2>1. CASE y \in ToSet(out)
    BY <1>2, <1>5, <1>9, <2>1 DEF IsDown
  <2>2. CASE y \in ToSet(new)
    <3>1. CASE time[x] < ts
      BY <1>2, <1>5, <3>1
    <3>2. CASE ~(time[x] < ts)
      <4>1. time[x] \in Int
        BY <1>6, Times
      <4>2. x \in Rest(i, ts, SegmentEnd(i))
        BY <3>2, <4>1 DEF Held, Rest
      <4>3. QED
        BY <1>2, <1>9, <2>2, <4>2 DEF IsDown
    <3>3. QED
      BY <3>1, <3>2
  <2>3. QED
    BY <1>2, <2>1, <2>2
<1>10. IsDown(ToSet(o), Held(i))
  BY <1>9 DEF IsDown
<1>11. QED
  BY <1>1, <1>2, <1>4, <1>5, <1>8, <1>10 DEF Covers

\* A page adds the rows that it brings.
LEMMA PageReads ==
    ASSUME SourceOK, NEW i \in Segments, NEW out, NEW ts, NEW c, PageOK(i, out, ts, c),
           NEW rows, FirstPart(rows, Rest(i, ts, SegmentEnd(i)), Limit),
           NEW new, new = Without(rows, {r \in c : time[r] = ts /\ ts # SegmentStart(i)})
    PROVE  /\ out \o new \in Seq(Rows) /\ Covers(out \o new, i)
           /\ ToSet(out \o new) = ToSet(out) \cup ToSet(rows)
<1>1. /\ ts \in Int /\ SegmentStart(i) <= ts /\ ts < SegmentEnd(i)
      /\ out \in Seq(Rows) /\ ReadTo(out, i, ts)
      /\ AtTS(ToSet(out), ts) = AtTS(c, ts)
      /\ ts = SegmentStart(i) => out = <<>>
  BY DEF PageOK, Reading
<1>2. PICK W : W = Rest(i, ts, SegmentEnd(i)) /\ W \subseteq Rows
  BY Times
<1>3. /\ rows \in Seq(Rows) /\ Asc(rows) /\ ToSet(rows) \subseteq W /\ IsDown(ToSet(rows), W)
  BY <1>2 DEF FirstPart
<1>4. PICK K : K = {r \in c : time[r] = ts /\ ts # SegmentStart(i)}
  OBVIOUS
<1>5. new \in Seq(Rows) /\ Asc(new) /\ ToSet(new) = ToSet(rows) \ K
  BY <1>3, <1>4, WithoutFacts
<1>6. K \subseteq ToSet(out)
  <2>1. K \subseteq AtTS(c, ts)
    BY <1>4 DEF AtTS
  <2>2. QED
    BY <1>1, <2>1 DEF AtTS
<1>7. ToSet(new) \cap ToSet(out) = {}
  <2>1. ASSUME NEW y \in ToSet(new), y \in ToSet(out) PROVE FALSE
    <3>1. y \in W /\ y \in Rows
      BY <1>2, <1>3, <1>5
    <3>2. time[y] \in Int /\ ts <= time[y]
      BY <1>2, <3>1, Times DEF Rest
    <3>3. time[y] <= ts
      BY <1>1, <2>1 DEF ReadTo
    <3>4. time[y] = ts
      BY <1>1, <3>2, <3>3
    <3>5. out # <<>>
      <4>1. ToSet(out) # {}
        BY <2>1
      <4>2. QED
        BY <1>1, <4>1, ElementsOf
    <3>6. ts # SegmentStart(i)
      BY <1>1, <3>5
    <3>7. y \in AtTS(c, ts)
      BY <1>1, <2>1, <3>4 DEF AtTS
    <3>8. y \in K
      BY <1>4, <3>6, <3>7 DEF AtTS
    <3>9. QED
      BY <1>5, <3>8
  <2>2. QED
    BY <2>1
<1>8. ToSet(out) \cup ToSet(new) = ToSet(out) \cup ToSet(rows)
  BY <1>5, <1>6
<1>9. W \subseteq Held(i)
  <2>1. SegmentStart(i) \in Int /\ SegmentEnd(i) \in Int
    BY SegmentFacts
  <2>2. \A r \in W : r \in Rows /\ time[r] \in Int
    BY <1>2, Times
  <2>3. QED
    BY <1>1, <1>2, <2>1, <2>2 DEF Held, Rest
<1>10. IsDown(ToSet(out) \cup ToSet(new), W)
  <2>1. ASSUME NEW x \in W, NEW y \in ToSet(out) \cup ToSet(rows), x <= y
        PROVE  x \in ToSet(out) \cup ToSet(rows)
    <3>1. CASE y \in ToSet(out)
      BY <1>1, <1>9, <2>1, <3>1 DEF ReadTo, Covers, IsDown
    <3>2. CASE y \in ToSet(rows)
      BY <1>3, <2>1, <3>2 DEF IsDown
    <3>3. QED
      BY <3>1, <3>2
  <2>2. QED
    BY <1>8, <2>1 DEF IsDown
<1>11. /\ out \o new \in Seq(Rows) /\ Covers(out \o new, i)
       /\ ToSet(out \o new) = ToSet(out) \cup ToSet(new)
  <2>1. ToSet(new) \subseteq Rest(i, ts, SegmentEnd(i))
    BY <1>2, <1>3, <1>5
  <2>2. IsDown(ToSet(out) \cup ToSet(new), Rest(i, ts, SegmentEnd(i)))
    BY <1>2, <1>10
  <2>3. /\ ts \in Int /\ SegmentStart(i) <= ts /\ out \in Seq(Rows) /\ ReadTo(out, i, ts)
        /\ new \in Seq(Rows) /\ Asc(new)
    BY <1>1, <1>5
  <2>4. PICK u \in Seq(Rows), v \in Seq(Rows), t \in Int : u = out /\ v = new /\ t = ts
    BY <2>3
  <2>5. /\ SegmentStart(i) <= t /\ ReadTo(u, i, t) /\ Asc(v)
        /\ ToSet(v) \subseteq Rest(i, t, SegmentEnd(i)) /\ ToSet(v) \cap ToSet(u) = {}
        /\ IsDown(ToSet(u) \cup ToSet(v), Rest(i, t, SegmentEnd(i)))
    BY <1>7, <2>1, <2>2, <2>3, <2>4
  <2>6. u \o v \in Seq(Rows) /\ Covers(u \o v, i) /\ ToSet(u \o v) = ToSet(u) \cup ToSet(v)
    BY <2>5, ReadMore
  <2>7. QED
    BY <2>4, <2>6
<1>12. QED
  BY <1>8, <1>11

\* A page that is not full is the last one.
LEMMA PageToDone ==
    ASSUME SourceOK, NEW i \in Segments, NEW out, NEW ts, NEW c, PageOK(i, out, ts, c),
           NEW rows, FirstPart(rows, Rest(i, ts, SegmentEnd(i)), Limit), rows = <<>> \/ Len(rows) < Limit,
           NEW o, Covers(o, i), ToSet(o) = ToSet(out) \cup ToSet(rows)
    PROVE  DoneOK(i, o)
<1>1. Len(rows) < Limit
  <2>1. Len(<<>>) = 0 /\ Limit \in Nat \ {0}
    BY RangeAssumption, EmptySeq
  <2>2. QED
    BY <2>1
<1>2. ToSet(rows) = Rest(i, ts, SegmentEnd(i))
  BY <1>1 DEF FirstPart
<1>3. ts \in Int /\ \A x \in Held(i) : time[x] < ts => x \in ToSet(out)
  BY DEF PageOK, Reading, ReadTo
<1>4. ASSUME NEW x \in Held(i) PROVE x \in ToSet(o)
  <2>1. x \in Rows /\ time[x] \in Int /\ x \notin missed[i] /\ time[x] < SegmentEnd(i)
    BY Times DEF Held, Rest
  <2>2. CASE time[x] < ts
    BY <1>3, <2>2
  <2>3. CASE ~(time[x] < ts)
    <3>1. x \in Rest(i, ts, SegmentEnd(i))
      BY <1>3, <2>1, <2>3 DEF Rest
    <3>2. QED
      BY <1>2, <3>1
  <2>4. QED
    BY <2>2, <2>3
<1>5. QED
  BY <1>4 DEF DoneOK, Covers

\* What the rows of a full page are, by their times.
LEMMA PageTimes ==
    ASSUME SourceOK, NEW i \in Segments, NEW ts \in Int,
           NEW rows, FirstPart(rows, Rest(i, ts, SegmentEnd(i)), Limit), rows # <<>>
    PROVE  \E lastTS \in Int :
              /\ lastTS = time[Last(rows)] /\ ts <= lastTS /\ lastTS < SegmentEnd(i)
              /\ \A x \in ToSet(rows) : ts <= time[x] /\ time[x] <= lastTS
              /\ \A x \in Rest(i, ts, SegmentEnd(i)) : time[x] < lastTS => x \in ToSet(rows)
<1>1. PICK W : W = Rest(i, ts, SegmentEnd(i)) /\ W \subseteq Rows
  BY Times
<1>2. rows \in Seq(Rows) /\ Asc(rows) /\ ToSet(rows) \subseteq W /\ IsDown(ToSet(rows), W)
  BY <1>1 DEF FirstPart
<1>3. PICK l \in ToSet(rows) : l = Last(rows) /\ \A x \in ToSet(rows) : x <= l
  BY <1>2, LastFacts
<1>4. PICK lastTS \in Int : lastTS = time[l]
  BY <1>1, <1>2, Times
<1>5. ts <= lastTS /\ lastTS < SegmentEnd(i)
  BY <1>1, <1>2, <1>4 DEF Rest
<1>6. ASSUME NEW x \in ToSet(rows) PROVE ts <= time[x] /\ time[x] <= lastTS
  <2>1. ts <= time[x]
    BY <1>1, <1>2 DEF Rest
  <2>2. x <= l /\ x \in Rows /\ l \in Rows
    BY <1>1, <1>2, <1>3
  <2>3. time[x] <= time[l]
    BY <2>2, Times
  <2>4. QED
    BY <1>4, <2>1, <2>3
<1>7. ASSUME NEW x \in W, time[x] < lastTS PROVE x \in ToSet(rows)
  <2>1. x \in Rows /\ l \in Rows /\ x \in Nat /\ l \in Nat /\ time[x] \in Int
    BY <1>1, <1>2, <1>3, Times, RowsAreInts
  <2>2. ~(l <= x)
    <3>1. l <= x => time[l] <= time[x]
      BY <2>1, Times
    <3>2. QED
      BY <1>4, <1>7, <2>1, <3>1
  <2>3. x <= l
    BY <2>1, <2>2
  <2>4. QED
    BY <1>2, <1>3, <2>3 DEF IsDown
<1>8. QED
  BY <1>1, <1>3, <1>4, <1>5, <1>6, <1>7

\* The rows at the end of a page are no more than a page takes.
LEMMA CarriedOfPage ==
    ASSUME NEW rows, NEW W, FirstPart(rows, W, Limit), NEW ts, NEW lastTS \in Int, NEW c,
           c = At(rows, lastTS), W \subseteq Rows
    PROVE  /\ c \in SUBSET Rows /\ CarriedOK(c, lastTS) /\ c = AtTS(ToSet(rows), lastTS)
<1>1. c = AtTS(ToSet(rows), lastTS)
  BY DEF At, AtTS
<1>2. c \in SUBSET ToSet(rows)
  BY <1>1 DEF AtTS
<1>3. /\ IsFiniteSet(ToSet(rows)) /\ Cardinality(ToSet(rows)) = Len(rows) /\ Len(rows) <= Limit
      /\ rows \in Seq(Rows) /\ ToSet(rows) \subseteq W
  BY DEF FirstPart
<1>4. IsFiniteSet(c) /\ Cardinality(c) <= Cardinality(ToSet(rows))
  BY <1>2, <1>3, FS_Subset
<1>5. Cardinality(c) <= Limit
  <2>1. Cardinality(c) \in Nat /\ Len(rows) \in Nat /\ Limit \in Nat
    BY <1>3, <1>4, FS_CardinalityType, LenProperties, RangeAssumption
  <2>2. QED
    BY <1>3, <1>4, <2>1
<1>6. \A x \in c : time[x] <= lastTS
  BY <1>1 DEF AtTS
<1>7. QED
  BY <1>1, <1>2, <1>3, <1>4, <1>5, <1>6 DEF CarriedOK

\* A full page: the next one begins at its last timestamp.
LEMMA PageToNext ==
    ASSUME SourceOK, NEW i \in Segments, NEW out, NEW ts, NEW c, PageOK(i, out, ts, c),
           NEW rows, FirstPart(rows, Rest(i, ts, SegmentEnd(i)), Limit), rows # <<>>,
           time[Last(rows)] # ts,
           NEW o \in Seq(Rows), Covers(o, i), ToSet(o) = ToSet(out) \cup ToSet(rows)
    PROVE  PageOK(i, o, time[Last(rows)], At(rows, time[Last(rows)]))
<1>1. /\ ts \in Int /\ SegmentStart(i) <= ts /\ ReadTo(out, i, ts) /\ out \in Seq(Rows)
  BY DEF PageOK, Reading
<1>2. PICK lastTS \in Int :
          /\ lastTS = time[Last(rows)] /\ ts <= lastTS /\ lastTS < SegmentEnd(i)
          /\ \A x \in ToSet(rows) : ts <= time[x] /\ time[x] <= lastTS
          /\ \A x \in Rest(i, ts, SegmentEnd(i)) : time[x] < lastTS => x \in ToSet(rows)
  BY <1>1, PageTimes
<1>3. ts < lastTS
  BY <1>1, <1>2
<1>4. SegmentStart(i) \in Int
  BY SegmentFacts
<1>5. \A x \in ToSet(out) : x \in Rows /\ time[x] \in Int /\ time[x] <= ts
  <2>1. ToSet(out) \subseteq Rows
    BY <1>1, ElementsOf
  <2>2. QED
    BY <1>1, <2>1, Times DEF ReadTo
<1>6. ASSUME NEW x \in Held(i), time[x] < lastTS PROVE x \in ToSet(o)
  <2>1. x \in Rows /\ time[x] \in Int /\ x \notin missed[i] /\ time[x] < SegmentEnd(i)
    BY Times DEF Held, Rest
  <2>2. CASE time[x] < ts
    BY <1>1, <2>2 DEF ReadTo
  <2>3. CASE ~(time[x] < ts)
    <3>1. x \in Rest(i, ts, SegmentEnd(i))
      BY <1>1, <2>1, <2>3 DEF Rest
    <3>2. QED
      BY <1>2, <1>6, <3>1
  <2>4. QED
    BY <2>2, <2>3
<1>7. ASSUME NEW x \in ToSet(o) PROVE time[x] <= lastTS
  BY <1>1, <1>2, <1>3, <1>5
<1>8. ReadTo(o, i, lastTS)
  BY <1>6, <1>7 DEF ReadTo
<1>9. PICK k : k = At(rows, lastTS) /\ k \in SUBSET Rows /\ CarriedOK(k, lastTS) /\ k = AtTS(ToSet(rows), lastTS)
  BY CarriedOfPage, Times
<1>10. AtTS(ToSet(o), lastTS) = AtTS(k, lastTS)
  <2>1. ASSUME NEW x \in ToSet(out) PROVE time[x] # lastTS
    BY <1>1, <1>3, <1>5
  <2>2. QED
    BY <1>9, <2>1 DEF AtTS
<1>11. SegmentStart(i) <= lastTS /\ lastTS # SegmentStart(i)
  BY <1>1, <1>3, <1>4
<1>12. QED
  BY <1>2, <1>8, <1>9, <1>10, <1>11 DEF PageOK, Reading

\* A full page of one timestamp: all that was carried of it is in the page.
LEMMA PageToDense ==
    ASSUME SourceOK, NEW i \in Segments, NEW out, NEW ts, NEW c, PageOK(i, out, ts, c),
           NEW rows, FirstPart(rows, Rest(i, ts, SegmentEnd(i)), Limit), rows # <<>>,
           ~(Len(rows) < Limit), time[Last(rows)] = ts,
           NEW o \in Seq(Rows), Covers(o, i), ToSet(o) = ToSet(out) \cup ToSet(rows)
    PROVE  DenseOK(i, o, ts, At(rows, time[Last(rows)]), ToSet(rows), 0)
<1>1. /\ ts \in Int /\ SegmentStart(i) <= ts /\ ts < SegmentEnd(i)
      /\ ReadTo(out, i, ts) /\ out \in Seq(Rows)
      /\ c \in SUBSET Rows /\ CarriedOK(c, ts) /\ AtTS(ToSet(out), ts) = AtTS(c, ts)
  BY DEF PageOK, Reading
<1>2. PICK W : W = Rest(i, ts, SegmentEnd(i)) /\ W \subseteq Rows
  BY Times
<1>3. /\ rows \in Seq(Rows) /\ ToSet(rows) \subseteq W /\ IsDown(ToSet(rows), W)
      /\ IsFiniteSet(ToSet(rows)) /\ Cardinality(ToSet(rows)) = Len(rows)
  BY <1>2 DEF FirstPart
<1>4. \A x \in ToSet(rows) : time[x] = ts
  <2>1. PICK lastTS \in Int : /\ lastTS = time[Last(rows)]
                              /\ \A x \in ToSet(rows) : ts <= time[x] /\ time[x] <= lastTS
    BY <1>1, PageTimes
  <2>2. \A x \in ToSet(rows) : time[x] \in Int
    BY <1>2, <1>3, Times
  <2>3. QED
    BY <2>1, <2>2
<1>5. ReadTo(o, i, ts)
  BY <1>1, <1>4 DEF ReadTo
<1>6. PICK T : T = AtTS(ToSet(out), ts)
  OBVIOUS
<1>7. T \subseteq W
  <2>1. ASSUME NEW x \in T PROVE x \in W
    <3>1. x \in Held(i) /\ time[x] = ts
      BY <1>1, <1>6 DEF AtTS, ReadTo, Covers
    <3>2. QED
      BY <1>1, <1>2, <3>1 DEF Held, Rest
  <2>2. QED
    BY <2>1
<1>8. IsDown(T, W)
  <2>1. ASSUME NEW x \in W, NEW y \in T, x <= y PROVE x \in T
    <3>1. y \in ToSet(out) /\ time[y] = ts /\ x \in Rows /\ y \in Rows
      BY <1>2, <1>6, <1>7 DEF AtTS
    <3>2. x \in Held(i)
      <4>1. SegmentStart(i) \in Int /\ time[x] \in Int
        BY <3>1, SegmentFacts, Times
      <4>2. QED
        BY <1>1, <1>2, <4>1 DEF Held, Rest
    <3>3. x \in ToSet(out)
      BY <1>1, <2>1, <3>1, <3>2 DEF ReadTo, Covers, IsDown
    <3>4. ts <= time[x] /\ time[x] <= time[y] /\ time[x] \in Int
      BY <1>2, <2>1, <3>1, Times DEF Rest
    <3>5. time[x] = ts
      BY <1>1, <3>1, <3>4
    <3>6. QED
      BY <1>6, <3>3, <3>5 DEF AtTS
  <2>2. QED
    BY <2>1 DEF IsDown
<1>9. T \subseteq ToSet(rows)
  <2>1. SUFFICES ASSUME NEW z \in T, z \notin ToSet(rows) PROVE FALSE
    OBVIOUS
  <2>2. ToSet(rows) \subseteq T
    <3>1. ASSUME NEW y \in ToSet(rows) PROVE y \in T
      <4>1. y \in Nat /\ z \in Nat /\ y \in W /\ z \in W
        BY <1>2, <1>3, <1>7, RowsAreInts
      <4>2. ~(z <= y)
        BY <1>3, <2>1, <4>1 DEF IsDown
      <4>3. y <= z
        BY <4>1, <4>2
      <4>4. QED
        BY <1>8, <4>1, <4>3 DEF IsDown
    <3>2. QED
      BY <3>1
  <2>3. T \in SUBSET c
    BY <1>1, <1>6 DEF AtTS
  <2>4. IsFiniteSet(T) /\ Cardinality(T) <= Cardinality(c) /\ IsFiniteSet(c) /\ Cardinality(c) <= Limit
    BY <1>1, <2>3, FS_Subset DEF CarriedOK
  <2>5. /\ Cardinality(ToSet(rows)) <= Cardinality(T)
        /\ Cardinality(T) = Cardinality(ToSet(rows)) => T = ToSet(rows)
    BY <2>2, <2>4, FS_Subset
  <2>6. /\ Cardinality(T) \in Nat /\ Cardinality(c) \in Nat /\ Len(rows) \in Nat /\ Limit \in Nat
    BY <1>3, <2>4, FS_CardinalityType, LenProperties, RangeAssumption
  <2>7. Cardinality(T) = Cardinality(ToSet(rows))
    BY <1>3, <2>4, <2>5, <2>6
  <2>8. QED
    BY <2>1, <2>5, <2>7
<1>10. ToSet(rows) = AtTS(ToSet(o), ts)
  BY <1>4, <1>6, <1>9 DEF AtTS
<1>11. PICK k : k = At(rows, ts) /\ k \in SUBSET Rows /\ CarriedOK(k, ts)
  BY <1>1, <1>2, CarriedOfPage
<1>12. OffsetOK(i, ts, 0)
  <2>1. Series(i, 1, ts, ts + 1) \in Seq(Rows)
    BY SeriesFacts
  <2>2. Len(Series(i, 1, ts, ts + 1)) \in Nat
    BY <2>1, LenProperties
  <2>3. QED
    BY <2>2 DEF OffsetOK
<1>13. InFront(i, ts, 0) = {}
  <2>1. SubSeq(Series(i, 1, ts, ts + 1), 1, 0) = <<>>
    BY SubSeqEmpty
  <2>2. ToSet(<<>>) = {}
    BY EmptySeq, ElementsOf
  <2>3. QED
    BY <2>1, <2>2 DEF InFront
<1>14. QED
  BY <1>1, <1>5, <1>10, <1>11, <1>12, <1>13 DEF DenseOK, Reading

\* A page of a dense timestamp adds the rows that were not seen.
DenseResult(i, ts, seen, offset, limit, rows, o) ==
    /\ rows \in Seq(Rows) /\ o \in Seq(Rows) /\ ReadTo(o, i, ts)
    /\ seen \cup ToSet(rows) = AtTS(ToSet(o), ts)
    /\ OffsetOK(i, ts, offset + Len(rows))
    /\ InFront(i, ts, offset + Len(rows)) \subseteq seen \cup ToSet(rows)
    /\ Len(rows) < limit => \A x \in Held(i) : time[x] < ts + 1 => x \in ToSet(o)

LEMMA DenseReads ==
    ASSUME Measurements = {1}, SourceOK, NEW i \in Segments, NEW out, NEW ts, NEW c, NEW seen,
           NEW offset \in Nat, DenseOK(i, out, ts, c, seen, offset), NEW limit \in Nat \ {0},
           NEW rows, rows = Answer(i, Measurements, ts, ts + 1, limit, offset),
           NEW o, o = out \o Without(rows, seen)
    PROVE  DenseResult(i, ts, seen, offset, limit, rows, o)
<1>1. /\ ts \in Int /\ SegmentStart(i) <= ts /\ ts < SegmentEnd(i)
      /\ ReadTo(out, i, ts) /\ out \in Seq(Rows)
      /\ seen = AtTS(ToSet(out), ts)
      /\ OffsetOK(i, ts, offset) /\ InFront(i, ts, offset) \subseteq seen
  BY DEF DenseOK, Reading
<1>2. PICK t \in Int : t = ts
  BY <1>1
<1>3. PICK D : D = Rest(i, t, t + 1) /\ D \subseteq Rows
  BY Times
<1>4. PICK after : after = InFront(i, t, offset + Len(rows))
  OBVIOUS
<1>5. /\ rows \in Seq(Rows) /\ Asc(rows) /\ ToSet(rows) \subseteq D
      /\ OffsetOK(i, t, offset + Len(rows))
      /\ after = InFront(i, t, offset) \cup ToSet(rows)
      /\ IsDown(after, D)
      /\ Len(rows) < limit => after = D
  <2>1. OffsetOK(i, t, offset) /\ rows = Answer(i, Measurements, t, t + 1, limit, offset)
    BY <1>1, <1>2
  <2>2. NextPart(rows, i, t, limit, offset)
    BY <2>1, DensePageFacts
  <2>3. QED
    BY <1>3, <1>4, <2>2 DEF NextPart
<1>6. \A x \in D : x \in Rows /\ time[x] = t /\ x \notin missed[i]
  <2>1. \A x \in D : time[x] \in Int
    BY <1>3, Times
  <2>2. QED
    BY <1>3, <2>1 DEF Rest
<1>7. PICK new \in Seq(Rows) : new = Without(rows, seen) /\ Asc(new) /\ ToSet(new) = ToSet(rows) \ seen
  BY <1>5, WithoutFacts
<1>8. PICK u \in Seq(Rows) : u = out
  BY <1>1
<1>9. SegmentEnd(i) \in Int /\ SegmentStart(i) \in Int
  BY SegmentFacts
<1>10. D \subseteq Rest(i, t, SegmentEnd(i)) /\ D \subseteq Held(i)
  BY <1>1, <1>2, <1>6, <1>9 DEF Rest, Held
<1>11. ToSet(new) \cap ToSet(u) = {}
  <2>1. ASSUME NEW y \in ToSet(new), y \in ToSet(u) PROVE FALSE
    <3>1. time[y] = ts
      BY <1>2, <1>5, <1>6, <1>7
    <3>2. y \in seen
      BY <1>1, <1>8, <2>1, <3>1 DEF AtTS
    <3>3. QED
      BY <1>7, <3>2
  <2>2. QED
    BY <2>1
<1>12. ToSet(u) \cup ToSet(new) = ToSet(u) \cup ToSet(rows)
  BY <1>1, <1>7, <1>8 DEF AtTS
<1>13. IsDown(ToSet(u) \cup ToSet(new), Rest(i, t, SegmentEnd(i)))
  <2>1. ASSUME NEW x \in Rest(i, t, SegmentEnd(i)), NEW y \in ToSet(u) \cup ToSet(rows), x <= y
        PROVE  x \in ToSet(u) \cup ToSet(rows)
    <3>1. x \in Rows /\ x \notin missed[i] /\ time[x] \in Int /\ t <= time[x] /\ time[x] < SegmentEnd(i)
      BY Times DEF Rest
    <3>2. x \in Held(i)
      BY <1>1, <1>2, <1>9, <3>1 DEF Held, Rest
    <3>3. CASE y \in ToSet(u)
      BY <1>1, <1>8, <2>1, <3>2, <3>3 DEF ReadTo, Covers, IsDown
    <3>4. CASE y \in ToSet(rows)
      <4>1. y \in Rows /\ time[y] = t
        BY <1>5, <1>6, <3>4
      <4>2. time[x] <= time[y]
        BY <2>1, <3>1, <4>1, Times
      <4>3. x \in D
        BY <1>3, <3>1, <4>1, <4>2 DEF Rest
      <4>4. x \in after
        BY <1>5, <2>1, <3>4, <4>3 DEF IsDown
      <4>5. QED
        BY <1>1, <1>2, <1>5, <1>8, <4>4 DEF AtTS
    <3>5. QED
      BY <3>3, <3>4
  <2>2. QED
    BY <1>12, <2>1 DEF IsDown
<1>14. u \o new \in Seq(Rows) /\ Covers(u \o new, i) /\ ToSet(u \o new) = ToSet(u) \cup ToSet(new)
  <2>1. SegmentStart(i) <= t /\ ReadTo(u, i, t)
    BY <1>1, <1>2, <1>8
  <2>2. ToSet(new) \subseteq Rest(i, t, SegmentEnd(i))
    BY <1>5, <1>7, <1>10
  <2>3. QED
    BY <1>7, <1>11, <1>13, <2>1, <2>2, ReadMore
<1>15. o = u \o new
  BY <1>7, <1>8
<1>16. o \in Seq(Rows) /\ Covers(o, i) /\ ToSet(o) = ToSet(out) \cup ToSet(rows)
  BY <1>8, <1>12, <1>14, <1>15
<1>17. ReadTo(o, i, ts)
  <2>1. \A x \in ToSet(rows) : time[x] <= ts
    BY <1>1, <1>2, <1>5, <1>6
  <2>2. QED
    BY <1>1, <1>16, <2>1 DEF ReadTo
<1>18. seen \cup ToSet(rows) = AtTS(ToSet(o), ts)
  <2>1. \A x \in ToSet(rows) : time[x] = ts
    BY <1>2, <1>5, <1>6
  <2>2. QED
    BY <1>1, <1>16, <2>1 DEF AtTS
<1>19. after \subseteq seen \cup ToSet(rows)
  BY <1>1, <1>2, <1>5
<1>20. ASSUME Len(rows) < limit, NEW x \in Held(i), time[x] < ts + 1 PROVE x \in ToSet(o)
  <2>1. x \in Rows /\ x \notin missed[i] /\ time[x] \in Int
    BY Times DEF Held, Rest
  <2>2. CASE time[x] < ts
    BY <1>1, <1>16, <2>2 DEF ReadTo
  <2>3. CASE ~(time[x] < ts)
    <3>1. x \in D
      BY <1>2, <1>3, <1>20, <2>1, <2>3 DEF Rest
    <3>2. x \in seen \cup ToSet(rows)
      BY <1>5, <1>19, <1>20, <3>1
    <3>3. QED
      BY <1>16, <1>18, <3>2 DEF AtTS
  <2>4. QED
    BY <2>2, <2>3
<1>21. QED
  BY <1>2, <1>4, <1>5, <1>16, <1>17, <1>18, <1>19, <1>20 DEF DenseResult

LEMMA DenseGoesOn ==
    ASSUME Measurements = {1}, SourceOK, NEW i \in Segments, NEW out, NEW ts, NEW c, NEW seen,
           NEW offset \in Nat, DenseOK(i, out, ts, c, seen, offset), NEW limit \in Nat \ {0},
           NEW rows, rows = Answer(i, Measurements, ts, ts + 1, limit, offset),
           NEW o, o = out \o Without(rows, seen)
    PROVE  DenseOK(i, o, ts, c, seen \cup ToSet(rows), offset + Len(rows))
<1>1. DenseResult(i, ts, seen, offset, limit, rows, o)
  BY DenseReads
<1>2. QED
  BY <1>1 DEF DenseResult, DenseOK, Reading

LEMMA DenseEnds ==
    ASSUME Measurements = {1}, SourceOK, NEW i \in Segments, NEW out, NEW ts, NEW c, NEW seen,
           NEW offset \in Nat, DenseOK(i, out, ts, c, seen, offset), NEW limit \in Nat \ {0},
           NEW rows, rows = Answer(i, Measurements, ts, ts + 1, limit, offset), Len(rows) < limit,
           NEW o, o = out \o Without(rows, seen)
    PROVE  IF ts + 1 < SegmentEnd(i) THEN PageOK(i, o, ts + 1, c) ELSE DoneOK(i, o)
<1>1. /\ o \in Seq(Rows) /\ ReadTo(o, i, ts)
      /\ \A x \in Held(i) : time[x] < ts + 1 => x \in ToSet(o)
  <2>1. DenseResult(i, ts, seen, offset, limit, rows, o)
    BY DenseReads
  <2>2. QED
    BY <2>1 DEF DenseResult
<1>2. PICK t \in Int : t = ts /\ SegmentStart(i) <= t /\ c \in SUBSET Rows /\ CarriedOK(c, t)
  BY DEF DenseOK, Reading
<1>3. SegmentStart(i) \in Int /\ SegmentEnd(i) \in Int
  BY SegmentFacts
<1>4. ToSet(o) \subseteq Rows /\ \A x \in Rows : time[x] \in Int
  BY <1>1, Times, ElementsOf
<1>5. \A x \in ToSet(o) : time[x] <= t
  BY <1>1, <1>2 DEF ReadTo
<1>6. CASE t + 1 < SegmentEnd(i)
  <2>1. PICK n \in Int : n = t + 1 /\ t < n
    OBVIOUS
  <2>2. \A x \in ToSet(o) : time[x] <= n /\ time[x] # n
    BY <1>4, <1>5, <2>1
  <2>3. ReadTo(o, i, n)
    BY <1>1, <1>2, <2>1, <2>2 DEF ReadTo
  <2>4. \A x \in c : time[x] <= n /\ time[x] # n
    <3>1. \A x \in c : time[x] \in Int /\ time[x] <= t
      BY <1>2, <1>4 DEF CarriedOK
    <3>2. QED
      BY <2>1, <3>1
  <2>5. CarriedOK(c, n)
    BY <1>2, <2>4 DEF CarriedOK
  <2>6. AtTS(ToSet(o), n) = {} /\ AtTS(c, n) = {}
    BY <2>2, <2>4 DEF AtTS
  <2>7. SegmentStart(i) <= n /\ n # SegmentStart(i) /\ n < SegmentEnd(i)
    BY <1>2, <1>3, <1>6, <2>1
  <2>8. PageOK(i, o, n, c)
    BY <1>1, <1>2, <2>3, <2>5, <2>6, <2>7 DEF PageOK, Reading
  <2>9. QED
    BY <1>2, <1>6, <2>1, <2>8
<1>7. CASE ~(t + 1 < SegmentEnd(i))
  <2>1. ASSUME NEW x \in Held(i) PROVE x \in ToSet(o)
    <3>1. time[x] \in Int /\ time[x] < SegmentEnd(i)
      BY Times DEF Held, Rest
    <3>2. time[x] < t + 1
      BY <1>3, <1>7, <3>1
    <3>3. QED
      BY <1>1, <1>2, <3>2
  <2>2. DoneOK(i, o)
    BY <1>1, <2>1 DEF DoneOK, ReadTo, Covers
  <2>3. QED
    BY <1>2, <1>7, <2>2
<1>8. QED
  BY <1>6, <1>7

-----------------------------------------------------------------------------
(***************************************************************************)
(* Where segments begin and end.                                           *)
(***************************************************************************)
LEMMA SegmentBounds ==
    \E n \in Nat \ {0}, w \in Nat :
       /\ Segments = 1 .. n /\ w = StepWidth
       /\ \A i \in 1 .. n : /\ SegmentStart(i) \in Int /\ SegmentEnd(i) \in Int
                            /\ Start <= SegmentStart(i) /\ SegmentStart(i) < SegmentEnd(i)
                            /\ SegmentEnd(i) <= End
                            /\ i < n => /\ SegmentStart(i + 1) = SegmentStart(i) + w
                                        /\ SegmentEnd(i) = SegmentStart(i + 1) + 1
                            /\ i = n => SegmentEnd(i) = End
       /\ SegmentStart(1) = Start
       /\ n # 1 => w # 0
<1>1. PICK n \in Nat \ {0} : Segments = 1 .. n /\ (n # 1 => n = ParallelQueries /\ StepWidth # 0)
  BY SegmentFacts
<1>2. PICK w \in Nat : w = StepWidth
  BY SegmentFacts
<1>3. PICK a \in Nat, z \in Nat, p \in Nat \ {0} : a = Start /\ z = End /\ p = ParallelQueries /\ a < z
  BY RangeAssumption
<1>4. w * p <= z - a
  <2>1. z - a \in Nat /\ w = (z - a) \div p
    BY <1>2, <1>3 DEF StepWidth
  <2>2. QED
    BY <1>3, <2>1, DivFacts
<1>5. \A i \in Int : SegmentStart(i) = a + (i - 1) * w
  BY <1>2, <1>3 DEF SegmentStart
<1>6. SegmentStart(1) = a
  <2>1. PICK x \in Int : x = (1 - 1) * w /\ x = 0
    OBVIOUS
  <2>2. QED
    BY <1>3, <1>5, <2>1
<1>7. n # 1 => n * w <= z - a
  <2>1. n # 1 => n * w = w * p
    BY <1>1, <1>3
  <2>2. QED
    BY <1>4, <2>1
<1>8. ASSUME NEW i \in 1 .. n
      PROVE  /\ SegmentStart(i) \in Int /\ SegmentEnd(i) \in Int
             /\ a <= SegmentStart(i) /\ SegmentStart(i) < SegmentEnd(i)
             /\ SegmentEnd(i) <= z
             /\ i < n => /\ SegmentStart(i + 1) = SegmentStart(i) + w
                         /\ SegmentEnd(i) = SegmentStart(i + 1) + 1
             /\ i = n => SegmentEnd(i) = z
  <2>1. PICK x \in Int, y \in Int, t \in Int : x = (i - 1) * w /\ y = i * w /\ t = n * w /\ y = x + w
    BY TimesNext
  <2>2. 0 <= x
    <3>1. 0 * w <= (i - 1) * w /\ 0 * w = 0
      BY TimesMonotone
    <3>2. QED
      BY <2>1, <3>1
  <2>3. SegmentStart(i) = a + x
    BY <1>5, <2>1
  <2>4. CASE i < n
    <3>1. SegmentStart(i + 1) = a + y
      <4>1. i + 1 \in Int /\ (i + 1) - 1 = i
        OBVIOUS
      <4>2. SegmentStart(i + 1) = a + ((i + 1) - 1) * w
        BY <1>5, <4>1
      <4>3. QED
        BY <2>1, <4>1, <4>2
    <3>2. i + 1 \in Segments
      BY <1>1, <2>4
    <3>3. SegmentEnd(i) = a + y + 1
      BY <3>1, <3>2 DEF SegmentEnd
    <3>4. w # 0 /\ t <= z - a
      BY <1>1, <1>2, <1>7, <2>1, <2>4
    <3>5. y + w <= t
      <4>1. (i + 1) * w <= n * w
        BY <2>4, TimesMonotone
      <4>2. (i + 1) * w = i * w + w
        BY TimesNext
      <4>3. QED
        BY <2>1, <4>1, <4>2
    <3>6. /\ a + x \in Int /\ a + y + 1 \in Int /\ a <= a + x /\ a + x < a + y + 1 /\ a + y + 1 <= z
          /\ a + y = a + x + w
      BY <1>3, <2>1, <2>2, <3>4, <3>5
    <3>7. QED
      BY <2>3, <2>4, <3>1, <3>3, <3>6
  <2>5. CASE i = n
    <3>1. i + 1 \notin Segments
      BY <1>1, <2>5
    <3>2. SegmentEnd(i) = z
      BY <1>3, <3>1 DEF SegmentEnd
    <3>3. a + x < z
      <4>1. CASE n = 1
        <5>1. x = 0
          BY <2>1, <2>5, <4>1
        <5>2. QED
          BY <1>3, <5>1
      <4>2. CASE n # 1
        <5>1. w # 0 /\ t <= z - a /\ t = x + w
          BY <1>1, <1>2, <1>7, <2>1, <2>5, <4>2
        <5>2. QED
          BY <1>3, <2>1, <5>1
      <4>3. QED
        BY <4>1, <4>2
    <3>4. a + x \in Int /\ a <= a + x /\ z \in Int
      BY <1>3, <2>1, <2>2
    <3>5. QED
      BY <2>3, <2>5, <3>2, <3>3, <3>4
  <2>6. QED
    BY <2>4, <2>5
<1>9. n # 1 => w # 0
  BY <1>1, <1>2
<1>10. QED
  BY <1>1, <1>2, <1>3, <1>6, <1>8, <1>9, ZenonT(60)

-----------------------------------------------------------------------------
(***************************************************************************)
(* Every segment is read as far as it says.                                *)
(***************************************************************************)
SegInv == \A i \in Segments : SegOK(i, seg[i])

LEMMA Stays ==
    ASSUME UNCHANGED source, NEW CONSTANT i, NEW CONSTANT b, SegOK(i, b)
    PROVE  SegOK(i, b)'
<1>1. time' = time /\ name' = name /\ missed' = missed
  BY DEF source
<1>2. \A s, e : Rest(i, s, e)' = Rest(i, s, e)
  BY <1>1 DEF Rest
<1>3. Held(i)' = Held(i)
  BY <1>1 DEF Held, Rest
<1>4. \A T, ts : AtTS(T, ts)' = AtTS(T, ts)
  BY <1>1 DEF AtTS
<1>5. \A ts : Series(i, 1, ts, ts + 1)' = Series(i, 1, ts, ts + 1)
  BY <1>1 DEF Series
<1>6. ASSUME NEW CONSTANT ts, NEW CONSTANT c, NEW CONSTANT out, Reading(i, out, ts, c) PROVE Reading(i, out, ts, c)'
  BY <1>1, <1>3, <1>6 DEF Reading, ReadTo, Covers, CarriedOK
<1>7. b.pc = "page" => PageOK(i, b.out, b.from, b.carried)'
  BY <1>1, <1>4, <1>6 DEF SegOK, PageOK
<1>8. b.pc = "dense" => DenseOK(i, b.out, b.from, b.carried, b.seen, b.offset)'
  BY <1>1, <1>4, <1>5, <1>6 DEF SegOK, DenseOK, OffsetOK, InFront
<1>9. b.pc = "done" => DoneOK(i, b.out)'
  BY <1>1, <1>3 DEF SegOK, DoneOK
<1>10. QED
  <2>1. (b.pc = "page" => PageOK(i, b.out, b.from, b.carried))'
    BY <1>7
  <2>2. (b.pc = "dense" => DenseOK(i, b.out, b.from, b.carried, b.seen, b.offset))'
    BY <1>8
  <2>3. (b.pc = "done" => DoneOK(i, b.out))'
    BY <1>9
  <2>4. QED
    BY <2>1, <2>2, <2>3 DEF SegOK

LEMMA SegInvInit ==
    ASSUME RangeInit
    PROVE  SegInv
<1> SUFFICES ASSUME NEW i \in Segments PROVE SegOK(i, FirstPage(i))
  BY DEF SegInv, RangeInit
<1>1. PICK s \in Int, e \in Int : s = SegmentStart(i) /\ e = SegmentEnd(i) /\ s < e
  BY SegmentBounds
<1>2. ReadTo(<<>>, i, s)
  <2>1. <<>> \in Seq(Rows) /\ ToSet(<<>>) = {}
    BY EmptySeq, ElementsOf
  <2>2. Asc(<<>>)
    BY <2>1, EmptySeq DEF Asc
  <2>3. \A x \in Held(i) : ~(time[x] < s)
    <3>1. SourceOK
      BY RangeInvInit DEF RangeInv
    <3>2. \A x \in Held(i) : x \in Rows /\ s <= time[x]
      BY <1>1 DEF Held, Rest
    <3>3. \A x \in Rows : time[x] \in Int
      BY <3>1, Times
    <3>4. QED
      BY <3>2, <3>3
  <2>4. QED
    BY <2>1, <2>2, <2>3 DEF ReadTo, Covers, IsDown
<1>3. CarriedOK({}, s)
  <2>1. IsFiniteSet({}) /\ Cardinality({}) = 0
    BY FS_EmptySet
  <2>2. 0 <= Limit
    BY RangeAssumption
  <2>3. QED
    BY <2>1, <2>2 DEF CarriedOK
<1>4. Reading(i, <<>>, s, {})
  BY <1>1, <1>2, <1>3, EmptySeq DEF Reading
<1>5. AtTS(ToSet(<<>>), s) = AtTS({}, s)
  BY EmptySeq, ElementsOf
<1>6. PageOK(i, <<>>, s, {})
  BY <1>4, <1>5 DEF PageOK
<1>7. /\ FirstPage(i).pc = "page" /\ FirstPage(i).out = <<>> /\ FirstPage(i).from = s
      /\ FirstPage(i).carried = {}
  BY <1>1 DEF FirstPage
<1>8. QED
  BY <1>6, <1>7 DEF SegOK

LEMMA PageKeeps ==
    ASSUME Measurements = {1}, RangeInv, SegInv, NEW i \in Segments, Page(i)
    PROVE  \E d \in SegRecs : seg' = [seg EXCEPT ![i] = d] /\ SegOK(i, d)
<1>1. PICK rows \in Seq(Rows), d \in SegRecs :
          /\ rows = Answer(i, Asked, seg[i].from, SegmentEnd(i), Limit, 0)
          /\ seg' = [seg EXCEPT ![i] = d]
          /\ d.out = seg[i].out \o Fresh(i, rows)
          /\ d.carried = IF rows = <<>> THEN seg[i].carried ELSE At(rows, time[Last(rows)])
          /\ PageDone(seg[i], d, rows) \/ PageDense(seg[i], d, rows) \/ PageNext(seg[i], d, rows)
  BY PageOutcome
<1>2. PICK b \in SegRecs : b = seg[i] /\ b.pc = "page" /\ SegOK(i, b)
  BY DEF RangeInv, SegTyped, SegInv, Page
<1>3. PICK out \in Seq(Rows), ts \in Int, c \in SUBSET Rows : out = b.out /\ ts = b.from /\ c = b.carried
  BY DEF SegRecs
<1>4. SourceOK /\ PageOK(i, out, ts, c)
  BY <1>2, <1>3 DEF RangeInv, SegOK
<1>5. FirstPart(rows, Rest(i, ts, SegmentEnd(i)), Limit)
  BY <1>1, <1>2, <1>3, <1>4, FirstPageFacts
<1>6. PICK new : new = Without(rows, {r \in c : time[r] = ts /\ ts # SegmentStart(i)})
  OBVIOUS
<1>7. Fresh(i, rows) = new
  BY <1>2, <1>3, <1>6 DEF Fresh
<1>8. PICK o : o = out \o new /\ o = d.out
  BY <1>1, <1>2, <1>3, <1>7
<1>9. o \in Seq(Rows) /\ Covers(o, i) /\ ToSet(o) = ToSet(out) \cup ToSet(rows)
  <2>1. /\ out \o new \in Seq(Rows) /\ Covers(out \o new, i)
        /\ ToSet(out \o new) = ToSet(out) \cup ToSet(rows)
    BY <1>4, <1>5, <1>6, PageReads
  <2>2. QED
    BY <1>8, <2>1
<1>10. SegOK(i, d)
  <2>1. CASE PageDone(b, d, rows)
    <3>1. DoneOK(i, o)
      BY <1>4, <1>5, <1>9, <2>1, PageToDone DEF PageDone
    <3>2. d.pc = "done"
      BY <2>1 DEF PageDone
    <3>3. QED
      BY <1>8, <3>1, <3>2 DEF SegOK
  <2>2. CASE PageDense(b, d, rows)
    <3>1. /\ rows # <<>> /\ ~(Len(rows) < Limit) /\ time[Last(rows)] = ts
          /\ d.pc = "dense" /\ d.from = ts /\ d.seen = ToSet(rows) /\ d.offset = 0
      BY <1>3, <2>2 DEF PageDense
    <3>2. DenseOK(i, o, ts, At(rows, time[Last(rows)]), ToSet(rows), 0)
      BY <1>4, <1>5, <1>9, <3>1, PageToDense
    <3>3. d.carried = At(rows, time[Last(rows)])
      BY <1>1, <3>1
    <3>4. QED
      BY <1>8, <3>1, <3>2, <3>3 DEF SegOK
  <2>3. CASE PageNext(b, d, rows)
    <3>1. /\ rows # <<>> /\ time[Last(rows)] # ts
          /\ d.pc \in {"page", "failed"} /\ d.from = time[Last(rows)]
      BY <1>3, <2>3 DEF PageNext
    <3>2. PageOK(i, o, time[Last(rows)], At(rows, time[Last(rows)]))
      BY <1>4, <1>5, <1>9, <3>1, PageToNext
    <3>3. d.carried = At(rows, time[Last(rows)])
      BY <1>1, <3>1
    <3>4. QED
      BY <1>8, <3>1, <3>2, <3>3 DEF SegOK
  <2>4. QED
    BY <1>1, <1>2, <2>1, <2>2, <2>3
<1>11. QED
  BY <1>1, <1>10

LEMMA DenseKeeps ==
    ASSUME Measurements = {1}, RangeInv, SegInv, NEW i \in Segments, DensePage(i)
    PROVE  \E d \in SegRecs : seg' = [seg EXCEPT ![i] = d] /\ SegOK(i, d)
<1>1. PICK rows \in Seq(Rows), d \in SegRecs, limit \in Nat \ {0}, ts \in Int :
          /\ ts = seg[i].from
          /\ rows = Answer(i, Measurements, ts, ts + 1, limit, seg[i].offset)
          /\ seg' = [seg EXCEPT ![i] = d]
          /\ d.out = seg[i].out \o Without(rows, seg[i].seen)
          /\ d.seen = seg[i].seen \cup ToSet(rows) /\ d.carried = seg[i].carried
          /\ d.pages = seg[i].pages
          /\ d.offset = seg[i].offset + Len(rows)
          /\ IF Len(rows) < limit
             THEN d.from = ts + 1 /\ d.pc = Continue(i, ts + 1)
             ELSE d.from = ts /\ d.pc = "dense"
  BY DenseOutcome
<1>2. PICK b \in SegRecs : b = seg[i] /\ b.pc = "dense" /\ SegOK(i, b)
  BY DEF RangeInv, SegTyped, SegInv, DensePage
<1>3. PICK out \in Seq(Rows), c \in SUBSET Rows, seen \in SUBSET Rows, offset \in Nat :
          out = b.out /\ c = b.carried /\ seen = b.seen /\ offset = b.offset
  BY DEF SegRecs
<1>4. SourceOK /\ DenseOK(i, out, ts, c, seen, offset)
  BY <1>1, <1>2, <1>3 DEF RangeInv, SegOK
<1>5. rows = Answer(i, Measurements, ts, ts + 1, limit, offset)
  BY <1>1, <1>2, <1>3
<1>6. PICK o : o = out \o Without(rows, seen) /\ o = d.out
  BY <1>1, <1>2, <1>3
<1>7. SegOK(i, d)
  <2>1. CASE Len(rows) < limit
    <3>1. IF ts + 1 < SegmentEnd(i) THEN PageOK(i, o, ts + 1, c) ELSE DoneOK(i, o)
      BY <1>4, <1>5, <1>6, <2>1, DenseEnds
    <3>2. /\ d.from = ts + 1 /\ d.carried = c
          /\ d.pc = IF ts + 1 < SegmentEnd(i) THEN "page" ELSE "done"
      BY <1>1, <1>2, <1>3, <2>1 DEF Continue
    <3>3. QED
      BY <1>6, <3>1, <3>2 DEF SegOK
  <2>2. CASE ~(Len(rows) < limit)
    <3>1. DenseOK(i, o, ts, c, seen \cup ToSet(rows), offset + Len(rows))
      BY <1>4, <1>5, <1>6, DenseGoesOn
    <3>2. /\ d.from = ts /\ d.pc = "dense" /\ d.carried = c /\ d.seen = seen \cup ToSet(rows)
          /\ d.offset = offset + Len(rows)
      BY <1>1, <1>2, <1>3, <2>2
    <3>3. QED
      BY <1>6, <3>1, <3>2 DEF SegOK
  <2>3. QED
    BY <2>1, <2>2
<1>8. QED
  BY <1>1, <1>7

LEMMA SegInvStep ==
    ASSUME Measurements = {1}, RangeInv, SegInv, RangeStep
    PROVE  SegInv'
<1>1. PICK i \in Segments : Page(i) \/ DensePage(i) \/ QueryFails(i)
  BY DEF RangeStep
<1>2. UNCHANGED source
  BY <1>1 DEF Page, DensePage, QueryFails
<1>3. \E d : seg' = [seg EXCEPT ![i] = d] /\ SegOK(i, d)
  <2>1. CASE Page(i)
    BY <2>1, PageKeeps, Zenon
  <2>2. CASE DensePage(i)
    BY <2>2, DenseKeeps, Zenon
  <2>3. CASE QueryFails(i)
    <3>1. PICK b \in SegRecs : b = seg[i]
      BY DEF RangeInv, SegTyped
    <3>2. PICK d : d = [b EXCEPT !.pc = "failed"] /\ d.pc = "failed"
      <4>1. [b EXCEPT !.pc = "failed"].pc = "failed"
        BY DEF SegRecs
      <4>2. QED
        BY <4>1
    <3>3. seg' = [seg EXCEPT ![i] = d]
      BY <2>3, <3>1, <3>2 DEF QueryFails
    <3>4. SegOK(i, d)
      BY <3>2 DEF SegOK
    <3>5. QED
      BY <3>3, <3>4
  <2>4. QED
    BY <1>1, <2>1, <2>2, <2>3
<1>4. PICK d : seg' = [seg EXCEPT ![i] = d] /\ SegOK(i, d)
  BY <1>3
<1>5. ASSUME NEW j \in Segments PROVE SegOK(j, seg[j])'
  <2>1. PICK b : b = seg'[j] /\ SegOK(j, b)
    BY <1>4 DEF SegInv, RangeInv, SegTyped
  <2>2. SegOK(j, b)'
    BY <1>2, <2>1, Stays
  <2>3. QED
    BY <2>1, <2>2 DEF SegOK
<1>6. QED
  BY <1>5 DEF SegInv, Segments, StepWidth

-----------------------------------------------------------------------------
(***************************************************************************)
(* The segments joined: rows in the order of time, each of them once.      *)
(***************************************************************************)
LEMMA InOrderAsc ==
    ASSUME SourceOK, NEW s \in Seq(Rows), Asc(s)
    PROVE  InOrder(s)
<1>1. PICK n \in Nat : n = Len(s) /\ DOMAIN s = 1 .. n
  BY ElementsOf
<1>2. ASSUME NEW i \in 1 .. n, NEW j \in 1 .. n, i < j
      PROVE  s[i] # s[j] /\ time[s[i]] <= time[s[j]]
  <2>1. s[i] < s[j]
    BY <1>1, <1>2 DEF Asc
  <2>2. s[i] \in Rows /\ s[j] \in Rows
    BY <1>1, ElementOfSeq
  <2>3. PICK x \in Rows, y \in Rows : x = s[i] /\ y = s[j] /\ x \in Nat /\ y \in Nat
    BY <2>2, RowsAreInts
  <2>4. x < y
    BY <2>1, <2>3
  <2>5. x # y /\ x <= y
    BY <2>3, <2>4
  <2>6. time[x] <= time[y]
    BY <2>5, Times
  <2>7. QED
    BY <2>3, <2>5, <2>6
<1>3. QED
  BY <1>1, <1>2 DEF InOrder

LEMMA InOrderConcat ==
    ASSUME NEW s \in Seq(Rows), NEW t \in Seq(Rows), InOrder(s), InOrder(t),
           \A x \in ToSet(s), y \in ToSet(t) : x # y /\ time[x] <= time[y]
    PROVE  InOrder(s \o t)
<1>1. PICK u \in Seq(Rows) : u = s \o t
  BY ConcatProperties
<1>2. PICK n \in Nat, m \in Nat : n = Len(s) /\ m = Len(t)
  BY LenProperties
<1>3. Len(u) = n + m /\ \A i \in 1 .. n + m : u[i] = IF i <= n THEN s[i] ELSE t[i - n]
  BY <1>1, <1>2, ConcatProperties
<1>4. /\ DOMAIN s = 1 .. n /\ DOMAIN t = 1 .. m /\ DOMAIN u = 1 .. n + m
      /\ ToSet(s) = {s[i] : i \in 1 .. n} /\ ToSet(t) = {t[i] : i \in 1 .. m}
  BY <1>2, <1>3, ElementsOf
<1>5. ASSUME NEW i \in 1 .. n + m, NEW j \in 1 .. n + m, i < j
      PROVE  u[i] # u[j] /\ time[u[i]] <= time[u[j]]
  <2>1. CASE j <= n
    <3>1. i \in 1 .. n /\ j \in 1 .. n /\ u[i] = s[i] /\ u[j] = s[j]
      BY <1>3, <1>5, <2>1
    <3>2. s[i] # s[j] /\ time[s[i]] <= time[s[j]]
      BY <1>4, <1>5, <3>1 DEF InOrder
    <3>3. QED
      BY <3>1, <3>2
  <2>2. CASE ~(j <= n) /\ i <= n
    <3>1. i \in 1 .. n /\ j - n \in 1 .. m /\ u[i] = s[i] /\ u[j] = t[j - n]
      BY <1>3, <1>5, <2>2
    <3>2. PICK x \in ToSet(s), y \in ToSet(t) : x = u[i] /\ y = u[j]
      BY <1>4, <3>1
    <3>3. QED
      BY <3>2
  <2>3. CASE ~(j <= n) /\ ~(i <= n)
    <3>1. PICK k \in 1 .. m, l \in 1 .. m : k < l /\ u[i] = t[k] /\ u[j] = t[l]
      <4>1. i - n \in 1 .. m /\ j - n \in 1 .. m /\ i - n < j - n
        BY <1>5, <2>3
      <4>2. u[i] = t[i - n] /\ u[j] = t[j - n]
        BY <1>3, <2>3
      <4>3. QED
        BY <4>1, <4>2
    <3>2. t[k] # t[l] /\ time[t[k]] <= time[t[l]]
      BY <1>4, <3>1 DEF InOrder
    <3>3. QED
      BY <3>1, <3>2
  <2>4. QED
    BY <2>1, <2>2, <2>3
<1>6. InOrder(u)
  BY <1>4, <1>5 DEF InOrder
<1>7. QED
  BY <1>1, <1>6

LEMMA TailElements ==
    ASSUME NEW s \in Seq(Rows), NEW a \in Nat, a <= Len(s)
    PROVE  ToSet(SubSeq(s, a + 1, Len(s))) = {s[k] : k \in a + 1 .. Len(s)}
<1>1. PICK n \in Nat : n = Len(s)
  BY LenProperties
<1>2. PICK u \in Seq(Rows), m \in Nat :
          u = SubSeq(s, a + 1, n) /\ m = n - a /\ Len(u) = m /\ \A i \in 1 .. m : u[i] = s[a + i]
  <2>1. a + 1 \in Nat \ {0} /\ n - a \in Nat
    BY <1>1
  <2>2. /\ SubSeq(s, a + 1, n) \in Seq(Rows)
        /\ Len(SubSeq(s, a + 1, n)) = IF a + 1 <= n THEN n - (a + 1) + 1 ELSE 0
        /\ \A i \in 1 .. n - (a + 1) + 1 : SubSeq(s, a + 1, n)[i] = s[(a + 1) + i - 1]
    BY <1>1, <2>1, PartOf
  <2>3. (IF a + 1 <= n THEN n - (a + 1) + 1 ELSE 0) = n - a
    BY <1>1
  <2>4. \A i \in 1 .. n - a : i \in 1 .. n - (a + 1) + 1 /\ (a + 1) + i - 1 = a + i
    BY <1>1
  <2>5. \A i \in 1 .. n - a : SubSeq(s, a + 1, n)[i] = s[a + i]
    BY <2>2, <2>4
  <2>6. PICK u \in Seq(Rows) : u = SubSeq(s, a + 1, n) /\ Len(u) = n - a
    BY <2>2, <2>3
  <2>7. QED
    BY <2>1, <2>5, <2>6
<1>3. ToSet(u) = {u[i] : i \in 1 .. m}
  BY <1>2, ElementsOf
<1>4. ASSUME NEW i \in 1 .. m PROVE u[i] \in {s[k] : k \in a + 1 .. n}
  <2>1. a + i \in a + 1 .. n
    BY <1>1, <1>2
  <2>2. QED
    BY <1>2, <2>1
<1>5. ASSUME NEW k \in a + 1 .. n PROVE s[k] \in {u[i] : i \in 1 .. m}
  <2>1. PICK i \in 1 .. m : a + i = k
    <3>1. k - a \in 1 .. m /\ a + (k - a) = k
      BY <1>1, <1>2
    <3>2. QED
      BY <3>1
  <2>2. u[i] = s[k]
    BY <1>2, <2>1
  <2>3. QED
    BY <2>2
<1>6. ToSet(u) = {s[k] : k \in a + 1 .. n}
  BY <1>3, <1>4, <1>5
<1>7. QED
  BY <1>1, <1>2, <1>6

LEMMA AscHead ==
    ASSUME NEW s \in Seq(Rows), Asc(s), NEW h \in Nat, h <= Len(s)
    PROVE  Asc(SubSeq(s, 1, h)) /\ ToSet(SubSeq(s, 1, h)) = {s[k] : k \in 1 .. h}
<1>1. PICK o \in Nat : o = 0 /\ o <= h
  OBVIOUS
<1>2. Asc(SubSeq(s, o + 1, h)) /\ ToSet(SubSeq(s, o + 1, h)) = {s[k] : k \in o + 1 .. h}
  <2>1. o <= h
    BY <1>1
  <2>2. QED
    BY <2>1, AscPart
<1>3. o + 1 = 1
  BY <1>1
<1>4. QED
  BY <1>2, <1>3

LEMMA AscTail ==
    ASSUME NEW s \in Seq(Rows), Asc(s), NEW h \in Nat, h <= Len(s)
    PROVE  Asc(SubSeq(s, h + 1, Len(s))) /\ ToSet(SubSeq(s, h + 1, Len(s))) = {s[k] : k \in h + 1 .. Len(s)}
<1>1. PICK n \in Nat : n = Len(s)
  BY LenProperties
<1>2. h <= n /\ n <= Len(s)
  BY <1>1
<1>3. Asc(SubSeq(s, h + 1, n)) /\ ToSet(SubSeq(s, h + 1, n)) = {s[k] : k \in h + 1 .. n}
  BY <1>2, AscPart
<1>4. QED
  BY <1>1, <1>3

\* What the segment before has at the boundary is left out of the next one, and nothing else.
LEMMA JoinOrdered ==
    ASSUME SourceOK, NEW all \in Seq(Rows), InOrder(all), NEW rows \in Seq(Rows), Asc(rows),
           NEW b \in Int, \A x \in ToSet(all) : time[x] <= b, \A y \in ToSet(rows) : b <= time[y]
    PROVE  /\ InOrder(Join(all, rows, b))
           /\ ToSet(Join(all, rows, b)) = ToSet(all) \cup ToSet(rows)
<1>1. PICK l \in Nat, h \in Nat, tail \in Seq(Rows), head \in Seq(Rows),
           rest \in Seq(Rows), new \in Seq(Rows) : JoinsAt(all, rows, b, l, h, tail, head, rest, new)
  BY JoinParts
<1>2. PICK n \in Nat, m \in Nat : n = Len(all) /\ m = Len(rows)
  BY LenProperties
<1>3. /\ l <= n /\ h <= m
      /\ tail = SubSeq(all, l + 1, n) /\ head = SubSeq(rows, 1, h) /\ rest = SubSeq(rows, h + 1, m)
      /\ new = Without(head, ToSet(tail)) /\ Join(all, rows, b) = (all \o new) \o rest
      /\ \A k \in 1 .. n : l < k => time[all[k]] = b
      /\ l # 0 => time[all[l]] # b
      /\ \A k \in 1 .. h : time[rows[k]] = b
      /\ h # m => time[rows[h + 1]] # b
  BY <1>1, <1>2 DEF JoinsAt
<1>4. /\ DOMAIN all = 1 .. n /\ ToSet(all) = {all[k] : k \in 1 .. n} /\ ToSet(all) \subseteq Rows
      /\ ToSet(rows) = {rows[k] : k \in 1 .. m} /\ ToSet(rows) \subseteq Rows
  BY <1>2, ElementsOf
<1>5. \A r \in Rows : time[r] \in Int
  BY Times
<1>6. ToSet(tail) = {x \in ToSet(all) : time[x] = b}
  <2>1. ToSet(tail) = {all[k] : k \in l + 1 .. n}
    BY <1>2, <1>3, TailElements
  <2>2. ASSUME NEW k \in l + 1 .. n PROVE all[k] \in ToSet(all) /\ time[all[k]] = b
    <3>1. k \in 1 .. n /\ l < k
      OBVIOUS
    <3>2. QED
      BY <1>3, <1>4, <3>1
  <2>3. ASSUME NEW k \in 1 .. n, time[all[k]] = b PROVE l < k
    <3>1. SUFFICES ASSUME k <= l PROVE FALSE
      OBVIOUS
    <3>2. l # 0 /\ l \in 1 .. n
      <4>1. l <= n
        BY <1>3
      <4>2. QED
        BY <3>1, <4>1
    <3>3. time[all[l]] # b /\ l # k
      BY <1>3, <2>3, <3>2
    <3>4. k < l
      BY <3>1, <3>3
    <3>5. time[all[k]] <= time[all[l]]
      BY <1>4, <3>2, <3>4 DEF InOrder
    <3>6. all[l] \in ToSet(all)
      BY <1>4, <3>2
    <3>7. time[all[l]] <= b /\ time[all[l]] \in Int
      BY <1>4, <1>5, <3>6
    <3>8. PICK t \in Int : t = time[all[l]] /\ b <= t /\ t <= b /\ t # b
      BY <2>3, <3>3, <3>5, <3>7
    <3>9. QED
      BY <3>8
  <2>4. ASSUME NEW x \in ToSet(all), time[x] = b PROVE x \in {all[k] : k \in l + 1 .. n}
    <3>1. PICK k \in 1 .. n : x = all[k]
      BY <1>4
    <3>2. l < k
      BY <2>3, <2>4, <3>1
    <3>3. k \in l + 1 .. n
      BY <3>2
    <3>4. QED
      BY <3>1, <3>3
  <2>5. QED
    BY <2>1, <2>2, <2>4
<1>7. Asc(head) /\ ToSet(head) = {rows[k] : k \in 1 .. h}
  BY <1>2, <1>3, AscHead
<1>8. Asc(rest) /\ ToSet(rest) = {rows[k] : k \in h + 1 .. m}
  BY <1>2, <1>3, AscTail
<1>9. ToSet(rows) = ToSet(head) \cup ToSet(rest)
  <2>1. \A k : k \in 1 .. m <=> (k \in 1 .. h \/ k \in h + 1 .. m)
    BY <1>3
  <2>2. QED
    BY <1>4, <1>7, <1>8, <2>1
<1>10. \A y \in ToSet(head) : time[y] = b
  BY <1>3, <1>7
<1>11. ASSUME NEW y \in ToSet(rest) PROVE b < time[y]
  <2>1. PICK k \in h + 1 .. m : y = rows[k]
    BY <1>8
  <2>2. h # m /\ h + 1 \in 1 .. m /\ k \in 1 .. m
    BY <1>3
  <2>3. PICK x \in ToSet(rows) : x = rows[h + 1]
    BY <1>4, <2>2
  <2>4. time[x] # b
    BY <1>3, <2>2, <2>3
  <2>5. x <= y
    <3>1. h + 1 < k => rows[h + 1] < rows[k]
      BY <1>2, <2>2 DEF Asc
    <3>2. x \in Nat /\ y \in Nat
      BY <1>4, <1>9, RowsAreInts
    <3>3. h + 1 = k \/ h + 1 < k
      OBVIOUS
    <3>4. QED
      BY <2>1, <2>3, <3>1, <3>2, <3>3
  <2>6. time[x] <= time[y] /\ b <= time[x]
    BY <1>4, <1>9, <2>5, Times
  <2>7. PICK s \in Int, t \in Int : s = time[x] /\ t = time[y]
    BY <1>4, <1>5, <1>9
  <2>8. QED
    BY <2>4, <2>6, <2>7
<1>12. Asc(new) /\ ToSet(new) = ToSet(head) \ ToSet(tail)
  BY <1>3, <1>7, WithoutFacts
<1>13. PICK u \in Seq(Rows) : u = all \o new
  BY ConcatProperties
<1>14. InOrder(u) /\ ToSet(u) = ToSet(all) \cup ToSet(new)
  <2>1. ASSUME NEW x \in ToSet(all), NEW y \in ToSet(new) PROVE x # y /\ time[x] <= time[y]
    <3>1. time[y] = b /\ y \notin ToSet(tail)
      BY <1>10, <1>12
    <3>2. QED
      BY <1>6, <3>1
  <2>2. InOrder(new)
    BY <1>12, InOrderAsc
  <2>3. QED
    BY <1>13, <2>1, <2>2, InOrderConcat, ToSetConcat
<1>15. InOrder(u \o rest) /\ ToSet(u \o rest) = ToSet(u) \cup ToSet(rest)
  <2>1. ASSUME NEW x \in ToSet(u), NEW y \in ToSet(rest) PROVE x # y /\ time[x] <= time[y]
    <3>1. x \in Rows /\ y \in Rows /\ time[x] <= b
      <4>1. x \in ToSet(all) \/ x \in ToSet(head)
        BY <1>12, <1>14
      <4>2. x \in Rows /\ y \in Rows
        BY <1>4, <1>9, <4>1
      <4>3. b <= b
        OBVIOUS
      <4>4. QED
        BY <1>10, <4>1, <4>2, <4>3
    <3>2. PICK s \in Int, t \in Int : s = time[x] /\ t = time[y]
      BY <1>5, <3>1
    <3>3. s <= b /\ b < t
      BY <1>11, <3>1, <3>2
    <3>4. s # t /\ s <= t
      BY <3>3
    <3>5. QED
      BY <3>2, <3>4
  <2>2. InOrder(rest)
    BY <1>8, InOrderAsc
  <2>3. QED
    BY <1>14, <2>1, <2>2, InOrderConcat, ToSetConcat
<1>16. ToSet(u \o rest) = ToSet(all) \cup ToSet(rows)
  BY <1>6, <1>9, <1>12, <1>14, <1>15
<1>17. QED
  BY <1>3, <1>13, <1>15, <1>16

\* The segments joined so far: what they hold, all of it before the next boundary.
JoinedTo(g, n, i) ==
    /\ InOrder(g[i]) /\ ToSet(g[i]) = UNION {Held(j) : j \in 1 .. i}
    /\ i < n => \A x \in ToSet(g[i]) : time[x] <= SegmentStart(i + 1)

LEMMA JoinedNext ==
    ASSUME SourceOK, SegTyped, NEW n \in Nat \ {0}, Segments = 1 .. n,
           \A j \in 1 .. n : DoneOK(j, seg[j].out),
           NEW g, MergesTo(g, n), NEW k \in Nat, k + 1 <= n, JoinedTo(g, n, k)
    PROVE  JoinedTo(g, n, k + 1)
<1>1. PICK i \in 1 .. n : i = k + 1 /\ i \in Segments /\ i # 0 /\ i \in 0 .. n /\ i - 1 = k /\ k < n
  OBVIOUS
<1>2. PICK all \in Seq(Rows) : all = g[k]
  <2>1. k \in 0 .. n
    OBVIOUS
  <2>2. QED
    BY <2>1 DEF MergesTo
<1>3. PICK rows \in Seq(Rows) : rows = seg[i].out
  BY <1>1 DEF SegTyped, SegRecs
<1>4. /\ SegmentStart(i) \in Int /\ SegmentEnd(i) \in Int
      /\ i < n => SegmentStart(i + 1) \in Int /\ SegmentStart(i) <= SegmentStart(i + 1)
                  /\ SegmentEnd(i) = SegmentStart(i + 1) + 1
  <2>1. PICK n1 \in Nat \ {0}, w \in Nat :
           /\ Segments = 1 .. n1
           /\ \A q \in 1 .. n1 : /\ SegmentStart(q) \in Int /\ SegmentEnd(q) \in Int
                                 /\ q < n1 => /\ SegmentStart(q + 1) = SegmentStart(q) + w
                                              /\ SegmentEnd(q) = SegmentStart(q + 1) + 1
    BY SegmentBounds
  <2>2. n1 = n
    BY <2>1
  <2>3. PICK b \in Int, e \in Int : b = SegmentStart(i) /\ e = SegmentEnd(i)
    BY <1>1, <2>1
  <2>4. i < n => SegmentStart(i + 1) = b + w /\ e = SegmentStart(i + 1) + 1
    BY <1>1, <2>1, <2>2, <2>3
  <2>5. b + w \in Int /\ b <= b + w
    OBVIOUS
  <2>6. QED
    BY <2>3, <2>4, <2>5
<1>5. PICK b \in Int : b = SegmentStart(i)
  BY <1>4
<1>6. g[i] = Join(all, rows, b)
  <2>1. g[i] = IF i = 0 THEN <<>> ELSE Join(g[i - 1], seg[i].out, SegmentStart(i))
    BY <1>1 DEF MergesTo, Merges
  <2>2. QED
    BY <1>1, <1>2, <1>3, <1>5, <2>1
<1>7. Asc(rows) /\ ToSet(rows) = Held(i)
  BY <1>1, <1>3 DEF DoneOK
<1>8. /\ InOrder(all) /\ ToSet(all) = UNION {Held(j) : j \in 1 .. k}
      /\ \A x \in ToSet(all) : time[x] <= b
  BY <1>1, <1>2, <1>5 DEF JoinedTo
<1>9. \A y \in ToSet(rows) : y \in Rows /\ b <= time[y] /\ time[y] < SegmentEnd(i)
  BY <1>5, <1>7 DEF Held, Rest
<1>10. InOrder(Join(all, rows, b)) /\ ToSet(Join(all, rows, b)) = ToSet(all) \cup ToSet(rows)
  BY <1>7, <1>8, <1>9, JoinOrdered
<1>11. InOrder(g[i]) /\ ToSet(g[i]) = ToSet(all) \cup ToSet(rows)
  BY <1>6, <1>10
<1>12. ToSet(g[i]) = UNION {Held(j) : j \in 1 .. i}
  <2>1. \A j : j \in 1 .. i <=> (j \in 1 .. k \/ j = i)
    BY <1>1
  <2>2. QED
    BY <1>7, <1>8, <1>11, <2>1
<1>13. ASSUME i < n, NEW x \in ToSet(g[i]) PROVE time[x] <= SegmentStart(i + 1)
  <2>1. PICK c \in Int : c = SegmentStart(i + 1) /\ b <= c /\ SegmentEnd(i) = c + 1
    BY <1>4, <1>5, <1>13
  <2>2. x \in Rows
    BY <1>9, <1>11, ElementsOf
  <2>3. PICK t \in Int : t = time[x]
    BY <2>2, Times
  <2>4. t <= b \/ t < c + 1
    BY <1>8, <1>9, <1>11, <2>1, <2>3
  <2>5. t <= c
    BY <2>1, <2>4
  <2>6. QED
    BY <2>1, <2>3, <2>5
<1>14. QED
  BY <1>1, <1>11, <1>12, <1>13 DEF JoinedTo

LEMMA MergedHolds ==
    ASSUME SourceOK, SegTyped, \A j \in Segments : DoneOK(j, seg[j].out)
    PROVE  InOrder(Merged) /\ ToSet(Merged) = UNION {Held(j) : j \in Segments}
<1>0. PICK n \in Nat \ {0} : \E g : Segments = 1 .. n /\ MergesTo(g, n) /\ Merged = g[n]
  BY MergedFunction
<1>1. PICK g : Segments = 1 .. n /\ MergesTo(g, n) /\ Merged = g[n]
  BY <1>0
<1> DEFINE T == {k \in Nat : k <= n => JoinedTo(g, n, k)}
<1>2. 0 \in T
  <2>1. g[0] = <<>>
    <3>1. 0 \in 0 .. n
      OBVIOUS
    <3>2. QED
      BY <1>1, <3>1 DEF MergesTo, Merges
  <2>2. ToSet(<<>>) = {} /\ DOMAIN <<>> = {}
    <3>1. PICK s \in Seq(Rows) : s = <<>>
      BY EmptySeq
    <3>2. Len(s) = 0 /\ 1 .. 0 = {}
      BY <3>1, EmptySeq
    <3>3. ToSet(s) = {} /\ DOMAIN s = 1 .. Len(s)
      BY <3>1, ElementsOf
    <3>4. QED
      BY <3>1, <3>2, <3>3
  <2>3. UNION {Held(j) : j \in 1 .. 0} = {}
    OBVIOUS
  <2>4. JoinedTo(g, n, 0)
    BY <2>1, <2>2, <2>3 DEF JoinedTo, InOrder
  <2>5. QED
    BY <2>4
<1>3. ASSUME NEW k \in Nat, k \in T PROVE k + 1 \in T
  <2>1. ASSUME k + 1 <= n PROVE JoinedTo(g, n, k + 1)
    <3>1. JoinedTo(g, n, k)
      BY <1>3, <2>1
    <3>2. \A j \in 1 .. n : DoneOK(j, seg[j].out)
      BY <1>1
    <3>3. QED
      BY <1>1, <2>1, <3>1, <3>2, JoinedNext
  <2>2. QED
    BY <2>1
<1>4. Nat \subseteq T
  <2> HIDE DEF T
  <2>1. QED
    BY <1>2, <1>3, Induction
<1>5. JoinedTo(g, n, n)
  BY <1>4
<1>6. QED
  BY <1>1, <1>5 DEF JoinedTo

-----------------------------------------------------------------------------
(***************************************************************************)
(* What the segments hold together is what the window has.  A row that a   *)
(* segment leaves out at its edge is held by the one before.               *)
(***************************************************************************)
LEMMA HeldTogether ==
    ASSUME Measurements = {1}, SourceOK
    PROVE  UNION {Held(j) : j \in Segments} = Due
<1>1. PICK n \in Nat \ {0}, w \in Nat :
         /\ Segments = 1 .. n
         /\ \A i \in 1 .. n : /\ SegmentStart(i) \in Int /\ SegmentEnd(i) \in Int
                              /\ Start <= SegmentStart(i) /\ SegmentStart(i) < SegmentEnd(i)
                              /\ SegmentEnd(i) <= End
                              /\ i < n => /\ SegmentStart(i + 1) = SegmentStart(i) + w
                                          /\ SegmentEnd(i) = SegmentStart(i + 1) + 1
                              /\ i = n => SegmentEnd(i) = End
         /\ SegmentStart(1) = Start
  BY SegmentBounds
<1>2. PICK a \in Int, z \in Int : a = Start /\ z = End
  BY RangeAssumption
<1>3. Asked = {1} /\ (\A r \in Rows : name[r] = 1) /\ \A r \in Rows : time[r] \in Int
  BY OneMeasurement, Times
<1>4. ASSUME NEW j \in 1 .. n, NEW r \in Held(j) PROVE r \in Due
  <2>1. r \in Rows /\ SegmentStart(j) <= time[r] /\ time[r] < SegmentEnd(j)
    BY DEF Held, Rest
  <2>2. PICK t \in Int, s \in Int, e \in Int : t = time[r] /\ s = SegmentStart(j) /\ e = SegmentEnd(j)
    BY <1>1, <1>3, <2>1
  <2>3. a <= s /\ e <= z
    BY <1>1, <1>2, <2>2
  <2>4. a <= t /\ t < z
    BY <2>1, <2>2, <2>3
  <2>5. QED
    BY <1>2, <1>3, <2>1, <2>2, <2>4 DEF Due, InWindow
<1>5. ASSUME NEW r \in Due PROVE \E j \in 1 .. n : r \in Held(j)
  <2>1. PICK t \in Int : r \in Rows /\ t = time[r] /\ a <= t /\ t < z
    BY <1>2, <1>3 DEF Due, InWindow
  <2>2. PICK T : T = {j \in 1 .. n : SegmentStart(j) <= t}
    OBVIOUS
  <2>3. 1 \in T
    BY <1>1, <1>2, <2>1, <2>2
  <2>4. PICK m \in T : \A k \in T : k <= m
    BY <2>2, <2>3, GreatestNatural
  <2>5. PICK s \in Int, e \in Int : m \in 1 .. n /\ s = SegmentStart(m) /\ e = SegmentEnd(m) /\ s <= t
    BY <1>1, <2>2
  <2>6. m < n => m + 1 \in Segments /\ ~(SegmentStart(m + 1) <= t) /\ SegmentStart(m + 1) \in Int
    <3>1. m + 1 > m
      BY <2>5
    <3>2. m + 1 \notin T
      BY <2>4, <2>5
    <3>3. m < n => m + 1 \in 1 .. n
      BY <2>5
    <3>4. QED
      BY <1>1, <2>2, <3>2, <3>3
  <2>7. t < e
    <3>1. CASE m = n
      BY <1>1, <1>2, <2>1, <2>5, <3>1
    <3>2. CASE m < n
      <4>1. PICK b \in Int : b = SegmentStart(m + 1) /\ ~(b <= t)
        BY <2>6, <3>2
      <4>2. e = b + 1
        BY <1>1, <2>5, <3>2, <4>1
      <4>3. QED
        BY <4>1, <4>2
    <3>3. QED
      BY <2>5, <3>1, <3>2
  <2>8. CASE r \notin missed[m]
    BY <2>1, <2>5, <2>7, <2>8 DEF Held, Rest
  <2>9. CASE r \in missed[m]
    <3>1. /\ m \in Segments /\ AtEdge(m, r)
          /\ \A j \in Segments : m # j => missed[m] \cap missed[j] = {}
      BY <1>1, <2>5, <2>9 DEF SourceOK, Missable
    <3>2. m > 1 /\ t = s
      <4>1. m + 1 \in Segments => m < n
        BY <1>1, <2>5
      <4>2. m < n => t # SegmentStart(m + 1)
        <5>1. t <= t
          OBVIOUS
        <5>2. QED
          BY <2>6, <5>1
      <4>3. QED
        BY <2>1, <2>5, <3>1, <4>1, <4>2 DEF AtEdge
    <3>3. PICK p \in 1 .. n : p = m - 1 /\ p < n /\ p + 1 = m
      BY <2>5, <3>2
    <3>4. PICK b \in Int : b = SegmentStart(p) /\ s = b + w /\ SegmentEnd(p) = s + 1
      BY <1>1, <2>5, <3>3
    <3>5. b <= t /\ t < s + 1
      BY <3>2, <3>4
    <3>6. r \notin missed[p]
      <4>1. m # p /\ p \in Segments
        BY <1>1, <2>5, <3>3
      <4>2. QED
        BY <2>9, <3>1, <4>1
    <3>7. r \in Held(p)
      BY <2>1, <3>4, <3>5, <3>6 DEF Held, Rest
    <3>8. QED
      BY <3>7
  <2>10. QED
    BY <2>5, <2>8, <2>9
<1>6. QED
  BY <1>1, <1>4, <1>5

-----------------------------------------------------------------------------
WindowInv ==
    /\ RangeInv /\ SegInv
    /\ stage \in {"append", "done"} => ToSet(window) = Due /\ InOrder(window)

LEMMA WindowInvInit == Measurements = {1} /\ Init => WindowInv
<1> SUFFICES ASSUME Init PROVE WindowInv
  OBVIOUS
<1>1. RangeInit /\ stage = "query"
  BY DEF Init
<1>2. QED
  BY <1>1, RangeInvInit, SegInvInit DEF WindowInv

LEMMA CollectsAll ==
    ASSUME Measurements = {1}, WindowInv, Collect, ~Failed
    PROVE  window' = Merged /\ ToSet(Merged) = Due /\ InOrder(Merged)
<1>1. window' = Merged
  BY DEF Collect
<1>2. ASSUME NEW j \in Segments PROVE DoneOK(j, seg[j].out)
  <2>1. seg[j].pc = "done"
    BY DEF Collect, Answered, Failed
  <2>2. QED
    BY <2>1 DEF WindowInv, SegInv, SegOK
<1>3. SourceOK /\ SegTyped
  BY DEF WindowInv, RangeInv
<1>4. QED
  BY <1>1, <1>2, <1>3, MergedHolds, HeldTogether

LEMMA WindowInvStep == Measurements = {1} /\ WindowInv /\ [Next]_vars => WindowInv'
<1> SUFFICES ASSUME Measurements = {1}, WindowInv, [Next]_vars PROVE WindowInv'
  OBVIOUS
<1>1. CASE Query
  <2>1. RangeInv' /\ SegInv'
    BY <1>1, RangeInvStep, SegInvStep DEF WindowInv, Query
  <2>2. stage' = "query"
    BY <1>1 DEF Query
  <2>3. QED
    BY <2>1, <2>2 DEF WindowInv
<1>2. CASE UNCHANGED rangeVars
  <2>1. time' = time /\ name' = name /\ missed' = missed /\ seg' = seg
    BY <1>2 DEF rangeVars, source
  <2>2. RangeInv'
    BY <2>1 DEF WindowInv, RangeInv, SourceOK, SegTyped, Missable, AtEdge
  <2>3. SegInv'
    <3>1. UNCHANGED source
      BY <1>2 DEF rangeVars
    <3>2. ASSUME NEW j \in Segments PROVE SegOK(j, seg[j])'
      <4>1. PICK b : b = seg[j] /\ b = seg'[j] /\ SegOK(j, b)
        BY <2>1 DEF WindowInv, SegInv
      <4>2. SegOK(j, b)'
        BY <3>1, <4>1, Stays
      <4>3. QED
        BY <4>1, <4>2 DEF SegOK
    <3>3. QED
      BY <3>2 DEF SegInv, Segments, StepWidth
  <2>4. Due' = Due /\ \A s : InOrder(s) => InOrder(s)'
    BY <2>1 DEF Due, InWindow, InOrder
  <2>5. stage' \in {"append", "done"} => ToSet(window') = Due /\ InOrder(window')
    <3>1. CASE Collect
      <4>1. Failed => stage' = "failed"
        BY <3>1 DEF Collect
      <4>2. QED
        BY <3>1, <4>1, CollectsAll
    <3>2. CASE window' = window /\ (stage' \in {"append", "done"} => stage = "append" \/ stage' = stage)
      BY <3>2 DEF WindowInv
    <3>3. QED
      BY <1>2, <3>1, <3>2 DEF Next, vars, Query, AppendBatch, AppendFails, Finish
  <2>6. stage' \in {"append", "done"} => ToSet(window)' = Due' /\ InOrder(window)'
    BY <2>1, <2>4, <2>5 DEF InOrder, ToSet
  <2>7. QED
    BY <2>2, <2>3, <2>6 DEF WindowInv
<1>3. QED
  BY <1>1, <1>2 DEF Next, vars, Collect, AppendBatch, AppendFails, Finish

\* With one measurement, a window that is appended has every row of the source in it,
\* once, and in the order of time: whatever the pages, the timestamps with more rows
\* than a page takes, and what the segments left out at their edges.
THEOREM WindowIsExact ==
    ASSUME Measurements = {1}
    PROVE  Spec => []WindowExact
<1>1. Init => WindowInv
  BY WindowInvInit
<1>2. WindowInv /\ [Next]_vars => WindowInv'
  BY WindowInvStep
<1>3. WindowInv => WindowExact
  BY DEF WindowInv, WindowExact
<1>4. QED
  BY <1>1, <1>2, <1>3, PTL DEF Spec

-----------------------------------------------------------------------------
(***************************************************************************)
(* Where the pages of a segment begin: types, for any measurements.        *)
(***************************************************************************)
LEMMA PartElements ==
    ASSUME NEW s \in Seq(Rows), NEW limit \in Nat, NEW offset \in Nat
    PROVE  ToSet(Part(s, limit, offset)) \subseteq ToSet(s)
<1>1. PICK a \in Nat, b \in Nat : IsPart(Part(s, limit, offset), s, limit, offset, a, b)
  BY PartFacts
<1>2. PICK n \in Nat : n = Len(s)
  BY LenProperties
<1>3. PICK u \in Seq(Rows) :
         u = Part(s, limit, offset) /\ u = SubSeq(s, a + 1, b) /\ a <= b /\ b <= n /\ Len(u) = b - a
  BY <1>1, <1>2 DEF IsPart
<1>4. ASSUME NEW i \in 1 .. b - a PROVE u[i] \in ToSet(s)
  <2>1. a + 1 \in Nat \ {0} /\ b <= Len(s)
    BY <1>2, <1>3
  <2>2. \A k \in 1 .. b - (a + 1) + 1 : SubSeq(s, a + 1, b)[k] = s[(a + 1) + k - 1]
    BY <2>1, PartOf
  <2>3. i \in 1 .. b - (a + 1) + 1 /\ (a + 1) + i - 1 = a + i /\ a + i \in 1 .. n
    BY <1>3
  <2>4. u[i] = s[a + i]
    BY <1>3, <2>2, <2>3
  <2>5. ToSet(s) = {s[k] : k \in 1 .. n}
    BY <1>2, ElementsOf
  <2>6. QED
    BY <2>3, <2>4, <2>5
<1>5. ToSet(u) = {u[i] : i \in 1 .. b - a}
  BY <1>3, ElementsOf
<1>6. QED
  BY <1>3, <1>4, <1>5

LEMMA FlattenElements ==
    ASSUME NEW s \in Seq(Seq(Rows)), NEW W, \A i \in 1 .. Len(s) : ToSet(s[i]) \subseteq W
    PROVE  ToSet(FlattenSeq(s)) \subseteq W
<1>1. CASE s = <<>>
  <2>1. ToSet(<<>>) = {}
    BY EmptySeq, ElementsOf
  <2>2. QED
    BY <1>1, <2>1, FlattenEmpty
<1>2. CASE s # <<>>
  <2>1. PICK n \in Nat \ {0} : n = Len(s)
    BY <1>2, EmptySeq
  <2>2. PICK g : Flattens(g, s, n) /\ FlattenSeq(s) = g[n]
    BY <2>1, FlattenFunction
  <2> DEFINE T == {k \in Nat : k \in 1 .. n => ToSet(g[k]) \subseteq W}
  <2>3. 0 \in T
    OBVIOUS
  <2>4. ASSUME NEW k \in Nat, k \in T PROVE k + 1 \in T
    <3>1. ASSUME k + 1 \in 1 .. n PROVE ToSet(g[k + 1]) \subseteq W
      <4>1. PICK j \in 1 .. n : j = k + 1 /\ ToSet(s[j]) \subseteq W
        BY <2>1, <3>1
      <4>2. CASE k = 0
        <5>1. j = 1
          BY <4>1, <4>2
        <5>2. g[j] = s[j]
          BY <2>2, <5>1 DEF Flattens, Joins
        <5>3. QED
          BY <4>1, <5>2
      <4>3. CASE k # 0
        <5>1. k \in 1 .. n /\ j # 1 /\ j - 1 = k
          BY <4>1, <4>3
        <5>2. PICK x \in Seq(Rows), y \in Seq(Rows) : x = g[k] /\ y = s[j]
          <6>1. g[k] \in Seq(Rows)
            BY <2>2, <5>1 DEF Flattens
          <6>2. s[j] \in Seq(Rows)
            BY <2>1, ElementOfSeq
          <6>3. QED
            BY <6>1, <6>2
        <5>3. g[j] = x \o y
          BY <2>2, <5>1, <5>2 DEF Flattens, Joins
        <5>4. ToSet(x) \subseteq W
          BY <2>4, <5>1, <5>2
        <5>5. ToSet(x \o y) = ToSet(x) \cup ToSet(y)
          BY ToSetConcat
        <5>6. QED
          BY <4>1, <5>2, <5>3, <5>4, <5>5
      <4>4. QED
        BY <4>2, <4>3
    <3>2. QED
      BY <3>1
  <2>5. Nat \subseteq T
    <3> HIDE DEF T
    <3>1. QED
      BY <2>3, <2>4, Induction
  <2>6. QED
    BY <2>2, <2>5
<1>3. QED
  BY <1>1, <1>2

LEMMA AnswerTimes ==
    ASSUME NEW i, NEW asked, NEW s, NEW e, NEW limit \in Nat, NEW offset \in Nat
    PROVE  \A r \in ToSet(Answer(i, asked, s, e, limit, offset)) : r \in Rows /\ s <= time[r] /\ time[r] < e
<1> DEFINE one(m) == IF m \in asked THEN Part(Series(i, m, s, e), limit, offset) ELSE <<>>
           all == [m \in Measurements |-> one(m)]
           W == {r \in Rows : s <= time[r] /\ time[r] < e}
<1>1. PICK n \in Nat : Measurements = 1 .. n
  BY Counted
<1>2. ASSUME NEW m \in Measurements PROVE one(m) \in Seq(Rows) /\ ToSet(one(m)) \subseteq W
  <2>1. PICK S \in Seq(Rows) : S = Series(i, m, s, e) /\ ToSet(S) = Found(i, m, s, e)
    BY SeriesFacts
  <2>2. Part(S, limit, offset) \in Seq(Rows) /\ ToSet(Part(S, limit, offset)) \subseteq ToSet(S)
    BY PartFacts, PartElements
  <2>3. ToSet(S) \subseteq W
    BY <2>1 DEF Found
  <2>4. <<>> \in Seq(Rows) /\ ToSet(<<>>) = {}
    BY EmptySeq, ElementsOf
  <2>5. QED
    BY <2>1, <2>2, <2>3, <2>4
<1>3. all \in [1 .. n -> Seq(Rows)]
  BY <1>1, <1>2
<1>4. all \in Seq(Seq(Rows)) /\ Len(all) = n
  <2> HIDE DEF all
  <2> QED BY <1>3, SeqDef, LenProperties
<1>5. \A m \in 1 .. n : ToSet(all[m]) \subseteq W
  BY <1>1, <1>2
<1>6. Answer(i, asked, s, e, limit, offset) = FlattenSeq(all)
  BY DEF Answer
<1>7. ToSet(FlattenSeq(all)) \subseteq W
  <2> HIDE DEF all, W
  <2> QED BY <1>4, <1>5, FlattenElements
<1>8. QED
  BY <1>6, <1>7

\* A page begins in its segment, and pages are left as long as it is read.
Bounded(i, b) ==
    /\ b.from \in SegmentStart(i) .. SegmentEnd(i) /\ b.pages \in 0 .. MaxPages
    /\ b.pc \in {"page", "dense"} => b.from < SegmentEnd(i) /\ b.pages # 0

LEMMA FirstPageBounded ==
    ASSUME NEW i \in Segments
    PROVE  Bounded(i, FirstPage(i))
<1>1. PICK s \in Int, e \in Int, m \in Nat \ {0} : s = SegmentStart(i) /\ e = SegmentEnd(i) /\ s < e /\ m = MaxPages
  BY SegmentBounds, RangeAssumption
<1>2. FirstPage(i).from = s /\ FirstPage(i).pages = m
  BY <1>1 DEF FirstPage
<1>3. s \in s .. e /\ m \in 0 .. m
  BY <1>1
<1>4. QED
  BY <1>1, <1>2, <1>3 DEF Bounded

LEMMA PageBounded ==
    ASSUME RangeInv, NEW i \in Segments, Bounded(i, seg[i]), Page(i)
    PROVE  \E d : seg' = [seg EXCEPT ![i] = d] /\ Bounded(i, d)
<1>1. PICK b \in SegRecs : b = seg[i] /\ b.pc = "page" /\ Bounded(i, b)
  BY DEF RangeInv, SegTyped, Page
<1>2. PICK rows : rows = Answer(i, Asked, b.from, SegmentEnd(i), Limit, 0)
  OBVIOUS
<1>3. PICK x, y : seg' = [seg EXCEPT ![i] = [AfterPage(i, rows) EXCEPT !.out = x, !.carried = y]]
  <2>1. \E x, y : seg' = [seg EXCEPT ![i] = [AfterPage(i, rows) EXCEPT !.out = x, !.carried = y]]
    <3>1. seg' = [seg EXCEPT ![i] = [AfterPage(i, rows) EXCEPT !.out = @ \o Fresh(i, rows),
                      !.carried = IF rows = <<>> THEN @ ELSE At(rows, time[Last(rows)])]]
      BY <1>1, <1>2 DEF Page
    <3>2. QED
      BY <3>1
  <2>2. QED
    BY <2>1
<1>4. PICK a : a = AfterPage(i, rows)
  OBVIOUS
<1>5. PICK d : d = [a EXCEPT !.out = x, !.carried = y] /\ seg' = [seg EXCEPT ![i] = d]
  BY <1>3, <1>4
<1>6. PICK s \in Int, e \in Int, t \in Int, p \in Int, m \in Nat \ {0} :
         /\ s = SegmentStart(i) /\ e = SegmentEnd(i) /\ t = b.from /\ p = b.pages /\ m = MaxPages
         /\ s <= t /\ t < e /\ 0 < p /\ p <= m
  <2>1. SegmentStart(i) \in Int /\ SegmentEnd(i) \in Int /\ MaxPages \in Nat \ {0}
    BY SegmentFacts, RangeAssumption
  <2>2. b.from \in Int /\ b.pages \in Int
    BY DEF SegRecs
  <2>3. /\ b.from \in SegmentStart(i) .. SegmentEnd(i) /\ b.pages \in 0 .. MaxPages
        /\ b.from < SegmentEnd(i) /\ b.pages # 0
    BY <1>1 DEF Bounded
  <2>4. SegmentStart(i) <= b.from /\ 0 < b.pages /\ b.pages <= MaxPages
    BY <2>1, <2>2, <2>3
  <2>5. QED
    BY <2>1, <2>2, <2>3, <2>4
<1>7. CASE rows = <<>> \/ Len(rows) < Limit
  <2>1. a = [b EXCEPT !.pc = "done"]
    BY <1>1, <1>4, <1>7 DEF AfterPage
  <2>2. d.pc = "done" /\ d.from = t /\ d.pages = p
    BY <1>5, <1>6, <2>1 DEF SegRecs
  <2>3. t \in s .. e /\ p \in 0 .. m
    BY <1>6
  <2>4. QED
    BY <1>5, <1>6, <2>2, <2>3 DEF Bounded
<1>8. CASE ~(rows = <<>> \/ Len(rows) < Limit) /\ time[Last(rows)] = b.from
  <2>1. PICK z : a = [b EXCEPT !.pc = "dense", !.seen = z, !.offset = 0]
    BY <1>1, <1>4, <1>8 DEF AfterPage, DenseFrom
  <2>2. d.pc = "dense" /\ d.from = t /\ d.pages = p
    BY <1>5, <1>6, <2>1 DEF SegRecs
  <2>3. t \in s .. e /\ p \in 0 .. m /\ p # 0
    BY <1>6
  <2>4. QED
    BY <1>5, <1>6, <2>2, <2>3 DEF Bounded
<1>9. CASE ~(rows = <<>> \/ Len(rows) < Limit) /\ time[Last(rows)] # b.from
  <2>1. PICK l \in Int : l = time[Last(rows)] /\ t <= l /\ l < e
    <3>1. Limit \in Nat /\ 0 \in Nat
      BY RangeAssumption
    <3>2. rows \in Seq(Rows)
      BY <1>2, <3>1, AnswerType
    <3>3. Last(rows) \in ToSet(rows) /\ Last(rows) \in Rows
      BY <1>9, <3>2, LastFacts
    <3>4. t <= time[Last(rows)] /\ time[Last(rows)] < e
      BY <1>2, <1>6, <3>1, <3>3, AnswerTimes
    <3>5. time[Last(rows)] \in Int
      BY <3>3, Times DEF RangeInv
    <3>6. QED
      BY <3>4, <3>5
  <2>2. PICK c : c = IF p = 1 THEN "failed" ELSE "page"
    OBVIOUS
  <2>3. a = [b EXCEPT !.from = l, !.pages = p - 1, !.pc = c]
    BY <1>1, <1>4, <1>6, <1>9, <2>1, <2>2 DEF AfterPage, NextPage, SegRecs
  <2>4. d.pc = c /\ d.from = l /\ d.pages = p - 1
    BY <1>5, <2>3 DEF SegRecs
  <2>5. l \in s .. e /\ p - 1 \in 0 .. m /\ (p # 1 => p - 1 # 0)
    BY <1>6, <2>1
  <2>6. QED
    BY <1>5, <1>6, <2>1, <2>2, <2>4, <2>5 DEF Bounded
<1>10. QED
  BY <1>7, <1>8, <1>9

LEMMA DenseBounded ==
    ASSUME RangeInv, NEW i \in Segments, Bounded(i, seg[i]), DensePage(i)
    PROVE  \E d : seg' = [seg EXCEPT ![i] = d] /\ Bounded(i, d)
<1>1. PICK b \in SegRecs : b = seg[i] /\ b.pc = "dense" /\ Bounded(i, b)
  BY DEF RangeInv, SegTyped, DensePage
<1>2. PICK s \in Int, e \in Int, t \in Int, p \in Int :
         /\ s = SegmentStart(i) /\ e = SegmentEnd(i) /\ t = b.from /\ p = b.pages
         /\ t \in s .. e /\ t < e /\ p \in 0 .. MaxPages /\ p # 0
  <2>1. SegmentStart(i) \in Int /\ SegmentEnd(i) \in Int
    BY SegmentFacts
  <2>2. b.from \in Int /\ b.pages \in Int
    BY DEF SegRecs
  <2>3. QED
    BY <1>1, <2>1, <2>2 DEF Bounded
<1>3. PICK d : \E all \in BOOLEAN :
         /\ seg' = [seg EXCEPT ![i] = d] /\ d.pages = p
         /\ IF all THEN d.from = t + 1 /\ d.pc = Continue(i, t + 1) ELSE d.from = t /\ d.pc = "dense"
  <2>1. PICK rows \in Seq(Rows), d \in SegRecs, limit \in Nat \ {0}, ts \in Int :
            /\ ts = seg[i].from
            /\ rows = Answer(i, Measurements, ts, ts + 1, limit, seg[i].offset)
            /\ seg' = [seg EXCEPT ![i] = d]
            /\ d.out = seg[i].out \o Without(rows, seg[i].seen)
            /\ d.seen = seg[i].seen \cup ToSet(rows) /\ d.carried = seg[i].carried
            /\ d.pages = seg[i].pages
            /\ d.offset = seg[i].offset + Len(rows)
            /\ IF Len(rows) < limit
               THEN d.from = ts + 1 /\ d.pc = Continue(i, ts + 1)
               ELSE d.from = ts /\ d.pc = "dense"
    BY DenseOutcome
  <2>2. PICK all \in BOOLEAN : all <=> Len(rows) < limit
    OBVIOUS
  <2>3. QED
    BY <1>1, <1>2, <2>1, <2>2
<1>4. PICK all \in BOOLEAN :
         IF all THEN d.from = t + 1 /\ d.pc = Continue(i, t + 1) ELSE d.from = t /\ d.pc = "dense"
  BY <1>3
<1>5. seg' = [seg EXCEPT ![i] = d]
  BY <1>3
<1>6. d.pages = p
  BY <1>3
<1>7. CASE all
  <2>1. t + 1 \in s .. e
    BY <1>2
  <2>2. Continue(i, t + 1) \in {"page", "dense"} => t + 1 < e
    BY <1>2 DEF Continue
  <2>3. QED
    BY <1>2, <1>4, <1>5, <1>6, <1>7, <2>1, <2>2 DEF Bounded
<1>8. CASE ~all
  BY <1>2, <1>4, <1>5, <1>6, <1>8 DEF Bounded
<1>9. QED
  BY <1>7, <1>8

TypesInv == LogInv /\ \A i \in Segments : Bounded(i, seg[i])

LEMMA TypesInvInit == Init => TypesInv
<1> SUFFICES ASSUME Init PROVE TypesInv
  OBVIOUS
<1>1. \A i \in Segments : seg[i] = FirstPage(i)
  BY DEF Init, RangeInit
<1>2. QED
  BY <1>1, LogInvInit, FirstPageBounded DEF TypesInv

LEMMA TypesInvStep == TypesInv /\ [Next]_vars => TypesInv'
<1> SUFFICES ASSUME TypesInv, [Next]_vars PROVE TypesInv'
  OBVIOUS
<1>1. LogInv'
  BY LogInvStep DEF TypesInv
<1>2. \E i \in Segments : \E d : seg' = [seg EXCEPT ![i] = d] /\ Bounded(i, d)
  <2>1. RangeInv
    BY DEF TypesInv, LogInv
  <2>2. CASE Query
    <3>1. PICK i \in Segments : Page(i) \/ DensePage(i) \/ QueryFails(i)
      BY <2>2 DEF Query, RangeStep
    <3>2. Bounded(i, seg[i])
      BY DEF TypesInv
    <3>3. CASE Page(i)
      BY <2>1, <3>2, <3>3, PageBounded
    <3>4. CASE DensePage(i)
      BY <2>1, <3>2, <3>4, DenseBounded
    <3>5. CASE QueryFails(i)
      <4>1. PICK b \in SegRecs : b = seg[i]
        BY <2>1 DEF RangeInv, SegTyped
      <4>2. PICK d : d = [b EXCEPT !.pc = "failed"]
        OBVIOUS
      <4>3. d.pc = "failed" /\ d.from = b.from /\ d.pages = b.pages
        BY <4>2 DEF SegRecs
      <4>4. seg' = [seg EXCEPT ![i] = d]
        BY <3>5, <4>1, <4>2 DEF QueryFails
      <4>5. Bounded(i, d)
        BY <3>2, <4>1, <4>3 DEF Bounded
      <4>6. QED
        BY <4>4, <4>5
    <3>6. QED
      BY <3>1, <3>3, <3>4, <3>5
  <2>3. CASE UNCHANGED rangeVars
    <3>1. PICK i \in Segments : TRUE
      BY SegmentFacts
    <3>2. seg' = [seg EXCEPT ![i] = seg[i]]
      BY <2>1, <2>3 DEF rangeVars, RangeInv, SegTyped
    <3>3. QED
      BY <3>2 DEF TypesInv
  <2>4. QED
    BY <2>2, <2>3 DEF Next, vars, Collect, AppendBatch, AppendFails, Finish
<1>3. PICK i \in Segments : \E d : seg' = [seg EXCEPT ![i] = d] /\ Bounded(i, d)
  BY <1>2
<1>4. PICK d : seg' = [seg EXCEPT ![i] = d] /\ Bounded(i, d)
  BY <1>3
<1>5. \A j \in Segments : Bounded(j, seg'[j])
  BY <1>4 DEF TypesInv, LogInv, RangeInv, SegTyped
<1>6. (\A j \in Segments : Bounded(j, seg[j]))'
  BY <1>5 DEF Bounded, SegmentStart, SegmentEnd, StepWidth, Segments
<1>7. QED
  BY <1>1, <1>6 DEF TypesInv

LEMMA TypesInvImplies == TypesInv => TypeOK
<1> SUFFICES ASSUME TypesInv PROVE TypeOK
  OBVIOUS
<1>1. RangeTypeOK
  <2>1. ASSUME NEW i \in Segments
        PROVE  /\ seg[i].pc \in {"page", "dense", "done", "failed"}
               /\ seg[i].from \in SegmentStart(i) .. SegmentEnd(i)
               /\ ToSet(seg[i].out) \subseteq Rows
               /\ seg[i].carried \subseteq Rows /\ seg[i].seen \subseteq Rows
               /\ seg[i].pages \in 0 .. MaxPages /\ seg[i].offset \in Nat
    <3>1. PICK b \in SegRecs : b = seg[i] /\ Bounded(i, b)
      BY DEF TypesInv, LogInv, RangeInv, SegTyped
    <3>2. PICK o \in Seq(Rows) : o = b.out
      BY DEF SegRecs
    <3>3. ToSet(o) \subseteq Rows
      BY ElementsOf
    <3>4. QED
      BY <3>1, <3>2, <3>3 DEF SegRecs, Bounded
  <2>2. QED
    BY <2>1 DEF RangeTypeOK
<1>2. FrameInv
  BY DEF TypesInv, LogInv
<1>3. ToSet(window) \subseteq Rows
  BY <1>2, ElementsOf DEF FrameInv
<1>4. ASSUME NEW c \in ToSet(todo)
      PROVE  c.first \in 1 .. c.last /\ c.last <= Len(window) /\ c.batch \in 1 .. BatchPoints
  <2>1. PICK i \in DOMAIN todo : c = todo[i]
    BY DEF ToSet
  <2>2. StretchOf(todo[i])
    BY <1>2, LenProperties DEF FrameInv, Chain
  <2>3. QED
    BY <2>1, <2>2 DEF StretchOf
<1>5. ASSUME NEW f \in ToSet(frames) PROVE f # <<>>
  <2>1. f \in Seq(Rows) /\ Len(f) \in 1 .. BatchPoints
    BY <1>2 DEF FrameInv, AllFit, Fits
  <2>2. Len(<<>>) = 0 /\ 0 \notin 1 .. BatchPoints
    BY EmptySeq
  <2>3. QED
    BY <2>1, <2>2
<1>6. QED
  BY <1>1, <1>2, <1>3, <1>4, <1>5 DEF TypeOK, FrameInv

\* Pages and offsets stay in the segment, pages are counted to their limit, and what is
\* still to be appended lies in the window: for any measurements and any sizes.
THEOREM WindowTypeCorrect == Spec => []TypeOK
BY TypesInvInit, TypesInvStep, TypesInvImplies, PTL DEF Spec
=============================================================================
