----------------------------- MODULE Books_proofs -----------------------------
(***************************************************************************)
(* Proofs about the books: the fact table, the lots, the transfers, the    *)
(* orders, the estate and the detectors, each with an invariant of its     *)
(* own.  A step of the books moves one part and leaves the others as they  *)
(* are.                                                                    *)
(***************************************************************************)
EXTENDS MCBooks, FiniteSetTheorems, SequenceTheorems, WellFoundedInduction, TLAPS

-----------------------------------------------------------------------------
LEMMA LeastNumber ==
  ASSUME NEW S, S \subseteq Nat, S # {}
  PROVE  \E i \in S : \A j \in S : i <= j
<1> DEFINE F == {1 .. i : i \in S}
           R == StrictSubsetOrdering(Nat)
<1>1. F \subseteq FiniteSubsetsOf(Nat) /\ F # {}
  <2>1. ASSUME NEW i \in S PROVE 1 .. i \in FiniteSubsetsOf(Nat)
    BY FS_Interval DEF FiniteSubsetsOf
  <2> QED BY <2>1
<1>2. PICK x \in F : \A y \in F : <<y, x>> \notin R
  <2>1. IsWellFoundedOn(R, FiniteSubsetsOf(Nat)) BY FS_StrictSubsetOrderingWellFounded
  <2> HIDE DEF R, F
  <2> QED BY <1>1, <2>1, WFMin
<1>3. PICK i \in S : x = 1 .. i BY <1>2
<1>4. ASSUME NEW j \in S PROVE i <= j
  <2>1. i \in Nat /\ j \in Nat OBVIOUS
  <2>2. <<1 .. j, x>> \notin R BY <1>2
  <2>3. ASSUME j < i PROVE FALSE
    <3>1. 1 .. j \subseteq 1 .. i BY <2>1, <2>3
    <3>2. i \in 1 .. i /\ i \notin 1 .. j BY <2>1, <2>3
    <3>3. 1 .. j \in SUBSET Nat /\ 1 .. i \in SUBSET Nat BY <2>1
    <3> QED BY <2>2, <1>3, <3>1, <3>2, <3>3 DEF StrictSubsetOrdering
  <2> QED BY <2>1, <2>3
<1> QED BY <1>4

Chosen(s) == CHOOSE x \in s : TRUE
SumTerm(g, F, s) == IF s = {} THEN 0 ELSE F[Chosen(s)] + g[s \ {Chosen(s)}]
Sums(g, F, S) == g = [s \in SUBSET S |-> SumTerm(g, F, s)]

LEMMA ChosenIn == ASSUME NEW s, s # {} PROVE Chosen(s) \in s
BY DEF Chosen

(* A subset of fewer elements. *)
LEMMA Fewer ==
  ASSUME NEW S, IsFiniteSet(S), NEW s \in SUBSET S, NEW x \in s
  PROVE  /\ Cardinality(s) \in Nat /\ Cardinality(s \ {x}) \in Nat
         /\ Cardinality(s \ {x}) = Cardinality(s) - 1
         /\ s \ {x} \in SUBSET S
<1>1. IsFiniteSet(s) BY FS_Subset
<1>2. /\ IsFiniteSet(s \ {x})
      /\ Cardinality(s \ {x}) = Cardinality(s) - 1 BY <1>1, FS_RemoveElement
<1> QED BY <1>1, <1>2, FS_CardinalityType

LEMMA SumExists ==
  ASSUME NEW S, IsFiniteSet(S), NEW F \in [S -> Int]
  PROVE  \E g \in [SUBSET S -> Int] : Sums(g, F, S)
<1> DEFINE Level(n) == {s \in SUBSET S : Cardinality(s) <= n}
           Up(g, n) == \A s \in Level(n) : g[s] = SumTerm(g, F, s)
           Bad == {n \in Nat : ~ \E g \in [Level(n) -> Int] : Up(g, n)}
<1>0. ASSUME NEW s \in SUBSET S PROVE Cardinality(s) \in Nat /\ (Cardinality(s) = 0 <=> s = {})
  BY FS_Subset, FS_CardinalityType, FS_EmptySet
<1>1. Bad = {}
  <2> SUFFICES ASSUME Bad # {} PROVE FALSE OBVIOUS
  <2>1. PICK n \in Bad : \A m \in Bad : n <= m
    <3>1. Bad \subseteq Nat OBVIOUS
    <3> HIDE DEF Bad
    <3> QED BY <3>1, LeastNumber
  <2>2. n \in Nat /\ ~ \E g \in [Level(n) -> Int] : Up(g, n) BY <2>1
  <2>3. CASE n = 0
    <3>1. Level(n) = {{}} BY <1>0, <2>3, FS_EmptySet
    <3> DEFINE z == [s \in Level(n) |-> 0]
    <3>2. z \in [Level(n) -> Int] OBVIOUS
    <3>3. Up(z, n) BY <3>1 DEF SumTerm
    <3> QED BY <3>2, <3>3, <2>2
  <2>4. CASE n # 0
    <3>1. n - 1 \in Nat /\ n - 1 < n BY <2>2, <2>4
    <3>2. n - 1 \notin Bad
      <4> HIDE DEF Bad
      <4> QED BY <3>1, <2>1, <2>2
    <3>3. PICK g \in [Level(n - 1) -> Int] : Up(g, n - 1) BY <3>1, <3>2
    <3> DEFINE h == [s \in Level(n) |-> SumTerm(g, F, s)]
    <3>4. ASSUME NEW s \in Level(n), s # {}
          PROVE  Chosen(s) \in S /\ s \ {Chosen(s)} \in Level(n - 1) /\ s \ {Chosen(s)} \in Level(n)
      <4>1. Chosen(s) \in s BY <3>4, ChosenIn
      <4>2. s \in SUBSET S /\ Cardinality(s) <= n BY <3>4
      <4>3. /\ Cardinality(s) \in Nat
            /\ Cardinality(s \ {Chosen(s)}) = Cardinality(s) - 1
            /\ s \ {Chosen(s)} \in SUBSET S BY <4>1, <4>2, Fewer
      <4> QED BY <4>1, <4>2, <4>3, <2>2
    <3>5. h \in [Level(n) -> Int]
      <4> SUFFICES ASSUME NEW s \in Level(n) PROVE SumTerm(g, F, s) \in Int OBVIOUS
      <4>1. CASE s = {} BY <4>1 DEF SumTerm
      <4>2. CASE s # {}
        <5> HIDE DEF Level
        <5> QED BY <4>2, <3>4, <3>3 DEF SumTerm
      <4> QED BY <4>1, <4>2
    <3>6. ASSUME NEW s \in Level(n - 1) PROVE h[s] = g[s]
      <4>1. s \in Level(n) BY <3>6, <3>1, <2>2, <1>0
      <4>2. h[s] = SumTerm(g, F, s) BY <4>1
      <4> HIDE DEF h, Level
      <4> QED BY <4>2, <3>3
    <3>7. ASSUME NEW s \in Level(n) PROVE h[s] = SumTerm(h, F, s)
      <4>1. h[s] = SumTerm(g, F, s) OBVIOUS
      <4>2. s # {} => h[s \ {Chosen(s)}] = g[s \ {Chosen(s)}] BY <3>4, <3>6
      <4> HIDE DEF h, Level
      <4> QED BY <4>1, <4>2 DEF SumTerm
    <3> HIDE DEF h
    <3> QED BY <3>5, <3>7, <2>2
  <2> QED BY <2>3, <2>4
<1> DEFINE c == Cardinality(S)
<1>2. c \in Nat BY FS_CardinalityType
<1>3. PICK g \in [Level(c) -> Int] : Up(g, c) BY <1>1, <1>2
<1>4. Level(c) = SUBSET S BY FS_Subset
<1>5. g \in [SUBSET S -> Int] /\ \A s \in SUBSET S : g[s] = SumTerm(g, F, s)
  BY <1>3, <1>4
<1>6. Sums(g, F, S)
  BY <1>5 DEF Sums
<1> QED BY <1>5, <1>6

(* What holds of the sum of a set when it holds of those without one       *)
(* element.                                                                *)
LEMMA SumStep ==
  ASSUME NEW S, IsFiniteSet(S), NEW F, NEW g, Sums(g, F, S), NEW s \in SUBSET S
  PROVE  /\ s = {} => g[s] = 0
         /\ s # {} => /\ Chosen(s) \in s /\ s \ {Chosen(s)} \in SUBSET S
                      /\ g[s] = F[Chosen(s)] + g[s \ {Chosen(s)}]
                      /\ Cardinality(s \ {Chosen(s)}) < Cardinality(s)
<1>1. g[s] = SumTerm(g, F, s) BY DEF Sums
<1>2. s # {} => Chosen(s) \in s BY ChosenIn
<1> QED BY <1>1, <1>2, Fewer DEF SumTerm

LEMMA SumOfNone ==
  ASSUME NEW S, NEW F, NEW g, Sums(g, F, S)
  PROVE  g[{}] = 0
BY DEF Sums, SumTerm

(* A family of finite subsets, if there is any in it, has one of the       *)
(* fewest elements.                                                        *)
LEMMA Smallest ==
  ASSUME NEW S, IsFiniteSet(S), NEW W, W \subseteq SUBSET S, W # {}
  PROVE  \E s \in W : \A t \in W : Cardinality(s) <= Cardinality(t)
<1> DEFINE C == {Cardinality(s) : s \in W}
<1>1. C \subseteq Nat /\ C # {} BY FS_Subset, FS_CardinalityType
<1>2. PICK n \in C : \A m \in C : n <= m
  <2> HIDE DEF C
  <2> QED BY <1>1, LeastNumber
<1>3. PICK s \in W : n = Cardinality(s) BY <1>2
<1> QED BY <1>2, <1>3

LEMMA SumIsInt ==
  ASSUME NEW S, IsFiniteSet(S), NEW F \in [S -> Int], NEW g, Sums(g, F, S)
  PROVE  \A s \in SUBSET S : g[s] \in Int
<1> DEFINE W == {s \in SUBSET S : g[s] \notin Int}
<1> SUFFICES ASSUME W # {} PROVE FALSE OBVIOUS
<1>1. PICK s \in W : \A t \in W : Cardinality(s) <= Cardinality(t)
  <2>1. W \subseteq SUBSET S OBVIOUS
  <2> HIDE DEF W
  <2> QED BY <2>1, Smallest
<1>2. s \in SUBSET S /\ g[s] \notin Int BY <1>1
<1>3. s # {}
  <2> HIDE DEF W
  <2>1. g[{}] = 0 BY SumOfNone
  <2> QED BY <1>2, <2>1
<1>4. /\ Chosen(s) \in s /\ s \ {Chosen(s)} \in SUBSET S
      /\ g[s] = F[Chosen(s)] + g[s \ {Chosen(s)}]
      /\ Cardinality(s \ {Chosen(s)}) < Cardinality(s) BY <1>2, <1>3, SumStep
<1>5. Cardinality(s) \in Nat /\ Cardinality(s \ {Chosen(s)}) \in Nat BY <1>2, <1>4, FS_Subset, FS_CardinalityType
<1>6. g[s \ {Chosen(s)}] \in Int BY <1>1, <1>4, <1>5
<1> QED BY <1>2, <1>4, <1>6

(* A sum may begin with any of its terms.                                  *)
LEMMA SumAny ==
  ASSUME NEW S, IsFiniteSet(S), NEW F \in [S -> Int], NEW g, Sums(g, F, S)
  PROVE  \A s \in SUBSET S : \A x \in s : g[s] = F[x] + g[s \ {x}]
<1> DEFINE W == {s \in SUBSET S : \E x \in s : g[s] # F[x] + g[s \ {x}]}
<1> SUFFICES ASSUME W # {} PROVE FALSE OBVIOUS
<1>1. PICK s \in W : \A t \in W : Cardinality(s) <= Cardinality(t)
  <2>1. W \subseteq SUBSET S OBVIOUS
  <2> HIDE DEF W
  <2> QED BY <2>1, Smallest
<1>2. PICK x \in s : g[s] # F[x] + g[s \ {x}] BY <1>1
<1>3. s \in SUBSET S /\ s # {} BY <1>1, <1>2
<1> DEFINE y == Chosen(s)
<1>4. /\ y \in s /\ s \ {y} \in SUBSET S
      /\ g[s] = F[y] + g[s \ {y}]
      /\ Cardinality(s \ {y}) < Cardinality(s) BY <1>3, SumStep
<1> HIDE DEF y
<1>5. x # y BY <1>2, <1>4
<1>6. /\ Cardinality(s) \in Nat /\ Cardinality(s \ {y}) \in Nat /\ Cardinality(s \ {x}) \in Nat
      /\ s \ {x} \in SUBSET S /\ Cardinality(s \ {x}) < Cardinality(s)
  BY <1>3, <1>4, Fewer
<1>7. s \ {x} \notin W /\ s \ {y} \notin W
  <2> HIDE DEF W
  <2> QED BY <1>1, <1>4, <1>6
<1>8. g[s \ {x}] = F[y] + g[(s \ {x}) \ {y}] BY <1>4, <1>5, <1>6, <1>7
<1>9. g[s \ {y}] = F[x] + g[(s \ {y}) \ {x}] BY <1>4, <1>5, <1>6, <1>7
<1>10. (s \ {x}) \ {y} = (s \ {y}) \ {x} OBVIOUS
<1>11. (s \ {x}) \ {y} \in SUBSET S BY <1>6
<1>12. g[(s \ {x}) \ {y}] \in Int BY <1>11, SumIsInt
<1>13. F[x] \in Int /\ F[y] \in Int BY <1>3, <1>4
<1>14. PICK z : z = g[(s \ {x}) \ {y}] OBVIOUS
<1>15. z \in Int /\ g[s \ {x}] = F[y] + z /\ g[s \ {y}] = F[x] + z
  BY <1>8, <1>9, <1>10, <1>12, <1>14
<1>16. g[s] = F[y] + (F[x] + z) BY <1>4, <1>15
<1>17. F[x] + g[s \ {x}] = F[x] + (F[y] + z) BY <1>15
<1> HIDE DEF W
<1> QED BY <1>2, <1>16, <1>17, <1>13, <1>15

LEMMA SumIsNat ==
  ASSUME NEW S, IsFiniteSet(S), NEW F \in [S -> Nat], NEW g, Sums(g, F, S)
  PROVE  \A s \in SUBSET S : g[s] \in Nat
<1> DEFINE W == {s \in SUBSET S : g[s] \notin Nat}
<1> SUFFICES ASSUME W # {} PROVE FALSE OBVIOUS
<1>1. PICK s \in W : \A t \in W : Cardinality(s) <= Cardinality(t)
  <2>1. W \subseteq SUBSET S OBVIOUS
  <2> HIDE DEF W
  <2> QED BY <2>1, Smallest
<1>2. s \in SUBSET S /\ g[s] \notin Nat BY <1>1
<1>3. s # {}
  <2> HIDE DEF W
  <2>1. g[{}] = 0 BY SumOfNone
  <2> QED BY <1>2, <2>1
<1>4. /\ Chosen(s) \in s /\ s \ {Chosen(s)} \in SUBSET S
      /\ g[s] = F[Chosen(s)] + g[s \ {Chosen(s)}]
      /\ Cardinality(s \ {Chosen(s)}) < Cardinality(s) BY <1>2, <1>3, SumStep
<1>5. Cardinality(s) \in Nat /\ Cardinality(s \ {Chosen(s)}) \in Nat BY <1>2, <1>4, FS_Subset, FS_CardinalityType
<1>6. g[s \ {Chosen(s)}] \in Nat BY <1>1, <1>4, <1>5
<1> QED BY <1>2, <1>4, <1>6

LEMMA SumOne ==
  ASSUME NEW S, IsFiniteSet(S), NEW F \in [S -> Int]
  PROVE  Sums(CHOOSE g : Sums(g, F, S), F, S)
BY SumExists

-----------------------------------------------------------------------------
(* The ledger.                                                             *)

(* What a row stands on is an earlier row of the same thing.               *)
Linked == \A i \in DOMAIN fact : fact[i].supersedes # 0 => SameThing(fact[i], fact[fact[i].supersedes])

LedgerInv == TypeOK /\ Linked /\ BatchesPartition

LEMMA RowsAfter ==
  ASSUME NEW T, NEW old, NEW new, old \in Seq(T), new \in Seq(T)
  PROVE  /\ old \o new \in Seq(T)
         /\ DOMAIN (old \o new) = DOMAIN old \cup {Len(old) + i : i \in DOMAIN new}
         /\ \A i \in DOMAIN old : (old \o new)[i] = old[i]
         /\ \A i \in DOMAIN new : (old \o new)[Len(old) + i] = new[i]
         /\ \A i \in DOMAIN new : Len(old) + i \notin DOMAIN old
         /\ DOMAIN old \subseteq Nat \ {0} /\ DOMAIN new \subseteq Nat \ {0}
         /\ \A i \in DOMAIN old : i <= Len(old)
<1>1. old \o new \in Seq(T) /\ Len(old \o new) = Len(old) + Len(new) BY ConcatProperties
<1>2. \A i \in 1 .. Len(old) + Len(new) :
        (old \o new)[i] = IF i <= Len(old) THEN old[i] ELSE new[i - Len(old)]
  BY ConcatProperties
<1>3. Len(old) \in Nat /\ Len(new) \in Nat /\ DOMAIN old = 1 .. Len(old) /\ DOMAIN new = 1 .. Len(new)
      /\ DOMAIN (old \o new) = 1 .. Len(old \o new)
  BY <1>1, LenProperties
<1>4. \A i \in 1 .. Len(old) + Len(new) :
        i \in 1 .. Len(old) \/ \E j \in 1 .. Len(new) : i = Len(old) + j
  <2> SUFFICES ASSUME NEW i \in 1 .. Len(old) + Len(new), i \notin 1 .. Len(old)
               PROVE  \E j \in 1 .. Len(new) : i = Len(old) + j
    OBVIOUS
  <2>1. i - Len(old) \in 1 .. Len(new) /\ i = Len(old) + (i - Len(old)) BY <1>3
  <2> QED BY <2>1
<1>5. \A j \in 1 .. Len(new) : Len(old) + j \in 1 .. Len(old) + Len(new) BY <1>3
<1>6. 1 .. Len(old) \subseteq 1 .. Len(old) + Len(new) BY <1>3
<1>7. DOMAIN (old \o new) = DOMAIN old \cup {Len(old) + i : i \in DOMAIN new}
  BY <1>1, <1>3, <1>4, <1>5, <1>6
<1>8. \A i \in DOMAIN old : (old \o new)[i] = old[i] BY <1>2, <1>3, <1>6
<1>9. ASSUME NEW i \in DOMAIN new PROVE (old \o new)[Len(old) + i] = new[i]
  <2>1. Len(old) + i \in 1 .. Len(old) + Len(new) /\ ~(Len(old) + i <= Len(old)) /\ Len(old) + i - Len(old) = i
    BY <1>3
  <2> QED BY <1>2, <2>1
<1>10. \A i \in DOMAIN new : Len(old) + i \notin DOMAIN old BY <1>3
<1> QED BY <1>1, <1>3, <1>7, <1>8, <1>9, <1>10

(* What a commit that is let through adds.                                 *)
LEMMA CommitAdds ==
  ASSUME TypeOK, NEW in \in Inputs, Commit(in), fact' # fact \/ batch' # batch
  PROVE  /\ in.batch \in Batches \ DOMAIN batch /\ in.writer \in Writers
         /\ in.facts \in Seq(Facts) /\ Valid(in.writer, in.facts)
         /\ fact' = fact \o in.facts
         /\ DOMAIN batch' = DOMAIN batch \cup {in.batch}
         /\ \A b \in DOMAIN batch : batch'[b] = batch[b]
         /\ batch'[in.batch] = [writer |-> in.writer,
                                ids |-> [i \in DOMAIN in.facts |-> Len(fact) + i]]
BY InputsAssumption DEF Commit, commit, Replayed, Insert

LEMMA LedgerStart == Init => LedgerInv
<1> SUFFICES ASSUME Init PROVE LedgerInv OBVIOUS
<1>1. fact = <<>> /\ DOMAIN fact = {} /\ DOMAIN batch = {} /\ fact \in Seq(Facts)
  BY DEF Init, NoFacts
<1> QED BY <1>1 DEF LedgerInv, TypeOK, FactsTypeOK, Linked, BatchesPartition

LEMMA LedgerStep == LedgerInv /\ [Next]_vars => LedgerInv'
<1> SUFFICES ASSUME LedgerInv, [Next]_vars PROVE LedgerInv' OBVIOUS
<1>1. CASE fact' = fact /\ batch' = batch
  BY <1>1 DEF LedgerInv, TypeOK, FactsTypeOK, Linked, BatchesPartition, SameThing
<1>2. CASE fact' # fact \/ batch' # batch
  <2>1. PICK in \in Inputs : Commit(in) BY <1>2 DEF Next, vars
  <2>2. TypeOK BY DEF LedgerInv
  <2> DEFINE new == in.facts
             w == in.writer
             n == Len(fact)
  <2>3. /\ in.batch \in Batches \ DOMAIN batch /\ w \in Writers
        /\ new \in Seq(Facts) /\ Valid(w, new)
        /\ fact' = fact \o new
        /\ DOMAIN batch' = DOMAIN batch \cup {in.batch}
        /\ \A b \in DOMAIN batch : batch'[b] = batch[b]
        /\ batch'[in.batch] = [writer |-> w, ids |-> [i \in DOMAIN new |-> n + i]]
    BY <1>2, <2>1, <2>2, CommitAdds
  <2>4. fact \in Seq(Facts) BY <2>2 DEF TypeOK, FactsTypeOK
  <2>5. /\ fact' \in Seq(Facts)
        /\ DOMAIN fact' = DOMAIN fact \cup {n + i : i \in DOMAIN new}
        /\ \A i \in DOMAIN fact : fact'[i] = fact[i]
        /\ \A i \in DOMAIN new : fact'[n + i] = new[i]
        /\ \A i \in DOMAIN new : n + i \notin DOMAIN fact
        /\ DOMAIN fact \subseteq Nat \ {0} /\ DOMAIN new \subseteq Nat \ {0}
        /\ \A i \in DOMAIN fact : i <= n
    <3> HIDE DEF new
    <3>1. PICK table : table = fact \o new OBVIOUS
    <3>2. /\ table \in Seq(Facts)
          /\ DOMAIN table = DOMAIN fact \cup {n + i : i \in DOMAIN new}
          /\ \A i \in DOMAIN fact : table[i] = fact[i]
          /\ \A i \in DOMAIN new : table[n + i] = new[i]
          /\ \A i \in DOMAIN new : n + i \notin DOMAIN fact
          /\ DOMAIN fact \subseteq Nat \ {0} /\ DOMAIN new \subseteq Nat \ {0}
          /\ \A i \in DOMAIN fact : i <= n
      BY <3>1, <2>3, <2>4, RowsAfter
    <3>3. fact' = table BY <3>1, <2>3
    <3> QED BY <3>2, <3>3
  <2>6. n \in Nat BY <2>4, LenProperties
  <2>7. \A i \in DOMAIN new : new[i] \in Facts /\ new[i].writer = w /\ MaySupersede(new[i])
    BY <2>3, ElementOfSeq DEF Valid
  <2>8. \A i \in DOMAIN new : new[i].supersedes \in Nat /\ (new[i].supersedes = 0 \/
           (new[i].supersedes \in DOMAIN fact /\ SameThing(new[i], fact[new[i].supersedes])))
    BY <2>7 DEF MaySupersede, Facts
  <2> HIDE DEF new, n, w
  <2>9. \A i \in DOMAIN fact' : fact'[i].supersedes < i
    <3>1. \A i \in DOMAIN fact : fact'[i].supersedes < i BY <2>2, <2>5 DEF TypeOK, FactsTypeOK
    <3>2. ASSUME NEW i \in DOMAIN new PROVE fact'[n + i].supersedes < n + i
      <4>1. i \in Nat /\ i > 0 BY <2>5
      <4>2. new[i].supersedes \in Nat /\ new[i].supersedes <= n BY <2>5, <2>6, <2>8
      <4> QED BY <4>1, <4>2, <2>5, <2>6
    <3> QED BY <3>1, <3>2, <2>5
  <2>10. \A b \in DOMAIN batch' : batch'[b] \in [writer : Writers, ids : Seq(Nat)]
    <3>1. [i \in DOMAIN new |-> n + i] \in Seq(Nat)
      <4>1. DOMAIN new = 1 .. Len(new) /\ Len(new) \in Nat BY <2>3, LenProperties
      <4>2. [i \in DOMAIN new |-> n + i] \in [1 .. Len(new) -> Nat] BY <4>1, <2>6
      <4> QED BY <4>1, <4>2, SeqDef
    <3>2. batch'[in.batch] \in [writer : Writers, ids : Seq(Nat)] BY <3>1, <2>3
    <3>3. \A b \in DOMAIN batch : batch'[b] \in [writer : Writers, ids : Seq(Nat)]
      BY <2>2, <2>3 DEF TypeOK, FactsTypeOK
    <3> QED BY <3>2, <3>3, <2>3
  <2>11. TypeOK'
    BY <2>2, <2>3, <2>5, <2>9, <2>10 DEF TypeOK, FactsTypeOK
  <2>12. Linked'
    <3>1. ASSUME NEW i \in DOMAIN fact, fact'[i].supersedes # 0
          PROVE  SameThing(fact'[i], fact'[fact'[i].supersedes])
      <4>1. fact[i] \in Facts /\ fact[i].supersedes < i BY <2>2, <2>4, ElementOfSeq DEF TypeOK, FactsTypeOK
      <4>2. i \in 1 .. n /\ DOMAIN fact = 1 .. n BY <2>4, LenProperties DEF n
      <4>3. fact[i].supersedes \in DOMAIN fact BY <4>1, <4>2, <2>6, <3>1, <2>5 DEF Facts
      <4> QED BY <4>3, <3>1, <2>5 DEF LedgerInv, Linked
    <3>2. ASSUME NEW i \in DOMAIN new, fact'[n + i].supersedes # 0
          PROVE  SameThing(fact'[n + i], fact'[fact'[n + i].supersedes])
      BY <3>2, <2>5, <2>8
    <3> QED BY <3>1, <3>2, <2>5 DEF Linked
  <2>13. BatchesPartition'
    <3>1. BatchesPartition BY DEF LedgerInv
    <3>2. ToSet(batch'[in.batch].ids) = {n + i : i \in DOMAIN new} BY <2>3 DEF ToSet
    <3>3. \A b \in DOMAIN batch : batch'[b] = batch[b] /\ ToSet(batch[b].ids) \subseteq DOMAIN fact
      BY <2>3, <3>1 DEF BatchesPartition
    <3>4. batch'[in.batch].writer = w BY <2>3
    <3>5. ASSUME NEW i \in DOMAIN fact
          PROVE  \E b \in DOMAIN batch' :
                   /\ i \in ToSet(batch'[b].ids) /\ batch'[b].writer = fact'[i].writer
                   /\ \A c \in DOMAIN batch' \ {b} : i \notin ToSet(batch'[c].ids)
      <4>1. PICK b \in DOMAIN batch :
               /\ i \in ToSet(batch[b].ids) /\ batch[b].writer = fact[i].writer
               /\ \A c \in DOMAIN batch \ {b} : i \notin ToSet(batch[c].ids)
        BY <3>1 DEF BatchesPartition
      <4>2. i \notin ToSet(batch'[in.batch].ids) BY <3>2, <2>5
      <4> QED BY <4>1, <4>2, <3>3, <2>3, <2>5
    <3>6. ASSUME NEW i \in DOMAIN new
          PROVE  \E b \in DOMAIN batch' :
                   /\ n + i \in ToSet(batch'[b].ids) /\ batch'[b].writer = fact'[n + i].writer
                   /\ \A c \in DOMAIN batch' \ {b} : n + i \notin ToSet(batch'[c].ids)
      <4>1. n + i \in ToSet(batch'[in.batch].ids) BY <3>2
      <4>2. batch'[in.batch].writer = fact'[n + i].writer BY <3>4, <2>5, <2>7
      <4>3. \A c \in DOMAIN batch : n + i \notin ToSet(batch'[c].ids) BY <3>3, <2>5
      <4> QED BY <4>1, <4>2, <4>3, <2>3
    <3>7. \A b \in DOMAIN batch' : ToSet(batch'[b].ids) \subseteq DOMAIN fact'
      BY <3>2, <3>3, <2>3, <2>5
    <3> QED BY <3>5, <3>6, <3>7, <2>5 DEF BatchesPartition
  <2> QED BY <2>11, <2>12, <2>13 DEF LedgerInv
<1> QED BY <1>1, <1>2

(* What was known as of an observation is not touched by rows observed     *)
(* after it.                                                               *)
StandsSince ==
  \A t \in Times :
    fact' # fact /\ (\A i \in DOMAIN fact' \ DOMAIN fact : fact'[i].observed > t) =>
      \A k \in {fact'[i].kind : i \in DOMAIN fact'}, e \in Times :
        asOf(Query(k, e, t))' = asOf(Query(k, e, t))

LEMMA PastIsKept == LedgerInv /\ [Next]_vars => [StandsSince]_vars
<1> SUFFICES ASSUME LedgerInv, Next, NEW t \in Times, fact' # fact,
                    \A i \in DOMAIN fact' \ DOMAIN fact : fact'[i].observed > t,
                    NEW k, NEW e \in Times
             PROVE  asOf(Query(k, e, t))' = asOf(Query(k, e, t))
  BY DEF StandsSince
<1>1. PICK in \in Inputs : Commit(in) BY DEF Next
<1>2. TypeOK BY DEF LedgerInv
<1>3. fact' = fact \o in.facts /\ in.facts \in Seq(Facts) BY <1>1, <1>2, CommitAdds
<1>4. fact \in Seq(Facts) BY <1>2 DEF TypeOK, FactsTypeOK
<1>5. /\ fact' \in Seq(Facts) /\ DOMAIN fact \subseteq DOMAIN fact'
      /\ \A i \in DOMAIN fact : fact'[i] = fact[i]
  BY <1>3, <1>4, RowsAfter
<1>6. \A i \in DOMAIN fact' \ DOMAIN fact : ~(fact'[i].observed <= t)
  <2> SUFFICES ASSUME NEW i \in DOMAIN fact' \ DOMAIN fact PROVE ~(fact'[i].observed <= t) OBVIOUS
  <2>1. fact'[i] \in Facts BY <1>5, ElementOfSeq
  <2>2. fact'[i].observed \in Nat /\ t \in Nat /\ fact'[i].observed > t BY <2>1, TimesAssumption DEF Facts
  <2> QED BY <2>2
<1> DEFINE q == Query(k, e, t)
<1>7. q.observed = t BY DEF Query
<1> HIDE DEF q
<1>8. ASSUME NEW i PROVE Hidden(i, t)' <=> Hidden(i, t)
  BY <1>5, <1>6 DEF Hidden, Successors
<1>9. Candidates(q)' = Candidates(q)
  BY <1>5, <1>6, <1>7, <1>8 DEF Candidates
<1>10. \A i, j \in Candidates(q) :
         /\ SameThing(fact[i], fact[j])' <=> SameThing(fact[i], fact[j])
         /\ Before(j, i)' <=> Before(j, i)
  BY <1>5 DEF Candidates, SameThing, Before
<1>11. asOf(q)' = asOf(q)
  BY <1>9, <1>10 DEF asOf
<1> QED BY <1>11 DEF q

(* A set of numbers that has any and is bounded has a greatest.            *)
LEMMA GreatestNumber ==
  ASSUME NEW S, S \subseteq Nat, S # {}, NEW n \in Nat, \A i \in S : i <= n
  PROVE  \E i \in S : \A j \in S : j <= i
<1> DEFINE D == {n - i : i \in S}
<1>1. D \subseteq Nat /\ D # {}
  <2>1. \A i \in S : n - i \in Nat OBVIOUS
  <2> QED BY <2>1
<1>2. PICK d \in D : \A e \in D : d <= e
  <2> HIDE DEF D
  <2> QED BY <1>1, LeastNumber
<1>3. PICK i \in S : d = n - i BY <1>2
<1>4. ASSUME NEW j \in S PROVE j <= i
  <2>1. n - i <= n - j BY <1>2, <1>3
  <2>2. i \in Nat /\ j \in Nat OBVIOUS
  <2> QED BY <2>1, <2>2
<1> QED BY <1>4

LEMMA LatestIsLast == Latest \in Times /\ Latest \in Nat /\ \A s \in Times : s <= Latest
BY TimesAssumption DEF Latest

LEMMA RowsTyped ==
  ASSUME TypeOK, NEW i \in DOMAIN fact
  PROVE  /\ fact[i] \in Facts /\ i \in Nat \ {0} /\ i <= Len(fact)
         /\ fact[i].observed \in Times /\ fact[i].effective \in Times
         /\ fact[i].observed \in Nat /\ fact[i].effective \in Nat
         /\ fact[i].supersedes < i
<1>1. fact \in Seq(Facts) /\ fact[i].supersedes < i BY DEF TypeOK, FactsTypeOK
<1>2. fact[i] \in Facts BY <1>1, ElementOfSeq
<1>3. DOMAIN fact = 1 .. Len(fact) /\ Len(fact) \in Nat BY <1>1, LenProperties
<1>4. fact[i].observed \in Times /\ fact[i].effective \in Times BY <1>2 DEF Facts
<1>5. i \in Nat \ {0} /\ i <= Len(fact) BY <1>3
<1> QED BY <1>1, <1>2, <1>4, <1>5, TimesAssumption

(* Of rows, one comes before no other.                                     *)
LEMMA OneIsLast ==
  ASSUME TypeOK, NEW D, D \subseteq DOMAIN fact, D # {}
  PROVE  \E m \in D : \A j \in D \ {m} : Before(j, m)
<1>1. \A j \in D : /\ j \in Nat \ {0} /\ j <= Len(fact)
                   /\ fact[j].observed \in Times /\ fact[j].effective \in Times
                   /\ fact[j].observed \in Nat /\ fact[j].effective \in Nat
  BY RowsTyped
<1>2. Len(fact) \in Nat BY LenProperties DEF TypeOK, FactsTypeOK
<1> DEFINE E == {fact[j].effective : j \in D}
<1>3. PICK e \in E : \A f \in E : f <= e
  <2>1. E \subseteq Nat /\ E # {} /\ \A f \in E : f <= Latest BY <1>1, LatestIsLast
  <2> HIDE DEF E
  <2> QED BY <2>1, LatestIsLast, GreatestNumber
<1> DEFINE De == {j \in D : fact[j].effective = e}
           O == {fact[j].observed : j \in De}
<1>4. PICK o \in O : \A f \in O : f <= o
  <2>1. O \subseteq Nat /\ O # {} /\ \A f \in O : f <= Latest BY <1>1, <1>3, LatestIsLast
  <2> HIDE DEF O
  <2> QED BY <2>1, LatestIsLast, GreatestNumber
<1> DEFINE Do == {j \in De : fact[j].observed = o}
<1>5. PICK m \in Do : \A j \in Do : j <= m
  <2>1. Do \subseteq Nat /\ Do # {} /\ \A j \in Do : j <= Len(fact) BY <1>1, <1>4
  <2> HIDE DEF Do
  <2> QED BY <2>1, <1>2, GreatestNumber
<1>6. m \in D /\ fact[m].effective = e /\ fact[m].observed = o BY <1>5
<1>7. ASSUME NEW j \in D \ {m} PROVE Before(j, m)
  <2>1. fact[j].effective <= e BY <1>3
  <2>2. fact[j].effective = e => fact[j].observed <= o BY <1>4
  <2>3. fact[j].effective = e /\ fact[j].observed = o => j <= m BY <1>5
  <2>4. e \in Nat /\ o \in Nat /\ j \in Nat /\ m \in Nat /\ fact[j].effective \in Nat /\ fact[j].observed \in Nat
    BY <1>1, <1>6
  <2> QED BY <2>1, <2>2, <2>3, <2>4, <1>6 DEF Before
<1> QED BY <1>6, <1>7

(* The last row of a thing that is known by then is hidden by none, as what*)
(* would hide it is a later row of the same thing.                         *)
LEMMA LedgerAnswers == LedgerInv => Answered
<1> SUFFICES ASSUME LedgerInv, NEW t \in Times, NEW i \in DOMAIN fact, fact[i].observed <= t
             PROVE  \E j \in asOf(Query(fact[i].kind, Latest, t)) : SameThing(fact[i], fact[j])
  BY DEF Answered
<1>1. TypeOK BY DEF LedgerInv
<1> DEFINE q == Query(fact[i].kind, Latest, t)
           Told == {j \in DOMAIN fact : SameThing(fact[i], fact[j]) /\ fact[j].observed <= t}
<1>2. i \in Told BY DEF SameThing
<1>3. PICK k \in Told : \A j \in Told : j <= k
  <2>1. Told \subseteq Nat /\ Told # {} /\ \A j \in Told : j <= Len(fact) BY <1>1, <1>2, RowsTyped
  <2>2. Len(fact) \in Nat BY <1>1, LenProperties DEF TypeOK, FactsTypeOK
  <2> HIDE DEF Told
  <2> QED BY <2>1, <2>2, GreatestNumber
<1>4. k \in DOMAIN fact /\ SameThing(fact[i], fact[k]) /\ fact[k].observed <= t BY <1>3
<1>5. ~Hidden(k, t)
  <2> SUFFICES ASSUME NEW j \in DOMAIN fact, fact[j].supersedes = k, fact[j].observed <= t PROVE FALSE
    BY DEF Hidden, Successors
  <2>1. k < j /\ k # 0 /\ j \in Nat /\ k \in Nat BY <1>1, <1>4, RowsTyped
  <2>2. SameThing(fact[j], fact[k]) BY <2>1 DEF LedgerInv, Linked
  <2>3. j \in Told BY <2>2, <1>4 DEF SameThing
  <2> HIDE DEF Told
  <2> QED BY <2>1, <2>3, <1>3
<1>6. q.kind = fact[i].kind /\ q.effective = Latest /\ q.observed = t /\ q.provisional BY DEF Query
<1> HIDE DEF q
<1>7. k \in Candidates(q)
  <2>1. fact[k].effective <= Latest BY <1>1, <1>4, RowsTyped, LatestIsLast
  <2> QED BY <1>4, <1>5, <1>6, <2>1 DEF Candidates, SameThing
<1> DEFINE D == {j \in Candidates(q) : SameThing(fact[i], fact[j])}
<1>8. PICK m \in D : \A j \in D \ {m} : Before(j, m)
  <2>1. D \subseteq DOMAIN fact /\ D # {} BY <1>4, <1>7 DEF Candidates
  <2> HIDE DEF D
  <2> QED BY <2>1, <1>1, OneIsLast
<1>9. ASSUME NEW j \in Candidates(q) \ {m}, SameThing(fact[m], fact[j]) PROVE Before(j, m)
  <2>1. SameThing(fact[i], fact[j]) BY <1>8, <1>9 DEF SameThing
  <2> QED BY <2>1, <1>8
<1>10. m \in asOf(q) BY <1>8, <1>9 DEF asOf
<1> QED BY <1>8, <1>10 DEF q

-----------------------------------------------------------------------------
(* The lots.                                                               *)

(* What the operator entered has a cost.                                   *)
KnownLot == {f \in Lot : f.by = "operator" => f.cost # Unknown}
LotMaps == UNION {[S -> KnownLot] : S \in SUBSET LotIds}

LotsTyped ==
  /\ lotFact \in [LotIds -> KnownLot \cup {Unknown}]
  /\ positionFact \in HeldPosition \cup {Unknown}
  /\ normalized # Unknown => normalized \in NightsFacts /\ normalized.lots \in LotMaps
  /\ lotsClock \in 0 .. MaxInstant /\ disturbed \in BOOLEAN

(* A night that no edit crossed holds what its report and the lots in      *)
(* force come to.                                                          *)
NightStands ==
  normalized # Unknown /\ ~normalized.crossed =>
    normalized.lots = LotFacts(normalized.report, lotsClock)

LotsInv == LotsTyped /\ NightStands

LEMMA DivisionBounds ==
  ASSUME NEW a \in Int, NEW b \in Nat \ {0}
  PROVE  /\ a \div b \in Int
         /\ b * (a \div b) <= a /\ a < b * (a \div b) + b
OBVIOUS

(* A rounded share is off by half of what it is a share of, at most.       *)
LEMMA Rounding ==
  ASSUME NEW n \in Int, NEW d \in Nat \ {0}
  PROVE  /\ RoundedRatio(n, d) \in Int
         /\ 2 * (d * RoundedRatio(n, d) - n) \in (-d) .. d
<1> DEFINE r == (2 * n + d) \div (2 * d)
<1>1. 2 * n + d \in Int /\ 2 * d \in Nat \ {0} OBVIOUS
<1>2. r \in Int /\ (2 * d) * r <= 2 * n + d /\ 2 * n + d < (2 * d) * r + 2 * d
  BY <1>1, DivisionBounds
<1> HIDE DEF r
<1> DEFINE p == d * r
<1>3. p \in Int /\ (2 * d) * r = 2 * p BY <1>2
<1> HIDE DEF p
<1>4. 2 * (p - n) \in (-d) .. d BY <1>2, <1>3
<1> QED BY <1>2, <1>4 DEF RoundedRatio, r, p

LEMMA EffectiveIsKnown ==
  ASSUME LotsTyped, NEW l \in LotIds, NEW lot \in Listings, NEW now \in 0 .. MaxInstant
  PROVE  EffectiveLot(l, lot, now) \in KnownLot
<1> DEFINE has == lotFact[l]
<1>1. /\ lot.quantity \in Nat /\ lot.cost \in Int \cup {Unknown} /\ lot.acquired \in Days
  BY DEF Listings
<1>2. CASE /\ has # Unknown /\ lot.cost = Unknown
           /\ has.by = "operator" /\ has.cost # Unknown /\ has.quantity # 0
  <2>1. has \in Lot BY <1>2 DEF LotsTyped, KnownLot
  <2>2. has.quantity \in Nat \ {0} /\ has.cost \in Int /\ has.acquired \in Days
    BY <1>2, <2>1 DEF Lot
  <2>3. CarriedBasis(has, lot.quantity) \in Int
    <3>1. has.cost * lot.quantity \in Int BY <1>1, <2>2
    <3> QED BY <3>1, <2>2, Rounding DEF CarriedBasis
  <2>4. CarriedBasis(has, lot.quantity) # Unknown BY <2>3, UnknownAssumption
  <2>5. EffectiveLot(l, lot, now) =
          [quantity |-> lot.quantity, cost |-> CarriedBasis(has, lot.quantity),
           acquired |-> has.acquired, by |-> "operator", at |-> now]
    BY <1>2 DEF EffectiveLot
  <2> HIDE DEF has
  <2> QED BY <1>1, <2>2, <2>3, <2>4, <2>5 DEF KnownLot, Lot
<1>3. CASE ~(/\ has # Unknown /\ lot.cost = Unknown
             /\ has.by = "operator" /\ has.cost # Unknown /\ has.quantity # 0)
  <2>1. EffectiveLot(l, lot, now) =
          [quantity |-> lot.quantity, cost |-> lot.cost, acquired |-> lot.acquired,
           by |-> "feed", at |-> now]
    BY <1>3 DEF EffectiveLot
  <2> QED BY <2>1, <1>1 DEF KnownLot, Lot
<1> QED BY <1>2, <1>3

LEMMA LotFactsKnown ==
  ASSUME LotsTyped, NEW r \in LotReports, NEW now \in 0 .. MaxInstant
  PROVE  LotFacts(r, now) \in LotMaps
<1>1. CASE ~r.listed \/ r.lots = NoLots
  <2>1. LotFacts(r, now) = [l \in {} |-> Unknown] BY <1>1 DEF LotFacts
  <2>2. [l \in {} |-> Unknown] \in [{} -> KnownLot] OBVIOUS
  <2> QED BY <2>1, <2>2 DEF LotMaps
<1>2. CASE r.listed /\ r.lots # NoLots
  <2> DEFINE listed == DOMAIN r.lots
             changed == {l \in listed : ~sameLot(lotFact[l], EffectiveLot(l, r.lots[l], now))}
             gone == LiveIn(lotFact) \ listed
             facts == [l \in changed \cup gone |->
                         IF l \in listed THEN EffectiveLot(l, r.lots[l], now)
                                         ELSE [lotFact[l] EXCEPT !.quantity = 0, !.at = now]]
  <2>1. LotFacts(r, now) = facts BY <1>2 DEF LotFacts
  <2>2. listed \subseteq LotIds /\ \A l \in listed : r.lots[l] \in Listings
    BY <1>2, ReportsAssumption DEF LotIds
  <2>3. gone \subseteq LotIds /\ \A l \in gone : lotFact[l] \in KnownLot
    BY DEF LiveIn, LotsTyped
  <2>4. ASSUME NEW l \in changed PROVE EffectiveLot(l, r.lots[l], now) \in KnownLot
    BY <2>2, EffectiveIsKnown
  <2>5. ASSUME NEW l \in gone PROVE [lotFact[l] EXCEPT !.quantity = 0, !.at = now] \in KnownLot
    BY <2>3 DEF KnownLot, Lot
  <2>6. changed \cup gone \in SUBSET LotIds BY <2>2, <2>3
  <2>7. gone \cap listed = {} /\ changed \subseteq listed OBVIOUS
  <2> HIDE DEF changed, gone, listed
  <2>8. facts \in [changed \cup gone -> KnownLot] BY <2>4, <2>5, <2>7
  <2> HIDE DEF facts
  <2> QED BY <2>1, <2>6, <2>8 DEF LotMaps
<1> QED BY <1>1, <1>2

(* Sums over finitely many lots, by the lemmas above.                      *)
CostSum(lots, S) == Over(S, LAMBDA l : lots[l].cost)
QuantitySum(lots, S) == Over(S, LAMBDA l : lots[l].quantity)
ShareSum(ids, total, all, n) ==
  Over(1 .. n, LAMBDA i : RoundedRatio(total * lotFact[ids[i]].quantity, all))

LEMMA CostsAddUp ==
  ASSUME NEW lots, NEW S, IsFiniteSet(S), \A l \in S : lots[l].cost \in Int
  PROVE  CostSum(lots, S) \in Int
<1> DEFINE F == [l \in S |-> lots[l].cost]
           Q(h) == h = [s \in SUBSET S |->
                          IF s = {} THEN 0
                          ELSE lots[CHOOSE x \in s : TRUE].cost + h[s \ {CHOOSE x \in s : TRUE}]]
           c == CHOOSE h : Q(h)
<1>1. F \in [S -> Int] OBVIOUS
<1>2. ASSUME NEW h PROVE Q(h) <=> Sums(h, F, S)
  <2>1. ASSUME NEW s \in SUBSET S
        PROVE  (IF s = {} THEN 0
                ELSE lots[CHOOSE x \in s : TRUE].cost + h[s \ {CHOOSE x \in s : TRUE}]) = SumTerm(h, F, s)
    BY ChosenIn DEF SumTerm, Chosen
  <2> QED BY <2>1 DEF Sums
<1>3. CostSum(lots, S) = c[S]
  BY DEF CostSum, Over, MapThenSumSet, MapThenFoldSet
<1> HIDE DEF Q, F
<1>4. Q(c) BY <1>1, <1>2, SumExists
<1> HIDE DEF c
<1>5. Sums(c, F, S) BY <1>2, <1>4
<1> QED BY <1>1, <1>3, <1>5, SumIsInt

LEMMA QuantitiesAddUp ==
  ASSUME NEW lots, NEW S, IsFiniteSet(S), \A l \in S : lots[l].quantity \in Nat
  PROVE  /\ QuantitySum(lots, S) \in Nat
         /\ \A l \in S : lots[l].quantity <= QuantitySum(lots, S)
<1> DEFINE F == [l \in S |-> lots[l].quantity]
           Q(h) == h = [s \in SUBSET S |->
                          IF s = {} THEN 0
                          ELSE lots[CHOOSE x \in s : TRUE].quantity + h[s \ {CHOOSE x \in s : TRUE}]]
           c == CHOOSE h : Q(h)
<1>1. F \in [S -> Int] /\ F \in [S -> Nat] OBVIOUS
<1>2. ASSUME NEW h PROVE Q(h) <=> Sums(h, F, S)
  <2>1. ASSUME NEW s \in SUBSET S
        PROVE  (IF s = {} THEN 0
                ELSE lots[CHOOSE x \in s : TRUE].quantity + h[s \ {CHOOSE x \in s : TRUE}]) = SumTerm(h, F, s)
    BY ChosenIn DEF SumTerm, Chosen
  <2> QED BY <2>1 DEF Sums
<1>3. QuantitySum(lots, S) = c[S]
  BY DEF QuantitySum, Over, MapThenSumSet, MapThenFoldSet
<1>4. \A l \in S : F[l] = lots[l].quantity OBVIOUS
<1> HIDE DEF Q, F
<1>5. Q(c) BY <1>1, <1>2, SumExists
<1> HIDE DEF c
<1>6. Sums(c, F, S) BY <1>2, <1>5
<1>7. \A s \in SUBSET S : c[s] \in Nat BY <1>1, <1>6, SumIsNat
<1>8. ASSUME NEW l \in S PROVE F[l] <= c[S]
  <2>1. S \in SUBSET S /\ S \ {l} \in SUBSET S OBVIOUS
  <2>2. c[S] = F[l] + c[S \ {l}] BY <1>1, <1>6, <2>1, SumAny
  <2>3. F[l] \in Nat /\ c[S \ {l}] \in Nat BY <1>1, <1>7, <2>1
  <2> QED BY <2>2, <2>3
<1> QED BY <1>3, <1>4, <1>7, <1>8

LEMMA SharesAddUp ==
  ASSUME NEW ids, NEW total, NEW all, NEW n \in Int,
         \A i \in 1 .. n : RoundedRatio(total * lotFact[ids[i]].quantity, all) \in Int
  PROVE  ShareSum(ids, total, all, n) \in Int
<1> DEFINE S == 1 .. n
           F == [i \in S |-> RoundedRatio(total * lotFact[ids[i]].quantity, all)]
           Q(h) == h = [s \in SUBSET S |->
                          IF s = {} THEN 0
                          ELSE RoundedRatio(total * lotFact[ids[CHOOSE x \in s : TRUE]].quantity, all)
                                 + h[s \ {CHOOSE x \in s : TRUE}]]
           c == CHOOSE h : Q(h)
<1>1. F \in [S -> Int] /\ IsFiniteSet(S)
  <2>1. IsFiniteSet(S) BY FS_Interval
  <2>2. F \in [S -> Int] OBVIOUS
  <2> QED BY <2>1, <2>2
<1>2. ASSUME NEW h PROVE Q(h) <=> Sums(h, F, S)
  <2> HIDE DEF S
  <2>1. ASSUME NEW s \in SUBSET S
        PROVE  (IF s = {} THEN 0
                ELSE RoundedRatio(total * lotFact[ids[CHOOSE x \in s : TRUE]].quantity, all)
                       + h[s \ {CHOOSE x \in s : TRUE}]) = SumTerm(h, F, s)
    BY ChosenIn DEF SumTerm, Chosen
  <2> QED BY <2>1 DEF Sums
<1>3. ShareSum(ids, total, all, n) = c[S]
  BY DEF ShareSum, Over, MapThenSumSet, MapThenFoldSet
<1> HIDE DEF Q, F, S
<1>4. Q(c) BY <1>1, <1>2, SumExists
<1> HIDE DEF c
<1>5. Sums(c, F, S) BY <1>2, <1>4
<1> QED BY <1>1, <1>3, <1>5, SumIsInt

LEMMA BasisIsKnown ==
  ASSUME NEW lots, IsFiniteSet(DOMAIN lots),
         \A l \in DOMAIN lots : lots[l] # Unknown => lots[l].cost \in Int \cup {Unknown},
         NEW quantity
  PROVE  BasisOf(lots, quantity) \in Int \cup {Unknown}
<1> DEFINE live == LiveIn(lots)
<1>1. live \subseteq DOMAIN lots /\ IsFiniteSet(live) BY FS_Subset DEF LiveIn
<1>2. \A l \in live : lots[l].cost # Unknown => lots[l].cost \in Int BY DEF LiveIn
<1>3. CASE \A l \in live : lots[l].cost # Unknown
  <2>1. CostSum(lots, live) \in Int BY <1>1, <1>2, <1>3, CostsAddUp
  <2>2. BasisOf(lots, quantity) = CostSum(lots, live) \/ BasisOf(lots, quantity) = Unknown
    BY DEF BasisOf, CostSum
  <2> QED BY <2>1, <2>2
<1>4. CASE ~ \A l \in live : lots[l].cost # Unknown
  BY <1>4 DEF BasisOf
<1> QED BY <1>3, <1>4

LEMMA SharesKnown ==
  ASSUME LotsTyped, NEW ids \in Seq({l \in LotIds : lotFact[l] # Unknown}), NEW total \in Nat,
         \E i \in DOMAIN ids : lotFact[ids[i]].quantity > 0
  PROVE  \A i \in DOMAIN ids : Shares(ids, total)[i] \in Int
<1> DEFINE all == QuantitySum(lotFact, ToSet(ids))
           share(i) == RoundedRatio(total * lotFact[ids[i]].quantity, all)
<1>1. DOMAIN ids = 1 .. Len(ids) /\ Len(ids) \in Nat
      /\ \A i \in DOMAIN ids : ids[i] \in LotIds /\ lotFact[ids[i]] # Unknown
  BY LenProperties, ElementOfSeq
<1>2. \A i \in DOMAIN ids : lotFact[ids[i]].quantity \in Nat
  <2> SUFFICES ASSUME NEW i \in DOMAIN ids PROVE lotFact[ids[i]].quantity \in Nat OBVIOUS
  <2>1. lotFact[ids[i]] \in Lot BY <1>1 DEF LotsTyped, KnownLot
  <2> QED BY <2>1 DEF Lot
<1>3. ToSet(ids) \subseteq LotIds /\ IsFiniteSet(ToSet(ids)) /\ \A l \in ToSet(ids) : lotFact[l].quantity \in Nat
  <2>1. ToSet(ids) \subseteq LotIds BY <1>1 DEF ToSet
  <2> QED BY <2>1, <1>2, LotIdsAssumption, FS_Subset DEF ToSet
<1>4. all \in Nat /\ \A l \in ToSet(ids) : lotFact[l].quantity <= all
  BY <1>3, QuantitiesAddUp
<1>5. PICK i \in DOMAIN ids : lotFact[ids[i]].quantity > 0 OBVIOUS
<1>6. ids[i] \in ToSet(ids) BY DEF ToSet
<1>7. all # 0 BY <1>2, <1>4, <1>5, <1>6
<1> HIDE DEF all
<1>8. \A j \in DOMAIN ids : share(j) \in Int
  <2> SUFFICES ASSUME NEW j \in DOMAIN ids PROVE share(j) \in Int OBVIOUS
  <2>1. total * lotFact[ids[j]].quantity \in Int BY <1>2
  <2> QED BY <2>1, <1>4, <1>7, Rounding
<1>9. ShareSum(ids, total, all, Len(ids) - 1) \in Int
  <2>1. Len(ids) - 1 \in Int /\ \A j \in 1 .. Len(ids) - 1 : j \in DOMAIN ids BY <1>1
  <2>2. \A j \in 1 .. Len(ids) - 1 : RoundedRatio(total * lotFact[ids[j]].quantity, all) \in Int
    BY <2>1, <1>8
  <2> QED BY <2>1, <2>2, SharesAddUp
<1>10. \A j \in DOMAIN ids : Shares(ids, total)[j] = IF j < Len(ids) THEN share(j)
                                                     ELSE total - ShareSum(ids, total, all, Len(ids) - 1)
  BY DEF Shares, all, ShareSum, QuantitySum
<1> QED BY <1>8, <1>9, <1>10

LEMMA PositionKnown ==
  ASSUME LotsTyped, NEW r \in LotReports, NEW now \in 0 .. MaxInstant
  PROVE  PositionFact(r, now) \in HeldPosition \cup {Unknown}
<1>1. CASE ~r.listed
  BY <1>1 DEF PositionFact, LotsTyped, HeldPosition
<1>2. CASE r.listed
  <2> DEFINE lots == IF r.lots = NoLots THEN lotFact
                     ELSE [l \in DOMAIN r.lots |-> EffectiveLot(l, r.lots[l], now)]
  <2>1. r.quantity \in Nat /\ r.stated \in Int \cup {Unknown} BY ReportsAssumption
  <2>2. BasisOf(lots, r.quantity) \in Int \cup {Unknown}
    <3>1. CASE r.lots = NoLots
      <4>1. DOMAIN lotFact = LotIds /\ IsFiniteSet(DOMAIN lotFact) BY LotIdsAssumption DEF LotsTyped
      <4>2. \A l \in LotIds : lotFact[l] # Unknown => lotFact[l].cost \in Int \cup {Unknown}
        BY DEF LotsTyped, KnownLot, Lot
      <4> QED BY <3>1, <4>1, <4>2, BasisIsKnown
    <3>2. CASE r.lots # NoLots
      <4>1. DOMAIN r.lots \subseteq LotIds /\ \A l \in DOMAIN r.lots : r.lots[l] \in Listings
        BY <3>2, ReportsAssumption DEF LotIds
      <4>2. IsFiniteSet(DOMAIN r.lots) BY <4>1, LotIdsAssumption, FS_Subset
      <4>3. \A l \in DOMAIN r.lots : EffectiveLot(l, r.lots[l], now) \in KnownLot
        BY <4>1, EffectiveIsKnown
      <4>4. \A l \in DOMAIN lots : lots[l] \in KnownLot BY <3>2, <4>3
      <4>5. \A l \in DOMAIN lots : lots[l].cost \in Int \cup {Unknown} BY <4>4 DEF KnownLot, Lot
      <4>6. IsFiniteSet(DOMAIN lots) BY <3>2, <4>2
      <4> HIDE DEF lots
      <4> QED BY <4>5, <4>6, BasisIsKnown
    <3> QED BY <3>1, <3>2
  <2>3. PositionFact(r, now) =
          [quantity |-> r.quantity, at |-> now,
           cost |-> IF r.stated # Unknown THEN r.stated ELSE BasisOf(lots, r.quantity)]
    BY <1>2 DEF PositionFact
  <2> HIDE DEF lots
  <2> QED BY <2>1, <2>2, <2>3 DEF HeldPosition
<1> QED BY <1>1, <1>2

LEMMA LotsStart == LotsInit => LotsInv
<1> SUFFICES ASSUME LotsInit PROVE LotsInv OBVIOUS
<1>1. lotFact \in [LotIds -> KnownLot \cup {Unknown}] BY DEF LotsInit
<1>2. lotsClock \in 0 .. MaxInstant BY TotalsAssumption DEF LotsInit
<1> QED BY <1>1, <1>2 DEF LotsInit, LotsInv, LotsTyped, NightStands

LEMMA LotFactsSame ==
  ASSUME lotFact' = lotFact, NEW r, NEW now
  PROVE  LotFacts(r, now)' = LotFacts(r, now)
BY DEF LotFacts, EffectiveLot, CarriedBasis, RoundedRatio, LiveIn, sameLot

LEMMA NightCounts == 0 .. MaxInstant \subseteq Nat /\ \A n \in 0 .. MaxInstant : n < MaxInstant => n + 1 \in 0 .. MaxInstant
BY TotalsAssumption

LEMMA EditKeeps ==
  ASSUME LotsInv, lotsClock < MaxInstant, NEW cut \in BOOLEAN,
         NEW lots \in [LotIds -> KnownLot \cup {Unknown}], EditLots(lots, cut)
  PROVE  LotsInv'
<1>1. lotsClock' \in 0 .. MaxInstant /\ lotsClock + 1 \in 0 .. MaxInstant
  BY NightCounts DEF LotsInv, LotsTyped, EditLots
<1>2. positionFact' \in HeldPosition \cup {Unknown}
  <2> DEFINE basis == FillOf(lots, positionFact)
  <2>1. basis \in Int \cup {Unknown}
    <3>1. DOMAIN lots = LotIds /\ IsFiniteSet(DOMAIN lots) BY LotIdsAssumption
    <3>2. \A l \in DOMAIN lots : lots[l] # Unknown => lots[l].cost \in Int \cup {Unknown}
      BY DEF KnownLot, Lot
    <3> QED BY <3>1, <3>2, BasisIsKnown DEF FillOf
  <2>2. basis # Unknown => positionFact # Unknown BY DEF FillOf
  <2>3. fillPositionBasis(lots, lotsClock + 1) =
          IF basis = Unknown \/ positionFact.cost = basis THEN positionFact
          ELSE [positionFact EXCEPT !.cost = basis, !.at = lotsClock + 1]
    BY DEF fillPositionBasis
  <2> HIDE DEF basis
  <2>4. fillPositionBasis(lots, lotsClock + 1) \in HeldPosition \cup {Unknown}
    BY <1>1, <2>1, <2>2, <2>3 DEF LotsInv, LotsTyped, HeldPosition
  <2> QED BY <2>4 DEF EditLots, LotsInv, LotsTyped
<1>3. normalized' # Unknown =>
        normalized' \in NightsFacts /\ normalized'.lots \in LotMaps /\ normalized'.crossed
  <2> SUFFICES ASSUME normalized' # Unknown
               PROVE  normalized' \in NightsFacts /\ normalized'.lots \in LotMaps /\ normalized'.crossed
    OBVIOUS
  <2>1. normalized # Unknown /\ normalized' = [normalized EXCEPT !.crossed = TRUE]
    BY DEF EditLots
  <2>2. normalized \in NightsFacts /\ normalized.lots \in LotMaps BY <2>1 DEF LotsInv, LotsTyped
  <2> QED BY <2>1, <2>2 DEF NightsFacts
<1>4. lotFact' = lots /\ disturbed' = (disturbed \/ cut) BY DEF EditLots
<1>5. disturbed' \in BOOLEAN BY <1>4 DEF LotsInv, LotsTyped
<1> QED BY <1>1, <1>2, <1>3, <1>4, <1>5 DEF LotsInv, LotsTyped, NightStands

LEMMA SetBasisKeeps ==
  ASSUME LotsInv, NEW ids, NEW perUnit \in BOOLEAN, NEW amount \in EnteredTotals, NEW day \in Days,
         NEW cut \in BOOLEAN, setLotBasis(ids, perUnit, amount, day, cut)
  PROVE  LotsInv'
<1> DEFINE shares == IF perUnit THEN [i \in DOMAIN ids |-> amount * lotFact[ids[i]].quantity]
                                ELSE Shares(ids, amount)
           at(l)  == CHOOSE i \in DOMAIN ids : ids[i] = l
           lots == [l \in LotIds |->
                      IF l \in ToSet(ids)
                        THEN [lotFact[l] EXCEPT !.cost = shares[at(l)], !.by = "operator",
                                                !.acquired = day, !.at = lotsClock + 1]
                        ELSE lotFact[l]]
<1>1. /\ lotsClock < MaxInstant /\ ids \in Seq({l \in LotIds : lotFact[l] # Unknown})
      /\ \E i \in DOMAIN ids : lotFact[ids[i]].quantity > 0
      /\ EditLots(lots, cut)
  BY DEF setLotBasis
<1>2. LotsTyped /\ amount \in Nat BY TotalsAssumption DEF LotsInv
<1>3. \A i \in DOMAIN ids : ids[i] \in LotIds /\ lotFact[ids[i]] # Unknown
  <2>1. PICK S : S = {l \in LotIds : lotFact[l] # Unknown} OBVIOUS
  <2>2. ids \in Seq(S) BY <1>1, <2>1
  <2>3. \A i \in DOMAIN ids : ids[i] \in S BY <2>2, ElementOfSeq
  <2> QED BY <2>1, <2>3
<1>4. \A i \in DOMAIN ids : lotFact[ids[i]].quantity \in Nat
  <2> SUFFICES ASSUME NEW i \in DOMAIN ids PROVE lotFact[ids[i]].quantity \in Nat OBVIOUS
  <2>1. lotFact[ids[i]] \in Lot BY <1>2, <1>3 DEF LotsTyped, KnownLot
  <2> QED BY <2>1 DEF Lot
<1>5. \A i \in DOMAIN ids : shares[i] \in Int
  <2>1. CASE perUnit BY <2>1, <1>2, <1>4
  <2>2. CASE ~perUnit BY <2>2, <1>1, <1>2, SharesKnown
  <2> QED BY <2>1, <2>2
<1>6. lotsClock + 1 \in 0 .. MaxInstant BY <1>1, NightCounts DEF LotsInv, LotsTyped
<1>7. ASSUME NEW l \in LotIds, l \in ToSet(ids) PROVE at(l) \in DOMAIN ids /\ lotFact[l] \in Lot
  <2>1. PICK i \in DOMAIN ids : ids[i] = l BY <1>7 DEF ToSet
  <2> QED BY <2>1, <1>2, <1>3 DEF LotsTyped, KnownLot
<1> HIDE DEF shares, at
<1>8. lots \in [LotIds -> KnownLot \cup {Unknown}]
  <2> SUFFICES ASSUME NEW l \in LotIds PROVE lots[l] \in KnownLot \cup {Unknown} OBVIOUS
  <2>1. CASE l \in ToSet(ids)
    <3>1. shares[at(l)] \in Int /\ shares[at(l)] # Unknown BY <2>1, <1>5, <1>7, UnknownAssumption
    <3>2. lotFact[l] \in Lot BY <2>1, <1>7
    <3>3. lots[l] = [lotFact[l] EXCEPT !.cost = shares[at(l)], !.by = "operator",
                                       !.acquired = day, !.at = lotsClock + 1] BY <2>1
    <3> HIDE DEF lots
    <3> QED BY <3>1, <3>2, <3>3, <1>6 DEF KnownLot, Lot
  <2>2. CASE l \notin ToSet(ids) BY <2>2, <1>2 DEF LotsTyped
  <2> QED BY <2>1, <2>2
<1> HIDE DEF lots
<1> QED BY <1>1, <1>8, EditKeeps

LEMMA AddKeeps ==
  ASSUME LotsInv, NEW quantity \in 1 .. 2, NEW amount \in EnteredTotals, NEW day \in Days,
         NEW cut \in BOOLEAN, addLot(quantity, amount, day, cut)
  PROVE  LotsInv'
<1> DEFINE lot == [quantity |-> quantity, cost |-> amount, acquired |-> day,
                   by |-> "operator", at |-> lotsClock + 1]
<1>1. PICK l \in OwnLots : lotsClock < MaxInstant /\ EditLots([lotFact EXCEPT ![l] = lot], cut)
  BY DEF addLot
<1>2. lotsClock + 1 \in 0 .. MaxInstant BY <1>1, NightCounts DEF LotsInv, LotsTyped
<1>3. amount \in Int /\ amount # Unknown BY TotalsAssumption, UnknownAssumption
<1>4. lot \in KnownLot BY <1>2, <1>3 DEF KnownLot, Lot
<1> HIDE DEF lot
<1>5. [lotFact EXCEPT ![l] = lot] \in [LotIds -> KnownLot \cup {Unknown}]
  BY <1>4 DEF LotsInv, LotsTyped
<1> QED BY <1>1, <1>5, EditKeeps

LEMMA NormalizeKeeps ==
  ASSUME LotsInv, NEW r \in LotReports, NormalizeHolding(r)
  PROVE  LotsInv'
<1>1. LotsTyped /\ lotsClock + 1 \in 0 .. MaxInstant
  BY NightCounts DEF LotsInv, LotsTyped, NormalizeHolding
<1> DEFINE lots == LotFacts(r, lotsClock + 1)
           position == PositionFact(r, lotsClock + 1)
<1>2. lots \in LotMaps /\ position \in HeldPosition \cup {Unknown}
  BY <1>1, LotFactsKnown, PositionKnown
<1>3. LotMaps \subseteq UNION {[S -> Lot] : S \in SUBSET LotIds} BY DEF LotMaps, KnownLot
<1>4. normalized' = [report |-> r, lots |-> lots, position |-> position, crossed |-> FALSE]
  BY DEF NormalizeHolding
<1>6. ASSUME NEW now, now = lotsClock' PROVE LotFacts(r, now)' = lots
  <2>1. lotFact' = lotFact /\ lotsClock' = lotsClock + 1 BY DEF NormalizeHolding
  <2>2. LotFacts(r, now)' = LotFacts(r, now) BY <2>1, LotFactsSame
  <2> QED BY <1>6, <2>1, <2>2
<1> HIDE DEF lots, position
<1>7. normalized' \in NightsFacts BY <1>2, <1>3, <1>4 DEF NightsFacts
<1>8. LotsTyped' BY <1>1, <1>2, <1>4, <1>7 DEF LotsTyped, NormalizeHolding
<1>9. normalized'.report = r /\ normalized'.lots = lots BY <1>4
<1>10. NightStands'
  <2>1. PICK now : now = lotsClock' OBVIOUS
  <2>2. LotFacts(r, now)' = lots BY <1>6, <2>1
  <2>3. LotFacts(r, lotsClock)' = lots BY <2>1, <2>2
  <2> QED BY <2>3, <1>9 DEF NightStands
<1> QED BY <1>8, <1>10 DEF LotsInv

LEMMA CommitKeeps == ASSUME LotsInv, CommitHolding PROVE LotsInv'
<1>1. normalized # Unknown /\ normalized \in NightsFacts /\ normalized.lots \in LotMaps
  BY DEF LotsInv, LotsTyped, CommitHolding
<1>2. \A l \in DOMAIN normalized.lots : normalized.lots[l] \in KnownLot BY <1>1 DEF LotMaps
<1>3. lotFact' \in [LotIds -> KnownLot \cup {Unknown}]
  <2>1. \A l \in LotIds : lotFact[l] \in KnownLot \cup {Unknown} BY DEF LotsInv, LotsTyped
  <2>2. \A l \in LotIds : InForce(lotFact[l], normalized.lots[l]) \in {lotFact[l], normalized.lots[l]}
    BY DEF InForce
  <2> QED BY <1>2, <2>1, <2>2 DEF CommitHolding
<1>4. positionFact' \in HeldPosition \cup {Unknown}
  BY <1>1 DEF CommitHolding, InForce, NightsFacts, LotsInv, LotsTyped
<1>5. normalized.crossed \in BOOLEAN /\ normalized.report.listed \in BOOLEAN
  BY <1>1, ReportsAssumption DEF NightsFacts
<1>6. disturbed' \in BOOLEAN BY <1>5 DEF CommitHolding, LotsInv, LotsTyped
<1>7. normalized' = Unknown /\ lotsClock' = lotsClock BY DEF CommitHolding
<1> QED BY <1>3, <1>4, <1>6, <1>7 DEF LotsInv, LotsTyped, NightStands

LEMMA LotsStep == LotsInv /\ [LotsNext]_LotsVars => LotsInv'
<1> SUFFICES ASSUME LotsInv, [LotsNext]_LotsVars PROVE LotsInv' OBVIOUS
<1>1. CASE UNCHANGED LotsVars
  <2>1. NightStands'
    <3>1. lotFact' = lotFact /\ normalized' = normalized /\ lotsClock' = lotsClock BY <1>1 DEF LotsVars
    <3>2. PICK r, now : r = normalized.report /\ now = lotsClock OBVIOUS
    <3>3. LotFacts(r, now)' = LotFacts(r, now) BY <3>1, LotFactsSame
    <3>4. LotFacts(normalized.report, lotsClock)' = LotFacts(normalized.report, lotsClock) BY <3>1, <3>2, <3>3
    <3> QED BY <3>1, <3>4 DEF LotsInv, NightStands
  <2> QED BY <2>1, <1>1 DEF LotsInv, LotsTyped, LotsVars
<1>2. ASSUME NEW r \in LotReports, NormalizeHolding(r) PROVE LotsInv' BY <1>2, NormalizeKeeps
<1>3. CASE CommitHolding BY <1>3, CommitKeeps
<1>4. ASSUME NEW i \in DOMAIN LotRows, NEW perUnit \in BOOLEAN, NEW cut \in BOOLEAN,
             NEW amount \in EnteredTotals, NEW day \in Days,
             setLotBasis(LotRows[i].lots, perUnit, amount, day, cut)
      PROVE  LotsInv'
  <2>1. PICK ids : ids = LotRows[i].lots OBVIOUS
  <2> QED BY <1>4, <2>1, SetBasisKeeps
<1>5. ASSUME NEW quantity \in 1 .. 2, NEW amount \in EnteredTotals, NEW day \in Days,
             NEW cut \in BOOLEAN, addLot(quantity, amount, day, cut)
      PROVE  LotsInv'
  BY <1>5, AddKeeps
<1> QED BY <1>1, <1>2, <1>3, <1>4, <1>5 DEF LotsNext

-----------------------------------------------------------------------------
(* The registry.                                                           *)

LEMMA SeqOfSet ==
  ASSUME NEW S, IsFiniteSet(S)
  PROVE  /\ SetToSeq(S) \in Seq(S)
         /\ \A x \in S : \E i \in DOMAIN SetToSeq(S) : SetToSeq(S)[i] = x
         /\ IsInjective(SetToSeq(S))
         /\ \A i \in DOMAIN SetToSeq(S) : SetToSeq(S)[i] \in S
<1>1. PICK n : n = Cardinality(S) OBVIOUS
<1>2. n \in Nat /\ ExistsBijection(1 .. n, S) BY <1>1, FS_CardinalityType
<1>3. PICK b \in Bijection(1 .. n, S) : TRUE BY <1>2 DEF ExistsBijection
<1>4. b \in [1 .. n -> S] /\ IsInjective(b) BY <1>3 DEF Bijection, Injection
<1>5. PICK q : q = SetToSeq(S) OBVIOUS
<1>6. q \in [1 .. n -> S] /\ IsInjective(q)
  <2>1. q = CHOOSE f \in [1 .. n -> S] : IsInjective(f) BY <1>1, <1>5 DEF SetToSeq
  <2> QED BY <1>4, <2>1
<1>7. q \in Injection(1 .. n, S) BY <1>6 DEF Injection
<1>8. IsFiniteSet(1 .. n) /\ Cardinality(1 .. n) = n BY <1>2, FS_Interval
<1>9. q \in Surjection(1 .. n, S) BY <1>1, <1>7, <1>8, FS_Injection
<1>10. \A x \in S : \E i \in 1 .. n : q[i] = x BY <1>9 DEF Surjection
<1>11. q \in Seq(S) BY <1>2, <1>6
<1>12. DOMAIN q = 1 .. n BY <1>6
<1> QED BY <1>5, <1>6, <1>10, <1>11, <1>12

EstateThings == UNION {DOMAIN f.entities \cup DOMAIN f.observed : f \in EstateFiles}
EstatePayloads == UNION {{f.entities[e] : e \in DOMAIN f.entities} \cup {f.observed[a] : a \in DOMAIN f.observed} :
                           f \in EstateFiles}
EstateRows ==
  {[subject |-> s, payload |-> p, effective |-> CountsFrom(s, p), supersedes |-> i, batch |-> r] :
     s \in EstateThings, p \in EstatePayloads, i \in Nat, r \in EstateRuns}

Live(i) == i \in DOMAIN estateFacts /\ \A j \in DOMAIN estateFacts : estateFacts[j].supersedes # i

EstateRecords ==
  /\ estate \in EstateFiles /\ mirrored \in EstateFiles \cup {NoFile}
  /\ estateFacts \in Seq(EstateRows)
  /\ \A i \in DOMAIN estateFacts : estateFacts[i].supersedes < i
  /\ \A g \in gaps : g = [of |-> g.of, batch |-> g.batch, open |-> g.open]
  /\ compared \in BOOLEAN

(* Of one subject one fact at most is in force.                            *)
OneInForce ==
  \A i, j \in DOMAIN estateFacts :
    Live(i) /\ Live(j) /\ estateFacts[i].subject = estateFacts[j].subject => i = j

(* What an audit found that nothing changed since is asked.                *)
AllAsked == compared => \A d \in estateHygiene : \E g \in gaps : g.open /\ g.of = d

EstateInv == EstateRecords /\ OneInForce /\ RegistryMirrors /\ OneGapOneQuestion /\ AllAsked

LEMMA EstateRowsTyped ==
  ASSUME NEW x \in EstateRows
  PROVE  x.subject \in EstateThings /\ x.supersedes \in Nat
BY DEF EstateRows

EstateSeq == estateFacts \in Seq(EstateRows)

InEffectTold ==
  \A s :
    /\ \A i \in DOMAIN estateFacts : Live(i) /\ estateFacts[i].subject = s => InEffect(s) = i
    /\ (\A i \in DOMAIN estateFacts : Live(i) => estateFacts[i].subject # s) => InEffect(s) = 0

LEMMA InEffectIs == EstateSeq /\ OneInForce => InEffectTold
<1> SUFFICES ASSUME EstateSeq, OneInForce, NEW s
             PROVE  /\ \A i \in DOMAIN estateFacts : Live(i) /\ estateFacts[i].subject = s => InEffect(s) = i
                    /\ (\A i \in DOMAIN estateFacts : Live(i) => estateFacts[i].subject # s) => InEffect(s) = 0
  BY DEF InEffectTold
<1> DEFINE live == {i \in DOMAIN estateFacts :
                      /\ estateFacts[i].subject = s
                      /\ \A j \in DOMAIN estateFacts : estateFacts[j].supersedes # i}
           lst(i, S) == \A j \in S : \/ estateFacts[j].effective < estateFacts[i].effective
                                     \/ estateFacts[j].effective = estateFacts[i].effective /\ j <= i
<1>1. InEffect(s) = IF live = {} THEN 0 ELSE CHOOSE i \in live : lst(i, live) BY DEF InEffect
<1>2. ASSUME NEW i \in DOMAIN estateFacts, Live(i), estateFacts[i].subject = s PROVE InEffect(s) = i
  <2>1. live = {i} BY <1>2 DEF OneInForce, Live
  <2>3. lst(i, {i})
    <3>1. i \in Nat BY <1>2, LenProperties DEF EstateSeq
    <3>2. i <= i BY <3>1
    <3> QED BY <3>2
  <2> HIDE DEF live, lst
  <2> QED BY <1>1, <2>1, <2>3
<1>3. (\A i \in DOMAIN estateFacts : Live(i) => estateFacts[i].subject # s) => InEffect(s) = 0
  <2>1. SUFFICES ASSUME \A i \in DOMAIN estateFacts : Live(i) => estateFacts[i].subject # s PROVE live = {}
    BY <1>1
  <2> QED BY <2>1 DEF Live
<1> QED BY <1>2, <1>3

LEMMA InEffectNext == EstateSeq' /\ OneInForce' => InEffectTold'
BY InEffectIs, PTL

LEMMA EstateStart == EstateInit => EstateInv
<1> SUFFICES ASSUME EstateInit PROVE EstateInv OBVIOUS
<1>1. estateFacts = <<>> /\ DOMAIN estateFacts = {} /\ estateFacts \in Seq(EstateRows) BY DEF EstateInit
<1>2. EstateRecords BY <1>1 DEF EstateRecords, EstateInit
<1>3. OneInForce BY <1>1 DEF OneInForce
<1>4. RegistryMirrors /\ OneGapOneQuestion /\ AllAsked
  BY DEF EstateInit, RegistryMirrors, OneGapOneQuestion, AllAsked
<1> QED BY <1>2, <1>3, <1>4 DEF EstateInv

(* What a step that leaves the registry alone leaves in force.             *)
LEMMA RegistrySame ==
  ASSUME estateFacts' = estateFacts
  PROVE  /\ \A s : PayloadOf(s)' = PayloadOf(s)
         /\ Registered' = Registered
         /\ OneInForce => OneInForce'
<1>1. \A s : InEffect(s)' = InEffect(s) BY DEF InEffect
<1> QED BY <1>1 DEF PayloadOf, Registered, OneInForce, Live

(* A batch puts what it says of each of its subjects in force, and leaves  *)
(* every other as it was.                                                  *)
LEMMA SyncPuts ==
  ASSUME EstateInv, NEW r \in EstateRuns, syncRegistry(r), estateFacts' # estateFacts \/ mirrored' # mirrored
  PROVE  /\ mirrored' = estate
         /\ estateFacts' \in Seq(EstateRows)
         /\ \A i \in DOMAIN estateFacts' : estateFacts'[i].supersedes < i
         /\ OneInForce'
         /\ \A s : PayloadOf(s)' = IF s \in DOMAIN Unsynced THEN Unsynced[s] ELSE PayloadOf(s)
<1>1. PICK new : new = Unsynced OBVIOUS
<1>2. PICK S : S = {FactOf(r, s, new[s]) : s \in DOMAIN new} OBVIOUS
<1>3. PICK batch_r : batch_r = SetToSeq(S) OBVIOUS
<1>4. estateFacts' = estateFacts \o batch_r /\ mirrored' = estate
  BY <1>1, <1>2, <1>3 DEF syncRegistry
<1>5. /\ IsFiniteSet(DOMAIN estate.entities) /\ IsFiniteSet(DOMAIN estate.observed)
      /\ estate \in EstateFiles
  BY EstateFilesAssumption DEF EstateInv, EstateRecords
<1>6. DOMAIN new = {e \in DOMAIN estate.entities : PayloadOf(e) # estate.entities[e]}
                     \cup {a \in DOMAIN estate.observed : PayloadOf(a) # estate.observed[a]}
  BY <1>1 DEF Unsynced
<1>7. \A s \in DOMAIN new : new[s] = IF s \in DOMAIN estate.entities THEN estate.entities[s] ELSE estate.observed[s]
  BY <1>1 DEF Unsynced
<1>8. \A s \in DOMAIN new : s \in EstateThings /\ new[s] \in EstatePayloads
  BY <1>5, <1>6, <1>7 DEF EstateThings, EstatePayloads
<1>9. IsFiniteSet(S)
  <2>1. IsFiniteSet(DOMAIN new)
    <3>1. IsFiniteSet(DOMAIN estate.entities \cup DOMAIN estate.observed) BY <1>5, FS_Union
    <3>2. DOMAIN new \in SUBSET (DOMAIN estate.entities \cup DOMAIN estate.observed) BY <1>6
    <3> QED BY <3>1, <3>2, FS_Subset
  <2>2. PICK f : f = [s \in DOMAIN new |-> FactOf(r, s, new[s])] OBVIOUS
  <2>3. f \in Surjection(DOMAIN new, S)
    <3>1. f \in [DOMAIN new -> S] BY <1>2, <2>2
    <3>2. \A x \in S : \E s \in DOMAIN new : f[s] = x BY <1>2, <2>2
    <3> QED BY <3>1, <3>2 DEF Surjection
  <2> QED BY <2>1, <2>3, FS_Surjection
<1>10. /\ batch_r \in Seq(S)
       /\ \A x \in S : \E i \in DOMAIN batch_r : batch_r[i] = x
       /\ IsInjective(batch_r)
       /\ \A i \in DOMAIN batch_r : batch_r[i] \in S
  BY <1>3, <1>9, SeqOfSet
<1>11. EstateRecords BY DEF EstateInv
<1>12. /\ estateFacts \in Seq(EstateRows)
       /\ \A i \in DOMAIN estateFacts : estateFacts[i].supersedes < i /\ estateFacts[i] \in EstateRows
  BY <1>11, ElementOfSeq DEF EstateRecords
<1>13. PICK n : n = Len(estateFacts) OBVIOUS
<1>14. n \in Nat /\ DOMAIN estateFacts = 1 .. n BY <1>12, <1>13
<1>15. OneInForce BY DEF EstateInv
<1>16. \A s : InEffect(s) \in 0 .. n /\ (InEffect(s) # 0 => Live(InEffect(s)) /\ estateFacts[InEffect(s)].subject = s)
  <2> SUFFICES ASSUME NEW s
               PROVE  InEffect(s) \in 0 .. n /\ (InEffect(s) # 0 => Live(InEffect(s)) /\ estateFacts[InEffect(s)].subject = s)
    OBVIOUS
  <2>1. CASE \E i \in DOMAIN estateFacts : Live(i) /\ estateFacts[i].subject = s
    BY <2>1, <1>14, <1>12, <1>15, InEffectIs DEF InEffectTold, EstateSeq
  <2>2. CASE ~ \E i \in DOMAIN estateFacts : Live(i) /\ estateFacts[i].subject = s
    <3>1. InEffect(s) = 0 BY <2>2, <1>12, <1>15, InEffectIs DEF InEffectTold, EstateSeq
    <3> QED BY <3>1, <1>14
  <2> QED BY <2>1, <2>2
<1>17. \A x \in S : /\ x \in EstateRows /\ x.subject \in DOMAIN new /\ x.payload = new[x.subject]
                    /\ x.supersedes = InEffect(x.subject) /\ x = FactOf(r, x.subject, new[x.subject])
  BY <1>2, <1>8, <1>14, <1>16 DEF FactOf, EstateRows
<1>18. S \subseteq EstateRows BY <1>17
<1>19. batch_r \in Seq(EstateRows) BY <1>10, <1>18
<1>20. /\ estateFacts' \in Seq(EstateRows)
       /\ DOMAIN estateFacts' = DOMAIN estateFacts \cup {n + i : i \in DOMAIN batch_r}
       /\ \A i \in DOMAIN estateFacts : estateFacts'[i] = estateFacts[i]
       /\ \A i \in DOMAIN batch_r : estateFacts'[n + i] = batch_r[i]
       /\ \A i \in DOMAIN batch_r : n + i \notin DOMAIN estateFacts
       /\ DOMAIN batch_r \subseteq Nat \ {0}
  <2>1. PICK T : T = EstateRows OBVIOUS
  <2>2. estateFacts \in Seq(T) /\ batch_r \in Seq(T) BY <2>1, <1>12, <1>19
  <2> QED BY <2>1, <2>2, <1>4, <1>13, RowsAfter
<1>21. \A i \in DOMAIN batch_r : /\ estateFacts'[n + i].subject \in DOMAIN new
                                 /\ estateFacts'[n + i].payload = new[estateFacts'[n + i].subject]
                                 /\ estateFacts'[n + i].supersedes = InEffect(estateFacts'[n + i].subject)
  BY <1>10, <1>17, <1>20
<1>22. \A i \in DOMAIN estateFacts' : estateFacts'[i].supersedes < i
  <2>1. \A i \in DOMAIN batch_r : estateFacts'[n + i].supersedes < n + i
    <3> SUFFICES ASSUME NEW i \in DOMAIN batch_r PROVE estateFacts'[n + i].supersedes < n + i OBVIOUS
    <3>1. PICK k : k = estateFacts'[n + i].supersedes OBVIOUS
    <3>2. k \in 0 .. n BY <3>1, <1>16, <1>21
    <3>3. i \in Nat \ {0} BY <1>20
    <3> QED BY <3>1, <3>2, <3>3, <1>14
  <2> QED BY <2>1, <1>12, <1>20
(* Nobody supersedes what is new.                                          *)
<1>23. \A i \in DOMAIN batch_r : Live(n + i)'
  <2> SUFFICES ASSUME NEW i \in DOMAIN batch_r, NEW j \in DOMAIN estateFacts', estateFacts'[j].supersedes = n + i
               PROVE  FALSE
    BY <1>20 DEF Live
  <2>1. i \in Nat \ {0} BY <1>20
  <2>2. CASE j \in DOMAIN estateFacts
    <3>1. estateFacts[j].supersedes < j /\ estateFacts[j].supersedes = n + i BY <2>2, <1>12, <1>20
    <3> QED BY <2>1, <2>2, <3>1, <1>14
  <2>3. CASE j \notin DOMAIN estateFacts
    <3>1. PICK k \in DOMAIN batch_r : j = n + k BY <2>3, <1>20
    <3>2. estateFacts'[j].supersedes \in 0 .. n BY <3>1, <1>16, <1>21
    <3> QED BY <2>1, <3>2, <1>14
  <2> QED BY <2>2, <2>3
<1>24. \A s \in DOMAIN new : \E i \in DOMAIN batch_r : estateFacts'[n + i].subject = s
  <2> SUFFICES ASSUME NEW s \in DOMAIN new PROVE \E i \in DOMAIN batch_r : estateFacts'[n + i].subject = s
    OBVIOUS
  <2>1. FactOf(r, s, new[s]) \in S BY <1>2
  <2>2. PICK i \in DOMAIN batch_r : batch_r[i] = FactOf(r, s, new[s]) BY <2>1, <1>10
  <2>3. estateFacts'[n + i] = FactOf(r, s, new[s]) BY <2>2, <1>20
  <2> QED BY <2>3 DEF FactOf
(* An old fact stays in force unless the batch is about its subject.       *)
<1>25. \A i \in DOMAIN estateFacts :
         Live(i)' <=> Live(i) /\ estateFacts[i].subject \notin DOMAIN new
  <2> SUFFICES ASSUME NEW i \in DOMAIN estateFacts
               PROVE  Live(i)' <=> Live(i) /\ estateFacts[i].subject \notin DOMAIN new
    OBVIOUS
  <2>0. i \in 1 .. n BY <1>14
  <2>1. ASSUME Live(i)' PROVE Live(i)
    <3>1. \A j \in DOMAIN estateFacts : j \in DOMAIN estateFacts' /\ estateFacts'[j] = estateFacts[j] BY <1>20
    <3> QED BY <2>1, <3>1 DEF Live
  <2>2. ASSUME Live(i)', Live(i), estateFacts[i].subject \in DOMAIN new PROVE FALSE
    <3>1. PICK k \in DOMAIN batch_r : estateFacts'[n + k].subject = estateFacts[i].subject BY <2>2, <1>24
    <3>2. InEffect(estateFacts[i].subject) = i BY <2>2, <1>12, <1>15, InEffectIs DEF InEffectTold, EstateSeq
    <3>3. estateFacts'[n + k].supersedes = i BY <3>1, <3>2, <1>21
    <3> QED BY <2>2, <3>3, <1>20 DEF Live
  <2>3. ASSUME Live(i), estateFacts[i].subject \notin DOMAIN new, NEW j \in DOMAIN estateFacts',
               estateFacts'[j].supersedes = i
        PROVE  FALSE
    <3>1. CASE j \in DOMAIN estateFacts BY <2>3, <3>1, <1>20 DEF Live
    <3>2. CASE j \notin DOMAIN estateFacts
      <4>1. PICK k \in DOMAIN batch_r : j = n + k BY <3>2, <1>20
      <4>2. PICK s : s = estateFacts'[j].subject OBVIOUS
      <4>3. s \in DOMAIN new /\ InEffect(s) = i BY <2>3, <4>1, <4>2, <1>21
      <4>4. InEffect(s) # 0 BY <4>3, <2>0
      <4>5. estateFacts[i].subject = s BY <4>3, <4>4, <1>16
      <4> QED BY <2>3, <4>3, <4>5
    <3> QED BY <3>1, <3>2
  <2>4. i \in DOMAIN estateFacts' BY <1>20
  <2>5. ASSUME Live(i), estateFacts[i].subject \notin DOMAIN new PROVE Live(i)'
    BY <2>3, <2>4, <2>5 DEF Live
  <2> QED BY <2>1, <2>2, <2>5
<1>26. OneInForce'
  <2> SUFFICES ASSUME NEW i \in DOMAIN estateFacts', NEW j \in DOMAIN estateFacts', Live(i)', Live(j)',
                      estateFacts'[i].subject = estateFacts'[j].subject
               PROVE  i = j
    BY DEF OneInForce
  <2>1. CASE i \in DOMAIN estateFacts /\ j \in DOMAIN estateFacts
    BY <2>1, <1>15, <1>20, <1>25 DEF OneInForce
  <2>2. CASE i \in DOMAIN estateFacts /\ j \notin DOMAIN estateFacts
    BY <2>2, <1>20, <1>21, <1>25
  <2>3. CASE i \notin DOMAIN estateFacts /\ j \in DOMAIN estateFacts
    BY <2>3, <1>20, <1>21, <1>25
  <2>4. CASE i \notin DOMAIN estateFacts /\ j \notin DOMAIN estateFacts
    <3>1. PICK k, m \in DOMAIN batch_r : i = n + k /\ j = n + m BY <2>4, <1>20
    <3>2. batch_r[k] \in S /\ batch_r[m] \in S /\ batch_r[k].subject = batch_r[m].subject
      BY <3>1, <1>10, <1>20
    <3>3. batch_r[k] = batch_r[m] BY <3>2, <1>17
    <3> QED BY <3>1, <3>3, <1>10 DEF IsInjective
  <2> QED BY <2>1, <2>2, <2>3, <2>4
<1>27. \A s : PayloadOf(s)' = IF s \in DOMAIN new THEN new[s] ELSE PayloadOf(s)
  <2> SUFFICES ASSUME NEW s PROVE PayloadOf(s)' = IF s \in DOMAIN new THEN new[s] ELSE PayloadOf(s)
    OBVIOUS
  <2>0. /\ \A i \in DOMAIN estateFacts' : Live(i)' /\ estateFacts'[i].subject = s => InEffect(s)' = i
        /\ (\A i \in DOMAIN estateFacts' : Live(i)' => estateFacts'[i].subject # s) => InEffect(s)' = 0
    BY <1>20, <1>26, InEffectNext DEF InEffectTold, EstateSeq
  <2>1. CASE s \in DOMAIN new
    <3>1. PICK i \in DOMAIN batch_r : estateFacts'[n + i].subject = s BY <2>1, <1>24
    <3>2. InEffect(s)' = n + i BY <3>1, <2>0, <1>20, <1>23
    <3>3. n + i # 0 /\ estateFacts'[n + i].payload = new[s] BY <3>1, <1>14, <1>20, <1>21
    <3> QED BY <2>1, <3>2, <3>3 DEF PayloadOf
  <2>2. CASE s \notin DOMAIN new /\ InEffect(s) # 0
    <3>1. PICK i : i = InEffect(s) OBVIOUS
    <3>2. i \in DOMAIN estateFacts /\ Live(i) /\ estateFacts[i].subject = s BY <2>2, <3>1, <1>14, <1>16
    <3>3. Live(i)' /\ i \in DOMAIN estateFacts' /\ estateFacts'[i] = estateFacts[i] BY <2>2, <3>2, <1>20, <1>25
    <3>4. InEffect(s)' = i BY <3>2, <3>3, <2>0
    <3> QED BY <2>2, <3>1, <3>3, <3>4 DEF PayloadOf
  <2>3. CASE s \notin DOMAIN new /\ InEffect(s) = 0
    <3>1. ASSUME NEW i \in DOMAIN estateFacts', Live(i)', estateFacts'[i].subject = s PROVE FALSE
      <4>1. CASE i \in DOMAIN estateFacts
        <5>1. Live(i) /\ estateFacts[i].subject = s BY <3>1, <4>1, <1>20, <1>25
        <5>2. InEffect(s) = i BY <4>1, <5>1, <1>12, <1>15, InEffectIs DEF InEffectTold, EstateSeq
        <5> QED BY <2>3, <5>2, <4>1, <1>14
      <4>2. CASE i \notin DOMAIN estateFacts BY <2>3, <3>1, <4>2, <1>20, <1>21
      <4> QED BY <4>1, <4>2
    <3>2. InEffect(s)' = 0 BY <3>1, <2>0
    <3> QED BY <2>3, <3>2 DEF PayloadOf
  <2> QED BY <2>1, <2>2, <2>3
<1> QED BY <1>1, <1>4, <1>20, <1>22, <1>26, <1>27

LEMMA HygieneSame ==
  ASSUME UNCHANGED <<estate, estateFacts, booked, vaulted>>
  PROVE  estateHygiene' = estateHygiene
<1>1. Unplanned' = Unplanned /\ Unbooked' = Unbooked BY DEF Unplanned, Unbooked
<1>2. Unobserved' = Unobserved BY DEF Unobserved, PayloadOf, InEffect
<1>3. UnknownTrusts' = UnknownTrusts BY DEF UnknownTrusts, Registered, InEffect
<1>4. Misplaced' = Misplaced BY DEF Misplaced, Differs, PayloadOf, InEffect
<1>5. OtherHeirs' = OtherHeirs BY DEF OtherHeirs, PayloadOf, InEffect
<1>6. Unvaulted' = Unvaulted /\ Unattended' = Unattended BY DEF Unvaulted, Unattended
<1> QED BY <1>1, <1>2, <1>3, <1>4, <1>5, <1>6 DEF estateHygiene

LEMMA SyncKeeps ==
  ASSUME EstateInv, NEW r \in EstateRuns, NEW cut \in BOOLEAN, registrySync(r, cut)
  PROVE  EstateInv'
<1>1. EstateRecords /\ OneInForce /\ RegistryMirrors /\ OneGapOneQuestion /\ AllAsked BY DEF EstateInv
<1>2. UNCHANGED <<estate, booked, vaulted, gaps>> /\ syncRegistry(r) BY DEF registrySync
<1>3. CASE estateFacts' = estateFacts /\ mirrored' = mirrored
  <2>1. compared' \in BOOLEAN /\ (compared' => compared)
    <3>1. CASE \E i \in DOMAIN estateFacts : estateFacts[i].batch = r
      BY <1>1, <1>2, <3>1 DEF syncRegistry, EstateRecords
    <3>2. CASE ~ \E i \in DOMAIN estateFacts : estateFacts[i].batch = r
      <4>1. PICK b : compared' = (compared /\ b = <<>>) BY <1>2, <3>2 DEF syncRegistry
      <4> QED BY <1>1, <4>1 DEF EstateRecords
    <3> QED BY <3>1, <3>2
  <2>2. EstateRecords' BY <1>1, <1>2, <1>3, <2>1 DEF EstateRecords
  <2>3. /\ \A s : PayloadOf(s)' = PayloadOf(s)
        /\ Registered' = Registered /\ OneInForce'
    BY <1>1, <1>3, RegistrySame
  <2>4. RegistryMirrors' BY <1>1, <1>3, <2>3 DEF RegistryMirrors
  <2>5. estateHygiene' = estateHygiene
    BY <1>2, <1>3, HygieneSame
  <2>6. AllAsked' BY <1>1, <1>2, <2>1, <2>5 DEF AllAsked
  <2>7. OneGapOneQuestion' BY <1>1, <1>2 DEF OneGapOneQuestion
  <2> QED BY <2>2, <2>3, <2>4, <2>6, <2>7 DEF EstateInv
<1>4. CASE estateFacts' # estateFacts \/ mirrored' # mirrored
  <2>1. /\ mirrored' = estate
        /\ estateFacts' \in Seq(EstateRows)
        /\ \A i \in DOMAIN estateFacts' : estateFacts'[i].supersedes < i
        /\ OneInForce'
        /\ \A s : PayloadOf(s)' = IF s \in DOMAIN Unsynced THEN Unsynced[s] ELSE PayloadOf(s)
    BY <1>2, <1>4, SyncPuts
  <2>2. ~ \E i \in DOMAIN estateFacts : estateFacts[i].batch = r BY <1>2, <1>4 DEF syncRegistry
  <2>3. PICK b : /\ b = SetToSeq({FactOf(r, s, Unsynced[s]) : s \in DOMAIN Unsynced})
                 /\ compared' = (compared /\ b = <<>>) /\ estateFacts' = estateFacts \o b
    BY <1>2, <2>2 DEF syncRegistry
  <2>4. EstateRecords'
    <3>1. compared' \in BOOLEAN BY <2>3, <1>1 DEF EstateRecords
    <3> QED BY <1>1, <1>2, <2>1, <3>1 DEF EstateRecords
  <2>5. RegistryMirrors'
    <3>1. estate \in EstateFiles BY <1>1 DEF EstateRecords
    <3>2. DOMAIN estate.entities \cap DOMAIN estate.observed = {} BY <3>1, EstateFilesAssumption
    <3>3. DOMAIN Unsynced = {e \in DOMAIN estate.entities : PayloadOf(e) # estate.entities[e]}
                              \cup {a \in DOMAIN estate.observed : PayloadOf(a) # estate.observed[a]}
      BY DEF Unsynced
    <3>4. \A s \in DOMAIN Unsynced :
            Unsynced[s] = IF s \in DOMAIN estate.entities THEN estate.entities[s] ELSE estate.observed[s]
      BY DEF Unsynced
    <3>5. \A e \in DOMAIN estate.entities : PayloadOf(e)' = estate.entities[e] BY <2>1, <3>3, <3>4
    <3>6. \A a \in DOMAIN estate.observed : PayloadOf(a)' = estate.observed[a] BY <2>1, <3>2, <3>3, <3>4
    <3> QED BY <2>1, <3>5, <3>6 DEF RegistryMirrors
  <2>6. AllAsked'
    <3> SUFFICES ASSUME compared' PROVE \A d \in estateHygiene' : \E g \in gaps' : g.open /\ g.of = d
      BY DEF AllAsked
    <3>1. compared /\ b = <<>> BY <2>3
    <3>2. estateFacts' = estateFacts
      <4>1. estateFacts \in Seq(EstateRows) BY <1>1 DEF EstateRecords
      <4> QED BY <2>3, <3>1, <4>1, ConcatEmptySeq
    <3>3. /\ \A s : PayloadOf(s)' = PayloadOf(s)
          /\ Registered' = Registered
      BY <1>1, <3>2, RegistrySame
    <3>4. estateHygiene' = estateHygiene
      BY <1>2, <3>2, HygieneSame
    <3> QED BY <1>1, <1>2, <3>1, <3>4 DEF AllAsked
  <2>7. OneGapOneQuestion' BY <1>1, <1>2 DEF OneGapOneQuestion
  <2> QED BY <2>1, <2>4, <2>5, <2>6, <2>7 DEF EstateInv
<1> QED BY <1>3, <1>4

LEMMA AuditKeeps ==
  ASSUME EstateInv, NEW r \in EstateRuns, NEW cut \in BOOLEAN, estateAudit(r, cut)
  PROVE  EstateInv'
<1>1. EstateRecords /\ OneInForce /\ RegistryMirrors /\ OneGapOneQuestion /\ AllAsked BY DEF EstateInv
<1>2. UNCHANGED <<estate, estateFacts, booked, vaulted, mirrored>> BY DEF estateAudit
<1>3. /\ \A s : PayloadOf(s)' = PayloadOf(s)
      /\ Registered' = Registered /\ OneInForce'
  BY <1>1, <1>2, RegistrySame
<1>4. RegistryMirrors' BY <1>1, <1>2, <1>3 DEF RegistryMirrors
<1>5. estateHygiene' = estateHygiene
  BY <1>2, HygieneSame
<1>6. CASE gaps' = gaps /\ compared' = compared
  BY <1>1, <1>2, <1>3, <1>4, <1>5, <1>6 DEF EstateInv, EstateRecords, AllAsked, OneGapOneQuestion
<1>7. CASE /\ gaps' = gaps \cup {[of |-> d, batch |-> r, open |-> TRUE] : d \in estateHygiene \ Known(r)}
           /\ compared' = TRUE
  <2>1. PICK H : H = estateHygiene \ Known(r) OBVIOUS
  <2>2. gaps' = gaps \cup {[of |-> d, batch |-> r, open |-> TRUE] : d \in H} BY <1>7, <2>1
  <2>3. \A g \in gaps' : g \in gaps \/ (g.of \in H /\ g = [of |-> g.of, batch |-> r, open |-> TRUE]) BY <2>2
  <2>4. \A g \in gaps' : g = [of |-> g.of, batch |-> g.batch, open |-> g.open]
    <3> SUFFICES ASSUME NEW g \in gaps' PROVE g = [of |-> g.of, batch |-> g.batch, open |-> g.open] OBVIOUS
    <3>1. CASE g \in gaps BY <1>1, <3>1 DEF EstateRecords
    <3>2. CASE g = [of |-> g.of, batch |-> r, open |-> TRUE] BY <3>2
    <3> QED BY <2>3, <3>1, <3>2
  <2>5. EstateRecords' BY <1>1, <1>2, <1>7, <2>4 DEF EstateRecords
  <2>6. OneGapOneQuestion'
    <3> SUFFICES ASSUME NEW g \in gaps', NEW h \in gaps', g.open, h.open, g.of = h.of PROVE g = h
      BY DEF OneGapOneQuestion
    <3>1. \A k \in gaps : k.open => k.of \notin H BY <2>1 DEF Known
    <3>2. CASE g \in gaps /\ h \in gaps BY <1>1, <3>2 DEF OneGapOneQuestion
    <3>3. CASE g \notin gaps \/ h \notin gaps BY <2>3, <3>1, <3>3
    <3> QED BY <3>2, <3>3
  <2>7. AllAsked'
    <3> SUFFICES ASSUME NEW d \in estateHygiene PROVE \E g \in gaps' : g.open /\ g.of = d
      BY <1>5 DEF AllAsked
    <3>1. CASE d \in H
      <4>1. [of |-> d, batch |-> r, open |-> TRUE] \in gaps' BY <2>2, <3>1
      <4> QED BY <4>1
    <3>2. CASE d \notin H
      <4>1. PICK g \in gaps : g.open /\ g.of = d BY <2>1, <3>2 DEF Known
      <4> QED BY <2>2, <4>1
    <3> QED BY <3>1, <3>2
  <2> QED BY <1>3, <1>4, <2>5, <2>6, <2>7 DEF EstateInv
<1> QED BY <1>6, <1>7 DEF estateAudit

LEMMA EstateStep == EstateInv /\ [EstateNext]_EstateVars => EstateInv'
<1> SUFFICES ASSUME EstateInv, [EstateNext]_EstateVars PROVE EstateInv' OBVIOUS
<1>1. EstateRecords /\ OneInForce /\ RegistryMirrors /\ OneGapOneQuestion /\ AllAsked BY DEF EstateInv
<1>2. ASSUME NEW r \in EstateRuns, NEW cut \in BOOLEAN, registrySync(r, cut) PROVE EstateInv' BY <1>2, SyncKeeps
<1>3. ASSUME NEW r \in EstateRuns, NEW cut \in BOOLEAN, estateAudit(r, cut) PROVE EstateInv' BY <1>3, AuditKeeps
(* What leaves the registry and the questions alone, once it is forgotten  *)
(* that the audit looked.                                                  *)
<1>4. ASSUME estateFacts' = estateFacts, mirrored' = mirrored, compared' = FALSE, estate' \in EstateFiles,
             \A g \in gaps' : g = [of |-> g.of, batch |-> g.batch, open |-> g.open],
             OneGapOneQuestion'
      PROVE  EstateInv'
  <2>1. OneInForce' /\ \A s : PayloadOf(s)' = PayloadOf(s) BY <1>1, <1>4, RegistrySame
  <2>2. RegistryMirrors' BY <1>1, <1>4, <2>1 DEF RegistryMirrors
  <2>3. EstateRecords' BY <1>1, <1>4 DEF EstateRecords
  <2> QED BY <1>4, <2>1, <2>2, <2>3 DEF EstateInv, AllAsked
<1>5. gaps' = gaps => OneGapOneQuestion' /\ \A g \in gaps' : g = [of |-> g.of, batch |-> g.batch, open |-> g.open]
  BY <1>1 DEF OneGapOneQuestion, EstateRecords
<1>6. estate \in EstateFiles BY <1>1 DEF EstateRecords
<1>7. CASE EditsEstate BY <1>4, <1>5, <1>7 DEF EditsEstate
<1>8. CASE BookedElsewhere BY <1>4, <1>5, <1>6, <1>8 DEF BookedElsewhere
<1>9. CASE Ingested BY <1>4, <1>5, <1>6, <1>9 DEF Ingested
<1>10. ASSUME NEW g \in gaps, AnswersGap(g) PROVE EstateInv'
  <2>1. /\ UNCHANGED <<estate, estateFacts, mirrored>> /\ compared' = FALSE
        /\ gaps' = (gaps \ {g}) \cup {[g EXCEPT !.open = FALSE]}
    BY <1>10 DEF AnswersGap
  <2>2. PICK k : k = [g EXCEPT !.open = FALSE] OBVIOUS
  <2>3. k = [of |-> g.of, batch |-> g.batch, open |-> FALSE]
    <3>1. PICK o, b, p : o = g.of /\ b = g.batch /\ p = g.open OBVIOUS
    <3>2. g = [of |-> o, batch |-> b, open |-> p] BY <1>1, <3>1 DEF EstateRecords
    <3>3. k = [of |-> o, batch |-> b, open |-> FALSE] BY <2>2, <3>2
    <3> QED BY <3>1, <3>3
  <2>4. ~k.open /\ k = [of |-> k.of, batch |-> k.batch, open |-> k.open] BY <2>3
  <2>5. \A h \in gaps' : h \in gaps \/ h = k BY <2>1, <2>2
  <2>6. \A h \in gaps' : h = [of |-> h.of, batch |-> h.batch, open |-> h.open]
    BY <1>1, <2>4, <2>5 DEF EstateRecords
  <2>7. OneGapOneQuestion' BY <1>1, <2>4, <2>5 DEF OneGapOneQuestion
  <2> QED BY <1>4, <1>6, <2>1, <2>6, <2>7
<1>11. CASE UNCHANGED EstateVars
  <2>1. UNCHANGED <<estate, estateFacts, booked, vaulted, gaps, mirrored, compared>> BY <1>11 DEF EstateVars
  <2>2. /\ \A s : PayloadOf(s)' = PayloadOf(s)
        /\ Registered' = Registered /\ OneInForce'
    BY <1>1, <2>1, RegistrySame
  <2>3. RegistryMirrors' BY <1>1, <2>1, <2>2 DEF RegistryMirrors
  <2>4. estateHygiene' = estateHygiene
    BY <2>1, HygieneSame
  <2> QED BY <1>1, <2>1, <2>2, <2>3, <2>4 DEF EstateInv, EstateRecords, AllAsked, OneGapOneQuestion
<1> QED BY <1>2, <1>3, <1>7, <1>8, <1>9, <1>10, <1>11 DEF EstateNext

(* With every question closed there is nothing an audit could find.        *)
LEMMA CleanIsMatched == EstateInv => CleanMeansMatched
<1> SUFFICES ASSUME EstateInv, compared, \A g \in gaps : ~g.open
             PROVE  /\ booked = DOMAIN estate.plan
                    /\ \A a \in booked :
                         /\ PayloadOf(a) # NoFact
                         /\ PayloadOf(a).in_trust = estate.plan[a].in_trust
                         /\ PayloadOf(a).beneficiaries = estate.plan[a].beneficiaries
                         /\ PayloadOf(a).in_trust \in {NoTrust} \cup Registered \cup DOMAIN estate.entities
                    /\ \A d \in DOMAIN estate.documents : estate.documents[d] \in vaulted
                    /\ estate.named = {"executors", "digital_access"}
  BY DEF CleanMeansMatched
<1>1. estateHygiene = {} BY DEF EstateInv, AllAsked
<1>2. /\ Unplanned = {} /\ Unobserved = {} /\ Unbooked = {} /\ UnknownTrusts = {} /\ Misplaced = {}
      /\ OtherHeirs = {} /\ Unvaulted = {} /\ Unattended = {}
  BY <1>1 DEF estateHygiene
<1>3. booked = DOMAIN estate.plan BY <1>2 DEF Unplanned, Unbooked
<1>4. \A a \in booked : PayloadOf(a) # NoFact BY <1>2 DEF Unobserved
<1>5. \A a \in booked : estate.plan[a].in_trust = PayloadOf(a).in_trust BY <1>2, <1>3, <1>4 DEF Misplaced, Differs
<1>6. \A a \in booked : estate.plan[a].beneficiaries = PayloadOf(a).beneficiaries BY <1>2, <1>3, <1>4 DEF OtherHeirs
<1>7. \A a \in booked : estate.plan[a].in_trust \in {NoTrust} \cup Registered \cup DOMAIN estate.entities
  BY <1>2, <1>3 DEF UnknownTrusts
<1>8. \A d \in DOMAIN estate.documents : estate.documents[d] \in vaulted BY <1>2 DEF Unvaulted
<1>9. estate.named = {"executors", "digital_access"}
  BY <1>2, EstateFilesAssumption DEF Unattended, EstateInv, EstateRecords
<1> QED BY <1>3, <1>4, <1>5, <1>6, <1>7, <1>8, <1>9

-----------------------------------------------------------------------------
(* The transfers.                                                          *)

LEMMA FiniteHasGreatest ==
  ASSUME NEW S, IsFiniteSet(S), S \subseteq Nat, S # {}
  PROVE  Max(S) \in S /\ \A y \in S : Max(S) >= y
<1> DEFINE Ends(s) == \E x \in s : \A y \in s : x >= y
           W == {s \in SUBSET S : s # {} /\ ~Ends(s)}
<1>1. W = {}
  <2> SUFFICES ASSUME W # {} PROVE FALSE OBVIOUS
  <2>1. PICK s \in W : \A t \in W : Cardinality(s) <= Cardinality(t)
    <3>1. W \subseteq SUBSET S OBVIOUS
    <3> HIDE DEF W
    <3> QED BY <3>1, Smallest
  <2>2. s \in SUBSET S /\ s # {} /\ ~Ends(s) BY <2>1
  <2>3. PICK x \in s : TRUE BY <2>2
  <2>4. /\ Cardinality(s) \in Nat /\ Cardinality(s \ {x}) \in Nat /\ s \ {x} \in SUBSET S
        /\ Cardinality(s \ {x}) = Cardinality(s) - 1
    BY <2>2, <2>3, Fewer
  <2>5. s \ {x} \notin W
    <3>1. ~(Cardinality(s) <= Cardinality(s \ {x})) BY <2>4
    <3> HIDE DEF W
    <3> QED BY <2>1, <3>1
  <2>6. x \in Nat /\ s \subseteq Nat BY <2>2, <2>3
  <2>7. CASE s \ {x} = {}
    <3>1. \A y \in s : x >= y BY <2>6, <2>7
    <3> QED BY <2>2, <2>3, <3>1
  <2>8. CASE s \ {x} # {}
    <3>1. PICK m \in s \ {x} : \A y \in s \ {x} : m >= y BY <2>4, <2>5, <2>8
    <3>2. CASE m >= x
      <4>1. \A y \in s : m >= y BY <3>1, <3>2
      <4> QED BY <2>2, <3>1, <4>1
    <3>3. CASE ~(m >= x)
      <4>1. \A y \in s : x >= y BY <2>6, <3>1, <3>3
      <4> QED BY <2>2, <2>3, <4>1
    <3> QED BY <3>2, <3>3
  <2> QED BY <2>7, <2>8
<1>2. PICK x \in S : \A y \in S : x >= y BY <1>1
<1> HIDE DEF W
<1> QED BY <1>2 DEF Max

NoPairs == [used |-> {}, pairs |-> {}]
PairTerm(g, s, legs, proposed) ==
  IF s = {} THEN NoPairs ELSE Pairing(Max(s), g[s \ {Max(s)}], legs, proposed)
Paired(g, S, legs, proposed) == g = [s \in SUBSET S |-> PairTerm(g, s, legs, proposed)]

LEMMA PairingExists ==
  ASSUME NEW S, IsFiniteSet(S), S \subseteq Nat, NEW legs, NEW proposed
  PROVE  \E g : Paired(g, S, legs, proposed)
<1> DEFINE Level(n) == {s \in SUBSET S : Cardinality(s) <= n}
           Term(g, s) == PairTerm(g, s, legs, proposed)
           Up(g, n) == DOMAIN g = Level(n) /\ \A s \in Level(n) : g[s] = Term(g, s)
           Bad == {n \in Nat : ~ \E g : Up(g, n)}
<1>0. ASSUME NEW s \in SUBSET S PROVE Cardinality(s) \in Nat /\ (Cardinality(s) = 0 <=> s = {})
  BY FS_Subset, FS_CardinalityType, FS_EmptySet
<1>1. Bad = {}
  <2> SUFFICES ASSUME Bad # {} PROVE FALSE OBVIOUS
  <2>1. PICK n \in Bad : \A m \in Bad : n <= m
    <3>1. Bad \subseteq Nat OBVIOUS
    <3> HIDE DEF Bad
    <3> QED BY <3>1, LeastNumber
  <2>2. n \in Nat /\ ~ \E g : Up(g, n) BY <2>1
  <2>3. CASE n = 0
    <3>1. Level(n) = {{}} BY <1>0, <2>3, FS_EmptySet
    <3> DEFINE z == [s \in Level(n) |-> NoPairs]
    <3>2. \A s \in Level(n) : z[s] = Term(z, s) BY <3>1 DEF PairTerm
    <3>3. DOMAIN z = Level(n) OBVIOUS
    <3>4. Up(z, n) BY <3>2, <3>3
    <3> QED BY <3>4, <2>2
  <2>4. CASE n # 0
    <3>1. n - 1 \in Nat /\ n - 1 < n BY <2>2, <2>4
    <3>2. n - 1 \notin Bad
      <4> HIDE DEF Bad
      <4> QED BY <3>1, <2>1, <2>2
    <3>3. PICK g : Up(g, n - 1) BY <3>1, <3>2
    <3> DEFINE h == [s \in Level(n) |-> Term(g, s)]
    <3>4. ASSUME NEW s \in Level(n), s # {}
          PROVE  Max(s) \in S /\ s \ {Max(s)} \in Level(n - 1) /\ s \ {Max(s)} \in Level(n)
      <4>0. s \in SUBSET S /\ Cardinality(s) <= n BY <3>4
      <4>1. Max(s) \in s
        <5>1. IsFiniteSet(s) /\ s \subseteq Nat BY <4>0, FS_Subset
        <5> QED BY <3>4, <5>1, FiniteHasGreatest
      <4>3. /\ Cardinality(s) \in Nat
            /\ Cardinality(s \ {Max(s)}) = Cardinality(s) - 1
            /\ s \ {Max(s)} \in SUBSET S BY <4>0, <4>1, Fewer
      <4>4. PICK m, k : m = Cardinality(s \ {Max(s)}) /\ k = Cardinality(s) OBVIOUS
      <4>5. m <= n - 1 /\ m <= n BY <4>0, <4>3, <4>4, <2>2
      <4>6. Max(s) \in S BY <4>0, <4>1
      <4> QED BY <4>3, <4>4, <4>5, <4>6
    <3>6. ASSUME NEW s \in Level(n - 1) PROVE h[s] = g[s]
      <4>1. s \in Level(n) BY <3>6, <3>1, <2>2, <1>0
      <4>2. h[s] = Term(g, s) BY <4>1
      <4> HIDE DEF h, Level, Term
      <4> QED BY <4>2, <3>3, <3>6
    <3>7. ASSUME NEW s \in Level(n) PROVE h[s] = Term(h, s)
      <4>1. h[s] = Term(g, s) OBVIOUS
      <4>2. s # {} => h[s \ {Max(s)}] = g[s \ {Max(s)}] BY <3>4, <3>6
      <4> HIDE DEF h, Level
      <4> QED BY <4>1, <4>2 DEF PairTerm
    <3>8. DOMAIN h = Level(n) OBVIOUS
    <3>9. Up(h, n)
      <4> HIDE DEF h, Level, Term
      <4> QED BY <3>7, <3>8
    <3> HIDE DEF Up, h
    <3> QED BY <3>9, <2>2
  <2> QED BY <2>3, <2>4
<1> DEFINE c == Cardinality(S)
<1>2. c \in Nat BY FS_CardinalityType
<1>3. \E g : Up(g, c)
  <2> HIDE DEF Up, c
  <2> QED BY <1>1, <1>2
<1>4. Level(c) = SUBSET S BY FS_Subset
<1> HIDE DEF c, Level
<1>5. PICK g : DOMAIN g = SUBSET S /\ \A s \in SUBSET S : g[s] = Term(g, s) BY <1>3, <1>4
<1>6. PICK h : h = [s \in SUBSET S |-> g[s]] OBVIOUS
<1>7. \A s \in SUBSET S : h[s] = g[s] BY <1>6
<1>8. \A s \in SUBSET S : Term(h, s) = Term(g, s)
  <2> SUFFICES ASSUME NEW s \in SUBSET S PROVE Term(h, s) = Term(g, s) OBVIOUS
  <2>1. s \ {Max(s)} \in SUBSET S OBVIOUS
  <2>2. h[s \ {Max(s)}] = g[s \ {Max(s)}] BY <2>1, <1>7
  <2> QED BY <2>2 DEF PairTerm
<1>9. h = [s \in SUBSET S |-> Term(h, s)]
  <2> HIDE DEF Term
  <2>1. h = [s \in SUBSET S |-> g[s]] BY <1>6
  <2>2. \A s \in SUBSET S : g[s] = Term(h, s) BY <1>5, <1>8
  <2> QED BY <2>1, <2>2
<1> QED BY <1>9 DEF Paired

LEMMA ClosestIn ==
  ASSUME NEW o \in Movements, NEW among, among \subseteq Movements, among # {}
  PROVE  Closest(o, among) \in among
<1>1. \A i \in Movements : i \in Nat /\ Apart(o, i) \in Nat
  BY MovementsAssumption DEF Apart, Size
<1> DEFINE D == {Apart(o, i) : i \in among}
<1>2. PICK d \in D : \A e \in D : d <= e
  <2>1. D \subseteq Nat /\ D # {} BY <1>1
  <2> HIDE DEF D
  <2> QED BY <2>1, LeastNumber
<1> DEFINE N == {i \in among : Apart(o, i) = d}
<1>3. PICK m \in N : \A i \in N : m <= i
  <2>1. N \subseteq Nat /\ N # {} BY <1>1, <1>2
  <2> HIDE DEF N
  <2> QED BY <2>1, LeastNumber
<1>4. m \in among /\ Apart(o, m) = d BY <1>3
<1>5. \A j \in among : Apart(o, m) < Apart(o, j) \/ (Apart(o, m) = Apart(o, j) /\ m <= j)
  <2> SUFFICES ASSUME NEW j \in among, Apart(o, m) # Apart(o, j) \/ ~(m <= j)
               PROVE  Apart(o, m) < Apart(o, j)
    OBVIOUS
  <2>1. d <= Apart(o, j) BY <1>2
  <2>2. Apart(o, j) = d => m <= j BY <1>3
  <2>3. d \in Nat /\ Apart(o, j) \in Nat BY <1>1, <1>4
  <2> QED BY <2>1, <2>2, <2>3, <1>4
<1> QED BY <1>4, <1>5 DEF Closest

(* What has been paired once some of what left has looked: each leg in one *)
(* pair, and nothing proposed that could still be paired.                  *)
PairsHold(state, s, legs, proposed) ==
  /\ \A p \in state.pairs :
       /\ p.out \in s /\ p.in \in Ins(legs) /\ CouldPair(p.out, p.in)
       /\ p.out \in state.used /\ p.in \in state.used
  /\ \A x \in state.used : \E p \in state.pairs : x = p.out \/ x = p.in
  /\ \A p, q \in state.pairs : p # q => {p.out, p.in} \cap {q.out, q.in} = {}
  /\ \A o \in (s \cap proposed) \ state.used : \A i \in Ins(legs) \ state.used : ~CouldPair(o, i)

LEMMA PairingHolds ==
  ASSUME NEW legs, legs \subseteq Movements, NEW proposed, NEW state,
         NEW t, t \subseteq Outs(legs), NEW x \in Outs(legs), x \notin t,
         PairsHold(state, t, legs, proposed)
  PROVE  PairsHold(Pairing(x, state, legs, proposed), t \cup {x}, legs, proposed)
<1> DEFINE open == {i \in Ins(legs) \ state.used : CouldPair(x, i)}
<1>1. \A i \in Ins(legs) : i \in Movements /\ i \notin Outs(legs)
  BY MovementsAssumption DEF Ins, Outs
<1>2. x \in Movements /\ x \notin Ins(legs) BY <1>1 DEF Outs
<1>3. x \notin state.used BY <1>2 DEF PairsHold
<1>4. CASE open = {}
  <2>1. Pairing(x, state, legs, proposed) = state BY <1>4 DEF Pairing
  <2>2. \A i \in Ins(legs) \ state.used : ~CouldPair(x, i) BY <1>4
  <2> QED BY <2>1, <2>2 DEF PairsHold
<1>5. CASE open # {}
  <2>1. PICK best : best = Closest(x, open) OBVIOUS
  <2>2. best \in open
    <3>1. open \subseteq Movements BY <1>1
    <3> HIDE DEF open
    <3> QED BY <2>1, <3>1, <1>2, <1>5, ClosestIn
  <2>3. Pairing(x, state, legs, proposed) = AfterBest(state, x, best, proposed) BY <1>5, <2>1 DEF Pairing
  <2>4. best \in Ins(legs) /\ best \notin state.used /\ CouldPair(x, best) BY <2>2
  <2> HIDE DEF open
  <2>5. CASE {x, best} \cap proposed = {}
    <3>1. Pairing(x, state, legs, proposed) = state BY <2>3, <2>5 DEF AfterBest
    <3> QED BY <3>1, <2>5 DEF PairsHold
  <2>6. CASE {x, best} \cap proposed # {}
    <3>1. PICK new : new = [out |-> x, in |-> best] OBVIOUS
    <3>2. PICK is : is = Pairing(x, state, legs, proposed) OBVIOUS
    <3>3. is.used = state.used \cup {x, best} /\ is.pairs = state.pairs \cup {new}
      BY <2>3, <2>6, <3>1, <3>2 DEF AfterBest
    <3>4. new.out = x /\ new.in = best BY <3>1
    <3>5. \A p \in is.pairs :
            /\ p.out \in t \cup {x} /\ p.in \in Ins(legs) /\ CouldPair(p.out, p.in)
            /\ p.out \in is.used /\ p.in \in is.used
      BY <3>3, <3>4, <2>4 DEF PairsHold
    <3>6. \A y \in is.used : \E p \in is.pairs : y = p.out \/ y = p.in
      BY <3>3, <3>4 DEF PairsHold
    <3>7. \A p \in state.pairs : {p.out, p.in} \cap {x, best} = {} BY <2>4, <1>3 DEF PairsHold
    <3>8. \A p, q \in is.pairs : p # q => {p.out, p.in} \cap {q.out, q.in} = {}
      BY <3>3, <3>4, <3>7 DEF PairsHold
    <3>9. \A o \in ((t \cup {x}) \cap proposed) \ is.used : \A i \in Ins(legs) \ is.used : ~CouldPair(o, i)
      BY <3>3 DEF PairsHold
    <3> QED BY <3>2, <3>5, <3>6, <3>8, <3>9 DEF PairsHold
  <2> QED BY <2>5, <2>6
<1> QED BY <1>4, <1>5

LEMMA PairedHolds ==
  ASSUME NEW legs, legs \subseteq Movements, NEW proposed,
         NEW g, Paired(g, Outs(legs), legs, proposed)
  PROVE  PairsHold(g[Outs(legs)], Outs(legs), legs, proposed)
<1> DEFINE S == Outs(legs)
           W == {s \in SUBSET S : ~PairsHold(g[s], s, legs, proposed)}
<1>0. S \subseteq Nat /\ IsFiniteSet(S)
  <2>1. S \in SUBSET Movements BY DEF Outs
  <2> HIDE DEF S
  <2> QED BY <2>1, MovementsAssumption, FS_Subset
<1>00. \A s \in SUBSET S : g[s] = PairTerm(g, s, legs, proposed) BY DEF Paired
<1>1. W = {}
  <2> SUFFICES ASSUME W # {} PROVE FALSE OBVIOUS
  <2>1. PICK s \in W : \A t \in W : Cardinality(s) <= Cardinality(t)
    <3>1. W \subseteq SUBSET S OBVIOUS
    <3> HIDE DEF W, S
    <3> QED BY <3>1, <1>0, Smallest
  <2>2. s \in SUBSET S /\ ~PairsHold(g[s], s, legs, proposed) BY <2>1
  <2> HIDE DEF S
  <2>3. s # {}
    <3> SUFFICES ASSUME s = {} PROVE FALSE OBVIOUS
    <3>1. g[s] = NoPairs BY <2>2, <1>00 DEF PairTerm
    <3>2. g[s].used = {} /\ g[s].pairs = {} BY <3>1 DEF NoPairs
    <3> QED BY <2>2, <3>2 DEF PairsHold
  <2>4. PICK x : x = Max(s) OBVIOUS
  <2>5. x \in s
    <3>1. IsFiniteSet(s) /\ s \subseteq Nat BY <1>0, <2>2, FS_Subset
    <3> QED BY <2>3, <2>4, <3>1, FiniteHasGreatest
  <2>6. PICK t : t = s \ {x} OBVIOUS
  <2>7. /\ t \in SUBSET S /\ Cardinality(t) \in Nat /\ Cardinality(s) \in Nat
        /\ Cardinality(t) = Cardinality(s) - 1
    BY <2>2, <2>5, <2>6, <1>0, Fewer
  <2>8. t \notin W
    <3>1. ~(Cardinality(s) <= Cardinality(t)) BY <2>7
    <3> HIDE DEF W
    <3> QED BY <2>1, <3>1
  <2>9. PairsHold(g[t], t, legs, proposed) BY <2>7, <2>8
  <2>10. g[s] = Pairing(x, g[t], legs, proposed) BY <2>2, <2>3, <2>4, <2>6, <1>00 DEF PairTerm
  <2>11. PairsHold(g[s], t \cup {x}, legs, proposed)
    <3>1. t \subseteq Outs(legs) /\ x \in Outs(legs) /\ x \notin t BY <2>2, <2>5, <2>6 DEF S
    <3> QED BY <3>1, <2>9, <2>10, PairingHolds
  <2>12. t \cup {x} = s BY <2>5, <2>6
  <2> QED BY <2>2, <2>11, <2>12
<1> HIDE DEF S
<1>2. S \in SUBSET S OBVIOUS
<1> QED BY <1>1, <1>2 DEF S

LEMMA PairsOfNight ==
  ASSUME NEW proposed, proposed \subseteq Movements, DOMAIN rows \subseteq Movements
  PROVE  \E state : /\ classifyTransfers(proposed) = state.pairs
                    /\ PairsHold(state, Outs(LegsTonight(proposed)), LegsTonight(proposed), proposed)
<1>1. PICK legs : legs = LegsTonight(proposed) OBVIOUS
<1>2. legs \subseteq Movements BY <1>1 DEF LegsTonight
<1>3. PICK S : S = Outs(legs) OBVIOUS
<1>4. S \subseteq Nat /\ IsFiniteSet(S)
  <2>1. S \in SUBSET Movements BY <1>2, <1>3 DEF Outs
  <2> QED BY <2>1, MovementsAssumption, FS_Subset
<1>5. PICK h : h = CHOOSE g : g = [s \in SUBSET S |-> IF s = {} THEN [used |-> {}, pairs |-> {}]
                                                    ELSE Pairing(Max(s), g[s \ {Max(s)}], legs, proposed)]
  OBVIOUS
<1>6. classifyTransfers(proposed) = h[S].pairs
  BY <1>1, <1>3, <1>5 DEF classifyTransfers, MapThenFoldSet
<1>7. h = CHOOSE g : Paired(g, S, legs, proposed) BY <1>5 DEF Paired, PairTerm, NoPairs
<1>8. Paired(h, S, legs, proposed)
  <2>1. \E g : Paired(g, S, legs, proposed) BY <1>4, PairingExists
  <2> QED BY <1>7, <2>1
<1>9. PairsHold(h[S], S, legs, proposed) BY <1>2, <1>3, <1>8, PairedHolds
<1> QED BY <1>1, <1>3, <1>6, <1>9

(* A leg paired as it was reported is a marked row, which no later night   *)
(* takes for a leg.                                                        *)
ToldIsMarked ==
  \A c \in counted : c.leg \in Movements /\ (c.told => c.leg \in DOMAIN rows /\ rows[c.leg] # {})

TransfersInv ==
  /\ DOMAIN rows \subseteq Movements /\ \A x \in DOMAIN rows : rows[x] \subseteq Movements
  /\ lastNight.proposed \subseteq Movements /\ lastNight.proposed \subseteq lastNight.legs
  /\ LegsOnce /\ NoneMissed /\ CountedOnce /\ ToldIsMarked

LEMMA TransfersStart == TransfersInit => TransfersInv
BY DEF TransfersInit, TransfersInv, LegsOnce, NoneMissed, Outs, CountedOnce, ToldIsMarked

LEMMA TransfersStep == TransfersInv /\ [TransfersNext]_TransfersVars => TransfersInv'
<1> SUFFICES ASSUME TransfersInv, [TransfersNext]_TransfersVars PROVE TransfersInv' OBVIOUS
<1>1. CASE UNCHANGED TransfersVars
  BY <1>1 DEF TransfersVars, TransfersInv, LegsOnce, NoneMissed, Outs, Ins, CountedOnce, ToldIsMarked
<1>2. ASSUME NEW proposed \in SUBSET Movements, NormalizeMovements(proposed) PROVE TransfersInv'
  <2>1. PICK legs : legs = LegsTonight(proposed) OBVIOUS
  <2>2. PICK state : /\ classifyTransfers(proposed) = state.pairs
                     /\ PairsHold(state, Outs(legs), legs, proposed)
    BY <2>1, PairsOfNight DEF TransfersInv
  <2>3. PICK pairs : pairs = state.pairs OBVIOUS
  <2>4. /\ lastNight' = [proposed |-> proposed, legs |-> legs, pairs |-> pairs]
        /\ rows' = [x \in DOMAIN rows \cup proposed |->
                      IF x \in proposed THEN UNION {{p.out, p.in} : p \in {q \in pairs : x \in {q.out, q.in}}}
                      ELSE rows[x]]
    BY <1>2, <2>1, <2>2, <2>3 DEF NormalizeMovements
  <2>5. lastNight'.proposed = proposed /\ lastNight'.legs = legs /\ lastNight'.pairs = pairs BY <2>4
  <2>6. legs \subseteq Movements /\ proposed \subseteq legs BY <2>1 DEF LegsTonight, TransfersInv
  <2>7. \A p \in pairs : p.out \in Outs(legs) /\ p.in \in Ins(legs) /\ CouldPair(p.out, p.in)
    BY <2>2, <2>3 DEF PairsHold
  <2>8. \A p \in pairs : p.out \in Movements /\ p.in \in Movements BY <2>6, <2>7 DEF Outs, Ins
  <2>9. DOMAIN rows' \subseteq Movements /\ \A x \in DOMAIN rows' : rows'[x] \subseteq Movements
    BY <2>4, <2>8 DEF TransfersInv
  <2>10. LegsOnce'
    <3>1. \A p \in pairs :
            /\ MovementOf[p.out].amount < 0 /\ MovementOf[p.in].amount > 0
            /\ MovementOf[p.out].account # MovementOf[p.in].account
            /\ Apart(p.out, p.in) <= TransferWindow
      BY <2>7 DEF Outs, Ins, CouldPair
    <3>2. \A p, q \in pairs : p # q => {p.out, p.in} \cap {q.out, q.in} = {} BY <2>2, <2>3 DEF PairsHold
    <3> QED BY <2>5, <3>1, <3>2 DEF LegsOnce
  <2>11. NoneMissed'
    <3>1. PICK paired : paired = UNION {{p.out, p.in} : p \in pairs} OBVIOUS
    <3>2. state.used = paired BY <2>2, <2>3, <3>1 DEF PairsHold
    <3>3. Outs(proposed) \subseteq Outs(legs) \cap proposed BY <2>6 DEF Outs
    <3>4. \A o \in Outs(proposed) \ paired : \A i \in Ins(legs) \ paired : ~CouldPair(o, i)
      BY <2>2, <3>2, <3>3 DEF PairsHold
    <3> QED BY <2>5, <3>1, <3>4 DEF NoneMissed
  <2>12. counted' = {c \in counted : c.leg \notin proposed} \cup LegsOf(pairs, proposed)
    BY <1>2, <2>2, <2>3 DEF NormalizeMovements
  <2>13. \A c \in LegsOf(pairs, proposed) :
           \E p \in pairs : /\ c.leg \in {p.out, p.in} /\ c.with \in {p.out, p.in}
                           /\ c.told = (c.leg \in proposed) /\ c.with # c.leg
    <3>1. \A p \in pairs : p.out # p.in BY <2>7 DEF CouldPair
    <3> QED BY <3>1 DEF LegsOf
  <2>14. \A c \in LegsOf(pairs, proposed) : c.leg \in legs
    BY <2>7, <2>13 DEF Outs, Ins
  <2>15. ToldIsMarked'
    <3> SUFFICES ASSUME NEW c \in counted'
                 PROVE  c.leg \in Movements /\ (c.told => c.leg \in DOMAIN rows' /\ rows'[c.leg] # {})
      BY DEF ToldIsMarked
    <3>1. CASE c \in counted /\ c.leg \notin proposed
      BY <2>4, <3>1 DEF TransfersInv, ToldIsMarked
    <3>2. CASE c \in LegsOf(pairs, proposed)
      <4>1. PICK p \in pairs : c.leg \in {p.out, p.in} /\ c.told = (c.leg \in proposed) BY <2>13, <3>2
      <4>2. c.leg \in Movements BY <2>6, <2>14, <3>2
      <4>3. ASSUME c.leg \in proposed PROVE rows'[c.leg] # {}
        <5>1. p \in {q \in pairs : c.leg \in {q.out, q.in}} BY <4>1
        <5>2. p.out \in UNION {{q.out, q.in} : q \in {q \in pairs : c.leg \in {q.out, q.in}}} BY <5>1
        <5> QED BY <2>4, <4>3, <5>2
      <4> QED BY <2>4, <4>1, <4>2, <4>3
    <3> QED BY <2>12, <3>1, <3>2
  <2>16. CountedOnce'
    <3> SUFFICES ASSUME NEW c \in counted', NEW d \in counted', c.leg = d.leg, c.with # d.with, c.told
                 PROVE  FALSE
      BY DEF CountedOnce
    <3>1. CASE c \in LegsOf(pairs, proposed) /\ d \in LegsOf(pairs, proposed)
      <4>1. PICK p \in pairs : c.leg \in {p.out, p.in} /\ c.with \in {p.out, p.in} /\ c.with # c.leg
        BY <2>13, <3>1
      <4>2. PICK q \in pairs : d.leg \in {q.out, q.in} /\ d.with \in {q.out, q.in} /\ d.with # d.leg
        BY <2>13, <3>1
      <4>3. p = q BY <2>2, <2>3, <4>1, <4>2 DEF PairsHold
      <4> QED BY <4>1, <4>2, <4>3
    <3>2. CASE c \in LegsOf(pairs, proposed) /\ d \in counted /\ d.leg \notin proposed
      <4>1. c.told = (c.leg \in proposed) BY <2>13, <3>2
      <4> QED BY <3>2, <4>1
    <3>3. CASE c \in counted /\ c.leg \notin proposed /\ d \in LegsOf(pairs, proposed)
      <4>1. rows[c.leg] # {} BY <3>3 DEF TransfersInv, ToldIsMarked
      <4>2. c.leg \in legs BY <2>14, <3>3
      <4> QED BY <2>1, <3>3, <4>1, <4>2 DEF LegsTonight
    <3>4. CASE c \in counted /\ d \in counted BY <3>4 DEF TransfersInv, CountedOnce
    <3> QED BY <2>12, <3>1, <3>2, <3>3, <3>4
  <2> QED BY <2>5, <2>6, <2>9, <2>10, <2>11, <2>15, <2>16 DEF TransfersInv
<1> QED BY <1>1, <1>2 DEF TransfersNext

-----------------------------------------------------------------------------
(* The detectors.                                                          *)

Told(code, thing) == \E f \in queue : f.code = code /\ f.thing = thing
StillOpen(code, thing) == \E f \in queue : f.open /\ f.code = code /\ f.thing = thing
Drafted(r, code, thing) == \E d \in night[r].drafts : d.code = code /\ d.thing = thing

(* Told, or drafted by a night that has committed and will tell it.        *)
Heard(code, thing) ==
  Told(code, thing) \/ \E r \in DetectorNights : night[r].at = "record" /\ Drafted(r, code, thing)

WillBe(r, code, thing) == Drafted(r, code, thing) \/ Heard(code, thing)
AsksFor(r, code, thing) == Drafted(r, code, thing) \/ StillOpen(code, thing)

NightFields == {"at", "in", "proposed", "day", "drafts", "standing", "alone"}
FindingFields == {"code", "thing", "fingerprint", "night", "open"}

NightsTyped ==
  /\ topic \in Topics /\ evening \in Nat /\ overlaps \in Nat /\ undisturbed \in DetectorNights \cup {0}
  /\ night = [r \in DetectorNights |-> night[r]]
  /\ \A r \in DetectorNights :
       /\ DOMAIN night[r] = NightFields
       /\ night[r].at \in {"waits", "commit", "record", "over"} /\ night[r].alone \in BOOLEAN
       /\ night[r].at # "waits" =>
            /\ night[r].in \in Readings[topic]
            /\ night[r].day \in Nat /\ night[r].day <= evening
            /\ \A d \in night[r].drafts : d.fingerprint = d.thing

QueueTyped ==
  \A f \in queue :
    /\ DOMAIN f = FindingFields /\ f.open \in BOOLEAN /\ f.fingerprint = f.thing
    /\ f.night \in DetectorNights /\ night[f.night].at = "over"

TotalRows == [amount : Totals, day : Nat]
KeptTyped == kept.totals \in Seq(TotalRows) /\ kept.posts \subseteq Nat

(* Nobody else is under way beside a night that nothing crossed.           *)
Lone ==
  /\ \A r, q \in DetectorNights : UnderWay(r) /\ night[r].alone /\ UnderWay(q) => q = r
  /\ overlaps = 0 => \A r, q \in DetectorNights : UnderWay(r) /\ UnderWay(q) => q = r
  /\ undisturbed # 0 => \A q \in DetectorNights : ~UnderWay(q)

(* What the ledger says, or a night is about to make it say, was told or   *)
(* will be.                                                                *)
AllHeard ==
  /\ \A a \in kept.open \cup kept.closed : Heard("unknown_account", a)
  /\ \A a \in kept.closed : Heard("account_gone", a)
  /\ kept.lot # NoValue /\ kept.lot.cost = NoValue => Heard("missing_cost_basis", <<"lot", kept.lot.quantity>>)
  /\ \A r \in DetectorNights : night[r].at = "commit" =>
       LET p == night[r].proposed
       IN  /\ \A a \in p.listed \cup p.gone : WillBe(r, "unknown_account", a)
           /\ \A a \in p.gone : WillBe(r, "account_gone", a)
           /\ p.lot # NoValue /\ p.lot.cost = NoValue =>
                WillBe(r, "missing_cost_basis", <<"lot", p.lot.quantity>>)

(* A total that did not move since its i-th row, while movements posted.   *)
FrozenFrom(i, total, day, active) ==
  /\ total # NoValue /\ day - kept.totals[i].day > MaxAge
  /\ \A j \in i .. Len(kept.totals) : kept.totals[j].amount = total
  /\ active \/ \E d \in kept.posts : d >= kept.totals[i].day

(* What a night that nothing crossed has read is drafted, or asked already.*)
AsksOfFrozen(r) ==
  \A i \in DOMAIN kept.totals :
    FrozenFrom(i, night[r].in.total, night[r].day, night[r].at = "commit" /\ night[r].in.moves) =>
      \/ \E d \in night[r].drafts : d.code = "stale_balance"
      \/ Open("stale_balance") # {}

WatchedTwice(r) ==
  IF night[r].at = "commit" THEN TwiceIn(Overlaid(night[r].in.wallets)) ELSE TwiceIn(kept.watched)

AsksWhatItRead(r) ==
  /\ \A i \in night[r].in.failed : AsksFor(r, "fetch_failed", <<i, r>>)
  /\ night[r].standing = WatchedTwice(r)
  /\ \A c \in night[r].standing : AsksFor(r, "address_watched_twice", c)
  /\ overlaps = 0 => AsksOfFrozen(r)

AloneAsks == \A r \in DetectorNights : UnderWay(r) /\ night[r].alone => AsksWhatItRead(r)

(* The totals are in the order of their days, and a frozen one is told from*)
(* the day on which its stretch began.                                     *)
InOrderOfDays ==
  overlaps = 0 =>
    /\ \A i, j \in DOMAIN kept.totals : i <= j => kept.totals[i].day <= kept.totals[j].day
    /\ \A i \in DOMAIN kept.totals : kept.totals[i].day <= evening
    /\ \A r \in DetectorNights : UnderWay(r) =>
         /\ \A i \in DOMAIN kept.totals : kept.totals[i].day <= night[r].day
         /\ \A d \in night[r].drafts : d.code = "stale_balance" =>
              /\ d.thing[1] = night[r].in.total
              /\ \A i \in DOMAIN kept.totals : kept.totals[i].day > d.thing[2] => kept.totals[i].amount = d.thing[1]

(* What is drafted is not in the queue, or was answered and may be asked   *)
(* again.                                                                  *)
DraftsAreNew ==
  overlaps = 0 =>
    \A r \in DetectorNights : UnderWay(r) =>
      \A d \in night[r].drafts : \A f \in queue :
        f.code = d.code /\ f.thing = d.thing => f.code \notin DedupeForever /\ ~f.open

DetectorsInv ==
  /\ NightsTyped /\ QueueTyped /\ KeptTyped /\ Lone /\ AllHeard /\ AloneAsks /\ InOrderOfDays /\ DraftsAreNew
  /\ QueueTellsTrue /\ ToldOnce /\ FrozenSinceThen

LEMMA ReadingKnown ==
  ASSUME topic \in Topics, NEW in \in Readings[topic]
  PROVE  /\ in.failed \cap in.answered = {}
         /\ in.total \in Totals \cup {NoValue} /\ in.moves \in BOOLEAN
<1>1. topic \in {"answers", "accounts", "wallets", "totals", "forms", "lots", "sums", "moves"}
  BY TopicsAssumption DEF Readings
<1>2. CASE topic = "answers"
  <2>1. PICK f, a : a \in SUBSET (Institutions \ f) /\ in = AnswersRead(f, a) BY <1>2 DEF Readings
  <2> QED BY <2>1 DEF AnswersRead, Nothing
<1>3. CASE topic = "accounts"
  <2>1. PICK s : in = [Nothing EXCEPT !.listed = s] BY <1>3 DEF Readings
  <2> QED BY <2>1 DEF Nothing
<1>4. CASE topic = "wallets"
  <2>1. PICK w : in = [Nothing EXCEPT !.wallets = w] BY <1>4 DEF Readings
  <2> QED BY <2>1 DEF Nothing
<1>5. CASE topic = "totals"
  <2>1. PICK t \in Totals, m \in BOOLEAN : in = TotalRead(t, m) BY <1>5 DEF Readings
  <2> QED BY <2>1 DEF TotalRead, Nothing
<1>6. CASE topic = "forms"
  <2>1. PICK f : in = [Nothing EXCEPT !.form = f] BY <1>6 DEF Readings
  <2> QED BY <2>1 DEF Nothing
<1>7. CASE topic = "lots"
  <2>1. PICK l, h : in = LotRead(l, h) BY <1>7 DEF Readings
  <2> QED BY <2>1 DEF LotRead, Nothing
<1>8. CASE topic = "sums"
  <2>1. PICK h, t : t \in Totals /\ in = SumRead(h, t) BY <1>8 DEF Readings
  <2> QED BY <2>1 DEF SumRead, Nothing
<1>9. CASE topic = "moves"
  <2>1. PICK p, l : in = MovesRead(p, l) BY <1>9 DEF Readings
  <2> QED BY <2>1 DEF MovesRead, Nothing
<1> QED BY <1>1, <1>2, <1>3, <1>4, <1>5, <1>6, <1>7, <1>8, <1>9

LEMMA EmitIs ==
  ASSUME NEW code, NEW thing
  PROVE  /\ emit(code, thing).code = code /\ emit(code, thing).thing = thing
         /\ emit(code, thing).fingerprint = thing
BY DEF emit, Draft

(* What each detector drafts says what it is about, and of two of them     *)
(* what that is.                                                           *)
LEMMA DetectIs ==
  ASSUME NEW in, NEW r, NEW d \in Detect(in, r)
  PROVE  /\ d.fingerprint = d.thing
         /\ d.code = "address_watched_twice" => d.thing \in StillWatchedTwice(in)
         /\ d.code = "stale_balance" => d \in StaleBalances(in)
<1>1. CASE d \in FetchFailures(in, r)
  <2>1. PICK t : d = emit("fetch_failed", t) BY <1>1 DEF FetchFailures
  <2> QED BY <2>1, EmitIs
<1>2. CASE d \in NewAccounts(in) BY <1>2, EmitIs DEF NewAccounts
<1>3. CASE d \in AddressesWatchedTwice(in) BY <1>3, EmitIs DEF AddressesWatchedTwice
<1>4. CASE d \in IncomeTransfers(in) BY <1>4, EmitIs DEF IncomeTransfers
<1>5. CASE d \in StaleBalances(in) BY <1>5, EmitIs DEF StaleBalances
<1>6. CASE d \in CorrectedTaxDocuments(in) BY <1>6, EmitIs DEF CorrectedTaxDocuments
<1>7. CASE d \in MissingLotBasis(in) BY <1>7, EmitIs DEF MissingLotBasis
<1>8. CASE d \in MissingPositionBasis(in) BY <1>8, EmitIs DEF MissingPositionBasis
<1>9. CASE d \in CryptoSwaps(in)
  <2>1. PICK t : d = emit("crypto_swap_taxable_event", t) BY <1>9 DEF CryptoSwaps
  <2> QED BY <2>1, EmitIs
<1>10. CASE d \in PositionBalanceMismatch(in) BY <1>10, EmitIs DEF PositionBalanceMismatch
<1> QED BY <1>1, <1>2, <1>3, <1>4, <1>5, <1>6, <1>7, <1>8, <1>9, <1>10 DEF Detect

LEMMA DetectAll ==
  ASSUME NEW in, NEW r
  PROVE  /\ \A i \in in.failed : emit("fetch_failed", <<i, r>>) \in Detect(in, r)
         /\ in.listed # NoValue =>
              /\ \A a \in in.listed \ (kept.open \cup kept.closed) : emit("unknown_account", a) \in Detect(in, r)
              /\ \A a \in kept.open \ in.listed : emit("account_gone", a) \in Detect(in, r)
         /\ \A c \in StillWatchedTwice(in) : emit("address_watched_twice", c) \in Detect(in, r)
         /\ StaleBalances(in) \subseteq Detect(in, r)
         /\ LotChanged(in) /\ LotOf(in).cost = NoValue =>
              emit("missing_cost_basis", <<"lot", LotOf(in).quantity>>) \in Detect(in, r)
<1>1. /\ FetchFailures(in, r) \subseteq Detect(in, r) /\ NewAccounts(in) \subseteq Detect(in, r)
      /\ AddressesWatchedTwice(in) \subseteq Detect(in, r) /\ StaleBalances(in) \subseteq Detect(in, r)
      /\ MissingLotBasis(in) \subseteq Detect(in, r)
  BY DEF Detect
<1>2. \A i \in in.failed : emit("fetch_failed", <<i, r>>) \in FetchFailures(in, r) BY DEF FetchFailures
<1>3. in.listed # NoValue =>
        /\ \A a \in in.listed \ (kept.open \cup kept.closed) : emit("unknown_account", a) \in NewAccounts(in)
        /\ \A a \in kept.open \ in.listed : emit("account_gone", a) \in NewAccounts(in)
  BY DEF NewAccounts
<1>4. \A c \in StillWatchedTwice(in) : emit("address_watched_twice", c) \in AddressesWatchedTwice(in)
  BY DEF AddressesWatchedTwice
<1>5. LotChanged(in) /\ LotOf(in).cost = NoValue =>
        emit("missing_cost_basis", <<"lot", LotOf(in).quantity>>) \in MissingLotBasis(in)
  BY DEF MissingLotBasis
<1> QED BY <1>1, <1>2, <1>3, <1>4, <1>5

(* While the totals are in order the last one counts, and the oldest of    *)
(* its stretch is told.                                                    *)
LEMMA StaleIs ==
  ASSUME KeptTyped, NEW in, in.total # NoValue, kept.totals # <<>>,
         \A i, j \in DOMAIN kept.totals : i <= j => kept.totals[i].day <= kept.totals[j].day
  PROVE  \E m \in DOMAIN kept.totals :
           LET n == Len(kept.totals) since == kept.totals[m].day
           IN  /\ \A j \in m .. n : kept.totals[j].amount = kept.totals[n].amount
               /\ \A i \in 1 .. n : (\A j \in i .. n : kept.totals[j].amount = kept.totals[n].amount) => m <= i
               /\ StaleBalances(in) =
                    IF kept.totals[n].amount = in.total /\ evening - since > MaxAge /\ ActivitySince(in, since)
                      THEN {emit("stale_balance", <<in.total, since>>)} ELSE {}
<1>1. PICK n : n = Len(kept.totals) OBVIOUS
<1>2. n \in Nat \ {0} /\ DOMAIN kept.totals = 1 .. n /\ n \in 1 .. n
  <2>1. kept.totals \in Seq(TotalRows) BY DEF KeptTyped
  <2>2. Len(kept.totals) \in Nat /\ DOMAIN kept.totals = 1 .. Len(kept.totals) BY <2>1, LenProperties
  <2>3. Len(kept.totals) # 0 BY <2>1, EmptySeq
  <2> QED BY <1>1, <2>2, <2>3
<1>3. \A i \in 1 .. n : kept.totals[i].day \in Nat
  <2> SUFFICES ASSUME NEW i \in 1 .. n PROVE kept.totals[i].day \in Nat OBVIOUS
  <2>1. kept.totals[i] \in TotalRows BY <1>1, <1>2, ElementOfSeq DEF KeptTyped
  <2> QED BY <2>1 DEF TotalRows
<1>4. LatestTotal = n
  <2> DEFINE lst(i) == \A j \in DOMAIN kept.totals : \/ kept.totals[j].day < kept.totals[i].day
                                                     \/ kept.totals[j].day = kept.totals[i].day /\ j <= i
  <2>1. LatestTotal = CHOOSE i \in DOMAIN kept.totals : lst(i) BY DEF LatestTotal
  <2>2. lst(n)
    <3> SUFFICES ASSUME NEW j \in 1 .. n
                 PROVE  \/ kept.totals[j].day < kept.totals[n].day
                        \/ kept.totals[j].day = kept.totals[n].day /\ j <= n
      BY <1>2
    <3>1. j <= n /\ kept.totals[j].day <= kept.totals[n].day BY <1>2
    <3> QED BY <3>1, <1>2, <1>3
  <2>3. ASSUME NEW i \in 1 .. n, lst(i) PROVE i = n
    <3>1. \/ kept.totals[n].day < kept.totals[i].day
          \/ kept.totals[n].day = kept.totals[i].day /\ n <= i
      BY <2>3, <1>2
    <3>2. kept.totals[i].day <= kept.totals[n].day BY <1>2
    <3> QED BY <3>1, <3>2, <1>2, <1>3
  <2> HIDE DEF lst
  <2> QED BY <2>1, <2>2, <2>3, <1>2
<1> DEFINE R == {i \in 1 .. n : \A j \in i .. n : kept.totals[j].amount = kept.totals[n].amount}
<1>5. PICK m : m = Min(R) OBVIOUS
<1>6. m \in R /\ \A i \in R : m <= i
  <2>1. R \subseteq Nat /\ R # {}
    <3>1. \A j \in n .. n : j = n BY <1>2
    <3>2. n \in R BY <3>1, <1>2
    <3> QED BY <3>2, <1>2
  <2> HIDE DEF R
  <2>2. \E i \in R : \A j \in R : i <= j BY <2>1, LeastNumber
  <2> QED BY <1>5, <2>2 DEF Min
<1>7. OldestIdentical(LatestTotal) = kept.totals[m] BY <1>4, <1>5 DEF OldestIdentical
<1>8. m \in 1 .. n /\ \A j \in m .. n : kept.totals[j].amount = kept.totals[n].amount BY <1>6
<1>9. \A i \in 1 .. n : (\A j \in i .. n : kept.totals[j].amount = kept.totals[n].amount) => m <= i BY <1>6
<1>10. StaleBalances(in) =
         IF /\ kept.totals[n].amount = in.total /\ evening - kept.totals[m].day > MaxAge
            /\ ActivitySince(in, kept.totals[m].day)
           THEN {emit("stale_balance", <<in.total, kept.totals[m].day>>)} ELSE {}
  BY <1>4, <1>7 DEF StaleBalances
<1> QED BY <1>1, <1>2, <1>8, <1>9, <1>10

(* A night that another step crosses keeps what it read and drafted, and   *)
(* is alone no more.                                                       *)
Same(q) ==
  /\ DOMAIN night'[q] = NightFields
  /\ night'[q].in = night[q].in /\ night'[q].proposed = night[q].proposed /\ night'[q].day = night[q].day
  /\ night'[q].drafts = night[q].drafts /\ night'[q].standing = night[q].standing
  /\ night'[q].alone \in BOOLEAN

Passed(q) == Same(q) /\ night'[q].at = night[q].at /\ (UnderWay(q) => ~night'[q].alone)

MovedTo(r, place) == Same(r) /\ night'[r].at = place /\ night'[r].alone = night[r].alone

LEMMA CrossedIs ==
  ASSUME NightsTyped, NEW r, NEW q \in DetectorNights, NEW n, n = Crossed(r)[q]
  PROVE  /\ DOMAIN n = NightFields /\ n.at = night[q].at /\ n.in = night[q].in /\ n.proposed = night[q].proposed
         /\ n.day = night[q].day /\ n.drafts = night[q].drafts /\ n.standing = night[q].standing
         /\ n.alone \in BOOLEAN /\ (q = r => n = night[q]) /\ (q # r /\ UnderWay(q) => ~n.alone)
<1>1. n = IF q # r /\ UnderWay(q) THEN [night[q] EXCEPT !.alone = FALSE] ELSE night[q] BY DEF Crossed
<1>2. DOMAIN night[q] = NightFields /\ night[q].alone \in BOOLEAN BY DEF NightsTyped
<1> QED BY <1>1, <1>2 DEF NightFields

LEMMA NightMoves ==
  ASSUME NightsTyped, NEW r \in DetectorNights, NEW place, night' = [Crossed(r) EXCEPT ![r].at = place]
  PROVE  /\ night' = [q \in DetectorNights |-> night'[q]]
         /\ MovedTo(r, place) /\ \A q \in DetectorNights \ {r} : Passed(q)
<1>1. DOMAIN Crossed(r) = DetectorNights /\ night' = [q \in DetectorNights |-> night'[q]] BY DEF Crossed
<1>2. MovedTo(r, place)
  <2>1. PICK n : n = Crossed(r)[r] OBVIOUS
  <2>2. night'[r] = [n EXCEPT !.at = place] BY <1>1, <2>1
  <2>3. n = night[r] /\ DOMAIN n = NightFields /\ n.alone \in BOOLEAN BY <2>1, CrossedIs
  <2> QED BY <2>2, <2>3 DEF MovedTo, Same, NightFields
<1>3. ASSUME NEW q \in DetectorNights \ {r} PROVE Passed(q)
  <2>1. night'[q] = Crossed(r)[q] BY <1>1
  <2> QED BY <2>1, CrossedIs DEF Passed, Same
<1> QED BY <1>1, <1>2, <1>3

LEMMA NightReads ==
  ASSUME NightsTyped, NEW r \in DetectorNights, NEW n, night' = [Crossed(r) EXCEPT ![r] = n]
  PROVE  /\ night' = [q \in DetectorNights |-> night'[q]]
         /\ night'[r] = n /\ \A q \in DetectorNights \ {r} : Passed(q)
<1>1. DOMAIN Crossed(r) = DetectorNights /\ night' = [q \in DetectorNights |-> night'[q]] BY DEF Crossed
<1>2. ASSUME NEW q \in DetectorNights \ {r} PROVE Passed(q)
  <2>1. night'[q] = Crossed(r)[q] BY <1>1
  <2> QED BY <2>1, CrossedIs DEF Passed, Same
<1> QED BY <1>1, <1>2

LEMMA NightsCrossed ==
  ASSUME NightsTyped, night' = Crossed(0)
  PROVE  night' = [q \in DetectorNights |-> night'[q]] /\ \A q \in DetectorNights : Passed(q)
<1>1. DOMAIN Crossed(0) = DetectorNights /\ night' = [q \in DetectorNights |-> night'[q]] BY DEF Crossed
<1>2. ASSUME NEW q \in DetectorNights PROVE Passed(q)
  <2>1. q # 0 BY DEF DetectorNights
  <2> QED BY <2>1, CrossedIs DEF Passed, Same
<1> QED BY <1>1, <1>2

LEMMA NightsSame == topic' = topic => DetectorNights' = DetectorNights
BY DEF DetectorNights

(* A finding as the operator's answer, or what a later night read, leaves it.*)
ClosedOnce(f) == [f EXCEPT !.open = FALSE]

LEMMA FindingCloses ==
  ASSUME NEW f, DOMAIN f = FindingFields
  PROVE  LET c == ClosedOnce(f)
         IN  /\ DOMAIN c = FindingFields /\ c.code = f.code /\ c.thing = f.thing
             /\ c.fingerprint = f.fingerprint /\ c.night = f.night /\ c.open = FALSE
BY DEF ClosedOnce, FindingFields

Finding(d, r) == [code |-> d.code, thing |-> d.thing, fingerprint |-> d.fingerprint, night |-> r, open |-> TRUE]
Asked(r) == queue \cup {Finding(d, r) : d \in night[r].drafts}
Leaves(f, r) == IF f.open /\ Moot(f, r) THEN ClosedOnce(f) ELSE f

LEMMA RecordsLeave ==
  ASSUME NEW r, Records(r)
  PROVE  queue' = {Leaves(f, r) : f \in Asked(r)}
BY DEF Records, Leaves, Asked, Finding, ClosedOnce

LEMMA AskedTyped ==
  ASSUME NightsTyped, QueueTyped, NEW r \in DetectorNights, night[r].at = "record", NEW f \in Asked(r)
  PROVE  /\ DOMAIN f = FindingFields /\ f.open \in BOOLEAN /\ f.fingerprint = f.thing /\ f.night \in DetectorNights
         /\ f \in queue \/ \E d \in night[r].drafts : f = Finding(d, r)
         /\ f \in queue => night[f.night].at = "over"
<1>1. CASE f \in queue BY <1>1 DEF QueueTyped
<1>2. CASE f \notin queue
  <2>1. PICK d \in night[r].drafts : f = Finding(d, r) BY <1>2 DEF Asked
  <2>2. d.fingerprint = d.thing BY DEF NightsTyped
  <2> QED BY <1>2, <2>1, <2>2 DEF Finding, FindingFields
<1> QED BY <1>1, <1>2

LEMMA LeavesIs ==
  ASSUME NEW f, NEW r, DOMAIN f = FindingFields, f.open \in BOOLEAN
  PROVE  LET g == Leaves(f, r)
         IN  /\ DOMAIN g = FindingFields /\ g.code = f.code /\ g.thing = f.thing /\ g.fingerprint = f.fingerprint
             /\ g.night = f.night /\ g.open \in BOOLEAN /\ (g.open => f.open /\ ~Moot(f, r))
             /\ (f.open /\ ~Moot(f, r) => g.open)
<1>1. CASE f.open /\ Moot(f, r) BY <1>1, FindingCloses DEF Leaves
<1>2. CASE ~(f.open /\ Moot(f, r)) BY <1>2 DEF Leaves
<1> QED BY <1>1, <1>2

LEMMA AskedHas ==
  ASSUME NEW r, NEW d \in night[r].drafts
  PROVE  /\ Finding(d, r) \in Asked(r)
         /\ Finding(d, r).code = d.code /\ Finding(d, r).thing = d.thing /\ Finding(d, r).open
BY DEF Asked, Finding

(* What is told stays told, what the night drafted is told, and what it did*)
(* not settle is still open.                                               *)
LEMMA RecordsTell ==
  ASSUME NightsTyped, QueueTyped, NEW r \in DetectorNights, Records(r), NEW code, NEW thing
  PROVE  /\ Told(code, thing) \/ Drafted(r, code, thing) => Told(code, thing)'
         /\ AsksFor(r, code, thing) /\ (code = "fetch_failed" => thing[1] \notin night[r].in.answered)
              /\ (code = "address_watched_twice" => thing \in night[r].standing)
              => StillOpen(code, thing)'
<1>1. night[r].at = "record" BY DEF Records
<1>2. \A f \in Asked(r) : Leaves(f, r) \in queue' BY RecordsLeave
<1>3. ASSUME Told(code, thing) \/ Drafted(r, code, thing) PROVE Told(code, thing)'
  <2>1. PICK f \in Asked(r) : f.code = code /\ f.thing = thing
    <3>1. CASE Told(code, thing) BY <3>1 DEF Told, Asked
    <3>2. CASE Drafted(r, code, thing)
      <4>1. PICK d \in night[r].drafts : d.code = code /\ d.thing = thing BY <3>2 DEF Drafted
      <4> QED BY <4>1, AskedHas
    <3> QED BY <1>3, <3>1, <3>2
  <2>2. DOMAIN f = FindingFields /\ f.open \in BOOLEAN BY <1>1, <2>1, AskedTyped
  <2>3. Leaves(f, r).code = code /\ Leaves(f, r).thing = thing BY <2>1, <2>2, LeavesIs
  <2> QED BY <1>2, <2>3 DEF Told
<1>4. ASSUME AsksFor(r, code, thing), code = "fetch_failed" => thing[1] \notin night[r].in.answered,
             code = "address_watched_twice" => thing \in night[r].standing
      PROVE  StillOpen(code, thing)'
  <2>1. PICK f \in Asked(r) : f.code = code /\ f.thing = thing /\ f.open
    <3>1. CASE StillOpen(code, thing) BY <3>1 DEF StillOpen, Asked
    <3>2. CASE Drafted(r, code, thing)
      <4>1. PICK d \in night[r].drafts : d.code = code /\ d.thing = thing BY <3>2 DEF Drafted
      <4> QED BY <4>1, AskedHas
    <3> QED BY <1>4, <3>1, <3>2 DEF AsksFor
  <2>2. DOMAIN f = FindingFields /\ f.open \in BOOLEAN /\ f.fingerprint = f.thing BY <1>1, <2>1, AskedTyped
  <2>3. ~Moot(f, r) BY <1>4, <2>1, <2>2 DEF Moot
  <2>4. Leaves(f, r).code = code /\ Leaves(f, r).thing = thing /\ Leaves(f, r).open BY <2>1, <2>2, <2>3, LeavesIs
  <2> QED BY <1>2, <2>4 DEF StillOpen
<1> QED BY <1>3, <1>4

(* What detection finds is drafted unless it was told; and unless it is    *)
(* open, when an answer lets it be asked again.                            *)
LEMMA DraftedOrTold ==
  ASSUME QueueTyped, NEW in, NEW r, NEW code, NEW thing, emit(code, thing) \in Detect(in, r),
         NEW D, D = {d \in Detect(in, r) : ~Suppressed(d)}
  PROVE  /\ (\E d \in D : d.code = code /\ d.thing = thing) \/ Told(code, thing)
         /\ code \notin DedupeForever => (\E d \in D : d.code = code /\ d.thing = thing) \/ StillOpen(code, thing)
<1>1. PICK e : e = emit(code, thing) OBVIOUS
<1>2. e.code = code /\ e.thing = thing /\ e.fingerprint = thing BY <1>1, EmitIs
<1>3. CASE ~Suppressed(e) BY <1>1, <1>2, <1>3
<1>4. CASE Suppressed(e)
  <2>1. PICK f \in queue : f.code = e.code /\ f.fingerprint = e.fingerprint /\ (e.code \in DedupeForever \/ f.open)
    BY <1>4 DEF Suppressed
  <2>2. f.thing = thing BY <1>2, <2>1 DEF QueueTyped
  <2> QED BY <1>2, <2>1, <2>2 DEF Told, StillOpen
<1> QED BY <1>3, <1>4

(* A night reads the feed.                                                 *)
LEMMA ReconcilesKeeps ==
  ASSUME DetectorsInv, NEW r \in DetectorNights, NEW in \in Readings[topic], Reconciles(r, in)
  PROVE  DetectorsInv'
<1> PICK D : D = {d \in Detect(in, r) : ~Suppressed(d)} OBVIOUS
<1> PICK n : n = night'[r] OBVIOUS
<1> PICK p : p = Proposed(in) OBVIOUS
<1> PICK calm \in BOOLEAN : calm <=> ~\E q \in DetectorNights : UnderWay(q) OBVIOUS
<1>a. /\ NightsTyped /\ QueueTyped /\ KeptTyped /\ Lone /\ AllHeard /\ AloneAsks /\ InOrderOfDays
      /\ DraftsAreNew /\ ToldOnce
  BY DEF DetectorsInv
<1>1. /\ topic' = topic /\ kept' = kept /\ queue' = queue /\ evening' = evening /\ undisturbed' = 0
      /\ DetectorNights' = DetectorNights /\ night[r].at = "waits"
  BY NightsSame DEF Reconciles
<1>2. /\ night' = [q \in DetectorNights |-> night'[q]]
      /\ night'[r] = n /\ \A q \in DetectorNights \ {r} : Passed(q)
      /\ n = [at |-> "commit", in |-> in, proposed |-> p, day |-> evening, drafts |-> D,
              standing |-> StillWatchedTwice(in), alone |-> calm]
  <2>1. night' = [Crossed(r) EXCEPT ![r] =
           [at |-> "commit", in |-> in, proposed |-> p, day |-> evening, drafts |-> D,
            standing |-> StillWatchedTwice(in), alone |-> ~\E q \in DetectorNights : UnderWay(q)]]
    BY DEF Reconciles
  <2> QED BY <2>1, <1>a, NightReads
<1>3. overlaps' \in Nat /\ (overlaps' = 0 => overlaps = 0 /\ n.alone)
  <2>1. overlaps \in Nat BY <1>a DEF NightsTyped
  <2>2. overlaps' = overlaps + (IF \E q \in DetectorNights : UnderWay(q) THEN 1 ELSE 0) BY DEF Reconciles
  <2>3. CASE \E q \in DetectorNights : UnderWay(q)
    <3>1. overlaps' = overlaps + 1 BY <2>2, <2>3
    <3> QED BY <3>1, <2>1
  <2>4. CASE ~\E q \in DetectorNights : UnderWay(q)
    <3>1. overlaps' = overlaps + 0 BY <2>2, <2>4
    <3>2. n.alone BY <2>4, <1>2
    <3> QED BY <3>1, <3>2, <2>1
  <2> QED BY <2>3, <2>4
<1>4. \A d \in D : d.fingerprint = d.thing BY DetectIs
<1>5. \A q \in DetectorNights \ {r} :
        /\ night'[q].at = night[q].at /\ night'[q].in = night[q].in /\ night'[q].proposed = night[q].proposed
        /\ night'[q].day = night[q].day /\ night'[q].drafts = night[q].drafts
        /\ DOMAIN night'[q] = NightFields /\ night'[q].alone \in BOOLEAN
        /\ UnderWay(q)' = UnderWay(q) /\ (UnderWay(q) => ~night'[q].alone)
  BY <1>2 DEF Passed, Same, UnderWay
<1>6. n.alone => \A q \in DetectorNights \ {r} : ~UnderWay(q)' BY <1>2, <1>5
<1>7. NightsTyped'
  <2>1. /\ topic' \in Topics /\ evening' \in Nat /\ overlaps' \in Nat /\ undisturbed' \in DetectorNights' \cup {0}
    BY <1>a, <1>1, <1>3 DEF NightsTyped
  <2>2. ASSUME NEW q \in DetectorNights
        PROVE  /\ DOMAIN night'[q] = NightFields
               /\ night'[q].at \in {"waits", "commit", "record", "over"} /\ night'[q].alone \in BOOLEAN
               /\ night'[q].at # "waits" =>
                    /\ night'[q].in \in Readings[topic] /\ night'[q].day \in Nat /\ night'[q].day <= evening
                    /\ \A d \in night'[q].drafts : d.fingerprint = d.thing
    <3>1. CASE q = r
      <4>1. evening \in Nat BY <1>a DEF NightsTyped
      <4>2. DOMAIN n = NightFields BY <1>2 DEF NightFields
      <4> QED BY <4>1, <4>2, <3>1, <1>2, <1>4
    <3>2. CASE q # r BY <3>2, <1>5, <1>a DEF NightsTyped
    <3> QED BY <3>1, <3>2
  <2> QED BY <2>1, <2>2, <1>1, <1>2 DEF NightsTyped
<1>8. QueueTyped'
  <2> SUFFICES ASSUME NEW f \in queue
               PROVE  /\ DOMAIN f = FindingFields /\ f.open \in BOOLEAN /\ f.fingerprint = f.thing
                      /\ f.night \in DetectorNights /\ night'[f.night].at = "over"
    BY <1>1 DEF QueueTyped
  <2>1. /\ DOMAIN f = FindingFields /\ f.open \in BOOLEAN /\ f.fingerprint = f.thing
        /\ f.night \in DetectorNights /\ night[f.night].at = "over"
    BY <1>a DEF QueueTyped
  <2> QED BY <2>1, <1>1, <1>5
<1>9. KeptTyped' BY <1>1, <1>a DEF KeptTyped
<1>10. Lone'
  <2>1. UnderWay(r)' BY <1>2 DEF UnderWay
  <2>2. ASSUME NEW x \in DetectorNights, NEW q \in DetectorNights, UnderWay(x)', night'[x].alone, UnderWay(q)'
        PROVE  q = x
    <3>1. x = r BY <2>2, <1>5
    <3> QED BY <3>1, <2>2, <1>2, <1>6
  <2>3. ASSUME overlaps' = 0, NEW x \in DetectorNights, NEW q \in DetectorNights, UnderWay(x)', UnderWay(q)'
        PROVE  q = x
    BY <2>3, <1>3, <1>6
  <2> QED BY <2>2, <2>3, <1>1 DEF Lone
<1>11. ASSUME NEW c, NEW t PROVE /\ Told(c, t)' = Told(c, t) /\ StillOpen(c, t)' = StillOpen(c, t)
  BY <1>1 DEF Told, StillOpen
<1>12. ASSUME NEW c, NEW t PROVE Heard(c, t) => Heard(c, t)'
  <2>1. ASSUME NEW q \in DetectorNights, night[q].at = "record", Drafted(q, c, t)
        PROVE  Heard(c, t)'
    <3>1. q # r BY <2>1, <1>1
    <3>2. night'[q].at = "record" /\ Drafted(q, c, t)' BY <2>1, <3>1, <1>5 DEF Drafted
    <3> QED BY <3>2, <1>1 DEF Heard
  <2>2. Told(c, t) => Heard(c, t)' BY <1>11 DEF Heard
  <2> QED BY <2>1, <2>2 DEF Heard
<1>13. ASSUME NEW c, NEW t, emit(c, t) \in Detect(in, r)
       PROVE  WillBe(r, c, t)' /\ (c \notin DedupeForever => AsksFor(r, c, t)')
  <2>1. /\ (\E d \in D : d.code = c /\ d.thing = t) \/ Told(c, t)
        /\ c \notin DedupeForever => (\E d \in D : d.code = c /\ d.thing = t) \/ StillOpen(c, t)
    BY <1>13, <1>a, DraftedOrTold
  <2>2. (\E d \in D : d.code = c /\ d.thing = t) => Drafted(r, c, t)' BY <1>2 DEF Drafted
  <2>3. Told(c, t) => Heard(c, t)' BY <1>11 DEF Heard
  <2> QED BY <2>1, <2>2, <2>3, <1>11 DEF WillBe, AsksFor
<1>14. AllHeard'
  <2>1. /\ \A a \in kept.open \cup kept.closed : Heard("unknown_account", a)'
        /\ \A a \in kept.closed : Heard("account_gone", a)'
    BY <1>a, <1>12 DEF AllHeard
  <2> PICK x : x = <<"lot", kept.lot.quantity>> OBVIOUS
  <2>2. kept.lot # NoValue /\ kept.lot.cost = NoValue => Heard("missing_cost_basis", x)'
    BY <1>a, <1>12 DEF AllHeard
  <2>3. ASSUME NEW q \in DetectorNights, q # r, night'[q].at = "commit", NEW m, m = night'[q].proposed
        PROVE  /\ \A a \in m.listed \cup m.gone : WillBe(q, "unknown_account", a)'
               /\ \A a \in m.gone : WillBe(q, "account_gone", a)'
               /\ m.lot # NoValue /\ m.lot.cost = NoValue => WillBe(q, "missing_cost_basis", <<"lot", m.lot.quantity>>)'
    <3>1. night[q].at = "commit" /\ m = night[q].proposed BY <2>3, <1>5
    <3>2. ASSUME NEW c, NEW t, WillBe(q, c, t) PROVE WillBe(q, c, t)'
      <4>1. Drafted(q, c, t) => Drafted(q, c, t)' BY <2>3, <1>5 DEF Drafted
      <4> QED BY <3>2, <4>1, <1>12 DEF WillBe
    <3> QED BY <3>1, <3>2, <1>a DEF AllHeard
  <2>4. /\ \A a \in p.listed \cup p.gone : WillBe(r, "unknown_account", a)'
        /\ \A a \in p.gone : WillBe(r, "account_gone", a)'
    <3>1. CASE in.listed = NoValue
      <4>1. p.listed = {} /\ p.gone = {} BY <3>1 DEF Proposed
      <4> QED BY <4>1
    <3>2. CASE in.listed # NoValue
      <4>1. p.listed = in.listed /\ p.gone = kept.open \ in.listed BY <3>2 DEF Proposed
      <4>2. \A a \in in.listed \ (kept.open \cup kept.closed) : WillBe(r, "unknown_account", a)'
        BY <3>2, <1>13, DetectAll
      <4>3. \A a \in kept.open \ in.listed : WillBe(r, "account_gone", a)' BY <3>2, <1>13, DetectAll
      <4>4. \A a \in kept.open \cup kept.closed : WillBe(r, "unknown_account", a)' BY <2>1 DEF WillBe
      <4> QED BY <4>1, <4>2, <4>3, <4>4
    <3> QED BY <3>1, <3>2
  <2>5. p.lot # NoValue /\ p.lot.cost = NoValue => WillBe(r, "missing_cost_basis", <<"lot", p.lot.quantity>>)'
    <3>1. p.lot = LotOf(in) BY DEF Proposed
    <3>2. PICK y : y = <<"lot", p.lot.quantity>> OBVIOUS
    <3>3. CASE p.lot = kept.lot
      <4>1. x = y BY <3>2, <3>3
      <4>2. p.lot # NoValue /\ p.lot.cost = NoValue => Heard("missing_cost_basis", y)' BY <4>1, <3>3, <2>2
      <4> QED BY <4>2, <3>2 DEF WillBe
    <3>4. CASE p.lot # kept.lot /\ p.lot.cost = NoValue
      <4>1. emit("missing_cost_basis", y) \in Detect(in, r) BY <3>1, <3>2, <3>4, DetectAll DEF LotChanged
      <4> QED BY <4>1, <3>2, <1>13
    <3> QED BY <3>3, <3>4
  <2>6. n.proposed = p BY <1>2
  <2>7. <<"lot", kept.lot.quantity>>' = x BY <1>1
  <2> QED BY <2>1, <2>2, <2>3, <2>4, <2>5, <2>6, <2>7, <1>1, <1>2 DEF AllHeard
<1>15. AloneAsks'
  <2>1. ASSUME NEW q \in DetectorNights, UnderWay(q)', night'[q].alone PROVE q = r BY <2>1, <1>5
  <2>2. \A i \in in.failed : AsksFor(r, "fetch_failed", <<i, r>>)'
    <3>1. "fetch_failed" \notin DedupeForever BY DEF DedupeForever
    <3> QED BY <3>1, <1>13, DetectAll
  <2>3. n.standing = TwiceIn(Overlaid(in.wallets))' /\ n.standing = StillWatchedTwice(in)
    BY <1>1, <1>2 DEF StillWatchedTwice, TwiceIn, Overlaid
  <2>4. \A c \in n.standing : AsksFor(r, "address_watched_twice", c)'
    <3>1. "address_watched_twice" \notin DedupeForever BY DEF DedupeForever
    <3> QED BY <3>1, <2>3, <1>13, DetectAll
  <2>5. ASSUME overlaps' = 0, NEW i \in DOMAIN kept.totals, FrozenFrom(i, in.total, evening, in.moves)
        PROVE  \/ \E d \in D : d.code = "stale_balance"
               \/ (Open("stale_balance") # {})'
    <3>1. /\ in.total # NoValue /\ kept.totals # <<>>
          /\ \A x, y \in DOMAIN kept.totals : x <= y => kept.totals[x].day <= kept.totals[y].day
      BY <2>5, <1>3, <1>a DEF FrozenFrom, InOrderOfDays
    <3>2. PICK k, m : k = Len(kept.totals) /\ m \in DOMAIN kept.totals
             /\ (\A x \in 1 .. k : (\A j \in x .. k : kept.totals[j].amount = kept.totals[k].amount) => m <= x)
             /\ StaleBalances(in) =
                  IF /\ kept.totals[k].amount = in.total /\ evening - kept.totals[m].day > MaxAge
                     /\ ActivitySince(in, kept.totals[m].day)
                    THEN {emit("stale_balance", <<in.total, kept.totals[m].day>>)} ELSE {}
      BY <3>1, <1>a, StaleIs
    <3>3. kept.totals \in Seq(TotalRows) /\ k \in Nat /\ DOMAIN kept.totals = 1 .. k
      BY <3>2, <1>a, LenProperties DEF KeptTyped
    <3>4. \A j \in i .. k : kept.totals[j].amount = in.total BY <2>5, <3>2 DEF FrozenFrom
    <3>5. kept.totals[k].amount = in.total /\ m <= i
      <4>1. k \in i .. k /\ i \in 1 .. k BY <3>3
      <4>2. kept.totals[k].amount = in.total BY <4>1, <3>4
      <4> QED BY <4>1, <4>2, <3>2, <3>4
    <3>6. kept.totals[m].day <= kept.totals[i].day BY <3>1, <3>2, <3>5
    <3>7. kept.totals[m].day \in Nat /\ kept.totals[i].day \in Nat
      <4>1. kept.totals[m] \in TotalRows /\ kept.totals[i] \in TotalRows BY <3>2, <3>3, ElementOfSeq
      <4> QED BY <4>1 DEF TotalRows
    <3>8. evening - kept.totals[m].day > MaxAge
      <4>1. evening - kept.totals[i].day > MaxAge BY <2>5 DEF FrozenFrom
      <4>2. evening \in Nat /\ MaxAge \in Nat BY <1>a, WalletsAssumption DEF NightsTyped
      <4> QED BY <4>1, <4>2, <3>6, <3>7
    <3>9. ActivitySince(in, kept.totals[m].day)
      <4>1. CASE in.moves BY <4>1 DEF ActivitySince
      <4>2. CASE \E d \in kept.posts : d >= kept.totals[i].day
        <5>1. PICK d \in kept.posts : d >= kept.totals[i].day BY <4>2
        <5>2. d \in Nat BY <1>a DEF KeptTyped
        <5>3. d >= kept.totals[m].day - 1 BY <5>1, <5>2, <3>6, <3>7
        <5> QED BY <5>3 DEF ActivitySince
      <4> QED BY <4>1, <4>2, <2>5 DEF FrozenFrom
    <3>10. PICK t : t = <<in.total, kept.totals[m].day>> OBVIOUS
    <3>11. emit("stale_balance", t) \in StaleBalances(in) BY <3>2, <3>5, <3>8, <3>9, <3>10
    <3>12. AsksFor(r, "stale_balance", t)'
      <4>1. "stale_balance" \notin DedupeForever BY DEF DedupeForever
      <4> QED BY <4>1, <3>11, <1>13, DetectAll
    <3>13. CASE Drafted(r, "stale_balance", t)' BY <3>13, <1>2 DEF Drafted
    <3>14. CASE StillOpen("stale_balance", t)' BY <3>14 DEF StillOpen, Open
    <3> QED BY <3>12, <3>13, <3>14 DEF AsksFor
  <2>6. ASSUME overlaps' = 0 PROVE AsksOfFrozen(r)'
    <3> SUFFICES ASSUME NEW i \in DOMAIN kept.totals,
                        FrozenFrom(i, night'[r].in.total, night'[r].day, night'[r].at = "commit" /\ night'[r].in.moves)
                 PROVE  \/ \E d \in night'[r].drafts : d.code = "stale_balance"
                        \/ (Open("stale_balance") # {})'
      BY <1>1 DEF AsksOfFrozen, FrozenFrom
    <3>1. FrozenFrom(i, in.total, evening, in.moves) BY <1>2 DEF FrozenFrom
    <3> QED BY <3>1, <2>5, <2>6, <1>2
  <2>7. AsksWhatItRead(r)'
    <3>1. night'[r].in = in /\ night'[r].at = "commit" /\ night'[r].standing = n.standing BY <1>2
    <3>2. WatchedTwice(r)' = TwiceIn(Overlaid(in.wallets))' BY <3>1, <1>1 DEF WatchedTwice, TwiceIn, Overlaid
    <3>3. night'[r].standing = WatchedTwice(r)' BY <3>1, <3>2, <2>3
    <3> QED BY <3>1, <3>3, <2>2, <2>4, <2>6 DEF AsksWhatItRead
  <2> QED BY <2>1, <2>7, <1>1 DEF AloneAsks
<1>16. InOrderOfDays'
  <2> SUFFICES ASSUME overlaps' = 0 PROVE InOrderOfDays' BY DEF InOrderOfDays
  <2>1. /\ \A i, j \in DOMAIN kept.totals : i <= j => kept.totals[i].day <= kept.totals[j].day
        /\ \A i \in DOMAIN kept.totals : kept.totals[i].day <= evening
    BY <1>3, <1>a DEF InOrderOfDays
  <2>2. ASSUME NEW q \in DetectorNights, UnderWay(q)' PROVE q = r BY <2>2, <1>3, <1>6
  <2>3. ASSUME NEW d \in D, d.code = "stale_balance"
        PROVE  /\ d.thing[1] = in.total
               /\ \A i \in DOMAIN kept.totals : kept.totals[i].day > d.thing[2] => kept.totals[i].amount = d.thing[1]
    <3>1. d \in StaleBalances(in) BY <2>3, DetectIs
    <3>2. in.total # NoValue /\ kept.totals # <<>> BY <3>1 DEF StaleBalances
    <3>3. PICK k, m : k = Len(kept.totals) /\ m \in DOMAIN kept.totals
             /\ (\A j \in m .. k : kept.totals[j].amount = kept.totals[k].amount)
             /\ StaleBalances(in) =
                  IF /\ kept.totals[k].amount = in.total /\ evening - kept.totals[m].day > MaxAge
                     /\ ActivitySince(in, kept.totals[m].day)
                    THEN {emit("stale_balance", <<in.total, kept.totals[m].day>>)} ELSE {}
      BY <3>2, <2>1, <1>a, StaleIs
    <3>4. d = emit("stale_balance", <<in.total, kept.totals[m].day>>) /\ kept.totals[k].amount = in.total
      BY <3>1, <3>3
    <3>5. d.thing = <<in.total, kept.totals[m].day>> BY <3>4, EmitIs
    <3>6. ASSUME NEW i \in DOMAIN kept.totals, kept.totals[i].day > kept.totals[m].day
          PROVE  kept.totals[i].amount = in.total
      <4>1. kept.totals \in Seq(TotalRows) /\ k \in Nat /\ DOMAIN kept.totals = 1 .. k
        BY <3>3, <1>a, LenProperties DEF KeptTyped
      <4>2. kept.totals[m].day \in Nat /\ kept.totals[i].day \in Nat
        <5>1. kept.totals[m] \in TotalRows /\ kept.totals[i] \in TotalRows BY <3>3, <4>1, ElementOfSeq
        <5> QED BY <5>1 DEF TotalRows
      <4>3. ~(i <= m) BY <3>3, <3>6, <4>2, <2>1
      <4>4. i \in m .. k BY <4>1, <4>3, <3>3
      <4> QED BY <4>4, <3>3, <3>4
    <3> QED BY <3>5, <3>6
  <2>4. n.day = evening /\ n.in = in /\ n.drafts = D BY <1>2
  <2> QED BY <2>1, <2>2, <2>3, <2>4, <1>1, <1>2 DEF InOrderOfDays
<1>17. DraftsAreNew'
  <2> SUFFICES ASSUME overlaps' = 0, NEW q \in DetectorNights, UnderWay(q)', NEW d \in night'[q].drafts,
                      NEW f \in queue, f.code = d.code, f.thing = d.thing
               PROVE  f.code \notin DedupeForever /\ ~f.open
    BY <1>1 DEF DraftsAreNew
  <2>1. q = r BY <1>3, <1>6
  <2>2. d \in D BY <2>1, <1>2
  <2>3. f.fingerprint = d.fingerprint BY <2>2, <1>4, <1>a DEF QueueTyped
  <2> QED BY <2>2, <2>3 DEF Suppressed
<1>18. QueueTellsTrue' /\ FrozenSinceThen' BY <1>1 DEF QueueTellsTrue, FrozenSinceThen
<1>19. ToldOnce' BY <1>1, <1>3, <1>a DEF ToldOnce
<1> QED BY <1>7, <1>8, <1>9, <1>10, <1>14, <1>15, <1>16, <1>17, <1>18, <1>19 DEF DetectorsInv

(* A night commits what it read.                                           *)
LEMMA CommitsKeeps ==
  ASSUME DetectorsInv, NEW r \in DetectorNights, Commits(r)
  PROVE  DetectorsInv'
<1> PICK in : in = night[r].in OBVIOUS
<1> PICK p : p = night[r].proposed OBVIOUS
<1> PICK day : day = night[r].day OBVIOUS
<1>a. /\ NightsTyped /\ QueueTyped /\ KeptTyped /\ Lone /\ AllHeard /\ AloneAsks /\ InOrderOfDays
      /\ DraftsAreNew /\ ToldOnce
  BY DEF DetectorsInv
<1>1. /\ topic' = topic /\ queue' = queue /\ evening' = evening /\ overlaps' = overlaps /\ undisturbed' = 0
      /\ DetectorNights' = DetectorNights /\ night[r].at = "commit" /\ UnderWay(r)
  BY NightsSame DEF Commits, UnderWay
<1>2. /\ night' = [q \in DetectorNights |-> night'[q]]
      /\ MovedTo(r, "record") /\ \A q \in DetectorNights \ {r} : Passed(q)
  BY <1>a, NightMoves DEF Commits
<1>3. \A q \in DetectorNights :
        /\ night'[q].in = night[q].in /\ night'[q].proposed = night[q].proposed
        /\ night'[q].day = night[q].day /\ night'[q].drafts = night[q].drafts
        /\ night'[q].standing = night[q].standing
        /\ DOMAIN night'[q] = NightFields /\ night'[q].alone \in BOOLEAN
  BY <1>2 DEF Passed, MovedTo, Same
<1>4. /\ night'[r].at = "record" /\ night'[r].alone = night[r].alone
      /\ \A q \in DetectorNights \ {r} : night'[q].at = night[q].at /\ (UnderWay(q) => ~night'[q].alone)
  BY <1>2 DEF Passed, MovedTo
<1>5. \A q \in DetectorNights : UnderWay(q)' = UnderWay(q) BY <1>1, <1>4 DEF UnderWay
<1>6. /\ kept'.open = (kept.open \cup p.listed) \ p.gone /\ kept'.closed = (kept.closed \ p.listed) \cup p.gone
      /\ kept'.watched = Overlaid(in.wallets)
      /\ kept'.totals = IF in.total = NoValue THEN kept.totals ELSE Append(kept.totals, [amount |-> in.total, day |-> day])
      /\ kept'.posts = IF in.moves THEN kept.posts \cup {day} ELSE kept.posts
      /\ kept'.lot = IF in.lot = NoValue THEN kept.lot ELSE p.lot
  BY DEF Commits
<1>7. in \in Readings[topic] /\ day \in Nat /\ day <= evening /\ evening \in Nat
  BY <1>a, <1>1 DEF NightsTyped
<1>8. NightsTyped'
  <2>1. /\ topic' \in Topics /\ evening' \in Nat /\ overlaps' \in Nat /\ undisturbed' \in DetectorNights' \cup {0}
    BY <1>a, <1>1 DEF NightsTyped
  <2>2. ASSUME NEW q \in DetectorNights
        PROVE  /\ DOMAIN night'[q] = NightFields
               /\ night'[q].at \in {"waits", "commit", "record", "over"} /\ night'[q].alone \in BOOLEAN
               /\ night'[q].at # "waits" =>
                    /\ night'[q].in \in Readings[topic] /\ night'[q].day \in Nat /\ night'[q].day <= evening
                    /\ \A d \in night'[q].drafts : d.fingerprint = d.thing
    <3>1. night'[q].at = IF q = r THEN "record" ELSE night[q].at BY <1>4
    <3>2. night'[q].at # "waits" => night[q].at # "waits" BY <3>1, <1>1
    <3>3. /\ night[q].at \in {"waits", "commit", "record", "over"}
          /\ night[q].at # "waits" =>
               /\ night[q].in \in Readings[topic] /\ night[q].day \in Nat /\ night[q].day <= evening
               /\ \A d \in night[q].drafts : d.fingerprint = d.thing
      BY <1>a DEF NightsTyped
    <3> QED BY <3>1, <3>2, <3>3, <1>3
  <2> QED BY <2>1, <2>2, <1>1, <1>2 DEF NightsTyped
<1>9. QueueTyped'
  <2> SUFFICES ASSUME NEW f \in queue
               PROVE  /\ DOMAIN f = FindingFields /\ f.open \in BOOLEAN /\ f.fingerprint = f.thing
                      /\ f.night \in DetectorNights /\ night'[f.night].at = "over"
    BY <1>1 DEF QueueTyped
  <2>1. /\ DOMAIN f = FindingFields /\ f.open \in BOOLEAN /\ f.fingerprint = f.thing
        /\ f.night \in DetectorNights /\ night[f.night].at = "over"
    BY <1>a DEF QueueTyped
  <2> QED BY <2>1, <1>1, <1>4
<1>10. kept.totals \in Seq(TotalRows) /\ Len(kept.totals) \in Nat /\ DOMAIN kept.totals = 1 .. Len(kept.totals)
  BY <1>a, LenProperties DEF KeptTyped
<1>11. KeptTyped'
  <2>1. kept'.totals \in Seq(TotalRows)
    <3>1. CASE in.total = NoValue BY <3>1, <1>6, <1>10
    <3>2. CASE in.total # NoValue
      <4>1. in.total \in Totals BY <3>2, <1>7, <1>a, ReadingKnown DEF NightsTyped
      <4>2. [amount |-> in.total, day |-> day] \in TotalRows BY <4>1, <1>7 DEF TotalRows
      <4> QED BY <3>2, <4>2, <1>6, <1>10, AppendProperties
    <3> QED BY <3>1, <3>2
  <2>2. kept'.posts \subseteq Nat BY <1>6, <1>7, <1>a DEF KeptTyped
  <2> QED BY <2>1, <2>2 DEF KeptTyped
<1>12. Lone'
  <2>1. ASSUME NEW x \in DetectorNights, NEW q \in DetectorNights, UnderWay(x)', night'[x].alone, UnderWay(q)'
        PROVE  q = x
    <3>1. x = r BY <2>1, <1>4, <1>5
    <3> QED BY <3>1, <2>1, <1>a, <1>4, <1>5 DEF Lone
  <2>2. ASSUME overlaps' = 0, NEW x \in DetectorNights, NEW q \in DetectorNights, UnderWay(x)', UnderWay(q)'
        PROVE  q = x
    BY <2>2, <1>a, <1>1, <1>5 DEF Lone
  <2> QED BY <2>1, <2>2, <1>1 DEF Lone
<1>13. ASSUME NEW c, NEW t PROVE /\ Told(c, t)' = Told(c, t) /\ StillOpen(c, t)' = StillOpen(c, t)
  BY <1>1 DEF Told, StillOpen
<1>14. ASSUME NEW c, NEW t, NEW q \in DetectorNights PROVE Drafted(q, c, t)' = Drafted(q, c, t)
  BY <1>3 DEF Drafted
<1>15. ASSUME NEW c, NEW t PROVE Heard(c, t) \/ WillBe(r, c, t) => Heard(c, t)'
  <2>1. ASSUME NEW q \in DetectorNights, q = r \/ night[q].at = "record", Drafted(q, c, t)
        PROVE  Heard(c, t)'
    <3>1. night'[q].at = "record" /\ Drafted(q, c, t)' BY <2>1, <1>4, <1>14
    <3> QED BY <3>1, <1>1 DEF Heard
  <2>2. Told(c, t) => Heard(c, t)' BY <1>13 DEF Heard
  <2>3. Heard(c, t) => Heard(c, t)' BY <2>1, <2>2 DEF Heard
  <2> QED BY <2>1, <2>3 DEF WillBe
<1>16. AllHeard'
  <2>1. \A a \in p.listed \cup p.gone : Heard("unknown_account", a)' BY <1>a, <1>1, <1>15 DEF AllHeard
  <2>2. \A a \in p.gone : Heard("account_gone", a)' BY <1>a, <1>1, <1>15 DEF AllHeard
  <2>3. /\ \A a \in kept'.open \cup kept'.closed : Heard("unknown_account", a)'
        /\ \A a \in kept'.closed : Heard("account_gone", a)'
    <3>1. /\ \A a \in kept.open \cup kept.closed : Heard("unknown_account", a)'
          /\ \A a \in kept.closed : Heard("account_gone", a)'
      BY <1>a, <1>15 DEF AllHeard
    <3> QED BY <2>1, <2>2, <3>1, <1>6
  <2> PICK l : l = kept'.lot OBVIOUS
  <2> PICK x : x = <<"lot", l.quantity>> OBVIOUS
  <2>4. l # NoValue /\ l.cost = NoValue => Heard("missing_cost_basis", x)'
    <3>1. CASE l = kept.lot
      <4>1. l # NoValue /\ l.cost = NoValue => Heard("missing_cost_basis", x) BY <3>1, <1>a DEF AllHeard
      <4> QED BY <4>1, <1>15
    <3>2. CASE l = p.lot
      <4>1. l # NoValue /\ l.cost = NoValue => WillBe(r, "missing_cost_basis", x) BY <3>2, <1>a, <1>1 DEF AllHeard
      <4> QED BY <4>1, <1>15
    <3> QED BY <3>1, <3>2, <1>6
  <2>5. ASSUME NEW q \in DetectorNights, night'[q].at = "commit", NEW m, m = night'[q].proposed
        PROVE  /\ \A a \in m.listed \cup m.gone : WillBe(q, "unknown_account", a)'
               /\ \A a \in m.gone : WillBe(q, "account_gone", a)'
               /\ m.lot # NoValue /\ m.lot.cost = NoValue => WillBe(q, "missing_cost_basis", <<"lot", m.lot.quantity>>)'
    <3>1. night[q].at = "commit" /\ m = night[q].proposed BY <2>5, <1>3, <1>4
    <3>2. ASSUME NEW c, NEW t, WillBe(q, c, t) PROVE WillBe(q, c, t)' BY <3>2, <1>14, <1>15 DEF WillBe
    <3> QED BY <3>1, <3>2, <1>a DEF AllHeard
  <2>6. <<"lot", kept.lot.quantity>>' = x OBVIOUS
  <2> QED BY <2>3, <2>4, <2>5, <2>6, <1>1 DEF AllHeard
<1> PICK k : k = Len(kept.totals) OBVIOUS
<1>17. ASSUME in.total # NoValue
       PROVE  /\ DOMAIN kept'.totals = 1 .. (k + 1) /\ kept'.totals[k + 1].amount = in.total
              /\ kept'.totals[k + 1].day = day
              /\ \A i \in 1 .. k : kept'.totals[i] = kept.totals[i]
              /\ Len(kept'.totals) = k + 1
  <2>1. kept'.totals = Append(kept.totals, [amount |-> in.total, day |-> day]) BY <1>6, <1>17
  <2>2. /\ Len(kept'.totals) = k + 1 /\ kept'.totals[k + 1] = [amount |-> in.total, day |-> day]
        /\ \A i \in 1 .. k : kept'.totals[i] = kept.totals[i]
        /\ DOMAIN kept'.totals = 1 .. Len(kept'.totals)
    BY <2>1, <1>10, <1>11, AppendProperties, LenProperties DEF KeptTyped
  <2> QED BY <2>2
<1>18. AloneAsks'
  <2> SUFFICES ASSUME night'[r].alone PROVE AsksWhatItRead(r)'
    BY <1>1, <1>4, <1>5 DEF AloneAsks
  <2>1. AsksWhatItRead(r) BY <1>a, <1>1, <1>4 DEF AloneAsks
  <2>2. ASSUME NEW c, NEW t PROVE AsksFor(r, c, t) => AsksFor(r, c, t)' BY <1>13, <1>14 DEF AsksFor
  <2>3. \A i \in night'[r].in.failed : AsksFor(r, "fetch_failed", <<i, r>>)'
    <3>1. \A i \in night[r].in.failed : AsksFor(r, "fetch_failed", <<i, r>>) BY <2>1 DEF AsksWhatItRead
    <3> QED BY <3>1, <2>2, <1>3
  <2>4. \A c \in night'[r].standing : AsksFor(r, "address_watched_twice", c)'
    <3>1. \A c \in night[r].standing : AsksFor(r, "address_watched_twice", c) BY <2>1 DEF AsksWhatItRead
    <3> QED BY <3>1, <2>2, <1>3
  <2>5. night'[r].standing = WatchedTwice(r)'
    <3>1. night[r].standing = TwiceIn(Overlaid(in.wallets)) BY <2>1, <1>1 DEF AsksWhatItRead, WatchedTwice
    <3>2. WatchedTwice(r)' = TwiceIn(kept.watched)' BY <1>4 DEF WatchedTwice
    <3>3. TwiceIn(kept.watched)' = TwiceIn(Overlaid(in.wallets)) BY <1>6 DEF TwiceIn
    <3> QED BY <3>1, <3>2, <3>3, <1>3
  <2>6. ASSUME overlaps' = 0 PROVE AsksOfFrozen(r)'
    <3> SUFFICES ASSUME NEW i \in DOMAIN kept'.totals,
                        in.total # NoValue, day - kept'.totals[i].day > MaxAge,
                        \A j \in i .. Len(kept'.totals) : kept'.totals[j].amount = in.total,
                        \E d \in kept'.posts : d >= kept'.totals[i].day
                 PROVE  \/ \E d \in night[r].drafts : d.code = "stale_balance"
                        \/ Open("stale_balance") # {}
      <4>1. /\ night'[r].in.total = in.total /\ night'[r].day = day /\ ~(night'[r].at = "commit" /\ night'[r].in.moves)
            /\ night'[r].drafts = night[r].drafts
        BY <1>3, <1>4
      <4>2. Open("stale_balance")' = Open("stale_balance") BY <1>1 DEF Open
      <4> QED BY <4>1, <4>2 DEF AsksOfFrozen, FrozenFrom
    <3>1. /\ in.total # NoValue /\ day - kept'.totals[i].day > MaxAge
          /\ \A j \in i .. Len(kept'.totals) : kept'.totals[j].amount = in.total
          /\ \E d \in kept'.posts : d >= kept'.totals[i].day
      OBVIOUS
    <3>2. i # k + 1
      <4> SUFFICES ASSUME i = k + 1 PROVE FALSE OBVIOUS
      <4>1. day - day > MaxAge BY <3>1, <1>17
      <4> QED BY <4>1, <1>7, WalletsAssumption
    <3>3. i \in 1 .. k /\ k \in Nat BY <3>1, <3>2, <1>10, <1>17
    <3>4. FrozenFrom(i, in.total, day, in.moves)
      <4>1. kept'.totals[i] = kept.totals[i] BY <3>1, <3>3, <1>17
      <4>2. \A j \in i .. k : kept.totals[j].amount = in.total
        <5> SUFFICES ASSUME NEW j \in i .. k PROVE kept.totals[j].amount = in.total OBVIOUS
        <5>1. j \in 1 .. k /\ j \in i .. Len(kept'.totals) BY <3>1, <3>3, <1>17
        <5> QED BY <5>1, <3>1, <1>17
      <4>3. in.moves \/ \E d \in kept.posts : d >= kept.totals[i].day BY <3>1, <4>1, <1>6
      <4> QED BY <3>1, <4>1, <4>2, <4>3 DEF FrozenFrom
    <3>5. AsksOfFrozen(r) BY <2>1, <2>6, <1>1 DEF AsksWhatItRead
    <3>6. i \in DOMAIN kept.totals BY <3>3, <1>10
    <3>7. FrozenFrom(i, night[r].in.total, night[r].day, night[r].at = "commit" /\ night[r].in.moves)
      BY <3>4, <1>1 DEF FrozenFrom
    <3> QED BY <3>5, <3>6, <3>7 DEF AsksOfFrozen
  <2> QED BY <2>3, <2>4, <2>5, <2>6 DEF AsksWhatItRead
<1>19. InOrderOfDays'
  <2> SUFFICES ASSUME overlaps' = 0 PROVE InOrderOfDays' BY DEF InOrderOfDays
  <2>1. /\ \A i, j \in DOMAIN kept.totals : i <= j => kept.totals[i].day <= kept.totals[j].day
        /\ \A i \in DOMAIN kept.totals : kept.totals[i].day <= evening
        /\ \A i \in DOMAIN kept.totals : kept.totals[i].day <= day
        /\ \A d \in night[r].drafts : d.code = "stale_balance" =>
              /\ d.thing[1] = in.total
              /\ \A i \in DOMAIN kept.totals : kept.totals[i].day > d.thing[2] => kept.totals[i].amount = d.thing[1]
    BY <1>a, <1>1 DEF InOrderOfDays
  <2>2. \A q \in DetectorNights : UnderWay(q)' => q = r BY <1>a, <1>1, <1>5 DEF Lone
  <2>3. /\ \A i, j \in DOMAIN kept'.totals : i <= j => kept'.totals[i].day <= kept'.totals[j].day
        /\ \A i \in DOMAIN kept'.totals : kept'.totals[i].day <= evening
        /\ \A i \in DOMAIN kept'.totals : kept'.totals[i].day <= day
        /\ \A d \in night[r].drafts : d.code = "stale_balance" =>
              /\ d.thing[1] = in.total
              /\ \A i \in DOMAIN kept'.totals : kept'.totals[i].day > d.thing[2] => kept'.totals[i].amount = d.thing[1]
    <3>1. CASE in.total = NoValue BY <3>1, <2>1, <1>6
    <3>2. CASE in.total # NoValue
      <4>1. \A i \in DOMAIN kept'.totals : i = k + 1 \/ (i \in DOMAIN kept.totals /\ i <= k /\ kept'.totals[i] = kept.totals[i])
        BY <3>2, <1>10, <1>17
      <4>2. /\ kept'.totals[k + 1].amount = in.total /\ kept'.totals[k + 1].day = day /\ k \in Nat /\ day <= day
        BY <3>2, <1>7, <1>10, <1>17
      <4>3. ASSUME NEW i \in DOMAIN kept'.totals, NEW j \in DOMAIN kept'.totals, i <= j
            PROVE  kept'.totals[i].day <= kept'.totals[j].day
        <5>1. CASE j = k + 1 BY <5>1, <4>1, <4>2, <2>1
        <5>2. CASE j # k + 1
          <6>1. i # k + 1 BY <5>2, <4>1, <4>2, <4>3
          <6> QED BY <5>2, <6>1, <4>1, <4>3, <2>1
        <5> QED BY <5>1, <5>2
      <4>4. \A i \in DOMAIN kept'.totals : kept'.totals[i].day <= day BY <4>1, <4>2, <2>1
      <4>5. \A i \in DOMAIN kept'.totals : kept'.totals[i].day <= evening BY <4>1, <4>2, <2>1, <1>7
      <4>6. ASSUME NEW d \in night[r].drafts, d.code = "stale_balance"
            PROVE  /\ d.thing[1] = in.total
                   /\ \A i \in DOMAIN kept'.totals : kept'.totals[i].day > d.thing[2] => kept'.totals[i].amount = d.thing[1]
        BY <4>6, <4>1, <4>2, <2>1
      <4> QED BY <4>3, <4>4, <4>5, <4>6
    <3> QED BY <3>1, <3>2
  <2>4. night'[r].day = day /\ night'[r].in = in /\ night'[r].drafts = night[r].drafts BY <1>3
  <2> QED BY <2>2, <2>3, <2>4, <1>1 DEF InOrderOfDays
<1>20. DraftsAreNew'
  <2> SUFFICES ASSUME overlaps' = 0, NEW q \in DetectorNights, UnderWay(q)', NEW d \in night'[q].drafts,
                      NEW f \in queue, f.code = d.code, f.thing = d.thing
               PROVE  f.code \notin DedupeForever /\ ~f.open
    BY <1>1 DEF DraftsAreNew
  <2>1. UnderWay(q) /\ d \in night[q].drafts BY <1>3, <1>5
  <2> QED BY <2>1, <1>a, <1>1 DEF DraftsAreNew
<1>21. QueueTellsTrue' /\ FrozenSinceThen' BY <1>1 DEF QueueTellsTrue, FrozenSinceThen
<1>22. ToldOnce' BY <1>1, <1>a DEF ToldOnce
<1> QED BY <1>8, <1>9, <1>11, <1>12, <1>16, <1>18, <1>19, <1>20, <1>21, <1>22 DEF DetectorsInv

(* A night records what it drafted.                                        *)
LEMMA RecordsKeeps ==
  ASSUME DetectorsInv, NEW r \in DetectorNights, Records(r)
  PROVE  DetectorsInv'
<1> PICK in : in = night[r].in OBVIOUS
<1>a. /\ NightsTyped /\ QueueTyped /\ KeptTyped /\ Lone /\ AllHeard /\ AloneAsks /\ InOrderOfDays
      /\ DraftsAreNew /\ ToldOnce
  BY DEF DetectorsInv
<1>1. /\ topic' = topic /\ kept' = kept /\ evening' = evening /\ overlaps' = overlaps
      /\ DetectorNights' = DetectorNights /\ night[r].at = "record" /\ UnderWay(r)
      /\ undisturbed' = IF night[r].alone THEN r ELSE 0
  BY NightsSame DEF Records, UnderWay
<1>2. /\ night' = [q \in DetectorNights |-> night'[q]]
      /\ MovedTo(r, "over") /\ \A q \in DetectorNights \ {r} : Passed(q)
  BY <1>a, NightMoves DEF Records
<1>3. \A q \in DetectorNights :
        /\ night'[q].in = night[q].in /\ night'[q].proposed = night[q].proposed
        /\ night'[q].day = night[q].day /\ night'[q].drafts = night[q].drafts
        /\ night'[q].standing = night[q].standing
        /\ DOMAIN night'[q] = NightFields /\ night'[q].alone \in BOOLEAN
  BY <1>2 DEF Passed, MovedTo, Same
<1>4. /\ night'[r].at = "over" /\ ~UnderWay(r)'
      /\ \A q \in DetectorNights \ {r} :
           night'[q].at = night[q].at /\ UnderWay(q)' = UnderWay(q) /\ (UnderWay(q) => ~night'[q].alone)
  BY <1>2 DEF Passed, MovedTo, UnderWay
<1>5. ASSUME NEW f \in queue'
      PROVE  \E g \in Asked(r) :
               /\ f = Leaves(g, r) /\ DOMAIN f = FindingFields /\ f.code = g.code /\ f.thing = g.thing
               /\ f.fingerprint = g.fingerprint /\ g.fingerprint = g.thing /\ f.night = g.night
               /\ f.open \in BOOLEAN /\ (f.open => g.open /\ ~Moot(g, r))
               /\ g \in queue \/ \E d \in night[r].drafts : g = Finding(d, r)
               /\ g.night \in DetectorNights /\ (g \in queue => night[g.night].at = "over")
  <2>1. PICK g \in Asked(r) : f = Leaves(g, r) BY <1>5, RecordsLeave
  <2>2. /\ DOMAIN g = FindingFields /\ g.open \in BOOLEAN /\ g.fingerprint = g.thing /\ g.night \in DetectorNights
        /\ g \in queue \/ \E d \in night[r].drafts : g = Finding(d, r)
        /\ g \in queue => night[g.night].at = "over"
    BY <2>1, <1>a, <1>1, AskedTyped
  <2>3. /\ DOMAIN f = FindingFields /\ f.code = g.code /\ f.thing = g.thing /\ f.fingerprint = g.fingerprint
        /\ f.night = g.night /\ f.open \in BOOLEAN /\ (f.open => g.open /\ ~Moot(g, r))
    BY <2>1, <2>2, LeavesIs
  <2> QED BY <2>1, <2>2, <2>3
<1>6. ASSUME NEW d \in night[r].drafts
      PROVE  /\ Finding(d, r).code = d.code /\ Finding(d, r).thing = d.thing /\ Finding(d, r).fingerprint = d.thing
             /\ Finding(d, r).night = r
  <2>1. d.fingerprint = d.thing BY <1>a, <1>1 DEF NightsTyped
  <2> QED BY <2>1 DEF Finding
<1>7. NightsTyped'
  <2>1. /\ topic' \in Topics /\ evening' \in Nat /\ overlaps' \in Nat /\ undisturbed' \in DetectorNights' \cup {0}
    BY <1>a, <1>1 DEF NightsTyped
  <2>2. ASSUME NEW q \in DetectorNights
        PROVE  /\ DOMAIN night'[q] = NightFields
               /\ night'[q].at \in {"waits", "commit", "record", "over"} /\ night'[q].alone \in BOOLEAN
               /\ night'[q].at # "waits" =>
                    /\ night'[q].in \in Readings[topic] /\ night'[q].day \in Nat /\ night'[q].day <= evening
                    /\ \A d \in night'[q].drafts : d.fingerprint = d.thing
    <3>1. night'[q].at = IF q = r THEN "over" ELSE night[q].at BY <1>4
    <3>2. night'[q].at # "waits" => night[q].at # "waits" BY <3>1, <1>1
    <3>3. /\ night[q].at \in {"waits", "commit", "record", "over"}
          /\ night[q].at # "waits" =>
               /\ night[q].in \in Readings[topic] /\ night[q].day \in Nat /\ night[q].day <= evening
               /\ \A d \in night[q].drafts : d.fingerprint = d.thing
      BY <1>a DEF NightsTyped
    <3> QED BY <3>1, <3>2, <3>3, <1>3
  <2> QED BY <2>1, <2>2, <1>1, <1>2 DEF NightsTyped
<1>8. QueueTyped'
  <2> SUFFICES ASSUME NEW f \in queue'
               PROVE  /\ DOMAIN f = FindingFields /\ f.open \in BOOLEAN /\ f.fingerprint = f.thing
                      /\ f.night \in DetectorNights /\ night'[f.night].at = "over"
    BY <1>1 DEF QueueTyped
  <2>1. PICK g \in Asked(r) :
           /\ DOMAIN f = FindingFields /\ f.thing = g.thing /\ f.fingerprint = g.fingerprint
           /\ g.fingerprint = g.thing /\ f.night = g.night /\ f.open \in BOOLEAN
           /\ g \in queue \/ \E d \in night[r].drafts : g = Finding(d, r)
           /\ g.night \in DetectorNights /\ (g \in queue => night[g.night].at = "over")
    BY <1>5
  <2>2. night'[g.night].at = "over" BY <2>1, <1>4, <1>6
  <2> QED BY <2>1, <2>2
<1>9. KeptTyped' BY <1>1, <1>a DEF KeptTyped
<1>10. night[r].alone => \A q \in DetectorNights : ~UnderWay(q)' BY <1>a, <1>1, <1>4 DEF Lone
<1>11. Lone'
  <2>1. ASSUME NEW x \in DetectorNights, NEW q \in DetectorNights, UnderWay(x)', night'[x].alone, UnderWay(q)'
        PROVE  q = x
    BY <2>1, <1>4
  <2>2. ASSUME overlaps' = 0, NEW x \in DetectorNights, NEW q \in DetectorNights, UnderWay(x)', UnderWay(q)'
        PROVE  q = x
    BY <2>2, <1>a, <1>1, <1>4 DEF Lone
  <2>3. undisturbed' # 0 => \A q \in DetectorNights : ~UnderWay(q)' BY <1>1, <1>10
  <2> QED BY <2>1, <2>2, <2>3, <1>1 DEF Lone
<1>12. ASSUME NEW c, NEW t PROVE Told(c, t) \/ Drafted(r, c, t) => Told(c, t)' BY <1>a, RecordsTell
<1>13. ASSUME NEW c, NEW t, NEW q \in DetectorNights PROVE Drafted(q, c, t)' = Drafted(q, c, t)
  BY <1>3 DEF Drafted
<1>14. ASSUME NEW c, NEW t PROVE Heard(c, t) => Heard(c, t)'
  <2>1. ASSUME NEW q \in DetectorNights, night[q].at = "record", Drafted(q, c, t)
        PROVE  Heard(c, t)'
    <3>1. CASE q = r BY <3>1, <2>1, <1>12 DEF Heard
    <3>2. CASE q # r
      <4>1. night'[q].at = "record" /\ Drafted(q, c, t)' BY <3>2, <2>1, <1>4, <1>13
      <4> QED BY <4>1, <1>1 DEF Heard
    <3> QED BY <3>1, <3>2
  <2>2. Told(c, t) => Heard(c, t)' BY <1>12 DEF Heard
  <2> QED BY <2>1, <2>2 DEF Heard
<1> PICK x : x = <<"lot", kept.lot.quantity>> OBVIOUS
<1>15. <<"lot", kept.lot.quantity>>' = x BY <1>1
<1>16. AllHeard'
  <2>1. /\ \A a \in kept.open \cup kept.closed : Heard("unknown_account", a)'
        /\ \A a \in kept.closed : Heard("account_gone", a)'
    BY <1>a, <1>14 DEF AllHeard
  <2>2. kept.lot # NoValue /\ kept.lot.cost = NoValue => Heard("missing_cost_basis", x)'
    BY <1>a, <1>14 DEF AllHeard
  <2>3. ASSUME NEW q \in DetectorNights, night'[q].at = "commit", NEW m, m = night'[q].proposed
        PROVE  /\ \A a \in m.listed \cup m.gone : WillBe(q, "unknown_account", a)'
               /\ \A a \in m.gone : WillBe(q, "account_gone", a)'
               /\ m.lot # NoValue /\ m.lot.cost = NoValue => WillBe(q, "missing_cost_basis", <<"lot", m.lot.quantity>>)'
    <3>1. night[q].at = "commit" /\ m = night[q].proposed BY <2>3, <1>3, <1>4
    <3>2. ASSUME NEW c, NEW t, WillBe(q, c, t) PROVE WillBe(q, c, t)' BY <3>2, <1>13, <1>14 DEF WillBe
    <3> QED BY <3>1, <3>2, <1>a DEF AllHeard
  <2> QED BY <2>1, <2>2, <2>3, <1>1, <1>15 DEF AllHeard
<1>17. AloneAsks' BY <1>1, <1>4 DEF AloneAsks
<1>18. InOrderOfDays'
  <2> SUFFICES ASSUME overlaps' = 0 PROVE InOrderOfDays' BY DEF InOrderOfDays
  <2>1. /\ \A i, j \in DOMAIN kept.totals : i <= j => kept.totals[i].day <= kept.totals[j].day
        /\ \A i \in DOMAIN kept.totals : kept.totals[i].day <= evening
    BY <1>a, <1>1 DEF InOrderOfDays
  <2>2. \A q \in DetectorNights : ~UnderWay(q)' BY <1>a, <1>1, <1>4 DEF Lone
  <2> QED BY <2>1, <2>2, <1>1 DEF InOrderOfDays
<1>19. DraftsAreNew'
  <2> SUFFICES ASSUME overlaps' = 0 PROVE \A q \in DetectorNights : ~UnderWay(q)' BY <1>1 DEF DraftsAreNew
  <2> QED BY <1>a, <1>1, <1>4 DEF Lone
<1>20. ToldOnce'
  <2> SUFFICES ASSUME overlaps = 0, NEW f \in queue', NEW h \in queue', f.code = h.code, f.thing = h.thing, f # h
               PROVE  f.code \notin DedupeForever /\ ~(f.open /\ h.open)
    BY <1>1 DEF ToldOnce
  <2>1. PICK g \in Asked(r) :
           /\ f = Leaves(g, r) /\ f.code = g.code /\ f.thing = g.thing /\ g.fingerprint = g.thing
           /\ (f.open => g.open) /\ (g \in queue \/ \E d \in night[r].drafts : g = Finding(d, r))
    BY <1>5
  <2>2. PICK e \in Asked(r) :
           /\ h = Leaves(e, r) /\ h.code = e.code /\ h.thing = e.thing /\ e.fingerprint = e.thing
           /\ (h.open => e.open) /\ (e \in queue \/ \E d \in night[r].drafts : e = Finding(d, r))
    BY <1>5
  <2>3. g # e BY <2>1, <2>2
  <2>4. ASSUME NEW a \in queue, NEW d \in night[r].drafts, a.code = d.code, a.thing = d.thing
        PROVE  a.code \notin DedupeForever /\ ~a.open
    BY <2>4, <1>a, <1>1 DEF DraftsAreNew
  <2>5. CASE g \in queue /\ e \in queue BY <2>1, <2>2, <2>3, <2>5, <1>a DEF ToldOnce
  <2>6. CASE g \in queue /\ e \notin queue
    <3>1. PICK d \in night[r].drafts : e = Finding(d, r) BY <2>2, <2>6
    <3>2. g.code = d.code /\ g.thing = d.thing BY <3>1, <2>1, <2>2, <1>6
    <3> QED BY <3>2, <2>1, <2>4, <2>6
  <2>7. CASE g \notin queue /\ e \in queue
    <3>1. PICK d \in night[r].drafts : g = Finding(d, r) BY <2>1, <2>7
    <3>2. e.code = d.code /\ e.thing = d.thing BY <3>1, <2>1, <2>2, <1>6
    <3> QED BY <3>2, <2>1, <2>2, <2>4, <2>7
  <2>8. CASE g \notin queue /\ e \notin queue
    <3>1. PICK d \in night[r].drafts : g = Finding(d, r) BY <2>1, <2>8
    <3>2. PICK d2 \in night[r].drafts : e = Finding(d2, r) BY <2>2, <2>8
    <3>3. d.code = d2.code /\ d.thing = d2.thing /\ d.fingerprint = d2.fingerprint
      <4>1. d.fingerprint = d.thing /\ d2.fingerprint = d2.thing BY <1>a, <1>1 DEF NightsTyped
      <4> QED BY <4>1, <3>1, <3>2, <2>1, <2>2, <1>6
    <3>4. g = e BY <3>1, <3>2, <3>3 DEF Finding
    <3> QED BY <3>4, <2>3
  <2> QED BY <2>5, <2>6, <2>7, <2>8
<1>21. FrozenSinceThen'
  <2> SUFFICES ASSUME undisturbed' # 0, overlaps = 0, NEW f \in queue', f.open, f.code = "stale_balance",
                      f.night = undisturbed', NEW i \in DOMAIN kept.totals, kept.totals[i].day > f.thing[2]
               PROVE  kept.totals[i].amount = f.thing[1]
    BY <1>1 DEF FrozenSinceThen, Open
  <2>1. f.night = r BY <1>1
  <2>2. PICK g \in Asked(r) :
           /\ f.code = g.code /\ f.thing = g.thing /\ f.night = g.night
           /\ g \in queue \/ \E d \in night[r].drafts : g = Finding(d, r)
           /\ (g \in queue => night[g.night].at = "over")
    BY <1>5
  <2>3. PICK d \in night[r].drafts : g = Finding(d, r) BY <2>1, <2>2, <1>1
  <2>4. d.code = "stale_balance" /\ d.thing = f.thing BY <2>2, <2>3, <1>6
  <2> QED BY <2>4, <1>a, <1>1 DEF InOrderOfDays
<1>22. QueueTellsTrue'
  <2> SUFFICES ASSUME undisturbed' # 0 PROVE QueueTellsTrue' BY DEF QueueTellsTrue
  <2>1. undisturbed' = r /\ night[r].alone /\ night'[r].in = in /\ night'[r].day = night[r].day BY <1>1, <1>3
  <2>2. AsksWhatItRead(r) BY <2>1, <1>a, <1>1 DEF AloneAsks
  <2>3. ASSUME NEW c, NEW t, AsksFor(r, c, t), c = "fetch_failed" => t[1] \notin in.answered,
               c = "address_watched_twice" => t \in night[r].standing
        PROVE  StillOpen(c, t)'
    BY <2>3, <1>a, RecordsTell
  <2>4. \A f \in queue' : f.open /\ f.code = "fetch_failed" => f.thing[1] \notin in.answered
    <3> SUFFICES ASSUME NEW f \in queue', f.open, f.code = "fetch_failed" PROVE f.thing[1] \notin in.answered
      OBVIOUS
    <3>1. PICK g \in Asked(r) : f.code = g.code /\ f.thing = g.thing /\ ~Moot(g, r) BY <1>5
    <3> QED BY <3>1 DEF Moot
  <2>5. \A i \in in.failed : \E f \in queue' : f.open /\ f.code = "fetch_failed" /\ f.thing[1] = i
    <3> SUFFICES ASSUME NEW i \in in.failed
                 PROVE  \E f \in queue' : f.open /\ f.code = "fetch_failed" /\ f.thing[1] = i
      OBVIOUS
    <3>1. in \in Readings[topic] /\ topic \in Topics BY <1>a, <1>1 DEF NightsTyped
    <3>2. i \notin in.answered BY <3>1, ReadingKnown
    <3>3. PICK t : t = <<i, r>> OBVIOUS
    <3>4. AsksFor(r, "fetch_failed", t) /\ t[1] = i BY <3>3, <2>2 DEF AsksWhatItRead
    <3>5. StillOpen("fetch_failed", t)' BY <3>2, <3>4, <2>3
    <3> QED BY <3>4, <3>5 DEF StillOpen
  <2>6. {f.thing : f \in {g \in queue' : g.open /\ g.code = "address_watched_twice"}} = TwiceIn(kept.watched)
    <3>1. night[r].standing = TwiceIn(kept.watched) BY <2>2, <1>1 DEF AsksWhatItRead, WatchedTwice
    <3>2. ASSUME NEW f \in queue', f.open, f.code = "address_watched_twice" PROVE f.thing \in TwiceIn(kept.watched)
      <4>1. PICK g \in Asked(r) : f.code = g.code /\ f.thing = g.thing /\ g.fingerprint = g.thing /\ ~Moot(g, r)
        BY <3>2, <1>5
      <4> QED BY <4>1, <3>1, <3>2 DEF Moot
    <3>3. ASSUME NEW t \in TwiceIn(kept.watched)
          PROVE  \E f \in queue' : f.open /\ f.code = "address_watched_twice" /\ f.thing = t
      <4>1. AsksFor(r, "address_watched_twice", t) BY <3>1, <3>3, <2>2 DEF AsksWhatItRead
      <4>2. StillOpen("address_watched_twice", t)' BY <4>1, <3>1, <3>3, <2>3
      <4> QED BY <4>2 DEF StillOpen
    <3> QED BY <3>2, <3>3
  <2>7. ASSUME overlaps = 0, NEW i \in DOMAIN kept.totals, in.total # NoValue,
               night[r].day - kept.totals[i].day > MaxAge,
               \A j \in i .. Len(kept.totals) : kept.totals[j].amount = in.total,
               \E d \in kept.posts : d >= kept.totals[i].day
        PROVE  \E f \in queue' : f.open /\ f.code = "stale_balance"
    <3>1. FrozenFrom(i, night[r].in.total, night[r].day, night[r].at = "commit" /\ night[r].in.moves)
      BY <2>7 DEF FrozenFrom
    <3>2. AsksOfFrozen(r) BY <2>2, <2>7 DEF AsksWhatItRead
    <3>3. \/ \E d \in night[r].drafts : d.code = "stale_balance"
          \/ Open("stale_balance") # {}
      BY <3>1, <3>2 DEF AsksOfFrozen
    <3>4. \E t : AsksFor(r, "stale_balance", t) BY <3>3 DEF AsksFor, Drafted, StillOpen, Open
    <3>5. PICK t : AsksFor(r, "stale_balance", t) BY <3>4
    <3>6. StillOpen("stale_balance", t)' BY <3>5, <2>3
    <3> QED BY <3>6 DEF StillOpen
  <2>8. ASSUME NEW c, NEW t, Heard(c, t) PROVE \E f \in queue' : f.code = c /\ f.thing = t
    <3>1. \A q \in DetectorNights : night[q].at = "record" => q = r BY <2>1, <1>a, <1>1 DEF Lone, UnderWay
    <3>2. Told(c, t) \/ Drafted(r, c, t) BY <2>8, <3>1 DEF Heard
    <3>3. Told(c, t)' BY <3>2, <1>12
    <3> QED BY <3>3 DEF Told
  <2>9. /\ \A a \in kept.open : \E f \in queue' : f.code = "unknown_account" /\ f.thing = a
        /\ \A a \in kept.closed : \E f \in queue' : f.code = "account_gone" /\ f.thing = a
    BY <2>8, <1>a DEF AllHeard
  <2>10. kept.lot # NoValue /\ kept.lot.cost = NoValue =>
           \E f \in queue' : f.code = "missing_cost_basis" /\ f.thing = x
    BY <2>8, <1>a DEF AllHeard
  <2>11. /\ night'[undisturbed'].in = in /\ night'[undisturbed'].day = night[r].day BY <2>1
  <2>12. TwiceIn(kept.watched)' = TwiceIn(kept.watched) BY <1>1 DEF TwiceIn
  <2>13. \A f \in Open("fetch_failed")' : f.thing[1] \notin in.answered BY <2>4 DEF Open
  <2>14. \A i \in in.failed : \E f \in Open("fetch_failed")' : f.thing[1] = i BY <2>5 DEF Open
  <2>15. {f.thing : f \in Open("address_watched_twice")'} = TwiceIn(kept.watched)' BY <2>6, <2>12 DEF Open
  <2>16. ASSUME overlaps' = 0, NEW i \in DOMAIN kept'.totals, in.total # NoValue,
                night'[undisturbed'].day - kept'.totals[i].day > MaxAge,
                \A j \in i .. Len(kept'.totals) : kept'.totals[j].amount = in.total,
                \E d \in kept'.posts : d >= kept'.totals[i].day
         PROVE  Open("stale_balance")' # {}
    BY <2>16, <2>7, <2>11, <1>1 DEF Open
  <2>17. /\ kept'.open \subseteq {f.thing : f \in {g \in queue' : g.code = "unknown_account"}}
         /\ kept'.closed \subseteq {f.thing : f \in {g \in queue' : g.code = "account_gone"}}
    BY <2>9, <1>1
  <2>18. kept'.lot # NoValue /\ kept'.lot.cost = NoValue =>
           <<"lot", kept'.lot.quantity>> \in {f.thing : f \in {g \in queue' : g.code = "missing_cost_basis"}}
    BY <2>10, <1>1, <1>15
  <2> QED BY <2>11, <2>13, <2>14, <2>15, <2>16, <2>17, <2>18 DEF QueueTellsTrue
<1> QED BY <1>7, <1>8, <1>9, <1>11, <1>16, <1>17, <1>18, <1>19, <1>20, <1>21, <1>22 DEF DetectorsInv

(* The operator answers; the next evening comes.                           *)
LEMMA DismissesKeeps ==
  ASSUME DetectorsInv, NEW x \in queue, DismissesFinding(x)
  PROVE  DetectorsInv'
<1>a. /\ NightsTyped /\ QueueTyped /\ KeptTyped /\ Lone /\ AllHeard /\ AloneAsks /\ InOrderOfDays
      /\ DraftsAreNew /\ ToldOnce
  BY DEF DetectorsInv
<1>1. /\ topic' = topic /\ kept' = kept /\ evening' = evening /\ overlaps' = overlaps /\ undisturbed' = 0
      /\ DetectorNights' = DetectorNights /\ queue' = (queue \ {x}) \cup {ClosedOnce(x)}
  BY NightsSame DEF DismissesFinding, ClosedOnce
<1>2. night' = [q \in DetectorNights |-> night'[q]] /\ \A q \in DetectorNights : Passed(q)
  BY <1>a, NightsCrossed DEF DismissesFinding
<1>3. \A q \in DetectorNights :
        /\ night'[q].at = night[q].at /\ night'[q].in = night[q].in /\ night'[q].proposed = night[q].proposed
        /\ night'[q].day = night[q].day /\ night'[q].drafts = night[q].drafts
        /\ DOMAIN night'[q] = NightFields /\ night'[q].alone \in BOOLEAN
        /\ UnderWay(q)' = UnderWay(q) /\ (UnderWay(q) => ~night'[q].alone)
  BY <1>2 DEF Passed, Same, UnderWay
<1>4. /\ DOMAIN x = FindingFields /\ DOMAIN ClosedOnce(x) = FindingFields
      /\ ClosedOnce(x).code = x.code /\ ClosedOnce(x).thing = x.thing
      /\ ClosedOnce(x).fingerprint = x.fingerprint /\ ClosedOnce(x).night = x.night /\ ClosedOnce(x).open = FALSE
  <2>1. DOMAIN x = FindingFields BY <1>a DEF QueueTyped
  <2> QED BY <2>1, FindingCloses
<1>5. ASSUME NEW f \in queue'
      PROVE  \E g \in queue : /\ (g = x => f = ClosedOnce(x)) /\ (g # x => f = g)
                              /\ DOMAIN f = FindingFields /\ f.code = g.code /\ f.thing = g.thing
                              /\ f.fingerprint = g.fingerprint /\ f.night = g.night
                              /\ f.open \in BOOLEAN /\ (f.open => g.open)
  <2>1. CASE f = ClosedOnce(x) BY <2>1, <1>4
  <2>2. CASE f \in queue \ {x} BY <2>2, <1>a DEF QueueTyped
  <2> QED BY <2>1, <2>2, <1>1
<1>6. NightsTyped' BY <1>a, <1>1, <1>2, <1>3 DEF NightsTyped
<1>7. QueueTyped'
  <2> SUFFICES ASSUME NEW f \in queue'
               PROVE  /\ DOMAIN f = FindingFields /\ f.open \in BOOLEAN /\ f.fingerprint = f.thing
                      /\ f.night \in DetectorNights /\ night'[f.night].at = "over"
    BY <1>1 DEF QueueTyped
  <2>1. PICK g \in queue : /\ DOMAIN f = FindingFields /\ f.thing = g.thing
                           /\ f.fingerprint = g.fingerprint /\ f.night = g.night /\ f.open \in BOOLEAN
    BY <1>5
  <2>2. g.fingerprint = g.thing /\ g.night \in DetectorNights /\ night[g.night].at = "over" BY <1>a DEF QueueTyped
  <2> QED BY <2>1, <2>2, <1>3
<1>8. KeptTyped' BY <1>1, <1>a DEF KeptTyped
<1>9. Lone' BY <1>a, <1>1, <1>3 DEF Lone
<1>10. ASSUME NEW c, NEW t PROVE Told(c, t) => Told(c, t)'
  <2> SUFFICES ASSUME NEW f \in queue, f.code = c, f.thing = t PROVE Told(c, t)' BY DEF Told
  <2>1. CASE f = x BY <2>1, <1>1, <1>4 DEF Told
  <2>2. CASE f # x BY <2>2, <1>1 DEF Told
  <2> QED BY <2>1, <2>2
<1>11. ASSUME NEW c, NEW t, NEW q \in DetectorNights PROVE Drafted(q, c, t)' = Drafted(q, c, t)
  BY <1>3 DEF Drafted
<1>12. ASSUME NEW c, NEW t PROVE Heard(c, t) => Heard(c, t)' BY <1>1, <1>3, <1>10, <1>11 DEF Heard
<1>13. AllHeard'
  <2> PICK y : y = <<"lot", kept.lot.quantity>> OBVIOUS
  <2>1. /\ \A a \in kept.open \cup kept.closed : Heard("unknown_account", a)'
        /\ \A a \in kept.closed : Heard("account_gone", a)'
    BY <1>a, <1>12 DEF AllHeard
  <2>2. kept.lot # NoValue /\ kept.lot.cost = NoValue => Heard("missing_cost_basis", y)'
    BY <1>a, <1>12 DEF AllHeard
  <2>3. ASSUME NEW q \in DetectorNights, night'[q].at = "commit", NEW m, m = night'[q].proposed
        PROVE  /\ \A a \in m.listed \cup m.gone : WillBe(q, "unknown_account", a)'
               /\ \A a \in m.gone : WillBe(q, "account_gone", a)'
               /\ m.lot # NoValue /\ m.lot.cost = NoValue => WillBe(q, "missing_cost_basis", <<"lot", m.lot.quantity>>)'
    <3>1. night[q].at = "commit" /\ m = night[q].proposed BY <2>3, <1>3
    <3>2. ASSUME NEW c, NEW t, WillBe(q, c, t) PROVE WillBe(q, c, t)' BY <3>2, <1>11, <1>12 DEF WillBe
    <3> QED BY <3>1, <3>2, <1>a DEF AllHeard
  <2>4. <<"lot", kept.lot.quantity>>' = y BY <1>1
  <2> QED BY <2>1, <2>2, <2>3, <2>4, <1>1 DEF AllHeard
<1>14. AloneAsks' BY <1>1, <1>3 DEF AloneAsks
<1>15. InOrderOfDays'
  <2> SUFFICES ASSUME overlaps = 0 PROVE InOrderOfDays' BY <1>1 DEF InOrderOfDays
  <2>1. /\ \A i, j \in DOMAIN kept.totals : i <= j => kept.totals[i].day <= kept.totals[j].day
        /\ \A i \in DOMAIN kept.totals : kept.totals[i].day <= evening
    BY <1>a DEF InOrderOfDays
  <2>2. ASSUME NEW q \in DetectorNights, UnderWay(q)'
        PROVE  /\ \A i \in DOMAIN kept.totals : kept.totals[i].day <= night'[q].day
               /\ \A d \in night'[q].drafts : d.code = "stale_balance" =>
                    /\ d.thing[1] = night'[q].in.total
                    /\ \A i \in DOMAIN kept.totals : kept.totals[i].day > d.thing[2] => kept.totals[i].amount = d.thing[1]
    BY <2>2, <1>a, <1>3 DEF InOrderOfDays
  <2> QED BY <2>1, <2>2, <1>1 DEF InOrderOfDays
<1>16. DraftsAreNew'
  <2> SUFFICES ASSUME overlaps = 0, NEW q \in DetectorNights, UnderWay(q)', NEW d \in night'[q].drafts,
                      NEW f \in queue', f.code = d.code, f.thing = d.thing
               PROVE  f.code \notin DedupeForever /\ ~f.open
    BY <1>1 DEF DraftsAreNew
  <2>1. PICK g \in queue : f.code = g.code /\ f.thing = g.thing /\ (f.open => g.open) BY <1>5
  <2>2. UnderWay(q) /\ d \in night[q].drafts BY <1>3
  <2> QED BY <2>1, <2>2, <1>a DEF DraftsAreNew
<1>17. QueueTellsTrue' /\ FrozenSinceThen' BY <1>1 DEF QueueTellsTrue, FrozenSinceThen
<1>18. ToldOnce'
  <2> SUFFICES ASSUME overlaps = 0, NEW f \in queue', NEW h \in queue', f.code = h.code, f.thing = h.thing, f # h
               PROVE  f.code \notin DedupeForever /\ ~(f.open /\ h.open)
    BY <1>1 DEF ToldOnce
  <2>1. PICK g \in queue : /\ (g = x => f = ClosedOnce(x)) /\ (g # x => f = g)
                           /\ f.code = g.code /\ f.thing = g.thing /\ (f.open => g.open)
    BY <1>5
  <2>2. PICK e \in queue : /\ (e = x => h = ClosedOnce(x)) /\ (e # x => h = e)
                           /\ h.code = e.code /\ h.thing = e.thing /\ (h.open => e.open)
    BY <1>5
  <2>3. g # e BY <2>1, <2>2
  <2> QED BY <2>1, <2>2, <2>3, <1>a DEF ToldOnce
<1> QED BY <1>6, <1>7, <1>8, <1>9, <1>13, <1>14, <1>15, <1>16, <1>17, <1>18 DEF DetectorsInv

LEMMA EveningKeeps ==
  ASSUME DetectorsInv, EveningPasses \/ UNCHANGED DetectorsVars
  PROVE  DetectorsInv'
<1>a. /\ NightsTyped /\ QueueTyped /\ KeptTyped /\ Lone /\ AllHeard /\ AloneAsks /\ InOrderOfDays
      /\ DraftsAreNew /\ ToldOnce /\ QueueTellsTrue /\ FrozenSinceThen
  BY DEF DetectorsInv
<1>1. /\ topic' = topic /\ kept' = kept /\ night' = night /\ queue' = queue /\ overlaps' = overlaps
      /\ undisturbed' = undisturbed /\ (evening' = evening + 1 \/ evening' = evening) /\ DetectorNights' = DetectorNights
  BY NightsSame DEF EveningPasses, DetectorsVars
<1>2. evening \in Nat /\ evening' \in Nat /\ evening <= evening'
  <2>1. evening \in Nat BY <1>a DEF NightsTyped
  <2> QED BY <2>1, <1>1
<1>3. NightsTyped'
  <2>1. \A q \in DetectorNights : night[q].at # "waits" => night[q].day \in Nat /\ night[q].day <= evening'
    BY <1>a, <1>2 DEF NightsTyped
  <2> QED BY <2>1, <1>a, <1>1, <1>2 DEF NightsTyped
<1>4. QueueTyped' /\ KeptTyped' BY <1>a, <1>1 DEF QueueTyped, KeptTyped
<1>5. Lone' BY <1>a, <1>1 DEF Lone, UnderWay
<1>6. ASSUME NEW c, NEW t
      PROVE  /\ Told(c, t)' = Told(c, t) /\ StillOpen(c, t)' = StillOpen(c, t) /\ Heard(c, t)' = Heard(c, t)
             /\ \A q : /\ Drafted(q, c, t)' = Drafted(q, c, t) /\ WillBe(q, c, t)' = WillBe(q, c, t)
                       /\ AsksFor(q, c, t)' = AsksFor(q, c, t)
  BY <1>1 DEF Told, StillOpen, Heard, Drafted, WillBe, AsksFor
<1>7. AllHeard'
  <2> PICK y : y = <<"lot", kept.lot.quantity>> OBVIOUS
  <2>1. /\ \A a \in kept.open \cup kept.closed : Heard("unknown_account", a)'
        /\ \A a \in kept.closed : Heard("account_gone", a)'
        /\ kept.lot # NoValue /\ kept.lot.cost = NoValue => Heard("missing_cost_basis", y)'
    BY <1>a, <1>6 DEF AllHeard
  <2>2. ASSUME NEW q \in DetectorNights, night[q].at = "commit", NEW m, m = night[q].proposed
        PROVE  /\ \A a \in m.listed \cup m.gone : WillBe(q, "unknown_account", a)'
               /\ \A a \in m.gone : WillBe(q, "account_gone", a)'
               /\ m.lot # NoValue /\ m.lot.cost = NoValue => WillBe(q, "missing_cost_basis", <<"lot", m.lot.quantity>>)'
    <3>1. ASSUME NEW c, NEW t, WillBe(q, c, t) PROVE WillBe(q, c, t)' BY <3>1, <1>6
    <3> QED BY <3>1, <2>2, <1>a DEF AllHeard
  <2>3. <<"lot", kept.lot.quantity>>' = y BY <1>1
  <2> QED BY <2>1, <2>2, <2>3, <1>1 DEF AllHeard
<1>8. AloneAsks'
  <2> SUFFICES ASSUME NEW q \in DetectorNights, UnderWay(q), night[q].alone PROVE AsksWhatItRead(q)'
    BY <1>1 DEF AloneAsks, UnderWay
  <2>1. AsksWhatItRead(q) BY <1>a DEF AloneAsks
  <2>2. WatchedTwice(q)' = WatchedTwice(q)
    <3>1. TwiceIn(kept.watched)' = TwiceIn(kept.watched) BY <1>1 DEF TwiceIn
    <3>2. TwiceIn(Overlaid(night[q].in.wallets))' = TwiceIn(Overlaid(night[q].in.wallets))
      BY <1>1 DEF TwiceIn, Overlaid
    <3> QED BY <3>1, <3>2, <1>1 DEF WatchedTwice
  <2>3. AsksOfFrozen(q) => AsksOfFrozen(q)' BY <1>1 DEF AsksOfFrozen, FrozenFrom, Open
  <2> QED BY <2>1, <2>2, <2>3, <1>1, <1>6 DEF AsksWhatItRead
<1>9. InOrderOfDays'
  <2> SUFFICES ASSUME overlaps = 0 PROVE InOrderOfDays' BY <1>1 DEF InOrderOfDays
  <2>1. ASSUME NEW i \in DOMAIN kept.totals PROVE kept.totals[i].day <= evening'
    <3>1. kept.totals[i] \in TotalRows BY <1>a, ElementOfSeq, LenProperties DEF KeptTyped
    <3>2. kept.totals[i].day \in Nat BY <3>1 DEF TotalRows
    <3>3. kept.totals[i].day <= evening BY <1>a DEF InOrderOfDays
    <3> QED BY <3>2, <3>3, <1>2
  <2> QED BY <2>1, <1>a, <1>1 DEF InOrderOfDays, UnderWay
<1>10. DraftsAreNew' BY <1>a, <1>1 DEF DraftsAreNew, UnderWay
<1>11. QueueTellsTrue'
  <2>1. TwiceIn(kept.watched)' = TwiceIn(kept.watched) BY <1>1 DEF TwiceIn
  <2>2. \A c : Open(c)' = Open(c) BY <1>1 DEF Open
  <2> QED BY <2>1, <2>2, <1>a, <1>1 DEF QueueTellsTrue
<1>12. FrozenSinceThen' BY <1>a, <1>1 DEF FrozenSinceThen, Open
<1>13. ToldOnce' BY <1>a, <1>1 DEF ToldOnce
<1> QED BY <1>3, <1>4, <1>5, <1>7, <1>8, <1>9, <1>10, <1>11, <1>12, <1>13 DEF DetectorsInv

LEMMA DetectorsStart == DetectorsInit => DetectorsInv
<1> SUFFICES ASSUME DetectorsInit PROVE DetectorsInv OBVIOUS
<1>1. /\ topic \in Topics /\ night = [r \in DetectorNights |-> Idle] /\ queue = {} /\ undisturbed = 0
      /\ overlaps = 0 /\ evening = 1 /\ kept.open = {} /\ kept.closed = {} /\ kept.totals = <<>>
      /\ kept.posts = {} /\ kept.lot = NoValue
  BY DEF DetectorsInit
<1>2. /\ DOMAIN Idle = NightFields /\ Idle.at = "waits" /\ Idle.alone = TRUE BY DEF Idle, NightFields
<1>3. \A q \in DetectorNights : ~UnderWay(q) BY <1>1, <1>2 DEF UnderWay
<1>4. NightsTyped BY <1>1, <1>2 DEF NightsTyped
<1>5. QueueTyped /\ ToldOnce BY <1>1 DEF QueueTyped, ToldOnce
<1>6. KeptTyped BY <1>1, EmptySeq DEF KeptTyped
<1>7. Lone /\ AloneAsks /\ DraftsAreNew BY <1>1, <1>3 DEF Lone, AloneAsks, DraftsAreNew
<1>8. AllHeard BY <1>1, <1>2 DEF AllHeard
<1>9. InOrderOfDays
  <2>1. DOMAIN kept.totals = {} BY <1>1
  <2>2. \A q \in DetectorNights : ~UnderWay(q) BY <1>3
  <2> QED BY <2>1, <2>2 DEF InOrderOfDays
<1>10. QueueTellsTrue /\ FrozenSinceThen BY <1>1 DEF QueueTellsTrue, FrozenSinceThen
<1> QED BY <1>4, <1>5, <1>6, <1>7, <1>8, <1>9, <1>10 DEF DetectorsInv

LEMMA DetectorsStep ==
  ASSUME DetectorsInv, DetectorsNext \/ UNCHANGED DetectorsVars
  PROVE  DetectorsInv'
<1>1. ASSUME NEW r \in DetectorNights, NEW in \in Readings[topic], Reconciles(r, in) PROVE DetectorsInv'
  BY <1>1, ReconcilesKeeps
<1>2. ASSUME NEW r \in DetectorNights, Commits(r) PROVE DetectorsInv' BY <1>2, CommitsKeeps
<1>3. ASSUME NEW r \in DetectorNights, Records(r) PROVE DetectorsInv' BY <1>3, RecordsKeeps
<1>4. ASSUME NEW f \in queue, DismissesFinding(f) PROVE DetectorsInv' BY <1>4, DismissesKeeps
<1>5. CASE EveningPasses \/ UNCHANGED DetectorsVars BY <1>5, EveningKeeps
<1> QED BY <1>1, <1>2, <1>3, <1>4, <1>5 DEF DetectorsNext

-----------------------------------------------------------------------------
(* The drift and the orders.                                               *)

LEMMA ValuesAddUp ==
  ASSUME NEW b, NEW S, IsFiniteSet(S), \A h \in S : b[h].value \in Nat
  PROVE  ValueOf(b, S) \in Nat
<1> DEFINE F == [h \in S |-> b[h].value]
           Q(g) == g = [s \in SUBSET S |->
                          IF s = {} THEN 0
                          ELSE b[CHOOSE x \in s : TRUE].value + g[s \ {CHOOSE x \in s : TRUE}]]
           c == CHOOSE g : Q(g)
<1>1. F \in [S -> Int] /\ F \in [S -> Nat] OBVIOUS
<1>2. ASSUME NEW g PROVE Q(g) <=> Sums(g, F, S)
  <2>1. ASSUME NEW s \in SUBSET S
        PROVE  (IF s = {} THEN 0
                ELSE b[CHOOSE x \in s : TRUE].value + g[s \ {CHOOSE x \in s : TRUE}]) = SumTerm(g, F, s)
    BY ChosenIn DEF SumTerm, Chosen
  <2> QED BY <2>1 DEF Sums
<1>3. ValueOf(b, S) = c[S]
  BY DEF ValueOf, MapThenSumSet, MapThenFoldSet
<1> HIDE DEF Q, F
<1>4. Q(c) BY <1>1, <1>2, SumExists
<1> HIDE DEF c
<1>5. Sums(c, F, S) BY <1>2, <1>4
<1> QED BY <1>1, <1>3, <1>5, SumIsNat

Quantities(list) == [i \in DOMAIN list |-> list[i].quantity]

LEMMA SharesSum ==
  ASSUME NEW list, IsFiniteSet(DOMAIN list), \A i \in DOMAIN list : list[i].quantity \in Nat
  PROVE  \E c : /\ Sums(c, Quantities(list), DOMAIN list) /\ SharesIn(list) = c[DOMAIN list]
                /\ Quantities(list) \in [DOMAIN list -> Int] /\ Quantities(list) \in [DOMAIN list -> Nat]
                /\ SharesIn(list) \in Nat
<1> DEFINE S == DOMAIN list
           F == Quantities(list)
           Q(g) == g = [s \in SUBSET S |->
                          IF s = {} THEN 0
                          ELSE list[CHOOSE x \in s : TRUE].quantity + g[s \ {CHOOSE x \in s : TRUE}]]
           c == CHOOSE g : Q(g)
<1>1. F \in [S -> Int] /\ F \in [S -> Nat] BY DEF Quantities
<1>2. ASSUME NEW g PROVE Q(g) <=> Sums(g, F, S)
  <2>1. ASSUME NEW s \in SUBSET S
        PROVE  (IF s = {} THEN 0
                ELSE list[CHOOSE x \in s : TRUE].quantity + g[s \ {CHOOSE x \in s : TRUE}]) = SumTerm(g, F, s)
    BY ChosenIn DEF SumTerm, Chosen, Quantities
  <2> QED BY <2>1 DEF Sums
<1>3. SharesIn(list) = c[S]
  BY DEF SharesIn, MapThenSumSet, MapThenFoldSet
<1> HIDE DEF Q, F
<1>4. Q(c) BY <1>1, <1>2, SumExists
<1> HIDE DEF c
<1>5. Sums(c, F, S) BY <1>2, <1>4
<1>6. c[S] \in Nat BY <1>1, <1>5, SumIsNat
<1> QED BY <1>1, <1>3, <1>5, <1>6 DEF F

(* Terms that agree on a set have one sum of it.                           *)
LEMMA SumSame ==
  ASSUME NEW S, IsFiniteSet(S), NEW F, NEW g, Sums(g, F, S),
         NEW T, IsFiniteSet(T), NEW G, NEW h, Sums(h, G, T),
         NEW U, U \subseteq S, U \subseteq T, \A x \in U : F[x] = G[x]
  PROVE  g[U] = h[U]
<1> DEFINE W == {s \in SUBSET U : g[s] # h[s]}
<1> SUFFICES ASSUME W # {} PROVE FALSE OBVIOUS
<1>1. PICK s \in W : \A t \in W : Cardinality(s) <= Cardinality(t)
  <2>1. W \subseteq SUBSET U /\ IsFiniteSet(U) BY FS_Subset
  <2> HIDE DEF W
  <2> QED BY <2>1, Smallest
<1>2. s \in SUBSET U /\ g[s] # h[s] BY <1>1
<1>3. s # {} BY <1>2, SumOfNone
<1>4. s \in SUBSET S /\ s \in SUBSET T BY <1>2
<1>5. /\ Chosen(s) \in s /\ s \ {Chosen(s)} \in SUBSET U
      /\ g[s] = F[Chosen(s)] + g[s \ {Chosen(s)}]
      /\ Cardinality(s \ {Chosen(s)}) < Cardinality(s) BY <1>2, <1>3, <1>4, SumStep
<1>6. h[s] = G[Chosen(s)] + h[s \ {Chosen(s)}]
  <2>1. s \in SUBSET T BY <1>4
  <2>2. h[s] = SumTerm(h, G, s) BY <2>1 DEF Sums
  <2> QED BY <1>3, <2>2 DEF SumTerm
<1>7. Cardinality(s) \in Nat /\ Cardinality(s \ {Chosen(s)}) \in Nat BY <1>4, <1>5, FS_Subset, FS_CardinalityType
<1>8. g[s \ {Chosen(s)}] = h[s \ {Chosen(s)}]
  <2>1. ~(Cardinality(s) <= Cardinality(s \ {Chosen(s)})) BY <1>5, <1>7
  <2>2. s \ {Chosen(s)} \notin W
    <3> HIDE DEF W
    <3> QED BY <1>1, <2>1
  <2> QED BY <1>5, <2>2
<1>9. F[Chosen(s)] = G[Chosen(s)] BY <1>2, <1>5
<1> HIDE DEF W
<1> QED BY <1>2, <1>5, <1>6, <1>8, <1>9

(* What a sum comes to when a term is added, or one is raised.             *)
LEMMA SumAdded ==
  ASSUME NEW S, IsFiniteSet(S), NEW F \in [S -> Nat], NEW c, Sums(c, F, S),
         NEW n, NEW T, T = S \cup {n}, NEW G \in [T -> Nat], NEW d, Sums(d, G, T),
         \A i \in S \ {n} : G[i] = F[i]
  PROVE  d[T] = c[S] + (G[n] - (IF n \in S THEN F[n] ELSE 0))
<1>0. F \in [S -> Int] /\ G \in [T -> Int] OBVIOUS
<1>1. IsFiniteSet(T) BY FS_AddElement
<1>2. PICK R : R = S \ {n} OBVIOUS
<1>3. R \subseteq S /\ R \subseteq T /\ T \ {n} = R /\ n \in T /\ T \in SUBSET T /\ S \in SUBSET S BY <1>2
<1>4. c[R] = d[R]
  <2>1. \A i \in R : F[i] = G[i] BY <1>2
  <2> QED BY <1>1, <1>3, <2>1, SumSame
<1>5. d[T] = G[n] + d[T \ {n}] BY <1>0, <1>1, <1>3, SumAny
<1>6. n \in S => c[S] = F[n] + c[S \ {n}] BY <1>0, <1>3, SumAny
<1>7. c[R] \in Nat BY <1>3, SumIsNat
<1>8. PICK k, v : k = c[R] /\ v = G[n] OBVIOUS
<1>9. k \in Nat /\ v \in Nat /\ d[T] = v + k BY <1>3, <1>4, <1>5, <1>7, <1>8
<1>10. CASE n \in S
  <2>1. PICK f : f = F[n] OBVIOUS
  <2>2. f \in Nat /\ c[S] = f + k BY <1>2, <1>6, <1>8, <1>10, <2>1
  <2>3. d[T] = c[S] + (v - f) BY <1>9, <2>2
  <2> QED BY <1>8, <1>10, <2>1, <2>3
<1>11. CASE n \notin S
  <2>1. R = S BY <1>2, <1>11
  <2>2. d[T] = c[S] + (v - 0) BY <1>8, <1>9, <2>1
  <2> QED BY <1>8, <1>11, <2>2
<1> QED BY <1>10, <1>11

LEMMA SharesAdded ==
  ASSUME NEW list, IsFiniteSet(DOMAIN list), \A i \in DOMAIN list : list[i].quantity \in Nat,
         NEW more, NEW n, DOMAIN more = DOMAIN list \cup {n}, NEW take \in Nat,
         \A i \in DOMAIN list \ {n} : more[i].quantity = list[i].quantity,
         more[n].quantity = (IF n \in DOMAIN list THEN list[n].quantity ELSE 0) + take
  PROVE  SharesIn(list) \in Nat /\ SharesIn(more) = SharesIn(list) + take
<1>1. IsFiniteSet(DOMAIN more) BY FS_AddElement
<1>2. \A i \in DOMAIN more : more[i].quantity \in Nat OBVIOUS
<1>3. PICK S, F, c : /\ S = DOMAIN list /\ F = Quantities(list) /\ Sums(c, F, S) /\ SharesIn(list) = c[S]
                     /\ F \in [S -> Int] /\ F \in [S -> Nat] /\ SharesIn(list) \in Nat
  BY SharesSum
<1>4. PICK T, G, d : /\ T = DOMAIN more /\ G = Quantities(more) /\ Sums(d, G, T)
                     /\ SharesIn(more) = d[T] /\ G \in [T -> Nat]
  BY <1>1, <1>2, SharesSum
<1>5. T = S \cup {n} BY <1>3, <1>4
<1>6. \A i \in S \ {n} : G[i] = F[i] BY <1>3, <1>4 DEF Quantities
<1>7. G[n] = (IF n \in S THEN F[n] ELSE 0) + take BY <1>3, <1>4 DEF Quantities
<1>8. IsFiniteSet(S) BY <1>3
<1>10. F \in [S -> Nat] /\ Sums(c, F, S) /\ G \in [T -> Nat] /\ Sums(d, G, T) BY <1>3, <1>4
<1>11. d[T] = c[S] + (G[n] - (IF n \in S THEN F[n] ELSE 0))
  BY <1>5, <1>6, <1>8, <1>10, SumAdded
<1>12. c[S] \in Nat /\ (n \in S => F[n] \in Nat) BY <1>3, <1>10
<1> QED BY <1>3, <1>4, <1>7, <1>11, <1>12

Treatments == {"LTCG", "STCG", "unknown"}
LotRefs == [treatment : Treatments, fills : Nat, quantity : Nat, acquired : Int]

LEMMA SharesOfNone == SharesIn(<<>>) = 0
<1> DEFINE r == << >>
<1>1. DOMAIN r = {} OBVIOUS
<1>2. IsFiniteSet(DOMAIN r) BY <1>1, FS_EmptySet
<1>3. \A i \in DOMAIN r : r[i].quantity \in Nat BY <1>1
<1>4. PICK c : Sums(c, Quantities(r), DOMAIN r) /\ SharesIn(r) = c[DOMAIN r]
  BY <1>2, <1>3, SharesSum
<1> HIDE DEF r
<1>5. c[{}] = 0 BY <1>1, <1>4, SumOfNone
<1> QED BY <1>1, <1>4, <1>5 DEF r

(* A fill goes into the list of references with its quantity, be it as a   *)
(* reference of its own or in the last one.                                *)
LEMMA FillIsCounted ==
  ASSUME NEW refs \in Seq(LotRefs), NEW lot \in HeldLots, NEW take \in Nat
  PROVE  /\ FoldedIn(refs, lot, take) \in Seq(LotRefs)
         /\ SharesIn(refs) \in Nat
         /\ SharesIn(FoldedIn(refs, lot, take)) = SharesIn(refs) + take
<1> DEFINE last == Len(refs)
           is == FoldedIn(refs, lot, take)
           new == [treatment |-> TreatmentOf(lot), fills |-> 1, quantity |-> take, acquired |-> lot.acquired]
<1>0. \A i \in DOMAIN refs : refs[i] \in LotRefs OBVIOUS
<1>00. \A i \in DOMAIN refs : refs[i].quantity \in Nat BY <1>0 DEF LotRefs
<1>000. last \in Nat /\ DOMAIN refs = 1 .. last OBVIOUS
<1>001. IsFiniteSet(DOMAIN refs) BY <1>000, FS_Interval
<1>1. /\ last \in Nat /\ DOMAIN refs = 1 .. last /\ IsFiniteSet(DOMAIN refs)
      /\ \A i \in DOMAIN refs : refs[i] \in LotRefs
  BY <1>0, <1>000, <1>001
<1>2. new \in LotRefs BY DEF LotRefs, TreatmentOf, Treatments, HeldLots
<1>3. CASE last > 0 /\ refs[last].acquired = lot.acquired /\ refs[last].treatment = TreatmentOf(lot)
  <2> DEFINE more == [refs EXCEPT ![last].fills = @ + 1, ![last].quantity = @ + take]
  <2>1. is = more BY <1>3 DEF FoldedIn
  <2>2. last \in DOMAIN refs BY <1>1, <1>3
  <2>3. /\ DOMAIN more = DOMAIN refs
        /\ \A i \in DOMAIN refs \ {last} : more[i] = refs[i]
    OBVIOUS
  <2>4. PICK r : r = refs[last] OBVIOUS
  <2>5. r \in LotRefs BY <1>1, <2>2, <2>4
  <2>6. more[last] = [treatment |-> r.treatment, fills |-> r.fills + 1, quantity |-> r.quantity + take,
                      acquired |-> r.acquired]
    <3>1. r = [treatment |-> r.treatment, fills |-> r.fills, quantity |-> r.quantity, acquired |-> r.acquired]
      BY <2>5 DEF LotRefs
    <3> QED BY <2>2, <2>4, <3>1
  <2>7. more[last] \in LotRefs /\ more[last].quantity = r.quantity + take
    <3>1. r.treatment \in Treatments /\ r.fills + 1 \in Nat /\ r.quantity + take \in Nat /\ r.acquired \in Int
      BY <2>5 DEF LotRefs
    <3> HIDE DEF more
    <3> QED BY <2>6, <3>1 DEF LotRefs
  <2> HIDE DEF more, last, is
  <2>8. \A i \in DOMAIN refs : more[i] \in LotRefs BY <1>1, <2>3, <2>7
  <2>9. more \in Seq(LotRefs)
    <3>1. \E n \in Nat : DOMAIN more = 1 .. n BY <1>1, <2>3
    <3>2. more = [i \in DOMAIN more |-> more[i]] BY DEF more
    <3> QED BY <2>3, <2>8, <3>1, <3>2
  <2>10. DOMAIN more = DOMAIN refs \cup {last} BY <2>2, <2>3
  <2>11. more[last].quantity = (IF last \in DOMAIN refs THEN refs[last].quantity ELSE 0) + take
    BY <2>2, <2>4, <2>7
  <2>12. \A i \in DOMAIN refs \ {last} : more[i].quantity = refs[i].quantity BY <2>3
  <2>13. SharesIn(refs) \in Nat /\ SharesIn(more) = SharesIn(refs) + take
    BY <1>00, <1>001, <2>10, <2>11, <2>12, SharesAdded
  <2> QED BY <2>1, <2>9, <2>13 DEF is
<1>4. CASE ~(last > 0 /\ refs[last].acquired = lot.acquired /\ refs[last].treatment = TreatmentOf(lot))
  <2> DEFINE more == Append(refs, new)
  <2>1. is = more BY <1>4 DEF FoldedIn
  <2> HIDE DEF is, new
  <2>2. /\ more \in Seq(LotRefs) /\ DOMAIN more = 1 .. (last + 1)
        /\ more[last + 1] = new /\ \A i \in 1 .. last : more[i] = refs[i]
    BY <1>2
  <2>3. new.quantity = take BY DEF new
  <2> HIDE DEF more, last
  <2>4. DOMAIN more = DOMAIN refs \cup {last + 1} /\ last + 1 \notin DOMAIN refs BY <1>1, <2>2
  <2>5. more[last + 1].quantity = (IF last + 1 \in DOMAIN refs THEN refs[last + 1].quantity ELSE 0) + take
    BY <2>2, <2>3, <2>4
  <2>6. \A i \in DOMAIN refs \ {last + 1} : more[i].quantity = refs[i].quantity BY <1>1, <2>2
  <2>7. SharesIn(refs) \in Nat /\ SharesIn(more) = SharesIn(refs) + take
    <3>1. PICK n : n = last + 1 OBVIOUS
    <3> QED BY <3>1, <1>00, <1>001, <2>4, <2>5, <2>6, SharesAdded
  <2> QED BY <2>1, <2>2, <2>7 DEF is
<1> QED BY <1>3, <1>4

(* What has been taken for a sale of so many shares, of lots that come to  *)
(* so many.                                                                *)
TakenRight(s, quantity, lotsCome) ==
  /\ s \in [left : Nat, refs : Seq(LotRefs)]
  /\ SharesIn(s.refs) \in Nat
  /\ s.left + SharesIn(s.refs) = quantity /\ SharesIn(s.refs) <= lotsCome

LEMMA TakingRight ==
  ASSUME NEW s, NEW quantity \in Nat, NEW come \in Nat, TakenRight(s, quantity, come),
         NEW lot \in HeldLots
  PROVE  TakenRight(TakeFrom(s, lot), quantity, come + lot.quantity)
<1>1. lot.quantity \in Nat /\ s.left \in Nat /\ s.refs \in Seq(LotRefs) BY DEF HeldLots, TakenRight
<1>2. CASE s.left = 0 \/ lot.quantity = 0
  <2>1. TakeFrom(s, lot) = s BY <1>2 DEF TakeFrom
  <2> QED BY <2>1, <1>1 DEF TakenRight
<1>3. CASE ~(s.left = 0 \/ lot.quantity = 0)
  <2>1. PICK take : take = IF lot.quantity < s.left THEN lot.quantity ELSE s.left OBVIOUS
  <2>2. TakeFrom(s, lot) = [left |-> s.left - take, refs |-> FoldedIn(s.refs, lot, take)]
    BY <1>3, <2>1 DEF TakeFrom
  <2>3. take \in Nat /\ take <= lot.quantity /\ s.left - take \in Nat BY <1>1, <2>1
  <2>4. /\ FoldedIn(s.refs, lot, take) \in Seq(LotRefs)
        /\ SharesIn(FoldedIn(s.refs, lot, take)) = SharesIn(s.refs) + take
    BY <1>1, <2>3, FillIsCounted
  <2>5. PICK is : is = TakeFrom(s, lot) OBVIOUS
  <2>6. is.left = s.left - take /\ is.refs = FoldedIn(s.refs, lot, take)
        /\ is = [left |-> is.left, refs |-> is.refs] BY <2>2, <2>5
  <2>7. is \in [left : Nat, refs : Seq(LotRefs)] BY <2>3, <2>4, <2>6
  <2>8. PICK m, k : m = SharesIn(s.refs) /\ k = s.left OBVIOUS
  <2>9. m \in Nat /\ k + m = quantity /\ m <= come BY <2>8 DEF TakenRight
  <2>10. SharesIn(is.refs) = m + take /\ is.left = k - take BY <2>4, <2>6, <2>8
  <2>11. SharesIn(is.refs) \in Nat /\ is.left + SharesIn(is.refs) = quantity
         /\ SharesIn(is.refs) <= come + lot.quantity
    BY <1>1, <2>3, <2>8, <2>9, <2>10
  <2> QED BY <2>5, <2>7, <2>11 DEF TakenRight
<1> QED BY <1>2, <1>3

TakeTerm(g, s, lots, quantity) ==
  IF s = {} THEN [left |-> quantity, refs |-> <<>>] ELSE TakeFrom(g[s \ {Max(s)}], lots[Max(s)])
Takes(g, S, lots, quantity) == g = [s \in SUBSET S |-> TakeTerm(g, s, lots, quantity)]

LEMMA TakesExist ==
  ASSUME NEW S, IsFiniteSet(S), S \subseteq Nat, NEW lots, NEW quantity
  PROVE  \E g : Takes(g, S, lots, quantity)
<1> DEFINE Level(n) == {s \in SUBSET S : Cardinality(s) <= n}
           Term(g, s) == TakeTerm(g, s, lots, quantity)
           Up(g, n) == DOMAIN g = Level(n) /\ \A s \in Level(n) : g[s] = Term(g, s)
           Bad == {n \in Nat : ~ \E g : Up(g, n)}
<1>0. ASSUME NEW s \in SUBSET S PROVE Cardinality(s) \in Nat /\ (Cardinality(s) = 0 <=> s = {})
  BY FS_Subset, FS_CardinalityType, FS_EmptySet
<1>1. Bad = {}
  <2> SUFFICES ASSUME Bad # {} PROVE FALSE OBVIOUS
  <2>1. PICK n \in Bad : \A m \in Bad : n <= m
    <3>1. Bad \subseteq Nat OBVIOUS
    <3> HIDE DEF Bad
    <3> QED BY <3>1, LeastNumber
  <2>2. n \in Nat /\ ~ \E g : Up(g, n) BY <2>1
  <2>3. CASE n = 0
    <3>0. \A s \in SUBSET S : Cardinality(s) <= n <=> s = {} BY <1>0, <2>3
    <3>1. Level(n) = {{}} BY <3>0
    <3> DEFINE z == [s \in Level(n) |-> [left |-> quantity, refs |-> <<>>]]
    <3>2. \A s \in Level(n) : z[s] = Term(z, s) BY <3>1 DEF TakeTerm
    <3>3. DOMAIN z = Level(n) OBVIOUS
    <3>4. Up(z, n) BY <3>2, <3>3
    <3> QED BY <3>4, <2>2
  <2>4. CASE n # 0
    <3>1. n - 1 \in Nat /\ n - 1 < n BY <2>2, <2>4
    <3>2. n - 1 \notin Bad
      <4> HIDE DEF Bad
      <4> QED BY <3>1, <2>1, <2>2
    <3>3. PICK g : Up(g, n - 1) BY <3>1, <3>2
    <3> DEFINE h == [s \in Level(n) |-> Term(g, s)]
    <3>4. ASSUME NEW s \in Level(n), s # {}
          PROVE  Max(s) \in S /\ s \ {Max(s)} \in Level(n - 1) /\ s \ {Max(s)} \in Level(n)
      <4>0. s \in SUBSET S /\ Cardinality(s) <= n BY <3>4
      <4>1. Max(s) \in s
        <5>1. IsFiniteSet(s) /\ s \subseteq Nat BY <4>0, FS_Subset
        <5> QED BY <3>4, <5>1, FiniteHasGreatest
      <4>3. /\ Cardinality(s) \in Nat
            /\ Cardinality(s \ {Max(s)}) = Cardinality(s) - 1
            /\ s \ {Max(s)} \in SUBSET S BY <4>0, <4>1, Fewer
      <4>4. PICK m, k : m = Cardinality(s \ {Max(s)}) /\ k = Cardinality(s) OBVIOUS
      <4>5. m <= n - 1 /\ m <= n BY <4>0, <4>3, <4>4, <2>2
      <4>6. Max(s) \in S BY <4>0, <4>1
      <4> QED BY <4>3, <4>4, <4>5, <4>6
    <3>6. ASSUME NEW s \in Level(n - 1) PROVE h[s] = g[s]
      <4>1. s \in Level(n) BY <3>6, <3>1, <2>2, <1>0
      <4>2. h[s] = Term(g, s) BY <4>1
      <4> HIDE DEF h, Level, Term
      <4> QED BY <4>2, <3>3, <3>6
    <3>7. ASSUME NEW s \in Level(n) PROVE h[s] = Term(h, s)
      <4>1. h[s] = Term(g, s) OBVIOUS
      <4>2. s # {} => h[s \ {Max(s)}] = g[s \ {Max(s)}] BY <3>4, <3>6
      <4> HIDE DEF h, Level
      <4> QED BY <4>1, <4>2 DEF TakeTerm
    <3>8. DOMAIN h = Level(n) OBVIOUS
    <3>9. Up(h, n)
      <4> HIDE DEF h, Level, Term
      <4> QED BY <3>7, <3>8
    <3> HIDE DEF Up, h
    <3> QED BY <3>9, <2>2
  <2> QED BY <2>3, <2>4
<1> DEFINE c == Cardinality(S)
<1>2. c \in Nat BY FS_CardinalityType
<1>3. \E g : Up(g, c)
  <2> HIDE DEF Up, c
  <2> QED BY <1>1, <1>2
<1>4. Level(c) = SUBSET S BY FS_Subset
<1> HIDE DEF c, Level
<1>5. PICK g : DOMAIN g = SUBSET S /\ \A s \in SUBSET S : g[s] = Term(g, s) BY <1>3, <1>4
<1>6. PICK h : h = [s \in SUBSET S |-> g[s]] OBVIOUS
<1>7. \A s \in SUBSET S : h[s] = g[s] BY <1>6
<1>8. \A s \in SUBSET S : Term(h, s) = Term(g, s)
  <2> SUFFICES ASSUME NEW s \in SUBSET S PROVE Term(h, s) = Term(g, s) OBVIOUS
  <2>1. s \ {Max(s)} \in SUBSET S OBVIOUS
  <2>2. h[s \ {Max(s)}] = g[s \ {Max(s)}] BY <2>1, <1>7
  <2> QED BY <2>2 DEF TakeTerm
<1>9. h = [s \in SUBSET S |-> Term(h, s)]
  <2> HIDE DEF Term
  <2>1. h = [s \in SUBSET S |-> g[s]] BY <1>6
  <2>2. \A s \in SUBSET S : g[s] = Term(h, s) BY <1>5, <1>8
  <2> QED BY <2>1, <2>2
<1> QED BY <1>9 DEF Takes

LEMMA TakesRight ==
  ASSUME NEW lots \in Seq(HeldLots), NEW quantity \in Nat,
         NEW g, Takes(g, DOMAIN lots, lots, quantity)
  PROVE  SharesIn(lots) \in Nat /\ TakenRight(g[DOMAIN lots], quantity, SharesIn(lots))
<1> DEFINE S == DOMAIN lots
<1>0. S \subseteq Nat /\ IsFiniteSet(S)
  <2>1. S = 1 .. Len(lots) /\ Len(lots) \in Nat OBVIOUS
  <2> QED BY <2>1, FS_Interval
<1>1. \A i \in S : lots[i] \in HeldLots OBVIOUS
<1>2. \A i \in S : lots[i].quantity \in Nat BY <1>1 DEF HeldLots
<1>3. PICK F, c : /\ F = Quantities(lots) /\ Sums(c, F, S) /\ SharesIn(lots) = c[S]
                  /\ F \in [S -> Int] /\ F \in [S -> Nat] /\ SharesIn(lots) \in Nat
  BY <1>0, <1>2, SharesSum
<1>4. \A s \in SUBSET S : c[s] \in Nat BY <1>0, <1>3, SumIsNat
<1>5. \A s \in SUBSET S : g[s] = TakeTerm(g, s, lots, quantity) BY DEF Takes
<1>6. \A i \in S : F[i] = lots[i].quantity BY <1>3 DEF Quantities
<1> HIDE DEF S
<1> DEFINE W == {s \in SUBSET S : ~TakenRight(g[s], quantity, c[s])}
<1>7. W = {}
  <2> SUFFICES ASSUME W # {} PROVE FALSE OBVIOUS
  <2>1. PICK s \in W : \A t \in W : Cardinality(s) <= Cardinality(t)
    <3>1. W \subseteq SUBSET S OBVIOUS
    <3> HIDE DEF W
    <3> QED BY <3>1, <1>0, Smallest
  <2>2. s \in SUBSET S /\ ~TakenRight(g[s], quantity, c[s]) BY <2>1
  <2>3. s # {}
    <3> SUFFICES ASSUME s = {} PROVE FALSE OBVIOUS
    <3>1. g[s] = [left |-> quantity, refs |-> << >>] BY <2>2, <1>5 DEF TakeTerm
    <3>2. c[s] = 0 BY <1>3, SumOfNone
    <3>3. << >> \in Seq(LotRefs) OBVIOUS
    <3>4. g[s].left = quantity /\ g[s].refs = << >> /\ g[s] \in [left : Nat, refs : Seq(LotRefs)]
      BY <3>1, <3>3
    <3> QED BY <2>2, <3>2, <3>4, SharesOfNone DEF TakenRight
  <2>4. PICK x : x = Max(s) OBVIOUS
  <2>5. x \in s
    <3>1. IsFiniteSet(s) /\ s \subseteq Nat BY <1>0, <2>2, FS_Subset
    <3> QED BY <2>3, <2>4, <3>1, FiniteHasGreatest
  <2>6. PICK t : t = s \ {x} OBVIOUS
  <2>7. /\ t \in SUBSET S /\ Cardinality(t) \in Nat /\ Cardinality(s) \in Nat
        /\ Cardinality(t) = Cardinality(s) - 1
    BY <2>2, <2>5, <2>6, <1>0, Fewer
  <2>8. t \notin W
    <3>1. ~(Cardinality(s) <= Cardinality(t)) BY <2>7
    <3> HIDE DEF W
    <3> QED BY <2>1, <3>1
  <2>9. TakenRight(g[t], quantity, c[t]) BY <2>7, <2>8
  <2>10. g[s] = TakeFrom(g[t], lots[x]) BY <2>2, <2>3, <2>4, <2>6, <1>5 DEF TakeTerm
  <2>11. x \in S /\ lots[x] \in HeldLots BY <1>1, <2>2, <2>5
  <2>12. c[s] = F[x] + c[s \ {x}]
    <3>1. F \in [S -> Int] /\ Sums(c, F, S) /\ IsFiniteSet(S) BY <1>0, <1>3
    <3> QED BY <2>2, <2>5, <3>1, SumAny
  <2>13. c[s] = c[t] + lots[x].quantity BY <1>2, <1>4, <1>6, <2>6, <2>7, <2>11, <2>12
  <2>14. c[t] \in Nat BY <1>4, <2>7
  <2>15. TakenRight(TakeFrom(g[t], lots[x]), quantity, c[t] + lots[x].quantity)
    BY <2>9, <2>11, <2>14, TakingRight
  <2> QED BY <2>2, <2>10, <2>13, <2>15
<1>8. S \in SUBSET S OBVIOUS
<1>9. TakenRight(g[S], quantity, c[S]) BY <1>7, <1>8
<1> QED BY <1>3, <1>9 DEF S

(* The lots of a sale account for no more shares than it sells, nor than   *)
(* the lots have, and say so when it is fewer.                             *)
LEMMA LotsAccount ==
  ASSUME NEW lots \in Seq(HeldLots), NEW quantity \in Nat
  PROVE  LET refs == fifoLotTreatments(lots, quantity)
         IN  /\ SharesIn(refs) <= quantity /\ SharesIn(refs) <= SharesIn(lots)
             /\ SharesIn(refs) < quantity => refs[Len(refs)].treatment = "unknown"
<1> DEFINE S == DOMAIN lots
           h == CHOOSE g : g = [s \in SUBSET S |->
                                  IF s = {} THEN [left |-> quantity, refs |-> << >>]
                                  ELSE TakeFrom(g[s \ {Max(s)}], lots[Max(s)])]
           done == h[S]
<1>1. fifoLotTreatments(lots, quantity) =
        IF done.left = 0 THEN done.refs
        ELSE Append(done.refs, [treatment |-> "unknown", fills |-> 0, quantity |-> 0, acquired |-> ReviewDay])
  BY DEF fifoLotTreatments, FoldLeft, MapThenFoldSet
<1>2. h = CHOOSE g : Takes(g, S, lots, quantity) BY DEF Takes, TakeTerm
<1>3. S \subseteq Nat /\ IsFiniteSet(S)
  <2>1. S = 1 .. Len(lots) /\ Len(lots) \in Nat OBVIOUS
  <2> QED BY <2>1, FS_Interval
<1> HIDE DEF h
<1>4. Takes(h, S, lots, quantity)
  <2>1. \E g : Takes(g, S, lots, quantity) BY <1>3, TakesExist
  <2> QED BY <1>2, <2>1
<1>5. SharesIn(lots) \in Nat /\ TakenRight(done, quantity, SharesIn(lots)) BY <1>4, TakesRight
<1> HIDE DEF done
<1>6. PICK refs, left : refs = done.refs /\ left = done.left OBVIOUS
<1>7. /\ refs \in Seq(LotRefs) /\ left \in Nat /\ SharesIn(refs) \in Nat
      /\ left + SharesIn(refs) = quantity /\ SharesIn(refs) <= SharesIn(lots)
  BY <1>5, <1>6 DEF TakenRight
<1>8. CASE left = 0
  <2>1. fifoLotTreatments(lots, quantity) = refs BY <1>1, <1>6, <1>8
  <2> QED BY <2>1, <1>7, <1>8
<1>9. CASE left # 0
  <2>1. PICK none : none = [treatment |-> "unknown", fills |-> 0, quantity |-> 0, acquired |-> ReviewDay]
    OBVIOUS
  <2>2. PICK more : more = Append(refs, none) OBVIOUS
  <2>3. fifoLotTreatments(lots, quantity) = more BY <1>1, <1>6, <1>9, <2>1, <2>2
  <2>4. PICK n : n = Len(refs) OBVIOUS
  <2>5. /\ n \in Nat /\ DOMAIN refs = 1 .. n /\ Len(more) = n + 1 /\ DOMAIN more = 1 .. (n + 1)
        /\ more[n + 1] = none /\ \A i \in 1 .. n : more[i] = refs[i]
    BY <1>7, <2>2, <2>4
  <2>6. \A i \in DOMAIN refs : refs[i] \in LotRefs BY <1>7
  <2>7. \A i \in DOMAIN refs : refs[i].quantity \in Nat BY <2>6 DEF LotRefs
  <2>8. IsFiniteSet(DOMAIN refs) BY <2>5, FS_Interval
  <2>9. none.quantity = 0 /\ none.treatment = "unknown" BY <2>1
  <2>10. PICK k : k = n + 1 OBVIOUS
  <2>11. DOMAIN more = DOMAIN refs \cup {k} /\ k \notin DOMAIN refs BY <2>5, <2>10
  <2>12. more[k].quantity = (IF k \in DOMAIN refs THEN refs[k].quantity ELSE 0) + 0 BY <2>5, <2>9, <2>10, <2>11
  <2>13. \A i \in DOMAIN refs \ {k} : more[i].quantity = refs[i].quantity BY <2>5
  <2>14. 0 \in Nat OBVIOUS
  <2>15. SharesIn(more) = SharesIn(refs) + 0 BY <2>7, <2>8, <2>11, <2>12, <2>13, <2>14, SharesAdded
  <2>16. more[Len(more)].treatment = "unknown" BY <2>5, <2>9
  <2> QED BY <1>7, <2>3, <2>15, <2>16
<1> QED BY <1>8, <1>9

LEMMA BookTyped ==
  ASSUME NEW b \in Books, NEW c
  PROVE  /\ IsFiniteSet(OfClass(b, c)) /\ OfClass(b, c) \subseteq DOMAIN b /\ DOMAIN b \subseteq Nat
         /\ \A h \in OfClass(b, c) : b[h].value \in Nat
         /\ ValueOf(b, OfClass(b, c)) \in Nat /\ Invested(b) \in Nat
<1>1. IsFiniteSet(DOMAIN b) /\ DOMAIN b \subseteq Nat BY BooksAssumption
<1>2. Counted(b) \subseteq DOMAIN b /\ \A h \in Counted(b) : b[h].value \in Nat
  BY BooksAssumption DEF Counted
<1>3. PICK S : S = {h \in Counted(b) : b[h].class # CashClass} OBVIOUS
<1>4. S \subseteq DOMAIN b /\ OfClass(b, c) \subseteq DOMAIN b
      /\ (\A h \in S : b[h].value \in Nat) /\ \A h \in OfClass(b, c) : b[h].value \in Nat
  BY <1>2, <1>3 DEF OfClass
<1>5. IsFiniteSet(S) /\ IsFiniteSet(OfClass(b, c)) BY <1>1, <1>4, FS_Subset
<1>6. Invested(b) = ValueOf(b, S) BY <1>3 DEF Invested
<1>7. ValueOf(b, S) \in Nat BY <1>4, <1>5, ValuesAddUp
<1>8. ValueOf(b, OfClass(b, c)) \in Nat BY <1>4, <1>5, ValuesAddUp
<1> QED BY <1>1, <1>4, <1>5, <1>6, <1>7, <1>8

(* How far a class is off its weight, in hundredths of a percent of the    *)
(* money: its drift, within half of one.                                   *)
OffBy(b, c) == 10000 * ValueOf(b, OfClass(b, c)) - PlanTargets[c] * Invested(b)

LEMMA DriftIsNear ==
  ASSUME NEW b \in Books, NEW c \in Classes
  PROVE  /\ DriftOf(b, c) \in Int /\ OffBy(b, c) \in Int /\ Invested(b) \in Nat
         /\ Invested(b) = 0 => DriftOf(b, c) <= 0
         /\ Invested(b) # 0 =>
              /\ 2 * (Invested(b) * DriftOf(b, c)) - Invested(b) <= 2 * OffBy(b, c)
              /\ 2 * OffBy(b, c) < 2 * (Invested(b) * DriftOf(b, c)) + Invested(b)
<1>1. PICK V, I, T, d, off : /\ V = ValueOf(b, OfClass(b, c)) /\ I = Invested(b) /\ T = PlanTargets[c]
                             /\ d = DriftOf(b, c) /\ off = OffBy(b, c)
  OBVIOUS
<1>2. V \in Nat /\ I \in Nat /\ T \in Nat BY <1>1, BookTyped, PlanAssumption DEF Classes
<1>3. d = BasisPoints(V, I) - T BY <1>1 DEF DriftOf
<1>4. off = 10000 * V - T * I BY <1>1 DEF OffBy
<1>5. T * I \in Int BY <1>2
<1>6. off \in Int BY <1>2, <1>4, <1>5
<1>7. CASE I = 0
  <2>1. d = 0 - T BY <1>3, <1>7 DEF BasisPoints
  <2> QED BY <1>1, <1>2, <1>6, <1>7, <2>1
<1>8. CASE I # 0
  <2>1. PICK B : B = (2 * 10000 * V + I) \div (2 * I) OBVIOUS
  <2>2. d = B - T BY <1>3, <1>8, <2>1 DEF BasisPoints
  <2>3. 2 * 10000 * V + I \in Int /\ 2 * I \in Nat \ {0} BY <1>2, <1>8
  <2>4. /\ B \in Int /\ (2 * I) * B <= 2 * 10000 * V + I
        /\ 2 * 10000 * V + I < (2 * I) * B + 2 * I
    BY <2>1, <2>3, DivisionBounds
  <2>5. PICK p, q : p = I * B /\ q = T * I OBVIOUS
  <2>6. p \in Int /\ q \in Int /\ (2 * I) * B = 2 * p BY <1>2, <2>4, <2>5
  <2>7. I * d = p - q
    <3>1. I * d = I * B - I * T BY <1>2, <2>2, <2>4
    <3>2. I * T = T * I BY <1>2
    <3> QED BY <2>5, <3>1, <3>2
  <2>8. off = 10000 * V - q BY <1>4, <2>5
  <2>9. 2 * p <= 20000 * V + I /\ 20000 * V + I < 2 * p + 2 * I BY <1>2, <2>4, <2>6
  <2>10. 2 * (p - q) - I <= 2 * off /\ 2 * off < 2 * (p - q) + I BY <1>2, <2>6, <2>8, <2>9
  <2>11. d \in Int BY <1>2, <2>2, <2>4
  <2> QED BY <1>1, <1>2, <1>6, <1>8, <2>7, <2>10, <2>11
<1> QED BY <1>7, <1>8

LEMMA LargestIn ==
  ASSUME NEW b \in Books, NEW c, OfClass(b, c) # {}
  PROVE  Largest(b, c) \in OfClass(b, c)
<1>1. PICK S : S = OfClass(b, c) OBVIOUS
<1>2. IsFiniteSet(S) /\ S \subseteq Nat /\ S # {} /\ \A h \in S : b[h].value \in Nat
  BY <1>1, BookTyped
<1> DEFINE V == {b[h].value : h \in S}
<1>3. V \subseteq Nat /\ V # {} BY <1>2
<1>4. IsFiniteSet(V)
  <2>1. PICK f : f = [h \in S |-> b[h].value] OBVIOUS
  <2>2. f \in [S -> V] BY <2>1
  <2>3. V = {f[h] : h \in S} BY <2>1
  <2> HIDE DEF V
  <2>4. f \in Surjection(S, V) BY <2>2, <2>3 DEF Surjection
  <2> QED BY <1>2, <2>4, FS_Surjection
<1>5. PICK v \in V : \A w \in V : v >= w
  <2> HIDE DEF V
  <2> QED BY <1>3, <1>4, FiniteHasGreatest
<1> DEFINE N == {h \in S : b[h].value = v}
<1>6. PICK m \in N : \A h \in N : m <= h
  <2>1. N \subseteq Nat /\ N # {} BY <1>2, <1>5
  <2> HIDE DEF N
  <2> QED BY <2>1, LeastNumber
<1>7. m \in S /\ b[m].value = v BY <1>6
<1>8. \A g \in S : b[m].value > b[g].value \/ (b[m].value = b[g].value /\ m <= g)
  <2> SUFFICES ASSUME NEW g \in S, b[m].value # b[g].value \/ ~(m <= g)
               PROVE  b[m].value > b[g].value
    OBVIOUS
  <2>1. v >= b[g].value BY <1>5
  <2>2. b[g].value = v => m <= g BY <1>6
  <2>3. v \in Nat /\ b[g].value \in Nat BY <1>2, <1>7
  <2> QED BY <1>7, <2>1, <2>2, <2>3
<1> QED BY <1>1, <1>7, <1>8 DEF Largest

(* The classes out of their band, the farthest first, are those classes.   *)
LEMMA FarthestIn ==
  ASSUME NEW b \in Books, NEW classes, classes \subseteq Classes,
         NEW i \in DOMAIN FarthestFirst(b, classes)
  PROVE  FarthestFirst(b, classes)[i] \in classes
<1>1. PICK n : n = Cardinality(classes) OBVIOUS
<1>2. IsFiniteSet(classes) /\ classes \subseteq Nat BY PlanAssumption, FS_Subset DEF Classes
<1>3. n \in Nat /\ i \in 1 .. n
  BY <1>1, <1>2, FS_CardinalityType DEF FarthestFirst
<1> DEFINE Away(c) == AbsOf(DriftOf(b, c))
           FartherThan(c) == AheadOf(b, classes, c)
           rank == [c \in classes |-> Cardinality(FartherThan(c))]
           ranks == 0 .. (n - 1)
<1>4. \A c \in classes : Away(c) \in Nat
  <2> SUFFICES ASSUME NEW c \in classes PROVE Away(c) \in Nat OBVIOUS
  <2>1. DriftOf(b, c) \in Int BY DriftIsNear
  <2> QED BY <2>1 DEF AbsOf
<1>5. \A c, d \in classes : d \in FartherThan(c) <=> Away(d) > Away(c) \/ (Away(d) = Away(c) /\ d < c)
  BY DEF AheadOf
<1> HIDE DEF Away
<1>6. ASSUME NEW c \in classes
      PROVE  /\ c \notin FartherThan(c) /\ FartherThan(c) \subseteq classes
             /\ IsFiniteSet(FartherThan(c)) /\ Cardinality(FartherThan(c)) \in ranks
  <2>1. c \notin FartherThan(c) BY <1>2, <1>4, <1>5
  <2>2. FartherThan(c) \subseteq classes \ {c} BY <2>1 DEF AheadOf
  <2>3. IsFiniteSet(classes \ {c}) /\ Cardinality(classes \ {c}) = n - 1 BY <1>1, <1>2, FS_RemoveElement
  <2>4. IsFiniteSet(FartherThan(c)) /\ Cardinality(FartherThan(c)) <= n - 1 /\ Cardinality(FartherThan(c)) \in Nat
    BY <2>2, <2>3, FS_Subset, FS_CardinalityType
  <2> QED BY <1>3, <2>1, <2>2, <2>4
<1>7. ASSUME NEW c \in classes, NEW d \in classes, d \in FartherThan(c)
      PROVE  rank[d] < rank[c]
  <2>1. FartherThan(d) \subseteq FartherThan(c)
    <3> SUFFICES ASSUME NEW e \in FartherThan(d) PROVE e \in FartherThan(c) OBVIOUS
    <3>1. e \in classes BY <1>6
    <3>2. Away(e) > Away(d) \/ (Away(e) = Away(d) /\ e < d) BY <1>5, <3>1
    <3>3. Away(d) > Away(c) \/ (Away(d) = Away(c) /\ d < c) BY <1>5, <1>7
    <3>4. Away(c) \in Nat /\ Away(d) \in Nat /\ Away(e) \in Nat /\ c \in Nat /\ d \in Nat /\ e \in Nat
      BY <1>2, <1>4, <3>1
    <3>5. Away(e) > Away(c) \/ (Away(e) = Away(c) /\ e < c) BY <3>2, <3>3, <3>4
    <3> QED BY <1>5, <3>1, <3>5
  <2>2. d \notin FartherThan(d) /\ IsFiniteSet(FartherThan(c)) /\ IsFiniteSet(FartherThan(d)) BY <1>6
  <2>3. FartherThan(d) \subseteq FartherThan(c) \ {d} BY <2>1, <2>2
  <2>4. IsFiniteSet(FartherThan(c) \ {d}) /\ Cardinality(FartherThan(c) \ {d}) = Cardinality(FartherThan(c)) - 1
    BY <1>7, <2>2, FS_RemoveElement
  <2>5. Cardinality(FartherThan(d)) <= Cardinality(FartherThan(c)) - 1 BY <2>3, <2>4, FS_Subset
  <2>6. Cardinality(FartherThan(d)) \in Nat /\ Cardinality(FartherThan(c)) \in Nat BY <2>2, FS_CardinalityType
  <2> HIDE DEF FartherThan
  <2> QED BY <2>5, <2>6
<1>8. \A c \in classes : rank[c] \in ranks BY <1>6
<1>9. \A c, d \in classes : rank[c] = rank[d] => c = d
  <2> SUFFICES ASSUME NEW c \in classes, NEW d \in classes, c # d PROVE rank[c] # rank[d] OBVIOUS
  <2>1. d \in FartherThan(c) \/ c \in FartherThan(d) BY <1>2, <1>4, <1>5
  <2>2. rank[c] \in Nat /\ rank[d] \in Nat BY <1>3, <1>8
  <2> HIDE DEF rank, FartherThan
  <2> QED BY <1>7, <2>1, <2>2
<1>10. rank \in [classes -> ranks] BY <1>8
<1>11. \A c \in classes : rank[c] = Cardinality(AheadOf(b, classes, c)) OBVIOUS
<1> HIDE DEF rank, FartherThan
<1>12. IsFiniteSet(ranks) /\ Cardinality(ranks) = n BY <1>3, FS_Interval
<1>13. i - 1 \in ranks BY <1>3
<1> HIDE DEF ranks
<1>14. rank \in Injection(classes, ranks) BY <1>9, <1>10 DEF Injection, IsInjective
<1>15. rank \in Surjection(classes, ranks) BY <1>1, <1>12, <1>14, FS_Injection
<1>16. PICK c \in classes : rank[c] = i - 1 BY <1>13, <1>15 DEF Surjection
<1>17. Cardinality(AheadOf(b, classes, c)) = i - 1 BY <1>11, <1>16
<1> QED BY <1>1, <1>3, <1>17 DEF FarthestFirst

(* What is said of an order of these books.                                *)
OrderSound(b, o) ==
  LET p == b[o.holding]
      covered == SharesIn(o.lots)
  IN  /\ o.value <= MaxOrder
      /\ 10000 * o.value <= AbsOf(OffBy(b, o.class)) + Invested(b)
      /\ (o.side = "SELL") = (OffBy(b, o.class) > 0)
      /\ o.side = "SELL" =>
           /\ 10 * o.quantity <= p.quantity
           /\ covered <= 10 * o.quantity
           /\ covered < 10 * o.quantity => o.lots[Len(o.lots)].treatment = "unknown"
           /\ covered <= SharesIn(p.lots)

(* Whole shares for what the class is off come to no more than it, nor to  *)
(* more than the plan allows.                                              *)
LEMMA SharesWorth ==
  ASSUME NEW b \in Books, NEW c \in Classes, NEW h \in OfClass(b, c),
         PriceOf(b[h]) > 0, WholeShares(b, c, b[h]) > 0
  PROVE  LET q == WholeShares(b, c, b[h])
             d == DriftOf(b, c)
         IN  /\ q \in Nat /\ PriceOf(b[h]) \in Nat /\ q * PriceOf(b[h]) <= MaxOrder
             /\ 10000 * (q * PriceOf(b[h])) <= AbsOf(d) * Invested(b)
             /\ d > 0 => 10 * q <= b[h].quantity
             /\ Invested(b) # 0
<1>1. h \in DOMAIN b /\ b[h].value \in Nat BY BookTyped
<1>2. b[h].quantity \in Nat \ {0} /\ b[h].price \in Nat \cup {NoPrice} BY <1>1, BooksAssumption
<1>3. PICK price : price = PriceOf(b[h]) OBVIOUS
<1>4. price \in Nat \ {0}
  <2>1. CASE b[h].price # NoPrice BY <1>2, <1>3, <2>1 DEF PriceOf
  <2>2. CASE b[h].price = NoPrice
    <3>1. price = (10 * b[h].value) \div b[h].quantity BY <1>3, <2>2 DEF PriceOf
    <3>2. 10 * b[h].value \in Int BY <1>1
    <3>3. price \in Int BY <1>2, <3>1, <3>2, DivisionBounds
    <3> QED BY <1>3, <3>3
  <2> QED BY <2>1, <2>2
<1>5. PICK d, I, q, n : /\ d = DriftOf(b, c) /\ I = Invested(b) /\ q = WholeShares(b, c, b[h])
                        /\ n = b[h].quantity
  OBVIOUS
<1>6. d \in Int /\ I \in Nat /\ n \in Nat BY <1>2, <1>5, DriftIsNear
<1>7. PICK m : m = AbsOf(d) * I OBVIOUS
<1>8. m \in Nat BY <1>6, <1>7 DEF AbsOf
<1>9. PICK wanted, whole : wanted = m \div 10000 /\ whole = n \div 10 OBVIOUS
<1>10. /\ wanted \in Nat /\ 10000 * wanted <= m
       /\ whole \in Nat /\ 10 * whole <= n
  BY <1>6, <1>8, <1>9
<1>11. PICK money : money = IF wanted > MaxOrder THEN MaxOrder ELSE wanted OBVIOUS
<1>12. money \in Nat /\ money <= MaxOrder /\ money <= wanted BY <1>10, <1>11, PlanAssumption
<1>13. PICK shares : shares = money \div price OBVIOUS
<1>14. shares \in Int /\ price * shares <= money BY <1>4, <1>12, <1>13, DivisionBounds
<1>15. q = IF d > 0 /\ shares > whole THEN whole ELSE shares
  BY <1>3, <1>5, <1>7, <1>9, <1>11, <1>13 DEF WholeShares
<1>16. q > 0 BY <1>5
<1>17. q \in Nat /\ q <= shares /\ (d > 0 => q <= whole) BY <1>10, <1>14, <1>15, <1>16
<1>18. q * price <= money
  <2>1. PICK k : k = shares - q OBVIOUS
  <2>2. k \in Nat /\ shares = q + k BY <1>14, <1>17, <2>1
  <2>3. price * shares = q * price + k * price BY <1>4, <1>17, <2>2
  <2>4. k * price \in Nat /\ q * price \in Nat BY <1>4, <1>17, <2>2
  <2> QED BY <1>12, <1>14, <2>3, <2>4
<1>19. q * price \in Nat BY <1>4, <1>17
<1>20. q * price <= MaxOrder /\ 10000 * (q * price) <= m
  BY <1>10, <1>12, <1>18, <1>19, <1>8, PlanAssumption
<1>21. d > 0 => 10 * q <= n BY <1>6, <1>10, <1>17
<1>22. I # 0
  <2> SUFFICES ASSUME I = 0 PROVE FALSE OBVIOUS
  <2>1. m = 0 BY <1>6, <1>7 DEF AbsOf
  <2>2. q * price = 0 BY <1>19, <1>20, <2>1
  <2> QED BY <1>4, <1>16, <1>17, <2>2
<1> QED BY <1>3, <1>4, <1>5, <1>7, <1>17, <1>20, <1>21, <1>22

LEMMA OrderIsSound ==
  ASSUME NEW b \in Books, NEW c \in OutOfBand(b), OfClass(b, c) # {},
         PriceOf(b[Largest(b, c)]) > 0, WholeShares(b, c, b[Largest(b, c)]) > 0
  PROVE  OrderSound(b, Order(b, c))
<1>1. PICK h : h = Largest(b, c) OBVIOUS
<1>2. h \in OfClass(b, c) BY <1>1, LargestIn
<1>3. c \in Classes /\ AbsOf(DriftOf(b, c)) > Band BY DEF OutOfBand
<1>4. PICK q, price, d, I, off : /\ q = WholeShares(b, c, b[h]) /\ price = PriceOf(b[h])
                                 /\ d = DriftOf(b, c) /\ I = Invested(b) /\ off = OffBy(b, c)
  OBVIOUS
<1>5. /\ q \in Nat /\ price \in Nat /\ q * price <= MaxOrder
      /\ 10000 * (q * price) <= AbsOf(d) * I
      /\ d > 0 => 10 * q <= b[h].quantity
      /\ I # 0
  BY <1>1, <1>2, <1>3, <1>4, SharesWorth
<1>6. /\ d \in Int /\ off \in Int /\ I \in Nat
      /\ 2 * (I * d) - I <= 2 * off /\ 2 * off < 2 * (I * d) + I
  BY <1>3, <1>4, <1>5, DriftIsNear
<1>7. PICK o : o = Order(b, c) OBVIOUS
<1>8. o = [side |-> IF d > 0 THEN "SELL" ELSE "BUY", holding |-> h, class |-> c, quantity |-> q,
           value |-> q * price, lots |-> IF d > 0 THEN fifoLotTreatments(b[h].lots, 10 * q) ELSE << >>]
  BY <1>1, <1>4, <1>7 DEF Order
<1>9. /\ o.side = (IF d > 0 THEN "SELL" ELSE "BUY") /\ o.holding = h /\ o.class = c /\ o.quantity = q
      /\ o.value = q * price
      /\ d > 0 => o.lots = fifoLotTreatments(b[h].lots, 10 * q)
  BY <1>8
<1>10. PICK p : p = I * d OBVIOUS
<1>11. p \in Int /\ 2 * p - I <= 2 * off /\ 2 * off < 2 * p + I BY <1>6, <1>10
<1>12. d > 0 => p >= I
  <2> SUFFICES ASSUME d > 0 PROVE p >= I OBVIOUS
  <2>1. p = I + I * (d - 1) BY <1>6, <1>10
  <2>2. I * (d - 1) \in Nat BY <1>6
  <2> QED BY <1>6, <2>1, <2>2
<1>13. d < 0 => p <= - I
  <2> SUFFICES ASSUME d < 0 PROVE p <= - I OBVIOUS
  <2>1. p = - I - I * (- d - 1) BY <1>6, <1>10
  <2>2. I * (- d - 1) \in Nat BY <1>6
  <2> QED BY <1>6, <2>1, <2>2
<1>14. d # 0
  <2>1. AbsOf(d) > Band BY <1>3, <1>4
  <2>2. Band \in Nat BY PlanAssumption
  <2>3. d = 0 => AbsOf(d) = 0 BY DEF AbsOf
  <2> QED BY <2>1, <2>2, <2>3
<1>15. (d > 0) = (off > 0) BY <1>5, <1>6, <1>11, <1>12, <1>13, <1>14
<1>16. AbsOf(d) * I = AbsOf(p)
  <2>1. CASE d > 0
    <3>1. AbsOf(d) = d /\ AbsOf(p) = p BY <1>6, <1>11, <1>12, <2>1 DEF AbsOf
    <3> QED BY <1>6, <1>10, <3>1
  <2>2. CASE ~(d > 0)
    <3>1. AbsOf(d) = - d /\ p < 0 BY <1>5, <1>6, <1>11, <1>13, <1>14, <2>2 DEF AbsOf
    <3>2. AbsOf(p) = - p BY <1>11, <3>1 DEF AbsOf
    <3>3. (- d) * I = - (I * d) BY <1>6
    <3> QED BY <1>10, <3>1, <3>2, <3>3
  <2> QED BY <2>1, <2>2
<1>17. AbsOf(p) <= AbsOf(off) + I BY <1>6, <1>11 DEF AbsOf
<1>18. 10000 * o.value <= AbsOf(off) + I
  <2>1. PICK v : v = q * price OBVIOUS
  <2>2. v \in Nat BY <1>5, <2>1
  <2>3. AbsOf(off) \in Int /\ AbsOf(p) \in Int BY <1>6, <1>11 DEF AbsOf
  <2> QED BY <1>5, <1>6, <1>9, <1>16, <1>17, <2>1, <2>2, <2>3
<1>19. (o.side = "SELL") = (off > 0) BY <1>9, <1>15
<1>20. ASSUME o.side = "SELL"
       PROVE  /\ 10 * o.quantity <= b[h].quantity
              /\ SharesIn(o.lots) <= 10 * o.quantity
              /\ SharesIn(o.lots) < 10 * o.quantity => o.lots[Len(o.lots)].treatment = "unknown"
              /\ SharesIn(o.lots) <= SharesIn(b[h].lots)
  <2>1. d > 0 BY <1>9, <1>20
  <2>2. PICK lots, refs : lots = b[h].lots /\ refs = o.lots OBVIOUS
  <2>3. lots \in Seq(HeldLots)
    <3>1. h \in DOMAIN b BY <1>2, BookTyped
    <3> QED BY <2>2, <3>1, BooksAssumption
  <2>4. PICK n : n = 10 * q OBVIOUS
  <2>5. n \in Nat /\ refs = fifoLotTreatments(lots, n) BY <1>5, <1>9, <2>1, <2>2, <2>4
  <2>6. /\ SharesIn(refs) <= n /\ SharesIn(refs) <= SharesIn(lots)
        /\ SharesIn(refs) < n => refs[Len(refs)].treatment = "unknown"
    BY <2>3, <2>5, LotsAccount
  <2> QED BY <1>5, <1>9, <2>1, <2>2, <2>4, <2>6
<1> QED BY <1>4, <1>5, <1>7, <1>9, <1>18, <1>19, <1>20 DEF OrderSound

LEMMA OrdersAreSound ==
  ASSUME NEW b \in Books, NEW i \in DOMAIN CandidateOrders(b)
  PROVE  OrderSound(b, CandidateOrders(b)[i])
<1> DEFINE priced(c) == OfClass(b, c) # {} /\ PriceOf(b[Largest(b, c)]) > 0
           worth(c)  == priced(c) /\ WholeShares(b, c, b[Largest(b, c)]) > 0
<1>1. PICK S : S = {c \in OutOfBand(b) : worth(c)} OBVIOUS
<1>2. S \subseteq Classes /\ S \subseteq OutOfBand(b) BY <1>1 DEF OutOfBand
<1>3. PICK classes : classes = FarthestFirst(b, S) OBVIOUS
<1>4. CandidateOrders(b) = [j \in DOMAIN classes |-> Order(b, classes[j])]
  BY <1>1, <1>3 DEF CandidateOrders
<1>5. i \in DOMAIN classes /\ CandidateOrders(b)[i] = Order(b, classes[i]) BY <1>4
<1>6. classes[i] \in S BY <1>2, <1>3, <1>5, FarthestIn
<1>7. PICK c : c = classes[i] OBVIOUS
<1>8. c \in OutOfBand(b) /\ worth(c) BY <1>1, <1>6, <1>7
<1>9. OrderSound(b, Order(b, c)) BY <1>8, OrderIsSound
<1> QED BY <1>5, <1>7, <1>9

(* What the model was shown are the orders of the books as they are, while *)
(* nothing moves them, and what was drafted is one of those.               *)
DriftInv ==
  /\ books \in Books
  /\ draft # NoDraft => shown # NoDraft
  /\ shown # NoDraft /\ ~movedOn => shown = CandidateOrders(books)
  /\ DraftsTheShown

LEMMA DriftStart == DriftInit => DriftInv
BY DEF DriftInit, DriftInv, DraftsTheShown

LEMMA DriftStep == DriftInv /\ [DriftNext]_DriftVars => DriftInv'
<1> SUFFICES ASSUME DriftInv, [DriftNext]_DriftVars PROVE DriftInv' OBVIOUS
<1>1. CASE UNCHANGED DriftVars BY <1>1 DEF DriftVars, DriftInv, DraftsTheShown, CandidateOrders
<1>2. CASE marketDriftShown
  <2>1. PICK orders : orders = CandidateOrders(books) OBVIOUS
  <2>2. shown' = orders /\ draft = NoDraft /\ draft' = NoDraft /\ books' = books
    BY <1>2, <2>1 DEF marketDriftShown, DriftInv
  <2>3. CandidateOrders(books)' = orders BY <2>1, <2>2
  <2> QED BY <2>2, <2>3 DEF DriftInv, DraftsTheShown
<1>3. CASE BooksMove BY <1>3 DEF BooksMove, DriftInv, DraftsTheShown
<1>4. ASSUME NEW k, draftFromReply(k) PROVE DriftInv'
  <2>1. PICK orders : orders = CandidateOrders(books) OBVIOUS
  <2>2. /\ draft' = [order |-> orders[k], chosen |-> k] /\ shown # NoDraft
        /\ books' = books /\ shown' = shown /\ movedOn' = movedOn
    BY <1>4, <2>1 DEF draftFromReply, buildProposalDraft
  <2>3. CandidateOrders(books)' = orders BY <2>1, <2>2
  <2>4. ~movedOn => shown = orders BY <2>1, <2>2 DEF DriftInv
  <2>5. draft'.order = orders[k] /\ draft'.chosen = k BY <2>2
  <2>6. DraftsTheShown' BY <2>2, <2>4, <2>5 DEF DraftsTheShown
  <2> QED BY <2>2, <2>3, <2>4, <2>6 DEF DriftInv
<1> QED BY <1>1, <1>2, <1>3, <1>4 DEF DriftNext

LEMMA DriftSound == DriftInv => OrdersSound /\ DraftsTheShown
<1> SUFFICES ASSUME DriftInv PROVE OrdersSound BY DEF DriftInv
<1>1. PICK b : b = books OBVIOUS
<1>2. b \in Books BY <1>1 DEF DriftInv
<1>3. ASSUME NEW o \in Range(CandidateOrders(b)) PROVE OrderSound(b, o)
  <2>1. PICK i \in DOMAIN CandidateOrders(b) : o = CandidateOrders(b)[i] BY <1>3 DEF Range
  <2> QED BY <1>2, <2>1, OrdersAreSound
<1> QED BY <1>1, <1>3 DEF OrdersSound, OrderSound, OffBy

KeepsOperators ==
  \A l \in FeedLots :
    /\ normalized # Unknown /\ normalized' = Unknown
    /\ lotFact'[l] # lotFact[l] /\ lotFact[l] # Unknown
    /\ lotFact[l].by = "operator" /\ lotFact[l].quantity > 0 /\ lotFact'[l].quantity > 0
    /\ ~normalized.crossed /\ normalized.report.lots[l].cost = Unknown
    => LET was == lotFact[l] is == lotFact'[l]
       IN  /\ is.by = "operator" /\ is.acquired = was.acquired
           /\ 2 * (is.cost * was.quantity - was.cost * is.quantity)
                \in - was.quantity .. was.quantity

(* An edit leaves a night that waits waiting.                              *)
LEMMA EditsWait ==
  ASSUME LotsInv, normalized # Unknown, NEW lots, NEW cut, EditLots(lots, cut)
  PROVE  normalized' # Unknown
<1>1. normalized \in NightsFacts /\ normalized' = [normalized EXCEPT !.crossed = TRUE]
  BY DEF LotsInv, LotsTyped, EditLots
<1>2. normalized' \in NightsFacts BY <1>1 DEF NightsFacts
<1> QED BY <1>2, UnknownAssumption

(* A night that no edit crossed commits a lot as its report, and the lot in*)
(* force, make it.                                                         *)
LEMMA NightsLot ==
  ASSUME LotsInv, CommitHolding, ~normalized.crossed, NEW l \in FeedLots,
         lotFact'[l] # lotFact[l], lotFact'[l].quantity > 0
  PROVE  LET r == normalized.report
         IN  /\ r \in LotReports /\ r.lots # NoLots /\ l \in DOMAIN r.lots
             /\ lotFact'[l] = EffectiveLot(l, r.lots[l], lotsClock)
<1>1. normalized # Unknown /\ normalized \in NightsFacts
      /\ normalized.lots = LotFacts(normalized.report, lotsClock)
  BY DEF LotsInv, LotsTyped, NightStands, CommitHolding
<1> DEFINE r == normalized.report
<1>2. r \in LotReports BY <1>1 DEF NightsFacts
<1>3. l \in DOMAIN normalized.lots /\ lotFact'[l] = normalized.lots[l]
  BY DEF CommitHolding, InForce, LotIds
<1>4. r.listed /\ r.lots # NoLots
  <2>1. ~r.listed \/ r.lots = NoLots => LotFacts(r, lotsClock) = [k \in {} |-> Unknown] BY DEF LotFacts
  <2>2. DOMAIN [k \in {} |-> Unknown] = {} OBVIOUS
  <2> QED BY <1>1, <1>3, <2>1, <2>2, ReportsAssumption, <1>2
<1> DEFINE listed == DOMAIN r.lots
           changed == {k \in listed : ~sameLot(lotFact[k], EffectiveLot(k, r.lots[k], lotsClock))}
           gone == LiveIn(lotFact) \ listed
           facts == [k \in changed \cup gone |->
                       IF k \in listed THEN EffectiveLot(k, r.lots[k], lotsClock)
                                       ELSE [lotFact[k] EXCEPT !.quantity = 0, !.at = lotsClock]]
<1>5. LotFacts(r, lotsClock) = facts BY <1>4 DEF LotFacts
<1>6. l \in changed \cup gone /\ lotFact'[l] = facts[l]
  BY <1>1, <1>3, <1>5
<1>7. l \in listed
  <2> SUFFICES ASSUME l \notin listed PROVE FALSE OBVIOUS
  <2>1. l \in LiveIn(lotFact) /\ lotFact'[l] = [lotFact[l] EXCEPT !.quantity = 0, !.at = lotsClock]
    BY <1>6
  <2>2. lotFact[l] \in Lot BY <2>1 DEF LiveIn, LotsInv, LotsTyped, KnownLot
  <2>3. lotFact'[l].quantity = 0 BY <2>1, <2>2 DEF Lot
  <2> QED BY <2>3
<1>8. lotFact'[l] = EffectiveLot(l, r.lots[l], lotsClock) BY <1>6, <1>7
<1> HIDE DEF listed, r
<1> QED BY <1>2, <1>4, <1>7, <1>8 DEF listed, r

LEMMA OperatorIsKept == LotsInv /\ [LotsNext]_LotsVars => [KeepsOperators]_LotsVars
<1> SUFFICES ASSUME LotsInv, LotsNext, NEW l \in FeedLots,
                    normalized # Unknown, normalized' = Unknown,
                    lotFact'[l] # lotFact[l], lotFact[l] # Unknown,
                    lotFact[l].by = "operator", lotFact[l].quantity > 0, lotFact'[l].quantity > 0,
                    ~normalized.crossed, normalized.report.lots[l].cost = Unknown
             PROVE  /\ lotFact'[l].by = "operator" /\ lotFact'[l].acquired = lotFact[l].acquired
                    /\ 2 * (lotFact'[l].cost * lotFact[l].quantity - lotFact[l].cost * lotFact'[l].quantity)
                         \in - lotFact[l].quantity .. lotFact[l].quantity
  BY DEF KeepsOperators
<1>1. CommitHolding
  <2>1. ASSUME NEW r \in LotReports, NormalizeHolding(r) PROVE FALSE BY <2>1 DEF NormalizeHolding
  <2>2. ASSUME NEW lots, NEW cut, EditLots(lots, cut) PROVE FALSE BY <2>2, EditsWait
  <2>3. ASSUME NEW ids, NEW perUnit, NEW amount, NEW day, NEW cut,
               setLotBasis(ids, perUnit, amount, day, cut)
        PROVE  FALSE
    BY <2>3, <2>2 DEF setLotBasis
  <2>4. ASSUME NEW i \in DOMAIN LotRows, NEW perUnit, NEW amount, NEW day, NEW cut,
               setLotBasis(LotRows[i].lots, perUnit, amount, day, cut)
        PROVE  FALSE
    <3>1. PICK ids : ids = LotRows[i].lots OBVIOUS
    <3> QED BY <2>3, <2>4, <3>1
  <2>5. ASSUME NEW quantity, NEW amount, NEW day, NEW cut, addLot(quantity, amount, day, cut) PROVE FALSE
    BY <2>5, <2>2 DEF addLot
  <2> QED BY <2>1, <2>4, <2>5 DEF LotsNext
<1> DEFINE was == lotFact[l]
           is == lotFact'[l]
<1>2. PICK r : r = normalized.report OBVIOUS
<1>3. /\ r \in LotReports /\ r.lots # NoLots /\ l \in DOMAIN r.lots
      /\ is = EffectiveLot(l, r.lots[l], lotsClock)
  BY <1>1, <1>2, NightsLot
<1>4. was \in KnownLot /\ was \in Lot BY DEF LotsInv, LotsTyped, KnownLot, LotIds
<1>5. was.quantity \in Nat \ {0} /\ was.cost \in Int BY <1>4 DEF KnownLot, Lot
<1>6. r.lots[l].quantity \in Nat BY <1>3, ReportsAssumption DEF Listings
<1>7. is = [quantity |-> r.lots[l].quantity, cost |-> CarriedBasis(was, r.lots[l].quantity),
            acquired |-> was.acquired, by |-> "operator", at |-> lotsClock]
  BY <1>2, <1>3, <1>5, UnknownAssumption DEF EffectiveLot
<1> HIDE DEF was, is
<1>8. PICK n : n = r.lots[l].quantity OBVIOUS
<1>9. PICK w, c : w = was.quantity /\ c = was.cost OBVIOUS
<1>10. PICK k : k = RoundedRatio(c * n, w) OBVIOUS
<1>11. n \in Nat /\ w \in Nat \ {0} /\ c \in Int BY <1>5, <1>6, <1>8, <1>9
<1>12. c * n \in Int BY <1>11
<1>13. k \in Int /\ 2 * (w * k - c * n) \in (-w) .. w BY <1>10, <1>11, <1>12, Rounding
<1>14. is.cost = k /\ is.quantity = n /\ is.by = "operator" /\ is.acquired = was.acquired
  BY <1>7, <1>8, <1>9, <1>10 DEF CarriedBasis
<1>15. k * w = w * k BY <1>11, <1>13
<1>16. 2 * (is.cost * was.quantity - was.cost * is.quantity) \in - was.quantity .. was.quantity
  BY <1>9, <1>13, <1>14, <1>15
<1> QED BY <1>14, <1>16 DEF was, is

-----------------------------------------------------------------------------
(* The books.                                                              *)

BooksVars == <<part, vars, LotsVars, TransfersVars, DriftVars, EstateVars, TaxFiguresVars, DetectorsVars>>

BooksInv ==
  /\ part = "ledger" => LedgerInv
  /\ part = "lots" => LotsInv
  /\ part = "transfers" => TransfersInv
  /\ part = "drift" => DriftInv
  /\ part = "estate" => EstateInv
  /\ part = "detectors" => DetectorsInv

LEMMA BooksStart == BooksInit => BooksInv
BY LedgerStart, LotsStart, TransfersStart, DriftStart, EstateStart, DetectorsStart DEF BooksInit, BooksInv

(* A step of the books is one of the part that moves, for the others none. *)
LEMMA PartMoves ==
  ASSUME [BooksNext]_BooksVars
  PROVE  /\ part' = part
         /\ [Next]_vars /\ (part # "ledger" => UNCHANGED vars)
         /\ [LotsNext]_LotsVars /\ (part # "lots" => UNCHANGED LotsVars)
         /\ (part = "transfers" => [TransfersNext]_TransfersVars)
         /\ (part = "drift" => [DriftNext]_DriftVars)
         /\ (part = "estate" => [EstateNext]_EstateVars)
         /\ (part = "detectors" => [DetectorsNext]_DetectorsVars)
<1>1. CASE UNCHANGED BooksVars BY <1>1 DEF BooksVars
<1>2. CASE BooksNext BY <1>2 DEF BooksNext, Others, Elsewhere
<1> QED BY <1>1, <1>2

LEMMA BooksStep == BooksInv /\ [BooksNext]_BooksVars => BooksInv'
<1> SUFFICES ASSUME BooksInv, [BooksNext]_BooksVars PROVE BooksInv' OBVIOUS
<1>1. part' = part BY PartMoves
<1>2. CASE part = "ledger" BY <1>1, <1>2, PartMoves, LedgerStep DEF BooksInv
<1>3. CASE part = "lots" BY <1>1, <1>3, PartMoves, LotsStep DEF BooksInv
<1>4. CASE part = "transfers" BY <1>1, <1>4, PartMoves, TransfersStep DEF BooksInv
<1>5. CASE part = "estate" BY <1>1, <1>5, PartMoves, EstateStep DEF BooksInv
<1>6. CASE part = "detectors" BY <1>1, <1>6, PartMoves, DetectorsStep DEF BooksInv
<1>7. CASE part = "drift" BY <1>1, <1>7, PartMoves, DriftStep DEF BooksInv
<1>8. CASE part \notin {"ledger", "lots", "transfers", "drift", "estate", "detectors"} BY <1>1, <1>8 DEF BooksInv
<1> QED BY <1>2, <1>3, <1>4, <1>5, <1>6, <1>7, <1>8

LEMMA BooksAlways == BooksSpec => []BooksInv
<1>1. BooksSpec => BooksInit /\ [][BooksNext]_BooksVars BY DEF BooksSpec, BooksVars
<1> QED BY <1>1, BooksStart, BooksStep, PTL

(* Whatever is committed, re-committed and superseded, for any payloads    *)
(* and times: a row belongs to one batch, whole and by its writer, and a   *)
(* thing once observed has an answer as of every later observation.        *)
THEOREM BatchesAndAnswers ==
  BooksSpec => [](part = "ledger" => BatchesPartition /\ Answered)
<1>1. BooksInv => (part = "ledger" => BatchesPartition /\ Answered)
  BY LedgerAnswers DEF BooksInv, LedgerInv
<1> QED BY <1>1, BooksAlways, PTL

(* What the ledger says as of a past observation is changed by no batch of *)
(* later facts, and a basis the operator entered outlives every report     *)
(* that has none, in proportion and to half a cent, with its date.         *)
THEOREM NothingIsRewritten == BooksSpec => NothingRewritten
<1>1. BooksInv /\ [BooksNext]_BooksVars => [StandsSince]_vars
  <2> SUFFICES ASSUME BooksInv, [BooksNext]_BooksVars PROVE [StandsSince]_vars OBVIOUS
  <2>1. CASE part = "ledger" BY <2>1, PartMoves, PastIsKept DEF BooksInv
  <2>2. CASE part # "ledger" BY <2>2, PartMoves
  <2> QED BY <2>1, <2>2
<1>2. BooksInv /\ [BooksNext]_BooksVars => [KeepsOperators]_LotsVars
  <2> SUFFICES ASSUME BooksInv, [BooksNext]_BooksVars PROVE [KeepsOperators]_LotsVars OBVIOUS
  <2>1. CASE part = "lots" BY <2>1, PartMoves, OperatorIsKept DEF BooksInv
  <2>2. CASE part # "lots" BY <2>2, PartMoves
  <2> QED BY <2>1, <2>2
<1>3. BooksSpec => [][BooksNext]_BooksVars BY DEF BooksSpec, BooksVars
<1>4. BooksSpec => PastStands
  BY <1>1, <1>3, BooksAlways, PTL DEF PastStands, StandsSince
<1>5. BooksSpec => OperatorKept
  BY <1>2, <1>3, BooksAlways, PTL DEF OperatorKept, KeepsOperators
<1> QED BY <1>4, <1>5 DEF NothingRewritten

(* What is asked is what the books say.  For any movements and nights no   *)
(* movement is a leg of two pairs of a night, nor, once paired on the      *)
(* night that reports it, of any later one (a row that is found a partner  *)
(* later is not marked, and may be), and no pair is missed; for any files  *)
(* the registry is the file last synced, one gap is one open question, and an  *)
(* audit that leaves none means that plan and reality agree; and however   *)
(* nights, evenings and answers follow one another, once a night that      *)
(* nothing crossed is recorded the queue tells the truth, each condition   *)
(* once.                                                                   *)
THEOREM QuestionsAreTrue == BooksSpec => []QuestionsTrue
<1>1. BooksInv => QuestionsTrue
  BY CleanIsMatched DEF BooksInv, QuestionsTrue, TransfersInv, EstateInv, DetectorsInv
<1> QED BY <1>1, BooksAlways, PTL

(* Whatever the books hold and however they move, an order moves its class *)
(* towards the plan by no more than it is off, a sale is of shares the     *)
(* holding has and says which lots it consumes or that it cannot, and what *)
(* is drafted is what the model was shown.                                 *)
THEOREM OrdersAreTrue == BooksSpec => []OrdersTrue
<1>1. BooksInv => OrdersTrue BY DriftSound DEF BooksInv, OrdersTrue
<1> QED BY <1>1, BooksAlways, PTL
===============================================================================
