--------------------------- MODULE Connections_proofs ---------------------------
(***************************************************************************)
(* Proofs about the household's connections.  What happens between two     *)
(* awaits is a list of effects that may end anywhere, so the invariant says*)
(* what each of its remainders may rely on; the figures are kept apart by  *)
(* the act that dates them, the logins by having been finished once.       *)
(***************************************************************************)
EXTENDS Connections, FiniteSetTheorems, SequenceTheorems, WellFoundedInduction, TLAPS

-----------------------------------------------------------------------------
(* What is left of an operation.                                           *)

Begins(x, e) == x # <<>> /\ Head(x) = e
Ends(x, e) == Begins(x, e) /\ Tail(x) = <<>>

RefreshLast(x) == Ends(x, "refresh")
SecondPlan(x) == Begins(x, "second") /\ RefreshLast(Tail(x))
SecretPlan(x) == Begins(x, "secret") /\ (RefreshLast(Tail(x)) \/ SecondPlan(Tail(x)))
SnapshotPlan(x) == Begins(x, "snapshot") /\ (Tail(x) = <<>> \/ RefreshLast(Tail(x)))
ManagedPlan(x) == Begins(x, "managed") /\ SnapshotPlan(Tail(x))
EntryPlan(x) ==
  /\ Begins(x, "entry")
  /\ Tail(x) = <<>> \/ RefreshLast(Tail(x)) \/ SecretPlan(Tail(x)) \/ ManagedPlan(Tail(x))
RemovePlan(x) == Ends(x, "remove")
ClosePlan(x) == Begins(x, "close") /\ RemovePlan(Tail(x))
TokensPlan(x) == Begins(x, "tokens") /\ (Tail(x) = <<>> \/ ClosePlan(Tail(x)))

-----------------------------------------------------------------------------
(* What is known while it is left.                                         *)

Owns(adapter, part) == part \in connectionSecretAccounts(adapter)
Storing(x, adapter) ==
  \/ SecondPlan(x) /\ Owns(adapter, 2)
  \/ SecretPlan(x) /\ Owns(adapter, 1) /\ (SecondPlan(Tail(x)) => Owns(adapter, 2))
Telling(x) == ManagedPlan(x) \/ SnapshotPlan(x)

(* Nothing in the books, or on its way to them, is as new as this act.     *)
Fresh(i) ==
  /\ books[i].at < acts
  /\ \A r \in runs : r.id = i /\ r.snap # NoValue => r.snap.at < acts

(* The connection is still to be made: nothing is kept under its id.       *)
Making(i, x) ==
  /\ EntryPlan(x)
  /\ i \notin Registered /\ tokens[i] = {}
  /\ \A j \in Registered : Keys(entries[j].holdings) \cap Keys(op.holdings) = {}
  /\ SecretPlan(Tail(x)) => Storing(Tail(x), op.adapter)
  /\ ManagedPlan(Tail(x)) => Fresh(i)
  /\ op.adapter = "managed" <=> ManagedPlan(Tail(x))

(* The connection is there.  What its removal has done stands.             *)
Keeping(i, x) ==
  /\ i \in Registered /\ entries[i].adapter = op.adapter
  /\ \/ Storing(x, op.adapter)
     \/ RefreshLast(x)
     \/ Telling(x) /\ op.adapter = "managed" /\ Fresh(i)
     \/ TokensPlan(x)
     \/ ClosePlan(x) /\ tokens[i] = {}
     \/ /\ RemovePlan(x) /\ tokens[i] = {}
        /\ i \notin late => books[i].amount = NoValue /\ \A r \in runs : r.id # i

Underway(i, x) == Making(i, x) \/ Keeping(i, x)

Ops == [id : Ids \cup {NoValue}, adapter : Adapters, flow : Flows, account : Accounts,
        holdings : SUBSET Addresses, todo : Seq(Effects)]
OpInv ==
  /\ op \in Ops
  /\ Idle => op = NoOp
  /\ ~Idle => op.id \in Ids /\ Underway(op.id, op.todo)

-----------------------------------------------------------------------------
(* Nothing is dated after the last act.                                    *)
Dated ==
  /\ \A i \in Ids : books[i].at <= acts /\ (inbox[i] # NoValue => inbox[i].at <= acts)
  /\ \A r \in runs : r.snap # NoValue => r.snap.at <= acts

(* Refreshes of what is removed were in flight over the removal.           *)
LateRuns == \A r \in runs : r.id \in Registered \/ r.id \in late

(* The newest file of a connection kept by hand has the figure typed in,   *)
(* and so has whatever was read from that file.                            *)
Kept(i) == i \in Registered /\ entries[i].adapter = "managed" /\ i \notin cut
Pending(i) == ~Idle /\ op.id = i /\ Telling(op.todo)
Told(i) ==
  /\ inbox[i] # NoValue /\ inbox[i].amount = Figure(managed[i])
  /\ \A r \in runs : r.id = i /\ r.snap # NoValue /\ r.snap.at = inbox[i].at => r.snap.amount = inbox[i].amount
  /\ books[i].at = inbox[i].at /\ books[i].amount # NoValue /\ inbox[i].amount # NoValue
       => books[i].amount = inbox[i].amount
FiguresTold == \A i \in Ids : Kept(i) /\ ~Pending(i) => Told(i)

(* A login that is not finished twice is in one place at a time, and makes *)
(* nothing once it has failed.                                             *)
FlowOf(f) ==
  /\ f \in Flows /\ f.link \in Links
  /\ f.link \notin twice =>
       /\ links[f.link].stage # "spent"
       /\ f.auto > 0 => links[f.link].stage = "finished"
       /\ \A g \in flows : g.link = f.link => g = f
Failed(l) ==
  l \notin twice => links[l].stage = "spent" /\ l \notin made /\ op.flow.link # l
LoginsOnce ==
  /\ \A l \in made : links[l].stage = "spent"
  /\ op.flow.link # NoValue => op.flow.link \in Links /\ links[op.flow.link].stage = "spent"
  /\ \A f \in flows : FlowOf(f)
  /\ pendingPlaid # NoValue /\ pendingPlaid.state = "failed" => Failed(pendingPlaid.link)

Types == TypeOK /\ IsFiniteSet(runs)
Listed == TokensListed /\ WatchedOnce /\ RemovedIsShut /\ LateRuns
IInv == Types /\ OpInv /\ Listed /\ Dated /\ FiguresTold /\ LoginsOnce

-----------------------------------------------------------------------------
(* Ids and places in the list.                                             *)

LEMMA IdsAreNumbers == Ids \subseteq Nat /\ IsFiniteSet(Ids)
BY FS_Interval, BoundsAssumption DEF Ids

(* A set of numbers that has any has a least.                              *)
LEMMA LeastNumber ==
  ASSUME NEW S, S \subseteq Nat, S # {}
  PROVE  \E i \in S : \A j \in S : i <= j
<1> DEFINE F == {1 .. i : i \in S}
           R == StrictSubsetOrdering(Nat)
<1>1. F \subseteq FiniteSubsetsOf(Nat) /\ F # {}
  <2>1. ASSUME NEW i \in S PROVE 1 .. i \in FiniteSubsetsOf(Nat)
    BY FS_Interval DEF FiniteSubsetsOf
  <2> QED BY <2>1
<1>2. PICK x \in F : \A y \in F : <<y, x>> \notin R
  <2>1. IsWellFoundedOn(R, FiniteSubsetsOf(Nat)) BY FS_StrictSubsetOrderingWellFounded
  <2> HIDE DEF R, F
  <2> QED BY <1>1, <2>1, WFMin
<1>3. PICK i \in S : x = 1 .. i BY <1>2
<1>4. ASSUME NEW j \in S PROVE i <= j
  <2>1. i \in Nat /\ j \in Nat OBVIOUS
  <2>2. <<1 .. j, x>> \notin R BY <1>2
  <2>3. ASSUME j < i PROVE FALSE
    <3>1. 1 .. j \subseteq 1 .. i BY <2>1, <2>3
    <3>2. i \in 1 .. i /\ i \notin 1 .. j BY <2>1, <2>3
    <3>3. 1 .. j \in SUBSET Nat /\ 1 .. i \in SUBSET Nat BY <2>1
    <3> QED BY <2>2, <1>3, <3>1, <3>2, <3>3 DEF StrictSubsetOrdering
  <2> QED BY <2>1, <2>3
<1> QED BY <1>4

LEMMA FreeId ==
  ASSUME FreeIds # {}
  PROVE  institutionIdFor \in Ids /\ institutionIdFor \notin Registered
<1>1. FreeIds \subseteq Nat BY IdsAreNumbers DEF FreeIds
<1>2. \E i \in FreeIds : \A j \in FreeIds : i <= j BY <1>1, LeastNumber
<1>3. institutionIdFor \in FreeIds BY <1>2 DEF institutionIdFor
<1> QED BY <1>3 DEF FreeIds

(* The list names each entry once.                                         *)
Lists(s, R) == s \in Seq(Ids) /\ ToSet(s) = R /\ Len(s) = Cardinality(R)

LEMMA RegisteredFinite == Registered \subseteq Ids /\ IsFiniteSet(Registered)
BY IdsAreNumbers, FS_Subset DEF Registered

LEMMA ListedOnce ==
  ASSUME NEW s, NEW R, R \subseteq Ids, Lists(s, R)
  PROVE  \A j, k \in 1 .. Len(s) : s[j] = s[k] => j = k
<1>1. s \in Seq(Ids) /\ DOMAIN s = 1 .. Len(s) /\ Len(s) \in Nat BY DEF Lists
<1>2. s \in [1 .. Len(s) -> R]
  <2>1. \A k \in 1 .. Len(s) : s[k] \in R BY <1>1 DEF Lists, ToSet
  <2> QED BY <1>1, <2>1
<1>3. s \in Surjection(1 .. Len(s), R)
  <2>1. \A i \in R : \E k \in 1 .. Len(s) : s[k] = i BY <1>1 DEF Lists, ToSet
  <2> QED BY <1>2, <2>1 DEF Surjection
<1>4. IsFiniteSet(1 .. Len(s)) /\ Cardinality(1 .. Len(s)) = Len(s) BY <1>1, FS_Interval
<1>5. IsFiniteSet(R) BY IdsAreNumbers, FS_Subset
<1>6. Cardinality(1 .. Len(s)) = Cardinality(R) BY <1>4 DEF Lists
<1>7. s \in Injection(1 .. Len(s), R) BY <1>3, <1>4, <1>6, FS_SurjSameCardinalityImpliesInj
<1> QED BY <1>7 DEF Injection, IsInjective

LEMMA AppendLists ==
  ASSUME NEW s, NEW R, R \subseteq Ids, Lists(s, R), NEW i \in Ids, i \notin R
  PROVE  Lists(Append(s, i), R \cup {i})
<1>1. s \in Seq(Ids) /\ DOMAIN s = 1 .. Len(s) /\ Len(s) \in Nat BY DEF Lists
<1>2. IsFiniteSet(R) BY IdsAreNumbers, FS_Subset
<1>3. Cardinality(R \cup {i}) = Cardinality(R) + 1 BY <1>2, FS_AddElement
<1>4. Append(s, i) \in Seq(Ids) /\ Len(Append(s, i)) = Len(s) + 1 BY <1>1
<1>5. DOMAIN Append(s, i) = 1 .. (Len(s) + 1) BY <1>1, <1>4
<1>6. \A k \in 1 .. Len(s) : Append(s, i)[k] = s[k] BY <1>1
<1>7. Append(s, i)[Len(s) + 1] = i BY <1>1
<1>8. ToSet(Append(s, i)) = ToSet(s) \cup {i}
  <2>1. ASSUME NEW j \in ToSet(Append(s, i)) PROVE j \in ToSet(s) \cup {i}
    <3>1. PICK k \in 1 .. (Len(s) + 1) : j = Append(s, i)[k] BY <2>1, <1>5 DEF ToSet
    <3>2. CASE k = Len(s) + 1 BY <3>1, <3>2, <1>7
    <3>3. CASE k # Len(s) + 1
      <4>1. k \in 1 .. Len(s) BY <3>3, <1>1
      <4> QED BY <3>1, <4>1, <1>6, <1>1 DEF ToSet
    <3> QED BY <3>2, <3>3
  <2>2. ASSUME NEW j \in ToSet(s) PROVE j \in ToSet(Append(s, i))
    <3>1. PICK k \in 1 .. Len(s) : j = s[k] BY <2>2, <1>1 DEF ToSet
    <3>2. k \in 1 .. (Len(s) + 1) BY <1>1
    <3> QED BY <3>1, <3>2, <1>5, <1>6 DEF ToSet
  <2>3. i \in ToSet(Append(s, i))
    <3>1. Len(s) + 1 \in 1 .. (Len(s) + 1) BY <1>1
    <3> QED BY <3>1, <1>5, <1>7 DEF ToSet
  <2> QED BY <2>1, <2>2, <2>3
<1> QED BY <1>3, <1>4, <1>8 DEF Lists

LEMMA RemoveLists ==
  ASSUME NEW s, NEW R, R \subseteq Ids, Lists(s, R), NEW k \in DOMAIN s
  PROVE  Lists(RemoveAt(s, k), R \ {s[k]})
<1> DEFINE n == Len(s)
           t == RemoveAt(s, k)
<1>1. s \in Seq(Ids) /\ DOMAIN s = 1 .. n /\ n \in Nat /\ k \in 1 .. n BY DEF Lists
<1>2. IsFiniteSet(R) BY IdsAreNumbers, FS_Subset
<1>3. s[k] \in R BY DEF Lists, ToSet
<1>4. Cardinality(R \ {s[k]}) = Cardinality(R) - 1 BY <1>2, <1>3, FS_RemoveElement
<1>5. /\ SubSeq(s, 1, k - 1) \in Seq(Ids) /\ Len(SubSeq(s, 1, k - 1)) = k - 1
      /\ SubSeq(s, k + 1, n) \in Seq(Ids) /\ Len(SubSeq(s, k + 1, n)) = n - k
  BY <1>1, SubSeqProperties
<1>6. \A j \in 1 .. (k - 1) : SubSeq(s, 1, k - 1)[j] = s[j] BY <1>1, SubSeqProperties
<1>7. \A j \in 1 .. (n - k) : SubSeq(s, k + 1, n)[j] = s[k + j] BY <1>1, SubSeqProperties
<1>8. t \in Seq(Ids) /\ Len(t) = n - 1
  <2>1. t = SubSeq(s, 1, k - 1) \o SubSeq(s, k + 1, n) BY DEF RemoveAt
  <2>2. t \in Seq(Ids) /\ Len(t) = (k - 1) + (n - k) BY <2>1, <1>5, ConcatProperties
  <2> QED BY <2>2, <1>1
<1>9. \A j \in 1 .. (n - 1) : t[j] = IF j < k THEN s[j] ELSE s[j + 1]
  <2>1. ASSUME NEW j \in 1 .. (n - 1) PROVE t[j] = IF j < k THEN s[j] ELSE s[j + 1]
    <3>1. t[j] = IF j <= k - 1 THEN SubSeq(s, 1, k - 1)[j] ELSE SubSeq(s, k + 1, n)[j - (k - 1)]
      BY <1>1, <1>5, ConcatProperties DEF RemoveAt
    <3>2. CASE j < k BY <3>1, <3>2, <1>1, <1>6
    <3>3. CASE ~(j < k)
      <4>1. j - (k - 1) \in 1 .. (n - k) /\ k + (j - (k - 1)) = j + 1 BY <3>3, <1>1
      <4>2. t[j] = SubSeq(s, k + 1, n)[j - (k - 1)] BY <3>1, <3>3, <1>1
      <4> QED BY <4>1, <4>2, <1>7, <3>3
    <3> QED BY <3>2, <3>3
  <2> QED BY <2>1
<1>10. DOMAIN t = 1 .. (n - 1) BY <1>8, <1>1
<1> HIDE DEF t
<1>11. ASSUME NEW i \in ToSet(t) PROVE i \in R \ {s[k]}
  <2>1. PICK j \in 1 .. (n - 1) : i = t[j] BY <1>10, <1>11 DEF ToSet
  <2>2. PICK m \in 1 .. n : m # k /\ i = s[m]
    <3>1. CASE j < k
      <4>1. j \in 1 .. n /\ j # k BY <3>1, <1>1
      <4> QED BY <4>1, <3>1, <2>1, <1>9
    <3>2. CASE ~(j < k)
      <4>1. j + 1 \in 1 .. n /\ j + 1 # k BY <3>2, <1>1
      <4> QED BY <4>1, <3>2, <2>1, <1>9
    <3> QED BY <3>1, <3>2
  <2>3. i \in R BY <2>2, <1>1 DEF Lists, ToSet
  <2>4. i # s[k] BY <2>2, <1>1, ListedOnce
  <2> QED BY <2>3, <2>4
<1>12. ASSUME NEW i \in R \ {s[k]} PROVE i \in ToSet(t)
  <2>1. PICK m \in 1 .. n : i = s[m] BY <1>1 DEF Lists, ToSet
  <2>2. m # k BY <2>1
  <2>3. \E j \in 1 .. (n - 1) : i = t[j]
    <3>1. CASE m < k
      <4>1. m \in 1 .. (n - 1) BY <3>1, <1>1
      <4> QED BY <4>1, <3>1, <2>1, <1>9
    <3>2. CASE ~(m < k)
      <4>1. m - 1 \in 1 .. (n - 1) /\ ~(m - 1 < k) /\ (m - 1) + 1 = m BY <3>2, <2>2, <1>1
      <4> QED BY <4>1, <2>1, <1>9
    <3> QED BY <3>1, <3>2
  <2> QED BY <2>3, <1>10 DEF ToSet
<1>13. ToSet(t) = R \ {s[k]} BY <1>11, <1>12
<1>14. Lists(t, R \ {s[k]})
  BY <1>4, <1>8, <1>13 DEF Lists
<1> QED BY <1>14 DEF t

(* The listed ids trade places among themselves.                           *)
LEMMA ReorderedLists ==
  ASSUME NEW R, R \subseteq Ids, Lists(order, R), NEW S \in SUBSET R, NEW list \in SetToSeqs(S)
  PROVE  Lists(Reordered(list), R)
<1> DEFINE n == Len(order)
           m == Cardinality(S)
           At(k) == {s \in 1 .. k : order[s] \in S}
           P == {k \in 1 .. n : order[k] \in S}
           f == [k \in P |-> order[k]]
           g == [k \in P |-> Cardinality(At(k))]
           t == Reordered(list)
<1>1. order \in Seq(Ids) /\ DOMAIN order = 1 .. n /\ n \in Nat BY DEF Lists
<1>2. IsFiniteSet(S) /\ m \in Nat
  <2>1. IsFiniteSet(R) BY IdsAreNumbers, FS_Subset
  <2> QED BY <2>1, FS_Subset, FS_CardinalityType
<1>3. list \in Injection(1 .. m, S) BY DEF SetToSeqs, Injection, IsInjective
<1>4. IsFiniteSet(1 .. m) /\ Cardinality(1 .. m) = m BY <1>2, FS_Interval
<1>5. list \in [1 .. m -> S] BY <1>3 DEF Injection
<1>6. ToSet(list) = S
  <2>1. list \in Surjection(1 .. m, S) BY <1>2, <1>3, <1>4, FS_Injection
  <2> QED BY <2>1, <1>5 DEF Surjection, ToSet
<1>7. \A i \in S : \E k \in P : order[k] = i BY <1>1 DEF Lists, ToSet
<1>8. IsFiniteSet(P) /\ Cardinality(P) = m
  <2>1. IsFiniteSet(P)
    <3>1. IsFiniteSet(1 .. n) BY <1>1, FS_Interval
    <3>2. P \in SUBSET (1 .. n) OBVIOUS
    <3> QED BY <3>1, <3>2, FS_Subset
  <2>2. \A j, k \in P : order[j] = order[k] => j = k BY ListedOnce, <1>1
  <2>3. f \in [P -> S] OBVIOUS
  <2>4. f \in Injection(P, S)
    <3>1. \A j, k \in P : f[j] = f[k] => j = k BY <2>2
    <3> QED BY <2>3, <3>1 DEF Injection, IsInjective
  <2>5. f \in Surjection(P, S)
    <3>1. \A i \in S : \E k \in P : f[k] = i BY <1>7
    <3> QED BY <2>3, <3>1 DEF Surjection
  <2>6. ExistsBijection(P, S) BY <2>4, <2>5 DEF ExistsBijection, Bijection
  <2> QED BY <2>1, <2>6, FS_Bijection
<1>9. \A k \in P : At(k) \subseteq P /\ k \in At(k) BY <1>1
<1>10. \A k \in P : IsFiniteSet(At(k)) /\ Cardinality(At(k)) \in 1 .. m
  <2>1. ASSUME NEW k \in P PROVE IsFiniteSet(At(k)) /\ Cardinality(At(k)) \in 1 .. m
    <3> DEFINE A == At(k)
    <3>1. A \subseteq P /\ A # {} BY <1>9
    <3> HIDE DEF A, P, m
    <3>2. IsFiniteSet(A) /\ Cardinality(A) <= m BY <3>1, <1>8, FS_Subset
    <3>3. Cardinality(A) \in Nat /\ Cardinality(A) # 0 BY <3>1, <3>2, FS_CardinalityType, FS_EmptySet
    <3>4. Cardinality(A) \in 1 .. m BY <3>2, <3>3, <1>2
    <3> QED BY <3>2, <3>4 DEF A
  <2> QED BY <2>1
<1>11. \A j, k \in P : j < k => Cardinality(At(j)) # Cardinality(At(k))
  <2>1. ASSUME NEW j \in P, NEW k \in P, j < k PROVE Cardinality(At(j)) # Cardinality(At(k))
    <3>1. At(j) \subseteq At(k) /\ k \notin At(j) BY <2>1, <1>1
    <3>2. At(j) # At(k) BY <3>1, <1>9
    <3> QED BY <3>1, <3>2, <1>10, FS_Subset
  <2> QED BY <2>1
<1> HIDE DEF At
<1>12. g \in Surjection(P, 1 .. m)
  <2>1. g \in [P -> 1 .. m] BY <1>10
  <2>2. ASSUME NEW j \in P, NEW k \in P, g[j] = g[k] PROVE j = k
    <3>1. j \in Nat /\ k \in Nat BY <1>1
    <3> QED BY <2>2, <3>1, <1>11
  <2>3. g \in Injection(P, 1 .. m) BY <2>1, <2>2 DEF Injection, IsInjective
  <2> HIDE DEF g, P, m
  <2>4. Cardinality(P) = Cardinality(1 .. m) BY <1>8, <1>4
  <2> QED BY <2>3, <2>4, <1>4, <1>8, FS_Injection
<1>13. t = [k \in 1 .. n |-> IF k \in P THEN list[g[k]] ELSE order[k]]
  <2>1. t = [k \in 1 .. n |-> IF order[k] \notin S THEN order[k] ELSE list[Cardinality({s \in 1 .. k : order[s] \in S})]]
    BY <1>1, <1>6 DEF Reordered
  <2>2. t = [k \in 1 .. n |-> IF order[k] \notin S THEN order[k] ELSE list[Cardinality(At(k))]]
    BY <2>1 DEF At
  <2> HIDE DEF t
  <2>3. \A k \in P : g[k] = Cardinality(At(k)) OBVIOUS
  <2>4. \A k \in 1 .. n : k \in P <=> order[k] \in S OBVIOUS
  <2> HIDE DEF g, P
  <2> QED BY <2>2, <2>3, <2>4
<1> HIDE DEF t, m
<1>14. \A k \in P : g[k] \in 1 .. m BY <1>10
<1>15. \A i \in S : \E k \in P : list[g[k]] = i
  <2>1. ASSUME NEW i \in S PROVE \E k \in P : list[g[k]] = i
    <3>1. PICK j \in 1 .. m : list[j] = i BY <1>5, <1>6 DEF ToSet
    <3> HIDE DEF g, P
    <3>2. PICK k \in P : g[k] = j BY <1>12 DEF Surjection
    <3> QED BY <3>1, <3>2
  <2> QED BY <2>1
<1>16. P \subseteq 1 .. n OBVIOUS
<1>17. \A k \in 1 .. n : order[k] \in R BY <1>1 DEF Lists, ToSet
<1>18. \A i \in R : i \in S \/ \E k \in (1 .. n) \ P : order[k] = i
  BY <1>1 DEF Lists, ToSet
<1> HIDE DEF g, P
<1>19. t \in [1 .. n -> R]
  <2>1. \A k \in P : list[g[k]] \in R BY <1>5, <1>14
  <2> QED BY <1>13, <1>17, <2>1
<1>20. t \in Seq(Ids) /\ Len(t) = n
  <2>1. t \in [1 .. n -> Ids] BY <1>19
  <2> QED BY <2>1, <1>1, IsASeq
<1>21. ToSet(t) = R
  <2>1. DOMAIN t = 1 .. n BY <1>19
  <2>2. ASSUME NEW i \in R PROVE i \in ToSet(t)
    <3>1. CASE i \in S BY <3>1, <1>15, <1>13, <1>16, <2>1 DEF ToSet
    <3>2. CASE i \notin S BY <3>2, <1>18, <1>13, <2>1 DEF ToSet
    <3> QED BY <3>1, <3>2
  <2> QED BY <2>1, <2>2, <1>19 DEF ToSet
<1>22. Lists(t, R) BY <1>20, <1>21 DEF Lists
<1> QED BY <1>22 DEF t

-----------------------------------------------------------------------------
(* What a step that leaves a part of the state alone keeps.                *)

LEMMA Apart ==
  /\ NoValue \notin Ids /\ NoValue \notin Links /\ NoValue \notin Amounts /\ NoValue # 0
  /\ NoValue \notin InstitutionEntry /\ NoValue \notin Figures
  /\ NoValue \notin Snapshots /\ NoValue \notin Returns
BY ValuesAssumption

LEMMA NothingUnderway ==
  /\ NoFlow \in Flows /\ NoOp \in Ops /\ NoOp.todo = <<>> /\ NoOp.flow.link = NoValue
  /\ NoOp.id = NoValue /\ NoFlow.link = NoValue
BY DEF NoFlow, Flows, NoOp, Ops, Adapters, Accounts

LEMMA OpRests ==
  ASSUME OpInv, Idle, op' = op
  PROVE  OpInv'
BY DEF OpInv, Idle

LEMMA LoginsKept ==
  ASSUME IInv, UNCHANGED <<links, flows, pendingPlaid, made, twice>>,
         op'.flow.link = NoValue \/ op'.flow.link = op.flow.link
  PROVE  LoginsOnce'
<1>1. LoginsOnce /\ pendingPlaid \in Returns \cup {NoValue} BY DEF IInv, Types, TypeOK
<1>2. pendingPlaid # NoValue => pendingPlaid.link # NoValue
  <2>1. \A p \in Returns : p.link \in Links BY DEF Returns
  <2> QED BY <1>1, <2>1, Apart
<1>3. \A f \in flows : FlowOf(f)' BY <1>1 DEF LoginsOnce, FlowOf
<1>4. pendingPlaid # NoValue /\ pendingPlaid.state = "failed" => Failed(pendingPlaid.link)'
  BY <1>1, <1>2 DEF LoginsOnce, Failed
<1> QED BY <1>1, <1>3, <1>4 DEF LoginsOnce

LEMMA ListKept ==
  ASSUME IInv, UNCHANGED <<entries, tokens, books, late>>,
         \A r \in runs' : r.id \in Registered \/ r.id \in late
  PROVE  Listed'
BY DEF IInv, Listed, TokensListed, WatchedOnce, RemovedIsShut, LateRuns, Registered

LEMMA FiguresKept ==
  ASSUME IInv, acts' \in Nat, acts <= acts', UNCHANGED <<managed, inbox, books>>,
         \A r \in runs' : r.snap # NoValue => r \in runs,
         \A i \in Ids : (Kept(i) /\ ~Pending(i))' => Kept(i) /\ ~Pending(i)
  PROVE  Dated' /\ FiguresTold'
<1>1. Types /\ Dated /\ FiguresTold BY DEF IInv
<1>2. acts \in Nat /\ \A i \in Ids : books[i].at \in Nat BY <1>1 DEF Types, TypeOK, Snapshots
<1>3. \A s \in Snapshots : s.at \in Nat BY DEF Snapshots
<1>4. Dated'
  <2>1. \A i \in Ids : books[i].at <= acts' /\ (inbox[i] # NoValue => inbox[i].at <= acts')
    <3>1. \A i \in Ids : inbox[i] # NoValue => inbox[i] \in Snapshots BY <1>1 DEF Types, TypeOK
    <3> QED BY <1>1, <1>2, <1>3, <3>1 DEF Dated
  <2>2. \A r \in runs' : r.snap # NoValue => r.snap.at <= acts'
    <3>1. \A r \in runs : r.snap # NoValue => r.snap \in Snapshots BY <1>1 DEF Types, TypeOK, Refreshes
    <3> QED BY <1>1, <1>2, <1>3, <3>1 DEF Dated
  <2> QED BY <2>1, <2>2 DEF Dated
<1>5. \A i \in Ids : Told(i) => Told(i)' BY DEF Told
<1>6. FiguresTold' BY <1>1, <1>5 DEF FiguresTold
<1> QED BY <1>4, <1>6

(* What an effect leaves of the operation.                                 *)
LEMMA DoneLeaves ==
  ASSUME OpInv, ~Idle, Done
  PROVE  /\ op.todo \in Seq(Effects) /\ op.todo # <<>> /\ op' \in Ops
         /\ Tail(op.todo) = <<>> => op' = NoOp
         /\ Tail(op.todo) # <<>> =>
              /\ op'.todo = Tail(op.todo) /\ op'.id = op.id /\ op'.adapter = op.adapter
              /\ op'.flow = op.flow /\ op'.account = op.account /\ op'.holdings = op.holdings
         /\ op'.flow.link = NoValue \/ op'.flow.link = op.flow.link
<1>1. op \in Ops /\ op.todo \in Seq(Effects) /\ op.todo # <<>> BY DEF OpInv, Ops, Idle
<1>2. Tail(op.todo) \in Seq(Effects) /\ (Len(op.todo) = 1 <=> Tail(op.todo) = <<>>)
  <2>1. Tail(op.todo) \in Seq(Effects) /\ Len(Tail(op.todo)) = Len(op.todo) - 1 /\ Len(op.todo) \in Nat
    BY <1>1, HeadTailProperties, LenProperties
  <2>2. Tail(op.todo) = <<>> <=> Len(Tail(op.todo)) = 0 BY <2>1, EmptySeq
  <2> QED BY <2>1, <2>2
<1>3. CASE Len(op.todo) = 1 BY <1>1, <1>2, <1>3, NothingUnderway DEF Done
<1>4. CASE Len(op.todo) # 1
  <2>1. op' = [op EXCEPT !.todo = Tail(op.todo)] BY <1>4 DEF Done
  <2> QED BY <1>1, <1>2, <1>4, <2>1 DEF Ops
<1> QED BY <1>3, <1>4

LEMMA Continues ==
  ASSUME OpInv, ~Idle, Done, NEW i, i = op.id, NEW x, x = op.todo,
         Tail(x) # <<>> => Underway(i, Tail(x))'
  PROVE  OpInv'
<1>1. CASE Tail(op.todo) = <<>> BY <1>1, DoneLeaves, NothingUnderway DEF OpInv, Idle
<1>2. CASE Tail(op.todo) # <<>>
  <2>1. op'.todo = Tail(x) /\ op'.id = i /\ op' \in Ops BY <1>2, DoneLeaves
  <2>2. Underway(i, Tail(x))' BY <1>2
  <2>3. i \in Ids BY DEF OpInv
  <2>4. Underway(op.id, op.todo)' BY <2>1, <2>2
  <2> QED BY <1>2, <2>1, <2>3, <2>4 DEF OpInv, Idle
<1> QED BY <1>1, <1>2

-----------------------------------------------------------------------------
(* What the operator begins.                                               *)

LEMMA Starting ==
  ASSUME IInv, Started,
         NEW i \in Ids, NEW a \in Adapters, NEW c \in Accounts, NEW h \in SUBSET Addresses,
         NEW t \in Seq(Effects), t # <<>>,
         Begin(i, a, NoFlow, c, h, t), Underway(i, t)'
  PROVE  IInv'
<1>1. /\ Idle /\ acts' = acts + 1 /\ acts < MaxActs
      /\ UNCHANGED <<disk, memory, links, books, runs, twice, cut, late, upsets, made>>
  BY DEF Started, Acts
<1>2. /\ op' = [id |-> i, adapter |-> a, flow |-> NoFlow, account |-> c, holdings |-> h, todo |-> t]
      /\ op'.id = i /\ op'.todo = t /\ op'.flow = NoFlow /\ op'.account = c
  BY DEF Begin
<1>3. Types /\ acts \in Nat /\ acts' \in 0 .. MaxActs
  BY <1>1, BoundsAssumption DEF IInv, Types, TypeOK
<1>4. op' \in Ops BY <1>2, NothingUnderway DEF Ops
<1>5. OpInv'
  <2>1. ~Idle' BY <1>2 DEF Idle
  <2> QED BY <1>2, <1>4, <2>1 DEF OpInv
<1>6. Types'
  BY <1>1, <1>2, <1>3 DEF Types, TypeOK, disk, memory, Registered
<1>7. Listed'
  <2>1. \A r \in runs' : r.id \in Registered \/ r.id \in late BY <1>1 DEF IInv, Listed, LateRuns
  <2> QED BY <1>1, <2>1, ListKept DEF disk
<1>8. Dated' /\ FiguresTold'
  <2>1. \A j \in Ids : (Kept(j) /\ ~Pending(j))' => Kept(j) /\ ~Pending(j)
    BY <1>1 DEF Kept, Pending, Registered, disk
  <2> QED BY <1>1, <1>3, <2>1, FiguresKept DEF disk
<1>9. LoginsOnce' BY <1>1, <1>2, NothingUnderway, LoginsKept DEF memory
<1> QED BY <1>5, <1>6, <1>7, <1>8, <1>9 DEF IInv

(* The lists an operation begins with.                                     *)
LEMMA PlansBegun ==
  /\ <<"entry">> \in Seq(Effects) /\ EntryPlan(<<"entry">>)
  /\ ~ManagedPlan(Tail(<<"entry">>)) /\ ~SecretPlan(Tail(<<"entry">>))
  /\ <<"entry", "managed", "snapshot">> \in Seq(Effects)
  /\ EntryPlan(<<"entry", "managed", "snapshot">>)
  /\ ManagedPlan(Tail(<<"entry", "managed", "snapshot">>))
  /\ ~SecretPlan(Tail(<<"entry", "managed", "snapshot">>))
  /\ <<"managed", "snapshot", "refresh">> \in Seq(Effects)
  /\ ManagedPlan(<<"managed", "snapshot", "refresh">>)
  /\ <<"refresh">> \in Seq(Effects) /\ RefreshLast(<<"refresh">>)
  /\ Removal \in Seq(Effects) /\ TokensPlan(Removal) /\ Removal # <<>>
  /\ <<"tokens">> \in Seq(Effects) /\ TokensPlan(<<"tokens">>)
<1> DEFINE a == <<"entry", "managed", "snapshot">>
           b == <<"managed", "snapshot">>
           c == <<"managed", "snapshot", "refresh">>
           d == <<"snapshot", "refresh">>
           e == <<"tokens", "close", "remove">>
           f == <<"close", "remove">>
<1>1. /\ a \in Seq(Effects) /\ Head(a) = "entry" /\ Tail(a) = b /\ a # <<>>
      /\ Head(b) = "managed" /\ Tail(b) = <<"snapshot">> /\ b # <<>>
      /\ c \in Seq(Effects) /\ Head(c) = "managed" /\ Tail(c) = d /\ c # <<>>
      /\ Head(d) = "snapshot" /\ Tail(d) = <<"refresh">> /\ d # <<>>
      /\ e \in Seq(Effects) /\ Head(e) = "tokens" /\ Tail(e) = f /\ e # <<>>
      /\ Head(f) = "close" /\ Tail(f) = <<"remove">> /\ f # <<>>
  BY DEF Effects
<1>2. \A x \in Effects : <<x>> \in Seq(Effects) /\ <<x>> # <<>> /\ Head(<<x>>) = x /\ Tail(<<x>>) = <<>>
  OBVIOUS
<1>3. {"entry", "snapshot", "refresh", "tokens", "remove"} \subseteq Effects BY DEF Effects
<1> HIDE DEF a, b, c, d, e, f
<1>4. EntryPlan(a) /\ ManagedPlan(b) /\ ~SecretPlan(b)
  BY <1>1, <1>2, <1>3 DEF EntryPlan, ManagedPlan, SnapshotPlan, SecretPlan, Begins
<1>5. ManagedPlan(c) BY <1>1, <1>2, <1>3 DEF ManagedPlan, SnapshotPlan, RefreshLast, Begins, Ends
<1>6. TokensPlan(e) BY <1>1, <1>2, <1>3 DEF TokensPlan, ClosePlan, RemovePlan, Begins, Ends
<1>7. /\ EntryPlan(<<"entry">>) /\ ~ManagedPlan(<<>>) /\ ~SecretPlan(<<>>)
      /\ RefreshLast(<<"refresh">>) /\ TokensPlan(<<"tokens">>)
  BY <1>2, <1>3 DEF EntryPlan, ManagedPlan, SecretPlan, RefreshLast, TokensPlan, Begins, Ends
<1>8. Removal = e BY DEF Removal, e
<1> QED BY <1>1, <1>2, <1>3, <1>4, <1>5, <1>6, <1>7, <1>8 DEF a, c

LEMMA EntryFirst ==
  ASSUME NEW s \in Seq(Effects), NEW t \in Seq(Effects),
         Len(t) = Len(s) + 2, t[1] = "entry", t[Len(s) + 2] = "refresh",
         \A k \in 1 .. Len(s) : t[k + 1] = s[k]
  PROVE  <<"entry">> \o s \o <<"refresh">> = t
<1> DEFINE n == Len(s)
           e == <<"entry">>
           r == <<"refresh">>
           u == e \o s
           v == u \o r
<1>1. e \in Seq(Effects) /\ Len(e) = 1 /\ e[1] = "entry" BY DEF Effects
<1>2. r \in Seq(Effects) /\ Len(r) = 1 /\ r[1] = "refresh" BY DEF Effects
<1>3. n \in Nat OBVIOUS
<1> HIDE DEF e, r
<1>4. u \in Seq(Effects) /\ Len(u) = n + 1 BY <1>1, <1>3, ConcatProperties
<1>5. \A k \in 1 .. (n + 1) : u[k] = IF k <= 1 THEN e[k] ELSE s[k - 1] BY <1>1, <1>3, ConcatProperties
<1> HIDE DEF u
<1>6. v \in Seq(Effects) /\ Len(v) = n + 2
  <2>1. v \in Seq(Effects) /\ Len(v) = Len(u) + Len(r) BY <1>2, <1>4, ConcatProperties
  <2> HIDE DEF v, n
  <2> QED BY <2>1, <1>2, <1>3, <1>4
<1>7. \A k \in 1 .. (n + 2) : v[k] = IF k <= n + 1 THEN u[k] ELSE r[k - (n + 1)]
  <2>1. \A k \in 1 .. ((n + 1) + 1) : v[k] = IF k <= n + 1 THEN u[k] ELSE r[k - (n + 1)]
    BY <1>2, <1>4, ConcatProperties
  <2>2. (n + 1) + 1 = n + 2 BY <1>3
  <2> QED BY <2>1, <2>2
<1> HIDE DEF v
<1>8. ASSUME NEW k \in 1 .. (n + 2) PROVE v[k] = t[k]
  <2>1. CASE k = 1 BY <2>1, <1>1, <1>3, <1>5, <1>7
  <2>2. CASE k = n + 2
    <3>1. ~(k <= n + 1) /\ k - (n + 1) = 1 BY <2>2, <1>3
    <3> QED BY <2>2, <3>1, <1>2, <1>7
  <2>3. CASE k # 1 /\ k # n + 2
    <3>1. k - 1 \in 1 .. n /\ k <= n + 1 /\ ~(k <= 1) /\ k \in 1 .. (n + 1) /\ (k - 1) + 1 = k
      BY <2>3, <1>3
    <3>2. v[k] = s[k - 1] BY <3>1, <1>5, <1>7
    <3>3. t[(k - 1) + 1] = s[k - 1] BY <3>1
    <3> QED BY <3>1, <3>2, <3>3
  <2> QED BY <2>1, <2>2, <2>3
<1>9. v = t BY <1>6, <1>8, SeqEqual
<1> QED BY <1>9 DEF u, v, e, r

(* A connection's secrets follow its entry.                                *)
LEMMA NewPlans ==
  ASSUME NEW a \in Adapters, a \notin {"managed", "files"}
  PROVE  /\ NewConnection(a) \in Seq(Effects) /\ EntryPlan(NewConnection(a)) /\ NewConnection(a) # <<>>
         /\ SecretPlan(Tail(NewConnection(a))) => Storing(Tail(NewConnection(a)), a)
         /\ ~ManagedPlan(Tail(NewConnection(a)))
         /\ Tail(NewConnection(a)) \in Seq(Effects) /\ Tail(NewConnection(a)) # <<>>
         /\ Storing(Tail(NewConnection(a)), a) \/ RefreshLast(Tail(NewConnection(a)))
<1> DEFINE p == <<"entry", "refresh">>
           q == <<"entry", "secret", "refresh">>
           r == <<"entry", "secret", "second", "refresh">>
           q1 == <<"secret", "refresh">>
           r1 == <<"secret", "second", "refresh">>
           r2 == <<"second", "refresh">>
<1>1. NewConnection(a) = CASE a = "wallet" -> p [] a \in {"plaid", "enablebanking"} -> q [] OTHER -> r
  <2>1. CASE a = "wallet"
    <3>1. connectionSecretAccounts(a) = {} BY <2>1 DEF connectionSecretAccounts
    <3>2. Secrets(a) = <<>> BY <3>1 DEF Secrets
    <3>3. NewConnection(a) = p
      <4>1. /\ <<>> \in Seq(Effects) /\ p \in Seq(Effects) /\ Len(p) = Len(<<>>) + 2
            /\ p[1] = "entry" /\ p[Len(<<>>) + 2] = "refresh"
            /\ \A k \in 1 .. Len(<<>>) : p[k + 1] = <<>>[k]
        BY DEF Effects
      <4> HIDE DEF p
      <4> QED BY <3>2, <4>1, EntryFirst DEF NewConnection
    <3> HIDE DEF p, q, r
    <3> QED BY <2>1, <3>3
  <2>2. CASE a \in {"plaid", "enablebanking"}
    <3>1. connectionSecretAccounts(a) = {1} BY <2>2 DEF connectionSecretAccounts
    <3>2. Secrets(a) = <<"secret">> BY <3>1 DEF Secrets
    <3> DEFINE s == <<"secret">>
    <3>3. NewConnection(a) = q
      <4>1. /\ s \in Seq(Effects) /\ Len(s) = 1 /\ s[1] = "secret"
            /\ q \in Seq(Effects) /\ Len(q) = 3 /\ q[1] = "entry" /\ q[2] = "secret" /\ q[3] = "refresh"
        BY DEF Effects
      <4>2. Secrets(a) = s BY <3>2
      <4> HIDE DEF q, s
      <4>3. \A k \in 1 .. Len(s) : q[k + 1] = s[k] BY <4>1
      <4>4. Len(q) = Len(s) + 2 /\ q[Len(s) + 2] = "refresh" BY <4>1
      <4>5. <<"entry">> \o s \o <<"refresh">> = q BY <4>1, <4>3, <4>4, EntryFirst
      <4> QED BY <4>2, <4>5 DEF NewConnection
    <3> HIDE DEF p, q, r
    <3> QED BY <2>2, <3>3
  <2>3. CASE a \in {"coinbase", "kraken"}
    <3>1. connectionSecretAccounts(a) = {1, 2} BY <2>3 DEF connectionSecretAccounts
    <3>2. Secrets(a) = <<"secret", "second">> BY <3>1 DEF Secrets
    <3> DEFINE s == <<"secret", "second">>
    <3>3. NewConnection(a) = r
      <4>1. /\ s \in Seq(Effects) /\ Len(s) = 2 /\ s[1] = "secret" /\ s[2] = "second"
            /\ r \in Seq(Effects) /\ Len(r) = 4
            /\ r[1] = "entry" /\ r[2] = "secret" /\ r[3] = "second" /\ r[4] = "refresh"
        BY DEF Effects
      <4>2. Secrets(a) = s BY <3>2
      <4> HIDE DEF r, s
      <4>3. \A k \in 1 .. Len(s) : r[k + 1] = s[k] BY <4>1
      <4>4. Len(r) = Len(s) + 2 /\ r[Len(s) + 2] = "refresh" BY <4>1
      <4>5. <<"entry">> \o s \o <<"refresh">> = r BY <4>1, <4>3, <4>4, EntryFirst
      <4> QED BY <4>2, <4>5 DEF NewConnection
    <3> HIDE DEF p, q, r
    <3> QED BY <2>3, <3>3
  <2> QED BY <2>1, <2>2, <2>3 DEF Adapters
<1>2. /\ p \in Seq(Effects) /\ Head(p) = "entry" /\ Tail(p) = <<"refresh">> /\ p # <<>>
      /\ q \in Seq(Effects) /\ Head(q) = "entry" /\ Tail(q) = q1 /\ q # <<>>
      /\ r \in Seq(Effects) /\ Head(r) = "entry" /\ Tail(r) = r1 /\ r # <<>>
      /\ q1 \in Seq(Effects) /\ Head(q1) = "secret" /\ Tail(q1) = <<"refresh">> /\ q1 # <<>>
      /\ r1 \in Seq(Effects) /\ Head(r1) = "secret" /\ Tail(r1) = r2 /\ r1 # <<>>
      /\ Head(r2) = "second" /\ Tail(r2) = <<"refresh">> /\ r2 # <<>>
      /\ <<"refresh">> \in Seq(Effects) /\ Head(<<"refresh">>) = "refresh" /\ <<"refresh">> # <<>>
      /\ Tail(<<"refresh">>) = <<>>
  BY DEF Effects
<1> HIDE DEF p, q, r, q1, r1, r2
<1>3. RefreshLast(<<"refresh">>) /\ ~SecretPlan(<<"refresh">>) /\ ~SecondPlan(<<"refresh">>) /\ ~ManagedPlan(<<"refresh">>)
  BY <1>2 DEF RefreshLast, SecretPlan, SecondPlan, ManagedPlan, Begins, Ends
<1>4. SecretPlan(q1) /\ ~ManagedPlan(q1) /\ SecondPlan(r2) /\ SecretPlan(r1) /\ ~ManagedPlan(r1)
  BY <1>2, <1>3 DEF SecretPlan, SecondPlan, ManagedPlan, Begins
<1>5. EntryPlan(p) /\ EntryPlan(q) /\ EntryPlan(r)
  BY <1>2, <1>3, <1>4 DEF EntryPlan, Begins
<1>6. CASE a = "wallet" BY <1>1, <1>2, <1>3, <1>5, <1>6
<1>7. CASE a \in {"plaid", "enablebanking"}
  <2>1. Owns(a, 1) BY <1>7 DEF Owns, connectionSecretAccounts
  <2>2. Storing(q1, a) BY <2>1, <1>2, <1>3, <1>4 DEF Storing
  <2> QED BY <1>1, <1>2, <1>4, <1>5, <1>7, <2>2
<1>8. CASE a \in {"coinbase", "kraken"}
  <2>1. Owns(a, 1) /\ Owns(a, 2) BY <1>8 DEF Owns, connectionSecretAccounts
  <2>2. Storing(r1, a) BY <2>1, <1>2, <1>4 DEF Storing
  <2> QED BY <1>1, <1>2, <1>4, <1>5, <1>8, <2>2
<1> QED BY <1>6, <1>7, <1>8 DEF Adapters

LEMMA FreshNow ==
  ASSUME IInv, acts' = acts + 1, UNCHANGED <<books, runs>>, NEW i \in Ids
  PROVE  Fresh(i)'
<1>1. Types /\ Dated BY DEF IInv
<1>2. acts \in Nat /\ books[i].at \in Nat BY <1>1 DEF Types, TypeOK, Snapshots
<1>3. \A r \in runs : r.snap # NoValue => r.snap.at \in Nat
  BY <1>1 DEF Types, TypeOK, Refreshes, Snapshots
<1> QED BY <1>1, <1>2, <1>3 DEF Dated, Fresh

LEMMA BeginsNew ==
  ASSUME IInv, Started, FreeIds # {},
         NEW a \in Adapters, NEW h \in SUBSET Addresses, NEW t \in Seq(Effects), t # <<>>,
         EntryPlan(t), SecretPlan(Tail(t)) => Storing(Tail(t), a),
         a = "managed" <=> ManagedPlan(Tail(t)),
         \A j \in Registered : Keys(entries[j].holdings) \cap Keys(h) = {},
         Begin(institutionIdFor, a, NoFlow, NoValue, h, t)
  PROVE  IInv'
<1>1. PICK i \in Ids : i = institutionIdFor /\ i \notin Registered BY FreeId
<1>2. op' = [id |-> i, adapter |-> a, flow |-> NoFlow, account |-> NoValue, holdings |-> h, todo |-> t]
  BY <1>1 DEF Begin
<1>3. UNCHANGED <<entries, tokens, books, runs>> /\ acts' = acts + 1 BY DEF Started, Acts, disk
<1>4. tokens[i] = {} BY <1>1 DEF IInv, Listed, TokensListed
<1>5. Fresh(i)' BY <1>1, <1>3, FreshNow
<1>6. Registered' = Registered BY <1>3 DEF Registered
<1>7. Making(i, t)' BY <1>1, <1>2, <1>3, <1>4, <1>5, <1>6 DEF Making
<1>8. Underway(i, t)' BY <1>7 DEF Underway
<1>9. Begin(i, a, NoFlow, NoValue, h, t) BY <1>1
<1>10. NoValue \in Accounts BY DEF Accounts
<1> QED BY <1>1, <1>8, <1>9, <1>10, Starting

LEMMA BeginsKept ==
  ASSUME IInv, Started, NEW i \in Registered, NEW c \in Accounts,
         NEW t \in Seq(Effects), t # <<>>,
         \/ Storing(t, entries[i].adapter) \/ RefreshLast(t) \/ TokensPlan(t)
         \/ Telling(t) /\ entries[i].adapter = "managed",
         Begin(i, entries[i].adapter, NoFlow, c, {}, t)
  PROVE  IInv'
<1> DEFINE a == entries[i].adapter
<1>1. i \in Ids /\ a \in Adapters
  BY Apart DEF IInv, Types, TypeOK, Registered, InstitutionEntry
<1> HIDE DEF a
<1>2. op' = [id |-> i, adapter |-> a, flow |-> NoFlow, account |-> c, holdings |-> {}, todo |-> t]
  BY DEF Begin, a
<1>3. UNCHANGED <<entries, tokens, books, runs>> /\ acts' = acts + 1 BY DEF Started, Acts, disk
<1>4. Fresh(i)' BY <1>1, <1>3, FreshNow
<1>5. Registered' = Registered /\ a' = a /\ op'.adapter = a BY <1>2, <1>3 DEF Registered, a
<1>6. \/ Storing(t, a) \/ RefreshLast(t) \/ TokensPlan(t)
      \/ Telling(t) /\ a = "managed"
  BY DEF a
<1>7. Keeping(i, t)' BY <1>3, <1>4, <1>5, <1>6 DEF Keeping, a
<1>8. Underway(i, t)' BY <1>7 DEF Underway
<1>9. Begin(i, a, NoFlow, c, {}, t) BY DEF a
<1> QED BY <1>1, <1>8, <1>9, Starting

LEMMA AddKeeps == ASSUME IInv, addInstitution PROVE IInv'
<1>1. Started /\ FreeIds # {} BY DEF addInstitution
<1>2. \A j \in Registered : Keys(entries[j].holdings) \cap Keys({}) = {} BY DEF Keys
<1>3. "files" \in Adapters /\ "managed" \in Adapters BY DEF Adapters
<1> DEFINE s == <<"entry">>
           t == <<"entry", "managed", "snapshot">>
<1>4. /\ s \in Seq(Effects) /\ EntryPlan(s) /\ ~ManagedPlan(Tail(s)) /\ ~SecretPlan(Tail(s)) /\ s # <<>>
      /\ t \in Seq(Effects) /\ EntryPlan(t) /\ ManagedPlan(Tail(t)) /\ ~SecretPlan(Tail(t)) /\ t # <<>>
  BY PlansBegun
<1>5. \/ Begin(institutionIdFor, "files", NoFlow, NoValue, {}, s)
      \/ Begin(institutionIdFor, "managed", NoFlow, NoValue, {}, t)
  BY DEF addInstitution
<1> HIDE DEF s, t
<1>6. CASE Begin(institutionIdFor, "files", NoFlow, NoValue, {}, s)
  BY <1>1, <1>2, <1>3, <1>4, <1>6, BeginsNew
<1>7. CASE Begin(institutionIdFor, "managed", NoFlow, NoValue, {}, t)
  BY <1>1, <1>2, <1>3, <1>4, <1>7, BeginsNew
<1> QED BY <1>5, <1>6, <1>7

LEMMA KeysKeep == ASSUME IInv, NEW a \in {"coinbase", "kraken"}, KeysPasted(a) PROVE IInv'
<1>1. Started /\ a \in Adapters /\ a \notin {"managed", "files"} BY DEF KeysPasted, Adapters
<1> DEFINE t == NewConnection(a)
<1>2. /\ t \in Seq(Effects) /\ EntryPlan(t) /\ t # <<>>
      /\ SecretPlan(Tail(t)) => Storing(Tail(t), a)
      /\ ~ManagedPlan(Tail(t))
      /\ Tail(t) \in Seq(Effects) /\ Tail(t) # <<>> /\ (Storing(Tail(t), a) \/ RefreshLast(Tail(t)))
  BY <1>1, NewPlans
<1>3. \/ FreeIds # {} /\ Begin(institutionIdFor, a, NoFlow, NoValue, {}, t)
      \/ \E i \in Registered : entries[i].adapter = a /\ Begin(i, a, NoFlow, NoValue, {}, Tail(t))
  BY DEF KeysPasted
<1> HIDE DEF t
<1>4. CASE FreeIds # {} /\ Begin(institutionIdFor, a, NoFlow, NoValue, {}, t)
  <2>1. \A j \in Registered : Keys(entries[j].holdings) \cap Keys({}) = {} BY DEF Keys
  <2> QED BY <1>1, <1>2, <1>4, <2>1, BeginsNew
<1>5. CASE \E i \in Registered : entries[i].adapter = a /\ Begin(i, a, NoFlow, NoValue, {}, Tail(t))
  <2>1. PICK i \in Registered : entries[i].adapter = a /\ Begin(i, a, NoFlow, NoValue, {}, Tail(t))
    BY <1>5
  <2>2. NoValue \in Accounts BY DEF Accounts
  <2>3. Begin(i, entries[i].adapter, NoFlow, NoValue, {}, Tail(t)) BY <2>1
  <2>4. Storing(Tail(t), entries[i].adapter) \/ RefreshLast(Tail(t)) BY <1>2, <2>1
  <2> QED BY <1>1, <1>2, <2>2, <2>3, <2>4, BeginsKept
<1> QED BY <1>3, <1>4, <1>5

LEMMA WalletKeeps == ASSUME IInv, connectWallet PROVE IInv'
<1>1. Started /\ FreeIds # {} BY DEF connectWallet
<1>2. PICK h \in SUBSET Addresses :
         /\ \A i \in Registered : Keys(entries[i].holdings) \cap Keys(h) = {}
         /\ Begin(institutionIdFor, "wallet", NoFlow, NoValue, h, NewConnection("wallet"))
  BY DEF connectWallet
<1>3. "wallet" \in Adapters /\ "wallet" \notin {"managed", "files"} BY DEF Adapters
<1> DEFINE t == NewConnection("wallet")
<1>4. /\ t \in Seq(Effects) /\ EntryPlan(t) /\ t # <<>>
      /\ SecretPlan(Tail(t)) => Storing(Tail(t), "wallet")
      /\ ~ManagedPlan(Tail(t))
  BY <1>3, NewPlans
<1> HIDE DEF t
<1>5. Begin(institutionIdFor, "wallet", NoFlow, NoValue, h, t) BY <1>2 DEF t
<1> QED BY <1>1, <1>2, <1>3, <1>4, <1>5, BeginsNew

LEMMA SaveKeeps == ASSUME IInv, NEW i \in Ids, saveManagedAccount(i) PROVE IInv'
<1>1. Started /\ i \in Registered /\ entries[i].adapter = "managed" BY DEF saveManagedAccount
<1> DEFINE t == <<"managed", "snapshot", "refresh">>
<1>2. t \in Seq(Effects) /\ t # <<>> /\ Telling(t) BY PlansBegun DEF Telling
<1>3. \E c \in Accounts : Begin(i, "managed", NoFlow, c, {}, t)
  <2>1. CASE \E v \in Amounts : Begin(i, "managed", NoFlow, [amount |-> v, closed |-> FALSE], {}, t)
    <3>1. \A v \in Amounts : [amount |-> v, closed |-> FALSE] \in Accounts BY DEF Accounts, Figures
    <3> QED BY <2>1, <3>1
  <2>2. CASE managed[i] # NoValue /\ Begin(i, "managed", NoFlow, [managed[i] EXCEPT !.closed = TRUE], {}, t)
    <3>1. managed[i] \in Figures BY <2>2 DEF IInv, Types, TypeOK, Accounts
    <3>2. [managed[i] EXCEPT !.closed = TRUE] \in Accounts BY <3>1 DEF Accounts, Figures
    <3> QED BY <2>2, <3>2
  <2> QED BY <2>1, <2>2 DEF saveManagedAccount
<1> HIDE DEF t
<1>4. PICK c \in Accounts : Begin(i, "managed", NoFlow, c, {}, t) BY <1>3
<1>5. Begin(i, entries[i].adapter, NoFlow, c, {}, t) BY <1>1, <1>4
<1> QED BY <1>1, <1>2, <1>5, BeginsKept

LEMMA RefreshKeeps == ASSUME IInv, NEW i \in Ids, Refresh(i) PROVE IInv'
<1>1. Started /\ i \in Registered BY DEF Refresh
<1> DEFINE t == <<"refresh">>
<1>2. t \in Seq(Effects) /\ t # <<>> /\ RefreshLast(t) BY PlansBegun
<1>3. Begin(i, entries[i].adapter, NoFlow, NoValue, {}, t) BY DEF Refresh
<1> HIDE DEF t
<1>4. NoValue \in Accounts BY DEF Accounts
<1> QED BY <1>1, <1>2, <1>3, <1>4, BeginsKept

LEMMA RemoveKeeps == ASSUME IInv, NEW i \in Ids, removeInstitution(i) PROVE IInv'
<1>1. Started /\ i \in Registered BY DEF removeInstitution
<1>2. Removal \in Seq(Effects) /\ Removal # <<>> /\ TokensPlan(Removal) BY PlansBegun
<1>3. Begin(i, entries[i].adapter, NoFlow, NoValue, {}, Removal) BY DEF removeInstitution
<1>4. NoValue \in Accounts BY DEF Accounts
<1> QED BY <1>1, <1>2, <1>3, <1>4, BeginsKept

LEMMA ForgetKeeps == ASSUME IInv, NEW i \in Ids, deleteConnectionTokens(i) PROVE IInv'
<1>1. Started /\ i \in Registered BY DEF deleteConnectionTokens
<1> DEFINE t == <<"tokens">>
<1>2. t \in Seq(Effects) /\ t # <<>> /\ TokensPlan(t) BY PlansBegun
<1>3. Begin(i, entries[i].adapter, NoFlow, NoValue, {}, t) BY DEF deleteConnectionTokens
<1> HIDE DEF t
<1>4. NoValue \in Accounts BY DEF Accounts
<1> QED BY <1>1, <1>2, <1>3, <1>4, BeginsKept

-----------------------------------------------------------------------------
(* The effects.                                                            *)

(* What the next effect may rely on.                                       *)
LEMMA Underlies ==
  ASSUME OpInv, ~Idle, NEW i, i = op.id, NEW x, x = op.todo
  PROVE  /\ i \in Ids /\ x # <<>>
         /\ Head(x) = "entry" => Making(i, x)
         /\ Head(x) # "entry" => i \in Registered /\ entries[i].adapter = op.adapter
         /\ Head(x) \in {"secret", "second"} => Storing(x, op.adapter)
         /\ Head(x) = "refresh" => Tail(x) = <<>>
         /\ Head(x) = "managed" => op.adapter = "managed" /\ Fresh(i) /\ SnapshotPlan(Tail(x))
         /\ Head(x) = "snapshot" =>
              op.adapter = "managed" /\ Fresh(i) /\ (Tail(x) = <<>> \/ RefreshLast(Tail(x)))
         /\ Head(x) = "tokens" => Tail(x) = <<>> \/ ClosePlan(Tail(x))
         /\ Head(x) = "close" => RemovePlan(Tail(x)) /\ tokens[i] = {}
         /\ Head(x) = "remove" =>
              /\ Tail(x) = <<>> /\ tokens[i] = {}
              /\ i \notin late => books[i].amount = NoValue /\ \A r \in runs : r.id # i
<1>1. i \in Ids /\ Underway(i, x) /\ x # <<>> BY DEF OpInv, Idle
<1>2. CASE Making(i, x)
  <2>1. Head(x) = "entry" BY <1>2 DEF Making, EntryPlan, Begins
  <2> QED BY <1>1, <1>2, <2>1
<1>3. CASE Keeping(i, x)
  <2>1. i \in Registered /\ entries[i].adapter = op.adapter BY <1>3 DEF Keeping
  <2>2. CASE Storing(x, op.adapter)
    <3>1. Head(x) \in {"secret", "second"} BY <2>2 DEF Storing, SecondPlan, SecretPlan, Begins
    <3> QED BY <1>1, <2>1, <2>2, <3>1
  <2>3. CASE RefreshLast(x)
    <3>1. Head(x) = "refresh" /\ Tail(x) = <<>> BY <2>3 DEF RefreshLast, Begins, Ends
    <3> QED BY <1>1, <2>1, <3>1
  <2>4. CASE Telling(x) /\ op.adapter = "managed" /\ Fresh(i)
    <3>1. \/ Head(x) = "managed" /\ SnapshotPlan(Tail(x))
          \/ Head(x) = "snapshot" /\ (Tail(x) = <<>> \/ RefreshLast(Tail(x)))
      BY <2>4 DEF Telling, ManagedPlan, SnapshotPlan, Begins
    <3> QED BY <1>1, <2>1, <2>4, <3>1
  <2>5. CASE TokensPlan(x)
    <3>1. Head(x) = "tokens" /\ (Tail(x) = <<>> \/ ClosePlan(Tail(x))) BY <2>5 DEF TokensPlan, Begins
    <3> QED BY <1>1, <2>1, <3>1
  <2>6. CASE ClosePlan(x) /\ tokens[i] = {}
    <3>1. Head(x) = "close" /\ RemovePlan(Tail(x)) BY <2>6 DEF ClosePlan, Begins
    <3> QED BY <1>1, <2>1, <2>6, <3>1
  <2>7. CASE /\ RemovePlan(x) /\ tokens[i] = {}
             /\ i \notin late => books[i].amount = NoValue /\ \A r \in runs : r.id # i
    <3>1. Head(x) = "remove" /\ Tail(x) = <<>> BY <2>7 DEF RemovePlan, Begins, Ends
    <3> QED BY <1>1, <2>1, <2>7, <3>1
  <2> QED BY <1>3, <2>2, <2>3, <2>4, <2>5, <2>6, <2>7 DEF Keeping
<1> QED BY <1>1, <1>2, <1>3 DEF Underway

(* The effects that date or close nothing leave the books dated.           *)
LEMMA NothingTold ==
  ASSUME IInv, ~Idle, NEW i, i = op.id, ~Telling(op.todo), op'.id = i \/ op' = NoOp,
         UNCHANGED <<acts, managed, inbox, books, cut>>,
         \A r \in runs' : r.snap # NoValue => r \in runs,
         \A j \in Ids : j \in Registered' /\ entries'[j].adapter = "managed"
           => j \in Registered /\ entries[j].adapter = "managed"
  PROVE  Dated' /\ FiguresTold'
<1>1. acts \in Nat /\ acts' = acts BY BoundsAssumption DEF IInv, Types, TypeOK
<1>2. \A j \in Ids : (Kept(j) /\ ~Pending(j))' => Kept(j) /\ ~Pending(j)
  <2>1. \A j \in Ids : Kept(j)' => Kept(j) BY DEF Kept
  <2> QED BY <2>1 DEF Pending
<1> QED BY <1>1, <1>2, FiguresKept

LEMMA TellingStarts ==
  ASSUME NEW x, Head(x) \notin {"managed", "snapshot"}
  PROVE  ~Telling(x)
BY DEF Telling, ManagedPlan, SnapshotPlan, Begins

LEMMA EntryKeeps == ASSUME IInv, WriteEntry PROVE IInv'
<1> DEFINE e == [adapter |-> op.adapter, enabled |-> TRUE, holdings |-> op.holdings]
<1>1. Types /\ OpInv /\ Listed BY DEF IInv
<1>2. /\ ~Idle /\ Done /\ Head(op.todo) = "entry"
      /\ UNCHANGED <<tokens, managed, inbox, memory, links, books, runs, ghosts, made>>
  BY DEF WriteEntry, Doing
<1>3. PICK i : i = op.id OBVIOUS
<1>4. PICK x : x = op.todo OBVIOUS
<1>5. i \in Ids /\ Making(i, x) /\ Head(x) = "entry" BY <1>1, <1>2, <1>3, <1>4, Underlies
<1>6. op \in Ops /\ e \in InstitutionEntry /\ e # NoValue
  <2>1. op \in Ops /\ op.adapter \in Adapters /\ op.holdings \in SUBSET Addresses
    BY <1>1 DEF OpInv, Ops
  <2>2. e \in InstitutionEntry BY <2>1 DEF InstitutionEntry
  <2> HIDE DEF e
  <2> QED BY <2>1, <2>2, Apart
<1>7. entries' = [entries EXCEPT ![i] = e] /\ order' = Append(order, i)
  BY <1>3 DEF WriteEntry, addInstitutionEntry
<1>8. entries'[i] = e /\ \A j \in Ids \ {i} : entries'[j] = entries[j]
  BY <1>1, <1>5, <1>7 DEF Types, TypeOK
<1>9. Registered' = Registered \cup {i} BY <1>5, <1>6, <1>8 DEF Registered
<1>10. i \notin Registered /\ tokens[i] = {} BY <1>5 DEF Making
<1>11. op' \in Ops BY <1>1, <1>2, DoneLeaves
<1>12. Types'
  <2>1. Lists(order, Registered) BY <1>1 DEF Lists, Types, TypeOK
  <2>2. Lists(order', Registered') BY <2>1, <1>5, <1>7, <1>9, <1>10, RegisteredFinite, AppendLists
  <2>3. entries' \in [Ids -> InstitutionEntry \cup {NoValue}] BY <1>1, <1>6, <1>7 DEF Types, TypeOK
  <2> QED BY <1>1, <1>2, <1>11, <2>2, <2>3 DEF Types, TypeOK, Lists, memory, ghosts, Ops
<1>13. Listed'
  <2>1. TokensListed' BY <1>1, <1>2, <1>8, <1>9, <1>10 DEF Listed, TokensListed
  <2>2. WatchedOnce'
    <3>1. \A j \in Registered : entries'[j] = entries[j] BY <1>8, <1>10 DEF Registered
    <3>2. \A j \in Registered : Keys(entries[j].holdings) \cap Keys(op.holdings) = {} BY <1>5 DEF Making
    <3>3. e.holdings = op.holdings OBVIOUS
    <3> HIDE DEF e
    <3> QED BY <1>1, <1>8, <1>9, <3>1, <3>2, <3>3 DEF Listed, WatchedOnce, Keys
  <2>3. RemovedIsShut' /\ LateRuns'
    BY <1>1, <1>2, <1>9 DEF Listed, RemovedIsShut, LateRuns, ghosts
  <2> QED BY <2>1, <2>2, <2>3 DEF Listed
<1>14. Tail(x) # <<>> => op'.todo = Tail(x) /\ op'.id = i /\ op'.adapter = op.adapter
  BY <1>1, <1>2, <1>3, <1>4, DoneLeaves
<1>15. Dated' /\ FiguresTold'
  <2>1. acts \in Nat /\ acts' = acts BY <1>1, <1>2, BoundsAssumption DEF Types, TypeOK, ghosts
  <2>2. \A j \in Ids \ {i} : (Kept(j) /\ ~Pending(j))' => Kept(j) /\ ~Pending(j)
    BY <1>2, <1>3, <1>8, <1>9 DEF Kept, Pending, ghosts
  <2>3. Kept(i)' => Pending(i)'
    <3>1. SUFFICES ASSUME Kept(i)' PROVE Pending(i)' OBVIOUS
    <3>2. op.adapter = "managed" BY <3>1, <1>8 DEF Kept
    <3>3. ManagedPlan(Tail(x)) BY <3>2, <1>5 DEF Making
    <3>4. Tail(x) # <<>> BY <3>3 DEF ManagedPlan, Begins
    <3>5. Telling(op'.todo) BY <1>14, <3>3, <3>4 DEF Telling
    <3> QED BY <1>14, <3>4, <3>5 DEF Pending, Idle
  <2> QED BY <1>2, <2>1, <2>2, <2>3, FiguresKept
<1>16. LoginsOnce' BY <1>1, <1>2, DoneLeaves, LoginsKept DEF memory, ghosts
<1>17. OpInv'
  <2>1. SUFFICES ASSUME Tail(x) # <<>> PROVE Keeping(i, Tail(x))'
    BY <1>1, <1>2, <1>3, <1>4, Continues DEF Underway
  <2>2. op'.adapter = op.adapter /\ entries'[i].adapter = op.adapter BY <2>1, <1>8, <1>14
  <2>3. Fresh(i)' <=> Fresh(i) BY <1>2 DEF Fresh, ghosts
  <2>4. \/ Storing(Tail(x), op.adapter)
        \/ RefreshLast(Tail(x))
        \/ Telling(Tail(x)) /\ op.adapter = "managed" /\ Fresh(i)
    BY <2>1, <1>5 DEF Making, EntryPlan, Telling
  <2> QED BY <1>9, <2>2, <2>3, <2>4 DEF Keeping
<1> QED BY <1>12, <1>13, <1>15, <1>16, <1>17 DEF IInv

LEMMA SecretKeeps == ASSUME IInv, storeSecret PROVE IInv'
<1>1. Types /\ OpInv /\ Listed /\ LoginsOnce BY DEF IInv
<1>2. /\ ~Idle /\ Done /\ Head(op.todo) \in {"secret", "second"}
      /\ made' = IF op.flow.link = NoValue THEN made ELSE made \cup {op.flow.link}
      /\ UNCHANGED <<entries, order, managed, inbox, memory, links, books, runs, ghosts>>
  BY DEF storeSecret, Doing
<1>3. PICK i : i = op.id OBVIOUS
<1>4. PICK x : x = op.todo OBVIOUS
<1>5. /\ i \in Ids /\ i \in Registered /\ entries[i].adapter = op.adapter
      /\ Storing(x, op.adapter) /\ Head(x) \in {"secret", "second"}
  BY <1>1, <1>2, <1>3, <1>4, Underlies
<1>6. PICK part \in {1, 2} : tokens' = [tokens EXCEPT ![i] = @ \cup {part}] /\ Owns(op.adapter, part)
  <2>1. Head(x) = "secret" => SecretPlan(x) /\ Owns(op.adapter, 1)
    BY <1>5 DEF Storing, SecondPlan, Begins
  <2>2. Head(x) = "second" => SecondPlan(x) /\ Owns(op.adapter, 2)
    BY <1>5 DEF Storing, SecretPlan, Begins
  <2> QED BY <1>3, <1>4, <2>1, <2>2 DEF storeSecret, Doing
<1>7. tokens'[i] = tokens[i] \cup {part} /\ \A j \in Ids \ {i} : tokens'[j] = tokens[j]
  BY <1>1, <1>5, <1>6 DEF Types, TypeOK
<1>8. Registered' = Registered BY <1>2 DEF Registered
<1>9. op' \in Ops /\ (op'.flow.link = NoValue \/ op'.flow.link = op.flow.link)
      /\ (Tail(x) # <<>> => op'.todo = Tail(x) /\ op'.id = i /\ op'.adapter = op.adapter)
      /\ (Tail(x) = <<>> => op' = NoOp)
  BY <1>1, <1>2, <1>3, <1>4, DoneLeaves
<1>10. Types'
  <2>1. tokens' \in [Ids -> SUBSET {1, 2}] BY <1>1, <1>6 DEF Types, TypeOK
  <2>2. made' \subseteq Links BY <1>1, <1>2 DEF Types, TypeOK, LoginsOnce
  <2> QED BY <1>1, <1>2, <1>8, <1>9, <2>1, <2>2 DEF Types, TypeOK, memory, ghosts, Ops
<1>11. Listed'
  <2>1. TokensListed' BY <1>1, <1>2, <1>5, <1>6, <1>7, <1>8 DEF Listed, TokensListed, Owns
  <2>2. WatchedOnce' BY <1>1, <1>2, <1>8 DEF Listed, WatchedOnce
  <2>3. RemovedIsShut' /\ LateRuns'
    BY <1>1, <1>2, <1>8 DEF Listed, RemovedIsShut, LateRuns, ghosts
  <2> QED BY <2>1, <2>2, <2>3 DEF Listed
<1>12. Dated' /\ FiguresTold'
  <2>1. ~Telling(op.todo) BY <1>2, TellingStarts
  <2> QED BY <1>2, <1>3, <1>8, <1>9, <2>1, NothingTold DEF ghosts
<1>13. LoginsOnce'
  <2>1. \A l \in made' : links'[l].stage = "spent" BY <1>1, <1>2 DEF LoginsOnce
  <2>2. \A f \in flows' : FlowOf(f)' BY <1>1, <1>2 DEF LoginsOnce, FlowOf, memory, ghosts
  <2>3. pendingPlaid # NoValue /\ pendingPlaid.state = "failed" => Failed(pendingPlaid.link)'
    <3>1. pendingPlaid # NoValue => pendingPlaid.link # NoValue
      <4>1. \A p \in Returns : p.link \in Links BY DEF Returns
      <4> QED BY <1>1, <4>1, Apart DEF Types, TypeOK
    <3> QED BY <1>1, <1>2, <1>9, <3>1 DEF LoginsOnce, Failed, ghosts, memory
  <2> QED BY <1>1, <1>2, <1>9, <2>1, <2>2, <2>3 DEF LoginsOnce, memory
<1>14. OpInv'
  <2>1. SUFFICES ASSUME Tail(x) # <<>> PROVE Keeping(i, Tail(x))'
    BY <1>1, <1>2, <1>3, <1>4, Continues DEF Underway
  <2>2. op'.adapter = op.adapter BY <2>1, <1>9
  <2>3. RefreshLast(Tail(x)) \/ Storing(Tail(x), op.adapter)
    BY <1>5 DEF Storing, SecondPlan, SecretPlan
  <2> QED BY <1>2, <1>5, <1>8, <2>2, <2>3 DEF Keeping
<1> QED BY <1>10, <1>11, <1>12, <1>13, <1>14 DEF IInv

LEMMA ManagedKeeps == ASSUME IInv, writeManagedAccounts PROVE IInv'
<1>1. Types /\ OpInv /\ Listed /\ Dated /\ FiguresTold BY DEF IInv
<1>2. /\ ~Idle /\ Done /\ Head(op.todo) = "managed"
      /\ UNCHANGED <<entries, order, tokens, inbox, memory, links, books, runs, ghosts, made>>
  BY DEF writeManagedAccounts, Doing
<1>3. PICK i : i = op.id OBVIOUS
<1>4. PICK x : x = op.todo OBVIOUS
<1>5. /\ i \in Ids /\ i \in Registered /\ entries[i].adapter = op.adapter
      /\ op.adapter = "managed" /\ Fresh(i) /\ SnapshotPlan(Tail(x))
  BY <1>1, <1>2, <1>3, <1>4, Underlies
<1>6. Tail(x) # <<>> BY <1>5 DEF SnapshotPlan, Begins
<1>7. /\ op' \in Ops /\ op'.todo = Tail(x) /\ op'.id = i /\ op'.adapter = op.adapter
      /\ (op'.flow.link = NoValue \/ op'.flow.link = op.flow.link)
  BY <1>1, <1>2, <1>3, <1>4, <1>6, DoneLeaves
<1>8. op.account \in Accounts /\ managed' = [managed EXCEPT ![i] = op.account]
  BY <1>1, <1>3 DEF OpInv, Ops, writeManagedAccounts
<1>9. \A j \in Ids \ {i} : managed'[j] = managed[j] BY <1>1, <1>8 DEF Types, TypeOK
<1>10. Registered' = Registered BY <1>2 DEF Registered
<1>11. Types'
  <2>1. managed' \in [Ids -> Accounts] BY <1>1, <1>8 DEF Types, TypeOK
  <2> QED BY <1>1, <1>2, <1>7, <1>10, <2>1 DEF Types, TypeOK, memory, ghosts, Ops
<1>12. Listed'
  <2>1. \A r \in runs' : r.id \in Registered \/ r.id \in late BY <1>1, <1>2 DEF Listed, LateRuns
  <2> QED BY <1>2, <2>1, ListKept DEF ghosts
<1>13. Dated' BY <1>1, <1>2 DEF Dated, ghosts
<1>14. FiguresTold'
  <2>1. Pending(i)' BY <1>5, <1>6, <1>7 DEF Pending, Idle, Telling
  <2>2. ASSUME NEW j \in Ids \ {i}, Kept(j)' PROVE Told(j)'
    <3>1. Kept(j) /\ ~Pending(j) BY <1>2, <1>3, <1>10, <2>2 DEF Kept, Pending, ghosts
    <3>2. Told(j) BY <1>1, <3>1 DEF FiguresTold
    <3> QED BY <1>2, <1>9, <3>2 DEF Told
  <2> QED BY <2>1, <2>2 DEF FiguresTold
<1>15. LoginsOnce' BY <1>2, <1>7, LoginsKept DEF memory, ghosts
<1>16. OpInv'
  <2>1. Fresh(i)' <=> Fresh(i) BY <1>2 DEF Fresh, ghosts
  <2>2. Keeping(i, Tail(x))' BY <1>2, <1>5, <1>7, <1>10, <2>1 DEF Keeping, Telling
  <2> QED BY <1>1, <1>2, <1>3, <1>4, <2>2, Continues DEF Underway
<1> QED BY <1>11, <1>12, <1>13, <1>14, <1>15, <1>16 DEF IInv

LEMMA SnapshotKeeps == ASSUME IInv, writeSnapshot PROVE IInv'
<1>1. Types /\ OpInv /\ Listed /\ Dated /\ FiguresTold BY DEF IInv
<1>2. /\ ~Idle /\ Done /\ Head(op.todo) = "snapshot" /\ acts' = acts
      /\ UNCHANGED <<entries, order, tokens, managed, memory, links, books, runs, twice, late, upsets, made>>
  BY DEF writeSnapshot, Doing
<1>3. PICK i : i = op.id OBVIOUS
<1>4. PICK x : x = op.todo OBVIOUS
<1>5. /\ i \in Ids /\ i \in Registered /\ entries[i].adapter = op.adapter
      /\ op.adapter = "managed" /\ Fresh(i) /\ (Tail(x) = <<>> \/ RefreshLast(Tail(x)))
  BY <1>1, <1>2, <1>3, <1>4, Underlies
<1>6. /\ op' \in Ops /\ (op'.flow.link = NoValue \/ op'.flow.link = op.flow.link)
      /\ (Tail(x) # <<>> => op'.todo = Tail(x) /\ op'.id = i /\ op'.adapter = op.adapter)
      /\ (Tail(x) = <<>> => op' = NoOp)
  BY <1>1, <1>2, <1>3, <1>4, DoneLeaves
<1> DEFINE s == [at |-> acts, amount |-> Figure(managed[i])]
<1>7. inbox' = [inbox EXCEPT ![i] = s] /\ cut' = cut \ {i} BY <1>2, <1>3 DEF writeSnapshot, NewFile
<1>8. acts \in 0 .. MaxActs /\ acts \in Nat BY <1>1, BoundsAssumption DEF Types, TypeOK
<1>9. s \in Snapshots /\ s # NoValue
  <2>1. managed[i] \in Accounts BY <1>1, <1>5 DEF Types, TypeOK
  <2>2. Figure(managed[i]) \in Amounts \cup {0, NoValue} BY <2>1 DEF Accounts, Figures, Figure
  <2>3. s \in Snapshots BY <1>8, <2>2 DEF Snapshots
  <2> HIDE DEF s
  <2> QED BY <2>3, Apart
<1>10. inbox'[i] = s /\ \A j \in Ids \ {i} : inbox'[j] = inbox[j] BY <1>1, <1>5, <1>7 DEF Types, TypeOK
<1>11. Registered' = Registered BY <1>2 DEF Registered
<1>12. Types'
  <2>1. inbox' \in [Ids -> Snapshots \cup {NoValue}]
    <3> HIDE DEF s
    <3> QED BY <1>1, <1>7, <1>9 DEF Types, TypeOK
  <2>2. cut' \cup late' \subseteq Ids BY <1>1, <1>2, <1>7 DEF Types, TypeOK
  <2> QED BY <1>1, <1>2, <1>6, <1>11, <2>1, <2>2 DEF Types, TypeOK, memory, Ops
<1>13. Listed'
  <2>1. \A r \in runs' : r.id \in Registered \/ r.id \in late BY <1>1, <1>2 DEF Listed, LateRuns
  <2> QED BY <1>2, <2>1, ListKept
<1>14. Dated'
  <2>1. s.at = acts OBVIOUS
  <2> HIDE DEF s
  <2>2. \A j \in Ids : inbox'[j] # NoValue => inbox'[j].at <= acts
    BY <1>1, <1>8, <1>10, <2>1 DEF Dated
  <2> QED BY <1>1, <1>2, <2>2 DEF Dated
<1>15. FiguresTold'
  <2>1. Told(i)'
    <3>1. inbox'[i].at = acts /\ inbox'[i].amount = Figure(managed'[i]) /\ inbox'[i] # NoValue
      BY <1>2, <1>9, <1>10
    <3>2. books[i].at \in Nat /\ books[i].at # acts
      BY <1>1, <1>5, <1>8 DEF Types, TypeOK, Snapshots, Fresh
    <3>3. ASSUME NEW r \in runs, r.id = i, r.snap # NoValue PROVE r.snap.at # acts
      <4>1. r.snap \in Snapshots BY <1>1, <3>3 DEF Types, TypeOK, Refreshes
      <4>2. r.snap.at \in Nat BY <4>1 DEF Snapshots
      <4> QED BY <1>5, <1>8, <3>3, <4>2 DEF Fresh
    <3> QED BY <1>2, <3>1, <3>2, <3>3 DEF Told
  <2>2. ASSUME NEW j \in Ids \ {i}, Kept(j)' PROVE Told(j)'
    <3>1. Kept(j) /\ ~Pending(j) BY <1>2, <1>3, <1>7, <1>11, <2>2 DEF Kept, Pending
    <3>2. Told(j) BY <1>1, <3>1 DEF FiguresTold
    <3> QED BY <1>2, <1>10, <3>2 DEF Told
  <2> QED BY <2>1, <2>2 DEF FiguresTold
<1>16. LoginsOnce' BY <1>2, <1>6, LoginsKept DEF memory
<1>17. OpInv'
  <2>1. SUFFICES ASSUME Tail(x) # <<>> PROVE Keeping(i, Tail(x))'
    BY <1>1, <1>2, <1>3, <1>4, Continues DEF Underway
  <2> QED BY <1>2, <1>5, <1>6, <1>11, <2>1 DEF Keeping
<1> QED BY <1>12, <1>13, <1>14, <1>15, <1>16, <1>17 DEF IInv

LEMMA BeginsRefresh == ASSUME IInv, refreshInstitution PROVE IInv'
<1>1. Types /\ OpInv /\ Listed BY DEF IInv
<1>2. /\ ~Idle /\ Done /\ Head(op.todo) = "refresh" /\ Cardinality(runs) < MaxRuns
      /\ UNCHANGED <<disk, memory, links, books, ghosts, made>>
  BY DEF refreshInstitution, Doing
<1>3. PICK i : i = op.id OBVIOUS
<1>4. PICK x : x = op.todo OBVIOUS
<1>5. i \in Ids /\ i \in Registered /\ Tail(x) = <<>> BY <1>1, <1>2, <1>3, <1>4, Underlies
<1>6. op' = NoOp BY <1>1, <1>2, <1>4, <1>5, DoneLeaves
<1>7. PICK q : q = [id |-> i, flow |-> op.flow, snap |-> NoValue, fetched |-> FALSE] OBVIOUS
<1>8. runs' = runs \cup {q} /\ q.id = i /\ q.snap = NoValue
  BY <1>3, <1>7 DEF refreshInstitution
<1>9. Registered' = Registered BY <1>2 DEF Registered, disk
<1>10. Types'
  <2>1. q \in Refreshes
    <3>1. op.flow \in Flows BY <1>1 DEF OpInv, Ops
    <3> QED BY <1>5, <1>7, <3>1 DEF Refreshes
  <2>2. IsFiniteSet(runs') /\ Cardinality(runs') <= MaxRuns
    <3>1. IsFiniteSet(runs) BY <1>1 DEF Types
    <3>2. IsFiniteSet(runs \cup {q})
          /\ Cardinality(runs \cup {q}) = IF q \in runs THEN Cardinality(runs) ELSE Cardinality(runs) + 1
      BY <3>1, FS_AddElement
    <3>3. Cardinality(runs) \in Nat BY <3>1, FS_CardinalityType
    <3> QED BY <1>2, <1>8, <3>2, <3>3, BoundsAssumption
  <2> QED BY <1>1, <1>2, <1>6, <1>8, <1>9, <2>1, <2>2, NothingUnderway
      DEF Types, TypeOK, memory, ghosts, Ops, disk
<1>11. Listed'
  <2>1. \A r \in runs' : r.id \in Registered \/ r.id \in late BY <1>1, <1>5, <1>8 DEF Listed, LateRuns
  <2> QED BY <1>2, <2>1, ListKept DEF ghosts, disk
<1>12. Dated' /\ FiguresTold'
  <2>1. ~Telling(op.todo) BY <1>2, TellingStarts
  <2>2. \A r \in runs' : r.snap # NoValue => r \in runs BY <1>8
  <2>3. \A j \in Ids : j \in Registered' /\ entries'[j].adapter = "managed"
           => j \in Registered /\ entries[j].adapter = "managed"
    BY <1>2, <1>9 DEF disk
  <2> QED BY <1>2, <1>3, <1>6, <2>1, <2>2, <2>3, NothingTold DEF ghosts, disk
<1>13. LoginsOnce' BY <1>2, <1>6, NothingUnderway, LoginsKept DEF memory, ghosts
<1>14. OpInv' BY <1>1, <1>2, <1>3, <1>4, <1>5, Continues
<1> QED BY <1>10, <1>11, <1>12, <1>13, <1>14 DEF IInv

LEMMA TokensKeep == ASSUME IInv, deleteTokens PROVE IInv'
<1>1. Types /\ OpInv /\ Listed BY DEF IInv
<1>2. /\ ~Idle /\ Done /\ Head(op.todo) = "tokens"
      /\ UNCHANGED <<entries, order, managed, inbox, memory, links, books, runs, ghosts, made>>
  BY DEF deleteTokens, Doing
<1>3. PICK i : i = op.id OBVIOUS
<1>4. PICK x : x = op.todo OBVIOUS
<1>5. i \in Ids /\ i \in Registered /\ entries[i].adapter = op.adapter /\ (Tail(x) = <<>> \/ ClosePlan(Tail(x)))
  BY <1>1, <1>2, <1>3, <1>4, Underlies
<1>6. /\ op' \in Ops /\ (op'.flow.link = NoValue \/ op'.flow.link = op.flow.link)
      /\ (Tail(x) # <<>> => op'.todo = Tail(x) /\ op'.id = i /\ op'.adapter = op.adapter)
      /\ (Tail(x) = <<>> => op' = NoOp)
  BY <1>1, <1>2, <1>3, <1>4, DoneLeaves
<1>7. tokens' = [tokens EXCEPT ![i] = {}] BY <1>3 DEF deleteTokens
<1>8. tokens'[i] = {} /\ \A j \in Ids \ {i} : tokens'[j] = tokens[j] BY <1>1, <1>5, <1>7 DEF Types, TypeOK
<1>9. Registered' = Registered BY <1>2 DEF Registered
<1>10. Types'
  <2>1. tokens' \in [Ids -> SUBSET {1, 2}] BY <1>1, <1>7 DEF Types, TypeOK
  <2> QED BY <1>1, <1>2, <1>6, <1>9, <2>1 DEF Types, TypeOK, memory, ghosts, Ops
<1>11. Listed'
  <2>1. TokensListed' BY <1>1, <1>2, <1>8, <1>9 DEF Listed, TokensListed
  <2>2. WatchedOnce' BY <1>1, <1>2, <1>9 DEF Listed, WatchedOnce
  <2>3. RemovedIsShut' /\ LateRuns'
    BY <1>1, <1>2, <1>9 DEF Listed, RemovedIsShut, LateRuns, ghosts
  <2> QED BY <2>1, <2>2, <2>3 DEF Listed
<1>12. Dated' /\ FiguresTold'
  <2>1. ~Telling(op.todo) BY <1>2, TellingStarts
  <2> QED BY <1>2, <1>3, <1>6, <1>9, <2>1, NothingTold DEF ghosts
<1>13. LoginsOnce' BY <1>2, <1>6, LoginsKept DEF memory, ghosts
<1>14. OpInv'
  <2>1. SUFFICES ASSUME Tail(x) # <<>> PROVE Keeping(i, Tail(x))'
    BY <1>1, <1>2, <1>3, <1>4, Continues DEF Underway
  <2> QED BY <1>2, <1>5, <1>6, <1>8, <1>9, <2>1 DEF Keeping
<1> QED BY <1>10, <1>11, <1>12, <1>13, <1>14 DEF IInv

LEMMA CloseKeeps == ASSUME IInv, CloseBooks PROVE IInv'
<1>1. Types /\ OpInv /\ Listed /\ Dated /\ FiguresTold BY DEF IInv
<1>2. /\ ~Idle /\ Done /\ Head(op.todo) = "close"
      /\ UNCHANGED <<disk, memory, links, runs, acts, twice, cut, upsets, made>>
  BY DEF CloseBooks, Doing
<1>3. PICK i : i = op.id OBVIOUS
<1>4. PICK x : x = op.todo OBVIOUS
<1>5. /\ i \in Ids /\ i \in Registered /\ entries[i].adapter = op.adapter
      /\ RemovePlan(Tail(x)) /\ tokens[i] = {}
  BY <1>1, <1>2, <1>3, <1>4, Underlies
<1>6. Tail(x) # <<>> BY <1>5 DEF RemovePlan, Begins, Ends
<1>7. /\ op' \in Ops /\ op'.todo = Tail(x) /\ op'.id = i /\ op'.adapter = op.adapter
      /\ (op'.flow.link = NoValue \/ op'.flow.link = op.flow.link)
  BY <1>1, <1>2, <1>3, <1>4, <1>6, DoneLeaves
<1>8. /\ books' = [books EXCEPT ![i] = [at |-> books[i].at, amount |-> NoValue]]
      /\ late' = IF \E r \in runs : r.id = i THEN late \cup {i} ELSE late
  BY <1>3 DEF CloseBooks
<1>9. /\ books'[i].at = books[i].at /\ books'[i].amount = NoValue
      /\ \A j \in Ids \ {i} : books'[j] = books[j]
  BY <1>1, <1>5, <1>8 DEF Types, TypeOK
<1>10. Registered' = Registered BY <1>2 DEF Registered, disk
<1>11. Types'
  <2>1. books' \in [Ids -> Snapshots]
    <3>1. books \in [Ids -> Snapshots] /\ books[i] \in Snapshots BY <1>1, <1>5 DEF Types, TypeOK
    <3>2. [at |-> books[i].at, amount |-> NoValue] \in Snapshots BY <3>1 DEF Snapshots
    <3> QED BY <1>8, <3>1, <3>2
  <2>2. cut' \cup late' \subseteq Ids BY <1>1, <1>2, <1>5, <1>8 DEF Types, TypeOK
  <2> QED BY <1>1, <1>2, <1>7, <1>10, <2>1, <2>2 DEF Types, TypeOK, memory, Ops, disk
<1>12. Listed'
  <2>1. TokensListed' BY <1>1, <1>2, <1>10 DEF Listed, TokensListed, disk
  <2>2. WatchedOnce' BY <1>1, <1>2, <1>10 DEF Listed, WatchedOnce, disk
  <2>3. late \subseteq late' BY <1>8
  <2>4. RemovedIsShut' BY <1>1, <1>5, <1>9, <1>10, <2>3 DEF Listed, RemovedIsShut
  <2>5. LateRuns' BY <1>1, <1>2, <1>10, <2>3 DEF Listed, LateRuns
  <2> QED BY <2>1, <2>2, <2>4, <2>5 DEF Listed
<1>13. \A j \in Ids : books'[j].at = books[j].at /\ (books'[j].amount # NoValue => books'[j] = books[j])
  BY <1>9
<1>14. Dated' BY <1>1, <1>2, <1>13 DEF Dated, disk
<1>15. FiguresTold'
  <2>1. ~Telling(op.todo) BY <1>2, TellingStarts
  <2>2. ASSUME NEW j \in Ids, Kept(j)' PROVE Told(j)'
    <3>1. Kept(j) /\ ~Pending(j) BY <1>2, <1>10, <2>1, <2>2 DEF Kept, Pending, disk
    <3>2. Told(j) BY <1>1, <3>1 DEF FiguresTold
    <3> QED BY <1>2, <1>13, <3>2 DEF Told, disk
  <2> QED BY <2>2 DEF FiguresTold
<1>16. LoginsOnce' BY <1>2, <1>7, LoginsKept DEF memory
<1>17. OpInv'
  <2>1. i \notin late' => \A r \in runs' : r.id # i BY <1>2, <1>8
  <2>2. Keeping(i, Tail(x))' BY <1>2, <1>5, <1>7, <1>9, <1>10, <2>1 DEF Keeping, disk
  <2> QED BY <1>1, <1>2, <1>3, <1>4, <2>2, Continues DEF Underway
<1> QED BY <1>11, <1>12, <1>14, <1>15, <1>16, <1>17 DEF IInv

LEMMA RemovalKeeps == ASSUME IInv, RemoveEntry PROVE IInv'
<1>1. Types /\ OpInv /\ Listed BY DEF IInv
<1>2. /\ ~Idle /\ Done /\ Head(op.todo) = "remove"
      /\ UNCHANGED <<tokens, managed, inbox, memory, links, books, runs, ghosts, made>>
  BY DEF RemoveEntry, Doing
<1>3. PICK i : i = op.id OBVIOUS
<1>4. PICK x : x = op.todo OBVIOUS
<1>5. /\ i \in Ids /\ i \in Registered /\ Tail(x) = <<>> /\ tokens[i] = {}
      /\ i \notin late => books[i].amount = NoValue /\ \A r \in runs : r.id # i
  BY <1>1, <1>2, <1>3, <1>4, Underlies
<1>6. op' = NoOp BY <1>1, <1>2, <1>4, <1>5, DoneLeaves
<1>7. PICK k \in DOMAIN order :
         order[k] = i /\ entries' = [entries EXCEPT ![i] = NoValue] /\ order' = RemoveAt(order, k)
  BY <1>3 DEF RemoveEntry, removeInstitutionEntry
<1>8. entries'[i] = NoValue /\ \A j \in Ids \ {i} : entries'[j] = entries[j]
  BY <1>1, <1>5, <1>7 DEF Types, TypeOK
<1>9. Registered' = Registered \ {i} BY <1>5, <1>8 DEF Registered
<1>10. Types'
  <2>1. Lists(order, Registered) BY <1>1 DEF Lists, Types, TypeOK
  <2>2. Lists(order', Registered') BY <2>1, <1>7, <1>9, RegisteredFinite, RemoveLists
  <2>3. entries' \in [Ids -> InstitutionEntry \cup {NoValue}] BY <1>1, <1>7 DEF Types, TypeOK
  <2> QED BY <1>1, <1>2, <1>6, <2>2, <2>3, NothingUnderway DEF Types, TypeOK, Lists, memory, ghosts, Ops
<1>11. Listed'
  <2>1. TokensListed' BY <1>1, <1>2, <1>5, <1>8, <1>9 DEF Listed, TokensListed
  <2>2. WatchedOnce' BY <1>1, <1>8, <1>9 DEF Listed, WatchedOnce, Registered
  <2>3. RemovedIsShut' /\ LateRuns'
    BY <1>1, <1>2, <1>5, <1>9 DEF Listed, RemovedIsShut, LateRuns, ghosts
  <2> QED BY <2>1, <2>2, <2>3 DEF Listed
<1>12. Dated' /\ FiguresTold'
  <2>1. ~Telling(op.todo) BY <1>2, TellingStarts
  <2>2. \A j \in Ids : j \in Registered' /\ entries'[j].adapter = "managed"
           => j \in Registered /\ entries[j].adapter = "managed"
    BY <1>8, <1>9
  <2> QED BY <1>2, <1>3, <1>6, <2>1, <2>2, NothingTold DEF ghosts
<1>13. LoginsOnce' BY <1>2, <1>6, NothingUnderway, LoginsKept DEF memory, ghosts
<1>14. OpInv' BY <1>1, <1>2, <1>3, <1>4, <1>5, Continues
<1> QED BY <1>10, <1>11, <1>12, <1>13, <1>14 DEF IInv

LEMMA EffectKeeps == ASSUME IInv, Effect PROVE IInv'
BY EntryKeeps, SecretKeeps, ManagedKeeps, SnapshotKeeps, BeginsRefresh, TokensKeep, CloseKeeps,
   RemovalKeeps DEF Effect

-----------------------------------------------------------------------------
(* What happens between two operations.                                    *)

(* With nothing under way, figures stay told where nothing is dated.       *)
LEMMA FiguresRest ==
  ASSUME IInv, Idle, acts' \in {acts, acts + 1}, UNCHANGED <<managed, inbox, books, cut>>,
         \A r \in runs' : r.snap # NoValue => r \in runs,
         \A j \in Ids : j \in Registered' /\ entries'[j].adapter = "managed"
           => j \in Registered /\ entries[j].adapter = "managed"
  PROVE  Dated' /\ FiguresTold'
<1>1. acts \in Nat BY BoundsAssumption DEF IInv, Types, TypeOK
<1>2. \A j \in Ids : (Kept(j) /\ ~Pending(j))' => Kept(j) /\ ~Pending(j)
  <2>1. \A j \in Ids : Kept(j)' => Kept(j) BY DEF Kept
  <2> QED BY <2>1 DEF Pending
<1> QED BY <1>1, <1>2, FiguresKept

LEMMA ReorderKeeps == ASSUME IInv, reorderInstitutionEntries PROVE IInv'
<1>1. Types /\ OpInv /\ Listed BY DEF IInv
<1>2. /\ Idle /\ acts < MaxActs /\ acts' = acts + 1
      /\ UNCHANGED <<entries, tokens, managed, inbox, memory, links, books, runs, op, twice, cut, late, upsets, made>>
  BY DEF reorderInstitutionEntries, Acts
<1>3. Registered' = Registered BY <1>2 DEF Registered
<1>4. Types'
  <2>1. PICK S \in SUBSET Registered : \E list \in SetToSeqs(S) : order' = Reordered(list)
    BY DEF reorderInstitutionEntries
  <2>2. PICK list \in SetToSeqs(S) : order' = Reordered(list) BY <2>1
  <2>3. Lists(order, Registered) BY <1>1 DEF Lists, Types, TypeOK
  <2>4. Lists(Reordered(list), Registered) BY <2>1, <2>2, <2>3, RegisteredFinite, ReorderedLists
  <2>5. acts' \in 0 .. MaxActs BY <1>1, <1>2, BoundsAssumption DEF Types, TypeOK
  <2>6. Lists(order', Registered') BY <1>3, <2>2, <2>4
  <2> QED BY <1>1, <1>2, <2>5, <2>6 DEF Types, TypeOK, Lists, memory
<1>5. Listed'
  <2>1. \A r \in runs' : r.id \in Registered \/ r.id \in late BY <1>1, <1>2 DEF Listed, LateRuns
  <2> QED BY <1>2, <2>1, ListKept
<1>6. Dated' /\ FiguresTold' BY <1>2, <1>3, FiguresRest
<1>7. LoginsOnce' BY <1>2, LoginsKept DEF memory
<1>8. OpInv' BY <1>1, <1>2, OpRests
<1> QED BY <1>4, <1>5, <1>6, <1>7, <1>8 DEF IInv

LEMMA EnabledKeeps == ASSUME IInv, NEW i \in Ids, setInstitutionEnabled(i) PROVE IInv'
<1>1. Types /\ OpInv /\ Listed BY DEF IInv
<1>2. /\ Idle /\ acts < MaxActs /\ acts' = acts + 1 /\ i \in Registered
      /\ UNCHANGED <<order, tokens, managed, inbox, memory, links, books, runs, op, twice, cut, late, upsets, made>>
  BY DEF setInstitutionEnabled, Acts
<1> DEFINE e == [entries[i] EXCEPT !.enabled = ~entries[i].enabled]
<1>3. entries' = [entries EXCEPT ![i] = e] BY DEF setInstitutionEnabled
<1>4. entries[i] \in InstitutionEntry BY <1>1, <1>2 DEF Types, TypeOK, Registered
<1>5. /\ e \in InstitutionEntry /\ e.adapter = entries[i].adapter /\ e.holdings = entries[i].holdings
  BY <1>4 DEF InstitutionEntry
<1> HIDE DEF e
<1>6. e # NoValue BY <1>5, Apart
<1>7. entries'[i] = e /\ \A j \in Ids \ {i} : entries'[j] = entries[j] BY <1>1, <1>3 DEF Types, TypeOK
<1>8. Registered' = Registered BY <1>2, <1>6, <1>7 DEF Registered
<1>9. \A j \in Ids : entries'[j].adapter = entries[j].adapter /\ entries'[j].holdings = entries[j].holdings
  BY <1>5, <1>7
<1>10. Types'
  <2>1. entries' \in [Ids -> InstitutionEntry \cup {NoValue}] BY <1>1, <1>3, <1>5 DEF Types, TypeOK
  <2>2. acts' \in 0 .. MaxActs BY <1>1, <1>2, BoundsAssumption DEF Types, TypeOK
  <2> QED BY <1>1, <1>2, <1>8, <2>1, <2>2 DEF Types, TypeOK, memory
<1>11. Listed'
  <2>1. TokensListed' BY <1>1, <1>2, <1>8, <1>9 DEF Listed, TokensListed
  <2>2. WatchedOnce'
    <3>1. Registered \subseteq Ids BY RegisteredFinite
    <3> QED BY <1>1, <1>8, <1>9, <3>1 DEF Listed, WatchedOnce
  <2>3. RemovedIsShut' /\ LateRuns' BY <1>1, <1>2, <1>8 DEF Listed, RemovedIsShut, LateRuns
  <2> QED BY <2>1, <2>2, <2>3 DEF Listed
<1>12. Dated' /\ FiguresTold' BY <1>2, <1>8, <1>9, FiguresRest
<1>13. LoginsOnce' BY <1>2, LoginsKept DEF memory
<1>14. OpInv' BY <1>1, <1>2, OpRests
<1> QED BY <1>10, <1>11, <1>12, <1>13, <1>14 DEF IInv

LEMMA FileKeeps == ASSUME IInv, NEW i \in Ids, storeInstitutionFile(i) PROVE IInv'
<1>1. Types /\ OpInv /\ Listed /\ Dated /\ FiguresTold BY DEF IInv
<1>2. /\ Idle /\ acts < MaxActs /\ acts' = acts + 1 /\ i \in Registered /\ entries[i].adapter = "files"
      /\ UNCHANGED <<entries, order, tokens, managed, memory, links, books, runs, op, twice, late, cut, upsets, made>>
  BY DEF storeInstitutionFile, Acts
<1>3. acts \in Nat /\ acts' \in 0 .. MaxActs /\ acts <= acts'
  BY <1>1, <1>2, BoundsAssumption DEF Types, TypeOK
<1>4. PICK v \in Amounts : NewFile(i, v) BY DEF storeInstitutionFile
<1>5. PICK s : s = [at |-> acts + 1, amount |-> v] OBVIOUS
<1>6. inbox' = [inbox EXCEPT ![i] = s] BY <1>2, <1>4, <1>5 DEF NewFile
<1>7. s \in Snapshots /\ s.at = acts' BY <1>2, <1>3, <1>5 DEF Snapshots
<1>8. inbox'[i] = s /\ \A j \in Ids \ {i} : inbox'[j] = inbox[j] BY <1>1, <1>6 DEF Types, TypeOK
<1>9. Registered' = Registered BY <1>2 DEF Registered
<1>10. Types'
  <2>1. inbox' \in [Ids -> Snapshots \cup {NoValue}] BY <1>1, <1>6, <1>7 DEF Types, TypeOK
  <2> QED BY <1>1, <1>2, <1>3, <1>9, <2>1 DEF Types, TypeOK, memory
<1>11. Listed'
  <2>1. \A r \in runs' : r.id \in Registered \/ r.id \in late BY <1>1, <1>2 DEF Listed, LateRuns
  <2> QED BY <1>2, <2>1, ListKept
<1>12. Dated'
  <2>1. \A j \in Ids : books[j].at \in Nat /\ (inbox[j] # NoValue => inbox[j].at \in Nat)
    <3>1. \A t \in Snapshots : t.at \in Nat BY DEF Snapshots
    <3> QED BY <1>1, <3>1 DEF Types, TypeOK
  <2>2. \A r \in runs : r.snap # NoValue => r.snap.at \in Nat
    BY <1>1 DEF Types, TypeOK, Refreshes, Snapshots
  <2>3. \A j \in Ids : books'[j].at <= acts' BY <1>1, <1>2, <1>3, <2>1 DEF Dated
  <2>4. \A j \in Ids : inbox'[j] # NoValue => inbox'[j].at <= acts'
    BY <1>1, <1>2, <1>3, <1>7, <1>8, <2>1 DEF Dated
  <2>5. \A r \in runs' : r.snap # NoValue => r.snap.at <= acts' BY <1>1, <1>2, <1>3, <2>2 DEF Dated
  <2> QED BY <2>3, <2>4, <2>5 DEF Dated
<1>13. FiguresTold'
  <2>1. ASSUME NEW j \in Ids, Kept(j)' PROVE Told(j)'
    <3>1. Kept(j) /\ j # i BY <1>2, <1>9, <2>1 DEF Kept
    <3>2. Told(j) BY <1>1, <1>2, <3>1 DEF FiguresTold, Pending
    <3> QED BY <1>2, <1>8, <3>1, <3>2 DEF Told
  <2> QED BY <2>1 DEF FiguresTold
<1>14. LoginsOnce' BY <1>2, LoginsKept DEF memory
<1>15. OpInv' BY <1>1, <1>2, OpRests
<1> QED BY <1>10, <1>11, <1>12, <1>13, <1>14, <1>15 DEF IInv

-----------------------------------------------------------------------------
(* Logins.                                                                 *)

(* The books and the registry where only logins move.                      *)
LEMMA Elsewhere ==
  ASSUME IInv, Idle, UNCHANGED <<disk, books, runs, cut, late>>, acts' \in {acts, acts + 1}
  PROVE  Listed' /\ Dated' /\ FiguresTold'
<1>1. \A r \in runs' : r.id \in Registered \/ r.id \in late BY DEF IInv, Listed, LateRuns
<1>2. Listed' BY <1>1, ListKept DEF disk
<1>3. Registered' = Registered BY DEF Registered, disk
<1>4. Dated' /\ FiguresTold' BY <1>3, FiguresRest DEF disk
<1> QED BY <1>2, <1>4

(* A link that is started has not been anything's before.                  *)
LEMMA StartedOnce ==
  ASSUME IInv, NEW l \in Links, NEW e \in Logins,
         links[l].stage \in {"none", "open"}, e.stage = "finished" \/ (links[l].stage = "none" /\ e.stage = "open"),
         links' = [links EXCEPT ![l] = e],
         UNCHANGED <<flows, op, made, twice>>,
         pendingPlaid' # NoValue /\ pendingPlaid'.state = "failed" => pendingPlaid' = pendingPlaid
  PROVE  LoginsOnce' /\ links' \in [Links -> Logins]
<1>1. Types /\ LoginsOnce BY DEF IInv
<1>2. links' \in [Links -> Logins] /\ links'[l] = e /\ \A m \in Links \ {l} : links'[m] = links[m]
  BY <1>1 DEF Types, TypeOK
<1>3. \A m \in Links : links[m].stage = "spent" => links'[m].stage = "spent" BY <1>2
<1>4. \A m \in made' : links'[m].stage = "spent" BY <1>1, <1>3 DEF Types, TypeOK, LoginsOnce
<1>5. \A f \in flows' : FlowOf(f)'
  <2>1. ASSUME NEW f \in flows PROVE FlowOf(f)'
    <3>1. FlowOf(f) BY <1>1 DEF LoginsOnce
    <3>2. CASE f.link = l BY <1>2, <3>1, <3>2 DEF FlowOf
    <3>3. CASE f.link # l BY <1>2, <3>1, <3>3 DEF FlowOf
    <3> QED BY <3>2, <3>3
  <2> QED BY <2>1
<1>6. pendingPlaid' # NoValue /\ pendingPlaid'.state = "failed" => Failed(pendingPlaid.link)'
  <2>1. SUFFICES ASSUME pendingPlaid' # NoValue, pendingPlaid'.state = "failed"
                 PROVE  Failed(pendingPlaid.link)'
    OBVIOUS
  <2>2. pendingPlaid' = pendingPlaid /\ Failed(pendingPlaid.link) BY <1>1, <2>1 DEF LoginsOnce
  <2>3. pendingPlaid.link \in Links BY <1>1, <2>1, <2>2 DEF Types, TypeOK, Returns
  <2> QED BY <1>3, <2>2, <2>3 DEF Failed
<1>7. op'.flow.link # NoValue => op'.flow.link \in Links /\ links'[op'.flow.link].stage = "spent"
  BY <1>1, <1>3 DEF LoginsOnce
<1> QED BY <1>2, <1>4, <1>5, <1>6, <1>7 DEF LoginsOnce

LEMMA PlaidStartKeeps == ASSUME IInv, connectPlaidStart PROVE IInv'
<1>1. Types /\ OpInv BY DEF IInv
<1>2. /\ Idle /\ acts < MaxActs /\ acts' = acts + 1
      /\ UNCHANGED <<disk, pendingEb, flows, books, runs, op, twice, cut, late, upsets, made>>
  BY DEF connectPlaidStart, Acts
<1>3. PICK l \in Links, target \in Ids \cup {NoValue} :
         /\ links[l].stage = "none"
         /\ links' = [links EXCEPT ![l] = [kind |-> "plaid", target |-> target, stage |-> "open"]]
         /\ \/ pendingPlaid' = [link |-> l, target |-> target, state |-> "waiting"]
            \/ pendingPlaid' = NoValue
  BY DEF connectPlaidStart
<1>4. PICK e : e = [kind |-> "plaid", target |-> target, stage |-> "open"] OBVIOUS
<1>5. e \in Logins /\ e.stage = "open" BY <1>4 DEF Logins
<1>6. pendingPlaid' \in Returns \cup {NoValue} BY <1>3 DEF Returns
<1>7. pendingPlaid' = NoValue \/ pendingPlaid'.state # "failed" BY <1>3
<1>8. links' = [links EXCEPT ![l] = e] BY <1>3, <1>4
<1>9. LoginsOnce' /\ links' \in [Links -> Logins] BY <1>2, <1>3, <1>5, <1>7, <1>8, StartedOnce
<1>10. Types'
  <2>1. acts' \in 0 .. MaxActs BY <1>1, <1>2, BoundsAssumption DEF Types, TypeOK
  <2> QED BY <1>1, <1>2, <1>6, <1>9, <2>1 DEF Types, TypeOK, disk, Registered
<1>11. Listed' /\ Dated' /\ FiguresTold' BY <1>2, Elsewhere
<1>12. OpInv' BY <1>1, <1>2, OpRests
<1> QED BY <1>9, <1>10, <1>11, <1>12 DEF IInv

LEMMA EbStartKeeps == ASSUME IInv, connectEbStart PROVE IInv'
<1>1. Types /\ OpInv BY DEF IInv
<1>2. /\ Idle /\ acts < MaxActs /\ acts' = acts + 1
      /\ UNCHANGED <<disk, pendingPlaid, flows, books, runs, op, twice, cut, late, upsets, made>>
  BY DEF connectEbStart, Acts
<1>3. PICK l \in Links, target \in Ids \cup {NoValue} :
         /\ links[l].stage = "none"
         /\ links' = [links EXCEPT ![l] = [kind |-> "enablebanking", target |-> target, stage |-> "open"]]
         /\ pendingEb' = pendingEb \cup {l}
  BY DEF connectEbStart
<1>4. PICK e : e = [kind |-> "enablebanking", target |-> target, stage |-> "open"] OBVIOUS
<1>5. e \in Logins /\ e.stage = "open" BY <1>4 DEF Logins
<1>6. links' = [links EXCEPT ![l] = e] BY <1>3, <1>4
<1>7. LoginsOnce' /\ links' \in [Links -> Logins] BY <1>2, <1>3, <1>5, <1>6, StartedOnce
<1>8. Types'
  <2>1. acts' \in 0 .. MaxActs BY <1>1, <1>2, BoundsAssumption DEF Types, TypeOK
  <2> QED BY <1>1, <1>2, <1>3, <1>7, <2>1 DEF Types, TypeOK, disk, Registered
<1>9. Listed' /\ Dated' /\ FiguresTold' BY <1>2, Elsewhere
<1>10. OpInv' BY <1>1, <1>2, OpRests
<1> QED BY <1>7, <1>8, <1>9, <1>10 DEF IInv

(* The one thing that happens while an operation is under way.             *)
LEMMA LogInKeeps == ASSUME IInv, NEW l \in Links, LogIn(l) PROVE IInv'
<1>1. Types /\ OpInv /\ Listed /\ Dated /\ FiguresTold BY DEF IInv
<1>2. links[l].stage = "open" /\ UNCHANGED <<disk, memory, books, runs, op, ghosts, made>> BY DEF LogIn
<1>3. PICK e : e = [links[l] EXCEPT !.stage = "finished"] OBVIOUS
<1>4. e \in Logins /\ e.stage = "finished"
  <2>1. links[l] \in Logins BY <1>1 DEF Types, TypeOK
  <2> QED BY <1>3, <2>1 DEF Logins
<1>5. links' = [links EXCEPT ![l] = e] BY <1>3 DEF LogIn
<1>6. LoginsOnce' /\ links' \in [Links -> Logins]
  <2>1. UNCHANGED <<flows, op, made, twice>> /\ pendingPlaid' = pendingPlaid BY <1>2 DEF memory, ghosts
  <2>2. /\ links[l].stage \in {"none", "open"}
        /\ e.stage = "finished" \/ (links[l].stage = "none" /\ e.stage = "open")
    BY <1>2, <1>4
  <2>3. pendingPlaid' # NoValue /\ pendingPlaid'.state = "failed" => pendingPlaid' = pendingPlaid
    BY <2>1
  <2> QED BY <1>4, <1>5, <2>1, <2>2, <2>3, StartedOnce
<1>7. Types' BY <1>1, <1>2, <1>6 DEF Types, TypeOK, disk, memory, ghosts, Registered
<1>8. Registered' = Registered BY <1>2 DEF Registered, disk
<1>9. Listed'
  BY <1>1, <1>2, <1>8 DEF Listed, TokensListed, WatchedOnce, RemovedIsShut, LateRuns, disk, ghosts
<1>10. Dated' BY <1>1, <1>2 DEF Dated, disk, ghosts
<1>11. FiguresTold'
  BY <1>1, <1>2, <1>8 DEF FiguresTold, Kept, Pending, Told, Idle, disk, ghosts
<1>12. OpInv'
  <2>1. Idle' <=> Idle BY <1>2 DEF Idle
  <2>2. PICK i : i = op.id OBVIOUS
  <2>3. PICK x : x = op.todo OBVIOUS
  <2>4. ASSUME Underway(i, x) PROVE Underway(i, x)'
    <3>1. Fresh(i)' <=> Fresh(i) BY <1>2 DEF Fresh, ghosts
    <3>2. Making(i, x)' <=> Making(i, x) BY <1>2, <1>8, <3>1 DEF Making, disk
    <3>3. Keeping(i, x)' <=> Keeping(i, x) BY <1>2, <1>8, <3>1 DEF Keeping, disk, ghosts
    <3> QED BY <2>4, <3>2, <3>3 DEF Underway
  <2>5. CASE Idle BY <1>1, <1>2, <2>5, OpRests
  <2>6. CASE ~Idle
    <3>1. Underway(i, x) BY <1>1, <2>2, <2>3, <2>6 DEF OpInv
    <3>2. op'.id = i /\ op'.todo = x BY <1>2, <2>2, <2>3
    <3>3. Underway(op.id, op.todo)' BY <2>4, <3>1, <3>2
    <3> QED BY <1>1, <1>2, <2>1, <2>6, <3>3 DEF OpInv
  <2> QED BY <2>5, <2>6
<1> QED BY <1>6, <1>7, <1>9, <1>10, <1>11, <1>12 DEF IInv

(* A login finished again is in two places, and counted as such.           *)
LEMMA FinishingKeeps ==
  ASSUME IInv, Acts, NEW f \in Flows, f.link \in Links,
         f.auto > 0 => links[f.link].stage \in {"finished", "spent"}, Finishing(f),
         UNCHANGED <<disk, pendingEb, pendingPlaid, links, books, runs, op, cut, late, upsets, made>>
  PROVE  IInv'
<1>1. Types /\ OpInv /\ LoginsOnce BY DEF IInv
<1>2. Idle /\ acts < MaxActs /\ acts' = acts + 1 BY DEF Acts
<1> DEFINE others == {g \in flows \cup {r.flow : r \in runs} \cup {op.flow} : g.link = f.link}
<1>3. /\ flows' = flows \cup {f}
      /\ twice' = IF others = {} /\ links[f.link].stage # "spent" THEN twice ELSE twice \cup {f.link}
  BY DEF Finishing
<1>4. \A g \in flows : g.link = f.link => others # {} OBVIOUS
<1> HIDE DEF others
<1>5. twice \subseteq twice' /\ twice' \subseteq Links BY <1>1, <1>3 DEF Types, TypeOK
<1>6. Types'
  <2>1. acts' \in 0 .. MaxActs BY <1>1, <1>2, BoundsAssumption DEF Types, TypeOK
  <2> QED BY <1>1, <1>3, <1>5, <2>1 DEF Types, TypeOK, disk, Registered
<1>7. LoginsOnce'
  <2>1. ASSUME NEW g \in flows, g.link = f.link PROVE FlowOf(g)'
    <3>1. f.link \in twice' BY <1>3, <1>4, <2>1
    <3> QED BY <1>1, <2>1, <3>1 DEF LoginsOnce, FlowOf
  <2>2. ASSUME NEW g \in flows, g.link # f.link PROVE FlowOf(g)'
    BY <1>1, <1>3, <1>5, <2>2 DEF LoginsOnce, FlowOf
  <2>3. FlowOf(f)'
    <3>1. SUFFICES ASSUME f.link \notin twice'
                   PROVE  /\ links[f.link].stage # "spent"
                          /\ f.auto > 0 => links[f.link].stage = "finished"
                          /\ \A g \in flows' : g.link = f.link => g = f
      BY DEF FlowOf
    <3>2. others = {} /\ links[f.link].stage # "spent" BY <1>3, <3>1
    <3>3. \A g \in flows : g.link # f.link BY <1>4, <3>2
    <3> QED BY <1>3, <3>2, <3>3
  <2>4. pendingPlaid # NoValue /\ pendingPlaid.state = "failed" => Failed(pendingPlaid.link)'
    <3>1. \A l \in Links : Failed(l) => Failed(l)' BY <1>5 DEF Failed
    <3>2. pendingPlaid # NoValue => pendingPlaid.link \in Links BY <1>1 DEF Types, TypeOK, Returns
    <3> QED BY <1>1, <3>1, <3>2 DEF LoginsOnce
  <2> QED BY <1>1, <1>3, <2>1, <2>2, <2>3, <2>4 DEF LoginsOnce
<1>8. Listed' /\ Dated' /\ FiguresTold' BY <1>2, Elsewhere
<1>9. OpInv' BY <1>1, <1>2, OpRests
<1> QED BY <1>6, <1>7, <1>8, <1>9 DEF IInv

LEMMA ReturnKeeps == ASSUME IInv, onPlaidReturn PROVE IInv'
<1>1. /\ Acts /\ pendingPlaid # NoValue /\ links[pendingPlaid.link].stage \in {"finished", "spent"}
      /\ UNCHANGED <<disk, pendingEb, pendingPlaid, links, books, runs, op, cut, late, upsets, made>>
  BY DEF onPlaidReturn
<1>2. PICK n \in 1 .. 2 : Finishing([link |-> pendingPlaid.link, target |-> pendingPlaid.target, auto |-> n])
  BY DEF onPlaidReturn
<1>3. PICK f : f = [link |-> pendingPlaid.link, target |-> pendingPlaid.target, auto |-> n] OBVIOUS
<1>4. pendingPlaid.link \in Links /\ pendingPlaid.target \in Ids \cup {NoValue}
  BY <1>1 DEF IInv, Types, TypeOK, Returns
<1>5. f \in Flows /\ f.link \in Links /\ links[f.link].stage \in {"finished", "spent"}
  BY <1>1, <1>3, <1>4 DEF Flows
<1>6. Finishing(f) BY <1>2, <1>3
<1> QED BY <1>1, <1>5, <1>6, FinishingKeeps

LEMMA CompleteKeeps == ASSUME IInv, NEW l \in Links, connectComplete(l) PROVE IInv'
<1>1. PICK f : f = [link |-> l, target |-> links[l].target, auto |-> 0] OBVIOUS
<1>2. /\ Acts /\ Finishing(f)
      /\ UNCHANGED <<disk, pendingEb, pendingPlaid, links, books, runs, op, cut, late, upsets, made>>
  BY <1>1 DEF connectComplete
<1>3. links[l].target \in Ids \cup {NoValue} BY DEF IInv, Types, TypeOK, Logins
<1>4. f \in Flows /\ f.link \in Links /\ f.auto = 0 BY <1>1, <1>3 DEF Flows
<1> QED BY <1>2, <1>4, FinishingKeeps

(* What the exchange of a login begins.                                    *)
LEMMA ExchangeBegins ==
  ASSUME IInv, Idle, NEW f \in Flows, NEW a \in {"plaid", "enablebanking"},
         UNCHANGED <<entries, tokens, books, runs>>,
         \/ /\ f.target \in Registered /\ entries[f.target].adapter = a
            /\ Begin(f.target, a, f, NoValue, {}, Tail(NewConnection(a)))
         \/ FreeIds # {} /\ Begin(institutionIdFor, a, f, NoValue, {}, NewConnection(a))
  PROVE  OpInv' /\ op'.flow = f
<1>1. a \in Adapters /\ a \notin {"managed", "files"} BY DEF Adapters
<1> DEFINE t == NewConnection(a)
<1>2. /\ t \in Seq(Effects) /\ EntryPlan(t) /\ t # <<>>
      /\ SecretPlan(Tail(t)) => Storing(Tail(t), a)
      /\ ~ManagedPlan(Tail(t))
      /\ Tail(t) \in Seq(Effects) /\ Tail(t) # <<>> /\ (Storing(Tail(t), a) \/ RefreshLast(Tail(t)))
  BY <1>1, NewPlans
<1> HIDE DEF t
<1>3. Registered' = Registered BY DEF Registered
<1>4. NoValue \in Accounts /\ Registered \subseteq Ids BY RegisteredFinite DEF Accounts
<1>5. CASE /\ f.target \in Registered /\ entries[f.target].adapter = a
           /\ Begin(f.target, a, f, NoValue, {}, Tail(t))
  <2>1. PICK i \in Ids : i = f.target /\ i \in Registered BY <1>4, <1>5
  <2>2. PICK x : x = Tail(t) OBVIOUS
  <2>3. op' = [id |-> i, adapter |-> a, flow |-> f, account |-> NoValue, holdings |-> {}, todo |-> x]
    BY <1>5, <2>1, <2>2 DEF Begin
  <2>4. op' \in Ops /\ x # <<>> BY <1>1, <1>2, <1>4, <2>2, <2>3 DEF Ops
  <2>5. Keeping(i, x)' BY <1>2, <1>3, <1>5, <2>1, <2>2, <2>3 DEF Keeping
  <2>6. Underway(i, x)' BY <2>5 DEF Underway
  <2> QED BY <2>3, <2>4, <2>6 DEF OpInv, Idle
<1>6. CASE FreeIds # {} /\ Begin(institutionIdFor, a, f, NoValue, {}, t)
  <2>1. PICK i \in Ids : i = institutionIdFor /\ i \notin Registered BY <1>6, FreeId
  <2>2. PICK x : x = t OBVIOUS
  <2>3. op' = [id |-> i, adapter |-> a, flow |-> f, account |-> NoValue, holdings |-> {}, todo |-> x]
    BY <1>6, <2>1, <2>2 DEF Begin
  <2>4. op' \in Ops /\ x # <<>> BY <1>1, <1>2, <1>4, <2>2, <2>3 DEF Ops
  <2>5. tokens[i] = {} BY <2>1 DEF IInv, Listed, TokensListed
  <2>6. \A j \in Registered : Keys(entries[j].holdings) \cap Keys({}) = {} BY DEF Keys
  <2>7. EntryPlan(x) /\ (SecretPlan(Tail(x)) => Storing(Tail(x), a)) /\ ~ManagedPlan(Tail(x)) /\ a # "managed"
    BY <1>1, <1>2, <2>2
  <2>8. Making(i, x)' BY <1>3, <2>1, <2>3, <2>5, <2>6, <2>7 DEF Making
  <2>9. Underway(i, x)' BY <2>8 DEF Underway
  <2> QED BY <2>3, <2>4, <2>9 DEF OpInv, Idle
<1> QED BY <1>5, <1>6 DEF t

LEMMA ExchangedKeeps == ASSUME IInv, NEW f \in flows, Exchanged(f) PROVE IInv'
<1> DEFINE kind == links[f.link].kind
           known == f.target # NoValue /\ f.target \in Registered /\ entries[f.target].adapter = kind
           ok == plaidExchange(f.link) /\ (known \/ (f.target = NoValue /\ FreeIds # {}))
<1>1. Types /\ OpInv /\ LoginsOnce /\ FlowOf(f) BY DEF IInv, LoginsOnce
<1>2. /\ Idle /\ flows' = flows \ {f}
      /\ links' = IF plaidExchange(f.link) THEN [links EXCEPT ![f.link].stage = "spent"] ELSE links
      /\ UNCHANGED <<disk, pendingEb, books, runs, ghosts, made>>
  BY DEF Exchanged
<1>3. f \in Flows /\ f.link \in Links BY <1>1 DEF FlowOf
<1>4. PICK l : l = f.link OBVIOUS
<1>5. kind \in {"plaid", "enablebanking"} /\ links[l] \in Logins
  BY <1>1, <1>3, <1>4 DEF Types, TypeOK, Logins
<1>6. /\ links' \in [Links -> Logins]
      /\ \A m \in Links \ {l} : links'[m] = links[m]
      /\ links[l].stage = "finished" => links'[l].stage = "spent"
      /\ links[l].stage # "finished" => links' = links
  <2>1. CASE links[l].stage = "finished"
    <3>1. PICK e : e = [links[l] EXCEPT !.stage = "spent"] OBVIOUS
    <3>2. links' = [links EXCEPT ![l] = e] BY <1>2, <1>4, <2>1, <3>1 DEF plaidExchange
    <3>3. e \in Logins /\ e.stage = "spent" BY <1>5, <3>1 DEF Logins
    <3> QED BY <1>1, <1>3, <1>4, <2>1, <3>2, <3>3 DEF Types, TypeOK
  <2>2. CASE links[l].stage # "finished" BY <1>1, <1>2, <1>4, <2>2 DEF Types, TypeOK, plaidExchange
  <2> QED BY <2>1, <2>2
<1>7. \A m \in Links : links[m].stage = "spent" => links'[m].stage = "spent" BY <1>6
<1>8. /\ ok => OpInv' /\ op'.flow = f /\ pendingPlaid' = pendingPlaid /\ links[l].stage = "finished"
      /\ ~ok => Settle(f, "failed") /\ op' = op
  <2>1. ASSUME ok PROVE OpInv' /\ op'.flow = f /\ pendingPlaid' = pendingPlaid /\ links[l].stage = "finished"
    <3>1. /\ IF known THEN Begin(f.target, kind, f, NoValue, {}, Tail(NewConnection(kind)))
                      ELSE Begin(institutionIdFor, kind, f, NoValue, {}, NewConnection(kind))
          /\ UNCHANGED pendingPlaid
      BY <2>1 DEF Exchanged
    <3>2. PICK a : a = kind OBVIOUS
    <3>3. UNCHANGED <<entries, tokens, books, runs>> BY <1>2 DEF disk
    <3>4. \/ /\ f.target \in Registered /\ entries[f.target].adapter = a
             /\ Begin(f.target, a, f, NoValue, {}, Tail(NewConnection(a)))
          \/ FreeIds # {} /\ Begin(institutionIdFor, a, f, NoValue, {}, NewConnection(a))
      BY <2>1, <3>1, <3>2
    <3>5. a \in {"plaid", "enablebanking"} BY <1>5, <3>2
    <3>6. OpInv' /\ op'.flow = f BY <1>2, <1>3, <3>3, <3>4, <3>5, ExchangeBegins
    <3> QED BY <1>4, <2>1, <3>1, <3>6 DEF plaidExchange
  <2>2. ~ok => Settle(f, "failed") /\ op' = op BY DEF Exchanged
  <2> QED BY <2>1, <2>2
<1> HIDE DEF ok, known, kind
<1>9. OpInv' BY <1>1, <1>2, <1>8, OpRests
<1>10. pendingPlaid' \in Returns \cup {NoValue} BY <1>1, <1>8 DEF Types, TypeOK, Settle, Returns
<1>11. Types'
  <2>1. op' \in Ops BY <1>9 DEF OpInv
  <2> QED BY <1>1, <1>2, <1>6, <1>10, <2>1 DEF Types, TypeOK, Ops, disk, ghosts, Registered
<1>12. Listed' /\ Dated' /\ FiguresTold' BY <1>2, Elsewhere DEF ghosts
<1>13. LoginsOnce'
  <2>1. \A m \in made' : links'[m].stage = "spent" BY <1>1, <1>2, <1>7 DEF LoginsOnce, Types, TypeOK
  <2>2. op'.flow.link # NoValue => op'.flow.link \in Links /\ links'[op'.flow.link].stage = "spent"
    BY <1>1, <1>3, <1>4, <1>6, <1>7, <1>8 DEF LoginsOnce
  <2>3. \A g \in flows' : FlowOf(g)'
    <3>1. ASSUME NEW g \in flows, g # f PROVE FlowOf(g)'
      <4>1. FlowOf(g) BY <1>1 DEF LoginsOnce
      <4>2. CASE g.link \in twice BY <1>2, <4>1, <4>2 DEF FlowOf, ghosts
      <4>3. CASE g.link \notin twice
        <5>1. g.link # f.link BY <3>1, <4>1, <4>3 DEF FlowOf
        <5>2. links'[g.link] = links[g.link] BY <1>4, <1>6, <4>1, <5>1 DEF FlowOf
        <5> QED BY <1>2, <4>1, <5>2 DEF FlowOf, ghosts
      <4> QED BY <4>2, <4>3
    <3> QED BY <1>2, <3>1
  <2>4. ASSUME pendingPlaid # NoValue, pendingPlaid.state = "failed", pendingPlaid' = pendingPlaid
        PROVE  Failed(pendingPlaid.link)'
    <3>1. Failed(pendingPlaid.link) /\ pendingPlaid.link \in Links
      BY <1>1, <2>4 DEF LoginsOnce, Types, TypeOK, Returns
    <3>2. pendingPlaid.link \notin twice => op'.flow.link # pendingPlaid.link
      <4>1. CASE op' = op BY <3>1, <4>1 DEF Failed
      <4>2. CASE op'.flow = f BY <1>1, <1>3, <3>1, <4>2 DEF Failed, FlowOf
      <4> QED BY <1>8, <4>1, <4>2
    <3> QED BY <1>2, <1>7, <2>4, <3>1, <3>2 DEF Failed, ghosts
  <2>5. ASSUME ~ok, f.auto > 0, pendingPlaid # NoValue, pendingPlaid.link = f.link,
               pendingPlaid' = [pendingPlaid EXCEPT !.state = "failed"]
        PROVE  Failed(pendingPlaid.link)'
    <3>1. pendingPlaid'.link = l BY <1>1, <1>4, <2>5 DEF Types, TypeOK, Returns
    <3>2. op' = NoOp /\ op'.flow.link = NoValue BY <1>1, <1>2, <1>8, <2>5, NothingUnderway DEF OpInv
    <3>3. l \notin twice => links[l].stage = "finished" BY <1>1, <1>4, <2>5 DEF FlowOf
    <3>4. l \notin twice => l \notin made BY <1>1, <3>3 DEF LoginsOnce
    <3>5. l # NoValue BY <1>3, <1>4, Apart
    <3> QED BY <1>2, <1>6, <3>1, <3>2, <3>3, <3>4, <3>5 DEF Failed, ghosts
  <2>6. pendingPlaid' # NoValue /\ pendingPlaid'.state = "failed" => Failed(pendingPlaid.link)'
    BY <1>8, <2>4, <2>5 DEF Settle
  <2> QED BY <2>1, <2>2, <2>3, <2>6 DEF LoginsOnce
<1> QED BY <1>9, <1>11, <1>12, <1>13 DEF IInv

-----------------------------------------------------------------------------
(* Refreshes in flight, and a death.                                       *)

LEMMA FetchKeeps == ASSUME IInv, NEW r \in runs, Fetch(r) PROVE IInv'
<1> DEFINE snap == IF ~CanFetch(r.id) THEN NoValue
                   ELSE IF entries[r.id].adapter \in {"managed", "files"} THEN newestJson(r.id)
                   ELSE [at |-> acts, amount |-> 0]
<1>1. Types /\ OpInv /\ Listed /\ Dated /\ FiguresTold BY DEF IInv
<1>2. Idle /\ UNCHANGED <<disk, memory, links, books, op, ghosts, made>> BY DEF Fetch
<1>3. PICK s : s = snap OBVIOUS
<1>4. PICK q : q = [r EXCEPT !.fetched = TRUE, !.snap = s] OBVIOUS
<1>5. runs' = (runs \ {r}) \cup {q} BY <1>3, <1>4 DEF Fetch
<1>6. acts \in 0 .. MaxActs /\ acts \in Nat /\ r.id \in Ids /\ r \in Refreshes
  BY <1>1, BoundsAssumption DEF Types, TypeOK, Refreshes
<1>7. /\ s \in Snapshots \cup {NoValue}
      /\ s # NoValue => s.at <= acts
      /\ entries[r.id].adapter = "managed" /\ s # NoValue => s = inbox[r.id]
  <2>1. inbox[r.id] \in Snapshots \cup {NoValue} /\ (inbox[r.id] # NoValue => inbox[r.id].at <= acts)
    BY <1>1, <1>6 DEF Types, TypeOK, Dated
  <2>2. [at |-> acts, amount |-> 0] \in Snapshots BY <1>6 DEF Snapshots
  <2> QED BY <1>3, <1>6, <2>1, <2>2 DEF newestJson
<1> HIDE DEF snap
<1>8. q \in Refreshes /\ q.id = r.id /\ q.snap = s BY <1>4, <1>6, <1>7 DEF Refreshes
<1>9. Registered' = Registered BY <1>2 DEF Registered, disk
<1>10. Types'
  <2>1. IsFiniteSet(runs') /\ Cardinality(runs') <= MaxRuns
    <3>1. IsFiniteSet(runs) /\ Cardinality(runs) <= MaxRuns /\ Cardinality(runs) \in Nat
      BY <1>1, FS_CardinalityType DEF Types, TypeOK
    <3>2. IsFiniteSet(runs \ {r}) /\ Cardinality(runs \ {r}) = Cardinality(runs) - 1
      BY <3>1, FS_RemoveElement
    <3>3. Cardinality(runs \ {r}) \in Nat BY <3>2, FS_CardinalityType
    <3>4. PICK d : d = runs \ {r} OBVIOUS
    <3>5. IsFiniteSet(d \cup {q})
          /\ Cardinality(d \cup {q}) = IF q \in d THEN Cardinality(d) ELSE Cardinality(d) + 1
      BY <3>2, <3>4, FS_AddElement
    <3>6. runs' = d \cup {q} BY <1>5, <3>4
    <3>7. Cardinality(d \cup {q}) <= MaxRuns BY <3>1, <3>2, <3>3, <3>4, <3>5, BoundsAssumption
    <3> QED BY <3>5, <3>6, <3>7
  <2> QED BY <1>1, <1>2, <1>5, <1>8, <1>9, <2>1 DEF Types, TypeOK, disk, memory, ghosts
<1>11. Listed'
  <2>1. \A p \in runs' : p.id \in Registered \/ p.id \in late BY <1>1, <1>5, <1>8 DEF Listed, LateRuns
  <2> QED BY <1>2, <2>1, ListKept DEF disk, ghosts
<1>12. Dated' BY <1>1, <1>2, <1>5, <1>7, <1>8 DEF Dated, disk, ghosts
<1>13. FiguresTold'
  <2>1. ASSUME NEW j \in Ids, Kept(j)' PROVE Told(j)'
    <3>1. Kept(j) BY <1>2, <1>9, <2>1 DEF Kept, disk, ghosts
    <3>2. Told(j) BY <1>1, <1>2, <3>1 DEF FiguresTold, Pending
    <3>3. q.id = j /\ q.snap # NoValue => q.snap = inbox[j] BY <1>7, <1>8, <3>1 DEF Kept
    <3> QED BY <1>2, <1>5, <3>2, <3>3 DEF Told, disk
  <2> QED BY <2>1 DEF FiguresTold
<1>14. LoginsOnce' BY <1>2, LoginsKept DEF memory, ghosts
<1>15. OpInv' BY <1>1, <1>2, OpRests
<1> QED BY <1>10, <1>11, <1>12, <1>13, <1>14, <1>15 DEF IInv

LEMMA CommitKeeps == ASSUME IInv, NEW r \in runs, Commit(r) PROVE IInv'
<1>1. Types /\ OpInv /\ Listed /\ Dated /\ FiguresTold /\ LoginsOnce BY DEF IInv
<1>2. /\ Idle /\ runs' = runs \ {r} /\ Settle(r.flow, "done")
      /\ UNCHANGED <<disk, pendingEb, flows, links, op, ghosts, made>>
  BY DEF Commit, Outcome
<1>3. r \in Refreshes /\ r.id \in Ids BY <1>1 DEF Types, TypeOK, Refreshes
<1>4. PICK i : i = r.id OBVIOUS
<1>5. PICK a : a = IF r.snap.amount = NoValue THEN books[i].amount ELSE r.snap.amount OBVIOUS
<1>6. \/ books' = books
      \/ r.snap # NoValue /\ books' = [books EXCEPT ![i] = [at |-> r.snap.at, amount |-> a]]
  BY <1>4, <1>5 DEF Commit
<1>7. \/ books' = books
      \/ /\ r.snap # NoValue /\ r.snap \in Snapshots
         /\ books'[i].at = r.snap.at /\ books'[i].amount = a
         /\ \A j \in Ids \ {i} : books'[j] = books[j]
  <2>1. r.snap \in Snapshots \cup {NoValue} BY <1>3 DEF Refreshes
  <2> QED BY <1>1, <1>3, <1>4, <1>6, <2>1 DEF Types, TypeOK
<1>8. Registered' = Registered BY <1>2 DEF Registered, disk
<1>9. Types'
  <2>1. books' \in [Ids -> Snapshots]
    <3>1. books[i] \in Snapshots /\ r.snap \in Snapshots \cup {NoValue}
      BY <1>1, <1>3, <1>4 DEF Types, TypeOK, Refreshes
    <3>2. r.snap # NoValue => [at |-> r.snap.at, amount |-> a] \in Snapshots
      BY <1>5, <3>1 DEF Snapshots
    <3> QED BY <1>1, <1>6, <3>2 DEF Types, TypeOK
  <2>2. IsFiniteSet(runs') /\ Cardinality(runs') <= MaxRuns
    <3>1. IsFiniteSet(runs) /\ Cardinality(runs) <= MaxRuns /\ Cardinality(runs) \in Nat
      BY <1>1, FS_CardinalityType DEF Types, TypeOK
    <3>2. IsFiniteSet(runs \ {r}) /\ Cardinality(runs \ {r}) = Cardinality(runs) - 1
      BY <3>1, FS_RemoveElement
    <3> QED BY <1>2, <3>1, <3>2, BoundsAssumption
  <2>3. pendingPlaid' \in Returns \cup {NoValue} BY <1>1, <1>2 DEF Types, TypeOK, Settle, Returns
  <2> QED BY <1>1, <1>2, <1>8, <2>1, <2>2, <2>3 DEF Types, TypeOK, disk, ghosts
<1>10. Listed'
  <2>1. TokensListed' BY <1>1, <1>2, <1>8 DEF Listed, TokensListed, disk
  <2>2. WatchedOnce' BY <1>1, <1>2, <1>8 DEF Listed, WatchedOnce, disk
  <2>3. RemovedIsShut'
    <3>1. i \in Registered \/ i \in late BY <1>1, <1>4 DEF Listed, LateRuns
    <3> QED BY <1>1, <1>2, <1>7, <1>8, <3>1 DEF Listed, RemovedIsShut, ghosts
  <2>4. LateRuns' BY <1>1, <1>2, <1>8 DEF Listed, LateRuns, ghosts
  <2> QED BY <2>1, <2>2, <2>3, <2>4 DEF Listed
<1>11. Dated'
  <2>1. r.snap # NoValue => r.snap.at <= acts BY <1>1 DEF Dated
  <2>2. \A j \in Ids : books'[j].at <= acts BY <1>1, <1>7, <2>1 DEF Dated
  <2> QED BY <1>1, <1>2, <2>2 DEF Dated, disk, ghosts
<1>12. FiguresTold'
  <2>1. ASSUME NEW j \in Ids, Kept(j)' PROVE Told(j)'
    <3>1. Kept(j) BY <1>2, <1>8, <2>1 DEF Kept, disk, ghosts
    <3>2. Told(j) BY <1>1, <1>2, <3>1 DEF FiguresTold, Pending
    <3>3. \A p \in runs' : p.id = j /\ p.snap # NoValue /\ p.snap.at = inbox[j].at => p.snap.amount = inbox[j].amount
      BY <1>2, <3>2 DEF Told
    <3>4. CASE books'[j] = books[j] BY <1>2, <3>2, <3>3, <3>4 DEF Told, disk
    <3>5. CASE /\ j = i /\ r.snap # NoValue
               /\ books'[j].at = r.snap.at /\ books'[j].amount = a
      <4>1. SUFFICES ASSUME books'[j].at = inbox[j].at, books'[j].amount # NoValue, inbox[j].amount # NoValue
                     PROVE  books'[j].amount = inbox[j].amount
        BY <1>2, <3>2, <3>3 DEF Told, disk
      <4>2. r.snap.amount = inbox[j].amount BY <1>4, <3>2, <3>5, <4>1 DEF Told
      <4> QED BY <1>5, <3>5, <4>1, <4>2
    <3> QED BY <1>7, <3>4, <3>5
  <2> QED BY <2>1 DEF FiguresTold
<1>13. LoginsOnce'
  <2>1. pendingPlaid' # NoValue /\ pendingPlaid'.state = "failed" => pendingPlaid' = pendingPlaid
    BY <1>1, <1>2 DEF Settle, Types, TypeOK, Returns
  <2>2. \A f \in flows' : FlowOf(f)' BY <1>1, <1>2 DEF LoginsOnce, FlowOf, ghosts
  <2>3. pendingPlaid' # NoValue /\ pendingPlaid'.state = "failed" => Failed(pendingPlaid.link)'
    BY <1>1, <1>2, <2>1 DEF LoginsOnce, Failed, ghosts
  <2> QED BY <1>1, <1>2, <2>2, <2>3 DEF LoginsOnce
<1>14. OpInv' BY <1>1, <1>2, OpRests
<1> QED BY <1>9, <1>10, <1>11, <1>12, <1>13, <1>14 DEF IInv

(* What is being told is among the effects left, wherever it is cut.       *)
LEMMA TellingShows ==
  ASSUME NEW x \in Seq(Effects), Telling(x)
  PROVE  ToSet(x) \cap {"managed", "snapshot"} # {}
<1>1. x # <<>> /\ Head(x) \in {"managed", "snapshot"} BY DEF Telling, ManagedPlan, SnapshotPlan, Begins
<1>2. 1 \in DOMAIN x /\ Head(x) = x[1] BY <1>1
<1>3. x[1] \in ToSet(x) BY <1>2 DEF ToSet
<1> QED BY <1>1, <1>2, <1>3

LEMMA CrashKeeps == ASSUME IInv, Crash PROVE IInv'
<1>1. Types /\ OpInv /\ Listed /\ LoginsOnce BY DEF IInv
<1>2. /\ upsets < MaxUpsets /\ upsets' = upsets + 1 /\ op' = NoOp
      /\ cut' = IF ~Idle /\ ToSet(op.todo) \cap {"managed", "snapshot"} # {} THEN cut \cup {op.id} ELSE cut
      /\ pendingEb' = {} /\ pendingPlaid' = NoValue /\ flows' = {}
      /\ UNCHANGED <<disk, links, books, runs, acts, twice, late, made>>
  BY DEF Crash
<1>3. Registered' = Registered BY <1>2 DEF Registered, disk
<1>4. Types'
  <2>1. cut' \cup late' \subseteq Ids BY <1>1, <1>2 DEF Types, TypeOK, OpInv
  <2>2. upsets' \in 0 .. MaxUpsets BY <1>1, <1>2, BoundsAssumption DEF Types, TypeOK
  <2> QED BY <1>1, <1>2, <1>3, <2>1, <2>2, NothingUnderway DEF Types, TypeOK, Ops, disk
<1>5. Listed'
  <2>1. \A p \in runs' : p.id \in Registered \/ p.id \in late BY <1>1, <1>2 DEF Listed, LateRuns
  <2> QED BY <1>2, <2>1, ListKept DEF disk
<1>6. Dated' /\ FiguresTold'
  <2>1. ASSUME NEW j \in Ids, Kept(j)' PROVE Kept(j) /\ ~Pending(j)
    <3>1. Kept(j) BY <1>2, <1>3, <2>1 DEF Kept, disk
    <3>2. ASSUME Pending(j) PROVE FALSE
      <4>1. ~Idle /\ op.id = j /\ Telling(op.todo) BY <3>2 DEF Pending
      <4>2. op.todo \in Seq(Effects) BY <1>1 DEF OpInv, Ops
      <4>3. ToSet(op.todo) \cap {"managed", "snapshot"} # {} BY <4>1, <4>2, TellingShows
      <4>4. j \in cut' BY <1>2, <4>1, <4>3
      <4> QED BY <2>1, <4>4 DEF Kept
    <3> QED BY <3>1, <3>2
  <2>2. acts \in Nat /\ acts' = acts BY <1>1, <1>2, BoundsAssumption DEF Types, TypeOK
  <2> QED BY <1>2, <2>1, <2>2, FiguresKept DEF disk
<1>7. LoginsOnce' BY <1>1, <1>2, NothingUnderway DEF LoginsOnce
<1>8. OpInv' BY <1>2, NothingUnderway DEF OpInv, Idle
<1> QED BY <1>4, <1>5, <1>6, <1>7, <1>8 DEF IInv

-----------------------------------------------------------------------------
(* The theorems.                                                           *)

LEMMA InitHolds == Init => IInv
<1> SUFFICES ASSUME Init PROVE IInv OBVIOUS
<1>1. Registered = {} BY DEF Init, Registered
<1>2. 0 \in 0 .. MaxActs /\ 0 \in 0 .. MaxUpsets /\ 0 <= MaxRuns BY BoundsAssumption
<1>3. Types
  <2>1. IsFiniteSet({}) /\ Cardinality({}) = 0 BY FS_EmptySet
  <2>2. order \in Seq(Ids) /\ ToSet(order) = Registered /\ Len(order) = Cardinality(Registered)
    BY <1>1, <2>1 DEF Init, ToSet
  <2>3. links \in [Links -> Logins] BY DEF Init, Logins
  <2>4. books \in [Ids -> Snapshots] BY <1>2 DEF Init, Snapshots, Shut
  <2>5. op \in Ops BY NothingUnderway DEF Init
  <2>6. managed \in [Ids -> Accounts] BY DEF Init, Accounts
  <2> QED BY <1>2, <2>1, <2>2, <2>3, <2>4, <2>5, <2>6 DEF Init, Types, TypeOK, Ops
<1>4. OpInv BY NothingUnderway DEF Init, OpInv, Idle
<1>5. Listed
  <2>1. TokensListed BY DEF Init, TokensListed
  <2>2. WatchedOnce BY <1>1 DEF WatchedOnce
  <2>3. RemovedIsShut BY DEF Init, RemovedIsShut, Shut
  <2>4. LateRuns BY DEF Init, LateRuns
  <2> QED BY <2>1, <2>2, <2>3, <2>4 DEF Listed
<1>6. Dated BY DEF Init, Dated, Shut
<1>7. FiguresTold BY <1>1 DEF FiguresTold, Kept
<1>8. LoginsOnce BY NothingUnderway DEF Init, LoginsOnce
<1> QED BY <1>3, <1>4, <1>5, <1>6, <1>7, <1>8 DEF IInv

LEMMA NextKeeps == ASSUME IInv, [Next]_vars PROVE IInv'
<1>1. CASE Effect BY <1>1, EffectKeeps
<1>2. CASE addInstitution \/ connectCoinbase \/ connectKraken \/ connectWallet
  BY <1>2, AddKeeps, KeysKeep, WalletKeeps DEF connectCoinbase, connectKraken
<1>3. CASE reorderInstitutionEntries BY <1>3, ReorderKeeps
<1>4. ASSUME NEW i \in Ids,
             \/ setInstitutionEnabled(i) \/ saveManagedAccount(i) \/ storeInstitutionFile(i)
             \/ Refresh(i) \/ removeInstitution(i) \/ deleteConnectionTokens(i)
      PROVE  IInv'
  BY <1>4, EnabledKeeps, SaveKeeps, FileKeeps, RefreshKeeps, RemoveKeeps, ForgetKeeps
<1>5. CASE connectPlaidStart \/ connectEbStart \/ onPlaidReturn
  BY <1>5, PlaidStartKeeps, EbStartKeeps, ReturnKeeps
<1>6. ASSUME NEW l \in Links, LogIn(l) \/ connectComplete(l) PROVE IInv'
  BY <1>6, LogInKeeps, CompleteKeeps
<1>7. ASSUME NEW f \in flows, Exchanged(f) PROVE IInv' BY <1>7, ExchangedKeeps
<1>8. ASSUME NEW r \in runs, Fetch(r) \/ Commit(r) PROVE IInv' BY <1>8, FetchKeeps, CommitKeeps
<1>9. CASE Crash BY <1>9, CrashKeeps
<1>10. CASE UNCHANGED vars
  <2>1. UNCHANGED <<disk, memory, links, books, runs, op, ghosts, made>> BY <1>10 DEF vars
  <2>2. UNCHANGED <<entries, order, tokens, managed, inbox, pendingEb, pendingPlaid, flows, links, books, runs,
                    op, acts, twice, cut, late, upsets, made>>
    BY <2>1 DEF disk, memory, ghosts
  <2> QED
    BY <2>2 DEF IInv, Types, TypeOK, OpInv, Listed, Dated, FiguresTold, LoginsOnce, Registered, TokensListed,
                WatchedOnce, RemovedIsShut, LateRuns, Kept, Pending, Told, FlowOf, Failed, Underway, Making,
                Keeping, Fresh, Idle
<1> QED BY <1>1, <1>2, <1>3, <1>4, <1>5, <1>6, <1>7, <1>8, <1>9, <1>10 DEF Next

LEMMA Always == Spec => []IInv
<1>1. Init => IInv BY InitHolds
<1>2. IInv /\ [Next]_vars => IInv' BY NextKeeps
<1> QED BY <1>1, <1>2, PTL DEF Spec

(* Whatever the household does and wherever the host dies, a stored token  *)
(* is one its entry owns, no address is watched by two connections, and a  *)
(* removed connection has no open account but where a refresh of it was in *)
(* flight (removeInstitution, connectWallet and the connect flows).        *)
THEOREM ConnectionsAreOwned == Spec => []OwnedByOne
<1>1. IInv => OwnedByOne BY DEF IInv, Types, Listed, OwnedByOne
<1> QED BY <1>1, Always, PTL

(* The books say of an account kept by hand what was typed in last, and    *)
(* the page that awaits a login is not told "failed" of one that made its  *)
(* connection: a file read is the newest by its instant, and a session is  *)
(* exchanged once (managed.ts, plaid-finish.ts).                           *)
THEOREM OperatorIsTold == Spec => []ToldAsDone
<1>1. IInv => BooksTellFigures
  <2>1. SUFFICES ASSUME IInv, Idle, NEW i \in Registered \ cut, entries[i].adapter = "managed", managed[i] # NoValue,
                        books[i].at = inbox[i].at, books[i].amount # NoValue
                 PROVE  books[i].amount = IF managed[i].closed THEN 0 ELSE managed[i].amount
    BY DEF BooksTellFigures
  <2>2. i \in Ids /\ Told(i) BY <2>1, RegisteredFinite DEF IInv, FiguresTold, Kept, Pending
  <2>3. Figure(managed[i]) = IF managed[i].closed THEN 0 ELSE managed[i].amount BY <2>1 DEF Figure
  <2>4. Figure(managed[i]) # NoValue
    <3>1. managed[i] \in Figures BY <2>1, <2>2 DEF IInv, Types, TypeOK, Accounts
    <3>2. managed[i].amount \in Amounts BY <3>1 DEF Figures
    <3> QED BY <2>3, <3>2, Apart
  <2> QED BY <2>1, <2>2, <2>3, <2>4 DEF Told
<1>2. IInv => FailedIsUnmade BY DEF IInv, LoginsOnce, Failed, FailedIsUnmade
<1>3. IInv => ToldAsDone BY <1>1, <1>2 DEF ToldAsDone
<1> QED BY <1>3, Always, PTL
=============================================================================
