---------------------------- MODULE CharacterProofs ----------------------------
(***************************************************************************)
(* What is proved of a character's life in the world: of its company        *)
(* (Society: parties, guilds, talk) and of its career (Progression: quests,  *)
(* trainers, professions, belongings, the administrator's requests).  The    *)
(* two specifications share no variable.                                     *)
(*                                                                         *)
(* Society.  What a step may do to the parties is one of four things         *)
(* (PartyMoves: some go, two start one, one is taken in, one loses members), *)
(* to the guilds one of five (GuildMoves), and the invariants are proved of   *)
(* those.  Talk's invariant (TalkGood) says what each client's list is to    *)
(* the ring of messages that the service keeps.                              *)
(*                                                                         *)
(* Progression.  IInv says what each record of a character adds up to        *)
(* (Kept), what the administrator's open requests may still write (Asked),   *)
(* and that the stores' books agree with the records (Books); BelongingsInv  *)
(* what the store and a session have of bags, chests and bars.               *)
(***************************************************************************)
EXTENDS Society, Progression, FiniteSetTheorems, FunctionTheorems, SequenceTheorems, NaturalsInduction,
        WellFoundedInduction, TLAPS

-----------------------------------------------------------------------------
(* Elements at some places of a sequence *)

\* The places of `I' in order: the first is the only one with one up to it, and so on.
InOrder(I, m, e) ==
    /\ m = Cardinality(I) /\ m \in Nat /\ e \in [1..m -> I]
    /\ \A k \in 1..m : Order(I, e[k]) = k
    /\ \A j, k \in 1..m : j < k => e[j] < e[k]
    /\ \A i \in I : \E k \in 1..m : e[k] = i

LEMMA PlacesInOrder ==
    ASSUME NEW n \in Nat, NEW I \in SUBSET (1..n)
    PROVE  /\ Cardinality(I) <= n
           /\ \E e : InOrder(I, Cardinality(I), e)
           /\ \A i, j \in I : Order(I, i) = Order(I, j) => i = j
<1> DEFINE m == Cardinality(I)
           Up(i) == {j \in I : j <= i}
           f == [i \in I |-> Order(I, i)]
<1>1. IsFiniteSet(I) /\ m \in Nat /\ m <= n /\ I \subseteq Nat
  <2>1. IsFiniteSet(1..n) /\ Cardinality(1..n) = n
    BY FS_Interval
  <2>2. IsFiniteSet(I) /\ m <= n
    BY <2>1, FS_Subset
  <2> QED BY <2>2, FS_CardinalityType
<1>2. ASSUME NEW i \in I
      PROVE  IsFiniteSet(Up(i)) /\ Order(I, i) = Cardinality(Up(i)) /\ Order(I, i) \in 1..m /\ i \in Up(i)
  <2>1. i \in Up(i) /\ Up(i) \subseteq I
    OBVIOUS
  <2>2. IsFiniteSet(Up(i)) /\ Cardinality(Up(i)) <= m /\ Cardinality(Up(i)) \in Nat
    BY <1>1, <2>1, FS_Subset, FS_CardinalityType
  <2>3. Cardinality(Up(i)) # 0
    BY <2>1, <2>2, FS_EmptySet
  <2> QED BY <1>1, <2>1, <2>2, <2>3 DEF Order
<1>3. ASSUME NEW i \in I, NEW j \in I, i < j PROVE Order(I, i) < Order(I, j)
  <2>1. Up(i) \subseteq Up(j) /\ Up(i) # Up(j)
    <3>1. j \in Up(j) /\ j \notin Up(i)
      BY <1>3
    <3>2. \A k \in I : k <= i => k <= j
      BY <1>1, <1>3
    <3> QED BY <3>1, <3>2
  <2>2. IsFiniteSet(Up(i)) /\ IsFiniteSet(Up(j)) /\ Order(I, i) = Cardinality(Up(i)) /\ Order(I, j) = Cardinality(Up(j))
    BY <1>2
  <2> HIDE DEF Up
  <2>3. Cardinality(Up(i)) <= Cardinality(Up(j)) /\ Cardinality(Up(i)) # Cardinality(Up(j))
    BY <2>1, <2>2, FS_Subset
  <2>4. Cardinality(Up(i)) \in Nat /\ Cardinality(Up(j)) \in Nat
    BY <2>2, FS_CardinalityType
  <2> QED BY <2>2, <2>3, <2>4
<1>4. \A i, j \in I : Order(I, i) = Order(I, j) => i = j
  <2> SUFFICES ASSUME NEW i \in I, NEW j \in I, i # j PROVE Order(I, i) # Order(I, j)
    OBVIOUS
  <2>1. i < j \/ j < i
    BY <1>1
  <2>2. Order(I, i) \in Nat /\ Order(I, j) \in Nat
    <3>1. Order(I, i) \in 1..m /\ Order(I, j) \in 1..m
      BY <1>2
    <3> HIDE DEF m
    <3> QED BY <3>1
  <2>3. Order(I, i) < Order(I, j) \/ Order(I, j) < Order(I, i)
    BY <1>3, <2>1
  <2> QED BY <2>2, <2>3
<1>5. f \in Injection(I, 1..m)
  <2>1. f \in [I -> 1..m]
    BY <1>2
  <2>2. \A a, b \in I : f[a] = f[b] => a = b
    BY <1>4
  <2> QED BY <2>1, <2>2, Fun_IsInj
<1>6. \A k \in 1..m : \E i \in I : Order(I, i) = k
  <2>1. IsFiniteSet(1..m) /\ Cardinality(1..m) = m
    BY <1>1, FS_Interval
  <2>2. f \in Surjection(I, 1..m)
    BY <1>1, <1>5, <2>1, FS_Injection
  <2>3. \A i \in I : f[i] = Order(I, i)
    OBVIOUS
  <2> HIDE DEF f
  <2>4. \A k \in 1..m : \E i \in I : f[i] = k
    BY <2>2, Fun_SurjectionProperties
  <2> QED BY <2>3, <2>4
<1> DEFINE e == [k \in 1..m |-> CHOOSE i \in I : Order(I, i) = k]
<1>7. ASSUME NEW k \in 1..m PROVE e[k] \in I /\ Order(I, e[k]) = k
  BY <1>6
<1>8. e = [k \in 1..m |-> e[k]]
  OBVIOUS
<1> HIDE DEF e, f, m, Up
<1>9. ASSUME NEW j \in 1..m, NEW k \in 1..m, j < k PROVE e[j] < e[k]
  <2>1. e[j] \in Nat /\ e[k] \in Nat /\ j \in Nat /\ k \in Nat
    <3>1. e[j] \in I /\ e[k] \in I
      BY <1>7
    <3>2. I \subseteq Nat
      BY <1>1
    <3>3. m \in Nat
      BY <1>1
    <3>4. j \in Nat /\ k \in Nat
      BY <3>3
    <3> QED BY <3>1, <3>2, <3>4
  <2>2. e[j] # e[k]
    BY <1>7, <1>9
  <2>3. ~(e[k] < e[j])
    <3>1. SUFFICES ASSUME e[k] < e[j] PROVE FALSE
      OBVIOUS
    <3>2. e[k] \in I /\ e[j] \in I /\ Order(I, e[k]) = k /\ Order(I, e[j]) = j
      BY <1>7
    <3>3. k < j
      BY <1>3, <3>1, <3>2
    <3> QED BY <1>9, <2>1, <3>3
  <2> QED BY <2>1, <2>2, <2>3
<1>10. ASSUME NEW i \in I PROVE \E k \in 1..m : e[k] = i
  <2>1. Order(I, i) \in 1..m
    BY <1>2
  <2>2. e[Order(I, i)] = i
    BY <1>4, <1>7, <2>1
  <2> QED BY <2>1, <2>2
<1>11. InOrder(I, m, e)
  <2>1. e \in [1..m -> I]
    BY <1>7, <1>8
  <2> QED BY <1>1, <1>7, <1>9, <1>10, <2>1 DEF InOrder, m
<1> QED BY <1>1, <1>4, <1>11 DEF m

\* The chosen elements of a sequence, and where they came from.
Chosen(seq, I, s, e) ==
    /\ Len(s) = Cardinality(I) /\ Len(s) \in Nat /\ DOMAIN s = 1..Len(s)
    /\ e \in [1..Len(s) -> I]
    /\ \A j, k \in 1..Len(s) : j < k => e[j] < e[k]
    /\ \A i \in I : \E k \in 1..Len(s) : e[k] = i
    /\ \A k \in 1..Len(s) : s[k] = seq[e[k]]

LEMMA SelectedChosen ==
    ASSUME NEW S, NEW seq \in Seq(S), NEW I \in SUBSET (1..Len(seq))
    PROVE  /\ Selected(seq, I) \in Seq(S) /\ Len(Selected(seq, I)) <= Len(seq)
           /\ \E e : Chosen(seq, I, Selected(seq, I), e)
<1> DEFINE s == Selected(seq, I)
           m == Cardinality(I)
<1>1. Len(seq) \in Nat /\ \A i \in 1..Len(seq) : seq[i] \in S
  BY LenProperties, ElementOfSeq
<1>2. PICK e : InOrder(I, m, e)
  BY <1>1, PlacesInOrder
<1>3. m <= Len(seq) /\ \A i, j \in I : Order(I, i) = Order(I, j) => i = j
  BY <1>1, PlacesInOrder
<1>4. m \in Nat /\ e \in [1..m -> I]
  BY <1>2 DEF InOrder
<1>5. \A k \in 1..m : (CHOOSE i \in I : Order(I, i) = k) = e[k]
  BY <1>2, <1>3 DEF InOrder
<1>6. s = [k \in 1..m |-> seq[e[k]]]
  <2>1. s = [k \in 1..m |-> seq[CHOOSE i \in I : Order(I, i) = k]]
    BY DEF Selected
  <2> DEFINE g(k) == CHOOSE i \in I : Order(I, i) = k
  <2>2. s = [k \in 1..m |-> seq[g(k)]] /\ \A k \in 1..m : g(k) = e[k]
    BY <1>5, <2>1
  <2> HIDE DEF s, m, g
  <2> QED BY <2>2
<1> HIDE DEF s, m
<1>7. \A k \in 1..m : seq[e[k]] \in S
  BY <1>1, <1>4
<1>8. s \in [1..m -> S]
  BY <1>6, <1>7
<1>9. s \in Seq(S)
  BY <1>4, <1>8, SeqDef
<1>10. DOMAIN s = 1..m /\ DOMAIN s = 1..Len(s) /\ Len(s) \in Nat
  BY <1>6, <1>9, LenProperties
<1>11. Len(s) = m
  BY <1>4, <1>10
<1>12. Chosen(seq, I, s, e)
  BY <1>2, <1>6, <1>10, <1>11 DEF Chosen, InOrder, m
<1> QED BY <1>3, <1>9, <1>11, <1>12 DEF s

Distinct(s) == \A i, j \in DOMAIN s : s[i] = s[j] => i = j

LEMMA DistinctCount ==
    ASSUME NEW S, NEW s \in Seq(S), Distinct(s)
    PROVE  IsFiniteSet(ToSet(s)) /\ Cardinality(ToSet(s)) = Len(s)
<1>1. Len(s) \in Nat /\ DOMAIN s = 1..Len(s) /\ s \in [1..Len(s) -> S]
  BY LenProperties
<1>2. ToSet(s) = {s[i] : i \in 1..Len(s)}
  BY <1>1 DEF ToSet
<1>3. s \in [1..Len(s) -> ToSet(s)]
  BY <1>1, <1>2
<1>4. s \in Bijection(1..Len(s), ToSet(s))
  <2>1. \A a, b \in 1..Len(s) : s[a] = s[b] => a = b
    BY <1>1 DEF Distinct
  <2>2. \A t \in ToSet(s) : \E i \in 1..Len(s) : s[i] = t
    BY <1>2
  <2> QED BY <1>3, <2>1, <2>2, Fun_IsBij
<1>5. ExistsBijection(1..Len(s), ToSet(s))
  BY <1>4 DEF ExistsBijection
<1> QED BY <1>1, <1>5, FS_CountingElements, FS_NatBijection

LEMMA FirstPlace ==
    ASSUME NEW n \in Nat, NEW I \in SUBSET (1..n), I # {}
    PROVE  \E i \in I : \A j \in I : i <= j
<1>1. PICK e : InOrder(I, Cardinality(I), e)
  BY PlacesInOrder
<1> DEFINE m == Cardinality(I)
<1>2. m \in Nat /\ e \in [1..m -> I] /\ I \subseteq Nat
  BY <1>1 DEF InOrder
<1>3. PICK i \in I : TRUE
  OBVIOUS
<1>4. PICK k \in 1..m : e[k] = i
  BY <1>1 DEF InOrder
<1>5. 1 \in 1..m
  <2> HIDE DEF m
  <2> QED BY <1>2, <1>4
<1>6. e[1] \in I
  BY <1>2, <1>5
<1>7. ASSUME NEW j \in I PROVE e[1] <= j
  <2>1. PICK l \in 1..m : e[l] = j
    BY <1>1 DEF InOrder
  <2>2. l = 1 \/ 1 < l
    <3> HIDE DEF m
    <3> QED BY <1>2, <2>1
  <2>3. CASE l = 1
    BY <1>2, <1>6, <2>1, <2>3
  <2>4. CASE 1 < l
    <3>1. e[1] < e[l]
      BY <1>1, <1>5, <2>4 DEF InOrder
    <3>2. e[1] \in Nat /\ j \in Nat
      BY <1>2, <1>6
    <3>3. e[1] < j
      BY <2>1, <3>1
    <3> QED BY <3>2, <3>3
  <2> QED BY <2>2, <2>3, <2>4
<1> QED BY <1>6, <1>7

-----------------------------------------------------------------------------
(* Parties *)

\* The leader comes first, everyone once.
LEMMA NormalizedOnce ==
    ASSUME NEW S, NEW leader \in S, NEW members \in Seq(S)
    PROVE  /\ NormalizePartyMembers(leader, members) \in Seq(S)
           /\ Distinct(NormalizePartyMembers(leader, members))
           /\ ToSet(NormalizePartyMembers(leader, members)) = {leader} \cup ToSet(members)
<1> DEFINE Foremost(i) == \A j \in DOMAIN members : j < i => members[j] # members[i]
           I == {i \in DOMAIN members : members[i] # leader /\ Foremost(i)}
           s == Selected(members, I)
           n == <<leader>> \o s
<1>1. Len(members) \in Nat /\ DOMAIN members = 1..Len(members)
  BY LenProperties
<1>2. I \in SUBSET (1..Len(members))
  BY <1>1
<1>3. NormalizePartyMembers(leader, members) = n
  BY DEF NormalizePartyMembers
<1>4. \A i \in I : members[i] # leader /\ i \in DOMAIN members /\ i \in Nat
  BY <1>1
<1>5. \A i, j \in I : i < j => members[i] # members[j]
  OBVIOUS
<1>6. \A i \in DOMAIN members : members[i] # leader => \E j \in I : members[j] = members[i]
  <2> SUFFICES ASSUME NEW i \in DOMAIN members, members[i] # leader
               PROVE  \E j \in I : members[j] = members[i]
    OBVIOUS
  <2> DEFINE J == {j \in 1..Len(members) : members[j] = members[i]}
  <2>1. J \in SUBSET (1..Len(members)) /\ J # {}
    BY <1>1
  <2>2. PICK j \in J : \A k \in J : j <= k
    BY <1>1, <2>1, FirstPlace
  <2>3. j \in DOMAIN members /\ members[j] = members[i] /\ members[j] # leader
    BY <1>1, <2>2
  <2>4. ASSUME NEW k \in DOMAIN members, k < j PROVE members[k] # members[j]
    <3>1. SUFFICES ASSUME members[k] = members[j] PROVE FALSE
      OBVIOUS
    <3>2. k \in J
      BY <1>1, <2>3, <3>1
    <3>3. j <= k /\ k \in Nat /\ j \in Nat
      BY <1>1, <2>2, <2>3, <3>2
    <3> QED BY <2>4, <3>3
  <2> QED BY <2>3, <2>4
<1>7. s \in Seq(S) /\ \E e : Chosen(members, I, s, e)
  BY <1>2, SelectedChosen
<1> HIDE DEF I, s
<1>8. PICK e : Chosen(members, I, s, e)
  BY <1>7
<1> DEFINE k == Len(s)
<1>9. k \in Nat /\ e \in [1..k -> I] /\ \A i \in 1..k : s[i] = members[e[i]] /\ e[i] \in I
  BY <1>8 DEF Chosen
<1>10. DOMAIN s = 1..k /\ \A i, j \in 1..k : i < j => e[i] < e[j]
  BY <1>8 DEF Chosen
<1>11. n \in Seq(S) /\ DOMAIN n = 1..(k + 1) /\ n[1] = leader /\ \A i \in 1..k : n[i + 1] = s[i]
  <2>1. <<leader>> \in Seq(S) /\ Len(<<leader>>) = 1 /\ <<leader>>[1] = leader
    OBVIOUS
  <2> DEFINE one == <<leader>>
  <2>2. one \in Seq(S) /\ Len(one) = 1 /\ one[1] = leader /\ n = one \o s
    BY <2>1
  <2> HIDE DEF one, n
  <2>3. n \in Seq(S) /\ Len(n) = 1 + k
    BY <1>7, <2>2, ConcatProperties
  <2>4. \A i \in 1..(1 + k) : n[i] = IF i <= 1 THEN one[i] ELSE s[i - 1]
    <3>1. \A i \in 1..(Len(one) + k) : (one \o s)[i] = IF i <= Len(one) THEN one[i] ELSE s[i - Len(one)]
      BY <1>7, <2>2, ConcatProperties
    <3> HIDE DEF k
    <3> QED BY <2>2, <3>1
  <2> HIDE DEF k
  <2>5. DOMAIN n = 1..(k + 1)
    BY <1>9, <2>3, LenProperties
  <2>6. n[1] = leader
    BY <1>9, <2>2, <2>4
  <2>7. ASSUME NEW i \in 1..k PROVE n[i + 1] = s[i]
    <3>1. i + 1 \in 1..(1 + k) /\ ~(i + 1 <= 1) /\ (i + 1) - 1 = i
      BY <1>9
    <3> QED BY <2>4, <3>1
  <2> QED BY <2>3, <2>5, <2>6, <2>7
<1> HIDE DEF n, k
<1>12. \A i \in 1..(k + 1) : i = 1 \/ \E j \in 1..k : i = j + 1 /\ n[i] = s[j]
  <2> TAKE i \in 1..(k + 1)
  <2>1. i = 1 \/ (i - 1 \in 1..k /\ i = (i - 1) + 1)
    BY <1>9
  <2> QED BY <1>11, <2>1
<1>13. \A i, j \in 1..k : s[i] = s[j] => i = j
  <2> SUFFICES ASSUME NEW i \in 1..k, NEW j \in 1..k, i # j PROVE s[i] # s[j]
    OBVIOUS
  <2>1. i < j \/ j < i
    BY <1>9
  <2>2. e[i] < e[j] \/ e[j] < e[i]
    BY <1>10, <2>1
  <2>3. e[i] \in I /\ e[j] \in I /\ s[i] = members[e[i]] /\ s[j] = members[e[j]]
    BY <1>9
  <2> QED BY <1>5, <2>2, <2>3
<1>14. \A j \in 1..k : s[j] # leader
  BY <1>4, <1>9
<1>15. Distinct(n)
  <2> SUFFICES ASSUME NEW i \in 1..(k + 1), NEW j \in 1..(k + 1), n[i] = n[j] PROVE i = j
    BY <1>11 DEF Distinct
  <2>1. CASE i = 1 /\ j = 1
    BY <2>1
  <2>2. CASE i = 1 /\ j # 1
    BY <1>11, <1>12, <1>14, <2>2
  <2>3. CASE i # 1 /\ j = 1
    BY <1>11, <1>12, <1>14, <2>3
  <2>4. CASE i # 1 /\ j # 1
    <3>1. PICK i0 \in 1..k : i = i0 + 1 /\ n[i] = s[i0]
      BY <1>12, <2>4
    <3>2. PICK j0 \in 1..k : j = j0 + 1 /\ n[j] = s[j0]
      BY <1>12, <2>4
    <3> QED BY <1>13, <3>1, <3>2
  <2> QED BY <2>1, <2>2, <2>3, <2>4
<1>16. ToSet(n) = {leader} \cup ToSet(members)
  <2>1. ASSUME NEW x \in ToSet(n) PROVE x \in {leader} \cup ToSet(members)
    <3>1. PICK i \in 1..(k + 1) : x = n[i]
      BY <1>11 DEF ToSet
    <3>2. CASE i = 1
      BY <1>11, <3>1, <3>2
    <3>3. CASE i # 1
      <4>1. PICK j \in 1..k : n[i] = s[j]
        BY <1>12, <3>3
      <4>2. s[j] = members[e[j]] /\ e[j] \in DOMAIN members
        BY <1>4, <1>9
      <4> QED BY <3>1, <4>1, <4>2 DEF ToSet
    <3> QED BY <3>2, <3>3
  <2>2. leader \in ToSet(n)
    <3>1. 1 \in DOMAIN n
      BY <1>9, <1>11
    <3> QED BY <1>11, <3>1 DEF ToSet
  <2>3. ASSUME NEW x \in ToSet(members), x # leader PROVE x \in ToSet(n)
    <3>1. PICK i \in DOMAIN members : x = members[i]
      BY DEF ToSet
    <3>2. PICK j \in I : members[j] = members[i]
      BY <1>6, <2>3, <3>1
    <3>3. PICK l \in 1..k : e[l] = j
      BY <1>8 DEF Chosen, k
    <3>4. l + 1 \in 1..(k + 1) /\ n[l + 1] = x
      BY <1>9, <1>11, <3>1, <3>2, <3>3
    <3> QED BY <1>11, <3>4 DEF ToSet
  <2> QED BY <2>1, <2>2, <2>3
<1> QED BY <1>3, <1>11, <1>15, <1>16

\* A party the store may hold.
GoodParty(party) ==
    /\ party \in [leader : Characters, members : Seq(Characters)]
    /\ Distinct(party.members) /\ party.leader \in Members(party)
    /\ Len(party.members) \in 2..PartySize

PartiesGood == \A party \in parties : GoodParty(party)

\* Two parties have no member in common.
PartiesApart == \A p, q \in parties : Members(p) \cap Members(q) # {} => p = q

InvitesGood == \A i \in partyInvites : i \in [from : Characters, to : Characters] /\ i.from # i.to

\* What the store makes of a party whose members are each there once, as many and the same.
LEMMA NormalizedSame ==
    ASSUME NEW leader, NEW members \in Seq(Characters), Distinct(members), leader \in ToSet(members)
    PROVE  LET n == NormalizePartyMembers(leader, members)
           IN  /\ n \in Seq(Characters) /\ Distinct(n)
               /\ ToSet(n) = ToSet(members) /\ Len(n) = Len(members)
<1> DEFINE n == NormalizePartyMembers(leader, members)
<1>1. leader \in Characters
  <2>1. \A i \in DOMAIN members : members[i] \in Characters
    BY ElementOfSeq, LenProperties
  <2> QED BY <2>1 DEF ToSet
<1>2. n \in Seq(Characters) /\ Distinct(n) /\ ToSet(n) = {leader} \cup ToSet(members)
  BY <1>1, NormalizedOnce
<1>3. ToSet(n) = ToSet(members)
  BY <1>2
<1> HIDE DEF n
<1>4. Len(n) = Cardinality(ToSet(n)) /\ Len(members) = Cardinality(ToSet(members))
  BY <1>2, DistinctCount
<1> QED BY <1>2, <1>3, <1>4 DEF n

\* Whom one asks makes two.
LEMMA CreatedGood ==
    ASSUME NEW a \in Characters, NEW c \in Characters, a # c
    PROVE  LET new == [leader |-> a, members |-> NormalizePartyMembers(a, <<a, c>>)]
           IN  GoodParty(new) /\ Members(new) = {a, c} /\ new.leader = a
<1> DEFINE two == <<a, c>>
<1>1. two \in Seq(Characters) /\ Len(two) = 2 /\ DOMAIN two = {1, 2} /\ two[1] = a /\ two[2] = c
  BY DEF two
<1> HIDE DEF two
<1>2. Distinct(two) /\ ToSet(two) = {a, c}
  BY <1>1 DEF Distinct, ToSet
<1> DEFINE n == NormalizePartyMembers(a, two)
<1>3. n \in Seq(Characters) /\ Distinct(n) /\ ToSet(n) = {a, c} /\ Len(n) = 2
  BY <1>1, <1>2, NormalizedSame
<1> HIDE DEF n
<1> DEFINE new == [leader |-> a, members |-> n]
<1>4. new \in [leader : Characters, members : Seq(Characters)] /\ new.leader = a /\ new.members = n
  BY <1>3
<1>5. Members(new) = {a, c}
  BY <1>3, <1>4 DEF Members
<1>6. 2 \in 2..PartySize
  BY PartySizeAssumption
<1> HIDE DEF new
<1>7. GoodParty(new)
  BY <1>3, <1>4, <1>5, <1>6 DEF GoodParty
<1> QED BY <1>4, <1>5, <1>7 DEF new, n, two

\* Who is added to a party with room.
LEMMA JoinedGood ==
    ASSUME NEW party, GoodParty(party), Len(party.members) < PartySize, NEW c \in Characters
    PROVE  LET saved == [party EXCEPT !.members = Append(@, c)]
               new == [saved EXCEPT !.members = NormalizePartyMembers(saved.leader, saved.members)]
           IN  GoodParty(new) /\ Members(new) = Members(party) \cup {c} /\ new.leader = party.leader
<1> DEFINE members == party.members
           more == Append(members, c)
           saved == [party EXCEPT !.members = Append(@, c)]
           n == NormalizePartyMembers(party.leader, more)
           new == [saved EXCEPT !.members = NormalizePartyMembers(saved.leader, saved.members)]
<1>1. /\ party.leader \in Characters /\ members \in Seq(Characters) /\ Distinct(members)
      /\ party = [leader |-> party.leader, members |-> members]
      /\ party.leader \in ToSet(members) /\ Len(members) \in 2..PartySize
  BY DEF GoodParty, Members
<1>2. saved = [leader |-> party.leader, members |-> more]
  BY <1>1
<1>3. new = [leader |-> party.leader, members |-> n]
  <2> HIDE DEF more
  <2>1. saved.leader = party.leader /\ saved.members = more
    BY <1>2
  <2> HIDE DEF saved
  <2> QED BY <1>2, <2>1
<1>4. more \in Seq(Characters) /\ ToSet(more) = ToSet(members) \cup {c}
  <2>1. more \in Seq(Characters) /\ Len(more) = Len(members) + 1 /\ more[Len(members) + 1] = c
    BY <1>1, AppendProperties
  <2>2. \A i \in 1..Len(members) : more[i] = members[i]
    BY <1>1, AppendProperties
  <2>3. Len(members) \in Nat /\ DOMAIN members = 1..Len(members) /\ DOMAIN more = 1..(Len(members) + 1)
    BY <1>1, <2>1, LenProperties
  <2> DEFINE l == Len(members)
  <2> HIDE DEF more, members, l
  <2>4. \A i \in 1..(l + 1) : i \in 1..l \/ i = l + 1
    BY <2>3 DEF l
  <2>5. l + 1 \in 1..(l + 1) /\ \A i \in 1..l : i \in 1..(l + 1)
    BY <2>3 DEF l
  <2>6. ToSet(more) = {more[i] : i \in 1..(l + 1)} /\ ToSet(members) = {members[i] : i \in 1..l}
    BY <2>3 DEF ToSet, l
  <2>7. more[l + 1] = c /\ \A i \in 1..l : more[i] = members[i]
    BY <2>1, <2>2 DEF l
  <2> QED BY <2>1, <2>4, <2>5, <2>6, <2>7
<1> HIDE DEF more
<1>5. n \in Seq(Characters) /\ Distinct(n) /\ ToSet(n) = {party.leader} \cup ToSet(more)
  BY <1>1, <1>4, NormalizedOnce
<1>6. ToSet(n) = ToSet(members) \cup {c}
  BY <1>1, <1>4, <1>5
<1>7. Len(n) \in 2..PartySize
  <2>1. IsFiniteSet(ToSet(members)) /\ Cardinality(ToSet(members)) = Len(members)
    BY <1>1, DistinctCount
  <2>2. Cardinality(ToSet(n)) = Len(n)
    BY <1>5, DistinctCount
  <2>3. Len(n) = Len(members) \/ Len(n) = Len(members) + 1
    BY <1>6, <2>1, <2>2, FS_AddElement
  <2>4. Len(members) \in Nat /\ 2 <= Len(members) /\ Len(members) < PartySize /\ PartySize \in Nat
    BY <1>1, PartySizeAssumption
  <2> HIDE DEF n, members
  <2> QED BY <2>3, <2>4
<1> HIDE DEF n, new, saved
<1>8. new.leader = party.leader /\ new.members = n
  BY <1>3
<1>9. new \in [leader : Characters, members : Seq(Characters)]
  BY <1>1, <1>3, <1>5
<1>10. Members(new) = Members(party) \cup {c}
  BY <1>6, <1>8 DEF Members
<1>11. GoodParty(new)
  BY <1>1, <1>5, <1>6, <1>7, <1>8, <1>9 DEF GoodParty, Members
<1> QED BY <1>8, <1>10, <1>11 DEF new, saved

\* Those who stay when one leaves: the others, each once; in order.
LEMMA StayedOnce ==
    ASSUME NEW members \in Seq(Characters), Distinct(members), NEW c
    PROVE  LET r == Selected(members, {i \in DOMAIN members : members[i] # c})
           IN  /\ r \in Seq(Characters) /\ Distinct(r) /\ ToSet(r) = ToSet(members) \ {c}
               /\ Len(r) <= Len(members)
<1> DEFINE I == {i \in DOMAIN members : members[i] # c}
           r == Selected(members, I)
<1>1. Len(members) \in Nat /\ DOMAIN members = 1..Len(members)
  BY LenProperties
<1>2. I \in SUBSET (1..Len(members)) /\ \A i \in DOMAIN members : i \in I <=> members[i] # c
  BY <1>1
<1>3. r \in Seq(Characters) /\ Len(r) <= Len(members) /\ \E e : Chosen(members, I, r, e)
  BY <1>2, SelectedChosen
<1> HIDE DEF I, r
<1>4. PICK e : Chosen(members, I, r, e)
  BY <1>3
<1> DEFINE k == Len(r)
<1>5. k \in Nat /\ DOMAIN r = 1..k /\ \A i \in 1..k : r[i] = members[e[i]] /\ e[i] \in I /\ e[i] \in DOMAIN members
  BY <1>1, <1>2, <1>4 DEF Chosen
<1>6. (\A i, j \in 1..k : i < j => e[i] < e[j]) /\ \A i \in I : \E j \in 1..k : e[j] = i
  BY <1>4 DEF Chosen
<1> HIDE DEF k
<1>7. Distinct(r)
  <2> SUFFICES ASSUME NEW i \in 1..k, NEW j \in 1..k, r[i] = r[j] PROVE i = j
    BY <1>5 DEF Distinct
  <2>1. e[i] = e[j] /\ e[i] \in Nat
    BY <1>1, <1>5 DEF Distinct
  <2>2. ~(i < j) /\ ~(j < i)
    BY <1>6, <2>1
  <2> QED BY <1>5, <2>2
<1>8. \A i \in 1..k : r[i] \in ToSet(members) \ {c}
  BY <1>2, <1>5 DEF ToSet
<1>9. \A x \in ToSet(members) \ {c} : \E i \in 1..k : r[i] = x
  BY <1>2, <1>5, <1>6 DEF ToSet
<1>10. ToSet(r) = ToSet(members) \ {c}
  <2>1. ToSet(r) = {r[i] : i \in 1..k}
    BY <1>5 DEF ToSet
  <2> QED BY <1>8, <1>9, <2>1
<1> QED BY <1>3, <1>7, <1>10 DEF r, I

\* What a party is after one who leaves, if two or more stay.
LEMMA LeftGood ==
    ASSUME NEW party, GoodParty(party), NEW c,
           LET remaining == Selected(party.members, {i \in DOMAIN party.members : party.members[i] # c})
           IN  ~(Len(remaining) <= 1)
    PROVE  LET remaining == Selected(party.members, {i \in DOMAIN party.members : party.members[i] # c})
               leader == IF party.leader = c THEN Head(remaining) ELSE party.leader
               saved == [leader |-> leader, members |-> remaining]
               new == [saved EXCEPT !.members = NormalizePartyMembers(saved.leader, saved.members)]
           IN  GoodParty(new) /\ Members(new) \subseteq Members(party)
<1> DEFINE members == party.members
           r == Selected(members, {i \in DOMAIN members : members[i] # c})
           leader == IF party.leader = c THEN Head(r) ELSE party.leader
           n == NormalizePartyMembers(leader, r)
           saved == [leader |-> leader, members |-> r]
           new == [saved EXCEPT !.members = NormalizePartyMembers(saved.leader, saved.members)]
<1>1. /\ members \in Seq(Characters) /\ Distinct(members)
      /\ party.leader \in ToSet(members) /\ Len(members) \in 2..PartySize
  BY DEF GoodParty, Members
<1>2. /\ r \in Seq(Characters) /\ Distinct(r) /\ ToSet(r) = ToSet(members) \ {c} /\ Len(r) <= Len(members)
      /\ ~(Len(r) <= 1)
  BY <1>1, StayedOnce
<1> HIDE DEF r, members
<1>3. Len(r) \in Nat /\ DOMAIN r = 1..Len(r) /\ r # <<>>
  <2>1. Len(r) \in Nat /\ DOMAIN r = 1..Len(r)
    BY <1>2, LenProperties
  <2> QED BY <1>2, <2>1
<1>4. leader \in ToSet(r)
  <2>1. CASE party.leader = c
    <3>1. Head(r) = r[1] /\ 1 \in DOMAIN r
      BY <1>2, <1>3
    <3> QED BY <2>1, <3>1 DEF ToSet
  <2>2. CASE party.leader # c
    BY <1>1, <1>2, <2>2
  <2> QED BY <2>1, <2>2
<1> HIDE DEF leader
<1>5. n \in Seq(Characters) /\ Distinct(n) /\ ToSet(n) = ToSet(r) /\ Len(n) = Len(r)
  BY <1>2, <1>4, NormalizedSame
<1>6. new = [leader |-> leader, members |-> n]
  <2>1. saved.leader = leader /\ saved.members = r
    OBVIOUS
  <2> QED BY <2>1
<1>7. leader \in Characters
  <2>1. \A i \in DOMAIN r : r[i] \in Characters
    BY <1>2, <1>3, ElementOfSeq
  <2> QED BY <1>4, <2>1 DEF ToSet
<1>8. Len(n) \in 2..PartySize
  <2>1. PartySize \in Nat /\ Len(members) \in Nat
    BY <1>1, PartySizeAssumption
  <2> HIDE DEF n
  <2>2. Len(r) >= 2 /\ Len(r) <= PartySize
    BY <1>1, <1>2, <1>3, <2>1
  <2> QED BY <1>3, <1>5, <2>1, <2>2
<1> HIDE DEF n, new, saved
<1>9. new.leader = leader /\ new.members = n /\ new \in [leader : Characters, members : Seq(Characters)]
  BY <1>5, <1>6, <1>7
<1>10. GoodParty(new)
  BY <1>4, <1>5, <1>8, <1>9 DEF GoodParty, Members
<1>11. Members(new) \subseteq Members(party)
  BY <1>2, <1>5, <1>9 DEF Members, members
<1> QED BY <1>10, <1>11 DEF new, saved, leader, r, members

\* The ways a step may change the parties: none, one goes, two who are in none make one,
\* one is changed and may take in one who is in none.
PartiesGo == parties' \subseteq parties

PartiesStart(a, c) ==
    /\ GetPartyForCharacter(a) = {}
    /\ GetPartyForCharacter(c) = {} \/ "unread" \in SocialRaces
    /\ \E new : /\ GoodParty(new) /\ Members(new) = {a, c} /\ new.leader = a
                /\ parties' = parties \cup {new}

PartiesTake(a, c) ==
    /\ GetPartyForCharacter(c) = {} \/ "unread" \in SocialRaces
    /\ \E party \in parties : \E new :
          /\ GoodParty(new) /\ Members(new) = Members(party) \cup {c}
          /\ party.leader = a /\ new.leader = a
          /\ parties' = (parties \ {party}) \cup {new}

PartiesLose ==
    \E party \in parties : \E new :
       /\ GoodParty(new) /\ Members(new) \subseteq Members(party)
       /\ parties' = (parties \ {party}) \cup {new}

LEMMA PartyLeaves ==
    ASSUME NEW c \in Characters, PartiesGood, PartyLeave(c)
    PROVE  PartiesGo \/ PartiesLose
<1>1. PICK party \in GetPartyForCharacter(c) :
          LET remaining == Selected(party.members, {i \in DOMAIN party.members : party.members[i] # c})
              leader == IF party.leader = c THEN Head(remaining) ELSE party.leader
          IN parties' = IF Len(remaining) <= 1 THEN DeleteParty(party)
                        ELSE SaveParty(party, [leader |-> leader, members |-> remaining])
  BY DEF PartyLeave
<1> DEFINE remaining == Selected(party.members, {i \in DOMAIN party.members : party.members[i] # c})
           leader == IF party.leader = c THEN Head(remaining) ELSE party.leader
           saved == [leader |-> leader, members |-> remaining]
           new == [saved EXCEPT !.members = NormalizePartyMembers(saved.leader, saved.members)]
<1>2. party \in parties /\ GoodParty(party)
  BY DEF GetPartyForCharacter, PartiesGood
<1>3. CASE Len(remaining) <= 1
  <2>1. parties' = parties \ {party}
    BY <1>1, <1>3 DEF DeleteParty
  <2> QED BY <2>1 DEF PartiesGo
<1>4. CASE ~(Len(remaining) <= 1)
  <2>1. parties' = SaveParty(party, saved)
    BY <1>1, <1>4
  <2>2. parties' = (parties \ {party}) \cup {new}
    BY <2>1 DEF SaveParty
  <2>3. GoodParty(new) /\ Members(new) \subseteq Members(party)
    BY <1>2, <1>4, LeftGood
  <2> HIDE DEF new
  <2> QED BY <1>2, <2>2, <2>3 DEF PartiesLose
<1> QED BY <1>3, <1>4

LEMMA PartyTakes ==
    ASSUME NEW c \in Characters, NEW invite, NEW kept, PartiesGood,
           invite \in [from : Characters, to : Characters], invite.from # c,
           AcceptPartyInvite(c, invite, kept)
    PROVE  PartiesStart(invite.from, c) \/ PartiesTake(invite.from, c)
<1> DEFINE a == invite.from
<1>1. a \in Characters /\ a # c
  OBVIOUS
<1>2. GetPartyForCharacter(c) = {} \/ "unread" \in SocialRaces
  BY DEF AcceptPartyInvite
<1>3. \/ GetPartyForCharacter(a) = {} /\ parties' = CreateParty(a, <<a, c>>)
      \/ \E party \in GetPartyForCharacter(a) :
             /\ party.leader = a /\ Len(party.members) < PartySize
             /\ parties' = SaveParty(party, [party EXCEPT !.members = Append(@, c)])
  BY DEF AcceptPartyInvite
<1> HIDE DEF a
<1>4. CASE GetPartyForCharacter(a) = {} /\ parties' = CreateParty(a, <<a, c>>)
  <2> DEFINE new == [leader |-> a, members |-> NormalizePartyMembers(a, <<a, c>>)]
  <2>1. GoodParty(new) /\ Members(new) = {a, c} /\ new.leader = a
    BY <1>1, CreatedGood
  <2>2. parties' = parties \cup {new}
    BY <1>4 DEF CreateParty
  <2> HIDE DEF new
  <2>3. PartiesStart(a, c)
    BY <1>2, <1>4, <2>1, <2>2 DEF PartiesStart
  <2> QED BY <2>3 DEF a
<1>5. ASSUME NEW party \in GetPartyForCharacter(a), party.leader = a, Len(party.members) < PartySize,
             parties' = SaveParty(party, [party EXCEPT !.members = Append(@, c)])
      PROVE  PartiesTake(a, c)
  <2> DEFINE saved == [party EXCEPT !.members = Append(@, c)]
             new == [saved EXCEPT !.members = NormalizePartyMembers(saved.leader, saved.members)]
  <2>1. party \in parties /\ GoodParty(party)
    BY DEF GetPartyForCharacter, PartiesGood
  <2>2. GoodParty(new) /\ Members(new) = Members(party) \cup {c} /\ new.leader = party.leader
    BY <1>5, <2>1, JoinedGood
  <2>3. parties' = (parties \ {party}) \cup {new}
    BY <1>5 DEF SaveParty
  <2> HIDE DEF new
  <2> QED BY <1>2, <1>5, <2>1, <2>2, <2>3 DEF PartiesTake
<1> QED BY <1>3, <1>4, <1>5 DEF a

\* A step of the parties' handlers: who comes in uses up an invitation to it by the leader.
PartyMoves ==
    \/ PartiesGo \/ PartiesLose
    \/ \E invite \in partyInvites :
          /\ invite \notin partyInvites'
          /\ PartiesStart(invite.from, invite.to) \/ PartiesTake(invite.from, invite.to)

LEMMA PartyStep ==
    ASSUME PartiesGood, InvitesGood, PartyNext
    PROVE  PartyMoves /\ InvitesGood'
<1> USE DEF PartiesGo
<1>1. PICK c \in Characters :
         \/ PartyState(c) \/ PartyAccept(c) \/ PartyDecline(c)
         \/ PartyLeave(c) \/ PartyDisband(c)
         \/ \E d \in Characters : PartyInvite(c, d)
  BY DEF PartyNext
<1>2. ASSUME partyInvites' \subseteq partyInvites PROVE InvitesGood'
  BY <1>2 DEF InvitesGood
<1>3. CASE PartyState(c)
  <2>1. parties' = parties /\ partyInvites' \subseteq partyInvites
    BY <1>3 DEF PartyState
  <2> QED BY <1>2, <2>1 DEF PartyMoves
<1>4. CASE PartyDecline(c)
  <2>1. parties' = parties /\ partyInvites' \subseteq partyInvites
    BY <1>4 DEF PartyDecline
  <2> QED BY <1>2, <2>1 DEF PartyMoves
<1>5. CASE PartyDisband(c)
  <2>1. parties' \subseteq parties /\ partyInvites' \subseteq partyInvites
    BY <1>5 DEF PartyDisband, DeleteParty
  <2> QED BY <1>2, <2>1 DEF PartyMoves
<1>6. CASE PartyLeave(c)
  <2>1. partyInvites' \subseteq partyInvites
    BY <1>6 DEF PartyLeave
  <2> QED BY <1>2, <1>6, <2>1, PartyLeaves DEF PartyMoves
<1>7. CASE \E d \in Characters : PartyInvite(c, d)
  <2>1. PICK d \in Characters : PartyInvite(c, d)
    BY <1>7
  <2> DEFINE invite == [from |-> c, to |-> d]
  <2>2. c # d /\ parties' = parties /\ partyInvites' \subseteq partyInvites \cup {invite}
    BY <2>1 DEF PartyInvite
  <2>3. invite \in [from : Characters, to : Characters] /\ invite.from # invite.to
    BY <2>2
  <2>4. InvitesGood'
    BY <2>2, <2>3 DEF InvitesGood
  <2> QED BY <2>2, <2>4 DEF PartyMoves
<1>8. CASE PartyAccept(c)
  <2>1. PICK expired \in Expired :
          \E invite \in {i \in partyInvites \ expired : i.to = c} :
                \/ AcceptPartyInvite(c, invite, partyInvites \ expired)
                \/ GetPartyForCharacter(c) = {} /\ VoidPartyInvite(invite, partyInvites \ expired)
    BY <1>8 DEF PartyAccept
  <2> DEFINE kept == partyInvites \ expired
  <2>2. PICK invite \in kept :
                /\ invite.to = c
                /\ \/ AcceptPartyInvite(c, invite, kept)
                   \/ VoidPartyInvite(invite, kept)
    BY <2>1
  <2>3. /\ invite \in partyInvites /\ invite \in [from : Characters, to : Characters]
        /\ invite.to = c /\ invite.from # c
    BY <2>2 DEF InvitesGood
  <2>4. partyInvites' = kept \ {invite}
    BY <2>2 DEF AcceptPartyInvite, VoidPartyInvite
  <2>5. partyInvites' \subseteq partyInvites /\ invite \notin partyInvites'
    BY <2>4
  <2> HIDE DEF kept
  <2>6. CASE AcceptPartyInvite(c, invite, kept)
    <3>1. PartiesStart(invite.from, c) \/ PartiesTake(invite.from, c)
      BY <2>3, <2>6, PartyTakes
    <3> QED BY <1>2, <2>3, <2>5, <3>1 DEF PartyMoves
  <2>7. CASE VoidPartyInvite(invite, kept)
    <3>1. parties' = parties
      BY <2>7 DEF VoidPartyInvite
    <3> QED BY <1>2, <2>5, <3>1 DEF PartyMoves
  <2> QED BY <2>2, <2>6, <2>7
<1> QED BY <1>1, <1>3, <1>4, <1>5, <1>6, <1>7, <1>8

LEMMA PartiesStayGood ==
    ASSUME PartiesGood, PartyMoves
    PROVE  PartiesGood'
BY DEF PartiesGood, PartyMoves, PartiesGo, PartiesLose, PartiesStart, PartiesTake, GoodParty, Members

\* Two parties stay apart when one changes, if what it takes in is in none.
LEMMA PartiesStayApart ==
    ASSUME PartiesGood, PartiesApart, PartyMoves, "unread" \notin SocialRaces
    PROVE  PartiesApart'
<1> USE DEF GetPartyForCharacter
<1>1. CASE PartiesGo
  BY <1>1 DEF PartiesGo, PartiesApart, Members
<1>2. CASE PartiesLose
  <2>3. PICK party \in parties : \E new : /\ Members(new) \subseteq Members(party)
                                          /\ parties' = (parties \ {party}) \cup {new}
    BY <1>2 DEF PartiesLose
  <2>1. PICK new : Members(new) \subseteq Members(party) /\ parties' = (parties \ {party}) \cup {new}
    BY <2>3
  <2> SUFFICES ASSUME NEW p \in parties', NEW q \in parties', NEW x, x \in Members(p), x \in Members(q)
               PROVE  p = q
    BY DEF PartiesApart, Members
  <2> QED BY <2>1 DEF PartiesApart
<1>3. ASSUME NEW invite \in partyInvites, PartiesStart(invite.from, invite.to) PROVE PartiesApart'
  <2> DEFINE a == invite.from
             c == invite.to
  <2>1. PICK new : Members(new) = {a, c} /\ parties' = parties \cup {new}
    BY <1>3 DEF PartiesStart
  <2>2. \A p \in parties : a \notin Members(p) /\ c \notin Members(p)
    BY <1>3 DEF PartiesStart
  <2> HIDE DEF a, c
  <2> SUFFICES ASSUME NEW p \in parties', NEW q \in parties', NEW x, x \in Members(p), x \in Members(q)
               PROVE  p = q
    BY DEF PartiesApart, Members
  <2> QED BY <2>1, <2>2 DEF PartiesApart
<1>4. ASSUME NEW invite \in partyInvites, PartiesTake(invite.from, invite.to) PROVE PartiesApart'
  <2> DEFINE c == invite.to
  <2>3. PICK party \in parties : \E new : /\ Members(new) = Members(party) \cup {c}
                                          /\ parties' = (parties \ {party}) \cup {new}
    BY <1>4 DEF PartiesTake
  <2>1. PICK new : Members(new) = Members(party) \cup {c} /\ parties' = (parties \ {party}) \cup {new}
    BY <2>3
  <2>2. \A p \in parties : c \notin Members(p)
    BY <1>4 DEF PartiesTake
  <2> HIDE DEF c
  <2> SUFFICES ASSUME NEW p \in parties', NEW q \in parties', NEW x, x \in Members(p), x \in Members(q)
               PROVE  p = q
    BY DEF PartiesApart, Members
  <2> QED BY <2>1, <2>2 DEF PartiesApart
<1> QED BY <1>1, <1>2, <1>3, <1>4 DEF PartyMoves

LEMMA PartiesAreOneEach ==
    ASSUME PartiesGood, PartiesApart
    PROVE  OnePartyEach
<1>1. ASSUME NEW c \in Characters PROVE Cardinality(GetPartyForCharacter(c)) <= 1
  <2>1. CASE GetPartyForCharacter(c) = {}
    BY <2>1, FS_EmptySet
  <2>2. CASE GetPartyForCharacter(c) # {}
    <3>1. PICK p \in GetPartyForCharacter(c) : TRUE
      BY <2>2
    <3>2. GetPartyForCharacter(c) = {p}
      BY <3>1 DEF GetPartyForCharacter, PartiesApart
    <3> QED BY <3>2, FS_Singleton
  <2> QED BY <2>1, <2>2
<1>2. ASSUME NEW party \in parties
      PROVE  /\ Cardinality(Members(party)) = Len(party.members)
             /\ Len(party.members) \in 2..PartySize
             /\ party.leader \in Members(party)
  <2>1. GoodParty(party) /\ party.members \in Seq(Characters)
    BY DEF PartiesGood, GoodParty
  <2> QED BY <2>1, DistinctCount DEF GoodParty, Members
<1> QED BY <1>1, <1>2 DEF OnePartyEach

\* Who comes into a party was asked by its leader.
LEMMA JoinersAreAsked ==
    ASSUME PartiesGood, InvitesGood, PartyMoves, NEW c \in Characters, PartyJoin(c),
           NEW party \in parties', c \in Members(party)
    PROVE  \/ party.leader = c
           \/ LET invite == [from |-> party.leader, to |-> c]
              IN invite \in partyInvites /\ invite \notin partyInvites'
<1>1. \A p \in parties : c \notin Members(p)
  BY DEF PartyJoin, GetPartyForCharacter
<1>2. ~PartiesGo /\ ~PartiesLose
  BY <1>1 DEF PartiesGo, PartiesLose
<1>3. PICK invite \in partyInvites :
          /\ invite \notin partyInvites'
          /\ PartiesStart(invite.from, invite.to) \/ PartiesTake(invite.from, invite.to)
  BY <1>2 DEF PartyMoves
<1>4. invite = [from |-> invite.from, to |-> invite.to]
  BY DEF InvitesGood
<1>5. CASE PartiesStart(invite.from, invite.to)
  <2>1. party.leader = invite.from /\ c \in {invite.from, invite.to}
    BY <1>1, <1>5 DEF PartiesStart
  <2> QED BY <1>3, <1>4, <2>1
<1>6. CASE PartiesTake(invite.from, invite.to)
  <2>1. party.leader = invite.from /\ c = invite.to
    BY <1>1, <1>6 DEF PartiesTake
  <2> QED BY <1>3, <1>4, <2>1
<1> QED BY <1>3, <1>5, <1>6

-----------------------------------------------------------------------------
(* Guilds *)

\* A guild the store may hold: its leader is a member, and the only one of the leader's rank.
GoodGuild(guild) ==
    /\ guild = [leader |-> guild.leader, rank |-> guild.rank, motd |-> guild.motd]
    /\ guild.rank \in [DOMAIN guild.rank -> Ranks]
    /\ guild.leader \in DOMAIN guild.rank
    /\ \A c \in DOMAIN guild.rank : guild.rank[c] = Leader <=> c = guild.leader

GuildsGood ==
    /\ guilds = [g \in DOMAIN guilds |-> guilds[g]]
    /\ \A g \in DOMAIN guilds : GoodGuild(guilds[g])

\* Two guilds have no member in common.
GuildsApart ==
    \A g, h \in DOMAIN guilds : \A c : c \in GuildMembers(g) /\ c \in GuildMembers(h) => g = h

\* Who invited may still invite.
InvitesStand ==
    \A i \in guildInvites :
        i.guild \in DOMAIN guilds /\ GuildMemberHasPermission(i.guild, i.from, "invite")

LEMMA WhoMayInvite ==
    ASSUME NEW rank \in Ranks
    PROVE  "invite" \in Allowed(rank) <=> rank \in {Leader, Officer}
BY DEF Allowed, Ranks, Leader, Officer, Recruit

\* A guild is changed; only `in' may come in.
GuildChanges(g, guild, in) ==
    /\ g \in DOMAIN guilds /\ GoodGuild(guild) /\ guilds' = [guilds EXCEPT ![g] = guild]
    /\ DOMAIN guild.rank \subseteq GuildMembers(g) \cup in
    /\ \A c \in in : GetGuildForCharacter(c) = {} \/ "unread" \in SocialRaces

\* Those whose invitations are out may still invite after a change.
InvitersStay(g, guild) ==
    "departed" \notin SocialRaces =>
        \A i \in guildInvites :
            i.guild = g /\ GuildMemberHasPermission(g, i.from, "invite") =>
                i.from \in DOMAIN guild.rank /\ "invite" \in Allowed(guild.rank[i.from])

\* What a step of the guilds' handlers may do.
GuildInvites ==
    /\ guilds' = guilds
    /\ \A i \in guildInvites' :
          \/ i \in guildInvites
          \/ /\ i.to \in Characters /\ i.guild \in DOMAIN guilds
             /\ GuildMemberHasPermission(i.guild, i.from, "invite")

GuildBegins == \E g, c : CreateGuild(g, c) /\ guildInvites' = guildInvites

GuildEnds == \E g : DeleteGuild(g)

GuildOrders ==
    /\ guildInvites' = guildInvites
    /\ \E g, guild : GuildChanges(g, guild, {}) /\ InvitersStay(g, guild)

GuildTakes ==
    /\ guildInvites' \subseteq guildInvites
    /\ \E i \in guildInvites : \E guild :
          /\ GuildChanges(i.guild, guild, {i.to}) /\ InvitersStay(i.guild, guild)
          /\ i \notin guildInvites' \/ "inviteStays" \in SocialRaces

GuildMoves == GuildInvites \/ GuildBegins \/ GuildEnds \/ GuildOrders \/ GuildTakes

\* A guild that has its leader is kept as it is given.
LEMMA SavedAsGiven ==
    ASSUME NEW g, NEW guild, guild.leader \in DOMAIN guild.rank
    PROVE  SaveGuild(g, guild) = [guilds EXCEPT ![g] = guild]
BY DEF SaveGuild

LEMMA RankGiven ==
    ASSUME NEW guild, GoodGuild(guild), NEW rank, rank \in [DOMAIN rank -> Ranks],
           guild.leader \in DOMAIN rank,
           \A c \in DOMAIN rank : rank[c] = Leader <=> c = guild.leader
    PROVE  LET new == [guild EXCEPT !.rank = rank]
           IN  GoodGuild(new) /\ new.rank = rank /\ new.leader = guild.leader
<1> DEFINE new == [guild EXCEPT !.rank = rank]
<1>1. new = [leader |-> guild.leader, rank |-> rank, motd |-> guild.motd]
  BY DEF GoodGuild
<1> HIDE DEF new
<1>2. new.rank = rank /\ new.leader = guild.leader /\ new.motd = guild.motd
  BY <1>1
<1>3. GoodGuild(new)
  BY <1>1, <1>2 DEF GoodGuild
<1> QED BY <1>2, <1>3 DEF new

LEMMA GuildTakesOne ==
    ASSUME NEW c \in Characters, GuildsGood, GuildAccept(c)
    PROVE  GuildTakes
<1>1. PICK lapsed \in Lapsed : \E i \in {i \in guildInvites \ lapsed : i.to = c} :
          /\ i.guild \in DOMAIN guilds
          /\ guilds' = SaveGuild(i.guild, [guilds[i.guild] EXCEPT !.rank =
                [d \in DOMAIN @ \cup {c} |-> IF d \in DOMAIN @ THEN @[d] ELSE Recruit]])
          /\ guildInvites' \in {(guildInvites \ lapsed) \ {i}}
                \cup (IF "inviteStays" \in SocialRaces THEN {guildInvites \ lapsed} ELSE {})
  BY DEF GuildAccept
<1>2. PICK i \in guildInvites \ lapsed :
          /\ i.to = c /\ i.guild \in DOMAIN guilds
          /\ guilds' = SaveGuild(i.guild, [guilds[i.guild] EXCEPT !.rank =
                [d \in DOMAIN @ \cup {c} |-> IF d \in DOMAIN @ THEN @[d] ELSE Recruit]])
          /\ guildInvites' \in {(guildInvites \ lapsed) \ {i}}
                \cup (IF "inviteStays" \in SocialRaces THEN {guildInvites \ lapsed} ELSE {})
  BY <1>1
<1>3. GetGuildForCharacter(c) = {} \/ "unread" \in SocialRaces
  BY DEF GuildAccept
<1> DEFINE g == i.guild
           old == guilds[g].rank
           rank == [d \in DOMAIN old \cup {c} |-> IF d \in DOMAIN old THEN old[d] ELSE Recruit]
           new == [guilds[g] EXCEPT !.rank = rank]
<1>4. g \in DOMAIN guilds /\ GoodGuild(guilds[g])
  BY <1>2 DEF GuildsGood
<1>5. guilds' = SaveGuild(g, new)
  <2>1. [guilds[g] EXCEPT !.rank = [d \in DOMAIN @ \cup {c} |-> IF d \in DOMAIN @ THEN @[d] ELSE Recruit]] = new
    BY <1>4 DEF GoodGuild
  <2> HIDE DEF new
  <2> QED BY <1>2, <2>1
<1>6. Recruit \in Ranks /\ Recruit # Leader
  BY DEF Recruit, Ranks, Leader
<1>7. /\ rank \in [DOMAIN rank -> Ranks] /\ guilds[g].leader \in DOMAIN rank
      /\ \A d \in DOMAIN rank : rank[d] = Leader <=> d = guilds[g].leader
  BY <1>4, <1>6 DEF GoodGuild
<1>8. DOMAIN rank = GuildMembers(g) \cup {c} /\ \A d \in GuildMembers(g) : rank[d] = old[d]
  BY DEF GuildMembers
<1> HIDE DEF rank
<1>9. GoodGuild(new) /\ new.rank = rank /\ new.leader = guilds[g].leader
  BY <1>4, <1>7, RankGiven
<1> HIDE DEF new
<1>10. guilds' = [guilds EXCEPT ![g] = new]
  BY <1>5, <1>7, <1>9, SavedAsGiven
<1>11. GuildChanges(g, new, {i.to})
  BY <1>2, <1>3, <1>4, <1>8, <1>9, <1>10 DEF GuildChanges
<1>12. InvitersStay(g, new)
  BY <1>8, <1>9 DEF InvitersStay, GuildMemberHasPermission
<1>13. guildInvites' \subseteq guildInvites /\ (i \notin guildInvites' \/ "inviteStays" \in SocialRaces)
  BY <1>2
<1> QED BY <1>11, <1>12, <1>13 DEF GuildTakes, g

\* A member that does not lead goes.
LEMMA MemberGoes ==
    ASSUME NEW g \in DOMAIN guilds, NEW c, GuildsGood, guilds[g].leader # c, NoInvitesBy(g, c),
           RemoveGuildMember(g, c), guildInvites' = guildInvites
    PROVE  GuildOrders
<1> DEFINE old == guilds[g].rank
           rank == Restrict(old, DOMAIN old \ {c})
           new == [guilds[g] EXCEPT !.rank = rank]
<1>1. GoodGuild(guilds[g])
  BY DEF GuildsGood
<1>2. guilds' = SaveGuild(g, new)
  <2>1. [guilds[g] EXCEPT !.rank = Restrict(@, DOMAIN @ \ {c})] = new
    BY <1>1 DEF GoodGuild
  <2> HIDE DEF new
  <2> QED BY <2>1 DEF RemoveGuildMember
<1>3. DOMAIN rank = DOMAIN old \ {c} /\ \A d \in DOMAIN old \ {c} : rank[d] = old[d]
  BY DEF Restrict
<1>4. rank = [d \in DOMAIN rank |-> rank[d]]
  BY DEF Restrict
<1> HIDE DEF rank
<1>5. /\ rank \in [DOMAIN rank -> Ranks] /\ guilds[g].leader \in DOMAIN rank
      /\ \A d \in DOMAIN rank : rank[d] = Leader <=> d = guilds[g].leader
  BY <1>1, <1>3, <1>4 DEF GoodGuild
<1>6. GoodGuild(new) /\ new.rank = rank /\ new.leader = guilds[g].leader
  BY <1>1, <1>5, RankGiven
<1> HIDE DEF new
<1>7. guilds' = [guilds EXCEPT ![g] = new]
  BY <1>2, <1>5, <1>6, SavedAsGiven
<1>8. GuildChanges(g, new, {})
  BY <1>3, <1>6, <1>7 DEF GuildChanges, GuildMembers
<1>9. InvitersStay(g, new)
  BY <1>3, <1>6 DEF InvitersStay, GuildMemberHasPermission, GuildMembers, NoInvitesBy
<1> QED BY <1>8, <1>9 DEF GuildOrders

LEMMA RankIsChanged ==
    ASSUME NEW c \in Characters, NEW d \in Characters, NEW promote \in BOOLEAN, GuildsGood,
           GuildRankChange(c, d, promote)
    PROVE  GuildOrders
<1>1. PICK g \in GetGuildForCharacter(c) :
          /\ d \in GuildMembers(g)
          /\ GuildCanActOnMember(g, c, d)
          /\ LET rank == NextGuildRank(guilds[g].rank[d], promote)
             IN /\ rank \in Ranks /\ GuildCanAssignRank(g, c, rank)
                /\ ~promote => NoInvitesBy(g, d)
                /\ guilds' = SaveGuild(g, [guilds[g] EXCEPT !.rank[d] = rank])
  BY DEF GuildRankChange
<1> DEFINE old == guilds[g].rank
           r == NextGuildRank(old[d], promote)
           rank == [old EXCEPT ![d] = r]
           new == [guilds[g] EXCEPT !.rank = rank]
<1>2. g \in DOMAIN guilds /\ GoodGuild(guilds[g]) /\ d \in DOMAIN old
  BY <1>1 DEF GuildsGood, GetGuildForCharacter, GuildMembers
<1>3. r \in Ranks /\ r # Leader /\ old[d] # Leader /\ (~promote => NoInvitesBy(g, d))
  BY <1>1 DEF GuildCanAssignRank, GuildCanActOnMember
<1>4. guilds' = SaveGuild(g, new)
  <2>1. [guilds[g] EXCEPT !.rank[d] = r] = new
    BY <1>2 DEF GoodGuild
  <2>2. guilds' = SaveGuild(g, [guilds[g] EXCEPT !.rank[d] = r])
    BY <1>1
  <2> HIDE DEF new
  <2> QED BY <2>1, <2>2
<1>5. old[d] \in Ranks
  BY <1>2 DEF GoodGuild
<1>6. promote /\ old[d] \in {Leader, Officer} => r \in {Leader, Officer}
  BY <1>3, <1>5 DEF NextGuildRank, Ranks, Leader, Officer, Recruit
<1> HIDE DEF r
<1>7. DOMAIN rank = DOMAIN old /\ rank = [e \in DOMAIN rank |-> rank[e]] /\ rank[d] = r
      /\ \A e \in DOMAIN old : e # d => rank[e] = old[e]
  BY <1>2
<1> HIDE DEF rank
<1>8. /\ rank \in [DOMAIN rank -> Ranks] /\ guilds[g].leader \in DOMAIN rank
      /\ \A e \in DOMAIN rank : rank[e] = Leader <=> e = guilds[g].leader
  BY <1>2, <1>3, <1>7 DEF GoodGuild
<1>9. GoodGuild(new) /\ new.rank = rank /\ new.leader = guilds[g].leader
  BY <1>2, <1>8, RankGiven
<1> HIDE DEF new
<1>10. guilds' = [guilds EXCEPT ![g] = new]
  BY <1>4, <1>8, <1>9, SavedAsGiven
<1>11. GuildChanges(g, new, {})
  BY <1>2, <1>7, <1>9, <1>10 DEF GuildChanges, GuildMembers
<1>12. InvitersStay(g, new)
  <2> SUFFICES ASSUME "departed" \notin SocialRaces, NEW i \in guildInvites, i.guild = g,
                      GuildMemberHasPermission(g, i.from, "invite")
               PROVE  i.from \in DOMAIN rank /\ "invite" \in Allowed(rank[i.from])
    BY <1>9 DEF InvitersStay
  <2>1. i.from \in DOMAIN old /\ "invite" \in Allowed(old[i.from])
    BY DEF GuildMemberHasPermission, GuildMembers
  <2>2. CASE i.from # d
    BY <1>7, <2>1, <2>2
  <2>3. CASE i.from = d
    <3>1. promote
      BY <1>3, <2>3 DEF NoInvitesBy
    <3>2. r \in {Leader, Officer}
      BY <1>5, <1>6, <2>1, <2>3, <3>1, WhoMayInvite
    <3> QED BY <1>3, <1>7, <2>1, <2>3, <3>2, WhoMayInvite
  <2> QED BY <2>2, <2>3
<1> QED BY <1>11, <1>12 DEF GuildOrders, GuildRankChange

LEMMA MessageIsGiven ==
    ASSUME NEW c \in Characters, GuildsGood, GuildMOTD(c)
    PROVE  GuildOrders
<1>1. PICK g \in GetGuildForCharacter(c) : \E motd \in BOOLEAN :
          guilds' = SaveGuild(g, [guilds[g] EXCEPT !.motd = motd])
  BY DEF GuildMOTD
<1>2. PICK motd \in BOOLEAN : guilds' = SaveGuild(g, [guilds[g] EXCEPT !.motd = motd])
  BY <1>1
<1> DEFINE new == [guilds[g] EXCEPT !.motd = motd]
<1>3. g \in DOMAIN guilds /\ GoodGuild(guilds[g])
  BY DEF GuildsGood, GetGuildForCharacter
<1>4. PICK l : l = motd
  OBVIOUS
<1>5. new = [leader |-> guilds[g].leader, rank |-> guilds[g].rank, motd |-> l]
  BY <1>3, <1>4 DEF GoodGuild
<1>6. guilds' = SaveGuild(g, new)
  BY <1>2
<1> HIDE DEF new
<1>7. new.leader = guilds[g].leader /\ new.rank = guilds[g].rank /\ new.motd = l
  BY <1>5
<1>8. GoodGuild(new)
  BY <1>3, <1>5, <1>7 DEF GoodGuild
<1>9. guilds' = [guilds EXCEPT ![g] = new]
  BY <1>6, <1>8, SavedAsGiven DEF GoodGuild
<1>10. GuildChanges(g, new, {})
  BY <1>3, <1>7, <1>8, <1>9 DEF GuildChanges, GuildMembers
<1>11. InvitersStay(g, new)
  BY <1>7 DEF InvitersStay, GuildMemberHasPermission, GuildMembers
<1> QED BY <1>10, <1>11 DEF GuildOrders, GuildMOTD

LEMMA GuildStep ==
    ASSUME GuildsGood, GuildNext
    PROVE  GuildMoves
<1> USE DEF GetGuildForCharacter
<1>1. PICK c \in Characters :
       \/ \E g \in GuildNames : GuildCreate(c, g)
       \/ GuildAccept(c) \/ GuildDecline(c) \/ GuildLeave(c)
       \/ GuildMOTD(c) \/ GuildDisband(c)
       \/ \E d \in Characters :
             \/ GuildInvite(c, d) \/ GuildRemove(c, d)
             \/ \E promote \in BOOLEAN : GuildRankChange(c, d, promote)
  BY DEF GuildNext
<1>2. CASE \E g \in GuildNames : GuildCreate(c, g)
  BY <1>2 DEF GuildMoves, GuildBegins, GuildCreate
<1>3. CASE GuildAccept(c)
  BY <1>3, GuildTakesOne DEF GuildMoves
<1>4. CASE GuildDecline(c)
  <2>1. guilds' = guilds /\ guildInvites' \subseteq guildInvites
    BY <1>4 DEF GuildDecline
  <2> QED BY <2>1 DEF GuildMoves, GuildInvites
<1>5. CASE GuildLeave(c)
  <2>1. PICK g \in DOMAIN guilds :
           guilds[g].leader # c /\ NoInvitesBy(g, c) /\ RemoveGuildMember(g, c)
    BY <1>5 DEF GuildLeave
  <2>2. guildInvites' = guildInvites
    BY <1>5 DEF GuildLeave
  <2> QED BY <2>1, <2>2, MemberGoes DEF GuildMoves
<1>6. CASE GuildMOTD(c)
  BY <1>6, MessageIsGiven DEF GuildMoves
<1>7. CASE GuildDisband(c)
  BY <1>7 DEF GuildDisband, GuildMoves, GuildEnds
<1>8. ASSUME NEW d \in Characters, GuildInvite(c, d) PROVE GuildMoves
  <2>1. PICK lapsed \in Lapsed : \E g \in DOMAIN guilds :
          /\ GuildMemberHasPermission(g, c, "invite")
          /\ CreateGuildInvite(g, c, d, guildInvites \ lapsed)
    BY <1>8 DEF GuildInvite
  <2>2. PICK g \in DOMAIN guilds :
          /\ GuildMemberHasPermission(g, c, "invite")
          /\ CreateGuildInvite(g, c, d, guildInvites \ lapsed)
    BY <2>1
  <2>3. guildInvites' \subseteq guildInvites \cup {[guild |-> g, from |-> c, to |-> d]}
    BY <2>2 DEF CreateGuildInvite
  <2>4. guilds' = guilds
    BY <1>8 DEF GuildInvite
  <2> QED BY <2>2, <2>3, <2>4 DEF GuildMoves, GuildInvites
<1>9. ASSUME NEW d \in Characters, GuildRemove(c, d) PROVE GuildMoves
  <2>1. PICK g \in DOMAIN guilds :
           d \in GuildMembers(g) /\ GuildCanActOnMember(g, c, d) /\ NoInvitesBy(g, d) /\ RemoveGuildMember(g, d)
    BY <1>9 DEF GuildRemove
  <2>2. guildInvites' = guildInvites
    BY <1>9 DEF GuildRemove
  <2>3. guilds[g].leader # d
    BY <2>1 DEF GuildCanActOnMember, GuildsGood, GoodGuild, GuildMembers
  <2> QED BY <2>1, <2>2, <2>3, MemberGoes DEF GuildMoves
<1>10. ASSUME NEW d \in Characters, NEW promote \in BOOLEAN, GuildRankChange(c, d, promote) PROVE GuildMoves
  BY <1>10, RankIsChanged DEF GuildMoves
<1> QED BY <1>1, <1>2, <1>3, <1>4, <1>5, <1>6, <1>7, <1>8, <1>9, <1>10

\* What a guild is that has just been founded.
LEMMA FoundedGood ==
    ASSUME NEW g, NEW c, CreateGuild(g, c), GuildsGood
    PROVE  /\ g \notin DOMAIN guilds /\ DOMAIN guilds' = DOMAIN guilds \cup {g}
           /\ \A h \in DOMAIN guilds : guilds'[h] = guilds[h]
           /\ GuildsGood' /\ DOMAIN guilds'[g].rank = {c}
<1> DEFINE rank == [d \in {c} |-> Leader]
           new == [leader |-> c, rank |-> rank, motd |-> FALSE]
<1>1. PICK l : l = FALSE
  OBVIOUS
<1>2. new = [leader |-> c, rank |-> rank, motd |-> l]
  BY <1>1
<1>3. guilds' = [h \in DOMAIN guilds \cup {g} |-> IF h = g THEN new ELSE guilds[h]]
  BY DEF CreateGuild
<1> HIDE DEF new
<1>4. Leader \in Ranks
  BY DEF Leader, Ranks, Recruit
<1>5. new.leader = c /\ new.rank = rank /\ new.motd = l
  BY <1>2
<1>6. DOMAIN rank = {c} /\ rank[c] = Leader /\ rank \in [DOMAIN rank -> Ranks]
  BY <1>4
<1> HIDE DEF rank
<1>7. GoodGuild(new)
  BY <1>2, <1>5, <1>6 DEF GoodGuild
<1>8. g \notin DOMAIN guilds /\ DOMAIN guilds' = DOMAIN guilds \cup {g} /\ guilds'[g] = new
      /\ \A h \in DOMAIN guilds : guilds'[h] = guilds[h]
  BY <1>3 DEF CreateGuild
<1>9. guilds' = [h \in DOMAIN guilds' |-> guilds'[h]]
  BY <1>3
<1>10. GuildsGood'
  <2>1. \A h \in DOMAIN guilds' : GoodGuild(guilds'[h])
    BY <1>7, <1>8 DEF GuildsGood
  <2> QED BY <1>9, <2>1 DEF GuildsGood, GoodGuild
<1> QED BY <1>5, <1>6, <1>8, <1>10

LEMMA EndedRest ==
    ASSUME NEW g, DeleteGuild(g)
    PROVE  /\ DOMAIN guilds' = DOMAIN guilds \ {g} /\ guilds' = [h \in DOMAIN guilds' |-> guilds'[h]]
           /\ \A h \in DOMAIN guilds' : guilds'[h] = guilds[h]
           /\ \A i \in guildInvites' : i \in guildInvites /\ i.guild # g
BY DEF DeleteGuild, Restrict

LEMMA ChangedRest ==
    ASSUME GuildsGood, NEW g, NEW guild, NEW in, GuildChanges(g, guild, in)
    PROVE  /\ DOMAIN guilds' = DOMAIN guilds /\ guilds'[g] = guild
           /\ \A h \in DOMAIN guilds : h # g => guilds'[h] = guilds[h]
           /\ guilds' = [h \in DOMAIN guilds' |-> guilds'[h]]
BY DEF GuildChanges, GuildsGood

LEMMA GuildsStayGood ==
    ASSUME GuildsGood, GuildMoves
    PROVE  GuildsGood'
<1>0. ASSUME guilds' = [h \in DOMAIN guilds' |-> guilds'[h]], \A h \in DOMAIN guilds' : GoodGuild(guilds'[h])
      PROVE  GuildsGood'
  BY <1>0 DEF GuildsGood, GoodGuild
<1>1. CASE GuildInvites
  BY <1>1 DEF GuildInvites, GuildsGood, GoodGuild
<1>2. CASE GuildBegins
  BY <1>2, FoundedGood DEF GuildBegins
<1>3. CASE GuildEnds
  <2>1. PICK g : DeleteGuild(g)
    BY <1>3 DEF GuildEnds
  <2> QED BY <1>0, <2>1, EndedRest DEF GuildsGood
<1>4. ASSUME NEW g, NEW guild, NEW in, GuildChanges(g, guild, in) PROVE GuildsGood'
  <2>1. /\ DOMAIN guilds' = DOMAIN guilds /\ guilds'[g] = guild
        /\ \A h \in DOMAIN guilds : h # g => guilds'[h] = guilds[h]
        /\ guilds' = [h \in DOMAIN guilds' |-> guilds'[h]]
    BY <1>4, ChangedRest
  <2>2. GoodGuild(guild)
    BY <1>4 DEF GuildChanges
  <2>3. \A h \in DOMAIN guilds' : GoodGuild(guilds'[h])
    BY <2>1, <2>2 DEF GuildsGood
  <2> QED BY <1>0, <2>1, <2>3
<1>5. CASE GuildOrders
  BY <1>4, <1>5 DEF GuildOrders
<1>6. CASE GuildTakes
  BY <1>4, <1>6 DEF GuildTakes
<1> QED BY <1>1, <1>2, <1>3, <1>5, <1>6 DEF GuildMoves

LEMMA GuildsStayApart ==
    ASSUME GuildsGood, GuildsApart, GuildMoves, "unread" \notin SocialRaces,
           \A i \in guildInvites : i.to \in Characters
    PROVE  GuildsApart'
<1> USE DEF GuildMembers
<1>1. CASE GuildInvites
  BY <1>1 DEF GuildInvites, GuildsApart
<1>2. CASE GuildBegins
  <2>1. PICK g, c : CreateGuild(g, c)
    BY <1>2 DEF GuildBegins
  <2>2. \A h \in DOMAIN guilds : c \notin GuildMembers(h)
    BY <2>1 DEF CreateGuild, GetGuildForCharacter
  <2>3. /\ g \notin DOMAIN guilds /\ DOMAIN guilds' = DOMAIN guilds \cup {g}
        /\ \A h \in DOMAIN guilds : guilds'[h] = guilds[h]
        /\ DOMAIN guilds'[g].rank = {c}
    BY <2>1, FoundedGood
  <2> QED BY <2>2, <2>3 DEF GuildsApart
<1>3. CASE GuildEnds
  <2>1. PICK g : DeleteGuild(g)
    BY <1>3 DEF GuildEnds
  <2>2. DOMAIN guilds' \subseteq DOMAIN guilds /\ \A h \in DOMAIN guilds' : guilds'[h] = guilds[h]
    BY <2>1, EndedRest
  <2> QED BY <2>2 DEF GuildsApart
<1>4. ASSUME NEW g, NEW guild, NEW in \in SUBSET Characters, GuildChanges(g, guild, in) PROVE GuildsApart'
  <2>1. /\ DOMAIN guilds' = DOMAIN guilds /\ guilds'[g] = guild
        /\ \A h \in DOMAIN guilds : h # g => guilds'[h] = guilds[h]
    BY <1>4, ChangedRest
  <2>2. DOMAIN guild.rank \subseteq GuildMembers(g) \cup in /\ g \in DOMAIN guilds
    BY <1>4 DEF GuildChanges
  <2>3. \A c \in in : \A h \in DOMAIN guilds : c \notin GuildMembers(h)
    BY <1>4 DEF GuildChanges, GetGuildForCharacter
  <2> QED BY <2>1, <2>2, <2>3 DEF GuildsApart
<1>5. CASE GuildOrders
  BY <1>4, <1>5 DEF GuildOrders
<1>6. CASE GuildTakes
  BY <1>4, <1>6 DEF GuildTakes
<1> QED BY <1>1, <1>2, <1>3, <1>5, <1>6 DEF GuildMoves

LEMMA GuildsAreOneEach ==
    ASSUME GuildsGood, GuildsApart
    PROVE  OneGuildEach
<1>1. ASSUME NEW c \in Characters PROVE Cardinality(GetGuildForCharacter(c)) <= 1
  <2>1. CASE GetGuildForCharacter(c) = {}
    BY <2>1, FS_EmptySet
  <2>2. CASE GetGuildForCharacter(c) # {}
    <3>1. PICK g \in GetGuildForCharacter(c) : TRUE
      BY <2>2
    <3>2. GetGuildForCharacter(c) = {g}
      BY <3>1 DEF GetGuildForCharacter, GuildsApart
    <3> QED BY <3>2, FS_Singleton
  <2> QED BY <2>1, <2>2
<1>2. \A g \in DOMAIN guilds :
          {c \in GuildMembers(g) : guilds[g].rank[c] = Leader} = {guilds[g].leader}
  BY DEF GuildsGood, GoodGuild, GuildMembers
<1> QED BY <1>1, <1>2 DEF OneGuildEach

\* An invitation stands as long as its guild does.
LEMMA InvitesStayStanding ==
    ASSUME GuildsGood, InvitesStand, GuildMoves, "departed" \notin SocialRaces
    PROVE  InvitesStand'
<1> USE DEF GuildMemberHasPermission, GuildMembers
<1>1. CASE GuildInvites
  BY <1>1 DEF GuildInvites, InvitesStand
<1>2. CASE GuildBegins
  <2>1. PICK g, c : CreateGuild(g, c) /\ guildInvites' = guildInvites
    BY <1>2 DEF GuildBegins
  <2>2. DOMAIN guilds' = DOMAIN guilds \cup {g} /\ \A h \in DOMAIN guilds : guilds'[h] = guilds[h]
    BY <2>1, FoundedGood
  <2> QED BY <2>1, <2>2 DEF InvitesStand
<1>3. CASE GuildEnds
  <2>1. PICK g : DeleteGuild(g)
    BY <1>3 DEF GuildEnds
  <2>2. /\ DOMAIN guilds' = DOMAIN guilds \ {g} /\ \A h \in DOMAIN guilds' : guilds'[h] = guilds[h]
        /\ \A i \in guildInvites' : i \in guildInvites /\ i.guild # g
    BY <2>1, EndedRest
  <2> QED BY <2>2 DEF InvitesStand
<1>4. ASSUME NEW g, NEW guild, NEW in, GuildChanges(g, guild, in), InvitersStay(g, guild),
             guildInvites' \subseteq guildInvites
      PROVE  InvitesStand'
  <2>1. /\ DOMAIN guilds' = DOMAIN guilds /\ guilds'[g] = guild
        /\ \A h \in DOMAIN guilds : h # g => guilds'[h] = guilds[h]
    BY <1>4, ChangedRest
  <2> SUFFICES ASSUME NEW i \in guildInvites'
               PROVE  /\ i.guild \in DOMAIN guilds' /\ i.from \in DOMAIN guilds'[i.guild].rank
                      /\ "invite" \in Allowed(guilds'[i.guild].rank[i.from])
    BY DEF InvitesStand
  <2>2. i \in guildInvites /\ i.guild \in DOMAIN guilds /\ GuildMemberHasPermission(i.guild, i.from, "invite")
    BY <1>4 DEF InvitesStand
  <2>3. CASE i.guild # g
    BY <2>1, <2>2, <2>3
  <2>4. CASE i.guild = g
    <3>1. i.from \in DOMAIN guild.rank /\ "invite" \in Allowed(guild.rank[i.from])
      BY <1>4, <2>2, <2>4 DEF InvitersStay
    <3> QED BY <2>1, <2>2, <2>4, <3>1
  <2> QED BY <2>3, <2>4
<1>5. CASE GuildOrders
  BY <1>4, <1>5 DEF GuildOrders
<1>6. CASE GuildTakes
  BY <1>4, <1>6 DEF GuildTakes
<1> QED BY <1>1, <1>2, <1>3, <1>5, <1>6 DEF GuildMoves

\* Who comes into a guild was asked by one who may ask, and the invitation is used up.
LEMMA GuildJoinersAreAsked ==
    ASSUME GuildsGood, InvitesStand, GuildMoves, "inviteStays" \notin SocialRaces,
           NEW c, NEW g, GuildJoin(c, g)
    PROVE  \E i \in guildInvites :
              /\ i.guild = g /\ i.to = c /\ i \notin guildInvites'
              /\ GuildMemberHasPermission(g, i.from, "invite")
<1> USE DEF GuildJoin, GuildMembers
<1>1. CASE GuildInvites
  BY <1>1 DEF GuildInvites
<1>2. CASE GuildBegins
  <2>1. PICK h, d : CreateGuild(h, d)
    BY <1>2 DEF GuildBegins
  <2> QED BY <2>1, FoundedGood
<1>3. CASE GuildEnds
  BY <1>3, EndedRest DEF GuildEnds
<1>4. CASE GuildOrders
  <2>1. PICK h, guild : GuildChanges(h, guild, {})
    BY <1>4 DEF GuildOrders
  <2>2. /\ DOMAIN guilds' = DOMAIN guilds /\ guilds'[h] = guild
        /\ \A k \in DOMAIN guilds : k # h => guilds'[k] = guilds[k]
    BY <2>1, ChangedRest
  <2> QED BY <2>1, <2>2 DEF GuildChanges
<1>5. CASE GuildTakes
  <2>4. PICK i \in guildInvites : \E guild : GuildChanges(i.guild, guild, {i.to}) /\ i \notin guildInvites'
    BY <1>5 DEF GuildTakes
  <2>1. PICK guild : GuildChanges(i.guild, guild, {i.to}) /\ i \notin guildInvites'
    BY <2>4
  <2>2. /\ DOMAIN guilds' = DOMAIN guilds /\ guilds'[i.guild] = guild
        /\ \A k \in DOMAIN guilds : k # i.guild => guilds'[k] = guilds[k]
    BY <2>1, ChangedRest
  <2>3. i.guild = g /\ i.to = c
    BY <2>1, <2>2 DEF GuildChanges
  <2> QED BY <2>1, <2>3 DEF InvitesStand
<1> QED BY <1>1, <1>2, <1>3, <1>4, <1>5 DEF GuildMoves

\* Whom an invitation is for is somebody.
InvitedKnown == \A i \in guildInvites : i.to \in Characters

LEMMA InvitedStayKnown ==
    ASSUME InvitedKnown, GuildMoves
    PROVE  InvitedKnown'
<1>1. CASE GuildInvites
  BY <1>1 DEF GuildInvites, InvitedKnown
<1>2. CASE GuildEnds
  BY <1>2, EndedRest DEF GuildEnds, InvitedKnown
<1>3. CASE GuildBegins \/ GuildOrders \/ GuildTakes
  BY <1>3 DEF GuildBegins, GuildOrders, GuildTakes, InvitedKnown
<1> QED BY <1>1, <1>2, <1>3 DEF GuildMoves

-----------------------------------------------------------------------------
(* Talk *)

Rising(s) == \A i, j \in DOMAIN s : i < j => s[i] < s[j]

LEMMA RisingDistinct ==
    ASSUME NEW s \in Seq(Nat), Rising(s)
    PROVE  Distinct(s)
<1>1. DOMAIN s \subseteq Nat /\ \A i \in DOMAIN s : s[i] \in Nat
  BY LenProperties, ElementOfSeq
<1> SUFFICES ASSUME NEW i \in DOMAIN s, NEW j \in DOMAIN s, s[i] = s[j] PROVE i = j
  BY DEF Distinct
<1>2. ~(i < j) /\ ~(j < i)
  BY <1>1 DEF Rising
<1> QED BY <1>1, <1>2

LEMMA SelectedRising ==
    ASSUME NEW seq \in Seq(Nat), Rising(seq), NEW I \in SUBSET (DOMAIN seq)
    PROVE  LET s == Selected(seq, I)
           IN  s \in Seq(Nat) /\ Rising(s) /\ ToSet(s) = {seq[i] : i \in I}
<1> DEFINE s == Selected(seq, I)
<1>1. DOMAIN seq = 1..Len(seq) /\ I \in SUBSET (1..Len(seq))
  BY LenProperties
<1>2. s \in Seq(Nat) /\ \E e : Chosen(seq, I, s, e)
  BY <1>1, SelectedChosen
<1> HIDE DEF s
<1>3. PICK e : Chosen(seq, I, s, e)
  BY <1>2
<1> DEFINE k == Len(s)
<1>4. DOMAIN s = 1..k /\ \A i \in 1..k : s[i] = seq[e[i]] /\ e[i] \in I
  BY <1>3 DEF Chosen
<1>5. (\A i, j \in 1..k : i < j => e[i] < e[j]) /\ \A i \in I : \E j \in 1..k : e[j] = i
  BY <1>3 DEF Chosen
<1> HIDE DEF k
<1>6. Rising(s)
  BY <1>4, <1>5 DEF Rising
<1>7. ToSet(s) = {s[i] : i \in 1..k}
  BY <1>4 DEF ToSet
<1>8. ToSet(s) = {seq[i] : i \in I}
  BY <1>4, <1>5, <1>7
<1> QED BY <1>2, <1>6, <1>8 DEF s

\* The last elements are the sequence itself, or as many as may stay.
LEMMA LastOfTail ==
    ASSUME NEW S, NEW seq \in Seq(S), NEW limit \in Nat \ {0}
    PROVE  LET r == LastOf(seq, limit)
           IN  /\ r \in Seq(S) /\ Len(r) <= limit
               /\ \E d \in Nat :
                     /\ Len(seq) = Len(r) + d /\ (d = 0 \/ Len(r) = limit)
                     /\ \A k \in 1..Len(r) : r[k] = seq[k + d] /\ k + d \in 1..Len(seq)
<1> DEFINE r == LastOf(seq, limit)
           l == Len(seq)
           d == l - limit
<1>1. l \in Nat /\ \A i \in 1..l : seq[i] \in S
  BY LenProperties, ElementOfSeq
<1>2. CASE l <= limit
  <2>1. r = seq
    BY <1>2 DEF LastOf
  <2> HIDE DEF r
  <2>2. Len(seq) = Len(r) + 0 /\ \A k \in 1..Len(r) : r[k] = seq[k + 0] /\ k + 0 \in 1..Len(seq)
    BY <1>1, <2>1
  <2>3. r \in Seq(S) /\ Len(r) <= limit /\ 0 \in Nat
    BY <1>2, <2>1
  <2>4. \E d0 \in Nat :
            /\ Len(seq) = Len(r) + d0 /\ (d0 = 0 \/ Len(r) = limit)
            /\ \A k \in 1..Len(r) : r[k] = seq[k + d0] /\ k + d0 \in 1..Len(seq)
    BY <2>2, <2>3
  <2> QED BY <2>3, <2>4 DEF r
<1>3. CASE ~(l <= limit)
  <2>1. d \in Nat /\ d + 1 \in Int /\ d + 1 <= l /\ l - (d + 1) + 1 = limit /\ l = limit + d
    <3>1. l \in Nat /\ limit \in Nat \ {0} /\ ~(l <= limit)
      BY <1>1, <1>3
    <3> HIDE DEF l
    <3>2. d \in Nat /\ d >= 1
      BY <3>1
    <3>3. l = limit + d
      BY <3>1
    <3> HIDE DEF d
    <3> QED BY <3>1, <3>2, <3>3
  <2>2. r = SubSeq(seq, d + 1, l)
    BY <1>3 DEF LastOf
  <2> DEFINE m == d + 1
  <2> HIDE DEF d, r, l
  <2>3. \A i \in m..l : seq[i] \in S
    BY <1>1, <2>1
  <2>4. m \in Int /\ l \in Int /\ m <= l /\ l - m + 1 = limit
    BY <1>1, <2>1
  <2> HIDE DEF m
  <2>5. /\ SubSeq(seq, m, l) \in Seq(S)
        /\ Len(SubSeq(seq, m, l)) = IF m <= l THEN l - m + 1 ELSE 0
        /\ \A i \in 1..(l - m + 1) : SubSeq(seq, m, l)[i] = seq[m + i - 1]
    BY <2>3, <2>4, SubSeqProperties
  <2>6. r \in Seq(S) /\ Len(r) = limit /\ \A i \in 1..limit : r[i] = seq[m + i - 1]
    BY <2>2, <2>4, <2>5 DEF m
  <2>7. \A k \in 1..limit : m + k - 1 = k + d /\ k + d \in 1..l
    BY <2>1 DEF m
  <2>8. \A k \in 1..Len(r) : r[k] = seq[k + d] /\ k + d \in 1..l
    BY <2>6, <2>7
  <2>9. Len(r) <= limit /\ l = Len(r) + d
    BY <2>1, <2>6
  <2> QED BY <2>1, <2>6, <2>8, <2>9 DEF r, l
<1> QED BY <1>2, <1>3

\* What the service keeps: the messages up to the last, none left out.
RingGood(R, s) ==
    /\ R \in Seq([n : Nat, to : SUBSET Talkers]) /\ s \in Nat /\ Len(R) <= RingLimit /\ Len(R) <= s
    /\ \A i \in 1..Len(R) : R[i].n = (s - Len(R)) + i

\* The numbers of those to c.
Visible(R, c) == {R[i].n : i \in {i \in 1..Len(R) : c \in R[i].to}}

\* A client's list L, last number l and history G beside what the service keeps: it lists
\* numbers up to l in their order; of the messages to it up to l it has shown all, and lists
\* all but those before its full list; and what it lists was to it.
ClientGood(R, s, L, l, G, c) ==
    /\ L \in Seq(Nat) /\ Rising(L) /\ Len(L) <= ListLimit
    /\ l \in Nat /\ l <= s
    /\ \A k \in 1..Len(L) : 1 <= L[k] /\ L[k] <= l
    /\ \A v \in Visible(R, c) : v <= l => v \in G
    /\ \A v \in Visible(R, c) : v <= l =>
          v \in ToSet(L) \/ (Len(L) = ListLimit /\ \A k \in 1..Len(L) : v < L[k])
    /\ \A k \in 1..Len(L), i \in 1..Len(R) : R[i].n = L[k] => c \in R[i].to

LEMMA RingGrows ==
    ASSUME NEW R, NEW s, RingGood(R, s), NEW to \in SUBSET Talkers
    PROVE  LET Q == LastOf(Append(R, [n |-> s + 1, to |-> to]), RingLimit)
           IN  /\ RingGood(Q, s + 1)
               /\ \A c : \A v \in Visible(Q, c) : v \in Visible(R, c) \/ v = s + 1
               /\ \A i \in 1..Len(Q) : Q[i].n = s + 1 \/ \E j \in 1..Len(R) : Q[i] = R[j]
<1> DEFINE new == [n |-> s + 1, to |-> to]
           M == Append(R, new)
           Q == LastOf(M, RingLimit)
           Messages == [n : Nat, to : SUBSET Talkers]
           l == Len(R)
<1>1. R \in Seq(Messages) /\ s \in Nat /\ l <= RingLimit /\ l <= s /\ l \in Nat
  BY LenProperties DEF RingGood
<1>2. new \in Messages /\ new.n = s + 1
  BY <1>1
<1> HIDE DEF new, Messages
<1>3. M \in Seq(Messages) /\ Len(M) = l + 1 /\ M[l + 1] = new /\ \A i \in 1..l : M[i] = R[i]
  BY <1>1, <1>2, AppendProperties
<1>4. \A i \in 1..(l + 1) : M[i].n = (s - l) + i
  <2> TAKE i \in 1..(l + 1)
  <2>1. CASE i = l + 1
    BY <1>1, <1>2, <1>3, <2>1
  <2>2. CASE i # l + 1
    <3>1. i \in 1..l
      BY <1>1, <2>2
    <3>2. R[i].n = (s - l) + i
      BY <3>1 DEF RingGood
    <3> QED BY <1>3, <3>1, <3>2
  <2> QED BY <2>1, <2>2
<1> HIDE DEF M
<1>5. RingLimit \in Nat \ {0}
  BY TalkAssumption
<1>6. Q \in Seq(Messages) /\ Len(Q) <= RingLimit
  BY <1>3, <1>5, LastOfTail
<1>7. PICK d \in Nat :
          /\ Len(M) = Len(Q) + d
          /\ \A k \in 1..Len(Q) : Q[k] = M[k + d] /\ k + d \in 1..Len(M)
  BY <1>3, <1>5, LastOfTail
<1> HIDE DEF Q
<1> DEFINE q == Len(Q)
<1>8. q \in Nat /\ l + 1 = q + d
  BY <1>3, <1>6, <1>7, LenProperties
<1>9. \A k \in 1..q : Q[k] = M[k + d] /\ k + d \in 1..(l + 1)
  BY <1>3, <1>7
<1> HIDE DEF q, l
<1>10. \A k \in 1..q : Q[k].n = ((s + 1) - q) + k
  <2> TAKE k \in 1..q
  <2>1. Q[k].n = (s - l) + (k + d)
    BY <1>4, <1>9
  <2>2. (s - l) + (k + d) = ((s + 1) - q) + k
    BY <1>1, <1>8
  <2> QED BY <2>1, <2>2
<1>11. RingGood(Q, s + 1)
  <2>1. q <= s + 1 /\ s + 1 \in Nat
    BY <1>1, <1>8
  <2> QED BY <1>6, <1>10, <2>1 DEF RingGood, q, Messages
<1>12. \A k \in 1..q : Q[k] = new \/ \E j \in 1..l : Q[k] = R[j]
  <2> TAKE k \in 1..q
  <2>1. k + d = l + 1 \/ k + d \in 1..l
    <3>1. k + d \in 1..(l + 1)
      BY <1>9
    <3> QED BY <1>1, <3>1
  <2> QED BY <1>3, <1>9, <2>1
<1>13. \A c : \A v \in Visible(Q, c) : v \in Visible(R, c) \/ v = s + 1
  <2> TAKE c
  <2> TAKE v \in Visible(Q, c)
  <2>1. PICK k \in 1..q : v = Q[k].n /\ c \in Q[k].to
    BY DEF Visible, q
  <2> QED BY <1>2, <1>12, <2>1 DEF Visible, l
<1>14. \A i \in 1..q : Q[i].n = s + 1 \/ \E j \in 1..l : Q[i] = R[j]
  BY <1>2, <1>12
<1> QED BY <1>11, <1>13, <1>14 DEF Q, M, new, q, l

\* Nothing changes for a client that is not told of the newest message.
LEMMA ClientWaits ==
    ASSUME NEW R, NEW s, RingGood(R, s), NEW to \in SUBSET Talkers,
           NEW L, NEW l, NEW G, NEW c, ClientGood(R, s, L, l, G, c)
    PROVE  ClientGood(LastOf(Append(R, [n |-> s + 1, to |-> to]), RingLimit), s + 1, L, l, G, c)
<1> DEFINE Q == LastOf(Append(R, [n |-> s + 1, to |-> to]), RingLimit)
<1>1. /\ \A v \in Visible(Q, c) : v \in Visible(R, c) \/ v = s + 1
      /\ \A i \in 1..Len(Q) : Q[i].n = s + 1 \/ \E j \in 1..Len(R) : Q[i] = R[j]
  BY RingGrows
<1> HIDE DEF Q
<1>2. s \in Nat /\ l \in Nat /\ l <= s
  BY DEF RingGood, ClientGood
<1>3. l <= s + 1 /\ ~(s + 1 <= l)
  BY <1>2
<1>4. L \in Seq(Nat) /\ \A k \in 1..Len(L) : L[k] \in Nat /\ L[k] <= l
  BY ElementOfSeq DEF ClientGood
<1>5. \A k \in 1..Len(L) : L[k] # s + 1
  BY <1>2, <1>4
<1>6. \A v \in Visible(Q, c) : v <= l => v \in Visible(R, c)
  BY <1>1, <1>3
<1>7. \A k \in 1..Len(L), i \in 1..Len(Q) : Q[i].n = L[k] => c \in Q[i].to
  BY <1>1, <1>5 DEF ClientGood
<1>8. ClientGood(Q, s + 1, L, l, G, c)
  BY <1>3, <1>6, <1>7 DEF ClientGood
<1> QED BY <1>8 DEF Q

LEMMA NumbersRise ==
    ASSUME NEW R, NEW s, RingGood(R, s)
    PROVE  LET q == [i \in DOMAIN R |-> R[i].n]
           IN  /\ q \in Seq(Nat) /\ Rising(q) /\ Len(q) = Len(R) /\ DOMAIN q = 1..Len(R) /\ DOMAIN R = 1..Len(R)
               /\ \A i \in 1..Len(R) : q[i] = R[i].n /\ 1 <= q[i] /\ q[i] <= s
<1> DEFINE q == [i \in DOMAIN R |-> R[i].n]
           l == Len(R)
           Messages == [n : Nat, to : SUBSET Talkers]
<1>1. R \in Seq(Messages) /\ s \in Nat /\ l <= s
  BY DEF RingGood
<1>2. l \in Nat /\ DOMAIN R = 1..l /\ \A i \in 1..l : R[i] \in Messages
  BY <1>1, LenProperties, ElementOfSeq
<1>3. \A i \in 1..l : q[i] = R[i].n /\ q[i] \in Nat
  BY <1>2
<1>4. q \in [1..l -> Nat] /\ DOMAIN q = 1..l
  BY <1>2, <1>3
<1>5. q \in Seq(Nat)
  BY <1>2, <1>4, SeqDef
<1>6. \A i \in 1..l : q[i] = (s - l) + i
  BY <1>3 DEF RingGood
<1> HIDE DEF q, l
<1>7. Len(q) = l
  <2>1. Len(q) \in Nat /\ DOMAIN q = 1..Len(q)
    BY <1>5, LenProperties
  <2> QED BY <1>2, <1>4, <2>1
<1>8. Rising(q)
  <2> SUFFICES ASSUME NEW i \in 1..l, NEW j \in 1..l, i < j PROVE q[i] < q[j]
    BY <1>4 DEF Rising
  <2>1. q[i] = (s - l) + i /\ q[j] = (s - l) + j
    BY <1>6
  <2> QED BY <1>1, <1>2, <2>1
<1>9. \A i \in 1..l : 1 <= q[i] /\ q[i] <= s
  BY <1>1, <1>2, <1>6
<1> QED BY <1>2, <1>3, <1>4, <1>5, <1>7, <1>8, <1>9 DEF q, l

\* What a question brings: the numbers visible to c, those after the last if there is one.
LEMMA AnswerBrings ==
    ASSUME NEW R, NEW s, RingGood(R, s), NEW c, NEW after \in Nat
    PROVE  LET a == VisibleChatMessages(R, c, after)
           IN  a \in Seq(Nat) /\ Rising(a) /\ ToSet(a) = {v \in Visible(R, c) : v > after}
<1> DEFINE q == [i \in DOMAIN R |-> R[i].n]
           I == {i \in DOMAIN R : c \in R[i].to /\ (after > 0 => R[i].n > after)}
           a == Selected(q, I)
<1>1. /\ q \in Seq(Nat) /\ Rising(q) /\ DOMAIN q = 1..Len(R) /\ DOMAIN R = 1..Len(R)
      /\ \A i \in 1..Len(R) : q[i] = R[i].n /\ 1 <= q[i]
  BY NumbersRise
<1>2. I \in SUBSET (DOMAIN q)
  BY <1>1
<1>3. a \in Seq(Nat) /\ Rising(a) /\ ToSet(a) = {q[i] : i \in I}
  BY <1>1, <1>2, SelectedRising
<1>4. \A i \in 1..Len(R) : q[i] \in Nat
  BY <1>1, LenProperties
<1>5. \A i \in 1..Len(R) : i \in I <=> c \in R[i].to /\ R[i].n > after
  <2> TAKE i \in 1..Len(R)
  <2>1. R[i].n \in Nat /\ 1 <= R[i].n
    BY <1>1, <1>4
  <2>2. (after > 0 => R[i].n > after) <=> R[i].n > after
    BY <2>1
  <2> QED BY <1>1, <2>2
<1>6. \A i \in I : i \in 1..Len(R)
  BY <1>1
<1>7. a = VisibleChatMessages(R, c, after)
  BY DEF VisibleChatMessages
<1> HIDE DEF q, I, a
<1>8. {q[i] : i \in I} = {v \in Visible(R, c) : v > after}
  BY <1>1, <1>5, <1>6 DEF Visible
<1> QED BY <1>3, <1>7, <1>8

LEMMA VisibleRange ==
    ASSUME NEW R, NEW s, RingGood(R, s), NEW c, NEW v \in Visible(R, c)
    PROVE  v \in Nat /\ 1 <= v /\ v <= s
<1>1. PICK i \in 1..Len(R) : v = R[i].n
  BY DEF Visible
<1> DEFINE q == [j \in DOMAIN R |-> R[j].n]
<1>2. q \in Seq(Nat) /\ Len(q) = Len(R) /\ \A j \in 1..Len(R) : q[j] = R[j].n /\ 1 <= q[j] /\ q[j] <= s
  BY NumbersRise
<1> HIDE DEF q
<1>3. q[i] \in Nat
  BY <1>2, ElementOfSeq
<1> QED BY <1>1, <1>2, <1>3

\* Every message kept that is not older than one kept is kept.
LEMMA KeptSince ==
    ASSUME NEW R, NEW s, RingGood(R, s), NEW c, NEW v \in Visible(R, c), NEW n \in Nat, v <= n, n <= s
    PROVE  \E i \in 1..Len(R) : R[i].n = n
<1>1. PICK j \in 1..Len(R) : v = R[j].n
  BY DEF Visible
<1> DEFINE l == Len(R)
<1>2. l \in Nat /\ s \in Nat /\ l <= s
  BY LenProperties DEF RingGood
<1>3. v = (s - l) + j
  BY <1>1 DEF RingGood
<1>4. \A i \in 1..l : R[i].n = (s - l) + i
  BY DEF RingGood
<1> HIDE DEF l
<1>5. n - (s - l) \in 1..l /\ n = (s - l) + (n - (s - l))
  BY <1>1, <1>2, <1>3 DEF l
<1> QED BY <1>4, <1>5 DEF l

\* An answer with all that is visible and no more than a client lists: what is not after
\* its last number it lists already.
LEMMA ShortAnswerListed ==
    ASSUME NEW R, NEW s, RingGood(R, s), NEW L, NEW l, NEW G, NEW c, ClientGood(R, s, L, l, G, c),
           NEW a \in Seq(Nat), Rising(a), ToSet(a) = Visible(R, c), Len(a) <= ListLimit,
           NEW v \in Visible(R, c), v <= l
    PROVE  v \in ToSet(L)
<1> SUFFICES ASSUME v \notin ToSet(L) PROVE FALSE
  OBVIOUS
<1>1. Len(L) = ListLimit /\ \A k \in 1..Len(L) : v < L[k]
  BY DEF ClientGood
<1>2. L \in Seq(Nat) /\ Rising(L) /\ l \in Nat /\ l <= s /\ s \in Nat /\ v \in Nat
  BY VisibleRange DEF ClientGood, RingGood
<1>3. \A k \in 1..Len(L) : L[k] \in Nat /\ L[k] <= l
  BY <1>2, ElementOfSeq DEF ClientGood
<1>4. ASSUME NEW k \in 1..Len(L) PROVE L[k] \in Visible(R, c)
  <2>1. v <= L[k] /\ L[k] <= s /\ L[k] \in Nat
    BY <1>1, <1>2, <1>3
  <2>2. PICK i \in 1..Len(R) : R[i].n = L[k]
    BY <2>1, KeptSince
  <2>3. c \in R[i].to
    BY <2>2 DEF ClientGood
  <2> QED BY <2>2, <2>3 DEF Visible
<1>5. ToSet(L) \cup {v} \subseteq ToSet(a)
  <2>1. DOMAIN L = 1..Len(L)
    BY <1>2, LenProperties
  <2> QED BY <1>4, <2>1 DEF ToSet
<1>6. IsFiniteSet(ToSet(L)) /\ Cardinality(ToSet(L)) = ListLimit
  BY <1>1, <1>2, RisingDistinct, DistinctCount
<1>7. IsFiniteSet(ToSet(a)) /\ Cardinality(ToSet(a)) = Len(a)
  BY RisingDistinct, DistinctCount
<1>8. Cardinality(ToSet(L) \cup {v}) = ListLimit + 1
  BY <1>6, FS_AddElement
<1>9. Cardinality(ToSet(L) \cup {v}) <= Len(a)
  BY <1>5, <1>7, FS_Subset
<1>10. ListLimit \in Nat /\ Len(a) \in Nat
  BY TalkAssumption, LenProperties
<1> QED BY <1>8, <1>9, <1>10

\* A list in order and numbers after all of it make a list in order.
LEMMA RisesOn ==
    ASSUME NEW L \in Seq(Nat), Rising(L), NEW new \in Seq(Nat), Rising(new), NEW l \in Nat,
           \A k \in 1..Len(L) : L[k] <= l, \A k \in 1..Len(new) : l < new[k]
    PROVE  /\ L \o new \in Seq(Nat) /\ Rising(L \o new) /\ Len(L \o new) = Len(L) + Len(new)
           /\ \A k \in 1..Len(L) : (L \o new)[k] = L[k]
           /\ \A k \in 1..Len(new) : (L \o new)[Len(L) + k] = new[k]
           /\ \A k \in 1..(Len(L) + Len(new)) :
                 k \in 1..Len(L) \/ \E j \in 1..Len(new) : k = Len(L) + j
<1> DEFINE M == L \o new
           p == Len(L)
           q == Len(new)
<1>1. p \in Nat /\ q \in Nat /\ DOMAIN L = 1..p /\ DOMAIN new = 1..q
  BY LenProperties
<1>2. (\A k \in 1..p : L[k] \in Nat) /\ \A k \in 1..q : new[k] \in Nat
  BY ElementOfSeq
<1>3. M \in Seq(Nat) /\ Len(M) = p + q /\ \A k \in 1..(p + q) : M[k] = IF k <= p THEN L[k] ELSE new[k - p]
  BY ConcatProperties
<1> HIDE DEF M, p, q
<1>4. DOMAIN M = 1..(p + q)
  BY <1>3, LenProperties
<1>5. \A k \in 1..p : k \in 1..(p + q) /\ k <= p /\ M[k] = L[k]
  BY <1>1, <1>3
<1>6. \A k \in 1..q : p + k \in 1..(p + q) /\ M[p + k] = new[k]
  <2> TAKE k \in 1..q
  <2>1. p + k \in 1..(p + q) /\ ~(p + k <= p) /\ (p + k) - p = k
    BY <1>1
  <2> QED BY <1>3, <2>1
<1>7. \A k \in 1..(p + q) : k \in 1..p \/ \E j \in 1..q : k = p + j
  <2> TAKE k \in 1..(p + q)
  <2>1. k \in 1..p \/ (k - p \in 1..q /\ k = p + (k - p))
    BY <1>1
  <2> QED BY <2>1
<1>8. Rising(M)
  <2> SUFFICES ASSUME NEW i \in 1..(p + q), NEW j \in 1..(p + q), i < j PROVE M[i] < M[j]
    BY <1>4 DEF Rising
  <2>1. CASE j \in 1..p
    <3>1. i \in 1..p
      BY <1>1, <2>1
    <3>2. L[i] < L[j]
      BY <1>1, <2>1, <3>1 DEF Rising
    <3> QED BY <1>5, <2>1, <3>1, <3>2
  <2>2. CASE ~(j \in 1..p) /\ i \in 1..p
    <3>1. PICK b \in 1..q : j = p + b
      BY <1>7, <2>2
    <3>2. L[i] <= l /\ l < new[b] /\ L[i] \in Nat /\ new[b] \in Nat
      BY <1>2, <2>2, <3>1 DEF p, q
    <3>3. L[i] < new[b]
      BY <3>2
    <3> QED BY <1>5, <1>6, <2>2, <3>1, <3>3
  <2>3. CASE ~(j \in 1..p) /\ ~(i \in 1..p)
    <3>1. PICK b \in 1..q : j = p + b
      BY <1>7, <2>3
    <3>2. PICK a \in 1..q : i = p + a
      BY <1>7, <2>3
    <3>3. a < b
      BY <1>1, <3>1, <3>2
    <3>4. new[a] < new[b]
      BY <1>1, <3>3 DEF Rising
    <3> QED BY <1>6, <3>1, <3>2, <3>4
  <2> QED BY <2>1, <2>2, <2>3
<1> QED BY <1>3, <1>5, <1>6, <1>7, <1>8 DEF M, p, q

\* What a client is after it has added the messages to it after its last number.
LEMMA ClientShows ==
    ASSUME NEW R, NEW s, RingGood(R, s), NEW L, NEW l, NEW G, NEW c, ClientGood(R, s, L, l, G, c),
           NEW new \in Seq(Nat), Rising(new), ToSet(new) = {v \in Visible(R, c) : v > l}
    PROVE  ClientGood(R, s, LastOf(L \o new, ListLimit), IF new = <<>> THEN l ELSE Last(new), G \cup ToSet(new), c)
<1> DEFINE M == L \o new
           p == Len(L)
           q == Len(new)
           N == LastOf(M, ListLimit)
           m == IF new = <<>> THEN l ELSE Last(new)
           H == G \cup ToSet(new)
<1>1. L \in Seq(Nat) /\ Rising(L) /\ p <= ListLimit /\ l \in Nat /\ l <= s /\ s \in Nat
  BY DEF ClientGood, RingGood
<1>2. \A k \in 1..p : L[k] \in Nat /\ 1 <= L[k] /\ L[k] <= l
  BY <1>1, ElementOfSeq DEF ClientGood
<1>3. p \in Nat /\ q \in Nat /\ DOMAIN L = 1..p /\ DOMAIN new = 1..q /\ ToSet(new) = {new[k] : k \in 1..q}
      /\ ToSet(L) = {L[k] : k \in 1..p}
  BY <1>1, LenProperties DEF ToSet
<1>4. \A k \in 1..q : new[k] \in Visible(R, c) /\ l < new[k] /\ new[k] \in Nat /\ new[k] <= s /\ 1 <= new[k]
  <2> TAKE k \in 1..q
  <2>1. new[k] \in Visible(R, c) /\ new[k] > l
    BY <1>3
  <2>2. new[k] \in Nat /\ 1 <= new[k] /\ new[k] <= s
    BY <2>1, VisibleRange
  <2> QED BY <1>1, <2>1, <2>2
<1>5. /\ M \in Seq(Nat) /\ Rising(M) /\ Len(M) = p + q
      /\ (\A k \in 1..p : M[k] = L[k]) /\ (\A k \in 1..q : M[p + k] = new[k])
      /\ \A k \in 1..(p + q) : k \in 1..p \/ \E j \in 1..q : k = p + j
  BY <1>1, <1>2, <1>4, RisesOn
<1> HIDE DEF M, p, q
<1>6. ListLimit \in Nat \ {0}
  BY TalkAssumption
<1>7. N \in Seq(Nat) /\ Len(N) <= ListLimit
  BY <1>5, <1>6, LastOfTail
<1>8. PICK d \in Nat :
          /\ Len(M) = Len(N) + d /\ (d = 0 \/ Len(N) = ListLimit)
          /\ \A k \in 1..Len(N) : N[k] = M[k + d] /\ k + d \in 1..Len(M)
  BY <1>5, <1>6, LastOfTail
<1> HIDE DEF N
<1> DEFINE r == Len(N)
<1>9. r \in Nat /\ p + q = r + d /\ DOMAIN N = 1..r /\ DOMAIN M = 1..(p + q)
  BY <1>5, <1>7, <1>8, LenProperties
<1>10. \A k \in 1..r : N[k] = M[k + d] /\ k + d \in 1..(p + q)
  BY <1>5, <1>8
<1>11. d = 0 \/ r = ListLimit
  BY <1>8
<1> HIDE DEF r
<1>12. Rising(N)
  <2> SUFFICES ASSUME NEW i \in 1..r, NEW j \in 1..r, i < j PROVE N[i] < N[j]
    BY <1>9 DEF Rising
  <2>1. i + d \in 1..(p + q) /\ j + d \in 1..(p + q) /\ i + d < j + d
    BY <1>9, <1>10
  <2>2. M[i + d] < M[j + d]
    BY <1>5, <1>9, <2>1 DEF Rising
  <2> QED BY <1>10, <2>2
<1>13. m \in Nat /\ m <= s /\ l <= m /\ (m = l \/ m \in ToSet(new)) /\ \A k \in 1..q : new[k] <= m
  <2>1. CASE new = <<>>
    <3>1. m = l /\ q = 0
      BY <2>1 DEF q
    <3> QED BY <1>1, <3>1
  <2>2. CASE new # <<>>
    <3>1. q \in Nat /\ q # 0
      BY <2>2, EmptySeq DEF q
    <3>2. q \in 1..q /\ m = new[q]
      BY <2>2, <3>1 DEF Last, q
    <3> HIDE DEF m
    <3>3. m \in Nat /\ m <= s /\ l < m /\ m \in ToSet(new)
      BY <1>3, <1>4, <3>2
    <3>4. ASSUME NEW k \in 1..q PROVE new[k] <= m
      <4>1. k = q \/ k < q
        BY <3>1
      <4>2. k < q => new[k] < new[q]
        BY <1>3, <3>2 DEF Rising
      <4>3. new[k] \in Nat
        BY <1>4
      <4> QED BY <3>2, <3>3, <4>1, <4>2, <4>3
    <3>5. l <= m
      BY <1>1, <3>3
    <3> QED BY <3>3, <3>4, <3>5
  <2> QED BY <2>1, <2>2
<1> HIDE DEF m
<1>14. \A k \in 1..(p + q) : M[k] \in Nat /\ 1 <= M[k] /\ M[k] <= m /\ (M[k] \in Visible(R, c) \/ \E j \in 1..p : M[k] = L[j])
  <2> TAKE k \in 1..(p + q)
  <2>1. CASE k \in 1..p
    <3>1. M[k] = L[k] /\ L[k] \in Nat /\ 1 <= L[k] /\ L[k] <= l
      BY <1>2, <1>5, <2>1
    <3>2. L[k] <= m
      BY <1>1, <1>13, <3>1
    <3> QED BY <2>1, <3>1, <3>2
  <2>2. ASSUME NEW j \in 1..q, k = p + j PROVE M[k] \in Nat /\ 1 <= M[k] /\ M[k] <= m /\ M[k] \in Visible(R, c)
    BY <1>4, <1>5, <1>13, <2>2
  <2> QED BY <1>5, <2>1, <2>2
<1>15. \A k \in 1..r : 1 <= N[k] /\ N[k] <= m
  BY <1>10, <1>14
<1>16. \A v \in Visible(R, c) : v <= m => v \in H
  <2> SUFFICES ASSUME NEW v \in Visible(R, c) PROVE v \in H
    OBVIOUS
  <2>1. v \in Nat
    BY VisibleRange
  <2>2. CASE v <= l
    BY <2>2 DEF ClientGood
  <2>3. CASE ~(v <= l)
    BY <1>1, <2>1, <2>3
  <2> QED BY <2>2, <2>3
<1>17. \A v \in Visible(R, c) : v <= m => v \in ToSet(N) \/ (r = ListLimit /\ \A k \in 1..r : v < N[k])
  <2> SUFFICES ASSUME NEW v \in Visible(R, c)
               PROVE  v \in ToSet(N) \/ (r = ListLimit /\ \A k \in 1..r : v < N[k])
    OBVIOUS
  <2>1. v \in Nat
    BY VisibleRange
  <2>2. ASSUME NEW j \in 1..(p + q), v = M[j] PROVE v \in ToSet(N) \/ (r = ListLimit /\ \A k \in 1..r : v < N[k])
    <3>1. CASE j > d
      <4>1. j - d \in 1..r /\ (j - d) + d = j
        BY <1>9, <3>1, <1>3
      <4>2. N[j - d] = v
        BY <1>10, <2>2, <4>1
      <4> QED BY <1>9, <4>1, <4>2 DEF ToSet
    <3>2. CASE ~(j > d)
      <4>1. d # 0
        BY <1>3, <3>2
      <4>2. ASSUME NEW k \in 1..r PROVE v < N[k]
        <5>1. k + d \in 1..(p + q) /\ j < k + d
          BY <1>3, <1>9, <1>10, <3>2
        <5>2. M[j] < M[k + d]
          BY <1>5, <1>9, <5>1 DEF Rising
        <5> QED BY <1>10, <2>2, <5>2
      <4> QED BY <1>11, <4>1, <4>2
    <3> QED BY <3>1, <3>2
  <2>3. CASE ~(v <= l)
    <3>1. v \in ToSet(new)
      BY <1>1, <2>1, <2>3
    <3>2. PICK j \in 1..q : v = new[j]
      BY <1>3, <3>1
    <3>3. p + j \in 1..(p + q) /\ v = M[p + j]
      BY <1>3, <1>5, <3>2
    <3> QED BY <2>2, <3>3
  <2>4. CASE v <= l /\ v \in ToSet(L)
    <3>1. PICK j \in 1..p : v = L[j]
      BY <1>3, <2>4
    <3>2. j \in 1..(p + q) /\ v = M[j]
      BY <1>3, <1>5, <3>1
    <3> QED BY <2>2, <3>2
  <2>5. CASE v <= l /\ v \notin ToSet(L)
    <3>1. p = ListLimit /\ \A k \in 1..p : v < L[k]
      BY <2>5 DEF ClientGood, p
    <3>2. r = ListLimit
      <4>1. r <= ListLimit
        BY <1>7 DEF r
      <4> QED BY <1>3, <1>6, <1>9, <1>11, <3>1, <4>1
    <3>3. ASSUME NEW k \in 1..(p + q) PROVE v < M[k]
      <4>1. CASE k \in 1..p
        BY <1>5, <3>1, <4>1
      <4>2. ASSUME NEW j \in 1..q, k = p + j PROVE v < M[k]
        <5>1. M[k] = new[j] /\ l < new[j] /\ new[j] \in Nat
          BY <1>4, <1>5, <4>2
        <5> QED BY <1>1, <2>1, <2>5, <5>1
      <4> QED BY <1>5, <4>1, <4>2
    <3> QED BY <1>10, <3>2, <3>3
  <2> QED BY <2>3, <2>4, <2>5
<1>18. \A k \in 1..r, i \in 1..Len(R) : R[i].n = N[k] => c \in R[i].to
  <2> TAKE k \in 1..r, i \in 1..Len(R)
  <2> HAVE R[i].n = N[k]
  <2>1. N[k] = M[k + d] /\ k + d \in 1..(p + q)
    BY <1>10
  <2>2. CASE \E j \in 1..p : M[k + d] = L[j]
    BY <2>1, <2>2 DEF ClientGood, p
  <2>3. CASE M[k + d] \in Visible(R, c)
    <3>1. PICK j \in 1..Len(R) : c \in R[j].to /\ R[j].n = R[i].n
      BY <2>1, <2>3 DEF Visible
    <3> DEFINE e == Len(R)
    <3>2. R[j].n = (s - e) + j /\ R[i].n = (s - e) + i
      BY DEF RingGood
    <3>3. e \in Nat
      BY LenProperties DEF RingGood
    <3>4. i \in Nat /\ j \in Nat
      <4> HIDE DEF e
      <4> QED BY <3>3 DEF e
    <3> HIDE DEF e
    <3>5. i = j
      BY <1>1, <3>1, <3>2, <3>3, <3>4
    <3> QED BY <3>1, <3>5
  <2> QED BY <1>14, <2>1, <2>2, <2>3
<1>19. ClientGood(R, s, N, m, H, c)
  <2>1. N \in Seq(Nat) /\ Rising(N) /\ r <= ListLimit /\ m \in Nat /\ m <= s
    BY <1>7, <1>12, <1>13 DEF r
  <2> HIDE DEF H
  <2> QED BY <2>1, <1>15, <1>16, <1>17, <1>18 DEF ClientGood, r
<1> QED BY <1>19 DEF N, m, M

\* The clients' side beside what the service keeps.
ClientsGood(R, s) ==
    /\ list = [c \in Talkers |-> list[c]] /\ last = [c \in Talkers |-> last[c]]
    /\ got = [c \in Talkers |-> got[c]]
    /\ \A c \in Talkers : ClientGood(R, s, list[c], last[c], got[c], c)

TalkGood == RingGood(ring, sequence) /\ ClientsGood(ring, sequence)

\* An answer with what is new or with all of a few is added where it belongs.
LEMMA AppliedGood ==
    ASSUME NEW R, NEW s, RingGood(R, s), ClientsGood(R, s), NEW c \in Talkers,
           NEW a \in Seq(Nat), Rising(a), Apply(c, a),
           \/ ToSet(a) = {v \in Visible(R, c) : v > last[c]}
           \/ ToSet(a) = Visible(R, c) /\ Len(a) <= ListLimit
    PROVE  ClientsGood(R, s)'
<1> DEFINE L == list[c]
           l == last[c]
           G == got[c]
           I == {i \in DOMAIN a : a[i] \notin ToSet(L)}
           new == Selected(a, I)
<1>1. ClientGood(R, s, L, l, G, c)
  BY DEF ClientsGood
<1>2. new \in Seq(Nat) /\ Rising(new) /\ ToSet(new) = {a[i] : i \in I}
  BY SelectedRising
<1>3. ToSet(new) = ToSet(a) \ ToSet(L)
  <2>1. \A i \in DOMAIN a : i \in I <=> a[i] \notin ToSet(L)
    OBVIOUS
  <2>2. I \subseteq DOMAIN a
    OBVIOUS
  <2> HIDE DEF I, new
  <2> QED BY <1>2, <2>1, <2>2 DEF ToSet
<1>4. /\ list' = [list EXCEPT ![c] = LastOf(@ \o new, ListLimit)]
      /\ last' = [last EXCEPT ![c] = IF new = <<>> THEN @ ELSE Last(new)]
      /\ got' = [got EXCEPT ![c] = @ \cup ToSet(new)]
  BY DEF Apply
<1> HIDE DEF new, I
<1>5. \A v \in ToSet(L) : v \in Nat /\ v <= l
  <2>1. L \in Seq(Nat) /\ \A k \in 1..Len(L) : L[k] <= l
    BY <1>1 DEF ClientGood
  <2>2. DOMAIN L = 1..Len(L) /\ \A k \in 1..Len(L) : L[k] \in Nat
    BY <2>1, LenProperties, ElementOfSeq
  <2> HIDE DEF L, l
  <2> QED BY <2>1, <2>2 DEF ToSet
<1>6. l \in Nat /\ \A v \in Visible(R, c) : v \in Nat
  BY <1>1, VisibleRange DEF ClientGood
<1> HIDE DEF L, l, G
<1>7. ToSet(new) = {v \in Visible(R, c) : v > l}
  <2>1. CASE ToSet(a) = {v \in Visible(R, c) : v > l}
    <3>1. \A v \in ToSet(a) : v \notin ToSet(L)
      BY <1>5, <1>6, <2>1
    <3> QED BY <1>3, <2>1, <3>1
  <2>2. CASE ToSet(a) = Visible(R, c) /\ Len(a) <= ListLimit
    <3>1. \A v \in Visible(R, c) : v <= l => v \in ToSet(L)
      BY <1>1, <2>2, ShortAnswerListed
    <3>2. \A v \in Visible(R, c) : v \notin ToSet(L) <=> v > l
      BY <1>5, <1>6, <3>1
    <3> QED BY <1>3, <2>2, <3>2
  <2> QED BY <2>1, <2>2 DEF l
<1> DEFINE N == LastOf(L \o new, ListLimit)
           m == IF new = <<>> THEN l ELSE Last(new)
           H == G \cup ToSet(new)
<1>8. ClientGood(R, s, N, m, H, c)
  BY <1>1, <1>2, <1>7, ClientShows
<1>9. list' = [list EXCEPT ![c] = N] /\ last' = [last EXCEPT ![c] = m] /\ got' = [got EXCEPT ![c] = H]
  <2>1. list' = [list EXCEPT ![c] = N]
    BY <1>4 DEF L
  <2>2. last' = [last EXCEPT ![c] = m]
    BY <1>4 DEF l
  <2>3. got' = [got EXCEPT ![c] = H]
    BY <1>4 DEF G
  <2> QED BY <2>1, <2>2, <2>3
<1> HIDE DEF N, m, H
<1>10. /\ list' = [d \in Talkers |-> IF d = c THEN N ELSE list[d]]
       /\ last' = [d \in Talkers |-> IF d = c THEN m ELSE last[d]]
       /\ got' = [d \in Talkers |-> IF d = c THEN H ELSE got[d]]
  BY <1>9 DEF ClientsGood
<1>11. ASSUME NEW d \in Talkers PROVE ClientGood(R, s, list'[d], last'[d], got'[d], d)
  <2>1. CASE d = c
    <3>1. list'[d] = N /\ last'[d] = m /\ got'[d] = H
      BY <1>10, <2>1
    <3> QED BY <1>8, <2>1, <3>1
  <2>2. CASE d # c
    <3>1. list'[d] = list[d] /\ last'[d] = last[d] /\ got'[d] = got[d]
      BY <1>10, <2>2
    <3>2. ClientGood(R, s, list[d], last[d], got[d], d)
      BY DEF ClientsGood
    <3> QED BY <3>1, <3>2
  <2> QED BY <2>1, <2>2
<1>12. /\ list' = [d \in Talkers |-> list'[d]] /\ last' = [d \in Talkers |-> last'[d]]
       /\ got' = [d \in Talkers |-> got'[d]]
  BY <1>10
<1> QED BY <1>11, <1>12 DEF ClientsGood

LEMMA AppendedGood ==
    ASSUME TalkGood, NEW to \in SUBSET Talkers, AppendChatMessage(to)
    PROVE  RingGood(ring', sequence') /\ ClientsGood(ring', sequence')
<1>1. sequence' = sequence + 1 /\ ring' = LastOf(Append(ring, [n |-> sequence + 1, to |-> to]), RingLimit)
  BY DEF AppendChatMessage
<1>2. RingGood(ring, sequence) /\ ClientsGood(ring, sequence)
  BY DEF TalkGood
<1>3. RingGood(ring', sequence')
  BY <1>1, <1>2, RingGrows
<1>4. \A c \in Talkers : ClientGood(ring', sequence', list[c], last[c], got[c], c)
  BY <1>1, <1>2, ClientWaits DEF ClientsGood
<1> QED BY <1>2, <1>3, <1>4 DEF ClientsGood

\* Whoever sends has an answer with all that is visible, or none.
LEMMA SpokenGood ==
    ASSUME TalkGood, "replayed" \notin SocialRaces, NEW c \in Talkers, NEW to \in SUBSET Talkers,
           AppendChatMessage(to), Answer(c, VisibleChatMessages(ring', c, 0))
    PROVE  TalkGood'
<1> DEFINE a == VisibleChatMessages(ring', c, 0)
<1>1. RingGood(ring', sequence') /\ ClientsGood(ring', sequence')
  BY AppendedGood
<1>2. a \in Seq(Nat) /\ Rising(a) /\ ToSet(a) = {v \in Visible(ring', c) : v > 0}
  BY <1>1, AnswerBrings
<1>3. ToSet(a) = Visible(ring', c)
  <2>1. \A v \in Visible(ring', c) : v > 0
    BY <1>1, VisibleRange
  <2> HIDE DEF a
  <2> QED BY <1>2, <2>1
<1>4. \/ Len(a) <= ListLimit /\ Apply(c, a)
      \/ UNCHANGED <<list, last, got>>
  BY DEF Answer
<1> HIDE DEF a
<1>5. CASE Len(a) <= ListLimit /\ Apply(c, a)
  BY <1>1, <1>2, <1>3, <1>5, AppliedGood DEF TalkGood, ClientsGood
<1>6. CASE UNCHANGED <<list, last, got>>
  BY <1>1, <1>6 DEF TalkGood, ClientsGood
<1> QED BY <1>4, <1>5, <1>6

LEMMA TalkStep ==
    ASSUME TalkGood, "replayed" \notin SocialRaces, TalkNext
    PROVE  TalkGood'
<1>1. ASSUME NEW c \in Talkers, NEW to \in SUBSET Talkers, Sends(c, to) PROVE TalkGood'
  BY <1>1, SpokenGood DEF Sends
<1>2. ASSUME NEW c \in Talkers, SocialState(c) PROVE TalkGood'
  <2> DEFINE a == VisibleChatMessages(ring, c, last[c])
  <2>1. Apply(c, a) /\ ring' = ring /\ sequence' = sequence
    BY <1>2 DEF SocialState
  <2>2. RingGood(ring, sequence) /\ ClientsGood(ring, sequence) /\ last[c] \in Nat
    BY DEF TalkGood, ClientsGood, ClientGood
  <2>3. a \in Seq(Nat) /\ Rising(a) /\ ToSet(a) = {v \in Visible(ring, c) : v > last[c]}
    BY <2>2, AnswerBrings
  <2> HIDE DEF a
  <2>4. PICK R, s : R = ring /\ s = sequence
    OBVIOUS
  <2>5. ClientsGood(R, s)'
    BY <2>1, <2>2, <2>3, <2>4, AppliedGood
  <2> QED BY <2>1, <2>2, <2>4, <2>5 DEF TalkGood, ClientsGood
<1>3. ASSUME NEW c \in Talkers, Say(c) PROVE TalkGood'
  BY <1>1, <1>3 DEF Say
<1>4. ASSUME NEW c \in Talkers, GroupChat(c) PROVE TalkGood'
  BY <1>1, <1>4 DEF GroupChat
<1>5. ASSUME NEW c \in Talkers, NEW d \in Talkers, Whisper(c, d) PROVE TalkGood'
  BY <1>1, <1>5 DEF Whisper
<1>6. ASSUME NEW c \in Talkers, NEW d \in Talkers, AddFriend(c, d) \/ RemoveFriend(c, d) PROVE TalkGood'
  <2>1. AppendChatMessage({c}) /\ Answer(c, VisibleChatMessages(ring', c, 0))
    BY <1>6 DEF AddFriend, RemoveFriend
  <2> QED BY <2>1, SpokenGood
<1>7. ASSUME NEW to \in SUBSET Talkers, SendSystemMessage(to) PROVE TalkGood'
  <2>1. AppendChatMessage(to) /\ UNCHANGED <<list, last, got>>
    BY <1>7 DEF SendSystemMessage
  <2>2. RingGood(ring', sequence') /\ ClientsGood(ring', sequence')
    BY <2>1, AppendedGood
  <2> QED BY <2>1, <2>2 DEF TalkGood, ClientsGood
<1> QED BY <1>2, <1>3, <1>4, <1>5, <1>6, <1>7 DEF TalkNext

LEMMA StartedClient ==
    ASSUME NEW c
    PROVE  RingGood(<<>>, 0) /\ ClientGood(<<>>, 0, <<>>, 0, {}, c)
<1>1. <<>> \in Seq([n : Nat, to : SUBSET Talkers]) /\ <<>> \in Seq(Nat) /\ Len(<<>>) = 0 /\ DOMAIN <<>> = {}
  OBVIOUS
<1>2. RingLimit \in Nat /\ ListLimit \in Nat
  BY TalkAssumption
<1>3. RingGood(<<>>, 0)
  BY <1>1, <1>2 DEF RingGood
<1>4. Visible(<<>>, c) = {}
  BY <1>1 DEF Visible
<1>5. ClientGood(<<>>, 0, <<>>, 0, {}, c)
  BY <1>1, <1>2, <1>4 DEF ClientGood, Rising
<1> QED BY <1>3, <1>5

LEMMA TalkStartsAgain ==
    ASSUME TalkGood, "renumbered" \notin SocialRaces, TalkRestarts
    PROVE  TalkGood'
<1>1. /\ ring' = <<>> /\ sequence' = 0 /\ got' = [c \in Talkers |-> {}]
      /\ list' = list /\ last' = last /\ \A c \in Talkers : last[c] = 0
  BY DEF TalkRestarts
<1>2. list = [c \in Talkers |-> list[c]] /\ last = [c \in Talkers |-> last[c]]
  BY DEF TalkGood, ClientsGood
<1>3. ASSUME NEW c \in Talkers PROVE list[c] = <<>>
  <2>1. list[c] \in Seq(Nat) /\ \A k \in 1..Len(list[c]) : 1 <= list[c][k] /\ list[c][k] <= 0
    BY <1>1 DEF TalkGood, ClientsGood, ClientGood
  <2>2. \A k \in 1..Len(list[c]) : list[c][k] \in Nat
    BY <2>1, ElementOfSeq
  <2>3. \A k \in 1..Len(list[c]) : FALSE
    BY <2>1, <2>2
  <2> DEFINE L == list[c]
  <2>4. Len(L) \in Nat
    BY <2>1, LenProperties
  <2>5. Len(L) = 0
    BY <2>3, <2>4
  <2> QED BY <2>1, <2>5, EmptySeq
<1>4. \A c \in Talkers : ClientGood(<<>>, 0, list'[c], last'[c], got'[c], c)
  <2> TAKE c \in Talkers
  <2>1. list'[c] = <<>> /\ last'[c] = 0 /\ got'[c] = {}
    BY <1>1, <1>3
  <2> QED BY <2>1, StartedClient
<1>5. RingGood(<<>>, 0)
  BY StartedClient
<1> QED BY <1>1, <1>2, <1>4, <1>5 DEF TalkGood, ClientsGood

LEMMA TalkGoodIsWhole ==
    ASSUME TalkGood
    PROVE  ChatIsWhole
<1> SUFFICES ASSUME NEW c \in Talkers
             PROVE  /\ \A i \in DOMAIN ring : c \in ring[i].to /\ ring[i].n <= last[c] => ring[i].n \in got[c]
                    /\ \A i, j \in DOMAIN list[c] : i < j => list[c][i] < list[c][j]
  BY DEF ChatIsWhole
<1>1. ClientGood(ring, sequence, list[c], last[c], got[c], c)
  BY DEF TalkGood, ClientsGood
<1>2. DOMAIN ring = 1..Len(ring)
  BY LenProperties DEF TalkGood, RingGood
<1>3. \A i \in DOMAIN ring : c \in ring[i].to => ring[i].n \in Visible(ring, c)
  BY <1>2 DEF Visible
<1> QED BY <1>1, <1>3 DEF ClientGood, Rising

-----------------------------------------------------------------------------
(* The social side as a whole *)

PartiesAre == PartiesGood /\ InvitesGood
GuildsAre == GuildsGood /\ InvitedKnown

LEMMA SocietyStarts ==
    ASSUME SocietyInit
    PROVE  PartiesAre /\ PartiesApart /\ GuildsAre /\ GuildsApart /\ InvitesStand /\ TalkGood
<1>1. PartiesAre /\ PartiesApart
  BY DEF SocietyInit, PartiesInit, PartiesAre, PartiesGood, InvitesGood, PartiesApart
<1>2. GuildsAre /\ GuildsApart /\ InvitesStand
  BY DEF SocietyInit, GuildsInit, GuildsAre, GuildsGood, InvitedKnown, GuildsApart, InvitesStand
<1>3. TalkGood
  <2>1. /\ ring = <<>> /\ sequence = 0 /\ list = [c \in Talkers |-> <<>>] /\ last = [c \in Talkers |-> 0]
        /\ got = [c \in Talkers |-> {}]
    BY DEF SocietyInit, TalkInit
  <2>2. RingGood(<<>>, 0) /\ \A c \in Talkers : ClientGood(<<>>, 0, <<>>, 0, {}, c)
    BY StartedClient
  <2> QED BY <2>1, <2>2 DEF TalkGood, ClientsGood
<1> QED BY <1>1, <1>2, <1>3

\* What a step of the whole is to the parties, the guilds and talk.
LEMMA SocietyStep ==
    ASSUME PartiesAre, GuildsAre, [SocietyNext]_society
    PROVE  /\ PartyMoves /\ InvitesGood'
           /\ GuildMoves
           /\ TalkNext \/ TalkRestarts \/ UNCHANGED talk
<1>1. ASSUME UNCHANGED parties, partyInvites' \subseteq partyInvites PROVE PartyMoves /\ InvitesGood'
  BY <1>1 DEF PartyMoves, PartiesGo, InvitesGood, PartiesAre
<1>2. ASSUME UNCHANGED guilded PROVE GuildMoves
  BY <1>2 DEF GuildMoves, GuildInvites, guilded
<1>3. CASE Handlers
  <2>1. CASE PartyNext /\ UNCHANGED <<guilded, talk>>
    BY <1>2, <2>1, PartyStep DEF PartiesAre
  <2>2. CASE GuildNext /\ UNCHANGED <<partied, talk>>
    BY <1>1, <2>2, GuildStep DEF GuildsAre, partied
  <2>3. CASE TalkNext /\ UNCHANGED <<partied, guilded>>
    BY <1>1, <1>2, <2>3 DEF partied
  <2> QED BY <1>3, <2>1, <2>2, <2>3 DEF Handlers
<1>4. CASE Sessions
  BY <1>1, <1>2, <1>4 DEF Sessions, partied
<1>5. CASE Restart
  <2>1. UNCHANGED <<parties, guilded>> /\ partyInvites' = {} /\ TalkRestarts
    BY <1>5 DEF Restart
  <2> QED BY <1>1, <1>2, <2>1
<1>6. CASE UNCHANGED society
  BY <1>1, <1>2, <1>6 DEF society, partied
<1> QED BY <1>3, <1>4, <1>5, <1>6 DEF SocietyNext

LEMMA GroupsKept ==
    ASSUME PartiesAre, GuildsAre, [SocietyNext]_society
    PROVE  PartiesAre' /\ GuildsAre'
<1>1. PartyMoves /\ InvitesGood' /\ GuildMoves
  BY SocietyStep
<1> QED BY <1>1, PartiesStayGood, GuildsStayGood, InvitedStayKnown DEF PartiesAre, GuildsAre

GroupsApart == PartiesAre /\ GuildsAre /\ PartiesApart /\ GuildsApart

\* Groups are what they are taken for, whoever invites, joins, leaves, leads, is promoted
\* or removed: no character is in two parties or two guilds, no party is too small or too
\* large, each has one leader who is in it.  Who accepts has to be able to read the store:
\* the code takes its error for "in no group" ("unread").
THEOREM OneGroupAlways ==
    ASSUME "unread" \notin SocialRaces
    PROVE  SocietySpec => []OneGroupEach
<1>1. SocietyInit => GroupsApart
  BY SocietyStarts DEF GroupsApart
<1>2. GroupsApart /\ [SocietyNext]_society => GroupsApart'
  <2> SUFFICES ASSUME GroupsApart, [SocietyNext]_society PROVE GroupsApart'
    OBVIOUS
  <2>1. PartyMoves /\ GuildMoves
    BY SocietyStep DEF GroupsApart
  <2>2. PartiesAre' /\ GuildsAre'
    BY GroupsKept DEF GroupsApart
  <2>3. PartiesApart'
    BY <2>1, PartiesStayApart DEF GroupsApart, PartiesAre
  <2>4. GuildsApart'
    BY <2>1, GuildsStayApart DEF GroupsApart, GuildsAre, InvitedKnown
  <2> QED BY <2>2, <2>3, <2>4 DEF GroupsApart
<1>3. GroupsApart => OneGroupEach
  BY PartiesAreOneEach, GuildsAreOneEach DEF GroupsApart, PartiesAre, GuildsAre, OneGroupEach
<1> QED BY <1>1, <1>2, <1>3, PTL DEF SocietySpec

GroupsAsk == PartiesAre /\ GuildsAre /\ InvitesStand

\* Who comes into a group was asked in by one who may ask at that moment, and by each
\* invitation once: for guilds, if who invited keeps its rank while the invitation is out
\* ("departed") and the used invitation is deleted ("inviteStays").
THEOREM AlwaysAskedIn ==
    ASSUME {"departed", "inviteStays"} \cap SocialRaces = {}
    PROVE  SocietySpec => AskedIn
<1>1. SocietyInit => GroupsAsk
  BY SocietyStarts DEF GroupsAsk
<1>2. GroupsAsk /\ [SocietyNext]_society => GroupsAsk'
  <2> SUFFICES ASSUME GroupsAsk, [SocietyNext]_society PROVE GroupsAsk'
    OBVIOUS
  <2>1. GuildMoves
    BY SocietyStep DEF GroupsAsk
  <2>2. PartiesAre' /\ GuildsAre'
    BY GroupsKept DEF GroupsAsk
  <2>3. InvitesStand'
    BY <2>1, InvitesStayStanding DEF GroupsAsk, GuildsAre
  <2> QED BY <2>2, <2>3 DEF GroupsAsk
<1>3. GroupsAsk /\ [SocietyNext]_society =>
        [\A c \in Characters : PartyJoin(c) =>
            \A party \in GetPartyForCharacter(c)' :
                \/ party.leader = c
                \/ LET invite == [from |-> party.leader, to |-> c]
                   IN invite \in partyInvites /\ invite \notin partyInvites']_partied
  <2> SUFFICES ASSUME GroupsAsk, [SocietyNext]_society, NEW c \in Characters, PartyJoin(c),
                      NEW party \in GetPartyForCharacter(c)'
               PROVE  \/ party.leader = c
                      \/ LET invite == [from |-> party.leader, to |-> c]
                         IN invite \in partyInvites /\ invite \notin partyInvites'
    OBVIOUS
  <2>1. PartyMoves
    BY SocietyStep DEF GroupsAsk
  <2>2. party \in parties' /\ c \in Members(party)
    BY DEF GetPartyForCharacter, Members
  <2> QED BY <2>1, <2>2, JoinersAreAsked DEF GroupsAsk, PartiesAre
<1>4. GroupsAsk /\ [SocietyNext]_society =>
        [\A c \in Characters : \A g \in GuildNames : GuildJoin(c, g) =>
            \E i \in guildInvites :
                /\ i.guild = g /\ i.to = c /\ i \notin guildInvites'
                /\ GuildMemberHasPermission(g, i.from, "invite")]_guilded
  <2> SUFFICES ASSUME GroupsAsk, [SocietyNext]_society, NEW c \in Characters, NEW g \in GuildNames, GuildJoin(c, g)
               PROVE  \E i \in guildInvites :
                        /\ i.guild = g /\ i.to = c /\ i \notin guildInvites'
                        /\ GuildMemberHasPermission(g, i.from, "invite")
    OBVIOUS
  <2>1. GuildMoves
    BY SocietyStep DEF GroupsAsk
  <2> QED BY <2>1, GuildJoinersAreAsked DEF GroupsAsk, GuildsAre
<1> QED BY <1>1, <1>2, <1>3, <1>4, PTL DEF SocietySpec, AskedIn, AskedByTheLeader, AskedByTheGuild

SocietyTalks == PartiesAre /\ GuildsAre /\ TalkGood

\* A client has shown every message to it that its next question leaves out, and shows them
\* in the order they were sent, however its questions, its own messages and others' meet,
\* and however long its list and the service's are: if no client brings numbers from
\* before a restart ("renumbered") and no answer is longer than its list ("replayed").
THEOREM ChatAlwaysWhole ==
    ASSUME {"renumbered", "replayed"} \cap SocialRaces = {}
    PROVE  SocietySpec => []ChatIsWhole
<1>1. SocietyInit => SocietyTalks
  BY SocietyStarts DEF SocietyTalks
<1>2. SocietyTalks /\ [SocietyNext]_society => SocietyTalks'
  <2> SUFFICES ASSUME SocietyTalks, [SocietyNext]_society PROVE SocietyTalks'
    OBVIOUS
  <2>1. PartiesAre' /\ GuildsAre'
    BY GroupsKept DEF SocietyTalks
  <2>2. TalkGood'
    <3>1. TalkNext \/ TalkRestarts \/ UNCHANGED talk
      BY SocietyStep DEF SocietyTalks
    <3>2. UNCHANGED talk => TalkGood'
      BY DEF talk, TalkGood, ClientsGood, SocietyTalks
    <3> QED BY <3>1, <3>2, TalkStep, TalkStartsAgain DEF SocietyTalks
  <2> QED BY <2>1, <2>2 DEF SocietyTalks
<1>3. SocietyTalks => ChatIsWhole
  BY TalkGoodIsWhole DEF SocietyTalks
<1> QED BY <1>1, <1>2, <1>3, PTL DEF SocietySpec

-----------------------------------------------------------------------------
(* Records.  What nodes of a graph are done is left open: it comes from a fold, *)
(* and nothing here depends on it.                                              *)

Known(p) ==
    /\ p = [state |-> p.state, count |-> p.count, done |-> p.done]
    /\ p.state \in QuestStates /\ p.count \in Nat
Sheet(r) ==
    /\ r = [copper |-> r.copper, rewards |-> r.rewards, again |-> r.again, quests |-> r.quests,
            learned |-> r.learned, skill |-> r.skill, rank |-> r.rank, ore |-> r.ore, rivets |-> r.rivets]
    /\ r.copper \in Int /\ r.rewards \in Nat /\ r.again \in Nat /\ r.learned \in BOOLEAN
    /\ r.skill \in Nat /\ r.rivets \in Nat
    /\ r.quests = [q \in Quest |-> r.quests[q]]
    /\ \A q \in Quest : Known(r.quests[q])

\* What was paid is for what is closed.
Fair(r) == "fullBag" \notin Races => r.rewards = Cardinality(Rewarded(r)) + r.again

\* States that the kind of a quest allows.
Fitting(q, p) ==
    /\ HasGraph(q) => p.state # "completed" /\ (p.state = "ready_to_complete" => GraphReady(q, p))
    /\ ~HasGraph(q) => p.state # "ready_to_complete"
Orderly(r) == \A q \in Quest : Fitting(q, r.quests[q])

Sound(r) == Sheet(r) /\ Fair(r) /\ Orderly(r)

\* The books of a record, if `n' was given beside the rewards.
Booked(r, n) ==
    /\ r.copper + Price(r) = StartCopper + (RewardCopper * r.rewards) + n
    /\ IF r.skill < MaxSkill THEN r.rivets = RivetsPerCraft * Crafts(r) ELSE r.rivets >= RivetsPerCraft * Crafts(r)

Agree(s, r) ==
    /\ s.copper = r.copper /\ s.rewards = r.rewards /\ s.learned = r.learned
    /\ s.skill = r.skill /\ s.rivets = r.rivets

LEMMA NumbersTyped ==
    /\ TargetCount \in Nat /\ TargetCount > 0 /\ StartCopper \in Nat /\ RewardCopper \in Nat /\ MaxFailures \in Nat
    /\ TrainerCost \in Nat /\ ProfessionCost \in Nat /\ RivetsPerCraft \in Nat /\ MaxSkill \in Nat /\ MaxSkill > 0
    /\ IsFiniteSet(Quest) /\ None \notin Char
  BY CareersAssumption, GrowthAssumption

\* Two fields of a progress or a record at once.
Ends(p, st, n) == [p EXCEPT !.state = st, !.count = n]
LEMMA TwoOfProgress ==
    ASSUME NEW p, p = [state |-> p.state, count |-> p.count, done |-> p.done], NEW st, NEW n
    PROVE  Ends(p, st, n) = [state |-> st, count |-> n, done |-> p.done]
<1> DEFINE o == [p EXCEPT !.state = st]
<1>1. o = [state |-> st, count |-> p.count, done |-> p.done]
  OBVIOUS
<1>2. Ends(p, st, n) = [o EXCEPT !.count = n]
  BY DEF Ends
<1> HIDE DEF o
<1> QED BY <1>1, <1>2

Shape(r) ==
    r = [copper |-> r.copper, rewards |-> r.rewards, again |-> r.again, quests |-> r.quests,
         learned |-> r.learned, skill |-> r.skill, rank |-> r.rank, ore |-> r.ore, rivets |-> r.rivets]

LEMMA PaidShape ==
    ASSUME NEW r, Shape(r), NEW m, NEW n
    PROVE  [r EXCEPT !.copper = m, !.rewards = n]
             = [copper |-> m, rewards |-> n, again |-> r.again, quests |-> r.quests,
                learned |-> r.learned, skill |-> r.skill, rank |-> r.rank, ore |-> r.ore, rivets |-> r.rivets]
<1> DEFINE o == [r EXCEPT !.copper = m]
<1>1. o = [copper |-> m, rewards |-> r.rewards, again |-> r.again, quests |-> r.quests,
           learned |-> r.learned, skill |-> r.skill, rank |-> r.rank, ore |-> r.ore, rivets |-> r.rivets]
  BY DEF Shape
<1>2. [r EXCEPT !.copper = m, !.rewards = n] = [o EXCEPT !.rewards = n]
  OBVIOUS
<1> HIDE DEF o
<1> QED BY <1>1, <1>2

LEMMA AgreeBooks ==
    ASSUME NEW r, NEW s, NEW n, Agree(s, r)
    PROVE  Booked(s, n) <=> Booked(r, n)
  BY DEF Agree, Booked, Price, Crafts

\* A progress that changes, but not into or out of the rewarded state.
Moves(q, p, o) == Known(o) /\ Fitting(q, o) /\ (o.state = "reward_granted" <=> p.state = "reward_granted")

LEMMA NormalizedMoves ==
    ASSUME NEW q \in Quest, NEW p, Known(p), Fitting(q, p)
    PROVE  Moves(q, p, Normalized(q, p))
<1>1. CASE HasGraph(q)
  BY <1>1 DEF Normalized, NormalizeGraph, Moves, Known, Fitting, QuestStates, GraphReady
<1>2. CASE ~HasGraph(q)
  BY <1>2, NumbersTyped DEF Normalized, NormalizeCount, Moves, Known, Fitting, QuestStates
<1> QED BY <1>1, <1>2

\* A record whose quests have moved so.
LEMMA MovedSound ==
    ASSUME NEW r, Sound(r), NEW f, f = [q \in Quest |-> f[q]],
           \A q \in Quest : Moves(q, r.quests[q], f[q])
    PROVE  Sound([r EXCEPT !.quests = f])
<1> DEFINE s == [r EXCEPT !.quests = f]
<1>1. /\ s = [copper |-> r.copper, rewards |-> r.rewards, again |-> r.again, quests |-> f,
              learned |-> r.learned, skill |-> r.skill, rank |-> r.rank, ore |-> r.ore, rivets |-> r.rivets]
  BY DEF Sound, Sheet
<1>2. Sheet(s)
  BY <1>1 DEF Sound, Sheet, Moves
<1>3. Rewarded(s) = Rewarded(r)
  BY <1>1 DEF Rewarded, Moves
<1>4. Fair(s) /\ Orderly(s)
  BY <1>1, <1>3 DEF Sound, Fair, Orderly, Moves
<1> QED BY <1>2, <1>4 DEF Sound

LEMMA LoadedSound ==
    ASSUME NEW r, Sound(r)
    PROVE  Sound(LoadQuests(r)) /\ Agree(LoadQuests(r), r)
<1> DEFINE f == [q \in Quest |-> Normalized(q, r.quests[q])]
<1>1. f = [q \in Quest |-> f[q]] /\ \A q \in Quest : Moves(q, r.quests[q], f[q])
  BY NormalizedMoves DEF Sound, Sheet, Orderly
<1>2. LoadQuests(r) = [r EXCEPT !.quests = f]
  BY DEF LoadQuests
<1> HIDE DEF f
<1>3. Sound(LoadQuests(r))
  BY <1>1, <1>2, MovedSound
<1>4. Agree(LoadQuests(r), r)
  BY <1>2 DEF Agree, Sound, Sheet
<1> QED BY <1>3, <1>4

-----------------------------------------------------------------------------
(* What a handler makes of a session's copy *)

\* A copy that becomes another: it stays sound, and its books closed.
Becomes(s, t) ==
    /\ Sound(t)
    /\ \A n \in Int : Booked(s, n) => Booked(t, n)

LEMMA MovedBecomes ==
    ASSUME NEW s, Sound(s), NEW f, f = [q \in Quest |-> f[q]],
           \A q \in Quest : Moves(q, s.quests[q], f[q]),
           NEW t, t = [s EXCEPT !.quests = f]
    PROVE  Becomes(s, t) /\ t.skill = s.skill /\ t.quests = f
<1>1. Sound(t)
  BY MovedSound
<1>2. Agree(t, s) /\ t.skill = s.skill /\ t.quests = f
  BY DEF Agree, Sound, Sheet
<1> QED BY <1>1, <1>2, AgreeBooks DEF Becomes

LEMMA OneMoves ==
    ASSUME NEW s, Sound(s), NEW q \in Quest, NEW p, Moves(q, s.quests[q], p)
    PROVE  Becomes(s, With(s, q, p)) /\ With(s, q, p).skill = s.skill
<1> DEFINE f == [s.quests EXCEPT ![q] = p]
<1>1. s.quests = [k \in Quest |-> s.quests[k]]
  BY DEF Sound, Sheet
<1>2. f = [k \in Quest |-> f[k]]
  BY <1>1
<1>3. ASSUME NEW k \in Quest PROVE Moves(k, s.quests[k], f[k])
  BY <1>1 DEF Moves, Sound, Sheet, Orderly
<1>4. With(s, q, p) = [s EXCEPT !.quests = f]
  BY DEF With
<1> HIDE DEF f
<1> QED BY <1>2, <1>3, <1>4, MovedBecomes

LEMMA AtMoves ==
    ASSUME NEW c \in Char, Sound(session[c]), NEW q \in Quest
    PROVE  Moves(q, session[c].quests[q], At(c, q))
  BY NormalizedMoves DEF At, Sound, Sheet, Orderly

LEMMA AcceptBecomes ==
    ASSUME NEW c \in Char, Sound(session[c]), NEW q \in Quest, At(c, q).state = "not_started"
    PROVE  LET t == With(session[c], q, Normalized(q, [At(c, q) EXCEPT !.state = "active"]))
           IN  Becomes(session[c], t) /\ t.skill = session[c].skill
<1> DEFINE p == [At(c, q) EXCEPT !.state = "active"]
<1>1. Moves(q, session[c].quests[q], At(c, q))
  BY AtMoves
<1>2. p = [state |-> "active", count |-> At(c, q).count, done |-> At(c, q).done]
  BY <1>1 DEF Moves, Known
<1>3. Known(p) /\ Fitting(q, p) /\ p.state # "reward_granted"
  BY <1>1, <1>2 DEF Moves, Known, Fitting, QuestStates
<1> HIDE DEF p
<1>4. Moves(q, p, Normalized(q, p))
  BY <1>3, NormalizedMoves
<1>5. Moves(q, session[c].quests[q], Normalized(q, p))
  BY <1>1, <1>3, <1>4 DEF Moves
<1> QED BY <1>5, OneMoves DEF p

LEMMA ReportBecomes ==
    ASSUME NEW c \in Char, Sound(session[c]), NEW q \in Quest, ~HasGraph(q), At(c, q).state = "active"
    PROVE  LET t == With(session[c], q, [At(c, q) EXCEPT !.state = "completed", !.count = TargetCount])
           IN  Becomes(session[c], t) /\ t.skill = session[c].skill
<1> DEFINE p == [At(c, q) EXCEPT !.state = "completed", !.count = TargetCount]
<1>1. Moves(q, session[c].quests[q], At(c, q))
  BY AtMoves
<1>2. p = [state |-> "completed", count |-> TargetCount, done |-> At(c, q).done]
  <2>1. PICK o : o = At(c, q)
    OBVIOUS
  <2>2. o = [state |-> o.state, count |-> o.count, done |-> o.done]
    BY <1>1, <2>1 DEF Moves, Known
  <2>3. Ends(o, "completed", TargetCount) = [state |-> "completed", count |-> TargetCount, done |-> o.done]
    BY <2>2, TwoOfProgress
  <2> QED BY <2>1, <2>3 DEF Ends
<1>3. Moves(q, session[c].quests[q], p)
  BY <1>1, <1>2, NumbersTyped DEF Moves, Known, Fitting, QuestStates
<1> HIDE DEF p
<1> QED BY <1>3, OneMoves DEF p

\* A reward is one more, paid, for one more quest that is closed.
LEMMA RewardBecomes ==
    ASSUME NEW c \in Char, Sound(session[c]), NEW q \in Quest, At(c, q).state \in UnderWay
    PROVE  LET p == [At(c, q) EXCEPT !.state = "reward_granted",
                                     !.count = IF HasGraph(q) THEN @ ELSE TargetCount]
               t == [With(session[c], q, p) EXCEPT !.copper = @ + RewardCopper, !.rewards = @ + 1]
           IN  Becomes(session[c], t) /\ t.skill = session[c].skill
<1> DEFINE s == session[c]
           p == [At(c, q) EXCEPT !.state = "reward_granted", !.count = IF HasGraph(q) THEN @ ELSE TargetCount]
           f == [s.quests EXCEPT ![q] = p]
           t == [With(s, q, p) EXCEPT !.copper = @ + RewardCopper, !.rewards = @ + 1]
<1>1. Moves(q, s.quests[q], At(c, q))
  BY AtMoves
<1>2. p = [state |-> "reward_granted", count |-> IF HasGraph(q) THEN At(c, q).count ELSE TargetCount,
           done |-> At(c, q).done]
  <2>1. PICK o : o = At(c, q)
    OBVIOUS
  <2>2. o = [state |-> o.state, count |-> o.count, done |-> o.done]
    BY <1>1, <2>1 DEF Moves, Known
  <2> DEFINE k == IF HasGraph(q) THEN o.count ELSE TargetCount
  <2>3. Ends(o, "reward_granted", k) = [state |-> "reward_granted", count |-> k, done |-> o.done]
    <3> HIDE DEF k
    <3> QED BY <2>2, TwoOfProgress
  <2> QED BY <2>1, <2>3 DEF Ends
<1>3. Known(p) /\ Fitting(q, p) /\ p.state = "reward_granted"
  BY <1>1, <1>2, NumbersTyped DEF Moves, Known, Fitting, QuestStates
<1>4. s.quests[q].state # "reward_granted"
  BY <1>1 DEF Moves, UnderWay
<1>5. s.quests = [k \in Quest |-> s.quests[k]]
  BY DEF Sound, Sheet
<1> HIDE DEF p
<1>6. t = [copper |-> s.copper + RewardCopper, rewards |-> s.rewards + 1, again |-> s.again, quests |-> f,
           learned |-> s.learned, skill |-> s.skill, rank |-> s.rank, ore |-> s.ore, rivets |-> s.rivets]
  <2> DEFINE w == With(s, q, p)
  <2>1. w = [copper |-> s.copper, rewards |-> s.rewards, again |-> s.again, quests |-> f,
             learned |-> s.learned, skill |-> s.skill, rank |-> s.rank, ore |-> s.ore, rivets |-> s.rivets]
    BY DEF With, Sound, Sheet
  <2>2. t = [w EXCEPT !.copper = w.copper + RewardCopper, !.rewards = w.rewards + 1]
    OBVIOUS
  <2> HIDE DEF w
  <2>3. Shape(w)
    BY <2>1 DEF Shape
  <2>4. t = [copper |-> w.copper + RewardCopper, rewards |-> w.rewards + 1, again |-> w.again, quests |-> w.quests,
             learned |-> w.learned, skill |-> w.skill, rank |-> w.rank, ore |-> w.ore, rivets |-> w.rivets]
    BY <2>2, <2>3, PaidShape
  <2> QED BY <2>1, <2>4
<1>7. f = [k \in Quest |-> f[k]] /\ \A k \in Quest : Known(f[k]) /\ Fitting(k, f[k])
  BY <1>3, <1>5 DEF Sound, Sheet, Orderly
<1>8. f[q] = p /\ \A k \in Quest : k # q => f[k] = s.quests[k]
  BY <1>5
<1> HIDE DEF f, t
<1>9. Sound(t)
  <2>1. /\ t.copper = s.copper + RewardCopper /\ t.rewards = s.rewards + 1 /\ t.again = s.again /\ t.quests = f
        /\ t.learned = s.learned /\ t.skill = s.skill /\ t.rank = s.rank /\ t.ore = s.ore /\ t.rivets = s.rivets
    BY <1>6
  <2>2. Sheet(t)
    BY <1>6, <1>7, <2>1, NumbersTyped DEF Sound, Sheet
  <2>3. Orderly(t)
    BY <1>7, <2>1 DEF Orderly
  <2>4. q \in Rewarded(t) /\ q \notin Rewarded(s)
    BY <1>3, <1>4, <1>8, <2>1 DEF Rewarded
  <2>5. ASSUME NEW k \in Quest, k # q PROVE k \in Rewarded(t) <=> k \in Rewarded(s)
    BY <1>8, <2>1, <2>5 DEF Rewarded
  <2>6. Rewarded(t) = Rewarded(s) \cup {q}
    BY <2>4, <2>5 DEF Rewarded
  <2>7. IsFiniteSet(Rewarded(s))
    BY NumbersTyped, FS_Subset DEF Rewarded
  <2>8. Cardinality(Rewarded(t)) = Cardinality(Rewarded(s)) + 1
    BY <2>4, <2>6, <2>7, FS_AddElement
  <2>9. Cardinality(Rewarded(s)) \in Nat
    BY <2>7, FS_CardinalityType
  <2>10. /\ "fullBag" \notin Races => s.rewards = Cardinality(Rewarded(s)) + s.again
         /\ s.again \in Nat
    BY DEF Sound, Sheet, Fair
  <2>11. Fair(t)
    BY <2>1, <2>8, <2>9, <2>10 DEF Fair
  <2> QED BY <2>2, <2>3, <2>11 DEF Sound
<1>10. ASSUME NEW n \in Int, Booked(s, n) PROVE Booked(t, n)
  <2>1. Price(t) = Price(s) /\ Crafts(t) = Crafts(s) /\ t.skill = s.skill /\ t.rivets = s.rivets
    BY <1>6 DEF Price, Crafts
  <2>2. RewardCopper * (s.rewards + 1) = (RewardCopper * s.rewards) + RewardCopper
    BY NumbersTyped DEF Sound, Sheet
  <2>3. RewardCopper * s.rewards \in Int /\ Price(s) \in Int /\ s.copper \in Int /\ RewardCopper \in Int /\ StartCopper \in Int
    BY NumbersTyped DEF Sound, Sheet, Price
  <2>4. t.copper = s.copper + RewardCopper /\ t.rewards = s.rewards + 1
    BY <1>6
  <2>5. s.copper + Price(s) = StartCopper + (RewardCopper * s.rewards) + n
    BY <1>10 DEF Booked
  <2>6. t.copper + Price(t) = StartCopper + (RewardCopper * t.rewards) + n
    <3> DEFINE x == s.copper
               y == RewardCopper * s.rewards
               z == Price(s)
    <3>1. x \in Int /\ y \in Int /\ z \in Int /\ RewardCopper \in Int /\ StartCopper \in Int /\ n \in Int
      BY <2>3, <1>10
    <3>2. x + z = StartCopper + y + n
      BY <2>5
    <3>3. RewardCopper * t.rewards = y + RewardCopper /\ t.copper = x + RewardCopper /\ Price(t) = z
      BY <2>1, <2>2, <2>4
    <3> HIDE DEF x, y, z
    <3>4. (x + RewardCopper) + z = StartCopper + (y + RewardCopper) + n
      BY <3>1, <3>2
    <3> QED BY <3>3, <3>4
  <2>7. IF t.skill < MaxSkill THEN t.rivets = RivetsPerCraft * Crafts(t) ELSE t.rivets >= RivetsPerCraft * Crafts(t)
    BY <1>10, <2>1 DEF Booked
  <2> QED BY <2>6, <2>7 DEF Booked
<1>11. t.skill = s.skill
  BY <1>6
<1> QED BY <1>9, <1>10, <1>11 DEF Becomes, p, t

\* A reward that is paid with its quest left as it is.
LEMMA PaidSound ==
    ASSUME NEW s, Sound(s), "fullBag" \in Races
    PROVE  Sound(Paid(s))
<1> DEFINE t == Paid(s)
<1>1. Shape(s)
  BY DEF Sound, Sheet, Shape
<1>2. t = [copper |-> s.copper + RewardCopper, rewards |-> s.rewards + 1, again |-> s.again, quests |-> s.quests,
           learned |-> s.learned, skill |-> s.skill, rank |-> s.rank, ore |-> s.ore, rivets |-> s.rivets]
  BY <1>1, PaidShape DEF Paid
<1> HIDE DEF t
<1>3. /\ t.copper = s.copper + RewardCopper /\ t.rewards = s.rewards + 1 /\ t.again = s.again /\ t.quests = s.quests
      /\ t.learned = s.learned /\ t.skill = s.skill /\ t.rank = s.rank /\ t.ore = s.ore /\ t.rivets = s.rivets
  BY <1>2
<1>4. Sheet(t)
  BY <1>2, <1>3, NumbersTyped DEF Sound, Sheet
<1>5. Fair(t) /\ Orderly(t)
  BY <1>3 DEF Sound, Fair, Orderly
<1> QED BY <1>4, <1>5 DEF Sound, t

LEMMA EventBecomes ==
    ASSUME NEW c \in Char, Sound(session[c]), NEW kind
    PROVE  LET t == AfterEvent(c, kind)
           IN  /\ Becomes(session[c], t) /\ t.skill = session[c].skill
               /\ \A q \in Quest : ~HasGraph(q) => t.quests[q] = session[c].quests[q]
<1> DEFINE s == session[c]
           f == [q \in Quest |-> IF HasGraph(q) /\ At(c, q).state = "active"
                                 THEN Advanced(q, kind, At(c, q)) ELSE s.quests[q]]
<1>1. ASSUME NEW q \in Quest PROVE Moves(q, s.quests[q], f[q])
  <2>1. CASE HasGraph(q) /\ At(c, q).state = "active"
    <3>1. Moves(q, s.quests[q], At(c, q))
      BY AtMoves
    <3>2. PICK d : Advanced(q, kind, At(c, q)) = Normalized(q, [At(c, q) EXCEPT !.done = d])
      BY DEF Advanced
    <3> DEFINE p == [At(c, q) EXCEPT !.done = d]
    <3>3. p = [state |-> At(c, q).state, count |-> At(c, q).count, done |-> d]
      BY <3>1 DEF Moves, Known
    <3>4. Known(p) /\ Fitting(q, p) /\ p.state = "active"
      BY <2>1, <3>1, <3>3 DEF Moves, Known, Fitting
    <3> HIDE DEF p
    <3>5. Moves(q, p, Normalized(q, p))
      BY <3>4, NormalizedMoves
    <3> QED BY <2>1, <3>1, <3>2, <3>4, <3>5 DEF Moves, p
  <2>2. CASE ~(HasGraph(q) /\ At(c, q).state = "active")
    BY <2>2 DEF Moves, Sound, Sheet, Orderly
  <2> QED BY <2>1, <2>2
<1>2. f = [q \in Quest |-> f[q]]
  OBVIOUS
<1>3. AfterEvent(c, kind) = [s EXCEPT !.quests = f]
  BY DEF AfterEvent
<1>4. \A q \in Quest : ~HasGraph(q) => f[q] = s.quests[q]
  OBVIOUS
<1> HIDE DEF f
<1> QED BY <1>1, <1>2, <1>3, <1>4, MovedBecomes

LEMMA CountedBecomes ==
    ASSUME NEW m \in Char, Sound(session[m]), NEW s, Sound(s),
           \A q \in Quest : ~HasGraph(q) => s.quests[q] = session[m].quests[q]
    PROVE  Becomes(s, Counted(m, s)) /\ Counted(m, s).skill = s.skill
<1> DEFINE f == [q \in Quest |-> IF Counts(m, q) THEN NormalizeCount([At(m, q) EXCEPT !.count = @ + 1])
                                               ELSE s.quests[q]]
<1>1. ASSUME NEW q \in Quest PROVE Moves(q, s.quests[q], f[q])
  <2>1. CASE Counts(m, q)
    <3> DEFINE p == [At(m, q) EXCEPT !.count = @ + 1]
    <3>1. ~HasGraph(q) /\ At(m, q).state = "active" /\ s.quests[q] = session[m].quests[q]
      BY <2>1 DEF Counts, HasGraph
    <3>2. Moves(q, s.quests[q], At(m, q))
      BY <3>1, AtMoves
    <3>3. p = [state |-> "active", count |-> At(m, q).count + 1, done |-> At(m, q).done]
      BY <3>1, <3>2 DEF Moves, Known
    <3>4. Known(p) /\ Fitting(q, p) /\ p.state = "active"
      BY <3>1, <3>2, <3>3 DEF Moves, Known, Fitting, QuestStates
    <3> HIDE DEF p
    <3>5. Moves(q, p, Normalized(q, p)) /\ Normalized(q, p) = NormalizeCount(p)
      BY <3>1, <3>4, NormalizedMoves DEF Normalized
    <3>6. f[q] = NormalizeCount(p)
      BY <2>1 DEF p
    <3> QED BY <3>1, <3>2, <3>4, <3>5, <3>6 DEF Moves
  <2>2. CASE ~Counts(m, q)
    BY <2>2 DEF Moves, Sound, Sheet, Orderly
  <2> QED BY <2>1, <2>2
<1>2. f = [q \in Quest |-> f[q]]
  OBVIOUS
<1>3. Counted(m, s) = [s EXCEPT !.quests = f]
  BY DEF Counted
<1> HIDE DEF f
<1> QED BY <1>1, <1>2, <1>3, MovedBecomes

-----------------------------------------------------------------------------
(* What a save makes of a record and a session's copy: both stay sound, and if *)
(* the record's books were closed and the copy agreed with it they still are.  *)
Onward(r, s, o, t) ==
    /\ Sound(o) /\ Sound(t)
    /\ \A n \in Int : Booked(r, n) /\ Agree(s, r) => Booked(o, n) /\ Agree(t, o)

LEMMA OnwardChain ==
    ASSUME NEW r, NEW s, NEW o, NEW t, NEW p, NEW u, Onward(r, s, o, t), Onward(o, t, p, u)
    PROVE  Onward(r, s, p, u)
  BY DEF Onward

LEMMA AgreeSame ==
    ASSUME NEW r PROVE Agree(r, r)
  BY DEF Agree

LEMMA SavedProgression ==
    ASSUME NEW r, Sound(r), NEW s, NEW t, Becomes(s, t), t.skill = s.skill
    PROVE  Onward(r, s, UpdateCharacterProgression(r, t), UpdateCharacterProgression(r, t))
<1> DEFINE o == UpdateCharacterProgression(r, t)
<1>1. o = [copper |-> t.copper, rewards |-> t.rewards, again |-> t.again, quests |-> t.quests,
           learned |-> t.learned, skill |-> r.skill, rank |-> r.rank, ore |-> t.ore, rivets |-> t.rivets]
  <2> DEFINE w == [t EXCEPT !.skill = r.skill]
  <2>1. w = [copper |-> t.copper, rewards |-> t.rewards, again |-> t.again, quests |-> t.quests,
             learned |-> t.learned, skill |-> r.skill, rank |-> t.rank, ore |-> t.ore, rivets |-> t.rivets]
    BY DEF Becomes, Sound, Sheet
  <2>2. o = [w EXCEPT !.rank = r.rank]
    BY DEF UpdateCharacterProgression
  <2> HIDE DEF w
  <2> QED BY <2>1, <2>2
<1> HIDE DEF o
<1>2. /\ o.copper = t.copper /\ o.rewards = t.rewards /\ o.again = t.again /\ o.quests = t.quests
      /\ o.learned = t.learned /\ o.skill = r.skill /\ o.rivets = t.rivets
  BY <1>1
<1>3. Sheet(o)
  BY <1>1, <1>2 DEF Becomes, Sound, Sheet
<1>4. Rewarded(o) = Rewarded(t)
  BY <1>2 DEF Rewarded
<1>5. Sound(o)
  BY <1>2, <1>3, <1>4 DEF Becomes, Sound, Fair, Orderly
<1>6. ASSUME NEW n \in Int, Booked(r, n), Agree(s, r) PROVE Booked(o, n)
  <2>1. Booked(t, n)
    BY <1>6, AgreeBooks DEF Becomes
  <2>2. Agree(o, t)
    BY <1>2, <1>6 DEF Agree
  <2> QED BY <2>1, <2>2, AgreeBooks
<1> QED BY <1>5, <1>6, AgreeSame DEF Onward, o

\* The fields that a save of the purse and the bag, or of the purse and the skill, brings.
LEMMA SavedFields ==
    ASSUME NEW r, Sound(r), NEW s, Sound(s)
    PROVE  /\ UpdateCharacterEconomy(r, s)
                = [copper |-> s.copper, rewards |-> r.rewards, again |-> r.again, quests |-> r.quests,
                   learned |-> r.learned, skill |-> r.skill, rank |-> r.rank, ore |-> s.ore, rivets |-> s.rivets]
           /\ UpdateCharacterProfessions(r, s)
                = [copper |-> s.copper, rewards |-> r.rewards, again |-> r.again, quests |-> r.quests,
                   learned |-> r.learned, skill |-> s.skill, rank |-> r.rank, ore |-> r.ore, rivets |-> r.rivets]
           /\ UpdateCharacterTalents(r, s)
                = [copper |-> r.copper, rewards |-> r.rewards, again |-> r.again, quests |-> r.quests,
                   learned |-> r.learned, skill |-> r.skill, rank |-> s.rank, ore |-> r.ore, rivets |-> r.rivets]
<1> DEFINE a == [r EXCEPT !.copper = s.copper]
<1>1. a = [copper |-> s.copper, rewards |-> r.rewards, again |-> r.again, quests |-> r.quests,
           learned |-> r.learned, skill |-> r.skill, rank |-> r.rank, ore |-> r.ore, rivets |-> r.rivets]
  BY DEF Sound, Sheet
<1> DEFINE b == [a EXCEPT !.ore = s.ore]
<1>2. UpdateCharacterEconomy(r, s) = [b EXCEPT !.rivets = s.rivets]
  BY DEF UpdateCharacterEconomy
<1>3. UpdateCharacterProfessions(r, s) = [a EXCEPT !.skill = s.skill]
  BY DEF UpdateCharacterProfessions
<1> HIDE DEF a
<1>4. b = [copper |-> s.copper, rewards |-> r.rewards, again |-> r.again, quests |-> r.quests,
           learned |-> r.learned, skill |-> r.skill, rank |-> r.rank, ore |-> s.ore, rivets |-> r.rivets]
  BY <1>1
<1> HIDE DEF b
<1>5. UpdateCharacterEconomy(r, s)
        = [copper |-> s.copper, rewards |-> r.rewards, again |-> r.again, quests |-> r.quests,
           learned |-> r.learned, skill |-> r.skill, rank |-> r.rank, ore |-> s.ore, rivets |-> s.rivets]
  BY <1>2, <1>4
<1>6. UpdateCharacterProfessions(r, s)
        = [copper |-> s.copper, rewards |-> r.rewards, again |-> r.again, quests |-> r.quests,
           learned |-> r.learned, skill |-> s.skill, rank |-> r.rank, ore |-> r.ore, rivets |-> r.rivets]
  BY <1>1, <1>3
<1>7. UpdateCharacterTalents(r, s)
        = [copper |-> r.copper, rewards |-> r.rewards, again |-> r.again, quests |-> r.quests,
           learned |-> r.learned, skill |-> r.skill, rank |-> s.rank, ore |-> r.ore, rivets |-> r.rivets]
  BY DEF UpdateCharacterTalents, Sound, Sheet
<1> QED BY <1>5, <1>6, <1>7

\* A record with the same quests and rewards is as sound.
LEMMA SameQuestsSound ==
    ASSUME NEW r, Sound(r), NEW o, Shape(o),
           o.rewards = r.rewards, o.again = r.again, o.quests = r.quests,
           o.copper \in Int, o.learned \in BOOLEAN, o.skill \in Nat, o.rivets \in Nat
    PROVE  Sound(o)
<1>1. Rewarded(o) = Rewarded(r)
  BY DEF Rewarded
<1> QED BY <1>1 DEF Sound, Sheet, Shape, Fair, Orderly

-----------------------------------------------------------------------------
(* The invariant of records and sessions *)

Kept ==
    /\ record = [c \in Char |-> record[c]] /\ session = [c \in Char |-> session[c]]
    /\ torn \subseteq Char
    /\ \A c \in Char : Sound(record[c]) /\ (InWorld(c) => Sound(session[c]))

\* What a step makes of a character.
Alters(c) ==
    /\ Sound(record'[c])
    /\ session'[c] # None => Sound(session'[c])
    /\ c \notin torn' =>
         /\ c \notin torn
         /\ "fullBag" \notin Races => \A n \in Int :
              Booked(record[c], n) /\ (InWorld(c) => Agree(session[c], record[c]))
                => Booked(record'[c], n) /\ (session'[c] # None => Agree(session'[c], record'[c]))
Evolves ==
    /\ record' = [c \in Char |-> record'[c]] /\ session' = [c \in Char |-> session'[c]]
    /\ torn' \subseteq Char
    /\ \A c \in Char : Alters(c)

LEMMA SameAlters ==
    ASSUME Kept, NEW c \in Char, record'[c] = record[c], session'[c] = session[c], torn \subseteq torn'
    PROVE  Alters(c)
  BY DEF Kept, Alters, InWorld

LEMMA OnwardAlters ==
    ASSUME Kept, NEW c \in Char, InWorld(c), torn \subseteq torn',
           Onward(record[c], session[c], record'[c], session'[c])
    PROVE  Alters(c)
  BY DEF Kept, Alters, Onward

LEMMA TornAlters ==
    ASSUME Kept, NEW c \in Char, Sound(record'[c]), Sound(session'[c]), c \in torn'
    PROVE  Alters(c)
  BY DEF Alters

LEMMA UnpaidAlters ==
    ASSUME Kept, NEW c \in Char, Sound(record'[c]), Sound(session'[c]), torn \subseteq torn', "fullBag" \in Races
    PROVE  Alters(c)
  BY DEF Alters

\* One character's record or copy is written, its save is torn or its reward half paid.
LEMMA OneEvolves ==
    ASSUME Kept, NEW c \in Char, InWorld(c), NEW o, NEW t,
           record' = [record EXCEPT ![c] = o], session' = [session EXCEPT ![c] = t],
           \/ torn' = torn /\ Onward(record[c], session[c], o, t)
           \/ torn' = torn \cup {c} /\ Sound(o) /\ Sound(t)
           \/ torn' = torn /\ Sound(o) /\ Sound(t) /\ "fullBag" \in Races
    PROVE  Evolves
<1>1. record'[c] = o /\ session'[c] = t
  BY DEF Kept
<1>2. Alters(c)
  BY <1>1, OnwardAlters, TornAlters, UnpaidAlters
<1>3. torn \subseteq torn' /\ torn' \subseteq Char
  BY DEF Kept
<1>4. ASSUME NEW k \in Char, k # c PROVE Alters(k)
  <2>1. record'[k] = record[k] /\ session'[k] = session[k]
    BY <1>4 DEF Kept
  <2> QED BY <2>1, <1>3, SameAlters
<1>5. record' = [k \in Char |-> record'[k]] /\ session' = [k \in Char |-> session'[k]]
  BY DEF Kept
<1> QED BY <1>2, <1>3, <1>4, <1>5 DEF Evolves

LEMMA PersistProgressionEvolves ==
    ASSUME Kept, NEW c \in Char, InWorld(c), NEW s, Becomes(session[c], s), s.skill = session[c].skill,
           PersistProgression(c, s)
    PROVE  Evolves
<1> DEFINE o == UpdateCharacterProgression(record[c], s)
<1>1. Sound(record[c]) /\ Sound(s)
  BY DEF Kept, Becomes
<1>2. Onward(record[c], session[c], o, o)
  BY <1>1, SavedProgression
<1>3. PICK saved \in Saves :
        /\ record' = IF saved THEN [record EXCEPT ![c] = o] ELSE record
        /\ session' = [session EXCEPT ![c] = IF saved THEN record'[c] ELSE s]
        /\ Failing(c, saved)
  BY DEF PersistProgression
<1> HIDE DEF o
<1>4. CASE saved
  <2>1. record' = [record EXCEPT ![c] = o] /\ record'[c] = o
    BY <1>3, <1>4 DEF Kept
  <2>2. session' = [session EXCEPT ![c] = o] /\ torn' = torn
    BY <1>3, <1>4, <2>1 DEF Failing
  <2> QED BY <1>2, <2>1, <2>2, OneEvolves
<1>5. CASE ~saved
  <2>1. record' = [record EXCEPT ![c] = record[c]]
    BY <1>3, <1>5 DEF Kept
  <2>2. session' = [session EXCEPT ![c] = s] /\ torn' = torn \cup {c}
    BY <1>3, <1>5 DEF Failing
  <2> QED BY <1>1, <2>1, <2>2, OneEvolves
<1> QED BY <1>4, <1>5

LEMMA PersistEconomyEvolves ==
    ASSUME Kept, NEW c \in Char, InWorld(c), NEW s, Sound(s),
           Onward(record[c], session[c], UpdateCharacterEconomy(record[c], s), s), PersistEconomy(c, s)
    PROVE  Evolves
<1> DEFINE o == UpdateCharacterEconomy(record[c], s)
<1>1. PICK saved \in Saves :
        /\ record' = IF saved THEN [record EXCEPT ![c] = o] ELSE record
        /\ session' = [session EXCEPT ![c] = s]
        /\ Failing(c, saved)
  BY DEF PersistEconomy
<1> HIDE DEF o
<1>2. Onward(record[c], session[c], o, s)
  BY DEF o
<1>3. CASE saved
  BY <1>1, <1>2, <1>3, OneEvolves DEF Failing
<1>4. CASE ~saved
  <2>1. record' = [record EXCEPT ![c] = record[c]] /\ torn' = torn \cup {c} /\ Sound(record[c])
    BY <1>1, <1>4 DEF Kept, Failing
  <2> QED BY <1>1, <2>1, OneEvolves
<1> QED BY <1>3, <1>4

LEMMA PersistProfessionsEvolves ==
    ASSUME Kept, NEW c \in Char, InWorld(c), NEW s, Sound(s),
           Onward(record[c], session[c], UpdateCharacterProfessions(record[c], s), s), PersistProfessions(c, s)
    PROVE  Evolves
<1> DEFINE o == UpdateCharacterProfessions(record[c], s)
<1>1. PICK saved \in Saves :
        /\ record' = IF saved THEN [record EXCEPT ![c] = o] ELSE record
        /\ session' = [session EXCEPT ![c] = s]
        /\ Failing(c, saved)
  BY DEF PersistProfessions
<1> HIDE DEF o
<1>2. Onward(record[c], session[c], o, s)
  BY DEF o
<1>3. CASE saved
  BY <1>1, <1>2, <1>3, OneEvolves DEF Failing
<1>4. CASE ~saved
  <2>1. record' = [record EXCEPT ![c] = record[c]] /\ torn' = torn \cup {c} /\ Sound(record[c])
    BY <1>1, <1>4 DEF Kept, Failing
  <2> QED BY <1>1, <2>1, OneEvolves
<1> QED BY <1>3, <1>4

-----------------------------------------------------------------------------
(* Learning and making *)

LEMMA TaughtShape ==
    ASSUME NEW r, Shape(r), NEW l, NEW n
    PROVE  [r EXCEPT !.learned = l, !.copper = n]
             = [copper |-> n, rewards |-> r.rewards, again |-> r.again, quests |-> r.quests,
                learned |-> l, skill |-> r.skill, rank |-> r.rank, ore |-> r.ore, rivets |-> r.rivets]
<1> DEFINE o == [r EXCEPT !.learned = l]
<1>1. o = [copper |-> r.copper, rewards |-> r.rewards, again |-> r.again, quests |-> r.quests,
           learned |-> l, skill |-> r.skill, rank |-> r.rank, ore |-> r.ore, rivets |-> r.rivets]
  BY DEF Shape
<1>2. [r EXCEPT !.learned = l, !.copper = n] = [o EXCEPT !.copper = n]
  OBVIOUS
<1> HIDE DEF o
<1> QED BY <1>1, <1>2

LEMMA LearnAbilityEvolves ==
    ASSUME Kept, NEW c \in Char, HandleTrainerLearn(c) PROVE Evolves
<1> DEFINE s == session[c]
           t == [s EXCEPT !.learned = TRUE, !.copper = @ - TrainerCost]
<1>1. InWorld(c) /\ Sound(s) /\ ~s.learned /\ PersistProgression(c, t)
  BY DEF HandleTrainerLearn, LearnAbility, Kept
<1>2. PICK l : l = TRUE
  OBVIOUS
<1>3. Shape(s)
  BY <1>1 DEF Sound, Sheet, Shape
<1>4. t = [copper |-> s.copper - TrainerCost, rewards |-> s.rewards, again |-> s.again, quests |-> s.quests,
           learned |-> l, skill |-> s.skill, rank |-> s.rank, ore |-> s.ore, rivets |-> s.rivets]
  <2>1. [s EXCEPT !.learned = l, !.copper = @ - TrainerCost]
          = [copper |-> s.copper - TrainerCost, rewards |-> s.rewards, again |-> s.again, quests |-> s.quests,
             learned |-> l, skill |-> s.skill, rank |-> s.rank, ore |-> s.ore, rivets |-> s.rivets]
    BY <1>3, TaughtShape
  <2> QED BY <1>2, <2>1, Zenon
<1> HIDE DEF t
<1>5. /\ t.copper = s.copper - TrainerCost /\ t.rewards = s.rewards /\ t.again = s.again /\ t.quests = s.quests
      /\ t.learned = l /\ t.skill = s.skill /\ t.rank = s.rank /\ t.ore = s.ore /\ t.rivets = s.rivets
  BY <1>4
<1>6. s.copper \in Int /\ s.skill \in Nat /\ s.rivets \in Nat /\ s.rewards \in Nat
  BY <1>1 DEF Sound, Sheet
<1>7. Sound(t)
  <2>1. Shape(t)
    BY <1>4, <1>5 DEF Shape
  <2>2. t.learned \in BOOLEAN
    BY <1>2, <1>5
  <2>3. t.copper \in Int
    BY <1>5, <1>6, NumbersTyped
  <2> QED BY <1>1, <1>5, <1>6, <2>1, <2>2, <2>3, SameQuestsSound
<1>8. ASSUME NEW n \in Int, Booked(s, n) PROVE Booked(t, n)
  <2>1. Price(t) = Price(s) + TrainerCost /\ Price(s) \in Int
    BY <1>1, <1>2, <1>5, <1>6, NumbersTyped DEF Price
  <2>2. Crafts(t) = Crafts(s)
    BY <1>5 DEF Crafts
  <2>3. t.copper + Price(t) = s.copper + Price(s)
    BY <1>5, <1>6, <2>1, NumbersTyped
  <2> QED BY <1>5, <1>8, <2>2, <2>3 DEF Booked
<1>9. Becomes(s, t)
  BY <1>7, <1>8 DEF Becomes
<1> QED BY <1>1, <1>5, <1>9, PersistProgressionEvolves

LEMMA LearnProfessionEvolves ==
    ASSUME Kept, NEW c \in Char, HandleProfessionLearn(c) PROVE Evolves
<1> DEFINE r == record[c]
           s == session[c]
           w == [s EXCEPT !.skill = 1]
           t == [s EXCEPT !.skill = 1, !.copper = @ - ProfessionCost]
           o == UpdateCharacterProfessions(r, t)
<1>1. InWorld(c) /\ Sound(s) /\ Sound(r) /\ ~(s.skill > 0) /\ PersistProfessions(c, t)
  BY DEF HandleProfessionLearn, LearnProfession, Knows, Kept
<1>2. w = [copper |-> s.copper, rewards |-> s.rewards, again |-> s.again, quests |-> s.quests,
           learned |-> s.learned, skill |-> 1, rank |-> s.rank, ore |-> s.ore, rivets |-> s.rivets]
  BY <1>1 DEF Sound, Sheet
<1>3. t = [w EXCEPT !.copper = s.copper - ProfessionCost]
  OBVIOUS
<1> HIDE DEF w
<1>4. t = [copper |-> s.copper - ProfessionCost, rewards |-> s.rewards, again |-> s.again, quests |-> s.quests,
           learned |-> s.learned, skill |-> 1, rank |-> s.rank, ore |-> s.ore, rivets |-> s.rivets]
  BY <1>2, <1>3
<1> HIDE DEF t
<1>5. /\ t.copper = s.copper - ProfessionCost /\ t.rewards = s.rewards /\ t.again = s.again /\ t.quests = s.quests
      /\ t.learned = s.learned /\ t.skill = 1 /\ t.rank = s.rank /\ t.ore = s.ore /\ t.rivets = s.rivets
  BY <1>4
<1>6. s.copper \in Int /\ s.skill = 0 /\ s.rivets \in Nat /\ s.rewards \in Nat /\ s.learned \in BOOLEAN
  BY <1>1 DEF Sound, Sheet
<1>7. Sound(t)
  <2>1. Shape(t)
    BY <1>4, <1>5 DEF Shape
  <2> QED BY <1>1, <1>5, <1>6, <2>1, SameQuestsSound, NumbersTyped
<1>8. o = [copper |-> t.copper, rewards |-> r.rewards, again |-> r.again, quests |-> r.quests,
           learned |-> r.learned, skill |-> t.skill, rank |-> r.rank, ore |-> r.ore, rivets |-> r.rivets]
  BY <1>1, <1>7, SavedFields
<1> HIDE DEF o
<1>9. /\ o.copper = t.copper /\ o.rewards = r.rewards /\ o.again = r.again /\ o.quests = r.quests
      /\ o.learned = r.learned /\ o.skill = 1 /\ o.rivets = r.rivets /\ Shape(o)
  BY <1>5, <1>8 DEF Shape
<1>10. Sound(o)
  <2>1. t.copper \in Int /\ r.learned \in BOOLEAN /\ r.rivets \in Nat
    BY <1>1, <1>7 DEF Sound, Sheet
  <2> QED BY <1>1, <1>9, <2>1, SameQuestsSound
<1>11. ASSUME NEW n \in Int, Booked(r, n), Agree(s, r) PROVE Booked(o, n) /\ Agree(t, o)
  <2>1. Agree(t, o)
    BY <1>5, <1>9, <1>11 DEF Agree
  <2>2. Booked(s, n)
    BY <1>11, AgreeBooks
  <2>3. Price(t) = Price(s) + ProfessionCost /\ Price(s) \in Int
    BY <1>5, <1>6, NumbersTyped DEF Price
  <2>4. Crafts(t) = 0 /\ Crafts(s) = 0
    BY <1>5, <1>6 DEF Crafts
  <2>5. t.copper + Price(t) = s.copper + Price(s)
    BY <1>5, <1>6, <2>3, NumbersTyped
  <2>6. s.rivets = RivetsPerCraft * Crafts(s)
    BY <2>2, <1>6, NumbersTyped DEF Booked
  <2>7. IF t.skill < MaxSkill THEN t.rivets = RivetsPerCraft * Crafts(t) ELSE t.rivets >= RivetsPerCraft * Crafts(t)
    BY <1>5, <1>6, <2>4, <2>6
  <2>8. Booked(t, n)
    BY <1>5, <2>2, <2>5, <2>7 DEF Booked
  <2> QED BY <2>1, <2>8, AgreeBooks
<1>12. Onward(r, s, o, t)
  BY <1>7, <1>10, <1>11 DEF Onward
<1> QED BY <1>1, <1>7, <1>12, PersistProfessionsEvolves DEF o

LEMMA GatherEvolves ==
    ASSUME Kept, NEW c \in Char, HandleGather(c) PROVE Evolves
<1> DEFINE r == record[c]
           s == session[c]
           t == [s EXCEPT !.ore = @ + 1]
           o == UpdateCharacterEconomy(r, t)
<1>1. InWorld(c) /\ Sound(s) /\ Sound(r) /\ PersistEconomy(c, t)
  BY DEF HandleGather, GatherNode, Kept
<1>2. t = [copper |-> s.copper, rewards |-> s.rewards, again |-> s.again, quests |-> s.quests,
           learned |-> s.learned, skill |-> s.skill, rank |-> s.rank, ore |-> s.ore + 1, rivets |-> s.rivets]
  BY <1>1 DEF Sound, Sheet
<1> HIDE DEF t
<1>3. /\ t.copper = s.copper /\ t.rewards = s.rewards /\ t.again = s.again /\ t.quests = s.quests
      /\ t.learned = s.learned /\ t.skill = s.skill /\ t.rivets = s.rivets /\ Shape(t)
  BY <1>2 DEF Shape
<1>4. Sound(t)
  BY <1>1, <1>3, SameQuestsSound DEF Sound, Sheet
<1>5. o = [copper |-> t.copper, rewards |-> r.rewards, again |-> r.again, quests |-> r.quests,
           learned |-> r.learned, skill |-> r.skill, rank |-> r.rank, ore |-> t.ore, rivets |-> t.rivets]
  BY <1>1, <1>4, SavedFields
<1> HIDE DEF o
<1>6. /\ o.copper = s.copper /\ o.rewards = r.rewards /\ o.again = r.again /\ o.quests = r.quests
      /\ o.learned = r.learned /\ o.skill = r.skill /\ o.rivets = s.rivets /\ Shape(o)
  BY <1>3, <1>5 DEF Shape
<1>7. Sound(o)
  BY <1>1, <1>6, SameQuestsSound DEF Sound, Sheet
<1>8. ASSUME NEW n \in Int, Booked(r, n), Agree(s, r) PROVE Booked(o, n) /\ Agree(t, o)
  <2>1. Agree(o, r) /\ Agree(t, o)
    BY <1>3, <1>6, <1>8 DEF Agree
  <2> QED BY <1>8, <2>1, AgreeBooks
<1>9. Onward(r, s, o, t)
  BY <1>4, <1>7, <1>8 DEF Onward
<1> QED BY <1>1, <1>4, <1>9, PersistEconomyEvolves DEF o

LEMMA CraftEvolves ==
    ASSUME Kept, NEW c \in Char, HandleCraft(c) PROVE Evolves
<1> DEFINE r == record[c]
           s == session[c]
           v == Spend(s)
           w == [v EXCEPT !.rivets = @ + RivetsPerCraft]
           t == AdvanceSkill(w)
           k == IF s.skill < MaxSkill THEN s.skill + 1 ELSE s.skill
           bag == UpdateCharacterEconomy(r, t)
           o == UpdateCharacterProfessions(bag, t)
<1>1. /\ InWorld(c) /\ Sound(s) /\ Sound(r) /\ s.skill > 0
      /\ session' = [session EXCEPT ![c] = t]
      /\ \/ record' = [record EXCEPT ![c] = o] /\ torn' = torn
         \/ torn' = torn \cup {c} /\ (record' = record \/ record' = [record EXCEPT ![c] = bag])
  BY DEF HandleCraft, CraftRecipe, Knows, Kept, Failing
<1>2. v = [copper |-> s.copper, rewards |-> s.rewards, again |-> s.again, quests |-> s.quests, learned |-> s.learned,
           skill |-> s.skill, rank |-> s.rank, ore |-> s.ore - OrePerCraft, rivets |-> s.rivets]
  BY <1>1 DEF Spend, Sound, Sheet
<1> HIDE DEF v
<1>3. w = [copper |-> s.copper, rewards |-> s.rewards, again |-> s.again, quests |-> s.quests, learned |-> s.learned,
           skill |-> s.skill, rank |-> s.rank, ore |-> s.ore - OrePerCraft, rivets |-> s.rivets + RivetsPerCraft]
  BY <1>2
<1> HIDE DEF w
<1>4. t = [copper |-> s.copper, rewards |-> s.rewards, again |-> s.again, quests |-> s.quests, learned |-> s.learned,
           skill |-> k, rank |-> s.rank, ore |-> s.ore - OrePerCraft, rivets |-> s.rivets + RivetsPerCraft]
  BY <1>3 DEF AdvanceSkill
<1> HIDE DEF t
<1>5. /\ t.copper = s.copper /\ t.rewards = s.rewards /\ t.again = s.again /\ t.quests = s.quests
      /\ t.learned = s.learned /\ t.skill = k /\ t.rivets = s.rivets + RivetsPerCraft /\ Shape(t)
  BY <1>4 DEF Shape
<1>6. s.copper \in Int /\ s.skill \in Nat /\ s.rivets \in Nat /\ s.learned \in BOOLEAN /\ k \in Nat /\ k > 0
  BY <1>1, NumbersTyped DEF Sound, Sheet
<1> HIDE DEF k
<1>7. Sound(t)
  <2>1. t.rivets \in Nat
    BY <1>5, <1>6, NumbersTyped
  <2> QED BY <1>1, <1>5, <1>6, <2>1, SameQuestsSound
<1>8. bag = [copper |-> t.copper, rewards |-> r.rewards, again |-> r.again, quests |-> r.quests, learned |-> r.learned,
             skill |-> r.skill, rank |-> r.rank, ore |-> t.ore, rivets |-> t.rivets]
  BY <1>1, <1>7, SavedFields
<1> HIDE DEF bag
<1>9. /\ bag.copper = t.copper /\ bag.rewards = r.rewards /\ bag.again = r.again /\ bag.quests = r.quests
      /\ bag.learned = r.learned /\ bag.skill = r.skill /\ bag.rivets = t.rivets /\ Shape(bag)
  BY <1>8 DEF Shape
<1>10. r.learned \in BOOLEAN /\ r.skill \in Nat /\ t.copper \in Int /\ t.rivets \in Nat /\ t.skill \in Nat
  BY <1>1, <1>7 DEF Sound, Sheet
<1>11. Sound(bag)
  BY <1>1, <1>9, <1>10, SameQuestsSound
<1>12. o = [copper |-> t.copper, rewards |-> bag.rewards, again |-> bag.again, quests |-> bag.quests, learned |-> bag.learned,
            skill |-> t.skill, rank |-> bag.rank, ore |-> bag.ore, rivets |-> bag.rivets]
  BY <1>7, <1>11, SavedFields
<1> HIDE DEF o
<1>13. /\ o.copper = t.copper /\ o.rewards = r.rewards /\ o.again = r.again /\ o.quests = r.quests
       /\ o.learned = r.learned /\ o.skill = t.skill /\ o.rivets = t.rivets /\ Shape(o)
  BY <1>9, <1>12 DEF Shape
<1>14. Sound(o)
  BY <1>1, <1>10, <1>13, SameQuestsSound
<1>15. ASSUME NEW n \in Int, Booked(r, n), Agree(s, r) PROVE Booked(o, n) /\ Agree(t, o)
  <2>1. Agree(t, o)
    BY <1>5, <1>13, <1>15 DEF Agree
  <2>2. Booked(s, n)
    BY <1>15, AgreeBooks
  <2>3. t.copper = s.copper /\ t.rewards = s.rewards /\ Price(t) = Price(s)
    BY <1>1, <1>5, <1>6 DEF Price
  <2>4. Crafts(s) = s.skill - 1 /\ Crafts(t) = k - 1
    BY <1>1, <1>5, <1>6 DEF Crafts
  <2>5. RivetsPerCraft * ((s.skill - 1) + 1) = (RivetsPerCraft * (s.skill - 1)) + RivetsPerCraft
    BY <1>6, NumbersTyped
  <2>6. RivetsPerCraft * (s.skill - 1) \in Int /\ RivetsPerCraft \in Nat /\ MaxSkill \in Nat
    BY <1>6, NumbersTyped
  <2>7. t.copper + Price(t) = StartCopper + (RewardCopper * t.rewards) + n
    BY <2>2, <2>3 DEF Booked
  <2>8. ASSUME s.skill < MaxSkill PROVE Booked(t, n)
    <3>1. k - 1 = (s.skill - 1) + 1
      BY <1>6, <2>8 DEF k
    <3>2. s.rivets = RivetsPerCraft * (s.skill - 1)
      BY <2>2, <2>4, <2>8 DEF Booked
    <3>3. t.rivets = RivetsPerCraft * Crafts(t)
      BY <1>5, <2>4, <2>5, <2>6, <3>1, <3>2
    <3>4. RivetsPerCraft * Crafts(t) \in Int
      BY <1>10, <3>3
    <3>5. IF t.skill < MaxSkill THEN t.rivets = RivetsPerCraft * Crafts(t) ELSE t.rivets >= RivetsPerCraft * Crafts(t)
      BY <3>3, <3>4
    <3> QED BY <2>7, <3>5 DEF Booked
  <2>9. ASSUME ~(s.skill < MaxSkill) PROVE Booked(t, n)
    <3>1. k = s.skill
      BY <2>9 DEF k
    <3>2. s.rivets >= RivetsPerCraft * (s.skill - 1)
      BY <2>2, <2>4, <2>9 DEF Booked
    <3>3. t.rivets >= RivetsPerCraft * (s.skill - 1)
      BY <1>5, <1>6, <2>6, <3>2
    <3>4. t.rivets >= RivetsPerCraft * Crafts(t)
      BY <2>4, <3>1, <3>3
    <3>5. ~(t.skill < MaxSkill)
      BY <1>5, <2>9, <3>1
    <3> QED BY <2>7, <3>4, <3>5 DEF Booked
  <2>10. Booked(t, n)
    BY <2>8, <2>9
  <2> QED BY <2>1, <2>10, AgreeBooks
<1>16. Onward(r, s, o, t)
  BY <1>7, <1>14, <1>15 DEF Onward
<1>17. record = [record EXCEPT ![c] = r]
  BY DEF Kept
<1> HIDE DEF r, s
<1>18. CASE record' = [record EXCEPT ![c] = o] /\ torn' = torn
  BY <1>1, <1>16, <1>18, OneEvolves DEF r, s
<1>19. CASE torn' = torn \cup {c} /\ record' = record
  BY <1>1, <1>7, <1>17, <1>19, OneEvolves
<1>20. CASE torn' = torn \cup {c} /\ record' = [record EXCEPT ![c] = bag]
  BY <1>1, <1>7, <1>11, <1>20, OneEvolves
<1> QED BY <1>1, <1>18, <1>19, <1>20

LEMMA TalentEvolves ==
    ASSUME Kept, NEW c \in Char, HandleTalentSelect(c) PROVE Evolves
<1> DEFINE r == record[c]
           s == session[c]
           t == [s EXCEPT !.rank = @ + 1]
           o == UpdateCharacterTalents(r, t)
           u == [s EXCEPT !.rank = record'[c].rank]
<1>1. /\ InWorld(c) /\ Sound(s) /\ Sound(r) /\ torn' = torn
      /\ \/ record' = [record EXCEPT ![c] = o] /\ session' = [session EXCEPT ![c].rank = record'[c].rank]
         \/ record' = record /\ session' = session
  BY DEF HandleTalentSelect, SelectTalent, Kept
<1>2. CASE record' = [record EXCEPT ![c] = o] /\ session' = [session EXCEPT ![c].rank = record'[c].rank]
  <2>1. session' = [session EXCEPT ![c] = u]
    BY <1>2
  <2>2. o = [copper |-> r.copper, rewards |-> r.rewards, again |-> r.again, quests |-> r.quests,
             learned |-> r.learned, skill |-> r.skill, rank |-> t.rank, ore |-> r.ore, rivets |-> r.rivets]
    BY <1>1 DEF UpdateCharacterTalents, Sound, Sheet
  <2>3. u = [copper |-> s.copper, rewards |-> s.rewards, again |-> s.again, quests |-> s.quests, learned |-> s.learned,
             skill |-> s.skill, rank |-> record'[c].rank, ore |-> s.ore, rivets |-> s.rivets]
    BY <1>1 DEF Sound, Sheet
  <2> HIDE DEF o, t, u
  <2>4. Sound(o) /\ Agree(o, r)
    <3>1. Shape(o) /\ Agree(o, r) /\ o.again = r.again /\ o.quests = r.quests
      BY <2>2 DEF Shape, Agree
    <3> QED BY <1>1, <3>1, SameQuestsSound DEF Agree, Sound, Sheet
  <2>5. Sound(u) /\ Agree(u, s)
    <3>1. Shape(u) /\ Agree(u, s) /\ u.again = s.again /\ u.quests = s.quests
      BY <2>3 DEF Shape, Agree
    <3> QED BY <1>1, <3>1, SameQuestsSound DEF Agree, Sound, Sheet
  <2>6. ASSUME NEW n \in Int, Booked(r, n), Agree(s, r) PROVE Booked(o, n) /\ Agree(u, o)
    <3>1. Agree(u, o)
      BY <2>4, <2>5, <2>6 DEF Agree
    <3> QED BY <2>4, <2>6, <3>1, AgreeBooks
  <2>7. Onward(r, s, o, u)
    BY <2>4, <2>5, <2>6 DEF Onward
  <2> QED BY <1>1, <1>2, <2>1, <2>7, OneEvolves
<1>3. CASE record' = record /\ session' = session
  <2>1. \A k \in Char : Alters(k)
    BY <1>1, <1>3, SameAlters
  <2> QED BY <1>1, <1>3, <2>1 DEF Evolves, Kept
<1> QED BY <1>1, <1>2, <1>3

-----------------------------------------------------------------------------
(* Quests and kills *)

LEMMA RewardEvolves ==
    ASSUME Kept, NEW c \in Char, NEW q \in Quest, NEW s, InWorld(c), Sound(s), CompleteQuest(c, q, s)
    PROVE  Evolves
<1>1. Sound(session[c]) /\ Sound(record[c])
  BY DEF Kept
<1> DEFINE t == [With(session[c], q, [At(c, q) EXCEPT !.state = "reward_granted",
                                                      !.count = IF HasGraph(q) THEN @ ELSE TargetCount])
                 EXCEPT !.copper = @ + RewardCopper, !.rewards = @ + 1]
<1>2. Becomes(session[c], t) /\ t.skill = session[c].skill
  BY <1>1, RewardBecomes DEF CompleteQuest
<1>3. \/ PersistProgression(c, t)
      \/ /\ session' = [session EXCEPT ![c] = Paid(s)] /\ record' = record /\ torn' = torn
         /\ "fullBag" \in Races
  BY DEF CompleteQuest, GrantReward, Paid
<1> HIDE DEF t
<1>4. CASE PersistProgression(c, t)
  BY <1>2, <1>4, PersistProgressionEvolves
<1>5. CASE /\ session' = [session EXCEPT ![c] = Paid(s)] /\ record' = record /\ torn' = torn
           /\ "fullBag" \in Races
  <2>1. Sound(Paid(s))
    BY <1>5, PaidSound
  <2>2. record' = [record EXCEPT ![c] = record[c]]
    BY <1>5 DEF Kept
  <2> QED BY <1>1, <1>5, <2>1, <2>2, OneEvolves
<1> QED BY <1>3, <1>4, <1>5

LEMMA QuestEvolves ==
    ASSUME Kept, NEW c \in Char, NEW q \in Quest, HandleQuestAccept(c, q) \/ HandleQuestComplete(c, q)
    PROVE  Evolves
<1>1. InWorld(c) /\ Sound(session[c])
  BY DEF HandleQuestAccept, HandleQuestComplete, Kept
<1>2. CASE AcceptQuest(c, q)
  <2> DEFINE t == With(session[c], q, Normalized(q, [At(c, q) EXCEPT !.state = "active"]))
  <2>1. Becomes(session[c], t) /\ t.skill = session[c].skill
    BY <1>1, <1>2, AcceptBecomes DEF AcceptQuest
  <2>2. PersistProgression(c, t)
    BY <1>2 DEF AcceptQuest
  <2> HIDE DEF t
  <2> QED BY <1>1, <2>1, <2>2, PersistProgressionEvolves
<1>3. Reportable(c, q) => Becomes(session[c], Reported(c, q)) /\ Reported(c, q).skill = session[c].skill
  BY <1>1, ReportBecomes DEF Reportable, Reported
<1>4. CASE ReportObjective(c, q)
  <2>1. Reportable(c, q) /\ PersistProgression(c, Reported(c, q))
    BY <1>4 DEF ReportObjective
  <2> QED BY <1>1, <1>3, <2>1, PersistProgressionEvolves
<1>5. CASE TurnIn(c, q)
  <2>1. Sound(IF Reportable(c, q) THEN Reported(c, q) ELSE session[c])
    BY <1>1, <1>3 DEF Becomes
  <2> QED BY <1>1, <1>5, <2>1, RewardEvolves DEF TurnIn
<1>6. CASE CompleteQuest(c, q, session[c])
  BY <1>1, <1>6, RewardEvolves
<1> QED BY <1>2, <1>4, <1>5, <1>6 DEF HandleQuestAccept, HandleQuestComplete

LEMMA ItemEvolves ==
    ASSUME Kept, NEW c \in Char, ItemGranted(c) PROVE Evolves
<1>1. InWorld(c) /\ Sound(session[c]) /\ PersistProgression(c, AfterEvent(c, "item"))
  BY DEF ItemGranted, Kept
<1>2. Becomes(session[c], AfterEvent(c, "item")) /\ AfterEvent(c, "item").skill = session[c].skill
  BY <1>1, EventBecomes
<1> QED BY <1>1, <1>2, PersistProgressionEvolves

\* What the credit of a kill starts from: the store and the sessions, after the killer's graphs.
Before(near, rec, ses) ==
    /\ rec = [m \in Char |-> rec[m]] /\ ses = [m \in Char |-> ses[m]] /\ near \subseteq Online
    /\ \A m \in Char : Sound(rec[m])
    /\ \A m \in Char : m \notin near => rec[m] = record[m] /\ ses[m] = session[m]
    /\ \A m \in near :
         /\ Onward(record[m], session[m], rec[m], ses[m])
         /\ \A q \in Quest : ~HasGraph(q) => ses[m].quests[q] = session[m].quests[q]

LEMMA CreditEvolves ==
    ASSUME Kept, NEW near, NEW rec, NEW ses, Before(near, rec, ses), CountCredit(near, rec, ses)
    PROVE  Evolves
<1> DEFINE credited == [m \in Char |-> IF m \in Candidates(near) THEN Counted(m, ses[m]) ELSE ses[m]]
<1>1. PICK kept \in SUBSET Candidates(near) :
        /\ record' = [m \in Char |-> IF m \in kept THEN UpdateCharacterProgression(rec[m], credited[m]) ELSE rec[m]]
        /\ session' = [m \in Char |-> IF m \in kept THEN record'[m] ELSE credited[m]]
        /\ \/ kept = Candidates(near) /\ UNCHANGED <<failures, torn>>
           \/ torn' = torn \cup (Candidates(near) \ kept)
  BY DEF CountCredit
<1>2. Candidates(near) \subseteq near /\ near \subseteq Char /\ \A m \in near : InWorld(m) /\ Sound(session[m])
  BY DEF Candidates, Before, Online, Kept
<1>3. \A m \in Char : m \in Candidates(near) => credited[m] = Counted(m, ses[m])
  OBVIOUS
<1>4. \A m \in Char : m \notin Candidates(near) => credited[m] = ses[m]
  OBVIOUS
<1> HIDE DEF credited
<1>5. torn \subseteq torn' /\ torn' \subseteq Char /\ \A m \in Candidates(near) : m \notin kept => m \in torn'
  BY <1>1, <1>2 DEF Kept
<1>6. ASSUME NEW m \in Candidates(near) PROVE Becomes(ses[m], credited[m]) /\ credited[m].skill = ses[m].skill
  <2>1. m \in near /\ Sound(session[m]) /\ Sound(ses[m])
    BY <1>2, <1>6 DEF Before, Onward
  <2>2. \A q \in Quest : ~HasGraph(q) => ses[m].quests[q] = session[m].quests[q]
    BY <2>1 DEF Before
  <2>3. PICK s : s = ses[m]
    OBVIOUS
  <2>4. Becomes(s, Counted(m, s)) /\ Counted(m, s).skill = s.skill
    BY <1>2, <2>1, <2>2, <2>3, CountedBecomes
  <2> QED BY <1>2, <1>3, <1>6, <2>3, <2>4
<1>7. ASSUME NEW m \in Char PROVE Alters(m)
  <2>1. CASE m \in kept
    <3> DEFINE o == UpdateCharacterProgression(rec[m], credited[m])
    <3>1. record'[m] = o /\ session'[m] = o
      BY <1>1, <2>1
    <3>2. Onward(rec[m], ses[m], o, o)
      BY <1>1, <1>6, <2>1, SavedProgression DEF Before
    <3> HIDE DEF o
    <3>3. m \in near /\ Onward(record[m], session[m], rec[m], ses[m])
      BY <1>1, <1>2, <2>1 DEF Before
    <3>4. Onward(record[m], session[m], o, o)
      BY <3>2, <3>3, OnwardChain
    <3> QED BY <1>2, <1>5, <3>1, <3>3, <3>4, OnwardAlters
  <2>2. CASE m \in Candidates(near) /\ m \notin kept
    <3>1. record'[m] = rec[m] /\ session'[m] = credited[m] /\ m \in torn'
      BY <1>1, <1>5, <2>2
    <3>2. Sound(rec[m]) /\ Sound(credited[m])
      BY <1>6, <2>2 DEF Before, Becomes
    <3> QED BY <3>1, <3>2, TornAlters
  <2>3. CASE m \notin Candidates(near) /\ m \in near
    <3>1. record'[m] = rec[m] /\ session'[m] = ses[m]
      BY <1>1, <1>4, <2>3
    <3>2. Onward(record[m], session[m], rec[m], ses[m])
      BY <2>3 DEF Before
    <3> QED BY <1>2, <1>5, <2>3, <3>1, <3>2, OnwardAlters
  <2>4. CASE m \notin Candidates(near) /\ m \notin near
    <3>1. record'[m] = record[m] /\ session'[m] = session[m]
      BY <1>1, <1>4, <2>4 DEF Before
    <3> QED BY <1>5, <3>1, SameAlters
  <2> QED BY <2>1, <2>2, <2>3, <2>4
<1>8. record' = [m \in Char |-> record'[m]] /\ session' = [m \in Char |-> session'[m]]
  BY <1>1
<1> QED BY <1>5, <1>7, <1>8 DEF Evolves

LEMMA KillEvolves ==
    ASSUME Kept, NEW c \in Char, MobKilled(c) PROVE Evolves
<1> DEFINE graphs == AfterEvent(c, "kill")
           saved == UpdateCharacterProgression(record[c], graphs)
<1>1. InWorld(c) /\ Sound(session[c]) /\ Sound(record[c])
  BY DEF MobKilled, Kept
<1>2. /\ Becomes(session[c], graphs) /\ graphs.skill = session[c].skill
      /\ \A q \in Quest : ~HasGraph(q) => graphs.quests[q] = session[c].quests[q]
  BY <1>1, EventBecomes
<1>3. Onward(record[c], session[c], saved, saved)
  BY <1>1, <1>2, SavedProgression
<1>4. CASE session' = [session EXCEPT ![c] = graphs] /\ UNCHANGED record /\ Failing(c, FALSE)
  <2>1. torn' = torn \cup {c} /\ record' = [record EXCEPT ![c] = record[c]] /\ Sound(graphs)
    BY <1>2, <1>4 DEF Kept, Failing, Becomes
  <2> HIDE DEF graphs
  <2> QED BY <1>1, <1>4, <2>1, OneEvolves
<1>5. ASSUME NEW others \in SUBSET (Online \ {c}),
             CountCredit(others \cup {c}, [record EXCEPT ![c] = saved], [session EXCEPT ![c] = saved])
      PROVE  Evolves
  <2> DEFINE near == others \cup {c}
             rec == [record EXCEPT ![c] = saved]
             ses == [session EXCEPT ![c] = saved]
  <2>1. saved.quests = graphs.quests
    <3>1. graphs.quests = graphs.quests /\ Shape(graphs)
      BY <1>2 DEF Becomes, Sound, Sheet, Shape
    <3> HIDE DEF graphs
    <3> DEFINE w == [graphs EXCEPT !.skill = record[c].skill]
    <3>2. w = [copper |-> graphs.copper, rewards |-> graphs.rewards, again |-> graphs.again, quests |-> graphs.quests,
               learned |-> graphs.learned, skill |-> record[c].skill, rank |-> graphs.rank, ore |-> graphs.ore,
               rivets |-> graphs.rivets]
      BY <3>1 DEF Shape
    <3>3. saved = [w EXCEPT !.rank = record[c].rank]
      BY DEF UpdateCharacterProgression
    <3> HIDE DEF w, saved
    <3> QED BY <3>2, <3>3
  <2> HIDE DEF graphs, saved
  <2>2. rec[c] = saved /\ ses[c] = saved /\ \A m \in Char : m # c => rec[m] = record[m] /\ ses[m] = session[m]
    BY DEF Kept
  <2>3. rec = [m \in Char |-> rec[m]] /\ ses = [m \in Char |-> ses[m]]
    BY DEF Kept
  <2> HIDE DEF rec, ses
  <2>4. near \subseteq Online
    BY <1>1 DEF Online
  <2>5. \A m \in Char : Sound(rec[m])
    BY <1>3, <2>2 DEF Kept, Onward
  <2>6. ASSUME NEW m \in near
        PROVE  /\ Onward(record[m], session[m], rec[m], ses[m])
               /\ \A q \in Quest : ~HasGraph(q) => ses[m].quests[q] = session[m].quests[q]
    <3>1. CASE m = c
      BY <1>2, <1>3, <2>1, <2>2, <3>1
    <3>2. CASE m # c
      BY <2>2, <2>4, <2>6, <3>2 DEF Online, Kept, Onward
    <3> QED BY <3>1, <3>2
  <2>7. Before(near, rec, ses)
    BY <2>2, <2>3, <2>4, <2>5, <2>6 DEF Before
  <2>8. CountCredit(near, rec, ses)
    BY <1>5 DEF rec, ses
  <2> HIDE DEF near
  <2> QED BY <2>7, <2>8, CreditEvolves
<1>6. ASSUME NEW others \in SUBSET (Online \ {c}), CountCredit(others \cup {c}, record, session)
      PROVE  Evolves
  <2>1. others \cup {c} \subseteq Online
    BY <1>1 DEF Online
  <2>2. Before(others \cup {c}, record, session)
    BY <2>1 DEF Before, Kept, Onward, Online
  <2> QED BY <1>6, <2>2, CreditEvolves
<1> HIDE DEF graphs, saved
<1>7. \/ session' = [session EXCEPT ![c] = graphs] /\ UNCHANGED record /\ Failing(c, FALSE)
      \/ \E others \in SUBSET (Online \ {c}) :
           \/ CountCredit(others \cup {c}, [record EXCEPT ![c] = saved], [session EXCEPT ![c] = saved])
           \/ CountCredit(others \cup {c}, record, session)
  BY DEF MobKilled, graphs, saved
<1> QED BY <1>4, <1>5, <1>6, <1>7

-----------------------------------------------------------------------------
(* Coming and going *)

LEMMA EnterEvolves ==
    ASSUME Kept, NEW c \in Char, Enter(c) PROVE Evolves
<1>1. /\ session' = [session EXCEPT ![c] = LoadQuests(record[c])]
      /\ record' = record /\ torn' = torn
  BY DEF Enter
<1>2. Sound(LoadQuests(record[c])) /\ Agree(LoadQuests(record[c]), record[c])
  BY LoadedSound DEF Kept
<1>3. session'[c] = LoadQuests(record[c]) /\ \A k \in Char : k # c => session'[k] = session[k]
  BY <1>1 DEF Kept
<1>4. Alters(c)
  BY <1>1, <1>2, <1>3 DEF Alters, Kept
<1>5. \A k \in Char : k # c => Alters(k)
  BY <1>1, <1>3, SameAlters
<1>6. session' = [k \in Char |-> session'[k]]
  BY <1>1 DEF Kept
<1> QED BY <1>1, <1>4, <1>5, <1>6 DEF Evolves, Kept

LEMMA LeaveEvolves ==
    ASSUME Kept, NEW c \in Char, Leave(c) PROVE Evolves
<1>1. session' = [session EXCEPT ![c] = None] /\ record' = record /\ torn' = torn /\ InWorld(c)
  BY DEF Leave
<1>2. session'[c] = None /\ \A k \in Char : k # c => session'[k] = session[k]
  BY <1>1 DEF Kept
<1>3. Alters(c)
  BY <1>1, <1>2 DEF Alters, Kept
<1>4. \A k \in Char : k # c => Alters(k)
  BY <1>1, <1>2, SameAlters
<1>5. session' = [k \in Char |-> session'[k]]
  BY <1>1 DEF Kept
<1> QED BY <1>1, <1>3, <1>4, <1>5 DEF Evolves, Kept

-----------------------------------------------------------------------------
(* Administrators *)

\* What a mutation leaves, and the copper that it says it put in.
Faithful(c, M) ==
    \A new \in M :
        /\ Sound(new.after) /\ new.delta \in Int
        /\ \A n \in Int : Booked(record[c], n) => Booked(new.after, n + new.delta)

LEMMA CurrencyFaithful ==
    ASSUME Kept, NEW c \in Char PROVE Faithful(c, ChangeCharacterCurrency(c))
<1> DEFINE r == record[c]
<1>1. Sound(r) /\ r.copper \in Int
  BY DEF Kept, Sound, Sheet
<1>2. ASSUME NEW d \in Grants
      PROVE  LET o == [r EXCEPT !.copper = @ + d]
             IN  Sound(o) /\ \A n \in Int : Booked(r, n) => Booked(o, n + d)
  <2> DEFINE o == [r EXCEPT !.copper = @ + d]
  <2>1. d \in Int
    BY DeskAssumption DEF Grants
  <2>2. o = [copper |-> r.copper + d, rewards |-> r.rewards, again |-> r.again, quests |-> r.quests,
             learned |-> r.learned, skill |-> r.skill, rank |-> r.rank, ore |-> r.ore, rivets |-> r.rivets]
    BY <1>1 DEF Sound, Sheet
  <2> HIDE DEF o
  <2>3. /\ o.copper = r.copper + d /\ o.rewards = r.rewards /\ o.again = r.again /\ o.quests = r.quests
        /\ o.learned = r.learned /\ o.skill = r.skill /\ o.rivets = r.rivets /\ Shape(o)
    BY <2>2 DEF Shape
  <2>4. Sound(o)
    BY <1>1, <2>1, <2>3, SameQuestsSound DEF Sound, Sheet
  <2>5. ASSUME NEW n \in Int, Booked(r, n) PROVE Booked(o, n + d)
    <3>1. Price(o) = Price(r) /\ Crafts(o) = Crafts(r) /\ Price(r) \in Int
      BY <1>1, <2>3, NumbersTyped DEF Price, Crafts, Sound, Sheet
    <3>2. RewardCopper * r.rewards \in Int /\ StartCopper \in Int
      BY <1>1, NumbersTyped DEF Sound, Sheet
    <3>3. r.copper + Price(r) = StartCopper + (RewardCopper * r.rewards) + n
      BY <2>5 DEF Booked
    <3> DEFINE x == RewardCopper * r.rewards
               y == Price(r)
    <3>4. x \in Int /\ y \in Int /\ r.copper + y = StartCopper + x + n
      BY <3>1, <3>2, <3>3
    <3> HIDE DEF x, y
    <3>5. (r.copper + d) + y = StartCopper + x + (n + d)
      BY <1>1, <2>1, <3>2, <3>4
    <3>6. o.copper + Price(o) = StartCopper + (RewardCopper * o.rewards) + (n + d)
      BY <2>3, <3>1, <3>5 DEF x, y
    <3>7. IF o.skill < MaxSkill THEN o.rivets = RivetsPerCraft * Crafts(o) ELSE o.rivets >= RivetsPerCraft * Crafts(o)
      BY <2>3, <2>5, <3>1 DEF Booked
    <3> QED BY <3>6, <3>7 DEF Booked
  <2> QED BY <2>4, <2>5 DEF o
<1>3. ASSUME NEW new \in ChangeCharacterCurrency(c)
      PROVE  /\ Sound(new.after) /\ new.delta \in Int
             /\ \A n \in Int : Booked(record[c], n) => Booked(new.after, n + new.delta)
  <2>1. PICK d \in Grants : new = Left([r EXCEPT !.copper = @ + d], d)
    BY <1>3 DEF ChangeCharacterCurrency
  <2>2. new.after = [r EXCEPT !.copper = @ + d] /\ new.delta = d /\ d \in Int
    BY <2>1, DeskAssumption DEF Left, Grants
  <2> QED BY <1>2, <2>2
<1> QED BY <1>3 DEF Faithful

\* A mutation that leaves the copper, what was learned and what was made alone.
LEMMA SameGoodsFaithful ==
    ASSUME NEW c \in Char, NEW o, Sound(o), Agree(o, record[c])
    PROVE  Faithful(c, {Left(o, 0)})
<1>1. ASSUME NEW n \in Int, Booked(record[c], n) PROVE Booked(o, n + 0)
  <2>1. n + 0 = n
    BY <1>1
  <2> QED BY <1>1, <2>1, AgreeBooks
<1> QED BY <1>1 DEF Faithful, Left

LEMMA ItemsFaithful ==
    ASSUME Kept, NEW c \in Char
    PROVE  Faithful(c, GrantCharacterItem(c)) /\ Faithful(c, RemoveCharacterItem(c))
<1> DEFINE r == record[c]
<1>1. Sound(r)
  BY DEF Kept
<1>2. ASSUME NEW k PROVE Faithful(c, {Left([r EXCEPT !.ore = k], 0)})
  <2> DEFINE o == [r EXCEPT !.ore = k]
  <2>1. o = [copper |-> r.copper, rewards |-> r.rewards, again |-> r.again, quests |-> r.quests,
             learned |-> r.learned, skill |-> r.skill, rank |-> r.rank, ore |-> k, rivets |-> r.rivets]
    BY <1>1 DEF Sound, Sheet
  <2> HIDE DEF o
  <2>2. Agree(o, r) /\ o.again = r.again /\ o.quests = r.quests /\ Shape(o)
    BY <2>1 DEF Agree, Shape
  <2>3. Sound(o)
    BY <1>1, <2>2, SameQuestsSound DEF Agree, Sound, Sheet
  <2>4. Faithful(c, {Left(o, 0)})
    BY <2>2, <2>3, SameGoodsFaithful
  <2> QED BY <2>4 DEF o
<1>3. Faithful(c, GrantCharacterItem(c))
  BY <1>2 DEF GrantCharacterItem
<1>4. Faithful(c, {})
  BY DEF Faithful
<1>5. Faithful(c, RemoveCharacterItem(c))
  BY <1>2, <1>4 DEF RemoveCharacterItem
<1> QED BY <1>3, <1>5

LEMMA RepairFaithful ==
    ASSUME Kept, NEW c \in Char PROVE Faithful(c, NormalizeCharacterForAdmin(c))
  BY AgreeSame, SameGoodsFaithful DEF Kept, NormalizeCharacterForAdmin

LEMMA ResetFaithful ==
    ASSUME Kept, NEW c \in Char PROVE Faithful(c, ResetCharacterQuest(c))
<1> DEFINE r == record[c]
<1>1. Sound(r)
  BY DEF Kept
<1>2. ASSUME NEW q \in Nameable
      PROVE  LET o == [r EXCEPT !.quests[q] = NewProgress, !.again = @ + (IF WasRewarded(c, q) THEN 1 ELSE 0)]
             IN  Sound(o) /\ Agree(o, r)
  <2> DEFINE k == IF WasRewarded(c, q) THEN 1 ELSE 0
             f == [r.quests EXCEPT ![q] = NewProgress]
             w == [r EXCEPT !.quests = f]
             o == [r EXCEPT !.quests[q] = NewProgress, !.again = @ + k]
  <2>1. q \in Quest /\ ~HasGraph(q)
    BY DEF Nameable, HasGraph
  <2>2. r.quests = [j \in Quest |-> r.quests[j]]
    BY <1>1 DEF Sound, Sheet
  <2>3. f = [j \in Quest |-> f[j]] /\ f[q] = NewProgress /\ \A j \in Quest : j # q => f[j] = r.quests[j]
    BY <2>1, <2>2
  <2>4. w = [copper |-> r.copper, rewards |-> r.rewards, again |-> r.again, quests |-> f, learned |-> r.learned,
             skill |-> r.skill, rank |-> r.rank, ore |-> r.ore, rivets |-> r.rivets]
    BY <1>1 DEF Sound, Sheet
  <2>5. o = [w EXCEPT !.again = r.again + k]
    OBVIOUS
  <2> HIDE DEF f, w
  <2>6. o = [copper |-> r.copper, rewards |-> r.rewards, again |-> r.again + k, quests |-> f, learned |-> r.learned,
             skill |-> r.skill, rank |-> r.rank, ore |-> r.ore, rivets |-> r.rivets]
    BY <2>4, <2>5
  <2> HIDE DEF o
  <2>7. /\ o.copper = r.copper /\ o.rewards = r.rewards /\ o.again = r.again + k /\ o.quests = f
        /\ o.learned = r.learned /\ o.skill = r.skill /\ o.rivets = r.rivets /\ o.rank = r.rank /\ o.ore = r.ore
    BY <2>6
  <2>8. k \in 0..1 /\ r.again \in Nat /\ r.rewards \in Nat
    BY <1>1 DEF Sound, Sheet
  <2>9. \A j \in Quest : Known(f[j]) /\ Fitting(j, f[j])
    <3>1. Known(NewProgress) /\ Fitting(q, NewProgress)
      BY <2>1 DEF Known, NewProgress, Fitting, QuestStates
    <3> QED BY <1>1, <2>3, <3>1 DEF Sound, Sheet, Orderly
  <2>10. Sheet(o) /\ Orderly(o)
    BY <1>1, <2>3, <2>6, <2>7, <2>8, <2>9 DEF Sound, Sheet, Orderly
  <2>11. q \notin Rewarded(o)
    BY <2>3, <2>7 DEF Rewarded, NewProgress
  <2>12. ASSUME NEW j \in Quest, j # q PROVE j \in Rewarded(o) <=> j \in Rewarded(r)
    BY <2>3, <2>7, <2>12 DEF Rewarded
  <2>13. q \in Rewarded(r) <=> WasRewarded(c, q)
    BY <2>1 DEF Rewarded, WasRewarded
  <2>14. IsFiniteSet(Rewarded(r)) /\ IsFiniteSet(Rewarded(o))
    BY NumbersTyped, FS_Subset DEF Rewarded
  <2>15. Cardinality(Rewarded(r)) = Cardinality(Rewarded(o)) + k
    <3>1. CASE WasRewarded(c, q)
      <4>1. Rewarded(r) = Rewarded(o) \cup {q}
        BY <2>11, <2>12, <2>13, <3>1 DEF Rewarded
      <4> QED BY <2>11, <2>14, <3>1, <4>1, FS_AddElement
    <3>2. CASE ~WasRewarded(c, q)
      <4>1. Rewarded(r) = Rewarded(o)
        BY <2>11, <2>12, <2>13, <3>2 DEF Rewarded
      <4>2. Cardinality(Rewarded(o)) \in Nat
        BY <2>14, FS_CardinalityType
      <4> QED BY <3>2, <4>1, <4>2
    <3> QED BY <3>1, <3>2
  <2>16. "fullBag" \notin Races => r.rewards = Cardinality(Rewarded(r)) + r.again
    BY <1>1 DEF Sound, Fair
  <2>17. Cardinality(Rewarded(o)) \in Nat /\ k \in Int
    BY <2>14, FS_CardinalityType
  <2> HIDE DEF k
  <2>18. Fair(o)
    BY <2>7, <2>8, <2>15, <2>16, <2>17 DEF Fair
  <2>19. Sound(o) /\ Agree(o, r)
    BY <2>7, <2>10, <2>18 DEF Sound, Agree
  <2> QED BY <2>19 DEF o, k
<1>3. ASSUME NEW new \in ResetCharacterQuest(c)
      PROVE  /\ Sound(new.after) /\ new.delta \in Int
             /\ \A n \in Int : Booked(record[c], n) => Booked(new.after, n + new.delta)
  <2>1. PICK o : Sound(o) /\ Agree(o, r) /\ new = Left(o, 0)
    BY <1>2, <1>3 DEF ResetCharacterQuest
  <2> QED BY <2>1, SameGoodsFaithful DEF Faithful
<1> QED BY <1>3 DEF Faithful

LEMMA ObjectiveFaithful ==
    ASSUME Kept, NEW c \in Char PROVE Faithful(c, CompleteCharacterQuestObjective(c))
<1> DEFINE r == record[c]
<1>1. Sound(r)
  BY DEF Kept
<1>2. ASSUME NEW q \in Nameable, ~WasRewarded(c, q)
      PROVE  LET o == [r EXCEPT !.quests[q] = [@ EXCEPT !.state = "completed", !.count = TargetCount]]
             IN  Sound(o) /\ Agree(o, r)
  <2> DEFINE p == Ends(r.quests[q], "completed", TargetCount)
  <2>1. q \in Quest /\ ~HasGraph(q) /\ r.quests[q].state # "reward_granted" /\ Known(r.quests[q])
    BY <1>1, <1>2 DEF Nameable, HasGraph, WasRewarded, Sound, Sheet
  <2>2. p = [state |-> "completed", count |-> TargetCount, done |-> r.quests[q].done]
    BY <2>1, TwoOfProgress DEF Known
  <2>3. Moves(q, r.quests[q], p)
    BY <2>1, <2>2, NumbersTyped DEF Moves, Known, Fitting, QuestStates
  <2>4. [r EXCEPT !.quests[q] = [@ EXCEPT !.state = "completed", !.count = TargetCount]] = With(r, q, p)
    BY DEF With, Ends
  <2> HIDE DEF p
  <2> DEFINE f == [r.quests EXCEPT ![q] = p]
  <2>5. r.quests = [j \in Quest |-> r.quests[j]]
    BY <1>1 DEF Sound, Sheet
  <2>6. f = [j \in Quest |-> f[j]]
    BY <2>5
  <2>7. ASSUME NEW j \in Quest PROVE Moves(j, r.quests[j], f[j])
    BY <1>1, <2>3, <2>5 DEF Moves, Sound, Sheet, Orderly
  <2>8. With(r, q, p) = [r EXCEPT !.quests = f]
    BY DEF With
  <2> HIDE DEF f
  <2>9. Sound(With(r, q, p))
    BY <1>1, <2>6, <2>7, <2>8, MovedSound
  <2>10. Agree(With(r, q, p), r)
    BY <1>1, <2>8 DEF Agree, Sound, Sheet
  <2> QED BY <2>4, <2>9, <2>10
<1>3. ASSUME NEW new \in CompleteCharacterQuestObjective(c)
      PROVE  /\ Sound(new.after) /\ new.delta \in Int
             /\ \A n \in Int : Booked(record[c], n) => Booked(new.after, n + new.delta)
  <2>1. PICK o : Sound(o) /\ Agree(o, r) /\ new = Left(o, 0)
    BY <1>2, <1>3 DEF CompleteCharacterQuestObjective
  <2> QED BY <2>1, SameGoodsFaithful DEF Faithful
<1> QED BY <1>3 DEF Faithful

-----------------------------------------------------------------------------
(* The invariants of the whole.  The request under way has a sound record; if no *)
(* record changes meanwhile, it is the one in the store.                         *)

Asked ==
    /\ request.char # None => request.char \in Char /\ request.delta \in Int /\ Sound(request.after)
    /\ trail = [c \in Char |-> trail[c]] /\ \A c \in Char : trail[c] \in Int
    /\ scene \in {"bag", "bar"} => ~Requested

Calm == {"elsewhere", "overtaken", "unaudited", "fullBag"} \cap Races = {}

\* The books of the characters whose saves went well.
BooksOf(c) ==
    c \notin torn =>
      /\ Booked(record[c], trail[c] + UnderWayFor(c))
      /\ InWorld(c) /\ ~(request.char = c /\ request.live) => Agree(session[c], record[c])
Books == Calm => (Requested => request.after = record[request.char]) /\ \A c \in Char : BooksOf(c)

IInv == Kept /\ Asked /\ Books

LEMMA InitInv ==
    ASSUME Init PROVE IInv
<1> DEFINE r == [copper |-> StartCopper, rewards |-> 0, again |-> 0, quests |-> [q \in Quest |-> NewProgress],
                 learned |-> FALSE, skill |-> 0, rank |-> 0, ore |-> 0, rivets |-> 0]
<1>1. /\ r.copper = StartCopper /\ r.rewards = 0 /\ r.again = 0 /\ r.quests = [q \in Quest |-> NewProgress]
      /\ ~r.learned /\ r.skill = 0 /\ r.rivets = 0 /\ Shape(r)
  BY DEF Shape
<1>2. /\ record = [c \in Char |-> r] /\ session = [c \in Char |-> None] /\ torn = {}
      /\ request = NoRequest /\ trail = [c \in Char |-> 0]
  BY DEF Init, CareersInit, DeskInit
<1>3. r.learned \in BOOLEAN
  OBVIOUS
<1> HIDE DEF r
<1>4. Sound(r)
  <2>1. Known(NewProgress) /\ \A q \in Quest : Fitting(q, NewProgress)
    BY DEF Known, NewProgress, Fitting, QuestStates
  <2>2. Sheet(r) /\ Orderly(r)
    BY <1>1, <1>3, <2>1, NumbersTyped DEF Sheet, Shape, Orderly
  <2>3. Rewarded(r) = {}
    BY <1>1 DEF Rewarded, NewProgress
  <2>4. Fair(r)
    BY <1>1, <2>3, FS_EmptySet DEF Fair
  <2> QED BY <2>2, <2>4 DEF Sound
<1>5. Booked(r, 0)
  <2>1. Price(r) = 0 /\ Crafts(r) = 0
    BY <1>1 DEF Price, Crafts
  <2>2. RewardCopper * 0 = 0 /\ RivetsPerCraft * 0 = 0
    BY NumbersTyped
  <2> QED BY <1>1, <2>1, <2>2, NumbersTyped DEF Booked
<1>6. Kept
  BY <1>2, <1>4 DEF Kept, InWorld
<1>7. request.char = None
  BY <1>2 DEF NoRequest
<1>8. Asked
  BY <1>2, <1>7 DEF Asked, Requested
<1>9. ASSUME NEW c \in Char PROVE BooksOf(c)
  <2>1. UnderWayFor(c) = 0 /\ trail[c] = 0 /\ record[c] = r /\ ~InWorld(c)
    BY <1>2, <1>7, NumbersTyped DEF UnderWayFor, InWorld
  <2>2. trail[c] + UnderWayFor(c) = 0
    BY <2>1
  <2> QED BY <1>5, <2>1, <2>2 DEF BooksOf
<1> QED BY <1>6, <1>7, <1>8, <1>9 DEF IInv, Books, Requested

-----------------------------------------------------------------------------
(* The steps of handlers, with nothing said of the desk *)

LEMMA EvolvedKept ==
    ASSUME Evolves PROVE Kept'
  BY DEF Evolves, Alters, Kept, InWorld

\* No character that a request is under way for is touched.
LEMMA UndisturbedBooks ==
    ASSUME IInv, Evolves, UNCHANGED desk, UNCHANGED scene, Undisturbed
    PROVE  IInv'
<1>1. Kept'
  BY EvolvedKept
<1>2. Asked'
  BY DEF IInv, Asked, desk, Requested
<1>3. ASSUME Calm PROVE Requested' => request'.after = record'[request'.char]
  BY <1>3 DEF IInv, Books, Calm, Undisturbed, desk, Requested
<1>4. ASSUME Calm, NEW c \in Char PROVE BooksOf(c)'
  <2> DEFINE n == trail[c] + UnderWayFor(c)
  <2>1. n \in Int /\ (trail[c] + UnderWayFor(c))' = n
    BY NumbersTyped DEF IInv, Asked, UnderWayFor, desk
  <2>2. BooksOf(c) /\ Alters(c) /\ "fullBag" \notin Races
    BY <1>4 DEF IInv, Books, Evolves, Calm
  <2> HIDE DEF n
  <2>3. c \notin torn' => c \notin torn
    BY <2>2 DEF Alters
  <2>4. c \notin torn => Booked(record[c], n)
    BY <2>2 DEF BooksOf, n
  <2>5. CASE request.char = c
    <3>1. record'[c] = record[c] /\ session'[c] = session[c]
      BY <1>4, <2>5, NumbersTyped DEF Undisturbed, Calm, Requested
    <3>2. request' = request
      BY DEF desk
    <3> QED BY <2>1, <2>2, <2>3, <2>4, <3>1, <3>2 DEF BooksOf, InWorld
  <2>6. CASE request.char # c
    <3>1. c \notin torn => (InWorld(c) => Agree(session[c], record[c]))
      BY <2>2, <2>6 DEF BooksOf
    <3>2. c \notin torn' => Booked(record'[c], n) /\ (session'[c] # None => Agree(session'[c], record'[c]))
      BY <2>1, <2>2, <2>3, <2>4, <3>1 DEF Alters
    <3> QED BY <2>1, <3>2 DEF BooksOf, InWorld
  <2> QED BY <2>5, <2>6
<1> QED BY <1>1, <1>2, <1>3, <1>4 DEF IInv, Books, Calm

\* With nobody at the desk no step disturbs anything.
LEMMA AloneBooks ==
    ASSUME IInv, Evolves, UNCHANGED desk, UNCHANGED scene, ~Requested
    PROVE  IInv'
  BY UndisturbedBooks DEF Undisturbed

LEMMA EnterBooks ==
    ASSUME IInv, NEW c \in Char, Enter(c), UNCHANGED desk, UNCHANGED scene
    PROVE  IInv'
<1>1. Evolves /\ record' = record /\ torn' = torn /\ session' = [session EXCEPT ![c] = LoadQuests(record[c])]
  BY EnterEvolves DEF IInv, Enter
<1>2. Kept' /\ Asked'
  BY <1>1, EvolvedKept DEF IInv, Asked, desk, Requested
<1>3. session'[c] = LoadQuests(record[c]) /\ \A k \in Char : k # c => session'[k] = session[k]
  BY <1>1 DEF IInv, Kept
<1>4. Agree(session'[c], record'[c])
  BY <1>1, <1>3, LoadedSound DEF IInv, Kept
<1>5. ASSUME Calm, NEW k \in Char PROVE BooksOf(k)'
  <2>1. BooksOf(k)
    BY <1>5 DEF IInv, Books
  <2>2. UnderWayFor(k)' = UnderWayFor(k) /\ trail' = trail /\ request' = request
    BY DEF UnderWayFor, desk
  <2> QED BY <1>1, <1>3, <1>4, <2>1, <2>2 DEF BooksOf, InWorld
<1> QED BY <1>1, <1>2, <1>5 DEF IInv, Books, desk, Calm, Requested

LEMMA LeaveBooks ==
    ASSUME IInv, NEW c \in Char, Leave(c), UNCHANGED <<request, trail>>, UNCHANGED scene
    PROVE  IInv'
<1>1. Evolves /\ record' = record /\ torn' = torn /\ session' = [session EXCEPT ![c] = None]
  BY LeaveEvolves DEF IInv, Leave
<1>2. Kept' /\ Asked'
  BY <1>1, EvolvedKept DEF IInv, Asked, Requested
<1>3. session'[c] = None /\ \A k \in Char : k # c => session'[k] = session[k]
  BY <1>1 DEF IInv, Kept
<1>4. ASSUME Calm, NEW k \in Char PROVE BooksOf(k)'
  <2>1. BooksOf(k)
    BY <1>4 DEF IInv, Books
  <2>2. UnderWayFor(k)' = UnderWayFor(k)
    BY DEF UnderWayFor
  <2> QED BY <1>1, <1>3, <2>1, <2>2 DEF BooksOf, InWorld
<1> QED BY <1>1, <1>2, <1>4 DEF IInv, Books, Calm, Requested

-----------------------------------------------------------------------------
(* The two halves of a request *)

LEMMA BeginBooks ==
    ASSUME IInv, NEW c \in Char, NEW M, Faithful(c, M), NEW live \in BOOLEAN, NEW logout \in BOOLEAN,
           Begin(c, M, live, logout), ~live /\ Calm => ~InWorld(c),
           scene \in {"quests", "growth"}, UNCHANGED scene
    PROVE  IInv'
<1>1. PICK new \in M :
        /\ record' = [record EXCEPT ![c] = new.after]
        /\ request' = [char |-> c, delta |-> new.delta, after |-> new.after, live |-> live, logout |-> logout]
  BY DEF Begin
<1>2. ~Requested /\ UNCHANGED <<session, torn, trail>>
  BY DEF Begin
<1>3. /\ Sound(new.after) /\ new.delta \in Int
      /\ \A n \in Int : Booked(record[c], n) => Booked(new.after, n + new.delta)
  BY <1>1 DEF Faithful
<1>4. record'[c] = new.after /\ \A k \in Char : k # c => record'[k] = record[k]
  BY <1>1 DEF IInv, Kept
<1>5. Kept'
  BY <1>1, <1>2, <1>3, <1>4 DEF IInv, Kept, InWorld
<1>6. /\ request'.char = c /\ request'.delta = new.delta /\ request'.after = new.after /\ request'.live = live
      /\ c # None
  BY <1>1, NumbersTyped
<1>7. Asked'
  BY <1>2, <1>3, <1>6 DEF IInv, Asked, Requested
<1>8. ASSUME Calm, NEW k \in Char PROVE BooksOf(k)'
  <2>1. BooksOf(k) /\ trail[k] \in Int
    BY <1>8 DEF IInv, Books, Asked
  <2>2. UnderWayFor(k) = 0
    BY <1>2, NumbersTyped DEF UnderWayFor, Requested
  <2>3. CASE k = c
    <3>1. UnderWayFor(k)' = new.delta /\ trail[k] + UnderWayFor(k) = trail[k] /\ trail' = trail
      BY <1>2, <1>6, <2>1, <2>2, <2>3 DEF UnderWayFor
    <3>2. k \notin torn => Booked(record'[k], trail[k] + new.delta)
      BY <1>3, <1>4, <2>1, <2>3, <3>1 DEF BooksOf
    <3>3. ~(InWorld(k)' /\ ~(request'.char = k /\ request'.live))
      BY <1>2, <1>6, <1>8, <2>3 DEF InWorld
    <3> QED BY <1>2, <3>1, <3>2, <3>3 DEF BooksOf
  <2>4. CASE k # c
    <3>1. UnderWayFor(k)' = 0 /\ record'[k] = record[k] /\ session' = session /\ trail' = trail /\ torn' = torn
      BY <1>2, <1>4, <1>6, <2>4 DEF UnderWayFor
    <3>2. request.char # k
      BY <1>2, NumbersTyped DEF Requested
    <3> QED BY <2>1, <2>2, <2>4, <3>1, <3>2 DEF BooksOf, InWorld
  <2> QED BY <2>3, <2>4
<1> QED BY <1>4, <1>5, <1>6, <1>7, <1>8 DEF IInv, Books, Calm

LEMMA FinishBooks ==
    ASSUME IInv, FinishRequest, UNCHANGED scene
    PROVE  IInv'
<1> DEFINE c == request.char
<1>1. /\ c \in Char /\ request.delta \in Int /\ Sound(request.after) /\ Requested
      /\ request' = NoRequest /\ record' = record /\ torn' = torn
  BY DEF IInv, Asked, FinishRequest, FinishInWorld, FinishInAdminService, Done, Requested
<1>2. Calm => trail' = [trail EXCEPT ![c] = @ + request.delta]
  BY DEF FinishRequest, FinishInWorld, FinishInAdminService, Done, Audited, Calm
<1>3. trail' = [trail EXCEPT ![c] = @ + request.delta] \/ trail' = trail
  BY DEF FinishRequest, FinishInWorld, FinishInAdminService, Done, Audited
<1>4. /\ session' = [session EXCEPT ![c] = session'[c]]
      /\ \/ ~request.live /\ session' = session
         \/ request.live /\ session'[c] = None
         \/ request.live /\ session'[c] = LoadQuests(request.after)
  BY <1>1 DEF FinishRequest, FinishInWorld, FinishInAdminService, ApplyToSession, InWorld, IInv, Kept
<1>5. \A k \in Char : k # c => session'[k] = session[k]
  BY <1>4 DEF IInv, Kept
<1>6. request'.char = None
  BY <1>1 DEF NoRequest
<1>7. Kept'
  <2>1. session'[c] # None => Sound(session'[c])
    BY <1>1, <1>4, LoadedSound DEF IInv, Kept, InWorld
  <2>2. session' = [k \in Char |-> session'[k]]
    BY <1>4 DEF IInv, Kept
  <2> QED BY <1>1, <1>5, <2>1, <2>2 DEF IInv, Kept, InWorld
<1>8. Asked'
  BY <1>1, <1>3, <1>6 DEF IInv, Asked, Requested
<1>9. ASSUME Calm, NEW k \in Char PROVE BooksOf(k)'
  <2>1. BooksOf(k) /\ trail[k] \in Int /\ request.after = record[c]
    BY <1>1, <1>9 DEF IInv, Books, Asked
  <2>2. UnderWayFor(k)' = 0
    BY <1>6, NumbersTyped DEF UnderWayFor
  <2>3. (trail[k] + UnderWayFor(k))' = trail[k] + UnderWayFor(k)
    <3>1. CASE k = c
      <4>1. trail'[k] = trail[k] + request.delta /\ UnderWayFor(k) = request.delta
        BY <1>2, <1>9, <3>1 DEF UnderWayFor, IInv, Asked
      <4> QED BY <1>1, <2>1, <2>2, <4>1
    <3>2. CASE k # c
      <4>1. trail'[k] = trail[k] /\ UnderWayFor(k) = 0
        BY <1>2, <1>9, <3>2 DEF UnderWayFor, IInv, Asked
      <4> QED BY <2>2, <4>1
    <3> QED BY <3>1, <3>2
  <2>4. k \notin torn => Booked(record[k], trail[k] + UnderWayFor(k))
    BY <2>1 DEF BooksOf
  <2>5. k \notin torn => (session'[k] # None => Agree(session'[k], record[k]))
    <3>1. CASE k # c \/ ~request.live
      BY <1>4, <1>5, <2>1, <3>1 DEF BooksOf, InWorld
    <3>2. CASE k = c /\ request.live
      BY <1>1, <1>4, <2>1, <3>2, LoadedSound
    <3> QED BY <3>1, <3>2
  <2> QED BY <1>1, <2>3, <2>4, <2>5 DEF BooksOf, InWorld
<1> QED BY <1>6, <1>7, <1>8, <1>9 DEF IInv, Books, Calm, Requested

LEMMA ServiceBooks ==
    ASSUME IInv, NEW c \in Char, NEW M, Faithful(c, M), AdminService(c, M),
           scene \in {"quests", "growth"}, UNCHANGED scene
    PROVE  IInv'
<1>1. Begin(c, M, FALSE, FALSE) /\ (Calm => ~InWorld(c))
  BY DEF AdminService, Calm
<1> QED BY <1>1, BeginBooks

LEMMA WorldBooks ==
    ASSUME IInv, NEW c \in Char, NEW M, Faithful(c, M), NEW logout \in BOOLEAN, Begin(c, M, TRUE, logout),
           scene \in {"quests", "growth"}, UNCHANGED scene
    PROVE  IInv'
  BY BeginBooks

LEMMA RequestsBooks ==
    ASSUME IInv, Requests, scene \in {"quests", "growth"}, UNCHANGED scene
    PROVE  IInv'
<1> USE DEF IInv
<1>1. CASE FinishRequest
  BY <1>1, FinishBooks
<1>2. ASSUME NEW c \in Char, InvalidateSession(c) PROVE IInv'
  BY <1>2, LeaveBooks DEF InvalidateSession
<1>3. ASSUME NEW c \in Char, QuestRequests(c) PROVE IInv'
  <2>1. CASE QuestsReset(c)
    BY <2>1, ResetFaithful, ServiceBooks DEF QuestsReset
  <2>2. CASE QuestsCompleteObjective(c)
    BY <2>2, ObjectiveFaithful, ServiceBooks DEF QuestsCompleteObjective
  <2>3. CASE Repair(c)
    BY <2>3, RepairFaithful, ServiceBooks DEF Repair
  <2>4. CASE HandleAdminRepair(c)
    BY <2>4, RepairFaithful, WorldBooks DEF HandleAdminRepair
  <2> QED BY <1>3, <2>1, <2>2, <2>3, <2>4 DEF QuestRequests
<1>4. ASSUME NEW c \in Char, GoodsRequests(c) PROVE IInv'
  <2>1. CASE ItemsGrant(c)
    BY <2>1, ItemsFaithful, ServiceBooks DEF ItemsGrant
  <2>2. CASE ItemsRemove(c)
    BY <2>2, ItemsFaithful, ServiceBooks DEF ItemsRemove
  <2>3. CASE HandleCurrencyChange(c)
    BY <2>3, CurrencyFaithful, ServiceBooks DEF HandleCurrencyChange
  <2>4. CASE HandleAdminItemChange(c)
    <3>1. Faithful(c, GrantCharacterItem(c) \cup RemoveCharacterItem(c))
      BY ItemsFaithful DEF Faithful
    <3> QED BY <2>4, <3>1, WorldBooks DEF HandleAdminItemChange
  <2>5. CASE HandleAdminCurrencyChange(c)
    BY <2>5, CurrencyFaithful, WorldBooks DEF HandleAdminCurrencyChange
  <2> QED BY <1>4, <2>1, <2>2, <2>3, <2>4, <2>5 DEF GoodsRequests
<1> QED BY <1>1, <1>2, <1>3, <1>4, LearnersAssumption DEF Requests

LEMMA GrowthEvolves ==
    ASSUME Kept, GrowthNext PROVE Evolves
<1>1. CASE NodeRespawns
  <2>1. record' = record /\ session' = session /\ torn' = torn
    BY <1>1 DEF NodeRespawns, careers
  <2>2. \A c \in Char : Alters(c)
    BY <2>1, SameAlters
  <2> QED BY <2>1, <2>2 DEF Evolves, Kept
<1>2. ASSUME NEW c \in Char, HandleTrainerLearn(c) \/ HandleProfessionLearn(c) \/ HandleGather(c)
                             \/ HandleCraft(c) \/ HandleTalentSelect(c)
      PROVE  Evolves
  BY <1>2, LearnAbilityEvolves, LearnProfessionEvolves, GatherEvolves, CraftEvolves, TalentEvolves
<1> QED BY <1>1, <1>2 DEF GrowthNext

LEMMA QuestsNextEvolves ==
    ASSUME Kept, QuestsNext PROVE Evolves
  BY KillEvolves, ItemEvolves, QuestEvolves DEF QuestsNext

\* What a character carries is not part of its record here; a save of it may fail.
LEMMA CarriedEvolves ==
    ASSUME Kept, NEW c \in Char, BagNext(c) \/ BarNext(c) PROVE Evolves
<1>1. ASSUME NEW g, NEW h, Stored(c, g, h) PROVE record' = record /\ session' = session /\ torn' = torn
  BY <1>1 DEF Stored
<1>2. ASSUME NEW h, PersistGear(c, h)
      PROVE  record' = record /\ session' = session /\ torn' \in {torn, torn \cup {c}}
  BY <1>2 DEF PersistGear, Failing
<1>3. record' = record /\ session' = session /\ torn' \in {torn, torn \cup {c}}
  <2>1. CASE HandleInventoryMove(c)
    BY <2>1, <1>1 DEF HandleInventoryMove, MoveInventorySlot, UpdateCharacterInventory
  <2>2. CASE HandleInventoryEquip(c)
    BY <2>2, <1>2 DEF HandleInventoryEquip, EquipInventorySlot
  <2>3. CASE HandleInventoryUnequip(c)
    BY <2>3, <1>2 DEF HandleInventoryUnequip, UnequipEquipmentSlot
  <2>4. CASE HandleHousingStorageDeposit(c)
    BY <2>4, <1>1 DEF HandleHousingStorageDeposit, DepositHousingStorage, UpdateCharacterInventoryAndHousingStorage
  <2>5. CASE HandleHousingStorageWithdraw(c)
    BY <2>5, <1>1 DEF HandleHousingStorageWithdraw, WithdrawHousingStorage, UpdateCharacterInventoryAndHousingStorage
  <2>6. CASE HandleHousingStorageMove(c)
    BY <2>6, <1>1 DEF HandleHousingStorageMove, MoveHousingStorage, UpdateHousingStorage
  <2>7. CASE HandleActionBarAssign(c)
    BY <2>7, <1>1 DEF HandleActionBarAssign, AssignActionBarSlot, UpdateCharacterActionBarSlots
  <2>8. CASE HandleActionBarClear(c)
    BY <2>8, <1>1 DEF HandleActionBarClear, ClearActionBarSlot, UpdateCharacterActionBarSlots
  <2>9. CASE HandleActionBarMove(c)
    BY <2>9, <1>1 DEF HandleActionBarMove, MoveActionBarSlot, UpdateCharacterActionBarSlots
  <2> QED BY <2>1, <2>2, <2>3, <2>4, <2>5, <2>6, <2>7, <2>8, <2>9 DEF BagNext, BarNext
<1>4. torn \subseteq torn' /\ torn' \subseteq Char
  BY <1>3 DEF Kept
<1>5. \A k \in Char : Alters(k)
  BY <1>3, <1>4, SameAlters
<1> QED BY <1>3, <1>4, <1>5 DEF Evolves, Kept

LEMMA CareeredBooks ==
    ASSUME IInv, Careered, UNCHANGED scene PROVE IInv'
<1>1. ASSUME Evolves, UNCHANGED desk, Undisturbed PROVE IInv'
  BY <1>1, UndisturbedBooks
<1>2. CASE /\ QuestsNext \/ \E c \in Char : HandleTrainerLearn(c) \/ HandleProfessionLearn(c)
           /\ UNCHANGED desk /\ Undisturbed
  BY <1>1, <1>2, QuestsNextEvolves, LearnAbilityEvolves, LearnProfessionEvolves DEF IInv
<1>3. CASE GrowthNext /\ UNCHANGED desk /\ Undisturbed
  BY <1>1, <1>3, GrowthEvolves DEF IInv
<1>4. CASE scene \in {"quests", "growth"} /\ Requests
  BY <1>4, RequestsBooks
<1>5. CASE (\E c \in Cast : Enter(c) \/ Leave(c)) /\ UNCHANGED desk
  <2>1. PICK c \in Char : Enter(c) \/ Leave(c)
    BY <1>5, LearnersAssumption DEF Cast
  <2> QED BY <1>5, <2>1, EnterBooks, LeaveBooks DEF desk
<1> QED BY <1>2, <1>3, <1>4, <1>5, LearnersAssumption DEF Careered

LEMMA CarriedBooks ==
    ASSUME IInv, Carried, UNCHANGED desk, UNCHANGED scene PROVE IInv'
<1>1. ~Requested
  BY DEF IInv, Asked, Carried
<1>2. PICK c \in Char : BagNext(c) \/ BarNext(c) \/ HandleTrainerLearn(c) \/ Enter(c) \/ Leave(c)
  BY LearnersAssumption DEF Carried
<1>3. Evolves
  BY <1>2, CarriedEvolves, LearnAbilityEvolves, EnterEvolves, LeaveEvolves DEF IInv
<1> QED BY <1>1, <1>3, AloneBooks

LEMMA NextInv ==
    ASSUME IInv, [Next]_vars PROVE IInv'
<1>1. CASE UNCHANGED vars
  <2>1. UNCHANGED <<record, session, torn, request, trail, scene>>
    BY <1>1 DEF vars
  <2>2. Kept' /\ Asked'
    BY <2>1 DEF IInv, Kept, Asked, InWorld, Requested
  <2>3. \A c \in Char : UnderWayFor(c)' = UnderWayFor(c)
    BY <2>1 DEF UnderWayFor
  <2>4. ASSUME NEW c \in Char, BooksOf(c) PROVE BooksOf(c)'
    BY <2>1, <2>3, <2>4 DEF BooksOf, InWorld
  <2> QED BY <2>1, <2>2, <2>4 DEF IInv, Books, Calm, Requested
<1>2. CASE Next
  BY <1>2, CareeredBooks, CarriedBooks DEF Next
<1> QED BY <1>1, <1>2

LEMMA SpecInv == Spec => []IInv
<1>1. Init => IInv
  BY InitInv
<1>2. IInv /\ [Next]_vars => IInv'
  BY NextInv
<1> QED BY <1>1, <1>2, PTL DEF Spec

-----------------------------------------------------------------------------
(* What the store has paid a character in experience is what the quests it shows as *)
(* rewarded are worth, and those an administrator reset, whatever saves fail, whoever *)
(* changes the record and however requests cross, unless a reward's items find no     *)
(* room in the bag (quests.go grantQuestRewardLocked).                                *)
THEOREM RewardsAlwaysAddUp == ASSUME "fullBag" \notin Races PROVE Spec => []RewardsAddUp
<1>1. IInv => RewardsAddUp
  BY DEF IInv, Kept, Sound, Fair, RewardsAddUp
<1> QED BY <1>1, SpecInv, PTL

(* If administrators leave alone who is in the world, no record changes while a request  *)
(* for it is under way, every change is audited and a reward's items always find room,   *)
(* then the copper and the rivets in the store are those that rewards, administrators    *)
(* and lessons account for, however sessions come, go and write back what they hold      *)
(* (admin_http.go handleAdminCurrencyChange, file_store.go UpdateCharacterEconomy,       *)
(* -Professions).                                                                        *)
THEOREM BooksAlwaysAddUp ==
    ASSUME {"elsewhere", "overtaken", "unaudited", "fullBag"} \cap Races = {} PROVE Spec => []BooksAddUp
<1>1. IInv => BooksAddUp
  <2> SUFFICES ASSUME IInv, NEW c \in Char \ torn
               PROVE  /\ record[c].copper + Price(record[c])
                           = StartCopper + (RewardCopper * record[c].rewards) + trail[c] + UnderWayFor(c)
                      /\ IF record[c].skill < MaxSkill
                         THEN record[c].rivets = RivetsPerCraft * Crafts(record[c])
                         ELSE record[c].rivets >= RivetsPerCraft * Crafts(record[c])
    BY DEF BooksAddUp
  <2>1. Booked(record[c], trail[c] + UnderWayFor(c))
    BY DEF IInv, Books, BooksOf, Calm
  <2> DEFINE x == RewardCopper * record[c].rewards
  <2>2. x \in Int /\ StartCopper \in Int /\ trail[c] \in Int /\ UnderWayFor(c) \in Int
    <3>1. record[c].rewards \in Nat /\ trail[c] \in Int
      BY DEF IInv, Kept, Asked, Sound, Sheet
    <3>2. UnderWayFor(c) \in Int
      BY NumbersTyped DEF IInv, Asked, UnderWayFor
    <3> QED BY <3>1, <3>2, NumbersTyped
  <2>3. record[c].copper + Price(record[c]) = StartCopper + x + (trail[c] + UnderWayFor(c))
    BY <2>1 DEF Booked
  <2> HIDE DEF x
  <2>4. record[c].copper + Price(record[c]) = StartCopper + x + trail[c] + UnderWayFor(c)
    BY <2>2, <2>3
  <2>5. IF record[c].skill < MaxSkill THEN record[c].rivets = RivetsPerCraft * Crafts(record[c])
                                      ELSE record[c].rivets >= RivetsPerCraft * Crafts(record[c])
    BY <2>1 DEF Booked
  <2> QED BY <2>4, <2>5 DEF x
<1> QED BY <1>1, SpecInv, PTL

\* A graph that is not ready waits for a node whose dependencies are done.
LEMMA SomeNodeActive ==
    ASSUME NEW q \in Quest, HasGraph(q), NEW p, ~GraphReady(q, p)
    PROVE  \E n \in NodesOf(q) : NodeActive(q, n, p.done)
<1> DEFINE S == NodesOf(q) \ p.done
<1>1. S # {} /\ S \subseteq NodesOf(q)
  BY DEF GraphReady, Terminal
<1>2. PICK n \in S : Graph[q][n].deps \cap S = {}
  BY <1>1, GraphAssumption
<1>3. Graph[q][n].deps \subseteq NodesOf(q)
  BY GraphAssumption
<1> QED BY <1>2, <1>3 DEF NodeActive

(* Without nodes that only talk could do, a quest under way can always be brought to *)
(* its end: it is ready, or a kill, an item, a lesson or a deed still advances it,    *)
(* for every content whose graphs have no circle (quest_graph.go, quests.go:27-58).   *)
THEOREM QuestsAlwaysCanEnd ==
    ASSUME "talk" \notin Races PROVE Spec => []QuestsCanEnd
<1>1. IInv => QuestsCanEnd
  <2> SUFFICES ASSUME IInv, NEW c \in Char, NEW q \in Quest, InWorld(c), At(c, q).state \in UnderWay
               PROVE  ObjectiveReady(c, q) \/ Advances(q, At(c, q))
    BY DEF QuestsCanEnd
  <2>1. Moves(q, session[c].quests[q], At(c, q))
    BY AtMoves DEF IInv, Kept
  <2>2. CASE HasGraph(q)
    <3>1. CASE GraphReady(q, At(c, q))
      BY <2>2, <3>1 DEF ObjectiveReady
    <3>2. CASE ~GraphReady(q, At(c, q))
      <4>1. At(c, q).state = "active"
        BY <2>1, <2>2, <3>2 DEF Moves, Fitting, UnderWay
      <4>2. PICK n \in NodesOf(q) : NodeActive(q, n, At(c, q).done)
        BY <2>2, <3>2, SomeNodeActive
      <4>3. q \in DOMAIN Graph
        BY <2>2, GraphAssumption
      <4>4. Graph[q][n].kind # "talk"
        <5>1. n \in DOMAIN Graph[q]
          BY <2>2, <4>2, GraphAssumption DEF NodesOf
        <5> QED BY <4>3, <5>1, CareersAssumption
      <4> QED BY <2>2, <4>1, <4>2, <4>4 DEF Advances
    <3> QED BY <3>1, <3>2
  <2>3. CASE KindOf[q] = "count"
    <3>1. At(c, q).count \in Nat /\ At(c, q).state \in {"active", "completed"}
      BY <2>1, <2>3 DEF Moves, Known, Fitting, HasGraph, UnderWay
    <3>2. At(c, q).state = "completed" => At(c, q).count >= TargetCount
      <4>1. At(c, q) = NormalizeCount(session[c].quests[q]) /\ Known(session[c].quests[q])
        BY <2>3 DEF At, Normalized, HasGraph, IInv, Kept, Sound, Sheet
      <4> QED BY <4>1, NumbersTyped DEF NormalizeCount, Known
    <3> QED BY <2>3, <3>1, <3>2, NumbersTyped DEF ObjectiveReady, Advances
  <2>4. KindOf[q] \in {"count", "deed", "lesson", "graph"}
    BY CareersAssumption
  <2> QED BY <2>2, <2>3, <2>4 DEF HasGraph, Advances
<1> QED BY <1>1, SpecInv, PTL

-----------------------------------------------------------------------------
(* Folds over the places of a sequence.  A fold takes the last place of a set of *)
(* places after the others; what it does is proved of larger and larger sets.     *)

LEMMA MaxIs ==
    ASSUME NEW N \in Nat, NEW T \in SUBSET (1..N), T # {}
    PROVE  Max(T) \in T /\ \A y \in T : y <= Max(T)
<1> DEFINE U == {n \in Nat : \A y \in T : y <= n}
<1>1. U # {}
  BY DEF U
<1>2. PICK m \in U : \A n \in U : ~(<<n, m>> \in OpToRel(<, Nat))
  <2>1. U \subseteq Nat
    OBVIOUS
  <2> HIDE DEF U
  <2> QED BY <1>1, <2>1, NatLessThanWellFounded, WFMin
<1>3. \A n \in U : ~(n < m)
  BY <1>2 DEF OpToRel
<1>4. m \in T
  <2> SUFFICES ASSUME m \notin T PROVE FALSE
    OBVIOUS
  <2>1. PICK y \in T : TRUE
    OBVIOUS
  <2>2. m \in Nat /\ m - 1 \in Nat
    BY <2>1
  <2>3. \A z \in T : z <= m - 1
    BY <2>2
  <2> QED BY <1>3, <2>2, <2>3
<1>5. \A y \in T : y <= m
  OBVIOUS
<1>6. \A y \in T : m >= y
  BY <1>4, <1>5
<1>7. Max(T) \in T /\ \A y \in T : Max(T) >= y
  BY <1>4, <1>6 DEF Max
<1> QED BY <1>7

\* If it holds of no place, and of any places that it holds of without the last, it holds of all.
LEMMA PlacesInduction ==
    ASSUME NEW N \in Nat, NEW G, {} \in G,
           \A s \in SUBSET (1..N) : s # {} /\ s \ {Max(s)} \in G => s \in G
    PROVE  \A s \in SUBSET (1..N) : s \in G
<1> SUFFICES ASSUME NEW t \in SUBSET (1..N), t \notin G PROVE FALSE
  OBVIOUS
<1> DEFINE M == {n \in Nat : \E s \in SUBSET (1..N) : s \notin G /\ s \subseteq 1..n}
<1>1. N \in M
  OBVIOUS
<1>2. PICK m \in M : \A n \in M : ~(<<n, m>> \in OpToRel(<, Nat))
  <2>1. M \subseteq Nat
    OBVIOUS
  <2> HIDE DEF M
  <2> QED BY <1>1, <2>1, NatLessThanWellFounded, WFMin
<1>3. \A n \in M : ~(n < m)
  BY <1>2 DEF OpToRel
<1>4. PICK s \in SUBSET (1..N) : s \notin G /\ s \subseteq 1..m
  OBVIOUS
<1>5. s # {}
  BY <1>4
<1>6. Max(s) \in s /\ \A y \in s : y <= Max(s)
  BY <1>5, MaxIs
<1> DEFINE k == Max(s)
<1>m. m \in Nat
  OBVIOUS
<1>7. k \in 1..m /\ k - 1 \in Nat /\ k - 1 < m
  <2>1. k \in 1..m
    BY <1>4, <1>6
  <2> HIDE DEF k, M
  <2> QED BY <1>m, <2>1
<1>8. s \ {k} \subseteq 1..(k - 1)
  <2>1. ASSUME NEW y \in s, y # k PROVE y \in 1..(k - 1)
    <3>1. y <= k /\ y \in Nat /\ 1 <= y
      BY <1>6
    <3> HIDE DEF k
    <3> QED BY <1>7, <2>1, <3>1
  <2> QED BY <2>1
<1>9. s \ {k} \in G
  <2>1. k - 1 \notin M
    BY <1>3, <1>7
  <2> QED BY <1>7, <1>8, <2>1
<1> QED BY <1>4, <1>5, <1>9

\* A step from state to state by place folds.
FoldsTo(g, N, base, step) ==
    \A s \in SUBSET (1..N) : g[s] = IF s = {} THEN base ELSE step[<<g[s \ {Max(s)}], Max(s)>>]

LEMMA MaxOfMore ==
    ASSUME NEW N \in Nat, NEW s \in SUBSET (1..(N + 1)), N + 1 \in s
    PROVE  Max(s) = N + 1 /\ s \ {Max(s)} \in SUBSET (1..N)
<1>1. Max(s) \in s /\ \A y \in s : y <= Max(s)
  BY MaxIs
<1>2. Max(s) = N + 1
  <2>1. Max(s) \in 1..(N + 1) /\ N + 1 <= Max(s)
    BY <1>1
  <2> QED BY <2>1
<1> QED BY <1>2

FoldFound(N, State, base, step) == \E g \in [SUBSET (1..N) -> State] : FoldsTo(g, N, base, step)
LEMMA FoldExists ==
    ASSUME NEW N \in Nat, NEW State, NEW base \in State, NEW step \in [State \X (1..N) -> State]
    PROVE  FoldFound(N, State, base, step)
<1> DEFINE M == {n \in 0..N : ~FoldFound(n, State, base, step)}
<1> SUFFICES ASSUME M # {} PROVE FALSE
  <2>1. N \in 0..N /\ N \notin M
    OBVIOUS
  <2> QED BY <2>1
<1>2. PICK m \in M : \A n \in M : ~(<<n, m>> \in OpToRel(<, Nat))
  <2>1. M \subseteq Nat
    OBVIOUS
  <2> HIDE DEF M
  <2> QED BY <2>1, NatLessThanWellFounded, WFMin
<1>3. \A n \in M : n \in Nat /\ ~(n < m)
  <2>1. m \in Nat /\ \A n \in M : n \in Nat
    OBVIOUS
  <2> HIDE DEF M
  <2> QED BY <1>2, <2>1 DEF OpToRel
<1>4. m # 0
  <2> SUFFICES ASSUME m = 0 PROVE FALSE
    OBVIOUS
  <2> DEFINE g == [s \in SUBSET (1..0) |-> base]
  <2>1. g \in [SUBSET (1..0) -> State]
    OBVIOUS
  <2>2. \A s \in SUBSET (1..0) : s = {}
    OBVIOUS
  <2>3. FoldsTo(g, 0, base, step)
    BY <2>2 DEF FoldsTo
  <2> QED BY <2>1, <2>3 DEF FoldFound
<1> DEFINE k == m - 1
<1>5. k \in 0..N /\ k \in Nat /\ k + 1 = m /\ m \in 1..N
  BY <1>4
<1>6. k \notin M
  BY <1>3, <1>5
<1>7. PICK f \in [SUBSET (1..k) -> State] : FoldsTo(f, k, base, step)
  BY <1>5, <1>6 DEF FoldFound
<1> DEFINE g == [s \in SUBSET (1..m) |-> IF m \in s THEN step[<<f[s \ {m}], m>>] ELSE f[s]]
<1>8. ASSUME NEW s \in SUBSET (1..m), m \notin s PROVE s \in SUBSET (1..k)
  BY <1>5, <1>8
<1>9. \A s \in SUBSET (1..m) : s \ {m} \in SUBSET (1..k)
  BY <1>8
<1>10. g \in [SUBSET (1..m) -> State]
  <2> SUFFICES ASSUME NEW s \in SUBSET (1..m) PROVE (IF m \in s THEN step[<<f[s \ {m}], m>>] ELSE f[s]) \in State
    OBVIOUS
  <2>1. CASE m \in s
    <3>1. f[s \ {m}] \in State
      BY <1>9
    <3> QED BY <1>5, <2>1, <3>1
  <2>2. CASE m \notin s
    BY <1>8, <2>2
  <2> QED BY <2>1, <2>2
<1>11. FoldsTo(g, m, base, step)
  <2> SUFFICES ASSUME NEW s \in SUBSET (1..m)
               PROVE  g[s] = IF s = {} THEN base ELSE step[<<g[s \ {Max(s)}], Max(s)>>]
    BY DEF FoldsTo
  <2>1. CASE m \in s
    <3>1. Max(s) = m
      BY <1>5, <2>1, MaxOfMore
    <3>2. g[s \ {m}] = f[s \ {m}] /\ s # {}
      BY <2>1
    <3>3. g[s] = step[<<f[s \ {m}], m>>]
      BY <2>1
    <3> HIDE DEF g
    <3> QED BY <3>1, <3>2, <3>3
  <2>2. CASE m \notin s
    <3>1. s \in SUBSET (1..k) /\ s \ {Max(s)} \in SUBSET (1..k)
      BY <1>8, <2>2
    <3>2. f[s] = IF s = {} THEN base ELSE step[<<f[s \ {Max(s)}], Max(s)>>]
      BY <1>7, <3>1 DEF FoldsTo
    <3>3. g[s] = f[s]
      BY <2>2
    <3>4. g[s \ {Max(s)}] = f[s \ {Max(s)}]
      BY <2>2
    <3> HIDE DEF g
    <3> QED BY <3>2, <3>3, <3>4
  <2> QED BY <2>1, <2>2
<1>12. FoldFound(m, State, base, step)
  BY <1>10, <1>11 DEF FoldFound
<1> QED BY <1>12

-----------------------------------------------------------------------------
(* The three folds of Belongings *)

Topped(N, adding) == FoldLeft(TopUp, adding, [i \in 1..N |-> i])
Filled(N, adding) == FoldLeft(FillEmpty, adding, [i \in 1..N |-> i])

TopUpIn(State, N) == \A a \in State, i \in 1..N : TopUp(a, i) \in State
TopUpBy(g, N, base) ==
    /\ Topped(N, base) = g[1..N] /\ g[{}] = base
    /\ \A s \in SUBSET (1..N) : s # {} => g[s] = TopUp(g[s \ {Max(s)}], Max(s))

LEMMA TopUpFolds ==
    ASSUME NEW N \in Nat, NEW State, TopUpIn(State, N), NEW base \in State
    PROVE  \E g : TopUpBy(g, N, base)
<1> DEFINE order == [i \in 1..N |-> i]
           it == CHOOSE it : it = [s \in SUBSET (1..N) |->
                     IF s = {} THEN base ELSE TopUp(it[s \ {Max(s)}], order[Max(s)])]
           step == [p \in State \X (1..N) |-> TopUp(p[1], p[2])]
<1>1. Topped(N, base)
        = MapThenFoldSet(LAMBDA x, y : TopUp(y, x), base, LAMBDA i : order[i], LAMBDA S : Max(S), 1..N)
  <2>1. DOMAIN order = 1..N
    OBVIOUS
  <2> QED BY <2>1 DEF Topped, FoldLeft
<1>2. MapThenFoldSet(LAMBDA x, y : TopUp(y, x), base, LAMBDA i : order[i], LAMBDA S : Max(S), 1..N) = it[1..N]
  BY Zenon DEF MapThenFoldSet
<1>3. PICK g \in [SUBSET (1..N) -> State] : FoldsTo(g, N, base, step)
  <2>1. step \in [State \X (1..N) -> State]
    BY DEF TopUpIn
  <2> HIDE DEF step
  <2> QED BY <2>1, FoldExists DEF FoldFound
<1>4. ASSUME NEW s \in SUBSET (1..N), s # {}
      PROVE  step[<<g[s \ {Max(s)}], Max(s)>>] = TopUp(g[s \ {Max(s)}], order[Max(s)])
  <2>1. Max(s) \in 1..N
    BY <1>4, MaxIs
  <2>2. g[s \ {Max(s)}] \in State
    OBVIOUS
  <2>3. order[Max(s)] = Max(s)
    BY <2>1
  <2> QED BY <2>1, <2>2, <2>3
<1>5. g = [s \in SUBSET (1..N) |-> IF s = {} THEN base ELSE TopUp(g[s \ {Max(s)}], order[Max(s)])]
  <2> HIDE DEF step, order
  <2>1. \A s \in SUBSET (1..N) : g[s] = IF s = {} THEN base ELSE TopUp(g[s \ {Max(s)}], order[Max(s)])
    BY <1>3, <1>4 DEF FoldsTo
  <2> QED BY <2>1
<1>6. it = [s \in SUBSET (1..N) |-> IF s = {} THEN base ELSE TopUp(it[s \ {Max(s)}], order[Max(s)])]
  <2> HIDE DEF step, order
  <2> QED BY <1>5
<1> HIDE DEF it
<1>7. it[{}] = base
  BY <1>6
<1>8. ASSUME NEW s \in SUBSET (1..N), s # {} PROVE it[s] = TopUp(it[s \ {Max(s)}], Max(s))
  <2>1. Max(s) \in 1..N
    BY <1>8, MaxIs
  <2>2. order[Max(s)] = Max(s)
    BY <2>1
  <2>3. it[s] = TopUp(it[s \ {Max(s)}], order[Max(s)])
    BY <1>6, <1>8
  <2> QED BY <2>2, <2>3
<1>9. TopUpBy(it, N, base)
  BY <1>1, <1>2, <1>7, <1>8 DEF TopUpBy
<1> QED BY <1>9

FillEmptyIn(State, N) == \A a \in State, i \in 1..N : FillEmpty(a, i) \in State
FillEmptyBy(g, N, base) ==
    /\ Filled(N, base) = g[1..N] /\ g[{}] = base
    /\ \A s \in SUBSET (1..N) : s # {} => g[s] = FillEmpty(g[s \ {Max(s)}], Max(s))

LEMMA FillEmptyFolds ==
    ASSUME NEW N \in Nat, NEW State, FillEmptyIn(State, N), NEW base \in State
    PROVE  \E g : FillEmptyBy(g, N, base)
<1> DEFINE order == [i \in 1..N |-> i]
           it == CHOOSE it : it = [s \in SUBSET (1..N) |->
                     IF s = {} THEN base ELSE FillEmpty(it[s \ {Max(s)}], order[Max(s)])]
           step == [p \in State \X (1..N) |-> FillEmpty(p[1], p[2])]
<1>1. Filled(N, base)
        = MapThenFoldSet(LAMBDA x, y : FillEmpty(y, x), base, LAMBDA i : order[i], LAMBDA S : Max(S), 1..N)
  <2>1. DOMAIN order = 1..N
    OBVIOUS
  <2> QED BY <2>1 DEF Filled, FoldLeft
<1>2. MapThenFoldSet(LAMBDA x, y : FillEmpty(y, x), base, LAMBDA i : order[i], LAMBDA S : Max(S), 1..N) = it[1..N]
  BY Zenon DEF MapThenFoldSet
<1>3. PICK g \in [SUBSET (1..N) -> State] : FoldsTo(g, N, base, step)
  <2>1. step \in [State \X (1..N) -> State]
    BY DEF FillEmptyIn
  <2> HIDE DEF step
  <2> QED BY <2>1, FoldExists DEF FoldFound
<1>4. ASSUME NEW s \in SUBSET (1..N), s # {}
      PROVE  step[<<g[s \ {Max(s)}], Max(s)>>] = FillEmpty(g[s \ {Max(s)}], order[Max(s)])
  <2>1. Max(s) \in 1..N
    BY <1>4, MaxIs
  <2>2. g[s \ {Max(s)}] \in State
    OBVIOUS
  <2>3. order[Max(s)] = Max(s)
    BY <2>1
  <2> QED BY <2>1, <2>2, <2>3
<1>5. g = [s \in SUBSET (1..N) |-> IF s = {} THEN base ELSE FillEmpty(g[s \ {Max(s)}], order[Max(s)])]
  <2> HIDE DEF step, order
  <2>1. \A s \in SUBSET (1..N) : g[s] = IF s = {} THEN base ELSE FillEmpty(g[s \ {Max(s)}], order[Max(s)])
    BY <1>3, <1>4 DEF FoldsTo
  <2> QED BY <2>1
<1>6. it = [s \in SUBSET (1..N) |-> IF s = {} THEN base ELSE FillEmpty(it[s \ {Max(s)}], order[Max(s)])]
  <2> HIDE DEF step, order
  <2> QED BY <1>5
<1> HIDE DEF it
<1>7. it[{}] = base
  BY <1>6
<1>8. ASSUME NEW s \in SUBSET (1..N), s # {} PROVE it[s] = FillEmpty(it[s \ {Max(s)}], Max(s))
  <2>1. Max(s) \in 1..N
    BY <1>8, MaxIs
  <2>2. order[Max(s)] = Max(s)
    BY <2>1
  <2>3. it[s] = FillEmpty(it[s \ {Max(s)}], order[Max(s)])
    BY <1>6, <1>8
  <2> QED BY <2>2, <2>3
<1>9. FillEmptyBy(it, N, base)
  BY <1>1, <1>2, <1>7, <1>8 DEF FillEmptyBy
<1> QED BY <1>9

\* What a slot may hold, as far as amounts go.
Pack == [item : Items \cup {None}, n : Int]
Packed(N) == [1..N -> Pack]
CountOf(s, item) == IF s.item = item THEN s.n ELSE 0
Adds(item, sum, s) == IF s.item = item THEN sum + s.n ELSE sum

LEMMA AmountFolds ==
    ASSUME NEW N \in Nat, NEW slots \in Packed(N), NEW item
    PROVE  \E g : /\ Amount(slots, item) = g[1..N] /\ g[{}] = 0
                  /\ \A s \in SUBSET (1..N) : g[s] \in Int
                  /\ \A s \in SUBSET (1..N) : s # {} => g[s] = g[s \ {Max(s)}] + CountOf(slots[Max(s)], item)
<1> DEFINE it == CHOOSE it : it = [s \in SUBSET (1..N) |->
                     IF s = {} THEN 0 ELSE Adds(item, it[s \ {Max(s)}], slots[Max(s)])]
           step == [p \in Int \X (1..N) |-> Adds(item, p[1], slots[p[2]])]
<1>0. \A i \in 1..N : slots[i].n \in Int
  BY DEF Packed, Pack
<1>1. Amount(slots, item)
        = MapThenFoldSet(LAMBDA x, y : Adds(item, y, x), 0, LAMBDA i : slots[i], LAMBDA S : Max(S), 1..N)
  <2>1. DOMAIN slots = 1..N
    BY DEF Packed
  <2> QED BY <2>1 DEF Amount, FoldLeft, Adds
<1>2. MapThenFoldSet(LAMBDA x, y : Adds(item, y, x), 0, LAMBDA i : slots[i], LAMBDA S : Max(S), 1..N) = it[1..N]
  BY Zenon DEF MapThenFoldSet
<1>3. PICK g \in [SUBSET (1..N) -> Int] : FoldsTo(g, N, 0, step)
  <2>1. step \in [Int \X (1..N) -> Int]
    <3> SUFFICES ASSUME NEW x \in Int, NEW i \in 1..N PROVE Adds(item, x, slots[i]) \in Int
      OBVIOUS
    <3> QED BY <1>0 DEF Adds
  <2>2. 0 \in Int
    OBVIOUS
  <2> HIDE DEF step
  <2>3. FoldFound(N, Int, 0, step)
    BY <2>1, <2>2, FoldExists
  <2> QED BY <2>3 DEF FoldFound
<1>4. ASSUME NEW s \in SUBSET (1..N), s # {}
      PROVE  step[<<g[s \ {Max(s)}], Max(s)>>] = Adds(item, g[s \ {Max(s)}], slots[Max(s)])
  <2>1. Max(s) \in 1..N
    BY <1>4, MaxIs
  <2>2. g[s \ {Max(s)}] \in Int
    OBVIOUS
  <2> QED BY <2>1, <2>2
<1>5. g = [s \in SUBSET (1..N) |-> IF s = {} THEN 0 ELSE Adds(item, g[s \ {Max(s)}], slots[Max(s)])]
  <2> HIDE DEF step
  <2>1. \A s \in SUBSET (1..N) : g[s] = IF s = {} THEN 0 ELSE Adds(item, g[s \ {Max(s)}], slots[Max(s)])
    BY <1>3, <1>4 DEF FoldsTo
  <2> QED BY <2>1
<1>6. it = [s \in SUBSET (1..N) |-> IF s = {} THEN 0 ELSE Adds(item, it[s \ {Max(s)}], slots[Max(s)])]
  <2> HIDE DEF step
  <2> QED BY <1>5
<1> HIDE DEF it, step
<1>7. it[{}] = 0
  BY <1>6
<1>8. ASSUME NEW s \in SUBSET (1..N), s # {}, it[s \ {Max(s)}] \in Int
      PROVE it[s] = it[s \ {Max(s)}] + CountOf(slots[Max(s)], item) /\ it[s] \in Int
  <2>1. Max(s) \in 1..N
    BY <1>8, MaxIs
  <2>2. slots[Max(s)].n \in Int
    BY <1>0, <2>1
  <2>3. it[s] = Adds(item, it[s \ {Max(s)}], slots[Max(s)])
    BY <1>6, <1>8
  <2> QED BY <1>8, <2>2, <2>3 DEF Adds, CountOf
<1>9. \A s \in SUBSET (1..N) : it[s] \in Int
  <2> DEFINE G == {s \in SUBSET (1..N) : it[s] \in Int}
  <2>1. {} \in G
    BY <1>7
  <2>2. \A s \in SUBSET (1..N) : s # {} /\ s \ {Max(s)} \in G => s \in G
    BY <1>8
  <2>3. \A s \in SUBSET (1..N) : s \in G
    <3> HIDE DEF G
    <3> QED BY <2>1, <2>2, PlacesInduction
  <2> QED BY <2>3
<1>10. \A s \in SUBSET (1..N) : s # {} => it[s] = it[s \ {Max(s)}] + CountOf(slots[Max(s)], item)
  BY <1>8, <1>9
<1> QED BY <1>1, <1>2, <1>7, <1>9, <1>10

\* With one slot changed, the amount changes by what changes there.
LEMMA AmountAt ==
    ASSUME NEW N \in Nat, NEW slots \in Packed(N), NEW others \in Packed(N), NEW j \in 1..N, NEW item,
           \A i \in 1..N : i # j => CountOf(others[i], item) = CountOf(slots[i], item)
    PROVE  /\ Amount(slots, item) \in Int
           /\ Amount(others, item) = Amount(slots, item) + CountOf(others[j], item) - CountOf(slots[j], item)
<1>1. PICK g : /\ Amount(slots, item) = g[1..N] /\ g[{}] = 0
               /\ \A s \in SUBSET (1..N) : g[s] \in Int
               /\ \A s \in SUBSET (1..N) : s # {} => g[s] = g[s \ {Max(s)}] + CountOf(slots[Max(s)], item)
  BY AmountFolds
<1>2. PICK h : /\ Amount(others, item) = h[1..N] /\ h[{}] = 0
               /\ \A s \in SUBSET (1..N) : h[s] \in Int
               /\ \A s \in SUBSET (1..N) : s # {} => h[s] = h[s \ {Max(s)}] + CountOf(others[Max(s)], item)
  BY AmountFolds
<1>3. \A i \in 1..N : CountOf(slots[i], item) \in Int /\ CountOf(others[i], item) \in Int
  BY DEF Packed, Pack, CountOf
<1> DEFINE d == CountOf(others[j], item) - CountOf(slots[j], item)
           G == {s \in SUBSET (1..N) : h[s] = g[s] + (IF j \in s THEN d ELSE 0)}
<1>4. d \in Int
  BY <1>3
<1>5. {} \in G
  BY <1>1, <1>2
<1>6. ASSUME NEW s \in SUBSET (1..N), s # {}, s \ {Max(s)} \in G PROVE s \in G
  <2> DEFINE k == Max(s)
             r == s \ {k}
  <2>1. k \in s /\ k \in 1..N
    BY <1>6, MaxIs
  <2>2. g[s] = g[r] + CountOf(slots[k], item) /\ h[s] = h[r] + CountOf(others[k], item)
    BY <1>1, <1>2, <1>6
  <2>3. h[r] = g[r] + (IF j \in r THEN d ELSE 0) /\ r \in SUBSET (1..N)
    BY <1>6
  <2>4. g[r] \in Int /\ h[r] \in Int /\ CountOf(slots[k], item) \in Int /\ CountOf(others[k], item) \in Int
    BY <1>1, <1>2, <1>3, <2>1, <2>3
  <2>5. k = j => CountOf(others[k], item) = CountOf(slots[k], item) + d /\ j \notin r /\ j \in s
    BY <1>3, <2>1
  <2>6. k # j => CountOf(others[k], item) = CountOf(slots[k], item) /\ (j \in r <=> j \in s)
    BY <2>1
  <2> HIDE DEF d, k, r
  <2>7. h[s] = g[s] + (IF j \in s THEN d ELSE 0)
    BY <1>4, <2>2, <2>3, <2>4, <2>5, <2>6
  <2> QED BY <2>7
<1>7. \A s \in SUBSET (1..N) : s \in G
  <2> HIDE DEF G
  <2> QED BY <1>5, <1>6, PlacesInduction
<1>8. 1..N \in G
  BY <1>7
<1>9. h[1..N] = g[1..N] + d
  BY <1>8
<1> QED BY <1>1, <1>2, <1>3, <1>9

\* Of what no slot holds there is nothing.
LEMMA AmountNone ==
    ASSUME NEW N \in Nat, NEW slots \in Packed(N), NEW item, \A i \in 1..N : CountOf(slots[i], item) = 0
    PROVE  Amount(slots, item) = 0
<1>1. PICK g : /\ Amount(slots, item) = g[1..N] /\ g[{}] = 0
               /\ \A s \in SUBSET (1..N) : g[s] \in Int
               /\ \A s \in SUBSET (1..N) : s # {} => g[s] = g[s \ {Max(s)}] + CountOf(slots[Max(s)], item)
  BY AmountFolds
<1> DEFINE G == {s \in SUBSET (1..N) : g[s] = 0}
<1>2. {} \in G
  BY <1>1
<1>3. ASSUME NEW s \in SUBSET (1..N), s # {}, s \ {Max(s)} \in G PROVE s \in G
  <2>1. Max(s) \in 1..N
    BY <1>3, MaxIs
  <2>2. g[s] = g[s \ {Max(s)}] + CountOf(slots[Max(s)], item)
    BY <1>1, <1>3
  <2> QED BY <1>3, <2>1, <2>2
<1>4. \A s \in SUBSET (1..N) : s \in G
  <2> HIDE DEF G
  <2> QED BY <1>2, <1>3, PlacesInduction
<1>5. 1..N \in G
  BY <1>4
<1> QED BY <1>1, <1>5

-----------------------------------------------------------------------------
(* What the operations on slots do to amounts *)

LEMMA GoodsTyped ==
    /\ MaxStack \in Nat /\ OreGiven \in Nat /\ PackSlots \in Nat /\ ChestSlots \in Nat /\ BarSlots \in Nat
    /\ PackSlots > 0 /\ ChestSlots > 0 /\ BarSlots > 0 /\ OreGiven > 0
    /\ None \notin Items /\ IsFiniteSet(Gear) /\ Cardinality(Gear) < PackSlots /\ "ore" \notin Gear
  BY BelongingsAssumption DEF Items

LEMMA AmountTyped ==
    ASSUME NEW N \in Nat, NEW slots \in Packed(N), NEW item PROVE Amount(slots, item) \in Int
<1>1. PICK g : Amount(slots, item) = g[1..N] /\ \A s \in SUBSET (1..N) : g[s] \in Int
  BY AmountFolds
<1> QED BY <1>1

Of(x, item, n) == IF x = item THEN n ELSE 0
Gains(slots, others, item, n) == \A x \in Items : Amount(others, x) = Amount(slots, x) + Of(x, item, n)

LEMMA SlotGains ==
    ASSUME NEW N \in Nat, NEW slots \in Packed(N), NEW i \in 1..N, NEW s \in Pack, NEW item, NEW n \in Int,
           \A x \in Items : CountOf(s, x) = CountOf(slots[i], x) + Of(x, item, n)
    PROVE  [slots EXCEPT ![i] = s] \in Packed(N) /\ Gains(slots, [slots EXCEPT ![i] = s], item, n)
<1> DEFINE others == [slots EXCEPT ![i] = s]
<1>1. others \in Packed(N) /\ others[i] = s /\ \A k \in 1..N : k # i => others[k] = slots[k]
  BY DEF Packed
<1>2. slots[i].n \in Int
  BY DEF Packed, Pack
<1> HIDE DEF others
<1>3. ASSUME NEW x \in Items PROVE Amount(others, x) = Amount(slots, x) + Of(x, item, n)
  <2>1. /\ Amount(slots, x) \in Int
        /\ Amount(others, x) = Amount(slots, x) + CountOf(others[i], x) - CountOf(slots[i], x)
    BY <1>1, AmountAt
  <2>2. CountOf(others[i], x) = CountOf(slots[i], x) + Of(x, item, n)
    BY <1>1
  <2>3. CountOf(slots[i], x) \in Int /\ Of(x, item, n) \in Int
    BY <1>2 DEF CountOf, Of
  <2> QED BY <2>1, <2>2, <2>3
<1> QED BY <1>1, <1>3 DEF Gains, others

\* A slot of one stack or of none.
LEMMA PackOf ==
    /\ NoStack \in Pack /\ \A x \in Items : CountOf(NoStack, x) = 0
    /\ \A item \in Items \cup {None}, n \in Int :
          Stack(item, n) \in Pack /\ \A x : CountOf(Stack(item, n), x) = Of(x, item, n)
  BY GoodsTyped DEF NoStack, Stack, Pack, CountOf, Of

LEMMA PackMore ==
    ASSUME NEW s \in Pack, NEW n \in Int
    PROVE  /\ [s EXCEPT !.n = @ + n] \in Pack
           /\ \A x : CountOf([s EXCEPT !.n = @ + n], x) = CountOf(s, x) + Of(x, s.item, n)
<1> DEFINE t == [s EXCEPT !.n = @ + n]
<1>1. s.n \in Int /\ t.item = s.item /\ t.n = s.n + n /\ t \in Pack
  BY DEF Pack
<1> HIDE DEF t
<1>2. \A x : CountOf(t, x) = CountOf(s, x) + Of(x, s.item, n)
  BY <1>1 DEF CountOf, Of
<1> QED BY <1>1, <1>2 DEF t

LEMMA TakenGains ==
    ASSUME NEW N \in Nat, NEW slots \in Packed(N), NEW i \in 1..N, NEW n \in Int
    PROVE  /\ TakeFromBag(slots, i, n) \in Packed(N) /\ TakeFromChest(slots, i, n) = TakeFromBag(slots, i, n)
           /\ Gains(slots, TakeFromBag(slots, i, n), slots[i].item, -n)
<1> DEFINE s == slots[i]
           t == IF s.n = n THEN NoStack ELSE Stack(s.item, s.n - n)
<1>1. s \in Pack /\ s.n \in Int /\ s.item \in Items \cup {None}
  BY DEF Packed, Pack
<1>2. TakeFromBag(slots, i, n) = [slots EXCEPT ![i] = t] /\ TakeFromChest(slots, i, n) = [slots EXCEPT ![i] = t]
  BY DEF TakeFromBag, TakeFromChest
<1>3. t \in Pack /\ \A x \in Items : CountOf(t, x) = CountOf(s, x) + Of(x, s.item, -n)
  <2>1. CASE s.n = n
    BY <1>1, <2>1, PackOf DEF CountOf, Of
  <2>2. CASE s.n # n
    <3>1. s.n - n \in Int /\ t = Stack(s.item, s.n - n)
      BY <1>1, <2>2
    <3>2. t \in Pack /\ \A x : CountOf(t, x) = Of(x, s.item, s.n - n)
      <4> HIDE DEF t, s
      <4> QED BY <1>1, <3>1, PackOf
    <3>3. \A x : CountOf(s, x) = Of(x, s.item, s.n)
      BY DEF CountOf, Of
    <3>4. \A x : Of(x, s.item, s.n - n) = Of(x, s.item, s.n) + Of(x, s.item, -n)
      BY <1>1 DEF Of
    <3> QED BY <3>2, <3>3, <3>4
  <2> QED BY <2>1, <2>2
<1>4. -n \in Int
  OBVIOUS
<1> HIDE DEF t
<1>5. [slots EXCEPT ![i] = t] \in Packed(N) /\ Gains(slots, [slots EXCEPT ![i] = t], s.item, -n)
  BY <1>3, <1>4, SlotGains
<1> QED BY <1>2, <1>5

LEMMA AddedGains ==
    ASSUME NEW N \in Nat, NEW slots \in Packed(N), NEW i \in 1..N, NEW item \in Items \cup {None}, NEW n \in Int,
           NEW others \in AddAt(slots, i, item, n)
    PROVE  others \in Packed(N) /\ Gains(slots, others, item, n)
<1> DEFINE s == slots[i]
           t == IF s = NoStack THEN Stack(item, n) ELSE [s EXCEPT !.n = @ + n]
<1>1. s \in Pack /\ s.n \in Int
  BY DEF Packed, Pack
<1>2. others = [slots EXCEPT ![i] = t] /\ (s # NoStack => s.item = item)
  BY DEF AddAt, AddToSlot, SlotCanAccept, Packed
<1>3. t \in Pack /\ \A x \in Items : CountOf(t, x) = CountOf(s, x) + Of(x, item, n)
  <2>1. CASE s = NoStack
    <3>1. \A x : Of(x, item, n) \in Int
      BY DEF Of
    <3>2. t = Stack(item, n)
      BY <2>1
    <3> HIDE DEF t, s
    <3> QED BY <2>1, <3>1, <3>2, PackOf
  <2>2. CASE s # NoStack
    <3>1. t = [s EXCEPT !.n = @ + n]
      BY <2>2
    <3> HIDE DEF t, s
    <3> QED BY <1>1, <1>2, <2>2, <3>1, PackMore
  <2> QED BY <2>1, <2>2
<1> HIDE DEF t
<1> QED BY <1>2, <1>3, SlotGains

LEMMA SwappedKeeps ==
    ASSUME NEW N \in Nat, NEW slots \in Packed(N), NEW i \in 1..N, NEW j \in 1..N, i # j
    PROVE  Swap(slots, i, j) \in Packed(N) /\ \A x : Amount(Swap(slots, i, j), x) = Amount(slots, x)
<1> DEFINE mid == [slots EXCEPT ![i] = slots[j]]
           others == [mid EXCEPT ![j] = slots[i]]
<1>1. others = Swap(slots, i, j)
  BY DEF Swap
<1>2. mid \in Packed(N) /\ mid[i] = slots[j] /\ \A k \in 1..N : k # i => mid[k] = slots[k]
  BY DEF Packed
<1>3. others \in Packed(N) /\ others[j] = slots[i] /\ \A k \in 1..N : k # j => others[k] = mid[k]
  BY <1>2 DEF Packed
<1>4. slots[i].n \in Int /\ slots[j].n \in Int
  BY DEF Packed, Pack
<1> HIDE DEF mid, others
<1>5. ASSUME NEW x PROVE Amount(others, x) = Amount(slots, x)
  <2>1. /\ Amount(slots, x) \in Int
        /\ Amount(mid, x) = Amount(slots, x) + CountOf(mid[i], x) - CountOf(slots[i], x)
    BY <1>2, AmountAt
  <2>2. /\ Amount(mid, x) \in Int
        /\ Amount(others, x) = Amount(mid, x) + CountOf(others[j], x) - CountOf(mid[j], x)
    BY <1>2, <1>3, AmountAt
  <2>3. CountOf(mid[i], x) = CountOf(slots[j], x) /\ CountOf(others[j], x) = CountOf(slots[i], x)
        /\ CountOf(mid[j], x) = CountOf(slots[j], x)
    BY <1>2, <1>3
  <2>4. CountOf(slots[i], x) \in Int /\ CountOf(slots[j], x) \in Int
    BY <1>4 DEF CountOf
  <2> QED BY <2>1, <2>2, <2>3, <2>4
<1> QED BY <1>1, <1>3, <1>5

\* What is being put away: the slots, and how much is left.
Adding(N, item) == [slots : Packed(N), item : {item}, left : Int]
Whole(a, x) == Amount(a.slots, x) + Of(x, a.item, a.left)
Same(a, b) == \A x \in Items : Whole(b, x) = Whole(a, x)

LEMMA PutAway ==
    ASSUME NEW N \in Nat, NEW item \in Items \cup {None}, NEW a \in Adding(N, item),
           NEW others \in Packed(N), NEW k \in Int, Gains(a.slots, others, item, k)
    PROVE  /\ [slots |-> others, item |-> item, left |-> a.left - k] \in Adding(N, item)
           /\ Same(a, [slots |-> others, item |-> item, left |-> a.left - k])
<1> DEFINE b == [slots |-> others, item |-> item, left |-> a.left - k]
<1>1. a.slots \in Packed(N) /\ a.item = item /\ a.left \in Int
  BY DEF Adding
<1>2. b \in Adding(N, item) /\ b.slots = others /\ b.item = item /\ b.left = a.left - k
  BY <1>1 DEF Adding
<1> HIDE DEF b
<1>3. ASSUME NEW x \in Items PROVE Whole(b, x) = Whole(a, x)
  <2>1. Amount(others, x) = Amount(a.slots, x) + Of(x, item, k) /\ Amount(a.slots, x) \in Int
    BY <1>1, AmountTyped DEF Gains
  <2>2. Whole(b, x) = Amount(others, x) + Of(x, item, a.left - k) /\ Whole(a, x) = Amount(a.slots, x) + Of(x, item, a.left)
    BY <1>1, <1>2 DEF Whole
  <2>3. Of(x, item, k) \in Int /\ Of(x, item, a.left) \in Int
        /\ Of(x, item, a.left - k) = Of(x, item, a.left) - Of(x, item, k)
    BY <1>1 DEF Of
  <2> QED BY <2>1, <2>2, <2>3
<1> QED BY <1>2, <1>3 DEF Same, b

LEMMA AddingIs ==
    ASSUME NEW N, NEW item, NEW a \in Adding(N, item)
    PROVE  a = [slots |-> a.slots, item |-> item, left |-> a.left] /\ a.slots \in Packed(N) /\ a.left \in Int
  BY DEF Adding

LEMMA TopUpKeeps ==
    ASSUME NEW N \in Nat, NEW item \in Items \cup {None}, NEW a \in Adding(N, item), NEW i \in 1..N
    PROVE  TopUp(a, i) \in Adding(N, item) /\ Same(a, TopUp(a, i))
<1> DEFINE s == a.slots[i]
           k == IF s.item = a.item /\ s.item \notin Gear /\ s.n + a.left <= MaxStack THEN a.left
                ELSE IF s.item = a.item /\ s.item \notin Gear THEN MaxStack - s.n ELSE 0
           others == [a.slots EXCEPT ![i] = [s EXCEPT !.n = @ + k]]
<1>1. a = [slots |-> a.slots, item |-> item, left |-> a.left] /\ a.slots \in Packed(N) /\ a.left \in Int /\ a.item = item
  BY AddingIs DEF Adding
<1>2. s \in Pack /\ s.n \in Int
  BY <1>1 DEF Packed, Pack
<1>3. k \in Int /\ (k = 0 \/ s.item = item)
  BY <1>1, <1>2, GoodsTyped
<1>4. TopUp(a, i) = [a EXCEPT !.slots[i].n = @ + k, !.left = @ - k]
  BY DEF TopUp
<1> HIDE DEF k
<1>5. [a EXCEPT !.slots[i].n = @ + k, !.left = @ - k] = [slots |-> others, item |-> item, left |-> a.left - k]
  <2> DEFINE o == [a EXCEPT !.slots[i].n = @ + k]
  <2>1. o = [a EXCEPT !.slots = others]
    OBVIOUS
  <2> HIDE DEF others
  <2>2. o = [slots |-> others, item |-> item, left |-> a.left]
    BY <1>1, <2>1
  <2>3. [a EXCEPT !.slots[i].n = @ + k, !.left = @ - k] = [o EXCEPT !.left = @ - k]
    OBVIOUS
  <2> HIDE DEF o
  <2> QED BY <2>2, <2>3
<1>6. [s EXCEPT !.n = @ + k] \in Pack /\ \A x : CountOf([s EXCEPT !.n = @ + k], x) = CountOf(s, x) + Of(x, s.item, k)
  BY <1>2, <1>3, PackMore
<1>7. \A x : Of(x, s.item, k) = Of(x, item, k)
  BY <1>3 DEF Of
<1> DEFINE t == [s EXCEPT !.n = @ + k]
<1> HIDE DEF t
<1>8. t \in Pack /\ \A x \in Items : CountOf(t, x) = CountOf(s, x) + Of(x, item, k)
  BY <1>6, <1>7 DEF t
<1>9. others = [a.slots EXCEPT ![i] = t]
  BY DEF t
<1>10. others \in Packed(N) /\ Gains(a.slots, others, item, k)
  <2> HIDE DEF others
  <2> QED BY <1>1, <1>3, <1>8, <1>9, SlotGains
<1> HIDE DEF others
<1> QED BY <1>3, <1>4, <1>5, <1>10, PutAway

LEMMA FillEmptyKeeps ==
    ASSUME NEW N \in Nat, NEW item \in Items \cup {None}, NEW a \in Adding(N, item), NEW i \in 1..N
    PROVE  FillEmpty(a, i) \in Adding(N, item) /\ Same(a, FillEmpty(a, i))
<1> DEFINE k == IF a.left <= Limit(a.item) THEN a.left ELSE Limit(a.item)
           others == [a.slots EXCEPT ![i] = Stack(item, k)]
<1>1. a = [slots |-> a.slots, item |-> item, left |-> a.left] /\ a.slots \in Packed(N) /\ a.left \in Int /\ a.item = item
  BY AddingIs DEF Adding
<1>2. k \in Int
  BY <1>1, GoodsTyped DEF Limit
<1>3. CASE a.slots[i] = NoStack /\ a.left > 0
  <2>1. FillEmpty(a, i) = [a EXCEPT !.slots[i] = Stack(a.item, k), !.left = @ - k]
    BY <1>3 DEF FillEmpty
  <2> HIDE DEF k
  <2>2. [a EXCEPT !.slots[i] = Stack(a.item, k), !.left = @ - k] = [slots |-> others, item |-> item, left |-> a.left - k]
    <3> DEFINE o == [a EXCEPT !.slots[i] = Stack(a.item, k)]
    <3>1. o = [a EXCEPT !.slots = others]
      BY <1>1
    <3> HIDE DEF others
    <3>2. o = [slots |-> others, item |-> item, left |-> a.left]
      BY <1>1, <3>1
    <3>3. [a EXCEPT !.slots[i] = Stack(a.item, k), !.left = @ - k] = [o EXCEPT !.left = @ - k]
      OBVIOUS
    <3> HIDE DEF o
    <3> QED BY <3>2, <3>3
  <2>3. Stack(item, k) \in Pack /\ \A x \in Items : CountOf(Stack(item, k), x) = Of(x, item, k)
    BY <1>2, PackOf
  <2>4. \A x \in Items : CountOf(a.slots[i], x) = 0 /\ Of(x, item, k) \in Int
    BY <1>2, <1>3, PackOf DEF Of
  <2>5. \A x \in Items : CountOf(Stack(item, k), x) = CountOf(a.slots[i], x) + Of(x, item, k)
    BY <2>3, <2>4
  <2>6. others \in Packed(N) /\ Gains(a.slots, others, item, k)
    BY <1>1, <1>2, <2>3, <2>5, SlotGains
  <2> HIDE DEF others
  <2> QED BY <1>2, <2>1, <2>2, <2>6, PutAway
<1>4. CASE ~(a.slots[i] = NoStack /\ a.left > 0)
  BY <1>4 DEF FillEmpty, Same
<1> QED BY <1>3, <1>4

\* What is spread over the slots is there.
LEMMA SpreadGains ==
    ASSUME NEW N \in Nat, NEW slots \in Packed(N), NEW item \in Items \cup {None}, NEW n \in Int,
           NEW others \in Spread(slots, item, n)
    PROVE  others \in Packed(N) /\ Gains(slots, others, item, n)
<1> DEFINE order == [i \in 1..N |-> i]
           base == [slots |-> slots, item |-> item, left |-> n]
           topped == Topped(N, base)
           added == Filled(N, topped)
<1>1. others = added.slots /\ added.left = 0
  <2>1. DOMAIN slots = 1..N
    BY DEF Packed
  <2>2. [i \in DOMAIN slots |-> i] = order
    BY <2>1
  <2>3. Spread(slots, item, n) = IF added.left = 0 THEN {added.slots} ELSE {}
    BY <2>2 DEF Spread, Topped, Filled
  <2> HIDE DEF added
  <2> QED BY <2>3
<1>2. base \in Adding(N, item)
  BY DEF Adding
<1>3. topped \in Adding(N, item) /\ Same(base, topped)
  <2>1. PICK g : TopUpBy(g, N, base)
    <3>1. TopUpIn(Adding(N, item), N)
      BY TopUpKeeps DEF TopUpIn
    <3> HIDE DEF base
    <3> QED BY <1>2, <3>1, TopUpFolds
  <2> DEFINE G == {s \in SUBSET (1..N) : g[s] \in Adding(N, item) /\ Same(base, g[s])}
  <2> HIDE DEF base, topped
  <2>2. {} \in G
    BY <1>2, <2>1 DEF Same, TopUpBy
  <2>3. ASSUME NEW s \in SUBSET (1..N), s # {}, s \ {Max(s)} \in G PROVE s \in G
    <3>1. Max(s) \in 1..N
      BY <2>3, MaxIs
    <3>2. g[s] = TopUp(g[s \ {Max(s)}], Max(s))
      BY <2>1, <2>3 DEF TopUpBy
    <3>3. g[s] \in Adding(N, item) /\ Same(g[s \ {Max(s)}], g[s])
      BY <2>3, <3>1, <3>2, TopUpKeeps
    <3> QED BY <2>3, <3>3 DEF Same
  <2>4. \A s \in SUBSET (1..N) : s \in G
    <3> HIDE DEF G
    <3> QED BY <2>2, <2>3, PlacesInduction
  <2>5. 1..N \in G
    BY <2>4
  <2> QED BY <2>1, <2>5 DEF TopUpBy, topped
<1> HIDE DEF topped, base
<1>4. added \in Adding(N, item) /\ Same(topped, added)
  <2>1. PICK g : FillEmptyBy(g, N, topped)
    <3>1. FillEmptyIn(Adding(N, item), N)
      BY FillEmptyKeeps DEF FillEmptyIn
    <3> QED BY <1>3, <3>1, FillEmptyFolds
  <2> DEFINE G == {s \in SUBSET (1..N) : g[s] \in Adding(N, item) /\ Same(topped, g[s])}
  <2> HIDE DEF added
  <2>2. {} \in G
    BY <1>3, <2>1 DEF Same, FillEmptyBy
  <2>3. ASSUME NEW s \in SUBSET (1..N), s # {}, s \ {Max(s)} \in G PROVE s \in G
    <3>1. Max(s) \in 1..N
      BY <2>3, MaxIs
    <3>2. g[s] = FillEmpty(g[s \ {Max(s)}], Max(s))
      BY <2>1, <2>3 DEF FillEmptyBy
    <3>3. g[s] \in Adding(N, item) /\ Same(g[s \ {Max(s)}], g[s])
      BY <2>3, <3>1, <3>2, FillEmptyKeeps
    <3> QED BY <2>3, <3>3 DEF Same
  <2>4. \A s \in SUBSET (1..N) : s \in G
    <3> HIDE DEF G
    <3> QED BY <2>2, <2>3, PlacesInduction
  <2>5. 1..N \in G
    BY <2>4
  <2> QED BY <2>1, <2>5 DEF FillEmptyBy, added
<1> HIDE DEF added
<1>5. added.slots \in Packed(N) /\ added.item = item
  BY <1>4 DEF Adding
<1>6. ASSUME NEW x \in Items PROVE Amount(added.slots, x) = Amount(slots, x) + Of(x, item, n)
  <2>1. Whole(added, x) = Whole(base, x)
    BY <1>3, <1>4 DEF Same
  <2>2. Whole(base, x) = Amount(slots, x) + Of(x, item, n)
    BY DEF Whole, base
  <2>3. Whole(added, x) = Amount(added.slots, x) + Of(x, item, 0)
    BY <1>1, <1>5 DEF Whole
  <2>4. Of(x, item, 0) = 0 /\ Amount(added.slots, x) \in Int
    BY <1>5, AmountTyped DEF Of
  <2> QED BY <2>1, <2>2, <2>3, <2>4
<1> QED BY <1>1, <1>5, <1>6 DEF Gains

Merged(slots, i, j, n) == [TakeFromChest(slots, i, n) EXCEPT ![j].n = @ + n]
LEMMA MergedKeeps ==
    ASSUME NEW N \in Nat, NEW slots \in Packed(N), NEW i \in 1..N, NEW j \in 1..N, i # j, NEW n \in Int,
           slots[i].item = slots[j].item
    PROVE  Merged(slots, i, j, n) \in Packed(N) /\ \A x \in Items : Amount(Merged(slots, i, j, n), x) = Amount(slots, x)
<1> DEFINE mid == TakeFromChest(slots, i, n)
           t == [mid[j] EXCEPT !.n = @ + n]
           others == [mid EXCEPT ![j] = t]
<1>1. mid \in Packed(N) /\ Gains(slots, mid, slots[i].item, -n)
  BY TakenGains
<1>2. mid[j] = slots[j]
  BY DEF TakeFromChest, Packed
<1> HIDE DEF mid
<1>3. mid[j] \in Pack
  BY <1>1 DEF Packed
<1>4. t \in Pack /\ \A x : CountOf(t, x) = CountOf(mid[j], x) + Of(x, mid[j].item, n)
  BY <1>3, PackMore
<1>5. [mid EXCEPT ![j].n = @ + n] = others
  OBVIOUS
<1> HIDE DEF t
<1>6. others \in Packed(N) /\ Gains(mid, others, slots[i].item, n)
  <2>1. \A x \in Items : CountOf(t, x) = CountOf(mid[j], x) + Of(x, slots[i].item, n)
    BY <1>2, <1>4
  <2> QED BY <1>1, <1>4, <2>1, SlotGains
<1> HIDE DEF others
<1>7. ASSUME NEW x \in Items PROVE Amount(others, x) = Amount(slots, x)
  <2> DEFINE y == slots[i].item
  <2>1. Amount(mid, x) = Amount(slots, x) + Of(x, y, -n) /\ Amount(others, x) = Amount(mid, x) + Of(x, y, n)
    BY <1>1, <1>6 DEF Gains
  <2>2. Of(x, y, -n) \in Int /\ Of(x, y, n) \in Int /\ Of(x, y, -n) + Of(x, y, n) = 0
    BY DEF Of
  <2>3. Amount(slots, x) \in Int
    BY AmountTyped
  <2> HIDE DEF y
  <2> QED BY <2>1, <2>2, <2>3
<1>8. Merged(slots, i, j, n) = others
  BY <1>5 DEF Merged, mid
<1> QED BY <1>6, <1>7, <1>8

-----------------------------------------------------------------------------
(* What a character has *)

Things(bag, worn, chest, bar) == [bag |-> bag, worn |-> worn, chest |-> chest, bar |-> bar]
Pile(g) ==
    /\ g = Things(g.bag, g.worn, g.chest, g.bar)
    /\ g.bag \in Packed(PackSlots) /\ g.chest \in Packed(ChestSlots) /\ g.worn \in Gear \cup {None}
Total(g, x) == Amount(g.bag, x) + Amount(g.chest, x) + (IF g.worn = x THEN 1 ELSE 0)
AsGiven(g) == \A x \in Items : Total(g, x) = Given(x)

HeldIsStored(c) == c \notin torn => Pile(goods[c]) /\ AsGiven(goods[c]) /\ held[c] = Copy(goods[c])

\* The session knows the abilities that the store would keep on its bar.
SessionKnows(c) ==
    scene \in {"bag", "bar"} /\ c \notin torn /\ InWorld(c) /\ record[c].learned => session[c].learned

BelongingsHeld ==
    /\ goods = [c \in Char |-> goods[c]] /\ held = [c \in Char |-> held[c]]
    /\ \A c \in Char : HeldIsStored(c)
BelongingsInv == BelongingsHeld /\ \A c \in Char : SessionKnows(c)

LEMMA ThingsFields ==
    ASSUME NEW bag, NEW worn, NEW chest, NEW bar
    PROVE  LET g == Things(bag, worn, chest, bar) IN
           /\ g.bag = bag /\ g.worn = worn /\ g.chest = chest /\ g.bar = bar
           /\ Copy(g) = [bag |-> bag, worn |-> worn, bar |-> bar]
  BY DEF Things, Copy

\* The ways in which the store's record of it is written.
LEMMA ThingsWritten ==
    ASSUME NEW g, g = Things(g.bag, g.worn, g.chest, g.bar), NEW bag, NEW worn, NEW chest, NEW bar
    PROVE  /\ [g EXCEPT !.bag = bag] = Things(bag, g.worn, g.chest, g.bar)
           /\ [g EXCEPT !.chest = chest] = Things(g.bag, g.worn, chest, g.bar)
           /\ [g EXCEPT !.bar = bar] = Things(g.bag, g.worn, g.chest, bar)
           /\ [g EXCEPT !.bag = bag, !.chest = chest] = Things(bag, g.worn, chest, g.bar)
           /\ [g EXCEPT !.bag = bag, !.worn = worn] = Things(bag, worn, g.chest, g.bar)
<1>1. /\ [g EXCEPT !.bag = bag] = Things(bag, g.worn, g.chest, g.bar)
      /\ [g EXCEPT !.chest = chest] = Things(g.bag, g.worn, chest, g.bar)
      /\ [g EXCEPT !.bar = bar] = Things(g.bag, g.worn, g.chest, bar)
  BY DEF Things
<1> DEFINE o == [g EXCEPT !.bag = bag]
<1>2. o = Things(bag, g.worn, g.chest, g.bar)
  BY <1>1
<1>3. [g EXCEPT !.bag = bag, !.chest = chest] = [o EXCEPT !.chest = chest]
      /\ [g EXCEPT !.bag = bag, !.worn = worn] = [o EXCEPT !.worn = worn]
  OBVIOUS
<1> HIDE DEF o
<1>4. [o EXCEPT !.chest = chest] = Things(bag, g.worn, chest, g.bar)
      /\ [o EXCEPT !.worn = worn] = Things(bag, worn, g.chest, g.bar)
  BY <1>2 DEF Things
<1> QED BY <1>1, <1>3, <1>4

\* And a session's copy.
LEMMA CopyWritten ==
    ASSUME NEW g, NEW bag, NEW worn
    PROVE  /\ [Copy(g) EXCEPT !.bag = bag] = [bag |-> bag, worn |-> g.worn, bar |-> g.bar]
           /\ [Copy(g) EXCEPT !.bag = bag, !.worn = worn] = [bag |-> bag, worn |-> worn, bar |-> g.bar]
<1>1. [Copy(g) EXCEPT !.bag = bag] = [bag |-> bag, worn |-> g.worn, bar |-> g.bar]
  BY DEF Copy
<1> DEFINE o == [Copy(g) EXCEPT !.bag = bag]
<1>2. o = [bag |-> bag, worn |-> g.worn, bar |-> g.bar]
  BY <1>1
<1>3. [Copy(g) EXCEPT !.bag = bag, !.worn = worn] = [o EXCEPT !.worn = worn]
  OBVIOUS
<1> HIDE DEF o
<1> QED BY <1>1, <1>2, <1>3

LEMMA CopyBarWritten ==
    ASSUME NEW g, NEW bar PROVE [Copy(g) EXCEPT !.bar = bar] = [bag |-> g.bag, worn |-> g.worn, bar |-> bar]
  BY DEF Copy

\* What a save of the character writes, and what its session then has.
Rearranged(c, o, h) == c \notin torn => Pile(o) /\ AsGiven(o) /\ h = Copy(o)

LEMMA StoredHeld ==
    ASSUME BelongingsHeld, NEW c \in Char, NEW o, NEW h, Stored(c, o, h), Rearranged(c, o, h)
    PROVE  BelongingsHeld' /\ UNCHANGED <<record, session, torn>>
<1>1. UNCHANGED <<record, session, torn>>
  BY DEF Stored
<1>2. \/ goods' = goods /\ held' = held
      \/ goods' = [goods EXCEPT ![c] = o] /\ held' = [held EXCEPT ![c] = h]
  BY DEF Stored
<1>3. CASE goods' = goods /\ held' = held
  BY <1>1, <1>3 DEF BelongingsHeld, HeldIsStored
<1>4. CASE goods' = [goods EXCEPT ![c] = o] /\ held' = [held EXCEPT ![c] = h]
  <2>1. goods' = [k \in Char |-> goods'[k]] /\ held' = [k \in Char |-> held'[k]]
    BY <1>4 DEF BelongingsHeld
  <2>2. goods'[c] = o /\ held'[c] = h /\ \A k \in Char : k # c => goods'[k] = goods[k] /\ held'[k] = held[k]
    BY <1>4 DEF BelongingsHeld
  <2>3. \A k \in Char : HeldIsStored(k)'
    BY <1>1, <2>2 DEF BelongingsHeld, HeldIsStored, Rearranged
  <2> QED BY <1>1, <2>1, <2>3 DEF BelongingsHeld
<1> QED BY <1>2, <1>3, <1>4

LEMMA PersistGearHeld ==
    ASSUME BelongingsHeld, NEW c \in Char, NEW h, PersistGear(c, h),
           Rearranged(c, [goods[c] EXCEPT !.bag = h.bag, !.worn = h.worn], h)
    PROVE  BelongingsHeld' /\ UNCHANGED <<record, session>> /\ torn \subseteq torn'
<1> DEFINE o == [goods[c] EXCEPT !.bag = h.bag, !.worn = h.worn]
<1>1. UNCHANGED <<record, session>> /\ held' = [held EXCEPT ![c] = h] /\ torn \subseteq torn'
  BY DEF PersistGear, Failing
<1>2. \/ goods' = [goods EXCEPT ![c].bag = h.bag, ![c].worn = h.worn] /\ torn' = torn
      \/ goods' = goods /\ torn' = torn \cup {c}
  BY DEF PersistGear, Failing
<1>3. held' = [k \in Char |-> held'[k]] /\ held'[c] = h /\ \A k \in Char : k # c => held'[k] = held[k]
  BY <1>1 DEF BelongingsHeld
<1>4. CASE goods' = goods /\ torn' = torn \cup {c}
  BY <1>1, <1>3, <1>4 DEF BelongingsHeld, HeldIsStored
<1>5. CASE goods' = [goods EXCEPT ![c].bag = h.bag, ![c].worn = h.worn] /\ torn' = torn
  <2>1. goods' = [goods EXCEPT ![c] = o]
    <3> DEFINE mid == [goods EXCEPT ![c].bag = h.bag]
    <3>1. goods' = [mid EXCEPT ![c].worn = h.worn]
      BY <1>5
    <3>2. mid = [goods EXCEPT ![c] = [goods[c] EXCEPT !.bag = h.bag]]
      OBVIOUS
    <3>3. mid = [k \in Char |-> mid[k]] /\ mid[c] = [goods[c] EXCEPT !.bag = h.bag]
          /\ \A k \in Char : k # c => mid[k] = goods[k]
      BY DEF BelongingsHeld
    <3>4. o = [mid[c] EXCEPT !.worn = h.worn]
      BY <3>3
    <3> HIDE DEF mid, o
    <3> QED BY <3>1, <3>3, <3>4 DEF BelongingsHeld
  <2> HIDE DEF o
  <2>2. goods' = [k \in Char |-> goods'[k]] /\ goods'[c] = o /\ \A k \in Char : k # c => goods'[k] = goods[k]
    BY <2>1 DEF BelongingsHeld
  <2>3. Rearranged(c, o, h)
    BY DEF o
  <2>4. \A k \in Char : HeldIsStored(k)'
    BY <1>3, <1>5, <2>2, <2>3 DEF BelongingsHeld, HeldIsStored, Rearranged
  <2> QED BY <1>1, <1>3, <2>2, <2>4 DEF BelongingsHeld
<1> QED BY <1>1, <1>2, <1>4, <1>5

-----------------------------------------------------------------------------
(* The handlers *)

\* The same things otherwise placed, as the store and the session are written.
Shifted(g, bag, chest) ==
    LET o == Things(bag, g.worn, chest, g.bar)
    IN  /\ Pile(o) /\ AsGiven(o)
        /\ [Copy(g) EXCEPT !.bag = bag] = Copy(o) /\ [g EXCEPT !.bag = bag, !.chest = chest] = o

\* What goes from the bag to the chest, or back.
LEMMA MovedBetween ==
    ASSUME NEW g, Pile(g), AsGiven(g), NEW bag \in Packed(PackSlots), NEW chest \in Packed(ChestSlots),
           NEW item, NEW n \in Int, Gains(g.bag, bag, item, n), Gains(g.chest, chest, item, -n)
    PROVE  Shifted(g, bag, chest)
<1> DEFINE o == Things(bag, g.worn, chest, g.bar)
<1>1. g = Things(g.bag, g.worn, g.chest, g.bar)
  BY DEF Pile
<1>2. o.bag = bag /\ o.worn = g.worn /\ o.chest = chest /\ o.bar = g.bar
      /\ Copy(o) = [bag |-> bag, worn |-> g.worn, bar |-> g.bar]
  BY ThingsFields
<1>3. [Copy(g) EXCEPT !.bag = bag] = Copy(o) /\ [g EXCEPT !.bag = bag, !.chest = chest] = o
  BY <1>1, <1>2, CopyWritten, ThingsWritten
<1>4. o = Things(o.bag, o.worn, o.chest, o.bar)
  BY <1>2
<1> HIDE DEF o
<1>5. Pile(o)
  BY <1>2, <1>4 DEF Pile
<1>6. ASSUME NEW x \in Items PROVE Total(o, x) = Given(x)
  <2>1. Amount(bag, x) = Amount(g.bag, x) + Of(x, item, n) /\ Amount(chest, x) = Amount(g.chest, x) + Of(x, item, -n)
    BY DEF Gains
  <2>2. Of(x, item, n) \in Int /\ Of(x, item, -n) \in Int /\ Of(x, item, n) + Of(x, item, -n) = 0
    BY DEF Of
  <2>3. Amount(g.bag, x) \in Int /\ Amount(g.chest, x) \in Int
    BY AmountTyped, GoodsTyped DEF Pile
  <2>4. Amount(bag, x) + Amount(chest, x) = Amount(g.bag, x) + Amount(g.chest, x)
    BY <2>1, <2>2, <2>3
  <2>5. Total(o, x) = Amount(bag, x) + Amount(chest, x) + (IF g.worn = x THEN 1 ELSE 0)
    BY <1>2 DEF Total
  <2>6. Total(g, x) = Amount(g.bag, x) + Amount(g.chest, x) + (IF g.worn = x THEN 1 ELSE 0)
    BY DEF Total
  <2>7. Total(o, x) = Total(g, x)
    BY <2>4, <2>5, <2>6
  <2> QED BY <2>7 DEF AsGiven
<1> QED BY <1>3, <1>5, <1>6 DEF AsGiven, Shifted, o

Dressed(g, bag, worn) ==
    LET o == Things(bag, worn, g.chest, g.bar)
    IN  /\ Pile(o) /\ AsGiven(o)
        /\ [Copy(g) EXCEPT !.bag = bag, !.worn = worn] = Copy(o) /\ [g EXCEPT !.bag = bag, !.worn = worn] = o

\* What is put on or taken off leaves or takes a slot of the bag.
LEMMA MovedOn ==
    ASSUME NEW g, Pile(g), AsGiven(g), NEW i \in 1..PackSlots, NEW s \in Pack, NEW worn \in Gear \cup {None},
           \A x \in Items : CountOf(s, x) + Of(x, worn, 1) = CountOf(g.bag[i], x) + Of(x, g.worn, 1)
    PROVE  Dressed(g, [g.bag EXCEPT ![i] = s], worn)
<1> DEFINE bag == [g.bag EXCEPT ![i] = s]
           o == Things(bag, worn, g.chest, g.bar)
<1>1. g = Things(g.bag, g.worn, g.chest, g.bar) /\ g.bag \in Packed(PackSlots)
  BY DEF Pile
<1>2. bag \in Packed(PackSlots) /\ bag[i] = s /\ \A k \in 1..PackSlots : k # i => bag[k] = g.bag[k]
  BY <1>1 DEF Packed
<1> HIDE DEF bag
<1>3. o.bag = bag /\ o.worn = worn /\ o.chest = g.chest /\ o.bar = g.bar
      /\ Copy(o) = [bag |-> bag, worn |-> worn, bar |-> g.bar]
  BY ThingsFields
<1>4. [Copy(g) EXCEPT !.bag = bag, !.worn = worn] = Copy(o) /\ [g EXCEPT !.bag = bag, !.worn = worn] = o
  <2>1. [Copy(g) EXCEPT !.bag = bag, !.worn = worn] = [bag |-> bag, worn |-> worn, bar |-> g.bar]
    BY CopyWritten
  <2>2. [g EXCEPT !.bag = bag, !.worn = worn] = o
    BY <1>1, ThingsWritten
  <2> QED BY <1>3, <2>1, <2>2
<1>5. o = Things(o.bag, o.worn, o.chest, o.bar)
  BY <1>3
<1> HIDE DEF o
<1>6. Pile(o)
  BY <1>2, <1>3, <1>5 DEF Pile
<1>7. ASSUME NEW x \in Items PROVE Total(o, x) = Given(x)
  <2>1. Amount(g.bag, x) \in Int /\ Amount(bag, x) = Amount(g.bag, x) + CountOf(bag[i], x) - CountOf(g.bag[i], x)
    BY <1>1, <1>2, AmountAt, GoodsTyped
  <2>2. Amount(g.chest, x) \in Int
    BY AmountTyped, GoodsTyped DEF Pile
  <2>3. CountOf(s, x) \in Int /\ CountOf(g.bag[i], x) \in Int
    <3>1. s.n \in Int /\ g.bag[i].n \in Int
      BY <1>1 DEF Packed, Pack
    <3> QED BY <3>1 DEF CountOf
  <2>4. CountOf(s, x) + Of(x, worn, 1) = CountOf(g.bag[i], x) + Of(x, g.worn, 1)
    OBVIOUS
  <2>5. Total(o, x) = Amount(bag, x) + Amount(g.chest, x) + Of(x, worn, 1)
    BY <1>3 DEF Total, Of
  <2>6. Total(g, x) = Amount(g.bag, x) + Amount(g.chest, x) + Of(x, g.worn, 1)
    BY DEF Total, Of
  <2>7. Of(x, worn, 1) \in Int /\ Of(x, g.worn, 1) \in Int
    BY DEF Of
  <2>8. Total(o, x) = Total(g, x)
    BY <1>2, <2>1, <2>2, <2>3, <2>4, <2>5, <2>6, <2>7
  <2> QED BY <2>8 DEF AsGiven
<1>8. Dressed(g, bag, worn)
  BY <1>4, <1>6, <1>7 DEF AsGiven, Dressed, o
<1> QED BY <1>8 DEF bag

\* In a character that is not torn the session shows what the store has.
LEMMA HeldShows ==
    ASSUME BelongingsHeld, NEW c \in Char, c \notin torn
    PROVE  /\ Pile(goods[c]) /\ AsGiven(goods[c]) /\ held[c] = Copy(goods[c])
           /\ held[c].bag = goods[c].bag /\ held[c].worn = goods[c].worn /\ held[c].bar = goods[c].bar
  BY DEF BelongingsHeld, HeldIsStored, Copy

LEMMA MoveInventoryHeld ==
    ASSUME BelongingsHeld, NEW c \in Char, HandleInventoryMove(c)
    PROVE  BelongingsHeld' /\ UNCHANGED <<record, session, torn>>
<1> DEFINE g == goods[c]
<1>1. PICK i \in 1..PackSlots, j \in 1..PackSlots : MoveInventorySlot(c, i, j)
  BY DEF HandleInventoryMove
<1> DEFINE bag == Swap(held[c].bag, i, j)
           o == [g EXCEPT !.bag = bag]
           h == [held[c] EXCEPT !.bag = bag]
<1>2. i # j /\ Stored(c, o, h)
  BY <1>1 DEF MoveInventorySlot, UpdateCharacterInventory
<1>3. Rearranged(c, o, h)
  <2> SUFFICES ASSUME c \notin torn PROVE Pile(o) /\ AsGiven(o) /\ h = Copy(o)
    BY DEF Rearranged
  <2>1. Pile(g) /\ AsGiven(g) /\ held[c] = Copy(g) /\ held[c].bag = g.bag
    BY HeldShows
  <2>2. g.bag \in Packed(PackSlots) /\ g.chest \in Packed(ChestSlots) /\ g = Things(g.bag, g.worn, g.chest, g.bar)
    BY <2>1 DEF Pile
  <2>3. bag \in Packed(PackSlots) /\ \A x : Amount(bag, x) = Amount(g.bag, x)
    BY <1>2, <2>1, <2>2, SwappedKeeps, GoodsTyped
  <2> HIDE DEF bag
  <2>4. Gains(g.bag, bag, None, 0) /\ Gains(g.chest, g.chest, None, -0)
    <3>1. \A x : Amount(g.bag, x) \in Int /\ Amount(g.chest, x) \in Int
      BY <2>2, AmountTyped, GoodsTyped
    <3> QED BY <2>3, <3>1 DEF Gains, Of
  <2>5. o = Things(bag, g.worn, g.chest, g.bar)
    BY <2>2, ThingsWritten
  <2> HIDE DEF o, g
  <2>6. 0 \in Int
    OBVIOUS
  <2>7. Shifted(g, bag, g.chest)
    BY <2>1, <2>2, <2>3, <2>4, <2>6, MovedBetween
  <2>8. h = [Copy(g) EXCEPT !.bag = bag]
    BY <2>1
  <2> QED BY <2>5, <2>7, <2>8 DEF Shifted
<1> HIDE DEF o, h
<1> QED BY <1>2, <1>3, StoredHeld

LEMMA EquipHeld ==
    ASSUME BelongingsHeld, NEW c \in Char, HandleInventoryEquip(c)
    PROVE  BelongingsHeld' /\ UNCHANGED <<record, session>> /\ torn \subseteq torn'
<1> DEFINE g == goods[c]
<1>1. PICK i \in 1..PackSlots : EquipInventorySlot(c, i)
  BY DEF HandleInventoryEquip
<1> DEFINE s == held[c].bag[i]
           off == IF held[c].worn = None THEN NoStack ELSE Stack(held[c].worn, 1)
           h == [held[c] EXCEPT !.bag[i] = off, !.worn = s.item]
           o == [g EXCEPT !.bag = h.bag, !.worn = h.worn]
<1>2. s.n = 1 /\ s.item \in Gear /\ PersistGear(c, h)
  BY <1>1 DEF EquipInventorySlot
<1>3. Rearranged(c, o, h)
  <2> SUFFICES ASSUME c \notin torn PROVE Pile(o) /\ AsGiven(o) /\ h = Copy(o)
    BY DEF Rearranged
  <2>1. Pile(g) /\ AsGiven(g) /\ held[c] = Copy(g) /\ held[c].bag = g.bag /\ held[c].worn = g.worn
    BY HeldShows
  <2>2. g.bag \in Packed(PackSlots) /\ g.worn \in Gear \cup {None} /\ g = Things(g.bag, g.worn, g.chest, g.bar)
    BY <2>1 DEF Pile
  <2> DEFINE bag == [g.bag EXCEPT ![i] = off]
  <2>3. h = [Copy(g) EXCEPT !.bag = bag, !.worn = s.item]
    <3> HIDE DEF off
    <3> QED BY <2>1
  <2>4. off \in Pack /\ \A x \in Items : CountOf(off, x) = Of(x, g.worn, 1)
    <3>1. \A x \in Items : CountOf(off, x) = Of(x, g.worn, 1)
      BY <2>1, PackOf, GoodsTyped DEF CountOf, Of, NoStack, Stack
    <3>2. off \in Pack
      BY <2>1, <2>2, PackOf DEF Items
    <3> QED BY <3>1, <3>2
  <2>5. \A x \in Items : CountOf(g.bag[i], x) = Of(x, s.item, 1)
    BY <1>2, <2>1 DEF CountOf, Of
  <2> HIDE DEF off
  <2>6. \A x \in Items : CountOf(off, x) + Of(x, s.item, 1) = CountOf(g.bag[i], x) + Of(x, g.worn, 1)
    BY <2>4, <2>5 DEF Of
  <2> DEFINE new == Things(bag, s.item, g.chest, g.bar)
  <2>7. /\ Pile(new) /\ AsGiven(new) /\ [Copy(g) EXCEPT !.bag = bag, !.worn = s.item] = Copy(new)
        /\ [g EXCEPT !.bag = bag, !.worn = s.item] = new
    <3>1. s.item \in Gear \cup {None}
      BY <1>2
    <3> HIDE DEF s, g
    <3>2. Dressed(g, [g.bag EXCEPT ![i] = off], s.item)
      BY <2>1, <2>4, <2>6, <3>1, MovedOn
    <3> QED BY <3>2 DEF Dressed
  <2>8. Copy(new).bag = bag /\ Copy(new).worn = s.item
    BY ThingsFields
  <2> HIDE DEF h, new, bag
  <2>9. h = Copy(new) /\ h.bag = bag /\ h.worn = s.item
    BY <2>3, <2>7, <2>8
  <2>10. o = new
    BY <2>7, <2>9
  <2> QED BY <2>7, <2>9, <2>10
<1> HIDE DEF h
<1> QED BY <1>2, <1>3, PersistGearHeld

LEMMA UnequipHeld ==
    ASSUME BelongingsHeld, NEW c \in Char, HandleInventoryUnequip(c)
    PROVE  BelongingsHeld' /\ UNCHANGED <<record, session>> /\ torn \subseteq torn'
<1> DEFINE g == goods[c]
           i == First(Empty(held[c].bag))
           s == Stack(held[c].worn, 1)
           h == [held[c] EXCEPT !.bag[i] = s, !.worn = None]
           o == [g EXCEPT !.bag = h.bag, !.worn = h.worn]
<1>2. held[c].worn # None /\ Empty(held[c].bag) # {} /\ PersistGear(c, h)
  BY DEF HandleInventoryUnequip, UnequipEquipmentSlot
<1>3. Rearranged(c, o, h)
  <2> SUFFICES ASSUME c \notin torn PROVE Pile(o) /\ AsGiven(o) /\ h = Copy(o)
    BY DEF Rearranged
  <2>1. Pile(g) /\ AsGiven(g) /\ held[c] = Copy(g) /\ held[c].bag = g.bag /\ held[c].worn = g.worn
    BY HeldShows
  <2>2. g.bag \in Packed(PackSlots) /\ g.worn \in Gear /\ g = Things(g.bag, g.worn, g.chest, g.bar)
    BY <1>2, <2>1 DEF Pile
  <2>3. i \in 1..PackSlots /\ g.bag[i] = NoStack
    <3> DEFINE T == Empty(g.bag)
    <3>1. T # {} /\ T = {k \in 1..PackSlots : g.bag[k] = NoStack}
      BY <1>2, <2>1, <2>2 DEF Empty, Packed
    <3>2. First(T) \in T
      <4>1. T \in SUBSET Nat
        BY <3>1
      <4> HIDE DEF T
      <4>2. PICK k \in T : \A y \in T : ~(<<y, k>> \in OpToRel(<, Nat))
        BY <3>1, <4>1, NatLessThanWellFounded, WFMin
      <4>3. \A y \in T : ~(y < k)
        BY <4>1, <4>2 DEF OpToRel
      <4>4. \A y \in T : k <= y
        BY <4>1, <4>3
      <4> QED BY <4>4 DEF First
    <3>3. i = First(T)
      BY <2>1
    <3> HIDE DEF T, i
    <3> QED BY <3>1, <3>2, <3>3
  <2> HIDE DEF i
  <2> DEFINE bag == [g.bag EXCEPT ![i] = s]
  <2>4. h = [Copy(g) EXCEPT !.bag = bag, !.worn = None]
    <3> HIDE DEF s
    <3> QED BY <2>1
  <2>5. s \in Pack /\ \A x \in Items : CountOf(s, x) = Of(x, g.worn, 1)
    BY <2>1, <2>2, PackOf DEF Items
  <2>6. \A x \in Items : CountOf(g.bag[i], x) = 0 /\ Of(x, None, 1) = 0 /\ Of(x, g.worn, 1) \in Int
    BY <2>3, PackOf, GoodsTyped DEF Of
  <2> HIDE DEF s
  <2>7. \A x \in Items : CountOf(s, x) + Of(x, None, 1) = CountOf(g.bag[i], x) + Of(x, g.worn, 1)
    BY <2>5, <2>6
  <2> DEFINE new == Things(bag, None, g.chest, g.bar)
  <2>8. /\ Pile(new) /\ AsGiven(new) /\ [Copy(g) EXCEPT !.bag = bag, !.worn = None] = Copy(new)
        /\ [g EXCEPT !.bag = bag, !.worn = None] = new
    <3>1. None \in Gear \cup {None}
      OBVIOUS
    <3> HIDE DEF g
    <3>2. Dressed(g, [g.bag EXCEPT ![i] = s], None)
      BY <2>1, <2>3, <2>5, <2>7, <3>1, MovedOn
    <3> QED BY <3>2 DEF Dressed
  <2>9. Copy(new).bag = bag /\ Copy(new).worn = None
    BY ThingsFields
  <2> HIDE DEF h, new, bag
  <2>10. h = Copy(new) /\ h.bag = bag /\ h.worn = None
    BY <2>4, <2>8, <2>9
  <2>11. o = new
    BY <2>8, <2>10
  <2> QED BY <2>8, <2>10, <2>11
<1> HIDE DEF h
<1> QED BY <1>2, <1>3, PersistGearHeld

LEMMA DepositHeld ==
    ASSUME BelongingsHeld, NEW c \in Char, HandleHousingStorageDeposit(c)
    PROVE  BelongingsHeld' /\ UNCHANGED <<record, session, torn>>
<1> DEFINE g == goods[c]
<1>1. PICK i \in 1..PackSlots, where \in 0..ChestSlots, n \in 1..MaxStack : DepositHousingStorage(c, i, where, n)
  BY DEF HandleHousingStorageDeposit
<1> DEFINE item == held[c].bag[i].item
           bag == TakeFromBag(held[c].bag, i, n)
           h == [held[c] EXCEPT !.bag = bag]
<1>2. PICK chest \in AddToChest(g.chest, where, item, n) : Stored(c, [g EXCEPT !.bag = bag, !.chest = chest], h)
  BY <1>1 DEF DepositHousingStorage, UpdateCharacterInventoryAndHousingStorage
<1> DEFINE o == [g EXCEPT !.bag = bag, !.chest = chest]
<1>3. Rearranged(c, o, h)
  <2> SUFFICES ASSUME c \notin torn PROVE Pile(o) /\ AsGiven(o) /\ h = Copy(o)
    BY DEF Rearranged
  <2>1. Pile(g) /\ AsGiven(g) /\ held[c] = Copy(g) /\ held[c].bag = g.bag
    BY HeldShows
  <2>2. g.bag \in Packed(PackSlots) /\ g.chest \in Packed(ChestSlots)
    BY <2>1 DEF Pile
  <2>3. n \in Int /\ -n \in Int /\ - -n = n /\ item \in Items \cup {None}
    BY <2>1, <2>2, GoodsTyped DEF Packed, Pack
  <2>4. bag \in Packed(PackSlots) /\ Gains(g.bag, bag, item, -n)
    <3>1. g.bag[i].item = item /\ bag = TakeFromBag(g.bag, i, n)
      BY <2>1
    <3> HIDE DEF g, bag, item
    <3>2. /\ TakeFromBag(g.bag, i, n) \in Packed(PackSlots)
          /\ Gains(g.bag, TakeFromBag(g.bag, i, n), g.bag[i].item, -n)
      BY <2>2, <2>3, TakenGains, GoodsTyped
    <3> QED BY <3>1, <3>2
  <2>5. chest \in Packed(ChestSlots) /\ Gains(g.chest, chest, item, n)
    <3> HIDE DEF g, item
    <3>1. CASE where = 0
      BY <2>2, <2>3, <3>1, SpreadGains, GoodsTyped DEF AddToChest
    <3>2. CASE where # 0
      BY <2>2, <2>3, <3>2, AddedGains, GoodsTyped DEF AddToChest
    <3> QED BY <3>1, <3>2
  <2> HIDE DEF bag, g, item
  <2>6. Gains(g.chest, chest, item, - -n)
    BY <2>3, <2>5
  <2>7. Shifted(g, bag, chest)
    BY <2>1, <2>3, <2>4, <2>5, <2>6, MovedBetween
  <2>8. h = [Copy(g) EXCEPT !.bag = bag]
    BY <2>1
  <2> QED BY <2>7, <2>8 DEF Shifted
<1> HIDE DEF o, h
<1> QED BY <1>2, <1>3, StoredHeld DEF o

LEMMA WithdrawHeld ==
    ASSUME BelongingsHeld, NEW c \in Char, HandleHousingStorageWithdraw(c)
    PROVE  BelongingsHeld' /\ UNCHANGED <<record, session, torn>>
<1> DEFINE g == goods[c]
<1>1. PICK i \in 1..ChestSlots, where \in 0..PackSlots, n \in 1..MaxStack : WithdrawHousingStorage(c, i, where, n)
  BY DEF HandleHousingStorageWithdraw
<1> DEFINE item == g.chest[i].item
           chest == TakeFromChest(g.chest, i, n)
<1>2. PICK bag \in AddToBag(held[c].bag, where, item, n) :
          Stored(c, [g EXCEPT !.bag = bag, !.chest = chest], [held[c] EXCEPT !.bag = bag])
  BY <1>1 DEF WithdrawHousingStorage, UpdateCharacterInventoryAndHousingStorage
<1> DEFINE o == [g EXCEPT !.bag = bag, !.chest = chest]
           h == [held[c] EXCEPT !.bag = bag]
<1>3. Rearranged(c, o, h)
  <2> SUFFICES ASSUME c \notin torn PROVE Pile(o) /\ AsGiven(o) /\ h = Copy(o)
    BY DEF Rearranged
  <2>1. Pile(g) /\ AsGiven(g) /\ held[c] = Copy(g) /\ held[c].bag = g.bag
    BY HeldShows
  <2>2. g.bag \in Packed(PackSlots) /\ g.chest \in Packed(ChestSlots)
    BY <2>1 DEF Pile
  <2>3. n \in Int /\ item \in Items \cup {None}
    BY <2>2, GoodsTyped DEF Packed, Pack
  <2>4. chest \in Packed(ChestSlots) /\ Gains(g.chest, chest, item, -n)
    <3> HIDE DEF g
    <3>1. /\ TakeFromBag(g.chest, i, n) \in Packed(ChestSlots) /\ chest = TakeFromBag(g.chest, i, n)
          /\ Gains(g.chest, TakeFromBag(g.chest, i, n), item, -n)
      BY <2>2, <2>3, TakenGains, GoodsTyped
    <3> QED BY <3>1
  <2>5. bag \in Packed(PackSlots) /\ Gains(g.bag, bag, item, n)
    <3>0. bag \in AddToBag(g.bag, where, item, n)
      BY <1>2, <2>1
    <3> HIDE DEF g, item
    <3>1. CASE where = 0
      BY <2>2, <2>3, <3>0, <3>1, SpreadGains, GoodsTyped DEF AddToBag
    <3>2. CASE where # 0
      BY <2>2, <2>3, <3>0, <3>2, AddedGains, GoodsTyped DEF AddToBag
    <3> QED BY <3>1, <3>2
  <2> HIDE DEF chest, g, item
  <2>6. Shifted(g, bag, chest)
    BY <2>1, <2>3, <2>4, <2>5, MovedBetween
  <2>7. h = [Copy(g) EXCEPT !.bag = bag]
    BY <2>1
  <2> QED BY <2>6, <2>7 DEF Shifted
<1> HIDE DEF o, h
<1> QED BY <1>2, <1>3, StoredHeld DEF o, h

LEMMA MoveHousingHeld ==
    ASSUME BelongingsHeld, NEW c \in Char, HandleHousingStorageMove(c)
    PROVE  BelongingsHeld' /\ UNCHANGED <<record, session, torn>>
<1> DEFINE g == goods[c]
<1>1. PICK i \in 1..ChestSlots, j \in 1..ChestSlots : MoveHousingStorage(c, i, j)
  BY DEF HandleHousingStorageMove
<1> DEFINE from == g.chest[i]
           to == g.chest[j]
           room == MaxStack - to.n
           n == IF from.n <= room THEN from.n ELSE room
           merges == from.item = to.item /\ from.item \notin Gear /\ room > 0
           chest == IF merges THEN [TakeFromChest(g.chest, i, n) EXCEPT ![j].n = @ + n] ELSE Swap(g.chest, i, j)
           o == [g EXCEPT !.chest = chest]
<1>2. i # j /\ Stored(c, o, held[c])
  BY <1>1 DEF MoveHousingStorage, UpdateHousingStorage
<1>3. Rearranged(c, o, held[c])
  <2> SUFFICES ASSUME c \notin torn PROVE Pile(o) /\ AsGiven(o) /\ held[c] = Copy(o)
    BY DEF Rearranged
  <2>1. Pile(g) /\ AsGiven(g) /\ held[c] = Copy(g)
    BY HeldShows
  <2>2. g.bag \in Packed(PackSlots) /\ g.chest \in Packed(ChestSlots) /\ g = Things(g.bag, g.worn, g.chest, g.bar)
    BY <2>1 DEF Pile
  <2>3. n \in Int
    <3>1. from.n \in Int /\ to.n \in Int
      BY <2>2 DEF Packed, Pack
    <3> QED BY <3>1, GoodsTyped
  <2>4. chest \in Packed(ChestSlots) /\ \A x \in Items : Amount(chest, x) = Amount(g.chest, x)
    <3>1. CASE merges
      <4>1. from.item = to.item /\ chest = Merged(g.chest, i, j, n)
        BY <3>1 DEF Merged
      <4> HIDE DEF n, chest, g
      <4> QED BY <1>2, <2>2, <2>3, <4>1, MergedKeeps, GoodsTyped
    <3>2. CASE ~merges
      <4>1. chest = Swap(g.chest, i, j)
        BY <3>2
      <4> HIDE DEF n, chest, g
      <4> QED BY <1>2, <2>2, <4>1, SwappedKeeps, GoodsTyped
    <3> QED BY <3>1, <3>2
  <2> HIDE DEF chest, g
  <2>5. o = Things(g.bag, g.worn, chest, g.bar)
    BY <2>2, ThingsWritten
  <2> HIDE DEF o
  <2>6. o.bag = g.bag /\ o.worn = g.worn /\ o.chest = chest /\ o.bar = g.bar /\ o = Things(o.bag, o.worn, o.chest, o.bar)
    BY <2>5, ThingsFields
  <2>7. Pile(o)
    BY <2>1, <2>4, <2>6 DEF Pile
  <2>8. AsGiven(o)
    BY <2>1, <2>4, <2>6 DEF AsGiven, Total
  <2>9. Copy(o) = Copy(g)
    BY <2>6 DEF Copy
  <2> QED BY <2>1, <2>7, <2>8, <2>9
<1> HIDE DEF o
<1> QED BY <1>2, <1>3, StoredHeld

\* What the store keeps of a bar, the session that knows as much keeps too.
LEMMA BarHeld ==
    ASSUME BelongingsHeld, NEW c \in Char, NEW bar, UpdateCharacterActionBarSlots(c, bar),
           c \notin torn => (record[c].learned => session[c].learned)
    PROVE  BelongingsHeld' /\ UNCHANGED <<record, session, torn>>
<1> DEFINE g == goods[c]
           kept == OnBar(bar, record[c])
           o == [g EXCEPT !.bar = kept]
           h == [held[c] EXCEPT !.bar = OnBar(kept, session[c])]
<1>1. Stored(c, o, h)
  BY DEF UpdateCharacterActionBarSlots
<1>2. Rearranged(c, o, h)
  <2> SUFFICES ASSUME c \notin torn PROVE Pile(o) /\ AsGiven(o) /\ h = Copy(o)
    BY DEF Rearranged
  <2>1. Pile(g) /\ AsGiven(g) /\ held[c] = Copy(g)
    BY HeldShows
  <2>2. OnBar(kept, session[c]) = kept
    <3>1. KnownAbilities(record[c]) \subseteq KnownAbilities(session[c])
      BY DEF KnownAbilities
    <3>2. kept = [k \in 1..BarSlots |-> kept[k]] /\ \A k \in 1..BarSlots : kept[k] \in KnownAbilities(record[c]) \cup {None}
      BY DEF OnBar
    <3> HIDE DEF kept
    <3>3. \A k \in 1..BarSlots : (IF kept[k] \in KnownAbilities(session[c]) THEN kept[k] ELSE None) = kept[k]
      BY <3>1, <3>2
    <3>4. OnBar(kept, session[c]) = [k \in 1..BarSlots |-> kept[k]]
      BY <3>3 DEF OnBar
    <3> QED BY <3>2, <3>4
  <2> HIDE DEF kept, g
  <2>3. g = Things(g.bag, g.worn, g.chest, g.bar)
    BY <2>1 DEF Pile
  <2>4. o = Things(g.bag, g.worn, g.chest, kept)
    BY <2>3, ThingsWritten
  <2>5. h = [bag |-> g.bag, worn |-> g.worn, bar |-> kept]
    BY <2>1, <2>2, CopyBarWritten
  <2> HIDE DEF o, h
  <2>6. o.bag = g.bag /\ o.worn = g.worn /\ o.chest = g.chest /\ o.bar = kept /\ o = Things(o.bag, o.worn, o.chest, o.bar)
    BY <2>4, ThingsFields
  <2>7. Pile(o)
    BY <2>1, <2>6 DEF Pile
  <2>8. AsGiven(o)
    BY <2>1, <2>6 DEF AsGiven, Total
  <2>9. Copy(o) = h
    BY <2>5, <2>6 DEF Copy
  <2> QED BY <2>7, <2>8, <2>9
<1> HIDE DEF o, h
<1> QED BY <1>1, <1>2, StoredHeld

LEMMA CarriedHeld ==
    ASSUME BelongingsInv, NEW c \in Char, scene \in {"bag", "bar"}, BagNext(c) \/ BarNext(c)
    PROVE  BelongingsHeld' /\ UNCHANGED <<record, session>> /\ torn \subseteq torn'
<1>1. BelongingsHeld
  BY DEF BelongingsInv
<1>2. CASE BagNext(c)
  BY <1>1, <1>2, MoveInventoryHeld, EquipHeld, UnequipHeld, DepositHeld, WithdrawHeld, MoveHousingHeld DEF BagNext
<1>3. CASE BarNext(c)
  <2>1. InWorld(c) /\ \E bar : UpdateCharacterActionBarSlots(c, bar)
    BY <1>3 DEF BarNext, HandleActionBarAssign, HandleActionBarClear, HandleActionBarMove, AssignActionBarSlot,
                ClearActionBarSlot, MoveActionBarSlot
  <2>2. c \notin torn => (record[c].learned => session[c].learned)
    BY <2>1 DEF BelongingsInv, SessionKnows
  <2> QED BY <1>1, <2>1, <2>2, BarHeld
<1> QED BY <1>2, <1>3

-----------------------------------------------------------------------------
(* At first *)

LEMMA GearInOrder ==
    LET f == SetToSeq(Gear) IN
    /\ f \in [1..Cardinality(Gear) -> Gear]
    /\ \A i, j \in 1..Cardinality(Gear) : f[i] = f[j] => i = j
    /\ \A x \in Gear : \E i \in 1..Cardinality(Gear) : f[i] = x
<1> DEFINE K == Cardinality(Gear)
           f == SetToSeq(Gear)
<1>1. K \in Nat /\ ExistsBijection(1..K, Gear)
  BY GoodsTyped, FS_CardinalityType
<1>2. PICK b : b \in Bijection(1..K, Gear)
  BY <1>1 DEF ExistsBijection
<1>3. b \in [1..K -> Gear] /\ IsInjective(b)
  BY <1>2 DEF Bijection, Injection
<1>4. f \in [1..K -> Gear] /\ IsInjective(f)
  BY <1>3 DEF SetToSeq
<1> HIDE DEF f
<1>5. f \in Injection(1..K, Gear)
  BY <1>4 DEF Injection
<1>6. IsFiniteSet(1..K) /\ Cardinality(1..K) = K
  BY <1>1, FS_Interval
<1>7. f \in Surjection(1..K, Gear)
  <2> HIDE DEF K
  <2>1. Cardinality(Gear) = K
    BY DEF K
  <2> QED BY <1>5, <1>6, <2>1, GoodsTyped, FS_Injection
<1>8. \A x \in Gear : \E i \in 1..K : f[i] = x
  BY <1>7 DEF Surjection
<1>9. \A i, j \in 1..K : f[i] = f[j] => i = j
  BY <1>4 DEF IsInjective
<1> QED BY <1>4, <1>8, <1>9 DEF f

\* What only one slot holds.
LEMMA AmountOne ==
    ASSUME NEW N \in Nat, NEW slots \in Packed(N), NEW j \in 1..N, NEW x \in Items,
           \A i \in 1..N : i # j => CountOf(slots[i], x) = 0
    PROVE  Amount(slots, x) = CountOf(slots[j], x)
<1> DEFINE none == [slots EXCEPT ![j] = NoStack]
<1>1. none \in Packed(N) /\ none[j] = NoStack /\ \A i \in 1..N : i # j => none[i] = slots[i]
  BY PackOf DEF Packed
<1> HIDE DEF none
<1>2. \A i \in 1..N : CountOf(none[i], x) = 0
  BY <1>1, PackOf
<1>3. Amount(none, x) = 0
  BY <1>1, <1>2, AmountNone
<1>4. Amount(slots, x) = Amount(none, x) + CountOf(slots[j], x) - CountOf(none[j], x)
  BY <1>1, AmountAt
<1>5. CountOf(slots[j], x) \in Int
  BY DEF Packed, Pack, CountOf
<1> QED BY <1>1, <1>2, <1>3, <1>4, <1>5

LEMMA BelongingsStart ==
    ASSUME Init PROVE BelongingsInv
<1> DEFINE K == Cardinality(Gear)
           f == SetToSeq(Gear)
           things == [i \in 1..K |-> Stack(f[i], 1)] \o <<Stack("ore", OreGiven)>>
           bag == [i \in 1..PackSlots |-> IF i \in DOMAIN things THEN things[i] ELSE NoStack]
           chest == [i \in 1..ChestSlots |-> NoStack]
           bar == [i \in 1..BarSlots |-> IF i = 1 THEN "strike" ELSE None]
           g == Things(bag, None, chest, bar)
<1>1. goods = [c \in Char |-> g] /\ held = [c \in Char |-> Copy(goods[c])]
  BY DEF Init, BelongingsInit, Things
<1>2. /\ K \in Nat /\ K + 1 \in 1..PackSlots
      /\ f \in [1..K -> Gear] /\ \A i, j \in 1..K : f[i] = f[j] => i = j
      /\ \A x \in Gear : \E i \in 1..K : f[i] = x
  BY GoodsTyped, GearInOrder, FS_CardinalityType
<1> HIDE DEF f
<1>3. \A i \in 1..PackSlots : bag[i] = IF i <= K THEN Stack(f[i], 1)
                                       ELSE IF i = K + 1 THEN Stack("ore", OreGiven) ELSE NoStack
  <2>1. DOMAIN things = 1..(K + 1)
    BY <1>2
  <2>2. \A i \in 1..K : things[i] = Stack(f[i], 1)
    BY <1>2
  <2>3. things[K + 1] = Stack("ore", OreGiven)
    BY <1>2
  <2> HIDE DEF things, K
  <2> QED BY <1>2, <2>1, <2>2, <2>3, GoodsTyped
<1>4. \A i \in 1..PackSlots : bag[i] \in Pack
  <2>1. \A i \in 1..K : f[i] \in Items /\ Stack(f[i], 1) \in Pack
    BY <1>2, PackOf DEF Items
  <2>2. Stack("ore", OreGiven) \in Pack
    BY GoodsTyped, PackOf DEF Items
  <2> HIDE DEF bag, K
  <2> QED BY <1>2, <1>3, <2>1, <2>2, PackOf, GoodsTyped
<1>5. bag = [i \in 1..PackSlots |-> bag[i]] /\ bag \in Packed(PackSlots)
  <2>1. bag = [i \in 1..PackSlots |-> bag[i]]
    OBVIOUS
  <2> HIDE DEF bag
  <2>2. bag \in [1..PackSlots -> Pack]
    BY <1>4, <2>1
  <2> QED BY <2>1, <2>2 DEF Packed
<1>6. chest \in Packed(ChestSlots) /\ \A x \in Items : Amount(chest, x) = 0
  <2>1. chest \in Packed(ChestSlots) /\ \A i \in 1..ChestSlots : chest[i] = NoStack
    BY PackOf DEF Packed
  <2> HIDE DEF chest
  <2> QED BY <2>1, PackOf, AmountNone, GoodsTyped
<1> HIDE DEF bag, chest, bar, things, K
<1>7. ASSUME NEW x \in Items PROVE Amount(bag, x) = Given(x)
  <2>1. \A i \in 1..PackSlots : CountOf(bag[i], x)
           = IF i <= K THEN Of(x, f[i], 1) ELSE IF i = K + 1 THEN Of(x, "ore", OreGiven) ELSE 0
    <3> SUFFICES ASSUME NEW i \in 1..PackSlots
                 PROVE  CountOf(bag[i], x) = IF i <= K THEN Of(x, f[i], 1)
                                             ELSE IF i = K + 1 THEN Of(x, "ore", OreGiven) ELSE 0
      OBVIOUS
    <3>1. CASE i <= K
      <4>1. i \in 1..K /\ f[i] \in Items
        BY <1>2, <3>1, GoodsTyped DEF Items
      <4> QED BY <1>3, <3>1, <4>1, PackOf
    <3>2. CASE i = K + 1
      <4>1. bag[i] = Stack("ore", OreGiven) /\ ~(i <= K)
        BY <1>2, <1>3, <3>2
      <4> QED BY <3>2, <4>1, PackOf, GoodsTyped DEF Items
    <3>3. CASE ~(i <= K) /\ i # K + 1
      BY <1>3, <3>3, PackOf
    <3> QED BY <3>1, <3>2, <3>3
  <2>2. CASE x = "ore"
    <3>1. \A i \in 1..PackSlots : CountOf(bag[i], x) = IF i = K + 1 THEN OreGiven ELSE 0
      <4>1. \A i \in 1..K : f[i] # x
        BY <1>2, <2>2, GoodsTyped
      <4> QED BY <1>2, <2>1, <2>2, <4>1 DEF Of
    <3>2. Amount(bag, x) = CountOf(bag[K + 1], x)
      BY <1>2, <1>5, <3>1, AmountOne, GoodsTyped
    <3> QED BY <1>2, <2>2, <3>1, <3>2, GoodsTyped DEF Given
  <2>3. CASE x \in Gear
    <3>1. PICK j \in 1..K : f[j] = x
      BY <1>2, <2>3
    <3>2. j \in 1..PackSlots /\ j <= K
      BY <1>2, GoodsTyped
    <3>3. \A i \in 1..PackSlots : CountOf(bag[i], x) = IF i = j THEN 1 ELSE 0
      <4>1. \A i \in 1..K : f[i] = x <=> i = j
        BY <1>2, <3>1
      <4>2. x # "ore"
        BY <2>3, GoodsTyped
      <4> QED BY <1>2, <2>1, <3>2, <4>1, <4>2 DEF Of
    <3>4. Amount(bag, x) = CountOf(bag[j], x)
      BY <1>5, <3>2, <3>3, AmountOne, GoodsTyped
    <3> QED BY <2>3, <3>2, <3>3, <3>4 DEF Given
  <2> QED BY <2>2, <2>3 DEF Items
<1>8. g.bag = bag /\ g.worn = None /\ g.chest = chest /\ g.bar = bar
  BY ThingsFields
<1>9. g = Things(g.bag, g.worn, g.chest, g.bar)
  BY <1>8
<1> HIDE DEF g
<1>10. Pile(g)
  BY <1>5, <1>6, <1>8, <1>9 DEF Pile
<1>11. AsGiven(g)
  <2> SUFFICES ASSUME NEW x \in Items PROVE Total(g, x) = Given(x)
    BY DEF AsGiven
  <2>1. Amount(bag, x) = Given(x) /\ Amount(chest, x) = 0 /\ x # None
    BY <1>6, <1>7, GoodsTyped
  <2>2. Given(x) \in Int
    BY GoodsTyped DEF Given
  <2> QED BY <1>8, <2>1, <2>2 DEF Total
<1>12. \A c \in Char : HeldIsStored(c)
  BY <1>1, <1>10, <1>11 DEF HeldIsStored
<1>13. \A c \in Char : ~InWorld(c)
  BY DEF Init, CareersInit, InWorld
<1>14. goods = [c \in Char |-> goods[c]] /\ held = [c \in Char |-> held[c]]
  BY <1>1
<1> QED BY <1>12, <1>13, <1>14 DEF BelongingsInv, BelongingsHeld, SessionKnows

-----------------------------------------------------------------------------
(* And on *)

LEMMA LearnerKnows ==
    ASSUME Kept, NEW c \in Char, HandleTrainerLearn(c)
    PROVE  /\ torn \subseteq torn' /\ \A k \in Char : k # c => record'[k] = record[k] /\ session'[k] = session[k]
           /\ c \notin torn' => session'[c] = record'[c]
<1>1. PICK t : PersistProgression(c, t)
  BY DEF HandleTrainerLearn, LearnAbility
<1> QED BY <1>1 DEF PersistProgression, Failing, Kept

LEMMA CarriedBelongings ==
    ASSUME IInv, BelongingsInv, Carried, UNCHANGED scene PROVE BelongingsInv'
<1>0. Kept /\ BelongingsHeld
  BY DEF IInv, BelongingsInv
<1>1. ASSUME NEW c \in Char, scene \in {"bag", "bar"}, BagNext(c) \/ BarNext(c) PROVE BelongingsInv'
  <2>1. BelongingsHeld' /\ UNCHANGED <<record, session>> /\ torn \subseteq torn'
    BY <1>1, CarriedHeld
  <2>2. \A k \in Char : SessionKnows(k)'
    BY <2>1 DEF BelongingsInv, SessionKnows, InWorld
  <2> QED BY <2>1, <2>2 DEF BelongingsInv
<1>2. ASSUME NEW c \in Char, HandleTrainerLearn(c), UNCHANGED belongings PROVE BelongingsInv'
  <2>1. /\ torn \subseteq torn' /\ \A k \in Char : k # c => record'[k] = record[k] /\ session'[k] = session[k]
        /\ c \notin torn' => session'[c] = record'[c]
    BY <1>0, <1>2, LearnerKnows
  <2>2. BelongingsHeld'
    BY <1>0, <1>2, <2>1 DEF BelongingsHeld, HeldIsStored, belongings
  <2>3. \A k \in Char : SessionKnows(k)'
    BY <2>1 DEF BelongingsInv, SessionKnows, InWorld
  <2> QED BY <2>2, <2>3 DEF BelongingsInv
<1>3. ASSUME NEW c \in Char, Enter(c) \/ Leave(c), Carry(c) PROVE BelongingsInv'
  <2>1. /\ UNCHANGED <<record, torn, goods>> /\ held' = [held EXCEPT ![c] = Copy(goods[c])]
        /\ \A k \in Char : k # c => session'[k] = session[k]
        /\ session'[c] = LoadQuests(record[c]) \/ session'[c] = None
    BY <1>0, <1>3 DEF Enter, Leave, Carry, Kept
  <2>2. held' = [k \in Char |-> held'[k]] /\ held'[c] = Copy(goods[c]) /\ \A k \in Char : k # c => held'[k] = held[k]
    BY <1>0, <2>1 DEF BelongingsHeld
  <2>3. BelongingsHeld'
    BY <1>0, <2>1, <2>2 DEF BelongingsHeld, HeldIsStored
  <2>4. LoadQuests(record[c]).learned = record[c].learned
    BY <1>0 DEF LoadQuests, Kept, Sound, Sheet
  <2>5. \A k \in Char : SessionKnows(k)'
    BY <2>1, <2>4 DEF BelongingsInv, SessionKnows, InWorld
  <2> QED BY <2>3, <2>5 DEF BelongingsInv
<1>4. Learners \subseteq Char
  BY LearnersAssumption
<1> QED BY <1>1, <1>2, <1>3, <1>4 DEF Carried

\* Whose save has failed stays among them.
LEMMA TornStay ==
    ASSUME IInv, Careered PROVE torn \subseteq torn' /\ scene \in {"quests", "growth"}
<1>1. ASSUME Evolves PROVE torn \subseteq torn'
  BY <1>1 DEF Evolves, Alters, IInv, Kept
<1>2. CASE /\ scene = "quests"
           /\ QuestsNext \/ \E c \in Char : HandleTrainerLearn(c) \/ HandleProfessionLearn(c)
  BY <1>1, <1>2, QuestsNextEvolves, LearnAbilityEvolves, LearnProfessionEvolves DEF IInv
<1>3. CASE scene = "growth" /\ GrowthNext
  BY <1>1, <1>3, GrowthEvolves DEF IInv
<1>4. CASE scene \in {"quests", "growth"} /\ Requests
  <2>1. CASE FinishRequest
    BY <1>4, <2>1 DEF FinishRequest, FinishInWorld, FinishInAdminService, Done
  <2>2. ASSUME NEW c \in Learners, InvalidateSession(c) PROVE torn' = torn
    BY <2>2 DEF InvalidateSession, Leave
  <2>3. ASSUME NEW c, NEW M, NEW live, NEW out, Begin(c, M, live, out) PROVE torn' = torn
    BY <2>3 DEF Begin
  <2>4. ASSUME NEW c \in Learners, QuestRequests(c) PROVE torn' = torn
    BY <2>3, <2>4 DEF QuestRequests, QuestsReset, QuestsCompleteObjective, Repair, HandleAdminRepair, AdminService
  <2>5. ASSUME NEW c \in Learners, GoodsRequests(c) PROVE torn' = torn
    BY <2>3, <2>5 DEF GoodsRequests, ItemsGrant, ItemsRemove, HandleCurrencyChange, HandleAdminItemChange,
                      HandleAdminCurrencyChange, AdminService
  <2> QED BY <1>4, <2>1, <2>2, <2>4, <2>5 DEF Requests
<1>5. CASE scene \in {"quests", "growth"} /\ \E c \in Cast : Enter(c) \/ Leave(c)
  BY <1>5 DEF Enter, Leave
<1> QED BY <1>2, <1>3, <1>4, <1>5, LearnersAssumption DEF Careered

LEMMA BelongingsStep ==
    ASSUME IInv, BelongingsInv, [Next]_vars PROVE BelongingsInv'
<1>1. CASE UNCHANGED vars
  BY <1>1 DEF vars, BelongingsInv, BelongingsHeld, HeldIsStored, SessionKnows, InWorld
<1>2. CASE Careered /\ UNCHANGED belongings /\ UNCHANGED scene
  <2>1. torn \subseteq torn' /\ scene \in {"quests", "growth"} /\ UNCHANGED <<goods, held, scene>>
    BY <1>2, TornStay DEF belongings
  <2> QED BY <2>1 DEF BelongingsInv, BelongingsHeld, HeldIsStored, SessionKnows
<1>3. CASE Carried /\ UNCHANGED scene
  BY <1>3, CarriedBelongings
<1> QED BY <1>1, <1>2, <1>3 DEF Next

(* Whatever is moved, worn, stored away and fetched again, and however moves, saves that  *)
(* fail, lessons and new sessions follow one another: of every item that a character was  *)
(* given the store has in its bag, its equipment and its chest exactly what was given,    *)
(* and a session shows what the store has, unless a save of it failed; for bags, chests,  *)
(* bars and stacks of any size (inventory.go equipInventorySlotLocked,                     *)
(* grantDefinedItemToInventory, housing.go depositHousingStorageLocked, abilities.go).     *)
THEOREM BelongingsAlwaysKept == Spec => []BelongingsKept
<1>1. Init => BelongingsInv
  BY BelongingsStart
<1>2. IInv /\ BelongingsInv /\ [Next]_vars => BelongingsInv'
  BY BelongingsStep
<1>3. IInv /\ BelongingsInv => BelongingsKept
  <2> SUFFICES ASSUME BelongingsInv, NEW c \in Char \ torn
               PROVE  /\ \A item \in Items : Amount(goods[c].bag, item) + Amount(goods[c].chest, item)
                                                + (IF goods[c].worn = item THEN 1 ELSE 0) = Given(item)
                      /\ held[c] = Copy(goods[c])
    BY DEF BelongingsKept
  <2> QED BY DEF BelongingsInv, BelongingsHeld, HeldIsStored, AsGiven, Total
<1> QED BY <1>1, <1>2, <1>3, SpecInv, PTL DEF Spec
=============================================================================
