------------------------ MODULE ProtocolProxyProofs ------------------------
(***************************************************************************)
(* Theorems about the way of a request through the protocol proxy, for any *)
(* requests, conversations, aggregates and weights and any tool calls.     *)
(*                                                                         *)
(* RelayRotation: the indices stay inside their aggregate and going round  *)
(* with them gives every member its share; a request gives up only after   *)
(* every member; a conversation key keeps its member.                      *)
(*                                                                         *)
(* ChatStream: the converter's bookkeeping and the events it has written   *)
(* never drift apart, so that the stream is well formed and the response   *)
(* it ends with is whole.                                                  *)
(***************************************************************************)
EXTENDS RelayRotation, ChatStream, FiniteSetTheorems, SequenceTheorems, WellFoundedInduction, TLAPS

-----------------------------------------------------------------------------
(* Numbers.                                                                *)

(* A set of natural numbers has a least one: what induction rests on here. *)
LEMMA Least ==
  ASSUME NEW T, T \subseteq Nat, T # {}
  PROVE  \E x \in T : \A y \in T : x <= y
<1>1. IsWellFoundedOn({ss \in Nat \X Nat : ss[1] < ss[2]}, Nat)
  BY NatLessThanWellFounded DEF OpToRel
<1>2. PICK x \in T : \A y \in T : <<y, x>> \notin {ss \in Nat \X Nat : ss[1] < ss[2]}
  BY <1>1, WFMin
<1>3. ASSUME NEW y \in T PROVE x <= y
  <2>1. x \in Nat /\ y \in Nat
    OBVIOUS
  <2>2. ~ (y < x)
    BY <1>2, <2>1
  <2> QED BY <2>1, <2>2
<1> QED BY <1>3

(* Going round n places: an index below n stays, one in the next round     *)
(* comes back, and the step after the last place is the first.             *)
LEMMA Round ==
  ASSUME NEW n \in Nat, n > 0, NEW x \in Nat
  PROVE  /\ x < n => x % n = x
         /\ n <= x /\ x < 2 * n => x % n = x - n
         /\ x < n => (x + 1) % n = IF x + 1 = n THEN 0 ELSE x + 1
         /\ x % n \in 0..(n - 1)
<1>1. x < n => x % n = x
  OBVIOUS
<1>2. n <= x /\ x < 2 * n => x % n = x - n
  OBVIOUS
<1>3. x < n => (x + 1) % n = IF x + 1 = n THEN 0 ELSE x + 1
  OBVIOUS
<1>4. x % n \in 0..(n - 1)
  OBVIOUS
<1> QED BY <1>1, <1>2, <1>3, <1>4

(* A finite set of numbers has a largest one.                              *)
LEMMA Bounded ==
  ASSUME NEW S, S \subseteq Nat, IsFiniteSet(S)
  PROVE  \E m \in Nat : \A x \in S : x <= m
<1> DEFINE n == Cardinality(S)
<1>1. n \in Nat /\ ExistsBijection(1..n, S)
  BY FS_CardinalityType
<1> HIDE DEF n
<1>2. PICK f \in [1..n -> S] : \A x \in S : \E i \in 1..n : f[i] = x
  BY <1>1 DEF ExistsBijection, Bijection, Surjection
<1> DEFINE Beneath(k, m) == \A i \in 1..n : i <= k => f[i] <= m
           T == {k \in Nat : ~ \E m \in Nat : Beneath(k, m)}
<1>3. T = {}
  <2>1. SUFFICES ASSUME T # {} PROVE FALSE
    OBVIOUS
  <2>2. PICK k \in T : \A y \in T : k <= y
    <3>1. T \subseteq Nat
      OBVIOUS
    <3> HIDE DEF T
    <3> QED
      BY <2>1, <3>1, Least
  <2>3. k # 0
    <3>1. Beneath(0, 0)
      BY <1>1
    <3> QED
      BY <3>1
  <2>4. k - 1 \in Nat /\ k - 1 \notin T
    <3>1. k \in Nat
      OBVIOUS
    <3> HIDE DEF T
    <3>2. k - 1 \in Nat /\ ~ (k <= k - 1)
      BY <2>3, <3>1
    <3> QED
      BY <2>2, <3>2
  <2>5. PICK m \in Nat : Beneath(k - 1, m)
    BY <2>4
  <2>6. CASE k \in 1..n
    <3>1. f[k] \in Nat
      BY <2>6
    <3> DEFINE b == IF f[k] <= m THEN m ELSE f[k]
    <3>2. b \in Nat /\ m <= b /\ f[k] <= b
      <4> DEFINE z == f[k]
      <4> HIDE DEF z
      <4>1. z \in Nat /\ m \in Nat
        BY <3>1 DEF z
      <4>2. LET y == IF z <= m THEN m ELSE z IN y \in Nat /\ m <= y /\ z <= y
        BY <4>1
      <4> QED
        BY <4>2 DEF z
    <3> HIDE DEF b
    <3>3. ASSUME NEW i \in 1..n, i <= k PROVE f[i] <= b
      <4>1. CASE i = k
        BY <3>2, <4>1
      <4>2. CASE i # k
        <5>1. i <= k - 1
          BY <2>6, <3>3, <4>2
        <5>2. f[i] <= m /\ f[i] \in Nat
          BY <2>5, <5>1
        <5> QED
          BY <3>2, <5>2
      <4> QED
        BY <4>1, <4>2
    <3>4. Beneath(k, b)
      BY <3>3
    <3> QED
      BY <2>2, <3>2, <3>4
  <2>7. CASE k \notin 1..n
    <3>1. k \in Nat
      OBVIOUS
    <3>2. ASSUME NEW i \in 1..n, i <= k PROVE i <= k - 1
      BY <1>1, <2>7, <3>1, <3>2
    <3>3. Beneath(k, m)
      BY <2>5, <3>2
    <3> QED
      BY <2>2, <3>3
  <2> QED
    BY <2>6, <2>7
<1>4. PICK m \in Nat : Beneath(n, m)
  BY <1>1, <1>3
<1>5. \A x \in S : x <= m
  <2> TAKE x \in S
  <2>1. PICK i \in 1..n : f[i] = x
    BY <1>2
  <2> QED
    BY <1>1, <1>4, <2>1
<1> QED
  BY <1>5

(* ... and a largest one.                                                  *)
LEMMA Largest ==
  ASSUME NEW S, S \subseteq Nat, IsFiniteSet(S), S # {}
  PROVE  Max(S) \in S /\ \A x \in S : x <= Max(S)
<1> DEFINE T == {m \in Nat : \A x \in S : x <= m}
<1>1. T # {} /\ T \subseteq Nat
  BY Bounded
<1>2. PICK m \in T : \A y \in T : m <= y
  BY <1>1, Least
<1>3. m \in S
  <2>1. SUFFICES ASSUME m \notin S PROVE FALSE
    OBVIOUS
  <2>2. m \in Nat /\ \A x \in S : x <= m /\ x # m /\ x \in Nat
    BY <2>1
  <2>3. \A x \in S : x <= m - 1 /\ m # 0
    BY <2>2
  <2>4. m - 1 \in T
    <3>1. m - 1 \in Nat
      <4>1. PICK x \in S : TRUE
        OBVIOUS
      <4>2. m \in Nat /\ m # 0
        BY <2>2, <2>3, <4>1
      <4> QED
        BY <4>2
    <3> QED
      BY <2>3, <3>1
  <2> QED
    BY <1>2, <2>2, <2>4
<1>4. \A y \in S : m >= y
  BY <1>3
<1>5. Max(S) \in S /\ \A y \in S : Max(S) >= y
  BY <1>3, <1>4 DEF Max
<1> QED
  BY <1>5

-----------------------------------------------------------------------------
(* Aggregates and the schedule of the weights.                             *)

(* The members of an aggregate are numbered from one, are relays, are      *)
(* distinct, and each has at least one slot in the schedule.               *)
LEMMA Members ==
  ASSUME NEW a \in Aggregates
  PROVE  /\ Size(a) \in Nat /\ Size(a) > 0
         /\ DOMAIN a.members = 1..Size(a)
         /\ \A i \in 1..Size(a) : a.members[i].relay \in MemberSet(a)
         /\ \A i \in 1..Size(a) : Weight(a, i) \in Nat /\ Weight(a, i) > 0
         /\ \A i, j \in 1..Size(a) : a.members[i].relay = a.members[j].relay => i = j
         /\ MemberSet(a) \subseteq Relays /\ None \notin MemberSet(a)
         /\ a.strategy \in Strategies /\ a # None
<1>1. a.members \in Seq(Range(a.members)) /\ a.members # <<>>
  BY AggregatesAssumption
<1>2. DOMAIN a.members = 1..Size(a) /\ Size(a) \in Nat /\ Size(a) > 0
  BY <1>1 DEF Size
<1>3. \A i \in 1..Size(a) : a.members[i].relay \in MemberSet(a)
  BY <1>2 DEF MemberSet
<1>4. \A i \in 1..Size(a) : Weight(a, i) \in Nat /\ Weight(a, i) > 0
  BY <1>2, AggregatesAssumption DEF Weight
<1>5. MemberSet(a) \subseteq Relays
  BY DEF MemberSet, Relays
<1> QED BY <1>2, <1>3, <1>4, <1>5, AggregatesAssumption, NoneAssumption

(* The slots before a member are those before the one before it and that   *)
(* one's own.                                                              *)
LEMMA SlotsGrow ==
  ASSUME NEW a \in Aggregates, NEW i \in 1..Size(a), IsFiniteSet(Slots(a, i))
  PROVE  /\ IsFiniteSet(Slots(a, i + 1))
         /\ Before(a, i + 1) = Before(a, i) + Weight(a, i)
<1> DEFINE Own == {i} \X (1..Weight(a, i))
<1>1. Weight(a, i) \in Nat /\ i \in Nat /\ Size(a) \in Nat
  BY Members
<1>2. Slots(a, i + 1) = Slots(a, i) \cup Own
  <2>1. 1..(i + 1 - 1) = (1..(i - 1)) \cup {i}
    BY <1>1
  <2>2. Slots(a, i + 1) = UNION {{j} \X (1..Weight(a, j)) : j \in (1..(i - 1)) \cup {i}}
    BY <2>1 DEF Slots
  <2> QED BY <2>2 DEF Slots
<1>3. Slots(a, i) \cap Own = {}
  <2> SUFFICES ASSUME NEW s \in Slots(a, i), s \in Own PROVE FALSE
    OBVIOUS
  <2>1. PICK j \in 1..(i - 1) : s \in {j} \X (1..Weight(a, j))
    BY DEF Slots
  <2>2. s[1] = j /\ s[1] = i
    BY <2>1
  <2> QED BY <2>2, <1>1
<1>4. IsFiniteSet({i}) /\ Cardinality({i}) = 1
  BY FS_Singleton
<1>5. IsFiniteSet(1..Weight(a, i)) /\ Cardinality(1..Weight(a, i)) = Weight(a, i)
  BY <1>1, FS_Interval
<1>6. IsFiniteSet(Own) /\ Cardinality(Own) = Weight(a, i)
  <2> DEFINE S == {i}
             T == 1..Weight(a, i)
  <2> HIDE DEF S, T
  <2>1. IsFiniteSet(S \X T) /\ Cardinality(S \X T) = Cardinality(S) * Cardinality(T)
    BY <1>4, <1>5, FS_Product DEF S, T
  <2>2. Cardinality(S) = 1 /\ Cardinality(T) = Weight(a, i) /\ Own = S \X T
    BY <1>4, <1>5 DEF S, T
  <2> QED BY <1>1, <2>1, <2>2
<1> HIDE DEF Own
<1>7. /\ IsFiniteSet(Slots(a, i) \cup Own)
      /\ Cardinality(Slots(a, i) \cup Own)
           = Cardinality(Slots(a, i)) + Cardinality(Own) - Cardinality(Slots(a, i) \cap Own)
  BY <1>6, FS_Union
<1>8. Cardinality(Slots(a, i) \cap Own) = 0
  BY <1>3, FS_EmptySet
<1>9. Cardinality(Slots(a, i)) \in Nat
  BY FS_CardinalityType
<1> QED BY <1>1, <1>2, <1>6, <1>7, <1>8, <1>9 DEF Before

(* The schedule has finitely many slots before each member, none before    *)
(* the first.                                                              *)
LEMMA SlotsFinite ==
  ASSUME NEW a \in Aggregates, NEW i \in 1..(Size(a) + 1)
  PROVE  IsFiniteSet(Slots(a, i))
<1> DEFINE Bad == {j \in 1..(Size(a) + 1) : ~ IsFiniteSet(Slots(a, j))}
<1> SUFFICES ASSUME Bad # {} PROVE FALSE
  OBVIOUS
<1>1. Size(a) \in Nat
  BY Members
<1>2. Bad \subseteq Nat
  BY <1>1
<1>3. PICK j \in Bad : \A k \in Bad : j <= k
  BY <1>2, Least
<1>4. CASE j = 1
  <2>1. Slots(a, 1) = {}
    BY DEF Slots
  <2> QED BY <2>1, <1>3, <1>4, FS_EmptySet
<1>5. CASE j # 1
  <2>1. j - 1 \in 1..Size(a) /\ j - 1 \in 1..(Size(a) + 1) /\ j = (j - 1) + 1
    BY <1>1, <1>5
  <2>2. j - 1 \notin Bad
    BY <1>2, <1>3
  <2>3. IsFiniteSet(Slots(a, j - 1))
    BY <2>1, <2>2
  <2>4. IsFiniteSet(Slots(a, (j - 1) + 1))
    BY <2>1, <2>3, SlotsGrow
  <2> QED BY <2>1, <2>4
<1> QED BY <1>4, <1>5

(* Where the slots of each member begin and end.                           *)
LEMMA BeforeStep ==
  ASSUME NEW a \in Aggregates
  PROVE  /\ Before(a, 1) = 0
         /\ \A i \in 1..(Size(a) + 1) : Before(a, i) \in Nat
         /\ \A i \in 1..Size(a) : Before(a, i + 1) = Before(a, i) + Weight(a, i)
<1>1. Before(a, 1) = 0
  <2>1. Slots(a, 1) = {}
    BY DEF Slots
  <2> QED BY <2>1, FS_EmptySet DEF Before
<1>2. ASSUME NEW i \in 1..(Size(a) + 1) PROVE Before(a, i) \in Nat
  BY SlotsFinite, FS_CardinalityType DEF Before
<1>3. ASSUME NEW i \in 1..Size(a) PROVE Before(a, i + 1) = Before(a, i) + Weight(a, i)
  <2>1. i \in 1..(Size(a) + 1)
    BY Members
  <2> QED BY <2>1, SlotsFinite, SlotsGrow
<1> QED BY <1>1, <1>2, <1>3

(* The slots of later members come after those of earlier ones.            *)
LEMMA BeforeMonotone ==
  ASSUME NEW a \in Aggregates, NEW i \in 1..(Size(a) + 1), NEW k \in 1..(Size(a) + 1), i <= k
  PROVE  Before(a, i) <= Before(a, k)
<1> DEFINE Bad == {j \in 1..(Size(a) + 1) : i <= j /\ ~ (Before(a, i) <= Before(a, j))}
<1> SUFFICES ASSUME Bad # {} PROVE FALSE
  OBVIOUS
<1>1. Size(a) \in Nat
  BY Members
<1>2. Bad \subseteq Nat
  BY <1>1
<1>3. PICK j \in Bad : \A l \in Bad : j <= l
  BY <1>2, Least
<1>4. j # i
  BY <1>3, BeforeStep
<1>5. j - 1 \in 1..Size(a) /\ j - 1 \in 1..(Size(a) + 1) /\ j = (j - 1) + 1 /\ i <= j - 1
  BY <1>1, <1>4
<1>6. j - 1 \notin Bad
  BY <1>2, <1>3
<1>7. Before(a, i) <= Before(a, j - 1)
  BY <1>5, <1>6
<1>8. Before(a, (j - 1) + 1) = Before(a, j - 1) + Weight(a, j - 1) /\ Weight(a, j - 1) \in Nat
  BY <1>5, BeforeStep, Members
<1>9. Before(a, i) \in Nat /\ Before(a, j - 1) \in Nat
  BY <1>5, BeforeStep
<1>10. Before(a, i) <= Before(a, j)
  BY <1>5, <1>7, <1>8, <1>9
<1> QED BY <1>3, <1>10

(* Every index below the length of the schedule is in the slots of exactly *)
(* one member, the one that is selected.                                   *)
LEMMA SlotAt ==
  ASSUME NEW a \in Aggregates, NEW x \in Nat, x < Rounds(a)
  PROVE  \E i \in 1..Size(a) :
           /\ Before(a, i) <= x /\ x < Before(a, i + 1)
           /\ Scheduled(a, x) = a.members[i].relay
<1> DEFINE Later == {j \in 1..(Size(a) + 1) : x < Before(a, j)}
           In(i) == Before(a, i) <= x /\ x < Before(a, i + 1)
<1>1. Size(a) \in Nat /\ DOMAIN a.members = 1..Size(a)
  BY Members
<1>2. Later \subseteq Nat /\ Size(a) + 1 \in Later
  BY <1>1 DEF Rounds
<1>3. PICK j \in Later : \A k \in Later : j <= k
  BY <1>2, Least
<1>4. j # 1
  BY <1>3, BeforeStep
<1>5. j - 1 \in 1..Size(a) /\ j - 1 \in 1..(Size(a) + 1) /\ j = (j - 1) + 1
  BY <1>1, <1>4
<1>6. j - 1 \notin Later
  BY <1>2, <1>3
<1>7. Before(a, j - 1) \in Nat
  BY <1>5, BeforeStep
<1>8. In(j - 1)
  BY <1>3, <1>5, <1>6, <1>7
<1>9. x % Rounds(a) = x
  <2>1. Rounds(a) \in Nat /\ Rounds(a) > 0
    BY <1>1, BeforeStep DEF Rounds
  <2> QED BY <2>1, Round
<1> DEFINE i == CHOOSE i \in 1..Size(a) : In(i)
<1>10. i \in 1..Size(a) /\ In(i)
  BY <1>5, <1>8
<1>11. Scheduled(a, x) = a.members[i].relay
  BY <1>1, <1>9 DEF Scheduled
<1> QED BY <1>10, <1>11

-----------------------------------------------------------------------------
(* The candidates of a request.                                            *)

(* The member that was selected and the others round after it are every    *)
(* member once.                                                            *)
LEMMA CandidatesOnce ==
  ASSUME NEW a \in Aggregates, NEW m \in MemberSet(a)
  PROVE  LET all == <<m>> \o FallbackAfter(a, m)
         IN  /\ all \in Seq(Relays) /\ all # <<>> /\ IsInjective(all)
             /\ ToSet(all) = MemberSet(a)
<1> DEFINE n == Size(a)
           at == CHOOSE i \in DOMAIN a.members : a.members[i].relay = m
           others == FallbackAfter(a, m)
           all == <<m>> \o others
           place(k) == IF at + k - 1 <= n THEN at + k - 1 ELSE at + k - 1 - n
<1>1. n \in Nat /\ n > 0 /\ DOMAIN a.members = 1..n
  BY Members
<1>2. at \in 1..n /\ a.members[at].relay = m
  BY <1>1 DEF MemberSet
<1> HIDE DEF at
<1>3. others = [i \in 1..(n - 1) |-> Member(a, at + i - 1)]
  BY DEF FallbackAfter, at
<1>4. ASSUME NEW i \in 1..(n - 1) PROVE others[i] = a.members[place(i + 1)].relay
  <2>1. ((at + i - 1) % n) + 1 = place(i + 1)
    <3> DEFINE x == at + i - 1
    <3>1. x \in Nat /\ x < 2 * n /\ i \in Nat /\ at \in Nat
      BY <1>1, <1>2
    <3>2. place(i + 1) = IF x < n THEN x + 1 ELSE x + 1 - n
      BY <1>1, <3>1
    <3> HIDE DEF x, n, place
    <3>3. /\ x < n => x % n = x
          /\ n <= x /\ x < 2 * n => x % n = x - n
      BY <1>1, <3>1, Round
    <3>4. (x % n) + 1 = place(i + 1)
      BY <1>1, <3>1, <3>2, <3>3
    <3> QED BY <3>4 DEF x
  <2> QED BY <1>3, <2>1 DEF Member
<1>5. \A k \in 1..n : place(k) \in 1..n
  BY <1>1, <1>2
<1>6. others \in [1..(n - 1) -> MemberSet(a)]
  <2>1. ASSUME NEW i \in 1..(n - 1) PROVE others[i] \in MemberSet(a)
    <3> HIDE DEF others, place
    <3>1. i + 1 \in 1..n
      BY <1>1
    <3>2. place(i + 1) \in 1..n
      BY <1>5, <3>1
    <3> QED BY <1>4, <3>2, Members
  <2> QED BY <1>3, <2>1
<1>7. others \in Seq(MemberSet(a)) /\ Len(others) = n - 1
  <2> HIDE DEF others, n
  <2>1. n - 1 \in Nat
    BY <1>1
  <2>2. others \in Seq(MemberSet(a))
    BY <1>6, <2>1, SeqDef
  <2> QED BY <1>6, <2>1, <2>2, LenProperties
<1>8. all \in Seq(MemberSet(a)) /\ Len(all) = n /\ all[1] = m
      /\ \A k \in 1..n : k > 1 => all[k] = others[k - 1]
  <2> HIDE DEF others, n
  <2> QED BY <1>1, <1>7
<1>9. ASSUME NEW k \in 1..n PROVE all[k] = a.members[place(k)].relay
  <2>1. CASE k = 1
    BY <1>1, <1>2, <1>8, <2>1
  <2>2. CASE k > 1
    <3>1. k - 1 \in 1..(n - 1) /\ (k - 1) + 1 = k
      BY <1>1, <2>2
    <3>4. place((k - 1) + 1) = place(k)
      BY <1>1
    <3> HIDE DEF others, place, all
    <3>2. others[k - 1] = a.members[place((k - 1) + 1)].relay
      BY <1>4, <3>1
    <3>3. all[k] = others[k - 1]
      BY <1>8, <2>2
    <3> QED BY <3>2, <3>3, <3>4
  <2>3. k = 1 \/ k > 1
    BY <1>1
  <2> HIDE DEF n, others, all, place
  <2> QED BY <2>1, <2>2, <2>3
<1>10. DOMAIN all = 1..n
  <2> HIDE DEF all
  <2> QED BY <1>8, LenProperties
<1>11. ASSUME NEW j \in 1..n, NEW k \in 1..n, all[j] = all[k] PROVE j = k
  <2>1. place(j) = place(k)
    <3> HIDE DEF all, place, n
    <3>1. a.members[place(j)].relay = a.members[place(k)].relay
      BY <1>9, <1>11
    <3>2. place(j) \in 1..n /\ place(k) \in 1..n
      BY <1>5
    <3> QED BY <3>1, <3>2, Members DEF n
  <2> QED BY <1>1, <1>2, <2>1
<1>12. ASSUME NEW x \in MemberSet(a) PROVE \E k \in 1..n : all[k] = x
  <2>1. PICK i \in 1..n : a.members[i].relay = x
    BY <1>1 DEF MemberSet
  <2> DEFINE k == IF i >= at THEN i - at + 1 ELSE i - at + 1 + n
  <2>2. k \in 1..n /\ place(k) = i
    BY <1>1, <1>2
  <2> QED BY <1>9, <2>1, <2>2
<1> HIDE DEF all, place, n
<1>13. \A k \in 1..n : all[k] \in MemberSet(a)
  BY <1>8, <1>10, ElementOfSeq
<1>14. ToSet(all) = MemberSet(a)
  BY <1>10, <1>12, <1>13 DEF ToSet
<1>15. IsInjective(all)
  BY <1>10, <1>11 DEF IsInjective
<1>16. all \in Seq(Relays) /\ all # <<>>
  BY <1>1, <1>8, Members
<1> QED BY <1>14, <1>15, <1>16 DEF all

-----------------------------------------------------------------------------
(* The selector.                                                           *)

(* A selector that selects: its cursors are below what they go round, and  *)
(* what it assigned are members of its aggregate.                          *)
GoodSelector(s) ==
  /\ s \in Selectors
  /\ s.failover < Size(s.agg) /\ s.request < Size(s.agg) /\ s.weighted < Rounds(s.agg)
  /\ \A k \in AllKeys : s.assigned[k] \in MemberSet(s.agg) \cup {None}

(* A member is named by any index; the one at an index of the aggregate is *)
(* the next.                                                               *)
LEMMA MemberAt ==
  ASSUME NEW a \in Aggregates, NEW x \in Nat
  PROVE  /\ Member(a, x) \in MemberSet(a)
         /\ x < Size(a) => Member(a, x) = a.members[x + 1].relay
<1>1. Size(a) \in Nat /\ Size(a) > 0
  BY Members
<1>2. x % Size(a) \in 0..(Size(a) - 1) /\ (x < Size(a) => x % Size(a) = x)
  BY <1>1, Round
<1>3. (x % Size(a)) + 1 \in 1..Size(a)
  BY <1>1, <1>2
<1> QED BY <1>2, <1>3, Members DEF Member

(* The schedule is not empty.                                              *)
LEMMA RoundsPositive ==
  ASSUME NEW a \in Aggregates PROVE Rounds(a) \in Nat /\ Rounds(a) > 0
<1>1. Size(a) \in Nat /\ Size(a) > 0 /\ 1 \in 1..Size(a) /\ 2 \in 1..(Size(a) + 1)
      /\ Size(a) + 1 \in 1..(Size(a) + 1)
  BY Members
<1>2. Before(a, 2) = Before(a, 1) + Weight(a, 1) /\ Before(a, 1) = 0
  <2>1. Before(a, 1 + 1) = Before(a, 1) + Weight(a, 1)
    BY <1>1, BeforeStep
  <2> QED BY <2>1, BeforeStep
<1>3. Weight(a, 1) \in Nat /\ Weight(a, 1) > 0
  BY <1>1, Members
<1>4. Before(a, 2) <= Before(a, Size(a) + 1)
  BY <1>1, BeforeMonotone
<1>5. Before(a, Size(a) + 1) \in Nat
  BY <1>1, BeforeStep
<1> QED BY <1>2, <1>3, <1>4, <1>5 DEF Rounds

(* A new selector is a good one.                                           *)
LEMMA FreshGood ==
  ASSUME NEW a \in Aggregates
  PROVE  GoodSelector(Fresh(a)) /\ Fresh(a).agg = a /\ Fresh(a) # NoSelector
<1>1. Size(a) \in Nat /\ Size(a) > 0 /\ a # None
  BY Members
<1> QED BY <1>1, RoundsPositive DEF GoodSelector, Fresh, Selectors, NoSelector

(* Every selection is of a member, and the selector stays a good one of    *)
(* its aggregate.                                                          *)
LEMMA SelectGood ==
  ASSUME NEW s, GoodSelector(s), NEW key \in AllKeys \cup {None}
  PROVE  /\ Choice(s, key) \in MemberSet(s.agg)
         /\ GoodSelector(After(s, key)) /\ After(s, key).agg = s.agg
<1> DEFINE a == s.agg
<1>1. /\ a \in Aggregates /\ s.failover \in Nat /\ s.request \in Nat /\ s.weighted \in Nat
      /\ s.assigned \in [AllKeys -> Relays \cup {None}] /\ s.weighted < Rounds(a)
      /\ s.request < Size(a)
  BY DEF GoodSelector, Selectors
<1>2. a.strategy \in Strategies /\ Size(a) \in Nat /\ Size(a) > 0 /\ MemberSet(a) \subseteq Relays
  BY <1>1, Members
<1>3. Member(a, s.failover) \in MemberSet(a) /\ Member(a, s.request) \in MemberSet(a)
  BY <1>1, MemberAt
<1>4. Scheduled(a, s.weighted) \in MemberSet(a)
  <2>1. PICK i \in 1..Size(a) : Scheduled(a, s.weighted) = a.members[i].relay
    BY <1>1, SlotAt
  <2> QED BY <1>1, <2>1, Members
<1>5. Choice(s, key) \in MemberSet(a)
  BY <1>3, <1>4 DEF Choice, GoodSelector
<1>6. (s.request + 1) % Size(a) \in 0..(Size(a) - 1)
  BY <1>1, <1>2, Round
<1>7. (s.weighted + 1) % Rounds(a) \in 0..(Rounds(a) - 1) /\ Rounds(a) \in Nat
  BY <1>1, RoundsPositive, Round
<1>8. CASE After(s, key) = s
  BY <1>5, <1>8
<1>9. CASE After(s, key) = [s EXCEPT !.weighted = (@ + 1) % Rounds(s.agg)]
  BY <1>5, <1>7, <1>9 DEF GoodSelector, Selectors
<1>10. CASE After(s, key) = [s EXCEPT !.request = (@ + 1) % Size(s.agg)]
  BY <1>2, <1>5, <1>6, <1>10 DEF GoodSelector, Selectors
<1>11. CASE /\ key # None
            /\ After(s, key) = [s EXCEPT !.request = (@ + 1) % Size(s.agg),
                                         !.assigned[key] = Member(s.agg, s.request)]
  <2>1. [s.assigned EXCEPT ![key] = Member(a, s.request)] \in [AllKeys -> Relays \cup {None}]
    BY <1>1, <1>2, <1>3
  <2>2. After(s, key) \in Selectors
    <3>1. (s.request + 1) % Size(a) \in Nat
      BY <1>2, <1>6
    <3>2. s \in Selectors
      BY DEF GoodSelector
    <3>3. After(s, key) = [s EXCEPT !.request = (s.request + 1) % Size(a),
                                    !.assigned = [s.assigned EXCEPT ![key] = Member(a, s.request)]]
      BY <1>11, <3>2 DEF Selectors
    <3> HIDE DEF a
    <3> QED BY <2>1, <3>1, <3>2, <3>3 DEF Selectors
  <2>3. \A k \in AllKeys : After(s, key).assigned[k] \in MemberSet(a) \cup {None}
    BY <1>1, <1>3, <1>11 DEF GoodSelector, Selectors
  <2>4. /\ After(s, key).agg = a /\ After(s, key).failover = s.failover
        /\ After(s, key).request = (s.request + 1) % Size(a)
        /\ After(s, key).weighted = s.weighted
    BY <1>11 DEF GoodSelector, Selectors
  <2> QED BY <1>2, <1>5, <1>6, <2>2, <2>3, <2>4 DEF GoodSelector
<1> QED BY <1>8, <1>9, <1>10, <1>11 DEF After

-----------------------------------------------------------------------------
(* Shares.                                                                 *)

(* What every member got of the selections so far: so many whole rounds,   *)
(* and its part of the one that is under way.                              *)
Shares(s, count, taken) ==
  /\ s.agg.strategy = "request" =>
       \E q \in 0..taken : \A i \in DOMAIN s.agg.members :
         count[s.agg.members[i].relay] = IF i <= s.request THEN q + 1 ELSE q
  /\ s.agg.strategy = "weighted" =>
       \E q \in 0..taken : \A i \in DOMAIN s.agg.members :
         count[s.agg.members[i].relay] = q * Weight(s.agg, i) + Part(s.agg, i, s.weighted)

(* How often each relay can have been selected.                            *)
Counts(taken) == [Relays -> 0..taken]

(* Nothing selected, nobody has a share.                                   *)
LEMMA FreshShares ==
  ASSUME NEW a \in Aggregates
  PROVE  Shares(Fresh(a), [m \in Relays |-> 0], 0)
<1> DEFINE none == [m \in Relays |-> 0]
<1>1. /\ Size(a) \in Nat /\ DOMAIN a.members = 1..Size(a)
      /\ \A i \in 1..Size(a) : none[a.members[i].relay] = 0
  BY Members
<1>2. \A i \in 1..Size(a) : i > 0 /\ Before(a, i) \in Nat /\ Weight(a, i) \in Nat
  BY <1>1, BeforeStep, Members
<1>3. \A i \in 1..Size(a) : 0 * Weight(a, i) + Part(a, i, 0) = 0
  BY <1>2 DEF Part
<1> QED BY <1>1, <1>2, <1>3 DEF Shares, Fresh

(* The next member round robin has one selection less than those before it. *)
LEMMA RequestShares ==
  ASSUME NEW s, GoodSelector(s), NEW taken \in Nat, NEW count \in Counts(taken),
         Shares(s, count, taken), s.agg.strategy = "request", NEW key
  PROVE  Shares(After(s, key), [count EXCEPT ![Choice(s, key)] = @ + 1], taken + 1)
<1> DEFINE a == s.agg
           n == Size(a)
           m == Choice(s, key)
           more == [count EXCEPT ![m] = @ + 1]
           t == After(s, key)
<1>1. s \in Selectors /\ a \in Aggregates /\ s.request \in 0..(n - 1)
  BY Members DEF GoodSelector, Selectors
<1>2. /\ n \in Nat /\ n > 0 /\ DOMAIN a.members = 1..n
      /\ \A i, j \in 1..n : a.members[i].relay = a.members[j].relay => i = j
      /\ \A i \in 1..n : a.members[i].relay \in Relays
  BY <1>1, Members
<1>3. m = a.members[s.request + 1].relay
  BY <1>1, <1>2, MemberAt DEF Choice
<1>4. t.agg = a /\ t.request = IF s.request + 1 = n THEN 0 ELSE s.request + 1
  <2>1. t = [s EXCEPT !.request = (@ + 1) % Size(s.agg)]
    BY DEF After
  <2>2. (s.request + 1) % n = IF s.request + 1 = n THEN 0 ELSE s.request + 1
    <3>1. s.request \in Nat /\ s.request < n
      BY <1>1, <1>2
    <3> HIDE DEF n
    <3> QED BY <1>2, <3>1, Round
  <2> QED BY <1>1, <2>1, <2>2 DEF Selectors
<1>5. PICK q \in 0..taken : \A i \in 1..n :
        count[a.members[i].relay] = IF i <= s.request THEN q + 1 ELSE q
  BY <1>2 DEF Shares
<1>6. ASSUME NEW i \in 1..n
      PROVE  more[a.members[i].relay] = IF i <= s.request + 1 THEN q + 1 ELSE q
  <2>1. a.members[i].relay = m <=> i = s.request + 1
    <3>1. s.request + 1 \in 1..n
      BY <1>1, <1>2
    <3> HIDE DEF m, n, a
    <3> QED BY <1>2, <1>3, <3>1
  <2>2. more[a.members[i].relay] = IF i = s.request + 1 THEN count[m] + 1
                                   ELSE count[a.members[i].relay]
    BY <1>2, <2>1 DEF Counts
  <2>3. count[m] = q
    <3>1. s.request + 1 \in 1..n /\ ~ (s.request + 1 <= s.request)
      BY <1>1, <1>2
    <3> HIDE DEF m, n, a
    <3> QED BY <1>3, <1>5, <3>1
  <2> QED BY <1>1, <1>5, <2>2, <2>3
<1> DEFINE r == IF s.request + 1 = n THEN q + 1 ELSE q
<1>7. r \in 0..(taken + 1)
  OBVIOUS
<1>8. \A i \in 1..n : more[a.members[i].relay] = IF i <= t.request THEN r + 1 ELSE r
  BY <1>1, <1>2, <1>4, <1>6
<1>9. t.agg.strategy = "request"
  BY <1>4
<1> HIDE DEF t, more, n, r
<1>10. \E z \in 0..(taken + 1) : \A i \in DOMAIN t.agg.members :
         more[t.agg.members[i].relay] = IF i <= t.request THEN z + 1 ELSE z
  BY <1>2, <1>4, <1>7, <1>8
<1>11. Shares(t, more, taken + 1)
  BY <1>9, <1>10 DEF Shares
<1> QED BY <1>11 DEF t, more, m

(* The share of the slots below an index: one more slot counts for the     *)
(* member whose slot it is, all of the schedule is one round.              *)
LEMMA PartSteps ==
  ASSUME NEW a \in Aggregates, NEW x \in Nat, NEW k \in 1..Size(a), NEW i \in 1..Size(a),
         Before(a, k) <= x, x < Before(a, k + 1)
  PROVE  /\ Part(a, i, x + 1) = Part(a, i, x) + (IF i = k THEN 1 ELSE 0)
         /\ Part(a, i, 0) = 0 /\ Part(a, i, Rounds(a)) = Weight(a, i)
         /\ Part(a, i, x) \in 0..Weight(a, i)
<1>1. /\ Size(a) \in Nat /\ i \in 1..(Size(a) + 1) /\ k \in 1..(Size(a) + 1)
      /\ i + 1 \in 1..(Size(a) + 1) /\ k + 1 \in 1..(Size(a) + 1)
      /\ Size(a) + 1 \in 1..(Size(a) + 1)
  BY Members
<1>2. /\ Before(a, i) \in Nat /\ Before(a, k) \in Nat /\ Before(a, k + 1) \in Nat
      /\ Before(a, i + 1) = Before(a, i) + Weight(a, i) /\ Weight(a, i) \in Nat /\ Weight(a, i) > 0
      /\ Rounds(a) \in Nat
  BY <1>1, BeforeStep, Members DEF Rounds
<1>3. i < k => Before(a, i + 1) <= Before(a, k)
  BY <1>1, BeforeMonotone
<1>4. k < i => Before(a, k + 1) <= Before(a, i)
  BY <1>1, BeforeMonotone
<1>5. Before(a, i + 1) <= Rounds(a)
  BY <1>1, BeforeMonotone DEF Rounds
<1>6. Part(a, i, x + 1) = Part(a, i, x) + (IF i = k THEN 1 ELSE 0)
  BY <1>1, <1>2, <1>3, <1>4 DEF Part
<1> QED BY <1>2, <1>5, <1>6 DEF Part

(* Going on in the schedule gives the slot to its member and starts a new  *)
(* round after the last slot.                                              *)
LEMMA WeightedShares ==
  ASSUME NEW s, GoodSelector(s), NEW taken \in Nat, NEW count \in Counts(taken),
         Shares(s, count, taken), s.agg.strategy = "weighted", NEW key
  PROVE  Shares(After(s, key), [count EXCEPT ![Choice(s, key)] = @ + 1], taken + 1)
<1> DEFINE a == s.agg
           n == Size(a)
           m == Choice(s, key)
           more == [count EXCEPT ![m] = @ + 1]
           t == After(s, key)
           x == s.weighted
<1>1. s \in Selectors /\ a \in Aggregates /\ x \in Nat /\ x < Rounds(a)
  BY DEF GoodSelector, Selectors
<1>2. /\ n \in Nat /\ n > 0 /\ DOMAIN a.members = 1..n
      /\ \A i, j \in 1..n : a.members[i].relay = a.members[j].relay => i = j
      /\ \A i \in 1..n : a.members[i].relay \in Relays /\ Weight(a, i) \in Nat
  BY <1>1, Members
<1>3. PICK k \in 1..n : /\ Before(a, k) <= x /\ x < Before(a, k + 1)
                        /\ m = a.members[k].relay
  BY <1>1, SlotAt DEF Choice
<1>4. t.agg = a /\ t.weighted = IF x + 1 = Rounds(a) THEN 0 ELSE x + 1
  <2>1. t = [s EXCEPT !.weighted = (@ + 1) % Rounds(s.agg)]
    BY DEF After
  <2>2. Rounds(a) \in Nat /\ Rounds(a) > 0
    BY <1>1, RoundsPositive
  <2>3. (x + 1) % Rounds(a) = IF x + 1 = Rounds(a) THEN 0 ELSE x + 1
    BY <1>1, <2>2, Round
  <2> QED BY <1>1, <2>1, <2>3 DEF Selectors
<1>5. PICK q \in 0..taken : \A i \in 1..n :
        count[a.members[i].relay] = q * Weight(a, i) + Part(a, i, x)
  BY <1>2 DEF Shares
<1>6. ASSUME NEW i \in 1..n
      PROVE  /\ Part(a, i, x + 1) = Part(a, i, x) + (IF i = k THEN 1 ELSE 0)
             /\ Part(a, i, 0) = 0 /\ Part(a, i, Rounds(a)) = Weight(a, i)
             /\ Part(a, i, x) \in Nat
  BY <1>1, <1>2, <1>3, PartSteps
<1>7. ASSUME NEW i \in 1..n
      PROVE  more[a.members[i].relay] = q * Weight(a, i) + Part(a, i, x + 1)
  <2>1. a.members[i].relay = m <=> i = k
    BY <1>2, <1>3
  <2>2. more[a.members[i].relay] = count[a.members[i].relay] + (IF i = k THEN 1 ELSE 0)
    BY <1>2, <2>1 DEF Counts
  <2>3. q * Weight(a, i) \in Nat
    BY <1>2
  <2> QED BY <1>5, <1>6, <2>2, <2>3
<1> DEFINE r == IF x + 1 = Rounds(a) THEN q + 1 ELSE q
<1>8. r \in 0..(taken + 1)
  OBVIOUS
<1>9. ASSUME NEW i \in 1..n
      PROVE  more[a.members[i].relay] = r * Weight(a, i) + Part(a, i, t.weighted)
  <2>1. CASE x + 1 = Rounds(a)
    <3>1. more[a.members[i].relay] = q * Weight(a, i) + Weight(a, i)
      BY <1>6, <1>7, <2>1
    <3>2. (q + 1) * Weight(a, i) = q * Weight(a, i) + Weight(a, i)
      BY <1>2
    <3>3. (q + 1) * Weight(a, i) \in Nat /\ r = q + 1 /\ t.weighted = 0
      BY <1>2, <1>4, <2>1
    <3> QED BY <1>6, <3>1, <3>2, <3>3
  <2>2. CASE x + 1 # Rounds(a)
    BY <1>4, <1>7, <2>2
  <2> QED BY <2>1, <2>2
<1>10. t.agg.strategy = "weighted" /\ t.agg = a /\ DOMAIN a.members = 1..n
  BY <1>2, <1>4
<1> HIDE DEF t, more, r, m, n, x, a
<1>11. \E z \in 0..(taken + 1) : \A i \in DOMAIN t.agg.members :
         more[t.agg.members[i].relay] = z * Weight(t.agg, i) + Part(t.agg, i, t.weighted)
  BY <1>8, <1>9, <1>10
<1>12. Shares(t, more, taken + 1)
  BY <1>10, <1>11 DEF Shares
<1> QED BY <1>12 DEF t, more, m

(* A selection keeps the shares in order, whatever the strategy.           *)
LEMMA SelectShares ==
  ASSUME NEW s, GoodSelector(s), NEW taken \in Nat, NEW count \in Counts(taken),
         Shares(s, count, taken), NEW key \in AllKeys \cup {None}
  PROVE  LET more == [count EXCEPT ![Choice(s, key)] = @ + 1]
         IN  more \in Counts(taken + 1) /\ Shares(After(s, key), more, taken + 1)
<1> DEFINE more == [count EXCEPT ![Choice(s, key)] = @ + 1]
<1>1. After(s, key).agg = s.agg /\ Choice(s, key) \in MemberSet(s.agg) /\ s.agg \in Aggregates
  BY SelectGood DEF GoodSelector, Selectors
<1>2. MemberSet(s.agg) \subseteq Relays
  BY <1>1, Members
<1>3. more \in Counts(taken + 1)
  BY <1>1, <1>2 DEF Counts
<1>4. Shares(After(s, key), more, taken + 1)
  <2>1. CASE s.agg.strategy = "request"
    BY <2>1, RequestShares
  <2>2. CASE s.agg.strategy = "weighted"
    BY <2>2, WeightedShares
  <2>3. CASE s.agg.strategy \notin {"request", "weighted"}
    BY <1>1, <2>3 DEF Shares
  <2> QED BY <2>1, <2>2, <2>3
<1> QED BY <1>3, <1>4

(* Shares that follow the place in the rotation are fair.                  *)
LEMMA SharesFair ==
  ASSUME NEW s, GoodSelector(s), NEW taken \in Nat, NEW count \in Counts(taken),
         Shares(s, count, taken)
  PROVE  /\ s.agg.strategy = "request" =>
              \A m, n \in MemberSet(s.agg) : count[m] <= count[n] + 1
         /\ s.agg.strategy = "weighted" =>
              \E q \in 0..taken : \A i \in DOMAIN s.agg.members :
                LET share == q * Weight(s.agg, i)
                IN  /\ count[s.agg.members[i].relay] \in share..(share + Weight(s.agg, i))
                    /\ s.weighted = 0 => count[s.agg.members[i].relay] = share
<1> DEFINE a == s.agg
<1>1. a \in Aggregates /\ s.weighted \in Nat /\ s.weighted < Rounds(a)
  BY DEF GoodSelector, Selectors
<1>2. /\ Size(a) \in Nat /\ DOMAIN a.members = 1..Size(a)
      /\ \A i \in 1..Size(a) : Weight(a, i) \in Nat
  BY <1>1, Members
<1>3. ASSUME a.strategy = "request"
      PROVE  \A m, n \in MemberSet(a) : count[m] <= count[n] + 1
  <2>1. PICK q \in 0..taken : \A i \in DOMAIN a.members :
          count[a.members[i].relay] = IF i <= s.request THEN q + 1 ELSE q
    BY <1>3 DEF Shares
  <2>2. \A m \in MemberSet(a) : count[m] = q \/ count[m] = q + 1
    BY <2>1 DEF MemberSet
  <2> QED BY <2>2
<1>4. ASSUME a.strategy = "weighted"
      PROVE  \E q \in 0..taken : \A i \in DOMAIN a.members :
               LET share == q * Weight(a, i)
               IN  /\ count[a.members[i].relay] \in share..(share + Weight(a, i))
                   /\ s.weighted = 0 => count[a.members[i].relay] = share
  <2>1. PICK q \in 0..taken : \A i \in DOMAIN a.members :
          count[a.members[i].relay] = q * Weight(a, i) + Part(a, i, s.weighted)
    BY <1>4 DEF Shares
  <2>2. ASSUME NEW i \in DOMAIN a.members
        PROVE  /\ Part(a, i, s.weighted) \in 0..Weight(a, i)
               /\ s.weighted = 0 => Part(a, i, s.weighted) = 0
    <3>1. PICK k \in 1..Size(a) : Before(a, k) <= s.weighted /\ s.weighted < Before(a, k + 1)
      BY <1>1, SlotAt
    <3> QED BY <1>1, <1>2, <3>1, PartSteps
  <2>3. ASSUME NEW i \in DOMAIN a.members
        PROVE  LET share == q * Weight(a, i)
               IN  /\ count[a.members[i].relay] \in share..(share + Weight(a, i))
                   /\ s.weighted = 0 => count[a.members[i].relay] = share
    <3> DEFINE share == q * Weight(a, i)
    <3>1. share \in Nat /\ Weight(a, i) \in Nat
      BY <1>2
    <3>2. count[a.members[i].relay] = share + Part(a, i, s.weighted)
      BY <2>1
    <3> HIDE DEF share
    <3>3. /\ count[a.members[i].relay] \in share..(share + Weight(a, i))
          /\ s.weighted = 0 => count[a.members[i].relay] = share
      BY <2>2, <3>1, <3>2
    <3> QED BY <3>3 DEF share
  <2> QED BY <2>3
<1> QED BY <1>3, <1>4

-----------------------------------------------------------------------------
(* The selector and what was selected, through every step.                 *)

(* The part of the invariant that is about the selector and what it gave.  *)
SelectorInv ==
  /\ sel \in Selectors \cup {NoSelector}
  /\ sel # NoSelector => GoodSelector(sel) /\ Shares(sel, picks, turns)
  /\ turns \in 0..MaxPicks /\ picks \in Counts(turns)
  /\ served \subseteq [conv : Conversations \cup {None}, key : AllKeys \cup {None}, relay : Relays]
  /\ KeysAssigned /\ KeysStick

(* A selector that is there is one of an aggregate.                        *)
LEMMA SelectorThere ==
  ASSUME SelectorInv, NEW a \in Aggregates
  PROVE  /\ sel.agg = a => sel # NoSelector /\ sel = SelectorFor(a)
         /\ sel.agg # a => SelectorFor(a) = Fresh(a)
         /\ GoodSelector(SelectorFor(a)) /\ SelectorFor(a).agg = a
<1>1. a # None
  BY Members
<1>2. sel.agg = a => sel # NoSelector
  BY <1>1 DEF NoSelector
<1>3. GoodSelector(Fresh(a)) /\ Fresh(a).agg = a
  BY FreshGood
<1> QED BY <1>2, <1>3 DEF SelectorInv, SelectorFor

(* The selector dropped or kept, and nothing selected.                     *)
LEMMA DroppedOrKept ==
  ASSUME SelectorInv, sel' \in {sel, NoSelector}, UNCHANGED history
  PROVE  SelectorInv'
<1>1. UNCHANGED <<turns, picks, served>>
  BY DEF history
<1>2. CASE sel' = sel
  BY <1>1, <1>2 DEF SelectorInv, KeysAssigned, KeysStick
<1>3. CASE sel' = NoSelector
  BY <1>1, <1>3 DEF SelectorInv, KeysAssigned, KeysStick
<1> QED BY <1>2, <1>3

(* A failure moves the failover index on and nothing else.                 *)
LEMMA FailoverMoves ==
  ASSUME SelectorInv, sel # NoSelector, sel.agg.strategy = "failover",
         sel' = [sel EXCEPT !.failover = (@ + 1) % Size(sel.agg)], UNCHANGED history
  PROVE  SelectorInv'
<1>1. UNCHANGED <<turns, picks, served>>
  BY DEF history
<1>2. sel \in Selectors /\ GoodSelector(sel) /\ sel.agg \in Aggregates
  BY DEF SelectorInv, GoodSelector, Selectors
<1>3. Size(sel.agg) \in Nat /\ Size(sel.agg) > 0
  BY <1>2, Members
<1>4. sel.failover \in Nat
  BY <1>2 DEF Selectors
<1>5. (sel.failover + 1) % Size(sel.agg) \in 0..(Size(sel.agg) - 1)
  BY <1>3, <1>4, Round
<1>6. /\ sel'.agg = sel.agg /\ sel'.request = sel.request /\ sel'.weighted = sel.weighted
      /\ sel'.assigned = sel.assigned /\ sel'.failover = (sel.failover + 1) % Size(sel.agg)
      /\ sel' \in Selectors
  BY <1>2, <1>3, <1>5 DEF Selectors
<1>7. GoodSelector(sel')
  BY <1>2, <1>3, <1>5, <1>6 DEF GoodSelector
<1>8. Shares(sel', picks, turns)
  BY <1>6 DEF Shares
<1>9. KeysAssigned' /\ KeysStick'
  BY <1>1, <1>6 DEF SelectorInv, KeysAssigned, KeysStick
<1> QED BY <1>1, <1>6, <1>7, <1>8, <1>9 DEF SelectorInv

(* The probe builds the selector but takes nothing from it.                *)
LEMMA ProbeBuilds ==
  ASSUME SelectorInv, NEW a \in Aggregates,
         sel' = SelectorFor(a),
         turns' = IF sel.agg = a THEN turns ELSE 0,
         picks' = IF sel.agg = a THEN picks ELSE [m \in Relays |-> 0],
         served' = IF sel.agg = a THEN served ELSE {}
  PROVE  SelectorInv'
<1>1. CASE sel.agg = a
  BY <1>1, SelectorThere, DroppedOrKept DEF history
<1>2. CASE sel.agg # a
  <2>1. /\ sel' = Fresh(a) /\ GoodSelector(sel') /\ turns' = 0 /\ picks' = [m \in Relays |-> 0]
        /\ served' = {}
    BY <1>2, SelectorThere
  <2>2. Shares(sel', picks', turns')
    BY <2>1, FreshShares
  <2>3. picks' \in Counts(turns') /\ turns' \in 0..MaxPicks
    BY <2>1, BoundsAssumption DEF Counts
  <2> QED BY <2>1, <2>2, <2>3 DEF SelectorInv, GoodSelector, KeysAssigned, KeysStick
<1> QED BY <1>1, <1>2

(* A conversation key that was assigned keeps its member, and one that was *)
(* not gets the one that is selected; no other strategy assigns any.       *)
LEMMA AssignedAfter ==
  ASSUME NEW s, GoodSelector(s), NEW key \in AllKeys \cup {None}
  PROVE  /\ \A k \in AllKeys : s.assigned[k] # None => After(s, key).assigned[k] = s.assigned[k]
         /\ s.agg.strategy = "conversation" /\ key # None =>
              /\ After(s, key).assigned[key] = Choice(s, key)
              /\ s.assigned[key] # None => Choice(s, key) = s.assigned[key]
<1>1. /\ s \in Selectors /\ s.assigned \in [AllKeys -> Relays \cup {None}]
  BY DEF GoodSelector, Selectors
<1>2. s.agg.strategy = "conversation" /\ key # None =>
        Choice(s, key) = IF s.assigned[key] # None THEN s.assigned[key]
                         ELSE Member(s.agg, s.request)
  BY DEF Choice
<1>3. CASE s.agg.strategy = "conversation" /\ key # None /\ s.assigned[key] = None
  <2>1. After(s, key) = [s EXCEPT !.request = (@ + 1) % Size(s.agg),
                                  !.assigned[key] = Member(s.agg, s.request)]
    BY <1>3 DEF After
  <2>2. After(s, key).assigned = [s.assigned EXCEPT ![key] = Member(s.agg, s.request)]
    BY <1>1, <2>1 DEF Selectors
  <2> QED BY <1>1, <1>2, <1>3, <2>2
<1>4. CASE ~ (s.agg.strategy = "conversation" /\ key # None /\ s.assigned[key] = None)
  <2>1. After(s, key).assigned = s.assigned
    BY <1>1, <1>4 DEF After, Selectors
  <2> QED BY <1>2, <1>4, <2>1
<1> QED BY <1>3, <1>4

(* A selection.                                                            *)
LEMMA SelectInv ==
  ASSUME SelectorInv, NEW r \in Requests, req[r] \in Running, Select(r)
  PROVE  SelectorInv' /\ Choice(SelectorFor(req[r].agg), req[r].key) \in MemberSet(req[r].agg)
<1> DEFINE a == req[r].agg
           key == req[r].key
           s == SelectorFor(a)
           m == Choice(s, key)
           taken == IF sel.agg = a THEN turns ELSE 0
           counted == IF sel.agg = a THEN picks ELSE [x \in Relays |-> 0]
           known == IF sel.agg = a THEN served ELSE {}
           new == [conv |-> req[r].conv, key |-> key, relay |-> m]
<1>1. /\ a # None /\ taken < MaxPicks /\ sel' = After(s, key)
      /\ turns' = IF a.strategy = "failover" THEN taken ELSE taken + 1
      /\ picks' = IF a.strategy = "failover" THEN counted ELSE [counted EXCEPT ![m] = @ + 1]
      /\ served' = IF a.strategy # "conversation" THEN known ELSE known \cup {new}
  BY DEF Select
<1>2. a \in Aggregates /\ key \in AllKeys \cup {None} /\ req[r].conv \in Conversations \cup {None}
  BY <1>1 DEF Running
<1>3. GoodSelector(s) /\ s.agg = a /\ (sel.agg = a => sel # NoSelector /\ s = sel)
      /\ (sel.agg # a => s = Fresh(a))
  BY <1>2, SelectorThere
<1>4. m \in MemberSet(a) /\ GoodSelector(sel') /\ sel'.agg = a
  BY <1>1, <1>2, <1>3, SelectGood
<1>5. MemberSet(a) \subseteq Relays
  BY <1>2, Members
<1>6. taken \in 0..MaxPicks /\ counted \in Counts(taken) /\ Shares(s, counted, taken)
  <2>1. CASE sel.agg = a
    BY <1>3, <2>1 DEF SelectorInv
  <2>2. CASE sel.agg # a
    BY <1>2, <1>3, <2>2, FreshShares, BoundsAssumption DEF Counts
  <2> QED BY <2>1, <2>2
<1>7. turns' \in 0..MaxPicks /\ picks' \in Counts(turns') /\ Shares(sel', picks', turns')
  <2>1. CASE a.strategy = "failover"
    BY <1>1, <1>4, <1>6, <2>1 DEF Shares
  <2>2. CASE a.strategy # "failover"
    <3>1. taken \in Nat /\ taken + 1 \in 0..MaxPicks
      BY <1>1, <1>6, BoundsAssumption
    <3> HIDE DEF counted, taken, s, key
    <3>2. /\ [counted EXCEPT ![m] = @ + 1] \in Counts(taken + 1)
          /\ Shares(After(s, key), [counted EXCEPT ![m] = @ + 1], taken + 1)
      BY <1>2, <1>3, <1>6, <3>1, SelectShares
    <3> QED BY <1>1, <2>2, <3>1, <3>2
  <2> QED BY <2>1, <2>2
<1>8. /\ known \subseteq [conv : Conversations \cup {None}, key : AllKeys \cup {None}, relay : Relays]
      /\ \A x \in known : x.key # None => x.relay = s.assigned[x.key]
      /\ \A x, y \in known : x.key = y.key /\ x.key # None => x.relay = y.relay
  BY <1>3 DEF SelectorInv, KeysAssigned, KeysStick
<1>9. /\ \A k \in AllKeys : s.assigned[k] # None => sel'.assigned[k] = s.assigned[k]
      /\ a.strategy = "conversation" /\ key # None => /\ sel'.assigned[key] = m
                                                      /\ s.assigned[key] # None => m = s.assigned[key]
  BY <1>1, <1>2, <1>3, AssignedAfter
<1>10. \A x \in served' : x.key # None => x.relay = sel'.assigned[x.key]
  <2>1. ASSUME NEW x \in known, x.key # None PROVE x.relay = sel'.assigned[x.key]
    <3>1. x.key \in AllKeys /\ x.relay \in Relays /\ x.relay # None
      BY <1>8, <2>1, NoneAssumption
    <3>2. x.relay = s.assigned[x.key]
      BY <1>8, <2>1
    <3> QED BY <1>9, <3>1, <3>2
  <2>2. a.strategy = "conversation" /\ key # None => new.relay = sel'.assigned[new.key]
    BY <1>9
  <2> QED BY <1>1, <2>1, <2>2
<1>11. KeysAssigned' /\ KeysStick'
  BY <1>10 DEF KeysAssigned, KeysStick
<1>12. served' \subseteq [conv : Conversations \cup {None}, key : AllKeys \cup {None}, relay : Relays]
  BY <1>1, <1>2, <1>4, <1>5, <1>8
<1>13. sel' \in Selectors
  BY <1>4 DEF GoodSelector
<1>14. SelectorInv'
  BY <1>4, <1>7, <1>11, <1>12, <1>13 DEF SelectorInv
<1> QED BY <1>4, <1>14

-----------------------------------------------------------------------------
(* The requests, through every step.                                       *)

(* The relays a request may be sent to.                                    *)
OfRequest(q) == IF q.agg = None THEN {Plain} ELSE MemberSet(q.agg)

(* A request in any of its steps: what was tried and what is still to try  *)
(* are candidates, each once; all of them while it is being sent; and one  *)
(* that gave up tried them all.                                            *)
RequestOK(q) ==
  /\ q \in Running
  /\ q.step = "sending" <=> q.todo # <<>>
  /\ q.step = "loaded" => q.tried = <<>>
  /\ q.step # "idle" => q.answer = "none"
  /\ IsInjective(q.tried \o q.todo) /\ ToSet(q.tried \o q.todo) \subseteq OfRequest(q)
  /\ q.step = "sending" => ToSet(q.tried \o q.todo) = OfRequest(q)
  /\ q.answer = "exhausted" => ToSet(q.tried) = OfRequest(q)

(* The part of the invariant that is about the requests.                   *)
RequestsInv ==
  /\ req \in [Requests -> Running]
  /\ \A r \in Requests : RequestOK(req[r])

(* A step of one request leaves the others alone.                          *)
LEMMA OneRequest ==
  ASSUME RequestsInv, NEW r \in Requests, NEW q, RequestOK(q), req' = [req EXCEPT ![r] = q]
  PROVE  RequestsInv'
<1>1. q \in Running
  BY DEF RequestOK
<1>2. \A x \in Requests : req'[x] = IF x = r THEN q ELSE req[x]
  BY DEF RequestsInv
<1>3. \A x \in Requests : RequestOK(req'[x])
  BY <1>2 DEF RequestsInv
<1> QED BY <1>1, <1>3 DEF RequestsInv

(* What is left of a sequence without repetitions has none.                *)
LEMMA Prefix ==
  ASSUME NEW S, NEW t \in Seq(S), NEW d \in Seq(S), IsInjective(t \o d)
  PROVE  /\ IsInjective(t) /\ ToSet(t) \subseteq ToSet(t \o d)
         /\ t \o <<>> = t /\ <<>> \o d = d
<1>1. /\ t \o d \in Seq(S) /\ Len(t \o d) = Len(t) + Len(d)
      /\ \A i \in 1..(Len(t) + Len(d)) : (t \o d)[i] = IF i <= Len(t) THEN t[i] ELSE d[i - Len(t)]
  BY ConcatProperties
<1>2. Len(t) \in Nat /\ Len(d) \in Nat /\ DOMAIN t = 1..Len(t) /\ DOMAIN (t \o d) = 1..(Len(t) + Len(d))
  BY <1>1, LenProperties
<1>3. \A i \in DOMAIN t : i \in DOMAIN (t \o d) /\ (t \o d)[i] = t[i]
  BY <1>1, <1>2
<1>4. IsInjective(t)
  BY <1>3 DEF IsInjective
<1>5. ToSet(t) \subseteq ToSet(t \o d)
  BY <1>3 DEF ToSet
<1> QED BY <1>4, <1>5, ConcatEmptySeq

(* The head of what is left to try moves to what was tried.                *)
LEMMA OneTried ==
  ASSUME NEW S, NEW t \in Seq(S), NEW d \in Seq(S), d # <<>>
  PROVE  /\ Append(t, Head(d)) \in Seq(S) /\ Tail(d) \in Seq(S)
         /\ Append(t, Head(d)) \o Tail(d) = t \o d
<1>1. Head(d) \in S /\ Tail(d) \in Seq(S) /\ <<Head(d)>> \in Seq(S)
  BY HeadTailProperties
<1>2. Append(t, Head(d)) = t \o <<Head(d)>> /\ Append(t, Head(d)) \in Seq(S)
  BY <1>1
<1>3. <<Head(d)>> \o Tail(d) = d
  BY <1>1
<1>4. (t \o <<Head(d)>>) \o Tail(d) = t \o (<<Head(d)>> \o Tail(d))
  BY <1>1, ConcatAssociative
<1> QED BY <1>1, <1>2, <1>3, <1>4

(* A request ends with what it tried, whatever the answer, unless it gave  *)
(* up before the last candidate.                                           *)
LEMMA RequestEnds ==
  ASSUME NEW q, RequestOK(q), NEW p \in Running, p.agg = q.agg, p.step = "idle",
         p.todo = <<>>, p.tried = q.tried, p.answer \in {"ok", "refused", "probed"}
  PROVE  RequestOK(p)
<1>1. q.tried \in Seq(Relays) /\ q.todo \in Seq(Relays) /\ IsInjective(q.tried \o q.todo)
      /\ ToSet(q.tried \o q.todo) \subseteq OfRequest(q)
  BY DEF RequestOK, Running
<1>2. /\ IsInjective(q.tried) /\ ToSet(q.tried) \subseteq ToSet(q.tried \o q.todo)
      /\ q.tried \o <<>> = q.tried
  BY <1>1, Prefix
<1>3. OfRequest(p) = OfRequest(q)
  BY DEF OfRequest
<1> QED BY <1>1, <1>2, <1>3 DEF RequestOK

(* A request is answered by the candidate it tried.                        *)
LEMMA AnsweredOK ==
  ASSUME RequestsInv, NEW r \in Requests, Answered(r)
  PROVE  RequestsInv'
<1> DEFINE q == req[r]
           p == [q EXCEPT !.step = "idle", !.answer = "ok", !.todo = <<>>,
                          !.tried = Append(@, Head(q.todo))]
<1>1. q \in Running /\ RequestOK(q) /\ q.step = "sending"
  BY DEF RequestsInv, Answered, At
<1>2. req' = [req EXCEPT ![r] = p]
  BY DEF Answered, RequestsInv
<1>3. q.tried \in Seq(Relays) /\ q.todo \in Seq(Relays) /\ q.todo # <<>>
  BY <1>1 DEF RequestOK, Running
<1>4. /\ Append(q.tried, Head(q.todo)) \in Seq(Relays) /\ Tail(q.todo) \in Seq(Relays)
      /\ Append(q.tried, Head(q.todo)) \o Tail(q.todo) = q.tried \o q.todo
  BY <1>3, OneTried
<1>5. /\ p \in Running /\ p.tried = Append(q.tried, Head(q.todo)) /\ p.todo = <<>>
      /\ p.step = "idle" /\ p.answer = "ok" /\ p.agg = q.agg
  BY <1>1, <1>4, EmptySeq DEF Running
<1>6. IsInjective(q.tried \o q.todo) /\ ToSet(q.tried \o q.todo) \subseteq OfRequest(q)
  BY <1>1 DEF RequestOK
<1>7. /\ IsInjective(p.tried) /\ ToSet(p.tried) \subseteq OfRequest(q) /\ p.tried \o <<>> = p.tried
  <2> HIDE DEF p
  <2>1. /\ p.tried \in Seq(Relays) /\ Tail(q.todo) \in Seq(Relays)
        /\ p.tried \o Tail(q.todo) = q.tried \o q.todo
    BY <1>4, <1>5
  <2>2. IsInjective(p.tried \o Tail(q.todo))
    BY <1>6, <2>1
  <2>3. /\ IsInjective(p.tried) /\ ToSet(p.tried) \subseteq ToSet(p.tried \o Tail(q.todo))
        /\ p.tried \o <<>> = p.tried
    BY <2>1, <2>2, Prefix
  <2> QED BY <1>6, <2>1, <2>3
<1>8. OfRequest(p) = OfRequest(q)
  BY <1>5 DEF OfRequest
<1> HIDE DEF p
<1>9. RequestOK(p)
  BY <1>5, <1>7, <1>8 DEF RequestOK
<1> QED BY <1>2, <1>9, OneRequest

(* The next candidate is tried, or all have been.                          *)
LEMMA FailedOK ==
  ASSUME RequestsInv, NEW r \in Requests, Failed(r)
  PROVE  RequestsInv'
<1> DEFINE q == req[r]
           left == Tail(q.todo)
           p == [q EXCEPT !.todo = left, !.tried = Append(@, Head(q.todo)),
                          !.step = IF left = <<>> THEN "idle" ELSE "sending",
                          !.answer = IF left = <<>> THEN "exhausted" ELSE "none"]
<1>1. q \in Running /\ RequestOK(q) /\ q.step = "sending"
  BY DEF RequestsInv, Failed, At
<1>2. req' = [req EXCEPT ![r] = p]
  BY DEF Failed, RequestsInv
<1>3. q.tried \in Seq(Relays) /\ q.todo \in Seq(Relays) /\ q.todo # <<>>
  BY <1>1 DEF RequestOK, Running
<1>4. /\ Append(q.tried, Head(q.todo)) \in Seq(Relays) /\ left \in Seq(Relays)
      /\ Append(q.tried, Head(q.todo)) \o left = q.tried \o q.todo
  BY <1>3, OneTried
<1> HIDE DEF left
<1>5. /\ p \in Running /\ p.tried = Append(q.tried, Head(q.todo)) /\ p.todo = left
      /\ p.step = (IF left = <<>> THEN "idle" ELSE "sending") /\ p.agg = q.agg
      /\ p.answer = (IF left = <<>> THEN "exhausted" ELSE "none")
  BY <1>1, <1>4 DEF Running
<1> HIDE DEF p
<1>6. p.tried \o p.todo = q.tried \o q.todo /\ OfRequest(p) = OfRequest(q)
  BY <1>4, <1>5 DEF OfRequest
<1>7. IsInjective(q.tried \o q.todo) /\ ToSet(q.tried \o q.todo) = OfRequest(q)
  BY <1>1 DEF RequestOK
<1>8. left = <<>> => ToSet(p.tried) = OfRequest(p)
  <2> SUFFICES ASSUME left = <<>> PROVE ToSet(p.tried) = OfRequest(p)
    OBVIOUS
  <2>1. p.tried \o <<>> = p.tried
    BY <1>4, <1>5, ConcatEmptySeq
  <2> QED BY <1>5, <1>6, <1>7, <2>1
<1>9. RequestOK(p)
  BY <1>5, <1>6, <1>7, <1>8 DEF RequestOK
<1> QED BY <1>2, <1>9, OneRequest

(* A request that was refused, or only probed, ends.                       *)
LEMMA FinishOK ==
  ASSUME RequestsInv, NEW r \in Requests, NEW what \in {"refused", "probed"}, Finish(r, what)
  PROVE  RequestsInv'
<1> DEFINE q == req[r]
           p == [q EXCEPT !.step = "idle", !.answer = what, !.todo = <<>>, !.conv = None, !.key = None]
<1>1. q \in Running /\ RequestOK(q)
  BY DEF RequestsInv
<1>2. req' = [req EXCEPT ![r] = p]
  BY DEF Finish, RequestsInv
<1>3. /\ p \in Running /\ p.tried = q.tried /\ p.todo = <<>> /\ p.step = "idle"
      /\ p.answer = what /\ p.agg = q.agg
  BY <1>1, EmptySeq DEF Running
<1>4. RequestOK(p)
  BY <1>1, <1>3, RequestEnds
<1> QED BY <1>2, <1>4, OneRequest

(* A request is sent to candidates that are all members once.              *)
LEMMA SendOK ==
  ASSUME RequestsInv, NEW r \in Requests, At(r, "loaded"), NEW todo \in Seq(Relays), todo # <<>>,
         IsInjective(todo), ToSet(todo) = OfRequest(req[r]), Send(r, todo)
  PROVE  RequestsInv'
<1> DEFINE q == req[r]
           p == [q EXCEPT !.step = "sending", !.todo = todo, !.conv = None, !.key = None]
<1>1. q \in Running /\ RequestOK(q) /\ q.step = "loaded" /\ q.tried = <<>> /\ q.answer = "none"
  BY DEF RequestsInv, At, RequestOK
<1>2. req' = [req EXCEPT ![r] = p]
  BY DEF Send, RequestsInv
<1>3. /\ p \in Running /\ p.tried = <<>> /\ p.todo = todo /\ p.step = "sending"
      /\ p.answer = "none" /\ p.agg = q.agg
  BY <1>1 DEF Running
<1>4. <<>> \o todo = todo
  BY ConcatEmptySeq
<1>5. OfRequest(p) = OfRequest(q)
  BY <1>3 DEF OfRequest
<1>6. RequestOK(p)
  BY <1>3, <1>4, <1>5 DEF RequestOK
<1> QED BY <1>2, <1>6, OneRequest

(* A key a conversation may go by is a key of the state, or none.          *)
LEMMA KeyKnown ==
  ASSUME NEW c \in Conversations, NEW k \in Keys(c)
  PROVE  k \in AllKeys \cup {None}
<1>1. k \in UNION {Keys(x) : x \in Conversations}
  OBVIOUS
<1> QED BY <1>1 DEF AllKeys

(* A request is loaded.                                                    *)
LEMMA LoadOK ==
  ASSUME RequestsInv, NEW r \in Requests, Load(r)
  PROVE  RequestsInv'
<1>0. PICK agg \in Aggregates \cup {None}, intact \in BOOLEAN, c \in Conversations :
        \E k \in Keys(c) :
          req' = [req EXCEPT ![r] = [NoRequest EXCEPT !.step = "loaded", !.agg = agg,
                                                      !.intact = intact, !.conv = c, !.key = k]]
  BY DEF Load
<1>1. PICK k \in Keys(c) :
        req' = [req EXCEPT ![r] = [NoRequest EXCEPT !.step = "loaded", !.agg = agg,
                                                    !.intact = intact, !.conv = c, !.key = k]]
  BY <1>0
<1> DEFINE p == [NoRequest EXCEPT !.step = "loaded", !.agg = agg, !.intact = intact, !.conv = c,
                                  !.key = k]
<1>2. c \in Conversations /\ k \in Keys(c)
  BY <1>1
<1>3. k \in AllKeys \cup {None}
  BY <1>2, KeyKnown
<1>4. /\ p \in Running /\ p.step = "loaded" /\ p.tried = <<>> /\ p.todo = <<>> /\ p.answer = "none"
  BY <1>3, EmptySeq DEF NoRequest, Running
<1>5. <<>> \o <<>> = <<>> /\ DOMAIN <<>> = {}
  BY ConcatEmptySeq, EmptySeq
<1>6. IsInjective(<<>>) /\ ToSet(<<>>) = {}
  BY <1>5 DEF IsInjective, ToSet
<1>7. RequestOK(p)
  BY <1>4, <1>5, <1>6 DEF RequestOK
<1> QED BY <1>1, <1>7, OneRequest

-----------------------------------------------------------------------------
(* The inductive invariant.                                                *)
RotationProved == SelectorInv /\ RequestsInv

(* It is at least what the runs check.                                     *)
LEMMA ProvedImplies ==
  ASSUME RotationProved
  PROVE  RotationInv /\ EveryMemberTried /\ KeysStick
<1>1. sel \in Selectors /\ GoodSelector(sel) => sel.agg \in Aggregates
  BY DEF Selectors
<1>2. RoundsInv
  BY DEF RoundsInv, RotationProved, SelectorInv, Shares
<1>3. FairShares
  <2> SUFFICES ASSUME sel # NoSelector
      PROVE  /\ sel.agg.strategy = "request" =>
                  \A m, n \in MemberSet(sel.agg) : picks[m] <= picks[n] + 1
             /\ sel.agg.strategy = "weighted" =>
                  \E q \in 0..turns : \A i \in DOMAIN sel.agg.members :
                    LET share == q * Weight(sel.agg, i)
                    IN  /\ picks[sel.agg.members[i].relay] \in share..(share + Weight(sel.agg, i))
                        /\ sel.weighted = 0 => picks[sel.agg.members[i].relay] = share
    BY DEF FairShares
  <2>1. GoodSelector(sel) /\ Shares(sel, picks, turns) /\ turns \in Nat /\ picks \in Counts(turns)
    BY BoundsAssumption DEF RotationProved, SelectorInv
  <2> QED BY <2>1, SharesFair
<1>4. TypeOK
  BY DEF RotationProved, SelectorInv, RequestsInv, RequestOK, GoodSelector, Counts, TypeOK, At
<1>5. EveryMemberTried
  BY DEF RotationProved, RequestsInv, RequestOK, EveryMemberTried, Candidates, OfRequest, Sent, At
<1> QED BY <1>2, <1>3, <1>4, <1>5 DEF RotationInv, RotationProved, SelectorInv

(* The process starts with no selector and no request.                     *)
LEMMA InitProved == Init => RotationProved
<1> SUFFICES ASSUME Init PROVE RotationProved
  OBVIOUS
<1>1. SelectorInv
  <2>1. turns \in 0..MaxPicks /\ picks \in Counts(turns)
    BY BoundsAssumption DEF Init, Counts
  <2> QED BY <2>1 DEF Init, SelectorInv, KeysAssigned, KeysStick
<1>2. RequestOK(NoRequest)
  <2>1. NoRequest \in Running
    BY EmptySeq DEF NoRequest, Running
  <2>2. <<>> \o <<>> = <<>> /\ DOMAIN <<>> = {}
    BY ConcatEmptySeq, EmptySeq
  <2>3. IsInjective(<<>>) /\ ToSet(<<>>) = {}
    BY <2>2 DEF IsInjective, ToSet
  <2> QED BY <2>1, <2>2, <2>3 DEF NoRequest, RequestOK
<1>3. RequestsInv
  BY <1>2 DEF Init, RequestsInv, RequestOK
<1> QED BY <1>1, <1>3 DEF RotationProved

(* What a finished attempt records touches the failover index only.        *)
LEMMA RecordInv ==
  ASSUME SelectorInv, NEW r \in Requests, NEW ok \in BOOLEAN, Record(r, ok), UNCHANGED history
  PROVE  SelectorInv'
<1>1. \/ sel' \in {sel, NoSelector}
      \/ /\ sel # NoSelector /\ sel.agg.strategy = "failover"
         /\ sel' = [sel EXCEPT !.failover = (@ + 1) % Size(sel.agg)]
  BY DEF Record
<1> QED BY <1>1, DroppedOrKept, FailoverMoves

(* Every step of a request, a probe and the retries keeps selector and     *)
(* requests in order.                                                      *)
LEMMA NextProved == RotationProved /\ [Next]_vars => RotationProved'
<1> SUFFICES ASSUME SelectorInv, RequestsInv, [Next]_vars PROVE SelectorInv' /\ RequestsInv'
  BY DEF RotationProved
<1>1. ASSUME NEW r \in Requests, Load(r) PROVE SelectorInv' /\ RequestsInv'
  BY <1>1, LoadOK, DroppedOrKept DEF Load
<1>2. ASSUME NEW r \in Requests, Select(r) PROVE SelectorInv' /\ RequestsInv'
  <2> DEFINE a == req[r].agg
             m == Choice(SelectorFor(a), req[r].key)
             todo == <<m>> \o FallbackAfter(a, m)
  <2>1. req[r] \in Running
    BY DEF RequestsInv
  <2>2. SelectorInv' /\ m \in MemberSet(a)
    BY <1>2, <2>1, SelectInv
  <2>3. a \in Aggregates /\ a # None
    BY <1>2, <2>1 DEF Select, Running
  <2>4. At(r, "loaded") /\ Send(r, todo)
    BY <1>2 DEF Select
  <2>5. todo \in Seq(Relays) /\ todo # <<>> /\ IsInjective(todo) /\ ToSet(todo) = MemberSet(a)
    BY <2>2, <2>3, CandidatesOnce
  <2>6. OfRequest(req[r]) = MemberSet(a)
    BY <2>3 DEF OfRequest
  <2> HIDE DEF todo
  <2>7. RequestsInv'
    BY <2>4, <2>5, <2>6, SendOK
  <2> QED BY <2>2, <2>7
<1>3. ASSUME NEW r \in Requests, SelectFails(r) PROVE SelectorInv' /\ RequestsInv'
  BY <1>3, FinishOK, DroppedOrKept DEF SelectFails
<1>4. ASSUME NEW r \in Requests, SelectPlain(r) PROVE SelectorInv' /\ RequestsInv'
  <2>1. /\ At(r, "loaded") /\ req[r].agg = None /\ sel' \in {sel, NoSelector}
        /\ Send(r, <<Plain>>) /\ UNCHANGED history
    BY <1>4 DEF SelectPlain
  <2>2. <<Plain>> \in Seq(Relays) /\ <<Plain>> # <<>>
    BY DEF Relays
  <2>3. IsInjective(<<Plain>>) /\ ToSet(<<Plain>>) = {Plain}
    BY DEF IsInjective, ToSet
  <2>4. OfRequest(req[r]) = {Plain}
    BY <2>1 DEF OfRequest
  <2> QED BY <2>1, <2>2, <2>3, <2>4, SendOK, DroppedOrKept
<1>5. ASSUME NEW r \in Requests, Probe(r) PROVE SelectorInv' /\ RequestsInv'
  <2>1. RequestsInv'
    BY <1>5, FinishOK DEF Probe
  <2>2. CASE req[r].agg = None
    BY <1>5, <2>1, <2>2, DroppedOrKept DEF Probe
  <2>3. CASE req[r].agg # None
    <3>1. req[r].agg \in Aggregates
      BY <2>3 DEF RequestsInv, Running
    <3> QED BY <1>5, <2>1, <2>3, <3>1, ProbeBuilds DEF Probe
  <2> QED BY <2>2, <2>3
<1>6. ASSUME NEW r \in Requests, Answered(r) PROVE SelectorInv' /\ RequestsInv'
  BY <1>6, AnsweredOK, RecordInv DEF Answered
<1>7. ASSUME NEW r \in Requests, Failed(r) PROVE SelectorInv' /\ RequestsInv'
  BY <1>7, FailedOK, RecordInv DEF Failed
<1>8. ASSUME NEW r \in Requests, PrepareFails(r) PROVE SelectorInv' /\ RequestsInv'
  BY <1>8, FinishOK, DroppedOrKept DEF PrepareFails
<1>9. CASE UNCHANGED vars
  <2>1. SelectorInv'
    BY <1>9, DroppedOrKept DEF vars
  <2>2. RequestsInv'
    BY <1>9 DEF vars, RequestsInv
  <2> QED BY <2>1, <2>2
<1> QED
  BY <1>1, <1>2, <1>3, <1>4, <1>5, <1>6, <1>7, <1>8, <1>9 DEF Next

(* Selector, counts and requests fit together in every reachable state.    *)
LEMMA Proved == Spec => []RotationProved
<1> QED BY InitProved, NextProved, PTL DEF Spec

(* The indices of the selector stay inside the aggregate they belong to,   *)
(* and round robin and weights give every member its share, whatever       *)
(* requests run side by side (RelayRotationSelector::select).              *)
THEOREM RotationInvariant == Spec => []RotationInv
<1>1. RotationProved => RotationInv
  BY ProvedImplies
<1> QED BY <1>1, Proved, PTL

(* A request gives up only after it has tried every member of its          *)
(* aggregate exactly once (fallback_relays_after and the retry loop).      *)
THEOREM TriesEveryMember == Spec => []EveryMemberTried
<1>1. RotationProved => EveryMemberTried
  BY ProvedImplies
<1> QED BY <1>1, Proved, PTL

(* Requests that carry the same conversation key get the same member       *)
(* (select_for_conversation).                                              *)
THEOREM ConversationsStick == Spec => []KeysStick
<1>1. RotationProved => KeysStick
  BY ProvedImplies
<1> QED BY <1>1, Proved, PTL

-----------------------------------------------------------------------------
(* What Codex reads from the converter: events, and readers of events.     *)

(* What Codex has read, as a value, and what reading an event makes of it. *)
Word ==
  {"<th", "ink>", Close, Space, "x", "y", "r", "a", "", "given", "generated", "shell", CustomName,
   "unknown_tool", "message", "reasoning", "function_call", "custom_tool_call"}
Text == Seq(Word)
ShownItem == [kind : Promised!Kinds, id : Seq(Word), text : Text, closed : {0, 1}]
ClosedItem == [index : Nat, text : Text]
Readers ==
  [started : BOOLEAN, ended : {"-", "completed", "failed"}, items : Seq(ShownItem),
   output : Seq(ClosedItem)]
Now == [started |-> started, ended |-> ended, items |-> items, output |-> output]

Events ==
  [ev : {"created", "failed"}]
    \cup [ev : {"added"}, index : Nat, kind : Promised!Kinds, id : Seq(Word)]
    \cup [ev : {"delta"}, index : Nat, text : Text]
    \cup [ev : {"done"}, index : Nat, id : Seq(Word)]
    \cup [ev : {"completed"}, output : Seq(ClosedItem)]

Alive(r) == r.started /\ r.ended = "-"
Legal(r, e) ==
  CASE e.ev = "created" -> ~ r.started
    [] e.ev = "added" -> Alive(r) /\ e.index = Len(r.items) + 1
    [] e.ev = "delta" -> /\ Alive(r) /\ e.index \in DOMAIN r.items
                         /\ r.items[e.index].closed = 0 \/ r.items[e.index].kind = "reasoning"
    [] e.ev = "done" -> /\ Alive(r) /\ e.index \in DOMAIN r.items
                        /\ r.items[e.index].closed = 0 /\ r.items[e.index].id = e.id
    [] e.ev = "completed" -> Alive(r) /\ \A i \in DOMAIN r.items : r.items[i].closed = 1
    [] OTHER -> TRUE

Extended(shown, i, text) == [shown EXCEPT ![i].text = @ \o text]
Shut(shown, i) == [shown EXCEPT ![i].closed = 1]
ReadOn(r, e) ==
  CASE e.ev = "created" -> [r EXCEPT !.started = TRUE]
    [] e.ev = "added" ->
         [r EXCEPT !.items = Append(@, [kind |-> e.kind, id |-> e.id, text |-> <<>>, closed |-> 0])]
    [] e.ev = "delta" -> [r EXCEPT !.items = Extended(r.items, e.index, e.text)]
    [] e.ev = "done" -> [r EXCEPT !.items = Shut(r.items, e.index)]
    [] e.ev = "completed" -> [r EXCEPT !.ended = "completed", !.output = e.output]
    [] OTHER -> [r EXCEPT !.ended = "failed"]

Kinds == {"created", "added", "delta", "done", "completed", "failed"}

(* What an event of each kind has.                                         *)
LEMMA EventParts ==
  ASSUME NEW e \in Events
  PROVE  /\ e.ev \in Kinds
         /\ e.ev \in {"created", "failed"} => e = [ev |-> e.ev]
         /\ e.ev = "added" => /\ e.index \in Nat /\ e.kind \in Promised!Kinds /\ e.id \in Seq(Word)
         /\ e.ev = "delta" => e.index \in Nat /\ e.text \in Text
         /\ e.ev = "done" => e.index \in Nat /\ e.id \in Seq(Word)
         /\ e.ev = "completed" => e.output \in Seq(ClosedItem)
BY DEF Events, Kinds

(* An event that fits leaves a typed reader.                               *)
LEMMA AfterTyped ==
  ASSUME NEW r \in Readers, NEW e \in Events, Legal(r, e)
  PROVE  ReadOn(r, e) \in Readers
<1>0. r.items \in Seq(ShownItem)
  BY DEF Readers
<1>1. CASE e.ev = "added"
  <2> DEFINE new == [kind |-> e.kind, id |-> e.id, text |-> <<>>, closed |-> 0]
  <2>1. new \in ShownItem
    BY <1>1, EventParts DEF ShownItem, Text
  <2>3. Append(r.items, new) \in Seq(ShownItem)
    BY <1>0, <2>1
  <2>4. ReadOn(r, e) = [r EXCEPT !.items = Append(r.items, new)]
    BY <1>1 DEF ReadOn
  <2> HIDE DEF new
  <2> QED
    BY <2>3, <2>4 DEF Readers
<1>2. CASE e.ev = "delta"
  <2> DEFINE x == r.items[e.index]
  <2>1. x \in ShownItem /\ e.text \in Text /\ e.index \in DOMAIN r.items
    BY <1>0, <1>2, EventParts DEF Legal
  <2>2. x.text \o e.text \in Text
    BY <2>1 DEF ShownItem, Text
  <2>3. [x EXCEPT !.text = x.text \o e.text] \in ShownItem
    BY <2>1, <2>2 DEF ShownItem
  <2>4. Extended(r.items, e.index, e.text) \in Seq(ShownItem)
    BY <1>0, <2>1, <2>3 DEF Extended
  <2>5. ReadOn(r, e) = [r EXCEPT !.items = Extended(r.items, e.index, e.text)]
    BY <1>2 DEF ReadOn
  <2> QED
    BY <2>4, <2>5 DEF Readers
<1>3. CASE e.ev = "done"
  <2> DEFINE x == r.items[e.index]
  <2>1. x \in ShownItem /\ e.index \in DOMAIN r.items
    BY <1>0, <1>3, EventParts DEF Legal
  <2>3. [x EXCEPT !.closed = 1] \in ShownItem
    BY <2>1 DEF ShownItem
  <2>4. Shut(r.items, e.index) \in Seq(ShownItem)
    BY <1>0, <2>1, <2>3 DEF Shut
  <2>5. ReadOn(r, e) = [r EXCEPT !.items = Shut(r.items, e.index)]
    BY <1>3 DEF ReadOn
  <2> QED
    BY <2>4, <2>5 DEF Readers
<1>4. CASE e.ev = "created"
  <2>1. ReadOn(r, e) = [r EXCEPT !.started = TRUE]
    BY <1>4 DEF ReadOn
  <2> QED
    BY <2>1 DEF Readers
<1>5. CASE e.ev = "completed"
  <2>1. e.output \in Seq(ClosedItem)
    BY <1>5, EventParts
  <2>2. ReadOn(r, e) = [r EXCEPT !.ended = "completed", !.output = e.output]
    BY <1>5 DEF ReadOn
  <2> QED
    BY <2>1, <2>2 DEF Readers
<1>6. CASE e.ev = "failed"
  <2>2. ReadOn(r, e) = [r EXCEPT !.ended = "failed"]
    BY <1>6 DEF ReadOn
  <2> QED
    BY <2>2 DEF Readers
<1> QED
  BY <1>1, <1>2, <1>3, <1>4, <1>5, <1>6, EventParts DEF Kinds

(* The events lead the reader from one state to another: each fits when it *)
(* is read, and none comes after the one that ends the stream.             *)
Ends(e) == e.ev \in {"completed", "failed"}
Leads(R, from, events, to) ==
  /\ R \in [1..(Len(events) + 1) -> Readers]
  /\ R[1] = from /\ R[Len(events) + 1] = to
  /\ \A k \in 1..Len(events) :
       /\ Legal(R[k], events[k]) /\ R[k + 1] = ReadOn(R[k], events[k])
       /\ Ends(events[k]) => k = Len(events)
Led(from, events, to) == events \in Seq(Events) /\ \E R : Leads(R, from, events, to)

(* No events lead nowhere.                                                 *)
LEMMA LedNowhere ==
  ASSUME NEW r \in Readers PROVE Led(r, <<>>, r)
<1> DEFINE R == [i \in 1..1 |-> r]
<1>1. Leads(R, r, <<>>, r)
  BY DEF Leads
<1> QED
  BY <1>1 DEF Led

(* And nowhere else.                                                       *)
LEMMA LedEnd ==
  ASSUME NEW from, NEW to, Led(from, <<>>, to) PROVE from = to /\ to \in Readers
BY DEF Led, Leads

(* Led from a reader, by events, to a reader.                              *)
LEMMA LedTyped ==
  ASSUME NEW from, NEW to, NEW events, Led(from, events, to)
  PROVE  from \in Readers /\ to \in Readers /\ events \in Seq(Events)
<1>1. PICK R : Leads(R, from, events, to)
  BY DEF Led
<1>2. Len(events) \in Nat /\ events \in Seq(Events)
  BY DEF Led
<1>3. 1 \in 1..(Len(events) + 1) /\ Len(events) + 1 \in 1..(Len(events) + 1)
  BY <1>2
<1> QED
  BY <1>1, <1>2, <1>3 DEF Leads

(* An event that ends the stream says how.                                 *)
LEMMA EndedAfter ==
  ASSUME NEW r \in Readers, NEW e, Ends(e) PROVE ReadOn(r, e).ended = e.ev
<1>1. CASE e.ev = "completed"
  BY <1>1 DEF ReadOn, Readers
<1>2. CASE e.ev = "failed"
  BY <1>2 DEF ReadOn, Readers
<1> QED
  BY <1>1, <1>2 DEF Ends

(* One more event that fits leads one step on.                             *)
LEMMA LedOn ==
  ASSUME NEW from, NEW to, NEW events, Led(from, events, to), events = <<>> \/ to.ended = "-",
         NEW e \in Events, Legal(to, e)
  PROVE  Led(from, Append(events, e), ReadOn(to, e))
<1>1. PICK R : Leads(R, from, events, to)
  BY DEF Led
<1>2. Len(events) \in Nat /\ events \in Seq(Events) /\ to \in Readers
  BY LedTyped
<1> DEFINE n == Len(events)
           more == Append(events, e)
           S == [i \in 1..(n + 2) |-> IF i = n + 2 THEN ReadOn(to, e) ELSE R[i]]
<1>3. /\ more \in Seq(Events) /\ Len(more) = n + 1 /\ more[n + 1] = e
      /\ \A k \in 1..n : more[k] = events[k]
  BY <1>2
<1> HIDE DEF more
<1>4. S \in [1..(Len(more) + 1) -> Readers]
  <2>1. ReadOn(to, e) \in Readers
    BY <1>2, AfterTyped
  <2>2. \A i \in 1..(n + 2) : i # n + 2 => R[i] \in Readers
    BY <1>1, <1>2 DEF Leads
  <2> QED
    BY <1>2, <1>3, <2>1, <2>2
<1>5. S[1] = from /\ S[Len(more) + 1] = ReadOn(to, e) /\ S[n + 1] = to
  BY <1>1, <1>2, <1>3 DEF Leads
<1>6. ASSUME NEW k \in 1..Len(more)
      PROVE  /\ Legal(S[k], more[k]) /\ S[k + 1] = ReadOn(S[k], more[k])
             /\ Ends(more[k]) => k = Len(more)
  <2>1. CASE k = n + 1
    BY <1>2, <1>3, <1>5, <2>1
  <2>2. CASE k \in 1..n
    <3>1. S[k] = R[k] /\ S[k + 1] = R[k + 1] /\ more[k] = events[k]
      BY <1>2, <1>3, <2>2
    <3>2. Legal(R[k], events[k]) /\ R[k + 1] = ReadOn(R[k], events[k]) /\ R[k] \in Readers
      BY <1>1, <1>2, <2>2 DEF Leads
    <3>3. ~ Ends(events[k])
      <4>1. SUFFICES ASSUME Ends(events[k]) PROVE FALSE
        OBVIOUS
      <4>2. k = n
        BY <1>1, <2>2, <4>1 DEF Leads
      <4>3. R[n + 1] = to
        BY <1>1 DEF Leads
      <4>4. to.ended = events[k].ev /\ events # <<>>
        BY <1>2, <2>2, <3>2, <4>1, <4>2, <4>3, EndedAfter
      <4> QED
        BY <4>1, <4>4 DEF Ends
    <3> QED
      BY <3>1, <3>2, <3>3
  <2> QED
    BY <1>2, <1>3, <2>1, <2>2
<1> HIDE DEF S
<1>7. Leads(S, from, more, ReadOn(to, e))
  BY <1>4, <1>5, <1>6 DEF Leads
<1> QED
  BY <1>3, <1>7 DEF Led, more

(* The first event fits, and the rest leads on from where it leads.        *)
LEMMA LedRead ==
  ASSUME NEW from, NEW to, NEW events, Led(from, events, to), events # <<>>
  PROVE  /\ Head(events) \in Events /\ Tail(events) \in Seq(Events)
         /\ Legal(from, Head(events)) /\ Led(ReadOn(from, Head(events)), Tail(events), to)
         /\ Ends(Head(events)) => Tail(events) = <<>>
<1>1. PICK R : Leads(R, from, events, to)
  BY DEF Led
<1>2. Len(events) \in Nat /\ events \in Seq(Events) /\ Len(events) # 0
  BY DEF Led
<1> DEFINE n == Len(events)
           rest == Tail(events)
           S == [i \in 1..n |-> R[i + 1]]
<1>3. /\ rest \in Seq(Events) /\ Len(rest) = n - 1 /\ Head(events) = events[1] /\ events[1] \in Events
      /\ \A k \in 1..(n - 1) : rest[k] = events[k + 1]
  BY <1>2
<1> HIDE DEF rest
<1>4. Legal(from, events[1]) /\ R[2] = ReadOn(from, events[1]) /\ (Ends(events[1]) => n = 1)
  <2>1. 1 \in 1..n /\ 1 + 1 = 2
    BY <1>2
  <2>2. /\ Legal(R[1], events[1]) /\ R[1 + 1] = ReadOn(R[1], events[1])
        /\ Ends(events[1]) => 1 = n
    BY <1>1, <2>1 DEF Leads
  <2>3. R[1] = from
    BY <1>1 DEF Leads
  <2> QED
    BY <2>1, <2>2, <2>3
<1>5. S \in [1..(Len(rest) + 1) -> Readers] /\ S[1] = R[2] /\ S[Len(rest) + 1] = to
  BY <1>1, <1>2, <1>3 DEF Leads
<1>6. ASSUME NEW k \in 1..Len(rest)
      PROVE  /\ Legal(S[k], rest[k]) /\ S[k + 1] = ReadOn(S[k], rest[k])
             /\ Ends(rest[k]) => k = Len(rest)
  <2>1. k + 1 \in 1..n /\ S[k] = R[k + 1] /\ S[k + 1] = R[k + 1 + 1] /\ rest[k] = events[k + 1]
    BY <1>2, <1>3
  <2>2. /\ Legal(R[k + 1], events[k + 1]) /\ R[k + 1 + 1] = ReadOn(R[k + 1], events[k + 1])
        /\ Ends(events[k + 1]) => k + 1 = n
    BY <1>1, <2>1 DEF Leads
  <2> QED
    BY <1>2, <1>3, <2>1, <2>2
<1> HIDE DEF S
<1>7. Leads(S, ReadOn(from, events[1]), rest, to)
  BY <1>4, <1>5, <1>6 DEF Leads
<1>8. Ends(events[1]) => rest = <<>>
  BY <1>2, <1>3, <1>4
<1> QED
  BY <1>3, <1>4, <1>7, <1>8 DEF Led, rest

-----------------------------------------------------------------------------
(* The converter's state and its smallest steps.                           *)

(* The converter's types.                                                  *)
ItemFields == [added : BOOLEAN, done : BOOLEAN, index : Nat, id : Seq(Word), text : Text]
CallFields ==
  [added : BOOLEAN, done : BOOLEAN, index : Nat, id : Seq(Word), text : Text,
   call : Word, name : Word]
Converters ==
  [custom : BOOLEAN, started : BOOLEAN, completed : BOOLEAN, failed : BOOLEAN,
   next : Nat, message : ItemFields, reasoning : ItemFields,
   mode : {"Detecting", "Reasoning", "Text"}, buffer : Text,
   tools : [Calls -> CallFields], seen : SUBSET Calls, closed : Seq(ClosedItem),
   events : Seq(Events)]
TextKinds == {"message", "reasoning"}

SameStatus(s, t) ==
  t.custom = s.custom /\ t.started = s.started /\ t.completed = s.completed /\ t.failed = s.failed
SameThink(s, t) == t.mode = s.mode /\ t.buffer = s.buffer
SameCalls(s, t) == t.tools = s.tools /\ t.seen = s.seen

(* Emit adds its event and changes nothing else.                           *)
LEMMA EmitFacts ==
  ASSUME NEW s \in Converters, NEW e \in Events
  PROVE  /\ Emit(s, e) \in Converters
         /\ Emit(s, e).events = Append(s.events, e)
         /\ SameStatus(s, Emit(s, e)) /\ SameThink(s, Emit(s, e)) /\ SameCalls(s, Emit(s, e))
         /\ Emit(s, e).next = s.next /\ Emit(s, e).closed = s.closed
         /\ Emit(s, e).message = s.message /\ Emit(s, e).reasoning = s.reasoning
<1>1. Append(s.events, e) \in Seq(Events)
  BY DEF Converters
<1>2. Emit(s, e) = [s EXCEPT !.events = Append(s.events, e)]
  BY DEF Emit
<1> QED
  BY <1>1, <1>2 DEF Converters, SameStatus, SameThink, SameCalls

Other(kind) == IF kind = "message" THEN "reasoning" ELSE "message"

(* What opening an item of text changes.                                   *)
LEMMA OpenedFacts ==
  ASSUME NEW s \in Converters, NEW kind \in TextKinds, NEW id \in Seq(Word),
         NEW e, e = [ev |-> "added", index |-> s.next, kind |-> kind, id |-> id],
         NEW t, t = Opened(s, kind, id)
  PROVE  /\ e \in Events /\ t \in Converters
         /\ t.events = Append(s.events, e)
         /\ SameStatus(s, t) /\ SameThink(s, t) /\ SameCalls(s, t) /\ t.closed = s.closed
         /\ t.next = s.next + 1
         /\ t[kind] \in ItemFields /\ t[kind].added /\ ~ t[kind].done
         /\ t[kind].index = s.next /\ t[kind].id = id /\ t[kind].text = <<>>
         /\ t[Other(kind)] = s[Other(kind)]
<1> DEFINE item == [NoItem EXCEPT !.added = TRUE, !.index = s.next, !.id = id]
           n == s.next + 1
<1>1. e \in Events
  BY DEF Events, Converters, TextKinds, Promised!Kinds
<1>2. /\ item \in ItemFields /\ item.added /\ ~ item.done /\ item.index = s.next /\ item.id = id
      /\ item.text = <<>>
  <2>1. NoItem \in ItemFields /\ ~ NoItem.done /\ NoItem.text = <<>>
    BY DEF NoItem, ItemFields, Text
  <2>2. s.next \in Nat
    BY DEF Converters
  <2> QED
    BY <2>1, <2>2 DEF ItemFields
<1> HIDE DEF item
<1>3. AddedEvent(kind, item) = e
  BY <1>2 DEF AddedEvent
<1>4. t = Emit([s EXCEPT !.next = n, ![kind] = item], e)
  BY <1>3 DEF Opened, item
<1>5. n \in Nat
  BY DEF Converters
<1> HIDE DEF n
<1>6. CASE kind = "message"
  <2> DEFINE u == [s EXCEPT !.next = n, !.message = item]
  <2>1. u \in Converters
    BY <1>2, <1>5 DEF Converters
  <2>2. /\ u.events = s.events /\ SameStatus(s, u) /\ SameThink(s, u) /\ SameCalls(s, u)
        /\ u.closed = s.closed /\ u.next = n /\ u.message = item /\ u.reasoning = s.reasoning
    BY <1>2, <1>5 DEF Converters, SameStatus, SameThink, SameCalls
  <2>3. t = Emit(u, e)
    BY <1>4, <1>6
  <2> HIDE DEF u
  <2>4. /\ t \in Converters /\ t.events = Append(u.events, e)
        /\ SameStatus(u, t) /\ SameThink(u, t) /\ SameCalls(u, t)
        /\ t.next = u.next /\ t.closed = u.closed /\ t.message = u.message /\ t.reasoning = u.reasoning
    BY <1>1, <2>1, <2>3, EmitFacts
  <2> QED
    BY <1>1, <1>2, <1>6, <2>2, <2>4 DEF n, SameStatus, SameThink, SameCalls, Other
<1>7. CASE kind = "reasoning"
  <2> DEFINE u == [s EXCEPT !.next = n, !.reasoning = item]
  <2>1. u \in Converters
    BY <1>2, <1>5 DEF Converters
  <2>2. /\ u.events = s.events /\ SameStatus(s, u) /\ SameThink(s, u) /\ SameCalls(s, u)
        /\ u.closed = s.closed /\ u.next = n /\ u.message = s.message /\ u.reasoning = item
    BY <1>2, <1>5 DEF Converters, SameStatus, SameThink, SameCalls
  <2>3. t = Emit(u, e)
    BY <1>4, <1>7
  <2> HIDE DEF u
  <2>4. /\ t \in Converters /\ t.events = Append(u.events, e)
        /\ SameStatus(u, t) /\ SameThink(u, t) /\ SameCalls(u, t)
        /\ t.next = u.next /\ t.closed = u.closed /\ t.message = u.message /\ t.reasoning = u.reasoning
    BY <1>1, <2>1, <2>3, EmitFacts
  <2> QED
    BY <1>1, <1>2, <1>7, <2>2, <2>4 DEF n, SameStatus, SameThink, SameCalls, Other
<1> QED
  BY <1>6, <1>7 DEF TextKinds

-----------------------------------------------------------------------------
(* What the converter knows of what Codex has read.                        *)

Joined(a, b) == a \o b
SameEnd(r, q) == q.started = r.started /\ q.ended = r.ended /\ q.output = r.output

(* A new item comes after the others, empty and open.                      *)
LEMMA ReaderAdded ==
  ASSUME NEW r \in Readers, NEW e \in Events, e.ev = "added", NEW q, q = ReadOn(r, e)
  PROVE  /\ SameEnd(r, q) /\ Len(q.items) = Len(r.items) + 1
         /\ DOMAIN q.items = 1..(Len(r.items) + 1) /\ DOMAIN r.items = 1..Len(r.items)
         /\ Len(r.items) \in Nat
         /\ \A i \in DOMAIN r.items : q.items[i] = r.items[i]
         /\ LET x == q.items[Len(r.items) + 1]
            IN  x.kind = e.kind /\ x.id = e.id /\ x.text = <<>> /\ x.closed = 0
<1> DEFINE new == [kind |-> e.kind, id |-> e.id, text |-> <<>>, closed |-> 0]
<1>1. new \in ShownItem
  BY EventParts DEF ShownItem, Text
<1>2. new.kind = e.kind /\ new.id = e.id /\ new.text = <<>> /\ new.closed = 0
  OBVIOUS
<1>3. q = [r EXCEPT !.items = Append(r.items, new)]
  BY DEF ReadOn
<1> HIDE DEF new
<1>4. SameEnd(r, q) /\ q.items = Append(r.items, new) /\ r.items \in Seq(ShownItem)
  BY <1>3 DEF Readers, SameEnd
<1> QED
  BY <1>1, <1>2, <1>4

(* A delta extends the text of its item and no other.                      *)
LEMMA ReaderGrown ==
  ASSUME NEW r \in Readers, NEW e \in Events, e.ev = "delta", Legal(r, e), NEW q, q = ReadOn(r, e)
  PROVE  /\ SameEnd(r, q) /\ Len(q.items) = Len(r.items) /\ DOMAIN q.items = DOMAIN r.items
         /\ \A i \in DOMAIN r.items : i # e.index => q.items[i] = r.items[i]
         /\ e.index \in DOMAIN r.items
         /\ LET x == r.items[e.index]
                y == q.items[e.index]
            IN  y.kind = x.kind /\ y.id = x.id /\ y.closed = x.closed /\ y.text = Joined(x.text, e.text)
<1>1. q = [r EXCEPT !.items = Extended(r.items, e.index, e.text)] /\ e.index \in DOMAIN r.items
  BY DEF ReadOn, Legal
<1>2. SameEnd(r, q) /\ q.items = Extended(r.items, e.index, e.text) /\ r.items \in Seq(ShownItem)
  BY <1>1 DEF Readers, SameEnd
<1>3. r.items[e.index] \in ShownItem
  BY <1>1, <1>2
<1>4. q.items[e.index] = [r.items[e.index] EXCEPT !.text = r.items[e.index].text \o e.text]
  BY <1>1, <1>2 DEF Extended
<1>5. DOMAIN q.items = DOMAIN r.items /\ \A i \in DOMAIN r.items : i # e.index => q.items[i] = r.items[i]
  BY <1>1, <1>2 DEF Extended
<1>6. Len(q.items) = Len(r.items)
  <2>1. q.items \in Seq(ShownItem)
    BY AfterTyped DEF Readers
  <2> QED
    BY <1>2, <1>5, <2>1
<1> QED
  BY <1>1, <1>2, <1>3, <1>4, <1>5, <1>6 DEF ShownItem, Joined

(* A done event closes its item and no other.                              *)
LEMMA ReaderShut ==
  ASSUME NEW r \in Readers, NEW e \in Events, e.ev = "done", Legal(r, e), NEW q, q = ReadOn(r, e)
  PROVE  /\ SameEnd(r, q) /\ Len(q.items) = Len(r.items) /\ DOMAIN q.items = DOMAIN r.items
         /\ \A i \in DOMAIN r.items : i # e.index => q.items[i] = r.items[i]
         /\ e.index \in DOMAIN r.items
         /\ LET x == r.items[e.index]
                y == q.items[e.index]
            IN  y.kind = x.kind /\ y.id = x.id /\ y.closed = 1 /\ y.text = x.text
<1>1. q = [r EXCEPT !.items = Shut(r.items, e.index)] /\ e.index \in DOMAIN r.items
  BY DEF ReadOn, Legal
<1>2. SameEnd(r, q) /\ q.items = Shut(r.items, e.index) /\ r.items \in Seq(ShownItem)
  BY <1>1 DEF Readers, SameEnd
<1>3. r.items[e.index] \in ShownItem
  BY <1>1, <1>2
<1>4. q.items[e.index] = [r.items[e.index] EXCEPT !.closed = 1]
  BY <1>1, <1>2 DEF Shut
<1>5. DOMAIN q.items = DOMAIN r.items /\ \A i \in DOMAIN r.items : i # e.index => q.items[i] = r.items[i]
  BY <1>1, <1>2 DEF Shut
<1>6. Len(q.items) = Len(r.items)
  <2>1. q.items \in Seq(ShownItem)
    BY AfterTyped DEF Readers
  <2> QED
    BY <1>2, <1>5, <2>1
<1> QED
  BY <1>1, <1>2, <1>3, <1>4, <1>5, <1>6 DEF ShownItem

(* One item of Codex's has grown, or is closed.                            *)
Grown(r, q, j, text) ==
  /\ SameEnd(r, q) /\ Len(q.items) = Len(r.items) /\ DOMAIN q.items = DOMAIN r.items
  /\ \A i \in DOMAIN r.items : i # j => q.items[i] = r.items[i]
  /\ q.items[j].kind = r.items[j].kind /\ q.items[j].id = r.items[j].id
  /\ q.items[j].closed = r.items[j].closed /\ q.items[j].text = Joined(r.items[j].text, text)
ShutAt(r, q, j) ==
  /\ SameEnd(r, q) /\ Len(q.items) = Len(r.items) /\ DOMAIN q.items = DOMAIN r.items
  /\ \A i \in DOMAIN r.items : i # j => q.items[i] = r.items[i]
  /\ q.items[j].kind = r.items[j].kind /\ q.items[j].id = r.items[j].id
  /\ q.items[j].closed = 1 /\ q.items[j].text = r.items[j].text

(* A delta, as a relation of the readers, ...                              *)
LEMMA GrownAt ==
  ASSUME NEW r \in Readers, NEW e \in Events, e.ev = "delta", Legal(r, e)
  PROVE  Grown(r, ReadOn(r, e), e.index, e.text)
BY ReaderGrown DEF Grown

(* ... and a done event.                                                   *)
LEMMA ShutAfter ==
  ASSUME NEW r \in Readers, NEW e \in Events, e.ev = "done", Legal(r, e)
  PROVE  ShutAt(r, ReadOn(r, e), e.index)
BY ReaderShut DEF ShutAt

-----------------------------------------------------------------------------
(* The converter knows what Codex will have read: every item, by whom it   *)
(* was opened, its text and whether it is closed.  The calls in "late"     *)
(* have arguments whose delta is still to be emitted.                      *)
Shown(x, kind, item) ==
  x.kind = kind /\ x.id = item.id /\ x.closed = IF item.done THEN 1 ELSE 0

TextPart(item, r, kind) ==
  IF item.added
  THEN /\ item.index \in DOMAIN r.items /\ Shown(r.items[item.index], kind, item)
       /\ r.items[item.index].text = item.text
  ELSE ~ item.done

CallText(s, call, x) ==
  IF IsCustom(s, call.name) /\ ~ call.done THEN x.text = <<>>
  ELSE x.text = call.text \/ (call.done /\ x.text = <<>> /\ call.name = "unknown_tool")

CallPart(s, r, c, late) ==
  LET call == s.tools[c]
  IN  IF call.added
      THEN /\ c \in s.seen /\ call.index \in DOMAIN r.items
           /\ Shown(r.items[call.index], CallKind(s, call), call)
           /\ call.id = ItemId(s, call) /\ call.name # ""
           /\ c \notin late => /\ s.custom /\ ~ call.done => call.name # "unknown_tool"
                             /\ CallText(s, call, r.items[call.index])
      ELSE ~ call.done /\ call.name = ""

Distinct(s) ==
  \A c, d \in Calls :
    s.tools[c].added /\ s.tools[d].added /\ s.tools[c].index = s.tools[d].index => c = d

Owner(s, i) ==
  \/ s.message.added /\ s.message.index = i
  \/ s.reasoning.added /\ s.reasoning.index = i
  \/ \E c \in Calls : s.tools[c].added /\ s.tools[c].index = i
Owned(s, r) == \A i \in DOMAIN r.items : Owner(s, i)

ClosedText(s, x, i, text) ==
  CASE x.kind = "reasoning" -> IsPrefix(text, x.text)
    [] x.kind = "function_call" ->
         text = x.text \/ (x.text = <<>> /\ \E c \in Calls : /\ s.tools[c].added /\ s.tools[c].index = i
                                                           /\ s.tools[c].name = "unknown_tool")
    [] OTHER -> text = x.text
ClosedPart(s, r) ==
  /\ \A k \in DOMAIN s.closed :
       LET i == s.closed[k].index
       IN  i \in DOMAIN r.items /\ r.items[i].closed = 1 /\ ClosedText(s, r.items[i], i, s.closed[k].text)
  /\ \A k, l \in DOMAIN s.closed : s.closed[k].index = s.closed[l].index => k = l
  /\ \A i \in DOMAIN r.items : r.items[i].closed = 1 => \E k \in DOMAIN s.closed : s.closed[k].index = i

Status(s, r) ==
  /\ r.started = s.started /\ s.next = Len(r.items) + 1
  /\ r.ended = IF s.failed THEN "failed" ELSE IF s.completed THEN "completed" ELSE "-"
  /\ s.failed => s.completed

Agrees(s, r, late) ==
  /\ Status(s, r)
  /\ TextPart(s.message, r, "message") /\ TextPart(s.reasoning, r, "reasoning")
  /\ \A c \in Calls : CallPart(s, r, c, late)
  /\ Distinct(s) /\ Owned(s, r) /\ ClosedPart(s, r)

(* A text is a prefix of itself, ...                                       *)
LEMMA PrefixOfSelf ==
  ASSUME NEW a \in Text PROVE IsPrefix(a, a)
BY DEF IsPrefix, Text

(* ... and what is a prefix stays one when the text grows.                 *)
LEMMA PrefixGrown ==
  ASSUME NEW a \in Text, NEW b \in Text, NEW c \in Text, IsPrefix(a, b) PROVE IsPrefix(a, b \o c)
<1>1. Len(a) \in Nat /\ Len(b) \in Nat /\ Len(a) <= Len(b) /\ b \o c \in Text
  BY DEF IsPrefix, Text
<1>2. Len(b \o c) = Len(b) + Len(c) /\ Len(c) \in Nat
  BY DEF Text
<1>3. \A i \in 1..Len(a) : b[i] = (b \o c)[i]
  BY <1>1 DEF Text
<1>4. SubSeq(b, 1, Len(a)) = SubSeq(b \o c, 1, Len(a))
  BY <1>1, <1>2, <1>3 DEF Text
<1> QED
  BY <1>1, <1>2, <1>4 DEF IsPrefix

(* A part whose item Codex sees as before is still right.                  *)
SameItem(item, r, q) ==
  item.added /\ item.index \in DOMAIN r.items =>
     item.index \in DOMAIN q.items /\ q.items[item.index] = r.items[item.index]

(* A part whose item Codex sees as before is still right: for a text, ...  *)
LEMMA TextKept ==
  ASSUME NEW item, NEW r, NEW q, NEW kind, TextPart(item, r, kind), SameItem(item, r, q)
  PROVE  TextPart(item, q, kind)
BY DEF TextPart, SameItem

(* ... and for a call.                                                     *)
LEMMA CallKept ==
  ASSUME NEW s, NEW t, NEW r, NEW q, NEW c, NEW late, CallPart(s, r, c, late),
         t.tools[c] = s.tools[c], t.custom = s.custom, c \in s.seen => c \in t.seen,
         SameItem(s.tools[c], r, q)
  PROVE  CallPart(t, q, c, late)
BY DEF CallPart, SameItem, CallText, IsCustom, CallKind, ItemId, Shown

(* The closed texts are still right when the texts, the calls and what     *)
(* Codex sees are as before.                                               *)
LEMMA ClosedSame ==
  ASSUME NEW s, NEW t, NEW r, NEW q, ClosedPart(s, r),
         t.closed = s.closed, t.tools = s.tools, q.items = r.items
  PROVE  ClosedPart(t, q)
<1>1. ASSUME NEW x, NEW i, NEW text, ClosedText(s, x, i, text) PROVE ClosedText(t, x, i, text)
  BY <1>1 DEF ClosedText
<1>2. ASSUME NEW k \in DOMAIN t.closed
      PROVE  LET i == t.closed[k].index
             IN  /\ i \in DOMAIN q.items /\ q.items[i].closed = 1
                 /\ ClosedText(t, q.items[i], i, t.closed[k].text)
  BY <1>1, <1>2 DEF ClosedPart
<1>3. \A k, l \in DOMAIN t.closed : t.closed[k].index = t.closed[l].index => k = l
  BY DEF ClosedPart
<1>4. \A i \in DOMAIN q.items : q.items[i].closed = 1 => \E k \in DOMAIN t.closed : t.closed[k].index = i
  BY DEF ClosedPart
<1> QED
  BY <1>2, <1>3, <1>4 DEF ClosedPart

(* Nothing but the thinking mode, the text collected for it and the events *)
(* differ.                                                                 *)
SameBody(s, t) ==
  /\ SameStatus(s, t) /\ SameCalls(s, t) /\ t.next = s.next /\ t.closed = s.closed
  /\ t.message = s.message /\ t.reasoning = s.reasoning

(* Mode, buffer and events say nothing of what Codex has read.             *)
LEMMA AgreesKept ==
  ASSUME NEW s, NEW t, NEW r, NEW late, Agrees(s, r, late), SameBody(s, t)
  PROVE  Agrees(t, r, late)
<1>1. Status(t, r)
  BY DEF Agrees, Status, SameBody, SameStatus
<1>2. \A c \in Calls : CallPart(t, r, c, late)
  BY CallKept DEF Agrees, SameBody, SameStatus, SameCalls, SameItem
<1>3. Distinct(t) /\ Owned(t, r)
  BY DEF Agrees, SameBody, SameCalls, Distinct, Owned, Owner
<1>4. ClosedPart(t, r)
  BY ClosedSame DEF Agrees, SameBody, SameCalls
<1> QED
  BY <1>1, <1>2, <1>3, <1>4 DEF Agrees, SameBody

(* What a part says of its item.                                           *)
LEMMA TextShown ==
  ASSUME NEW r, NEW item, NEW kind, TextPart(item, r, kind), item.added
  PROVE  /\ item.index \in DOMAIN r.items
         /\ LET x == r.items[item.index]
            IN  /\ x.kind = kind /\ x.id = item.id /\ x.text = item.text
                /\ x.closed = IF item.done THEN 1 ELSE 0
BY DEF TextPart, Shown

(* ... and that of a call.                                                 *)
LEMMA CallShown ==
  ASSUME NEW s, NEW r, NEW c, NEW late, CallPart(s, r, c, late), s.tools[c].added
  PROVE  LET call == s.tools[c]
             x == r.items[call.index]
         IN  /\ call.index \in DOMAIN r.items /\ c \in s.seen
             /\ x.kind = CallKind(s, call) /\ x.kind \in {"custom_tool_call", "function_call"}
             /\ x.id = call.id /\ call.id = ItemId(s, call)
             /\ x.closed = IF call.done THEN 1 ELSE 0
BY DEF CallPart, Shown, CallKind

(* What the converter knows of the whole stream.                           *)
LEMMA AgreesParts ==
  ASSUME NEW s \in Converters, NEW r \in Readers, NEW late, Agrees(s, r, late)
  PROVE  /\ r.started = s.started /\ s.next = Len(r.items) + 1
         /\ r.items \in Seq(ShownItem) /\ Len(r.items) \in Nat /\ DOMAIN r.items = 1..Len(r.items)
         /\ s.started /\ ~ s.completed => Alive(r)
BY DEF Agrees, Status, Readers, Alive

(* Opening an item of text.                                                *)
LEMMA OpenedAgrees ==
  ASSUME NEW s \in Converters, NEW r \in Readers, NEW late, Agrees(s, r, late),
         s.started, ~ s.completed, NEW kind \in TextKinds, ~ s[kind].added, NEW id \in Seq(Word),
         NEW e, e = [ev |-> "added", index |-> s.next, kind |-> kind, id |-> id],
         NEW t, t = Opened(s, kind, id)
  PROVE  e \in Events /\ Legal(r, e) /\ Agrees(t, ReadOn(r, e), late)
<1> DEFINE q == ReadOn(r, e)
           n == Len(r.items)
<1>1. /\ e \in Events /\ t \in Converters
      /\ SameStatus(s, t) /\ SameCalls(s, t) /\ t.closed = s.closed /\ t.next = s.next + 1
      /\ t[kind].added /\ ~ t[kind].done
      /\ t[kind].index = s.next /\ t[kind].id = id /\ t[kind].text = <<>>
      /\ t[Other(kind)] = s[Other(kind)]
  BY OpenedFacts
<1>2. r.started = s.started /\ s.next = n + 1 /\ n \in Nat /\ DOMAIN r.items = 1..n /\ Alive(r)
  BY AgreesParts
<1>3. Legal(r, e)
  BY <1>2 DEF Legal
<1>4. /\ SameEnd(r, q) /\ Len(q.items) = n + 1 /\ DOMAIN q.items = 1..(n + 1)
      /\ \A i \in 1..n : q.items[i] = r.items[i]
      /\ LET x == q.items[n + 1]
         IN  x.kind = kind /\ x.id = id /\ x.text = <<>> /\ x.closed = 0
  BY <1>1, <1>2, ReaderAdded
<1> HIDE DEF q, n
<1>5. Status(t, q)
  BY <1>1, <1>2, <1>4 DEF Agrees, Status, SameStatus, SameEnd
<1>6. \A item : SameItem(item, r, q)
  BY <1>2, <1>4 DEF SameItem
<1>7. TextPart(t[kind], q, kind)
  BY <1>1, <1>2, <1>4 DEF TextPart, Shown
<1>8. TextPart(t[Other(kind)], q, Other(kind))
  BY <1>1, <1>6, TextKept DEF Agrees, TextKinds, Other
<1>9. ASSUME NEW c \in Calls PROVE CallPart(t, q, c, late)
  BY <1>1, <1>6, CallKept DEF Agrees, SameStatus, SameCalls
<1>10. Distinct(t)
  BY <1>1 DEF Agrees, Distinct, SameCalls
<1>11. Owned(t, q)
  <2>1. ASSUME NEW i \in 1..n PROVE Owner(t, i)
    <3>1. Owner(s, i)
      BY <1>2 DEF Agrees, Owned
    <3>2. t.tools = s.tools
      BY <1>1 DEF SameCalls
    <3>3. CASE kind = "message"
      BY <1>1, <3>1, <3>2, <3>3 DEF Owner, Other
    <3>4. CASE kind = "reasoning"
      BY <1>1, <3>1, <3>2, <3>4 DEF Owner, Other
    <3> QED
      BY <3>3, <3>4 DEF TextKinds
  <2>2. Owner(t, n + 1)
    BY <1>1, <1>2 DEF Owner, TextKinds
  <2> QED
    BY <1>2, <1>4, <2>1, <2>2 DEF Owned
<1>12. ClosedPart(t, q)
  <2>1. ClosedPart(s, r) /\ t.closed = s.closed /\ t.tools = s.tools
    BY <1>1 DEF Agrees, SameCalls
  <2>2. ASSUME NEW k \in DOMAIN t.closed
        PROVE  LET i == t.closed[k].index
               IN  i \in DOMAIN q.items /\ q.items[i].closed = 1
                     /\ ClosedText(t, q.items[i], i, t.closed[k].text)
    <3> DEFINE i == s.closed[k].index
    <3>1. /\ k \in DOMAIN s.closed /\ i \in 1..n /\ r.items[i].closed = 1
          /\ ClosedText(s, r.items[i], i, s.closed[k].text)
      BY <1>2, <2>1 DEF ClosedPart
    <3>2. i \in DOMAIN q.items /\ q.items[i] = r.items[i]
      BY <1>2, <1>4, <3>1
    <3>3. ClosedText(t, q.items[i], i, s.closed[k].text)
      BY <2>1, <3>1, <3>2 DEF ClosedText
    <3> QED
      BY <2>1, <3>1, <3>2, <3>3
  <2>3. \A i \in DOMAIN q.items : q.items[i].closed = 1 => \E k \in DOMAIN t.closed : t.closed[k].index = i
    <3> TAKE i \in DOMAIN q.items
    <3>1. CASE i = n + 1
      BY <1>4, <3>1
    <3>2. CASE i \in 1..n
      BY <1>2, <1>4, <2>1, <3>2 DEF ClosedPart
    <3> QED
      BY <1>2, <1>4, <3>1, <3>2
  <2>4. \A k, l \in DOMAIN t.closed : t.closed[k].index = t.closed[l].index => k = l
    BY <2>1 DEF ClosedPart
  <2> QED
    BY <2>2, <2>3, <2>4 DEF ClosedPart
<1>13. TextPart(t.message, q, "message") /\ TextPart(t.reasoning, q, "reasoning")
  BY <1>7, <1>8 DEF TextKinds, Other
<1> QED
  BY <1>1, <1>3, <1>5, <1>9, <1>10, <1>11, <1>12, <1>13 DEF Agrees, q

-----------------------------------------------------------------------------
(* The operations on texts.                                                *)

(* Another item, another text closed, another event, and nothing else.     *)
Put(s, kind, item, closed, e) == Emit([s EXCEPT ![kind] = item, !.closed = closed], e)

(* Put changes what it names.                                              *)
LEMMA PutFacts ==
  ASSUME NEW s \in Converters, NEW kind \in TextKinds, NEW item \in ItemFields,
         NEW closed \in Seq(ClosedItem), NEW e \in Events,
         NEW t, t = Put(s, kind, item, closed, e)
  PROVE  /\ t \in Converters /\ t.events = Append(s.events, e)
         /\ SameStatus(s, t) /\ SameThink(s, t) /\ SameCalls(s, t)
         /\ t.next = s.next /\ t.closed = closed
         /\ t[kind] = item /\ t[Other(kind)] = s[Other(kind)]
<1>0. e \in Events
  OBVIOUS
<1>1. CASE kind = "message"
  <2> DEFINE u == [s EXCEPT !.message = item, !.closed = closed]
  <2>1. u \in Converters
    BY DEF Converters
  <2>2. /\ u.events = s.events /\ SameStatus(s, u) /\ SameThink(s, u) /\ SameCalls(s, u)
        /\ u.closed = closed /\ u.next = s.next /\ u.message = item /\ u.reasoning = s.reasoning
    BY DEF Converters, SameStatus, SameThink, SameCalls
  <2>3. t = Emit(u, e)
    BY <1>1 DEF Put
  <2> HIDE DEF u
  <2>4. /\ t \in Converters /\ t.events = Append(u.events, e)
        /\ SameStatus(u, t) /\ SameThink(u, t) /\ SameCalls(u, t)
        /\ t.next = u.next /\ t.closed = u.closed /\ t.message = u.message /\ t.reasoning = u.reasoning
    BY <1>0, <2>1, <2>3, EmitFacts
  <2> QED
    BY <1>1, <2>2, <2>4 DEF SameStatus, SameThink, SameCalls, Other
<1>2. CASE kind = "reasoning"
  <2> DEFINE u == [s EXCEPT !.reasoning = item, !.closed = closed]
  <2>1. u \in Converters
    BY DEF Converters
  <2>2. /\ u.events = s.events /\ SameStatus(s, u) /\ SameThink(s, u) /\ SameCalls(s, u)
        /\ u.closed = closed /\ u.next = s.next /\ u.reasoning = item /\ u.message = s.message
    BY DEF Converters, SameStatus, SameThink, SameCalls
  <2>3. t = Emit(u, e)
    BY <1>2 DEF Put
  <2> HIDE DEF u
  <2>4. /\ t \in Converters /\ t.events = Append(u.events, e)
        /\ SameStatus(u, t) /\ SameThink(u, t) /\ SameCalls(u, t)
        /\ t.next = u.next /\ t.closed = u.closed /\ t.message = u.message /\ t.reasoning = u.reasoning
    BY <1>0, <2>1, <2>3, EmitFacts
  <2> QED
    BY <1>2, <2>2, <2>4 DEF SameStatus, SameThink, SameCalls, Other
<1> QED
  BY <1>1, <1>2 DEF TextKinds

(* Types of what the converter keeps of a text.                            *)
LEMMA ItemTyped ==
  ASSUME NEW s \in Converters, NEW kind \in TextKinds
  PROVE  s[kind] \in ItemFields /\ s.closed \in Seq(ClosedItem)
BY DEF Converters, TextKinds

Extend(s, kind, text) == Emit([s EXCEPT ![kind].text = @ \o text], DeltaEvent(s[kind], text))

(* What a delta of a text changes.                                         *)
LEMMA ExtendedFacts ==
  ASSUME NEW s \in Converters, NEW kind \in TextKinds, NEW text \in Text,
         NEW e, e = DeltaEvent(s[kind], text),
         NEW t, t = Extend(s, kind, text)
  PROVE  /\ e \in Events /\ e.ev = "delta" /\ e.index = s[kind].index /\ e.text = text
         /\ t \in Converters /\ t.events = Append(s.events, e)
         /\ SameStatus(s, t) /\ SameThink(s, t) /\ SameCalls(s, t)
         /\ t.next = s.next /\ t.closed = s.closed
         /\ (t[kind].added <=> s[kind].added) /\ (t[kind].done <=> s[kind].done)
         /\ t[kind].index = s[kind].index /\ t[kind].id = s[kind].id
         /\ t[kind].text = Joined(s[kind].text, text)
         /\ t[Other(kind)] = s[Other(kind)]
<1> DEFINE more == s[kind].text \o text
           item == [s[kind] EXCEPT !.text = more]
<1>1. s[kind] \in ItemFields /\ s.closed \in Seq(ClosedItem)
  BY ItemTyped
<1>2. more \in Text
  BY <1>1 DEF ItemFields, Text
<1> HIDE DEF more
<1>3. /\ item \in ItemFields /\ item.added = s[kind].added /\ item.done = s[kind].done
      /\ item.index = s[kind].index /\ item.id = s[kind].id /\ item.text = more
  BY <1>1, <1>2 DEF ItemFields
<1>4. e \in Events /\ e.ev = "delta" /\ e.index = s[kind].index /\ e.text = text
  BY <1>1 DEF Events, DeltaEvent, ItemFields
<1>5. [s EXCEPT ![kind].text = @ \o text] = [s EXCEPT ![kind] = item, !.closed = s.closed]
  <2>1. [s EXCEPT ![kind].text = @ \o text] = [s EXCEPT ![kind] = item]
    BY DEF more
  <2>2. CASE kind = "message"
    BY <2>1, <2>2 DEF Converters
  <2>3. CASE kind = "reasoning"
    BY <2>1, <2>3 DEF Converters
  <2> QED
    BY <2>2, <2>3 DEF TextKinds
<1> HIDE DEF item
<1>6. t = Put(s, kind, item, s.closed, e)
  <2>1. t = Emit([s EXCEPT ![kind].text = @ \o text], DeltaEvent(s[kind], text))
    BY DEF Extend
  <2> QED
    BY <1>4, <1>5, <2>1 DEF Put
<1>7. /\ t \in Converters /\ t.events = Append(s.events, e)
      /\ SameStatus(s, t) /\ SameThink(s, t) /\ SameCalls(s, t)
      /\ t.next = s.next /\ t.closed = s.closed
      /\ t[kind] = item /\ t[Other(kind)] = s[Other(kind)]
  BY <1>1, <1>3, <1>4, <1>6, PutFacts
<1> QED
  BY <1>3, <1>4, <1>7 DEF more, Joined

(* What closing a text changes.                                            *)
LEMMA ClosedFacts ==
  ASSUME NEW s \in Converters, NEW kind \in TextKinds, s[kind].added, ~ s[kind].done,
         NEW e, e = [ev |-> "done", index |-> s[kind].index, id |-> s[kind].id],
         NEW x, x = [index |-> s[kind].index, text |-> s[kind].text],
         NEW t, t = Finalize(s, kind)
  PROVE  /\ e \in Events /\ x \in ClosedItem /\ t \in Converters /\ t.events = Append(s.events, e)
         /\ SameStatus(s, t) /\ SameThink(s, t) /\ SameCalls(s, t)
         /\ t.next = s.next /\ t.closed = Append(s.closed, x)
         /\ t[kind].added /\ t[kind].done
         /\ t[kind].index = s[kind].index /\ t[kind].id = s[kind].id
         /\ t[kind].text = s[kind].text
         /\ t[Other(kind)] = s[Other(kind)]
<1> DEFINE item == [s[kind] EXCEPT !.done = TRUE]
           closed == Append(s.closed, x)
<1>1. s[kind] \in ItemFields /\ s.closed \in Seq(ClosedItem)
  BY ItemTyped
<1>2. x \in ClosedItem /\ closed \in Seq(ClosedItem)
  <2>1. s[kind].index \in Nat /\ s[kind].text \in Text
    BY <1>1 DEF ItemFields
  <2>2. x \in ClosedItem
    BY <2>1 DEF ClosedItem
  <2> QED
    BY <1>1, <2>2
<1>3. /\ item \in ItemFields /\ item.added /\ item.done
      /\ item.index = s[kind].index /\ item.id = s[kind].id /\ item.text = s[kind].text
  BY <1>1 DEF ItemFields
<1>4. e \in Events /\ DoneEvent(s[kind]) = e
  BY <1>1 DEF Events, DoneEvent, ItemFields
<1>5. t = Put(s, kind, item, closed, e)
  <2>1. t = Emit([s EXCEPT ![kind].done = TRUE,
                           !.closed = Append(@, [index |-> s[kind].index, text |-> s[kind].text])],
                 DoneEvent(s[kind]))
    BY DEF Finalize
  <2>2. [s EXCEPT ![kind].done = TRUE, !.closed = Append(@, x)]
          = [s EXCEPT ![kind] = item, !.closed = closed]
    <3>1. CASE kind = "message"
      BY <3>1 DEF Converters
    <3>2. CASE kind = "reasoning"
      BY <3>2 DEF Converters
    <3> QED
      BY <3>1, <3>2 DEF TextKinds
  <2> QED
    BY <1>4, <2>1, <2>2 DEF Put
<1> HIDE DEF item, closed
<1>7. /\ t \in Converters /\ t.events = Append(s.events, e)
      /\ SameStatus(s, t) /\ SameThink(s, t) /\ SameCalls(s, t)
      /\ t.next = s.next /\ t.closed = closed
      /\ t[kind] = item /\ t[Other(kind)] = s[Other(kind)]
  BY <1>1, <1>2, <1>3, <1>4, <1>5, PutFacts
<1> QED
  BY <1>2, <1>3, <1>4, <1>7 DEF closed

(* The parts of both texts, by kind.                                       *)
LEMMA PartOf ==
  ASSUME NEW s, NEW r, NEW late, Agrees(s, r, late), NEW kind \in TextKinds
  PROVE  TextPart(s[kind], r, kind) /\ TextPart(s[Other(kind)], r, Other(kind))
BY DEF Agrees, TextKinds, Other

(* Two owners never have the same item: the kinds of their items differ.   *)
LEMMA TextApart ==
  ASSUME NEW s, NEW r, NEW late, Agrees(s, r, late), NEW kind \in TextKinds, s[kind].added
  PROVE  /\ s[Other(kind)].added => s[Other(kind)].index # s[kind].index
         /\ \A c \in Calls : s.tools[c].added => s.tools[c].index # s[kind].index
<1>1. LET i == s[kind].index IN r.items[i].kind = kind
  BY PartOf, TextShown
<1>2. s[Other(kind)].added => r.items[s[Other(kind)].index].kind = Other(kind)
  BY PartOf, TextShown
<1>3. ASSUME NEW c \in Calls, s.tools[c].added
      PROVE  r.items[s.tools[c].index].kind \in {"custom_tool_call", "function_call"}
  BY <1>3, CallShown DEF Agrees
<1> QED
  BY <1>1, <1>2, <1>3 DEF TextKinds, Other

(* A delta of an open text, or of reasoning at any time, fits.             *)
LEMMA ExtendedAgrees ==
  ASSUME NEW s \in Converters, NEW r \in Readers, NEW late, Agrees(s, r, late),
         s.started, ~ s.completed, NEW kind \in TextKinds, s[kind].added,
         ~ s[kind].done \/ kind = "reasoning", NEW text \in Text,
         NEW e, e = DeltaEvent(s[kind], text), NEW t, t = Extend(s, kind, text)
  PROVE  e \in Events /\ Legal(r, e) /\ Agrees(t, ReadOn(r, e), late)
<1> DEFINE q == ReadOn(r, e)
           j == s[kind].index
<1>1. /\ e \in Events /\ e.ev = "delta" /\ e.index = j /\ e.text = text
      /\ t \in Converters /\ t.events = Append(s.events, e)
      /\ SameStatus(s, t) /\ SameThink(s, t) /\ SameCalls(s, t)
      /\ t.next = s.next /\ t.closed = s.closed
      /\ t[kind].added /\ (t[kind].done <=> s[kind].done)
      /\ t[kind].index = s[kind].index /\ t[kind].id = s[kind].id
      /\ t[kind].text = Joined(s[kind].text, text)
      /\ t[Other(kind)] = s[Other(kind)]
  BY ExtendedFacts
<1>2. r.items \in Seq(ShownItem) /\ Alive(r)
  BY AgreesParts
<1>3. /\ j \in DOMAIN r.items
      /\ LET x == r.items[j]
         IN  /\ x.kind = kind /\ x.id = s[kind].id /\ x.text = s[kind].text
             /\ x.closed = IF s[kind].done THEN 1 ELSE 0
  BY PartOf, TextShown
<1>5. Legal(r, e)
  BY <1>2, <1>3, <1>1 DEF Legal
<1>6. /\ SameEnd(r, q) /\ Len(q.items) = Len(r.items) /\ DOMAIN q.items = DOMAIN r.items
      /\ \A i \in DOMAIN r.items : i # j => q.items[i] = r.items[i]
      /\ LET x == r.items[j]
             y == q.items[j]
         IN  y.kind = x.kind /\ y.id = x.id /\ y.closed = x.closed /\ y.text = Joined(x.text, text)
  <2>1. Grown(r, q, j, text)
    BY <1>1, <1>5, GrownAt
  <2> QED
    BY ONLY <2>1 DEF Grown
<1>7. /\ s[Other(kind)].added => s[Other(kind)].index # j
      /\ \A c \in Calls : s.tools[c].added => s.tools[c].index # j
  BY TextApart
<1> HIDE DEF q, j
<1>8. Status(t, q)
  BY <1>1, <1>6 DEF Agrees, Status, SameStatus, SameEnd
<1>9. TextPart(t[kind], q, kind)
  BY <1>1, <1>3, <1>6 DEF TextPart, Shown, j
<1>10. TextPart(t[Other(kind)], q, Other(kind))
  <2>1. SameItem(s[Other(kind)], r, q)
    BY <1>6, <1>7 DEF SameItem
  <2> QED
    BY <1>1, <2>1, PartOf, TextKept
<1>11. ASSUME NEW c \in Calls PROVE CallPart(t, q, c, late)
  <2>1. SameItem(s.tools[c], r, q)
    BY <1>6, <1>7 DEF SameItem
  <2> QED
    BY <1>1, <2>1, CallKept DEF Agrees, SameStatus, SameCalls
<1>12. Distinct(t)
  BY <1>1 DEF Agrees, Distinct, SameCalls
<1>13. Owned(t, q)
  <2>1. ASSUME NEW i, Owner(s, i) PROVE Owner(t, i)
    <3>1. t.tools = s.tools
      BY <1>1 DEF SameCalls
    <3>2. CASE kind = "message"
      BY <1>1, <2>1, <3>1, <3>2 DEF Owner, Other
    <3>3. CASE kind = "reasoning"
      BY <1>1, <2>1, <3>1, <3>3 DEF Owner, Other
    <3> QED
      BY <3>2, <3>3 DEF TextKinds
  <2> QED
    BY <1>6, <2>1 DEF Agrees, Owned
<1>14. ClosedPart(t, q)
  <2>1. ClosedPart(s, r) /\ t.closed = s.closed /\ t.tools = s.tools
    BY <1>1 DEF Agrees, SameCalls
  <2>2. \A i \in DOMAIN r.items : q.items[i].closed = r.items[i].closed
    BY <1>6
  <2>3. ASSUME NEW k \in DOMAIN t.closed
        PROVE  LET i == t.closed[k].index
               IN  i \in DOMAIN q.items /\ q.items[i].closed = 1
                     /\ ClosedText(t, q.items[i], i, t.closed[k].text)
    <3> DEFINE i == s.closed[k].index
               a == s.closed[k].text
    <3>1. /\ k \in DOMAIN s.closed /\ i \in DOMAIN r.items /\ r.items[i].closed = 1
          /\ ClosedText(s, r.items[i], i, a)
      BY <2>1 DEF ClosedPart
    <3>2. a \in Text /\ r.items[i].text \in Text
      <4>1. s.closed[k] \in ClosedItem
        BY <3>1 DEF Converters
      <4>2. r.items[i] \in ShownItem
        BY <1>2, <3>1
      <4> QED
        BY <4>1, <4>2 DEF ClosedItem, ShownItem
    <3> HIDE DEF i, a
    <3>3. CASE i # j
      <4>1. q.items[i] = r.items[i]
        BY <1>6, <3>1, <3>3
      <4>2. ClosedText(t, q.items[i], i, a)
        BY <2>1, <3>1, <4>1 DEF ClosedText
      <4> QED
        BY <1>6, <2>1, <3>1, <4>1, <4>2 DEF i, a
    <3>4. CASE i = j
      <4>1. kind = "reasoning" /\ r.items[i].kind = "reasoning"
        BY <1>3, <3>1, <3>4 DEF j
      <4>2. IsPrefix(a, r.items[i].text)
        BY <3>1, <4>1 DEF ClosedText
      <4>3. IsPrefix(a, Joined(r.items[i].text, text))
        BY <3>2, <4>2, PrefixGrown DEF Joined
      <4>4. ClosedText(t, q.items[i], i, a)
        BY <1>6, <3>4, <4>1, <4>3 DEF ClosedText
      <4> QED
        BY <1>6, <2>1, <2>2, <3>1, <4>4 DEF i, a
    <3> QED
      BY <3>3, <3>4
  <2>4. \A i \in DOMAIN q.items : q.items[i].closed = 1 => \E k \in DOMAIN t.closed : t.closed[k].index = i
    BY <1>6, <2>1, <2>2 DEF ClosedPart
  <2>5. \A k, l \in DOMAIN t.closed : t.closed[k].index = t.closed[l].index => k = l
    BY <2>1 DEF ClosedPart
  <2> QED
    BY <2>3, <2>4, <2>5 DEF ClosedPart
<1>15. TextPart(t.message, q, "message") /\ TextPart(t.reasoning, q, "reasoning")
  BY <1>9, <1>10 DEF TextKinds, Other
<1> QED
  BY <1>1, <1>5, <1>8, <1>11, <1>12, <1>13, <1>14, <1>15 DEF Agrees, q

(* Codex sees one more item closed, and the calls that have no name yet    *)
(* have none afterwards.                                                   *)
OneShut(r, q, j) ==
  /\ j \in DOMAIN r.items /\ DOMAIN q.items = DOMAIN r.items
  /\ r.items[j].closed = 0 /\ q.items[j].closed = 1
  /\ \A i \in DOMAIN r.items : i # j => q.items[i] = r.items[i]
UnnamedStay(s, t) ==
  \A c \in Calls : s.tools[c].added /\ s.tools[c].name = "unknown_tool" =>
     /\ t.tools[c].added /\ t.tools[c].index = s.tools[c].index
     /\ t.tools[c].name = "unknown_tool"

(* One more item is closed, with its text.                                 *)
LEMMA ClosedGrown ==
  ASSUME NEW s, NEW t, NEW r, NEW q, NEW j, NEW new,
         ClosedPart(s, r), s.closed \in Seq(ClosedItem), new \in ClosedItem,
         t.closed = Append(s.closed, new), new.index = j,
         UnnamedStay(s, t), OneShut(r, q, j), ClosedText(t, q.items[j], j, new.text)
  PROVE  ClosedPart(t, q)
<1>9. /\ j \in DOMAIN r.items /\ DOMAIN q.items = DOMAIN r.items /\ r.items[j].closed = 0
      /\ \A i \in DOMAIN r.items : i # j => q.items[i] = r.items[i]
      /\ q.items[j].closed = 1
  BY DEF OneShut
<1> DEFINE n == Len(s.closed)
<1>1. /\ n \in Nat /\ DOMAIN s.closed = 1..n /\ DOMAIN t.closed = 1..(n + 1)
      /\ t.closed[n + 1] = new /\ \A k \in 1..n : t.closed[k] = s.closed[k]
  OBVIOUS
<1> HIDE DEF n
<1>2. \A k \in 1..n : s.closed[k].index \in DOMAIN r.items /\ s.closed[k].index # j
  <2>1. ASSUME NEW k \in DOMAIN s.closed
        PROVE  s.closed[k].index \in DOMAIN r.items /\ r.items[s.closed[k].index].closed = 1
    BY <2>1 DEF ClosedPart
  <2> QED
    BY ONLY <1>1, <1>9, <2>1
<1>3. ASSUME NEW k \in 1..(n + 1)
      PROVE  LET i == t.closed[k].index
             IN  i \in DOMAIN q.items /\ q.items[i].closed = 1
                   /\ ClosedText(t, q.items[i], i, t.closed[k].text)
  <2>1. CASE k = n + 1
    BY <1>1, <1>9, <2>1
  <2>2. CASE k \in 1..n
    <3> DEFINE i == s.closed[k].index
               a == s.closed[k].text
    <3>1. /\ i \in DOMAIN r.items /\ r.items[i].closed = 1 /\ i # j /\ t.closed[k] = s.closed[k]
          /\ ClosedText(s, r.items[i], i, a) /\ q.items[i] = r.items[i]
      BY <1>1, <1>2, <1>9, <2>2 DEF ClosedPart
    <3> HIDE DEF i, a
    <3>2. ClosedText(t, q.items[i], i, a)
      BY <3>1 DEF ClosedText, UnnamedStay
    <3> QED
      BY <1>9, <3>1, <3>2 DEF i, a
  <2> QED
    BY <1>1, <2>1, <2>2
<1>4. \A k, l \in 1..(n + 1) : t.closed[k].index = t.closed[l].index => k = l
  <2>1. \A k, l \in DOMAIN s.closed : s.closed[k].index = s.closed[l].index => k = l
    BY DEF ClosedPart
  <2> QED
    BY <1>1, <1>2, <2>1
<1>5. ASSUME NEW i \in DOMAIN q.items, q.items[i].closed = 1
      PROVE  \E k \in 1..(n + 1) : t.closed[k].index = i
  <2>1. CASE i = j
    BY <1>1, <2>1
  <2>2. CASE i # j
    <3>1. PICK k \in 1..n : s.closed[k].index = i
      BY <1>1, <1>5, <1>9, <2>2 DEF ClosedPart
    <3> QED
      BY <1>1, <3>1
  <2> QED
    BY <2>1, <2>2
<1>6. \A k \in DOMAIN t.closed :
         LET i == t.closed[k].index
         IN  i \in DOMAIN q.items /\ q.items[i].closed = 1
               /\ ClosedText(t, q.items[i], i, t.closed[k].text)
  BY <1>1, <1>3
<1>7. \A k, l \in DOMAIN t.closed : t.closed[k].index = t.closed[l].index => k = l
  BY <1>1, <1>4
<1>8. \A i \in DOMAIN q.items : q.items[i].closed = 1 => \E k \in DOMAIN t.closed : t.closed[k].index = i
  BY <1>1, <1>5
<1> QED
  BY ONLY <1>6, <1>7, <1>8 DEF ClosedPart

(* Closing a text (finalize_reasoning_into, finalize_text_into) fits.      *)
LEMMA ClosedAgrees ==
  ASSUME NEW s \in Converters, NEW r \in Readers, NEW late, Agrees(s, r, late),
         s.started, ~ s.completed, NEW kind \in TextKinds, s[kind].added, ~ s[kind].done,
         NEW e, e = [ev |-> "done", index |-> s[kind].index, id |-> s[kind].id],
         NEW t, t = Finalize(s, kind)
  PROVE  e \in Events /\ Legal(r, e) /\ Agrees(t, ReadOn(r, e), late)
<1> DEFINE q == ReadOn(r, e)
           j == s[kind].index
           new == [index |-> s[kind].index, text |-> s[kind].text]
<1>1. /\ e \in Events /\ t \in Converters /\ new \in ClosedItem
      /\ SameStatus(s, t) /\ SameCalls(s, t) /\ t.closed = Append(s.closed, new) /\ t.next = s.next
      /\ t[kind].added /\ t[kind].done
      /\ t[kind].index = s[kind].index /\ t[kind].id = s[kind].id
      /\ t[kind].text = s[kind].text
      /\ t[Other(kind)] = s[Other(kind)]
  BY ClosedFacts
<1>2. r.items \in Seq(ShownItem) /\ Alive(r) /\ s.closed \in Seq(ClosedItem)
  BY AgreesParts DEF Converters
<1>3. /\ j \in DOMAIN r.items
      /\ LET x == r.items[j]
         IN  x.kind = kind /\ x.id = s[kind].id /\ x.text = s[kind].text /\ x.closed = 0
  BY PartOf, TextShown
<1>4. e.ev = "done" /\ e.index = j /\ e.id = s[kind].id /\ new.index = j /\ new.text = s[kind].text
  OBVIOUS
<1>5. Legal(r, e)
  BY <1>2, <1>3, <1>4 DEF Legal
<1>6. /\ SameEnd(r, q) /\ Len(q.items) = Len(r.items) /\ DOMAIN q.items = DOMAIN r.items
      /\ \A i \in DOMAIN r.items : i # j => q.items[i] = r.items[i]
      /\ LET x == r.items[j]
             y == q.items[j]
         IN  y.kind = x.kind /\ y.id = x.id /\ y.closed = 1 /\ y.text = x.text
  <2>1. ShutAt(r, q, j)
    BY <1>1, <1>4, <1>5, ShutAfter
  <2> QED
    BY ONLY <2>1 DEF ShutAt
<1>7. /\ s[Other(kind)].added => s[Other(kind)].index # j
      /\ \A c \in Calls : s.tools[c].added => s.tools[c].index # j
  BY TextApart
<1> HIDE DEF q, j, new
<1>8. Status(t, q)
  BY <1>1, <1>6 DEF Agrees, Status, SameStatus, SameEnd
<1>9. TextPart(t[kind], q, kind)
  BY <1>1, <1>3, <1>6 DEF TextPart, Shown, j
<1>10. TextPart(t[Other(kind)], q, Other(kind))
  <2>1. SameItem(s[Other(kind)], r, q)
    BY <1>6, <1>7 DEF SameItem
  <2> QED
    BY <1>1, <2>1, PartOf, TextKept
<1>11. ASSUME NEW c \in Calls PROVE CallPart(t, q, c, late)
  <2>1. SameItem(s.tools[c], r, q)
    BY <1>6, <1>7 DEF SameItem
  <2> QED
    BY <1>1, <2>1, CallKept DEF Agrees, SameStatus, SameCalls
<1>12. Distinct(t)
  BY <1>1 DEF Agrees, Distinct, SameCalls
<1>13. Owned(t, q)
  <2>1. ASSUME NEW i, Owner(s, i) PROVE Owner(t, i)
    <3>1. t.tools = s.tools
      BY <1>1 DEF SameCalls
    <3>2. CASE kind = "message"
      BY <1>1, <2>1, <3>1, <3>2 DEF Owner, Other
    <3>3. CASE kind = "reasoning"
      BY <1>1, <2>1, <3>1, <3>3 DEF Owner, Other
    <3> QED
      BY <3>2, <3>3 DEF TextKinds
  <2> QED
    BY <1>6, <2>1 DEF Agrees, Owned
<1>14. ClosedText(t, q.items[j], j, new.text)
  <2>1. s[kind].text \in Text
    BY ItemTyped DEF ItemFields
  <2>2. new.text = q.items[j].text /\ q.items[j].kind = kind /\ new.text \in Text
    BY <1>3, <1>4, <1>6, <2>1 DEF new, j
  <2> QED
    BY <2>2, PrefixOfSelf DEF ClosedText, TextKinds
<1>15. ClosedPart(t, q)
  <2>1. UnnamedStay(s, t)
    BY <1>1 DEF UnnamedStay, SameCalls
  <2>2. OneShut(r, q, j)
    BY <1>3, <1>6 DEF OneShut
  <2>3. /\ ClosedPart(s, r) /\ s.closed \in Seq(ClosedItem) /\ new \in ClosedItem
        /\ t.closed = Append(s.closed, new) /\ new.index = j
    BY <1>1, <1>2, <1>4 DEF Agrees
  <2> QED
    BY ONLY <1>14, <2>1, <2>2, <2>3, ClosedGrown
<1>16. TextPart(t.message, q, "message") /\ TextPart(t.reasoning, q, "reasoning")
  BY <1>9, <1>10 DEF TextKinds, Other
<1> QED
  BY <1>1, <1>5, <1>8, <1>11, <1>12, <1>13, <1>15, <1>16 DEF Agrees, q

-----------------------------------------------------------------------------
(* The operations on tool calls.                                           *)

(* Types of what the converter keeps of a call.                            *)
LEMMA CallTyped ==
  ASSUME NEW s \in Converters, NEW c \in Calls
  PROVE  /\ s.tools[c] \in CallFields /\ s.next \in Nat /\ s.closed \in Seq(ClosedItem)
         /\ s.seen \subseteq Calls
BY DEF Converters

(* Another call, and nothing else but the set of calls heard of, the next  *)
(* index and the texts closed.                                             *)
SetCall(s, c, call, seen, next, closed) ==
  [s EXCEPT !.tools[c] = call, !.seen = seen, !.next = next, !.closed = closed]

OtherCalls(s, t, c) == \A d \in Calls : d # c => t.tools[d] = s.tools[d]
SameTexts(s, t) == t.message = s.message /\ t.reasoning = s.reasoning

CallSet(s, t, c, call, seen, next, closed) ==
  /\ t \in Converters /\ t.events = s.events
  /\ SameStatus(s, t) /\ SameThink(s, t) /\ SameTexts(s, t)
  /\ t.tools[c] = call /\ OtherCalls(s, t, c)
  /\ t.seen = seen /\ t.next = next /\ t.closed = closed

(* SetCall changes what it names.                                          *)
LEMMA SetCallFacts ==
  ASSUME NEW s \in Converters, NEW c \in Calls, NEW call \in CallFields, NEW seen \in SUBSET Calls,
         NEW next \in Nat, NEW closed \in Seq(ClosedItem)
  PROVE  CallSet(s, SetCall(s, c, call, seen, next, closed), c, call, seen, next, closed)
<1> DEFINE tools == [s.tools EXCEPT ![c] = call]
           t == SetCall(s, c, call, seen, next, closed)
<1>1. tools \in [Calls -> CallFields] /\ tools[c] = call /\ \A d \in Calls : d # c => tools[d] = s.tools[d]
  BY DEF Converters
<1>2. t = [s EXCEPT !.tools = tools, !.seen = seen, !.next = next, !.closed = closed]
  BY DEF SetCall
<1> HIDE DEF tools, t
<1>3. /\ t \in Converters /\ t.events = s.events
      /\ SameStatus(s, t) /\ SameThink(s, t) /\ SameTexts(s, t)
      /\ t.tools[c] = call /\ OtherCalls(s, t, c)
      /\ t.seen = seen /\ t.next = next /\ t.closed = closed
  BY <1>1, <1>2 DEF Converters, SameStatus, SameThink, SameTexts, OtherCalls
<1> QED
  BY <1>3 DEF CallSet, t

(* What a call has become when it is announced.                            *)
AnnouncedEvent(s, t, c) == AddedEvent(CallKind(s, t.tools[c]), t.tools[c])
Announced(s, t, c, e) ==
  LET old == s.tools[c]
      new == t.tools[c]
  IN  /\ e \in Events /\ e.ev = "added" /\ e.index = s.next
      /\ e.kind = CallKind(s, new) /\ e.id = new.id
      /\ t \in Converters /\ t.events = Append(s.events, e)
      /\ SameStatus(s, t) /\ SameThink(s, t) /\ SameTexts(s, t) /\ OtherCalls(s, t, c)
      /\ t.seen = s.seen /\ t.closed = s.closed /\ t.next = s.next + 1
      /\ new.added /\ (new.done <=> old.done) /\ new.index = s.next /\ new.text = old.text
      /\ new.name = IF old.name = "" THEN "unknown_tool" ELSE old.name
      /\ new.call = IF old.call = "" THEN "generated" ELSE old.call
      /\ new.id = ItemId(t, new)

(* What announcing a call changes.                                         *)
LEMMA AnnouncedFacts ==
  ASSUME NEW s \in Converters, NEW c \in Calls, NEW t, t = Announce(s, c),
         NEW e, e = AnnouncedEvent(s, t, c)
  PROVE  Announced(s, t, c, e)
<1> DEFINE old == s.tools[c]
           id1 == IF old.call = "" THEN "generated" ELSE old.call
           name1 == IF old.name = "" THEN "unknown_tool" ELSE old.name
           named == [old EXCEPT !.call = id1, !.name = name1, !.added = TRUE, !.index = s.next]
           call == [named EXCEPT !.id = ItemId(s, named)]
           kind == CallKind(s, named)
           n == s.next + 1
           u == SetCall(s, c, call, s.seen, n, s.closed)
<1>1. /\ old \in CallFields /\ s.next \in Nat /\ n \in Nat /\ s.closed \in Seq(ClosedItem)
      /\ s.seen \subseteq Calls
  BY CallTyped
<1>2. id1 \in Word /\ name1 \in Word
  <2>1. old.call \in Word /\ old.name \in Word
    BY <1>1 DEF CallFields
  <2>2. "generated" \in Word /\ "unknown_tool" \in Word
    BY DEF Word
  <2> HIDE DEF old
  <2> QED
    BY <2>1, <2>2
<1>3. /\ named \in CallFields /\ named.added /\ (named.done <=> old.done) /\ named.index = s.next
      /\ named.text = old.text /\ named.name = name1 /\ named.call = id1
  <2> HIDE DEF id1, name1, old
  <2> QED
    BY <1>1, <1>2 DEF CallFields
<1>4. kind \in {"custom_tool_call", "function_call"}
  BY DEF CallKind
<1>5. ItemId(s, named) \in Seq(Word)
  <2> HIDE DEF named
  <2>1. kind \in Word
    <3>1. "custom_tool_call" \in Word /\ "function_call" \in Word
      BY DEF Word
    <3> HIDE DEF kind
    <3> QED
      BY <1>4, <3>1
  <2>2. named.call \in Word
    BY <1>3 DEF CallFields
  <2> QED
    BY <2>1, <2>2 DEF ItemId
<1>6. /\ call \in CallFields /\ call.added /\ (call.done <=> old.done) /\ call.index = s.next
      /\ call.text = old.text /\ call.name = name1 /\ call.call = id1 /\ call.id = ItemId(s, named)
  <2> HIDE DEF named
  <2> QED
    BY <1>3, <1>5 DEF CallFields
<1>7. CallKind(s, call) = kind /\ ItemId(s, call) = ItemId(s, named)
  <2> HIDE DEF named, call
  <2> QED
    BY <1>3, <1>6 DEF CallKind, ItemId
<1>8. t = Emit([s EXCEPT !.next = @ + 1, !.tools[c] = call], AddedEvent(CallKind(s, call), call))
  BY DEF Announce
<1>9. [s EXCEPT !.next = @ + 1, !.tools[c] = call] = u
  <2> HIDE DEF call
  <2> QED
    BY DEF SetCall, Converters
<1>10. t = Emit(u, AddedEvent(kind, call))
  BY <1>7, <1>8, <1>9
<1> HIDE DEF call, named, id1, name1, n, kind, old, u
<1> DEFINE ev == AddedEvent(kind, call)
<1>11. /\ ev \in Events /\ ev.ev = "added" /\ ev.index = s.next /\ ev.kind = kind /\ ev.id = call.id
  BY <1>4, <1>6 DEF AddedEvent, Events, CallFields, Promised!Kinds
<1> HIDE DEF ev
<1>12. /\ u \in Converters /\ u.events = s.events
       /\ SameStatus(s, u) /\ SameThink(s, u) /\ SameTexts(s, u)
       /\ u.tools[c] = call /\ OtherCalls(s, u, c)
       /\ u.seen = s.seen /\ u.next = n /\ u.closed = s.closed
  BY <1>1, <1>6, SetCallFacts DEF CallSet, u
<1>13. /\ t \in Converters /\ t.events = Append(u.events, ev)
       /\ SameStatus(u, t) /\ SameThink(u, t) /\ SameCalls(u, t)
       /\ t.next = u.next /\ t.closed = u.closed /\ t.message = u.message /\ t.reasoning = u.reasoning
  BY <1>10, <1>11, <1>12, EmitFacts DEF ev
<1>14. t.tools[c] = call /\ OtherCalls(s, t, c) /\ t.custom = s.custom
  BY <1>12, <1>13 DEF SameCalls, OtherCalls, SameStatus
<1>15. e = ev
  BY <1>7, <1>14 DEF AnnouncedEvent, ev
<1>16. call.id = ItemId(t, call)
  BY <1>6, <1>7, <1>14 DEF ItemId, CallKind, IsCustom
<1>17. SameStatus(s, t) /\ SameThink(s, t) /\ SameTexts(s, t)
  BY <1>12, <1>13 DEF SameStatus, SameThink, SameTexts
<1> QED
  BY <1>6, <1>7, <1>11, <1>12, <1>13, <1>14, <1>15, <1>16, <1>17
     DEF Announced, id1, name1, n, old, SameCalls

(* A call is closed.                                                       *)
ClosedCallEvent(s, c) ==
  [ev |-> "done", index |-> s.tools[c].index, id |-> ItemId(s, s.tools[c])]
ClosedCallItem(s, c) == [index |-> s.tools[c].index, text |-> s.tools[c].text]
CloseCall(s, c) ==
  Emit([s EXCEPT !.tools[c].done = TRUE, !.closed = Append(@, ClosedCallItem(s, c))],
       ClosedCallEvent(s, c))

CallClosed(s, t, c, e, x) ==
  LET old == s.tools[c]
      new == t.tools[c]
  IN  /\ e \in Events /\ e.ev = "done" /\ e.index = old.index /\ e.id = ItemId(s, old)
      /\ x \in ClosedItem /\ x.index = old.index /\ x.text = old.text
      /\ t \in Converters /\ t.events = Append(s.events, e)
      /\ SameStatus(s, t) /\ SameThink(s, t) /\ SameTexts(s, t) /\ OtherCalls(s, t, c)
      /\ t.seen = s.seen /\ t.closed = Append(s.closed, x) /\ t.next = s.next
      /\ (new.added <=> old.added) /\ new.done /\ new.index = old.index /\ new.text = old.text
      /\ new.name = old.name /\ new.call = old.call /\ new.id = old.id

(* What closing a call changes.                                            *)
LEMMA ClosedCallFacts ==
  ASSUME NEW s \in Converters, NEW c \in Calls, NEW t, t = CloseCall(s, c),
         NEW e, e = ClosedCallEvent(s, c), NEW x, x = ClosedCallItem(s, c)
  PROVE  CallClosed(s, t, c, e, x)
<1> DEFINE old == s.tools[c]
           call == [old EXCEPT !.done = TRUE]
           closed == Append(s.closed, x)
           u == SetCall(s, c, call, s.seen, s.next, closed)
<1>1. /\ old \in CallFields /\ s.next \in Nat /\ s.closed \in Seq(ClosedItem)
      /\ s.seen \subseteq Calls
  BY CallTyped
<1>2. /\ call \in CallFields /\ (call.added <=> old.added) /\ call.done /\ call.index = old.index
      /\ call.text = old.text /\ call.name = old.name /\ call.call = old.call /\ call.id = old.id
  <2> HIDE DEF old
  <2> QED
    BY <1>1 DEF CallFields
<1>3. x \in ClosedItem /\ x.index = old.index /\ x.text = old.text
  <2>1. old.index \in Nat /\ old.text \in Text
    BY <1>1 DEF CallFields
  <2> QED
    BY <2>1 DEF ClosedCallItem, ClosedItem
<1>4. closed \in Seq(ClosedItem)
  BY <1>1, <1>3
<1>5. ItemId(s, old) \in Seq(Word)
  <2>1. CallKind(s, old) \in Word
    <3>1. "custom_tool_call" \in Word /\ "function_call" \in Word
      BY DEF Word
    <3> QED
      BY <3>1 DEF CallKind
  <2>2. old.call \in Word
    BY <1>1 DEF CallFields
  <2> QED
    BY <2>1, <2>2 DEF ItemId
<1>6. e \in Events /\ e.ev = "done" /\ e.index = old.index /\ e.id = ItemId(s, old)
  BY <1>1, <1>5 DEF ClosedCallEvent, Events, CallFields
<1>7. [s EXCEPT !.tools[c].done = TRUE, !.closed = Append(@, x)] = u
  BY DEF SetCall, Converters
<1>8. t = Emit(u, e)
  BY <1>7 DEF CloseCall
<1> HIDE DEF old, call, closed, u
<1>9. /\ u \in Converters /\ u.events = s.events
      /\ SameStatus(s, u) /\ SameThink(s, u) /\ SameTexts(s, u)
      /\ u.tools[c] = call /\ OtherCalls(s, u, c)
      /\ u.seen = s.seen /\ u.next = s.next /\ u.closed = closed
  BY <1>1, <1>2, <1>4, SetCallFacts DEF CallSet, u
<1>10. /\ t \in Converters /\ t.events = Append(u.events, e)
       /\ SameStatus(u, t) /\ SameThink(u, t) /\ SameCalls(u, t)
       /\ t.next = u.next /\ t.closed = u.closed /\ t.message = u.message /\ t.reasoning = u.reasoning
  BY <1>6, <1>8, <1>9, EmitFacts
<1>11. /\ t.tools[c] = call /\ OtherCalls(s, t, c)
       /\ SameStatus(s, t) /\ SameThink(s, t) /\ SameTexts(s, t)
  BY <1>9, <1>10 DEF SameStatus, SameThink, SameTexts, OtherCalls, SameCalls
<1> QED
  BY <1>2, <1>3, <1>6, <1>9, <1>10, <1>11 DEF CallClosed, old, closed, SameCalls

(* A call is heard of: another delta of it, and nothing else.              *)
Heard(s, h, c) ==
  /\ SameStatus(s, h) /\ SameTexts(s, h) /\ OtherCalls(s, h, c)
  /\ h.next = s.next /\ h.closed = s.closed /\ s.seen \subseteq h.seen /\ c \in h.seen

(* Emitting a delta with "text" would bring Codex up to date.              *)
Pending(s, r, c, text) ==
  LET call == s.tools[c]
      x == r.items[call.index]
  IN  IF IsCustom(s, call.name) THEN x.text = <<>> ELSE call.text = Joined(x.text, text)

(* Joining nothing.                                                        *)
LEMMA JoinedEmpty ==
  ASSUME NEW a \in Text PROVE Joined(<<>>, a) = a /\ Joined(a, <<>>) = a /\ <<>> \in Text
BY DEF Joined, Text

(* No text and no other call has a call's item.                            *)
LEMMA CallApart ==
  ASSUME NEW s, NEW r, NEW late, Agrees(s, r, late), NEW c \in Calls, s.tools[c].added
  PROVE  /\ \A kind \in TextKinds : s[kind].added => s[kind].index # s.tools[c].index
         /\ \A d \in Calls : s.tools[d].added /\ d # c => s.tools[d].index # s.tools[c].index
<1>1. \A kind \in TextKinds : s[kind].added => s[kind].index # s.tools[c].index
  BY TextApart
<1> QED
  BY <1>1 DEF Agrees, Distinct

(* What is closed stays right when an item that is not closed changes or   *)
(* is added.                                                               *)
Unnamed(s, c) == s.tools[c].added /\ s.tools[c].name = "unknown_tool"
KeepsUnnamed(s, t, j) ==
  \A c \in Calls :
    Unnamed(s, c) /\ s.tools[c].index # j => Unnamed(t, c) /\ t.tools[c].index = s.tools[c].index
SameBut(r, q, j) ==
  /\ \A i \in DOMAIN r.items : i # j => i \in DOMAIN q.items /\ q.items[i] = r.items[i]
  /\ \A i \in DOMAIN q.items : i # j => i \in DOMAIN r.items
  /\ j \in DOMAIN r.items => r.items[j].closed = 0
  /\ j \in DOMAIN q.items => q.items[j].closed = 0

(* Such a change leaves what is closed as it is.                           *)
LEMMA ClosedKept ==
  ASSUME NEW s, NEW t, NEW r, NEW q, NEW j, ClosedPart(s, r), t.closed = s.closed,
         KeepsUnnamed(s, t, j), SameBut(r, q, j)
  PROVE  ClosedPart(t, q)
<1>1. \A k, l \in DOMAIN t.closed : t.closed[k].index = t.closed[l].index => k = l
  BY DEF ClosedPart
<1>2. ASSUME NEW k \in DOMAIN t.closed
      PROVE  LET i == t.closed[k].index
             IN  i \in DOMAIN q.items /\ q.items[i].closed = 1
                   /\ ClosedText(t, q.items[i], i, t.closed[k].text)
  <2> DEFINE i == s.closed[k].index
             a == s.closed[k].text
  <2>1. i \in DOMAIN r.items /\ r.items[i].closed = 1 /\ ClosedText(s, r.items[i], i, a)
    BY DEF ClosedPart
  <2> HIDE DEF i, a
  <2>2. i # j /\ i \in DOMAIN q.items /\ q.items[i] = r.items[i]
    BY <2>1 DEF SameBut
  <2>3. ClosedText(t, q.items[i], i, a)
    BY <2>1, <2>2 DEF ClosedText, KeepsUnnamed, Unnamed
  <2> QED
    BY <2>1, <2>2, <2>3 DEF i, a
<1>3. \A i \in DOMAIN q.items : q.items[i].closed = 1 => \E k \in DOMAIN t.closed : t.closed[k].index = i
  <2> TAKE i \in DOMAIN q.items
  <2> HAVE q.items[i].closed = 1
  <2>1. i # j /\ i \in DOMAIN r.items /\ r.items[i].closed = 1
    BY DEF SameBut
  <2> QED
    BY <2>1 DEF ClosedPart
<1> QED
  BY <1>1, <1>2, <1>3 DEF ClosedPart

(* Announcing a call fits; what came before its name is still to be sent.  *)
LEMMA AnnouncedAgrees ==
  ASSUME NEW s \in Converters, NEW r \in Readers, Agrees(s, r, {}), s.started, ~ s.completed,
         NEW c \in Calls, ~ s.tools[c].added, NEW h \in Converters, Heard(s, h, c),
         ~ h.tools[c].added, ~ h.tools[c].done,
         NEW t, t = Announce(h, c), NEW e, e = AnnouncedEvent(h, t, c)
  PROVE  /\ Legal(r, e) /\ Agrees(t, ReadOn(r, e), {c})
         /\ ReadOn(r, e).items[t.tools[c].index].text = <<>>
<1> DEFINE q == ReadOn(r, e)
           n == Len(r.items)
           new == t.tools[c]
<1>16. Announced(h, t, c, e)
  BY AnnouncedFacts
<1>0. e \in Events /\ e.ev = "added"
  BY <1>16 DEF Announced
<1>1. /\ e.index = h.next /\ e.kind = CallKind(h, new) /\ e.id = new.id
      /\ SameStatus(h, t) /\ SameTexts(h, t) /\ OtherCalls(h, t, c)
      /\ t.seen = h.seen /\ t.closed = h.closed /\ t.next = h.next + 1
      /\ new.added /\ ~ new.done /\ new.index = h.next /\ new.id = ItemId(t, new)
  BY <1>16 DEF Announced
<1>15. new.name # ""
  BY <1>16 DEF Announced
<1>2. /\ SameStatus(s, t) /\ SameTexts(s, t) /\ OtherCalls(s, t, c)
      /\ s.seen \subseteq t.seen /\ c \in t.seen /\ t.closed = s.closed /\ t.next = s.next + 1
      /\ new.index = s.next /\ e.index = s.next /\ e.kind = CallKind(t, new)
  BY <1>1 DEF Heard, SameStatus, SameTexts, OtherCalls, CallKind, IsCustom
<1>3. r.started = s.started /\ s.next = n + 1 /\ n \in Nat /\ DOMAIN r.items = 1..n /\ Alive(r)
  BY AgreesParts
<1>4. Legal(r, e)
  BY <1>0, <1>2, <1>3 DEF Legal
<1>5. /\ SameEnd(r, q) /\ Len(q.items) = n + 1 /\ DOMAIN q.items = 1..(n + 1)
      /\ \A i \in 1..n : q.items[i] = r.items[i]
      /\ LET x == q.items[n + 1]
         IN  x.kind = e.kind /\ x.id = e.id /\ x.text = <<>> /\ x.closed = 0
  BY <1>0, <1>3, ReaderAdded
<1> HIDE DEF q, n, new
<1>6. Status(t, q)
  BY <1>2, <1>3, <1>5 DEF Agrees, Status, SameStatus, SameEnd
<1>7. \A item : SameItem(item, r, q)
  BY <1>3, <1>5 DEF SameItem
<1>8. TextPart(t.message, q, "message") /\ TextPart(t.reasoning, q, "reasoning")
  BY <1>2, <1>7, TextKept DEF Agrees, SameTexts
<1>9. ASSUME NEW d \in Calls PROVE CallPart(t, q, d, {c})
  <2>1. CASE d = c
    <3>1. /\ new.index \in DOMAIN q.items /\ Shown(q.items[new.index], CallKind(t, new), new)
          /\ c \in t.seen
      BY <1>1, <1>2, <1>3, <1>5 DEF Shown
    <3> QED
      BY <1>1, <1>15, <2>1, <3>1 DEF CallPart, new
  <2>2. CASE d # c
    <3>1. CallPart(s, r, d, {c})
      BY <2>2 DEF Agrees, CallPart
    <3>2. t.tools[d] = s.tools[d] /\ t.custom = s.custom /\ s.seen \subseteq t.seen
      BY <1>2, <2>2 DEF OtherCalls, SameStatus
    <3> QED
      BY <1>7, <3>1, <3>2, CallKept
  <2> QED
    BY <2>1, <2>2
<1>10. \A d \in Calls : s.tools[d].added => s.tools[d].index \in 1..n
  BY <1>3, CallShown DEF Agrees
<1>11. Distinct(t)
  <2>1. \A d \in Calls : d # c => t.tools[d] = s.tools[d]
    BY <1>2 DEF OtherCalls
  <2>2. t.tools[c].index = n + 1
    BY <1>2, <1>3 DEF new
  <2>3. Distinct(s)
    BY DEF Agrees
  <2>4. ASSUME NEW d \in Calls, NEW f \in Calls, t.tools[d].added, t.tools[f].added,
               t.tools[d].index = t.tools[f].index
        PROVE  d = f
    <3>1. \A g \in Calls : g # c /\ t.tools[g].added => t.tools[g].index # n + 1
      BY <1>3, <1>10, <2>1
    <3> QED
      BY <2>1, <2>2, <2>3, <2>4, <3>1 DEF Distinct
  <2> QED
    BY <2>4 DEF Distinct
<1>12. Owned(t, q)
  <2>1. ASSUME NEW i \in 1..n PROVE Owner(t, i)
    <3>1. Owner(s, i)
      BY <1>3 DEF Agrees, Owned
    <3> QED
      BY <1>2, <3>1 DEF Owner, SameTexts, OtherCalls
  <2>2. Owner(t, n + 1)
    BY <1>1, <1>2, <1>3 DEF Owner, new
  <2> QED
    BY <1>3, <1>5, <2>1, <2>2 DEF Owned
<1>13. ClosedPart(t, q)
  <2>1. ClosedPart(s, r) /\ t.closed = s.closed
    BY <1>2 DEF Agrees
  <2>2. KeepsUnnamed(s, t, n + 1)
    BY <1>2 DEF KeepsUnnamed, Unnamed, OtherCalls
  <2>3. SameBut(r, q, n + 1)
    BY <1>3, <1>5 DEF SameBut
  <2> QED
    BY <2>1, <2>2, <2>3, ClosedKept
<1>14. q.items[new.index].text = <<>>
  BY <1>2, <1>3, <1>5
<1> QED
  BY <1>4, <1>6, <1>8, <1>9, <1>11, <1>12, <1>13, <1>14 DEF Agrees, q, new

(* After a delta of an announced call only its arguments are to be sent.   *)
LEMMA HeardAgrees ==
  ASSUME NEW s \in Converters, NEW r \in Readers, Agrees(s, r, {}),
         NEW c \in Calls, s.tools[c].added, ~ s.tools[c].done, NEW h, Heard(s, h, c), NEW more,
         h.tools[c].added, ~ h.tools[c].done, h.tools[c].index = s.tools[c].index,
         h.tools[c].id = s.tools[c].id, h.tools[c].call = s.tools[c].call,
         h.tools[c].text = Joined(s.tools[c].text, more),
         \/ h.tools[c].name = s.tools[c].name
         \/ s.tools[c].name = "unknown_tool" /\ h.tools[c].name # ""
  PROVE  /\ Agrees(h, r, {c}) /\ Pending(h, r, c, more)
         /\ h.custom => h.tools[c].name # "unknown_tool"
<1> DEFINE old == s.tools[c]
           new == h.tools[c]
<1>1. /\ c \in s.seen /\ old.index \in DOMAIN r.items
      /\ Shown(r.items[old.index], CallKind(s, old), old)
      /\ old.id = ItemId(s, old) /\ old.name # ""
      /\ s.custom => old.name # "unknown_tool"
      /\ CallText(s, old, r.items[old.index])
  BY DEF Agrees, CallPart
<1>2. h.custom = s.custom
  BY DEF Heard, SameStatus
<1>3. IsCustom(h, new.name) <=> IsCustom(s, old.name)
  BY <1>1, <1>2 DEF IsCustom
<1>4. CallKind(h, new) = CallKind(s, old) /\ ItemId(h, new) = ItemId(s, old)
  BY <1>3 DEF CallKind, ItemId
<1>5. Pending(h, r, c, more)
  BY <1>1, <1>3 DEF Pending, CallText
<1>6. CallPart(h, r, c, {c})
  BY <1>1, <1>4 DEF CallPart, Shown, Heard
<1>7. ASSUME NEW d \in Calls, d # c PROVE CallPart(h, r, d, {c})
  <2>1. CallPart(s, r, d, {c})
    BY <1>7 DEF Agrees, CallPart
  <2>2. h.tools[d] = s.tools[d] /\ s.seen \subseteq h.seen
    BY <1>7 DEF Heard, OtherCalls
  <2> QED
    BY <1>2, <2>1, <2>2, CallKept DEF SameItem
<1>8. Status(h, r) /\ TextPart(h.message, r, "message") /\ TextPart(h.reasoning, r, "reasoning")
  BY DEF Agrees, Status, Heard, SameStatus, SameTexts
<1>9. \A d \in Calls : (h.tools[d].added <=> s.tools[d].added) /\ h.tools[d].index = s.tools[d].index
  BY DEF Heard, OtherCalls
<1>10. Distinct(h) /\ Owned(h, r)
  <2>1. Distinct(s) /\ Owned(s, r) /\ h.message = s.message /\ h.reasoning = s.reasoning
    BY DEF Agrees, Heard, SameTexts
  <2>2. Distinct(h)
    BY <1>9, <2>1 DEF Distinct
  <2>3. \A i : Owner(s, i) => Owner(h, i)
    BY <1>9, <2>1 DEF Owner
  <2> QED
    BY <2>1, <2>2, <2>3 DEF Owned
<1>11. ClosedPart(h, r)
  <2>1. ClosedPart(s, r) /\ h.closed = s.closed
    BY DEF Agrees, Heard
  <2>2. r.items[old.index].closed = 0
    BY <1>1 DEF Shown
  <2>3. KeepsUnnamed(s, h, old.index)
    BY DEF KeepsUnnamed, Unnamed, Heard, OtherCalls
  <2>4. SameBut(r, r, old.index)
    BY <2>2 DEF SameBut
  <2> QED
    BY <2>1, <2>3, <2>4, ClosedKept
<1> QED
  BY <1>1, <1>2, <1>5, <1>6, <1>7, <1>8, <1>10, <1>11 DEF Agrees

(* A delta of a call that is open.                                         *)
GrewCall(s, r, late, c, text, t, e) ==
  LET i == s.tools[c].index
  IN  /\ e \in Events /\ Legal(r, e) /\ t \in Converters /\ SameBody(s, t)
      /\ t.events = Append(s.events, e) /\ SameThink(s, t)
      /\ Agrees(t, ReadOn(r, e), late \cup {c})
      /\ ReadOn(r, e).items[i].text = Joined(r.items[i].text, text)

(* A delta of an open call fits.                                           *)
LEMMA CallDeltaAgrees ==
  ASSUME NEW s \in Converters, NEW r \in Readers, NEW late, Agrees(s, r, late),
         s.started, ~ s.completed, NEW c \in Calls, s.tools[c].added, ~ s.tools[c].done,
         NEW text \in Text, NEW e, e = DeltaEvent(s.tools[c], text), NEW t, t = Emit(s, e)
  PROVE  GrewCall(s, r, late, c, text, t, e)
<1> DEFINE q == ReadOn(r, e)
           j == s.tools[c].index
<1>1. e \in Events /\ e.ev = "delta" /\ e.index = j /\ e.text = text
  BY CallTyped DEF CallFields, DeltaEvent, Events
<1>2. /\ t \in Converters /\ t.events = Append(s.events, e)
      /\ SameStatus(s, t) /\ SameThink(s, t) /\ SameCalls(s, t)
      /\ t.next = s.next /\ t.closed = s.closed
      /\ t.message = s.message /\ t.reasoning = s.reasoning
  BY <1>1, EmitFacts
<1>3. r.items \in Seq(ShownItem) /\ Alive(r)
  BY AgreesParts
<1>4. CallPart(s, r, c, late)
  BY DEF Agrees
<1>5. j \in DOMAIN r.items /\ r.items[j].closed = 0
  BY <1>4, CallShown
<1>6. Legal(r, e)
  BY <1>1, <1>3, <1>5 DEF Legal
<1>16. Grown(r, q, j, text)
  BY <1>1, <1>6, GrownAt
<1>7. /\ SameEnd(r, q) /\ Len(q.items) = Len(r.items) /\ DOMAIN q.items = DOMAIN r.items
      /\ \A i \in DOMAIN r.items : i # j => q.items[i] = r.items[i]
      /\ q.items[j].kind = r.items[j].kind /\ q.items[j].id = r.items[j].id
      /\ q.items[j].closed = r.items[j].closed /\ q.items[j].text = Joined(r.items[j].text, text)
  BY <1>16 DEF Grown
<1>8. /\ \A kind \in TextKinds : s[kind].added => s[kind].index # j
      /\ \A d \in Calls : s.tools[d].added /\ d # c => s.tools[d].index # j
  BY CallApart
<1> HIDE DEF q, j
<1>9. Status(t, q)
  BY <1>2, <1>7 DEF Agrees, Status, SameStatus, SameEnd
<1>10. TextPart(t.message, q, "message") /\ TextPart(t.reasoning, q, "reasoning")
  <2>1. SameItem(s["message"], r, q) /\ SameItem(s["reasoning"], r, q)
    BY <1>7, <1>8 DEF SameItem, TextKinds
  <2> QED
    BY <1>2, <2>1, TextKept DEF Agrees
<1>11. ASSUME NEW d \in Calls PROVE CallPart(t, q, d, late \cup {c})
  <2>1. t.tools[d] = s.tools[d] /\ t.custom = s.custom /\ t.seen = s.seen
    BY <1>2 DEF SameCalls, SameStatus
  <2>2. CASE d # c
    <3>1. CallPart(s, r, d, late \cup {c})
      BY <2>2 DEF Agrees, CallPart
    <3>2. SameItem(s.tools[d], r, q)
      BY <1>7, <1>8, <2>2 DEF SameItem
    <3> QED
      BY <2>1, <3>1, <3>2, CallKept
  <2>3. CASE d = c
    <3> DEFINE call == s.tools[c]
    <3>1. /\ c \in s.seen /\ call.index = j /\ j \in DOMAIN r.items
          /\ Shown(r.items[j], CallKind(s, call), call)
          /\ call.id = ItemId(s, call) /\ call.name # ""
      BY <1>4 DEF CallPart, j
    <3> HIDE DEF call
    <3>2. Shown(q.items[j], CallKind(s, call), call)
      BY <1>7, <3>1 DEF Shown
    <3>3. CallKind(t, call) = CallKind(s, call) /\ ItemId(t, call) = ItemId(s, call)
      BY <2>1 DEF CallKind, ItemId, IsCustom
    <3> QED
      BY <1>7, <2>1, <2>3, <3>1, <3>2, <3>3 DEF CallPart, call
  <2> QED
    BY <2>2, <2>3
<1>12. Distinct(t) /\ Owned(t, q)
  BY <1>2, <1>7 DEF Agrees, Distinct, Owned, Owner, SameCalls
<1>13. ClosedPart(t, q)
  <2>1. ClosedPart(s, r) /\ t.closed = s.closed
    BY <1>2 DEF Agrees
  <2>2. KeepsUnnamed(s, t, j)
    BY <1>2 DEF KeepsUnnamed, Unnamed, SameCalls
  <2>3. SameBut(r, q, j)
    BY <1>5, <1>7 DEF SameBut
  <2> QED
    BY <2>1, <2>2, <2>3, ClosedKept
<1>14. SameBody(s, t)
  BY <1>2 DEF SameBody
<1> QED
  BY <1>1, <1>2, <1>6, <1>7, <1>9, <1>10, <1>11, <1>12, <1>13, <1>14 DEF GrewCall, Agrees, q, j

(* Nothing of a call is left to be emitted.                                *)
Settled(s, r, c) ==
  LET call == s.tools[c]
  IN  call.added => /\ s.custom /\ ~ call.done => call.name # "unknown_tool"
                    /\ CallText(s, call, r.items[call.index])

(* When Codex has a call's arguments, nothing of it is due.                *)
LEMMA SettledAgrees ==
  ASSUME NEW s, NEW r, NEW c \in Calls, Agrees(s, r, {c}), Settled(s, r, c)
  PROVE  Agrees(s, r, {})
<1>1. ASSUME NEW d \in Calls PROVE CallPart(s, r, d, {})
  <2>1. CallPart(s, r, d, {c})
    BY DEF Agrees
  <2> QED
    BY <2>1 DEF CallPart, Settled
<1> QED
  BY <1>1 DEF Agrees

(* Sending the arguments that are due brings Codex up to date.             *)
LEMMA ArgumentsAgree ==
  ASSUME NEW s \in Converters, NEW r \in Readers, NEW c \in Calls, Agrees(s, r, {c}),
         s.started, ~ s.completed, s.tools[c].added, ~ s.tools[c].done,
         s.custom => s.tools[c].name # "unknown_tool",
         NEW text \in Text, Pending(s, r, c, text), NEW t, t = ArgumentsDelta(s, c, text)
  PROVE  \/ t = s /\ Agrees(s, r, {})
         \/ LET e == DeltaEvent(s.tools[c], text)
            IN  /\ e \in Events /\ Legal(r, e) /\ t \in Converters
                /\ t.events = Append(s.events, e)
                /\ SameBody(s, t) /\ SameThink(s, t) /\ Agrees(t, ReadOn(r, e), {})
<1> DEFINE call == s.tools[c]
<1>1. CASE IsCustom(s, call.name)
  <2>1. t = s
    BY <1>1 DEF ArgumentsDelta
  <2>2. Settled(s, r, c)
    BY <1>1 DEF Settled, Pending, CallText
  <2> QED
    BY <2>1, <2>2, SettledAgrees
<1>2. CASE ~ IsCustom(s, call.name) /\ text = <<>>
  <2>1. t = s
    BY <1>2 DEF ArgumentsDelta
  <2>2. call.index \in DOMAIN r.items /\ r.items \in Seq(ShownItem)
    BY AgreesParts, CallShown DEF Agrees
  <2>3. r.items[call.index].text \in Text
    <3>1. r.items[call.index] \in ShownItem
      BY <2>2
    <3> QED
      BY <3>1 DEF ShownItem
  <2>4. call.text = r.items[call.index].text
    BY <1>2, <2>3, JoinedEmpty DEF Pending
  <2>5. Settled(s, r, c)
    BY <1>2, <2>4 DEF Settled, CallText
  <2> QED
    BY <2>1, <2>5, SettledAgrees
<1>3. CASE ~ IsCustom(s, call.name) /\ text # <<>>
  <2> DEFINE e == DeltaEvent(call, text)
             q == ReadOn(r, e)
  <2>1. t = Emit(s, e)
    BY <1>3 DEF ArgumentsDelta
  <2> HIDE DEF e
  <2>6. GrewCall(s, r, {c}, c, text, t, e)
    BY <2>1, CallDeltaAgrees DEF e
  <2>2. /\ e \in Events /\ Legal(r, e) /\ t \in Converters /\ SameBody(s, t)
        /\ t.events = Append(s.events, e) /\ SameThink(s, t)
        /\ Agrees(t, q, {c} \cup {c})
        /\ q.items[call.index].text = Joined(r.items[call.index].text, text)
    BY <2>6 DEF GrewCall
  <2>3. t.tools = s.tools /\ t.custom = s.custom /\ Agrees(t, q, {c})
    <3>1. {c} \cup {c} = {c}
      OBVIOUS
    <3> QED
      BY <2>2, <3>1 DEF SameBody, SameCalls, SameStatus
  <2>4. Settled(t, q, c)
    <3> HIDE DEF q
    <3> QED
      BY <1>3, <2>2, <2>3 DEF Settled, Pending, CallText, IsCustom
  <2>5. Agrees(t, q, {})
    BY <2>3, <2>4, SettledAgrees
  <2> QED
    BY <2>2, <2>5 DEF e
<1> QED
  BY <1>1, <1>2, <1>3

(* Closing a call (finalize_tools_into) fits.                              *)
LEMMA CloseCallAgrees ==
  ASSUME NEW s \in Converters, NEW r \in Readers, NEW c \in Calls, Agrees(s, r, {c}),
         s.started, ~ s.completed, s.tools[c].added, ~ s.tools[c].done,
         \/ r.items[s.tools[c].index].text = s.tools[c].text
         \/ r.items[s.tools[c].index].text = <<>> /\ s.tools[c].name = "unknown_tool",
         NEW t, t = CloseCall(s, c), NEW e, e = ClosedCallEvent(s, c)
  PROVE  Legal(r, e) /\ Agrees(t, ReadOn(r, e), {})
<1> DEFINE q == ReadOn(r, e)
           old == s.tools[c]
           new == t.tools[c]
           j == s.tools[c].index
           x == ClosedCallItem(s, c)
<1>1. CallClosed(s, t, c, e, x)
  BY ClosedCallFacts
<1>2. /\ e \in Events /\ e.ev = "done" /\ e.index = j /\ e.id = ItemId(s, old)
      /\ x \in ClosedItem /\ x.index = j /\ x.text = old.text
      /\ t \in Converters
      /\ SameStatus(s, t) /\ SameTexts(s, t) /\ OtherCalls(s, t, c)
      /\ t.seen = s.seen /\ t.closed = Append(s.closed, x) /\ t.next = s.next
      /\ new.added /\ new.done /\ new.index = j /\ new.text = old.text
      /\ new.name = old.name /\ new.call = old.call /\ new.id = old.id
  BY <1>1 DEF CallClosed
<1>3. r.items \in Seq(ShownItem) /\ Alive(r) /\ s.closed \in Seq(ClosedItem)
  BY AgreesParts DEF Converters
<1>4. CallPart(s, r, c, {c})
  BY DEF Agrees
<1>5. /\ j \in DOMAIN r.items /\ c \in s.seen
      /\ r.items[j].kind = CallKind(s, old) /\ r.items[j].id = old.id /\ old.id = ItemId(s, old)
      /\ r.items[j].closed = 0
  <2>1. Shown(r.items[j], CallKind(s, old), old)
    BY <1>4 DEF CallPart
  <2> QED
    BY <1>4, <2>1 DEF CallPart, Shown
<1>6. Legal(r, e)
  BY <1>2, <1>3, <1>5 DEF Legal
<1>19. ShutAt(r, q, j)
  BY <1>2, <1>6, ShutAfter
<1>7. /\ SameEnd(r, q) /\ Len(q.items) = Len(r.items) /\ DOMAIN q.items = DOMAIN r.items
      /\ \A i \in DOMAIN r.items : i # j => q.items[i] = r.items[i]
      /\ q.items[j].kind = r.items[j].kind /\ q.items[j].id = r.items[j].id
      /\ q.items[j].closed = 1 /\ q.items[j].text = r.items[j].text
  BY <1>19 DEF ShutAt
<1>8. /\ \A kind \in TextKinds : s[kind].added => s[kind].index # j
      /\ \A d \in Calls : s.tools[d].added /\ d # c => s.tools[d].index # j
  BY CallApart
<1>9. old.name # ""
  BY <1>4 DEF CallPart
<1>10. q.items[j].text = old.text \/ (q.items[j].text = <<>> /\ old.name = "unknown_tool")
  BY <1>7
<1> HIDE DEF q, j, old, new, x
<1>11. Status(t, q)
  BY <1>2, <1>7 DEF Agrees, Status, SameStatus, SameEnd
<1>12. TextPart(t.message, q, "message") /\ TextPart(t.reasoning, q, "reasoning")
  <2>1. SameItem(s["message"], r, q) /\ SameItem(s["reasoning"], r, q)
    BY <1>7, <1>8 DEF SameItem, TextKinds
  <2> QED
    BY <1>2, <2>1, TextKept DEF Agrees, SameTexts
<1>13. CallKind(t, new) = CallKind(s, old) /\ ItemId(t, new) = ItemId(s, old)
         /\ (IsCustom(t, new.name) <=> IsCustom(s, old.name))
  BY <1>2 DEF CallKind, ItemId, IsCustom, SameStatus
<1>14. ASSUME NEW d \in Calls PROVE CallPart(t, q, d, {})
  <2>1. CASE d # c
    <3>1. CallPart(s, r, d, {c})
      BY DEF Agrees
    <3>2. CallPart(s, r, d, {})
      BY <2>1, <3>1 DEF CallPart
    <3>3. SameItem(s.tools[d], r, q)
      BY <1>7, <1>8, <2>1 DEF SameItem
    <3>4. t.tools[d] = s.tools[d] /\ t.custom = s.custom /\ t.seen = s.seen
      BY <1>2, <2>1 DEF OtherCalls, SameStatus
    <3> QED
      BY <3>2, <3>3, <3>4, CallKept
  <2>2. CASE d = c
    <3>1. CallText(t, new, q.items[new.index])
      BY <1>2, <1>10 DEF CallText
    <3>2. Shown(q.items[new.index], CallKind(t, new), new) /\ new.index \in DOMAIN q.items
      BY <1>2, <1>5, <1>7, <1>13 DEF Shown
    <3> QED
      BY <1>2, <1>5, <1>9, <1>13, <2>2, <3>1, <3>2 DEF CallPart, new
  <2> QED
    BY <2>1, <2>2
<1>15. \A d \in Calls : (t.tools[d].added <=> s.tools[d].added) /\ t.tools[d].index = s.tools[d].index
                          /\ t.tools[d].name = s.tools[d].name
  BY <1>2 DEF OtherCalls, new, old, j
<1>16. Distinct(t) /\ Owned(t, q)
  <2>1. Distinct(s) /\ Owned(s, r) /\ t.message = s.message /\ t.reasoning = s.reasoning
    BY <1>2 DEF Agrees, SameTexts
  <2>2. Distinct(t)
    BY <1>15, <2>1 DEF Distinct
  <2>3. \A i : Owner(s, i) => Owner(t, i)
    BY <1>15, <2>1 DEF Owner
  <2> QED
    BY <1>7, <2>1, <2>2, <2>3 DEF Owned
<1>17. ClosedText(t, q.items[j], j, x.text)
  <2>1. CASE old.name = "unknown_tool"
    <3>1. ~ IsCustom(s, old.name)
      BY <2>1 DEF IsCustom, CustomName
    <3>2. q.items[j].kind = "function_call"
      BY <1>5, <1>7, <3>1 DEF CallKind
    <3>3. t.tools[c].added /\ t.tools[c].index = j /\ t.tools[c].name = "unknown_tool"
      BY <1>2, <2>1 DEF new
    <3> QED
      BY <1>2, <1>10, <3>2, <3>3 DEF ClosedText
  <2>2. CASE old.name # "unknown_tool"
    <3>1. q.items[j].kind \in {"custom_tool_call", "function_call"}
      BY <1>5, <1>7 DEF CallKind
    <3> QED
      BY <1>2, <1>10, <2>2, <3>1 DEF ClosedText
  <2> QED
    BY <2>1, <2>2
<1>18. ClosedPart(t, q)
  <2>1. UnnamedStay(s, t)
    BY <1>15 DEF UnnamedStay
  <2>2. OneShut(r, q, j)
    BY <1>5, <1>7 DEF OneShut
  <2>3. /\ ClosedPart(s, r) /\ s.closed \in Seq(ClosedItem) /\ x \in ClosedItem
        /\ t.closed = Append(s.closed, x) /\ x.index = j
    BY <1>2, <1>3 DEF Agrees
  <2> QED
    BY ONLY <1>17, <2>1, <2>2, <2>3, ClosedGrown
<1> QED
  BY <1>6, <1>11, <1>12, <1>14, <1>16, <1>18 DEF Agrees, q

-----------------------------------------------------------------------------
(* The events of one block.                                                *)

(* The events made so far lead Codex from r0 to what the converter takes it *)
(* to have read.                                                           *)
Good(s, r0) == s \in Converters /\ \E r : Led(r0, s.events, r) /\ Agrees(s, r, {})
Live(s) == s.started /\ ~ s.completed

(* A stream the converter has not ended has not ended for Codex.           *)
LEMMA LiveReader ==
  ASSUME NEW s, NEW r, NEW late, Agrees(s, r, late), ~ s.completed PROVE r.ended = "-"
BY DEF Agrees, Status

(* One more event.                                                         *)
LEMMA OneMore ==
  ASSUME NEW s, NEW r0, NEW r, NEW late, Led(r0, s.events, r), Agrees(s, r, late), ~ s.completed,
         NEW e \in Events, Legal(r, e), NEW t, t.events = Append(s.events, e)
  PROVE  Led(r0, t.events, ReadOn(r, e))
<1>1. r.ended = "-"
  BY LiveReader
<1> QED
  BY <1>1, LedOn

(* ensure_response_started_into: the response is created once and first.   *)
LEMMA EnsureStartedGood ==
  ASSUME NEW s, NEW r0, Good(s, r0), ~ s.completed, NEW t, t = EnsureStarted(s)
  PROVE  /\ Good(t, r0) /\ Live(t) /\ SameThink(s, t) /\ SameCalls(s, t) /\ SameTexts(s, t)
         /\ t.custom = s.custom /\ t.failed = s.failed
<1>1. CASE s.started
  BY <1>1 DEF EnsureStarted, Live, SameThink, SameCalls, SameTexts
<1>2. CASE ~ s.started
  <2>1. PICK r : Led(r0, s.events, r) /\ Agrees(s, r, {})
    BY DEF Good
  <2>2. s \in Converters /\ r \in Readers
    BY <2>1, LedTyped DEF Good
  <2> DEFINE u == [s EXCEPT !.started = TRUE]
             e == [ev |-> "created"]
             q == ReadOn(r, e)
  <2>3. /\ u \in Converters /\ u.events = s.events /\ u.started
        /\ u.completed = s.completed /\ u.failed = s.failed /\ u.custom = s.custom
        /\ SameThink(s, u) /\ SameCalls(s, u) /\ SameTexts(s, u) /\ u.next = s.next
        /\ u.closed = s.closed
    BY <2>2 DEF Converters, SameThink, SameCalls, SameTexts
  <2>4. t = Emit(u, e)
    BY <1>2 DEF EnsureStarted
  <2>5. e \in Events /\ e.ev = "created"
    BY DEF Events
  <2> HIDE DEF u, e
  <2>6. /\ t \in Converters /\ t.events = Append(u.events, e)
        /\ SameStatus(u, t) /\ SameThink(u, t) /\ SameCalls(u, t)
        /\ t.next = u.next /\ t.closed = u.closed /\ t.message = u.message /\ t.reasoning = u.reasoning
    BY <2>3, <2>4, <2>5, EmitFacts
  <2>7. /\ t.started /\ t.completed = s.completed /\ t.failed = s.failed /\ t.custom = s.custom
        /\ SameThink(s, t) /\ SameCalls(s, t) /\ SameTexts(s, t) /\ t.next = s.next
        /\ t.closed = s.closed /\ t.events = Append(s.events, e)
    BY <2>3, <2>6 DEF SameStatus, SameThink, SameCalls, SameTexts
  <2>8. Legal(r, e) /\ q = [r EXCEPT !.started = TRUE]
    BY <1>2, <2>1, <2>5 DEF Legal, ReadOn, Agrees, Status
  <2>9. q.items = r.items /\ q.started /\ q.ended = r.ended
    BY <2>2, <2>8 DEF Readers
  <2>10. Led(r0, t.events, q)
    BY <2>1, <2>5, <2>7, <2>8, OneMore
  <2> HIDE DEF q
  <2>11. Agrees(t, q, {})
    <3>1. Status(t, q)
      BY <2>1, <2>7, <2>9 DEF Agrees, Status
    <3>2. TextPart(t.message, q, "message") /\ TextPart(t.reasoning, q, "reasoning")
      BY <2>1, <2>7, <2>9 DEF Agrees, TextPart, SameTexts
    <3>3. ASSUME NEW c \in Calls PROVE CallPart(t, q, c, {})
      <4>1. CallPart(s, r, c, {}) /\ SameItem(s.tools[c], r, q)
        BY <2>1, <2>9 DEF Agrees, SameItem
      <4> QED
        BY <2>7, <4>1, CallKept DEF SameCalls
    <3>4. Distinct(t) /\ Owned(t, q)
      BY <2>1, <2>7, <2>9 DEF Agrees, Distinct, Owned, Owner, SameCalls, SameTexts
    <3>5. ClosedPart(t, q)
      <4>1. ClosedPart(s, r) /\ t.closed = s.closed /\ t.tools = s.tools
        BY <2>1, <2>7 DEF Agrees, SameCalls
      <4> QED
        BY <2>9, <4>1, ClosedSame
    <3> QED
      BY <3>1, <3>2, <3>3, <3>4, <3>5 DEF Agrees
  <2> QED
    BY <2>6, <2>7, <2>10, <2>11 DEF Good, Live
<1> QED
  BY <1>1, <1>2

(* What the operations on texts leave alone.                               *)
LEMMA ExtendGood ==
  ASSUME NEW s, NEW r0, Good(s, r0), Live(s), NEW kind \in TextKinds, s[kind].added,
         ~ s[kind].done \/ kind = "reasoning", NEW text \in Text, NEW t, t = Extend(s, kind, text)
  PROVE  /\ Good(t, r0) /\ SameStatus(s, t) /\ SameThink(s, t) /\ SameCalls(s, t)
         /\ t[Other(kind)] = s[Other(kind)] /\ t[kind].added /\ (t[kind].done <=> s[kind].done)
<1>1. PICK r : Led(r0, s.events, r) /\ Agrees(s, r, {})
  BY DEF Good
<1>2. s \in Converters /\ r \in Readers /\ s.started /\ ~ s.completed
  BY <1>1, LedTyped DEF Good, Live
<1> DEFINE e == DeltaEvent(s[kind], text)
<1> HIDE DEF e
<1>3. e \in Events /\ Legal(r, e) /\ Agrees(t, ReadOn(r, e), {})
  BY <1>1, <1>2, ExtendedAgrees DEF e
<1>4. /\ t \in Converters /\ t.events = Append(s.events, e)
      /\ SameStatus(s, t) /\ SameThink(s, t) /\ SameCalls(s, t)
      /\ (t[kind].added <=> s[kind].added) /\ (t[kind].done <=> s[kind].done)
      /\ t[Other(kind)] = s[Other(kind)]
  BY <1>2, ExtendedFacts DEF e
<1>5. Led(r0, t.events, ReadOn(r, e))
  BY <1>1, <1>2, <1>3, <1>4, OneMore
<1> QED
  BY <1>3, <1>4, <1>5 DEF Good

(* ... a new item, ...                                                     *)
LEMMA OpenedGood ==
  ASSUME NEW s, NEW r0, Good(s, r0), Live(s), NEW kind \in TextKinds, ~ s[kind].added,
         NEW id \in Seq(Word), NEW t, t = Opened(s, kind, id)
  PROVE  /\ Good(t, r0) /\ SameStatus(s, t) /\ SameThink(s, t) /\ SameCalls(s, t)
         /\ t[Other(kind)] = s[Other(kind)] /\ t[kind].added /\ ~ t[kind].done
<1>1. PICK r : Led(r0, s.events, r) /\ Agrees(s, r, {})
  BY DEF Good
<1>2. s \in Converters /\ r \in Readers /\ s.started /\ ~ s.completed
  BY <1>1, LedTyped DEF Good, Live
<1> DEFINE e == [ev |-> "added", index |-> s.next, kind |-> kind, id |-> id]
<1>3. e \in Events /\ Legal(r, e) /\ Agrees(t, ReadOn(r, e), {})
  BY <1>1, <1>2, OpenedAgrees
<1>4. /\ t \in Converters /\ t.events = Append(s.events, e)
      /\ SameStatus(s, t) /\ SameThink(s, t) /\ SameCalls(s, t)
      /\ t[kind].added /\ ~ t[kind].done
      /\ t[Other(kind)] = s[Other(kind)]
  BY <1>2, OpenedFacts
<1> HIDE DEF e
<1>5. Led(r0, t.events, ReadOn(r, e))
  BY <1>1, <1>2, <1>3, <1>4, OneMore
<1> QED
  BY <1>3, <1>4, <1>5 DEF Good

(* Two words are an id.                                                    *)
LEMMA PairOfWords ==
  ASSUME NEW a \in Word, NEW b \in Word PROVE <<a, b>> \in Seq(Word)
OBVIOUS

(* ... push_reasoning_delta_into and push_text_delta_into, ...             *)
LEMMA PushDeltaGood ==
  ASSUME NEW s, NEW r0, Good(s, r0), Live(s), NEW kind \in TextKinds,
         ~ s[kind].done \/ kind = "reasoning", NEW text \in Text, NEW t, t = PushDelta(s, kind, text)
  PROVE  /\ Good(t, r0) /\ SameStatus(s, t) /\ SameThink(s, t) /\ SameCalls(s, t)
         /\ t[Other(kind)] = s[Other(kind)] /\ t[kind].added /\ (t[kind].done => s[kind].done)
<1>1. CASE s[kind].added
  <2>1. t = Extend(s, kind, text)
    BY <1>1 DEF PushDelta, Extend
  <2> QED
    BY <1>1, <2>1, ExtendGood
<1>2. CASE ~ s[kind].added
  <2> DEFINE id == <<kind, "">>
             u == Opened(s, kind, id)
  <2>1. t = Extend(u, kind, text)
    BY <1>2 DEF PushDelta, Extend
  <2>2. id \in Seq(Word)
    <3>1. kind \in Word /\ "" \in Word
      BY DEF TextKinds, Word
    <3> QED
      BY <3>1, PairOfWords
  <2> HIDE DEF id, u
  <2>3. /\ Good(u, r0) /\ SameStatus(s, u) /\ SameThink(s, u) /\ SameCalls(s, u)
        /\ u[Other(kind)] = s[Other(kind)] /\ u[kind].added /\ ~ u[kind].done
    BY <1>2, <2>2, OpenedGood DEF u
  <2>4. Live(u)
    BY <2>3 DEF Live, SameStatus
  <2>5. /\ Good(t, r0) /\ SameStatus(u, t) /\ SameThink(u, t) /\ SameCalls(u, t)
        /\ t[Other(kind)] = u[Other(kind)] /\ t[kind].added /\ (t[kind].done <=> u[kind].done)
    BY <2>1, <2>3, <2>4, ExtendGood
  <2> QED
    BY <2>3, <2>5 DEF SameStatus, SameThink, SameCalls
<1> QED
  BY <1>1, <1>2

(* ... and finalize_reasoning_into and finalize_text_into.                 *)
LEMMA FinalizeGood ==
  ASSUME NEW s, NEW r0, Good(s, r0), Live(s), NEW kind \in TextKinds, NEW t, t = Finalize(s, kind)
  PROVE  /\ Good(t, r0) /\ SameStatus(s, t) /\ SameThink(s, t) /\ SameCalls(s, t)
         /\ t[Other(kind)] = s[Other(kind)] /\ (t[kind].added => t[kind].done)
<1>1. CASE ~ s[kind].added \/ s[kind].done
  BY <1>1 DEF Finalize, SameStatus, SameThink, SameCalls
<1>2. CASE s[kind].added /\ ~ s[kind].done
  <2>1. PICK r : Led(r0, s.events, r) /\ Agrees(s, r, {})
    BY DEF Good
  <2>2. s \in Converters /\ r \in Readers /\ s.started /\ ~ s.completed
    BY <2>1, LedTyped DEF Good, Live
  <2> DEFINE e == [ev |-> "done", index |-> s[kind].index, id |-> s[kind].id]
             x == [index |-> s[kind].index, text |-> s[kind].text]
  <2>3. e \in Events /\ Legal(r, e) /\ Agrees(t, ReadOn(r, e), {})
    BY <1>2, <2>1, <2>2, ClosedAgrees
  <2>4. /\ t \in Converters /\ t.events = Append(s.events, e)
        /\ SameStatus(s, t) /\ SameThink(s, t) /\ SameCalls(s, t) /\ t.closed = Append(s.closed, x)
        /\ t[kind].added /\ t[kind].done
        /\ t[Other(kind)] = s[Other(kind)]
    BY <1>2, <2>2, ClosedFacts
  <2> HIDE DEF e
  <2>5. Led(r0, t.events, ReadOn(r, e))
    BY <2>1, <2>2, <2>3, <2>4, OneMore
  <2> QED
    BY <2>3, <2>4, <2>5 DEF Good
<1> QED
  BY <1>1, <1>2

-----------------------------------------------------------------------------
(* Inline think blocks.                                                    *)

(* The closing tag is somewhere in the text.                               *)
LEMMA ClosedAtTyped ==
  ASSUME NEW b \in Text, Closes(b) PROVE ClosedAt(b) \in 1..Len(b)
<1> DEFINE T == {i \in DOMAIN b : b[i] = Close}
<1>1. DOMAIN b = 1..Len(b) /\ Len(b) \in Nat
  BY DEF Text
<1>2. T \subseteq Nat /\ T # {}
  BY <1>1 DEF Closes
<1>3. PICK x \in T : \A y \in T : x <= y
  BY <1>2, Least
<1>4. x \in DOMAIN b /\ b[x] = Close /\ \A j \in 1..(x - 1) : b[j] # Close
  <2>1. x \in 1..Len(b)
    BY <1>1
  <2>2. ASSUME NEW j \in 1..(x - 1), b[j] = Close PROVE FALSE
    <3>1. j \in T
      BY <1>1, <2>1, <2>2
    <3> QED
      BY <1>3, <2>1, <3>1
  <2> QED
    BY <2>2
<1> QED
  BY <1>1, <1>4 DEF ClosedAt

(* A piece of a text is a text.                                            *)
LEMMA PieceTyped ==
  ASSUME NEW b \in Text, NEW m \in Nat, m >= 1, NEW n \in Nat, n <= Len(b)
  PROVE  SubSeq(b, m, n) \in Text
BY DEF Text

(* So is what is left of a text without its white space, ...               *)
LEMMA InkTyped ==
  ASSUME NEW b \in Text PROVE Stripped(b) \in Text /\ Trimmed(b) \in Text
<1> DEFINE T == Ink(b)
<1>1. DOMAIN b = 1..Len(b) /\ Len(b) \in Nat /\ <<>> \in Text
  BY DEF Text
<1>2. T \subseteq 1..Len(b)
  BY <1>1 DEF Ink
<1>3. T \subseteq Nat /\ IsFiniteSet(T)
  <2>1. IsFiniteSet(1..Len(b))
    BY <1>1, FS_Interval
  <2> HIDE DEF T
  <2>2. IsFiniteSet(T)
    BY <1>2, <2>1, FS_Subset
  <2> QED
    BY <1>1, <1>2, <2>2
<1>4. CASE T = {}
  BY <1>1, <1>4 DEF Stripped, Trimmed
<1>5. CASE T # {}
  <2> HIDE DEF T
  <2>1. Max(T) \in T
    BY <1>3, <1>5, Largest
  <2>2. Min(T) \in T
    <3>1. \E x \in T : \A y \in T : x <= y
      BY <1>3, <1>5, Least
    <3> QED
      BY <3>1 DEF Min
  <2> DEFINE lo == Min(T)
             hi == Max(T)
  <2>3. lo \in 1..Len(b) /\ hi \in 1..Len(b)
    BY <1>2, <2>1, <2>2
  <2> HIDE DEF lo, hi
  <2>4. lo \in Nat /\ lo >= 1 /\ hi \in Nat /\ hi <= Len(b) /\ Len(b) <= Len(b)
    BY <1>1, <2>3
  <2>5. SubSeq(b, lo, Len(b)) \in Text /\ SubSeq(b, lo, hi) \in Text
    BY <1>1, <2>4, PieceTyped
  <2> QED
    BY <1>5, <2>5 DEF Stripped, Trimmed, T, lo, hi
<1> QED
  BY <1>4, <1>5

(* ... what is inside the tags and behind them, ...                        *)
LEMMA BetweenTags ==
  ASSUME NEW b \in Text PROVE Inside(b) \in Text /\ Behind(b) \in Text
<1>1. Len(b) \in Nat /\ Len(b) <= Len(b)
  BY DEF Text
<1>2. CASE Closes(b)
  <2> DEFINE k == ClosedAt(b)
  <2>1. k \in 1..Len(b)
    BY <1>2, ClosedAtTyped
  <2> HIDE DEF k
  <2>2. k - 1 \in Nat /\ k - 1 <= Len(b) /\ k + 1 \in Nat /\ k + 1 >= 1
    BY <1>1, <2>1
  <2>3. SubSeq(b, 3, k - 1) \in Text /\ SubSeq(b, k + 1, Len(b)) \in Text
    BY <1>1, <2>2, PieceTyped
  <2> QED
    BY <1>2, <2>3 DEF Inside, Behind, k
<1>3. CASE ~ Closes(b)
  <2>1. SubSeq(b, 3, Len(b)) \in Text /\ <<>> \in Text
    BY <1>1, PieceTyped DEF Text
  <2> QED
    BY <1>3, <2>1 DEF Inside, Behind
<1> QED
  BY <1>2, <1>3

(* ... and so are the thought and the answer of a think block.             *)
LEMMA ThoughtTyped ==
  ASSUME NEW b \in Text PROVE ThoughtOf(b) \in Text /\ AnswerOf(b) \in Text
<1>1. Stripped(b) \in Text
  BY InkTyped
<1>2. Inside(Stripped(b)) \in Text /\ Behind(Stripped(b)) \in Text
  BY <1>1, BetweenTags
<1> QED
  BY <1>2, InkTyped DEF ThoughtOf, AnswerOf

(* Before the end of the stream the converter may add to its texts.        *)
Ready(s, r0) ==
  Good(s, r0) /\ Live(s) /\ ~ s.message.done /\ (s.mode = "Text" => s.buffer = <<>>)
Texted(s, t, r0) == Ready(t, r0) /\ SameStatus(s, t) /\ SameCalls(s, t)

(* Nothing done is fine, ...                                               *)
LEMMA ReadyAgain ==
  ASSUME NEW s, NEW r0, Ready(s, r0) PROVE Texted(s, s, r0)
BY DEF Texted, SameStatus, SameCalls

(* ... and so is one thing after another.                                  *)
LEMMA ThenTexted ==
  ASSUME NEW s, NEW t, NEW u, NEW r0, Texted(s, t, r0), Texted(t, u, r0) PROVE Texted(s, u, r0)
BY DEF Texted, SameStatus, SameCalls

(* A delta of a text.                                                      *)
LEMMA PushReady ==
  ASSUME NEW s, NEW r0, Ready(s, r0), NEW kind \in TextKinds, NEW text \in Text
  PROVE  Texted(s, PushDelta(s, kind, text), r0)
<1> DEFINE t == PushDelta(s, kind, text)
<1>1. Good(s, r0) /\ Live(s) /\ (~ s[kind].done \/ kind = "reasoning")
  BY DEF Ready, TextKinds
<1>2. /\ Good(t, r0) /\ SameStatus(s, t) /\ SameThink(s, t) /\ SameCalls(s, t)
      /\ t[Other(kind)] = s[Other(kind)] /\ t[kind].added /\ (t[kind].done => s[kind].done)
  BY <1>1, PushDeltaGood
<1> HIDE DEF t
<1>3. ~ t.message.done
  BY <1>2 DEF Ready, TextKinds, Other
<1> QED
  BY <1>1, <1>2, <1>3 DEF Texted, Ready, Live, SameStatus, SameThink, t

(* The end of the reasoning item.                                          *)
LEMMA FinalizeReady ==
  ASSUME NEW s, NEW r0, Ready(s, r0)
  PROVE  Texted(s, Finalize(s, "reasoning"), r0)
<1> DEFINE t == Finalize(s, "reasoning")
<1>1. Good(s, r0) /\ Live(s) /\ "reasoning" \in TextKinds
  BY DEF Ready, TextKinds
<1>2. /\ Good(t, r0) /\ SameStatus(s, t) /\ SameThink(s, t) /\ SameCalls(s, t)
      /\ t[Other("reasoning")] = s[Other("reasoning")]
  BY <1>1, FinalizeGood
<1> HIDE DEF t
<1>3. t.message = s.message
  BY <1>2 DEF Other
<1> QED
  BY <1>1, <1>2, <1>3 DEF Texted, Ready, Live, SameStatus, SameThink, t

(* Another mode and another buffer.                                        *)
Thinks(s, mode, buffer) == [s EXCEPT !.mode = mode, !.buffer = buffer]

(* They are nothing to Codex.                                              *)
LEMMA ThinksReady ==
  ASSUME NEW s, NEW r0, Ready(s, r0), NEW mode \in {"Detecting", "Reasoning", "Text"},
         NEW buffer \in Text, mode = "Text" => buffer = <<>>
  PROVE  LET t == Thinks(s, mode, buffer)
         IN  Texted(s, t, r0) /\ t.mode = mode /\ t.buffer = buffer
<1> DEFINE t == Thinks(s, mode, buffer)
<1>1. s \in Converters
  BY DEF Ready, Good
<1>2. /\ t \in Converters /\ t.mode = mode /\ t.buffer = buffer /\ t.events = s.events
      /\ SameBody(s, t)
  BY <1>1 DEF Thinks, Converters, SameBody, SameStatus, SameCalls
<1> HIDE DEF t
<1>3. Good(t, r0)
  BY <1>2, AgreesKept DEF Ready, Good
<1> QED
  BY <1>2, <1>3 DEF Texted, Ready, Live, SameBody, SameStatus, t

(* The buffer is emptied.                                                  *)
LEMMA DrainedReady ==
  ASSUME NEW s, NEW r0, Ready(s, r0) PROVE Texted(s, Drained(s), r0)
<1>1. <<>> \in Text
  BY DEF Text
<1>2. Drained(s) = Thinks(s, "Text", <<>>)
  BY DEF Drained, Thinks
<1> QED
  BY <1>1, <1>2, ThinksReady

(* The thought of a think block, ...                                       *)
LEMMA ThoughtReady ==
  ASSUME NEW s, NEW r0, Ready(s, r0), NEW text \in Text
  PROVE  Texted(s, PushThought(s, text), r0)
<1>1. CASE text = <<>>
  BY <1>1, ReadyAgain DEF PushThought
<1>2. CASE text # <<>>
  <2> DEFINE t == PushDelta(s, "reasoning", text)
  <2>1. Texted(s, t, r0)
    BY PushReady DEF TextKinds
  <2>2. Texted(t, Finalize(t, "reasoning"), r0)
    BY <2>1, FinalizeReady DEF Texted
  <2>3. PushThought(s, text) = Finalize(t, "reasoning")
    BY <1>2 DEF PushThought
  <2> HIDE DEF t
  <2> QED
    BY <2>1, <2>2, <2>3, ThenTexted
<1> QED
  BY <1>1, <1>2

(* ... the answer after it, ...                                            *)
LEMMA AnswerReady ==
  ASSUME NEW s, NEW r0, Ready(s, r0), NEW text \in Text
  PROVE  Texted(s, PushAnswer(s, text), r0)
<1>1. CASE text = <<>>
  BY <1>1, ReadyAgain DEF PushAnswer
<1>2. CASE text # <<>>
  <2>1. Texted(s, PushDelta(s, "message", text), r0)
    BY PushReady DEF TextKinds
  <2> QED
    BY <1>2, <2>1 DEF PushAnswer
<1> QED
  BY <1>1, <1>2

(* ... and both.                                                           *)
LEMMA BothReady ==
  ASSUME NEW s, NEW r0, Ready(s, r0), NEW thought \in Text, NEW answer \in Text
  PROVE  Texted(s, PushAnswer(PushThought(Drained(s), thought), answer), r0)
<1> DEFINE t == Drained(s)
           u == PushThought(t, thought)
           v == PushAnswer(u, answer)
<1>1. Texted(s, t, r0)
  BY DrainedReady
<1>2. Texted(t, u, r0)
  BY <1>1, ThoughtReady DEF Texted
<1>3. Texted(u, v, r0)
  BY <1>2, AnswerReady DEF Texted
<1> HIDE DEF t, u, v
<1>4. Texted(s, v, r0)
  BY <1>1, <1>2, <1>3, ThenTexted
<1> QED
  BY <1>4 DEF v, u, t

(* Types of the think block's state.                                       *)
LEMMA BufferTyped ==
  ASSUME NEW s, NEW r0, Ready(s, r0)
  PROVE  s.buffer \in Text /\ s.mode \in {"Detecting", "Reasoning", "Text"}
BY DEF Ready, Good, Converters

(* drain_complete_inline_think_into.                                       *)
LEMMA DrainReady ==
  ASSUME NEW s, NEW r0, Ready(s, r0) PROVE Texted(s, DrainThink(s), r0)
<1>1. CASE ~ Closes(s.buffer)
  BY <1>1, ReadyAgain DEF DrainThink
<1>2. CASE Closes(s.buffer)
  <2>1. ThoughtOf(s.buffer) \in Text /\ AnswerOf(s.buffer) \in Text
    BY BufferTyped, ThoughtTyped
  <2>2. Texted(s, PushAnswer(PushThought(Drained(s), ThoughtOf(s.buffer)), AnswerOf(s.buffer)), r0)
    BY <2>1, BothReady
  <2> QED
    BY <1>2, <2>2 DEF DrainThink
<1> QED
  BY <1>1, <1>2

(* Reasoning ends where the message goes on.                               *)
LEMMA MessageReady ==
  ASSUME NEW s, NEW r0, Ready(s, r0), NEW text \in Text
  PROVE  Texted(s, PushDelta(Finalize(s, "reasoning"), "message", text), r0)
<1> DEFINE t == Finalize(s, "reasoning")
           u == PushDelta(t, "message", text)
<1>1. Texted(s, t, r0)
  BY FinalizeReady
<1>2. Texted(t, u, r0)
  BY <1>1, PushReady DEF Texted, TextKinds
<1> HIDE DEF t, u
<1>3. Texted(s, u, r0)
  BY <1>1, <1>2, ThenTexted
<1> QED
  BY <1>3 DEF u, t

(* push_content_delta_into.                                                *)
LEMMA ContentReady ==
  ASSUME NEW s, NEW r0, Ready(s, r0), NEW text \in Text
  PROVE  Texted(s, PushContent(s, text), r0)
<1> DEFINE more == s.buffer \o text
           b == [s EXCEPT !.buffer = @ \o text]
<1>1. s.buffer \in Text /\ s.mode \in {"Detecting", "Reasoning", "Text"} /\ s \in Converters
  BY BufferTyped DEF Ready, Good
<1>2. more \in Text
  BY <1>1 DEF Text
<1>3. b = Thinks(s, s.mode, more)
  BY <1>1 DEF Thinks, Converters
<1>4. CASE s.mode = "Text"
  <2>1. PushContent(s, text) = PushDelta(Finalize(s, "reasoning"), "message", text)
    BY <1>4 DEF PushContent
  <2> QED
    BY <2>1, MessageReady
<1>5. ASSUME s.mode # "Text" PROVE Texted(s, b, r0) /\ b.buffer = more /\ b.mode = s.mode
  <2> HIDE DEF more, b
  <2> QED
    BY <1>1, <1>2, <1>3, <1>5, ThinksReady
<1> HIDE DEF more
<1>6. CASE s.mode = "Reasoning"
  <2>1. PushContent(s, text) = DrainThink(b)
    BY <1>6 DEF PushContent
  <2> HIDE DEF b
  <2>2. Texted(b, DrainThink(b), r0)
    BY <1>5, <1>6, DrainReady DEF Texted
  <2> QED
    BY <1>5, <1>6, <2>1, <2>2, ThenTexted
<1>7. CASE s.mode = "Detecting"
  <2>1. CASE Opens(b.buffer)
    <3> DEFINE o == [b EXCEPT !.mode = "Reasoning"]
    <3>1. PushContent(s, text) = DrainThink(o)
      <4>1. ~ MayOpen(b.buffer)
        <5> HIDE DEF b
        <5> QED
          BY <2>1 DEF MayOpen, Opens
      <4> QED
        BY <1>7, <2>1, <4>1 DEF PushContent
    <3>2. o = Thinks(s, "Reasoning", more)
      BY <1>1, <1>3 DEF Thinks, Converters
    <3> HIDE DEF o, b
    <3>3. Texted(s, o, r0)
      BY <1>2, <3>2, ThinksReady
    <3>4. Texted(o, DrainThink(o), r0)
      BY <3>3, DrainReady DEF Texted
    <3> QED
      BY <3>1, <3>3, <3>4, ThenTexted
  <2>2. CASE ~ Opens(b.buffer) /\ MayOpen(b.buffer)
    <3>1. PushContent(s, text) = b
      BY <1>7, <2>2 DEF PushContent
    <3> QED
      BY <1>5, <1>7, <3>1
  <2>3. CASE ~ Opens(b.buffer) /\ ~ MayOpen(b.buffer)
    <3>1. PushContent(s, text) = PushDelta(Finalize(Drained(b), "reasoning"), "message", b.buffer)
      BY <1>7, <2>3 DEF PushContent
    <3> HIDE DEF b
    <3>2. Texted(b, Drained(b), r0)
      BY <1>5, <1>7, DrainedReady DEF Texted
    <3>3. Texted(Drained(b), PushDelta(Finalize(Drained(b), "reasoning"), "message", b.buffer), r0)
      BY <1>2, <1>5, <1>7, <3>2, MessageReady DEF Texted
    <3> QED
      BY <1>5, <1>7, <3>1, <3>2, <3>3, ThenTexted
  <2> QED
    BY <2>1, <2>2, <2>3
<1> QED
  BY <1>1, <1>4, <1>6, <1>7

(* flush_inline_think_at_boundary_into.                                    *)
LEMMA FlushReady ==
  ASSUME NEW s, NEW r0, Ready(s, r0) PROVE Texted(s, FlushThink(s), r0)
<1> DEFINE t == Drained(s)
           b == s.buffer
<1>1. b \in Text /\ s.mode \in {"Detecting", "Reasoning", "Text"}
  BY BufferTyped
<1>2. CASE s.mode = "Text"
  BY <1>2, ReadyAgain DEF FlushThink
<1>3. CASE s.mode = "Reasoning"
  <2>1. FlushThink(s) = PushAnswer(PushThought(t, ThoughtOf(b)), AnswerOf(b))
    BY <1>3 DEF FlushThink
  <2> QED
    BY <1>1, <2>1, ThoughtTyped, BothReady
<1>4. CASE s.mode = "Detecting"
  <2>1. FlushThink(s) = IF b = <<>> THEN t ELSE PushDelta(Finalize(t, "reasoning"), "message", b)
    BY <1>4 DEF FlushThink
  <2>2. Texted(s, t, r0)
    BY DrainedReady
  <2> HIDE DEF t, b
  <2>3. Texted(t, PushDelta(Finalize(t, "reasoning"), "message", b), r0)
    BY <1>1, <2>2, MessageReady DEF Texted
  <2> QED
    BY <2>1, <2>2, <2>3, ThenTexted
<1> QED
  BY <1>1, <1>2, <1>3, <1>4

-----------------------------------------------------------------------------
(* One delta of a tool call.                                               *)

(* The upstream gives a call its name once.                                *)
MayFollow(s, d) ==
  d \in CallDeltas /\ (d.name # "" => s.tools[d.index].name \in {"", "unknown_tool"})

(* What the delta of a call has.                                           *)
LEMMA DeltaParts ==
  ASSUME NEW d \in CallDeltas
  PROVE  /\ d.index \in Calls /\ d.id \in BOOLEAN /\ d.name \in {"", "shell", CustomName}
         /\ d.arguments \in Text /\ d.name \in Word
<1>1. d.index \in Calls /\ d.id \in BOOLEAN /\ d.name \in {"", "shell", CustomName}
         /\ d.arguments \in {<<>>, <<"a">>}
  BY DEF CallDeltas
<1>2. <<>> \in Text /\ <<"a">> \in Text
  <2>1. "a" \in Word
    BY DEF Word
  <2> QED
    BY <2>1 DEF Text
<1>3. d.name \in Word
  BY <1>1 DEF Word
<1> QED
  BY <1>1, <1>2, <1>3

(* Texts joined are a text.                                                *)
LEMMA JoinedTyped ==
  ASSUME NEW a \in Text, NEW b \in Text PROVE Joined(a, b) \in Text
BY DEF Joined, Text

(* The call with what the delta brings.                                    *)
CallWith(old, d) ==
  [old EXCEPT !.call = IF d.id /\ ~ old.added THEN "given" ELSE @,
              !.name = IF d.name # "" THEN d.name ELSE @,
              !.text = @ \o d.arguments]

(* What a delta changes of its call.                                       *)
LEMMA CallWithFacts ==
  ASSUME NEW old \in CallFields, NEW d \in CallDeltas, NEW call, call = CallWith(old, d)
  PROVE  /\ call \in CallFields /\ (call.added <=> old.added) /\ (call.done <=> old.done)
         /\ call.index = old.index /\ call.id = old.id
         /\ call.call = (IF d.id /\ ~ old.added THEN "given" ELSE old.call)
         /\ call.name = (IF d.name # "" THEN d.name ELSE old.name)
         /\ call.text = Joined(old.text, d.arguments)
<1> DEFINE id1 == IF d.id /\ ~ old.added THEN "given" ELSE old.call
           name1 == IF d.name # "" THEN d.name ELSE old.name
           text1 == Joined(old.text, d.arguments)
<1>1. old.call \in Word /\ old.name \in Word /\ old.text \in Text
  BY DEF CallFields
<1>2. id1 \in Word /\ name1 \in Word /\ text1 \in Text
  <2>1. "given" \in Word
    BY DEF Word
  <2>2. text1 \in Text
    BY <1>1, DeltaParts, JoinedTyped
  <2> HIDE DEF text1
  <2> QED
    BY <1>1, <2>1, <2>2, DeltaParts
<1>3. call = [old EXCEPT !.call = id1, !.name = name1, !.text = text1]
  BY DEF CallWith, Joined
<1> HIDE DEF id1, name1, text1
<1>4. /\ call \in CallFields /\ (call.added <=> old.added) /\ (call.done <=> old.done)
      /\ call.index = old.index /\ call.id = old.id
      /\ call.call = id1 /\ call.name = name1 /\ call.text = text1
  BY <1>2, <1>3 DEF CallFields
<1> QED
  BY <1>4 DEF id1, name1, text1

Hearing(s, d) ==
  SetCall(s, d.index, CallWith(s.tools[d.index], d), s.seen \cup {d.index}, s.next, s.closed)
Hears(s, h, d) ==
  LET c == d.index
      call == CallWith(s.tools[c], d)
  IN  /\ h \in Converters /\ h.events = s.events /\ SameThink(s, h) /\ Heard(s, h, c)
      /\ h.tools[c] = call /\ call \in CallFields
      /\ (call.added <=> s.tools[c].added) /\ (call.done <=> s.tools[c].done)
      /\ call.index = s.tools[c].index /\ call.id = s.tools[c].id
      /\ call.call = (IF d.id /\ ~ s.tools[c].added THEN "given" ELSE s.tools[c].call)
      /\ call.name = (IF d.name # "" THEN d.name ELSE s.tools[c].name)
      /\ call.text = Joined(s.tools[c].text, d.arguments)

(* What a delta changes of the converter.                                  *)
LEMMA HearingFacts ==
  ASSUME NEW s \in Converters, NEW d \in CallDeltas
  PROVE  Hears(s, Hearing(s, d), d)
<1> DEFINE c == d.index
           call == CallWith(s.tools[c], d)
           seen == s.seen \cup {c}
           h == Hearing(s, d)
<1>1. c \in Calls
  BY DeltaParts
<1>2. s.tools[c] \in CallFields /\ s.next \in Nat /\ s.closed \in Seq(ClosedItem) /\ seen \in SUBSET Calls
  BY <1>1, CallTyped
<1>3. /\ call \in CallFields /\ (call.added <=> s.tools[c].added) /\ (call.done <=> s.tools[c].done)
      /\ call.index = s.tools[c].index /\ call.id = s.tools[c].id
      /\ call.call = (IF d.id /\ ~ s.tools[c].added THEN "given" ELSE s.tools[c].call)
      /\ call.name = (IF d.name # "" THEN d.name ELSE s.tools[c].name)
      /\ call.text = Joined(s.tools[c].text, d.arguments)
  BY <1>2, CallWithFacts
<1>4. h = SetCall(s, c, call, seen, s.next, s.closed)
  BY DEF Hearing
<1> HIDE DEF c, call, seen, h
<1>5. /\ h \in Converters /\ h.events = s.events
      /\ SameStatus(s, h) /\ SameThink(s, h) /\ SameTexts(s, h)
      /\ h.tools[c] = call /\ OtherCalls(s, h, c)
      /\ h.seen = seen /\ h.next = s.next /\ h.closed = s.closed
  <2>1. CallSet(s, h, c, call, seen, s.next, s.closed)
    BY <1>1, <1>2, <1>3, <1>4, SetCallFacts
  <2> QED
    BY <2>1 DEF CallSet
<1>6. s.seen \subseteq seen /\ c \in seen
  BY DEF seen
<1> QED
  BY <1>3, <1>5, <1>6 DEF Hears, Heard, c, call, h

(* A call without a name that is not announced yet.                        *)
LEMMA UnheardAgrees ==
  ASSUME NEW s, NEW r, Agrees(s, r, {}), NEW c \in Calls, ~ s.tools[c].added,
         NEW h, Heard(s, h, c), ~ h.tools[c].added, ~ h.tools[c].done, h.tools[c].name = ""
  PROVE  Agrees(h, r, {})
<1>1. CallPart(h, r, c, {})
  BY DEF CallPart
<1>2. ASSUME NEW d \in Calls, d # c PROVE CallPart(h, r, d, {})
  <2>1. CallPart(s, r, d, {})
    BY DEF Agrees
  <2>2. h.tools[d] = s.tools[d] /\ s.seen \subseteq h.seen /\ h.custom = s.custom
    BY <1>2 DEF Heard, OtherCalls, SameStatus
  <2> QED
    BY <2>1, <2>2, CallKept DEF SameItem
<1>3. Status(h, r) /\ TextPart(h.message, r, "message") /\ TextPart(h.reasoning, r, "reasoning")
  BY DEF Agrees, Status, Heard, SameStatus, SameTexts
<1>4. \A d \in Calls : /\ (h.tools[d].added <=> s.tools[d].added)
                       /\ s.tools[d].added => h.tools[d] = s.tools[d]
  BY DEF Heard, OtherCalls
<1>5. Distinct(h) /\ Owned(h, r)
  <2>1. Distinct(s) /\ Owned(s, r) /\ h.message = s.message /\ h.reasoning = s.reasoning
    BY DEF Agrees, Heard, SameTexts
  <2>2. Distinct(h)
    BY <1>4, <2>1 DEF Distinct
  <2>3. \A i : Owner(s, i) => Owner(h, i)
    BY <1>4, <2>1 DEF Owner
  <2> QED
    BY <2>1, <2>2, <2>3 DEF Owned
<1>6. ClosedPart(h, r)
  <2>1. ClosedPart(s, r) /\ h.closed = s.closed
    BY DEF Agrees, Heard
  <2>2. ASSUME NEW k \in DOMAIN h.closed
        PROVE  LET i == h.closed[k].index
               IN  i \in DOMAIN r.items /\ r.items[i].closed = 1
                     /\ ClosedText(h, r.items[i], i, h.closed[k].text)
    <3> DEFINE i == s.closed[k].index
               a == s.closed[k].text
    <3>1. i \in DOMAIN r.items /\ r.items[i].closed = 1 /\ ClosedText(s, r.items[i], i, a)
      BY <2>1 DEF ClosedPart
    <3> HIDE DEF i, a
    <3>2. ClosedText(h, r.items[i], i, a)
      BY <1>4, <3>1 DEF ClosedText
    <3> QED
      BY <2>1, <3>1, <3>2 DEF i, a
  <2> QED
    BY <2>1, <2>2 DEF ClosedPart
<1> QED
  BY <1>1, <1>2, <1>3, <1>5, <1>6 DEF Agrees

(* One delta of a call.                                                    *)
CallChanged(s, t, c) ==
  /\ SameStatus(s, t) /\ SameThink(s, t) /\ SameTexts(s, t) /\ OtherCalls(s, t, c)
  /\ ~ t.tools[c].done

(* The arguments of a call keep the events in step, ...                    *)
LEMMA ArgumentsGood ==
  ASSUME NEW s \in Converters, NEW r0, NEW r \in Readers, Led(r0, s.events, r),
         NEW c \in Calls, Agrees(s, r, {c}), Live(s), s.tools[c].added, ~ s.tools[c].done,
         s.custom => s.tools[c].name # "unknown_tool",
         NEW text \in Text, Pending(s, r, c, text), NEW t, t = ArgumentsDelta(s, c, text)
  PROVE  Good(t, r0) /\ CallChanged(s, t, c)
<1>1. s.started /\ ~ s.completed
  BY DEF Live
<1> DEFINE e == DeltaEvent(s.tools[c], text)
<1>2. CASE t = s /\ Agrees(s, r, {})
  BY <1>2 DEF Good, CallChanged, SameStatus, SameThink, SameTexts, OtherCalls
<1>3. CASE /\ e \in Events /\ Legal(r, e) /\ t \in Converters
           /\ t.events = Append(s.events, e)
           /\ SameBody(s, t) /\ SameThink(s, t) /\ Agrees(t, ReadOn(r, e), {})
  <2> HIDE DEF e
  <2>1. Led(r0, t.events, ReadOn(r, e))
    BY <1>1, <1>3, OneMore
  <2>2. Good(t, r0)
    BY <1>3, <2>1 DEF Good
  <2> QED
    BY <1>3, <2>2 DEF CallChanged, SameBody, SameTexts, OtherCalls, SameCalls
<1> QED
  BY <1>1, <1>2, <1>3, ArgumentsAgree

(* What one call may change, two steps may.                                *)
LEMMA Onwards ==
  ASSUME NEW s, NEW t, NEW u, NEW c,
         SameStatus(s, t), SameThink(s, t), SameTexts(s, t), OtherCalls(s, t, c),
         SameStatus(t, u), SameThink(t, u), SameTexts(t, u), OtherCalls(t, u, c)
  PROVE  SameStatus(s, u) /\ SameThink(s, u) /\ SameTexts(s, u) /\ OtherCalls(s, u, c)
BY DEF SameStatus, SameThink, SameTexts, OtherCalls

(* What push_tool_call_delta_into does, by the converter that has heard    *)
(* the delta.                                                              *)
LEMMA PushedAs ==
  ASSUME NEW s, NEW d, NEW h, NEW call, call = CallWith(s.tools[d.index], d),
         h = [s EXCEPT !.tools[d.index] = call, !.seen = s.seen \cup {d.index}]
  PROVE  PushToolCall(s, d) =
           IF s.tools[d.index].added THEN ArgumentsDelta(h, d.index, d.arguments)
           ELSE IF Announces(s, call) THEN ArgumentsDelta(Announce(h, d.index), d.index, call.text)
           ELSE h
<1>1. call = [s.tools[d.index] EXCEPT !.call = IF d.id /\ ~ s.tools[d.index].added THEN "given" ELSE @,
                                      !.name = IF d.name # "" THEN d.name ELSE @,
                                      !.text = @ \o d.arguments]
  BY DEF CallWith
<1> QED
  BY <1>1 DEF PushToolCall

(* ... and so does any delta of a call (push_tool_call_delta_into).        *)
LEMMA PushToolCallGood ==
  ASSUME NEW s, NEW r0, Good(s, r0), Live(s), NEW d, MayFollow(s, d), ~ s.tools[d.index].done,
         NEW t, t = PushToolCall(s, d)
  PROVE  Good(t, r0) /\ CallChanged(s, t, d.index)
<1> DEFINE c == d.index
           old == s.tools[c]
           call == CallWith(old, d)
           h == Hearing(s, d)
<1>1. PICK r : Led(r0, s.events, r) /\ Agrees(s, r, {})
  BY DEF Good
<1>2. s \in Converters /\ r \in Readers /\ s.started /\ ~ s.completed
  BY <1>1, LedTyped DEF Good, Live
<1>3. c \in Calls /\ d \in CallDeltas /\ d.arguments \in Text /\ d.name \in {"", "shell", CustomName}
  BY DeltaParts DEF MayFollow
<1>4. Hears(s, h, d)
  BY <1>2, <1>3, HearingFacts
<1>5. t = IF old.added THEN ArgumentsDelta(h, c, d.arguments)
          ELSE IF Announces(s, call) THEN ArgumentsDelta(Announce(h, c), c, call.text)
          ELSE h
  <2>1. [s EXCEPT !.tools[c] = call, !.seen = @ \cup {c}] = h
    <3> HIDE DEF call
    <3>1. h = [s EXCEPT !.tools[c] = call, !.seen = s.seen \cup {c}, !.next = s.next, !.closed = s.closed]
      BY DEF Hearing, SetCall, call
    <3> HIDE DEF h, c
    <3> QED
      BY <1>2, <3>1 DEF Converters
  <2> QED
    BY <2>1, PushedAs
<1> HIDE DEF h
<1>6. /\ h \in Converters /\ h.events = s.events /\ SameThink(s, h) /\ Heard(s, h, c)
      /\ h.tools[c] = call /\ call \in CallFields
      /\ (call.added <=> old.added) /\ ~ call.done
      /\ call.index = old.index /\ call.id = old.id
      /\ call.call = (IF d.id /\ ~ old.added THEN "given" ELSE old.call)
      /\ call.name = (IF d.name # "" THEN d.name ELSE old.name)
      /\ call.text = Joined(old.text, d.arguments)
  BY <1>4 DEF Hears
<1>7. Live(h) /\ SameStatus(s, h) /\ SameTexts(s, h) /\ OtherCalls(s, h, c) /\ h.custom = s.custom
  BY <1>2, <1>6 DEF Heard, SameStatus, Live
<1>8. CallPart(s, r, c, {}) /\ ~ old.done /\ (d.name # "" => old.name \in {"", "unknown_tool"})
  BY <1>1, <1>3 DEF Agrees, MayFollow
<1> HIDE DEF call, old, c
<1>9. CASE old.added
  <2>1. old.name # ""
    BY <1>8, <1>9 DEF CallPart, old
  <2>2. call.name = old.name \/ (old.name = "unknown_tool" /\ call.name # "")
    BY <1>6, <1>8, <2>1
  <2>3. call.call = old.call /\ call.added
    BY <1>6, <1>9
  <2>4. /\ Agrees(h, r, {c}) /\ Pending(h, r, c, d.arguments)
        /\ h.custom => h.tools[c].name # "unknown_tool"
    BY <1>1, <1>2, <1>3, <1>6, <1>8, <1>9, <2>2, <2>3, HeardAgrees DEF old
  <2>5. Led(r0, h.events, r) /\ h.tools[c].added /\ ~ h.tools[c].done
    BY <1>1, <1>6, <2>3
  <2>6. t = ArgumentsDelta(h, c, d.arguments)
    BY <1>5, <1>9
  <2>7. Good(t, r0) /\ CallChanged(h, t, c)
    BY <1>2, <1>3, <1>6, <1>7, <2>4, <2>5, <2>6, ArgumentsGood
  <2> QED
    BY ONLY <1>6, <1>7, <2>7, Onwards DEF CallChanged, c
<1>10. CASE ~ old.added /\ Announces(s, call)
  <2> DEFINE u == Announce(h, c)
             e == AnnouncedEvent(h, u, c)
             q == ReadOn(r, e)
             new == u.tools[c]
  <2>1. ~ h.tools[c].added /\ ~ h.tools[c].done
    BY <1>6, <1>10
  <2>2. Announced(h, u, c, e)
    BY <1>3, <1>6, AnnouncedFacts
  <2>3. /\ Legal(r, e) /\ Agrees(u, q, {c}) /\ q.items[new.index].text = <<>>
    <3>1. ~ s.tools[c].added /\ Heard(s, h, c) /\ h \in Converters
      BY <1>6, <1>10 DEF old
    <3> QED
      BY <1>1, <1>2, <1>3, <2>1, <3>1, AnnouncedAgrees, ZenonT(40)
  <2>4. t = ArgumentsDelta(u, c, call.text)
    BY <1>5, <1>10
  <2> HIDE DEF u, e, q
  <2>5. /\ e \in Events /\ u \in Converters /\ u.events = Append(h.events, e)
        /\ SameStatus(h, u) /\ SameThink(h, u) /\ SameTexts(h, u) /\ OtherCalls(h, u, c)
        /\ new.added /\ ~ new.done /\ new.text = call.text
    BY <1>6, <2>1, <2>2 DEF Announced
  <2>6. new.name = IF call.name = "" THEN "unknown_tool" ELSE call.name
    BY <1>6, <2>2 DEF Announced
  <2>7. Led(r0, u.events, q) /\ q \in Readers
    <3>1. u.events = Append(s.events, e)
      BY <1>6, <2>5
    <3>2. Led(r0, u.events, q)
      BY <1>1, <1>2, <2>3, <2>5, <3>1, OneMore DEF q
    <3> QED
      BY <3>2, LedTyped
  <2>8. u.custom => new.name # "unknown_tool"
    <3>1. old.name = ""
      BY <1>8, <1>10 DEF CallPart, old
    <3>2. call.name = d.name
      BY <1>6, <3>1
    <3>3. u.custom = s.custom /\ (s.custom => call.name # "")
      BY <1>7, <1>10, <2>5 DEF SameStatus, Announces
    <3> QED
      BY <1>3, <2>6, <3>2, <3>3 DEF CustomName
  <2>9. call.text \in Text
    BY <1>6 DEF CallFields
  <2>10. Pending(u, q, c, call.text)
    BY <2>3, <2>5, <2>9, JoinedEmpty DEF Pending
  <2>11. Live(u)
    BY <1>7, <2>5 DEF Live, SameStatus
  <2>12. Good(t, r0) /\ CallChanged(u, t, c)
    BY <1>3, <2>3, <2>4, <2>5, <2>7, <2>8, <2>9, <2>10, <2>11, ArgumentsGood
  <2> QED
    <3>1. SameStatus(s, u) /\ SameThink(s, u) /\ SameTexts(s, u) /\ OtherCalls(s, u, c)
      BY ONLY <1>6, <1>7, <2>5, Onwards
    <3> QED
      BY ONLY <2>12, <3>1, Onwards DEF CallChanged, c
<1>11. CASE ~ old.added /\ ~ Announces(s, call)
  <2>1. t = h
    BY <1>5, <1>11
  <2>2. call.name = ""
    BY <1>11 DEF Announces
  <2>3. Agrees(h, r, {})
    BY <1>1, <1>3, <1>6, <1>11, <2>2, UnheardAgrees DEF old
  <2>4. Good(h, r0)
    BY <1>1, <1>6, <2>3 DEF Good
  <2> QED
    BY <1>6, <1>7, <2>1, <2>4 DEF CallChanged, c
<1> QED
  BY <1>9, <1>10, <1>11

-----------------------------------------------------------------------------
(* The end of the tool calls.                                              *)

(* Nothing due is the least that can be due.                               *)
LEMMA AgreesLate ==
  ASSUME NEW s, NEW r, NEW late, Agrees(s, r, {}) PROVE Agrees(s, r, late)
<1>1. \A c \in Calls : CallPart(s, r, c, {}) => CallPart(s, r, c, late)
  BY DEF CallPart
<1> QED
  BY <1>1 DEF Agrees

(* A call is closed, and only that one.                                    *)
Shutdown(s, t, c) ==
  /\ SameStatus(s, t) /\ SameThink(s, t) /\ SameTexts(s, t) /\ OtherCalls(s, t, c)
  /\ t.seen = s.seen
  /\ c \in s.seen => t.tools[c].added /\ t.tools[c].done

(* Closing an announced call keeps the events in step, ...                 *)
LEMMA CloseCallGood ==
  ASSUME NEW s \in Converters, NEW r0, NEW r \in Readers, Led(r0, s.events, r),
         NEW c \in Calls, Agrees(s, r, {c}), Live(s), s.tools[c].added, ~ s.tools[c].done,
         \/ r.items[s.tools[c].index].text = s.tools[c].text
         \/ r.items[s.tools[c].index].text = <<>> /\ s.tools[c].name = "unknown_tool",
         NEW t, t = CloseCall(s, c)
  PROVE  Good(t, r0) /\ Shutdown(s, t, c)
<1> DEFINE e == ClosedCallEvent(s, c)
           x == ClosedCallItem(s, c)
<1>1. CallClosed(s, t, c, e, x)
  BY ClosedCallFacts
<1>2. Legal(r, e) /\ Agrees(t, ReadOn(r, e), {})
  BY CloseCallAgrees DEF Live
<1> HIDE DEF e, x
<1>3. e \in Events /\ t \in Converters /\ t.events = Append(s.events, e)
  BY <1>1 DEF CallClosed
<1>4. Led(r0, t.events, ReadOn(r, e))
  BY <1>2, <1>3, OneMore DEF Live
<1>5. Shutdown(s, t, c)
  BY <1>1 DEF CallClosed, Shutdown
<1> QED
  BY <1>2, <1>3, <1>4, <1>5 DEF Good

(* ... and so does closing any call, announced late or not heard of at     *)
(* all.                                                                    *)
LEMMA FinalizeToolGood ==
  ASSUME NEW s, NEW r0, Good(s, r0), Live(s), NEW c, NEW t, t = FinalizeTool(s, c)
  PROVE  Good(t, r0) /\ Shutdown(s, t, c)
<1>1. PICK r : Led(r0, s.events, r) /\ Agrees(s, r, {})
  BY DEF Good
<1>2. s \in Converters /\ r \in Readers /\ s.started /\ ~ s.completed /\ s.seen \subseteq Calls
  BY <1>1, LedTyped DEF Good, Live, Converters
<1> DEFINE u == IF s.tools[c].added THEN s ELSE Announce(s, c)
           call == u.tools[c]
           v == IF IsCustom(u, call.name) THEN Emit(u, DeltaEvent(call, call.text)) ELSE u
<1>3. CASE c \notin s.seen
  BY <1>3 DEF FinalizeTool, Shutdown, SameStatus, SameThink, SameTexts, OtherCalls
<1>4. CASE c \in s.seen /\ s.tools[c].done
  <2>1. t = s /\ s.tools[c].added
    <3>1. CallPart(s, r, c, {})
      BY <1>1, <1>2, <1>4 DEF Agrees
    <3> QED
      BY <1>4, <3>1 DEF FinalizeTool, CallPart
  <2> QED
    BY <1>4, <2>1 DEF Shutdown, SameStatus, SameThink, SameTexts, OtherCalls
<1>5. ASSUME c \in s.seen, ~ s.tools[c].done
      PROVE  t = Emit([v EXCEPT !.tools[c].done = TRUE,
                                !.closed = Append(@, [index |-> call.index, text |-> call.text])],
                      [ev |-> "done", index |-> call.index, id |-> ItemId(u, call)])
  BY <1>5 DEF FinalizeTool
<1>6. ASSUME c \in s.seen, ~ s.tools[c].done, v.tools = u.tools, v.custom = u.custom
      PROVE  t = CloseCall(v, c)
  <2> HIDE DEF v, u
  <2>1. ItemId(v, v.tools[c]) = ItemId(u, call)
    BY <1>6 DEF ItemId, CallKind, IsCustom
  <2> QED
    BY <1>5, <1>6, <2>1 DEF CloseCall, ClosedCallItem, ClosedCallEvent
<1>7. CASE c \in s.seen /\ ~ s.tools[c].done /\ s.tools[c].added
  <2>1. u = s /\ c \in Calls
    BY <1>2, <1>7
  <2>2. CallPart(s, r, c, {})
    BY <1>1, <2>1 DEF Agrees
  <2> DEFINE i == s.tools[c].index
  <2>3. i \in DOMAIN r.items /\ CallText(s, s.tools[c], r.items[i])
    BY <1>7, <2>2 DEF CallPart
  <2>4. s.tools[c].text \in Text
    BY <1>2, <2>1, CallTyped DEF CallFields
  <2>5. CASE ~ IsCustom(s, s.tools[c].name)
    <3>1. v = s
      BY <2>1, <2>5
    <3>2. t = CloseCall(s, c)
      BY <1>6, <1>7, <2>1, <3>1
    <3>3. r.items[i].text = s.tools[c].text
      BY <1>7, <2>3, <2>5 DEF CallText
    <3>4. Agrees(s, r, {c})
      BY <1>1, AgreesLate
    <3> HIDE DEF u, v, i
    <3> QED
      BY <1>1, <1>2, <1>7, <2>1, <3>2, <3>3, <3>4, CloseCallGood DEF i
  <2>6. CASE IsCustom(s, s.tools[c].name)
    <3> DEFINE e == DeltaEvent(s.tools[c], s.tools[c].text)
               q == ReadOn(r, e)
    <3>1. v = Emit(s, e)
      BY <2>1, <2>6
    <3> HIDE DEF v, u, e
    <3>2. GrewCall(s, r, {}, c, s.tools[c].text, v, e)
      BY <1>1, <1>2, <1>7, <2>1, <2>4, <3>1, CallDeltaAgrees DEF e
    <3>3. /\ e \in Events /\ Legal(r, e) /\ v \in Converters /\ SameBody(s, v)
          /\ v.events = Append(s.events, e) /\ SameThink(s, v)
          /\ Agrees(v, q, {} \cup {c})
          /\ q.items[i].text = Joined(r.items[i].text, s.tools[c].text)
      BY <3>2 DEF GrewCall
    <3>4. v.tools = s.tools /\ v.custom = s.custom /\ Agrees(v, q, {c}) /\ SameStatus(s, v)
      <4>1. {} \cup {c} = {c}
        OBVIOUS
      <4> QED
        BY <3>3, <4>1 DEF SameBody, SameCalls, SameStatus
    <3>5. t = CloseCall(v, c)
      BY <1>6, <1>7, <2>1, <3>4
    <3>6. q.items[i].text = v.tools[c].text
      <4>1. r.items[i].text = <<>>
        BY <1>7, <2>3, <2>6 DEF CallText
      <4> QED
        BY <2>4, <3>3, <3>4, <4>1, JoinedEmpty
    <3>7. Led(r0, v.events, q) /\ q \in Readers
      <4>1. Led(r0, v.events, q)
        BY <1>1, <1>2, <3>3, OneMore
      <4> QED
        BY <4>1, LedTyped
    <3>8. Live(v)
      BY <3>4 DEF Live, SameStatus
    <3> HIDE DEF q
    <3>9. Good(t, r0) /\ Shutdown(v, t, c)
      BY <1>7, <2>1, <3>3, <3>4, <3>5, <3>6, <3>7, <3>8, CloseCallGood
    <3> QED
      BY <3>3, <3>4, <3>9 DEF Shutdown, SameBody, SameCalls, SameStatus, SameThink, SameTexts, OtherCalls
  <2> QED
    BY <2>5, <2>6
<1>8. CASE c \in s.seen /\ ~ s.tools[c].done /\ ~ s.tools[c].added
  <2> DEFINE e == AnnouncedEvent(s, u, c)
             q == ReadOn(r, e)
  <2>1. u = Announce(s, c) /\ c \in Calls
    BY <1>2, <1>8
  <2>2. s.tools[c].name = ""
    BY <1>1, <1>8, <2>1 DEF Agrees, CallPart
  <2> HIDE DEF u, v
  <2>3. Announced(s, u, c, e)
    BY <1>2, <2>1, AnnouncedFacts
  <2>4. /\ e \in Events /\ u \in Converters /\ u.events = Append(s.events, e)
        /\ SameStatus(s, u) /\ SameThink(s, u) /\ SameTexts(s, u) /\ OtherCalls(s, u, c)
        /\ u.seen = s.seen
        /\ u.tools[c].added /\ ~ u.tools[c].done /\ u.tools[c].name = "unknown_tool"
    BY <1>8, <2>2, <2>3 DEF Announced
  <2>5. Heard(s, s, c)
    BY <1>8 DEF Heard, SameStatus, SameTexts, OtherCalls
  <2>6. /\ Legal(r, e) /\ Agrees(u, q, {c}) /\ q.items[u.tools[c].index].text = <<>>
    BY <1>1, <1>2, <1>8, <2>1, <2>5, AnnouncedAgrees
  <2>7. v = u
    BY <2>4 DEF v, IsCustom, CustomName
  <2>8. t = CloseCall(u, c)
    BY <1>6, <1>8, <2>7
  <2> HIDE DEF e
  <2>9. Led(r0, u.events, q) /\ q \in Readers
    <3>1. Led(r0, u.events, q)
      BY <1>1, <1>2, <2>4, <2>6, OneMore
    <3> QED
      BY <3>1, LedTyped
  <2>10. Live(u)
    BY <1>2, <2>4 DEF Live, SameStatus
  <2> HIDE DEF q
  <2>11. Good(t, r0) /\ Shutdown(u, t, c)
    BY <2>1, <2>4, <2>6, <2>8, <2>9, <2>10, CloseCallGood
  <2> QED
    BY <2>4, <2>11 DEF Shutdown, SameStatus, SameThink, SameTexts, OtherCalls
<1> QED
  BY <1>3, <1>4, <1>7, <1>8

(* The calls are closed one after another.                                 *)
Chain(f, s, count) ==
  f = [n \in 0..count |-> IF n = 0 THEN s ELSE FinalizeTool(f[n - 1], n - 1)]

(* Finalizing call after call is well defined, ...                         *)
LEMMA ChainThere ==
  ASSUME NEW s, NEW count \in Nat PROVE \E f : Chain(f, s, count)
<1> DEFINE T == {k \in Nat : ~ \E f : Chain(f, s, k)}
<1>1. SUFFICES ASSUME T # {} PROVE FALSE
  OBVIOUS
<1>2. PICK k \in T : \A y \in T : k <= y
  <2>1. T \subseteq Nat
    OBVIOUS
  <2> HIDE DEF T
  <2> QED
    BY <1>1, <2>1, Least
<1>3. k # 0
  <2> DEFINE f == [n \in 0..0 |-> s]
  <2>1. f = [n \in 0..0 |-> IF n = 0 THEN s ELSE FinalizeTool(f[n - 1], n - 1)]
    OBVIOUS
  <2>2. Chain(f, s, 0)
    BY <2>1 DEF Chain
  <2> QED
    BY <2>2
<1>4. k - 1 \in Nat /\ k - 1 \notin T
  BY <1>2, <1>3
<1>5. PICK f : Chain(f, s, k - 1)
  BY <1>4
<1> DEFINE g == [n \in 0..k |-> IF n = k THEN FinalizeTool(f[k - 1], k - 1) ELSE f[n]]
<1>6. ASSUME NEW n \in 0..k
      PROVE  g[n] = IF n = 0 THEN s ELSE FinalizeTool(g[n - 1], n - 1)
  <2>1. CASE n = k
    <3>1. g[n] = FinalizeTool(f[k - 1], k - 1) /\ g[n - 1] = f[k - 1]
      BY <1>3, <1>4, <2>1
    <3> QED
      BY <1>3, <2>1, <3>1
  <2>2. CASE n # k
    <3>1. n \in 0..(k - 1) /\ g[n] = f[n] /\ (n # 0 => g[n - 1] = f[n - 1])
      BY <1>4, <2>2
    <3>2. f[n] = IF n = 0 THEN s ELSE FinalizeTool(f[n - 1], n - 1)
      BY <1>5, <3>1 DEF Chain
    <3> QED
      BY <3>1, <3>2
  <2> QED
    BY <2>1, <2>2
<1>7. Chain(g, s, k)
  <2>1. g = [n \in 0..k |-> g[n]]
    OBVIOUS
  <2> HIDE DEF g
  <2> QED
    BY <1>6, <2>1 DEF Chain
<1> QED
  BY <1>2, <1>7

(* ... and is what FinalizeTools does.                                     *)
LEMMA FinalizeToolsIs ==
  ASSUME NEW s
  PROVE  LET count == Max(Calls \cup {0}) + 1
         IN  /\ count \in Nat /\ \A c \in Calls : c \in Nat /\ c < count
             /\ \E f : Chain(f, s, count) /\ FinalizeTools(s) = f[count]
<1> DEFINE S == Calls \cup {0}
           count == Max(S) + 1
<1>1. S \subseteq Nat /\ IsFiniteSet(S) /\ S # {}
  BY ChatStreamAssumption, FS_AddElement
<1> HIDE DEF S
<1>2. Max(S) \in S /\ \A x \in S : x <= Max(S)
  BY <1>1, Largest
<1>3. count \in Nat /\ \A c \in Calls : c \in Nat /\ c < count
  <2> DEFINE m == Max(S)
  <2>1. m \in Nat /\ \A x \in S : x <= m
    BY <1>1, <1>2
  <2> HIDE DEF m
  <2>2. m + 1 \in Nat /\ \A c \in Calls : c \in Nat /\ c < m + 1
    BY <1>1, <2>1 DEF S
  <2> QED
    BY <2>2 DEF m
<1> DEFINE f == CHOOSE f : f = [n \in 0..count |-> IF n = 0 THEN s ELSE FinalizeTool(f[n - 1], n - 1)]
<1>4. Chain(f, s, count)
  <2> HIDE DEF count
  <2>1. PICK g : Chain(g, s, count)
    BY <1>3, ChainThere
  <2> QED
    BY <2>1 DEF Chain
<1>5. FinalizeTools(s) = f[count]
  BY DEF FinalizeTools, S
<1> HIDE DEF f, count
<1>6. count \in Nat /\ (\A c \in Calls : c \in Nat /\ c < count)
         /\ \E g : Chain(g, s, count) /\ FinalizeTools(s) = g[count]
  BY <1>3, <1>4, <1>5
<1> QED
  BY <1>6 DEF count, S

-----------------------------------------------------------------------------
(* The final response.                                                     *)

(* Texts whose indices are 1 to n, put in the order of the indices.        *)
LEMMA InOrder ==
  ASSUME NEW closed \in Seq(ClosedItem), NEW n \in Nat,
         \A k \in DOMAIN closed : closed[k].index \in 1..n,
         \A k, l \in DOMAIN closed : closed[k].index = closed[l].index => k = l,
         \A i \in 1..n : \E k \in DOMAIN closed : closed[k].index = i
  PROVE  /\ InIndexOrder(closed) \in Seq(ClosedItem) /\ Len(InIndexOrder(closed)) = n
         /\ \A i \in 1..n : \E k \in DOMAIN closed : closed[k].index = i /\ InIndexOrder(closed)[i] = closed[k]
<1> DEFINE K == DOMAIN closed
           m == Len(closed)
           PlaceOf(i) == CHOOSE k \in K : closed[k].index = i
           Rank(j) == Cardinality({k \in K : closed[k].index <= closed[j].index})
<1>1. K = 1..m /\ m \in Nat /\ \A k \in K : closed[k] \in ClosedItem
  OBVIOUS
<1>2. \A i \in 1..n : PlaceOf(i) \in K /\ closed[PlaceOf(i)].index = i
  OBVIOUS
<1>3. \A k \in K : PlaceOf(closed[k].index) = k
  BY <1>2
<1> HIDE DEF PlaceOf
<1>4. m = n
  <2> DEFINE f == [k \in 1..m |-> closed[k].index]
  <2>1. f \in Bijection(1..m, 1..n)
    <3>1. f \in [1..m -> 1..n]
      BY <1>1
    <3>2. \A a, b \in 1..m : f[a] = f[b] => a = b
      BY <1>1
    <3>3. \A i \in 1..n : \E k \in 1..m : f[k] = i
      BY <1>1
    <3> HIDE DEF f
    <3> QED
      BY <3>1, <3>2, <3>3 DEF Bijection, Injection, IsInjective, Surjection
  <2>2. ExistsBijection(1..m, 1..n)
    BY <2>1 DEF ExistsBijection
  <2>3. Cardinality(1..n) = m
    BY <1>1, <2>2, FS_CountingElements
  <2>4. Cardinality(1..n) = n
    BY FS_Interval
  <2> QED
    BY <2>3, <2>4
<1>5. ASSUME NEW j \in K PROVE Rank(j) = closed[j].index
  <2> DEFINE i == closed[j].index
             S == {k \in K : closed[k].index <= i}
             g == [x \in 1..i |-> PlaceOf(x)]
  <2>1. i \in 1..n
    OBVIOUS
  <2> HIDE DEF i
  <2>2. g \in [1..i -> S]
    <3>1. ASSUME NEW x \in 1..i PROVE PlaceOf(x) \in S
      <4>1. x \in 1..n /\ x <= i
        BY <2>1
      <4> QED
        BY <1>2, <4>1
    <3> QED
      BY <3>1
  <2>3. \A a, b \in 1..i : g[a] = g[b] => a = b
    <3>1. \A x \in 1..i : x \in 1..n /\ g[x] = PlaceOf(x)
      BY <2>1
    <3> HIDE DEF g
    <3>2. \A x \in 1..i : closed[g[x]].index = x
      BY <1>2, <3>1
    <3> QED
      BY <3>2
  <2>4. \A k \in S : \E x \in 1..i : g[x] = k
    <3> TAKE k \in S
    <3> DEFINE x == closed[k].index
    <3>1. x \in 1..i
      BY <2>1
    <3>2. PlaceOf(x) = k
      BY <1>3
    <3> HIDE DEF x
    <3>3. g[x] = k
      BY <3>1, <3>2
    <3> QED
      BY <3>1, <3>3
  <2> HIDE DEF g
  <2>5. g \in Bijection(1..i, S)
    BY <2>2, <2>3, <2>4 DEF Bijection, Injection, IsInjective, Surjection
  <2>6. ExistsBijection(1..i, S)
    BY <2>5 DEF ExistsBijection
  <2>8. i \in Nat
    BY <2>1
  <2> HIDE DEF S
  <2>7. Cardinality(S) = i
    BY <2>6, <2>8, FS_CountingElements
  <2> QED
    BY <2>7 DEF S, i
<1> HIDE DEF Rank
<1>6. ASSUME NEW i \in 1..n PROVE (CHOOSE j \in K : Rank(j) = i) = PlaceOf(i)
  <2>1. \A j \in K : Rank(j) = i <=> j = PlaceOf(i)
    BY <1>2, <1>3, <1>5
  <2>2. PlaceOf(i) \in K
    BY <1>2
  <2> HIDE DEF K
  <2> QED
    BY <2>1, <2>2
<1>7. InIndexOrder(closed) = [i \in K |-> closed[CHOOSE j \in K : Rank(j) = i]]
  BY DEF InIndexOrder, Rank
<1>8. InIndexOrder(closed) = [i \in 1..n |-> closed[PlaceOf(i)]]
  BY <1>1, <1>4, <1>6, <1>7
<1> DEFINE o == InIndexOrder(closed)
<1>9. \A i \in 1..n : closed[PlaceOf(i)] \in ClosedItem
  BY <1>1, <1>2
<1>10. o \in Seq(ClosedItem) /\ Len(o) = n /\ \A i \in 1..n : o[i] = closed[PlaceOf(i)]
  BY <1>8, <1>9
<1> HIDE DEF o
<1> QED
  BY <1>2, <1>10 DEF o

ShutUpTo(s, t, n, r0) ==
  /\ Good(t, r0) /\ SameStatus(s, t) /\ SameThink(s, t) /\ SameTexts(s, t) /\ t.seen = s.seen
  /\ \A c \in Calls : c < n /\ c \in s.seen => t.tools[c].added /\ t.tools[c].done

(* One more call is closed, ...                                            *)
LEMMA OneMoreShut ==
  ASSUME NEW s, NEW r0, Live(s), NEW n \in Nat, NEW t, ShutUpTo(s, t, n, r0),
         NEW u, u = FinalizeTool(t, n)
  PROVE  ShutUpTo(s, u, n + 1, r0)
<1>1. Good(t, r0) /\ Live(t)
  BY DEF ShutUpTo, Live, SameStatus
<1>2. Good(u, r0) /\ Shutdown(t, u, n)
  BY <1>1, FinalizeToolGood
<1>3. SameStatus(s, u) /\ SameThink(s, u) /\ SameTexts(s, u) /\ u.seen = s.seen
  BY <1>2 DEF ShutUpTo, Shutdown, SameStatus, SameThink, SameTexts
<1>4. ASSUME NEW c \in Calls, c < n + 1, c \in s.seen PROVE u.tools[c].added /\ u.tools[c].done
  <2>1. c \in Nat
    BY ChatStreamAssumption
  <2>2. CASE c = n
    BY <1>2, <1>4, <2>2 DEF Shutdown, ShutUpTo
  <2>3. CASE c < n
    BY <1>2, <1>4, <2>1, <2>3 DEF Shutdown, ShutUpTo, OtherCalls
  <2> QED
    BY <1>4, <2>1, <2>2, <2>3
<1> QED
  BY <1>2, <1>3, <1>4 DEF ShutUpTo

(* ... and one after another all below a bound.                            *)
LEMMA ChainShut ==
  ASSUME NEW s, NEW r0, Good(s, r0), Live(s), NEW count \in Nat, NEW f, Chain(f, s, count)
  PROVE  ShutUpTo(s, f[count], count, r0)
<1>1. ASSUME NEW n \in 0..count PROVE f[n] = IF n = 0 THEN s ELSE FinalizeTool(f[n - 1], n - 1)
  BY DEF Chain
<1> DEFINE T == {n \in 0..count : ~ ShutUpTo(s, f[n], n, r0)}
<1>2. T = {}
  <2>1. SUFFICES ASSUME T # {} PROVE FALSE
    OBVIOUS
  <2>2. PICK n \in T : \A y \in T : n <= y
    <3>1. T \subseteq Nat
      OBVIOUS
    <3> HIDE DEF T
    <3> QED
      BY <2>1, <3>1, Least
  <2>3. n # 0
    <3>1. f[0] = s
      BY <1>1
    <3>2. ShutUpTo(s, s, 0, r0)
      <4>1. \A c \in Calls : ~ (c < 0)
        BY ChatStreamAssumption
      <4> QED
        BY <4>1 DEF ShutUpTo, SameStatus, SameThink, SameTexts
    <3> QED
      BY <3>1, <3>2
  <2>4. n \in 1..count /\ n - 1 \in 0..count /\ n - 1 \in Nat /\ ~ (n <= n - 1)
    BY <2>3
  <2>5. ShutUpTo(s, f[n - 1], n - 1, r0)
    BY <2>2, <2>4
  <2>6. f[n] = FinalizeTool(f[n - 1], n - 1)
    BY <1>1, <2>3
  <2>7. ShutUpTo(s, f[n], n - 1 + 1, r0)
    BY <2>4, <2>5, <2>6, OneMoreShut
  <2>8. n - 1 + 1 = n
    BY <2>4
  <2> QED
    BY <2>7, <2>8
<1> QED
  BY <1>2

(* finalize_tools_into closes every call the upstream sent.                *)
LEMMA FinalizeToolsGood ==
  ASSUME NEW s, NEW r0, Good(s, r0), Live(s), NEW t, t = FinalizeTools(s)
  PROVE  /\ Good(t, r0) /\ SameStatus(s, t) /\ SameThink(s, t) /\ SameTexts(s, t) /\ t.seen = s.seen
         /\ \A c \in s.seen : t.tools[c].done
<1> DEFINE count == Max(Calls \cup {0}) + 1
<1>1. count \in Nat /\ (\A c \in Calls : c \in Nat /\ c < count) /\ \E f : Chain(f, s, count) /\ t = f[count]
  BY FinalizeToolsIs
<1> HIDE DEF count
<1>2. ShutUpTo(s, t, count, r0)
  BY <1>1, ChainShut
<1>3. s.seen \subseteq Calls
  BY DEF Good, Converters
<1> QED
  BY <1>1, <1>2, <1>3 DEF ShutUpTo

(* A chunk with an empty tool_calls array.                                 *)
LEMMA PushNone ==
  ASSUME NEW s PROVE PushToolCalls(s, <<>>) = s
<1> DEFINE g == [n \in 0..0 |-> s]
           calls == <<>>
           Right(f) == f = [n \in 0..Len(calls) |-> IF n = 0 THEN s ELSE PushToolCall(f[n - 1], calls[n])]
           f == CHOOSE f : Right(f)
<1>1. Right(g)
  <2>1. Len(calls) = 0 /\ \A n \in 0..0 : n = 0
    OBVIOUS
  <2> HIDE DEF calls
  <2> QED
    BY <2>1
<1>2. Right(f)
  BY <1>1
<1>3. PushToolCalls(s, <<>>) = f[0]
  BY DEF PushToolCalls
<1> HIDE DEF f
<1>4. f = [n \in 0..0 |-> IF n = 0 THEN s ELSE PushToolCall(f[n - 1], calls[n])]
  BY <1>2
<1> HIDE DEF calls
<1> QED
  BY <1>3, <1>4

(* A chunk with one call delta.                                            *)
LEMMA PushOne ==
  ASSUME NEW s, NEW d PROVE PushToolCalls(s, <<d>>) = PushToolCall(s, d)
<1> DEFINE g == [n \in 0..1 |-> IF n = 0 THEN s ELSE PushToolCall(s, d)]
           calls == <<d>>
           Right(f) == f = [n \in 0..Len(calls) |-> IF n = 0 THEN s ELSE PushToolCall(f[n - 1], calls[n])]
           f == CHOOSE f : Right(f)
<1>1. Right(g)
  <2>1. \A n \in 0..1 : (n = 0 \/ n = 1) /\ Len(calls) = 1 /\ calls[1] = d
    OBVIOUS
  <2>2. \A n \in 0..1 : g[n] = IF n = 0 THEN s ELSE PushToolCall(g[n - 1], calls[n])
    BY <2>1
  <2>3. g = [n \in 0..1 |-> g[n]] /\ Len(calls) = 1
    OBVIOUS
  <2> HIDE DEF g, calls
  <2> QED
    BY <2>2, <2>3
<1>2. Right(f)
  BY <1>1
<1>3. PushToolCalls(s, <<d>>) = f[1]
  BY DEF PushToolCalls
<1> HIDE DEF f
<1>4. f = [n \in 0..1 |-> IF n = 0 THEN s ELSE PushToolCall(f[n - 1], calls[n])] /\ calls[1] = d
  BY <1>2
<1> HIDE DEF calls
<1>5. f[0] = s /\ f[1] = PushToolCall(f[0], d)
  <2>1. 0 \in 0..1 /\ 1 \in 0..1 /\ 1 - 1 = 0 /\ 1 # 0
    OBVIOUS
  <2> QED
    BY <1>4, <2>1
<1> QED
  BY <1>3, <1>5

(* What a completed response says of the items.                            *)
Whole(s, q) ==
  /\ Len(q.output) = Len(q.items)
  /\ \A i \in DOMAIN q.items :
       /\ q.output[i].index = i /\ ClosedText(s, q.items[i], i, q.output[i].text)
       /\ q.items[i].kind = "function_call" => \E c \in Calls : s.tools[c].index = i
Told(s, r0) ==
  /\ s \in Converters
  /\ \E r : Led(r0, s.events, r) /\ Agrees(s, r, {}) /\ (r.ended = "completed" => Whole(s, r))
AllShut(r) == \A i \in DOMAIN r.items : r.items[i].closed = 1

(* A function call's item belongs to a call.                               *)
LEMMA SomeCall ==
  ASSUME NEW s, NEW r, NEW late, Agrees(s, r, late), NEW i \in DOMAIN r.items,
         r.items[i].kind = "function_call"
  PROVE  \E c \in Calls : s.tools[c].index = i
<1>1. TextPart(s.message, r, "message") /\ TextPart(s.reasoning, r, "reasoning") /\ Owner(s, i)
  BY DEF Agrees, Owned
<1>2. ~ (s.message.added /\ s.message.index = i)
  BY <1>1, TextShown
<1>3. ~ (s.reasoning.added /\ s.reasoning.index = i)
  BY <1>1, TextShown
<1> QED
  BY <1>1, <1>2, <1>3 DEF Owner

(* When every text and call is closed, so is every item Codex has.         *)
LEMMA ShutAll ==
  ASSUME NEW s, NEW r, Agrees(s, r, {}), s.message.added => s.message.done,
         s.reasoning.added => s.reasoning.done, \A c \in s.seen : s.tools[c].done
  PROVE  AllShut(r)
<1>1. SUFFICES ASSUME NEW i \in DOMAIN r.items PROVE r.items[i].closed = 1
  BY DEF AllShut
<1>2. TextPart(s.message, r, "message") /\ TextPart(s.reasoning, r, "reasoning") /\ Owner(s, i)
  BY DEF Agrees, Owned
<1>3. CASE s.message.added /\ s.message.index = i
  BY <1>2, <1>3, TextShown
<1>4. CASE s.reasoning.added /\ s.reasoning.index = i
  BY <1>2, <1>4, TextShown
<1>5. ASSUME NEW c \in Calls, s.tools[c].added, s.tools[c].index = i PROVE r.items[i].closed = 1
  <2>1. CallPart(s, r, c, {})
    BY DEF Agrees
  <2>2. c \in s.seen /\ r.items[i].closed = IF s.tools[c].done THEN 1 ELSE 0
    BY <1>5, <2>1, CallShown
  <2> QED
    BY <2>2
<1> QED
  BY <1>2, <1>3, <1>4, <1>5 DEF Owner

(* The final response, made when every item is closed.                     *)
LEMMA FinalOutput ==
  ASSUME NEW s \in Converters, NEW r \in Readers, Agrees(s, r, {}), AllShut(r),
         NEW final, final = InIndexOrder(s.closed)
  PROVE  /\ final \in Seq(ClosedItem) /\ Len(final) = Len(r.items)
         /\ \A i \in DOMAIN r.items :
              final[i].index = i /\ ClosedText(s, r.items[i], i, final[i].text)
<1> DEFINE n == Len(r.items)
<1>1. n \in Nat /\ DOMAIN r.items = 1..n
  BY DEF Readers
<1>2. s.closed \in Seq(ClosedItem)
  BY DEF Converters
<1>3. ClosedPart(s, r)
  BY DEF Agrees
<1> DEFINE closed == s.closed
<1> HIDE DEF n
<1>4. /\ \A k \in DOMAIN closed : closed[k].index \in 1..n
      /\ \A k, l \in DOMAIN closed : closed[k].index = closed[l].index => k = l
      /\ \A i \in 1..n : \E k \in DOMAIN closed : closed[k].index = i
  BY <1>1, <1>3 DEF ClosedPart, AllShut
<1>5. /\ final \in Seq(ClosedItem) /\ Len(final) = n
      /\ \A i \in 1..n : \E k \in DOMAIN closed : closed[k].index = i /\ final[i] = closed[k]
  <2>1. closed \in Seq(ClosedItem) /\ n \in Nat /\ final = InIndexOrder(closed)
    BY <1>1, <1>2
  <2> HIDE DEF closed
  <2>2. InIndexOrder(closed) \in Seq(ClosedItem) /\ Len(InIndexOrder(closed)) = n
    BY <1>4, <2>1, InOrder
  <2>3. \A i \in 1..n : \E k \in DOMAIN closed :
          closed[k].index = i /\ InIndexOrder(closed)[i] = closed[k]
    BY <1>4, <2>1, InOrder
  <2> QED
    BY <2>1, <2>2, <2>3
<1>6. ASSUME NEW i \in 1..n PROVE final[i].index = i /\ ClosedText(s, r.items[i], i, final[i].text)
  <2>1. PICK k \in DOMAIN s.closed : s.closed[k].index = i /\ final[i] = s.closed[k]
    BY <1>5
  <2>2. ClosedText(s, r.items[i], i, s.closed[k].text)
    BY <1>3, <2>1 DEF ClosedPart
  <2> QED
    BY <2>1, <2>2
<1> QED
  BY <1>1, <1>5, <1>6 DEF n

(* The completed event fits, and its response is whole.                    *)
LEMMA CompletedGood ==
  ASSUME NEW s, NEW r0, Good(s, r0), Live(s), s.message.added => s.message.done,
         s.reasoning.added => s.reasoning.done, \A c \in s.seen : s.tools[c].done,
         NEW t, t = Emit([s EXCEPT !.completed = TRUE],
                         [ev |-> "completed", output |-> InIndexOrder(s.closed)])
  PROVE  Told(t, r0) /\ t.completed /\ SameThink(s, t)
<1>1. PICK r : Led(r0, s.events, r) /\ Agrees(s, r, {})
  BY DEF Good
<1>2. s \in Converters /\ r \in Readers /\ s.started /\ ~ s.completed
  BY <1>1, LedTyped DEF Good, Live
<1>3. AllShut(r)
  BY <1>1, ShutAll
<1> DEFINE final == InIndexOrder(s.closed)
           e == [ev |-> "completed", output |-> final]
           u == [s EXCEPT !.completed = TRUE]
           q == ReadOn(r, e)
<1>4. /\ final \in Seq(ClosedItem) /\ Len(final) = Len(r.items)
      /\ \A i \in DOMAIN r.items : final[i].index = i /\ ClosedText(s, r.items[i], i, final[i].text)
  BY <1>1, <1>2, <1>3, FinalOutput
<1> HIDE DEF final
<1>5. e \in Events /\ e.ev = "completed" /\ e.output = final
  BY <1>4 DEF Events
<1>6. /\ u \in Converters /\ u.events = s.events /\ u.completed /\ u.failed = s.failed
      /\ u.started = s.started /\ u.custom = s.custom /\ SameThink(s, u) /\ SameCalls(s, u)
      /\ SameTexts(s, u) /\ u.next = s.next /\ u.closed = s.closed
  BY <1>2 DEF Converters, SameThink, SameCalls, SameTexts
<1>7. t = Emit(u, e)
  BY DEF final
<1> HIDE DEF e, u
<1>8. /\ t \in Converters /\ t.events = Append(u.events, e)
      /\ SameStatus(u, t) /\ SameThink(u, t) /\ SameCalls(u, t)
      /\ t.next = u.next /\ t.closed = u.closed /\ t.message = u.message /\ t.reasoning = u.reasoning
  <2> DEFINE v == Emit(u, e)
  <2>1. /\ v \in Converters /\ v.events = Append(u.events, e)
        /\ SameStatus(u, v) /\ SameThink(u, v) /\ SameCalls(u, v)
        /\ v.next = u.next /\ v.closed = u.closed /\ v.message = u.message /\ v.reasoning = u.reasoning
    <3>1. u \in Converters /\ e \in Events
      BY <1>5, <1>6
    <3> QED
      BY ONLY <3>1, EmitFacts
  <2>2. t = v
    BY ONLY <1>7
  <2> HIDE DEF v
  <2> QED
    BY ONLY <2>1, <2>2
<1>9. /\ t.events = Append(s.events, e) /\ t.completed /\ t.failed = s.failed
      /\ t.started = s.started /\ t.custom = s.custom /\ SameThink(s, t) /\ SameCalls(s, t)
      /\ SameTexts(s, t) /\ t.next = s.next /\ t.closed = s.closed
  BY <1>6, <1>8 DEF SameStatus, SameThink, SameCalls, SameTexts
<1>10. r.started /\ r.ended = "-" /\ ~ s.failed
  BY <1>1, <1>2 DEF Agrees, Status
<1>11. Legal(r, e) /\ q = [r EXCEPT !.ended = "completed", !.output = e.output]
  BY <1>3, <1>5, <1>10 DEF Legal, ReadOn, Alive, AllShut
<1>12. q.items = r.items /\ q.started = r.started /\ q.ended = "completed" /\ q.output = final
  BY <1>2, <1>5, <1>11 DEF Readers
<1>13. Led(r0, t.events, q)
  BY <1>1, <1>2, <1>5, <1>9, <1>11, OneMore
<1> HIDE DEF q
<1>14. Agrees(t, q, {})
  <2>1. Status(t, q)
    BY <1>1, <1>9, <1>10, <1>12 DEF Agrees, Status
  <2>2. TextPart(t.message, q, "message") /\ TextPart(t.reasoning, q, "reasoning")
    BY <1>1, <1>9, <1>12 DEF Agrees, TextPart, SameTexts
  <2>3. ASSUME NEW c \in Calls PROVE CallPart(t, q, c, {})
    <3>1. CallPart(s, r, c, {}) /\ SameItem(s.tools[c], r, q)
      BY <1>1, <1>12 DEF Agrees, SameItem
    <3> QED
      BY <1>9, <3>1, CallKept DEF SameCalls
  <2>4. Distinct(t) /\ Owned(t, q)
    <3>1. /\ Distinct(s) /\ Owned(s, r) /\ q.items = r.items /\ t.tools = s.tools
          /\ t.message = s.message /\ t.reasoning = s.reasoning
      BY <1>1, <1>9, <1>12 DEF Agrees, SameCalls, SameTexts
    <3> QED
      BY ONLY <3>1 DEF Distinct, Owned, Owner
  <2>5. ClosedPart(t, q)
    <3>1. ClosedPart(s, r) /\ t.closed = s.closed /\ t.tools = s.tools /\ q.items = r.items
      BY <1>1, <1>9, <1>12 DEF Agrees, SameCalls
    <3> QED
      BY ONLY <3>1, ClosedSame
  <2> QED
    BY <2>1, <2>2, <2>3, <2>4, <2>5 DEF Agrees
<1>15. Whole(t, q)
  <2>1. ASSUME NEW i \in DOMAIN q.items
        PROVE  /\ q.output[i].index = i /\ ClosedText(t, q.items[i], i, q.output[i].text)
               /\ q.items[i].kind = "function_call" => \E c \in Calls : t.tools[c].index = i
    <3>1. final[i].index = i /\ ClosedText(s, q.items[i], i, final[i].text) /\ t.tools = s.tools
      BY <1>4, <1>9, <1>12 DEF SameCalls
    <3>2. ClosedText(t, q.items[i], i, final[i].text)
      BY ONLY <3>1 DEF ClosedText
    <3>3. q.items[i].kind = "function_call" => \E c \in Calls : t.tools[c].index = i
      BY <1>14, SomeCall
    <3> QED
      BY <1>12, <3>1, <3>2, <3>3
  <2> QED
    BY <1>4, <1>12, <2>1 DEF Whole
<1> QED
  BY <1>8, <1>9, <1>13, <1>14, <1>15 DEF Told

(* finalize_into, on a stream that has not ended.                          *)
LEMMA FinalizeAllGood ==
  ASSUME NEW s, NEW r0, Good(s, r0), ~ s.completed, ~ s.message.done,
         s.mode = "Text" => s.buffer = <<>>, NEW t, t = FinalizeAll(s)
  PROVE  Told(t, r0) /\ t.completed /\ (t.mode = "Text" => t.buffer = <<>>)
<1> DEFINE a == EnsureStarted(s)
           b == FlushThink(a)
           c == Finalize(b, "reasoning")
           d == Finalize(c, "message")
           f == FinalizeTools(d)
<1>1. t = Emit([f EXCEPT !.completed = TRUE],
               [ev |-> "completed", output |-> InIndexOrder(f.closed)])
  BY DEF FinalizeAll
<1>2. Ready(a, r0)
  <2>1. Good(a, r0) /\ Live(a) /\ SameThink(s, a) /\ SameTexts(s, a)
    BY EnsureStartedGood
  <2> QED
    BY <2>1 DEF Ready, SameThink, SameTexts
<1> HIDE DEF a
<1>3. Ready(b, r0)
  BY <1>2, FlushReady DEF Texted
<1> HIDE DEF b
<1>4. Ready(c, r0) /\ (c.reasoning.added => c.reasoning.done)
  <2>1. Texted(b, c, r0)
    BY <1>3, FinalizeReady
  <2>2. c["reasoning"].added => c["reasoning"].done
    BY <1>3, FinalizeGood DEF Ready, TextKinds
  <2> QED
    BY <2>1, <2>2 DEF Texted
<1> HIDE DEF c
<1>5. /\ Good(d, r0) /\ SameStatus(c, d) /\ SameThink(c, d)
      /\ (d.reasoning.added => d.reasoning.done) /\ (d.message.added => d.message.done)
  <2>1. "message" \in TextKinds
    BY DEF TextKinds
  <2>2. /\ Good(d, r0) /\ SameStatus(c, d) /\ SameThink(c, d)
        /\ d[Other("message")] = c[Other("message")] /\ (d["message"].added => d["message"].done)
    BY <1>4, <2>1, FinalizeGood DEF Ready
  <2> HIDE DEF d
  <2>3. d.reasoning = c.reasoning
    BY <2>2 DEF Other
  <2> QED
    BY <1>4, <2>2, <2>3
<1> HIDE DEF d
<1>6. Live(d) /\ (d.mode = "Text" => d.buffer = <<>>)
  BY <1>4, <1>5 DEF Ready, Live, SameStatus, SameThink
<1>7. /\ Good(f, r0) /\ SameStatus(d, f) /\ SameThink(d, f) /\ SameTexts(d, f) /\ f.seen = d.seen
      /\ \A x \in d.seen : f.tools[x].done
  BY <1>5, <1>6, FinalizeToolsGood
<1> HIDE DEF f
<1>8. /\ Live(f) /\ (f.message.added => f.message.done) /\ (f.reasoning.added => f.reasoning.done)
      /\ (f.mode = "Text" => f.buffer = <<>>) /\ \A x \in f.seen : f.tools[x].done
  BY <1>5, <1>6, <1>7 DEF Live, SameStatus, SameTexts, SameThink
<1>9. Told(t, r0) /\ t.completed /\ SameThink(f, t)
  BY <1>1, <1>7, <1>8, CompletedGood
<1> QED
  BY <1>8, <1>9 DEF SameThink

-----------------------------------------------------------------------------
(* Failure, and a chunk.                                                   *)

(* failed_into: also after the end of the stream.                          *)
LEMMA FailGood ==
  ASSUME NEW s, NEW r0, Good(s, r0), s.events = <<>>, NEW t, t = Fail(s)
  PROVE  Told(t, r0) /\ t.completed /\ SameThink(s, t) /\ SameCalls(s, t)
<1>1. PICK r : Led(r0, s.events, r) /\ Agrees(s, r, {})
  BY DEF Good
<1>2. s \in Converters /\ r \in Readers
  BY <1>1, LedTyped DEF Good
<1> DEFINE e == [ev |-> "failed"]
           u == [s EXCEPT !.completed = TRUE, !.failed = TRUE]
           q == ReadOn(r, e)
<1>3. e \in Events /\ e.ev = "failed"
  BY DEF Events
<1>4. /\ u \in Converters /\ u.events = s.events /\ u.completed /\ u.failed
      /\ u.started = s.started /\ u.custom = s.custom /\ SameThink(s, u) /\ SameCalls(s, u)
      /\ SameTexts(s, u) /\ u.next = s.next /\ u.closed = s.closed
  BY <1>2 DEF Converters, SameThink, SameCalls, SameTexts
<1>5. t = Emit(u, e)
  BY DEF Fail
<1> HIDE DEF e, u
<1>6. /\ t \in Converters /\ t.events = Append(u.events, e)
      /\ SameStatus(u, t) /\ SameThink(u, t) /\ SameCalls(u, t)
      /\ t.next = u.next /\ t.closed = u.closed /\ t.message = u.message /\ t.reasoning = u.reasoning
  BY <1>3, <1>4, <1>5, EmitFacts
<1>7. /\ t.events = Append(s.events, e) /\ t.completed /\ t.failed
      /\ t.started = s.started /\ t.custom = s.custom /\ SameThink(s, t) /\ SameCalls(s, t)
      /\ SameTexts(s, t) /\ t.next = s.next /\ t.closed = s.closed
  BY <1>4, <1>6 DEF SameStatus, SameThink, SameCalls, SameTexts
<1>8. Legal(r, e) /\ q = [r EXCEPT !.ended = "failed"]
  BY <1>3 DEF Legal, ReadOn
<1>9. q.items = r.items /\ q.started = r.started /\ q.ended = "failed"
  BY <1>2, <1>8 DEF Readers
<1>10. Led(r0, t.events, q)
  <2>1. Led(r0, s.events, r) /\ s.events = <<>> /\ e \in Events /\ Legal(r, e)
    BY <1>1, <1>3, <1>8
  <2>2. Led(r0, Append(s.events, e), ReadOn(r, e))
    BY ONLY <2>1, LedOn
  <2> QED
    BY <1>7, <2>2
<1> HIDE DEF q
<1>11. Agrees(t, q, {})
  <2>1. Status(t, q)
    BY <1>1, <1>7, <1>9 DEF Agrees, Status
  <2>2. TextPart(t.message, q, "message") /\ TextPart(t.reasoning, q, "reasoning")
    BY <1>1, <1>7, <1>9 DEF Agrees, TextPart, SameTexts
  <2>3. ASSUME NEW c \in Calls PROVE CallPart(t, q, c, {})
    <3>1. CallPart(s, r, c, {}) /\ SameItem(s.tools[c], r, q)
      BY <1>1, <1>9 DEF Agrees, SameItem
    <3> QED
      BY <1>7, <3>1, CallKept DEF SameCalls
  <2>4. Distinct(t) /\ Owned(t, q)
    <3>1. /\ Distinct(s) /\ Owned(s, r) /\ q.items = r.items /\ t.tools = s.tools
          /\ t.message = s.message /\ t.reasoning = s.reasoning
      BY <1>1, <1>7, <1>9 DEF Agrees, SameCalls, SameTexts
    <3> QED
      BY ONLY <3>1 DEF Distinct, Owned, Owner
  <2>5. ClosedPart(t, q)
    <3>1. ClosedPart(s, r) /\ t.closed = s.closed /\ t.tools = s.tools /\ q.items = r.items
      BY <1>1, <1>7, <1>9 DEF Agrees, SameCalls
    <3> QED
      BY ONLY <3>1, ClosedSame
  <2> QED
    BY <2>1, <2>2, <2>3, <2>4, <2>5 DEF Agrees
<1> QED
  BY <1>6, <1>7, <1>9, <1>10, <1>11 DEF Told

(* A converter whose stream is still open.                                 *)
Unended(s) ==
  ~ s.completed /\ ~ s.message.done /\ \A c \in Calls : ~ s.tools[c].done
Tidy(s) == s.mode = "Text" => s.buffer = <<>>

Arrives(s, chunk) ==
  /\ chunk.content \in Text
  /\ chunk.tools \in BOOLEAN
  /\ chunk.calls = <<>> \/ \E d : chunk.calls = <<d>> /\ MayFollow(s, d)

(* Texts leave the calls open.                                             *)
LEMMA OnlyTexted ==
  ASSUME NEW s, NEW r0, Good(s, r0), Unended(s), Tidy(s), NEW t, Ready(t, r0), SameCalls(s, t)
  PROVE  Good(t, r0) /\ Unended(t) /\ Tidy(t)
BY DEF Ready, Live, Unended, Tidy, SameCalls

(* handle_chat_chunk_into                                                  *)
LEMMA HandleChunkGood ==
  ASSUME NEW s, NEW r0, Good(s, r0), Unended(s), Tidy(s), NEW chunk, Arrives(s, chunk),
         NEW t, t = HandleChunk(s, chunk)
  PROVE  Told(t, r0) /\ Unended(t) /\ Tidy(t)
<1>0. SUFFICES Good(t, r0) /\ Unended(t) /\ Tidy(t)
  <2>1. ASSUME Good(t, r0), Unended(t) PROVE Told(t, r0)
    <3>1. PICK r : Led(r0, t.events, r) /\ Agrees(t, r, {})
      BY <2>1 DEF Good
    <3>2. r.ended = "-"
      BY <2>1, <3>1, LiveReader DEF Unended
    <3> QED
      BY <2>1, <3>1, <3>2 DEF Told, Good
  <2> QED
    BY <2>1
<1> DEFINE a == EnsureStarted(s)
           b == IF chunk.reasoning THEN PushDelta(a, "reasoning", <<"r">>) ELSE a
           c == IF chunk.content # <<>> THEN PushContent(b, chunk.content) ELSE b
           e == FlushThink(c)
           f == Finalize(e, "reasoning")
<1>1. t = IF ~ chunk.tools THEN c ELSE PushToolCalls(f, chunk.calls)
  BY DEF HandleChunk
<1>2. Ready(a, r0) /\ SameCalls(s, a)
  <2>1. Good(a, r0) /\ Live(a) /\ SameThink(s, a) /\ SameTexts(s, a) /\ SameCalls(s, a)
    BY EnsureStartedGood DEF Unended
  <2> QED
    BY <2>1 DEF Ready, SameThink, SameTexts, Unended, Tidy
<1> HIDE DEF a
<1>3. Texted(a, b, r0)
  <2>1. CASE chunk.reasoning
    <3>1. "reasoning" \in TextKinds /\ <<"r">> \in Text
      <4>1. "r" \in Word
        BY DEF Word
      <4> QED
        BY <4>1 DEF TextKinds, Text
    <3> QED
      BY <1>2, <2>1, <3>1, PushReady
  <2>2. CASE ~ chunk.reasoning
    BY <1>2, <2>2, ReadyAgain
  <2> QED
    BY <2>1, <2>2
<1> HIDE DEF b
<1>4. Texted(b, c, r0)
  <2>1. Ready(b, r0) /\ chunk.content \in Text
    BY <1>3 DEF Texted, Arrives
  <2>2. CASE chunk.content # <<>>
    BY <2>1, <2>2, ContentReady
  <2>3. CASE chunk.content = <<>>
    BY <2>1, <2>3, ReadyAgain
  <2> QED
    BY <2>2, <2>3
<1> HIDE DEF c
<1>5. Ready(c, r0) /\ SameCalls(s, c)
  BY <1>2, <1>3, <1>4 DEF Texted, SameCalls
<1>6. CASE ~ chunk.tools
  <2>1. t = c
    BY <1>1, <1>6
  <2> QED
    BY <1>5, <2>1, OnlyTexted
<1>7. Ready(f, r0) /\ SameCalls(s, f)
  <2>1. Texted(c, e, r0)
    BY <1>5, FlushReady
  <2> HIDE DEF e
  <2>2. Texted(e, f, r0)
    BY <2>1, FinalizeReady DEF Texted
  <2> HIDE DEF f
  <2> QED
    BY <1>5, <2>1, <2>2 DEF Texted, SameCalls
<1> HIDE DEF e, f
<1>8. CASE chunk.tools /\ chunk.calls = <<>>
  <2>1. t = f
    BY <1>1, <1>8, PushNone
  <2> QED
    BY <1>7, <2>1, OnlyTexted
<1>9. ASSUME chunk.tools, NEW d, chunk.calls = <<d>>, MayFollow(s, d)
      PROVE  Good(t, r0) /\ Unended(t) /\ Tidy(t)
  <2>3. Ready(f, r0) /\ SameCalls(s, f)
    BY <1>7
  <2>4. t = PushToolCall(f, d)
    BY <1>1, <1>9, PushOne
  <2>5. MayFollow(f, d) /\ d.index \in Calls /\ ~ f.tools[d.index].done
    BY <1>9, <2>3, DeltaParts DEF MayFollow, SameCalls, Unended
  <2>6. Good(t, r0) /\ CallChanged(f, t, d.index)
    BY <2>3, <2>4, <2>5, PushToolCallGood DEF Ready
  <2>7. ASSUME NEW x \in Calls PROVE ~ t.tools[x].done
    BY <2>3, <2>6 DEF CallChanged, OtherCalls, SameCalls, Unended
  <2>8. ~ t.completed /\ ~ t.message.done /\ (t.mode = "Text" => t.buffer = <<>>)
    BY <2>3, <2>6 DEF CallChanged, SameStatus, SameThink, SameTexts, Ready, Live
  <2> QED
    BY <2>6, <2>7, <2>8 DEF Unended, Tidy
<1> QED
  BY <1>6, <1>8, <1>9 DEF Arrives

-----------------------------------------------------------------------------
(* The inductive invariant.                                                *)

(* The inductive invariant: the events not yet written lead Codex to what  *)
(* the converter takes it to have read.                                    *)
Converting ==
  /\ st \in Converters /\ st.events = <<>> /\ Tidy(st)
  /\ upstream = "open" => Unended(st)
  /\ upstream # "open" => st.completed
Telling ==
  \E r : Led(Now, out, r) /\ Agrees(st, r, {}) /\ (r.ended = "completed" => Whole(st, r))
Finished == ended = "completed" => started /\ Whole(st, Now)
StreamIInv ==
  /\ upstream \in {"open", "done", "closed"} /\ blocks \in 0..MaxBlocks
  /\ Converting /\ Telling /\ Finished

(* Only the calls matter to what the response says.                        *)
LEMMA WholeKept ==
  ASSUME NEW s, NEW t, NEW q, Whole(s, q), t.tools = s.tools PROVE Whole(t, q)
BY DEF Whole, ClosedText

(* What Codex has read, variable by variable.                              *)
LEMMA NowParts ==
  Now.started = started /\ Now.ended = ended /\ Now.items = items /\ Now.output = output
BY DEF Now

(* Between two blocks Codex has read everything.                           *)
LEMMA Between ==
  ASSUME StreamIInv, out = <<>>
  PROVE  /\ Good(st, Now) /\ Told(st, Now) /\ Now \in Readers /\ Agrees(st, Now, {})
         /\ ended = "completed" => st.completed
<1>1. PICK r : Led(Now, out, r) /\ Agrees(st, r, {}) /\ (r.ended = "completed" => Whole(st, r))
  BY DEF StreamIInv, Telling
<1>2. r = Now /\ r \in Readers
  BY <1>1, LedEnd
<1>3. Led(Now, st.events, Now) /\ st \in Converters
  BY <1>1, <1>2 DEF StreamIInv, Converting
<1>4. ended = "completed" => st.completed
  BY <1>1, <1>2, NowParts DEF Agrees, Status
<1> QED
  BY <1>1, <1>2, <1>3, <1>4 DEF Good, Told

(* A block's events go out.                                                *)
LEMMA MakeKeeps ==
  ASSUME StreamIInv, NEW s, Make(s), Told(s, Now), Tidy(s), UNCHANGED reader,
         ended = "completed" => SameCalls(st, s),
         upstream' \in {"open", "done", "closed"}, upstream' = "open" => Unended(s),
         upstream' # "open" => s.completed, blocks' \in 0..MaxBlocks
  PROVE  StreamIInv'
<1>1. st' = [s EXCEPT !.events = <<>>] /\ out' = s.events /\ s \in Converters
  BY DEF Make, Told
<1>2. /\ st' \in Converters /\ st'.events = <<>> /\ SameBody(s, st') /\ SameThink(s, st')
  <2> DEFINE none == <<>>
             u == [s EXCEPT !.events = none]
  <2>1. s \in Converters /\ none \in Seq(Events)
    BY <1>1
  <2>0. none = <<>>
    OBVIOUS
  <2> HIDE DEF none
  <2>4. u \in Converters /\ u.events = none
    BY ONLY <2>1 DEF Converters
  <2>5. SameBody(s, u) /\ SameThink(s, u)
    BY ONLY <2>1 DEF Converters, SameBody, SameStatus, SameCalls, SameThink
  <2>2. u \in Converters /\ u.events = <<>> /\ SameBody(s, u) /\ SameThink(s, u)
    BY <2>0, <2>4, <2>5
  <2> HIDE DEF u
  <2>3. st' = u
    BY <1>1 DEF u, none
  <2> QED
    BY ONLY <2>2, <2>3
<1>3. Now' = Now
  BY DEF Now, reader
<1>4. st'.tools = s.tools /\ st'.completed = s.completed /\ st'.message = s.message
  BY <1>2 DEF SameBody, SameStatus, SameCalls
<1>5. Converting'
  <2>1. Tidy(st')
    BY <1>2 DEF Tidy, SameThink
  <2>2. Unended(s) => Unended(st')
    BY <1>4 DEF Unended
  <2> QED
    BY <1>2, <1>4, <2>1, <2>2 DEF Converting
<1>6. Telling'
  <2>1. PICK r : Led(Now, s.events, r) /\ Agrees(s, r, {}) /\ (r.ended = "completed" => Whole(s, r))
    BY DEF Told
  <2>2. Agrees(st', r, {})
    BY <1>2, <2>1, AgreesKept
  <2>3. r.ended = "completed" => Whole(st', r)
    BY <1>4, <2>1, WholeKept
  <2>4. Led(Now', out', r)
    BY <1>1, <1>3, <2>1
  <2> QED
    BY <2>2, <2>3, <2>4 DEF Telling
<1>7. Finished'
  <2>1. ended' = ended /\ started' = started
    BY DEF reader
  <2>2. CASE ended = "completed"
    <3>1. started /\ Whole(st, Now) /\ st'.tools = st.tools
      BY <1>4, <2>2 DEF StreamIInv, Finished, SameCalls
    <3>2. Whole(st', Now)
      BY <3>1, WholeKept
    <3> QED
      BY <1>3, <2>1, <3>1, <3>2 DEF Finished
  <2> QED
    BY <2>1, <2>2 DEF Finished
<1> QED
  BY <1>5, <1>6, <1>7 DEF StreamIInv

(* What a chunk brings may follow what came before.                        *)
LEMMA ChunkArrives ==
  ASSUME NEW chunk \in Chunks PROVE Arrives(st, chunk)
<1>1. <<>> \in Text /\ Fragments \subseteq Text
  <2>1. /\ "<th" \in Word /\ "ink>" \in Word /\ "x" \in Word /\ "y" \in Word
        /\ Close \in Word /\ Space \in Word
    BY DEF Word
  <2>2. /\ <<"<th">> \in Text /\ <<"ink>", "x">> \in Text /\ <<Close, Space>> \in Text
        /\ <<Space, "y">> \in Text /\ <<Space>> \in Text /\ <<"x">> \in Text
    BY <2>1 DEF Text
  <2> QED
    BY <2>2 DEF Fragments, Text
<1>2. CASE chunk = Chunk(TRUE, <<>>, FALSE, <<>>) \/ chunk = Chunk(FALSE, <<>>, TRUE, <<>>)
  <2> DEFINE none == <<>>
  <2>1. none \in Text
    BY <1>1
  <2>2. \E r, a \in BOOLEAN : chunk = [reasoning |-> r, content |-> none, tools |-> a, calls |-> none]
    BY <1>2 DEF Chunk
  <2> HIDE DEF none
  <2>3. chunk.content = none /\ chunk.tools \in BOOLEAN /\ chunk.calls = none
    BY <2>2
  <2> QED
    BY <2>1, <2>3 DEF Arrives, none
<1>3. ASSUME NEW x \in Fragments, chunk = Chunk(FALSE, x, FALSE, <<>>) PROVE Arrives(st, chunk)
  BY <1>1, <1>3 DEF Chunk, Arrives
<1>4. ASSUME NEW d \in CallDeltas, MayCome(d), chunk = Chunk(FALSE, <<>>, TRUE, <<d>>)
      PROVE  Arrives(st, chunk)
  <2>1. MayFollow(st, d)
    BY <1>4 DEF MayCome, MayFollow
  <2>2. chunk.content = <<>> /\ chunk.tools = TRUE /\ chunk.calls = <<d>>
    BY <1>4 DEF Chunk
  <2> QED
    BY <1>1, <2>1, <2>2 DEF Arrives
<1> QED
  BY <1>2, <1>3, <1>4 DEF Chunks

(* What a read makes of the reader is what reading the event means.        *)
LEMMA ReadIs ==
  ASSUME StreamIInv, Read
  PROVE  \E r : LET e == Head(out)
         IN  /\ e \in Events /\ Legal(Now, e) /\ Now \in Readers /\ Now' = ReadOn(Now, e)
             /\ Led(Now', out', r) /\ Agrees(st, r, {}) /\ (r.ended = "completed" => Whole(st, r))
             /\ Ends(e) => out' = <<>>
<1>1. PICK r : Led(Now, out, r) /\ Agrees(st, r, {}) /\ (r.ended = "completed" => Whole(st, r))
  BY DEF StreamIInv, Telling
<1> DEFINE e == Head(out)
<1>2. /\ e \in Events /\ Legal(Now, e) /\ Led(ReadOn(Now, e), out', r) /\ Now \in Readers
      /\ Ends(e) => out' = <<>>
  BY <1>1, LedRead, LedTyped DEF Read
<1>3. /\ started' = (started \/ e.ev = "created")
      /\ ended' = CASE ~Fits(e) -> "broken"
                     [] e.ev \in {"completed", "failed"} -> e.ev
                     [] OTHER -> ended
      /\ items' = CASE ~Fits(e) -> items
                    [] e.ev = "added" ->
                         Append(items, [kind |-> e.kind, id |-> e.id, text |-> <<>>, closed |-> 0])
                    [] e.ev = "delta" -> [items EXCEPT ![e.index].text = @ \o e.text]
                    [] e.ev = "done" -> [items EXCEPT ![e.index].closed = @ + 1]
                    [] OTHER -> items
      /\ output' = IF e.ev = "completed" THEN e.output ELSE output
  BY DEF Read
<1> HIDE DEF e
<1>4. Fits(e)
  BY <1>2, NowParts DEF Fits, Legal
<1>5. started \in BOOLEAN
  BY <1>2, NowParts DEF Readers
<1>6. Now' = ReadOn(Now, e)
  <2>1. e.ev \in Kinds
    BY <1>2, EventParts
  <2>2. CASE e.ev = "created"
    <3>1. started' = TRUE /\ ended' = ended /\ items' = items /\ output' = output
      BY <1>3, <1>4, <2>2
    <3> QED
      BY <2>2, <3>1 DEF ReadOn, Now
  <2>3. CASE e.ev = "added"
    <3> DEFINE more == Append(items, [kind |-> e.kind, id |-> e.id, text |-> <<>>, closed |-> 0])
    <3>1. started' = started /\ ended' = ended /\ items' = more /\ output' = output
      BY <1>3, <1>4, <1>5, <2>3
    <3>2. ReadOn(Now, e) = [Now EXCEPT !.items = more]
      BY <2>3 DEF ReadOn, Now
    <3> HIDE DEF more
    <3> QED
      BY <3>1, <3>2 DEF Now
  <2>4. CASE e.ev = "delta"
    <3> DEFINE more == Extended(items, e.index, e.text)
    <3>1. started' = started /\ ended' = ended /\ items' = more /\ output' = output
      BY <1>3, <1>4, <1>5, <2>4 DEF Extended
    <3>2. ReadOn(Now, e) = [Now EXCEPT !.items = more]
      BY <2>4 DEF ReadOn, Now
    <3> HIDE DEF more
    <3> QED
      BY <3>1, <3>2 DEF Now
  <2>5. CASE e.ev = "done"
    <3> DEFINE more == Shut(items, e.index)
    <3>1. items[e.index].closed = 0
      BY <1>2, <2>5, NowParts DEF Legal
    <3>2. started' = started /\ ended' = ended /\ items' = more /\ output' = output
      <4>1. items' = [items EXCEPT ![e.index].closed = @ + 1]
        BY <1>3, <1>4, <2>5
      <4>2. items' = more
        BY <3>1, <4>1 DEF Shut
      <4> QED
        BY <1>3, <1>4, <1>5, <2>5, <4>2
    <3>3. ReadOn(Now, e) = [Now EXCEPT !.items = more]
      BY <2>5 DEF ReadOn, Now
    <3> HIDE DEF more
    <3> QED
      BY <3>2, <3>3 DEF Now
  <2>6. CASE e.ev = "completed"
    <3>1. started' = started /\ ended' = "completed" /\ items' = items /\ output' = e.output
      BY <1>3, <1>4, <1>5, <2>6
    <3> QED
      BY <2>6, <3>1 DEF ReadOn, Now
  <2>7. CASE e.ev = "failed"
    <3>1. started' = started /\ ended' = "failed" /\ items' = items /\ output' = output
      BY <1>3, <1>4, <1>5, <2>7
    <3> QED
      BY <2>7, <3>1 DEF ReadOn, Now
  <2> QED
    BY <2>1, <2>2, <2>3, <2>4, <2>5, <2>6, <2>7 DEF Kinds
<1>7. Led(Now', out', r)
  BY <1>2, <1>6
<1> QED
  BY <1>1, <1>2, <1>6, <1>7 DEF e

(* Reading an event keeps the invariant.                                   *)
LEMMA ReadKeeps ==
  ASSUME StreamIInv, Read PROVE StreamIInv'
<1>1. PICK r : LET e == Head(out)
         IN  /\ e \in Events /\ Legal(Now, e) /\ Now \in Readers /\ Now' = ReadOn(Now, e)
             /\ Led(Now', out', r) /\ Agrees(st, r, {}) /\ (r.ended = "completed" => Whole(st, r))
             /\ Ends(e) => out' = <<>>
  BY ReadIs
<1> DEFINE e == Head(out)
<1>2. st' = st /\ upstream' = upstream /\ blocks' = blocks
  BY DEF Read
<1>3. Converting' /\ Telling'
  BY <1>1, <1>2 DEF StreamIInv, Converting, Telling
<1>4. Finished'
  <2>1. SUFFICES ASSUME ended' = "completed" PROVE started' /\ Whole(st', Now')
    BY DEF Finished
  <2>2. Now'.ended = ended' /\ Now'.started = started'
    BY DEF Now
  <2>3. e.ev = "completed"
    <3>1. e.ev \in Kinds
      BY <1>1, EventParts
    <3>2. e.ev # "failed"
      BY <1>1, <2>1, <2>2, EndedAfter DEF Ends
    <3>3. ASSUME e.ev \in {"added", "delta", "done"} PROVE FALSE
      <4>1. ended = "-" /\ Now.ended = "-"
        BY <1>1, <3>3, NowParts DEF Legal, Alive
      <4>2. ReadOn(Now, e).ended = Now.ended
        BY <1>1, <3>3 DEF ReadOn, Readers
      <4> QED
        BY <1>1, <2>1, <2>2, <4>1, <4>2
    <3>4. ASSUME e.ev = "created" PROVE FALSE
      <4>1. ~ started
        BY <1>1, <3>4, NowParts DEF Legal
      <4>2. ReadOn(Now, e).ended = Now.ended
        BY <1>1, <3>4 DEF ReadOn, Readers
      <4>3. ended = "completed"
        BY <1>1, <2>1, <2>2, <4>2, NowParts
      <4> QED
        BY <4>1, <4>3 DEF StreamIInv, Finished
    <3> QED
      BY <3>1, <3>2, <3>3, <3>4 DEF Kinds
  <2>4. started'
    <3>1. Now.started /\ ReadOn(Now, e).started = Now.started
      BY <1>1, <2>3 DEF Legal, Alive, ReadOn, Readers
    <3> QED
      BY <1>1, <2>2, <3>1
  <2>5. r = Now'
    BY <1>1, <2>3, LedEnd DEF Ends
  <2> QED
    BY <1>1, <1>2, <2>1, <2>2, <2>4, <2>5
<1> QED
  BY <1>2, <1>3, <1>4 DEF StreamIInv

(* The invariant holds when the request is made, ...                       *)
LEMMA StreamStarts ==
  StreamInit => StreamIInv
<1> SUFFICES ASSUME StreamInit PROVE StreamIInv
  OBVIOUS
<1>1. PICK custom \in BOOLEAN : st = Start(custom)
  BY DEF StreamInit
<1>2. /\ out = <<>> /\ upstream = "open" /\ blocks = 0
      /\ started = FALSE /\ items = <<>> /\ ended = "-" /\ output = <<>>
  BY DEF StreamInit
<1>3. Now = [started |-> FALSE, ended |-> "-", items |-> <<>>, output |-> <<>>]
  BY <1>2 DEF Now
<1>4. Now \in Readers
  BY <1>3 DEF Readers
<1> DEFINE none == <<>>
<1>5. none \in Text /\ none \in Seq(Word) /\ none \in Seq(Events) /\ none \in Seq(ClosedItem)
      /\ "" \in Word
  BY DEF Text, Word
<1>6. NoItem \in ItemFields /\ ~ NoItem.added /\ ~ NoItem.done
  BY <1>5 DEF NoItem, ItemFields
<1>7. NoCall \in CallFields /\ ~ NoCall.added /\ ~ NoCall.done /\ NoCall.name = ""
  BY <1>5 DEF NoCall, CallFields
<1>8. /\ st.custom \in BOOLEAN /\ st.started = FALSE /\ st.completed = FALSE
      /\ st.failed = FALSE /\ st.next = 1
      /\ st.message = NoItem /\ st.reasoning = NoItem /\ st.mode = "Detecting" /\ st.buffer = none
      /\ st.tools = [c \in Calls |-> NoCall] /\ st.seen = {} /\ st.closed = none /\ st.events = none
  BY <1>1 DEF Start
<1> HIDE DEF none
<1>9. st \in Converters
  <2>1. [c \in Calls |-> NoCall] \in [Calls -> CallFields]
    BY <1>7
  <2>2. st = [custom |-> st.custom, started |-> FALSE, completed |-> FALSE, failed |-> FALSE,
              next |-> 1, message |-> NoItem, reasoning |-> NoItem, mode |-> "Detecting",
              buffer |-> none, tools |-> [c \in Calls |-> NoCall], seen |-> {}, closed |-> none,
              events |-> none]
    BY <1>1 DEF Start, none
  <2> QED
    <3> DEFINE tools == [c \in Calls |-> NoCall]
               v == [custom |-> st.custom, started |-> FALSE, completed |-> FALSE, failed |-> FALSE,
                     next |-> 1, message |-> NoItem, reasoning |-> NoItem, mode |-> "Detecting",
                     buffer |-> none, tools |-> tools, seen |-> {}, closed |-> none,
                     events |-> none]
    <3>1. tools \in [Calls -> CallFields] /\ NoItem \in ItemFields /\ st.custom \in BOOLEAN
      BY <1>6, <1>8, <2>1
    <3>2. {} \in SUBSET Calls /\ "Detecting" \in {"Detecting", "Reasoning", "Text"} /\ 1 \in Nat
      OBVIOUS
    <3> HIDE DEF tools
    <3>3. v \in Converters
      BY ONLY <1>5, <3>1, <3>2 DEF Converters
    <3>4. st = v
      BY <2>2 DEF tools
    <3> QED
      BY <3>3, <3>4
<1>10. Converting
  <2>1. st.events = <<>> /\ st.mode # "Text"
    BY <1>8 DEF none
  <2>2. Unended(st)
    BY <1>6, <1>7, <1>8 DEF Unended
  <2> QED
    BY <1>2, <1>9, <2>1, <2>2 DEF Converting, Tidy
<1>11. Agrees(st, Now, {})
  <2>1. DOMAIN Now.items = {} /\ Len(Now.items) = 0 /\ DOMAIN st.closed = {}
    BY <1>3, <1>8 DEF none
  <2>2. Status(st, Now)
    <3>1. Now.started = FALSE /\ Now.ended = "-"
      BY <1>3
    <3>2. Now.started = st.started /\ st.next = Len(Now.items) + 1
      <4>1. st.started = FALSE /\ st.next = 1
        BY <1>8
      <4>2. Len(Now.items) = 0
        BY <2>1
      <4>3. st.next = Len(Now.items) + 1
        BY ONLY <4>1, <4>2
      <4> QED
        BY <3>1, <4>1, <4>3
    <3>3. Now.ended = IF st.failed THEN "failed" ELSE IF st.completed THEN "completed" ELSE "-"
      BY <1>8, <3>1
    <3>4. st.failed => st.completed
      BY <1>8
    <3> QED
      BY ONLY <3>2, <3>3, <3>4 DEF Status
  <2>3. TextPart(st.message, Now, "message") /\ TextPart(st.reasoning, Now, "reasoning")
    BY <1>6, <1>8 DEF TextPart
  <2>4. \A c \in Calls : CallPart(st, Now, c, {})
    BY <1>7, <1>8 DEF CallPart
  <2>5. Distinct(st) /\ Owned(st, Now)
    BY <1>7, <1>8, <2>1 DEF Distinct, Owned
  <2>6. ClosedPart(st, Now)
    BY <2>1 DEF ClosedPart
  <2> QED
    BY <2>2, <2>3, <2>4, <2>5, <2>6 DEF Agrees
<1>12. Telling
  <2>1. Led(Now, out, Now)
    BY <1>2, <1>4, LedNowhere
  <2>2. Now.ended # "completed"
    BY <1>3
  <2> QED
    BY <1>11, <2>1, <2>2 DEF Telling
<1> QED
  BY <1>2, <1>10, <1>12, ChatStreamAssumption DEF StreamIInv, Finished

(* A block or the end of the connection.                                   *)
LEMMA BlockKeeps ==
  ASSUME ~ LateBlocks, StreamIInv, ReceiveChunk \/ ReceiveDone \/ ReceiveError \/ ReadFails \/ EndOfStream
  PROVE  StreamIInv'
<1>1. out = <<>> /\ UNCHANGED reader /\ upstream \in {"open", "done", "closed"}
  BY DEF ReceiveChunk, ReceiveDone, ReceiveError, ReadFails, EndOfStream, StreamIInv
<1>2. /\ Good(st, Now) /\ Told(st, Now) /\ (ended = "completed" => st.completed)
      /\ Tidy(st) /\ st.events = <<>> /\ blocks \in 0..MaxBlocks /\ MaxBlocks \in Nat
  BY <1>1, Between, ChatStreamAssumption DEF StreamIInv, Converting
<1>3. CASE ReceiveChunk
  <2>1. PICK chunk \in Chunks : Make(HandleChunk(st, chunk))
    BY <1>3 DEF ReceiveChunk
  <2>2. upstream = "open" /\ upstream' = "open" /\ blocks' = blocks + 1 /\ blocks < MaxBlocks
    BY <1>3 DEF ReceiveChunk, Sending
  <2> DEFINE s == HandleChunk(st, chunk)
  <2>3. Unended(st)
    BY <2>2 DEF StreamIInv, Converting
  <2>4. Arrives(st, chunk)
    BY ChunkArrives
  <2>5. Told(s, Now) /\ Unended(s) /\ Tidy(s)
    BY <1>2, <2>3, <2>4, HandleChunkGood
  <2>6. ended # "completed"
    BY <1>2, <2>3 DEF Unended
  <2>7. blocks' \in 0..MaxBlocks
    BY <1>2, <2>2
  <2> HIDE DEF s
  <2> QED
    BY <1>1, <2>1, <2>2, <2>5, <2>6, <2>7, MakeKeeps DEF s
<1>4. CASE ReceiveDone
  <2>1. upstream = "open" /\ upstream' = "done" /\ blocks' = blocks /\ Make(FinalizeAll(st))
    BY <1>4 DEF ReceiveDone, Sending
  <2> DEFINE s == FinalizeAll(st)
  <2>2. Unended(st)
    BY <2>1 DEF StreamIInv, Converting
  <2>3. Told(s, Now) /\ s.completed /\ (s.mode = "Text" => s.buffer = <<>>)
    BY <1>2, <2>2, FinalizeAllGood DEF Unended, Tidy
  <2>4. ended # "completed"
    BY <1>2, <2>2 DEF Unended
  <2> HIDE DEF s
  <2>5. Tidy(s)
    BY <2>3 DEF Tidy
  <2> QED
    BY <1>1, <1>2, <2>1, <2>3, <2>4, <2>5, MakeKeeps DEF s
<1>5. CASE ReceiveError \/ ReadFails
  <2>1. upstream' \in {"done", "closed"} /\ blocks' = blocks /\ Make(Fail(st))
    BY <1>5 DEF ReceiveError, ReadFails
  <2> DEFINE s == Fail(st)
  <2>2. Told(s, Now) /\ s.completed /\ SameThink(st, s) /\ SameCalls(st, s)
    BY <1>2, FailGood
  <2> HIDE DEF s
  <2>3. Tidy(s)
    BY <1>2, <2>2 DEF Tidy, SameThink
  <2> QED
    BY <1>1, <1>2, <2>1, <2>2, <2>3, MakeKeeps DEF s
<1>6. CASE EndOfStream
  <2>1. upstream' = "closed" /\ blocks' = blocks /\ Make(FinishStream(st))
    BY <1>6 DEF EndOfStream
  <2> DEFINE s == FinishStream(st)
  <2>2. /\ Told(s, Now) /\ s.completed /\ Tidy(s)
        /\ (ended = "completed" => SameCalls(st, s))
    <3>1. CASE st.completed
      <4>1. s = st
        BY <3>1 DEF FinishStream, FinalizeAll
      <4> QED
        BY <1>2, <3>1, <4>1 DEF SameCalls
    <3>2. CASE ~ st.completed
      <4>1. upstream = "open"
        BY <1>1, <3>2 DEF StreamIInv, Converting
      <4>2. Unended(st)
        BY <4>1 DEF StreamIInv, Converting
      <4>3. ~ st.failed
        BY <1>1, <3>2, Between DEF Agrees, Status
      <4>4. s = FinalizeAll(st)
        BY <4>3 DEF FinishStream
      <4> HIDE DEF s
      <4>5. Told(s, Now) /\ s.completed /\ (s.mode = "Text" => s.buffer = <<>>)
        BY <1>2, <4>2, <4>4, FinalizeAllGood DEF Unended, Tidy
      <4> QED
        BY <1>2, <3>2, <4>5 DEF Tidy
    <3> QED
      BY <3>1, <3>2
  <2> HIDE DEF s
  <2> QED
    BY <1>1, <1>2, <2>1, <2>2, MakeKeeps DEF s
<1> QED
  BY <1>3, <1>4, <1>5, <1>6

(* ... and when nothing happens.                                           *)
LEMMA StreamStays ==
  ASSUME StreamIInv, UNCHANGED streamVars PROVE StreamIInv'
<1>1. /\ st' = st /\ out' = out /\ upstream' = upstream /\ blocks' = blocks
      /\ started' = started /\ items' = items /\ ended' = ended /\ output' = output
  BY DEF streamVars
<1>2. Now' = Now
  BY <1>1 DEF Now
<1> QED
  BY <1>1, <1>2 DEF StreamIInv, Converting, Telling, Finished

(* The events not yet written always lead Codex to exactly what the        *)
(* converter takes it to have read: the bookkeeping of ChatSseState        *)
(* (indices, ids, texts, what is added and done) never drifts from the     *)
(* stream it has written, whatever the upstream sends up to its [DONE] or  *)
(* error and whenever it breaks.                                           *)
THEOREM StreamInvariant ==
  ASSUME ~ LateBlocks
  PROVE  StreamSpec => []StreamIInv
<1>1. StreamInit => StreamIInv
  BY StreamStarts
<1>2. StreamIInv /\ [StreamNext]_streamVars => StreamIInv'
  BY BlockKeeps, ReadKeeps, StreamStays DEF StreamNext
<1> QED
  BY <1>1, <1>2, PTL DEF StreamSpec

-----------------------------------------------------------------------------

(* The converter has a text for every item Codex has seen closed.          *)
LEMMA ClosedCounted ==
  ASSUME NEW s \in Converters, NEW r \in Readers, ClosedPart(s, r)
  PROVE  Cardinality({i \in DOMAIN r.items : r.items[i].closed = 1}) = Len(s.closed)
<1> DEFINE S == {i \in DOMAIN r.items : r.items[i].closed = 1}
           m == Len(s.closed)
           f == [k \in 1..m |-> s.closed[k].index]
<1>1. m \in Nat /\ DOMAIN s.closed = 1..m
  BY DEF Converters
<1>2. f \in [1..m -> S]
  BY <1>1 DEF ClosedPart
<1>3. \A a, b \in 1..m : f[a] = f[b] => a = b
  BY <1>1 DEF ClosedPart
<1>4. \A i \in S : \E k \in 1..m : f[k] = i
  BY <1>1 DEF ClosedPart
<1> HIDE DEF f, S, m
<1>5. f \in Bijection(1..m, S)
  BY <1>2, <1>3, <1>4 DEF Bijection, Injection, IsInjective, Surjection
<1>6. ExistsBijection(1..m, S)
  BY <1>5 DEF ExistsBijection
<1>7. Cardinality(S) = m
  BY <1>1, <1>6, FS_CountingElements
<1> QED
  BY <1>7 DEF S, m

(* The invariant implies the types, ...                                    *)
LEMMA StreamTyped ==
  StreamIInv => StreamTypeOK
<1> SUFFICES ASSUME StreamIInv PROVE StreamTypeOK
  OBVIOUS
<1>1. Now \in Readers
  BY LedTyped DEF StreamIInv, Telling
<1>2. started \in BOOLEAN /\ ended \in {"-", "completed", "failed"}
  BY <1>1, NowParts DEF Readers
<1>3. st \in Converters /\ (st.mode = "Text" => st.buffer = <<>>)
  BY DEF StreamIInv, Converting, Tidy
<1>4. st.mode \in {"Detecting", "Reasoning", "Text"} /\ st.seen \subseteq Calls
  BY <1>3 DEF Converters
<1>5. ASSUME out = <<>>
      PROVE  /\ Len(items) = st.next - 1
             /\ Cardinality({i \in DOMAIN items : items[i].closed = 1}) = Len(st.closed)
             /\ st.completed = (ended # "-")
  <2>1. Agrees(st, Now, {})
    BY <1>5, Between
  <2>2. ClosedPart(st, Now)
    BY <2>1 DEF Agrees
  <2>3. Cardinality({i \in DOMAIN items : items[i].closed = 1}) = Len(st.closed)
    BY <1>1, <1>3, <2>2, ClosedCounted, NowParts
  <2>4. st.next = Len(items) + 1 /\ Len(items) \in Nat
    BY <1>1, <2>1, NowParts DEF Agrees, Status, Readers
  <2>5. st.completed <=> ended # "-"
    BY <2>1, NowParts DEF Agrees, Status
  <2>6. st.completed \in BOOLEAN
    BY <1>3 DEF Converters
  <2> QED
    BY <2>3, <2>4, <2>5, <2>6
<1> QED
  BY <1>2, <1>3, <1>4, <1>5 DEF StreamTypeOK, StreamIInv

(* ... and that a completed response lists every item with its text.       *)
LEMMA StreamWhole ==
  StreamIInv => CompletedIsWhole
<1> SUFFICES ASSUME StreamIInv, ended = "completed" PROVE CompletedIsWhole
  BY DEF CompletedIsWhole
<1>1. Whole(st, Now)
  BY DEF StreamIInv, Finished
<1>2. Len(output) = Len(items)
  BY <1>1, NowParts DEF Whole
<1>3. ASSUME NEW i \in DOMAIN items
      PROVE  /\ output[i].index = i
             /\ CASE items[i].kind = "reasoning" -> IsPrefix(output[i].text, items[i].text)
                  [] items[i].kind = "function_call" /\ items[i].text = <<>> ->
                       \E c \in Calls :
                          /\ st.tools[c].index = i
                          /\ st.tools[c].name = "unknown_tool" \/ output[i].text = <<>>
                  [] OTHER -> output[i].text = items[i].text
  <2>1. /\ output[i].index = i /\ ClosedText(st, items[i], i, output[i].text)
        /\ items[i].kind = "function_call" => \E c \in Calls : st.tools[c].index = i
    BY <1>1, NowParts DEF Whole
  <2>2. CASE items[i].kind = "reasoning"
    BY <2>1, <2>2 DEF ClosedText
  <2>3. CASE items[i].kind = "function_call" /\ items[i].text = <<>>
    <3>1. \E c \in Calls : /\ st.tools[c].index = i
                           /\ st.tools[c].name = "unknown_tool" \/ output[i].text = <<>>
      BY <2>1, <2>3 DEF ClosedText
    <3> QED
      BY <2>1, <2>3, <3>1
  <2>4. CASE items[i].kind = "function_call" /\ items[i].text # <<>>
    <3>1. output[i].text = items[i].text
      BY <2>1, <2>4 DEF ClosedText
    <3> QED
      BY <2>1, <2>4, <3>1
  <2>5. CASE items[i].kind \notin {"reasoning", "function_call"}
    <3>1. output[i].text = items[i].text
      BY <2>1, <2>5 DEF ClosedText
    <3> QED
      BY <2>1, <2>5, <3>1
  <2> QED
    BY <2>2, <2>3, <2>4, <2>5
<1> QED
  BY <1>2, <1>3 DEF CompletedIsWhole

(* What the converter knows is what Codex has, and the response a          *)
(* completed stream ends with lists every item once, in order, with the    *)
(* text of its deltas (finalize_into).                                     *)
THEOREM StreamSafe ==
  ASSUME ~ LateBlocks
  PROVE  StreamSpec => []StreamInv
<1>1. StreamIInv => StreamInv
  BY StreamTyped, StreamWhole DEF StreamInv
<1> QED
  BY <1>1, StreamInvariant, PTL

(* What was joined to a text can be cut off again.                         *)
LEMMA TailOfJoined ==
  ASSUME NEW a \in Text, NEW b \in Text
  PROVE  LET c == a \o b
         IN  /\ Len(c) \in Nat /\ Len(a) + 1 \in 1..(Len(c) + 1) /\ (b # <<>> => Len(a) + 1 <= Len(c))
             /\ SubSeq(c, Len(a) + 1, Len(c)) = b
<1> DEFINE c == a \o b
           d == SubSeq(c, Len(a) + 1, Len(c))
<1>1. Len(a) \in Nat /\ Len(b) \in Nat /\ Len(c) = Len(a) + Len(b) /\ c \in Text
  BY DEF Text
<1>2. b # <<>> => Len(b) > 0
  BY DEF Text
<1>3. \A k \in 1..Len(b) : c[Len(a) + k] = b[k]
  BY DEF Text
<1>4. d \in Seq(Word) /\ b \in Seq(Word) /\ Len(d) = Len(b)
  BY <1>1 DEF Text
<1>5. \A k \in 1..Len(b) : d[k] = c[Len(a) + 1 + k - 1]
  BY <1>1 DEF Text
<1>6. \A k \in 1..Len(b) : d[k] = b[k]
  <2> TAKE k \in 1..Len(b)
  <2>1. Len(a) + 1 + k - 1 = Len(a) + k
    BY <1>1
  <2> HIDE DEF c, d
  <2> QED
    BY <1>3, <1>5, <2>1
<1> HIDE DEF d, c
<1>7. d = b
  BY <1>4, <1>6
<1> QED
  BY <1>1, <1>2, <1>7 DEF c, d

(* Every event Codex reads is a step of the promised stream.               *)
LEMMA ReadPromised ==
  ASSUME StreamIInv, Read PROVE [Promised!Next]_<<started, items, ended>>
<1> DEFINE e == Head(out)
<1>1. e \in Events /\ Legal(Now, e) /\ Now \in Readers /\ Now' = ReadOn(Now, e)
  BY ReadIs
<1> HIDE DEF e
<1>2. Now' = [started |-> started', ended |-> ended', items |-> items', output |-> output']
  BY DEF Now
<1>3. Now'.started = started' /\ Now'.ended = ended' /\ Now'.items = items'
  BY <1>2
<1>4. e.ev \in Kinds
  BY <1>1, EventParts
<1>5. CASE e.ev = "created"
  <2>1. ~ started
    BY <1>1, <1>5, NowParts DEF Legal
  <2>2. started' = TRUE /\ ended' = ended /\ items' = items
    BY <1>1, <1>3, <1>5, NowParts DEF ReadOn, Readers
  <2> QED
    BY <2>1, <2>2 DEF Promised!Next, Promised!Created
<1>6. CASE e.ev # "created" /\ e.ev # "failed"
  <2>1. started /\ ended = "-" /\ started' = started
    <3>1. Now.started /\ Now.ended = "-"
      BY <1>1, <1>4, <1>6 DEF Legal, Alive, Kinds
    <3>2. ReadOn(Now, e).started = Now.started
      BY <1>1, <1>4, <1>6 DEF ReadOn, Kinds, Readers
    <3> QED
      BY <1>1, <1>3, <3>1, <3>2, NowParts
  <2>2. Promised!Running
    BY <2>1 DEF Promised!Running
  <2>3. CASE e.ev = "added"
    <3> DEFINE item == [kind |-> e.kind, id |-> e.id, text |-> <<>>, closed |-> 0]
    <3>1. ReadOn(Now, e) = [Now EXCEPT !.items = Append(@, item)]
      BY <2>3 DEF ReadOn
    <3>2. ended' = ended /\ items' = Append(items, item)
      BY <1>1, <1>3, <3>1, NowParts DEF Readers
    <3>3. Len(items) + 1 \in DOMAIN items' /\ items'[Len(items) + 1] = item
      <4>1. items \in Seq(ShownItem)
        BY <1>1, NowParts DEF Readers
      <4> HIDE DEF item
      <4> QED
        BY <3>2, <4>1
    <3>4. e.kind \in Promised!Kinds /\ items'[Len(items) + 1].id = e.id
      BY <1>1, <2>3, <3>3, EventParts
    <3>5. e.id \in {items'[i].id : i \in DOMAIN items'}
      BY <3>3, <3>4
    <3>6. Promised!Added
      BY <2>1, <2>2, <3>2, <3>4, <3>5 DEF Promised!Added
    <3> QED
      BY <3>6 DEF Promised!Next
  <2>4. CASE e.ev = "delta"
    <3> DEFINE i == e.index
               old == items[i].text
               c == old \o e.text
    <3>1. i \in DOMAIN items /\ (items[i].closed = 0 \/ items[i].kind = "reasoning")
      BY <1>1, <2>4, NowParts DEF Legal
    <3>2. ReadOn(Now, e) = [Now EXCEPT !.items = Extended(Now.items, i, e.text)]
      BY <2>4 DEF ReadOn
    <3>3. ended' = ended /\ items' = Extended(items, i, e.text)
      BY <1>1, <1>3, <3>2, NowParts DEF Readers
    <3>4. items' = [items EXCEPT ![i].text = c]
      BY <3>3 DEF Extended
    <3>5. items[i] \in ShownItem /\ e.text \in Text
      BY <1>1, <2>4, <3>1, EventParts, NowParts DEF Readers
    <3>6. old \in Text
      BY <3>5 DEF ShownItem
    <3>7. /\ Len(c) \in Nat /\ Len(old) + 1 \in 1..(Len(c) + 1) /\ (e.text # <<>> => Len(old) + 1 <= Len(c))
          /\ SubSeq(c, Len(old) + 1, Len(c)) = e.text
      BY <3>5, <3>6, TailOfJoined
    <3>8. DOMAIN items' = DOMAIN items /\ items'[i].text = c
      BY <3>1, <3>4, <3>5 DEF ShownItem
    <3> HIDE DEF i
    <3>9. CASE e.text = <<>>
      <4>1. c = old
        BY <3>6, <3>9 DEF Text
      <4>2. items' = items
        <5>1. items \in Seq(ShownItem)
          BY <1>1, NowParts DEF Readers
        <5>2. items[i] = [items[i] EXCEPT !.text = old]
          BY <3>5 DEF ShownItem
        <5> HIDE DEF old, c
        <5> QED
          BY <3>1, <3>4, <4>1, <5>1, <5>2
      <4> QED
        BY <2>1, <3>3, <4>2
    <3>10. CASE e.text # <<>>
      <4>1. Len(old) + 1 \in 1..Len(items'[i].text)
        <5>1. Len(old) \in Nat /\ items'[i].text = c
          BY <3>6, <3>8 DEF Text
        <5> HIDE DEF old, c
        <5> QED
          BY <3>7, <3>10, <5>1
      <4>2. SubSeq(items'[i].text, Len(old) + 1, Len(items'[i].text)) = e.text
        BY <3>7, <3>8
      <4>3. \E n \in 1..Len(items'[i].text) :
              items' = [items EXCEPT ![i].text = @ \o SubSeq(items'[i].text, n, Len(items'[i].text))]
        BY <3>4, <4>1, <4>2
      <4>4. Promised!Delta
        BY <2>1, <2>2, <3>1, <3>3, <3>8, <4>3 DEF Promised!Delta
      <4> QED
        BY <4>4 DEF Promised!Next
    <3> QED
      BY <3>9, <3>10
  <2>5. CASE e.ev = "done"
    <3>1. e.index \in DOMAIN items /\ items[e.index].closed = 0
      BY <1>1, <2>5, NowParts DEF Legal
    <3>2. ReadOn(Now, e) = [Now EXCEPT !.items = Shut(Now.items, e.index)]
      BY <2>5 DEF ReadOn
    <3>3. ended' = ended /\ items' = Shut(items, e.index)
      BY <1>1, <1>3, <3>2, NowParts DEF Readers
    <3>4. Promised!Done
      BY <2>1, <2>2, <3>1, <3>3 DEF Promised!Done, Shut
    <3> QED
      BY <3>4 DEF Promised!Next
  <2>6. CASE e.ev = "completed"
    <3>1. \A i \in DOMAIN items : items[i].closed = 1
      BY <1>1, <2>6, NowParts DEF Legal
    <3>2. ended' = "completed" /\ items' = items
      BY <1>1, <1>3, <2>6, NowParts DEF ReadOn, Readers
    <3>3. Promised!Completed
      BY <2>1, <2>2, <3>1, <3>2 DEF Promised!Completed
    <3> QED
      BY <3>3 DEF Promised!Next
  <2> QED
    BY <1>4, <1>6, <2>3, <2>4, <2>5, <2>6 DEF Kinds
<1>7. CASE e.ev = "failed"
  <2>1. ReadOn(Now, e) = [Now EXCEPT !.ended = "failed"]
    BY <1>7 DEF ReadOn
  <2>2. ended' = "failed" /\ items' = items /\ started' = started
    BY <1>1, <1>3, <2>1, NowParts DEF Readers
  <2>3. CASE ended = "failed"
    BY <2>2, <2>3
  <2>4. CASE ended # "failed"
    <3>1. Promised!Failed
      BY <2>2, <2>4 DEF Promised!Failed
    <3> QED
      BY <3>1 DEF Promised!Next
  <2> QED
    BY <2>3, <2>4
<1> QED
  BY <1>5, <1>6, <1>7

(* What Codex reads is a well-formed Responses stream: each step of the    *)
(* converter and its reader is one of ResponseStream or changes nothing    *)
(* there.                                                                  *)
THEOREM StreamWellFormed ==
  ASSUME ~ LateBlocks
  PROVE  StreamSpec => WellFormed
<1>1. StreamInit => Promised!Init
  BY DEF StreamInit, Promised!Init
<1>2. StreamIInv /\ [StreamNext]_streamVars => [Promised!Next]_<<started, items, ended>>
  <2> SUFFICES ASSUME StreamIInv, [StreamNext]_streamVars
               PROVE  [Promised!Next]_<<started, items, ended>>
    OBVIOUS
  <2>1. CASE Read
    BY <2>1, ReadPromised
  <2>2. CASE ReceiveChunk \/ ReceiveDone \/ ReceiveError \/ ReadFails \/ EndOfStream
    BY <2>2 DEF ReceiveChunk, ReceiveDone, ReceiveError, ReadFails, EndOfStream, reader
  <2>3. CASE UNCHANGED streamVars
    BY <2>3 DEF streamVars
  <2> QED
    BY <2>1, <2>2, <2>3 DEF StreamNext
<1> QED
  BY <1>1, <1>2, StreamInvariant, PTL DEF StreamSpec, WellFormed, Promised!Spec
=============================================================================
