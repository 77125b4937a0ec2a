------------------------ MODULE SearchSessionProofs ------------------------
(***************************************************************************)
(* What is sent for any call: the criteria of the search in the body, and  *)
(* the headers of the call, the secret and the settings.                   *)
(***************************************************************************)
EXTENDS SearchSession, SequenceTheorems, FiniteSetTheorems, TLAPS

(***************************************************************************)
(* Induction over the natural numbers: the set of those that have a        *)
(* property, rather than the property, is what the theorems quantify over. *)
(***************************************************************************)
(* A nonempty set of natural numbers has a least element.                  *)
LEMMA LeastNumber ==
  ASSUME NEW T \in SUBSET Nat, T # {}
  PROVE  \E m \in T : \A n \in T : m <= n
<1> DEFINE upto == {0..k : k \in T}
<1>1. upto \subseteq FiniteSubsetsOf(Nat) /\ upto # {}
  <2>1. ASSUME NEW k \in T PROVE 0..k \in SUBSET Nat /\ IsFiniteSet(0..k)
    BY FS_Interval
  <2> QED BY <2>1 DEF FiniteSubsetsOf
<1>2. PICK X \in upto : \A Y \in upto : <<Y, X>> \notin StrictSubsetOrdering(Nat)
  <2> HIDE DEF upto
  <2> QED BY <1>1, WFMin, FS_StrictSubsetOrderingWellFounded
<1>3. PICK m \in T : X = 0..m
  OBVIOUS
<1>4. ASSUME NEW n \in T, n < m
      PROVE  FALSE
  <2>1. 0..n \in upto
    OBVIOUS
  <2>2. 0..n \subseteq 0..m /\ 0..n # 0..m /\ 0..n \subseteq Nat /\ 0..m \subseteq Nat
    BY <1>4
  <2> QED BY <1>2, <1>3, <2>1, <2>2 DEF StrictSubsetOrdering
<1> QED BY <1>4

LEMMA Induction ==
  ASSUME NEW P, 0 \in P, \A n \in Nat : n \in P => n + 1 \in P
  PROVE  Nat \subseteq P
<1> DEFINE rest == {n \in Nat : n \notin P}
<1> SUFFICES ASSUME rest # {} PROVE FALSE
  OBVIOUS
<1>1. PICK m \in rest : \A n \in rest : m <= n
  BY LeastNumber
<1>2. m - 1 \in Nat /\ m - 1 \in P
  BY <1>1
<1> QED BY <1>1, <1>2

(***************************************************************************)
(* The body.                                                               *)
(***************************************************************************)
(* Written adds one criterion after the other.                             *)
Writes(w, criteria, n) ==
  w = [i \in 0..n |-> IF i = 0 THEN Start ELSE AddCriterion(w[i - 1], criteria[i])]

LEMMA WrittenUnfolds ==
  ASSUME NEW criteria, Len(criteria) \in Nat
  PROVE  \E w : Writes(w, criteria, Len(criteria)) /\ Written(criteria) = w[Len(criteria)].text
<1> DEFINE P == {n \in Nat : \E w : Writes(w, criteria, n)}
<1>1. 0 \in P
  <2>1. Writes([i \in 0..0 |-> Start], criteria, 0)
    BY DEF Writes
  <2> QED BY <2>1
<1>2. ASSUME NEW n \in Nat, n \in P
      PROVE  n + 1 \in P
  <2>1. PICK w : Writes(w, criteria, n)
    BY <1>2
  <2> DEFINE next == [i \in 0..(n + 1) |-> IF i = n + 1 THEN AddCriterion(w[n], criteria[n + 1]) ELSE w[i]]
  <2>2. ASSUME NEW i \in 0..(n + 1)
        PROVE  next[i] = IF i = 0 THEN Start ELSE AddCriterion(next[i - 1], criteria[i])
    <3>1. CASE i = n + 1
      BY <3>1
    <3>2. CASE i # n + 1
      <4>1. i \in 0..n
        BY <3>2
      <4>2. w[i] = IF i = 0 THEN Start ELSE AddCriterion(w[i - 1], criteria[i])
        BY <2>1, <4>1 DEF Writes
      <4>3. next[i] = w[i] /\ (i # 0 => next[i - 1] = w[i - 1])
        BY <4>1
      <4> HIDE DEF next
      <4> QED BY <4>2, <4>3
    <3> QED BY <3>1, <3>2
  <2>3. next = [i \in 0..(n + 1) |-> next[i]]
    OBVIOUS
  <2>4. Writes(next, criteria, n + 1)
    <3> HIDE DEF next
    <3> QED BY <2>2, <2>3 DEF Writes
  <2> QED BY <2>4
<1>3. Len(criteria) \in P
  <2> HIDE DEF P
  <2> QED BY <1>1, <1>2, Induction
<1>4. \E w : Writes(w, criteria, Len(criteria))
  BY <1>3
<1> QED
  BY <1>4, Zenon DEF Written, Writes

(* A text that lists members, each a key and a value, with a comma between *)
(* any two.                                                                *)
Lists(text, members) ==
  /\ Len(text) = IF members = <<>> THEN 1 ELSE 3 * Len(members)
  /\ text[1] = Open
  /\ \A j \in 1..Len(members) :
       /\ text[3 * j - 1] = <<"key", members[j][1]>>
       /\ text[3 * j] = <<"value", members[j][2]>>
  /\ \A j \in 2..Len(members) : text[3 * j - 2] = Comma

(* One more member, after a comma unless it is the first.                  *)
LEMMA ListsMore ==
  ASSUME NEW X, NEW Y, NEW text \in Seq(X), NEW comma \in Seq(X), NEW pair \in Seq(X),
         NEW members \in Seq(Y), NEW member \in Y,
         Lists(text, members), Comma \in X,
         comma = IF members = <<>> THEN <<>> ELSE <<Comma>>,
         Len(pair) = 2, pair[1] = <<"key", member[1]>>, pair[2] = <<"value", member[2]>>
  PROVE  Lists((text \o comma) \o pair, Append(members, member))
<1>1. PICK n \in Nat : n = Len(members)
  OBVIOUS
<1>2. PICK more \in Seq(Y) : more = Append(members, member)
  BY ONLY AppendProperties, members \in Seq(Y), member \in Y
<1>3. Len(more) = n + 1 /\ more # <<>> /\ more[n + 1] = member /\ \A j \in 1..n : more[j] = members[j]
  BY ONLY AppendProperties, <1>1, <1>2, members \in Seq(Y), member \in Y
<1>4. members = <<>> <=> n = 0
  BY ONLY <1>1, members \in Seq(Y)
<1>5. /\ Len(text) = (IF n = 0 THEN 1 ELSE 3 * n) /\ text[1] = Open
      /\ \A j \in 1..n : text[3 * j - 1] = <<"key", members[j][1]>> /\ text[3 * j] = <<"value", members[j][2]>>
      /\ \A j \in 2..n : text[3 * j - 2] = Comma
  BY ONLY Lists(text, members), <1>1, <1>4 DEF Lists
<1>6. PICK front \in Seq(X) : front = text \o comma
  BY ONLY ConcatProperties, text \in Seq(X), comma \in Seq(X)
<1>7. /\ Len(front) = 3 * n + 1
      /\ \A i \in 1..Len(text) : front[i] = text[i]
      /\ n > 0 => front[3 * n + 1] = Comma
  <2>1. CASE n = 0
    <3>1. comma = <<>>
      BY <1>4, <2>1
    <3>2. front = text
      BY ONLY <3>1, <1>6, text \in Seq(X)
    <3> QED BY ONLY <3>2, <1>5, <2>1
  <2>2. CASE n > 0
    <3>1. comma = <<Comma>>
      BY <1>4, <2>2
    <3>2. Len(comma) = 1 /\ comma[1] = Comma
      BY ONLY <3>1
    <3>3. Len(text) = 3 * n
      BY ONLY <1>5, <2>2
    <3>4. \A i \in 1..Len(text) : front[i] = text[i]
      BY ONLY ConcatProperties, <1>6, text \in Seq(X), comma \in Seq(X)
    <3>5. Len(front) = Len(text) + Len(comma)
          /\ \A i \in (Len(text) + 1)..(Len(text) + Len(comma)) : front[i] = comma[i - Len(text)]
      BY ONLY ConcatProperties, <1>6, text \in Seq(X), comma \in Seq(X)
    <3>6. Len(text) + 1 \in (Len(text) + 1)..(Len(text) + 1) /\ (Len(text) + 1) - Len(text) = 1
      BY ONLY <3>3, n \in Nat
    <3>7. front[Len(text) + 1] = Comma
      BY ONLY <3>2, <3>5, <3>6
    <3> QED BY ONLY <3>2, <3>3, <3>4, <3>5, <3>7
  <2> QED BY <2>1, <2>2
<1>8. PICK all \in Seq(X) : all = front \o pair
  BY ONLY ConcatProperties, front \in Seq(X), pair \in Seq(X)
<1>9. /\ Len(all) = 3 * n + 3
      /\ all[3 * n + 2] = pair[1] /\ all[3 * n + 3] = pair[2]
      /\ \A i \in 1..(3 * n + 1) : all[i] = front[i]
  <2>1. Len(front) = 3 * n + 1
    BY ONLY <1>7
  <2>2. /\ Len(all) = Len(front) + Len(pair)
        /\ \A i \in 1..Len(front) : all[i] = front[i]
        /\ \A i \in (Len(front) + 1)..(Len(front) + Len(pair)) : all[i] = pair[i - Len(front)]
    BY ONLY ConcatProperties, <1>8, front \in Seq(X), pair \in Seq(X)
  <2>3. /\ 3 * n + 2 \in (3 * n + 1 + 1)..(3 * n + 1 + 2) /\ 3 * n + 2 - (3 * n + 1) = 1
        /\ 3 * n + 3 \in (3 * n + 1 + 1)..(3 * n + 1 + 2) /\ 3 * n + 3 - (3 * n + 1) = 2
        /\ 3 * n + 1 + 2 = 3 * n + 3
    BY ONLY n \in Nat
  <2>4. /\ Len(all) = 3 * n + 1 + 2
        /\ \A i \in 1..(3 * n + 1) : all[i] = front[i]
        /\ \A i \in (3 * n + 1 + 1)..(3 * n + 1 + 2) : all[i] = pair[i - (3 * n + 1)]
    BY ONLY <2>1, <2>2, Len(pair) = 2
  <2> QED BY ONLY <2>3, <2>4
<1>10. Len(text) \in Nat /\ Len(text) <= 3 * n + 1 /\ 1 <= Len(text)
  BY ONLY <1>5, n \in Nat
<1>11. \A i \in 1..Len(text) : all[i] = text[i]
  BY ONLY <1>7, <1>9, <1>10, n \in Nat
<1>12. all[1] = Open
  BY ONLY <1>5, <1>10, <1>11
<1>13. ASSUME NEW j \in 1..(n + 1)
       PROVE  all[3 * j - 1] = <<"key", more[j][1]>> /\ all[3 * j] = <<"value", more[j][2]>>
  <2>1. CASE j = n + 1
    <3>1. 3 * j - 1 = 3 * n + 2 /\ 3 * j = 3 * n + 3
      BY ONLY <2>1, n \in Nat
    <3>2. more[j] = member
      BY ONLY <2>1, <1>3
    <3> QED
      BY <3>1, <3>2, <1>9
  <2>2. CASE j \in 1..n
    <3>1. 3 * j - 1 \in 1..Len(text) /\ 3 * j \in 1..Len(text)
      BY ONLY <1>5, <2>2, n \in Nat
    <3>2. all[3 * j - 1] = text[3 * j - 1] /\ all[3 * j] = text[3 * j]
      BY ONLY <3>1, <1>11
    <3> QED BY ONLY <3>2, <1>3, <1>5, <2>2
  <2> QED BY ONLY <2>1, <2>2, n \in Nat, j \in 1..(n + 1)
<1>14. ASSUME NEW j \in 2..(n + 1)
       PROVE  all[3 * j - 2] = Comma
  <2>1. CASE j = n + 1
    <3>1. 3 * j - 2 = 3 * n + 1 /\ n > 0
      BY ONLY <2>1, n \in Nat, j \in 2..(n + 1)
    <3>2. 3 * n + 1 \in 1..(3 * n + 1)
      BY ONLY n \in Nat
    <3> QED BY ONLY <3>1, <3>2, <1>7, <1>9
  <2>2. CASE j \in 2..n
    <3>1. 3 * j - 2 \in 1..Len(text)
      BY ONLY <1>5, <2>2, n \in Nat
    <3> QED BY ONLY <3>1, <1>5, <1>11, <2>2
  <2> QED BY ONLY <2>1, <2>2, n \in Nat, j \in 2..(n + 1)
<1>15. Len(all) = IF more = <<>> THEN 1 ELSE 3 * Len(more)
  BY ONLY <1>3, <1>9, n \in Nat
<1>16. Lists(all, more)
  BY ONLY <1>3, <1>12, <1>13, <1>14, <1>15 DEF Lists
<1> QED
  BY <1>2, <1>6, <1>8, <1>16

(* One more criterion is one more member.                                  *)
LEMMA AddMember ==
  ASSUME NEW X, NEW Y, NEW w, NEW c, NEW members \in Seq(Y),
         w.text \in Seq(X), Lists(w.text, members),
         w.first_param = (members = <<>>),
         c.given, Comma \in X, <<"key", c.key>> \in X, <<"value", c.value>> \in X,
         <<c.key, c.value>> \in Y
  PROVE  /\ AddCriterion(w, c).text \in Seq(X)
         /\ AddCriterion(w, c).first_param = FALSE
         /\ Lists(AddCriterion(w, c).text, Append(members, <<c.key, c.value>>))
<1>1. PICK text \in Seq(X) : text = w.text
  OBVIOUS
<1>2. PICK comma \in Seq(X) : comma = IF w.first_param THEN <<>> ELSE <<Comma>>
  <2>1. <<Comma>> \in Seq(X) /\ <<>> \in Seq(X)
    BY ONLY Comma \in X
  <2> QED BY ONLY <2>1
<1>3. PICK pair \in Seq(X) : pair = Pair(c)
  <2>1. PICK k \in X, v \in X : k = <<"key", c.key>> /\ v = <<"value", c.value>>
    OBVIOUS
  <2>2. <<k, v>> \in Seq(X)
    BY ONLY k \in X, v \in X
  <2> QED BY ONLY <2>1, <2>2 DEF Pair
<1>4. Len(pair) = 2 /\ pair[1] = <<"key", c.key>> /\ pair[2] = <<"value", c.value>>
  BY <1>3 DEF Pair
<1>5. AddCriterion(w, c) = [first_param |-> FALSE, text |-> (text \o comma) \o pair]
  BY <1>1, <1>2, <1>3 DEF AddCriterion
<1>6. AddCriterion(w, c).first_param = FALSE /\ AddCriterion(w, c).text = (text \o comma) \o pair
  BY ONLY <1>5
<1>7. (text \o comma) \o pair \in Seq(X)
  BY ONLY ConcatProperties, text \in Seq(X), comma \in Seq(X), pair \in Seq(X)
<1>8. PICK member \in Y : member = <<c.key, c.value>>
  OBVIOUS
<1>9. member[1] = c.key /\ member[2] = c.value
  BY ONLY <1>8
<1>10. comma = IF members = <<>> THEN <<>> ELSE <<Comma>>
  BY <1>2
<1>11. Lists((text \o comma) \o pair, Append(members, member))
  <2>1. Lists(text, members) /\ Comma \in X
    BY <1>1
  <2>2. pair[1] = <<"key", member[1]>> /\ pair[2] = <<"value", member[2]>>
    BY ONLY <1>4, <1>9
  <2> QED BY ONLY <1>4, <1>10, <2>1, <2>2, ListsMore, text \in Seq(X), comma \in Seq(X), pair \in Seq(X),
            members \in Seq(Y), member \in Y
<1> QED
  BY ONLY <1>6, <1>7, <1>8, <1>11

(* The members that the first n criteria give.                             *)
Given(criteria, n) ==
  {<<criteria[j].key, criteria[j].value>> : j \in {i \in 1..n : criteria[i].given}}

(* Each member once, and no other.                                         *)
OnceEach(members, set) ==
  /\ {members[j] : j \in 1..Len(members)} = set
  /\ \A i, j \in 1..Len(members) : members[i][1] = members[j][1] => i = j

(* What the members and the text are made of.                              *)
MemberOf(criteria) == {<<criteria[j].key, criteria[j].value>> : j \in 1..Len(criteria)}
TokenOf(criteria) ==
  {Open, Comma, Close} \cup {<<"key", criteria[j].key>> : j \in 1..Len(criteria)}
    \cup {<<"value", criteria[j].value>> : j \in 1..Len(criteria)}

(* After n criteria the text lists those of them that are given.           *)
ListedAs(w, criteria, n, members) ==
  /\ w[n].text \in Seq(TokenOf(criteria)) /\ Lists(w[n].text, members)
  /\ w[n].first_param = (members = <<>>)
  /\ OnceEach(members, Given(criteria, n))

Listed(w, criteria, n) ==
  n <= Len(criteria) => \E members \in Seq(MemberOf(criteria)) : ListedAs(w, criteria, n, members)

(* Criteria of different names are listed once each, if they are given.    *)
LEMMA WrittenLists ==
  ASSUME NEW criteria, Len(criteria) \in Nat,
         \A i, j \in 1..Len(criteria) : criteria[i].key = criteria[j].key => i = j
  PROVE  \E members \in Seq(MemberOf(criteria)) :
           /\ Written(criteria) \in Seq(TokenOf(criteria))
           /\ Lists(Written(criteria), members)
           /\ OnceEach(members, Given(criteria, Len(criteria)))
<1> DEFINE N == Len(criteria)
           Y == MemberOf(criteria)
           X == TokenOf(criteria)
<1>1. PICK w : Writes(w, criteria, N) /\ Written(criteria) = w[N].text
  BY WrittenUnfolds
<1> DEFINE P == {n \in Nat : Listed(w, criteria, n)}
<1>2. 0 \in P
  <2>1. w[0] = Start
    BY <1>1 DEF Writes
  <2>2. Start.text \in Seq(X)
    <3>1. Open \in X
      BY DEF TokenOf
    <3> HIDE DEF X
    <3> QED BY <3>1 DEF Start
  <2>3. Lists(Start.text, <<>>) /\ Start.first_param = TRUE
    BY DEF Lists, Start
  <2>4. Given(criteria, 0) = {}
    BY DEF Given
  <2>5. OnceEach(<<>>, {})
    BY DEF OnceEach
  <2>6. <<>> \in Seq(Y)
    BY EmptySeq
  <2>7. ListedAs(w, criteria, 0, <<>>)
    BY <2>1, <2>2, <2>3, <2>4, <2>5 DEF ListedAs
  <2>8. Listed(w, criteria, 0)
    BY <2>6, <2>7 DEF Listed
  <2> QED BY <2>8
<1>3. ASSUME NEW n \in Nat, n \in P
      PROVE  n + 1 \in P
  <2>0. Listed(w, criteria, n)
    BY <1>3
  <2> SUFFICES Listed(w, criteria, n + 1)
    OBVIOUS
  <2> SUFFICES ASSUME n + 1 <= N PROVE \E members \in Seq(Y) : ListedAs(w, criteria, n + 1, members)
    BY DEF Listed
  <2> DEFINE c == criteria[n + 1]
  <2>1. PICK members \in Seq(Y) : ListedAs(w, criteria, n, members)
    BY <2>0 DEF Listed
  <2>2. w[n + 1] = AddCriterion(w[n], c)
    <3>1. n + 1 \in 0..N /\ n + 1 # 0 /\ (n + 1) - 1 = n
      OBVIOUS
    <3> HIDE DEF N
    <3> QED BY <1>1, <3>1 DEF Writes
  <2>3. n + 1 \in 1..N /\ 1..(n + 1) = (1..n) \cup {n + 1} /\ n + 1 \notin 1..n /\ 1..n \subseteq 1..N
    OBVIOUS
  <2>4. CASE ~c.given
    <3>1. w[n + 1] = w[n]
      BY <2>2, <2>4 DEF AddCriterion
    <3>2. Given(criteria, n + 1) = Given(criteria, n)
      BY <2>3, <2>4 DEF Given
    <3>3. ListedAs(w, criteria, n + 1, members)
      BY <2>1, <3>1, <3>2 DEF ListedAs
    <3> QED BY <3>3
  <2>5. CASE c.given
    <3>1. PICK member \in Y : member = <<c.key, c.value>>
      <4>1. <<c.key, c.value>> \in Y
        BY <2>3 DEF MemberOf
      <4> HIDE DEF Y
      <4> QED BY ONLY <4>1
    <3>2. PICK more \in Seq(Y) : more = Append(members, member)
      <4> HIDE DEF Y
      <4> QED BY ONLY AppendProperties, members \in Seq(Y), member \in Y
    <3>3. Comma \in X /\ <<"key", c.key>> \in X /\ <<"value", c.value>> \in X /\ <<c.key, c.value>> \in Y
      BY <2>3 DEF TokenOf, MemberOf
    <3>4. /\ AddCriterion(w[n], c).text \in Seq(X)
          /\ AddCriterion(w[n], c).first_param = FALSE
          /\ Lists(AddCriterion(w[n], c).text, Append(members, <<c.key, c.value>>))
      <4>1. /\ w[n].text \in Seq(X) /\ Lists(w[n].text, members)
            /\ w[n].first_param = (members = <<>>)
        BY <2>1 DEF ListedAs
      <4> HIDE DEF X, Y, c
      <4> QED BY <2>5, <3>3, <4>1, AddMember
    <3>5. /\ Len(more) = Len(members) + 1 /\ Len(members) \in Nat /\ more # <<>>
          /\ more[Len(members) + 1] = member
          /\ \A j \in 1..Len(members) : more[j] = members[j]
      <4> HIDE DEF X, Y, c
      <4> QED BY ONLY AppendProperties, <3>2, members \in Seq(Y), member \in Y
    <3>6. Given(criteria, n + 1) = Given(criteria, n) \cup {member}
      BY <2>3, <2>5, <3>1 DEF Given
    <3>7. OnceEach(more, Given(criteria, n + 1))
      <4>1. ASSUME NEW j \in 1..Len(members)
            PROVE  members[j][1] # member[1]
        <5>1. members[j] \in Given(criteria, n)
          BY <2>1 DEF ListedAs, OnceEach
        <5>2. PICK i \in 1..n : members[j] = <<criteria[i].key, criteria[i].value>>
          BY <5>1 DEF Given
        <5>3. criteria[i].key # c.key
          BY <2>3
        <5> QED BY <3>1, <5>2, <5>3
      <4>2. OnceEach(members, Given(criteria, n))
        BY <2>1 DEF ListedAs
      <4>3. 1..Len(more) = (1..Len(members)) \cup {Len(members) + 1}
        BY <3>5
      <4> HIDE DEF X, Y, c
      <4>4. {more[j] : j \in 1..Len(more)} = {members[j] : j \in 1..Len(members)} \cup {member}
        BY ONLY <3>5, <4>3
      <4>5. ASSUME NEW i \in 1..Len(more), NEW j \in 1..Len(more), more[i][1] = more[j][1]
            PROVE  i = j
        BY <3>5, <4>1, <4>2, <4>3, <4>5 DEF OnceEach
      <4> QED BY <3>6, <4>2, <4>4, <4>5 DEF OnceEach
    <3>8. ListedAs(w, criteria, n + 1, more)
      BY <2>2, <3>1, <3>2, <3>4, <3>5, <3>7 DEF ListedAs
    <3> QED BY <3>8
  <2> QED BY <2>4, <2>5
<1>4. N \in P
  <2> HIDE DEF P
  <2> QED BY <1>2, <1>3, Induction
<1>5. PICK members \in Seq(Y) : ListedAs(w, criteria, N, members)
  BY <1>4 DEF Listed
<1> QED BY <1>1, <1>5 DEF ListedAs

(* Closed, a list of at least one member is an object with these members.  *)
LEMMA ClosedIsObject ==
  ASSUME NEW X, NEW Y, NEW text \in Seq(X), NEW members \in Seq(Y), NEW set,
         Lists(text, members), OnceEach(members, set),
         \A m \in set : m = <<m[1], m[2]>>,
         Close \in X, set # {}
  PROVE  /\ IsObject(Append(text, Close))
         /\ Members(Append(text, Close)) = set
         /\ Len(Append(text, Close)) = 3 * Cardinality(set) + 1
<1>1. PICK k \in Nat : k = Len(members)
  OBVIOUS
<1>2. PICK body \in Seq(X) : body = Append(text, Close)
  BY ONLY AppendProperties, text \in Seq(X), Close \in X
<1>3. k > 0
  BY <1>1 DEF OnceEach
<1>4. /\ Len(text) = 3 * k /\ text[1] = Open
      /\ \A j \in 1..k : text[3 * j - 1] = <<"key", members[j][1]>> /\ text[3 * j] = <<"value", members[j][2]>>
      /\ \A j \in 2..k : text[3 * j - 2] = Comma
  <2>1. members # <<>>
    BY <1>1, <1>3
  <2> QED BY ONLY <1>1, <2>1, Lists(text, members) DEF Lists
<1>5. Len(body) = 3 * k + 1 /\ DOMAIN body = 1..(3 * k + 1) /\ body[3 * k + 1] = Close
      /\ \A i \in 1..(3 * k) : body[i] = text[i]
  <2>1. Len(body) = Len(text) + 1 /\ body[Len(text) + 1] = Close /\ \A i \in 1..Len(text) : body[i] = text[i]
    BY ONLY AppendProperties, <1>2, text \in Seq(X), Close \in X
  <2>2. DOMAIN body = 1..Len(body)
    BY ONLY body \in Seq(X)
  <2> QED BY ONLY <1>4, <2>1, <2>2
<1>6. \A j \in 1..k : body[3 * j - 1] = <<"key", members[j][1]>> /\ body[3 * j] = <<"value", members[j][2]>>
  <2>1. \A j \in 1..k : 3 * j - 1 \in 1..(3 * k) /\ 3 * j \in 1..(3 * k)
    BY ONLY k \in Nat
  <2> QED BY ONLY <1>4, <1>5, <2>1
<1>7. \A j \in 2..k : body[3 * j - 2] = Comma
  <2>1. \A j \in 2..k : 3 * j - 2 \in 1..(3 * k)
    BY ONLY k \in Nat
  <2> QED BY ONLY <1>4, <1>5, <2>1
<1>8. body[1] = Open
  <2>1. 1 \in 1..(3 * k)
    BY ONLY <1>3, k \in Nat
  <2> QED BY ONLY <1>4, <1>5, <2>1
(* An index is that of a key, a value or what stands before a key.         *)
<1>9. ASSUME NEW i \in 2..(3 * k)
      PROVE  /\ i % 3 = 2 => \E j \in 1..k : i = 3 * j - 1
             /\ i % 3 = 0 => \E j \in 1..k : i = 3 * j
             /\ i % 3 = 1 => \E j \in 2..k : i = 3 * j - 2
             /\ i % 3 \in {0, 1, 2}
  <2>1. PICK q \in Nat : q = i \div 3
    BY ONLY i \in 2..(3 * k), k \in Nat
  <2>2. i = 3 * q + (i % 3) /\ i % 3 \in 0..2
    BY ONLY <2>1, i \in 2..(3 * k), k \in Nat
  <2>3. i % 3 = 2 => q + 1 \in 1..k /\ i = 3 * (q + 1) - 1
    BY ONLY <2>2, q \in Nat, i \in 2..(3 * k), k \in Nat
  <2>4. i % 3 = 0 => q \in 1..k /\ i = 3 * q
    BY ONLY <2>2, q \in Nat, i \in 2..(3 * k), k \in Nat
  <2>5. i % 3 = 1 => q + 1 \in 2..k /\ i = 3 * (q + 1) - 2
    BY ONLY <2>2, q \in Nat, i \in 2..(3 * k), k \in Nat
  <2>6. ASSUME i % 3 = 2 PROVE \E j \in 1..k : i = 3 * j - 1
    <3> WITNESS q + 1 \in 1..k
    <3> QED BY ONLY <2>3, <2>6
  <2>7. ASSUME i % 3 = 0 PROVE \E j \in 1..k : i = 3 * j
    <3> WITNESS q \in 1..k
    <3> QED BY ONLY <2>4, <2>7
  <2>8. ASSUME i % 3 = 1 PROVE \E j \in 2..k : i = 3 * j - 2
    <3> WITNESS q + 1 \in 2..k
    <3> QED BY ONLY <2>5, <2>8
  <2>9. i % 3 \in {0, 1, 2}
    BY ONLY <2>2
  <2> QED BY ONLY <2>6, <2>7, <2>8, <2>9
<1>10. IsObject(body)
  <2>1. Len(body) % 3 = 1
    BY ONLY <1>5, k \in Nat
  <2>2. ASSUME NEW i \in 2..(Len(body) - 1)
        PROVE  /\ i % 3 = 2 => body[i][1] = "key"
               /\ i % 3 = 0 => body[i][1] = "value"
               /\ i % 3 = 1 => body[i] = Comma
    <3>1. i \in 2..(3 * k)
      BY ONLY <1>5, k \in Nat, i \in 2..(Len(body) - 1)
    <3>2. ASSUME i % 3 = 2 PROVE body[i][1] = "key"
      <4>1. PICK j \in 1..k : i = 3 * j - 1
        BY <1>9, <3>1, <3>2
      <4>2. body[3 * j - 1] = <<"key", members[j][1]>>
        BY ONLY <1>6, j \in 1..k
      <4> QED BY ONLY <4>1, <4>2
    <3>3. ASSUME i % 3 = 0 PROVE body[i][1] = "value"
      <4>1. PICK j \in 1..k : i = 3 * j
        BY <1>9, <3>1, <3>3
      <4>2. body[3 * j] = <<"value", members[j][2]>>
        BY ONLY <1>6, j \in 1..k
      <4> QED BY ONLY <4>1, <4>2
    <3>4. ASSUME i % 3 = 1 PROVE body[i] = Comma
      <4>1. PICK j \in 2..k : i = 3 * j - 2
        BY <1>9, <3>1, <3>4
      <4>2. body[3 * j - 2] = Comma
        BY ONLY <1>7, j \in 2..k
      <4> QED BY ONLY <4>1, <4>2
    <3> QED BY ONLY <3>2, <3>3, <3>4
  <2> QED BY ONLY <1>5, <1>8, <2>1, <2>2 DEF IsObject
<1>11. {i \in DOMAIN body : body[i][1] = "key"} = {3 * j - 1 : j \in 1..k}
  <2>1. ASSUME NEW i \in DOMAIN body, body[i][1] = "key"
        PROVE  \E j \in 1..k : i = 3 * j - 1
    <3>1. Open[1] # "key" /\ Close[1] # "key" /\ Comma[1] # "key"
      BY DEF Open, Close, Comma
    <3>2. i # 1 /\ i # 3 * k + 1
      BY ONLY <1>5, <1>8, <2>1, <3>1
    <3>3. i \in 2..(3 * k)
      BY ONLY <1>5, <3>2, k \in Nat, i \in DOMAIN body
    <3>4. ASSUME i % 3 = 0 PROVE FALSE
      <4>1. PICK j \in 1..k : i = 3 * j
        BY <1>9, <3>3, <3>4
      <4>2. body[3 * j] = <<"value", members[j][2]>>
        BY ONLY <1>6, j \in 1..k
      <4>3. body[i][1] = "value"
        BY ONLY <4>1, <4>2
      <4> QED BY ONLY <2>1, <4>3
    <3>5. ASSUME i % 3 = 1 PROVE FALSE
      <4>1. PICK j \in 2..k : i = 3 * j - 2
        BY <1>9, <3>3, <3>5
      <4>2. body[3 * j - 2] = Comma
        BY ONLY <1>7, j \in 2..k
      <4> QED BY ONLY <2>1, <3>1, <4>1, <4>2
    <3> QED BY <1>9, <3>3, <3>4, <3>5
  <2>2. ASSUME NEW j \in 1..k
        PROVE  3 * j - 1 \in DOMAIN body /\ body[3 * j - 1][1] = "key"
    <3>1. 3 * j - 1 \in 1..(3 * k + 1)
      BY ONLY k \in Nat, j \in 1..k
    <3>2. body[3 * j - 1] = <<"key", members[j][1]>>
      BY ONLY <1>6, j \in 1..k
    <3>3. body[3 * j - 1][1] = "key"
      BY ONLY <3>2
    <3> QED BY ONLY <1>5, <3>1, <3>3
  <2> QED BY ONLY <2>1, <2>2
<1>12. Members(body) = {<<body[i][2], body[i + 1][2]>> : i \in {3 * j - 1 : j \in 1..k}}
  BY ONLY <1>11 DEF Members
<1>13. ASSUME NEW j \in 1..k
       PROVE  members[j] \in set /\ <<body[3 * j - 1][2], body[(3 * j - 1) + 1][2]>> = members[j]
  <2>1. (3 * j - 1) + 1 = 3 * j
    BY ONLY j \in 1..k, k \in Nat
  <2>2. body[3 * j - 1][2] = members[j][1] /\ body[3 * j][2] = members[j][2]
    BY ONLY <1>6, j \in 1..k
  <2>3. members[j] \in set
    BY ONLY <1>1, j \in 1..k, OnceEach(members, set) DEF OnceEach
  <2>4. members[j] = <<members[j][1], members[j][2]>>
    BY <2>3
  <2> QED BY ONLY <2>1, <2>2, <2>3, <2>4
<1>14. Members(body) = set
  <2>1. set = {members[j] : j \in 1..k}
    BY ONLY <1>1, OnceEach(members, set) DEF OnceEach
  <2>2. Members(body) = {<<body[3 * j - 1][2], body[(3 * j - 1) + 1][2]>> : j \in 1..k}
    BY ONLY <1>12
  <2> QED BY ONLY <1>13, <2>1, <2>2
<1>15. Cardinality(set) = k
  <2> DEFINE f == [j \in 1..k |-> members[j]]
  <2>1. f \in [1..k -> set]
    BY <1>13
  <2>2. \A i, j \in 1..k : f[i] = f[j] => i = j
    BY <1>1 DEF OnceEach
  <2>3. \A m \in set : \E j \in 1..k : f[j] = m
    BY <1>1 DEF OnceEach
  <2> HIDE DEF f
  <2>4. f \in Bijection(1..k, set)
    BY <2>1, <2>2, <2>3 DEF Bijection, Injection, Surjection, IsInjective
  <2>5. ExistsBijection(1..k, set)
    BY <2>4 DEF ExistsBijection
  <2> QED BY ONLY <2>5, FS_CountingElements, k \in Nat
<1> QED
  BY ONLY <1>2, <1>5, <1>10, <1>14, <1>15

(* What DuckDB may give for the parameters.                                *)
ParamsTyped(params) ==
  params.max_items \in Int \cup {Unset} /\ params.bbox \in Seq(Int) \cup {Unset}

(* The criteria one by one.                                                *)
LEMMA CriteriaKeys ==
  ASSUME NEW f, NEW shape, NEW c, c = Criteria(f, shape)
  PROVE  /\ Len(c) = 10
         /\ c[1].key = "collections"
         /\ c[2].key = "ids"
         /\ c[3].key = "datetime"
         /\ c[4].key = "bbox"
         /\ c[5].key = "intersects"
         /\ c[6].key = "filter_lang"
         /\ c[7].key = "filter"
         /\ c[8].key = "fields"
         /\ c[9].key = "sortby"
         /\ c[10].key = "limit"
BY DEF Criteria, Criterion

LEMMA CriteriaGiven ==
  ASSUME NEW f, NEW shape, NEW c, c = Criteria(f, shape)
  PROVE  /\ c[1].given = (f.collections # <<>>)
         /\ c[2].given = (f.ids # <<>>)
         /\ c[3].given = (f.datetime # "")
         /\ c[4].given = (f.bbox # Unset)
         /\ c[5].given = (f.intersects # Unset)
         /\ c[6].given = (f.filter # Unset)
         /\ c[7].given = (f.filter # Unset)
         /\ c[8].given = (f.fields # Unset)
         /\ c[9].given = (f.sortby # Unset)
         /\ c[10].given = (f.max_items > 0)
BY DEF Criteria, Criterion

LEMMA CriteriaValues ==
  ASSUME NEW f, NEW shape, NEW c, c = Criteria(f, shape)
  PROVE  /\ c[1].value = Quoted(f.collections)
         /\ c[2].value = Quoted(f.ids)
         /\ c[3].value = Quoted(f.datetime)
         /\ c[4].value = Quoted(f.bbox)
         /\ c[5].value = Quoted(shape)
         /\ c[6].value = Quoted(f.filter_lang)
         /\ c[7].value = f.filter
         /\ c[8].value = f.fields
         /\ c[9].value = f.sortby
         /\ c[10].value = Quoted(f.max_items)
BY DEF Criteria, Criterion

LEMMA KeysDiffer ==
  ASSUME NEW f, NEW shape,
         NEW i \in 1..10, NEW j \in 1..10,
         Criteria(f, shape)[i].key = Criteria(f, shape)[j].key
  PROVE  i = j
<1>1. PICK c : c = Criteria(f, shape)
  OBVIOUS
<1>2. c[i].key = c[j].key
  BY <1>1
<1>3. i \in {1, 2, 3, 4, 5, 6, 7, 8, 9, 10} /\ j \in {1, 2, 3, 4, 5, 6, 7, 8, 9, 10}
  BY ONLY i \in 1..10, j \in 1..10
<1>4. /\ c[1].key = "collections" /\ c[2].key = "ids" /\ c[3].key = "datetime" /\ c[4].key = "bbox"
      /\ c[5].key = "intersects" /\ c[6].key = "filter_lang" /\ c[7].key = "filter"
      /\ c[8].key = "fields" /\ c[9].key = "sortby" /\ c[10].key = "limit"
  BY <1>1, CriteriaKeys
<1> QED
  BY ONLY <1>2, <1>3, <1>4

(* The member that criterion j gives, if it gives one.                     *)
Gives(criteria, j) ==
  IF criteria[j].given THEN {<<criteria[j].key, criteria[j].value>>} ELSE {}

LEMMA OneGives ==
  ASSUME NEW criteria, NEW j, NEW given \in BOOLEAN, NEW key, NEW value,
         criteria[j].given = given, criteria[j].key = key, criteria[j].value = value
  PROVE  Gives(criteria, j) = IF given THEN {<<key, value>>} ELSE {}
BY DEF Gives

LEMMA CriteriaGive ==
  ASSUME NEW f, NEW shape, NEW c, c = Criteria(f, shape)
  PROVE  /\ Gives(c, 1) = IF f.collections # <<>> THEN {<<"collections", Quoted(f.collections)>>} ELSE {}
         /\ Gives(c, 2) = IF f.ids # <<>> THEN {<<"ids", Quoted(f.ids)>>} ELSE {}
         /\ Gives(c, 3) = IF f.datetime # "" THEN {<<"datetime", Quoted(f.datetime)>>} ELSE {}
         /\ Gives(c, 4) = IF f.bbox # Unset THEN {<<"bbox", Quoted(f.bbox)>>} ELSE {}
         /\ Gives(c, 5) = IF f.intersects # Unset THEN {<<"intersects", Quoted(shape)>>} ELSE {}
         /\ Gives(c, 6) = IF f.filter # Unset THEN {<<"filter_lang", Quoted(f.filter_lang)>>} ELSE {}
         /\ Gives(c, 7) = IF f.filter # Unset THEN {<<"filter", f.filter>>} ELSE {}
         /\ Gives(c, 8) = IF f.fields # Unset THEN {<<"fields", f.fields>>} ELSE {}
         /\ Gives(c, 9) = IF f.sortby # Unset THEN {<<"sortby", f.sortby>>} ELSE {}
         /\ Gives(c, 10) = IF f.max_items > 0 THEN {<<"limit", Quoted(f.max_items)>>} ELSE {}
<1>1. Gives(c, 1) = IF f.collections # <<>> THEN {<<"collections", Quoted(f.collections)>>} ELSE {}
  <2>1. c[1].given = (f.collections # <<>>)
    BY CriteriaGiven
  <2>2. c[1].key = "collections"
    BY CriteriaKeys
  <2>3. c[1].value = Quoted(f.collections)
    BY CriteriaValues
  <2>4. (f.collections # <<>>) \in BOOLEAN
    OBVIOUS
  <2> QED
    BY ONLY OneGives, <2>1, <2>2, <2>3, <2>4
<1>2. Gives(c, 2) = IF f.ids # <<>> THEN {<<"ids", Quoted(f.ids)>>} ELSE {}
  <2>1. c[2].given = (f.ids # <<>>)
    BY CriteriaGiven
  <2>2. c[2].key = "ids"
    BY CriteriaKeys
  <2>3. c[2].value = Quoted(f.ids)
    BY CriteriaValues
  <2>4. (f.ids # <<>>) \in BOOLEAN
    OBVIOUS
  <2> QED
    BY ONLY OneGives, <2>1, <2>2, <2>3, <2>4
<1>3. Gives(c, 3) = IF f.datetime # "" THEN {<<"datetime", Quoted(f.datetime)>>} ELSE {}
  <2>1. c[3].given = (f.datetime # "")
    BY CriteriaGiven
  <2>2. c[3].key = "datetime"
    BY CriteriaKeys
  <2>3. c[3].value = Quoted(f.datetime)
    BY CriteriaValues
  <2>4. (f.datetime # "") \in BOOLEAN
    OBVIOUS
  <2> QED
    BY ONLY OneGives, <2>1, <2>2, <2>3, <2>4
<1>4. Gives(c, 4) = IF f.bbox # Unset THEN {<<"bbox", Quoted(f.bbox)>>} ELSE {}
  <2>1. c[4].given = (f.bbox # Unset)
    BY CriteriaGiven
  <2>2. c[4].key = "bbox"
    BY CriteriaKeys
  <2>3. c[4].value = Quoted(f.bbox)
    BY CriteriaValues
  <2>4. (f.bbox # Unset) \in BOOLEAN
    OBVIOUS
  <2> QED
    BY ONLY OneGives, <2>1, <2>2, <2>3, <2>4
<1>5. Gives(c, 5) = IF f.intersects # Unset THEN {<<"intersects", Quoted(shape)>>} ELSE {}
  <2>1. c[5].given = (f.intersects # Unset)
    BY CriteriaGiven
  <2>2. c[5].key = "intersects"
    BY CriteriaKeys
  <2>3. c[5].value = Quoted(shape)
    BY CriteriaValues
  <2>4. (f.intersects # Unset) \in BOOLEAN
    OBVIOUS
  <2> QED
    BY ONLY OneGives, <2>1, <2>2, <2>3, <2>4
<1>6. Gives(c, 6) = IF f.filter # Unset THEN {<<"filter_lang", Quoted(f.filter_lang)>>} ELSE {}
  <2>1. c[6].given = (f.filter # Unset)
    BY CriteriaGiven
  <2>2. c[6].key = "filter_lang"
    BY CriteriaKeys
  <2>3. c[6].value = Quoted(f.filter_lang)
    BY CriteriaValues
  <2>4. (f.filter # Unset) \in BOOLEAN
    OBVIOUS
  <2> QED
    BY ONLY OneGives, <2>1, <2>2, <2>3, <2>4
<1>7. Gives(c, 7) = IF f.filter # Unset THEN {<<"filter", f.filter>>} ELSE {}
  <2>1. c[7].given = (f.filter # Unset)
    BY CriteriaGiven
  <2>2. c[7].key = "filter"
    BY CriteriaKeys
  <2>3. c[7].value = f.filter
    BY CriteriaValues
  <2>4. (f.filter # Unset) \in BOOLEAN
    OBVIOUS
  <2> QED
    BY ONLY OneGives, <2>1, <2>2, <2>3, <2>4
<1>8. Gives(c, 8) = IF f.fields # Unset THEN {<<"fields", f.fields>>} ELSE {}
  <2>1. c[8].given = (f.fields # Unset)
    BY CriteriaGiven
  <2>2. c[8].key = "fields"
    BY CriteriaKeys
  <2>3. c[8].value = f.fields
    BY CriteriaValues
  <2>4. (f.fields # Unset) \in BOOLEAN
    OBVIOUS
  <2> QED
    BY ONLY OneGives, <2>1, <2>2, <2>3, <2>4
<1>9. Gives(c, 9) = IF f.sortby # Unset THEN {<<"sortby", f.sortby>>} ELSE {}
  <2>1. c[9].given = (f.sortby # Unset)
    BY CriteriaGiven
  <2>2. c[9].key = "sortby"
    BY CriteriaKeys
  <2>3. c[9].value = f.sortby
    BY CriteriaValues
  <2>4. (f.sortby # Unset) \in BOOLEAN
    OBVIOUS
  <2> QED
    BY ONLY OneGives, <2>1, <2>2, <2>3, <2>4
<1>10. Gives(c, 10) = IF f.max_items > 0 THEN {<<"limit", Quoted(f.max_items)>>} ELSE {}
  <2>1. c[10].given = (f.max_items > 0)
    BY CriteriaGiven
  <2>2. c[10].key = "limit"
    BY CriteriaKeys
  <2>3. c[10].value = Quoted(f.max_items)
    BY CriteriaValues
  <2>4. (f.max_items > 0) \in BOOLEAN
    OBVIOUS
  <2> QED
    BY ONLY OneGives, <2>1, <2>2, <2>3, <2>4
<1> QED
  BY ONLY <1>1, <1>2, <1>3, <1>4, <1>5, <1>6, <1>7, <1>8, <1>9, <1>10

LEMMA GivenIsUnion ==
  ASSUME NEW criteria
  PROVE  Given(criteria, 10) =
           Gives(criteria, 1) \cup Gives(criteria, 2) \cup Gives(criteria, 3) \cup Gives(criteria, 4)
           \cup Gives(criteria, 5) \cup Gives(criteria, 6) \cup Gives(criteria, 7)
           \cup Gives(criteria, 8) \cup Gives(criteria, 9) \cup Gives(criteria, 10)
<1>1. Given(criteria, 10) = UNION {Gives(criteria, j) : j \in 1..10}
  BY DEF Given, Gives
<1>2. 1..10 = {1, 2, 3, 4, 5, 6, 7, 8, 9, 10}
  OBVIOUS
<1> QED
  BY ONLY <1>1, <1>2

(* Whatever the order of its corners, a box is one.                        *)
LEMMA ExtentIsABox ==
  ASSUME NEW params, ParamsTyped(params), params.bbox # Unset, ~BindThrows(params)
  PROVE  /\ Extent(params.bbox) # Unset
         /\ Extent(params.bbox).x_min <= Extent(params.bbox).x_max
         /\ Extent(params.bbox).y_min <= Extent(params.bbox).y_max
<1>1. PICK b \in Seq(Int) : b = params.bbox
  BY DEF ParamsTyped
<1>2. b[1] \in Int /\ b[2] \in Int /\ b[3] \in Int /\ b[4] \in Int
  <2>1. Len(b) = 4
    BY <1>1 DEF BindThrows
  <2>2. 1 \in 1..Len(b) /\ 2 \in 1..Len(b) /\ 3 \in 1..Len(b) /\ 4 \in 1..Len(b)
    BY ONLY <2>1
  <2> QED BY ONLY <2>2, ElementOfSeq, b \in Seq(Int)
<1>3. /\ Extent(b).x_min = Least(b[1], b[3]) /\ Extent(b).x_max = Greatest(b[1], b[3])
      /\ Extent(b).y_min = Least(b[2], b[4]) /\ Extent(b).y_max = Greatest(b[2], b[4])
  BY DEF Extent
<1>4. Extent(b) \in [x_min : Int, y_min : Int, x_max : Int, y_max : Int]
  BY ONLY <1>2 DEF Extent, Least, Greatest
<1>5. Extent(b).x_min <= Extent(b).x_max /\ Extent(b).y_min <= Extent(b).y_max
  BY ONLY <1>2, <1>3 DEF Least, Greatest
<1> QED
  BY ONLY <1>1, <1>4, <1>5, SessionAssumption

(* The criteria that are given are those that the parameters ask for.      *)
LEMMA GivenIsAsked ==
  ASSUME NEW params, ParamsTyped(params), ~BindThrows(params), NEW shape,
         params.intersects # Unset => shape = GeometryAsGeoJson(params.intersects).out
  PROVE  Given(Criteria(BindSearch(params), shape), 10) = Asked(params)
<1>a. PICK bound : bound = BindSearch(params)
  OBVIOUS
<1>b. PICK c : c = Criteria(bound, shape)
  OBVIOUS
<1>1. /\ bound.collections = OrElse(params.collections, <<>>)
      /\ bound.ids = OrElse(params.ids, <<>>)
      /\ bound.datetime = OrElse(params.datetime, "")
      /\ bound.bbox = IF params.bbox = Unset THEN Unset ELSE Extent(params.bbox)
      /\ bound.intersects = params.intersects
      /\ bound.filter = params.filter
      /\ bound.filter_lang = OrElse(params.filter_lang, "cql2-json")
      /\ bound.fields = params.fields /\ bound.sortby = params.sortby
      /\ bound.max_items = MaxItems(params.max_items)
  BY <1>a DEF BindSearch
<1>2. Gives(c, 1) = IF OrElse(params["collections"], <<>>) = <<>> THEN {}
                    ELSE {<<"collections", Quoted(params["collections"])>>}
  <2>1. Gives(c, 1) = IF bound.collections # <<>> THEN {<<"collections", Quoted(bound.collections)>>} ELSE {}
    BY <1>b, CriteriaGive
  <2>2. bound.collections = OrElse(params["collections"], <<>>)
    BY ONLY <1>1
  <2> QED BY ONLY <2>1, <2>2 DEF OrElse
<1>3. Gives(c, 2) = IF OrElse(params["ids"], <<>>) = <<>> THEN {}
                    ELSE {<<"ids", Quoted(params["ids"])>>}
  <2>1. Gives(c, 2) = IF bound.ids # <<>> THEN {<<"ids", Quoted(bound.ids)>>} ELSE {}
    BY <1>b, CriteriaGive
  <2>2. bound.ids = OrElse(params["ids"], <<>>)
    BY ONLY <1>1
  <2> QED BY ONLY <2>1, <2>2 DEF OrElse
<1>4. Gives(c, 3) = IF OrElse(params.datetime, "") = "" THEN {}
                    ELSE {<<"datetime", Quoted(params.datetime)>>}
  <2>1. Gives(c, 3) = IF bound.datetime # "" THEN {<<"datetime", Quoted(bound.datetime)>>} ELSE {}
    BY <1>b, CriteriaGive
  <2>2. bound.datetime = OrElse(params.datetime, "")
    BY ONLY <1>1
  <2> QED BY ONLY <2>1, <2>2 DEF OrElse
<1>5. Gives(c, 4) = IF params.bbox = Unset THEN {} ELSE {<<"bbox", Quoted(Extent(params.bbox))>>}
  <2>1. Gives(c, 4) = IF bound.bbox # Unset THEN {<<"bbox", Quoted(bound.bbox)>>} ELSE {}
    BY <1>b, CriteriaGive
  <2>2. bound.bbox = IF params.bbox = Unset THEN Unset ELSE Extent(params.bbox)
    BY ONLY <1>1
  <2>3. params.bbox # Unset => Extent(params.bbox) # Unset
    BY ExtentIsABox
  <2> QED BY ONLY <2>1, <2>2, <2>3
<1>6. Gives(c, 5) = IF params.intersects = Unset THEN {}
                    ELSE {<<"intersects", Quoted(GeometryAsGeoJson(params.intersects).out)>>}
  <2>1. Gives(c, 5) = IF bound.intersects # Unset THEN {<<"intersects", Quoted(shape)>>} ELSE {}
    BY <1>b, CriteriaGive
  <2>2. bound.intersects = params.intersects
    BY ONLY <1>1
  <2> QED BY ONLY <2>1, <2>2, params.intersects # Unset => shape = GeometryAsGeoJson(params.intersects).out
<1>7. Gives(c, 6) = IF params.filter = Unset THEN {}
                    ELSE {<<"filter_lang", Quoted(OrElse(params.filter_lang, "cql2-json"))>>}
  <2>1. Gives(c, 6) = IF bound.filter # Unset THEN {<<"filter_lang", Quoted(bound.filter_lang)>>} ELSE {}
    BY <1>b, CriteriaGive
  <2>2. bound.filter = params.filter
    BY ONLY <1>1
  <2>3. bound.filter_lang = OrElse(params.filter_lang, "cql2-json")
    BY ONLY <1>1
  <2> QED BY ONLY <2>1, <2>2, <2>3
<1>8. Gives(c, 7) = IF params["filter"] = Unset THEN {} ELSE {<<"filter", params["filter"]>>}
  <2>1. Gives(c, 7) = IF bound.filter # Unset THEN {<<"filter", bound.filter>>} ELSE {}
    BY <1>b, CriteriaGive
  <2>2. bound.filter = params["filter"]
    BY ONLY <1>1
  <2> QED BY ONLY <2>1, <2>2
<1>9. Gives(c, 8) = IF params["fields"] = Unset THEN {} ELSE {<<"fields", params["fields"]>>}
  <2>1. Gives(c, 8) = IF bound.fields # Unset THEN {<<"fields", bound.fields>>} ELSE {}
    BY <1>b, CriteriaGive
  <2>2. bound.fields = params["fields"]
    BY ONLY <1>1
  <2> QED BY ONLY <2>1, <2>2
<1>10. Gives(c, 9) = IF params["sortby"] = Unset THEN {} ELSE {<<"sortby", params["sortby"]>>}
  <2>1. Gives(c, 9) = IF bound.sortby # Unset THEN {<<"sortby", bound.sortby>>} ELSE {}
    BY <1>b, CriteriaGive
  <2>2. bound.sortby = params["sortby"]
    BY ONLY <1>1
  <2> QED BY ONLY <2>1, <2>2
<1>11. Gives(c, 10) = IF params.max_items = Unset THEN {}
                      ELSE IF params.max_items <= 0 THEN {} ELSE {<<"limit", Quoted(params.max_items)>>}
  <2>1. Gives(c, 10) = IF bound.max_items > 0 THEN {<<"limit", Quoted(bound.max_items)>>} ELSE {}
    BY <1>b, CriteriaGive
  <2>2. bound.max_items = MaxItems(params.max_items)
    BY ONLY <1>1
  <2>3. CASE params.max_items = Unset
    <3>1. bound.max_items = 0
      BY ONLY <2>2, <2>3 DEF MaxItems
    <3> QED BY ONLY <2>1, <2>3, <3>1
  <2>4. CASE params.max_items # Unset
    <3>1. params.max_items \in Int
      BY <2>4 DEF ParamsTyped
    <3>2. bound.max_items = IF params.max_items <= 0 THEN 0 ELSE params.max_items
      BY ONLY <2>2, <2>4, <3>1 DEF MaxItems, Greatest
    <3> QED BY ONLY <2>1, <2>4, <3>1, <3>2
  <2> QED BY ONLY <2>3, <2>4
<1>12. Given(c, 10) = Gives(c, 1) \cup Gives(c, 2) \cup Gives(c, 3) \cup Gives(c, 4) \cup Gives(c, 5)
                      \cup Gives(c, 6) \cup Gives(c, 7) \cup Gives(c, 8) \cup Gives(c, 9) \cup Gives(c, 10)
  BY GivenIsUnion
<1>13. Asked(params) = Gives(c, 1) \cup Gives(c, 2) \cup Gives(c, 7) \cup Gives(c, 8) \cup Gives(c, 9)
                       \cup Gives(c, 3) \cup Gives(c, 4) \cup Gives(c, 5) \cup Gives(c, 6) \cup Gives(c, 10)
  BY ONLY <1>2, <1>3, <1>4, <1>5, <1>6, <1>7, <1>8, <1>9, <1>10, <1>11, ZenonT(30) DEF Asked
<1>14. Given(c, 10) = Asked(params)
  BY ONLY <1>12, <1>13
<1> QED
  BY <1>14, <1>a, <1>b

(* The two lists of criteria in the code agree for every filter: IsEmpty   *)
(* sends a search without a body exactly if AsQueryJson has none to write. *)
THEOREM EmptyIffNothingIsWritten ==
  ASSUME NEW f, NEW shape, f.max_items \in Int
  PROVE  IsEmpty(f) <=> Given(Criteria(f, shape), 10) = {}
<1> DEFINE c == Criteria(f, shape)
           gives(j) == c[j].given
<1>1. /\ gives(1) = (f.collections # <<>>)
      /\ gives(2) = (f.ids # <<>>)
      /\ gives(3) = (f.datetime # "")
      /\ gives(4) = (f.bbox # Unset)
      /\ gives(5) = (f.intersects # Unset)
      /\ gives(6) = (f.filter # Unset)
      /\ gives(7) = (f.filter # Unset)
      /\ gives(8) = (f.fields # Unset)
      /\ gives(9) = (f.sortby # Unset)
      /\ gives(10) = (f.max_items > 0)
  BY CriteriaGiven
<1>2. Given(c, 10) = {} <=> \A j \in {1, 2, 3, 4, 5, 6, 7, 8, 9, 10} : ~gives(j)
  <2>1. 1..10 = {1, 2, 3, 4, 5, 6, 7, 8, 9, 10}
    OBVIOUS
  <2>2. Given(c, 10) = {} <=> \A j \in 1..10 : ~gives(j)
    <3> HIDE DEF c
    <3> QED BY DEF Given
  <2> HIDE DEF c, gives
  <2> QED BY ONLY <2>1, <2>2
<1>3. (\A j \in {1, 2, 3, 4, 5, 6, 7, 8, 9, 10} : ~gives(j)) <=>
        /\ ~gives(1) /\ ~gives(2) /\ ~gives(3) /\ ~gives(4) /\ ~gives(5)
        /\ ~gives(6) /\ ~gives(7) /\ ~gives(8) /\ ~gives(9) /\ ~gives(10)
  <2> HIDE DEF gives
  <2> QED OBVIOUS
<1>4. IsEmpty(f) <=>
        /\ ~gives(1) /\ ~gives(2) /\ ~gives(3) /\ ~gives(4) /\ ~gives(5)
        /\ ~gives(6) /\ ~gives(7) /\ ~gives(8) /\ ~gives(9) /\ ~gives(10)
  <2>1. (f.max_items <= 0) = ~(f.max_items > 0)
    OBVIOUS
  <2> HIDE DEF gives
  <2> QED BY <1>1, <2>1 DEF IsEmpty
<1> HIDE DEF c, gives
<1>5. IsEmpty(f) <=> Given(c, 10) = {}
  BY ONLY <1>2, <1>3, <1>4
<1> QED
  BY <1>5 DEF c

(* The body of a search is an object with the members that are asked for.  *)
LEMMA BodySays ==
  ASSUME NEW params, ParamsTyped(params), ~BindThrows(params), NEW shape,
         params.intersects # Unset => shape = GeometryAsGeoJson(params.intersects).out,
         Asked(params) # {}
  PROVE  /\ IsObject(AsQueryJson(BindSearch(params), shape))
         /\ Members(AsQueryJson(BindSearch(params), shape)) = Asked(params)
         /\ Len(AsQueryJson(BindSearch(params), shape)) = 3 * Cardinality(Asked(params)) + 1
<1>1. PICK c : c = Criteria(BindSearch(params), shape)
  OBVIOUS
<1>2. Len(c) = 10
  BY <1>1, CriteriaKeys
<1>3. \A i, j \in 1..Len(c) : c[i].key = c[j].key => i = j
  BY <1>1, <1>2, KeysDiffer
<1>4. PICK members \in Seq(MemberOf(c)) :
        /\ Written(c) \in Seq(TokenOf(c))
        /\ Lists(Written(c), members)
        /\ OnceEach(members, Given(c, 10))
  <2>1. Len(c) \in Nat
    BY ONLY <1>2
  <2> QED BY ONLY <1>2, <1>3, <2>1, WrittenLists
<1>5. PICK set : set = Asked(params)
  OBVIOUS
<1>6. Given(c, 10) = set
  BY <1>1, <1>5, GivenIsAsked
<1>7. \A m \in set : m = <<m[1], m[2]>>
  BY ONLY <1>6 DEF Given
<1>8. Close \in TokenOf(c)
  BY DEF TokenOf
<1>9. set # {}
  BY ONLY <1>5, Asked(params) # {}
<1>10. /\ IsObject(Append(Written(c), Close))
       /\ Members(Append(Written(c), Close)) = set
       /\ Len(Append(Written(c), Close)) = 3 * Cardinality(set) + 1
  BY ONLY <1>4, <1>6, <1>7, <1>8, <1>9, ClosedIsObject
<1> QED
  BY ONLY <1>1, <1>5, <1>10 DEF AsQueryJson

(***************************************************************************)
(* Headers.                                                                *)
(***************************************************************************)
(* Two spellings of a name name the same headers.                          *)
LEMMA NamedAlike ==
  ASSUME NEW S, NEW name, NEW other, Same(name, other)
  PROVE  Named(S, name) = Named(S, other)
BY DEF Named, Same

LEMMA NamedOfUnion ==
  ASSUME NEW S, NEW T, NEW name
  PROVE  Named(S \cup T, name) = Named(S, name) \cup Named(T, name)
BY DEF Named

(* Whatever the spellings and whichever of two extra headers that differ   *)
(* in case comes first, a request has the headers that the call asks for,  *)
(* else one of the secret of the connection, else the user agent of the    *)
(* setting.                                                                *)
THEOREM HeadersTakePrecedence ==
  ASSUME NEW headers, NEW settings,
         NEW sent \in RequestHeaders(headers, settings)
  PROVE  TakesPrecedence(sent, Pairs(headers), Pairs(settings.extra_headers), settings.user_agent)
<1> DEFINE call  == Pairs(headers)
           all   == Pairs(settings.extra_headers)
           extra == {h \in all : Named(call, h[1]) = {}}
           agent == <<"User-Agent", settings.user_agent>>
<1>1. PICK E \in SUBSET extra :
        /\ \A h \in extra : \E e \in E : Named(E, h[1]) = {e}
        /\ sent = call \cup E \cup (IF Named(call \cup E, "User-Agent") = {} THEN {agent} ELSE {})
  BY DEF RequestHeaders
<1>2. PICK last : last = IF Named(call \cup E, "User-Agent") = {} THEN {agent} ELSE {}
  OBVIOUS
<1>3. /\ E \subseteq all
      /\ \A h \in all : h \in extra <=> Named(call, h[1]) = {}
      /\ agent[1] = "User-Agent"
  BY <1>1
<1> HIDE DEF call, all, extra, agent
<1>4. sent = call \cup E \cup last
  BY <1>1, <1>2
(* The user agent is added where its name is free.                         *)
<1>5. ASSUME NEW name
      PROVE  /\ Named(sent, name) = Named(call, name) \cup Named(E, name) \cup Named(last, name)
             /\ Named(last, name) # {} =>
                  /\ Same("User-Agent", name) /\ last = {agent} /\ Named(last, name) = {agent}
                  /\ Named(call, name) = {} /\ Named(E, name) = {}
  <2>1. Named(sent, name) = Named(call, name) \cup Named(E, name) \cup Named(last, name)
    BY <1>4 DEF Named
  <2>2. SUFFICES ASSUME Named(last, name) # {}
                 PROVE  /\ Same("User-Agent", name) /\ last = {agent} /\ Named(last, name) = {agent}
                        /\ Named(call, name) = {} /\ Named(E, name) = {}
    BY <2>1
  <2>3. last = {agent} /\ Named(call \cup E, "User-Agent") = {}
    BY <1>2, <2>2 DEF Named
  <2>4. Same("User-Agent", name) /\ Named(last, name) = {agent}
    BY <1>3, <2>2, <2>3 DEF Named
  <2>5. Named(call \cup E, name) = {}
    BY ONLY <2>3, <2>4, NamedAlike
  <2> QED
    BY <2>3, <2>4, <2>5, NamedOfUnion
<1>6. ASSUME NEW name \in {h[1] : h \in sent \cup call \cup all} \cup {"User-Agent"}
      PROVE  \/ Named(call, name) # {} /\ Named(sent, name) = Named(call, name)
             \/ /\ Named(call, name) = {}
                /\ \E h \in sent : /\ Named(sent, name) = {h}
                                   /\ h \in all \/ (Named(all, name) = {} /\ h = agent)
  <2>1. CASE Named(call, name) # {}
    <3>1. Named(last, name) = {}
      BY <2>1, <1>5
    <3>2. ASSUME NEW e \in Named(E, name)
          PROVE  FALSE
      <4>1. e \in E /\ Same(e[1], name)
        BY DEF Named
      <4>2. Named(call, e[1]) = {}
        BY <4>1, <1>1, <1>3
      <4> QED
        BY <4>1, <4>2, <2>1, NamedAlike
    <3> QED
      BY <2>1, <1>5, <3>1, <3>2
  <2>2. CASE Named(call, name) = {} /\ Named(all, name) # {}
    <3>1. PICK k \in all : Same(k[1], name)
      BY <2>2 DEF Named
    <3>2. Named(call, k[1]) = {}
      BY <2>2, <3>1, NamedAlike
    <3>3. PICK e \in E : Named(E, k[1]) = {e}
      BY <1>1, <1>3, <3>2
    <3>4. Named(E, name) = {e}
      BY <3>1, <3>3, NamedAlike
    <3>5. Named(last, name) = {}
      BY <3>4, <1>5
    <3>6. Named(sent, name) = {e} /\ e \in all /\ e \in sent
      BY <1>3, <1>4, <1>5, <2>2, <3>4, <3>5
    <3> QED
      BY <2>2, <3>6
  <2>3. CASE Named(call, name) = {} /\ Named(all, name) = {}
    <3>1. Named(E, name) = {}
      BY <2>3, <1>3 DEF Named
    <3>2. Named(last, name) # {}
      <4>1. CASE name = "User-Agent"
        <5>1. Named(call \cup E, name) = {}
          BY <2>3, <3>1, NamedOfUnion
        <5>2. agent \in last
          BY <4>1, <5>1, <1>2
        <5> QED
          BY <4>1, <5>2, <1>3 DEF Named, Same
      <4>2. CASE \E h \in sent : h[1] = name
        <5>1. Named(sent, name) # {}
          BY <4>2 DEF Named, Same
        <5> QED
          BY <5>1, <1>5, <2>3, <3>1
      <4>3. CASE \E h \in call \cup all : h[1] = name
        BY <4>3, <2>3 DEF Named, Same
      <4> QED
        BY <4>1, <4>2, <4>3
    <3>3. agent \in last
      BY <3>2, <1>5
    <3> QED
      BY <2>3, <3>1, <3>2, <3>3, <1>4, <1>5
  <2> QED
    BY <2>1, <2>2, <2>3
<1> QED
  BY <1>6 DEF TakesPrecedence, call, all, agent

(* One header is taken for each name of a list, and it is one of the list. *)
LEMMA FirstIsOfList ==
  ASSUME NEW list \in Seq(STRING \X STRING)
  PROVE  /\ Pairs(FirstOfEach(list)) \subseteq Range(list)
         /\ \A h \in Range(list) : \E k \in Pairs(FirstOfEach(list)) : k[1] = h[1]
<1> DEFINE named(n) == {i \in DOMAIN list : list[i][1] = n}
           first(n) == CHOOSE i \in DOMAIN list : list[i][1] = n /\ \A j \in 1..(i - 1) : list[j][1] # n
           names == {list[i][1] : i \in DOMAIN list}
<1>1. DOMAIN list = 1..Len(list) /\ Len(list) \in Nat
  BY ONLY list \in Seq(STRING \X STRING)
<1>2. \A i \in DOMAIN list : list[i] \in STRING \X STRING
  BY ONLY <1>1, ElementOfSeq, list \in Seq(STRING \X STRING)
<1>3. \A i \in DOMAIN list : list[i] = <<list[i][1], list[i][2]>>
  BY ONLY <1>2
<1>4. ASSUME NEW n \in names
      PROVE  first(n) \in DOMAIN list /\ list[first(n)][1] = n
  <2>1. named(n) \in SUBSET Nat /\ named(n) # {}
    BY <1>1
  <2>2. PICK i \in named(n) : \A j \in named(n) : i <= j
    <3> HIDE DEF named
    <3> QED BY ONLY <2>1, LeastNumber
  <2>3. i \in DOMAIN list /\ list[i][1] = n
    BY <2>2
  <2>4. ASSUME NEW j \in 1..(i - 1), list[j][1] = n
        PROVE  FALSE
    <3>1. j \in named(n) /\ j < i
      BY <1>1, <2>3, <2>4
    <3> QED BY <2>2, <2>3, <3>1, <1>1
  <2>5. \A j \in 1..(i - 1) : list[j][1] # n
    BY <2>4
  <2> QED BY <2>3, <2>5
<1>5. FirstOfEach(list) = [n \in names |-> list[first(n)][2]]
  BY DEF FirstOfEach
<1>6. Pairs(FirstOfEach(list)) = {<<n, list[first(n)][2]>> : n \in names}
  <2> HIDE DEF first, names
  <2> QED BY <1>5 DEF Pairs
<1>7. ASSUME NEW n \in names
      PROVE  <<n, list[first(n)][2]>> \in Range(list)
  <2>1. first(n) \in DOMAIN list /\ list[first(n)][1] = n
    BY ONLY <1>4, <1>7
  <2> HIDE DEF first
  <2>2. list[first(n)] = <<n, list[first(n)][2]>>
    BY ONLY <1>3, <2>1
  <2> QED BY <2>1, <2>2 DEF Range
<1>8. Pairs(FirstOfEach(list)) \subseteq Range(list)
  <2> HIDE DEF first, names
  <2> QED BY <1>6, <1>7
<1>9. ASSUME NEW h \in Range(list)
      PROVE  \E k \in Pairs(FirstOfEach(list)) : k[1] = h[1]
  <2>1. h[1] \in names
    BY DEF Range
  <2>2. <<h[1], list[first(h[1])][2]>> \in Pairs(FirstOfEach(list))
    <3> HIDE DEF first, names
    <3> QED BY <1>6, <2>1
  <2> HIDE DEF first, names
  <2> QED BY <2>2
<1> QED BY <1>8, <1>9

(* Headers in the same names that are not sent take nothing away.          *)
LEMMA TakesPrecedenceOfMore ==
  ASSUME NEW sent, NEW asked, NEW extra, NEW more, NEW agent,
         extra \subseteq more, \A h \in more : \E k \in extra : k[1] = h[1],
         TakesPrecedence(sent, asked, extra, agent)
  PROVE  TakesPrecedence(sent, asked, more, agent)
<1>1. \A name : Named(more, name) = {} <=> Named(extra, name) = {}
  BY DEF Named, Same
<1>2. {h[1] : h \in sent \cup asked \cup more} = {h[1] : h \in sent \cup asked \cup extra}
  OBVIOUS
<1> QED BY <1>1, <1>2 DEF TakesPrecedence

(***************************************************************************)
(* The session.                                                            *)
(***************************************************************************)
(* What is sent of the method, the body and the headers of a call.         *)
LEMMA WireSays ==
  ASSUME NEW settings, NEW url, NEW method, NEW headers, NEW body, NEW content_type,
         NEW sent \in WireRequests(settings, url, method, headers, body, content_type)
  PROVE  /\ sent.method = (IF Lower[method] \in {"head", "delete", "post", "put", "patch"}
                           THEN Lower[method] ELSE "get")
         /\ sent.body = (IF Lower[method] \in {"post", "put", "patch"} THEN body ELSE <<>>)
         /\ sent.headers \in RequestHeaders(headers, settings)
<1>1. PICK all : all = RequestHeaders(headers, settings)
  OBVIOUS
<1> DEFINE known == Lower[method] \in {"head", "delete", "post", "put", "patch"}
           request(h) ==
             [host |-> url.host, path |-> Path(url),
              method |-> IF known THEN Lower[method] ELSE "get",
              headers |-> h,
              body |-> IF HasBody(method) THEN body ELSE <<>>,
              content_type |-> IF HasBody(method) THEN Nonempty(content_type, "application/octet-stream") ELSE "",
              proxy |-> ClientProxy(settings),
              proxy_login |-> IF settings.proxy.host # "" THEN settings.proxy_username ELSE "",
              basic |-> IF settings.username # "" /\ settings.password # "" THEN settings.username ELSE "",
              bearer |-> settings.bearer_token,
              follow |-> settings.follow,
              timeout |-> settings.timeout]
<1>2. WireRequests(settings, url, method, headers, body, content_type) = {request(h) : h \in all}
  BY <1>1 DEF WireRequests
<1>3. PICK h \in all : sent = request(h)
  <2> HIDE DEF request
  <2> QED BY <1>2
<1>4. sent.method = (IF known THEN Lower[method] ELSE "get")
  BY ONLY <1>3
<1>5. sent.body = (IF HasBody(method) THEN body ELSE <<>>)
  BY ONLY <1>3
<1>6. sent.headers = h
  BY ONLY <1>3
<1>7. HasBody(method) = (Lower[method] \in {"post", "put", "patch"})
  BY DEF HasBody
<1> HIDE DEF request
<1> QED BY ONLY <1>1, <1>4, <1>5, <1>6, <1>7, h \in all

(* The request that the call makes, under its settings.                    *)
Sendable ==
  WireRequests(ReaderSettings(scenario.config, scenario.secret), scenario.url,
               Request.method, Request.headers, Request.body, "application/json")

IInv ==
  /\ scenario \in Scenarios
  /\ phase \in {"bind", "open", "sent", "read", "execute", "row", "failed"}
  /\ phase = "bind" => filter = Unset /\ wire = Unset
  /\ phase \notin {"bind", "failed"} \/ wire # Unset =>
       ~BindThrows(scenario.params) /\ filter = BindSearch(scenario.params)
  /\ wire # Unset => wire \in Sendable
  /\ answer # Unset => answer \in Answers
  /\ phase \in {"execute", "row"} => IsRead

LEMMA InitInv == Init => IInv
BY DEF Init, IInv

LEMMA NextInv == IInv /\ [Next]_vars => IInv'
<1> SUFFICES ASSUME IInv, [Next]_vars
             PROVE  IInv'
  OBVIOUS
<1> USE DEF IInv
(* A request depends on the call and on the filter alone.                  *)
<1>a. ASSUME UNCHANGED <<scenario, filter>>
      PROVE  Sendable' = Sendable
  BY <1>a DEF Sendable, Request, Intersects
<1>b. ASSUME UNCHANGED content
      PROVE  IsRead' = IsRead
  BY <1>b DEF IsRead, Parsed
<1>1. CASE Bind
  BY <1>1 DEF Bind
<1>2. CASE RefuseBbox
  BY <1>2 DEF RefuseBbox, Fail
<1>3. CASE ReadFile
  BY <1>3, <1>a DEF ReadFile
<1>4. CASE SendRequest
  <2>1. wire' \in Sendable /\ Sendable' = Sendable
    BY <1>4, <1>a DEF SendRequest, Sendable
  <2> QED BY <1>4, <2>1 DEF SendRequest
<1>5. CASE RefuseRequest
  BY <1>5, <1>a DEF RefuseRequest, Fail
<1>6. CASE Answered
  BY <1>6, <1>a DEF Answered, Fail
<1>7. CASE ReadFeature
  BY <1>7, <1>a, <1>b DEF ReadFeature
<1>8. CASE RefuseDocument
  BY <1>8, <1>a DEF RefuseDocument, Fail
<1>9. CASE Execute
  BY <1>9, <1>a, <1>b DEF Execute, Fail
<1>10. CASE UNCHANGED vars
  BY <1>10, <1>a, <1>b DEF vars
<1> QED
  BY <1>1, <1>2, <1>3, <1>4, <1>5, <1>6, <1>7, <1>8, <1>9, <1>10 DEF Next

LEMMA Inductive == Spec => []IInv
BY InitInv, NextInv, PTL DEF Spec

(* Any call leaves the program with a filter whose number of items is one, *)
(* a box whose bounds are in order, and a method that the library knows.   *)
THEOREM SessionTyped == Spec => []TypeOK
<1>1. IInv => TypeOK
  <2> SUFFICES ASSUME IInv
               PROVE  TypeOK
    OBVIOUS
  <2>1. ParamsTyped(scenario.params)
    BY SessionAssumption DEF IInv, ParamsTyped
  <2>2. ASSUME phase \notin {"bind", "failed"}
        PROVE  /\ filter.max_items \in Nat
               /\ filter.bbox # Unset =>
                    filter.bbox.x_min <= filter.bbox.x_max /\ filter.bbox.y_min <= filter.bbox.y_max
    <3>1. filter = BindSearch(scenario.params) /\ ~BindThrows(scenario.params)
      BY <2>2 DEF IInv
    <3>2. filter.max_items = MaxItems(scenario.params.max_items)
      BY <3>1 DEF BindSearch
    <3>3. filter.bbox = IF scenario.params.bbox = Unset THEN Unset ELSE Extent(scenario.params.bbox)
      BY <3>1 DEF BindSearch
    <3>4. filter.max_items \in Nat
      BY ONLY <3>2, <2>1 DEF ParamsTyped, MaxItems, Greatest
    <3> QED BY ONLY <2>1, <3>1, <3>3, <3>4, ExtentIsABox
  <2>3. ASSUME wire # Unset
        PROVE  wire.method \in {"get", "head", "delete", "post", "put", "patch"}
    <3>1. wire \in Sendable
      BY <2>3 DEF IInv
    <3>2. wire.method = IF Lower[Request.method] \in {"head", "delete", "post", "put", "patch"}
                        THEN Lower[Request.method] ELSE "get"
      BY <3>1, WireSays DEF Sendable
    <3> QED BY ONLY <3>2
  <2> QED BY <2>2, <2>3 DEF TypeOK, IInv
<1> QED BY <1>1, Inductive, PTL

(* For any parameters, the body that is sent is an object with a member    *)
(* for each criterion that is given and no other, and a search without     *)
(* criteria is a GET.                                                      *)
THEOREM SearchSendsItsCriteria == Spec => []CriteriaAreSent
<1>1. IInv => CriteriaAreSent
  <2> SUFFICES ASSUME IInv, wire # Unset, scenario.link = Unset
               PROVE  IF Asked(scenario.params) = {} THEN wire.method = "get" /\ wire.body = <<>>
                      ELSE /\ wire.method = "post" /\ IsObject(wire.body)
                           /\ Members(wire.body) = Asked(scenario.params)
                           /\ 3 * Cardinality(Asked(scenario.params)) + 1 = Len(wire.body)
    BY DEF CriteriaAreSent
  <2> DEFINE shape == IF filter.intersects = Unset THEN Unset ELSE Intersects.out
  <2>1. ParamsTyped(scenario.params)
    BY SessionAssumption DEF IInv, ParamsTyped
  <2>2. filter = BindSearch(scenario.params) /\ ~BindThrows(scenario.params)
    BY DEF IInv
  <2>3. filter.max_items \in Int
    <3>1. filter.max_items = MaxItems(scenario.params.max_items)
      BY <2>2 DEF BindSearch
    <3> QED BY ONLY <3>1, <2>1 DEF ParamsTyped, MaxItems, Greatest
  <2>4. scenario.params.intersects # Unset => shape = GeometryAsGeoJson(scenario.params.intersects).out
    <3>1. filter.intersects = scenario.params.intersects
      BY <2>2 DEF BindSearch
    <3> QED BY <3>1 DEF Intersects
  <2>5. PICK said : said = AsQueryJson(filter, shape)
    OBVIOUS
  <2>6. Request = IF IsEmpty(filter) THEN [method |-> "GET", headers |-> NoHeaders, body |-> <<>>]
                  ELSE [method |-> "POST", headers |-> NoHeaders, body |-> said]
    BY <2>5 DEF Request
  <2>7. wire.method = (IF Lower[Request.method] \in {"head", "delete", "post", "put", "patch"}
                       THEN Lower[Request.method] ELSE "get")
        /\ wire.body = IF Lower[Request.method] \in {"post", "put", "patch"} THEN Request.body ELSE <<>>
    <3>1. wire \in Sendable
      BY DEF IInv
    <3> QED BY <3>1, WireSays DEF Sendable
  <2>8. IsEmpty(filter) <=> Asked(scenario.params) = {}
    <3> HIDE DEF shape
    <3>1. Given(Criteria(filter, shape), 10) = Asked(scenario.params)
      BY ONLY <2>1, <2>2, <2>4, GivenIsAsked
    <3>2. IsEmpty(filter) <=> Given(Criteria(filter, shape), 10) = {}
      BY ONLY <2>3, EmptyIffNothingIsWritten
    <3> QED BY ONLY <3>1, <3>2
  <2>9. CASE Asked(scenario.params) = {}
    <3>1. Request.method = "GET"
      BY ONLY <2>6, <2>8, <2>9
    <3>2. wire.method = "get" /\ wire.body = <<>>
      BY ONLY <2>7, <3>1, ClientAssumption
    <3> QED BY <3>2, <2>9
  <2>10. CASE Asked(scenario.params) # {}
    <3>1. Request.method = "POST" /\ Request.body = said
      BY ONLY <2>6, <2>8, <2>10
    <3>2. wire.method = "post" /\ wire.body = said
      BY ONLY <2>7, <3>1, ClientAssumption
    <3> HIDE DEF shape
    <3>3. /\ IsObject(said) /\ Members(said) = Asked(scenario.params)
          /\ Len(said) = 3 * Cardinality(Asked(scenario.params)) + 1
      BY ONLY <2>1, <2>2, <2>4, <2>5, <2>10, BodySays
    <3> QED BY <3>2, <3>3, <2>10
  <2> QED BY ONLY <2>9, <2>10
<1> QED BY <1>1, Inductive, PTL

(* Whatever the call, the next link, the secret and the setting, and       *)
(* however the names of their headers are spelt, the headers are sent in   *)
(* the order of precedence: those of the link as they are, else one of the *)
(* secret, else the user agent.                                            *)
THEOREM SessionHeadersTakePrecedence == Spec => []HeaderPrecedence
<1>1. IInv => HeaderPrecedence
  <2> SUFFICES ASSUME IInv, wire # Unset
               PROVE  TakesPrecedence(wire.headers,
                        IF scenario.link = Unset THEN {} ELSE Pairs(scenario.link.headers),
                        Range(scenario.secret.extra_http_headers),
                        Nonempty(scenario.config.http_user_agent, DefaultUserAgent))
    BY DEF HeaderPrecedence
  <2>1. PICK list \in Seq(STRING \X STRING) : list = scenario.secret.extra_http_headers
    BY SessionAssumption DEF IInv
  <2>2. PICK settings : settings = ReaderSettings(scenario.config, scenario.secret)
    OBVIOUS
  <2>3. /\ settings.extra_headers = FirstOfEach(list)
        /\ settings.user_agent = Nonempty(scenario.config.http_user_agent, DefaultUserAgent)
    BY <2>1, <2>2 DEF ReaderSettings, ExtractHttpSettings
  <2>4. PICK asked : asked = IF scenario.link = Unset THEN {} ELSE Pairs(scenario.link.headers)
    OBVIOUS
  <2>5. Pairs(Request.headers) = asked
    <3>1. Pairs(NoHeaders) = {}
      BY DEF Pairs, NoHeaders
    <3>2. Request.headers = IF scenario.link = Unset THEN NoHeaders ELSE scenario.link.headers
      BY DEF Request
    <3> QED BY ONLY <3>1, <3>2, <2>4
  <2>6. wire.headers \in RequestHeaders(Request.headers, settings)
    <3>1. wire \in Sendable
      BY DEF IInv
    <3> QED BY <3>1, <2>2, WireSays DEF Sendable
  <2>7. TakesPrecedence(wire.headers, asked, Pairs(settings.extra_headers), settings.user_agent)
    BY ONLY <2>5, <2>6, HeadersTakePrecedence
  <2>8. /\ Pairs(FirstOfEach(list)) \subseteq Range(list)
        /\ \A h \in Range(list) : \E k \in Pairs(FirstOfEach(list)) : k[1] = h[1]
    BY ONLY FirstIsOfList, list \in Seq(STRING \X STRING)
  <2>9. TakesPrecedence(wire.headers, asked, Range(list), settings.user_agent)
    BY ONLY <2>3, <2>7, <2>8, TakesPrecedenceOfMore
  <2> QED BY ONLY <2>1, <2>3, <2>4, <2>9
<1> QED BY <1>1, Inductive, PTL

(***************************************************************************)
(* The row.                                                                *)
(***************************************************************************)
(* Kept goes over the sequence from its first element to its last.         *)
Keeps(k, all, good, n) ==
  k = [i \in 0..n |->
         IF i = 0 THEN <<>> ELSE IF i \in good THEN Append(k[i - 1], all[i]) ELSE k[i - 1]]

LEMMA KeptUnfolds ==
  ASSUME NEW all, NEW good, Len(all) \in Nat
  PROVE  \E k : Keeps(k, all, good, Len(all)) /\ Kept(all, good) = k[Len(all)]
<1> DEFINE P == {n \in Nat : \E k : Keeps(k, all, good, n)}
<1>1. 0 \in P
  <2>1. Keeps([i \in 0..0 |-> <<>>], all, good, 0)
    BY DEF Keeps
  <2> QED BY <2>1
<1>2. ASSUME NEW n \in Nat, n \in P
      PROVE  n + 1 \in P
  <2>1. PICK k : Keeps(k, all, good, n)
    BY <1>2
  <2> DEFINE next == [i \in 0..(n + 1) |->
                        IF i = n + 1 THEN IF n + 1 \in good THEN Append(k[n], all[n + 1]) ELSE k[n]
                        ELSE k[i]]
  <2>2. ASSUME NEW i \in 0..(n + 1)
        PROVE  next[i] = IF i = 0 THEN <<>>
                         ELSE IF i \in good THEN Append(next[i - 1], all[i]) ELSE next[i - 1]
    <3>1. CASE i = n + 1
      BY <3>1
    <3>2. CASE i # n + 1
      <4>1. i \in 0..n
        BY <3>2
      <4>2. k[i] = IF i = 0 THEN <<>> ELSE IF i \in good THEN Append(k[i - 1], all[i]) ELSE k[i - 1]
        BY <2>1, <4>1 DEF Keeps
      <4>3. next[i] = k[i] /\ (i # 0 => next[i - 1] = k[i - 1])
        BY <4>1
      <4> HIDE DEF next
      <4> QED BY <4>2, <4>3
    <3> QED BY <3>1, <3>2
  <2>3. next = [i \in 0..(n + 1) |-> next[i]]
    OBVIOUS
  <2>4. Keeps(next, all, good, n + 1)
    <3> HIDE DEF next
    <3> QED BY <2>2, <2>3 DEF Keeps
  <2> QED BY <2>4
<1>3. Len(all) \in P
  <2> HIDE DEF P
  <2> QED BY <1>1, <1>2, Induction
<1>4. \E k : Keeps(k, all, good, Len(all))
  BY <1>3
<1> QED
  BY <1>4, Zenon DEF Kept, Keeps

(* One more place: one more good place, or none.                           *)
LEMMA GoodPlaces ==
  ASSUME NEW good \in SUBSET Nat, NEW n \in Nat
  PROVE  /\ Cardinality(good \cap 1..n) \in Nat
         /\ Cardinality(good \cap 1..(n + 1)) =
              Cardinality(good \cap 1..n) + IF n + 1 \in good THEN 1 ELSE 0
<1>1. IsFiniteSet(good \cap 1..n)
  <2>1. IsFiniteSet(1..n)
    BY FS_Interval
  <2> QED BY <2>1, FS_Subset
<1>2. Cardinality(good \cap 1..n) \in Nat
  BY <1>1, FS_CardinalityType
<1>3. CASE n + 1 \in good
  <2>1. good \cap 1..(n + 1) = (good \cap 1..n) \cup {n + 1}
    BY <1>3
  <2>2. n + 1 \notin good \cap 1..n
    OBVIOUS
  <2>3. PICK few : few = good \cap 1..n
    OBVIOUS
  <2>4. Cardinality(few \cup {n + 1}) = Cardinality(few) + 1
    BY ONLY <1>1, <2>2, <2>3, FS_AddElement
  <2> QED BY ONLY <1>2, <1>3, <2>1, <2>3, <2>4
<1>4. CASE n + 1 \notin good
  <2>1. good \cap 1..(n + 1) = good \cap 1..n
    BY <1>4
  <2> QED BY ONLY <1>2, <1>4, <2>1
<1> QED BY <1>3, <1>4

(* What is kept is the elements at the good places, as many as there are   *)
(* of them and in their order.                                             *)
LEMMA KeptSays ==
  ASSUME NEW X, NEW all \in Seq(X), NEW good \in SUBSET (1..Len(all))
  PROVE  /\ Kept(all, good) \in Seq({all[i] : i \in good})
         /\ Len(Kept(all, good)) = Cardinality(good)
         /\ \A i \in good : /\ Cardinality(good \cap 1..i) \in 1..Len(Kept(all, good))
                           /\ Kept(all, good)[Cardinality(good \cap 1..i)] = all[i]
<1>1. PICK N \in Nat : N = Len(all)
  OBVIOUS
<1>2. PICK k : Keeps(k, all, good, N) /\ Kept(all, good) = k[N]
  BY <1>1, KeptUnfolds
<1>3. PICK Y : Y = {all[i] : i \in good}
  OBVIOUS
<1> DEFINE count(n) == Cardinality(good \cap 1..n)
           Right(n, kept) ==
             /\ kept \in Seq(Y) /\ Len(kept) = count(n)
             /\ \A i \in good \cap 1..n : count(i) \in 1..Len(kept) /\ kept[count(i)] = all[i]
           P == {n \in Nat : n <= N => Right(n, k[n])}
<1>4. good \in SUBSET Nat
  BY <1>1
<1>5. \A n \in Nat : count(n) \in Nat /\ count(n + 1) = count(n) + IF n + 1 \in good THEN 1 ELSE 0
  BY ONLY <1>4, GoodPlaces
<1>6. 0 \in P
  <2>1. k[0] = <<>>
    BY ONLY <1>2, N \in Nat DEF Keeps
  <2>2. count(0) = 0
    <3>1. good \cap 1..0 = {}
      OBVIOUS
    <3> QED BY ONLY <3>1, FS_EmptySet
  <2>3. <<>> \in Seq(Y) /\ Len(<<>>) = 0
    OBVIOUS
  <2>4. Right(0, k[0])
    <3> HIDE DEF count
    <3> QED BY ONLY <2>1, <2>2, <2>3
  <2> HIDE DEF Right
  <2> QED BY <2>4
<1>7. ASSUME NEW n \in Nat, n \in P
      PROVE  n + 1 \in P
  <2> HIDE DEF Right, count
  <2> SUFFICES ASSUME n + 1 <= N PROVE Right(n + 1, k[n + 1])
    OBVIOUS
  <2>1. Right(n, k[n])
    BY ONLY <1>7, n + 1 <= N, n \in Nat, N \in Nat
  <2>2. k[n + 1] = IF n + 1 \in good THEN Append(k[n], all[n + 1]) ELSE k[n]
    <3>1. n + 1 \in 0..N /\ n + 1 # 0 /\ (n + 1) - 1 = n
      OBVIOUS
    <3> QED BY ONLY <1>2, <3>1 DEF Keeps
  <2>3. PICK kept \in Seq(Y) : kept = k[n]
    BY <2>1 DEF Right
  <2>4. /\ Len(kept) = count(n)
        /\ \A i \in good \cap 1..n : count(i) \in 1..Len(kept) /\ kept[count(i)] = all[i]
    BY ONLY <2>1, <2>3 DEF Right
  <2>5. CASE n + 1 \in good
    <3>1. PICK last \in Y : last = all[n + 1]
      BY <2>5, <1>3
    <3>2. PICK more \in Seq(Y) : more = Append(kept, last)
      BY ONLY AppendProperties, kept \in Seq(Y), last \in Y
    <3>3. /\ Len(more) = Len(kept) + 1 /\ more[Len(kept) + 1] = last
          /\ \A j \in 1..Len(kept) : more[j] = kept[j]
      BY ONLY AppendProperties, <3>2, kept \in Seq(Y), last \in Y
    <3>4. count(n) \in Nat /\ count(n + 1) = count(n) + 1
      BY ONLY <1>5, <2>5, n \in Nat
    <3>5. ASSUME NEW i \in good \cap 1..(n + 1)
          PROVE  count(i) \in 1..Len(more) /\ more[count(i)] = all[i]
      <4>1. CASE i = n + 1
        BY ONLY <4>1, <3>1, <3>3, <3>4, <2>4
      <4>2. CASE i \in 1..n
        <5>1. count(i) \in 1..Len(kept) /\ kept[count(i)] = all[i]
          BY ONLY <2>4, <4>2, i \in good \cap 1..(n + 1)
        <5> QED BY ONLY <5>1, <3>3, <3>4, <2>4
      <4> QED BY ONLY <4>1, <4>2, i \in good \cap 1..(n + 1), n \in Nat
    <3>6. k[n + 1] = more
      BY ONLY <2>2, <2>3, <2>5, <3>1, <3>2
    <3> QED BY ONLY <3>3, <3>4, <3>5, <3>6, <2>4, more \in Seq(Y) DEF Right
  <2>6. CASE n + 1 \notin good
    <3>1. k[n + 1] = kept
      BY ONLY <2>2, <2>3, <2>6
    <3>2. count(n + 1) = count(n)
      BY ONLY <1>5, <2>6, n \in Nat
    <3>3. good \cap 1..(n + 1) = good \cap 1..n
      BY <2>6
    <3> QED BY ONLY <3>1, <3>2, <3>3, <2>4, kept \in Seq(Y) DEF Right
  <2> QED BY <2>5, <2>6
<1>8. Right(N, k[N])
  <2> HIDE DEF Right
  <2>1. \A n \in Nat : n \in P => n + 1 \in P
    BY <1>7
  <2>2. N \in P
    <3> HIDE DEF P
    <3> QED BY ONLY <1>6, <2>1, Induction, N \in Nat
  <2> QED BY <2>2
<1>9. good \cap 1..N = good
  BY <1>1
<1> QED
  <2> HIDE DEF count
  <2>1. count(N) = Cardinality(good)
    BY ONLY <1>9 DEF count
  <2>2. /\ k[N] \in Seq(Y) /\ Len(k[N]) = Cardinality(good)
        /\ \A i \in good : count(i) \in 1..Len(k[N]) /\ k[N][count(i)] = all[i]
    BY ONLY <1>8, <1>9, <2>1
  <2> QED BY ONLY <1>2, <1>3, <2>2 DEF count

LEMMA LenOfFunction ==
  ASSUME NEW n \in Nat, NEW Y, NEW f \in [1..n -> Y]
  PROVE  f \in Seq(Y) /\ Len(f) = n
<1>1. f \in Seq(Y)
  BY SeqDef
<1>2. DOMAIN f = 1..n /\ DOMAIN f = 1..Len(f) /\ Len(f) \in Nat
  BY <1>1, LenProperties
<1> QED BY <1>1, <1>2

(* What an object with a member of some kind says under its name.          *)
LEMMA GetOfKind ==
  ASSUME NEW json, NEW key, NEW kind \in {"str", "arr", "obj"}, Is(kind, Get(json, key))
  PROVE  key \in DOMAIN json[2] /\ Get(json, key) = json[2][key]
<1>1. ~Is(kind, Missing)
  BY DEF Is, Missing
<1> QED BY <1>1 DEF Get

(* Where an array has valid links.                                         *)
Valid(links) == {i \in DOMAIN links[2] : IsLink(links[2][i])}

(* Every link that is valid, and no other, in the order of the array.      *)
LEMMA LinksAreKept ==
  ASSUME NEW links, NEW X, Is("arr", links), links[2] \in Seq(X),
         NEW valid, valid = Valid(links)
  PROVE  /\ Len(ParseLinksObject(links)) = Cardinality(valid)
         /\ \A i \in valid :
              ParseLinksObject(links)[Cardinality(valid \cap 1..i)].href = links[2][i][2].href[2]
<1>1. PICK all \in Seq(X) : all = links[2]
  OBVIOUS
<1>2. DOMAIN all = 1..Len(all) /\ Len(all) \in Nat
  BY LenProperties
<1>3. PICK kept : kept = Kept(all, valid)
  OBVIOUS
<1> DEFINE link(i) == [href |-> Get(kept[i], "href")[2], type |-> StringOr(Get(kept[i], "type"), ""),
                       title |-> StringOr(Get(kept[i], "title"), ""), rel |-> Get(kept[i], "rel")[2]]
<1>4. ParseLinksObject(links) = [i \in DOMAIN kept |-> link(i)]
  <2>1. Elements(links) = all
    BY <1>1 DEF Elements
  <2>2. {i \in DOMAIN all : IsLink(all[i])} = valid
    BY <1>1 DEF Valid
  <2> QED BY <1>3, <2>1, <2>2 DEF ParseLinksObject
<1>5. /\ kept \in Seq({all[i] : i \in valid}) /\ Len(kept) = Cardinality(valid)
      /\ \A i \in valid : /\ Cardinality(valid \cap 1..i) \in 1..Len(kept)
                        /\ kept[Cardinality(valid \cap 1..i)] = all[i]
  <2>1. valid \in SUBSET (1..Len(all))
    BY <1>1, <1>2 DEF Valid
  <2> QED BY ONLY <1>3, <2>1, all \in Seq(X), KeptSays
<1>6. DOMAIN kept = 1..Len(kept) /\ Len(kept) \in Nat
  BY <1>5, LenProperties
<1>7. PICK f : f = [i \in 1..Len(kept) |-> link(i)]
  OBVIOUS
<1>8. Len(f) = Len(kept)
  <2> HIDE DEF link
  <2>1. f \in [1..Len(kept) -> {link(i) : i \in 1..Len(kept)}]
    BY <1>7
  <2> QED BY ONLY <1>6, <2>1, LenOfFunction
<1>9. ASSUME NEW i \in valid
      PROVE  f[Cardinality(valid \cap 1..i)].href = all[i][2].href[2]
  <2>1. PICK j \in 1..Len(kept) : j = Cardinality(valid \cap 1..i) /\ kept[j] = all[i]
    BY <1>5
  <2>2. f[j].href = Get(kept[j], "href")[2]
    BY <1>7
  <2>3. IsLink(all[i])
    BY <1>1 DEF Valid
  <2>4. Get(all[i], "href") = all[i][2].href
    BY <2>3, GetOfKind DEF IsLink
  <2> QED BY <2>1, <2>2, <2>4
<1> QED
  <2>1. ParseLinksObject(links) = f
    BY ONLY <1>4, <1>6, <1>7
  <2> QED BY ONLY <1>1, <1>5, <1>8, <1>9, <2>1

(* Every element that is a string, and no other.                           *)
LEMMA StringsAreKept ==
  ASSUME NEW json, NEW X, Is("arr", json), json[2] \in Seq(X)
  PROVE  Range(Strings(json)) = {e[2] : e \in {x \in Range(json[2]) : Is("str", x)}}
<1>1. PICK all \in Seq(X) : all = json[2]
  OBVIOUS
<1>2. DOMAIN all = 1..Len(all) /\ Len(all) \in Nat
  BY LenProperties
<1>3. PICK good : good = {i \in DOMAIN all : Is("str", all[i])}
  OBVIOUS
<1>4. PICK kept : kept = Kept(all, good)
  OBVIOUS
<1>5. Strings(json) = [i \in DOMAIN kept |-> kept[i][2]]
  <2>1. Elements(json) = all
    BY <1>1 DEF Elements
  <2> QED BY <1>3, <1>4, <2>1 DEF Strings, Contents
<1>6. /\ kept \in Seq({all[i] : i \in good})
      /\ \A i \in good : /\ Cardinality(good \cap 1..i) \in 1..Len(kept)
                       /\ kept[Cardinality(good \cap 1..i)] = all[i]
  <2>1. good \in SUBSET (1..Len(all))
    BY <1>2, <1>3
  <2> QED BY ONLY <1>4, <2>1, all \in Seq(X), KeptSays
<1>7. DOMAIN kept = 1..Len(kept) /\ \A j \in 1..Len(kept) : kept[j] \in {all[i] : i \in good}
  BY <1>6, LenProperties, ElementOfSeq
<1>8. Range(Strings(json)) = {kept[j][2] : j \in 1..Len(kept)}
  BY ONLY <1>5, <1>7 DEF Range
<1>9. {kept[j][2] : j \in 1..Len(kept)} = {all[i][2] : i \in good}
  <2>1. ASSUME NEW i \in good PROVE \E j \in 1..Len(kept) : kept[j] = all[i]
    BY <1>6
  <2> QED BY ONLY <1>7, <2>1
<1>10. {all[i][2] : i \in good} = {e[2] : e \in {x \in Range(all) : Is("str", x)}}
  BY ONLY <1>3 DEF Range
<1> QED BY ONLY <1>1, <1>8, <1>9, <1>10

(* Where the text to parse comes from.                                     *)
IsFile(body) == \E d \in DOMAIN Documents, whole \in BOOLEAN : body = [NoBody EXCEPT !.sound = whole, !.doc = d]

Came ==
  \/ answer = Unset /\ IsFile(content)
  \/ /\ answer \in Answers /\ ~Refused(ResponseData(answer))
     /\ content = ResponseData(answer).body

(* How far the document got, and why it got no further.                    *)
RowInv ==
  /\ phase \in {"bind", "open", "sent"} => answer = Unset /\ content = Unset
  /\ phase \in {"read", "execute", "row"} => Came
  /\ phase \in {"execute", "row"} =>
       IsRead /\ row = FixedColumns(Parsed, [catalog |-> "", collection |-> ""])
  /\ phase = "row" => HasRow(Parsed)
  /\ phase = "failed" =>
       \/ answer = Unset /\ content = Unset
       \/ answer \in Answers /\ Refused(ResponseData(answer))
       \/ Came /\ ~HasRow(Parsed)

(* What is parsed is the document, if it came whole, and else no JSON.     *)
LEMMA ParsedIsDocument ==
  ASSUME Came
  PROVE  /\ Parsed = IF WholeDocument THEN Documents[DocumentRead] ELSE NotJson
         /\ DocumentRead \in DOMAIN Documents
<1>1. CASE answer = Unset /\ IsFile(content)
  <2>1. PICK d \in DOMAIN Documents, whole \in BOOLEAN :
             content = [NoBody EXCEPT !.sound = whole, !.doc = d]
    BY <1>1 DEF IsFile
  <2>2. content.coding = "plain" /\ content.sound = whole /\ content.doc = d
    BY <2>1 DEF NoBody
  <2>3. WholeDocument <=> content.sound
    BY <1>1 DEF WholeDocument
  <2> QED BY <1>1, <2>2, <2>3 DEF Parsed, DocumentRead
<1>2. CASE /\ answer \in Answers /\ ~Refused(ResponseData(answer))
           /\ content = ResponseData(answer).body
  <2>1. answer # Unset
    BY <1>2, SessionAssumption
  <2>2. answer.error = ""
    BY <1>2 DEF ResponseData, Failure, Refused
  <2>3. answer.status = 200 /\ content = Decoded(answer.body)
    BY <1>2, <2>2 DEF ResponseData, Refused
  <2>4. PICK body \in [coding : STRING, sound : BOOLEAN, ratio : Nat, doc : STRING] : body = answer.body
    BY <1>2, SessionAssumption
  <2>5. body.doc \in DOMAIN Documents
    BY <1>2, <2>2, <2>4, SessionAssumption
  <2>6. /\ content.doc = body.doc /\ content.sound = body.sound
        /\ content.coding = IF Decodes(body) THEN "plain" ELSE body.coding
    BY ONLY <2>3, <2>4 DEF Decoded
  <2>7. content.coding = "plain" /\ content.sound <=> WholeDocument
    BY ONLY <2>1, <2>2, <2>3, <2>4, <2>6 DEF WholeDocument, Decodes
  <2>8. DocumentRead = body.doc
    BY ONLY <2>1, <2>4 DEF DocumentRead
  <2> QED BY ONLY <2>5, <2>6, <2>7, <2>8 DEF Parsed
<1> QED BY <1>1, <1>2 DEF Came

(* A row is what becomes of a document that is read and whose geometry is  *)
(* accepted.                                                               *)
LEMMA HasRowIfRead ==
  HasRow(Parsed) <=>
    IsRead /\ (scenario.reads_geometry => Castable(GeometryAsWKT(Get(Parsed, "geometry"))))
BY Zenon DEF HasRow, IsRead, FeatureThrows

LEMMA RowInitInv == Init => RowInv
BY DEF Init, RowInv

LEMMA RowNextInv == RowInv /\ [Next]_vars => RowInv'
<1> SUFFICES ASSUME RowInv, [Next]_vars
             PROVE  RowInv'
  OBVIOUS
<1> USE DEF RowInv
(* What is parsed depends on the content alone.                            *)
<1>a. ASSUME UNCHANGED <<answer, content>>
      PROVE  Came' = Came
  BY <1>a DEF Came
<1>b. ASSUME UNCHANGED content
      PROVE  Parsed' = Parsed /\ IsRead' = IsRead
  BY <1>b DEF IsRead, Parsed
<1>c. ASSUME UNCHANGED <<scenario, content>>
      PROVE  HasRow(Parsed)' = HasRow(Parsed)
  BY <1>b, <1>c DEF HasRow, Castable
<1>1. CASE Bind
  BY <1>1 DEF Bind
<1>2. CASE RefuseBbox
  BY <1>2 DEF RefuseBbox, Fail
<1>3. CASE ReadFile
  <2>1. answer' = Unset /\ IsFile(content')
    BY <1>3 DEF ReadFile, IsFile
  <2> QED BY <1>3, <2>1 DEF ReadFile, Came
<1>4. CASE SendRequest
  BY <1>4 DEF SendRequest
<1>5. CASE RefuseRequest
  BY <1>5 DEF RefuseRequest, Fail
<1>6. CASE Answered
  <2>1. CASE Refused(ResponseData(answer'))
    BY <1>6, <2>1 DEF Answered, Fail
  <2>2. CASE ~Refused(ResponseData(answer'))
    <3>1. answer' \in Answers /\ content' = ResponseData(answer').body /\ phase' = "read"
      BY <1>6, <2>2 DEF Answered
    <3>2. Came'
      BY <2>2, <3>1 DEF Came
    <3> QED BY ONLY <3>1, <3>2
  <2> QED BY <2>1, <2>2
<1>7. CASE ReadFeature
  <2>1. Came' /\ IsRead' /\ Parsed' = Parsed
    BY <1>7, <1>a, <1>b DEF ReadFeature
  <2> QED BY <1>7, <2>1 DEF ReadFeature
<1>8. CASE RefuseDocument
  <2>1. Came' /\ ~HasRow(Parsed)'
    BY <1>8, <1>a, <1>c, HasRowIfRead DEF RefuseDocument
  <2> QED BY <1>8, <2>1 DEF RefuseDocument, Fail
<1>9. CASE Execute
  <2>1. Came' /\ IsRead' /\ IsRead /\ Parsed' = Parsed /\ HasRow(Parsed)' = HasRow(Parsed)
    BY <1>9, <1>a, <1>b, <1>c DEF Execute
  <2>2. row.geometry = GeometryAsWKT(Get(Parsed, "geometry"))
    <3>1. row = FixedColumns(Parsed, [catalog |-> "", collection |-> ""])
      BY <1>9 DEF Execute
    <3> QED BY ONLY <3>1 DEF FixedColumns
  <2>3. CASE scenario.reads_geometry => Castable(row.geometry)
    <3>1. HasRow(Parsed)
      BY <2>1, <2>2, <2>3, HasRowIfRead
    <3>2. phase' = "row" /\ row' = row
      BY <1>9, <2>3 DEF Execute
    <3> QED BY <1>9, <2>1, <3>1, <3>2 DEF Execute
  <2>4. CASE ~(scenario.reads_geometry => Castable(row.geometry))
    <3>1. ~HasRow(Parsed)
      BY <2>2, <2>4, HasRowIfRead
    <3>2. phase' = "failed"
      BY <1>9, <2>4 DEF Execute, Fail
    <3> QED BY ONLY <2>1, <3>1, <3>2
  <2> QED BY <2>3, <2>4
<1>10. CASE UNCHANGED vars
  BY <1>10, <1>a, <1>b, <1>c DEF vars
<1> QED
  BY <1>1, <1>2, <1>3, <1>4, <1>5, <1>6, <1>7, <1>8, <1>9, <1>10 DEF Next

LEMMA RowInductive == Spec => []RowInv
BY RowInitInv, RowNextInv, PTL DEF Spec

(* Whatever the server answers or the file holds, a row comes of a whole   *)
(* document with a complete Feature and of nothing else, and every such    *)
(* document gives its row.                                                 *)
THEOREM RowOfWholeDocuments == Spec => []RowIffReadable
<1>1. RowInv => RowIffReadable
  <2> SUFFICES ASSUME RowInv, phase \in {"row", "failed"}, answer # Unset \/ content # Unset
               PROVE  phase = "row" <=> WholeDocument /\ HasRow(Documents[DocumentRead])
    BY DEF RowIffReadable
  <2>1. ~HasRow(NotJson)
    BY DEF HasRow
  <2>2. CASE phase = "row"
    <3>1. Came /\ HasRow(Parsed)
      BY <2>2 DEF RowInv
    <3>2. WholeDocument /\ Parsed = Documents[DocumentRead]
      BY <2>1, <3>1, ParsedIsDocument
    <3> QED BY <2>2, <3>1, <3>2
  <2>3. CASE phase = "failed" /\ answer \in Answers /\ Refused(ResponseData(answer))
    <3>1. answer.error # "" \/ answer.status # 200
      BY <2>3 DEF ResponseData, Refused
    <3>2. ~WholeDocument
      BY <2>3, <3>1, SessionAssumption DEF WholeDocument
    <3> QED BY <2>3, <3>2
  <2>4. CASE phase = "failed" /\ Came /\ ~HasRow(Parsed)
    <3>1. ~(WholeDocument /\ HasRow(Documents[DocumentRead]))
      BY <2>4, ParsedIsDocument
    <3> QED BY <2>4, <3>1
  <2> QED BY <2>2, <2>3, <2>4 DEF RowInv
<1> QED BY <1>1, RowInductive, PTL

(* Whatever the document, its valid links, assets and extensions are in    *)
(* the row, the links in the order of the document.                        *)
THEOREM RowKeepsValidLinks == Spec => []RowHoldsLinks
<1>1. RowInv => RowHoldsLinks
  <2> SUFFICES ASSUME RowInv, phase = "row"
               PROVE  RowHoldsLinks
    BY DEF RowHoldsLinks
  <2>1. PICK json : json = Documents[DocumentRead]
    OBVIOUS
  <2>2. /\ Parsed = json /\ json # NotJson /\ DocumentRead \in DOMAIN Documents
        /\ \A field \in DOMAIN Required : Is(Required[field], Get(json, field))
    <3>1. Came /\ HasRow(Parsed)
      BY DEF RowInv
    <3>2. Parsed # NotJson
      BY <3>1 DEF HasRow
    <3>3. Parsed = json /\ DocumentRead \in DOMAIN Documents
      BY <2>1, <3>1, <3>2, ParsedIsDocument
    <3> QED BY <3>1, <3>2, <3>3 DEF HasRow
  <2>3. /\ Is("arr", Get(json, "links")) /\ Is("arr", Get(json, "stac_extensions"))
        /\ Is("obj", Get(json, "assets"))
    BY <2>2 DEF Required
  <2>4. PICK links, extensions, assets :
             /\ links = Get(json, "links") /\ links = json[2].links
             /\ extensions = Get(json, "stac_extensions") /\ extensions = json[2].stac_extensions
             /\ assets = Get(json, "assets") /\ assets = json[2].assets
    BY <2>3, GetOfKind
  <2>5. links[2] \in Seq(Range(links[2])) /\ extensions[2] \in Seq(Range(extensions[2]))
    <3>1. "links" \in DOMAIN json[2] /\ "stac_extensions" \in DOMAIN json[2]
      BY <2>3, GetOfKind
    <3>2. ASSUME NEW field \in DOMAIN json[2], Is("arr", json[2][field])
          PROVE  json[2][field][2] \in Seq(Range(json[2][field][2]))
      BY <2>1, <2>2, <3>2, SessionAssumption
    <3> QED BY <2>3, <2>4, <3>1, <3>2
  <2>6. /\ row.links = ParseLinksObject(links)
        /\ row.assets = ParseAssetsObject(assets)
        /\ row.extensions = Strings(extensions)
    <3>1. row = FixedColumns(json, [catalog |-> "", collection |-> ""])
      BY <2>2 DEF RowInv
    <3> QED BY ONLY <3>1, <2>4 DEF FixedColumns
  <2>7. PICK valid : valid = Valid(links)
    OBVIOUS
  <2>8. /\ Len(row.links) = Cardinality(valid)
        /\ \A i \in valid : row.links[Cardinality(valid \cap 1..i)].href = links[2][i][2].href[2]
    <3>1. PICK X : links[2] \in Seq(X)
      BY <2>5
    <3>2. Is("arr", links)
      BY ONLY <2>3, <2>4
    <3>3. PICK listed : listed = ParseLinksObject(links)
      OBVIOUS
    <3>4. /\ Len(listed) = Cardinality(valid)
          /\ \A i \in valid : listed[Cardinality(valid \cap 1..i)].href = links[2][i][2].href[2]
      BY ONLY <2>7, <3>1, <3>2, <3>3, LinksAreKept
    <3> QED BY ONLY <2>6, <3>3, <3>4
  <2>9. DOMAIN row.assets = {k \in DOMAIN assets[2] : IsAsset(assets[2][k])}
    BY ONLY <2>6 DEF ParseAssetsObject
  <2>10. Range(row.extensions) = {e[2] : e \in {x \in Range(extensions[2]) : Is("str", x)}}
    BY ONLY <2>3, <2>4, <2>5, <2>6, StringsAreKept
  <2>11. /\ TheFeature.links = links /\ TheFeature.assets = assets
         /\ TheFeature.stac_extensions = extensions
    BY ONLY <2>1, <2>4 DEF TheFeature
  <2> QED BY ONLY <2>7, <2>8, <2>9, <2>10, <2>11 DEF RowHoldsLinks, Valid
<1> QED BY <1>1, RowInductive, PTL
=============================================================================
