------------------------- MODULE PayloadCacheProofs -------------------------
(***************************************************************************)
(* The payload cache counts its bytes exactly, stays within its limit,     *)
(* evicts the coldest entries, and does to its entries what CacheStore     *)
(* promises the heap.  The list is kept in the order of the last use, the  *)
(* latest first; that names occur once follows from it.                    *)
(***************************************************************************)
EXTENDS PayloadCache, FiniteSetTheorems, SequenceTheorems,
        WellFoundedInduction, TLAPS

Item == [name : Names, version : Versions, payload : Payloads]

(* A payload has a size.                                                   *)
LEMMA SizeType == ASSUME NEW e \in Item PROVE Size(e) \in Nat
BY PayloadsAssumption DEF Size, Item

-----------------------------------------------------------------------------
(* Numbers.                                                                *)

(* A nonempty set of numbers has a least element.                          *)
LEMMA LeastNumber ==
    ASSUME NEW T \in SUBSET Nat, T # {}
    PROVE  \E k \in T : \A j \in T : k <= j
<1> DEFINE R == OpToRel(<, Nat)
<1>1. IsWellFoundedOn(R, Nat)
  BY NatLessThanWellFounded
<1> HIDE DEF R
<1>2. PICK k \in T : \A j \in T : ~ (<<j, k>> \in R)
  BY <1>1, WFMin
<1>3. \A j \in T : ~ (j < k)
  BY <1>2 DEF R, OpToRel
<1> QED
  BY <1>3

(* A nonempty set of numbers up to m has a greatest.                       *)
LEMMA GreatestNumber ==
    ASSUME NEW m \in Nat, NEW T \in SUBSET (0 .. m), T # {}
    PROVE  \E k \in T : \A j \in T : j <= k
<1> DEFINE U == {i \in 0 .. m : m - i \in T}
<1>1. U \in SUBSET Nat /\ U # {}
  <2>1. PICK k \in 0 .. m : k \in T
    OBVIOUS
  <2>2. PICK i \in 0 .. m : m - i = k
    <3>1. m - k \in 0 .. m /\ m - (m - k) = k
      BY <2>1
    <3> QED
      BY <3>1
  <2>3. i \in U
    BY <2>1, <2>2
  <2>4. \A j \in U : j \in Nat
    OBVIOUS
  <2> HIDE DEF U
  <2> QED
    BY <2>3, <2>4
<1>2. PICK i \in U : \A j \in U : i <= j
  BY <1>1, LeastNumber
<1>3. ASSUME NEW j \in T PROVE j <= m - i
  <2>1. m - j \in 0 .. m /\ m - (m - j) = j
    OBVIOUS
  <2>2. i <= m - j
    BY <1>2, <2>1
  <2> QED
    BY <1>2, <2>2
<1> QED
  BY <1>2, <1>3

-----------------------------------------------------------------------------
(* The bytes of a list.                                                    *)

(* The sizes of the beginnings of a list.                                  *)
IsSum(s, list) ==
    /\ s \in [0 .. Len(list) -> Nat]
    /\ s[0] = 0
    /\ \A i \in 1 .. Len(list) : s[i] = s[i - 1] + Size(list[i])

(* Every list has such sizes.                                              *)
LEMMA SumExists ==
    ASSUME NEW list \in Seq(Item)
    PROVE  \E s : IsSum(s, list)
<1> DEFINE Sum(s, k) == /\ s \in [0 .. k -> Nat]
                        /\ s[0] = 0
                        /\ \A i \in 1 .. k : s[i] = s[i - 1] + Size(list[i])
           Bad == {k \in 0 .. Len(list) : ~ \E s : Sum(s, k)}
<1>1. Len(list) \in Nat /\ \A i \in 1 .. Len(list) : Size(list[i]) \in Nat
  BY SizeType
<1>2. SUFFICES Bad = {}
  <2>1. Len(list) \in 0 .. Len(list)
    BY <1>1
  <2>2. \E s : Sum(s, Len(list))
    BY <1>2, <2>1
  <2> QED
    BY <2>2 DEF IsSum
<1>3. SUFFICES ASSUME Bad # {} PROVE FALSE
  OBVIOUS
<1>4. Bad \in SUBSET Nat
  BY <1>1
<1>5. PICK k \in Bad : \A j \in Bad : k <= j
  BY <1>3, <1>4, LeastNumber
<1>6. CASE k = 0
  <2>1. Sum([i \in 0 .. 0 |-> 0], 0)
    OBVIOUS
  <2> QED
    BY <1>5, <1>6, <2>1
<1>7. CASE k # 0
  <2>1. k \in 1 .. Len(list) /\ k - 1 \in 0 .. Len(list) /\ ~ (k <= k - 1)
    BY <1>1, <1>5, <1>7
  <2>2. PICK s : Sum(s, k - 1)
    BY <1>5, <2>1
  <2>3. PICK u : u = [i \in 0 .. k |-> IF i = k THEN s[k - 1] + Size(list[k])
                                                ELSE s[i]]
    OBVIOUS
  <2>4. u \in [0 .. k -> Nat] /\ u[0] = 0
    BY <1>1, <2>1, <2>2, <2>3
  <2>5. ASSUME NEW i \in 1 .. k PROVE u[i] = u[i - 1] + Size(list[i])
    <3>1. i - 1 \in 0 .. k - 1 /\ u[i - 1] = s[i - 1]
      BY <2>1, <2>3
    <3>2. CASE i = k
      BY <2>1, <2>3, <3>1, <3>2
    <3>3. CASE i # k
      <4>1. i \in 1 .. k - 1
        BY <2>1, <3>3
      <4>2. u[i] = s[i] /\ s[i] = s[i - 1] + Size(list[i])
        BY <2>2, <2>3, <3>3, <4>1
      <4> QED
        BY <3>1, <4>2
    <3> QED
      BY <3>2, <3>3
  <2>6. Sum(u, k)
    BY <2>4, <2>5
  <2> QED
    BY <1>5, <2>6
<1> QED
  BY <1>6, <1>7

(* There is one such function, and Total takes its last value.             *)
LEMMA TotalIs ==
    ASSUME NEW list \in Seq(Item), NEW s, IsSum(s, list)
    PROVE  Total(list) = s[Len(list)] /\ Total(list) \in Nat
<1>1. Len(list) \in Nat /\ \A i \in 1 .. Len(list) : Size(list[i]) \in Nat
  BY SizeType
<1>2. s = [i \in 0 .. Len(list) |->
             IF i = 0 THEN 0 ELSE s[i - 1] + Size(list[i])]
  BY <1>1 DEF IsSum
<1> DEFINE sum == CHOOSE f : f = [i \in 0 .. Len(list) |->
                     IF i = 0 THEN 0 ELSE f[i - 1] + Size(list[i])]
<1>3. sum = [i \in 0 .. Len(list) |->
               IF i = 0 THEN 0 ELSE sum[i - 1] + Size(list[i])]
  BY <1>2
<1>4. Total(list) = sum[Len(list)]
  BY DEF Total
<1> HIDE DEF sum
<1> DEFINE Bad == {i \in 0 .. Len(list) : sum[i] # s[i]}
<1>5. Bad = {}
  <2> SUFFICES ASSUME Bad # {} PROVE FALSE
    OBVIOUS
  <2>1. Bad \in SUBSET Nat
    BY <1>1
  <2>2. PICK k \in Bad : \A j \in Bad : k <= j
    BY <2>1, LeastNumber
  <2>3. k \in 0 .. Len(list) /\ k # 0
    BY <1>1, <1>2, <1>3, <2>2
  <2>4. k - 1 \in 0 .. Len(list) /\ ~ (k <= k - 1)
    BY <1>1, <2>3
  <2>5. sum[k - 1] = s[k - 1]
    BY <2>2, <2>4
  <2> QED
    BY <1>2, <1>3, <2>2, <2>3, <2>5
<1>6. Len(list) \in 0 .. Len(list)
  BY <1>1
<1> QED
  BY <1>4, <1>5, <1>6 DEF IsSum

(* The bytes of two lists add up.                                          *)
LEMMA TotalConcat ==
    ASSUME NEW a \in Seq(Item), NEW b \in Seq(Item)
    PROVE  /\ a \o b \in Seq(Item)
           /\ Total(a) \in Nat /\ Total(b) \in Nat
           /\ Total(a \o b) = Total(a) + Total(b)
<1>1. PICK s : IsSum(s, a)
  BY SumExists
<1>2. PICK t : IsSum(t, b)
  BY SumExists
<1>3. PICK x \in Nat : x = Len(a)
  OBVIOUS
<1>4. PICK y \in Nat : y = Len(b)
  OBVIOUS
<1>5. PICK c : c = a \o b
  OBVIOUS
<1>6. /\ c \in Seq(Item) /\ Len(c) = x + y
      /\ \A i \in 1 .. x : c[i] = a[i]
      /\ \A i \in x + 1 .. x + y : c[i] = b[i - x]
  BY <1>3, <1>4, <1>5
<1>7. /\ s \in [0 .. x -> Nat] /\ s[0] = 0
      /\ \A i \in 1 .. x : s[i] = s[i - 1] + Size(a[i])
      /\ t \in [0 .. y -> Nat] /\ t[0] = 0
      /\ \A i \in 1 .. y : t[i] = t[i - 1] + Size(b[i])
  BY <1>1, <1>2, <1>3, <1>4 DEF IsSum
<1>8. PICK u : u = [i \in 0 .. x + y |-> IF i <= x THEN s[i] ELSE s[x] + t[i - x]]
  OBVIOUS
<1>9. s[x] \in Nat /\ \A i \in x .. x + y : u[i] = s[x] + t[i - x]
  <2>1. s[x] \in Nat
    BY <1>7
  <2>2. ASSUME NEW i \in x .. x + y PROVE u[i] = s[x] + t[i - x]
    <3>1. i \in 0 .. x + y
      OBVIOUS
    <3>2. CASE i = x
      <4>1. u[i] = s[x] /\ i - x = 0
        BY <1>8, <3>1, <3>2
      <4> QED
        BY <1>7, <2>1, <4>1
    <3>3. CASE i # x
      <4>1. ~ (i <= x)
        BY <3>3
      <4> QED
        BY <1>8, <3>1, <4>1
    <3> QED
      BY <3>2, <3>3
  <2> QED
    BY <2>1, <2>2
<1>10. u \in [0 .. x + y -> Nat] /\ u[0] = 0
  <2>1. ASSUME NEW i \in 0 .. x + y, ~ (i <= x) PROVE t[i - x] \in Nat
    <3>1. i - x \in 0 .. y
      BY <2>1
    <3> QED
      BY <1>7, <3>1
  <2>2. ASSUME NEW i \in 0 .. x + y, i <= x PROVE s[i] \in Nat
    <3>1. i \in 0 .. x
      BY <2>2
    <3> QED
      BY <1>7, <3>1
  <2>3. \A i \in 0 .. x + y :
          (IF i <= x THEN s[i] ELSE s[x] + t[i - x]) \in Nat
    BY <1>9, <2>1, <2>2
  <2>4. u \in [0 .. x + y -> Nat]
    BY <1>8, <2>3
  <2> QED
    BY <1>7, <1>8, <2>4
<1>11. ASSUME NEW i \in 1 .. x + y PROVE u[i] = u[i - 1] + Size(c[i])
  <2>1. CASE i <= x
    <3>1. i \in 1 .. x /\ i \in 0 .. x + y /\ i - 1 \in 0 .. x + y /\ i - 1 <= x
      BY <2>1
    <3>2. u[i] = s[i] /\ u[i - 1] = s[i - 1]
      BY <1>8, <2>1, <3>1
    <3> QED
      BY <1>6, <1>7, <3>1, <3>2
  <2>2. CASE ~ (i <= x)
    <3>1. /\ i \in x .. x + y /\ i - 1 \in x .. x + y /\ i \in x + 1 .. x + y
          /\ (i - 1) - x = (i - x) - 1
      BY <2>2
    <3>2. PICK j \in 1 .. y : j = i - x
      BY <2>2
    <3>3. u[i] = s[x] + t[j] /\ u[i - 1] = s[x] + t[j - 1]
      BY <1>9, <3>1, <3>2
    <3>4. t[j] = t[j - 1] + Size(b[j]) /\ c[i] = b[j]
      BY <1>6, <1>7, <3>1, <3>2
    <3>5. t[j - 1] \in Nat /\ Size(b[j]) \in Nat
      <4>1. j - 1 \in 0 .. y /\ b[j] \in Item
        BY <1>4, <3>2
      <4> QED
        BY <1>7, <4>1, SizeType
    <3> QED
      BY <1>9, <3>3, <3>4, <3>5
  <2> QED
    BY <2>1, <2>2
<1>12. IsSum(u, c)
  BY <1>6, <1>10, <1>11 DEF IsSum
<1>13. /\ Total(a) = s[x] /\ Total(b) = t[y] /\ Total(c) = u[x + y]
       /\ Total(a) \in Nat /\ Total(b) \in Nat
  BY <1>1, <1>2, <1>3, <1>4, <1>6, <1>12, TotalIs
<1>14. u[x + y] = s[x] + t[y]
  <2>1. x + y \in x .. x + y /\ (x + y) - x = y
    OBVIOUS
  <2> QED
    BY <1>9, <2>1
<1> QED
  BY <1>5, <1>6, <1>13, <1>14

(* An empty list has no bytes.                                             *)
LEMMA TotalNone == Total(<< >>) = 0
<1>1. PICK none \in Seq(Item) : none = << >> /\ Len(none) = 0
  <2>1. << >> \in Seq(Item) /\ Len(<< >>) = 0
    BY EmptySeq
  <2> QED
    BY <2>1
<1>2. PICK s : IsSum(s, none)
  BY SumExists
<1>3. s[0] = 0 /\ Total(none) = s[0]
  BY <1>1, <1>2, TotalIs DEF IsSum
<1> QED
  BY <1>1, <1>3

(* One entry has the bytes of its payload.                                 *)
LEMMA TotalOne == ASSUME NEW e \in Item PROVE Total(<<e>>) = Size(e)
<1>1. PICK one \in Seq(Item) : one = <<e>> /\ Len(one) = 1 /\ one[1] = e
  <2>1. <<e>> \in Seq(Item) /\ Len(<<e>>) = 1 /\ <<e>>[1] = e
    OBVIOUS
  <2> QED
    BY <2>1
<1>2. PICK s : IsSum(s, one)
  BY SumExists
<1>3. /\ s[0] = 0 /\ Total(one) = s[1]
      /\ \A i \in 1 .. 1 : s[i] = s[i - 1] + Size(one[i])
  BY <1>1, <1>2, TotalIs DEF IsSum
<1>4. 1 \in 1 .. 1 /\ 1 - 1 = 0
  OBVIOUS
<1>5. s[1] = s[0] + Size(e)
  BY <1>1, <1>3, <1>4
<1> QED
  BY <1>1, <1>3, <1>5, SizeType

-----------------------------------------------------------------------------
(* Two lists, one behind the other.                                        *)
LEMMA Joined ==
    ASSUME NEW a \in Seq(Item), NEW b \in Seq(Item), NEW x \in Nat, NEW z \in Nat,
           Len(a) = x, x + Len(b) = z
    PROVE  /\ a \o b \in Seq(Item) /\ Len(a \o b) = z
           /\ \A i \in 1 .. x : (a \o b)[i] = a[i]
           /\ \A i \in x + 1 .. z : (a \o b)[i] = b[i - x]
OBVIOUS

(* One entry less: the others keep their order.                            *)

(* The place in the list of entry i of what is left without entry p.       *)
Origin(p, i) == IF i < p THEN i ELSE i + 1

(* The list without its entry p.                                           *)
LEMMA Removed ==
    ASSUME NEW list \in Seq(Item), NEW p \in 1 .. Len(list)
    PROVE  /\ RemoveAt(list, p) \in Seq(Item)
           /\ Len(RemoveAt(list, p)) = Len(list) - 1
           /\ \A i \in 1 .. Len(list) - 1 :
                 RemoveAt(list, p)[i] = list[Origin(p, i)]
           /\ Total(RemoveAt(list, p)) = Total(list) - Size(list[p])
           /\ Total(list) \in Nat
<1>1. PICK k \in Nat : k = Len(list)
  OBVIOUS
<1>2. PICK a : a = SubSeq(list, 1, p - 1)
  OBVIOUS
<1>3. PICK b : b = SubSeq(list, p + 1, k)
  OBVIOUS
<1>4. PICK e \in Item : e = list[p]
  OBVIOUS
<1>5. p \in 1 .. k /\ \A i \in 1 .. k : list[i] \in Item
  BY <1>1
<1>6. a \in Seq(Item) /\ Len(a) = p - 1 /\ \A i \in 1 .. p - 1 : a[i] = list[i]
  BY <1>1, <1>2, <1>5
<1>7. /\ b \in Seq(Item) /\ Len(b) = k - p
      /\ \A i \in 1 .. k - p : b[i] = list[p + i]
  BY <1>1, <1>3, <1>5
<1>8. RemoveAt(list, p) = a \o b
  BY <1>1, <1>2, <1>3 DEF RemoveAt
<1>9. PICK r : r = a \o b
  OBVIOUS
<1>10. /\ r \in Seq(Item) /\ Len(r) = k - 1
       /\ \A i \in 1 .. p - 1 : r[i] = a[i]
       /\ \A i \in p .. k - 1 : r[i] = b[i - (p - 1)]
  <2>1. /\ p - 1 \in Nat /\ k - 1 \in Nat /\ (p - 1) + Len(b) = k - 1
        /\ (p - 1) + 1 = p
    BY <1>5, <1>7
  <2> QED
    BY <1>1, <1>6, <1>7, <1>9, <2>1, Joined
<1>11. ASSUME NEW i \in 1 .. k - 1 PROVE r[i] = list[Origin(p, i)]
  <2>1. CASE i < p
    <3>1. i \in 1 .. p - 1 /\ Origin(p, i) = i
      BY <1>5, <2>1 DEF Origin
    <3> QED
      BY <1>6, <1>10, <3>1
  <2>2. CASE ~ (i < p)
    <3>1. /\ i \in p .. k - 1 /\ Origin(p, i) = i + 1
          /\ i - (p - 1) \in 1 .. k - p /\ p + (i - (p - 1)) = i + 1
      BY <1>5, <2>2 DEF Origin
    <3> QED
      BY <1>7, <1>10, <3>1
  <2> QED
    BY <2>1, <2>2
<1>12. list = (a \o <<e>>) \o b
  <2>1. PICK c : c = a \o <<e>>
    OBVIOUS
  <2>2. <<e>> \in Seq(Item) /\ Len(<<e>>) = 1 /\ <<e>>[1] = e
    OBVIOUS
  <2>3. c \in Seq(Item) /\ Len(c) = p /\ \A i \in 1 .. p : c[i] = list[i]
    <3>1. c \in Seq(Item) /\ Len(c) = p /\ c[p] = e
          /\ \A i \in 1 .. p - 1 : c[i] = a[i]
      BY <1>5, <1>6, <2>1, <2>2
    <3> QED
      BY <1>4, <1>5, <1>6, <3>1
  <2>4. PICK d : d = c \o b
    OBVIOUS
  <2>5. /\ d \in Seq(Item) /\ Len(d) = k
        /\ \A i \in 1 .. p : d[i] = c[i]
        /\ \A i \in p + 1 .. k : d[i] = b[i - p]
    <3>1. p \in Nat /\ p + Len(b) = k
      BY <1>5, <1>7
    <3> QED
      <4>1. c \in Seq(Item) /\ b \in Seq(Item) /\ Len(c) = p
        BY <1>7, <2>3
      <4>2. /\ c \o b \in Seq(Item) /\ Len(c \o b) = k
            /\ \A i \in 1 .. p : (c \o b)[i] = c[i]
            /\ \A i \in p + 1 .. k : (c \o b)[i] = b[i - p]
        BY <3>1, <4>1, Joined
      <4> QED
        BY <2>4, <4>2
  <2>6. ASSUME NEW i \in 1 .. k PROVE d[i] = list[i]
    <3>1. CASE i <= p
      BY <1>5, <2>3, <2>5, <3>1
    <3>2. CASE ~ (i <= p)
      <4>1. i \in p + 1 .. k /\ i - p \in 1 .. k - p /\ p + (i - p) = i
        BY <1>5, <3>2
      <4> QED
        BY <1>7, <2>5, <4>1
    <3> QED
      BY <3>1, <3>2
  <2>7. d = list
    BY <1>1, <2>5, <2>6, SeqEqual
  <2> QED
    BY <2>1, <2>4, <2>7
<1>13. /\ Total(list) = (Total(a) + Size(e)) + Total(b)
       /\ Total(r) = Total(a) + Total(b)
       /\ Total(a) \in Nat /\ Total(b) \in Nat /\ Size(e) \in Nat
  <2>1. <<e>> \in Seq(Item) /\ Total(<<e>>) = Size(e) /\ Size(e) \in Nat
    BY TotalOne, SizeType
  <2>2. /\ a \o <<e>> \in Seq(Item)
        /\ Total(a \o <<e>>) = Total(a) + Size(e)
    BY <1>6, <2>1, TotalConcat
  <2> QED
    BY <1>6, <1>7, <1>9, <1>12, <2>1, <2>2, TotalConcat
<1> QED
  BY <1>1, <1>4, <1>8, <1>9, <1>10, <1>11, <1>13

(* A beginning of a list, and the bytes of the rest.                       *)
LEMMA Begun ==
    ASSUME NEW list \in Seq(Item), NEW k \in 0 .. Len(list)
    PROVE  /\ SubSeq(list, 1, k) \in Seq(Item)
           /\ Len(SubSeq(list, 1, k)) = k
           /\ \A i \in 1 .. k : SubSeq(list, 1, k)[i] = list[i]
           /\ Total(SubSeq(list, 1, k)) \in Nat
           /\ Total(SubSeq(list, k + 1, Len(list))) \in Nat
           /\ Total(list) = Total(SubSeq(list, 1, k))
                              + Total(SubSeq(list, k + 1, Len(list)))
<1>1. PICK m \in Nat : m = Len(list)
  OBVIOUS
<1>2. PICK a : a = SubSeq(list, 1, k)
  OBVIOUS
<1>3. PICK b : b = SubSeq(list, k + 1, m)
  OBVIOUS
<1>4. k \in 0 .. m /\ \A i \in 1 .. m : list[i] \in Item
  BY <1>1
<1>5. a \in Seq(Item) /\ Len(a) = k /\ \A i \in 1 .. k : a[i] = list[i]
  BY <1>1, <1>2, <1>4
<1>6. /\ b \in Seq(Item) /\ Len(b) = m - k
      /\ \A i \in 1 .. m - k : b[i] = list[k + i]
  BY <1>1, <1>3, <1>4
<1>7. PICK d : d = a \o b
  OBVIOUS
<1>8. /\ d \in Seq(Item) /\ Len(d) = m
      /\ \A i \in 1 .. k : d[i] = a[i]
      /\ \A i \in k + 1 .. m : d[i] = b[i - k]
  <2>1. k \in Nat /\ k + Len(b) = m
    BY <1>4, <1>6
  <2> QED
    <3>1. a \in Seq(Item) /\ b \in Seq(Item) /\ Len(a) = k
      BY <1>5, <1>6
    <3>2. /\ a \o b \in Seq(Item) /\ Len(a \o b) = m
          /\ \A i \in 1 .. k : (a \o b)[i] = a[i]
          /\ \A i \in k + 1 .. m : (a \o b)[i] = b[i - k]
      BY <2>1, <3>1, Joined
    <3> QED
      BY <1>7, <3>2
<1>9. ASSUME NEW i \in 1 .. m PROVE d[i] = list[i]
  <2>1. CASE i <= k
    BY <1>4, <1>5, <1>8, <2>1
  <2>2. CASE ~ (i <= k)
    <3>1. i \in k + 1 .. m /\ i - k \in 1 .. m - k /\ k + (i - k) = i
      BY <1>4, <2>2
    <3> QED
      BY <1>6, <1>8, <3>1
  <2> QED
    BY <2>1, <2>2
<1>10. d = list
  BY <1>1, <1>8, <1>9, SeqEqual
<1>11. /\ Total(list) = Total(a) + Total(b)
       /\ Total(a) \in Nat /\ Total(b) \in Nat
  <2>1. list = a \o b
    BY <1>7, <1>10
  <2>2. Total(a \o b) = Total(a) + Total(b) /\ Total(a) \in Nat /\ Total(b) \in Nat
    BY <1>5, <1>6, TotalConcat
  <2> QED
    BY <2>1, <2>2
<1> QED
  BY <1>1, <1>2, <1>3, <1>5, <1>11

(* An entry in front.                                                      *)
LEMMA Pushed ==
    ASSUME NEW e \in Item, NEW list \in Seq(Item)
    PROVE  /\ <<e>> \o list \in Seq(Item)
           /\ Len(<<e>> \o list) = Len(list) + 1
           /\ (<<e>> \o list)[1] = e
           /\ \A i \in 2 .. Len(list) + 1 : (<<e>> \o list)[i] = list[i - 1]
           /\ Total(<<e>> \o list) = Size(e) + Total(list)
           /\ Size(e) \in Nat /\ Total(list) \in Nat
<1>1. <<e>> \in Seq(Item) /\ Len(<<e>>) = 1 /\ <<e>>[1] = e
  OBVIOUS
<1>2. Total(<<e>>) = Size(e) /\ Size(e) \in Nat
  BY TotalOne, SizeType
<1>3. /\ <<e>> \o list \in Seq(Item) /\ Total(list) \in Nat
      /\ Total(<<e>> \o list) = Size(e) + Total(list)
  BY <1>1, <1>2, TotalConcat
<1>4. /\ Len(<<e>> \o list) = Len(list) + 1
      /\ (<<e>> \o list)[1] = e
      /\ \A i \in 2 .. Len(list) + 1 : (<<e>> \o list)[i] = list[i - 1]
  BY <1>1
<1> QED
  BY <1>2, <1>3, <1>4

-----------------------------------------------------------------------------
(* The list is ordered by the time of the last use, the latest first.      *)
Ordered(list, times) ==
    \A i, j \in 1 .. Len(list) :
        i < j => times[list[j].name] < times[list[i].name]

(* Some name was used last.                                                *)
Latest == Names # {} => \E n \in Names : \A m \in Names : used[m] <= used[n]

CacheInv ==
    /\ lru \in Seq(Item)
    /\ used \in [Names -> Nat] /\ Latest
    /\ Ordered(lru, used)
    /\ bytes = Total(lru) /\ bytes <= Limit
    /\ evictions \in Nat

(* The clock shows the time of the last use.                               *)
LEMMA ClockShows ==
    ASSUME CacheInv, NEW n \in Names
    PROVE  Clock \in Nat /\ \A m \in Names : used[m] <= Clock
<1>1. PICK l \in Names : \A m \in Names : used[m] <= used[l]
  BY DEF CacheInv, Latest
<1>2. PICK times : times = {used[m] : m \in Names}
  OBVIOUS
<1>3. used[l] \in times /\ \A d \in times : d <= used[l]
  BY <1>1, <1>2
<1>4. Clock \in times /\ \A d \in times : d <= Clock
  BY <1>2, <1>3 DEF Clock
<1>5. \A d \in times : d \in Nat
  BY <1>2 DEF CacheInv
<1> QED
  BY <1>2, <1>4, <1>5

(* A name occurs once in an ordered list.                                  *)
Once(list) ==
    \A i, j \in 1 .. Len(list) : list[i].name = list[j].name => i = j

LEMMA OrderedOnce ==
    ASSUME NEW list \in Seq(Item), NEW times \in [Names -> Nat],
           Ordered(list, times)
    PROVE  Once(list)
<1> SUFFICES ASSUME NEW i \in 1 .. Len(list), NEW j \in 1 .. Len(list),
                    list[i].name = list[j].name, i # j
             PROVE  FALSE
  BY DEF Once
<1>0. list[i] \in Item
  OBVIOUS
<1>1. times[list[i].name] \in Nat /\ times[list[i].name] = times[list[j].name]
  BY <1>0 DEF Item
<1>2. i < j \/ j < i
  OBVIOUS
<1> QED
  BY <1>1, <1>2 DEF Ordered

(* What is left without a name.                                            *)
LEMMA RestIs ==
    ASSUME CacheInv, NEW n \in Names, NEW rest, rest = Without(n)
    PROVE  /\ rest \in Seq(Item)
           /\ \A i \in 1 .. Len(rest) : rest[i].name # n
           /\ Ordered(rest, used)
           /\ \A i \in 1 .. Len(lru) : lru[i].name # n =>
                 \E q \in 1 .. Len(rest) : rest[q] = lru[i]
           /\ \A q \in 1 .. Len(rest) : \E i \in 1 .. Len(lru) :
                 lru[i] = rest[q]
           /\ BytesWithout(n) = Total(rest)
           /\ Total(rest) \in Nat /\ Total(rest) <= Total(lru)
           /\ Position(n) # {} =>
                 \E p \in 1 .. Len(lru) :
                    /\ p = (CHOOSE i \in Position(n) : TRUE)
                    /\ lru[p].name = n
                    /\ Total(lru) = Size(lru[p]) + Total(rest)
<1>1. PICK k \in Nat : k = Len(lru)
  BY DEF CacheInv
<1>2. DOMAIN lru = 1 .. k /\ Once(lru) /\ lru \in Seq(Item)
  BY <1>1, OrderedOnce DEF CacheInv
<1>3. CASE Position(n) = {}
  <2>1. rest = lru /\ BytesWithout(n) = bytes
    BY <1>3 DEF Without, BytesWithout
  <2>2. \A i \in 1 .. k : lru[i].name # n
    BY <1>2, <1>3 DEF Position
  <2>3. Total(lru) \in Nat
    BY <1>2, TotalConcat
  <2> QED
    BY <1>1, <1>2, <1>3, <2>1, <2>2, <2>3 DEF CacheInv
<1>4. CASE Position(n) # {}
  <2>1. PICK p : p = (CHOOSE i \in Position(n) : TRUE)
    OBVIOUS
  <2>2. p \in 1 .. k /\ lru[p].name = n
    BY <1>2, <1>4, <2>1 DEF Position
  <2>3. rest = RemoveAt(lru, p) /\ BytesWithout(n) = bytes - Size(lru[p])
    BY <1>4, <2>1 DEF Without, BytesWithout
  <2>4. /\ rest \in Seq(Item) /\ Len(rest) = k - 1
        /\ \A i \in 1 .. k - 1 : rest[i] = lru[Origin(p, i)]
        /\ Total(rest) = Total(lru) - Size(lru[p])
        /\ Total(lru) \in Nat
    BY <1>1, <1>2, <2>2, <2>3, Removed
  <2>5. ASSUME NEW i \in 1 .. k - 1
        PROVE  Origin(p, i) \in 1 .. k /\ Origin(p, i) # p
    BY <2>2 DEF Origin
  <2>6. \A i \in 1 .. k - 1 : rest[i].name # n
    BY <1>1, <1>2, <2>2, <2>4, <2>5 DEF Once
  <2>7. Ordered(rest, used)
    <3> SUFFICES ASSUME NEW i \in 1 .. k - 1, NEW j \in 1 .. k - 1, i < j
                 PROVE  used[rest[j].name] < used[rest[i].name]
      BY <2>4 DEF Ordered
    <3>1. Origin(p, i) < Origin(p, j)
      BY <2>2 DEF Origin
    <3> QED
      BY <1>1, <2>4, <2>5, <3>1 DEF CacheInv, Ordered
  <2>8. ASSUME NEW i \in 1 .. k, lru[i].name # n
        PROVE  \E q \in 1 .. k - 1 : rest[q] = lru[i]
    <3>1. i # p
      BY <2>2, <2>8
    <3>2. CASE i < p
      <4>1. i \in 1 .. k - 1 /\ Origin(p, i) = i
        BY <2>2, <3>2 DEF Origin
      <4> QED
        BY <2>4, <4>1
    <3>3. CASE i > p
      <4>1. i - 1 \in 1 .. k - 1 /\ Origin(p, i - 1) = i
        BY <2>2, <3>3 DEF Origin
      <4> QED
        BY <2>4, <4>1
    <3> QED
      BY <2>2, <3>1, <3>2, <3>3
  <2>9. \A q \in 1 .. k - 1 : \E i \in 1 .. k : lru[i] = rest[q]
    BY <2>4, <2>5
  <2>10. Size(lru[p]) \in Nat /\ Total(rest) \in Nat
    <3>1. lru[p] \in Item
      BY <1>1, <1>2, <2>2
    <3> QED
      BY <2>4, <3>1, SizeType, TotalConcat
  <2>11. /\ Total(lru) = Size(lru[p]) + Total(rest)
         /\ Total(rest) <= Total(lru)
         /\ BytesWithout(n) = Total(rest)
    BY <2>3, <2>4, <2>10 DEF CacheInv
  <2>12. /\ \A i \in 1 .. Len(rest) : rest[i].name # n
         /\ \A i \in 1 .. Len(lru) : lru[i].name # n =>
               \E q \in 1 .. Len(rest) : rest[q] = lru[i]
         /\ \A q \in 1 .. Len(rest) : \E i \in 1 .. Len(lru) :
               lru[i] = rest[q]
    BY <1>1, <2>4, <2>6, <2>8, <2>9
  <2>13. p \in 1 .. Len(lru)
    BY <1>1, <2>2
  <2> QED
    BY <2>1, <2>2, <2>4, <2>7, <2>10, <2>11, <2>12, <2>13
<1> QED
  BY <1>3, <1>4

(* A beginning of an ordered list is ordered.                              *)
LEMMA OrderedBegun ==
    ASSUME NEW list \in Seq(Item), NEW k \in 0 .. Len(list), NEW times,
           Ordered(list, times)
    PROVE  Ordered(SubSeq(list, 1, k), times)
<1>1. /\ Len(SubSeq(list, 1, k)) = k
      /\ \A i \in 1 .. k : SubSeq(list, 1, k)[i] = list[i]
  BY Begun
<1>2. \A i \in 1 .. k : i \in 1 .. Len(list)
  OBVIOUS
<1> QED
  BY <1>1, <1>2 DEF Ordered

(* The name used last comes to the front.                                  *)
LEMMA UsedNow ==
    ASSUME CacheInv, NEW n \in Names, Touch(n),
           NEW e \in Item, e.name = n, NEW list \in Seq(Item),
           Ordered(list, used), \A i \in 1 .. Len(list) : list[i].name # n
    PROVE  /\ used' \in [Names -> Nat] /\ Latest'
           /\ Ordered(<<e>> \o list, used')
           /\ \A m \in Names : m # n => used'[m] = used[m]
           /\ \A m \in Names : used[m] < used'[n]
<1>1. Clock \in Nat /\ \A m \in Names : used[m] <= Clock
  BY ClockShows
<1>2. /\ used' = [used EXCEPT ![n] = Clock + 1]
      /\ used \in [Names -> Nat]
  BY DEF Touch, CacheInv
<1> HIDE DEF Touch
<1>3. /\ used' \in [Names -> Nat] /\ used'[n] = Clock + 1
      /\ \A m \in Names : m # n => used'[m] = used[m]
  BY <1>1, <1>2
<1>4. \A m \in Names : used[m] < used'[n]
  BY <1>1, <1>2, <1>3
<1>5. \A m \in Names : used'[m] <= used'[n]
  <2> SUFFICES ASSUME NEW m \in Names PROVE used'[m] <= used'[n]
    OBVIOUS
  <2>1. used'[n] \in Nat /\ used[m] \in Nat
    BY <1>2, <1>3
  <2> QED
    BY <1>3, <1>4, <2>1
<1>6. Latest'
  BY <1>5 DEF Latest
<1>7. PICK k \in Nat : k = Len(list)
  OBVIOUS
<1>8. PICK more : more = <<e>> \o list
  OBVIOUS
<1>9. /\ Len(more) = k + 1 /\ more[1] = e
      /\ \A i \in 2 .. k + 1 : more[i] = list[i - 1]
  BY <1>7, <1>8, Pushed
<1>10. ASSUME NEW i \in 2 .. k + 1
       PROVE  i - 1 \in 1 .. k /\ more[i].name \in Names /\ more[i].name # n
  <2>1. i - 1 \in 1 .. k
    BY <1>7
  <2>2. list[i - 1] \in Item /\ more[i] = list[i - 1]
    BY <1>7, <1>9, <2>1
  <2> QED
    BY <1>7, <2>1, <2>2 DEF Item
<1>11. ASSUME NEW i \in 1 .. k + 1, NEW j \in 1 .. k + 1, i < j
       PROVE  used'[more[j].name] < used'[more[i].name]
  <2>1. j \in 2 .. k + 1
    BY <1>7, <1>11
  <2>2. used'[more[j].name] = used[more[j].name]
    BY <1>3, <1>10, <2>1
  <2>3. CASE i = 1
    BY <1>4, <1>9, <1>10, <2>1, <2>2, <2>3
  <2>4. CASE i # 1
    <3>1. i \in 2 .. k + 1 /\ i - 1 < j - 1
      BY <1>7, <1>11, <2>4
    <3>2. used'[more[i].name] = used[more[i].name]
      BY <1>3, <1>10, <3>1
    <3>3. used[list[j - 1].name] < used[list[i - 1].name]
      BY <1>7, <1>10, <2>1, <3>1 DEF Ordered
    <3> QED
      BY <1>9, <2>1, <2>2, <3>1, <3>2, <3>3
  <2> QED
    BY <2>3, <2>4
<1>12. Ordered(more, used')
  BY <1>9, <1>11 DEF Ordered
<1> QED
  BY <1>3, <1>4, <1>6, <1>8, <1>12

-----------------------------------------------------------------------------
(* The operations.                                                         *)

(* A get that finds the version asked for.                                 *)
Found(n, version) ==
    Position(n) # {} /\ lru[CHOOSE i \in Position(n) : TRUE].version = version

(* A hit has one entry of the name, of the version asked for.              *)
LEMMA GetFound ==
    ASSUME CacheInv, NEW n \in Names, NEW v \in Versions, Get(n, v), Found(n, v)
    PROVE  \E e \in Item : /\ e.name = n /\ e.version = v
                           /\ \E p \in 1 .. Len(lru) : e = lru[p]
                           /\ lru' = <<e>> \o Without(n)
                           /\ Total(lru) = Size(e) + Total(Without(n))
                           /\ bytes' = bytes /\ evictions' = evictions
                           /\ Touch(n)
<1>1. PICK p \in 1 .. Len(lru) : /\ p = (CHOOSE i \in Position(n) : TRUE)
                                 /\ lru[p].name = n
                                 /\ Total(lru) = Size(lru[p]) + Total(Without(n))
  BY RestIs DEF Found
<1>2. lru[p] \in Item /\ lru[p].version = v
  BY <1>1 DEF CacheInv, Found
<1>3. /\ lru' = <<lru[p]>> \o Without(n)
      /\ bytes' = bytes /\ evictions' = evictions
      /\ Touch(n)
  BY <1>1 DEF Get, Found
<1> QED
  BY <1>1, <1>2, <1>3

(* A miss erases the entry of the name, if there is one.                   *)
LEMMA GetMissed ==
    ASSUME NEW n \in Names, NEW v \in Versions, Get(n, v), ~ Found(n, v)
    PROVE  /\ lru' = Without(n) /\ bytes' = BytesWithout(n)
           /\ used' = used /\ evictions' = evictions
BY DEF Get, Found

(* A put keeps a beginning of what is left without the name.               *)
LEMMA PutKeeps ==
    ASSUME Limit \in Nat, CacheInv, NEW n \in Names, NEW v \in Versions,
           NEW payload \in Payloads, Put(n, v, payload),
           NEW rest, rest = Without(n),
           NEW e, e = [name |-> n, version |-> v, payload |-> payload]
    PROVE  \E k \in 0 .. Len(rest) :
              /\ lru' = <<e>> \o SubSeq(rest, 1, k)
              /\ bytes' = Total(lru') /\ bytes' <= Limit
              /\ evictions' = evictions + (Len(rest) - k)
              /\ Touch(n)
<1>1. /\ rest \in Seq(Item) /\ BytesWithout(n) = Total(rest)
      /\ Total(rest) \in Nat
  BY RestIs
<1>2. PICK m \in Nat : m = Len(rest)
  BY <1>1
<1>3. e \in Item /\ Size(e) = Len(payload) /\ Size(e) \in Nat
  <2>1. e \in Item /\ Size(e) = Len(payload)
    BY DEF Item, Size
  <2> QED
    BY <2>1, SizeType
<1> DEFINE Fits(k) == BytesWithout(n) - Total(SubSeq(rest, k + 1, Len(rest)))
                          + Len(payload) <= Limit
           kept == CHOOSE k \in 0 .. Len(rest) :
                       /\ k = 0 \/ Fits(k)
                       /\ \A j \in k + 1 .. Len(rest) : ~ Fits(j)
<1>4. /\ Len(payload) <= Limit
      /\ lru' = <<e>> \o SubSeq(rest, 1, kept)
      /\ bytes' = BytesWithout(n) - Total(SubSeq(rest, kept + 1, Len(rest)))
                      + Len(payload)
      /\ evictions' = evictions + (Len(rest) - kept)
      /\ Touch(n)
  BY DEF Put
<1>5. \E k \in 0 .. Len(rest) : /\ k = 0 \/ Fits(k)
                                /\ \A j \in k + 1 .. Len(rest) : ~ Fits(j)
  <2> HIDE DEF Fits
  <2> DEFINE T == {k \in 0 .. m : k = 0 \/ Fits(k)}
  <2>1. 0 \in T /\ T \in SUBSET (0 .. m)
    BY <1>2
  <2>2. PICK k \in T : \A j \in T : j <= k
    BY <1>2, <2>1, GreatestNumber
  <2>3. ASSUME NEW j \in k + 1 .. m PROVE ~ Fits(j)
    <3>1. j \in 0 .. m /\ ~ (j <= k)
      BY <1>2, <2>2
    <3> QED
      BY <2>2, <3>1
  <2> QED
    BY <1>2, <2>2, <2>3
<1>6. kept \in 0 .. Len(rest) /\ (kept = 0 \/ Fits(kept))
  BY <1>5
<1>7. PICK k \in 0 .. Len(rest) : k = kept
  BY <1>6
<1>8. PICK a : a = SubSeq(rest, 1, k)
  OBVIOUS
<1>9. PICK z : z = Total(SubSeq(rest, k + 1, Len(rest)))
  OBVIOUS
<1>10. k = 0 \/ Total(rest) - z + Len(payload) <= Limit
  BY <1>1, <1>6, <1>7, <1>9
<1>11. /\ lru' = <<e>> \o a /\ bytes' = Total(rest) - z + Len(payload)
       /\ evictions' = evictions + (Len(rest) - k)
  BY <1>1, <1>4, <1>7, <1>8, <1>9
<1> HIDE DEF Fits, kept
<1>12. /\ a \in Seq(Item) /\ Len(a) = k /\ Total(a) \in Nat /\ z \in Nat
       /\ Total(rest) = Total(a) + z
  BY <1>1, <1>7, <1>8, <1>9, Begun
<1>13. Total(lru') = Size(e) + Total(a)
  BY <1>3, <1>11, <1>12, Pushed
<1>14. bytes' = Total(lru')
  BY <1>3, <1>11, <1>12, <1>13
<1>15. bytes' <= Limit
  <2>1. CASE k = 0
    <3>1. a = << >>
      BY <1>12, <2>1
    <3>2. Total(a) = 0
      BY <3>1, TotalNone
    <3> QED
      BY <1>3, <1>4, <1>13, <1>14, <3>2
  <2>2. CASE k # 0
    BY <1>10, <1>11, <2>2
  <2> QED
    BY <2>1, <2>2
<1> QED
  BY <1>4, <1>7, <1>8, <1>11, <1>14, <1>15

-----------------------------------------------------------------------------
(* The invariant.                                                          *)

(* It holds of an empty cache.                                             *)
LEMMA CacheStart == ASSUME Limit \in Nat, CacheInit PROVE CacheInv
<1>1. /\ lru = << >> /\ bytes = 0 /\ evictions = 0
      /\ used = [n \in Names |-> 0]
  BY DEF CacheInit
<1>2. lru \in Seq(Item) /\ Len(lru) = 0
  BY <1>1, EmptySeq
<1>3. Total(lru) = 0
  BY <1>1, TotalNone
<1>4. Ordered(lru, used)
  BY <1>2 DEF Ordered
<1>5. used \in [Names -> Nat] /\ Latest
  BY <1>1 DEF Latest
<1> QED
  BY <1>1, <1>2, <1>3, <1>4, <1>5 DEF CacheInv

(* get, put and clear preserve it.                                         *)
LEMMA CacheStep ==
    ASSUME Limit \in Nat, CacheInv, [CacheNext]_pvars
    PROVE  CacheInv'
<1>1. ASSUME NEW n \in Names, NEW v \in Versions, Get(n, v), Found(n, v)
      PROVE  CacheInv'
  <2>1. PICK e \in Item : /\ e.name = n /\ e.version = v
                          /\ \E p \in 1 .. Len(lru) : e = lru[p]
                          /\ lru' = <<e>> \o Without(n)
                          /\ Total(lru) = Size(e) + Total(Without(n))
                          /\ bytes' = bytes /\ evictions' = evictions
                          /\ Touch(n)
    BY <1>1, GetFound, Zenon
  <2>2. PICK rest : rest = Without(n)
    OBVIOUS
  <2>3. /\ rest \in Seq(Item) /\ Ordered(rest, used)
        /\ \A i \in 1 .. Len(rest) : rest[i].name # n
    BY <2>2, RestIs
  <2>4. used' \in [Names -> Nat] /\ Latest' /\ Ordered(lru', used')
    BY <2>1, <2>2, <2>3, UsedNow
  <2>5. lru' \in Seq(Item) /\ Total(lru') = Size(e) + Total(rest)
    BY <2>1, <2>2, <2>3, Pushed
  <2> QED
    BY <2>1, <2>2, <2>4, <2>5 DEF CacheInv
<1>2. ASSUME NEW n \in Names, NEW v \in Versions, Get(n, v), ~ Found(n, v)
      PROVE  CacheInv'
  <2>1. /\ lru' = Without(n) /\ bytes' = BytesWithout(n)
        /\ used' = used /\ evictions' = evictions
    BY <1>2, GetMissed
  <2>2. /\ lru' \in Seq(Item) /\ Ordered(lru', used)
        /\ BytesWithout(n) = Total(lru')
        /\ Total(lru') \in Nat /\ Total(lru') <= Total(lru)
    BY <2>1, RestIs
  <2>3. Total(lru) <= Limit /\ Total(lru) \in Nat
    BY TotalConcat DEF CacheInv
  <2>4. bytes' = Total(lru') /\ bytes' <= Limit
    BY <2>1, <2>2, <2>3
  <2>5. used' \in [Names -> Nat] /\ Latest'
    BY <2>1 DEF CacheInv, Latest
  <2> QED
    BY <2>1, <2>2, <2>4, <2>5 DEF CacheInv
<1>3. ASSUME NEW n \in Names, NEW v \in Versions, NEW p \in Payloads, Put(n, v, p)
      PROVE  CacheInv'
  <2>1. PICK rest : rest = Without(n)
    OBVIOUS
  <2>2. PICK e : e = [name |-> n, version |-> v, payload |-> p]
    OBVIOUS
  <2>3. PICK k \in 0 .. Len(rest) :
              /\ lru' = <<e>> \o SubSeq(rest, 1, k)
              /\ bytes' = Total(lru') /\ bytes' <= Limit
              /\ evictions' = evictions + (Len(rest) - k)
              /\ Touch(n)
    BY <1>3, <2>1, <2>2, PutKeeps
  <2>4. /\ rest \in Seq(Item) /\ Ordered(rest, used)
        /\ \A i \in 1 .. Len(rest) : rest[i].name # n
    BY <2>1, RestIs
  <2>5. PICK a : a = SubSeq(rest, 1, k)
    OBVIOUS
  <2>6. /\ a \in Seq(Item) /\ Ordered(a, used) /\ Len(a) = k
        /\ \A i \in 1 .. k : a[i] = rest[i]
    <3>1. Ordered(SubSeq(rest, 1, k), used)
      BY <2>3, <2>4, OrderedBegun
    <3>2. /\ SubSeq(rest, 1, k) \in Seq(Item) /\ Len(SubSeq(rest, 1, k)) = k
          /\ \A i \in 1 .. k : SubSeq(rest, 1, k)[i] = rest[i]
      BY <2>3, <2>4, Begun
    <3> QED
      BY <2>5, <3>1, <3>2
  <2>7. ASSUME NEW i \in 1 .. Len(a) PROVE a[i].name # n
    <3>1. i \in 1 .. k /\ i \in 1 .. Len(rest)
      BY <2>3, <2>4, <2>6
    <3> QED
      BY <2>4, <2>6, <3>1
  <2>8. e \in Item /\ e.name = n
    BY <2>2 DEF Item
  <2>9. used' \in [Names -> Nat] /\ Latest' /\ Ordered(lru', used')
    BY <2>3, <2>5, <2>6, <2>7, <2>8, UsedNow
  <2>10. lru' \in Seq(Item)
    BY <2>3, <2>5, <2>6, <2>8, Pushed
  <2>11. evictions' \in Nat
    BY <2>3, <2>4 DEF CacheInv
  <2> QED
    BY <2>3, <2>9, <2>10, <2>11 DEF CacheInv
<1>4. CASE Clear
  <2>1. /\ lru' = << >> /\ bytes' = 0
        /\ used' = used /\ evictions' = evictions
    BY <1>4 DEF Clear
  <2>2. lru' \in Seq(Item) /\ Len(lru') = 0
    BY <2>1, EmptySeq
  <2>3. Total(lru') = 0
    BY <2>1, TotalNone
  <2>4. Ordered(lru', used') /\ Latest' /\ used' \in [Names -> Nat]
    BY <2>1, <2>2 DEF Ordered, CacheInv, Latest
  <2> QED
    BY <2>1, <2>2, <2>3, <2>4 DEF CacheInv
<1>5. CASE UNCHANGED pvars
  BY <1>5 DEF pvars, CacheInv, Latest
<1> QED
  BY <1>1, <1>2, <1>3, <1>4, <1>5 DEF CacheNext

(* It holds always.                                                        *)
LEMMA CacheInvariant == ASSUME Limit \in Nat PROVE CacheSpec => []CacheInv
<1>1. CacheInit => CacheInv
  BY CacheStart
<1>2. CacheInv /\ [CacheNext]_pvars => CacheInv'
  BY CacheStep
<1> QED
  BY <1>1, <1>2, PTL DEF CacheSpec

(* The byte count of put, erase and clear is the size of the payloads the  *)
(* cache holds, and never over cache_bytes.                                *)
THEOREM CountsBytesExactly == ASSUME Limit \in Nat PROVE CacheSpec => []BytesExact
<1>1. CacheInv => BytesExact
  BY DEF CacheInv, BytesExact
<1> QED
  BY <1>1, CacheInvariant, PTL

-----------------------------------------------------------------------------
(* A put that evicts, evicts the coldest entries: what it keeps of the     *)
(* list is a beginning, and the list is ordered by the time of use.        *)
THEOREM EvictsColdestFirst ==
    ASSUME Limit \in Nat PROVE CacheSpec => [][EvictColdest]_pvars
<1>1. ASSUME CacheInv, [CacheNext]_pvars, evictions' > evictions,
             NEW i \in DOMAIN lru, NEW j \in DOMAIN lru',
             \A k \in DOMAIN lru' : lru'[k].name # lru[i].name
      PROVE  used[lru[i].name] < used'[lru'[j].name]
  <2>1. evictions \in Nat /\ lru \in Seq(Item) /\ used \in [Names -> Nat]
    BY <1>1 DEF CacheInv
  <2>2. ~ (evictions > evictions)
    BY <2>1
  <2>3. PICK n \in Names, v \in Versions, p \in Payloads : Put(n, v, p)
    <3>1. evictions' # evictions
      BY <1>1, <2>2
    <3>2. ASSUME NEW n \in Names, NEW v \in Versions PROVE ~ Get(n, v)
      BY <3>1 DEF Get
    <3>3. ~ Clear /\ ~ UNCHANGED pvars
      BY <3>1 DEF Clear, pvars
    <3> QED
      BY <1>1, <3>2, <3>3 DEF CacheNext
  <2>4. PICK rest : rest = Without(n)
    OBVIOUS
  <2>5. PICK e : e = [name |-> n, version |-> v, payload |-> p]
    OBVIOUS
  <2>6. PICK k \in 0 .. Len(rest) : /\ lru' = <<e>> \o SubSeq(rest, 1, k)
                                    /\ Touch(n)
    BY <1>1, <2>3, <2>4, <2>5, PutKeeps
  <2>7. /\ rest \in Seq(Item) /\ Ordered(rest, used)
        /\ \A q \in 1 .. Len(rest) : rest[q].name # n
        /\ \A q \in 1 .. Len(lru) : lru[q].name # n =>
              \E r \in 1 .. Len(rest) : rest[r] = lru[q]
    BY <1>1, <2>4, RestIs
  <2>8. PICK a : a = SubSeq(rest, 1, k)
    OBVIOUS
  <2>9. /\ a \in Seq(Item) /\ Len(a) = k
        /\ \A q \in 1 .. k : a[q] = rest[q]
    BY <2>6, <2>7, <2>8, Begun
  <2>10. e \in Item /\ e.name = n
    BY <2>3, <2>5 DEF Item
  <2>11. /\ lru' \in Seq(Item) /\ Len(lru') = k + 1 /\ lru'[1] = e
         /\ \A q \in 2 .. k + 1 : lru'[q] = a[q - 1]
    BY <2>6, <2>8, <2>9, <2>10, Pushed
  <2>12. /\ \A m \in Names : m # n => used'[m] = used[m]
         /\ \A m \in Names : used[m] < used'[n]
    <3>1. Ordered(a, used)
      BY <2>6, <2>7, <2>8, OrderedBegun
    <3>2. ASSUME NEW q \in 1 .. Len(a) PROVE a[q].name # n
      <4>1. q \in 1 .. k /\ q \in 1 .. Len(rest)
        BY <2>6, <2>7, <2>9
      <4> QED
        BY <2>7, <2>9, <4>1
    <3> QED
      BY <1>1, <2>3, <2>6, <2>9, <2>10, <3>1, <3>2, UsedNow
  <2>13. DOMAIN lru' = 1 .. k + 1 /\ DOMAIN lru = 1 .. Len(lru) /\ k \in Nat
    BY <2>1, <2>6, <2>7, <2>11
  <2>14. lru[i].name # n
    BY <1>1, <2>10, <2>11, <2>13, SMTT(40)
  <2>15. PICK r \in 1 .. Len(rest) : rest[r] = lru[i]
    BY <2>7, <2>13, <2>14
  <2>16. r > k
    <3> SUFFICES ASSUME r \in 1 .. k PROVE FALSE
      BY <2>6, <2>7, <2>15
    <3>1. r + 1 \in 2 .. k + 1 /\ r + 1 \in 1 .. k + 1 /\ (r + 1) - 1 = r
      BY <2>13
    <3>2. lru'[r + 1] = lru[i]
      BY <2>9, <2>11, <2>15, <3>1
    <3> QED
      BY <1>1, <2>13, <3>1, <3>2
  <2>17. lru[i].name \in Names
    <3>1. lru[i] \in Item
      BY <1>1, <2>1
    <3> QED
      BY <3>1 DEF Item
  <2>18. CASE j = 1
    BY <2>10, <2>11, <2>12, <2>17, <2>18
  <2>19. CASE j # 1
    <3>1. j \in 2 .. k + 1 /\ j - 1 \in 1 .. k
      BY <1>1, <2>13, <2>19
    <3>2. j - 1 \in 1 .. Len(rest) /\ j - 1 < r
      BY <2>6, <2>7, <2>15, <2>16, <3>1
    <3>3. lru'[j] = rest[j - 1]
      BY <2>9, <2>11, <3>1
    <3>4. used[rest[r].name] < used[rest[j - 1].name]
      BY <2>7, <2>15, <3>2 DEF Ordered
    <3>5. rest[j - 1].name \in Names /\ rest[j - 1].name # n
      <4>1. rest[j - 1] \in Item
        BY <2>7, <3>2
      <4> QED
        BY <2>7, <3>2, <4>1 DEF Item
    <3> QED
      BY <2>12, <2>15, <3>3, <3>4, <3>5
  <2> QED
    BY <2>18, <2>19
<1>2. CacheInv /\ [CacheNext]_pvars => [EvictColdest]_pvars
  BY <1>1 DEF EvictColdest
<1> QED
  BY <1>2, CacheInvariant, PTL DEF CacheSpec

-----------------------------------------------------------------------------
(* The abstract cache.                                                     *)

(* What the abstract cache shows of a name in the list.                    *)
LEMMA AbstractIn ==
    ASSUME NEW list \in Seq(Item), Once(list), NEW i \in 1 .. Len(list)
    PROVE  Abstract(list)[list[i].name]
             = [version |-> list[i].version, payload |-> list[i].payload]
<1>1. DOMAIN list = 1 .. Len(list) /\ list[i].name \in Names
  <2>1. list[i] \in Item
    OBVIOUS
  <2> QED
    BY <2>1 DEF Item
<1>2. PICK k : k = (CHOOSE j \in DOMAIN list : list[j].name = list[i].name)
  OBVIOUS
<1>3. k \in DOMAIN list /\ list[k].name = list[i].name
  BY <1>1, <1>2
<1>4. k = i
  BY <1>1, <1>3 DEF Once
<1> QED
  BY <1>1, <1>2, <1>4 DEF Abstract

(* What it shows of a name that is not.                                    *)
LEMMA AbstractOut ==
    ASSUME NEW list \in Seq(Item), NEW n \in Names,
           \A i \in 1 .. Len(list) : list[i].name # n
    PROVE  Abstract(list)[n] = NoEntry
<1>1. DOMAIN list = 1 .. Len(list)
  OBVIOUS
<1> QED
  BY <1>1 DEF Abstract

(* A name that is in two lists with the same entry.                        *)
LEMMA AbstractSame ==
    ASSUME NEW a \in Seq(Item), Once(a), NEW b \in Seq(Item), Once(b),
           NEW i \in 1 .. Len(a), NEW j \in 1 .. Len(b), a[i] = b[j]
    PROVE  Abstract(a)[a[i].name] = Abstract(b)[a[i].name]
<1>1. Abstract(a)[a[i].name]
        = [version |-> a[i].version, payload |-> a[i].payload]
  BY AbstractIn
<1>2. Abstract(b)[b[j].name]
        = [version |-> b[j].version, payload |-> b[j].payload]
  BY AbstractIn
<1> QED
  BY <1>1, <1>2

(* Without a name.                                                         *)
LEMMA AbstractWithout ==
    ASSUME CacheInv, NEW n \in Names, NEW rest, rest = Without(n)
    PROVE  /\ Abstract(rest)[n] = NoEntry
           /\ \A m \in Names : m # n => Abstract(rest)[m] = Abstract(lru)[m]
<1>1. /\ rest \in Seq(Item) /\ Ordered(rest, used)
      /\ \A i \in 1 .. Len(rest) : rest[i].name # n
      /\ \A i \in 1 .. Len(lru) : lru[i].name # n =>
            \E q \in 1 .. Len(rest) : rest[q] = lru[i]
      /\ \A q \in 1 .. Len(rest) : \E i \in 1 .. Len(lru) : lru[i] = rest[q]
  BY RestIs
<1>2. lru \in Seq(Item) /\ Once(lru) /\ Once(rest)
  BY <1>1, OrderedOnce DEF CacheInv
<1>3. Abstract(rest)[n] = NoEntry
  BY <1>1, AbstractOut
<1>4. ASSUME NEW m \in Names, m # n
      PROVE  Abstract(rest)[m] = Abstract(lru)[m]
  <2>1. CASE \E i \in 1 .. Len(lru) : lru[i].name = m
    <3>1. PICK i \in 1 .. Len(lru) : lru[i].name = m
      BY <2>1
    <3>2. PICK q \in 1 .. Len(rest) : rest[q] = lru[i]
      BY <1>1, <1>4, <3>1
    <3>3. Abstract(rest)[rest[q].name] = Abstract(lru)[rest[q].name]
      BY <1>1, <1>2, <3>1, <3>2, AbstractSame
    <3> QED
      BY <3>1, <3>2, <3>3
  <2>2. CASE ~ \E i \in 1 .. Len(lru) : lru[i].name = m
    <3>1. \A q \in 1 .. Len(rest) : rest[q].name # m
      BY <1>1, <2>2
    <3> QED
      BY <1>1, <1>2, <2>2, <3>1, AbstractOut, SMTT(40)
  <2> QED
    BY <2>1, <2>2
<1> QED
  BY <1>3, <1>4

(* With an entry in front.                                                 *)
IsPushed(b, e, a) == b = <<e>> \o a

LEMMA AbstractPushed ==
    ASSUME NEW e \in Item, NEW a \in Seq(Item), NEW b, IsPushed(b, e, a),
           Once(a), Once(b)
    PROVE  /\ Abstract(b)[e.name] = [version |-> e.version, payload |-> e.payload]
           /\ \A m \in Names : m # e.name => Abstract(b)[m] = Abstract(a)[m]
<1>1. PICK k \in Nat : k = Len(a)
  OBVIOUS
<1>2. /\ b \in Seq(Item) /\ Len(b) = k + 1 /\ b[1] = e
      /\ \A i \in 2 .. k + 1 : b[i] = a[i - 1]
  BY <1>1, Pushed DEF IsPushed
<1>3. 1 \in 1 .. Len(b)
  BY <1>1, <1>2
<1>4. Abstract(b)[e.name] = [version |-> e.version, payload |-> e.payload]
  BY <1>2, <1>3, AbstractIn
<1>5. ASSUME NEW m \in Names, m # e.name
      PROVE  Abstract(b)[m] = Abstract(a)[m]
  <2>1. CASE \E i \in 1 .. k : a[i].name = m
    <3>1. PICK i \in 1 .. k : a[i].name = m
      BY <2>1
    <3>2. /\ i + 1 \in 2 .. k + 1 /\ i + 1 \in 1 .. k + 1
          /\ (i + 1) - 1 = i
      BY <1>1
    <3>3. b[i + 1] = a[i]
      BY <1>2, <3>2
    <3> QED
      BY <1>1, <1>2, <3>1, <3>2, <3>3, AbstractSame
  <2>2. CASE ~ \E i \in 1 .. k : a[i].name = m
    <3>1. ASSUME NEW i \in 1 .. k + 1 PROVE b[i].name # m
      <4>1. CASE i = 1
        BY <1>2, <1>5, <4>1
      <4>2. CASE i # 1
        <5>1. i \in 2 .. k + 1 /\ i - 1 \in 1 .. k
          BY <1>1, <4>2
        <5> QED
          BY <1>2, <2>2, <5>1
      <4> QED
        BY <4>1, <4>2
    <3> QED
      BY <1>1, <1>2, <2>2, <3>1, AbstractOut
  <2> QED
    BY <2>1, <2>2
<1> QED
  BY <1>4, <1>5

(* A beginning shows some of the names.                                    *)
IsBegun(a, list, k) == a = SubSeq(list, 1, k)

LEMMA AbstractBegun ==
    ASSUME NEW list \in Seq(Item), Once(list), NEW k \in 0 .. Len(list),
           NEW a, IsBegun(a, list, k), Once(a), NEW m \in Names
    PROVE  /\ (\E i \in 1 .. k : a[i].name = m)
                 => Abstract(a)[m] = Abstract(list)[m]
           /\ (\A i \in 1 .. k : a[i].name # m) => Abstract(a)[m] = NoEntry
<1>1. /\ a \in Seq(Item) /\ Len(a) = k
      /\ \A i \in 1 .. k : a[i] = list[i]
  BY Begun DEF IsBegun
<1>2. ASSUME NEW i \in 1 .. k, a[i].name = m
      PROVE  Abstract(a)[m] = Abstract(list)[m]
  <2>1. i \in 1 .. Len(list)
    OBVIOUS
  <2> QED
    BY <1>1, <1>2, <2>1, AbstractSame
<1>3. ASSUME \A i \in 1 .. k : a[i].name # m
      PROVE  Abstract(a)[m] = NoEntry
  BY <1>1, <1>3, AbstractOut
<1> QED
  BY <1>2, <1>3

(* As many names as entries.                                               *)
LEMMA NamesCounted ==
    ASSUME NEW list \in Seq(Item), Once(list)
    PROVE  Cardinality({list[i].name : i \in DOMAIN list}) = Len(list)
<1>1. DOMAIN list = 1 .. Len(list) /\ Len(list) \in Nat
  OBVIOUS
<1>2. PICK S : S = {list[i].name : i \in DOMAIN list}
  OBVIOUS
<1>3. PICK f : f = [i \in 1 .. Len(list) |-> list[i].name]
  OBVIOUS
<1>4. f \in Bijection(1 .. Len(list), S)
  <2>1. f \in Injection(1 .. Len(list), S)
    BY <1>1, <1>2, <1>3 DEF Injection, IsInjective, Once
  <2>2. f \in Surjection(1 .. Len(list), S)
    BY <1>1, <1>2, <1>3 DEF Surjection
  <2> QED
    BY <2>1, <2>2 DEF Bijection
<1> QED
  BY <1>1, <1>2, <1>4, FS_CountingElements DEF ExistsBijection

(* get: another version is a miss, and the entry goes.                     *)
LEMMA AbstractGet ==
    ASSUME CacheInv, CacheInv', NEW n \in Names, NEW v \in Versions, Get(n, v)
    PROVE  Abstract(lru') = AfterGet(Abstract(lru), n, v)
<1>0. /\ lru \in Seq(Item) /\ Once(lru) /\ lru' \in Seq(Item) /\ Once(lru')
  BY OrderedOnce DEF CacheInv
<1>1. PICK rest : rest = Without(n)
  OBVIOUS
<1>2. /\ rest \in Seq(Item) /\ Once(rest)
      /\ \A i \in 1 .. Len(rest) : rest[i].name # n
  BY <1>1, RestIs, OrderedOnce DEF CacheInv
<1>3. /\ Abstract(rest)[n] = NoEntry
      /\ \A m \in Names : m # n => Abstract(rest)[m] = Abstract(lru)[m]
  BY <1>1, AbstractWithout
<1>4. /\ Abstract(lru) = [m \in Names |-> Abstract(lru)[m]]
      /\ Abstract(rest) = [m \in Names |-> Abstract(rest)[m]]
      /\ Abstract(lru') = [m \in Names |-> Abstract(lru')[m]]
  BY DEF Abstract
<1>5. CASE Found(n, v)
  <2>1. PICK e \in Item : /\ e.name = n /\ e.version = v
                          /\ \E p \in 1 .. Len(lru) : e = lru[p]
                          /\ lru' = <<e>> \o Without(n)
                          /\ Total(lru) = Size(e) + Total(Without(n))
                          /\ bytes' = bytes /\ evictions' = evictions
                          /\ Touch(n)
    BY <1>5, GetFound, Zenon
  <2>2. PICK p \in 1 .. Len(lru) : e = lru[p]
    BY <2>1
  <2>3. Abstract(lru)[n] = [version |-> v, payload |-> e.payload]
    <3>1. Abstract(lru)[lru[p].name]
            = [version |-> lru[p].version, payload |-> lru[p].payload]
      BY <1>0, <2>2, AbstractIn
    <3> QED
      BY <2>1, <2>2, <3>1
  <2>4. /\ Abstract(lru')[n] = [version |-> v, payload |-> e.payload]
        /\ \A m \in Names : m # n => Abstract(lru')[m] = Abstract(rest)[m]
    <3>1. lru' = <<e>> \o rest
      BY <1>1, <2>1
    <3>2. /\ Abstract(lru')[e.name]
               = [version |-> e.version, payload |-> e.payload]
          /\ \A m \in Names : m # e.name =>
                Abstract(lru')[m] = Abstract(rest)[m]
      <4>1. PICK b : b = lru'
        OBVIOUS
      <4>2. IsPushed(b, e, rest) /\ Once(b)
        BY <1>0, <3>1, <4>1 DEF IsPushed
      <4>3. /\ Abstract(b)[e.name]
                 = [version |-> e.version, payload |-> e.payload]
            /\ \A m \in Names : m # e.name => Abstract(b)[m] = Abstract(rest)[m]
        BY <1>2, <2>1, <4>2, AbstractPushed
      <4> QED
        BY <4>1, <4>3
    <3> QED
      BY <2>1, <3>2
  <2>5. \A m \in Names : Abstract(lru')[m] = Abstract(lru)[m]
    BY <1>3, <2>3, <2>4
  <2>6. Abstract(lru') = Abstract(lru)
    <3>1. PICK f : f = Abstract(lru)
      OBVIOUS
    <3>2. PICK g : g = Abstract(lru')
      OBVIOUS
    <3>3. /\ f = [m \in Names |-> f[m]] /\ g = [m \in Names |-> g[m]]
          /\ \A m \in Names : g[m] = f[m]
      BY <1>4, <2>5, <3>1, <3>2
    <3>4. f = g
      BY <3>3
    <3> QED
      BY <3>1, <3>2, <3>4
  <2>7. Hit(Abstract(lru), n, v)
    BY <2>3 DEF Hit
  <2> QED
    BY <2>6, <2>7 DEF AfterGet
<1>6. CASE ~ Found(n, v)
  <2>1. lru' = rest
    BY <1>1, <1>6, GetMissed
  <2>2. PICK f : f = Abstract(lru)
    OBVIOUS
  <2>3. PICK g : g = Abstract(rest)
    OBVIOUS
  <2>4. /\ f = [m \in Names |-> f[m]] /\ g = [m \in Names |-> g[m]]
        /\ g[n] = NoEntry /\ \A m \in Names : m # n => g[m] = f[m]
    BY <1>3, <1>4, <2>2, <2>3
  <2>5. g = [f EXCEPT ![n] = NoEntry]
    BY <2>4
  <2>6. Hit(f, n, v) => f = g
    <3> SUFFICES ASSUME Hit(f, n, v) PROVE f = g
      OBVIOUS
    <3>1. Position(n) = {}
      <4> SUFFICES ASSUME Position(n) # {} PROVE FALSE
        OBVIOUS
      <4>1. PICK p \in 1 .. Len(lru) : /\ p = (CHOOSE i \in Position(n) : TRUE)
                                       /\ lru[p].name = n
        BY RestIs
      <4>2. Abstract(lru)[lru[p].name]
              = [version |-> lru[p].version, payload |-> lru[p].payload]
        BY <1>0, AbstractIn
      <4>3. lru[p].version = v
        BY <2>2, <4>1, <4>2 DEF Hit
      <4> QED
        BY <1>6, <4>1, <4>3 DEF Found
    <3>2. rest = lru
      BY <1>1, <3>1 DEF Without
    <3> QED
      BY <2>2, <2>3, <3>2
  <2>7. g = AfterGet(f, n, v)
    BY <2>5, <2>6 DEF AfterGet
  <2> QED
    BY <2>1, <2>2, <2>3, <2>7
<1> QED
  BY <1>5, <1>6

(* put: what it evicts is gone.                                            *)
LEMMA AbstractPut ==
    ASSUME Limit \in Nat, CacheInv, CacheInv', NEW n \in Names,
           NEW v \in Versions, NEW payload \in Payloads, Put(n, v, payload)
    PROVE  Abstract(lru') \in AfterPut(Abstract(lru), n, v, payload)
<1>0. /\ lru \in Seq(Item) /\ Once(lru) /\ lru' \in Seq(Item) /\ Once(lru')
  BY OrderedOnce DEF CacheInv
<1>1. PICK rest : rest = Without(n)
  OBVIOUS
<1>2. PICK e : e = [name |-> n, version |-> v, payload |-> payload]
  OBVIOUS
<1>3. PICK k \in 0 .. Len(rest) : lru' = <<e>> \o SubSeq(rest, 1, k)
  BY <1>1, <1>2, PutKeeps
<1>4. /\ rest \in Seq(Item) /\ Ordered(rest, used)
      /\ \A i \in 1 .. Len(rest) : rest[i].name # n
  BY <1>1, RestIs
<1>5. PICK a : a = SubSeq(rest, 1, k)
  OBVIOUS
<1>6. /\ a \in Seq(Item) /\ Len(a) = k /\ \A i \in 1 .. k : a[i] = rest[i]
  BY <1>3, <1>4, <1>5, Begun
<1>7. Once(rest) /\ Once(a)
  <2>1. Ordered(a, used)
    BY <1>3, <1>4, <1>5, OrderedBegun
  <2> QED
    BY <1>4, <1>6, <2>1, OrderedOnce DEF CacheInv
<1>8. e \in Item /\ e.name = n /\ e.version = v /\ e.payload = payload
  BY <1>2 DEF Item
<1>9. /\ Abstract(lru')[n] = [version |-> v, payload |-> payload]
      /\ \A m \in Names : m # n => Abstract(lru')[m] = Abstract(a)[m]
  <2>1. lru' = <<e>> \o a
    BY <1>3, <1>5
  <2>2. /\ Abstract(lru')[e.name] = [version |-> e.version, payload |-> e.payload]
        /\ \A m \in Names : m # e.name => Abstract(lru')[m] = Abstract(a)[m]
    <3>1. PICK b : b = lru'
      OBVIOUS
    <3>2. IsPushed(b, e, a) /\ Once(b)
      BY <1>0, <2>1, <3>1 DEF IsPushed
    <3>3. /\ Abstract(b)[e.name] = [version |-> e.version, payload |-> e.payload]
          /\ \A m \in Names : m # e.name => Abstract(b)[m] = Abstract(a)[m]
      BY <1>6, <1>7, <1>8, <3>2, AbstractPushed
    <3> QED
      BY <3>1, <3>3
  <2> QED
    BY <1>8, <2>2
<1>10. PICK kept : kept = {a[i].name : i \in 1 .. k}
  OBVIOUS
<1>11. kept \in SUBSET Names
  <2>1. \A i \in 1 .. k : a[i] \in Item
    BY <1>6
  <2> QED
    BY <1>10, <2>1 DEF Item
<1>12. ASSUME NEW m \in Names, m # n
       PROVE  Abstract(lru')[m] = IF m \in kept THEN Abstract(lru)[m] ELSE NoEntry
  <2>1. Abstract(a)[m] = IF m \in kept THEN Abstract(rest)[m] ELSE NoEntry
    <3>0. IsBegun(a, rest, k)
      BY <1>5 DEF IsBegun
    <3>1. /\ (\E i \in 1 .. k : a[i].name = m)
               => Abstract(a)[m] = Abstract(rest)[m]
          /\ (\A i \in 1 .. k : a[i].name # m) => Abstract(a)[m] = NoEntry
      BY <1>3, <1>4, <1>7, <3>0, AbstractBegun
    <3>2. m \in kept <=> \E i \in 1 .. k : a[i].name = m
      BY <1>10
    <3> QED
      BY <3>1, <3>2
  <2>2. Abstract(rest)[m] = Abstract(lru)[m]
    BY <1>1, <1>12, AbstractWithout
  <2> QED
    BY <1>9, <1>12, <2>1, <2>2
<1>13. PICK f : f = Abstract(lru)
  OBVIOUS
<1>14. PICK g : g = Abstract(lru')
  OBVIOUS
<1>15. /\ g = [m \in Names |-> g[m]]
       /\ g[n] = [version |-> v, payload |-> payload]
       /\ \A m \in Names : m # n => g[m] = IF m \in kept THEN f[m] ELSE NoEntry
  <2>1. Abstract(lru') = [m \in Names |-> Abstract(lru')[m]]
    BY DEF Abstract
  <2> QED
    BY <1>9, <1>12, <1>13, <1>14, <2>1
<1>16. g = [m \in Names |-> IF m = n
                            THEN [version |-> v, payload |-> payload]
                            ELSE IF m \in kept THEN f[m] ELSE NoEntry]
  BY <1>15
<1>17. g \in AfterPut(f, n, v, payload)
  BY <1>11, <1>16 DEF AfterPut
<1> QED
  BY <1>13, <1>14, <1>17

(* clear: everything is gone.                                              *)
LEMMA AbstractClear ==
    ASSUME Clear PROVE Abstract(lru') = EmptyCache
<1>1. lru' = << >> /\ DOMAIN << >> = {}
  BY DEF Clear
<1> QED
  BY <1>1 DEF Abstract, EmptyCache

(* get, put and clear do to the entries what the abstract cache of         *)
(* HeapState may do, and the index entries_ can have one entry per name.   *)
THEOREM CacheImplementsStore ==
    ASSUME Limit \in Nat PROVE CacheSpec => [][AbstractStep]_pvars
<1>1. ASSUME CacheInv, CacheInv', [CacheNext]_pvars, ~ UNCHANGED pvars
      PROVE  AbstractStep
  <2>1. Cardinality({lru'[i].name : i \in DOMAIN lru'}) = Len(lru')
    <3>1. lru' \in Seq(Item) /\ Once(lru')
      BY <1>1, OrderedOnce DEF CacheInv
    <3> QED
      BY <3>1, NamesCounted
  <2>2. CASE \E n \in Names, v \in Versions : Get(n, v)
    BY <1>1, <2>1, <2>2, AbstractGet DEF AbstractStep
  <2>3. CASE \E n \in Names, v \in Versions, p \in Payloads : Put(n, v, p)
    BY <1>1, <2>1, <2>3, AbstractPut DEF AbstractStep
  <2>4. CASE Clear
    BY <2>1, <2>4, AbstractClear DEF AbstractStep
  <2> QED
    BY <1>1, <2>2, <2>3, <2>4 DEF CacheNext
<1>2. CacheInv /\ CacheInv' /\ [CacheNext]_pvars => [AbstractStep]_pvars
  BY <1>1
<1> QED
  BY <1>2, CacheInvariant, PTL DEF CacheSpec
=============================================================================
