--------------------------- MODULE WaitListProofs ---------------------------
(***************************************************************************)
(* What the operations on the lists of waiting threads do to a list whose  *)
(* nodes are distinct, for lists of any length.                            *)
(***************************************************************************)
EXTENDS WaitList, TLAPS

\* A node that is not on a list is added at its tail.
LEMMA AddTail ==
    ASSUME NEW S, NEW s \in Seq(S), NEW t \in S, Distinct(s), t \notin Members(s)
    PROVE  /\ list_add_tail(s, t) \in Seq(S)
           /\ Distinct(list_add_tail(s, t))
           /\ Members(list_add_tail(s, t)) = Members(s) \cup {t}
<1> DEFINE r == Append(s, t)
<1>1. /\ r \in Seq(S)
      /\ DOMAIN s = 1 .. Len(s) /\ Len(s) \in Nat
      /\ DOMAIN r = 1 .. (Len(s) + 1)
      /\ \A i \in 1 .. Len(s) : r[i] = s[i]
      /\ r[Len(s) + 1] = t
    OBVIOUS
<1>2. \A i \in DOMAIN s : s[i] # t
    BY DEF Members
<1>3. Distinct(r)
    BY <1>1, <1>2 DEF Distinct
<1>4. Members(r) = Members(s) \cup {t}
    BY <1>1 DEF Members
<1> QED
    BY <1>1, <1>3, <1>4 DEF list_add_tail

\* The same at the head of the list.
LEMMA AddHead ==
    ASSUME NEW S, NEW s \in Seq(S), NEW t \in S, Distinct(s), t \notin Members(s)
    PROVE  /\ <<t>> \o s \in Seq(S)
           /\ Distinct(<<t>> \o s)
           /\ Members(<<t>> \o s) = Members(s) \cup {t}
<1> DEFINE r == <<t>> \o s
<1>1. /\ r \in Seq(S)
      /\ DOMAIN s = 1 .. Len(s) /\ Len(s) \in Nat
      /\ DOMAIN r = 1 .. (Len(s) + 1)
      /\ \A i \in 1 .. (Len(s) + 1) : r[i] = IF i = 1 THEN t ELSE s[i - 1]
    OBVIOUS
<1> HIDE DEF r
<1>2. \A i \in DOMAIN s : s[i] # t
    BY DEF Members
<1>3. \A i \in DOMAIN r : i # 1 => i - 1 \in DOMAIN s /\ r[i] = s[i - 1]
    BY <1>1
<1>4. Distinct(r)
  <2> SUFFICES ASSUME NEW i \in DOMAIN r, NEW j \in DOMAIN r, r[i] = r[j]
               PROVE  i = j
      BY DEF Distinct
  <2>1. i = 1 <=> j = 1
      BY <1>1, <1>2, <1>3
  <2>2. CASE i # 1 /\ j # 1
    <3>1. i - 1 = j - 1
        BY <1>3, <2>2 DEF Distinct
    <3> QED
        BY <1>1, <3>1
  <2> QED
      BY <2>1, <2>2
<1>5. \A x \in Members(s) : x \in Members(r)
  <2> TAKE x \in Members(s)
  <2>1. PICK j \in DOMAIN s : s[j] = x
      BY DEF Members
  <2>2. j + 1 \in DOMAIN r /\ r[j + 1] = x
      BY <1>1, <2>1
  <2> QED
      BY <2>2 DEF Members
<1>6. t \in Members(r) /\ \A x \in Members(r) : x = t \/ x \in Members(s)
  <2>1. 1 \in DOMAIN r /\ r[1] = t
      BY <1>1
  <2>2. \A i \in DOMAIN r : r[i] = t \/ \E j \in DOMAIN s : r[i] = s[j]
      BY <1>1, <1>3
  <2> QED
      BY <2>1, <2>2 DEF Members
<1>7. Members(r) = Members(s) \cup {t}
    BY <1>5, <1>6
<1> QED
    BY <1>1, <1>4, <1>7 DEF r

\* Splicing a list whose nodes are elsewhere adds them all
\* (process_reparent_children).
LEMMA Splice ==
    ASSUME NEW S, NEW a \in Seq(S), NEW b \in Seq(S), Distinct(a), Distinct(b),
           Members(a) \cap Members(b) = {}
    PROVE  /\ a \o b \in Seq(S)
           /\ Distinct(a \o b)
           /\ Members(a \o b) = Members(a) \cup Members(b)
<1> DEFINE r == a \o b
<1>1. /\ r \in Seq(S) /\ DOMAIN r = 1 .. (Len(a) + Len(b))
      /\ DOMAIN a = 1 .. Len(a) /\ DOMAIN b = 1 .. Len(b) /\ Len(a) \in Nat /\ Len(b) \in Nat
      /\ \A i \in DOMAIN r : r[i] = IF i <= Len(a) THEN a[i] ELSE b[i - Len(a)]
  OBVIOUS
<1>2. \A i \in DOMAIN r : \/ i \in DOMAIN a /\ r[i] = a[i]
                          \/ i - Len(a) \in DOMAIN b /\ r[i] = b[i - Len(a)]
  BY <1>1
<1>3. /\ \A i \in DOMAIN a : i \in DOMAIN r /\ r[i] = a[i]
      /\ \A i \in DOMAIN b : i + Len(a) \in DOMAIN r /\ r[i + Len(a)] = b[i]
  BY <1>1
<1>4. Distinct(r)
  <2> SUFFICES ASSUME NEW i \in DOMAIN r, NEW j \in DOMAIN r, r[i] = r[j]
               PROVE  i = j
    BY DEF Distinct
  <2>1. \A k \in DOMAIN a, l \in DOMAIN b : a[k] # b[l]
    BY DEF Members
  <2>2. CASE i \in DOMAIN a /\ r[i] = a[i] /\ j \in DOMAIN a /\ r[j] = a[j]
    BY <2>2 DEF Distinct
  <2>3. CASE i - Len(a) \in DOMAIN b /\ r[i] = b[i - Len(a)] /\ j - Len(a) \in DOMAIN b /\ r[j] = b[j - Len(a)]
    <3>1. i - Len(a) = j - Len(a)
      BY <2>3 DEF Distinct
    <3> QED BY <1>1, <3>1
  <2> QED BY <1>2, <2>1, <2>2, <2>3
<1>5. Members(r) = Members(a) \cup Members(b)
  <2>1. \A x : x \in Members(r) => x \in Members(a) \/ x \in Members(b)
    BY <1>2 DEF Members
  <2>2. \A x : x \in Members(a) \/ x \in Members(b) => x \in Members(r)
    BY <1>3 DEF Members
  <2> QED BY <2>1, <2>2
<1> QED BY <1>1, <1>4, <1>5

\* list_remove takes its node off the list, and nothing else.
LEMMA Remove ==
    ASSUME NEW S, NEW s \in Seq(S), NEW t, Distinct(s), t \in Members(s)
    PROVE  /\ list_remove(s, t) \in Seq(S)
           /\ Distinct(list_remove(s, t))
           /\ Members(list_remove(s, t)) = Members(s) \ {t}
<1> DEFINE p == Position(s, t)
           r == [i \in 1 .. (Len(s) - 1) |-> IF i < p THEN s[i] ELSE s[i + 1]]
<1>1. DOMAIN s = 1 .. Len(s) /\ Len(s) \in Nat /\ \A i \in 1 .. Len(s) : s[i] \in S
    OBVIOUS
<1>2. p \in DOMAIN s /\ s[p] = t
    BY DEF Members, Position
<1>3. \A i \in DOMAIN s : s[i] = t => i = p
    BY <1>2 DEF Distinct
<1> HIDE DEF p
<1>4. Len(s) - 1 \in Nat /\ DOMAIN r = 1 .. (Len(s) - 1)
    BY <1>1, <1>2
<1>5. \A i \in 1 .. (Len(s) - 1) : r[i] \in S
    BY <1>1, <1>2
<1>6. r \in Seq(S)
    BY <1>4, <1>5
<1>7. Distinct(r)
    BY <1>1, <1>2, <1>4 DEF Distinct
<1>8. \A i \in DOMAIN r : \E j \in DOMAIN s : j # p /\ r[i] = s[j]
  <2> TAKE i \in DOMAIN r
  <2>1. CASE i < p
      BY <2>1, <1>1, <1>2, <1>4
  <2>2. CASE ~(i < p)
      BY <2>2, <1>1, <1>2, <1>4
  <2> QED
      BY <2>1, <2>2
<1>9. \A j \in DOMAIN s : j # p => \E i \in DOMAIN r : r[i] = s[j]
  <2> TAKE j \in DOMAIN s
  <2> HAVE j # p
  <2>1. CASE j < p
    <3>1. j \in DOMAIN r /\ r[j] = s[j]
        BY <2>1, <1>1, <1>2, <1>4
    <3> QED
        BY <3>1
  <2>2. CASE ~(j < p)
    <3>1. j - 1 \in DOMAIN r /\ ~(j - 1 < p) /\ (j - 1) + 1 = j
        BY <2>2, <1>1, <1>2, <1>4
    <3>2. r[j - 1] = s[j]
        BY <3>1, <1>4
    <3> QED
        BY <3>1, <3>2
  <2> QED
      BY <2>1, <2>2
<1> HIDE DEF r
<1>10. Members(r) = Members(s) \ {t}
    BY <1>2, <1>3, <1>8, <1>9 DEF Members
<1>11. r = list_remove(s, t)
    BY DEF r, p, list_remove
<1> QED
    BY <1>6, <1>7, <1>10, <1>11

\* Taking the first node off leaves the others in their order.
LEMMA PopHead ==
    ASSUME NEW S, NEW s \in Seq(S), Distinct(s), s # <<>>
    PROVE  /\ Tail(s) \in Seq(S)
           /\ Head(s) \in Members(s) /\ Head(s) \in S
           /\ Distinct(Tail(s))
           /\ Members(Tail(s)) = Members(s) \ {Head(s)}
<1> DEFINE r == Tail(s)
<1>1. /\ DOMAIN s = 1 .. Len(s) /\ Len(s) \in Nat /\ Len(s) > 0
      /\ Head(s) = s[1] /\ s[1] \in S
      /\ r \in Seq(S) /\ DOMAIN r = 1 .. (Len(s) - 1)
      /\ \A i \in 1 .. (Len(s) - 1) : r[i] = s[i + 1]
    OBVIOUS
<1> HIDE DEF r
<1>2. \A i \in DOMAIN r : i \in Int /\ i + 1 \in DOMAIN s /\ i + 1 # 1 /\ r[i] = s[i + 1]
    BY <1>1
<1>3. Distinct(r)
  <2> SUFFICES ASSUME NEW i \in DOMAIN r, NEW j \in DOMAIN r, r[i] = r[j]
               PROVE  i = j
      BY DEF Distinct
  <2>1. i + 1 = j + 1
      BY <1>2 DEF Distinct
  <2> QED
      BY <2>1, <1>2
<1>4. \A i \in DOMAIN r : r[i] \in Members(s) /\ r[i] # Head(s)
  <2> TAKE i \in DOMAIN r
  <2>1. r[i] \in Members(s)
      BY <1>2 DEF Members
  <2>2. 1 \in DOMAIN s /\ Head(s) = s[1]
      BY <1>1
  <2>3. r[i] # Head(s)
      BY <1>2, <2>2 DEF Distinct
  <2> QED
      BY <2>1, <2>3
<1>5. \A x \in Members(s) \ {Head(s)} : x \in Members(r)
  <2> TAKE x \in Members(s) \ {Head(s)}
  <2>1. PICK j \in DOMAIN s : s[j] = x /\ j # 1
      BY <1>1 DEF Members
  <2>2. j - 1 \in DOMAIN r /\ r[j - 1] = x
      BY <1>1, <2>1
  <2> QED
      BY <2>2 DEF Members
<1>6. Members(r) = Members(s) \ {Head(s)}
    BY <1>4, <1>5 DEF Members
<1>7. Head(s) \in Members(s)
    BY <1>1 DEF Members
<1> QED
    BY <1>1, <1>3, <1>6, <1>7 DEF r
=============================================================================
