----------------------------- MODULE Rfc822Proofs -----------------------------
(***************************************************************************)
(* Theorems of the scanner and parser of a header and of the loop that         *)
(* normalises the subject.                                                   *)
(***************************************************************************)
EXTENDS Rfc822, TLAPS, FiniteSetTheorems, SequenceTheorems, WellFoundedInduction

Text == Seq(Char)
Entry == [tag : Tag, body : Text, lines : Seq(Nat)]
----------------------------------------------------------------------------
(***************************************************************************)
(* Numbers and sequences.                                                  *)
(***************************************************************************)

\* The least-number principle.
LEMMA LeastPosition ==
    ASSUME NEW S \in SUBSET Nat, S # {}
    PROVE  \E x \in S : \A y \in S : x <= y
<1> DEFINE R == {ss \in Nat \X Nat : ss[1] < ss[2]}
<1>1. IsWellFoundedOn(R, Nat)
  BY NatLessThanWellFounded, Zenon DEF OpToRel
<1>2. \E x \in S : \A y \in S : <<y, x>> \notin R
  <2> HIDE DEF R
  <2> QED BY <1>1, WFMin
<1>3. PICK x \in S : \A y \in S : <<y, x>> \notin R
  BY <1>2
<1>4. \A y \in S : ~(y < x)
  BY <1>3
<1> QED BY <1>4

\* Max of the community modules is a maximum of every set of positions.
LEMMA LastPosition ==
    ASSUME NEW n \in Nat, NEW S \in SUBSET (1..n), S # {}
    PROVE  Max(S) \in S /\ \A y \in S : Max(S) >= y
<1> DEFINE T == {m \in Nat : \E k \in S : m = n - k}
<1>1. T \in SUBSET Nat /\ T # {}
  <2>1. PICK k \in S : TRUE OBVIOUS
  <2>2. n - k \in T BY <2>1
  <2> QED BY <2>2
<1>2. PICK t \in T : \A u \in T : t <= u
  <2> HIDE DEF T
  <2> QED BY <1>1, LeastPosition
<1>3. PICK x \in S : t = n - x
  OBVIOUS
<1>4. \A y \in S : x >= y
  <2> TAKE y \in S
  <2>1. n - y \in T OBVIOUS
  <2> QED BY <2>1, <1>2, <1>3
<1> QED BY <1>4 DEF Max

\* Erasing a character: those behind it move up by one.
LEMMA RemovedCharacter ==
    ASSUME NEW s \in Text, NEW e \in 1..Len(s)
    PROVE  /\ RemoveAt(s, e) \in Text
           /\ Len(RemoveAt(s, e)) = Len(s) - 1
           /\ \A k \in 1..Len(s) - 1 : RemoveAt(s, e)[k] = IF k < e THEN s[k] ELSE s[k + 1]
<1> DEFINE u == SubSeq(s, 1, e - 1)
           v == SubSeq(s, e + 1, Len(s))
<1>1. Len(s) \in Nat /\ \A k \in 1..Len(s) : s[k] \in Char
  BY DEF Text
<1>2. /\ u \in Seq(Char)
      /\ Len(u) = e - 1
      /\ \A k \in 1..e - 1 : u[k] = s[k]
  <2>1. e - 1 \in Int /\ 1 \in Int /\ \A k \in 1..e - 1 : s[k] \in Char
    BY <1>1
  <2>2. /\ u \in Seq(Char)
        /\ Len(u) = IF 1 <= e - 1 THEN e - 1 - 1 + 1 ELSE 0
        /\ \A k \in 1..e - 1 - 1 + 1 : u[k] = s[1 + k - 1]
    BY <2>1, SubSeqProperties
  <2> HIDE DEF u
  <2>3. Len(u) = e - 1 BY <2>2, <1>1
  <2>4. ASSUME NEW k \in 1..e - 1 PROVE u[k] = s[k]
    <3>1. k \in 1..e - 1 - 1 + 1 /\ 1 + k - 1 = k BY <1>1
    <3> QED BY <3>1, <2>2, Zenon
  <2> QED BY <2>2, <2>3, <2>4, Zenon
<1>3. /\ v \in Seq(Char)
      /\ Len(v) = Len(s) - e
      /\ \A k \in 1..Len(s) - e : v[k] = s[e + k]
  <2>1. e + 1 \in Int /\ Len(s) \in Int /\ \A k \in e + 1..Len(s) : s[k] \in Char
    BY <1>1
  <2>2. /\ v \in Seq(Char)
        /\ Len(v) = IF e + 1 <= Len(s) THEN Len(s) - (e + 1) + 1 ELSE 0
        /\ \A k \in 1..Len(s) - (e + 1) + 1 : v[k] = s[e + 1 + k - 1]
    BY <2>1, SubSeqProperties
  <2> HIDE DEF v
  <2>3. Len(v) = Len(s) - e BY <2>2, <1>1
  <2>4. ASSUME NEW k \in 1..Len(s) - e PROVE v[k] = s[e + k]
    <3>1. k \in 1..Len(s) - (e + 1) + 1 /\ e + 1 + k - 1 = e + k BY <1>1
    <3>2. v[k] = s[e + 1 + k - 1] BY <3>1, <2>2, Zenon
    <3> QED BY <3>1, <3>2, Zenon
  <2> QED BY <2>2, <2>3, <2>4, Zenon
<1>4. RemoveAt(s, e) = u \o v
  BY DEF RemoveAt
<1> HIDE DEF u, v
<1>5. /\ u \o v \in Seq(Char)
      /\ Len(u \o v) = Len(u) + Len(v)
      /\ \A k \in 1..Len(u) + Len(v) : (u \o v)[k] = IF k <= Len(u) THEN u[k] ELSE v[k - Len(u)]
  BY <1>2, <1>3, ConcatProperties, Zenon
<1>6. PICK w : w = u \o v
  OBVIOUS
<1>7. /\ w \in Text /\ Len(w) = Len(u) + Len(v)
      /\ \A k \in 1..Len(u) + Len(v) : w[k] = IF k <= Len(u) THEN u[k] ELSE v[k - Len(u)]
  BY <1>5, <1>6, Zenon DEF Text
<1>8. Len(w) = Len(s) - 1
  BY <1>7, <1>2, <1>3, <1>1
<1>9. \A k \in 1..Len(s) - 1 : w[k] = IF k < e THEN s[k] ELSE s[k + 1]
  <2> TAKE k \in 1..Len(s) - 1
  <2>1. k \in 1..Len(u) + Len(v)
    BY <1>2, <1>3, <1>1
  <2>2. CASE k < e
    <3>1. w[k] = u[k] BY <2>1, <2>2, <1>7, <1>2, <1>1
    <3>2. k \in 1..e - 1 BY <2>2, <1>1
    <3> QED BY <3>1, <3>2, <2>2, <1>2, Zenon
  <2>3. CASE k >= e
    <3>1. w[k] = v[k - Len(u)] BY <2>1, <2>3, <1>7, <1>2, <1>1
    <3>2. k - Len(u) \in 1..Len(s) - e /\ e + (k - Len(u)) = k + 1
      BY <2>3, <1>2, <1>1
    <3>3. w[k] = s[k + 1] BY <3>1, <3>2, <1>3, Zenon
    <3> QED BY <3>3, <2>3, <1>1
  <2> QED BY <2>2, <2>3, <1>1
<1> QED BY <1>4, <1>6, <1>7, <1>8, <1>9, Zenon
----------------------------------------------------------------------------
(***************************************************************************)
(* The loop of set_normal_subject.  What is left of the subject are characters *)
(* of the text, in order; of those that are gone each was not to be kept, or   *)
(* was white space with white space next to it among what is left; and before  *)
(* the index there is nothing left to erase.                                  *)
(***************************************************************************)
Track(at, s, n, text) ==
    /\ at \in [1..Len(s) -> 1..Len(text)]
    /\ \A k, l \in 1..Len(s) : k < l => at[k] < at[l]
    /\ \A k \in 1..Len(s) : s[k] = text[at[k]]
    /\ \A m \in 1..Len(text) :
          \/ ~Kept(text[m])
          \/ \E k \in 1..Len(s) : at[k] = m
          \/ /\ Space(text[m])
             /\ \E k \in 1..Len(s) :
                   /\ at[k] > m /\ Space(s[k])
                   /\ \A j \in 1..Len(s) : at[j] > m => k <= j
    /\ \A k \in 1..n : Kept(s[k]) /\ (k < Len(s) => ~(Space(s[k]) /\ Space(s[k + 1])))

Reached(s, n, text) == \E at \in [1..Len(s) -> 1..Len(text)] : Track(at, s, n, text)

\* At the start nothing is gone.
LEMMA TrackStart ==
    ASSUME NEW text \in Text
    PROVE  Reached(text, 0, text)
<1> DEFINE at == [k \in 1..Len(text) |-> k]
<1>1. Len(text) \in Nat BY DEF Text
<1>2. at \in [1..Len(text) -> 1..Len(text)] OBVIOUS
<1>3. \A k \in 1..Len(text) : at[k] = k OBVIOUS
<1> HIDE DEF at
<1>4. Track(at, text, 0, text) BY <1>1, <1>2, <1>3 DEF Track
<1> QED BY <1>2, <1>4 DEF Reached

\* KeepCharacter.
LEMMA TrackKeep ==
    ASSUME NEW text \in Text, NEW s \in Text, NEW n \in Nat, n < Len(s),
           Reached(s, n, text), Kept(s[n + 1]),
           n + 1 < Len(s) => ~(Space(s[n + 1]) /\ Space(s[n + 2]))
    PROVE  Reached(s, n + 1, text)
<1>1. PICK at \in [1..Len(s) -> 1..Len(text)] : Track(at, s, n, text) BY DEF Reached
<1>2. Len(s) \in Nat BY DEF Text
<1>3. \A k \in 1..n + 1 : Kept(s[k]) /\ (k < Len(s) => ~(Space(s[k]) /\ Space(s[k + 1])))
  <2> TAKE k \in 1..n + 1
  <2>1. CASE k \in 1..n BY <2>1, <1>1 DEF Track
  <2>2. CASE k = n + 1
    <3>1. k + 1 = n + 2 BY <2>2
    <3> QED BY <2>2, <3>1
  <2> QED BY <2>1, <2>2
<1>4. Track(at, s, n + 1, text) BY <1>1, <1>3, Zenon DEF Track
<1> QED BY <1>4 DEF Reached

\* EraseSpace and EraseOther.
LEMMA TrackErase ==
    ASSUME NEW text \in Text, NEW s \in Text, NEW t \in Text, NEW n \in Nat, NEW back \in Nat,
           n < Len(s), Reached(s, n, text),
           Len(t) = Len(s) - 1,
           \A k \in 1..Len(s) - 1 : t[k] = IF k < n + 1 THEN s[k] ELSE s[k + 1],
           \/ ~Kept(s[n + 1]) /\ back = (IF n > 0 THEN n - 1 ELSE 0)
           \/ n + 1 < Len(s) /\ Space(s[n + 1]) /\ Space(s[n + 2]) /\ back = n
    PROVE  Reached(t, back, text)
<1>1. PICK at \in [1..Len(s) -> 1..Len(text)] : Track(at, s, n, text) BY DEF Reached
<1>2. Len(s) \in Nat /\ Len(t) \in Nat /\ Len(text) \in Nat BY DEF Text
<1> DEFINE Old(k) == IF k <= n THEN k ELSE k + 1
           New(l) == IF l <= n THEN l ELSE l - 1
           now == [k \in 1..Len(t) |-> at[Old(k)]]
<1>3. /\ \A k \in 1..Len(t) : Old(k) \in 1..Len(s) /\ Old(k) # n + 1
      /\ \A k, l \in 1..Len(t) : k < l <=> Old(k) < Old(l)
      /\ \A l \in 1..Len(s) : l # n + 1 => New(l) \in 1..Len(t) /\ Old(New(l)) = l
  BY <1>2
<1>4. \A k \in 1..Len(t) : t[k] = s[Old(k)]
  BY <1>2
<1>5. now \in [1..Len(t) -> 1..Len(text)] /\ \A k \in 1..Len(t) : now[k] = at[Old(k)]
  BY <1>3
<1>6. \A k \in 1..n : k <= Len(t) => Old(k) = k
  OBVIOUS
<1>7. n + 1 <= Len(t) => Old(n + 1) = n + 2
  OBVIOUS
<1> HIDE DEF Old, New, now
<1>8. \A k, l \in 1..Len(t) : k < l => now[k] < now[l]
  BY <1>1, <1>3, <1>5 DEF Track
<1>9. \A k \in 1..Len(t) : t[k] = text[now[k]]
  <2> TAKE k \in 1..Len(t)
  <2>1. Old(k) \in 1..Len(s) BY <1>3, Zenon
  <2>2. s[Old(k)] = text[at[Old(k)]] BY <2>1, <1>1, Zenon DEF Track
  <2> QED BY <2>2, <1>4, <1>5, Zenon
<1>10. ASSUME NEW m \in 1..Len(text)
       PROVE  \/ ~Kept(text[m])
              \/ \E k \in 1..Len(t) : now[k] = m
              \/ /\ Space(text[m])
                 /\ \E k \in 1..Len(t) :
                       /\ now[k] > m /\ Space(t[k])
                       /\ \A j \in 1..Len(t) : now[j] > m => k <= j
  <2>1. CASE ~Kept(text[m])
    BY <2>1
  <2>2. ASSUME NEW l \in 1..Len(s), l # n + 1, at[l] = m
        PROVE  \E k \in 1..Len(t) : now[k] = m
    BY <2>2, <1>3, <1>5, Zenon
  <2>3. ASSUME Space(text[m]), NEW l \in 1..Len(s), l # n + 1, at[l] > m, Space(s[l]),
               \A j \in 1..Len(s) : at[j] > m => l <= j
        PROVE  \E k \in 1..Len(t) :
                  /\ now[k] > m /\ Space(t[k])
                  /\ \A j \in 1..Len(t) : now[j] > m => k <= j
    <3>1. New(l) \in 1..Len(t) /\ Old(New(l)) = l BY <2>3, <1>3
    <3>2. now[New(l)] > m /\ Space(t[New(l)]) BY <3>1, <2>3, <1>4, <1>5
    <3>3. ASSUME NEW j \in 1..Len(t), now[j] > m PROVE New(l) <= j
      <4>1. l <= Old(j) BY <3>3, <2>3, <1>3, <1>5
      <4>2. ~(Old(j) < Old(New(l))) BY <4>1, <3>1, <1>3
      <4>3. ~(j < New(l)) BY <4>2, <3>1, <1>3, Zenon
      <4> QED BY <4>3, <3>1, <1>2
    <3> QED BY <3>1, <3>2, <3>3, Zenon
  <2>4. ASSUME at[n + 1] = m, Kept(text[m])
        PROVE  /\ Space(text[m])
               /\ \E k \in 1..Len(t) :
                     /\ now[k] > m /\ Space(t[k])
                     /\ \A j \in 1..Len(t) : now[j] > m => k <= j
    <3>1. n + 1 \in 1..Len(s) BY <1>2
    <3>2. s[n + 1] = text[m] BY <3>1, <2>4, <1>1, Zenon DEF Track
    <3>3. n + 1 < Len(s) /\ Space(s[n + 1]) /\ Space(s[n + 2]) BY <3>2, <2>4
    <3>4. n + 2 \in 1..Len(s) /\ n + 2 # n + 1 BY <3>3, <1>2
    <3>5. at[n + 2] > m
      <4>1. n + 1 < n + 2 OBVIOUS
      <4>2. at[n + 1] < at[n + 2] BY <4>1, <3>1, <3>4, <1>1, Zenon DEF Track
      <4>3. at[n + 1] \in Nat /\ at[n + 2] \in Nat BY <3>1, <3>4, <1>2
      <4> QED BY <4>2, <4>3, <2>4
    <3>6. ASSUME NEW j \in 1..Len(s), at[j] > m PROVE n + 2 <= j
      <4>1. SUFFICES ASSUME j <= n + 1 PROVE FALSE BY <1>2
      <4>2. CASE j = n + 1 BY <4>2, <3>6, <2>4
      <4>3. CASE j < n + 1
        <5>1. at[j] < at[n + 1] BY <4>3, <3>1, <1>1, Zenon DEF Track
        <5>2. at[j] \in Nat /\ at[n + 1] \in Nat BY <3>1, <1>2, SMTT(60)
        <5> QED BY <5>1, <5>2, <3>6, <2>4
      <4> QED BY <4>1, <4>2, <4>3, <1>2
    <3>7. Space(text[m]) BY <3>2, <3>3
    <3> QED BY <3>3, <3>4, <3>5, <3>6, <3>7, <2>3, Zenon
  <2>5. ASSUME Space(text[m]), at[n + 1] > m, Space(s[n + 1]),
               \A j \in 1..Len(s) : at[j] > m => n + 1 <= j
        PROVE  \E k \in 1..Len(t) :
                     /\ now[k] > m /\ Space(t[k])
                     /\ \A j \in 1..Len(t) : now[j] > m => k <= j
    <3>1. n + 1 \in 1..Len(s) BY <1>2
    <3>2. Kept(s[n + 1]) BY <2>5 DEF Space, Kept
    <3>3. n + 1 < Len(s) /\ Space(s[n + 1]) /\ Space(s[n + 2]) BY <3>2
    <3>4. n + 1 \in 1..Len(t) /\ Old(n + 1) = n + 2 /\ n + 2 \in 1..Len(s) BY <3>3, <1>2, <1>7
    <3>5. now[n + 1] > m
      <4>1. n + 1 < n + 2 OBVIOUS
      <4>2. at[n + 1] < at[n + 2] BY <4>1, <3>1, <3>4, <1>1, Zenon DEF Track
      <4>3. at[n + 1] \in Nat /\ at[n + 2] \in Nat BY <3>1, <3>4, <1>2
      <4>4. now[n + 1] = at[n + 2] BY <3>4, <1>5, Zenon
      <4> QED BY <4>2, <4>3, <4>4, <2>5
    <3>6. Space(t[n + 1])
      <4>1. t[n + 1] = s[n + 2] BY <3>4, <1>4, Zenon
      <4> QED BY <4>1, <3>3
    <3>7. ASSUME NEW j \in 1..Len(t), now[j] > m PROVE n + 1 <= j
      <4>1. at[Old(j)] > m BY <3>7, <1>5, Zenon
      <4>2. n + 1 <= Old(j) /\ Old(j) # n + 1 BY <4>1, <2>5, <1>3, Zenon
      <4> QED BY <4>2, <1>2 DEF Old
    <3> QED BY <3>4, <3>5, <3>6, <3>7, Zenon
  <2>6. \/ ~Kept(text[m])
        \/ \E l \in 1..Len(s) : at[l] = m
        \/ /\ Space(text[m])
           /\ \E l \in 1..Len(s) :
                 /\ at[l] > m /\ Space(s[l])
                 /\ \A j \in 1..Len(s) : at[j] > m => l <= j
    BY <1>1, Zenon DEF Track
  <2>7. ASSUME NEW l \in 1..Len(s), at[l] = m, Kept(text[m])
        PROVE  \/ \E k \in 1..Len(t) : now[k] = m
               \/ /\ Space(text[m])
                  /\ \E k \in 1..Len(t) :
                        /\ now[k] > m /\ Space(t[k])
                        /\ \A j \in 1..Len(t) : now[j] > m => k <= j
    <3>1. CASE l = n + 1 BY <3>1, <2>7, <2>4, Zenon
    <3>2. CASE l # n + 1 BY <3>2, <2>7, <2>2, Zenon
    <3> QED BY <3>1, <3>2
  <2>8. ASSUME Space(text[m]), NEW l \in 1..Len(s), at[l] > m, Space(s[l]),
               \A j \in 1..Len(s) : at[j] > m => l <= j
        PROVE  \E k \in 1..Len(t) :
                  /\ now[k] > m /\ Space(t[k])
                  /\ \A j \in 1..Len(t) : now[j] > m => k <= j
    <3>1. CASE l = n + 1 BY <3>1, <2>8, <2>5, Zenon
    <3>2. CASE l # n + 1 BY <3>2, <2>8, <2>3, Zenon
    <3> QED BY <3>1, <3>2
  <2> QED BY <2>6, <2>7, <2>8, Zenon
<1>11. ASSUME NEW k \in 1..back
       PROVE  Kept(t[k]) /\ (k < Len(t) => ~(Space(t[k]) /\ Space(t[k + 1])))
  <2>1. k \in 1..n /\ k \in 1..Len(t) /\ k \in 1..Len(s) - 1 BY <1>2
  <2>2. Kept(s[k]) /\ (k < Len(s) => ~(Space(s[k]) /\ Space(s[k + 1])))
    BY <2>1, <1>1, Zenon DEF Track
  <2>3. t[k] = s[k]
    <3>1. k <= Len(t) BY <2>1, <1>2
    <3> QED BY <2>1, <3>1, <1>4, <1>6, Zenon
  <2>4. CASE k < n
    <3>1. k + 1 \in 1..n /\ k < Len(s) /\ k + 1 <= Len(t) BY <2>4, <1>2
    <3>2. t[k + 1] = s[k + 1]
      <4>1. k + 1 \in 1..Len(t) BY <3>1, <1>2
      <4> QED BY <3>1, <4>1, <1>4, <1>6, Zenon
    <3> QED BY <2>2, <2>3, <3>1, <3>2
  <2>5. CASE k = n
    <3>1. Space(s[n + 1]) /\ n + 1 < Len(s) BY <2>5
    <3>2. ~Space(t[k]) BY <2>2, <2>3, <3>1, <2>5, <1>2
    <3> QED BY <3>2, <2>2, <2>3
  <2> QED BY <2>1, <2>4, <2>5
<1>12. Track(now, t, back, text)
  BY <1>5, <1>8, <1>9, <1>10, <1>11, Zenon DEF Track
<1> QED BY <1>5, <1>12, Zenon DEF Reached

\* Counting the positions of an increasing enumeration.
UpTo(P, p) == {j \in P : j <= p}
Enumerates(at, n, P) ==
    /\ at \in [1..n -> Nat] /\ P \subseteq Nat
    /\ \A k, l \in 1..n : k < l => at[k] < at[l]
    /\ \A p \in P : \E k \in 1..n : at[k] = p
    /\ \A k \in 1..n : at[k] \in P

\* The n-th of a set listed in order has n members up to itself.
LEMMA CountUpTo ==
    ASSUME NEW P, NEW n \in Nat, NEW at, Enumerates(at, n, P)
    PROVE  /\ Cardinality(P) = n
           /\ \A l \in 1..n : Cardinality(UpTo(P, at[l])) = l
<1> USE DEF Enumerates
<1>1. \A k, l \in 1..n : at[k] = at[l] => k = l
  <2> TAKE k, l \in 1..n
  <2>1. k < l => at[k] < at[l] OBVIOUS
  <2>2. l < k => at[l] < at[k] OBVIOUS
  <2>3. at[k] \in Nat /\ at[l] \in Nat OBVIOUS
  <2> QED BY <2>1, <2>2, <2>3
<1>2. ASSUME NEW l \in 0..n, NEW Q \in SUBSET P,
             \A k \in 1..l : at[k] \in Q,
             \A q \in Q : \E k \in 1..l : at[k] = q
      PROVE  Cardinality(Q) = l
  <2> DEFINE f == [k \in 1..l |-> at[k]]
  <2>1. f \in [1..l -> Q] BY <1>2
  <2>2. \A j, k \in DOMAIN f : f[j] = f[k] => j = k
    BY <1>1
  <2>3. \A q \in Q : \E k \in 1..l : f[k] = q BY <1>2
  <2> HIDE DEF f
  <2>4. f \in Bijection(1..l, Q)
    BY <2>1, <2>2, <2>3, Zenon DEF Bijection, Injection, Surjection, IsInjective
  <2>5. ExistsBijection(1..l, Q) BY <2>4, Zenon DEF ExistsBijection
  <2>6. l \in Nat OBVIOUS
  <2> QED BY <2>5, <2>6, FS_CountingElements, Zenon
<1>3. Cardinality(P) = n
  <2>1. n \in 0..n OBVIOUS
  <2> QED BY <2>1, <1>2, Zenon
<1>4. ASSUME NEW l \in 1..n PROVE Cardinality(UpTo(P, at[l])) = l
  <2> DEFINE Q == {j \in P : j <= at[l]}
  <2>1. \A k \in 1..l : at[k] \in Q
    <3> TAKE k \in 1..l
    <3>1. k \in 1..n /\ (k < l => at[k] < at[l]) OBVIOUS
    <3>2. at[k] \in Nat /\ at[l] \in Nat /\ at[k] \in P BY <3>1
    <3> QED BY <3>1, <3>2
  <2>2. \A q \in Q : \E k \in 1..l : at[k] = q
    <3> TAKE q \in Q
    <3>1. PICK k \in 1..n : at[k] = q OBVIOUS
    <3>2. ~(l < k)
      <4>1. l < k => at[l] < at[k] OBVIOUS
      <4>2. at[k] \in Nat /\ at[l] \in Nat /\ at[k] <= at[l] BY <3>1
      <4> QED BY <4>1, <4>2
    <3>3. k \in 1..l BY <3>2
    <3> QED BY <3>1, <3>3
  <2>3. l \in 0..n /\ Q \in SUBSET P OBVIOUS
  <2> HIDE DEF Q
  <2>4. Cardinality(Q) = l BY <2>1, <2>2, <2>3, <1>2, Zenon
  <2> QED BY <2>4, Zenon DEF Q, UpTo
<1> QED BY <1>3, <1>4

\* At the end of the loop what is left is the normal form.
LEMMA TrackEnd ==
    ASSUME NEW text \in Text, NEW s \in Text, Reached(s, Len(s), text)
    PROVE  IsNormalForm(s, text)
<1>1. PICK at \in [1..Len(s) -> 1..Len(text)] : Track(at, s, Len(s), text) BY DEF Reached
<1>2. Len(s) \in Nat /\ Len(text) \in Nat /\ DOMAIN text = 1..Len(text) BY DEF Text
<1> DEFINE P == {k \in DOMAIN text : Stays(text, k)}
<1>3. \A k, l \in 1..Len(s) : k < l => at[k] < at[l] BY <1>1 DEF Track
<1>4. \A k \in 1..Len(s) : s[k] = text[at[k]] /\ Kept(s[k]) BY <1>1, Zenon DEF Track
<1>5. \A k \in 1..Len(s) : k < Len(s) => ~(Space(s[k]) /\ Space(s[k + 1]))
  BY <1>1, Zenon DEF Track
<1>6. \A m \in 1..Len(text) :
          \/ ~Kept(text[m])
          \/ \E k \in 1..Len(s) : at[k] = m
          \/ /\ Space(text[m])
             /\ \E k \in 1..Len(s) :
                   /\ at[k] > m /\ Space(s[k])
                   /\ \A j \in 1..Len(s) : at[j] > m => k <= j
  BY <1>1, Zenon DEF Track
<1>7. ASSUME NEW k \in 1..Len(s) PROVE at[k] \in P
  <2>1. Kept(text[at[k]]) BY <1>4, Zenon
  <2>2. ASSUME NEW m \in (at[k] + 1)..Len(text), Space(text[at[k]]), Space(text[m]),
               \A j \in (at[k] + 1)..(m - 1) : ~Kept(text[j])
        PROVE  FALSE
    <3>1. m \in 1..Len(text) /\ at[k] < m /\ at[k] \in Nat BY <2>2, <1>2
    <3>2. Kept(text[m]) BY <2>2 DEF Kept, Space
    <3>3. ASSUME NEW l \in 1..Len(s), at[l] >= m, k < Len(s) => l <= k + 1, Space(s[l]) PROVE FALSE
      <4>1. k < l
        <5>1. l < k => at[l] < at[k] BY <1>3
        <5>2. at[l] \in Nat BY <1>2
        <5>3. l # k BY <3>3, <3>1
        <5> QED BY <5>1, <5>2, <5>3, <3>1, <3>3
      <4>2. l = k + 1 /\ k < Len(s) BY <4>1, <3>3, <1>2
      <4>3. Space(s[k]) BY <1>4, <2>2, Zenon
      <4> QED BY <4>2, <4>3, <3>3, <1>5
    <3>4. ASSUME k < Len(s), NEW j \in 1..Len(s), j = k + 1 PROVE at[j] >= m
      <4>1. at[k] < at[j] BY <3>4, <1>3
      <4>2. Kept(text[at[j]]) BY <1>4, Zenon
      <4>3. at[j] \in Nat BY <1>2
      <4>4. at[j] \notin (at[k] + 1)..(m - 1) BY <4>2, <2>2
      <4> QED BY <4>1, <4>3, <4>4, <3>1
    <3>5. ASSUME NEW l \in 1..Len(s), at[l] = m PROVE FALSE
      <4>1. Space(s[l]) BY <3>5, <1>4, <2>2, Zenon
      <4>2. ASSUME k < Len(s) PROVE l <= k + 1
        <5>1. k + 1 \in 1..Len(s) BY <4>2, <1>2
        <5>2. at[k + 1] >= m BY <4>2, <5>1, <3>4
        <5>3. k + 1 < l => at[k + 1] < at[l] BY <5>1, <1>3
        <5>4. at[k + 1] \in Nat BY <5>1, <1>2
        <5> QED BY <5>2, <5>3, <5>4, <3>5, <3>1
      <4>3. at[l] >= m BY <3>5, <3>1
      <4> QED BY <4>1, <4>2, <4>3, <3>3, Zenon
    <3>6. ASSUME \A l \in 1..Len(s) : at[l] # m,
                 NEW l \in 1..Len(s), at[l] > m, Space(s[l]),
                 \A j \in 1..Len(s) : at[j] > m => l <= j
          PROVE  FALSE
      <4>1. ASSUME k < Len(s) PROVE l <= k + 1
        <5>1. k + 1 \in 1..Len(s) BY <4>1, <1>2
        <5>2. at[k + 1] >= m BY <4>1, <5>1, <3>4
        <5>3. at[k + 1] # m BY <5>1, <3>6
        <5>4. at[k + 1] \in Nat BY <5>1, <1>2
        <5>5. at[k + 1] > m BY <5>2, <5>3, <5>4, <3>1
        <5> QED BY <5>1, <5>5, <3>6
      <4>2. at[l] >= m
        <5>1. at[l] \in Nat BY <1>2
        <5> QED BY <5>1, <3>6, <3>1
      <4> QED BY <4>1, <4>2, <3>6, <3>3, Zenon
    <3>7. CASE \E l \in 1..Len(s) : at[l] = m BY <3>7, <3>5, Zenon
    <3>8. CASE \A l \in 1..Len(s) : at[l] # m
      BY <3>8, <3>1, <3>2, <1>6, <3>6, Zenon
    <3> QED BY <3>7, <3>8, Zenon
  <2>3. at[k] \in DOMAIN text BY <1>2
  <2>4. Stays(text, at[k]) BY <2>1, <2>2, Zenon DEF Stays
  <2> QED BY <2>3, <2>4
<1>8. ASSUME NEW p \in P PROVE \E k \in 1..Len(s) : at[k] = p
  <2>1. p \in 1..Len(text) /\ Stays(text, p) BY <1>2
  <2>2. SUFFICES ASSUME \A k \in 1..Len(s) : at[k] # p PROVE FALSE
    BY Zenon
  <2>3. Kept(text[p]) BY <2>1 DEF Stays
  <2>4. PICK k \in 1..Len(s) :
            /\ at[k] > p /\ Space(s[k])
            /\ \A j \in 1..Len(s) : at[j] > p => k <= j
    BY <2>1, <2>2, <2>3, <1>6, Zenon
  <2>5. Space(text[p]) BY <2>1, <2>2, <2>3, <1>6, Zenon
  <2> DEFINE S == {m \in p + 1..Len(text) : Space(text[m])}
  <2>6. at[k] \in S
    <3>1. at[k] \in p + 1..Len(text) BY <2>1, <2>4, <1>2
    <3>2. Space(text[at[k]]) BY <2>4, <1>4, Zenon
    <3> QED BY <3>1, <3>2
  <2>7. S \in SUBSET Nat /\ S # {}
    <3>1. S # {} BY <2>6
    <3> QED BY <3>1, <2>1
  <2>8. PICK m \in S : \A q \in S : m <= q
    <3> HIDE DEF S
    <3> QED BY <2>7, LeastPosition
  <2>9. ASSUME NEW j \in (p + 1)..(m - 1) PROVE ~Kept(text[j])
    <3>1. j \in 1..Len(text) /\ p < j /\ j < m BY <2>1, <1>2
    <3>2. ~Space(text[j]) BY <3>1, <2>1, <2>8, <1>2
    <3>3. ASSUME NEW l \in 1..Len(s), at[l] = j PROVE FALSE
      <4>1. at[l] > p BY <3>1, <3>3
      <4>2. k <= l BY <4>1, <2>4
      <4>3. at[k] <= at[l]
        <5>1. at[k] \in Nat /\ at[l] \in Nat /\ (k < l => at[k] < at[l]) BY <1>2, <1>3
        <5> QED BY <5>1, <4>2
      <4>4. m <= at[k] BY <2>6, <2>8
      <4> QED BY <4>3, <4>4, <3>1, <3>3, <2>1, <1>2
    <3> QED BY <3>1, <3>2, <3>3, <1>6, Zenon
  <2>10. m \in (p + 1)..Len(text) /\ Space(text[m]) BY <2>8
  <2> QED BY <2>1, <2>5, <2>9, <2>10, Zenon DEF Stays
<1>9. /\ Cardinality(P) = Len(s)
      /\ \A l \in 1..Len(s) : Cardinality(UpTo(P, at[l])) = l
  <2>1. at \in [1..Len(s) -> Nat] BY <1>2
  <2>2. P \subseteq Nat BY <1>2
  <2> HIDE DEF P
  <2>3. \A k \in 1..Len(s) : at[k] \in P BY <1>7
  <2>4. \A p \in P : \E k \in 1..Len(s) : at[k] = p BY <1>8
  <2>5. Enumerates(at, Len(s), P) BY <1>3, <2>1, <2>2, <2>3, <2>4, Zenon DEF Enumerates
  <2> QED BY <1>2, <2>5, CountUpTo, Zenon
<1>10. ASSUME NEW k \in P PROVE s[Cardinality({j \in P : j <= k})] = text[k]
  <2>1. PICK l \in 1..Len(s) : at[l] = k BY <1>8
  <2> HIDE DEF P
  <2> QED BY <2>1, <1>4, <1>9, Zenon DEF UpTo
<1> QED BY <1>9, <1>10, Zenon DEF IsNormalForm
----------------------------------------------------------------------------
(***************************************************************************)
(* The inductive invariant.                                                *)
(***************************************************************************)

\* The fields of es are made of the lines before n of the header h: each line once
\* and in order, and every line that a rule could want.
Accounted(h, es, n) ==
    /\ Ordered(es)
    /\ \A k \in DOMAIN es : \A m \in DOMAIN es[k].lines : es[k].lines[m] < n
    /\ \A p \in 1..n - 1 :
          h[p].kind \in {"field", "empty", "cont", "from"} =>
              \E k \in DOMAIN es : \E m \in DOMAIN es[k].lines : es[k].lines[m] = p

Taken == IF field = NoField THEN entries ELSE Append(entries, field)

LastBodyOf(es, tag) ==
    LET at == {k \in DOMAIN es : es[k].tag = tag}
    IN  IF at = {} THEN <<>> ELSE es[Max(at)].body

\* What add_entry stores: the member of every name, and no Message-ID it refuses.
Stored(es, mem, c) ==
    /\ \A t \in Member : mem[t] = LastBodyOf(es, t)
    /\ ~c.ignore_time_stamp =>
          \A k \in DOMAIN es : es[k].tag = "Message-Id" => rfc822_valid_msgid(es[k].body)

Normalising ==
    /\ normalising => cfg.normal /\ result = "none" /\ Reached(ssubject, i, members["Subject"])
    /\ ~normalising /\ cfg.normal => IsNormalForm(normal_subject, members["Subject"])

ScanTypes == header \in Answers /\ TypeOK

ScanInv ==
    /\ ScanTypes
    /\ Accounted(header, Taken, pos)
    /\ result # "failed" => Stored(entries, members, cfg)
    /\ Normalising
    /\ result = "ok" => field = NoField /\ ~Ahead
----------------------------------------------------------------------------
(***************************************************************************)
(* The lines of the fields.                                                *)
(***************************************************************************)

\* A field at the end of a sequence of fields.
LEMMA WithField ==
    ASSUME NEW es \in Seq(Entry), NEW e \in Entry
    PROVE  /\ Append(es, e) \in Seq(Entry)
           /\ Len(es) \in Nat /\ DOMAIN es = 1..Len(es)
           /\ Len(Append(es, e)) = Len(es) + 1
           /\ DOMAIN Append(es, e) = 1..Len(es) + 1
           /\ \A k \in 1..Len(es) : Append(es, e)[k] = es[k] /\ es[k] \in Entry
           /\ Append(es, e)[Len(es) + 1] = e
  OBVIOUS

\* The lines of a field are a sequence of numbers.
LEMMA LinesOf ==
    ASSUME NEW e \in Entry
    PROVE  Len(e.lines) \in Nat /\ DOMAIN e.lines = 1..Len(e.lines) /\ e.lines \in Seq(Nat)
  BY DEF Entry

\* Lines that no rule wants are passed over.
LEMMA PassedOver ==
    ASSUME NEW h, NEW es \in Seq(Entry), NEW n \in Nat, NEW m \in Nat, n <= m,
           Accounted(h, es, n),
           \A p \in n..m - 1 : h[p].kind \notin {"field", "empty", "cont", "from"}
    PROVE  Accounted(h, es, m)
<1>1. \A k \in DOMAIN es : \A j \in DOMAIN es[k].lines : es[k].lines[j] \in Nat
  <2> TAKE k \in DOMAIN es
  <2>1. es[k] \in Entry OBVIOUS
  <2> QED BY <2>1, LinesOf
<1>2. \A k \in DOMAIN es : \A j \in DOMAIN es[k].lines : es[k].lines[j] < m
  BY <1>1 DEF Accounted
<1>3. \A p \in 1..m - 1 : p \in 1..n - 1 \/ p \in n..m - 1
  OBVIOUS
<1> QED BY <1>2, <1>3, Zenon DEF Accounted

\* TAG: a new field at line n.
LEMMA FieldBegun ==
    ASSUME NEW h, NEW es \in Seq(Entry), NEW n \in Nat \ {0}, NEW e \in Entry,
           Accounted(h, es, n), e.lines = <<n>>
    PROVE  Accounted(h, Append(es, e), n + 1)
<1>1. PICK fs : fs = Append(es, e) OBVIOUS
<1>2. /\ fs \in Seq(Entry) /\ Len(es) \in Nat /\ DOMAIN es = 1..Len(es)
      /\ DOMAIN fs = 1..Len(es) + 1
      /\ \A k \in 1..Len(es) : fs[k] = es[k] /\ es[k] \in Entry
      /\ fs[Len(es) + 1] = e
  BY <1>1, WithField, Zenon
<1>3. DOMAIN e.lines = {1} /\ e.lines[1] = n
  OBVIOUS
<1>4. \A k \in 1..Len(es) : \A j \in DOMAIN es[k].lines : es[k].lines[j] \in Nat /\ es[k].lines[j] < n
  <2> TAKE k \in 1..Len(es)
  <2> TAKE j \in DOMAIN es[k].lines
  <2>1. es[k] \in Entry /\ k \in DOMAIN es BY <1>2, Zenon
  <2>2. es[k].lines[j] < n BY <2>1, Zenon DEF Accounted
  <2>3. es[k].lines[j] \in Nat BY <2>1, LinesOf
  <2> QED BY <2>2, <2>3
<1>5. Ordered(fs)
  <2> SUFFICES ASSUME NEW k \in DOMAIN fs, NEW l \in DOMAIN fs,
                      NEW j \in DOMAIN fs[k].lines, NEW m \in DOMAIN fs[l].lines,
                      k < l \/ (k = l /\ j < m)
               PROVE  fs[k].lines[j] < fs[l].lines[m]
    BY DEF Ordered
  <2>1. CASE l = Len(es) + 1
    <3>1. m = 1 /\ fs[l].lines[m] = n BY <2>1, <1>2, <1>3
    <3>2. CASE k = l BY <3>1, <3>2, <2>1, <1>2, <1>3
    <3>3. CASE k # l
      <4>1. k \in 1..Len(es) BY <3>3, <2>1, <1>2
      <4> QED BY <4>1, <3>1, <1>2, <1>4
    <3> QED BY <3>2, <3>3
  <2>2. CASE l # Len(es) + 1
    <3>1. l \in 1..Len(es) /\ k \in 1..Len(es) BY <2>2, <1>2
    <3>2. fs[k] = es[k] /\ fs[l] = es[l] BY <3>1, <1>2
    <3> QED BY <3>1, <3>2, <1>2, Zenon DEF Accounted, Ordered
  <2> QED BY <2>1, <2>2
<1>6. \A k \in DOMAIN fs : \A j \in DOMAIN fs[k].lines : fs[k].lines[j] < n + 1
  <2> TAKE k \in DOMAIN fs
  <2> TAKE j \in DOMAIN fs[k].lines
  <2>1. CASE k = Len(es) + 1 BY <2>1, <1>2, <1>3
  <2>2. CASE k # Len(es) + 1
    <3>1. k \in 1..Len(es) BY <2>2, <1>2
    <3> QED BY <3>1, <1>2, <1>4
  <2> QED BY <2>1, <2>2
<1>7. \A p \in 1..(n + 1) - 1 :
          h[p].kind \in {"field", "empty", "cont", "from"} =>
              \E k \in DOMAIN fs : \E m \in DOMAIN fs[k].lines : fs[k].lines[m] = p
  <2> TAKE p \in 1..(n + 1) - 1
  <2> HAVE h[p].kind \in {"field", "empty", "cont", "from"}
  <2>1. CASE p = n
    <3>1. Len(es) + 1 \in DOMAIN fs /\ 1 \in DOMAIN fs[Len(es) + 1].lines BY <1>2, <1>3
    <3>2. fs[Len(es) + 1].lines[1] = p BY <2>1, <1>2, <1>3
    <3> QED BY <3>1, <3>2, Zenon
  <2>2. CASE p # n
    <3>1. p \in 1..n - 1 BY <2>2
    <3>2. PICK k \in DOMAIN es : \E m \in DOMAIN es[k].lines : es[k].lines[m] = p
      BY <3>1, Zenon DEF Accounted
    <3>3. k \in DOMAIN fs /\ fs[k] = es[k] BY <1>2
    <3> QED BY <3>2, <3>3, Zenon
  <2> QED BY <2>1, <2>2
<1> QED BY <1>1, <1>5, <1>6, <1>7, ZenonT(60) DEF Accounted

\* BODY: the last field goes on at line n.
LEMMA FieldContinued ==
    ASSUME NEW h, NEW es \in Seq(Entry), NEW n \in Nat \ {0}, NEW e \in Entry, NEW f \in Entry,
           Accounted(h, Append(es, e), n), f.lines = Append(e.lines, n)
    PROVE  Accounted(h, Append(es, f), n + 1)
<1>1. PICK gs : gs = Append(es, e) OBVIOUS
<1>2. PICK fs : fs = Append(es, f) OBVIOUS
<1>3. /\ fs \in Seq(Entry) /\ gs \in Seq(Entry) /\ Len(es) \in Nat
      /\ DOMAIN fs = 1..Len(es) + 1 /\ DOMAIN gs = 1..Len(es) + 1
      /\ \A k \in 1..Len(es) : fs[k] = es[k] /\ gs[k] = es[k] /\ es[k] \in Entry
      /\ fs[Len(es) + 1] = f /\ gs[Len(es) + 1] = e
  BY <1>1, <1>2, WithField, Zenon
<1>4. Accounted(h, gs, n) BY <1>1
<1>5. PICK top : top = Len(e.lines) + 1 OBVIOUS
<1>6. /\ top \in Nat /\ DOMAIN e.lines = 1..top - 1 /\ DOMAIN f.lines = 1..top
      /\ f.lines[top] = n /\ \A j \in 1..top - 1 : f.lines[j] = e.lines[j]
  BY <1>5, LinesOf
<1>7. \A k \in DOMAIN gs : \A j \in DOMAIN gs[k].lines : gs[k].lines[j] \in Nat /\ gs[k].lines[j] < n
  <2> TAKE k \in DOMAIN gs
  <2>1. gs[k] \in Entry BY <1>3
  <2> QED BY <2>1, <1>4, LinesOf DEF Accounted
<1>8. ASSUME NEW k \in DOMAIN fs, NEW j \in DOMAIN fs[k].lines
      PROVE  \/ k = Len(es) + 1 /\ j = top /\ fs[k].lines[j] = n
             \/ /\ k \in DOMAIN gs /\ j \in DOMAIN gs[k].lines /\ gs[k].lines[j] = fs[k].lines[j]
                /\ k = Len(es) + 1 => j < top
  <2>1. CASE k = Len(es) + 1
    <3>1. fs[k] = f /\ gs[k] = e /\ k \in DOMAIN gs BY <2>1, <1>3
    <3>2. j \in 1..top BY <3>1, <1>6
    <3>3. CASE j = top BY <3>3, <3>1, <2>1, <1>6
    <3>4. CASE j # top
      <4>1. j \in 1..top - 1 /\ j < top BY <3>2, <3>4, <1>6
      <4> QED BY <4>1, <3>1, <1>6
    <3> QED BY <3>3, <3>4
  <2>2. CASE k # Len(es) + 1
    <3>1. k \in 1..Len(es) BY <2>2, <1>3
    <3>2. fs[k] = gs[k] /\ k \in DOMAIN gs BY <3>1, <1>3
    <3> QED BY <3>2, <2>2
  <2> QED BY <2>1, <2>2
<1>9. Ordered(fs)
  <2> SUFFICES ASSUME NEW k \in DOMAIN fs, NEW l \in DOMAIN fs,
                      NEW j \in DOMAIN fs[k].lines, NEW m \in DOMAIN fs[l].lines,
                      k < l \/ (k = l /\ j < m)
               PROVE  fs[k].lines[j] < fs[l].lines[m]
    BY DEF Ordered
  <2>1. CASE l = Len(es) + 1 /\ m = top /\ fs[l].lines[m] = n
    <3>1. ~(k = Len(es) + 1 /\ j = top) BY <2>1, <1>3, <1>6
    <3>2. k \in DOMAIN gs /\ j \in DOMAIN gs[k].lines /\ gs[k].lines[j] = fs[k].lines[j]
      BY <3>1, <1>8, Zenon
    <3>3. gs[k].lines[j] < n BY <3>2, <1>7, Zenon
    <3> QED BY <3>2, <3>3, <2>1
  <2>2. CASE /\ l \in DOMAIN gs /\ m \in DOMAIN gs[l].lines /\ gs[l].lines[m] = fs[l].lines[m]
             /\ l = Len(es) + 1 => m < top
    <3>1. ~(k = Len(es) + 1 /\ j = top) BY <2>2, <1>3, <1>6
    <3>2. k \in DOMAIN gs /\ j \in DOMAIN gs[k].lines /\ gs[k].lines[j] = fs[k].lines[j]
      BY <3>1, <1>8, Zenon
    <3>3. gs[k].lines[j] < gs[l].lines[m] BY <3>2, <2>2, <1>4, Zenon DEF Accounted, Ordered
    <3> QED BY <3>2, <3>3, <2>2
  <2> QED BY <2>1, <2>2, <1>8, Zenon
<1>10. \A k \in DOMAIN fs : \A j \in DOMAIN fs[k].lines : fs[k].lines[j] < n + 1
  <2> SUFFICES ASSUME NEW k \in DOMAIN fs, NEW j \in DOMAIN fs[k].lines
               PROVE  fs[k].lines[j] < n + 1
    OBVIOUS
  <2>1. fs[k].lines[j] = n \/ (fs[k].lines[j] \in Nat /\ fs[k].lines[j] < n)
    BY <1>7, <1>8, Zenon
  <2> QED BY <2>1
<1>11. ASSUME NEW k \in DOMAIN gs, NEW m \in DOMAIN gs[k].lines
       PROVE  k \in DOMAIN fs /\ m \in DOMAIN fs[k].lines /\ fs[k].lines[m] = gs[k].lines[m]
  <2>1. CASE k = Len(es) + 1
    <3>1. fs[k] = f /\ gs[k] = e /\ k \in DOMAIN fs BY <2>1, <1>3
    <3>2. m \in 1..top - 1 /\ m \in 1..top BY <3>1, <1>6
    <3> QED BY <3>1, <3>2, <1>6
  <2>2. CASE k # Len(es) + 1
    <3>1. k \in 1..Len(es) BY <2>2, <1>3
    <3>2. fs[k] = gs[k] /\ k \in DOMAIN fs BY <3>1, <1>3
    <3> QED BY <3>2
  <2> QED BY <2>1, <2>2
<1>12. \A p \in 1..(n + 1) - 1 :
          h[p].kind \in {"field", "empty", "cont", "from"} =>
              \E k \in DOMAIN fs : \E m \in DOMAIN fs[k].lines : fs[k].lines[m] = p
  <2> TAKE p \in 1..(n + 1) - 1
  <2> HAVE h[p].kind \in {"field", "empty", "cont", "from"}
  <2>1. CASE p = n
    <3>1. Len(es) + 1 \in DOMAIN fs /\ top \in DOMAIN fs[Len(es) + 1].lines BY <1>3, <1>6
    <3>2. fs[Len(es) + 1].lines[top] = p BY <2>1, <1>3, <1>6
    <3> QED BY <3>1, <3>2, Zenon
  <2>2. CASE p # n
    <3>1. p \in 1..n - 1 BY <2>2
    <3>2. PICK k \in DOMAIN gs : \E m \in DOMAIN gs[k].lines : gs[k].lines[m] = p
      BY <3>1, <1>4, Zenon DEF Accounted
    <3> QED BY <3>2, <1>11, Zenon
  <2> QED BY <2>1, <2>2
<1> QED BY <1>2, <1>9, <1>10, <1>12, ZenonT(60) DEF Accounted
----------------------------------------------------------------------------
(***************************************************************************)
(* What add_entry stores.                                                  *)
(***************************************************************************)

\* The last field of a name, after another field.
LEMMA LastOfAppended ==
    ASSUME NEW es \in Seq(Entry), NEW e \in Entry, NEW t \in Tag
    PROVE  LastBodyOf(Append(es, e), t) = IF e.tag = t THEN e.body ELSE LastBodyOf(es, t)
<1>1. PICK fs : fs = Append(es, e) OBVIOUS
<1>2. PICK n : n = Len(es) OBVIOUS
<1>3. /\ n \in Nat /\ DOMAIN es = 1..n /\ DOMAIN fs = 1..n + 1
      /\ \A k \in 1..n : fs[k] = es[k] /\ fs[n + 1] = e
      /\ fs[n + 1] = e
  BY <1>1, <1>2, WithField, Zenon
<1> DEFINE at == {k \in DOMAIN es : es[k].tag = t}
           now == {k \in DOMAIN fs : fs[k].tag = t}
<1>4. CASE e.tag = t
  <2>1. now \in SUBSET (1..n + 1) /\ n + 1 \in now /\ n + 1 \in Nat BY <1>3, <1>4
  <2> HIDE DEF now
  <2>2. Max(now) \in now /\ \A y \in now : Max(now) >= y
    <3>1. now # {} BY <2>1
    <3> QED BY <2>1, <3>1, LastPosition, Zenon
  <2>3. PICK x : x = Max(now) OBVIOUS
  <2>4. x = n + 1
    <3>1. x \in now /\ x >= n + 1 BY <2>1, <2>2, <2>3, Zenon
    <3>2. x \in 1..n + 1 BY <3>1, <2>1, Zenon
    <3> QED BY <3>1, <3>2, <1>3
  <2>5. now # {} BY <2>1
  <2> QED BY <2>3, <2>4, <2>5, <1>1, <1>3, <1>4, Zenon DEF LastBodyOf, now
<1>5. CASE e.tag # t
  <2>1. now = at BY <1>3, <1>5
  <2>2. at \in SUBSET (1..n) BY <1>3
  <2> HIDE DEF now, at
  <2>3. CASE at = {} BY <2>1, <2>3, <1>1, <1>5, Zenon DEF LastBodyOf, now, at
  <2>4. CASE at # {}
    <3>1. Max(at) \in at BY <2>2, <2>4, <1>3, LastPosition, Zenon
    <3>2. PICK x : x = Max(at) OBVIOUS
    <3>3. x \in 1..n BY <3>1, <3>2, <2>2
    <3>4. fs[x] = es[x] BY <3>3, <1>3
    <3> QED BY <2>1, <2>4, <3>2, <3>4, <1>1, <1>5, Zenon DEF LastBodyOf, now, at
  <2> QED BY <2>3, <2>4
<1> QED BY <1>4, <1>5
----------------------------------------------------------------------------
(***************************************************************************)
(* Types.                                                                  *)
(***************************************************************************)
HeaderLine == [kind : Kind, tag : Tag, text : Text]

\* Only the last line of a header is the final dot.
LEMMA HeaderLines ==
    ASSUME header \in Answers
    PROVE  /\ Len(header) \in Nat \ {0}
           /\ \A p \in 1..Len(header) :
                 header[p] \in HeaderLine /\ (header[p].kind = "dot" <=> p = Len(header))
           /\ Last(header).kind = "dot"
<1>1. /\ header \in Seq(HeaderLine) /\ header # <<>>
      /\ \A p \in DOMAIN header : header[p].kind = "dot" <=> p = Len(header)
  BY AnswersAssumption, Zenon DEF HeaderLine, Text
<1>2. Len(header) \in Nat \ {0} /\ DOMAIN header = 1..Len(header)
      /\ \A p \in 1..Len(header) : header[p] \in HeaderLine
  BY <1>1
<1>3. Len(header) \in 1..Len(header) BY <1>2
<1> QED BY <1>1, <1>2, <1>3, Zenon DEF Last

\* What the parser has on its stack is a field or nothing.
LEMMA FieldKinds ==
    ASSUME ScanTypes
    PROVE  /\ field = NoField \/ field \in Entry
           /\ NoField \notin Entry
           /\ entries \in Seq(Entry)
           /\ Taken \in Seq(Entry)
<1>1. NoField \notin Entry BY DEF NoField, Entry, Tag
<1>2. field = NoField \/ field \in Entry BY Zenon DEF ScanTypes, TypeOK, Entry, Text
<1>3. entries \in Seq(Entry) BY DEF ScanTypes, TypeOK, HeaderTypeOK, Entry, Text
<1>4. Taken \in Seq(Entry)
  <2>1. CASE field = NoField BY <2>1, <1>3, Zenon DEF Taken
  <2>2. CASE field # NoField BY <2>2, <1>2, <1>3, WithField, Zenon DEF Taken
  <2> QED BY <2>1, <2>2
<1> QED BY <1>1, <1>2, <1>3, <1>4

\* The texts the scanner makes of a line.
LEMMA LineTexts ==
    ASSUME NEW l \in HeaderLine
    PROVE  /\ l.text \in Text
           /\ <<"a", ".">> \o l.text \in Text
           /\ <<"a", ".">> \in Text /\ <<".">> \in Text /\ <<" ">> \in Text
           /\ <<"a", " ">> \o l.text \in Text
           /\ <<" ">> \o Blanks(l.text) \o <<" ">> \in Text
<1>1. l.text \in Seq(Char) BY DEF HeaderLine, Text
<1>2. /\ <<"a", ".">> \in Seq(Char) /\ <<"a", " ">> \in Seq(Char)
      /\ <<".">> \in Seq(Char) /\ <<" ">> \in Seq(Char)
  BY DEF Char
<1>3. Blanks(l.text) \in Seq(Char)
  <2>1. PICK t \in Seq(Char) : t = l.text BY <1>1
  <2>2. Len(t) \in Nat /\ DOMAIN t = 1..Len(t) /\ \A k \in 1..Len(t) : t[k] \in Char OBVIOUS
  <2>3. Blanks(t) = [k \in 1..Len(t) |-> IF t[k] = "t" THEN " " ELSE t[k]]
    BY <2>2, Zenon DEF Blanks
  <2>4. \A k \in 1..Len(t) : (IF t[k] = "t" THEN " " ELSE t[k]) \in Char
    BY <2>2 DEF Char
  <2>5. [k \in 1..Len(t) |-> IF t[k] = "t" THEN " " ELSE t[k]] \in Seq(Char)
    <3> DEFINE f == [k \in 1..Len(t) |-> IF t[k] = "t" THEN " " ELSE t[k]]
    <3>1. f \in [1..Len(t) -> Char] BY <2>4, Zenon
    <3> HIDE DEF f
    <3>2. f \in Seq(Char) BY <2>2, <3>1, SeqDef
    <3> QED BY <3>2 DEF f
  <2> QED BY <2>1, <2>3, <2>5, Zenon
<1>4. \A u, v \in Seq(Char) : u \o v \in Seq(Char)
  BY ConcatProperties, Zenon
<1> QED BY <1>1, <1>2, <1>3, <1>4, Zenon DEF Text

\* The parser's texts are texts.
LEMMA ParserTexts ==
    ASSUME ScanTypes, Ahead
    PROVE  Line \in HeaderLine /\ Raw \in Text /\ Folded \in Text /\ pos \in 1..Len(header)
<1>1. Line \in HeaderLine /\ pos \in 1..Len(header)
  <2>1. pos \in 1..Len(header)
    <3>1. Len(header) \in Nat BY HeaderLines DEF ScanTypes
    <3>2. pos \in 1..Len(header) + 1 /\ pos <= Len(header) BY DEF ScanTypes, TypeOK, Ahead
    <3> QED BY <3>1, <3>2
  <2> QED BY <2>1, HeaderLines, Zenon DEF ScanTypes, Line
<1>2. Raw \in Text
  <2>1. Line.text \in Text /\ <<"a", ".">> \o Line.text \in Text
        /\ <<"a", ".">> \in Text /\ <<".">> \in Text /\ <<"a", " ">> \o Line.text \in Text
    BY <1>1, LineTexts, Zenon
  <2>2. PICK A : A = <<"a", ".">> \o Line.text OBVIOUS
  <2>3. PICK B : B = <<"a", " ">> \o Line.text OBVIOUS
  <2>4. PICK C : C = <<"a", ".">> OBVIOUS
  <2>5. PICK D : D = <<".">> OBVIOUS
  <2>6. Raw = CASE Line.kind = "field" -> A
                [] Line.kind = "empty" -> C
                [] Line.kind = "from" -> B
                [] Line.kind = "dot" -> D
                [] OTHER -> Line.text
    BY <2>2, <2>3, <2>4, <2>5, Zenon DEF Raw
  <2>7. A \in Text /\ B \in Text /\ C \in Text /\ D \in Text /\ Line.text \in Text
    BY <2>1, <2>2, <2>3, <2>4, <2>5, Zenon
  <2> QED BY <2>6, <2>7
<1>3. Folded \in Text
  <2>1. <<" ">> \in Text /\ <<" ">> \o Blanks(Line.text) \o <<" ">> \in Text
    BY <1>1, LineTexts, Zenon
  <2> QED BY <2>1, Zenon DEF Folded
<1> QED BY <1>1, <1>2, <1>3
----------------------------------------------------------------------------
(***************************************************************************)
(* The steps of the scanner.                                               *)
(***************************************************************************)

\* A step that moves on in the header and leaves the class Header alone.
LEMMA ScannerStep ==
    ASSUME ScanInv, result = "none", UNCHANGED <<headerVars, header>>,
           pos' \in 1..Len(header) + 1, newline' \in BOOLEAN,
           field' = NoField \/ field' \in Entry,
           \/ start' = "INITIAL"
           \/ start' = "BODY_READY" /\ pos' <= Len(header) /\ field' # NoField,
           Accounted(header, Taken', pos')
    PROVE  ScanInv'
<1>1. ScanTypes'
  <2>1. HeaderTypeOK' BY DEF ScanInv, ScanTypes, TypeOK, HeaderTypeOK, headerVars
  <2>2. header' \in Answers /\ (Last(header).kind = "dot")'
    BY Zenon DEF ScanInv, ScanTypes, TypeOK
  <2>3. (start \in {"INITIAL", "BODY_READY"})' /\ (start = "BODY_READY" => Ahead /\ field # NoField)'
    BY DEF Ahead
  <2>4. (field \in {NoField} \union [tag : Tag, body : Seq(Char), lines : Seq(Nat)])'
    BY Zenon DEF Entry, Text
  <2>5. (pos \in 1..Len(header) + 1)' /\ (newline \in BOOLEAN)' OBVIOUS
  <2> QED BY <2>1, <2>2, <2>3, <2>4, <2>5, Zenon DEF ScanTypes, TypeOK
<1>2. Accounted(header, Taken, pos)' OBVIOUS
<1>3. (result # "failed" => Stored(entries, members, cfg))'
  BY Zenon DEF ScanInv, headerVars
<1>4. Normalising' BY Zenon DEF ScanInv, Normalising, headerVars
<1>5. (result = "ok" => field = NoField /\ ~Ahead)' BY DEF headerVars
<1> QED BY <1>1, <1>2, <1>3, <1>4, <1>5, Zenon DEF ScanInv

\* What the guards of the scanner tell of the line and of the fields.
LEMMA AtLine ==
    ASSUME ScanInv, Scanning, Ahead
    PROVE  /\ result = "none" /\ pos \in 1..Len(header) /\ Len(header) \in Nat
           /\ Line = header[pos] /\ Line \in HeaderLine
           /\ Line.kind = "dot" <=> pos = Len(header)
           /\ entries \in Seq(Entry) /\ Taken \in Seq(Entry)
           /\ Accounted(header, Taken, pos)
           /\ field = NoField => Taken = entries
           /\ field # NoField => field \in Entry /\ Taken = Append(entries, field)
<1>1. ScanTypes BY DEF ScanInv
<1>2. header \in Answers BY <1>1 DEF ScanTypes
<1>3. Line \in HeaderLine /\ pos \in 1..Len(header) BY <1>1, ParserTexts
<1> QED BY <1>1, <1>2, <1>3, HeaderLines, FieldKinds, Zenon DEF Scanning, Line, Taken, ScanInv

\* A field begins: TAG BODY and TAG alone.
LEMMA StepTagAndBody == ASSUME ScanInv, TagAndBody PROVE ScanInv'
<1>1. Scanning /\ Ahead /\ field = NoField /\ start = "INITIAL" BY DEF TagAndBody, At
<1>2. PICK f : f = [tag |-> Line.tag, body |-> Line.text, lines |-> <<pos>>] OBVIOUS
<1>3. field' = f /\ pos' = pos + 1 /\ newline' = FALSE /\ start' = start
      /\ UNCHANGED <<headerVars, header>>
  BY <1>2 DEF TagAndBody, Parser, Advance
<1>4. f \in Entry /\ f.lines = <<pos>>
  <2>1. Line.tag \in Tag /\ Line.text \in Text /\ pos \in Nat
    BY <1>1, AtLine DEF HeaderLine
  <2> QED BY <2>1, <1>2 DEF Entry
<1>5. Taken' = Append(entries, f)
  <2>1. f # NoField BY <1>4 DEF Entry, NoField, Tag
  <2> QED BY <2>1, <1>3, Zenon DEF Taken, headerVars
<1>6. Accounted(header, Append(entries, f), pos + 1)
  <2>1. Accounted(header, entries, pos) /\ pos \in Nat \ {0} /\ entries \in Seq(Entry)
    BY <1>1, AtLine
  <2> QED BY <2>1, <1>4, FieldBegun
<1>7. pos + 1 \in 1..Len(header) + 1 BY <1>1, AtLine
<1>8. result = "none" BY <1>1 DEF Scanning
<1> QED BY <1>1, <1>3, <1>4, <1>5, <1>6, <1>7, <1>8, ScannerStep

\* A tag without a body opens a field.
LEMMA StepTagAlone == ASSUME ScanInv, TagAlone PROVE ScanInv'
<1>1. Scanning /\ Ahead /\ field = NoField /\ Line.kind = "empty" BY DEF TagAlone, At
<1>2. PICK f : f = [tag |-> Line.tag, body |-> <<>>, lines |-> <<pos>>] OBVIOUS
<1>3. field' = f /\ pos' = pos + 1 /\ newline' = FALSE /\ start' = "BODY_READY"
      /\ UNCHANGED <<headerVars, header>>
  BY <1>2 DEF TagAlone, Parser, Advance
<1>4. f \in Entry /\ f.lines = <<pos>>
  <2>1. Line.tag \in Tag /\ pos \in Nat BY <1>1, AtLine DEF HeaderLine
  <2>2. <<>> \in Text BY DEF Text
  <2> QED BY <2>1, <2>2, <1>2 DEF Entry
<1>5. f # NoField BY <1>4 DEF Entry, NoField, Tag
<1>6. Taken' = Append(entries, f) BY <1>5, <1>3, Zenon DEF Taken, headerVars
<1>7. Accounted(header, Append(entries, f), pos + 1)
  <2>1. Accounted(header, entries, pos) /\ pos \in Nat \ {0} /\ entries \in Seq(Entry)
    BY <1>1, AtLine
  <2> QED BY <2>1, <1>4, FieldBegun
<1>8. pos + 1 \in 1..Len(header) + 1 /\ pos + 1 <= Len(header)
  <2>1. pos # Len(header) /\ pos \in 1..Len(header) /\ Len(header) \in Nat BY <1>1, AtLine
  <2> QED BY <2>1
<1>9. result = "none" BY <1>1 DEF Scanning
<1> QED BY <1>3, <1>4, <1>5, <1>6, <1>7, <1>8, <1>9, ScannerStep

\* A field goes on in the next line: the white space behind its tag, or a BODY.
LEMMA StepTagGoesOn == ASSUME ScanInv, TagGoesOn PROVE ScanInv'
<1>1. Scanning /\ start = "BODY_READY" /\ Line.kind = "blank" BY DEF TagGoesOn
<1>2. Ahead /\ field # NoField BY <1>1 DEF ScanInv, ScanTypes, TypeOK
<1>3. /\ pos' = pos + 1 /\ newline' = FALSE /\ field' = field /\ start' = start
      /\ UNCHANGED <<headerVars, header>>
  BY DEF TagGoesOn, Advance
<1>4. pos + 1 \in 1..Len(header) + 1 /\ pos + 1 <= Len(header)
  <2>1. pos # Len(header) /\ pos \in 1..Len(header) /\ Len(header) \in Nat BY <1>1, <1>2, AtLine
  <2> QED BY <2>1
<1>5. Taken' = Taken BY <1>3, Zenon DEF Taken, headerVars
<1>6. Accounted(header, Taken, pos + 1)
  <2>1. Accounted(header, Taken, pos) /\ pos \in Nat /\ pos + 1 \in Nat /\ pos <= pos + 1
        /\ Taken \in Seq(Entry)
    BY <1>1, <1>2, AtLine
  <2>2. \A p \in pos..(pos + 1) - 1 : header[p].kind \notin {"field", "empty", "cont", "from"}
    <3>1. \A p \in pos..(pos + 1) - 1 : p = pos BY <2>1
    <3> QED BY <3>1, <1>1 DEF Line
  <2> QED BY <2>1, <2>2, PassedOver
<1>7. result = "none" /\ field \in Entry BY <1>1, <1>2, AtLine
<1> QED BY <1>1, <1>2, <1>3, <1>4, <1>5, <1>6, <1>7, ScannerStep

\* The line at hand goes to the open field.
LEMMA FieldGoesOn ==
    ASSUME ScanInv, Scanning, Ahead, field # NoField, NEW body \in Text,
           Parser([field EXCEPT !.body = body, !.lines = Append(@, pos)]),
           Advance(1, FALSE), start' = "INITIAL"
    PROVE  ScanInv'
<1>1. PICK f : f = [field EXCEPT !.body = body, !.lines = Append(@, pos)] OBVIOUS
<1>2. field' = f /\ pos' = pos + 1 /\ newline' = FALSE /\ UNCHANGED <<headerVars, header>>
  BY <1>1 DEF Parser, Advance
<1>3. /\ field \in Entry /\ pos \in 1..Len(header) /\ pos \in Nat \ {0} /\ Len(header) \in Nat
      /\ entries \in Seq(Entry) /\ Accounted(header, Append(entries, field), pos)
      /\ result = "none"
  <2>1. /\ field \in Entry /\ pos \in 1..Len(header) /\ Len(header) \in Nat
        /\ entries \in Seq(Entry) /\ Accounted(header, Taken, pos) /\ result = "none"
        /\ Taken = Append(entries, field)
    BY AtLine, Zenon
  <2>2. pos \in Nat \ {0} BY <2>1
  <2> QED BY <2>1, <2>2, Zenon
<1>4. f \in Entry /\ f.lines = Append(field.lines, pos)
  <2>1. PICK ls : ls = Append(field.lines, pos) OBVIOUS
  <2>2. ls \in Seq(Nat)
    <3>1. field.lines \in Seq(Nat) BY <1>3, LinesOf
    <3> QED BY <2>1, <3>1, <1>3
  <2>3. f = [tag |-> field.tag, body |-> body, lines |-> ls]
    BY <1>1, <1>3, <2>1 DEF Entry
  <2>4. field.tag \in Tag BY <1>3 DEF Entry
  <2> QED BY <2>1, <2>2, <2>3, <2>4 DEF Entry
<1>5. Taken' = Append(entries, f)
  <2>1. f # NoField BY <1>4 DEF Entry, NoField, Tag
  <2> QED BY <2>1, <1>2, Zenon DEF Taken, headerVars
<1>6. Accounted(header, Append(entries, f), pos + 1)
  BY <1>3, <1>4, FieldContinued
<1>7. pos + 1 \in 1..Len(header) + 1 BY <1>3
<1> QED BY <1>2, <1>3, <1>4, <1>5, <1>6, <1>7, ScannerStep

\* The line behind an empty field goes to that field,
LEMMA StepBodyFromNextLine == ASSUME ScanInv, BodyFromNextLine PROVE ScanInv'
<1>1. Scanning /\ start = "BODY_READY" BY DEF BodyFromNextLine
<1>2. Ahead /\ field # NoField /\ ScanTypes BY <1>1 DEF ScanInv, ScanTypes, TypeOK
<1>3. Raw \in Text BY <1>2, ParserTexts
<1> QED BY <1>1, <1>2, <1>3, FieldGoesOn, Zenon DEF BodyFromNextLine

\* and so does a continuation.
LEMMA StepContinue == ASSUME ScanInv, Continue PROVE ScanInv'
<1>1. Scanning /\ Ahead /\ start = "INITIAL" /\ field # NoField /\ ScanTypes
  BY DEF Continue, AtContinuation, At, ScanInv
<1>2. PICK body : body = field.body \o Folded OBVIOUS
<1>3. body \in Text
  <2>1. field \in Entry /\ Folded \in Text BY <1>1, AtLine, ParserTexts
  <2>2. field.body \in Seq(Char) /\ Folded \in Seq(Char) BY <2>1 DEF Entry, Text
  <2>3. field.body \o Folded \in Seq(Char) BY <2>2, ConcatProperties, Zenon
  <2> QED BY <2>3, <1>2, Zenon DEF Text
<1>4. Parser([field EXCEPT !.body = body, !.lines = Append(@, pos)])
  BY <1>2, Zenon DEF Continue
<1>5. Advance(1, FALSE) /\ start' = "INITIAL" BY <1>1 DEF Continue
<1> QED BY <1>1, <1>3, <1>4, <1>5, FieldGoesOn, Zenon

\* Lines that make no field.
LEMMA StepSkipJunk == ASSUME ScanInv, SkipJunk PROVE ScanInv'
<1>1. Scanning /\ Ahead /\ start = "INITIAL" /\ Line.kind \in {"junk", "dot"} BY DEF SkipJunk, At
<1>2. /\ pos' = pos + 1 /\ newline' = TRUE /\ field' = field /\ start' = start
      /\ UNCHANGED <<headerVars, header>>
  BY DEF SkipJunk, Advance
<1>3. /\ Accounted(header, Taken, pos) /\ pos \in Nat /\ pos + 1 \in Nat /\ pos <= pos + 1
      /\ Taken \in Seq(Entry) /\ pos + 1 \in 1..Len(header) + 1
  BY <1>1, AtLine
<1>4. Taken' = Taken BY <1>2, Zenon DEF Taken, headerVars
<1>5. Accounted(header, Taken, pos + 1)
  <2>1. \A p \in pos..(pos + 1) - 1 : header[p].kind \notin {"field", "empty", "cont", "from"}
    <3>1. \A p \in pos..(pos + 1) - 1 : p = pos BY <1>3
    <3> QED BY <3>1, <1>1 DEF Line
  <2> QED BY <2>1, <1>3, PassedOver
<1>6. result = "none" /\ (field = NoField \/ field \in Entry) BY <1>1, AtLine
<1> QED BY <1>1, <1>2, <1>3, <1>4, <1>5, <1>6, ScannerStep

\* The end of the header holds no line of a field.
LEMMA StepHeaderEnd == ASSUME ScanInv, HeaderEnd PROVE ScanInv'
<1>1. /\ Scanning /\ Ahead /\ start = "INITIAL" /\ Line.kind \in {"blank", "dot"} /\ field = NoField
      /\ Line.kind = "blank" => header[pos + 1].kind = "dot"
  BY DEF HeaderEnd, AtHeaderEnd, At
<1>2. PICK m : m = IF Line.kind = "blank" THEN pos + 2 ELSE pos + 1 OBVIOUS
<1>3. /\ pos' = m /\ newline' = FALSE /\ field' = field /\ start' = start
      /\ UNCHANGED <<headerVars, header>>
  <2>1. pos' = pos + (IF Line.kind = "blank" THEN 2 ELSE 1) BY DEF HeaderEnd, Advance
  <2>2. pos' = m BY <2>1, <1>2
  <2> QED BY <2>2 DEF HeaderEnd, Advance
<1>4. /\ Accounted(header, Taken, pos) /\ pos \in 1..Len(header) /\ Len(header) \in Nat
      /\ Taken \in Seq(Entry) /\ (Line.kind = "dot" <=> pos = Len(header))
  BY <1>1, AtLine
<1>5. m \in Nat /\ pos \in Nat /\ pos <= m /\ m \in 1..Len(header) + 1
  BY <1>1, <1>2, <1>4
<1>6. Taken' = Taken BY <1>3, Zenon DEF Taken, headerVars
<1>7. Accounted(header, Taken, m)
  <2>1. \A p \in pos..m - 1 : p = pos \/ (p = pos + 1 /\ Line.kind = "blank") BY <1>2, <1>4
  <2>2. \A p \in pos..m - 1 : header[p].kind \notin {"field", "empty", "cont", "from"}
    BY <2>1, <1>1 DEF Line
  <2> QED BY <2>2, <1>4, <1>5, PassedOver
<1>8. result = "none" BY <1>1 DEF Scanning
<1> QED BY <1>1, <1>3, <1>5, <1>6, <1>7, <1>8, ScannerStep

\* rfcerror and the end of the input.
LEMMA ResultStep ==
    ASSUME ScanInv, Scanning,
           UNCHANGED <<cfg, entries, members, normal_subject, ssubject, i, normalising, scanVars>>,
           result' = "exit" \/ (result' = "ok" /\ field = NoField /\ ~Ahead)
    PROVE  ScanInv'
<1>1. ScanTypes'
  BY DEF ScanInv, ScanTypes, TypeOK, HeaderTypeOK, scanVars, Ahead
<1>2. Accounted(header, Taken, pos)' BY Zenon DEF ScanInv, Taken, scanVars
<1>3. (result # "failed" => Stored(entries, members, cfg))'
  <2>1. result # "failed" BY DEF Scanning
  <2> QED BY <2>1, Zenon DEF ScanInv
<1>4. Normalising'
  <2>1. ~normalising /\ ~normalising' BY DEF Scanning
  <2> QED BY <2>1, Zenon DEF ScanInv, Normalising
<1>5. (result = "ok" => field = NoField /\ ~Ahead)' BY DEF scanVars, Ahead
<1> QED BY <1>1, <1>2, <1>3, <1>4, <1>5, Zenon DEF ScanInv

\* A scan that ends in an error promises nothing more.
LEMMA StepSyntaxError == ASSUME ScanInv, SyntaxError PROVE ScanInv'
<1>1. Scanning BY DEF SyntaxError, AtContinuation, At
<1> QED BY <1>1, ResultStep, Zenon DEF SyntaxError, rfcerror

\* At the end of the input every line is accounted for.
LEMMA StepEndOfInput == ASSUME ScanInv, EndOfInput PROVE ScanInv'
  BY ResultStep, Zenon DEF EndOfInput
----------------------------------------------------------------------------
(***************************************************************************)
(* add_entry.                                                              *)
(***************************************************************************)
LEMMA StepReduce == ASSUME ScanInv, Reduce PROVE ScanInv'
<1>1. /\ Scanning /\ start = "INITIAL" /\ field # NoField /\ ScanTypes
      /\ add_entry(field.tag, field.body, field.lines)
      /\ field' = NoField /\ UNCHANGED <<header, pos, start, newline>>
  BY Zenon DEF Reduce, ScanInv
<1>2. result = "none" /\ normalising = FALSE BY <1>1 DEF Scanning, ScanTypes, TypeOK, HeaderTypeOK
<1>3. /\ field \in Entry /\ entries \in Seq(Entry) /\ Taken = Append(entries, field)
  BY <1>1, FieldKinds, Zenon DEF Taken
<1>4. field.tag \in Tag /\ field.body \in Text BY <1>3 DEF Entry
<1>5. /\ entries' = Append(entries, field) /\ entries' \in Seq(Entry)
      /\ cfg' = cfg /\ normal_subject' = normal_subject
  <2>1. field = [tag |-> field.tag, body |-> field.body, lines |-> field.lines]
    BY <1>3 DEF Entry
  <2>2. entries' = Append(entries, field) BY <1>1, <2>1, Zenon DEF add_entry
  <2>3. Append(entries, field) \in Seq(Entry) BY <1>3, WithField, Zenon
  <2> QED BY <1>1, <2>2, <2>3, Zenon DEF add_entry
<1>6. \/ /\ Refused(field.tag, field.body)
         /\ result' = "failed" /\ UNCHANGED <<members, ssubject, i, normalising>>
      \/ /\ ~Refused(field.tag, field.body)
         /\ SetMember(field.tag, field.body)
         /\ IF field.tag = "Subject" /\ cfg.normal
            THEN ssubject' = field.body /\ i' = 0 /\ normalising' = TRUE
            ELSE UNCHANGED <<ssubject, i, normalising>>
         /\ UNCHANGED result
  BY <1>1, Zenon DEF add_entry
<1>7. /\ members \in [Member -> Text] /\ ssubject \in Text /\ normal_subject \in Text
      /\ i \in 0..Len(ssubject)
  BY <1>1, Zenon DEF ScanTypes, TypeOK, HeaderTypeOK, Text
<1>8. members' \in [Member -> Text]
  <2>1. CASE members' = members BY <2>1, <1>7, Zenon
  <2>2. CASE SetMember(field.tag, field.body)
    BY <2>2, <1>4, <1>7 DEF SetMember
  <2> QED BY <2>1, <2>2, <1>6, Zenon
<1>9. (ssubject \in Text)' /\ (i \in 0..Len(ssubject))' /\ (normalising \in BOOLEAN)'
      /\ (result \in {"none", "ok", "failed", "exit"})'
  <2>1. CASE UNCHANGED <<ssubject, i, normalising>>
    BY <2>1, <1>2, <1>6, <1>7
  <2>2. CASE ssubject' = field.body /\ i' = 0 /\ normalising' = TRUE /\ UNCHANGED result
    <3>1. Len(field.body) \in Nat BY <1>4 DEF Text
    <3>2. i' \in 0..Len(ssubject') BY <2>2, <3>1
    <3> QED BY <2>2, <3>2, <1>2, <1>4
  <2> QED BY <2>1, <2>2, <1>6, Zenon
<1>10. ScanTypes'
  <2>1. HeaderTypeOK'
    BY <1>1, <1>5, <1>7, <1>8, <1>9 DEF HeaderTypeOK, ScanTypes, TypeOK, Entry, Text
  <2>2. /\ header' \in Answers /\ (Last(header).kind = "dot")'
        /\ (pos \in 1..Len(header) + 1)' /\ (newline \in BOOLEAN)'
        /\ (start \in {"INITIAL", "BODY_READY"})' /\ (start = "BODY_READY" => Ahead /\ field # NoField)'
        /\ (field \in {NoField} \union [tag : Tag, body : Seq(Char), lines : Seq(Nat)])'
    BY <1>1 DEF ScanTypes, TypeOK
  <2> QED BY <2>1, <2>2, Zenon DEF ScanTypes, TypeOK
<1>11. Accounted(header, Taken, pos)'
  <2>1. Taken' = Taken BY <1>1, <1>3, <1>5, Zenon DEF Taken
  <2> QED BY <2>1, <1>1, Zenon DEF ScanInv
<1>12. (result # "failed" => Stored(entries, members, cfg))'
  <2> SUFFICES ASSUME result' # "failed" PROVE Stored(entries', members', cfg')
    OBVIOUS
  <2>1. ~Refused(field.tag, field.body) /\ SetMember(field.tag, field.body)
    BY <1>6, Zenon
  <2>2. Stored(entries, members, cfg) BY <1>2, Zenon DEF ScanInv
  <2>3. PICK es : es = entries' OBVIOUS
  <2>4. es = Append(entries, field) BY <2>3, <1>5
  <2>5. PICK mem : mem = members' OBVIOUS
  <2>6. \A t \in Member : mem[t] = LastBodyOf(es, t)
    <3> TAKE t \in Member
    <3>1. t \in Tag BY DEF Member
    <3>2. LastBodyOf(es, t) = IF field.tag = t THEN field.body ELSE LastBodyOf(entries, t)
      BY <2>4, <3>1, <1>3, LastOfAppended, Zenon
    <3>3. members[t] = LastBodyOf(entries, t) BY <2>2, Zenon DEF Stored
    <3>4. mem[t] = IF field.tag = t THEN field.body ELSE members[t]
      <4>1. mem = IF field.tag \in Member THEN [members EXCEPT ![field.tag] = field.body] ELSE members
        BY <2>1, <2>5, Zenon DEF SetMember
      <4> QED BY <4>1, <1>7
    <3> QED BY <3>2, <3>3, <3>4
  <2>7. ASSUME ~cfg.ignore_time_stamp, NEW k \in DOMAIN es, es[k].tag = "Message-Id"
        PROVE  rfc822_valid_msgid(es[k].body)
    <3>1. /\ Len(entries) \in Nat /\ DOMAIN entries = 1..Len(entries)
          /\ DOMAIN es = 1..Len(entries) + 1
          /\ \A l \in 1..Len(entries) : es[l] = entries[l]
          /\ es[Len(entries) + 1] = field
      BY <2>4, <1>3, WithField, Zenon
    <3>2. CASE k = Len(entries) + 1
      BY <3>1, <3>2, <2>1, <2>7, Zenon DEF Refused
    <3>3. CASE k # Len(entries) + 1
      <4>1. k \in DOMAIN entries /\ es[k] = entries[k] BY <3>1, <3>3
      <4> QED BY <4>1, <2>2, <2>7, Zenon DEF Stored
    <3> QED BY <3>2, <3>3
  <2>8. Stored(es, mem, cfg) BY <2>6, <2>7, Zenon DEF Stored
  <2> QED BY <2>3, <2>5, <2>8, <1>5, Zenon
<1>13. Normalising'
  <2>1. ~normalising /\ (cfg.normal => IsNormalForm(normal_subject, members["Subject"]))
    BY <1>2, Zenon DEF ScanInv, Normalising
  <2>2. "Subject" \in Member BY DEF Member, Tag
  <2>3. CASE UNCHANGED <<members, normalising>>
    BY <2>1, <2>3, <1>5, Zenon DEF Normalising
  <2>4. CASE /\ SetMember(field.tag, field.body) /\ field.tag = "Subject" /\ cfg.normal
             /\ ssubject' = field.body /\ i' = 0 /\ normalising' = TRUE /\ UNCHANGED result
    <3>1. PICK text : text = field.body OBVIOUS
    <3>2. members'["Subject"] = text
      BY <2>2, <2>4, <3>1, <1>7 DEF SetMember
    <3>3. Reached(text, 0, text) BY <3>1, <1>4, TrackStart
    <3> QED BY <2>4, <3>1, <3>2, <3>3, <1>2, <1>5 DEF Normalising
  <2>5. CASE /\ SetMember(field.tag, field.body) /\ ~(field.tag = "Subject" /\ cfg.normal)
             /\ UNCHANGED <<ssubject, i, normalising, result>>
    <3>1. CASE cfg.normal
      <4>1. members'["Subject"] = members["Subject"]
        BY <2>2, <2>5, <3>1, <1>7 DEF SetMember
      <4> QED BY <4>1, <2>1, <2>5, <1>5, Zenon DEF Normalising
    <3>2. CASE ~cfg.normal BY <3>2, <2>1, <2>5, <1>5, Zenon DEF Normalising
    <3> QED BY <3>1, <3>2
  <2> QED BY <2>3, <2>4, <2>5, <1>6, Zenon
<1>14. (result = "ok" => field = NoField /\ ~Ahead)'
  BY <1>2, <1>6
<1> QED BY <1>10, <1>11, <1>12, <1>13, <1>14, Zenon DEF ScanInv
----------------------------------------------------------------------------
(***************************************************************************)
(* The steps of set_normal_subject.                                        *)
(***************************************************************************)

\* A step of the loop that keeps track of the text.
LEMMA LoopStep ==
    ASSUME ScanInv, normalising, UNCHANGED scanVars,
           NEW s \in Text, NEW k \in 0..Len(s), Loop(s, k),
           Reached(s, k, members["Subject"])
    PROVE  ScanInv'
<1>1. /\ ssubject' = s /\ i' = k
      /\ UNCHANGED <<cfg, entries, members, normal_subject, normalising, result>>
      /\ UNCHANGED <<header, pos, start, newline, field>>
  BY DEF Loop, scanVars
<1>2. ScanTypes'
  <2>1. HeaderTypeOK' BY <1>1 DEF ScanInv, ScanTypes, TypeOK, HeaderTypeOK, Text
  <2> QED BY <2>1, <1>1 DEF ScanInv, ScanTypes, TypeOK, Ahead
<1>3. Accounted(header, Taken, pos)' BY <1>1, Zenon DEF ScanInv, Taken
<1>4. (result # "failed" => Stored(entries, members, cfg))' BY <1>1, Zenon DEF ScanInv
<1>5. Normalising' BY <1>1, Zenon DEF ScanInv, Normalising
<1>6. (result = "ok" => field = NoField /\ ~Ahead)' BY <1>1, Zenon DEF ScanInv, Ahead
<1> QED BY <1>2, <1>3, <1>4, <1>5, <1>6, Zenon DEF ScanInv

\* The index and the text in the loop.
LEMMA InTheLoop ==
    ASSUME ScanInv, InLoop
    PROVE  /\ normalising /\ ssubject \in Text /\ Len(ssubject) \in Nat /\ i \in Nat
           /\ i < Len(ssubject) /\ i + 1 \in 1..Len(ssubject)
           /\ members["Subject"] \in Text /\ Reached(ssubject, i, members["Subject"])
           /\ isspace(i) <=> Space(ssubject[i + 1])
           /\ isspace(i + 1) <=> i + 1 < Len(ssubject) /\ Space(ssubject[i + 2])
<1>1. /\ normalising /\ ssubject \in Text /\ i \in 0..Len(ssubject) /\ i < Len(ssubject)
      /\ members \in [Member -> Text] /\ Reached(ssubject, i, members["Subject"])
  BY Zenon DEF ScanInv, ScanTypes, TypeOK, HeaderTypeOK, Normalising, InLoop, Text
<1>2. Len(ssubject) \in Nat /\ i \in Nat /\ i + 1 \in 1..Len(ssubject) BY <1>1 DEF Text
<1>3. members["Subject"] \in Text BY <1>1 DEF Member, Tag
<1>4. i + 1 + 1 = i + 2 BY <1>2
<1> QED BY <1>1, <1>2, <1>3, <1>4 DEF isspace, Space

\* A character that stays moves the loop on by one.
LEMMA StepKeepCharacter == ASSUME ScanInv, KeepCharacter, UNCHANGED scanVars PROVE ScanInv'
<1>1. /\ InLoop /\ ~(isspace(i) /\ isspace(i + 1)) /\ Kept(ssubject[i + 1])
      /\ Loop(ssubject, i + 1)
  BY DEF KeepCharacter
<1>2. PICK text : text = members["Subject"] OBVIOUS
<1>3. i + 1 \in 0..Len(ssubject) BY <1>1, InTheLoop
<1>4. Reached(ssubject, i + 1, text)
  <2>1. /\ text \in Text /\ ssubject \in Text /\ i \in Nat /\ i < Len(ssubject)
        /\ Reached(ssubject, i, text)
        /\ i + 1 < Len(ssubject) => ~(Space(ssubject[i + 1]) /\ Space(ssubject[i + 2]))
    BY <1>1, <1>2, InTheLoop, Zenon
  <2> QED BY <2>1, <1>1, TrackKeep
<1> QED BY <1>1, <1>2, <1>3, <1>4, InTheLoop, LoopStep, Zenon

\* What an erasure leaves keeps track of the text, from the place where the loop goes on.
LEMMA EraseStep ==
    ASSUME ScanInv, InLoop, UNCHANGED scanVars, NEW back \in Nat, Loop(Erased, back),
           \/ ~Kept(ssubject[i + 1]) /\ back = (IF i > 0 THEN i - 1 ELSE 0)
           \/ isspace(i) /\ isspace(i + 1) /\ back = i
    PROVE  ScanInv'
<1>1. PICK text : text = members["Subject"] OBVIOUS
<1>2. PICK s : s = ssubject OBVIOUS
<1>3. PICK n : n = i OBVIOUS
<1>4. /\ s \in Text /\ Len(s) \in Nat /\ n \in Nat /\ n < Len(s) /\ n + 1 \in 1..Len(s)
      /\ text \in Text /\ Reached(s, n, text)
      /\ isspace(i) => Space(s[n + 1])
      /\ isspace(i + 1) => n + 1 < Len(s) /\ Space(s[n + 2])
  BY <1>1, <1>2, <1>3, InTheLoop, Zenon
<1>5. PICK t : t = RemoveAt(s, n + 1) OBVIOUS
<1>6. /\ t \in Text /\ Len(t) = Len(s) - 1
      /\ \A k \in 1..Len(s) - 1 : t[k] = IF k < n + 1 THEN s[k] ELSE s[k + 1]
  BY <1>4, <1>5, RemovedCharacter, Zenon
<1>7. \/ ~Kept(s[n + 1]) /\ back = (IF n > 0 THEN n - 1 ELSE 0)
      \/ n + 1 < Len(s) /\ Space(s[n + 1]) /\ Space(s[n + 2]) /\ back = n
  BY <1>2, <1>3, <1>4, Zenon
<1>8. Reached(t, back, text) BY <1>4, <1>6, <1>7, TrackErase
<1>9. back \in 0..Len(t) BY <1>4, <1>6, <1>7
<1>10. Loop(t, back) BY <1>2, <1>3, <1>5, Zenon DEF Erased
<1>11. normalising BY DEF InLoop
<1> QED BY <1>1, <1>6, <1>8, <1>9, <1>10, <1>11, LoopStep, Zenon

\* An erased blank does not stay in the normal form,
LEMMA StepEraseSpace == ASSUME ScanInv, EraseSpace, UNCHANGED scanVars PROVE ScanInv'
<1>1. InLoop /\ isspace(i) /\ isspace(i + 1) /\ Loop(Erased, i) BY DEF EraseSpace
<1>2. i \in Nat BY <1>1, InTheLoop
<1> QED BY <1>1, <1>2, EraseStep

\* nor does any other character that is erased.
LEMMA StepEraseOther == ASSUME ScanInv, EraseOther, UNCHANGED scanVars PROVE ScanInv'
<1>1. InLoop /\ ~Kept(ssubject[i + 1]) /\ Loop(Erased, IF i > 0 THEN i - 1 ELSE 0)
  BY DEF EraseOther, AtOther
<1>2. PICK back : back = IF i > 0 THEN i - 1 ELSE 0 OBVIOUS
<1>3. back \in Nat
  <2>1. i \in Nat BY <1>1, InTheLoop
  <2> QED BY <2>1, <1>2
<1>4. Loop(Erased, back) BY <1>1, <1>2
<1> QED BY <1>1, <1>2, <1>3, <1>4, EraseStep

\* The loop has reached the end: what is left is the normal form.
LEMMA StepNormalised == ASSUME ScanInv, Normalised, UNCHANGED scanVars PROVE ScanInv'
<1>1. /\ normalising /\ i >= Len(ssubject)
      /\ normal_subject' = ssubject /\ normalising' = FALSE
      /\ UNCHANGED <<cfg, entries, members, ssubject, i, result>>
      /\ UNCHANGED <<header, pos, start, newline, field>>
  BY DEF Normalised, scanVars
<1>2. /\ ssubject \in Text /\ i \in 0..Len(ssubject) /\ members \in [Member -> Text]
      /\ Reached(ssubject, i, members["Subject"])
  BY <1>1, Zenon DEF ScanInv, ScanTypes, TypeOK, HeaderTypeOK, Normalising, Text
<1>3. IsNormalForm(ssubject, members["Subject"])
  <2>1. PICK text : text = members["Subject"] OBVIOUS
  <2>2. text \in Text BY <2>1, <1>2 DEF Member, Tag
  <2>3. i = Len(ssubject)
    <3>1. Len(ssubject) \in Nat BY <1>2 DEF Text
    <3> QED BY <3>1, <1>1, <1>2
  <2>4. Reached(ssubject, Len(ssubject), text) BY <2>1, <2>3, <1>2
  <2> QED BY <2>1, <2>2, <2>4, <1>2, TrackEnd, Zenon
<1>4. ScanTypes'
  <2>1. HeaderTypeOK' BY <1>1 DEF ScanInv, ScanTypes, TypeOK, HeaderTypeOK
  <2> QED BY <2>1, <1>1 DEF ScanInv, ScanTypes, TypeOK, Ahead
<1>5. Accounted(header, Taken, pos)' BY <1>1, Zenon DEF ScanInv, Taken
<1>6. (result # "failed" => Stored(entries, members, cfg))' BY <1>1, Zenon DEF ScanInv
<1>7. Normalising' BY <1>1, <1>3, Zenon DEF Normalising
<1>8. (result = "ok" => field = NoField /\ ~Ahead)' BY <1>1, Zenon DEF ScanInv, Ahead
<1> QED BY <1>4, <1>5, <1>6, <1>7, <1>8, Zenon DEF ScanInv
----------------------------------------------------------------------------
(***************************************************************************)
(* The theorems.                                                           *)
(***************************************************************************)
LEMMA InitScanInv == ASSUME Init PROVE ScanInv
<1>1. /\ cfg \in Configs /\ entries = <<>> /\ members = [t \in Member |-> <<>>]
      /\ normal_subject = <<>> /\ ssubject = <<>> /\ i = 0 /\ normalising = FALSE
      /\ result = "none" /\ header \in Answers
      /\ pos = 1 /\ start = "INITIAL" /\ newline = FALSE /\ field = NoField
  BY DEF Init, HeaderInit
<1>2. Len(header) \in Nat \ {0} /\ Last(header).kind = "dot" BY <1>1, HeaderLines
<1>3. ScanTypes
  <2>1. HeaderTypeOK
    <3>1. <<>> \in Seq(Char) /\ <<>> \in Seq([tag : Tag, body : Seq(Char), lines : Seq(Nat)])
          /\ 0 \in 0..Len(<<>>)
      OBVIOUS
    <3>2. members \in [Member -> Seq(Char)] BY <3>1, <1>1, Zenon
    <3> QED BY <3>1, <3>2, <1>1, Zenon DEF HeaderTypeOK
  <2>2. pos \in 1..Len(header) + 1 BY <1>1, <1>2
  <2> QED BY <1>1, <1>2, <2>1, <2>2 DEF ScanTypes, TypeOK
<1>4. Accounted(header, Taken, pos)
  <2>1. PICK es : es = Taken OBVIOUS
  <2>2. DOMAIN es = {} BY <2>1, <1>1 DEF Taken
  <2>3. \A p \in 1..pos - 1 : FALSE BY <1>1
  <2>4. Accounted(header, es, pos) BY <2>2, <2>3, Zenon DEF Accounted, Ordered
  <2> QED BY <2>1, <2>4
<1>5. Stored(entries, members, cfg)
  <2>1. PICK es : es = entries OBVIOUS
  <2>2. DOMAIN es = {} BY <2>1, <1>1
  <2>3. \A t \in Member : LastBodyOf(es, t) = <<>> BY <2>2 DEF LastBodyOf
  <2>4. \A t \in Member : members[t] = <<>> BY <1>1, Zenon
  <2>5. Stored(es, members, cfg) BY <2>2, <2>3, <2>4, Zenon DEF Stored
  <2> QED BY <2>1, <2>5
<1>6. Normalising
  <2>1. PICK text : text = normal_subject OBVIOUS
  <2>2. text = <<>> /\ text \in Text /\ Len(text) = 0 BY <2>1, <1>1 DEF Text
  <2>3. Reached(text, Len(text), text) BY <2>2, TrackStart
  <2>4. IsNormalForm(text, text) BY <2>2, <2>3, TrackEnd
  <2>5. members["Subject"] = text BY <2>2, <1>1 DEF Member, Tag
  <2> QED BY <2>1, <2>4, <2>5, <1>1, Zenon DEF Normalising
<1> QED BY <1>1, <1>3, <1>4, <1>5, <1>6, Zenon DEF ScanInv

\* Every step preserves the invariant.
LEMMA NextScanInv == ASSUME ScanInv, [Next]_vars PROVE ScanInv'
<1>1. ASSUME Scan PROVE ScanInv'
  BY <1>1, StepReduce, StepTagAndBody, StepTagAlone, StepTagGoesOn, StepBodyFromNextLine,
     StepContinue, StepSyntaxError, StepSkipJunk, StepHeaderEnd, StepEndOfInput, Zenon DEF Scan
<1>2. ASSUME Normalise, UNCHANGED scanVars PROVE ScanInv'
  BY <1>2, StepEraseSpace, StepEraseOther, StepKeepCharacter, StepNormalised, Zenon DEF Normalise
<1>3. ASSUME UNCHANGED vars PROVE ScanInv'
  <2>1. /\ UNCHANGED <<cfg, entries, members, normal_subject, ssubject, i, normalising, result>>
        /\ UNCHANGED <<header, pos, start, newline, field>>
    BY <1>3 DEF vars, headerVars, scanVars
  <2>2. ScanTypes' BY <2>1 DEF ScanInv, ScanTypes, TypeOK, HeaderTypeOK, Ahead
  <2>3. Accounted(header, Taken, pos)' BY <2>1, Zenon DEF ScanInv, Taken
  <2>4. (result # "failed" => Stored(entries, members, cfg))' BY <2>1, Zenon DEF ScanInv
  <2>5. Normalising' BY <2>1, Zenon DEF ScanInv, Normalising
  <2>6. (result = "ok" => field = NoField /\ ~Ahead)' BY <2>1, Zenon DEF ScanInv, Ahead
  <2> QED BY <2>2, <2>3, <2>4, <2>5, <2>6, Zenon DEF ScanInv
<1> QED BY <1>1, <1>2, <1>3, Zenon DEF Next

\* The types, among them that the index of the loop never leaves the text.
THEOREM HeaderTypes == Spec => []TypeOK
<1>1. Init => ScanInv BY InitScanInv
<1>2. ScanInv /\ [Next]_vars => ScanInv' BY NextScanInv
<1>3. ScanInv => TypeOK BY DEF ScanInv, ScanTypes
<1> QED BY <1>1, <1>2, <1>3, PTL DEF Spec

\* The invariant holds in every state.
LEMMA ScanInvariance == Spec => []ScanInv
<1>1. Init => ScanInv BY InitScanInv
<1>2. ScanInv /\ [Next]_vars => ScanInv' BY NextScanInv
<1> QED BY <1>1, <1>2, PTL DEF Spec

\* No line of a header that is parsed is used twice or out of order, and none that
\* a rule could want is lost.
THEOREM LinesAccountedFor == Spec => []EveryLineKept
<1>1. ScanInv => EveryLineKept
  <2> SUFFICES ASSUME ScanInv, result = "ok"
               PROVE  Ordered(entries) /\ Covers(entries, DOMAIN header)
    BY DEF EveryLineKept
  <2>1. Taken = entries /\ ~Ahead /\ ScanTypes /\ Accounted(header, entries, pos)
    BY Zenon DEF ScanInv, Taken
  <2>2. DOMAIN header = 1..pos - 1
    <3>1. pos \in 1..Len(header) + 1 /\ ~(pos <= Len(header)) /\ header \in Answers
      BY <2>1 DEF ScanTypes, TypeOK, Ahead
    <3>2. Len(header) \in Nat BY <3>1, HeaderLines
    <3>3. DOMAIN header = 1..Len(header)
      <4>1. header \in Seq(HeaderLine) BY <3>1, AnswersAssumption, Zenon DEF HeaderLine, Text
      <4> QED BY <4>1
    <3> QED BY <3>1, <3>2, <3>3
  <2>3. Covers(entries, 1..pos - 1)
    <3>1. \A p \in 1..pos - 1 :
              header[p].kind \in {"field", "empty", "cont", "from"} =>
                  \E k \in DOMAIN entries :
                      \E m \in DOMAIN entries[k].lines : entries[k].lines[m] = p
      BY <2>1, Zenon DEF Accounted
    <3> QED BY <3>1 DEF Covers, ToSet
  <2> QED BY <2>1, <2>2, <2>3, Zenon DEF Accounted
<1> QED BY <1>1, ScanInvariance, PTL

\* The members of Header are those of the last field of their names, and the loop that edits
\* the subject in place leaves the normal form of the last subject.
THEOREM LastFieldCounts == Spec => []MembersAreLast
<1>1. ScanInv /\ result = "ok" => \A t \in Member : members[t] = LastOf(t)
  <2> SUFFICES ASSUME ScanInv, result = "ok", NEW t \in Member
               PROVE  members[t] = LastOf(t)
    OBVIOUS
  <2>1. members[t] = LastBodyOf(entries, t) BY DEF ScanInv, Stored
  <2> QED BY <2>1, Zenon DEF LastOf, LastBodyOf
<1>2. ScanInv /\ result = "ok" /\ cfg.normal => IsNormalForm(normal_subject, members["Subject"])
  <2> SUFFICES ASSUME ScanInv, result = "ok", cfg.normal
               PROVE  IsNormalForm(normal_subject, members["Subject"])
    OBVIOUS
  <2>1. ~normalising BY DEF ScanInv, Normalising
  <2> QED BY <2>1, Zenon DEF ScanInv, Normalising
<1>3. "Subject" \in Member BY DEF Member, Tag
<1>4. ScanInv => MembersAreLast
  <2> SUFFICES ASSUME ScanInv, result = "ok"
               PROVE  /\ \A t \in Member : members[t] = LastOf(t)
                      /\ cfg.normal => IsNormalForm(normal_subject, LastOf("Subject"))
    BY DEF MembersAreLast
  <2>1. \A t \in Member : members[t] = LastOf(t) BY <1>1
  <2>2. members["Subject"] = LastOf("Subject") BY <1>3, <2>1
  <2> QED BY <1>2, <2>1, <2>2, Zenon
<1> QED BY <1>4, ScanInvariance, PTL

----------------------------------------------------------------------------
(***************************************************************************)
(* The end comes nearer with every step.                                   *)
(***************************************************************************)

\* One component of the measure goes down and those before it stay.
LEMMA NearerAt ==
    ASSUME NEW s, NEW t, NEW k \in DOMAIN s, s[k] \in 0..t[k] - 1,
           \A j \in 1..k - 1 : s[j] = t[j]
    PROVE  Nearer(s, t)
  BY Zenon DEF Nearer

\* The scanner goes on behind the line at hand.
LEMMA LineBehind ==
    ASSUME ScanInv, Scanning, Ahead, UNCHANGED <<headerVars, header>>,
           pos' \in pos + 1..Len(header) + 1
    PROVE  Nearer(Remaining', Remaining)
<1>1. pos \in 1..Len(header) /\ Len(header) \in Nat BY AtLine
<1>2. PICK s : s = Remaining' OBVIOUS
<1>3. PICK t : t = Remaining OBVIOUS
<1>4. 2 \in DOMAIN s /\ s[1] = t[1] /\ s[2] = Len(header) + 1 - pos' /\ t[2] = Len(header) + 1 - pos
  BY <1>2, <1>3 DEF Remaining, headerVars
<1>5. s[2] \in 0..t[2] - 1 BY <1>1, <1>4
<1>6. \A j \in 1..2 - 1 : s[j] = t[j] BY <1>4
<1> QED BY <1>2, <1>3, <1>4, <1>5, <1>6, NearerAt, Zenon

\* The scan ends.
LEMMA ScanEnds ==
    ASSUME Scanning, result' # "none"
    PROVE  Nearer(Remaining', Remaining)
<1>1. PICK s : s = Remaining' OBVIOUS
<1>2. PICK t : t = Remaining OBVIOUS
<1>3. 1 \in DOMAIN s /\ s[1] = 0 /\ t[1] = 1 BY <1>1, <1>2 DEF Remaining, Scanning
<1>4. s[1] \in 0..t[1] - 1 /\ \A j \in 1..1 - 1 : s[j] = t[j] BY <1>3
<1> QED BY <1>1, <1>2, <1>3, <1>4, NearerAt, Zenon

\* The parser's stack is emptied.
LEMMA StackEmptied ==
    ASSUME field # NoField, field' = NoField, UNCHANGED <<header, pos, result>>
    PROVE  Nearer(Remaining', Remaining)
<1>1. PICK s : s = Remaining' OBVIOUS
<1>2. PICK t : t = Remaining OBVIOUS
<1>3. 3 \in DOMAIN s /\ s[1] = t[1] /\ s[2] = t[2] /\ s[3] = 0 /\ t[3] = 1
  BY <1>1, <1>2 DEF Remaining
<1>4. s[3] \in 0..t[3] - 1 /\ \A j \in 1..3 - 1 : s[j] = t[j] BY <1>3
<1> QED BY <1>1, <1>2, <1>3, <1>4, NearerAt, Zenon

\* The loop is left.
LEMMA LoopLeft ==
    ASSUME normalising, ~normalising', UNCHANGED <<result, scanVars>>
    PROVE  Nearer(Remaining', Remaining)
<1>1. PICK s : s = Remaining' OBVIOUS
<1>2. PICK t : t = Remaining OBVIOUS
<1>3. 4 \in DOMAIN s /\ s[1] = t[1] /\ s[2] = t[2] /\ s[3] = t[3] /\ s[4] = 0 /\ t[4] = 1
  BY <1>1, <1>2 DEF Remaining, scanVars
<1>4. s[4] \in 0..t[4] - 1 /\ \A j \in 1..4 - 1 : s[j] = t[j] BY <1>3
<1> QED BY <1>1, <1>2, <1>3, <1>4, NearerAt, Zenon

\* In the loop the index may go back by one, when the text has lost a character.
LEMMA LoopGoesOn ==
    ASSUME NEW s \in Text, NEW k \in 0..Len(s), Loop(s, k), UNCHANGED scanVars,
           i \in Nat, Len(ssubject) \in Nat, 2 * Len(s) - k < 2 * Len(ssubject) - i
    PROVE  Nearer(Remaining', Remaining)
<1>1. PICK u : u = Remaining' OBVIOUS
<1>2. PICK t : t = Remaining OBVIOUS
<1>3. /\ 5 \in DOMAIN u /\ u[1] = t[1] /\ u[2] = t[2] /\ u[3] = t[3] /\ u[4] = t[4]
      /\ u[5] = 2 * Len(s) - k /\ t[5] = 2 * Len(ssubject) - i
  BY <1>1, <1>2 DEF Remaining, scanVars, Loop
<1>4. u[5] \in 0..t[5] - 1
  <2>1. Len(s) \in Nat BY DEF Text
  <2> QED BY <2>1, <1>3
<1>5. \A j \in 1..5 - 1 : u[j] = t[j] BY <1>3
<1> QED BY <1>1, <1>2, <1>3, <1>4, <1>5, NearerAt, Zenon

\* Every step of the loop is such a step.
LEMMA LoopNearer ==
    ASSUME ScanInv, Normalise, UNCHANGED scanVars
    PROVE  Nearer(Remaining', Remaining)
<1>1. ASSUME InLoop, NEW k \in Nat, Loop(Erased, k), k = i \/ (k = IF i > 0 THEN i - 1 ELSE 0),
             k <= Len(ssubject) - 1
      PROVE  Nearer(Remaining', Remaining)
  <2>1. /\ ssubject \in Text /\ Len(ssubject) \in Nat /\ i \in Nat /\ i < Len(ssubject)
        /\ i + 1 \in 1..Len(ssubject)
    BY <1>1, InTheLoop
  <2>2. PICK s : s = Erased OBVIOUS
  <2>3. s \in Text /\ Len(s) = Len(ssubject) - 1
    BY <2>1, <2>2, RemovedCharacter, Zenon DEF Erased
  <2>4. k \in 0..Len(s) /\ 2 * Len(s) - k < 2 * Len(ssubject) - i
    BY <1>1, <2>1, <2>3
  <2> QED BY <1>1, <2>1, <2>2, <2>3, <2>4, LoopGoesOn
<1>2. CASE EraseSpace
  <2>1. InLoop /\ Loop(Erased, i) BY <1>2 DEF EraseSpace
  <2>2. i \in Nat /\ i <= Len(ssubject) - 1 BY <2>1, InTheLoop
  <2> QED BY <2>1, <2>2, <1>1
<1>3. CASE EraseOther
  <2>1. PICK k : k = IF i > 0 THEN i - 1 ELSE 0 OBVIOUS
  <2>2. InLoop /\ Loop(Erased, k) BY <1>3, <2>1 DEF EraseOther, AtOther
  <2>3. k \in Nat /\ k <= Len(ssubject) - 1
    <3>1. i \in Nat /\ Len(ssubject) \in Nat /\ i < Len(ssubject) BY <2>2, InTheLoop
    <3> QED BY <3>1, <2>1
  <2> QED BY <2>1, <2>2, <2>3, <1>1
<1>4. CASE KeepCharacter
  <2>1. InLoop /\ Loop(ssubject, i + 1) BY <1>4 DEF KeepCharacter
  <2>2. /\ ssubject \in Text /\ Len(ssubject) \in Nat /\ i \in Nat /\ i + 1 \in 0..Len(ssubject)
        /\ 2 * Len(ssubject) - (i + 1) < 2 * Len(ssubject) - i
    BY <2>1, InTheLoop
  <2> QED BY <2>1, <2>2, LoopGoesOn
<1>5. CASE Normalised BY <1>5, LoopLeft DEF Normalised
<1> QED BY <1>2, <1>3, <1>4, <1>5 DEF Normalise

\* Every step of the scanner leaves a line behind, empties the stack or ends the scan.
LEMMA ScanNearer ==
    ASSUME ScanInv, Scan
    PROVE  Nearer(Remaining', Remaining)
<1>1. ASSUME Scanning, Ahead, Advance(1, FALSE) \/ Advance(1, TRUE), UNCHANGED headerVars
      PROVE  Nearer(Remaining', Remaining)
  <2>1. pos' = pos + 1 /\ header' = header BY <1>1 DEF Advance
  <2>2. pos \in 1..Len(header) /\ Len(header) \in Nat BY <1>1, AtLine
  <2>3. pos' \in pos + 1..Len(header) + 1 BY <2>1, <2>2
  <2> QED BY <1>1, <2>1, <2>3, LineBehind
<1>2. CASE Reduce
  <2>1. /\ Scanning /\ field # NoField /\ field' = NoField /\ UNCHANGED <<header, pos>>
        /\ add_entry(field.tag, field.body, field.lines)
    BY <1>2, Zenon DEF Reduce
  <2>2. result' = "failed" \/ result' = result BY <2>1, Zenon DEF add_entry
  <2> QED BY <2>1, <2>2, ScanEnds, StackEmptied
<1>3. CASE TagAndBody BY <1>3, <1>1 DEF TagAndBody, At, Parser
<1>4. CASE TagAlone BY <1>4, <1>1 DEF TagAlone, At, Parser
<1>5. start = "BODY_READY" => Ahead BY DEF ScanInv, ScanTypes, TypeOK
<1>6. CASE TagGoesOn BY <1>6, <1>5, <1>1 DEF TagGoesOn
<1>7. CASE BodyFromNextLine BY <1>7, <1>5, <1>1 DEF BodyFromNextLine, Parser
<1>8. CASE Continue BY <1>8, <1>1 DEF Continue, AtContinuation, At, Parser
<1>9. CASE SkipJunk BY <1>9, <1>1 DEF SkipJunk, At
<1>10. CASE HeaderEnd
  <2>1. /\ Scanning /\ Ahead
        /\ Line.kind = "blank" => header[pos + 1].kind = "dot"
        /\ UNCHANGED <<headerVars, header>>
        /\ pos' = pos + (IF Line.kind = "blank" THEN 2 ELSE 1)
    BY <1>10 DEF HeaderEnd, AtHeaderEnd, At, Advance
  <2>2. pos \in 1..Len(header) /\ Len(header) \in Nat /\ (Line.kind = "dot" <=> pos = Len(header))
    BY <2>1, AtLine
  <2>3. pos' \in pos + 1..Len(header) + 1 BY <2>1, <2>2
  <2> QED BY <2>1, <2>3, LineBehind
<1>11. CASE SyntaxError
  BY <1>11, ScanEnds DEF SyntaxError, AtContinuation, At, rfcerror
<1>12. CASE EndOfInput
  BY <1>12, ScanEnds DEF EndOfInput
<1> QED BY <1>2, <1>3, <1>4, <1>6, <1>7, <1>8, <1>9, <1>10, <1>11, <1>12, Zenon DEF Scan

\* The scan and the loop come to their end.
THEOREM HeaderEndsInSight == Spec => EndsInSight
<1>1. ScanInv /\ [Next]_vars => [Nearer(Remaining', Remaining)]_vars
  BY ScanNearer, LoopNearer, Zenon DEF Next
<1> QED BY <1>1, ScanInvariance, PTL DEF Spec, EndsInSight
----------------------------------------------------------------------------
(***************************************************************************)
(* The unfolding of a header.                                              *)
(***************************************************************************)

\* What a line brings is a text.
LEMMA BodyTexts ==
    ASSUME header \in Answers, NEW r \in 1..Len(header)
    PROVE  /\ BodyText(header, r) \in Text /\ Len(BodyText(header, r)) \in Nat
           /\ DOMAIN BodyText(header, r) = 1..Len(BodyText(header, r))
<1>1. header[r] \in HeaderLine
  <2>1. header \in Seq(HeaderLine) BY AnswersAssumption, Zenon DEF HeaderLine, Text
  <2> QED BY <2>1
<1>2. header[r].text \in Text BY <1>1 DEF HeaderLine
<1>3. <<>> \in Text BY DEF Text
<1>4. BodyText(header, r) \in Text BY <1>2, <1>3, Zenon DEF BodyText
<1>5. PICK t \in Text : t = BodyText(header, r) BY <1>4
<1>6. Len(t) \in Nat /\ DOMAIN t = 1..Len(t) BY DEF Text
<1> QED BY <1>4, <1>5, <1>6, Zenon

\* The first line of a field brings its text to an empty body.
LEMMA HoldsOne ==
    ASSUME NEW h, NEW q \in Nat, NEW n \in Nat, Len(BodyText(h, q)) = n,
           DOMAIN BodyText(h, q) = 1..n
    PROVE  Unfolds(h, q, q, BodyText(h, q))
<1>1. PICK b : b = BodyText(h, q) OBVIOUS
<1> DEFINE at == [r \in q..q |-> 0]
<1>2. at \in [q..q -> 0..n] OBVIOUS
<1>3. \A r \in q..q : r = q /\ at[r] = 0 OBVIOUS
<1> HIDE DEF at
<1>4. q \in q..q OBVIOUS
<1>5. \A k \in 1..n : 0 + k = k /\ k \in 0 + 1..0 + n OBVIOUS
<1>6. \A r \in q..q :
          /\ at[r] + Len(BodyText(h, r)) <= Len(b)
          /\ \A k \in DOMAIN BodyText(h, r) : Alike(b[at[r] + k], BodyText(h, r)[k])
          /\ ~(r < q)
  <2> TAKE r \in q..q
  <2>1. r = q /\ at[r] = 0 BY <1>3
  <2>2. 0 + n <= n /\ ~(q < q) OBVIOUS
  <2>3. at[r] + Len(BodyText(h, r)) <= Len(b) BY <2>1, <2>2, <1>1
  <2>4. ASSUME NEW k \in DOMAIN BodyText(h, r) PROVE Alike(b[at[r] + k], BodyText(h, r)[k])
    <3>1. at[r] + k = k BY <2>1, <1>5
    <3> QED BY <3>1, <2>1, <1>1 DEF Alike
  <2> QED BY <2>1, <2>2, <2>3, <2>4
<1>7. \A j \in DOMAIN b : \E r \in q..q : j \in at[r] + 1..at[r] + Len(BodyText(h, r))
  <2> TAKE j \in DOMAIN b
  <2>1. j \in at[q] + 1..at[q] + Len(BodyText(h, q)) BY <1>1, <1>3, <1>4, <1>5
  <2> QED BY <2>1, <1>4
<1>8. Holds(h, q, q, b, at) BY <1>6, <1>7, Zenon DEF Holds
<1>9. Len(b) = n BY <1>1
<1> QED BY <1>1, <1>2, <1>8, <1>9, Zenon DEF Unfolds

\* The line q brings its text, of length m, to a body b of length n, behind l white
\* characters if there is something to keep it apart from: c is the new body, of length e.
Brings(h, p, q, b, n, l, m, c, e) ==
    /\ p \in Nat /\ q \in Nat /\ p < q
    /\ n \in Nat /\ l \in Nat /\ m \in Nat /\ e \in Nat
    /\ Len(b) = n /\ DOMAIN b = 1..n /\ Unfolds(h, p, q - 1, b)
    /\ \A r \in p..q : BodyText(h, r) \in Text
    /\ m = Len(BodyText(h, q))
    /\ l > 0 \/ n = 0
    /\ Len(c) = e /\ DOMAIN c = 1..e /\ n + l + m <= e
    /\ \A j \in 1..n : c[j] = b[j]
    /\ \A j \in n + 1..n + l : Space(c[j])
    /\ \A k \in 1..m : Alike(c[n + l + k], BodyText(h, q)[k])
    /\ \A j \in n + l + m + 1..e : Space(c[j])

\* The new body holds the lines up to q.
LEMMA HoldsOn ==
    ASSUME NEW h, NEW p, NEW q, NEW b, NEW n, NEW l, NEW m, NEW c, NEW e,
           Brings(h, p, q, b, n, l, m, c, e)
    PROVE  Unfolds(h, p, q, c)
<1>a. p \in Nat /\ q \in Nat /\ p < q /\ n \in Nat /\ l \in Nat /\ m \in Nat /\ e \in Nat
  BY DEF Brings
<1>b. /\ Len(b) = n /\ DOMAIN b = 1..n /\ Unfolds(h, p, q - 1, b)
      /\ m = Len(BodyText(h, q)) /\ (l > 0 \/ n = 0)
      /\ Len(c) = e /\ DOMAIN c = 1..e /\ n + l + m <= e
  BY DEF Brings
<1>c. /\ \A r \in p..q : BodyText(h, r) \in Text
      /\ \A j \in 1..n : c[j] = b[j]
      /\ \A j \in n + 1..n + l : Space(c[j])
      /\ \A k \in 1..m : Alike(c[n + l + k], BodyText(h, q)[k])
      /\ \A j \in n + l + m + 1..e : Space(c[j])
  BY Zenon DEF Brings
<1> USE <1>a, <1>b, <1>c
<1>0. \A r \in p..q :
          /\ Len(BodyText(h, r)) \in Nat /\ DOMAIN BodyText(h, r) = 1..Len(BodyText(h, r))
          /\ BodyText(h, r) # <<>> => Len(BodyText(h, r)) > 0
  <2>1. \A t \in Text : Len(t) \in Nat /\ DOMAIN t = 1..Len(t) /\ (t # <<>> => Len(t) > 0)
    BY DEF Text
  <2> QED BY <2>1, Zenon
<1>1. PICK at \in [p..q - 1 -> 0..n] : Holds(h, p, q - 1, b, at) BY Zenon DEF Unfolds
<1> DEFINE to == [r \in p..q |-> IF r = q THEN n + l ELSE at[r]]
<1>2. \A r \in p..q : r = q \/ (r \in p..q - 1 /\ r # q) OBVIOUS
<1>3. \A r \in p..q - 1 : r \in p..q /\ r # q /\ at[r] \in 0..n OBVIOUS
<1>4. q \in p..q OBVIOUS
<1>5. to[q] = n + l /\ \A r \in p..q - 1 : to[r] = at[r] BY <1>3, <1>4
<1>6. to \in [p..q -> 0..e]
  <2>1. \A r \in p..q : (IF r = q THEN n + l ELSE at[r]) \in 0..e
    <3>1. n + l \in 0..e /\ \A x \in 0..n : x \in 0..e OBVIOUS
    <3> QED BY <3>1, <1>2, <1>3
  <2> QED BY <2>1
<1> HIDE DEF to
<1>7. ASSUME NEW r \in p..q - 1
      PROVE  /\ to[r] \in 0..n /\ to[r] + Len(BodyText(h, r)) <= n
             /\ \A k \in DOMAIN BodyText(h, r) : Alike(b[to[r] + k], BodyText(h, r)[k])
             /\ r < q - 1 => Apart(h, r, to[r], to[r + 1])
  <2>1. to[r] = at[r] /\ at[r] \in 0..n BY <1>3, <1>5
  <2>2. r < q - 1 => to[r + 1] = at[r + 1]
    <3>1. r < q - 1 => r + 1 \in p..q - 1 OBVIOUS
    <3> QED BY <3>1, <1>5
  <2>3. /\ at[r] + Len(BodyText(h, r)) <= Len(b)
        /\ \A k \in DOMAIN BodyText(h, r) : Alike(b[at[r] + k], BodyText(h, r)[k])
        /\ r < q - 1 => Apart(h, r, at[r], at[r + 1])
    BY <1>1, Zenon DEF Holds
  <2> QED BY <2>1, <2>2, <2>3
<1>8. ASSUME NEW r \in p..q
      PROVE  /\ to[r] + Len(BodyText(h, r)) <= Len(c)
             /\ \A k \in DOMAIN BodyText(h, r) : Alike(c[to[r] + k], BodyText(h, r)[k])
             /\ r < q => Apart(h, r, to[r], to[r + 1])
  <2>1. CASE r = q
    <3>1. to[r] + Len(BodyText(h, r)) <= Len(c) BY <2>1, <1>5
    <3>2. \A k \in DOMAIN BodyText(h, r) : Alike(c[to[r] + k], BodyText(h, r)[k])
      BY <2>1, <1>0, <1>4, <1>5
    <3>3. ~(r < q) BY <2>1
    <3> QED BY <3>1, <3>2, <3>3
  <2>2. CASE r \in p..q - 1
    <3>1. PICK x \in 0..n : x = to[r] BY <2>2, <1>7
    <3>2. PICK y \in Nat : y = Len(BodyText(h, r)) BY <1>0
    <3>3. x + y <= n /\ DOMAIN BodyText(h, r) = 1..y BY <2>2, <1>0, <1>7, <3>1, <3>2
    <3>4. to[r] + Len(BodyText(h, r)) <= Len(c) BY <3>1, <3>2, <3>3
    <3>5. ASSUME NEW k \in DOMAIN BodyText(h, r) PROVE Alike(c[to[r] + k], BodyText(h, r)[k])
      <4>1. x + k \in 1..n BY <3>3, SMTT(60)
      <4>2. c[x + k] = b[x + k] BY <4>1
      <4>3. Alike(b[x + k], BodyText(h, r)[k]) BY <2>2, <1>7, <3>1
      <4> QED BY <3>1, <4>2, <4>3
    <3>6. r = q - 1 => Apart(h, r, to[r], to[r + 1])
      <4> HAVE r = q - 1
      <4>1. r + 1 = q /\ to[r + 1] = n + l BY <1>5
      <4>2. x <= n + l OBVIOUS
      <4>3. BodyText(h, r) # <<>> => y > 0 BY <1>0, <3>2
      <4>4. y > 0 => x + y < n + l BY <3>3
      <4> QED BY <4>1, <4>2, <4>3, <4>4, <3>1, <3>2 DEF Apart
    <3>7. r < q => r = q - 1 \/ r < q - 1 OBVIOUS
    <3> QED BY <2>2, <1>7, <3>4, <3>5, <3>6, <3>7
  <2> QED BY <2>1, <2>2, <1>2
<1>9. ASSUME NEW j \in DOMAIN c, ~Space(c[j])
      PROVE  \E r \in p..q : j \in to[r] + 1..to[r] + Len(BodyText(h, r))
  <2>1. \/ j \in 1..n \/ j \in n + 1..n + l
        \/ j \in n + l + 1..n + l + m \/ j \in n + l + m + 1..e
    BY SMTT(60)
  <2>2. CASE j \in 1..n
    <3>1. c[j] = b[j] /\ j \in DOMAIN b BY <2>2
    <3>2. PICK r \in p..q - 1 : j \in at[r] + 1..at[r] + Len(BodyText(h, r))
      BY <1>1, <1>9, <3>1, Zenon DEF Holds
    <3> QED BY <3>2, <1>3, <1>5
  <2>3. CASE j \in n + l + 1..n + l + m BY <2>3, <1>4, <1>5
  <2> QED BY <2>1, <2>2, <2>3, <1>9
<1>10. Holds(h, p, q, c, to) BY <1>8, <1>9, Zenon DEF Holds
<1> QED BY <1>6, <1>10, Zenon DEF Unfolds

\* The text c is u, of length a, and behind it v, of length d.
Joins(u, a, v, d, c) ==
    /\ Len(c) = a + d /\ DOMAIN c = 1..a + d
    /\ \A k \in 1..a : c[k] = u[k]
    /\ \A k \in 1..d : c[a + k] = v[k]

\* One text behind another.
LEMMA JoinedTexts ==
    ASSUME NEW u \in Text, NEW v \in Text
    PROVE  u \o v \in Text /\ Joins(u, Len(u), v, Len(v), u \o v)
<1>1. u \in Seq(Char) /\ v \in Seq(Char) BY DEF Text
<1>2. PICK a \in Nat : a = Len(u) BY <1>1
<1>3. PICK d \in Nat : d = Len(v) BY <1>1
<1>4. PICK c : c = u \o v OBVIOUS
<1>5. /\ c \in Seq(Char) /\ Len(c) = a + d
      /\ \A k \in 1..a + d : c[k] = IF k <= a THEN u[k] ELSE v[k - a]
  BY <1>1, <1>2, <1>3, <1>4, ConcatProperties
<1>6. DOMAIN c = 1..a + d BY <1>5
<1>7. /\ \A k \in 1..a : k \in 1..a + d /\ k <= a
      /\ \A k \in 1..d : a + k \in 1..a + d /\ ~(a + k <= a) /\ (a + k) - a = k
  OBVIOUS
<1>8. (\A k \in 1..a : c[k] = u[k]) /\ (\A k \in 1..d : c[a + k] = v[k]) BY <1>5, <1>7
<1>9. Joins(u, a, v, d, c) BY <1>5, <1>6, <1>8, Zenon DEF Joins
<1> QED BY <1>2, <1>3, <1>4, <1>5, <1>9, Zenon DEF Text

\* The text c is b, of length n, and behind it v: y, of length m, between two times the
\* one character of z.
Between(b, n, y, m, z, v, c) ==
    /\ Joins(b, n, v, m + 2, c)
    /\ v[1] = z[1] /\ v[m + 2] = z[1] /\ \A k \in 1..m : v[1 + k] = y[k]

\* A text y behind a text b, between two texts of one character.
LEMMA FoldedPlaces ==
    ASSUME NEW b \in Text, NEW y \in Text, NEW z \in Text, Len(z) = 1
    PROVE  Between(b, Len(b), y, Len(y), z, z \o y \o z, b \o (z \o y \o z))
<1>n. PICK n : n = Len(b) OBVIOUS
<1>m. PICK m \in Nat : m = Len(y)
  <2>1. Len(y) \in Nat BY DEF Text
  <2> QED BY <2>1
<1>1. z \o y \in Text /\ Joins(z, Len(z), y, Len(y), z \o y) BY JoinedTexts, Zenon
<1>2. PICK u \in Text : u = z \o y BY <1>1, Zenon
<1>3. Joins(z, 1, y, m, u) BY <1>1, <1>2, <1>m, Zenon
<1>4. u \o z \in Text /\ Joins(u, Len(u), z, Len(z), u \o z) BY JoinedTexts, Zenon
<1>5. PICK v \in Text : v = u \o z BY <1>4, Zenon
<1>6. PICK a \in Nat : a = 1 + m OBVIOUS
<1>7. Len(u) = a BY <1>3, <1>6 DEF Joins
<1>8. Joins(u, a, z, 1, v) BY <1>4, <1>5, <1>7, Zenon
<1>9. Len(v) = m + 2 BY <1>6, <1>8 DEF Joins
<1>10. b \o v \in Text /\ Joins(b, Len(b), v, Len(v), b \o v) BY JoinedTexts, Zenon
<1>11. Joins(b, n, v, m + 2, b \o v) BY <1>9, <1>10, <1>n, Zenon
<1>12. v[1] = z[1] /\ v[m + 2] = z[1] /\ \A k \in 1..m : v[1 + k] = y[k]
  <2>1. /\ \A k \in 1..1 : u[k] = z[k]
        /\ \A k \in 1..m : u[1 + k] = y[k]
    BY <1>3, Zenon DEF Joins
  <2>2. /\ \A k \in 1..a : v[k] = u[k]
        /\ \A k \in 1..1 : v[a + k] = z[k]
    BY <1>8, Zenon DEF Joins
  <2>3. 1 \in 1..1 /\ 1 \in 1..a /\ a + 1 = m + 2 /\ \A k \in 1..m : 1 + k \in 1..a BY <1>6
  <2> QED BY <2>1, <2>2, <2>3
<1>13. Between(b, n, y, m, z, v, b \o v) BY <1>11, <1>12, Zenon DEF Between
<1> QED BY <1>2, <1>5, <1>13, <1>n, <1>m, Zenon

\* The text of a line of which y is the folded form, behind a body b: between white space,
\* or as it is when the body is empty.
LEMMA ContinuationHolds ==
    ASSUME header \in Answers, Len(header) \in Nat, NEW p \in Nat, NEW q \in Nat, p < q,
           1 <= p, q <= Len(header), header[q].kind = "cont", NEW b \in Text,
           NEW y \in Text, NEW z \in Text, Len(z) = 1, Space(z[1]),
           Len(y) = Len(header[q].text),
           \A k \in 1..Len(y) : Alike(y[k], header[q].text[k]),
           NEW c, Unfolds(header, p, q - 1, b),
           (b = <<>> /\ c = header[q].text) \/ c = b \o (z \o y \o z)
    PROVE  Unfolds(header, p, q, c)
<1>1. \A r \in p..q : r \in 1..Len(header) OBVIOUS
<1>2. \A r \in p..q : BodyText(header, r) \in Text BY <1>1, BodyTexts
<1>3. q \in p..q OBVIOUS
<1>4. BodyText(header, q) = header[q].text BY DEF BodyText
<1>5. PICK x \in Text : x = header[q].text BY <1>2, <1>3, <1>4
<1>6. PICK n \in Nat : n = Len(b) /\ DOMAIN b = 1..n
  <2>1. Len(b) \in Nat /\ DOMAIN b = 1..Len(b) BY DEF Text
  <2> QED BY <2>1
<1>7. PICK m \in Nat : m = Len(x) /\ DOMAIN x = 1..m
  <2>1. Len(x) \in Nat /\ DOMAIN x = 1..Len(x) BY DEF Text
  <2> QED BY <2>1
<1>8. m = Len(y) /\ \A k \in 1..m : Alike(y[k], x[k]) BY <1>5, <1>7
<1>9. CASE b = <<>> /\ c = x
  <2>1. n = 0 BY <1>6, <1>9
  <2>2. PICK l \in Nat : l = 0 OBVIOUS
  <2>3. \A k \in 1..m : n + l + k = k BY <2>1, <2>2
  <2>4. /\ n + l + m <= m /\ \A j \in 1..n : c[j] = b[j]
        /\ \A j \in n + 1..n + l : Space(c[j])
        /\ \A j \in n + l + m + 1..m : Space(c[j])
    BY <2>1, <2>2
  <2>5. Len(c) = m /\ DOMAIN c = 1..m /\ m = Len(BodyText(header, q)) BY <1>4, <1>5, <1>7, <1>9
  <2>6. \A k \in 1..m : Alike(c[n + l + k], BodyText(header, q)[k])
    BY <2>3, <1>4, <1>5, <1>9 DEF Alike
  <2>7. Brings(header, p, q, b, n, l, m, c, m)
    BY <1>2, <1>6, <1>7, <2>1, <2>4, <2>5, <2>6, Zenon DEF Brings
  <2> QED BY <2>7, HoldsOn, Zenon
<1>10. CASE c = b \o (z \o y \o z)
  <2>1. PICK v : v = z \o y \o z OBVIOUS
  <2>2. /\ Joins(b, n, v, m + 2, c)
        /\ v[1] = z[1] /\ v[m + 2] = z[1] /\ \A k \in 1..m : v[1 + k] = y[k]
    <3>1. Between(b, Len(b), y, Len(y), z, z \o y \o z, b \o (z \o y \o z))
      BY FoldedPlaces, Zenon
    <3>2. Between(b, n, y, m, z, v, c) BY <3>1, <2>1, <1>6, <1>8, <1>10, Zenon
    <3> QED BY <3>2, Zenon DEF Between
  <2>3. PICK e \in Nat : e = n + (m + 2) BY <1>6, <1>7
  <2>4. PICK l \in Nat : l = 1 OBVIOUS
  <2>5. /\ Len(c) = e /\ DOMAIN c = 1..e
        /\ \A j \in 1..n : c[j] = b[j]
        /\ \A k \in 1..m + 2 : c[n + k] = v[k]
    BY <2>2, <2>3, Zenon DEF Joins
  <2>6. /\ 1 \in 1..m + 2 /\ m + 2 \in 1..m + 2
        /\ \A k \in 1..m : 1 + k \in 1..m + 2 /\ n + (1 + k) = n + l + k
        /\ \A j \in n + 1..n + l : j = n + 1
        /\ \A j \in n + l + m + 1..e : j = n + (m + 2)
        /\ n + l + m <= e /\ l > 0
    BY <1>6, <1>7, <2>3, <2>4
  <2>7. c[n + 1] = z[1] /\ c[n + (m + 2)] = z[1] BY <2>2, <2>5, <2>6
  <2>8. \A k \in 1..m : c[n + l + k] = y[k]
    <3> TAKE k \in 1..m
    <3>1. 1 + k \in 1..m + 2 /\ n + (1 + k) = n + l + k BY <2>6
    <3>2. c[n + (1 + k)] = v[1 + k] BY <3>1, <2>5
    <3>3. v[1 + k] = y[k] BY <2>2
    <3> QED BY <3>1, <3>2, <3>3
  <2>9. /\ \A j \in n + 1..n + l : Space(c[j])
        /\ \A j \in n + l + m + 1..e : Space(c[j])
    BY <2>6, <2>7
  <2>10. \A k \in 1..m : Alike(c[n + l + k], BodyText(header, q)[k]) BY <1>4, <1>5, <1>8, <2>8
  <2>11. m = Len(BodyText(header, q)) BY <1>4, <1>5, <1>7
  <2>12. Brings(header, p, q, b, n, l, m, c, e)
    BY <1>2, <1>6, <1>7, <2>3, <2>4, <2>5, <2>6, <2>9, <2>10, <2>11, Zenon DEF Brings
  <2> QED BY <2>12, HoldsOn, Zenon
<1> QED BY <1>5, <1>9, <1>10

\* White space may become a blank.
LEMMA BlanksAlike ==
    ASSUME NEW x \in Text
    PROVE  /\ Blanks(x) \in Text /\ Len(Blanks(x)) = Len(x)
           /\ \A k \in 1..Len(Blanks(x)) : Alike(Blanks(x)[k], x[k])
<1>1. Len(x) \in Nat /\ DOMAIN x = 1..Len(x) /\ \A k \in 1..Len(x) : x[k] \in Char BY DEF Text
<1>2. \A f : f = Blanks(x) => DOMAIN f = 1..Len(x) BY <1>1, Zenon DEF Blanks
<1>3. \A k \in 1..Len(x) : Blanks(x)[k] \in Char /\ Alike(Blanks(x)[k], x[k])
  <2> TAKE k \in 1..Len(x)
  <2>1. Blanks(x)[k] = IF x[k] = "t" THEN " " ELSE x[k] BY <1>1, Zenon DEF Blanks
  <2>2. CASE x[k] = "t"
    <3>1. Blanks(x)[k] = " " BY <2>1, <2>2, Zenon
    <3>2. Space(" ") /\ Space("t") /\ " " \in Char BY Zenon DEF Space, Char
    <3> QED BY <2>2, <3>1, <3>2, Zenon DEF Alike
  <2>3. CASE x[k] # "t"
    <3>1. Blanks(x)[k] = x[k] BY <2>1, <2>3, Zenon
    <3> QED BY <1>1, <3>1, Zenon DEF Alike
  <2> QED BY <2>2, <2>3
<1>4. Blanks(x) \in [1..Len(x) -> Char]
  <2>1. Blanks(x) = [k \in 1..Len(x) |-> Blanks(x)[k]] BY <1>1, Zenon DEF Blanks
  <2> QED BY <2>1, <1>3, Zenon
<1>5. PICK f : f = Blanks(x) OBVIOUS
<1>6. f \in Seq(Char) /\ Len(f) = Len(x) BY <1>1, <1>4, <1>5
<1> QED BY <1>3, <1>5, <1>6, Zenon DEF Text

\* The field e of the header h is made of its lines up to q.
Made(h, e, q) ==
    /\ 1 \in DOMAIN e.lines /\ q \in 1..Len(h) - 1
    /\ e.lines[1] \in FieldLines(h) /\ e.lines[1] <= q
    /\ \A r \in e.lines[1] + 1..q : h[r].kind = "cont"
    /\ \A m \in DOMAIN e.lines : m > 1 => h[e.lines[m]].kind = "cont"
    /\ e.tag = h[e.lines[1]].tag
    /\ Unfolds(h, e.lines[1], q, e.body)

\* The fields es are whole: their last line is the last one before another field.
Unfolded(h, es) ==
    \A k \in DOMAIN es : \E q \in 1..Len(h) - 1 : Made(h, es[k], q) /\ h[q + 1].kind # "cont"

OpenField ==
    field # NoField =>
        /\ Made(header, field, pos - 1)
        /\ start = "BODY_READY" <=> header[pos - 1].kind = "empty"
        /\ start = "BODY_READY" => field.body = <<>>

TidyInv ==
    /\ result # "exit" /\ ~newline
    /\ pos \in 1..Len(header) - 1 \/ pos = Len(header) + 1
    /\ Unfolded(header, entries)
    /\ OpenField
    /\ Ahead /\ header[pos].kind = "cont" => field # NoField
    /\ result = "failed" => entries # <<>> /\ Refused(Last(entries).tag, Last(entries).body)

\* The lines of a tidy header.
LEMMA TidyLines ==
    ASSUME header \in Answers, Tidy
    PROVE  /\ Len(header) \in Nat /\ Len(header) > 2 /\ DOMAIN header = 1..Len(header)
           /\ \A p \in 1..Len(header) - 2 :
                 /\ header[p].kind \in {"field", "empty", "cont"}
                 /\ p = 1 => header[p].kind # "cont"
                 /\ header[p].kind = "empty" => header[p + 1].kind = "cont"
           /\ header[Len(header) - 1].kind = "blank" /\ header[Len(header)].kind = "dot"
           /\ \A p \in 1..Len(header) : header[p] \in HeaderLine
<1>1. header \in Seq(HeaderLine) BY AnswersAssumption, Zenon DEF HeaderLine, Text
<1>2. DOMAIN header = 1..Len(header) BY <1>1
<1>3. Len(header) \in 1..Len(header) BY HeaderLines
<1> QED BY <1>2, <1>3, HeaderLines, Zenon DEF Tidy

\* A field begins with its tag,
LEMMA MadeAtTag ==
    ASSUME NEW h, NEW e, NEW q, q \in 1..Len(h) - 1, Len(h) \in Nat, DOMAIN h = 1..Len(h),
           e.lines = <<q>>, h[q].kind \in {"field", "empty"},
           e.tag = h[q].tag, Unfolds(h, q, q, e.body)
    PROVE  Made(h, e, q)
<1>1. DOMAIN e.lines = {1} /\ e.lines[1] = q OBVIOUS
<1>2. q \in FieldLines(h) BY DEF FieldLines
<1>3. q \in Nat /\ \A r \in q + 1..q : FALSE OBVIOUS
<1>4. q <= q BY <1>3
<1> QED BY <1>1, <1>2, <1>3, <1>4 DEF Made

\* and goes on with continuations.
LEMMA MadeOn ==
    ASSUME NEW h, NEW e \in Entry, NEW f, NEW q, Made(h, e, q - 1), q \in 1..Len(h) - 1,
           Len(h) \in Nat, DOMAIN h = 1..Len(h),
           f.lines = Append(e.lines, q), h[q].kind = "cont",
           f.tag = e.tag, Unfolds(h, e.lines[1], q, f.body)
    PROVE  Made(h, f, q)
<1>1. PICK n \in Nat : n = Len(e.lines) BY LinesOf
<1>2. PICK ls : ls = f.lines OBVIOUS
<1>3. e.lines \in Seq(Nat) /\ DOMAIN e.lines = 1..n BY <1>1, LinesOf
<1>4. q \in Nat OBVIOUS
<1>5. DOMAIN ls = 1..n + 1 /\ ls[n + 1] = q /\ \A m \in 1..n : ls[m] = e.lines[m]
  BY <1>1, <1>2, <1>3, <1>4
<1>6. n >= 1 /\ ls[1] = e.lines[1] /\ 1 \in DOMAIN ls
  <2>1. 1 \in 1..n BY <1>3 DEF Made
  <2> QED BY <2>1, <1>5
<1>7. PICK p \in Nat : p = ls[1] BY <1>3, <1>6
<1>8. p <= q - 1 /\ \A r \in p + 1..q - 1 : h[r].kind = "cont" BY <1>6, <1>7 DEF Made
<1>9. p <= q /\ \A r \in p + 1..q : h[r].kind = "cont"
  <2>1. \A r \in p + 1..q : r = q \/ r \in p + 1..q - 1 BY <1>4
  <2> QED BY <2>1, <1>8, <1>4
<1>10. \A m \in DOMAIN ls : m > 1 => h[ls[m]].kind = "cont"
  <2> TAKE m \in DOMAIN ls
  <2> HAVE m > 1
  <2>1. CASE m = n + 1 BY <2>1, <1>5
  <2>2. CASE m # n + 1
    <3>1. m \in DOMAIN e.lines /\ ls[m] = e.lines[m] BY <2>2, <1>3, <1>5, SMTT(60)
    <3> QED BY <3>1 DEF Made
  <2> QED BY <2>1, <2>2
<1>11. p \in FieldLines(h) /\ f.tag = h[p].tag BY <1>6, <1>7, Zenon DEF Made
<1> QED BY <1>2, <1>6, <1>7, <1>9, <1>10, <1>11, Zenon DEF Made

\* The line at hand in a tidy header.
LEMMA AtTidyLine ==
    ASSUME ScanInv, Tidy, TidyInv, Scanning, Ahead
    PROVE  /\ Len(header) \in Nat /\ DOMAIN header = 1..Len(header)
           /\ Line = header[pos] /\ Line \in HeaderLine /\ ~newline
           /\ pos \in 1..Len(header) - 1
           /\ \/ /\ pos + 1 \in 1..Len(header) - 1 /\ Line.kind \in {"field", "empty", "cont"}
                 /\ Line.kind = "empty" => header[pos + 1].kind = "cont"
              \/ Line.kind = "blank" /\ header[pos + 1].kind = "dot" /\ pos + 1 = Len(header)
<1>1. header \in Answers BY DEF ScanInv, ScanTypes
<1>2. PICK n : n = Len(header) OBVIOUS
<1>3. n \in Nat /\ n > 2 BY <1>1, <1>2, TidyLines
<1>4. pos \in 1..n - 1
  <2>1. pos \in 1..n - 1 \/ pos = n + 1 BY <1>2 DEF TidyInv
  <2>2. pos <= n BY <1>2 DEF Ahead
  <2> QED BY <1>3, <2>1, <2>2
<1>5. pos \in 1..n - 2 \/ pos = n - 1 BY <1>3, <1>4
<1>6. pos + 1 \in 1..n - 1 \/ pos = n - 1 BY <1>3, <1>4
<1>7. CASE pos = n - 1
  <2>1. pos + 1 = n BY <1>3, <1>7
  <2>2. header[pos].kind = "blank" /\ header[pos + 1].kind = "dot" BY <2>1, <1>7, <1>1, <1>2, TidyLines
  <2> QED BY <1>1, <1>2, <1>4, <2>1, <2>2, TidyLines, AtLine DEF TidyInv
<1>8. CASE pos # n - 1
  <2>1. pos \in 1..n - 2 /\ pos + 1 \in 1..n - 1 BY <1>5, <1>6, <1>8
  <2>2. /\ header[pos].kind \in {"field", "empty", "cont"}
        /\ header[pos].kind = "empty" => header[pos + 1].kind = "cont"
    BY <2>1, <1>1, <1>2, TidyLines
  <2> QED BY <1>1, <1>2, <1>4, <2>1, <2>2, TidyLines, AtLine DEF TidyInv
<1> QED BY <1>7, <1>8

\* A line goes to the field on the stack.
LEMMA TidyTaken ==
    ASSUME ScanInv, Tidy, TidyInv, Scanning, Ahead, pos + 1 \in 1..Len(header) - 1,
           Advance(1, FALSE), UNCHANGED headerVars, field' # NoField,
           NEW f, field' = f, Made(header, f, pos),
           start' = "BODY_READY" <=> Line.kind = "empty",
           start' = "BODY_READY" => f.body = <<>>
    PROVE  TidyInv'
<1>1. pos' = pos + 1 /\ newline' = FALSE /\ header' = header /\ UNCHANGED <<entries, result, cfg>>
  BY DEF Advance, headerVars
<1>2. result = "none" /\ Unfolded(header, entries) BY DEF Scanning, TidyInv
<1>3. pos \in Nat BY AtTidyLine
<1>4. pos' - 1 = pos BY <1>1, <1>3
<1>5. OpenField'
  <2>1. Made(header', field', pos' - 1) BY <1>1, <1>4, Zenon
  <2>2. (start' = "BODY_READY") <=> header'[pos' - 1].kind = "empty" BY <1>1, <1>4, Zenon DEF Line
  <2>3. start' = "BODY_READY" => field'.body = <<>> BY Zenon
  <2> QED BY <2>1, <2>2, <2>3 DEF OpenField
<1>6. pos' \in 1..Len(header') - 1 BY <1>1
<1>7. Unfolded(header, entries)' BY <1>1, <1>2, Zenon
<1> QED BY <1>1, <1>2, <1>5, <1>6, <1>7 DEF TidyInv

\* TAG BODY, or a TAG alone, on whose next line the body is.
LEMMA TidyTag ==
    ASSUME ScanInv, Tidy, TidyInv, TagAndBody \/ TagAlone PROVE TidyInv'
<1>1. /\ Scanning /\ Ahead /\ start = "INITIAL" /\ Advance(1, FALSE) /\ UNCHANGED headerVars
      /\ \/ Line.kind = "field" /\ start' = "INITIAL"
            /\ field' = [tag |-> Line.tag, body |-> Line.text, lines |-> <<pos>>]
         \/ Line.kind = "empty" /\ start' = "BODY_READY"
            /\ field' = [tag |-> Line.tag, body |-> <<>>, lines |-> <<pos>>]
  BY DEF TagAndBody, TagAlone, At, Parser
<1>2. PICK f : f = field' OBVIOUS
<1>3. /\ Len(header) \in Nat /\ DOMAIN header = 1..Len(header) /\ Line = header[pos]
      /\ pos \in 1..Len(header) - 1 /\ Line \in HeaderLine /\ pos \in 1..Len(header)
      /\ pos + 1 \in 1..Len(header) - 1
  <2>1. pos + 1 \in 1..Len(header) - 1 BY <1>1, AtTidyLine
  <2> QED BY <2>1, <1>1, AtTidyLine, AtLine
<1>4. f.lines = <<pos>> /\ f.tag = header[pos].tag /\ header[pos].kind \in {"field", "empty"}
  BY <1>1, <1>2, <1>3
<1>5. Unfolds(header, pos, pos, f.body)
  <2>1. header \in Answers BY DEF ScanInv, ScanTypes
  <2>2. f.body = BodyText(header, pos) BY <1>1, <1>2, <1>3 DEF BodyText
  <2>3. pos \in Nat BY <1>3
  <2> QED BY <1>3, <2>1, <2>2, <2>3, BodyTexts, HoldsOne
<1>6. Made(header, f, pos) BY <1>3, <1>4, <1>5, MadeAtTag
<1>7. f # NoField
  <2>1. f.tag \in Tag BY <1>3, <1>4 DEF HeaderLine
  <2> QED BY <2>1 DEF NoField, Tag
<1>8. (start' = "BODY_READY" <=> Line.kind = "empty") /\ (start' = "BODY_READY" => f.body = <<>>)
  BY <1>1, <1>2
<1> QED BY <1>1, <1>2, <1>3, <1>6, <1>7, <1>8, TidyTaken

\* A continuation, of an empty field or of one with a body.
LEMMA TidyGoesOn ==
    ASSUME ScanInv, Tidy, TidyInv, Scanning, Ahead, Line.kind = "cont",
           Advance(1, FALSE), start' = "INITIAL",
           Parser([field EXCEPT !.body = @ \o (IF header[pos - 1].kind = "empty" THEN Line.text
                                              ELSE <<" ">> \o Blanks(Line.text) \o <<" ">>),
                                !.lines = Append(@, pos)])
    PROVE  TidyInv'
<1>1. field # NoField /\ field \in Entry
  <2>1. field # NoField BY DEF TidyInv, Line
  <2> QED BY <2>1, AtLine
<1>2. PICK more : more = IF header[pos - 1].kind = "empty" THEN Line.text
                         ELSE <<" ">> \o Blanks(Line.text) \o <<" ">>
  OBVIOUS
<1>3. PICK f : f = [field EXCEPT !.body = @ \o more, !.lines = Append(@, pos)] OBVIOUS
<1>4. field' = f /\ UNCHANGED headerVars BY <1>2, <1>3, Zenon DEF Parser
<1>5. f.tag = field.tag /\ f.body = field.body \o more /\ f.lines = Append(field.lines, pos)
  BY <1>1, <1>3 DEF Entry
<1>6. /\ Len(header) \in Nat /\ DOMAIN header = 1..Len(header) /\ Line = header[pos]
      /\ pos \in 1..Len(header) - 1 /\ pos \in 1..Len(header)
      /\ pos + 1 \in 1..Len(header) - 1
  <2>1. pos + 1 \in 1..Len(header) - 1 BY AtTidyLine
  <2> QED BY <2>1, AtTidyLine, AtLine
<1>7. Made(header, field, pos - 1) BY <1>1 DEF TidyInv, OpenField
<1>8. /\ field.lines[1] \in 1..Len(header) /\ field.lines[1] <= pos - 1
      /\ Unfolds(header, field.lines[1], pos - 1, field.body)
  BY <1>6, <1>7, Zenon DEF Made, FieldLines
<1>9. \/ field.body = <<>> /\ f.body = header[pos].text
      \/ f.body = field.body \o (<<" ">> \o Blanks(header[pos].text) \o <<" ">>)
  <2>1. CASE header[pos - 1].kind = "empty"
    <3>1. field.body = <<>> BY <1>1, <2>1 DEF TidyInv, OpenField
    <3>2. Line.text \in Seq(Char) BY AtLine DEF HeaderLine, Text
    <3>3. <<>> \o Line.text = Line.text BY <3>2
    <3> QED BY <1>2, <1>5, <1>6, <2>1, <3>1, <3>3, Zenon
  <2>2. CASE header[pos - 1].kind # "empty" BY <1>2, <1>5, <1>6, <2>2, Zenon
  <2> QED BY <2>1, <2>2
<1>10. Unfolds(header, field.lines[1], pos, f.body)
  <2>1. header \in Answers BY DEF ScanInv, ScanTypes
  <2>2. header[pos].kind = "cont" /\ field.body \in Text BY <1>1, <1>6 DEF Entry
  <2>3. PICK p : p = field.lines[1] OBVIOUS
  <2>4. p \in Nat /\ pos \in Nat /\ p < pos /\ 1 <= p /\ pos <= Len(header)
    BY <1>6, <1>8, <2>3
  <2>5. PICK z \in Text : z = <<" ">> /\ Len(z) = 1 /\ Space(z[1])
    <3>1. \A w : Len(<<w>>) = 1 /\ <<w>>[1] = w OBVIOUS
    <3>2. Space(" ") /\ <<" ">> \in Text
      <4>1. Space(" ") BY Zenon DEF Space
      <4> QED BY <4>1, <1>6, AtLine, LineTexts, Zenon
    <3> QED BY <3>1, <3>2, Zenon
  <2>6. header[pos].text \in Text BY <1>6, AtLine DEF HeaderLine
  <2>7. PICK y \in Text : /\ y = Blanks(header[pos].text) /\ Len(y) = Len(header[pos].text)
                          /\ \A k \in 1..Len(y) : Alike(y[k], header[pos].text[k])
    BY <2>6, BlanksAlike, Zenon
  <2>8. (field.body = <<>> /\ f.body = header[pos].text) \/ f.body = field.body \o (z \o y \o z)
    BY <1>9, <2>5, <2>7, Zenon
  <2>9. Unfolds(header, p, pos - 1, field.body) BY <1>8, <2>3, Zenon
  <2>10. Unfolds(header, p, pos, f.body)
    BY <1>6, <2>1, <2>2, <2>4, <2>5, <2>6, <2>7, <2>8, <2>9, ContinuationHolds
  <2> QED BY <2>3, <2>10, Zenon
<1>11. Made(header, f, pos) BY <1>1, <1>5, <1>6, <1>7, <1>10, MadeOn
<1>12. f # NoField
  <2>1. f.tag \in Tag BY <1>1, <1>5 DEF Entry
  <2> QED BY <2>1 DEF NoField, Tag
<1>13. (start' = "BODY_READY" <=> Line.kind = "empty") /\ start' # "BODY_READY" OBVIOUS
<1> QED BY <1>4, <1>6, <1>11, <1>12, <1>13, TidyTaken

\* A continuation that finds a body,
LEMMA TidyContinue == ASSUME ScanInv, Tidy, TidyInv, Continue PROVE TidyInv'
<1>1. /\ Scanning /\ Ahead /\ start = "INITIAL" /\ Line.kind \in {"cont", "blank"} /\ ~AtHeaderEnd
      /\ field # NoField /\ Advance(1, FALSE) /\ start' = "INITIAL"
  BY DEF Continue, AtContinuation, At
<1>2. Line.kind = "cont"
  <2>1. Line.kind = "blank" => header[pos + 1].kind = "dot" BY <1>1, AtTidyLine
  <2>2. Line.kind # "blank" BY <2>1, <1>1 DEF AtHeaderEnd, At
  <2> QED BY <1>1, <2>2
<1>3. header[pos - 1].kind # "empty" BY <1>1 DEF TidyInv, OpenField
<1>4. Folded = <<" ">> \o Blanks(Line.text) \o <<" ">> BY <1>2 DEF Folded
<1>5. PICK more : more = <<" ">> \o Blanks(Line.text) \o <<" ">> OBVIOUS
<1>6. Parser([field EXCEPT !.body = @ \o more, !.lines = Append(@, pos)])
  BY <1>4, <1>5, Zenon DEF Continue
<1>7. more = IF header[pos - 1].kind = "empty" THEN Line.text
             ELSE <<" ">> \o Blanks(Line.text) \o <<" ">>
  BY <1>3, <1>5, Zenon
<1>8. Parser([field EXCEPT !.body = @ \o (IF header[pos - 1].kind = "empty" THEN Line.text
                                              ELSE <<" ">> \o Blanks(Line.text) \o <<" ">>),
                           !.lines = Append(@, pos)])
  BY <1>6, <1>7, Zenon
<1> QED BY <1>1, <1>2, <1>8, TidyGoesOn

\* and one that is the first body of its field.
LEMMA TidyBody == ASSUME ScanInv, Tidy, TidyInv, BodyFromNextLine PROVE TidyInv'
<1>1. /\ Scanning /\ start = "BODY_READY" /\ Ahead /\ field # NoField
      /\ Advance(1, FALSE) /\ start' = "INITIAL"
      /\ Parser([field EXCEPT !.body = Raw, !.lines = Append(@, pos)])
  BY DEF BodyFromNextLine, ScanInv, ScanTypes, TypeOK
<1>2. Made(header, field, pos - 1) /\ header[pos - 1].kind = "empty" BY <1>1 DEF TidyInv, OpenField
<1>3. pos - 1 \in 1..Len(header) - 2 /\ pos - 1 \in 1..Len(header) /\ (pos - 1) + 1 = pos
  <2>1. pos - 1 \in 1..Len(header) - 1 BY <1>2 DEF Made
  <2>2. pos \in 1..Len(header) - 1 /\ Len(header) \in Nat BY <1>1, AtTidyLine
  <2> QED BY <2>1, <2>2
<1>4. /\ Len(header) \in Nat /\ DOMAIN header = 1..Len(header) /\ header[pos].kind = "cont"
  <2>1. header \in Answers BY DEF ScanInv, ScanTypes
  <2> QED BY <2>1, <1>2, <1>3, TidyLines
<1>5. Line.kind = "cont" /\ Raw = Line.text BY <1>4 DEF Line, Raw
<1>6. field.body = <<>> BY <1>1 DEF TidyInv, OpenField
<1>7. Raw = <<>> \o Line.text
  <2>1. Line.text \in Seq(Char) BY <1>1, AtLine DEF HeaderLine, Text
  <2> QED BY <2>1, <1>5
<1>8. field \in Entry BY <1>1, AtLine
<1>9. PICK more : more = IF header[pos - 1].kind = "empty" THEN Line.text
                         ELSE <<" ">> \o Blanks(Line.text) \o <<" ">>
  OBVIOUS
<1>10. field.body \o more = Raw BY <1>2, <1>6, <1>7, <1>9, Zenon
<1>11. Parser([field EXCEPT !.body = @ \o more, !.lines = Append(@, pos)])
  BY <1>1, <1>8, <1>10
<1>12. Parser([field EXCEPT !.body = @ \o (IF header[pos - 1].kind = "empty" THEN Line.text
                                              ELSE <<" ">> \o Blanks(Line.text) \o <<" ">>),
                            !.lines = Append(@, pos)])
  BY <1>11, <1>9, Zenon
<1> QED BY <1>1, <1>5, <1>12, TidyGoesOn

\* A tidy header has no line for these.
LEMMA TidyNever ==
    ASSUME ScanInv, Tidy, TidyInv PROVE ~TagGoesOn /\ ~SkipJunk /\ ~SyntaxError
<1>1. ~TagGoesOn
  <2> SUFFICES ASSUME TagGoesOn PROVE FALSE OBVIOUS
  <2>1. Scanning /\ start = "BODY_READY" /\ Ahead /\ field # NoField /\ Line.kind = "blank"
    BY DEF TagGoesOn, ScanInv, ScanTypes, TypeOK
  <2>2. Made(header, field, pos - 1) /\ header[pos - 1].kind = "empty"
    BY <2>1 DEF TidyInv, OpenField
  <2>3. pos - 1 \in 1..Len(header) - 2 /\ (pos - 1) + 1 = pos
    <3>1. pos - 1 \in 1..Len(header) - 1 BY <2>2 DEF Made
    <3>2. pos \in 1..Len(header) - 1 /\ Len(header) \in Nat BY <2>1, AtTidyLine
    <3> QED BY <3>1, <3>2
  <2>4. header[pos].kind = "cont"
    <3>1. header \in Answers BY DEF ScanInv, ScanTypes
    <3> QED BY <3>1, <2>2, <2>3, TidyLines
  <2> QED BY <2>1, <2>4 DEF Line
<1>2. ~SkipJunk BY AtTidyLine DEF SkipJunk, At
<1>3. ~SyntaxError
  <2> SUFFICES ASSUME SyntaxError PROVE FALSE OBVIOUS
  <2>1. /\ Scanning /\ Ahead /\ start = "INITIAL" /\ field = NoField
        /\ Line.kind \in {"cont", "from"} \/ (Line.kind = "blank" /\ ~AtHeaderEnd)
    BY DEF SyntaxError, AtContinuation, At
  <2>2. Line.kind # "cont" BY <2>1 DEF TidyInv, Line
  <2>3. Line.kind = "blank" /\ header[pos + 1].kind = "dot" BY <2>1, <2>2, AtTidyLine
  <2> QED BY <2>1, <2>3 DEF AtHeaderEnd, At
<1> QED BY <1>1, <1>2, <1>3

\* Nothing the invariant looks at changes, but the scan may be over.
LEMMA TidyStays ==
    ASSUME TidyInv, UNCHANGED <<cfg, entries, header, pos, start, newline, field>>,
           result' = result \/ result' = "ok"
    PROVE  TidyInv'
<1>1. Unfolded(header, entries)' BY Zenon DEF TidyInv
<1>2. OpenField' BY Zenon DEF TidyInv, OpenField
<1>3. (result = "failed" => entries # <<>> /\ Refused(Last(entries).tag, Last(entries).body))'
  <2> SUFFICES ASSUME result' = "failed"
               PROVE  (entries # <<>> /\ Refused(Last(entries).tag, Last(entries).body))'
    OBVIOUS
  <2>1. result = "failed" OBVIOUS
  <2> QED BY <2>1, Zenon DEF TidyInv, Refused
<1> QED BY <1>1, <1>2, <1>3 DEF TidyInv, Ahead

\* Behind the blank line and the dot nothing is left to read.
LEMMA TidyEnd == ASSUME ScanInv, Tidy, TidyInv, HeaderEnd PROVE TidyInv'
<1>1. /\ Scanning /\ Ahead /\ Line.kind \in {"blank", "dot"} /\ field = NoField
      /\ pos' = pos + (IF Line.kind = "blank" THEN 2 ELSE 1) /\ newline' = FALSE
      /\ UNCHANGED <<headerVars, header, start, field>>
  BY DEF HeaderEnd, AtHeaderEnd, At, Advance
<1>2. /\ Len(header) \in Nat /\ pos \in Nat /\ Line.kind = "blank" /\ pos + 1 = Len(header)
  BY <1>1, AtTidyLine
<1>3. pos' = Len(header) + 1 BY <1>1, <1>2
<1>4. ~Ahead' BY <1>1, <1>2, <1>3 DEF Ahead
<1>5. UNCHANGED <<cfg, entries, result>> BY <1>1 DEF headerVars
<1>6. Unfolded(header, entries)' BY <1>1, <1>5, Zenon DEF TidyInv
<1>7. OpenField' BY <1>1 DEF OpenField
<1>8. result' # "failed" BY <1>1, <1>5 DEF Scanning
<1> QED BY <1>1, <1>3, <1>4, <1>5, <1>6, <1>7, <1>8 DEF TidyInv

\* The field on the stack is whole when it is stored.
LEMMA TidyReduce == ASSUME ScanInv, Tidy, TidyInv, Reduce PROVE TidyInv'
<1>1. /\ Scanning /\ field # NoField
      /\ ~Ahead \/ Line.kind \in {"field", "empty", "from", "blank", "dot"}
      /\ add_entry(field.tag, field.body, field.lines)
      /\ field' = NoField /\ UNCHANGED <<header, pos, start, newline>>
  BY DEF Reduce, AtHeaderEnd, At
<1>2. field \in Entry /\ entries \in Seq(Entry) /\ result = "none"
  BY <1>1, FieldKinds DEF ScanInv, Scanning
<1>3. /\ entries' = Append(entries, field) /\ cfg' = cfg
      /\ result' = result \/ (result' = "failed" /\ Refused(field.tag, field.body))
  <2>1. field = [tag |-> field.tag, body |-> field.body, lines |-> field.lines]
    BY <1>2 DEF Entry
  <2> QED BY <1>1, <2>1, Zenon DEF add_entry
<1>4. PICK es : es = Append(entries, field) OBVIOUS
<1>5. PICK n : n = Len(entries) OBVIOUS
<1>6. /\ n \in Nat /\ DOMAIN entries = 1..n /\ DOMAIN es = 1..n + 1 /\ Len(es) = n + 1
      /\ \A k \in 1..n : es[k] = entries[k]
      /\ es[n + 1] = field
  BY <1>2, <1>4, <1>5, WithField, Zenon
<1>7. Made(header, field, pos - 1) /\ pos - 1 \in 1..Len(header) - 1 /\ pos \in Nat
  <2>1. Made(header, field, pos - 1) /\ pos - 1 \in 1..Len(header) - 1
    BY <1>1 DEF TidyInv, OpenField, Made
  <2>2. pos \in 1..Len(header) + 1 BY DEF ScanInv, ScanTypes, TypeOK
  <2> QED BY <2>1, <2>2
<1>8. Ahead
  <2>1. Len(header) \in Nat BY HeaderLines DEF ScanInv, ScanTypes
  <2> QED BY <2>1, <1>7 DEF Ahead
<1>9. header[(pos - 1) + 1].kind # "cont"
  <2>1. (pos - 1) + 1 = pos BY <1>7
  <2> QED BY <2>1, <1>1, <1>8 DEF Line
<1>10. Unfolded(header, es)
  <2> SUFFICES ASSUME NEW k \in DOMAIN es
               PROVE  \E q \in 1..Len(header) - 1 : Made(header, es[k], q) /\ header[q + 1].kind # "cont"
    BY DEF Unfolded
  <2>1. CASE k = n + 1 BY <2>1, <1>6, <1>7, <1>9, Zenon
  <2>2. CASE k # n + 1
    <3>1. k \in DOMAIN entries /\ es[k] = entries[k] BY <2>2, <1>6
    <3> QED BY <3>1, Zenon DEF TidyInv, Unfolded
  <2> QED BY <2>1, <2>2
<1>11. Unfolded(header, entries)' BY <1>1, <1>3, <1>4, <1>10, Zenon
<1>12. OpenField' BY <1>1 DEF OpenField
<1>13. ~(Ahead' /\ header'[pos'].kind = "cont") BY <1>1, <1>8 DEF Line
<1>14. result' = "failed" =>
           entries' # <<>> /\ (Refused(Last(entries).tag, Last(entries).body))'
  <2> SUFFICES ASSUME result' = "failed"
               PROVE  entries' # <<>> /\ (Refused(Last(entries).tag, Last(entries).body))'
    OBVIOUS
  <2>1. Refused(field.tag, field.body) BY <1>2, <1>3
  <2>2. es # <<>> /\ Last(es) = field
    <3>1. 1 \in DOMAIN es BY <1>6
    <3>2. es # <<>> BY <3>1
    <3> QED BY <3>2, <1>6, Zenon DEF Last
  <2>3. entries' = es BY <1>3, <1>4
  <2> QED BY <2>1, <2>2, <2>3, <1>3, Zenon DEF Refused
<1> QED BY <1>1, <1>2, <1>3, <1>11, <1>12, <1>13, <1>14 DEF TidyInv

\* Every step keeps this.
LEMMA TidyNext == ASSUME ScanInv, Tidy, TidyInv, [Next]_vars PROVE TidyInv'
<1>1. CASE Scan
  <2>1. CASE EndOfInput BY <2>1, TidyStays DEF EndOfInput, scanVars
  <2> QED BY <1>1, <2>1, TidyReduce, TidyTag, TidyBody, TidyContinue, TidyNever, TidyEnd, Zenon
          DEF Scan
<1>2. CASE Normalise /\ UNCHANGED scanVars
  <2>1. UNCHANGED <<cfg, entries, result>>
    BY <1>2, Zenon DEF Normalise, EraseSpace, EraseOther, KeepCharacter, Normalised, Loop
  <2> QED BY <1>2, <2>1, TidyStays DEF scanVars
<1>3. CASE UNCHANGED vars
  BY <1>3, TidyStays DEF vars, headerVars, scanVars
<1> QED BY <1>1, <1>2, <1>3, Zenon DEF Next

\* At the start there are no fields.
LEMMA TidyInit == ASSUME Init, Tidy PROVE TidyInv
<1>1. /\ entries = <<>> /\ result = "none" /\ header \in Answers
      /\ pos = 1 /\ start = "INITIAL" /\ newline = FALSE /\ field = NoField
  BY DEF Init, HeaderInit
<1>2. Len(header) \in Nat /\ Len(header) > 2 BY <1>1, TidyLines
<1>3. pos \in 1..Len(header) - 1 BY <1>1, <1>2
<1>4. header[1].kind # "cont"
  <2>1. 1 \in 1..Len(header) - 2 BY <1>2
  <2> QED BY <2>1, <1>1, TidyLines
<1>5. Unfolded(header, entries)
  <2>1. DOMAIN entries = {} BY <1>1
  <2> QED BY <2>1, Zenon DEF Unfolded
<1>6. OpenField BY <1>1 DEF OpenField
<1> QED BY <1>1, <1>3, <1>4, <1>5, <1>6 DEF TidyInv

\* At the end the fields are those of the header, unfolded and in order.
LEMMA TidyDone ==
    ASSUME ScanInv, Tidy, TidyInv, result = "ok"
    PROVE  IsUnfolded(header, entries)
<1>1. /\ Len(header) \in Nat /\ DOMAIN header = 1..Len(header) /\ header \in Answers
  <2>1. header \in Answers BY DEF ScanInv, ScanTypes
  <2> QED BY <2>1, TidyLines
<1>2. entries \in Seq(Entry) /\ Taken = entries /\ Accounted(header, entries, pos)
  <2>1. field = NoField /\ ScanTypes /\ Accounted(header, Taken, pos) BY DEF ScanInv
  <2> QED BY <2>1, FieldKinds, Zenon DEF Taken
<1>3. pos = Len(header) + 1
  <2>1. ~Ahead /\ pos \in 1..Len(header) + 1 BY DEF ScanInv, ScanTypes, TypeOK
  <2> QED BY <2>1, <1>1 DEF Ahead
<1>4. PICK n \in Nat : n = Len(entries) BY <1>2
<1>5. DOMAIN entries = 1..n BY <1>2, <1>4
<1>6. PICK P : P = FieldLines(header) OBVIOUS
<1>7. P \subseteq 1..Len(header) BY <1>1, <1>6 DEF FieldLines
<1> DEFINE at == [k \in 1..n |-> entries[k].lines[1]]
<1>8. \A k \in 1..n : \E q \in 1..Len(header) - 1 :
          Made(header, entries[k], q) /\ header[q + 1].kind # "cont"
  BY <1>5, Zenon DEF TidyInv, Unfolded
<1>9. \A k \in 1..n : 1 \in DOMAIN entries[k].lines /\ at[k] = entries[k].lines[1] /\ at[k] \in P
  BY <1>6, <1>8, Zenon DEF Made
<1>10. \A k \in 1..n : \A m \in DOMAIN entries[k].lines :
           m > 1 => header[entries[k].lines[m]].kind = "cont"
  BY <1>8, Zenon DEF Made
<1>11. Enumerates(at, n, P)
  <2>1. at \in [1..n -> Nat]
    <3>1. \A k \in 1..n : entries[k].lines[1] \in P BY <1>9, Zenon
    <3>2. \A p \in P : p \in Nat BY <1>7
    <3>3. \A k \in 1..n : entries[k].lines[1] \in Nat BY <3>1, <3>2, Zenon
    <3> QED BY <3>3, Zenon
  <2>2. P \subseteq Nat BY <1>7
  <2> HIDE DEF at
  <2>3. \A k, l \in 1..n : k < l => at[k] < at[l]
    <3>1. Ordered(entries) BY <1>2, Zenon DEF Accounted
    <3> TAKE k, l \in 1..n
    <3> HAVE k < l
    <3>2. k \in DOMAIN entries /\ l \in DOMAIN entries BY <1>5, Zenon
    <3>3. /\ 1 \in DOMAIN entries[k].lines /\ at[k] = entries[k].lines[1]
          /\ 1 \in DOMAIN entries[l].lines /\ at[l] = entries[l].lines[1]
      BY <1>9, Zenon
    <3>4. entries[k].lines[1] < entries[l].lines[1] BY <3>1, <3>2, <3>3, Zenon DEF Ordered
    <3> QED BY <3>3, <3>4, Zenon
  <2>4. \A p \in P : \E k \in 1..n : at[k] = p
    <3> TAKE p \in P
    <3>1. p \in 1..pos - 1 /\ header[p].kind \in {"field", "empty"}
      BY <1>1, <1>3, <1>6, <1>7 DEF FieldLines
    <3>2. header[p].kind \in {"field", "empty", "cont", "from"} BY <3>1
    <3>3. PICK k \in DOMAIN entries : \E m \in DOMAIN entries[k].lines : entries[k].lines[m] = p
      BY <3>1, <3>2, <1>2, Zenon DEF Accounted
    <3>4. PICK m \in DOMAIN entries[k].lines : entries[k].lines[m] = p BY <3>3
    <3>5. ~(m > 1)
      <4>1. header[p].kind # "cont" BY <3>1
      <4> QED BY <4>1, <3>4, <1>5, <1>10, Zenon
    <3>6. m \in Nat \ {0}
      <4>1. entries[k] \in Entry BY <1>2
      <4>2. DOMAIN entries[k].lines = 1..Len(entries[k].lines) /\ Len(entries[k].lines) \in Nat
        BY <4>1, LinesOf
      <4> QED BY <4>2
    <3>7. m = 1 BY <3>5, <3>6
    <3> QED BY <3>4, <3>7, <1>5, <1>9, Zenon
  <2> QED BY <2>1, <2>2, <2>3, <2>4, <1>9, Zenon DEF Enumerates
<1> HIDE DEF at
<1>12. Cardinality(P) = n /\ \A l \in 1..n : Cardinality(UpTo(P, at[l])) = l
  BY <1>11, CountUpTo, Zenon
<1>13. ASSUME NEW p \in P
       PROVE  \E q \in 1..Len(header) - 1 :
                 LET e == entries[Cardinality({l \in P : l <= p})]
                 IN  Spans(header, p, q) /\ e.tag = header[p].tag
                     /\ Unfolds(header, p, q, e.body)
  <2>1. PICK k \in 1..n : at[k] = p BY <1>11, Zenon DEF Enumerates
  <2>2. Cardinality({l \in P : l <= p}) = k BY <2>1, <1>12, Zenon DEF UpTo
  <2>3. PICK q \in 1..Len(header) - 1 : Made(header, entries[k], q) /\ header[q + 1].kind # "cont"
    BY <1>8, Zenon
  <2>4. entries[k].lines[1] = p BY <2>1, <1>9, Zenon
  <2>5. /\ Spans(header, p, q) /\ entries[k].tag = header[p].tag
        /\ Unfolds(header, p, q, entries[k].body)
    BY <2>3, <2>4, Zenon DEF Made, Spans
  <2> QED BY <2>2, <2>5, Zenon
<1> QED BY <1>4, <1>6, <1>12, <1>13, Zenon DEF IsUnfolded

\* A tidy header is unfolded as it should be, and never ends the program.
THEOREM TidyHeadersUnfolded == Spec => []TidyHeaders
<1>1. Init => ScanInv /\ (Tidy => TidyInv) BY InitScanInv, TidyInit
<1>2. ScanInv /\ (Tidy => TidyInv) /\ [Next]_vars => ScanInv' /\ (Tidy => TidyInv)'
  <2> SUFFICES ASSUME ScanInv, Tidy => TidyInv, [Next]_vars
               PROVE  ScanInv' /\ (Tidy => TidyInv)'
    OBVIOUS
  <2>1. header' = header
    BY Zenon DEF Next, Scan, Reduce, TagAndBody, TagAlone, TagGoesOn, BodyFromNextLine, Continue,
       SyntaxError, rfcerror, SkipJunk, HeaderEnd, EndOfInput, Advance, vars, scanVars
  <2>2. Tidy' = Tidy BY <2>1, Zenon DEF Tidy
  <2> QED BY <2>2, NextScanInv, TidyNext, Zenon
<1>3. ScanInv /\ (Tidy => TidyInv) => TidyHeaders
  BY TidyDone, Zenon DEF TidyHeaders, TidyInv
<1> QED BY <1>1, <1>2, <1>3, PTL DEF Spec
=============================================================================
